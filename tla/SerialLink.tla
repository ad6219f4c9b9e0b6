----------------------------- MODULE SerialLink -----------------------------
(***************************************************************************)
(* The serial port to the OLIMEXINO (src/src/driver/olimexino_serial.cpp): *)
(* the reader thread opens the port, cuts what comes in into lines and     *)
(* closes the port when it is lost; any thread writes lines.  A character  *)
(* is a line's number and its place in the line, or the end of a line.     *)
(***************************************************************************)
EXTENDS Integers, Sequences, SequencesExt

CONSTANTS
    Lines,       \* length of each line of the board; it sends them in turn
    MaxLine,     \* MAX_LINE
    Chunk,       \* characters of a read(), and of what is under way
    Commands,    \* length of each line a client may write
    MaxCommand,  \* characters of an unfinished line at the board (bound)
    None

ASSUME LinkAssumption ==
    /\ Lines \in Seq(Nat \ {0}) /\ Lines # <<>> /\ None \notin DOMAIN Lines
    /\ MaxLine \in Nat \ {0} /\ Chunk \in Nat \ {0} /\ MaxCommand \in Nat
    /\ Commands \in Seq(Nat \ {0})

VARIABLES
    plugged,   \* the device is there (external)
    sending,   \* the character the board sends next (external)
    wire,      \* characters that have come to the port and are not read yet (external)
    port,      \* closed (fd < 0), open, or dead: open, but the device it was opened on is gone
    buffer,    \* the reader's
    received,  \* the lines the last read() gave to on_line()
    before,    \* number of the last line given before those, since the port was opened
    command,   \* what has come to the board of a line (external)
    executed,  \* the last line that came to the board (external)
    short      \* history: a part of command is left from a write() that was short

readerVars == <<buffer, received, before>>
boardVars == <<command, executed, short>>
vars == <<plugged, sending, wire, port, readerVars, boardVars>>

End == <<0, 0>>
Text(l, length) == [i \in 1..length |-> <<l, i>>]

Init ==
    /\ plugged \in BOOLEAN /\ sending = <<1, 1>> /\ wire = <<>>
    /\ port = "closed" /\ buffer = <<>> /\ received = <<>> /\ before = None
    /\ command = <<>> /\ executed = <<>> /\ short = FALSE

-----------------------------------------------------------------------------
\* The board sends on, whether or not there is a port that takes it.
BoardSends ==
    /\ Len(wire) < Chunk
    /\ LET l == sending[1]  i == sending[2] IN
        /\ wire' = IF port # "open" THEN wire ELSE Append(wire, IF i <= Lines[l] THEN sending ELSE End)
        /\ sending' = IF i <= Lines[l] THEN <<l, i + 1>> ELSE <<(l % Len(Lines)) + 1, 1>>
    /\ UNCHANGED <<plugged, port, readerVars, boardVars>>

\* The cable, or a reset of the board, which then forgets the line it was reading.
Unplug ==
    /\ plugged /\ plugged' = FALSE /\ wire' = <<>>
    /\ port' = IF port = "open" THEN "dead" ELSE port
    /\ \/ UNCHANGED <<command, short>>
       \/ command' = <<>> /\ short' = FALSE
    /\ UNCHANGED <<sending, readerVars, executed>>
Plug ==
    /\ ~plugged /\ plugged' = TRUE
    /\ UNCHANGED <<sending, wire, port, readerVars, boardVars>>

\* open_port() with its tcflush(), and buffer.clear().
\* Mutant: what was read before stays.
MutBufferAfterOpen == buffer
BufferAfterOpen == <<>>
Open ==
    /\ port = "closed" /\ plugged /\ port' = "open"
    /\ wire' = <<>> /\ buffer' = BufferAfterOpen /\ received' = <<>> /\ before' = None
    /\ UNCHANGED <<plugged, sending, boardVars>>

\* lost(): poll() or read() fail or find nothing, at the latest when the
\* device is gone, also if it is back by then.
\* Mutant: the descriptor is closed and kept.
MutPortAfterLost == "dead"
PortAfterLost == "closed"
Lost ==
    /\ port # "closed" /\ port' = PortAfterLost /\ wire' = <<>>
    /\ UNCHANGED <<plugged, sending, readerVars, boardVars>>

\* A character in read_loop(); got is the buffer and the lines so far.
\* Mutant: one line of a read() is given on.
Ended(got) == IF got.buffer = <<>> THEN got ELSE [buffer |-> <<>>, lines |-> Append(got.lines, got.buffer)]
MutTakeOne(got, c) ==
    IF c = End THEN Ended([got EXCEPT !.lines = <<>>])
    ELSE [got EXCEPT !.buffer = IF Len(@) < MaxLine THEN Append(@, c) ELSE <<>>]
Take(got, c) ==
    IF c = End THEN Ended(got)
    ELSE [got EXCEPT !.buffer = IF Len(@) < MaxLine THEN Append(@, c) ELSE <<>>]

TakeAll(got, s) ==
    LET took[k \in 0..Len(s)] == IF k = 0 THEN got ELSE Take(took[k - 1], s[k])
    IN took[Len(s)]

\* poll() tells of data, and a read() takes n characters.
ReadChunk(n) ==
    /\ port = "open" /\ n \in 1..Len(wire)
    /\ LET got == TakeAll([buffer |-> buffer, lines |-> <<>>], SubSeq(wire, 1, n)) IN
        buffer' = got.buffer /\ received' = got.lines
    /\ before' = IF received = <<>> THEN before ELSE Last(received)[1][1]
    /\ wire' = SubSeq(wire, n + 1, Len(wire))
    /\ UNCHANGED <<plugged, sending, port, boardVars>>

\* What comes to the board of a write().
Arrives(s, isShort) ==
    IF Last(s) = End
    THEN executed' = command \o Front(s) /\ command' = <<>> /\ short' = FALSE
    ELSE command' = command \o s /\ short' = (short \/ isShort) /\ UNCHANGED executed

\* write_line(), under fd_mutex: all of it goes out in one write(), or with a
\* full output buffer a part, which is told to the caller and not completed.
\* Mutant: the text and its end are written one after the other.
Data(c) == Append(Text(c, Commands[c]), End)
CanWrite(c) == port = "open" /\ Len(command) + Commands[c] <= MaxCommand
MutWriteLine(c) ==
    /\ CanWrite(c)
    /\ Arrives(Text(c, Commands[c]), FALSE) \/ Arrives(<<End>>, FALSE)
    /\ UNCHANGED <<plugged, sending, wire, port, readerVars>>
WriteLine(c) ==
    /\ CanWrite(c)
    /\ \E n \in 1..Len(Data(c)) : Arrives(SubSeq(Data(c), 1, n), n < Len(Data(c)))
    /\ UNCHANGED <<plugged, sending, wire, port, readerVars>>

Next ==
    \/ BoardSends \/ Unplug \/ Plug \/ Open \/ Lost
    \/ \E n \in 1..Chunk : ReadChunk(n)
    \/ \E c \in DOMAIN Commands : WriteLine(c)
Spec == Init /\ [][Next]_vars

\* The reader thread runs: it looks for the device every REOPEN_PERIOD, and
\* poll() and read() on a dead descriptor fail.
FairSpec == Spec /\ WF_vars(Open) /\ WF_vars(port = "dead" /\ Lost)

-----------------------------------------------------------------------------
\* What is given to on_line() is the end of one line of the board, never two
\* pieces put together.  It is the whole of it, but for the first line after
\* the port was opened, which may have begun before, and for what a line
\* beyond MAX_LINE leaves over each time the buffer is emptied.
ReceivedWhole ==
    \A i \in DOMAIN received :
        LET l == received[i][1][1]  k == received[i][1][2] IN
        /\ received[i] = SubSeq(Text(l, Lines[l]), k, Lines[l])
        /\ k # 1 /\ ~(i = 1 /\ before = None) => k % (MaxLine + 1) = 1

\* While a port is open no line is left out, given twice or given out of
\* turn, however read() cuts the stream; except a line whose last character is
\* the one that empties the buffer: nothing is left of it.
Vanishes(l) == Lines[l] % (MaxLine + 1) = 0
InOrder ==
    LET given == (IF before = None THEN <<>> ELSE <<before>>)
                     \o [i \in DOMAIN received |-> received[i][1][1]]
    IN \A i \in 1..Len(given) - 1 : \E d \in 1..Len(Lines) :
          /\ given[i + 1] = 1 + ((given[i] + d - 1) % Len(Lines))
          /\ \A e \in 1..d - 1 : Vanishes(1 + ((given[i] + e - 1) % Len(Lines)))

\* A line that comes to the board ends in a whole command, and is nothing else
\* if no write() was short since the line before: commands of several threads,
\* and of one port and the next, are not mixed.
IsCommand(s) == \E c \in DOMAIN Commands : s = Text(c, Commands[c])
CommandsArrive ==
    [][executed' # executed =>
          /\ \E n \in 1..Len(executed') : IsCommand(SubSeq(executed', n, Len(executed')))
          /\ ~short => IsCommand(executed')]_vars

\* A device that is there is opened again, unless it goes away before.
PortComesBack == plugged ~> port = "open" \/ ~plugged
=============================================================================
