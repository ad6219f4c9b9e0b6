-------------------------------- MODULE Hx711 --------------------------------
(***************************************************************************)
(* The driver of a weight cell (src/src/driver/hx711.cpp), called by one   *)
(* reader thread.  Every call is a sequence of reads; a read clocks the    *)
(* chip's value out and the gain in that the chip uses for the next one.   *)
(* A chip that does not answer costs two seconds per read, at most         *)
(* MaxTimeouts + 1 times in a row; a read without an answer is a value of  *)
(* 0 like any other.                                                       *)
(***************************************************************************)
EXTENDS Integers, Sequences, FiniteSets, SequencesExt

CONSTANTS
    RawSpan,      \* values a reading can have; 2^24
    LongSpan,     \* values a long can have; 2^64
    RawValues,    \* what the chip sends
    Gains,        \* that a client may set, besides 128
    MaxTimeouts,  \* maxTimeouts
    Times,        \* reads of a weight
    TareTimes,    \* reads of a tare
    Unit,         \* REFERENCE_UNIT
    None

ASSUME HxAssumption ==
    /\ RawSpan \in Nat \ {0} /\ LongSpan \in Nat /\ RawValues \subseteq 0..RawSpan - 1
    /\ TareTimes * RawSpan < LongSpan  \* times is an int: at most 2^31 * 2^24
    /\ Gains \subseteq {32, 64, 128} /\ MaxTimeouts \in Nat
    /\ Times \in Nat \ {0} /\ TareTimes \in Nat /\ TareTimes >= 5 /\ Unit # 1

VARIABLES
    gain,       \* get_gain()
    chipGain,   \* the gain the chip's next value has (external)
    answers,    \* the chip has values to send (external)
    timeouts, sensorOk,
    unit,       \* REFERENCE_UNIT, REFERENCE_UNIT_B
    call,       \* the call under way: what it is, the reads it still has to do, those it keeps
    result      \* of the last call: a weight's median, or the zero point for OFFSET or OFFSET_B,
                \* which no other value here depends on

vars == <<gain, chipGain, answers, timeouts, sensorOk, unit, call, result>>

\* A read and the gain that is set before it; keep is FALSE for set_gain()'s own.
Reads(times, g, keep) == [i \in 1..times |-> [gain |-> g, keep |-> keep]]
Call(op, todo) == [op |-> op, todo |-> todo, got |-> <<>>]
Idle == Call("none", <<>>)
Nothing == [op |-> "none", got |-> <<>>, value |-> 0]
Channel(op) == IF op \in {"weightB", "tareB"} THEN "B" ELSE "A"

\* The constructor, after its set_gain(128), and set_reference_unit().
Init ==
    /\ gain = 128 /\ chipGain = 128 /\ answers \in BOOLEAN
    /\ timeouts = 0 /\ sensorOk = TRUE
    /\ unit = [c \in {"A", "B"} |-> Unit]
    /\ call = Call("setGain", Reads(1, 128, FALSE)) /\ result = Nothing

---------------------------------------------------------------------------
\* convertFromTwosComplement24bit()
Signed(raw, span) == IF 2 * raw >= span THEN raw - span ELSE raw

\* A value of the chip: readRawBytes() to its end, read_long().
\* Mutant: only the pulses of a gain of 128 are sent.
MutGainAfter(g) == 128
GainAfter(g) == g
Answer(next) ==
    /\ answers
    /\ timeouts' = 0
    /\ chipGain' = GainAfter(next.gain)
    /\ \E raw \in RawValues :
        call' = [call EXCEPT !.todo = Tail(@),
            !.got = IF next.keep THEN Append(@, [value |-> Signed(raw, RawSpan), gain |-> chipGain]) ELSE @]
    /\ UNCHANGED sensorOk

GivesUp == timeouts > MaxTimeouts

\* No value in time: zero bytes, after two seconds or, once there were too
\* many timeouts in a row, at once.
\* Mutant: a chip that does not answer is waited for.
MutNoAnswer(next) == answers /\ Answer(next)
NoAnswer(next) ==
    /\ ~answers
    /\ IF GivesUp
       THEN sensorOk' = FALSE /\ UNCHANGED timeouts
       ELSE timeouts' = timeouts + 1 /\ UNCHANGED sensorOk
    /\ call' = [call EXCEPT !.todo = Tail(@),
            !.got = IF next.keep THEN Append(@, [value |-> 0, gain |-> None]) ELSE @]
    /\ UNCHANGED chipGain

\* The next read of the call, after the set_gain() that leads to it.
Read ==
    /\ call.todo # <<>>
    /\ gain' = Head(call.todo).gain
    /\ Answer(Head(call.todo)) \/ NoAnswer(Head(call.todo))
    /\ UNCHANGED <<answers, unit, result>>

---------------------------------------------------------------------------
Values(got) == [i \in DOMAIN got |-> got[i].value]

\* std::sort(): at k is the value that fewer than k are below, and k not above.
Below(v, x) == {i \in DOMAIN v : v[i] < x}
UpTo(v, x) == {i \in DOMAIN v : v[i] <= x}
Kth(v, k) == CHOOSE x \in Range(v) : Cardinality(Below(v, x)) < k /\ k <= Cardinality(UpTo(v, x))
Sorted(got) == [k \in DOMAIN got |-> Kth(Values(got), k)]

\* std::accumulate()
SumOf(s) ==
    LET sum[k \in 0..Len(s)] == IF k = 0 THEN 0 ELSE sum[k - 1] + s[k] IN sum[Len(s)]

\* read_median(), in halves of a reading.
\* Mutant: the middle is taken of the values as they came.
MutMedian(got) == 2 * Values(got)[Len(got) \div 2 + 1]
Median(got) ==
    LET s == Sorted(got)  mid == Len(got) \div 2 IN
    IF Len(got) % 2 = 1 THEN 2 * s[mid + 1] ELSE s[mid] + s[mid + 1]

\* read_average(): a fifth of the values is left out on either side.  The
\* sum is divided by the vector's size, which is unsigned: so is the sum.
Trim(n) == n \div 5
\* Mutant: outliers are left out at the lower end only.
MutKeptValues(got) == SubSeq(Sorted(got), Trim(Len(got)) + 1, Len(got))
KeptValues(got) == SubSeq(Sorted(got), Trim(Len(got)) + 1, Len(got) - Trim(Len(got)))
Average(got) ==
    LET s == KeptValues(got) IN Signed((SumOf(s) % LongSpan) \div Len(s), LongSpan)

\* What a call does after its last read.
Return ==
    /\ call.op # "none" /\ call.todo = <<>>
    /\ call' = Idle
    /\ result' =
        IF call.op \in {"weightA", "weightB"}
        THEN [op |-> call.op, got |-> call.got, value |-> Median(call.got)]
        ELSE IF call.op \in {"tareA", "tareB"}
        THEN [op |-> call.op, got |-> call.got, value |-> Average(call.got)]
        ELSE Nothing
    /\ unit' = IF call.op \in {"tareA", "tareB"}
               THEN [unit EXCEPT ![Channel(call.op)] = Unit] ELSE unit
    /\ UNCHANGED <<gain, chipGain, answers, timeouts, sensorOk>>

---------------------------------------------------------------------------
Begin(c) == call.op = "none" /\ call' = c /\ result' = Nothing

\* get_weight_A() and get_weight_B(), which sets the gain to 32 and back.
GetWeightA == Begin(Call("weightA", Reads(Times, gain, TRUE)))
GetWeightB == Begin(Call("weightB",
    Reads(1, 32, FALSE) \o Reads(Times, 32, TRUE) \o Reads(1, gain, FALSE)))

\* tare_A() and tare_B(): with a reference unit of 1 meanwhile.
TareA ==
    /\ Begin(Call("tareA", Reads(TareTimes, gain, TRUE)))
    /\ unit' = [unit EXCEPT !["A"] = 1]
TareB ==
    /\ Begin(Call("tareB",
        Reads(1, 32, FALSE) \o Reads(TareTimes, 32, TRUE) \o Reads(1, gain, FALSE)))
    /\ unit' = [unit EXCEPT !["B"] = 1]

SetGain(g) == Begin(Call("setGain", Reads(1, g, FALSE)))

\* reset(): power_down(), which resets the chip, and power_up(), which takes
\* the lock a second time, and never gets it, if the gain is not 128.
Reset ==
    /\ Begin(IF gain = 128 THEN Idle ELSE Call("locked", <<>>))
    /\ chipGain' = 128

Client ==
    /\ \/ /\ GetWeightA \/ GetWeightB \/ \E g \in Gains : SetGain(g)
          /\ UNCHANGED <<chipGain, unit>>
       \/ TareA /\ UNCHANGED chipGain
       \/ TareB /\ UNCHANGED chipGain
       \/ Reset /\ UNCHANGED unit
    /\ UNCHANGED <<gain, answers, timeouts, sensorOk>>

\* The chip stops sending values, or sends them again (external).
ChipChanges ==
    /\ answers' = ~answers
    /\ UNCHANGED <<gain, chipGain, timeouts, sensorOk, unit, call, result>>

Next == Client \/ Read \/ (call.op # "locked" /\ Return) \/ ChipChanges
Spec == Init /\ [][Next]_vars
\* The reader thread runs; its loop over is_ready() is part of the read.
FairSpec == Spec /\ WF_vars(Read) /\ WF_vars(call.op # "locked" /\ Return)

---------------------------------------------------------------------------
\* The values a call asked for: measured, and with the gain of its channel.
WantedGain(c) == IF Channel(c.op) = "B" THEN 32 ELSE gain
Good(c) == {i \in DOMAIN c.got : c.got[i].gain = WantedGain(c)}
Between(lo, x, hi) == lo <= x /\ x <= hi
IsWithin(c, x, scale) ==
    \E i, j \in Good(c) : Between(scale * c.got[i].value, x, scale * c.got[j].value)

\* A weight is one that was measured as long as more than half of its reads
\* were answered with the gain of its channel: the zeros of reads that timed
\* out, and a value of the other channel, do not get through the median.
WeightIsMeasured ==
    result.op \in {"weightA", "weightB"} /\ 2 * Cardinality(Good(result)) > Len(result.got) =>
        IsWithin(result, result.value, 2)

\* A zero point is one that was measured as long as no more of its reads are
\* zeros or strays than are trimmed, for values whose sum is not negative.
TareIsMeasured ==
    /\ result.op \in {"tareA", "tareB"}
    /\ Len(result.got) - Cardinality(Good(result)) <= Trim(Len(result.got))
    /\ SumOf(KeptValues(result.got)) >= 0
    => IsWithin(result, result.value, 1)

\* "Tare (A): set the current reading as the zero point" (hx711.hpp line 43):
\* the same for any values.
TareSetsZero ==
    result.op \in {"tareA", "tareB"} /\ Cardinality(Good(result)) = Len(result.got) =>
        IsWithin(result, result.value, 1)

\* The gain "takes effect only after a call to read()" (hx711.hpp line 16),
\* and a read that times out does not set it: once a read of a call is
\* answered, no later value of the call is of another gain or channel.
OneStrayReading ==
    \A i, j \in DOMAIN call.got :
        i < j /\ call.got[i].gain # None =>
            call.got[j].gain \in {None, WantedGain(call)}

\* Every call returns, also if the chip never answers again, unless reset()
\* has locked itself out.
CallReturns == call.op # "none" ~> (call.op \in {"none", "locked"})
=============================================================================
