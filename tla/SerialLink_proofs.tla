-------------------------- MODULE SerialLink_proofs --------------------------
(***************************************************************************)
(* Theorems about the serial port: how the reader cuts the stream into     *)
(* lines, whatever the pieces read() gives it, and what comes of a write.  *)
(***************************************************************************)
EXTENDS SerialLink, TLAPS, WellFoundedInduction

(* Induction, through the least number that a set leaves out.              *)

LEMMA LeastNat ==
    ASSUME NEW T \in SUBSET Nat, T # {}
    PROVE  \E x \in T : \A y \in T : x <= y
<1>1. IsWellFoundedOn(OpToRel(<, Nat), Nat)
  BY NatLessThanWellFounded
<1>2. PICK x \in T : \A y \in T : ~(<<y, x>> \in OpToRel(<, Nat))
  BY <1>1, WFMin
<1>3. \A y \in T : ~(y < x)
  BY <1>2 DEF OpToRel
<1>4. x \in Nat /\ \A y \in T : y \in Nat
  BY <1>2
<1>5. \A y \in T : x <= y
  BY <1>3, <1>4
<1> QED BY <1>2, <1>5

LEMMA NatInd ==
    ASSUME NEW T \in SUBSET Nat, 0 \in T, \A n \in T : n + 1 \in T
    PROVE  T = Nat
<1> SUFFICES ASSUME T # Nat PROVE FALSE
  OBVIOUS
<1>1. PICK x \in Nat \ T : \A y \in Nat \ T : x <= y
  <2>1. Nat \ T \in SUBSET Nat /\ Nat \ T # {}
    OBVIOUS
  <2> QED BY <2>1, LeastNat, Zenon
<1>2. x # 0 /\ x - 1 \in T
  BY <1>1
<1> QED BY <1>2, <1>1

-----------------------------------------------------------------------------
(* The characters of one read(), taken one after the other.                *)

IsTaking(f, got, s, n) == f = [k \in 0..n |-> IF k = 0 THEN got ELSE Take(f[k - 1], s[k])]

LEMMA TakingExists ==
    ASSUME NEW got, NEW s, Len(s) \in Nat
    PROVE  \E f : IsTaking(f, got, s, Len(s))
<1> DEFINE T == {n \in Nat : \E f : IsTaking(f, got, s, n)}
<1>1. 0 \in T
  <2> DEFINE f == [k \in 0..0 |-> got]
  <2>1. IsTaking(f, got, s, 0)
    BY DEF IsTaking
  <2> QED BY <2>1
<1>2. \A n \in T : n + 1 \in T
  <2> SUFFICES ASSUME NEW n \in T PROVE n + 1 \in T
    OBVIOUS
  <2>1. PICK f : IsTaking(f, got, s, n)
    OBVIOUS
  <2> DEFINE g == [k \in 0..n + 1 |-> IF k <= n THEN f[k] ELSE Take(f[n], s[n + 1])]
  <2>2. n \in Nat
    OBVIOUS
  <2>3. ASSUME NEW k \in 0..n + 1
        PROVE  g[k] = IF k = 0 THEN got ELSE Take(g[k - 1], s[k])
    <3>1. CASE k = 0
      BY <2>1, <2>2, <3>1 DEF IsTaking
    <3>2. CASE k # 0 /\ k <= n
      <4>1. g[k] = f[k] /\ g[k - 1] = f[k - 1]
        BY <2>2, <3>2
      <4>2. f[k] = Take(f[k - 1], s[k])
        BY <2>1, <2>2, <3>2 DEF IsTaking
      <4> QED BY <3>2, <4>1, <4>2
    <3>3. CASE k = n + 1
      <4>1. g[k] = Take(f[n], s[n + 1]) /\ g[n] = f[n] /\ k - 1 = n /\ k # 0
        BY <2>2, <3>3
      <4> QED BY <3>3, <4>1
    <3> QED BY <2>2, <3>1, <3>2, <3>3
  <2> HIDE DEF g
  <2>4. g = [k \in 0..n + 1 |-> g[k]]
    BY DEF g
  <2>5. IsTaking(g, got, s, n + 1)
    BY <2>3, <2>4 DEF IsTaking
  <2> QED BY <2>2, <2>5
<1>3. T = Nat
  <2> HIDE DEF T
  <2>1. T \in SUBSET Nat
    BY DEF T
  <2> QED BY <1>1, <1>2, <2>1, NatInd
<1>4. Len(s) \in T
  BY <1>3
<1> QED BY <1>4

\* What TakeAll() gives is the last of the steps.
LEMMA TakeAllSteps ==
    ASSUME NEW got, NEW s, Len(s) \in Nat
    PROVE  \E f : /\ TakeAll(got, s) = f[Len(s)] /\ f[0] = got
                  /\ \A k \in 1..Len(s) : f[k] = Take(f[k - 1], s[k])
<1> DEFINE f == CHOOSE g : IsTaking(g, got, s, Len(s))
<1>1. IsTaking(f, got, s, Len(s))
  BY TakingExists
<1>2. TakeAll(got, s) = f[Len(s)]
  BY DEF TakeAll, IsTaking
<1> HIDE DEF f
<1>3. f[0] = got /\ \A k \in 1..Len(s) : f[k] = Take(f[k - 1], s[k])
  BY <1>1 DEF IsTaking
<1> QED BY <1>2, <1>3

-----------------------------------------------------------------------------
(* Remainders.                                                             *)

LEMMA DivMod ==
    \A m \in Nat \ {0} : \A x \in Int :
        x \div m \in Int /\ x % m \in 0..m - 1 /\ x = (x \div m) * m + (x % m)
  OBVIOUS

LEMMA ModUnique ==
    \A m \in Nat \ {0} : \A q \in Int, r \in 0..m - 1 : (q * m + r) % m = r
  OBVIOUS

LEMMA Product == \A m \in Nat \ {0} : \A q \in Int : q * m \in Int /\ (q + 1) * m = q * m + m
  OBVIOUS

\* Counting on by one, within a period and at its end.
LEMMA ModNext ==
    ASSUME NEW m \in Nat \ {0}, NEW x \in Int
    PROVE  (x + 1) % m = IF x % m = m - 1 THEN 0 ELSE (x % m) + 1
<1> DEFINE q == x \div m
           r == x % m
<1>1. q \in Int /\ r \in 0..m - 1 /\ x = q * m + r
  BY DivMod
<1> HIDE DEF q
<1>2. q * m \in Int /\ (q + 1) * m = q * m + m /\ q + 1 \in Int
  BY <1>1, Product
<1> HIDE DEF r
<1>3. CASE r = m - 1
  <2>1. x + 1 = (q + 1) * m + 0 /\ 0 \in 0..m - 1
    BY <1>1, <1>2, <1>3
  <2>2. (x + 1) % m = 0
    BY <1>2, <2>1, ModUnique
  <2> QED BY <1>3, <2>2 DEF r
<1>4. CASE r # m - 1
  <2>1. x + 1 = q * m + (r + 1) /\ r + 1 \in 0..m - 1
    BY <1>1, <1>2, <1>4
  <2>2. (x + 1) % m = r + 1
    BY <1>1, <2>1, ModUnique
  <2> QED BY <1>4, <2>2 DEF r
<1> QED BY <1>3, <1>4

LEMMA ModAdd ==
    ASSUME NEW m \in Nat \ {0}, NEW x \in Int
    PROVE  (x + m) % m = x % m
<1> DEFINE q == x \div m
           r == x % m
<1>1. q \in Int /\ r \in 0..m - 1 /\ x = q * m + r
  BY DivMod
<1> HIDE DEF q
<1>2. q * m \in Int /\ (q + 1) * m = q * m + m /\ q + 1 \in Int
  BY <1>1, Product
<1> HIDE DEF r
<1>3. x + m = (q + 1) * m + r
  BY <1>1, <1>2
<1>4. (x + m) % m = r
  BY <1>1, <1>2, <1>3, ModUnique
<1> QED BY <1>4 DEF r

\* What is left of x after whole periods begins right after one of them.
LEMMA ModRest ==
    ASSUME NEW m \in Nat, m > 1, NEW x \in Int, NEW k \in Int, x - k + 1 = x % m
    PROVE  k % m = 1
<1> DEFINE q == x \div m
<1>1. q \in Int /\ x % m \in 0..m - 1 /\ x = q * m + (x % m)
  BY DivMod
<1> HIDE DEF q
<1>2. q * m \in Int
  BY <1>1, Product
<1>3. k = q * m + 1 /\ 1 \in 0..m - 1
  BY <1>1, <1>2
<1>4. (q * m + 1) % m = 1
  BY <1>1, <1>3, ModUnique
<1> QED BY <1>3, <1>4

-----------------------------------------------------------------------------
(* Places in what the board sends, and pieces of its lines.                *)

Place == UNION {{<<l, i>> : i \in 1..Lines[l] + 1} : l \in DOMAIN Lines}
Character(p) == IF p[2] <= Lines[p[1]] THEN p ELSE End
After(p) == IF p[2] <= Lines[p[1]] THEN <<p[1], p[2] + 1>> ELSE <<(p[1] % Len(Lines)) + 1, 1>>

\* The characters k to i - 1 of a line.
LineSet == Seq(Nat \X Nat)
Piece(l, k, i) == [j \in 1..i - k |-> <<l, k + j - 1>>]

LEMMA LineFacts ==
    /\ Len(Lines) \in Nat \ {0} /\ DOMAIN Lines = 1..Len(Lines)
    /\ \A l \in DOMAIN Lines : l \in Nat /\ Lines[l] \in Nat \ {0}
    /\ MaxLine \in Nat \ {0} /\ None \notin DOMAIN Lines
  BY LinkAssumption

LEMMA AfterIsPlace ==
    ASSUME NEW p \in Place
    PROVE  After(p) \in Place
<1>1. PICK l \in DOMAIN Lines : \E i \in 1..Lines[l] + 1 : p = <<l, i>>
  BY DEF Place
<1>2. PICK i \in 1..Lines[l] + 1 : p = <<l, i>>
  BY <1>1
<1>3. p[1] = l /\ p[2] = i /\ l \in DOMAIN Lines /\ i \in Nat \ {0}
  BY <1>1, <1>2, LineFacts
<1>4. CASE i <= Lines[l]
  <2>1. After(p) = <<l, i + 1>> /\ i + 1 \in 1..Lines[l] + 1
    BY <1>3, <1>4, LineFacts DEF After
  <2> QED BY <1>3, <2>1 DEF Place
<1>5. CASE ~(i <= Lines[l])
  <2>1. PICK n : n = Len(Lines)
    OBVIOUS
  <2>2. n \in Nat \ {0} /\ l \in Int
    BY <1>3, <2>1, LineFacts
  <2>3. l % n \in 0..n - 1
    BY <2>2, DivMod, Zenon
  <2>4. (l % Len(Lines)) + 1 \in DOMAIN Lines
    BY <2>1, <2>2, <2>3, LineFacts
  <2>5. 1 \in 1..Lines[(l % Len(Lines)) + 1] + 1
    BY <2>4, LineFacts
  <2>6. After(p) = <<(l % Len(Lines)) + 1, 1>>
    BY <1>3, <1>5 DEF After
  <2> QED BY <2>4, <2>5, <2>6 DEF Place
<1> QED BY <1>4, <1>5

LEMMA PieceEmpty ==
    ASSUME NEW l, NEW k \in Nat, NEW i \in Nat, k <= i
    PROVE  Piece(l, k, i) = <<>> <=> k = i
<1>1. Len(Piece(l, k, i)) = i - k
  BY DEF Piece
<1>2. k = i => Piece(l, k, i) = <<>>
  BY DEF Piece
<1> QED BY <1>1, <1>2

LEMMA PieceFirst ==
    ASSUME NEW l, NEW k \in Nat, NEW i \in Nat, k < i
    PROVE  Piece(l, k, i)[1] = <<l, k>>
  BY DEF Piece

LEMMA PieceIsLine ==
    ASSUME NEW l \in DOMAIN Lines, NEW k \in Nat \ {0}, NEW i \in Nat, k <= i
    PROVE  Piece(l, k, i) \in LineSet
<1> DEFINE S == Nat \X Nat
           f == Piece(l, k, i)
           n == i - k
<1>1. n \in Nat /\ f = [j \in 1..n |-> f[j]]
  BY DEF Piece
<1>2. ASSUME NEW j \in 1..n PROVE f[j] \in S
  <2>1. f[j] = <<l, k + j - 1>>
    BY DEF Piece
  <2>2. PICK h : h = k + j - 1
    OBVIOUS
  <2>3. h \in Nat /\ l \in Nat
    BY <2>2, LineFacts
  <2>4. <<l, h>> \in S
    BY <2>3
  <2> QED BY <2>1, <2>2, <2>4, Zenon
<1> HIDE DEF S, f, n
<1>3. f \in Seq(S)
  BY <1>1, <1>2
<1> QED BY <1>3 DEF LineSet, S, f

LEMMA PieceGrows ==
    ASSUME NEW l, NEW k \in Nat \ {0}, NEW i \in Nat, k <= i
    PROVE  Append(Piece(l, k, i), <<l, i>>) = Piece(l, k, i + 1)
<1>1. Len(Piece(l, k, i)) = i - k /\ i - k \in Nat
  BY DEF Piece
<1>2. Append(Piece(l, k, i), <<l, i>>) =
        [j \in 1..i - k + 1 |-> IF j = i - k + 1 THEN <<l, i>> ELSE Piece(l, k, i)[j]]
  BY <1>1
<1>3. \A j \in 1..i - k + 1 :
        (IF j = i - k + 1 THEN <<l, i>> ELSE Piece(l, k, i)[j]) = <<l, k + j - 1>>
  BY <1>1 DEF Piece
<1> QED BY <1>2, <1>3 DEF Piece

\* The end of a line is what SubSeq gives.
LEMMA PieceIsSubSeq ==
    ASSUME NEW l, NEW n \in Nat, NEW k \in 1..n
    PROVE  Piece(l, k, n + 1) = SubSeq(Text(l, n), k, n)
  BY DEF Piece, Text

-----------------------------------------------------------------------------
(* The lines given, and the reader at character i of line l.               *)

Number(line) == line[1][1]
\* The number of the line given before lines[j], and of the last one.
Prev(lines, b, j) == IF j = 1 THEN b ELSE Number(lines[j - 1])
Latest(lines, b) == Prev(lines, b, Len(lines) + 1)

NextLine(a, d) == 1 + ((a + d - 1) % Len(Lines))
Leads(a, l, d) == l = NextLine(a, d) /\ \A e \in 1..d - 1 : Vanishes(NextLine(a, e))
Follows(a, l) == \E d \in 1..Len(Lines) : Leads(a, l, d)

LineOk(line, first) ==
    \E l \in DOMAIN Lines : \E k \in 1..Lines[l] :
        line = Piece(l, k, Lines[l] + 1) /\ (first \/ k % (MaxLine + 1) = 1)

LinesOk(lines, b) ==
    /\ b = None \/ b \in DOMAIN Lines
    /\ lines \in Seq(LineSet)
    /\ \A j \in 1..Len(lines) : LineOk(lines[j], Prev(lines, b, j) = None)
    /\ \A j \in 1..Len(lines) : Prev(lines, b, j) # None => Follows(Prev(lines, b, j), Number(lines[j]))

\* Once a line was given, the buffer is what the limit leaves of the line.
Reading(buf, a, l, i) ==
    /\ \E k \in 1..i : /\ buf = Piece(l, k, i) /\ i - k <= MaxLine
                       /\ a # None => i - k = (i - 1) % (MaxLine + 1)
    /\ a # None => \E d \in Nat \ {0} : Leads(a, l, d)

LEMMA LineNumber ==
    ASSUME NEW line, NEW first, LineOk(line, first)
    PROVE  Number(line) \in DOMAIN Lines /\ Number(line) # None
<1>1. PICK l \in DOMAIN Lines : \E k \in 1..Lines[l] : line = Piece(l, k, Lines[l] + 1)
  BY DEF LineOk
<1>2. PICK k \in 1..Lines[l] : line = Piece(l, k, Lines[l] + 1)
  BY <1>1
<1>3. line[1] = <<l, k>>
  BY <1>1, <1>2, LineFacts DEF Piece
<1> QED BY <1>1, <1>3, LineFacts DEF Number

LEMMA LatestFacts ==
    ASSUME NEW lines, NEW b, LinesOk(lines, b)
    PROVE  Latest(lines, b) = None \/ Latest(lines, b) \in DOMAIN Lines
<1>1. Len(lines) \in Nat /\ (b = None \/ b \in DOMAIN Lines)
  BY DEF LinesOk
<1>2. CASE Len(lines) = 0
  BY <1>1, <1>2 DEF Latest, Prev
<1>3. CASE Len(lines) # 0
  <2>1. LineOk(lines[Len(lines)], Prev(lines, b, Len(lines)) = None)
    BY <1>1, <1>3 DEF LinesOk
  <2>2. Latest(lines, b) = Number(lines[Len(lines)])
    BY <1>1, <1>3 DEF Latest, Prev
  <2> QED BY <2>1, <2>2, LineNumber
<1> QED BY <1>2, <1>3

\* The next line that does not vanish is less than a round away.
LEMMA LeadsSoon ==
    ASSUME NEW a \in DOMAIN Lines, NEW l, NEW d \in Nat \ {0}, Leads(a, l, d), ~Vanishes(l)
    PROVE  Follows(a, l)
<1>1. PICK n : n = Len(Lines)
  OBVIOUS
<1>2. n \in Nat \ {0} /\ a \in Nat
  BY <1>1, LineFacts
<1>3. d <= n
  <2> SUFFICES ASSUME d > n PROVE FALSE
    BY <1>2
  <2>1. d - n \in 1..d - 1 /\ a + (d - n) - 1 \in Int /\ a + d - 1 = (a + (d - n) - 1) + n
    BY <1>2
  <2>2. (a + d - 1) % n = (a + (d - n) - 1) % n
    BY <1>2, <2>1, ModAdd
  <2>3. NextLine(a, d - n) = NextLine(a, d)
    BY <1>1, <2>2 DEF NextLine
  <2> QED BY <2>1, <2>3 DEF Leads
<1>4. d \in 1..Len(Lines)
  BY <1>1, <1>2, <1>3
<1> QED BY <1>4 DEF Follows

\* Counting lines on by one.
LEMMA NextLineNext ==
    ASSUME NEW a \in DOMAIN Lines, NEW d \in Nat \ {0}
    PROVE  /\ NextLine(a, d + 1) = (NextLine(a, d) % Len(Lines)) + 1
           /\ NextLine(a, 1) = (a % Len(Lines)) + 1
<1>1. PICK n, x : n = Len(Lines) /\ x = a + d - 1
  OBVIOUS
<1>2. n \in Nat \ {0} /\ a \in Nat /\ x \in Int
  BY <1>1, LineFacts
<1>3. PICK r : r = x % n
  OBVIOUS
<1>4. r \in 0..n - 1
  BY <1>2, <1>3, DivMod, Zenon
<1>5. r % n = r
  <2>1. 0 * n + r = r /\ 0 \in Int
    BY <1>2, <1>4
  <2>2. (0 * n + r) % n = r
    BY <1>2, <1>4, <2>1, ModUnique
  <2> QED BY <2>1, <2>2
<1>6. (x + 1) % n = IF r = n - 1 THEN 0 ELSE r + 1
  BY <1>2, <1>3, ModNext
<1>7. (r + 1) % n = IF r = n - 1 THEN 0 ELSE r + 1
  <2>1. r \in Int
    BY <1>4
  <2>2. (r + 1) % n = IF r % n = n - 1 THEN 0 ELSE (r % n) + 1
    BY <1>2, <2>1, ModNext
  <2> QED BY <1>5, <2>2
<1>8. NextLine(a, d) = r + 1 /\ NextLine(a, d + 1) = 1 + ((x + 1) % n)
  <2>1. a + (d + 1) - 1 = x + 1
    BY <1>1, <1>2
  <2>2. r + 1 = 1 + r
    BY <1>4
  <2> QED BY <1>1, <1>3, <2>1, <2>2 DEF NextLine
<1>9. (x + 1) % n = (r + 1) % n /\ 1 + ((x + 1) % n) = ((x + 1) % n) + 1
  BY <1>2, <1>4, <1>6, <1>7
<1>10. NextLine(a, 1) = (a % Len(Lines)) + 1
  <2>1. a + 1 - 1 = a /\ a \in Int
    BY <1>2
  <2>2. PICK q : q = a % n
    OBVIOUS
  <2>3. q \in 0..n - 1
    BY <1>2, <2>1, <2>2, DivMod, Zenon
  <2>4. 1 + q = q + 1
    BY <2>3
  <2> QED BY <1>1, <2>1, <2>2, <2>4 DEF NextLine
<1> QED BY <1>1, <1>8, <1>9, <1>10

\* A character of the line's text.
LEMMA ReadingText ==
    ASSUME NEW buf, NEW a, NEW l \in DOMAIN Lines, NEW i \in 1..Lines[l], Reading(buf, a, l, i)
    PROVE  Reading(IF Len(buf) < MaxLine THEN Append(buf, <<l, i>>) ELSE <<>>, a, l, i + 1)
<1> DEFINE new == IF Len(buf) < MaxLine THEN Append(buf, <<l, i>>) ELSE <<>>
<1>1. PICK k \in 1..i : /\ buf = Piece(l, k, i) /\ i - k <= MaxLine
                        /\ a # None => i - k = (i - 1) % (MaxLine + 1)
  BY DEF Reading
<1>2. i \in Nat \ {0} /\ k \in Nat \ {0} /\ k <= i /\ MaxLine \in Nat \ {0}
  BY LineFacts
<1>3. Len(buf) = i - k /\ Append(buf, <<l, i>>) = Piece(l, k, i + 1)
  BY <1>1, <1>2, PieceGrows DEF Piece
<1>4. PICK m : m = MaxLine + 1
  OBVIOUS
<1>5. m \in Nat \ {0} /\ m - 1 = MaxLine
  BY <1>2, <1>4
<1>6. i % m = IF (i - 1) % m = m - 1 THEN 0 ELSE ((i - 1) % m) + 1
  <2>1. i - 1 \in Int /\ (i - 1) + 1 = i
    BY <1>2
  <2> QED BY <1>5, <2>1, ModNext
<1>7. a # None => \E d \in Nat \ {0} : Leads(a, l, d)
  BY DEF Reading
<1>8. CASE i - k < MaxLine
  <2>1. new = Piece(l, k, i + 1) /\ k \in 1..i + 1 /\ (i + 1) - k <= MaxLine
    BY <1>2, <1>3, <1>8
  <2>2. a # None => (i + 1) - k = ((i + 1) - 1) % (MaxLine + 1)
    <3> SUFFICES ASSUME a # None PROVE (i + 1) - k = i % m
      BY <1>2, <1>4
    <3>1. (i - 1) % m = i - k
      BY <1>1, <1>4
    <3> QED BY <1>2, <1>5, <1>6, <1>8, <3>1
  <2> QED BY <1>7, <2>1, <2>2 DEF Reading
<1>9. CASE ~(i - k < MaxLine)
  <2>1. new = <<>> /\ i - k = MaxLine
    BY <1>1, <1>2, <1>3, <1>9
  <2>2. Piece(l, i + 1, i + 1) = <<>> /\ i + 1 \in 1..i + 1 /\ (i + 1) - (i + 1) = 0 /\ 0 <= MaxLine
    BY <1>2 DEF Piece
  <2>3. a # None => 0 = ((i + 1) - 1) % (MaxLine + 1)
    <3> SUFFICES ASSUME a # None PROVE 0 = i % m
      BY <1>2, <1>4
    <3>1. (i - 1) % m = m - 1
      BY <1>1, <1>4, <1>5, <2>1
    <3> QED BY <1>6, <3>1
  <2> QED BY <1>7, <2>1, <2>2, <2>3 DEF Reading
<1> QED BY <1>2, <1>8, <1>9

\* The end of a line that the limit has left nothing of.
LEMMA ReadingVanished ==
    ASSUME NEW a, a = None \/ a \in DOMAIN Lines, NEW l \in DOMAIN Lines,
           NEW i, i = Lines[l] + 1, Reading(<<>>, a, l, i)
    PROVE  Reading(<<>>, a, (l % Len(Lines)) + 1, 1)
<1>1. Piece((l % Len(Lines)) + 1, 1, 1) = <<>> /\ 1 \in 1..1 /\ 1 - 1 = 0 /\ 0 <= MaxLine
  BY LineFacts DEF Piece
<1>2. 0 % (MaxLine + 1) = 0
  BY LineFacts
<1>3. ASSUME a # None PROVE \E d \in Nat \ {0} : Leads(a, (l % Len(Lines)) + 1, d)
  <2>1. PICK d \in Nat \ {0} : Leads(a, l, d)
    BY <1>3 DEF Reading
  <2>2. PICK k \in 1..i : <<>> = Piece(l, k, i) /\ i - k = (i - 1) % (MaxLine + 1)
    BY <1>3 DEF Reading
  <2>3. Lines[l] \in Nat \ {0} /\ i \in Nat /\ k \in Nat /\ k <= i /\ i - 1 = Lines[l]
    BY LineFacts
  <2>4. k = i
    BY <2>2, <2>3, PieceEmpty
  <2>5. Vanishes(l)
    BY <2>2, <2>3, <2>4 DEF Vanishes
  <2>6. (l % Len(Lines)) + 1 = NextLine(a, d + 1)
    BY <1>3, <2>1, NextLineNext DEF Leads
  <2>7. \A e \in 1..(d + 1) - 1 : Vanishes(NextLine(a, e))
    BY <2>1, <2>5 DEF Leads
  <2> QED BY <2>6, <2>7 DEF Leads
<1> QED BY <1>1, <1>2, <1>3 DEF Reading

\* The end of a line that is given.
LEMMA ReadingGiven ==
    ASSUME NEW lines, NEW b, LinesOk(lines, b), NEW buf, buf # <<>>, NEW l \in DOMAIN Lines,
           NEW i, i = Lines[l] + 1, Reading(buf, Latest(lines, b), l, i)
    PROVE  /\ LinesOk(Append(lines, buf), b)
           /\ Reading(<<>>, Latest(Append(lines, buf), b), (l % Len(Lines)) + 1, 1)
<1> DEFINE a == Latest(lines, b)
           L == Lines[l]
           new == Append(lines, buf)
           n == Len(lines)
<1>1. a = None \/ a \in DOMAIN Lines
  BY LatestFacts
<1>2. L \in Nat \ {0} /\ MaxLine \in Nat \ {0} /\ n \in Nat
  BY LineFacts DEF LinesOk
<1>3. PICK k \in 1..i : /\ buf = Piece(l, k, i) /\ i - k <= MaxLine
                        /\ a # None => i - k = (i - 1) % (MaxLine + 1)
  BY DEF Reading
<1> HIDE DEF a
<1>4. k \in 1..L /\ buf[1] = <<l, k>> /\ buf \in LineSet
  <2>1. k \in Nat \ {0} /\ k <= i /\ i \in Nat /\ i = L + 1
    BY <1>2
  <2>2. k # i
    BY <1>3, <2>1, PieceEmpty
  <2>3. k < i
    BY <2>1, <2>2
  <2>4. buf[1] = <<l, k>> /\ buf \in LineSet
    BY <1>3, <2>1, <2>3, PieceFirst, PieceIsLine
  <2> QED BY <1>2, <2>1, <2>3, <2>4
<1>5. Number(buf) = l
  BY <1>4 DEF Number
<1>6. ASSUME a # None PROVE k % (MaxLine + 1) = 1 /\ ~Vanishes(l)
  <2>1. PICK m : m = MaxLine + 1
    OBVIOUS
  <2>2. m \in Nat /\ m > 1 /\ L \in Int /\ k \in Int /\ L - k + 1 = L % m /\ L % m # 0
    BY <1>2, <1>3, <1>4, <1>6, <2>1
  <2>3. k % m = 1
    BY <2>2, ModRest
  <2> QED BY <2>1, <2>2, <2>3 DEF Vanishes
<1>7. LineOk(buf, a = None)
  BY <1>3, <1>4, <1>6 DEF LineOk
<1>8. a # None => Follows(a, l)
  <2> SUFFICES ASSUME a # None PROVE Follows(a, l)
    OBVIOUS
  <2>1. \E d \in Nat \ {0} : Leads(a, l, d)
    BY DEF Reading, a
  <2> QED BY <1>1, <1>6, <2>1, LeadsSoon
<1>9. /\ new \in Seq(LineSet) /\ Len(new) = n + 1 /\ new[n + 1] = buf
      /\ \A j \in 1..n : new[j] = lines[j]
  BY <1>4 DEF LinesOk
<1>10. /\ \A j \in 1..n : Prev(new, b, j) = Prev(lines, b, j)
       /\ Prev(new, b, n + 1) = a /\ Latest(new, b) = l
  BY <1>2, <1>5, <1>9 DEF Prev, Latest, a
<1> HIDE DEF new
<1>11. LinesOk(new, b)
  <2>1. \A j \in 1..Len(new) : j \in 1..n \/ j = n + 1
    BY <1>2, <1>9
  <2>2. \A j \in 1..Len(new) : LineOk(new[j], Prev(new, b, j) = None)
    BY <1>7, <1>9, <1>10, <2>1 DEF LinesOk
  <2>3. \A j \in 1..Len(new) : Prev(new, b, j) # None => Follows(Prev(new, b, j), Number(new[j]))
    BY <1>5, <1>8, <1>9, <1>10, <2>1 DEF LinesOk
  <2> QED BY <1>9, <2>2, <2>3 DEF LinesOk
<1>12. Reading(<<>>, l, (l % Len(Lines)) + 1, 1)
  <2>1. Piece((l % Len(Lines)) + 1, 1, 1) = <<>> /\ 1 \in 1..1 /\ 1 - 1 = 0 /\ 0 <= MaxLine
    BY LineFacts DEF Piece
  <2>2. 0 % (MaxLine + 1) = 0
    BY LineFacts
  <2>3. Leads(l, (l % Len(Lines)) + 1, 1)
    BY NextLineNext DEF Leads
  <2> QED BY <2>1, <2>2, <2>3 DEF Reading
<1> QED BY <1>10, <1>11, <1>12 DEF new

-----------------------------------------------------------------------------
(* The loop of read_loop() over the characters of a read().                *)

ReaderAt(got, b, p) ==
    /\ got = [buffer |-> got.buffer, lines |-> got.lines]
    /\ LinesOk(got.lines, b) /\ Reading(got.buffer, Latest(got.lines, b), p[1], p[2])

LEMMA TakeCharacter ==
    ASSUME NEW got, NEW b, NEW p \in Place, ReaderAt(got, b, p)
    PROVE  ReaderAt(Take(got, Character(p)), b, After(p))
<1>1. PICK l \in DOMAIN Lines : \E i \in 1..Lines[l] + 1 : p = <<l, i>>
  BY DEF Place
<1>2. PICK i \in 1..Lines[l] + 1 : p = <<l, i>>
  BY <1>1
<1>3. p[1] = l /\ p[2] = i /\ i \in Nat \ {0} /\ l \in Nat \ {0} /\ Lines[l] \in Nat
  BY <1>1, <1>2, LineFacts
<1>4. PICK buf, lines : got = [buffer |-> buf, lines |-> lines]
  BY DEF ReaderAt
<1>5. LinesOk(lines, b) /\ Reading(buf, Latest(lines, b), l, i)
  BY <1>3, <1>4 DEF ReaderAt
<1>6. CASE i <= Lines[l]
  <2>1. Character(p) = <<l, i>> /\ <<l, i>> # End /\ After(p) = <<l, i + 1>>
    BY <1>2, <1>3, <1>6 DEF Character, After, End
  <2>2. PICK new : new = IF Len(buf) < MaxLine THEN Append(buf, <<l, i>>) ELSE <<>>
    OBVIOUS
  <2>3. Take(got, Character(p)) = [buffer |-> new, lines |-> lines]
    BY <1>4, <2>1, <2>2 DEF Take
  <2>4. i \in 1..Lines[l]
    BY <1>3, <1>6
  <2>5. Reading(new, Latest(lines, b), l, i + 1)
    BY <1>1, <1>5, <2>2, <2>4, ReadingText
  <2> QED BY <1>5, <2>1, <2>3, <2>5 DEF ReaderAt
<1>7. CASE ~(i <= Lines[l])
  <2>1. Character(p) = End /\ After(p) = <<(l % Len(Lines)) + 1, 1>> /\ i = Lines[l] + 1
    BY <1>2, <1>3, <1>7 DEF Character, After
  <2>2. CASE buf = <<>>
    <3>1. Take(got, Character(p)) = [buffer |-> <<>>, lines |-> lines]
      BY <1>4, <2>1, <2>2 DEF Take, Ended
    <3>2. Reading(<<>>, Latest(lines, b), (l % Len(Lines)) + 1, 1)
      BY <1>1, <1>5, <2>1, <2>2, LatestFacts, ReadingVanished
    <3> QED BY <1>5, <2>1, <3>1, <3>2 DEF ReaderAt
  <2>3. CASE buf # <<>>
    <3>1. Take(got, Character(p)) = [buffer |-> <<>>, lines |-> Append(lines, buf)]
      BY <1>4, <2>1, <2>3 DEF Take, Ended
    <3>2. /\ LinesOk(Append(lines, buf), b)
          /\ Reading(<<>>, Latest(Append(lines, buf), b), (l % Len(Lines)) + 1, 1)
      BY <1>1, <1>5, <2>1, <2>3, ReadingGiven
    <3> QED BY <2>1, <3>1, <3>2 DEF ReaderAt
  <2> QED BY <2>2, <2>3
<1> QED BY <1>6, <1>7

\* path: the places of the characters of s in what the board sends, and the next.
IsPath(path, s) ==
    /\ path \in [1..Len(s) + 1 -> Place]
    /\ \A j \in 1..Len(s) : s[j] = Character(path[j]) /\ path[j + 1] = After(path[j])

\* s is the piece of w from a on, and z the place in a path after it: a piece of
\* what the board sends has a path too.
PartOf(s, w, a, k, z) ==
    /\ a \in Nat /\ k \in Nat /\ Len(w) \in Nat /\ a + k <= Len(w) /\ Len(s) = k /\ z = a + k + 1
    /\ \A j \in 1..k : s[j] = w[a + j]
LEMMA PathPart ==
    ASSUME NEW s, NEW w, NEW a, NEW k, NEW z, PartOf(s, w, a, k, z), NEW path, IsPath(path, w)
    PROVE  \E part : IsPath(part, s) /\ part[1] = path[a + 1] /\ part[k + 1] = path[z]
<1> USE DEF PartOf
<1> DEFINE part == [j \in 1..k + 1 |-> path[a + j]]
<1>1. part \in [1..k + 1 -> Place]
  <2>1. \A j \in 1..k + 1 : a + j \in 1..Len(w) + 1
    OBVIOUS
  <2> QED BY <2>1 DEF IsPath
<1>2. ASSUME NEW j \in 1..k
      PROVE  s[j] = Character(part[j]) /\ part[j + 1] = After(part[j])
  <2>1. a + j \in 1..Len(w) /\ part[j] = path[a + j] /\ part[j + 1] = path[(a + j) + 1]
    OBVIOUS
  <2>2. w[a + j] = Character(path[a + j]) /\ path[(a + j) + 1] = After(path[a + j])
    BY <2>1 DEF IsPath
  <2> QED BY <2>1, <2>2
<1>3. part[1] = path[a + 1] /\ part[k + 1] = path[z]
  OBVIOUS
<1> HIDE DEF part
<1>4. IsPath(part, s)
  BY <1>1, <1>2 DEF IsPath
<1> QED BY <1>3, <1>4

LEMMA TakeAllCharacters ==
    ASSUME NEW got, NEW b, NEW s, Len(s) \in Nat, NEW path, IsPath(path, s),
           ReaderAt(got, b, path[1])
    PROVE  ReaderAt(TakeAll(got, s), b, path[Len(s) + 1])
<1>1. PICK f : /\ TakeAll(got, s) = f[Len(s)] /\ f[0] = got
               /\ \A k \in 1..Len(s) : f[k] = Take(f[k - 1], s[k])
  BY TakeAllSteps
<1> DEFINE T == {k \in Nat : k <= Len(s) => ReaderAt(f[k], b, path[k + 1])}
<1>2. 0 \in T
  BY <1>1
<1>3. \A k \in T : k + 1 \in T
  <2> SUFFICES ASSUME NEW k \in T, k + 1 <= Len(s)
               PROVE  ReaderAt(f[k + 1], b, path[(k + 1) + 1])
    OBVIOUS
  <2>1. k \in Nat /\ k + 1 \in 1..Len(s) /\ (k + 1) - 1 = k /\ ReaderAt(f[k], b, path[k + 1])
    OBVIOUS
  <2>2. f[k + 1] = Take(f[k], Character(path[k + 1]))
    BY <1>1, <2>1 DEF IsPath
  <2>3. path[(k + 1) + 1] = After(path[k + 1]) /\ path[k + 1] \in Place
    BY <2>1 DEF IsPath
  <2> QED BY <2>1, <2>2, <2>3, TakeCharacter
<1>4. T = Nat
  <2> HIDE DEF T
  <2>1. T \in SUBSET Nat
    BY DEF T
  <2> QED BY <1>2, <1>3, <2>1, NatInd
<1>5. ReaderAt(f[Len(s)], b, path[Len(s) + 1])
  BY <1>4
<1> QED BY <1>1, <1>5

-----------------------------------------------------------------------------
(* The link.                                                               *)

Characters == Nat \X Nat

LinkTypeOK ==
    /\ plugged \in BOOLEAN /\ port \in {"closed", "open", "dead"} /\ short \in BOOLEAN
    /\ sending \in Place /\ wire \in Seq(Characters)
    /\ command \in Seq(Characters)

\* While a port is open the wire, and what the board sends next, go on where
\* the reader is.
Contiguous ==
    port = "open" =>
        \E path : /\ IsPath(path, wire) /\ path[Len(wire) + 1] = sending
                  /\ Reading(buffer, Latest(received, before), path[1][1], path[1][2])

\* What is left of a line at the board is left from a short write().
NothingLeft == ~short => command = <<>>

LinkInv == LinkTypeOK /\ LinesOk(received, before) /\ Contiguous /\ NothingLeft

LEMMA EmptyIsSeq == <<>> \in Seq(Characters) /\ Len(<<>>) = 0
  BY DEF Characters

LEMMA CharacterType ==
    ASSUME NEW p \in Place
    PROVE  Character(p) \in Characters
<1>1. PICK l \in DOMAIN Lines : \E i \in 1..Lines[l] + 1 : p = <<l, i>>
  BY DEF Place
<1>2. PICK i \in 1..Lines[l] + 1 : p = <<l, i>>
  BY <1>1
<1>3. l \in Nat /\ i \in Nat
  BY LineFacts
<1> QED BY <1>2, <1>3 DEF Character, Characters, End

\* The reader as it opens the port, anywhere in a line.
LEMMA ReadingFresh ==
    ASSUME NEW l, NEW i \in Nat \ {0}
    PROVE  LinesOk(<<>>, None) /\ Reading(<<>>, Latest(<<>>, None), l, i)
<1>1. LinesOk(<<>>, None) /\ Latest(<<>>, None) = None
  BY DEF LinesOk, Latest, Prev
<1>2. Piece(l, i, i) = <<>> /\ i \in 1..i /\ i - i <= MaxLine
  BY PieceEmpty, LineFacts
<1> QED BY <1>1, <1>2 DEF Reading

LEMMA LinkInit == Init => LinkInv
<1> SUFFICES ASSUME Init PROVE LinkInv
  OBVIOUS
<1>1. <<1, 1>> \in Place
  <2>1. 1 \in DOMAIN Lines /\ 1 \in 1..Lines[1] + 1
    BY LineFacts
  <2> QED BY <2>1 DEF Place
<1>2. LinkTypeOK
  BY <1>1, EmptyIsSeq DEF Init, LinkTypeOK
<1>4. Contiguous /\ NothingLeft
  BY DEF Init, Contiguous, NothingLeft
<1>3. LinesOk(received, before)
  BY ReadingFresh DEF Init
<1> QED BY <1>2, <1>3, <1>4 DEF LinkInv

\* The board sends a character: the path grows by a place.
LEMMA SendsInv == LinkInv /\ BoardSends => LinkInv'
<1> SUFFICES ASSUME LinkInv, BoardSends PROVE LinkInv'
  OBVIOUS
<1>1. /\ UNCHANGED <<plugged, port, buffer, received, before, command, executed, short>>
      /\ sending' = After(sending)
      /\ wire' = IF port # "open" THEN wire ELSE Append(wire, Character(sending))
  BY DEF BoardSends, readerVars, boardVars, After, Character
<1>2. LinkTypeOK /\ sending \in Place /\ wire \in Seq(Characters)
  BY DEF LinkInv, LinkTypeOK
<1>3. LinkTypeOK'
  <2>1. After(sending) \in Place /\ Character(sending) \in Characters
    BY <1>2, AfterIsPlace, CharacterType
  <2> HIDE DEF Characters
  <2> QED BY <1>1, <1>2, <2>1 DEF LinkTypeOK
<1>4. Contiguous'
  <2> SUFFICES ASSUME port' = "open" PROVE Contiguous'
    BY DEF Contiguous
  <2>1. PICK path : /\ IsPath(path, wire) /\ path[Len(wire) + 1] = sending
                    /\ Reading(buffer, Latest(received, before), path[1][1], path[1][2])
    BY <1>1 DEF LinkInv, Contiguous
  <2> DEFINE n == Len(wire)
             new == [j \in 1..n + 2 |-> IF j <= n + 1 THEN path[j] ELSE After(sending)]
  <2>2. n \in Nat /\ wire' = Append(wire, Character(sending)) /\ Len(wire') = n + 1
    BY <1>1, <1>2
  <2>3. new \in [1..n + 2 -> Place]
    BY <1>2, <2>1, <2>2, AfterIsPlace DEF IsPath
  <2>4. ASSUME NEW j \in 1..n + 1
        PROVE  wire'[j] = Character(new[j]) /\ new[j + 1] = After(new[j])
    <3>1. CASE j <= n
      <4>1. wire'[j] = wire[j] /\ new[j] = path[j] /\ new[j + 1] = path[j + 1]
        BY <1>2, <2>2, <3>1
      <4> QED BY <2>1, <2>2, <3>1, <4>1 DEF IsPath
    <3>2. CASE j = n + 1
      <4>1. wire'[j] = Character(sending) /\ new[j] = path[j] /\ new[j + 1] = After(sending)
        BY <1>2, <2>2, <3>2
      <4> QED BY <2>1, <3>2, <4>1
    <3> QED BY <2>2, <3>1, <3>2
  <2>5. new[1] = path[1] /\ new[(n + 1) + 1] = After(sending)
    BY <2>2
  <2> HIDE DEF new, n
  <2>6. IsPath(new, wire')
    BY <2>2, <2>3, <2>4 DEF IsPath
  <2> QED BY <1>1, <2>1, <2>2, <2>5, <2>6 DEF Contiguous
<1> QED BY <1>1, <1>3, <1>4 DEF LinkInv, NothingLeft, LinesOk

\* Opening the port, losing it, and the cable.
LEMMA OpenInv == LinkInv /\ Open => LinkInv'
<1> SUFFICES ASSUME LinkInv, Open PROVE LinkInv'
  OBVIOUS
<1>1. /\ port' = "open" /\ wire' = <<>> /\ buffer' = <<>> /\ received' = <<>> /\ before' = None
      /\ UNCHANGED <<plugged, sending, command, executed, short>>
  BY DEF Open, BufferAfterOpen, boardVars
<1>2. LinkTypeOK' /\ NothingLeft'
  BY <1>1 DEF LinkInv, LinkTypeOK, NothingLeft
<1>3. sending \in Place /\ sending[2] \in Nat \ {0}
  <2>1. sending \in Place
    BY DEF LinkInv, LinkTypeOK
  <2>2. PICK l \in DOMAIN Lines : \E i \in 1..Lines[l] + 1 : sending = <<l, i>>
    BY <2>1 DEF Place
  <2> QED BY <2>1, <2>2, LineFacts
<1>4. LinesOk(<<>>, None) /\ Reading(<<>>, Latest(<<>>, None), sending[1], sending[2])
  BY <1>3, ReadingFresh
<1> DEFINE path == [j \in 1..1 |-> sending]
<1>5. IsPath(path, <<>>) /\ path[Len(<<>>) + 1] = sending /\ path[1] = sending
  BY <1>3 DEF IsPath
<1> HIDE DEF path
<1>6. Contiguous'
  BY <1>1, <1>4, <1>5 DEF Contiguous
<1> QED BY <1>1, <1>2, <1>4, <1>6 DEF LinkInv

LEMMA CableInv == LinkInv /\ (Unplug \/ Plug \/ Lost) => LinkInv'
<1> SUFFICES ASSUME LinkInv, Unplug \/ Plug \/ Lost PROVE LinkInv'
  OBVIOUS
<1>1. UNCHANGED <<buffer, received, before>>
  BY DEF Unplug, Plug, Lost, readerVars
<1>2. LinkTypeOK' /\ NothingLeft'
  <2>1. CASE Unplug
    <3>1. (command' = command /\ short' = short) \/ (command' = <<>> /\ short' = FALSE)
      BY <2>1 DEF Unplug
    <3>2. plugged' \in BOOLEAN /\ port' \in {"closed", "open", "dead"} /\ sending' = sending /\ wire' = <<>>
      BY <2>1 DEF Unplug, LinkInv, LinkTypeOK
    <3> QED BY <3>1, <3>2, EmptyIsSeq DEF LinkInv, LinkTypeOK, NothingLeft
  <2>2. CASE Plug
    BY <2>2 DEF Plug, boardVars, LinkInv, LinkTypeOK, NothingLeft
  <2>3. CASE Lost
    BY <2>3, EmptyIsSeq DEF Lost, PortAfterLost, boardVars, LinkInv, LinkTypeOK, NothingLeft
  <2> QED BY <2>1, <2>2, <2>3
<1>3. Contiguous'
  <2>1. CASE Unplug
    BY <2>1 DEF Unplug, Contiguous
  <2>2. CASE Lost
    BY <2>2 DEF Lost, PortAfterLost, Contiguous
  <2>3. CASE Plug
    BY <1>1, <2>3 DEF Plug, LinkInv, Contiguous
  <2> QED BY <2>1, <2>2, <2>3
<1> QED BY <1>1, <1>2, <1>3 DEF LinkInv, LinesOk

\* A read() of n characters.
LEMMA ReadInv == ASSUME LinkInv, NEW n \in 1..Chunk, ReadChunk(n) PROVE LinkInv'
<1> DEFINE s == SubSeq(wire, 1, n)
           start == [buffer |-> buffer, lines |-> <<>>]
           got == TakeAll(start, s)
           m == Len(wire)
           b == Latest(received, before)
<1>1. /\ port = "open" /\ n \in 1..m
      /\ buffer' = got.buffer /\ received' = got.lines /\ before' = b
      /\ wire' = SubSeq(wire, n + 1, m)
      /\ UNCHANGED <<plugged, sending, port, command, executed, short>>
  <2>1. received \in Seq(LineSet)
    BY DEF LinkInv, LinesOk
  <2>2. b = IF received = <<>> THEN before ELSE Last(received)[1][1]
    BY <2>1 DEF Latest, Prev, Number, Last
  <2> QED BY <2>2 DEF ReadChunk, boardVars
<1>2. wire \in Seq(Characters) /\ m \in Nat
  BY DEF LinkInv, LinkTypeOK
<1>3. PICK path : /\ IsPath(path, wire) /\ path[m + 1] = sending
                  /\ Reading(buffer, b, path[1][1], path[1][2])
  BY <1>1 DEF LinkInv, Contiguous
<1>4. Len(s) = n /\ \A j \in 1..n : s[j] = wire[j]
  BY <1>1, <1>2
<1>5. /\ Len(wire') = m - n /\ wire' \in Seq(Characters)
      /\ \A j \in 1..m - n : wire'[j] = wire[j + n]
  <2> HIDE DEF Characters
  <2> QED BY <1>1, <1>2
<1> HIDE DEF got, s, m, b, start
<1>6. PICK head : IsPath(head, s) /\ head[1] = path[1] /\ head[n + 1] = path[n + 1]
  <2>1. n \in Nat /\ m \in Nat /\ 0 + n <= m /\ 0 + n + 1 = n + 1 /\ 0 + 1 = 1
    BY <1>1, <1>2
  <2>2. PICK w, a, k, part, z : /\ w = wire /\ a = 0 /\ k = n /\ part = s /\ z = n + 1
    OBVIOUS
  <2>3. a \in Nat /\ k \in Nat /\ Len(w) \in Nat /\ a + k <= Len(w) /\ Len(part) = k /\ z = a + k + 1
    BY <1>4, <2>1, <2>2 DEF m
  <2>4. \A j \in 1..k : part[j] = w[a + j]
    <3>1. \A j \in 1..n : 0 + j = j
      BY <2>1
    <3> QED BY <1>4, <2>2, <3>1
  <2>5. IsPath(path, w) /\ PartOf(part, w, a, k, z)
    BY <1>3, <2>2, <2>3, <2>4 DEF PartOf
  <2>6. \E q : IsPath(q, part) /\ q[1] = path[a + 1] /\ q[k + 1] = path[z]
    BY <2>5, PathPart
  <2> QED BY <2>1, <2>2, <2>6
<1>7. PICK tail : IsPath(tail, wire') /\ tail[1] = path[n + 1] /\ tail[(m - n) + 1] = path[m + 1]
  <2>1. n \in Nat /\ m - n \in Nat /\ m \in Nat /\ n + (m - n) <= m /\ m + 1 = n + (m - n) + 1
    BY <1>1, <1>2
  <2>2. PICK w, a, k, part, z : /\ w = wire /\ a = n /\ k = m - n /\ part = wire' /\ z = m + 1
    OBVIOUS
  <2>3. a \in Nat /\ k \in Nat /\ Len(w) \in Nat /\ a + k <= Len(w) /\ Len(part) = k /\ z = a + k + 1
    BY <1>5, <2>1, <2>2 DEF m
  <2>4. \A j \in 1..k : part[j] = w[a + j]
    <3>1. \A j \in 1..m - n : n + j = j + n
      BY <2>1
    <3> QED BY <1>5, <2>2, <3>1
  <2>5. IsPath(path, w) /\ PartOf(part, w, a, k, z)
    BY <1>3, <2>2, <2>3, <2>4 DEF PartOf
  <2>6. \E q : IsPath(q, part) /\ q[1] = path[a + 1] /\ q[k + 1] = path[z]
    BY <2>5, PathPart
  <2> QED BY <2>2, <2>6
<1>8. ReaderAt(start, b, head[1])
  <2>1. LinesOk(received, before)
    BY DEF LinkInv
  <2>2. b = None \/ b \in DOMAIN Lines
    BY <2>1, LatestFacts DEF b
  <2>3. LinesOk(<<>>, b) /\ Latest(<<>>, b) = b
    BY <2>2 DEF LinesOk, Latest, Prev
  <2> QED BY <1>3, <1>6, <2>3 DEF ReaderAt, start
<1>9. ReaderAt(got, b, tail[1])
  <2>1. Len(s) \in Nat
    BY <1>4
  <2>2. ReaderAt(TakeAll(start, s), b, head[Len(s) + 1])
    BY <1>6, <1>8, <2>1, TakeAllCharacters
  <2> QED BY <1>4, <1>6, <1>7, <2>2 DEF got
<1>10. LinesOk(received', before') /\ Reading(buffer', Latest(received', before'), tail[1][1], tail[1][2])
  BY <1>1, <1>9 DEF ReaderAt
<1>11. Contiguous'
  BY <1>1, <1>3, <1>5, <1>7, <1>10 DEF Contiguous
<1>12. LinkTypeOK' /\ NothingLeft'
  BY <1>1, <1>5 DEF LinkInv, LinkTypeOK, NothingLeft
<1> QED BY <1>10, <1>11, <1>12 DEF LinkInv

LEMMA SameSeq ==
    ASSUME NEW S, NEW s \in Seq(S), NEW t \in Seq(S), Len(s) = Len(t),
           \A i \in 1..Len(s) : s[i] = t[i]
    PROVE  s = t
<1>1. s = [i \in 1..Len(s) |-> s[i]] /\ t = [i \in 1..Len(t) |-> t[i]]
  OBVIOUS
<1> QED BY <1>1

\* What is put at the end of a sequence is found there.
LEMMA EndOfConcat ==
    ASSUME NEW S, NEW s \in Seq(S), NEW t \in Seq(S), t # <<>>
    PROVE  /\ Len(s) + 1 \in 1..Len(s \o t)
           /\ SubSeq(s \o t, Len(s) + 1, Len(s \o t)) = t
<1> DEFINE u == s \o t
           v == SubSeq(u, Len(s) + 1, Len(u))
<1>1. /\ u \in Seq(S) /\ Len(u) = Len(s) + Len(t)
      /\ \A i \in 1..Len(t) : u[Len(s) + i] = t[i]
  OBVIOUS
<1>2. Len(s) \in Nat /\ Len(t) \in Nat \ {0}
  OBVIOUS
<1> HIDE DEF u
<1>3. v \in Seq(S) /\ Len(v) = Len(t) /\ \A i \in 1..Len(t) : v[i] = u[Len(s) + i]
  BY <1>1, <1>2
<1> HIDE DEF v
<1>4. v = t
  <2>1. \A i \in 1..Len(v) : v[i] = t[i]
    BY <1>1, <1>3
  <2> QED BY <1>3, <2>1, SameSeq
<1>5. Len(s) + 1 \in 1..Len(u)
  BY <1>1, <1>2
<1> QED BY <1>4, <1>5 DEF u, v

LEMMA WholeData ==
    ASSUME NEW c \in DOMAIN Commands
    PROVE  /\ Len(Data(c)) \in Nat /\ Data(c)[Len(Data(c))] = End
           /\ SubSeq(Data(c), 1, Len(Data(c))) = Data(c)
<1> DEFINE t == Text(c, Commands[c])
<1>1. t \in Seq(Characters) /\ End \in Characters
  <2>1. Commands[c] \in Nat /\ c \in Nat
    BY LinkAssumption
  <2>2. ASSUME NEW i \in 1..Commands[c] PROVE <<c, i>> \in Characters
    <3>1. i \in Nat
      BY <2>1
    <3> QED BY <2>1, <3>1 DEF Characters
  <2>3. End \in Characters
    BY DEF End, Characters
  <2> QED BY <2>1, <2>2, <2>3 DEF Text
<1> HIDE DEF t
<1>2. Data(c) = Append(t, End)
  BY DEF Data, t
<1> QED BY <1>1, <1>2

\* What a write() of the first n characters of a line brings to the board.
LEMMA Written ==
    ASSUME LinkInv, NEW c \in DOMAIN Commands, NEW n \in 1..Len(Data(c)),
           NEW s, s = SubSeq(Data(c), 1, n), Arrives(s, n < Len(Data(c)))
    PROVE  /\ s \in Seq(Characters) /\ s # <<>>
           /\ Last(s) = End => n = Len(Data(c)) /\ Front(s) = Text(c, Commands[c])
           /\ Text(c, Commands[c]) \in Seq(Characters) /\ Len(Text(c, Commands[c])) = Commands[c]
<1> DEFINE m == Commands[c]
           t == Text(c, m)
<1>1. m \in Nat \ {0} /\ c \in Nat \ {0}
  BY LinkAssumption
<1>2. t \in Seq(Characters) /\ Len(t) = m
  <2>1. ASSUME NEW i \in 1..m PROVE <<c, i>> \in Characters
    <3>1. i \in Nat
      BY <1>1
    <3> QED BY <1>1, <3>1 DEF Characters
  <2> HIDE DEF m
  <2> QED BY <1>1, <2>1 DEF Text
<1>3. End \in Characters /\ \A i \in 1..m : t[i] # End
  BY <1>1 DEF End, Characters, Text
<1> HIDE DEF t, m
<1>4. Data(c) = Append(t, End)
  BY DEF Data, t, m
<1>5. /\ Data(c) \in Seq(Characters) /\ Len(Data(c)) = m + 1 /\ Data(c)[m + 1] = End
      /\ \A i \in 1..m : Data(c)[i] = t[i]
  <2> HIDE DEF Characters
  <2> QED BY <1>1, <1>2, <1>3, <1>4
<1>6. s \in Seq(Characters) /\ Len(s) = n /\ \A i \in 1..n : s[i] = Data(c)[i]
  <2> HIDE DEF Characters
  <2> QED BY <1>1, <1>5
<1>7. Last(s) = s[n] /\ s # <<>>
  BY <1>6 DEF Last
<1>8. ASSUME Last(s) = End PROVE n = Len(Data(c)) /\ Front(s) = t
  <2>1. n = m + 1
    BY <1>1, <1>3, <1>5, <1>6, <1>7, <1>8
  <2>2. Front(s) = SubSeq(s, 1, m)
    BY <1>1, <1>6, <2>1 DEF Front
  <2>3. \A i \in 1..m : s[i] = t[i]
    BY <1>1, <1>5, <1>6, <2>1
  <2>4. SubSeq(s, 1, m) = t
    <3>1. /\ SubSeq(s, 1, m) \in Seq(Characters) /\ Len(SubSeq(s, 1, m)) = m
          /\ \A i \in 1..m : SubSeq(s, 1, m)[i] = s[i]
      <4> HIDE DEF Characters
      <4> QED BY <1>1, <1>6, <2>1
    <3>2. \A i \in 1..m : SubSeq(s, 1, m)[i] = t[i]
      BY <2>3, <3>1
    <3> QED BY <1>2, <3>1, <3>2, SameSeq
  <2> QED BY <1>5, <2>1, <2>2, <2>4
<1> QED BY <1>2, <1>6, <1>7, <1>8 DEF t, m

LEMMA WriteInv == ASSUME LinkInv, NEW c \in DOMAIN Commands, WriteLine(c) PROVE LinkInv'
<1>1. PICK n \in 1..Len(Data(c)) : Arrives(SubSeq(Data(c), 1, n), n < Len(Data(c)))
  BY DEF WriteLine
<1>2. UNCHANGED <<plugged, sending, wire, port, buffer, received, before>>
  BY DEF WriteLine, readerVars
<1>3. PICK s : s = SubSeq(Data(c), 1, n)
  OBVIOUS
<1>4. Arrives(s, n < Len(Data(c)))
  BY <1>1, <1>3
<1>5. s \in Seq(Characters) /\ (Last(s) = End => n = Len(Data(c)))
  BY <1>3, <1>4, Written
<1>6. command \in Seq(Characters) /\ short \in BOOLEAN
  BY DEF LinkInv, LinkTypeOK
<1>7. command' \in Seq(Characters) /\ short' \in BOOLEAN /\ NothingLeft'
  <2>1. CASE Last(s) = End
    BY <1>4, <2>1, EmptyIsSeq DEF Arrives, NothingLeft
  <2>2. CASE Last(s) # End
    <3>1. command' = command \o s /\ short' = (short \/ n < Len(Data(c)))
      BY <1>4, <2>2 DEF Arrives
    <3>2. command' \in Seq(Characters)
      <4> HIDE DEF Characters
      <4> QED BY <1>5, <1>6, <3>1
    <3>3. n < Len(Data(c))
      <4>1. Data(c)[Len(Data(c))] = End /\ Len(Data(c)) \in Nat
        BY WholeData
      <4>2. n # Len(Data(c))
        <5> SUFFICES ASSUME n = Len(Data(c)) PROVE FALSE
          OBVIOUS
        <5>1. s = Data(c)
          BY <1>3, WholeData
        <5> QED BY <2>2, <4>1, <5>1 DEF Last
      <4> QED BY <4>1, <4>2
    <3> QED BY <1>6, <3>1, <3>2, <3>3 DEF NothingLeft
  <2> QED BY <2>1, <2>2
<1> QED BY <1>2, <1>7 DEF LinkInv, LinkTypeOK, LinesOk, Contiguous

LEMMA LinkNext == LinkInv /\ [Next]_vars => LinkInv'
<1> SUFFICES ASSUME LinkInv, [Next]_vars PROVE LinkInv'
  OBVIOUS
<1>1. CASE BoardSends
  BY <1>1, SendsInv
<1>2. CASE Unplug \/ Plug \/ Lost
  BY <1>2, CableInv
<1>3. CASE Open
  BY <1>3, OpenInv
<1>4. CASE \E n \in 1..Chunk : ReadChunk(n)
  BY <1>4, ReadInv
<1>5. CASE \E c \in DOMAIN Commands : WriteLine(c)
  BY <1>5, WriteInv
<1>6. CASE UNCHANGED vars
  BY <1>6 DEF vars, readerVars, boardVars, LinkInv, LinkTypeOK, LinesOk, Contiguous, NothingLeft
<1> QED BY <1>1, <1>2, <1>3, <1>4, <1>5, <1>6 DEF Next

\* The invariant behind the theorems below.
THEOREM LinkInvHolds == Spec => []LinkInv
<1> QED BY LinkInit, LinkNext, PTL DEF Spec

-----------------------------------------------------------------------------
(* For any lines, limit and sizes of read(): what LinkInv says of the lines*)
(* given is what the properties say.                                       *)

LEMMA WholeFromLines == ASSUME LinkInv PROVE ReceivedWhole
<1> SUFFICES ASSUME NEW i \in DOMAIN received
             PROVE  LET l == received[i][1][1]  k == received[i][1][2] IN
                    /\ received[i] = SubSeq(Text(l, Lines[l]), k, Lines[l])
                    /\ k # 1 /\ ~(i = 1 /\ before = None) => k % (MaxLine + 1) = 1
  BY DEF ReceivedWhole
<1>1. LinesOk(received, before) /\ received \in Seq(LineSet)
  BY DEF LinkInv, LinesOk
<1>2. i \in 1..Len(received) /\ Len(received) \in Nat
  BY <1>1
<1>3. LineOk(received[i], Prev(received, before, i) = None)
  BY <1>1, <1>2 DEF LinesOk
<1>4. PICK l \in DOMAIN Lines : \E k \in 1..Lines[l] :
        /\ received[i] = Piece(l, k, Lines[l] + 1)
        /\ Prev(received, before, i) = None \/ k % (MaxLine + 1) = 1
  BY <1>3 DEF LineOk
<1>5. PICK k \in 1..Lines[l] :
        /\ received[i] = Piece(l, k, Lines[l] + 1)
        /\ Prev(received, before, i) = None \/ k % (MaxLine + 1) = 1
  BY <1>4
<1>6. Lines[l] \in Nat /\ k \in Nat /\ k < Lines[l] + 1
  BY LineFacts
<1>7. received[i][1] = <<l, k>>
  BY <1>5, <1>6, PieceFirst
<1>8. received[i] = SubSeq(Text(l, Lines[l]), k, Lines[l])
  BY <1>5, <1>6, PieceIsSubSeq
<1>9. Prev(received, before, i) = None => i = 1 /\ before = None
  <2>1. CASE i = 1
    BY <2>1 DEF Prev
  <2>2. CASE i # 1
    <3>1. i - 1 \in 1..Len(received)
      BY <1>2, <2>2
    <3>2. LineOk(received[i - 1], Prev(received, before, i - 1) = None)
      BY <1>1, <3>1 DEF LinesOk
    <3> QED BY <2>2, <3>2, LineNumber DEF Prev
  <2> QED BY <2>1, <2>2
<1> QED BY <1>5, <1>7, <1>8, <1>9

LEMMA OrderFromLines == ASSUME LinkInv PROVE InOrder
<1> DEFINE numbers == [i \in DOMAIN received |-> received[i][1][1]]
           given == (IF before = None THEN <<>> ELSE <<before>>) \o numbers
           n == Len(received)
<1>1. LinesOk(received, before) /\ received \in Seq(LineSet) /\ n \in Nat
  BY DEF LinkInv, LinesOk
<1>2. \A i \in 1..n : numbers[i] = Number(received[i]) /\ numbers[i] \in DOMAIN Lines /\ numbers[i] # None
  <2> SUFFICES ASSUME NEW i \in 1..n
               PROVE  numbers[i] = Number(received[i]) /\ numbers[i] \in DOMAIN Lines /\ numbers[i] # None
    OBVIOUS
  <2>1. LineOk(received[i], Prev(received, before, i) = None)
    BY <1>1 DEF LinesOk
  <2>2. numbers[i] = Number(received[i])
    BY <1>1 DEF Number
  <2> QED BY <2>1, <2>2, LineNumber
<1>3. numbers \in Seq(DOMAIN Lines) /\ Len(numbers) = n
  <2>1. numbers = [i \in 1..n |-> numbers[i]]
    BY <1>1
  <2> HIDE DEF numbers
  <2> QED BY <1>1, <1>2, <2>1
<1> HIDE DEF numbers
<1>4. \A i \in 1..n : Prev(received, before, i) # None => Follows(Prev(received, before, i), numbers[i])
  BY <1>1, <1>2 DEF LinesOk
<1>5. ASSUME NEW i \in 1..Len(given) - 1 PROVE Follows(given[i], given[i + 1])
  <2>1. CASE before = None
    <3>1. given = numbers
      BY <1>3, <2>1
    <3>2. i \in 1..n /\ i + 1 \in 1..n /\ (i + 1) - 1 = i /\ i + 1 # 1
      BY <1>1, <1>3, <3>1
    <3>3. Prev(received, before, i + 1) = numbers[i] /\ numbers[i] # None
      BY <1>2, <3>2 DEF Prev
    <3> QED BY <1>4, <3>1, <3>2, <3>3
  <2>2. CASE before # None
    <3>1. before \in DOMAIN Lines
      BY <1>1, <2>2 DEF LinesOk
    <3>2. given = <<before>> \o numbers
      BY <2>2
    <3>3. /\ Len(given) = n + 1 /\ given[1] = before
          /\ \A j \in 1..n : given[j + 1] = numbers[j]
      BY <1>1, <1>3, <3>1, <3>2
    <3>4. i \in 1..n
      BY <1>1, <3>3
    <3>5. given[i] = Prev(received, before, i) /\ given[i] # None
      <4>1. CASE i = 1
        BY <2>2, <3>3, <4>1 DEF Prev
      <4>2. CASE i # 1
        <5>1. i - 1 \in 1..n /\ (i - 1) + 1 = i
          BY <1>1, <3>4, <4>2
        <5> QED BY <1>2, <3>3, <4>2, <5>1 DEF Prev
      <4> QED BY <4>1, <4>2
    <3> QED BY <1>4, <3>3, <3>4, <3>5
  <2> QED BY <2>1, <2>2
<1> HIDE DEF given
<1>6. \A i \in 1..Len(given) - 1 : \E d \in 1..Len(Lines) :
         /\ given[i + 1] = 1 + ((given[i] + d - 1) % Len(Lines))
         /\ \A e \in 1..d - 1 : Vanishes(1 + ((given[i] + e - 1) % Len(Lines)))
  BY <1>5 DEF Follows, Leads, NextLine
<1> QED BY <1>6 DEF InOrder, given, numbers

\* However read() cuts the stream and wherever the port came into it, a line
\* that is given is the end of one line of the board, and the whole of it but
\* for the first and for lines beyond the limit (read_loop, lines 142 to 154).
THEOREM LinesComeWhole == Spec => []ReceivedWhole
<1> QED BY LinkInvHolds, WholeFromLines, PTL

\* No line is left out, given twice or out of turn while the port is open.
THEOREM LinesComeInOrder == Spec => []InOrder
<1> QED BY LinkInvHolds, OrderFromLines, PTL

\* A line at the board is one whole command, preceded by what a short write()
\* left there if there was one (write_line, lines 38 to 48).
THEOREM CommandsComeWhole == Spec => CommandsArrive
<1> DEFINE Step == executed' # executed =>
              /\ \E n \in 1..Len(executed') : IsCommand(SubSeq(executed', n, Len(executed')))
              /\ ~short => IsCommand(executed')
<1>1. LinkInv /\ [Next]_vars => [Step]_vars
  <2> SUFFICES ASSUME LinkInv, Next, executed' # executed
               PROVE  /\ \E n \in 1..Len(executed') : IsCommand(SubSeq(executed', n, Len(executed')))
                      /\ ~short => IsCommand(executed')
    OBVIOUS
  <2>1. PICK c \in DOMAIN Commands : WriteLine(c)
    BY DEF Next, BoardSends, Unplug, Plug, Open, Lost, ReadChunk, boardVars
  <2>2. PICK n \in 1..Len(Data(c)) : Arrives(SubSeq(Data(c), 1, n), n < Len(Data(c)))
    BY <2>1 DEF WriteLine
  <2>3. PICK s : s = SubSeq(Data(c), 1, n)
    OBVIOUS
  <2>4. Arrives(s, n < Len(Data(c)))
    BY <2>2, <2>3
  <2>5. Last(s) = End /\ executed' = command \o Front(s)
    BY <2>4 DEF Arrives
  <2>6. PICK t : t = Text(c, Commands[c])
    OBVIOUS
  <2>7. Front(s) = t /\ t \in Seq(Characters) /\ Len(t) = Commands[c] /\ Commands[c] \in Nat \ {0}
    <3>1. /\ Last(s) = End => n = Len(Data(c)) /\ Front(s) = Text(c, Commands[c])
          /\ Text(c, Commands[c]) \in Seq(Characters) /\ Len(Text(c, Commands[c])) = Commands[c]
      BY <2>3, <2>4, Written
    <3>2. Commands[c] \in Nat \ {0}
      BY LinkAssumption
    <3> QED BY <2>5, <2>6, <3>1, <3>2
  <2>8. command \in Seq(Characters) /\ (~short => command = <<>>)
    BY DEF LinkInv, LinkTypeOK, NothingLeft
  <2>9. IsCommand(t)
    BY <2>6 DEF IsCommand
  <2>10. executed' = command \o t
    BY <2>5, <2>7
  <2>11. PICK m : m = Len(command) + 1
    OBVIOUS
  <2>12. m \in 1..Len(executed') /\ SubSeq(executed', m, Len(executed')) = t
    <3>1. t # <<>>
      BY <2>7
    <3>2. /\ Len(command) + 1 \in 1..Len(command \o t)
          /\ SubSeq(command \o t, Len(command) + 1, Len(command \o t)) = t
      BY <2>7, <2>8, <3>1, EndOfConcat
    <3> QED BY <2>10, <2>11, <3>2
  <2>13. ~short => executed' = t
    BY <2>7, <2>8, <2>10
  <2> QED BY <2>9, <2>12, <2>13
<1>2. Spec => [][Step]_vars
  BY <1>1, LinkInvHolds, PTL DEF Spec
<1> QED BY <1>2 DEF CommandsArrive
=============================================================================
