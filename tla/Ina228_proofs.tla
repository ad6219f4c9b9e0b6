---------------------------- MODULE Ina228_proofs ----------------------------
(***************************************************************************)
(* Theorems about the power monitor's driver: first the arithmetic of      *)
(* fields in a register, then the table of fields, then the driver.        *)
(***************************************************************************)
EXTENDS Ina228, TLAPS

(* Whole division.                                                         *)

LEMMA DivMod ==
    \A p \in Nat \ {0} : \A v \in Int :
        v \div p \in Int /\ v % p \in 0..p - 1 /\ v = (v \div p) * p + (v % p)
  OBVIOUS

LEMMA DivModNat ==
    \A p \in Nat \ {0} : \A v \in Nat :
        v \div p \in Nat /\ v % p \in 0..p - 1 /\ v = (v \div p) * p + (v % p)
  OBVIOUS

\* Quotient and rest are unique.
LEMMA DivModUnique ==
    \A p \in Nat \ {0} : \A q \in Int, r \in 0..p - 1 :
        (q * p + r) \div p = q /\ (q * p + r) % p = r
  OBVIOUS

LEMMA Distribute ==
    \A u, d, x, p \in Int : (u + d) * p + (x - d) * p = (u + x) * p /\ (u + d) * p = u * p + d * p
  OBVIOUS

LEMMA Associate == \A u, c, q \in Int : (u * c) * q = u * (c * q) /\ u * c \in Int
  OBVIOUS

LEMMA Commute == \A u, c \in Int : u * c = c * u
  OBVIOUS

LEMMA Products == \A a, b \in Nat \ {0} : a * b \in Nat \ {0}
  OBVIOUS

\* Two digits of any two bases.
LEMMA Digits ==
    ASSUME NEW p \in Nat \ {0}, NEW b \in Nat \ {0}, NEW x \in 0..b - 1, NEW r \in 0..p - 1
    PROVE  x * p + r \in 0..p * b - 1
<1>1. x * p <= (b - 1) * p /\ x * p \in Nat
  OBVIOUS
<1>2. (b - 1) * p = p * b - p
  OBVIOUS
<1> QED BY <1>1, <1>2

\* Dividing twice.
LEMMA DivDiv ==
    ASSUME NEW v \in Int, NEW c \in Nat \ {0}, NEW m \in Nat \ {0}
    PROVE  v \div (c * m) = (v \div c) \div m
<1> DEFINE q == v \div c
           r == v % c
           d == q \div m
           s == q % m
<1>1. q \in Int /\ r \in 0..c - 1 /\ v = q * c + r
  BY DivMod
<1>2. d \in Int /\ s \in 0..m - 1 /\ q = d * m + s
  BY DivMod, <1>1
<1>3. s * c + r \in 0..c * m - 1
  BY <1>1, <1>2, Digits
<1> HIDE DEF q, r, d, s
<1>4. v = d * (c * m) + (s * c + r)
  BY <1>1, <1>2
<1>5. c * m \in Nat \ {0}
  BY Products
<1>6. v \div (c * m) = d
  BY <1>2, <1>3, <1>4, <1>5, DivModUnique
<1> QED BY <1>6 DEF d, q

LEMMA SameAbove ==
    ASSUME NEW v \in Int, NEW w \in Int, NEW e \in Nat \ {0}, NEW m \in Nat \ {0},
           v \div e = w \div e
    PROVE  v \div (e * m) = w \div (e * m)
<1>1. v \div (e * m) = (v \div e) \div m
  BY DivDiv
<1>2. w \div (e * m) = (w \div e) \div m
  BY DivDiv
<1> QED BY <1>1, <1>2

-----------------------------------------------------------------------------
(* A field of b values at place p of a value v, and v with x in it.        *)

Field1(v, p, b) == (v \div p) % b
With1(v, p, b, x) == v + (x - Field1(v, p, b)) * p
\* A place q where this field ends, or above.
Above(q, p, b) == \E m \in Nat \ {0} : q = (p * b) * m

\* What is above the field, in it and below it.
IsSplit(v, p, b, h, d, r) ==
    /\ h \in Nat /\ d \in 0..b - 1 /\ r \in 0..p - 1
    /\ d = Field1(v, p, b) /\ v = (h * b + d) * p + r

LEMMA Split ==
    ASSUME NEW v \in Nat, NEW p \in Nat \ {0}, NEW b \in Nat \ {0}
    PROVE  \E h, d, r : IsSplit(v, p, b, h, d, r)
<1> DEFINE q == v \div p
           r == v % p
           h == q \div b
           d == q % b
<1>1. q \in Nat /\ r \in 0..p - 1 /\ v = q * p + r
  BY DivModNat, Zenon
<1>2. h \in Nat /\ d \in 0..b - 1 /\ q = h * b + d
  BY DivModNat, <1>1, Zenon
<1>3. d = Field1(v, p, b)
  BY DEF Field1
<1> HIDE DEF q, r, h, d
<1>4. v = (h * b + d) * p + r
  BY <1>1, <1>2, Zenon
<1> QED BY <1>1, <1>2, <1>3, <1>4 DEF IsSplit

LEMMA WithSplit ==
    ASSUME NEW v \in Nat, NEW p \in Nat \ {0}, NEW b \in Nat \ {0}, NEW x \in 0..b - 1,
           NEW h, NEW d, NEW r, IsSplit(v, p, b, h, d, r)
    PROVE  /\ With1(v, p, b, x) = (h * b + x) * p + r
           /\ v = h * (p * b) + (d * p + r)
           /\ With1(v, p, b, x) = h * (p * b) + (x * p + r)
<1>1. h * b \in Int /\ h \in Int /\ d \in Int /\ r \in Int /\ x \in Int /\ p \in Int /\ b \in Int
  BY DEF IsSplit
<1>2. (h * b + d) * p + (x - d) * p = (h * b + x) * p
  BY <1>1, Distribute
<1>3. (h * b + d) * p \in Int /\ (x - d) * p \in Int
  BY <1>1
<1>4. With1(v, p, b, x) = (h * b + x) * p + r
  BY <1>1, <1>2, <1>3 DEF With1, IsSplit
<1>5. (h * b) * p = h * (p * b)
  BY <1>1, Associate, Commute
<1>6. (h * b + d) * p = h * (p * b) + d * p /\ (h * b + x) * p = h * (p * b) + x * p
  BY <1>1, <1>5, Distribute
<1>7. h * (p * b) \in Int /\ d * p \in Int /\ x * p \in Int
  BY <1>1
<1>8. v = (h * b + d) * p + r
  BY DEF IsSplit
<1> QED BY <1>1, <1>4, <1>6, <1>7, <1>8

LEMMA PutSame ==
    ASSUME NEW v \in Nat, NEW p \in Nat \ {0}, NEW b \in Nat \ {0}, NEW x \in 0..b - 1
    PROVE  With1(v, p, b, x) \in Nat /\ Field1(With1(v, p, b, x), p, b) = x
<1>1. PICK h, d, r : IsSplit(v, p, b, h, d, r)
  BY Split
<1>2. With1(v, p, b, x) = (h * b + x) * p + r
  BY <1>1, WithSplit
<1>3. h \in Nat /\ r \in 0..p - 1
  BY <1>1 DEF IsSplit
<1> DEFINE g == h * b + x
<1>4. g \in Nat /\ g % b = x
  BY <1>3, DivModUnique
<1> HIDE DEF g
<1>5. g * p + r \in Nat /\ (g * p + r) \div p = g
  BY <1>3, <1>4, DivModUnique
<1> QED BY <1>2, <1>4, <1>5 DEF Field1, g

\* What fits a number of such fields fits it afterwards.
LEMMA PutFits ==
    ASSUME NEW v \in Nat, NEW p \in Nat \ {0}, NEW b \in Nat \ {0}, NEW x \in 0..b - 1,
           NEW m \in Nat \ {0}, NEW n \in Nat, n = (p * b) * m, v < n
    PROVE  With1(v, p, b, x) < n
<1>1. PICK h, d, r : IsSplit(v, p, b, h, d, r)
  BY Split
<1>2. h \in Nat /\ d \in 0..b - 1 /\ r \in 0..p - 1
  BY <1>1 DEF IsSplit
<1>3. d * p + r \in 0..p * b - 1 /\ x * p + r \in 0..p * b - 1
  BY <1>2, Digits
<1>4. v = h * (p * b) + (d * p + r) /\ With1(v, p, b, x) = h * (p * b) + (x * p + r)
  BY <1>1, WithSplit
<1>5. PICK e, i, j, w : e = p * b /\ i = d * p + r /\ j = x * p + r /\ w = With1(v, p, b, x)
  OBVIOUS
<1>6. e \in Nat \ {0} /\ i \in 0..e - 1 /\ j \in 0..e - 1 /\ v = h * e + i /\ w = h * e + j
  BY <1>3, <1>4, <1>5, Products
<1>7. n = e * m
  BY <1>5
<1>8. h < m
  <2> SUFFICES ASSUME h >= m PROVE FALSE
    BY <1>2
  <2>1. h * e >= e * m /\ h * e \in Nat
    BY <1>2, <1>6
  <2> QED BY <1>6, <1>7, <2>1
<1>9. h * e <= e * m - e /\ h * e \in Nat /\ e * m \in Nat
  BY <1>2, <1>6, <1>8
<1>10. w < n
  BY <1>6, <1>7, <1>9
<1> QED BY <1>5, <1>10

\* A field that begins where this one ends, or above.
LEMMA PutBelow ==
    ASSUME NEW v \in Nat, NEW p \in Nat \ {0}, NEW b \in Nat \ {0}, NEW x \in 0..b - 1,
           NEW c \in Nat \ {0}, NEW q, Above(q, p, b)
    PROVE  Field1(With1(v, p, b, x), q, c) = Field1(v, q, c)
<1>0. PICK m \in Nat \ {0} : q = (p * b) * m
  BY DEF Above
<1>1. PICK h, d, r : IsSplit(v, p, b, h, d, r)
  BY Split
<1>2. h \in Int /\ d \in 0..b - 1 /\ r \in 0..p - 1
  BY <1>1 DEF IsSplit
<1>3. d * p + r \in 0..p * b - 1 /\ x * p + r \in 0..p * b - 1
  BY <1>2, Digits
<1>4. v = h * (p * b) + (d * p + r) /\ With1(v, p, b, x) = h * (p * b) + (x * p + r)
  BY <1>1, WithSplit
<1>5. p * b \in Nat \ {0} /\ With1(v, p, b, x) \in Int
  BY Products, PutSame
<1> DEFINE e == p * b
           i == d * p + r
           j == x * p + r
           w == With1(v, p, b, x)
<1>6. e \in Nat \ {0} /\ i \in 0..e - 1 /\ j \in 0..e - 1 /\ v = h * e + i /\ w = h * e + j
      /\ w \in Int
  BY <1>3, <1>4, <1>5
<1> HIDE DEF e, i, j, w
<1>7. v \div e = w \div e
  BY <1>2, <1>6, DivModUnique
<1>8. v \div (e * m) = w \div (e * m)
  <2>1. v \in Int /\ w \in Int /\ e \in Nat \ {0} /\ m \in Nat \ {0}
    BY <1>0, <1>6
  <2> QED BY <1>7, <2>1, SameAbove, Zenon
<1> QED BY <1>0, <1>8 DEF Field1, e, w

\* A field that ends where this one begins, or below.
LEMMA PutAbove ==
    ASSUME NEW v \in Nat, NEW q \in Nat \ {0}, NEW c \in Nat \ {0},
           NEW b \in Nat \ {0}, NEW x \in 0..b - 1, NEW p, Above(p, q, c)
    PROVE  Field1(With1(v, p, b, x), q, c) = Field1(v, q, c)
<1>0. PICK m \in Nat \ {0} : p = (q * c) * m
  BY DEF Above
<1> DEFINE a == v \div q
           k == x - Field1(v, p, b)
<1>1. a \in Int /\ v % q \in 0..q - 1 /\ v = a * q + (v % q)
  <2>1. v \in Int
    OBVIOUS
  <2> QED BY <2>1, DivMod, Zenon
<1>2. p \in Nat \ {0}
  BY <1>0, Products
<1>3. k \in Int
  BY <1>2, DivMod DEF Field1
<1>4. With1(v, p, b, x) = v + k * p
  BY DEF With1
<1> HIDE DEF a, k
<1>5. v + k * p = (a + (k * m) * c) * q + (v % q)
  <2>1. q \in Int /\ c \in Int /\ m \in Int /\ k * m \in Int /\ (k * m) * c \in Int
    BY <1>3
  <2>2. k * ((q * c) * m) = ((k * m) * c) * q
    <3>1. (q * c) * m = m * (c * q) /\ c * q \in Int
      BY <2>1, Commute
    <3>2. k * (m * (c * q)) = (k * m) * (c * q)
      BY <1>3, <2>1, <3>1, Associate
    <3>3. (k * m) * (c * q) = ((k * m) * c) * q
      BY <2>1, Associate
    <3> QED BY <3>1, <3>2, <3>3
  <2>3. (a + (k * m) * c) * q = a * q + ((k * m) * c) * q
    BY <1>1, <2>1, Distribute
  <2>4. a * q \in Int /\ ((k * m) * c) * q \in Int /\ v % q \in Int
    BY <1>1, <2>1
  <2> QED BY <1>0, <1>1, <2>2, <2>3, <2>4
<1>6. a + (k * m) * c \in Int
  BY <1>1, <1>3
<1>7. With1(v, p, b, x) \div q = a + (k * m) * c
  <2>1. PICK j : j = a + (k * m) * c
    OBVIOUS
  <2>2. j \in Int /\ With1(v, p, b, x) = j * q + (v % q)
    BY <1>4, <1>5, <1>6, <2>1
  <2>3. With1(v, p, b, x) \div q = j
    BY <1>1, <2>2, DivModUnique
  <2> QED BY <2>1, <2>3
<1>8. a \div c \in Int /\ a % c \in 0..c - 1 /\ a = (a \div c) * c + (a % c)
  BY <1>1, DivMod
<1>9. a + (k * m) * c = ((a \div c) + k * m) * c + (a % c) /\ (a \div c) + k * m \in Int
  <2>1. k * m \in Int /\ c \in Int /\ a \div c \in Int /\ (a \div c) * c \in Int /\ (k * m) * c \in Int
    BY <1>3, <1>8
  <2>2. ((a \div c) + k * m) * c = (a \div c) * c + (k * m) * c
    BY <2>1, Distribute
  <2>3. a % c \in Int
    BY <1>8
  <2> DEFINE e == a \div c
  <2>4. e \in Int /\ e * c \in Int /\ a = e * c + (a % c) /\ (e + k * m) * c = e * c + (k * m) * c
    BY <1>8, <2>1, <2>2
  <2> HIDE DEF e
  <2>5. a + (k * m) * c = (e + k * m) * c + (a % c) /\ e + k * m \in Int
    BY <2>1, <2>3, <2>4
  <2> QED BY <2>5 DEF e
<1>10. (a + (k * m) * c) % c = a % c
  BY <1>8, <1>9, DivModUnique
<1> QED BY <1>7, <1>10 DEF Field1, a

-----------------------------------------------------------------------------
(* The table of fields.                                                    *)

LEMMA WordSizeIsNat == WordSize \in Nat \ {0}
  BY DEF WordSize

LEMMA WordIsNat == \A v \in Word : v \in Nat
  BY WordSizeIsNat DEF Word

LEMMA FieldNumbers ==
    \A f \in DOMAIN Fields :
        /\ Fields[f].place \in Nat \ {0} /\ Fields[f].size \in Nat \ {0}
        /\ Fields[f].limit \in 0..Fields[f].size - 1 /\ Reg(f) \in Registers
  BY DEF Fields, Field, Reg, Registers, WordSize

\* The fields of a register do not overlap.
LEMMA FieldsApart ==
    \A f, g \in DOMAIN Fields : Reg(f) = Reg(g) /\ f # g =>
        \/ Above(Fields[g].place, Fields[f].place, Fields[f].size)
        \/ Above(Fields[f].place, Fields[g].place, Fields[g].size)
  BY DEF Above, Fields, Field, Reg, WordSize

\* A register of 16 bits is a whole number of each of its fields.
LEMMA FieldsFit ==
    \A f \in DOMAIN Fields : \E m \in Nat \ {0} : WordSize = (Fields[f].place * Fields[f].size) * m
<1>1. \A f \in DOMAIN Fields :
        Fields[f].place * Fields[f].size \in {8, 32, 64, 512, 4096, 16384, 32768, 65536}
  BY DEF Fields, Field, WordSize
<1>2. \A n \in {8, 32, 64, 512, 4096, 16384, 32768, 65536} : n * (65536 \div n) = 65536
  OBVIOUS
<1>3. \A n \in {8, 32, 64, 512, 4096, 16384, 32768, 65536} : 65536 \div n \in Nat \ {0}
  OBVIOUS
<1> SUFFICES ASSUME NEW f \in DOMAIN Fields
             PROVE  \E m \in Nat \ {0} : WordSize = (Fields[f].place * Fields[f].size) * m
  OBVIOUS
<1>4. PICK n : n = Fields[f].place * Fields[f].size
  OBVIOUS
<1>5. n \in {8, 32, 64, 512, 4096, 16384, 32768, 65536}
  BY <1>1, <1>4
<1>6. 65536 = n * (65536 \div n) /\ 65536 \div n \in Nat \ {0}
  BY <1>2, <1>3, <1>5
<1> QED BY <1>4, <1>6 DEF WordSize

\* A field that takes a whole register is alone in it; one of these is not
\* written by Modify() and ModifyBit(), and the ADC range is none of them.
LEMMA WholeFields ==
    \A f \in DOMAIN Fields : Fields[f].size = WordSize =>
        /\ Fields[f].place = 1 /\ Reg(f) \notin {"CONFIG", "SHUNT_CAL"}
        /\ \A g \in DOMAIN Fields : Reg(g) = Reg(f) => g = f
  BY DEF Fields, Field, Reg, WordSize

LEMMA AdcRangeField ==
    "adcRange" \in DOMAIN Fields /\ Reg("adcRange") = "CONFIG" /\ Fields["adcRange"].size = 2
  BY DEF Fields, Field, Reg, WordSize

LEMMA CalibrationRegister ==
    "SHUNT_CAL" \in Registers /\ "CONFIG" \in Registers /\ \A f \in DOMAIN Fields : Reg(f) # "SHUNT_CAL"
  BY DEF Fields, Field, Reg, Registers, WordSize

LEMMA GetIsNat == \A f \in DOMAIN Fields, v \in Nat : Get(v, f) \in 0..Fields[f].size - 1
<1> SUFFICES ASSUME NEW f \in DOMAIN Fields, NEW v \in Nat
             PROVE  Get(v, f) \in 0..Fields[f].size - 1
  OBVIOUS
<1>1. Fields[f].place \in Nat \ {0} /\ Fields[f].size \in Nat \ {0}
  BY FieldNumbers
<1>2. v \div Fields[f].place \in Nat
  BY <1>1, DivModNat, Zenon
<1> QED BY <1>1, <1>2, DivModNat, Zenon DEF Get

\* A value put into a field is got out of it again, and the register keeps to
\* its 16 bits.
LEMMA PutGet ==
    ASSUME NEW f \in DOMAIN Fields, NEW v \in Word, NEW x \in 0..Fields[f].size - 1
    PROVE  Put(v, f, x) \in Word /\ Get(Put(v, f, x), f) = x
<1>1. PICK p, b, n : p = Fields[f].place /\ b = Fields[f].size /\ n = WordSize
  OBVIOUS
<1>2. p \in Nat \ {0} /\ b \in Nat \ {0} /\ x \in 0..b - 1
  BY <1>1, FieldNumbers
<1>3. PICK m \in Nat \ {0} : n = (p * b) * m
  BY <1>1, FieldsFit
<1>4. v \in Nat /\ v < WordSize
  BY WordSizeIsNat DEF Word
<1>5. v < n /\ n \in Nat
  BY <1>1, <1>4, WordSizeIsNat
<1>6. PICK w : w = With1(v, p, b, x)
  OBVIOUS
<1>7. w \in Nat /\ Field1(w, p, b) = x
  BY <1>2, <1>4, <1>6, PutSame, Zenon
<1>8. w < n
  BY <1>2, <1>3, <1>4, <1>5, <1>6, PutFits, Zenon
<1>10. w \in Word
  BY <1>1, <1>5, <1>7, <1>8 DEF Word
<1>11. Put(v, f, x) = w /\ Get(w, f) = x
  BY <1>1, <1>6, <1>7 DEF Put, Get, With1, Field1
<1> QED BY <1>10, <1>11

\* The other fields of the register keep their values.
LEMMA PutLeavesOthers ==
    ASSUME NEW f \in DOMAIN Fields, NEW g \in DOMAIN Fields, Reg(f) = Reg(g), f # g,
           NEW v \in Word, NEW x \in 0..Fields[f].size - 1
    PROVE  Get(Put(v, f, x), g) = Get(v, g)
<1>1. PICK p, b, q, c : /\ p = Fields[f].place /\ b = Fields[f].size
                        /\ q = Fields[g].place /\ c = Fields[g].size
  OBVIOUS
<1>2. p \in Nat \ {0} /\ b \in Nat \ {0} /\ q \in Nat \ {0} /\ c \in Nat \ {0} /\ v \in Nat
      /\ x \in 0..b - 1
  BY <1>1, FieldNumbers, WordIsNat
<1>3. Above(q, p, b) \/ Above(p, q, c)
  BY <1>1, FieldsApart
<1>4. Get(Put(v, f, x), g) = Field1(With1(v, p, b, x), q, c) /\ Get(v, g) = Field1(v, q, c)
  BY <1>1 DEF Get, Put, With1, Field1
<1>5. CASE Above(q, p, b)
  <2>1. Field1(With1(v, p, b, x), q, c) = Field1(v, q, c)
    BY <1>2, <1>5, PutBelow
  <2> QED BY <1>4, <2>1
<1>6. CASE Above(p, q, c)
  BY <1>2, <1>4, <1>6, PutAbove
<1> QED BY <1>3, <1>5, <1>6

\* A field that is the whole register.
LEMMA WholeField ==
    ASSUME NEW f \in DOMAIN Fields, Fields[f].size = WordSize, NEW x \in Word
    PROVE  Get(x, f) = x
<1>1. Fields[f].place = 1
  BY WholeFields
<1>2. PICK n : n = WordSize
  OBVIOUS
<1>3. n \in Nat \ {0} /\ x \in 0..n - 1
  BY <1>2, WordSizeIsNat DEF Word
<1>4. 0 * n + x = x /\ x \div 1 = x
  BY <1>3
<1>5. (0 * n + x) % n = x
  BY <1>3, DivModUnique
<1> QED BY <1>1, <1>2, <1>4, <1>5 DEF Get

-----------------------------------------------------------------------------
(* The driver and the chip.                                                *)

InaTypeOK ==
    /\ chip \in [Registers -> Word]
    /\ connected \in BOOLEAN /\ ADCRange \in BOOLEAN /\ error \in BOOLEAN /\ stale \in BOOLEAN
    /\ maxCurrent \in Currents /\ shunt \in Shunts
    /\ want \in [Used -> Nat] /\ suspect \subseteq Registers

InaInv == InaTypeOK /\ NoSilentLoss /\ RangeIsChips /\ CalibrationFits

\* What setMaxCurrentShunt() writes fits SHUNT_CAL.
LEMMA CalibrationIsWord ==
    ASSUME NEW c \in Currents, NEW s \in Shunts, NEW range \in BOOLEAN
    PROVE  Calibration(c, s, range) \in Word
<1>1. CalUnit \in Nat /\ c \in Nat /\ s \in Nat /\ 4 * CalUnit * c * s < WordSize
  BY InaAssumption
<1>2. PICK e : e = CalUnit * c * s
  OBVIOUS
<1>3. e \in Nat /\ 4 * CalUnit * c * s = 4 * e
  BY <1>1, <1>2
<1>4. Calibration(c, s, range) = IF range THEN 4 * e ELSE e
  BY <1>2, <1>3 DEF Calibration
<1> QED BY <1>1, <1>3, <1>4, WordSizeIsNat DEF Word

LEMMA UsedFields ==
    /\ Used \subseteq DOMAIN Fields /\ "adcRange" \notin Used
    /\ \A f \in Used : Reg(f) \in Registers /\ Reg(f) # "SHUNT_CAL"
  BY InaAssumption, FieldNumbers, CalibrationRegister

\* What a setter accepts is one of the field's values.
LEMMA AcceptedFits ==
    ASSUME NEW f \in Used, NEW x \in Values[f], Accepts(f, x)
    PROVE  x \in 0..Fields[f].size - 1
<1>1. x \in Nat
  BY InaAssumption
<1> QED BY <1>1, UsedFields, FieldNumbers DEF Accepts

\* What a read gives, failed or not.
LEMMA ReadIsWord ==
    ASSUME InaTypeOK, NEW reg \in Registers, NEW ok
    PROVE  ReadRegister(reg, ok) \in Word
  BY WordSizeIsNat DEF InaTypeOK, ReadRegister, Word

LEMMA ValueIsNat == \A f \in Used : \A x \in 0..Fields[f].size - 1 : x \in Nat
  BY UsedFields, FieldNumbers

LEMMA ResetIsNat == \A f \in Used : Get(ResetValue[Reg(f)], f) \in Nat
<1> SUFFICES ASSUME NEW f \in Used PROVE Get(ResetValue[Reg(f)], f) \in Nat
  OBVIOUS
<1>1. f \in DOMAIN Fields /\ ResetValue[Reg(f)] \in Nat
  BY InaAssumption, UsedFields, WordIsNat
<1>2. Get(ResetValue[Reg(f)], f) \in 0..Fields[f].size - 1
  BY <1>1, GetIsNat
<1> QED BY <1>2, ValueIsNat

LEMMA InitInv == Init => InaInv
<1> SUFFICES ASSUME Init PROVE InaInv
  OBVIOUS
<1>1. ResetValue \in [Registers -> Word]
  BY InaAssumption
<1>2. \A f \in Used : Get(ResetValue[Reg(f)], f) \in Nat
  BY ResetIsNat
<1>3. InaTypeOK
  BY <1>1, <1>2, CalibrationRegister DEF Init, InaTypeOK
<1>4. NoSilentLoss
  BY DEF Init, NoSilentLoss
<1>5. RangeIsChips /\ CalibrationFits
  BY DEF Init, RangeIsChips, CalibrationFits
<1> QED BY <1>3, <1>4, <1>5 DEF InaInv

\* A step that writes one field's register, or nothing, and keeps the driver's
\* variables: it must leave the register suspect or right.
LEMMA FieldStep ==
    ASSUME InaInv, NEW f \in Used, NEW x \in Nat, NEW new \in Word, NEW known,
           known \subseteq {Reg(f)},
           chip' = [chip EXCEPT ![Reg(f)] = new], error' \in BOOLEAN,
           Judge({Reg(f)}, known, [want EXCEPT ![f] = x]),
           UNCHANGED <<connected, ADCRange, maxCurrent, shunt, stale>>,
           Reg(f) \notin suspect' => Get(new, f) = x,
           \A g \in DOMAIN Fields : g # f /\ Reg(g) = Reg(f) /\ Reg(f) \notin suspect' =>
               Reg(f) \notin suspect /\ Get(new, g) = Get(chip[Reg(f)], g)
    PROVE  InaInv'
<1>1. InaTypeOK /\ NoSilentLoss /\ RangeIsChips /\ CalibrationFits
  BY DEF InaInv
<1>2. Reg(f) \in Registers /\ Reg(f) # "SHUNT_CAL" /\ f # "adcRange" /\ Used \subseteq DOMAIN Fields
  BY UsedFields
<1>3. suspect' = IF error' THEN suspect \cup {Reg(f)} ELSE suspect \ known
  BY DEF Judge
<1>4. want' = [g \in Used |-> IF Reg(g) \in suspect' THEN 0 ELSE [want EXCEPT ![f] = x][g]]
  BY DEF Judge
<1>5. InaTypeOK'
  BY <1>1, <1>2, <1>3, <1>4 DEF InaTypeOK
<1>6. NoSilentLoss'
  <2> SUFFICES ASSUME NEW g \in Used, Reg(g) \notin suspect'
               PROVE  Get(chip'[Reg(g)], g) = want'[g]
    BY DEF NoSilentLoss
  <2>1. want'[g] = IF g = f THEN x ELSE want[g]
    BY <1>1, <1>4 DEF InaTypeOK
  <2>2. CASE Reg(g) = Reg(f)
    <3>1. chip'[Reg(g)] = new
      BY <1>1, <1>2, <2>2 DEF InaTypeOK
    <3>2. CASE g = f
      BY <2>1, <2>2, <3>1, <3>2
    <3>3. CASE g # f
      BY <1>1, <1>2, <2>1, <2>2, <3>1, <3>3 DEF NoSilentLoss
    <3> QED BY <3>2, <3>3
  <2>3. CASE Reg(g) # Reg(f)
    <3>1. chip'[Reg(g)] = chip[Reg(g)] /\ Reg(g) \notin suspect /\ g # f
      BY <1>1, <1>2, <1>3, <2>3, UsedFields DEF InaTypeOK
    <3> QED BY <1>1, <2>1, <3>1 DEF NoSilentLoss
  <2> QED BY <2>2, <2>3
<1>7. "CONFIG" \notin suspect' =>
        /\ "CONFIG" \notin suspect
        /\ Get(chip'["CONFIG"], "adcRange") = Get(chip["CONFIG"], "adcRange")
  <2> SUFFICES ASSUME "CONFIG" \notin suspect'
               PROVE  /\ "CONFIG" \notin suspect
                      /\ Get(chip'["CONFIG"], "adcRange") = Get(chip["CONFIG"], "adcRange")
    OBVIOUS
  <2>1. CASE Reg(f) = "CONFIG"
    BY <1>1, <1>2, <2>1, AdcRangeField DEF InaTypeOK
  <2>2. CASE Reg(f) # "CONFIG"
    BY <1>1, <1>2, <1>3, <2>2, CalibrationRegister DEF InaTypeOK
  <2> QED BY <2>1, <2>2
<1>8. RangeIsChips'
  BY <1>1, <1>7 DEF RangeIsChips
<1>9. chip'["SHUNT_CAL"] = chip["SHUNT_CAL"] /\ ("SHUNT_CAL" \notin suspect' => "SHUNT_CAL" \notin suspect)
  BY <1>1, <1>2, <1>3, CalibrationRegister DEF InaTypeOK
<1>10. CalibrationFits'
  BY <1>1, <1>7, <1>9 DEF CalibrationFits, Calibration
<1> QED BY <1>5, <1>6, <1>8, <1>10 DEF InaInv

LEMMA PutStep ==
    ASSUME InaInv, NEW f \in Used, NEW x \in 0..Fields[f].size - 1, NEW r \in BOOLEAN
    PROVE  /\ Put(ReadRegister(Reg(f), r), f, x) \in Word
           /\ Get(Put(ReadRegister(Reg(f), r), f, x), f) = x
           /\ r => \A g \in DOMAIN Fields : g # f /\ Reg(g) = Reg(f) =>
                    Get(Put(ReadRegister(Reg(f), r), f, x), g) = Get(chip[Reg(f)], g)
<1>1. f \in DOMAIN Fields /\ ReadRegister(Reg(f), r) \in Word
  BY UsedFields, ReadIsWord DEF InaInv
<1>2. r => ReadRegister(Reg(f), r) = chip[Reg(f)]
  BY DEF ReadRegister
<1>3. \A g \in DOMAIN Fields : g # f /\ Reg(g) = Reg(f) =>
        Get(Put(ReadRegister(Reg(f), r), f, x), g) = Get(ReadRegister(Reg(f), r), g)
  BY <1>1, PutLeavesOthers
<1> QED BY <1>1, <1>2, <1>3, PutGet

\* The setters of CONFIG and ADC_CONFIG.
LEMMA ModifyInv ==
    ASSUME InaInv, NEW f \in Used, NEW x \in 0..Fields[f].size - 1, Modify(f, x),
           UNCHANGED <<connected, ADCRange, maxCurrent, shunt, stale>>
    PROVE  InaInv'
<1>1. PICK r \in Transfers, w \in Transfers :
        WriteRegister(Reg(f), Put(ReadRegister(Reg(f), r), f, x), w, ~r)
  BY DEF Modify
<1>2. r \in BOOLEAN /\ w \in BOOLEAN
  BY DEF Transfers
<1> DEFINE put == Put(ReadRegister(Reg(f), r), f, x)
           new == IF w THEN put ELSE chip[Reg(f)]
<1>3. /\ put \in Word /\ Get(put, f) = x
      /\ r => \A g \in DOMAIN Fields : g # f /\ Reg(g) = Reg(f) =>
               Get(put, g) = Get(chip[Reg(f)], g)
  BY <1>2, PutStep
<1>4. Judge({Reg(f)}, {}, [want EXCEPT ![f] = x])
  BY DEF Modify
<1>5. suspect' = IF error' THEN suspect \cup {Reg(f)} ELSE suspect
  BY <1>4 DEF Judge
<1> HIDE DEF put
<1>6. chip \in [Registers -> Word] /\ Reg(f) \in Registers
  BY UsedFields DEF InaInv, InaTypeOK
<1>7. chip' = [chip EXCEPT ![Reg(f)] = new] /\ error' = (~r \/ ~w)
  BY <1>1, <1>6 DEF WriteRegister, put
<1>8. new \in Word /\ error' \in BOOLEAN
  BY <1>3, <1>6, <1>7
<1>9. Reg(f) \notin suspect' => /\ Reg(f) \notin suspect /\ r /\ new = put
  BY <1>2, <1>5, <1>7
<1> HIDE DEF new
<1>10. /\ Reg(f) \notin suspect' => Get(new, f) = x
       /\ \A g \in DOMAIN Fields : g # f /\ Reg(g) = Reg(f) /\ Reg(f) \notin suspect' =>
            Reg(f) \notin suspect /\ Get(new, g) = Get(chip[Reg(f)], g)
  BY <1>3, <1>9
<1>11. PICK known : known = {}
  OBVIOUS
<1>12. x \in Nat /\ known \subseteq {Reg(f)} /\ Judge({Reg(f)}, known, [want EXCEPT ![f] = x])
  BY <1>4, <1>11, ValueIsNat
<1> QED BY <1>7, <1>8, <1>10, <1>12, FieldStep

\* setDiagnoseAlertBit(), clearDiagnoseAlertBit().
LEMMA ModifyBitInv ==
    ASSUME InaInv, NEW f \in Used, NEW x \in 0..Fields[f].size - 1, ModifyBit(f, x),
           UNCHANGED <<connected, ADCRange, maxCurrent, shunt, stale>>
    PROVE  InaInv'
<1> DEFINE value(r) == ReadRegister(Reg(f), r)
<1>1. PICK r \in Transfers, w \in Transfers :
        IF Get(value(r), f) = x THEN UNCHANGED chip /\ error' = ~r
        ELSE WriteRegister(Reg(f), Put(value(r), f, x), w, ~r)
  BY DEF ModifyBit
<1>2. r \in BOOLEAN /\ w \in BOOLEAN
  BY DEF Transfers
<1> DEFINE put == Put(value(r), f, x)
           same == Get(value(r), f) = x
           new == IF w /\ ~same THEN put ELSE chip[Reg(f)]
<1>3. /\ put \in Word /\ Get(put, f) = x
      /\ r => \A g \in DOMAIN Fields : g # f /\ Reg(g) = Reg(f) =>
               Get(put, g) = Get(chip[Reg(f)], g)
  BY <1>2, PutStep
<1>4. Judge({Reg(f)}, {}, [want EXCEPT ![f] = x])
  BY DEF ModifyBit
<1>5. suspect' = IF error' THEN suspect \cup {Reg(f)} ELSE suspect
  BY <1>4 DEF Judge
<1>6. chip \in [Registers -> Word] /\ Reg(f) \in Registers
  BY UsedFields DEF InaInv, InaTypeOK
<1>7. r /\ same => Get(chip[Reg(f)], f) = x
  BY DEF ReadRegister
<1> HIDE DEF put, same
<1>8. chip' = [chip EXCEPT ![Reg(f)] = new] /\ error' = (~r \/ (~same /\ ~w))
  BY <1>1, <1>2, <1>6 DEF WriteRegister, put, same
<1>9. new \in Word /\ error' \in BOOLEAN
  BY <1>3, <1>6, <1>8
<1>10. Reg(f) \notin suspect' =>
         /\ Reg(f) \notin suspect /\ r /\ Get(new, f) = x
         /\ new = put \/ new = chip[Reg(f)]
  BY <1>2, <1>3, <1>5, <1>7, <1>8
<1> HIDE DEF new
<1>11. \A g \in DOMAIN Fields : g # f /\ Reg(g) = Reg(f) /\ Reg(f) \notin suspect' =>
         Reg(f) \notin suspect /\ Get(new, g) = Get(chip[Reg(f)], g)
  BY <1>3, <1>10
<1>12. PICK known : known = {}
  OBVIOUS
<1>13. x \in Nat /\ known \subseteq {Reg(f)} /\ Judge({Reg(f)}, known, [want EXCEPT ![f] = x])
  BY <1>4, <1>12, ValueIsNat
<1> QED BY <1>8, <1>9, <1>10, <1>11, <1>13, FieldStep

\* The setters of limits and of the coefficient.
LEMMA OverwriteInv ==
    ASSUME InaInv, NEW f \in Used, NEW x \in 0..Fields[f].size - 1, Overwrite(f, x),
           UNCHANGED <<connected, ADCRange, maxCurrent, shunt, stale>>
    PROVE  InaInv'
<1>1. PICK w \in Transfers : WriteRegister(Reg(f), x, w, error)
  BY DEF Overwrite
<1>2. w \in BOOLEAN /\ error \in BOOLEAN
  BY DEF Transfers, InaInv, InaTypeOK
<1>3. f \in DOMAIN Fields /\ Fields[f].size = WordSize /\ x \in Word
  BY UsedFields DEF Overwrite, Word
<1>4. Get(x, f) = x /\ \A g \in DOMAIN Fields : Reg(g) = Reg(f) => g = f
  BY <1>3, WholeField, WholeFields
<1> DEFINE new == IF w THEN x ELSE chip[Reg(f)]
<1>5. Judge({Reg(f)}, {Reg(f)}, [want EXCEPT ![f] = x])
  BY DEF Overwrite
<1>6. suspect' = IF error' THEN suspect \cup {Reg(f)} ELSE suspect \ {Reg(f)}
  BY <1>5 DEF Judge
<1>7. chip \in [Registers -> Word] /\ Reg(f) \in Registers
  BY UsedFields DEF InaInv, InaTypeOK
<1>8. chip' = [chip EXCEPT ![Reg(f)] = new] /\ error' = (error \/ ~w)
  BY <1>1, <1>7 DEF WriteRegister
<1>9. new \in Word /\ error' \in BOOLEAN
  BY <1>2, <1>3, <1>7, <1>8
<1>10. Reg(f) \notin suspect' => Get(new, f) = x
  BY <1>2, <1>4, <1>6, <1>8
<1> HIDE DEF new
<1> QED BY <1>4, <1>5, <1>8, <1>9, <1>10, FieldStep, ValueIsNat

LEMMA SetInv ==
    ASSUME InaInv, NEW f \in Used, NEW x \in Values[f], Set(f, x)
    PROVE  InaInv'
<1>1. x \in 0..Fields[f].size - 1
  BY AcceptedFits DEF Set
<1> QED BY <1>1, ModifyInv, ModifyBitInv, OverwriteInv DEF Set

\* A step that leaves the chip alone, and what is known of its registers.
LEMMA KeepInv ==
    ASSUME InaInv, UNCHANGED <<chip, maxCurrent, shunt, want, suspect>>,
           connected' \in BOOLEAN, ADCRange' \in BOOLEAN, error' \in BOOLEAN, stale' \in BOOLEAN,
           ~stale' => \/ ~stale /\ ADCRange' = ADCRange
                      \/ ADCRange' = (Get(chip["CONFIG"], "adcRange") = 1)
    PROVE  InaInv'
<1>1. InaTypeOK' /\ NoSilentLoss' /\ CalibrationFits'
  BY DEF InaInv, InaTypeOK, NoSilentLoss, CalibrationFits, Calibration
<1>2. RangeIsChips'
  BY DEF InaInv, RangeIsChips
<1> QED BY <1>1, <1>2 DEF InaInv

LEMMA GetADCRangeInv == InaInv /\ GetADCRange => InaInv'
<1> SUFFICES ASSUME InaInv, GetADCRange PROVE InaInv'
  OBVIOUS
<1>1. PICK ok \in Transfers :
        /\ ADCRange' = (Get(ReadRegister("CONFIG", ok), "adcRange") = 1)
        /\ error' = ~ok /\ stale' = ~ok
  BY DEF GetADCRange
<1>2. ok \in BOOLEAN /\ connected \in BOOLEAN
  BY DEF Transfers, InaInv, InaTypeOK
<1>3. UNCHANGED <<chip, connected, maxCurrent, shunt, want, suspect>>
  BY DEF GetADCRange
<1> QED BY <1>1, <1>2, <1>3, KeepInv DEF ReadRegister

LEMMA BeginInv == InaInv /\ Begin => InaInv'
<1> SUFFICES ASSUME InaInv, Begin PROVE InaInv'
  OBVIOUS
<1>1. CASE /\ connected' \in BOOLEAN
           /\ UNCHANGED <<chip, ADCRange, maxCurrent, shunt, error, want, suspect, stale>>
  BY <1>1, KeepInv DEF InaInv, InaTypeOK
<1>2. CASE /\ connected' = TRUE
           /\ \E ok \in BOOLEAN :
                /\ ADCRange' = (Get(ReadRegister("CONFIG", ok), "adcRange") = 1)
                /\ error' = ~ok /\ stale' = ~ok
           /\ UNCHANGED <<chip, maxCurrent, shunt, want, suspect>>
  BY <1>2, KeepInv DEF ReadRegister
<1> QED BY <1>1, <1>2 DEF Begin

LEMMA ReadInv == InaInv /\ Read => InaInv'
<1> SUFFICES ASSUME InaInv, Read PROVE InaInv'
  OBVIOUS
<1>1. error' \in BOOLEAN
  BY DEF Read, Transfers
<1>2. UNCHANGED <<chip, connected, ADCRange, maxCurrent, shunt, want, suspect, stale>>
  BY DEF Read
<1> QED BY <1>1, <1>2, KeepInv DEF InaInv, InaTypeOK

LEMMA ResetInv == InaInv /\ Reset => InaInv'
<1> SUFFICES ASSUME InaInv, Reset PROVE InaInv'
  OBVIOUS
<1>1. PICK r \in Transfers, w \in Transfers :
        /\ error' = (~r \/ ~w)
        /\ chip' = IF w THEN ResetValue ELSE chip
        /\ suspect' = IF error' THEN Registers ELSE {"SHUNT_CAL"}
        /\ want' = [f \in Used |-> IF error' THEN 0 ELSE Get(ResetValue[Reg(f)], f)]
        /\ stale' = TRUE
        /\ UNCHANGED <<connected, ADCRange, maxCurrent, shunt>>
  BY DEF Reset
<1>2. r \in BOOLEAN /\ w \in BOOLEAN
  BY DEF Transfers
<1>3. \A f \in Used : Get(ResetValue[Reg(f)], f) \in Nat
  BY ResetIsNat
<1>4. InaTypeOK'
  BY <1>1, <1>2, <1>3, InaAssumption, CalibrationRegister DEF InaInv, InaTypeOK
<1>5. NoSilentLoss'
  BY <1>1, <1>2, UsedFields DEF NoSilentLoss
<1>6. RangeIsChips' /\ CalibrationFits'
  BY <1>1, CalibrationRegister DEF RangeIsChips, CalibrationFits
<1> QED BY <1>4, <1>5, <1>6 DEF InaInv

\* setMaxCurrentShunt(): the register is right without errors only if the
\* driver's range is the chip's.
LEMMA CalibrateInv ==
    ASSUME InaInv, NEW c \in Currents, NEW s \in Shunts, SetMaxCurrentShunt(c, s)
    PROVE  InaInv'
<1> DEFINE cal == Calibration(c, s, ADCRange)
<1>1. PICK w \in Transfers : WriteRegister("SHUNT_CAL", cal, w, error)
  BY DEF SetMaxCurrentShunt
<1>2. /\ maxCurrent' = c /\ shunt' = s
      /\ suspect' = IF error' \/ stale THEN suspect \cup {"SHUNT_CAL"} ELSE suspect \ {"SHUNT_CAL"}
      /\ UNCHANGED <<connected, ADCRange, want, stale>>
  BY DEF SetMaxCurrentShunt
<1>3. InaTypeOK /\ NoSilentLoss /\ RangeIsChips
  BY DEF InaInv
<1>4. w \in BOOLEAN /\ cal \in Word
  BY <1>3, CalibrationIsWord DEF Transfers, InaTypeOK
<1> HIDE DEF cal
<1>5. chip' = (IF w THEN [chip EXCEPT !["SHUNT_CAL"] = cal] ELSE chip) /\ error' = (error \/ ~w)
  BY <1>1 DEF WriteRegister
<1>6. \A reg \in Registers : reg # "SHUNT_CAL" => chip'[reg] = chip[reg]
  BY <1>3, <1>5, CalibrationRegister DEF InaTypeOK
<1>7. InaTypeOK'
  BY <1>2, <1>3, <1>4, <1>5, CalibrationRegister DEF InaTypeOK
<1>8. NoSilentLoss'
  BY <1>2, <1>3, <1>6, UsedFields DEF NoSilentLoss
<1>9. RangeIsChips'
  BY <1>2, <1>3, <1>6, CalibrationRegister DEF RangeIsChips
<1>10. CalibrationFits'
  <2> SUFFICES ASSUME "CONFIG" \notin suspect', "SHUNT_CAL" \notin suspect'
               PROVE  chip'["SHUNT_CAL"] =
                        Calibration(c, s, Get(chip'["CONFIG"], "adcRange") = 1)
    BY <1>2 DEF CalibrationFits, Calibration
  <2>1. w /\ ~stale /\ "CONFIG" \notin suspect
    BY <1>2, <1>4, <1>5
  <2>2. chip'["SHUNT_CAL"] = cal /\ chip'["CONFIG"] = chip["CONFIG"]
    BY <1>3, <1>5, <1>6, <2>1, CalibrationRegister DEF InaTypeOK
  <2>3. ADCRange <=> Get(chip["CONFIG"], "adcRange") = 1
    BY <1>3, <2>1 DEF RangeIsChips
  <2> QED BY <2>2, <2>3 DEF cal, Calibration
<1> QED BY <1>7, <1>8, <1>9, <1>10 DEF InaInv

\* setADCRange(): with no error at all the range and the calibration follow
\* the flag; with one, both registers are suspect.
LEMMA RangeInv ==
    ASSUME InaInv, NEW flag \in BOOLEAN, SetADCRange(flag)
    PROVE  InaInv'
<1> DEFINE bit == IF flag THEN 1 ELSE 0
           value(r) == ReadRegister("CONFIG", r)
           new(r) == Put(value(r), "adcRange", bit)
           same(r) == (Get(value(r), "adcRange") = 1) = flag
<1>1. PICK r \in Transfers, w \in Transfers, w2 \in Transfers :
        /\ ADCRange' = flag
        /\ IF same(r)
           THEN /\ UNCHANGED chip /\ error' = ~r
                /\ Judge({"CONFIG"}, {}, want)
           ELSE /\ chip' = [reg \in Registers |->
                     CASE reg = "CONFIG" /\ w -> new(r)
                       [] reg = "SHUNT_CAL" /\ w2 -> Recalibrated
                       [] OTHER -> chip[reg]]
                /\ error' = ~(r /\ w /\ w2)
                /\ Judge({"CONFIG", "SHUNT_CAL"}, {"SHUNT_CAL"}, want)
        /\ stale' = error'
        /\ UNCHANGED <<connected, maxCurrent, shunt>>
  BY DEF SetADCRange, RangeAfter
<1>2. r \in BOOLEAN /\ w \in BOOLEAN /\ w2 \in BOOLEAN
  BY DEF Transfers
<1>3. InaTypeOK /\ NoSilentLoss /\ RangeIsChips /\ CalibrationFits
  BY DEF InaInv
<1>4. value(r) \in Word /\ (r => value(r) = chip["CONFIG"])
  BY <1>3, ReadIsWord, CalibrationRegister DEF ReadRegister
<1>5. new(r) \in Word /\ Get(new(r), "adcRange") = bit
  BY <1>4, PutGet, AdcRangeField
<1>6. \A g \in Used : Reg(g) = "CONFIG" => Get(new(r), g) = Get(value(r), g)
  BY <1>4, PutLeavesOthers, AdcRangeField, UsedFields
<1> HIDE DEF new, value
<1>7. CASE same(r)
  <2>1. UNCHANGED <<chip, connected, maxCurrent, shunt>> /\ error' = ~r /\ stale' = error'
    BY <1>1, <1>7
  <2>2. suspect' = IF error' THEN suspect \cup {"CONFIG"} ELSE suspect
    BY <1>1, <1>7 DEF Judge
  <2>3. want' = [f \in Used |-> IF Reg(f) \in suspect' THEN 0 ELSE want[f]]
    BY <1>1, <1>7 DEF Judge
  <2>4. InaTypeOK'
    BY <1>1, <1>2, <1>3, <2>1, <2>2, <2>3, CalibrationRegister DEF InaTypeOK
  <2>5. NoSilentLoss'
    BY <1>3, <2>1, <2>2, <2>3 DEF NoSilentLoss
  <2>6. RangeIsChips'
    BY <1>1, <1>2, <1>4, <1>7, <2>1 DEF RangeIsChips
  <2>7. CalibrationFits'
    BY <1>3, <2>1, <2>2 DEF CalibrationFits, Calibration
  <2> QED BY <2>4, <2>5, <2>6, <2>7 DEF InaInv
<1>8. CASE ~same(r)
  <2>1. /\ chip' = [reg \in Registers |->
             CASE reg = "CONFIG" /\ w -> new(r)
               [] reg = "SHUNT_CAL" /\ w2 -> Recalibrated
               [] OTHER -> chip[reg]]
        /\ error' = ~(r /\ w /\ w2) /\ stale' = error'
        /\ ADCRange' = flag /\ UNCHANGED <<connected, maxCurrent, shunt>>
    BY <1>1, <1>8
  <2>2. suspect' = IF error' THEN suspect \cup {"CONFIG", "SHUNT_CAL"} ELSE suspect \ {"SHUNT_CAL"}
    BY <1>1, <1>8 DEF Judge
  <2>3. want' = [f \in Used |-> IF Reg(f) \in suspect' THEN 0 ELSE want[f]]
    BY <1>1, <1>8 DEF Judge
  <2>4. Recalibrated \in Word /\ Recalibrated = Calibration(maxCurrent, shunt, flag)
    BY <1>3, <2>1, CalibrationIsWord DEF Recalibrated, InaTypeOK
  <2>5. chip' \in [Registers -> Word]
    BY <1>3, <1>5, <2>1, <2>4 DEF InaTypeOK
  <2>6. InaTypeOK'
    BY <1>2, <1>3, <2>1, <2>2, <2>3, <2>5, CalibrationRegister DEF InaTypeOK
  <2>7. ~error' => /\ chip'["CONFIG"] = new(r) /\ chip'["SHUNT_CAL"] = Recalibrated
                   /\ value(r) = chip["CONFIG"]
    BY <1>2, <1>4, <2>1, CalibrationRegister
  <2>8. \A reg \in Registers : reg \notin {"CONFIG", "SHUNT_CAL"} => chip'[reg] = chip[reg]
    BY <2>1
  <2>9. Get(new(r), "adcRange") = 1 <=> flag
    BY <1>5
  <2>10. NoSilentLoss'
    <3> SUFFICES ASSUME NEW f \in Used, Reg(f) \notin suspect'
                 PROVE  Get(chip'[Reg(f)], f) = want'[f]
      BY DEF NoSilentLoss
    <3>1. want'[f] = want[f] /\ Reg(f) \in Registers /\ Reg(f) # "SHUNT_CAL" /\ Reg(f) \notin suspect
      BY <2>2, <2>3, UsedFields
    <3>2. CASE Reg(f) = "CONFIG"
      BY <1>3, <1>6, <2>2, <2>7, <3>1, <3>2 DEF NoSilentLoss
    <3>3. CASE Reg(f) # "CONFIG"
      BY <1>3, <2>8, <3>1, <3>3 DEF NoSilentLoss
    <3> QED BY <3>2, <3>3
  <2>11. RangeIsChips'
    BY <2>1, <2>7, <2>9 DEF RangeIsChips
  <2>12. CalibrationFits'
    BY <2>1, <2>2, <2>4, <2>7, <2>9 DEF CalibrationFits, Calibration
  <2> QED BY <2>6, <2>10, <2>11, <2>12 DEF InaInv
<1> QED BY <1>7, <1>8

LEMMA NextInv == InaInv /\ [Next]_vars => InaInv'
<1> SUFFICES ASSUME InaInv, [Next]_vars PROVE InaInv'
  OBVIOUS
<1>1. CASE Begin
  BY <1>1, BeginInv
<1>2. CASE Reset
  BY <1>2, ResetInv
<1>3. CASE GetADCRange
  BY <1>3, GetADCRangeInv
<1>4. CASE Read
  BY <1>4, ReadInv
<1>5. CASE \E f \in Used : \E x \in Values[f] : Set(f, x)
  BY <1>5, SetInv
<1>6. CASE \E flag \in BOOLEAN : SetADCRange(flag)
  BY <1>6, RangeInv
<1>7. CASE \E c \in Currents, s \in Shunts : SetMaxCurrentShunt(c, s)
  BY <1>7, CalibrateInv
<1>8. CASE UNCHANGED vars
  BY <1>8 DEF vars, InaInv, InaTypeOK, NoSilentLoss, RangeIsChips, CalibrationFits, Calibration
<1> QED BY <1>1, <1>2, <1>3, <1>4, <1>5, <1>6, <1>7, <1>8 DEF Next

\* The invariant behind the theorems below.
THEOREM InvHolds == Spec => []InaInv
<1> QED BY InitInv, NextInv, PTL DEF Spec

-----------------------------------------------------------------------------
(* For any fields, values and calibrations, and transfers that fail at any *)
(* time:                                                                   *)

\* The variables keep their types: no put, and no calibration that the
\* assumption admits, takes more than the 16 bits of its register.
THEOREM RegistersKeepTheirSize == Spec => []InaTypeOK
<1> QED BY InvHolds, PTL DEF InaInv

\* A register without an error since it was last judged good has in each field
\* what was set last: read-modify-write cannot lose a setting in silence.
THEOREM SettingsSurvive == Spec => []NoSilentLoss
<1> QED BY InvHolds, PTL DEF InaInv

\* The range the driver computes with is the chip's unless it has to be in
\* doubt (_ADCRange, lines 126 and 272).
THEOREM RangeAgrees == Spec => []RangeIsChips
<1> QED BY InvHolds, PTL DEF InaInv

\* SHUNT_CAL is what the current, the shunt and the chip's own range ask for.
THEOREM CalibrationFollowsRange == Spec => []CalibrationFits
<1> QED BY InvHolds, PTL DEF InaInv
=============================================================================
