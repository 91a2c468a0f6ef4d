----------------------------- MODULE CountingLemmas ---------------------------
(***************************************************************************)
(* Sets that change by one member, counters that wrap, quotients, and the  *)
(* account of a bucket: what the other proofs count with.                  *)
(***************************************************************************)
EXTENDS Integers, Sequences, FiniteSets, FiniteSetTheorems, WellFoundedInduction, TLAPS

LEMMA Counting ==
    ASSUME NEW C, IsFiniteSet(C), NEW S \in SUBSET C, NEW r \in C
    PROVE  /\ Cardinality(S) \in Nat
           /\ r \notin S => Cardinality(S \cup {r}) = Cardinality(S) + 1
           /\ r \in S => Cardinality(S \ {r}) = Cardinality(S) - 1
<1>1. IsFiniteSet(S)
  BY FS_Subset
<1>2. QED
  BY <1>1, FS_CardinalityType, FS_AddElement, FS_RemoveElement

(* The members of C with some property, before and after a step of one.    *)
LEMMA OneMoves ==
    ASSUME NEW C, IsFiniteSet(C), NEW S \in SUBSET C, NEW T \in SUBSET C, NEW r \in C,
           \A s \in C : s # r => (s \in S <=> s \in T)
    PROVE  /\ Cardinality(S) \in Nat /\ Cardinality(T) \in Nat
           /\ (r \in S <=> r \in T) => T = S
           /\ r \notin S /\ r \in T => Cardinality(T) = Cardinality(S) + 1
           /\ r \in S /\ r \notin T => Cardinality(T) = Cardinality(S) - 1
<1>1. (r \in S <=> r \in T) => T = S
  OBVIOUS
<1>2. r \notin S /\ r \in T => T = S \cup {r}
  OBVIOUS
<1>3. r \in S /\ r \notin T => T = S \ {r}
  OBVIOUS
<1>4. Cardinality(S) \in Nat /\ Cardinality(T) \in Nat
  BY Counting
<1>5. r \notin S => Cardinality(S \cup {r}) = Cardinality(S) + 1
  BY Counting
<1>6. r \in S => Cardinality(S \ {r}) = Cardinality(S) - 1
  BY Counting
<1>7. r \notin S /\ r \in T => Cardinality(T) = Cardinality(S) + 1
  BY <1>2, <1>5
<1>8. r \in S /\ r \notin T => Cardinality(T) = Cardinality(S) - 1
  BY <1>3, <1>6
<1>9. QED
  BY <1>1, <1>4, <1>7, <1>8

(* A number has one quotient and one remainder.                            *)
LEMMA DivisionIsUnique ==
    ASSUME NEW M \in Nat \ {0}, NEW u \in Int, NEW v \in Int,
           NEW s \in 0 .. M - 1, NEW t \in 0 .. M - 1, M * u + s = M * v + t
    PROVE  u = v /\ s = t
<1>1. CASE u = v
  BY <1>1
<1>2. CASE u > v
  <2>1. M * u >= M * (v + 1)
    BY <1>2
  <2>2. M * (v + 1) = M * v + M
    OBVIOUS
  <2>3. QED
    BY <2>1, <2>2
<1>3. CASE v > u
  <2>1. M * v >= M * (u + 1)
    BY <1>3
  <2>2. M * (u + 1) = M * u + M
    OBVIOUS
  <2>3. QED
    BY <2>1, <2>2
<1>4. QED
  BY <1>1, <1>2, <1>3

LEMMA DivMod ==
    ASSUME NEW M \in Nat \ {0}, NEW x \in Int
    PROVE  x = M * (x \div M) + (x % M) /\ x \div M \in Int /\ x % M \in 0 .. M - 1
OBVIOUS

(* What a quotient and a remainder are made of.                            *)
LEMMA Recompose ==
    ASSUME NEW M \in Nat \ {0}, NEW q \in Int, NEW s \in 0 .. M - 1
    PROVE  (M * q + s) \div M = q /\ (M * q + s) % M = s
<1> DEFINE x == M * q + s
<1>1. x \in Int
  OBVIOUS
<1>2. ASSUME NEW y \in Int
      PROVE  y = M * (y \div M) + (y % M) /\ y \div M \in Int /\ y % M \in 0 .. M - 1
  BY DivMod
<1>3. x = M * (x \div M) + (x % M) /\ x \div M \in Int /\ x % M \in 0 .. M - 1
  BY <1>1, <1>2
<1>4. M * q + s = M * (x \div M) + (x % M)
  BY <1>3
<1> HIDE DEF x
<1>5. q = x \div M /\ s = x % M
  BY <1>3, <1>4, DivisionIsUnique
<1>6. QED
  BY <1>5 DEF x

(* A counter may wrap before something is added to it.                     *)
LEMMA WrappedSum ==
    ASSUME NEW M \in Nat \ {0}, NEW a \in Int, NEW b \in Int
    PROVE  ((a % M) + b) % M = (a + b) % M
<1> DEFINE q == a \div M
           t == ((a % M) + b) \div M
           s == ((a % M) + b) % M
           w == (a + b) \div M
           z == (a + b) % M
<1>1. a = M * q + (a % M) /\ q \in Int /\ a % M \in Int
  BY DivMod
<1>2. (a % M) + b = M * t + s /\ t \in Int /\ s \in 0 .. M - 1
  <2>1. (a % M) + b \in Int
    BY <1>1
  <2>2. ASSUME NEW x \in Int
        PROVE  x = M * (x \div M) + (x % M) /\ x \div M \in Int /\ x % M \in 0 .. M - 1
    BY DivMod
  <2>3. QED
    BY <2>1, <2>2
<1>3. a + b = M * w + z /\ w \in Int /\ z \in 0 .. M - 1
  BY DivMod
<1> HIDE DEF q, t, s, w, z
<1>4. M * (q + t) + s = M * w + z
  <2>1. M * (q + t) = M * q + M * t
    BY <1>1, <1>2
  <2>2. QED
    BY <2>1, <1>1, <1>2, <1>3
<1>5. s = z
  <2>1. q + t \in Int
    BY <1>1, <1>2
  <2>2. q + t = w /\ s = z
    BY <1>2, <1>3, <1>4, <2>1, DivisionIsUnique
  <2>3. QED
    BY <2>2
<1>6. QED
  BY <1>5 DEF s, z

(* Factors may be replaced by larger ones.                                 *)
LEMMA MultiplyLess ==
    ASSUME NEW a \in Int, NEW b \in Int, NEW m \in Nat, a <= b
    PROVE  m * a <= m * b /\ a * m <= b * m
<1>1. m * (b - a) \in Nat
  <2>1. b - a \in Nat
    OBVIOUS
  <2> DEFINE d == b - a
  <2> HIDE DEF d
  <2>2. m * d \in Nat
    BY <2>1 DEF d
  <2>3. QED
    BY <2>2 DEF d
<1>2. m * (b - a) = m * b - m * a /\ a * m = m * a /\ b * m = m * b
  OBVIOUS
<1>3. m * a \in Int /\ m * b \in Int
  OBVIOUS
<1>4. QED
  BY <1>1, <1>2, <1>3

LEMMA MultiplyPositive ==
    ASSUME NEW a \in Nat, NEW b \in Nat, a > 0, b > 0
    PROVE  a * b > 0
<1>1. a * b >= 1 * b
  BY MultiplyLess
<1>2. QED
  BY <1>1

LEMMA QuotientBelow ==
    ASSUME NEW M \in Nat \ {0}, NEW x \in Int, NEW n \in Int, x < n * M
    PROVE  x \div M \in Int /\ x \div M < n
<1> DEFINE q == x \div M
<1>1. x = M * q + (x % M) /\ q \in Int /\ x % M \in 0 .. M - 1
  BY DivMod
<1> HIDE DEF q
<1>2. ASSUME q >= n PROVE FALSE
  <2>1. n * M <= q * M
    BY <1>1, <1>2, MultiplyLess
  <2>2. QED
    BY <1>1, <2>1
<1>3. QED
  BY <1>1, <1>2 DEF q

LEMMA QuotientAtLeast ==
    ASSUME NEW M \in Nat \ {0}, NEW x \in Int, NEW n \in Int, n * M <= x
    PROVE  x \div M \in Int /\ n <= x \div M
<1> DEFINE q == x \div M
<1>1. x = M * q + (x % M) /\ q \in Int /\ x % M \in 0 .. M - 1
  BY DivMod
<1> HIDE DEF q
<1>2. ASSUME q < n PROVE FALSE
  <2>1. (q + 1) * M <= n * M
    BY <1>1, <1>2, MultiplyLess
  <2>2. (q + 1) * M = M * q + M
    BY <1>1
  <2>3. QED
    BY <1>1, <2>1, <2>2
<1>3. QED
  BY <1>1, <1>2 DEF q

(* One more than the quotient is more than enough.                         *)
LEMMA QuotientAbove ==
    ASSUME NEW M \in Nat \ {0}, NEW x \in Int
    PROVE  x \div M \in Int /\ ((x \div M) + 1) * M > x
<1> DEFINE q == x \div M
<1>1. x = M * q + (x % M) /\ q \in Int /\ x % M \in 0 .. M - 1
  BY DivMod
<1> HIDE DEF q
<1>2. (q + 1) * M = M * q + M
  BY <1>1
<1>3. QED
  BY <1>1, <1>2 DEF q

(* What fails for some number fails for a least one.                       *)
LEMMA LeastIndex ==
    ASSUME NEW T, T \subseteq Nat, T # {}
    PROVE  \E x \in T : \A y \in T : x <= y
<1>1. PICK x \in T : \A y \in T : ~(<<y, x>> \in OpToRel(<, Nat))
  <2> HIDE DEF OpToRel
  <2>1. QED
    BY NatLessThanWellFounded, WFMin
<1>2. SUFFICES ASSUME NEW y \in T PROVE x <= y
  OBVIOUS
<1>3. ~(y < x)
  BY <1>1 DEF OpToRel
<1>4. QED
  BY <1>3

LEMMA ProductOfNats ==
    ASSUME NEW a \in Nat, NEW b \in Nat
    PROVE  a * b \in Nat
OBVIOUS

(* The number of whole tokens left says whether there is one.              *)
LEMMA WholeTokens ==
    ASSUME NEW unit \in Nat \ {0}, NEW left \in Nat
    PROVE  /\ left \div unit \in Nat
           /\ left >= unit <=> left \div unit > 0
           /\ left >= unit => (left - unit) \div unit = (left \div unit) - 1
<1>1. unit \in Nat \ {0}
  OBVIOUS
<1> DEFINE q == left \div unit
           m == left % unit
<1>2. q \in Nat /\ m \in 0 .. unit - 1 /\ left = unit * q + m
  BY <1>1
<1>3. left >= unit => q > 0
  <2>1. CASE q = 0
    BY <1>1, <1>2, <2>1
  <2>2. QED
    BY <1>2, <2>1
<1>4. q > 0 => left >= unit
  <2>1. ASSUME q > 0 PROVE left >= unit
    <3>1. unit * q = unit * (q - 1) + unit
      BY <1>1, <1>2
    <3>2. unit * (q - 1) \in Nat
      BY <1>1, <1>2, <2>1, ProductOfNats
    <3>3. QED
      BY <1>1, <1>2, <3>1, <3>2
  <2>2. QED
    BY <2>1
<1>5. ASSUME left >= unit PROVE (left - unit) \div unit = q - 1
  <2>1. left - unit = unit * (q - 1) + m
    BY <1>1, <1>2
  <2> DEFINE rest == left - unit
  <2>2. /\ rest = unit * (rest \div unit) + (rest % unit)
        /\ rest \div unit \in Int /\ rest % unit \in 0 .. unit - 1
    <3>1. rest \in Int
      BY <1>1
    <3> HIDE DEF rest
    <3>2. QED
      BY <1>1, <3>1, DivMod
  <2>3. q - 1 \in Int
    BY <1>2
  <2> HIDE DEF rest, q, m
  <2>4. rest \div unit = q - 1
    BY <1>1, <1>2, <2>1, <2>2, <2>3, DivisionIsUnique DEF rest
  <2>5. QED
    BY <2>4 DEF rest
<1>6. QED
  BY <1>2, <1>3, <1>4, <1>5

(* A window that divides the units of a token gives a whole rate.          *)
LEMMA WholeRate ==
    ASSUME NEW limit \in Nat \ {0}, NEW window \in Nat \ {0}, NEW unit \in Nat \ {0},
           unit % window = 0
    PROVE  /\ unit \div window \in Nat \ {0} /\ unit = window * (unit \div window)
           /\ limit * (unit \div window) \in Nat \ {0}
           /\ limit * unit \in Nat /\ unit <= limit * unit
<1> DEFINE tick == unit \div window
           p == window * tick
<1>1. unit = p + (unit % window) /\ tick \in Int
  BY DivMod
<1>2. p \in Int /\ unit = p + 0
  BY <1>1
<1>3. tick > 0
  <2> HIDE DEF tick
  <2>1. ASSUME tick <= 0 PROVE FALSE
    <3>1. window * tick <= window * 0
      BY <1>1, <2>1, MultiplyLess
    <3>2. QED
      BY <1>2, <3>1
  <2>2. QED
    BY <1>1, <2>1
<1> HIDE DEF tick
<1>4. unit = window * tick
  <2> HIDE DEF p
  <2>1. unit = p
    BY <1>2
  <2>2. QED
    BY <2>1 DEF p
<1>5. limit * tick \in Nat \ {0}
  <2>1. limit * tick > 0
    BY <1>1, <1>3, MultiplyPositive
  <2>2. limit * tick \in Int
    BY <1>1
  <2>3. QED
    BY <2>1, <2>2
<1>6. limit * unit \in Nat /\ unit <= limit * unit
  <2>1. 1 * unit <= limit * unit
    BY MultiplyLess
  <2>2. QED
    BY <2>1
<1>7. QED
  BY <1>1, <1>3, <1>4, <1>5, <1>6 DEF tick

(* A full bucket is what the rate adds in a window.                        *)
LEMMA FullIsAWindow ==
    ASSUME NEW limit \in Nat, NEW window \in Nat, NEW tick \in Nat,
           NEW unit, unit = window * tick, NEW rate, rate = limit * tick,
           NEW full, full = limit * unit
    PROVE  full = window * rate
<1>1. limit * (window * tick) = window * (limit * tick)
  OBVIOUS
<1>2. QED
  BY <1>1

-------------------------------------------------------------------------------
(* The account of a bucket, from the log of its admissions.  The highest of*)
(* the first i instants, which Quota calls LatestBy.                       *)
Highest(log, i) ==
    CHOOSE t \in {log[j] : j \in 1 .. i} : \A j \in 1 .. i : log[j] <= t

(* The admissions from any one on, and what is held, fit into a full bucket*)
(* and what the rate has added since.                                      *)
Within(log, held, reach, unit, full, rate) ==
    /\ log \in Seq(Nat)
    /\ \A i \in DOMAIN log :
          /\ log[i] <= reach
          /\ (Len(log) - i + 1) * unit + held <= full + (reach - Highest(log, i)) * rate


LEMMA HighestIs ==
    ASSUME NEW log \in Seq(Nat), NEW i \in DOMAIN log, NEW bound \in Int,
           \A j \in DOMAIN log : log[j] <= bound
    PROVE  /\ Highest(log, i) \in Nat
           /\ \E k \in 1 .. i : Highest(log, i) = log[k]
           /\ \A j \in 1 .. i : log[j] <= Highest(log, i)
           /\ Highest(log, i) <= bound
<1> DEFINE T == {bound - log[j] : j \in 1 .. i}
           S == {log[j] : j \in 1 .. i}
           latest == Highest(log, i)
<1>1. /\ i \in Nat \ {0} /\ 1 .. i \subseteq DOMAIN log
      /\ \A j \in 1 .. i : log[j] \in Nat
  OBVIOUS
<1>2. T \subseteq Nat /\ T # {}
  <2>1. \A j \in 1 .. i : bound - log[j] \in Nat
    BY <1>1
  <2>2. 1 \in 1 .. i
    BY <1>1
  <2>3. bound - log[1] \in T
    BY <2>2
  <2>4. QED
    BY <2>1, <2>3
<1> HIDE DEF T
<1>3. PICK x \in T : \A y \in T : x <= y
  BY <1>2, LeastIndex
<1>4. PICK k \in 1 .. i : x = bound - log[k]
  BY DEF T
<1>5. ASSUME NEW j \in 1 .. i PROVE log[j] <= log[k]
  <2>1. bound - log[j] \in T
    BY DEF T
  <2>2. bound - log[k] <= bound - log[j]
    BY <1>3, <1>4, <2>1
  <2>3. log[j] \in Nat /\ log[k] \in Nat
    BY <1>1
  <2>4. QED
    BY <2>2, <2>3
<1>6. \E t \in S : \A j \in 1 .. i : log[j] <= t
  <2>1. log[k] \in S
    OBVIOUS
  <2>2. QED
    BY <1>5, <2>1
<1>7. latest \in S /\ \A j \in 1 .. i : log[j] <= latest
  BY <1>6 DEF Highest
<1> HIDE DEF latest
<1>8. PICK l \in 1 .. i : latest = log[l]
  BY <1>7
<1>9. QED
  BY <1>1, <1>7, <1>8 DEF latest

(* Another admission changes nothing of that for the earlier ones.         *)
LEMMA HighestStays ==
    ASSUME NEW log \in Seq(Nat), NEW i \in DOMAIN log, NEW now \in Nat, NEW bound \in Int,
           now <= bound, \A j \in DOMAIN log : log[j] <= bound
    PROVE  Highest(Append(log, now), i) = Highest(log, i)
<1> DEFINE next == Append(log, now)
           new == Highest(next, i)
           old == Highest(log, i)
<1>1. /\ next \in Seq(Nat) /\ i \in DOMAIN next /\ i \in Nat
      /\ \A j \in DOMAIN next : next[j] <= bound
      /\ \A j \in 1 .. i : next[j] = log[j]
  OBVIOUS
<1> HIDE DEF next
<1>2. /\ old \in Nat
      /\ \E k \in 1 .. i : old = log[k]
      /\ \A j \in 1 .. i : log[j] <= old
  BY HighestIs
<1>3. /\ new \in Nat
      /\ \E k \in 1 .. i : new = next[k]
      /\ \A j \in 1 .. i : next[j] <= new
  BY <1>1, HighestIs
<1> HIDE DEF new, old
<1>4. new <= old /\ old <= new
  BY <1>1, <1>2, <1>3
<1>5. new = old
  BY <1>2, <1>3, <1>4
<1>6. QED
  BY <1>5 DEF new, old, next

(* Time adds to what is held, at the rate.                                 *)
LEMMA WithinLater ==
    ASSUME NEW unit \in Nat, NEW full \in Nat, NEW rate \in Nat,
           NEW log, NEW held \in Int, NEW reach \in Int,
           Within(log, held, reach, unit, full, rate),
           NEW more \in Int, reach <= more,
           NEW rest \in Int, rest <= held + (more - reach) * rate
    PROVE  Within(log, rest, more, unit, full, rate)
<1>1. log \in Seq(Nat) /\ \A j \in DOMAIN log : log[j] <= reach /\ log[j] \in Nat
  BY DEF Within
<1>2. ASSUME NEW i \in DOMAIN log
      PROVE  /\ log[i] <= more
             /\ (Len(log) - i + 1) * unit + rest
                   <= full + (more - Highest(log, i)) * rate
  <2> DEFINE latest == Highest(log, i)
             used == (Len(log) - i + 1) * unit
             before == (reach - latest) * rate
             since == (more - reach) * rate
             after == (more - latest) * rate
  <2>1. latest \in Nat /\ rate \in Nat /\ full \in Nat /\ unit \in Nat
    BY <1>1, HighestIs
  <2>2. used + held <= full + before
    BY DEF Within
  <2> HIDE DEF latest
  <2>3. before \in Int /\ since \in Int /\ after \in Int /\ after = before + since
    BY <2>1
  <2>4. used \in Int
    <3>1. Len(log) - i + 1 \in Int
      BY <1>1
    <3>2. QED
      BY <2>1, <3>1
  <2>5. rest <= held + since
    OBVIOUS
  <2> HIDE DEF used, before, since, after
  <2>6. used + rest <= full + after
    BY <2>1, <2>2, <2>3, <2>4, <2>5
  <2>7. log[i] <= more
    BY <1>1
  <2>8. QED
    BY <2>6, <2>7 DEF used, after, latest
<1>3. QED
  BY <1>1, <1>2 DEF Within

(* An admission takes one token of it.                                     *)
LEMMA WithinOneMore ==
    ASSUME NEW unit \in Nat, NEW full \in Nat, NEW rate \in Nat,
           NEW log, NEW held \in Int, NEW reach \in Nat,
           Within(log, held, reach, unit, full, rate),
           held <= full, NEW now \in Nat, now <= reach
    PROVE  Within(Append(log, now), held - unit, reach, unit, full, rate)
<1> DEFINE next == Append(log, now)
<1>1. log \in Seq(Nat) /\ \A j \in DOMAIN log : log[j] <= reach
  BY DEF Within
<1>2. /\ next \in Seq(Nat) /\ Len(next) = Len(log) + 1 /\ Len(log) \in Nat
      /\ DOMAIN next = 1 .. Len(log) + 1 /\ DOMAIN log = 1 .. Len(log)
      /\ next[Len(log) + 1] = now
      /\ \A j \in DOMAIN log : next[j] = log[j]
  BY <1>1
<1>3. \A j \in DOMAIN next : next[j] <= reach
  BY <1>1, <1>2
<1>4. unit \in Nat /\ full \in Nat /\ rate \in Nat
  OBVIOUS
<1>5. ASSUME NEW i \in DOMAIN next
      PROVE  (Len(next) - i + 1) * unit + (held - unit)
                <= full + (reach - Highest(next, i)) * rate
  <2> DEFINE gained == (reach - Highest(next, i)) * rate
  <2>1. CASE i \in DOMAIN log
    <3>1. Highest(next, i) = Highest(log, i)
      BY <1>1, <2>1, HighestStays
    <3> DEFINE k == Len(log) - i + 1
               used == k * unit
    <3>2. used + held <= full + gained
      BY <2>1, <3>1 DEF Within
    <3>3. k \in Int /\ Len(next) - i + 1 = k + 1
      BY <1>2
    <3>4. (k + 1) * unit = used + unit /\ used \in Int
      BY <1>4, <3>3
    <3>5. gained \in Int
      <4>1. Highest(log, i) \in Nat
        BY <1>1, <2>1, HighestIs
      <4>2. QED
        BY <1>4, <3>1, <4>1
    <3> HIDE DEF used, gained, k
    <3>6. (k + 1) * unit + (held - unit) <= full + gained
      BY <1>4, <3>2, <3>4, <3>5
    <3>7. QED
      BY <3>3, <3>6 DEF gained
  <2>2. CASE i = Len(log) + 1
    <3>1. (Len(next) - i + 1) * unit = unit
      BY <1>2, <1>4, <2>2
    <3>2. Highest(next, i) \in Nat /\ Highest(next, i) <= reach
      <4> HIDE DEF next
      <4>1. /\ next \in Seq(Nat) /\ i \in DOMAIN next /\ reach \in Int
            /\ \A j \in DOMAIN next : next[j] <= reach
        BY <1>2, <1>3
      <4>2. QED
        BY <4>1, HighestIs
    <3>3. gained \in Nat
      BY <1>4, <3>2, ProductOfNats
    <3> HIDE DEF gained
    <3>4. unit + (held - unit) <= full + gained
      BY <1>4, <3>3
    <3>5. QED
      BY <3>1, <3>4 DEF gained
  <2>3. i \in DOMAIN log \/ i = Len(log) + 1
    <3> HIDE DEF next
    <3>1. i \in DOMAIN next
      BY <1>5
    <3>2. QED
      BY <1>2, <3>1
  <2> HIDE DEF next, gained
  <2>4. QED
    BY <2>1, <2>2, <2>3
<1>6. QED
  BY <1>2, <1>3, <1>5 DEF Within

(* Counted in tokens, that is the rate that a window and a limit stand for.*)
LEMMA WithinIsTheRate ==
    ASSUME NEW limit \in Nat \ {0}, NEW window \in Nat \ {0}, NEW unit \in Nat \ {0},
           unit % window = 0,
           NEW log, NEW held \in Nat, NEW reach \in Int, NEW now \in Int, reach <= now,
           Within(log, held, reach, unit, limit * unit, limit * (unit \div window))
    PROVE  \A i \in DOMAIN log :
              /\ Len(log) - i + 1 \in Int
              /\ (Len(log) - i + 1) * window <= limit * (window + now - Highest(log, i))
<1> DEFINE tick == unit \div window
           rate == limit * tick
           full == limit * unit
<1>1. /\ tick \in Nat \ {0} /\ unit = window * tick /\ rate \in Nat \ {0}
      /\ full \in Nat /\ rate = limit * tick /\ full = limit * unit
  <2>1. /\ unit \div window \in Nat \ {0} /\ unit = window * (unit \div window)
        /\ limit * (unit \div window) \in Nat \ {0}
        /\ limit * unit \in Nat
    BY WholeRate, Zenon
  <2>2. QED
    BY <2>1, Zenon
<1>2. Within(log, held, reach, unit, full, rate)
  OBVIOUS
<1> HIDE DEF tick, rate, full
<1> full = window * rate
  BY <1>1, FullIsAWindow
<1>3. log \in Seq(Nat) /\ \A j \in DOMAIN log : log[j] <= reach
  BY <1>2 DEF Within
<1> SUFFICES ASSUME NEW i \in DOMAIN log
             PROVE  /\ Len(log) - i + 1 \in Int
                    /\ (Len(log) - i + 1) * window <= limit * (window + now - Highest(log, i))
  OBVIOUS
<1> DEFINE k == Len(log) - i + 1
           latest == Highest(log, i)
           asked == k * window
           given == limit * (window + now - latest)
<1>4. latest \in Nat /\ k \in Int
  BY <1>3, HighestIs
<1>5. k * unit + held <= full + (reach - latest) * rate
  BY <1>2 DEF Within
<1> HIDE DEF k, latest
<1>6. asked \in Int /\ given \in Int
  BY <1>4
<1>7. k * unit = asked * tick
  BY <1>1, <1>4
<1>8. full + (reach - latest) * rate = (window + reach - latest) * rate
  BY <1>1, <1>4
<1>9. (window + reach - latest) * rate <= (window + now - latest) * rate
  BY <1>1, <1>4, MultiplyLess
<1>10. (window + now - latest) * rate = given * tick
  BY <1>1, <1>4
<1> HIDE DEF asked, given
<1>11. asked * tick <= given * tick
  <2> DEFINE a == asked * tick
             b == given * tick
             c == (window + reach - latest) * rate
  <2>1. a \in Int /\ b \in Int /\ c \in Int
    BY <1>1, <1>4, <1>6
  <2>2. a + held <= c /\ c <= b
    BY <1>5, <1>7, <1>8, <1>9, <1>10
  <2> HIDE DEF a, b, c
  <2>3. a <= b
    BY <2>1, <2>2
  <2>4. QED
    BY <2>3 DEF a, b
<1>12. asked <= given
  <2>1. SUFFICES ASSUME given + 1 <= asked PROVE FALSE
    BY <1>6
  <2>2. (given + 1) * tick <= asked * tick
    BY <1>1, <1>6, <2>1, MultiplyLess
  <2>3. (given + 1) * tick = given * tick + tick
    BY <1>1, <1>6
  <2> DEFINE a == asked * tick
             b == given * tick
  <2>4. a \in Int /\ b \in Int
    BY <1>1, <1>6
  <2>5. b + tick <= a /\ a <= b
    BY <1>11, <2>2, <2>3
  <2> HIDE DEF a, b
  <2>6. QED
    BY <1>1, <2>4, <2>5
<1>13. QED
  BY <1>4, <1>12 DEF asked, given, k, latest

(* What is held is all there is, or exactly what some admission and those  *)
(* after it have left of a full bucket and what the rate has added since.  *)
Exact(log, held, reach, unit, full, rate) ==
    \/ held = full
    \/ \E i \in DOMAIN log :
          (Len(log) - i + 1) * unit + held = full + (reach - Highest(log, i)) * rate

LEMMA ExactLater ==
    ASSUME NEW unit \in Nat, NEW full \in Nat, NEW rate \in Nat,
           NEW log \in Seq(Nat), NEW held \in Int, NEW reach \in Int, held <= full,
           Exact(log, held, reach, unit, full, rate),
           NEW more \in Int, reach <= more, \A j \in DOMAIN log : log[j] <= more,
           NEW rest \in Int,
           rest = full \/ rest = held + (more - reach) * rate,
           rest <= full
    PROVE  Exact(log, rest, more, unit, full, rate)
<1> DEFINE since == (more - reach) * rate
<1>1. since \in Nat
  <2>1. more - reach \in Nat
    OBVIOUS
  <2>2. QED
    BY <2>1, ProductOfNats
<1>2. rest = full \/ rest = held + since
  OBVIOUS
<1> HIDE DEF since
<1>3. CASE held = full \/ rest = full
  <2>1. rest = full
    BY <1>1, <1>2, <1>3
  <2>2. QED
    BY <2>1 DEF Exact
<1>4. CASE held # full /\ rest # full
  <2>1. PICK i \in DOMAIN log :
           (Len(log) - i + 1) * unit + held = full + (reach - Highest(log, i)) * rate
    BY <1>4 DEF Exact
  <2> DEFINE latest == Highest(log, i)
             used == (Len(log) - i + 1) * unit
             before == (reach - latest) * rate
             after == (more - latest) * rate
  <2>2. latest \in Nat
    BY HighestIs
  <2>3. used + held = full + before
    BY <2>1
  <2> HIDE DEF latest
  <2>4. before \in Int /\ after \in Int /\ after = before + since
    BY <2>2 DEF since
  <2>5. used \in Int
    <3>1. Len(log) - i + 1 \in Int
      OBVIOUS
    <3>2. QED
      BY <3>1
  <2> HIDE DEF used, before, after
  <2>6. used + rest = full + after
    BY <1>1, <1>2, <1>4, <2>3, <2>4, <2>5
  <2>7. QED
    BY <2>6 DEF Exact, used, after, latest
<1>5. QED
  BY <1>3, <1>4

LEMMA ExactOneMore ==
    ASSUME NEW unit \in Nat, NEW full \in Nat, NEW rate \in Nat,
           NEW log \in Seq(Nat), NEW held \in Int, NEW now \in Nat,
           \A j \in DOMAIN log : log[j] <= now,
           Exact(log, held, now, unit, full, rate)
    PROVE  Exact(Append(log, now), held - unit, now, unit, full, rate)
<1> DEFINE next == Append(log, now)
           n == Len(log)
<1>1. /\ next \in Seq(Nat) /\ Len(next) = n + 1 /\ n \in Nat
      /\ DOMAIN next = 1 .. n + 1 /\ DOMAIN log = 1 .. n
      /\ next[n + 1] = now /\ now \in Int
      /\ \A j \in 1 .. n : next[j] = log[j] /\ log[j] \in Nat
  OBVIOUS
<1> HIDE DEF next
<1>2. CASE held = full
  <2> DEFINE end == n + 1
             latest == Highest(next, end)
  <2>1. end \in DOMAIN next /\ end \in 1 .. end
    BY <1>1
  <2>2. \A j \in DOMAIN next : next[j] <= now
    <3> HIDE DEF n
    <3>1. \A j \in 1 .. n : next[j] <= now
      BY <1>1
    <3>2. QED
      BY <1>1, <3>1
  <2> HIDE DEF end
  <2>3. latest \in Nat /\ latest <= now /\ \A j \in 1 .. end : next[j] <= latest
    BY <1>1, <2>1, <2>2, HighestIs
  <2> HIDE DEF latest, n
  <2>4. latest = now
    <3>1. next[end] <= latest /\ next[end] = now
      BY <1>1, <2>1, <2>3 DEF end
    <3>2. QED
      BY <2>3, <3>1
  <2>5. Len(next) - end + 1 = 1
    BY <1>1 DEF end
  <2>6. (Len(next) - end + 1) * unit = unit /\ (now - latest) * rate = 0
    BY <2>3, <2>4, <2>5
  <2>7. (Len(next) - end + 1) * unit + (held - unit) = full + (now - latest) * rate
    BY <1>2, <2>6
  <2>8. QED
    BY <2>1, <2>7 DEF Exact, next, latest
<1>3. CASE held # full
  <2>1. PICK i \in DOMAIN log :
           (Len(log) - i + 1) * unit + held = full + (now - Highest(log, i)) * rate
    BY <1>3 DEF Exact
  <2>2. Highest(next, i) = Highest(log, i) /\ Highest(log, i) \in Nat
    <3>1. Highest(log, i) \in Nat
      BY <1>1, HighestIs
    <3>2. now <= now
      OBVIOUS
    <3>3. Highest(next, i) = Highest(log, i)
      BY <1>1, <3>2, HighestStays DEF next
    <3>4. QED
      BY <3>1, <3>3
  <2> DEFINE k == n - i + 1
             used == k * unit
             gained == (now - Highest(log, i)) * rate
  <2>3. k \in Int /\ Len(next) - i + 1 = k + 1 /\ i \in DOMAIN next
    BY <1>1
  <2>4. used + held = full + gained
    BY <2>1
  <2>5. gained \in Int
    BY <2>2
  <2> HIDE DEF k
  <2>6. (k + 1) * unit = used + unit /\ used \in Int
    BY <2>3
  <2> DEFINE more == (k + 1) * unit
  <2> HIDE DEF used, gained
  <2>7. more = used + unit
    BY <2>6
  <2> HIDE DEF more
  <2>8. more + (held - unit) = full + gained
    BY <2>4, <2>5, <2>6, <2>7
  <2>9. (Len(next) - i + 1) * unit + (held - unit) = full + (now - Highest(next, i)) * rate
    BY <2>2, <2>3, <2>8 DEF gained, more
  <2>10. QED
    BY <2>3, <2>9 DEF Exact, next
<1>4. QED
  BY <1>2, <1>3

(* The units of some tokens against the window that they take.             *)
LEMMA UnitsAreTheRate ==
    ASSUME NEW limit \in Nat \ {0}, NEW window \in Nat \ {0}, NEW unit \in Nat \ {0},
           unit % window = 0, NEW k \in Int, NEW elapsed \in Int
    PROVE  k * unit <= limit * unit + elapsed * (limit * (unit \div window))
              <=> k * window <= limit * (window + elapsed)
<1> DEFINE tick == unit \div window
           rate == limit * tick
           full == limit * unit
           asked == k * window
           given == limit * (window + elapsed)
<1>1. tick \in Nat \ {0} /\ unit = window * tick
  BY WholeRate, Zenon
<1> HIDE DEF tick
<1>2. k * unit = asked * tick /\ asked \in Int /\ given \in Int
  BY <1>1
<1>3. full + elapsed * rate = given * tick
  <2>1. given = limit * window + limit * elapsed
    OBVIOUS
  <2>2. given * tick = (limit * window) * tick + (limit * elapsed) * tick
    BY <1>1, <2>1
  <2>3. (limit * window) * tick = full
    BY <1>1
  <2>4. (limit * elapsed) * tick = elapsed * rate
    BY <1>1
  <2>5. QED
    BY <2>2, <2>3, <2>4
<1> HIDE DEF asked, given
<1>4. asked * tick <= given * tick <=> asked <= given
  <2>1. asked <= given => asked * tick <= given * tick
    BY <1>1, <1>2, MultiplyLess
  <2>2. ASSUME given < asked PROVE ~(asked * tick <= given * tick)
    <3>1. (given + 1) * tick <= asked * tick
      BY <1>1, <1>2, <2>2, MultiplyLess
    <3>2. (given + 1) * tick = given * tick + tick
      BY <1>1, <1>2
    <3> DEFINE a == asked * tick
               b == given * tick
    <3>3. a \in Int /\ b \in Int /\ b + tick <= a
      BY <1>1, <1>2, <3>1, <3>2
    <3> HIDE DEF a, b
    <3>4. ~(a <= b)
      BY <1>1, <3>3
    <3>5. QED
      BY <3>4 DEF a, b
  <2>3. QED
    BY <1>2, <2>1, <2>2
<1>5. k * unit <= full + elapsed * rate <=> asked <= given
  BY <1>2, <1>3, <1>4
<1>6. QED
  BY <1>5 DEF asked, given, tick

(* There is a token exactly when the rate has room for one more.           *)
LEMMA RoomIsTheRate ==
    ASSUME NEW limit \in Nat \ {0}, NEW window \in Nat \ {0}, NEW unit \in Nat \ {0},
           unit % window = 0,
           NEW log \in Seq(Nat), NEW held \in Int, NEW now \in Int,
           Within(log, held, now, unit, limit * unit, limit * (unit \div window)),
           Exact(log, held, now, unit, limit * unit, limit * (unit \div window))
    PROVE  held >= unit
              <=> \A i \in DOMAIN log :
                     (Len(log) - i + 1 + 1) * window
                        <= limit * (window + (now - Highest(log, i)))
<1> DEFINE rate == limit * (unit \div window)
           full == limit * unit
           k(i) == Len(log) - i + 1
           used(i) == k(i) * unit
           elapsed(i) == now - Highest(log, i)
           gained(i) == elapsed(i) * rate
<1>1. full \in Nat /\ rate \in Nat \ {0} /\ unit <= full
  BY WholeRate, Zenon
<1>2. ASSUME NEW i \in DOMAIN log
      PROVE  /\ k(i) \in Int /\ elapsed(i) \in Int
             /\ used(i) \in Int /\ gained(i) \in Int
             /\ used(i) + unit <= full + gained(i)
                   <=> (k(i) + 1) * window <= limit * (window + elapsed(i))
             /\ used(i) + held <= full + gained(i)
  <2>1. \A j \in DOMAIN log : log[j] <= now
    BY DEF Within
  <2>2. Highest(log, i) \in Nat
    BY <2>1, HighestIs
  <2>3. k(i) \in Int /\ elapsed(i) \in Int /\ k(i) + 1 \in Int
    BY <2>2
  <2>4. used(i) + held <= full + gained(i)
    BY DEF Within
  <2> HIDE DEF k, elapsed
  <2>5. (k(i) + 1) * unit <= full + elapsed(i) * rate
           <=> (k(i) + 1) * window <= limit * (window + elapsed(i))
    BY <2>3, UnitsAreTheRate, Zenon
  <2> HIDE DEF rate, full
  <2>6. (k(i) + 1) * unit = used(i) + unit /\ used(i) \in Int /\ gained(i) \in Int
    <3> DEFINE m == k(i)
               e == elapsed(i)
    <3>1. m \in Int /\ e \in Int
      BY <2>3
    <3> HIDE DEF m, e
    <3>2. (m + 1) * unit = m * unit + unit /\ m * unit \in Int /\ e * rate \in Int
      BY <1>1, <3>1
    <3>3. QED
      BY <3>2 DEF m, e
  <2>7. QED
    BY <2>3, <2>4, <2>5, <2>6
<1>3. ASSUME held >= unit, NEW i \in DOMAIN log
      PROVE  (k(i) + 1) * window <= limit * (window + elapsed(i))
  <2> HIDE DEF k, used, elapsed, gained, full
  <2>1. used(i) + unit <= full + gained(i)
    <3> DEFINE u == used(i)
               g == gained(i)
    <3>1. u \in Int /\ g \in Int /\ u + held <= full + g
      BY <1>2, Zenon
    <3> HIDE DEF u, g
    <3>2. u + unit <= full + g
      BY <1>1, <1>3, <3>1
    <3>3. QED
      BY <3>2 DEF u, g
  <2>2. QED
    BY <1>2, <2>1
<1>4. ASSUME ~(held >= unit)
      PROVE  \E i \in DOMAIN log : ~((k(i) + 1) * window <= limit * (window + elapsed(i)))
  <2>1. held # full
    <3> HIDE DEF full
    <3>1. QED
      BY <1>1, <1>4
  <2>2. PICK i \in DOMAIN log : used(i) + held = full + gained(i)
    BY <2>1 DEF Exact
  <2> HIDE DEF k, used, elapsed, gained, full
  <2>3. ~(used(i) + unit <= full + gained(i))
    BY <1>1, <1>2, <1>4, <2>2
  <2>4. QED
    BY <1>2, <2>3
<1>5. QED
  BY <1>3, <1>4

(* The window that a reading falls into, by its number.                    *)
LEMMA NumberOfWindow ==
    ASSUME NEW window \in Nat \ {0}, NEW now \in Nat
    PROVE  LET n == now \div window
           IN  /\ n \in Nat /\ now - (now % window) = n * window
               /\ n * window <= now /\ now < (n + 1) * window
               /\ \A k \in Int : k * window <= now => k <= n
               /\ \A k \in Int : now < k * window => n < k
<1> DEFINE n == now \div window
           r == now % window
<1>1. now = window * n + r /\ n \in Int /\ r \in 0 .. window - 1 /\ now \in Int
  BY DivMod
<1> HIDE DEF n, r
<1>2. n * window = window * n /\ (n + 1) * window = n * window + window /\ n * window \in Int
  BY <1>1
<1>3. now - r = n * window /\ n * window <= now /\ now < (n + 1) * window
  BY <1>1, <1>2
<1>4. ASSUME NEW k \in Int, k * window <= now PROVE k <= n
  BY <1>4, QuotientAtLeast DEF n
<1>5. ASSUME NEW k \in Int, now < k * window PROVE n < k
  BY <1>1, <1>5, QuotientBelow DEF n
<1>6. n \in Nat
  <2>1. 0 * window <= now
    OBVIOUS
  <2>2. QED
    BY <1>1, <1>4, <2>1
<1>7. QED
  BY <1>3, <1>4, <1>5, <1>6 DEF n, r

-------------------------------------------------------------------------------
(* The admissions of a log that are later than c.                          *)
Later(log, c) == {i \in DOMAIN log : log[i] > c}

LEMMA LaterOneMore ==
    ASSUME NEW log \in Seq(Nat), NEW now \in Nat, NEW c \in Int
    PROVE  /\ IsFiniteSet(Later(log, c)) /\ Cardinality(Later(log, c)) \in Nat
           /\ now > c => Cardinality(Later(Append(log, now), c)) = Cardinality(Later(log, c)) + 1
           /\ ~(now > c) => Later(Append(log, now), c) = Later(log, c)
<1> DEFINE n == Len(log)
           next == Append(log, now)
<1>1. /\ n \in Nat /\ DOMAIN log = 1 .. n /\ DOMAIN next = 1 .. n + 1
      /\ next[n + 1] = now /\ \A i \in 1 .. n : next[i] = log[i]
  OBVIOUS
<1>2. Later(log, c) \subseteq 1 .. n /\ IsFiniteSet(1 .. n)
  BY <1>1, FS_Interval DEF Later
<1>3. IsFiniteSet(Later(log, c)) /\ Cardinality(Later(log, c)) \in Nat
  BY <1>2, FS_Subset, FS_CardinalityType
<1> HIDE DEF next, n
<1>4. CASE now > c
  <2>1. Later(next, c) = Later(log, c) \cup {n + 1}
    BY <1>1, <1>4 DEF Later
  <2>2. n + 1 \notin Later(log, c)
    BY <1>1, <1>2
  <2>3. Cardinality(Later(next, c)) = Cardinality(Later(log, c)) + 1
    BY <1>3, <2>1, <2>2, FS_AddElement
  <2>4. QED
    BY <1>3, <1>4, <2>3 DEF next
<1>5. CASE ~(now > c)
  <2>1. Later(next, c) = Later(log, c)
    BY <1>1, <1>5 DEF Later
  <2>2. QED
    BY <1>3, <1>5, <2>1 DEF next
<1>6. QED
  BY <1>4, <1>5

LEMMA LaterIsFinite ==
    ASSUME NEW log \in Seq(Nat), NEW c \in Int
    PROVE  Cardinality(Later(log, c)) \in Nat
BY LaterOneMore, 0 \in Nat

(* A log after a request that was admitted or not.                         *)
Grown(log, now, taken) == IF taken THEN Append(log, now) ELSE log

LEMMA GrownLater ==
    ASSUME NEW log \in Seq(Nat), NEW now \in Nat, NEW taken
    PROVE  /\ Grown(log, now, taken) \in Seq(Nat)
           /\ \A t \in Int : t <= now /\ (\A i \in DOMAIN log : log[i] <= t) =>
                 \A i \in DOMAIN Grown(log, now, taken) : Grown(log, now, taken)[i] <= now
           /\ \A c \in Int :
                 /\ Cardinality(Later(log, c)) \in Nat
                 /\ taken /\ now > c =>
                       Cardinality(Later(Grown(log, now, taken), c))
                           = Cardinality(Later(log, c)) + 1
                 /\ ~taken \/ ~(now > c) =>
                       Cardinality(Later(Grown(log, now, taken), c))
                           = Cardinality(Later(log, c))
<1> DEFINE next == Append(log, now)
           n == Len(log)
<1>1. /\ n \in Nat /\ DOMAIN log = 1 .. n /\ DOMAIN next = 1 .. n + 1
      /\ next[n + 1] = now /\ \A i \in 1 .. n : next[i] = log[i] /\ log[i] \in Nat
      /\ next \in Seq(Nat)
  OBVIOUS
<1>2. ASSUME NEW at \in Int, at <= now, \A i \in DOMAIN log : log[i] <= at
      PROVE  /\ \A i \in DOMAIN next : next[i] <= now
             /\ \A i \in DOMAIN log : log[i] <= now
  <2> HIDE DEF next, n
  <2>1. QED
    BY <1>1, <1>2
<1>3. ASSUME NEW c \in Int
      PROVE  /\ Cardinality(Later(log, c)) \in Nat
             /\ now > c => Cardinality(Later(next, c)) = Cardinality(Later(log, c)) + 1
             /\ ~(now > c) => Later(next, c) = Later(log, c)
  BY LaterOneMore
<1> HIDE DEF n
<1>4. CASE taken
  <2>1. Grown(log, now, taken) = next
    BY <1>4 DEF Grown
  <2> HIDE DEF next
  <2>2. QED
    BY <1>1, <1>2, <1>3, <1>4, <2>1
<1>5. CASE ~taken
  <2>1. Grown(log, now, taken) = log
    BY <1>5 DEF Grown
  <2> HIDE DEF next
  <2>2. QED
    BY <1>1, <1>2, <1>3, <1>5, <2>1
<1>6. QED
  BY <1>4, <1>5

LEMMA NoneLater ==
    ASSUME NEW log \in Seq(Nat), NEW c \in Int, \A i \in DOMAIN log : log[i] <= c
    PROVE  Cardinality(Later(log, c)) = 0
<1>1. \A i \in DOMAIN log : log[i] \in Nat
  OBVIOUS
<1>2. Later(log, c) = {}
  BY <1>1 DEF Later
<1>3. QED
  BY <1>2, FS_EmptySet

(* What was admitted from one instant to another.                          *)
LEMMA CountedBetween ==
    ASSUME NEW log \in Seq(Nat), NEW from \in Int, NEW to \in Int, from <= to + 1
    PROVE  Cardinality({i \in DOMAIN log : log[i] \in from .. to})
               = Cardinality(Later(log, from - 1)) - Cardinality(Later(log, to))
<1> DEFINE all == Later(log, from - 1)
           late == Later(log, to)
           some == {i \in DOMAIN log : log[i] \in from .. to}
<1>1. \A i \in DOMAIN log : log[i] \in Int
  OBVIOUS
<1>2. IsFiniteSet(all) /\ late \subseteq all /\ some = all \ late
  <2>1. IsFiniteSet(all)
    BY LaterOneMore, 0 \in Nat
  <2>2. late \subseteq all
    BY <1>1 DEF Later
  <2>3. some \subseteq all \ late
    BY <1>1 DEF Later
  <2>4. all \ late \subseteq some
    BY <1>1 DEF Later
  <2>5. QED
    BY <2>1, <2>2, <2>3, <2>4
<1> HIDE DEF all, late, some
<1>3. Cardinality(all \ late) = Cardinality(all) - Cardinality(all \cap late)
  BY <1>2, FS_Difference
<1>4. all \cap late = late
  BY <1>2
<1>5. Cardinality(some) = Cardinality(all) - Cardinality(late)
  BY <1>2, <1>3, <1>4
<1>6. QED
  BY <1>5 DEF all, late, some

(* What was admitted up to the latest instant.                             *)
LEMMA CountedFrom ==
    ASSUME NEW log \in Seq(Nat), NEW from \in Int, NEW to \in Int,
           \A i \in DOMAIN log : log[i] <= to
    PROVE  Cardinality({i \in DOMAIN log : log[i] \in from .. to})
             = Cardinality(Later(log, from - 1))
<1>1. \A i \in DOMAIN log : log[i] \in Int
  OBVIOUS
<1>2. {i \in DOMAIN log : log[i] \in from .. to} = Later(log, from - 1)
  BY <1>1 DEF Later
<1>3. QED
  BY <1>2
===============================================================================
