--------------------------- MODULE ListViewProofs ---------------------------
(***************************************************************************)
(* What the list over a table promises, for a table of any length, rows of *)
(* any heights, a view of any height, and any pool that has room for what  *)
(* the view may be over.                                                   *)
(*                                                                         *)
(* Three ideas carry it.  The running totals of rebuildTops only grow, so  *)
(* the rows the view is over are consecutive, begin at the row First finds *)
(* and are no more than Fits counts: nothing in view is missed.  What a    *)
(* paint draws it puts at First + slot.  And a slot may only keep an old   *)
(* row while it is not drawn: in a list of equal rows a slot the view is   *)
(* sure to need is undrawn only when the table ends before it, which is    *)
(* when the whole table is in view and the slot, which is never given a    *)
(* row above its own number, shows nothing of the table at all.            *)
(*                                                                         *)
(* Facts about running totals are inductions over the row, done as the     *)
(* absence of a least counterexample (UpTo).                               *)
(***************************************************************************)
EXTENDS ListView, FiniteSetTheorems, WellFoundedInduction, TLAPS

(* Induction up to a bound. *)
LEMMA UpTo ==
  ASSUME NEW n \in Nat, NEW T, 0 \in T, \A i \in 0 .. n - 1 : i \in T => i + 1 \in T
  PROVE  \A i \in 0 .. n : i \in T
<1> DEFINE less == {p \in Nat \X Nat : p[1] < p[2]}
           out  == {i \in 0 .. n : i \notin T}
<1>1. IsWellFoundedOn(less, Nat)
  BY NatLessThanWellFounded DEF OpToRel
<1> HIDE DEF less
<1>2. SUFFICES ASSUME out # {} PROVE FALSE
  OBVIOUS
<1>3. PICK i \in out : \A j \in out : ~(<<j, i>> \in less)
  <2>1. out \subseteq Nat
    OBVIOUS
  <2> HIDE DEF out
  <2> QED
    BY <1>1, <1>2, <2>1, WFMin
<1>4. i \in 0 .. n /\ i \notin T /\ i # 0
  BY <1>3
<1>5. i - 1 \in 0 .. n - 1 /\ <<i - 1, i>> \in less
  BY <1>4 DEF less
<1>6. i - 1 \in T
  BY <1>3, <1>5
<1> QED
  BY <1>4, <1>5, <1>6

(* Multiples of one number. *)
LEMMA Times ==
  ASSUME NEW p \in Nat \ {0}, NEW a \in Int, NEW b \in Int
  PROVE  /\ a * p \in Int
         /\ a <= b => a * p <= b * p
         /\ a < b => a * p + p <= b * p
         /\ a * p < b * p => a < b
         /\ (a + 1) * p = a * p + p
         /\ (a + b) * p = a * p + b * p
<1>1. a * p \in Int /\ b * p \in Int
  OBVIOUS
<1>2. (a + 1) * p = a * p + p
  OBVIOUS
<1>3. (a + b) * p = a * p + b * p
  OBVIOUS
<1>4. a < b => a * p + p <= b * p
  <2>1. \A d \in Nat : d * p >= 0
    OBVIOUS
  <2>2. a < b => b - (a + 1) \in Nat
    OBVIOUS
  <2>3. (b - (a + 1)) * p = b * p - (a * p + p)
    OBVIOUS
  <2> QED
    BY <1>1, <2>1, <2>2, <2>3
<1>5. a <= b => a * p <= b * p
  BY <1>1, <1>4
<1>6. a * p < b * p => a < b
  <2>1. b <= a => b * p <= a * p
    <3>1. \A d \in Nat : d * p >= 0
      OBVIOUS
    <3>2. b <= a => a - b \in Nat
      OBVIOUS
    <3>3. (a - b) * p = a * p - b * p
      OBVIOUS
    <3> QED
      BY <1>1, <3>1, <3>2, <3>3
  <2> QED
    BY <1>1, <2>1
<1> QED
  BY <1>1, <1>2, <1>3, <1>4, <1>5, <1>6

(* What a quotient is, in multiples of the divisor. *)
LEMMA Quotient ==
  ASSUME NEW p \in Nat \ {0}, NEW o \in Nat
  PROVE  o \div p \in Nat /\ (o \div p) * p <= o /\ o < (o \div p) * p + p
<1>1. p \in Int /\ p > 0 /\ o \in Int
  OBVIOUS
<1>2. (o \div p) * p <= o
  BY <1>1
<1>3. o < (o \div p) * p + p
  BY <1>1
<1>4. o \div p \in Nat
  OBVIOUS
<1> QED
  BY <1>2, <1>3, <1>4

-----------------------------------------------------------------------------
(* The table and its heights. *)
TableIs == \E n \in 0 .. MaxRows : table \in [0 .. n - 1 -> Cells]

(* A table has rows 0 to Rows - 1. *)
LEMMA RowsAre ==
  ASSUME TableIs
  PROVE  /\ Rows \in 0 .. MaxRows /\ Rows \in Nat
         /\ DOMAIN table = 0 .. Rows - 1 /\ table \in [0 .. Rows - 1 -> Cells]
<1>1. PICK n \in 0 .. MaxRows : table \in [0 .. n - 1 -> Cells]
  BY DEF TableIs
<1>2. n \in Nat
  BY ListViewAssumption
<1>3. Cardinality(0 .. n - 1) = n
  BY <1>2, FS_Interval
<1>4. Rows = n
  BY <1>1, <1>3 DEF Rows
<1> QED
  BY <1>1, <1>2, <1>4

(* Every row has a height, and in a list of equal rows it is the pitch. *)
LEMMA Heighten ==
  ASSUME TableIs
  PROVE  \A i : Height(i) \in Nat \ {0} /\ (~varies => Height(i) = Pitch)
BY RowsAre, ListViewAssumption DEF Height, Cells, Blank

(* What mRowTop holds after rebuildTops. *)
Totals(top) ==
  /\ top \in [0 .. Rows -> Nat] /\ top[0] = 0
  /\ \A i \in 0 .. Rows - 1 : top[i + 1] = top[i] + Height(i)
  /\ ~varies => \A i \in 0 .. Rows : top[i] = i * Pitch

(* The recursion of rebuildTops has a value: there is such a function up to *)
(* every row, hence one for the whole table.                               *)
LEMMA RunningTopRuns ==
  ASSUME TableIs
  PROVE  /\ RunningTop \in [0 .. Rows -> Nat] /\ RunningTop[0] = 0
         /\ \A i \in 0 .. Rows - 1 : RunningTop[i + 1] = RunningTop[i] + Height(i)
<1> DEFINE n == Rows
           Runs(f, m) == /\ f \in [0 .. m -> Nat] /\ f[0] = 0
                         /\ \A i \in 0 .. m - 1 : f[i + 1] = f[i] + Height(i)
           T == {m \in 0 .. n : \E f : Runs(f, m)}
           Rec(f) == [i \in 0 .. n |-> IF i = 0 THEN 0 ELSE f[i - 1] + Height(i - 1)]
<1>0. n \in Nat /\ \A i : Height(i) \in Nat
  BY RowsAre, Heighten
<1>1. 0 \in T
  <2>1. Runs([i \in 0 .. 0 |-> 0], 0)
    OBVIOUS
  <2>2. 0 \in 0 .. n
    BY <1>0
  <2> QED
    BY <2>1, <2>2
<1>2. ASSUME NEW m \in 0 .. n - 1, m \in T
      PROVE  m + 1 \in T
  <2>1. PICK f : Runs(f, m)
    BY <1>2
  <2> DEFINE g == [i \in 0 .. m + 1 |-> IF i = m + 1 THEN f[m] + Height(m) ELSE f[i]]
  <2>2. m \in Nat /\ m + 1 \in 0 .. n /\ m \in 0 .. m
    BY <1>0
  <2>3. f[m] \in Nat
    BY <2>1, <2>2
  <2>4. g \in [0 .. m + 1 -> Nat] /\ g[0] = 0
    BY <1>0, <2>1, <2>2, <2>3
  <2>5. ASSUME NEW i \in 0 .. m
        PROVE  g[i + 1] = g[i] + Height(i)
    <3>1. CASE i = m
      BY <2>2, <3>1
    <3>2. CASE i # m
      BY <2>1, <2>2, <3>2
    <3> QED
      BY <3>1, <3>2
  <2>6. Runs(g, m + 1)
    <3>1. 0 .. (m + 1) - 1 = 0 .. m
      BY <2>2
    <3> HIDE DEF g
    <3> QED
      BY <2>4, <2>5, <3>1
  <2> QED
    BY <2>2, <2>6
<1> HIDE DEF T
<1>3. \A i \in 0 .. n : i \in T
  BY <1>0, <1>1, <1>2, UpTo
<1>4. n \in 0 .. n
  BY <1>0
<1>5. PICK f : Runs(f, n)
  BY <1>3, <1>4 DEF T
<1>6. f = Rec(f)
  <2>1. \A i \in 0 .. n : f[i] = IF i = 0 THEN 0 ELSE f[i - 1] + Height(i - 1)
    BY <1>0, <1>5
  <2>2. f = [i \in 0 .. n |-> f[i]]
    BY <1>5
  <2> QED
    BY <2>1, <2>2
<1>7. RunningTop = CHOOSE h : h = Rec(h)
  BY DEF RunningTop
<1>8. RunningTop = Rec(RunningTop)
  BY <1>6, <1>7
<1> HIDE DEF n
<1>9. /\ RunningTop = [i \in 0 .. n |-> RunningTop[i]]
      /\ \A i \in 0 .. n : RunningTop[i] = IF i = 0 THEN 0 ELSE RunningTop[i - 1] + Height(i - 1)
  BY <1>8
<1>10. RunningTop[0] = 0 /\ \A i \in 0 .. n - 1 : RunningTop[i + 1] = RunningTop[i] + Height(i)
  <2>1. 0 \in 0 .. n
    BY <1>0
  <2>2. ASSUME NEW i \in 0 .. n - 1
        PROVE  RunningTop[i + 1] = RunningTop[i] + Height(i)
    <3>1. i + 1 \in 0 .. n /\ i + 1 # 0 /\ (i + 1) - 1 = i
      BY <1>0
    <3> QED
      BY <1>9, <3>1
  <2> QED
    BY <1>9, <2>1, <2>2
<1>11. \A i \in 0 .. n : RunningTop[i] \in Nat
  <2> DEFINE S == {i \in 0 .. n : RunningTop[i] \in Nat}
  <2>1. 0 \in S
    BY <1>0, <1>10
  <2>2. ASSUME NEW i \in 0 .. n - 1, i \in S
        PROVE  i + 1 \in S
    BY <1>0, <1>10, <2>2
  <2>3. \A i \in 0 .. n : i \in S
    <3> HIDE DEF S
    <3> QED
      BY <1>0, <2>1, <2>2, UpTo
  <2> QED
    BY <2>3
<1> QED
  BY <1>9, <1>10, <1>11 DEF n

(* rebuildTops and topOf both give the running totals. *)
LEMMA TopsAre ==
  ASSUME TableIs
  PROVE  Totals(Tops)
<1>1. CASE varies
  BY <1>1, RunningTopRuns DEF Totals, Tops
<1>2. CASE ~varies
  <2>1. Tops = [i \in 0 .. Rows |-> i * Pitch] /\ Rows \in Nat /\ Pitch \in Nat \ {0}
    BY <1>2, RowsAre, ListViewAssumption DEF Tops
  <2>2. \A i \in 0 .. Rows : i * Pitch \in Nat
    BY <2>1
  <2>3. 0 * Pitch = 0
    BY <2>1
  <2>4. ASSUME NEW i \in 0 .. Rows - 1
        PROVE  Tops[i + 1] = Tops[i] + Height(i)
    <3>1. i \in Int /\ i \in 0 .. Rows /\ i + 1 \in 0 .. Rows
      BY <2>1
    <3>2. (i + 1) * Pitch = i * Pitch + Pitch
      BY <2>1, <3>1, Times
    <3>3. Height(i) = Pitch
      BY <1>2, Heighten
    <3> QED
      BY <2>1, <3>1, <3>2, <3>3
  <2>5. Tops \in [0 .. Rows -> Nat] /\ Tops[0] = 0 /\ \A i \in 0 .. Rows : Tops[i] = i * Pitch
    BY <2>1, <2>2, <2>3
  <2> QED
    BY <2>4, <2>5 DEF Totals
<1> QED
  BY <1>1, <1>2

(* A row ends before any later one begins. *)
LEMMA TotalsGrow ==
  ASSUME TableIs, NEW top, Totals(top), NEW i \in 0 .. Rows
  PROVE  \A j \in 0 .. Rows : i < j => top[i] + Height(i) <= top[j]
<1> DEFINE T == {j \in 0 .. Rows : i < j => top[i] + Height(i) <= top[j]}
<1>0. Rows \in Nat /\ \A k : Height(k) \in Nat
  BY RowsAre, Heighten
<1>1. 0 \in T
  BY <1>0
<1>2. ASSUME NEW j \in 0 .. Rows - 1, j \in T
      PROVE  j + 1 \in T
  <2>1. /\ top[j + 1] = top[j] + Height(j) /\ top[j] \in Nat /\ top[i] \in Nat /\ top[j + 1] \in Nat
        /\ Height(j) \in Nat /\ Height(i) \in Nat /\ j + 1 \in 0 .. Rows
    BY <1>0 DEF Totals
  <2>2. CASE i = j
    BY <2>1, <2>2
  <2>3. CASE i # j
    BY <1>2, <2>1, <2>3
  <2> QED
    BY <2>2, <2>3
<1>3. \A j \in 0 .. Rows : j \in T
  <2> HIDE DEF T
  <2> QED
    BY <1>0, <1>1, <1>2, UpTo
<1> QED
  BY <1>3

-----------------------------------------------------------------------------
(* Which rows the view is over *)

(* A set of numbers below a bound has a last one, and Max is it. *)
LEMMA LastOf ==
  ASSUME NEW n \in Nat, NEW t \in SUBSET (0 .. n), t # {}
  PROVE  Max(t) \in t /\ \A y \in t : Max(t) >= y
<1> DEFINE T == {m \in 0 .. n : \A s \in SUBSET (0 .. m) : s # {} => \E x \in s : \A y \in s : x >= y}
<1>1. 0 \in T
  <2>1. ASSUME NEW s \in SUBSET (0 .. 0), s # {}
        PROVE  \E x \in s : \A y \in s : x >= y
    <3>1. \A y \in 0 .. 0 : y = 0
      OBVIOUS
    <3>2. 0 \in s /\ \A y \in s : y = 0
      BY <2>1, <3>1
    <3>3. \A y \in s : 0 >= y
      BY <3>2
    <3> QED
      BY <3>2, <3>3
  <2>2. 0 \in 0 .. n
    OBVIOUS
  <2> QED
    BY <2>1, <2>2
<1>2. ASSUME NEW m \in 0 .. n - 1, m \in T
      PROVE  m + 1 \in T
  <2>1. ASSUME NEW s \in SUBSET (0 .. m + 1), s # {}
        PROVE  \E x \in s : \A y \in s : x >= y
    <3>1. CASE m + 1 \in s
      <4>1. \A y \in s : m + 1 >= y
        OBVIOUS
      <4> QED
        BY <3>1, <4>1
    <3>2. CASE m + 1 \notin s
      <4>1. s \in SUBSET (0 .. m)
        BY <3>2
      <4> QED
        BY <1>2, <2>1, <4>1
    <3> QED
      BY <3>1, <3>2
  <2>2. m + 1 \in 0 .. n
    OBVIOUS
  <2> QED
    BY <2>1, <2>2
<1>3. \A m \in 0 .. n : m \in T
  <2> HIDE DEF T
  <2> QED
    BY <1>1, <1>2, UpTo
<1>4. n \in 0 .. n
  OBVIOUS
<1>5. \E x \in t : \A y \in t : x >= y
  BY <1>3, <1>4
<1> QED
  BY <1>5 DEF Max

(* The row paint begins with is not past any row that reaches into the view. *)
LEMMA FirstIsInView ==
  ASSUME TableIs, NEW top, Totals(top), NEW o \in Nat
  PROVE  /\ First(top, o) \in Nat
         /\ \A i \in DOMAIN table : top[i] + Height(i) > o => First(top, o) <= i
<1>0. Rows \in Nat /\ DOMAIN table = 0 .. Rows - 1 /\ \A i : Height(i) \in Nat \ {0}
  BY RowsAre, Heighten
<1>1. CASE varies
  <2> DEFINE over == {i \in DOMAIN table : top[i] <= o}
  <2>1. CASE over = {}
    BY <1>0, <1>1, <2>1 DEF First
  <2>2. CASE over # {}
    <3>1. First(top, o) = Max(over)
      BY <1>1, <2>2 DEF First
    <3>2. over \in SUBSET (0 .. Rows)
      BY <1>0
    <3>3. Max(over) \in over
      <4> HIDE DEF over
      <4> QED
        BY <1>0, <2>2, <3>2, LastOf
    <3>4. Max(over) \in 0 .. Rows - 1 /\ top[Max(over)] <= o
      BY <1>0, <3>3
    <3>5. ASSUME NEW i \in DOMAIN table, top[i] + Height(i) > o, i < Max(over)
          PROVE  FALSE
      <4> DEFINE f == Max(over)
      <4>1. i \in 0 .. Rows /\ f \in 0 .. Rows /\ i < f
        BY <1>0, <3>4, <3>5
      <4> HIDE DEF f
      <4>2. top[i] + Height(i) <= top[f]
        BY <4>1, TotalsGrow
      <4>3. top[i] \in Nat /\ top[f] \in Nat /\ Height(i) \in Nat
        BY <1>0, <4>1 DEF Totals
      <4>4. top[f] <= o
        BY <3>4 DEF f
      <4> QED
        BY <3>5, <4>2, <4>3, <4>4
    <3>6. Max(over) \in Nat /\ \A i \in DOMAIN table : i \in Nat
      BY <1>0, <3>4
    <3>7. \A i \in DOMAIN table : top[i] + Height(i) > o => Max(over) <= i
      <4> HIDE DEF over
      <4> QED
        BY <3>5, <3>6
    <3> QED
      BY <3>1, <3>6, <3>7
  <2> QED
    BY <2>1, <2>2
<1>2. CASE ~varies
  <2> DEFINE f == o \div Pitch
  <2>1. Pitch \in Nat \ {0} /\ f \in Nat /\ f * Pitch <= o /\ o < f * Pitch + Pitch
    BY Quotient, ListViewAssumption
  <2>2. First(top, o) = f
    BY <1>2 DEF First
  <2> HIDE DEF f
  <2>3. ASSUME NEW i \in DOMAIN table, top[i] + Height(i) > o
        PROVE  f <= i
    <3>1. i \in Int /\ i + 1 \in Int /\ i \in 0 .. Rows /\ f \in Int
      BY <1>0, <2>1
    <3>2. top[i] = i * Pitch /\ Height(i) = Pitch
      BY <1>2, <3>1, Heighten DEF Totals
    <3>3. (i + 1) * Pitch = i * Pitch + Pitch /\ i * Pitch \in Int /\ f * Pitch \in Int
      BY <2>1, <3>1, Times
    <3>4. f * Pitch < (i + 1) * Pitch
      BY <2>1, <2>3, <3>2, <3>3
    <3>5. f < i + 1
      BY <2>1, <3>1, <3>4, Times
    <3> QED
      BY <3>1, <3>5
  <2> QED
    BY <2>1, <2>2, <2>3
<1> QED
  BY <1>1, <1>2

(* Every row the view is over is one of those that fit. *)
LEMMA NoRowIsMissed ==
  ASSUME TableIs, NEW top, Totals(top), NEW o \in Nat, NEW i \in DOMAIN table,
         top[i] + Height(i) > o, top[i] < o + ViewHeight
  PROVE  i - First(top, o) \in Nat /\ i - First(top, o) < Fits(top, o)
<1> DEFINE f == First(top, o)
<1>0. /\ Rows \in Nat /\ DOMAIN table = 0 .. Rows - 1 /\ i \in 0 .. Rows - 1 /\ i \in 0 .. Rows
      /\ \A k : Height(k) \in Nat \ {0}
      /\ ViewHeight \in Nat \ {0} /\ Pitch \in Nat \ {0}
  BY RowsAre, Heighten, ListViewAssumption
<1>1. f \in Nat /\ f <= i /\ i - f \in Nat
  <2>1. f \in Nat /\ f <= i
    BY FirstIsInView
  <2> HIDE DEF f
  <2> QED
    BY <1>0, <2>1
<1>2. CASE varies
  <2> DEFINE over == RowsOver(top, o)
  <2>1. over \subseteq 0 .. Rows - 1
    BY <1>0 DEF RowsOver
  <2>2. f .. i \subseteq over
    <3> SUFFICES ASSUME NEW j \in f .. i
                 PROVE  j \in over
      OBVIOUS
    <3>1. j \in 0 .. Rows /\ j \in DOMAIN table /\ j >= f /\ j <= i
      BY <1>0, <1>1
    <3>2. top[j] \in Nat /\ top[i] \in Nat /\ Height(j) \in Nat
      BY <1>0, <3>1 DEF Totals
    <3>3. j < i => top[j] + Height(j) <= top[i]
      BY <1>0, <3>1, TotalsGrow
    <3>4. top[j] < o + ViewHeight
      <4>1. CASE j = i
        BY <4>1
      <4>2. CASE j < i
        BY <1>0, <3>2, <3>3, <4>2
      <4> QED
        BY <1>0, <3>1, <4>1, <4>2
    <3> QED
      BY <3>1, <3>4 DEF RowsOver
  <2>3. IsFiniteSet(over) /\ Cardinality(f .. i) <= Cardinality(over) /\ Cardinality(over) \in Nat
    <3>1. IsFiniteSet(0 .. Rows - 1)
      BY <1>0, FS_Interval
    <3>2. IsFiniteSet(over)
      BY <2>1, <3>1, FS_Subset
    <3> HIDE DEF over
    <3> QED
      BY <2>2, <3>2, FS_Subset, FS_CardinalityType
  <2>4. Cardinality(f .. i) = i - f + 1
    BY <1>0, <1>1, FS_Interval
  <2>5. Fits(top, o) = Cardinality(over)
    BY <1>2 DEF Fits
  <2> HIDE DEF f, over
  <2> QED
    BY <1>0, <1>1, <2>3, <2>4, <2>5 DEF f
<1>3. CASE ~varies
  <2> DEFINE q == (ViewHeight + Pitch - 1) \div Pitch
  <2>1. ViewHeight + Pitch - 1 \in Nat
    BY <1>0
  <2>2. q \in Nat /\ ViewHeight + Pitch - 1 < q * Pitch + Pitch
    BY <1>0, <2>1, Quotient
  <2>3. Fits(top, o) = q + 1
    BY <1>3 DEF Fits
  <2>4. f = o \div Pitch /\ o < f * Pitch + Pitch
    BY <1>0, <1>3, Quotient DEF First
  <2>5. top[i] = i * Pitch
    BY <1>0, <1>3 DEF Totals
  <2> HIDE DEF f, q
  <2>6. i * Pitch = f * Pitch + (i - f) * Pitch /\ f * Pitch \in Int /\ (i - f) * Pitch \in Int
    <3>1. f \in Int /\ i - f \in Int /\ i = f + (i - f)
      BY <1>0, <1>1 DEF f
    <3> QED
      BY <1>0, <3>1, Times
  <2>7. (q + 1) * Pitch = q * Pitch + Pitch /\ q * Pitch \in Int
    BY <1>0, <2>2, Times
  <2>8. (i - f) * Pitch < (q + 1) * Pitch
    BY SMTT(30), <1>0, <2>2, <2>4, <2>5, <2>6, <2>7
  <2>9. i - f < q + 1
    <3>1. i - f \in Int /\ q + 1 \in Int
      BY <1>1, <2>2 DEF f
    <3> QED
      BY <1>0, <2>8, <3>1, Times
  <2> QED
    BY <1>1, <2>3, <2>9 DEF f
<1> QED
  BY <1>2, <1>3

(* A list can be scrolled as far as its content is longer than the view. *)
LEMMA MostIs ==
  ASSUME TableIs, NEW top, Totals(top)
  PROVE  /\ MaxOffset(top) \in Nat /\ top[Rows] \in Nat
         /\ top[Rows] <= MaxOffset(top) + ViewHeight
         /\ MaxOffset(top) = 0 \/ MaxOffset(top) = top[Rows] - ViewHeight
<1>1. top[Rows] \in Nat
  BY RowsAre DEF Totals
<1>2. ViewHeight \in Nat
  BY ListViewAssumption
<1> QED
  BY <1>1, <1>2 DEF MaxOffset

(* Rows no lower than h, one after the other. *)
LEMMA RowsAreHigh ==
  ASSUME TableIs, NEW top, Totals(top), NEW h \in Nat, \A k \in Heights : h <= k, h <= Pitch,
         NEW i \in 0 .. Rows
  PROVE  \A j \in 0 .. Rows : i <= j => top[i] + (j - i) * h <= top[j]
<1> DEFINE T == {j \in 0 .. Rows : i <= j => top[i] + (j - i) * h <= top[j]}
<1>0. Rows \in Nat /\ \A k : Height(k) \in Nat /\ Height(k) >= h
  <2>1. \A k : Height(k) >= h
    BY RowsAre, ListViewAssumption DEF Height, Cells, Blank
  <2> QED
    BY <2>1, RowsAre, Heighten
<1>1. 0 \in T
  <2>1. 0 \in 0 .. Rows
    BY <1>0
  <2>2. i <= 0 => i = 0
    OBVIOUS
  <2>3. (0 - 0) * h = 0
    OBVIOUS
  <2>4. top[0] + 0 <= top[0]
    BY DEF Totals
  <2> QED
    BY <2>1, <2>2, <2>3, <2>4
<1>2. ASSUME NEW j \in 0 .. Rows - 1, j \in T
      PROVE  j + 1 \in T
  <2>1. /\ top[j + 1] = top[j] + Height(j) /\ top[j] \in Nat /\ top[i] \in Nat /\ top[j + 1] \in Nat
        /\ Height(j) \in Nat /\ Height(j) >= h /\ j + 1 \in 0 .. Rows /\ j \in Int /\ i \in Int
    BY <1>0 DEF Totals
  <2>2. CASE i <= j
    <3>1. top[i] + (j - i) * h <= top[j]
      BY <1>2, <2>2
    <3>2. (j + 1 - i) * h = (j - i) * h + h /\ (j - i) * h \in Int
      BY <2>1
    <3> QED
      BY <2>1, <3>1, <3>2
  <2>3. CASE i > j
    <3>1. i <= j + 1 => i = j + 1
      BY <2>1, <2>3
    <3>2. (j + 1 - (j + 1)) * h = 0
      BY <2>1
    <3>3. top[j + 1] + 0 <= top[j + 1]
      BY <2>1
    <3> QED
      BY <2>1, <3>1, <3>2, <3>3
  <2> QED
    BY <2>1, <2>2, <2>3
<1>3. \A j \in 0 .. Rows : j \in T
  <2> HIDE DEF T
  <2> QED
    BY <1>0, <1>1, <1>2, UpTo
<1> QED
  BY <1>3

(* What the view is over fits into a pool that is large enough. *)
LEMMA ThePoolFits ==
  ASSUME PoolIsEnough, TableIs, NEW top, Totals(top), NEW o \in Nat
  PROVE  Fits(top, o) <= PoolSize
<1>0. /\ Rows \in Nat /\ DOMAIN table = 0 .. Rows - 1 /\ \A k : Height(k) \in Nat \ {0}
      /\ ViewHeight \in Nat \ {0} /\ Pitch \in Nat \ {0} /\ PoolSize \in Nat \ {0}
  BY RowsAre, Heighten, ListViewAssumption
<1>1. PICK h \in 1 .. Pitch : /\ \A k \in Heights : h <= k
                              /\ (ViewHeight + h - 1) \div h + 1 <= PoolSize
  BY DEF PoolIsEnough
<1> DEFINE q == (ViewHeight + h - 1) \div h
<1>2. h \in Nat \ {0} /\ h <= Pitch /\ ViewHeight + h - 1 \in Nat
  BY <1>0
<1>3. q \in Nat /\ ViewHeight + h - 1 < q * h + h /\ q * h \in Nat /\ q + 1 <= PoolSize
  BY <1>1, <1>2, Quotient
<1>4. q * h >= ViewHeight
  <2> HIDE DEF q
  <2> QED
    BY <1>0, <1>2, <1>3
<1> HIDE DEF q
<1>5. CASE ~varies
  <2> DEFINE p == (ViewHeight + Pitch - 1) \div Pitch
  <2>1. p \in Nat /\ p * Pitch <= ViewHeight + Pitch - 1 /\ p * Pitch \in Nat
    BY <1>0, Quotient
  <2>2. Fits(top, o) = p + 1
    BY <1>5 DEF Fits
  <2> HIDE DEF p
  <2>3. q * Pitch >= q * h /\ q * Pitch \in Nat
    <3>1. q \in Nat /\ Pitch - h \in Nat
      BY <1>0, <1>2, <1>3
    <3>2. q * (Pitch - h) >= 0
      BY <3>1
    <3>3. q * (Pitch - h) = q * Pitch - q * h
      BY <1>0, <1>2, <1>3
    <3> QED
      BY <1>0, <1>3, <3>2, <3>3
  <2>4. (q + 1) * Pitch = q * Pitch + Pitch
    BY <1>0, <1>3
  <2>5. p * Pitch < (q + 1) * Pitch
    BY <1>0, <1>4, <1>3, <2>1, <2>3, <2>4
  <2>6. p < q + 1
    BY <1>0, <1>3, <2>1, <2>5, Times
  <2> QED
    BY <1>0, <1>3, <2>1, <2>2, <2>6
<1>6. CASE varies
  <2> DEFINE over == RowsOver(top, o)
             f    == First(top, o)
  <2>1. over \subseteq 0 .. Rows - 1 /\ Fits(top, o) = Cardinality(over)
    BY <1>0, <1>6 DEF RowsOver, Fits
  <2>2. f \in Nat
    BY FirstIsInView
  <2>3. CASE over = {}
    BY <1>0, <2>1, <2>3, FS_EmptySet
  <2>4. CASE over # {}
    <3> DEFINE j == Max(over)
    <3>1. over \in SUBSET (0 .. Rows)
      BY <1>0, <2>1
    <3>2. j \in over /\ \A y \in over : j >= y
      <4> HIDE DEF over
      <4> QED
        BY <1>0, <2>4, <3>1, LastOf
    <3>3. j \in 0 .. Rows - 1 /\ f <= j /\ top[j] < o + ViewHeight
      BY <1>0, <3>2 DEF RowsOver
    <3>4. over \subseteq f .. j
      <4> SUFFICES ASSUME NEW y \in over PROVE y \in f .. j
        OBVIOUS
      <4>1. y \in Int /\ y >= f /\ y <= j
        BY <1>0, <3>2 DEF RowsOver
      <4> HIDE DEF f, j, over
      <4> QED
        BY <2>2, <3>3, <4>1
    <3> HIDE DEF f, j, over
    <3>5. Cardinality(over) <= j - f + 1 /\ Cardinality(over) \in Nat
      <4>1. IsFiniteSet(f .. j) /\ Cardinality(f .. j) = j - f + 1
        <5>1. f \in Int /\ j \in Int /\ ~(f > j)
          BY <1>0, <2>2, <3>3
        <5> QED
          BY <5>1, FS_Interval
      <4>2. IsFiniteSet(over) /\ Cardinality(over) <= Cardinality(f .. j)
        BY <3>4, <4>1, FS_Subset
      <4> QED
        BY <4>1, <4>2, FS_CardinalityType
    <3>6. j - f + 1 <= q + 1
      <4>1. CASE j = f
        BY <1>3, <2>2, <4>1
      <4>2. CASE j # f
        <5>1. f + 1 \in 0 .. Rows /\ j \in 0 .. Rows /\ f + 1 \in DOMAIN table /\ f + 1 <= j
          BY <1>0, <2>2, <3>3, <4>2
        <5>2. top[f + 1] > o
          <6>1. top[f + 1] <= o => FALSE
            <7> DEFINE low == {i \in DOMAIN table : top[i] <= o}
            <7>1. low \in SUBSET (0 .. Rows)
              BY <1>0
            <7>2. SUFFICES ASSUME top[f + 1] <= o PROVE FALSE
              OBVIOUS
            <7>3. f + 1 \in low
              BY <5>1, <7>2
            <7>4. low # {}
              BY <7>3
            <7>5. f = Max(low)
              BY <1>6, <7>4 DEF First, f
            <7>6. \A y \in low : Max(low) >= y
              <8> HIDE DEF low
              <8> QED
                BY <1>0, <7>1, <7>4, LastOf
            <7> HIDE DEF low
            <7> QED
              BY <2>2, <7>3, <7>5, <7>6
          <6>2. top[f + 1] \in Nat
            BY <5>1 DEF Totals
          <6> QED
            BY <6>1, <6>2
        <5>3. top[f + 1] + (j - (f + 1)) * h <= top[j]
          BY <1>1, <1>2, <5>1, RowsAreHigh
        <5>4. top[f + 1] \in Nat /\ top[j] \in Nat
          BY <5>1 DEF Totals
        <5>5. (j - (f + 1)) * h < q * h
          <6>1. (j - (f + 1)) * h \in Int
            BY <1>2, <5>1, <2>2
          <6> QED
            BY <1>0, <1>3, <1>4, <3>3, <5>2, <5>3, <5>4, <6>1
        <5>6. j - (f + 1) < q
          <6>1. j - (f + 1) \in Int
            BY <2>2, <5>1
          <6> QED
            BY <1>2, <1>3, <5>5, <6>1, Times
        <5> QED
          BY <1>3, <2>2, <5>1, <5>6
      <4> QED
        BY <4>1, <4>2
    <3>7. j - f + 1 \in Int
      BY <2>2, <3>3
    <3> QED
      BY <1>0, <1>3, <2>1, <3>5, <3>6, <3>7 DEF over
  <2> QED
    BY <2>3, <2>4
<1> QED
  BY <1>5, <1>6

-----------------------------------------------------------------------------
(* The inductive invariant *)

Settled == ~tableMoved /\ ~mRowsDirty

(* What the last paint drew it put where its rows are. *)
Placed ==
  painted # {} =>
    /\ Settled /\ Totals(mRowTop)
    /\ painted = Drawn(mRowTop, offset)
    /\ \A s \in painted : mPool[s].showing = First(mRowTop, offset) + s

(* mWasAtEnd is about the offset and the end the last paint left. *)
AtEnd == mWasAtEnd = (2 * offset >= 2 * mLastMaxOffset - Pitch)

(* A slot is never given a row above its own number. *)
Deep == \A s \in Slots : mPool[s].showing # NoRow => mPool[s].showing >= s

(* In a list of equal rows, the slots the view is sure to need are current *)
(* wherever they show a row at all, drawn or not.                          *)
Fresh ==
  ~varies /\ Settled =>
    \A s \in Slots : s < (ViewHeight + Pitch - 1) \div Pitch /\ mPool[s].showing \in DOMAIN table
                     => Current(s)

Pooled == DOMAIN mPool = Slots /\ mLastMaxOffset \in Nat

IInv == TypeOK /\ Pooled /\ Placed /\ AtEnd /\ Deep /\ Fresh

(* What most steps need of the types. *)
LEMMA TypesOf ==
  ASSUME TypeOK, Pooled
  PROVE  TableIs /\ offset \in Nat /\ mLastMaxOffset \in Nat /\ offset <= mLastMaxOffset
BY DEF TypeOK, TableIs, Pooled

(* The slots are the numbers below the size of the pool. *)
LEMMA SlotsAre == /\ \A s \in Slots : s \in Nat /\ s < PoolSize
                  /\ \A s \in Nat : s < PoolSize => s \in Slots
BY ListViewAssumption DEF Slots

(* What is placed where it belongs leaves no hole. *)
LEMMA PlacedLeavesNoHole ==
  ASSUME PoolIsEnough, TypeOK, Pooled, Placed
  PROVE  NoHoles
<1> SUFFICES ASSUME painted # {} PROVE NoHoles
  BY DEF NoHoles
<1> DEFINE f == First(mRowTop, offset)
<1>1. TableIs /\ offset \in Nat
  BY TypesOf
<1>2. /\ Totals(mRowTop) /\ painted = Drawn(mRowTop, offset)
      /\ \A s \in painted : mPool[s].showing = f + s
  BY DEF Placed
<1>3. f \in Nat
  BY <1>1, <1>2, FirstIsInView
<1>4. Fits(mRowTop, offset) <= PoolSize
  BY <1>1, <1>2, ThePoolFits
<1>5. painted \subseteq Slots
  BY DEF TypeOK
<1>6. ASSUME NEW i \in DOMAIN table, InView(i)
      PROVE  \E s \in painted : mPool[s].showing = i
  <2> DEFINE d == i - f
  <2>1. d \in Nat /\ d < Fits(mRowTop, offset)
    BY <1>1, <1>2, <1>6, NoRowIsMissed DEF InView
  <2>2. i \in Int /\ f + d = i
    BY <1>1, <1>3, RowsAre
  <2> HIDE DEF d, f
  <2>3. Fits(mRowTop, offset) \in Int
    <3>1. IsFiniteSet(DOMAIN table)
      BY <1>1, RowsAre, FS_Interval
    <3>2. Cardinality(RowsOver(mRowTop, offset)) \in Nat
      BY <3>1, FS_Subset, FS_CardinalityType DEF RowsOver
    <3>3. (ViewHeight + Pitch - 1) \div Pitch + 1 \in Int
      BY ListViewAssumption
    <3> QED
      BY <3>2, <3>3 DEF Fits
  <2>4. d < PoolSize
    BY <1>4, <2>1, <2>3, ListViewAssumption
  <2>5. d \in Slots
    BY <2>1, <2>4, SlotsAre
  <2>6. d \in painted
    BY <1>2, <2>1, <2>2, <2>5 DEF Drawn, f
  <2> QED
    BY <1>2, <2>2, <2>6
<1>7. ASSUME NEW s \in painted, NEW t \in painted, mPool[s].showing = mPool[t].showing
      PROVE  s = t
  <2>1. s \in Nat /\ t \in Nat
    BY <1>5, SlotsAre
  <2> HIDE DEF f
  <2> QED
    BY <1>2, <1>3, <1>7, <2>1
<1> QED
  BY <1>6, <1>7 DEF NoHoles

(* A slot above the last one the view needs is current. *)
LEMMA FreshIsEnough ==
  ASSUME TypeOK, Pooled, Placed, Fresh
  PROVE  OnlyTheLastSlotGoesStale
<1> SUFFICES ASSUME ~varies, NEW s \in painted, s < Fits(mRowTop, offset) - 1
             PROVE  Current(s)
  BY DEF OnlyTheLastSlotGoesStale
<1> DEFINE q == (ViewHeight + Pitch - 1) \div Pitch
<1>1. Settled /\ painted = Drawn(mRowTop, offset) /\ mPool[s].showing = First(mRowTop, offset) + s
  BY DEF Placed
<1>2. s \in Slots /\ mPool[s].showing \in DOMAIN table
  BY <1>1 DEF Drawn
<1>3. s < q
  <2>1. Fits(mRowTop, offset) = q + 1
    BY DEF Fits
  <2>2. q \in Int
    BY ListViewAssumption
  <2>3. s \in Nat
    BY <1>2, SlotsAre
  <2> HIDE DEF q
  <2> QED
    BY <2>1, <2>2, <2>3
<1> QED
  BY <1>1, <1>2, <1>3 DEF Fresh

(* The invariant says what a reader of the list relies on. *)
LEMMA IInvIsEnough == PoolIsEnough /\ IInv => RowsAreTheTables
BY PlacedLeavesNoHole, FreshIsEnough DEF IInv, RowsAreTheTables

-----------------------------------------------------------------------------
(* What a paint does with the offset *)

(* The clamp lands between the ends. *)
LEMMA ClampIs ==
  ASSUME TableIs, NEW top, Totals(top), NEW o \in Int
  PROVE  Clamped(top, o) \in 0 .. MaxOffset(top)
BY MostIs DEF Clamped

(* A row that was asked for and fits is in view before the clamp. *)
LEMMA NudgeIs ==
  ASSUME TypeOK, TableIs, NEW top, Totals(top), NEW o \in Int
  PROVE  /\ Nudged(top, o) \in Int
         /\ Asked => /\ Wanted \in 0 .. Rows - 1
                     /\ Height(Wanted) <= ViewHeight =>
                          top[Wanted] >= Nudged(top, o)
                          /\ top[Wanted] + Height(Wanted) <= Nudged(top, o) + ViewHeight
<1>1. CASE ~Asked
  BY <1>1 DEF Nudged
<1>2. CASE Asked
  <2>1. Wanted \in 0 .. Rows - 1 /\ Wanted \in 0 .. Rows
    BY <1>2, RowsAre, ListViewAssumption DEF Asked, Wanted, TypeOK, Nothing
  <2> DEFINE t == top[Wanted]
             b == top[Wanted] + Height(Wanted)
  <2>2. t \in Nat /\ b \in Nat /\ b = t + Height(Wanted) /\ Height(Wanted) \in Nat /\ ViewHeight \in Nat
    BY <2>1, Heighten, ListViewAssumption DEF Totals
  <2>3. Nudged(top, o) = IF t < o THEN t ELSE IF b > o + ViewHeight THEN b - ViewHeight ELSE o
    BY <1>2 DEF Nudged
  <2> HIDE DEF t, b
  <2>4. Nudged(top, o) \in Int
    BY <2>2, <2>3
  <2>5. Height(Wanted) <= ViewHeight => t >= Nudged(top, o) /\ b <= Nudged(top, o) + ViewHeight
    BY <2>2, <2>3
  <2> QED
    BY <2>1, <2>4, <2>5 DEF t, b
<1> QED
  BY <1>1, <1>2

(* Following gives an offset. *)
LEMMA FollowIs ==
  ASSUME TableIs, NEW top, Totals(top), NEW o \in Int, NEW how
  PROVE  Followed(top, o, how) \in Int
BY MostIs DEF Followed

(* The wheel and the thumb give offsets. *)
LEMMA ScrollIs ==
  ASSUME TableIs, TypeOK, Pooled, NEW top, Totals(top), NEW how, NEW o \in Scrolled(top, how)
  PROVE  o \in Int
<1>1. MaxOffset(top) \in Nat
  BY MostIs
<1>2. offset \in Int
  BY TypesOf
<1>3. \A d \in Wheel : offset + d \in Int
  BY <1>2, ListViewAssumption
<1> QED
  BY <1>1, <1>2, <1>3 DEF Scrolled

(* A paint leaves running totals and an offset between the ends. *)
LEMMA PaintIs ==
  ASSUME TypeOK, Pooled, NEW how, Paint(how)
  PROVE  /\ Totals(mRowTop') /\ MaxOffset(mRowTop') \in Nat
         /\ offset' \in 0 .. MaxOffset(mRowTop') /\ mLastMaxOffset' = MaxOffset(mRowTop')
<1>1. TableIs
  BY TypesOf
<1>2. Totals(mRowTop')
  BY <1>1, TopsAre DEF Paint
<1>3. MaxOffset(mRowTop') \in Nat
  BY <1>1, <1>2, MostIs
<1>4. PICK o \in Scrolled(mRowTop', how) :
         offset' = Clamped(mRowTop', Followed(mRowTop', Nudged(mRowTop', o), how))
  BY DEF Paint
<1>5. o \in Int
  BY <1>1, <1>2, ScrollIs
<1>6. Nudged(mRowTop', o) \in Int
  BY <1>1, <1>2, <1>5, NudgeIs
<1>7. Followed(mRowTop', Nudged(mRowTop', o), how) \in Int
  BY <1>1, <1>2, <1>6, FollowIs
<1>8. offset' \in 0 .. MaxOffset(mRowTop')
  BY <1>1, <1>2, <1>4, <1>7, ClampIs
<1> QED
  BY <1>2, <1>3, <1>8 DEF Paint

-----------------------------------------------------------------------------
(* What a step leaves *)

(* A paint keeps the types. *)
LEMMA PaintKeepsTypes ==
  ASSUME TypeOK, Pooled, NEW how, Paint(how)
  PROVE  TypeOK' /\ Pooled'
<1> DEFINE f == First(mRowTop', offset')
           drawn == Drawn(mRowTop', offset')
<1>1. MaxOffset(mRowTop') \in Nat /\ offset' \in 0 .. mLastMaxOffset' /\ mLastMaxOffset' \in Nat
  BY PaintIs
<1>2. /\ painted' = drawn /\ mPool' = Rebound(f, drawn)
      /\ UNCHANGED <<follow, varies, table, signal, revealRow, edits>>
      /\ tableMoved' = FALSE /\ mRowsDirty' = FALSE /\ mRevealed' = Honoured
      /\ mWasAtEnd' = (2 * offset' >= 2 * mLastMaxOffset' - Pitch)
  BY DEF Paint
<1>3. drawn \subseteq Slots /\ \A s \in drawn : f + s \in DOMAIN table
  BY DEF Drawn
<1>4. DOMAIN table \subseteq 0 .. MaxRows - 1
  <2>1. Rows \in 0 .. MaxRows /\ DOMAIN table = 0 .. Rows - 1
    BY TypesOf, RowsAre
  <2> QED
    BY <2>1, ListViewAssumption
<1> HIDE DEF f, drawn
<1>5. \A s \in Slots : mPool'[s] = Unbound \/ mPool'[s].showing \in 0 .. MaxRows - 1
  <2> SUFFICES ASSUME NEW s \in Slots
               PROVE  mPool'[s] = Unbound \/ mPool'[s].showing \in 0 .. MaxRows - 1
    OBVIOUS
  <2>1. mPool'[s] = mPool[s] \/ (s \in drawn /\ mPool'[s] = Bound(f + s))
    BY <1>2 DEF Rebound
  <2>2. s \in drawn => Bound(f + s).showing \in 0 .. MaxRows - 1
    BY <1>3, <1>4 DEF Bound
  <2> QED
    BY <2>1, <2>2 DEF TypeOK
<1>6. DOMAIN mPool' = Slots
  BY <1>2 DEF Rebound
<1>7. mRevealed' \in Nothing .. MaxRows
  BY <1>2, ListViewAssumption DEF Honoured, TypeOK, Nothing
<1>8. mWasAtEnd' \in BOOLEAN
  BY <1>2
<1> QED
  BY <1>1, <1>2, <1>3, <1>5, <1>6, <1>7, <1>8 DEF TypeOK, Pooled

(* A list of equal rows that has somewhere to go is scrolled so that the   *)
(* slots the view is sure to need are all over rows of the table.          *)
LEMMA SureSlotsAreOverRows ==
  ASSUME TableIs, ~varies, NEW top, Totals(top), NEW o \in 0 .. MaxOffset(top),
         NEW s \in Nat, s < (ViewHeight + Pitch - 1) \div Pitch, s < Rows
  PROVE  First(top, o) + s < Rows /\ First(top, o) \in Nat
<1> DEFINE f == o \div Pitch
           q == (ViewHeight + Pitch - 1) \div Pitch
<1>0. Rows \in Nat /\ ViewHeight \in Nat \ {0} /\ Pitch \in Nat \ {0} /\ MaxOffset(top) \in Nat
  BY RowsAre, MostIs, ListViewAssumption
<1>1. f \in Nat /\ f * Pitch <= o /\ f * Pitch \in Nat
  BY <1>0, Quotient
<1>2. q \in Nat /\ q * Pitch <= ViewHeight + Pitch - 1 /\ q * Pitch \in Nat
  BY <1>0, Quotient
<1>3. First(top, o) = f
  BY DEF First
<1>4. s < q
  OBVIOUS
<1> HIDE DEF f, q
<1>5. s * Pitch < ViewHeight /\ s * Pitch \in Nat
  <2>1. s * Pitch + Pitch <= q * Pitch
    BY <1>0, <1>2, <1>4, Times
  <2>2. s * Pitch \in Nat
    BY <1>0
  <2> QED
    BY <1>0, <1>2, <2>1, <2>2
<1>6. CASE MaxOffset(top) = 0
  <2>1. f * Pitch <= 0
    BY <1>0, <1>1, <1>6
  <2>2. 0 * Pitch = 0 /\ (0 + 1) * Pitch = Pitch
    BY <1>0
  <2>3. f * Pitch < (0 + 1) * Pitch
    BY <1>0, <1>1, <2>1, <2>2
  <2>4. f < 0 + 1
    BY <1>0, <1>1, <2>3, Times
  <2> QED
    BY <1>0, <1>1, <1>3, <2>4
<1>7. CASE MaxOffset(top) = top[Rows] - ViewHeight
  <2>1. top[Rows] = Rows * Pitch /\ Rows * Pitch \in Nat
    <3>1. Rows \in 0 .. Rows
      BY <1>0
    <3> QED
      BY <1>0, <3>1 DEF Totals
  <2>2. (f + s) * Pitch = f * Pitch + s * Pitch
    BY <1>0, <1>1, Times
  <2>3. (f + s) * Pitch < Rows * Pitch
    BY <1>0, <1>1, <1>5, <1>7, <2>1, <2>2
  <2>4. f + s < Rows
    <3>1. f + s \in Int /\ Rows \in Int
      BY <1>0, <1>1
    <3> QED
      BY <1>0, <2>3, <3>1, Times
  <2> QED
    BY <1>1, <1>3, <2>4
<1> QED
  BY <1>6, <1>7, MostIs

(* A paint leaves everything it draws where it belongs and current. *)
LEMMA PaintKeepsIInv ==
  ASSUME IInv, NEW how, Paint(how)
  PROVE  IInv'
<1> DEFINE f == First(mRowTop', offset')
           drawn == Drawn(mRowTop', offset')
<1>0. TypeOK /\ Pooled /\ Deep /\ Fresh
  BY DEF IInv
<1>1. TypeOK' /\ Pooled'
  BY <1>0, PaintKeepsTypes
<1>2. /\ painted' = drawn /\ mPool' = Rebound(f, drawn)
      /\ table' = table /\ varies' = varies /\ signal' = signal
      /\ tableMoved' = FALSE /\ mRowsDirty' = FALSE
      /\ mWasAtEnd' = (2 * offset' >= 2 * mLastMaxOffset' - Pitch)
  BY DEF Paint
<1>3. /\ Totals(mRowTop') /\ TableIs /\ offset' \in Nat
      /\ offset' \in 0 .. MaxOffset(mRowTop') /\ MaxOffset(mRowTop') \in Nat
  <2>1. /\ Totals(mRowTop') /\ MaxOffset(mRowTop') \in Nat /\ offset' \in 0 .. MaxOffset(mRowTop')
    BY <1>0, PaintIs
  <2> QED
    BY <1>0, <2>1, TypesOf
<1>4. f \in Nat
  BY <1>3, FirstIsInView
<1>5. drawn = {s \in Slots : s < Fits(mRowTop', offset') /\ f + s \in DOMAIN table}
  BY DEF Drawn
<1>6. First(mRowTop, offset)' = f /\ Drawn(mRowTop, offset)' = drawn /\ Totals(mRowTop)'
  <2>1. Rows' = Rows
    BY <1>2 DEF Rows
  <2>2. \A i : Height(i)' = Height(i)
    BY <1>2 DEF Height
  <2>3. First(mRowTop, offset)' = f
    BY <1>2 DEF First
  <2>4. RowsOver(mRowTop, offset)' = RowsOver(mRowTop', offset')
    BY <1>2, <2>3 DEF RowsOver
  <2>5. Fits(mRowTop, offset)' = Fits(mRowTop', offset')
    BY <1>2, <2>4 DEF Fits
  <2>6. Drawn(mRowTop, offset)' = drawn
    BY <1>2, <1>5, <2>3, <2>5 DEF Drawn
  <2>7. Totals(mRowTop)'
    BY <1>2, <1>3, <2>1, <2>2 DEF Totals
  <2> QED
    BY <2>3, <2>6, <2>7
<1> HIDE DEF f, drawn
<1>7. ASSUME NEW s \in Slots
      PROVE  mPool'[s] = IF s \in drawn /\ (mPool[s].showing # f + s \/ tableMoved \/ mRowsDirty)
                         THEN Bound(f + s) ELSE mPool[s]
  BY <1>2 DEF Rebound
<1>8. \A s \in drawn : s \in Slots /\ f + s \in DOMAIN table /\ mPool'[s].showing = f + s
  <2> SUFFICES ASSUME NEW s \in drawn
               PROVE  s \in Slots /\ f + s \in DOMAIN table /\ mPool'[s].showing = f + s
    OBVIOUS
  <2>1. s \in Slots /\ f + s \in DOMAIN table
    BY <1>5
  <2>2. mPool'[s] = Bound(f + s) \/ (mPool'[s] = mPool[s] /\ mPool[s].showing = f + s)
    BY <1>7, <2>1
  <2>3. Bound(f + s).showing = f + s
    BY DEF Bound
  <2> QED
    BY <2>1, <2>2, <2>3
<1>9. Placed'
  BY <1>2, <1>6, <1>8 DEF Placed, Settled
<1>10. AtEnd'
  BY <1>2 DEF AtEnd
<1>11. Deep'
  <2> SUFFICES ASSUME NEW s \in Slots, mPool'[s].showing # NoRow
               PROVE  mPool'[s].showing >= s
    BY DEF Deep
  <2>1. CASE s \in drawn
    BY <1>4, <1>8, <2>1, SlotsAre
  <2>2. CASE s \notin drawn
    BY <1>0, <1>7, <2>2 DEF Deep
  <2> QED
    BY <2>1, <2>2
<1>12. Fresh'
  <2> SUFFICES ASSUME ~varies', NEW s \in Slots, s < (ViewHeight + Pitch - 1) \div Pitch,
                      mPool'[s].showing \in DOMAIN table'
               PROVE  Current(s)'
    BY DEF Fresh
  <2>0. ~varies /\ mPool'[s].showing \in DOMAIN table /\ DOMAIN table = 0 .. Rows - 1 /\ Rows \in Nat
    BY <1>2, <1>3, RowsAre
  <2>1. CASE s \in drawn
    <3>1. CASE mPool[s].showing # f + s \/ tableMoved \/ mRowsDirty
      <4>1. mPool'[s] = Bound(f + s)
        BY <1>7, <2>1, <3>1
      <4> QED
        BY <1>2, <1>8, <2>1, <4>1 DEF Current, Bound
    <3>2. CASE ~(mPool[s].showing # f + s \/ tableMoved \/ mRowsDirty)
      <4>1. mPool'[s] = mPool[s]
        BY <1>7, <3>2
      <4>2. Settled /\ mPool[s].showing \in DOMAIN table
        BY <1>8, <2>1, <3>2 DEF Settled
      <4>3. Current(s)
        BY <1>0, <2>0, <4>2 DEF Fresh
      <4> QED
        BY <1>2, <4>1, <4>3 DEF Current
    <3> QED
      BY <3>1, <3>2
  <2>2. CASE s \notin drawn
    <3>1. mPool'[s] = mPool[s]
      BY <1>7, <2>2
    <3>2. mPool[s].showing \in 0 .. Rows - 1
      BY <2>0, <3>1
    <3>3. s \in Nat /\ s <= mPool[s].showing
      <4>1. mPool[s].showing # NoRow
        BY <3>2 DEF NoRow
      <4> QED
        BY <1>0, <4>1, SlotsAre DEF Deep
    <3>4. s < Rows
      BY <2>0, <3>2, <3>3
    <3>5. f + s < Rows
      BY <1>3, <2>0, <3>3, <3>4, SureSlotsAreOverRows DEF f
    <3>6. f + s \in DOMAIN table
      BY <1>4, <2>0, <3>3, <3>5
    <3>7. s < Fits(mRowTop', offset')
      <4> DEFINE q == (ViewHeight + Pitch - 1) \div Pitch
      <4>1. Fits(mRowTop', offset') = q + 1
        BY <2>0 DEF Fits
      <4>2. q \in Int /\ s < q
        BY ListViewAssumption
      <4> HIDE DEF q
      <4> QED
        BY <3>3, <4>1, <4>2
    <3> QED
      BY <1>5, <2>2, <3>6, <3>7
  <2> QED
    BY <2>1, <2>2
<1> QED
  BY <1>1, <1>9, <1>10, <1>11, <1>12 DEF IInv

(* A list that was never painted satisfies the invariant. *)
LEMMA InitIInv == Init => IInv
<1> SUFFICES ASSUME Init PROVE IInv
  OBVIOUS
<1>1. \A s \in Slots : mPool[s] = Unbound
  BY DEF Init
<1>2. TypeOK
  <2>1. \E n \in 0 .. MaxRows : table \in [0 .. n - 1 -> Cells]
    BY DEF Init, BlankRows, Cells
  <2>2. /\ offset \in 0 .. mLastMaxOffset /\ edits \in 0 .. MaxEdits /\ signal \in {0, 1}
        /\ revealRow \in Nothing .. MaxRows /\ mRevealed \in Nothing .. MaxRows
    BY ListViewAssumption DEF Init, Nothing
  <2>3. /\ follow \in BOOLEAN /\ varies \in BOOLEAN /\ painted \subseteq Slots
        /\ tableMoved \in BOOLEAN /\ mRowsDirty \in BOOLEAN /\ mWasAtEnd \in BOOLEAN
    BY DEF Init
  <2> QED
    BY <1>1, <2>1, <2>2, <2>3 DEF TypeOK
<1>3. Pooled
  BY DEF Init, Pooled
<1>4. Placed
  BY DEF Init, Placed
<1>5. AtEnd
  <2>1. 2 * offset >= 2 * mLastMaxOffset - Pitch
    BY ListViewAssumption DEF Init
  <2>2. mWasAtEnd = TRUE
    BY DEF Init
  <2> QED
    BY <2>1, <2>2 DEF AtEnd
<1>6. Deep
  BY <1>1 DEF Deep, Unbound
<1>7. Fresh
  BY DEF Init, Fresh, Settled
<1> QED
  BY <1>2, <1>3, <1>4, <1>5, <1>6, <1>7 DEF IInv

(* What an edit leaves alone. *)
LEMMA EditKeepsIInv ==
  ASSUME IInv, Kept' = Kept, painted' = {}, ~Settled', edits' \in 0 .. MaxEdits,
         signal' \in {0, 1}, revealRow' \in Nothing .. MaxRows, tableMoved' \in BOOLEAN,
         mRowsDirty' \in BOOLEAN, \E n \in 0 .. MaxRows : table' \in [0 .. n - 1 -> Cells]
  PROVE  IInv'
<1>1. TypeOK'
  BY DEF IInv, TypeOK, Kept
<1>2. Pooled'
  BY DEF IInv, Pooled, Kept
<1>3. Placed'
  BY DEF Placed
<1>4. AtEnd'
  BY DEF IInv, AtEnd, Kept
<1>5. Deep'
  BY DEF IInv, Deep, Kept
<1>6. Fresh'
  BY DEF Fresh
<1> QED
  BY <1>1, <1>2, <1>3, <1>4, <1>5, <1>6 DEF IInv

(* A step that leaves the list and the table alone. *)
LEMMA SameListSameIInv ==
  ASSUME IInv, revealRow' \in Nothing .. MaxRows, edits' \in 0 .. MaxEdits,
         UNCHANGED <<follow, varies, table, tableMoved, signal, mRowsDirty, mRowTop, mPool, offset,
                     mWasAtEnd, mLastMaxOffset, mRevealed, painted>>
  PROVE  IInv'
<1>1. TypeOK' /\ Pooled'
  BY DEF IInv, TypeOK, Pooled
<1>2. Rows' = Rows /\ \A i : Height(i)' = Height(i)
  BY DEF Rows, Height
<1>3. Totals(mRowTop)' = Totals(mRowTop)
  BY <1>2 DEF Totals
<1>4. First(mRowTop, offset)' = First(mRowTop, offset)
  BY DEF First
<1>5. Fits(mRowTop, offset)' = Fits(mRowTop, offset)
  BY <1>4 DEF Fits, RowsOver
<1>6. Drawn(mRowTop, offset)' = Drawn(mRowTop, offset)
  BY <1>4, <1>5 DEF Drawn
<1>7. Placed'
  BY <1>3, <1>4, <1>6 DEF IInv, Placed, Settled
<1>8. AtEnd' /\ Deep'
  BY DEF IInv, AtEnd, Deep
<1>9. \A s : Current(s)' = Current(s)
  BY DEF Current
<1>10. Fresh'
  BY <1>9 DEF IInv, Fresh, Settled
<1> QED
  BY <1>1, <1>7, <1>8, <1>10 DEF IInv

(* Every step keeps it. *)
LEMMA NextIInv == IInv /\ [Next]_vars => IInv'
<1> SUFFICES ASSUME IInv, [Next]_vars PROVE IInv'
  OBVIOUS
<1>0. TypeOK /\ MaxEdits \in Nat /\ MaxRows \in Nat
  BY ListViewAssumption DEF IInv
<1>1. Editing => edits' \in 0 .. MaxEdits
  BY <1>0 DEF Editing, TypeOK
<1>2. ASSUME NEW i \in 0 .. MaxRows - 1, NEW v \in Heights, SetCell(i, v)
      PROVE  IInv'
  <2>1. PICK n \in 0 .. MaxRows : table \in [0 .. n - 1 -> Cells]
    BY <1>0 DEF TypeOK
  <2>2. table' \in [0 .. n - 1 -> Cells]
    BY <1>2, <2>1 DEF SetCell, Cells
  <2>3. ~Settled' /\ Kept' = Kept /\ painted' = {} /\ tableMoved' \in BOOLEAN
    BY <1>2 DEF SetCell, Settled, Kept
  <2>4. signal' \in {0, 1} /\ mRowsDirty' \in BOOLEAN /\ revealRow' \in Nothing .. MaxRows
    BY <1>0, <1>2 DEF SetCell, TypeOK
  <2> QED
    BY <1>1, <1>2, <2>2, <2>3, <2>4, EditKeepsIInv DEF SetCell
<1>3. ASSUME NEW n \in 0 .. MaxRows, Resize(n)
      PROVE  IInv'
  <2>1. PICK m \in 0 .. MaxRows : table \in [0 .. m - 1 -> Cells]
    BY <1>0 DEF TypeOK
  <2>2. table' \in [0 .. n - 1 -> Cells]
    BY <1>3, <2>1 DEF Resize, Cells
  <2>3. ~Settled' /\ Kept' = Kept /\ painted' = {} /\ tableMoved' \in BOOLEAN
    BY <1>3 DEF Resize, Settled, Kept
  <2>4. signal' \in {0, 1} /\ mRowsDirty' \in BOOLEAN /\ revealRow' \in Nothing .. MaxRows
    BY <1>0, <1>3 DEF Resize, TypeOK
  <2> QED
    BY <1>1, <1>3, <2>2, <2>3, <2>4, EditKeepsIInv DEF Resize
<1>4. CASE WriteSignal
  <2>1. ~Settled' /\ Kept' = Kept /\ painted' = {} /\ mRowsDirty' \in BOOLEAN
    BY <1>4 DEF WriteSignal, Settled, Kept
  <2>2. /\ signal' \in {0, 1} /\ tableMoved' \in BOOLEAN /\ revealRow' \in Nothing .. MaxRows
        /\ \E n \in 0 .. MaxRows : table' \in [0 .. n - 1 -> Cells]
    BY <1>0, <1>4 DEF WriteSignal, TypeOK
  <2> QED
    BY <1>1, <1>4, <2>1, <2>2, EditKeepsIInv DEF WriteSignal
<1>5. ASSUME NEW r \in Nothing .. MaxRows, Reveal(r)
      PROVE  IInv'
  <2>1. /\ revealRow' \in Nothing .. MaxRows /\ edits' \in 0 .. MaxEdits
        /\ UNCHANGED <<Kept, table, tableMoved, signal, mRowsDirty, painted>>
    BY <1>1, <1>5 DEF Reveal
  <2> QED
    BY <2>1, SameListSameIInv DEF Kept, TypeOK
<1>6. ASSUME NEW how \in {"none", "wheel", "drag"}, Paint(how)
      PROVE  IInv'
  BY <1>6, PaintKeepsIInv
<1>7. CASE UNCHANGED vars
  BY <1>0, <1>7, SameListSameIInv DEF vars, TypeOK
<1> QED
  BY <1>2, <1>3, <1>4, <1>5, <1>6, <1>7 DEF Next

-----------------------------------------------------------------------------
(* What the list promises *)

(* The inductive invariant holds: what the last paint drew is where it     *)
(* belongs, and no slot the view is sure to need is stale.                 *)
THEOREM IInvHolds == Spec => []IInv
<1> QED
  BY InitIInv, NextIInv, PTL DEF Spec

(* With a pool that is large enough a paint never leaves a hole, draws a   *)
(* row twice, or shows something old above the last slot (ListView::paint). *)
THEOREM RowsAreAlwaysTheTables == PoolIsEnough /\ Spec => []RowsAreTheTables
<1>1. PoolIsEnough /\ IInv => RowsAreTheTables
  BY IInvIsEnough
<1>2. CASE PoolIsEnough
  BY <1>1, <1>2, IInvHolds, PTL
<1> QED
  BY <1>2

(* Every variable keeps its type and the list is never scrolled past its   *)
(* end, however small the pool (the clamp at the end of ListView::paint).  *)
THEOREM TypesHold == Spec => []TypeOK
<1>1. IInv => TypeOK
  BY DEF IInv
<1> QED
  BY <1>1, IInvHolds, PTL

(* A row asked for that fits is wholly on screen by the time the request   *)
(* is marked as honoured (revealRow in ListView::paint), unless the list   *)
(* was following content that grew.                                        *)
THEOREM ARevealedRowIsSeen == Spec => RevealedIsInView
<1> DEFINE Kind == Honours /\ Height(Wanted) <= ViewHeight /\ ~(follow /\ mWasAtEnd /\ Grew(mRowTop'))
           Seen == /\ mRowTop'[Wanted] >= offset'
                   /\ mRowTop'[Wanted] + Height(Wanted) <= offset' + ViewHeight
<1>1. ASSUME IInv, [Next]_vars, Kind
      PROVE  Seen
  <2>1. PICK how \in {"none", "wheel", "drag"} : Paint(how)
    BY <1>1 DEF Honours, Next, vars, SetCell, Resize, WriteSignal, Reveal, Kept
  <2>2. TypeOK /\ Pooled /\ TableIs
    BY <1>1, TypesOf DEF IInv
  <2> DEFINE top == mRowTop'
             most == MaxOffset(mRowTop')
  <2>3. Totals(top) /\ most \in Nat
    BY <2>1, <2>2, PaintIs
  <2>4. Asked
    BY <1>1, <2>1 DEF Honours, Paint, Honoured
  <2>5. PICK o \in Scrolled(top, how) :
           offset' = Clamped(top, Followed(top, Nudged(top, o), how))
    BY <2>1 DEF Paint
  <2> DEFINE n == Nudged(top, o)
  <2>6. Followed(top, n, how) = n
    BY <1>1 DEF Followed
  <2>7. o \in Int
    BY <2>2, <2>3, ScrollIs
  <2>8. /\ n \in Int /\ Wanted \in 0 .. Rows - 1
        /\ top[Wanted] >= n /\ top[Wanted] + Height(Wanted) <= n + ViewHeight
    <3> HIDE DEF top
    <3> QED
      BY <1>1, <2>2, <2>3, <2>4, <2>7, NudgeIs
  <2>9. top[Wanted] + Height(Wanted) <= most + ViewHeight
    <3>1. Rows \in Nat /\ Rows \in 0 .. Rows /\ Wanted \in 0 .. Rows /\ Wanted < Rows
      BY <2>2, <2>8, RowsAre
    <3>2. top[Wanted] + Height(Wanted) <= top[Rows]
      <4> HIDE DEF top
      <4> QED
        BY <2>2, <2>3, <3>1, TotalsGrow
    <3>3. top[Rows] <= most + ViewHeight /\ top[Rows] \in Nat
      BY <2>2, <2>3, MostIs
    <3>4. top[Wanted] \in Nat /\ Height(Wanted) \in Nat /\ ViewHeight \in Nat
      BY <2>2, <2>3, <3>1, Heighten, ListViewAssumption DEF Totals
    <3> HIDE DEF top, most
    <3> QED
      BY <2>3, <3>2, <3>3, <3>4
  <2>10. offset' = IF n < 0 THEN 0 ELSE IF n > most THEN most ELSE n
    BY <2>5, <2>6 DEF Clamped
  <2>11. top[Wanted] \in Nat /\ Height(Wanted) \in Nat /\ ViewHeight \in Nat
    <3>1. Wanted \in 0 .. Rows
      BY <2>2, <2>8, RowsAre
    <3> QED
      BY <2>2, <2>3, <3>1, Heighten, ListViewAssumption DEF Totals
  <2> HIDE DEF top, most, n
  <2>12. top[Wanted] >= offset' /\ top[Wanted] + Height(Wanted) <= offset' + ViewHeight
    BY <2>3, <2>8, <2>9, <2>10, <2>11
  <2> QED
    BY <2>12 DEF top
<1>2. IInv /\ [Next]_vars => [Kind => Seen]_vars
  BY <1>1
<1> QED
  BY <1>2, IInvHolds, PTL DEF Spec, RevealedIsInView

(* A reader at the end stays there and one who scrolled away is left alone *)
(* (mWasAtEnd in ListView::paint).                                         *)
THEOREM FollowingIsAMood == Spec => FollowIsAMood
<1> DEFINE Left == Paint("none") /\ ~Asked
           Mood == IF follow /\ mWasAtEnd THEN mWasAtEnd' ELSE offset' = Clamped(mRowTop', offset)
<1>1. ASSUME IInv, Left
      PROVE  Mood
  <2>1. TypeOK /\ Pooled /\ TableIs /\ AtEnd /\ Paint("none")
    BY <1>1, TypesOf DEF IInv
  <2> DEFINE top == mRowTop'
             most == MaxOffset(mRowTop')
  <2>2. Totals(top) /\ most \in Nat /\ mLastMaxOffset' = most
    BY <2>1, PaintIs
  <2>3. Scrolled(top, "none") = {offset}
    BY DEF Scrolled
  <2>4. offset' = Clamped(top, Followed(top, Nudged(top, offset), "none"))
    BY <2>1, <2>3 DEF Paint
  <2>5. Nudged(top, offset) = offset
    BY <1>1 DEF Nudged
  <2>6. offset \in Nat /\ mLastMaxOffset \in Nat /\ Pitch \in Nat \ {0} /\ offset <= mLastMaxOffset
    BY <2>1, TypesOf, ListViewAssumption
  <2>7. mWasAtEnd' = (2 * offset' >= 2 * most - Pitch)
    BY <2>1, <2>2 DEF Paint
  <2>8. CASE follow /\ mWasAtEnd
    <3>1. 2 * offset >= 2 * mLastMaxOffset - Pitch
      BY <2>1, <2>8 DEF AtEnd
    <3>2. CASE most > mLastMaxOffset
      <4>1. Followed(top, offset, "none") = most
        BY <2>8, <3>2 DEF Followed, Grew
      <4>2. offset' = most
        BY <2>2, <2>4, <2>5, <4>1 DEF Clamped
      <4> HIDE DEF top, most
      <4>3. 2 * offset' >= 2 * most - Pitch
        BY <2>2, <2>6, <4>2
      <4> QED
        BY <2>7, <2>8, <4>3
    <3>3. CASE ~(most > mLastMaxOffset)
      <4>1. Followed(top, offset, "none") = offset
        BY <3>3 DEF Followed, Grew
      <4>2. offset' = IF offset < 0 THEN 0 ELSE IF offset > most THEN most ELSE offset
        BY <2>4, <2>5, <4>1 DEF Clamped
      <4> HIDE DEF top, most
      <4>3. 2 * offset' >= 2 * most - Pitch
        BY <2>2, <2>6, <3>1, <3>3, <4>2
      <4> QED
        BY <2>7, <2>8, <4>3
    <3> QED
      BY <3>2, <3>3
  <2>9. CASE ~(follow /\ mWasAtEnd)
    <3>1. Followed(top, offset, "none") = offset
      BY <2>9 DEF Followed
    <3> QED
      BY <2>4, <2>5, <2>9, <3>1
  <2> QED
    BY <2>8, <2>9
<1>2. IInv /\ [Next]_vars => [Left => Mood]_vars
  BY <1>1
<1> QED
  BY <1>2, IInvHolds, PTL DEF Spec, FollowIsAMood
=============================================================================
