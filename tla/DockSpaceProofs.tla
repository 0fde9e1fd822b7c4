--------------------------- MODULE DockSpaceProofs ---------------------------
(***************************************************************************)
(* The dock space is consistent between any two frames, for any panels,    *)
(* hints, files, presses, drops and closes (theorems at the end).          *)
(*                                                                         *)
(* What every operation makes of a tree is proved first: the links agree,  *)
(* a rank falls from each split to its sides, each panel is in one place,  *)
(* no pane goes blank.  The rank is what the recursion of Gather needs: it *)
(* shows that the function exists and that its values hold every pane.     *)
(* Then what pushing, pulling, placing and removing make of the tiles: none *)
(* moves sideways but the one in the hand.  Then each part of update, from *)
(* seeding to the closes at its end, keeps a space Good and changes only   *)
(* what it says; put together that is a walk.  Loops of the model are      *)
(* functions of how often they went round, and a set that a round never    *)
(* leaves holds their result.                                              *)
(***************************************************************************)
EXTENDS DockSpace, FiniteSetTheorems, WellFoundedInduction, TLAPS

-----------------------------------------------------------------------------
(* Numbers, finite sets and sequences.                                      *)

(* A set of numbers that holds 0 and goes on up to n holds all up to n.     *)
LEMMA UpTo ==
  ASSUME NEW n \in Nat, NEW T, 0 \in T, \A i \in 0 .. n - 1 : i \in T => i + 1 \in T
  PROVE  \A i \in 0 .. n : i \in T
<1> DEFINE less == {p \in Nat \X Nat : p[1] < p[2]}
           out  == {i \in 0 .. n : i \notin T}
<1>1. IsWellFoundedOn(less, Nat)
  BY NatLessThanWellFounded DEF OpToRel
<1> HIDE DEF less
<1>2. SUFFICES ASSUME out # {} PROVE FALSE
  OBVIOUS
<1>3. PICK i \in out : \A j \in out : ~(<<j, i>> \in less)
  <2>1. out \subseteq Nat
    OBVIOUS
  <2> HIDE DEF out
  <2> QED
    BY <1>1, <1>2, <2>1, WFMin
<1>4. i \in 0 .. n /\ i \notin T /\ i # 0
  BY <1>3
<1>5. i - 1 \in 0 .. n - 1 /\ <<i - 1, i>> \in less
  BY <1>4 DEF less
<1>6. i - 1 \in T
  BY <1>3, <1>5
<1> QED
  BY <1>4, <1>5, <1>6

(* A set of numbers that is not empty has a least one.                      *)
LEMMA MinOf ==
  ASSUME NEW S, S \subseteq Nat, S # {}
  PROVE  Min(S) \in S /\ \A y \in S : Min(S) <= y
<1> DEFINE less == {p \in Nat \X Nat : p[1] < p[2]}
<1>1. IsWellFoundedOn(less, Nat)
  BY NatLessThanWellFounded DEF OpToRel
<1>2. PICK x \in S : \A y \in S : ~(<<y, x>> \in less)
  <2> HIDE DEF less
  <2> QED
    BY <1>1, WFMin
<1>3. \A y \in S : x <= y
  <2> SUFFICES ASSUME NEW y \in S PROVE x <= y
    OBVIOUS
  <2>1. ~(y < x)
    BY <1>2
  <2> QED
    BY <2>1
<1> QED
  BY <1>3 DEF Min

(* There is always an address that is free.                                 *)
LEMMA FreeIsFree ==
  ASSUME NEW S, IsFiniteSet(S), S \subseteq Nat \ {0}
  PROVE  Free(S) \in Nat \ {0} /\ Free(S) \notin S
<1>1. Cardinality(S) \in Nat
  BY FS_CardinalityType
<1> DEFINE k == Cardinality(S) + 1
<1>2. \E n \in 1 .. k : n \notin S
  <2>1. SUFFICES ASSUME 1 .. k \subseteq S PROVE FALSE
    OBVIOUS
  <2>2. Cardinality(1 .. k) = k
    BY <1>1, FS_Interval
  <2>3. Cardinality(1 .. k) <= Cardinality(S)
    BY <2>1, FS_Subset
  <2> QED
    BY <1>1, <2>2, <2>3
<1>3. Free(S) \in 1 .. k /\ Free(S) \notin S
  BY <1>2 DEF Free
<1> QED
  BY <1>1, <1>3

LEMMA ToSetOf ==
  ASSUME NEW P, NEW s \in Seq(P)
  PROVE  ToSet(s) = {s[i] : i \in 1 .. Len(s)} /\ ToSet(s) \subseteq P
<1>1. DOMAIN s = 1 .. Len(s)
  OBVIOUS
<1> QED
  BY <1>1 DEF ToSet

(* The place of the first element of a set in a sequence.                   *)
LEMMA FirstPlace ==
  ASSUME NEW P, NEW s \in Seq(P), NEW S
  PROVE  /\ FirstAt(s, S) = 0 => ToSet(s) \intersect S = {}
         /\ FirstAt(s, S) # 0 => FirstAt(s, S) \in 1 .. Len(s) /\ s[FirstAt(s, S)] \in S
         /\ FirstAt(s, S) \in 0 .. Len(s)
<1> DEFINE I == {i \in 1 .. Len(s) : s[i] \in S}
<1>1. FirstAt(s, S) = IF I # {} THEN Min(I) ELSE 0
  BY DEF FirstAt, SelectInSeq
<1>2. I # {} => Min(I) \in I
  <2>1. I \subseteq Nat
    OBVIOUS
  <2> HIDE DEF I
  <2> QED
    BY <2>1, MinOf
<1>3. I = {} => ToSet(s) \intersect S = {}
  BY ToSetOf
<1> QED
  BY <1>1, <1>2, <1>3

(* One element taken out of a sequence.                                     *)
TakenOut(s, i, r) ==
  /\ Len(r) = Len(s) - 1
  /\ \A j \in 1 .. Len(s) - 1 : r[j] = IF j < i THEN s[j] ELSE s[j + 1]
LEMMA TakeOut ==
  ASSUME NEW P, NEW s \in Seq(P), NEW i \in 1 .. Len(s)
  PROVE  RemoveAt(s, i) \in Seq(P) /\ TakenOut(s, i, RemoveAt(s, i))
<1>1. SubSeq(s, 1, i - 1) \in Seq(P) /\ Len(SubSeq(s, 1, i - 1)) = i - 1
      /\ \A j \in 1 .. i - 1 : SubSeq(s, 1, i - 1)[j] = s[j]
  OBVIOUS
<1>2. SubSeq(s, i + 1, Len(s)) \in Seq(P) /\ Len(SubSeq(s, i + 1, Len(s))) = Len(s) - i
      /\ \A j \in 1 .. Len(s) - i : SubSeq(s, i + 1, Len(s))[j] = s[j + i]
  OBVIOUS
<1> DEFINE a == SubSeq(s, 1, i - 1)
           b == SubSeq(s, i + 1, Len(s))
<1> HIDE DEF a, b
<1>3. RemoveAt(s, i) = a \o b
  BY DEF RemoveAt, a, b
<1>4. a \in Seq(P) /\ b \in Seq(P) /\ Len(a) = i - 1 /\ Len(b) = Len(s) - i /\ Len(s) \in Nat
  BY <1>1, <1>2 DEF a, b
<1>5. a \o b \in Seq(P) /\ Len(a \o b) = Len(s) - 1
  BY <1>4
<1>6. ASSUME NEW j \in 1 .. Len(s) - 1
      PROVE  (a \o b)[j] = IF j < i THEN s[j] ELSE s[j + 1]
  <2>1. CASE j < i
    <3>1. j \in 1 .. i - 1
      BY <1>6, <2>1
    <3>2. (a \o b)[j] = a[j]
      BY <1>4, <3>1
    <3> QED
      BY <1>1, <2>1, <3>1, <3>2 DEF a
  <2>2. CASE ~(j < i)
    <3>1. j - (i - 1) \in 1 .. Len(s) - i /\ (j - (i - 1)) + i = j + 1
      BY <1>4, <2>2
    <3>2. (a \o b)[j] = b[j - (i - 1)]
      BY <1>4, <1>6, <2>2
    <3> QED
      BY <1>2, <2>2, <3>1, <3>2 DEF b
  <2> QED
    BY <2>1, <2>2
<1> QED
  BY <1>3, <1>5, <1>6 DEF TakenOut

(* Nothing else is lost, and it is not there any more unless it is one of    *)
(* those, S, that may be there more than once.                               *)
LessOne(A, x, S, B) == A \ {x} \subseteq B /\ B \subseteq A /\ (x \notin S => x \notin B)
LEMMA LessOneIs ==
  ASSUME NEW A, NEW x, NEW S, NEW B, LessOne(A, x, S, B)
  PROVE  A \ {x} \subseteq B /\ B \subseteq A /\ (x \notin S => B = A \ {x}) /\ B \union {x} = A \union {x}
  BY DEF LessOne

LEMMA TakeOutOnce ==
  ASSUME NEW P, NEW S, NEW s \in Seq(P), NEW i \in 1 .. Len(s), Once(s, S)
  PROVE  Once(RemoveAt(s, i), S) /\ LessOne(ToSet(s), s[i], S, ToSet(RemoveAt(s, i)))
<1> DEFINE r == RemoveAt(s, i)
<1>1. r \in Seq(P) /\ TakenOut(s, i, r)
  BY TakeOut
<1>2. DOMAIN s = 1 .. Len(s) /\ DOMAIN r = 1 .. Len(s) - 1
  BY <1>1 DEF TakenOut
<1> HIDE DEF r
<1>3. \A j \in 1 .. Len(s) - 1 : r[j] = IF j < i THEN s[j] ELSE s[j + 1]
  BY <1>1 DEF TakenOut
<1> DEFINE from(j) == IF j < i THEN j ELSE j + 1
<1>8. \A j \in 1 .. Len(s) - 1 : from(j) \in 1 .. Len(s) /\ from(j) # i /\ r[j] = s[from(j)]
  BY <1>3
<1>9. \A j, k \in 1 .. Len(s) - 1 : from(j) = from(k) => j = k
  OBVIOUS
<1> HIDE DEF from
<1>4. Once(r, S)
  <2> SUFFICES ASSUME NEW j \in 1 .. Len(s) - 1, NEW k \in 1 .. Len(s) - 1, r[j] = r[k]
               PROVE  j = k \/ r[j] \in S
    BY <1>1 DEF Once, TakenOut
  <2>1. from(j) = from(k) \/ s[from(j)] \in S
    BY <1>8 DEF Once
  <2> QED
    BY <2>1, <1>8, <1>9
<1>5. ASSUME NEW x \in ToSet(r)
      PROVE  x \in ToSet(s) /\ (x = s[i] => x \in S)
  <2>1. PICK j \in 1 .. Len(s) - 1 : x = r[j]
    BY <1>2 DEF ToSet
  <2>2. PICK k \in 1 .. Len(s) : x = s[k] /\ k # i
    BY <1>8, <2>1
  <2> QED
    BY <1>2, <2>2 DEF Once, ToSet
<1>6. ASSUME NEW x \in ToSet(s) \ {s[i]}
      PROVE  x \in ToSet(r)
  <2>1. PICK j \in 1 .. Len(s) : x = s[j] /\ j # i
    BY <1>2 DEF ToSet
  <2>2. CASE j < i
    BY <1>2, <1>3, <2>1, <2>2 DEF ToSet
  <2>3. CASE j > i
    <3>1. j - 1 \in 1 .. Len(s) - 1 /\ ~(j - 1 < i) /\ (j - 1) + 1 = j
      BY <2>1, <2>3
    <3>2. r[j - 1] = s[j]
      BY <1>3, <3>1
    <3> QED
      BY <1>2, <2>1, <3>1, <3>2 DEF ToSet
  <2> QED
    BY <2>1, <2>2, <2>3
<1> QED
  BY <1>4, <1>5, <1>6 DEF r, LessOne

LEMMA AppendOne ==
  ASSUME NEW P, NEW S, NEW s \in Seq(P), NEW x \in P
  PROVE  /\ Append(s, x) \in Seq(P) /\ ToSet(Append(s, x)) = ToSet(s) \union {x}
         /\ Once(s, S) /\ (x \in S \/ x \notin ToSet(s)) => Once(Append(s, x), S)
         /\ Append(s, x) # <<>>
<1>1. Append(s, x) \in Seq(P) /\ Len(Append(s, x)) = Len(s) + 1 /\ Len(s) \in Nat
      /\ Append(s, x)[Len(s) + 1] = x /\ \A j \in 1 .. Len(s) : Append(s, x)[j] = s[j]
  OBVIOUS
<1> DEFINE a == Append(s, x)
<1> HIDE DEF a
<1>2. ToSet(a) = {a[i] : i \in 1 .. Len(s) + 1} /\ ToSet(s) = {s[i] : i \in 1 .. Len(s)}
  BY <1>1, ToSetOf DEF a
<1>3. ToSet(a) = ToSet(s) \union {x}
  BY <1>1, <1>2 DEF a
<1>4. Once(s, S) /\ (x \in S \/ x \notin ToSet(s)) => Once(a, S)
  <2>1. Len(a) = Len(s) + 1 /\ a[Len(s) + 1] = x /\ \A j \in 1 .. Len(s) : a[j] = s[j]
    BY <1>1 DEF a
  <2> QED
    BY <1>1, <1>2, <2>1 DEF Once
<1> QED
  BY <1>1, <1>3, <1>4 DEF a

LEMMA JoinTwo ==
  ASSUME NEW P, NEW a \in Seq(P), NEW b \in Seq(P)
  PROVE  a \o b \in Seq(P) /\ ToSet(a \o b) = ToSet(a) \union ToSet(b) /\ (a # <<>> => a \o b # <<>>)
<1>1. a \o b \in Seq(P) /\ Len(a \o b) = Len(a) + Len(b) /\ Len(a) \in Nat /\ Len(b) \in Nat
  OBVIOUS
<1>2. /\ \A i \in 1 .. Len(a) : (a \o b)[i] = a[i]
      /\ \A i \in 1 .. Len(b) : (a \o b)[Len(a) + i] = b[i]
  OBVIOUS
<1> DEFINE c == a \o b
<1> HIDE DEF c
<1>3. /\ ToSet(a) = {a[i] : i \in 1 .. Len(a)} /\ ToSet(b) = {b[i] : i \in 1 .. Len(b)}
      /\ ToSet(c) = {c[i] : i \in 1 .. Len(a) + Len(b)}
  BY <1>1, ToSetOf DEF c
<1>4. \A i \in 1 .. Len(a) + Len(b) : c[i] \in ToSet(a) \union ToSet(b)
  <2> TAKE i \in 1 .. Len(a) + Len(b)
  <2>1. CASE i <= Len(a)
    BY <1>1, <1>2, <1>3, <2>1 DEF c
  <2>2. CASE i > Len(a)
    <3>1. i - Len(a) \in 1 .. Len(b) /\ i = Len(a) + (i - Len(a))
      BY <1>1, <2>2
    <3> QED
      BY <1>2, <1>3, <3>1 DEF c
  <2> QED
    BY <1>1, <2>1, <2>2
<1>5. \A i \in 1 .. Len(a) : a[i] \in ToSet(c)
  BY <1>1, <1>2, <1>3 DEF c
<1>6. \A i \in 1 .. Len(b) : b[i] \in ToSet(c)
  <2> TAKE i \in 1 .. Len(b)
  <2>1. Len(a) + i \in 1 .. Len(a) + Len(b) /\ c[Len(a) + i] = b[i]
    BY <1>1, <1>2 DEF c
  <2> QED
    BY <1>3, <2>1
<1>7. ToSet(c) = ToSet(a) \union ToSet(b)
  BY <1>3, <1>4, <1>5, <1>6
<1>8. a # <<>> => Len(a) # 0
  OBVIOUS
<1> QED
  BY <1>1, <1>7, <1>8 DEF c

-----------------------------------------------------------------------------
(* The tree: what the links of a tree of panels P agree on.                 *)
Typed(t, P) ==
  /\ t \in [root : Nat, node : [Live(t) -> NodesOf(P)]]
  /\ IsFiniteSet(Live(t)) /\ Live(t) \subseteq Nat \ {0}
Rooted(t) == t.root \in Live(t) /\ t.node[t.root].parent = Null
Hangs(t, n) == IsSplit(t, t.node[n].parent)
               /\ n \in {t.node[t.node[n].parent].first, t.node[t.node[n].parent].second}
Holds(t, n) ==
  /\ t.node[n].first # t.node[n].second
  /\ t.node[n].first \in Live(t) /\ t.node[t.node[n].first].parent = n
  /\ t.node[n].second \in Live(t) /\ t.node[t.node[n].second].parent = n
  /\ t.node[n].tabs = <<>>
Linked(t) ==
  /\ Rooted(t)
  /\ \A n \in Live(t) \ {t.root} : Hangs(t, n)
  /\ \A n \in Splits(t) : Holds(t, n)
Ranked(t) == \E top \in Nat : \E h \in [Live(t) -> 0 .. top] : RankedBy(t, h)
Shaped(t, P) == Typed(t, P) /\ Linked(t) /\ Ranked(t)

(* Every pane is gathered.  The function Gather chooses exists because a    *)
(* rank falls from a split to its sides; its values hold panes only, by the *)
(* same rank, and the root's holds all, by climbing from a node to its      *)
(* parent.                                                                  *)
Collected(t, g, n) ==
  IF t.node[n].kind = "leaf" THEN <<n>> ELSE g[t.node[n].first] \o g[t.node[n].second]
LEMMA GatherExists ==
  ASSUME NEW P, NEW t, Shaped(t, P)
  PROVE  \E g : g = [n \in Live(t) |-> Collected(t, g, n)]
<1>0. PICK top \in Nat : \E h \in [Live(t) -> 0 .. top] : RankedBy(t, h)
  BY DEF Shaped, Ranked
<1>1. PICK h \in [Live(t) -> 0 .. top] : RankedBy(t, h)
  BY <1>0
<1>2. \A n \in Live(t) : t.node[n].kind # "leaf" =>
        /\ t.node[n].first \in Live(t) /\ h[t.node[n].first] < h[n]
        /\ t.node[n].second \in Live(t) /\ h[t.node[n].second] < h[n]
  <2>1. \A n \in Live(t) : t.node[n].kind # "leaf" => n \in Splits(t)
    BY DEF Shaped, Typed, Splits, NodesOf
  <2> QED
    BY <1>1, <2>1 DEF Shaped, Linked, Holds, RankedBy
<1> DEFINE Upto(g, i) == g = [n \in Live(t) |-> g[n]] /\ \A n \in Live(t) : h[n] < i => g[n] = Collected(t, g, n)
           T == {i \in 0 .. top + 1 : \E g : Upto(g, i)}
<1>3. 0 \in T
  <2>1. Upto([n \in Live(t) |-> <<>>], 0)
    BY <1>1
  <2> QED
    BY <1>1, <2>1
<1>4. ASSUME NEW i \in 0 .. (top + 1) - 1, i \in T
      PROVE  i + 1 \in T
  <2>1. PICK g : Upto(g, i)
    BY <1>4
  <2> DEFINE f == [n \in Live(t) |-> IF h[n] < i THEN g[n] ELSE Collected(t, g, n)]
  <2>2. \A n \in Live(t) : h[n] \in Int /\ (h[n] < i + 1 /\ ~(h[n] < i) => h[n] = i)
    BY <1>1
  <2>3. ASSUME NEW n \in Live(t), h[n] < i + 1
        PROVE  f[n] = Collected(t, f, n)
    <3>1. f[n] = Collected(t, g, n)
      BY <2>1, <2>3
    <3>2. t.node[n].kind # "leaf" => f[t.node[n].first] = g[t.node[n].first]
                                     /\ f[t.node[n].second] = g[t.node[n].second]
      BY <1>1, <1>2, <2>2, <2>3
    <3> HIDE DEF f
    <3> QED
      BY <3>1, <3>2 DEF Collected
  <2>4. f = [n \in Live(t) |-> f[n]]
    OBVIOUS
  <2> HIDE DEF f
  <2>5. Upto(f, i + 1)
    BY <2>3, <2>4
  <2>6. i + 1 \in 0 .. top + 1
    BY <1>1
  <2> QED
    BY <2>5, <2>6
<1>5. \A i \in 0 .. top + 1 : i \in T
  <2> HIDE DEF T
  <2>1. top + 1 \in Nat
    BY <1>1
  <2> QED
    BY <1>3, <1>4, <2>1, UpTo
<1>6. PICK g : Upto(g, top + 1)
  <2>1. top + 1 \in 0 .. top + 1
    BY <1>1
  <2> QED
    BY <1>5, <2>1
<1>7. \A n \in Live(t) : h[n] < top + 1
  BY <1>1
<1> QED
  BY <1>6, <1>7

LEMMA GatherOpens ==
  ASSUME NEW P, NEW t, Shaped(t, P)
  PROVE  \E g : Gather(t) = g[t.root] /\ \A n \in Live(t) : g[n] = Collected(t, g, n)
<1> DEFINE Rec(g) == [n \in Live(t) |-> IF t.node[n].kind = "leaf" THEN <<n>>
                                        ELSE g[t.node[n].first] \o g[t.node[n].second]]
           c == CHOOSE g : g = Rec(g)
<1>1. Gather(t) = c[t.root]
  BY DEF Gather
<1>2. \E g : g = Rec(g)
  BY GatherExists DEF Collected
<1>3. c = Rec(c)
  <2> HIDE DEF Rec
  <2> QED
    BY <1>2
<1> HIDE DEF c
<1>4. \A n \in Live(t) : c[n] = Collected(t, c, n)
  BY <1>3 DEF Collected
<1> QED
  BY <1>1, <1>4

LEMMA GatherGathers ==
  ASSUME NEW P, NEW t, Shaped(t, P)
  PROVE  /\ Gather(t) \in Seq(Live(t) \ Splits(t)) /\ Gather(t) # <<>>
         /\ ToSet(Gather(t)) = Live(t) \ Splits(t)
<1>0. PICK top \in Nat : \E h \in [Live(t) -> 0 .. top] : RankedBy(t, h)
  BY DEF Shaped, Ranked
<1>1. PICK h \in [Live(t) -> 0 .. top] : RankedBy(t, h)
  BY <1>0
<1>2. PICK g : Gather(t) = g[t.root] /\ \A n \in Live(t) : g[n] = Collected(t, g, n)
  BY GatherOpens
<1> DEFINE panes == Live(t) \ Splits(t)
<1>3. \A n \in Splits(t) : /\ t.node[n].first \in Live(t) /\ h[t.node[n].first] < h[n]
                           /\ t.node[n].second \in Live(t) /\ h[t.node[n].second] < h[n]
                           /\ g[n] = g[t.node[n].first] \o g[t.node[n].second]
  BY <1>1, <1>2 DEF Shaped, Linked, Holds, RankedBy, Collected, Splits
<1>4. \A n \in panes : g[n] = <<n>>
  <2>1. \A n \in panes : t.node[n].kind = "leaf"
    BY DEF Shaped, Typed, Splits, NodesOf
  <2> QED
    BY <1>2, <2>1 DEF Collected
<1> DEFINE Fine(n) == g[n] \in Seq(panes) /\ g[n] # <<>>
           T == {i \in 0 .. top + 1 : \A n \in Live(t) : h[n] < i => Fine(n)}
<1>5. 0 \in T
  BY <1>1
<1>6. ASSUME NEW i \in 0 .. (top + 1) - 1, i \in T
      PROVE  i + 1 \in T
  <2>1. ASSUME NEW n \in Live(t), h[n] < i + 1
        PROVE  Fine(n)
    <3>1. CASE n \in panes
      <4>1. <<n>> \in Seq(panes) /\ <<n>> # <<>>
        BY <3>1
      <4> QED
        BY <1>4, <3>1, <4>1
    <3>2. CASE n \in Splits(t)
      <4> DEFINE a == t.node[n].first
                 b == t.node[n].second
      <4>0. a \in Live(t) /\ b \in Live(t) /\ h[a] < h[n] /\ h[b] < h[n] /\ g[n] = g[a] \o g[b]
        BY <1>3, <3>2
      <4> HIDE DEF a, b
      <4>1. h[a] < i /\ h[b] < i
        BY <1>1, <2>1, <4>0
      <4>2. Fine(a) /\ Fine(b)
        BY <1>6, <4>0, <4>1
      <4> HIDE DEF panes
      <4>3. g[a] \in Seq(panes) /\ g[b] \in Seq(panes) /\ g[a] # <<>>
        BY <4>2
      <4>4. g[a] \o g[b] \in Seq(panes) /\ g[a] \o g[b] # <<>>
        BY <4>3, JoinTwo
      <4> QED
        BY <4>0, <4>4
    <3> QED
      BY <3>1, <3>2
  <2>2. i + 1 \in 0 .. top + 1
    BY <1>1
  <2> QED
    BY <2>1, <2>2
<1>7. \A n \in Live(t) : Fine(n)
  <2>1. top + 1 \in Nat /\ top + 1 \in 0 .. top + 1
    BY <1>1
  <2>2. top + 1 \in T
    <3> HIDE DEF T
    <3> QED
      BY <1>5, <1>6, <2>1, UpTo
  <2>3. \A n \in Live(t) : h[n] < top + 1
    BY <1>1
  <2> QED
    BY <2>2, <2>3
<1> HIDE DEF Fine
<1> DEFINE Up == {i \in 0 .. top : \A n \in Live(t) : h[n] >= top - i => ToSet(g[n]) \subseteq ToSet(g[t.root])}
<1>8. ASSUME NEW n \in Live(t), n # t.root
      PROVE  LET p == t.node[n].parent
             IN p \in Live(t) /\ h[p] > h[n] /\ ToSet(g[n]) \subseteq ToSet(g[p])
  <2> DEFINE p == t.node[n].parent
  <2>1. p \in Splits(t) /\ n \in {t.node[p].first, t.node[p].second}
    BY <1>8 DEF Shaped, Linked, Hangs, IsSplit, Splits
  <2>2. g[p] = g[t.node[p].first] \o g[t.node[p].second] /\ h[p] > h[n]
        /\ t.node[p].first \in Live(t) /\ t.node[p].second \in Live(t)
    BY <1>1, <1>3, <2>1 DEF Splits
  <2>3. g[t.node[p].first] \in Seq(panes) /\ g[t.node[p].second] \in Seq(panes)
    BY <1>7, <2>2 DEF Fine
  <2>4. ToSet(g[p]) = ToSet(g[t.node[p].first]) \union ToSet(g[t.node[p].second])
    <3> DEFINE a == g[t.node[p].first]
               b == g[t.node[p].second]
    <3>1. a \in Seq(panes) /\ b \in Seq(panes) /\ g[p] = a \o b
      BY <2>2, <2>3
    <3> HIDE DEF panes, a, b
    <3>2. ToSet(a \o b) = ToSet(a) \union ToSet(b)
      BY <3>1, JoinTwo
    <3>3. ToSet(g[p]) = ToSet(a) \union ToSet(b)
      BY <3>1, <3>2
    <3> QED
      BY <3>3 DEF a, b
  <2> QED
    BY <2>1, <2>2, <2>4 DEF Splits
<1>9. 0 \in Up
  <2>1. ASSUME NEW n \in Live(t), h[n] >= top
        PROVE  n = t.root
    BY <1>1, <1>8, <2>1
  <2> QED
    BY <1>1, <2>1
<1>10. ASSUME NEW i \in 0 .. top - 1, i \in Up
       PROVE  i + 1 \in Up
  <2>1. ASSUME NEW n \in Live(t), h[n] >= top - (i + 1)
        PROVE  ToSet(g[n]) \subseteq ToSet(g[t.root])
    <3>1. CASE n = t.root
      BY <3>1
    <3>2. CASE n # t.root
      <4> DEFINE p == t.node[n].parent
      <4>1. p \in Live(t) /\ h[p] > h[n] /\ ToSet(g[n]) \subseteq ToSet(g[p])
        BY <1>8, <3>2
      <4>2. h[p] >= top - i
        BY <1>1, <2>1, <4>1
      <4> QED
        BY <1>10, <4>1, <4>2
    <3> QED
      BY <3>1, <3>2
  <2>2. i + 1 \in 0 .. top
    BY <1>1
  <2> QED
    BY <2>1, <2>2
<1>11. \A n \in Live(t) : ToSet(g[n]) \subseteq ToSet(g[t.root])
  <2>1. top \in 0 .. top
    BY <1>1
  <2>2. top \in Up
    <3> HIDE DEF Up
    <3> QED
      BY <1>9, <1>10, <2>1, UpTo
  <2>3. \A n \in Live(t) : h[n] >= top - top
    BY <1>1
  <2> QED
    BY <2>2, <2>3
<1>12. \A n \in panes : n \in ToSet(g[t.root])
  <2> TAKE n \in panes
  <2>1. ToSet(<<n>>) = {n}
    BY DEF ToSet
  <2> QED
    BY <1>4, <1>11, <2>1
<1>13. Gather(t) \in Seq(panes) /\ Gather(t) # <<>>
  BY <1>2, <1>7 DEF Fine, Shaped, Linked, Rooted
<1>14. ToSet(Gather(t)) \subseteq panes
  <2> HIDE DEF panes
  <2> QED
    BY <1>13, ToSetOf
<1> QED
  BY <1>2, <1>12, <1>13, <1>14

-----------------------------------------------------------------------------
(* What a tree holds, but for some panels S once each, and the operations on *)
(* one pane.                                                                *)
Panes(t) == Live(t) \ Splits(t)
Sound(t, P, S) == Shaped(t, P) /\ OnePlaceEach(t, S) /\ ActiveInRange(t)
LeafFine(leaf, S) == Once(leaf.tabs, S)
                  /\ leaf.active \in 0 .. (IF leaf.tabs = <<>> THEN 0 ELSE Len(leaf.tabs) - 1)
SameLinks(a, b) == a.kind = b.kind /\ a.parent = b.parent /\ a.first = b.first /\ a.second = b.second

LEMMA NodeTyped ==
  ASSUME NEW P, NEW t, Shaped(t, P), NEW n \in Live(t)
  PROVE  /\ t.node[n] \in NodesOf(P) /\ t.node[n].tabs \in Seq(P) /\ t.node[n].active \in Nat
         /\ t.node[n].kind \in {"leaf", "split"} /\ t.node[n].parent \in Nat
         /\ n \in Nat /\ n # Null
         /\ n \in Panes(t) <=> t.node[n].kind = "leaf"
         /\ n \in Panes(t) <=> IsLeaf(t, n)
         /\ n \in Splits(t) <=> IsSplit(t, n)
  BY DEF Shaped, Typed, NodesOf, Null, Panes, Splits, IsLeaf, IsSplit

LEMMA FineLeaves ==
  ASSUME NEW P, NEW S, NEW t, Sound(t, P, S), NEW n \in Live(t)
  PROVE  LeafFine(t.node[n], S)
  BY DEF Sound, OnePlaceEach, ActiveInRange, LeafFine

LEMMA LeafForIs ==
  ASSUME NEW P, NEW t, Shaped(t, P), NEW id
  PROVE  /\ LeafFor(t, id) = Null => id \notin Docked(t)
         /\ LeafFor(t, id) # Null => /\ LeafFor(t, id) \in Panes(t)
                                     /\ id \in ToSet(t.node[LeafFor(t, id)].tabs)
<1> DEFINE S == {n \in Live(t) : Contains(t.node[n].tabs, id)}
           g == Gather(t)
           i == FirstAt(g, S)
<1>1. g \in Seq(Panes(t)) /\ ToSet(g) = Panes(t)
  BY GatherGathers DEF Panes
<1>2. /\ i = 0 => ToSet(g) \intersect S = {}
      /\ i # 0 => i \in 1 .. Len(g) /\ g[i] \in S
  <2> HIDE DEF g, S
  <2> QED
    BY <1>1, FirstPlace
<1>3. LeafFor(t, id) = IF i = 0 THEN Null ELSE g[i]
  BY DEF LeafFor, FirstIn
<1>4. \A n \in Live(t) : n \in S <=> id \in ToSet(t.node[n].tabs)
  <2> TAKE n \in Live(t)
  <2>1. t.node[n].tabs \in Seq(P)
    BY NodeTyped
  <2>2. ToSet(t.node[n].tabs) = {t.node[n].tabs[j] : j \in 1 .. Len(t.node[n].tabs)}
    BY <2>1, ToSetOf
  <2> QED
    BY <2>2 DEF Contains
<1>5. \A n \in Splits(t) : ToSet(t.node[n].tabs) = {}
  BY DEF Shaped, Linked, Holds, ToSet
<1>6. ASSUME i = 0
      PROVE  id \notin Docked(t)
  <2>1. \A n \in Panes(t) : id \notin ToSet(t.node[n].tabs)
    BY <1>1, <1>2, <1>4, <1>6 DEF Panes
  <2> QED
    BY <1>5, <2>1 DEF Docked, Panes
<1>7. ASSUME i # 0
      PROVE  g[i] \in Panes(t) /\ id \in ToSet(t.node[g[i]].tabs) /\ g[i] # Null
  <2>1. g[i] \in Panes(t)
    BY <1>1, <1>2, <1>7
  <2>2. g[i] \in Live(t) /\ g[i] # Null
    BY <2>1 DEF Panes, Shaped, Typed, Null
  <2> QED
    BY <1>2, <1>4, <1>7, <2>1, <2>2
<1> HIDE DEF i, g
<1> QED
  BY <1>3, <1>6, <1>7

(* ... and it is the only pane that holds it.                               *)
LEMMA LeafForOnly ==
  ASSUME NEW P, NEW S, NEW t, Sound(t, P, S), NEW n \in Live(t), NEW id \in ToSet(t.node[n].tabs),
         id \notin S
  PROVE  LeafFor(t, id) = n /\ id \in Docked(t)
<1>1. id \in Docked(t)
  BY DEF Docked
<1>2. Shaped(t, P)
  BY DEF Sound
<1>3. LeafFor(t, id) \in Live(t) /\ id \in ToSet(t.node[LeafFor(t, id)].tabs)
  BY <1>1, <1>2, LeafForIs DEF Panes
<1> QED
  BY <1>1, <1>3 DEF Sound, OnePlaceEach

LEMMA DockedIs ==
  ASSUME NEW P, NEW S, NEW t, Sound(t, P, S), NEW id
  PROVE  id \in Docked(t) <=> LeafFor(t, id) # Null
<1>1. Shaped(t, P)
  BY DEF Sound
<1>2. LeafFor(t, id) # Null => id \in Docked(t)
  BY <1>1, LeafForIs DEF Docked, Panes
<1> QED
  BY <1>1, <1>2, LeafForIs

LEMMA IndexOfIs ==
  ASSUME NEW P, NEW leaf, leaf.tabs \in Seq(P), NEW id
  PROVE  /\ IndexOf(leaf, id) \in -1 .. Len(leaf.tabs) - 1
         /\ IndexOf(leaf, id) < 0 <=> id \notin ToSet(leaf.tabs)
         /\ IndexOf(leaf, id) >= 0 => leaf.tabs[IndexOf(leaf, id) + 1] = id
<1> DEFINE s == leaf.tabs
           i == FirstAt(s, {id})
<1>1. /\ i = 0 => ToSet(s) \intersect {id} = {}
      /\ i # 0 => i \in 1 .. Len(s) /\ s[i] \in {id}
      /\ i \in 0 .. Len(s)
  BY FirstPlace
<1>2. IndexOf(leaf, id) = i - 1 /\ Len(s) \in Nat
  BY DEF IndexOf
<1>3. ToSet(s) = {s[j] : j \in 1 .. Len(s)}
  BY ToSetOf
<1> HIDE DEF i
<1> QED
  BY <1>1, <1>2, <1>3

(* A panel out of its pane: what is left, and the tab shown unless it was   *)
(* that one.                                                                *)
Detached(leaf, id, S, d) ==
  /\ SameLinks(d, leaf) /\ LeafFine(d, S) /\ LessOne(ToSet(leaf.tabs), id, S, ToSet(d.tabs))
  /\ ActiveTab(leaf) # id => ActiveTab(d) = ActiveTab(leaf)
  /\ Len(leaf.tabs) > 1 => d.tabs # <<>>
LEMMA DetachDetaches ==
  ASSUME NEW P, NEW S, NEW leaf \in NodesOf(P), LeafFine(leaf, S), NEW id
  PROVE  DetachFrom(leaf, id) \in NodesOf(P) /\ Detached(leaf, id, S, DetachFrom(leaf, id))
<1> DEFINE s == leaf.tabs
           i == IndexOf(leaf, id)
           rest == RemoveAt(s, i + 1)
           a    == leaf.active
           m    == Len(rest)
           slid == IF a > i THEN a - 1 ELSE a
           kept == IF slid >= m THEN m - 1 ELSE slid
           now  == IF kept < 0 THEN 0 ELSE kept
           d    == [leaf EXCEPT !.tabs = rest, !.active = now]
<1>1. s \in Seq(P) /\ a \in Nat /\ Len(s) \in Nat
  BY DEF NodesOf
<1>2. i \in -1 .. Len(s) - 1 /\ (i < 0 <=> id \notin ToSet(s)) /\ (i >= 0 => s[i + 1] = id)
  BY <1>1, IndexOfIs
<1>3. DetachFrom(leaf, id) = IF i < 0 THEN leaf ELSE d
  BY DEF DetachFrom
<1>6. i >= 0 => DetachFrom(leaf, id) = d
  <2>1. i \in Int
    BY <1>2
  <2> HIDE DEF d, i
  <2> QED
    BY <1>3, <2>1
<1> HIDE DEF i
<1>4. CASE i < 0
  BY <1>1, <1>2, <1>3, <1>4 DEF Detached, SameLinks, LessOne
<1>5. CASE i >= 0
  <2>1. i + 1 \in 1 .. Len(s)
    BY <1>1, <1>2, <1>5
  <2>2. rest \in Seq(P) /\ TakenOut(s, i + 1, rest)
    BY <1>1, <2>1, TakeOut
  <2>3. Once(rest, S) /\ LessOne(ToSet(s), id, S, ToSet(rest))
    BY <1>1, <1>2, <1>5, <2>1, TakeOutOnce DEF LeafFine
  <2> HIDE DEF rest
  <2>4. Len(rest) = Len(s) - 1 /\ \A j \in 1 .. Len(s) - 1 : rest[j] = IF j < i + 1 THEN s[j] ELSE s[j + 1]
    BY <2>2 DEF TakenOut
  <2>5. (rest = <<>> <=> Len(rest) = 0) /\ s # <<>>
    BY <1>1, <2>1, <2>2
  <2>6. a \in 0 .. Len(s) - 1
    BY <2>5 DEF LeafFine
  <2>8. ActiveTab(leaf) = s[a + 1]
    BY <2>5, <2>6 DEF ActiveTab
  <2> DEFINE n == Len(s)
  <2>12. n \in Nat /\ a \in 0 .. n - 1 /\ i \in 0 .. n - 1 /\ m = n - 1
    BY <1>1, <1>2, <1>5, <2>4, <2>6
  <2>13. (rest = <<>> <=> m = 0) /\ \A j \in 1 .. n - 1 : rest[j] = IF j < i + 1 THEN s[j] ELSE s[j + 1]
    BY <2>4, <2>5
  <2>14. /\ d.tabs = rest /\ d.active = now /\ SameLinks(d, leaf)
         /\ (rest \in Seq(P) /\ now \in Nat => d \in NodesOf(P))
    <3> HIDE DEF rest, now
    <3> QED
      BY DEF NodesOf, SameLinks
  <2> HIDE DEF d, a, n, m
  <2>16. now \in Nat /\ now \in 0 .. (IF m = 0 THEN 0 ELSE m - 1) /\ (a # i => m # 0 /\ now = slid)
    BY <2>12
  <2>7. now \in Nat /\ now \in 0 .. (IF rest = <<>> THEN 0 ELSE Len(rest) - 1)
    BY <2>13, <2>16 DEF m
  <2>9. ASSUME ActiveTab(leaf) # id
        PROVE  rest # <<>> /\ rest[now + 1] = ActiveTab(leaf)
    <3>1. a # i
      BY <1>2, <1>5, <2>8, <2>9
    <3>2. m # 0 /\ now = slid
      BY <2>16, <3>1
    <3>3. rest[slid + 1] = s[a + 1]
      <4>1. CASE a > i
        <5>1. slid + 1 \in 1 .. n - 1 /\ ~(slid + 1 < i + 1) /\ (slid + 1) + 1 = a + 1
          BY <2>12, <4>1
        <5> QED
          BY <2>13, <5>1
      <4>2. CASE a < i
        <5>1. slid + 1 \in 1 .. n - 1 /\ slid + 1 < i + 1 /\ slid + 1 = a + 1
          BY <2>12, <4>2
        <5> QED
          BY <2>13, <5>1
      <4> QED
        BY <2>12, <3>1, <4>1, <4>2
    <3> QED
      BY <2>8, <2>13, <3>2, <3>3
  <2> HIDE DEF now
  <2>10. d \in NodesOf(P) /\ d.tabs = rest /\ d.active = now /\ SameLinks(d, leaf)
    BY <2>2, <2>7, <2>14
  <2>11. ActiveTab(leaf) # id => ActiveTab(d) = ActiveTab(leaf)
    <3>1. SUFFICES ASSUME ActiveTab(leaf) # id PROVE ActiveTab(d) = ActiveTab(leaf)
      OBVIOUS
    <3>2. ActiveTab(d) = rest[now + 1]
      BY <2>7, <2>9, <2>10, <3>1 DEF ActiveTab
    <3> QED
      BY <2>9, <3>1, <3>2
  <2>17. LeafFine(d, S)
    BY <2>3, <2>7, <2>10 DEF LeafFine
  <2>18. Len(s) > 1 => d.tabs # <<>>
    <3>1. d.tabs = rest
      BY <2>10
    <3>2. n > 1 => m # 0
      BY <2>12
    <3>3. Len(s) > 1 => n > 1
      BY DEF n
    <3> HIDE DEF rest
    <3>4. m # 0 => rest # <<>>
      BY <2>13
    <3> QED
      BY <3>1, <3>2, <3>3, <3>4
  <2> QED
    BY <2>3, <2>10, <1>5, <1>6, <2>11, <2>17, <2>18 DEF Detached
<1> QED
  BY <1>2, <1>4, <1>5

(* A pane with other contents.                                              *)
With(t, n, leaf) == [t EXCEPT !.node[n] = leaf]
Rewritten(t, u, n, leaf) ==
  /\ u.root = t.root /\ Live(u) = Live(t) /\ Splits(u) = Splits(t)
  /\ u.node[n] = leaf /\ \A m \in Live(t) \ {n} : u.node[m] = t.node[m]
LEMMA WithIs ==
  ASSUME NEW P, NEW t, Shaped(t, P), NEW n \in Panes(t), NEW leaf \in NodesOf(P),
         SameLinks(leaf, t.node[n])
  PROVE  Shaped(With(t, n, leaf), P) /\ Rewritten(t, With(t, n, leaf), n, leaf)
<1> DEFINE u == With(t, n, leaf)
<1>1. n \in Live(t) /\ t.node[n].kind = "leaf"
  BY NodeTyped DEF Panes
<1>2. t \in [root : Nat, node : [Live(t) -> NodesOf(P)]]
  BY DEF Shaped, Typed
<1>3. u \in [root : Nat, node : [Live(t) -> NodesOf(P)]] /\ u.root = t.root
      /\ \A m \in Live(t) : u.node[m] = IF m = n THEN leaf ELSE t.node[m]
  BY <1>1, <1>2 DEF With
<1> HIDE DEF u
<1>4. Live(u) = Live(t)
  BY <1>3 DEF Live
<1>5. Typed(u, P)
  BY <1>3, <1>4 DEF Shaped, Typed
<1>6. Splits(u) = Splits(t)
  BY <1>1, <1>3, <1>4 DEF Splits, SameLinks
<1>7. \A m \in Live(t) : SameLinks(u.node[m], t.node[m])
  BY <1>3 DEF SameLinks
<1>8. \A m \in Splits(t) : u.node[m] = t.node[m]
  BY <1>1, <1>3 DEF Splits
<1>9. Ranked(u)
  BY <1>4, <1>6, <1>8 DEF Shaped, Ranked, RankedBy
<1>10. Rooted(u) /\ \A m \in Live(u) \ {u.root} : Hangs(u, m)
  <2>1. Rooted(u)
    BY <1>3, <1>4, <1>7 DEF Shaped, Linked, Rooted, SameLinks
  <2>2. ASSUME NEW m \in Live(t) \ {t.root}
        PROVE  Hangs(u, m)
    <3>1. t.node[m].parent \in Splits(t) /\ u.node[m].parent = t.node[m].parent /\ Hangs(t, m)
      BY <1>7 DEF Shaped, Linked, Hangs, IsSplit, Splits, SameLinks
    <3>2. u.node[t.node[m].parent] = t.node[t.node[m].parent]
      BY <1>8, <3>1
    <3> QED
      BY <1>4, <3>1, <3>2 DEF Hangs, IsSplit
  <2> QED
    BY <1>3, <1>4, <2>1, <2>2
<1>11. \A m \in Splits(u) : Holds(u, m)
  <2> SUFFICES ASSUME NEW m \in Splits(t) PROVE Holds(u, m)
    BY <1>6
  <2>1. Holds(t, m) /\ u.node[m] = t.node[m]
    BY <1>8 DEF Shaped, Linked
  <2> QED
    BY <1>4, <1>7, <2>1 DEF Holds, SameLinks
<1> QED
  BY <1>3, <1>4, <1>5, <1>6, <1>9, <1>10, <1>11, <1>1 DEF Shaped, Linked, Rewritten, u

(* What an operation makes of a tree: a sound one over the panels D, with   *)
(* no blank pane that was not there.                                        *)
Elsewhere(t, n) == UNION {ToSet(t.node[m].tabs) : m \in Live(t) \ {n}}
LEMMA ElsewhereIs ==
  ASSUME NEW P, NEW S, NEW t, Sound(t, P, S), NEW n \in Live(t)
  PROVE  /\ Docked(t) = Elsewhere(t, n) \union ToSet(t.node[n].tabs)
         /\ Elsewhere(t, n) \intersect ToSet(t.node[n].tabs) \subseteq S
         /\ \A m \in Live(t) \ {n} : ToSet(t.node[m].tabs) \subseteq Elsewhere(t, n)
<1>1. Docked(t) = Elsewhere(t, n) \union ToSet(t.node[n].tabs)
  BY DEF Docked, Elsewhere
<1>2. Elsewhere(t, n) \intersect ToSet(t.node[n].tabs) \subseteq S
  BY DEF Elsewhere, Sound, OnePlaceEach
<1> QED
  BY <1>1, <1>2 DEF Elsewhere

Leads(t, u, P, S, D) == Sound(u, P, S) /\ Docked(u) = D /\ BlankPanes(u) \subseteq BlankPanes(t)
LEMMA NewContents ==
  ASSUME NEW P, NEW S, NEW t, Sound(t, P, S), NEW n \in Panes(t), NEW leaf \in NodesOf(P),
         SameLinks(leaf, t.node[n]), LeafFine(leaf, S),
         ToSet(leaf.tabs) \intersect Elsewhere(t, n) \subseteq S,
         leaf.tabs = <<>> => n = t.root \/ t.node[n].tabs = <<>>
  PROVE  /\ Leads(t, With(t, n, leaf), P, S, Elsewhere(t, n) \union ToSet(leaf.tabs))
         /\ Rewritten(t, With(t, n, leaf), n, leaf)
<1> DEFINE u == With(t, n, leaf)
<1>1. Shaped(u, P) /\ Rewritten(t, u, n, leaf)
  BY WithIs DEF Sound
<1> HIDE DEF u
<1>2. n \in Live(t)
  BY DEF Panes
<1>3. \A m \in Live(t) \ {n} : ToSet(t.node[m].tabs) \subseteq Elsewhere(t, n)
  BY <1>2, ElsewhereIs
<1>4. OnePlaceEach(u, S)
  <2>1. \A m \in Live(u) : Once(u.node[m].tabs, S)
    BY <1>1 DEF Sound, OnePlaceEach, LeafFine, Rewritten
  <2>2. ASSUME NEW m \in Live(t), m # n
        PROVE  ToSet(u.node[m].tabs) \intersect ToSet(leaf.tabs) \subseteq S
    BY <1>1, <1>3, <2>2 DEF Rewritten
  <2>3. ASSUME NEW m \in Live(t), NEW k \in Live(t), m # k
        PROVE  ToSet(u.node[m].tabs) \intersect ToSet(u.node[k].tabs) \subseteq S
    <3>1. CASE m = n
      BY <1>1, <2>2, <2>3, <3>1 DEF Rewritten
    <3>2. CASE k = n
      BY <1>1, <2>2, <2>3, <3>2 DEF Rewritten
    <3>3. CASE m # n /\ k # n
      BY <1>1, <2>3, <3>3 DEF Rewritten, Sound, OnePlaceEach
    <3> QED
      BY <3>1, <3>2, <3>3
  <2> QED
    BY <1>1, <2>1, <2>3 DEF OnePlaceEach, Rewritten
<1>5. ActiveInRange(u)
  BY <1>1 DEF Sound, ActiveInRange, LeafFine, Rewritten
<1>6. Docked(u) = Elsewhere(t, n) \union ToSet(leaf.tabs)
  <2>1. Docked(u) = UNION {ToSet(u.node[m].tabs) : m \in Live(t)}
    BY <1>1 DEF Docked, Rewritten
  <2>2. \A x : x \in Docked(u) <=> x \in ToSet(leaf.tabs) \/ \E m \in Live(t) \ {n} : x \in ToSet(t.node[m].tabs)
    BY <1>1, <1>2, <2>1 DEF Rewritten
  <2> QED
    BY <2>2 DEF Elsewhere
<1>7. BlankPanes(u) \subseteq BlankPanes(t)
  <2> SUFFICES ASSUME NEW m \in BlankPanes(u) PROVE m \in BlankPanes(t)
    OBVIOUS
  <2>1. m \in Live(t) /\ m # t.root /\ IsLeaf(u, m) /\ u.node[m].tabs = <<>>
    BY <1>1 DEF BlankPanes, Rewritten
  <2>2. CASE m = n
    BY <1>1, <1>2, <2>1, <2>2 DEF BlankPanes, Rewritten, IsLeaf, SameLinks
  <2>3. CASE m # n
    BY <1>1, <2>1, <2>3 DEF BlankPanes, Rewritten, IsLeaf
  <2> QED
    BY <2>2, <2>3
<1> QED
  BY <1>1, <1>4, <1>5, <1>6, <1>7 DEF Leads, Sound, u

LEMMA AddTabLeads ==
  ASSUME NEW P, NEW S, NEW t, Sound(t, P, S), NEW n \in Panes(t), NEW id \in P,
         id \in S \/ id \notin Docked(t) \ ToSet(t.node[n].tabs)
  PROVE  Leads(t, AddTab(t, n, id), P, S, Docked(t) \union {id})
<1> DEFINE leaf == t.node[n]
           i    == IndexOf(leaf, id)
           grown == [leaf EXCEPT !.tabs = Append(@, id), !.active = Len(leaf.tabs)]
           chosen == [leaf EXCEPT !.active = i]
<1>1. n \in Live(t) /\ IsLeaf(t, n) /\ leaf \in NodesOf(P) /\ leaf.tabs \in Seq(P) /\ LeafFine(leaf, S)
  <2>1. n \in Live(t)
    BY DEF Panes
  <2> QED
    BY <2>1, NodeTyped, FineLeaves DEF Sound
<1>2. AddTab(t, n, id) = With(t, n, IF i >= 0 THEN chosen ELSE grown)
  BY <1>1 DEF AddTab, With
<1>3. i \in -1 .. Len(leaf.tabs) - 1 /\ (i < 0 <=> id \notin ToSet(leaf.tabs)) /\ Len(leaf.tabs) \in Nat
  BY <1>1, IndexOfIs
<1>4. /\ Docked(t) = Elsewhere(t, n) \union ToSet(leaf.tabs)
      /\ Elsewhere(t, n) \intersect ToSet(leaf.tabs) \subseteq S
  BY <1>1, ElsewhereIs
<1>5. /\ chosen.tabs = leaf.tabs /\ chosen.active = i /\ SameLinks(chosen, leaf)
      /\ grown.tabs = Append(leaf.tabs, id) /\ grown.active = Len(leaf.tabs) /\ SameLinks(grown, leaf)
  <2> HIDE DEF i
  <2> QED
    BY <1>1 DEF NodesOf, SameLinks
<1>6. CASE i >= 0
  <2>1. chosen \in NodesOf(P)
    <3>1. i \in Nat
      BY <1>3, <1>6
    <3> HIDE DEF i
    <3> QED
      BY <1>1, <3>1 DEF NodesOf
  <2>2. leaf.tabs # <<>>
    BY <1>3, <1>6
  <2> HIDE DEF chosen, i
  <2>3. LeafFine(chosen, S)
    BY <1>1, <1>3, <1>5, <1>6, <2>2 DEF LeafFine
  <2>4. Leads(t, With(t, n, chosen), P, S, Elsewhere(t, n) \union ToSet(chosen.tabs))
    BY <1>4, <1>5, <2>1, <2>2, <2>3, NewContents
  <2>5. Elsewhere(t, n) \union ToSet(chosen.tabs) = Docked(t) \union {id}
    BY <1>3, <1>4, <1>5, <1>6
  <2> QED
    BY <1>2, <1>6, <2>4, <2>5
<1>7. CASE i < 0
  <2>1. Append(leaf.tabs, id) \in Seq(P) /\ ToSet(Append(leaf.tabs, id)) = ToSet(leaf.tabs) \union {id}
        /\ Once(Append(leaf.tabs, id), S) /\ Append(leaf.tabs, id) # <<>>
    BY <1>1, <1>3, <1>7, AppendOne DEF LeafFine
  <2>2. grown \in NodesOf(P)
    BY <1>1, <1>3, <2>1 DEF NodesOf
  <2>3. Len(Append(leaf.tabs, id)) = Len(leaf.tabs) + 1
    BY <1>1
  <2> HIDE DEF grown, i
  <2>4. LeafFine(grown, S)
    BY <1>3, <1>5, <2>1, <2>3 DEF LeafFine
  <2>5. ToSet(grown.tabs) \intersect Elsewhere(t, n) \subseteq S /\ grown.tabs # <<>>
    BY <1>3, <1>4, <1>5, <1>7, <2>1
  <2>6. Leads(t, With(t, n, grown), P, S, Elsewhere(t, n) \union ToSet(grown.tabs))
    BY <1>5, <2>2, <2>4, <2>5, NewContents
  <2>7. Elsewhere(t, n) \union ToSet(grown.tabs) = Docked(t) \union {id}
    BY <1>4, <1>5, <2>1
  <2>8. ~(i >= 0)
    BY <1>3, <1>7
  <2> QED
    BY <1>2, <2>6, <2>7, <2>8
<1> QED
  BY <1>3, <1>6, <1>7

(* Showing a tab moves nothing.                                             *)
ShowTab(t, n, i) == With(t, n, [t.node[n] EXCEPT !.active = i])
LEMMA ShowTabLeads ==
  ASSUME NEW P, NEW S, NEW t, Sound(t, P, S), NEW n \in Panes(t), NEW i \in 0 .. Len(t.node[n].tabs) - 1
  PROVE  Leads(t, ShowTab(t, n, i), P, S, Docked(t)) /\ Splits(ShowTab(t, n, i)) = Splits(t)
<1> DEFINE leaf == t.node[n]
           chosen == [leaf EXCEPT !.active = i]
<1>1. n \in Live(t)
  BY DEF Panes
<1>2. leaf \in NodesOf(P) /\ leaf.tabs \in Seq(P) /\ LeafFine(leaf, S)
  BY <1>1, NodeTyped, FineLeaves DEF Sound
<1>3. Len(leaf.tabs) \in Nat /\ leaf.tabs # <<>>
  BY <1>2
<1>4. chosen \in NodesOf(P) /\ chosen.tabs = leaf.tabs /\ chosen.active = i /\ SameLinks(chosen, leaf)
  BY <1>2, <1>3 DEF NodesOf, SameLinks
<1> HIDE DEF chosen
<1>5. LeafFine(chosen, S)
  BY <1>2, <1>3, <1>4 DEF LeafFine
<1>6. /\ Docked(t) = Elsewhere(t, n) \union ToSet(leaf.tabs)
      /\ Elsewhere(t, n) \intersect ToSet(leaf.tabs) \subseteq S
  BY <1>1, ElsewhereIs
<1>7. Leads(t, With(t, n, chosen), P, S, Elsewhere(t, n) \union ToSet(chosen.tabs))
      /\ Rewritten(t, With(t, n, chosen), n, chosen)
  BY <1>3, <1>4, <1>5, <1>6, NewContents
<1>8. Elsewhere(t, n) \union ToSet(chosen.tabs) = Docked(t)
  BY <1>4, <1>6
<1> QED
  BY <1>7, <1>8 DEF Rewritten, ShowTab, chosen

LEMMA ActivateLeads ==
  ASSUME NEW P, NEW S, NEW t, Sound(t, P, S), NEW id
  PROVE  Leads(t, Activate(t, id), P, S, Docked(t)) /\ Splits(Activate(t, id)) = Splits(t)
<1> DEFINE n == LeafFor(t, id)
           i == IndexOf(t.node[n], id)
<1>1. CASE n = Null
  BY <1>1 DEF Activate, Leads
<1>2. CASE n # Null
  <2>1. n \in Panes(t) /\ id \in ToSet(t.node[n].tabs)
    BY <1>2, LeafForIs DEF Sound
  <2>2. Activate(t, id) = ShowTab(t, n, i)
    BY <1>2 DEF Activate, With, ShowTab
  <2> HIDE DEF n
  <2>3. n \in Live(t)
    BY <2>1 DEF Panes
  <2>4. t.node[n].tabs \in Seq(P)
    BY <2>3, NodeTyped DEF Sound
  <2>5. i \in 0 .. Len(t.node[n].tabs) - 1
    BY <2>1, <2>4, IndexOfIs
  <2> HIDE DEF i
  <2> QED
    BY <2>1, <2>2, <2>5, ShowTabLeads
<1> QED
  BY <1>1, <1>2

(* A pane split: its contents move to one new pane and the newcomer has the *)
(* other.                                                                   *)
LEMMA SplitAtIs ==
  ASSUME NEW P, NEW S, NEW t, Sound(t, P, S), NEW n \in Panes(t), t.node[n].tabs # <<>>,
         NEW k \in Nat \ {0}, NEW f \in Nat \ {0}, k # f, k \notin Live(t), f \notin Live(t),
         NEW side, NEW id \in P, id \in S \/ id \notin Docked(t)
  PROVE  Leads(t, SplitAt(t, n, k, f, side, id), P, S, Docked(t) \union {id})
<1> DEFINE old   == t.node[n]
           kept  == [old EXCEPT !.parent = n]
           fresh == [Leaf(<<id>>, 0) EXCEPT !.parent = n]
           node  == [old EXCEPT !.kind = "split", !.tabs = <<>>, !.active = 0,
                                !.first  = IF side = "before" THEN f ELSE k,
                                !.second = IF side = "before" THEN k ELSE f]
           u     == SplitAt(t, n, k, f, side, id)
           L     == Live(t) \union {k, f}
           new   == [m \in L |-> IF m = k THEN kept ELSE IF m = f THEN fresh
                                 ELSE IF m = n THEN node ELSE t.node[m]]
<1>1. n \in Live(t) /\ n # k /\ n # f
  BY DEF Panes
<1>2. old \in NodesOf(P) /\ LeafFine(old, S) /\ n \in Nat /\ old.kind = "leaf"
  BY <1>1, NodeTyped, FineLeaves DEF Sound
<1>3. /\ kept \in NodesOf(P) /\ kept.kind = "leaf" /\ kept.parent = n /\ kept.tabs = old.tabs
      /\ kept.active = old.active
  BY <1>2 DEF NodesOf
<1>4. /\ fresh \in NodesOf(P) /\ fresh.kind = "leaf" /\ fresh.parent = n /\ fresh.tabs = <<id>>
      /\ fresh.active = 0
  <2>1. <<id>> \in Seq(P) /\ n \in Nat
    BY <1>2
  <2> QED
    BY <2>1 DEF NodesOf, Leaf, Null
<1>5. /\ node \in NodesOf(P) /\ node.kind = "split" /\ node.parent = old.parent /\ node.tabs = <<>>
      /\ node.active = 0 /\ node.first # node.second
      /\ \/ node.first = k /\ node.second = f
         \/ node.first = f /\ node.second = k
  <2>1. <<>> \in Seq(P)
    OBVIOUS
  <2>2. CASE side = "before"
    BY <1>2, <2>1, <2>2 DEF NodesOf
  <2>3. CASE side # "before"
    BY <1>2, <2>1, <2>3 DEF NodesOf
  <2> QED
    BY <2>2, <2>3
<1>6. u = Tree(t.root, new)
  BY DEF SplitAt
<1>7. t.node \in [Live(t) -> NodesOf(P)] /\ t.root \in Nat /\ t \in [root : Nat, node : [Live(t) -> NodesOf(P)]]
  BY DEF Sound, Shaped, Typed
<1> HIDE DEF kept, fresh, node
<1>8. DOMAIN new = L /\ \A m \in L : new[m] = IF m = k THEN kept ELSE IF m = f THEN fresh
                                              ELSE IF m = n THEN node ELSE t.node[m]
  BY <1>1, <1>7
<1>10. u = [root |-> t.root, node |-> new]
  BY <1>6 DEF Tree
<1>9. u.root = t.root /\ u.node = new
  BY <1>10
<1>11. new \in [L -> NodesOf(P)]
  <2>1. \A m \in L : new[m] \in NodesOf(P)
    BY <1>3, <1>4, <1>5, <1>7, <1>8
  <2>2. new = [m \in DOMAIN new |-> new[m]]
    OBVIOUS
  <2> HIDE DEF new
  <2> QED
    BY <1>8, <2>1, <2>2
<1> HIDE DEF new
<1>12. Live(u) = L
  BY <1>8, <1>9 DEF Live
<1> DEFINE Node(m) == u.node[m]
<1>13. \A m \in L : u.node[m] = IF m = k THEN kept ELSE IF m = f THEN fresh
                                ELSE IF m = n THEN node ELSE t.node[m]
  BY <1>8, <1>9
<1>14. Typed(u, P)
  <2>1. u \in [root : Nat, node : [L -> NodesOf(P)]]
    BY <1>7, <1>10, <1>11
  <2>2. IsFiniteSet(Live(t) \union {k} \union {f})
    BY FS_AddElement DEF Sound, Shaped, Typed
  <2>3. L = Live(t) \union {k} \union {f}
    OBVIOUS
  <2>4. L \subseteq Nat \ {0}
    BY DEF Sound, Shaped, Typed
  <2> QED
    BY <1>12, <2>1, <2>2, <2>3, <2>4 DEF Typed
<1> HIDE DEF u
<1>15. Splits(u) = Splits(t) \union {n}
  <2>1. \A m \in L : u.node[m].kind = "split" <=> m = n \/ m \in Splits(t)
    BY <1>1, <1>2, <1>3, <1>4, <1>5, <1>13 DEF Splits
  <2> QED
    BY <1>1, <1>12, <2>1 DEF Splits
<1>16. Linked(t) /\ Ranked(t)
  BY DEF Sound, Shaped
<1>17. Rooted(u)
  BY <1>1, <1>5, <1>9, <1>12, <1>13, <1>16 DEF Linked, Rooted
<1>18. ASSUME NEW m \in Live(u) \ {u.root}
       PROVE  Hangs(u, m)
  <2>1. CASE m = k \/ m = f
    BY <1>1, <1>3, <1>4, <1>5, <1>12, <1>13, <2>1 DEF Hangs, IsSplit
  <2>2. CASE m \in Live(t)
    <3>1. Hangs(t, m) /\ u.node[m].parent = t.node[m].parent /\ t.node[m].parent # n
      BY <1>2, <1>5, <1>9, <1>13, <1>16, <1>18, <2>2 DEF Linked, Hangs, IsSplit
    <3>2. t.node[m].parent \in Live(t) /\ u.node[t.node[m].parent] = t.node[t.node[m].parent]
      BY <1>12, <1>13, <3>1 DEF Hangs, IsSplit
    <3> QED
      BY <1>12, <3>1, <3>2 DEF Hangs, IsSplit
  <2> QED
    BY <1>12, <2>1, <2>2
<1>19. ASSUME NEW m \in Splits(u)
       PROVE  Holds(u, m)
  <2>1. CASE m = n
    <3>1. /\ u.node[n] = node /\ u.node[k].parent = n /\ u.node[f].parent = n
          /\ k \in Live(u) /\ f \in Live(u)
      BY <1>1, <1>3, <1>4, <1>12, <1>13
    <3> QED
      BY <1>5, <2>1, <3>1 DEF Holds
  <2>2. CASE m \in Splits(t)
    <3>1. Holds(t, m) /\ m \in Live(t) /\ m # n
      BY <1>16, <1>2, <2>2 DEF Linked, Splits
    <3>2. u.node[m] = t.node[m]
      BY <1>13, <3>1
    <3>3. u.node[t.node[m].first].parent = m /\ u.node[t.node[m].second].parent = m
      BY <1>5, <1>13, <3>1 DEF Holds
    <3> QED
      BY <1>12, <3>1, <3>2, <3>3 DEF Holds
  <2> QED
    BY <1>15, <2>1, <2>2
<1>20. Ranked(u)
  <2>0. PICK top \in Nat : \E h \in [Live(t) -> 0 .. top] : RankedBy(t, h)
    BY <1>16 DEF Ranked
  <2>1. PICK h \in [Live(t) -> 0 .. top] : RankedBy(t, h)
    BY <2>0
  <2> DEFINE r == [m \in L |-> IF m \in Live(t) THEN h[m] + 1 ELSE 0]
  <2>2. r \in [L -> 0 .. top + 1]
    OBVIOUS
  <2>3. ASSUME NEW m \in Splits(u)
        PROVE  r[u.node[m].first] < r[m] /\ r[u.node[m].second] < r[m]
    <3>1. CASE m = n
      <4>1. r[n] = h[n] + 1 /\ r[k] = 0 /\ r[f] = 0 /\ h[n] \in 0 .. top
        BY <1>1
      <4> HIDE DEF r
      <4>2. u.node[n] = node
        BY <1>1, <1>13
      <4>3. r[k] < r[n] /\ r[f] < r[n]
        BY <4>1
      <4> QED
        BY <1>5, <3>1, <4>2, <4>3
    <3>2. CASE m \in Splits(t)
      <4>1. Holds(t, m) /\ m \in Live(t) /\ m # n /\ h[t.node[m].first] < h[m] /\ h[t.node[m].second] < h[m]
        BY <1>16, <1>2, <3>2, <2>1 DEF Linked, Splits, RankedBy
      <4>2. u.node[m] = t.node[m] /\ t.node[m].first \in Live(t) /\ t.node[m].second \in Live(t)
        BY <1>13, <4>1 DEF Holds
      <4>3. r[t.node[m].first] = h[t.node[m].first] + 1 /\ r[t.node[m].second] = h[t.node[m].second] + 1 /\ r[m] = h[m] + 1
        BY <4>1, <4>2
      <4>4. h[t.node[m].first] \in Int /\ h[t.node[m].second] \in Int /\ h[m] \in Int
        BY <4>1, <4>2
      <4> HIDE DEF r
      <4> QED
        BY <4>1, <4>2, <4>3, <4>4
    <3> QED
      BY <1>15, <3>1, <3>2
  <2> HIDE DEF r
  <2>4. RankedBy(u, r) /\ top + 1 \in Nat
    BY <2>3 DEF RankedBy
  <2> QED
    BY <1>12, <2>2, <2>4 DEF Ranked
<1>21. Shaped(u, P)
  BY <1>14, <1>17, <1>18, <1>19, <1>20 DEF Shaped, Linked
<1> DEFINE tabs(m) == IF m = k THEN old.tabs ELSE IF m = f THEN <<id>> ELSE IF m = n THEN <<>> ELSE t.node[m].tabs
<1>22. \A m \in L : u.node[m].tabs = tabs(m)
  BY <1>3, <1>4, <1>5, <1>13
<1>23. /\ Once(<<id>>, S) /\ ToSet(<<id>>) = {id} /\ <<id>> # <<>> /\ Len(<<id>>) = 1
       /\ Once(<<>>, S) /\ ToSet(<<>>) = {}
  BY DEF Once, ToSet
<1>24. \A m \in Live(t) : id \in ToSet(t.node[m].tabs) => id \in S
  BY DEF Docked
<1>25. OnePlaceEach(t, S) /\ ActiveInRange(t)
  BY DEF Sound
<1>26. OnePlaceEach(u, S)
  <2>1. \A m \in L : Once(tabs(m), S)
    BY <1>1, <1>23, <1>25 DEF OnePlaceEach
  <2>2. ASSUME NEW m \in L, NEW l \in L, m # l
        PROVE  ToSet(tabs(m)) \intersect ToSet(tabs(l)) \subseteq S
    BY <1>1, <1>23, <1>24, <1>25, <2>2 DEF OnePlaceEach
  <2> HIDE DEF tabs
  <2> QED
    BY <1>12, <1>22, <2>1, <2>2 DEF OnePlaceEach
<1>27. ActiveInRange(u)
  <2> SUFFICES ASSUME NEW m \in L
               PROVE  u.node[m].active \in 0 .. (IF u.node[m].tabs = <<>> THEN 0 ELSE Len(u.node[m].tabs) - 1)
    BY <1>12 DEF ActiveInRange
  <2>1. CASE m = k
    BY <1>1, <1>3, <1>13, <1>25, <2>1 DEF ActiveInRange
  <2>2. CASE m = f
    BY <1>4, <1>13, <1>23, <2>2
  <2>3. CASE m = n
    BY <1>1, <1>5, <1>13, <2>3
  <2>4. CASE m # k /\ m # f /\ m # n
    BY <1>13, <1>25, <2>4 DEF ActiveInRange
  <2> QED
    BY <2>1, <2>2, <2>3, <2>4
<1>28. Docked(u) = Docked(t) \union {id}
  <2>1. \A x : x \in Docked(u) <=> \E m \in L : x \in ToSet(tabs(m))
    BY <1>12, <1>22 DEF Docked
  <2>2. \A x : x \in Docked(t) <=> \E m \in Live(t) : x \in ToSet(t.node[m].tabs)
    BY DEF Docked
  <2>3. ASSUME NEW x \in Docked(t)
        PROVE  \E m \in L : x \in ToSet(tabs(m))
    <3>1. PICK m \in Live(t) : x \in ToSet(t.node[m].tabs)
      BY <2>2
    <3>2. CASE m = n
      BY <3>1, <3>2
    <3>3. CASE m # n
      BY <3>1, <3>3
    <3> QED
      BY <3>2, <3>3
  <2>4. id \in ToSet(tabs(f))
    BY <1>23
  <2>5. ASSUME NEW x, NEW m \in L, x \in ToSet(tabs(m))
        PROVE  x \in Docked(t) \union {id}
    BY <1>1, <1>23, <2>2, <2>5
  <2> HIDE DEF tabs
  <2> QED
    BY <2>1, <2>3, <2>4, <2>5
<1>29. BlankPanes(u) \subseteq BlankPanes(t)
  <2> SUFFICES ASSUME NEW m \in BlankPanes(u) PROVE m \in BlankPanes(t)
    OBVIOUS
  <2>1. m \in L /\ m # t.root /\ u.node[m].kind = "leaf" /\ tabs(m) = <<>>
    BY <1>9, <1>12, <1>22 DEF BlankPanes, IsLeaf
  <2>2. m # k /\ m # f /\ m # n
    BY <1>5, <1>1, <1>13, <1>23, <2>1
  <2> QED
    BY <1>13, <2>1, <2>2 DEF BlankPanes, IsLeaf
<1> QED
  BY <1>21, <1>26, <1>27, <1>28, <1>29 DEF Leads, Sound, u

(* An emptied pane: its sibling takes the place of the split above it, and  *)
(* what is under the sibling stays where it was.                            *)
Sibling(t, n) == IF t.node[t.node[n].parent].first = n THEN t.node[t.node[n].parent].second
                                                       ELSE t.node[t.node[n].parent].first
Collapsed(t, u, n) ==
  /\ Live(u) = Live(t) \ {t.node[n].parent, n}
  /\ \A m \in Live(u) : u.node[m].kind = t.node[m].kind /\ u.node[m].tabs = t.node[m].tabs
                        /\ u.node[m].active = t.node[m].active
LEMMA CollapseIs ==
  ASSUME NEW P, NEW S, NEW t, Sound(t, P, S), NEW n \in Panes(t), n # t.root
  PROVE  LET u == CollapseInto(t, t.node[n].parent, n, Sibling(t, n))
         IN Leads(t, u, P, S, Elsewhere(t, n)) /\ Collapsed(t, u, n)
<1> DEFINE p     == t.node[n].parent
           keep  == Sibling(t, n)
           grand == t.node[p].parent
           L     == Live(t) \ {p, n}
           rest  == [m \in L |-> t.node[m]]
           up    == [rest EXCEPT ![keep].parent = grand]
           u     == CollapseInto(t, p, n, keep)
           root  == IF grand = Null THEN keep ELSE t.root
<1>1. Linked(t) /\ Ranked(t) /\ OnePlaceEach(t, S) /\ ActiveInRange(t) /\ Typed(t, P)
  BY DEF Sound, Shaped
<1>2. n \in Live(t) /\ n \notin Splits(t)
  BY DEF Panes
<1>3. p \in Splits(t) /\ p \in Live(t) /\ p # n /\ n \in {t.node[p].first, t.node[p].second}
  BY <1>1, <1>2 DEF Linked, Hangs, IsSplit, Splits
<1>4. /\ keep \in Live(t) /\ keep # n /\ t.node[keep].parent = p
      /\ {t.node[p].first, t.node[p].second} = {n, keep} /\ t.node[p].tabs = <<>>
  BY <1>1, <1>3 DEF Linked, Holds, Sibling
<1>5. PICK top \in Nat : \E h \in [Live(t) -> 0 .. top] : RankedBy(t, h)
  BY <1>1 DEF Ranked
<1>6. PICK h \in [Live(t) -> 0 .. top] : RankedBy(t, h)
  BY <1>5
<1>7. \A m \in Splits(t) : /\ t.node[m].first \in Live(t) /\ h[t.node[m].first] < h[m]
                           /\ t.node[m].second \in Live(t) /\ h[t.node[m].second] < h[m]
  BY <1>1, <1>6 DEF Linked, Holds, RankedBy
<1>8. \A m \in Live(t) : h[m] \in Int /\ m # Null
  BY <1>1, <1>6 DEF Typed, Null
<1>9. h[keep] < h[p] /\ keep # p
  <2> HIDE DEF p, keep
  <2>1. keep \in {t.node[p].first, t.node[p].second}
    BY <1>4
  <2>2. h[keep] < h[p] /\ h[keep] \in Int /\ h[p] \in Int
    BY <1>3, <1>4, <1>7, <1>8, <2>1
  <2> QED
    BY <2>2
<1>10. p = t.root => grand = Null
  BY <1>1 DEF Linked, Rooted
<1>11. p # t.root => /\ grand \in Splits(t) /\ grand \in Live(t) /\ grand # Null
                     /\ p \in {t.node[grand].first, t.node[grand].second}
                     /\ grand # n /\ h[p] < h[grand] /\ grand # p /\ grand # keep
  <2>1. SUFFICES ASSUME p # t.root
                 PROVE  /\ grand \in Splits(t) /\ grand \in Live(t)
                        /\ p \in {t.node[grand].first, t.node[grand].second}
    BY SMTT(20), <1>2, <1>3, <1>7, <1>8, <1>9
  <2> QED
    BY <1>1, <1>3, <2>1 DEF Linked, Hangs, IsSplit, Splits
<1>12. keep \in L /\ t.node \in [Live(t) -> NodesOf(P)]
  BY <1>1, <1>4, <1>9 DEF Typed
<1> HIDE DEF p, keep
<1>13. grand \in Nat /\ keep \in Nat
  <2>1. t.node[p] \in NodesOf(P)
    BY <1>3, <1>12
  <2> QED
    BY <1>1, <1>4, <2>1 DEF NodesOf, Typed
<1> HIDE DEF grand
<1>14. /\ up \in [L -> NodesOf(P)]
       /\ \A m \in L : /\ up[m].parent = IF m = keep THEN grand ELSE t.node[m].parent
                       /\ up[m].first = t.node[m].first /\ up[m].second = t.node[m].second
                       /\ up[m].kind = t.node[m].kind /\ up[m].tabs = t.node[m].tabs
                       /\ up[m].active = t.node[m].active
  <2>1. rest \in [L -> NodesOf(P)] /\ \A m \in L : rest[m] = t.node[m]
    BY <1>12
  <2> HIDE DEF rest
  <2>2. up = [m \in L |-> IF m = keep THEN [rest[m] EXCEPT !.parent = grand] ELSE rest[m]]
    BY <1>12, <2>1
  <2>3. ASSUME NEW m \in L
        PROVE  LET x == [rest[m] EXCEPT !.parent = grand]
               IN /\ x \in NodesOf(P) /\ x.parent = grand /\ x.first = rest[m].first
                  /\ x.second = rest[m].second /\ x.kind = rest[m].kind /\ x.tabs = rest[m].tabs
                  /\ x.active = rest[m].active
    BY <1>13, <2>1 DEF NodesOf
  <2> QED
    BY ZenonT(40), <2>1, <2>2, <2>3
<1> HIDE DEF up, rest
<1> DEFINE Slots1(v) == /\ v \in [root : Nat, node : [L -> NodesOf(P)]] /\ v.root = root
                        /\ \A m \in L :
                             /\ v.node[m].parent = IF m = keep THEN grand ELSE t.node[m].parent
                             /\ v.node[m].kind = t.node[m].kind /\ v.node[m].tabs = t.node[m].tabs
                             /\ v.node[m].active = t.node[m].active
           Sides(v) == \A m \in L :
                         /\ v.node[m].first  = IF m = grand /\ t.node[m].first = p THEN keep ELSE t.node[m].first
                         /\ v.node[m].second = IF m = grand /\ t.node[m].first # p THEN keep ELSE t.node[m].second
<1>15. Slots1(u) /\ Sides(u)
  <2>1. CASE grand = Null
    <3>1. u = [root |-> keep, node |-> up]
      BY <2>1 DEF CollapseInto, Tree, up, rest, grand
    <3>2. \A m \in L : m # grand
      BY <1>8, <2>1
    <3> QED
      BY <1>13, <1>14, <2>1, <3>1, <3>2
  <2>2. CASE grand # Null
    <3>1. grand \in L /\ t.root \in Nat
      BY <1>1, <1>10, <1>11, <2>2 DEF Typed
    <3>2. CASE t.node[grand].first = p
      <4> DEFINE at == [up EXCEPT ![grand].first = keep]
      <4>1. u = [root |-> t.root, node |-> at]
        BY <2>2, <3>2 DEF CollapseInto, Tree, up, rest, grand
      <4>2. at = [m \in L |-> IF m = grand THEN [up[m] EXCEPT !.first = keep] ELSE up[m]]
        BY <1>14, <3>1
      <4>3. ASSUME NEW m \in L
            PROVE  LET x == [up[m] EXCEPT !.first = keep]
                   IN /\ x \in NodesOf(P) /\ x.first = keep /\ x.parent = up[m].parent
                      /\ x.second = up[m].second /\ x.kind = up[m].kind /\ x.tabs = up[m].tabs
                      /\ x.active = up[m].active
        BY <1>13, <1>14 DEF NodesOf
      <4> HIDE DEF at
      <4>4. /\ at \in [L -> NodesOf(P)]
            /\ \A m \in L : /\ at[m].parent = up[m].parent /\ at[m].second = up[m].second
                            /\ at[m].kind = up[m].kind /\ at[m].tabs = up[m].tabs
                            /\ at[m].active = up[m].active
                            /\ at[m].first = IF m = grand THEN keep ELSE up[m].first
        BY <1>14, <4>2, <4>3
      <4>5. u \in [root : Nat, node : [L -> NodesOf(P)]] /\ u.root = t.root /\ u.node = at
        BY <3>1, <4>1, <4>4
      <4> HIDE DEF u
      <4> QED
        BY <1>14, <2>2, <3>2, <4>4, <4>5
    <3>3. CASE t.node[grand].first # p
      <4> DEFINE at == [up EXCEPT ![grand].second = keep]
      <4>1. u = [root |-> t.root, node |-> at]
        BY <2>2, <3>3 DEF CollapseInto, Tree, up, rest, grand
      <4>2. at = [m \in L |-> IF m = grand THEN [up[m] EXCEPT !.second = keep] ELSE up[m]]
        BY <1>14, <3>1
      <4>3. ASSUME NEW m \in L
            PROVE  LET x == [up[m] EXCEPT !.second = keep]
                   IN /\ x \in NodesOf(P) /\ x.second = keep /\ x.parent = up[m].parent
                      /\ x.first = up[m].first /\ x.kind = up[m].kind /\ x.tabs = up[m].tabs
                      /\ x.active = up[m].active
        BY <1>13, <1>14 DEF NodesOf
      <4> HIDE DEF at
      <4>4. /\ at \in [L -> NodesOf(P)]
            /\ \A m \in L : /\ at[m].parent = up[m].parent /\ at[m].first = up[m].first
                            /\ at[m].kind = up[m].kind /\ at[m].tabs = up[m].tabs
                            /\ at[m].active = up[m].active
                            /\ at[m].second = IF m = grand THEN keep ELSE up[m].second
        BY <1>14, <4>2, <4>3
      <4>5. u \in [root : Nat, node : [L -> NodesOf(P)]] /\ u.root = t.root /\ u.node = at
        BY <3>1, <4>1, <4>4
      <4> HIDE DEF u
      <4> QED
        BY <1>14, <2>2, <3>3, <4>4, <4>5
    <3> QED
      BY <3>2, <3>3
  <2> QED
    BY <2>1, <2>2
<1> HIDE DEF u
<1>16. Live(u) = L
  BY <1>15 DEF Live
<1>17. Typed(u, P)
  <2>1. IsFiniteSet(L) /\ L \subseteq Nat \ {0}
    BY <1>1, FS_Subset DEF Typed
  <2> QED
    BY <1>15, <1>16, <2>1 DEF Typed
<1>18. Splits(u) = Splits(t) \ {p}
  BY <1>2, <1>15, <1>16 DEF Splits
<1>19. Rooted(u)
  <2>1. CASE grand = Null
    BY <1>12, <1>15, <1>16, <2>1 DEF Rooted
  <2>2. CASE grand # Null
    <3>1. t.root \in Live(t) /\ t.node[t.root].parent = Null /\ t.root # p /\ t.root # n /\ t.root # keep
      BY <1>1, <1>3, <1>4, <1>8, <1>10, <2>2 DEF Linked, Rooted
    <3> QED
      BY <1>15, <1>16, <2>2, <3>1 DEF Rooted
  <2> QED
    BY <2>1, <2>2
<1>20. grand = Null <=> p = t.root
  BY <1>10, <1>11
<1>21. ASSUME NEW m \in Live(u) \ {u.root}
       PROVE  Hangs(u, m)
  <2>1. m \in L /\ m \in Live(t) /\ m # p /\ m # n
    BY <1>16
  <2>2. CASE m = keep
    <3>1. grand # Null /\ grand \in L /\ grand \in Splits(t)
      BY <1>11, <1>15, <1>20, <1>21, <2>2
    <3>2. u.node[m].parent = grand /\ u.node[grand].kind = "split"
          /\ keep \in {u.node[grand].first, u.node[grand].second}
      BY <1>15, <2>1, <2>2, <3>1 DEF Splits
    <3> QED
      BY <1>16, <2>2, <3>1, <3>2 DEF Hangs, IsSplit
  <2>3. CASE m # keep
    <3> DEFINE q == t.node[m].parent
    <3>1. m # t.root
      BY <1>15, <1>20, <1>21, <2>1
    <3>2. q \in Splits(t) /\ q \in Live(t) /\ m \in {t.node[q].first, t.node[q].second}
      BY <1>1, <2>1, <3>1 DEF Linked, Hangs, IsSplit, Splits
    <3>3. q # n /\ q # p
      BY <1>2, <1>4, <2>1, <2>3, <3>2
    <3>4. q \in L /\ u.node[m].parent = q
      BY <1>15, <2>1, <2>3, <3>2, <3>3
    <3> HIDE DEF q
    <3>5. q = grand => p \in {t.node[q].first, t.node[q].second}
      BY <1>8, <1>11, <1>20, <3>2
    <3>6. m \in {u.node[q].first, u.node[q].second} /\ u.node[q].kind = "split"
      BY <1>15, <2>1, <3>2, <3>4, <3>5 DEF Splits
    <3> QED
      BY <1>16, <3>4, <3>6 DEF Hangs, IsSplit
  <2> QED
    BY <2>2, <2>3
<1>22. ASSUME NEW m \in Splits(u)
       PROVE  Holds(u, m) /\ h[u.node[m].first] < h[m] /\ h[u.node[m].second] < h[m]
  <2>1. m \in Splits(t) /\ m # p /\ m \in L /\ m \in Live(t)
    BY <1>2, <1>18 DEF Splits
  <2> DEFINE a == t.node[m].first
             b == t.node[m].second
  <2>2. /\ a # b /\ a \in Live(t) /\ b \in Live(t) /\ t.node[a].parent = m /\ t.node[b].parent = m
        /\ t.node[m].tabs = <<>> /\ h[a] < h[m] /\ h[b] < h[m]
    BY <1>1, <1>7, <2>1 DEF Linked, Holds
  <2>3. a # n /\ b # n /\ a # keep /\ b # keep
    BY <1>4, <2>1, <2>2 DEF p
  <2>4. t.node[p].parent = grand
    BY DEF grand
  <2>5. CASE m = grand
    <3>0. p # t.root
      BY <1>8, <1>10, <2>1, <2>5
    <3>1. p \in {a, b} /\ h[keep] < h[m]
      BY <1>3, <1>4, <1>8, <1>9, <1>11, <2>1, <2>5, <3>0
    <3>2. u.node[keep].parent = m /\ keep \in Live(u)
      BY <1>12, <1>15, <1>16, <2>5
    <3>3. CASE a = p
      <4>1. u.node[m].first = keep /\ u.node[m].second = b
        BY <1>15, <2>1, <2>5, <3>3
      <4>2. b \in L /\ u.node[b].parent = m
        BY <1>15, <2>2, <2>3, <3>3
      <4> QED
        BY <1>15, <1>16, <2>1, <2>2, <2>3, <3>1, <3>2, <4>1, <4>2 DEF Holds
    <3>4. CASE a # p
      <4>1. u.node[m].first = a /\ u.node[m].second = keep
        BY <1>15, <2>1, <2>5, <3>4
      <4>2. a \in L /\ u.node[a].parent = m
        BY <1>15, <2>2, <2>3, <3>4
      <4> QED
        BY <1>15, <1>16, <2>1, <2>2, <2>3, <3>1, <3>2, <4>1, <4>2 DEF Holds
    <3> QED
      BY <3>3, <3>4
  <2>6. CASE m # grand
    <3>1. a # p /\ b # p
      BY <2>2, <2>4, <2>6
    <3>2. a \in L /\ b \in L /\ u.node[a].parent = m /\ u.node[b].parent = m
      BY <1>15, <2>2, <2>3, <3>1
    <3>3. u.node[m].first = a /\ u.node[m].second = b /\ u.node[m].tabs = <<>>
      BY <1>15, <2>1, <2>2, <2>6
    <3> QED
      BY <1>16, <2>2, <3>2, <3>3 DEF Holds
  <2> QED
    BY <2>5, <2>6
<1>23. Ranked(u)
  <2> DEFINE r == [m \in L |-> h[m]]
  <2>1. r \in [L -> 0 .. top]
    OBVIOUS
  <2>2. \A m \in L : r[m] = h[m]
    OBVIOUS
  <2> HIDE DEF r
  <2>3. RankedBy(u, r)
    BY <1>16, <1>22, <2>2 DEF RankedBy, Holds, Splits
  <2> QED
    BY <1>16, <2>1, <2>3 DEF Ranked
<1>24. Shaped(u, P)
  BY <1>17, <1>19, <1>21, <1>22, <1>23 DEF Shaped, Linked
<1>25. OnePlaceEach(u, S) /\ ActiveInRange(u)
  <2>1. \A m \in L : m \in Live(t) /\ u.node[m].tabs = t.node[m].tabs /\ u.node[m].active = t.node[m].active
    BY <1>15
  <2> HIDE DEF L
  <2> QED
    BY <1>1, <1>16, <2>1 DEF OnePlaceEach, ActiveInRange
<1>26. Docked(u) = Elsewhere(t, n)
  <2>1. \A x : x \in Docked(u) <=> \E m \in L : x \in ToSet(t.node[m].tabs)
    BY <1>15, <1>16 DEF Docked
  <2>2. \A x : x \in Elsewhere(t, n) <=> \E m \in Live(t) \ {n} : x \in ToSet(t.node[m].tabs)
    BY DEF Elsewhere
  <2>3. ToSet(t.node[p].tabs) = {}
    BY <1>4 DEF ToSet
  <2> QED
    BY <2>1, <2>2, <2>3
<1>27. BlankPanes(u) \subseteq BlankPanes(t)
  <2> SUFFICES ASSUME NEW m \in BlankPanes(u) PROVE m \in BlankPanes(t)
    OBVIOUS
  <2>1. m \in L /\ m # u.root /\ t.node[m].kind = "leaf" /\ t.node[m].tabs = <<>>
    BY <1>15, <1>16 DEF BlankPanes, IsLeaf
  <2>2. m # t.root
    BY <1>15, <1>20, <2>1
  <2> QED
    BY <2>1, <2>2 DEF BlankPanes, IsLeaf
<1>28. Collapsed(t, u, n)
  BY <1>15, <1>16 DEF Collapsed, p
<1> QED
  BY <1>24, <1>25, <1>26, <1>27, <1>28 DEF Leads, Sound, u, p, keep

(* A panel out of the tree: every other pane stays as it was, and its own   *)
(* goes only when nothing is left in it.                                    *)
Untouched(t, u, m) == m \in Panes(u) /\ u.node[m].tabs = t.node[m].tabs /\ u.node[m].active = t.node[m].active
LeftBehind(t, u, m, id, S) ==
  /\ LessOne(ToSet(t.node[m].tabs), id, S, ToSet(u.node[m].tabs))
  /\ ActiveTab(t.node[m]) # id => ActiveTab(u.node[m]) = ActiveTab(t.node[m])
Undocked(t, u, id, S) ==
  /\ \A m \in Panes(t) \ {LeafFor(t, id)} : Untouched(t, u, m)
  /\ LeafFor(t, id) \in Panes(u) => LeftBehind(t, u, LeafFor(t, id), id, S)
  /\ Panes(u) \subseteq Panes(t)
LEMMA UndockLeads ==
  ASSUME NEW P, NEW S, NEW t, Sound(t, P, S), NEW id
  PROVE  /\ Leads(t, Undock(t, id), P, S, Docked(Undock(t, id)))
         /\ LessOne(Docked(t), id, S, Docked(Undock(t, id)))
         /\ Undocked(t, Undock(t, id), id, S)
<1> DEFINE n == LeafFor(t, id)
           u == Undock(t, id)
<1>0. Shaped(t, P)
  BY DEF Sound
<1>1. CASE n = Null
  <2>1. u = t /\ id \notin Docked(t)
    BY <1>0, <1>1, LeafForIs DEF Undock, UndockFrom
  <2>2. Leads(t, t, P, S, Docked(t)) /\ LessOne(Docked(t), id, S, Docked(t))
    BY <2>1 DEF Leads, LessOne
  <2>3. n \notin Panes(t)
    BY <1>0, <1>1 DEF Panes, Shaped, Typed, Null
  <2> QED
    BY <1>1, <2>1, <2>2, <2>3 DEF Undocked, Untouched
<1>2. CASE n # Null
  <2>1. n \in Panes(t) /\ n \in Live(t) /\ id \in ToSet(t.node[n].tabs)
    BY <1>0, <1>2, LeafForIs DEF Panes
  <2> DEFINE leaf == DetachFrom(t.node[n], id)
             p    == t.node[n].parent
  <2>2. u = Lifted(t, n, leaf)
    BY <1>2 DEF Undock, UndockFrom
  <2> HIDE DEF n
  <2>3. t.node[n] \in NodesOf(P) /\ LeafFine(t.node[n], S) /\ p \in Nat
    BY <1>0, <2>1, NodeTyped, FineLeaves
  <2>4. leaf \in NodesOf(P) /\ Detached(t.node[n], id, S, leaf)
    BY <2>3, DetachDetaches
  <2>5. SameLinks(leaf, t.node[n]) /\ LeafFine(leaf, S) /\ LessOne(ToSet(t.node[n].tabs), id, S, ToSet(leaf.tabs))
        /\ (ActiveTab(t.node[n]) # id => ActiveTab(leaf) = ActiveTab(t.node[n]))
    BY <2>4 DEF Detached
  <2> HIDE DEF leaf
  <2>6. /\ Docked(t) = Elsewhere(t, n) \union ToSet(t.node[n].tabs)
        /\ Elsewhere(t, n) \intersect ToSet(t.node[n].tabs) \subseteq S
    BY <2>1, ElsewhereIs
  <2>7. p = Null <=> n = t.root
    BY <1>0, <2>1 DEF Shaped, Typed, Linked, Rooted, Hangs, IsSplit, Null
  <2> HIDE DEF p
  <2>8. CASE leaf.tabs # <<>> \/ p = Null
    <3>1. u = With(t, n, leaf)
      BY <2>2, <2>8 DEF Lifted, With, p
    <3>2. ToSet(leaf.tabs) \intersect Elsewhere(t, n) \subseteq S
      BY <2>5, <2>6 DEF LessOne
    <3>3. Leads(t, With(t, n, leaf), P, S, Elsewhere(t, n) \union ToSet(leaf.tabs))
          /\ Rewritten(t, With(t, n, leaf), n, leaf)
      BY <2>1, <2>4, <2>5, <2>7, <2>8, <3>2, NewContents
    <3>4. LessOne(Docked(t), id, S, Elsewhere(t, n) \union ToSet(leaf.tabs))
      BY <2>5, <2>6, <2>1 DEF LessOne
    <3>10. Docked(u) = Elsewhere(t, n) \union ToSet(leaf.tabs)
      BY <3>1, <3>3 DEF Leads
    <3>5. Panes(u) = Panes(t)
      BY <3>1, <3>3 DEF Rewritten, Panes
    <3>6. \A m \in Panes(t) \ {n} : u.node[m] = t.node[m]
      BY <3>1, <3>3 DEF Rewritten, Panes
    <3>7. u.node[n] = leaf
      BY <3>1, <3>3 DEF Rewritten
    <3>8. \A m \in Panes(t) \ {n} : Untouched(t, u, m)
      BY <3>5, <3>6 DEF Untouched
    <3>9. LeftBehind(t, u, n, id, S)
      BY <2>5, <3>7 DEF LeftBehind
    <3> QED
      BY <2>1, <3>1, <3>3, <3>4, <3>10, <3>5, <3>8, <3>9 DEF Undocked, n
  <2>9. CASE ~(leaf.tabs # <<>> \/ p = Null)
    <3>1. u = CollapseInto(t, t.node[n].parent, n, Sibling(t, n))
      BY <2>2, <2>9 DEF Lifted, p, Sibling
    <3>2. Leads(t, u, P, S, Elsewhere(t, n)) /\ Collapsed(t, u, n)
      <4>1. n # t.root
        BY <2>7, <2>9
      <4> HIDE DEF u
      <4> QED
        BY <2>1, <3>1, <4>1, CollapseIs
    <3>3. ToSet(t.node[n].tabs) = {id}
      <4>1. ToSet(leaf.tabs) = {}
        BY <2>9 DEF ToSet
      <4> QED
        BY <2>1, <2>5, <4>1 DEF LessOne
    <3>7. LessOne(Docked(t), id, S, Elsewhere(t, n)) /\ Docked(u) = Elsewhere(t, n)
      BY <2>6, <3>2, <3>3 DEF LessOne, Leads
    <3>4. n \notin Panes(u)
      BY <3>2 DEF Collapsed, Panes
    <3>5. t.node[n].parent \in Splits(t)
      BY <1>0, <2>1, <2>7, <2>9 DEF Shaped, Linked, Hangs, IsSplit, Splits
    <3>6. Panes(u) \subseteq Panes(t) /\ \A m \in Panes(t) \ {n} : Untouched(t, u, m)
      BY <3>2, <3>5 DEF Collapsed, Panes, Untouched, Splits
    <3> HIDE DEF u
    <3> QED
      BY <3>2, <3>4, <3>6, <3>7 DEF Undocked, n, u
  <2> QED
    BY <2>8, <2>9
<1> QED
  BY <1>1, <1>2

(* A new pane beside the whole tree.                                        *)
LEMMA WrappedIs ==
  ASSUME NEW P, NEW S, NEW t, Sound(t, P, S), NEW r \in Nat \ {0}, NEW f \in Nat \ {0}, r # f,
         r \notin Live(t), f \notin Live(t), NEW side, NEW tabs \in Seq(P), tabs # <<>>,
         Once(tabs, S), ToSet(tabs) \intersect Docked(t) \subseteq S
  PROVE  /\ Sound(Wrapped(t, r, f, side, tabs), P, S)
         /\ Docked(Wrapped(t, r, f, side, tabs)) = Docked(t) \union ToSet(tabs)
         /\ t.root \notin Panes(t) \/ t.node[t.root].tabs # <<>>
              => BlankPanes(Wrapped(t, r, f, side, tabs)) \subseteq BlankPanes(t)
<1> DEFINE a     == t.root
           above == IF side = "before" THEN SplitNode(Null, f, a) ELSE SplitNode(Null, a, f)
           fresh == [Leaf(tabs, 0) EXCEPT !.parent = r]
           lower == [t.node[a] EXCEPT !.parent = r]
           L     == Live(t) \union {r, f}
           new   == [m \in L |-> IF m = r THEN above ELSE IF m = f THEN fresh
                                 ELSE IF m = a THEN [t.node[m] EXCEPT !.parent = r] ELSE t.node[m]]
           u     == Wrapped(t, r, f, side, tabs)
<1>1. Linked(t) /\ Ranked(t) /\ OnePlaceEach(t, S) /\ ActiveInRange(t) /\ Typed(t, P)
  BY DEF Sound, Shaped
<1>2. a \in Live(t) /\ t.node[a].parent = Null /\ a # r /\ a # f /\ a \in Nat
  BY <1>1 DEF Linked, Rooted, Typed
<1>3. t.node \in [Live(t) -> NodesOf(P)] /\ \A m \in Live(t) : m \in Nat \ {0}
  BY <1>1 DEF Typed
<1>4. /\ above \in NodesOf(P) /\ above.kind = "split" /\ above.parent = Null /\ above.tabs = <<>>
      /\ above.active = 0
      /\ \/ above.first = f /\ above.second = a
         \/ above.first = a /\ above.second = f
  <2>1. <<>> \in Seq(P)
    OBVIOUS
  <2>2. CASE side = "before"
    BY <1>2, <2>1, <2>2 DEF NodesOf, SplitNode, Null
  <2>3. CASE side # "before"
    BY <1>2, <2>1, <2>3 DEF NodesOf, SplitNode, Null
  <2> QED
    BY <2>2, <2>3
<1>5. /\ fresh \in NodesOf(P) /\ fresh.kind = "leaf" /\ fresh.parent = r /\ fresh.tabs = tabs
      /\ fresh.active = 0
  BY DEF NodesOf, Leaf, Null
<1>6. /\ lower \in NodesOf(P) /\ lower.kind = t.node[a].kind /\ lower.parent = r
      /\ lower.tabs = t.node[a].tabs /\ lower.active = t.node[a].active
      /\ lower.first = t.node[a].first /\ lower.second = t.node[a].second
  BY <1>2, <1>3 DEF NodesOf
<1>7. u = [root |-> r, node |-> new]
  BY DEF Wrapped, Tree
<1>8. \A m \in L : new[m] = IF m = r THEN above ELSE IF m = f THEN fresh
                            ELSE IF m = a THEN lower ELSE t.node[m]
  BY <1>2
<1> HIDE DEF above, fresh, lower
<1>9. new \in [L -> NodesOf(P)]
  <2>1. \A m \in L : new[m] \in NodesOf(P)
    BY <1>3, <1>4, <1>5, <1>6, <1>8
  <2>2. new = [m \in L |-> new[m]]
    OBVIOUS
  <2> HIDE DEF new
  <2> QED
    BY <2>1, <2>2
<1> HIDE DEF new
<1>10. u.root = r /\ u.node = new /\ u \in [root : Nat, node : [L -> NodesOf(P)]]
  BY <1>7, <1>9
<1> HIDE DEF u
<1>11. Live(u) = L
  BY <1>9, <1>10 DEF Live
<1>12. \A m \in L : u.node[m] = IF m = r THEN above ELSE IF m = f THEN fresh
                                ELSE IF m = a THEN lower ELSE t.node[m]
  BY <1>8, <1>10
<1>13. Typed(u, P)
  <2>1. IsFiniteSet(Live(t) \union {r} \union {f})
    BY <1>1, FS_AddElement DEF Typed
  <2>2. L = Live(t) \union {r} \union {f} /\ L \subseteq Nat \ {0}
    BY <1>3
  <2> QED
    BY <1>10, <1>11, <2>1, <2>2 DEF Typed
<1>14. \A m \in Live(t) : /\ u.node[m].kind = t.node[m].kind /\ u.node[m].tabs = t.node[m].tabs
                          /\ u.node[m].active = t.node[m].active
                          /\ u.node[m].first = t.node[m].first /\ u.node[m].second = t.node[m].second
                          /\ u.node[m].parent = IF m = a THEN r ELSE t.node[m].parent
  BY <1>6, <1>12
<1>15. u.node[r] = above /\ u.node[f] = fresh
  BY <1>12
<1>16. Splits(u) = Splits(t) \union {r}
  BY <1>4, <1>5, <1>11, <1>14, <1>15 DEF Splits
<1>17. Rooted(u)
  BY <1>4, <1>10, <1>11, <1>15 DEF Rooted
<1>18. ASSUME NEW m \in Live(u) \ {u.root}
       PROVE  Hangs(u, m)
  <2>1. CASE m = f \/ m = a
    <3>1. u.node[m].parent = r /\ m \in {above.first, above.second}
      BY <1>2, <1>4, <1>5, <1>14, <1>15, <2>1
    <3> QED
      BY <1>4, <1>11, <1>15, <3>1 DEF Hangs, IsSplit
  <2>2. CASE m \in Live(t) /\ m # a
    <3>1. Hangs(t, m) /\ u.node[m].parent = t.node[m].parent
      BY <1>1, <1>14, <2>2 DEF Linked
    <3> QED
      BY <1>11, <1>14, <3>1 DEF Hangs, IsSplit
  <2> QED
    BY <1>10, <1>11, <1>18, <2>1, <2>2
<1>19. ASSUME NEW m \in Splits(u)
       PROVE  Holds(u, m)
  <2>1. CASE m = r
    <3>1. u.node[f].parent = r /\ u.node[a].parent = r /\ f \in Live(u) /\ a \in Live(u)
      BY <1>2, <1>5, <1>11, <1>14, <1>15
    <3> QED
      BY <1>2, <1>4, <1>15, <2>1, <3>1 DEF Holds
  <2>2. CASE m \in Splits(t)
    <3>1. Holds(t, m) /\ m \in Live(t) /\ m # Null
      BY <1>1, <1>3, <2>2 DEF Linked, Splits, Null
    <3>2. t.node[m].first # a /\ t.node[m].second # a
      BY <1>2, <3>1 DEF Holds
    <3> QED
      BY <1>11, <1>14, <3>1, <3>2 DEF Holds
  <2> QED
    BY <1>16, <2>1, <2>2
<1>20. Ranked(u)
  <2>0. PICK top \in Nat : \E h \in [Live(t) -> 0 .. top] : RankedBy(t, h)
    BY <1>1 DEF Ranked
  <2>1. PICK h \in [Live(t) -> 0 .. top] : RankedBy(t, h)
    BY <2>0
  <2> DEFINE g == [m \in L |-> IF m = r THEN top + 1 ELSE IF m = f THEN 0 ELSE h[m]]
  <2>2. g \in [L -> 0 .. top + 1] /\ g[r] = top + 1 /\ g[f] = 0 /\ \A m \in Live(t) : g[m] = h[m]
    <3>1. top + 1 \in 0 .. top + 1 /\ \A m \in Live(t) : h[m] \in 0 .. top + 1
      OBVIOUS
    <3> QED
      BY <3>1
  <2> HIDE DEF g
  <2>3. g[a] < g[r] /\ g[f] < g[r]
    <3>1. h[a] \in 0 .. top
      BY <1>2
    <3> QED
      BY <1>2, <2>2, <3>1
  <2>4. ASSUME NEW m \in Splits(u)
        PROVE  g[u.node[m].first] < g[m] /\ g[u.node[m].second] < g[m]
    <3>1. CASE m = r
      BY <1>4, <1>15, <2>3, <3>1
    <3>2. CASE m \in Splits(t)
      <4>1. /\ m \in Live(t) /\ t.node[m].first \in Live(t) /\ t.node[m].second \in Live(t)
            /\ h[t.node[m].first] < h[m] /\ h[t.node[m].second] < h[m]
        BY <1>1, <2>1, <3>2 DEF Linked, Holds, RankedBy, Splits
      <4> QED
        BY <1>14, <2>2, <4>1
    <3> QED
      BY <1>16, <3>1, <3>2
  <2>5. RankedBy(u, g) /\ top + 1 \in Nat
    BY <2>4 DEF RankedBy
  <2> QED
    BY <1>11, <2>2, <2>5 DEF Ranked
<1>21. Shaped(u, P)
  BY <1>13, <1>17, <1>18, <1>19, <1>20 DEF Shaped, Linked
<1> DEFINE held(m) == IF m = r THEN <<>> ELSE IF m = f THEN tabs ELSE t.node[m].tabs
<1>22. \A m \in L : u.node[m].tabs = held(m)
  BY <1>4, <1>5, <1>14, <1>15
<1>23. Once(<<>>, S) /\ ToSet(<<>>) = {}
  BY DEF Once, ToSet
<1>24. \A m \in Live(t) : ToSet(t.node[m].tabs) \subseteq Docked(t)
  BY DEF Docked
<1>25. OnePlaceEach(u, S)
  <2>1. \A m \in L : Once(held(m), S)
    BY <1>1, <1>23 DEF OnePlaceEach
  <2>2. ASSUME NEW m \in L, NEW l \in L, m # l
        PROVE  ToSet(held(m)) \intersect ToSet(held(l)) \subseteq S
    BY <1>1, <1>23, <1>24, <2>2 DEF OnePlaceEach
  <2> HIDE DEF held
  <2> QED
    BY <1>11, <1>22, <2>1, <2>2 DEF OnePlaceEach
<1>26. ActiveInRange(u)
  <2> SUFFICES ASSUME NEW m \in L
               PROVE  u.node[m].active \in 0 .. (IF u.node[m].tabs = <<>> THEN 0 ELSE Len(u.node[m].tabs) - 1)
    BY <1>11 DEF ActiveInRange
  <2>1. CASE m = r
    BY <1>4, <1>15, <2>1
  <2>2. CASE m = f
    <3>1. Len(tabs) \in Nat /\ Len(tabs) # 0
      OBVIOUS
    <3> QED
      BY <1>5, <1>15, <2>2, <3>1
  <2>3. CASE m \in Live(t)
    BY <1>1, <1>14, <2>3 DEF ActiveInRange
  <2> QED
    BY <2>1, <2>2, <2>3
<1>27. Docked(u) = Docked(t) \union ToSet(tabs)
  <2>1. \A x : x \in Docked(u) <=> \E m \in L : x \in ToSet(held(m))
    BY <1>11, <1>22 DEF Docked
  <2>2. \A x : x \in Docked(t) <=> \E m \in Live(t) : x \in ToSet(t.node[m].tabs)
    BY DEF Docked
  <2>3. ASSUME NEW x \in Docked(t)
        PROVE  \E m \in L : x \in ToSet(held(m))
    <3>1. PICK m \in Live(t) : x \in ToSet(t.node[m].tabs)
      BY <2>2
    <3> QED
      BY <3>1
  <2>4. ToSet(held(f)) = ToSet(tabs)
    OBVIOUS
  <2>5. ASSUME NEW x, NEW m \in L, x \in ToSet(held(m))
        PROVE  x \in Docked(t) \union ToSet(tabs)
    BY <1>23, <2>2, <2>5
  <2> HIDE DEF held
  <2> QED
    BY <2>1, <2>3, <2>4, <2>5
<1>28. ASSUME t.root \notin Panes(t) \/ t.node[t.root].tabs # <<>>
       PROVE  BlankPanes(u) \subseteq BlankPanes(t)
  <2> SUFFICES ASSUME NEW m \in BlankPanes(u) PROVE m \in BlankPanes(t)
    OBVIOUS
  <2>1. m \in L /\ m # r /\ u.node[m].kind = "leaf" /\ u.node[m].tabs = <<>>
    BY <1>10, <1>11 DEF BlankPanes, IsLeaf
  <2>2. m \in Live(t) /\ t.node[m].kind = "leaf" /\ t.node[m].tabs = <<>>
    BY <1>5, <1>14, <1>15, <2>1
  <2>3. m # t.root
    BY <1>28, <2>2 DEF Panes, Splits
  <2> QED
    BY <2>2, <2>3 DEF BlankPanes, IsLeaf
<1> QED
  BY <1>21, <1>25, <1>26, <1>27, <1>28 DEF Sound, u

-----------------------------------------------------------------------------
(* The operations of the tree that are made of these.                       *)
LEMMA FreshTwo ==
  ASSUME NEW P, NEW t, Shaped(t, P)
  PROVE  /\ New(t) \in Nat \ {0} /\ New(t) \notin Live(t)
         /\ New2(t) \in Nat \ {0} /\ New2(t) \notin Live(t) /\ New(t) # New2(t)
<1>1. IsFiniteSet(Live(t)) /\ Live(t) \subseteq Nat \ {0}
  BY DEF Shaped, Typed
<1>2. New(t) \in Nat \ {0} /\ New(t) \notin Live(t)
  BY <1>1, FreeIsFree DEF New
<1>3. IsFiniteSet(Live(t) \union {New(t)}) /\ Live(t) \union {New(t)} \subseteq Nat \ {0}
  BY <1>1, <1>2, FS_AddElement
<1>4. New2(t) \in Nat \ {0} /\ New2(t) \notin Live(t) \union {New(t)}
  BY <1>3, FreeIsFree DEF New2
<1> QED
  BY <1>2, <1>4

LEMMA LeadsOn ==
  ASSUME NEW P, NEW S, NEW t, NEW u, NEW v, NEW D, NEW E, Leads(t, u, P, S, D), Leads(u, v, P, S, E)
  PROVE  Leads(t, v, P, S, E)
  BY DEF Leads

LEMMA SplitLeads ==
  ASSUME NEW P, NEW S, NEW t, Sound(t, P, S), NEW n \in Panes(t), NEW id \in P,
         id \in S \/ id \notin Docked(t), NEW side
  PROVE  Leads(t, Split(t, n, side, id), P, S, Docked(t) \union {id})
<1>1. Shaped(t, P)
  BY DEF Sound
<1>2. IsLeaf(t, n)
  BY <1>1, NodeTyped DEF Panes
<1>3. CASE side = "center" \/ t.node[n].tabs = <<>>
  BY <1>2, <1>3, AddTabLeads DEF Split
<1>4. CASE ~(side = "center" \/ t.node[n].tabs = <<>>)
  <2>1. Split(t, n, side, id) = SplitAt(t, n, New(t), New2(t), side, id)
    BY <1>2, <1>4 DEF Split
  <2> QED
    BY <1>1, <1>4, <2>1, FreshTwo, SplitAtIs
<1> QED
  BY <1>3, <1>4

LEMMA DockFirstLeads ==
  ASSUME NEW P, NEW S, NEW t, Sound(t, P, S), NEW id \in P
  PROVE  Leads(t, DockFirst(t, id), P, S, Docked(t) \union {id})
<1> DEFINE g     == Gather(t)
           B     == {n \in Live(t) : t.node[n].tabs = <<>>}
           i     == FirstAt(g, B)
           blank == FirstIn(g, B)
           n     == IF blank # Null THEN blank ELSE Head(g)
<1>1. Shaped(t, P)
  BY DEF Sound
<1>2. CASE LeafFor(t, id) # Null
  <2>1. id \in Docked(t)
    BY <1>2, DockedIs
  <2>2. Docked(t) \union {id} = Docked(t)
    BY <2>1
  <2> QED
    BY <1>2, <2>2, ActivateLeads DEF DockFirst
<1>3. CASE LeafFor(t, id) = Null
  <2>1. id \notin Docked(t)
    BY <1>3, DockedIs
  <2>2. g \in Seq(Panes(t)) /\ g # <<>>
    BY <1>1, GatherGathers DEF Panes
  <2>3. i # 0 => i \in 1 .. Len(g)
    <3> HIDE DEF g, B
    <3> QED
      BY <2>2, FirstPlace
  <2>4. n \in Panes(t)
    <3>1. blank = IF i = 0 THEN Null ELSE g[i]
      BY DEF FirstIn
    <3>2. i # 0 => g[i] \in Panes(t)
      BY <2>2, <2>3
    <3>3. Head(g) \in Panes(t)
      BY <2>2
    <3> HIDE DEF g, i, blank
    <3> QED
      BY <3>1, <3>2, <3>3
  <2>5. DockFirst(t, id) = AddTab(t, n, id)
    BY <1>3 DEF DockFirst
  <2> HIDE DEF n
  <2> QED
    BY <2>1, <2>4, <2>5, AddTabLeads
<1> QED
  BY <1>2, <1>3

(* A root that is a pane is the whole tree.                                 *)
LEMMA LoneRoot ==
  ASSUME NEW P, NEW t, Shaped(t, P), t.root \in Panes(t)
  PROVE  Panes(t) = {t.root} /\ Docked(t) = ToSet(t.node[t.root].tabs)
<1>1. PICK g : Gather(t) = g[t.root] /\ \A n \in Live(t) : g[n] = Collected(t, g, n)
  BY GatherOpens
<1>2. t.root \in Live(t) /\ t.node[t.root].kind = "leaf"
  BY NodeTyped DEF Panes
<1>3. Gather(t) = <<t.root>>
  BY <1>1, <1>2 DEF Collected
<1>4. ToSet(<<t.root>>) = {t.root}
  BY DEF ToSet
<1>5. Panes(t) = {t.root}
  BY <1>3, <1>4, GatherGathers DEF Panes
<1>6. \A n \in Splits(t) : ToSet(t.node[n].tabs) = {}
  BY DEF Shaped, Linked, Holds, ToSet
<1> QED
  BY <1>2, <1>5, <1>6 DEF Docked, Panes

LEMMA WrapLeads ==
  ASSUME NEW P, NEW S, NEW t, Sound(t, P, S), ~Empty(t), NEW id \in P, id \in S \/ id \notin Docked(t),
         NEW side
  PROVE  Leads(t, Wrap(t, side, <<id>>), P, S, Docked(t) \union {id})
<1>1. Shaped(t, P)
  BY DEF Sound
<1>2. <<id>> \in Seq(P) /\ <<id>> # <<>> /\ Once(<<id>>, S) /\ ToSet(<<id>>) = {id}
  BY DEF Once, ToSet
<1> DEFINE tabs == <<id>>
<1> HIDE DEF tabs
<1>3. ToSet(tabs) \intersect Docked(t) \subseteq S
  BY <1>2 DEF tabs
<1>4. t.root \notin Panes(t) \/ t.node[t.root].tabs # <<>>
  <2>1. SUFFICES ASSUME t.root \in Panes(t), t.node[t.root].tabs = <<>> PROVE FALSE
    OBVIOUS
  <2>2. Docked(t) = ToSet(<<>>)
    BY <1>1, <2>1, LoneRoot
  <2> QED
    BY <2>2 DEF Empty, ToSet
<1>5. New(t) \in Nat \ {0} /\ New2(t) \in Nat \ {0} /\ New(t) # New2(t) /\ New(t) \notin Live(t)
      /\ New2(t) \notin Live(t)
  BY <1>1, FreshTwo
<1>6. tabs \in Seq(P) /\ tabs # <<>> /\ Once(tabs, S) /\ ToSet(tabs) = {id}
  BY <1>2 DEF tabs
<1>7. /\ Sound(Wrapped(t, New(t), New2(t), side, tabs), P, S)
      /\ Docked(Wrapped(t, New(t), New2(t), side, tabs)) = Docked(t) \union ToSet(tabs)
      /\ BlankPanes(Wrapped(t, New(t), New2(t), side, tabs)) \subseteq BlankPanes(t)
  BY <1>3, <1>4, <1>5, <1>6, WrappedIs
<1> QED
  BY <1>6, <1>7 DEF Leads, Wrap, tabs

LEMMA SplitRootLeads ==
  ASSUME NEW P, NEW S, NEW t, Sound(t, P, S), NEW id \in P, NEW side
  PROVE  Leads(t, SplitRoot(t, side, id), P, S, Docked(t) \union {id})
<1> DEFINE u == Undock(t, id)
<1>1. Leads(t, u, P, S, Docked(u)) /\ LessOne(Docked(t), id, S, Docked(u))
  BY UndockLeads
<1> HIDE DEF u
<1>2. Sound(u, P, S) /\ Docked(u) \union {id} = Docked(t) \union {id} /\ (id \in S \/ id \notin Docked(u))
  BY <1>1 DEF Leads, LessOne
<1>3. Leads(u, BesideAll(u, side, id), P, S, Docked(u) \union {id})
  BY <1>2, DockFirstLeads, WrapLeads DEF BesideAll
<1>4. Docked(u) \union {id} = Docked(t) \union {id}
  BY <1>2
<1> QED
  BY <1>1, <1>3, <1>4, LeadsOn DEF SplitRoot, u

LEMMA DropHomeLeads ==
  ASSUME NEW P, NEW S, NEW t, Sound(t, P, S), NEW id \in P, NEW where, NEW n \in Panes(t), LeafFor(t, id) = n
  PROVE  Leads(t, DropHome(t, n, where, id), P, S, Docked(t) \union {id})
<1>1. Shaped(t, P) /\ n # Null
  BY DEF Sound, Shaped, Typed, Panes, Null
<1>2. id \in ToSet(t.node[n].tabs) /\ n \in Live(t)
  BY <1>1, LeafForIs DEF Panes
<1>3. id \in Docked(t) /\ ToSet(t.node[n].tabs) \subseteq Docked(t)
  BY <1>2 DEF Docked
<1>4. Docked(t) \union {id} = Docked(t)
  BY <1>3
<1>5. CASE where = "center"
  BY <1>4, <1>5, ActivateLeads DEF DropHome
<1>6. CASE where # "center" /\ Len(t.node[n].tabs) <= 1
  BY <1>4, <1>6 DEF DropHome, Leads
<1>7. CASE where # "center" /\ ~(Len(t.node[n].tabs) <= 1)
  <2> DEFINE leaf == DetachFrom(t.node[n], id)
  <2>1. DropHome(t, n, where, id) = Split(With(t, n, leaf), n, where, id)
    BY <1>7 DEF DropHome, With
  <2>2. t.node[n] \in NodesOf(P) /\ t.node[n].tabs \in Seq(P) /\ LeafFine(t.node[n], S)
    BY <1>1, <1>2, NodeTyped, FineLeaves
  <2>3. leaf \in NodesOf(P) /\ Detached(t.node[n], id, S, leaf)
    BY <2>2, DetachDetaches
  <2> HIDE DEF leaf
  <2>4. SameLinks(leaf, t.node[n]) /\ LeafFine(leaf, S) /\ LessOne(ToSet(t.node[n].tabs), id, S, ToSet(leaf.tabs))
    BY <2>3 DEF Detached
  <2>5. leaf.tabs # <<>>
    <3>1. Len(t.node[n].tabs) > 1
      BY <1>7, <2>2
    <3> QED
      BY <2>3, <3>1 DEF Detached
  <2>11. /\ Docked(t) = Elsewhere(t, n) \union ToSet(t.node[n].tabs)
         /\ Elsewhere(t, n) \intersect ToSet(t.node[n].tabs) \subseteq S
    BY <1>2, ElsewhereIs
  <2>12. ToSet(leaf.tabs) \intersect Elsewhere(t, n) \subseteq S
    BY <2>4, <2>11 DEF LessOne
  <2>6. /\ Leads(t, With(t, n, leaf), P, S, Elsewhere(t, n) \union ToSet(leaf.tabs))
        /\ Rewritten(t, With(t, n, leaf), n, leaf)
    BY <2>3, <2>4, <2>5, <2>12, NewContents
  <2> DEFINE u == With(t, n, leaf)
  <2> HIDE DEF u
  <2>7. Leads(t, u, P, S, Docked(u)) /\ Rewritten(t, u, n, leaf) /\ LessOne(Docked(t), id, S, Docked(u))
    <3>1. LessOne(Docked(t), id, S, Elsewhere(t, n) \union ToSet(leaf.tabs))
      BY <1>2, <2>4, <2>11 DEF LessOne
    <3> QED
      BY <2>6, <3>1 DEF u, Leads
  <2>8. Sound(u, P, S) /\ n \in Panes(u) /\ (id \in S \/ id \notin Docked(u))
        /\ Docked(u) \union {id} = Docked(t) \union {id}
    BY <2>7 DEF Leads, Rewritten, Panes, LessOne
  <2>9. Leads(u, Split(u, n, where, id), P, S, Docked(u) \union {id})
    BY <2>8, SplitLeads
  <2>10. Docked(u) \union {id} = Docked(t) \union {id}
    BY <2>8
  <2> QED
    BY <2>1, <2>7, <2>9, <2>10, LeadsOn DEF u
<1> QED
  BY <1>5, <1>6, <1>7

LEMMA DropOntoLeads ==
  ASSUME NEW P, NEW S, NEW t, Sound(t, P, S), NEW id \in P, NEW where, NEW n \in Live(t), IsLeaf(t, n)
  PROVE  Leads(t, DropOnto(t, n, where, id), P, S, Docked(t) \union {id})
<1>1. Shaped(t, P)
  BY DEF Sound
<1>2. n \in Panes(t)
  BY <1>1, NodeTyped
<1>3. CASE LeafFor(t, id) = n
  BY <1>2, <1>3, DropHomeLeads DEF DropOnto
<1>4. CASE LeafFor(t, id) # n
  <2> DEFINE u == Undock(t, id)
  <2>1. Leads(t, u, P, S, Docked(u)) /\ Undocked(t, u, id, S) /\ LessOne(Docked(t), id, S, Docked(u))
    BY UndockLeads
  <2> HIDE DEF u
  <2>2. Sound(u, P, S) /\ (id \in S \/ id \notin Docked(u)) /\ Docked(u) \union {id} = Docked(t) \union {id}
    BY <2>1 DEF Leads, LessOne
  <2>3. n \in Panes(u)
    BY <1>2, <1>4, <2>1 DEF Undocked, Untouched
  <2>4. Leads(u, Split(u, n, where, id), P, S, Docked(u) \union {id})
    BY <2>2, <2>3, SplitLeads
  <2>5. Docked(u) \union {id} = Docked(t) \union {id}
    BY <2>2
  <2> QED
    BY <1>4, <2>1, <2>4, <2>5, LeadsOn DEF DropOnto, u
<1> QED
  BY <1>3, <1>4

(* A lone pane, and the five slots of the old file's format.                *)
LEMMA OnceWhenInjective ==
  ASSUME NEW P, NEW S, NEW tabs \in Seq(P), IsInjective(tabs)
  PROVE  Once(tabs, S)
<1>1. DOMAIN tabs = 1 .. Len(tabs)
  OBVIOUS
<1> QED
  BY <1>1 DEF IsInjective, Once

LEMMA OneLeafSound ==
  ASSUME NEW P, NEW S, NEW tabs \in Seq(P), IsInjective(tabs)
  PROVE  Sound(OneLeaf(tabs), P, S) /\ Docked(OneLeaf(tabs)) = ToSet(tabs)
<1> DEFINE a == Free({})
           u == OneLeaf(tabs)
<1>1. a \in Nat \ {0}
  BY FS_EmptySet, FreeIsFree
<1> HIDE DEF a
<1> DEFINE node == [n \in {a} |-> Leaf(tabs, 0)]
<1>2. u = [root |-> a, node |-> node]
  BY DEF OneLeaf, Tree, a
<1>3. Leaf(tabs, 0) \in NodesOf(P)
  BY DEF Leaf, NodesOf, Null
<1>4. node \in [{a} -> NodesOf(P)] /\ DOMAIN node = {a}
  BY <1>3
<1>5. node[a] = Leaf(tabs, 0)
  OBVIOUS
<1>6. /\ node[a].kind = "leaf" /\ node[a].parent = Null /\ node[a].tabs = tabs /\ node[a].active = 0
  BY <1>5 DEF Leaf
<1> HIDE DEF node
<1>7. u.root = a /\ u.node = node /\ Live(u) = {a}
  BY <1>2, <1>4 DEF Live
<1>8. Typed(u, P)
  <2>1. IsFiniteSet({a})
    BY FS_Singleton
  <2> QED
    BY <1>1, <1>2, <1>4, <1>7, <2>1 DEF Typed
<1> HIDE DEF u
<1>9. Splits(u) = {}
  BY <1>6, <1>7 DEF Splits
<1>10. Linked(u)
  BY <1>6, <1>7, <1>9 DEF Linked, Rooted
<1>11. Ranked(u)
  <2>1. [n \in {a} |-> 0] \in [Live(u) -> 0 .. 0]
    BY <1>7
  <2> QED
    BY <1>9, <2>1 DEF Ranked, RankedBy
<1>12. OnePlaceEach(u, S)
  BY <1>6, <1>7, OnceWhenInjective DEF OnePlaceEach
<1>13. ActiveInRange(u)
  <2>1. Len(tabs) \in Nat /\ (tabs # <<>> => Len(tabs) # 0)
    OBVIOUS
  <2> QED
    BY <1>6, <1>7, <2>1 DEF ActiveInRange
<1>14. Docked(u) = ToSet(tabs)
  BY <1>6, <1>7 DEF Docked
<1> QED
  BY <1>8, <1>10, <1>11, <1>12, <1>13, <1>14 DEF Sound, Shaped, u

LEMMA WrapSlotSound ==
  ASSUME NEW P, NEW S, NEW t, Sound(t, P, S), NEW side, NEW tabs \in Seq(P), IsInjective(tabs),
         ToSet(tabs) \intersect Docked(t) = {}
  PROVE  Sound(WrapSlot(t, side, tabs), P, S)
         /\ Docked(WrapSlot(t, side, tabs)) = Docked(t) \union ToSet(tabs)
<1>1. CASE tabs = <<>>
  <2>1. ToSet(tabs) = {}
    BY <1>1 DEF ToSet
  <2> QED
    BY <1>1, <2>1 DEF WrapSlot
<1>2. CASE tabs # <<>>
  <2>1. Shaped(t, P)
    BY DEF Sound
  <2>2. Once(tabs, S) /\ ToSet(tabs) \intersect Docked(t) \subseteq S
    BY OnceWhenInjective
  <2> QED
    BY <1>2, <2>1, <2>2, FreshTwo, WrappedIs DEF WrapSlot, Wrap
<1> QED
  BY <1>1, <1>2

LEMMA LoadV1Sound ==
  ASSUME NEW P, NEW S, NEW slots \in [Slots -> Seq(P)],
         \A h \in Slots : IsInjective(slots[h]),
         \A h, k \in Slots : h # k => ToSet(slots[h]) \intersect ToSet(slots[k]) = {}
  PROVE  Sound(LoadV1(slots), P, S) /\ Docked(LoadV1(slots)) = UNION {ToSet(slots[h]) : h \in Slots}
<1> DEFINE held(h) == ToSet(slots[h])
           c      == OneLeaf(slots["center"])
           above  == WrapSlot(c, "after", slots["bottom"])
           below  == WrapSlot(above, "before", slots["top"])
           beside == WrapSlot(below, "after", slots["right"])
           whole  == WrapSlot(beside, "before", slots["left"])
<1>1. LoadV1(slots) = whole
  BY DEF LoadV1
<1>2. \A h \in Slots : slots[h] \in Seq(P) /\ IsInjective(slots[h])
  OBVIOUS
<1>3. "center" \in Slots /\ "bottom" \in Slots /\ "top" \in Slots /\ "right" \in Slots /\ "left" \in Slots
  BY DEF Slots
<1>4. \A h, k \in Slots : h # k => held(h) \intersect held(k) = {}
  OBVIOUS
<1>5. Sound(c, P, S) /\ Docked(c) = held("center")
  BY <1>2, <1>3, OneLeafSound
<1> HIDE DEF c
<1>6. Sound(above, P, S) /\ Docked(above) = held("center") \union held("bottom")
  <2>1. held("bottom") \intersect Docked(c) = {}
    BY <1>3, <1>4, <1>5
  <2> QED
    BY <1>2, <1>3, <1>5, <2>1, WrapSlotSound
<1> HIDE DEF above
<1>7. Sound(below, P, S) /\ Docked(below) = held("center") \union held("bottom") \union held("top")
  <2>1. held("top") \intersect Docked(above) = {}
    BY <1>3, <1>4, <1>6
  <2> QED
    BY <1>2, <1>3, <1>6, <2>1, WrapSlotSound
<1> HIDE DEF below
<1>8. Sound(beside, P, S)
      /\ Docked(beside) = held("center") \union held("bottom") \union held("top") \union held("right")
  <2>1. held("right") \intersect Docked(below) = {}
    BY <1>3, <1>4, <1>7
  <2> QED
    BY <1>2, <1>3, <1>7, <2>1, WrapSlotSound
<1> HIDE DEF beside
<1>9. Sound(whole, P, S) /\ Docked(whole) = held("center") \union held("bottom") \union held("top")
                                         \union held("right") \union held("left")
  <2>1. held("left") \intersect Docked(beside) = {}
    BY <1>3, <1>4, <1>8
  <2> QED
    BY <1>2, <1>3, <1>8, <2>1, WrapSlotSound
<1> HIDE DEF whole
<1>10. UNION {held(h) : h \in Slots} = held("center") \union held("bottom") \union held("top")
                                       \union held("right") \union held("left")
  <2> HIDE DEF held
  <2> QED
    BY DEF Slots
<1> QED
  BY <1>1, <1>9, <1>10

(* What the model says of a sound tree and what these proofs do.            *)
LEMMA SoundIsSound ==
  ASSUME NEW P, NEW S, NEW t, Sound(t, P, S)
  PROVE  SoundTree(t, S) /\ Docked(t) \subseteq P /\ Live(t) \subseteq Nat \ {0}
<1>1. Shaped(t, P)
  BY DEF Sound
<1>2. ToSet(Gather(t)) = Live(t) \ Splits(t)
  BY <1>1, GatherGathers
<1>3. WellLinked(t)
  BY <1>1, <1>2 DEF Shaped, Linked, Rooted, Hangs, Holds, WellLinked
<1>4. \A n \in Live(t) : ToSet(t.node[n].tabs) \subseteq P
  <2> TAKE n \in Live(t)
  <2>1. t.node[n].tabs \in Seq(P)
    BY <1>1, NodeTyped
  <2> QED
    BY <2>1, ToSetOf
<1>5. Docked(t) \subseteq P
  BY <1>4 DEF Docked
<1> QED
  BY <1>1, <1>3, <1>5 DEF SoundTree, Sound, Shaped, Typed

(* A tree a file may hold: sound, but for the panels it holds twice.        *)
Readable(t, P) == Shaped(t, P) /\ ActiveInRange(t)
LEMMA ReadableIs ==
  ASSUME NEW t, TreeIsReadable(t)
  PROVE  Readable(t, Ids)
<1>1. t \in [root : Nat, node : [Live(t) -> NodesOf(Ids)]] /\ IsFiniteSet(Live(t))
      /\ Live(t) \subseteq Nat \ {0}
  BY DEF TreeIsReadable
<1>2. Ranked(t)
  <2>1. Cardinality(Live(t)) \in Nat
    BY <1>1, FS_CardinalityType
  <2> QED
    BY <2>1 DEF Ranked, TreeIsReadable
<1>3. Linked(t)
  BY DEF TreeIsReadable, WellLinked, Linked, Rooted, Hangs, Holds
<1> QED
  BY <1>1, <1>2, <1>3 DEF Readable, Shaped, Typed, TreeIsReadable

LEMMA ReadableIsSound ==
  ASSUME NEW S, NEW t, Readable(t, Ids), \A c \in Docked(t) : Twice(t, c) => c \in S
  PROVE  Sound(t, Ids, S)
<1>1. Shaped(t, Ids)
  BY DEF Readable
<1>2. \A n \in Live(t) : t.node[n].tabs \in Seq(Ids) /\ ToSet(t.node[n].tabs) \subseteq Docked(t)
  BY <1>1, NodeTyped DEF Docked
<1>3. ASSUME NEW n \in Live(t)
      PROVE  Once(t.node[n].tabs, S)
  <2> DEFINE tabs == t.node[n].tabs
  <2> SUFFICES ASSUME NEW i \in 1 .. Len(tabs), NEW j \in 1 .. Len(tabs), tabs[i] = tabs[j], tabs[i] \notin S
               PROVE  i = j
    BY DEF Once
  <2>1. tabs[i] \in Docked(t)
    BY <1>2, ToSetOf
  <2>2. Once(tabs, Ids \ {tabs[i]})
    BY <2>1 DEF Twice, OnePlaceEach
  <2> QED
    BY <2>2 DEF Once
<1>4. ASSUME NEW n \in Live(t), NEW m \in Live(t), n # m
      PROVE  ToSet(t.node[n].tabs) \intersect ToSet(t.node[m].tabs) \subseteq S
  <2> SUFFICES ASSUME NEW c \in ToSet(t.node[n].tabs) \intersect ToSet(t.node[m].tabs), c \notin S
               PROVE  FALSE
    OBVIOUS
  <2>1. c \in Docked(t)
    BY <1>2
  <2>2. ToSet(t.node[n].tabs) \intersect ToSet(t.node[m].tabs) \subseteq Ids \ {c}
    BY <1>4, <2>1 DEF Twice, OnePlaceEach
  <2> QED
    BY <2>2
<1> QED
  BY <1>1, <1>3, <1>4 DEF Sound, OnePlaceEach, Readable

(* The tree that is left when its last pane was being written.              *)
LEMMA CutPaneIs ==
  ASSUME NEW P, NEW t, Readable(t, P), NEW tabs \in Seq(P)
  PROVE  Readable(CutPane(t, tabs), P)
<1> DEFINE n    == Last(Gather(t))
           old  == t.node[n]
           on   == IF old.active < Len(tabs) THEN old.active ELSE 0
           leaf == [old EXCEPT !.tabs = tabs, !.active = on]
<1>1. Shaped(t, P)
  BY DEF Readable
<1>2. n \in Panes(t)
  <2>1. Gather(t) \in Seq(Panes(t)) /\ Gather(t) # <<>>
    BY <1>1, GatherGathers DEF Panes
  <2> QED
    BY <2>1 DEF Last
<1> HIDE DEF n
<1>3. old \in NodesOf(P) /\ n \in Live(t)
  BY <1>1, <1>2, NodeTyped DEF Panes
<1>4. on \in 0 .. (IF tabs = <<>> THEN 0 ELSE Len(tabs) - 1)
  <2>1. old.active \in Nat /\ Len(tabs) \in Nat /\ (tabs # <<>> => Len(tabs) > 0)
    BY <1>3 DEF NodesOf
  <2> QED
    BY <2>1
<1>5. CutPane(t, tabs) = With(t, n, leaf)
  BY DEF CutPane, With, n, on
<1> HIDE DEF on
<1>6. leaf \in NodesOf(P) /\ SameLinks(leaf, old) /\ leaf.tabs = tabs /\ leaf.active = on
  <2>1. on \in Nat
    BY <1>4
  <2> HIDE DEF old
  <2> QED
    BY <1>3, <2>1 DEF NodesOf, SameLinks
<1> HIDE DEF leaf, old
<1>7. Shaped(With(t, n, leaf), P) /\ Rewritten(t, With(t, n, leaf), n, leaf)
  BY <1>1, <1>2, <1>6, WithIs DEF old
<1>8. ActiveInRange(With(t, n, leaf))
  BY <1>6, <1>7, <1>4 DEF ActiveInRange, Rewritten, Readable
<1> QED
  BY <1>5, <1>7, <1>8 DEF Readable

-----------------------------------------------------------------------------
(* Loops.  A loop is a function of how often it went round; it exists, and  *)
(* stays in a set that a round never leaves.                                *)
LEMMA LoopKeeps ==
  ASSUME NEW n \in Nat, NEW S, NEW f, f[0] \in S, \A i \in 1 .. n : f[i - 1] \in S => f[i] \in S
  PROVE  \A i \in 0 .. n : f[i] \in S
<1> DEFINE T == {i \in 0 .. n : f[i] \in S}
<1>1. 0 \in T
  OBVIOUS
<1>2. ASSUME NEW i \in 0 .. n - 1, i \in T
      PROVE  i + 1 \in T
  <2>1. i + 1 \in 1 .. n /\ (i + 1) - 1 = i
    OBVIOUS
  <2>2. f[i + 1] \in S
    BY <1>2, <2>1
  <2> QED
    BY <2>1, <2>2
<1>3. \A i \in 0 .. n : i \in T
  <2> HIDE DEF T
  <2> QED
    BY <1>1, <1>2, UpTo
<1> QED
  BY <1>3

Looped(n, x, op, f) ==
  /\ f = [i \in 0 .. n |-> f[i]] /\ f[0] = x
  /\ \A i \in 1 .. n : f[i] = op[<<f[i - 1], i>>]
LEMMA LoopRuns ==
  ASSUME NEW n \in Nat, NEW S, NEW x \in S, NEW op \in [S \X (1 .. n) -> S]
  PROVE  \E f : Looped(n, x, op, f) /\ \A i \in 0 .. n : f[i] \in S
<1> DEFINE Runs(m, f) == /\ f \in [0 .. m -> S] /\ f[0] = x
                         /\ \A i \in 1 .. m : f[i] = op[<<f[i - 1], i>>]
           T == {m \in 0 .. n : \E f : Runs(m, f)}
<1>1. 0 \in T
  <2>1. Runs(0, [i \in 0 .. 0 |-> x])
    OBVIOUS
  <2> HIDE DEF Runs
  <2> QED
    BY <2>1
<1>2. ASSUME NEW m \in 0 .. n - 1, m \in T
      PROVE  m + 1 \in T
  <2>1. PICK f : Runs(m, f)
    BY <1>2
  <2>2. f[m] \in S /\ m + 1 \in 1 .. n
    BY <2>1
  <2> DEFINE y == op[<<f[m], m + 1>>]
             g == [i \in 0 .. m + 1 |-> IF i = m + 1 THEN y ELSE f[i]]
  <2>3. y \in S
    BY <2>2
  <2>4. g \in [0 .. m + 1 -> S] /\ g[0] = x
    BY <2>1, <2>3
  <2>5. ASSUME NEW i \in 1 .. m + 1
        PROVE  g[i] = op[<<g[i - 1], i>>]
    <3>1. CASE i = m + 1
      <4>1. g[i] = y /\ g[i - 1] = f[m]
        BY <3>1
      <4> QED
        BY <3>1, <4>1
    <3>2. CASE i # m + 1
      <4>1. i \in 1 .. m /\ i - 1 \in 0 .. m
        BY <3>2
      <4>2. g[i] = f[i] /\ g[i - 1] = f[i - 1]
        BY <4>1
      <4> QED
        BY <2>1, <4>1, <4>2
    <3> QED
      BY <3>1, <3>2
  <2> HIDE DEF g
  <2>6. Runs(m + 1, g)
    BY <2>4, <2>5
  <2> QED
    BY <2>2, <2>6
<1>3. n \in T
  <2>1. n \in 0 .. n
    OBVIOUS
  <2> HIDE DEF T
  <2> QED
    BY <1>1, <1>2, <2>1, UpTo
<1>4. PICK f : Runs(n, f)
  BY <1>3
<1>5. f = [i \in 0 .. n |-> f[i]]
  BY <1>4
<1> QED
  BY <1>4, <1>5 DEF Looped

-----------------------------------------------------------------------------
(* Tiles.  Pushing and pulling moves tiles up and down, never sideways.     *)
Tiles == [id : Panels, col : Nat, row : Nat, cols : Nat \ {0}, rows : Nat \ {0}]
Slid(g) == {h \in Seq(Tiles) : /\ Len(h) = Len(g)
                               /\ \A i \in 1 .. Len(g) : /\ h[i].id = g[i].id /\ h[i].col = g[i].col
                                                         /\ h[i].cols = g[i].cols}

LEMMA FindIs ==
  ASSUME NEW g \in Seq(Tiles), NEW id
  PROVE  /\ Grid!Find(g, id) \in 0 .. Len(g)
         /\ Grid!Find(g, id) = 0 => \A i \in 1 .. Len(g) : g[i].id # id
         /\ Grid!Find(g, id) # 0 => g[Grid!Find(g, id)].id = id
<1> DEFINE I == {i \in 1 .. Len(g) : g[i].id = id}
<1>1. Grid!Find(g, id) = IF I # {} THEN Min(I) ELSE 0
  BY DEF Grid!Find, Grid!SelectInSeq, Grid!Min, Min
<1>2. I # {} => Min(I) \in I
  <2>1. I \subseteq Nat
    OBVIOUS
  <2> HIDE DEF I
  <2> QED
    BY <2>1, MinOf
<1> QED
  BY <1>1, <1>2

LEMMA SlidSelf ==
  ASSUME NEW g \in Seq(Tiles)
  PROVE  g \in Slid(g)
<1>1. Len(g) = Len(g)
  OBVIOUS
<1> QED
  BY <1>1 DEF Slid

LEMMA SlidOn ==
  ASSUME NEW g, NEW h \in Slid(g), NEW k \in Slid(h)
  PROVE  k \in Slid(g)
  BY DEF Slid

LEMMA RowMoved ==
  ASSUME NEW g \in Seq(Tiles), NEW i \in 1 .. Len(g), NEW r \in Nat
  PROVE  [g EXCEPT ![i].row = r] \in Slid(g)
<1> DEFINE x == [g[i] EXCEPT !.row = r]
           h == [g EXCEPT ![i] = x]
<1>1. g[i] \in Tiles
  OBVIOUS
<1>2. x \in Tiles /\ x.id = g[i].id /\ x.col = g[i].col /\ x.cols = g[i].cols
  BY <1>1 DEF Tiles
<1> HIDE DEF x
<1>3. h \in Seq(Tiles) /\ Len(h) = Len(g) /\ \A j \in 1 .. Len(g) : h[j] = IF j = i THEN x ELSE g[j]
  BY <1>2
<1> HIDE DEF h
<1>4. h \in Slid(g)
  BY <1>2, <1>3 DEF Slid
<1> QED
  BY <1>4 DEF h, x

Pushes(g) == [grid : Slid(g), next : Seq(Panels)]
LEMMA PushOneSlides ==
  ASSUME NEW g, NEW st \in Pushes(g), NEW i \in 1 .. Len(g), NEW above \in Tiles
  PROVE  Grid!PushOne(st, i, above) \in Pushes(g)
<1>1. st.grid \in Slid(g) /\ st.grid \in Seq(Tiles) /\ Len(st.grid) = Len(g) /\ st.next \in Seq(Panels)
      /\ st = [grid |-> st.grid, next |-> st.next]
  BY DEF Pushes, Slid
<1>2. above.row + above.rows \in Nat /\ st.grid[i].id \in Panels
  <2>1. above.row \in Nat /\ above.rows \in Nat
    BY DEF Tiles
  <2>2. st.grid[i] \in Tiles
    BY <1>1
  <2>3. \A x \in Tiles : x.id \in Panels
    BY DEF Tiles
  <2> QED
    BY <2>1, <2>2, <2>3
<1> DEFINE h == [st.grid EXCEPT ![i].row = above.row + above.rows]
           n == Append(st.next, st.grid[i].id)
<1>3. h \in Slid(g)
  <2>1. h \in Slid(st.grid)
    BY <1>1, <1>2, RowMoved
  <2> HIDE DEF h
  <2> QED
    BY <1>1, <2>1, SlidOn
<1>4. n \in Seq(Panels)
  BY <1>1, <1>2
<1>5. Grid!PushOne(st, i, above) = st \/ Grid!PushOne(st, i, above) = [grid |-> h, next |-> n]
  BY DEF Grid!PushOne
<1> HIDE DEF h, n
<1>6. [grid |-> h, next |-> n] \in Pushes(g)
  BY <1>3, <1>4 DEF Pushes
<1> QED
  BY <1>5, <1>6

LEMMA PushBelowSlides ==
  ASSUME NEW g, NEW st \in Pushes(g), NEW above \in Tiles
  PROVE  Grid!PushBelow(st, above) \in Pushes(g)
<1> DEFINE n == Len(st.grid)
           S == Pushes(g)
           Rec(f) == [i \in 0 .. n |-> IF i = 0 THEN st ELSE Grid!PushOne(f[i - 1], i, above)]
           c == CHOOSE f : f = Rec(f)
           op == [p \in S \X (1 .. n) |-> Grid!PushOne(p[1], p[2], above)]
<1>0. n = Len(g) /\ Len(g) \in Nat
  BY DEF Pushes, Slid
<1>1. n \in Nat
  BY <1>0
<1>2. Grid!PushBelow(st, above) = c[n]
  BY DEF Grid!PushBelow
<1>3. \A u \in S : \A i \in 1 .. n : Grid!PushOne(u, i, above) \in S
  BY <1>0, PushOneSlides
<1>4. st \in S
  OBVIOUS
<1> HIDE DEF n
<1>5. op \in [S \X (1 .. n) -> S]
  BY <1>3
<1>6. \A u \in S : \A i \in 1 .. n : op[<<u, i>>] = Grid!PushOne(u, i, above)
  OBVIOUS
<1> HIDE DEF op, S
<1>7. PICK f : Looped(n, st, op, f) /\ \A i \in 0 .. n : f[i] \in S
  BY <1>1, <1>4, <1>5, LoopRuns
<1>8. f = Rec(f)
  <2>1. f = [i \in 0 .. n |-> f[i]] /\ f[0] = st
    BY <1>7 DEF Looped
  <2>2. ASSUME NEW i \in 1 .. n
        PROVE  f[i] = Grid!PushOne(f[i - 1], i, above)
    <3>1. i - 1 \in 0 .. n
      BY <1>1
    <3> QED
      BY <1>6, <1>7, <3>1 DEF Looped
  <2>3. ASSUME NEW i \in 0 .. n
        PROVE  Rec(f)[i] = f[i]
    <3>1. CASE i = 0
      BY <2>1, <3>1
    <3>2. CASE i # 0
      <4>1. i \in 1 .. n
        BY <1>1, <3>2
      <4> QED
        BY <2>2, <3>2, <4>1
    <3> QED
      BY <3>1, <3>2
  <2> QED
    BY <2>1, <2>3
<1>9. c = Rec(c)
  <2> HIDE DEF Rec
  <2> QED
    BY <1>8
<1> HIDE DEF c
<1>10. c[0] = st /\ \A i \in 1 .. n : c[i] = Grid!PushOne(c[i - 1], i, above)
  BY <1>1, <1>9
<1>11. \A i \in 0 .. n : c[i] \in S
  <2>1. c[0] \in S
    BY <1>4, <1>10
  <2>2. \A i \in 1 .. n : c[i - 1] \in S => c[i] \in S
    BY <1>3, <1>10
  <2> QED
    BY <1>1, <2>1, <2>2, LoopKeeps
<1> QED
  BY <1>1, <1>2, <1>11 DEF S

LEMMA PushSlides ==
  ASSUME NEW g, NEW st \in Pushes(g), NEW id
  PROVE  Grid!Push(st, id) \in Pushes(g)
<1> DEFINE at == Grid!Find(st.grid, id)
<1>1. st.grid \in Seq(Tiles)
  BY DEF Pushes, Slid
<1>2. at \in 0 .. Len(st.grid)
  BY <1>1, FindIs
<1>3. Grid!Push(st, id) = IF at = 0 THEN st ELSE Grid!PushBelow(st, st.grid[at])
  BY DEF Grid!Push
<1> HIDE DEF at
<1>4. CASE at = 0
  BY <1>3, <1>4
<1>5. CASE at # 0
  <2>1. st.grid[at] \in Tiles
    BY <1>1, <1>2, <1>5
  <2> QED
    BY <1>3, <1>5, <2>1, PushBelowSlides
<1> QED
  BY <1>4, <1>5

LEMMA PushFrontSlides ==
  ASSUME NEW g, NEW st \in Pushes(g), NEW front \in Seq(Panels)
  PROVE  Grid!PushFront(st, front) \in Pushes(g)
<1> DEFINE n == Len(front)
           S == Pushes(g)
           Rec(f) == [i \in 0 .. n |-> IF i = 0 THEN st ELSE Grid!Push(f[i - 1], front[i])]
           c == CHOOSE f : f = Rec(f)
           op == [p \in S \X (1 .. n) |-> Grid!Push(p[1], front[p[2]])]
<1>1. n \in Nat
  OBVIOUS
<1>2. Grid!PushFront(st, front) = c[n]
  BY DEF Grid!PushFront
<1>3. \A u \in S : \A i \in 1 .. n : Grid!Push(u, front[i]) \in S
  BY PushSlides
<1>4. st \in S
  OBVIOUS
<1> HIDE DEF n
<1>5. op \in [S \X (1 .. n) -> S]
  BY <1>3
<1>6. \A u \in S : \A i \in 1 .. n : op[<<u, i>>] = Grid!Push(u, front[i])
  OBVIOUS
<1> HIDE DEF op, S
<1>7. PICK f : Looped(n, st, op, f) /\ \A i \in 0 .. n : f[i] \in S
  BY <1>1, <1>4, <1>5, LoopRuns
<1>8. f = Rec(f)
  <2>1. f = [i \in 0 .. n |-> f[i]] /\ f[0] = st
    BY <1>7 DEF Looped
  <2>2. ASSUME NEW i \in 1 .. n
        PROVE  f[i] = Grid!Push(f[i - 1], front[i])
    <3>1. i - 1 \in 0 .. n
      BY <1>1
    <3> QED
      BY <1>6, <1>7, <3>1 DEF Looped
  <2>3. ASSUME NEW i \in 0 .. n
        PROVE  Rec(f)[i] = f[i]
    <3>1. CASE i = 0
      BY <2>1, <3>1
    <3>2. CASE i # 0
      <4>1. i \in 1 .. n
        BY <1>1, <3>2
      <4> QED
        BY <2>2, <3>2, <4>1
    <3> QED
      BY <3>1, <3>2
  <2> QED
    BY <2>1, <2>3
<1>9. c = Rec(c)
  <2> HIDE DEF Rec
  <2> QED
    BY <1>8
<1> HIDE DEF c
<1>10. c[0] = st /\ \A i \in 1 .. n : c[i] = Grid!Push(c[i - 1], front[i])
  BY <1>1, <1>9
<1>11. \A i \in 0 .. n : c[i] \in S
  <2>1. c[0] \in S
    BY <1>4, <1>10
  <2>2. \A i \in 1 .. n : c[i - 1] \in S => c[i] \in S
    BY <1>3, <1>10
  <2> QED
    BY <1>1, <2>1, <2>2, LoopKeeps
<1> QED
  BY <1>1, <1>2, <1>11 DEF S

LEMMA RoundSlides ==
  ASSUME NEW g, NEW st \in Pushes(g)
  PROVE  Grid!Round(st) \in Pushes(g)
<1> DEFINE u == [grid |-> st.grid, next |-> <<>>]
<1>1. u \in Pushes(g) /\ st.next \in Seq(Panels)
  BY DEF Pushes
<1>2. Grid!Round(st) = IF st.next = <<>> THEN st ELSE Grid!PushFront(u, st.next)
  BY DEF Grid!Round
<1> HIDE DEF u
<1>3. Grid!PushFront(u, st.next) \in Pushes(g)
  BY <1>1, PushFrontSlides
<1> QED
  BY <1>2, <1>3

LEMMA PushOthersSlides ==
  ASSUME NEW g \in Seq(Tiles), NEW id \in Panels
  PROVE  Grid!PushOthers(g, id) \in Slid(g)
<1> DEFINE first == [grid |-> g, next |-> <<id>>]
           n == Rounds
           S == Pushes(g)
           Rec(f) == [i \in 0 .. n |-> IF i = 0 THEN first ELSE Grid!Round(f[i - 1])]
           c == CHOOSE f : f = Rec(f)
           op == [p \in S \X (1 .. n) |-> Grid!Round(p[1])]
<1>1. n \in Nat
  BY DockSpaceAssumption
<1>2. Grid!PushOthers(g, id) = c[n].grid
  BY DEF Grid!PushOthers
<1>0. first \in Pushes(g)
  BY DEF Slid, Pushes
<1> HIDE DEF first
<1>3. \A u \in S : \A i \in 1 .. n : Grid!Round(u) \in S
  BY RoundSlides
<1>4. first \in S
  BY <1>0
<1> HIDE DEF n
<1>5. op \in [S \X (1 .. n) -> S]
  BY <1>3
<1>6. \A u \in S : \A i \in 1 .. n : op[<<u, i>>] = Grid!Round(u)
  OBVIOUS
<1> HIDE DEF op, S
<1>7. PICK f : Looped(n, first, op, f) /\ \A i \in 0 .. n : f[i] \in S
  BY <1>1, <1>4, <1>5, LoopRuns
<1>8. f = Rec(f)
  <2>1. f = [i \in 0 .. n |-> f[i]] /\ f[0] = first
    BY <1>7 DEF Looped
  <2>2. ASSUME NEW i \in 1 .. n
        PROVE  f[i] = Grid!Round(f[i - 1])
    <3>1. i - 1 \in 0 .. n
      BY <1>1
    <3> QED
      BY <1>6, <1>7, <3>1 DEF Looped
  <2>3. ASSUME NEW i \in 0 .. n
        PROVE  Rec(f)[i] = f[i]
    <3>1. CASE i = 0
      BY <2>1, <3>1
    <3>2. CASE i # 0
      <4>1. i \in 1 .. n
        BY <1>1, <3>2
      <4> QED
        BY <2>2, <3>2, <4>1
    <3> QED
      BY <3>1, <3>2
  <2> QED
    BY <2>1, <2>3
<1>9. c = Rec(c)
  <2> HIDE DEF Rec
  <2> QED
    BY <1>8
<1> HIDE DEF c
<1>10. c[0] = first /\ \A i \in 1 .. n : c[i] = Grid!Round(c[i - 1])
  BY <1>1, <1>9
<1>11. \A i \in 0 .. n : c[i] \in S
  <2>1. c[0] \in S
    BY <1>4, <1>10
  <2>2. \A i \in 1 .. n : c[i - 1] \in S => c[i] \in S
    BY <1>3, <1>10
  <2> QED
    BY <1>1, <2>1, <2>2, LoopKeeps
<1>12. c[n] \in S
  BY <1>1, <1>11
<1>13. \A u \in Pushes(g) : u.grid \in Slid(g)
  BY DEF Pushes
<1> QED
  BY <1>2, <1>12, <1>13 DEF S

(* A tile slides up to the least row it can reach.                          *)
LEMMA PullSlides ==
  ASSUME NEW g, NEW h \in Slid(g), NEW i, NEW except
  PROVE  Grid!Pull(h, i, except) \in Slid(g)
<1> DEFINE rows == {r \in 0 .. h[i].row : \A q \in r .. h[i].row - 1 :
                                             ~Grid!CollidesWithAny(h, [h[i] EXCEPT !.row = q])}
           r == CHOOSE r \in rows : \A q \in rows : r <= q
           u == [h EXCEPT ![i].row = r]
<1>1. h \in Seq(Tiles) /\ DOMAIN h = 1 .. Len(h)
  BY DEF Slid
<1>2. Grid!Pull(h, i, except) = h \/ Grid!Pull(h, i, except) = u
  BY DEF Grid!Pull, Grid!Settled
<1>3. CASE i \in 1 .. Len(h)
  <2>0. h[i] \in Tiles
    BY <1>1, <1>3
  <2>4. \A x \in Tiles : x.row \in Nat
    BY DEF Tiles
  <2>1. h[i].row \in Nat
    BY <2>0, <2>4
  <2>2. rows \subseteq Nat /\ h[i].row \in rows
    BY <2>1
  <2>3. r = Min(rows)
    BY DEF Min
  <2> HIDE DEF rows, r
  <2>5. r \in Nat
    BY <2>2, <2>3, MinOf
  <2>6. u \in Slid(h)
    BY <1>1, <1>3, <2>5, RowMoved
  <2> HIDE DEF u
  <2> QED
    BY <1>2, <2>6, SlidOn
<1>4. CASE i \notin 1 .. Len(h)
  <2> HIDE DEF r
  <2>1. u = [j \in 1 .. Len(h) |-> h[j]]
    BY <1>1, <1>4
  <2>2. u = h
    BY <1>1, <2>1
  <2> HIDE DEF u
  <2> QED
    BY <1>2, <2>2
<1> QED
  BY <1>3, <1>4

LEMMA CompactSlides ==
  ASSUME NEW g \in Seq(Tiles), NEW except
  PROVE  Grid!Compact(g, except) \in Slid(g)
<1> DEFINE n == Len(g)
           S == Slid(g)
           Rec(f) == [i \in 0 .. n |-> IF i = 0 THEN g ELSE Grid!Pull(f[i - 1], Grid!Nth(g, i), except)]
           c == CHOOSE f : f = Rec(f)
           op == [p \in S \X (1 .. n) |-> Grid!Pull(p[1], Grid!Nth(g, p[2]), except)]
<1>1. n \in Nat
  OBVIOUS
<1>2. Grid!Compact(g, except) = c[n]
  BY DEF Grid!Compact
<1>3. \A u \in S : \A i \in 1 .. n : Grid!Pull(u, Grid!Nth(g, i), except) \in S
  BY PullSlides
<1>4. g \in S
  BY SlidSelf
<1> HIDE DEF n
<1>5. op \in [S \X (1 .. n) -> S]
  BY <1>3
<1>6. \A u \in S : \A i \in 1 .. n : op[<<u, i>>] = Grid!Pull(u, Grid!Nth(g, i), except)
  OBVIOUS
<1> HIDE DEF op, S
<1>7. PICK f : Looped(n, g, op, f) /\ \A i \in 0 .. n : f[i] \in S
  BY <1>1, <1>4, <1>5, LoopRuns
<1>8. f = Rec(f)
  <2>1. f = [i \in 0 .. n |-> f[i]] /\ f[0] = g
    BY <1>7 DEF Looped
  <2>2. ASSUME NEW i \in 1 .. n
        PROVE  f[i] = Grid!Pull(f[i - 1], Grid!Nth(g, i), except)
    <3>1. i - 1 \in 0 .. n
      BY <1>1
    <3> QED
      BY <1>6, <1>7, <3>1 DEF Looped
  <2>3. ASSUME NEW i \in 0 .. n
        PROVE  Rec(f)[i] = f[i]
    <3>1. CASE i = 0
      BY <2>1, <3>1
    <3>2. CASE i # 0
      <4>1. i \in 1 .. n
        BY <1>1, <3>2
      <4> QED
        BY <2>2, <3>2, <4>1
    <3> QED
      BY <3>1, <3>2
  <2> QED
    BY <2>1, <2>3
<1>9. c = Rec(c)
  <2> HIDE DEF Rec
  <2> QED
    BY <1>8
<1> HIDE DEF c
<1>10. c[0] = g /\ \A i \in 1 .. n : c[i] = Grid!Pull(c[i - 1], Grid!Nth(g, i), except)
  BY <1>1, <1>9
<1>11. \A i \in 0 .. n : c[i] \in S
  <2>1. c[0] \in S
    BY <1>4, <1>10
  <2>2. \A i \in 1 .. n : c[i - 1] \in S => c[i] \in S
    BY <1>3, <1>10
  <2> QED
    BY <1>1, <2>1, <2>2, LoopKeeps
<1> QED
  BY <1>1, <1>2, <1>11 DEF S

LEMMA PushAllSlides ==
  ASSUME NEW g \in Seq(Tiles)
  PROVE  Grid!PushAll(g) \in Slid(g)
<1> DEFINE n == Len(g)
           S == Slid(g)
           Rec(f) == [i \in 0 .. n |-> IF i = 0 THEN g ELSE Grid!PushOthers(f[i - 1], g[i].id)]
           c == CHOOSE f : f = Rec(f)
           op == [p \in S \X (1 .. n) |-> Grid!PushOthers(p[1], g[p[2]].id)]
<1>1. n \in Nat
  OBVIOUS
<1>2. Grid!PushAll(g) = c[n]
  BY DEF Grid!PushAll
<1>3. \A u \in S : \A i \in 1 .. n : Grid!PushOthers(u, g[i].id) \in S
  <2> TAKE u \in Slid(g)
  <2> TAKE i \in 1 .. Len(g)
  <2>1. g[i] \in Tiles /\ u \in Seq(Tiles)
    BY DEF Slid
  <2>2. g[i].id \in Panels
    BY <2>1 DEF Tiles
  <2>3. Grid!PushOthers(u, g[i].id) \in Slid(u)
    BY <2>1, <2>2, PushOthersSlides
  <2> QED
    BY <2>3, SlidOn
<1>4. g \in S
  BY SlidSelf
<1> HIDE DEF n
<1>5. op \in [S \X (1 .. n) -> S]
  BY <1>3
<1>6. \A u \in S : \A i \in 1 .. n : op[<<u, i>>] = Grid!PushOthers(u, g[i].id)
  OBVIOUS
<1> HIDE DEF op, S
<1>7. PICK f : Looped(n, g, op, f) /\ \A i \in 0 .. n : f[i] \in S
  BY <1>1, <1>4, <1>5, LoopRuns
<1>8. f = Rec(f)
  <2>1. f = [i \in 0 .. n |-> f[i]] /\ f[0] = g
    BY <1>7 DEF Looped
  <2>2. ASSUME NEW i \in 1 .. n
        PROVE  f[i] = Grid!PushOthers(f[i - 1], g[i].id)
    <3>1. i - 1 \in 0 .. n
      BY <1>1
    <3> QED
      BY <1>6, <1>7, <3>1 DEF Looped
  <2>3. ASSUME NEW i \in 0 .. n
        PROVE  Rec(f)[i] = f[i]
    <3>1. CASE i = 0
      BY <2>1, <3>1
    <3>2. CASE i # 0
      <4>1. i \in 1 .. n
        BY <1>1, <3>2
      <4> QED
        BY <2>2, <3>2, <4>1
    <3> QED
      BY <3>1, <3>2
  <2> QED
    BY <2>1, <2>3
<1>9. c = Rec(c)
  <2> HIDE DEF Rec
  <2> QED
    BY <1>8
<1> HIDE DEF c
<1>10. c[0] = g /\ \A i \in 1 .. n : c[i] = Grid!PushOthers(c[i - 1], g[i].id)
  BY <1>1, <1>9
<1>11. \A i \in 0 .. n : c[i] \in S
  <2>1. c[0] \in S
    BY <1>4, <1>10
  <2>2. \A i \in 1 .. n : c[i - 1] \in S => c[i] \in S
    BY <1>3, <1>10
  <2> QED
    BY <1>1, <2>1, <2>2, LoopKeeps
<1> QED
  BY <1>1, <1>2, <1>11 DEF S

-----------------------------------------------------------------------------
(* A grid: tiles of different panels, none past the last column.            *)
Grids == {g \in Seq(Tiles) : /\ TilesAreOwn(g)
                             /\ \A i \in 1 .. Len(g) : g[i].col + g[i].cols <= Columns}
Written == [id : Panels, col : Int, row : Int, cols : Int, rows : Int]

LEMMA TileTyped ==
  ASSUME NEW x \in Tiles
  PROVE  /\ x.id \in Panels /\ x.col \in Nat /\ x.row \in Nat
         /\ x.cols \in Nat /\ x.cols # 0 /\ x.rows \in Nat /\ x.rows # 0
  BY DEF Tiles

LEMMA SlidGrid ==
  ASSUME NEW g \in Grids, NEW h \in Slid(g)
  PROVE  h \in Grids
  BY DEF Grids, Slid, TilesAreOwn

LEMMA FittedIs ==
  ASSUME NEW x \in Written
  PROVE  /\ Grid!Fitted(x) \in Tiles /\ Grid!Fitted(x).id = x.id
         /\ Grid!Fitted(x).col + Grid!Fitted(x).cols <= Columns
<1>1. /\ x.id \in Panels /\ x.col \in Int /\ x.row \in Int /\ x.cols \in Int /\ x.rows \in Int
      /\ Columns \in Nat \ {0}
  BY DockSpaceAssumption DEF Written
<1> DEFINE w == Grid!Clamp(x.cols, 1, Columns)
           c == Grid!Clamp(x.col, 0, Columns - w)
           r == Grid!Greater(0, x.row)
           h == Grid!Greater(1, x.rows)
<1>2. w \in Nat \ {0} /\ w <= Columns
  BY <1>1 DEF Grid!Clamp, Grid!Lesser, Grid!Greater
<1> HIDE DEF w
<1>3. c \in Nat /\ c + w <= Columns
  BY <1>1, <1>2 DEF Grid!Clamp, Grid!Lesser, Grid!Greater
<1>4. r \in Nat /\ h \in Nat \ {0}
  BY <1>1 DEF Grid!Greater
<1> HIDE DEF c, r, h
<1>5. Grid!Fitted(x) = [id |-> x.id, col |-> c, row |-> r, cols |-> w, rows |-> h]
  BY DEF Grid!Fitted, Grid!Tile, w, c, r, h
<1> QED
  BY <1>1, <1>2, <1>3, <1>4, <1>5 DEF Tiles

(* A tile moved: the others keep their columns.                             *)
Moved(g, id) == {h \in Grids : /\ Len(h) = Len(g)
                               /\ \A i \in 1 .. Len(g) : /\ h[i].id = g[i].id
                                                         /\ g[i].id # id => h[i].col = g[i].col}
LEMMA MoveToMoves ==
  ASSUME NEW g \in Seq(Tiles), TilesAreOwn(g), NEW id \in Panels,
         \A i \in 1 .. Len(g) : g[i].id # id => g[i].col + g[i].cols <= Columns,
         NEW col \in Int, NEW row \in Int, NEW cols \in Int, NEW rows \in Int, NEW settling
  PROVE  Grid!MoveTo(g, id, col, row, cols, rows, settling) \in Moved(g, id)
<1> DEFINE at == Grid!Find(g, id)
           x  == Grid!Tile(id, col, row, cols, rows)
           to == Grid!Fitted(x)
           a  == [g EXCEPT ![at] = to]
           b  == Grid!PushOthers(a, id)
<1>1. /\ at \in 0 .. Len(g) /\ (at = 0 => \A i \in 1 .. Len(g) : g[i].id # id)
      /\ (at # 0 => g[at].id = id)
  BY FindIs
<1>2. Grid!MoveTo(g, id, col, row, cols, rows, settling) = IF at = 0 THEN g ELSE Grid!Compact(b, settling)
  BY DEF Grid!MoveTo
<1>3. x \in Written /\ x.id = id
  BY DEF Written, Grid!Tile
<1> HIDE DEF at, x
<1>4. to \in Tiles /\ to.id = id /\ to.col + to.cols <= Columns
  BY <1>3, FittedIs
<1> HIDE DEF to
<1>5. CASE at = 0
  BY <1>1, <1>2, <1>5 DEF Moved, Grids
<1>6. CASE at # 0
  <2>1. /\ a \in Seq(Tiles) /\ Len(a) = Len(g)
        /\ \A i \in 1 .. Len(g) : a[i] = IF i = at THEN to ELSE g[i]
    BY <1>1, <1>4, <1>6
  <2> HIDE DEF a
  <2>2. \A i \in 1 .. Len(g) : a[i].id = g[i].id /\ (g[i].id # id => a[i] = g[i])
    BY <1>1, <1>4, <1>6, <2>1
  <2>3. \A i \in 1 .. Len(g) : a[i].col + a[i].cols <= Columns
    <3> TAKE i \in 1 .. Len(g)
    <3>1. CASE i = at
      BY <1>4, <2>1, <3>1
    <3>2. CASE i # at
      <4>1. g[i].id # id
        BY <1>1, <1>6, <3>2 DEF TilesAreOwn
      <4> QED
        BY <2>2, <4>1
    <3> QED
      BY <3>1, <3>2
  <2>4. TilesAreOwn(a)
    BY <2>1, <2>2 DEF TilesAreOwn
  <2>5. a \in Grids
    BY <2>1, <2>3, <2>4 DEF Grids
  <2>6. b \in Slid(a)
    BY <2>1, PushOthersSlides
  <2> HIDE DEF b
  <2>7. Grid!Compact(b, settling) \in Slid(b)
    <3>1. b \in Seq(Tiles)
      BY <2>6 DEF Slid
    <3> QED
      BY <3>1, CompactSlides
  <2> DEFINE h == Grid!Compact(b, settling)
  <2> HIDE DEF h
  <2>8. h \in Slid(a)
    BY <2>6, <2>7, SlidOn DEF h
  <2>9. h \in Grids
    BY <2>5, <2>8, SlidGrid
  <2>10. h \in Moved(g, id)
    BY <2>1, <2>2, <2>8, <2>9 DEF Moved, Slid
  <2> QED
    BY <1>2, <1>6, <2>10 DEF h
<1> QED
  BY <1>5, <1>6

(* No tile reaches below the rows a grid uses.                              *)
LEMMA RowsUsedIs ==
  ASSUME NEW g \in Seq(Tiles)
  PROVE  Grid!RowsUsed(g) \in Nat /\ \A i \in 1 .. Len(g) : g[i].row + g[i].rows <= Grid!RowsUsed(g)
<1> DEFINE n == Len(g)
           S == Nat
           Rec(f) == [i \in 0 .. n |-> IF i = 0 THEN 0 ELSE Grid!Greater(f[i - 1], g[i].row + g[i].rows)]
           c == CHOOSE f : f = Rec(f)
           op == [p \in S \X (1 .. n) |-> Grid!Greater(p[1], g[p[2]].row + g[p[2]].rows)]
<1>1. n \in Nat
  OBVIOUS
<1>2. Grid!RowsUsed(g) = c[n]
  BY DEF Grid!RowsUsed
<1>0. \A i \in 1 .. Len(g) : g[i].row + g[i].rows \in Nat
  <2> TAKE i \in 1 .. Len(g)
  <2>1. g[i] \in Tiles
    OBVIOUS
  <2>2. g[i].row \in Nat /\ g[i].rows \in Nat
    BY <2>1, TileTyped
  <2> QED
    BY <2>2
<1>3. \A u \in S : \A i \in 1 .. n : Grid!Greater(u, g[i].row + g[i].rows) \in S
  BY <1>0 DEF Grid!Greater
<1>4. 0 \in S
  OBVIOUS
<1> HIDE DEF n
<1>5. op \in [S \X (1 .. n) -> S]
  BY <1>3
<1>6. \A u \in S : \A i \in 1 .. n : op[<<u, i>>] = Grid!Greater(u, g[i].row + g[i].rows)
  OBVIOUS
<1> HIDE DEF op, S
<1>7. PICK f : Looped(n, 0, op, f) /\ \A i \in 0 .. n : f[i] \in S
  BY <1>1, <1>4, <1>5, LoopRuns
<1>8. f = Rec(f)
  <2>1. f = [i \in 0 .. n |-> f[i]] /\ f[0] = 0
    BY <1>7 DEF Looped
  <2>2. ASSUME NEW i \in 1 .. n
        PROVE  f[i] = Grid!Greater(f[i - 1], g[i].row + g[i].rows)
    <3>1. i - 1 \in 0 .. n
      BY <1>1
    <3> QED
      BY <1>6, <1>7, <3>1 DEF Looped
  <2>3. ASSUME NEW i \in 0 .. n
        PROVE  Rec(f)[i] = f[i]
    <3>1. CASE i = 0
      BY <2>1, <3>1
    <3>2. CASE i # 0
      <4>1. i \in 1 .. n
        BY <1>1, <3>2
      <4> QED
        BY <2>2, <3>2, <4>1
    <3> QED
      BY <3>1, <3>2
  <2> QED
    BY <2>1, <2>3
<1>9. c = Rec(c)
  <2> HIDE DEF Rec
  <2> QED
    BY <1>8
<1> HIDE DEF c
<1>10. c[0] = 0 /\ \A i \in 1 .. n : c[i] = Grid!Greater(c[i - 1], g[i].row + g[i].rows)
  BY <1>1, <1>9
<1>11. \A i \in 0 .. n : c[i] \in S
  <2>1. c[0] \in S
    BY <1>4, <1>10
  <2>2. \A i \in 1 .. n : c[i - 1] \in S => c[i] \in S
    BY <1>3, <1>10
  <2> QED
    BY <1>1, <2>1, <2>2, LoopKeeps
<1> DEFINE T == {i \in 0 .. n : \A j \in 1 .. i : g[j].row + g[j].rows <= c[i]}
<1>12. 0 \in T
  BY <1>1
<1>13. ASSUME NEW i \in 0 .. n - 1, i \in T
       PROVE  i + 1 \in T
  <2>1. i + 1 \in 1 .. n /\ (i + 1) - 1 = i
    BY <1>1
  <2>2. c[i + 1] = Grid!Greater(c[i], g[i + 1].row + g[i + 1].rows)
    BY <1>10, <2>1
  <2>3. c[i] \in Nat /\ g[i + 1].row + g[i + 1].rows \in Nat
    BY <1>0, <1>1, <1>11, <2>1 DEF S, n
  <2>4. c[i] <= c[i + 1] /\ g[i + 1].row + g[i + 1].rows <= c[i + 1] /\ c[i + 1] \in Nat
    BY <2>2, <2>3 DEF Grid!Greater
  <2>5. ASSUME NEW j \in 1 .. i + 1
        PROVE  g[j].row + g[j].rows <= c[i + 1]
    <3>1. CASE j = i + 1
      BY <2>4, <3>1
    <3>2. CASE j # i + 1
      <4>1. j \in 1 .. i /\ j \in 1 .. n
        BY <1>1, <3>2
      <4>2. g[j].row + g[j].rows \in Nat /\ g[j].row + g[j].rows <= c[i]
        BY <1>0, <1>13, <4>1 DEF n
      <4> QED
        BY <2>3, <2>4, <4>2
    <3> QED
      BY <3>1, <3>2
  <2> QED
    BY <2>1, <2>5
<1>14. n \in T
  <2>1. n \in 0 .. n
    BY <1>1
  <2> HIDE DEF T
  <2> QED
    BY <1>1, <1>12, <1>13, <2>1, UpTo
<1>15. c[n] \in Nat
  BY <1>1, <1>11 DEF S
<1> QED
  BY <1>2, <1>14, <1>15 DEF n

(* A tile added: those that were there keep their columns.                  *)
Joined(g, id) == {h \in Grids : /\ Len(g) <= Len(h)
                                /\ \A i \in 1 .. Len(g) : h[i].id = g[i].id /\ h[i].col = g[i].col
                                /\ \E i \in 1 .. Len(h) : h[i].id = id}

(* The cells a tile fits in have a first: there is always one below all.    *)
LEMMA FirstCell ==
  ASSUME NEW C, C \subseteq Nat \X Nat, C # {}
  PROVE  \E c \in C : \A d \in C : c[2] < d[2] \/ (c[2] = d[2] /\ c[1] <= d[1])
<1> DEFINE R == {c[2] : c \in C}
           X == {c[1] : c \in {d \in C : d[2] = Min(R)}}
<1>1. \A c \in C : c[1] \in Nat /\ c[2] \in Nat
  OBVIOUS
<1>2. R \subseteq Nat /\ R # {}
  BY <1>1
<1> HIDE DEF R
<1>3. Min(R) \in R /\ \A y \in R : Min(R) <= y
  BY <1>2, MinOf
<1>4. X \subseteq Nat /\ X # {}
  BY <1>1, <1>3 DEF R
<1> HIDE DEF X
<1>5. Min(X) \in X /\ \A y \in X : Min(X) <= y
  BY <1>4, MinOf
<1>6. PICK c \in C : c[2] = Min(R) /\ c[1] = Min(X)
  BY <1>5 DEF X
<1>7. ASSUME NEW d \in C
      PROVE  c[2] < d[2] \/ (c[2] = d[2] /\ c[1] <= d[1])
  <2>1. d[2] \in R /\ d[2] \in Nat /\ c[2] \in Nat
    BY <1>1 DEF R
  <2>2. c[2] <= d[2]
    BY <1>3, <1>6, <2>1
  <2>3. CASE c[2] = d[2]
    <3>1. d[1] \in X
      BY <1>6, <2>3 DEF X
    <3> QED
      BY <1>5, <1>6, <2>3, <3>1
  <2> QED
    BY <2>1, <2>2, <2>3
<1> QED
  BY <1>7

LEMMA PlaceJoins ==
  ASSUME NEW g \in Grids, NEW id \in Panels, Grid!Find(g, id) = 0, NEW cols \in Int, NEW rows \in Int
  PROVE  Grid!Place(g, id, cols, rows) \in Joined(g, id)
<1> DEFINE w == Grid!Clamp(cols, 1, Columns)
           h == Grid!Greater(1, rows)
           free(c) == ~Grid!CollidesWithAny(g, Grid!Tile(id, c[1], c[2], w, h))
           cells == {c \in (0 .. Columns - w) \X (0 .. Grid!RowsUsed(g)) : free(c)}
           first == CHOOSE c \in cells : \A d \in cells : \/ c[2] < d[2]
                                                          \/ c[2] = d[2] /\ c[1] <= d[1]
           x == Grid!Tile(id, first[1], first[2], w, h)
           u == Append(g, x)
<1>1. g \in Seq(Tiles) /\ TilesAreOwn(g) /\ \A i \in 1 .. Len(g) : g[i].col + g[i].cols <= Columns
  BY DEF Grids
<1>2. Columns \in Nat \ {0}
  BY DockSpaceAssumption
<1>3. w \in Nat \ {0} /\ w <= Columns /\ h \in Nat \ {0}
  BY <1>2 DEF Grid!Clamp, Grid!Lesser, Grid!Greater
<1>4. Grid!RowsUsed(g) \in Nat /\ \A i \in 1 .. Len(g) : g[i].row + g[i].rows <= Grid!RowsUsed(g)
  BY <1>1, RowsUsedIs
<1>5. Grid!Place(g, id, cols, rows) = u
  BY DEF Grid!Place
<1> HIDE DEF w, h
<1>6. \E c \in (0 .. Columns - w) \X (0 .. Grid!RowsUsed(g)) : free(c)
  <2> DEFINE q == Grid!RowsUsed(g)
             y == Grid!Tile(id, 0, q, w, h)
  <2>1. <<0, q>> \in (0 .. Columns - w) \X (0 .. q) /\ <<0, q>>[1] = 0 /\ <<0, q>>[2] = q
    BY <1>2, <1>3, <1>4
  <2>2. y.row = q
    BY DEF Grid!Tile
  <2> HIDE DEF y
  <2>3. ASSUME NEW i \in 1 .. Len(g)
        PROVE  ~Grid!Overlaps(y, g[i])
    <3>1. g[i] \in Tiles
      BY <1>1
    <3>2. g[i].row \in Nat /\ g[i].rows \in Nat /\ g[i].row + g[i].rows <= q
      BY <1>4, <3>1, TileTyped
    <3>3. ~(q < g[i].row + g[i].rows)
      BY <1>4, <3>2
    <3> QED
      BY <2>2, <3>3 DEF Grid!Overlaps
  <2>4. DOMAIN g = 1 .. Len(g)
    BY <1>1
  <2>5. ~Grid!CollidesWithAny(g, y)
    BY <2>3, <2>4 DEF Grid!CollidesWithAny
  <2> QED
    BY <2>1, <2>5 DEF y
<1> HIDE DEF free
<1>7. cells \subseteq (0 .. Columns - w) \X (0 .. Grid!RowsUsed(g)) /\ cells # {}
  BY <1>6
<1>8. cells \subseteq Nat \X Nat
  BY <1>7
<1> HIDE DEF cells
<1>9. first \in cells
  BY <1>7, <1>8, FirstCell
<1> HIDE DEF first
<1>10. first[1] \in Nat /\ first[2] \in Nat /\ first[1] <= Columns - w
  <2>1. first \in (0 .. Columns - w) \X (0 .. Grid!RowsUsed(g))
    BY <1>7, <1>9
  <2> QED
    BY <1>2, <1>3, <1>4, <2>1
<1>11. x = [id |-> id, col |-> first[1], row |-> first[2], cols |-> w, rows |-> h]
  BY DEF Grid!Tile
<1>12. x \in Tiles /\ x.id = id /\ x.col = first[1] /\ x.cols = w
  BY <1>3, <1>10, <1>11 DEF Tiles
<1> HIDE DEF x
<1>13. x.col + x.cols <= Columns
  BY <1>2, <1>3, <1>10, <1>12
<1>14. /\ u \in Seq(Tiles) /\ Len(u) = Len(g) + 1 /\ u[Len(g) + 1] = x /\ Len(g) \in Nat
       /\ \A i \in 1 .. Len(g) : u[i] = g[i]
  BY <1>1, <1>12
<1> HIDE DEF u
<1>15. \A i \in 1 .. Len(g) : g[i].id # id
  BY <1>1, FindIs
<1>16. \A i \in 1 .. Len(u) : u[i].col + u[i].cols <= Columns
  BY <1>1, <1>13, <1>14
<1>17. TilesAreOwn(u)
  BY <1>1, <1>12, <1>14, <1>15 DEF TilesAreOwn
<1>18. u \in Grids
  BY <1>14, <1>16, <1>17 DEF Grids
<1>19. Len(g) + 1 \in 1 .. Len(u) /\ u[Len(g) + 1].id = id /\ Len(g) <= Len(u)
  BY <1>12, <1>14
<1>20. u \in Joined(g, id)
  BY <1>14, <1>18, <1>19 DEF Joined
<1> QED
  BY <1>5, <1>20

LEMMA PlaceAtJoins ==
  ASSUME NEW g \in Grids, NEW id \in Panels, Grid!Find(g, id) = 0,
         NEW col \in Int, NEW row \in Int, NEW cols \in Int, NEW rows \in Int
  PROVE  Grid!PlaceAt(g, id, col, row, cols, rows) \in Joined(g, id)
<1> DEFINE x == Grid!Tile(id, 0, 0, 3, 3)
           u == Append(g, x)
           h == Grid!MoveTo(u, id, col, row, cols, rows, NoPanel)
<1>1. g \in Seq(Tiles) /\ TilesAreOwn(g) /\ \A i \in 1 .. Len(g) : g[i].col + g[i].cols <= Columns
  BY DEF Grids
<1>2. Grid!PlaceAt(g, id, col, row, cols, rows) = h
  BY DEF Grid!PlaceAt
<1>3. x \in Tiles /\ x.id = id
  BY DEF Grid!Tile, Tiles
<1> HIDE DEF x
<1>4. /\ u \in Seq(Tiles) /\ Len(u) = Len(g) + 1 /\ u[Len(g) + 1] = x /\ Len(g) \in Nat
      /\ \A i \in 1 .. Len(g) : u[i] = g[i]
  BY <1>1, <1>3
<1> HIDE DEF u
<1>5. \A i \in 1 .. Len(g) : g[i].id # id
  BY <1>1, FindIs
<1>6. TilesAreOwn(u)
  BY <1>1, <1>3, <1>4, <1>5 DEF TilesAreOwn
<1>7. \A i \in 1 .. Len(u) : u[i].id # id => u[i].col + u[i].cols <= Columns
  BY <1>1, <1>3, <1>4
<1>8. h \in Moved(u, id)
  BY <1>4, <1>6, <1>7, MoveToMoves
<1> HIDE DEF h
<1>9. h \in Grids /\ Len(h) = Len(g) + 1 /\ \A i \in 1 .. Len(g) + 1 : h[i].id = u[i].id
      /\ (u[i].id # id => h[i].col = u[i].col)
  BY <1>4, <1>8 DEF Moved
<1>10. \A i \in 1 .. Len(g) : h[i].id = g[i].id /\ h[i].col = g[i].col
  BY <1>4, <1>5, <1>9
<1>11. Len(g) + 1 \in 1 .. Len(h) /\ h[Len(g) + 1].id = id /\ Len(g) <= Len(h)
  BY <1>3, <1>4, <1>9
<1>12. h \in Joined(g, id)
  BY <1>9, <1>10, <1>11 DEF Joined
<1> QED
  BY <1>2, <1>12

LEMMA PlaceTileJoins ==
  ASSUME NEW g \in Grids, NEW c \in Panels
  PROVE  PlaceTile(g, c) \in Joined(g, c)
<1> DEFINE size == IF c \in SpawnIds THEN <<3, 3>> ELSE Size[c]
           at   == IF c \in SpawnIds THEN NoPanel ELSE At[c]
<1>1. g \in Seq(Tiles)
  BY DEF Grids
<1>2. /\ Grid!Find(g, c) \in 0 .. Len(g) /\ (Grid!Find(g, c) # 0 => g[Grid!Find(g, c)].id = c)
  BY <1>1, FindIs
<1>3. size \in Int \X Int
  BY DockSpaceAssumption DEF Panels
<1>4. at \in (Int \X Int) \union {NoPanel}
  BY DockSpaceAssumption DEF Panels
<1>5. PlaceTile(g, c) = IF Grid!Find(g, c) # 0 THEN g
                        ELSE IF at = NoPanel THEN Grid!Place(g, c, size[1], size[2])
                        ELSE Grid!PlaceAt(g, c, at[1], at[2], size[1], size[2])
  BY DEF PlaceTile
<1> HIDE DEF size, at
<1>6. size[1] \in Int /\ size[2] \in Int /\ (at # NoPanel => at[1] \in Int /\ at[2] \in Int)
  BY <1>3, <1>4
<1>7. CASE Grid!Find(g, c) # 0
  BY <1>2, <1>5, <1>7 DEF Joined
<1>8. CASE Grid!Find(g, c) = 0 /\ at = NoPanel
  BY <1>5, <1>6, <1>8, PlaceJoins
<1>9. CASE Grid!Find(g, c) = 0 /\ at # NoPanel
  BY <1>5, <1>6, <1>9, PlaceAtJoins
<1> QED
  BY <1>7, <1>8, <1>9

(* What a file's tiles become.                                              *)
LEMMA AllFittedIs ==
  ASSUME NEW read \in Seq(Written), TilesAreOwn(read)
  PROVE  Grid!AllFitted(read) \in Grids
<1> DEFINE n == Len(read)
           S == {h \in Seq(Tiles) : \A i \in 1 .. Len(h) : h[i].col + h[i].cols <= Columns}
           Rec(f) == [i \in 0 .. n |-> IF i = 0 THEN <<>> ELSE Append(f[i - 1], Grid!Fitted(read[i]))]
           c == CHOOSE f : f = Rec(f)
           op == [p \in S \X (1 .. n) |-> Append(p[1], Grid!Fitted(read[p[2]]))]
<1>1. n \in Nat
  OBVIOUS
<1>2. Grid!AllFitted(read) = c[n]
  BY DEF Grid!AllFitted
<1>3. \A u \in S : \A i \in 1 .. n : Append(u, Grid!Fitted(read[i])) \in S
  <2>1. SUFFICES ASSUME NEW u \in S, NEW i \in 1 .. n PROVE Append(u, Grid!Fitted(read[i])) \in S
    OBVIOUS
  <2> DEFINE x == Grid!Fitted(read[i])
             v == Append(u, x)
  <2>2. read[i] \in Written
    OBVIOUS
  <2>3. x \in Tiles /\ x.col + x.cols <= Columns
    BY <2>2, FittedIs
  <2> HIDE DEF x
  <2>4. u \in Seq(Tiles) /\ \A j \in 1 .. Len(u) : u[j].col + u[j].cols <= Columns
    OBVIOUS
  <2>5. /\ v \in Seq(Tiles) /\ Len(v) = Len(u) + 1 /\ v[Len(u) + 1] = x /\ Len(u) \in Nat
        /\ \A j \in 1 .. Len(u) : v[j] = u[j]
    BY <2>3, <2>4
  <2> HIDE DEF v
  <2>6. \A j \in 1 .. Len(v) : v[j].col + v[j].cols <= Columns
    <3> TAKE j \in 1 .. Len(v)
    <3>1. CASE j = Len(u) + 1
      BY <2>3, <2>5, <3>1
    <3>2. CASE j # Len(u) + 1
      <4>1. j \in 1 .. Len(u)
        BY <2>5, <3>2
      <4> QED
        BY <2>4, <2>5, <4>1
    <3> QED
      BY <3>1, <3>2
  <2>7. v \in S
    BY <2>5, <2>6
  <2> QED
    BY <2>7 DEF v, x
<1>4. <<>> \in S
  <2>1. <<>> \in Seq(Tiles) /\ 1 .. Len(<<>>) = {}
    OBVIOUS
  <2> QED
    BY <2>1
<1> HIDE DEF n
<1>5. op \in [S \X (1 .. n) -> S]
  BY <1>3
<1>6. \A u \in S : \A i \in 1 .. n : op[<<u, i>>] = Append(u, Grid!Fitted(read[i]))
  OBVIOUS
<1> HIDE DEF op, S
<1>7. PICK f : Looped(n, <<>>, op, f) /\ \A i \in 0 .. n : f[i] \in S
  BY <1>1, <1>4, <1>5, LoopRuns
<1>8. f = Rec(f)
  <2>1. f = [i \in 0 .. n |-> f[i]] /\ f[0] = <<>>
    BY <1>7 DEF Looped
  <2>2. ASSUME NEW i \in 1 .. n
        PROVE  f[i] = Append(f[i - 1], Grid!Fitted(read[i]))
    <3>1. i - 1 \in 0 .. n
      BY <1>1
    <3> QED
      BY <1>6, <1>7, <3>1 DEF Looped
  <2>3. ASSUME NEW i \in 0 .. n
        PROVE  Rec(f)[i] = f[i]
    <3>1. CASE i = 0
      BY <2>1, <3>1
    <3>2. CASE i # 0
      <4>1. i \in 1 .. n
        BY <1>1, <3>2
      <4> QED
        BY <2>2, <3>2, <4>1
    <3> QED
      BY <3>1, <3>2
  <2> QED
    BY <2>1, <2>3
<1>9. c = Rec(c)
  <2> HIDE DEF Rec
  <2> QED
    BY <1>8
<1> HIDE DEF c
<1>10. c[0] = <<>> /\ \A i \in 1 .. n : c[i] = Append(c[i - 1], Grid!Fitted(read[i]))
  <2>1. c[0] = <<>>
    <3>1. 0 \in 0 .. n
      BY <1>1
    <3> QED
      BY <1>9, <3>1
  <2>2. ASSUME NEW i \in 1 .. n
        PROVE  c[i] = Append(c[i - 1], Grid!Fitted(read[i]))
    <3>1. i \in 0 .. n /\ i # 0
      BY <1>1
    <3> QED
      BY <1>9, <3>1
  <2> QED
    BY <2>1, <2>2
<1>11. \A i \in 0 .. n : c[i] \in S
  <2>1. c[0] \in S
    BY <1>4, <1>10
  <2>2. \A i \in 1 .. n : c[i - 1] \in S => c[i] \in S
    BY <1>3, <1>10
  <2> QED
    BY <1>1, <2>1, <2>2, LoopKeeps
<1> DEFINE T == {i \in 0 .. n : Len(c[i]) = i /\ \A j \in 1 .. i : c[i][j].id = read[j].id}
<1>12. 0 \in T
  BY <1>1, <1>10
<1>13. ASSUME NEW i \in 0 .. n - 1, i \in T
       PROVE  i + 1 \in T
  <2>1. i + 1 \in 1 .. n /\ (i + 1) - 1 = i /\ i \in 0 .. n
    BY <1>1
  <2> DEFINE x == Grid!Fitted(read[i + 1])
             a == c[i]
             b == c[i + 1]
  <2>2. b = Append(a, x)
    BY <1>10, <2>1
  <2>3. read[i + 1] \in Written
    BY <2>1 DEF n
  <2>4. x \in Tiles /\ x.id = read[i + 1].id
    BY <2>3, FittedIs
  <2>5. a \in Seq(Tiles) /\ Len(a) = i /\ \A j \in 1 .. i : a[j].id = read[j].id
    BY <1>11, <1>13, <2>1 DEF S
  <2> HIDE DEF x, a, b
  <2>6. Len(b) = i + 1 /\ b[i + 1] = x /\ \A j \in 1 .. i : b[j] = a[j]
    BY <2>2, <2>4, <2>5
  <2>7. ASSUME NEW j \in 1 .. i + 1
        PROVE  b[j].id = read[j].id
    <3>1. CASE j = i + 1
      BY <2>4, <2>6, <3>1
    <3>2. CASE j # i + 1
      <4>1. j \in 1 .. i
        BY <3>2
      <4> QED
        BY <2>5, <2>6, <4>1
    <3> QED
      BY <3>1, <3>2
  <2> QED
    BY <2>1, <2>6, <2>7 DEF b
<1>14. n \in T
  <2>1. n \in 0 .. n
    BY <1>1
  <2> HIDE DEF T
  <2> QED
    BY <1>1, <1>12, <1>13, <2>1, UpTo
<1> DEFINE h == c[n]
<1>15. /\ h \in Seq(Tiles) /\ \A i \in 1 .. Len(h) : h[i].col + h[i].cols <= Columns
       /\ Len(h) = Len(read) /\ \A j \in 1 .. Len(read) : h[j].id = read[j].id
  <2>1. n \in 0 .. n
    BY <1>1
  <2>2. h \in S
    BY <1>11, <2>1
  <2>3. Len(h) = n /\ \A j \in 1 .. n : h[j].id = read[j].id
    BY <1>14
  <2> QED
    BY <2>2, <2>3 DEF S, n
<1> HIDE DEF h
<1>16. TilesAreOwn(h)
  BY <1>15 DEF TilesAreOwn
<1>17. h \in Grids
  BY <1>15, <1>16 DEF Grids
<1> QED
  BY <1>2, <1>17 DEF h

LEMMA LoadGridIs ==
  ASSUME NEW g \in Grids, NEW read \in Seq(Written), TilesAreOwn(read)
  PROVE  Grid!LoadGrid(g, read) \in Grids
<1> DEFINE a == Grid!AllFitted(read)
           b == Grid!PushAll(a)
           d == Grid!Compact(b, NoPanel)
<1>1. Grid!LoadGrid(g, read) = IF read = <<>> THEN g ELSE d
  BY DEF Grid!LoadGrid
<1>2. a \in Grids
  BY AllFittedIs
<1> HIDE DEF a
<1>3. a \in Seq(Tiles)
  BY <1>2 DEF Grids
<1>4. b \in Slid(a)
  BY <1>3, PushAllSlides
<1>5. b \in Grids
  BY <1>2, <1>4, SlidGrid
<1> HIDE DEF b
<1>6. b \in Seq(Tiles)
  BY <1>5 DEF Grids
<1>7. d \in Slid(b)
  BY <1>6, CompactSlides
<1>8. d \in Grids
  BY <1>5, <1>7, SlidGrid
<1> QED
  BY <1>1, <1>8

(* A tile taken away: the others keep their columns, and none else is lost. *)
HasTile(g, id) == \E i \in 1 .. Len(g) : g[i].id = id
InColumns(g, h) == \A i \in 1 .. Len(h) : \E k \in 1 .. Len(g) : h[i].id = g[k].id /\ h[i].col = g[k].col
Thinned(g, id) == {h \in Grids : /\ InColumns(g, h)
                                 /\ \A k \in 1 .. Len(g) : g[k].id # id => HasTile(h, g[k].id)}

LEMMA OthersAre ==
  ASSUME NEW g \in Grids, NEW id
  PROVE  Grid!Others(g, id) \in Thinned(g, id)
<1> DEFINE n == Len(g)
           S == Seq(Tiles)
           Rec(f) == [i \in 0 .. n |-> IF i = 0 THEN <<>> ELSE (IF g[i].id = id THEN f[i - 1] ELSE Append(f[i - 1], g[i]))]
           c == CHOOSE f : f = Rec(f)
           op == [p \in S \X (1 .. n) |-> (IF g[p[2]].id = id THEN p[1] ELSE Append(p[1], g[p[2]]))]
<1>1. n \in Nat
  BY DEF Grids
<1>2. Grid!Others(g, id) = c[n]
  BY DEF Grid!Others
<1>3. \A u \in S : \A i \in 1 .. n : (IF g[i].id = id THEN u ELSE Append(u, g[i])) \in S
  <2>1. g \in Seq(Tiles)
    BY DEF Grids
  <2>2. \A i \in 1 .. n : g[i] \in Tiles
    BY <2>1
  <2>3. SUFFICES ASSUME NEW u \in S, NEW i \in 1 .. n
                 PROVE  (IF g[i].id = id THEN u ELSE Append(u, g[i])) \in S
    OBVIOUS
  <2>4. u \in S /\ Append(u, g[i]) \in S
    BY <2>2
  <2> HIDE DEF S
  <2> QED
    BY <2>4
<1>4. <<>> \in S
  OBVIOUS
<1> HIDE DEF n
<1>5. op \in [S \X (1 .. n) -> S]
  BY <1>3
<1>6. \A u \in S : \A i \in 1 .. n : op[<<u, i>>] = (IF g[i].id = id THEN u ELSE Append(u, g[i]))
  OBVIOUS
<1> HIDE DEF op, S
<1>7. PICK f : Looped(n, <<>>, op, f) /\ \A i \in 0 .. n : f[i] \in S
  BY <1>1, <1>4, <1>5, LoopRuns
<1>8. f = Rec(f)
  <2>1. f = [i \in 0 .. n |-> f[i]] /\ f[0] = <<>>
    BY <1>7 DEF Looped
  <2>2. ASSUME NEW i \in 1 .. n
        PROVE  f[i] = (IF g[i].id = id THEN f[i - 1] ELSE Append(f[i - 1], g[i]))
    <3>1. i - 1 \in 0 .. n
      BY <1>1
    <3> QED
      BY <1>6, <1>7, <3>1 DEF Looped
  <2>3. ASSUME NEW i \in 0 .. n
        PROVE  Rec(f)[i] = f[i]
    <3>1. CASE i = 0
      BY <2>1, <3>1
    <3>2. CASE i # 0
      <4>1. i \in 1 .. n
        BY <1>1, <3>2
      <4> QED
        BY <2>2, <3>2, <4>1
    <3> QED
      BY <3>1, <3>2
  <2> QED
    BY <2>1, <2>3
<1>9. c = Rec(c)
  <2> HIDE DEF Rec
  <2> QED
    BY <1>8
<1> HIDE DEF c
<1>10. c[0] = <<>> /\ \A i \in 1 .. n : c[i] = (IF g[i].id = id THEN c[i - 1] ELSE Append(c[i - 1], g[i]))
  <2>1. c[0] = <<>>
    <3>1. 0 \in 0 .. n
      BY <1>1
    <3> QED
      BY <1>9, <3>1
  <2>2. ASSUME NEW i \in 1 .. n
        PROVE  c[i] = (IF g[i].id = id THEN c[i - 1] ELSE Append(c[i - 1], g[i]))
    <3>1. i \in 0 .. n /\ i # 0
      BY <1>1
    <3> QED
      BY <1>9, <3>1
  <2> QED
    BY <2>1, <2>2
<1>11. \A i \in 0 .. n : c[i] \in S
  <2>1. c[0] \in S
    BY <1>4, <1>10
  <2>2. \A i \in 1 .. n : c[i - 1] \in S => c[i] \in S
    BY <1>3, <1>10
  <2> QED
    BY <1>1, <2>1, <2>2, LoopKeeps
<1>0. /\ g \in Seq(Tiles) /\ \A i \in 1 .. n : g[i] \in Tiles /\ g[i].col + g[i].cols <= Columns
      /\ \A i, j \in 1 .. n : g[i].id = g[j].id => i = j
  BY DEF Grids, TilesAreOwn, n
<1> DEFINE From(h, i) == \A j \in 1 .. Len(h) : \E k \in 1 .. i : h[j] = g[k]
           All(h, i)  == \A k \in 1 .. i : g[k].id # id => \E j \in 1 .. Len(h) : h[j] = g[k]
           T == {i \in 0 .. n : From(c[i], i) /\ All(c[i], i) /\ TilesAreOwn(c[i])}
<1>12. 0 \in T
  <2>1. c[0] = <<>> /\ 1 .. Len(<<>>) = {} /\ 0 \in 0 .. n /\ 1 .. 0 = {}
    BY <1>1, <1>10
  <2>2. From(<<>>, 0) /\ All(<<>>, 0) /\ TilesAreOwn(<<>>)
    BY <2>1 DEF TilesAreOwn
  <2> QED
    BY <2>1, <2>2
<1>13. ASSUME NEW i \in 0 .. n - 1, i \in T
       PROVE  i + 1 \in T
  <2>1. i + 1 \in 1 .. n /\ (i + 1) - 1 = i /\ i \in 0 .. n /\ i + 1 \in 0 .. n
    BY <1>1
  <2> DEFINE a == c[i]
             b == c[i + 1]
             x == g[i + 1]
  <2>2. b = IF x.id = id THEN a ELSE Append(a, x)
    BY <1>10, <2>1
  <2>3. a \in Seq(Tiles) /\ From(a, i) /\ All(a, i) /\ TilesAreOwn(a)
    BY <1>11, <1>13, <2>1 DEF S
  <2>4. x \in Tiles
    BY <1>0, <2>1
  <2>5. ASSUME NEW k \in 1 .. i + 1
        PROVE  k = i + 1 \/ k \in 1 .. i
    OBVIOUS
  <2>6. \A k \in 1 .. i : k \in 1 .. i + 1 /\ k \in 1 .. n /\ k # i + 1
    BY <1>1
  <2>7. CASE x.id = id
    <3>1. b = a
      BY <2>2, <2>7
    <3>2. From(a, i + 1)
      BY <2>3, <2>6
    <3>3. All(a, i + 1)
      BY <2>3, <2>5, <2>7
    <3> HIDE DEF From, All
    <3> QED
      BY <2>1, <2>3, <3>1, <3>2, <3>3
  <2>8. CASE x.id # id
    <3>1. b = Append(a, x)
      BY <2>2, <2>8
    <3> HIDE DEF a, b
    <3>2. /\ Len(b) = Len(a) + 1 /\ b[Len(a) + 1] = x /\ Len(a) \in Nat
          /\ \A j \in 1 .. Len(a) : b[j] = a[j]
      BY <2>3, <2>4, <3>1
    <3>3. \A j \in 1 .. Len(b) : j = Len(a) + 1 \/ j \in 1 .. Len(a)
      BY <3>2
    <3>4. \A j \in 1 .. Len(a) : j \in 1 .. Len(b)
      BY <3>2
    <3>5. From(b, i + 1)
      <4>1. ASSUME NEW j \in 1 .. Len(b)
            PROVE  \E k \in 1 .. i + 1 : b[j] = g[k]
        <5>1. CASE j = Len(a) + 1
          <6>1. i + 1 \in 1 .. i + 1
            OBVIOUS
          <6> QED
            BY <3>2, <5>1, <6>1
        <5>2. CASE j \in 1 .. Len(a)
          BY <2>3, <2>6, <3>2, <5>2
        <5> QED
          BY <3>3, <5>1, <5>2
      <4> QED
        BY <4>1
    <3>6. All(b, i + 1)
      <4>1. ASSUME NEW k \in 1 .. i + 1, g[k].id # id
            PROVE  \E j \in 1 .. Len(b) : b[j] = g[k]
        <5>1. CASE k = i + 1
          <6>1. Len(a) + 1 \in 1 .. Len(b)
            BY <3>2
          <6> QED
            BY <3>2, <5>1, <6>1
        <5>2. CASE k \in 1 .. i
          BY <2>3, <3>2, <3>4, <4>1, <5>2
        <5> QED
          BY <2>5, <5>1, <5>2
      <4> QED
        BY <4>1
    <3>7. \A j \in 1 .. Len(a) : a[j].id # x.id
      <4> TAKE j \in 1 .. Len(a)
      <4>1. PICK k \in 1 .. i : a[j] = g[k]
        BY <2>3
      <4> QED
        BY <1>0, <2>1, <2>6, <4>1
    <3>8. TilesAreOwn(b)
      <4>1. ASSUME NEW j \in 1 .. Len(b), NEW k \in 1 .. Len(b), b[j].id = b[k].id
            PROVE  j = k
        <5>1. CASE j \in 1 .. Len(a) /\ k \in 1 .. Len(a)
          BY <2>3, <3>2, <4>1, <5>1 DEF TilesAreOwn
        <5>2. CASE j = Len(a) + 1 \/ k = Len(a) + 1
          BY <3>2, <3>3, <3>7, <4>1, <5>2
        <5> QED
          BY <3>3, <5>1, <5>2
      <4> QED
        BY <4>1 DEF TilesAreOwn
    <3> HIDE DEF From, All
    <3> QED
      BY <2>1, <3>5, <3>6, <3>8 DEF b
  <2> QED
    BY <2>7, <2>8
<1>14. n \in T
  <2>1. n \in 0 .. n
    BY <1>1
  <2> HIDE DEF T
  <2> QED
    BY <1>1, <1>12, <1>13, <2>1, UpTo
<1> DEFINE h == c[n]
<1>15. h \in Seq(Tiles) /\ From(h, n) /\ All(h, n) /\ TilesAreOwn(h)
  <2>1. n \in 0 .. n
    BY <1>1
  <2> QED
    BY <1>11, <1>14, <2>1 DEF S
<1> HIDE DEF h
<1>16. \A i \in 1 .. Len(h) : h[i].col + h[i].cols <= Columns
  BY <1>0, <1>15
<1>17. h \in Grids
  BY <1>15, <1>16 DEF Grids
<1>18. InColumns(g, h)
  BY <1>15 DEF InColumns, n
<1>19. \A k \in 1 .. Len(g) : g[k].id # id => HasTile(h, g[k].id)
  <2> SUFFICES ASSUME NEW k \in 1 .. Len(g), g[k].id # id PROVE HasTile(h, g[k].id)
    OBVIOUS
  <2>1. PICK j \in 1 .. Len(h) : h[j] = g[k]
    BY <1>15 DEF n
  <2> QED
    BY <2>1 DEF HasTile
<1>20. h \in Thinned(g, id)
  BY <1>17, <1>18, <1>19 DEF Thinned
<1> QED
  BY <1>2, <1>20 DEF h

LEMMA RemoveTileThins ==
  ASSUME NEW g \in Grids, NEW id
  PROVE  Grid!RemoveTile(g, id) \in Thinned(g, id)
<1> DEFINE a == Grid!Others(g, id)
           b == Grid!Compact(a, NoPanel)
<1>1. Grid!RemoveTile(g, id) = IF Len(a) = Len(g) THEN g ELSE b
  BY DEF Grid!RemoveTile
<1>2. a \in Thinned(g, id)
  BY OthersAre
<1> HIDE DEF a
<1>3. a \in Grids /\ InColumns(g, a) /\ \A k \in 1 .. Len(g) : g[k].id # id => HasTile(a, g[k].id)
  BY <1>2 DEF Thinned
<1>4. a \in Seq(Tiles)
  BY <1>3 DEF Grids
<1>5. b \in Slid(a)
  BY <1>4, CompactSlides
<1>6. b \in Grids
  BY <1>3, <1>5, SlidGrid
<1> HIDE DEF b
<1>7. Len(b) = Len(a) /\ \A i \in 1 .. Len(a) : b[i].id = a[i].id /\ b[i].col = a[i].col
  BY <1>5 DEF Slid
<1>8. InColumns(g, b)
  BY <1>3, <1>7 DEF InColumns
<1>9. \A k \in 1 .. Len(g) : g[k].id # id => HasTile(b, g[k].id)
  BY <1>3, <1>7 DEF HasTile
<1>10. b \in Thinned(g, id)
  BY <1>6, <1>8, <1>9 DEF Thinned
<1>11. g \in Thinned(g, id)
  BY DEF Thinned, InColumns, HasTile
<1> QED
  BY <1>1, <1>10, <1>11

(* Every panel of a list placed.                                            *)
Kept(g) == {h \in Grids : Len(g) <= Len(h) /\ \A i \in 1 .. Len(g) : h[i].id = g[i].id /\ h[i].col = g[i].col}
LEMMA JoinedKeeps ==
  ASSUME NEW g \in Grids, NEW u \in Kept(g), NEW id, NEW v \in Joined(u, id)
  PROVE  v \in Kept(g) /\ HasTile(v, id) /\ \A k : HasTile(u, k) => HasTile(v, k)
<1>1. Len(g) \in Nat /\ Len(u) \in Nat /\ Len(v) \in Nat
  BY DEF Grids, Joined, Kept
<1>2. \A i \in 1 .. Len(g) : i \in 1 .. Len(u)
  BY <1>1 DEF Kept
<1>3. \A i \in 1 .. Len(u) : i \in 1 .. Len(v)
  BY <1>1 DEF Joined
<1>4. Len(g) <= Len(v)
  BY <1>1 DEF Kept, Joined
<1>5. v \in Kept(g)
  BY <1>2, <1>3, <1>4 DEF Kept, Joined
<1>6. HasTile(v, id)
  BY DEF HasTile, Joined
<1> QED
  BY <1>3, <1>5, <1>6 DEF HasTile, Joined

LEMMA PlaceAllPlaces ==
  ASSUME NEW g \in Grids, NEW list \in Seq(Panels)
  PROVE  PlaceAll(g, list) \in Kept(g) /\ \A id \in ToSet(list) : HasTile(PlaceAll(g, list), id)
<1> DEFINE n == Len(list)
           S == Kept(g)
           Rec(f) == [i \in 0 .. n |-> IF i = 0 THEN g ELSE PlaceTile(f[i - 1], list[i])]
           c == CHOOSE f : f = Rec(f)
           op == [p \in S \X (1 .. n) |-> PlaceTile(p[1], list[p[2]])]
<1>1. n \in Nat
  OBVIOUS
<1>2. PlaceAll(g, list) = c[n]
  BY DEF PlaceAll
<1>3. \A u \in S : \A i \in 1 .. n : PlaceTile(u, list[i]) \in S
  <2>1. ASSUME NEW u \in S, NEW i \in 1 .. n
        PROVE  PlaceTile(u, list[i]) \in S
    <3>1. u \in Kept(g) /\ u \in Grids /\ list[i] \in Panels
      BY DEF Kept
    <3>2. PlaceTile(u, list[i]) \in Joined(u, list[i])
      BY <3>1, PlaceTileJoins
    <3> QED
      BY <3>1, <3>2, JoinedKeeps
  <2> QED
    BY <2>1
<1>4. g \in S
  <2>1. Len(g) <= Len(g)
    BY DEF Grids
  <2> QED
    BY <2>1 DEF Kept
<1> HIDE DEF n
<1>5. op \in [S \X (1 .. n) -> S]
  BY <1>3
<1>6. \A u \in S : \A i \in 1 .. n : op[<<u, i>>] = PlaceTile(u, list[i])
  OBVIOUS
<1> HIDE DEF op, S
<1>7. PICK f : Looped(n, g, op, f) /\ \A i \in 0 .. n : f[i] \in S
  BY <1>1, <1>4, <1>5, LoopRuns
<1>8. f = Rec(f)
  <2>1. f = [i \in 0 .. n |-> f[i]] /\ f[0] = g
    BY <1>7 DEF Looped
  <2>2. ASSUME NEW i \in 1 .. n
        PROVE  f[i] = PlaceTile(f[i - 1], list[i])
    <3>1. i - 1 \in 0 .. n
      BY <1>1
    <3> QED
      BY <1>6, <1>7, <3>1 DEF Looped
  <2>3. ASSUME NEW i \in 0 .. n
        PROVE  Rec(f)[i] = f[i]
    <3>1. CASE i = 0
      BY <2>1, <3>1
    <3>2. CASE i # 0
      <4>1. i \in 1 .. n
        BY <1>1, <3>2
      <4> QED
        BY <2>2, <3>2, <4>1
    <3> QED
      BY <3>1, <3>2
  <2> QED
    BY <2>1, <2>3
<1>9. c = Rec(c)
  <2> HIDE DEF Rec
  <2> QED
    BY <1>8
<1> HIDE DEF c
<1>10. c[0] = g /\ \A i \in 1 .. n : c[i] = PlaceTile(c[i - 1], list[i])
  <2>1. c[0] = g
    <3>1. 0 \in 0 .. n
      BY <1>1
    <3> QED
      BY <1>9, <3>1
  <2>2. ASSUME NEW i \in 1 .. n
        PROVE  c[i] = PlaceTile(c[i - 1], list[i])
    <3>1. i \in 0 .. n /\ i # 0
      BY <1>1
    <3> QED
      BY <1>9, <3>1
  <2> QED
    BY <2>1, <2>2
<1>11. \A i \in 0 .. n : c[i] \in S
  <2>1. c[0] \in S
    BY <1>4, <1>10
  <2>2. \A i \in 1 .. n : c[i - 1] \in S => c[i] \in S
    BY <1>3, <1>10
  <2> QED
    BY <1>1, <2>1, <2>2, LoopKeeps
<1> DEFINE T == {i \in 0 .. n : \A j \in 1 .. i : HasTile(c[i], list[j])}
<1>12. 0 \in T
  BY <1>1
<1>13. ASSUME NEW i \in 0 .. n - 1, i \in T
       PROVE  i + 1 \in T
  <2>1. i + 1 \in 1 .. n /\ (i + 1) - 1 = i /\ i \in 0 .. n /\ i + 1 \in 0 .. n
    BY <1>1
  <2> DEFINE a == c[i]
             b == c[i + 1]
             x == list[i + 1]
  <2>2. b = PlaceTile(a, x)
    BY <1>10, <2>1
  <2>3. a \in Kept(g) /\ \A j \in 1 .. i : HasTile(a, list[j])
    BY <1>11, <1>13, <2>1 DEF S
  <2>4. x \in Panels
    BY <2>1 DEF n
  <2> HIDE DEF a, x
  <2>5. a \in Grids
    BY <2>3 DEF Kept
  <2>6. b \in Joined(a, x)
    BY <2>2, <2>4, <2>5, PlaceTileJoins
  <2> HIDE DEF b
  <2>7. HasTile(b, x) /\ \A k : HasTile(a, k) => HasTile(b, k)
    BY <2>3, <2>6, JoinedKeeps
  <2>8. \A j \in 1 .. i + 1 : j = i + 1 \/ j \in 1 .. i
    OBVIOUS
  <2>9. \A j \in 1 .. i + 1 : HasTile(b, list[j])
    BY <2>3, <2>7, <2>8 DEF x
  <2> QED
    BY <2>1, <2>9 DEF b
<1>14. n \in T
  <2>1. n \in 0 .. n
    BY <1>1
  <2> HIDE DEF T
  <2> QED
    BY <1>1, <1>12, <1>13, <2>1, UpTo
<1>15. c[n] \in Kept(g)
  <2>1. n \in 0 .. n
    BY <1>1
  <2> QED
    BY <1>11, <2>1 DEF S
<1>16. ToSet(list) = {list[i] : i \in 1 .. n}
  BY ToSetOf DEF n
<1>17. \A id \in ToSet(list) : HasTile(c[n], id)
  BY <1>14, <1>16
<1> QED
  BY <1>2, <1>15, <1>17

-----------------------------------------------------------------------------
(* What one walk reads and writes, typed.                                   *)
Somebody == Panels \union {NoPanel}
Lists  == {l \in Seq(Panels) : IsInjective(l)}
Trees  == {t \in [root : Nat, node : UNION {[L -> NodesOf(Ids)] : L \in SUBSET (Nat \ {0})}] :
             Readable(t, Ids)}
Hands  == [tab : Somebody, drag : Somebody, float : Somebody, split : Nat,
           tile : Somebody, corner : Somebody]
Spaces == [list : Lists, tree : Trees, grid : Grids, seeded : SUBSET Panels,
           anchor : [Slots -> Somebody], doomed : Somebody, queued : Nat, hand : Hands,
           changed : BOOLEAN, busy : BOOLEAN, serial : Nat, drawn : SUBSET Panels]

LEMMA TreesAre ==
  ASSUME NEW t
  PROVE  t \in Trees <=> Readable(t, Ids)
<1>1. ASSUME Readable(t, Ids)
      PROVE  t \in Trees
  <2>1. t \in [root : Nat, node : [Live(t) -> NodesOf(Ids)]] /\ Live(t) \subseteq Nat \ {0}
    BY <1>1 DEF Readable, Shaped, Typed
  <2>2. Live(t) \in SUBSET (Nat \ {0})
    BY <2>1
  <2> DEFINE D == UNION {[L -> NodesOf(Ids)] : L \in SUBSET (Nat \ {0})}
  <2>3. [Live(t) -> NodesOf(Ids)] \subseteq D
    BY <2>2
  <2> HIDE DEF D
  <2>4. t \in [root : Nat, node : D]
    BY <2>1, <2>3
  <2> QED
    BY <1>1, <2>4 DEF Trees, D
<1> QED
  BY <1>1 DEF Trees

LEMMA SpaceFields ==
  ASSUME NEW s \in Spaces
  PROVE  /\ s.list \in Seq(Panels) /\ IsInjective(s.list) /\ Readable(s.tree, Ids) /\ s.grid \in Grids
         /\ s.seeded \subseteq Panels /\ s.anchor \in [Slots -> Somebody] /\ s.doomed \in Somebody
         /\ s.queued \in Nat /\ s.hand \in Hands /\ s.serial \in Nat /\ s.drawn \subseteq Panels
         /\ s.changed \in BOOLEAN /\ s.busy \in BOOLEAN
<1>1. s.list \in Lists /\ s.tree \in Trees
  BY DEF Spaces
<1> QED
  BY <1>1, TreesAre DEF Spaces, Lists

LEMMA HandFields ==
  ASSUME NEW h \in Hands
  PROVE  /\ h.tab \in Somebody /\ h.drag \in Somebody /\ h.float \in Somebody
         /\ h.split \in Nat /\ h.tile \in Somebody /\ h.corner \in Somebody
BY DEF Hands

LEMMA NamesAre ==
  ASSUME NEW l \in Seq(Panels)
  PROVE  Names(l) = {l[i] : i \in 1 .. Len(l)} /\ Names(l) \subseteq Panels
BY ToSetOf DEF Names

LEMMA NobodyIsNoPanel == NoPanel \notin Ids /\ Panels \subseteq Ids
BY DockSpaceAssumption DEF Ids

LEMMA SoundIsReadable ==
  ASSUME NEW A, NEW t, Sound(t, Ids, A)
  PROVE  Readable(t, Ids) /\ t \in Trees
BY TreesAre DEF Sound, Readable

(* What its parts say of each other, but for the panels A that the file has *)
(* in the tree and not known to be in one place.  A hint is acted on before *)
(* a panel can be docked any other way, and spawned panels are numbered in  *)
(* order.                                                                   *)
Pointers(s) == {s.hand.tab, s.hand.drag, s.hand.float, s.hand.tile, s.hand.corner, s.doomed}
HintsDone(s, A) == \A c \in Docked(s.tree) \ A : HintOf(c) \in Slots => c \in s.seeded
Numbered(s)  == \A n \in 1 .. 2 * MaxSpawns : Spawned(n) \in Names(s.list) => n <= s.serial
Consistent(s, A) ==
  /\ Sound(s.tree, Ids, A) /\ Docked(s.tree) \subseteq Names(s.list) \union A
  /\ HintsDone(s, A) /\ Numbered(s)
  /\ Pointers(s) \subseteq Names(s.list) \union {NoPanel}
  /\ s.hand.split # Null => s.hand.split \in Splits(s.tree)
  /\ s.hand.tab # NoPanel => s.hand.tab \in Docked(s.tree)
Good(s, A) == s \in Spaces /\ Consistent(s, A)

(* Two of them that differ in the tree, the hand and the flags only.        *)
SameHolding(s, u) == /\ u.hand.tab = s.hand.tab /\ u.hand.drag = s.hand.drag /\ u.hand.float = s.hand.float
                     /\ u.hand.tile = s.hand.tile /\ u.hand.corner = s.hand.corner
SameRest(s, u) == /\ u.list = s.list /\ u.grid = s.grid /\ u.queued = s.queued /\ u.serial = s.serial

(* The queue swapped out is the queue asked for again.                      *)
LEMMA DrainingKeeps ==
  ASSUME NEW s \in Spaces
  PROVE  DrainSpawns(s) = s
<1> DEFINE n == s.queued
           S == Spaces
           Rec(f) == [i \in 0 .. n |-> IF i = 0 THEN [s EXCEPT !.queued = 0] ELSE Spawn(f[i - 1], TRUE)]
           c == CHOOSE f : f = Rec(f)
           op == [p \in S \X (1 .. n) |-> Spawn(p[1], TRUE)]
<1>1. n \in Nat
  BY SpaceFields
<1>2. DrainSpawns(s) = c[n]
  BY DEF DrainSpawns
<1>3. \A u \in S : \A i \in 1 .. n : Spawn(u, TRUE) \in S
  <2>1. SUFFICES ASSUME NEW u \in Spaces PROVE Spawn(u, TRUE) \in Spaces
    OBVIOUS
  <2>2. Spawn(u, TRUE) = [u EXCEPT !.queued = u.queued + 1]
    BY DEF Spawn
  <2>3. u.queued + 1 \in Nat
    BY SpaceFields
  <2> QED
    BY <2>2, <2>3 DEF Spaces
<1>4. [s EXCEPT !.queued = 0] \in S
  BY DEF Spaces
<1> HIDE DEF n
<1>5. op \in [S \X (1 .. n) -> S]
  BY <1>3
<1>6. \A u \in S : \A i \in 1 .. n : op[<<u, i>>] = Spawn(u, TRUE)
  OBVIOUS
<1> HIDE DEF op, S
<1>7. PICK f : Looped(n, [s EXCEPT !.queued = 0], op, f) /\ \A i \in 0 .. n : f[i] \in S
  BY <1>1, <1>4, <1>5, LoopRuns
<1>8. f = Rec(f)
  <2>1. f = [i \in 0 .. n |-> f[i]] /\ f[0] = [s EXCEPT !.queued = 0]
    BY <1>7 DEF Looped
  <2>2. ASSUME NEW i \in 1 .. n
        PROVE  f[i] = Spawn(f[i - 1], TRUE)
    <3>1. i - 1 \in 0 .. n
      BY <1>1
    <3> QED
      BY <1>6, <1>7, <3>1 DEF Looped
  <2>3. ASSUME NEW i \in 0 .. n
        PROVE  Rec(f)[i] = f[i]
    <3>1. CASE i = 0
      BY <2>1, <3>1
    <3>2. CASE i # 0
      <4>1. i \in 1 .. n
        BY <1>1, <3>2
      <4> QED
        BY <2>2, <3>2, <4>1
    <3> QED
      BY <3>1, <3>2
  <2> QED
    BY <2>1, <2>3
<1>9. c = Rec(c)
  <2> HIDE DEF Rec
  <2> QED
    BY <1>8
<1> HIDE DEF c
<1>10. c[0] = [s EXCEPT !.queued = 0] /\ \A i \in 1 .. n : c[i] = Spawn(c[i - 1], TRUE)
  <2>1. c[0] = [s EXCEPT !.queued = 0]
    <3>1. 0 \in 0 .. n
      BY <1>1
    <3> QED
      BY <1>9, <3>1
  <2>2. ASSUME NEW i \in 1 .. n
        PROVE  c[i] = Spawn(c[i - 1], TRUE)
    <3>1. i \in 0 .. n /\ i # 0
      BY <1>1
    <3> QED
      BY <1>9, <3>1
  <2> QED
    BY <2>1, <2>2
<1>11. \A i \in 0 .. n : c[i] \in S
  <2>1. c[0] \in S
    BY <1>4, <1>10
  <2>2. \A i \in 1 .. n : c[i - 1] \in S => c[i] \in S
    BY <1>3, <1>10
  <2> QED
    BY <1>1, <2>1, <2>2, LoopKeeps
<1> DEFINE T == {i \in 0 .. n : c[i] = [s EXCEPT !.queued = i]}
<1>12. 0 \in T
  BY <1>1, <1>10
<1>13. ASSUME NEW i \in 0 .. n - 1, i \in T
       PROVE  i + 1 \in T
  <2>1. i + 1 \in 1 .. n /\ (i + 1) - 1 = i /\ i + 1 \in 0 .. n
    BY <1>1
  <2>2. c[i + 1] = Spawn(c[i], TRUE) /\ c[i] = [s EXCEPT !.queued = i]
    BY <1>10, <1>13, <2>1
  <2>3. c[i + 1] = [s EXCEPT !.queued = i + 1]
    BY <2>2 DEF Spawn, Spaces
  <2> QED
    BY <2>1, <2>3
<1>14. n \in T
  <2>1. n \in 0 .. n
    BY <1>1
  <2> HIDE DEF T
  <2> QED
    BY <1>1, <1>12, <1>13, <2>1, UpTo
<1>15. c[n] = [s EXCEPT !.queued = s.queued]
  BY <1>14 DEF n
<1> QED
  BY <1>2, <1>15 DEF Spaces

LEMMA StructuralIs ==
  ASSUME NEW s \in Spaces
  PROVE  /\ StructuralChange(s) \in Spaces /\ SameHolding(s, StructuralChange(s)) /\ SameRest(s, StructuralChange(s))
         /\ StructuralChange(s).tree = s.tree /\ StructuralChange(s).seeded = s.seeded
         /\ StructuralChange(s).anchor = s.anchor /\ StructuralChange(s).doomed = s.doomed
         /\ StructuralChange(s).drawn = s.drawn /\ StructuralChange(s).hand.split = Null
<1>1. [s.hand EXCEPT !.split = Null] \in Hands
  <2>1. s.hand \in Hands /\ Null \in Nat
    BY SpaceFields DEF Null
  <2> QED
    BY <2>1 DEF Hands
<1>2. StructuralChange(s) = [s EXCEPT !.changed = TRUE, !.hand = [s.hand EXCEPT !.split = Null]]
  BY DEF StructuralChange, Spaces
<1> DEFINE h == [s.hand EXCEPT !.split = Null]
<1>3. /\ h.tab = s.hand.tab /\ h.drag = s.hand.drag /\ h.float = s.hand.float
      /\ h.tile = s.hand.tile /\ h.corner = s.hand.corner /\ h.split = Null
  <2>1. s.hand \in Hands
    BY SpaceFields
  <2> QED
    BY <2>1 DEF Hands
<1> HIDE DEF h
<1>4. StructuralChange(s) \in Spaces
  BY <1>1, <1>2 DEF Spaces, h
<1> DEFINE u == StructuralChange(s)
<1>5. /\ u.hand = h /\ u.list = s.list /\ u.grid = s.grid /\ u.queued = s.queued /\ u.serial = s.serial
      /\ u.tree = s.tree /\ u.seeded = s.seeded /\ u.anchor = s.anchor /\ u.doomed = s.doomed /\ u.drawn = s.drawn
  BY <1>2 DEF Spaces, h
<1> QED
  BY <1>3, <1>4, <1>5 DEF SameHolding, SameRest

-----------------------------------------------------------------------------
(* Seeding.  A panel joins the one its hint seeded first, or the largest    *)
(* pane, or makes a pane at an edge; only one whose hint is still to be     *)
(* acted on, so never one that is docked.                                   *)
LEMMA SeedAtLeads ==
  ASSUME NEW A, NEW P, NEW t, Sound(t, P, A), NEW id \in P, id \in A \/ id \notin Docked(t), NEW slot,
         NEW largest \in Nat
  PROVE  \E D \in {Docked(t), Docked(t) \union {id}} : Leads(t, SeedAt(t, slot, id, largest), P, A, D)
<1> DEFINE panes == Gather(t)
           n == Big(t, panes, largest)
<1>1. Shaped(t, P) /\ Leads(t, t, P, A, Docked(t))
  BY DEF Sound, Leads
<1>2. panes \in Seq(Panes(t)) /\ panes # <<>>
  BY <1>1, GatherGathers DEF Panes
<1>3. n \in Live(t)
  <2>1. CASE Empty(t)
    BY <1>1, <2>1 DEF Big, Shaped, Linked, Rooted
  <2>2. CASE ~Empty(t)
    <3>1. Len(panes) \in Nat /\ Len(panes) > 0
      BY <1>2
    <3>2. n = panes[1 + (largest % Len(panes))]
      BY <2>2 DEF Big
    <3> HIDE DEF panes, n
    <3>3. 1 + (largest % Len(panes)) \in 1 .. Len(panes)
      BY <3>1
    <3>4. n \in Panes(t)
      BY <1>2, <3>2, <3>3
    <3> QED
      BY <3>4 DEF Panes
  <2> QED
    BY <2>1, <2>2
<1>4. CASE slot = "center" \/ Empty(t)
  <2>1. SeedAt(t, slot, id, largest) = AddTab(t, n, id)
    BY <1>4 DEF SeedAt
  <2> HIDE DEF n
  <2>2. CASE n \in Panes(t)
    <3>1. Leads(t, AddTab(t, n, id), P, A, Docked(t) \union {id})
      BY <2>2, AddTabLeads
    <3> QED
      BY <2>1, <3>1
  <2>3. CASE n \notin Panes(t)
    <3>1. ~IsLeaf(t, n)
      BY <1>1, <1>3, <2>3, NodeTyped
    <3>2. AddTab(t, n, id) = t
      BY <3>1 DEF AddTab
    <3> QED
      BY <1>1, <2>1, <3>2
  <2> QED
    BY <2>2, <2>3
<1>5. CASE ~(slot = "center" \/ Empty(t))
  <2> DEFINE side == IF slot \in {"left", "top"} THEN "before" ELSE "after"
  <2>1. SeedAt(t, slot, id, largest) = SplitRoot(t, side, id)
    BY <1>5 DEF SeedAt
  <2> HIDE DEF side
  <2>2. Leads(t, SplitRoot(t, side, id), P, A, Docked(t) \union {id})
    BY SplitRootLeads
  <2> QED
    BY <2>1, <2>2
<1> QED
  BY <1>4, <1>5

Seeds(s, u, A) ==
  /\ Good(u, A) /\ SameRest(s, u) /\ SameHolding(s, u) /\ u.doomed = s.doomed /\ s.seeded \subseteq u.seeded
  /\ Docked(s.tree) \subseteq Docked(u.tree)
  /\ \A c \in Docked(u.tree) : c \in Docked(s.tree) \/ (c \notin s.seeded /\ c \in u.seeded)
  /\ BlankPanes(u.tree) \subseteq BlankPanes(s.tree)

LEMMA SeedsSelf ==
  ASSUME NEW A, NEW s, Good(s, A)
  PROVE  Seeds(s, s, A)
BY DEF Seeds, SameRest, SameHolding

LEMMA SeedsOn ==
  ASSUME NEW A, NEW s, NEW u, NEW v, Seeds(s, u, A), Seeds(u, v, A)
  PROVE  Seeds(s, v, A)
<1>1. SameRest(s, v) /\ SameHolding(s, v) /\ v.doomed = s.doomed
  BY DEF Seeds, SameRest, SameHolding
<1>2. s.seeded \subseteq v.seeded /\ Docked(s.tree) \subseteq Docked(v.tree)
      /\ BlankPanes(v.tree) \subseteq BlankPanes(s.tree)
  BY DEF Seeds
<1>3. \A c \in Docked(v.tree) : c \in Docked(s.tree) \/ (c \notin s.seeded /\ c \in v.seeded)
  BY DEF Seeds
<1>4. Good(v, A)
  BY DEF Seeds
<1> QED
  BY <1>1, <1>2, <1>3, <1>4 DEF Seeds

LEMMA SeedOneSeeds ==
  ASSUME NEW A, NEW s, Good(s, A), NEW slot \in Slots, NEW c \in Names(s.list), NEW largest \in Nat
  PROVE  /\ Seeds(s, SeedOne(s, slot, c, largest), A)
         /\ HintOf(c) = slot => c \in SeedOne(s, slot, c, largest).seeded
<1> DEFINE a == [StructuralChange(s) EXCEPT !.seeded = @ \union {c}]
           m == Mate(s, slot)
           u == SeedWith(a, m, slot, c, largest)
           v == IF m # Null THEN AddTab(s.tree, m, c) ELSE SeedAt(s.tree, slot, c, largest)
           w == IF m # Null THEN s.anchor ELSE [s.anchor EXCEPT ![slot] = c]
<1>1. SeedOne(s, slot, c, largest) = IF HintOf(c) # slot \/ c \in s.seeded THEN s ELSE u
  BY DEF SeedOne, SeedPanel
<1>2. CASE HintOf(c) # slot \/ c \in s.seeded
  BY <1>1, <1>2, SeedsSelf
<1>3. CASE ~(HintOf(c) # slot \/ c \in s.seeded)
  <2>0. s \in Spaces /\ Consistent(s, A)
    BY DEF Good
  <2>1. c \in Panels /\ c \in Ids /\ (c \in A \/ c \notin Docked(s.tree)) /\ Sound(s.tree, Ids, A)
    <3>1. c \in Panels /\ c \in Ids /\ Sound(s.tree, Ids, A)
      BY <2>0, SpaceFields, NamesAre, NobodyIsNoPanel DEF Consistent
    <3> QED
      BY <1>3, <2>0, <3>1 DEF Consistent, HintsDone
  <2>2. \E D \in {Docked(s.tree), Docked(s.tree) \union {c}} : Leads(s.tree, v, Ids, A, D)
    <3>1. CASE m # Null
      <4>1. m \in Panes(s.tree)
        <5>1. m = LeafFor(s.tree, s.anchor[slot])
          BY <3>1 DEF Mate
        <5>2. Shaped(s.tree, Ids)
          BY <2>1 DEF Sound
        <5> HIDE DEF m
        <5> QED
          BY <3>1, <5>1, <5>2, LeafForIs
      <4> HIDE DEF m
      <4>2. Leads(s.tree, AddTab(s.tree, m, c), Ids, A, Docked(s.tree) \union {c})
        BY <2>1, <4>1, AddTabLeads
      <4> QED
        BY <3>1, <4>2
    <3>2. CASE m = Null
      BY <2>1, <3>2, SeedAtLeads
    <3> QED
      BY <3>1, <3>2
  <2>3. PICK D \in {Docked(s.tree), Docked(s.tree) \union {c}} : Leads(s.tree, v, Ids, A, D)
    BY <2>2
  <2>4. v \in Trees /\ Docked(v) = D /\ BlankPanes(v) \subseteq BlankPanes(s.tree)
    BY <2>3, SoundIsReadable DEF Leads
  <2>5. w \in [Slots -> Somebody]
    <3>1. s.anchor \in [Slots -> Somebody] /\ c \in Somebody
      BY <2>0, <2>1, SpaceFields DEF Somebody
    <3> QED
      BY <3>1
  <2> DEFINE b == StructuralChange(s)
  <2>6. /\ b \in Spaces /\ SameHolding(s, b) /\ SameRest(s, b)
        /\ b.tree = s.tree /\ b.seeded = s.seeded /\ b.anchor = s.anchor /\ b.doomed = s.doomed
        /\ b.hand.split = Null
    BY <2>0, StructuralIs
  <2> HIDE DEF b
  <2>7. u = [b EXCEPT !.seeded = s.seeded \union {c}, !.tree = v, !.anchor = w]
    <3>1. a = [b EXCEPT !.seeded = s.seeded \union {c}] /\ a.tree = s.tree /\ a.anchor = s.anchor
      BY <2>6 DEF b, Spaces
    <3>2. u = IF m # Null THEN [a EXCEPT !.tree = AddTab(s.tree, m, c)]
              ELSE [a EXCEPT !.tree = SeedAt(s.tree, slot, c, largest), !.anchor = [s.anchor EXCEPT ![slot] = c]]
      BY <3>1 DEF SeedWith
    <3> HIDE DEF a, u, m
    <3>3. CASE m # Null
      <4>1. u = [a EXCEPT !.tree = v] /\ w = b.anchor
        BY <2>6, <3>2, <3>3
      <4> HIDE DEF v, w
      <4> QED
        BY <2>6, <3>1, <4>1 DEF Spaces
    <3>4. CASE m = Null
      <4>1. u = [a EXCEPT !.tree = v, !.anchor = w]
        BY <3>2, <3>4
      <4> HIDE DEF v, w
      <4> QED
        BY <2>6, <3>1, <4>1 DEF Spaces
    <3> QED
      BY <3>3, <3>4
  <2> HIDE DEF a, m, u, v, w
  <2>8. s.seeded \union {c} \in SUBSET Panels
    BY <2>0, <2>1, SpaceFields
  <2>9. /\ u \in Spaces /\ u.list = b.list /\ u.grid = b.grid /\ u.queued = b.queued /\ u.serial = b.serial
        /\ u.hand = b.hand /\ u.doomed = b.doomed /\ u.tree = v /\ u.seeded = s.seeded \union {c}
    BY <2>4, <2>5, <2>6, <2>7, <2>8 DEF Spaces
  <2>10. SameRest(s, u) /\ SameHolding(s, u) /\ u.doomed = s.doomed /\ u.hand.split = Null
    BY <2>6, <2>9 DEF SameRest, SameHolding
  <2>11. Docked(s.tree) \subseteq D /\ D \subseteq Docked(s.tree) \union {c}
    OBVIOUS
  <2>12. Consistent(u, A)
    <3>1. Sound(u.tree, Ids, A) /\ Docked(u.tree) \subseteq Names(u.list) \union A
      BY <2>0, <2>3, <2>4, <2>9, <2>10, <2>11 DEF Consistent, SameRest, Leads
    <3>2. HintsDone(u, A)
      BY <2>0, <2>4, <2>9, <2>11 DEF Consistent, HintsDone
    <3>3. Numbered(u)
      BY <2>0, <2>10 DEF Consistent, Numbered, SameRest
    <3>4. Pointers(u) \subseteq Names(u.list) \union {NoPanel}
      BY <2>0, <2>10 DEF Consistent, Pointers, SameRest, SameHolding
    <3>5. u.hand.tab # NoPanel => u.hand.tab \in Docked(u.tree)
      BY <2>0, <2>4, <2>9, <2>10, <2>11 DEF Consistent, SameHolding
    <3> QED
      BY <2>10, <3>1, <3>2, <3>3, <3>4, <3>5 DEF Consistent
  <2>13. \A x \in Docked(u.tree) : x \in Docked(s.tree) \/ (x \notin s.seeded /\ x \in u.seeded)
    BY <1>3, <2>4, <2>9, <2>11
  <2>14. Seeds(s, u, A)
    BY <2>4, <2>9, <2>10, <2>11, <2>12, <2>13 DEF Seeds, Good
  <2>15. SeedOne(s, slot, c, largest) = u
    BY <1>1, <1>3
  <2> QED
    BY <2>9, <2>14, <2>15
<1> QED
  BY <1>2, <1>3

SlotDone(s, slot) == \A c \in Names(s.list) : HintOf(c) = slot => c \in s.seeded
AllSeeded(s) == \A c \in Names(s.list) : HintOf(c) \in Slots => c \in s.seeded

LEMMA SeedSlotSeeds ==
  ASSUME NEW A, NEW s, Good(s, A), NEW slot \in Slots, NEW largest \in Nat
  PROVE  Seeds(s, SeedSlot(s, slot, largest), A) /\ SlotDone(SeedSlot(s, slot, largest), slot)
<1> DEFINE n == Len(s.list)
           S == {u \in Spaces : Seeds(s, u, A)}
           Rec(f) == [i \in 0 .. n |-> IF i = 0 THEN s ELSE SeedOne(f[i - 1], slot, s.list[i], largest)]
           c == CHOOSE f : f = Rec(f)
           op == [p \in S \X (1 .. n) |-> SeedOne(p[1], slot, s.list[p[2]], largest)]
<1>1. n \in Nat
  BY SpaceFields DEF Good
<1>2. SeedSlot(s, slot, largest) = c[n]
  BY DEF SeedSlot
<1>0. Len(s.list) \in Nat /\ Names(s.list) = {s.list[i] : i \in 1 .. Len(s.list)}
  BY SpaceFields, NamesAre DEF Good
<1>3. \A u \in S : \A i \in 1 .. n : SeedOne(u, slot, s.list[i], largest) \in S
  <2>1. ASSUME NEW u \in S, NEW i \in 1 .. n
        PROVE  SeedOne(u, slot, s.list[i], largest) \in S
    <3>1. Seeds(s, u, A) /\ Good(u, A) /\ u.list = s.list
      BY DEF Seeds, SameRest
    <3>2. s.list[i] \in Names(u.list)
      BY <1>0, <3>1
    <3> DEFINE v == SeedOne(u, slot, s.list[i], largest)
    <3>3. Seeds(u, v, A)
      BY <3>1, <3>2, SeedOneSeeds
    <3> HIDE DEF v
    <3>4. Seeds(s, v, A) /\ v \in Spaces
      BY <3>1, <3>3, SeedsOn DEF Seeds, Good
    <3> QED
      BY <3>4 DEF v
  <2> QED
    BY <2>1
<1>4. s \in S
  BY SeedsSelf DEF Good
<1> HIDE DEF n
<1>5. op \in [S \X (1 .. n) -> S]
  BY <1>3
<1>6. \A u \in S : \A i \in 1 .. n : op[<<u, i>>] = SeedOne(u, slot, s.list[i], largest)
  OBVIOUS
<1> HIDE DEF op, S
<1>7. PICK f : Looped(n, s, op, f) /\ \A i \in 0 .. n : f[i] \in S
  BY <1>1, <1>4, <1>5, LoopRuns
<1>8. f = Rec(f)
  <2>1. f = [i \in 0 .. n |-> f[i]] /\ f[0] = s
    BY <1>7 DEF Looped
  <2>2. ASSUME NEW i \in 1 .. n
        PROVE  f[i] = SeedOne(f[i - 1], slot, s.list[i], largest)
    <3>1. i - 1 \in 0 .. n
      BY <1>1
    <3> QED
      BY <1>6, <1>7, <3>1 DEF Looped
  <2>3. ASSUME NEW i \in 0 .. n
        PROVE  Rec(f)[i] = f[i]
    <3>1. CASE i = 0
      BY <2>1, <3>1
    <3>2. CASE i # 0
      <4>1. i \in 1 .. n
        BY <1>1, <3>2
      <4> QED
        BY <2>2, <3>2, <4>1
    <3> QED
      BY <3>1, <3>2
  <2> QED
    BY <2>1, <2>3
<1>9. c = Rec(c)
  <2> HIDE DEF Rec
  <2> QED
    BY <1>8
<1> HIDE DEF c
<1>10. c[0] = s /\ \A i \in 1 .. n : c[i] = SeedOne(c[i - 1], slot, s.list[i], largest)
  <2>1. c[0] = s
    <3>1. 0 \in 0 .. n
      BY <1>1
    <3> QED
      BY <1>9, <3>1
  <2>2. ASSUME NEW i \in 1 .. n
        PROVE  c[i] = SeedOne(c[i - 1], slot, s.list[i], largest)
    <3>1. i \in 0 .. n /\ i # 0
      BY <1>1
    <3> QED
      BY <1>9, <3>1
  <2> QED
    BY <2>1, <2>2
<1>11. \A i \in 0 .. n : c[i] \in S
  <2>1. c[0] \in S
    BY <1>4, <1>10
  <2>2. \A i \in 1 .. n : c[i - 1] \in S => c[i] \in S
    BY <1>3, <1>10
  <2> QED
    BY <1>1, <2>1, <2>2, LoopKeeps
<1> DEFINE T == {i \in 0 .. n : \A j \in 1 .. i : HintOf(s.list[j]) = slot => s.list[j] \in c[i].seeded}
<1>12. 0 \in T
  BY <1>1
<1>13. ASSUME NEW i \in 0 .. n - 1, i \in T
       PROVE  i + 1 \in T
  <2>1. i + 1 \in 1 .. n /\ (i + 1) - 1 = i /\ i \in 0 .. n /\ i + 1 \in 0 .. n
    BY <1>1
  <2> DEFINE a == c[i]
             b == c[i + 1]
             x == s.list[i + 1]
  <2>2. b = SeedOne(a, slot, x, largest)
    BY <1>10, <2>1
  <2>3. Seeds(s, a, A) /\ \A j \in 1 .. i : HintOf(s.list[j]) = slot => s.list[j] \in a.seeded
    BY <1>11, <1>13, <2>1 DEF S
  <2>4. x \in Names(s.list)
    BY <1>0, <2>1 DEF n
  <2> HIDE DEF a, b, x
  <2>5. Good(a, A) /\ x \in Names(a.list)
    BY <2>3, <2>4 DEF Seeds, SameRest
  <2>6. Seeds(a, b, A) /\ (HintOf(x) = slot => x \in b.seeded)
    BY <2>2, <2>5, SeedOneSeeds
  <2>7. \A j \in 1 .. i + 1 : j = i + 1 \/ j \in 1 .. i
    OBVIOUS
  <2>8. a.seeded \subseteq b.seeded
    BY <2>6 DEF Seeds
  <2>9. \A j \in 1 .. i + 1 : HintOf(s.list[j]) = slot => s.list[j] \in b.seeded
    BY <2>3, <2>6, <2>7, <2>8 DEF x
  <2> QED
    BY <2>1, <2>9 DEF b
<1>14. n \in T
  <2>1. n \in 0 .. n
    BY <1>1
  <2> HIDE DEF T
  <2> QED
    BY <1>1, <1>12, <1>13, <2>1, UpTo
<1>15. Seeds(s, c[n], A)
  <2>1. n \in 0 .. n
    BY <1>1
  <2> QED
    BY <1>11, <2>1 DEF S
<1>16. c[n].list = s.list
  BY <1>15 DEF Seeds, SameRest
<1>17. SlotDone(c[n], slot)
  BY <1>0, <1>14, <1>16 DEF SlotDone, n
<1> QED
  BY <1>2, <1>15, <1>17

LEMMA SeedTreeSeeds ==
  ASSUME NEW A, NEW s, Good(s, A), NEW largest \in Nat
  PROVE  Seeds(s, SeedTree(s, largest), A) /\ AllSeeded(SeedTree(s, largest))
<1> DEFINE n == Len(SeedOrder)
           S == {u \in Spaces : Seeds(s, u, A)}
           Rec(f) == [i \in 0 .. n |-> IF i = 0 THEN s ELSE SeedSlot(f[i - 1], SeedOrder[i], largest)]
           c == CHOOSE f : f = Rec(f)
           op == [p \in S \X (1 .. n) |-> SeedSlot(p[1], SeedOrder[p[2]], largest)]
<1>1. n \in Nat
  BY DEF SeedOrder
<1>2. SeedTree(s, largest) = c[n]
  BY DEF SeedTree
<1>0. Len(SeedOrder) = 5 /\ (\A i \in 1 .. Len(SeedOrder) : SeedOrder[i] \in Slots)
      /\ \A slot \in Slots : \E j \in 1 .. Len(SeedOrder) : slot = SeedOrder[j]
  <2>1. /\ Len(SeedOrder) = 5 /\ SeedOrder[1] = "center" /\ SeedOrder[2] = "bottom"
        /\ SeedOrder[3] = "top" /\ SeedOrder[4] = "right" /\ SeedOrder[5] = "left"
    BY DEF SeedOrder
  <2>2. \A i \in 1 .. 5 : i = 1 \/ i = 2 \/ i = 3 \/ i = 4 \/ i = 5
    OBVIOUS
  <2>3. 1 \in 1 .. 5 /\ 2 \in 1 .. 5 /\ 3 \in 1 .. 5 /\ 4 \in 1 .. 5 /\ 5 \in 1 .. 5
    OBVIOUS
  <2> QED
    BY <2>1, <2>2, <2>3 DEF Slots
<1>3. \A u \in S : \A i \in 1 .. n : SeedSlot(u, SeedOrder[i], largest) \in S
  <2>1. ASSUME NEW u \in S, NEW i \in 1 .. n
        PROVE  SeedSlot(u, SeedOrder[i], largest) \in S
    <3>1. Seeds(s, u, A) /\ Good(u, A)
      BY DEF Seeds
    <3>2. SeedOrder[i] \in Slots
      BY <1>0
    <3> DEFINE v == SeedSlot(u, SeedOrder[i], largest)
    <3>3. Seeds(u, v, A)
      BY <3>1, <3>2, SeedSlotSeeds
    <3> HIDE DEF v
    <3>4. Seeds(s, v, A) /\ v \in Spaces
      BY <3>1, <3>3, SeedsOn DEF Seeds, Good
    <3> QED
      BY <3>4 DEF v
  <2> QED
    BY <2>1
<1>4. s \in S
  BY SeedsSelf DEF Good
<1> HIDE DEF n
<1>5. op \in [S \X (1 .. n) -> S]
  BY <1>3
<1>6. \A u \in S : \A i \in 1 .. n : op[<<u, i>>] = SeedSlot(u, SeedOrder[i], largest)
  OBVIOUS
<1> HIDE DEF op, S
<1>7. PICK f : Looped(n, s, op, f) /\ \A i \in 0 .. n : f[i] \in S
  BY <1>1, <1>4, <1>5, LoopRuns
<1>8. f = Rec(f)
  <2>1. f = [i \in 0 .. n |-> f[i]] /\ f[0] = s
    BY <1>7 DEF Looped
  <2>2. ASSUME NEW i \in 1 .. n
        PROVE  f[i] = SeedSlot(f[i - 1], SeedOrder[i], largest)
    <3>1. i - 1 \in 0 .. n
      BY <1>1
    <3> QED
      BY <1>6, <1>7, <3>1 DEF Looped
  <2>3. ASSUME NEW i \in 0 .. n
        PROVE  Rec(f)[i] = f[i]
    <3>1. CASE i = 0
      BY <2>1, <3>1
    <3>2. CASE i # 0
      <4>1. i \in 1 .. n
        BY <1>1, <3>2
      <4> QED
        BY <2>2, <3>2, <4>1
    <3> QED
      BY <3>1, <3>2
  <2> QED
    BY <2>1, <2>3
<1>9. c = Rec(c)
  <2> HIDE DEF Rec
  <2> QED
    BY <1>8
<1> HIDE DEF c
<1>10. c[0] = s /\ \A i \in 1 .. n : c[i] = SeedSlot(c[i - 1], SeedOrder[i], largest)
  <2>1. c[0] = s
    <3>1. 0 \in 0 .. n
      BY <1>1
    <3> QED
      BY <1>9, <3>1
  <2>2. ASSUME NEW i \in 1 .. n
        PROVE  c[i] = SeedSlot(c[i - 1], SeedOrder[i], largest)
    <3>1. i \in 0 .. n /\ i # 0
      BY <1>1
    <3> QED
      BY <1>9, <3>1
  <2> QED
    BY <2>1, <2>2
<1>11. \A i \in 0 .. n : c[i] \in S
  <2>1. c[0] \in S
    BY <1>4, <1>10
  <2>2. \A i \in 1 .. n : c[i - 1] \in S => c[i] \in S
    BY <1>3, <1>10
  <2> QED
    BY <1>1, <2>1, <2>2, LoopKeeps
<1> DEFINE T == {i \in 0 .. n : \A j \in 1 .. i : SlotDone(c[i], SeedOrder[j])}
<1>12. 0 \in T
  BY <1>1
<1>13. ASSUME NEW i \in 0 .. n - 1, i \in T
       PROVE  i + 1 \in T
  <2>1. i + 1 \in 1 .. n /\ (i + 1) - 1 = i /\ i \in 0 .. n /\ i + 1 \in 0 .. n
    BY <1>1
  <2> DEFINE a == c[i]
             b == c[i + 1]
             x == SeedOrder[i + 1]
  <2>2. b = SeedSlot(a, x, largest)
    BY <1>10, <2>1
  <2>3. Seeds(s, a, A) /\ \A j \in 1 .. i : SlotDone(a, SeedOrder[j])
    BY <1>11, <1>13, <2>1 DEF S
  <2>4. x \in Slots
    BY <1>0, <2>1 DEF n
  <2> HIDE DEF a, b, x
  <2>5. Good(a, A)
    BY <2>3 DEF Seeds
  <2>6. Seeds(a, b, A) /\ SlotDone(b, x)
    BY <2>2, <2>4, <2>5, SeedSlotSeeds
  <2>7. \A j \in 1 .. i + 1 : j = i + 1 \/ j \in 1 .. i
    OBVIOUS
  <2>8. a.seeded \subseteq b.seeded /\ b.list = a.list
    BY <2>6 DEF Seeds, SameRest
  <2>9. \A j \in 1 .. i : SlotDone(b, SeedOrder[j])
    BY <2>3, <2>8 DEF SlotDone
  <2>10. \A j \in 1 .. i + 1 : SlotDone(b, SeedOrder[j])
    BY <2>6, <2>7, <2>9 DEF x
  <2> QED
    BY <2>1, <2>10 DEF b
<1>14. n \in T
  <2>1. n \in 0 .. n
    BY <1>1
  <2> HIDE DEF T
  <2> QED
    BY <1>1, <1>12, <1>13, <2>1, UpTo
<1>15. Seeds(s, c[n], A)
  <2>1. n \in 0 .. n
    BY <1>1
  <2> QED
    BY <1>11, <2>1 DEF S
<1>16. \A slot \in Slots : \E j \in 1 .. n : slot = SeedOrder[j]
  BY <1>0 DEF n
<1>17. AllSeeded(c[n])
  BY <1>14, <1>16 DEF AllSeeded, SlotDone
<1> QED
  BY <1>2, <1>15, <1>17

-----------------------------------------------------------------------------
(* A space with one part changed.                                           *)
SetTree(s, t) == [s EXCEPT !.tree = t]
SetHand(s, h) == [s EXCEPT !.hand = h]
SameState(s, u) == /\ u.list = s.list /\ u.grid = s.grid /\ u.queued = s.queued /\ u.serial = s.serial
                   /\ u.seeded = s.seeded /\ u.doomed = s.doomed

LEMMA SetTreeIs ==
  ASSUME NEW s \in Spaces, NEW t, Readable(t, Ids)
  PROVE  /\ SetTree(s, t) \in Spaces /\ SameState(s, SetTree(s, t)) /\ SetTree(s, t).tree = t
         /\ SetTree(s, t).hand = s.hand /\ SetTree(s, t).busy = s.busy /\ SetTree(s, t).drawn = s.drawn
<1>1. t \in Trees
  BY TreesAre
<1> QED
  BY <1>1 DEF SetTree, SameState, Spaces

LEMMA SetHandIs ==
  ASSUME NEW s \in Spaces, NEW h \in Hands
  PROVE  /\ SetHand(s, h) \in Spaces /\ SameState(s, SetHand(s, h)) /\ SetHand(s, h).hand = h
         /\ SetHand(s, h).tree = s.tree /\ SetHand(s, h).busy = s.busy /\ SetHand(s, h).drawn = s.drawn
BY DEF SetHand, SameState, Spaces

LEMMA UnanchorIs ==
  ASSUME NEW s \in Spaces, NEW c
  PROVE  /\ Unanchor(s, c) \in Spaces /\ SameState(s, Unanchor(s, c)) /\ Unanchor(s, c).tree = s.tree
         /\ Unanchor(s, c).hand = s.hand /\ Unanchor(s, c).busy = s.busy /\ Unanchor(s, c).drawn = s.drawn
<1> DEFINE a == [h \in Slots |-> IF s.anchor[h] = c THEN NoPanel ELSE s.anchor[h]]
<1>1. s.anchor \in [Slots -> Somebody] /\ NoPanel \in Somebody
  BY SpaceFields DEF Somebody
<1>2. a \in [Slots -> Somebody]
  BY <1>1
<1>3. Unanchor(s, c) = [s EXCEPT !.anchor = a]
  BY DEF Unanchor
<1> HIDE DEF a
<1> QED
  BY <1>2, <1>3 DEF SameState, Spaces

LEMMA SetDoomedIs ==
  ASSUME NEW s \in Spaces, NEW c \in Somebody
  PROVE  LET u == [s EXCEPT !.doomed = c]
         IN /\ u \in Spaces /\ SameRest(s, u) /\ u.seeded = s.seeded /\ u.tree = s.tree
            /\ u.hand = s.hand /\ u.doomed = c /\ u.busy = s.busy /\ u.drawn = s.drawn
BY DEF SameRest, Spaces

(* When such a space is still consistent.                                   *)
LEMMA ConsistentOn ==
  ASSUME NEW A, NEW s, Good(s, A), NEW u \in Spaces, SameRest(s, u),
         Sound(u.tree, Ids, A), Docked(u.tree) \subseteq Names(s.list) \union A, HintsDone(u, A),
         Pointers(u) \subseteq Names(s.list) \union {NoPanel},
         u.hand.split # Null => u.hand.split \in Splits(u.tree),
         u.hand.tab # NoPanel => u.hand.tab \in Docked(u.tree)
  PROVE  Good(u, A)
<1>1. Numbered(u)
  BY DEF Good, Consistent, Numbered, SameRest
<1> QED
  BY <1>1 DEF Good, Consistent, SameRest

(* The hand lets a splitter and a grip go.                                  *)
LEMMA GripsLetGo ==
  ASSUME NEW A, NEW s, Good(s, A), NEW in
  PROVE  LET u == AdvanceGrips(s, in)
         IN /\ Good(u, A) /\ SameState(s, u) /\ u.tree = s.tree /\ u.hand.tab = s.hand.tab
            /\ u.hand.drag = s.hand.drag /\ u.hand.tile = s.hand.tile /\ u.hand.corner = s.hand.corner
<1> DEFINE h == [s.hand EXCEPT !.split = Null, !.float = NoPanel]
           u == SetHand(s, h)
<1>1. s \in Spaces /\ s.hand \in Hands
  BY SpaceFields DEF Good
<1>2. AdvanceGrips(s, in) = IF in.released THEN u ELSE s
  BY <1>1 DEF AdvanceGrips, SetHand, Spaces
<1>3. /\ h \in Hands /\ h.tab = s.hand.tab /\ h.drag = s.hand.drag /\ h.tile = s.hand.tile
      /\ h.corner = s.hand.corner /\ h.split = Null /\ h.float = NoPanel
  BY <1>1 DEF Hands, Somebody, Null
<1> HIDE DEF h
<1>4. u \in Spaces /\ SameState(s, u) /\ u.hand = h /\ u.tree = s.tree
  BY <1>1, <1>3, SetHandIs
<1> HIDE DEF u
<1>5. SameRest(s, u) /\ HintsDone(u, A)
  BY <1>4 DEF SameRest, SameState, Good, Consistent, HintsDone
<1>6. Pointers(u) \subseteq Names(s.list) \union {NoPanel}
  BY <1>3, <1>4 DEF Pointers, SameState, Good, Consistent
<1>7. Good(u, A)
  BY <1>3, <1>4, <1>5, <1>6, ConsistentOn DEF Good, Consistent
<1>8. SameState(s, s)
  BY DEF SameState
<1> QED
  BY <1>2, <1>3, <1>4, <1>7, <1>8

(* A tab carried off leaves the tree and is in the hand.                    *)
Detaches(s, u, in, A) ==
  \/ Docked(u.tree) = Docked(s.tree) /\ u.hand.drag = s.hand.drag
  \/ /\ s.hand.tab # NoPanel /\ ~in.released /\ u.hand.drag = s.hand.tab
     /\ LessOne(Docked(s.tree), s.hand.tab, A, Docked(u.tree))
LEMMA DetachSteps ==
  ASSUME NEW A, NEW s, Good(s, A), NEW in
  PROVE  LET u == Detach(s, in)
         IN /\ Good(u, A) /\ SameState(s, u) /\ Detaches(s, u, in, A) /\ u.hand.tile = s.hand.tile
            /\ u.hand.corner = s.hand.corner /\ BlankPanes(u.tree) \subseteq BlankPanes(s.tree)
<1> DEFINE c == s.hand.tab
           t == Undock(s.tree, c)
           a == SetTree(s, t)
           b == Unanchor(a, c)
           d == StructuralChange(b)
           h == [d.hand EXCEPT !.tab = NoPanel, !.drag = c]
           u == SetHand(d, h)
           k == [s.hand EXCEPT !.tab = NoPanel]
           v == SetHand(s, k)
<1>1. s \in Spaces /\ s.hand \in Hands /\ c \in Somebody /\ Sound(s.tree, Ids, A) /\ Consistent(s, A)
  BY SpaceFields, HandFields DEF Good, Consistent
<1>2. Leads(s.tree, t, Ids, A, Docked(t)) /\ LessOne(Docked(s.tree), c, A, Docked(t))
  BY <1>1, UndockLeads
<1>3. /\ Sound(t, Ids, A) /\ Readable(t, Ids) /\ Docked(t) \subseteq Docked(s.tree)
      /\ BlankPanes(t) \subseteq BlankPanes(s.tree)
  BY <1>2, SoundIsReadable DEF Leads, LessOne
<1>0. Detach(s, in) = IF c = NoPanel THEN s ELSE IF in.released THEN v ELSE IF ~in.far THEN s ELSE u
  <2>1. v = [s EXCEPT !.hand.tab = NoPanel]
    BY <1>1 DEF SetHand, Spaces
  <2>2. d \in Spaces
    BY <1>1, <1>3, SetTreeIs, UnanchorIs, StructuralIs
  <2>3. d = StructuralChange(Unanchor([s EXCEPT !.tree = Undock(@, c)], c))
    BY DEF SetTree
  <2> HIDE DEF d
  <2>4. u = [d EXCEPT !.hand.tab = NoPanel, !.hand.drag = c]
    BY <2>2 DEF SetHand, Spaces
  <2> QED
    BY <2>1, <2>3, <2>4 DEF Detach
<1>4. /\ a \in Spaces /\ SameState(s, a) /\ a.tree = t /\ a.hand = s.hand
  BY <1>1, <1>3, SetTreeIs
<1> HIDE DEF t, a
<1>5. b \in Spaces /\ SameState(a, b) /\ b.tree = t /\ b.hand = s.hand
  BY <1>4, UnanchorIs
<1> HIDE DEF b
<1>6. /\ d \in Spaces /\ SameHolding(b, d) /\ SameRest(b, d) /\ d.tree = t /\ d.seeded = b.seeded
      /\ d.doomed = b.doomed /\ d.hand.split = Null
  BY <1>5, StructuralIs
<1> HIDE DEF d
<1>7. d.hand \in Hands
  BY <1>6, SpaceFields
<1>8. /\ h \in Hands /\ h.tab = NoPanel /\ h.drag = c /\ h.split = Null
      /\ h.float = s.hand.float /\ h.tile = s.hand.tile /\ h.corner = s.hand.corner
  <2>1. h \in Hands /\ h.tab = NoPanel /\ h.drag = c /\ h.split = d.hand.split
        /\ h.float = d.hand.float /\ h.tile = d.hand.tile /\ h.corner = d.hand.corner
    BY <1>1, <1>7 DEF Hands, Somebody
  <2> QED
    BY <1>5, <1>6, <2>1 DEF SameHolding
<1> HIDE DEF h
<1>9. u \in Spaces /\ SameState(d, u) /\ u.hand = h /\ u.tree = t
  BY <1>6, <1>8, SetHandIs
<1> HIDE DEF u
<1>10. SameState(s, u)
  BY <1>4, <1>5, <1>6, <1>9 DEF SameState, SameRest
<1>11. CASE c # NoPanel /\ ~in.released /\ in.far
  <2>1. SameRest(s, u) /\ HintsDone(u, A)
    BY <1>1, <1>3, <1>9, <1>10 DEF SameRest, SameState, Consistent, HintsDone
  <2>2. Pointers(u) \subseteq Names(s.list) \union {NoPanel}
    BY <1>1, <1>8, <1>9, <1>10 DEF Pointers, SameState, Consistent
  <2>3. Sound(u.tree, Ids, A) /\ Docked(u.tree) \subseteq Names(s.list) \union A
    BY <1>1, <1>3, <1>9 DEF Consistent
  <2>4. Good(u, A)
    BY <1>8, <1>9, <2>1, <2>2, <2>3, ConsistentOn
  <2>5. Detaches(s, u, in, A)
    BY <1>2, <1>8, <1>9, <1>11 DEF Detaches
  <2> QED
    BY <1>0, <1>3, <1>8, <1>9, <1>10, <1>11, <2>4, <2>5
<1>12. CASE c # NoPanel /\ in.released
  <2>1. k \in Hands /\ k.tab = NoPanel /\ k.drag = s.hand.drag /\ k.split = s.hand.split
        /\ k.float = s.hand.float /\ k.tile = s.hand.tile /\ k.corner = s.hand.corner
    BY <1>1 DEF Hands, Somebody
  <2> HIDE DEF k
  <2>2. v \in Spaces /\ SameState(s, v) /\ v.hand = k /\ v.tree = s.tree
    BY <1>1, <2>1, SetHandIs
  <2> HIDE DEF v
  <2>3. SameRest(s, v) /\ HintsDone(v, A)
    BY <1>1, <2>2 DEF SameRest, SameState, Consistent, HintsDone
  <2>4. Pointers(v) \subseteq Names(s.list) \union {NoPanel}
    BY <1>1, <2>1, <2>2 DEF Pointers, SameState, Consistent
  <2>5. Good(v, A)
    BY <1>1, <2>1, <2>2, <2>3, <2>4, ConsistentOn DEF Consistent
  <2>6. Detaches(s, v, in, A)
    BY <2>1, <2>2 DEF Detaches
  <2> QED
    BY <1>0, <1>12, <2>1, <2>2, <2>5, <2>6
<1>13. CASE c = NoPanel \/ (~in.released /\ ~in.far)
  <2>1. SameState(s, s) /\ Detaches(s, s, in, A)
    BY DEF SameState, Detaches
  <2> QED
    BY <1>0, <1>13, <2>1
<1> QED
  BY <1>11, <1>12, <1>13

(* What is let go of goes into the tree; its hint has been acted on.        *)
LEMMA DroppedInto ==
  ASSUME NEW A, NEW s, Good(s, A), AllSeeded(s), s.hand.drag # NoPanel, NEW t,
         Leads(s.tree, t, Ids, A, Docked(s.tree) \union {s.hand.drag})
  PROVE  LET u == StructuralChange(SetTree(SetHand(s, [s.hand EXCEPT !.drag = NoPanel]), t))
         IN /\ Good(u, A) /\ SameState(s, u) /\ Docked(u.tree) = Docked(s.tree) \union {s.hand.drag}
            /\ u.hand.tile = s.hand.tile /\ u.hand.corner = s.hand.corner
            /\ BlankPanes(u.tree) \subseteq BlankPanes(s.tree)
<1> DEFINE k == [s.hand EXCEPT !.drag = NoPanel]
           a == SetHand(s, k)
           b == SetTree(a, t)
           u == StructuralChange(b)
<1>1. s \in Spaces /\ s.hand \in Hands /\ Consistent(s, A)
  BY SpaceFields DEF Good
<1>2. /\ k \in Hands /\ k.tab = s.hand.tab /\ k.drag = NoPanel
      /\ k.float = s.hand.float /\ k.tile = s.hand.tile /\ k.corner = s.hand.corner
  BY <1>1 DEF Hands, Somebody
<1> HIDE DEF k
<1>3. a \in Spaces /\ SameState(s, a) /\ a.hand = k /\ a.tree = s.tree
  BY <1>1, <1>2, SetHandIs
<1> HIDE DEF a
<1>4. /\ Sound(t, Ids, A) /\ Readable(t, Ids) /\ Docked(t) = Docked(s.tree) \union {s.hand.drag}
      /\ BlankPanes(t) \subseteq BlankPanes(s.tree)
  BY SoundIsReadable DEF Leads
<1>5. b \in Spaces /\ SameState(a, b) /\ b.hand = k /\ b.tree = t
  BY <1>3, <1>4, SetTreeIs
<1> HIDE DEF b
<1>6. /\ u \in Spaces /\ SameHolding(b, u) /\ SameRest(b, u) /\ u.tree = t /\ u.seeded = b.seeded
      /\ u.doomed = b.doomed /\ u.hand.split = Null
  BY <1>5, StructuralIs
<1> HIDE DEF u
<1>7. SameState(s, u)
  BY <1>3, <1>5, <1>6 DEF SameState, SameRest
<1>8. s.hand.drag \in Names(s.list)
  BY <1>1 DEF Consistent, Pointers
<1>9. HintsDone(u, A)
  BY <1>1, <1>4, <1>6, <1>7, <1>8 DEF HintsDone, Consistent, SameState, AllSeeded
<1>10. Pointers(u) \subseteq Names(s.list) \union {NoPanel}
  BY <1>1, <1>2, <1>5, <1>6, <1>7 DEF Pointers, SameHolding, SameState, Consistent
<1>11. Sound(u.tree, Ids, A) /\ Docked(u.tree) \subseteq Names(s.list) \union A
  BY <1>1, <1>4, <1>6, <1>8 DEF Consistent
<1>12. u.hand.tab # NoPanel => u.hand.tab \in Docked(u.tree)
  BY <1>1, <1>2, <1>4, <1>5, <1>6 DEF Consistent, SameHolding
<1>13. SameRest(s, u)
  BY <1>7 DEF SameRest, SameState
<1>14. Good(u, A)
  BY <1>6, <1>9, <1>10, <1>11, <1>12, <1>13, ConsistentOn
<1>15. u.hand.tile = s.hand.tile /\ u.hand.corner = s.hand.corner
  BY <1>2, <1>5, <1>6 DEF SameHolding
<1> QED
  BY <1>4, <1>6, <1>7, <1>14, <1>15 DEF u, b, a, k

LetsGo(s, u, in) ==
  \/ Docked(u.tree) = Docked(s.tree) /\ (~in.released => u.hand.drag = s.hand.drag)
  \/ in.released /\ s.hand.drag # NoPanel /\ Docked(u.tree) = Docked(s.tree) \union {s.hand.drag}
LEMMA DropSteps ==
  ASSUME NEW A, NEW s, Good(s, A), AllSeeded(s), NEW in
  PROVE  LET u == Drop(s, in)
         IN /\ Good(u, A) /\ SameState(s, u) /\ LetsGo(s, u, in) /\ u.hand.tile = s.hand.tile
            /\ u.hand.corner = s.hand.corner /\ BlankPanes(u.tree) \subseteq BlankPanes(s.tree)
<1> DEFINE c == s.hand.drag
           t == s.tree
           k == [s.hand EXCEPT !.drag = NoPanel]
           v == SetHand(s, k)
           pane == IF in.drop.pane \in Live(t) /\ IsLeaf(t, in.drop.pane) /\ t.node[in.drop.pane].tabs # <<>>
                   THEN in.drop.pane ELSE Null
           a == SplitRoot(t, in.drop.edge, c)
           b == DropOnto(t, pane, in.drop.zone, c)
           ua == StructuralChange(SetTree(v, a))
           ub == StructuralChange(SetTree(v, b))
<1>1. s \in Spaces /\ s.hand \in Hands /\ c \in Somebody /\ Sound(t, Ids, A) /\ Consistent(s, A)
  BY SpaceFields, HandFields DEF Good, Consistent
<1>2. Drop(s, in) = IF c = NoPanel \/ ~in.released THEN s
                    ELSE IF in.drop.edge # "none" THEN ua
                    ELSE IF pane # Null THEN ub ELSE v
  <2>1. v = [s EXCEPT !.hand.drag = NoPanel] /\ v.tree = t
    BY <1>1 DEF SetHand, Spaces
  <2> HIDE DEF v
  <2> QED
    BY <2>1 DEF Drop, SetTree
<1>3. SameState(s, s) /\ (c = NoPanel \/ ~in.released => LetsGo(s, s, in))
  BY DEF SameState, LetsGo
<1>4. CASE c = NoPanel \/ ~in.released
  <2>1. Drop(s, in) = s
    BY <1>2, <1>4
  <2> HIDE DEF c, t, k, v, pane, a, b, ua, ub
  <2> QED
    BY <1>3, <1>4, <2>1
<1>5. CASE c # NoPanel /\ in.released
  <2>0. c \in Ids
    BY <1>1, <1>5, NobodyIsNoPanel DEF Somebody
  <2>1. CASE in.drop.edge # "none"
    <3>1. Leads(t, a, Ids, A, Docked(t) \union {c})
      BY <1>1, <2>0, SplitRootLeads
    <3> HIDE DEF a
    <3>2. Good(ua, A) /\ SameState(s, ua) /\ Docked(ua.tree) = Docked(t) \union {c}
          /\ ua.hand.tile = s.hand.tile /\ ua.hand.corner = s.hand.corner
          /\ BlankPanes(ua.tree) \subseteq BlankPanes(t)
      BY <1>5, <3>1, DroppedInto
    <3> HIDE DEF ua
    <3> QED
      BY <1>2, <1>5, <2>1, <3>2 DEF LetsGo
  <2>2. CASE in.drop.edge = "none" /\ pane # Null
    <3>0. pane \in Live(t) /\ IsLeaf(t, pane)
      BY <2>2
    <3> HIDE DEF pane
    <3>1. Leads(t, b, Ids, A, Docked(t) \union {c})
      BY <1>1, <2>0, <3>0, DropOntoLeads
    <3> HIDE DEF b
    <3>2. Good(ub, A) /\ SameState(s, ub) /\ Docked(ub.tree) = Docked(t) \union {c}
          /\ ub.hand.tile = s.hand.tile /\ ub.hand.corner = s.hand.corner
          /\ BlankPanes(ub.tree) \subseteq BlankPanes(t)
      BY <1>5, <3>1, DroppedInto
    <3> HIDE DEF ub
    <3> QED
      BY <1>2, <1>5, <2>2, <3>2 DEF LetsGo
  <2>3. CASE in.drop.edge = "none" /\ pane = Null
    <3>1. k \in Hands /\ k.tab = s.hand.tab /\ k.drag = NoPanel /\ k.split = s.hand.split
          /\ k.float = s.hand.float /\ k.tile = s.hand.tile /\ k.corner = s.hand.corner
      BY <1>1 DEF Hands, Somebody
    <3> HIDE DEF k
    <3>2. v \in Spaces /\ SameState(s, v) /\ v.hand = k /\ v.tree = s.tree
      BY <1>1, <3>1, SetHandIs
    <3> HIDE DEF v
    <3>3. SameRest(s, v) /\ HintsDone(v, A)
      BY <1>1, <3>2 DEF SameRest, SameState, Consistent, HintsDone
    <3>4. Pointers(v) \subseteq Names(s.list) \union {NoPanel}
      BY <1>1, <3>1, <3>2 DEF Pointers, SameState, Consistent
    <3>5. Good(v, A)
      BY <1>1, <3>1, <3>2, <3>3, <3>4, ConsistentOn DEF Consistent
    <3>6. LetsGo(s, v, in)
      BY <1>5, <3>2 DEF LetsGo
    <3> QED
      BY <1>2, <1>5, <2>3, <3>1, <3>2, <3>5, <3>6
  <2> QED
    BY <2>1, <2>2, <2>3
<1> QED
  BY <1>4, <1>5

-----------------------------------------------------------------------------
(* A press takes hold of one thing at most, and of nothing while the hand   *)
(* holds something.                                                         *)
Presses(s, u, in, A) ==
  /\ Good(u, A) /\ SameRest(s, u) /\ u.seeded = s.seeded /\ Docked(u.tree) = Docked(s.tree)
  /\ BlankPanes(u.tree) \subseteq BlankPanes(s.tree)
  /\ s.busy => u.busy /\ u.hand = s.hand
  /\ u.doomed = s.doomed \/ in.pressed

LEMMA PressesSelf ==
  ASSUME NEW A, NEW s, Good(s, A), NEW in
  PROVE  Presses(s, s, in, A)
BY DEF Presses, SameRest

LEMMA PressesOn ==
  ASSUME NEW A, NEW s, NEW u, NEW v, NEW in, Presses(s, u, in, A), Presses(u, v, in, A)
  PROVE  Presses(s, v, in, A)
<1>1. SameRest(s, v) /\ v.seeded = s.seeded /\ Docked(v.tree) = Docked(s.tree)
      /\ BlankPanes(v.tree) \subseteq BlankPanes(s.tree)
  BY DEF Presses, SameRest
<1>2. (s.busy => v.busy /\ v.hand = s.hand) /\ (v.doomed = s.doomed \/ in.pressed)
  BY DEF Presses
<1> QED
  BY <1>1, <1>2 DEF Presses

(* One pointer of the hand, or the panel to close, set to a panel of the    *)
(* list.                                                                    *)
LEMMA Grasped ==
  ASSUME NEW A, NEW s, Good(s, A), ~s.busy, NEW in, in.pressed, NEW u \in Spaces, SameRest(s, u),
         u.seeded = s.seeded, Sound(u.tree, Ids, A), Docked(u.tree) = Docked(s.tree), Splits(u.tree) = Splits(s.tree),
         BlankPanes(u.tree) \subseteq BlankPanes(s.tree),
         Pointers(u) \subseteq Pointers(s) \union Names(s.list),
         u.hand.tab = s.hand.tab \/ u.hand.tab \in Docked(s.tree),
         u.hand.split = s.hand.split \/ u.hand.split \in Splits(s.tree)
  PROVE  Presses(s, u, in, A)
<1>1. Consistent(s, A)
  BY DEF Good
<1>2. Docked(u.tree) \subseteq Names(s.list) \union A /\ Pointers(u) \subseteq Names(s.list) \union {NoPanel}
  BY <1>1 DEF Consistent
<1>3. HintsDone(u, A)
  BY <1>1 DEF Consistent, HintsDone
<1>4. /\ u.hand.split # Null => u.hand.split \in Splits(u.tree)
      /\ u.hand.tab # NoPanel => u.hand.tab \in Docked(u.tree)
  BY <1>1 DEF Consistent
<1>5. Good(u, A)
  BY <1>2, <1>3, <1>4, ConsistentOn
<1> QED
  BY <1>5 DEF Presses

LEMMA PressFloatPresses ==
  ASSUME NEW A, NEW s, Good(s, A), NEW in
  PROVE  Presses(s, PressFloat(s, in), in, A)
<1> DEFINE c == in.float.panel
           a == [s EXCEPT !.hand = [s.hand EXCEPT !.float = c], !.busy = TRUE]
           b == [s EXCEPT !.doomed = c, !.busy = TRUE]
           d == [s EXCEPT !.hand = [s.hand EXCEPT !.drag = c], !.busy = TRUE]
           Off == s.busy \/ ~in.pressed \/ c \notin Names(s.list) \/ LeafFor(s.tree, c) # Null
<1>1. s \in Spaces /\ s.hand \in Hands /\ s.list \in Seq(Panels) /\ Sound(s.tree, Ids, A)
  BY SpaceFields DEF Good, Consistent
<1>2. PressFloat(s, in) \in {s, a, b, d} /\ (Off => PressFloat(s, in) = s)
  BY <1>1 DEF PressFloat, Spaces
<1>3. CASE Off
  BY <1>2, <1>3, PressesSelf
<1>4. CASE ~Off
  <2>1. c \in Names(s.list) /\ c \in Panels /\ c \in Somebody /\ ~s.busy /\ in.pressed
    BY <1>1, <1>4, NamesAre DEF Somebody
  <2> HIDE DEF c
  <2>2. Presses(s, a, in, A)
    <3>1. a \in Spaces /\ SameRest(s, a) /\ a.seeded = s.seeded /\ a.tree = s.tree /\ a.doomed = s.doomed
          /\ a.hand = [s.hand EXCEPT !.float = c]
      BY <1>1, <2>1 DEF Spaces, Hands, SameRest
    <3> HIDE DEF a
    <3>2. a.hand.tab = s.hand.tab /\ a.hand.drag = s.hand.drag /\ a.hand.float = c /\ a.hand.tile = s.hand.tile
          /\ a.hand.corner = s.hand.corner /\ a.hand.split = s.hand.split
      BY <1>1, <3>1 DEF Hands
    <3>3. Pointers(a) \subseteq Pointers(s) \union Names(s.list)
      BY <2>1, <3>1, <3>2 DEF Pointers
    <3> QED
      BY <1>1, <2>1, <3>1, <3>2, <3>3, Grasped
  <2>3. Presses(s, d, in, A)
    <3>1. d \in Spaces /\ SameRest(s, d) /\ d.seeded = s.seeded /\ d.tree = s.tree /\ d.doomed = s.doomed
          /\ d.hand = [s.hand EXCEPT !.drag = c]
      BY <1>1, <2>1 DEF Spaces, Hands, SameRest
    <3> HIDE DEF d
    <3>2. d.hand.tab = s.hand.tab /\ d.hand.drag = c /\ d.hand.float = s.hand.float /\ d.hand.tile = s.hand.tile
          /\ d.hand.corner = s.hand.corner /\ d.hand.split = s.hand.split
      BY <1>1, <3>1 DEF Hands
    <3>3. Pointers(d) \subseteq Pointers(s) \union Names(s.list)
      BY <2>1, <3>1, <3>2 DEF Pointers
    <3> QED
      BY <1>1, <2>1, <3>1, <3>2, <3>3, Grasped
  <2>4. Presses(s, b, in, A)
    <3>1. b \in Spaces /\ SameRest(s, b) /\ b.seeded = s.seeded /\ b.tree = s.tree /\ b.doomed = c
          /\ b.hand = s.hand
      BY <1>1, <2>1 DEF Spaces, SameRest
    <3> HIDE DEF b
    <3>2. Pointers(b) \subseteq Pointers(s) \union Names(s.list)
      BY <2>1, <3>1 DEF Pointers
    <3> QED
      BY <1>1, <2>1, <3>1, <3>2, Grasped
  <2>5. Presses(s, s, in, A)
    BY PressesSelf
  <2> HIDE DEF a, b, d
  <2> QED
    BY <1>2, <2>2, <2>3, <2>4, <2>5
<1> QED
  BY <1>3, <1>4

LEMMA PressTabPresses ==
  ASSUME NEW A, NEW s, Good(s, A), NEW in, ~s.busy, in.pressed, NEW n \in Panes(s.tree),
         NEW i \in 1 .. Len(s.tree.node[n].tabs)
  PROVE  Presses(s, PressTab(s, n, i), in, A)
<1> DEFINE c == s.tree.node[n].tabs[i]
           t == ShowTab(s.tree, n, i - 1)
           a == [s EXCEPT !.tree = t, !.hand = [s.hand EXCEPT !.tab = c], !.busy = TRUE]
<1>1. s \in Spaces /\ s.hand \in Hands /\ s.list \in Seq(Panels) /\ Sound(s.tree, Ids, A)
  BY SpaceFields DEF Good, Consistent
<1>2. n \in Live(s.tree) /\ s.tree.node[n].tabs \in Seq(Ids)
  BY <1>1, NodeTyped DEF Panes, Sound
<1>3. c \in Docked(s.tree)
  BY <1>2, ToSetOf DEF Docked
<1>4. Leads(s.tree, t, Ids, A, Docked(s.tree)) /\ Splits(t) = Splits(s.tree)
  <2>1. i - 1 \in 0 .. Len(s.tree.node[n].tabs) - 1
    BY <1>2
  <2> QED
    BY <1>1, <2>1, ShowTabLeads
<1>5. PressTab(s, n, i) = IF c \notin Names(s.list) THEN s ELSE a
  <2>1. [s EXCEPT !.tree.node[n].active = i - 1, !.hand.tab = c, !.busy = TRUE] = a
    BY <1>1 DEF Spaces, ShowTab, With
  <2> HIDE DEF a
  <2> QED
    BY <2>1 DEF PressTab
<1> HIDE DEF t
<1>6. t \in Trees /\ Sound(t, Ids, A) /\ Docked(t) = Docked(s.tree) /\ BlankPanes(t) \subseteq BlankPanes(s.tree)
  BY <1>4, SoundIsReadable DEF Leads
<1> HIDE DEF c
<1>7. CASE c \notin Names(s.list)
  BY <1>5, <1>7, PressesSelf
<1>8. CASE c \in Names(s.list)
  <2>1. c \in Panels /\ c \in Somebody
    BY <1>1, <1>8, NamesAre DEF Somebody
  <2>2. a \in Spaces /\ SameRest(s, a) /\ a.seeded = s.seeded /\ a.tree = t /\ a.doomed = s.doomed
        /\ a.hand = [s.hand EXCEPT !.tab = c]
    BY <1>1, <1>6, <2>1 DEF Spaces, Hands, SameRest
  <2> HIDE DEF a
  <2>3. a.hand.tab = c /\ a.hand.drag = s.hand.drag /\ a.hand.float = s.hand.float /\ a.hand.tile = s.hand.tile
        /\ a.hand.corner = s.hand.corner /\ a.hand.split = s.hand.split
    BY <1>1, <2>2 DEF Hands
  <2>4. Pointers(a) \subseteq Pointers(s) \union Names(s.list)
    BY <1>8, <2>2, <2>3 DEF Pointers
  <2>5. Presses(s, a, in, A)
    BY <1>3, <1>4, <1>6, <2>2, <2>3, <2>4, Grasped
  <2> QED
    BY <1>5, <1>8, <2>5
<1> QED
  BY <1>7, <1>8

LEMMA PressPanePresses ==
  ASSUME NEW A, NEW s, Good(s, A), NEW in
  PROVE  Presses(s, PressPane(s, in), in, A)
<1> DEFINE n == in.pane.at
           i == in.pane.tab
           c == ActiveTab(s.tree.node[n])
           b == [s EXCEPT !.doomed = c, !.busy = TRUE]
           Off == s.busy \/ ~in.pressed \/ ~IsLeaf(s.tree, n)
<1>1. s \in Spaces /\ s.hand \in Hands /\ s.list \in Seq(Panels) /\ Sound(s.tree, Ids, A)
  BY SpaceFields DEF Good, Consistent
<1>2. CASE Off
  <2>1. PressPane(s, in) = s
    BY <1>2 DEF PressPane
  <2> QED
    BY <2>1, PressesSelf
<1>3. CASE ~Off
  <2>1. ~s.busy /\ in.pressed /\ n \in Panes(s.tree)
    BY <1>3 DEF IsLeaf, Panes, Splits
  <2>2. CASE i \in 1 .. Len(s.tree.node[n].tabs)
    <3>1. PressPane(s, in) = PressTab(s, n, i)
      BY <1>3, <2>2 DEF PressPane
    <3> HIDE DEF n, i
    <3> QED
      BY <2>1, <2>2, <3>1, PressTabPresses
  <2>3. CASE i \notin 1 .. Len(s.tree.node[n].tabs)
    <3>1. PressPane(s, in) \in {s, b} /\ (c \notin Names(s.list) => PressPane(s, in) = s)
      BY <1>3, <2>3 DEF PressPane, PressClose
    <3> HIDE DEF c
    <3>2. CASE c \notin Names(s.list)
      BY <3>1, <3>2, PressesSelf
    <3>3. CASE c \in Names(s.list)
      <4>1. c \in Somebody
        BY <1>1, <3>3, NamesAre DEF Somebody
      <4>2. b \in Spaces /\ SameRest(s, b) /\ b.seeded = s.seeded /\ b.tree = s.tree /\ b.doomed = c
            /\ b.hand = s.hand
        BY <1>1, <4>1 DEF Spaces, SameRest
      <4> HIDE DEF b
      <4>3. Pointers(b) \subseteq Pointers(s) \union Names(s.list)
        BY <3>3, <4>2 DEF Pointers
      <4>4. Presses(s, b, in, A)
        BY <1>1, <2>1, <4>2, <4>3, Grasped
      <4> QED
        BY <3>1, <4>4, PressesSelf
    <3> QED
      BY <3>2, <3>3
  <2> QED
    BY <2>2, <2>3
<1> QED
  BY <1>2, <1>3

LEMMA PressSplitterPresses ==
  ASSUME NEW A, NEW s, Good(s, A), NEW in
  PROVE  Presses(s, PressSplitter(s, in), in, A)
<1> DEFINE n == in.split
           a == [s EXCEPT !.hand = [s.hand EXCEPT !.split = n], !.busy = TRUE]
           Off == s.busy \/ ~in.pressed \/ ~IsSplit(s.tree, n)
<1>1. s \in Spaces /\ s.hand \in Hands /\ Sound(s.tree, Ids, A)
  BY SpaceFields DEF Good, Consistent
<1>2. PressSplitter(s, in) = IF Off THEN s ELSE a
  <2>1. [s EXCEPT !.hand.split = n, !.busy = TRUE] = a
    BY <1>1 DEF Spaces
  <2> HIDE DEF a
  <2> QED
    BY <2>1 DEF PressSplitter
<1>3. CASE Off
  BY <1>2, <1>3, PressesSelf
<1>4. CASE ~Off
  <2>1. ~s.busy /\ in.pressed /\ n \in Splits(s.tree) /\ n \in Nat
    <3>1. n \in Live(s.tree) /\ Live(s.tree) \subseteq Nat \ {0}
      BY <1>1, <1>4 DEF IsSplit, Sound, Shaped, Typed
    <3> QED
      BY <1>4, <3>1 DEF IsSplit, Splits
  <2> HIDE DEF n
  <2>2. a \in Spaces /\ SameRest(s, a) /\ a.seeded = s.seeded /\ a.tree = s.tree /\ a.doomed = s.doomed
        /\ a.hand = [s.hand EXCEPT !.split = n]
    BY <1>1, <2>1 DEF Spaces, Hands, SameRest
  <2> HIDE DEF a
  <2>3. a.hand.tab = s.hand.tab /\ a.hand.drag = s.hand.drag /\ a.hand.float = s.hand.float
        /\ a.hand.tile = s.hand.tile /\ a.hand.corner = s.hand.corner /\ a.hand.split = n
    BY <1>1, <2>2 DEF Hands
  <2>4. Pointers(a) \subseteq Pointers(s) \union Names(s.list)
    BY <2>2, <2>3 DEF Pointers
  <2>5. Presses(s, a, in, A)
    BY <1>1, <2>1, <2>2, <2>3, <2>4, Grasped
  <2> QED
    BY <1>2, <1>4, <2>5
<1> QED
  BY <1>3, <1>4

(* The whole of a press, in panes and in tiles.                             *)
Pressed(s, u, in, A) ==
  /\ Good(u, A) /\ SameRest(s, u) /\ u.seeded = s.seeded /\ Docked(u.tree) = Docked(s.tree)
  /\ BlankPanes(u.tree) \subseteq BlankPanes(s.tree)
  /\ s.hand.drag # NoPanel => u.hand = s.hand
  /\ u.doomed = s.doomed \/ in.pressed
LEMMA SetBusyIs ==
  ASSUME NEW A, NEW s, Good(s, A)
  PROVE  LET u == [s EXCEPT !.busy = Busy(s.hand)]
         IN /\ Good(u, A) /\ u.busy = Busy(s.hand) /\ u.hand = s.hand /\ u.doomed = s.doomed
            /\ SameRest(s, u) /\ u.seeded = s.seeded /\ u.tree = s.tree
<1> DEFINE b == Busy(s.hand)
           u == [s EXCEPT !.busy = b]
<1>1. b \in BOOLEAN
  BY DEF Busy
<1> HIDE DEF b
<1>2. u \in Spaces /\ u.busy = b /\ u.hand = s.hand /\ u.doomed = s.doomed
      /\ SameRest(s, u) /\ u.seeded = s.seeded /\ u.tree = s.tree
  BY <1>1 DEF Good, Spaces, SameRest
<1> HIDE DEF u
<1>3. Good(u, A)
  BY <1>2, ConsistentOn DEF Good, Consistent, HintsDone, Pointers
<1> QED
  BY <1>2, <1>3 DEF u, b

LEMMA PressedWhenPresses ==
  ASSUME NEW A, NEW s, Good(s, A), NEW v, NEW in, Presses([s EXCEPT !.busy = Busy(s.hand)], v, in, A)
  PROVE  Pressed(s, v, in, A)
<1> DEFINE u == [s EXCEPT !.busy = Busy(s.hand)]
<1>1. /\ Good(u, A) /\ u.busy = Busy(s.hand) /\ u.hand = s.hand /\ u.doomed = s.doomed
      /\ SameRest(s, u) /\ u.seeded = s.seeded /\ u.tree = s.tree
  BY SetBusyIs
<1>2. Presses(u, v, in, A)
  OBVIOUS
<1> HIDE DEF u
<1>3. s.hand.drag # NoPanel => u.busy
  BY <1>1 DEF Busy
<1>4. SameRest(s, v)
  BY <1>1, <1>2 DEF Presses, SameRest
<1>5. s.hand.drag # NoPanel => v.hand = s.hand
  BY <1>1, <1>2, <1>3 DEF Presses
<1>6. (v.doomed = s.doomed \/ in.pressed) /\ v.seeded = s.seeded /\ Docked(v.tree) = Docked(s.tree)
      /\ BlankPanes(v.tree) \subseteq BlankPanes(s.tree) /\ Good(v, A)
  BY <1>1, <1>2 DEF Presses
<1> QED
  BY <1>4, <1>5, <1>6 DEF Pressed

LEMMA PressPanesPresses ==
  ASSUME NEW A, NEW s, Good(s, A), NEW in
  PROVE  Pressed(s, PressPanes(s, in), in, A)
<1> DEFINE a == [s EXCEPT !.busy = Busy(s.hand)]
           b == PressFloat(a, in)
           c == PressPane(b, in)
           d == PressSplitter(c, in)
<1>1. Good(a, A)
  BY SetBusyIs
<1>2. PressPanes(s, in) = d
  BY DEF PressPanes
<1>3. (Presses(a, d, in, A) => Pressed(s, d, in, A))
  BY PressedWhenPresses
<1> HIDE DEF a
<1>4. Presses(a, b, in, A)
  BY <1>1, PressFloatPresses
<1> HIDE DEF b
<1>5. Presses(b, c, in, A)
  BY <1>4, PressPanePresses DEF Presses
<1> HIDE DEF c
<1>6. Presses(c, d, in, A)
  BY <1>5, PressSplitterPresses DEF Presses
<1> HIDE DEF d
<1>7. Presses(a, d, in, A)
  BY <1>4, <1>5, <1>6, PressesOn
<1> QED
  BY <1>2, <1>3, <1>7

LEMMA PressTilesPresses ==
  ASSUME NEW A, NEW s, Good(s, A), NEW in
  PROVE  Pressed(s, PressTiles(s, in), in, A)
<1> DEFINE s0 == [s EXCEPT !.busy = Busy(s.hand)]
<1>1. Good(s0, A)
  BY SetBusyIs
<1>2. PressTiles(s, in) = PressTile(s0, in)
  BY DEF PressTiles
<1>3. Presses(s0, PressTile(s0, in), in, A) => Pressed(s, PressTile(s0, in), in, A)
  BY PressedWhenPresses
<1> HIDE DEF s0
<1> DEFINE c == in.float.panel
           a == [s0 EXCEPT !.hand = [s0.hand EXCEPT !.corner = c], !.busy = TRUE]
           b == [s0 EXCEPT !.doomed = c, !.busy = TRUE]
           d == [s0 EXCEPT !.hand = [s0.hand EXCEPT !.tile = c], !.busy = TRUE]
           Off == s0.busy \/ ~in.pressed \/ c \notin Names(s0.list) \/ Grid!Find(s0.grid, c) = 0
<1>4. s0 \in Spaces /\ s0.hand \in Hands /\ s0.list \in Seq(Panels) /\ Sound(s0.tree, Ids, A)
  BY <1>1, SpaceFields DEF Good, Consistent
<1>5. PressTile(s0, in) \in {s0, a, b, d} /\ (Off => PressTile(s0, in) = s0)
  <2> DEFINE f == Grid!Find(s0.grid, c) = 0
  <2>1. PressTile(s0, in) =
          IF s0.busy \/ ~in.pressed \/ c \notin Names(s0.list) \/ f THEN s0
          ELSE IF in.float.part = "grip" THEN [s0 EXCEPT !.hand.corner = c, !.busy = TRUE]
          ELSE IF in.float.part = "close" /\ CanClose(c) THEN b
          ELSE IF in.float.part = "title" THEN [s0 EXCEPT !.hand.tile = c, !.busy = TRUE] ELSE s0
    BY DEF PressTile
  <2> HIDE DEF f
  <2>2. [s0 EXCEPT !.hand.corner = c, !.busy = TRUE] = a /\ [s0 EXCEPT !.hand.tile = c, !.busy = TRUE] = d
    BY <1>4 DEF Spaces
  <2> HIDE DEF a, b, d
  <2> QED
    BY <2>1, <2>2 DEF f
<1>6. CASE Off
  BY <1>1, <1>2, <1>3, <1>5, <1>6, PressesSelf
<1>7. CASE ~Off
  <2>1. c \in Names(s0.list) /\ c \in Panels /\ c \in Somebody /\ ~s0.busy /\ in.pressed
    BY <1>4, <1>7, NamesAre DEF Somebody
  <2> HIDE DEF c
  <2>2. Presses(s0, a, in, A)
    <3>1. a \in Spaces /\ SameRest(s0, a) /\ a.seeded = s0.seeded /\ a.tree = s0.tree /\ a.doomed = s0.doomed
          /\ a.hand = [s0.hand EXCEPT !.corner = c]
      BY <1>4, <2>1 DEF Spaces, Hands, SameRest
    <3> HIDE DEF a
    <3>2. a.hand.tab = s0.hand.tab /\ a.hand.drag = s0.hand.drag /\ a.hand.float = s0.hand.float
          /\ a.hand.tile = s0.hand.tile /\ a.hand.corner = c /\ a.hand.split = s0.hand.split
      BY <1>4, <3>1 DEF Hands
    <3>3. Pointers(a) \subseteq Pointers(s0) \union Names(s0.list)
      BY <2>1, <3>1, <3>2 DEF Pointers
    <3> QED
      BY <1>1, <1>4, <2>1, <3>1, <3>2, <3>3, Grasped
  <2>3. Presses(s0, d, in, A)
    <3>1. d \in Spaces /\ SameRest(s0, d) /\ d.seeded = s0.seeded /\ d.tree = s0.tree /\ d.doomed = s0.doomed
          /\ d.hand = [s0.hand EXCEPT !.tile = c]
      BY <1>4, <2>1 DEF Spaces, Hands, SameRest
    <3> HIDE DEF d
    <3>2. d.hand.tab = s0.hand.tab /\ d.hand.drag = s0.hand.drag /\ d.hand.float = s0.hand.float
          /\ d.hand.tile = c /\ d.hand.corner = s0.hand.corner /\ d.hand.split = s0.hand.split
      BY <1>4, <3>1 DEF Hands
    <3>3. Pointers(d) \subseteq Pointers(s0) \union Names(s0.list)
      BY <2>1, <3>1, <3>2 DEF Pointers
    <3> QED
      BY <1>1, <1>4, <2>1, <3>1, <3>2, <3>3, Grasped
  <2>4. Presses(s0, b, in, A)
    <3>1. b \in Spaces /\ SameRest(s0, b) /\ b.seeded = s0.seeded /\ b.tree = s0.tree /\ b.doomed = c
          /\ b.hand = s0.hand
      BY <1>4, <2>1 DEF Spaces, SameRest
    <3> HIDE DEF b
    <3>2. Pointers(b) \subseteq Pointers(s0) \union Names(s0.list)
      BY <2>1, <3>1 DEF Pointers
    <3> QED
      BY <1>1, <1>4, <2>1, <3>1, <3>2, Grasped
  <2>5. Presses(s0, s0, in, A)
    BY <1>1, PressesSelf
  <2> HIDE DEF a, b, d
  <2> QED
    BY <1>2, <1>3, <1>5, <2>2, <2>3, <2>4, <2>5
<1> QED
  BY <1>6, <1>7

-----------------------------------------------------------------------------
(* What a widget asks for while it is drawn waits: nothing moves.           *)
Draws(s, u, in, panels, A) ==
  /\ Good(u, A) /\ u.list = s.list /\ u.grid = s.grid /\ u.serial = s.serial /\ u.seeded = s.seeded
  /\ u.tree = s.tree /\ u.hand = s.hand /\ u.drawn = panels
  /\ \/ u.queued = s.queued
     \/ in.calls.what = "spawn" /\ u.queued = s.queued + 1
  /\ u.doomed = s.doomed \/ in.calls.what = "remove"
LEMMA DrawDraws ==
  ASSUME NEW A, NEW s, Good(s, A), NEW in, NEW panels, panels \subseteq Panels
  PROVE  Draws(s, Draw(s, in, panels), in, panels, A)
<1> DEFINE c == in.calls.panel
           a == [s EXCEPT !.drawn = panels]
           b == [s EXCEPT !.drawn = panels, !.queued = s.queued + 1]
           d == [s EXCEPT !.drawn = panels, !.doomed = c]
           Asks == in.calls.what = "spawn" /\ panels # {}
           Ends == in.calls.what = "remove" /\ c \in Names(s.list) /\ panels # {}
<1>1. s \in Spaces /\ s.list \in Seq(Panels) /\ s.queued \in Nat /\ Consistent(s, A)
  BY SpaceFields DEF Good
<1>2. Draw(s, in, panels) = IF Asks THEN b ELSE IF Ends THEN d ELSE a
  <2>1. b = [a EXCEPT !.queued = a.queued + 1] /\ d = [a EXCEPT !.doomed = c] /\ a.list = s.list
    BY <1>1 DEF Spaces
  <2> HIDE DEF a, b, d
  <2> QED
    BY <2>1 DEF Draw, Spawn, a
<1>3. panels \in SUBSET Panels
  OBVIOUS
<1>4. Draws(s, a, in, panels, A)
  <2>1. /\ a \in Spaces /\ a.list = s.list /\ a.grid = s.grid /\ a.serial = s.serial /\ a.seeded = s.seeded
        /\ a.tree = s.tree /\ a.hand = s.hand /\ a.drawn = panels /\ a.queued = s.queued /\ a.doomed = s.doomed
    BY <1>1, <1>3 DEF Spaces
  <2> HIDE DEF a
  <2>2. Consistent(a, A)
    BY <1>1, <2>1 DEF Consistent, HintsDone, Numbered, Pointers
  <2> QED
    BY <2>1, <2>2 DEF Draws, Good
<1>5. CASE Asks
  <2>0. s.queued + 1 \in Nat
    BY <1>1
  <2> DEFINE q == s.queued + 1
  <2> HIDE DEF q
  <2>1. /\ b \in Spaces /\ b.list = s.list /\ b.grid = s.grid /\ b.serial = s.serial /\ b.seeded = s.seeded
        /\ b.tree = s.tree /\ b.hand = s.hand /\ b.drawn = panels /\ b.queued = s.queued + 1
        /\ b.doomed = s.doomed
    <3>1. b = [s EXCEPT !.drawn = panels, !.queued = q] /\ q \in Nat
      BY <2>0 DEF q
    <3> HIDE DEF b
    <3>2. /\ b \in Spaces /\ b.list = s.list /\ b.grid = s.grid /\ b.serial = s.serial /\ b.seeded = s.seeded
          /\ b.tree = s.tree /\ b.hand = s.hand /\ b.drawn = panels /\ b.queued = q
          /\ b.doomed = s.doomed
      BY <1>1, <1>3, <3>1 DEF Spaces
    <3> QED
      BY <3>2 DEF q
  <2> HIDE DEF b
  <2>2. Consistent(b, A)
    BY <1>1, <2>1 DEF Consistent, HintsDone, Numbered, Pointers
  <2> QED
    BY <1>2, <1>5, <2>1, <2>2 DEF Draws, Good
<1>6. CASE ~Asks /\ Ends
  <2>0. c \in Names(s.list) /\ c \in Somebody
    BY <1>1, <1>6, NamesAre DEF Somebody
  <2> HIDE DEF c
  <2>1. /\ d \in Spaces /\ d.list = s.list /\ d.grid = s.grid /\ d.serial = s.serial /\ d.seeded = s.seeded
        /\ d.tree = s.tree /\ d.hand = s.hand /\ d.drawn = panels /\ d.queued = s.queued
        /\ d.doomed = c
    BY <1>1, <1>3, <2>0 DEF Spaces
  <2> HIDE DEF d
  <2>2. Consistent(d, A)
    BY <1>1, <2>0, <2>1 DEF Consistent, HintsDone, Numbered, Pointers
  <2> QED
    BY <1>2, <1>6, <2>1, <2>2 DEF Draws, Good
<1>7. CASE ~Asks /\ ~Ends
  <2>1. Draw(s, in, panels) = a
    BY <1>2, <1>7
  <2> HIDE DEF a
  <2> QED
    BY <1>4, <2>1
<1> QED
  BY <1>5, <1>6, <1>7

LEMMA OnceIsInjective ==
  ASSUME NEW l \in Seq(Panels), Once(l, {})
  PROVE  IsInjective(l)
BY DEF Once, IsInjective

LEMMA WithoutIs ==
  ASSUME NEW l \in Seq(Panels), IsInjective(l), NEW c
  PROVE  Without(l, c) \in Seq(Panels) /\ IsInjective(Without(l, c)) /\ Names(Without(l, c)) = Names(l) \ {c}
<1> DEFINE i == FirstAt(l, {c})
<1>1. /\ i = 0 => ToSet(l) \intersect {c} = {}
      /\ i # 0 => i \in 1 .. Len(l) /\ l[i] \in {c}
  BY FirstPlace
<1>2. Without(l, c) = IF i = 0 THEN l ELSE RemoveAt(l, i)
  BY DEF Without
<1> HIDE DEF i
<1>3. CASE i = 0
  BY <1>1, <1>2, <1>3 DEF Names
<1>4. CASE i # 0
  <2>1. RemoveAt(l, i) \in Seq(Panels) /\ Once(l, {})
    BY <1>1, <1>4, TakeOut, OnceWhenInjective
  <2>2. Once(RemoveAt(l, i), {}) /\ LessOne(ToSet(l), l[i], {}, ToSet(RemoveAt(l, i)))
    BY <1>1, <1>4, <2>1, TakeOutOnce
  <2>3. IsInjective(RemoveAt(l, i))
    BY <2>1, <2>2, OnceIsInjective
  <2> QED
    BY <1>1, <1>2, <1>4, <2>1, <2>2, <2>3 DEF Names, LessOne
<1> QED
  BY <1>3, <1>4

(* A panel that closes leaves everything at once, the hand included.        *)
Removes(s, u, c, A) ==
  /\ Good(u, A) /\ u.queued = s.queued /\ u.serial = s.serial /\ u.drawn = s.drawn
  /\ Names(u.list) = Names(s.list) \ {c} /\ u.seeded = s.seeded \ {c}
  /\ LessOne(Docked(s.tree), c, A, Docked(u.tree))
  /\ BlankPanes(u.tree) \subseteq BlankPanes(s.tree)
  /\ s.hand.drag # c => u.hand.drag = s.hand.drag
  /\ u.grid \in Thinned(s.grid, c)
  /\ u.tree = s.tree \/ (c \in Names(s.list) /\ Undocked(s.tree, u.tree, c, A))
LEMMA RemovalsRemove ==
  ASSUME NEW A, NEW s, Good(s, A)
  PROVE  Removes(s, ApplyPendingRemovals(s), s.doomed, A)
<1> DEFINE c == s.doomed
           let(x) == IF x = c THEN NoPanel ELSE x
           a == [s EXCEPT !.doomed = NoPanel]
           b == StructuralChange(a)
           d == Unanchor(b, c)
           h == LetGoOf(d.hand, c)
           g == Grid!RemoveTile(d.grid, c)
           t == Undock(d.tree, c)
           l == Without(d.list, c)
           u == [d EXCEPT !.hand = h, !.grid = g, !.tree = t, !.seeded = d.seeded \ {c}, !.list = l]
<1>1. /\ s \in Spaces /\ s.hand \in Hands /\ Sound(s.tree, Ids, A) /\ s.list \in Seq(Panels)
      /\ IsInjective(s.list) /\ s.grid \in Grids /\ s.doomed \in Somebody /\ s.seeded \subseteq Panels
      /\ Consistent(s, A) /\ NoPanel \in Somebody
  BY SpaceFields DEF Good, Consistent, Somebody
<1>2. CASE c = NoPanel
  <2>1. ApplyPendingRemovals(s) = s
    BY <1>2 DEF ApplyPendingRemovals
  <2>2. Names(s.list) \subseteq Panels /\ Docked(s.tree) \subseteq Ids /\ c \notin Panels /\ c \notin Ids
    BY <1>1, <1>2, NamesAre, NobodyIsNoPanel, SoundIsSound
  <2>3. s.grid \in Thinned(s.grid, c)
    BY <1>1 DEF Thinned, InColumns, HasTile
  <2> QED
    BY <1>1, <2>1, <2>2, <2>3 DEF Removes, LessOne
<1>3. CASE c # NoPanel
  <2>1. ApplyPendingRemovals(s) = u
    BY <1>3 DEF ApplyPendingRemovals
  <2>2. a \in Spaces /\ SameRest(s, a) /\ a.seeded = s.seeded /\ a.tree = s.tree /\ a.hand = s.hand
        /\ a.doomed = NoPanel /\ a.drawn = s.drawn
    BY <1>1, SetDoomedIs
  <2> HIDE DEF a
  <2>3. b \in Spaces /\ SameHolding(a, b) /\ SameRest(a, b) /\ b.tree = a.tree /\ b.seeded = a.seeded
        /\ b.doomed = a.doomed /\ b.hand.split = Null /\ b.drawn = a.drawn
    BY <2>2, StructuralIs
  <2> HIDE DEF b
  <2>4. d \in Spaces /\ SameState(b, d) /\ d.tree = b.tree /\ d.hand = b.hand /\ d.drawn = b.drawn
    BY <2>3, UnanchorIs
  <2> HIDE DEF d
  <2>5. /\ d.tree = s.tree /\ d.list = s.list /\ d.grid = s.grid /\ d.queued = s.queued /\ d.serial = s.serial
        /\ d.seeded = s.seeded /\ d.doomed = NoPanel /\ d.drawn = s.drawn
    BY <2>2, <2>3, <2>4 DEF SameRest, SameState
  <2>6. /\ d.hand.tab = s.hand.tab /\ d.hand.drag = s.hand.drag /\ d.hand.float = s.hand.float
        /\ d.hand.tile = s.hand.tile /\ d.hand.corner = s.hand.corner /\ d.hand.split = Null
    BY <2>2, <2>3, <2>4 DEF SameHolding
  <2>7. d.hand \in Hands
    BY <2>4, SpaceFields
  <2>8. /\ h.tab = let(s.hand.tab) /\ h.drag = let(s.hand.drag) /\ h.float = let(s.hand.float)
        /\ h.tile = let(s.hand.tile) /\ h.corner = let(s.hand.corner) /\ h.split = Null
        /\ h \in Hands
    <3>1. /\ h.tab = let(d.hand.tab) /\ h.drag = let(d.hand.drag) /\ h.float = let(d.hand.float)
          /\ h.tile = let(d.hand.tile) /\ h.corner = let(d.hand.corner) /\ h.split = d.hand.split
          /\ h \in Hands
      BY <1>1, <2>7 DEF Hands, LetGoOf
    <3> HIDE DEF h
    <3> QED
      BY <2>6, <3>1
  <2> HIDE DEF h
  <2>9. g \in Thinned(s.grid, c) /\ g \in Grids
    BY <1>1, <2>5, RemoveTileThins DEF Thinned
  <2>10. /\ Leads(s.tree, t, Ids, A, Docked(t)) /\ Undocked(s.tree, t, c, A)
         /\ LessOne(Docked(s.tree), c, A, Docked(t))
    BY <1>1, <2>5, UndockLeads
  <2>11. /\ t \in Trees /\ Sound(t, Ids, A) /\ BlankPanes(t) \subseteq BlankPanes(s.tree)
         /\ Docked(s.tree) \ {c} \subseteq Docked(t) /\ Docked(t) \subseteq Docked(s.tree)
         /\ (c \notin A => c \notin Docked(t))
    BY <2>10, SoundIsReadable DEF Leads, LessOne
  <2>12. l \in Lists /\ Names(l) = Names(s.list) \ {c}
    BY <1>1, <2>5, WithoutIs DEF Lists
  <2>13. d.seeded \ {c} \in SUBSET Panels
    BY <1>1, <2>5
  <2> HIDE DEF g, t, l
  <2>14. /\ u \in Spaces /\ u.hand = h /\ u.grid = g /\ u.tree = t /\ u.seeded = s.seeded \ {c} /\ u.list = l
         /\ u.doomed = NoPanel /\ u.queued = s.queued /\ u.serial = s.serial /\ u.drawn = s.drawn
    <3>1. u \in Spaces
      BY <2>4, <2>8, <2>9, <2>11, <2>12, <2>13 DEF Spaces
    <3>2. /\ u.hand = h /\ u.grid = g /\ u.tree = t /\ u.seeded = d.seeded \ {c} /\ u.list = l
          /\ u.doomed = d.doomed /\ u.queued = d.queued /\ u.serial = d.serial /\ u.drawn = d.drawn
      BY <2>4 DEF Spaces
    <3> QED
      BY <2>5, <3>1, <3>2
  <2> HIDE DEF u
  <2>15. Sound(u.tree, Ids, A) /\ Docked(u.tree) \subseteq Names(u.list) \union A
    BY <1>1, <2>11, <2>12, <2>14 DEF Consistent
  <2>16. HintsDone(u, A)
    BY <1>1, <2>11, <2>14 DEF Consistent, HintsDone
  <2>17. Numbered(u)
    BY <1>1, <2>12, <2>14 DEF Consistent, Numbered
  <2>18. Pointers(u) \subseteq Names(u.list) \union {NoPanel}
    <3>1. \A x \in Pointers(s) : let(x) \in Names(u.list) \union {NoPanel}
      BY <1>1, <2>12, <2>14 DEF Consistent
    <3> HIDE DEF let
    <3> QED
      BY <2>8, <2>14, <3>1 DEF Pointers
  <2>19. u.hand.split = Null /\ (u.hand.tab # NoPanel => u.hand.tab \in Docked(u.tree))
    BY <1>1, <2>8, <2>11, <2>14 DEF Consistent
  <2>20. Good(u, A)
    BY <2>14, <2>15, <2>16, <2>17, <2>18, <2>19 DEF Good, Consistent
  <2>21. s.hand.drag # c => u.hand.drag = s.hand.drag
    BY <2>8, <2>14
  <2>22. Removes(s, u, c, A)
    <3>1. c \in Names(s.list)
      BY <1>1, <1>3 DEF Consistent, Pointers
    <3> QED
      BY <3>1, <2>9, <2>10, <2>11, <2>12, <2>14, <2>20, <2>21 DEF Removes
  <2> QED
    BY <2>1, <2>22
<1> QED
  BY <1>2, <1>3

-----------------------------------------------------------------------------
(* The tiles: all are placed, and none but those in the hand goes sideways. *)
Follows(g, h, X) ==
  /\ h \in Grids /\ Len(g) <= Len(h)
  /\ \A i \in 1 .. Len(g) : h[i].id = g[i].id /\ (g[i].id \notin X => h[i].col = g[i].col)
LEMMA FollowsOn ==
  ASSUME NEW g \in Grids, NEW h, NEW k, NEW X, NEW Y, Follows(g, h, X), Follows(h, k, Y)
  PROVE  Follows(g, k, X \union Y) /\ \A id : HasTile(g, id) => HasTile(k, id)
<1>1. Len(g) \in Nat /\ Len(h) \in Nat /\ Len(k) \in Nat
  BY DEF Grids, Follows
<1>2. Len(g) <= Len(k) /\ (\A i \in 1 .. Len(g) : i \in 1 .. Len(h)) /\ (\A i \in 1 .. Len(g) : i \in 1 .. Len(k))
  BY <1>1 DEF Follows
<1>3. ASSUME NEW i \in 1 .. Len(g)
      PROVE  k[i].id = g[i].id /\ (g[i].id \notin X \union Y => k[i].col = g[i].col)
  BY <1>2 DEF Follows
<1>4. Follows(g, k, X \union Y)
  BY <1>2, <1>3 DEF Follows
<1> QED
  BY <1>2, <1>3, <1>4 DEF HasTile

LEMMA FollowsSelf ==
  ASSUME NEW g \in Grids, NEW X
  PROVE  Follows(g, g, X)
BY DEF Grids, Follows

(* Sideways: what a tile's column says of the hand.                         *)
Straight(g, k, X) == \A i \in 1 .. Len(g), j \in 1 .. Len(k) :
                       g[i].id = k[j].id /\ g[i].col # k[j].col => g[i].id \in X
LEMMA StraightThin ==
  ASSUME NEW g \in Grids, NEW h, NEW X, Follows(g, h, X), NEW c, NEW k \in Thinned(h, c)
  PROVE  Straight(g, k, X)
<1> SUFFICES ASSUME NEW i \in 1 .. Len(g), NEW j \in 1 .. Len(k), g[i].id = k[j].id, g[i].col # k[j].col
             PROVE  g[i].id \in X
  BY DEF Straight
<1>1. PICK m \in 1 .. Len(h) : k[j].id = h[m].id /\ k[j].col = h[m].col
  BY DEF Thinned, InColumns
<1>2. Len(g) \in Nat /\ Len(h) \in Nat /\ Len(g) <= Len(h) /\ TilesAreOwn(h)
  BY DEF Grids, Follows
<1>3. i \in 1 .. Len(h)
  BY <1>2
<1>4. h[i].id = g[i].id /\ (g[i].id \notin X => h[i].col = g[i].col)
  BY DEF Follows
<1>5. i = m
  BY <1>1, <1>2, <1>3, <1>4 DEF TilesAreOwn
<1> QED
  BY <1>1, <1>4, <1>5

SetGrid(s, g) == [s EXCEPT !.grid = g]
LEMMA SetGridIs ==
  ASSUME NEW s \in Spaces, NEW g \in Grids
  PROVE  LET u == SetGrid(s, g)
         IN /\ u \in Spaces /\ u.list = s.list /\ u.queued = s.queued /\ u.serial = s.serial
            /\ u.seeded = s.seeded /\ u.doomed = s.doomed /\ u.tree = s.tree /\ u.hand = s.hand
            /\ u.drawn = s.drawn /\ u.grid = g
BY DEF SetGrid, Spaces

SameButGrid(s, u) ==
  /\ u.list = s.list /\ u.queued = s.queued /\ u.serial = s.serial
  /\ u.seeded = s.seeded /\ u.doomed = s.doomed /\ u.tree = s.tree
Tiled(s, u, X, A) == Good(u, A) /\ SameButGrid(s, u) /\ u.hand.drag = s.hand.drag /\ Follows(s.grid, u.grid, X)

LEMMA TiledSelf ==
  ASSUME NEW A, NEW s, Good(s, A), NEW X
  PROVE  Tiled(s, s, X, A)
<1>1. s.grid \in Grids
  BY SpaceFields DEF Good
<1> QED
  BY <1>1, FollowsSelf DEF Tiled, SameButGrid

(* The grid changed, and perhaps a pointer let go.                          *)
LEMMA TiledWhen ==
  ASSUME NEW A, NEW s, Good(s, A), NEW u \in Spaces, SameButGrid(s, u), NEW X, Follows(s.grid, u.grid, X),
         u.hand.drag = s.hand.drag, u.hand.tab = s.hand.tab, Pointers(u) \subseteq Pointers(s) \union {NoPanel},
         u.hand.split \in {Null, s.hand.split}
  PROVE  Tiled(s, u, X, A)
<1>1. Consistent(u, A)
  BY DEF Good, Consistent, SameButGrid, HintsDone, Numbered
<1> QED
  BY <1>1 DEF Tiled, Good

LEMMA FindHas ==
  ASSUME NEW g \in Grids, NEW id
  PROVE  Grid!Find(g, id) # 0 <=> HasTile(g, id)
<1>1. g \in Seq(Tiles)
  BY DEF Grids
<1>2. /\ Grid!Find(g, id) \in 0 .. Len(g)
      /\ Grid!Find(g, id) = 0 => \A i \in 1 .. Len(g) : g[i].id # id
      /\ Grid!Find(g, id) # 0 => g[Grid!Find(g, id)].id = id
  BY <1>1, FindIs
<1>3. ASSUME Grid!Find(g, id) # 0
      PROVE  HasTile(g, id)
  <2>1. Grid!Find(g, id) \in 1 .. Len(g)
    BY <1>1, <1>2, <1>3
  <2> QED
    BY <1>2, <1>3, <2>1 DEF HasTile
<1> QED
  BY <1>2, <1>3 DEF HasTile

LEMMA PlaceTilesTiles ==
  ASSUME NEW A, NEW s, Good(s, A)
  PROVE  LET u == PlaceTiles(s)
         IN /\ Tiled(s, u, {}, A) /\ u.hand.tile = s.hand.tile /\ u.hand.corner = s.hand.corner
            /\ \A c \in Names(u.list) : HasTile(u.grid, c)
<1> DEFINE g == PlaceAll(s.grid, s.list)
           a == SetGrid(s, g)
           u == StructuralChange(a)
<1>1. s \in Spaces /\ s.list \in Seq(Panels) /\ s.grid \in Grids
  BY SpaceFields DEF Good
<1>2. PlaceTiles(s) = IF \A c \in Names(s.list) : Grid!Find(s.grid, c) # 0 THEN s ELSE u
  BY DEF PlaceTiles, SetGrid
<1>3. g \in Kept(s.grid) /\ \A id \in Names(s.list) : HasTile(g, id)
  BY <1>1, PlaceAllPlaces DEF Names
<1>4. g \in Grids /\ Follows(s.grid, g, {})
  BY <1>3 DEF Kept, Follows
<1> HIDE DEF g
<1>5. /\ a \in Spaces /\ a.list = s.list /\ a.queued = s.queued /\ a.serial = s.serial
      /\ a.seeded = s.seeded /\ a.doomed = s.doomed /\ a.tree = s.tree /\ a.hand = s.hand /\ a.grid = g
  BY <1>1, <1>4, SetGridIs
<1> HIDE DEF a
<1>6. /\ u \in Spaces /\ SameHolding(a, u) /\ SameRest(a, u) /\ u.tree = a.tree /\ u.seeded = a.seeded
      /\ u.doomed = a.doomed /\ u.hand.split = Null
  BY <1>5, StructuralIs
<1> HIDE DEF u
<1>7. SameButGrid(s, u) /\ u.grid = g /\ SameHolding(s, u)
  BY <1>5, <1>6 DEF SameButGrid, SameRest, SameHolding
<1>8. Pointers(u) \subseteq Pointers(s) \union {NoPanel}
  BY <1>7 DEF Pointers, SameButGrid, SameHolding
<1>9. Tiled(s, u, {}, A)
  BY <1>4, <1>6, <1>7, <1>8, TiledWhen DEF SameHolding
<1>10. CASE \A c \in Names(s.list) : Grid!Find(s.grid, c) # 0
  <2>1. \A c \in Names(s.list) : HasTile(s.grid, c)
    BY <1>1, <1>10, FindHas
  <2> QED
    BY <1>2, <1>10, <2>1, TiledSelf
<1>11. CASE ~\A c \in Names(s.list) : Grid!Find(s.grid, c) # 0
  <2>1. PlaceTiles(s) = u
    BY <1>2, <1>11
  <2>2. \A c \in Names(u.list) : HasTile(u.grid, c)
    BY <1>3, <1>7 DEF SameButGrid
  <2> QED
    BY <1>7, <1>9, <2>1, <2>2 DEF SameHolding
<1> QED
  BY <1>10, <1>11

LEMMA MovedFollows ==
  ASSUME NEW g \in Grids, NEW id, NEW h \in Moved(g, id)
  PROVE  Follows(g, h, {id}) /\ h \in Grids
<1>1. Len(g) \in Nat /\ Len(h) = Len(g)
  BY DEF Grids, Moved
<1> QED
  BY <1>1 DEF Moved, Follows

(* A tile moved under the hand, and one that settles where it is.           *)
LEMMA HandMoves ==
  ASSUME NEW g \in Grids, NEW id \in Panels, NEW col \in Int, NEW row \in Int, NEW cols \in Int,
         NEW rows \in Int, NEW settling
  PROVE  /\ Grid!MoveTo(g, id, col, row, cols, rows, settling) \in Grids
         /\ Follows(g, Grid!MoveTo(g, id, col, row, cols, rows, settling), {id})
<1>1. g \in Seq(Tiles) /\ TilesAreOwn(g) /\ \A i \in 1 .. Len(g) : g[i].id # id => g[i].col + g[i].cols <= Columns
  BY DEF Grids
<1>2. Grid!MoveTo(g, id, col, row, cols, rows, settling) \in Moved(g, id)
  BY <1>1, MoveToMoves
<1> QED
  BY <1>2, MovedFollows

LEMMA FoundTile ==
  ASSUME NEW g \in Grids, NEW id, Grid!Find(g, id) # 0
  PROVE  LET x == g[Grid!Find(g, id)]
         IN x.col \in Int /\ x.row \in Int /\ x.cols \in Int /\ x.rows \in Int
<1>1. g \in Seq(Tiles)
  BY DEF Grids
<1>2. Grid!Find(g, id) \in 0 .. Len(g)
  BY <1>1, FindIs
<1>3. Grid!Find(g, id) \in 1 .. Len(g)
  BY <1>2
<1> DEFINE x == g[Grid!Find(g, id)]
<1>4. x \in Tiles
  BY <1>1, <1>3
<1> HIDE DEF x
<1>5. x.col \in Nat /\ x.row \in Nat /\ x.cols \in Nat /\ x.rows \in Nat
  BY <1>4, TileTyped
<1> QED
  BY <1>5 DEF x

LEMMA SettleSettles ==
  ASSUME NEW s, NEW g \in Grids, NEW id \in Panels, HasTile(g, id)
  PROVE  Settle(s, id, g) \in Grids /\ Follows(g, Settle(s, id, g), {id})
<1>1. Grid!Find(g, id) # 0
  BY FindHas
<1> DEFINE x == g[Grid!Find(g, id)]
<1>2. x.col \in Int /\ x.row \in Int /\ x.cols \in Int /\ x.rows \in Int
  BY <1>1, FoundTile
<1>3. Settle(s, id, g) = Grid!MoveTo(g, id, x.col, x.row, x.cols, x.rows, NoPanel)
  BY DEF Settle
<1> HIDE DEF x
<1> QED
  BY <1>2, <1>3, HandMoves

LEMMA FollowsHas ==
  ASSUME NEW g \in Grids, NEW h, NEW X, Follows(g, h, X), NEW id, HasTile(g, id)
  PROVE  HasTile(h, id)
<1>1. Len(g) \in Nat /\ Len(h) \in Nat /\ Len(g) <= Len(h)
  BY DEF Grids, Follows
<1>2. \A i \in 1 .. Len(g) : i \in 1 .. Len(h)
  BY <1>1
<1> QED
  BY <1>2 DEF HasTile, Follows

(* What both drags come to: the tile moved, then settled and let go.        *)
LEMMA DragTiles ==
  ASSUME NEW A, NEW s, Good(s, A), NEW c \in Panels, HasTile(s.grid, c), NEW g, g \in Grids, Follows(s.grid, g, {c}),
         NEW h \in Hands, h.tab = s.hand.tab, h.drag = s.hand.drag, h.split = s.hand.split,
         {h.float, h.tile, h.corner} \subseteq {s.hand.float, s.hand.tile, s.hand.corner, NoPanel}
  PROVE  /\ Tiled(s, SetGrid(s, g), {c}, A) /\ SetGrid(s, g).hand = s.hand
         /\ Tiled(s, StructuralChange(SetHand(SetGrid(s, Settle(s, c, g)), h)), {c}, A)
         /\ StructuralChange(SetHand(SetGrid(s, Settle(s, c, g)), h)).hand.corner = h.corner
<1> DEFINE k == Settle(s, c, g)
           a == SetGrid(s, g)
           b == SetGrid(s, k)
           d == SetHand(b, h)
           u == StructuralChange(d)
<1>1. s \in Spaces /\ s.grid \in Grids /\ HasTile(g, c)
  BY SpaceFields, FollowsHas DEF Good
<1>2. k \in Grids /\ Follows(g, k, {c})
  BY <1>1, SettleSettles
<1> HIDE DEF k
<1>3. Follows(s.grid, k, {c} \union {c})
  BY <1>1, <1>2, FollowsOn
<1>4. Follows(s.grid, k, {c})
  <2>1. {c} \union {c} = {c}
    OBVIOUS
  <2> QED
    BY <1>3, <2>1
<1>5. /\ a \in Spaces /\ a.list = s.list /\ a.queued = s.queued /\ a.serial = s.serial
      /\ a.seeded = s.seeded /\ a.doomed = s.doomed /\ a.tree = s.tree /\ a.hand = s.hand /\ a.grid = g
  BY <1>1, SetGridIs
<1> HIDE DEF a
<1>6. Tiled(s, a, {c}, A)
  <2>1. SameButGrid(s, a) /\ Pointers(a) \subseteq Pointers(s) \union {NoPanel}
    BY <1>5 DEF SameButGrid, Pointers
  <2> QED
    BY <1>5, <2>1, TiledWhen
<1>7. /\ b \in Spaces /\ b.list = s.list /\ b.queued = s.queued /\ b.serial = s.serial
      /\ b.seeded = s.seeded /\ b.doomed = s.doomed /\ b.tree = s.tree /\ b.hand = s.hand /\ b.grid = k
  BY <1>1, <1>2, SetGridIs
<1> HIDE DEF b
<1>8. d \in Spaces /\ SameState(b, d) /\ d.hand = h /\ d.tree = b.tree
  BY <1>7, SetHandIs
<1> HIDE DEF d
<1>9. /\ u \in Spaces /\ SameHolding(d, u) /\ SameRest(d, u) /\ u.tree = d.tree /\ u.seeded = d.seeded
      /\ u.doomed = d.doomed /\ u.hand.split = Null
  BY <1>8, StructuralIs
<1> HIDE DEF u
<1>10. SameButGrid(s, u) /\ u.grid = k
  BY <1>7, <1>8, <1>9 DEF SameButGrid, SameState, SameRest
<1>11. Pointers(u) \subseteq Pointers(s) \union {NoPanel}
  BY <1>8, <1>9, <1>10 DEF Pointers, SameHolding, SameButGrid
<1>12. Tiled(s, u, {c}, A) /\ u.hand.corner = h.corner
  BY <1>4, <1>8, <1>9, <1>10, <1>11, TiledWhen DEF SameHolding
<1> QED
  BY <1>5, <1>6, <1>12 DEF a, u, d, b, k

LEMMA LetGoIs ==
  ASSUME NEW s \in Spaces, NEW g \in Grids, NEW h \in Hands
  PROVE  StructuralChange(SetHand(SetGrid(s, g), h)).hand.corner = h.corner
<1> DEFINE b == SetGrid(s, g)
           d == SetHand(b, h)
<1>1. b \in Spaces
  BY SetGridIs
<1> HIDE DEF b
<1>2. d \in Spaces /\ d.hand = h
  BY <1>1, SetHandIs
<1> HIDE DEF d
<1>3. StructuralChange(d).hand.corner = h.corner
  BY <1>2, StructuralIs DEF SameHolding
<1> QED
  BY <1>3 DEF d, b

LEMMA DragTileTiles ==
  ASSUME NEW A, NEW s, Good(s, A), NEW in, in.cell[1] \in Int, in.cell[2] \in Int
  PROVE  Tiled(s, DragTile(s, in), {s.hand.tile}, A) /\ DragTile(s, in).hand.corner = s.hand.corner
<1> DEFINE c == s.hand.tile
           x == s.grid[Grid!Find(s.grid, c)]
           g == Grid!MoveTo(s.grid, c, in.cell[1], in.cell[2], x.cols, x.rows, c)
           h == [s.hand EXCEPT !.tile = NoPanel]
           v == SetHand(s, h)
           a == StructuralChange(SetHand(SetGrid(s, Settle(s, c, g)), h))
           b == SetGrid(s, g)
<1>1. s \in Spaces /\ s.hand \in Hands /\ s.grid \in Grids /\ c \in Somebody
  BY SpaceFields, HandFields DEF Good
<1>2. DragTile(s, in) = IF c = NoPanel THEN s ELSE IF Grid!Find(s.grid, c) = 0 THEN v
                        ELSE IF in.released THEN a ELSE b
  <2>1. v = [s EXCEPT !.hand.tile = NoPanel]
    BY <1>1 DEF SetHand, Spaces
  <2> DEFINE k == Settle(s, c, g)
  <2>2. SetHand(SetGrid(s, k), h) = [s EXCEPT !.grid = k, !.hand.tile = NoPanel]
    <3> HIDE DEF k
    <3> QED
      BY <1>1 DEF SetHand, SetGrid, Spaces
  <2>3. b = [s EXCEPT !.grid = g]
    BY DEF SetGrid
  <2>4. a = StructuralChange([s EXCEPT !.grid = k, !.hand.tile = NoPanel])
    BY <2>2
  <2> HIDE DEF v, a, b
  <2> QED
    BY <2>1, <2>3, <2>4 DEF DragTile
<1>3. /\ h \in Hands /\ h.tab = s.hand.tab /\ h.drag = s.hand.drag /\ h.split = s.hand.split
      /\ h.float = s.hand.float /\ h.tile = NoPanel /\ h.corner = s.hand.corner
  BY <1>1 DEF Hands, Somebody
<1> HIDE DEF h
<1>4. CASE c = NoPanel
  BY <1>2, <1>4, TiledSelf
<1>5. CASE c # NoPanel /\ Grid!Find(s.grid, c) = 0
  <2>1. v \in Spaces /\ SameState(s, v) /\ v.hand = h /\ v.tree = s.tree
    BY <1>1, <1>3, SetHandIs
  <2>2. DragTile(s, in) = v
    BY <1>2, <1>5
  <2> HIDE DEF v
  <2>3. SameButGrid(s, v) /\ Follows(s.grid, v.grid, {c})
    BY <1>1, <2>1, FollowsSelf DEF SameButGrid, SameState
  <2>4. Pointers(v) \subseteq Pointers(s) \union {NoPanel}
    BY <1>3, <2>1, <2>3 DEF Pointers, SameButGrid
  <2>5. Tiled(s, v, {c}, A)
    BY <1>3, <2>1, <2>3, <2>4, TiledWhen
  <2> QED
    BY <1>3, <2>1, <2>2, <2>5
<1>6. CASE c # NoPanel /\ Grid!Find(s.grid, c) # 0
  <2>1. c \in Panels
    BY <1>1, <1>6 DEF Somebody
  <2>2. x.cols \in Int /\ x.rows \in Int
    BY <1>1, <1>6, FoundTile
  <2> HIDE DEF x
  <2>3. g \in Grids /\ Follows(s.grid, g, {c})
    BY <1>1, <2>1, <2>2, HandMoves
  <2> HIDE DEF g
  <2>4. HasTile(s.grid, c)
    BY <1>1, <1>6, FindHas
  <2>5. {h.float, h.tile, h.corner} \subseteq {s.hand.float, s.hand.tile, s.hand.corner, NoPanel}
    BY <1>3
  <2>6. Tiled(s, b, {c}, A) /\ Tiled(s, a, {c}, A)
    BY <1>3, <2>1, <2>3, <2>4, <2>5, DragTiles
  <2>7. b.hand = s.hand
    BY <1>1, <2>3, SetGridIs
  <2>8. a.hand.corner = h.corner
    <3>1. HasTile(g, c)
      BY <1>1, <2>3, <2>4, FollowsHas
    <3>2. Settle(s, c, g) \in Grids
      BY <2>1, <2>3, <3>1, SettleSettles
    <3> HIDE DEF h
    <3> QED
      BY <1>1, <1>3, <3>2, LetGoIs
  <2> HIDE DEF a, b
  <2> QED
    BY <1>2, <1>3, <1>6, <2>6, <2>7, <2>8
<1> QED
  BY <1>4, <1>5, <1>6

LEMMA ResizeTileTiles ==
  ASSUME NEW A, NEW s, Good(s, A), NEW in, in.cell[1] \in Int, in.cell[2] \in Int
  PROVE  Tiled(s, ResizeTile(s, in), {s.hand.corner}, A)
<1> DEFINE c == s.hand.corner
           x == s.grid[Grid!Find(s.grid, c)]
           g == Grid!MoveTo(s.grid, c, x.col, x.row, in.cell[1] - x.col, in.cell[2] - x.row, c)
           h == [s.hand EXCEPT !.corner = NoPanel]
           v == SetHand(s, h)
           a == StructuralChange(SetHand(SetGrid(s, Settle(s, c, g)), h))
           b == SetGrid(s, g)
<1>1. s \in Spaces /\ s.hand \in Hands /\ s.grid \in Grids /\ c \in Somebody
  BY SpaceFields, HandFields DEF Good
<1>2. ResizeTile(s, in) = IF c = NoPanel THEN s ELSE IF Grid!Find(s.grid, c) = 0 THEN v
                          ELSE IF in.released THEN a ELSE b
  <2>1. v = [s EXCEPT !.hand.corner = NoPanel]
    BY <1>1 DEF SetHand, Spaces
  <2> DEFINE k == Settle(s, c, g)
  <2>2. SetHand(SetGrid(s, k), h) = [s EXCEPT !.grid = k, !.hand.corner = NoPanel]
    <3> HIDE DEF k
    <3> QED
      BY <1>1 DEF SetHand, SetGrid, Spaces
  <2>3. b = [s EXCEPT !.grid = g]
    BY DEF SetGrid
  <2>4. a = StructuralChange([s EXCEPT !.grid = k, !.hand.corner = NoPanel])
    BY <2>2
  <2> HIDE DEF v, a, b
  <2> QED
    BY <2>1, <2>3, <2>4 DEF ResizeTile
<1>3. /\ h \in Hands /\ h.tab = s.hand.tab /\ h.drag = s.hand.drag /\ h.split = s.hand.split
      /\ h.float = s.hand.float /\ h.tile = s.hand.tile /\ h.corner = NoPanel
  BY <1>1 DEF Hands, Somebody
<1> HIDE DEF h
<1>4. CASE c = NoPanel
  BY <1>2, <1>4, TiledSelf
<1>5. CASE c # NoPanel /\ Grid!Find(s.grid, c) = 0
  <2>1. v \in Spaces /\ SameState(s, v) /\ v.hand = h /\ v.tree = s.tree
    BY <1>1, <1>3, SetHandIs
  <2>2. ResizeTile(s, in) = v
    BY <1>2, <1>5
  <2> HIDE DEF v
  <2>3. SameButGrid(s, v) /\ Follows(s.grid, v.grid, {c})
    BY <1>1, <2>1, FollowsSelf DEF SameButGrid, SameState
  <2>4. Pointers(v) \subseteq Pointers(s) \union {NoPanel}
    BY <1>3, <2>1, <2>3 DEF Pointers, SameButGrid
  <2>5. Tiled(s, v, {c}, A)
    BY <1>3, <2>1, <2>3, <2>4, TiledWhen
  <2> QED
    BY <2>2, <2>5
<1>6. CASE c # NoPanel /\ Grid!Find(s.grid, c) # 0
  <2>1. c \in Panels
    BY <1>1, <1>6 DEF Somebody
  <2>2. x.col \in Int /\ x.row \in Int
    BY <1>1, <1>6, FoundTile
  <2> HIDE DEF x
  <2>3. in.cell[1] - x.col \in Int /\ in.cell[2] - x.row \in Int
    BY <2>2
  <2>4. g \in Grids /\ Follows(s.grid, g, {c})
    BY <1>1, <2>1, <2>2, <2>3, HandMoves
  <2> HIDE DEF g
  <2>5. HasTile(s.grid, c)
    BY <1>1, <1>6, FindHas
  <2>6. {h.float, h.tile, h.corner} \subseteq {s.hand.float, s.hand.tile, s.hand.corner, NoPanel}
    BY <1>3
  <2>7. Tiled(s, b, {c}, A) /\ Tiled(s, a, {c}, A)
    BY <1>3, <2>1, <2>4, <2>5, <2>6, DragTiles
  <2> HIDE DEF a, b
  <2> QED
    BY <1>2, <1>6, <2>7
<1> QED
  BY <1>4, <1>5, <1>6

-----------------------------------------------------------------------------
(* A panel made, by the application or from the file: the counter is ahead  *)
(* of every number in the list.                                             *)
LEMMA SpawnedIs ==
  ASSUME NEW n \in 1 .. 2 * MaxSpawns
  PROVE  /\ Spawned(n) \in SpawnIds /\ Spawned(n) \in Panels /\ Spawned(n)[2] = n
         /\ \A m \in 1 .. 2 * MaxSpawns : Spawned(m) = Spawned(n) => m = n
BY DEF Spawned, SpawnIds, Panels

Adopts(s, u, c, r, A) ==
  /\ Good(u, A) /\ Names(u.list) = Names(s.list) \union {c} /\ u.tree = s.tree /\ u.grid = s.grid
  /\ u.queued = s.queued /\ u.doomed = s.doomed /\ u.seeded = s.seeded /\ SameHolding(s, u)
  /\ u.hand.split = Null /\ u.serial = r
LEMMA AdoptAdopts ==
  ASSUME NEW A, NEW s, Good(s, A), NEW c \in Panels, c \notin Names(s.list), NEW r \in Nat, s.serial <= r,
         \A n \in 1 .. 2 * MaxSpawns : Spawned(n) = c => n <= r
  PROVE  Adopts(s, [Adopt(s, c) EXCEPT !.serial = r], c, r, A)
<1> DEFINE a == StructuralChange(s)
           l == Append(s.list, c)
           u == [a EXCEPT !.list = l, !.serial = r]
<1>1. s \in Spaces /\ s.list \in Seq(Panels) /\ IsInjective(s.list) /\ s.serial \in Nat /\ Consistent(s, A)
  BY SpaceFields DEF Good
<1>2. /\ a \in Spaces /\ SameHolding(s, a) /\ SameRest(s, a) /\ a.tree = s.tree /\ a.seeded = s.seeded
      /\ a.doomed = s.doomed /\ a.hand.split = Null
  BY <1>1, StructuralIs
<1>3. [Adopt(s, c) EXCEPT !.serial = r] = u
  <2>1. a.list = s.list
    BY <1>2 DEF SameRest
  <2>2. Adopt(s, c) = [a EXCEPT !.list = l]
    BY <2>1 DEF Adopt
  <2> HIDE DEF a, l
  <2> QED
    BY <1>2, <2>2 DEF Spaces
<1> HIDE DEF a
<1>4. l \in Lists /\ Names(l) = Names(s.list) \union {c}
  <2>1. Once(s.list, {}) /\ c \notin ToSet(s.list)
    BY <1>1, OnceWhenInjective DEF Names
  <2>2. l \in Seq(Panels) /\ ToSet(l) = ToSet(s.list) \union {c} /\ Once(l, {})
    BY <1>1, <2>1, AppendOne
  <2> QED
    BY <2>2, OnceIsInjective DEF Lists, Names
<1> HIDE DEF l
<1>5. /\ u \in Spaces /\ u.list = l /\ u.serial = r /\ u.hand = a.hand /\ u.tree = s.tree /\ u.grid = s.grid
      /\ u.queued = s.queued /\ u.doomed = s.doomed /\ u.seeded = s.seeded
  BY <1>2, <1>4 DEF Spaces, SameRest
<1> HIDE DEF u
<1>6. SameHolding(s, u) /\ u.hand.split = Null
  BY <1>2, <1>5 DEF SameHolding
<1>7. Numbered(u)
  <2> SUFFICES ASSUME NEW n \in 1 .. 2 * MaxSpawns, Spawned(n) \in Names(u.list) PROVE n <= u.serial
    BY DEF Numbered
  <2>1. CASE Spawned(n) = c
    BY <1>5, <2>1
  <2>2. CASE Spawned(n) \in Names(s.list)
    <3>1. n <= s.serial /\ n \in Int
      BY <1>1, <2>2, DockSpaceAssumption DEF Consistent, Numbered
    <3> QED
      BY <1>1, <1>5, <3>1
  <2> QED
    BY <1>4, <1>5, <2>1, <2>2
<1>8. Consistent(u, A)
  BY <1>1, <1>4, <1>5, <1>6, <1>7 DEF Consistent, HintsDone, Pointers, SameHolding
<1> QED
  BY <1>3, <1>4, <1>5, <1>6, <1>8 DEF Adopts, Good

(* One name of the file read: the panel is there afterwards, and is the     *)
(* user's to place.                                                         *)
ReadOne(s, c) == MarkPlaced(Recreate(s, c), c)
Reads(s, u, top, A) ==
  /\ Good(u, A) /\ u.tree = s.tree /\ u.grid = s.grid /\ u.queued = s.queued /\ u.doomed = s.doomed
  /\ SameHolding(s, u) /\ u.hand.split \in {Null, s.hand.split}
  /\ Names(s.list) \subseteq Names(u.list) /\ Names(u.list) \subseteq Names(s.list) \union SpawnIds
  /\ s.seeded \subseteq u.seeded /\ u.seeded \subseteq s.seeded \union Names(u.list) /\ u.serial <= top

LEMMA ReadsOn ==
  ASSUME NEW A, NEW s, NEW u, NEW v, NEW top, Reads(s, u, top, A), Reads(u, v, top, A)
  PROVE  Reads(s, v, top, A)
<1>1. SameHolding(s, v) /\ v.hand.split \in {Null, s.hand.split}
  BY DEF Reads, SameHolding
<1>2. /\ v.tree = s.tree /\ v.grid = s.grid /\ v.queued = s.queued /\ v.doomed = s.doomed
      /\ Names(s.list) \subseteq Names(v.list) /\ Names(v.list) \subseteq Names(s.list) \union SpawnIds
      /\ s.seeded \subseteq v.seeded /\ v.seeded \subseteq s.seeded \union Names(v.list) /\ v.serial <= top
      /\ Good(v, A)
  BY DEF Reads
<1> QED
  BY <1>1, <1>2 DEF Reads

LEMMA ReadOneReads ==
  ASSUME NEW A, NEW s, Good(s, A), NEW c \in Panels, NEW top \in Nat, s.serial <= top,
         \A n \in 1 .. 2 * MaxSpawns : Spawned(n) = c => n <= top
  PROVE  LET u == ReadOne(s, c)
         IN Reads(s, u, top, A) /\ (c \in Names(s.list) \union SpawnIds => c \in Names(u.list) /\ c \in u.seeded)
<1> DEFINE a == Recreate(s, c)
           u == [a EXCEPT !.seeded = a.seeded \union {c}]
<1>1. Reads(s, a, top, A) /\ (c \in Names(s.list) \union SpawnIds <=> c \in Names(a.list))
  <2>1. CASE c \in Names(s.list)
    <3>1. a = s
      BY <2>1 DEF Recreate
    <3> HIDE DEF a
    <3> QED
      BY <2>1, <3>1 DEF Reads, SameHolding
  <2>2. CASE c \notin Names(s.list) /\ c \notin SpawnIds
    <3>1. a = s
      BY <2>2 DEF Recreate
    <3> HIDE DEF a
    <3> QED
      BY <2>2, <3>1 DEF Reads, SameHolding
  <2>3. CASE c \notin Names(s.list) /\ c \in SpawnIds
    <3>1. c \in SpawnIds
      BY <2>3
    <3>2. PICK n \in 1 .. 2 * MaxSpawns : c = Spawned(n)
      BY <3>1 DEF SpawnIds
    <3>3. c[2] = n /\ n <= top /\ n \in Nat /\ s.serial \in Nat
      BY <3>2, SpawnedIs, SpaceFields, DockSpaceAssumption DEF Good
    <3> DEFINE r == Ahead(s.serial, c[2])
    <3>4. r \in Nat /\ s.serial <= r /\ n <= r /\ r <= top
      BY <3>3 DEF Ahead
    <3>5. a = [Adopt(s, c) EXCEPT !.serial = r]
      <4>1. Adopt(s, c).serial = s.serial
        <5>1. s \in Spaces
          BY DEF Good
        <5>2. StructuralChange(s) \in Spaces /\ StructuralChange(s).serial = s.serial
          BY <5>1, StructuralIs DEF SameRest
        <5> QED
          BY <5>2 DEF Adopt, Spaces
      <4> QED
        BY <2>3, <3>1, <4>1 DEF Recreate
    <3> HIDE DEF a, r
    <3>6. \A m \in 1 .. 2 * MaxSpawns : Spawned(m) = c => m <= r
      BY <3>2, <3>4, SpawnedIs
    <3>7. Adopts(s, a, c, r, A)
      BY <2>3, <3>4, <3>5, <3>6, AdoptAdopts
    <3> QED
      BY <3>1, <3>4, <3>7 DEF Adopts, Reads
  <2> QED
    BY <2>1, <2>2, <2>3
<1>2. ReadOne(s, c) = IF c \in Names(a.list) THEN u ELSE a
  BY DEF ReadOne, MarkPlaced
<1> HIDE DEF a
<1>0. CASE c \notin Names(a.list)
  BY <1>0, <1>1, <1>2
<1>3. a \in Spaces /\ a.seeded \in SUBSET Panels /\ Consistent(a, A)
  BY <1>1, SpaceFields DEF Reads, Good
<1>4. a.seeded \union {c} \in SUBSET Panels
  BY <1>3
<1>5. /\ u \in Spaces /\ u.seeded = a.seeded \union {c} /\ u.list = a.list /\ u.tree = a.tree /\ u.grid = a.grid
      /\ u.queued = a.queued /\ u.doomed = a.doomed /\ u.hand = a.hand /\ u.serial = a.serial
  BY <1>3, <1>4 DEF Spaces
<1> HIDE DEF u
<1>6. Consistent(u, A)
  BY <1>3, <1>5 DEF Consistent, HintsDone, Numbered, Pointers
<1>7. CASE c \in Names(a.list)
  <2>1. Reads(s, u, top, A)
    BY <1>1, <1>5, <1>6, <1>7 DEF Reads, Good, SameHolding
  <2> QED
    BY <1>1, <1>2, <1>5, <1>7, <2>1
<1> QED
  BY <1>0, <1>7

LEMMA ReadNamesReads ==
  ASSUME NEW A, NEW s, Good(s, A), NEW names \in Seq(Panels), NEW top \in Nat,
         s.serial <= top, \A k \in 1 .. 2 * MaxSpawns : Spawned(k) \in ToSet(names) => k <= top
  PROVE  LET u == ReadNames(s, names)
         IN Reads(s, u, top, A) /\ ToSet(names) \intersect (Names(s.list) \union SpawnIds)
                                     \subseteq Names(u.list) \intersect u.seeded
<1> DEFINE n == Len(names)
           H == Names(s.list) \union SpawnIds
           S == {u \in Spaces : Reads(s, u, top, A)}
           Rec(f) == [i \in 0 .. n |-> IF i = 0 THEN s ELSE ReadOne(f[i - 1], names[i])]
           c == CHOOSE f : f = Rec(f)
           op == [p \in S \X (1 .. n) |-> ReadOne(p[1], names[p[2]])]
<1>1. n \in Nat
  OBVIOUS
<1>2. ReadNames(s, names) = c[n]
  BY DEF ReadNames, ReadOne
<1>0. /\ ToSet(names) = {names[i] : i \in 1 .. Len(names)}
      /\ \A i \in 1 .. Len(names) : names[i] \in Panels /\ \A k \in 1 .. 2 * MaxSpawns : Spawned(k) = names[i] => k <= top
  BY ToSetOf
<1>3. \A u \in S : \A i \in 1 .. n : ReadOne(u, names[i]) \in S
  <2>1. ASSUME NEW u \in S, NEW i \in 1 .. n
        PROVE  ReadOne(u, names[i]) \in S
    <3>1. Reads(s, u, top, A) /\ Good(u, A) /\ u.serial <= top
      BY DEF Reads
    <3>2. names[i] \in Panels /\ \A k \in 1 .. 2 * MaxSpawns : Spawned(k) = names[i] => k <= top
      BY <1>0
    <3> DEFINE v == ReadOne(u, names[i])
    <3>3. Reads(u, v, top, A)
      BY <3>1, <3>2, ReadOneReads
    <3> HIDE DEF v
    <3>4. Reads(s, v, top, A) /\ v \in Spaces
      BY <3>1, <3>3, ReadsOn DEF Reads, Good
    <3> QED
      BY <3>4 DEF v
  <2> QED
    BY <2>1
<1>4. s \in S
  <2>1. Reads(s, s, top, A)
    BY DEF Reads, SameHolding
  <2> QED
    BY <2>1 DEF Good
<1> HIDE DEF n
<1>5. op \in [S \X (1 .. n) -> S]
  BY <1>3
<1>6. \A u \in S : \A i \in 1 .. n : op[<<u, i>>] = ReadOne(u, names[i])
  OBVIOUS
<1> HIDE DEF op, S, H
<1>7. PICK f : Looped(n, s, op, f) /\ \A i \in 0 .. n : f[i] \in S
  BY <1>1, <1>4, <1>5, LoopRuns
<1>8. f = Rec(f)
  <2>1. f = [i \in 0 .. n |-> f[i]] /\ f[0] = s
    BY <1>7 DEF Looped
  <2>2. ASSUME NEW i \in 1 .. n
        PROVE  f[i] = ReadOne(f[i - 1], names[i])
    <3>1. i - 1 \in 0 .. n
      BY <1>1
    <3> QED
      BY <1>6, <1>7, <3>1 DEF Looped
  <2>3. ASSUME NEW i \in 0 .. n
        PROVE  Rec(f)[i] = f[i]
    <3>1. CASE i = 0
      BY <2>1, <3>1
    <3>2. CASE i # 0
      <4>1. i \in 1 .. n
        BY <1>1, <3>2
      <4> QED
        BY <2>2, <3>2, <4>1
    <3> QED
      BY <3>1, <3>2
  <2> QED
    BY <2>1, <2>3
<1>9. c = Rec(c)
  <2> HIDE DEF Rec
  <2> QED
    BY <1>8
<1> HIDE DEF c
<1>10. c[0] = s /\ \A i \in 1 .. n : c[i] = ReadOne(c[i - 1], names[i])
  <2>1. c[0] = s
    <3>1. 0 \in 0 .. n
      BY <1>1
    <3> QED
      BY <1>9, <3>1
  <2>2. ASSUME NEW i \in 1 .. n
        PROVE  c[i] = ReadOne(c[i - 1], names[i])
    <3>1. i \in 0 .. n /\ i # 0
      BY <1>1
    <3> QED
      BY <1>9, <3>1
  <2> QED
    BY <2>1, <2>2
<1>11. \A i \in 0 .. n : c[i] \in S
  <2>1. c[0] \in S
    BY <1>4, <1>10
  <2>2. \A i \in 1 .. n : c[i - 1] \in S => c[i] \in S
    BY <1>3, <1>10
  <2> QED
    BY <1>1, <2>1, <2>2, LoopKeeps
<1> DEFINE T == {i \in 0 .. n : \A j \in 1 .. i : names[j] \in H => names[j] \in Names(c[i].list) \intersect c[i].seeded}
<1>12. 0 \in T
  BY <1>1
<1>13. ASSUME NEW i \in 0 .. n - 1, i \in T
       PROVE  i + 1 \in T
  <2>1. i + 1 \in 1 .. n /\ (i + 1) - 1 = i /\ i \in 0 .. n /\ i + 1 \in 0 .. n
    BY <1>1
  <2> DEFINE a == c[i]
             b == c[i + 1]
             x == names[i + 1]
  <2>2. b = ReadOne(a, x)
    BY <1>10, <2>1
  <2>3. Reads(s, a, top, A) /\ \A j \in 1 .. i : names[j] \in H => names[j] \in Names(a.list) \intersect a.seeded
    BY <1>11, <1>13, <2>1 DEF S
  <2>4. x \in Panels /\ \A k \in 1 .. 2 * MaxSpawns : Spawned(k) = x => k <= top
    BY <1>0, <2>1 DEF n
  <2> HIDE DEF a, b, x
  <2>5. Good(a, A) /\ a.serial <= top /\ Names(s.list) \subseteq Names(a.list)
    BY <2>3 DEF Reads
  <2>6. Reads(a, b, top, A) /\ (x \in H => x \in Names(b.list) \intersect b.seeded)
    <3>1. /\ Reads(a, b, top, A)
          /\ x \in Names(a.list) \union SpawnIds => x \in Names(b.list) /\ x \in b.seeded
      BY <2>2, <2>4, <2>5, ReadOneReads
    <3> QED
      BY <2>5, <3>1 DEF H
  <2>7. \A j \in 1 .. i + 1 : j = i + 1 \/ j \in 1 .. i
    OBVIOUS
  <2>8. Names(a.list) \subseteq Names(b.list) /\ a.seeded \subseteq b.seeded
    BY <2>6 DEF Reads
  <2>9. \A j \in 1 .. i + 1 : names[j] \in H => names[j] \in Names(b.list) \intersect b.seeded
    BY <2>3, <2>6, <2>7, <2>8 DEF x
  <2> QED
    BY <2>1, <2>9 DEF b
<1>14. n \in T
  <2>1. n \in 0 .. n
    BY <1>1
  <2> HIDE DEF T
  <2> QED
    BY <1>1, <1>12, <1>13, <2>1, UpTo
<1>15. Reads(s, c[n], top, A)
  <2>1. n \in 0 .. n
    BY <1>1
  <2> QED
    BY <1>11, <2>1 DEF S
<1>16. \A x \in ToSet(names) : x \in H => x \in Names(c[n].list) \intersect c[n].seeded
  BY <1>0, <1>14 DEF n
<1> QED
  BY <1>2, <1>15, <1>16 DEF H

(* The file opened: what it names is there, and what it docked is docked.   *)
FileGood(f, top) ==
  /\ f.names \in Seq(Panels) /\ f.grid \in Seq(Written) /\ TilesAreOwn(f.grid)
  /\ \A n \in 1 .. 2 * MaxSpawns : Spawned(n) \in ToSet(f.names) => n <= top
  /\ f.count \in Nat /\ f.count <= top
  /\ f.legacy => f.slots \in [Slots -> Seq(Panels)] /\ SlotsAreSound(f.slots, f.names)
  /\ ~f.legacy /\ f.reach # "nothing" => Readable(f.tree, Ids)
Loads(s, u, f, top, A) ==
  /\ Good(u, A) /\ Names(s.list) \subseteq Names(u.list)
  /\ ToSet(f.names) \intersect (Names(s.list) \union SpawnIds) \subseteq Names(u.list) \intersect u.seeded
  /\ Names(u.list) \subseteq Names(s.list) \union SpawnIds
  /\ u.queued = s.queued /\ u.doomed = s.doomed /\ SameHolding(s, u) /\ u.serial <= top
  /\ ~f.legacy /\ f.reach # "nothing" => Docked(u.tree) = Docked(f.tree)

LEMMA SeqOfIds ==
  ASSUME NEW l \in Seq(Panels)
  PROVE  l \in Seq(Ids)
BY NobodyIsNoPanel

LEMMA ReadTreeIs ==
  ASSUME NEW t, Readable(t, Ids), NEW f, NEW top, FileGood(f, top)
  PROVE  /\ Readable(ReadTree(t, f), Ids)
         /\ ~f.legacy /\ f.reach # "nothing" => ReadTree(t, f) = f.tree
<1>1. CASE f.legacy
  <2>1. /\ f.slots \in [Slots -> Seq(Panels)] /\ \A h \in Slots : IsInjective(f.slots[h])
        /\ \A h, k \in Slots : h # k => ToSet(f.slots[h]) \intersect ToSet(f.slots[k]) = {}
    BY <1>1 DEF FileGood, SlotsAreSound
  <2>2. f.slots \in [Slots -> Seq(Ids)]
    BY <2>1, SeqOfIds
  <2>3. Sound(LoadV1(f.slots), Ids, {})
    BY <2>1, <2>2, LoadV1Sound
  <2> QED
    BY <1>1, <2>3, SoundIsReadable DEF ReadTree
<1>2. CASE ~f.legacy
  BY <1>2 DEF ReadTree, FileGood
<1> QED
  BY <1>1, <1>2

LEMMA LoadLayoutLoads ==
  ASSUME NEW s, Good(s, {}), s.hand.tab = NoPanel, s.seeded = {}, NEW f, NEW top \in Nat,
         FileGood(f, top), s.serial <= top
  PROVE  Loads(s, LoadLayout(s, f), f, top, Astray(LoadLayout(s, f)))
<1> DEFINE a == ReadNames(s, f.names)
           q == Ahead(a.serial, f.count)
           t == ReadTree(a.tree, f)
           g == Grid!LoadGrid(a.grid, f.grid)
           b == [a EXCEPT !.serial = q, !.tree = t, !.grid = g]
           u == StructuralChange(b)
           S == Astray(u)
<1>1. Reads(s, a, top, {}) /\ ToSet(f.names) \intersect (Names(s.list) \union SpawnIds)
                                \subseteq Names(a.list) \intersect a.seeded
  BY ReadNamesReads DEF FileGood
<1>2. a \in Spaces /\ Consistent(a, {}) /\ Readable(a.tree, Ids) /\ a.grid \in Grids /\ a.serial \in Nat
  BY <1>1, SpaceFields DEF Reads, Good
<1>3. LoadLayout(s, f) = u
  BY DEF LoadLayout
<1> HIDE DEF a
<1>4. Readable(t, Ids) /\ t \in Trees /\ (~f.legacy /\ f.reach # "nothing" => t = f.tree)
  BY <1>2, ReadTreeIs, TreesAre
<1>5. g \in Grids
  BY <1>2, LoadGridIs DEF FileGood
<1>6. q \in Nat /\ a.serial <= q /\ q <= top
  BY <1>1, <1>2 DEF Ahead, FileGood, Reads
<1> HIDE DEF t, g, q
<1>7. /\ b \in Spaces /\ b.list = a.list /\ b.queued = a.queued /\ b.serial = q
      /\ b.seeded = a.seeded /\ b.doomed = a.doomed /\ b.tree = t /\ b.hand = a.hand
  BY <1>2, <1>4, <1>5, <1>6 DEF Spaces
<1> HIDE DEF b
<1>8. /\ u \in Spaces /\ SameHolding(b, u) /\ SameRest(b, u) /\ u.tree = t /\ u.seeded = b.seeded
      /\ u.doomed = b.doomed /\ u.hand.split = Null
  BY <1>7, StructuralIs
<1> HIDE DEF u
<1>9. /\ u.list = a.list /\ u.queued = a.queued /\ u.serial = q /\ u.seeded = a.seeded
      /\ u.doomed = a.doomed /\ SameHolding(a, u)
  BY <1>7, <1>8 DEF SameRest, SameHolding
<1>10. u.hand.tab = NoPanel
  BY <1>1, <1>9 DEF Reads, SameHolding
<1>11. Sound(u.tree, Ids, S) /\ Docked(u.tree) \subseteq Names(u.list) \union S /\ HintsDone(u, S)
  <2>1. \A c \in Docked(u.tree) : c \notin S => c \in u.seeded /\ ~Twice(u.tree, c)
    BY DEF Astray
  <2> HIDE DEF S
  <2>2. \A c \in Docked(t) : Twice(t, c) => c \in S
    BY <1>8, <2>1
  <2>3. Sound(t, Ids, S)
    BY <1>4, <2>2, ReadableIsSound
  <2>4. u.seeded \subseteq Names(u.list)
    BY <1>1, <1>9 DEF Reads
  <2> QED
    BY <1>8, <2>1, <2>3, <2>4 DEF HintsDone
<1> HIDE DEF S
<1>12. Numbered(u) /\ Pointers(u) \subseteq Names(u.list) \union {NoPanel}
  <2>1. Numbered(u)
    <3> SUFFICES ASSUME NEW n \in 1 .. 2 * MaxSpawns, Spawned(n) \in Names(u.list) PROVE n <= u.serial
      BY DEF Numbered
    <3>1. n <= a.serial /\ n \in Int
      BY <1>2, <1>9, DockSpaceAssumption DEF Consistent, Numbered
    <3> QED
      BY <1>2, <1>6, <1>9, <3>1
  <2> QED
    BY <1>2, <1>9, <2>1 DEF Consistent, Pointers, SameHolding
<1>13. Good(u, S)
  BY <1>8, <1>10, <1>11, <1>12 DEF Good, Consistent
<1>14. ~f.legacy /\ f.reach # "nothing" => Docked(u.tree) = Docked(f.tree)
  BY <1>4, <1>8
<1>15. SameHolding(s, u)
  BY <1>1, <1>9 DEF Reads, SameHolding
<1>16. Loads(s, u, f, top, S)
  BY <1>1, <1>6, <1>9, <1>13, <1>14, <1>15 DEF Loads, Reads
<1> QED
  BY <1>3, <1>16 DEF S

-----------------------------------------------------------------------------
(* A whole walk.  It ends with the panels drawn and those that close gone.  *)
Finishes(s, u, in, panels, d, A) ==
  /\ Good(u, A) /\ u.serial = s.serial /\ u.drawn = panels
  /\ u.queued = s.queued \/ (in.calls.what = "spawn" /\ u.queued = s.queued + 1)
  /\ d = s.doomed \/ in.calls.what = "remove"
  /\ Names(u.list) = Names(s.list) \ {d} /\ u.seeded = s.seeded \ {d}
  /\ LessOne(Docked(s.tree), d, A, Docked(u.tree))
  /\ BlankPanes(u.tree) \subseteq BlankPanes(s.tree)
  /\ s.hand.drag # d => u.hand.drag = s.hand.drag
  /\ u.grid \in Thinned(s.grid, d)
  /\ u.tree = s.tree \/ (d \in Names(s.list) /\ Undocked(s.tree, u.tree, d, A))
LEMMA WalkFinishes ==
  ASSUME NEW A, NEW s, Good(s, A), NEW in, NEW panels, panels \subseteq Panels
  PROVE  \E d : Finishes(s, ApplyPendingRemovals(Draw(s, in, panels)), in, panels, d, A)
<1> DEFINE v == Draw(s, in, panels)
           u == ApplyPendingRemovals(v)
<1>1. Draws(s, v, in, panels, A)
  BY DrawDraws
<1> HIDE DEF v
<1>2. Removes(v, u, v.doomed, A)
  <2>1. Good(v, A)
    BY <1>1 DEF Draws
  <2> QED
    BY <2>1, RemovalsRemove
<1> HIDE DEF u
<1>3. Finishes(s, u, in, panels, v.doomed, A)
  BY <1>1, <1>2 DEF Draws, Removes, Finishes
<1> QED
  BY <1>3 DEF u, v

(* What a walk changes: by the hand, by a close, and by the hints that are  *)
(* still to be acted on.                                                    *)
Differs(c, D, E) == (c \in D /\ c \notin E) \/ (c \notin D /\ c \in E)
ByHand(s, u, in, c) == \/ c = s.hand.tab /\ ~in.released /\ c = u.hand.drag
                       \/ c = s.hand.drag /\ in.released
                       \/ c \notin s.seeded /\ c \in u.seeded
Walks(s, u, in, A) ==
  /\ Good(u, A) /\ u.serial = s.serial
  /\ u.queued = s.queued \/ (in.calls.what = "spawn" /\ u.queued = s.queued + 1)
  /\ \E d : Names(u.list) = Names(s.list) \ {d} /\ (d = s.doomed \/ in.pressed \/ in.calls.what = "remove")
  /\ \A c \in Names(u.list) : Differs(c, Docked(s.tree), Docked(u.tree)) => ByHand(s, u, in, c)
  /\ BlankPanes(u.tree) \subseteq BlankPanes(s.tree)
  /\ Straight(s.grid, u.grid, {s.hand.tile, s.hand.corner})

(* Every panel is on the screen or behind the tab of one that is.           *)
Shows(u, panes, A) ==
  u.drawn \subseteq Names(u.list) =>
    \A c \in Names(u.list) :
      \/ c \in u.drawn
      \/ panes /\ LeafFor(u.tree, c) # Null
         /\ ActiveTab(u.tree.node[LeafFor(u.tree, c)]) \in u.drawn \union A

LEMMA ActiveTabIs ==
  ASSUME NEW P, NEW S, NEW t, Sound(t, P, S), NEW n \in Live(t), t.node[n].tabs # <<>>
  PROVE  ActiveTab(t.node[n]) \in ToSet(t.node[n].tabs)
<1> DEFINE leaf == t.node[n]
<1>1. leaf.tabs \in Seq(P) /\ LeafFine(leaf, S)
  BY NodeTyped, FineLeaves DEF Sound
<1>2. ToSet(leaf.tabs) = {leaf.tabs[i] : i \in 1 .. Len(leaf.tabs)}
  BY <1>1, ToSetOf
<1> HIDE DEF leaf
<1>3. leaf.tabs # <<>> => Len(leaf.tabs) \in Nat \ {0}
  BY <1>1
<1>4. leaf.tabs # <<>> => ActiveTab(leaf) \in ToSet(leaf.tabs)
  BY <1>1, <1>2, <1>3 DEF ActiveTab, LeafFine
<1> QED
  BY <1>4 DEF leaf

LEMMA NotEmptyIs ==
  ASSUME NEW P, NEW t, Shaped(t, P), NEW n \in Live(t)
  PROVE  t.node[n].tabs = <<>> <=> ToSet(t.node[n].tabs) = {}
<1> DEFINE tabs == t.node[n].tabs
<1>1. tabs \in Seq(P)
  BY NodeTyped
<1>2. ToSet(tabs) = {tabs[i] : i \in 1 .. Len(tabs)}
  BY <1>1, ToSetOf
<1> HIDE DEF tabs
<1>3. tabs = <<>> => ToSet(tabs) = {}
  BY <1>2
<1>4. tabs # <<>> => ToSet(tabs) # {}
  <2>1. SUFFICES ASSUME tabs # <<>> PROVE tabs[1] \in ToSet(tabs)
    OBVIOUS
  <2>2. 1 \in 1 .. Len(tabs)
    BY <1>1, <2>1
  <2> QED
    BY <1>2, <2>2
<1> QED
  BY <1>3, <1>4 DEF tabs

(* What a pane shows is drawn, or astray.                                   *)
LEMMA PaneShows ==
  ASSUME NEW A, NEW s, Good(s, A), NEW n \in Panes(s.tree), s.tree.node[n].tabs # <<>>
  PROVE  ActiveTab(s.tree.node[n]) \in Docked(s.tree) /\ ActiveTab(s.tree.node[n]) \in InPanes(s) \union A
         /\ (ActiveTab(s.tree.node[n]) \in Names(s.list) => ActiveTab(s.tree.node[n]) \in InPanes(s))
<1> DEFINE t == s.tree
           a == ActiveTab(t.node[n])
<1>1. Sound(t, Ids, A) /\ Docked(t) \subseteq Names(s.list) \union A /\ Shaped(t, Ids) /\ n \in Live(t)
  BY DEF Good, Consistent, Sound, Panes
<1>2. a \in ToSet(t.node[n].tabs)
  BY <1>1, ActiveTabIs
<1>3. a \in Docked(t)
  BY <1>1, <1>2 DEF Docked
<1>4. n \in Names(Gather(t))
  BY <1>1, GatherGathers DEF Names, Panes
<1>5. a \in Names(s.list) => a \in InPanes(s)
  BY <1>4 DEF InPanes
<1> HIDE DEF a
<1> QED
  BY <1>1, <1>3, <1>5 DEF a

(* In panes: what shows before a close shows after it.                      *)
LEMMA PanesShow ==
  ASSUME NEW A, NEW s, Good(s, A), NEW u, NEW in, NEW d,
         Finishes(s, u, in, InPanes(s) \union Floats(s), d, A)
  PROVE  Shows(u, TRUE, A)
<1> SUFFICES ASSUME u.drawn \subseteq Names(u.list), NEW c \in Names(u.list), c \notin u.drawn
             PROVE  /\ LeafFor(u.tree, c) # Null
                    /\ ActiveTab(u.tree.node[LeafFor(u.tree, c)]) \in u.drawn \union A
  BY DEF Shows
<1> DEFINE t == s.tree
           v == u.tree
           n == LeafFor(v, c)
           a == ActiveTab(t.node[n])
<1>1. Sound(t, Ids, A) /\ Shaped(t, Ids)
  BY DEF Good, Consistent, Sound
<1>2. Sound(v, Ids, A) /\ Shaped(v, Ids)
  BY DEF Finishes, Good, Consistent, Sound
<1>3. /\ Names(u.list) = Names(s.list) \ {d} /\ u.drawn = InPanes(s) \union Floats(s)
      /\ v = t \/ (d \in Names(s.list) /\ Undocked(t, v, d, A))
      /\ LessOne(Docked(t), d, A, Docked(v))
  BY DEF Finishes
<1>4. c \in Names(s.list) /\ c # d /\ d \notin u.drawn
  BY <1>3
<1>5. c \in Docked(v)
  <2>1. LeafFor(t, c) # Null
    BY <1>3, <1>4 DEF Floats
  <2>2. c \in Docked(t)
    BY <1>1, <2>1, DockedIs
  <2> QED
    BY <1>3, <1>4, <2>2 DEF LessOne
<1>6. n # Null /\ n \in Panes(v) /\ c \in ToSet(v.node[n].tabs)
  <2>1. n # Null
    BY <1>2, <1>5, DockedIs
  <2> QED
    BY <1>2, <2>1, LeafForIs
<1>7. n \in Live(v) /\ v.node[n].tabs # <<>>
  <2>1. n \in Live(v)
    BY <1>6 DEF Panes
  <2> QED
    BY <1>2, <1>6, <2>1, NotEmptyIs
<1> HIDE DEF n
<1>8. CASE v = t
  <2>1. a \in InPanes(s) \union A
    BY <1>6, <1>7, <1>8, PaneShows
  <2> QED
    BY <1>3, <1>6, <1>8, <2>1 DEF n
<1>9. CASE v # t
  <2>1. d \in Names(s.list) /\ Undocked(t, v, d, A)
    BY <1>3, <1>9
  <2>2. n \in Panes(t) /\ n \in Live(t)
    BY <1>6, <2>1 DEF Undocked, Panes
  <2>3. CASE n # LeafFor(t, d)
    <3>1. Untouched(t, v, n)
      BY <2>1, <2>2, <2>3 DEF Undocked
    <3>2. t.node[n].tabs # <<>> /\ ActiveTab(v.node[n]) = a
      BY <1>7, <3>1 DEF Untouched, ActiveTab
    <3>3. a \in InPanes(s) \union A
      BY <2>2, <3>2, PaneShows
    <3> QED
      BY <1>3, <1>6, <3>2, <3>3 DEF n
  <2>4. CASE n = LeafFor(t, d)
    <3>1. LeftBehind(t, v, n, d, A)
      BY <1>6, <2>1, <2>4 DEF Undocked
    <3>2. c \in ToSet(t.node[n].tabs)
      BY <1>6, <3>1 DEF LeftBehind, LessOne
    <3>3. t.node[n].tabs # <<>>
      BY <1>1, <2>2, <3>2, NotEmptyIs
    <3>4. a \in InPanes(s) \union A /\ (a \in Names(s.list) => a \in InPanes(s))
      BY <2>2, <3>3, PaneShows
    <3>5. a # d
      BY <1>3, <1>4, <2>1, <3>4
    <3>6. ActiveTab(v.node[n]) = a
      BY <3>1, <3>5 DEF LeftBehind
    <3> QED
      BY <1>3, <1>6, <3>4, <3>6 DEF n
  <2> QED
    BY <2>3, <2>4
<1> QED
  BY <1>8, <1>9

(* Up to the press, in panes.                                               *)
HeldPanes(s, in) == Drop(Detach(AdvanceGrips(SeedTree(s, in.largest), in), in), in)
Carries(s, u, in, A) ==
  /\ Good(u, A) /\ SameRest(s, u) /\ u.doomed = s.doomed
  /\ \A c : Differs(c, Docked(s.tree), Docked(u.tree)) =>
       \/ c = s.hand.tab /\ c # NoPanel /\ ~in.released /\ c = u.hand.drag
       \/ c = s.hand.drag /\ in.released
       \/ c \notin s.seeded /\ c \in u.seeded
  /\ BlankPanes(u.tree) \subseteq BlankPanes(s.tree)
LEMMA HeldPanesCarries ==
  ASSUME NEW A, NEW s, Good(s, A), NEW in, in.largest \in Nat
  PROVE  Carries(s, HeldPanes(s, in), in, A)
<1> DEFINE p == SeedTree(s, in.largest)
           a == AdvanceGrips(p, in)
           b == Detach(a, in)
           u == Drop(b, in)
<1>1. Seeds(s, p, A) /\ AllSeeded(p)
  BY SeedTreeSeeds
<1> HIDE DEF p
<1>2. /\ Good(a, A) /\ SameState(p, a) /\ a.tree = p.tree /\ a.hand.tab = p.hand.tab
      /\ a.hand.drag = p.hand.drag
  BY <1>1, GripsLetGo DEF Seeds
<1> HIDE DEF a
<1>3. /\ Good(b, A) /\ SameState(a, b) /\ Detaches(a, b, in, A)
      /\ BlankPanes(b.tree) \subseteq BlankPanes(a.tree)
  BY <1>2, DetachSteps
<1> HIDE DEF b
<1>4. AllSeeded(b)
  BY <1>1, <1>2, <1>3 DEF AllSeeded, SameState
<1>5. /\ Good(u, A) /\ SameState(b, u) /\ LetsGo(b, u, in)
      /\ BlankPanes(u.tree) \subseteq BlankPanes(b.tree)
  BY <1>3, <1>4, DropSteps
<1> HIDE DEF u
<1>6. SameRest(s, u) /\ u.doomed = s.doomed
  BY <1>1, <1>2, <1>3, <1>5 DEF Seeds, SameRest, SameState
<1>7. BlankPanes(u.tree) \subseteq BlankPanes(s.tree)
  BY <1>1, <1>2, <1>3, <1>5 DEF Seeds
<1>8. a.hand.tab = s.hand.tab /\ a.hand.drag = s.hand.drag
  BY <1>1, <1>2 DEF Seeds, SameHolding
<1>9. ASSUME NEW c, Differs(c, Docked(s.tree), Docked(u.tree))
      PROVE  \/ c = s.hand.tab /\ c # NoPanel /\ ~in.released /\ c = u.hand.drag
             \/ c = s.hand.drag /\ in.released
             \/ c \notin s.seeded /\ c \in u.seeded
  <2>0. u.seeded = p.seeded
    BY <1>2, <1>3, <1>5 DEF SameState
  <2> SUFFICES ASSUME ~(c \notin s.seeded /\ c \in p.seeded)
               PROVE  \/ c = s.hand.tab /\ c # NoPanel /\ ~in.released /\ c = u.hand.drag
                      \/ c = s.hand.drag /\ in.released
    BY <2>0
  <2>1. c \in Docked(a.tree) <=> c \in Docked(s.tree)
    BY <1>1, <1>2 DEF Seeds
  <2>2. Differs(c, Docked(a.tree), Docked(u.tree))
    BY <1>9, <2>1 DEF Differs
  <2>3. CASE Docked(b.tree) = Docked(a.tree) /\ b.hand.drag = a.hand.drag
    BY <1>5, <1>8, <2>2, <2>3 DEF LetsGo, Differs
  <2>4. CASE /\ a.hand.tab # NoPanel /\ ~in.released /\ b.hand.drag = a.hand.tab
             /\ LessOne(Docked(a.tree), a.hand.tab, A, Docked(b.tree))
    <3>1. Docked(u.tree) = Docked(b.tree) /\ u.hand.drag = b.hand.drag
      BY <1>5, <2>4 DEF LetsGo
    <3> QED
      BY <1>8, <2>2, <2>4, <3>1 DEF Differs, LessOne
  <2> QED
    BY <1>3, <2>3, <2>4 DEF Detaches
<1>10. u = HeldPanes(s, in)
  BY DEF u, b, a, p, HeldPanes
<1>11. Carries(s, u, in, A)
  BY <1>5, <1>6, <1>7, <1>9 DEF Carries
<1> QED
  BY <1>10, <1>11

LEMMA PanesWalk ==
  ASSUME NEW A, NEW s, Good(s, A), NEW in, in.largest \in Nat
  PROVE  Walks(s, UpdatePanes(s, in), in, A) /\ Shows(UpdatePanes(s, in), TRUE, A)
<1> DEFINE p == HeldPanes(s, in)
           v == PressPanes(p, in)
           drawn == InPanes(v) \union Floats(v)
           u == ApplyPendingRemovals(Draw(v, in, drawn))
<1>1. UpdatePanes(s, in) = u
  <2>1. DrainSpawns(s) = s
    BY DrainingKeeps DEF Good
  <2> QED
    BY <2>1 DEF UpdatePanes, DrawPanes, HeldPanes
<1>2. Carries(s, p, in, A)
  BY HeldPanesCarries
<1> HIDE DEF p
<1>3. Pressed(p, v, in, A)
  BY <1>2, PressPanesPresses DEF Carries
<1> HIDE DEF v
<1>4. Good(v, A) /\ drawn \subseteq Panels
  <2>1. Good(v, A)
    BY <1>3 DEF Pressed
  <2>2. Names(v.list) \subseteq Panels
    BY <2>1, SpaceFields, NamesAre DEF Good
  <2> QED
    BY <2>1, <2>2 DEF InPanes, Floats
<1>5. PICK d : Finishes(v, u, in, drawn, d, A)
  BY <1>4, WalkFinishes
<1>6. Shows(u, TRUE, A)
  BY <1>4, <1>5, PanesShow
<1> HIDE DEF u, drawn
<1>7. Straight(s.grid, u.grid, {s.hand.tile, s.hand.corner})
  <2>1. s.grid \in Grids /\ v.grid = s.grid
    BY <1>2, <1>3, SpaceFields DEF Good, Carries, Pressed, SameRest
  <2>2. u.grid \in Thinned(s.grid, d)
    BY <1>5, <2>1 DEF Finishes
  <2> QED
    BY <2>1, <2>2, FollowsSelf, StraightThin
<1>8. /\ Names(u.list) = Names(s.list) \ {d}
      /\ d = s.doomed \/ in.pressed \/ in.calls.what = "remove"
  BY <1>2, <1>3, <1>5 DEF Carries, Pressed, Finishes, SameRest
<1>9. ASSUME NEW c \in Names(u.list), Differs(c, Docked(s.tree), Docked(u.tree))
      PROVE  ByHand(s, u, in, c)
  <2>1. c # d
    BY <1>8, <1>9
  <2>2. Differs(c, Docked(s.tree), Docked(p.tree))
    <3>1. LessOne(Docked(p.tree), d, A, Docked(u.tree))
      BY <1>3, <1>5 DEF Pressed, Finishes
    <3> QED
      BY <1>9, <2>1, <3>1 DEF Differs, LessOne
  <2>3. CASE c = s.hand.tab /\ c # NoPanel /\ ~in.released /\ c = p.hand.drag
    <3>1. v.hand.drag = c
      BY <1>3, <2>3 DEF Pressed
    <3>2. u.hand.drag = c
      BY <1>5, <2>1, <3>1 DEF Finishes
    <3> QED
      BY <2>3, <3>2 DEF ByHand
  <2>4. CASE c = s.hand.drag /\ in.released
    BY <2>4 DEF ByHand
  <2>5. CASE c \notin s.seeded /\ c \in p.seeded
    <3>1. u.seeded = p.seeded \ {d}
      BY <1>3, <1>5 DEF Pressed, Finishes
    <3> QED
      BY <2>1, <2>5, <3>1 DEF ByHand
  <2> QED
    BY <1>2, <2>2, <2>3, <2>4, <2>5 DEF Carries
<1>10. BlankPanes(u.tree) \subseteq BlankPanes(s.tree)
  BY <1>2, <1>3, <1>5 DEF Carries, Pressed, Finishes
<1>11. /\ Good(u, A) /\ u.serial = s.serial
       /\ u.queued = s.queued \/ (in.calls.what = "spawn" /\ u.queued = s.queued + 1)
  BY <1>2, <1>3, <1>5 DEF Carries, Pressed, Finishes, SameRest
<1>12. Walks(s, u, in, A)
  BY <1>7, <1>8, <1>9, <1>10, <1>11 DEF Walks
<1> QED
  BY <1>1, <1>6, <1>12

(* ... and in tiles.                                                        *)
MovedTiles(s, in) == ResizeTile(DragTile(PlaceTiles(s), in), in)
LEMMA MovedTilesTiles ==
  ASSUME NEW A, NEW s, Good(s, A), NEW in, in.cell[1] \in Int, in.cell[2] \in Int
  PROVE  /\ Tiled(s, MovedTiles(s, in), {s.hand.tile, s.hand.corner}, A)
         /\ \A c \in Names(MovedTiles(s, in).list) : HasTile(MovedTiles(s, in).grid, c)
<1> DEFINE a == PlaceTiles(s)
           b == DragTile(a, in)
           u == ResizeTile(b, in)
<1>1. /\ Tiled(s, a, {}, A) /\ a.hand.tile = s.hand.tile /\ a.hand.corner = s.hand.corner
      /\ \A c \in Names(a.list) : HasTile(a.grid, c)
  BY PlaceTilesTiles
<1> HIDE DEF a
<1>2. Tiled(a, b, {a.hand.tile}, A) /\ b.hand.corner = a.hand.corner
  BY <1>1, DragTileTiles DEF Tiled
<1> HIDE DEF b
<1>3. Tiled(b, u, {b.hand.corner}, A)
  BY <1>2, ResizeTileTiles DEF Tiled
<1> HIDE DEF u
<1>4. s.grid \in Grids /\ a.grid \in Grids
  BY <1>1, SpaceFields DEF Tiled, Good
<1>5. Follows(a.grid, u.grid, {a.hand.tile} \union {b.hand.corner}) /\ \A id : HasTile(a.grid, id) => HasTile(u.grid, id)
  BY <1>2, <1>3, <1>4, FollowsOn DEF Tiled
<1>6. Follows(s.grid, u.grid, {} \union ({a.hand.tile} \union {b.hand.corner}))
  BY <1>1, <1>4, <1>5, FollowsOn DEF Tiled
<1>7. {} \union ({a.hand.tile} \union {b.hand.corner}) = {s.hand.tile, s.hand.corner}
  BY <1>1, <1>2
<1>8. Follows(s.grid, u.grid, {s.hand.tile, s.hand.corner})
  BY <1>6, <1>7
<1>9. Tiled(s, u, {s.hand.tile, s.hand.corner}, A)
  BY <1>1, <1>2, <1>3, <1>8 DEF Tiled, SameButGrid
<1>10. u.list = a.list
  BY <1>2, <1>3 DEF Tiled, SameButGrid
<1>11. u = MovedTiles(s, in)
  BY DEF u, b, a, MovedTiles
<1> QED
  BY <1>1, <1>5, <1>9, <1>10, <1>11

LEMMA TilesWalk ==
  ASSUME NEW A, NEW s, Good(s, A), NEW in, in.cell[1] \in Int, in.cell[2] \in Int
  PROVE  Walks(s, UpdateTiles(s, in), in, A) /\ Shows(UpdateTiles(s, in), FALSE, A)
<1> DEFINE p == MovedTiles(s, in)
           v == PressTiles(p, in)
           drawn == InTiles(v)
           u == ApplyPendingRemovals(Draw(v, in, drawn))
<1>1. UpdateTiles(s, in) = u
  <2>1. DrainSpawns(s) = s
    BY DrainingKeeps DEF Good
  <2> QED
    BY <2>1 DEF UpdateTiles, DrawTiles, MovedTiles
<1>2. Tiled(s, p, {s.hand.tile, s.hand.corner}, A) /\ \A c \in Names(p.list) : HasTile(p.grid, c)
  BY MovedTilesTiles
<1> HIDE DEF p
<1>3. Pressed(p, v, in, A)
  BY <1>2, PressTilesPresses DEF Tiled
<1> HIDE DEF v
<1>4. Good(v, A) /\ drawn = Names(v.list) /\ drawn \subseteq Panels
  <2>1. Good(v, A) /\ v.list = p.list /\ v.grid = p.grid
    BY <1>3 DEF Pressed, SameRest
  <2>2. Names(v.list) \subseteq Panels /\ v.grid \in Grids
    BY <2>1, SpaceFields, NamesAre DEF Good
  <2>3. \A c \in Names(v.list) : Grid!Find(v.grid, c) # 0
    BY <1>2, <2>1, <2>2, FindHas
  <2> QED
    BY <2>1, <2>2, <2>3 DEF InTiles
<1>5. PICK d : Finishes(v, u, in, drawn, d, A)
  BY <1>4, WalkFinishes
<1> HIDE DEF u, drawn
<1>6. Shows(u, FALSE, A)
  BY <1>4, <1>5 DEF Finishes, Shows
<1>7. Straight(s.grid, u.grid, {s.hand.tile, s.hand.corner})
  <2>1. s.grid \in Grids /\ Follows(s.grid, p.grid, {s.hand.tile, s.hand.corner}) /\ v.grid = p.grid
    BY <1>2, <1>3, SpaceFields DEF Good, Tiled, Pressed, SameRest
  <2>2. u.grid \in Thinned(p.grid, d)
    BY <1>5, <2>1 DEF Finishes
  <2> QED
    BY <2>1, <2>2, StraightThin
<1>8. /\ Names(u.list) = Names(s.list) \ {d}
      /\ d = s.doomed \/ in.pressed \/ in.calls.what = "remove"
  BY <1>2, <1>3, <1>5 DEF Tiled, SameButGrid, Pressed, Finishes, SameRest
<1>9. ASSUME NEW c \in Names(u.list), Differs(c, Docked(s.tree), Docked(u.tree))
      PROVE  ByHand(s, u, in, c)
  <2>1. LessOne(Docked(s.tree), d, A, Docked(u.tree))
    BY <1>2, <1>3, <1>5 DEF Tiled, SameButGrid, Pressed, Finishes
  <2> QED
    BY <1>8, <1>9, <2>1 DEF Differs, LessOne
<1>10. BlankPanes(u.tree) \subseteq BlankPanes(s.tree)
  BY <1>2, <1>3, <1>5 DEF Tiled, SameButGrid, Pressed, Finishes
<1>11. /\ Good(u, A) /\ u.serial = s.serial
       /\ u.queued = s.queued \/ (in.calls.what = "spawn" /\ u.queued = s.queued + 1)
  BY <1>2, <1>3, <1>5 DEF Tiled, SameButGrid, Pressed, Finishes, SameRest
<1>12. Walks(s, u, in, A)
  BY <1>7, <1>8, <1>9, <1>10, <1>11 DEF Walks
<1> QED
  BY <1>1, <1>6, <1>12

-----------------------------------------------------------------------------
(* What a frame finds.                                                      *)
Found(in) == in.cell[1] \in Int /\ in.cell[2] \in Int /\ in.largest \in Nat
LEMMA InputsAre ==
  ASSUME NEW in
  PROVE  /\ in \in Press => Found(in) /\ in.pressed /\ ~in.released /\ in.calls.what = "nothing"
         /\ in \in Hold => Found(in) /\ ~in.pressed /\ ~in.released /\ in.calls.what = "nothing"
         /\ in \in Release => Found(in) /\ ~in.pressed /\ in.calls.what \in {"nothing", "remove", "spawn"}
         /\ in \in Idle => Found(in) /\ ~in.pressed /\ ~in.released /\ in.calls.what = "nothing"
<1>1. in \in Press => Found(in) /\ in.pressed /\ ~in.released /\ in.calls.what = "nothing"
  <2> SUFFICES ASSUME in \in Press PROVE Found(in) /\ in.pressed /\ ~in.released /\ in.calls.what = "nothing"
    OBVIOUS
  <2>1. CASE in = [Quiet EXCEPT !.pressed = TRUE]
    BY <2>1 DEF Quiet, NoCall, Found
  <2>2. CASE in \in OnChrome
    <3>1. PICK f : in = [Quiet EXCEPT !.pressed = TRUE, !.float = f]
      BY <2>2 DEF OnChrome
    <3> QED
      BY <3>1 DEF Quiet, NoCall, Found
  <2>3. CASE in \in OnPanes
    <3>1. (\E f : in = [Quiet EXCEPT !.pressed = TRUE, !.pane = f]) \/ (\E f : in = [Quiet EXCEPT !.pressed = TRUE, !.split = f])
      BY <2>3 DEF OnPanes
    <3>2. CASE \E f : in = [Quiet EXCEPT !.pressed = TRUE, !.pane = f]
      BY <3>2 DEF Quiet, NoCall, Found
    <3>3. CASE \E f : in = [Quiet EXCEPT !.pressed = TRUE, !.split = f]
      BY <3>3 DEF Quiet, NoCall, Found
    <3> QED
      BY <3>1, <3>2, <3>3
  <2> QED
    BY <2>1, <2>2, <2>3 DEF Press
<1>2. \A c \in Over : c[1] \in Int /\ c[2] \in Int
  <2>1. \A c \in Cells : c[1] \in Int /\ c[2] \in Int
    BY DockSpaceAssumption
  <2>2. Quiet.cell = <<0, 0>>
    BY DEF Quiet
  <2> QED
    BY <2>1, <2>2 DEF Over
<1>3. in \in Hold => Found(in) /\ ~in.pressed /\ ~in.released /\ in.calls.what = "nothing"
  <2> SUFFICES ASSUME in \in Hold PROVE Found(in) /\ ~in.pressed /\ ~in.released /\ in.calls.what = "nothing"
    OBVIOUS
  <2>1. PICK c \in Over : in = [Quiet EXCEPT !.far = TRUE, !.cell = c]
    BY DEF Hold
  <2> QED
    BY <1>2, <2>1 DEF Quiet, NoCall, Found
<1>4. in \in Release => Found(in) /\ ~in.pressed /\ in.calls.what \in {"nothing", "remove", "spawn"}
  <2> SUFFICES ASSUME in \in Release PROVE Found(in) /\ ~in.pressed /\ in.calls.what \in {"nothing", "remove", "spawn"}
    OBVIOUS
  <2>1. \A w \in Calls : w.what \in {"remove", "spawn"}
    BY DEF Calls
  <2>2. (\E d, c : c \in Over /\ in = Dropping(d, c)) \/ (\E c, w : c \in Over /\ w \in Calls /\ in = Calling(w, c))
    BY DEF Release
  <2>3. CASE \E d, c : c \in Over /\ in = Dropping(d, c)
    BY <1>2, <2>3 DEF Dropping, Quiet, NoCall, Found
  <2>4. CASE \E c, w : c \in Over /\ w \in Calls /\ in = Calling(w, c)
    BY <1>2, <2>1, <2>4 DEF Calling, Quiet, Found
  <2> QED
    BY <2>2, <2>3, <2>4
<1>5. in \in Idle => Found(in) /\ ~in.pressed /\ ~in.released /\ in.calls.what = "nothing"
  <2> SUFFICES ASSUME in \in Idle PROVE Found(in) /\ ~in.pressed /\ ~in.released /\ in.calls.what = "nothing"
    OBVIOUS
  <2>1. PICK n \in 0 .. 1 : in = [Quiet EXCEPT !.largest = n]
    BY DEF Idle
  <2> QED
    BY <2>1 DEF Quiet, NoCall, Found
<1> QED
  BY <1>1, <1>3, <1>4, <1>5

-----------------------------------------------------------------------------
(* The inductive invariant.  What the dock space is between two frames is   *)
(* consistent, but for what the file led astray; spawned panels are         *)
(* numbered no higher than the old file's and this run's spawns together;   *)
(* until the first walk nothing is placed, held or astray; and the file     *)
(* could be read by the next run.                                           *)
Top == MaxSpawns + spawns
SpaceIsGood == Good(Space, strays)
Bounded == /\ mSpawnCounter <= Top /\ mPendingSpawns <= spawns
           /\ spawns \in 0 .. MaxSpawns /\ presses \in Nat
NotYetWalked == /\ hand = EmptyHand /\ mGrid = <<>> /\ ~down
                /\ mTree = FreshTree /\ mSeeded = {} /\ strays = {}
FileIsGood == file = NoFile \/ FileGood(file, Top)
Flags == /\ down \in BOOLEAN /\ mOpened \in BOOLEAN /\ shown \subseteq Panels /\ strays \subseteq Ids
         /\ arrange \in {"panes", "tiles"}
Inv == SpaceIsGood /\ Bounded /\ (~mOpened => NotYetWalked) /\ FileIsGood /\ Flags

LEMMA SpaceIs ==
  /\ Space.list = mContainers /\ Space.tree = mTree /\ Space.grid = mGrid /\ Space.seeded = mSeeded
  /\ Space.anchor = mSeedAnchor /\ Space.doomed = mPendingRemove /\ Space.queued = mPendingSpawns
  /\ Space.hand = hand /\ Space.changed = changed /\ Space.serial = mSpawnCounter
BY DEF Space

(* A space made anew is good.                                               *)
Fresh(l) == [list |-> l, tree |-> FreshTree, grid |-> <<>>, seeded |-> {}, anchor |-> NoAnchor,
             doomed |-> NoPanel, queued |-> 0, hand |-> EmptyHand, changed |-> TRUE, busy |-> FALSE,
             serial |-> 0, drawn |-> {}]
LEMMA FreshHoldsNothing == Readable(FreshTree, Ids) /\ Sound(FreshTree, Ids, {}) /\ Docked(FreshTree) = {}
<1>1. <<>> \in Seq(Ids) /\ IsInjective(<<>>) /\ ToSet(<<>>) = {}
  BY DEF IsInjective, ToSet
<1>2. Sound(FreshTree, Ids, {}) /\ Docked(FreshTree) = {}
  BY <1>1, OneLeafSound DEF FreshTree
<1> QED
  BY <1>2, SoundIsReadable

LEMMA FreshIsGood ==
  ASSUME NEW l \in Layouts
  PROVE  Good(Fresh(l), {}) /\ l \in Seq(Panels)
<1>1. l \in Seq(Declared) /\ IsInjective(l)
  BY DockSpaceAssumption
<1>2. l \in Seq(Panels)
  <2>1. \A i \in 1 .. Len(l) : l[i] \in Panels
    BY <1>1 DEF Panels
  <2> QED
    BY <1>1, <2>1
<1>3. FreshTree \in Trees
  BY FreshHoldsNothing, TreesAre
<1>4. <<>> \in Grids
  BY DEF Grids, TilesAreOwn
<1>5. EmptyHand \in Hands /\ NoAnchor \in [Slots -> Somebody]
  BY DEF EmptyHand, Hands, Somebody, Null, NoAnchor
<1> DEFINE s == Fresh(l)
<1>6. s \in Spaces
  BY <1>1, <1>2, <1>3, <1>4, <1>5 DEF Fresh, Spaces, Lists, Somebody
<1>7. Names(l) \subseteq Declared
  BY <1>1 DEF Names, ToSet
<1>8. Numbered(s)
  <2> SUFFICES ASSUME NEW n \in 1 .. 2 * MaxSpawns, Spawned(n) \in Names(l) PROVE FALSE
    BY DEF Numbered, Fresh
  <2>1. Spawned(n) \in SpawnIds
    BY SpawnedIs
  <2> QED
    BY <1>7, <2>1, DockSpaceAssumption
<1>9. Consistent(s, {})
  BY <1>8, FreshHoldsNothing DEF Consistent, HintsDone, Pointers, Fresh, EmptyHand
<1> QED
  BY <1>2, <1>6, <1>9 DEF Good

LEMMA InvInit == Init => Inv
<1> SUFFICES ASSUME Init PROVE Inv
  OBVIOUS
<1>1. Space = Fresh(mContainers) /\ mContainers \in Layouts /\ strays = {}
  BY DEF Init, Space, Fresh
<1>2. SpaceIsGood
  BY <1>1, FreshIsGood DEF SpaceIsGood
<1>3. Bounded
  BY DockSpaceAssumption DEF Init, Bounded, Top
<1>4. NotYetWalked
  BY DEF Init, NotYetWalked
<1>5. FileIsGood
  <2> SUFFICES ASSUME file # NoFile PROVE FileGood(file, Top)
    BY DEF FileIsGood
  <2>1. FileIsSound(file) /\ Top = MaxSpawns /\ MaxSpawns \in Nat
    BY DockSpaceAssumption DEF Init, Top
  <2>2. /\ file.names \in Seq(Panels) /\ file.grid \in Seq(Written) /\ TilesAreOwn(file.grid)
        /\ \A n \in MaxSpawns + 1 .. 2 * MaxSpawns : Spawned(n) \notin ToSet(file.names)
        /\ file.count \in Nat /\ file.count <= Top
    BY <2>1 DEF FileIsSound, Written
  <2>3. \A n \in 1 .. 2 * MaxSpawns : Spawned(n) \in ToSet(file.names) => n <= Top
    BY <2>1, <2>2
  <2>4. file.legacy => file.slots \in [Slots -> Seq(Panels)] /\ SlotsAreSound(file.slots, file.names)
    BY <2>1 DEF FileIsSound
  <2>5. ~file.legacy /\ file.reach # "nothing" => Readable(file.tree, Ids)
    BY <2>1, ReadableIs DEF FileIsSound
  <2> QED
    BY <2>2, <2>3, <2>4, <2>5 DEF FileGood
<1>6. Flags
  BY DockSpaceAssumption DEF Init, Flags
<1> QED
  BY <1>2, <1>3, <1>4, <1>5, <1>6 DEF Inv

(* The file read on the first walk, and what it leads astray.               *)
Strays == IF mOpened THEN strays ELSE Astray(Opened(Space))
OpenedWell(o) ==
  /\ Good(o, Strays) /\ o.serial <= Top /\ o.queued = mPendingSpawns /\ o.doomed = mPendingRemove
  /\ SameHolding(Space, o)
  /\ mOpened \/ file = NoFile => o = Space
  /\ ~mOpened /\ file # NoFile => Loads(Space, o, file, Top, Strays)
LEMMA OpensWell ==
  ASSUME Inv
  PROVE  OpenedWell(Opened(Space)) /\ Strays \subseteq Ids
<1> DEFINE s == Space
<1>1. /\ Good(s, strays) /\ s.serial <= Top /\ s.queued = mPendingSpawns /\ s.doomed = mPendingRemove
      /\ strays \subseteq Ids
  BY SpaceIs DEF Inv, SpaceIsGood, Bounded, Flags
<1>2. CASE mOpened \/ file = NoFile
  <2>1. Opened(s) = s
    BY <1>2 DEF Opened
  <2>2. Strays = strays
    <3>1. CASE mOpened
      BY <3>1 DEF Strays
    <3>2. CASE ~mOpened
      <4>1. strays = {} /\ Docked(s.tree) = {}
        BY <3>2, SpaceIs, FreshHoldsNothing DEF Inv, NotYetWalked
      <4>2. Astray(s) = {}
        BY <4>1 DEF Astray
      <4> QED
        BY <2>1, <3>2, <4>1, <4>2 DEF Strays
    <3> QED
      BY <3>1, <3>2
  <2> HIDE DEF s
  <2>3. SameHolding(s, s)
    BY DEF SameHolding
  <2> QED
    BY <1>1, <1>2, <2>1, <2>2, <2>3 DEF OpenedWell, s
<1>3. CASE ~mOpened /\ file # NoFile
  <2> DEFINE o == LoadLayout(s, file)
  <2>1. Opened(s) = o /\ Strays = Astray(o)
    BY <1>3 DEF Opened, Strays
  <2>2. FileGood(file, Top) /\ Top \in Nat
    BY <1>3, DockSpaceAssumption DEF Inv, FileIsGood, Bounded, Top
  <2>3. s.hand.tab = NoPanel /\ s.seeded = {} /\ strays = {}
    BY <1>3, SpaceIs DEF Inv, NotYetWalked, EmptyHand
  <2> HIDE DEF s
  <2>4. Loads(s, o, file, Top, Strays)
    BY <1>1, <2>1, <2>2, <2>3, LoadLayoutLoads
  <2> HIDE DEF o
  <2>5. OpenedWell(o)
    BY <1>1, <1>3, <2>4 DEF Loads, OpenedWell, s
  <2>6. Strays \subseteq Ids
    <3>1. Docked(o.tree) \subseteq Ids
      BY <2>4, SoundIsSound DEF Loads, Good, Consistent
    <3> QED
      BY <2>1, <3>1 DEF Astray
  <2> QED
    BY <2>1, <2>5, <2>6 DEF s
<1> QED
  BY <1>2, <1>3

(* What a frame that walks does to the state.                               *)
Taken(u) ==
  /\ mContainers' = u.list /\ mTree' = u.tree /\ mGrid' = u.grid
  /\ mSeeded' = u.seeded /\ mSeedAnchor' = u.anchor /\ mSpawnCounter' = u.serial
  /\ mPendingRemove' = u.doomed /\ mPendingSpawns' = u.queued
  /\ hand' = u.hand /\ changed' = FALSE /\ mOpened' = TRUE /\ shown' = u.drawn
LEMMA WalkTakes ==
  ASSUME Inv, NEW in, Found(in), Walk(in)
  PROVE  /\ \E u : Walks(Opened(Space), u, in, Strays) /\ Shows(u, arrange = "panes", Strays) /\ Taken(u)
         /\ strays' = Strays
<1> DEFINE o == Opened(Space)
           u == IF arrange = "panes" THEN UpdatePanes(o, in) ELSE UpdateTiles(o, in)
<1>1. Good(o, Strays)
  BY OpensWell DEF OpenedWell
<1>2. Taken(u) /\ strays' = Strays
  BY DEF Walk, Taken, Strays
<1> HIDE DEF o
<1>3. CASE arrange = "panes"
  <2>1. u = UpdatePanes(o, in)
    BY <1>3
  <2> HIDE DEF u
  <2>2. Walks(o, UpdatePanes(o, in), in, Strays) /\ Shows(UpdatePanes(o, in), TRUE, Strays)
    BY <1>1, PanesWalk DEF Found
  <2>3. Walks(o, u, in, Strays) /\ Shows(u, arrange = "panes", Strays)
    BY <1>3, <2>1, <2>2 DEF Shows
  <2> QED
    BY <1>2, <2>3 DEF o
<1>4. CASE arrange # "panes"
  <2>1. u = UpdateTiles(o, in)
    BY <1>4
  <2> HIDE DEF u
  <2>2. Walks(o, UpdateTiles(o, in), in, Strays) /\ Shows(UpdateTiles(o, in), FALSE, Strays)
    BY <1>1, TilesWalk DEF Found
  <2>3. Walks(o, u, in, Strays) /\ Shows(u, arrange = "panes", Strays)
    BY <1>4, <2>1, <2>2 DEF Shows
  <2> QED
    BY <1>2, <2>3 DEF o
<1> QED
  BY <1>3, <1>4

Remade(u, c) == [list |-> u.list, tree |-> u.tree, grid |-> u.grid, seeded |-> u.seeded,
                 anchor |-> u.anchor, doomed |-> u.doomed, queued |-> u.queued, hand |-> u.hand,
                 changed |-> c, busy |-> FALSE, serial |-> u.serial, drawn |-> {}]
LEMMA RemadeIsGood ==
  ASSUME NEW A, NEW u, Good(u, A), NEW c \in BOOLEAN
  PROVE  Good(Remade(u, c), A)
<1> DEFINE v == Remade(u, c)
<1>1. /\ v \in Spaces /\ v.list = u.list /\ v.tree = u.tree /\ v.hand = u.hand /\ v.seeded = u.seeded
      /\ v.serial = u.serial /\ v.doomed = u.doomed
  BY DEF Good, Spaces, Remade
<1> HIDE DEF v
<1>2. Consistent(v, A)
  BY <1>1 DEF Good, Consistent, HintsDone, Numbered, Pointers
<1> QED
  BY <1>1, <1>2 DEF Good, v

(* A file stays readable as more panels are spawned.                        *)
LEMMA FileStaysGood ==
  ASSUME NEW f, NEW a \in Nat, NEW b \in Nat, a <= b, FileGood(f, a)
  PROVE  FileGood(f, b)
<1>1. \A n \in 1 .. 2 * MaxSpawns : Spawned(n) \in ToSet(f.names) => n <= b
  BY DockSpaceAssumption DEF FileGood
<1>2. f.count \in Nat /\ f.count <= b
  BY DEF FileGood
<1> QED
  BY <1>1, <1>2 DEF FileGood

LEMMA WalkKeeps ==
  ASSUME Inv, NEW in, Found(in), Walk(in), down' \in BOOLEAN, presses' \in Nat
  PROVE  Inv'
<1>1. PICK u : Walks(Opened(Space), u, in, Strays) /\ Taken(u) /\ strays' = Strays
  BY WalkTakes
<1>2. OpenedWell(Opened(Space)) /\ Strays \subseteq Ids
  BY OpensWell
<1> DEFINE o == Opened(Space)
<1>3. Good(u, Strays) /\ u.serial = o.serial
      /\ (u.queued = o.queued \/ (in.calls.what = "spawn" /\ u.queued = o.queued + 1))
  BY <1>1 DEF Walks
<1>4. o.serial <= Top /\ o.queued = mPendingSpawns /\ Good(o, Strays)
  BY <1>2 DEF OpenedWell
<1> HIDE DEF o
<1>5. Good(Space', strays')
  <2>1. Good(Remade(u, FALSE), Strays)
    BY <1>3, RemadeIsGood
  <2>2. Space' = Remade(u, FALSE)
    BY <1>1 DEF Taken, Remade, Space
  <2> QED
    BY <1>1, <2>1, <2>2
<1>6. u.serial \in Nat /\ u.queued \in Nat /\ u.drawn \subseteq Panels /\ o.queued \in Nat
  BY <1>3, <1>4, SpaceFields DEF Good
<1>7. /\ spawns' \in 0 .. MaxSpawns /\ spawns <= spawns' /\ spawns \in Nat
      /\ in.calls.what = "spawn" => spawns' = spawns + 1
  BY DockSpaceAssumption DEF Walk, Inv, Bounded
<1>8. Bounded'
  <2>1. mSpawnCounter' <= Top'
    BY <1>1, <1>3, <1>4, <1>6, <1>7, DockSpaceAssumption DEF Top, Taken
  <2>2. mPendingSpawns' <= spawns'
    BY <1>1, <1>3, <1>4, <1>6, <1>7 DEF Taken, Inv, Bounded
  <2> QED
    BY <1>7, <2>1, <2>2 DEF Bounded
<1>9. FileIsGood'
  <2>1. file' = file
    BY DEF Walk
  <2>2. Top \in Nat /\ Top' \in Nat /\ Top <= Top'
    BY <1>7, DockSpaceAssumption DEF Top
  <2> QED
    BY <2>1, <2>2, FileStaysGood DEF Inv, FileIsGood
<1>10. Flags' /\ mOpened'
  BY <1>1, <1>2, <1>6 DEF Flags, Taken, Walk, Inv
<1> QED
  BY <1>5, <1>8, <1>9, <1>10 DEF Inv, SpaceIsGood

LEMMA FrameKeeps == Inv /\ Frame => Inv'
<1> SUFFICES ASSUME Inv, Frame PROVE Inv'
  OBVIOUS
<1>1. presses \in Nat
  BY DEF Inv, Bounded
<1>2. CASE FramePress
  <2>1. PICK in \in Press : Walk(in)
    BY <1>2 DEF FramePress
  <2>2. Found(in) /\ down' \in BOOLEAN /\ presses' \in Nat
    BY <1>1, <1>2, InputsAre DEF FramePress
  <2> QED
    BY <2>1, <2>2, WalkKeeps
<1>3. CASE FrameHold
  <2>1. PICK in \in Hold : Walk(in)
    BY <1>3 DEF FrameHold
  <2>2. Found(in) /\ down' \in BOOLEAN /\ presses' \in Nat
    BY <1>1, <1>3, InputsAre DEF FrameHold
  <2> QED
    BY <2>1, <2>2, WalkKeeps
<1>4. CASE FrameRelease
  <2>1. PICK in \in Release : Walk(in)
    BY <1>4 DEF FrameRelease
  <2>2. Found(in) /\ down' \in BOOLEAN /\ presses' \in Nat
    BY <1>1, <1>4, InputsAre DEF FrameRelease
  <2> QED
    BY <2>1, <2>2, WalkKeeps
<1>5. CASE FrameIdle
  <2>1. PICK in \in Idle : Walk(in)
    BY <1>5 DEF FrameIdle
  <2>2. Found(in) /\ down' \in BOOLEAN /\ presses' \in Nat
    BY <1>1, <1>5, InputsAre DEF FrameIdle, Inv, Flags
  <2> QED
    BY <2>1, <2>2, WalkKeeps
<1>6. CASE FrameReuse
  BY <1>6 DEF FrameReuse, Inv, SpaceIsGood, Space, Bounded, Top, NotYetWalked, FileIsGood, Flags
<1> QED
  BY <1>2, <1>3, <1>4, <1>5, <1>6 DEF Frame

(* A panel spawned between two frames has a number no panel of the list     *)
(* has.                                                                     *)
LEMMA AppSpawnKeeps == Inv /\ AppSpawn => Inv'
<1> SUFFICES ASSUME Inv, AppSpawn PROVE Inv'
  OBVIOUS
<1> DEFINE s == Space
           k == mSpawnCounter + 1
           c == Spawned(k)
           u == [Adopt(s, c) EXCEPT !.serial = k]
<1>1. Good(s, strays) /\ s.serial = mSpawnCounter /\ s.list = mContainers /\ s.hand = hand /\ s \in Spaces
  BY SpaceIs DEF Inv, SpaceIsGood, Good
<1>2. mSpawnCounter \in Nat /\ spawns \in Nat /\ MaxSpawns \in Nat /\ spawns < MaxSpawns
  BY <1>1, SpaceFields, DockSpaceAssumption DEF AppSpawn, Inv, Bounded
<1>3. k \in 1 .. 2 * MaxSpawns /\ k \in Nat /\ mSpawnCounter <= MaxSpawns + spawns
  BY <1>2 DEF Inv, Bounded, Top
<1>4. c \in Panels /\ \A n \in 1 .. 2 * MaxSpawns : Spawned(n) = c => n <= k
  BY <1>3, SpawnedIs
<1>5. c \notin Names(s.list)
  BY <1>1, <1>2, <1>3 DEF Good, Consistent, Numbered
<1>6. Adopts(s, u, c, k, strays)
  <2> HIDE DEF s, c
  <2> QED
    BY <1>1, <1>2, <1>3, <1>4, <1>5, AdoptAdopts
<1>7. Spawn(s, FALSE) = u
  <2> DEFINE a == Adopt(s, c)
  <2>1. a.serial = s.serial
    BY <1>1 DEF Adopt, StructuralChange, Spaces
  <2>2. Spawn(s, FALSE) = [Adopt(s, Spawned(s.serial + 1)) EXCEPT !.serial = @ + 1]
    BY DEF Spawn
  <2>3. Spawn(s, FALSE) = [a EXCEPT !.serial = @ + 1]
    BY <1>1, <2>2
  <2> HIDE DEF a, s
  <2>4. Spawn(s, FALSE) = [a EXCEPT !.serial = k]
    BY <1>1, <2>1, <2>3
  <2> QED
    BY <2>4 DEF a
<1> HIDE DEF u
<1>8. mContainers' = u.list /\ mSpawnCounter' = u.serial /\ hand' = u.hand /\ changed' = u.changed
  BY <1>7 DEF AppSpawn
<1> HIDE DEF s, c
<1>9. Good(u, strays) /\ u.changed \in BOOLEAN /\ Names(mContainers) \subseteq Names(u.list) /\ u.hand \in Hands
      /\ u.tree = mTree /\ u.grid = mGrid /\ u.seeded = mSeeded /\ u.doomed = mPendingRemove
      /\ u.queued = mPendingSpawns /\ u.serial = k
  BY <1>1, <1>6, SpaceFields, SpaceIs DEF Adopts, Good, s
<1>10. Space' \in Spaces
  <2>1. u \in Spaces
    BY <1>9 DEF Good
  <2>2. mSeedAnchor \in [Slots -> Somebody]
    BY <1>1, SpaceFields, SpaceIs DEF s
  <2>3. Space' = [list |-> u.list, tree |-> u.tree, grid |-> u.grid, seeded |-> u.seeded,
                  anchor |-> mSeedAnchor, doomed |-> u.doomed, queued |-> u.queued, hand |-> u.hand,
                  changed |-> u.changed, busy |-> FALSE, serial |-> u.serial, drawn |-> {}]
    BY <1>8, <1>9 DEF AppSpawn, Space
  <2> QED
    BY <2>1, <2>2, <2>3 DEF Spaces
<1>11. Space'.list = u.list /\ Space'.tree = u.tree /\ Space'.hand = u.hand /\ Space'.seeded = u.seeded
       /\ Space'.serial = u.serial /\ Space'.doomed = u.doomed
  BY <1>8, <1>9 DEF AppSpawn, Space
<1>12. Good(Space', strays')
  <2>1. Consistent(u, strays) /\ strays' = strays
    BY <1>9 DEF Good, AppSpawn
  <2> QED
    BY <1>10, <1>11, <2>1 DEF Good, Consistent, HintsDone, Numbered, Pointers
<1>13. Bounded' /\ Top' = Top + 1
  <2>1. spawns' = spawns + 1 /\ mPendingSpawns' = mPendingSpawns /\ presses' = presses
    BY DEF AppSpawn
  <2>2. u.serial <= Top' /\ Top' = Top + 1 /\ spawns' \in 0 .. MaxSpawns
    BY <1>2, <1>3, <1>9, <2>1 DEF Top
  <2>3. mPendingSpawns \in Nat /\ mPendingSpawns <= spawns
    BY <1>1, SpaceFields, SpaceIs DEF Inv, Bounded, s
  <2> QED
    BY <1>2, <1>8, <2>1, <2>2, <2>3 DEF Bounded, Inv
<1>14. (~mOpened => NotYetWalked)'
  <2> SUFFICES ASSUME ~mOpened PROVE NotYetWalked'
    BY DEF AppSpawn
  <2>1. hand = EmptyHand /\ mGrid = <<>> /\ ~down /\ mTree = FreshTree /\ mSeeded = {} /\ strays = {}
    BY DEF Inv, NotYetWalked
  <2>2. u.hand = EmptyHand
    BY <1>1, <1>6, <1>9, <2>1 DEF Adopts, SameHolding, Hands, EmptyHand
  <2> QED
    BY <1>8, <1>9, <2>1, <2>2 DEF AppSpawn, NotYetWalked
<1>15. FileIsGood'
  <2>1. Top \in Nat /\ Top' \in Nat /\ Top <= Top' /\ file' = file
    BY <1>2, <1>13 DEF Top, AppSpawn
  <2> QED
    BY <2>1, FileStaysGood DEF Inv, FileIsGood
<1>16. Flags'
  BY DEF AppSpawn, Inv, Flags
<1> QED
  BY <1>12, <1>13, <1>14, <1>15, <1>16 DEF Inv, SpaceIsGood

LEMMA AppRemoveKeeps ==
  ASSUME Inv, NEW c, AppRemove(c)
  PROVE  Inv'
<1>1. /\ mPendingRemove' = c /\ c \in Names(mContainers)
      /\ UNCHANGED <<arrange, mContainers, mTree, mGrid, mSeeded, mSeedAnchor, mSpawnCounter, mPendingSpawns,
                     hand, down, changed, mOpened, file, strays, shown, spawns, restarts, presses>>
  BY DEF AppRemove
<1> DEFINE u == [Space EXCEPT !.doomed = c]
<1>2. Good(Space, strays) /\ Space.list = mContainers
  BY SpaceIs DEF Inv, SpaceIsGood
<1>3. c \in Panels /\ c \in Somebody
  BY <1>1, <1>2, SpaceFields, NamesAre DEF Good, Somebody
<1>4. Space' = u
  <2> DEFINE s == Space
  <2>1. s \in Spaces
    BY <1>2 DEF Good
  <2>2. Space' = [list |-> s.list, tree |-> s.tree, grid |-> s.grid, seeded |-> s.seeded,
                  anchor |-> s.anchor, doomed |-> c, queued |-> s.queued, hand |-> s.hand,
                  changed |-> s.changed, busy |-> s.busy, serial |-> s.serial, drawn |-> s.drawn]
    BY <1>1 DEF Space
  <2> HIDE DEF s
  <2>3. [s EXCEPT !.doomed = c]
           = [list |-> s.list, tree |-> s.tree, grid |-> s.grid, seeded |-> s.seeded,
              anchor |-> s.anchor, doomed |-> c, queued |-> s.queued, hand |-> s.hand,
              changed |-> s.changed, busy |-> s.busy, serial |-> s.serial, drawn |-> s.drawn]
    BY <2>1 DEF Spaces
  <2> QED
    BY <2>2, <2>3 DEF s
<1>5. /\ u \in Spaces /\ SameRest(Space, u) /\ u.seeded = Space.seeded /\ u.tree = Space.tree
      /\ u.hand = Space.hand /\ u.doomed = c
  BY <1>2, <1>3, SetDoomedIs DEF Good
<1> HIDE DEF u
<1>6. Good(u, strays)
  <2>1. Consistent(u, strays)
    BY <1>1, <1>2, <1>5 DEF Good, Consistent, HintsDone, Numbered, Pointers, SameRest
  <2> QED
    BY <1>5, <2>1 DEF Good
<1>7. SpaceIsGood'
  BY <1>1, <1>4, <1>6 DEF SpaceIsGood
<1> QED
  BY <1>1, <1>7 DEF Inv, Bounded, Top, NotYetWalked, FileIsGood, Flags

(* What is saved can be read again, by the same run's numbers.              *)
LEMMA TilesAreWritten ==
  ASSUME NEW g \in Grids
  PROVE  g \in Seq(Written) /\ TilesAreOwn(g)
<1>1. g \in Seq(Tiles) /\ TilesAreOwn(g)
  BY DEF Grids
<1>2. \A x \in Tiles : x \in Written
  BY DEF Tiles, Written
<1>3. \A i \in 1 .. Len(g) : g[i] \in Written
  BY <1>1, <1>2
<1> QED
  BY <1>1, <1>3

LEMMA SavedParts ==
  ASSUME Inv
  PROVE  /\ mContainers \in Seq(Panels) /\ mGrid \in Seq(Tiles) /\ mGrid \in Seq(Written)
         /\ TilesAreOwn(mGrid) /\ Readable(mTree, Ids) /\ Top \in Nat
         /\ \A n \in 1 .. 2 * MaxSpawns : Spawned(n) \in ToSet(mContainers) => n <= Top
<1>1. Good(Space, strays)
  BY DEF Inv, SpaceIsGood
<1>2. mContainers \in Seq(Panels) /\ mGrid \in Grids /\ Readable(mTree, Ids) /\ mSpawnCounter \in Nat
  BY <1>1, SpaceFields, SpaceIs DEF Good
<1>3. Top \in Nat
  BY DockSpaceAssumption DEF Inv, Bounded, Top
<1>4. \A n \in 1 .. 2 * MaxSpawns : Spawned(n) \in ToSet(mContainers) => n <= Top
  <2> SUFFICES ASSUME NEW n \in 1 .. 2 * MaxSpawns, Spawned(n) \in ToSet(mContainers) PROVE n <= Top
    OBVIOUS
  <2>1. n <= mSpawnCounter
    BY <1>1, SpaceIs DEF Good, Consistent, Numbered, Names
  <2> QED
    BY <1>2, <1>3, <2>1 DEF Inv, Bounded
<1>5. mGrid \in Seq(Tiles) /\ mGrid \in Seq(Written) /\ TilesAreOwn(mGrid)
  BY <1>2, TilesAreWritten DEF Grids
<1> QED
  BY <1>2, <1>3, <1>4, <1>5

LEMMA SavedIsGood ==
  ASSUME Inv
  PROVE  FileGood(Saved, Top)
BY SavedParts DEF FileGood, Saved

(* So can every shortening of it.                                           *)
Short(f, tree, grid, names, count) ==
  /\ f.legacy = FALSE /\ f.reach = "tree" /\ f.tree = tree /\ f.grid = grid
  /\ f.names = names /\ f.count = count
LEMMA ShortIsGood ==
  ASSUME Inv, NEW tree, Readable(tree, Ids), NEW grid \in Seq(Written), TilesAreOwn(grid),
         NEW names \in Seq(Panels), ToSet(names) \subseteq ToSet(mContainers) \union Declared,
         NEW count \in Nat, count <= Top, NEW f, Short(f, tree, grid, names, count)
  PROVE  FileGood(f, Top)
<1>1. \A n \in 1 .. 2 * MaxSpawns : Spawned(n) \in ToSet(names) => n <= Top
  <2> SUFFICES ASSUME NEW n \in 1 .. 2 * MaxSpawns, Spawned(n) \in ToSet(names) PROVE n <= Top
    OBVIOUS
  <2>1. Spawned(n) \notin Declared
    BY SpawnedIs, DockSpaceAssumption
  <2> QED
    BY <2>1, SavedParts
<1> QED
  BY <1>1 DEF FileGood, Short

LEMMA LinesAre ==
  ASSUME NEW k
  PROVE  Lines(Saved, k) \in [legacy : {FALSE}, slots : {<<>>}, tree : {mTree}, grid : {mGrid},
                              names : {SubSeq(mContainers, 1, k)}, count : {0}, reach : {"tree"}]
<1>1. Saved \in [legacy : {FALSE}, slots : {<<>>}, tree : {mTree}, grid : {mGrid},
                  names : {mContainers}, count : {0}, reach : {"whole"}]
  BY DEF Saved
<1> DEFINE s == Saved
           l == SubSeq(mContainers, 1, k)
<1>2. Lines(s, k) = [s EXCEPT !.reach = "tree", !.names = l]
  BY <1>1 DEF Lines
<1> HIDE DEF s, l
<1>3. [s EXCEPT !.reach = "tree", !.names = l]
        \in [legacy : {FALSE}, slots : {<<>>}, tree : {mTree}, grid : {mGrid},
              names : {l}, count : {0}, reach : {"tree"}]
  BY <1>1 DEF s
<1> QED
  BY <1>2, <1>3 DEF s, l

(* The first names of the list are names of the list.                       *)
LEMMA FirstNames ==
  ASSUME Inv, NEW k \in 0 .. Len(mContainers)
  PROVE  /\ SubSeq(mContainers, 1, k) \in Seq(Panels)
         /\ ToSet(SubSeq(mContainers, 1, k)) \subseteq ToSet(mContainers)
<1> DEFINE l == SubSeq(mContainers, 1, k)
<1>1. mContainers \in Seq(Panels)
  BY SavedParts
<1>2. l \in Seq(Panels) /\ Len(l) = k /\ \A i \in 1 .. k : l[i] = mContainers[i]
  BY <1>1
<1> HIDE DEF l
<1>3. ToSet(l) = {l[i] : i \in 1 .. Len(l)} /\ ToSet(mContainers) = {mContainers[i] : i \in 1 .. Len(mContainers)}
  BY <1>1, <1>2, ToSetOf
<1>4. ToSet(l) \subseteq ToSet(mContainers)
  BY <1>1, <1>2, <1>3
<1> QED
  BY <1>2, <1>4 DEF l

LEMMA NoNames ==
  ASSUME Inv
  PROVE  SubSeq(mContainers, 1, 0) \in Seq(Panels) /\ ToSet(SubSeq(mContainers, 1, 0)) \subseteq ToSet(mContainers)
<1>1. 0 \in 0 .. Len(mContainers)
  BY SavedParts
<1> QED
  BY <1>1, FirstNames

LEMMA CutTabsAre ==
  ASSUME NEW tabs \in Seq(Ids), NEW some \in CutTabs(tabs)
  PROVE  some \in Seq(Ids)
<1>1. \A k \in 0 .. Len(tabs) - 1 : SubSeq(tabs, 1, k) \in Seq(Ids)
  OBVIOUS
<1>2. Stumps \subseteq Ids
  BY DEF Ids
<1> DEFINE begun == {SubSeq(tabs, 1, k) : k \in 0 .. Len(tabs) - 1}
<1>3. begun \subseteq Seq(Ids)
  BY <1>1
<1>4. some \in begun \/ \E b \in begun, stump \in Stumps : some = Append(b, stump)
  <2> HIDE DEF begun
  <2>1. some \in begun \union {Append(b, stump) : b \in begun, stump \in Stumps}
    BY DEF CutTabs, begun
  <2> QED
    BY <2>1
<1> HIDE DEF begun
<1> QED
  BY <1>2, <1>3, <1>4

LEMMA CutInTreeIsGood ==
  ASSUME Inv, NEW f \in CutInTree(Saved)
  PROVE  FileGood(f, Top)
<1>1. Saved.tree = mTree
  BY DEF Saved
<1>2. PICK tabs \in CutTabs(mTree.node[Last(Gather(mTree))].tabs) :
        f = [Lines(Saved, 0) EXCEPT !.tree = CutPane(@, tabs), !.grid = <<>>]
  BY <1>1 DEF CutInTree
<1>3. Short(f, CutPane(mTree, tabs), <<>>, SubSeq(mContainers, 1, 0), 0)
  <2> DEFINE l == Lines(Saved, 0)
             cut == CutPane(l.tree, tabs)
  <2>1. f = [l EXCEPT !.tree = cut, !.grid = <<>>]
    BY <1>2
  <2>2. l \in [legacy : {FALSE}, slots : {<<>>}, tree : {mTree}, grid : {mGrid},
                names : {SubSeq(mContainers, 1, 0)}, count : {0}, reach : {"tree"}]
    BY LinesAre
  <2> HIDE DEF l
  <2>3. cut = CutPane(mTree, tabs)
    BY <2>2
  <2> HIDE DEF cut
  <2> QED
    BY <2>1, <2>2, <2>3 DEF Short
<1>4. Readable(mTree, Ids) /\ Shaped(mTree, Ids) /\ 0 <= Top
  BY SavedParts DEF Readable
<1>5. mTree.node[Last(Gather(mTree))].tabs \in Seq(Ids)
  <2>1. Gather(mTree) \in Seq(Live(mTree) \ Splits(mTree)) /\ Gather(mTree) # <<>>
    BY <1>4, GatherGathers
  <2>2. Last(Gather(mTree)) \in Live(mTree)
    BY <2>1 DEF Last
  <2> QED
    BY <1>4, <2>2, NodeTyped
<1>6. Readable(CutPane(mTree, tabs), Ids)
  BY <1>2, <1>4, <1>5, CutTabsAre, CutPaneIs
<1>7. <<>> \in Seq(Written) /\ TilesAreOwn(<<>>)
  BY DEF TilesAreOwn
<1> QED
  BY <1>3, <1>4, <1>6, <1>7, NoNames, ShortIsGood

LEMMA CutInTilesIsGood ==
  ASSUME Inv, NEW f \in CutInTiles(Saved)
  PROVE  FileGood(f, Top)
<1>1. Saved.grid = mGrid
  BY DEF Saved
<1>2. PICK g \in CutGrids(mGrid) : f = [Lines(Saved, 0) EXCEPT !.grid = g]
  BY <1>1 DEF CutInTiles
<1>3. Short(f, mTree, g, SubSeq(mContainers, 1, 0), 0)
  <2> DEFINE l == Lines(Saved, 0)
  <2>1. l \in [legacy : {FALSE}, slots : {<<>>}, tree : {mTree}, grid : {mGrid},
                names : {SubSeq(mContainers, 1, 0)}, count : {0}, reach : {"tree"}]
    BY LinesAre
  <2>2. f = [l EXCEPT !.grid = g]
    BY <1>2
  <2> HIDE DEF l
  <2> QED
    BY <2>1, <2>2 DEF Short
<1>4. g \in Seq(Written) /\ TilesAreOwn(g)
  <2>1. CASE g = <<>>
    BY <2>1 DEF TilesAreOwn
  <2>2. CASE g # <<>>
    <3>1. PICK k \in DOMAIN mGrid : \E x \in CutTile(mGrid[k]) : g = Append(SubSeq(mGrid, 1, k - 1), x)
      BY <2>2 DEF CutGrids
    <3>2. PICK x \in CutTile(mGrid[k]) : g = Append(SubSeq(mGrid, 1, k - 1), x)
      BY <3>1
    <3>3. mGrid \in Seq(Written) /\ TilesAreOwn(mGrid) /\ k \in 1 .. Len(mGrid) /\ mGrid[k] \in Written
      BY <3>1, SavedParts
    <3>4. PICK n \in Digits(mGrid[k].rows) : x = [mGrid[k] EXCEPT !.rows = n]
      BY <3>2 DEF CutTile
    <3>5. n \in Int
      BY <3>3, <3>4 DEF Digits, Written
    <3>6. x \in Written /\ x.id = mGrid[k].id
      BY <3>3, <3>4, <3>5 DEF Written
    <3> DEFINE a == SubSeq(mGrid, 1, k - 1)
    <3>7. a \in Seq(Written) /\ Len(a) = k - 1 /\ \A i \in 1 .. k - 1 : a[i] = mGrid[i]
      BY <3>3
    <3> HIDE DEF a
    <3>8. g \in Seq(Written) /\ Len(g) = k /\ \A i \in 1 .. k : g[i] = IF i = k THEN x ELSE a[i]
      BY <3>2, <3>3, <3>6, <3>7 DEF a
    <3>9. \A i \in 1 .. k : g[i].id = mGrid[i].id
      BY <3>6, <3>7, <3>8
    <3>10. TilesAreOwn(g)
      BY <3>3, <3>8, <3>9 DEF TilesAreOwn
    <3> QED
      BY <3>8, <3>10
  <2> QED
    BY <2>1, <2>2
<1>5. Readable(mTree, Ids) /\ 0 <= Top
  BY SavedParts
<1> QED
  BY <1>3, <1>4, <1>5, NoNames, ShortIsGood

LEMMA LeftOfIs ==
  ASSUME Inv, NEW c \in ToSet(mContainers), NEW n \in LeftOf(c)
  PROVE  n \in Nat /\ n <= Top
<1>1. Top \in Nat
  BY SavedParts
<1>2. CASE n = 0
  BY <1>1, <1>2
<1>3. CASE c \in SpawnIds /\ n \in Digits(c[2])
  <2>1. PICK m \in 1 .. 2 * MaxSpawns : c = Spawned(m)
    BY <1>3 DEF SpawnIds
  <2>2. c[2] = m /\ m <= Top /\ m \in Nat
    BY <2>1, SpawnedIs, SavedParts
  <2>3. n = m \div 1 \/ n = m \div 10 \/ n = m \div 100
    BY <1>3, <2>2 DEF Digits
  <2> QED
    BY <1>1, <2>2, <2>3
<1> QED
  BY <1>2, <1>3 DEF LeftOf

LEMMA CutInNamesIsGood ==
  ASSUME Inv, NEW f \in CutInNames(Saved)
  PROVE  FileGood(f, Top)
<1>1. Saved.names = mContainers
  BY DEF Saved
<1>2. PICK k \in 0 .. Len(mContainers) - 1 :
        \/ \E n \in LeftOf(mContainers[k + 1]) : f = [Lines(Saved, k) EXCEPT !.count = n]
        \/ \E c \in Stumps \intersect Declared : f = [Lines(Saved, k) EXCEPT !.names = Append(@, c)]
  <2> DEFINE counted(k) == {[Lines(Saved, k) EXCEPT !.count = n] : n \in LeftOf(Saved.names[k + 1])}
             spelled(k) == {[Lines(Saved, k) EXCEPT !.names = Append(@, c)] : c \in Stumps \intersect Declared}
  <2>1. f \in UNION {counted(k) \union spelled(k) : k \in 0 .. Len(Saved.names) - 1}
    BY DEF CutInNames
  <2> HIDE DEF counted, spelled
  <2>2. PICK k \in 0 .. Len(mContainers) - 1 : f \in counted(k) \/ f \in spelled(k)
    BY <1>1, <2>1
  <2>3. f \in counted(k) => \E n \in LeftOf(mContainers[k + 1]) : f = [Lines(Saved, k) EXCEPT !.count = n]
    BY <1>1 DEF counted
  <2>4. f \in spelled(k) => \E c \in Stumps \intersect Declared : f = [Lines(Saved, k) EXCEPT !.names = Append(@, c)]
    BY DEF spelled
  <2> QED
    BY <2>2, <2>3, <2>4
<1> DEFINE l == SubSeq(mContainers, 1, k)
           m == Lines(Saved, k)
<1>3. m \in [legacy : {FALSE}, slots : {<<>>}, tree : {mTree}, grid : {mGrid},
              names : {l}, count : {0}, reach : {"tree"}]
  BY LinesAre
<1>4. mContainers \in Seq(Panels) /\ k \in 0 .. Len(mContainers) /\ k + 1 \in 1 .. Len(mContainers)
  BY SavedParts
<1>5. l \in Seq(Panels) /\ ToSet(l) \subseteq ToSet(mContainers)
  BY <1>4, FirstNames
<1>6. Readable(mTree, Ids) /\ mGrid \in Seq(Written) /\ TilesAreOwn(mGrid) /\ Top \in Nat /\ 0 <= Top
  BY SavedParts
<1> HIDE DEF l, m
<1>7. CASE \E n \in LeftOf(mContainers[k + 1]) : f = [Lines(Saved, k) EXCEPT !.count = n]
  <2>1. PICK n \in LeftOf(mContainers[k + 1]) : f = [Lines(Saved, k) EXCEPT !.count = n]
    BY <1>7
  <2>2. mContainers[k + 1] \in ToSet(mContainers)
    BY <1>4, ToSetOf
  <2>3. n \in Nat /\ n <= Top
    BY <2>1, <2>2, LeftOfIs
  <2>4. Short(f, mTree, mGrid, l, n)
    <3>1. f = [m EXCEPT !.count = n]
      BY <2>1 DEF m
    <3> QED
      BY <1>3, <3>1 DEF Short
  <2> QED
    BY <1>5, <1>6, <2>3, <2>4, ShortIsGood
<1>8. CASE \E c \in Stumps \intersect Declared : f = [Lines(Saved, k) EXCEPT !.names = Append(@, c)]
  <2>1. PICK c \in Stumps \intersect Declared : f = [Lines(Saved, k) EXCEPT !.names = Append(@, c)]
    BY <1>8
  <2>2. Short(f, mTree, mGrid, Append(l, c), 0)
    <3> DEFINE a == Append(m.names, c)
    <3>1. f = [m EXCEPT !.names = a]
      BY <2>1 DEF m
    <3>2. a = Append(l, c)
      BY <1>3
    <3> HIDE DEF a
    <3> QED
      BY <1>3, <3>1, <3>2 DEF Short
  <2>3. c \in Panels
    BY <2>1 DEF Panels
  <2>4. Append(l, c) \in Seq(Panels) /\ ToSet(Append(l, c)) \subseteq ToSet(mContainers) \union Declared
    <3> DEFINE a == Append(l, c)
    <3>1. a \in Seq(Panels) /\ Len(a) = Len(l) + 1 /\ \A i \in 1 .. Len(a) : a[i] = c \/ (i \in 1 .. Len(l) /\ a[i] = l[i])
      BY <1>5, <2>3
    <3> HIDE DEF a
    <3>2. ToSet(a) = {a[i] : i \in 1 .. Len(a)} /\ ToSet(l) = {l[i] : i \in 1 .. Len(l)}
      BY <1>5, <3>1, ToSetOf
    <3>3. ToSet(a) \subseteq ToSet(l) \union {c}
      BY <3>1, <3>2
    <3> QED
      BY <1>5, <2>1, <3>1, <3>3 DEF a
  <2> QED
    BY <1>6, <2>2, <2>4, ShortIsGood
<1> QED
  BY <1>2, <1>7, <1>8

LEMMA CutsAreGood ==
  ASSUME Inv, NEW f \in Cuts(Saved)
  PROVE  FileGood(f, Top)
<1>1. CASE f \in CutAtOnce(Saved)
  <2>1. /\ f.names = <<>> /\ f.grid = <<>> /\ f.reach = "nothing" /\ f.legacy = FALSE /\ f.count = 0
    BY <1>1 DEF CutAtOnce, Saved
  <2>2. <<>> \in Seq(Panels) /\ <<>> \in Seq(Written) /\ TilesAreOwn(<<>>) /\ ToSet(<<>>) = {}
    BY DEF TilesAreOwn, ToSet
  <2>3. Top \in Nat
    BY SavedParts
  <2> QED
    BY <2>1, <2>2, <2>3 DEF FileGood
<1> QED
  BY <1>1, CutInTreeIsGood, CutInTilesIsGood, CutInNamesIsGood DEF Cuts

LEMMA StartKeeps ==
  ASSUME Inv, NEW l \in Layouts, Start(l),
         file' = NoFile \/ FileGood(file', Top),
         UNCHANGED <<spawns, removals, presses>>
  PROVE  Inv'
<1>1. Good(Fresh(l), {})
  BY FreshIsGood
<1>2. Space' = Fresh(l) /\ strays' = {}
  BY DEF Start, Space, Fresh
<1>3. Bounded' /\ Top' = Top
  BY DockSpaceAssumption DEF Start, Inv, Bounded, Top
<1>4. NotYetWalked'
  BY DEF Start, NotYetWalked
<1>5. Flags'
  BY DEF Start, Inv, Flags
<1>6. FileIsGood'
  BY <1>3 DEF FileIsGood
<1> QED
  BY <1>1, <1>2, <1>3, <1>4, <1>5, <1>6 DEF Inv, SpaceIsGood

LEMMA ReloadKeeps ==
  ASSUME Inv, NEW l \in Layouts, Reload(l) \/ Crash(l)
  PROVE  Inv'
<1>1. /\ Start(l) /\ UNCHANGED <<spawns, removals, presses>>
      /\ file' \in {file, Saved} \union Cuts(Saved)
  BY DEF Reload, Crash
<1>2. file' = NoFile \/ FileGood(file', Top)
  BY <1>1, SavedIsGood, CutsAreGood DEF Inv, FileIsGood
<1> QED
  BY <1>1, <1>2, StartKeeps

LEMMA InvStep == Inv /\ [Next]_vars => Inv'
<1> SUFFICES ASSUME Inv, [Next]_vars PROVE Inv'
  OBVIOUS
<1>1. CASE \E c \in Panels : AppRemove(c)
  BY <1>1, AppRemoveKeeps
<1>2. CASE \E l \in Layouts : Reload(l) \/ Crash(l)
  BY <1>2, ReloadKeeps
<1>3. CASE UNCHANGED vars
  BY <1>3 DEF vars, Inv, SpaceIsGood, Space, Bounded, Top, NotYetWalked, FileIsGood, Flags
<1> QED
  BY <1>1, <1>2, <1>3, FrameKeeps, AppSpawnKeeps DEF Next

LEMMA InvIsSound == Inv => PanesAreSound
<1> SUFFICES ASSUME Inv PROVE PanesAreSound
  OBVIOUS
<1>1. Good(Space, strays) /\ Space \in Spaces /\ Consistent(Space, strays) /\ Sound(mTree, Ids, strays)
  BY SpaceIs DEF Inv, SpaceIsGood, Good, Consistent
<1>2. /\ mContainers \in Seq(Panels) /\ IsInjective(mContainers) /\ mGrid \in Grids
      /\ mSeeded \subseteq Panels /\ mSeedAnchor \in [Slots -> Somebody] /\ mPendingRemove \in Somebody
      /\ mPendingSpawns \in Nat /\ hand \in Hands /\ mSpawnCounter \in Nat /\ changed \in BOOLEAN
  BY <1>1, SpaceFields, SpaceIs
<1>3. SoundTree(mTree, strays) /\ Docked(mTree) \subseteq Ids /\ Live(mTree) \subseteq Nat \ {0}
  BY <1>1, SoundIsSound
<1>4. TypeOK
  <2>1. Names(mContainers) \subseteq Panels
    BY <1>2, NamesAre
  <2>2. \A i \in DOMAIN mGrid : mGrid[i].id \in Panels
    <3>1. mGrid \in Seq(Tiles)
      BY <1>2 DEF Grids
    <3>2. \A i \in DOMAIN mGrid : mGrid[i] \in Tiles
      BY <3>1
    <3> QED
      BY <3>2, TileTyped
  <2>3. mSpawnCounter \in 0 .. 2 * MaxSpawns /\ mPendingSpawns \in 0 .. MaxSpawns
    BY <1>2, DockSpaceAssumption DEF Inv, Bounded, Top
  <2> QED
    BY <1>2, <1>3, <2>1, <2>2, <2>3 DEF TypeOK, Inv, Flags, Somebody
<1>5. NothingDangles
  BY <1>1, <1>2, SpaceIs DEF NothingDangles, Consistent, Pointers, IsSplit, Splits
<1> QED
  BY <1>3, <1>4, <1>5 DEF PanesAreSound, TreeIsSound

\* A space stays consistent, and the file readable.
THEOREM InvHolds == Spec => []Inv
BY InvInit, InvStep, PTL DEF Spec

\* The panes are sound whenever a frame has ended and nothing kept across frames
\* points at what is gone -- for any panels, hints, files, cuts, layouts reloaded and
\* closes, but for the panels a file led astray, which may be in two panes.
THEOREM PanesStaySound == Spec => []PanesAreSound
BY InvHolds, InvIsSound, PTL

-----------------------------------------------------------------------------
(* What one step may change.                                                *)
FoundBy(in) ==
  /\ Found(in) /\ Walk(in)
  /\ in.released => ~down'
  /\ in.pressed => presses' > presses
  /\ ~down => in.calls.what = "nothing"
LEMMA FramesWalk ==
  ASSUME Inv, Frame
  PROVE  FrameReuse \/ \E in : FoundBy(in)
<1>1. presses \in Nat
  BY DEF Inv, Bounded
<1>2. CASE FramePress
  BY <1>1, <1>2, InputsAre DEF FramePress, FoundBy
<1>3. CASE FrameHold
  BY <1>3, InputsAre DEF FrameHold, FoundBy
<1>4. CASE FrameRelease
  BY <1>4, InputsAre DEF FrameRelease, FoundBy
<1>5. CASE FrameIdle
  BY <1>5, InputsAre DEF FrameIdle, FoundBy
<1> QED
  BY <1>2, <1>3, <1>4, <1>5 DEF Frame

(* Every other step leaves the tree and the grid alone, or begins anew.     *)
Leaves == /\ mTree' = mTree /\ mGrid' = mGrid /\ mOpened' = mOpened
Begins == mOpened' = FALSE /\ mGrid' = <<>>
LEMMA StepsAre ==
  ASSUME Inv, [Next]_vars
  PROVE  Leaves \/ Begins \/ \E in : FoundBy(in)
<1>1. CASE Frame
  <2>1. FrameReuse => Leaves
    BY DEF FrameReuse, Leaves
  <2> QED
    BY <1>1, <2>1, FramesWalk
<1>2. CASE AppSpawn
  BY <1>2 DEF AppSpawn, Leaves
<1>3. CASE \E c \in Panels : AppRemove(c)
  BY <1>3 DEF AppRemove, Leaves
<1>4. CASE \E l \in Layouts : Reload(l) \/ Crash(l)
  BY <1>4 DEF Reload, Crash, Start, Begins
<1>5. CASE UNCHANGED vars
  BY <1>5 DEF vars, Leaves
<1> QED
  BY <1>1, <1>2, <1>3, <1>4, <1>5 DEF Next

(* Every panel is on the screen or behind the tab of one that is.           *)
PanelsShow ==
  ~changed /\ shown \subseteq Names(mContainers) =>
    \A c \in Names(mContainers) :
      \/ c \in shown
      \/ arrange = "panes" /\ LeafFor(mTree, c) # Null
         /\ ActiveTab(mTree.node[LeafFor(mTree, c)]) \in shown \union strays
LEMMA WalkShows ==
  ASSUME Inv, NEW in, Found(in), Walk(in)
  PROVE  PanelsShow'
<1>1. PICK u : Shows(u, arrange = "panes", Strays) /\ Taken(u) /\ strays' = Strays
  BY WalkTakes
<1>2. arrange' = arrange
  BY DEF Walk
<1> QED
  BY <1>1, <1>2 DEF Shows, Taken, PanelsShow
LEMMA ShowStep == Inv /\ PanelsShow /\ [Next]_vars => PanelsShow'
<1> SUFFICES ASSUME Inv, PanelsShow, [Next]_vars PROVE PanelsShow'
  OBVIOUS
<1>1. CASE Frame
  <2>1. FrameReuse => PanelsShow'
    BY DEF FrameReuse, PanelsShow
  <2> QED
    BY <1>1, <2>1, FramesWalk, WalkShows DEF FoundBy
<1>2. CASE AppSpawn
  <2> DEFINE c == Spawned(Space.serial + 1)
  <2>1. Space \in Spaces /\ changed' = Spawn(Space, FALSE).changed
    BY <1>2 DEF Inv, SpaceIsGood, Good, AppSpawn
  <2>2. Spawn(Space, FALSE).changed = Adopt(Space, c).changed
    <3> DEFINE a == Adopt(Space, c)
    <3>1. Spawn(Space, FALSE) = [a EXCEPT !.serial = @ + 1]
      BY DEF Spawn
    <3> HIDE DEF a
    <3>2. [a EXCEPT !.serial = @ + 1].changed = a.changed
      OBVIOUS
    <3> QED
      BY <3>1, <3>2 DEF a
  <2>3. Adopt(Space, c).changed = TRUE
    <3> DEFINE s == Space
    <3> HIDE DEF s
    <3>1. Adopt(s, c).changed = TRUE
      BY <2>1 DEF Adopt, StructuralChange, Spaces, s
    <3> QED
      BY <3>1 DEF s
  <2> QED
    BY <2>1, <2>2, <2>3 DEF PanelsShow
<1>3. CASE \E c \in Panels : AppRemove(c)
  BY <1>3 DEF AppRemove, PanelsShow
<1>4. CASE \E l \in Layouts : Reload(l) \/ Crash(l)
  BY <1>4 DEF Reload, Crash, Start, PanelsShow
<1>5. CASE UNCHANGED vars
  BY <1>5 DEF vars, PanelsShow
<1> QED
  BY <1>1, <1>2, <1>3, <1>4, <1>5 DEF Next

\* While nothing is due to be drawn, no panel is missing from the screen, for any
\* panels, presses, drops, closes and files, cut short or not -- but for what a close
\* at the end of the last walk uncovered and what is behind a tab led astray.
THEOREM NoPanelIsLost == Spec => []EveryPanelIsShown
<1>1. Init => PanelsShow
  BY DEF Init, PanelsShow
<1>2. PanelsShow => EveryPanelIsShown
  BY DEF PanelsShow, EveryPanelIsShown, CanReuse
<1> QED
  BY <1>1, <1>2, InvHolds, ShowStep, PTL DEF Spec

(* The four parts of what the user arranged.                                *)
LEMMA BlankStep ==
  ASSUME Inv, Inv', [Next]_vars
  PROVE  /\ Docked(mTree') \subseteq Names(mContainers') \union strays'
         /\ mOpened /\ mOpened' => BlankPanes(mTree') \subseteq BlankPanes(mTree)
<1>2. Docked(mTree') \subseteq Names(mContainers') \union strays'
  <2>1. Good(Space', strays') /\ Space'.tree = mTree' /\ Space'.list = mContainers'
    BY SpaceIs DEF Inv, SpaceIsGood, Space
  <2> QED
    BY <2>1 DEF Good, Consistent
<1>3. CASE Leaves \/ Begins
  BY <1>2, <1>3 DEF Leaves, Begins
<1>4. CASE \E in : FoundBy(in)
  <2> SUFFICES ASSUME mOpened PROVE BlankPanes(mTree') \subseteq BlankPanes(mTree)
    BY <1>2
  <2>1. PICK in : FoundBy(in)
    BY <1>4
  <2>2. PICK u : Walks(Opened(Space), u, in, Strays) /\ Taken(u)
    BY <2>1, WalkTakes DEF FoundBy
  <2>3. Opened(Space) = Space
    BY DEF Opened
  <2> QED
    BY <2>2, <2>3, SpaceIs DEF Walks, Taken
<1> QED
  BY <1>3, <1>4, StepsAre

LEMMA PlacementStep ==
  ASSUME Inv, [Next]_vars, NEW c \in Names(mContainers) \intersect Names(mContainers'),
         (c \in Docked(mTree)) # (c \in Docked(mTree'))
  PROVE  \/ c = hand.tab /\ c = hand'.drag
         \/ c = hand.drag /\ ~down'
         \/ c \notin mSeeded /\ c \in mSeeded'
         \/ ~mOpened \/ ~mOpened'
<1>1. CASE Leaves \/ Begins
  BY <1>1 DEF Leaves, Begins
<1>2. CASE \E in : FoundBy(in)
  <2> SUFFICES ASSUME mOpened PROVE \/ c = hand.tab /\ c = hand'.drag
                                    \/ c = hand.drag /\ ~down'
                                    \/ c \notin mSeeded /\ c \in mSeeded'
    OBVIOUS
  <2>1. PICK in : FoundBy(in)
    BY <1>2
  <2>2. PICK u : Walks(Opened(Space), u, in, Strays) /\ Taken(u)
    BY <2>1, WalkTakes DEF FoundBy
  <2>3. Opened(Space) = Space
    BY DEF Opened
  <2>4. Differs(c, Docked(Space.tree), Docked(u.tree)) /\ c \in Names(u.list)
    BY <2>2, SpaceIs DEF Differs, Taken
  <2>5. ByHand(Space, u, in, c)
    BY <2>2, <2>3, <2>4 DEF Walks
  <2>6. in.released => ~down'
    BY <2>1 DEF FoundBy
  <2> QED
    BY <2>2, <2>5, <2>6, SpaceIs DEF ByHand, Taken
<1> QED
  BY <1>1, <1>2, StepsAre

LEMMA SidewaysStep ==
  ASSUME Inv, [Next]_vars, NEW i \in DOMAIN mGrid, NEW j \in DOMAIN mGrid',
         mGrid[i].id = mGrid'[j].id, mGrid[i].col # mGrid'[j].col
  PROVE  mGrid[i].id \in {hand.tile, hand.corner}
<1>1. mGrid \in Grids
  BY SpaceIs, SpaceFields DEF Inv, SpaceIsGood, Good
<1>2. mGrid \in Seq(Tiles) /\ TilesAreOwn(mGrid)
  BY <1>1 DEF Grids
<1>3. i \in 1 .. Len(mGrid)
  BY <1>2
<1>4. CASE Leaves
  <2>1. j \in 1 .. Len(mGrid) /\ mGrid'[j] = mGrid[j]
    BY <1>2, <1>4 DEF Leaves
  <2> QED
    BY <1>2, <1>3, <2>1 DEF TilesAreOwn
<1>5. CASE Begins
  BY <1>5 DEF Begins
<1>6. CASE \E in : FoundBy(in)
  <2>1. PICK in : FoundBy(in)
    BY <1>6
  <2>2. PICK u : Walks(Opened(Space), u, in, Strays) /\ Taken(u)
    BY <2>1, WalkTakes DEF FoundBy
  <2>3. mOpened
    BY <1>3 DEF Inv, NotYetWalked
  <2>4. Opened(Space) = Space
    BY <2>3 DEF Opened
  <2>5. u.grid \in Grids /\ mGrid' = u.grid
    BY <2>2, SpaceFields DEF Walks, Good, Taken
  <2>6. j \in 1 .. Len(u.grid)
    BY <2>5 DEF Grids
  <2>7. Straight(mGrid, u.grid, {hand.tile, hand.corner})
    BY <2>2, <2>4, SpaceIs DEF Walks
  <2> QED
    BY <1>3, <2>5, <2>6, <2>7 DEF Straight
<1> QED
  BY <1>4, <1>5, <1>6, StepsAre

LEMMA RestoreStep ==
  ASSUME Inv, [Next]_vars, mOpened', ~mOpened, file # NoFile, ~file.legacy, file.reach = "whole"
  PROVE  LET lost == (Names(file.names) \ Names(mContainers')) \ (Declared \ Names(mContainers))
         IN /\ \A c \in Names(file.names) \intersect Names(mContainers') :
                 (c \in Docked(mTree')) = (c \in Docked(file.tree))
            /\ lost \subseteq {mPendingRemove} \/ (presses' > presses /\ Cardinality(lost) = 1)
<1> DEFINE lost == (Names(file.names) \ Names(mContainers')) \ (Declared \ Names(mContainers))
           o == Opened(Space)
<1>1. PICK in : FoundBy(in)
  BY StepsAre DEF Leaves, Begins
<1>2. PICK u : Walks(Opened(Space), u, in, Strays) /\ Taken(u)
  BY <1>1, WalkTakes DEF FoundBy
<1>3. /\ Loads(Space, o, file, Top, Strays) /\ o.doomed = mPendingRemove /\ SameHolding(Space, o)
  BY OpensWell DEF OpenedWell
<1>4. Walks(o, u, in, Strays)
  BY <1>2
<1> HIDE DEF o
<1>5. /\ Names(file.names) \intersect (Names(mContainers) \union SpawnIds) \subseteq Names(o.list) \intersect o.seeded
      /\ Names(o.list) \subseteq Names(mContainers) \union SpawnIds /\ Docked(o.tree) = Docked(file.tree)
  BY <1>3, SpaceIs DEF Loads, Names
<1>6. Names(file.names) \subseteq Panels
  <2>1. file.names \in Seq(Panels)
    BY DEF Inv, FileIsGood, FileGood
  <2> QED
    BY <2>1, NamesAre
<1>7. o.hand.tab = NoPanel /\ o.hand.drag = NoPanel /\ ~down
  BY <1>3, SpaceIs DEF SameHolding, Inv, NotYetWalked, EmptyHand
<1>8. PICK d : Names(u.list) = Names(o.list) \ {d} /\ (d = o.doomed \/ in.pressed \/ in.calls.what = "remove")
  BY <1>4 DEF Walks
<1>9. mContainers' = u.list /\ mTree' = u.tree
  BY <1>2 DEF Taken
<1>10. lost \subseteq {d}
  BY <1>5, <1>8, <1>9, <1>6 DEF Panels
<1>11. lost \subseteq {mPendingRemove} \/ (presses' > presses /\ Cardinality(lost) = 1)
  <2>1. CASE d = o.doomed
    BY <1>3, <1>10, <2>1
  <2>2. CASE lost = {}
    BY <2>2
  <2>3. CASE d # o.doomed /\ lost # {}
    <3>1. presses' > presses
      BY <1>1, <1>7, <1>8, <2>3 DEF FoundBy
    <3>2. lost = {d}
      BY <1>10, <2>3
    <3> HIDE DEF lost
    <3>3. Cardinality(lost) = 1
      BY <3>2, FS_Singleton
    <3> QED
      BY <3>1, <3>3
  <2> QED
    BY <2>1, <2>2, <2>3
<1>12. ASSUME NEW c \in Names(file.names) \intersect Names(mContainers')
       PROVE  (c \in Docked(mTree')) = (c \in Docked(file.tree))
  <2>1. c \in Names(u.list) /\ c \in o.seeded
    BY <1>5, <1>8, <1>9, <1>12
  <2>2. c # NoPanel
    BY <1>12, <1>6, NobodyIsNoPanel
  <2>3. ~ByHand(o, u, in, c)
    BY <1>7, <2>1, <2>2 DEF ByHand
  <2>4. ~Differs(c, Docked(o.tree), Docked(u.tree))
    BY <1>4, <2>1, <2>3 DEF Walks
  <2> QED
    BY <1>5, <1>9, <2>4 DEF Differs
<1> QED
  BY <1>11, <1>12

\* The arrangement is the user's, in this run and the next, whatever panels the
\* layouts declare and whatever is dragged, dropped, resized, closed, saved and read:
\* a panel the file led astray is seeded once, as its hint says, and never again.
THEOREM ArrangementIsTheUsers == Spec => TheUsersArrangement
<1>1. Inv /\ Inv' /\ [Next]_vars =>
        [/\ Docked(mTree') \subseteq Names(mContainers') \union strays'
         /\ mOpened /\ mOpened' => BlankPanes(mTree') \subseteq BlankPanes(mTree)]_vars
  BY BlankStep
<1>2. Inv /\ [Next]_vars =>
        [\A c \in Names(mContainers) \intersect Names(mContainers') :
           (c \in Docked(mTree)) # (c \in Docked(mTree'))
             => \/ c = hand.tab /\ c = hand'.drag
                \/ c = hand.drag /\ ~down'
                \/ c \notin mSeeded /\ c \in mSeeded'
                \/ ~mOpened \/ ~mOpened']_vars
  BY PlacementStep
<1>3. Inv /\ [Next]_vars =>
        [mOpened' /\ ~mOpened /\ file # NoFile /\ ~file.legacy /\ file.reach = "whole"
           => LET lost == (Names(file.names) \ Names(mContainers')) \ (Declared \ Names(mContainers))
              IN /\ \A c \in Names(file.names) \intersect Names(mContainers') :
                      (c \in Docked(mTree')) = (c \in Docked(file.tree))
                 /\ lost \subseteq {mPendingRemove} \/ (presses' > presses /\ Cardinality(lost) = 1)]_vars
  BY RestoreStep
<1>4. Inv /\ [Next]_vars =>
        [\A i \in DOMAIN mGrid, j \in DOMAIN mGrid' :
           mGrid[i].id = mGrid'[j].id /\ mGrid[i].col # mGrid'[j].col
             => mGrid[i].id \in {hand.tile, hand.corner}]_vars
  BY SidewaysStep
<1> QED
  BY <1>1, <1>2, <1>3, <1>4, InvHolds, PTL
     DEF Spec, TheUsersArrangement, NoPaneGoesBlank, PlacementIsTheUsers, SavedIsRestored, NeverSideways
=============================================================================
