--------------------------- MODULE ScriptsProofs ---------------------------
(***************************************************************************)
(* What holds of Scripts for every set of workers and addresses and any    *)
(* number of runs: the transactions of Transactions, that no command       *)
(* writes to what is gone, and that a run reads its own writes.  For the   *)
(* last one a replay is followed command by command: FoldLeft is a         *)
(* function of the positions of a batch that its definition chooses, so    *)
(* the lemmas show that there is one, that it computes a prefix from the   *)
(* one before, and, by induction over the length of the prefix, that what  *)
(* the pending functions read is what the replay makes.                    *)
(***************************************************************************)
EXTENDS Scripts, WellFoundedInduction, TLAPS

-----------------------------------------------------------------------------
(* Induction, and what a fold over a sequence computes.                     *)

(* A set of numbers that holds 0 and goes on up to n holds all up to n.     *)
LEMMA UpTo ==
  ASSUME NEW n \in Nat, NEW T, 0 \in T, \A i \in 0 .. n - 1 : i \in T => i + 1 \in T
  PROVE  \A i \in 0 .. n : i \in T
<1> DEFINE less == {p \in Nat \X Nat : p[1] < p[2]}
           out  == {i \in 0 .. n : i \notin T}
<1>1. IsWellFoundedOn(less, Nat)
  BY NatLessThanWellFounded DEF OpToRel
<1> HIDE DEF less
<1>2. SUFFICES ASSUME out # {} PROVE FALSE
  OBVIOUS
<1>3. PICK i \in out : \A j \in out : ~(<<j, i>> \in less)
  <2>1. out \subseteq Nat
    OBVIOUS
  <2> HIDE DEF out
  <2> QED
    BY <1>1, <1>2, <2>1, WFMin
<1>4. i \in 0 .. n /\ i \notin T /\ i # 0
  BY <1>3
<1>5. i - 1 \in 0 .. n - 1 /\ <<i - 1, i>> \in less
  BY <1>4 DEF less
<1>6. i - 1 \in T
  BY <1>3, <1>5
<1> QED
  BY <1>4, <1>5, <1>6

LEMMA MaxOf ==
  ASSUME NEW n \in Nat
  PROVE  /\ Max(1 .. n + 1) = n + 1 /\ (1 .. n + 1) \ {n + 1} = 1 .. n /\ 1 .. n + 1 # {}
         /\ \A s \in SUBSET (1 .. n + 1) : n + 1 \in s => Max(s) = n + 1
<1>1. ASSUME NEW s \in SUBSET (1 .. n + 1), n + 1 \in s
      PROVE  Max(s) = n + 1
  <2>1. \A y \in s : n + 1 >= y
    BY <1>1
  <2>2. \E x \in s : \A y \in s : x >= y
    BY <1>1, <2>1
  <2>3. Max(s) \in s /\ \A y \in s : Max(s) >= y
    BY <2>2 DEF Max
  <2>4. Max(s) \in 1 .. n + 1 /\ Max(s) >= n + 1
    BY <1>1, <2>3
  <2> QED
    BY <2>4
<1>2. 1 .. n + 1 \in SUBSET (1 .. n + 1) /\ n + 1 \in 1 .. n + 1 /\ (1 .. n + 1) \ {n + 1} = 1 .. n
  OBVIOUS
<1> QED
  BY <1>1, <1>2

(* A fold is defined: the function that FoldLeft chooses exists, whatever   *)
(* function it folds.                                                       *)
Folds(g, f, base, seq, n) ==
  \A s \in SUBSET (1 .. n) : g[s] = IF s = {} THEN base ELSE f[<<g[s \ {Max(s)}], seq[Max(s)]>>]
LEMMA FoldExists ==
  ASSUME NEW n \in Nat, NEW W, NEW C, NEW f \in [W \X C -> W], NEW base \in W, NEW seq \in [1 .. n -> C]
  PROVE  \E g \in [SUBSET (1 .. n) -> W] : Folds(g, f, base, seq, n)
<1> DEFINE T == {m \in 0 .. n : \E g \in [SUBSET (1 .. m) -> W] : Folds(g, f, base, seq, m)}
<1>1. 0 \in T
  <2> DEFINE g == [s \in SUBSET (1 .. 0) |-> base]
  <2>1. g \in [SUBSET (1 .. 0) -> W]
    OBVIOUS
  <2>2. SUBSET (1 .. 0) = {{}}
    OBVIOUS
  <2>3. Folds(g, f, base, seq, 0)
    BY <2>2 DEF Folds
  <2> QED
    BY <2>1, <2>3
<1>2. ASSUME NEW m \in 0 .. n - 1, m \in T
      PROVE  m + 1 \in T
  <2>1. PICK g \in [SUBSET (1 .. m) -> W] : Folds(g, f, base, seq, m)
    BY <1>2
  <2> DEFINE h == [s \in SUBSET (1 .. m + 1) |->
                     IF m + 1 \in s THEN f[<<g[s \ {m + 1}], seq[m + 1]>>] ELSE g[s]]
  <2>2. m \in Nat /\ m + 1 \in 1 .. n /\ m + 1 \in 0 .. n /\ seq[m + 1] \in C
    OBVIOUS
  <2>3. ASSUME NEW s \in SUBSET (1 .. m + 1), m + 1 \in s
        PROVE  /\ s \ {m + 1} \in SUBSET (1 .. m) /\ Max(s) = m + 1
               /\ h[s] = f[<<g[s \ {m + 1}], seq[m + 1]>>] /\ h[s] \in W
               /\ h[s \ {m + 1}] = g[s \ {m + 1}]
    <3>1. s \ {m + 1} \in SUBSET (1 .. m)
      BY <2>2, <2>3
    <3>2. Max(s) = m + 1
      BY <2>2, <2>3, MaxOf
    <3>3. g[s \ {m + 1}] \in W
      BY <2>1, <3>1
    <3>4. s \ {m + 1} \in SUBSET (1 .. m + 1) /\ m + 1 \notin s \ {m + 1}
      BY <2>3
    <3>5. h[s] = f[<<g[s \ {m + 1}], seq[m + 1]>>] /\ h[s \ {m + 1}] = g[s \ {m + 1}]
      BY <2>3, <3>4
    <3>6. h[s] \in W
      BY <2>2, <3>3, <3>5
    <3> QED
      BY <3>1, <3>2, <3>5, <3>6
  <2>4. ASSUME NEW s \in SUBSET (1 .. m + 1), m + 1 \notin s
        PROVE  s \in SUBSET (1 .. m) /\ h[s] = g[s] /\ h[s] \in W
    <3>1. s \in SUBSET (1 .. m)
      BY <2>2, <2>4
    <3> QED
      BY <2>1, <2>4, <3>1
  <2>5. h \in [SUBSET (1 .. m + 1) -> W]
    BY <2>3, <2>4
  <2>6. ASSUME NEW s \in SUBSET (1 .. m + 1)
        PROVE  h[s] = IF s = {} THEN base ELSE f[<<h[s \ {Max(s)}], seq[Max(s)]>>]
    <3>1. CASE m + 1 \in s
      BY <2>3, <3>1
    <3>2. CASE m + 1 \notin s
      <4>1. s \in SUBSET (1 .. m) /\ h[s] = g[s]
        BY <2>4, <3>2
      <4>2. s \ {Max(s)} \in SUBSET (1 .. m) /\ m + 1 \notin s \ {Max(s)} /\ s \ {Max(s)} \in SUBSET (1 .. m + 1)
        BY <2>2, <3>2, <4>1
      <4>3. h[s \ {Max(s)}] = g[s \ {Max(s)}]
        BY <2>4, <4>2
      <4>4. g[s] = IF s = {} THEN base ELSE f[<<g[s \ {Max(s)}], seq[Max(s)]>>]
        BY <2>1, <4>1 DEF Folds
      <4> QED
        BY <4>1, <4>3, <4>4
    <3> QED
      BY <3>1, <3>2
  <2> HIDE DEF h
  <2>7. Folds(h, f, base, seq, m + 1)
    BY <2>6 DEF Folds
  <2> QED
    BY <2>2, <2>5, <2>7
<1>3. \A i \in 0 .. n : i \in T
  <2> HIDE DEF T
  <2> QED
    BY <1>1, <1>2, UpTo
<1>4. n \in T
  <2>1. n \in 0 .. n
    OBVIOUS
  <2> QED
    BY <1>3, <2>1
<1> QED
  BY <1>4

(* A set of numbers up to n that is not empty has a largest.               *)
LEMMA MaxIn ==
  ASSUME NEW n \in Nat, NEW t \in SUBSET (1 .. n), t # {}
  PROVE  Max(t) \in t
<1> DEFINE T == {m \in 0 .. n : \A s \in SUBSET (1 .. m) : s # {} => Max(s) \in s}
<1>1. 0 \in T
  <2>1. 1 .. 0 = {} /\ 0 \in 0 .. n
    OBVIOUS
  <2> QED
    BY <2>1
<1>2. ASSUME NEW m \in 0 .. n - 1, m \in T
      PROVE  m + 1 \in T
  <2>1. ASSUME NEW s \in SUBSET (1 .. m + 1), s # {}
        PROVE  Max(s) \in s
    <3>0. m \in Nat
      OBVIOUS
    <3>1. CASE m + 1 \in s
      <4>1. Max(s) = m + 1
        BY <3>0, <3>1, MaxOf
      <4> QED
        BY <3>1, <4>1
    <3>2. CASE m + 1 \notin s
      <4>1. s \in SUBSET (1 .. m)
        BY <3>2
      <4> QED
        BY <1>2, <2>1, <4>1
    <3> QED
      BY <3>1, <3>2
  <2>2. m + 1 \in 0 .. n
    OBVIOUS
  <2> QED
    BY <2>1, <2>2
<1>3. \A i \in 0 .. n : i \in T
  <2> HIDE DEF T
  <2> QED
    BY <1>1, <1>2, UpTo
<1>4. n \in T
  <2>1. n \in 0 .. n
    OBVIOUS
  <2> QED
    BY <1>3, <2>1
<1> QED
  BY <1>4

(* What a fold computes, command by command. *)
Computes(p, f, base, seq, n, end) ==
  p[0] = base /\ p[n] = end /\ \A i \in 0 .. n - 1 : p[i + 1] = f[<<p[i], seq[i + 1]>>]

Unfolds(h, W, f, base, seq, n) ==
  /\ h[{}] = base
  /\ \A s \in SUBSET (1 .. n) :
       s # {} /\ h[s \ {Max(s)}] \in W => h[s] = f[<<h[s \ {Max(s)}], seq[Max(s)]>>]

LEMMA FoldComputes ==
  ASSUME NEW n \in Nat, NEW W, NEW C, NEW f \in [W \X C -> W], NEW base \in W, NEW seq \in [1 .. n -> C],
         NEW h, Unfolds(h, W, f, base, seq, n)
  PROVE  \E p \in [0 .. n -> W] : Computes(p, f, base, seq, n, h[1 .. n])
<1> DEFINE T == {i \in 0 .. n : h[1 .. i] \in W}
           p == [i \in 0 .. n |-> h[1 .. i]]
<1> USE DEF Unfolds
<1>1. h[1 .. 0] = base
  <2>1. 1 .. 0 = {}
    OBVIOUS
  <2> QED
    BY <2>1
<1>2. ASSUME NEW i \in 0 .. n - 1, h[1 .. i] \in W
      PROVE  h[1 .. i + 1] = f[<<h[1 .. i], seq[i + 1]>>] /\ h[1 .. i + 1] \in W
  <2>1. /\ 1 .. i + 1 \in SUBSET (1 .. n) /\ 1 .. i + 1 # {} /\ i + 1 \in 1 .. n
        /\ Max(1 .. i + 1) = i + 1 /\ (1 .. i + 1) \ {i + 1} = 1 .. i
    <3>1. i \in Nat /\ i + 1 \in 1 .. n
      OBVIOUS
    <3>2. 1 .. i + 1 \in SUBSET (1 .. n)
      BY <3>1
    <3>3. Max(1 .. i + 1) = i + 1 /\ (1 .. i + 1) \ {i + 1} = 1 .. i /\ 1 .. i + 1 # {}
      BY <3>1, MaxOf
    <3> QED
      BY <3>1, <3>2, <3>3
  <2>2. h[1 .. i + 1] = f[<<h[1 .. i], seq[i + 1]>>]
    BY <1>2, <2>1
  <2>3. seq[i + 1] \in C
    BY <2>1
  <2> QED
    BY <1>2, <2>2, <2>3
<1>3. \A i \in 0 .. n : i \in T
  <2>1. 0 \in T
    BY <1>1
  <2>2. ASSUME NEW i \in 0 .. n - 1, i \in T
        PROVE  i + 1 \in T
    <3>1. h[1 .. i + 1] \in W
      BY <1>2, <2>2
    <3>2. i + 1 \in 0 .. n
      OBVIOUS
    <3> QED
      BY <3>1, <3>2
  <2> HIDE DEF T
  <2> QED
    BY <2>1, <2>2, UpTo
<1>4. p \in [0 .. n -> W]
  BY <1>3
<1>5. p[0] = base
  BY <1>1
<1>6. ASSUME NEW i \in 0 .. n - 1
      PROVE  p[i + 1] = f[<<p[i], seq[i + 1]>>]
  <2>1. i \in 0 .. n /\ i + 1 \in 0 .. n
    OBVIOUS
  <2>2. h[1 .. i] \in W
    BY <1>3, <2>1
  <2> QED
    BY <1>2, <2>1, <2>2
<1>7. p[n] = h[1 .. n]
  OBVIOUS
<1> QED
  BY <1>4, <1>5, <1>6, <1>7 DEF Computes

-----------------------------------------------------------------------------
(* What one command does to one entity, to the numbers of materials and to  *)
(* the sun's.                                                               *)
Standing == [born : 1 .. MaxBirths + 1, place : 0 .. 2, visible : BOOLEAN, material : Materials]

LEMMA EntityTypes ==
  ASSUME NEW w \in Scenes, NEW a \in Addresses
  PROVE  /\ stillInScene(w, a) <=> w.entity[a] \in Standing
         /\ w.entity[a] \in Entities
<1>1. w.entity[a] \in Entities
  BY DEF Scenes
<1>2. \A e \in Standing : e # Nothing
  BY ScriptsAssumption DEF Standing, Nothing
<1> QED
  BY <1>1, <1>2 DEF Entities, stillInScene, Standing

LEMMA CommandTypes ==
  ASSUME NEW c \in Commands
  PROVE  /\ c.kind \in Kinds \cup {"MaterialScalar", "LightScalar"}
         /\ c.kind \in Kinds => c.entity \in Addresses
         /\ c.material \in Materials
BY DEF Commands, Command, Kinds, Materials

(* A standing entity, changed, still stands. *)
LEMMA EntityChanged ==
  ASSUME NEW v, NEW a, v.entity[a] \in Standing
  PROVE  stillInScene(v, a) /\ v.entity[a] \in Entities
<1>1. v.entity[a] # Nothing
  BY ScriptsAssumption DEF Standing, Nothing
<1> QED
  BY <1>1 DEF stillInScene, Entities, Standing

LEMMA AppliedToEntity ==
  ASSUME NEW w \in Scenes, NEW c \in Commands, NEW a \in Addresses
  PROVE  /\ Applied(w, c).entity[a] \in Entities
         /\ stillInScene(Applied(w, c), a) <=> stillInScene(w, a) /\ ~IsFor(c, a, "EntityDestroy")
         /\ stillInScene(Applied(w, c), a) =>
              /\ Applied(w, c).entity[a].born = w.entity[a].born
              /\ Applied(w, c).entity[a].place = Moved(a, w.entity[a].place, c)
              /\ Applied(w, c).entity[a].visible = (w.entity[a].visible /\ ~IsFor(c, a, "EntityVisible"))
              /\ Applied(w, c).entity[a].material = Dressed(a, w.entity[a].material, c)
<1> DEFINE e == w.entity[a]
           v == Applied(w, c)
<1>0. w.entity \in [Addresses -> Entities]
  BY DEF Scenes
<1>1. CASE Refused(w, c)
  <2>1. v = w /\ ~stillInScene(w, c.entity)
    BY <1>1 DEF Applied, Refused
  <2>2. stillInScene(w, a) => c.entity # a
    BY <2>1
  <2>3. stillInScene(w, a) => /\ \A k : ~IsFor(c, a, k)
    BY <2>2 DEF IsFor
  <2>4. stillInScene(w, a) => /\ Moved(a, e.place, c) = e.place
                             /\ Dressed(a, e.material, c) = e.material
    BY <2>3 DEF Moved, Dressed
  <2>5. e \in Entities /\ (stillInScene(w, a) => e.visible \in BOOLEAN)
    BY EntityTypes DEF Standing
  <2> QED
    BY <2>1, <2>3, <2>4, <2>5
<1>2. CASE ~Refused(w, c) /\ (c.entity # a \/ c.kind \notin Kinds)
  <2>1. v.entity[a] = e
    BY <1>0, <1>2, CommandTypes DEF Applied, destroyEntity, Kinds, Scenes
  <2>2. \A k \in Kinds : ~IsFor(c, a, k)
    BY <1>2 DEF IsFor
  <2>3. /\ ~IsFor(c, a, "EntityDestroy") /\ ~IsFor(c, a, "EntityVisible")
        /\ Moved(a, e.place, c) = e.place /\ Dressed(a, e.material, c) = e.material
    BY <2>2 DEF Moved, Dressed, Kinds
  <2>4. e \in Entities /\ (stillInScene(w, a) => e.visible \in BOOLEAN)
    BY EntityTypes DEF Standing
  <2>5. stillInScene(v, a) <=> stillInScene(w, a)
    BY <2>1 DEF stillInScene
  <2> QED
    BY <2>1, <2>3, <2>4, <2>5
<1>3. CASE ~Refused(w, c) /\ c.entity = a /\ c.kind \in Kinds
  <2>1. e \in Standing /\ stillInScene(w, a)
    BY <1>3, EntityTypes DEF Refused, needsEntity
  <2>2. \A k \in Kinds : IsFor(c, a, k) <=> c.kind = k
    BY <1>3 DEF IsFor
  <2>3. CASE c.kind = "EntityDestroy"
    <3>1. v.entity[a] = Nothing
      BY <1>0, <1>3, <2>3 DEF Applied, destroyEntity, Scenes
    <3> QED
      BY <2>2, <2>3, <3>1 DEF stillInScene, Entities, Kinds
  <2>4. CASE c.kind = "EntityPosition"
    <3>1. v.entity[a] = [e EXCEPT !.place = 1]
      BY <1>0, <1>3, <2>4 DEF Applied, Scenes
    <3>2. v.entity[a] \in Standing /\ stillInScene(v, a) /\ v.entity[a] \in Entities
      BY <2>1, <3>1, CommandTypes, EntityChanged DEF Standing
    <3> QED
      BY <2>1, <2>2, <2>4, <3>1, <3>2 DEF Moved, Dressed, Kinds, Standing
  <2>5. CASE c.kind = "EntityTranslate"
    <3>1. v.entity[a] = [e EXCEPT !.place = (@ + 1) % 3]
      BY <1>0, <1>3, <2>5 DEF Applied, Scenes
    <3>2. v.entity[a] \in Standing /\ stillInScene(v, a) /\ v.entity[a] \in Entities
      BY <2>1, <3>1, CommandTypes, EntityChanged DEF Standing
    <3> QED
      BY <2>1, <2>2, <2>5, <3>1, <3>2 DEF Moved, Dressed, Kinds, Standing
  <2>6. CASE c.kind = "EntityVisible"
    <3>1. v.entity[a] = [e EXCEPT !.visible = FALSE]
      BY <1>0, <1>3, <2>6 DEF Applied, Scenes
    <3>2. v.entity[a] \in Standing /\ stillInScene(v, a) /\ v.entity[a] \in Entities
      BY <2>1, <3>1, CommandTypes, EntityChanged DEF Standing
    <3> QED
      BY <2>1, <2>2, <2>6, <3>1, <3>2 DEF Moved, Dressed, Kinds, Standing
  <2>7. CASE c.kind = "EntityMaterial"
    <3>1. v.entity[a] = [e EXCEPT !.material = c.material]
      BY <1>0, <1>3, <2>7 DEF Applied, Scenes
    <3>2. v.entity[a] \in Standing /\ stillInScene(v, a) /\ v.entity[a] \in Entities
      BY <2>1, <3>1, CommandTypes, EntityChanged DEF Standing
    <3> QED
      BY <2>1, <2>2, <2>7, <3>1, <3>2 DEF Moved, Dressed, Kinds, Standing
  <2> QED
    BY <1>3, <2>3, <2>4, <2>5, <2>6, <2>7 DEF Kinds
<1> QED
  BY <1>1, <1>2, <1>3

LEMMA AppliedToNumbers ==
  ASSUME NEW w \in Scenes, NEW c \in Commands
  PROVE  /\ Applied(w, c) \in Scenes
         /\ \A m \in Materials : Applied(w, c).scalar[m] =
              IF c.kind = "MaterialScalar" /\ c.material = m THEN 1 ELSE w.scalar[m]
         /\ Applied(w, c).sun = IF c.kind = "LightScalar" THEN 1 ELSE w.sun
<1> DEFINE v == Applied(w, c)
<1>1. /\ w.entity \in [Addresses -> Entities] /\ w.scalar \in [Materials -> 0 .. 1] /\ w.sun \in 0 .. 1
      /\ w = [entity |-> w.entity, scalar |-> w.scalar, sun |-> w.sun]
  BY DEF Scenes
<1>2. \A a \in Addresses : v.entity[a] \in Entities
  BY AppliedToEntity
<1>3. CASE c.kind = "MaterialScalar"
  <2>1. v = [w EXCEPT !.scalar[c.material] = 1] /\ c.material \in Materials
    BY <1>3, CommandTypes DEF Applied, Refused, needsEntity, Kinds
  <2>2. v.entity = w.entity /\ v.sun = w.sun /\ v.scalar = [w.scalar EXCEPT ![c.material] = 1]
    BY <1>1, <2>1
  <2>3. v = [entity |-> v.entity, scalar |-> v.scalar, sun |-> v.sun]
    BY <1>1, <2>1
  <2>4. v.scalar \in [Materials -> 0 .. 1]
    BY <1>1, <2>1, <2>2
  <2>5. v \in Scenes
    BY <1>1, <2>2, <2>3, <2>4 DEF Scenes
  <2> QED
    BY <1>1, <1>3, <2>1, <2>2, <2>5
<1>4. CASE c.kind = "LightScalar"
  <2>1. v = [w EXCEPT !.sun = 1]
    BY <1>4, CommandTypes DEF Applied, Refused, needsEntity, Kinds
  <2> QED
    BY <1>1, <1>4, <2>1 DEF Scenes
<1>5. CASE c.kind \in Kinds
  <2>1. c.entity \in Addresses
    BY <1>5, CommandTypes
  <2>2. \/ v = w
        \/ \E e : v = [w EXCEPT !.entity = [w.entity EXCEPT ![c.entity] = e]]
    <3>1. CASE Refused(w, c)
      BY <3>1 DEF Applied
    <3>2. CASE ~Refused(w, c) /\ c.kind = "EntityPosition"
      BY <1>1, <3>2 DEF Applied
    <3>3. CASE ~Refused(w, c) /\ c.kind = "EntityTranslate"
      BY <1>1, <3>3 DEF Applied
    <3>4. CASE ~Refused(w, c) /\ c.kind = "EntityVisible"
      BY <1>1, <3>4 DEF Applied
    <3>5. CASE ~Refused(w, c) /\ c.kind = "EntityMaterial"
      BY <1>1, <3>5 DEF Applied
    <3>6. CASE ~Refused(w, c) /\ c.kind = "EntityDestroy"
      BY <1>1, <3>6 DEF Applied, destroyEntity
    <3> QED
      BY <1>5, <3>1, <3>2, <3>3, <3>4, <3>5, <3>6 DEF Kinds
  <2>3. /\ v.scalar = w.scalar /\ v.sun = w.sun
        /\ v = [entity |-> v.entity, scalar |-> v.scalar, sun |-> v.sun]
        /\ v.entity = [a \in Addresses |-> v.entity[a]]
    BY <1>1, <2>1, <2>2
  <2>4. v \in Scenes
    <3> HIDE DEF v
    <3> QED
      BY <1>1, <1>2, <2>3 DEF Scenes
  <2> QED
    BY <1>5, <2>3, <2>4 DEF Kinds
<1> QED
  BY <1>3, <1>4, <1>5, CommandTypes

-----------------------------------------------------------------------------
(* What is read of an entity once a batch is pending for it. *)
Spots == 0 .. 2
Placed(a, at, batch) == FoldLeft(LAMBDA x, c : Moved(a, x, c), at, batch)
Worn(a, m, batch) == FoldLeft(LAMBDA x, c : Dressed(a, x, c), m, batch)

LEMMA MovedTypes ==
  ASSUME NEW a, NEW at \in Spots, NEW c
  PROVE  Moved(a, at, c) \in Spots
<1>1. (at + 1) % 3 \in 0 .. 2
  BY DEF Spots
<1> QED
  BY <1>1 DEF Moved, Spots

LEMMA DressedTypes ==
  ASSUME NEW a, NEW m \in Materials, NEW c \in Commands
  PROVE  Dressed(a, m, c) \in Materials
BY CommandTypes DEF Dressed

(* A replay goes from scene to scene, a command at a time. *)
LEMMA ReplayGoes ==
  ASSUME NEW w \in Scenes, NEW batch \in Seq(Commands)
  PROVE  \E p \in [0 .. Len(batch) -> Scenes] :
           /\ p[0] = w /\ p[Len(batch)] = After(w, batch)
           /\ \A i \in 0 .. Len(batch) - 1 : p[i + 1] = Applied(p[i], batch[i + 1])
<1> DEFINE n == Len(batch)
           f == [x \in Scenes \X Commands |-> Applied(x[1], x[2])]
           Rec(h) == [s \in SUBSET DOMAIN batch |->
                        IF s = {} THEN w ELSE Applied(h[s \ {Max(s)}], batch[Max(s)])]
<1>1. f \in [Scenes \X Commands -> Scenes]
  BY AppliedToNumbers
<1>2. n \in Nat /\ DOMAIN batch = 1 .. n /\ batch \in [1 .. n -> Commands]
  OBVIOUS
<1>3. ASSUME NEW s \in SUBSET (1 .. n), s # {}
      PROVE  /\ s \ {Max(s)} \in SUBSET (1 .. n)
             /\ batch[Max(s)] \in Commands
             /\ \A v \in Scenes : f[<<v, batch[Max(s)]>>] = Applied(v, batch[Max(s)])
  <2>1. Max(s) \in s
    BY <1>2, <1>3, MaxIn
  <2>2. batch[Max(s)] \in Commands
    BY <1>2, <2>1
  <2> QED
    BY <2>1, <2>2
<1>4. \E g : g = Rec(g)
  <2>1. PICK g \in [SUBSET (1 .. n) -> Scenes] : Folds(g, f, w, batch, n)
    BY <1>1, <1>2, FoldExists
  <2>2. ASSUME NEW s \in SUBSET (1 .. n)
        PROVE  g[s] = IF s = {} THEN w ELSE Applied(g[s \ {Max(s)}], batch[Max(s)])
    <3>1. CASE s = {}
      BY <2>1, <3>1 DEF Folds
    <3>2. CASE s # {}
      <4>1. g[s \ {Max(s)}] \in Scenes
        BY <1>3, <2>1, <3>2
      <4>2. g[s] = f[<<g[s \ {Max(s)}], batch[Max(s)]>>]
        BY <2>1, <3>2 DEF Folds
      <4> QED
        BY <1>3, <3>2, <4>1, <4>2
    <3> QED
      BY <3>1, <3>2
  <2>3. g = [s \in SUBSET (1 .. n) |-> g[s]]
    BY <2>1
  <2>4. g = Rec(g)
    BY <1>2, <2>2, <2>3
  <2> QED
    BY <2>4
<1>5. PICK h : h = (CHOOSE g : g = Rec(g)) /\ After(w, batch) = h[DOMAIN batch]
  BY DEF After, FoldLeft, MapThenFoldSet
<1>6. h = Rec(h)
  BY <1>4, <1>5
<1>7. ASSUME NEW s \in SUBSET (1 .. n)
      PROVE  h[s] = IF s = {} THEN w ELSE Applied(h[s \ {Max(s)}], batch[Max(s)])
  BY <1>2, <1>6
<1> HIDE DEF f, Rec, n
<1>8. Unfolds(h, Scenes, f, w, batch, n)
  BY <1>3, <1>7 DEF Unfolds
<1>9. PICK p \in [0 .. n -> Scenes] : Computes(p, f, w, batch, n, h[1 .. n])
  BY <1>1, <1>2, <1>8, FoldComputes
<1>10. ASSUME NEW i \in 0 .. n - 1
       PROVE  p[i + 1] = Applied(p[i], batch[i + 1])
  <2>1. i \in 0 .. n /\ i + 1 \in 1 .. n
    BY <1>2
  <2>2. p[i] \in Scenes /\ batch[i + 1] \in Commands
    BY <1>2, <2>1
  <2>3. p[i + 1] = f[<<p[i], batch[i + 1]>>]
    BY <1>9 DEF Computes
  <2> QED
    BY <2>2, <2>3 DEF f
<1>11. p[0] = w /\ p[n] = After(w, batch)
  BY <1>2, <1>5, <1>9 DEF Computes
<1> QED
  BY <1>9, <1>10, <1>11 DEF n

(* What is read of a place goes from place to place. *)
LEMMA MovesGo ==
  ASSUME NEW a, NEW at \in Spots, NEW batch \in Seq(Commands)
  PROVE  \E p \in [0 .. Len(batch) -> Spots] :
           /\ p[0] = at /\ p[Len(batch)] = Placed(a, at, batch)
           /\ \A i \in 0 .. Len(batch) - 1 : p[i + 1] = Moved(a, p[i], batch[i + 1])
<1> DEFINE n == Len(batch)
           f == [x \in Spots \X Commands |-> Moved(a, x[1], x[2])]
           Rec(h) == [s \in SUBSET DOMAIN batch |->
                        IF s = {} THEN at ELSE Moved(a, h[s \ {Max(s)}], batch[Max(s)])]
<1>1. f \in [Spots \X Commands -> Spots]
  BY MovedTypes
<1>2. n \in Nat /\ DOMAIN batch = 1 .. n /\ batch \in [1 .. n -> Commands]
  OBVIOUS
<1>3. ASSUME NEW s \in SUBSET (1 .. n), s # {}
      PROVE  /\ s \ {Max(s)} \in SUBSET (1 .. n)
             /\ batch[Max(s)] \in Commands
             /\ \A v \in Spots : f[<<v, batch[Max(s)]>>] = Moved(a, v, batch[Max(s)])
  <2>1. Max(s) \in s
    BY <1>2, <1>3, MaxIn
  <2>2. batch[Max(s)] \in Commands
    BY <1>2, <2>1
  <2> QED
    BY <2>1, <2>2
<1>4. \E g : g = Rec(g)
  <2>1. PICK g \in [SUBSET (1 .. n) -> Spots] : Folds(g, f, at, batch, n)
    BY <1>1, <1>2, FoldExists
  <2>2. ASSUME NEW s \in SUBSET (1 .. n)
        PROVE  g[s] = IF s = {} THEN at ELSE Moved(a, g[s \ {Max(s)}], batch[Max(s)])
    <3>1. CASE s = {}
      BY <2>1, <3>1 DEF Folds
    <3>2. CASE s # {}
      <4>1. g[s \ {Max(s)}] \in Spots
        BY <1>3, <2>1, <3>2
      <4>2. g[s] = f[<<g[s \ {Max(s)}], batch[Max(s)]>>]
        BY <2>1, <3>2 DEF Folds
      <4> QED
        BY <1>3, <3>2, <4>1, <4>2
    <3> QED
      BY <3>1, <3>2
  <2>3. g = [s \in SUBSET (1 .. n) |-> g[s]]
    BY <2>1
  <2>4. g = Rec(g)
    BY <1>2, <2>2, <2>3
  <2> QED
    BY <2>4
<1>5. PICK h : h = (CHOOSE g : g = Rec(g)) /\ Placed(a, at, batch) = h[DOMAIN batch]
  BY DEF Placed, FoldLeft, MapThenFoldSet
<1>6. h = Rec(h)
  BY <1>4, <1>5
<1>7. ASSUME NEW s \in SUBSET (1 .. n)
      PROVE  h[s] = IF s = {} THEN at ELSE Moved(a, h[s \ {Max(s)}], batch[Max(s)])
  BY <1>2, <1>6
<1> HIDE DEF f, Rec, n
<1>8. Unfolds(h, Spots, f, at, batch, n)
  BY <1>3, <1>7 DEF Unfolds
<1>9. PICK p \in [0 .. n -> Spots] : Computes(p, f, at, batch, n, h[1 .. n])
  BY <1>1, <1>2, <1>8, FoldComputes
<1>10. ASSUME NEW i \in 0 .. n - 1
       PROVE  p[i + 1] = Moved(a, p[i], batch[i + 1])
  <2>1. i \in 0 .. n /\ i + 1 \in 1 .. n
    BY <1>2
  <2>2. p[i] \in Spots /\ batch[i + 1] \in Commands
    BY <1>2, <2>1
  <2>3. p[i + 1] = f[<<p[i], batch[i + 1]>>]
    BY <1>9 DEF Computes
  <2> QED
    BY <2>2, <2>3 DEF f
<1>11. p[0] = at /\ p[n] = Placed(a, at, batch)
  BY <1>2, <1>5, <1>9 DEF Computes
<1> QED
  BY <1>9, <1>10, <1>11 DEF n

(* What is read of a material goes from material to material. *)
LEMMA DressesGo ==
  ASSUME NEW a, NEW m \in Materials, NEW batch \in Seq(Commands)
  PROVE  \E p \in [0 .. Len(batch) -> Materials] :
           /\ p[0] = m /\ p[Len(batch)] = Worn(a, m, batch)
           /\ \A i \in 0 .. Len(batch) - 1 : p[i + 1] = Dressed(a, p[i], batch[i + 1])
<1> DEFINE n == Len(batch)
           f == [x \in Materials \X Commands |-> Dressed(a, x[1], x[2])]
           Rec(h) == [s \in SUBSET DOMAIN batch |->
                        IF s = {} THEN m ELSE Dressed(a, h[s \ {Max(s)}], batch[Max(s)])]
<1>1. f \in [Materials \X Commands -> Materials]
  BY DressedTypes
<1>2. n \in Nat /\ DOMAIN batch = 1 .. n /\ batch \in [1 .. n -> Commands]
  OBVIOUS
<1>3. ASSUME NEW s \in SUBSET (1 .. n), s # {}
      PROVE  /\ s \ {Max(s)} \in SUBSET (1 .. n)
             /\ batch[Max(s)] \in Commands
             /\ \A v \in Materials : f[<<v, batch[Max(s)]>>] = Dressed(a, v, batch[Max(s)])
  <2>1. Max(s) \in s
    BY <1>2, <1>3, MaxIn
  <2>2. batch[Max(s)] \in Commands
    BY <1>2, <2>1
  <2> QED
    BY <2>1, <2>2
<1>4. \E g : g = Rec(g)
  <2>1. PICK g \in [SUBSET (1 .. n) -> Materials] : Folds(g, f, m, batch, n)
    BY <1>1, <1>2, FoldExists
  <2>2. ASSUME NEW s \in SUBSET (1 .. n)
        PROVE  g[s] = IF s = {} THEN m ELSE Dressed(a, g[s \ {Max(s)}], batch[Max(s)])
    <3>1. CASE s = {}
      BY <2>1, <3>1 DEF Folds
    <3>2. CASE s # {}
      <4>1. g[s \ {Max(s)}] \in Materials
        BY <1>3, <2>1, <3>2
      <4>2. g[s] = f[<<g[s \ {Max(s)}], batch[Max(s)]>>]
        BY <2>1, <3>2 DEF Folds
      <4> QED
        BY <1>3, <3>2, <4>1, <4>2
    <3> QED
      BY <3>1, <3>2
  <2>3. g = [s \in SUBSET (1 .. n) |-> g[s]]
    BY <2>1
  <2>4. g = Rec(g)
    BY <1>2, <2>2, <2>3
  <2> QED
    BY <2>4
<1>5. PICK h : h = (CHOOSE g : g = Rec(g)) /\ Worn(a, m, batch) = h[DOMAIN batch]
  BY DEF Worn, FoldLeft, MapThenFoldSet
<1>6. h = Rec(h)
  BY <1>4, <1>5
<1>7. ASSUME NEW s \in SUBSET (1 .. n)
      PROVE  h[s] = IF s = {} THEN m ELSE Dressed(a, h[s \ {Max(s)}], batch[Max(s)])
  BY <1>2, <1>6
<1> HIDE DEF f, Rec, n
<1>8. Unfolds(h, Materials, f, m, batch, n)
  BY <1>3, <1>7 DEF Unfolds
<1>9. PICK p \in [0 .. n -> Materials] : Computes(p, f, m, batch, n, h[1 .. n])
  BY <1>1, <1>2, <1>8, FoldComputes
<1>10. ASSUME NEW i \in 0 .. n - 1
       PROVE  p[i + 1] = Dressed(a, p[i], batch[i + 1])
  <2>1. i \in 0 .. n /\ i + 1 \in 1 .. n
    BY <1>2
  <2>2. p[i] \in Materials /\ batch[i + 1] \in Commands
    BY <1>2, <2>1
  <2>3. p[i + 1] = f[<<p[i], batch[i + 1]>>]
    BY <1>9 DEF Computes
  <2> QED
    BY <2>2, <2>3 DEF f
<1>11. p[0] = m /\ p[n] = Worn(a, m, batch)
  BY <1>2, <1>5, <1>9 DEF Computes
<1> QED
  BY <1>9, <1>10, <1>11 DEF n

(* A batch, to one entity: it stands if it stood and nothing destroys it,   *)
(* and then it is what the moves and the dresses make of it.                *)
Names(batch, a, kind) == \E j \in DOMAIN batch : IsFor(batch[j], a, kind)

LEMMA ReplayOfEntity ==
  ASSUME NEW w \in Scenes, NEW batch \in Seq(Commands), NEW a \in Addresses
  PROVE  /\ stillInScene(After(w, batch), a) <=> stillInScene(w, a) /\ ~Names(batch, a, "EntityDestroy")
         /\ stillInScene(After(w, batch), a) =>
              LET e == After(w, batch).entity[a] IN
              /\ e.born = w.entity[a].born
              /\ e.place = Placed(a, w.entity[a].place, batch)
              /\ e.visible = (w.entity[a].visible /\ ~Names(batch, a, "EntityVisible"))
              /\ e.material = Worn(a, w.entity[a].material, batch)
<1> DEFINE n == Len(batch)
           Until(i, kind) == \E j \in 1 .. i : IsFor(batch[j], a, kind)
<1>1. n \in Nat /\ DOMAIN batch = 1 .. n /\ \A i \in 1 .. n : batch[i] \in Commands
  OBVIOUS
<1>2. \A kind : Names(batch, a, kind) <=> Until(n, kind)
  BY <1>1 DEF Names
<1>3. PICK p \in [0 .. n -> Scenes] :
        /\ p[0] = w /\ p[n] = After(w, batch)
        /\ \A i \in 0 .. n - 1 : p[i + 1] = Applied(p[i], batch[i + 1])
  BY ReplayGoes
<1> HIDE DEF n
<1>4. ASSUME NEW i \in 0 .. n - 1
      PROVE  /\ i \in 0 .. n /\ i + 1 \in 0 .. n /\ i + 1 \in 1 .. n
             /\ p[i] \in Scenes /\ batch[i + 1] \in Commands
             /\ \A kind : Until(i + 1, kind) <=> Until(i, kind) \/ IsFor(batch[i + 1], a, kind)
  <2>1. i \in 0 .. n /\ i + 1 \in 0 .. n /\ i + 1 \in 1 .. n
    BY <1>1
  <2>2. 1 .. i + 1 = (1 .. i) \cup {i + 1}
    BY <1>1
  <2>3. \A kind : Until(i + 1, kind) <=> Until(i, kind) \/ IsFor(batch[i + 1], a, kind)
    BY <2>2
  <2> QED
    BY <1>1, <1>3, <2>1, <2>3
<1>5. 1 .. 0 = {}
  OBVIOUS
<1>6. \A kind : ~Until(0, kind)
  BY <1>5
<1> HIDE DEF Until
<1>7. \A i \in 0 .. n : stillInScene(p[i], a) <=> stillInScene(w, a) /\ ~Until(i, "EntityDestroy")
  <2> DEFINE T == {i \in 0 .. n : stillInScene(p[i], a) <=> stillInScene(w, a) /\ ~Until(i, "EntityDestroy")}
  <2>1. 0 \in T
    BY <1>1, <1>3, <1>6
  <2>2. ASSUME NEW i \in 0 .. n - 1, i \in T
        PROVE  i + 1 \in T
    <3>1. stillInScene(p[i + 1], a) <=> stillInScene(p[i], a) /\ ~IsFor(batch[i + 1], a, "EntityDestroy")
      BY <1>3, <1>4, AppliedToEntity
    <3> QED
      BY <1>4, <2>2, <3>1
  <2>3. \A i \in 0 .. n : i \in T
    <3> HIDE DEF T
    <3> QED
      BY <1>1, <2>1, <2>2, UpTo
  <2> QED
    BY <2>3
<1>8. stillInScene(After(w, batch), a) <=> stillInScene(w, a) /\ ~Names(batch, a, "EntityDestroy")
  BY <1>1, <1>2, <1>3, <1>7
<1>9. ASSUME stillInScene(After(w, batch), a)
      PROVE  LET e == After(w, batch).entity[a] IN
              /\ e.born = w.entity[a].born
              /\ e.place = Placed(a, w.entity[a].place, batch)
              /\ e.visible = (w.entity[a].visible /\ ~Names(batch, a, "EntityVisible"))
              /\ e.material = Worn(a, w.entity[a].material, batch)
  <2>1. w.entity[a].place \in Spots /\ w.entity[a].material \in Materials /\ w.entity[a].visible \in BOOLEAN
    BY <1>8, <1>9, EntityTypes DEF Standing, Spots
  <2>2. PICK q \in [0 .. n -> Spots] :
          /\ q[0] = w.entity[a].place /\ q[n] = Placed(a, w.entity[a].place, batch)
          /\ \A i \in 0 .. n - 1 : q[i + 1] = Moved(a, q[i], batch[i + 1])
    BY <2>1, MovesGo DEF n
  <2>3. PICK r \in [0 .. n -> Materials] :
          /\ r[0] = w.entity[a].material /\ r[n] = Worn(a, w.entity[a].material, batch)
          /\ \A i \in 0 .. n - 1 : r[i + 1] = Dressed(a, r[i], batch[i + 1])
    BY <2>1, DressesGo DEF n
  <2> DEFINE T == {i \in 0 .. n :
                     stillInScene(p[i], a) =>
                       /\ p[i].entity[a].born = w.entity[a].born
                       /\ p[i].entity[a].place = q[i] /\ p[i].entity[a].material = r[i]
                       /\ p[i].entity[a].visible = (w.entity[a].visible /\ ~Until(i, "EntityVisible"))}
  <2>4. 0 \in T
    <3>1. 0 \in 0 .. n
      BY <1>1
    <3>2. p[0].entity[a].place = q[0] /\ p[0].entity[a].material = r[0]
      BY <1>3, <2>2, <2>3
    <3>3. p[0].entity[a].visible = (w.entity[a].visible /\ ~Until(0, "EntityVisible"))
      BY <1>3, <1>6, <2>1
    <3>4. p[0].entity[a].born = w.entity[a].born
      BY <1>3
    <3> QED
      BY <3>1, <3>2, <3>3, <3>4
  <2>5. ASSUME NEW i \in 0 .. n - 1, i \in T
        PROVE  i + 1 \in T
    <3> DEFINE d == p[i].entity[a]
               e == p[i + 1].entity[a]
               c == batch[i + 1]
    <3>1. SUFFICES ASSUME stillInScene(p[i + 1], a)
                   PROVE  /\ e.born = w.entity[a].born
                          /\ e.place = q[i + 1] /\ e.material = r[i + 1]
                          /\ e.visible = (w.entity[a].visible /\ ~Until(i + 1, "EntityVisible"))
      BY <1>4
    <3>2. p[i] \in Scenes /\ c \in Commands /\ p[i + 1] = Applied(p[i], c)
      BY <1>3, <1>4
    <3>3. stillInScene(p[i], a)
      BY <3>1, <3>2, AppliedToEntity
    <3>4. e.born = d.born /\ e.place = Moved(a, d.place, c) /\ e.visible = (d.visible /\ ~IsFor(c, a, "EntityVisible")) /\ e.material = Dressed(a, d.material, c)
      BY <3>1, <3>2, AppliedToEntity
    <3>5. d.born = w.entity[a].born /\ d.place = q[i] /\ d.material = r[i] /\ d.visible = (w.entity[a].visible /\ ~Until(i, "EntityVisible"))
      BY <2>5, <3>3
    <3>6. e.visible = (w.entity[a].visible /\ ~Until(i + 1, "EntityVisible"))
      BY <1>4, <3>4, <3>5
    <3> QED
      BY <2>2, <2>3, <3>4, <3>5, <3>6
  <2>6. \A i \in 0 .. n : i \in T
    <3> HIDE DEF T
    <3> QED
      BY <1>1, <2>4, <2>5, UpTo
  <2>7. n \in 0 .. n
    BY <1>1
  <2>8. n \in T
    BY <2>6, <2>7
  <2> QED
    BY <1>2, <1>3, <1>9, <2>2, <2>3, <2>8
<1> QED
  BY <1>8, <1>9

(* A batch, to the numbers. *)
LEMMA ReplayOfNumbers ==
  ASSUME NEW w \in Scenes, NEW batch \in Seq(Commands)
  PROVE  /\ After(w, batch) \in Scenes
         /\ \A m \in Materials : After(w, batch).scalar[m] =
              IF \E j \in DOMAIN batch : batch[j].kind = "MaterialScalar" /\ batch[j].material = m
              THEN 1 ELSE w.scalar[m]
         /\ After(w, batch).sun = IF \E j \in DOMAIN batch : batch[j].kind = "LightScalar" THEN 1 ELSE w.sun
<1> DEFINE n == Len(batch)
           Numbered(i, m) == \E j \in 1 .. i : batch[j].kind = "MaterialScalar" /\ batch[j].material = m
           Lit(i) == \E j \in 1 .. i : batch[j].kind = "LightScalar"
<1>1. n \in Nat /\ DOMAIN batch = 1 .. n /\ \A i \in 1 .. n : batch[i] \in Commands
  OBVIOUS
<1>2. PICK p \in [0 .. n -> Scenes] :
        /\ p[0] = w /\ p[n] = After(w, batch)
        /\ \A i \in 0 .. n - 1 : p[i + 1] = Applied(p[i], batch[i + 1])
  BY ReplayGoes
<1> HIDE DEF n
<1> DEFINE T == {i \in 0 .. n : /\ \A m \in Materials : p[i].scalar[m] = IF Numbered(i, m) THEN 1 ELSE w.scalar[m]
                                /\ p[i].sun = IF Lit(i) THEN 1 ELSE w.sun}
<1>3. 0 \in T
  <2>1. 1 .. 0 = {} /\ 0 \in 0 .. n
    BY <1>1
  <2> QED
    BY <1>2, <2>1
<1>4. ASSUME NEW i \in 0 .. n - 1, i \in T
      PROVE  i + 1 \in T
  <2> DEFINE c == batch[i + 1]
  <2>1. i \in 0 .. n /\ i + 1 \in 0 .. n /\ i + 1 \in 1 .. n /\ 1 .. i + 1 = (1 .. i) \cup {i + 1}
    BY <1>1
  <2>2. p[i] \in Scenes /\ c \in Commands /\ p[i + 1] = Applied(p[i], c)
    BY <1>1, <1>2, <2>1
  <2>3. /\ \A m \in Materials : Numbered(i + 1, m) <=> Numbered(i, m) \/ (c.kind = "MaterialScalar" /\ c.material = m)
        /\ Lit(i + 1) <=> Lit(i) \/ c.kind = "LightScalar"
    <3>1. \A m \in Materials : Numbered(i + 1, m) <=> Numbered(i, m) \/ (c.kind = "MaterialScalar" /\ c.material = m)
      BY <2>1
    <3>2. Lit(i + 1) <=> Lit(i) \/ c.kind = "LightScalar"
      BY <2>1
    <3> QED
      BY <3>1, <3>2
  <2>4. /\ \A m \in Materials : p[i + 1].scalar[m] =
              IF c.kind = "MaterialScalar" /\ c.material = m THEN 1 ELSE p[i].scalar[m]
        /\ p[i + 1].sun = IF c.kind = "LightScalar" THEN 1 ELSE p[i].sun
    <3> HIDE DEF c
    <3>1. \A m \in Materials : Applied(p[i], c).scalar[m] =
              IF c.kind = "MaterialScalar" /\ c.material = m THEN 1 ELSE p[i].scalar[m]
      BY <2>2, AppliedToNumbers
    <3>2. Applied(p[i], c).sun = IF c.kind = "LightScalar" THEN 1 ELSE p[i].sun
      BY <2>2, AppliedToNumbers
    <3> QED
      BY <2>2, <3>1, <3>2
  <2>5. /\ \A m \in Materials : p[i].scalar[m] = IF Numbered(i, m) THEN 1 ELSE w.scalar[m]
        /\ p[i].sun = IF Lit(i) THEN 1 ELSE w.sun
    BY <1>4
  <2> HIDE DEF Numbered, Lit
  <2>6. \A m \in Materials : p[i + 1].scalar[m] = IF Numbered(i + 1, m) THEN 1 ELSE w.scalar[m]
    BY <2>3, <2>4, <2>5
  <2>7. p[i + 1].sun = IF Lit(i + 1) THEN 1 ELSE w.sun
    BY <2>3, <2>4, <2>5
  <2> QED
    BY <2>1, <2>6, <2>7
<1>5. \A i \in 0 .. n : i \in T
  <2> HIDE DEF T
  <2> QED
    BY <1>1, <1>3, <1>4, UpTo
<1>6. n \in 0 .. n
  BY <1>1
<1>7. n \in T /\ p[n] \in Scenes
  BY <1>5, <1>6
<1> QED
  BY <1>1, <1>2, <1>7

-----------------------------------------------------------------------------
Threads == Workers \cup {"loop"}

(* A thread's queue holds what the run on it asked for, and nothing        *)
(* between two runs: no other script engine records there.                 *)
QueueIsTheRuns ==
  \A s \in Scripts : /\ queue[ThreadOf(s)] = asked[s]
                     /\ phase[s] = "idle" => asked[s] = << >>

(* Entities are made one at a time, at addresses. *)
Homed == homes \in Seq(Addresses) /\ Len(homes) \in 1 .. MaxBirths + 1

IInv == /\ queue \in [Threads -> Seq(Commands)]
        /\ asked \in [Scripts -> Seq(Commands)]
        /\ phase \in [Scripts -> {"idle", "running", "making", "committing"}]
        /\ QueueIsTheRuns /\ Homed

-----------------------------------------------------------------------------
(* Two script engines are on two threads. *)
LEMMA ThreadsDiffer ==
  ASSUME NEW s \in Scripts, NEW t \in Scripts
  PROVE  ThreadOf(s) \in Threads /\ (ThreadOf(s) = ThreadOf(t) => s = t)
BY ScriptsAssumption DEF ThreadOf, Scripts, Cell, Threads

(* At the start nothing is asked, and one entity stands. *)
LEMMA Starts ==
  ASSUME Init
  PROVE  IInv /\ Promised!Init
<1>1. PICK a \in Addresses : /\ scene = [entity |-> [b \in Addresses |-> IF b = a THEN NewEntity(1) ELSE Nothing],
                                         scalar |-> [m \in Materials |-> 0], sun |-> 0]
                             /\ homes = <<a>>
  BY DEF Init
<1>2. IInv
  <2>1. Homed
    BY <1>1, ScriptsAssumption DEF Homed
  <2>2. QueueIsTheRuns
    BY ThreadsDiffer DEF QueueIsTheRuns, Init, Threads
  <2> QED
    BY <2>1, <2>2 DEF IInv, Init, Threads
<1>3. scene \in Scenes
  <2>1. NewEntity(1) \in Entities /\ Nothing \in Entities
    BY ScriptsAssumption DEF NewEntity, Nothing, Entities, Materials
  <2> QED
    BY <1>1, <2>1 DEF Scenes
<1> QED
  BY <1>2, <1>3 DEF Promised!Init, Init

-----------------------------------------------------------------------------
(* Recording one command adds it to the queue and to what was asked for.   *)
LEMMA Recorded ==
  ASSUME IInv, NEW s \in Scripts, NEW c \in Commands, Record(s, c)
  PROVE  IInv' /\ Promised!Ask(s)
<1> USE ThreadsDiffer DEF IInv
<1>1. scriptQueue(s) = asked[s] /\ asked[s] \in Seq(Commands)
  BY DEF QueueIsTheRuns, scriptQueue
<1>2. QueueIsTheRuns'
  <2> SUFFICES ASSUME NEW t \in Scripts
               PROVE  queue'[ThreadOf(t)] = asked'[t] /\ (phase'[t] = "idle" => asked'[t] = << >>)
    BY DEF QueueIsTheRuns
  <2>1. CASE t = s
    BY <1>1, <2>1 DEF Record
  <2>2. CASE t # s
    BY <1>1, <2>2 DEF Record, QueueIsTheRuns
  <2> QED
    BY <2>1, <2>2
<1>3. Append(asked[s], c) \in Seq(Commands)
  BY <1>1
<1>4. queue' \in [Threads -> Seq(Commands)] /\ asked' \in [Scripts -> Seq(Commands)]
  BY <1>1, <1>3 DEF Record
<1>5. Homed' /\ phase' = phase
  BY DEF Homed, Record
<1>6. Promised!Ask(s)
  BY DEF Promised!Ask, Record
<1> QED
  BY <1>2, <1>4, <1>5, <1>6

(* Everything a script may ask for is a command. *)
LEMMA Asked ==
  ASSUME IInv, NEW s \in Scripts, AskEntity(s) \/ AskMaterial(s) \/ AskLight(s)
  PROVE  \E c \in Commands : Record(s, c)
<1>1. CASE AskEntity(s)
  <2>1. PICK n \in DOMAIN homes, k \in Kinds : Record(s, Command(k, homes[n], n, "made"))
    BY <1>1 DEF AskEntity
  <2>2. homes[n] \in Addresses /\ n \in 1 .. MaxBirths + 1
    BY ScriptsAssumption DEF IInv, Homed
  <2>3. Command(k, homes[n], n, "made") \in Commands
    BY <2>2 DEF Commands
  <2> QED
    BY <2>1, <2>3
<1>2. CASE AskMaterial(s)
  BY <1>2 DEF AskMaterial, Commands
<1>3. CASE AskLight(s)
  BY <1>3 DEF AskLight, Commands
<1> QED
  BY <1>1, <1>2, <1>3

(* A run is over: its own queue is empty, and no other one is touched. *)
LEMMA Ended ==
  ASSUME IInv, NEW s \in Scripts, Over(s)
  PROVE  IInv'
<1> USE ThreadsDiffer DEF IInv
<1>1. << >> \in Seq(Commands)
  OBVIOUS
<1>2. QueueIsTheRuns'
  <2> SUFFICES ASSUME NEW t \in Scripts
               PROVE  queue'[ThreadOf(t)] = asked'[t] /\ (phase'[t] = "idle" => asked'[t] = << >>)
    BY DEF QueueIsTheRuns
  <2>1. CASE t = s
    BY <2>1 DEF Over, Enter
  <2>2. CASE t # s
    BY <2>2 DEF Over, Enter, QueueIsTheRuns
  <2> QED
    BY <2>1, <2>2
<1>3. Homed'
  BY DEF Homed, Over
<1> QED
  BY <1>1, <1>2, <1>3 DEF Over, Enter

(* The queue is replayed as the commands the run asked for. *)
LEMMA Performed ==
  ASSUME IInv, NEW s \in Scripts, Perform(s), Over(s)
  PROVE  IInv' /\ Promised!Commit(s)
<1>1. scriptQueue(s) = asked[s]
  BY DEF IInv, QueueIsTheRuns, scriptQueue
<1> QED
  BY <1>1, Ended DEF Perform, Over, Promised!Commit

(* A queue thrown away leaves the scene alone. *)
LEMMA Discarded ==
  ASSUME IInv, NEW s \in Scripts, discard(s), Over(s)
  PROVE  IInv' /\ Promised!Abandon(s)
BY Ended DEF discard, Over, Promised!Abandon

(* A step that changes only what a script engine or the loop is doing. *)
LEMMA Quiet ==
  ASSUME IInv, UNCHANGED <<queue, asked, homes>>,
         phase' \in [Scripts -> {"idle", "running", "making", "committing"}],
         \A s \in Scripts : phase'[s] = "idle" => phase[s] = "idle"
  PROVE  IInv'
BY DEF IInv, QueueIsTheRuns, Homed

-----------------------------------------------------------------------------
(* Every step of a script engine is one of Transactions, or none. *)
LEMMA EngineSteps ==
  ASSUME IInv, NEW s \in Scripts, Step(s)
  PROVE  IInv' /\ [Promised!Next]_<<scene, asked, told>>
<1>0. phase \in [Scripts -> {"idle", "running", "making", "committing"}]
  BY DEF IInv
<1>1. CASE Eval(s)
  <2>1. IInv'
    BY <1>0, <1>1, Quiet DEF Eval, Enter
  <2>2. Promised!Begin(s)
    BY <1>1 DEF Eval, Promised!Begin
  <2> QED
    BY <2>1, <2>2 DEF Promised!Next
<1>2. CASE AskEntity(s) \/ AskMaterial(s) \/ AskLight(s)
  BY <1>2, Asked, Recorded DEF Promised!Next
<1>3. CASE CreateMaterial(s)
  BY <1>0, <1>3, Quiet DEF CreateMaterial, Enter
<1>4. CASE Make(s)
  BY <1>0, <1>4, Quiet DEF Make, Enter
<1>5. CASE NotMade(s)
  BY <1>0, <1>5, Quiet DEF NotMade, Enter
<1>6. CASE Throws(s)
  BY <1>6, Discarded DEF Throws, Promised!Next
<1>7. CASE Returns(s)
  <2>1. CASE s = Cell
    BY <1>7, <2>1, Performed DEF Returns, Promised!Next
  <2>2. CASE s # Cell
    BY <1>0, <1>7, <2>2, Quiet DEF Returns, Enter
  <2> QED
    BY <2>1, <2>2
<1>8. CASE Commit(s)
  BY <1>8, Performed DEF Commit, Promised!Next
<1>9. CASE Refuse(s)
  BY <1>9, Discarded DEF Refuse, Promised!Next
<1> QED
  BY <1>1, <1>2, <1>3, <1>4, <1>5, <1>6, <1>7, <1>8, <1>9 DEF Step

(* Every step of the application is one of Transactions, or none. *)
LEMMA ApplicationSteps ==
  ASSUME IInv, createEntity \/ Destroy \/ Stop \/ releaseScriptMaterials
  PROVE  IInv' /\ [Promised!Next]_<<scene, asked, told>>
<1>1. CASE createEntity
  <2>1. PICK a \in Addresses : /\ LoopIsFree /\ Len(homes) <= MaxBirths /\ ~stillInScene(scene, a)
                               /\ scene' = Births(scene, a, Len(homes) + 1)
                               /\ homes' = Append(homes, a)
                               /\ UNCHANGED <<queue, phase, made, running, told, asked, asks>>
    BY <1>1 DEF createEntity
  <2>2. Len(homes) + 1 \in 1 .. MaxBirths + 1 /\ homes \in Seq(Addresses)
    BY <2>1, ScriptsAssumption DEF IInv, Homed
  <2>3. Homed'
    BY <2>1, <2>2 DEF Homed
  <2>4. IInv'
    BY <2>1, <2>3 DEF IInv, QueueIsTheRuns
  <2>5. scene' \in Changes(scene)
    BY <2>1, <2>2 DEF Changes
  <2> QED
    BY <2>1, <2>4, <2>5 DEF Promised!Next, Promised!Application
<1>2. CASE Destroy
  <2>1. IInv'
    BY <1>2, Quiet DEF IInv, Destroy
  <2>2. scene' \in Changes(scene) /\ UNCHANGED <<asked, told>>
    BY <1>2 DEF Destroy, Changes
  <2> QED
    BY <2>1, <2>2 DEF Promised!Next, Promised!Application
<1>3. CASE Stop \/ releaseScriptMaterials
  BY <1>3, Quiet DEF IInv, Stop, releaseScriptMaterials
<1> QED
  BY <1>1, <1>2, <1>3

(* IInv is inductive, and every step refines. *)
LEMMA Steps ==
  ASSUME IInv, [Next]_vars
  PROVE  IInv' /\ [Promised!Next]_<<scene, asked, told>>
<1>1. CASE Next
  BY <1>1, EngineSteps, ApplicationSteps DEF Next
<1>2. CASE UNCHANGED vars
  BY <1>2 DEF vars, IInv, QueueIsTheRuns, Homed
<1> QED
  BY <1>1, <1>2

(* Whatever the interleaving of any number of script engines, the loop and  *)
(* the application, a run happens whole, in order and once, or not at all.  *)
(* (ScriptEngine::eval, the hook of bindEngine, ScriptQueue.)               *)
THEOREM RunsAreTransactions == Spec => ImplementsTransactions
<1>1. Init => IInv /\ Promised!Init
  BY Starts
<1>2. IInv /\ [Next]_vars => IInv' /\ [Promised!Next]_<<scene, asked, told>>
  BY Steps
<1> QED
  BY <1>1, <1>2, PTL DEF Spec, ImplementsTransactions, Promised!Spec

-----------------------------------------------------------------------------
(* What a run reads, once its queue holds what it asked for.               *)
LEMMA RunsReadThemselves ==
  ASSUME scene \in Scenes, asked \in [Scripts -> Seq(Commands)], QueueIsTheRuns
  PROVE  ReadsAreItsOwnWrites
<1> SUFFICES ASSUME NEW s \in Scripts
             PROVE  LET then == After(scene, asked[s]) IN
                    /\ \A a \in Addresses :
                         /\ entitySelf(s, a) <=> stillInScene(then, a)
                         /\ entitySelf(s, a) => /\ pendingPosition(s, a) = then.entity[a].place
                                                /\ pendingVisible(s, a) = then.entity[a].visible
                                                /\ pendingMaterial(s, a) = then.entity[a].material
                    /\ \A m \in Materials : pendingMaterialScalar(s, m) = then.scalar[m]
                    /\ pendingLightScalar(s) = then.sun
  BY DEF ReadsAreItsOwnWrites
<1> DEFINE batch == asked[s]
           then == After(scene, batch)
<1>1. scriptQueue(s) = batch /\ batch \in Seq(Commands)
  BY DEF QueueIsTheRuns, scriptQueue
<1>2. ASSUME NEW a \in Addresses
      PROVE  /\ entitySelf(s, a) <=> stillInScene(then, a)
             /\ entitySelf(s, a) => /\ pendingPosition(s, a) = then.entity[a].place
                                    /\ pendingVisible(s, a) = then.entity[a].visible
                                    /\ pendingMaterial(s, a) = then.entity[a].material
  <2>1. \A k : Pending(s, a, k) <=> Names(batch, a, k)
    BY <1>1 DEF Pending, Names
  <2>2. entitySelf(s, a) <=> stillInScene(then, a)
    BY <1>1, <2>1, ReplayOfEntity DEF entitySelf, pendingDestroyed
  <2>3. pendingPosition(s, a) = Placed(a, scene.entity[a].place, batch)
    BY <1>1 DEF pendingPosition, Placed
  <2>4. pendingMaterial(s, a) = Worn(a, scene.entity[a].material, batch)
    BY <1>1 DEF pendingMaterial, Worn
  <2>5. pendingVisible(s, a) = (scene.entity[a].visible /\ ~Names(batch, a, "EntityVisible"))
    BY <2>1 DEF pendingVisible
  <2> QED
    BY <1>1, <2>2, <2>3, <2>4, <2>5, ReplayOfEntity
<1>3. ASSUME NEW m \in Materials
      PROVE  pendingMaterialScalar(s, m) = then.scalar[m]
  BY <1>1, ReplayOfNumbers DEF pendingMaterialScalar
<1>4. pendingLightScalar(s) = then.sun
  BY <1>1, ReplayOfNumbers DEF pendingLightScalar
<1> QED
  BY <1>2, <1>3, <1>4

(* The scene stays a scene, whoever changes it. *)
LEMMA ScenesStay ==
  ASSUME IInv, TypeOK, [Next]_vars
  PROVE  scene' \in Scenes
<1>1. ASSUME NEW s \in Scripts, Perform(s)
      PROVE  scene' \in Scenes
  <2>1. scriptQueue(s) \in Seq(Commands)
    BY ThreadsDiffer DEF IInv, scriptQueue
  <2> QED
    BY <1>1, <2>1, ReplayOfNumbers DEF Perform, TypeOK
<1>2. ASSUME NEW a \in Addresses, NEW e \in Entities
      PROVE  [scene EXCEPT !.entity[a] = e] \in Scenes
  BY DEF TypeOK, Scenes
<1>3. CASE createEntity
  <2>1. PICK a \in Addresses : Len(homes) <= MaxBirths /\ scene' = Births(scene, a, Len(homes) + 1)
    BY <1>3 DEF createEntity
  <2>2. Len(homes) + 1 \in 1 .. MaxBirths + 1
    BY <2>1, ScriptsAssumption DEF IInv, Homed
  <2>3. NewEntity(Len(homes) + 1) \in Entities
    BY <2>2 DEF NewEntity, Entities, Materials
  <2> QED
    BY <1>2, <2>1, <2>3 DEF Births
<1>4. CASE Destroy
  BY <1>2, <1>4 DEF Destroy, Deaths, destroyEntity, Entities
<1>5. CASE UNCHANGED scene
  BY <1>5 DEF TypeOK
<1>6. \/ createEntity \/ Destroy \/ UNCHANGED scene
      \/ \E s \in Scripts : Perform(s)
  BY DEF Next, vars, Step, Eval, AskEntity, AskMaterial, AskLight, Record, CreateMaterial, Make, NotMade,
         Throws, Returns, Commit, Refuse, discard, Stop, releaseScriptMaterials
<1> QED
  BY <1>1, <1>3, <1>4, <1>5, <1>6

(* Types are kept. *)
LEMMA TypesStay ==
  ASSUME IInv, TypeOK, [Next]_vars
  PROVE  TypeOK'
<1>1. IInv' /\ scene' \in Scenes
  BY Steps, ScenesStay
<1>2. ASSUME NEW s \in Scripts, Step(s)
      PROVE  running' = running /\ (made' = made \/ made' = "live")
  <2>1. CASE Eval(s) \/ AskEntity(s) \/ AskMaterial(s) \/ AskLight(s) \/ CreateMaterial(s)
    BY <2>1 DEF Eval, AskEntity, AskMaterial, AskLight, CreateMaterial, Record, Over
  <2>2. CASE Make(s) \/ NotMade(s) \/ Throws(s) \/ Returns(s)
    BY <2>2 DEF Make, NotMade, Throws, Returns, Over
  <2>3. CASE Commit(s) \/ Refuse(s)
    BY <2>3 DEF Commit, Refuse, Perform, Over, discard
  <2> QED
    BY <1>2, <2>1, <2>2, <2>3 DEF Step
<1>3. made' \in {"none", "live", "freed"} /\ running' \in BOOLEAN
  <2>1. CASE \E s \in Scripts : Step(s)
    BY <1>2, <2>1 DEF TypeOK
  <2>2. CASE createEntity \/ Destroy \/ UNCHANGED vars
    BY <2>2 DEF createEntity, Destroy, vars, TypeOK
  <2>3. CASE Stop \/ releaseScriptMaterials
    BY <2>3 DEF Stop, releaseScriptMaterials, TypeOK
  <2> QED
    BY <2>1, <2>2, <2>3 DEF Next
<1> QED
  BY <1>1, <1>3 DEF IInv, Homed, Threads, TypeOK

(* The scene is one from the start.                                         *)
LEMMA TypesStart ==
  ASSUME Init
  PROVE  IInv /\ TypeOK
<1>1. IInv /\ scene \in Scenes
  BY Starts DEF Promised!Init
<1> QED
  BY <1>1 DEF IInv, Init, TypeOK, Homed, Threads

(* A run reads what the scene would be if it were committed now: its own    *)
(* writes, composed in order over whatever the application and the other    *)
(* scripts have made of the scene since, for every set of script engines    *)
(* and entities and every length of a run.  (The pending functions of       *)
(* ScriptQueue.cpp against ScriptQueue::apply.)                             *)
THEOREM RunsReadTheirOwnWrites == Spec => []ReadsAreSound
<1>1. Init => IInv /\ TypeOK
  BY TypesStart
<1>2. IInv /\ TypeOK /\ [Next]_vars => IInv' /\ TypeOK'
  BY Steps, TypesStay
<1>3. IInv /\ TypeOK => ReadsAreSound
  BY RunsReadThemselves DEF IInv, TypeOK, ReadsAreSound
<1> QED
  BY <1>1, <1>2, <1>3, PTL DEF Spec

-----------------------------------------------------------------------------
(* Who an address is.  An entity that stands, and the one a command was      *)
(* recorded for, were created where they are said to be; and a run records   *)
(* nothing more for an address once it has recorded its destruction.         *)
Housed ==
  \A a \in Addresses : stillInScene(scene, a) =>
    /\ scene.entity[a].born \in DOMAIN homes
    /\ homes[scene.entity[a].born] = a

Addressed ==
  \A s \in Scripts : \A i \in DOMAIN asked[s] :
    needsEntity(asked[s][i]) => /\ asked[s][i].born \in DOMAIN homes
                               /\ homes[asked[s][i].born] = asked[s][i].entity

DestroyedLast ==
  \A s \in Scripts : \A j \in DOMAIN asked[s] : \A i \in 1 .. j - 1 :
    needsEntity(asked[s][j]) => ~IsFor(asked[s][i], asked[s][j].entity, "EntityDestroy")

NInv == Housed /\ Addressed /\ DestroyedLast

(* The first entity stands where it was created, and nothing is recorded.   *)
LEMMA NamesStart ==
  ASSUME Init
  PROVE  NInv
<1>1. PICK a \in Addresses : /\ scene = [entity |-> [b \in Addresses |-> IF b = a THEN NewEntity(1) ELSE Nothing],
                                         scalar |-> [m \in Materials |-> 0], sun |-> 0]
                             /\ homes = <<a>>
  BY DEF Init
<1>2. Housed
  BY <1>1 DEF Housed, stillInScene, NewEntity
<1>3. \A s \in Scripts : asked[s] = << >>
  BY DEF Init
<1> QED
  BY <1>2, <1>3 DEF NInv, Addressed, DestroyedLast

(* Nobody but createEntity gives an address to an entity.                   *)
LEMMA HousesKept ==
  ASSUME Housed, UNCHANGED homes,
         \A a \in Addresses : stillInScene(scene', a) =>
           stillInScene(scene, a) /\ scene'.entity[a].born = scene.entity[a].born
  PROVE  Housed'
BY DEF Housed, stillInScene

(* Recording: what a run names, it may use.                                 *)
LEMMA RecordingNames ==
  ASSUME IInv, NInv, NEW s \in Scripts, NEW c \in Commands, Record(s, c),
         needsEntity(c) => /\ c.born \in DOMAIN homes /\ homes[c.born] = c.entity
                           /\ ~pendingDestroyed(s, c.entity)
  PROVE  Addressed' /\ DestroyedLast'
<1> DEFINE q == asked[s]
           n == Len(q)
<1>1. q \in Seq(Commands) /\ n \in Nat /\ scriptQueue(s) = q
  BY ThreadsDiffer DEF IInv, QueueIsTheRuns, scriptQueue
<1>2. asked' = [asked EXCEPT ![s] = Append(q, c)] /\ homes' = homes
  BY DEF Record
<1>3. /\ asked'[s] = Append(q, c)
      /\ \A t \in Scripts : t # s => asked'[t] = asked[t]
  BY <1>2 DEF IInv
<1>4. /\ DOMAIN asked'[s] = 1 .. n + 1 /\ DOMAIN q = 1 .. n
      /\ \A i \in 1 .. n : asked'[s][i] = q[i]
      /\ asked'[s][n + 1] = c
  BY <1>1, <1>3
<1>5. Addressed'
  <2> SUFFICES ASSUME NEW t \in Scripts, NEW i \in DOMAIN asked'[t], needsEntity(asked'[t][i])
               PROVE  /\ asked'[t][i].born \in DOMAIN homes
                      /\ homes[asked'[t][i].born] = asked'[t][i].entity
    BY <1>2 DEF Addressed, needsEntity
  <2>1. CASE t # s
    BY <1>3, <2>1 DEF NInv, Addressed
  <2>2. CASE t = s /\ i \in 1 .. n
    BY <1>4, <2>2 DEF NInv, Addressed
  <2>3. CASE t = s /\ i = n + 1
    BY <1>4, <2>3
  <2> QED
    BY <1>1, <1>4, <2>1, <2>2, <2>3
<1>6. DestroyedLast'
  <2> SUFFICES ASSUME NEW t \in Scripts, NEW j \in DOMAIN asked'[t], NEW i \in 1 .. j - 1,
                      needsEntity(asked'[t][j])
               PROVE  ~IsFor(asked'[t][i], asked'[t][j].entity, "EntityDestroy")
    BY DEF DestroyedLast, needsEntity, IsFor
  <2>1. CASE t # s
    BY <1>3, <2>1 DEF NInv, DestroyedLast
  <2>2. CASE t = s /\ j \in 1 .. n
    <3>1. i \in 1 .. n
      BY <1>1, <2>2
    <3> QED
      BY <1>4, <2>2, <3>1 DEF NInv, DestroyedLast
  <2>3. CASE t = s /\ j = n + 1
    <3>1. i \in 1 .. n
      BY <1>1, <2>3
    <3> QED
      BY <1>1, <1>4, <2>3, <3>1 DEF pendingDestroyed, Pending
  <2> QED
    BY <1>1, <1>4, <2>1, <2>2, <2>3
<1> QED
  BY <1>5, <1>6

(* A run that is over names nothing any more.                               *)
LEMMA EndingNames ==
  ASSUME IInv, NInv, NEW s \in Scripts, Over(s)
  PROVE  Addressed' /\ DestroyedLast'
<1>1. /\ asked'[s] = << >> /\ homes' = homes
      /\ \A t \in Scripts : t # s => asked'[t] = asked[t]
  BY DEF Over, IInv
<1>2. Addressed'
  <2> SUFFICES ASSUME NEW t \in Scripts, NEW i \in DOMAIN asked'[t], needsEntity(asked'[t][i])
               PROVE  /\ asked'[t][i].born \in DOMAIN homes
                      /\ homes[asked'[t][i].born] = asked'[t][i].entity
    BY <1>1 DEF Addressed, needsEntity
  <2> QED
    BY <1>1 DEF NInv, Addressed
<1>3. DestroyedLast'
  <2> SUFFICES ASSUME NEW t \in Scripts, NEW j \in DOMAIN asked'[t], NEW i \in 1 .. j - 1,
                      needsEntity(asked'[t][j])
               PROVE  ~IsFor(asked'[t][i], asked'[t][j].entity, "EntityDestroy")
    BY DEF DestroyedLast, needsEntity, IsFor
  <2> QED
    BY <1>1 DEF NInv, DestroyedLast
<1> QED
  BY <1>2, <1>3

(* Every step keeps who the addresses are.                                  *)
LEMMA NamesStay ==
  ASSUME IInv, TypeOK, NInv, [Next]_vars
  PROVE  NInv'
<1>1. ASSUME NEW s \in Scripts, Perform(s) \/ discard(s), Over(s)
      PROVE  NInv'
  <2>1. scriptQueue(s) \in Seq(Commands) /\ scene \in Scenes
    BY ThreadsDiffer DEF IInv, scriptQueue, TypeOK
  <2>2. \A a \in Addresses : stillInScene(scene', a) =>
           stillInScene(scene, a) /\ scene'.entity[a].born = scene.entity[a].born
    BY <1>1, <2>1, ReplayOfEntity DEF Perform, discard
  <2>3. Housed'
    BY <1>1, <2>2, HousesKept DEF NInv, Over
  <2> QED
    BY <1>1, <2>3, EndingNames DEF NInv
<1>2. ASSUME NEW s \in Scripts, AskEntity(s)
      PROVE  NInv'
  <2>1. PICK n \in DOMAIN homes, k \in Kinds : /\ entitySelf(s, homes[n])
                                              /\ Record(s, Command(k, homes[n], n, "made"))
    BY <1>2 DEF AskEntity
  <2>2. homes[n] \in Addresses /\ n \in 1 .. MaxBirths + 1
    BY ScriptsAssumption DEF IInv, Homed
  <2>3. Command(k, homes[n], n, "made") \in Commands
    BY <2>2 DEF Commands
  <2>4. Addressed' /\ DestroyedLast'
    BY <2>1, <2>3, RecordingNames DEF Command, entitySelf
  <2>5. Housed'
    BY <2>1 DEF NInv, Housed, Record
  <2> QED
    BY <2>4, <2>5 DEF NInv
<1>3. ASSUME NEW s \in Scripts, AskMaterial(s) \/ AskLight(s)
      PROVE  NInv'
  <2>1. PICK c \in Commands : Record(s, c) /\ ~needsEntity(c)
    <3>1. CASE AskMaterial(s)
      BY <3>1 DEF AskMaterial, Commands, Command, needsEntity, Kinds
    <3>2. CASE AskLight(s)
      BY <3>2 DEF AskLight, Commands, Command, needsEntity, Kinds
    <3> QED
      BY <1>3, <3>1, <3>2
  <2>2. Addressed' /\ DestroyedLast'
    BY <2>1, RecordingNames
  <2>3. Housed'
    BY <2>1 DEF NInv, Housed, Record
  <2> QED
    BY <2>2, <2>3 DEF NInv
<1>4. CASE createEntity
  <2>1. PICK a \in Addresses : /\ scene' = Births(scene, a, Len(homes) + 1)
                               /\ homes' = Append(homes, a) /\ asked' = asked
    BY <1>4 DEF createEntity
  <2>2. homes \in Seq(Addresses) /\ Len(homes) \in Nat
    BY ScriptsAssumption DEF IInv, Homed
  <2>3. /\ DOMAIN homes \subseteq DOMAIN homes' /\ \A n \in DOMAIN homes : homes'[n] = homes[n]
        /\ Len(homes) + 1 \in DOMAIN homes' /\ homes'[Len(homes) + 1] = a
    BY <2>1, <2>2
  <2>4. /\ scene'.entity[a] = NewEntity(Len(homes) + 1)
        /\ \A b \in Addresses : b # a => scene'.entity[b] = scene.entity[b]
    BY <2>1 DEF Births, TypeOK, Scenes
  <2>5. Housed'
    <3> SUFFICES ASSUME NEW b \in Addresses, stillInScene(scene', b)
                 PROVE  scene'.entity[b].born \in DOMAIN homes' /\ homes'[scene'.entity[b].born] = b
      BY DEF Housed, stillInScene
    <3>1. CASE b = a
      BY <2>3, <2>4, <3>1 DEF NewEntity
    <3>2. CASE b # a
      BY <2>3, <2>4, <3>2 DEF NInv, Housed, stillInScene
    <3> QED
      BY <3>1, <3>2
  <2>6. Addressed'
    BY <2>1, <2>3 DEF NInv, Addressed, needsEntity
  <2>7. DestroyedLast'
    BY <2>1 DEF NInv, DestroyedLast, needsEntity, IsFor
  <2> QED
    BY <2>5, <2>6, <2>7 DEF NInv
<1>5. CASE Destroy
  <2>1. PICK b \in Addresses : scene' = destroyEntity(scene, b)
    BY <1>5 DEF Destroy, Deaths
  <2>2. homes' = homes /\ asked' = asked
    BY <1>5 DEF Destroy
  <2>3. \A a \in Addresses : stillInScene(scene', a) =>
           stillInScene(scene, a) /\ scene'.entity[a].born = scene.entity[a].born
    BY <2>1 DEF destroyEntity, stillInScene, TypeOK, Scenes
  <2>4. Housed'
    BY <2>2, <2>3, HousesKept DEF NInv
  <2> QED
    BY <2>2, <2>4 DEF NInv, Addressed, DestroyedLast, needsEntity, IsFor
<1>6. CASE UNCHANGED <<scene, homes, asked>>
  BY <1>6 DEF NInv, Housed, Addressed, DestroyedLast, stillInScene, needsEntity, IsFor
<1>7. ASSUME NEW s \in Scripts, Step(s)
      PROVE  NInv'
  <2>1. CASE Eval(s) \/ CreateMaterial(s) \/ Make(s) \/ NotMade(s)
    BY <1>6, <2>1 DEF Eval, CreateMaterial, Make, NotMade
  <2>2. CASE Throws(s) \/ Commit(s) \/ Refuse(s)
    BY <1>1, <2>2 DEF Throws, Commit, Refuse
  <2>3. CASE Returns(s)
    BY <1>1, <1>6, <2>3 DEF Returns
  <2> QED
    BY <1>2, <1>3, <1>7, <2>1, <2>2, <2>3 DEF Step
<1>8. CASE Stop \/ releaseScriptMaterials \/ UNCHANGED vars
  BY <1>6, <1>8 DEF Stop, releaseScriptMaterials, vars
<1> QED
  BY <1>4, <1>5, <1>7, <1>8 DEF Next

(* With every entity where it was created and destructions recorded last,   *)
(* a replay carries out what was recorded for an entity that stands.        *)
LEMMA LivingAreReached ==
  ASSUME IInv, TypeOK, NInv
  PROVE  CommandsReachTheirEntity
<1> SUFFICES ASSUME NEW s \in Scripts, NEW i \in DOMAIN asked[s],
                    needsEntity(asked[s][i]), Stands(asked[s][i].born)
             PROVE  LET c == asked[s][i]
                        here == After(scene, SubSeq(asked[s], 1, i - 1))
                    IN  ~Refused(here, c) /\ here.entity[c.entity].born = c.born
  BY ThreadsDiffer DEF CommandsReachTheirEntity, Waiting, Reaches, Meets, IInv, QueueIsTheRuns, scriptQueue
<1> DEFINE q == asked[s]
           c == q[i]
           before == SubSeq(q, 1, i - 1)
<1>1. q \in Seq(Commands) /\ i \in 1 .. Len(q) /\ Len(q) \in Nat
  BY DEF IInv
<1>2. /\ before \in Seq(Commands) /\ DOMAIN before = 1 .. i - 1
      /\ \A j \in 1 .. i - 1 : before[j] = q[j]
  BY <1>1
<1>3. PICK a \in Addresses : stillInScene(scene, a) /\ scene.entity[a].born = c.born
  BY DEF Stands
<1>4. c.entity = a
  BY <1>3 DEF NInv, Housed, Addressed
<1>5. ~Names(before, a, "EntityDestroy")
  BY <1>2, <1>4 DEF Names, NInv, DestroyedLast
<1>6. scene \in Scenes
  BY DEF TypeOK
<1>7. /\ stillInScene(After(scene, before), a)
      /\ After(scene, before).entity[a].born = scene.entity[a].born
  BY <1>2, <1>3, <1>5, <1>6, ReplayOfEntity
<1> QED
  BY <1>3, <1>4, <1>7 DEF Refused

(* Between record and replay only somebody else can make a command miss: as *)
(* long as the entity it was recorded for stands, it will be carried out,   *)
(* and on that entity, for every set of script engines, addresses and       *)
(* entities and every length of a run.  (entitySelf against stillInScene    *)
(* and ScriptQueue::apply.)                                                 *)
THEOREM LivingEntitiesAreReached == Spec => []CommandsReachTheirEntity
<1>1. Init => IInv /\ TypeOK /\ NInv
  BY TypesStart, NamesStart
<1>2. IInv /\ TypeOK /\ NInv /\ [Next]_vars => IInv' /\ TypeOK' /\ NInv'
  BY Steps, TypesStay, NamesStay
<1>3. IInv /\ TypeOK /\ NInv => CommandsReachTheirEntity
  BY LivingAreReached
<1> QED
  BY <1>1, <1>2, <1>3, PTL DEF Spec
=============================================================================
