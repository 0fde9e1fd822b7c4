---------------------------- MODULE StreamsProofs ----------------------------
(***************************************************************************)
(* What holds of Streams for any number of addresses with room for what is *)
(* held, any number of descriptor sets, of frames in flight, of sizes and  *)
(* of calls: DrawsAreSound.                                                *)
(*                                                                         *)
(* The heart is an ownership argument.  A texture that stands has exactly  *)
(* one holder (a stream, the registry's image, the <image> twice over, the *)
(* hand of whoever is making it) or is to go, never both; so letting go of *)
(* what one holder has disturbs no other, and what is painted stands but   *)
(* where a registry took it away.  Around it: what is in flight stands, but*)
(* what a registry did not wait for; and a set that is stale will be lost, *)
(* so it is counted as lost from the moment it is stale.                   *)
(*                                                                         *)
(* The module goes from the textures (Sound) through the world of calls    *)
(* and widgets (Good) to the actions (IInv).  At most four textures are to *)
(* go at once, since a walk retires at most two where it measures and two  *)
(* where it paints, and each frame begins by letting them go: that is why  *)
(* ten addresses are room enough.                                          *)
(***************************************************************************)
EXTENDS Streams, FiniteSetTheorems, WellFoundedInduction, TLAPS

Places == Addresses \cup {Null}
Nameless == ""      \* what a texture that is not there is of
Makers == Names \cup Sources \cup {Nameless}
Texture == [rev : Nat, of : Makers]
Surface ==
  [alive : [Addresses -> Texture], built : Nat, sets : [Addresses -> Nat], pool : Nat,
   retired : SUBSET Addresses, flight : Seq([frame : Nat, reads : SUBSET Nat])]

(* Who may hold a texture, see Keep; the last is who is making one.        *)
Holders == 1 .. 6
Hand    == 6

-----------------------------------------------------------------------------
(* A texture stands exactly while somebody holds it or it is to go; nobody *)
(* holds what another holds, or what is to go.                             *)
Owned(g, o) ==
  /\ \A h \in Holders : o[h] # Null => g.alive[o[h]] # Gone /\ o[h] \notin g.retired
  /\ \A h, k \in Holders : o[h] = o[k] /\ o[h] # Null => h = k
  /\ \A a \in Addresses : g.alive[a] # Gone => a \in g.retired \/ \E h \in Holders : o[h] = a
  /\ \A a \in g.retired : g.alive[a] # Gone

(* What is painted stands, or a registry took it away. *)
Stands(g, d, t) ==
  \A i \in 1 .. 2 : d[i] # Null => d[i] \in t \/ (g.alive[d[i]] # Gone /\ d[i] \notin g.retired)

(* Revisions are given out once, and a set describes one that was.         *)
Revised(g) ==
  /\ \A a \in Addresses : g.alive[a] # Gone => g.alive[a].rev \in 1 .. g.built
  /\ \A a \in Addresses : g.sets[a] <= g.built

(* What the GPU reads stands, or a registry did not wait; and every frame  *)
(* in flight has buffers of its own.                                       *)
Flying(g, u) ==
  /\ \A i \in 1 .. Len(g.flight) : g.flight[i].reads \subseteq Images(g) \cup u
  /\ \A i, j \in 1 .. Len(g.flight) : g.flight[i].frame = g.flight[j].frame => i = j

(* A set is in the pool, in the cache, or lost to a texture that was       *)
(* replaced; a stale one in the cache will be lost, and is counted before. *)
UsedSets(g)  == {a \in Addresses : g.sets[a] # 0}
StaleSets(g) == {a \in Addresses : g.sets[a] # 0 /\ g.sets[a] # g.alive[a].rev}
Pooled(g, r) == MaxSets + Cardinality(StaleSets(g)) <= g.pool + r + Cardinality(UsedSets(g))

(* The textures g, the geometry d with those torn from it t, those hurried *)
(* u, the number replaced r and the holders o are in order.                *)
Sound(g, d, t, u, r, o) ==
  /\ g \in Surface /\ d \in [1 .. 2 -> Places] /\ t \in SUBSET Addresses /\ u \in SUBSET Nat
  /\ r \in Nat /\ o \in [Holders -> Places]
  /\ Revised(g) /\ Owned(g, o) /\ Stands(g, d, t) /\ Flying(g, u) /\ Pooled(g, r)

-----------------------------------------------------------------------------
(* Holding something else at h; the hand emptied into h. *)
Put(o, h, a) == [o EXCEPT ![h] = a]
FromHand(o, h) == [o EXCEPT ![h] = o[Hand], ![Hand] = Null]

(* What a texture's going leaves torn and hurried. *)
Tearing(d, t, a) == IF a \in {d[1], d[2]} \ {Null} THEN t \cup {a} ELSE t
Hurrying(g, u, a, waited) == IF waited THEN u ELSE (u \cup {Revision(g, a)}) \cap InFlight(g)

(* f is v but for what letting go of a texture writes. *)
WithGpu(v, g) == [v EXCEPT !.gpu = g]
OnlyFreed(v, f) ==
  f = [v EXCEPT !.gpu = f.gpu, !.torn = f.torn, !.hurried = f.hurried, !.replaced = f.replaced]

(* No texture stands at the null address. *)
LEMMA NullIsNowhere == Null \notin Addresses /\ Addresses \subseteq Nat
BY SurfacesAssumption DEF Null

(* A set without x, and how many it has left. *)
LEMMA OneLess ==
  ASSUME NEW T, IsFiniteSet(T), NEW x
  PROVE  IsFiniteSet(T \ {x}) /\ Cardinality(T \ {x}) \in Nat /\ Cardinality(T) \in Nat
         /\ Cardinality(T \ {x}) >= Cardinality(T) - 1 /\ Cardinality(T \ {x}) <= Cardinality(T)
         /\ (x \in T => Cardinality(T \ {x}) = Cardinality(T) - 1)
<1> DEFINE U == T \ {x}
<1>1. Cardinality(T) \in Nat
  BY FS_CardinalityType
<1>2. CASE x \in T
  <2>1. IsFiniteSet(U) /\ Cardinality(U) = Cardinality(T) - 1 /\ Cardinality(U) \in Nat
    BY <1>2, FS_RemoveElement, FS_CardinalityType
  <2> QED
    BY <1>1, <1>2, <2>1
<1>3. CASE x \notin T
  <2>1. U = T
    BY <1>3
  <2> HIDE DEF U
  <2>2. IsFiniteSet(U) /\ Cardinality(U) = Cardinality(T)
    BY <2>1
  <2> QED
    BY <1>1, <1>3, <2>2 DEF U
<1> QED
  BY <1>2, <1>3

(* A set with x, and how many it may have. *)
LEMMA OneMore ==
  ASSUME NEW T, IsFiniteSet(T), NEW x
  PROVE  IsFiniteSet(T \cup {x}) /\ Cardinality(T \cup {x}) \in Nat /\ Cardinality(T) \in Nat
         /\ Cardinality(T \cup {x}) <= Cardinality(T) + 1
<1> DEFINE U == T \cup {x}
<1>1. IsFiniteSet(U) /\ Cardinality(U) = IF x \in T THEN Cardinality(T) ELSE Cardinality(T) + 1
  BY FS_AddElement
<1>2. Cardinality(T) \in Nat /\ Cardinality(U) \in Nat
  BY <1>1, FS_CardinalityType
<1> QED
  BY <1>1, <1>2

(* A set of addresses with ten elements has one outside the five held and *)
(* the four that are to go.                                                *)
LEMMA Room ==
  ASSUME NEW o \in [Holders -> Places], NEW R \in SUBSET Addresses,
         Cardinality(R) <= 4, o[Hand] = Null
  PROVE  \E a \in Addresses : a \notin R /\ \A h \in Holders : o[h] # a
<1>0. IsFiniteSet(R) /\ Cardinality(R) \in Nat /\ Cardinality(Addresses) \in Nat
      /\ Cardinality(Addresses) >= 10 /\ IsFiniteSet(Addresses)
  BY FS_Subset, FS_CardinalityType, RoomAssumption
<1> DEFINE A0 == Addresses \ R  A1 == A0 \ {o[1]}  A2 == A1 \ {o[2]}  A3 == A2 \ {o[3]}
           A4 == A3 \ {o[4]}  A5 == A4 \ {o[5]}
<1>1. IsFiniteSet(A0) /\ Cardinality(A0) \in Nat /\ Cardinality(A0) >= 6
  <2>1. Addresses \cap R = R
    OBVIOUS
  <2>2. IsFiniteSet(A0) /\ Cardinality(A0) = Cardinality(Addresses) - Cardinality(Addresses \cap R)
    BY <1>0, FS_Difference
  <2> QED
    BY <1>0, <2>1, <2>2
<1> HIDE DEF A0
<1>2. IsFiniteSet(A1) /\ Cardinality(A1) \in Nat /\ Cardinality(A1) >= 5
  BY <1>1, OneLess
<1> HIDE DEF A1
<1>3. IsFiniteSet(A2) /\ Cardinality(A2) \in Nat /\ Cardinality(A2) >= 4
  BY <1>2, OneLess
<1> HIDE DEF A2
<1>4. IsFiniteSet(A3) /\ Cardinality(A3) \in Nat /\ Cardinality(A3) >= 3
  BY <1>3, OneLess
<1> HIDE DEF A3
<1>5. IsFiniteSet(A4) /\ Cardinality(A4) \in Nat /\ Cardinality(A4) >= 2
  BY <1>4, OneLess
<1> HIDE DEF A4
<1>6. IsFiniteSet(A5) /\ Cardinality(A5) \in Nat /\ Cardinality(A5) >= 1
  BY <1>5, OneLess
<1> HIDE DEF A5
<1>7. PICK a : a \in A5
  BY <1>6, FS_EmptySet
<1>8. a \in A4 /\ a # o[5]
  BY <1>7 DEF A5
<1>9. a \in A3 /\ a # o[4]
  BY <1>8 DEF A4
<1>10. a \in A2 /\ a # o[3]
  BY <1>9 DEF A3
<1>11. a \in A1 /\ a # o[2]
  BY <1>10 DEF A2
<1>12. a \in A0 /\ a # o[1]
  BY <1>11 DEF A1
<1>13. a \in Addresses /\ a \notin R /\ a # Null
  BY <1>12, NullIsNowhere DEF A0
<1> QED
  BY <1>8, <1>9, <1>10, <1>11, <1>12, <1>13 DEF Holders, Hand

(* The allocator finds the lowest address where nothing stands. *)
LEMMA NextIs ==
  ASSUME NEW g, NEW d, NEW t, NEW u, NEW r, NEW o,
         Sound(g, d, t, u, r, o), Cardinality(g.retired) <= 4, o[Hand] = Null
  PROVE  NextAddress(g) \in Addresses /\ g.alive[NextAddress(g)] = Gone
<1> DEFINE F == {a \in Addresses : g.alive[a] = Gone}
<1>1. PICK a \in Addresses : a \notin g.retired /\ \A h \in Holders : o[h] # a
  BY Room DEF Sound, Surface
<1>2. a \in F
  BY <1>1 DEF Sound, Owned
<1>3. F \subseteq Nat
  BY NullIsNowhere
<1> DEFINE less == {p \in Nat \X Nat : p[1] < p[2]}
<1> HIDE DEF F
<1>4. PICK b \in F : \A c \in F : ~(<<c, b>> \in less)
  <2>1. IsWellFoundedOn(less, Nat)
    BY NatLessThanWellFounded DEF OpToRel
  <2> HIDE DEF less
  <2> QED
    BY <1>2, <1>3, <2>1, WFMin
<1>5. b \in Addresses /\ g.alive[b] = Gone /\ \A c \in Addresses : g.alive[c] = Gone => b <= c
  <2>1. ASSUME NEW c \in F
        PROVE  b <= c
    <3>1. b \in Nat /\ c \in Nat /\ ~(<<c, b>> \in less)
      BY <1>3, <1>4
    <3> QED
      BY <3>1 DEF less
  <2> QED
    BY <2>1 DEF F
<1> QED
  BY <1>5 DEF NextAddress

(* The sets that are counted can be. *)
LEMMA SetsAreFinite ==
  ASSUME NEW g \in Surface
  PROVE  /\ IsFiniteSet(StaleSets(g)) /\ Cardinality(StaleSets(g)) \in Nat
         /\ IsFiniteSet(UsedSets(g)) /\ Cardinality(UsedSets(g)) \in Nat
         /\ IsFiniteSet(g.retired) /\ Cardinality(g.retired) \in Nat
<1>1. StaleSets(g) \subseteq Addresses /\ UsedSets(g) \subseteq Addresses /\ g.retired \subseteq Addresses
  BY DEF StaleSets, UsedSets, Surface
<1> QED
  BY <1>1, FS_Subset, FS_CardinalityType, RoomAssumption

(* A texture is made at an address where nothing stood, into the hand. *)
LEMMA CreateIsSound ==
  ASSUME NEW g, NEW d, NEW t, NEW u, NEW r, NEW o,
         Sound(g, d, t, u, r, o), Cardinality(g.retired) <= 4, o[Hand] = Null,
         NEW of \in Makers, NEW c, c = Create(g, of), NEW a, a = NextAddress(g)
  PROVE  /\ Sound(c, d, t, u, r, Put(o, Hand, a))
         /\ a \in Addresses /\ g.alive[a] = Gone /\ c.alive[a].of = of
         /\ \A b \in Addresses : b # a => c.alive[b] = g.alive[b]
         /\ c.retired = g.retired /\ c.flight = g.flight
<1> DEFINE p == Put(o, Hand, a)
<1>0. /\ g \in Surface /\ o \in [Holders -> Places] /\ d \in [1 .. 2 -> Places] /\ Hand \in Holders
      /\ g.alive \in [Addresses -> Texture] /\ g.built \in Nat /\ g.sets \in [Addresses -> Nat]
  BY DEF Sound, Surface, Holders, Hand
<1>1. a \in Addresses /\ g.alive[a] = Gone /\ a # Null
  BY NextIs, NullIsNowhere
<1>2. /\ c.alive = [g.alive EXCEPT ![a] = [rev |-> g.built + 1, of |-> of]]
      /\ c.built = g.built + 1 /\ c.sets = g.sets /\ c.pool = g.pool
      /\ c.retired = g.retired /\ c.flight = g.flight
  BY <1>0 DEF Create, Surface
<1>3. c \in Surface /\ p \in [Holders -> Places]
  <2>1. [rev |-> g.built + 1, of |-> of] \in Texture
    BY <1>0 DEF Texture
  <2>2. c.alive \in [Addresses -> Texture] /\ c.built \in Nat
    BY <1>0, <1>1, <1>2, <2>1
  <2>3. c = [g EXCEPT !.alive = c.alive, !.built = c.built]
    BY <1>0, <1>2 DEF Create, Surface
  <2>4. c \in Surface
    BY <1>0, <2>2, <2>3 DEF Surface
  <2>5. p \in [Holders -> Places]
    BY <1>0, <1>1 DEF Places, Put
  <2> QED
    BY <2>4, <2>5
<1>4. /\ c.alive[a] = [rev |-> g.built + 1, of |-> of]
      /\ \A b \in Addresses : b # a => c.alive[b] = g.alive[b]
  BY <1>0, <1>1, <1>2
<1>5. c.alive[a].rev = g.built + 1 /\ c.alive[a].of = of /\ c.alive[a] # Gone /\ g.alive[a].rev = 0
  <2>1. Gone.rev = 0
    BY DEF Gone
  <2>2. c.alive[a].rev = g.built + 1 /\ c.alive[a].of = of
    BY <1>4
  <2> QED
    BY <1>0, <1>1, <2>1, <2>2
<1>6. Revised(c)
  BY <1>0, <1>2, <1>4, <1>5 DEF Sound, Revised
<1>7. p[Hand] = a /\ \A h \in Holders : h # Hand => p[h] = o[h]
  BY <1>0 DEF Put
<1>8. \A h \in Holders : o[h] # Null => o[h] \in Addresses /\ o[h] # a /\ g.alive[o[h]] # Gone
  BY <1>0, <1>1 DEF Sound, Owned, Places
<1>9. Owned(c, p)
  <2> HIDE DEF p
  <2>0. a \notin g.retired /\ g.retired \subseteq Addresses
    BY <1>1, <1>0 DEF Sound, Owned, Surface
  <2>1. \A h \in Holders : p[h] # Null => c.alive[p[h]] # Gone /\ p[h] \notin c.retired
    BY <2>0, <1>2, <1>4, <1>5, <1>7, <1>8 DEF Sound, Owned
  <2>2. \A h, k \in Holders : p[h] = p[k] /\ p[h] # Null => h = k
    BY <1>1, <1>7, <1>8 DEF Sound, Owned
  <2>3. ASSUME NEW b \in Addresses, c.alive[b] # Gone
        PROVE  b \in c.retired \/ \E h \in Holders : p[h] = b
    <3>1. CASE b = a
      BY <3>1, <1>7, <1>0
    <3>2. CASE b # a
      <4>1. b \in g.retired \/ \E h \in Holders : o[h] = b
        BY <2>3, <3>2, <1>4 DEF Sound, Owned
      <4>2. b # Null
        BY NullIsNowhere
      <4> QED
        BY <4>1, <4>2, <1>2, <1>7
    <3> QED
      BY <3>1, <3>2
  <2>4. \A b \in c.retired : c.alive[b] # Gone
    BY <2>0, <1>2, <1>4 DEF Sound, Owned
  <2> QED
    BY <2>1, <2>2, <2>3, <2>4 DEF Owned
<1>10. Stands(c, d, t)
  BY <1>0, <1>1, <1>2, <1>4 DEF Sound, Stands, Places
<1>11. Flying(c, u)
  <2>1. Images(g) \subseteq Images(c)
    BY <1>1, <1>4, <1>5 DEF Images
  <2> QED
    BY <1>2, <2>1 DEF Sound, Flying
<1>12. Pooled(c, r)
  <2>1. UsedSets(c) = UsedSets(g)
    BY <1>2 DEF UsedSets
  <2>2. \A b \in Addresses : c.sets[b] # 0 => (c.sets[b] # c.alive[b].rev <=> g.sets[b] # g.alive[b].rev)
    <3>1. g.sets[a] \in Nat /\ g.sets[a] <= g.built
      BY <1>0, <1>1 DEF Sound, Revised
    <3> QED
      BY <3>1, <1>0, <1>2, <1>4, <1>5
  <2>3. StaleSets(c) = StaleSets(g)
    BY <1>2, <2>2 DEF StaleSets
  <2> QED
    BY <1>2, <2>1, <2>3 DEF Sound, Pooled
<1> QED
  BY <1>0, <1>1, <1>2, <1>3, <1>4, <1>5, <1>6, <1>9, <1>10, <1>11, <1>12 DEF Sound

(* Waiting for the GPU. *)
LEMMA WaitIsSound ==
  ASSUME NEW g, NEW d, NEW t, NEW u, NEW r, NEW o, Sound(g, d, t, u, r, o)
  PROVE  /\ Sound(WaitIdle(g), d, t, u, r, o)
         /\ WaitIdle(g).flight = << >> /\ WaitIdle(g).retired = g.retired
         /\ WaitIdle(g).alive = g.alive
<1> DEFINE c == WaitIdle(g)
<1>1. /\ c.alive = g.alive /\ c.built = g.built /\ c.sets = g.sets /\ c.pool = g.pool
      /\ c.retired = g.retired /\ c.flight = << >> /\ c \in Surface
  <2>1. g \in Surface /\ << >> \in Seq([frame : Nat, reads : SUBSET Nat])
    BY DEF Sound
  <2> QED
    BY <2>1 DEF Surface, WaitIdle
<1> HIDE DEF c
<1>2. Revised(c) /\ Owned(c, o) /\ Stands(c, d, t)
  BY <1>1 DEF Sound, Revised, Owned, Stands
<1>3. Flying(c, u)
  BY <1>1 DEF Flying
<1>4. StaleSets(c) = StaleSets(g) /\ UsedSets(c) = UsedSets(g)
  BY <1>1 DEF StaleSets, UsedSets
<1>5. Pooled(c, r)
  BY <1>1, <1>4 DEF Sound, Pooled
<1>6. Sound(c, d, t, u, r, o)
  BY <1>1, <1>2, <1>3, <1>5 DEF Sound
<1> QED
  BY <1>1, <1>6 DEF c

(* What was in the hand is put where nothing was held. *)
LEMMA MoveIsSound ==
  ASSUME NEW g, NEW d, NEW t, NEW u, NEW r, NEW o, Sound(g, d, t, u, r, o),
         NEW h \in 1 .. 5, o[h] = Null
  PROVE  Sound(g, d, t, u, r, FromHand(o, h))
<1> DEFINE p == FromHand(o, h)
<1>1. o \in [Holders -> Places] /\ h \in Holders /\ Hand \in Holders /\ h # Hand /\ Null \in Places
  BY DEF Sound, Holders, Hand, Places
<1>2. /\ p \in [Holders -> Places] /\ p[h] = o[Hand] /\ p[Hand] = Null
      /\ \A k \in Holders : k # h /\ k # Hand => p[k] = o[k]
  BY <1>1 DEF FromHand
<1> HIDE DEF p
<1>3. Owned(g, p)
  <2>1. \A k \in Holders : p[k] # Null => g.alive[p[k]] # Gone /\ p[k] \notin g.retired
    BY <1>1, <1>2 DEF Sound, Owned
  <2>2. \A k, m \in Holders : p[k] = p[m] /\ p[k] # Null => k = m
    BY <1>1, <1>2 DEF Sound, Owned
  <2>3. ASSUME NEW b \in Addresses, g.alive[b] # Gone
        PROVE  b \in g.retired \/ \E k \in Holders : p[k] = b
    <3>1. b \in g.retired \/ \E k \in Holders : o[k] = b
      BY <2>3 DEF Sound, Owned
    <3>2. b # Null
      BY NullIsNowhere
    <3> QED
      BY <1>1, <1>2, <3>1, <3>2
  <2> QED
    BY <2>1, <2>2, <2>3 DEF Sound, Owned
<1>4. Sound(g, d, t, u, r, p)
  BY <1>2, <1>3 DEF Sound
<1> QED
  BY <1>4 DEF p

(* A registry lets go of the texture that h holds, after the GPU is idle or *)
(* with a note of what it still reads.                                     *)
LEMMA GoneIsSound ==
  ASSUME NEW g, NEW d, NEW t, NEW u, NEW r, NEW o, Sound(g, d, t, u, r, o),
         NEW h \in 1 .. 5, o[h] # Null, NEW waited \in BOOLEAN, waited => g.flight = << >>
  PROVE  /\ Sound(DestroyAt(g, o[h]), d, Tearing(d, t, o[h]),
                  Hurrying(g, u, o[h], waited), r + 1,
                  Put(o, h, Null))
         /\ \A b \in Addresses : b # o[h] => DestroyAt(g, o[h]).alive[b] = g.alive[b]
         /\ DestroyAt(g, o[h]).retired = g.retired
<1> DEFINE a == o[h]
           c == DestroyAt(g, a)
           p == Put(o, h, Null)
           s == Tearing(d, t, a)
           v == Hurrying(g, u, a, waited)
<1>0. /\ g \in Surface /\ o \in [Holders -> Places] /\ d \in [1 .. 2 -> Places] /\ h \in Holders
      /\ g.alive \in [Addresses -> Texture] /\ g.built \in Nat /\ g.sets \in [Addresses -> Nat]
      /\ r \in Nat /\ t \in SUBSET Addresses /\ u \in SUBSET Nat /\ g.pool \in Nat
      /\ g.flight \in Seq([frame : Nat, reads : SUBSET Nat]) /\ Gone \in Texture
  <2>1. Gone \in Texture
    BY DEF Gone, Texture, Makers, Nameless
  <2> HIDE DEF a, c, p, s, v
  <2> QED
    BY <2>1 DEF Sound, Surface, Holders
<1>1. a \in Addresses /\ a # Null /\ g.alive[a] # Gone /\ a \notin g.retired
  BY <1>0 DEF Sound, Owned, Places
<1>2. /\ c.alive = [g.alive EXCEPT ![a] = Gone]
      /\ c.built = g.built /\ c.sets = g.sets /\ c.pool = g.pool
      /\ c.retired = g.retired /\ c.flight = g.flight
  BY <1>0, <1>1 DEF DestroyAt, Surface
<1>3. c \in Surface
  <2>1. c.alive \in [Addresses -> Texture]
    BY <1>0, <1>1, <1>2
  <2>2. c = [g EXCEPT !.alive = c.alive]
    BY <1>0, <1>1, <1>2 DEF DestroyAt, Surface
  <2> QED
    BY <1>0, <2>1, <2>2 DEF Surface
<1>4. /\ c.alive[a] = Gone /\ \A b \in Addresses : b # a => c.alive[b] = g.alive[b]
  BY <1>0, <1>1, <1>2
<1>5. /\ p \in [Holders -> Places] /\ p[h] = Null /\ \A k \in Holders : k # h => p[k] = o[k]
  BY <1>0 DEF Places, Put
<1>6. Revision(g, a) = g.alive[a].rev /\ g.alive[a].rev \in Nat
  BY <1>0, <1>1 DEF Revision, Texture
<1> HIDE DEF c, p
<1>7. Revised(c)
  BY <1>2, <1>4 DEF Sound, Revised
<1>8. Owned(c, p)
  <2>1. \A k \in Holders : p[k] # Null => p[k] \in Addresses /\ p[k] # a /\ p[k] = o[k]
    BY <1>0, <1>1, <1>5 DEF Sound, Owned, Places
  <2>2. \A k \in Holders : p[k] # Null => c.alive[p[k]] # Gone /\ p[k] \notin c.retired
    BY <1>2, <1>4, <2>1 DEF Sound, Owned
  <2>3. \A k, m \in Holders : p[k] = p[m] /\ p[k] # Null => k = m
    BY <2>1 DEF Sound, Owned
  <2>4. ASSUME NEW b \in Addresses, c.alive[b] # Gone
        PROVE  b \in c.retired \/ \E k \in Holders : p[k] = b
    <3>1. b # a /\ g.alive[b] # Gone
      BY <1>4, <2>4
    <3>2. b \in g.retired \/ \E k \in Holders : o[k] = b
      BY <3>1 DEF Sound, Owned
    <3> QED
      BY <1>2, <1>5, <3>1, <3>2
  <2>5. \A b \in c.retired : c.alive[b] # Gone
    BY <1>0, <1>1, <1>2, <1>4 DEF Sound, Owned, Surface
  <2> QED
    BY <2>2, <2>3, <2>4, <2>5 DEF Owned
<1>9. Stands(c, d, s) /\ s \in SUBSET Addresses
  <2>1. s \in SUBSET Addresses /\ t \subseteq s
    BY <1>0, <1>1 DEF Tearing
  <2>2. \A i \in 1 .. 2 : d[i] = a => d[i] \in s
    BY <1>1 DEF Tearing
  <2> HIDE DEF s, a
  <2>3. \A i \in 1 .. 2 : d[i] # Null => d[i] \in Addresses
    BY <1>0 DEF Places
  <2> QED
    BY <1>2, <1>4, <2>1, <2>2, <2>3 DEF Sound, Stands
<1>10. Flying(c, v) /\ v \in SUBSET Nat
  <2>1. CASE waited
    BY <2>1, <1>0, <1>2 DEF Flying, Hurrying
  <2>2. CASE ~waited
    <3>1. v = (u \cup {Revision(g, a)}) \cap InFlight(g) /\ v \in SUBSET Nat
      BY <2>2, <1>0, <1>6 DEF Hurrying
    <3>2. Images(g) \subseteq Images(c) \cup {Revision(g, a)}
      BY <1>4, <1>6 DEF Images
    <3> HIDE DEF v
    <3>3. ASSUME NEW i \in 1 .. Len(c.flight)
          PROVE  c.flight[i].reads \subseteq Images(c) \cup v
      <4>1. g.flight[i].reads \subseteq Images(g) \cup u
        BY <1>2 DEF Sound, Flying
      <4>2. g.flight[i].reads \subseteq InFlight(g)
        BY <1>0, <1>2 DEF InFlight
      <4> QED
        BY <1>2, <3>1, <3>2, <4>1, <4>2
    <3> QED
      BY <1>2, <3>1, <3>3 DEF Sound, Flying
  <2> QED
    BY <2>1, <2>2
<1>11. Pooled(c, r + 1)
  <2>1. UsedSets(c) = UsedSets(g)
    BY <1>2 DEF UsedSets
  <2>2. StaleSets(c) \subseteq StaleSets(g) \cup {a}
    BY <1>2, <1>4 DEF StaleSets
  <2>3. /\ Cardinality(StaleSets(g)) \in Nat /\ IsFiniteSet(StaleSets(g) \cup {a})
        /\ Cardinality(StaleSets(g) \cup {a}) <= Cardinality(StaleSets(g)) + 1
        /\ Cardinality(StaleSets(g) \cup {a}) \in Nat /\ Cardinality(UsedSets(g)) \in Nat
    BY <1>0, SetsAreFinite, OneMore
  <2>4. /\ Cardinality(StaleSets(c)) <= Cardinality(StaleSets(g) \cup {a})
        /\ Cardinality(StaleSets(c)) \in Nat
    BY <1>3, <2>2, <2>3, SetsAreFinite, FS_Subset
  <2>5. MaxSets + Cardinality(StaleSets(g)) <= g.pool + r + Cardinality(UsedSets(g)) /\ MaxSets \in Nat
    BY SurfacesAssumption DEF Sound, Pooled
  <2> QED
    BY <1>0, <1>2, <2>1, <2>3, <2>4, <2>5 DEF Pooled
<1>12. Sound(c, d, s, v, r + 1, p)
  BY <1>0, <1>3, <1>5, <1>7, <1>8, <1>9, <1>10, <1>11 DEF Sound
<1> QED
  BY <1>2, <1>4, <1>12 DEF c, p

(* A texture that goes at the top of the next frame, if what is painted    *)
(* does not name it.                                                       *)
LEMMA RetireIsSound ==
  ASSUME NEW g, NEW d, NEW t, NEW u, NEW r, NEW o, Sound(g, d, t, u, r, o),
         NEW h \in 1 .. 5, \A i \in 1 .. 2 : d[i] = o[h] /\ d[i] # Null => d[i] \in t
  PROVE  /\ Sound(RetireTexture(g, o[h]), d, t, u, r, Put(o, h, Null))
         /\ RetireTexture(g, o[h]).alive = g.alive
         /\ Cardinality(RetireTexture(g, o[h]).retired) <= Cardinality(g.retired) + 1
<1> DEFINE a == o[h]
           c == RetireTexture(g, a)
           p == Put(o, h, Null)
<1>0. /\ g \in Surface /\ o \in [Holders -> Places] /\ d \in [1 .. 2 -> Places] /\ h \in Holders
      /\ g.retired \in SUBSET Addresses
  BY DEF Sound, Surface, Holders
<1>1. IsFiniteSet(g.retired) /\ Cardinality(g.retired) \in Nat
  BY <1>0, SetsAreFinite
<1>2. CASE a = Null
  <2>1. c = g /\ p = o
    BY <1>0, <1>2 DEF RetireTexture, Put
  <2> QED
    BY <1>1, <2>1
<1>3. CASE a # Null
  <2>1. a \in Addresses /\ g.alive[a] # Gone /\ a \notin g.retired
    BY <1>0, <1>3 DEF Sound, Owned, Places
  <2>2. /\ c.alive = g.alive /\ c.built = g.built /\ c.sets = g.sets /\ c.pool = g.pool
        /\ c.retired = g.retired \cup {a} /\ c.flight = g.flight /\ c \in Surface
    BY <1>0, <1>3, <2>1 DEF RetireTexture, Surface
  <2>3. Cardinality(c.retired) <= Cardinality(g.retired) + 1
    BY <1>1, <2>2, OneMore
  <2>4. /\ p \in [Holders -> Places] /\ p[h] = Null /\ \A k \in Holders : k # h => p[k] = o[k]
    BY <1>0 DEF Places, Put
  <2> HIDE DEF c, p
  <2>5. Revised(c) /\ Flying(c, u)
    BY <2>2 DEF Sound, Revised, Flying, Images
  <2>6. StaleSets(c) = StaleSets(g) /\ UsedSets(c) = UsedSets(g)
    BY <2>2 DEF StaleSets, UsedSets
  <2>7. Pooled(c, r)
    BY <2>2, <2>6 DEF Sound, Pooled
  <2>8. Stands(c, d, t)
    BY <1>0, <2>2 DEF Sound, Stands
  <2>9. Owned(c, p)
    <3>1. \A k \in Holders : p[k] # Null => p[k] # a /\ p[k] = o[k]
      BY <1>0, <1>3, <2>4 DEF Sound, Owned
    <3>2. \A k \in Holders : p[k] # Null => c.alive[p[k]] # Gone /\ p[k] \notin c.retired
      BY <2>2, <3>1 DEF Sound, Owned
    <3>3. \A k, m \in Holders : p[k] = p[m] /\ p[k] # Null => k = m
      BY <3>1 DEF Sound, Owned
    <3>4. ASSUME NEW b \in Addresses, c.alive[b] # Gone
          PROVE  b \in c.retired \/ \E k \in Holders : p[k] = b
      <4>1. b \in g.retired \/ \E k \in Holders : o[k] = b
        BY <2>2, <3>4 DEF Sound, Owned
      <4> QED
        BY <2>2, <2>4, <4>1
    <3>5. \A b \in c.retired : c.alive[b] # Gone
      BY <2>1, <2>2 DEF Sound, Owned
    <3> QED
      BY <3>2, <3>3, <3>4, <3>5 DEF Owned
  <2>10. Sound(c, d, t, u, r, p)
    BY <2>2, <2>4, <2>5, <2>7, <2>8, <2>9 DEF Sound
  <2> QED
    BY <2>2, <2>3, <2>10 DEF c, p
<1> QED
  BY <1>2, <1>3

(* The top of a frame: what was retired goes, with its sets, while the GPU  *)
(* is idle.                                                                *)
LEMMA DrainIsSound ==
  ASSUME NEW g, NEW d, NEW t, NEW u, NEW r, NEW o, Sound(g, d, t, u, r, o)
  PROVE  /\ Sound(DrainRetired(g), d, t, u, r, o) /\ DrainRetired(g).retired = {}
         /\ \A h \in Holders : o[h] # Null => DrainRetired(g).alive[o[h]] = g.alive[o[h]]
<1> DEFINE c == DrainRetired(g)
           R == {a \in g.retired : g.sets[a] # 0}
<1>0. /\ g \in Surface /\ o \in [Holders -> Places] /\ d \in [1 .. 2 -> Places]
      /\ g.retired \in SUBSET Addresses /\ g.alive \in [Addresses -> Texture]
      /\ g.sets \in [Addresses -> Nat] /\ g.pool \in Nat /\ r \in Nat /\ g.built \in Nat
  BY DEF Sound, Surface
<1>1. CASE g.retired = {}
  BY <1>1 DEF DrainRetired
<1>2. CASE g.retired # {}
  <2>1. Cardinality(R) \in Nat /\ IsFiniteSet(R)
    <3>1. R \subseteq g.retired
      OBVIOUS
    <3> QED
      BY <1>0, <3>1, SetsAreFinite, FS_Subset, FS_CardinalityType
  <2>2. /\ c.alive = [a \in Addresses |-> IF a \in g.retired THEN Gone ELSE g.alive[a]]
        /\ c.built = g.built /\ c.pool = g.pool + Cardinality(R)
        /\ c.sets = [a \in Addresses |-> IF a \in g.retired THEN 0 ELSE g.sets[a]]
        /\ c.retired = {} /\ c.flight = << >>
    BY <1>0, <1>2 DEF DrainRetired, WaitIdle, Surface
  <2>3. c = [g EXCEPT !.alive = c.alive, !.pool = c.pool, !.sets = c.sets, !.retired = c.retired,
                      !.flight = c.flight]
    BY <1>0, <1>2 DEF DrainRetired, WaitIdle, Surface
  <2> HIDE DEF c, R
  <2>4. Gone \in Texture /\ << >> \in Seq([frame : Nat, reads : SUBSET Nat])
    BY DEF Gone, Texture, Makers, Nameless
  <2>5. c.alive \in [Addresses -> Texture] /\ c.sets \in [Addresses -> Nat] /\ c.pool \in Nat
    BY <1>0, <2>1, <2>2, <2>4
  <2>6. c \in Surface
    BY <1>0, <2>2, <2>3, <2>4, <2>5 DEF Surface
  <2>7. /\ \A a \in Addresses : c.alive[a] = IF a \in g.retired THEN Gone ELSE g.alive[a]
        /\ \A a \in Addresses : c.sets[a] = IF a \in g.retired THEN 0 ELSE g.sets[a]
    BY <2>2
  <2>8. Revised(c)
    BY <1>0, <2>2, <2>7 DEF Sound, Revised
  <2>9. \A h \in Holders : o[h] # Null => o[h] \in Addresses /\ o[h] \notin g.retired
    BY <1>0 DEF Sound, Owned, Places
  <2>10. Owned(c, o)
    BY <2>2, <2>7, <2>9 DEF Sound, Owned
  <2>11. Stands(c, d, t)
    BY <1>0, <2>2, <2>7 DEF Sound, Stands, Places
  <2>12. Flying(c, u)
    BY <2>2 DEF Flying
  <2>13. Pooled(c, r)
    <3>1. UsedSets(c) = UsedSets(g) \ R /\ UsedSets(g) \cap R = R
      BY <1>0, <2>7 DEF UsedSets, R
    <3>2. /\ Cardinality(UsedSets(g) \ R) = Cardinality(UsedSets(g)) - Cardinality(UsedSets(g) \cap R)
          /\ Cardinality(UsedSets(g)) \in Nat
      BY <1>0, SetsAreFinite, FS_Difference
    <3>3. StaleSets(c) \subseteq StaleSets(g)
      BY <2>7 DEF StaleSets
    <3>4. /\ Cardinality(StaleSets(c)) <= Cardinality(StaleSets(g))
          /\ Cardinality(StaleSets(c)) \in Nat /\ Cardinality(StaleSets(g)) \in Nat
      BY <1>0, <2>6, <3>3, SetsAreFinite, FS_Subset
    <3>5. MaxSets + Cardinality(StaleSets(g)) <= g.pool + r + Cardinality(UsedSets(g)) /\ MaxSets \in Nat
      BY SurfacesAssumption DEF Sound, Pooled
    <3>6. Cardinality(UsedSets(c)) = Cardinality(UsedSets(g)) - Cardinality(R)
      BY <3>1, <3>2
    <3> QED
      BY <1>0, <2>1, <2>2, <3>2, <3>4, <3>5, <3>6 DEF Pooled
  <2>14. Sound(c, d, t, u, r, o)
    BY <2>6, <2>8, <2>10, <2>11, <2>12, <2>13 DEF Sound
  <2> QED
    BY <2>2, <2>7, <2>9, <2>14 DEF c
<1> QED
  BY <1>1, <1>2

(* A command that names a texture which stands and is not to go. *)
LEMMA PaintIsSound ==
  ASSUME NEW g, NEW d, NEW t, NEW u, NEW r, NEW o, Sound(g, d, t, u, r, o), NEW i \in 1 .. 2,
         NEW h \in Holders
  PROVE  Sound(g, Put(d, i, o[h]), t, u, r, o)
<1>1. d \in [1 .. 2 -> Places] /\ o[h] \in Places
  BY DEF Sound
<1> DEFINE e == Put(d, i, o[h])
<1>2. e \in [1 .. 2 -> Places] /\ e[i] = o[h] /\ \A j \in 1 .. 2 : j # i => e[j] = d[j]
  BY <1>1 DEF Put
<1> HIDE DEF e
<1>3. Stands(g, e, t)
  BY <1>2 DEF Sound, Owned, Stands
<1>4. Sound(g, e, t, u, r, o)
  BY <1>2, <1>3 DEF Sound
<1> QED
  BY <1>4 DEF e

(* The set a command binds: what leaves the cache costs the pool a set, and *)
(* was of a texture that a registry replaced.                              *)
LEMMA BindingIsSound ==
  ASSUME NEW g, NEW d, NEW t, NEW u, NEW r, NEW o, Sound(g, d, t, u, r, o),
         NEW a \in Places
  PROVE  /\ Sound(ImageSetFor(g, a), d, t, u, r, o)
         /\ IsAlive(g, a) => ImageSetFor(g, a).sets[a] \in {0, g.alive[a].rev}
         /\ \A b \in Addresses : b # a => ImageSetFor(g, a).sets[b] = g.sets[b]
         /\ ImageSetFor(g, a).alive = g.alive /\ ImageSetFor(g, a).flight = g.flight
         /\ ImageSetFor(g, a).retired = g.retired
<1> DEFINE c == ImageSetFor(g, a)
<1>0. /\ g \in Surface /\ g.alive \in [Addresses -> Texture]
      /\ g.sets \in [Addresses -> Nat] /\ g.pool \in Nat /\ r \in Nat /\ g.built \in Nat
  BY DEF Sound, Surface
<1>1. CASE ~IsAlive(g, a) \/ g.sets[a] = g.alive[a].rev
  <2>1. c = g
    BY <1>1 DEF ImageSetFor, IsAlive, Revision
  <2> QED
    BY <1>1, <2>1
<1>2. CASE IsAlive(g, a) /\ g.sets[a] # g.alive[a].rev
  <2>1. a \in Addresses /\ g.alive[a] # Gone /\ a # Null
    BY <1>2 DEF IsAlive, Places
  <2>2. g.alive[a].rev \in 1 .. g.built /\ g.alive[a].rev \in Nat /\ g.alive[a].rev # 0
    BY <1>0, <2>1 DEF Sound, Revised
  <2>3. PICK n \in {0, g.alive[a].rev}, m \in Nat :
             /\ c = [g EXCEPT !.sets[a] = n, !.pool = m]
             /\ m = IF n = 0 THEN g.pool ELSE g.pool - 1
    <3>1. CASE g.pool = 0
      <4>1. c = [g EXCEPT !.sets[a] = 0, !.pool = 0]
        BY <1>0, <1>2, <2>1, <3>1 DEF ImageSetFor, Revision, Surface
      <4> HIDE DEF c
      <4>2. 0 \in {0, g.alive[a].rev} /\ 0 \in Nat /\ 0 = IF 0 = 0 THEN g.pool ELSE g.pool - 1
        BY <3>1
      <4> QED
        BY <4>1, <4>2
    <3>2. CASE g.pool # 0
      <4>1. c = [g EXCEPT !.sets[a] = g.alive[a].rev, !.pool = g.pool - 1] /\ g.pool - 1 \in Nat
        BY <1>0, <1>2, <2>1, <3>2 DEF ImageSetFor, Revision, Surface
      <4> QED
        BY <2>2, <4>1
    <3> QED
      BY <3>1, <3>2
  <2>4. /\ c.alive = g.alive /\ c.built = g.built /\ c.sets = [g.sets EXCEPT ![a] = n] /\ c.pool = m
        /\ c.retired = g.retired /\ c.flight = g.flight
    BY <1>0, <2>1, <2>3 DEF Surface
  <2>5. c.sets \in [Addresses -> Nat] /\ c.sets[a] = n /\ \A b \in Addresses : b # a => c.sets[b] = g.sets[b]
    BY <1>0, <2>1, <2>2, <2>4
  <2>6. c \in Surface
    <3>1. c = [g EXCEPT !.sets = c.sets, !.pool = m]
      BY <1>0, <2>3, <2>4 DEF Surface
    <3> QED
      BY <1>0, <2>5, <3>1 DEF Surface
  <2> HIDE DEF c
  <2>7. Revised(c)
    BY <1>0, <2>1, <2>2, <2>4, <2>5 DEF Sound, Revised
  <2>8. Owned(c, o) /\ Stands(c, d, t)
    BY <2>4 DEF Sound, Owned, Stands
  <2>9. Flying(c, u)
    BY <2>4 DEF Sound, Flying, Images
  <2>10. Pooled(c, r)
    <3>0. /\ IsFiniteSet(UsedSets(g)) /\ IsFiniteSet(StaleSets(g))
          /\ Cardinality(UsedSets(g)) \in Nat /\ Cardinality(StaleSets(g)) \in Nat
      BY <1>0, SetsAreFinite
    <3>1. StaleSets(c) = StaleSets(g) \ {a}
      BY <2>1, <2>4, <2>5 DEF StaleSets
    <3>2. Cardinality(StaleSets(c)) = IF a \in StaleSets(g) THEN Cardinality(StaleSets(g)) - 1
                                      ELSE Cardinality(StaleSets(g))
      BY <3>0, <3>1, FS_RemoveElement
    <3>3. UsedSets(c) = IF n = 0 THEN UsedSets(g) \ {a} ELSE UsedSets(g) \cup {a}
      BY <2>1, <2>2, <2>5 DEF UsedSets
    <3>4. Cardinality(UsedSets(c)) = IF n = 0
             THEN IF a \in UsedSets(g) THEN Cardinality(UsedSets(g)) - 1 ELSE Cardinality(UsedSets(g))
             ELSE IF a \in UsedSets(g) THEN Cardinality(UsedSets(g)) ELSE Cardinality(UsedSets(g)) + 1
      BY <3>0, <3>3, FS_RemoveElement, FS_AddElement
    <3>5. a \in StaleSets(g) <=> a \in UsedSets(g)
      BY <1>2 DEF StaleSets, UsedSets
    <3>6. MaxSets + Cardinality(StaleSets(g)) <= g.pool + r + Cardinality(UsedSets(g)) /\ MaxSets \in Nat
      BY SurfacesAssumption DEF Sound, Pooled
    <3>7. MaxSets + Cardinality(StaleSets(c)) <= m + r + Cardinality(UsedSets(c))
      BY <1>0, <2>3, <3>0, <3>2, <3>4, <3>5, <3>6
    <3> QED
      BY <2>4, <3>7 DEF Pooled
  <2>11. Sound(c, d, t, u, r, o)
    BY <2>6, <2>7, <2>8, <2>9, <2>10 DEF Sound
  <2> QED
    BY <2>3, <2>4, <2>5, <2>11 DEF c
<1> QED
  BY <1>1, <1>2

Finished(g) == [g EXCEPT !.flight = Tail(@)]
Submitted(g, f, reads) == [g EXCEPT !.flight = Append(@, [frame |-> f, reads |-> reads])]

(* The GPU finishes the oldest frame. *)
LEMMA FinishIsSound ==
  ASSUME NEW g, NEW d, NEW t, NEW u, NEW r, NEW o, Sound(g, d, t, u, r, o), g.flight # << >>
  PROVE  /\ Sound(Finished(g), d, t, u, r, o)
         /\ Finished(g).alive = g.alive /\ Finished(g).retired = g.retired
<1> DEFINE c == Finished(g)
<1>1. g \in Surface /\ g.flight \in Seq([frame : Nat, reads : SUBSET Nat])
  BY DEF Sound, Surface
<1>2. /\ Tail(g.flight) \in Seq([frame : Nat, reads : SUBSET Nat])
      /\ Len(g.flight) \in Nat /\ Len(Tail(g.flight)) = Len(g.flight) - 1
      /\ \A i \in 1 .. Len(g.flight) - 1 : Tail(g.flight)[i] = g.flight[i + 1]
  BY <1>1
<1>3. /\ c.alive = g.alive /\ c.built = g.built /\ c.sets = g.sets /\ c.pool = g.pool
      /\ c.retired = g.retired /\ c.flight = Tail(g.flight) /\ c \in Surface
  BY <1>1, <1>2 DEF Surface, Finished
<1> HIDE DEF c
<1>4. Revised(c) /\ Owned(c, o) /\ Stands(c, d, t)
  BY <1>3 DEF Sound, Revised, Owned, Stands
<1>5. Flying(c, u)
  <2>1. Images(c) = Images(g)
    BY <1>3 DEF Images
  <2>2. \A i \in 1 .. Len(c.flight) : i + 1 \in 1 .. Len(g.flight) /\ c.flight[i] = g.flight[i + 1]
    BY <1>2, <1>3
  <2>3. \A i \in 1 .. Len(c.flight) : c.flight[i].reads \subseteq Images(c) \cup u
    BY <2>1, <2>2 DEF Sound, Flying
  <2>4. ASSUME NEW i \in 1 .. Len(c.flight), NEW j \in 1 .. Len(c.flight),
               c.flight[i].frame = c.flight[j].frame
        PROVE  i = j
    <3>1. i + 1 = j + 1
      BY <2>2, <2>4 DEF Sound, Flying
    <3> QED
      BY <1>2, <1>3, <3>1
  <2> QED
    BY <2>3, <2>4 DEF Flying
<1>6. StaleSets(c) = StaleSets(g) /\ UsedSets(c) = UsedSets(g)
  BY <1>3 DEF StaleSets, UsedSets
<1>7. Pooled(c, r)
  BY <1>3, <1>6 DEF Sound, Pooled
<1>8. Sound(c, d, t, u, r, o)
  BY <1>3, <1>4, <1>5, <1>7 DEF Sound
<1> QED
  BY <1>3, <1>8 DEF c

(* A frame is submitted that none of those in flight has the buffers of, and *)
(* that reads images which stand.                                          *)
LEMMA SubmitIsSound ==
  ASSUME NEW g, NEW d, NEW t, NEW u, NEW r, NEW o, Sound(g, d, t, u, r, o),
         NEW f \in Nat, \A i \in 1 .. Len(g.flight) : g.flight[i].frame # f,
         NEW reads \in SUBSET Nat, reads \subseteq Images(g)
  PROVE  /\ Sound(Submitted(g, f, reads), d, t, u, r, o)
         /\ Submitted(g, f, reads).alive = g.alive /\ Submitted(g, f, reads).retired = g.retired
<1> DEFINE new == [frame |-> f, reads |-> reads]
           s == Append(g.flight, new)
           c == Submitted(g, f, reads)
<1>1. /\ g \in Surface /\ g.flight \in Seq([frame : Nat, reads : SUBSET Nat])
      /\ new \in [frame : Nat, reads : SUBSET Nat] /\ new.frame = f /\ new.reads = reads
  BY DEF Sound, Surface
<1> HIDE DEF new
<1>2. /\ s \in Seq([frame : Nat, reads : SUBSET Nat])
      /\ Len(g.flight) \in Nat /\ Len(s) = Len(g.flight) + 1
      /\ \A i \in 1 .. Len(g.flight) : s[i] = g.flight[i]
      /\ s[Len(g.flight) + 1] = new
  BY <1>1
<1> HIDE DEF s
<1>3. /\ c.alive = g.alive /\ c.built = g.built /\ c.sets = g.sets /\ c.pool = g.pool
      /\ c.retired = g.retired /\ c.flight = s /\ c \in Surface
  <2>1. c = [g EXCEPT !.flight = s]
    BY DEF Submitted, s, new
  <2> QED
    BY <1>1, <1>2, <2>1 DEF Surface
<1> HIDE DEF c
<1>4. Revised(c) /\ Owned(c, o) /\ Stands(c, d, t)
  BY <1>3 DEF Sound, Revised, Owned, Stands
<1>5. Flying(c, u)
  <2>1. Images(c) = Images(g)
    BY <1>3 DEF Images
  <2>2. \A i \in 1 .. Len(c.flight) : \/ i \in 1 .. Len(g.flight) /\ c.flight[i] = g.flight[i]
                                      \/ i = Len(g.flight) + 1 /\ c.flight[i] = new
    BY <1>2, <1>3
  <2>3. \A i \in 1 .. Len(c.flight) : c.flight[i].reads \subseteq Images(c) \cup u
    BY <1>1, <2>1, <2>2 DEF Sound, Flying
  <2>4. \A i, j \in 1 .. Len(c.flight) : c.flight[i].frame = c.flight[j].frame => i = j
    BY <1>1, <2>2 DEF Sound, Flying
  <2> QED
    BY <2>3, <2>4 DEF Flying
<1>6. StaleSets(c) = StaleSets(g) /\ UsedSets(c) = UsedSets(g)
  BY <1>3 DEF StaleSets, UsedSets
<1>7. Pooled(c, r)
  BY <1>3, <1>6 DEF Sound, Pooled
<1>8. Sound(c, d, t, u, r, o)
  BY <1>3, <1>4, <1>5, <1>7 DEF Sound
<1> QED
  BY <1>3, <1>8 DEF c, s, new

(* A walk begins with no geometry. *)
LEMMA StartIsSound ==
  ASSUME NEW g, NEW d, NEW t, NEW u, NEW r, NEW o, Sound(g, d, t, u, r, o)
  PROVE  Sound(g, <<Null, Null>>, {}, u, r, o)
<1> DEFINE e == <<Null, Null>>
<1>1. e \in [1 .. 2 -> Places] /\ \A i \in 1 .. 2 : e[i] = Null
  BY DEF Places
<1> HIDE DEF e
<1>2. Sound(g, e, {}, u, r, o)
  BY <1>1 DEF Sound, Stands
<1> QED
  BY <1>2 DEF e

-----------------------------------------------------------------------------
(* The world *)

Entry == [made : BOOLEAN, at : Places, size : Sizes \cup {0}, writable : BOOLEAN, seen : Nat, known : Nat]
Loaded == [loaded : Sources \cup {Nameless}, texture : Places, shared : Places, moved : BOOLEAN,
           drawing : Drawings \cup {Nameless}, frame : Places, size : Nat]
Worlds ==
  [gpu : Surface, slots : [Names -> Entry], image : Places, showing : Names \cup {"nothing"},
   source : Sources, box : Nat, img : Loaded, streamsMoved : BOOLEAN, imagesMoved : BOOLEAN,
   layoutDirty : BOOLEAN, bound : Nat \X Nat, misread : BOOLEAN, mispainted : BOOLEAN,
   mDraw : [1 .. 2 -> Places], torn : SUBSET Addresses, hurried : SUBSET Nat, replaced : Nat,
   stale : SUBSET Names, late : BOOLEAN]

(* Who holds a texture: the two streams, the registry's image, the <image>, *)
(* twice; and the hand of whoever is making one.                           *)
Keep(v) == <<v.slots[feed].at, v.slots[out].at, v.image, v.img.texture, v.img.frame, Null>>

Standing(v, o) == Sound(v.gpu, v.mDraw, v.torn, v.hurried, v.replaced, o)

(* What the registries say of themselves, and the <image> of what it holds: *)
(* the picture it borrowed is the registry's unless it has been told of     *)
(* another, and, but where a drawing was measured before it was painted,    *)
(* what it owns is of the source it says it loaded.                        *)
Borrowed(v) ==
  /\ v.img.loaded = "memory" /\ ~v.img.moved => v.img.shared = v.image
  /\ v.img.shared # Null => v.img.loaded \in {"memory"} \cup Drawings
  /\ v.img.loaded \in Drawings => v.img.drawing = v.img.loaded
Of(g, a, x) == a # Null => g.alive[a].of = x
Said(v) ==
  /\ \A n \in Names : ~v.slots[n].made => v.slots[n].at = Null
  /\ ~v.misread /\ Borrowed(v) /\ Of(v.gpu, v.image, "memory")
Faithful(v) ==
  /\ Of(v.gpu, v.img.texture, v.img.loaded) /\ Of(v.gpu, v.img.frame, v.img.loaded)
  /\ ~v.mispainted

(* At most k textures are to go at the top of the next frame. *)
Few(v, k) == Cardinality(v.gpu.retired) <= k

(* What every operation keeps. *)
Good(v, k) == v \in Worlds /\ Standing(v, Keep(v)) /\ Few(v, k) /\ Said(v)

(* f is v without the texture at the address a, that h held. *)
LetGo(v, o, h, f) ==
  /\ f \in Worlds /\ Standing(f, Put(o, h, Null)) /\ OnlyFreed(v, f)
  /\ \A b \in Addresses : b # o[h] => f.gpu.alive[b] = v.gpu.alive[b]
  /\ f.gpu.retired = v.gpu.retired
  /\ v.torn \subseteq f.torn
  /\ \A i \in 1 .. 2 : v.mDraw[i] = o[h] => v.mDraw[i] \in f.torn \cup {Null}
Idle(v) == v.gpu.flight = << >>

(* What is made before the one there was goes, and what then has come of v: *)
(* h holds the new one, at a, and what the others hold stands as it did.   *)
Filling(v, of, waited) == IF waited THEN FromPixels(v.gpu, of) ELSE Create(v.gpu, of)
Replaced(v, h, a, of, f) ==
  /\ f \in Worlds /\ Standing(f, Put(Keep(v), h, a))
  /\ OnlyFreed(v, f)
  /\ f.gpu.alive[a].of = of /\ f.gpu.retired = v.gpu.retired
  /\ a \in Addresses /\ \A j \in Holders : Keep(v)[j] # a
  /\ \A b \in Addresses : b # a /\ b # Keep(v)[h] => f.gpu.alive[b] = v.gpu.alive[b]
  /\ v.torn \subseteq f.torn
  /\ \A i \in 1 .. 2 : v.mDraw[i] = Keep(v)[h] => v.mDraw[i] \in f.torn \cup {Null}

(* The holders, one by one. *)
LEMMA KeepIs ==
  ASSUME NEW v \in Worlds
  PROVE  /\ Keep(v) \in [Holders -> Places]
         /\ Keep(v)[1] = v.slots[feed].at /\ Keep(v)[2] = v.slots[out].at /\ Keep(v)[3] = v.image
         /\ Keep(v)[4] = v.img.texture /\ Keep(v)[5] = v.img.frame /\ Keep(v)[6] = Null
         /\ Keep(v)[Hand] = Null
<1>1. /\ v.slots[feed].at \in Places /\ v.slots[out].at \in Places /\ v.image \in Places
      /\ v.img.texture \in Places /\ v.img.frame \in Places /\ Null \in Places
  BY DEF Worlds, Entry, Loaded, Names, Places
<1> QED
  BY <1>1 DEF Keep, Holders, Hand

(* Two tuples of holders are the same if they agree on each. *)
LEMMA SameKeep ==
  ASSUME NEW v \in Worlds, NEW o \in [Holders -> Places],
         o[1] = v.slots[feed].at, o[2] = v.slots[out].at, o[3] = v.image,
         o[4] = v.img.texture, o[5] = v.img.frame, o[6] = Null
  PROVE  o = Keep(v)
<1>1. Keep(v) \in [Holders -> Places] /\ \A h \in Holders : Keep(v)[h] = o[h]
  BY KeepIs DEF Holders
<1> QED
  BY <1>1

(* Freed, of the texture that h holds. *)
LEMMA FreedIsSound ==
  ASSUME NEW v \in Worlds, NEW o, Standing(v, o),
         NEW h \in 1 .. 5, NEW waited \in BOOLEAN, waited => Idle(v)
  PROVE  LetGo(v, o, h, Freed(v, o[h], waited))
<1> DEFINE f == Freed(v, o[h], waited)
<1> DEFINE a == o[h]
           p == Put(o, h, Null)
<1>0. o \in [Holders -> Places] /\ h \in Holders
  BY DEF Standing, Sound, Holders
<1>1. CASE a = Null
  <2>1. f = v /\ p = o
    BY <1>0, <1>1 DEF Freed, Put
  <2> QED
    BY <1>1, <2>1 DEF Worlds, OnlyFreed, LetGo
<1>2. CASE a # Null
  <2>1. /\ f.gpu = DestroyAt(v.gpu, a) /\ f.mDraw = v.mDraw
        /\ f.torn = Tearing(v.mDraw, v.torn, a)
        /\ f.hurried = Hurrying(v.gpu, v.hurried, a, waited)
        /\ f.replaced = v.replaced + 1
    BY <1>2 DEF Freed, Worlds, Tearing, Hurrying, Drawn
  <2>2. OnlyFreed(v, f)
    BY <1>2, <2>1 DEF Freed, Worlds, OnlyFreed
  <2>3. /\ Standing(f, p)
        /\ \A b \in Addresses : b # a => f.gpu.alive[b] = v.gpu.alive[b]
        /\ f.gpu.retired = v.gpu.retired
    <3>1. Sound(v.gpu, v.mDraw, v.torn, v.hurried, v.replaced, o)
      BY DEF Standing
    <3>2. /\ Sound(DestroyAt(v.gpu, o[h]), v.mDraw, Tearing(v.mDraw, v.torn, o[h]),
                   Hurrying(v.gpu, v.hurried, o[h], waited), v.replaced + 1, Put(o, h, Null))
          /\ \A b \in Addresses : b # o[h] => DestroyAt(v.gpu, o[h]).alive[b] = v.gpu.alive[b]
          /\ DestroyAt(v.gpu, o[h]).retired = v.gpu.retired
      BY <1>2, <3>1, GoneIsSound DEF Idle
    <3> QED
      BY <2>1, <3>2 DEF Standing
  <2>4. f.gpu \in Surface /\ f.torn \in SUBSET Addresses /\ f.hurried \in SUBSET Nat /\ f.replaced \in Nat
    BY <2>3 DEF Standing, Sound
  <2>5. f \in Worlds
    BY <2>2, <2>4 DEF Worlds, OnlyFreed
  <2>6. /\ v.torn \subseteq f.torn
        /\ \A i \in 1 .. 2 : v.mDraw[i] = a => v.mDraw[i] \in f.torn \cup {Null}
    BY <2>1 DEF Tearing
  <2> QED
    BY <2>2, <2>3, <2>5, <2>6 DEF LetGo
<1> QED
  BY <1>1, <1>2

(* A texture is made, and then the one that h held is let go of. *)
LEMMA ReplaceIsSound ==
  ASSUME NEW v \in Worlds, Standing(v, Keep(v)), Few(v, 4),
         NEW of \in Makers, NEW h \in 1 .. 5, NEW waited \in BOOLEAN,
         NEW f, f = Freed(WithGpu(v, Filling(v, of, waited)), Keep(v)[h], waited)
  PROVE  Replaced(v, h, NextAddress(v.gpu), of, f)
<1> DEFINE o == Keep(v)
           a == NextAddress(v.gpu)
           g == Filling(v, of, waited)
           p == Put(o, Hand, a)
           c == Create(v.gpu, of)
           x == WithGpu(v, g)
<1>0. o \in [Holders -> Places] /\ o[Hand] = Null /\ h \in Holders /\ Hand \in Holders /\ h # Hand
  BY KeepIs DEF Holders, Hand
<1>1. /\ Sound(c, v.mDraw, v.torn, v.hurried, v.replaced, p)
      /\ a \in Addresses /\ v.gpu.alive[a] = Gone /\ c.alive[a].of = of
      /\ \A b \in Addresses : b # a => c.alive[b] = v.gpu.alive[b]
      /\ c.retired = v.gpu.retired /\ c.flight = v.gpu.flight
  <2>1. Sound(v.gpu, v.mDraw, v.torn, v.hurried, v.replaced, o) /\ Cardinality(v.gpu.retired) <= 4
    BY DEF Standing, Few
  <2> HIDE DEF o
  <2> QED
    BY <1>0, <2>1, CreateIsSound
<1> HIDE DEF c, o, a
<1>2. /\ Sound(g, v.mDraw, v.torn, v.hurried, v.replaced, p)
      /\ g.alive = c.alive /\ g.retired = v.gpu.retired /\ (waited => g.flight = << >>)
  <2>1. c = Create(v.gpu, of) /\ g = IF waited THEN WaitIdle(c) ELSE c
    BY DEF Filling, FromPixels, c
  <2> HIDE DEF g
  <2> QED
    BY <1>1, <2>1, WaitIsSound
<1>3. x \in Worlds /\ Standing(x, p) /\ x.gpu = g
  <2>1. g \in Surface
    BY <1>2 DEF Sound
  <2> QED
    BY <1>2, <2>1 DEF Worlds, Standing, WithGpu
<1>4. p[h] = o[h] /\ p[Hand] = a /\ a # Null
  BY <1>0, <1>1, NullIsNowhere DEF Put
<1>5. /\ f \in Worlds /\ Standing(f, Put(p, h, Null))
      /\ OnlyFreed(x, f)
      /\ \A b \in Addresses : b # o[h] => f.gpu.alive[b] = x.gpu.alive[b]
      /\ f.gpu.retired = x.gpu.retired
      /\ v.torn \subseteq f.torn
      /\ \A i \in 1 .. 2 : v.mDraw[i] = o[h] => v.mDraw[i] \in f.torn \cup {Null}
  <2>1. f = Freed(x, p[h], waited) /\ (waited => Idle(x))
    BY <1>2, <1>3, <1>4 DEF o, Idle
  <2>2. x \in Worlds /\ Standing(x, p)
    BY <1>3
  <2>4. x.torn = v.torn /\ x.mDraw = v.mDraw
    BY DEF Worlds, WithGpu
  <2> HIDE DEF x, p
  <2>3. LetGo(x, p, h, f)
    <3>1. CASE waited
      <4>1. LetGo(x, p, h, Freed(x, p[h], TRUE))
        BY ONLY RoomAssumption, h \in 1 .. 5, <2>1, <2>2, <3>1, FreedIsSound
      <4> QED
        BY <2>1, <3>1, <4>1
    <3>2. CASE ~waited
      <4>1. LetGo(x, p, h, Freed(x, p[h], FALSE))
        BY ONLY RoomAssumption, h \in 1 .. 5, <2>1, <2>2, <3>2, FreedIsSound
      <4> QED
        BY <2>1, <3>2, <4>1
    <3> QED
      BY <3>1, <3>2
  <2> QED
    BY <1>4, <2>3, <2>4 DEF LetGo
<1>6. OnlyFreed(v, f)
  BY <1>5 DEF Worlds, OnlyFreed, WithGpu
<1>7. \A k \in Holders : o[k] # a
  BY <1>1, <1>4 DEF Standing, Sound, Owned, o
<1>8. Standing(f, Put(o, h, a))
  <2> DEFINE q == Put(p, h, Null)
             s == FromHand(q, h)
  <2>1. q[h] = Null /\ q[Hand] = a
    BY <1>0, <1>4 DEF Put
  <2>2. s = Put(o, h, a)
    BY <1>0, <2>1 DEF Put, FromHand
  <2> HIDE DEF q
  <2>3. Sound(f.gpu, f.mDraw, f.torn, f.hurried, f.replaced, s)
    BY <1>5, <2>1, MoveIsSound DEF Standing, q
  <2> QED
    BY <2>2, <2>3 DEF Standing
<1>9. f.gpu.alive[a].of = of
  BY <1>1, <1>2, <1>3, <1>5, <1>7, <1>0
<1> QED
  BY <1>1, <1>2, <1>3, <1>5, <1>6, <1>7, <1>8, <1>9 DEF o, a, Replaced

-----------------------------------------------------------------------------
(* What keeps a world good                                                 *)
(* All that is painted so far is a stream's, or was. *)
OnlyStreams(v) ==
  \A i \in 1 .. 2 : v.mDraw[i] \in {Null, v.slots[feed].at, v.slots[out].at} \cup v.torn

(* x keeps what v had. *)
Keeps(v, x, k) ==
  /\ Good(x, k) /\ (Faithful(v) => Faithful(x)) /\ (OnlyStreams(v) => OnlyStreams(x))

Place(n) == IF n = feed THEN 1 ELSE 2

(* What is kept twice is kept. *)
LEMMA KeepsTrans ==
  ASSUME NEW v, NEW x, NEW y, NEW k, NEW j, Keeps(v, x, j), Keeps(x, y, k)
  PROVE  Keeps(v, y, k)
BY DEF Keeps

(* Nothing happens. *)
LEMMA KeepsItself ==
  ASSUME NEW v, NEW k, Good(v, k)
  PROVE  Keeps(v, v, k)
BY DEF Keeps

(* What happens above the textures. *)
LEMMA AboveIsGood ==
  ASSUME NEW v, NEW k, Good(v, k), NEW x \in Worlds,
         x.gpu = v.gpu, x.mDraw = v.mDraw, x.torn = v.torn, x.hurried = v.hurried,
         x.replaced = v.replaced, Keep(x) = Keep(v), Said(x),
         x.img.loaded = v.img.loaded, x.mispainted = v.mispainted
  PROVE  Keeps(v, x, k)
<1>0. v \in Worlds
  BY DEF Good
<1>1. /\ x.slots[feed].at = v.slots[feed].at /\ x.slots[out].at = v.slots[out].at
      /\ x.img.texture = v.img.texture /\ x.img.frame = v.img.frame
  <2>1. \A h \in 1 .. 6 : Keep(x)[h] = Keep(v)[h]
    OBVIOUS
  <2> QED
    BY <1>0, <2>1, KeepIs
<1>2. Standing(x, Keep(x)) /\ Few(x, k)
  BY DEF Good, Standing, Few
<1>3. Faithful(v) => Faithful(x)
  BY <1>1 DEF Faithful
<1>4. OnlyStreams(v) => OnlyStreams(x)
  BY <1>1 DEF OnlyStreams
<1> QED
  BY <1>2, <1>3, <1>4 DEF Keeps, Good

(* The entry of a stream and its place among the holders. *)
LEMMA SlotOf ==
  ASSUME NEW v \in Worlds, NEW n \in Names
  PROVE  /\ v.slots \in [Names -> Entry] /\ v.slots[n] \in Entry
         /\ v.slots[n].at \in Places /\ Keep(v)[Place(n)] = v.slots[n].at
         /\ Place(n) \in 1 .. 2 /\ feed \in Names /\ out \in Names
<1>1. v.slots \in [Names -> Entry] /\ v.slots[n] \in Entry
  BY DEF Worlds
<1>2. v.slots[n].at \in Places
  BY <1>1 DEF Entry
<1>3. Keep(v)[Place(n)] = v.slots[n].at /\ Place(n) \in 1 .. 2
  BY KeepIs DEF Place, Names
<1> QED
  BY <1>1, <1>2, <1>3 DEF Names

Entered(v, n, e) == [v EXCEPT !.slots[n] = e]

(* A stream's entry is written, and the texture it holds is as before. *)
LEMMA EntryIsGood ==
  ASSUME NEW v, NEW k, Good(v, k), NEW n \in Names, NEW e \in Entry, e.at = v.slots[n].at,
         ~e.made => e.at = Null, NEW x, x = Entered(v, n, e)
  PROVE  Keeps(v, x, k) /\ x.slots[n] = e /\ \A m \in Names : m # n => x.slots[m] = v.slots[m]
<1>0. v \in Worlds /\ v.slots \in [Names -> Entry] /\ feed \in Names /\ out \in Names
  BY SlotOf DEF Good
<1>1. /\ x.slots = [v.slots EXCEPT ![n] = e] /\ x.gpu = v.gpu /\ x.mDraw = v.mDraw
      /\ x.torn = v.torn /\ x.hurried = v.hurried /\ x.replaced = v.replaced
      /\ x.img = v.img /\ x.mispainted = v.mispainted /\ x.image = v.image /\ x.misread = v.misread
  BY <1>0 DEF Worlds, Entered
<1>2. x.slots \in [Names -> Entry] /\ x.slots[n] = e /\ \A m \in Names : m # n => x.slots[m] = v.slots[m]
  BY <1>0, <1>1
<1>3. x \in Worlds
  <2>1. x = [v EXCEPT !.slots = x.slots]
    BY <1>0, <1>1 DEF Worlds, Entered
  <2> QED
    BY <1>0, <1>2, <2>1 DEF Worlds
<1>4. Keep(x) = Keep(v)
  BY <1>0, <1>1, <1>2 DEF Keep
<1>5. Said(x)
  BY <1>1, <1>2 DEF Good, Said, Borrowed
<1> QED
  BY <1>1, <1>2, <1>3, <1>4, <1>5, AboveIsGood

(* Streams::slot. *)
LEMMA SlotIsGood ==
  ASSUME NEW v, NEW k, Good(v, k), NEW n \in Names
  PROVE  /\ Keeps(v, Slot(v, n), k) /\ Slot(v, n).slots[n].made
         /\ Slot(v, n).gpu = v.gpu /\ Slot(v, n).showing = v.showing /\ Slot(v, n).source = v.source
         /\ \A m \in Names : Slot(v, n).slots[m].at = v.slots[m].at
<1> DEFINE e == [NoSlot EXCEPT !.made = TRUE]
<1>0. v \in Worlds /\ v.slots \in [Names -> Entry]
  BY SlotOf DEF Good
<1>1. CASE v.slots[n].made
  BY <1>1, KeepsItself DEF Slot
<1>2. CASE ~v.slots[n].made
  <2>1. e \in Entry /\ e.at = Null /\ e.made
    <3>1. Never \in Nat
      BY StreamsAssumption DEF Never
    <3> QED
      BY <3>1 DEF Entry, NoSlot, Places
  <2>2. v.slots[n].at = Null
    BY <1>2 DEF Good, Said
  <2>3. Slot(v, n) = Entered(v, n, e)
    BY <1>2 DEF Slot, Entered
  <2> HIDE DEF e
  <2>4. Keeps(v, Slot(v, n), k) /\ Slot(v, n).slots[n] = e
        /\ \A m \in Names : m # n => Slot(v, n).slots[m] = v.slots[m]
    BY <2>1, <2>2, <2>3, EntryIsGood
  <2>5. Slot(v, n).gpu = v.gpu /\ Slot(v, n).showing = v.showing /\ Slot(v, n).source = v.source
    BY <1>0, <2>3 DEF Worlds, Entered
  <2> QED
    BY <2>1, <2>2, <2>4, <2>5
<1> QED
  BY <1>1, <1>2

(* The GPU is waited for. *)
Waited(v) == [v EXCEPT !.gpu = WaitIdle(@)]
(* Nothing else changes while the GPU is waited for. *)
LEMMA WaitedIsGood ==
  ASSUME NEW v, NEW k, Good(v, k)
  PROVE  Keeps(v, Waited(v), k)
<1> DEFINE x == Waited(v)
           o == Keep(v)
<1>0. v \in Worlds /\ Sound(v.gpu, v.mDraw, v.torn, v.hurried, v.replaced, o)
  BY DEF Good, Standing
<1>1. /\ x.gpu = WaitIdle(v.gpu) /\ x.mDraw = v.mDraw /\ x.slots = v.slots /\ x.misread = v.misread
      /\ x.torn = v.torn /\ x.hurried = v.hurried /\ x.replaced = v.replaced
      /\ x.img = v.img /\ x.mispainted = v.mispainted /\ x.image = v.image
  BY <1>0 DEF Worlds, Waited
<1>2. Keep(x) = o
  BY <1>1 DEF Keep
<1> HIDE DEF o
<1>3. Sound(WaitIdle(v.gpu), v.mDraw, v.torn, v.hurried, v.replaced, o)
      /\ WaitIdle(v.gpu).alive = v.gpu.alive /\ WaitIdle(v.gpu).retired = v.gpu.retired
  BY <1>0, WaitIsSound
<1>4. x \in Worlds
  <2>1. x = [v EXCEPT !.gpu = x.gpu] /\ x.gpu \in Surface
    BY <1>0, <1>1, <1>3 DEF Waited, Sound
  <2> HIDE DEF x
  <2> QED
    BY <1>0, <2>1 DEF Worlds
<1> HIDE DEF x
<1>5. Standing(x, Keep(x)) /\ Few(x, k)
  BY <1>1, <1>2, <1>3 DEF Standing, Few, Good
<1>6. Said(x) /\ (Faithful(v) => Faithful(x)) /\ (OnlyStreams(v) => OnlyStreams(x))
  BY <1>1, <1>3 DEF Good, Said, Borrowed, Of, Faithful, OnlyStreams
<1>7. Keeps(v, x, k)
  BY <1>4, <1>5, <1>6 DEF Keeps, Good
<1> QED
  BY <1>7 DEF x

(* What letting go of a texture leaves alone. *)
LEMMA FreedFields ==
  ASSUME NEW v \in Worlds, NEW f, OnlyFreed(v, f)
  PROVE  /\ f.slots = v.slots /\ f.img = v.img /\ f.image = v.image /\ f.mDraw = v.mDraw
         /\ f.misread = v.misread /\ f.mispainted = v.mispainted /\ f.bound = v.bound
         /\ f.showing = v.showing /\ f.source = v.source /\ f.box = v.box
BY DEF OnlyFreed, Worlds

(* What writing an entry leaves alone. *)
LEMMA EnteredFields ==
  ASSUME NEW v \in Worlds, NEW n \in Names, NEW e \in Entry, NEW x, x = Entered(v, n, e)
  PROVE  /\ x \in Worlds /\ x.gpu = v.gpu /\ x.mDraw = v.mDraw
         /\ x.torn = v.torn /\ x.hurried = v.hurried /\ x.replaced = v.replaced
         /\ x.img = v.img /\ x.mispainted = v.mispainted /\ x.image = v.image
         /\ x.misread = v.misread /\ x.bound = v.bound
         /\ x.showing = v.showing /\ x.source = v.source /\ x.box = v.box
         /\ x.slots \in [Names -> Entry] /\ x.slots[n] = e
         /\ \A m \in Names : m # n => x.slots[m] = v.slots[m]
<1>1. v.slots \in [Names -> Entry]
  BY DEF Worlds
<1>2. /\ x.slots = [v.slots EXCEPT ![n] = e] /\ x.gpu = v.gpu /\ x.mDraw = v.mDraw
      /\ x.torn = v.torn /\ x.hurried = v.hurried /\ x.replaced = v.replaced
      /\ x.img = v.img /\ x.mispainted = v.mispainted /\ x.image = v.image
      /\ x.misread = v.misread /\ x.bound = v.bound
      /\ x.showing = v.showing /\ x.source = v.source /\ x.box = v.box
  BY DEF Worlds, Entered
<1>3. x.slots \in [Names -> Entry] /\ x.slots[n] = e /\ \A m \in Names : m # n => x.slots[m] = v.slots[m]
  BY <1>1, <1>2
<1>4. x \in Worlds
  <2>1. x = [v EXCEPT !.slots = x.slots]
    BY <1>2 DEF Worlds, Entered
  <2> QED
    BY <1>3, <2>1 DEF Worlds
<1> QED
  BY <1>2, <1>3, <1>4

(* What the other holders hold stands as it did. *)
Untouched(v, f, h) ==
  \A j \in Holders : j # h /\ Keep(v)[j] # Null => f.gpu.alive[Keep(v)[j]] = v.gpu.alive[Keep(v)[j]]

(* After h has another texture, the other holders' are the same. *)
LEMMA OthersStay ==
  ASSUME NEW v \in Worlds, Standing(v, Keep(v)), NEW h \in 1 .. 5, NEW f, NEW a,
         \A k \in Holders : Keep(v)[k] # a,
         \A b \in Addresses : b # a /\ b # Keep(v)[h] => f.gpu.alive[b] = v.gpu.alive[b]
  PROVE  Untouched(v, f, h)
<1> DEFINE o == Keep(v)
<1>1. o \in [Holders -> Places] /\ h \in Holders
  BY KeepIs DEF Holders
<1>2. \A j \in Holders : j # h /\ o[j] # Null => o[j] # o[h] /\ o[j] \in Addresses
  BY <1>1 DEF Standing, Sound, Owned, Places
<1> QED
  BY <1>2 DEF Untouched

(* A stream's texture is another one. *)
LEMMA HoldingIsGood ==
  ASSUME NEW v, NEW k \in 0 .. 4, Good(v, k), NEW n \in Names, v.slots[n].made,
         NEW size \in Sizes \cup {0}, NEW waited \in BOOLEAN, NEW writable \in BOOLEAN,
         NEW f, f = Freed(WithGpu(v, Filling(v, n, waited)), v.slots[n].at, waited),
         NEW x, x = Holding(f, n, NextAddress(v.gpu), size, writable)
  PROVE  Keeps(v, x, k) /\ x.slots[n].at \in Addresses
<1> DEFINE a == NextAddress(v.gpu)
           h == Place(n)
           o == Keep(v)
           e == [v.slots[n] EXCEPT !.at = a, !.size = size, !.writable = writable]
<1>0. /\ v \in Worlds /\ v.slots \in [Names -> Entry] /\ v.slots[n] \in Entry /\ o[h] = v.slots[n].at
      /\ h \in 1 .. 2 /\ feed \in Names /\ out \in Names /\ Standing(v, o) /\ h \in 1 .. 5
      /\ o \in [Holders -> Places]
  BY SlotOf, KeepIs DEF Good
<1>1. Few(v, 4) /\ n \in Makers
  <2>2. n \in Makers
    BY Zenon DEF Makers
  <2>1. Cardinality(v.gpu.retired) \in Nat /\ Cardinality(v.gpu.retired) <= k
    BY <1>0, SetsAreFinite DEF Good, Few, Standing, Sound
  <2> QED
    BY <2>1, <2>2 DEF Few
<1> HIDE DEF a, h, o
<1>2. /\ f \in Worlds /\ Standing(f, Put(o, h, a))
      /\ OnlyFreed(v, f)
      /\ f.gpu.alive[a].of = n /\ f.gpu.retired = v.gpu.retired
      /\ a \in Addresses /\ \A j \in Holders : o[j] # a
      /\ \A b \in Addresses : b # a /\ b # o[h] => f.gpu.alive[b] = v.gpu.alive[b]
      /\ v.torn \subseteq f.torn
      /\ \A i \in 1 .. 2 : v.mDraw[i] = o[h] => v.mDraw[i] \in f.torn \cup {Null}
  <2>1. f = Freed(WithGpu(v, Filling(v, n, waited)), Keep(v)[h], waited)
    BY <1>0 DEF o
  <2>2. Replaced(v, h, NextAddress(v.gpu), n, f)
    BY <1>0, <1>1, <2>1, ReplaceIsSound DEF o
  <2> QED
    BY <2>2 DEF Replaced, o, a
<1>3. Untouched(v, f, h)
  <2>1. (\A j \in Holders : o[j] # a) /\ (\A b \in Addresses : b # a /\ b # o[h] => f.gpu.alive[b] = v.gpu.alive[b])
    BY <1>2
  <2> QED
    BY ONLY <1>0, <2>1, OthersStay DEF o
<1>4. /\ f.slots = v.slots /\ f.img = v.img /\ f.image = v.image /\ f.mDraw = v.mDraw
      /\ f.misread = v.misread /\ f.mispainted = v.mispainted
  BY <1>0, <1>2, FreedFields
<1>5. e \in Entry /\ e.at = a /\ e.made
  BY <1>0, <1>2 DEF Entry, Places
<1>6. x = Entered(f, n, e)
  BY <1>4 DEF Holding, Entered, a
<1> HIDE DEF e
<1>7. /\ x \in Worlds /\ x.gpu = f.gpu /\ x.mDraw = f.mDraw
      /\ x.torn = f.torn /\ x.hurried = f.hurried /\ x.replaced = f.replaced
      /\ x.img = f.img /\ x.mispainted = f.mispainted /\ x.image = f.image /\ x.misread = f.misread
      /\ x.slots \in [Names -> Entry] /\ x.slots[n] = e
      /\ \A m \in Names : m # n => x.slots[m] = f.slots[m]
  <2>1. f \in Worlds
    BY <1>2
  <2> QED
    BY ONLY <2>1, n \in Names, <1>5, <1>6, EnteredFields
<1>8. \A m \in Names : m # n => x.slots[m] = v.slots[m]
  BY <1>4, <1>7
<1>10. Put(o, h, a) = Keep(x)
  <2> DEFINE q == Put(o, h, a)
  <2>1. q \in [Holders -> Places] /\ q[h] = a /\ \A j \in Holders : j # h => q[j] = o[j]
    BY <1>0, <1>2 DEF Put, Holders, Places
  <2>2. /\ o[1] = v.slots[feed].at /\ o[2] = v.slots[out].at /\ o[3] = v.image
        /\ o[4] = v.img.texture /\ o[5] = v.img.frame /\ o[6] = Null
    BY <1>0, KeepIs DEF o
  <2> HIDE DEF q
  <2>3. q[1] = x.slots[feed].at /\ q[2] = x.slots[out].at
    <3>0. /\ x.slots[n].at = a /\ (n # feed => x.slots[feed].at = v.slots[feed].at)
          /\ (n # out => x.slots[out].at = v.slots[out].at)
      BY <1>0, <1>5, <1>7, <1>8
    <3>1. CASE n = feed
      <4>1. h = 1 /\ out # n /\ 1 \in Holders /\ 2 \in Holders
        BY <3>1, StreamsAssumption DEF h, Place, Holders
      <4> QED
        BY <2>1, <2>2, <3>0, <3>1, <4>1
    <3>2. CASE n # feed
      <4>1. h = 2 /\ out = n /\ 1 \in Holders /\ 2 \in Holders
        BY <3>2 DEF h, Place, Holders, Names
      <4> QED
        BY <2>1, <2>2, <3>0, <3>2, <4>1
    <3> QED
      BY <3>1, <3>2
  <2>4. q[3] = x.image /\ q[4] = x.img.texture /\ q[5] = x.img.frame /\ q[6] = Null
    <3>1. 3 \in Holders /\ 4 \in Holders /\ 5 \in Holders /\ 6 \in Holders /\ h # 3 /\ h # 4 /\ h # 5 /\ h # 6
      BY <1>0 DEF Holders
    <3> QED
      BY <1>4, <1>7, <2>1, <2>2, <3>1
  <2>5. q = Keep(x)
    BY <1>7, <2>1, <2>3, <2>4, SameKeep
  <2> QED
    BY <2>5 DEF q
<1>11. Standing(x, Keep(x)) /\ Few(x, k)
  <2>1. Standing(f, Put(o, h, a)) /\ f.gpu.retired = v.gpu.retired
    BY <1>2
  <2>2. Standing(f, Keep(x))
    BY <1>10, <2>1
  <2>3. Standing(x, Keep(x))
    BY <1>7, <2>2 DEF Standing
  <2> QED
    BY <1>7, <2>1, <2>3 DEF Few, Good
<1>12. /\ v.image # Null => f.gpu.alive[v.image] = v.gpu.alive[v.image]
       /\ v.img.texture # Null => f.gpu.alive[v.img.texture] = v.gpu.alive[v.img.texture]
       /\ v.img.frame # Null => f.gpu.alive[v.img.frame] = v.gpu.alive[v.img.frame]
  <2>1. o[3] = v.image /\ o[4] = v.img.texture /\ o[5] = v.img.frame
    BY <1>0, KeepIs DEF o
  <2>2. 3 \in Holders /\ 4 \in Holders /\ 5 \in Holders /\ h # 3 /\ h # 4 /\ h # 5
    BY <1>0 DEF Holders
  <2> QED
    BY <1>3, <2>1, <2>2 DEF Untouched, o
<1>13. Said(x)
  <2>1. Said(v)
    BY DEF Good
  <2>2. \A m \in Names : ~x.slots[m].made => x.slots[m].at = Null
    BY <1>5, <1>7, <1>8, <2>1 DEF Said
  <2>3. ~x.misread /\ Borrowed(x)
    BY <1>4, <1>7, <2>1 DEF Said, Borrowed
  <2>4. Of(x.gpu, x.image, "memory")
    BY <1>4, <1>7, <1>12, <2>1 DEF Said, Of
  <2> QED
    BY <2>2, <2>3, <2>4 DEF Said
<1>14. Faithful(v) => Faithful(x)
  BY <1>4, <1>7, <1>12 DEF Faithful, Of
<1>15. OnlyStreams(v) => OnlyStreams(x)
  <2>1. feed # out /\ n \in {feed, out}
    BY StreamsAssumption DEF Names
  <2>2. SUFFICES ASSUME OnlyStreams(v), NEW i \in 1 .. 2
                 PROVE  x.mDraw[i] \in {Null, x.slots[feed].at, x.slots[out].at} \cup x.torn
    BY DEF OnlyStreams
  <2>3. v.torn \subseteq f.torn /\ (v.mDraw[i] = v.slots[n].at => v.mDraw[i] \in f.torn \cup {Null})
    BY <1>0, <1>2
  <2>4. v.mDraw[i] \in {Null, v.slots[feed].at, v.slots[out].at} \cup v.torn
    BY <2>2 DEF OnlyStreams
  <2>5. x.mDraw[i] = v.mDraw[i] /\ x.torn = f.torn
    BY <1>4, <1>7
  <2>6. /\ (n # feed => x.slots[feed].at = v.slots[feed].at)
        /\ (n # out => x.slots[out].at = v.slots[out].at)
    BY <1>0, <1>8
  <2> QED
    BY <2>1, <2>3, <2>4, <2>5, <2>6
<1> QED
  BY <1>2, <1>5, <1>7, <1>11, <1>13, <1>14, <1>15 DEF Keeps, Good

-----------------------------------------------------------------------------
(* The registry of streams: push, target and an effect                     *)
LEMMA FreshIsGood ==
  ASSUME NEW v, NEW k, Good(v, k), NEW n \in Names
  PROVE  Keeps(v, Fresh(v, n), k)
<1> DEFINE x == Fresh(v, n)
<1>0. v \in Worlds /\ Said(v)
  BY DEF Good
<1>1. /\ x.gpu = v.gpu /\ x.mDraw = v.mDraw /\ x.torn = v.torn /\ x.hurried = v.hurried
      /\ x.replaced = v.replaced /\ x.img = v.img /\ x.mispainted = v.mispainted
      /\ x.image = v.image /\ x.slots = v.slots /\ x.misread = v.misread /\ x \in Worlds
  BY <1>0 DEF Fresh, Worlds
<1> HIDE DEF x
<1>2. Keep(x) = Keep(v) /\ Said(x)
  BY <1>0, <1>1 DEF Keep, Said, Borrowed
<1>3. Keeps(v, x, k)
  BY <1>1, <1>2, AboveIsGood
<1> QED
  BY <1>3 DEF x

(* Streams::push. *)
LEMMA PushIsGood ==
  ASSUME NEW v, NEW k \in 0 .. 4, Good(v, k), NEW n \in Names, NEW size \in Sizes \cup {0}
  PROVE  Keeps(v, Push(v, n, size), k)
<1> DEFINE s == Slot(v, n)
           f == Freed(WithGpu(s, Filling(s, n, TRUE)), s.slots[n].at, TRUE)
           x == Holding(f, n, NextAddress(s.gpu), size, FALSE)
<1>1. Keeps(v, s, k) /\ s.slots[n].made
  BY SlotIsGood
<1>2. Good(s, k)
  BY <1>1 DEF Keeps
<1>3. CASE Fits(s, n, size)
  <2>1. Push(v, n, size) = Fresh(Waited(s), n)
    BY <1>3 DEF Push, Waited
  <2> HIDE DEF s
  <2>2. Keeps(s, Waited(s), k)
    BY <1>2, WaitedIsGood
  <2>3. Keeps(Waited(s), Fresh(Waited(s), n), k)
    BY <2>2, FreshIsGood DEF Keeps
  <2> QED
    BY <1>1, <2>1, <2>2, <2>3 DEF Keeps
<1>4. CASE ~Fits(s, n, size)
  <2>1. Push(v, n, size) = Fresh(x, n)
    BY <1>4 DEF Push, WithGpu, Filling
  <2>0. f = Freed(WithGpu(s, Filling(s, n, TRUE)), s.slots[n].at, TRUE) /\ x = Holding(f, n, NextAddress(s.gpu), size, FALSE)
    OBVIOUS
  <2> HIDE DEF s, f, x
  <2>2. Keeps(s, x, k)
    BY <1>1, <1>2, <2>0, HoldingIsGood
  <2>3. Keeps(x, Fresh(x, n), k)
    BY <2>2, FreshIsGood DEF Keeps
  <2> QED
    BY <1>1, <2>1, <2>2, <2>3 DEF Keeps
<1> QED
  BY <1>3, <1>4

(* The streams' revision moves. *)
Noted(v) == [v EXCEPT !.streamsMoved = TRUE]
(* Nothing else changes when the revision moves. *)
LEMMA NotedIsGood ==
  ASSUME NEW v, NEW k, Good(v, k)
  PROVE  /\ Keeps(v, Noted(v), k) /\ Noted(v).gpu = v.gpu /\ Noted(v).slots = v.slots
<1> DEFINE x == Noted(v)
<1>0. v \in Worlds /\ Said(v)
  BY DEF Good
<1>1. /\ x.gpu = v.gpu /\ x.mDraw = v.mDraw /\ x.torn = v.torn /\ x.hurried = v.hurried
      /\ x.replaced = v.replaced /\ x.img = v.img /\ x.mispainted = v.mispainted
      /\ x.image = v.image /\ x.slots = v.slots /\ x.misread = v.misread /\ x \in Worlds
  BY <1>0 DEF Noted, Worlds
<1> HIDE DEF x
<1>2. Keep(x) = Keep(v) /\ Said(x)
  BY <1>0, <1>1 DEF Keep, Said, Borrowed
<1>3. Keeps(v, x, k)
  BY <1>1, <1>2, AboveIsGood
<1> QED
  BY <1>1, <1>3 DEF x

(* Streams::target. *)
LEMMA TargetIsGood ==
  ASSUME NEW v, NEW k \in 0 .. 4, Good(v, k), NEW n \in Names, NEW size \in Sizes \cup {0}
  PROVE  Keeps(v, Target(v, n, size), k)
<1> DEFINE t == Slot(v, n)
           s == Noted(t)
           f == Freed(WithGpu(s, Filling(s, n, FALSE)), s.slots[n].at, FALSE)
           x == Holding(f, n, NextAddress(s.gpu), size, TRUE)
<1>1. Keeps(v, t, k) /\ t.slots[n].made /\ t \in Worlds
  BY SlotIsGood DEF Keeps, Good
<1>2. Keeps(t, s, k) /\ s.gpu = t.gpu /\ s.slots = t.slots
  BY <1>1, NotedIsGood DEF Keeps
<1>3. CASE Fits(t, n, size) /\ t.slots[n].writable
  BY <1>1, <1>3 DEF Target
<1>4. CASE ~(Fits(t, n, size) /\ t.slots[n].writable)
  <2>1. WithGpu(s, Filling(s, n, FALSE)) = [t EXCEPT !.gpu = Create(@, n), !.streamsMoved = TRUE]
    BY <1>1, <1>2 DEF WithGpu, Filling, Noted, Worlds
  <2>2. Target(v, n, size) = x
    BY <1>2, <1>4, <2>1 DEF Target
  <2>0. f = Freed(WithGpu(s, Filling(s, n, FALSE)), s.slots[n].at, FALSE) /\ x = Holding(f, n, NextAddress(s.gpu), size, TRUE)
    OBVIOUS
  <2> HIDE DEF s, f, x, t
  <2>3. Good(s, k) /\ s.slots[n].made
    BY <1>1, <1>2 DEF Keeps
  <2>4. Keeps(s, x, k)
    BY <2>0, <2>3, HoldingIsGood
  <2> QED
    BY <1>1, <1>2, <2>2, <2>4 DEF Keeps
<1> QED
  BY <1>3, <1>4

(* Effects::apply. *)
LEMMA ApplyIsGood ==
  ASSUME NEW v, NEW k \in 0 .. 4, Good(v, k)
  PROVE  Keeps(v, Apply(v, feed, out), k)
<1> DEFINE t == Target(v, out, v.slots[feed].size)
           b == <<Revision(t.gpu, t.slots[feed].at), Revision(t.gpu, t.slots[out].at)>>
           x == [t EXCEPT !.bound = b, !.misread = FALSE, !.gpu = WaitIdle(@)]
<1>0. v \in Worlds /\ feed \in Names /\ out \in Names /\ v.slots[feed].size \in Sizes \cup {0}
  BY SlotOf DEF Good, Entry, Names
<1>1. Keeps(v, t, k)
  BY <1>0, TargetIsGood
<1> HIDE DEF t
<1>2. CASE v.slots[feed].at = Null
  BY <1>2, KeepsItself DEF Apply
<1>3. CASE v.slots[feed].at # Null
  <2>0. t \in Worlds /\ Said(t) /\ Good(t, k)
    BY <1>1 DEF Keeps, Good
  <2>1. b \in Nat \X Nat
    <3>1. \A n \in Names : Revision(t.gpu, t.slots[n].at) \in Nat
      <4>1. SUFFICES ASSUME NEW n \in Names PROVE Revision(t.gpu, t.slots[n].at) \in Nat
        OBVIOUS
      <4>2. t.slots[n].at \in Places /\ t.gpu.alive \in [Addresses -> Texture]
        BY <2>0, SlotOf DEF Worlds, Surface
      <4> QED
        BY <4>2 DEF Revision, Places, Texture
    <3> QED
      BY <1>0, <3>1
  <2>2. Apply(v, feed, out) = Fresh(x, out)
    <3>1. feed # out /\ t.misread = FALSE
      BY <2>0, StreamsAssumption DEF Said, Worlds
    <3> QED
      BY <1>3, <3>1 DEF Apply, t
  <2> DEFINE y == Waited(t)
  <2>3. Keeps(t, y, k) /\ y \in Worlds /\ Said(y)
    BY <2>0, WaitedIsGood DEF Keeps, Good
  <2>4. /\ x.gpu = y.gpu /\ x.mDraw = y.mDraw /\ x.torn = y.torn /\ x.hurried = y.hurried
        /\ x.replaced = y.replaced /\ x.img = y.img /\ x.mispainted = y.mispainted
        /\ x.image = y.image /\ x.slots = y.slots /\ x.misread = FALSE
    BY <2>0 DEF Waited, Worlds
  <2>5. x \in Worlds
    <3>1. x = [y EXCEPT !.bound = b, !.misread = FALSE]
      BY <2>0 DEF Waited, Worlds
    <3> HIDE DEF x, y, b
    <3> QED
      BY <2>1, <2>3, <3>1 DEF Worlds
  <2> HIDE DEF x, y
  <2>6. Keep(x) = Keep(y) /\ Said(x)
    BY <2>3, <2>4 DEF Keep, Said, Borrowed
  <2>7. Good(y, k) /\ x.img.loaded = y.img.loaded
    BY <2>3, <2>4 DEF Keeps
  <2>8. Keeps(y, x, k)
    BY <2>4, <2>5, <2>6, <2>7, AboveIsGood
  <2>9. Keeps(x, Fresh(x, out), k)
    BY <1>0, <2>8, FreshIsGood DEF Keeps
  <2> QED
    BY <1>1, <2>2, <2>3, <2>8, <2>9 DEF Keeps
<1> QED
  BY <1>2, <1>3

-----------------------------------------------------------------------------
(* The registry of streams: close                                          *)
(* The holder h has another texture, or none. *)
LEMMA RehungIsGood ==
  ASSUME NEW v, NEW k, Good(v, k), NEW h \in 1 .. 3, NEW f, OnlyFreed(v, f),
         NEW a, Standing(f, Put(Keep(v), h, a)), f.gpu.retired = v.gpu.retired,
         Untouched(v, f, h), v.torn \subseteq f.torn,
         \A i \in 1 .. 2 : v.mDraw[i] = Keep(v)[h] => v.mDraw[i] \in f.torn \cup {Null},
         NEW x \in Worlds, x.gpu = f.gpu, x.mDraw = f.mDraw, x.torn = f.torn,
         x.hurried = f.hurried, x.replaced = f.replaced, Keep(x) = Put(Keep(v), h, a),
         x.img.loaded = v.img.loaded, x.mispainted = v.mispainted, Said(x)
  PROVE  Keeps(v, x, k)
<1> DEFINE o == Keep(v)
           q == Keep(x)
<1>0. /\ v \in Worlds /\ o \in [Holders -> Places] /\ h \in Holders /\ q \in [Holders -> Places]
      /\ f.mDraw = v.mDraw
  BY KeepIs, FreedFields DEF Good, Holders
<1>1. /\ o[1] = v.slots[feed].at /\ o[2] = v.slots[out].at
      /\ o[4] = v.img.texture /\ o[5] = v.img.frame
      /\ q[1] = x.slots[feed].at /\ q[2] = x.slots[out].at
      /\ q[4] = x.img.texture /\ q[5] = x.img.frame
  BY <1>0, KeepIs
<1> HIDE DEF o, q
<1>2. \A j \in Holders : j # h => q[j] = o[j]
  BY <1>0 DEF Put, o, q
<1>3. Standing(x, q) /\ Few(x, k)
  BY DEF Standing, Few, Good, q
<1>4. Faithful(v) => Faithful(x)
  <2>1. 4 \in Holders /\ 5 \in Holders /\ h # 4 /\ h # 5
    BY DEF Holders
  <2>2. x.img.texture = v.img.texture /\ x.img.frame = v.img.frame
    BY <1>1, <1>2, <2>1
  <2>3. /\ v.img.texture # Null => f.gpu.alive[v.img.texture] = v.gpu.alive[v.img.texture]
        /\ v.img.frame # Null => f.gpu.alive[v.img.frame] = v.gpu.alive[v.img.frame]
    BY <1>1, <2>1 DEF Untouched, o
  <2> QED
    BY <2>2, <2>3 DEF Faithful, Of
<1>5. OnlyStreams(v) => OnlyStreams(x)
  <2>1. SUFFICES ASSUME OnlyStreams(v), NEW i \in 1 .. 2
                 PROVE  x.mDraw[i] \in {Null, x.slots[feed].at, x.slots[out].at} \cup x.torn
    BY DEF OnlyStreams
  <2>2. v.mDraw[i] \in {Null, o[1], o[2]} \cup v.torn
    BY <1>1, <2>1 DEF OnlyStreams
  <2>3. v.mDraw[i] = o[h] => v.mDraw[i] \in f.torn \cup {Null}
    BY DEF o
  <2>4. (h # 1 => q[1] = o[1]) /\ (h # 2 => q[2] = o[2])
    BY <1>2 DEF Holders
  <2> QED
    BY <1>0, <1>1, <2>2, <2>3, <2>4
<1> QED
  BY <1>3, <1>4, <1>5 DEF Keeps, Good, q

(* Streams::close. *)
LEMMA CloseIsGood ==
  ASSUME NEW v, NEW k \in 0 .. 4, Good(v, k), NEW n \in Names
  PROVE  Keeps(v, Close(v, n), k)
<1> DEFINE h == Place(n)
           o == Keep(v)
           f == Freed(v, o[h], FALSE)
           y == Entered(f, n, NoSlot)
           x == [y EXCEPT !.streamsMoved = TRUE, !.stale = @ \ {n}]
<1>1. CASE ~v.slots[n].made
  BY <1>1, KeepsItself DEF Close
<1>2. CASE v.slots[n].made
  <2>0. v \in Worlds /\ Standing(v, o) /\ h \in 1 .. 3 /\ h \in 1 .. 5 /\ o[h] = v.slots[n].at /\ Said(v)
    BY SlotOf DEF Good
  <2>1. LetGo(v, o, h, f)
    <3> HIDE DEF o, h
    <3> QED
      BY <2>0, FreedIsSound
  <2>2. Close(v, n) = x
    <3>1. f \in Worlds
      BY <2>1 DEF LetGo
    <3>2. Close(v, n) = [f EXCEPT !.slots[n] = NoSlot, !.streamsMoved = TRUE, !.stale = @ \ {n}]
      BY <1>2, <2>0 DEF Close
    <3> HIDE DEF f
    <3> QED
      BY <3>1, <3>2 DEF Entered, Worlds
  <2> HIDE DEF f, h
  <2>3. /\ f \in Worlds /\ Standing(f, Put(o, h, Null)) /\ OnlyFreed(v, f) /\ v.torn \subseteq f.torn
        /\ f.gpu.retired = v.gpu.retired
        /\ \A i \in 1 .. 2 : v.mDraw[i] = o[h] => v.mDraw[i] \in f.torn \cup {Null}
    BY <2>1 DEF LetGo
  <2>4. Untouched(v, f, h)
    <3>1. \A j \in Holders : j # h /\ o[j] # Null => o[j] # o[h] /\ o[j] \in Addresses
      BY <2>0, KeepIs DEF Standing, Sound, Owned, Places, Holders
    <3>2. \A b \in Addresses : b # o[h] => f.gpu.alive[b] = v.gpu.alive[b]
      BY <2>1 DEF LetGo
    <3> QED
      BY <3>1, <3>2 DEF Untouched
  <2>5. NoSlot \in Entry /\ NoSlot.at = Null
    <3>1. Never \in Nat
      BY StreamsAssumption DEF Never
    <3> QED
      BY <3>1 DEF Entry, NoSlot, Places
  <2> HIDE DEF y
  <2>6. /\ y \in Worlds /\ y.gpu = f.gpu /\ y.mDraw = f.mDraw
        /\ y.torn = f.torn /\ y.hurried = f.hurried /\ y.replaced = f.replaced
        /\ y.img = f.img /\ y.mispainted = f.mispainted /\ y.image = f.image
        /\ y.misread = f.misread /\ y.slots \in [Names -> Entry] /\ y.slots[n] = NoSlot
        /\ \A m \in Names : m # n => y.slots[m] = f.slots[m]
    BY <2>3, <2>5, EnteredFields DEF y
  <2>7. /\ x.gpu = y.gpu /\ x.mDraw = y.mDraw /\ x.torn = y.torn /\ x.hurried = y.hurried
        /\ x.replaced = y.replaced /\ x.img = y.img /\ x.mispainted = y.mispainted
        /\ x.image = y.image /\ x.slots = y.slots /\ x.misread = y.misread /\ x \in Worlds
    BY <2>6 DEF Worlds
  <2> HIDE DEF x
  <2>8. f.slots = v.slots /\ f.img = v.img /\ f.image = v.image /\ f.misread = v.misread /\ f.mispainted = v.mispainted
    BY <2>0, <2>3, FreedFields
  <2>9. Keep(x) = Put(o, h, Null)
    <3> DEFINE q == Put(o, h, Null)
    <3>1. q \in [Holders -> Places] /\ q[h] = Null /\ \A j \in Holders : j # h => q[j] = o[j]
      BY <2>0, KeepIs DEF Put, Holders, Places
    <3>2. /\ o[1] = v.slots[feed].at /\ o[2] = v.slots[out].at /\ o[3] = v.image
          /\ o[4] = v.img.texture /\ o[5] = v.img.frame /\ o[6] = Null
      BY <2>0, KeepIs
    <3>3. /\ 1 \in Holders /\ 2 \in Holders /\ 3 \in Holders /\ 4 \in Holders /\ 5 \in Holders /\ 6 \in Holders
          /\ h \in {1, 2} /\ feed # out /\ (h = 1 <=> n = feed) /\ (h = 2 <=> n = out)
          /\ feed \in Names /\ out \in Names
      BY StreamsAssumption DEF Holders, h, Place, Names
    <3>4. /\ x.slots[n].at = Null /\ (n # feed => x.slots[feed].at = v.slots[feed].at)
          /\ (n # out => x.slots[out].at = v.slots[out].at)
      BY <2>5, <2>6, <2>7, <2>8, <3>3
    <3> HIDE DEF q, o
    <3>5. q[1] = x.slots[feed].at /\ q[2] = x.slots[out].at
      BY <3>1, <3>2, <3>3, <3>4
    <3>6. q[3] = x.image /\ q[4] = x.img.texture /\ q[5] = x.img.frame /\ q[6] = Null
      BY <2>6, <2>7, <2>8, <3>1, <3>2, <3>3
    <3>7. q = Keep(x)
      BY <2>7, <3>1, <3>5, <3>6, SameKeep
    <3> QED
      BY <3>7 DEF q
  <2>10. Said(x)
    <3>1. \A m \in Names : ~x.slots[m].made => x.slots[m].at = Null
      BY <2>0, <2>5, <2>6, <2>7, <2>8 DEF Said
    <3>2. ~x.misread /\ Borrowed(x)
      BY <2>0, <2>6, <2>7, <2>8 DEF Said, Borrowed
    <3>3. v.image # Null => f.gpu.alive[v.image] = v.gpu.alive[v.image]
      <4>1. o[3] = v.image /\ 3 \in Holders /\ h # 3
        BY <2>0, KeepIs DEF Holders, h, Place
      <4> QED
        BY <2>4, <4>1 DEF Untouched
    <3>4. Of(x.gpu, x.image, "memory")
      BY <2>0, <2>6, <2>7, <2>8, <3>3 DEF Said, Of
    <3> QED
      BY <3>1, <3>2, <3>4 DEF Said
  <2>11. Keeps(v, x, k)
    <3>1. x.gpu = f.gpu /\ x.mDraw = f.mDraw /\ x.torn = f.torn /\ x.hurried = f.hurried /\ x.replaced = f.replaced
      BY <2>6, <2>7
    <3>2. x.img.loaded = v.img.loaded /\ x.mispainted = v.mispainted
      BY <2>6, <2>7, <2>8
    <3>3. Good(v, k) /\ h \in 1 .. 3 /\ x \in Worlds
      BY <2>0, <2>7
    <3> QED
      BY <2>3, <2>4, <2>9, <2>10, <3>1, <3>2, <3>3, RehungIsGood DEF o
  <2> QED
    BY <2>2, <2>11
<1> QED
  BY <1>1, <1>2

-----------------------------------------------------------------------------
(* The registry of images, and every call                                  *)
(* The registry's image is another one, or none; everyone is told. *)
Imaged(f, a) == [f EXCEPT !.image = a, !.imagesMoved = TRUE, !.img.moved = TRUE]

(* After the registry's texture has changed hands. *)
LEMMA ImagedIsGood ==
  ASSUME NEW v, NEW k, Good(v, k), NEW f, f \in Worlds, OnlyFreed(v, f), NEW a \in Places,
         Standing(f, Put(Keep(v), 3, a)), f.gpu.retired = v.gpu.retired, Untouched(v, f, 3),
         v.torn \subseteq f.torn, Of(f.gpu, a, "memory"),
         \A i \in 1 .. 2 : v.mDraw[i] = Keep(v)[3] => v.mDraw[i] \in f.torn \cup {Null}
  PROVE  Keeps(v, Imaged(f, a), k)
<1> DEFINE o == Keep(v)
           x == Imaged(f, a)
           m == [f.img EXCEPT !.moved = TRUE]
<1>0. v \in Worlds /\ o \in [Holders -> Places] /\ Said(v)
  BY KeepIs DEF Good
<1>1. /\ f.slots = v.slots /\ f.img = v.img /\ f.image = v.image /\ f.misread = v.misread
      /\ f.mispainted = v.mispainted
  BY <1>0, FreedFields
<1>2. /\ x.gpu = f.gpu /\ x.mDraw = f.mDraw /\ x.torn = f.torn /\ x.hurried = f.hurried
      /\ x.replaced = f.replaced /\ x.img = m /\ x.mispainted = f.mispainted
      /\ x.image = a /\ x.slots = f.slots /\ x.misread = f.misread
  BY DEF Worlds, Imaged
<1>3. /\ m \in Loaded /\ m.loaded = f.img.loaded /\ m.texture = f.img.texture /\ m.moved = TRUE
      /\ m.frame = f.img.frame /\ m.shared = f.img.shared /\ m.drawing = f.img.drawing
  <2>1. f.img \in Loaded
    BY DEF Worlds
  <2> QED
    BY <2>1 DEF Loaded
<1> HIDE DEF m
<1>4. x \in Worlds
  <2>1. x = [f EXCEPT !.image = a, !.imagesMoved = TRUE, !.img = m]
    BY DEF Imaged, m, Worlds
  <2> HIDE DEF x
  <2> QED
    BY <1>3, <2>1 DEF Worlds
<1> HIDE DEF x
<1>5. Keep(x) = Put(o, 3, a)
  <2> DEFINE q == Put(o, 3, a)
  <2>1. q \in [Holders -> Places] /\ q[3] = a /\ \A j \in Holders : j # 3 => q[j] = o[j]
    BY <1>0 DEF Put, Holders, Places
  <2>2. /\ o[1] = v.slots[feed].at /\ o[2] = v.slots[out].at /\ o[3] = v.image
        /\ o[4] = v.img.texture /\ o[5] = v.img.frame /\ o[6] = Null
    BY <1>0, KeepIs
  <2> HIDE DEF q, o
  <2>3. /\ q[1] = x.slots[feed].at /\ q[2] = x.slots[out].at /\ q[3] = x.image
        /\ q[4] = x.img.texture /\ q[5] = x.img.frame /\ q[6] = Null
    <3>1. q[1] = o[1] /\ q[2] = o[2] /\ q[4] = o[4] /\ q[5] = o[5] /\ q[6] = o[6]
      BY <2>1 DEF Holders
    <3> QED
      BY <1>1, <1>2, <1>3, <2>1, <2>2, <3>1
  <2>4. q = Keep(x)
    BY <1>4, <2>1, <2>3, SameKeep
  <2> QED
    BY <2>4 DEF q
<1>6. Said(x)
  BY <1>0, <1>1, <1>2, <1>3 DEF Said, Borrowed
<1>7. Keeps(v, x, k)
  <2>1. x.img.loaded = v.img.loaded /\ x.mispainted = v.mispainted /\ 3 \in 1 .. 3
    BY <1>1, <1>2, <1>3
  <2> QED
    BY <1>2, <1>4, <1>5, <1>6, <2>1, RehungIsGood DEF o
<1> QED
  BY <1>7 DEF x

ReImaged(v, a) == [v EXCEPT !.image = a]

(* A registry's image is not what letting go of a texture looks at. *)
LEMMA FreedApart ==
  ASSUME NEW v \in Worlds, NEW a, NEW b, NEW waited \in BOOLEAN
  PROVE  Freed(ReImaged(v, b), a, waited) = ReImaged(Freed(v, a, waited), b)
<1> DEFINE x == ReImaged(v, b)
<1>1. CASE a = Null
  BY <1>1 DEF Freed
<1>2. CASE a # Null
  <2>1. /\ x.gpu = v.gpu /\ x.mDraw = v.mDraw /\ x.torn = v.torn /\ x.hurried = v.hurried
        /\ x.replaced = v.replaced
    BY DEF ReImaged, Worlds
  <2> DEFINE g == DestroyAt(v.gpu, a)
             t == IF a \in Drawn(v) THEN v.torn \cup {a} ELSE v.torn
             u == IF waited THEN v.hurried ELSE (v.hurried \cup {Revision(v.gpu, a)}) \cap InFlight(v.gpu)
             r == v.replaced + 1
  <2>2. Freed(v, a, waited) = [v EXCEPT !.gpu = g, !.torn = t, !.hurried = u, !.replaced = r]
    BY <1>2 DEF Freed
  <2>3. Freed(x, a, waited) = [x EXCEPT !.gpu = g, !.torn = t, !.hurried = u, !.replaced = r]
    BY <1>2, <2>1 DEF Freed, Drawn
  <2> HIDE DEF g, t, u, r
  <2> QED
    BY <2>2, <2>3 DEF ReImaged, Worlds
<1> QED
  BY <1>1, <1>2

(* Images::define. *)
LEMMA DefineIsGood ==
  ASSUME NEW v, NEW k \in 0 .. 4, Good(v, k)
  PROVE  Keeps(v, Define(v), k)
<1> DEFINE g == Filling(v, "memory", TRUE)
           a == NextAddress(v.gpu)
           f == Freed(WithGpu(v, g), Keep(v)[3], TRUE)
<1>0. v \in Worlds /\ Standing(v, Keep(v)) /\ Keep(v)[3] = v.image /\ 3 \in 1 .. 5
  BY KeepIs DEF Good
<1>1. Few(v, 4) /\ "memory" \in Makers
  <2>1. Cardinality(v.gpu.retired) \in Nat /\ Cardinality(v.gpu.retired) <= k
    BY <1>0, SetsAreFinite DEF Good, Few, Standing, Sound
  <2>2. "memory" \in Makers
    BY Zenon DEF Makers, Sources
  <2> QED
    BY <2>1, <2>2 DEF Few
<1>3. Define(v) = Imaged(f, a)
  <2> DEFINE x == WithGpu(v, g)
  <2>1. x \in Worlds
    <3>1. g \in Surface
      <4>1. Sound(v.gpu, v.mDraw, v.torn, v.hurried, v.replaced, Keep(v)) /\ Keep(v)[Hand] = Null
            /\ Cardinality(v.gpu.retired) <= 4
        BY <1>0, <1>1, KeepIs DEF Standing, Few
      <4>2. \E p : Sound(Create(v.gpu, "memory"), v.mDraw, v.torn, v.hurried, v.replaced, p)
        BY <1>1, <4>1, CreateIsSound
      <4> QED
        BY <4>2, WaitIsSound DEF Filling, FromPixels, Sound
    <3> HIDE DEF g
    <3> QED
      BY <1>0, <3>1 DEF WithGpu, Worlds
  <2>2. Define(v) = Moved(Freed(ReImaged(x, a), v.image, TRUE))
    BY <1>0 DEF Define, ReImaged, WithGpu, Worlds, Filling
  <2> HIDE DEF x
  <2>3. Define(v) = Moved(ReImaged(Freed(x, v.image, TRUE), a))
    BY <2>1, <2>2, FreedApart
  <2>4. f = Freed(x, v.image, TRUE)
    BY <1>0 DEF x
  <2> HIDE DEF f
  <2> QED
    BY <2>3, <2>4 DEF Moved, ReImaged, Imaged
<1> HIDE DEF g, a, f
<1>4. /\ f \in Worlds /\ Standing(f, Put(Keep(v), 3, a))
      /\ OnlyFreed(v, f)
      /\ f.gpu.alive[a].of = "memory" /\ f.gpu.retired = v.gpu.retired
      /\ a \in Addresses /\ \A j \in Holders : Keep(v)[j] # a
      /\ \A b \in Addresses : b # a /\ b # Keep(v)[3] => f.gpu.alive[b] = v.gpu.alive[b]
      /\ v.torn \subseteq f.torn
      /\ \A i \in 1 .. 2 : v.mDraw[i] = Keep(v)[3] => v.mDraw[i] \in f.torn \cup {Null}
  <2>1. f = Freed(WithGpu(v, Filling(v, "memory", TRUE)), Keep(v)[3], TRUE)
    BY DEF f, g
  <2>2. Replaced(v, 3, NextAddress(v.gpu), "memory", f)
    BY ONLY RoomAssumption, <1>0, <1>1, <2>1, ReplaceIsSound
  <2> QED
    BY <2>2 DEF Replaced, a
<1>5. Untouched(v, f, 3)
  <2>1. /\ \A j \in Holders : Keep(v)[j] # a
        /\ \A b \in Addresses : b # a /\ b # Keep(v)[3] => f.gpu.alive[b] = v.gpu.alive[b]
    BY <1>4
  <2> QED
    BY ONLY <1>0, <2>1, OthersStay
<1>6. Of(f.gpu, a, "memory") /\ a \in Places
  BY <1>4 DEF Of, Places
<1>7. Keeps(v, Imaged(f, a), k)
  BY <1>4, <1>5, <1>6, ImagedIsGood
<1> QED
  BY <1>3, <1>7

(* Images::forget. *)
LEMMA ForgetIsGood ==
  ASSUME NEW v, NEW k \in 0 .. 4, Good(v, k)
  PROVE  Keeps(v, Forget(v), k)
<1> DEFINE o == Keep(v)
           f == Freed(v, o[3], FALSE)
<1>0. v \in Worlds /\ Standing(v, o) /\ o[3] = v.image /\ 3 \in 1 .. 5 /\ o \in [Holders -> Places]
  BY KeepIs DEF Good
<1>1. CASE v.image = Null
  BY <1>1, KeepsItself DEF Forget
<1>2. CASE v.image # Null
  <2>1. LetGo(v, o, 3, f)
    <3> HIDE DEF o
    <3> QED
      BY <1>0, FreedIsSound
  <2>2. Forget(v) = Imaged(f, Null)
    <3>1. Forget(v) = Moved(Freed(ReImaged(v, Null), v.image, FALSE))
      BY <1>2 DEF Forget, ReImaged
    <3>2. Forget(v) = Moved(ReImaged(Freed(v, v.image, FALSE), Null))
      BY <1>0, <3>1, FreedApart
    <3>3. f = Freed(v, v.image, FALSE)
      BY <1>0
    <3> HIDE DEF f
    <3> QED
      BY <3>2, <3>3 DEF Moved, ReImaged, Imaged
  <2> HIDE DEF f
  <2>3. /\ f \in Worlds /\ Standing(f, Put(o, 3, Null)) /\ OnlyFreed(v, f) /\ v.torn \subseteq f.torn
        /\ f.gpu.retired = v.gpu.retired
        /\ \A i \in 1 .. 2 : v.mDraw[i] = o[3] => v.mDraw[i] \in f.torn \cup {Null}
    BY <2>1 DEF LetGo
  <2>4. Untouched(v, f, 3)
    <3>1. \A j \in Holders : j # 3 /\ o[j] # Null => o[j] # o[3] /\ o[j] \in Addresses
      BY <1>0 DEF Standing, Sound, Owned, Places, Holders
    <3>2. \A b \in Addresses : b # o[3] => f.gpu.alive[b] = v.gpu.alive[b]
      BY <2>1 DEF LetGo
    <3> QED
      BY <3>1, <3>2 DEF Untouched
  <2>5. Of(f.gpu, Null, "memory") /\ Null \in Places
    BY DEF Of, Places
  <2>6. Keeps(v, Imaged(f, Null), k)
    BY <2>3, <2>4, <2>5, ImagedIsGood
  <2> QED
    BY <2>2, <2>6
<1> QED
  BY <1>1, <1>2

(* Streams::read. *)
LEMMA ReadIsGood ==
  ASSUME NEW v, NEW k, Good(v, k), NEW n \in Names
  PROVE  Keeps(v, Read(v, n), k)
<1>1. Read(v, n) = v \/ Read(v, n) = Waited(v)
  BY DEF Read, Waited
<1> QED
  BY <1>1, KeepsItself, WaitedIsGood

(* Every call of a registry. *)
LEMMA RegistryCallsAreGood ==
  ASSUME NEW v, NEW k \in 0 .. 4, Good(v, k), NEW c \in RegistryCalls
  PROVE  Keeps(v, After(v, c), k)
<1>1. CASE c \in {"push"} \X Sizes
  <2>1. After(v, c) = Push(v, feed, c[2]) /\ feed \in Names /\ c[2] \in Sizes
    BY <1>1 DEF After, Names
  <2> QED
    BY <2>1, PushIsGood
<1>2. CASE c \in {"close"} \X Names
  <2>1. After(v, c) = Close(v, c[2]) /\ c[2] \in Names
    BY <1>2 DEF After
  <2> QED
    BY <2>1, CloseIsGood
<1>3. CASE c = <<"read", feed>>
  <2>1. After(v, c) = Read(v, feed) /\ feed \in Names
    BY <1>3 DEF After, Names
  <2> QED
    BY <2>1, ReadIsGood
<1>4. CASE c = <<"apply", feed>>
  <2>1. After(v, c) = Apply(v, feed, out)
    BY <1>4 DEF After
  <2> QED
    BY <2>1, ApplyIsGood
<1>5. CASE c = <<"define", feed>>
  <2>1. After(v, c) = Define(v)
    BY <1>5 DEF After
  <2> QED
    BY <2>1, DefineIsGood
<1>6. CASE c = <<"forget", feed>>
  <2>1. After(v, c) = Forget(v)
    BY <1>6 DEF After
  <2> QED
    BY <2>1, ForgetIsGood
<1> QED
  BY <1>1, <1>2, <1>3, <1>4, <1>5, <1>6 DEF RegistryCalls

(* Every change of what is on the screen. *)
LEMMA ScreenCallsAreGood ==
  ASSUME NEW v, NEW k, Good(v, k), NEW c \in ScreenCalls
  PROVE  Keeps(v, After(v, c), k)
<1> DEFINE x == After(v, c)
<1>0. v \in Worlds /\ Said(v)
  BY DEF Good
<1>1. /\ x.gpu = v.gpu /\ x.mDraw = v.mDraw /\ x.torn = v.torn /\ x.hurried = v.hurried
      /\ x.replaced = v.replaced /\ x.img = v.img /\ x.mispainted = v.mispainted
      /\ x.image = v.image /\ x.slots = v.slots /\ x.misread = v.misread /\ x \in Worlds
  <2>1. CASE c \in {"show"} \X (Names \cup {"nothing"})
    <3>1. x = Shows(v, c[2]) /\ c[2] \in Names \cup {"nothing"}
      BY <2>1 DEF After
    <3> HIDE DEF x
    <3> QED
      BY <1>0, <3>1 DEF Shows, Worlds
  <2>2. CASE c \in {"source"} \X Sources
    <3>1. x = SetSource(v, c[2]) /\ c[2] \in Sources
      BY <2>2 DEF After
    <3> HIDE DEF x
    <3> QED
      BY <1>0, <3>1 DEF SetSource, Worlds
  <2>3. CASE c \in {"box"} \X (1 .. 2)
    <3>1. x = SetBox(v, c[2]) /\ c[2] \in Nat
      BY <2>3 DEF After
    <3> HIDE DEF x
    <3> QED
      BY <1>0, <3>1 DEF SetBox, Worlds
  <2> QED
    BY <2>1, <2>2, <2>3 DEF ScreenCalls
<1> HIDE DEF x
<1>2. Keep(x) = Keep(v) /\ Said(x)
  BY <1>0, <1>1 DEF Keep, Said, Borrowed
<1>3. Keeps(v, x, k)
  BY <1>1, <1>2, AboveIsGood
<1> QED
  BY <1>3 DEF x

-----------------------------------------------------------------------------
(* The widgets *)

(* A command for what a stream or the <image> holds. *)
LEMMA PaintingStands ==
  ASSUME NEW v, NEW k, Good(v, k), NEW i \in 1 .. 2, NEW h \in Holders, NEW x, x = Painting(v, i, Keep(v)[h])
  PROVE  /\ Good(x, k) /\ (Faithful(v) => Faithful(x))
         /\ (OnlyStreams(v) /\ h \in {1, 2} => OnlyStreams(x))
<1> DEFINE o == Keep(v)
<1>0. /\ v \in Worlds /\ Sound(v.gpu, v.mDraw, v.torn, v.hurried, v.replaced, o) /\ Said(v)
      /\ v.mDraw \in [1 .. 2 -> Places]
  BY DEF Good, Standing, Sound
<1>1. /\ x.gpu = v.gpu /\ x.mDraw = Put(v.mDraw, i, o[h]) /\ x.slots = v.slots /\ x.misread = v.misread
      /\ x.torn = v.torn /\ x.hurried = v.hurried /\ x.replaced = v.replaced
      /\ x.img = v.img /\ x.mispainted = v.mispainted /\ x.image = v.image
      /\ x = [v EXCEPT !.mDraw = x.mDraw]
  BY <1>0 DEF Worlds, Painting, Put
<1>2. Keep(x) = o
  BY <1>1 DEF Keep
<1>3. o[1] = v.slots[feed].at /\ o[2] = v.slots[out].at
  BY <1>0, KeepIs
<1> HIDE DEF o
<1>4. Sound(x.gpu, x.mDraw, x.torn, x.hurried, x.replaced, o)
  BY <1>0, <1>1, PaintIsSound
<1>5. x \in Worlds
  <2>1. x.mDraw \in [1 .. 2 -> Places]
    BY <1>4 DEF Sound
  <2> QED
    BY <1>0, <1>1, <2>1 DEF Worlds
<1>6. Said(x) /\ (Faithful(v) => Faithful(x))
  BY <1>0, <1>1 DEF Said, Borrowed, Faithful
<1>7. OnlyStreams(v) /\ h \in {1, 2} => OnlyStreams(x)
  BY <1>0, <1>1, <1>3 DEF OnlyStreams, Put
<1> QED
  BY <1>1, <1>2, <1>4, <1>5, <1>6, <1>7 DEF Good, Standing, Few

(* Stream::paint. *)
LEMMA PaintStreamIsGood ==
  ASSUME NEW v, NEW k, Good(v, k)
  PROVE  Keeps(v, PaintStream(v), k)
<1> DEFINE n == v.showing
           s == Slot(v, n)
           e == [s.slots[n] EXCEPT !.seen = 0]
           y == Entered(s, n, e)
<1>1. CASE n \notin Names
  BY <1>1, KeepsItself DEF PaintStream
<1>2. CASE n \in Names
  <2>1. Keeps(v, s, k) /\ s.slots[n].made
    BY <1>2, SlotIsGood
  <2>2. Good(s, k) /\ s \in Worlds /\ s.slots \in [Names -> Entry] /\ s.slots[n] \in Entry /\ s.slots[n].at = Keep(s)[Place(n)]
        /\ Place(n) \in {1, 2} /\ Place(n) \in Holders
    <3>1. Good(s, k) /\ s \in Worlds
      BY <2>1 DEF Keeps, Good
    <3> HIDE DEF s, n
    <3> QED
      BY <1>2, <3>1, SlotOf DEF Holders
  <2>3. PaintStream(v) = Painting(y, 1, s.slots[n].at)
    BY <1>2 DEF PaintStream, Entered
  <2>4. e \in Entry /\ e.at = s.slots[n].at /\ e.made
    BY <2>1, <2>2 DEF Entry
  <2>5. y = Entered(s, n, e)
    OBVIOUS
  <2> HIDE DEF s, e, y, n
  <2>6. Keeps(s, y, k) /\ y.slots[n] = e
    BY <1>2, <2>2, <2>4, <2>5, EntryIsGood
  <2>7. Good(y, k) /\ Keep(y)[Place(n)] = s.slots[n].at
    BY <1>2, <2>4, <2>6, SlotOf DEF Keeps, Good
  <2>8. Keeps(y, PaintStream(v), k)
    BY <2>2, <2>3, <2>7, PaintingStands DEF Keeps
  <2> QED
    BY <2>1, <2>6, <2>8 DEF Keeps
<1> QED
  BY <1>1, <1>2

(* What the <image> writes: textures, and what it says of them. *)
WithBoth(v, g, m) == [v EXCEPT !.gpu = g, !.img = m]

Lent(m, image) ==
  /\ m.loaded = "memory" /\ ~m.moved => m.shared = image
  /\ m.shared # Null => m.loaded \in {"memory"} \cup Drawings
  /\ m.loaded \in Drawings => m.drawing = m.loaded

(* The <image> has written its textures and what it says of them. *)
LEMMA BothIsGood ==
  ASSUME NEW v, NEW j, Good(v, j), NEW k, NEW m \in Loaded, NEW g, NEW o,
         Sound(g, v.mDraw, v.torn, v.hurried, v.replaced, o), Cardinality(g.retired) <= k,
         o[1] = Keep(v)[1], o[2] = Keep(v)[2], o[3] = Keep(v)[3],
         o[4] = m.texture, o[5] = m.frame, o[6] = Null,
         Of(g, v.image, "memory"), Lent(m, v.image),
         NEW x, x = WithBoth(v, g, m)
  PROVE  /\ Good(x, k) /\ (OnlyStreams(v) => OnlyStreams(x))
         /\ x.source = v.source /\ x.box = v.box /\ x.image = v.image /\ x.img = m /\ x.gpu = g
         /\ x.mispainted = v.mispainted
<1>0. v \in Worlds /\ Said(v)
  BY DEF Good
<1>1. /\ x.gpu = g /\ x.mDraw = v.mDraw /\ x.slots = v.slots /\ x.misread = v.misread
      /\ x.torn = v.torn /\ x.hurried = v.hurried /\ x.replaced = v.replaced
      /\ x.img = m /\ x.mispainted = v.mispainted /\ x.image = v.image
      /\ x.source = v.source /\ x.box = v.box
  BY <1>0 DEF Worlds, WithBoth
<1>2. x \in Worlds
  <2>1. g \in Surface
    BY DEF Sound
  <2> QED
    BY <1>0, <2>1 DEF Worlds, WithBoth
<1>3. o = Keep(x)
  <2>1. o \in [Holders -> Places]
    BY DEF Sound
  <2> QED
    BY <1>0, <1>1, <1>2, <2>1, KeepIs, SameKeep
<1>4. Standing(x, Keep(x)) /\ Few(x, k)
  BY <1>1, <1>3 DEF Standing, Few
<1>5. Borrowed(x)
  BY <1>1 DEF Borrowed, Lent
<1>6. Said(x) /\ (OnlyStreams(v) => OnlyStreams(x))
  BY <1>0, <1>1, <1>5 DEF Said, OnlyStreams
<1> QED
  BY <1>1, <1>2, <1>4, <1>6 DEF Good

(* What the <image> holds is not painted, if only streams are. *)
Unnamed(d, t, o) == \A i \in 1 .. 2 : d[i] \in {Null, o[1], o[2]} \cup t

(* A texture that is not painted may be retired. *)
LEMMA RetireUnnamed ==
  ASSUME NEW g, NEW d, NEW t, NEW u, NEW r, NEW o, Sound(g, d, t, u, r, o),
         Unnamed(d, t, o), NEW h \in {4, 5}, NEW k \in Nat, Cardinality(g.retired) <= k,
         NEW c, c = RetireTexture(g, o[h])
  PROVE  /\ Sound(c, d, t, u, r, Put(o, h, Null)) /\ Unnamed(d, t, Put(o, h, Null))
         /\ c.alive = g.alive /\ Cardinality(c.retired) <= k + 1
         /\ (o[h] = Null => c = g)
<1>1. o \in [Holders -> Places] /\ h \in 1 .. 5 /\ h \in Holders /\ 1 \in Holders /\ 2 \in Holders
  BY DEF Sound, Holders
<1>2. \A i \in 1 .. 2 : d[i] = o[h] /\ d[i] # Null => d[i] \in t
  BY <1>1 DEF Unnamed, Sound, Owned
<1>3. /\ Sound(RetireTexture(g, o[h]), d, t, u, r, Put(o, h, Null))
      /\ RetireTexture(g, o[h]).alive = g.alive
      /\ Cardinality(RetireTexture(g, o[h]).retired) <= Cardinality(g.retired) + 1
  BY <1>1, <1>2, RetireIsSound
<1>4. Unnamed(d, t, Put(o, h, Null))
  <2>1. Put(o, h, Null)[1] = o[1] /\ Put(o, h, Null)[2] = o[2]
    BY <1>1 DEF Put
  <2> QED
    BY <2>1 DEF Unnamed
<1>5. Cardinality(c.retired) <= k + 1
  <2>1. Cardinality(g.retired) \in Nat /\ Cardinality(c.retired) \in Nat
    <3>1. g \in Surface /\ c \in Surface
      BY <1>3 DEF Sound
    <3> QED
      BY <3>1, SetsAreFinite
  <2> QED
    BY <1>3, <2>1
<1>6. o[h] = Null => c = g
  BY DEF RetireTexture
<1> QED
  BY <1>3, <1>4, <1>5, <1>6

(* A picture is made for the <image>, at a. *)
LEMMA MadeIsSound ==
  ASSUME NEW g, NEW d, NEW t, NEW u, NEW r, NEW o, Sound(g, d, t, u, r, o),
         Unnamed(d, t, o), NEW h \in {4, 5}, o[h] = Null, o[Hand] = Null,
         Cardinality(g.retired) <= 4, NEW of \in Makers, NEW c, c = FromPixels(g, of),
         NEW a, a = NextAddress(g)
  PROVE  /\ Sound(c, d, t, u, r, Put(o, h, a)) /\ Unnamed(d, t, Put(o, h, a))
         /\ a \in Addresses /\ g.alive[a] = Gone /\ c.alive[a].of = of
         /\ \A b \in Addresses : b # a => c.alive[b] = g.alive[b]
         /\ c.retired = g.retired
<1> DEFINE p == Put(o, Hand, a)
           e == Create(g, of)
<1>1. o \in [Holders -> Places] /\ h \in 1 .. 5 /\ h \in Holders /\ Hand \in Holders /\ h # Hand
      /\ 1 \in Holders /\ 2 \in Holders /\ Hand # 1 /\ Hand # 2
  BY DEF Sound, Holders, Hand
<1>2. /\ Sound(e, d, t, u, r, p) /\ a \in Addresses /\ g.alive[a] = Gone /\ e.alive[a].of = of
      /\ \A b \in Addresses : b # a => e.alive[b] = g.alive[b]
      /\ e.retired = g.retired
  BY CreateIsSound
<1>3. c = WaitIdle(e)
  BY DEF FromPixels
<1> HIDE DEF e
<1>4. Sound(c, d, t, u, r, p) /\ c.alive = e.alive /\ c.retired = e.retired
  <2> HIDE DEF p
  <2> QED
    BY <1>2, <1>3, WaitIsSound
<1>5. p[h] = Null /\ FromHand(p, h) = Put(o, h, a)
  BY <1>1 DEF Put, FromHand
<1>6. Sound(c, d, t, u, r, Put(o, h, a))
  <2>1. Sound(c, d, t, u, r, FromHand(p, h))
    <3> HIDE DEF p
    <3> QED
      BY <1>1, <1>4, <1>5, MoveIsSound
  <2> QED
    BY <1>5, <2>1
<1>7. Unnamed(d, t, Put(o, h, a))
  <2>1. Put(o, h, a)[1] = o[1] /\ Put(o, h, a)[2] = o[2]
    BY <1>1 DEF Put
  <2> QED
    BY <2>1 DEF Unnamed
<1> QED
  BY <1>2, <1>4, <1>6, <1>7

-----------------------------------------------------------------------------
(* The <image>: what it lets go of and what it makes                       *)
Retire2(g, m) == RetireTexture(RetireTexture(g, m.texture), m.frame)
Bare(m) == [m EXCEPT !.texture = Null, !.shared = Null, !.frame = Null]

(* Image::release, as what it writes. *)
LEMMA ReleaseIs ==
  ASSUME NEW v \in Worlds
  PROVE  /\ Release(v) = WithBoth(v, Retire2(v.gpu, v.img), Bare(v.img))
         /\ Release(v).gpu = Retire2(v.gpu, v.img) /\ Release(v).img = Bare(v.img)
         /\ Release(v).source = v.source /\ Release(v).image = v.image /\ Release(v).box = v.box
<1> DEFINE m == [v.img EXCEPT !.texture = Null, !.shared = Null]
           y == WithBoth(v, RetireTexture(v.gpu, v.img.texture), m)
<1>0. v.img \in Loaded
  BY DEF Worlds
<1>1. [v EXCEPT !.gpu = RetireTexture(@, v.img.texture), !.img.texture = Null, !.img.shared = Null] = y
  BY DEF Worlds, WithBoth
<1>2. y.gpu = RetireTexture(v.gpu, v.img.texture) /\ y.img = m
  BY DEF Worlds, WithBoth
<1>3. m.frame = v.img.frame /\ [m EXCEPT !.frame = Null] = Bare(v.img)
  BY <1>0 DEF Loaded, Bare
<1> HIDE DEF m
<1>4. Release(v) = RetireFrames(y)
  BY <1>1 DEF Release
<1>5. RetireFrames(y) = [y EXCEPT !.gpu = Retire2(v.gpu, v.img), !.img = Bare(v.img)]
  BY <1>2, <1>3 DEF RetireFrames, Retire2
<1>6. Release(v) = WithBoth(v, Retire2(v.gpu, v.img), Bare(v.img))
  BY <1>4, <1>5 DEF WithBoth, Worlds
<1>7. LET x == WithBoth(v, Retire2(v.gpu, v.img), Bare(v.img)) IN
      /\ x.gpu = Retire2(v.gpu, v.img) /\ x.img = Bare(v.img)
      /\ x.source = v.source /\ x.image = v.image /\ x.box = v.box
  BY DEF WithBoth, Worlds
<1> QED
  BY <1>6, <1>7

(* An <image> that holds nothing. *)
LEMMA BareIs ==
  ASSUME NEW m \in Loaded
  PROVE  /\ Bare(m) \in Loaded /\ Bare(m).texture = Null /\ Bare(m).frame = Null /\ Bare(m).shared = Null
         /\ Bare(m).loaded = m.loaded /\ Bare(m).moved = m.moved /\ Bare(m).drawing = m.drawing
         /\ Bare(m).size = m.size
BY DEF Loaded, Bare, Places

(* What the <image> held is let go of: the others are as they were. *)
Freely(v, o) ==
  /\ o \in [Holders -> Places] /\ o[1] = Keep(v)[1] /\ o[2] = Keep(v)[2] /\ o[3] = Keep(v)[3]
  /\ o[6] = Null
Surely(v, g, o) ==
  Sound(g, v.mDraw, v.torn, v.hurried, v.replaced, o) /\ Unnamed(v.mDraw, v.torn, o)

(* Another texture for the <image>, and the other holders. *)
LEMMA PutIs ==
  ASSUME NEW v, NEW o, Freely(v, o), NEW h \in {4, 5}, NEW a \in Places
  PROVE  /\ Freely(v, Put(o, h, a)) /\ Put(o, h, a)[h] = a
         /\ \A j \in {4, 5} : j # h => Put(o, h, a)[j] = o[j]
<1>1. o \in [Holders -> Places] /\ 1 \in Holders /\ 2 \in Holders /\ 3 \in Holders /\ 4 \in Holders
      /\ 5 \in Holders /\ 6 \in Holders
  BY DEF Freely, Holders
<1> QED
  BY <1>1 DEF Put, Freely

(* Where the <image> begins. *)
LEMMA GoodIsSure ==
  ASSUME NEW v, NEW k, Good(v, k), OnlyStreams(v)
  PROVE  /\ Surely(v, v.gpu, Keep(v)) /\ Freely(v, Keep(v)) /\ Of(v.gpu, v.image, "memory")
         /\ Keep(v)[4] = v.img.texture /\ Keep(v)[5] = v.img.frame /\ Cardinality(v.gpu.retired) <= k
         /\ v \in Worlds /\ v.img \in Loaded
<1>1. v \in Worlds
  BY DEF Good
<1> QED
  BY <1>1, KeepIs DEF Good, Standing, Surely, Unnamed, OnlyStreams, Freely, Said, Few, Worlds

(* Surely, a texture the <image> holds at h is retired. *)
LEMMA SurelyRetired ==
  ASSUME NEW v, NEW g, NEW o, Surely(v, g, o), Freely(v, o), NEW h \in {4, 5},
         NEW k \in Nat, Cardinality(g.retired) <= k, NEW c, c = RetireTexture(g, o[h])
  PROVE  /\ Surely(v, c, Put(o, h, Null)) /\ Freely(v, Put(o, h, Null))
         /\ Put(o, h, Null)[h] = Null /\ \A j \in {4, 5} : j # h => Put(o, h, Null)[j] = o[j]
         /\ c.alive = g.alive /\ Cardinality(c.retired) <= k + 1
         /\ (o[h] = Null => c = g)
<1>1. Null \in Places
  BY DEF Places
<1>2. Sound(g, v.mDraw, v.torn, v.hurried, v.replaced, o) /\ Unnamed(v.mDraw, v.torn, o)
  BY DEF Surely
<1>3. /\ Sound(c, v.mDraw, v.torn, v.hurried, v.replaced, Put(o, h, Null))
      /\ Unnamed(v.mDraw, v.torn, Put(o, h, Null))
      /\ c.alive = g.alive /\ Cardinality(c.retired) <= k + 1
      /\ (o[h] = Null => c = g)
  BY <1>2, RetireUnnamed
<1> QED
  BY <1>1, <1>3, PutIs DEF Surely

Stays(g, c, o) == \A j \in {4, 5} : o[j] # Null => c.alive[o[j]] = g.alive[o[j]]

(* Surely, a picture is made for h. *)
LEMMA SurelyMade ==
  ASSUME NEW v, NEW g, NEW o, Surely(v, g, o), Freely(v, o), NEW h \in {4, 5},
         o[h] = Null, Cardinality(g.retired) <= 4, NEW of \in Makers, NEW c, c = FromPixels(g, of),
         NEW a, a = NextAddress(g), Of(g, v.image, "memory"), Keep(v)[3] = v.image
  PROVE  /\ Surely(v, c, Put(o, h, a)) /\ Freely(v, Put(o, h, a)) /\ a \in Places /\ a # Null
         /\ Put(o, h, a)[h] = a /\ \A j \in {4, 5} : j # h => Put(o, h, a)[j] = o[j]
         /\ c.alive[a].of = of /\ c.retired = g.retired /\ Of(c, v.image, "memory")
         /\ Stays(g, c, o)
<1>1. Sound(g, v.mDraw, v.torn, v.hurried, v.replaced, o) /\ Unnamed(v.mDraw, v.torn, o)
      /\ o[Hand] = Null
  BY DEF Surely, Freely, Hand
<1>2. /\ Sound(c, v.mDraw, v.torn, v.hurried, v.replaced, Put(o, h, a))
      /\ Unnamed(v.mDraw, v.torn, Put(o, h, a))
      /\ a \in Addresses /\ g.alive[a] = Gone /\ c.alive[a].of = of
      /\ \A b \in Addresses : b # a => c.alive[b] = g.alive[b]
      /\ c.retired = g.retired
  BY <1>1, MadeIsSound
<1>3. a \in Places /\ a # Null
  BY <1>2, NullIsNowhere DEF Places
<1>4. \A j \in {3, 4, 5} : o[j] # Null => o[j] # a /\ o[j] \in Addresses /\ c.alive[o[j]] = g.alive[o[j]]
  BY <1>1, <1>2 DEF Sound, Owned, Places, Holders
<1>5. o[3] = v.image
  BY DEF Freely
<1>6. Of(c, v.image, "memory")
  BY <1>4, <1>5 DEF Of
<1>7. Stays(g, c, o)
  BY <1>4 DEF Stays
<1> QED
  BY <1>2, <1>3, <1>6, <1>7, PutIs DEF Surely

(* Image::release. *)
LEMMA SurelyReleased ==
  ASSUME NEW v, NEW k \in Nat, Good(v, k), OnlyStreams(v),
         NEW g, g = Retire2(v.gpu, v.img)
  PROVE  \E o : /\ Surely(v, g, o) /\ Freely(v, o) /\ o[4] = Null /\ o[5] = Null
                /\ g.alive = v.gpu.alive /\ Cardinality(g.retired) <= k + 2
                /\ Of(g, v.image, "memory")
<1> DEFINE o == Keep(v)
           c == RetireTexture(v.gpu, o[4])
           p == Put(o, 4, Null)
           q == Put(p, 5, Null)
<1>1. /\ Surely(v, v.gpu, o) /\ Freely(v, o) /\ Of(v.gpu, v.image, "memory")
      /\ o[4] = v.img.texture /\ o[5] = v.img.frame /\ Cardinality(v.gpu.retired) <= k
  BY GoodIsSure
<1>2. /\ Surely(v, c, p) /\ Freely(v, p) /\ p[4] = Null /\ p[5] = o[5]
      /\ c.alive = v.gpu.alive /\ Cardinality(c.retired) <= k + 1
  <2> HIDE DEF o
  <2> QED
    BY <1>1, SurelyRetired
<1>3. g = RetireTexture(c, p[5])
  BY <1>1, <1>2 DEF Retire2
<1> HIDE DEF c, p, o
<1>4. /\ Surely(v, g, q) /\ Freely(v, q) /\ q[5] = Null /\ q[4] = p[4]
      /\ g.alive = c.alive /\ Cardinality(g.retired) <= k + 1 + 1
  <2>1. k + 1 \in Nat
    OBVIOUS
  <2> QED
    BY <1>2, <1>3, <2>1, SurelyRetired
<1>5. Of(g, v.image, "memory") /\ Cardinality(g.retired) <= k + 2
  <2>1. Cardinality(g.retired) \in Nat
    BY <1>4, SetsAreFinite DEF Surely, Sound
  <2> QED
    BY <1>1, <1>2, <1>4, <2>1 DEF Of
<1> QED
  BY <1>2, <1>4, <1>5

-----------------------------------------------------------------------------
(* The <image>: a picture that is loaded or borrowed                       *)
(* The <image> says that it holds the picture of s. *)
Telling(v, x, k) ==
  /\ Good(x, k) /\ OnlyStreams(x) /\ x.source = v.source /\ x.box = v.box
  /\ x.img.loaded = v.source /\ x.img.shared \in {Null, x.image}

(* With fewer to go there is more room. *)
LEMMA GoodGrows ==
  ASSUME NEW v, NEW k \in Nat, Good(v, k)
  PROVE  Good(v, k + 2)
<1>1. Cardinality(v.gpu.retired) \in Nat
  BY SetsAreFinite DEF Good, Standing, Sound
<1> QED
  BY <1>1 DEF Good, Few

(* Image::ensureLoaded. *)
LEMMA EnsureLoadedIsGood ==
  ASSUME NEW v, NEW k \in 0 .. 2, Good(v, k), OnlyStreams(v), v.source \notin Drawings
  PROVE  Telling(v, EnsureLoaded(v), k + 2) /\ (Faithful(v) => Faithful(EnsureLoaded(v)))
<1> DEFINE g == Retire2(v.gpu, v.img)
           b == Bare(v.img)
           c == FromPixels(g, v.source)
           a == NextAddress(g)
           m == [b EXCEPT !.loaded = v.source, !.moved = FALSE, !.shared = v.image]
           n == [b EXCEPT !.loaded = v.source, !.texture = a]
           r == [Release(v) EXCEPT !.img.loaded = v.source]
<1>0. /\ v \in Worlds /\ v.img \in Loaded /\ Said(v) /\ v.source \in Sources /\ v.image \in Places
      /\ Keep(v)[3] = v.image
  <2>1. v \in Worlds /\ Said(v)
    BY DEF Good
  <2>2. v.source \in Sources
    BY <2>1 DEF Worlds
  <2> QED
    BY <2>1, <2>2, KeepIs DEF Worlds
<1>1. b \in Loaded /\ b.texture = Null /\ b.frame = Null /\ b.shared = Null
      /\ b.loaded = v.img.loaded /\ b.moved = v.img.moved
  BY <1>0, BareIs
<1>2. PICK o : /\ Surely(v, g, o) /\ Freely(v, o) /\ o[4] = Null /\ o[5] = Null
               /\ g.alive = v.gpu.alive /\ Cardinality(g.retired) <= k + 2
               /\ Of(g, v.image, "memory")
  BY SurelyReleased
<1>3. /\ Release(v) = WithBoth(v, g, b) /\ r = WithBoth(v, g, [b EXCEPT !.loaded = v.source])
      /\ r.gpu = g
  <2>1. Release(v) = WithBoth(v, g, b)
    BY <1>0, ReleaseIs
  <2> HIDE DEF g, b
  <2>2. r = WithBoth(v, g, [b EXCEPT !.loaded = v.source]) /\ r.gpu = g
    BY <1>0, <2>1 DEF WithBoth, Worlds
  <2> QED
    BY <2>1, <2>2
<1>4. CASE v.source = "memory" /\ v.img.loaded = "memory" /\ ~v.img.moved
  <2>1. EnsureLoaded(v) = v
    BY <1>4 DEF EnsureLoaded
  <2>2. v.img.shared = v.image
    BY <1>0, <1>4 DEF Said, Borrowed
  <2> QED
    BY <1>4, <2>1, <2>2, GoodGrows DEF Telling
<1>5. CASE v.source = "memory" /\ ~(v.img.loaded = "memory" /\ ~v.img.moved)
  <2>1. EnsureLoaded(v) = WithBoth(v, g, m)
    <3>1. EnsureLoaded(v) = [r EXCEPT !.img.moved = FALSE, !.img.shared = v.image]
      BY <1>5 DEF EnsureLoaded
    <3> HIDE DEF r, b, g
    <3> QED
      BY <1>0, <1>3, <3>1 DEF WithBoth, Worlds, m
  <2>2. /\ m \in Loaded /\ m.texture = Null /\ m.frame = Null /\ m.loaded = v.source /\ m.shared = v.image
        /\ m.moved = FALSE
    BY <1>0, <1>1 DEF Loaded
  <2>3. Lent(m, v.image)
    <3> HIDE DEF m
    <3>1. v.source = "memory" /\ "memory" \notin Drawings
      BY <1>5 DEF Drawings
    <3> QED
      BY <2>2, <3>1 DEF Lent
  <2> DEFINE x == WithBoth(v, g, m)
  <2>4. x = WithBoth(v, g, m)
    OBVIOUS
  <2> HIDE DEF m, g, x
  <2>5. /\ Good(x, k + 2) /\ (OnlyStreams(v) => OnlyStreams(x))
        /\ x.source = v.source /\ x.box = v.box /\ x.image = v.image /\ x.img = m /\ x.gpu = g
        /\ x.mispainted = v.mispainted
    <3>1. Sound(g, v.mDraw, v.torn, v.hurried, v.replaced, o) /\ o[4] = m.texture /\ o[5] = m.frame
          /\ o[1] = Keep(v)[1] /\ o[2] = Keep(v)[2] /\ o[3] = Keep(v)[3] /\ o[6] = Null
      BY <1>2, <2>2 DEF Surely, Freely
    <3> QED
      BY <1>2, <2>2, <2>3, <2>4, <3>1, BothIsGood
  <2>6. Faithful(v) => Faithful(x)
    BY <2>2, <2>5 DEF Faithful, Of
  <2> QED
    BY <2>1, <2>2, <2>5, <2>6 DEF Telling, x
<1>6. CASE v.source # "memory" /\ v.img.loaded = v.source /\ v.img.texture # Null
  <2>1. EnsureLoaded(v) = v
    BY <1>6 DEF EnsureLoaded
  <2>2. v.img.shared = Null
    BY <1>0, <1>6 DEF Said, Borrowed
  <2> QED
    BY <1>6, <2>1, <2>2, GoodGrows DEF Telling
<1>7. CASE v.source # "memory" /\ ~(v.img.loaded = v.source /\ v.img.texture # Null)
  <2>1. EnsureLoaded(v) = WithBoth(v, c, n)
    <3>1. EnsureLoaded(v) = [r EXCEPT !.gpu = FromPixels(@, v.source), !.img.texture = NextAddress(r.gpu)]
      BY <1>7 DEF EnsureLoaded
    <3> HIDE DEF r, b, g
    <3> QED
      BY <1>0, <1>3, <3>1 DEF WithBoth, Worlds, n, c, a
  <2>2. /\ Surely(v, c, Put(o, 4, a)) /\ Freely(v, Put(o, 4, a)) /\ a \in Places
        /\ Put(o, 4, a)[4] = a /\ Put(o, 4, a)[5] = Null
        /\ c.alive[a].of = v.source /\ c.retired = g.retired /\ Of(c, v.image, "memory")
    <3>1. v.source \in Makers
      BY <1>0, Zenon DEF Makers
    <3>2. Cardinality(g.retired) <= 4
      <4>1. Cardinality(g.retired) \in Nat
        BY <1>2, SetsAreFinite DEF Surely, Sound
      <4> QED
        BY <1>2, <4>1
    <3>3. c = FromPixels(g, v.source) /\ a = NextAddress(g)
      OBVIOUS
    <3> HIDE DEF g, c, a
    <3>4. /\ Surely(v, c, Put(o, 4, a)) /\ Freely(v, Put(o, 4, a)) /\ a \in Places /\ a # Null
          /\ Put(o, 4, a)[4] = a /\ \A j \in {4, 5} : j # 4 => Put(o, 4, a)[j] = o[j]
          /\ c.alive[a].of = v.source /\ c.retired = g.retired /\ Of(c, v.image, "memory")
      <4>1. Surely(v, g, o) /\ Freely(v, o) /\ 4 \in {4, 5} /\ o[4] = Null /\ Of(g, v.image, "memory")
            /\ Keep(v)[3] = v.image
        BY <1>0, <1>2
      <4> QED
        BY ONLY RoomAssumption, <3>1, <3>2, <3>3, <4>1, SurelyMade
    <3> QED
      BY <1>2, <3>4
  <2> HIDE DEF g, c, a
  <2>3. /\ n \in Loaded /\ n.texture = a /\ n.frame = Null /\ n.loaded = v.source /\ n.shared = Null
    BY <1>0, <1>1, <2>2 DEF Loaded
  <2>4. Lent(n, v.image)
    <3> HIDE DEF n
    <3> QED
      BY <1>7, <2>3 DEF Lent
  <2> DEFINE x == WithBoth(v, c, n)
  <2>5. x = WithBoth(v, c, n)
    OBVIOUS
  <2> HIDE DEF n, x
  <2>6. /\ Good(x, k + 2) /\ (OnlyStreams(v) => OnlyStreams(x))
        /\ x.source = v.source /\ x.box = v.box /\ x.image = v.image /\ x.img = n /\ x.gpu = c
        /\ x.mispainted = v.mispainted
    <3> DEFINE q == Put(o, 4, a)
    <3>1. Sound(c, v.mDraw, v.torn, v.hurried, v.replaced, q) /\ q[4] = n.texture /\ q[5] = n.frame
          /\ q[1] = Keep(v)[1] /\ q[2] = Keep(v)[2] /\ q[3] = Keep(v)[3] /\ q[6] = Null
          /\ Cardinality(c.retired) <= k + 2
      BY <1>2, <2>2, <2>3 DEF Surely, Freely
    <3> HIDE DEF q
    <3>2. n \in Loaded /\ Of(c, v.image, "memory") /\ Lent(n, v.image)
      BY <2>2, <2>3, <2>4
    <3> QED
      BY ONLY Good(v, k), <2>5, <3>1, <3>2, BothIsGood
  <2>7. Faithful(v) => Faithful(x)
    BY <2>2, <2>3, <2>6 DEF Faithful, Of
  <2> QED
    BY <2>1, <2>3, <2>6, <2>7 DEF Telling, x
<1> QED
  BY <1>4, <1>5, <1>6, <1>7

-----------------------------------------------------------------------------
(* The <image>: a drawing, measured and drawn                              *)
Drew(v, x, k) ==
  Good(x, k) /\ OnlyStreams(x) /\ x.source = v.source /\ x.img.loaded = v.source

(* Image::measureContent. *)
LEMMA MeasureIsGood ==
  ASSUME NEW v, NEW k \in 0 .. 2, Good(v, k), OnlyStreams(v)
  PROVE  Good(Measure(v), k + 2) /\ OnlyStreams(Measure(v))
<1>0. v \in Worlds /\ v.img \in Loaded /\ v.source \in Sources /\ Said(v)
  BY DEF Good, Worlds
<1>1. CASE v.source \notin Drawings
  <2>1. Telling(v, EnsureLoaded(v), k + 2)
    BY <1>1, EnsureLoadedIsGood
  <2> QED
    BY <1>1, <2>1 DEF Measure, Telling
<1>2. CASE v.source \in Drawings /\ IsRead(v)
  <2>1. Measure(v) = v
    BY <1>2, Zenon DEF Measure, IsRead
  <2> QED
    BY <2>1, GoodGrows
<1>3. CASE v.source \in Drawings /\ ~IsRead(v)
  <2> DEFINE m == [v.img EXCEPT !.loaded = v.source, !.drawing = v.source]
             x == WithBoth(v, v.gpu, m)
             o == Keep(v)
  <2>1. Measure(v) = x
    <3>1. Measure(v) = [v EXCEPT !.img.loaded = v.source, !.img.drawing = v.source]
      BY <1>3, Zenon DEF Measure, IsRead
    <3> QED
      BY <1>0, <3>1 DEF WithBoth, Worlds
  <2>2. /\ m \in Loaded /\ m.texture = v.img.texture /\ m.frame = v.img.frame
        /\ m.loaded = v.source /\ m.drawing = v.source
    BY <1>0, <1>3 DEF Loaded
  <2>3. x = WithBoth(v, v.gpu, m)
    OBVIOUS
  <2> HIDE DEF m, x
  <2>4. Lent(m, v.image)
    <3>1. "memory" \notin Drawings
      BY DEF Drawings
    <3> QED
      BY <1>3, <2>2, <3>1 DEF Lent
  <2>5. /\ Sound(v.gpu, v.mDraw, v.torn, v.hurried, v.replaced, o) /\ Cardinality(v.gpu.retired) <= k
        /\ o[1] = Keep(v)[1] /\ o[2] = Keep(v)[2] /\ o[3] = Keep(v)[3]
        /\ o[4] = m.texture /\ o[5] = m.frame /\ o[6] = Null /\ Of(v.gpu, v.image, "memory")
    BY <2>2, GoodIsSure DEF Surely, Freely
  <2> HIDE DEF o
  <2>6. Good(x, k) /\ (OnlyStreams(v) => OnlyStreams(x))
    BY ONLY Good(v, k), <2>2, <2>3, <2>4, <2>5, BothIsGood
  <2> QED
    BY <2>1, <2>6, GoodGrows
<1> QED
  BY <1>1, <1>2, <1>3

Framed(m, a, box) == [m EXCEPT !.frame = a, !.size = box, !.texture = Null]
Drafted(m, s, a, box) == [Bare(m) EXCEPT !.loaded = s, !.drawing = s, !.frame = a, !.size = box]

(* The frames there were are retired and another is made, at a. *)
LEMMA DrawnAgain ==
  ASSUME NEW v, NEW k \in 0 .. 2, Good(v, k), OnlyStreams(v), v.source \in Drawings,
         v.img.loaded = v.source, NEW g, g = RetireTexture(v.gpu, v.img.frame),
         NEW a, a = NextAddress(g), NEW c, c = FromPixels(g, v.source),
         NEW e, e = RetireTexture(c, v.img.texture),
         NEW m, m = Framed(v.img, a, v.box),
         NEW x, x = WithBoth(v, e, m)
  PROVE  Drew(v, x, k + 2) /\ (Faithful(v) => Faithful(x))
<1> DEFINE o == Keep(v)
           p == Put(o, 5, Null)
           q == Put(p, 5, a)
           r == Put(q, 4, Null)
<1>0. /\ v \in Worlds /\ v.img \in Loaded /\ v.source \in Makers /\ Said(v) /\ v.box \in Nat
      /\ Keep(v)[3] = v.image
  <2>1. v.source \in Makers
    BY Zenon DEF Makers, Sources
  <2> QED
    BY <2>1, KeepIs DEF Good, Worlds
<1>1. /\ Surely(v, v.gpu, o) /\ Freely(v, o) /\ Of(v.gpu, v.image, "memory")
      /\ o[4] = v.img.texture /\ o[5] = v.img.frame /\ Cardinality(v.gpu.retired) <= k
  BY GoodIsSure
<1> HIDE DEF o
<1>2. /\ Surely(v, g, p) /\ Freely(v, p) /\ p[5] = Null /\ p[4] = o[4]
      /\ g.alive = v.gpu.alive /\ Cardinality(g.retired) <= k + 1
  <2>1. k \in Nat /\ g = RetireTexture(v.gpu, o[5]) /\ 5 \in {4, 5} /\ 4 \in {4, 5}
    BY <1>1
  <2>2. /\ Surely(v, g, p) /\ Freely(v, p) /\ p[5] = Null /\ \A j \in {4, 5} : j # 5 => p[j] = o[j]
        /\ g.alive = v.gpu.alive /\ Cardinality(g.retired) <= k + 1
    BY ONLY RoomAssumption, <1>1, <2>1, SurelyRetired
  <2> QED
    BY <2>2
<1> HIDE DEF p
<1>3. /\ Surely(v, c, q) /\ Freely(v, q) /\ q[5] = a /\ a # Null /\ q[4] = p[4] /\ a \in Places
      /\ c.alive[a].of = v.source /\ c.retired = g.retired /\ Of(c, v.image, "memory")
  <2>1. Cardinality(g.retired) <= 4
    <3>1. Cardinality(g.retired) \in Nat
      BY <1>2, SetsAreFinite DEF Surely, Sound
    <3> QED
      BY <1>2, <3>1
  <2>2. Surely(v, g, p) /\ Freely(v, p) /\ 5 \in {4, 5} /\ p[5] = Null /\ Of(g, v.image, "memory")
    BY <1>1, <1>2 DEF Of
  <2>3. /\ Surely(v, c, Put(p, 5, a)) /\ Freely(v, Put(p, 5, a)) /\ a \in Places /\ a # Null
        /\ Put(p, 5, a)[5] = a /\ \A j \in {4, 5} : j # 5 => Put(p, 5, a)[j] = p[j]
        /\ c.alive[a].of = v.source /\ c.retired = g.retired /\ Of(c, v.image, "memory")
    BY ONLY RoomAssumption, <1>0, <2>1, <2>2, c = FromPixels(g, v.source), a = NextAddress(g), SurelyMade
  <2> QED
    BY <2>3
<1> HIDE DEF q
<1>4. /\ Surely(v, e, r) /\ Freely(v, r) /\ r[4] = Null /\ r[5] = a
      /\ e.alive = c.alive /\ Cardinality(e.retired) <= k + 2
  <2>1. k + 1 \in Nat /\ k + 1 + 1 = k + 2 /\ Cardinality(c.retired) <= k + 1 /\ e = RetireTexture(c, q[4])
    BY <1>1, <1>2, <1>3
  <2>2. /\ Surely(v, e, r) /\ Freely(v, r) /\ r[4] = Null /\ \A j \in {4, 5} : j # 4 => r[j] = q[j]
        /\ e.alive = c.alive /\ Cardinality(e.retired) <= k + 1 + 1
    BY <1>3, <2>1, SurelyRetired
  <2> QED
    BY <1>3, <2>1, <2>2
<1> HIDE DEF r
<1>5. /\ m \in Loaded /\ m.texture = Null /\ m.frame = a /\ m.loaded = v.source /\ m.shared = v.img.shared
      /\ m.drawing = v.img.drawing /\ m.moved = v.img.moved
  <2>1. v.img \in Loaded /\ a \in Places /\ Null \in Places /\ v.box \in Nat
    BY <1>0, <1>3 DEF Places
  <2> QED
    BY ONLY <2>1, v.img.loaded = v.source, m = Framed(v.img, a, v.box) DEF Loaded, Framed
<1>6. Lent(m, v.image)
  BY <1>0, <1>5 DEF Lent, Said, Borrowed
<1>7. /\ Good(x, k + 2) /\ (OnlyStreams(v) => OnlyStreams(x)) /\ x.source = v.source /\ x.img = m
      /\ x.gpu = e /\ x.mispainted = v.mispainted
  <2>1. /\ Sound(e, v.mDraw, v.torn, v.hurried, v.replaced, r) /\ Cardinality(e.retired) <= k + 2
        /\ r[1] = Keep(v)[1] /\ r[2] = Keep(v)[2] /\ r[3] = Keep(v)[3]
        /\ r[4] = m.texture /\ r[5] = m.frame /\ r[6] = Null /\ Of(e, v.image, "memory") /\ m \in Loaded
    BY <1>3, <1>4, <1>5 DEF Surely, Freely, Of
  <2> QED
    BY ONLY Good(v, k), <1>6, <2>1, x = WithBoth(v, e, m), BothIsGood
<1>8. Faithful(v) => Faithful(x)
  <2>1. e.alive[a].of = v.source
    BY <1>3, <1>4
  <2>2. Of(x.gpu, x.img.texture, x.img.loaded) /\ Of(x.gpu, x.img.frame, x.img.loaded)
    BY ONLY <1>5, <1>7, <2>1 DEF Of
  <2>3. Faithful(v) => ~x.mispainted
    BY <1>7 DEF Faithful
  <2> QED
    BY <2>2, <2>3 DEF Faithful
<1> QED
  BY <1>5, <1>7, <1>8 DEF Drew

(* All there was is retired, and a frame is made, at a. *)
LEMMA DrawnFirst ==
  ASSUME NEW v, NEW k \in 0 .. 2, Good(v, k), OnlyStreams(v), v.source \in Drawings,
         NEW g, g = Retire2(v.gpu, v.img), NEW a, a = NextAddress(g), NEW c, c = FromPixels(g, v.source),
         NEW m, m = Drafted(v.img, v.source, a, v.box),
         NEW x, x = WithBoth(v, c, m)
  PROVE  Drew(v, x, k + 2) /\ (Faithful(v) => Faithful(x))
<1>0. /\ v \in Worlds /\ v.img \in Loaded /\ v.source \in Makers /\ Said(v) /\ v.box \in Nat
      /\ Keep(v)[3] = v.image /\ v.source \in Sources
  <2>1. v.source \in Makers
    BY Zenon DEF Makers, Sources
  <2> QED
    BY <2>1, KeepIs DEF Good, Worlds
<1>1. PICK o : /\ Surely(v, g, o) /\ Freely(v, o) /\ o[4] = Null /\ o[5] = Null
               /\ g.alive = v.gpu.alive /\ Cardinality(g.retired) <= k + 2
               /\ Of(g, v.image, "memory")
  BY SurelyReleased
<1> DEFINE q == Put(o, 5, a)
<1>2. /\ Surely(v, c, q) /\ Freely(v, q) /\ q[5] = a /\ a # Null /\ q[4] = Null /\ a \in Places
      /\ c.alive[a].of = v.source /\ c.retired = g.retired /\ Of(c, v.image, "memory")
  <2>1. Cardinality(g.retired) <= 4
    <3>1. Cardinality(g.retired) \in Nat
      BY <1>1, SetsAreFinite DEF Surely, Sound
    <3> QED
      BY <1>1, <3>1
  <2>2. Surely(v, g, o) /\ Freely(v, o) /\ 5 \in {4, 5} /\ o[5] = Null /\ Of(g, v.image, "memory")
    BY <1>1
  <2>3. /\ Surely(v, c, Put(o, 5, a)) /\ Freely(v, Put(o, 5, a)) /\ a \in Places /\ a # Null
        /\ Put(o, 5, a)[5] = a /\ \A j \in {4, 5} : j # 5 => Put(o, 5, a)[j] = o[j]
        /\ c.alive[a].of = v.source /\ c.retired = g.retired /\ Of(c, v.image, "memory")
    BY ONLY RoomAssumption, <1>0, <2>1, <2>2, c = FromPixels(g, v.source), a = NextAddress(g), SurelyMade
  <2> QED
    BY <1>1, <2>3
<1> HIDE DEF q
<1>3. /\ m \in Loaded /\ m.texture = Null /\ m.frame = a /\ m.loaded = v.source /\ m.shared = Null
      /\ m.drawing = v.source
  <2>1. Bare(v.img) \in Loaded /\ Bare(v.img).texture = Null /\ Bare(v.img).shared = Null
    BY <1>0, BareIs
  <2> QED
    BY <1>0, <1>2, <2>1 DEF Loaded, Drafted
<1>4. Lent(m, v.image)
  <2>1. "memory" \notin Drawings
    BY DEF Drawings
  <2> QED
    BY <1>3, <2>1 DEF Lent
<1>5. /\ Good(x, k + 2) /\ (OnlyStreams(v) => OnlyStreams(x)) /\ x.source = v.source /\ x.img = m
      /\ x.gpu = c /\ x.mispainted = v.mispainted
  <2>1. /\ Sound(c, v.mDraw, v.torn, v.hurried, v.replaced, q) /\ Cardinality(c.retired) <= k + 2
        /\ q[1] = Keep(v)[1] /\ q[2] = Keep(v)[2] /\ q[3] = Keep(v)[3]
        /\ q[4] = m.texture /\ q[5] = m.frame /\ q[6] = Null /\ Of(c, v.image, "memory") /\ m \in Loaded
    BY <1>1, <1>2, <1>3 DEF Surely, Freely
  <2> QED
    BY ONLY Good(v, k), <1>4, <2>1, x = WithBoth(v, c, m), BothIsGood
<1>6. Faithful(v) => Faithful(x)
  <2>1. c.alive[a].of = v.source
    BY <1>2
  <2>2. Of(x.gpu, x.img.texture, x.img.loaded) /\ Of(x.gpu, x.img.frame, x.img.loaded)
    BY ONLY <1>3, <1>5, <2>1 DEF Of
  <2>3. Faithful(v) => ~x.mispainted
    BY <1>5 DEF Faithful
  <2> QED
    BY <2>2, <2>3 DEF Faithful
<1> QED
  BY <1>3, <1>5, <1>6 DEF Drew

(* Image::ensureDrawn where it draws, as what it writes. *)
LEMMA RedrawIs ==
  ASSUME NEW v \in Worlds, NEW g, NEW n \in Loaded, NEW r, r = WithBoth(v, g, n),
         NEW h, h = RetireTexture(g, n.frame)
  PROVE  Redraw(r) =
           WithBoth(v, RetireTexture(FromPixels(h, n.drawing), n.texture),
                    Framed(n, NextAddress(h), v.box))
<1> DEFINE n1 == [n EXCEPT !.frame = Null]
           old == WithBoth(v, h, n1)
           c == FromPixels(h, n.drawing)
           n2 == [n1 EXCEPT !.frame = NextAddress(h), !.size = v.box]
           new == WithBoth(v, c, n2)
           e == RetireTexture(c, n.texture)
           n3 == [n2 EXCEPT !.texture = Null]
<1>1. r.gpu = g /\ r.img = n
  BY DEF WithBoth, Worlds
<1>2. RetireFrames(r) = old
  BY <1>1 DEF RetireFrames, WithBoth, Worlds
<1>3. old.gpu = h /\ old.box = v.box /\ old.img = n1 /\ n1.drawing = n.drawing /\ n1.texture = n.texture
  BY DEF WithBoth, Worlds, Loaded
<1>4. new.gpu = c /\ new.img = n2 /\ n2.texture = n.texture
  BY DEF WithBoth, Worlds, Loaded
<1>5. [old EXCEPT !.gpu = FromPixels(@, old.img.drawing),
                  !.img.frame = NextAddress(old.gpu), !.img.size = old.box] = new
  <2> HIDE DEF n1, c
  <2> DEFINE y == [old EXCEPT !.gpu = c]
             z == [y EXCEPT !.img.frame = NextAddress(h)]
  <2>1. y = WithBoth(v, c, n1) /\ y.img = n1
    BY DEF WithBoth, Worlds
  <2>2. z = WithBoth(v, c, [n1 EXCEPT !.frame = NextAddress(h)]) /\ z.img = [n1 EXCEPT !.frame = NextAddress(h)]
    <3> HIDE DEF y
    <3> QED
      BY <2>1 DEF WithBoth, Worlds
  <2>3. [z EXCEPT !.img.size = v.box] = new
    <3> HIDE DEF z
    <3> QED
      BY <2>2 DEF WithBoth, Worlds
  <2>4. FromPixels(old.gpu, old.img.drawing) = c /\ old.gpu = h /\ old.box = v.box
    BY <1>3 DEF c
  <2> HIDE DEF old, new
  <2> QED
    BY <2>3, <2>4
<1>6. [new EXCEPT !.gpu = RetireTexture(@, new.img.texture), !.img.texture = Null] = WithBoth(v, e, n3)
  <2> HIDE DEF n2, c
  <2>1. [new EXCEPT !.gpu = e, !.img = n3] = WithBoth(v, e, n3)
    BY DEF WithBoth, Worlds
  <2> QED
    BY <1>4, <2>1 DEF new
<1>7. n3 = Framed(n, NextAddress(h), v.box)
  BY DEF Loaded, Framed
<1>8. Redraw(r) = WithBoth(v, e, n3)
  <2> HIDE DEF n1, n2, n3, old, new, c, e
  <2> QED
    BY <1>2, <1>5, <1>6 DEF Redraw
<1> QED
  BY <1>7, <1>8

(* Image::ensureDrawn. *)
LEMMA EnsureDrawnIsGood ==
  ASSUME NEW v, NEW k \in 0 .. 2, Good(v, k), OnlyStreams(v), v.source \in Drawings
  PROVE  Drew(v, EnsureDrawn(v), k + 2) /\ (Faithful(v) => Faithful(EnsureDrawn(v)))
<1>0. v \in Worlds /\ v.img \in Loaded /\ Said(v) /\ v.source \in Sources /\ v.box \in Nat
  BY DEF Good, Worlds
<1>1. CASE IsRead(v) /\ v.img.size = v.box /\ (v.img.texture # Null \/ v.img.frame # Null)
  <2>1. EnsureDrawn(v) = v
    BY <1>1 DEF EnsureDrawn
  <2>2. v.img.loaded = v.source
    BY <1>1, Zenon DEF IsRead
  <2> QED
    BY <2>1, <2>2, GoodGrows DEF Drew
<1>2. CASE IsRead(v) /\ ~(v.img.size = v.box /\ (v.img.texture # Null \/ v.img.frame # Null))
  <2> DEFINE g == RetireTexture(v.gpu, v.img.frame)
             c == FromPixels(g, v.source)
             e == RetireTexture(c, v.img.texture)
             m == Framed(v.img, NextAddress(g), v.box)
             x == WithBoth(v, e, m)
  <2>1. EnsureDrawn(v) = Redraw(v)
    BY <1>2 DEF EnsureDrawn
  <2>2. v.img.loaded = v.source
    BY <1>2, Zenon DEF IsRead
  <2>3. v.img.drawing = v.source
    BY <1>0, <2>2 DEF Said, Borrowed
  <2>4. v = WithBoth(v, v.gpu, v.img)
    BY <1>0 DEF WithBoth, Worlds
  <2>5. Redraw(v) = x
    <3>1. g = RetireTexture(v.gpu, v.img.frame)
      OBVIOUS
    <3> HIDE DEF g
    <3> QED
      BY <1>0, <2>3, <2>4, <3>1, RedrawIs
  <2>6. /\ g = RetireTexture(v.gpu, v.img.frame) /\ c = FromPixels(g, v.source)
        /\ e = RetireTexture(c, v.img.texture)
        /\ m = Framed(v.img, NextAddress(g), v.box)
        /\ x = WithBoth(v, e, m)
    OBVIOUS
  <2> HIDE DEF g, c, e, m, x
  <2>7. Drew(v, x, k + 2) /\ (Faithful(v) => Faithful(x))
    BY <2>2, <2>6, DrawnAgain
  <2> QED
    BY <2>1, <2>5, <2>7
<1>3. CASE ~IsRead(v)
  <2> DEFINE g == Retire2(v.gpu, v.img)
             b == Bare(v.img)
             n == [b EXCEPT !.loaded = v.source, !.drawing = v.source, !.size = 0]
             r == WithBoth(v, g, n)
             c == FromPixels(g, v.source)
             m == Drafted(v.img, v.source, NextAddress(g), v.box)
             x == WithBoth(v, c, m)
  <2>1. b \in Loaded /\ b.texture = Null /\ b.frame = Null
    BY <1>0, BareIs
  <2>2. [Release(v) EXCEPT !.img.loaded = v.source, !.img.drawing = v.source, !.img.size = 0] = r
    <3>1. Release(v) = WithBoth(v, g, b)
      BY <1>0, ReleaseIs
    <3> HIDE DEF g, b
    <3> QED
      BY <1>0, <3>1 DEF WithBoth, Worlds
  <2>3. n \in Loaded /\ n.texture = Null /\ n.frame = Null /\ n.drawing = v.source
    <3> HIDE DEF b
    <3> QED
      BY <1>0, <2>1 DEF Loaded
  <2>4. r.img = n
    <3> HIDE DEF n, g
    <3> QED
      BY <1>0 DEF WithBoth, Worlds
  <2>5. EnsureDrawn(v) = Redraw(r)
    <3> HIDE DEF r, n
    <3>1. r = IF IsRead(v) THEN v ELSE ReadIn(v)
      BY <1>3, <2>2 DEF ReadIn
    <3> QED
      BY <2>3, <2>4, <3>1 DEF EnsureDrawn
  <2>6. Redraw(r) = x
    <3>1. RetireTexture(g, n.frame) = g /\ RetireTexture(FromPixels(g, n.drawing), n.texture) = c
      BY <2>3 DEF RetireTexture
    <3>2. Framed(n, NextAddress(g), v.box) = m
      <4>1. m = [b EXCEPT !.loaded = v.source, !.drawing = v.source, !.frame = NextAddress(g), !.size = v.box]
        BY DEF Drafted
      <4> HIDE DEF b, g, m
      <4> QED
        BY <2>1, <4>1 DEF Loaded, Framed
    <3>3. r = WithBoth(v, g, n)
      OBVIOUS
    <3> HIDE DEF n, r, g, c, m
    <3>4. Redraw(r) =
           WithBoth(v, RetireTexture(FromPixels(g, n.drawing), n.texture),
                    Framed(n, NextAddress(g), v.box))
      BY <1>0, <2>3, <3>1, <3>3, RedrawIs
    <3> QED
      BY <3>1, <3>2, <3>4
  <2>7. /\ g = Retire2(v.gpu, v.img) /\ c = FromPixels(g, v.source)
        /\ m = Drafted(v.img, v.source, NextAddress(g), v.box)
        /\ x = WithBoth(v, c, m)
    OBVIOUS
  <2> HIDE DEF g, c, m, x
  <2>8. Drew(v, x, k + 2) /\ (Faithful(v) => Faithful(x))
    BY <2>7, DrawnFirst
  <2> QED
    BY <2>5, <2>6, <2>8
<1> QED
  BY <1>1, <1>2, <1>3

-----------------------------------------------------------------------------
(* The <image>: what is painted                                            *)
Judged(v, e) == [v EXCEPT !.mispainted = e]

(* Whether the picture is its source's is only noted. *)
LEMMA JudgedIsGood ==
  ASSUME NEW v, NEW k, Good(v, k), NEW e \in BOOLEAN
  PROVE  /\ Good(Judged(v, e), k) /\ (Faithful(v) /\ ~e => Faithful(Judged(v, e)))
<1> DEFINE x == Judged(v, e)
<1>0. v \in Worlds /\ Said(v)
  BY DEF Good
<1>1. /\ x.gpu = v.gpu /\ x.mDraw = v.mDraw /\ x.torn = v.torn /\ x.hurried = v.hurried
      /\ x.replaced = v.replaced /\ x.img = v.img /\ x.mispainted = e
      /\ x.image = v.image /\ x.slots = v.slots /\ x.misread = v.misread /\ x \in Worlds
  BY <1>0 DEF Judged, Worlds
<1> HIDE DEF x
<1>2. Keep(x) = Keep(v) /\ Said(x)
  BY <1>0, <1>1 DEF Keep, Said, Borrowed
<1>3. Good(x, k)
  BY <1>1, <1>2 DEF Good, Standing, Few
<1>4. Faithful(v) /\ ~e => Faithful(x)
  BY <1>1 DEF Faithful
<1> QED
  BY <1>3, <1>4 DEF x

(* Image::paint: what it paints is what its source says. *)
LEMMA PaintImageIsGood ==
  ASSUME NEW v, NEW k \in 0 .. 2, Good(v, k), OnlyStreams(v)
  PROVE  Good(PaintImage(v), k + 2) /\ (Faithful(v) => Faithful(PaintImage(v)))
<1> DEFINE ready == IF v.source \in Drawings THEN EnsureDrawn(v) ELSE EnsureLoaded(v)
           a == IF v.source \in Drawings THEN ready.img.frame
                ELSE IF ready.img.shared # Null THEN ready.img.shared ELSE ready.img.texture
           y == Painting(ready, 2, a)
           e == IsAlive(ready.gpu, a) /\ ready.gpu.alive[a].of # v.source
<1>1. PaintImage(v) = Judged(y, e)
  BY DEF PaintImage, Judged
<1>2. Good(ready, k + 2) /\ (Faithful(v) => Faithful(ready)) /\ ready.img.loaded = v.source
  <2>1. CASE v.source \in Drawings
    BY <2>1, EnsureDrawnIsGood DEF Drew
  <2>2. CASE v.source \notin Drawings
    BY <2>2, EnsureLoadedIsGood DEF Telling
  <2> QED
    BY <2>1, <2>2
<1>3. v.source \notin Drawings => ready.img.shared \in {Null, ready.image}
  BY EnsureLoadedIsGood DEF Telling
<1> HIDE DEF ready
<1>4. /\ ready \in Worlds /\ Keep(ready)[3] = ready.image /\ Keep(ready)[4] = ready.img.texture
      /\ Keep(ready)[5] = ready.img.frame /\ Said(ready)
  BY <1>2, KeepIs DEF Good
<1>5. PICK h \in {3, 4, 5} : a = Keep(ready)[h]
  BY <1>3, <1>4
<1>6. Faithful(v) => ~e
  <2>1. SUFFICES ASSUME Faithful(v), a # Null
                 PROVE  ready.gpu.alive[a].of = v.source
    BY DEF IsAlive
  <2>2. Of(ready.gpu, ready.img.texture, v.source) /\ Of(ready.gpu, ready.img.frame, v.source)
    BY <1>2, <2>1 DEF Faithful
  <2>3. CASE v.source \in Drawings
    BY <2>1, <2>2, <2>3 DEF Of
  <2>4. CASE v.source \notin Drawings /\ ready.img.shared # Null
    <3>1. v.source = "memory" /\ a = ready.image
      BY <1>2, <1>3, <1>4, <2>4 DEF Said, Borrowed
    <3> QED
      BY <1>4, <2>1, <3>1 DEF Said, Of
  <2>5. CASE v.source \notin Drawings /\ ready.img.shared = Null
    BY <2>1, <2>2, <2>5 DEF Of
  <2> QED
    BY <2>3, <2>4, <2>5
<1> HIDE DEF a
<1>7. Good(y, k + 2) /\ (Faithful(ready) => Faithful(y))
  <2>1. h \in Holders /\ 2 \in 1 .. 2
    BY <1>5 DEF Holders
  <2> QED
    BY <1>2, <1>5, <2>1, PaintingStands
<1>8. e \in BOOLEAN
  BY DEF IsAlive
<1> HIDE DEF y, e
<1>9. Good(Judged(y, e), k + 2) /\ (Faithful(y) /\ ~e => Faithful(Judged(y, e)))
  BY <1>7, <1>8, JudgedIsGood
<1> QED
  BY <1>1, <1>2, <1>6, <1>7, <1>9

-----------------------------------------------------------------------------
(* The loop *)

(* Streams::tick. *)
LEMMA TickIsGood ==
  ASSUME NEW v, NEW k, Good(v, k)
  PROVE  Keeps(v, Tick(v), k)
<1> DEFINE x == Tick(v)
           S == [n \in Names |-> Aged(v.slots[n])]
<1>0. v \in Worlds /\ Said(v) /\ v.slots \in [Names -> Entry]
  BY DEF Good, Worlds
<1>1. x = [v EXCEPT !.slots = S]
  BY DEF Tick
<1>2. \A n \in Names : S[n] \in Entry /\ S[n].at = v.slots[n].at /\ S[n].made = v.slots[n].made
  <2>1. SUFFICES ASSUME NEW n \in Names
                 PROVE  S[n] \in Entry /\ S[n].at = v.slots[n].at /\ S[n].made = v.slots[n].made
    OBVIOUS
  <2> DEFINE e == v.slots[n]
             f == [e EXCEPT !.seen = Older(@), !.known = Older(@)]
  <2>2. e \in Entry /\ S[n] = IF e.made THEN f ELSE e
    BY <1>0 DEF Aged
  <2> HIDE DEF S, e
  <2>3. Older(e.seen) \in Nat /\ Older(e.known) \in Nat
    BY <2>2, StreamsAssumption DEF Older, Entry
  <2>4. f \in Entry /\ f.at = e.at /\ f.made = e.made
    BY <2>2, <2>3 DEF Entry
  <2> HIDE DEF f
  <2> QED
    BY <2>2, <2>4 DEF e
<1>3. S \in [Names -> Entry]
  BY <1>2
<1> HIDE DEF S
<1>4. /\ x.gpu = v.gpu /\ x.mDraw = v.mDraw /\ x.torn = v.torn /\ x.hurried = v.hurried
      /\ x.replaced = v.replaced /\ x.img = v.img /\ x.mispainted = v.mispainted
      /\ x.image = v.image /\ x.slots = S /\ x.misread = v.misread /\ x \in Worlds
  BY <1>0, <1>1, <1>3 DEF Worlds
<1> HIDE DEF x
<1>5. Keep(x) = Keep(v)
  BY <1>2, <1>4 DEF Keep, Names
<1>6. Said(x)
  BY <1>0, <1>2, <1>4 DEF Said, Borrowed
<1>7. Keeps(v, x, k)
  BY <1>4, <1>5, <1>6, AboveIsGood
<1> QED
  BY <1>7 DEF x

(* What a walk records when it has painted. *)
LEMMA SettledIsGood ==
  ASSUME NEW v, NEW k, Good(v, k)
  PROVE  Keeps(v, Settled(v), k)
<1> DEFINE l == v.showing \in Names /\ v.slots[v.showing].at # v.mDraw[1]
           x == [v EXCEPT !.streamsMoved = FALSE, !.imagesMoved = FALSE, !.layoutDirty = FALSE, !.late = l]
<1>0. v \in Worlds /\ Said(v) /\ l \in BOOLEAN
  BY DEF Good
<1> HIDE DEF l
<1>1. /\ x.gpu = v.gpu /\ x.mDraw = v.mDraw /\ x.torn = v.torn /\ x.hurried = v.hurried
      /\ x.replaced = v.replaced /\ x.img = v.img /\ x.mispainted = v.mispainted
      /\ x.image = v.image /\ x.slots = v.slots /\ x.misread = v.misread /\ x \in Worlds
  BY <1>0 DEF Worlds
<1>2. Settled(v) = Tick(x)
  BY DEF Settled, l
<1> HIDE DEF x
<1>3. Keep(x) = Keep(v) /\ Said(x)
  BY <1>0, <1>1 DEF Keep, Said, Borrowed
<1>4. Keeps(v, x, k)
  BY <1>1, <1>3, AboveIsGood
<1>5. Keeps(x, Tick(x), k)
  BY <1>4, TickIsGood DEF Keeps
<1> QED
  BY <1>2, <1>4, <1>5 DEF Keeps

(* drainRetiredTextures leaves nothing to go, and what is held. *)
LEMMA DrainedIsGood ==
  ASSUME NEW v, Good(v, 4), NEW x, x = WithGpu(v, DrainRetired(v.gpu))
  PROVE  Good(x, 0) /\ (Faithful(v) => Faithful(x))
<1> DEFINE o == Keep(v)
           g == DrainRetired(v.gpu)
<1>0. /\ v \in Worlds /\ Said(v) /\ Sound(v.gpu, v.mDraw, v.torn, v.hurried, v.replaced, o)
      /\ o[3] = v.image /\ o[4] = v.img.texture /\ o[5] = v.img.frame
  BY KeepIs DEF Good, Standing
<1>1. /\ x.gpu = g /\ x.mDraw = v.mDraw /\ x.torn = v.torn /\ x.hurried = v.hurried
      /\ x.replaced = v.replaced /\ x.img = v.img /\ x.mispainted = v.mispainted
      /\ x.image = v.image /\ x.slots = v.slots /\ x.misread = v.misread
  BY <1>0 DEF Worlds, WithGpu
<1>2. Keep(x) = o
  BY <1>1 DEF Keep
<1> HIDE DEF o
<1>3. /\ Sound(g, v.mDraw, v.torn, v.hurried, v.replaced, o) /\ g.retired = {}
      /\ \A h \in Holders : o[h] # Null => g.alive[o[h]] = v.gpu.alive[o[h]]
  BY <1>0, DrainIsSound
<1>4. x \in Worlds
  <2>1. g \in Surface
    BY <1>3 DEF Sound
  <2> HIDE DEF g
  <2> QED
    BY <1>0, <2>1 DEF Worlds, WithGpu, g
<1> HIDE DEF g
<1>5. Standing(x, Keep(x)) /\ Few(x, 0)
  <2>1. Cardinality(x.gpu.retired) = 0
    BY <1>1, <1>3, FS_EmptySet
  <2> QED
    BY <1>1, <1>2, <1>3, <2>1 DEF Standing, Few
<1>6. /\ v.image # Null => g.alive[v.image] = v.gpu.alive[v.image]
      /\ v.img.texture # Null => g.alive[v.img.texture] = v.gpu.alive[v.img.texture]
      /\ v.img.frame # Null => g.alive[v.img.frame] = v.gpu.alive[v.img.frame]
  BY <1>0, <1>3 DEF Holders
<1>7. Said(x)
  BY <1>0, <1>1, <1>6 DEF Said, Borrowed, Of
<1>8. Faithful(v) => Faithful(x)
  BY <1>1, <1>6 DEF Faithful, Of
<1> QED
  BY <1>4, <1>5, <1>7, <1>8 DEF Good

Blank(v) == [v EXCEPT !.mDraw = <<Null, Null>>, !.torn = {}]
(* A walk starts with nothing painted. *)
LEMMA BlankIsGood ==
  ASSUME NEW v, NEW k, Good(v, k)
  PROVE  /\ Good(Blank(v), k) /\ OnlyStreams(Blank(v)) /\ (Faithful(v) => Faithful(Blank(v)))
<1> DEFINE x == Blank(v)
           e == <<Null, Null>>
<1>0. v \in Worlds /\ Said(v) /\ Sound(v.gpu, v.mDraw, v.torn, v.hurried, v.replaced, Keep(v))
  BY DEF Good, Standing
<1>1. /\ x.gpu = v.gpu /\ x.mDraw = e /\ x.torn = {} /\ x.hurried = v.hurried
      /\ x.replaced = v.replaced /\ x.img = v.img /\ x.mispainted = v.mispainted
      /\ x.image = v.image /\ x.slots = v.slots /\ x.misread = v.misread
  BY <1>0 DEF Worlds, Blank
<1>2. Keep(x) = Keep(v)
  BY <1>1 DEF Keep
<1>3. Sound(v.gpu, e, {}, v.hurried, v.replaced, Keep(v))
  BY <1>0, StartIsSound
<1>4. e \in [1 .. 2 -> Places] /\ e[1] = Null /\ e[2] = Null
  BY <1>3 DEF Sound
<1> HIDE DEF e
<1>5. x \in Worlds
  BY <1>0, <1>4 DEF Worlds, Blank, e
<1> HIDE DEF x
<1>6. Standing(x, Keep(x)) /\ Few(x, k)
  BY <1>1, <1>2, <1>3 DEF Standing, Few, Good
<1>7. Said(x) /\ OnlyStreams(x) /\ (Faithful(v) => Faithful(x))
  BY <1>0, <1>1, <1>4 DEF Said, Borrowed, OnlyStreams, Faithful
<1> QED
  BY <1>5, <1>6, <1>7 DEF Good, x

-----------------------------------------------------------------------------
(* The invariant                                                           *)
Layered ==
  [caching : BOOLEAN, measuring : BOOLEAN, valid : BOOLEAN, version : [1 .. 2 -> Places]]
Serving(v, m) == Good(v, 4) /\ (~m => Faithful(v))
IInv ==
  /\ Serving(w, layer.measuring)
  /\ currentFrame \in Nat /\ mDrawVersion \in [1 .. 2 -> Places] /\ layer \in Layered

(* What is kept is kept between actions. *)
LEMMA KeepsServing ==
  ASSUME NEW v, NEW x, NEW m, Serving(v, m), Keeps(v, x, 4)
  PROVE  Serving(x, m)
BY DEF Serving, Keeps

(* The top of a frame. *)
LEMMA StartedIsGood ==
  ASSUME NEW m, Serving(w, m)
  PROVE  /\ Good(Drained, 0) /\ (~m => Faithful(Drained))
         /\ Good(Started, 0) /\ OnlyStreams(Started) /\ (~m => Faithful(Started))
<1>1. Drained = WithGpu(w, DrainRetired(w.gpu)) /\ Started = Blank(Drained)
  BY DEF Drained, WithGpu, Started, Blank
<1>2. Good(Drained, 0) /\ (~m => Faithful(Drained))
  BY <1>1, DrainedIsGood DEF Serving
<1> QED
  BY <1>1, <1>2, BlankIsGood

(* The <image>, measured and painted. *)
LEMMA PictureIsGood ==
  ASSUME NEW v, Good(v, 0), OnlyStreams(v)
  PROVE  Good(Picture(v), 4) /\ (~layer.measuring /\ Faithful(v) => Faithful(Picture(v)))
<1>1. CASE layer.measuring
  <2> DEFINE m == Measure(v)
  <2>1. Picture(v) = PaintImage(m)
    BY <1>1 DEF Picture, Measured
  <2>2. Good(m, 2) /\ OnlyStreams(m)
    <3>1. 0 \in 0 .. 2 /\ 0 + 2 = 2
      OBVIOUS
    <3> QED
      BY <3>1, MeasureIsGood
  <2> HIDE DEF m
  <2>3. Good(PaintImage(m), 4)
    <3>1. 2 \in 0 .. 2 /\ 2 + 2 = 4
      OBVIOUS
    <3> QED
      BY <2>2, <3>1, PaintImageIsGood
  <2> QED
    BY <1>1, <2>1, <2>3
<1>2. CASE ~layer.measuring
  <2>1. Picture(v) = PaintImage(v)
    BY <1>2 DEF Picture, Measured
  <2>2. Good(PaintImage(v), 2) /\ (Faithful(v) => Faithful(PaintImage(v)))
    <3>1. 0 \in 0 .. 2 /\ 0 + 2 = 2
      OBVIOUS
    <3> QED
      BY <3>1, PaintImageIsGood
  <2>3. Good(PaintImage(v), 4)
    <3>1. 2 \in Nat /\ 2 + 2 = 4
      OBVIOUS
    <3> QED
      BY <2>2, <3>1, GoodGrows
  <2> QED
    BY <1>2, <2>1, <2>2, <2>3
<1> QED
  BY <1>1, <1>2

(* What a frame binds, and what it reads. *)
LEMMA BoundIsGood ==
  ASSUME Serving(w, layer.measuring)
  PROVE  /\ Sound(RecordFrame, w.mDraw, w.torn, w.hurried, w.replaced, Keep(w))
         /\ RecordFrame.alive = w.gpu.alive /\ RecordFrame.retired = w.gpu.retired
         /\ RecordFrame.flight = w.gpu.flight
         /\ FrameReads \in SUBSET Nat /\ FrameReads \subseteq Images(RecordFrame)
<1> DEFINE d1 == w.mDraw[1]
           d2 == w.mDraw[2]
           one == ImageSetFor(w.gpu, d1)
           two == ImageSetFor(one, d2)
           g == RecordFrame
<1>1. /\ Sound(w.gpu, w.mDraw, w.torn, w.hurried, w.replaced, Keep(w))
      /\ d1 \in Places /\ d2 \in Places
  BY DEF Serving, Good, Standing, Sound
<1>2. CASE ~Rasterised
  <2>1. g = w.gpu /\ FrameReads = {}
    BY <1>2 DEF RecordFrame, FrameReads
  <2> QED
    BY <1>1, <2>1
<1>3. CASE Rasterised
  <2>1. g = two /\ FrameReads = Reads(g)
    BY <1>3 DEF RecordFrame, FrameReads, Bound
  <2>2. /\ Sound(one, w.mDraw, w.torn, w.hurried, w.replaced, Keep(w))
        /\ IsAlive(w.gpu, d1) => one.sets[d1] \in {0, w.gpu.alive[d1].rev}
        /\ one.alive = w.gpu.alive /\ one.flight = w.gpu.flight /\ one.retired = w.gpu.retired
    BY <1>1, BindingIsSound
  <2> HIDE DEF one
  <2>3. /\ Sound(two, w.mDraw, w.torn, w.hurried, w.replaced, Keep(w))
        /\ IsAlive(one, d2) => two.sets[d2] \in {0, one.alive[d2].rev}
        /\ \A b \in Addresses : b # d2 => two.sets[b] = one.sets[b]
        /\ two.alive = one.alive /\ two.flight = one.flight /\ two.retired = one.retired
    BY <1>1, <2>2, BindingIsSound
  <2> HIDE DEF two, g
  <2>4. \A a \in Drawn(w) : IsAlive(g, a) => g.sets[a] \in {0, g.alive[a].rev} /\ a \in Addresses
    <3>1. SUFFICES ASSUME NEW a \in Drawn(w), IsAlive(g, a)
                   PROVE  g.sets[a] \in {0, g.alive[a].rev} /\ a \in Addresses
      OBVIOUS
    <3>2. a \in Addresses /\ a \in {d1, d2}
      BY <1>1 DEF Drawn, Places
    <3>3. IsAlive(w.gpu, a) /\ IsAlive(one, a)
      BY <2>1, <2>2, <2>3, <3>1 DEF IsAlive
    <3>4. CASE a = d2
      BY <2>1, <2>3, <3>2, <3>3, <3>4
    <3>5. CASE a # d2
      BY <2>1, <2>2, <2>3, <3>2, <3>3, <3>5
    <3> QED
      BY <3>2, <3>4, <3>5
  <2>5. g \in Surface
    BY <2>1, <2>3 DEF Sound
  <2>6. Reads(g) \subseteq Images(g)
    BY <2>4 DEF Reads, Images
  <2>7. Images(g) \subseteq Nat
    BY <2>5 DEF Images, Surface, Texture
  <2> QED
    BY <2>1, <2>2, <2>3, <2>6, <2>7 DEF g
<1> QED
  BY <1>2, <1>3

-----------------------------------------------------------------------------
(* Another surface and other streams waiting to be shown, and no more. *)
Resurfaced(v, g, s) == [v EXCEPT !.gpu = g, !.stale = s]

(* Nothing else changes. *)
LEMMA ResurfacedIsGood ==
  ASSUME NEW v, NEW m, Serving(v, m), NEW g, NEW s \in SUBSET Names,
         Sound(g, v.mDraw, v.torn, v.hurried, v.replaced, Keep(v)),
         g.alive = v.gpu.alive, g.retired = v.gpu.retired,
         NEW x, x = Resurfaced(v, g, s)
  PROVE  Serving(x, m)
<1>0. v \in Worlds /\ Said(v) /\ Few(v, 4) /\ g \in Surface
  BY DEF Serving, Good, Sound
<1>1. /\ x.gpu = g /\ x.mDraw = v.mDraw /\ x.torn = v.torn /\ x.hurried = v.hurried
      /\ x.replaced = v.replaced /\ x.img = v.img /\ x.mispainted = v.mispainted
      /\ x.image = v.image /\ x.slots = v.slots /\ x.misread = v.misread /\ x \in Worlds
  BY <1>0 DEF Worlds, Resurfaced
<1>2. Keep(x) = Keep(v)
  BY <1>1 DEF Keep
<1>3. Standing(x, Keep(x)) /\ Few(x, 4)
  BY <1>0, <1>1, <1>2 DEF Standing, Few
<1>4. Said(x)
  BY <1>0, <1>1 DEF Said, Borrowed, Of
<1>5. Faithful(v) => Faithful(x)
  BY <1>1 DEF Faithful, Of
<1> QED
  BY <1>1, <1>3, <1>4, <1>5 DEF Serving, Good

-----------------------------------------------------------------------------
(* Every action                                                            *)
LEMMA CallIsGood ==
  ASSUME NEW v, NEW m, Serving(v, m), NEW c \in RegistryCalls \cup ScreenCalls
  PROVE  Serving(After(v, c), m)
<1>1. Keeps(v, After(v, c), 4)
  BY RegistryCallsAreGood, ScreenCallsAreGood DEF Serving
<1> QED
  BY <1>1, KeepsServing

(* A producer pushes a frame of the size there is, or its first one. *)
LEMMA ProduceIsGood ==
  ASSUME NEW v, NEW m, Serving(v, m)
  PROVE  Serving(Push(v, feed, IF v.slots[feed].at = Null THEN CHOOSE z \in Sizes : TRUE
                               ELSE v.slots[feed].size), m)
<1> DEFINE z == IF v.slots[feed].at = Null THEN CHOOSE z \in Sizes : TRUE ELSE v.slots[feed].size
<1>1. v \in Worlds /\ feed \in Names
  BY DEF Serving, Good, Names
<1>2. v.slots[feed] \in Entry
  BY <1>1, SlotOf
<1>3. (CHOOSE x \in Sizes : TRUE) \in Sizes
  BY StreamsAssumption
<1>4. z \in Sizes \cup {0}
  BY <1>2, <1>3 DEF Entry
<1> HIDE DEF z
<1>5. Keeps(v, Push(v, feed, z), 4)
  BY <1>1, <1>4, PushIsGood DEF Serving
<1>6. Serving(Push(v, feed, z), m)
  BY <1>5, KeepsServing
<1> QED
  BY <1>6 DEF z

(* What the walk may be doing when it has got as far as v, with k textures *)
(* to go at most.                                                          *)
Amid(v, k, m) == Good(v, k) /\ OnlyStreams(v) /\ (~m => Faithful(v))

(* What is kept is kept in a walk. *)
LEMMA AmidKept ==
  ASSUME NEW v, NEW x, NEW k, NEW m, Amid(v, k, m), Keeps(v, x, k)
  PROVE  Amid(x, k, m)
BY DEF Amid, Keeps

(* A walk ends. *)
LEMMA WalkingIsGood ==
  ASSUME NEW v, NEW m, Serving(v, m)
  PROVE  Serving(Settled(v), m)
<1>1. Keeps(v, Settled(v), 4)
  BY SettledIsGood DEF Serving
<1> QED
  BY <1>1, KeepsServing

(* What a walk does, in any order: paint one, paint the other, be called. *)
LEMMA WalkedIsGood ==
  ASSUME NEW v, Amid(v, 0, layer.measuring)
  PROVE  /\ Serving(Picture(v), layer.measuring)
         /\ Amid(PaintStream(v), 0, layer.measuring)
         /\ \A c \in RegistryCalls : Amid(After(v, c), 0, layer.measuring)
<1>1. Serving(Picture(v), layer.measuring)
  BY PictureIsGood DEF Amid, Serving
<1>2. Amid(PaintStream(v), 0, layer.measuring)
  <2>1. Keeps(v, PaintStream(v), 0)
    BY PaintStreamIsGood DEF Amid
  <2> QED
    BY <2>1, AmidKept
<1>3. ASSUME NEW c \in RegistryCalls
      PROVE  Amid(After(v, c), 0, layer.measuring)
  <2>1. Keeps(v, After(v, c), 0)
    <3>1. 0 \in 0 .. 4
      OBVIOUS
    <3> QED
      BY <3>1, RegistryCallsAreGood DEF Amid
  <2> QED
    BY <2>1, AmidKept
<1> QED
  BY <1>1, <1>2, <1>3

(* Finish. *)
LEMMA FinishedIsGood ==
  ASSUME NEW v, NEW m, Serving(v, m), v.gpu.flight # << >>,
         NEW x, x = [v EXCEPT !.gpu.flight = Tail(@)]
  PROVE  Serving(x, m)
<1>0. v \in Worlds
  BY DEF Serving, Good
<1>1. Sound(v.gpu, v.mDraw, v.torn, v.hurried, v.replaced, Keep(v)) /\ v.stale \in SUBSET Names
  BY <1>0 DEF Serving, Good, Standing, Worlds
<1>2. x = Resurfaced(v, Finished(v.gpu), v.stale)
  BY <1>0 DEF Worlds, Resurfaced, Finished
<1>3. /\ Sound(Finished(v.gpu), v.mDraw, v.torn, v.hurried, v.replaced, Keep(v))
      /\ Finished(v.gpu).alive = v.gpu.alive /\ Finished(v.gpu).retired = v.gpu.retired
  BY <1>1, FinishIsSound
<1> QED
  BY <1>1, <1>2, <1>3, ResurfacedIsGood

(* DrawWindow. *)
LEMMA DrawnIsGood ==
  ASSUME IInv, DrawWindow
  PROVE  IInv'
<1> DEFINE g == RecordFrame
           r == FrameReads
           s == w.stale \ Shown(r)
<1>0. Serving(w, layer.measuring) /\ layer \in Layered /\ mDrawVersion \in [1 .. 2 -> Places]
      /\ currentFrame \in Nat /\ FramesInFlight \in Nat \ {0} /\ w \in Worlds
  BY StreamsAssumption DEF IInv, Serving, Good
<1>1. /\ Sound(g, w.mDraw, w.torn, w.hurried, w.replaced, Keep(w))
      /\ g.alive = w.gpu.alive /\ g.retired = w.gpu.retired
      /\ g.flight = w.gpu.flight
      /\ r \in SUBSET Nat /\ r \subseteq Images(g)
  BY <1>0, BoundIsGood
<1>2. w' = Resurfaced(w, Submitted(g, currentFrame, r), s)
  <2>1. w' = [w EXCEPT !.gpu = [g EXCEPT !.flight = Append(@, [frame |-> currentFrame, reads |-> r])],
                       !.stale = s]
    BY <1>0 DEF DrawWindow, Worlds
  <2> HIDE DEF g, r, s
  <2> QED
    BY <2>1 DEF Resurfaced, Submitted
<1>3. s \in SUBSET Names
  BY <1>0 DEF Worlds
<1>4. \A i \in 1 .. Len(g.flight) : g.flight[i].frame # currentFrame
  <2>1. \A i \in DOMAIN w.gpu.flight : w.gpu.flight[i].frame # currentFrame
    BY DEF DrawWindow, FenceSignalled
  <2>2. w.gpu.flight \in Seq([frame : Nat, reads : SUBSET Nat])
    BY <1>0 DEF Worlds, Surface
  <2>3. DOMAIN w.gpu.flight = 1 .. Len(w.gpu.flight)
    BY <2>2
  <2> QED
    BY <1>1, <2>1, <2>3
<1> HIDE DEF g, r, s
<1>5. /\ Sound(Submitted(g, currentFrame, r), w.mDraw, w.torn, w.hurried, w.replaced, Keep(w))
      /\ Submitted(g, currentFrame, r).alive = g.alive
      /\ Submitted(g, currentFrame, r).retired = g.retired
  BY <1>0, <1>1, <1>4, SubmitIsSound
<1>6. Serving(w', layer.measuring)
  BY <1>0, <1>1, <1>2, <1>3, <1>5, ResurfacedIsGood
<1>7. layer' \in Layered /\ layer'.measuring = layer.measuring /\ mDrawVersion' = mDrawVersion
  BY <1>0 DEF DrawWindow, Layered
<1>8. currentFrame' \in Nat
  BY <1>0 DEF DrawWindow
<1> QED
  BY <1>0, <1>6, <1>7, <1>8 DEF IInv

(* Walk. *)
LEMMA WalkKeepsIInv ==
  ASSUME IInv, Walk
  PROVE  Serving(w', layer.measuring)
<1>1. Amid(Started, 0, layer.measuring)
  BY StartedIsGood DEF Amid, IInv
<1>2. Amid(PaintStream(Started), 0, layer.measuring)
  BY <1>1, WalkedIsGood
<1>3. Serving(Picture(PaintStream(Started)), layer.measuring)
  BY <1>2, WalkedIsGood
<1> QED
  BY <1>3, WalkingIsGood DEF Walk, Walking

(* WalkWithHandler. *)
LEMMA HandledWalkKeepsIInv ==
  ASSUME IInv, WalkWithHandler
  PROVE  Serving(w', layer.measuring)
<1>1. Amid(Started, 0, layer.measuring)
  BY StartedIsGood DEF Amid, IInv
<1>2. PICK c \in RegistryCalls :
        \/ Walking(Picture(PaintStream(After(Started, c))))
        \/ Walking(Picture(After(PaintStream(Started), c)))
        \/ Walking(After(Picture(PaintStream(Started)), c))
  BY DEF WalkWithHandler
<1>3. Serving(Picture(PaintStream(After(Started, c))), layer.measuring)
  <2>1. Amid(After(Started, c), 0, layer.measuring)
    BY <1>1, WalkedIsGood
  <2>2. Amid(PaintStream(After(Started, c)), 0, layer.measuring)
    BY <2>1, WalkedIsGood
  <2> QED
    BY <2>2, WalkedIsGood
<1>4. Amid(PaintStream(Started), 0, layer.measuring)
  BY <1>1, WalkedIsGood
<1>5. Serving(Picture(After(PaintStream(Started), c)), layer.measuring)
  <2>1. Amid(After(PaintStream(Started), c), 0, layer.measuring)
    BY <1>4, WalkedIsGood
  <2> QED
    BY <2>1, WalkedIsGood
<1>6. Serving(After(Picture(PaintStream(Started)), c), layer.measuring)
  <2>1. Serving(Picture(PaintStream(Started)), layer.measuring)
    BY <1>4, WalkedIsGood
  <2> QED
    BY <2>1, CallIsGood
<1> QED
  BY <1>2, <1>3, <1>5, <1>6, WalkingIsGood DEF Walking

(* Reuse. *)
LEMMA ReuseKeepsIInv ==
  ASSUME IInv, Reuse
  PROVE  Serving(w', layer.measuring)
<1>1. Good(Drained, 0) /\ (~layer.measuring => Faithful(Drained))
  BY StartedIsGood DEF IInv
<1>2. Good(Drained, 4)
  <2>1. 0 \in Nat /\ 0 + 2 = 2 /\ 2 \in Nat /\ 2 + 2 = 4
    OBVIOUS
  <2>2. Good(Drained, 2)
    BY <1>1, <2>1, GoodGrows
  <2> QED
    BY <2>1, <2>2, GoodGrows
<1>3. Keeps(Drained, Tick(Drained), 4)
  BY <1>2, TickIsGood
<1>4. Serving(Drained, layer.measuring)
  BY <1>1, <1>2 DEF Serving
<1> QED
  BY <1>3, <1>4, KeepsServing DEF Reuse

-----------------------------------------------------------------------------
(* The beginning, every step, and what is promised                         *)
LEMMA NewIsASurface == NewSurfaces \in Surface
<1> DEFINE gone == [rev |-> 0, of |-> Nameless]
<1>1. gone \in Texture /\ Gone = gone
  BY DEF Gone, Texture, Makers, Nameless
<1> HIDE DEF gone
<1>2. [a \in Addresses |-> Gone] \in [Addresses -> Texture]
  BY <1>1
<1>3. [a \in Addresses |-> 0] \in [Addresses -> Nat]
  OBVIOUS
<1> QED
  BY ONLY <1>2, <1>3, SurfacesAssumption DEF NewSurfaces, Surface

(* Nothing is held, painted or in flight. *)
LEMMA NewIsSound ==
  Sound(NewSurfaces, <<Null, Null>>, {}, {}, 0, <<Null, Null, Null, Null, Null, Null>>)
<1> DEFINE g == NewSurfaces
           o == <<Null, Null, Null, Null, Null, Null>>
           d == <<Null, Null>>
<1>1. g \in Surface
  BY NewIsASurface
<1>2. /\ \A a \in Addresses : g.alive[a] = Gone /\ g.sets[a] = 0
      /\ g.retired = {} /\ g.flight = << >> /\ g.pool = MaxSets /\ g.built = 0 /\ MaxSets \in Nat
  BY SurfacesAssumption DEF NewSurfaces
<1>3. o \in [Holders -> Places] /\ \A h \in Holders : o[h] = Null
  BY DEF Holders, Places
<1>4. d \in [1 .. 2 -> Places] /\ \A i \in 1 .. 2 : d[i] = Null
  BY DEF Places
<1> HIDE DEF g, o, d
<1>5. Revised(g) /\ Owned(g, o) /\ Stands(g, d, {})
  BY <1>2, <1>3, <1>4 DEF Revised, Owned, Stands
<1>6. Flying(g, {})
  <2>1. Len(g.flight) = 0
    BY <1>2
  <2> QED
    BY <2>1 DEF Flying
<1>7. Pooled(g, 0)
  <2>1. StaleSets(g) = {} /\ UsedSets(g) = {}
    BY <1>2 DEF StaleSets, UsedSets
  <2>2. Cardinality(StaleSets(g)) = 0 /\ Cardinality(UsedSets(g)) = 0
    BY <2>1, FS_EmptySet
  <2> QED
    BY ONLY <1>2, <2>2 DEF Pooled
<1>8. {} \in SUBSET Addresses /\ {} \in SUBSET Nat /\ 0 \in Nat
  OBVIOUS
<1>9. Sound(g, d, {}, {}, 0, o)
  BY ONLY <1>1, <1>3, <1>4, <1>5, <1>6, <1>7, <1>8 DEF Sound
<1> QED
  BY <1>9 DEF g, d, o

(* The <image> has loaded nothing. *)
LEMMA NoImageIsLoaded ==
  /\ NoImage \in Loaded /\ NoImage.texture = Null /\ NoImage.frame = Null /\ NoImage.shared = Null
  /\ NoImage.loaded = Nameless /\ NoImage.moved
<1> DEFINE m == [loaded |-> Nameless, texture |-> Null, shared |-> Null, moved |-> TRUE,
                 drawing |-> Nameless, frame |-> Null, size |-> 0]
<1>1. NoImage = m
  BY Zenon DEF NoImage, Nameless
<1>2. /\ m \in Loaded /\ m.texture = Null /\ m.frame = Null /\ m.shared = Null
      /\ m.loaded = Nameless /\ m.moved
  BY DEF Loaded, Places
<1> HIDE DEF m
<1> QED
  BY <1>1, <1>2

(* Nothing is not a source. *)
LEMMA NothingIsLoaded == Nameless \notin Sources
BY Zenon DEF Nameless, Sources, Drawings

(* The world the program starts in. *)
LEMMA WorldIsGood ==
  ASSUME NEW v \in {World, [World EXCEPT !.showing = "nothing"]}
  PROVE  Good(v, 4) /\ Faithful(v)
<1> DEFINE S == [n \in Names |-> NoSlot]
           o == <<Null, Null, Null, Null, Null, Null>>
           d == <<Null, Null>>
           b == <<0, 0>>
           z == CHOOSE s \in {v.showing} : TRUE
<1>1. /\ v.gpu = NewSurfaces /\ v.slots = S /\ v.image = Null /\ v.img = NoImage
      /\ v.mDraw = d /\ v.torn = {} /\ v.hurried = {} /\ v.replaced = 0
      /\ v.misread = FALSE /\ v.mispainted = FALSE
  BY DEF World
<1>2. NoSlot \in Entry /\ NoSlot.at = Null
  <2>1. Never \in Nat
    BY StreamsAssumption DEF Never
  <2> QED
    BY <2>1 DEF NoSlot, Entry, Places
<1>3. S \in [Names -> Entry] /\ \A n \in Names : S[n].at = Null
  BY <1>2
<1>4. feed \in Names /\ out \in Names
  BY DEF Names
<1>5. Keep(v) = o
  BY <1>1, <1>3, <1>4, NoImageIsLoaded DEF Keep
<1>6. Sound(NewSurfaces, d, {}, {}, 0, o) /\ NewSurfaces.retired = {}
  BY NewIsSound DEF NewSurfaces
<1>7. b \in Nat \X Nat /\ d \in [1 .. 2 -> Places]
  BY <1>6 DEF Sound
<1> HIDE DEF S, o, d, b
<1>8. v \in Worlds
  <2>1. World \in Worlds
    <3>1. feed \in Names /\ feed \in Names \cup {"nothing"} /\ "photo" \in Sources /\ 1 \in Nat
      BY DEF Names, Sources
    <3>2. NewSurfaces \in Surface /\ NoImage \in Loaded /\ Null \in Places
      BY NewIsASurface, NoImageIsLoaded DEF Places
    <3> DEFINE p == "photo"
    <3> HIDE DEF p
    <3>3. World = [gpu |-> NewSurfaces, slots |-> S, image |-> Null,
            showing |-> feed, source |-> p, box |-> 1, img |-> NoImage,
            streamsMoved |-> FALSE, imagesMoved |-> FALSE, layoutDirty |-> TRUE,
            bound |-> b, misread |-> FALSE, mispainted |-> FALSE,
            mDraw |-> d, torn |-> {}, hurried |-> {}, replaced |-> 0, stale |-> {}, late |-> FALSE]
      BY DEF World, S, b, d, p
    <3>4. p \in Sources
      BY <3>1 DEF p
    <3> QED
      BY <1>3, <1>7, <3>1, <3>2, <3>3, <3>4 DEF Worlds
  <2>2. [World EXCEPT !.showing = "nothing"] \in Worlds
    BY <2>1 DEF Worlds
  <2> QED
    BY <2>1, <2>2
<1>9. Standing(v, Keep(v)) /\ Few(v, 4)
  BY <1>1, <1>5, <1>6, FS_EmptySet DEF Standing, Few
<1>10. Said(v)
  <2>1. Borrowed(v)
    BY <1>1, NoImageIsLoaded, NothingIsLoaded DEF Borrowed, Sources
  <2> QED
    BY <1>1, <1>3, <2>1 DEF Said, Of
<1>11. Faithful(v)
  BY <1>1, NoImageIsLoaded DEF Faithful, Of
<1> QED
  BY <1>8, <1>9, <1>10, <1>11 DEF Good

(* The invariant holds to begin with, *)
LEMMA InitIsGood == ASSUME Init PROVE IInv
<1> DEFINE d == <<Null, Null>>
<1>1. Good(w, 4) /\ Faithful(w)
  BY WorldIsGood DEF Init
<1>2. d \in [1 .. 2 -> Places]
  BY DEF Places
<1>3. /\ mDrawVersion = d /\ currentFrame = 0
      /\ layer \in {[caching |-> c, measuring |-> c, valid |-> FALSE, version |-> d] : c \in BOOLEAN}
  BY DEF Init
<1> HIDE DEF d
<1>4. PICK c \in BOOLEAN : layer = [caching |-> c, measuring |-> c, valid |-> FALSE, version |-> d]
  BY ONLY <1>3
<1>5. layer \in Layered
  BY ONLY <1>2, <1>4 DEF Layered
<1> QED
  BY <1>1, <1>2, <1>3, <1>5 DEF IInv, Serving

(* every step keeps it, *)
LEMMA StepIsGood == ASSUME IInv, [Next]_vars PROVE IInv'
<1> USE DEF IInv
<1>1. CASE Call
  <2>1. PICK c \in RegistryCalls \cup ScreenCalls : w' = After(w, c)
    BY <1>1 DEF Call
  <2>2. Serving(w', layer.measuring)
    BY <2>1, CallIsGood
  <2> QED
    BY <1>1, <2>2 DEF Call
<1>2. CASE Produce
  <2>1. Serving(w', layer.measuring)
    BY <1>2, ProduceIsGood DEF Produce
  <2> QED
    BY <1>2, <2>1 DEF Produce
<1>3. CASE Reuse
  BY <1>3, ReuseKeepsIInv DEF Reuse, FrameBegins
<1>4. CASE Walk
  BY <1>4, WalkKeepsIInv DEF Walk, Walking, FrameBegins
<1>5. CASE WalkWithHandler
  <2>1. UNCHANGED <<mDrawVersion, currentFrame, layer>>
    BY <1>5 DEF WalkWithHandler, Walking, FrameBegins
  <2> QED
    BY <1>5, <2>1, HandledWalkKeepsIInv
<1>6. CASE Earn \/ Skip
  <2>1. UNCHANGED <<w, currentFrame, layer>> /\ mDrawVersion' = w.mDraw
    BY <1>6 DEF Earn, Skip, Gate
  <2>2. w.mDraw \in [1 .. 2 -> Places]
    BY DEF Serving, Good, Worlds
  <2> QED
    BY <2>1, <2>2
<1>7. CASE Finish
  <2>1. Serving(w', layer.measuring)
    BY <1>7, FinishedIsGood DEF Finish
  <2> QED
    BY <1>7, <2>1 DEF Finish
<1>8. CASE DrawWindow
  BY <1>8, DrawnIsGood
<1>9. CASE UNCHANGED vars
  BY <1>9 DEF vars
<1> QED
  BY <1>1, <1>2, <1>3, <1>4, <1>5, <1>6, <1>7, <1>8, <1>9 DEF Next

(* and it says that what is drawn is sound. *)
LEMMA GoodDraws == ASSUME IInv PROVE DrawsAreSound
<1> DEFINE g == w.gpu
<1>1. /\ Sound(g, w.mDraw, w.torn, w.hurried, w.replaced, Keep(w)) /\ ~w.misread
      /\ (w.mispainted => layer.measuring)
  BY DEF IInv, Serving, Good, Standing, Said, Faithful
<1>2. \A a \in Drawn(w) : IsAlive(g, a) \/ a \in w.torn
  BY <1>1 DEF Sound, Stands, Drawn, IsAlive
<1>3. g.flight \in Seq([frame : Nat, reads : SUBSET Nat]) /\ DOMAIN g.flight = 1 .. Len(g.flight)
  BY <1>1 DEF Sound, Surface
<1>4. Flying(g, w.hurried)
  BY <1>1 DEF Sound
<1>5. InFlight(g) \subseteq Images(g) \cup w.hurried
  BY <1>3, <1>4 DEF InFlight, Flying
<1>6. \A i, j \in DOMAIN g.flight : g.flight[i].frame = g.flight[j].frame => i = j
  BY <1>3, <1>4 DEF Flying
<1>7. MaxSets <= g.pool + w.replaced + Cardinality({a \in Addresses : g.sets[a] # 0})
  <2>1. g \in Surface /\ w.replaced \in Nat /\ Pooled(g, w.replaced)
    BY <1>1 DEF Sound
  <2>2. Cardinality(StaleSets(g)) \in Nat /\ Cardinality(UsedSets(g)) \in Nat
    BY <2>1, SetsAreFinite
  <2>3. g.pool \in Nat /\ MaxSets \in Nat
    BY <2>1, SurfacesAssumption DEF Surface
  <2>4. MaxSets <= g.pool + w.replaced + Cardinality(UsedSets(g))
    BY ONLY <2>1, <2>2, <2>3 DEF Pooled
  <2> QED
    BY <2>4 DEF UsedSets
<1> QED
  BY <1>1, <1>2, <1>5, <1>6, <1>7 DEF DrawsAreSound

(* Whatever is recorded reads an image that exists, through a set that is  *)
(* its own; nothing in flight is freed but by a registry that does not     *)
(* wait; nothing shows the picture of another; the pool is accounted for.  *)
(* For any number of addresses that is enough, sets, frames in flight,     *)
(* sizes and calls (Renderer.cpp, GuiRenderer.cpp, Streams.cpp, Images.cpp,*)
(* Effects.cpp, Widget.cpp).                                               *)
THEOREM DrawsAreAlwaysSound == Spec => []DrawsAreSound
<1>1. Init => IInv
  BY InitIsGood
<1>2. IInv /\ [Next]_vars => IInv'
  BY StepIsGood
<1>3. IInv => DrawsAreSound
  BY GoodDraws
<1> QED
  BY <1>1, <1>2, <1>3, PTL DEF Spec

==============================================================================
