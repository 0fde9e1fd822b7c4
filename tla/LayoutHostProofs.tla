-------------------------- MODULE LayoutHostProofs --------------------------
(***************************************************************************)
(* Proofs about LayoutHost and the bindings under it, for any signals,     *)
(* layouts, files and bounds.  The bindings' invariant BInv is shown to    *)
(* hold through each call of Bindings; the host only chooses the calls.    *)
(***************************************************************************)
EXTENDS LayoutHost, TLAPS

\* A signal that a live binding reads has been declared (resolveNames).
ReadsDeclared ==
  \A i \in B!Live : \A n \in mBindings[i].reads : val[n] # NoSignal

BInv ==
  /\ B!TypeOK
  /\ B!QueueMirrorsDirty
  /\ B!EdgesMatch
  /\ ReadsDeclared

-----------------------------------------------------------------------------
(* Lemmas about the operators of Bindings                                  *)

\* What the type invariant says of a single binding.
LEMMA BindingFacts ==
  ASSUME B!TypeOK, NEW i \in B!Ids
  PROVE  /\ mBindings[i] \in B!Binding
         /\ mBindings[i].reads \subseteq Names
<1>1. mBindings \in Seq(B!Binding) /\ i \in 1 .. Len(mBindings)
  BY DEF B!TypeOK, B!Ids
<1>2. mBindings[i] \in B!Binding
  BY <1>1
<1> QED
  BY <1>2 DEF B!Binding

\* The ids a layout's bindings will have follow the ones handed out before.
LEMMA FreshIds ==
  ASSUME B!TypeOK, NEW L, B!IsLayout(L)
  PROVE  /\ Len(mBindings) \in Nat /\ Len(L.binds) \in Nat
         /\ B!Ids \cup B!Fresh(L) = 1 .. (Len(mBindings) + Len(L.binds))
         /\ B!Ids \cap B!Fresh(L) = {}
         /\ \A i \in B!Fresh(L) : L.binds[i - Len(mBindings)] \in B!Template
<1>1. mBindings \in Seq(B!Binding) /\ L.binds \in Seq(B!Template)
  BY DEF B!TypeOK, B!IsLayout
<1>2. Len(mBindings) \in Nat /\ Len(L.binds) \in Nat
  BY <1>1
<1>3. \A i \in B!Fresh(L) : i - Len(mBindings) \in 1 .. Len(L.binds)
  BY <1>2 DEF B!Fresh
<1>4. \A k \in 1 .. Len(L.binds) : L.binds[k] \in B!Template
  BY <1>1
<1> QED
  BY <1>2, <1>3, <1>4 DEF B!Fresh, B!Ids

\* A layout's bindings resolve every name they read to a declared signal, and no
\* signal ceases to be declared.
LEMMA DeclaredFacts ==
  ASSUME B!TypeOK, NEW L, B!IsLayout(L), B!BindingsAssumption
  PROVE  /\ B!Declared(L) \in [Names -> B!Values \cup {NoSignal}]
         /\ \A n \in Names : val[n] # NoSignal => B!Declared(L)[n] # NoSignal
         /\ \A k \in 1 .. Len(L.binds) : \A n \in L.binds[k].reads :
              n \in Names /\ B!Declared(L)[n] # NoSignal
<1> DEFINE own == [n \in Names |-> IF n \in DOMAIN L.defs
                                THEN B!Defined(val[n], L.defs[n]) ELSE val[n]]
           reads == UNION {L.binds[k].reads : k \in 1 .. Len(L.binds)}
<1>1. val \in [Names -> B!Values \cup {NoSignal}]
  BY DEF B!TypeOK
<1>2. \A n \in DOMAIN L.defs : L.defs[n] \in B!Values
  <2>1. PICK D \in SUBSET Names : L.defs \in [D -> B!Values]
    BY DEF B!IsLayout
  <2> QED
    BY <2>1
<1>3. NoSignal \notin B!Values /\ Zero \in B!Values
  BY DEF B!BindingsAssumption, B!Values
<1>4. \A k \in 1 .. Len(L.binds) : L.binds[k].reads \subseteq Names
  <2>1. L.binds \in Seq(B!Template)
    BY DEF B!IsLayout
  <2>2. \A k \in 1 .. Len(L.binds) : L.binds[k] \in B!Template
    BY <2>1
  <2> QED
    BY <2>2 DEF B!Template
<1>5. /\ own \in [Names -> B!Values \cup {NoSignal}]
      /\ \A n \in Names : val[n] # NoSignal => own[n] # NoSignal
  BY <1>1, <1>2, <1>3 DEF B!Defined
<1>6. B!Declared(L) = [n \in Names |-> IF own[n] = NoSignal /\ n \in reads THEN Zero ELSE own[n]]
  BY DEF B!Declared
<1> HIDE DEF own
<1>7. \A k \in 1 .. Len(L.binds) : L.binds[k].reads \subseteq reads
  OBVIOUS
<1> HIDE DEF reads
<1> QED
  BY <1>3, <1>4, <1>5, <1>6, <1>7
-----------------------------------------------------------------------------
(* Each call of Bindings preserves BInv                                    *)

\* define changes what a name is only when it is allowed to overwrite: a name that
\* nothing has declared is read by nobody.
LEMMA DefineKeeps ==
  ASSUME BInv, B!BindingsAssumption,
         NEW n \in Names, NEW v \in B!Values, B!Define(n, v)
  PROVE  BInv' /\ (DefineOnce /\ B!WidgetsAgree => B!WidgetsAgree')
<1>1. /\ DefineOnce => val[n] = NoSignal
      /\ val' = [val EXCEPT ![n] = B!Defined(@, v)]
      /\ UNCHANGED <<observers, mDirty, mQueued, mBindings, shown>>
  BY DEF B!Define
<1>2. val \in [Names -> B!Values \cup {NoSignal}] /\ v # NoSignal
  BY DEF BInv, B!TypeOK, B!BindingsAssumption
<1>3. /\ val' \in [Names -> B!Values \cup {NoSignal}]
      /\ \A m \in Names : val[m] # NoSignal => val'[m] # NoSignal
  BY <1>1, <1>2 DEF B!Defined
<1>4. B!TypeOK'
  BY <1>1, <1>3 DEF BInv, B!TypeOK, B!Ids
<1>5. B!QueueMirrorsDirty' /\ B!EdgesMatch'
  BY <1>1 DEF BInv, B!QueueMirrorsDirty, B!EdgesMatch, B!Ids
<1>6. ReadsDeclared'
  <2> SUFFICES ASSUME NEW i \in B!Live, NEW m \in mBindings[i].reads
               PROVE  val'[m] # NoSignal
    BY <1>1 DEF ReadsDeclared, B!Live, B!Ids
  <2> QED
    BY <1>3, BindingFacts DEF BInv, ReadsDeclared, B!Live
<1>7. ASSUME DefineOnce, B!WidgetsAgree PROVE B!WidgetsAgree'
  <2>1. \A i \in B!Live : n \notin mBindings[i].reads
    BY <1>1, <1>7 DEF BInv, ReadsDeclared
  <2>2. \A i \in B!Live : \A m \in mBindings[i].reads : val'[m] = val[m]
    BY <1>1, <1>2, <2>1, BindingFacts DEF BInv, B!Live
  <2>3. \A i \in B!Live : B!Reading(mBindings[i], val') = B!Reading(mBindings[i], val)
    BY <2>2 DEF B!Reading
  <2> QED
    BY <1>1, <1>7, <2>3 DEF B!WidgetsAgree, B!Live, B!Ids
<1> QED
  BY <1>4, <1>5, <1>6, <1>7 DEF BInv

\* set queues every live binding that reads the signal, and disturbs no other.
LEMMA SetKeeps ==
  ASSUME BInv, B!BindingsAssumption,
         NEW n \in Names, NEW v \in B!Values, B!Set(n, v)
  PROVE  BInv' /\ (B!WidgetsAgree => B!WidgetsAgree')
<1>1. /\ val' = [val EXCEPT ![n] = v]
      /\ mDirty' = mDirty \cup (observers[n] \ mQueued)
      /\ mQueued' = mQueued \cup observers[n]
      /\ UNCHANGED <<observers, mBindings, shown>>
  BY DEF B!Set
<1>2. B!TypeOK'
  BY <1>1 DEF BInv, B!TypeOK, B!Ids
<1>3. B!QueueMirrorsDirty' /\ B!EdgesMatch'
  BY <1>1 DEF BInv, B!QueueMirrorsDirty, B!EdgesMatch, B!Ids
<1>4. v # NoSignal
  BY DEF B!BindingsAssumption
<1>5. ReadsDeclared'
  <2> SUFFICES ASSUME NEW i \in B!Live, NEW m \in mBindings[i].reads
               PROVE  val'[m] # NoSignal
    BY <1>1 DEF ReadsDeclared, B!Live, B!Ids
  <2>1. m \in Names /\ val[m] # NoSignal
    BY BindingFacts DEF BInv, ReadsDeclared, B!Live
  <2> QED
    BY <1>1, <1>4, <2>1 DEF BInv, B!TypeOK
<1>6. ASSUME B!WidgetsAgree PROVE B!WidgetsAgree'
  <2> SUFFICES ASSUME NEW i \in B!Live
               PROVE  shown[i] = B!Reading(mBindings[i], val') \/ i \in mDirty'
    BY <1>1 DEF B!WidgetsAgree, B!Live, B!Ids
  <2>1. CASE n \in mBindings[i].reads
    BY <1>1, <2>1 DEF BInv, B!EdgesMatch, B!QueueMirrorsDirty, B!Live
  <2>2. CASE n \notin mBindings[i].reads
    <3>1. \A m \in mBindings[i].reads : val'[m] = val[m]
      BY <1>1, <2>2, BindingFacts DEF BInv, B!TypeOK, B!Live
    <3>2. B!Reading(mBindings[i], val') = B!Reading(mBindings[i], val)
      BY <3>1 DEF B!Reading
    <3> QED
      BY <1>1, <1>6, <3>2 DEF B!WidgetsAgree
  <2> QED
    BY <2>1, <2>2
<1> QED
  BY <1>2, <1>3, <1>5, <1>6 DEF BInv

\* What applyOne leaves of a binding: it may stop it, and nothing else.
LEMMA AppliedFacts ==
  ASSUME NEW S, NEW bs \in Seq(B!Binding), NEW w, NEW i \in DOMAIN bs
  PROVE  /\ B!Applied(S, bs, w)[i] \in B!Binding
         /\ B!Applied(S, bs, w)[i].reads = bs[i].reads
         /\ B!Applied(S, bs, w)[i].live
              <=> bs[i].live /\ ~(i \in S /\ B!Refused(bs[i], w))
<1>1. bs[i] \in B!Binding
  OBVIOUS
<1>2. B!Applied(S, bs, w)[i] = IF i \in S /\ bs[i].live /\ B!Refused(bs[i], w)
                                 THEN [bs[i] EXCEPT !.live = FALSE] ELSE bs[i]
  BY DEF B!Applied
<1>3. CASE i \in S /\ bs[i].live /\ B!Refused(bs[i], w)
  BY <1>1, <1>2, <1>3 DEF B!Binding
<1>4. CASE ~(i \in S /\ bs[i].live /\ B!Refused(bs[i], w))
  BY <1>1, <1>2, <1>4 DEF B!Binding
<1> QED
  BY <1>3, <1>4

LEMMA AppliedShape ==
  ASSUME NEW S, NEW bs \in Seq(B!Binding), NEW w
  PROVE  /\ B!Applied(S, bs, w) \in Seq(B!Binding)
         /\ Len(B!Applied(S, bs, w)) = Len(bs)
         /\ DOMAIN B!Applied(S, bs, w) = 1 .. Len(bs)
<1>1. DOMAIN B!Applied(S, bs, w) = 1 .. Len(bs) /\ Len(bs) \in Nat
  BY DEF B!Applied
<1>2. \A i \in 1 .. Len(bs) : B!Applied(S, bs, w)[i] \in B!Binding
  BY AppliedFacts
<1>3. B!Applied(S, bs, w) = [i \in 1 .. Len(bs) |-> B!Applied(S, bs, w)[i]]
  BY <1>1 DEF B!Applied
<1> QED
  BY <1>1, <1>2, <1>3

\* applyDirty leaves every binding it took agreeing with its signals, or stopped.
LEMMA ApplyDirtyKeeps ==
  ASSUME BInv, B!BindingsAssumption, B!ApplyDirty
  PROVE  /\ BInv' /\ (B!WidgetsAgree => B!WidgetsAgree')
         /\ B!Ids' = B!Ids /\ B!Live' \subseteq B!Live
<1>1. /\ mDirty' = {} /\ mQueued' = mQueued \ mDirty
      /\ mBindings' = B!Applied(mDirty, mBindings, val)
      /\ shown' = B!Painted(mDirty, mBindings, val, shown)
      /\ UNCHANGED <<val, observers>>
  BY DEF B!ApplyDirty
<1>2. mBindings \in Seq(B!Binding) /\ DOMAIN mBindings = B!Ids
  BY DEF BInv, B!TypeOK, B!Ids
<1>3. mBindings' \in Seq(B!Binding) /\ Len(mBindings') = Len(mBindings)
  BY <1>1, <1>2, AppliedShape
<1>4. \A i \in B!Ids : /\ mBindings'[i].reads = mBindings[i].reads
                       /\ mBindings'[i].live <=> mBindings[i].live
                            /\ ~(i \in mDirty /\ B!Refused(mBindings[i], val))
  BY <1>1, <1>2, AppliedFacts
<1>5. B!Ids' = B!Ids /\ B!Live' \subseteq B!Live
  BY <1>3, <1>4 DEF B!Ids, B!Live
<1>6. B!TypeOK'
  BY <1>1, <1>2, <1>3, <1>5 DEF BInv, B!TypeOK, B!Painted
<1>7. B!QueueMirrorsDirty'
  BY <1>1 DEF BInv, B!QueueMirrorsDirty
<1>8. B!EdgesMatch'
  BY <1>1, <1>4, <1>5 DEF BInv, B!EdgesMatch
<1>9. ReadsDeclared'
  BY <1>1, <1>4, <1>5 DEF BInv, ReadsDeclared, B!Live
<1>10. ASSUME B!WidgetsAgree PROVE B!WidgetsAgree'
  <2> SUFFICES ASSUME NEW i \in B!Live'
               PROVE  shown'[i] = B!Reading(mBindings'[i], val)
    BY <1>1 DEF B!WidgetsAgree, B!Reading
  <2>1. i \in B!Live /\ i \in B!Ids /\ mBindings'[i].live /\ mBindings[i].live
    BY <1>5 DEF B!Live
  <2>2. shown'[i] = IF i \in mDirty /\ ~B!Refused(mBindings[i], val)
                      THEN B!Reading(mBindings[i], val) ELSE shown[i]
    BY <1>1, <1>2, <2>1 DEF B!Painted
  <2>3. B!Reading(mBindings'[i], val) = B!Reading(mBindings[i], val)
    BY <1>4, <2>1 DEF B!Reading
  <2> QED
    BY <1>4, <1>10, <2>1, <2>2, <2>3 DEF B!WidgetsAgree
<1> QED
  BY <1>5, <1>6, <1>7, <1>8, <1>9, <1>10 DEF BInv

\* What remove leaves of the binding table.
LEMMA ReleasedFacts ==
  ASSUME B!TypeOK, NEW old \in SUBSET B!Ids
  PROVE  /\ B!Released(old) \in Seq(B!Binding)
         /\ Len(B!Released(old)) = Len(mBindings)
         /\ \A i \in B!Gone(old) : B!Released(old)[i] = B!Hole
         /\ \A i \in B!Ids \ B!Gone(old) : B!Released(old)[i] = mBindings[i]
         /\ \A i \in B!Ids : B!Released(old)[i].live => i \in B!Live \ old
<1>1. mBindings \in Seq(B!Binding) /\ Len(mBindings) \in Nat
  BY DEF B!TypeOK
<1>2. B!Hole \in B!Binding
  BY DEF B!Hole, B!Binding
<1>3. \A i \in B!Ids : mBindings[i] \in B!Binding
  BY <1>1 DEF B!Ids
<1>4. B!Released(old) = [i \in 1 .. Len(mBindings) |->
                           IF i \in B!Gone(old) THEN B!Hole ELSE mBindings[i]]
  BY DEF B!Released, B!Ids
<1>5. B!Released(old) \in Seq(B!Binding) /\ Len(B!Released(old)) = Len(mBindings)
  BY <1>1, <1>2, <1>3, <1>4 DEF B!Ids
<1>6. B!Gone(old) \subseteq B!Ids
  BY DEF B!Gone
<1> QED
  BY <1>4, <1>5, <1>6 DEF B!Ids, B!Gone, B!Live, B!Hole

\* release touches the bindings of the old tree and what belongs to them.
LEMMA ReleaseKeeps ==
  ASSUME BInv, B!BindingsAssumption, NEW old \in SUBSET B!Ids, B!Release(old)
  PROVE  /\ BInv' /\ B!Live' \subseteq B!Live \ old
         /\ B!Ids' = B!Ids
         /\ B!WidgetsAgree => B!WidgetsAgree'
<1>1. /\ observers' = [n \in Names |-> observers[n] \ B!Gone(old)]
      /\ mDirty' = mDirty \ B!Gone(old)
      /\ mQueued' = mQueued \ B!Gone(old)
      /\ mBindings' = B!Released(old)
      /\ shown' = B!Unpainted(old, {})
      /\ UNCHANGED val
  BY DEF B!Release
<1>2. mBindings' \in Seq(B!Binding) /\ B!Ids' = B!Ids
  BY <1>1, ReleasedFacts DEF BInv, B!Ids
<1>3. B!Live' \subseteq B!Live \ old
  BY <1>1, <1>2, ReleasedFacts DEF BInv, B!Live
<1>4. \A i \in B!Live' : /\ i \in B!Live /\ i \in B!Ids \ old
                         /\ mBindings'[i] = mBindings[i]
  BY <1>1, <1>3, ReleasedFacts DEF BInv, B!Live, B!Gone
<1>5. B!TypeOK'
  BY <1>1, <1>2 DEF BInv, B!TypeOK, B!Unpainted
<1>6. B!QueueMirrorsDirty'
  BY <1>1 DEF BInv, B!QueueMirrorsDirty
<1>7. B!EdgesMatch'
  <2> SUFFICES ASSUME NEW i \in B!Ids, NEW n \in Names
               PROVE  /\ mBindings'[i].live /\ n \in mBindings'[i].reads => i \in observers'[n]
                      /\ i \in observers'[n] => n \in mBindings'[i].reads
    BY <1>2 DEF B!EdgesMatch
  <2>1. CASE i \in B!Gone(old)
    BY <1>1, <2>1, ReleasedFacts DEF BInv, B!Hole
  <2>2. CASE i \notin B!Gone(old)
    BY <1>1, <2>2, ReleasedFacts DEF BInv, B!EdgesMatch
  <2> QED
    BY <2>1, <2>2
<1>8. ReadsDeclared'
  BY <1>1, <1>4 DEF BInv, ReadsDeclared
<1>9. ASSUME B!WidgetsAgree PROVE B!WidgetsAgree'
  <2> SUFFICES ASSUME NEW i \in B!Live'
               PROVE  shown'[i] = B!Reading(mBindings'[i], val) \/ i \in mDirty'
    BY <1>1 DEF B!WidgetsAgree, B!Reading
  <2>1. shown'[i] = shown[i]
    BY <1>1, <1>4 DEF B!Unpainted
  <2>2. i \in mDirty => i \in mDirty'
    BY <1>1, <1>4 DEF B!Gone
  <2> QED
    BY <1>4, <1>9, <2>1, <2>2 DEF B!WidgetsAgree
<1> QED
  BY <1>2, <1>3, <1>5, <1>6, <1>7, <1>8, <1>9 DEF BInv

\* The binding table once the old tree is released and the new one built.
LEMMA GrownFacts ==
  ASSUME B!TypeOK, NEW L, B!IsLayout(L), NEW old \in SUBSET B!Ids
  PROVE  LET bs == B!Grown(B!Released(old), L)
         IN  /\ bs \in Seq(B!Binding)
             /\ DOMAIN bs = B!Ids \cup B!Fresh(L)
             /\ Len(bs) = Len(mBindings) + Len(L.binds)
             /\ \A i \in B!Ids : bs[i] = B!Released(old)[i]
             /\ \A i \in B!Fresh(L) : \E k \in 1 .. Len(L.binds) :
                  bs[i].reads = L.binds[k].reads
<1> DEFINE bs == B!Grown(B!Released(old), L)
           n == Len(mBindings) + Len(L.binds)
<1>1. /\ n \in Nat /\ B!Ids \cup B!Fresh(L) = 1 .. n
      /\ B!Ids \cap B!Fresh(L) = {}
      /\ \A i \in B!Fresh(L) : L.binds[i - Len(mBindings)] \in B!Template
      /\ \A i \in B!Fresh(L) : i - Len(mBindings) \in 1 .. Len(L.binds)
  BY FreshIds DEF B!Fresh
<1>2. \A i \in B!Ids : B!Released(old)[i] \in B!Binding
  BY ReleasedFacts DEF B!Ids
<1>3. \A i \in B!Fresh(L) : /\ bs[i].reads = L.binds[i - Len(mBindings)].reads
                            /\ bs[i] \in B!Binding
  BY <1>1 DEF B!Grown, B!Binding, B!Template
<1>4. \A i \in B!Ids : bs[i] = B!Released(old)[i]
  BY DEF B!Grown
<1>5. bs = [i \in 1 .. n |-> bs[i]]
  BY <1>1 DEF B!Grown
<1>6. \A i \in 1 .. n : bs[i] \in B!Binding
  BY <1>1, <1>2, <1>3, <1>4
<1>7. bs \in Seq(B!Binding) /\ Len(bs) = n /\ DOMAIN bs = 1 .. n
  <2> HIDE DEF bs, n
  <2> QED BY <1>1, <1>5, <1>6
<1> QED
  BY <1>1, <1>3, <1>4, <1>7

\* A swap leaves no binding of the old tree live, and every live one agreeing
\* with its signals.
LEMMA SwapKeeps ==
  ASSUME BInv, B!BindingsAssumption, NEW old \in SUBSET B!Ids,
         NEW L \in Layouts, B!Swap(old, L)
  PROVE  /\ BInv' /\ B!WidgetsAgree'
         /\ B!Live' \subseteq (B!Live \ old) \cup B!Fresh(L)
         /\ B!Fresh(L) \subseteq B!Ids'
<1> DEFINE bs == B!Grown(B!Released(old), L)
           w  == B!Declared(L)
<1>1. /\ val' = w
      /\ observers' = B!Edges(old, bs)
      /\ mDirty' = mDirty \ B!Gone(old)
      /\ mQueued' = mQueued \ B!Gone(old)
      /\ mBindings' = B!Applied(DOMAIN bs, bs, w)
      /\ shown' = B!Painted(DOMAIN bs, bs, w, B!Unpainted(old, B!Fresh(L)))
  BY DEF B!Swap
<1>2. B!IsLayout(L)
  BY DEF B!BindingsAssumption
<1>3. /\ w \in [Names -> B!Values \cup {NoSignal}]
      /\ \A n \in Names : val[n] # NoSignal => w[n] # NoSignal
      /\ \A k \in 1 .. Len(L.binds) : \A n \in L.binds[k].reads :
              n \in Names /\ w[n] # NoSignal
  BY <1>2, DeclaredFacts DEF BInv
<1>4. /\ bs \in Seq(B!Binding)
      /\ DOMAIN bs = B!Ids \cup B!Fresh(L)
      /\ \A i \in B!Ids : bs[i] = B!Released(old)[i]
      /\ \A i \in B!Fresh(L) : \E k \in 1 .. Len(L.binds) :
                  bs[i].reads = L.binds[k].reads
  BY <1>2, GrownFacts DEF BInv
<1> HIDE DEF bs, w
<1>5. /\ mBindings' \in Seq(B!Binding)
      /\ B!Ids' = DOMAIN bs
  <2>1. bs \in Seq(B!Binding)
    BY <1>4
  <2>2. DOMAIN bs = 1 .. Len(bs)
    BY <2>1
  <2> QED
    BY <1>1, <2>1, <2>2, AppliedShape DEF B!Ids
<1>6. \A i \in DOMAIN bs :
        /\ mBindings'[i].reads = bs[i].reads
        /\ mBindings'[i].live <=> bs[i].live /\ ~B!Refused(bs[i], w)
  BY <1>1, <1>4, AppliedFacts
<1>7. B!Live' \subseteq (B!Live \ old) \cup B!Fresh(L)
  BY <1>4, <1>5, <1>6, ReleasedFacts DEF BInv, B!Live
<1>8. \A i \in B!Live \ old : bs[i] = mBindings[i]
  BY <1>4, ReleasedFacts DEF BInv, B!Live, B!Gone
<1>9. B!TypeOK'
  <2>1. observers' \in [Names -> SUBSET B!Ids']
    BY <1>1, <1>4, <1>5 DEF BInv, B!TypeOK, B!Edges
  <2>2. DOMAIN shown' = B!Ids'
    BY <1>1, <1>5 DEF B!Painted
  <2> QED
    BY <1>1, <1>3, <1>4, <1>5, <2>1, <2>2 DEF BInv, B!TypeOK
<1>10. B!QueueMirrorsDirty'
  BY <1>1 DEF BInv, B!QueueMirrorsDirty
<1>11. B!EdgesMatch'
  <2> SUFFICES ASSUME NEW i \in DOMAIN bs, NEW n \in Names
               PROVE  /\ mBindings'[i].live /\ n \in mBindings'[i].reads => i \in observers'[n]
                      /\ i \in observers'[n] => n \in mBindings'[i].reads
    BY <1>5 DEF B!EdgesMatch
  <2>1. i \in observers'[n] <=> \/ i \in observers[n] \ B!Gone(old)
                                \/ i \in DOMAIN bs \ B!Ids /\ n \in bs[i].reads
    BY <1>1 DEF B!Edges
  <2>2. observers[n] \subseteq B!Ids
    BY DEF BInv, B!TypeOK
  <2>3. CASE i \in B!Gone(old)
    <3>1. i \in B!Ids /\ mBindings'[i].reads = {}
      BY <1>4, <1>6, <2>3, ReleasedFacts DEF BInv, B!Hole, B!Gone
    <3> QED
      BY <2>1, <2>3, <3>1
  <2>4. CASE i \in B!Ids \ B!Gone(old)
    BY <1>4, <1>6, <2>1, <2>4, ReleasedFacts DEF BInv, B!EdgesMatch
  <2>5. CASE i \notin B!Ids
    BY <1>6, <2>1, <2>2, <2>5
  <2> QED
    BY <2>3, <2>4, <2>5
<1>12. ReadsDeclared'
  <2> SUFFICES ASSUME NEW i \in B!Live', NEW n \in mBindings'[i].reads
               PROVE  w[n] # NoSignal
    BY <1>1 DEF ReadsDeclared
  <2>1. i \in DOMAIN bs /\ n \in bs[i].reads
    BY <1>5, <1>6 DEF B!Live
  <2>2. CASE i \in B!Live \ old
    <3>1. n \in Names /\ val[n] # NoSignal
      BY <1>8, <2>1, <2>2, BindingFacts DEF BInv, ReadsDeclared, B!Live
    <3> QED
      BY <1>3, <3>1
  <2>3. CASE i \in B!Fresh(L)
    BY <1>3, <1>4, <2>1, <2>3
  <2> QED
    BY <1>7, <2>2, <2>3
<1>13. B!WidgetsAgree'
  <2> SUFFICES ASSUME NEW i \in B!Live'
               PROVE  shown'[i] = B!Reading(mBindings'[i], w)
    BY <1>1 DEF B!WidgetsAgree, B!Reading
  <2>1. i \in DOMAIN bs /\ mBindings'[i].live
    BY <1>5 DEF B!Live
  <2>2. shown'[i] = B!Reading(bs[i], w)
    BY <1>1, <1>6, <2>1 DEF B!Painted
  <2> QED
    BY <1>6, <2>1, <2>2 DEF B!Reading
<1> QED
  BY <1>4, <1>5, <1>7, <1>9, <1>10, <1>11, <1>12, <1>13 DEF BInv
-----------------------------------------------------------------------------
(* The host                                                                *)

\* Files have stamps that only grow, and the host is never ahead of them.
StampsInOrder ==
  /\ source.stamp \in Nat /\ blueprint.stamp \in Nat
  /\ source.text \in Contents /\ blueprint.text \in Contents
  /\ mBlueprintStamp \in Nat /\ mBlueprintStamp <= blueprint.stamp

\* What the host holds between its looks at the blueprint.  In the middle of a
\* reload it holds what the blueprint says, unless a tool has just written it.
Follows ==
  /\ phase \in {"closed", "idle", "compile", "look", "read", "swap"}
  /\ read \in Contents
  /\ phase = "swap" /\ ~slipped => read = blueprint.text
  /\ phase \in {"idle", "compile", "look"} /\ mBlueprintStamp = blueprint.stamp
       /\ Builds(blueprint.text) /\ ~slipped => mInstance.layout = blueprint.text

\* The observers of the instance are the live bindings, and more only when one
\* of them was stopped.
Driven ==
  /\ mInstance.observers \subseteq B!Ids
  /\ OnlyTheTreeIsDriven

HInv == BInv /\ Driven /\ StampsInOrder

\* Where the parts of HInv start.
LEMMA HInvInit ==
  ASSUME LayoutHostAssumption, Init
  PROVE  HInv /\ Follows /\ B!WidgetsAgree
<1>1. /\ val = [n \in Names |-> NoSignal] /\ observers = [n \in Names |-> {}]
      /\ mDirty = {} /\ mQueued = {} /\ mBindings = <<>> /\ shown = <<>>
      /\ mInstance = NoInstance /\ phase = "closed" /\ read = Broken
      /\ mBlueprintStamp = 0
  BY DEF Init, B!Init
<1>2. B!Ids = {} /\ B!Live = {}
  BY <1>1 DEF B!Ids, B!Live
<1>3. mBindings \in Seq(B!Binding) /\ DOMAIN shown = {}
  BY <1>1
<1>4. BInv /\ B!WidgetsAgree
  BY <1>1, <1>2, <1>3 DEF BInv, B!TypeOK, B!QueueMirrorsDirty, B!EdgesMatch,
                          B!WidgetsAgree, ReadsDeclared
<1>5. Driven
  BY <1>1, <1>2 DEF Driven, OnlyTheTreeIsDriven, NoInstance
<1>6. StampsInOrder
  <2>1. PICK L \in Layouts : /\ source = [stamp |-> 1, text |-> L]
                            /\ blueprint \in {[stamp |-> 1, text |-> L],
                                             [stamp |-> 0, text |-> Broken]}
    BY DEF Init
  <2> QED
    BY <1>1, <2>1 DEF StampsInOrder, Contents
<1>7. Follows
  BY <1>1 DEF Follows, Contents
<1> QED
  BY <1>4, <1>5, <1>6, <1>7 DEF HInv

\* The steps that leave the bindings and the tree alone.
Quiet == EditSource \/ WriteBlueprint \/ CheckSource \/ CompileFails \/ Compile
           \/ LookAtBlueprint \/ Read

LEMMA QuietKeeps ==
  ASSUME LayoutHostAssumption, HInv, Quiet \/ UNCHANGED vars
  PROVE  HInv' /\ UNCHANGED bindings /\ (B!WidgetsAgree => B!WidgetsAgree')
<1>1. UNCHANGED bindings /\ UNCHANGED tree
  BY DEF Quiet, EditSource, WriteBlueprint, CheckSource, CompileFails, Compile,
         LookAtBlueprint, Read, vars
<1>2. BInv' /\ Driven' /\ (B!WidgetsAgree => B!WidgetsAgree')
  BY <1>1 DEF HInv, BInv, Driven, OnlyTheTreeIsDriven, bindings, tree, B!TypeOK,
              B!QueueMirrorsDirty, B!EdgesMatch, ReadsDeclared, B!WidgetsAgree,
              B!Live, B!Ids
<1>3. StampsInOrder'
  <2> USE DEF HInv, StampsInOrder
  <2>1. CASE EditSource \/ WriteBlueprint
    BY <2>1 DEF EditSource, WriteBlueprint, Touched, stamps
  <2>2. CASE Compile
    BY <2>2 DEF Compile, Touched, stamps
  <2>3. CASE CheckSource \/ CompileFails \/ LookAtBlueprint \/ Read \/ UNCHANGED vars
    BY <2>3 DEF CheckSource, CompileFails, LookAtBlueprint, Read, vars, stamps, files
  <2> QED
    BY <2>1, <2>2, <2>3 DEF Quiet
<1> QED
  BY <1>1, <1>2, <1>3 DEF HInv

\* Each step that calls Bindings calls it with the instance's own observers, so
\* what is released is what the tree held and nothing else stays live.
LEMMA HInvStep ==
  ASSUME LayoutHostAssumption, HInv, [Next]_vars
  PROVE  /\ HInv'
         /\ B!Next \/ UNCHANGED bindings
         /\ DefineOnce /\ B!WidgetsAgree => B!WidgetsAgree'
<1> USE DEF LayoutHostAssumption
<1>1. CASE Quiet \/ UNCHANGED vars
  BY <1>1, QuietKeeps
<1>2. CASE BuildsNothing \/ LoadInterface
  <2>1. B!Release(mInstance.observers) /\ mInstance' = NoInstance
    BY <1>2 DEF BuildsNothing, LoadInterface
  <2>2. mInstance.observers \in SUBSET B!Ids /\ B!Live \subseteq mInstance.observers
    BY DEF HInv, Driven, OnlyTheTreeIsDriven
  <2>3. /\ BInv' /\ B!Live' \subseteq B!Live \ mInstance.observers
        /\ B!WidgetsAgree => B!WidgetsAgree'
    BY <2>1, <2>2, ReleaseKeeps DEF HInv
  <2>4. Driven'
    BY <2>1, <2>2, <2>3 DEF Driven, OnlyTheTreeIsDriven, NoInstance
  <2>5. StampsInOrder'
    BY <1>2 DEF HInv, StampsInOrder, BuildsNothing, LoadInterface, files, stamps
  <2> QED
    BY <2>1, <2>2, <2>3, <2>4, <2>5 DEF HInv, B!Next
<1>3. CASE SwapTrees
  <2>1. /\ B!Swap(mInstance.observers, read) /\ read \in Layouts
        /\ mInstance' = [layout |-> read, observers |-> B!Fresh(read)]
    BY <1>3 DEF SwapTrees, Replaced, Builds
  <2>2. mInstance.observers \in SUBSET B!Ids /\ B!Live \subseteq mInstance.observers
    BY DEF HInv, Driven, OnlyTheTreeIsDriven
  <2>3. /\ BInv' /\ B!WidgetsAgree'
        /\ B!Live' \subseteq (B!Live \ mInstance.observers) \cup B!Fresh(read)
        /\ B!Fresh(read) \subseteq B!Ids'
    BY <2>1, <2>2, SwapKeeps DEF HInv
  <2>4. Driven'
    BY <2>1, <2>2, <2>3 DEF Driven, OnlyTheTreeIsDriven
  <2>5. StampsInOrder'
    BY <1>3 DEF HInv, StampsInOrder, SwapTrees, files
  <2> QED
    BY <2>1, <2>2, <2>3, <2>4, <2>5 DEF HInv, B!Next
<1>4. CASE Write
  <2>1. PICK n \in Names, v \in B!Values : B!Define(n, v) \/ B!Set(n, v)
    BY <1>4 DEF Write
  <2>2. BInv' /\ (DefineOnce /\ B!WidgetsAgree => B!WidgetsAgree')
    BY <2>1, DefineKeeps, SetKeeps DEF HInv
  <2>3. UNCHANGED mBindings /\ UNCHANGED tree
    BY <1>4, <2>1 DEF Write, B!Define, B!Set
  <2>4. Driven'
    BY <2>3 DEF HInv, Driven, OnlyTheTreeIsDriven, tree, B!Live, B!Ids
  <2>5. StampsInOrder'
    BY <1>4 DEF HInv, StampsInOrder, Write, files, stamps
  <2> QED
    BY <2>1, <2>2, <2>4, <2>5 DEF HInv, B!Next
<1>5. CASE ApplyDirty
  <2>1. B!ApplyDirty /\ UNCHANGED tree
    BY <1>5 DEF ApplyDirty
  <2>2. /\ BInv' /\ (B!WidgetsAgree => B!WidgetsAgree')
        /\ B!Ids' = B!Ids /\ B!Live' \subseteq B!Live
    BY <2>1, ApplyDirtyKeeps DEF HInv
  <2>3. Driven'
    BY <2>1, <2>2 DEF HInv, Driven, OnlyTheTreeIsDriven, tree
  <2>4. StampsInOrder'
    BY <1>5 DEF HInv, StampsInOrder, ApplyDirty, files, stamps
  <2> QED
    BY <2>1, <2>2, <2>3, <2>4 DEF HInv, B!Next
<1> QED
  BY <1>1, <1>2, <1>3, <1>4, <1>5 DEF Next, HostStep, Quiet

\* A stamp is taken for what was read, and for nothing else but what a tool wrote
\* between the two.
LEMMA FollowsStep ==
  ASSUME LayoutHostAssumption, HInv, Follows, [Next]_vars
  PROVE  Follows'
<1> USE DEF LayoutHostAssumption, HInv, StampsInOrder, Follows, Builds, Contents
<1>1. CASE EditSource
  BY <1>1 DEF EditSource, stamps, tree
<1>2. CASE WriteBlueprint
  <2>1. blueprint'.stamp = blueprint.stamp + 1 /\ UNCHANGED <<mBlueprintStamp, phase, read>>
    BY <1>2 DEF WriteBlueprint, Touched, stamps
  <2>2. mBlueprintStamp' # blueprint'.stamp
    BY <2>1
  <2>3. ~slipped' => phase # "swap"
    BY <1>2, Zenon DEF WriteBlueprint
  <2> QED
    BY <2>1, <2>2, <2>3
<1>3. CASE CheckSource
  BY <1>3 DEF CheckSource, files, stamps, tree
<1>4. CASE CompileFails
  BY <1>4 DEF CompileFails, files, stamps, tree
<1>5. CASE Compile
  BY <1>5 DEF Compile, Touched, stamps, tree
<1>6. CASE LookAtBlueprint
  BY <1>6 DEF LookAtBlueprint, files, stamps, tree
<1>7. CASE Read
  BY <1>7 DEF Read, Return, files, stamps, tree
<1>8. CASE BuildsNothing
  BY <1>8 DEF BuildsNothing, Return, files, stamps
<1>9. CASE SwapTrees
  BY <1>9 DEF SwapTrees, Replaced, Return, files, stamps
<1>10. CASE LoadInterface
  BY <1>10 DEF LoadInterface, files
<1>11. CASE Write \/ ApplyDirty
  BY <1>11 DEF Write, ApplyDirty, files, stamps, tree
<1>12. CASE UNCHANGED vars
  BY <1>12 DEF vars, files, stamps, tree
<1> QED
  BY <1>1, <1>2, <1>3, <1>4, <1>5, <1>6, <1>7, <1>8, <1>9, <1>10, <1>11, <1>12
  DEF Next, HostStep

LEMMA HInvHolds == LayoutHostAssumption /\ Spec => []HInv
<1>1. LayoutHostAssumption /\ Init => HInv
  BY HInvInit
<1>2. LayoutHostAssumption /\ HInv /\ [Next]_vars => HInv'
  BY HInvStep
<1> QED
  BY <1>1, <1>2, LayoutHostAssumption, PTL DEF Spec
-----------------------------------------------------------------------------
(* Theorems                                                                *)

\* The host uses Bindings as it is: whatever the files do, signals, observers
\* and bindings change only as the calls of Bindings change them.
THEOREM HostDrivesBindings == Spec => B!Spec
<1>1. Init => B!Init
  BY DEF Init
<1>2. HInv /\ [Next]_vars => [B!Next]_(B!vars)
  BY HInvStep, LayoutHostAssumption DEF bindings, B!vars
<1> QED
  BY <1>1, <1>2, HInvHolds, LayoutHostAssumption, PTL DEF Spec, B!Spec

\* While the application defines a signal once, no write, reload or definition
\* leaves a live widget behind its signals and unqueued.
THEOREM WidgetsNeverLeftBehind == DefineOnce => (Spec => []WidgetsAgree)
<1> SUFFICES ASSUME DefineOnce PROVE Spec => []WidgetsAgree
  OBVIOUS
<1>1. Init => B!WidgetsAgree
  BY HInvInit, LayoutHostAssumption
<1>2. HInv /\ B!WidgetsAgree /\ [Next]_vars => B!WidgetsAgree'
  BY HInvStep, LayoutHostAssumption
<1>3. B!WidgetsAgree => WidgetsAgree
  BY DEF WidgetsAgree
<1> QED
  BY <1>1, <1>2, <1>3, HInvHolds, LayoutHostAssumption, PTL DEF Spec

\* The dirty list and its marks agree, and the graph has the edges of the live
\* bindings, whatever is defined, written, reloaded and released.
THEOREM GraphIsSound == Spec => [](QueueMirrorsDirty /\ EdgesMatch)
<1>1. HInv => QueueMirrorsDirty /\ EdgesMatch
  BY DEF HInv, BInv, QueueMirrorsDirty, EdgesMatch
<1> QED
  BY <1>1, HInvHolds, LayoutHostAssumption, PTL

\* What the host itself keeps has its type: what it watches, what it read, and
\* whose observers it holds (LayoutHost's and LayoutInstance's members).  Roots
\* are counted against the loads that can have left them.
HostTypes ==
  /\ source.stamp \in Nat /\ source.text \in Contents
  /\ blueprint.stamp \in Nat /\ blueprint.text \in Contents
  /\ mWatched \in BOOLEAN /\ mSourceStamp \in Nat /\ mBlueprintStamp \in Nat
  /\ mInstance.layout \in Layouts \cup {NoTree}
  /\ phase \in {"closed", "idle", "compile", "look", "read", "swap"}
  /\ read \in Contents
  /\ recompiled \in BOOLEAN /\ opening \in BOOLEAN /\ slipped \in BOOLEAN

Counted ==
  /\ roots \in Nat /\ opens \in Nat /\ opens <= MaxOpens
  /\ phase = "closed" => roots = 0 /\ mInstance.layout = NoTree
  /\ mInstance.layout = NoTree /\ phase # "closed" => roots + 1 <= opens
  /\ mInstance.layout # NoTree => 1 <= roots /\ roots <= opens

LEMMA HostTypesInit == LayoutHostAssumption /\ Init => HostTypes /\ Counted
<1> SUFFICES ASSUME LayoutHostAssumption, Init PROVE HostTypes /\ Counted
  OBVIOUS
<1>1. PICK L \in Layouts \ {Empty} :
        /\ source = [stamp |-> 1, text |-> L]
        /\ blueprint \in {[stamp |-> 1, text |-> L], [stamp |-> 0, text |-> Broken]}
  BY DEF Init
<1>2. mInstance.layout = NoTree
  BY DEF Init, NoInstance
<1>3. L \in Contents /\ Broken \in Contents
  BY DEF Contents
<1>4. /\ source.stamp \in Nat /\ source.text \in Contents
      /\ blueprint.stamp \in Nat /\ blueprint.text \in Contents
  BY <1>1, <1>3
<1>5. MaxOpens \in Nat
  BY DEF LayoutHostAssumption
<1>6. /\ mWatched = FALSE /\ mSourceStamp = 0 /\ mBlueprintStamp = 0
      /\ roots = 0 /\ phase = "closed" /\ read = Broken
      /\ recompiled = FALSE /\ opening = FALSE /\ opens = 0 /\ slipped = FALSE
  BY DEF Init
<1>7. HostTypes
  BY <1>2, <1>3, <1>4, <1>6 DEF HostTypes
<1>8. Counted
  BY <1>2, <1>5, <1>6 DEF Counted
<1> QED
  BY <1>7, <1>8

LEMMA HostTypesStep ==
  LayoutHostAssumption /\ HostTypes /\ Counted /\ [Next]_vars => HostTypes' /\ Counted'
<1> SUFFICES ASSUME LayoutHostAssumption, HostTypes, Counted, [Next]_vars
             PROVE  HostTypes' /\ Counted'
  OBVIOUS
<1>a. NoTree \notin Layouts /\ MaxOpens \in Nat
  BY DEF LayoutHostAssumption
<1> USE <1>a DEF HostTypes, Counted, Builds, Contents, files, stamps, tree, ours, Between
<1>1. CASE EditSource
  BY <1>1 DEF EditSource, Touched
<1>2. CASE WriteBlueprint
  BY <1>2 DEF WriteBlueprint, Touched
<1>3. CASE CheckSource \/ CompileFails \/ LookAtBlueprint
  BY <1>3 DEF CheckSource, CompileFails, LookAtBlueprint
<1>4. CASE Compile
  BY <1>4 DEF Compile, Touched
<1>5. CASE Read
  <2>1. UNCHANGED <<files, stamps, tree, ours>> /\ phase = "read"
    BY <1>5 DEF Read
  <2>2. /\ read' \in Contents /\ phase' \in {"idle", "swap"}
        /\ recompiled' \in BOOLEAN /\ opening' \in BOOLEAN /\ slipped' \in BOOLEAN
    BY <1>5 DEF Read, Return
  <2> QED
    BY <2>1, <2>2
<1>6. CASE BuildsNothing
  <2>1. /\ UNCHANGED <<files, stamps, ours, slipped>> /\ phase = "swap" /\ mInstance'.layout = NoTree
        /\ read' \in Contents
        /\ phase' = "idle" /\ opening' = FALSE /\ recompiled' = FALSE
    BY <1>6 DEF BuildsNothing, Return, NoInstance
  <2>2. roots' = IF mInstance.layout = NoTree THEN roots ELSE roots - 1
    BY <1>6 DEF BuildsNothing
  <2>3. roots' \in Nat /\ roots' + 1 <= opens
    BY <2>1, <2>2
  <2> QED
    BY <2>1, <2>3
<1>7. CASE SwapTrees
  <2>1. /\ UNCHANGED <<files, ours, slipped>> /\ phase = "swap"
        /\ mInstance'.layout = read /\ read \in Layouts
        /\ roots' = IF mInstance.layout = NoTree THEN roots + 1 ELSE roots
        /\ read' \in Contents
        /\ phase' = "idle" /\ opening' = FALSE /\ recompiled' = FALSE
    BY <1>7 DEF SwapTrees, Replaced, Return
  <2>2. mWatched' \in BOOLEAN /\ mSourceStamp' \in Nat /\ mBlueprintStamp' \in Nat
    BY <1>7 DEF SwapTrees
  <2>3. roots' \in Nat /\ 1 <= roots' /\ roots' <= opens
    BY <2>1
  <2>4. mInstance'.layout # NoTree
    BY <2>1
  <2> QED
    BY <2>1, <2>2, <2>3, <2>4
<1>8. CASE LoadInterface
  <2>1. /\ UNCHANGED <<files, roots, read, recompiled, slipped>> /\ mInstance'.layout = NoTree
        /\ mWatched' = FALSE /\ mSourceStamp' = 0 /\ mBlueprintStamp' = 0
        /\ phase' = "read" /\ opening' = TRUE
        /\ opens < MaxOpens /\ opens' = opens + 1
    BY <1>8 DEF LoadInterface, NoInstance
  <2>2. opens' \in Nat /\ opens' <= MaxOpens /\ roots + 1 <= opens'
    BY <2>1
  <2> QED
    BY <2>1, <2>2
<1>9. CASE Write \/ ApplyDirty \/ UNCHANGED vars
  BY <1>9 DEF Write, ApplyDirty, vars
<1> QED
  BY <1>1, <1>2, <1>3, <1>4, <1>5, <1>6, <1>7, <1>8, <1>9 DEF Next, HostStep

\* The graph, its queue, the tree and the types of all of them, together: what
\* reloads, releases and writes in any order leave true.
THEOREM GraphAgreesAlways == Spec => []GraphAgrees
<1>1. Init => HostTypes /\ Counted
  BY HostTypesInit, LayoutHostAssumption
<1>2. HostTypes /\ Counted /\ [Next]_vars => HostTypes' /\ Counted'
  BY HostTypesStep, LayoutHostAssumption
<1>3. HInv /\ HostTypes /\ Counted => GraphAgrees
  BY LayoutHostAssumption DEF LayoutHostAssumption, Counted, HInv, BInv, Driven, HostTypes, TypeOK, QueueMirrorsDirty, EdgesMatch, GraphAgrees
<1> QED
  BY <1>1, <1>2, <1>3, HInvHolds, LayoutHostAssumption, PTL DEF Spec

\* No binding of a tree that was taken down is ever live.
THEOREM OnlyTheTree == Spec => []OnlyTheTreeIsDriven
<1>1. HInv => OnlyTheTreeIsDriven
  BY DEF HInv, Driven
<1> QED
  BY <1>1, HInvHolds, LayoutHostAssumption, PTL

\* Whatever the editor and the tools write, and whenever: a blueprint whose stamp
\* the host has taken is the one on screen, but for one written between the
\* reading and the stamp of a reload, until the next write or reload.
THEOREM StampsAreHonest == Spec => []SeenIsShown
<1>1. Init => Follows
  BY HInvInit, LayoutHostAssumption
<1>2. HInv /\ Follows /\ [Next]_vars => Follows'
  BY FollowsStep, LayoutHostAssumption
<1>3. Follows => SeenIsShown
  BY DEF Follows, SeenIsShown
<1> QED
  BY <1>1, <1>2, <1>3, HInvHolds, LayoutHostAssumption, PTL DEF Spec

\* What reload carries from the blueprint to the swap is a layout: text that does
\* not parse ends the reload where it is read.
CarriesALayout == phase = "swap" => read # Broken

LEMMA CarriesStep == HostTypes /\ CarriesALayout /\ [Next]_vars => CarriesALayout'
<1> SUFFICES ASSUME HostTypes, CarriesALayout, [Next]_vars PROVE CarriesALayout'
  OBVIOUS
<1> USE DEF CarriesALayout, Return
<1>1. CASE EditSource \/ WriteBlueprint \/ Write \/ ApplyDirty \/ UNCHANGED vars
  BY <1>1 DEF EditSource, WriteBlueprint, Write, ApplyDirty, vars
<1>2. CASE CheckSource \/ CompileFails \/ Compile \/ LookAtBlueprint
  BY <1>2 DEF CheckSource, CompileFails, Compile, LookAtBlueprint
<1>3. CASE Read
  BY <1>3 DEF Read
<1>4. CASE BuildsNothing \/ SwapTrees \/ LoadInterface
  BY <1>4 DEF BuildsNothing, SwapTrees, LoadInterface
<1> QED
  BY <1>1, <1>2, <1>3, <1>4 DEF Next, HostStep

\* Only a layout that builds nothing, or rda_load_interface, takes the tree down.
LEMMA WhatTakesATreeDown ==
  ASSUME LayoutHostAssumption, HostTypes, CarriesALayout, [Next]_vars,
         mInstance.layout # NoTree, mInstance'.layout = NoTree
  PROVE  read = Empty \/ opening'
<1>1. mInstance' # mInstance
  OBVIOUS
<1>2. CASE BuildsNothing
  BY <1>2 DEF BuildsNothing, Builds, CarriesALayout, HostTypes, Contents
<1>3. CASE SwapTrees
  <2>1. mInstance'.layout = read /\ read \in Layouts
    BY <1>3 DEF SwapTrees, Replaced, Builds
  <2> QED
    BY <2>1 DEF LayoutHostAssumption
<1>4. CASE LoadInterface
  BY <1>4 DEF LoadInterface
<1> QED
  BY <1>1, <1>2, <1>3, <1>4 DEF Next, HostStep, EditSource, WriteBlueprint, Write, ApplyDirty, CheckSource,
     CompileFails, Compile, LookAtBlueprint, Read, vars, tree

\* An edit that does not compile and a blueprint that does not parse leave the
\* interface standing, for any layouts and any number of edits.
THEOREM BrokenEditsNeverCost == Spec => BrokenEditsCostNothing
<1>1. Init => HostTypes /\ Counted /\ CarriesALayout
  BY HostTypesInit, LayoutHostAssumption DEF Init, CarriesALayout
<1>2. HostTypes /\ Counted /\ CarriesALayout /\ [Next]_vars
        => HostTypes' /\ Counted' /\ CarriesALayout'
  BY HostTypesStep, CarriesStep, LayoutHostAssumption
<1>3. HostTypes /\ CarriesALayout /\ [Next]_vars
        => [mInstance.layout # NoTree /\ mInstance'.layout = NoTree
              => read = Empty \/ opening']_vars
  BY WhatTakesATreeDown, LayoutHostAssumption
<1> QED
  BY <1>1, <1>2, <1>3, PTL DEF Spec, BrokenEditsCostNothing
=============================================================================
