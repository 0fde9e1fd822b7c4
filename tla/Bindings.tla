------------------------------ MODULE Bindings ------------------------------
(***************************************************************************)
(* Signals and the bindings that show them: the signal table with its      *)
(* dependency graph and dirty list (Core/Signals.cpp), the binding runtime  *)
(* that drains it once a frame (Layout/Bindings.cpp), and what building or  *)
(* releasing a tree of widgets does to both (instantiate and               *)
(* LayoutInstance::release in Layout/LayoutLoader.cpp).                    *)
(*                                                                         *)
(* All of it runs on the loop thread, so each call is one step.  What a    *)
(* bound property shows is abstracted to the signal values its expression  *)
(* was last evaluated with.                                                *)
(***************************************************************************)
EXTENDS Naturals, Sequences

CONSTANTS
  Names,        \* the names a signal can be given
  Numbers,      \* the values of a signal of type number (bool is alike)
  Texts,        \* the values of a signal of type text
  Unsizable,    \* texts that SizeSpec::parse refuses
  Zero,         \* what an undeclared signal starts at
  NoSignal,     \* the value of a name that nothing has declared
  Layouts,      \* what a blueprint asks for: signals to define, bindings to make
  MaxBindings,  \* bound: bindings made in one run of the program
  DefineOnce    \* TRUE: the application defines only names not yet declared

VARIABLES
  val,        \* Signal::number and Signal::text, by name
  observers,  \* Signal::observers, by name
  mDirty,     \* observers to evaluate again
  mQueued,    \* membership test for mDirty
  mBindings,  \* BindingRuntime::mBindings, indexed by observer id
  shown       \* what each binding's widget shows: the values last evaluated

vars == <<val, observers, mDirty, mQueued, mBindings, shown>>

Values   == Numbers \cup Texts
Binding  == [live : BOOLEAN, reads : SUBSET Names, sized : BOOLEAN]
Template == [reads : SUBSET Names, sized : BOOLEAN]
Hole     == [live |-> FALSE, reads |-> {}, sized |-> FALSE]
Ids      == 1 .. Len(mBindings)
Live     == {i \in Ids : mBindings[i].live}

IsLayout(L) ==
  /\ L.defs \in UNION {[D -> Values] : D \in SUBSET Names}
  /\ L.binds \in Seq(Template)

(* What LayoutHost assumes of its constants for this module. *)
BindingsAssumption ==
  /\ Numbers \cap Texts = {} /\ NoSignal \notin Values
  /\ Zero \in Numbers /\ Unsizable \subseteq Texts
  /\ \A L \in Layouts : IsLayout(L)
  /\ MaxBindings \in Nat /\ DefineOnce \in BOOLEAN

Init ==
  /\ val = [n \in Names |-> NoSignal]
  /\ observers = [n \in Names |-> {}]
  /\ mDirty = {}
  /\ mQueued = {}
  /\ mBindings = <<>>
  /\ shown = <<>>

-----------------------------------------------------------------------------
(* The signal table                                                        *)

SameType(u, v) == (u \in Numbers) <=> (v \in Numbers)

\* Signals::define: creates the signal, or overwrites the one of the same type
\* that is there.  Nobody is notified.
Defined(u, v) == IF u = NoSignal \/ SameType(u, v) THEN v ELSE u

Define(n, v) ==
  /\ DefineOnce => val[n] = NoSignal
  /\ val' = [val EXCEPT ![n] = Defined(@, v)]
  /\ UNCHANGED <<observers, mDirty, mQueued, mBindings, shown>>

\* Mutant: markDirty queues the first of the observers only.
SetQueuesOne(n, v) ==
  /\ val[n] \notin {NoSignal, v} /\ SameType(val[n], v)
  /\ val' = [val EXCEPT ![n] = v]
  /\ \E i \in observers[n] \cup {0} :
       /\ i = 0 => observers[n] = {}
       /\ mDirty' = mDirty \cup ({i} \ ({0} \cup mQueued))
       /\ mQueued' = mQueued \cup ({i} \ {0})
  /\ UNCHANGED <<observers, mBindings, shown>>

\* Signals::set and markDirty.  A name not declared, a value of another type
\* and the value already there change nothing.
Set(n, v) ==
  /\ val[n] \notin {NoSignal, v} /\ SameType(val[n], v)
  /\ val' = [val EXCEPT ![n] = v]
  /\ mDirty' = mDirty \cup (observers[n] \ mQueued)
  /\ mQueued' = mQueued \cup observers[n]
  /\ UNCHANGED <<observers, mBindings, shown>>

-----------------------------------------------------------------------------
(* Evaluation                                                              *)

\* The expression of b over the values w, as far as its widget can tell.
Reading(b, w) == [n \in b.reads |-> w[n]]

\* applyBoundValue refuses a size that is text and does not parse.
Refused(b, w) == b.sized /\ \E n \in b.reads : w[n] \in Unsizable

\* applyOne on each observer in S: a live binding shows its value or, when its
\* widget refuses it, is stopped.
Applied(S, bs, w) ==
  [i \in DOMAIN bs |->
     IF i \in S /\ bs[i].live /\ Refused(bs[i], w)
       THEN [bs[i] EXCEPT !.live = FALSE] ELSE bs[i]]

Painted(S, bs, w, old) ==
  [i \in DOMAIN bs |->
     IF i \in S /\ bs[i].live /\ ~Refused(bs[i], w)
       THEN Reading(bs[i], w) ELSE old[i]]

\* BindingRuntime::applyDirty, once a frame before the interface is walked.
ApplyDirty ==
  /\ mDirty # {}
  /\ mDirty' = {}
  /\ mQueued' = mQueued \ mDirty
  /\ mBindings' = Applied(mDirty, mBindings, val)
  /\ shown' = Painted(mDirty, mBindings, val, shown)
  /\ UNCHANGED <<val, observers>>

-----------------------------------------------------------------------------
(* Trees of widgets                                                        *)

\* BindingRuntime::remove for every observer of an instance; a binding that was
\* stopped returns early, and keeps its edges and its place.
Gone(old) == {i \in old : mBindings[i].live}

\* Mutant: an instance drops its list of observers without stopping them.
ReleasedRunning(old) == mBindings

Released(old) ==
  [i \in Ids |-> IF i \in Gone(old) THEN Hole ELSE mBindings[i]]

\* The widgets of old are gone, and those of fresh show nothing yet.
Unpainted(old, fresh) ==
  [i \in Ids \cup fresh |-> IF i \in Ids \ old THEN shown[i] ELSE <<>>]

\* LayoutInstance::release without anything to put in its place.
Release(old) ==
  /\ observers' = [n \in Names |-> observers[n] \ Gone(old)]
  /\ mDirty' = mDirty \ Gone(old)
  /\ mQueued' = mQueued \ Gone(old)
  /\ mBindings' = Released(old)
  /\ shown' = Unpainted(old, {})
  /\ UNCHANGED val

\* The ids BindingRuntime::add will hand out to the bindings of L.
Fresh(L) == Len(mBindings) + 1 .. Len(mBindings) + Len(L.binds)

\* The binding table once add() has run for every binding of L.
Grown(bs, L) ==
  [i \in Ids \cup Fresh(L) |->
     IF i \in Ids THEN bs[i]
     ELSE LET t == L.binds[i - Len(mBindings)]
          IN  [live |-> TRUE, reads |-> t.reads, sized |-> t.sized]]

\* The layout's own signals are defined, then every name its programs read.
Declared(L) ==
  LET own == [n \in Names |-> IF n \in DOMAIN L.defs
                                THEN Defined(val[n], L.defs[n]) ELSE val[n]]
      read == UNION {L.binds[k].reads : k \in 1 .. Len(L.binds)}
  IN  [n \in Names |-> IF own[n] = NoSignal /\ n \in read THEN Zero ELSE own[n]]

\* The graph once the old bindings are forgotten and the new ones observe.
Edges(old, bs) ==
  [n \in Names |-> (observers[n] \ Gone(old))
                      \cup {i \in DOMAIN bs \ Ids : n \in bs[i].reads}]

\* One tree for another: release the old, define what the layout declares,
\* resolve and observe what its bindings read, then applyAll.
Swap(old, L) ==
  LET bs == Grown(Released(old), L)
  IN  /\ Len(mBindings) + Len(L.binds) <= MaxBindings
      /\ val' = Declared(L)
      /\ observers' = Edges(old, bs)
      /\ mDirty' = mDirty \ Gone(old)
      /\ mQueued' = mQueued \ Gone(old)
      /\ mBindings' = Applied(DOMAIN bs, bs, Declared(L))
      /\ shown' = Painted(DOMAIN bs, bs, Declared(L), Unpainted(old, Fresh(L)))

Next ==
  \/ \E n \in Names, v \in Values : Define(n, v) \/ Set(n, v)
  \/ ApplyDirty
  \/ \E old \in SUBSET Ids :
       Release(old) \/ \E L \in Layouts : Swap(old, L)

Spec == Init /\ [][Next]_vars
-----------------------------------------------------------------------------
(* Properties                                                              *)

TypeOK ==
  /\ val \in [Names -> Values \cup {NoSignal}]
  /\ observers \in [Names -> SUBSET Ids]
  /\ mDirty \subseteq Ids /\ mQueued \subseteq Ids
  /\ mBindings \in Seq(Binding)
  /\ DOMAIN shown = Ids

\* Whatever a live binding's widget shows is what its expression says now, or
\* the binding is queued to be evaluated before the next walk: no write, reload
\* or definition is lost between markDirty, applyDirty and forget.
WidgetsAgree ==
  \A i \in Live : shown[i] = Reading(mBindings[i], val) \/ i \in mDirty

\* The marks that keep an observer from being queued twice never outlive its
\* place in the queue: a stray mark would silence the binding for good
\* (mQueued, kept by markDirty, clearDirty and forget).
QueueMirrorsDirty == mQueued = mDirty

\* The graph and the table agree: a live binding is notified by each signal it
\* reads, a hole by none, so nothing is evaluated for a widget that has gone.
EdgesMatch ==
  \A i \in Ids, n \in Names :
    /\ mBindings[i].live /\ n \in mBindings[i].reads => i \in observers[n]
    /\ i \in observers[n] => n \in mBindings[i].reads
=============================================================================
