----------------------------- MODULE LayoutHost -----------------------------
(***************************************************************************)
(* An interface that reloads when its files change: LayoutHost             *)
(* (Layout/LayoutHost.cpp) over the signals and bindings of Bindings,      *)
(* driven once an update by rda_init's frame wrapper, opened and reopened  *)
(* by rda_load_interface (RendeerC.cpp).                                   *)
(*                                                                         *)
(* The host runs on the loop thread; the files it watches are written by   *)
(* an editor and by tools, at any moment between two looks at a file.  The *)
(* source and the files it imports are one file here, and timestamps never *)
(* repeat.                                                                 *)
(***************************************************************************)
EXTENDS Naturals, Sequences

CONSTANTS
  Names, Numbers, Texts, Unsizable, Zero, NoSignal, Layouts, MaxBindings, DefineOnce,
  Broken,           \* text that does not compile, bytes that do not parse
  NoTree,           \* nothing on screen
  Empty,            \* a layout that builds no widget
  MaxEdits,         \* bound: edits of the source
  MaxToolWrites,    \* bound: blueprints written by another program
  MaxWrites,        \* bound: signals written by the application
  MaxOpens          \* bound: calls of rda_load_interface

VARIABLES
  val, observers, mDirty, mQueued, mBindings, shown,        \* Bindings
  source,           \* the .tsx on disk: its timestamp and what it compiles to
  blueprint,        \* the .rdab on disk, likewise
  mWatched,         \* whether the source is in the list of files to watch
  mSourceStamp, mBlueprintStamp,
  mInstance,        \* the layout it built, and its observers
  roots,            \* how many interfaces stand under the parent
  phase,            \* where the host is in open, reloadIfChanged or reload
  read,             \* what reload has read from the blueprint, while it holds it
  recompiled,       \* reloadIfChanged has just written the blueprint
  opening,          \* reload was called from open
  slipped,          \* history: another program has written the blueprint after
                    \* the host read it and before the host stamped it
  edits, toolWrites, writes, opens

B == INSTANCE Bindings

ASSUME LayoutHostAssumption ==
  /\ B!BindingsAssumption
  /\ Empty \in Layouts /\ Broken \notin Layouts /\ NoTree \notin Layouts
  /\ MaxEdits \in Nat /\ MaxToolWrites \in Nat /\ MaxWrites \in Nat /\ MaxOpens \in Nat

bindings == <<val, observers, mDirty, mQueued, mBindings, shown>>
files    == <<source, blueprint, edits, toolWrites>>
stamps   == <<mWatched, mSourceStamp, mBlueprintStamp>>
tree     == <<mInstance, roots>>
ours     == <<writes, opens>>
vars     == <<bindings, files, stamps, tree, phase, read, recompiled, opening, slipped, ours>>

Contents == Layouts \cup {Broken}
Builds(text) == text \in Layouts \ {Empty}
NoInstance == [layout |-> NoTree, observers |-> {}]

Init ==
  /\ B!Init
  /\ \E L \in Layouts \ {Empty} : source = [stamp |-> 1, text |-> L]
                     /\ blueprint \in {[stamp |-> 1, text |-> L], [stamp |-> 0, text |-> Broken]}
  /\ mWatched = FALSE /\ mSourceStamp = 0 /\ mBlueprintStamp = 0
  /\ mInstance = NoInstance
  /\ roots = 0
  /\ phase = "closed"
  /\ read = Broken
  /\ recompiled = FALSE /\ opening = FALSE /\ slipped = FALSE
  /\ edits = 0 /\ toolWrites = 0 /\ writes = 0 /\ opens = 0

-----------------------------------------------------------------------------
(* The other programs: an editor, and tools that write blueprints          *)

Touched(file, text) == [stamp |-> file.stamp + 1, text |-> text]

EditSource ==
  /\ edits < MaxEdits
  /\ \E text \in Contents : source' = Touched(source, text)
  /\ edits' = edits + 1
  /\ UNCHANGED <<bindings, blueprint, toolWrites, stamps, tree, phase, read, recompiled, opening, ours, slipped>>

WriteBlueprint ==
  /\ toolWrites < MaxToolWrites
  /\ \E text \in Contents : blueprint' = Touched(blueprint, text)
  /\ toolWrites' = toolWrites + 1
  /\ slipped' = (slipped \/ phase = "swap")
  /\ UNCHANGED <<bindings, source, edits, stamps, tree, phase, read, recompiled, opening, ours>>

-----------------------------------------------------------------------------
(* reloadIfChanged, once an update                                         *)

\* Nothing is on its way in the host: the loop is elsewhere in its frame.
Between == phase \in {"closed", "idle"}

\* sourceChanged: the stamp is taken before the source is read.
CheckSource ==
  /\ phase = "idle"
  /\ IF mWatched /\ source.stamp # mSourceStamp
       THEN mSourceStamp' = source.stamp /\ phase' = "compile"
       ELSE phase' = "look" /\ UNCHANGED mSourceStamp
  /\ UNCHANGED <<bindings, files, mWatched, mBlueprintStamp, tree, read, recompiled, opening, ours, slipped>>

\* compileToFile: a source that does not compile leaves the blueprint alone.
CompileFails ==
  /\ phase = "compile" /\ source.text = Broken
  /\ phase' = "idle"
  /\ UNCHANGED <<bindings, files, stamps, tree, read, recompiled, opening, ours, slipped>>

Compile ==
  /\ phase = "compile" /\ source.text # Broken
  /\ blueprint' = Touched(blueprint, source.text)
  /\ recompiled' = TRUE
  /\ phase' = "look"
  /\ UNCHANGED <<bindings, source, edits, toolWrites, stamps, tree, read, opening, ours, slipped>>

\* Mutant: the stamp is taken and the blueprint not read when it was not compiled here.
LookAtOwnBlueprint ==
  /\ phase = "look"
  /\ mBlueprintStamp' = blueprint.stamp
  /\ phase' = IF recompiled THEN "read" ELSE "idle"
  /\ UNCHANGED <<bindings, files, mWatched, mSourceStamp, tree, read, recompiled, opening, ours, slipped>>

\* blueprintChanged, whose stamp is taken before the blueprint is read.
LookAtBlueprint ==
  /\ phase = "look"
  /\ mBlueprintStamp' = blueprint.stamp
  /\ phase' = IF recompiled \/ blueprint.stamp # mBlueprintStamp THEN "read" ELSE "idle"
  /\ UNCHANGED <<bindings, files, mWatched, mSourceStamp, tree, read, recompiled, opening, ours, slipped>>

-----------------------------------------------------------------------------
(* reload, from reloadIfChanged and from open                              *)

\* reload returns, from reloadIfChanged or from open.
Return == phase' = "idle" /\ opening' = FALSE /\ recompiled' = FALSE

\* Mutant: a blueprint that does not parse is found out after the old tree went.
ReadUnchecked ==
  /\ phase = "read"
  /\ read' = blueprint.text
  /\ phase' = "swap" /\ UNCHANGED opening
  /\ slipped' = FALSE
  /\ UNCHANGED <<bindings, files, stamps, tree, recompiled, ours>>

\* loadBlueprintFile, while the old interface still stands.
Read ==
  /\ phase = "read"
  /\ IF blueprint.text = Broken
       THEN Return /\ UNCHANGED read
       ELSE read' = blueprint.text /\ phase' = "swap" /\ UNCHANGED <<recompiled, opening>>
  /\ slipped' = FALSE
  /\ UNCHANGED <<bindings, files, stamps, tree, ours>>

\* The old tree is taken down and the new one built.
Replaced ==
  /\ B!Swap(mInstance.observers, read)
  /\ mInstance' = [layout |-> read, observers |-> B!Fresh(read)]
  /\ roots' = IF mInstance.layout = NoTree THEN roots + 1 ELSE roots

\* "The layout built nothing": the old tree is gone, and reload returns early.
BuildsNothing ==
  /\ phase = "swap" /\ ~Builds(read)
  /\ B!Release(mInstance.observers)
  /\ mInstance' = NoInstance
  /\ roots' = IF mInstance.layout = NoTree THEN roots ELSE roots - 1
  /\ Return /\ read' = Broken
  /\ UNCHANGED <<files, stamps, ours, slipped>>

\* The rest of reload, and of open: rediscover and stampAll.
SwapTrees ==
  /\ phase = "swap" /\ Builds(read)
  /\ Replaced
  /\ mBlueprintStamp' = blueprint.stamp
  /\ IF opening THEN mWatched' = TRUE /\ mSourceStamp' = source.stamp
                ELSE UNCHANGED <<mWatched, mSourceStamp>>
  /\ Return /\ read' = Broken
  /\ UNCHANGED <<files, ours, slipped>>

-----------------------------------------------------------------------------
(* The application: rda_load_interface, and its signals                    *)

\* A fresh LayoutHost takes the old one's place, which releases its bindings and
\* leaves its widgets where they stand; then open.
LoadInterface ==
  /\ Between /\ opens < MaxOpens
  /\ B!Release(mInstance.observers)
  /\ mInstance' = NoInstance
  /\ mWatched' = FALSE /\ mSourceStamp' = 0 /\ mBlueprintStamp' = 0
  /\ phase' = "read" /\ opening' = TRUE
  /\ opens' = opens + 1
  /\ UNCHANGED <<files, roots, read, recompiled, writes, slipped>>

Write ==
  /\ Between /\ writes < MaxWrites
  /\ \E n \in Names, v \in B!Values : B!Define(n, v) \/ B!Set(n, v)
  /\ writes' = writes + 1
  /\ UNCHANGED <<files, stamps, tree, phase, read, recompiled, opening, opens, slipped>>

\* Mutant: the frame drops the dirty list instead of applying it.
ApplyDirtyDrops ==
  /\ Between /\ mDirty # {}
  /\ mDirty' = {} /\ mQueued' = {}
  /\ UNCHANGED <<val, observers, mBindings, shown>>
  /\ UNCHANGED <<files, stamps, tree, phase, read, recompiled, opening, ours, slipped>>

\* applyDirty, in the frame that follows.
ApplyDirty ==
  /\ Between /\ B!ApplyDirty
  /\ UNCHANGED <<files, stamps, tree, phase, read, recompiled, opening, ours, slipped>>

HostStep == CheckSource \/ CompileFails \/ Compile \/ LookAtBlueprint
              \/ Read \/ BuildsNothing \/ SwapTrees

Next ==
  \/ HostStep \/ ApplyDirty
  \/ EditSource \/ WriteBlueprint \/ LoadInterface \/ Write

Spec == Init /\ [][Next]_vars

\* The loop keeps running frames: each calls reloadIfChanged to its end, and then
\* applyDirty.  Nobody has to edit, write or load anything.
Fairness == WF_vars(HostStep) /\ SF_vars(ApplyDirty)

FairSpec == Spec /\ Fairness
-----------------------------------------------------------------------------
(* Properties                                                              *)

TypeOK ==
  /\ B!TypeOK
  /\ \A f \in {source, blueprint} : f.stamp \in Nat /\ f.text \in Contents
  /\ mWatched \in BOOLEAN /\ mSourceStamp \in Nat /\ mBlueprintStamp \in Nat
  /\ mInstance.layout \in Layouts \cup {NoTree}
  /\ mInstance.observers \subseteq B!Ids
  /\ roots \in 0 .. MaxOpens
  /\ phase \in {"closed", "idle", "compile", "look", "read", "swap"}
  /\ read \in Contents
  /\ recompiled \in BOOLEAN /\ opening \in BOOLEAN /\ slipped \in BOOLEAN

\* Through any writes, edits and reloads, what a live widget shows is what its
\* expression says, or the next frame will see to it (Bindings!WidgetsAgree).
WidgetsAgree == B!WidgetsAgree

\* The dirty list and its marks stay in step (Bindings!QueueMirrorsDirty).
QueueMirrorsDirty == B!QueueMirrorsDirty

\* The dependency graph has the edges of the live bindings, whatever trees were
\* built and released (Bindings!EdgesMatch).
EdgesMatch == B!EdgesMatch

\* Only the tree that stands is driven: no binding of a released tree is live,
\* which would write through a pointer to a widget that is gone (release).
OnlyTheTreeIsDriven == B!Live \subseteq mInstance.observers

\* The graph, its queue and the tree agree: edges and queued observers are those
\* of live bindings, and live bindings those of the tree that stands (add,
\* remove, observe, forget and set, through any reloads).
GraphAgrees == TypeOK /\ QueueMirrorsDirty /\ EdgesMatch /\ OnlyTheTreeIsDriven

\* A blueprint whose timestamp the host has taken is the one on screen, unless
\* it cannot be, or it came between the reading and the stamp of a reload
\* (finding): no other write, at whatever moment of an update, is ever stamped
\* unread (blueprintChanged, and the stamp at the end of reload).
SeenIsShown ==
  phase = "idle" /\ mBlueprintStamp = blueprint.stamp /\ Builds(blueprint.text) /\ ~slipped
    => mInstance.layout = blueprint.text

\* A syntax error costs a message, not the window: an interface is taken down
\* only for one that replaces it, for a layout that builds nothing, or by
\* rda_load_interface (the order of reload).
BrokenEditsCostNothing ==
  [][mInstance.layout # NoTree /\ mInstance'.layout = NoTree
       => read = Empty \/ opening']_vars

\* An edit of a watched source that compiles comes on screen, unless another
\* edit, a tool or rda_load_interface overtakes it (reloadIfChanged).
EditsAreShown ==
  \A L \in Layouts \ {Empty}, k \in 0 .. MaxToolWrites :
    (mWatched /\ source.text = L /\ source.stamp # mSourceStamp /\ toolWrites = k)
      ~> (mInstance.layout = L \/ source.text # L \/ toolWrites # k \/ opening)

\* No live widget stays behind its signals: again and again every one of them
\* shows the value it should (set, markDirty, applyDirty once a frame).
EveryWriteIsShown ==
  []<>(\A i \in B!Live : shown[i] = B!Reading(mBindings[i], val))

\* Whatever an editor saves and whatever the program writes reaches the screen
\* (reloadIfChanged and applyDirty, once a frame each).
EverythingIsShown == EditsAreShown /\ EveryWriteIsShown

\* State survives a reload: a signal already declared keeps the value the user
\* left, whatever the new layout declares (instantiate's call of define).
ReloadKeepsSignals ==
  [][phase = "swap" /\ phase' = "idle" /\ mInstance.layout # NoTree
       => \A n \in Names : val[n] # NoSignal => val'[n] = val[n]]_vars
=============================================================================
