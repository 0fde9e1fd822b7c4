------------------------------ MODULE Scripts -------------------------------
(***************************************************************************)
(* JavaScript that changes the scene: Scripting/Script.cpp, the engine's   *)
(* classes in ScriptBindings.cpp, the queue that records what a run asks   *)
(* for (ScriptQueue.cpp) and the entities it names (GraphicalObjects/      *)
(* Scene.cpp).  One script engine belongs to the loop thread, as a console *)
(* or a notebook in the application does; the others have threads of their *)
(* own and reach the loop through LoopWork, of which only the promise of   *)
(* LoopCall is used.  The scene is cut down to entities with a place, a    *)
(* visibility and a material, one number of each material and one of the   *)
(* sun: the other numbers and colours are recorded, replayed and read in   *)
(* the same way.                                                           *)
(***************************************************************************)
EXTENDS Integers, Sequences, SequencesExt

CONSTANTS Workers,      \* script engines on threads of their own
          Addresses,    \* where the heap may put an entity
          MaxBirths,    \* how many entities the application creates
          MaxAsked      \* how many commands are recorded in all

ASSUME ScriptsAssumption == "loop" \notin Workers /\ "cell" \notin Workers /\ MaxBirths \in Nat

Cell == "cell"                  \* the script engine of the loop thread
Scripts == Workers \cup {Cell}
\* Mutant: one queue for the process instead of one per thread.
ThreadOfShared(s) == "loop"
ThreadOf(s) == IF s = Cell THEN "loop" ELSE s
Materials == {"own", "made"}    \* the application's, and createMaterial's

VARIABLES
  scene,      \* the entities by address, and the numbers of materials and sun
  queue,      \* ScriptQueue: one per thread
  phase,      \* what each script engine is doing
  made,       \* the material createMaterial made: none, live or freed
  running,    \* the loop is up
  told,       \* ScriptResult.commandsApplied
  homes,      \* where each entity was created, in order: who an address was at a time
  asked,      \* history: what the current run of each script asked for
  asks        \* how many commands were recorded, for the bound

vars == <<scene, queue, phase, made, running, told, homes, asked, asks>>

-----------------------------------------------------------------------------
(* Scene: entities at stable addresses, which the heap gives out again.    *)

Nothing == [born |-> 0]
Entities == {Nothing} \cup [born : 1..MaxBirths + 1, place : 0..2, visible : BOOLEAN, material : Materials]
Scenes == [entity : [Addresses -> Entities], scalar : [Materials -> 0..1], sun : 0..1]
NewEntity(n) == [born |-> n, place |-> 0, visible |-> TRUE, material |-> "own"]
stillInScene(w, a) == w.entity[a] # Nothing
destroyEntity(w, a) == [w EXCEPT !.entity[a] = Nothing]

Kinds == {"EntityPosition", "EntityTranslate", "EntityVisible", "EntityMaterial", "EntityDestroy"}
Command(kind, a, born, m) == [kind |-> kind, entity |-> a, born |-> born, material |-> m]
Commands == {Command(k, a, b, "made") : k \in Kinds, a \in Addresses, b \in 1..MaxBirths + 1}
              \cup {Command("MaterialScalar", "none", 0, m) : m \in Materials}
              \cup {Command("LightScalar", "none", 0, "own")}

needsEntity(c) == c.kind \in Kinds
Refused(w, c) == needsEntity(c) /\ ~stillInScene(w, c.entity)

\* One command of ScriptQueue::apply, checked against the scene as it stands
\* at this moment in the replay.
Applied(w, c) ==
  IF Refused(w, c) THEN w
  ELSE CASE c.kind = "EntityPosition"  -> [w EXCEPT !.entity[c.entity].place = 1]
         [] c.kind = "EntityTranslate" -> [w EXCEPT !.entity[c.entity].place = (@ + 1) % 3]
         [] c.kind = "EntityVisible"   -> [w EXCEPT !.entity[c.entity].visible = FALSE]
         [] c.kind = "EntityMaterial"  -> [w EXCEPT !.entity[c.entity].material = c.material]
         [] c.kind = "EntityDestroy"   -> destroyEntity(w, c.entity)
         [] c.kind = "MaterialScalar"  -> [w EXCEPT !.scalar[c.material] = 1]
         [] c.kind = "LightScalar"     -> [w EXCEPT !.sun = 1]

After(w, batch) == FoldLeft(Applied, w, batch)
Done(w, batch) ==
  FoldLeft(LAMBDA r, c : [w |-> Applied(r.w, c), n |-> r.n + IF Refused(r.w, c) THEN 0 ELSE 1],
           [w |-> w, n |-> 0], batch).n

-----------------------------------------------------------------------------
(* Reading through the queue: what is pending for a target, in order.      *)

scriptQueue(s) == queue[ThreadOf(s)]
IsFor(c, a, kind) == c.entity = a /\ c.kind = kind
Pending(s, a, kind) == \E i \in DOMAIN scriptQueue(s) : IsFor(scriptQueue(s)[i], a, kind)

\* Mutant: moves compose from the scene's value, not from one another.
MovedFromScene(a, at, c) ==
  IF IsFor(c, a, "EntityPosition") THEN 1
  ELSE IF IsFor(c, a, "EntityTranslate") THEN (scene.entity[a].place + 1) % 3 ELSE at
\* What one pending command does to what is read of entity a.
Moved(a, at, c) ==
  IF IsFor(c, a, "EntityPosition") THEN 1
  ELSE IF IsFor(c, a, "EntityTranslate") THEN (at + 1) % 3 ELSE at
Dressed(a, m, c) == IF IsFor(c, a, "EntityMaterial") THEN c.material ELSE m

pendingPosition(s, a) ==
  FoldLeft(LAMBDA at, c : Moved(a, at, c), scene.entity[a].place, scriptQueue(s))
pendingVisible(s, a) == scene.entity[a].visible /\ ~Pending(s, a, "EntityVisible")
pendingMaterial(s, a) ==
  FoldLeft(LAMBDA m, c : Dressed(a, m, c), scene.entity[a].material, scriptQueue(s))
pendingDestroyed(s, a) == Pending(s, a, "EntityDestroy")
pendingMaterialScalar(s, m) ==
  IF \E i \in DOMAIN scriptQueue(s) : scriptQueue(s)[i].kind = "MaterialScalar" /\ scriptQueue(s)[i].material = m
  THEN 1 ELSE scene.scalar[m]
pendingLightScalar(s) ==
  IF \E i \in DOMAIN scriptQueue(s) : scriptQueue(s)[i].kind = "LightScalar" THEN 1 ELSE scene.sun

\* Mutant: only the scene is asked, which the queue has not reached yet.
entitySelfOfScene(s, a) == stillInScene(scene, a)
\* Whether an Entity object may still be used; a script that uses one that may
\* not gets a ReferenceError.
entitySelf(s, a) == ~pendingDestroyed(s, a) /\ stillInScene(scene, a)

-----------------------------------------------------------------------------
TypeOK ==
  /\ scene \in Scenes
  /\ queue \in [Workers \cup {"loop"} -> Seq(Commands)]
  /\ phase \in [Scripts -> {"idle", "running", "making", "committing"}]
  /\ made \in {"none", "live", "freed"} /\ running \in BOOLEAN
  /\ homes \in Seq(Addresses)

Init == \E a \in Addresses :
  /\ scene = [entity |-> [b \in Addresses |-> IF b = a THEN NewEntity(1) ELSE Nothing],
              scalar |-> [m \in Materials |-> 0], sun |-> 0]
  /\ queue = [t \in Workers \cup {"loop"} |-> << >>]
  /\ phase = [s \in Scripts |-> "idle"]
  /\ made = "none" /\ running = TRUE /\ homes = <<a>>
  /\ told = [s \in Scripts |-> 0] /\ asked = [s \in Scripts |-> << >>]
  /\ asks = 0

(* The loop thread does one thing at a time: while its own script runs,    *)
(* neither the application nor a request of another thread does.           *)
LoopIsFree == running /\ phase[Cell] = "idle"
\* LoopWork::request: work runs on the loop when the loop gets to it, at once
\* on the loop thread, and where it was asked once the loop is gone.
MayPerform(s) == s = Cell \/ LoopIsFree \/ ~running

Enter(s, p) == phase' = [phase EXCEPT ![s] = p]

\* ScriptEngine::eval starts, on the loop thread between other things.
Eval(s) ==
  /\ phase[s] = "idle" /\ (s = Cell => running)
  /\ Enter(s, "running") /\ told' = [told EXCEPT ![s] = 0]
  /\ UNCHANGED <<scene, queue, made, running, homes, asked, asks>>

\* ScriptQueue::record, of one thing a script asked for.
Record(s, c) ==
  /\ phase[s] = "running" /\ asks < MaxAsked /\ asks' = asks + 1
  /\ queue' = [queue EXCEPT ![ThreadOf(s)] = Append(scriptQueue(s), c)]
  /\ asked' = [asked EXCEPT ![s] = Append(@, c)]
  /\ UNCHANGED <<scene, phase, made, running, told, homes>>

\* The setters and methods of Entity.  scene.find and scene.entities answer an
\* object for any entity there is, and a script may keep one for as long as its
\* context lives: the objects it has are those of every entity there ever was.
AskEntity(s) == \E n \in DOMAIN homes, k \in Kinds :
  /\ entitySelf(s, homes[n])
  /\ k = "EntityMaterial" => made # "none"
  /\ Record(s, Command(k, homes[n], n, "made"))

\* The setters of Material and of the light, which check nothing.
AskMaterial(s) == \E m \in Materials : /\ m = "made" => made # "none"
                                      /\ Record(s, Command("MaterialScalar", "none", 0, m))
AskLight(s) == Record(s, Command("LightScalar", "none", 0, "own"))

\* createMaterial is not queued: the next line uses what it answers.
CreateMaterial(s) ==
  /\ phase[s] = "running" /\ made = "none"
  /\ IF s = Cell THEN made' = "live" /\ UNCHANGED phase
                 ELSE Enter(s, "making") /\ UNCHANGED made
  /\ UNCHANGED <<scene, queue, running, told, homes, asked, asks>>

\* Its request is performed on the loop, or withdrawn and answered with null.
Make(s) ==
  /\ phase[s] = "making" /\ MayPerform(s) /\ Enter(s, "running")
  /\ made' = IF made = "none" THEN "live" ELSE made
  /\ UNCHANGED <<scene, queue, running, told, homes, asked, asks>>
NotMade(s) ==
  /\ phase[s] = "making" /\ Enter(s, "running")
  /\ UNCHANGED <<scene, queue, made, running, told, homes, asked, asks>>

\* The hook bindEngine installs: apply takes the batch and replays it; a run
\* that threw, or whose request was not serviced, has it thrown away.
Perform(s) ==
  /\ scene' = After(scene, scriptQueue(s))
  /\ told' = [told EXCEPT ![s] = Done(scene, scriptQueue(s))]
discard(s) == told' = [told EXCEPT ![s] = 0] /\ UNCHANGED scene
Over(s) == /\ Enter(s, "idle")
           /\ queue' = [queue EXCEPT ![ThreadOf(s)] = << >>]
           /\ asked' = [asked EXCEPT ![s] = << >>]
           /\ UNCHANGED <<made, running, homes, asks>>

\* eval ends with an exception.
Throws(s) == phase[s] = "running" /\ discard(s) /\ Over(s)

\* eval ends well: the commit runs here, or is asked of the loop.
Returns(s) ==
  /\ phase[s] = "running"
  /\ IF s = Cell
     THEN Perform(s) /\ Over(s)
     ELSE /\ Enter(s, "committing")
          /\ UNCHANGED <<scene, queue, made, running, told, homes, asked, asks>>
Commit(s)  == phase[s] = "committing" /\ MayPerform(s) /\ Perform(s) /\ Over(s)
Refuse(s)  == phase[s] = "committing" /\ discard(s) /\ Over(s)

-----------------------------------------------------------------------------
(* The application, on the loop thread between scripts.                    *)

Births(w, a, n) == [w EXCEPT !.entity[a] = NewEntity(n)]
Deaths(w) == {destroyEntity(w, a) : a \in {b \in Addresses : stillInScene(w, b)}}
createEntity == \E a \in Addresses :
  /\ LoopIsFree /\ Len(homes) <= MaxBirths /\ ~stillInScene(scene, a)
  /\ scene' = Births(scene, a, Len(homes) + 1)
  /\ homes' = Append(homes, a)
  /\ UNCHANGED <<queue, phase, made, running, told, asked, asks>>
Destroy ==
  /\ LoopIsFree /\ scene' \in Deaths(scene)
  /\ UNCHANGED <<queue, phase, made, running, told, homes, asked, asks>>

\* The loop ends: from now on a request is performed where it is made.
Stop ==
  /\ LoopIsFree /\ running' = FALSE
  /\ UNCHANGED <<scene, queue, phase, made, told, homes, asked, asks>>

\* releaseScriptMaterials, which the host calls before its own teardown.
releaseScriptMaterials ==
  /\ ~running /\ made = "live" /\ made' = "freed"
  /\ UNCHANGED <<scene, queue, phase, running, told, homes, asked, asks>>

Step(s) == \/ Eval(s) \/ AskEntity(s) \/ AskMaterial(s) \/ AskLight(s) \/ CreateMaterial(s)
           \/ Make(s) \/ NotMade(s) \/ Throws(s) \/ Returns(s) \/ Commit(s) \/ Refuse(s)
Next == (\E s \in Scripts : Step(s)) \/ createEntity \/ Destroy \/ Stop \/ releaseScriptMaterials

Spec == Init /\ [][Next]_vars

-----------------------------------------------------------------------------
(* Properties.                                                             *)

Changes(w) == Deaths(w) \cup {Births(w, a, n) : a \in {b \in Addresses : ~stillInScene(w, b)},
                                             n \in 1..MaxBirths + 1}

Promised == INSTANCE Transactions

\* However the runs of several script engines, the loop, refused requests and
\* the application's own changes fall together, the scene changes as
\* Transactions says: a run is performed whole, in order and once, or not at
\* all, and is told how much of it found something to act on.
ImplementsTransactions == Promised!Spec

\* What a run reads is what the scene would be if it were committed now: its
\* own writes composed in order, whatever the application or another script
\* has done since, and an object refused exactly when its entity will be gone.
\* (The getters of ScriptBindings.cpp through the pending functions.)
ReadsAreItsOwnWrites ==
  \A s \in Scripts : phase[s] = "running" =>
    LET then == After(scene, asked[s]) IN
    /\ \A a \in Addresses :
         /\ entitySelf(s, a) <=> stillInScene(then, a)
         /\ entitySelf(s, a) => /\ pendingPosition(s, a) = then.entity[a].place
                                /\ pendingVisible(s, a) = then.entity[a].visible
                                /\ pendingMaterial(s, a) = then.entity[a].material
    /\ \A m \in Materials : pendingMaterialScalar(s, m) = then.scalar[m]
    /\ pendingLightScalar(s) = then.sun

ReadsAreSound == TypeOK /\ ReadsAreItsOwnWrites

\* What a command of a script meets when its turn in the replay comes, were
\* its run committed at this moment.
Waiting(s) == DOMAIN scriptQueue(s)
Meets(s, i) == After(scene, SubSeq(scriptQueue(s), 1, i - 1))
Reaches(s, i) ==
  LET c == scriptQueue(s)[i] IN
  /\ ~Refused(Meets(s, i), c)
  /\ Meets(s, i).entity[c.entity].born = c.born
Stands(n) == \E a \in Addresses : stillInScene(scene, a) /\ scene.entity[a].born = n

\* Between the moment a command is recorded and the moment it is replayed, only
\* somebody else can make it miss: as long as the entity its object was made for
\* stands, the command will be carried out, and on that entity, whatever the
\* run recorded before it, whichever entities came and went, and at whichever
\* addresses.  (entitySelf of ScriptBindings.cpp against stillInScene and
\* ScriptQueue::apply.)
CommandsReachTheirEntity ==
  \A s \in Scripts : \A i \in Waiting(s) :
    LET c == scriptQueue(s)[i] IN
    needsEntity(c) /\ Stands(c.born) => Reaches(s, i)

\* A command reaches the entity its object was made for, or none; the code does
\* not keep it, because an entity created at a freed address passes for the old
\* one.
CommandsHitTheirEntity ==
  \A s \in Scripts : \A i \in Waiting(s) :
    LET c == scriptQueue(s)[i] IN
    needsEntity(c) /\ ~Refused(Meets(s, i), c) => Reaches(s, i)

\* No command that may be replayed names a released material; the code does not
\* keep it, because a request made after LoopWork::stop is performed on the
\* thread that makes it.
NothingFreedIsWritten ==
  \A s \in Scripts : phase[s] = "committing" /\ MayPerform(s) /\ made = "freed" =>
    \A i \in Waiting(s) :
      LET c == scriptQueue(s)[i] IN
      ~(c.kind \in {"MaterialScalar", "EntityMaterial"} /\ c.material = "made")
=============================================================================
