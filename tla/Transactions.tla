---------------------------- MODULE Transactions ----------------------------
(***************************************************************************)
(* What a script's author is promised (the comments of                     *)
(* RendeerAlpha/include/Scripting/ScriptQueue.h and Script.h), with the    *)
(* queues, the threads and the loop left out: whatever a run asks for      *)
(* happens in one step, in the order it was asked, when the run succeeds,  *)
(* and not at all when it does not; the run is then told how much of it    *)
(* was done; and the application may change the scene between two such     *)
(* steps, never inside one.                                                *)
(***************************************************************************)
EXTENDS Sequences

CONSTANTS Scripts,          \* the script engines
          Commands,         \* everything a script may ask for
          Scenes,           \* the states of the scene
          After(_, _),      \* the scene after a sequence of commands
          Done(_, _),       \* how many of them had something to act on
          Changes(_)        \* the scenes the application may make of one

VARIABLES scene,            \* the engine's scene
          asked,            \* what the current run of each script asked for
          told              \* how much of its last run each script was told of

Init == /\ scene \in Scenes
        /\ asked = [s \in Scripts |-> << >>]
        /\ told = [s \in Scripts |-> 0]

Begin(s) == told' = [told EXCEPT ![s] = 0] /\ UNCHANGED <<scene, asked>>

Ask(s) == /\ \E c \in Commands : asked' = [asked EXCEPT ![s] = Append(@, c)]
          /\ UNCHANGED <<scene, told>>

Commit(s) == /\ scene' = After(scene, asked[s])
             /\ told' = [told EXCEPT ![s] = Done(scene, asked[s])]
             /\ asked' = [asked EXCEPT ![s] = << >>]

Abandon(s) == /\ told' = [told EXCEPT ![s] = 0]
              /\ asked' = [asked EXCEPT ![s] = << >>]
              /\ UNCHANGED scene

Application == scene' \in Changes(scene) /\ UNCHANGED <<asked, told>>

Next == (\E s \in Scripts : Begin(s) \/ Ask(s) \/ Commit(s) \/ Abandon(s)) \/ Application

Spec == Init /\ [][Next]_<<scene, asked, told>>
=============================================================================
