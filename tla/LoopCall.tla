------------------------------ MODULE LoopCall ------------------------------
(***************************************************************************)
(* What LoopWork promises the code that calls it, with the queue, the      *)
(* lock, the condition variable and the deadlines left out: a request is   *)
(* performed at most once, it answers true only after it was performed,    *)
(* and it answers false only if it never was.  A caller may give a request *)
(* up while the loop has it in hand: it is then adrift, and promised       *)
(* nothing until the loop lets go of it.                                   *)
(* (RendeerAlpha/include/Core/LoopWork.h, the comment on request.)         *)
(***************************************************************************)
CONSTANT Threads       \* every thread that may make a request

VARIABLE call          \* how far the request of each thread has come

Init == call = [t \in Threads |-> "none"]

Move(t, from, to) == /\ call[t] = from
                     /\ call' = [call EXCEPT ![t] = to]

Ask(t)     == Move(t, "none", "asked")
Perform(t) == Move(t, "asked", "performed")
Answer(t)  == Move(t, "performed", "true") \/ Move(t, "asked", "false")
Return(t)  == Move(t, "true", "none") \/ Move(t, "false", "none")
GiveUp(t)  == Move(t, "asked", "adrift") \/ Move(t, "performed", "adrift")

\* The end of a batch, or of the loop, lets go of every request it held.
LetGo == \E T \in SUBSET {t \in Threads : call[t] = "adrift"} :
           call' = [t \in Threads |-> IF t \in T THEN "none" ELSE call[t]]

Next == \/ \E t \in Threads : Ask(t) \/ Perform(t) \/ Answer(t) \/ Return(t) \/ GiveUp(t)
        \/ LetGo

Spec == Init /\ [][Next]_call
=============================================================================
