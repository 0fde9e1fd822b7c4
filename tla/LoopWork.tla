------------------------------ MODULE LoopWork ------------------------------
(***************************************************************************)
(* RendeerAlpha/src/Core/LoopWork.cpp: work that has to happen on the loop *)
(* thread, asked for from anywhere.  A caller pushes a pointer to a        *)
(* Request on its own stack and sleeps on a condition variable with a      *)
(* deadline; the loop thread swaps the list out under the lock, runs the   *)
(* batch with the lock released, then marks it done and notifies.          *)
(*                                                                         *)
(* One action is one critical section of mMutex, or one step between two   *)
(* of them.  A pointer is the thread whose frame it points into: the next  *)
(* request of the same thread reuses the frame, as it does on a real stack.*)
(***************************************************************************)
EXTENDS Naturals, SequencesExt

CONSTANTS
  Callers,            \* threads other than the loop thread
  Loop,               \* the thread that calls setServiceThread and service
  NoThread            \* a default-constructed std::thread::id

ASSUME LoopWorkAssumption ==
  /\ Loop \notin Callers
  /\ NoThread \notin Callers \cup {Loop}

Threads == Callers \cup {Loop}

VARIABLES
  mServiceThread, mHasServiceThread, mStopped,
  mWaiting,   \* the pointers queued for the loop
  batch,      \* service(): the pointers it swapped out
  next,       \* service(): the place in the batch it has come to
  svc,        \* where the loop thread is with respect to LoopWork
  pc,         \* where each thread is inside request()
  done,       \* Request::done of each thread's frame
  ran,        \* how often the work of the current request has run
  overtaken   \* history: the threads whose deadline passed while the loop
              \* held their request in its batch, until the loop follows no
              \* pointer to them any more

callerVars == <<pc, done, ran>>
queueVars  == <<mServiceThread, mHasServiceThread, mStopped, mWaiting>>
loopVars   == <<batch, next, svc, overtaken>>
vars       == <<queueVars, loopVars, callerVars>>

Init ==
  /\ mServiceThread = NoThread
  /\ mHasServiceThread = FALSE
  /\ mStopped = FALSE
  /\ mWaiting = <<>>
  /\ batch = <<>>
  /\ next = 1
  /\ svc = "off"
  /\ pc = [t \in Threads |-> "idle"]
  /\ done = [t \in Threads |-> FALSE]
  /\ ran = [t \in Threads |-> 0]
  /\ overtaken = {}

Go(t, to) == pc' = [pc EXCEPT ![t] = to]

\* The thread is inside wait_for, so its Request exists.
Alive(t) == pc[t] \in {"asleep", "notified"}

\* Its Request is still on the stack, which it is until request() returns.
HasFrame(t) == Alive(t) \/ pc[t] \in {"served", "refused"}

Pointed == Range(mWaiting) \cup Range(batch)

\* A thread that has left request() is none the worse for a deadline once no
\* pointer to its old frame is left.
Forget == overtaken' = {t \in overtaken : pc'[t] # "idle" \/ t \in Pointed'}

-----------------------------------------------------------------------------
(* request(), on the caller's thread                                       *)

RunsHere(t) == ~mHasServiceThread \/ mServiceThread = t

\* The loop thread makes requests too, from its own code and from inside the
\* work it is running for somebody else.
Ask(t) ==
  /\ pc[t] = "idle"
  /\ t = Loop => svc \in {"off", "between", "running"}
  /\ Go(t, IF RunsHere(t) THEN "inline" ELSE "asking")
  /\ UNCHANGED <<queueVars, loopVars, done, ran>>

RunInline(t) ==
  /\ pc[t] = "inline" /\ ran[t] = 0
  /\ ran' = [ran EXCEPT ![t] = 1]
  /\ UNCHANGED <<queueVars, loopVars, pc, done>>

FinishInline(t) ==
  /\ pc[t] = "inline" /\ ran[t] > 0
  /\ Go(t, "served")
  /\ UNCHANGED <<queueVars, loopVars, done, ran>>

Refuse(t) ==
  /\ pc[t] = "asking" /\ mStopped
  /\ Go(t, "refused")
  /\ UNCHANGED <<queueVars, loopVars, done, ran>>

Enqueue(t) ==
  /\ pc[t] = "asking" /\ ~mStopped
  /\ mWaiting' = Append(mWaiting, t)
  /\ done' = [done EXCEPT ![t] = FALSE]
  /\ Go(t, "asleep")
  /\ UNCHANGED <<mServiceThread, mHasServiceThread, mStopped, loopVars, ran>>

\* The scan from the back that takes the caller's own pointer out again.
Places(s, t) == {i \in DOMAIN s : s[i] = t}
Erased(s, t) ==
  IF Places(s, t) = {} THEN s
  ELSE RemoveAt(s, CHOOSE i \in Places(s, t) : \A j \in Places(s, t) : j <= i)

\* Mutant: the pointer of a request that gave up stays in the list.
LeaveWaitUnerased(t) ==
  /\ Go(t, IF done[t] THEN "served" ELSE "refused")
  /\ UNCHANGED <<queueVars, batch, next, svc, done, ran>>

\* Mutant: being woken is taken for having been served.
LeaveWaitTrue(t) ==
  /\ Go(t, "served")
  /\ mWaiting' = IF done[t] THEN mWaiting ELSE Erased(mWaiting, t)
  /\ UNCHANGED <<mServiceThread, mHasServiceThread, mStopped>>
  /\ UNCHANGED <<batch, next, svc, done, ran>>

\* wait_for has returned, with the lock held.
LeaveWait(t) ==
  /\ Go(t, IF done[t] THEN "served" ELSE "refused")
  /\ mWaiting' = IF done[t] THEN mWaiting ELSE Erased(mWaiting, t)
  /\ UNCHANGED <<mServiceThread, mHasServiceThread, mStopped>>
  /\ UNCHANGED <<batch, next, svc, done, ran>>

\* A notified thread has the lock back and evaluates the predicate.
WakeSatisfied(t) ==
  /\ pc[t] = "notified" /\ (done[t] \/ mStopped)
  /\ LeaveWait(t)
  /\ UNCHANGED overtaken

WakeUnsatisfied(t) ==
  /\ pc[t] = "notified" /\ ~done[t] /\ ~mStopped
  /\ Go(t, "asleep")
  /\ UNCHANGED <<queueVars, loopVars, done, ran>>

Wake(t) == WakeSatisfied(t) \/ WakeUnsatisfied(t)

\* The deadline has passed and the thread has the lock back.  Five seconds may
\* be up while the loop is at work on the batch that holds the request: then
\* there is nothing to take out, and the loop keeps its pointer.
Expire(t) ==
  /\ Alive(t)
  /\ LeaveWait(t)
  /\ overtaken' = IF t \in Range(batch) THEN overtaken \cup {t} ELSE overtaken

Return(t) ==
  /\ pc[t] \in {"served", "refused"}
  /\ Go(t, "idle")
  /\ ran' = [ran EXCEPT ![t] = 0]
  /\ UNCHANGED <<queueVars, batch, next, svc, done>>
  /\ Forget

-----------------------------------------------------------------------------
(* setServiceThread(), service() and stop(), on the loop thread            *)

AtLoop(place) == svc = place /\ pc[Loop] = "idle"

SetServiceThread ==
  /\ AtLoop("off")
  /\ mServiceThread' = Loop
  /\ mHasServiceThread' = TRUE
  /\ mStopped' = FALSE
  /\ svc' = "between"
  /\ UNCHANGED <<mWaiting, batch, next, overtaken, callerVars>>

TakeBatch ==
  /\ AtLoop("between") /\ mWaiting # <<>>
  /\ batch' = mWaiting
  /\ mWaiting' = <<>>
  /\ next' = 1
  /\ svc' = "running"
  /\ UNCHANGED <<mServiceThread, mHasServiceThread, mStopped, overtaken, callerVars>>

\* (*request->work)().  A frame whose thread has gone on is read all the same:
\* the abandoned work runs, or the newer request that now occupies the frame.
RunNext ==
  /\ AtLoop("running") /\ next <= Len(batch)
  /\ LET t == batch[next] IN
       ran' = IF HasFrame(t) THEN [ran EXCEPT ![t] = @ + 1] ELSE ran
  /\ next' = next + 1
  /\ UNCHANGED <<queueVars, batch, svc, overtaken, pc, done>>

\* Mutant: the batch is dropped but the place in it is kept.
MarkDoneKeepsPlace ==
  /\ AtLoop("running") /\ next > Len(batch)
  /\ done' = [t \in Threads |-> done[t] \/ t \in Range(batch)]
  /\ batch' = <<>>
  /\ svc' = "serviced"
  /\ UNCHANGED <<queueVars, next, pc, ran>>
  /\ Forget

MarkDone ==
  /\ AtLoop("running") /\ next > Len(batch)
  /\ done' = [t \in Threads |-> done[t] \/ t \in Range(batch)]
  /\ batch' = <<>>
  /\ next' = 1
  /\ svc' = "serviced"
  /\ UNCHANGED <<queueVars, pc, ran>>
  /\ Forget

NotifyAll == pc' = [t \in Threads |-> IF pc[t] = "asleep" THEN "notified" ELSE pc[t]]

NotifyServiced ==
  /\ AtLoop("serviced")
  /\ NotifyAll
  /\ svc' = "between"
  /\ UNCHANGED <<queueVars, batch, next, overtaken, done, ran>>

Stop ==
  /\ AtLoop("between")
  /\ mStopped' = TRUE
  /\ mHasServiceThread' = FALSE
  /\ mWaiting' = <<>>
  /\ svc' = "stopping"
  /\ UNCHANGED <<mServiceThread, batch, next, callerVars>>
  /\ Forget

\* Mutant: stop() wakes nobody.
NotifyStoppedSilently ==
  /\ AtLoop("stopping")
  /\ svc' = "off"
  /\ UNCHANGED <<queueVars, batch, next, overtaken, callerVars>>

NotifyStopped ==
  /\ AtLoop("stopping")
  /\ NotifyAll
  /\ svc' = "off"
  /\ UNCHANGED <<queueVars, batch, next, overtaken, done, ran>>

Service == TakeBatch \/ RunNext \/ MarkDone \/ NotifyServiced

Request(t) ==
  \/ Ask(t) \/ RunInline(t) \/ FinishInline(t) \/ Refuse(t) \/ Enqueue(t)
  \/ Wake(t) \/ Expire(t) \/ Return(t)

Next ==
  \/ \E t \in Threads : Request(t)
  \/ Service \/ SetServiceThread \/ Stop \/ NotifyStopped

Spec == Init /\ [][Next]_vars
-----------------------------------------------------------------------------
(* Fairness.  A thread in the middle of a request is scheduled, and so is  *)
(* the loop, which calls service once a frame and makes only finitely many *)
(* requests of its own in between (hence the strong form).  Nobody has to  *)
(* ask or to stop, and no deadline has to pass.                            *)

Proceed(t) ==
  RunInline(t) \/ FinishInline(t) \/ Refuse(t) \/ Enqueue(t) \/ Wake(t) \/ Return(t)

Fairness ==
  /\ \A t \in Threads : WF_vars(Proceed(t))
  /\ SF_vars(Service)
  /\ SF_vars(NotifyStopped)

FairSpec == Spec /\ Fairness
-----------------------------------------------------------------------------
(* Properties                                                              *)

TypeOK ==
  /\ mServiceThread \in {NoThread, Loop}
  /\ mHasServiceThread \in BOOLEAN /\ mStopped \in BOOLEAN
  /\ mWaiting \in Seq(Threads)
  /\ batch \in Seq(Threads)
  /\ next \in 1 .. Len(batch) + 1
  /\ svc \in {"off", "between", "running", "serviced", "stopping"}
  /\ pc \in [Threads -> {"idle", "inline", "asking", "asleep", "notified",
                         "served", "refused"}]
  /\ done \in [Threads -> BOOLEAN]
  /\ ran \in [Threads -> Nat]
  /\ overtaken \subseteq Threads

\* "False means it never ran", as the comment on request in LoopWork.h has it.
\* It does not hold of a thread that is overtaken (finding), so no run checks it.
FalseMeansNeverRan == \A t \in Threads : pc[t] = "refused" => ran[t] = 0

\* A caller that no deadline surprised in the loop's hands is told the truth,
\* whatever becomes of the others: false means that its work never ran, true
\* that it ran once (LoopWork::request against service and stop).
HonestAnswers ==
  \A t \in Threads \ overtaken :
    /\ pc[t] = "refused" => ran[t] = 0
    /\ pc[t] = "served" => ran[t] = 1

\* The same pointer stands at two places of a list only for a thread of S.
OnceBut(s, S) == \A i, j \in DOMAIN s : s[i] = s[j] /\ s[i] \notin S => i = j

\* Every pointer the loop will follow, queued or taken, points into the frame
\* of a thread still inside request(), and no frame is pointed at twice, but for
\* the threads overtaken (the erase in LoopWork::request, the swap in
\* LoopWork::service, the clear in stop).
NoDanglingRequest ==
  /\ \A t \in Pointed : Alive(t) \/ t \in overtaken
  /\ Range(mWaiting) \cap Range(batch) \subseteq overtaken
  /\ OnceBut(mWaiting, overtaken) /\ OnceBut(batch, overtaken)

\* What a caller is told and what the loop follows agree, and a caller who gives
\* up while the loop holds its request spoils nobody's answer or pointer but its
\* own, and its own only until the loop has let go of it.
AnswersAreTrue == HonestAnswers /\ NoDanglingRequest

\* The whole of request(), with its queue, lock and deadlines, is a call that
\* is performed at most once and answers truthfully, unless its caller gives it
\* up in the loop's hands.
CallOf(t) ==
  IF t \in overtaken THEN "adrift" ELSE
    CASE pc[t] = "idle"    -> "none"
      [] pc[t] = "served"  -> "true"
      [] pc[t] = "refused" -> "false"
      [] OTHER             -> IF ran[t] = 0 THEN "asked" ELSE "performed"

Abs == INSTANCE LoopCall WITH call <- [t \in Threads |-> CallOf(t)]

ImplementsLoopCall == Abs!Spec

\* A thread whose sleep stop() ended, but which the next engine's
\* setServiceThread overtook: it sleeps again with no pointer queued.
LostInRestart(t) ==
  Alive(t) /\ ~done[t] /\ ~mStopped /\ t \notin Pointed

\* No deadline is needed to get a caller out: service or stop releases it, and
\* the only exception is the caller a restarted engine overtakes (the notify_all
\* of service and of stop, "so shutting down does not take five seconds").
ReleasedWithoutDeadline ==
  \A t \in Callers : Alive(t) ~> (~Alive(t) \/ LostInRestart(t))

\* With deadlines every request returns, whatever the loop is doing and however
\* often the engine is stopped and started (the timeout of request).
EveryRequestReturns ==
  (\A t \in Callers : WF_vars(Expire(t)))
    => \A t \in Callers : (pc[t] # "idle") ~> (pc[t] = "idle")

\* Every caller gets out: the loop or its end lets it go without waiting for its
\* deadline, but for the one a restart overtakes, and deadlines let go of all.
CallersAreReleased == ReleasedWithoutDeadline /\ EveryRequestReturns
=============================================================================
