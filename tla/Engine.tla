------------------------------- MODULE Engine -------------------------------
(***************************************************************************)
(* The life of the engine behind the C ABI: rda_init, rda_stop and         *)
(* rda_wait (RendeerAlpha/src/RendeerC.cpp), the loop thread they start    *)
(* and end (engineMain in RendeerAlpha/src/RendeerAlpha.cpp), and onLoop,  *)
(* through which every other ABI call reaches that thread.  LoopWork is    *)
(* used as it is: engineMain decides when its loop side moves, onLoop when *)
(* a caller's side begins.                                                 *)
(*                                                                         *)
(* One host thread owns the lifecycle; rda_stop may come from any thread.  *)
(***************************************************************************)
EXTENDS Naturals, Sequences

CONSTANTS Callers, Loop, NoThread,
  Hurried,       \* the callers whose deadline may pass
  StopBeforeUp   \* TRUE: somebody asks the loop to end before it has raised
                 \* gRunning: rda_stop, or rda_init giving up after 30 seconds

VARIABLES
  mServiceThread, mHasServiceThread, mStopped, mWaiting,     \* LoopWork
  batch, next, svc, pc, done, ran, overtaken,
  gRunning, gStarted, gReadyFlag,
  eng,        \* where engineMain is; "none" when there is no thread to join
  host,       \* where the host thread is in rda_init or rda_wait
  hop,        \* callers between onLoop's check of gRunning and request()
  stopAsked   \* somebody has called rendeerStop during this run of the loop

LW == INSTANCE LoopWork

ASSUME EngineAssumption ==
  LW!LoopWorkAssumption /\ Hurried \subseteq Callers /\ StopBeforeUp \in BOOLEAN

loopWork == <<mServiceThread, mHasServiceThread, mStopped, mWaiting,
              batch, next, svc, pc, done, ran, overtaken>>
flags    == <<gRunning, gStarted, gReadyFlag>>
vars     == <<loopWork, flags, eng, host, hop, stopAsked>>

Init ==
  /\ LW!Init
  /\ gRunning = FALSE
  /\ gStarted = FALSE
  /\ gReadyFlag = FALSE
  /\ eng = "none"
  /\ host = "out"
  /\ hop = {}
  /\ stopAsked = FALSE

-----------------------------------------------------------------------------
(* engineMain, on the loop thread.  No step of it is taken while the loop   *)
(* thread is inside a request of its own.                                   *)

At(place)  == eng = place /\ pc[Loop] = "idle"
GoTo(place) == eng' = place

\* There is a loop thread and it has not raised gRunning yet.
BeforeUp == eng \in {"bringUp", "named"}

\* engineBringUp, publishWindowSignals, then setServiceThread.
BringUp ==
  /\ At("bringUp")
  /\ LW!SetServiceThread
  /\ GoTo("named")
  /\ UNCHANGED <<flags, host, hop, stopAsked>>

RaiseRunning ==
  /\ At("named")
  /\ gRunning' = TRUE
  /\ GoTo("onStart")
  /\ UNCHANGED <<loopWork, gStarted, gReadyFlag, host, hop, stopAsked>>

\* The wrapper rda_init puts around on_start ends in markReady.
OnStart ==
  /\ At("onStart")
  /\ gReadyFlag' = TRUE
  /\ GoTo("head")
  /\ UNCHANGED <<loopWork, gRunning, gStarted, host, hop, stopAsked>>

\* Mutant: the loop ends with its last window only.
LoopHeadIgnoresStop ==
  /\ At("head")
  /\ GoTo("pump")
  /\ UNCHANGED <<loopWork, flags, host, hop, stopAsked>>

LoopHead ==
  /\ At("head")
  /\ GoTo(IF gRunning THEN "pump" ELSE "ended")
  /\ UNCHANGED <<loopWork, flags, host, hop, stopAsked>>

\* pumpEvents: a window is still open, or none is and the loop ends.
Pump ==
  /\ At("pump")
  /\ GoTo("service")
  /\ UNCHANGED <<loopWork, flags, host, hop, stopAsked>>

LastWindowCloses ==
  /\ At("pump")
  /\ GoTo("ended")
  /\ UNCHANGED <<loopWork, flags, host, hop, stopAsked>>

ServiceTakes ==
  /\ At("service") /\ LW!TakeBatch
  /\ GoTo("batch")
  /\ UNCHANGED <<flags, host, hop, stopAsked>>

ServiceRuns ==
  /\ At("batch") /\ (LW!RunNext \/ LW!MarkDone)
  /\ UNCHANGED <<flags, eng, host, hop, stopAsked>>

ServiceEnds ==
  /\ \/ At("batch") /\ LW!NotifyServiced
     \/ At("service") /\ mWaiting = <<>> /\ UNCHANGED loopWork
  /\ GoTo("frame")
  /\ UNCHANGED <<flags, host, hop, stopAsked>>

Frame ==
  /\ At("frame")
  /\ GoTo("head")
  /\ UNCHANGED <<loopWork, flags, host, hop, stopAsked>>

LowerRunning ==
  /\ At("ended")
  /\ gRunning' = FALSE
  /\ GoTo("lowered")
  /\ UNCHANGED <<loopWork, gStarted, gReadyFlag, host, hop, stopAsked>>

\* Mutant: the loop ends without LoopWork's stop.
StopLoopWorkSkipped ==
  /\ At("lowered")
  /\ GoTo("shutdown")
  /\ UNCHANGED <<loopWork, flags, host, hop, stopAsked>>

StopLoopWork ==
  /\ At("lowered")
  /\ \/ LW!Stop /\ UNCHANGED eng
     \/ LW!NotifyStopped /\ GoTo("shutdown")
  /\ UNCHANGED <<flags, host, hop, stopAsked>>

\* The wrapper around on_shutdown begins with markReady; teardown follows.
OnShutdown ==
  /\ At("shutdown")
  /\ gReadyFlag' = TRUE
  /\ GoTo("tearDown")
  /\ UNCHANGED <<loopWork, gRunning, gStarted, host, hop, stopAsked>>

TearDown ==
  /\ At("tearDown")
  /\ GoTo("finished")
  /\ UNCHANGED <<loopWork, flags, host, hop, stopAsked>>

EngineStep ==
  \/ BringUp \/ RaiseRunning \/ OnStart \/ LoopHead \/ Pump
  \/ ServiceTakes \/ ServiceRuns \/ ServiceEnds \/ Frame
  \/ LowerRunning \/ StopLoopWork \/ OnShutdown \/ TearDown

-----------------------------------------------------------------------------
(* rda_init and rda_wait, on the host thread                               *)

\* Mutant: gStarted is raised without being looked at.
InitBeginsTwice ==
  /\ host \in {"out", "up"}
  /\ gStarted' = TRUE
  /\ host' = "resetting"
  /\ UNCHANGED <<loopWork, gRunning, gReadyFlag, eng, hop, stopAsked>>

\* rda_init with gStarted already raised refuses and changes nothing.
InitBegins ==
  /\ host \in {"out", "up"} /\ ~gStarted
  /\ gStarted' = TRUE
  /\ host' = "resetting"
  /\ UNCHANGED <<loopWork, gRunning, gReadyFlag, eng, hop, stopAsked>>

InitResets ==
  /\ host = "resetting"
  /\ gReadyFlag' = FALSE
  /\ host' = "spawning"
  /\ UNCHANGED <<loopWork, gRunning, gStarted, eng, hop, stopAsked>>

\* rendeerRun deletes the previous std::thread object and starts another.
InitSpawns ==
  /\ host = "spawning"
  /\ eng' = "bringUp"
  /\ stopAsked' = FALSE
  /\ host' = "awaiting"
  /\ UNCHANGED <<loopWork, flags, hop>>

InitReady ==
  /\ host = "awaiting" /\ gReadyFlag
  /\ host' = IF gRunning THEN "up" ELSE "joining"
  /\ UNCHANGED <<loopWork, flags, eng, hop, stopAsked>>

\* Thirty seconds without a word, then rendeerStop and rendeerWait.  The word
\* may still come between wait_for's last look at the flag and rendeerStop.
InitGivesUp ==
  /\ BeforeUp => StopBeforeUp
  /\ host = "awaiting"
  /\ gRunning' = FALSE
  /\ stopAsked' = TRUE
  /\ host' = "joining"
  /\ UNCHANGED <<loopWork, gStarted, gReadyFlag, eng, hop>>

WaitBegins ==
  /\ host = "up"
  /\ host' = "joining"
  /\ UNCHANGED <<loopWork, flags, eng, hop, stopAsked>>

\* rendeerWait joins, in rda_wait and on both failing paths of rda_init.
Join ==
  /\ host = "joining" /\ eng = "finished"
  /\ eng' = "none"
  /\ host' = "joined"
  /\ UNCHANGED <<loopWork, flags, hop, stopAsked>>

LowerStarted ==
  /\ host = "joined"
  /\ gStarted' = FALSE
  /\ host' = "out"
  /\ UNCHANGED <<loopWork, gRunning, gReadyFlag, eng, hop, stopAsked>>

HostReturns == InitResets \/ InitSpawns \/ InitReady \/ Join \/ LowerStarted
HostStep    == InitBegins \/ InitGivesUp \/ WaitBegins \/ HostReturns

-----------------------------------------------------------------------------
(* rda_stop and the calls that hop, from anywhere                          *)

\* rendeerStop.  Called from another thread or from a callback on the loop.
RdaStop ==
  /\ BeforeUp => StopBeforeUp
  /\ gRunning' = FALSE
  /\ stopAsked' = (stopAsked \/ eng # "none")
  /\ UNCHANGED <<loopWork, gStarted, gReadyFlag, eng, host, hop>>

\* onLoop: the check of gRunning, then, a moment later, the request.
OnLoopChecks(c) ==
  /\ pc[c] = "idle" /\ c \notin hop /\ gRunning
  /\ hop' = hop \cup {c}
  /\ UNCHANGED <<loopWork, flags, eng, host, stopAsked>>

OnLoopAsks(c) ==
  /\ c \in hop /\ LW!Ask(c)
  /\ hop' = hop \ {c}
  /\ UNCHANGED <<flags, eng, host, stopAsked>>

\* An ABI call made on the loop thread itself: from on_start, from a frame (a
\* modal loop inside the pump drives frames too), from work being serviced.
LoopCalls ==
  /\ eng \in {"onStart", "pump", "frame", "batch"} /\ gRunning
  /\ LW!Ask(Loop)
  /\ UNCHANGED <<flags, eng, host, hop, stopAsked>>

InRequest(t) ==
  /\ \/ LW!RunInline(t) \/ LW!FinishInline(t) \/ LW!Refuse(t) \/ LW!Enqueue(t)
     \/ LW!Wake(t) \/ LW!Return(t)
     \/ t \in Hurried /\ LW!Expire(t)
  /\ UNCHANGED <<flags, eng, host, hop, stopAsked>>

Next ==
  \/ EngineStep \/ LastWindowCloses \/ HostStep \/ RdaStop \/ LoopCalls
  \/ \E c \in Callers : OnLoopChecks(c) \/ OnLoopAsks(c)
  \/ \E t \in LW!Threads : InRequest(t)

Spec == Init /\ [][Next]_vars

\* The loop thread and every thread in the middle of a call are scheduled; the
\* loop makes finitely many requests of its own between two steps.  Nobody has
\* to stop or restart the engine, close its window, or wait out a deadline.
Fairness ==
  /\ SF_vars(EngineStep)
  /\ WF_vars(HostReturns)
  /\ \A c \in Callers : WF_vars(OnLoopAsks(c))
  /\ \A t \in LW!Threads : WF_vars(LW!Proceed(t) /\ InRequest(t))

FairSpec == Spec /\ Fairness
-----------------------------------------------------------------------------
(* Properties                                                              *)

EnginePlaces ==
  {"none", "bringUp", "named", "onStart", "head", "pump", "service", "batch",
   "frame", "ended", "lowered", "shutdown", "tearDown", "finished"}

TypeOK ==
  /\ LW!TypeOK
  /\ gRunning \in BOOLEAN /\ gStarted \in BOOLEAN /\ gReadyFlag \in BOOLEAN
  /\ eng \in EnginePlaces
  /\ host \in {"out", "resetting", "spawning", "awaiting", "up", "joining", "joined"}
  /\ hop \subseteq Callers
  /\ stopAsked \in BOOLEAN

\* A caller that sees gRunning finds a loop to hop to: requests are served on
\* the loop thread from before the flag is raised until after it is lowered
\* (the order of setServiceThread, gRunning and stop in engineMain).
RunningMeansServed == gRunning => mHasServiceThread

\* rda_init answers 1 only once on_start has finished in the run it started,
\* never on the word of an earlier run (markReady and the reset in rda_init).
InitMeansUp ==
  host = "up" => eng \notin {"none", "bringUp", "named", "onStart"}

\* A loop thread is started only when the one before it was joined: deleting a
\* joinable std::thread ends the process (gStarted, rendeerRun, rda_wait).
OneLoopThread == [][eng' = "bringUp" => eng \in {"none", "bringUp"}]_vars

\* Every start is of one loop and answered by it: the flags other threads read
\* say no more of engineMain than is so, in the first run and in every later one
\* (gRunning, gStarted, gReadyFlag and LoopWork's own flag).
StartsAreSound == [](RunningMeansServed /\ InitMeansUp) /\ OneLoopThread

\* Every ABI call that touches engine state does so on the loop thread: none
\* runs its work where it was made (RendeerC.cpp, the comment on the hop).
OnlyLoopTouchesEngine == \A c \in Callers : pc[c] # "inline"

\* rda_stop is obeyed: once somebody has called it while a loop exists, that
\* loop ends (rendeerStop, engineMain).
StopEndsTheLoop == stopAsked ~> (eng \in {"none", "finished"})

\* rda_init always comes back, with an engine that is up or with none left
\* behind (the handshake in rda_init, and markReady in both callbacks).
InitReturns == (host = "awaiting") ~> (host \in {"up", "joined"})

\* A caller inside request() is released by the loop or by its end, without its
\* deadline, wherever engineMain happens to be (service and stop in engineMain).
CallersReleased ==
  \A c \in Callers : LW!Alive(c) ~> (~LW!Alive(c) \/ LW!LostInRestart(c))

\* Nobody waits for a loop that will not answer, neither the host thread inside
\* rda_init nor a caller inside request (engineMain's callbacks and its end).
NobodyIsStranded == InitReturns /\ CallersReleased
=============================================================================
