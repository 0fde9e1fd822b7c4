------------------------------ MODULE AbiProofs ------------------------------
(***************************************************************************)
(* What holds at the C interface: of the engine it starts and stops, and   *)
(* of the queue of commands it is polled for.                              *)
(*                                                                         *)
(* The engine's life, for any number of callers.  Every step of Engine is  *)
(* a step of LoopWork or leaves LoopWork alone, so what is proved of       *)
(* LoopWork holds inside the engine; and the flags, the place of           *)
(* engineMain and the place of the host thread keep in step.               *)
(*                                                                         *)
(* The queue, for every set of commands, every size of it and of a poll,   *)
(* and any number of runs, invocations and calls: the commands a backend   *)
(* collects are those that were invoked, in order, each once and in the    *)
(* run that invoked it, and none is lost without a word.                   *)
(***************************************************************************)
EXTENDS Engine, Backends, TLAPS

-----------------------------------------------------------------------------
(* The engine                                                              *)

LEMMA LoopWorkStep == [Next]_vars => [LW!Next]_(LW!vars)
<1> SUFFICES ASSUME [Next]_vars PROVE [LW!Next]_(LW!vars)
  OBVIOUS
<1> USE DEF LW!Next, LW!Request, LW!Service, LW!vars, LW!queueVars,
            LW!loopVars, LW!callerVars, loopWork
<1>1. CASE EngineStep
  <2>1. CASE BringUp
    BY <2>1 DEF BringUp
  <2>2. CASE ServiceTakes
    BY <2>2 DEF ServiceTakes
  <2>3. CASE ServiceRuns
    BY <2>3 DEF ServiceRuns
  <2>4. CASE ServiceEnds
    BY <2>4 DEF ServiceEnds
  <2>5. CASE StopLoopWork
    BY <2>5 DEF StopLoopWork
  <2>6. CASE RaiseRunning \/ OnStart \/ LoopHead \/ Pump \/ Frame
             \/ LowerRunning \/ OnShutdown \/ TearDown
    BY <2>6 DEF RaiseRunning, OnStart, LoopHead, Pump, Frame, LowerRunning,
                OnShutdown, TearDown
  <2>7. QED BY <1>1, <2>1, <2>2, <2>3, <2>4, <2>5, <2>6 DEF EngineStep
<1>2. CASE HostStep
  BY <1>2 DEF HostStep, HostReturns, InitBegins, InitResets, InitSpawns,
              InitReady, InitGivesUp, WaitBegins, Join, LowerStarted
<1>3. CASE LastWindowCloses \/ RdaStop
  BY <1>3 DEF LastWindowCloses, RdaStop
<1>4. CASE LoopCalls
  BY <1>4 DEF LoopCalls, LW!Threads
<1>5. CASE \E c \in Callers : OnLoopChecks(c) \/ OnLoopAsks(c)
  BY <1>5 DEF OnLoopChecks, OnLoopAsks, LW!Threads
<1>6. CASE \E t \in LW!Threads : InRequest(t)
  BY <1>6 DEF InRequest
<1>7. CASE UNCHANGED vars
  BY <1>7 DEF vars
<1>8. QED BY <1>1, <1>2, <1>3, <1>4, <1>5, <1>6, <1>7 DEF Next

\* The engine uses LoopWork as it is: whatever the host and the loop thread do,
\* its variables move only as LoopWork's own code moves them.
THEOREM EngineRunsLoopWork == Spec => LW!Spec
<1>1. Init => LW!Init
  BY DEF Init
<1>2. QED BY <1>1, LoopWorkStep, PTL DEF Spec, LW!Spec
-----------------------------------------------------------------------------
(* The flags keep in step.  The loop thread exists while the host is        *)
(* between rendeerRun and the end of rendeerWait, LoopWork has a service     *)
(* thread over a stretch of engineMain that contains every place where       *)
(* gRunning is up, and the word of a run is only given past on_start.        *)

Early == {"none", "bringUp", "named", "onStart"}

Served ==
  /\ eng \in {"none", "bringUp", "shutdown", "tearDown", "finished"} => svc = "off"
  /\ eng \in {"named", "onStart", "head", "pump", "service", "frame", "ended"}
       => svc = "between"
  /\ eng = "batch" => svc \in {"running", "serviced"}
  /\ eng = "lowered" => svc \in {"between", "stopping"}
  /\ svc \in {"between", "running", "serviced"} => mHasServiceThread
  /\ gRunning => eng \in {"onStart", "head", "pump", "service", "batch", "frame", "ended"}

Hosted ==
  /\ eng \in EnginePlaces
  /\ host \in {"out", "resetting", "spawning", "awaiting", "up", "joining", "joined"}
  /\ eng = "none" <=> host \in {"out", "resetting", "spawning", "joined"}
  /\ host # "out" => gStarted
  /\ host = "spawning" => ~gReadyFlag
  /\ host = "awaiting" /\ eng \in Early => ~gReadyFlag
  /\ host = "up" => eng \notin Early

IInv == Served /\ Hosted

LEMMA IInvInit == Init => IInv
BY DEF Init, IInv, Served, Hosted, EnginePlaces, LW!Init

\* A step of engineMain moves its place, LoopWork's place and the flags together.
LEMMA EngineMoves == IInv /\ (EngineStep \/ LastWindowCloses) => IInv'
<1> SUFFICES ASSUME IInv, EngineStep \/ LastWindowCloses PROVE IInv'
  OBVIOUS
<1> USE DEF IInv, Served, Hosted, EnginePlaces, Early, flags, loopWork, At, GoTo
<1>1. CASE BringUp
  BY <1>1 DEF BringUp, LW!SetServiceThread
<1>2. CASE RaiseRunning
  BY <1>2 DEF RaiseRunning
<1>3. CASE OnStart
  BY <1>3 DEF OnStart
<1>4. CASE LoopHead
  BY <1>4 DEF LoopHead
<1>5. CASE Pump \/ LastWindowCloses \/ Frame
  BY <1>5 DEF Pump, LastWindowCloses, Frame
<1>6. CASE ServiceTakes
  BY <1>6 DEF ServiceTakes, LW!TakeBatch
<1>7. CASE ServiceRuns
  BY <1>7 DEF ServiceRuns, LW!RunNext, LW!MarkDone, LW!queueVars, LW!AtLoop
<1>8. CASE ServiceEnds
  BY <1>8 DEF ServiceEnds, LW!NotifyServiced, LW!queueVars
<1>9. CASE LowerRunning
  BY <1>9 DEF LowerRunning
<1>10. CASE StopLoopWork
  BY <1>10 DEF StopLoopWork, LW!Stop, LW!NotifyStopped, LW!AtLoop, LW!queueVars
<1>11. CASE OnShutdown \/ TearDown
  BY <1>11 DEF OnShutdown, TearDown
<1>12. QED
  BY <1>1, <1>2, <1>3, <1>4, <1>5, <1>6, <1>7, <1>8, <1>9, <1>10, <1>11
     DEF EngineStep

\* The host thread starts a loop thread only where there is none.
LEMMA HostMoves == IInv /\ HostStep => IInv'
<1> SUFFICES ASSUME IInv, HostStep PROVE IInv'
  OBVIOUS
<1> USE DEF IInv, Served, Hosted, EnginePlaces, Early, flags, loopWork
<1>1. CASE InitBegins
  BY <1>1 DEF InitBegins
<1>2. CASE InitResets
  BY <1>2 DEF InitResets
<1>3. CASE InitSpawns
  BY <1>3 DEF InitSpawns
<1>4. CASE InitReady
  BY <1>4 DEF InitReady
<1>5. CASE InitGivesUp \/ WaitBegins
  BY <1>5 DEF InitGivesUp, WaitBegins
<1>6. CASE Join \/ LowerStarted
  BY <1>6 DEF Join, LowerStarted
<1>7. QED BY <1>1, <1>2, <1>3, <1>4, <1>5, <1>6 DEF HostStep, HostReturns

\* A caller, and the loop thread as a caller, moves neither LoopWork's loop side
\* nor any flag; rda_stop only lowers one.
LEMMA CallersMove ==
  IInv /\ (\/ RdaStop \/ LoopCalls
           \/ \E c \in Callers : OnLoopChecks(c) \/ OnLoopAsks(c)
           \/ \E t \in LW!Threads : InRequest(t))
    => IInv'
<1> DEFINE Still == UNCHANGED <<svc, mHasServiceThread, gStarted, gReadyFlag, eng, host>>
<1>1. RdaStop => Still /\ ~gRunning'
  BY DEF RdaStop, loopWork
<1>2. \A t : LW!Ask(t) => UNCHANGED <<svc, mHasServiceThread>>
  BY DEF LW!Ask, LW!queueVars, LW!loopVars
<1>3. LoopCalls => Still /\ UNCHANGED gRunning
  BY <1>2 DEF LoopCalls, flags
<1>4. \A c : OnLoopChecks(c) \/ OnLoopAsks(c) => Still /\ UNCHANGED gRunning
  BY <1>2 DEF OnLoopChecks, OnLoopAsks, flags, loopWork
<1>5. \A t : InRequest(t) => Still /\ UNCHANGED gRunning
  BY DEF InRequest, flags, LW!RunInline, LW!FinishInline, LW!Refuse, LW!Enqueue,
         LW!Wake, LW!WakeSatisfied, LW!WakeUnsatisfied, LW!Expire, LW!LeaveWait,
         LW!Return, LW!queueVars, LW!loopVars
<1>6. IInv /\ Still /\ (UNCHANGED gRunning \/ ~gRunning') => IInv'
  BY DEF IInv, Served, Hosted
<1>7. QED BY <1>1, <1>3, <1>4, <1>5, <1>6

LEMMA IInvStep == IInv /\ [Next]_vars => IInv'
<1>1. IInv /\ UNCHANGED vars => IInv'
  BY DEF IInv, Served, Hosted, vars, flags, loopWork
<1>2. QED BY <1>1, EngineMoves, HostMoves, CallersMove DEF Next

\* A caller that sees gRunning up finds LoopWork with a service thread, for any
\* number of callers and through any number of runs.
THEOREM RunningIsServed == Spec => []RunningMeansServed
<1>1. IInv => RunningMeansServed
  BY DEF IInv, Served, RunningMeansServed
<1>2. QED BY <1>1, IInvInit, IInvStep, PTL DEF Spec

\* rda_init answers 1 only for an engine whose own on_start has finished.
THEOREM InitAnswersForThisRun == Spec => []InitMeansUp
<1>1. IInv => InitMeansUp
  BY DEF IInv, Hosted, Early, InitMeansUp
<1>2. QED BY <1>1, IInvInit, IInvStep, PTL DEF Spec

\* A loop thread is started only where the previous one has been joined.
THEOREM LoopThreadsNeverOverlap == Spec => OneLoopThread
<1> DEFINE Apart == eng' = "bringUp" => eng \in {"none", "bringUp"}
<1>1. IInv /\ [Next]_vars => Apart
  <2> SUFFICES ASSUME IInv, [Next]_vars, eng' = "bringUp", eng' # eng
               PROVE  eng = "none"
    OBVIOUS
  <2>1. CASE InitSpawns
    BY <2>1 DEF InitSpawns, IInv, Hosted
  <2>2. CASE ~InitSpawns
    <3>1. ~(EngineStep \/ LastWindowCloses)
      BY DEF EngineStep, BringUp, RaiseRunning, OnStart, LoopHead, Pump,
             ServiceTakes, ServiceRuns, ServiceEnds, Frame, LowerRunning,
             StopLoopWork, OnShutdown, TearDown, LastWindowCloses, GoTo
    <3>2. ~HostStep
      BY <2>2 DEF HostStep, HostReturns, InitBegins, InitResets, InitReady,
                  InitGivesUp, WaitBegins, Join, LowerStarted
    <3>3. ~RdaStop /\ ~LoopCalls
      BY DEF RdaStop, LoopCalls
    <3>4. \A c : ~OnLoopChecks(c) /\ ~OnLoopAsks(c) /\ ~InRequest(c)
      BY DEF OnLoopChecks, OnLoopAsks, InRequest
    <3>5. QED BY <3>1, <3>2, <3>3, <3>4 DEF Next, vars
  <2>3. QED BY <2>1, <2>2
<1>2. QED BY <1>1, IInvInit, IInvStep, PTL DEF Spec, OneLoopThread

\* The three together: what is said of a start is so, for any number of callers
\* and of runs (rda_init, rda_wait, engineMain).
THEOREM EveryStartIsSound == Spec => StartsAreSound
BY RunningIsServed, InitAnswersForThisRun, LoopThreadsNeverOverlap, PTL DEF StartsAreSound

-----------------------------------------------------------------------------
(* The queue                                                               *)

(* The numbers of invocations are counted up, and no run is yet to come.   *)
Numbered ==
  /\ run \in Nat /\ fired \in Seq(Nat) /\ gPending \in Seq(Nat) /\ seen \in Seq(Nat)
  /\ gWarnedOverflow \in BOOLEAN
  /\ \A n \in 1 .. Len(fired) : fired[n] <= run
  /\ \A i \in 1 .. Len(seen) : seen[i] \in 1 .. Len(fired)

(* What waits is the latest that was invoked, and all of this run; so the  *)
(* one at the head of a full queue is a whole queue behind the next.       *)
AreLatest(s, f, r) ==
  /\ Len(s) <= kMaxPending /\ Len(s) <= Len(f)
  /\ \A i \in 1 .. Len(s) : s[i] = Len(f) - Len(s) + i /\ f[s[i]] = r
Latest == AreLatest(gPending, fired, run)

(* What was handled came before what waits, and in order. *)
Ordered(s) == \A i, j \in 1 .. Len(s) : i < j => s[i] < s[j]
Handled ==
  /\ Ordered(seen)
  /\ \A i \in 1 .. Len(seen) : seen[i] <= Len(fired) - Len(gPending)

(* The flag says that this run has warned. *)
Warned == gWarnedOverflow => logged = run

(* Where a command is that this run invoked: LossIsAnnounced, also while   *)
(* the engine winds down.                                                  *)
WasHandled(n) == \E i \in 1 .. Len(seen) : seen[i] = n
Waits(n) == \E i \in 1 .. Len(gPending) : gPending[i] = n
WasLost(n) == n \in lost /\ logged = run /\ \E k \in n + kMaxPending .. Len(fired) : fired[k] = run
Kept == \A n \in 1 .. Len(fired) : fired[n] = run => WasHandled(n) \/ Waits(n) \/ WasLost(n)

QInv == Numbered /\ Latest /\ Handled /\ Warned /\ Kept
BackendsInv == BackendsTypeOK /\ QInv

-----------------------------------------------------------------------------
(* Sequences, element by element. *)

LEMMA Appended ==
  ASSUME NEW s \in Seq(Nat), NEW e \in Nat
  PROVE  /\ Append(s, e) \in Seq(Nat) /\ Len(s) \in Nat /\ Len(Append(s, e)) = Len(s) + 1
         /\ \A i \in 1 .. Len(s) : Append(s, e)[i] = s[i] /\ s[i] \in Nat
         /\ Append(s, e)[Len(s) + 1] = e
OBVIOUS

LEMMA Tailed ==
  ASSUME NEW s \in Seq(Nat), s # << >>
  PROVE  /\ Tail(s) \in Seq(Nat) /\ Len(s) \in Nat /\ Len(s) > 0 /\ Len(Tail(s)) = Len(s) - 1
         /\ \A i \in 1 .. Len(s) - 1 : Tail(s)[i] = s[i + 1] /\ s[i + 1] \in Nat
         /\ Head(s) = s[1] /\ s[1] \in Nat
OBVIOUS

(* What waits less its head is still the latest. *)
LEMMA TailIsLatest ==
  ASSUME NEW s \in Seq(Nat), NEW f \in Seq(Nat), NEW r, AreLatest(s, f, r), s # << >>
  PROVE  /\ AreLatest(Tail(s), f, r)
         /\ Head(s) = Len(f) - Len(s) + 1
         /\ Head(s) \in 1 .. Len(f) /\ f[Head(s)] = r
<1> USE Tailed
<1>1. Len(f) \in Nat
  OBVIOUS
<1>2. /\ Head(s) = s[1] /\ s[1] = Len(f) - Len(s) + 1 /\ f[s[1]] = r
      /\ Len(s) <= kMaxPending /\ Len(s) <= Len(f)
  BY DEF AreLatest
<1>3. AreLatest(Tail(s), f, r)
  <2> SUFFICES ASSUME NEW i \in 1 .. Len(Tail(s))
               PROVE  Tail(s)[i] = Len(f) - Len(Tail(s)) + i /\ f[Tail(s)[i]] = r
    BY <1>1, <1>2, BackendsAssumption DEF AreLatest
  <2>1. i + 1 \in 1 .. Len(s) /\ Tail(s)[i] = s[i + 1]
    OBVIOUS
  <2>2. s[i + 1] = Len(f) - Len(s) + (i + 1) /\ f[s[i + 1]] = r
    BY <2>1 DEF AreLatest
  <2> QED
    BY <1>1, <2>1, <2>2
<1> QED
  BY <1>1, <1>2, <1>3

(* What waits with the next one is the latest again. *)
LEMMA AppendIsLatest ==
  ASSUME NEW s \in Seq(Nat), NEW f \in Seq(Nat), NEW r \in Nat, AreLatest(s, f, r), Len(s) < kMaxPending
  PROVE  AreLatest(Append(s, Len(f) + 1), Append(f, r), r)
<1> DEFINE n == Len(f) + 1
           t == Append(s, n)
           g == Append(f, r)
<1>1. /\ Len(f) \in Nat /\ Len(g) = n /\ g[n] = r
      /\ \A i \in 1 .. Len(f) : g[i] = f[i]
  BY Appended
<1>2. /\ Len(s) \in Nat /\ Len(t) = Len(s) + 1 /\ t[Len(s) + 1] = n
      /\ \A i \in 1 .. Len(s) : t[i] = s[i]
  BY <1>1, Appended
<1>3. /\ Len(s) <= Len(f)
      /\ \A i \in 1 .. Len(s) : s[i] = Len(f) - Len(s) + i /\ f[s[i]] = r
  BY DEF AreLatest
<1> HIDE DEF t, g
<1>4. ASSUME NEW i \in 1 .. Len(t)
      PROVE  t[i] = Len(g) - Len(t) + i /\ g[t[i]] = r
  <2>1. CASE i = Len(s) + 1
    BY <1>1, <1>2, <2>1
  <2>2. CASE i # Len(s) + 1
    <3>1. i \in 1 .. Len(s)
      BY <1>2, <2>2
    <3>2. t[i] = Len(f) - Len(s) + i /\ f[t[i]] = r
      BY <1>2, <1>3, <3>1
    <3>3. t[i] \in 1 .. Len(f)
      BY <1>1, <1>2, <1>3, <3>1, <3>2
    <3>4. g[t[i]] = f[t[i]]
      BY <1>1, <3>3
    <3>5. Len(g) - Len(t) = Len(f) - Len(s)
      BY <1>1, <1>2
    <3> QED
      BY <3>2, <3>4, <3>5
  <2> QED
    BY <2>1, <2>2
<1>5. Len(t) <= kMaxPending /\ Len(t) <= Len(g)
  BY <1>1, <1>2, <1>3, BackendsAssumption
<1>6. AreLatest(t, g, r)
  BY <1>4, <1>5 DEF AreLatest
<1> QED
  BY <1>6 DEF t, g

(* What was handled stays in order when a later one is. *)
LEMMA AppendIsOrdered ==
  ASSUME NEW s \in Seq(Nat), NEW e \in Nat, Ordered(s), \A i \in 1 .. Len(s) : s[i] < e
  PROVE  Ordered(Append(s, e))
<1> DEFINE t == Append(s, e)
<1>1. /\ Len(s) \in Nat /\ Len(t) = Len(s) + 1 /\ t[Len(s) + 1] = e
      /\ \A i \in 1 .. Len(s) : t[i] = s[i] /\ s[i] \in Nat
  BY Appended
<1> HIDE DEF t
<1>2. Ordered(t)
  BY SMTT(30), <1>1 DEF Ordered
<1> QED
  BY <1>2 DEF t

-----------------------------------------------------------------------------
(* At the start nothing was invoked. *)
LEMMA Starts ==
  ASSUME BackendsInit
  PROVE  BackendsInv
<1>1. BackendsTypeOK
  BY BackendsAssumption DEF BackendsInit, BackendsTypeOK, Calls, Works
<1>2. /\ fired \in Seq(Nat) /\ gPending \in Seq(Nat) /\ seen \in Seq(Nat)
      /\ Len(fired) = 0 /\ Len(gPending) = 0 /\ Len(seen) = 0
  BY DEF BackendsInit
<1>3. QInv
  <2>1. 1 .. Len(seen) = {} /\ 1 .. Len(fired) = {}
    BY <1>2
  <2>3. Numbered /\ Warned
    BY <1>2, <2>1 DEF BackendsInit, Numbered, Warned
  <2>4. Handled /\ Kept
    BY <2>1 DEF Handled, Ordered, Kept
  <2>2. Latest
    BY <1>2, BackendsAssumption DEF Latest, AreLatest
  <2> QED
    BY <2>2, <2>3, <2>4 DEF QInv
<1> QED
  BY <1>1, <1>3 DEF BackendsInv

(* A watched command joins what stays in the queue. *)
LEMMA Joined ==
  ASSUME QInv, NEW rest \in Seq(Nat), AreLatest(rest, fired, run),
         Len(rest) < kMaxPending, Len(rest) <= Len(gPending),
         gPending' = Append(rest, Len(fired) + 1), fired' = Append(fired, run),
         gWarnedOverflow' \in BOOLEAN, run' = run, seen' = seen
  PROVE  /\ Numbered' /\ Latest' /\ Handled'
         /\ Len(rest) \in Nat /\ Len(gPending') = Len(rest) + 1
         /\ \A i \in 1 .. Len(rest) : gPending'[i] = rest[i]
         /\ gPending'[Len(rest) + 1] = Len(fired) + 1
         /\ Len(fired) \in Nat /\ Len(fired') = Len(fired) + 1 /\ fired'[Len(fired) + 1] = run
         /\ \A i \in 1 .. Len(fired) : fired'[i] = fired[i]
<1>1. /\ run \in Nat /\ fired \in Seq(Nat) /\ seen \in Seq(Nat) /\ Len(fired) \in Nat /\ Len(seen) \in Nat
      /\ Len(gPending) \in Nat
      /\ \A i \in 1 .. Len(fired) : fired[i] <= run /\ fired[i] \in Nat
      /\ \A i \in 1 .. Len(seen) : seen[i] \in 1 .. Len(fired) /\ seen[i] <= Len(fired) - Len(gPending)
  BY DEF QInv, Numbered, Handled
<1>2. /\ fired' \in Seq(Nat) /\ Len(fired') = Len(fired) + 1 /\ fired'[Len(fired) + 1] = run
      /\ \A i \in 1 .. Len(fired) : fired'[i] = fired[i]
  BY <1>1, Appended
<1>3. /\ gPending' \in Seq(Nat) /\ Len(rest) \in Nat /\ Len(gPending') = Len(rest) + 1
      /\ \A i \in 1 .. Len(rest) : gPending'[i] = rest[i]
      /\ gPending'[Len(rest) + 1] = Len(fired) + 1
  BY <1>1, Appended
<1>4. Numbered'
  <2>1. ASSUME NEW i \in 1 .. Len(fired')
        PROVE  fired'[i] <= run
    <3>1. CASE i = Len(fired) + 1
      BY <1>1, <1>2, <3>1
    <3>2. CASE i \in 1 .. Len(fired)
      BY <1>1, <1>2, <3>2
    <3> QED
      BY <1>1, <1>2, <3>1, <3>2
  <2>2. \A i \in 1 .. Len(seen) : seen[i] \in 1 .. Len(fired')
    BY <1>1, <1>2
  <2> QED
    BY <1>1, <1>2, <1>3, <2>1, <2>2 DEF Numbered
<1>5. Latest'
  BY <1>1, AppendIsLatest DEF Latest
<1>6. Handled'
  <2>1. \A i \in 1 .. Len(seen) : seen[i] <= Len(fired') - Len(gPending')
    BY <1>1, <1>2, <1>3
  <2> QED
    BY <2>1 DEF QInv, Handled
<1> QED
  BY <1>1, <1>2, <1>3, <1>4, <1>5, <1>6

(* What was overwritten by a later one stays so while the history grows.   *)
LEMMA StillLost ==
  ASSUME NEW n \in 1 .. Len(fired), WasLost(n), Len(fired) \in Nat, Len(fired') = Len(fired) + 1,
         \A i \in 1 .. Len(fired) : fired'[i] = fired[i],
         n \in lost', run' = run, logged' = run
  PROVE  WasLost(n)'
<1>1. PICK k \in n + kMaxPending .. Len(fired) : fired[k] = run
  BY DEF WasLost
<1>2. k \in 1 .. Len(fired) /\ k \in n + kMaxPending .. Len(fired')
  BY <1>1, BackendsAssumption
<1>3. fired'[k] = run'
  BY <1>1, <1>2
<1> QED
  BY <1>2, <1>3 DEF WasLost

(* rda_command_watch: when the queue is full its head goes, with a warning. *)
LEMMA Pushed ==
  ASSUME QInv, Queue(Len(fired) + 1), fired' = Append(fired, run), run' = run, seen' = seen
  PROVE  QInv'
<1> DEFINE full == Len(gPending) >= kMaxPending
           rest == IF full THEN Tail(gPending) ELSE gPending
<1>1. /\ gPending' = Append(rest, Len(fired) + 1)
      /\ lost' = IF full THEN lost \cup {Head(gPending)} ELSE lost
      /\ gWarnedOverflow' = (gWarnedOverflow \/ full)
      /\ logged' = IF full /\ ~gWarnedOverflow THEN run ELSE logged
  BY DEF Queue
<1>2. /\ gPending \in Seq(Nat) /\ Len(gPending) \in Nat /\ gWarnedOverflow \in BOOLEAN
      /\ AreLatest(gPending, fired, run) /\ run \in Nat /\ fired \in Seq(Nat)
  BY DEF QInv, Numbered, Latest
<1>3. gWarnedOverflow' \in BOOLEAN
  BY <1>1, <1>2
<1>4. Warned' /\ (logged = run => logged' = run) /\ (full => logged' = run)
  BY <1>1, <1>2 DEF QInv, Warned
<1>5. CASE ~full
  <2>1. rest = gPending /\ Len(rest) < kMaxPending /\ lost' = lost
    BY <1>1, <1>2, <1>5, BackendsAssumption
  <2> HIDE DEF rest
  <2>2. /\ Numbered' /\ Latest' /\ Handled'
        /\ Len(gPending') = Len(gPending) + 1
        /\ \A i \in 1 .. Len(gPending) : gPending'[i] = gPending[i]
        /\ gPending'[Len(gPending) + 1] = Len(fired) + 1
        /\ Len(fired) \in Nat /\ Len(fired') = Len(fired) + 1 /\ fired'[Len(fired) + 1] = run
        /\ \A i \in 1 .. Len(fired) : fired'[i] = fired[i]
    BY <1>1, <1>2, <1>3, <2>1, Joined
  <2>3. ASSUME NEW n \in 1 .. Len(fired'), fired'[n] = run
        PROVE  (WasHandled(n) \/ Waits(n) \/ WasLost(n))'
    <3>1. CASE n = Len(fired) + 1
      BY <1>2, <2>2, <3>1 DEF Waits
    <3>2. CASE n \in 1 .. Len(fired)
      <4>1. WasHandled(n) \/ Waits(n) \/ WasLost(n)
        BY <2>2, <2>3, <3>2 DEF QInv, Kept
      <4>2. CASE WasHandled(n)
        BY <4>2 DEF WasHandled
      <4>3. CASE Waits(n)
        BY <1>2, <2>2, <4>3 DEF Waits
      <4>4. CASE WasLost(n)
        BY <1>4, <2>1, <2>2, <3>2, <4>4, StillLost DEF WasLost
      <4> QED
        BY <4>1, <4>2, <4>3, <4>4
    <3> QED
      BY <2>2, <3>1, <3>2
  <2> QED
    BY <1>4, <2>2, <2>3 DEF QInv, Kept
<1>6. CASE full
  <2>1. Len(gPending) = kMaxPending /\ gPending # << >>
    BY <1>2, <1>6, BackendsAssumption DEF AreLatest
  <2>2. /\ AreLatest(Tail(gPending), fired, run)
        /\ Head(gPending) = Len(fired) - kMaxPending + 1
        /\ Head(gPending) \in 1 .. Len(fired)
    BY <1>2, <2>1, TailIsLatest
  <2>3. /\ Tail(gPending) \in Seq(Nat) /\ Len(Tail(gPending)) = Len(gPending) - 1
        /\ \A i \in 1 .. Len(gPending) - 1 : Tail(gPending)[i] = gPending[i + 1]
        /\ Head(gPending) = gPending[1]
    BY <1>2, <2>1, Tailed
  <2>4. /\ rest = Tail(gPending) /\ Len(rest) < kMaxPending /\ Len(rest) <= Len(gPending)
        /\ lost' = lost \cup {Head(gPending)}
    BY <1>1, <1>2, <1>6, <2>1, <2>3, BackendsAssumption
  <2> HIDE DEF rest
  <2>5. /\ Numbered' /\ Latest' /\ Handled'
        /\ Len(gPending') = Len(gPending)
        /\ \A i \in 1 .. Len(gPending) - 1 : gPending'[i] = gPending[i + 1]
        /\ gPending'[Len(gPending)] = Len(fired) + 1
        /\ Len(fired) \in Nat /\ Len(fired') = Len(fired) + 1 /\ fired'[Len(fired) + 1] = run
        /\ \A i \in 1 .. Len(fired) : fired'[i] = fired[i]
    <3>1. /\ Numbered' /\ Latest' /\ Handled'
          /\ Len(rest) \in Nat /\ Len(gPending') = Len(rest) + 1
          /\ \A i \in 1 .. Len(rest) : gPending'[i] = rest[i]
          /\ gPending'[Len(rest) + 1] = Len(fired) + 1
          /\ Len(fired) \in Nat /\ Len(fired') = Len(fired) + 1 /\ fired'[Len(fired) + 1] = run
          /\ \A i \in 1 .. Len(fired) : fired'[i] = fired[i]
      BY <1>1, <1>3, <2>2, <2>3, <2>4, Joined
    <3>2. Len(rest) = Len(gPending) - 1 /\ Len(rest) + 1 = Len(gPending)
      BY <1>2, <2>3, <2>4
    <3> QED
      BY <2>3, <2>4, <3>1, <3>2
  <2>6. ASSUME NEW n \in 1 .. Len(fired'), fired'[n] = run
        PROVE  (WasHandled(n) \/ Waits(n) \/ WasLost(n))'
    <3>1. CASE n = Len(fired) + 1
      BY <1>2, <2>1, <2>5, <3>1, BackendsAssumption DEF Waits
    <3>2. CASE n \in 1 .. Len(fired)
      <4>1. WasHandled(n) \/ Waits(n) \/ WasLost(n)
        BY <2>5, <2>6, <3>2 DEF QInv, Kept
      <4>2. CASE WasHandled(n)
        BY <4>2 DEF WasHandled
      <4>3. CASE n = Head(gPending)
        <5>1. Len(fired) + 1 \in n + kMaxPending .. Len(fired')
          BY <2>2, <2>5, <4>3, BackendsAssumption
        <5> QED
          BY <1>4, <1>6, <2>4, <2>5, <4>3, <5>1 DEF WasLost
      <4>4. CASE Waits(n) /\ n # Head(gPending)
        <5>1. PICK i \in 1 .. Len(gPending) : gPending[i] = n
          BY <4>4 DEF Waits
        <5>2. i - 1 \in 1 .. Len(gPending) - 1
          BY <1>2, <2>3, <4>4, <5>1
        <5>3. gPending'[i - 1] = n
          BY <2>5, <5>1, <5>2
        <5>4. i - 1 \in 1 .. Len(gPending')
          BY <1>2, <2>5, <5>2
        <5> QED
          BY <5>3, <5>4 DEF Waits
      <4>5. CASE WasLost(n)
        BY <1>4, <2>4, <2>5, <3>2, <4>5, StillLost DEF WasLost
      <4> QED
        BY <4>1, <4>2, <4>3, <4>4, <4>5
    <3> QED
      BY <2>5, <3>1, <3>2
  <2> QED
    BY <1>4, <2>5, <2>6 DEF QInv, Kept
<1> QED
  BY <1>5, <1>6

(* A step that leaves the queue and the history alone. *)
LEMMA Untouched ==
  ASSUME QInv, UNCHANGED <<run, queue, fired, seen>>
  PROVE  QInv'
<1>1. Numbered' /\ Latest' /\ Handled' /\ Warned'
  BY DEF queue, QInv, Numbered, Latest, Handled, Warned, AreLatest, Ordered
<1>2. Kept'
  BY DEF queue, QInv, Kept, WasHandled, Waits, WasLost
<1> QED
  BY <1>1, <1>2 DEF QInv

(* Commands::invoke, from a click or for Node's thread. *)
LEMMA Invoked ==
  ASSUME QInv, NEW c \in Names, Invoke(c), run' = run, seen' = seen
  PROVE  QInv'
<1>1. CASE fired' = Append(fired, run) /\ Queue(Len(fired) + 1)
  BY <1>1, Pushed
<1>2. CASE UNCHANGED <<fired, queue>>
  BY <1>2, Untouched
<1> QED
  BY <1>1, <1>2 DEF Invoke

(* rda_init: nothing was invoked in the run that begins. *)
LEMMA Began ==
  ASSUME QInv, rda_init
  PROVE  QInv'
<1>1. /\ run \in Nat /\ fired \in Seq(Nat) /\ seen \in Seq(Nat)
      /\ Len(fired) \in Nat /\ Len(seen) \in Nat
      /\ \A n \in 1 .. Len(fired) : fired[n] <= run /\ fired[n] \in Nat
      /\ \A i \in 1 .. Len(seen) : seen[i] \in 1 .. Len(fired) /\ seen[i] \in Nat
      /\ Ordered(seen)
  BY DEF QInv, Numbered, Handled
<1>2. /\ run' = run + 1 /\ gPending' = << >> /\ gWarnedOverflow' = FALSE
      /\ fired' = fired /\ seen' = seen
      /\ gPending' \in Seq(Nat) /\ Len(gPending') = 0
  BY DEF rda_init
<1>3. \A n \in 1 .. Len(fired) : fired[n] < run + 1 /\ fired[n] <= run + 1
  BY <1>1
<1>4. Numbered'
  <2>1. run + 1 \in Nat
    BY <1>1
  <2> QED
    BY <1>1, <1>2, <1>3, <2>1 DEF Numbered
<1>5. Latest'
  BY <1>1, <1>2, BackendsAssumption DEF Latest, AreLatest
<1>6. Handled'
  BY <1>1, <1>2 DEF Handled, Ordered
<1>7. Warned' /\ Kept'
  BY <1>1, <1>2, <1>3 DEF Warned, Kept
<1> QED
  BY <1>4, <1>5, <1>6, <1>7 DEF QInv

(* rda_poll_command: the head of the queue is handled. *)
LEMMA Polled ==
  ASSUME QInv, PollCommand
  PROVE  QInv'
<1> DEFINE h == Head(gPending)
<1>1. /\ gPending # << >> /\ gPending' = Tail(gPending) /\ seen' = Append(seen, h)
      /\ run' = run /\ fired' = fired /\ gWarnedOverflow' = gWarnedOverflow
      /\ lost' = lost /\ logged' = logged
  BY DEF PollCommand
<1>2. /\ gPending \in Seq(Nat) /\ seen \in Seq(Nat) /\ AreLatest(gPending, fired, run)
      /\ run \in Nat /\ fired \in Seq(Nat) /\ gWarnedOverflow \in BOOLEAN
      /\ Len(fired) \in Nat /\ Len(seen) \in Nat /\ Len(gPending) \in Nat
      /\ \A n \in 1 .. Len(fired) : fired[n] <= run
      /\ \A i \in 1 .. Len(seen) : /\ seen[i] \in 1 .. Len(fired) /\ seen[i] \in Nat
                                   /\ seen[i] <= Len(fired) - Len(gPending)
      /\ Ordered(seen)
  BY DEF QInv, Numbered, Latest, Handled
<1>3. /\ AreLatest(Tail(gPending), fired, run)
      /\ h = Len(fired) - Len(gPending) + 1
      /\ h \in 1 .. Len(fired) /\ h \in Nat
  BY <1>1, <1>2, TailIsLatest
<1>4. /\ gPending' \in Seq(Nat) /\ Len(gPending') = Len(gPending) - 1
      /\ \A i \in 1 .. Len(gPending) - 1 : gPending'[i] = gPending[i + 1]
      /\ h = gPending[1]
  BY <1>1, <1>2, Tailed
<1>5. /\ seen' \in Seq(Nat) /\ Len(seen') = Len(seen) + 1
      /\ \A i \in 1 .. Len(seen) : seen'[i] = seen[i]
      /\ seen'[Len(seen) + 1] = h
  BY <1>1, <1>2, <1>3, Appended
<1> HIDE DEF h
<1>6. ASSUME NEW i \in 1 .. Len(seen)
      PROVE  seen[i] < h
  <2>1. seen[i] \in Nat /\ seen[i] <= Len(fired) - Len(gPending)
    BY <1>2
  <2>2. Len(fired) \in Nat /\ Len(gPending) \in Nat /\ h = Len(fired) - Len(gPending) + 1
    BY <1>2, <1>3
  <2> QED
    BY <2>1, <2>2
<1>7. Numbered'
  <2>1. ASSUME NEW i \in 1 .. Len(seen')
        PROVE  seen'[i] \in 1 .. Len(fired)
    <3>1. CASE i = Len(seen) + 1
      BY <1>3, <1>5, <3>1
    <3>2. CASE i \in 1 .. Len(seen)
      BY <1>2, <1>5, <3>2
    <3> QED
      BY <1>2, <1>5, <3>1, <3>2
  <2> QED
    BY <1>1, <1>2, <1>4, <1>5, <2>1 DEF Numbered
<1>8. Latest'
  BY <1>1, <1>3 DEF Latest
<1>9. Handled'
  <2>1. Ordered(seen')
    BY <1>1, <1>2, <1>3, <1>6, AppendIsOrdered DEF h
  <2>2. ASSUME NEW i \in 1 .. Len(seen')
        PROVE  seen'[i] <= Len(fired) - Len(gPending')
    <3>1. CASE i = Len(seen) + 1
      BY <1>2, <1>3, <1>4, <1>5, <3>1
    <3>2. CASE i \in 1 .. Len(seen)
      <4>1. seen[i] \in Nat /\ seen[i] <= Len(fired) - Len(gPending) /\ seen'[i] = seen[i]
        BY <1>2, <1>5, <3>2
      <4> QED
        BY <1>2, <1>4, <4>1
    <3> QED
      BY <1>2, <1>5, <3>1, <3>2
  <2> QED
    BY <1>1, <2>1, <2>2 DEF Handled
<1>10. Warned'
  BY <1>1 DEF QInv, Warned
<1>11. ASSUME NEW n \in 1 .. Len(fired), fired[n] = run
       PROVE  (WasHandled(n) \/ Waits(n) \/ WasLost(n))'
  <2>1. WasHandled(n) \/ Waits(n) \/ WasLost(n)
    BY <1>11 DEF QInv, Kept
  <2>2. CASE WasHandled(n)
    <3>1. PICK i \in 1 .. Len(seen) : seen[i] = n
      BY <2>2 DEF WasHandled
    <3>2. seen'[i] = n
      BY <1>5, <3>1
    <3>3. i \in 1 .. Len(seen')
      BY <1>2, <1>5
    <3> QED
      BY <3>2, <3>3 DEF WasHandled
  <2>3. CASE n = h
    <3>1. Len(seen) + 1 \in 1 .. Len(seen') /\ seen'[Len(seen) + 1] = n
      BY <1>2, <1>5, <2>3
    <3> QED
      BY <3>1 DEF WasHandled
  <2>4. CASE Waits(n) /\ n # h
    <3>1. PICK i \in 1 .. Len(gPending) : gPending[i] = n
      BY <2>4 DEF Waits
    <3>2. i - 1 \in 1 .. Len(gPending) - 1
      BY <1>2, <1>4, <2>4, <3>1
    <3>3. gPending'[i - 1] = n
      BY <1>4, <3>1, <3>2
    <3>4. i - 1 \in 1 .. Len(gPending')
      BY <1>4, <3>2
    <3> QED
      BY <3>3, <3>4 DEF Waits
  <2>5. CASE WasLost(n)
    BY <1>1, <2>5 DEF WasLost
  <2> QED
    BY <2>1, <2>2, <2>3, <2>4, <2>5
<1>12. Kept'
  BY <1>1, <1>11 DEF Kept
<1> QED
  BY <1>7, <1>8, <1>9, <1>10, <1>12 DEF QInv

-----------------------------------------------------------------------------
(* Every step keeps it. *)
LEMMA Steps ==
  ASSUME BackendsInv, [BackendsNext]_backendVars
  PROVE  BackendsInv'
<1> USE DEF BackendsInv
<1>1. CASE Walks
  BY <1>1, Untouched DEF Walks, queue, poller, BackendsTypeOK
<1>2. CASE Click
  <2>1. PICK c \in Names : Invoke(c)
    BY <1>2 DEF Click
  <2>2. QInv'
    BY <1>2, <2>1, Invoked DEF Click
  <2> QED
    BY <1>2, <2>2 DEF Click, poller, BackendsTypeOK, QInv, Latest, AreLatest
<1>3. CASE Closes
  BY <1>3, Untouched DEF Closes, queue, poller, BackendsTypeOK
<1>4. CASE Service
  <2>1. call.kind \in {"watch", "bind", "invoke", "load"}
        /\ (call.kind # "load" => call.name \in Names)
    BY <1>4 DEF Service, BackendsTypeOK, Calls, NoCall
  <2>2. NoCall \in Calls
    BY DEF Calls
  <2>3. CASE call.kind = "invoke"
    <3>1. Invoke(call.name) /\ UNCHANGED work
      BY <1>4, <2>3 DEF Service, Perform
    <3>2. QInv'
      BY <1>4, <2>1, <2>3, <3>1, Invoked DEF Service
    <3> QED
      BY <1>4, <2>2, <3>1, <3>2 DEF Service, poller, BackendsTypeOK, QInv, Latest, AreLatest
  <2>4. CASE call.kind # "invoke"
    <3>1. UNCHANGED <<queue, fired>> /\ work' \in [Names -> Works]
      BY <1>4, <2>1, <2>4 DEF Service, Perform, Bind, BackendsTypeOK, Works
    <3>2. QInv'
      BY <1>4, <3>1, Untouched DEF Service
    <3> QED
      BY <1>4, <2>2, <3>1, <3>2 DEF Service, queue, poller, BackendsTypeOK
  <2> QED
    BY <2>3, <2>4
<1>5. CASE rda_init
  <2>1. QInv'
    BY <1>5, Began
  <2> QED
    BY <1>5, <2>1, BackendsAssumption DEF rda_init, poller, BackendsTypeOK
<1>6. CASE Ask
  BY <1>6, Untouched DEF Ask, queue, poller, BackendsTypeOK
<1>7. CASE Refused
  BY <1>7, Untouched DEF Refused, queue, poller, BackendsTypeOK, Calls
<1>8. CASE Turn
  BY <1>8, Untouched, BackendsAssumption DEF Turn, queue, BackendsTypeOK
<1>9. CASE PollCommand
  <2>1. QInv'
    BY <1>9, Polled
  <2> QED
    BY <1>9, <2>1, BackendsAssumption DEF PollCommand, BackendsTypeOK, QInv, Latest, AreLatest
<1>10. CASE PollDone
  BY <1>10, Untouched, BackendsAssumption DEF PollDone, queue, BackendsTypeOK
<1>11. CASE UNCHANGED backendVars
  BY <1>11, Untouched DEF backendVars, queue, BackendsTypeOK
<1> QED
  BY <1>1, <1>2, <1>3, <1>4, <1>5, <1>6, <1>7, <1>8, <1>9, <1>10, <1>11 DEF BackendsNext, Collect

LEMMA Inductive == BackendsSpec => []BackendsInv
<1>1. BackendsInit => BackendsInv
  BY Starts
<1>2. BackendsInv /\ [BackendsNext]_backendVars => BackendsInv'
  BY Steps
<1> QED
  BY <1>1, <1>2, PTL DEF BackendsSpec

-----------------------------------------------------------------------------
(* Commands are handled in the order they were invoked, each once and in   *)
(* the run of the engine that invoked them: what was handled followed by   *)
(* what waits always counts up.  (rda_command_watch, rda_poll_command and  *)
(* rda_init.)                                                              *)
THEOREM QueueIsAlwaysSound == BackendsSpec => []QueueIsSound
<1>1. BackendsInv => QueueIsSound
  <2> SUFFICES ASSUME BackendsInv
               PROVE  CollectedInOrder
    BY DEF BackendsInv, QueueIsSound
  <2> DEFINE all == seen \o gPending
  <2>1. /\ gPending \in Seq(Nat) /\ seen \in Seq(Nat) /\ AreLatest(gPending, fired, run)
        /\ fired \in Seq(Nat) /\ Len(fired) \in Nat /\ Len(seen) \in Nat /\ Len(gPending) \in Nat
        /\ \A i \in 1 .. Len(seen) : seen[i] \in Nat /\ seen[i] <= Len(fired) - Len(gPending)
        /\ Ordered(seen)
    BY DEF BackendsInv, QInv, Numbered, Latest, Handled
  <2>2. /\ DOMAIN all = 1 .. Len(seen) + Len(gPending)
        /\ \A i \in 1 .. Len(seen) : all[i] = seen[i]
        /\ \A i \in 1 .. Len(gPending) : all[Len(seen) + i] = gPending[i]
    BY <2>1
  <2> HIDE DEF all
  <2>3. \A i \in 1 .. Len(gPending) : all[Len(seen) + i] = Len(fired) - Len(gPending) + i
    BY <2>1, <2>2 DEF AreLatest
  <2>4. ASSUME NEW i \in DOMAIN all, NEW j \in DOMAIN all, i < j
        PROVE  all[i] < all[j]
    <3>1. CASE j <= Len(seen)
      <4>1. i \in 1 .. Len(seen) /\ j \in 1 .. Len(seen)
        BY <2>1, <2>2, <2>4, <3>1
      <4> QED
        BY <2>1, <2>2, <2>4, <4>1 DEF Ordered
    <3>2. CASE i <= Len(seen) /\ j > Len(seen)
      <4>0. i \in 1 .. Len(seen)
        BY <2>1, <2>2, <3>2
      <4>1. all[i] \in Nat /\ all[i] <= Len(fired) - Len(gPending)
        BY <2>1, <2>2, <4>0
      <4>2. j - Len(seen) \in 1 .. Len(gPending) /\ j = Len(seen) + (j - Len(seen))
        BY <2>1, <2>2, <3>2
      <4>3. all[j] = Len(fired) - Len(gPending) + (j - Len(seen))
        BY <2>3, <4>2
      <4> QED
        BY <2>1, <4>1, <4>2, <4>3
    <3>3. CASE i > Len(seen)
      <4>1. /\ i - Len(seen) \in 1 .. Len(gPending) /\ i = Len(seen) + (i - Len(seen))
            /\ j - Len(seen) \in 1 .. Len(gPending) /\ j = Len(seen) + (j - Len(seen))
        BY <2>1, <2>2, <2>4, <3>3
      <4>2. /\ all[i] = Len(fired) - Len(gPending) + (i - Len(seen))
            /\ all[j] = Len(fired) - Len(gPending) + (j - Len(seen))
        BY <2>3, <4>1
      <4> QED
        BY <2>1, <2>4, <4>1, <4>2
    <3> QED
      BY <2>1, <2>2, <3>1, <3>2, <3>3
  <2>5. Increasing(all)
    BY <2>4 DEF Increasing
  <2>6. \A i \in DOMAIN gPending : fired[gPending[i]] = run
    <3>1. DOMAIN gPending = 1 .. Len(gPending)
      BY <2>1
    <3> QED
      BY <2>1, <3>1 DEF AreLatest
  <2> QED
    BY <2>5, <2>6 DEF CollectedInOrder, all
<1> QED
  BY <1>1, Inductive, PTL

(* While the engine runs, a command this run invoked is handled, waits, or *)
(* was overwritten by one invoked a whole queue later, after a warning of  *)
(* this run in the log.  (rda_command_watch, RendeerC.cpp.)                *)
THEOREM LossIsAlwaysAnnounced == BackendsSpec => []LossIsAnnounced
<1>1. BackendsInv => LossIsAnnounced
  <2> SUFFICES ASSUME BackendsInv, NEW n \in DOMAIN fired, fired[n] = run
               PROVE  \/ \E i \in DOMAIN seen : seen[i] = n
                      \/ \E i \in DOMAIN gPending : gPending[i] = n
                      \/ WasLost(n)
    BY DEF LossIsAnnounced, WasLost
  <2>1. fired \in Seq(Nat) /\ seen \in Seq(Nat) /\ gPending \in Seq(Nat)
    BY DEF BackendsInv, QInv, Numbered
  <2>2. WasHandled(n) \/ Waits(n) \/ WasLost(n)
    BY <2>1 DEF BackendsInv, QInv, Kept
  <2> QED
    BY <2>1, <2>2 DEF WasHandled, Waits
<1> QED
  BY <1>1, Inductive, PTL

=============================================================================
