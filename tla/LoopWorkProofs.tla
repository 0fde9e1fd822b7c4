--------------------------- MODULE LoopWorkProofs ---------------------------
(***************************************************************************)
(* What holds of LoopWork for any number of callers and any deadlines: its *)
(* types, the truth of its answers and the safety of its pointers, and the *)
(* call it implements.  A thread whose deadline passed while the loop held *)
(* its request is excepted until the loop has let go of it; the proofs     *)
(* carry the set of these threads along, as O, and show that they disturb  *)
(* nobody else.                                                            *)
(***************************************************************************)
EXTENDS LoopWork, SequenceTheorems, WellFoundedInduction, TLAPS

\* Taking an element out of a sequence that holds it once, as request() does
\* with its own pointer, takes out that element and nothing else.
LEMMA RemoveAtProperties ==
  ASSUME NEW S, NEW s \in Seq(S), NEW i \in DOMAIN s
  PROVE  /\ RemoveAt(s, i) \in Seq(S)
         /\ Len(RemoveAt(s, i)) = Len(s) - 1
         /\ \A j \in 1 .. Len(s) - 1 :
              RemoveAt(s, i)[j] = IF j < i THEN s[j] ELSE s[j + 1]
<1> DEFINE before == SubSeq(s, 1, i - 1)
           after  == SubSeq(s, i + 1, Len(s))
<1>1. i \in 1 .. Len(s) /\ Len(s) \in Nat
  OBVIOUS
<1>2. /\ before \in Seq(S) /\ Len(before) = i - 1
      /\ \A j \in 1 .. i - 1 : before[j] = s[j]
  <2>1. \A j \in 1 .. i - 1 : s[j] \in S
    BY <1>1
  <2>2. QED BY <1>1, <2>1, SubSeqProperties
<1>3. /\ after \in Seq(S) /\ Len(after) = Len(s) - i
      /\ \A j \in 1 .. Len(s) - i : after[j] = s[i + j]
  <2>1. \A j \in i + 1 .. Len(s) : s[j] \in S
    BY <1>1
  <2>2. /\ after \in Seq(S)
        /\ Len(after) = IF i + 1 <= Len(s) THEN Len(s) - (i + 1) + 1 ELSE 0
        /\ \A j \in 1 .. Len(s) - (i + 1) + 1 : after[j] = s[i + 1 + j - 1]
    BY <1>1, <2>1, SubSeqProperties
  <2>3. QED BY <1>1, <2>2
<1> DEFINE whole == before \o after
<1>4. RemoveAt(s, i) = whole
  BY DEF RemoveAt
<1> HIDE DEF before, after
<1>5. /\ whole \in Seq(S)
      /\ Len(whole) = Len(s) - 1
      /\ \A j \in 1 .. Len(s) - 1 :
           whole[j] = IF j <= i - 1 THEN before[j] ELSE after[j - (i - 1)]
  <2>1. /\ whole \in Seq(S)
        /\ Len(whole) = Len(before) + Len(after)
        /\ \A j \in 1 .. Len(before) + Len(after) :
             whole[j] = IF j <= Len(before) THEN before[j] ELSE after[j - Len(before)]
    BY <1>2, <1>3, ConcatProperties
  <2>2. Len(before) + Len(after) = Len(s) - 1
    BY <1>1, <1>2, <1>3
  <2>3. QED BY <1>2, <2>1, <2>2
<1> HIDE DEF whole
<1>6. ASSUME NEW j \in 1 .. Len(s) - 1
      PROVE  whole[j] = IF j < i THEN s[j] ELSE s[j + 1]
  <2>1. CASE j < i
    BY <1>1, <1>2, <1>5, <2>1
  <2>2. CASE ~(j < i)
    <3>1. j - (i - 1) \in 1 .. Len(s) - i /\ i + (j - (i - 1)) = j + 1
      BY <1>1, <2>2
    <3>2. whole[j] = after[j - (i - 1)]
      <4>1. ~(j <= i - 1)
        BY <1>1, <2>2
      <4>2. QED BY <1>5, <4>1
    <3>3. QED BY <1>3, <2>2, <3>1, <3>2
  <2>3. QED BY <2>1, <2>2
<1>7. QED BY <1>4, <1>5, <1>6

LEMMA LargestOf ==
  ASSUME NEW n \in Nat, NEW T \in SUBSET (1 .. n), T # {}
  PROVE  \E k \in T : \A j \in T : j <= k
<1> DEFINE D == {n - j : j \in T}
<1>1. D \subseteq Nat /\ D # {}
  <2>1. \A j \in T : n - j \in Nat
    OBVIOUS
  <2>2. PICK j \in T : TRUE
    OBVIOUS
  <2>3. n - j \in D
    BY <2>2
  <2>4. QED BY <2>1, <2>3
<1> DEFINE less == {p \in Nat \X Nat : p[1] < p[2]}
<1>2. IsWellFoundedOn(less, Nat)
  BY NatLessThanWellFounded DEF OpToRel
<1> HIDE DEF less
<1>3. PICK d \in D : \A e \in D : ~(<<e, d>> \in less)
  BY <1>1, <1>2, WFMin
<1>4. \A e \in D : ~(e < d)
  BY <1>1, <1>3 DEF less
<1>5. PICK k \in T : d = n - k
  OBVIOUS
<1>6. ASSUME NEW j \in T PROVE j <= k
  <2>1. n - j \in D
    OBVIOUS
  <2>2. ~(n - j < n - k)
    BY <1>4, <1>5, <2>1
  <2>3. QED BY <2>2
<1>7. QED BY <1>6

\* Outside O a pointer stands at one place of the list, and taking t's out
\* takes nothing else out.
LEMMA ErasedProperties ==
  ASSUME NEW S, NEW s \in Seq(S), NEW t, NEW O, OnceBut(s, O)
  PROVE  /\ Erased(s, t) \in Seq(S)
         /\ OnceBut(Erased(s, t), O)
         /\ Range(Erased(s, t)) \subseteq Range(s)
         /\ \A u \in Range(s) : u # t => u \in Range(Erased(s, t))
         /\ t \notin O => t \notin Range(Erased(s, t))
<1>1. CASE Places(s, t) = {}
  BY <1>1 DEF Erased, Places, Range
<1>2. CASE Places(s, t) # {}
  <2> DEFINE i == CHOOSE k \in Places(s, t) : \A j \in Places(s, t) : j <= k
             r == RemoveAt(s, i)
  <2>1. i \in DOMAIN s /\ s[i] = t
    <3>1. Places(s, t) \in SUBSET (1 .. Len(s)) /\ Len(s) \in Nat
      BY DEF Places
    <3>2. PICK k \in Places(s, t) : \A j \in Places(s, t) : j <= k
      BY <1>2, <3>1, LargestOf
    <3>3. i \in Places(s, t)
      BY <3>2
    <3> HIDE DEF i
    <3>4. QED BY <3>3 DEF Places
  <2>2. Erased(s, t) = r
    BY <1>2 DEF Erased
  <2> HIDE DEF i
  <2>3. /\ r \in Seq(S) /\ Len(r) = Len(s) - 1
        /\ \A j \in 1 .. Len(s) - 1 : r[j] = IF j < i THEN s[j] ELSE s[j + 1]
    BY <2>1, RemoveAtProperties
  <2> HIDE DEF r
  <2> DEFINE at(j) == IF j < i THEN j ELSE j + 1
  <2>4. i \in 1 .. Len(s) /\ Len(s) \in Nat
        /\ DOMAIN s = 1 .. Len(s) /\ DOMAIN r = 1 .. Len(s) - 1
    BY <2>1, <2>3
  <2>5. ASSUME NEW j \in DOMAIN r
        PROVE  at(j) \in DOMAIN s /\ at(j) # i /\ r[j] = s[at(j)]
    BY <2>3, <2>4
  <2>6. OnceBut(r, O)
    <3>1. SUFFICES ASSUME NEW a \in DOMAIN r, NEW b \in DOMAIN r, r[a] = r[b], r[a] \notin O
                   PROVE  a = b
      BY DEF OnceBut
    <3>2. at(a) = at(b)
      <4> HIDE DEF at
      <4>1. at(a) \in DOMAIN s /\ at(b) \in DOMAIN s /\ s[at(a)] = s[at(b)] /\ s[at(a)] \notin O
        BY <2>5, <3>1
      <4>2. QED BY <4>1 DEF OnceBut
    <3>3. QED BY <2>4, <3>2
  <2>7. ASSUME NEW j \in DOMAIN r
        PROVE  r[j] \in Range(s) /\ (t \notin O => r[j] # t)
    <3> HIDE DEF at
    <3>1. at(j) \in DOMAIN s /\ at(j) # i /\ r[j] = s[at(j)]
      BY <2>5
    <3>2. QED BY <2>1, <3>1 DEF Range, OnceBut
  <2>8. ASSUME NEW j \in DOMAIN s, s[j] # t
        PROVE  \E k \in DOMAIN r : r[k] = s[j]
    <3>1. CASE j < i
      BY <2>1, <2>3, <2>4, <2>8, <3>1
    <3>2. CASE j > i
      <4>1. j - 1 \in DOMAIN r /\ ~(j - 1 < i)
        BY <2>4, <3>2
      <4>2. r[j - 1] = s[j]
        BY <2>3, <2>4, <4>1
      <4>3. QED BY <4>1, <4>2
    <3>3. QED BY <2>1, <2>4, <2>8, <3>1, <3>2
  <2>9. Range(r) \subseteq Range(s) /\ (t \notin O => t \notin Range(r))
    BY <2>7 DEF Range
  <2>10. \A u \in Range(s) : u # t => u \in Range(r)
    BY <2>8 DEF Range
  <2>11. QED BY <2>2, <2>3, <2>6, <2>9, <2>10
<1>3. QED BY <1>1, <1>2

-----------------------------------------------------------------------------
(* Types.  Erased only shortens the queue, so its elements stay threads     *)
(* even if a frame is queued twice.                                         *)

LEMMA ErasedTypes ==
  ASSUME NEW S, NEW s \in Seq(S), NEW t
  PROVE  Erased(s, t) \in Seq(S)
<1>1. CASE Places(s, t) = {}
  BY <1>1 DEF Erased
<1>2. CASE Places(s, t) # {}
  <2>1. Places(s, t) \in SUBSET (1 .. Len(s)) /\ Len(s) \in Nat
    BY DEF Places
  <2>2. PICK i \in Places(s, t) : \A j \in Places(s, t) : j <= i
    BY <1>2, <2>1, LargestOf
  <2> DEFINE last == CHOOSE k \in Places(s, t) : \A j \in Places(s, t) : j <= k
  <2>3. last \in Places(s, t)
    BY <2>2
  <2>4. Erased(s, t) = RemoveAt(s, last)
    BY <1>2 DEF Erased
  <2> HIDE DEF last
  <2>5. last \in DOMAIN s
    BY <2>3 DEF Places
  <2>6. QED BY <2>4, <2>5, RemoveAtProperties
<1>3. QED BY <1>1, <1>2

\* Every variable of LoopWork keeps its type, and the loop thread never waits
\* for itself: it runs its own requests where it makes them.
LoopNeverWaits == pc[Loop] \notin {"asking", "asleep", "notified"}

ServiceNamed == mHasServiceThread => mServiceThread = Loop

TypeInv == TypeOK /\ LoopNeverWaits /\ ServiceNamed

LEMMA TypeInvInit == Init => TypeInv
<1> SUFFICES ASSUME Init PROVE TypeInv
  OBVIOUS
<1>1. mWaiting \in Seq(Threads) /\ batch \in Seq(Threads) /\ next \in 1 .. Len(batch) + 1
  BY DEF Init
<1>2. pc[Loop] = "idle"
  BY DEF Init, Threads
<1>3. QED
  BY <1>1, <1>2, LoopWorkAssumption
  DEF Init, TypeInv, TypeOK, LoopNeverWaits, ServiceNamed

LEMMA TypeInvStep == TypeInv /\ [Next]_vars => TypeInv'
<1> SUFFICES ASSUME TypeInv, [Next]_vars PROVE TypeInv'
  OBVIOUS
<1> USE LoopWorkAssumption DEF TypeInv, TypeOK, LoopNeverWaits, ServiceNamed,
        Threads, Go, queueVars, loopVars, callerVars
<1>1. ASSUME NEW t \in Threads, Ask(t) PROVE TypeInv'
  BY <1>1 DEF Ask, RunsHere
<1>2. ASSUME NEW t \in Threads, RunInline(t) PROVE TypeInv'
  BY <1>2 DEF RunInline
<1>3. ASSUME NEW t \in Threads, FinishInline(t) PROVE TypeInv'
  BY <1>3 DEF FinishInline
<1>4. ASSUME NEW t \in Threads, Refuse(t) PROVE TypeInv'
  BY <1>4 DEF Refuse
<1>5. ASSUME NEW t \in Threads, Enqueue(t) PROVE TypeInv'
  BY <1>5 DEF Enqueue
<1>6. ASSUME NEW t \in Threads, LeaveWait(t), Alive(t), overtaken' \subseteq Threads
      PROVE  TypeInv'
  <2>1. mWaiting' \in Seq(Threads)
    BY <1>6, ErasedTypes DEF LeaveWait
  <2>2. QED BY <1>6, <2>1 DEF LeaveWait, Alive
<1>7. ASSUME NEW t \in Threads, Wake(t) PROVE TypeInv'
  <2>1. CASE WakeSatisfied(t)
    BY <1>6, <2>1 DEF WakeSatisfied, Alive
  <2>2. CASE WakeUnsatisfied(t)
    BY <2>2 DEF WakeUnsatisfied
  <2>3. QED BY <1>7, <2>1, <2>2 DEF Wake
<1>8. ASSUME NEW t \in Threads, Expire(t) PROVE TypeInv'
  BY <1>6, <1>8 DEF Expire
<1>9. ASSUME NEW t \in Threads, Return(t) PROVE TypeInv'
  BY <1>9 DEF Return, Forget
<1>10. CASE SetServiceThread
  BY <1>10 DEF SetServiceThread, AtLoop
<1>11. CASE TakeBatch
  BY <1>11 DEF TakeBatch, AtLoop
<1>12. CASE RunNext
  <2>1. batch[next] \in Threads /\ next' \in 1 .. Len(batch) + 1
    BY <1>12 DEF RunNext
  <2>2. ran' \in [Threads -> Nat]
    BY <1>12, <2>1 DEF RunNext
  <2>3. QED BY <1>12, <2>1, <2>2 DEF RunNext
<1>13. CASE MarkDone
  BY <1>13 DEF MarkDone, Forget
<1>14. CASE NotifyServiced
  BY <1>14 DEF NotifyServiced, NotifyAll, AtLoop
<1>15. CASE Stop
  <2>1. mWaiting' \in Seq(Threads)
    BY <1>15 DEF Stop
  <2>2. QED BY <1>15, <2>1 DEF Stop, Forget
<1>16. CASE NotifyStopped
  BY <1>16 DEF NotifyStopped, NotifyAll, AtLoop
<1>17. CASE UNCHANGED vars
  BY <1>17 DEF vars
<1>18. QED
  BY <1>1, <1>2, <1>3, <1>4, <1>5, <1>7, <1>8, <1>9, <1>10, <1>11, <1>12,
     <1>13, <1>14, <1>15, <1>16, <1>17 DEF Next, Request, Service

\* Type correctness of LoopWork, for any set of callers and any deadlines.
THEOREM TypeCorrect == Spec => []TypeOK
<1>1. TypeInv => TypeOK
  BY DEF TypeInv
<1>2. QED BY <1>1, TypeInvInit, TypeInvStep, PTL DEF Spec

-----------------------------------------------------------------------------
(* The answers and the pointers, of every thread outside O.                 *)

PointersSound(O) ==
  /\ \A t \in Pointed : Alive(t) \/ t \in O
  /\ Range(mWaiting) \cap Range(batch) \subseteq O
  /\ OnceBut(mWaiting, O) /\ OnceBut(batch, O)

\* What the place of a thread in request(), its pointer and its done flag say
\* about how often its work has run.
Tally(t) ==
  /\ pc[t] \in {"asking", "refused"} => ran[t] = 0
  /\ pc[t] = "inline" => ran[t] <= 1
  /\ pc[t] = "served" => ran[t] = 1
  /\ t \in Range(mWaiting) => ran[t] = 0 /\ ~done[t]
  /\ Alive(t) /\ t \notin Pointed => ran[t] = IF done[t] THEN 1 ELSE 0

\* Nothing has run of a request that was not made, even for a thread of O.
IdleNeverRan == \A t \in Threads : pc[t] = "idle" => ran[t] = 0

\* The loop is part of the way through its batch and nothing is marked yet.
BatchProgress(O) ==
  \A i \in DOMAIN batch :
    batch[i] \notin O => ~done[batch[i]] /\ ran[batch[i]] = IF i < next THEN 1 ELSE 0

\* A batch is held only inside service, and never across stop.
BatchOnlyInService ==
  /\ svc # "running" => batch = <<>>
  /\ svc \in {"between", "running", "serviced"} => ~mStopped

\* The part of the invariant that is not a matter of types.
Core(O) ==
  /\ PointersSound(O)
  /\ \A t \in Threads \ O : Tally(t)
  /\ IdleNeverRan
  /\ BatchProgress(O)
  /\ BatchOnlyInService

\* A thread is excepted only while it is in request() or pointed at.
Adrift == \A t \in overtaken : pc[t] # "idle" \/ t \in Pointed

IInv == TypeInv /\ Core(overtaken) /\ Adrift

LEMMA IInvInit == Init => IInv
<1> SUFFICES ASSUME Init PROVE IInv
  OBVIOUS
<1>1. Range(mWaiting) = {} /\ Range(batch) = {} /\ DOMAIN mWaiting = {} /\ DOMAIN batch = {}
  BY DEF Init, Range
<1>2. PointersSound(overtaken)
  BY <1>1 DEF PointersSound, OnceBut, Pointed
<1>3. IdleNeverRan /\ \A t \in Threads : Tally(t)
  BY <1>1 DEF Init, Tally, Alive, IdleNeverRan
<1>4. BatchProgress(overtaken) /\ BatchOnlyInService
  BY <1>1 DEF Init, BatchProgress, BatchOnlyInService
<1>5. QED
  BY <1>2, <1>3, <1>4, TypeInvInit DEF IInv, Core, Adrift, Init

\* Excepting more threads asks for less.
LEMMA CoreWeakens ==
  ASSUME NEW O, NEW P, O \subseteq P, Core(O)
  PROVE  Core(P)
<1>1. PointersSound(P)
  BY DEF Core, PointersSound, OnceBut
<1>2. BatchProgress(P)
  BY DEF Core, BatchProgress
<1>3. QED BY <1>1, <1>2 DEF Core

\* A thread that is out of request() and that no pointer leads to needs no
\* exception any more.
LEMMA ForgetKeeps ==
  ASSUME TypeOK', NEW O, Core(O)',
         overtaken' = {t \in O : pc'[t] # "idle" \/ t \in Pointed'}
  PROVE  Core(overtaken)'
<1>0. PICK P : P = overtaken'
  OBVIOUS
<1>1. P \subseteq O /\ \A t \in Pointed' : t \in O => t \in P
  BY <1>0
<1>2. \A t \in O : t \notin P => pc'[t] = "idle" /\ t \notin Pointed'
  BY <1>0
<1>3. PointersSound(P)'
  <2>1. \A t \in Pointed' : Alive(t)' \/ t \in P
    BY <1>1 DEF Core, PointersSound
  <2>2. Range(mWaiting)' \subseteq Pointed' /\ Range(batch)' \subseteq Pointed'
    BY DEF Pointed
  <2>3. (Range(mWaiting) \cap Range(batch))' \subseteq P
    BY <1>1, <2>2 DEF Core, PointersSound
  <2>4. ASSUME NEW i \in DOMAIN mWaiting', NEW j \in DOMAIN mWaiting',
               mWaiting'[i] = mWaiting'[j], mWaiting'[i] \notin P
        PROVE  i = j
    <3>1. mWaiting'[i] \notin O
      BY <1>1, <2>2, <2>4 DEF Range
    <3>2. QED BY <2>4, <3>1 DEF Core, PointersSound, OnceBut
  <2>5. ASSUME NEW i \in DOMAIN batch', NEW j \in DOMAIN batch',
               batch'[i] = batch'[j], batch'[i] \notin P
        PROVE  i = j
    <3>1. batch'[i] \notin O
      BY <1>1, <2>2, <2>5 DEF Range
    <3>2. QED BY <2>5, <3>1 DEF Core, PointersSound, OnceBut
  <2>6. QED BY <2>1, <2>3, <2>4, <2>5 DEF PointersSound, OnceBut
<1>4. ASSUME NEW t \in Threads \ P PROVE Tally(t)'
  <2>1. CASE t \notin O
    BY <2>1 DEF Core
  <2>2. CASE t \in O
    <3>1. pc'[t] = "idle" /\ t \notin Pointed'
      BY <1>2, <2>2
    <3>2. t \notin Range(mWaiting)'
      BY <3>1 DEF Pointed
    <3>3. QED BY <3>1, <3>2 DEF Tally, Alive
  <2>3. QED BY <2>1, <2>2
<1>5. BatchProgress(P)'
  <2>1. ASSUME NEW i \in DOMAIN batch', batch'[i] \notin P
        PROVE  batch'[i] \notin O
    BY <1>1, <2>1 DEF Range, Pointed
  <2>2. QED BY <2>1 DEF Core, BatchProgress
<1>6. Core(P)'
  BY <1>3, <1>4, <1>5 DEF Core
<1>8. QED BY <1>0, <1>6

\* A step of a thread that is in no queue, and stays out of wait_for, touches
\* only its own tally.
LEMMA OwnStep ==
  ASSUME TypeInv, NEW O, Core(O), NEW t \in Threads, ~Alive(t),
         NEW to \in {"idle", "inline", "asking", "served", "refused"}, Go(t, to),
         ran' \in [Threads -> Nat],
         \A u \in Threads : u # t => ran'[u] = ran[u],
         to = "idle" => ran'[t] = 0,
         t \notin O => /\ to \in {"asking", "refused"} => ran'[t] = 0
                       /\ to = "inline" => ran'[t] <= 1
                       /\ to = "served" => ran'[t] = 1,
         UNCHANGED <<queueVars, batch, next, svc, done>>
  PROVE  Core(O)'
<1> USE DEF Core, TypeInv, TypeOK
<1>1. t \notin O => t \notin Pointed
  BY DEF PointersSound
<1>2. \A u \in Threads : u # t => pc'[u] = pc[u]
  BY DEF Go
<1>3. pc'[t] = to
  BY DEF Go
<1>4. mWaiting' = mWaiting /\ batch' = batch /\ done' = done /\ next' = next
      /\ svc' = svc /\ mStopped' = mStopped
  BY DEF queueVars
<1>5. Pointed \subseteq Threads
  BY DEF Pointed, Range
<1>6. PointersSound(O)'
  <2>1. \A u \in Pointed : Alive(u)' \/ u \in O
    BY <1>1, <1>2, <1>5 DEF PointersSound, Alive
  <2>2. QED BY <1>4, <2>1 DEF PointersSound, OnceBut, Pointed
<1>7. ASSUME NEW u \in Threads \ O PROVE Tally(u)'
  <2>1. CASE u = t
    BY <1>1, <1>3, <1>4, <2>1 DEF Tally, Alive, Pointed
  <2>2. CASE u # t
    BY <1>2, <1>4, <2>2 DEF Tally, Alive, Pointed
  <2>3. QED BY <2>1, <2>2
<1>8. BatchProgress(O)'
  <2>1. \A i \in DOMAIN batch : batch[i] \in Threads /\ batch[i] \in Range(batch)
    BY DEF Range
  <2>3. \A i \in DOMAIN batch : batch[i] \notin O => batch[i] # t
    BY <1>1, <2>1 DEF Pointed
  <2>2. QED BY <1>4, <2>1, <2>3 DEF BatchProgress
<1>9. BatchOnlyInService' /\ IdleNeverRan'
  BY <1>2, <1>3, <1>4 DEF BatchOnlyInService, IdleNeverRan
<1>10. QED BY <1>6, <1>7, <1>8, <1>9

LEMMA AppendsDistinct ==
  ASSUME NEW S, NEW s \in Seq(S), NEW t \in S, NEW O, OnceBut(s, O),
         t \notin O => t \notin Range(s)
  PROVE  /\ Range(Append(s, t)) = Range(s) \cup {t}
         /\ OnceBut(Append(s, t), O)
<1> DEFINE n == Len(s)
           r == Append(s, t)
<1>1. n \in Nat /\ DOMAIN s = 1 .. n
  OBVIOUS
<1>2. DOMAIN r = 1 .. n + 1 /\ r[n + 1] = t /\ \A i \in 1 .. n : r[i] = s[i]
  OBVIOUS
<1>3. t \notin O => \A i \in 1 .. n : s[i] # t
  BY <1>1 DEF Range
<1> HIDE DEF n, r
<1>4. \A i \in 1 .. n + 1 : i = n + 1 \/ i \in 1 .. n
  BY <1>1
<1>5. OnceBut(r, O)
  <2>1. SUFFICES ASSUME NEW a \in 1 .. n + 1, NEW b \in 1 .. n + 1, r[a] = r[b], r[a] \notin O
                 PROVE  a = b
    BY <1>2 DEF OnceBut
  <2>2. CASE a \in 1 .. n /\ b \in 1 .. n
    BY <1>1, <1>2, <2>1, <2>2 DEF OnceBut
  <2>3. QED BY <1>2, <1>3, <1>4, <2>1, <2>2
<1>6. Range(r) = Range(s) \cup {t}
  <2>1. ASSUME NEW i \in DOMAIN r PROVE r[i] \in Range(s) \cup {t}
    BY <1>1, <1>2, <1>4 DEF Range
  <2>2. n + 1 \in DOMAIN r /\ \A i \in DOMAIN s : i \in DOMAIN r
    BY <1>1, <1>2
  <2>3. QED BY <1>1, <1>2, <2>1, <2>2 DEF Range
<1>7. QED BY <1>5, <1>6 DEF r

LEMMA EnqueueStep ==
  ASSUME TypeInv, NEW O, Core(O), NEW t \in Threads, Enqueue(t)
  PROVE  Core(O)'
<1> USE DEF Core, TypeInv, TypeOK
<1>1. (t \notin O => t \notin Pointed) /\ pc[t] = "asking"
  BY DEF PointersSound, Enqueue, Alive
<1>2. mWaiting' = Append(mWaiting, t) /\ batch' = batch /\ next' = next /\ svc' = svc
      /\ mStopped' = mStopped /\ ran' = ran
  BY DEF Enqueue, loopVars
<1>3. pc'[t] = "asleep" /\ ~done'[t]
      /\ \A u \in Threads : u # t => pc'[u] = pc[u] /\ done'[u] = done[u]
  BY DEF Enqueue, Go
<1>4. Range(mWaiting)' = Range(mWaiting) \cup {t} /\ OnceBut(mWaiting', O)
  BY <1>1, <1>2, AppendsDistinct DEF PointersSound, Pointed
<1>5. Pointed \subseteq Threads /\ Range(batch)' = Range(batch)
      /\ Pointed' = Pointed \cup {t}
  <2>1. Range(batch)' = Range(batch)
    BY <1>2
  <2>2. Range(mWaiting) \subseteq Threads /\ Range(batch) \subseteq Threads
    BY DEF Range
  <2>3. QED BY <1>4, <2>1, <2>2 DEF Pointed
<1>6. PointersSound(O)'
  <2>1. \A u \in Threads : Alive(u) => Alive(u)'
    BY <1>3 DEF Alive
  <2>2. Alive(t)'
    BY <1>3 DEF Alive
  <2>3. OnceBut(batch', O)
    BY <1>2 DEF PointersSound
  <2>4. \A u \in Pointed' : Alive(u)' \/ u \in O
    BY <1>5, <2>1, <2>2 DEF PointersSound
  <2>5. Range(mWaiting)' \cap Range(batch)' \subseteq O
    BY <1>1, <1>4, <1>5 DEF PointersSound, Pointed
  <2>6. QED BY <1>4, <2>3, <2>4, <2>5 DEF PointersSound, OnceBut
<1>7. ASSUME NEW u \in Threads \ O PROVE Tally(u)'
  <2>1. CASE u = t
    BY <1>1, <1>2, <1>3, <1>5, <2>1 DEF Tally, Alive, Pointed
  <2>2. CASE u # t
    BY <1>2, <1>3, <1>4, <1>5, <2>2 DEF Tally, Alive
  <2>3. QED BY <2>1, <2>2
<1>8. BatchProgress(O)'
  <2>1. \A i \in DOMAIN batch : batch[i] \in Threads /\ batch[i] \in Range(batch)
    BY DEF Range
  <2>3. \A i \in DOMAIN batch : batch[i] \notin O => batch[i] # t
    BY <1>1, <2>1 DEF Pointed
  <2>2. QED BY <1>2, <1>3, <2>1, <2>3 DEF BatchProgress
<1>9. BatchOnlyInService' /\ IdleNeverRan'
  BY <1>2, <1>3 DEF BatchOnlyInService, IdleNeverRan
<1>10. QED BY <1>6, <1>7, <1>8, <1>9

\* wait_for has returned to a thread that is not in the loop's batch, or that is
\* excepted: its pointer is gone, and its answer true.
LEMMA LeaveStep ==
  ASSUME TypeInv, NEW O, Core(O), NEW t \in Threads, Alive(t),
         t \in Range(batch) => t \in O, LeaveWait(t)
  PROVE  Core(O)'
<1> USE DEF Core, TypeInv, TypeOK
<1>1. batch' = batch /\ next' = next /\ svc' = svc
      /\ mStopped' = mStopped /\ ran' = ran /\ done' = done
  BY DEF LeaveWait
<1>2. \A u \in Threads : u # t => pc'[u] = pc[u]
  BY DEF LeaveWait, Go
<1>3. pc'[t] = IF done[t] THEN "served" ELSE "refused"
  BY DEF LeaveWait, Go
<1>4. /\ OnceBut(mWaiting', O)
      /\ Range(mWaiting)' \subseteq Range(mWaiting)
      /\ \A u \in Range(mWaiting) : u # t => u \in Range(mWaiting)'
      /\ t \notin O => t \notin Range(mWaiting)'
  <2>1. CASE done[t]
    <3>1. t \notin O => t \notin Range(mWaiting)
      BY <2>1 DEF Tally
    <3>2. mWaiting' = mWaiting
      BY <2>1 DEF LeaveWait
    <3>3. QED BY <3>1, <3>2 DEF PointersSound
  <2>2. CASE ~done[t]
    <3>1. mWaiting' = Erased(mWaiting, t)
      BY <2>2 DEF LeaveWait
    <3>2. OnceBut(mWaiting, O)
      BY DEF PointersSound
    <3>3. QED BY <3>1, <3>2, ErasedProperties
  <2>3. QED BY <2>1, <2>2
<1>5. Pointed \subseteq Threads /\ Range(batch)' = Range(batch)
      /\ Pointed' \subseteq Pointed
      /\ (\A u \in Pointed : u # t => u \in Pointed')
      /\ (t \notin O => t \notin Pointed')
  <2>1. Range(batch)' = Range(batch)
    BY <1>1
  <2>2. Range(mWaiting) \subseteq Threads /\ Range(batch) \subseteq Threads
    BY DEF Range
  <2>3. QED BY <1>4, <2>1, <2>2 DEF Pointed
<1>6. PointersSound(O)'
  <2>1. \A u \in Pointed' : Alive(u)' \/ u \in O
    <3>1. SUFFICES ASSUME NEW u \in Pointed', u \notin O PROVE Alive(u)'
      OBVIOUS
    <3>2. u \in Threads /\ u # t /\ Alive(u)
      BY <1>5, <3>1 DEF PointersSound
    <3>3. QED BY <1>2, <3>2 DEF Alive
  <2>2. Range(mWaiting)' \cap Range(batch)' \subseteq O
    BY <1>4, <1>5 DEF PointersSound
  <2>3. OnceBut(batch', O)
    BY <1>1 DEF PointersSound
  <2>4. QED BY <1>4, <2>1, <2>2, <2>3 DEF PointersSound, OnceBut
<1>7. ASSUME NEW u \in Threads \ O PROVE Tally(u)'
  <2>1. CASE u = t
    <3>1. t \notin Range(mWaiting)' /\ t \notin Range(batch)
      BY <1>4, <2>1
    <3>2. ran[t] = IF done[t] THEN 1 ELSE 0
      BY <2>1, <3>1 DEF Tally, Pointed
    <3>3. QED BY <1>1, <1>3, <2>1, <3>1, <3>2 DEF Tally, Alive
  <2>2. CASE u # t
    <3>1. u \in Pointed' <=> u \in Pointed
      BY <1>5, <2>2
    <3>2. u \in Range(mWaiting)' => u \in Range(mWaiting)
      BY <1>4
    <3>3. QED BY <1>1, <1>2, <2>2, <3>1, <3>2 DEF Tally, Alive
  <2>3. QED BY <2>1, <2>2
<1>8. BatchProgress(O)' /\ BatchOnlyInService'
  BY <1>1 DEF BatchProgress, BatchOnlyInService
<1>9. IdleNeverRan'
  BY <1>1, <1>2, <1>3 DEF IdleNeverRan
<1>10. QED BY <1>6, <1>7, <1>8, <1>9

LEMMA TakeBatchStep ==
  ASSUME TypeInv, NEW O, Core(O), TakeBatch
  PROVE  Core(O)'
<1> USE DEF Core, TypeInv, TypeOK
<1>1. batch = <<>>
  BY DEF TakeBatch, AtLoop, BatchOnlyInService
<1>2. batch' = mWaiting /\ mWaiting' = <<>> /\ next' = 1 /\ svc' = "running"
      /\ pc' = pc /\ done' = done /\ ran' = ran
      /\ mStopped' = mStopped /\ ~mStopped
  BY DEF TakeBatch, callerVars, AtLoop, BatchOnlyInService
<1>3. Range(batch) = {} /\ Range(mWaiting') = {} /\ DOMAIN mWaiting' = {}
      /\ Range(batch') = Range(mWaiting) /\ Pointed' = Pointed
  BY <1>1, <1>2 DEF Range, Pointed
<1>4. PointersSound(O)'
  <2>1. OnceBut(batch', O) /\ OnceBut(mWaiting', O)
    BY <1>2, <1>3 DEF PointersSound, OnceBut
  <2>2. \A u \in Pointed' : Alive(u)' \/ u \in O
    BY <1>2, <1>3 DEF PointersSound, Alive
  <2>3. QED BY <1>3, <2>1, <2>2 DEF PointersSound, OnceBut
<1>5. ASSUME NEW u \in Threads \ O PROVE Tally(u)'
  BY <1>2, <1>3 DEF Tally, Alive
<1>6. BatchProgress(O)'
  <2>1. ASSUME NEW i \in DOMAIN mWaiting, mWaiting[i] \notin O
        PROVE  ~done[mWaiting[i]] /\ ran[mWaiting[i]] = 0 /\ ~(i < 1)
    <3>1. mWaiting[i] \in Threads /\ mWaiting[i] \in Range(mWaiting)
      BY DEF Range
    <3>2. QED BY <2>1, <3>1 DEF Tally
  <2>2. QED BY <1>2, <2>1 DEF BatchProgress
<1>7. BatchOnlyInService' /\ IdleNeverRan'
  BY <1>2 DEF BatchOnlyInService, IdleNeverRan
<1>8. QED BY <1>4, <1>5, <1>6, <1>7

LEMMA RunNextStep ==
  ASSUME TypeInv, NEW O, Core(O), RunNext
  PROVE  Core(O)'
<1> USE DEF Core, TypeInv, TypeOK
<1> DEFINE t == batch[next]
<1>1. next \in DOMAIN batch /\ next' = next + 1 /\ svc = "running"
  BY DEF RunNext, AtLoop
<1>2. t \in Threads /\ t \in Range(batch) /\ (t \notin O => Alive(t) /\ ran[t] = 0)
  BY <1>1 DEF PointersSound, Range, Pointed, BatchProgress
<1>3. ran' = IF HasFrame(t) THEN [ran EXCEPT ![t] = ran[t] + 1] ELSE ran
  BY DEF RunNext
<1>4. mWaiting' = mWaiting /\ batch' = batch /\ svc' = svc /\ pc' = pc /\ done' = done
      /\ mStopped' = mStopped
  BY DEF RunNext, queueVars
<1> HIDE DEF t
<1>5. \A u \in Threads : u # t => ran'[u] = ran[u]
  BY <1>2, <1>3
<1>6. t \notin O => ran'[t] = 1
  BY <1>2, <1>3 DEF HasFrame
<1>7. PointersSound(O)'
  BY <1>4 DEF PointersSound, Alive, Pointed, OnceBut
<1>8. ASSUME NEW u \in Threads \ O PROVE Tally(u)'
  <2>1. CASE u = t
    <3>1. t \notin Range(mWaiting)
      BY <1>2, <2>1 DEF PointersSound
    <3>2. QED BY <1>2, <1>4, <2>1, <3>1 DEF Tally, Alive, Pointed
  <2>2. CASE u # t
    BY <1>4, <1>5, <2>2 DEF Tally, Alive, Pointed
  <2>3. QED BY <2>1, <2>2
<1>9. BatchProgress(O)'
  <2>1. ASSUME NEW i \in DOMAIN batch, batch[i] \notin O
        PROVE  ran'[batch[i]] = IF i < next + 1 THEN 1 ELSE 0
    <3>1. batch[i] \in Threads /\ i \in Nat /\ next \in Nat
      OBVIOUS
    <3>2. CASE i = next
      BY <1>6, <2>1, <3>1, <3>2 DEF t
    <3>3. CASE i # next
      <4>1. batch[i] # t
        BY <1>1, <2>1, <3>3 DEF t, PointersSound, OnceBut
      <4>2. ran'[batch[i]] = IF i < next THEN 1 ELSE 0
        BY <1>5, <2>1, <3>1, <4>1 DEF BatchProgress
      <4>3. QED BY <3>1, <3>3, <4>2
    <3>4. QED BY <3>2, <3>3
  <2>2. QED BY <1>1, <1>4, <2>1 DEF BatchProgress
<1>10. IdleNeverRan'
  <2>1. pc[t] = "idle" => ran' = ran
    BY <1>3 DEF HasFrame, Alive
  <2>2. QED BY <1>4, <1>5, <2>1 DEF IdleNeverRan
<1>11. BatchOnlyInService'
  BY <1>4 DEF BatchOnlyInService
<1>12. QED BY <1>7, <1>8, <1>9, <1>10, <1>11

LEMMA MarkDoneStep ==
  ASSUME TypeInv, NEW O, Core(O), MarkDone
  PROVE  Core(O)'
<1> USE DEF Core, TypeInv, TypeOK
<1>1. svc = "running" /\ svc' = "serviced" /\ batch' = <<>> /\ mWaiting' = mWaiting
      /\ pc' = pc /\ ran' = ran /\ mStopped' = mStopped
  BY DEF MarkDone, AtLoop, queueVars
<1>2. \A u \in Threads : done'[u] = (done[u] \/ u \in Range(batch))
  BY DEF MarkDone
<1>3. Range(batch') = {} /\ DOMAIN batch' = {} /\ Pointed' = Range(mWaiting)
  BY <1>1 DEF Range, Pointed
<1>4. \A u \in Range(batch) \ O : u \in Threads /\ ran[u] = 1 /\ Alive(u)
  <2>1. ASSUME NEW i \in DOMAIN batch, batch[i] \notin O
        PROVE  batch[i] \in Threads /\ ran[batch[i]] = 1
    <3>1. i < next
      BY DEF MarkDone
    <3>2. QED BY <2>1, <3>1 DEF BatchProgress
  <2>2. QED BY <2>1 DEF Range, PointersSound, Pointed
<1>5. PointersSound(O)'
  <2>1. OnceBut(batch', O) /\ OnceBut(mWaiting', O)
    BY <1>1, <1>3 DEF PointersSound, OnceBut
  <2>2. \A u \in Pointed' : Alive(u)' \/ u \in O
    BY <1>1, <1>3 DEF PointersSound, Alive, Pointed
  <2>3. QED BY <1>3, <2>1, <2>2 DEF PointersSound, OnceBut
<1>6. ASSUME NEW u \in Threads \ O PROVE Tally(u)'
  <2>1. CASE u \in Range(batch)
    <3>1. u \notin Range(mWaiting)
      BY <2>1 DEF PointersSound
    <3>2. QED BY <1>1, <1>2, <1>3, <1>4, <2>1, <3>1 DEF Tally, Alive
  <2>2. CASE u \notin Range(batch)
    BY <1>1, <1>2, <1>3, <2>2 DEF Tally, Alive, Pointed
  <2>3. QED BY <2>1, <2>2
<1>7. BatchProgress(O)'
  BY <1>3 DEF BatchProgress
<1>8. BatchOnlyInService' /\ IdleNeverRan'
  BY <1>1 DEF BatchOnlyInService, IdleNeverRan
<1>9. QED BY <1>5, <1>6, <1>7, <1>8

\* notify_all changes nobody's tally: a sleeper stays inside request().  Nor does
\* a thread that goes back to sleep.
LEMMA StillWaiting ==
  ASSUME TypeInv, NEW O, Core(O),
         \A u \in Threads : /\ Alive(u) <=> Alive(u)'
                            /\ ~Alive(u) => pc'[u] = pc[u],
         svc' # svc => svc # "running" /\ svc' \in {"between", "off"},
         svc' = "between" => svc \in {"between", "serviced"},
         UNCHANGED <<queueVars, batch, next, done, ran>>
  PROVE  Core(O)'
<1> USE DEF Core, TypeInv, TypeOK
<1>1. mWaiting' = mWaiting /\ batch' = batch /\ next' = next /\ mStopped' = mStopped
      /\ done' = done /\ ran' = ran /\ Pointed' = Pointed
  BY DEF queueVars, Pointed
<1>2. Pointed \subseteq Threads
  BY DEF Range, Pointed
<1>3. PointersSound(O)'
  BY <1>1, <1>2 DEF PointersSound, OnceBut
<1>4. ASSUME NEW u \in Threads \ O PROVE Tally(u)'
  <2>1. CASE Alive(u)
    <3>1. Alive(u)' /\ pc'[u] \notin {"asking", "refused", "inline", "served"}
      BY <2>1 DEF Alive
    <3>2. QED BY <1>1, <2>1, <3>1 DEF Tally
  <2>2. CASE ~Alive(u)
    <3>1. ~Alive(u)' /\ pc'[u] = pc[u]
      BY <2>2
    <3>2. QED BY <1>1, <2>2, <3>1 DEF Tally
  <2>3. QED BY <2>1, <2>2
<1>5. BatchProgress(O)' /\ BatchOnlyInService'
  BY <1>1 DEF BatchProgress, BatchOnlyInService
<1>6. IdleNeverRan'
  BY <1>1 DEF IdleNeverRan, Alive
<1>7. QED BY <1>3, <1>4, <1>5, <1>6

LEMMA NotifyWakes ==
  ASSUME TypeInv, NotifyAll
  PROVE  \A u \in Threads : /\ Alive(u) <=> Alive(u)'
                            /\ ~Alive(u) => pc'[u] = pc[u]
BY DEF NotifyAll, Alive, TypeInv, TypeOK

LEMMA StopStep ==
  ASSUME TypeInv, NEW O, Core(O), Stop
  PROVE  Core(O)'
<1> USE DEF Core, TypeInv, TypeOK
<1>1. batch = <<>> /\ batch' = <<>> /\ mWaiting' = <<>> /\ svc' = "stopping"
      /\ pc' = pc /\ done' = done /\ ran' = ran
  BY DEF Stop, AtLoop, callerVars, BatchOnlyInService
<1>2. Range(batch) = {} /\ Range(batch') = {} /\ Range(mWaiting') = {}
      /\ DOMAIN batch' = {} /\ DOMAIN mWaiting' = {} /\ Pointed' = {}
  BY <1>1 DEF Range, Pointed
<1>3. PointersSound(O)'
  BY <1>2 DEF PointersSound, OnceBut
<1>4. ASSUME NEW u \in Threads \ O PROVE Tally(u)'
  BY <1>1, <1>2 DEF Tally, Alive, Pointed
<1>5. BatchProgress(O)' /\ BatchOnlyInService' /\ IdleNeverRan'
  BY <1>1, <1>2 DEF BatchProgress, BatchOnlyInService, IdleNeverRan
<1>6. QED BY <1>3, <1>4, <1>5

LEMMA SetServiceThreadStep ==
  ASSUME TypeInv, NEW O, Core(O), SetServiceThread
  PROVE  Core(O)'
<1> USE DEF Core, TypeInv, TypeOK
<1>1. mWaiting' = mWaiting /\ batch' = batch /\ next' = next
      /\ pc' = pc /\ done' = done /\ ran' = ran /\ ~mStopped'
      /\ svc = "off" /\ svc' = "between" /\ Pointed' = Pointed
  BY DEF SetServiceThread, AtLoop, callerVars, Pointed
<1>2. PointersSound(O)'
  BY <1>1 DEF PointersSound, Alive, OnceBut
<1>3. ASSUME NEW u \in Threads \ O PROVE Tally(u)'
  BY <1>1 DEF Tally, Alive
<1>4. BatchProgress(O)' /\ BatchOnlyInService' /\ IdleNeverRan'
  BY <1>1 DEF BatchProgress, BatchOnlyInService, IdleNeverRan
<1>5. QED BY <1>2, <1>3, <1>4

LEMMA AdriftStep == IInv /\ [Next]_vars => Adrift'
<1> SUFFICES ASSUME IInv, [Next]_vars PROVE Adrift'
  OBVIOUS
<1> USE DEF IInv, TypeInv, TypeOK
<1>1. CASE Forget
  BY <1>1 DEF Forget, Adrift
<1>2. ASSUME UNCHANGED overtaken, Pointed \subseteq Pointed',
             \A u \in Threads : pc[u] # "idle" => pc'[u] # "idle"
      PROVE  Adrift'
  BY <1>2 DEF Adrift
<1>3. ASSUME NEW t \in Threads, LeaveWait(t), Alive(t), overtaken' \subseteq overtaken \cup {t}
      PROVE  Adrift'
  <2>1. pc'[t] # "idle" /\ \A u \in Threads : u # t => pc'[u] = pc[u]
    BY <1>3 DEF LeaveWait, Go
  <2>2. \A u \in Pointed : u # t => u \in Pointed'
    <3>1. batch' = batch
      BY <1>3 DEF LeaveWait
    <3>2. CASE mWaiting' = mWaiting
      BY <3>1, <3>2 DEF Pointed
    <3>3. CASE mWaiting' = Erased(mWaiting, t)
      <4>1. \A u \in Range(mWaiting) : u # t => u \in Range(mWaiting')
        BY <3>3, ErasedProperties DEF Core, PointersSound
      <4>2. Range(batch') = Range(batch)
        BY <3>1
      <4>3. QED BY <4>1, <4>2 DEF Pointed
    <3>4. QED BY <1>3, <3>2, <3>3 DEF LeaveWait
  <2>3. QED BY <1>3, <2>1, <2>2 DEF Adrift
<1>4. ASSUME NEW t \in Threads, Request(t) PROVE Adrift'
  <2>1. CASE Ask(t) \/ RunInline(t) \/ FinishInline(t) \/ Refuse(t) \/ WakeUnsatisfied(t)
    <3>1. UNCHANGED overtaken /\ Pointed' = Pointed
      BY <2>1 DEF Ask, RunInline, FinishInline, Refuse, WakeUnsatisfied, loopVars, queueVars, Pointed
    <3>2. \A u \in Threads : pc[u] # "idle" => pc'[u] # "idle"
      BY <2>1 DEF Ask, RunInline, FinishInline, Refuse, WakeUnsatisfied, Go
    <3>3. QED BY <1>2, <3>1, <3>2
  <2>2. CASE Enqueue(t)
    <3>1. mWaiting' = Append(mWaiting, t) /\ batch' = batch /\ UNCHANGED overtaken
      BY <2>2 DEF Enqueue, loopVars
    <3>2. Range(mWaiting) \subseteq Range(mWaiting')
      <4>1. \A i \in DOMAIN mWaiting : i \in DOMAIN mWaiting' /\ mWaiting'[i] = mWaiting[i]
        BY <3>1
      <4>2. QED BY <4>1 DEF Range
    <3>3. Range(batch') = Range(batch)
      BY <3>1
    <3>4. \A u \in Threads : pc[u] # "idle" => pc'[u] # "idle"
      BY <2>2 DEF Enqueue, Go
    <3>5. Pointed \subseteq Pointed'
      BY <3>2, <3>3 DEF Pointed
    <3>6. QED BY <1>2, <3>1, <3>4, <3>5
  <2>3. CASE WakeSatisfied(t) \/ Expire(t)
    BY <1>3, <2>3 DEF WakeSatisfied, Expire, Alive
  <2>4. CASE Return(t)
    BY <1>1, <2>4 DEF Return
  <2>5. QED BY <1>4, <2>1, <2>2, <2>3, <2>4 DEF Request, Wake
<1>5. CASE TakeBatch
  <2>1. batch = <<>> /\ mWaiting' = <<>> /\ batch' = mWaiting /\ UNCHANGED <<pc, overtaken>>
    BY <1>5 DEF TakeBatch, AtLoop, Core, BatchOnlyInService, callerVars
  <2>2. Range(batch) = {} /\ Range(batch') = Range(mWaiting)
    BY <2>1 DEF Range
  <2>3. QED BY <1>2, <2>1, <2>2 DEF Pointed
<1>6. CASE MarkDone \/ Stop
  BY <1>1, <1>6 DEF MarkDone, Stop
<1>7. CASE RunNext \/ NotifyServiced \/ NotifyStopped \/ SetServiceThread \/ UNCHANGED vars
  <2>1. UNCHANGED overtaken /\ Pointed' = Pointed
    BY <1>7 DEF RunNext, NotifyServiced, NotifyStopped, SetServiceThread, vars, loopVars,
       queueVars, Pointed
  <2>2. \A u \in Threads : pc[u] # "idle" => pc'[u] # "idle"
    BY <1>7 DEF RunNext, NotifyServiced, NotifyStopped, SetServiceThread, NotifyAll, vars, callerVars
  <2>3. QED BY <1>2, <2>1, <2>2
<1>8. QED BY <1>4, <1>5, <1>6, <1>7 DEF Next, Service

LEMMA IInvStep == IInv /\ [Next]_vars => IInv'
<1> SUFFICES ASSUME IInv, [Next]_vars PROVE Core(overtaken)'
  BY TypeInvStep, AdriftStep DEF IInv
<1>1. PICK O : O = overtaken
  OBVIOUS
<1>2. TypeInv /\ TypeOK' /\ Core(O)
  BY <1>1, TypeInvStep DEF IInv, TypeInv
<1>3. ASSUME Core(O)', UNCHANGED overtaken PROVE Core(overtaken)'
  BY <1>1, <1>3
<1>4. ASSUME Core(O)', Forget PROVE Core(overtaken)'
  <2>1. overtaken' = {t \in O : pc'[t] # "idle" \/ t \in Pointed'}
    BY <1>1, <1>4 DEF Forget
  <2>2. QED BY <1>2, <1>4, <2>1, ForgetKeeps
<1>5. ASSUME NEW t \in Threads, Request(t) PROVE Core(overtaken)'
  <2> USE DEF TypeInv, TypeOK
  <2>1. CASE Ask(t)
    <3>1. ~Alive(t) /\ ran[t] = 0
      BY <1>2, <2>1 DEF Ask, Alive, Core, IdleNeverRan
    <3>2. ran' = ran /\ UNCHANGED <<queueVars, batch, next, svc, done>> /\ UNCHANGED overtaken
      BY <2>1 DEF Ask, loopVars
    <3>3. PICK to \in {"inline", "asking"} : Go(t, to)
      BY <2>1 DEF Ask
    <3>4. ran' \in [Threads -> Nat] /\ ran'[t] = 0 /\ ran'[t] <= 1
      BY <1>2, <3>1, <3>2
    <3>5. Core(O)'
      BY <1>2, <3>1, <3>2, <3>3, <3>4, OwnStep
    <3>6. QED BY <1>3, <3>2, <3>5
  <2>2. CASE RunInline(t)
    <3>1. Go(t, "inline")
      <4>1. pc[t] = "inline" /\ pc' = pc
        BY <2>2 DEF RunInline
      <4>2. QED BY <1>2, <4>1 DEF Go
    <3>2. ~Alive(t) /\ ran'[t] = 1 /\ \A u \in Threads : u # t => ran'[u] = ran[u]
      BY <1>2, <2>2 DEF RunInline, Alive
    <3>3. ran' \in [Threads -> Nat] /\ UNCHANGED <<queueVars, batch, next, svc, done>>
          /\ UNCHANGED overtaken
      BY <1>2, <2>2 DEF RunInline, loopVars
    <3>4. ran'[t] <= 1
      BY <3>2
    <3>5. Core(O)'
      BY <1>2, <3>1, <3>2, <3>3, <3>4, OwnStep
    <3>6. QED BY <1>3, <3>3, <3>5
  <2>3. CASE FinishInline(t)
    <3>1. ~Alive(t) /\ (t \notin O => ran[t] = 1)
      BY <1>2, <2>3 DEF FinishInline, Alive, Tally, Core
    <3>2. Go(t, "served") /\ ran' = ran /\ UNCHANGED <<queueVars, batch, next, svc, done>>
          /\ UNCHANGED overtaken
      BY <2>3 DEF FinishInline, loopVars
    <3>3. Core(O)'
      BY <1>2, <3>1, <3>2, OwnStep
    <3>4. QED BY <1>3, <3>2, <3>3
  <2>4. CASE Refuse(t)
    <3>1. ~Alive(t) /\ (t \notin O => ran[t] = 0)
      BY <1>2, <2>4 DEF Refuse, Alive, Tally, Core
    <3>2. Go(t, "refused") /\ ran' = ran /\ UNCHANGED <<queueVars, batch, next, svc, done>>
          /\ UNCHANGED overtaken
      BY <2>4 DEF Refuse, loopVars
    <3>3. Core(O)'
      BY <1>2, <3>1, <3>2, OwnStep
    <3>4. QED BY <1>3, <3>2, <3>3
  <2>5. CASE Enqueue(t)
    <3>1. Core(O)'
      BY <1>2, <2>5, EnqueueStep
    <3>2. QED BY <1>3, <2>5, <3>1 DEF Enqueue, loopVars
  <2>6. CASE WakeSatisfied(t)
    <3>1. Alive(t) /\ LeaveWait(t) /\ UNCHANGED overtaken
      BY <2>6 DEF WakeSatisfied, Alive
    <3>2. t \in Range(batch) => t \in O
      <4>1. CASE done[t]
        BY <1>2, <4>1 DEF Core, BatchProgress, Range
      <4>2. CASE mStopped
        BY <1>2, <4>2 DEF Core, BatchOnlyInService, Range
      <4>3. QED BY <2>6, <4>1, <4>2 DEF WakeSatisfied
    <3>3. Core(O)'
      BY <1>2, <3>1, <3>2, LeaveStep
    <3>4. QED BY <1>3, <3>1, <3>3
  <2>7. CASE WakeUnsatisfied(t)
    <3>1. UNCHANGED <<queueVars, batch, next, done, ran>> /\ svc' = svc /\ UNCHANGED overtaken
      BY <2>7 DEF WakeUnsatisfied, loopVars
    <3>2. \A u \in Threads : /\ Alive(u) <=> Alive(u)'
                             /\ ~Alive(u) => pc'[u] = pc[u]
      BY <1>2, <2>7 DEF WakeUnsatisfied, Go, Alive
    <3>3. svc' = "between" => svc \in {"between", "serviced"}
      BY <3>1
    <3>4. Core(O)'
      BY <1>2, <3>1, <3>2, <3>3, StillWaiting
    <3>5. QED BY <1>3, <3>1, <3>4
  <2>8. CASE Expire(t)
    <3>1. PICK P : P = IF t \in Range(batch) THEN O \cup {t} ELSE O
      OBVIOUS
    <3>2. Core(P)
      BY <1>2, <3>1, CoreWeakens
    <3>3. Core(P)'
      BY <1>2, <2>8, <3>1, <3>2, LeaveStep DEF Expire
    <3>4. overtaken' = P
      BY <1>1, <2>8, <3>1 DEF Expire
    <3>5. QED BY <3>3, <3>4
  <2>9. CASE Return(t)
    <3>1. Go(t, "idle") /\ ~Alive(t) /\ ran'[t] = 0
          /\ \A u \in Threads : u # t => ran'[u] = ran[u]
      BY <1>2, <2>9 DEF Return, Alive
    <3>2. ran' \in [Threads -> Nat] /\ UNCHANGED <<queueVars, batch, next, svc, done>>
      BY <1>2, <2>9 DEF Return
    <3>3. Core(O)'
      BY <1>2, <3>1, <3>2, OwnStep
    <3>4. QED BY <1>4, <2>9, <3>3 DEF Return
  <2>10. QED
    BY <1>5, <2>1, <2>2, <2>3, <2>4, <2>5, <2>6, <2>7, <2>8, <2>9 DEF Request, Wake
<1>6. CASE TakeBatch
  BY <1>2, <1>3, <1>6, TakeBatchStep DEF TakeBatch
<1>7. CASE RunNext
  BY <1>2, <1>3, <1>7, RunNextStep DEF RunNext
<1>8. CASE MarkDone
  BY <1>2, <1>4, <1>8, MarkDoneStep DEF MarkDone
<1>9. CASE NotifyServiced \/ NotifyStopped
  <2>1. NotifyAll /\ UNCHANGED <<queueVars, batch, next, done, ran>> /\ UNCHANGED overtaken
        /\ svc # "running" /\ svc' \in {"between", "off"} /\ (svc' = "between" => svc = "serviced")
    BY <1>9 DEF NotifyServiced, NotifyStopped, AtLoop
  <2>2. Core(O)'
    BY <1>2, <2>1, NotifyWakes, StillWaiting
  <2>3. QED BY <1>3, <2>1, <2>2
<1>10. CASE SetServiceThread
  BY <1>2, <1>3, <1>10, SetServiceThreadStep DEF SetServiceThread
<1>11. CASE Stop
  BY <1>2, <1>4, <1>11, StopStep DEF Stop
<1>12. CASE UNCHANGED vars
  <2>1. UNCHANGED <<queueVars, batch, next, svc, pc, done, ran>> /\ UNCHANGED overtaken
    BY <1>12 DEF vars, loopVars, callerVars
  <2>2. \A u \in Threads : /\ Alive(u) <=> Alive(u)'
                           /\ ~Alive(u) => pc'[u] = pc[u]
    BY <2>1 DEF Alive
  <2>3. Core(O)'
    BY <1>2, <2>1, <2>2, StillWaiting
  <2>4. QED BY <1>3, <2>1, <2>3
<1>13. QED
  BY <1>5, <1>6, <1>7, <1>8, <1>9, <1>10, <1>11, <1>12 DEF Next, Service

LEMMA InductiveInvariant == Spec => []IInv
<1>1. QED BY IInvInit, IInvStep, PTL DEF Spec

\* A caller is told the truth: false only if its work never ran, true only if it
\* ran once, for any number of callers and any deadlines, those that pass while
\* the loop holds another caller's request included (LoopWork::request, service).
THEOREM AnswersAreHonest == Spec => []HonestAnswers
<1>1. IInv => HonestAnswers
  BY DEF IInv, Core, HonestAnswers, Tally
<1>2. QED BY <1>1, InductiveInvariant, PTL

\* The loop follows a pointer into a frame that is gone, or two pointers into the
\* same frame, only of a thread whose own deadline passed in the loop's hands.
THEOREM PointersAreLive == Spec => []NoDanglingRequest
<1>1. IInv => NoDanglingRequest
  BY DEF IInv, Core, NoDanglingRequest, PointersSound
<1>2. QED BY <1>1, InductiveInvariant, PTL

\* The two together, for any number of callers, whatever deadlines pass and
\* however often the engine is stopped and started: a caller that gives up while
\* the loop holds its request harms no other (LoopWork::request, service, stop).
THEOREM RequestIsSafe == Spec => []AnswersAreTrue
<1>1. HonestAnswers /\ NoDanglingRequest => AnswersAreTrue
  BY DEF AnswersAreTrue
<1>2. QED BY <1>1, AnswersAreHonest, PointersAreLive, PTL

\* The loop thread never sleeps in its own queue, whatever the deadlines do.
THEOREM LoopServesItself == Spec => []LoopNeverWaits
<1>1. TypeInv => LoopNeverWaits
  BY DEF TypeInv
<1>2. QED BY <1>1, TypeInvInit, TypeInvStep, PTL DEF Spec

-----------------------------------------------------------------------------
(* LoopWork implements LoopCall.                                            *)

LEMMA CallMoves ==
  ASSUME NEW t \in Threads, NEW from, NEW to,
         CallOf(t) = from, CallOf(t)' = to,
         \A u \in Threads : u # t => CallOf(u)' = CallOf(u)
  PROVE  Abs!Move(t, from, to)
BY DEF Abs!Move

LEMMA CallRests ==
  ASSUME \A u \in Threads : CallOf(u)' = CallOf(u)
  PROVE  UNCHANGED [t \in Threads |-> CallOf(t)]
OBVIOUS

LEMMA CallStep == IInv /\ IInv' /\ [Next]_vars =>
                    [Abs!Next]_([t \in Threads |-> CallOf(t)])
<1> DEFINE Goal == \/ UNCHANGED [t \in Threads |-> CallOf(t)]
                   \/ \E t \in Threads : \/ Abs!Ask(t) \/ Abs!Perform(t) \/ Abs!Answer(t)
                                         \/ Abs!Return(t) \/ Abs!GiveUp(t)
                   \/ Abs!LetGo
<1> SUFFICES ASSUME IInv, IInv', [Next]_vars PROVE Goal
  BY DEF Abs!Next
<1> USE DEF TypeInv, TypeOK
<1>1. TypeInv /\ Core(overtaken)
  BY DEF IInv
<1>2. ASSUME UNCHANGED <<ran, overtaken>>, \A u \in Threads : pc'[u] # pc[u] =>
               {pc[u], pc'[u]} \subseteq {"inline", "asking", "asleep", "notified"}
      PROVE  Goal
  <2>1. \A u \in Threads : CallOf(u)' = CallOf(u)
    BY <1>2 DEF CallOf
  <2>2. QED BY <2>1, CallRests
\* A step of a thread adrift shows nothing, as long as it stays adrift.
<1>3. ASSUME NEW t \in overtaken, t \in Threads, UNCHANGED overtaken,
             \A u \in Threads : u # t => pc'[u] = pc[u] /\ ran'[u] = ran[u]
      PROVE  Goal
  <2>1. \A u \in Threads : CallOf(u)' = CallOf(u)
    BY <1>3 DEF CallOf
  <2>2. QED BY <2>1, CallRests
<1>4. ASSUME NEW t \in Threads, t \notin overtaken, NEW to \in {"served", "refused"}, Go(t, to),
             UNCHANGED <<ran, overtaken>>, pc[t] \in {"inline", "asking", "asleep", "notified"},
             IF to = "served" THEN ran[t] # 0 ELSE ran[t] = 0
      PROVE  Goal
  <2>1. \A u \in Threads : u # t => CallOf(u)' = CallOf(u)
    BY <1>1, <1>4 DEF CallOf, Go
  <2>2. pc'[t] = to
    BY <1>1, <1>4 DEF Go
  <2>3. CASE to = "served"
    <3>1. CallOf(t) = "performed" /\ CallOf(t)' = "true"
      BY <1>4, <2>2, <2>3 DEF CallOf
    <3>2. QED BY <2>1, <3>1, CallMoves DEF Abs!Answer
  <2>4. CASE to = "refused"
    <3>1. CallOf(t) = "asked" /\ CallOf(t)' = "false"
      BY <1>4, <2>2, <2>4 DEF CallOf
    <3>2. QED BY <2>1, <3>1, CallMoves DEF Abs!Answer
  <2>5. QED BY <2>3, <2>4
<1>5. ASSUME NEW t \in Threads, t \notin overtaken, UNCHANGED <<pc, overtaken>>, ran[t] = 0,
             ran' = [ran EXCEPT ![t] = 1], pc[t] \in {"inline", "asleep", "notified"}
      PROVE  Goal
  <2>1. \A u \in Threads : u # t => CallOf(u)' = CallOf(u)
    BY <1>1, <1>5 DEF CallOf
  <2>2. CallOf(t) = "asked" /\ CallOf(t)' = "performed"
    BY <1>1, <1>5 DEF CallOf
  <2>3. QED BY <2>1, <2>2, CallMoves DEF Abs!Perform
\* wait_for returns with the loop holding nothing of the caller's.
<1>6. ASSUME NEW t \in Threads, Alive(t), LeaveWait(t), t \notin overtaken,
             t \notin Range(batch), UNCHANGED overtaken
      PROVE  Goal
  <2>1. IF done[t] THEN ran[t] # 0 ELSE ran[t] = 0
    BY <1>1, <1>6 DEF Core, Tally, Pointed
  <2>2. QED BY <1>4, <1>6, <2>1 DEF LeaveWait, Alive
\* Whoever is forgotten is idle, and nothing of it has run.
<1>7. ASSUME Forget, UNCHANGED <<pc, ran>> PROVE Goal
  <2> DEFINE T == {t \in Threads : t \in overtaken /\ t \notin overtaken'}
             call == [t \in Threads |-> CallOf(t)]
  <2>1. ASSUME NEW u \in Threads
        PROVE  CallOf(u)' = IF u \in T THEN "none" ELSE CallOf(u)
    <3>1. CASE u \in T
      <4>1. pc'[u] = "idle" /\ u \notin overtaken'
        BY <1>7, <3>1 DEF Forget
      <4>2. QED BY <3>1, <4>1 DEF CallOf
    <3>2. CASE u \notin T
      <4>1. u \in overtaken <=> u \in overtaken'
        BY <1>7, <3>2 DEF Forget
      <4>2. QED BY <1>7, <3>2, <4>1 DEF CallOf
    <3>3. QED BY <3>1, <3>2
  <2>2. T \in SUBSET {t \in Threads : call[t] = "adrift"}
    BY DEF CallOf
  <2>3. call' = [t \in Threads |-> IF t \in T THEN "none" ELSE call[t]]
    BY <2>1
  <2> HIDE DEF T
  <2>4. Abs!LetGo
    BY <2>2, <2>3 DEF Abs!LetGo
  <2>5. QED BY <2>4
<1>8. ASSUME NEW t \in Threads, Request(t) PROVE Goal
  <2>0. \A u \in Threads : u # t => pc'[u] = pc[u] /\ ran'[u] = ran[u]
    BY <1>1, <1>8 DEF Request, Ask, RunInline, FinishInline, Refuse, Enqueue, Wake,
       WakeSatisfied, WakeUnsatisfied, Expire, LeaveWait, Return, Go
  <2>1. CASE t \in overtaken /\ UNCHANGED overtaken
    BY <1>3, <2>0, <2>1
  <2> DEFINE Apart == t \notin overtaken
  <2>2. CASE Ask(t)
    <3>1. UNCHANGED overtaken /\ \A u \in Threads : u # t => CallOf(u)' = CallOf(u)
      BY <2>0, <2>2 DEF Ask, CallOf, loopVars
    <3>2. CASE Apart
      <4>1. CallOf(t) = "none" /\ CallOf(t)' = "asked"
        BY <1>1, <2>2, <3>1, <3>2 DEF Ask, Go, CallOf, Core, IdleNeverRan
      <4>2. QED BY <3>1, <4>1, CallMoves DEF Abs!Ask
    <3>3. QED BY <2>1, <3>1, <3>2
  <2>3. CASE RunInline(t)
    <3>1. UNCHANGED overtaken
      BY <2>3 DEF RunInline, loopVars
    <3>2. CASE Apart
      BY <1>5, <2>3, <3>1, <3>2 DEF RunInline
    <3>3. QED BY <2>1, <3>1, <3>2
  <2>4. CASE FinishInline(t)
    <3>1. Go(t, "served") /\ UNCHANGED <<ran, overtaken>> /\ pc[t] = "inline" /\ ran[t] # 0
      BY <1>1, <2>4 DEF FinishInline, loopVars
    <3>2. CASE Apart
      BY <1>4, <3>1, <3>2
    <3>3. QED BY <2>1, <3>1, <3>2
  <2>5. CASE Refuse(t)
    <3>1. UNCHANGED overtaken
      BY <2>5 DEF Refuse, loopVars
    <3>2. CASE Apart
      BY <1>1, <1>4, <2>5, <3>1, <3>2 DEF Refuse, Tally, Core
    <3>3. QED BY <2>1, <3>1, <3>2
  <2>6. CASE Enqueue(t)
    BY <1>1, <1>2, <2>6 DEF Enqueue, Go, loopVars
  <2>7. CASE WakeSatisfied(t)
    <3>1. Alive(t) /\ LeaveWait(t) /\ UNCHANGED overtaken
      BY <2>7 DEF WakeSatisfied, Alive
    <3>2. CASE Apart
      <4>1. t \notin Range(batch)
        BY <1>1, <2>7, <3>2 DEF WakeSatisfied, Core, BatchOnlyInService, BatchProgress, Range
      <4>2. QED BY <1>6, <3>1, <3>2, <4>1
    <3>3. QED BY <2>1, <3>1, <3>2
  <2>8. CASE WakeUnsatisfied(t)
    BY <1>1, <1>2, <2>8 DEF WakeUnsatisfied, Go, loopVars
  <2>9. CASE Expire(t)
    <3>1. CASE t \in Range(batch) /\ Apart
      <4>1. overtaken' = overtaken \cup {t} /\ Alive(t)
        BY <2>9, <3>1 DEF Expire
      <4>2. \A u \in Threads : u # t => CallOf(u)' = CallOf(u)
        BY <2>0, <4>1 DEF CallOf
      <4>3. CallOf(t)' = "adrift" /\ CallOf(t) \in {"asked", "performed"}
        BY <3>1, <4>1 DEF CallOf, Alive
      <4>4. QED BY <4>2, <4>3, CallMoves DEF Abs!GiveUp
    <3>2. CASE t \notin Range(batch) /\ Apart
      BY <1>6, <2>9, <3>2 DEF Expire
    <3>3. CASE ~Apart
      <4>1. UNCHANGED overtaken
        BY <2>9, <3>3 DEF Expire
      <4>2. QED BY <2>1, <3>3, <4>1
    <3>4. QED BY <3>1, <3>2, <3>3
  <2>10. CASE Return(t)
    <3>1. pc'[t] = "idle" /\ Forget /\ pc[t] \in {"served", "refused"}
      BY <1>1, <2>10 DEF Return, Go
    <3>2. \A u \in Threads : u # t /\ (u \in overtaken <=> u \in overtaken') => CallOf(u)' = CallOf(u)
      BY <2>0 DEF CallOf
    <3>3. \A u \in Threads : u # t => (u \in overtaken <=> u \in overtaken')
      <4>1. \A u \in overtaken : pc[u] # "idle" \/ u \in Pointed
        BY <1>1 DEF Adrift, IInv
      <4>2. Pointed' = Pointed
        BY <2>10 DEF Return, queueVars, Pointed
      <4>3. QED BY <2>0, <3>1, <4>1, <4>2 DEF Forget
    <3>4. \A u \in Threads : u # t => CallOf(u)' = CallOf(u)
      BY <3>2, <3>3
    <3>5. CASE Apart
      <4>1. CallOf(t) \in {"true", "false"} /\ CallOf(t)' = "none"
        BY <3>1, <3>5 DEF CallOf, Forget
      <4>2. QED BY <3>4, <4>1, CallMoves DEF Abs!Return
    <3>6. CASE ~Apart /\ t \in overtaken'
      <4>1. CallOf(t)' = CallOf(t)
        BY <3>6 DEF CallOf
      <4>2. QED BY <3>4, <4>1, CallRests
    <3>7. CASE ~Apart /\ t \notin overtaken'
      <4> DEFINE call == [u \in Threads |-> CallOf(u)]
      <4>1. CallOf(t) = "adrift" /\ CallOf(t)' = "none"
        BY <3>1, <3>7 DEF CallOf
      <4>2. {t} \in SUBSET {u \in Threads : call[u] = "adrift"}
        BY <4>1
      <4>3. call' = [u \in Threads |-> IF u \in {t} THEN "none" ELSE call[u]]
        BY <3>4, <4>1
      <4>4. Abs!LetGo
        BY <4>2, <4>3 DEF Abs!LetGo
      <4>5. QED BY <4>4
    <3>8. QED BY <3>5, <3>6, <3>7
  <2>11. QED
    BY <1>8, <2>2, <2>3, <2>4, <2>5, <2>6, <2>7, <2>8, <2>9, <2>10 DEF Request, Wake
<1>9. CASE TakeBatch
  BY <1>2, <1>9 DEF TakeBatch, callerVars
<1>10. CASE RunNext
  <2>1. batch[next] \in Threads /\ batch[next] \in Range(batch)
    BY <1>1, <1>10 DEF RunNext, Range
  <2>2. UNCHANGED <<pc, overtaken>>
    BY <1>10 DEF RunNext
  <2>3. CASE batch[next] \in overtaken
    <3>1. \A u \in Threads : u # batch[next] => pc'[u] = pc[u] /\ ran'[u] = ran[u]
      BY <1>1, <1>10, <2>1, <2>2 DEF RunNext
    <3>2. QED BY <1>3, <2>1, <2>2, <2>3, <3>1
  <2>4. CASE batch[next] \notin overtaken
    <3>1. Alive(batch[next]) /\ ran[batch[next]] = 0
      BY <1>1, <1>10, <2>1, <2>4 DEF RunNext, Core, PointersSound, Pointed, BatchProgress
    <3>2. ran' = [ran EXCEPT ![batch[next]] = 1]
      BY <1>10, <3>1 DEF RunNext, HasFrame
    <3>3. pc[batch[next]] \in {"inline", "asleep", "notified"}
      BY <3>1 DEF Alive
    <3>4. QED BY <1>5, <2>1, <2>2, <2>4, <3>1, <3>2, <3>3
  <2>5. QED BY <2>3, <2>4
<1>11. CASE MarkDone
  BY <1>7, <1>11 DEF MarkDone
<1>12. CASE NotifyServiced \/ NotifyStopped
  BY <1>1, <1>2, <1>12 DEF NotifyServiced, NotifyStopped, NotifyAll
<1>13. CASE SetServiceThread
  BY <1>2, <1>13 DEF SetServiceThread, callerVars
<1>14. CASE Stop
  BY <1>7, <1>14 DEF Stop, callerVars
<1>15. CASE UNCHANGED vars
  BY <1>2, <1>15 DEF vars, callerVars, loopVars
<1>16. QED
  BY <1>8, <1>9, <1>10, <1>11, <1>12, <1>13, <1>14, <1>15 DEF Next, Service

\* The queue, the lock and the deadlines of request() amount to a call that is
\* performed at most once and answers truthfully, or is adrift from the moment
\* its caller gives it up in the loop's hands until the loop lets go of it: for
\* any number of callers and any deadlines (LoopWork.h, the comment on request).
THEOREM LoopWorkImplementsLoopCall == Spec => ImplementsLoopCall
<1>1. Init => Abs!Init
  BY DEF Init, Abs!Init, CallOf
<1>2. IInv /\ IInv' /\ [Next]_vars => [Abs!Next]_([t \in Threads |-> CallOf(t)])
  BY CallStep
<1>3. QED
  BY <1>1, <1>2, InductiveInvariant, PTL DEF Spec, ImplementsLoopCall, Abs!Spec
=============================================================================
