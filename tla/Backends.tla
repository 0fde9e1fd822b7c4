------------------------------ MODULE Backends ------------------------------
(***************************************************************************)
(* Commands on their way from the interface to an application in another   *)
(* language: the table of commands (Core/Commands.cpp), the calls of the C *)
(* interface that bind, watch, invoke and poll (RendeerC.cpp), and the     *)
(* Node binding, whose thread owns its values: a command it handles is     *)
(* queued on the loop and collected by a timer (bindings/node).  A call    *)
(* that hops to the loop is performed between two frames or refused, which *)
(* is the promise of LoopCall.                                             *)
(***************************************************************************)
EXTENDS Integers, Sequences, SequencesExt

CONSTANTS Names,        \* the declared commands
          kMaxPending,  \* how many commands may wait (256 in the code)
          kTurn,        \* how many commands one poll collects (64)
          MaxFires,     \* how often commands are invoked
          MaxRuns,      \* how often the engine is started
          MaxCalls      \* how often the backend asks the loop for something

ASSUME BackendsAssumption == kMaxPending \in Nat \ {0} /\ kTurn \in Nat

VARIABLES
  engine,           \* off, up, or over and not yet waited for
  run,              \* how many times it was started
  loop,             \* between two frames, or in a walk
  work,             \* Commands: what each command does
  gPending,         \* the queue a backend polls, of numbers of invocations
  gWarnedOverflow,
  thread,           \* Node's thread: idle, or polling
  left,             \* how many commands this poll may still collect
  last,             \* the poll after run() saw that the engine is over
  call,             \* what the thread asks of the loop
  calls,            \* how often it asked, for the bound
  fired,            \* history: the run of every watched invocation, in order
  seen,             \* history: those that were handled, in order
  lost,             \* history: those that were overwritten
  logged,           \* history: the run that last warned of it
  torn              \* history: the tree went while it was walked

backendVars ==
  <<engine, run, loop, work, gPending, gWarnedOverflow, thread, left, last, call, calls,
    fired, seen, lost, logged, torn>>
queue == <<gPending, gWarnedOverflow, logged, lost>>
poller == <<thread, left, last>>

NoCall == [kind |-> "none", name |-> "none"]
Calls == {NoCall, [kind |-> "load", name |-> "none"]}
           \cup [kind : {"watch", "bind", "invoke"}, name : Names]
\* A command does nothing, queues itself, or runs a handler on the loop.
Works == {"nothing", "watch", "handler"}

BackendsTypeOK ==
  /\ engine \in {"off", "up", "over"} /\ loop \in {"between", "walk"}
  /\ work \in [Names -> Works] /\ call \in Calls
  /\ Len(gPending) <= kMaxPending /\ left \in 0..kTurn /\ thread \in {"idle", "polling"}

BackendsInit ==
  /\ engine = "off" /\ run = 0 /\ loop = "between" /\ work = [c \in Names |-> "nothing"]
  /\ gPending = << >> /\ gWarnedOverflow = FALSE
  /\ thread = "idle" /\ left = 0 /\ last = FALSE /\ call = NoCall /\ calls = 0
  /\ fired = << >> /\ seen = << >> /\ lost = {} /\ logged = 0 /\ torn = FALSE

-----------------------------------------------------------------------------
(* On the loop thread.                                                     *)

\* What rda_command_watch binds: when the queue is full the oldest goes.
Queue(n) ==
  LET full == Len(gPending) >= kMaxPending IN
  /\ gPending' = Append(IF full THEN Tail(gPending) ELSE gPending, n)
  /\ lost' = IF full THEN lost \cup {Head(gPending)} ELSE lost
  /\ gWarnedOverflow' = (gWarnedOverflow \/ full)
  /\ logged' = IF full /\ ~gWarnedOverflow THEN run ELSE logged

\* Commands::invoke.  A handler bound to the loop may load an interface, which
\* there happens at once.
Invoke(c) ==
  \/ /\ work[c] = "watch"
     /\ fired' = Append(fired, run) /\ Queue(Len(fired) + 1) /\ UNCHANGED torn
  \/ /\ work[c] = "handler" /\ UNCHANGED <<fired, queue>>
     /\ torn' \in {torn, torn \/ loop = "walk"}
  \/ work[c] = "nothing" /\ UNCHANGED <<fired, queue, torn>>

\* A frame begins to walk the tree, and ends.
Walks ==
  /\ engine = "up" /\ loop' = IF loop = "walk" THEN "between" ELSE "walk"
  /\ UNCHANGED <<engine, run, work, queue, poller, call, calls, fired, seen, torn>>

\* The reader clicks something that invokes a command.
Click ==
  /\ engine = "up" /\ loop = "walk" /\ Len(fired) + (IF call.kind = "invoke" THEN 1 ELSE 0) < MaxFires
  /\ \E c \in Names : Invoke(c)
  /\ UNCHANGED <<engine, run, loop, work, poller, call, calls, seen>>

\* rda_stop, or the reader closes the window.
Closes ==
  /\ engine = "up" /\ loop = "between" /\ engine' = "over"
  /\ UNCHANGED <<run, loop, work, queue, poller, call, calls, fired, seen, torn>>

\* What a call does, on the loop.
Bind(c, w) == work' = [work EXCEPT ![c] = w] /\ UNCHANGED <<queue, fired, torn>>
Perform ==
  CASE call.kind = "watch"  -> Bind(call.name, "watch")
    [] call.kind = "bind"   -> Bind(call.name, "handler")
    [] call.kind = "invoke" -> Invoke(call.name) /\ UNCHANGED work
    [] call.kind = "load"   -> torn' = (torn \/ loop = "walk") /\ UNCHANGED <<work, queue, fired>>

\* LoopWork::service, between two frames.
Service ==
  /\ call # NoCall /\ engine = "up" /\ loop = "between" /\ Perform /\ call' = NoCall
  /\ UNCHANGED <<engine, run, loop, poller, calls, seen>>

-----------------------------------------------------------------------------
(* On Node's thread.                                                       *)

\* rda_init: what an earlier run left uncollected belongs to that run.
\* Mutant: it is left for this one.
InitKeeping ==
  /\ engine = "off" /\ run < MaxRuns /\ run' = run + 1 /\ engine' = "up" /\ loop' = "between"
  /\ UNCHANGED <<work, queue, poller, call, calls, fired, seen, torn>>
\* Mutant: the warning is given once in the life of the process.
InitWarned ==
  /\ engine = "off" /\ run < MaxRuns /\ run' = run + 1 /\ engine' = "up" /\ loop' = "between"
  /\ gPending' = << >>
  /\ UNCHANGED <<work, gWarnedOverflow, lost, logged, poller, call, calls, fired, seen, torn>>
rda_init ==
  /\ engine = "off" /\ run < MaxRuns /\ run' = run + 1 /\ engine' = "up" /\ loop' = "between"
  /\ gPending' = << >> /\ gWarnedOverflow' = FALSE
  /\ UNCHANGED <<work, lost, logged, poller, call, calls, fired, seen, torn>>

\* onCommand, invoke and loadInterface, called in a turn of Node's own loop or
\* in a handler that a poll runs.
Ask ==
  /\ engine = "up" /\ call = NoCall /\ calls < MaxCalls /\ calls' = calls + 1
  /\ call' \in Calls \ {NoCall} /\ (call'.kind = "invoke" => Len(fired) < MaxFires)
  /\ UNCHANGED <<engine, run, loop, work, queue, poller, fired, seen, torn>>
\* The loop has stopped, and the call raises.
Refused ==
  /\ call # NoCall /\ engine # "up" /\ call' = NoCall
  /\ UNCHANGED <<engine, run, loop, work, queue, poller, calls, fired, seen, torn>>

\* The timer of run() calls poll().
\* Mutant: how much a poll may collect is not taken up again.
TurnOnce ==
  /\ thread = "idle" /\ call = NoCall /\ engine # "off" /\ thread' = "polling"
  /\ left' = IF run = 1 /\ seen = << >> THEN kTurn ELSE left
  /\ UNCHANGED <<engine, run, loop, work, queue, last, call, calls, fired, seen, torn>>
Turn ==
  /\ thread = "idle" /\ call = NoCall /\ engine # "off" /\ thread' = "polling" /\ left' = kTurn
  /\ UNCHANGED <<engine, run, loop, work, queue, last, call, calls, fired, seen, torn>>

\* rda_poll_command answers the oldest, and its handler runs.
\* Mutant: it answers the newest.
PollNewest ==
  /\ thread = "polling" /\ call = NoCall /\ left > 0 /\ gPending # << >>
  /\ gPending' = Front(gPending) /\ seen' = Append(seen, Last(gPending)) /\ left' = left - 1
  /\ UNCHANGED <<engine, run, loop, work, gWarnedOverflow, lost, logged, thread, last, call, calls, fired, torn>>
PollCommand ==
  /\ thread = "polling" /\ call = NoCall /\ left > 0 /\ gPending # << >>
  /\ gPending' = Tail(gPending) /\ seen' = Append(seen, Head(gPending)) /\ left' = left - 1
  /\ UNCHANGED <<engine, run, loop, work, gWarnedOverflow, lost, logged, thread, last, call, calls, fired, torn>>

\* run() looks whether the engine is still up; when it is not it polls once
\* more, waits for the engine's thread and may start again.
PollDone ==
  /\ thread = "polling" /\ call = NoCall /\ (left = 0 \/ gPending = << >>)
  /\ IF engine = "up" THEN thread' = "idle" /\ UNCHANGED <<engine, left, last>>
     ELSE IF last THEN thread' = "idle" /\ engine' = "off" /\ last' = FALSE /\ UNCHANGED left
     ELSE last' = TRUE /\ left' = kTurn /\ UNCHANGED <<engine, thread>>
  /\ UNCHANGED <<run, loop, work, queue, call, calls, fired, seen, torn>>

-----------------------------------------------------------------------------
Collect == Turn \/ PollCommand \/ PollDone
BackendsNext == Walks \/ Click \/ Closes \/ Service \/ rda_init \/ Ask \/ Refused \/ Collect

\* Node's timer fires, the loop turns, and it gets to what it is asked.
BackendsSpec == /\ BackendsInit /\ [][BackendsNext]_backendVars
                /\ WF_backendVars(Collect) /\ WF_backendVars(Walks)
                /\ SF_backendVars(Service) /\ WF_backendVars(Refused)

-----------------------------------------------------------------------------
(* Properties.                                                             *)

Increasing(s) == \A i, j \in DOMAIN s : i < j => s[i] < s[j]

\* Commands are handled in the order they were invoked, each once, and in the
\* run of the engine that invoked them.  (rda_command_watch, rda_poll_command
\* and rda_init.)
CollectedInOrder ==
  /\ Increasing(seen \o gPending)
  /\ \A i \in DOMAIN gPending : fired[gPending[i]] = run

QueueIsSound == BackendsTypeOK /\ CollectedInOrder

\* While the engine runs, a command of this run is handled, waiting, or was
\* overwritten by a later one with a warning in the log; it never just goes.
LossIsAnnounced ==
  engine = "up" =>
    \A n \in DOMAIN fired : fired[n] = run =>
      \/ \E i \in DOMAIN seen : seen[i] = n
      \/ \E i \in DOMAIN gPending : gPending[i] = n
      \/ n \in lost /\ logged = run /\ \E k \in n + kMaxPending .. Len(fired) : fired[k] = run

\* Whatever waits is handled, or overwritten, or the engine ends, although the
\* thread that handles it also asks the loop for things and waits.
EverythingIsCollected ==
  \A n \in 1..MaxFires :
    (\E i \in DOMAIN gPending : gPending[i] = n) ~>
      \/ \E i \in DOMAIN seen : seen[i] = n
      \/ n \in lost
      \/ engine # "up"

\* A tree is never replaced while it is walked; the code does not keep it,
\* because a hop made on the loop thread is performed where it is made.
TreeAlwaysStands == ~torn

\* Node's last poll takes whatever the engine left; the code does not keep it
\* when more than two polls' worth waits.
LastPollTakesAll == (engine = "off" /\ run > 0) => gPending = << >>
=============================================================================
