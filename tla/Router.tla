------------------------------- MODULE Router -------------------------------
(***************************************************************************)
(* Which screen is showing, and how it changes: Layout/Router.cpp, driven  *)
(* once an update by rda_init's frame wrapper and opened by               *)
(* rda_open_routes (RendeerC.cpp).                                         *)
(*                                                                         *)
(* Everything here runs on the loop thread: an update, the paint that      *)
(* fades a leaving screen, and the calls and clicks between them are each  *)
(* one step.  A screen is the number in its container's id; a container    *)
(* whose layout failed to load is gone within the step that made it.       *)
(***************************************************************************)
EXTENDS Naturals, Sequences

CONSTANTS
  Names,         \* the routes that are declared
  First,         \* the one declared first
  Unknown,       \* what the `route` signal holds when nothing routes to it
  Params,        \* the signals some route declares as its arguments
  ParamsOf,      \* Route::params, by name
  Values,        \* the values of a param
  HistoryLoads,  \* TRUE: the layout of a screen in the history still loads
  OpenOnce,      \* TRUE: routes are opened only while no screen stands
  MaxAsks,       \* bound: writes, history moves and settings asked for
  MaxBreaks,     \* bound: changes of which layouts load
  MaxOpens       \* bound: calls of rda_open_routes

VARIABLES
  route, param,         \* the signals
  loads,                \* the routes whose layout a host can open
  children,             \* the containers under the parent
  shows,                \* what each of them was built for, and with which params
  faded,                \* those whose fader has finished
  mScreen, mLeaving, mScreenSerial,
  mTransition,          \* mTransitionMs > 0
  mCurrent,
  mHistory, mPosition,
  mPending,             \* where back or forward asked to go, or NoPending
  gRoutesOpen,
  asks, breaks, opens

None      == 0
NoPending == 0
Unset     == Unknown       \* mCurrent before a screen has opened

ASSUME RouterAssumption ==
  /\ First \in Names /\ Unknown \notin Names
  /\ ParamsOf \in [Names -> SUBSET Params]
  /\ Values # {}
  /\ HistoryLoads \in BOOLEAN /\ OpenOnce \in BOOLEAN
  /\ MaxAsks \in Nat /\ MaxBreaks \in Nat /\ MaxOpens \in Nat

signals == <<route, param>>
screens == <<children, shows, faded, mScreen, mLeaving, mScreenSerial, mCurrent>>
history == <<mHistory, mPosition, mPending>>
routerBounds == <<asks, breaks, opens>>
routerVars == <<signals, loads, screens, mTransition, history, gRoutesOpen, routerBounds>>

Entries == UNION {[route : {n}, params : [ParamsOf[n] -> Values]] : n \in Names}

(* Mutant: the entry keeps the route only. *)
SnapshotNoParams(name, values) == [route |-> name, params |-> <<>>]

(* Router::snapshot: the route, and its params as `values` has them. *)
Snapshot(name, values) ==
  [route |-> name, params |-> [p \in ParamsOf[name] |-> values[p]]]

RouterInit ==
  /\ route \in Names \cup {Unknown} /\ param \in [Params -> Values]
  /\ loads \in SUBSET Names
  /\ children = {} /\ shows = [s \in {} |-> Unset] /\ faded = {}
  /\ mScreen = None /\ mLeaving = {} /\ mScreenSerial = 0
  /\ mTransition \in BOOLEAN
  /\ mCurrent = Unset
  /\ mHistory = <<>> /\ mPosition = 0 /\ mPending = NoPending
  /\ gRoutesOpen = FALSE
  /\ asks = 0 /\ breaks = 0 /\ opens = 0

-----------------------------------------------------------------------------
(* Router::show, reached only from an update, which has first taken down   *)
(* the screens whose fade has ended (retireFinished)                       *)

Standing == children \ (mLeaving \cap faded)
Leaving  == mLeaving \ faded

Fresh == mScreenSerial + 1

(* Mutant: with no transition the screens are forgotten but not removed. *)
ArriveLingering ==
  /\ mLeaving' = IF mTransition /\ mScreen # None THEN Leaving \cup {mScreen} ELSE {}
  /\ children' = Standing \cup {Fresh}

(* The containers once a new screen stands: the old one lingers to fade,   *)
(* or, with no transition, it goes and so do all that were leaving.        *)
Arrive ==
  IF mTransition /\ mScreen # None
    THEN /\ mLeaving' = Leaving \cup {mScreen}
         /\ children' = Standing \cup {Fresh}
    ELSE /\ mLeaving' = {}
         /\ children' = (Standing \ (Leaving \cup {mScreen})) \cup {Fresh}

Show(name, values) ==
  /\ name \in loads
  /\ Arrive
  /\ shows' = [s \in children' |-> IF s = Fresh THEN Snapshot(name, values) ELSE shows[s]]
  /\ faded' = faded \cap mLeaving'
  /\ mScreen' = Fresh /\ mScreenSerial' = Fresh
  /\ mCurrent' = name /\ route' = name

(* The same screen stays, whatever else an update does. *)
Sweep ==
  /\ children' = Standing /\ mLeaving' = Leaving /\ faded' = {}
  /\ shows' = [s \in Standing |-> shows[s]]
  /\ UNCHANGED <<mScreen, mScreenSerial, mCurrent>>

(* The host could not open it, and its container is gone again. *)
ShowFails(name) == name \notin loads /\ Sweep

-----------------------------------------------------------------------------
(* Router::open, through rda_open_routes: a new router in place of the old *)

Opening == IF route \in Names THEN route ELSE First

OpenShows ==
  /\ Opening \in loads
  /\ children' = children \cup {Fresh}
  /\ shows' = [s \in children' |-> IF s = Fresh THEN Snapshot(Opening, param) ELSE shows[s]]
  /\ mScreen' = Fresh /\ mScreenSerial' = Fresh
  /\ mCurrent' = Opening /\ route' = Opening
  /\ mHistory' = <<Snapshot(Opening, param)>> /\ mPosition' = 1
  /\ gRoutesOpen' = TRUE

OpenFails ==
  /\ Opening \notin loads
  /\ mScreen' = None /\ mCurrent' = Unset
  /\ mHistory' = <<>> /\ mPosition' = 0
  /\ gRoutesOpen' = FALSE
  /\ UNCHANGED <<route, children, shows, mScreenSerial>>

Open ==
  /\ opens < MaxOpens
  /\ OpenOnce => children = {}
  /\ OpenShows \/ OpenFails
  /\ mLeaving' = {} /\ faded' = {} /\ mPending' = NoPending
  /\ opens' = opens + 1
  /\ UNCHANGED <<param, loads, mTransition, asks, breaks>>

-----------------------------------------------------------------------------
(* Router::update                                                          *)

Restored(entry) ==
  [p \in Params |-> IF p \in ParamsOf[entry.route] THEN entry.params[p] ELSE param[p]]

(* Mutant: the screen is built before its params are put back. *)
RestoreShowsFirst ==
  /\ mPending # NoPending
  /\ mPending' = NoPending /\ mPosition' = mPending
  /\ LET entry == mHistory[mPending] IN
     /\ param' = Restored(entry)
     /\ \/ Show(entry.route, param)
        \/ ShowFails(entry.route) /\ UNCHANGED route
  /\ UNCHANGED mHistory

(* A history move: the params, then the screen. *)
Restore ==
  /\ mPending # NoPending
  /\ mPending' = NoPending /\ mPosition' = mPending
  /\ LET entry == mHistory[mPending] IN
     /\ param' = Restored(entry)
     /\ \/ Show(entry.route, param')
        \/ ShowFails(entry.route) /\ UNCHANGED route
  /\ UNCHANGED mHistory

(* The signal names another screen: it opens, and what was ahead in the    *)
(* history goes; or it does not load, and the next update tries it again.  *)
Navigate ==
  /\ mPending = NoPending
  /\ route # mCurrent /\ route \in Names
  /\ \/ /\ Show(route, param)
        /\ mHistory' = Append(SubSeq(mHistory, 1, mPosition), Snapshot(route, param))
        /\ mPosition' = mPosition + 1
     \/ /\ ShowFails(route)
        /\ UNCHANGED <<route, mHistory, mPosition>>
  /\ UNCHANGED <<param, mPending>>

(* Mutant: a name nothing routes to stays in the signal. *)
RefuseKeepsSignal ==
  /\ mPending = NoPending
  /\ route # mCurrent /\ route \notin Names
  /\ Sweep
  /\ UNCHANGED <<signals, history>>

(* Nothing routes to what the signal names: it is put back. *)
Refuse ==
  /\ mPending = NoPending
  /\ route # mCurrent /\ route \notin Names
  /\ Sweep
  /\ route' = mCurrent
  /\ UNCHANGED <<param, history>>

(* Nothing asked for: the host looks at its files (LayoutHost). *)
Stay ==
  /\ mPending = NoPending /\ route = mCurrent
  /\ Sweep
  /\ UNCHANGED <<signals, history>>

Update ==
  /\ gRoutesOpen
  /\ Restore \/ Navigate \/ Refuse \/ Stay
  /\ UNCHANGED <<loads, mTransition, gRoutesOpen, routerBounds>>

-----------------------------------------------------------------------------
(* Between updates                                                         *)

(* ScreenFader::paint: a leaving screen reaches the end of its fade. *)
Fade(s) ==
  /\ s \in mLeaving \ faded
  /\ faded' = faded \cup {s}
  /\ UNCHANGED <<signals, loads, children, shows, mScreen, mLeaving, mScreenSerial,
                 mCurrent, mTransition, history, gRoutesOpen, routerBounds>>

Asking == asks < MaxAsks /\ asks' = asks + 1

(* A layout or the application writes `route`, or calls Router::navigate. *)
WriteRoute(name) ==
  /\ Asking /\ route' = name
  /\ UNCHANGED <<param, loads, screens, mTransition, history, gRoutesOpen, breaks, opens>>

WriteParam(p, v) ==
  /\ Asking /\ param' = [param EXCEPT ![p] = v]
  /\ UNCHANGED <<route, loads, screens, mTransition, history, gRoutesOpen, breaks, opens>>

AskBack ==
  /\ gRoutesOpen /\ mPosition > 1
  /\ Asking /\ mPending' = mPosition - 1
  /\ UNCHANGED <<signals, loads, screens, mTransition, mHistory, mPosition, gRoutesOpen,
                 breaks, opens>>

AskForward ==
  /\ gRoutesOpen /\ mPosition < Len(mHistory)
  /\ Asking /\ mPending' = mPosition + 1
  /\ UNCHANGED <<signals, loads, screens, mTransition, mHistory, mPosition, gRoutesOpen,
                 breaks, opens>>

(* rda_set_transition_ms, as the next update applies it. *)
SetTransition ==
  /\ Asking /\ mTransition' = ~mTransition
  /\ UNCHANGED <<signals, loads, screens, history, gRoutesOpen, breaks, opens>>

(* A blueprint is damaged, or put right. *)
Rewrite(name) ==
  /\ breaks < MaxBreaks /\ breaks' = breaks + 1
  /\ HistoryLoads => \A i \in 1 .. Len(mHistory) : mHistory[i].route # name
  /\ loads' = IF name \in loads THEN loads \ {name} ELSE loads \cup {name}
  /\ UNCHANGED <<signals, screens, mTransition, history, gRoutesOpen, asks, opens>>

RouterNext ==
  \/ Open
  \/ Update
  \/ \E s \in mLeaving : Fade(s)
  \/ \E n \in Names \cup {Unknown} : WriteRoute(n)
  \/ \E p \in Params, v \in Values : WriteParam(p, v)
  \/ AskBack \/ AskForward \/ SetTransition
  \/ \E n \in Names : Rewrite(n)

RouterSpec == RouterInit /\ [][RouterNext]_routerVars

(* The frame loop updates for ever. Nothing is assumed of Fade: a fader    *)
(* learns that its time is over only when it is painted, and an idle       *)
(* window may not paint it again (finding).                                *)
FairRouterSpec == RouterSpec /\ WF_routerVars(Update)

-----------------------------------------------------------------------------
(* Properties                                                              *)

(* Every variable keeps its type; what is showing is a declared route. *)
RouterTypeOK ==
  /\ route \in Names \cup {Unknown} /\ param \in [Params -> Values]
  /\ loads \subseteq Names
  /\ mScreenSerial \in Nat /\ children \subseteq 1 .. mScreenSerial
  /\ shows \in [children -> Entries]
  /\ mScreen \in 0 .. mScreenSerial /\ mLeaving \subseteq 1 .. mScreenSerial
  /\ faded \subseteq mLeaving
  /\ mTransition \in BOOLEAN /\ gRoutesOpen \in BOOLEAN
  /\ mCurrent \in Names \cup {Unset}
  /\ mHistory \in Seq(Entries)
  /\ mPosition \in Nat /\ mPending \in Nat
  /\ asks \in 0 .. MaxAsks /\ breaks \in 0 .. MaxBreaks /\ opens \in 0 .. MaxOpens

(* The containers under the parent are the screen that is showing and the  *)
(* ones on their way out, all older than it and so painted beneath it, and *)
(* the one showing is the screen the router says it is: no order of swaps, *)
(* failed loads, finished fades and transitions switched on and off leaves *)
(* a screen nobody will take away, or takes away the one in use.           *)
ScreensAccountedFor ==
  gRoutesOpen =>
    /\ mScreen # None
    /\ children = mLeaving \cup {mScreen}
    /\ \A s \in mLeaving : s < mScreen
    /\ mCurrent = shows[mScreen].route

(* The history's place is the screen that is showing, with the params it   *)
(* was built with: back and forward lead from where the user is, and bring *)
(* a screen's arguments back before it is built.                           *)
EntryIsTheScreen ==
  gRoutesOpen => /\ mPosition \in 1 .. Len(mHistory)
                 /\ mHistory[mPosition] = shows[mScreen]

(* A move asked for by a button and applied by a later update is still one *)
(* step through the history when its turn comes: no navigation in between  *)
(* has cut off the entry it points at.                                     *)
PendingInHistory ==
  mPending # NoPending =>
    /\ mPending \in 1 .. Len(mHistory)
    /\ mPending = mPosition - 1 \/ mPending = mPosition + 1

(* The history is the user's: its place is the screen they are on, and a   *)
(* step asked for but not yet taken leads to a neighbour of it (show, back, *)
(* forward, update).                                                       *)
HistoryIsTheUsers == EntryIsTheScreen /\ PendingInHistory

(* The `route` signal is the record of what is showing, and no move is     *)
(* left asked for: whatever is written to it, and whatever back or forward *)
(* is pressed in between, it comes to name the screen, unless it names one *)
(* that does not load.                                                     *)
Settled == mPending = NoPending /\ (route = mCurrent \/ route \in Names \ loads)
RouteSettles == []<>(gRoutesOpen => Settled)

(* A screen on its way out is taken down, however often the user navigated *)
(* while it faded.                                                         *)
ScreensLeave == []<>(mLeaving = {})

(* The router's share of ScreensLeave: if again and again every fade under *)
(* way has been painted to its end, then again and again no screen is on   *)
(* its way out. It is Motion and Gui that owe the premise.                 *)
FadedScreensLeave == []<>(mLeaving \subseteq faded) => ScreensLeave

(* Navigation comes to rest: the signal names the screen, no move is       *)
(* pending, and every screen whose fade was painted to its end is gone     *)
(* (Router::update, retireFinished).                                       *)
RoutesComeToRest == RouteSettles /\ FadedScreensLeave
=============================================================================
