------------------------------- MODULE Frame -------------------------------
(***************************************************************************)
(* One window of an on-demand loop (RedrawMode::OnDemand), from a change   *)
(* of what it should show to the image that is presented: pumpEvents and   *)
(* runFrame (RendeerAlpha.cpp), Gui::begin and end with the retained       *)
(* geometry (Gui.cpp), Motion::step, Renderer::drawWindow and              *)
(* Window::recreateSwapchain.                                              *)
(*                                                                         *)
(* The loop thread takes the steps from Sync to Skip or Draw; the OS       *)
(* resizes the window and another thread changes the scene between any two *)
(* of them.  What a thing says is a version number.  drawWindow is one     *)
(* step: a scene or a size that changes while it runs could as well have   *)
(* changed before or after it.                                             *)
(***************************************************************************)
EXTENDS Naturals

CONSTANTS
  Extents,             \* the sizes a window can have
  Arrival,             \* the steps of Motion::step an animation takes
  SurfaceTellsExtent,  \* TRUE: the surface reports its currentExtent
  ListsFollow,         \* TRUE: a list comes after the handlers that write its table
  MaxEdits,            \* bound: changes made by the application
  MaxResizes           \* bound: changes of size made by the OS

VARIABLES
  said, mDirty, field,  \* a bound value, whether its binding waits, the widget
  rows,                 \* the contents and the revision of a table
  scene, owed,          \* the scene; a rendeerRequestRedraw yet to be called
  gRedrawRequested,
  mLayoutDirty, mLastTableRevision, mLastViewport,
  mDraw, mDrawVersion,  \* the geometry, and the one end() fingerprinted last
  target, elapsed, mMoving,  \* an animated value of the widget
  area, pending,        \* the size the window has; resize events on their way
  mCached, mFramebufferResized,
  mSwapchain,           \* the extent it was made for
  shown,                \* what was presented last
  fresh,                \* history: nothing was presented in this swapchain yet
  pc,                   \* the loop; at "modal" a frame begins inside the poll
  edits, resizes

NoArea      == 0
NoSwapchain == 0
Nothing     == [field |-> 0, at |-> 0, rows |-> 0, view |-> 0]
Blank       == [picture |-> Nothing, scene |-> 0, extent |-> NoArea]

ASSUME FrameAssumption ==
  /\ Extents \subseteq Nat \ {NoArea} /\ Extents # {}
  /\ Arrival \in Nat \ {0}
  /\ SurfaceTellsExtent \in BOOLEAN /\ ListsFollow \in BOOLEAN
  /\ MaxEdits \in Nat /\ MaxResizes \in Nat

content == <<said, mDirty, field, rows>>
scenery == <<scene, owed>>
gui     == <<mLayoutDirty, mLastTableRevision, mLastViewport, mDraw, mDrawVersion>>
motion  == <<target, elapsed, mMoving>>
os      == <<area, pending>>
window == <<mFramebufferResized, mSwapchain>>
screen  == <<shown, fresh>>
bounds  == <<edits, resizes>>
vars    == <<content, scenery, gRedrawRequested, gui, motion, os, mCached,
             window, screen, pc, bounds>>

(* A window is made with the size the OS gives it, or minimised, and then  *)
(* without a swapchain and with mFramebufferResized set.  Nothing has been *)
(* walked; gRedrawRequested starts out set.                                *)
Init ==
  /\ said = 1 /\ mDirty = FALSE /\ field = 1 /\ rows = 1
  /\ scene = 1 /\ owed = FALSE
  /\ gRedrawRequested = TRUE
  /\ mLayoutDirty = TRUE /\ mLastTableRevision = 0 /\ mLastViewport = NoArea
  /\ mDraw = Nothing /\ mDrawVersion = Nothing
  /\ target = 1 /\ elapsed = Arrival /\ mMoving = FALSE
  /\ area \in Extents \cup {NoArea} /\ pending = 0
  /\ mCached = area
  /\ mFramebufferResized = (area = NoArea)
  /\ mSwapchain = IF area = NoArea THEN NoSwapchain ELSE area
  /\ shown = Blank /\ fresh = TRUE
  /\ pc = "poll"
  /\ edits = 0 /\ resizes = 0

-----------------------------------------------------------------------------
(* The OS: a new size, and the event that will say so                      *)

Resize(a) ==
  /\ resizes < MaxResizes
  /\ a # area
  /\ area' = a
  /\ pending' = pending + 1
  /\ resizes' = resizes + 1
  /\ UNCHANGED <<content, scenery, gRedrawRequested, gui, motion, mCached,
                 window, screen, pc, edits>>

-----------------------------------------------------------------------------
(* The event pump                                                          *)

(* framebufferResizeCallback, and then the size callback, which runs a     *)
(* frame inside the poll: serviceWhileModal.                               *)
Deliver ==
  /\ pc = "poll" /\ pending > 0
  /\ pending' = pending - 1
  /\ mFramebufferResized' = TRUE
  /\ pc' = "modal"
  /\ UNCHANGED <<content, scenery, gRedrawRequested, gui, motion, area, mCached,
                 mSwapchain, screen, bounds>>

(* The position and the refresh callbacks run a frame as well. *)
Refresh ==
  /\ pc = "poll"
  /\ pc' = "modal"
  /\ UNCHANGED <<content, scenery, gRedrawRequested, gui, motion, os, mCached,
                 window, screen, bounds>>

(* Every event there was has been delivered. *)
PollReturns ==
  /\ pc = "poll" /\ pending = 0
  /\ pc' = "sync"
  /\ UNCHANGED <<content, scenery, gRedrawRequested, gui, motion, os, mCached,
                 window, screen, bounds>>

(* Window::syncOSState, which asks for the size there is by now. *)
Sync ==
  /\ pc = "sync"
  /\ mCached' = area
  /\ pc' = "begin"
  /\ UNCHANGED <<content, scenery, gRedrawRequested, gui, motion, os, window,
                 screen, bounds>>

-----------------------------------------------------------------------------
(* The application                                                         *)

(* On the loop thread code runs before a frame (LoopWork::service) and in  *)
(* onUpdate, after the walk.                                               *)
OnLoop == pc \in {"begin", "update"}

Editing ==
  /\ edits < MaxEdits /\ edits' = edits + 1
  /\ UNCHANGED <<motion, os, mCached, window, screen, pc, resizes,
                 mLastTableRevision, mLastViewport, mDraw, mDrawVersion>>

(* Signals::set: the binding waits for the next frame. *)
SetSignal ==
  /\ OnLoop /\ Editing
  /\ said' = said + 1 /\ mDirty' = TRUE
  /\ UNCHANGED <<field, rows, scenery, gRedrawRequested, mLayoutDirty>>

(* A widget's public field, and then rendeerInterfaceChanged. *)
WriteField ==
  /\ OnLoop /\ Editing /\ ~mDirty
  /\ said' = said + 1 /\ field' = said'
  /\ mLayoutDirty' = TRUE /\ gRedrawRequested' = TRUE
  /\ UNCHANGED <<mDirty, rows, scenery>>

(* Table: the cells, and its revision with them. *)
WriteTable ==
  /\ OnLoop /\ Editing
  /\ rows' = rows + 1
  /\ UNCHANGED <<said, mDirty, field, scenery, gRedrawRequested, mLayoutDirty>>

(* The scene, from any thread; the call that says so comes after. *)
ChangeScene ==
  /\ ~owed /\ Editing
  /\ scene' = scene + 1 /\ owed' = TRUE
  /\ UNCHANGED <<content, gRedrawRequested, mLayoutDirty>>

RequestRedraw ==
  /\ owed
  /\ owed' = FALSE /\ gRedrawRequested' = TRUE
  /\ UNCHANGED <<content, scene, gui, motion, os, mCached, window, screen, pc, bounds>>

-----------------------------------------------------------------------------
(* runFrame, up to the walk                                                *)

(* Mutant: a value goes on after it has arrived. *)
SteppedPast == elapsed + 1

(* Motion::step: the step that settles a value does not count it. *)
Stepped == IF elapsed < Arrival THEN elapsed + 1 ELSE elapsed
StillMoving == elapsed < Arrival /\ Stepped < Arrival

(* Bindings::applyDirty, then markDirty and rendeerRequestRedraw. *)
Applied == IF mDirty THEN said ELSE field

(* Mutant: nobody marks the tree dirty. *)
CanReuseUnmarked ==
  /\ mDraw # Nothing
  /\ ~StillMoving
  /\ mCached = mLastViewport
  /\ rows = mLastTableRevision

(* Gui::canReuseRetained. *)
CanReuse ==
  /\ mDraw # Nothing                  \* mCacheValid
  /\ ~mLayoutDirty /\ ~mDirty
  /\ ~StillMoving
  /\ mCached = mLastViewport
  /\ rows = mLastTableRevision

FrameBegins ==
  /\ pc \in {"begin", "modal"}
  /\ field' = Applied /\ mDirty' = FALSE
  /\ gRedrawRequested' = (gRedrawRequested \/ mDirty)
  /\ pc' = "update"
  /\ UNCHANGED <<said, scenery, mDrawVersion, os, mCached, window, screen>>

(* Last frame's geometry stands in for this one's. *)
Reuse ==
  /\ FrameBegins
  /\ CanReuse
  /\ elapsed' = Stepped /\ mMoving' = StillMoving
  /\ UNCHANGED <<rows, mLayoutDirty, mLastTableRevision, mLastViewport, mDraw,
                 target, bounds>>

(* The walk paints each value where it is, and starts the ones that have   *)
(* somewhere new to go (Motion::track; one first seen is there already); r *)
(* is the table as it was painted.  What the geometry was made from is     *)
(* recorded when the walk is over.                                         *)
WalkPainting(r) ==
  LET starts == mDraw # Nothing /\ field' # target
      at     == IF starts THEN 0 ELSE Stepped
  IN
  /\ FrameBegins
  /\ target' = field' /\ elapsed' = at
  /\ mMoving' = (starts \/ StillMoving)
  /\ mDraw' = [field |-> field', at |-> at, rows |-> r, view |-> mCached]
  /\ mLastTableRevision' = rows'
  /\ mLastViewport' = mCached
  /\ mLayoutDirty' = FALSE

(* There is a reason to walk, or there is input. *)
Walk == UNCHANGED <<rows, bounds>> /\ WalkPainting(rows)

(* A handler the walk runs writes the table, before its list is painted or *)
(* after.                                                                  *)
WalkWithHandler ==
  /\ edits < MaxEdits /\ edits' = edits + 1
  /\ rows' = rows + 1
  /\ \/ WalkPainting(rows')
     \/ ~ListsFollow /\ WalkPainting(rows)
  /\ UNCHANGED resizes

-----------------------------------------------------------------------------
(* runFrame, from Gui::end on                                              *)

(* Mutant: the request is forgotten. *)
EarnedUnasked == mFramebufferResized \/ mDraw # mDrawVersion \/ mMoving

Earned ==
  gRedrawRequested \/ mFramebufferResized \/ mDraw # mDrawVersion \/ mMoving

(* Gui::end's fingerprint, and the request, consumed either way. *)
Gate(next) ==
  /\ pc = "update"
  /\ mDrawVersion' = mDraw
  /\ gRedrawRequested' = FALSE
  /\ pc' = next
  /\ UNCHANGED <<content, scenery, mLayoutDirty, mLastTableRevision, mLastViewport,
                 mDraw, motion, os, mCached, window, screen, bounds>>

Skip == ~Earned /\ Gate("poll")
Earn == Earned /\ Gate("draw")

(* Window::recreateSwapchain.  Refused while the surface has no area, and  *)
(* then the swapchain there is stays, unless the area went between the two *)
(* times the surface was asked.                                            *)
NewExtent == IF SurfaceTellsExtent THEN area ELSE mCached

Rebuilt == NewExtent # NoArea /\ mSwapchain' = NewExtent /\ mFramebufferResized' = FALSE
Refused ==
  /\ NewExtent = NoArea
  /\ mSwapchain' \in {mSwapchain} \cup (IF pending > 0 THEN {NoSwapchain} ELSE {})
  /\ UNCHANGED mFramebufferResized

(* A swapchain that does not fit its surface may be out of date. *)
Misfit == SurfaceTellsExtent /\ mSwapchain # area

Drawing ==
  /\ pc = "draw" /\ pc' = "poll"
  /\ UNCHANGED <<content, scenery, gRedrawRequested, gui, motion, os, mCached,
                 bounds>>

(* Minimised: nothing to render to. *)
DrawNothing ==
  /\ Drawing /\ mCached = NoArea
  /\ UNCHANGED <<window, screen>>

(* No swapchain yet, or one found out of date when an image is acquired or *)
(* presented: it is made again, and the frame is over.                     *)
DrawRebuilds ==
  /\ Drawing /\ mCached # NoArea
  /\ mSwapchain = NoSwapchain \/ Misfit
  /\ \/ Rebuilt /\ fresh' = TRUE
     \/ Refused /\ UNCHANGED fresh
  /\ UNCHANGED shown

(* Presented.  If the swapchain no longer fits, or the window was resized, *)
(* it is made again for the frame after.                                   *)
DrawPresents ==
  /\ Drawing /\ mCached # NoArea /\ mSwapchain # NoSwapchain
  /\ shown' = [picture |-> mDraw, scene |-> scene, extent |-> mSwapchain]
  /\ \/ (mFramebufferResized \/ Misfit) /\ Rebuilt /\ fresh' = TRUE
     \/ (mFramebufferResized \/ Misfit) /\ Refused /\ fresh' = FALSE
     \/ ~mFramebufferResized /\ UNCHANGED window /\ fresh' = FALSE

Next ==
  \/ \E a \in Extents \cup {NoArea} : Resize(a)
  \/ Deliver \/ Refresh \/ PollReturns \/ Sync
  \/ SetSignal \/ WriteField \/ WriteTable \/ ChangeScene \/ RequestRedraw
  \/ Reuse \/ Walk \/ WalkWithHandler
  \/ Skip \/ Earn
  \/ DrawNothing \/ DrawRebuilds \/ DrawPresents

Spec == Init /\ [][Next]_vars

(* The loop goes on; a poll delivers what there is and comes back, however *)
(* often the OS has a frame run inside it; whoever changed the scene makes *)
(* the call.  Nobody has to move the pointer.                              *)
LoopStep == Sync \/ Reuse \/ Walk \/ Skip \/ Earn \/ DrawNothing \/ DrawRebuilds \/ DrawPresents
FairSpec ==
  /\ Spec
  /\ WF_vars(LoopStep) /\ SF_vars(Deliver) /\ SF_vars(PollReturns)
  /\ WF_vars(RequestRedraw)

-----------------------------------------------------------------------------
(* Properties                                                              *)

Pictures ==
  [field : Nat, at : 0 .. Arrival, rows : Nat, view : Extents \cup {NoArea}]

Images   == [picture : Pictures, scene : Nat, extent : Extents \cup {NoArea}]

(* Every variable keeps its type. *)
TypeOK ==
  /\ said \in Nat /\ field \in Nat /\ rows \in Nat /\ scene \in Nat
  /\ mDirty \in BOOLEAN /\ owed \in BOOLEAN /\ gRedrawRequested \in BOOLEAN
  /\ mLayoutDirty \in BOOLEAN /\ mMoving \in BOOLEAN
  /\ mLastTableRevision \in Nat /\ mLastViewport \in Extents \cup {NoArea}
  /\ mDraw \in Pictures /\ mDrawVersion \in Pictures
  /\ target \in Nat /\ elapsed \in 0 .. Arrival
  /\ area \in Extents \cup {NoArea} /\ mCached \in Extents \cup {NoArea}
  /\ pending \in 0 .. resizes /\ resizes \in 0 .. MaxResizes
  /\ mFramebufferResized \in BOOLEAN /\ mSwapchain \in Extents \cup {NoSwapchain}
  /\ shown \in Images
  /\ fresh \in BOOLEAN
  /\ pc \in {"poll", "sync", "begin", "modal", "update", "draw"}
  /\ edits \in 0 .. MaxEdits

(* What is on the screen is what there is to show, at the size the window  *)
(* has, with animations at most n steps from their end.                    *)
Current(n) ==
  /\ shown.picture.field = said
  /\ shown.picture.rows = rows
  /\ shown.picture.view = area
  /\ shown.picture.at + n >= Arrival
  /\ shown.scene = scene
  /\ shown.extent = area

(* Nothing is left anywhere that would make the loop draw. *)
Quiet ==
  /\ pc = "poll" /\ pending = 0 /\ mCached = area
  /\ ~owed /\ ~gRedrawRequested /\ ~mDirty
  /\ ~mLayoutDirty /\ mLastTableRevision = rows /\ mLastViewport = area
  /\ ~mMoving /\ mDraw = mDrawVersion /\ ~mFramebufferResized

(* When every flag, revision and request that could earn a frame is spent, *)
(* the image on the screen is the one a frame would draw now: no order of  *)
(* edits, requests, resizes and frames inside the poll uses one of them up *)
(* without showing what it stood for.  But for two things: a swapchain in  *)
(* which nothing was presented since it was made, and the last step of an  *)
(* animation.                                                              *)
QuietMeansCurrent == Quiet /\ area # NoArea /\ ~fresh => Current(1)

(* What RedrawMode::OnDemand says of a skipped frame, that the window      *)
(* keeps showing the last presented image, for a swapchain just made too:  *)
(* there is such an image, and it is the one to show.                      *)
SkippedIsOnScreen == Quiet /\ area # NoArea => Current(1)

(* Whatever is changed, from a handler, between frames, in onUpdate or on  *)
(* another thread, is on the screen after a while, without any input.      *)
EveryChangeIsShown == []<>(area = NoArea \/ fresh \/ Current(1))

(* When nothing changes any more the loop stops drawing, whether or not    *)
(* the pointer moves; a minimised window is asked and draws nothing.       *)
IdleStops == <>[](pc = "draw" => area = NoArea)

(* The bargain of drawing on demand: every change is drawn, and then       *)
(* nothing is (Window::beginFrame's skip, runFrame, Gui::end).             *)
ShownThenStill == EveryChangeIsShown /\ IdleStops
=============================================================================
