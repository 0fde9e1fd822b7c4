---------------------------- MODULE ScreenProofs ----------------------------
(***************************************************************************)
(* What is on the screen, and which screen it is.                          *)
(*                                                                         *)
(* Frame, for every set of sizes, every length of animation and any number *)
(* of edits and resizes.  Router, for every set of routes and params, and  *)
(* any number of navigations; there the inductive invariant is RInv,       *)
(* Accounted is added to it where routes are opened only while no screen   *)
(* stands, and Remembered where what is in the history still loads.        *)
(***************************************************************************)
EXTENDS Frame, Router, TLAPS

-----------------------------------------------------------------------------
(* The strengthening.  Each part says of one cause of staleness where the  *)
(* note of it is kept until the image is right.                            *)

(* A write to the signal waits with its binding; a widget that differs     *)
(* from the geometry waits for a walk; no walk, no geometry.               *)
WidgetAccounted ==
  /\ mDirty \/ field = said
  /\ mLayoutDirty \/ mDraw.field = field
  /\ mDraw = Nothing => mLayoutDirty
  /\ rows > 0

(* The revisions recorded are those the geometry was made from. *)
RecordedIsDrawn ==
  /\ mDraw.rows = mLastTableRevision
  /\ mDraw.view = mLastViewport
  /\ pc \in {"update", "draw"} => mLastViewport = mCached

(* The geometry is where its values are, or one step behind; and a window  *)
(* with nothing moving has them where they are going.                      *)
MotionAccounted ==
  /\ mDraw # Nothing => mDraw.at = elapsed \/ (elapsed = Arrival /\ mDraw.at + 1 = Arrival)
  /\ mMoving \/ elapsed = Arrival

(* The area a window lost, and a swapchain that does not fit, are known    *)
(* from an event on its way or from the flag it left.                      *)
ResizeAccounted ==
  /\ area = NoArea => pending > 0 \/ mFramebufferResized
  /\ mSwapchain = area \/ pending > 0 \/ mFramebufferResized

(* What excuses an image that is not the one fingerprinted last. *)
Excused ==
  fresh \/ pending > 0 \/ mFramebufferResized \/ mDrawVersion.view = NoArea

(* The image is of the geometry and the scene, unless it is about to be. *)
ImageAccounted ==
  /\ pc = "draw" => mDrawVersion = mDraw
  /\ pc # "draw" => Excused \/ (shown.picture = mDrawVersion /\ shown.extent = mSwapchain)
  /\ Excused \/ pc = "draw" \/ gRedrawRequested \/ owed \/ shown.scene = scene

IInv ==
  TypeOK /\ WidgetAccounted /\ RecordedIsDrawn /\ MotionAccounted /\ ResizeAccounted /\ ImageAccounted

USE DEF content, scenery, gui, motion, os, window, screen, bounds,
        NoArea, NoSwapchain

-----------------------------------------------------------------------------
(* The loop starts with everything accounted for. *)
LEMMA InitIInv == Init => IInv
<1> SUFFICES ASSUME Init PROVE IInv
  OBVIOUS
<1>1. TypeOK
  <2>1. 0 \in 0 .. Arrival
    BY FrameAssumption
  <2>2. Nothing \in Pictures
    BY <2>1 DEF Pictures, Nothing
  <2>3. Blank \in Images
    BY <2>2 DEF Images, Blank
  <2>4. mFramebufferResized \in BOOLEAN
    BY DEF Init
  <2>5. pending \in 0 .. resizes /\ resizes \in 0 .. MaxResizes /\ edits \in 0 .. MaxEdits
    BY FrameAssumption DEF Init
  <2>6. elapsed \in 0 .. Arrival
    BY FrameAssumption DEF Init
  <2> QED
    BY <2>2, <2>3, <2>4, <2>5, <2>6 DEF Init, TypeOK
<1>2. WidgetAccounted
  BY DEF Init, WidgetAccounted
<1>3. RecordedIsDrawn
  BY DEF Init, RecordedIsDrawn, Nothing
<1>4. MotionAccounted
  BY DEF Init, MotionAccounted
<1>5. ResizeAccounted
  BY DEF Init, ResizeAccounted
<1>6. ImageAccounted
  BY DEF Init, ImageAccounted, Excused
<1> QED
  BY <1>1, <1>2, <1>3, <1>4, <1>5, <1>6 DEF IInv

(* A walk draws the widget where its value is, over some state of the      *)
(* table, and knows if the value moves on.                                 *)
WalkDraws(r) ==
  /\ mDraw' \in Pictures
  /\ mDraw'.field = field' /\ mDraw'.rows = r /\ mDraw'.view = mCached
  /\ mDraw'.at = elapsed'
  /\ elapsed' \in 0 .. Arrival /\ target' \in Nat /\ field' \in Nat
  /\ mMoving' \in BOOLEAN /\ (mMoving' \/ elapsed' = Arrival)

LEMMA WalkPaints ==
  ASSUME TypeOK, NEW r \in Nat, WalkPainting(r)
  PROVE  WalkDraws(r)
<1>1. elapsed \in 0 .. Arrival /\ Arrival \in Nat /\ field' \in Nat
  BY FrameAssumption DEF TypeOK, WalkPainting, FrameBegins, Applied
<1>2. Stepped \in 0 .. Arrival /\ (StillMoving \/ Stepped = Arrival) /\ StillMoving \in BOOLEAN
  BY <1>1 DEF Stepped, StillMoving
<1>3. elapsed' \in 0 .. Arrival /\ target' = field'
  BY <1>1, <1>2 DEF WalkPainting
<1>4. mMoving' \in BOOLEAN /\ (mMoving' \/ elapsed' = Arrival)
  BY <1>1, <1>2 DEF WalkPainting
<1>5. mDraw' = [field |-> field', at |-> elapsed', rows |-> r, view |-> mCached]
  BY DEF WalkPainting
<1>6. mDraw' \in Pictures
  BY <1>1, <1>3, <1>5 DEF TypeOK, Pictures
<1> QED
  BY <1>1, <1>3, <1>4, <1>5, <1>6 DEF WalkDraws

(* What the two walks have in common. *)
LEMMA WalkCases ==
  ASSUME TypeOK, Walk \/ WalkWithHandler
  PROVE  \E r \in Nat : /\ WalkPainting(r) /\ WalkDraws(r)
                       /\ rows' \in {rows, rows + 1} /\ r \in {rows, rows'} /\ (ListsFollow => r = rows')
                       /\ edits' \in 0 .. MaxEdits /\ resizes' = resizes
<1>1. CASE Walk
  BY <1>1, WalkPaints DEF Walk, TypeOK
<1>2. CASE WalkWithHandler
  BY <1>2, WalkPaints, FrameAssumption DEF WalkWithHandler, TypeOK
<1> QED
  BY <1>1, <1>2

(* Every step keeps the types. *)
LEMMA TypeStep == TypeOK /\ [Next]_vars => TypeOK'
<1> SUFFICES ASSUME TypeOK, [Next]_vars PROVE TypeOK'
  OBVIOUS
<1>1. CASE \E a \in Extents \cup {NoArea} : Resize(a)
  BY <1>1, FrameAssumption DEF TypeOK, Resize
<1>2. CASE Deliver
  BY <1>2 DEF TypeOK, Deliver
<1>3. CASE Refresh
  BY <1>3 DEF TypeOK, Refresh
<1>4. CASE PollReturns
  BY <1>4 DEF TypeOK, PollReturns
<1>5. CASE Sync
  BY <1>5 DEF TypeOK, Sync
<1>6. CASE SetSignal
  BY <1>6, FrameAssumption DEF TypeOK, SetSignal, Editing
<1>7. CASE WriteField
  BY <1>7, FrameAssumption DEF TypeOK, WriteField, Editing
<1>8. CASE WriteTable
  BY <1>8, FrameAssumption DEF TypeOK, WriteTable, Editing
<1>9. CASE ChangeScene
  BY <1>9, FrameAssumption DEF TypeOK, ChangeScene, Editing
<1>10. CASE RequestRedraw
  <2>1. owed' \in BOOLEAN /\ gRedrawRequested' \in BOOLEAN
    BY <1>10 DEF RequestRedraw
  <2> QED
    BY <1>10, <2>1 DEF TypeOK, RequestRedraw
<1>11. CASE Reuse
  <2>1. elapsed' \in 0 .. Arrival /\ mMoving' \in BOOLEAN
    BY <1>11, FrameAssumption DEF TypeOK, Reuse, Stepped, StillMoving
  <2>2. field' \in Nat
    BY <1>11 DEF TypeOK, Reuse, FrameBegins, Applied
  <2>3. mDirty' \in BOOLEAN /\ gRedrawRequested' \in BOOLEAN /\ pc' = "update"
    BY <1>11 DEF TypeOK, Reuse, FrameBegins
  <2> QED
    BY <1>11, <2>1, <2>2, <2>3 DEF TypeOK, Reuse, FrameBegins
<1>12. CASE Walk \/ WalkWithHandler
  <2>1. PICK r \in Nat : /\ WalkPainting(r) /\ WalkDraws(r)
                        /\ rows' \in {rows, rows + 1} /\ r \in {rows, rows'} /\ (ListsFollow => r = rows')
                        /\ edits' \in 0 .. MaxEdits /\ resizes' = resizes
    BY <1>12, WalkCases
  <2>2. /\ mLastTableRevision' \in Nat /\ mLastViewport' \in Extents \cup {NoArea}
        /\ rows' \in Nat
    BY <2>1 DEF TypeOK, WalkPainting
  <2>3. /\ mLayoutDirty' \in BOOLEAN /\ mDirty' \in BOOLEAN /\ gRedrawRequested' \in BOOLEAN
        /\ pc' = "update"
    BY <2>1 DEF TypeOK, WalkPainting, FrameBegins
  <2>4. UNCHANGED <<said, scenery, mDrawVersion, os, mCached, window, screen>>
    BY <2>1 DEF WalkPainting, FrameBegins
  <2> QED
    BY <2>1, <2>2, <2>3, <2>4 DEF TypeOK, WalkDraws
<1>13. CASE Skip
  BY <1>13 DEF TypeOK, Skip, Gate, Earned
<1>14. CASE Earn
  BY ZenonT(30), <1>14 DEF TypeOK, Earn, Gate, Earned
<1>15. CASE DrawNothing
  BY <1>15 DEF TypeOK, DrawNothing, Drawing
<1>16. CASE DrawRebuilds
  <2>1. mFramebufferResized' \in BOOLEAN /\ mSwapchain' \in Extents \cup {NoSwapchain}
    BY <1>16 DEF TypeOK, DrawRebuilds, Rebuilt, Refused, NewExtent
  <2>2. fresh' \in BOOLEAN /\ pc' = "poll" /\ UNCHANGED shown
    BY <1>16 DEF TypeOK, DrawRebuilds, Drawing
  <2> QED
    BY <1>16, <2>1, <2>2 DEF TypeOK, DrawRebuilds, Drawing
<1>17. CASE DrawPresents
  <2>1. mFramebufferResized' \in BOOLEAN /\ mSwapchain' \in Extents \cup {NoSwapchain}
    BY <1>17 DEF TypeOK, DrawPresents, Rebuilt, Refused, NewExtent
  <2>2. shown' \in Images
    BY <1>17 DEF TypeOK, DrawPresents, Images
  <2>3. fresh' \in BOOLEAN /\ pc' = "poll"
    BY <1>17 DEF DrawPresents, Drawing
  <2> QED
    BY <1>17, <2>1, <2>2, <2>3 DEF TypeOK, DrawPresents, Drawing
<1>18. CASE UNCHANGED vars
  BY <1>18 DEF TypeOK, vars
<1> QED
  BY <1>1, <1>2, <1>3, <1>4, <1>5, <1>6, <1>7, <1>8, <1>9, <1>10, <1>11, <1>12, <1>13, <1>14, <1>15, <1>16, <1>17, <1>18 DEF Next

(* No write to a bound value or to a widget is forgotten by the walk. *)
LEMMA WidgetStep == TypeOK /\ WidgetAccounted /\ [Next]_vars => WidgetAccounted'
<1> SUFFICES ASSUME TypeOK, WidgetAccounted, [Next]_vars PROVE WidgetAccounted'
  OBVIOUS
<1>1. CASE \E a \in Extents \cup {NoArea} : Resize(a)
  BY <1>1 DEF TypeOK, Pictures, WidgetAccounted, Resize
<1>2. CASE Deliver
  BY <1>2 DEF TypeOK, Pictures, WidgetAccounted, Deliver
<1>3. CASE Refresh
  BY <1>3 DEF TypeOK, Pictures, WidgetAccounted, Refresh
<1>4. CASE PollReturns
  BY <1>4 DEF TypeOK, Pictures, WidgetAccounted, PollReturns
<1>5. CASE Sync
  BY <1>5 DEF TypeOK, Pictures, WidgetAccounted, Sync
<1>6. CASE SetSignal
  BY <1>6 DEF TypeOK, Pictures, WidgetAccounted, SetSignal, Editing
<1>7. CASE WriteField
  BY <1>7 DEF TypeOK, Pictures, WidgetAccounted, WriteField, Editing
<1>8. CASE WriteTable
  BY <1>8 DEF TypeOK, Pictures, WidgetAccounted, WriteTable, Editing
<1>9. CASE ChangeScene
  BY <1>9 DEF TypeOK, Pictures, WidgetAccounted, ChangeScene, Editing
<1>10. CASE RequestRedraw
  BY <1>10 DEF TypeOK, Pictures, WidgetAccounted, RequestRedraw
<1>11. CASE Reuse
  BY <1>11 DEF TypeOK, Pictures, WidgetAccounted, Reuse, FrameBegins, CanReuse, Applied, Stepped, StillMoving
<1>12. CASE Walk \/ WalkWithHandler
  <2>1. PICK r \in Nat : /\ WalkPainting(r) /\ WalkDraws(r)
                        /\ rows' \in {rows, rows + 1} /\ r \in {rows, rows'} /\ (ListsFollow => r = rows')
                        /\ edits' \in 0 .. MaxEdits /\ resizes' = resizes
    BY <1>12, WalkCases
  <2>2. mDirty' \/ field' = said'
    BY <2>1 DEF WidgetAccounted, WalkPainting, FrameBegins, Applied
  <2>3. r > 0 /\ rows' > 0
    BY <2>1 DEF TypeOK, WidgetAccounted
  <2>4. mDraw' # Nothing
    BY <2>1, <2>3 DEF WalkDraws, Nothing
  <2> QED
    BY <2>1, <2>2, <2>3, <2>4 DEF WidgetAccounted, WalkDraws
<1>13. CASE Skip
  BY <1>13 DEF TypeOK, Pictures, WidgetAccounted, Skip, Gate, Earned
<1>14. CASE Earn
  BY <1>14 DEF TypeOK, Pictures, WidgetAccounted, Earn, Gate, Earned
<1>15. CASE DrawNothing
  BY <1>15 DEF TypeOK, Pictures, WidgetAccounted, DrawNothing, Drawing
<1>16. CASE DrawRebuilds
  BY <1>16 DEF TypeOK, Pictures, WidgetAccounted, DrawRebuilds, Drawing, Rebuilt, Refused, NewExtent, Misfit
<1>17. CASE DrawPresents
  BY <1>17 DEF TypeOK, Pictures, WidgetAccounted, DrawPresents, Drawing, Rebuilt, Refused, NewExtent, Misfit
<1>18. CASE UNCHANGED vars
  BY <1>18 DEF TypeOK, Pictures, WidgetAccounted, vars
<1> QED
  BY <1>1, <1>2, <1>3, <1>4, <1>5, <1>6, <1>7, <1>8, <1>9, <1>10, <1>11, <1>12, <1>13, <1>14, <1>15, <1>16, <1>17, <1>18 DEF Next

(* What the walk records is what it has drawn, where lists come after the  *)
(* handlers that write to their tables.                                    *)
LEMMA RecordedStep ==
  ASSUME ListsFollow, TypeOK, RecordedIsDrawn, [Next]_vars
  PROVE  RecordedIsDrawn'
<1>1. CASE \E a \in Extents \cup {NoArea} : Resize(a)
  BY <1>1 DEF TypeOK, Pictures, RecordedIsDrawn, Resize
<1>2. CASE Deliver
  BY <1>2 DEF TypeOK, Pictures, RecordedIsDrawn, Deliver
<1>3. CASE Refresh
  BY <1>3 DEF TypeOK, Pictures, RecordedIsDrawn, Refresh
<1>4. CASE PollReturns
  BY <1>4 DEF TypeOK, Pictures, RecordedIsDrawn, PollReturns
<1>5. CASE Sync
  BY <1>5 DEF TypeOK, Pictures, RecordedIsDrawn, Sync
<1>6. CASE SetSignal
  BY <1>6 DEF TypeOK, Pictures, RecordedIsDrawn, SetSignal, Editing
<1>7. CASE WriteField
  BY <1>7 DEF TypeOK, Pictures, RecordedIsDrawn, WriteField, Editing
<1>8. CASE WriteTable
  BY <1>8 DEF TypeOK, Pictures, RecordedIsDrawn, WriteTable, Editing
<1>9. CASE ChangeScene
  BY <1>9 DEF TypeOK, Pictures, RecordedIsDrawn, ChangeScene, Editing
<1>10. CASE RequestRedraw
  BY <1>10 DEF TypeOK, Pictures, RecordedIsDrawn, RequestRedraw
<1>11. CASE Reuse
  BY <1>11 DEF TypeOK, Pictures, RecordedIsDrawn, Reuse, FrameBegins, CanReuse, Applied, Stepped, StillMoving
<1>12. CASE Walk \/ WalkWithHandler
  <2>1. PICK r \in Nat : /\ WalkPainting(r) /\ WalkDraws(r)
                        /\ rows' \in {rows, rows + 1} /\ r \in {rows, rows'} /\ (ListsFollow => r = rows')
                        /\ edits' \in 0 .. MaxEdits /\ resizes' = resizes
    BY <1>12, WalkCases
  <2> QED
    BY <2>1 DEF WalkDraws, TypeOK, Pictures, RecordedIsDrawn, WalkPainting, FrameBegins, Applied
<1>13. CASE Skip
  BY <1>13 DEF TypeOK, Pictures, RecordedIsDrawn, Skip, Gate, Earned
<1>14. CASE Earn
  BY <1>14 DEF TypeOK, Pictures, RecordedIsDrawn, Earn, Gate, Earned
<1>15. CASE DrawNothing
  BY <1>15 DEF TypeOK, Pictures, RecordedIsDrawn, DrawNothing, Drawing
<1>16. CASE DrawRebuilds
  BY <1>16 DEF TypeOK, Pictures, RecordedIsDrawn, DrawRebuilds, Drawing, Rebuilt, Refused, NewExtent, Misfit
<1>17. CASE DrawPresents
  BY <1>17 DEF TypeOK, Pictures, RecordedIsDrawn, DrawPresents, Drawing, Rebuilt, Refused, NewExtent, Misfit
<1>18. CASE UNCHANGED vars
  BY <1>18 DEF TypeOK, Pictures, RecordedIsDrawn, vars
<1> QED
  BY <1>1, <1>2, <1>3, <1>4, <1>5, <1>6, <1>7, <1>8, <1>9, <1>10, <1>11, <1>12, <1>13, <1>14, <1>15, <1>16, <1>17, <1>18 DEF Next

(* A reused geometry is at most one step behind. *)
LEMMA MotionStep ==
  ASSUME TypeOK, WidgetAccounted, MotionAccounted, [Next]_vars
  PROVE  MotionAccounted'
<1> USE FrameAssumption
<1>1. CASE \E a \in Extents \cup {NoArea} : Resize(a)
  BY <1>1 DEF TypeOK, Pictures, WidgetAccounted, MotionAccounted, Resize
<1>2. CASE Deliver
  BY <1>2 DEF TypeOK, Pictures, WidgetAccounted, MotionAccounted, Deliver
<1>3. CASE Refresh
  BY <1>3 DEF TypeOK, Pictures, WidgetAccounted, MotionAccounted, Refresh
<1>4. CASE PollReturns
  BY <1>4 DEF TypeOK, Pictures, WidgetAccounted, MotionAccounted, PollReturns
<1>5. CASE Sync
  BY <1>5 DEF TypeOK, Pictures, WidgetAccounted, MotionAccounted, Sync
<1>6. CASE SetSignal
  BY <1>6 DEF TypeOK, Pictures, WidgetAccounted, MotionAccounted, SetSignal, Editing
<1>7. CASE WriteField
  BY <1>7 DEF TypeOK, Pictures, WidgetAccounted, MotionAccounted, WriteField, Editing
<1>8. CASE WriteTable
  BY <1>8 DEF TypeOK, Pictures, WidgetAccounted, MotionAccounted, WriteTable, Editing
<1>9. CASE ChangeScene
  BY <1>9 DEF TypeOK, Pictures, WidgetAccounted, MotionAccounted, ChangeScene, Editing
<1>10. CASE RequestRedraw
  BY <1>10 DEF TypeOK, Pictures, WidgetAccounted, MotionAccounted, RequestRedraw
<1>11. CASE Reuse
  BY <1>11 DEF TypeOK, Pictures, WidgetAccounted, MotionAccounted, Reuse, FrameBegins, CanReuse, Applied, Stepped, StillMoving
<1>12. CASE Walk \/ WalkWithHandler
  <2>1. PICK r \in Nat : /\ WalkPainting(r) /\ WalkDraws(r)
                        /\ rows' \in {rows, rows + 1} /\ r \in {rows, rows'} /\ (ListsFollow => r = rows')
                        /\ edits' \in 0 .. MaxEdits /\ resizes' = resizes
    BY <1>12, WalkCases
  <2> QED
    BY <2>1 DEF WalkDraws, TypeOK, Pictures, WidgetAccounted, MotionAccounted, WalkPainting, FrameBegins, Applied
<1>13. CASE Skip
  BY <1>13 DEF TypeOK, Pictures, WidgetAccounted, MotionAccounted, Skip, Gate, Earned
<1>14. CASE Earn
  BY <1>14 DEF TypeOK, Pictures, WidgetAccounted, MotionAccounted, Earn, Gate, Earned
<1>15. CASE DrawNothing
  BY <1>15 DEF TypeOK, Pictures, WidgetAccounted, MotionAccounted, DrawNothing, Drawing
<1>16. CASE DrawRebuilds
  BY <1>16 DEF TypeOK, Pictures, WidgetAccounted, MotionAccounted, DrawRebuilds, Drawing, Rebuilt, Refused, NewExtent, Misfit
<1>17. CASE DrawPresents
  BY <1>17 DEF TypeOK, Pictures, WidgetAccounted, MotionAccounted, DrawPresents, Drawing, Rebuilt, Refused, NewExtent, Misfit
<1>18. CASE UNCHANGED vars
  BY <1>18 DEF TypeOK, Pictures, WidgetAccounted, MotionAccounted, vars
<1> QED
  BY <1>1, <1>2, <1>3, <1>4, <1>5, <1>6, <1>7, <1>8, <1>9, <1>10, <1>11, <1>12, <1>13, <1>14, <1>15, <1>16, <1>17, <1>18 DEF Next

(* The flag a resize event leaves is cleared only with a swapchain that    *)
(* fits the area there is.                                                 *)
LEMMA ResizeStep ==
  ASSUME SurfaceTellsExtent, TypeOK, ResizeAccounted, [Next]_vars
  PROVE  ResizeAccounted'
<1>1. CASE \E a \in Extents \cup {NoArea} : Resize(a)
  BY <1>1 DEF TypeOK, ResizeAccounted, Resize
<1>2. CASE Deliver
  BY <1>2 DEF TypeOK, ResizeAccounted, Deliver
<1>3. CASE Refresh
  BY <1>3 DEF TypeOK, ResizeAccounted, Refresh
<1>4. CASE PollReturns
  BY <1>4 DEF TypeOK, ResizeAccounted, PollReturns
<1>5. CASE Sync
  BY <1>5 DEF TypeOK, ResizeAccounted, Sync
<1>6. CASE SetSignal
  BY <1>6 DEF TypeOK, ResizeAccounted, SetSignal, Editing
<1>7. CASE WriteField
  BY <1>7 DEF TypeOK, ResizeAccounted, WriteField, Editing
<1>8. CASE WriteTable
  BY <1>8 DEF TypeOK, ResizeAccounted, WriteTable, Editing
<1>9. CASE ChangeScene
  BY <1>9 DEF TypeOK, ResizeAccounted, ChangeScene, Editing
<1>10. CASE RequestRedraw
  BY <1>10 DEF TypeOK, ResizeAccounted, RequestRedraw
<1>11. CASE Reuse
  BY <1>11 DEF TypeOK, ResizeAccounted, Reuse, FrameBegins, CanReuse, Applied, Stepped, StillMoving
<1>12. CASE Walk \/ WalkWithHandler
  <2>1. PICK r \in Nat : /\ WalkPainting(r) /\ WalkDraws(r)
                        /\ rows' \in {rows, rows + 1} /\ r \in {rows, rows'} /\ (ListsFollow => r = rows')
                        /\ edits' \in 0 .. MaxEdits /\ resizes' = resizes
    BY <1>12, WalkCases
  <2> QED
    BY <2>1 DEF WalkDraws, TypeOK, ResizeAccounted, WalkPainting, FrameBegins, Applied
<1>13. CASE Skip
  BY <1>13 DEF TypeOK, ResizeAccounted, Skip, Gate, Earned
<1>14. CASE Earn
  BY <1>14 DEF TypeOK, ResizeAccounted, Earn, Gate, Earned
<1>15. CASE DrawNothing
  BY <1>15 DEF TypeOK, ResizeAccounted, DrawNothing, Drawing
<1>16. CASE DrawRebuilds
  BY <1>16 DEF TypeOK, ResizeAccounted, DrawRebuilds, Drawing, Rebuilt, Refused, NewExtent, Misfit
<1>17. CASE DrawPresents
  BY <1>17 DEF TypeOK, ResizeAccounted, DrawPresents, Drawing, Rebuilt, Refused, NewExtent, Misfit
<1>18. CASE UNCHANGED vars
  BY <1>18 DEF TypeOK, ResizeAccounted, vars
<1> QED
  BY <1>1, <1>2, <1>3, <1>4, <1>5, <1>6, <1>7, <1>8, <1>9, <1>10, <1>11, <1>12, <1>13, <1>14, <1>15, <1>16, <1>17, <1>18 DEF Next

(* A frame that was earned is presented, or what kept it back is noted. *)
LEMMA ImageStep ==
  ASSUME SurfaceTellsExtent, TypeOK, RecordedIsDrawn, ResizeAccounted, ImageAccounted,
         [Next]_vars
  PROVE  ImageAccounted'
<1>1. CASE \E a \in Extents \cup {NoArea} : Resize(a)
  BY <1>1 DEF TypeOK, Pictures, RecordedIsDrawn, ResizeAccounted, ImageAccounted, Excused, Resize
<1>2. CASE Deliver
  BY <1>2 DEF TypeOK, Pictures, RecordedIsDrawn, ResizeAccounted, ImageAccounted, Excused, Deliver
<1>3. CASE Refresh
  BY <1>3 DEF TypeOK, Pictures, RecordedIsDrawn, ResizeAccounted, ImageAccounted, Excused, Refresh
<1>4. CASE PollReturns
  BY <1>4 DEF TypeOK, Pictures, RecordedIsDrawn, ResizeAccounted, ImageAccounted, Excused, PollReturns
<1>5. CASE Sync
  BY <1>5 DEF TypeOK, Pictures, RecordedIsDrawn, ResizeAccounted, ImageAccounted, Excused, Sync
<1>6. CASE SetSignal
  BY <1>6 DEF TypeOK, Pictures, RecordedIsDrawn, ResizeAccounted, ImageAccounted, Excused, SetSignal, Editing
<1>7. CASE WriteField
  BY <1>7 DEF TypeOK, Pictures, RecordedIsDrawn, ResizeAccounted, ImageAccounted, Excused, WriteField, Editing
<1>8. CASE WriteTable
  BY <1>8 DEF TypeOK, Pictures, RecordedIsDrawn, ResizeAccounted, ImageAccounted, Excused, WriteTable, Editing
<1>9. CASE ChangeScene
  BY <1>9 DEF TypeOK, Pictures, RecordedIsDrawn, ResizeAccounted, ImageAccounted, Excused, ChangeScene, Editing
<1>10. CASE RequestRedraw
  BY <1>10 DEF TypeOK, Pictures, RecordedIsDrawn, ResizeAccounted, ImageAccounted, Excused, RequestRedraw
<1>11. CASE Reuse
  BY <1>11 DEF TypeOK, Pictures, RecordedIsDrawn, ResizeAccounted, ImageAccounted, Excused, Reuse, FrameBegins, CanReuse, Applied, Stepped, StillMoving
<1>12. CASE Walk \/ WalkWithHandler
  <2>1. PICK r \in Nat : /\ WalkPainting(r) /\ WalkDraws(r)
                        /\ rows' \in {rows, rows + 1} /\ r \in {rows, rows'} /\ (ListsFollow => r = rows')
                        /\ edits' \in 0 .. MaxEdits /\ resizes' = resizes
    BY <1>12, WalkCases
  <2> QED
    BY <2>1 DEF WalkDraws, TypeOK, Pictures, RecordedIsDrawn, ResizeAccounted, ImageAccounted, Excused, WalkPainting, FrameBegins, Applied
<1>13. CASE Skip
  BY <1>13 DEF TypeOK, Pictures, RecordedIsDrawn, ResizeAccounted, ImageAccounted, Excused, Skip, Gate, Earned
<1>14. CASE Earn
  BY <1>14 DEF TypeOK, Pictures, RecordedIsDrawn, ResizeAccounted, ImageAccounted, Excused, Earn, Gate, Earned
<1>15. CASE DrawNothing
  BY <1>15 DEF TypeOK, Pictures, RecordedIsDrawn, ResizeAccounted, ImageAccounted, Excused, DrawNothing, Drawing
<1>16. CASE DrawRebuilds
  BY <1>16 DEF TypeOK, Pictures, RecordedIsDrawn, ResizeAccounted, ImageAccounted, Excused, DrawRebuilds, Drawing, Rebuilt, Refused, NewExtent, Misfit
<1>17. CASE DrawPresents
  BY <1>17 DEF TypeOK, Pictures, RecordedIsDrawn, ResizeAccounted, ImageAccounted, Excused, DrawPresents, Drawing, Rebuilt, Refused, NewExtent, Misfit
<1>18. CASE UNCHANGED vars
  BY <1>18 DEF TypeOK, Pictures, RecordedIsDrawn, ResizeAccounted, ImageAccounted, Excused, vars
<1> QED
  BY <1>1, <1>2, <1>3, <1>4, <1>5, <1>6, <1>7, <1>8, <1>9, <1>10, <1>11, <1>12, <1>13, <1>14, <1>15, <1>16, <1>17, <1>18 DEF Next

-----------------------------------------------------------------------------
(* Every variable keeps its type, whatever the surface and the handlers do. *)
THEOREM TypeCorrect == Spec => []TypeOK
<1>1. Init => TypeOK
  BY InitIInv DEF IInv
<1> QED
  BY <1>1, TypeStep, PTL DEF Spec

(* Where the surface tells its extent and lists come after the handlers    *)
(* that write their tables, everything stale is accounted for.             *)
THEOREM Inductive ==
  ASSUME SurfaceTellsExtent, ListsFollow
  PROVE  Spec => []IInv
<1>1. IInv /\ [Next]_vars => IInv'
  BY TypeStep, WidgetStep, RecordedStep, MotionStep, ResizeStep, ImageStep DEF IInv
<1> QED
  BY <1>1, InitIInv, PTL DEF Spec

(* So when the loop has nothing left to draw, what is on the screen is     *)
(* what there is to show.                                                  *)
LEMMA IInvQuiet == IInv => QuietMeansCurrent
<1> SUFFICES ASSUME IInv, Quiet, area # NoArea, ~fresh PROVE Current(1)
  BY DEF QuietMeansCurrent
<1> USE FrameAssumption DEF IInv
<1>1. mDraw # Nothing /\ mDraw.field = said
  BY DEF WidgetAccounted, Quiet
<1>2. mDraw.rows = rows /\ mDraw.view = area
  BY DEF RecordedIsDrawn, Quiet
<1>3. mDraw.at + 1 >= Arrival
  BY <1>1 DEF MotionAccounted, Quiet, TypeOK, Pictures
<1>4. ~Excused
  BY <1>2 DEF Excused, Quiet
<1>5. shown.picture = mDraw /\ shown.scene = scene /\ shown.extent = mSwapchain
  BY <1>4 DEF ImageAccounted, Quiet
<1>6. mSwapchain = area
  BY DEF ResizeAccounted, Quiet
<1> QED
  BY <1>1, <1>2, <1>3, <1>5, <1>6 DEF Current

THEOREM NothingIsForgotten ==
  ASSUME SurfaceTellsExtent, ListsFollow
  PROVE  Spec => []QuietMeansCurrent
<1>1. Spec => []IInv
  BY Inductive
<1> QED
  BY <1>1, IInvQuiet, PTL

-----------------------------------------------------------------------------
(* The router                                                              *)

(* While a router is open its screen stands, is younger than any that is   *)
(* leaving, is the one it says, and has a place in the history.            *)
Placed ==
  gRoutesOpen =>
    /\ mScreen \in children
    /\ \A s \in mLeaving : s < mScreen
    /\ mCurrent \in Names /\ mCurrent = shows[mScreen].route
    /\ mPosition \in 1 .. Len(mHistory)

(* Only a router that is open has a history move waiting. *)
ClosedIsIdle == ~gRoutesOpen => mPending = NoPending

RInv == RouterTypeOK /\ Placed /\ ClosedIsIdle /\ PendingInHistory

Accounted ==
  /\ ~gRoutesOpen => children = {}
  /\ gRoutesOpen => children = mLeaving \cup {mScreen}

Remembered ==
  gRoutesOpen => /\ \A i \in 1 .. Len(mHistory) : mHistory[i].route \in loads
                 /\ mHistory[mPosition] = shows[mScreen]

-----------------------------------------------------------------------------
(* Entries of the history                                                  *)

(* A snapshot is an entry. *)
LEMMA SnapshotType ==
  ASSUME RouterAssumption, NEW n \in Names, NEW values \in [Params -> Values]
  PROVE  /\ Snapshot(n, values) \in Entries
         /\ Snapshot(n, values).route = n
<1> DEFINE e == Snapshot(n, values)
<1>1. ParamsOf[n] \subseteq Params
  BY DEF RouterAssumption
<1>2. [p \in ParamsOf[n] |-> values[p]] \in [ParamsOf[n] -> Values]
  BY <1>1
<1>3. e \in [route : {n}, params : [ParamsOf[n] -> Values]]
  BY <1>2 DEF Snapshot
<1> QED
  BY <1>3 DEF Entries, Snapshot

(* An entry names a declared route and has a value for each of its params. *)
LEMMA EntryFields ==
  ASSUME NEW e \in Entries
  PROVE  /\ e.route \in Names
         /\ e.params \in [ParamsOf[e.route] -> Values]
         /\ e = [route |-> e.route, params |-> e.params]
<1>1. PICK n \in Names : e \in [route : {n}, params : [ParamsOf[n] -> Values]]
  BY DEF Entries
<1> QED
  BY <1>1

(* Restoring an entry sets every param to a value of its type. *)
LEMMA RestoredType ==
  ASSUME RouterTypeOK, NEW e \in Entries
  PROVE  Restored(e) \in [Params -> Values]
<1>1. e.params \in [ParamsOf[e.route] -> Values]
  BY EntryFields
<1>2. param \in [Params -> Values]
  BY DEF RouterTypeOK
<1> QED
  BY <1>1, <1>2 DEF Restored

(* A screen built after an entry is restored is built as the entry says. *)
LEMMA SnapshotRestored ==
  ASSUME RouterAssumption, NEW e \in Entries
  PROVE  Snapshot(e.route, Restored(e)) = e
<1>1. /\ e.route \in Names
      /\ e.params \in [ParamsOf[e.route] -> Values]
      /\ e = [route |-> e.route, params |-> e.params]
  BY EntryFields
<1>2. ParamsOf[e.route] \subseteq Params
  BY <1>1 DEF RouterAssumption
<1>3. \A p \in ParamsOf[e.route] : Restored(e)[p] = e.params[p]
  BY <1>2 DEF Restored
<1>4. [p \in ParamsOf[e.route] |-> Restored(e)[p]] = e.params
  BY <1>1, <1>3
<1> QED
  BY <1>1, <1>4 DEF Snapshot

-----------------------------------------------------------------------------
(* What showing a screen, and failing to, does to the containers           *)

(* A new screen is the youngest container, and stands as it was built. *)
LEMMA ShowArrives ==
  ASSUME RouterAssumption, RInv, gRoutesOpen,
         NEW n \in Names, NEW values \in [Params -> Values], Show(n, values)
  PROVE  /\ n \in loads
         /\ route' = n /\ mCurrent' = n
         /\ mScreenSerial' = mScreenSerial + 1 /\ mScreenSerial' \in Nat
         /\ mScreen' = mScreenSerial' /\ mScreen' \in children'
         /\ children' \subseteq 1 .. mScreenSerial'
         /\ mLeaving' \subseteq 1 .. mScreenSerial /\ faded' \subseteq mLeaving'
         /\ shows' \in [children' -> Entries]
         /\ shows'[mScreen'] = Snapshot(n, values)
         /\ Accounted => children' = mLeaving' \cup {mScreen'}
<1> USE DEF Fresh
<1>1. /\ mScreenSerial \in Nat /\ children \subseteq 1 .. mScreenSerial
      /\ mScreen \in children /\ mLeaving \subseteq 1 .. mScreenSerial
      /\ shows \in [children -> Entries]
      /\ mScreen \notin mLeaving
  BY DEF RInv, RouterTypeOK, Placed
<1>2. /\ mLeaving' \subseteq 1 .. mScreenSerial
      /\ children' \subseteq children \cup {Fresh}
      /\ Fresh \in children'
  BY <1>1 DEF Show, Arrive, Standing, Leaving
<1>3. Accounted => children' = mLeaving' \cup {Fresh}
  BY <1>1 DEF Show, Arrive, Standing, Leaving, Accounted
<1>4. Snapshot(n, values) \in Entries
  BY SnapshotType
<1>5. shows' = [s \in children' |-> IF s = Fresh THEN Snapshot(n, values) ELSE shows[s]]
  BY DEF Show
<1>6. \A s \in children' : s # Fresh => shows[s] \in Entries
  BY <1>1, <1>2
<1>7. shows' \in [children' -> Entries] /\ shows'[Fresh] = Snapshot(n, values)
  BY <1>2, <1>4, <1>5, <1>6
<1> QED
  BY <1>1, <1>2, <1>3, <1>7 DEF Show

(* A sweep takes no screen but those that have faded, never the one showing. *)
LEMMA SweepKeeps ==
  ASSUME RInv, gRoutesOpen, Sweep
  PROVE  /\ children' \subseteq 1 .. mScreenSerial'
         /\ mLeaving' \subseteq mLeaving /\ faded' \subseteq mLeaving'
         /\ mScreen' = mScreen /\ mScreenSerial' = mScreenSerial /\ mCurrent' = mCurrent
         /\ mScreen' \in children'
         /\ shows' \in [children' -> Entries]
         /\ shows'[mScreen'] = shows[mScreen]
         /\ Accounted => children' = mLeaving' \cup {mScreen'}
<1>1. /\ mScreenSerial \in Nat /\ children \subseteq 1 .. mScreenSerial
      /\ mScreen \in children /\ shows \in [children -> Entries]
      /\ mScreen \notin mLeaving
  BY DEF RInv, RouterTypeOK, Placed
<1>2. Standing \subseteq children /\ mScreen \in Standing
  BY <1>1 DEF Standing
<1>3. shows' = [s \in Standing |-> shows[s]] /\ children' = Standing
  BY DEF Sweep
<1>4. shows' \in [Standing -> Entries] /\ shows'[mScreen] = shows[mScreen]
  BY <1>1, <1>2, <1>3
<1>5. Accounted => Standing = Leaving \cup {mScreen}
  BY <1>1 DEF Accounted, Standing, Leaving
<1> QED
  BY <1>1, <1>2, <1>3, <1>4, <1>5 DEF Sweep, Leaving

-----------------------------------------------------------------------------
(* The invariants hold at the start, and every step keeps them             *)

LEMMA RInvInit == RouterAssumption /\ RouterInit => RInv /\ Accounted /\ Remembered
<1> SUFFICES ASSUME RouterAssumption, RouterInit PROVE RInv /\ Accounted /\ Remembered
  OBVIOUS
<1>1. mHistory \in Seq(Entries) /\ shows \in [children -> Entries]
  BY DEF RouterInit
<1>2. /\ mScreenSerial \in Nat /\ children \subseteq 1 .. mScreenSerial
      /\ mScreen \in 0 .. mScreenSerial /\ mLeaving \subseteq 1 .. mScreenSerial
      /\ mPosition \in Nat /\ mPending \in Nat
      /\ asks \in 0 .. MaxAsks /\ breaks \in 0 .. MaxBreaks /\ opens \in 0 .. MaxOpens
  BY DEF RouterInit, RouterAssumption, None, NoPending
<1>3. RouterTypeOK
  BY <1>1, <1>2 DEF RouterInit, RouterTypeOK
<1> QED
  BY <1>3 DEF RouterInit, RInv, Placed, ClosedIsIdle, PendingInHistory, Accounted, Remembered

LEMMA OpenKeeps ==
  ASSUME RouterAssumption, RInv, Open
  PROVE  /\ RInv' /\ Remembered'
         /\ OpenOnce => Accounted'
<1> USE DEF Fresh, None, NoPending, Unset
<1>1. /\ mScreenSerial \in Nat /\ children \subseteq 1 .. mScreenSerial
      /\ shows \in [children -> Entries] /\ param \in [Params -> Values]
  BY DEF RInv, RouterTypeOK
<1>2. mLeaving' = {} /\ faded' = {} /\ mPending' = NoPending
  BY DEF Open
<1>3. CASE OpenShows
  <2>1. Opening \in Names
    BY DEF Opening, RouterAssumption
  <2>2. Snapshot(Opening, param) \in Entries /\ Snapshot(Opening, param).route = Opening
    BY <1>1, <2>1, SnapshotType
  <2>3. /\ shows' \in [children' -> Entries] /\ Fresh \in children'
        /\ shows'[Fresh] = Snapshot(Opening, param)
        /\ children' \subseteq 1 .. Fresh
    BY <1>1, <1>3, <2>2 DEF OpenShows
  <2>4. mHistory' \in Seq(Entries) /\ Len(mHistory') = 1 /\ mHistory'[1] = Snapshot(Opening, param)
    BY <1>3, <2>2 DEF OpenShows
  <2>5. RouterTypeOK'
    BY <1>1, <1>2, <1>3, <2>1, <2>3, <2>4 DEF RInv, RouterTypeOK, Open, OpenShows
  <2>6. Placed' /\ ClosedIsIdle' /\ PendingInHistory'
    BY <1>1, <1>2, <1>3, <2>1, <2>2, <2>3, <2>4
    DEF OpenShows, Placed, ClosedIsIdle, PendingInHistory
  <2>7. Remembered'
    BY <1>3, <2>2, <2>3, <2>4 DEF Open, OpenShows, Remembered
  <2>8. OpenOnce => Accounted'
    BY <1>2, <1>3 DEF Open, OpenShows, Accounted
  <2> QED
    BY <2>5, <2>6, <2>7, <2>8 DEF RInv
<1>4. CASE OpenFails
  <2>1. RouterTypeOK'
    <3>1. /\ mHistory' \in Seq(Entries) /\ mPosition' \in Nat /\ mPending' \in Nat
          /\ mScreenSerial' \in Nat /\ mScreen' \in 0 .. mScreenSerial'
          /\ mLeaving' \subseteq 1 .. mScreenSerial' /\ faded' \subseteq mLeaving'
      BY <1>1, <1>2, <1>4 DEF OpenFails
    <3>2. /\ children' \subseteq 1 .. mScreenSerial' /\ shows' \in [children' -> Entries]
          /\ route' = route /\ param' = param /\ loads' = loads /\ mCurrent' = Unset
          /\ mTransition' = mTransition /\ gRoutesOpen' \in BOOLEAN
      BY <1>1, <1>4 DEF Open, OpenFails
    <3>3. asks' \in 0 .. MaxAsks /\ breaks' \in 0 .. MaxBreaks /\ opens' \in 0 .. MaxOpens
      BY DEF RInv, RouterTypeOK, Open, RouterAssumption
    <3> QED
      BY <3>1, <3>2, <3>3 DEF RInv, RouterTypeOK
  <2>2. Placed' /\ ClosedIsIdle' /\ PendingInHistory' /\ Remembered'
    BY <1>2, <1>4 DEF OpenFails, Placed, ClosedIsIdle, PendingInHistory, Remembered
  <2>3. OpenOnce => Accounted'
    BY <1>4 DEF Open, OpenFails, Accounted
  <2> QED
    BY <2>1, <2>2, <2>3 DEF RInv
<1> QED
  BY <1>3, <1>4 DEF Open

LEMMA RestoreKeeps ==
  ASSUME RouterAssumption, RInv, Update, Restore
  PROVE  /\ RInv'
         /\ Accounted => Accounted'
         /\ Remembered => Remembered'
<1> DEFINE entry == mHistory[mPending]
<1> USE DEF NoPending
<1>1. gRoutesOpen /\ gRoutesOpen' /\ UNCHANGED <<loads, mTransition, routerBounds, mHistory>>
  BY DEF Update, Restore
<1>2. mPending \in 1 .. Len(mHistory) /\ mPosition' = mPending /\ mPending' = NoPending
  BY DEF RInv, Restore, PendingInHistory
<1>3. mHistory \in Seq(Entries) /\ entry \in Entries /\ mPending \in Nat
  BY <1>2 DEF RInv, RouterTypeOK
<1>4. entry.route \in Names /\ param' = Restored(entry) /\ param' \in [Params -> Values]
  BY <1>3, EntryFields, RestoredType DEF RInv, Restore
<1>5. CASE Show(entry.route, param')
  <2>1. /\ entry.route \in loads
        /\ route' = entry.route /\ mCurrent' = entry.route
        /\ mScreenSerial' = mScreenSerial + 1 /\ mScreenSerial' \in Nat
        /\ mScreen' = mScreenSerial' /\ mScreen' \in children'
        /\ children' \subseteq 1 .. mScreenSerial'
        /\ mLeaving' \subseteq 1 .. mScreenSerial /\ faded' \subseteq mLeaving'
        /\ shows' \in [children' -> Entries]
        /\ shows'[mScreen'] = Snapshot(entry.route, param')
        /\ Accounted => children' = mLeaving' \cup {mScreen'}
    BY <1>1, <1>4, <1>5, ShowArrives
  <2>2. Snapshot(entry.route, param') = entry
    BY <1>3, <1>4, SnapshotRestored
  <2>3. mScreenSerial \in Nat /\ mLeaving' \subseteq 1 .. mScreenSerial'
    BY <2>1 DEF RInv, RouterTypeOK
  <2>4. RouterTypeOK'
    BY <1>1, <1>2, <1>3, <1>4, <2>1, <2>3 DEF RInv, RouterTypeOK, routerBounds
  <2>5. Placed'
    BY <1>1, <1>2, <1>4, <2>1, <2>2, <2>3 DEF Placed
  <2>6. ClosedIsIdle' /\ PendingInHistory'
    BY <1>2 DEF ClosedIsIdle, PendingInHistory
  <2>7. Remembered => Remembered'
    BY <1>1, <1>2, <2>1, <2>2 DEF Remembered
  <2> QED
    BY <1>1, <2>1, <2>4, <2>5, <2>6, <2>7 DEF RInv, Accounted
<1>6. CASE ShowFails(entry.route) /\ UNCHANGED route
  <2>1. Sweep /\ entry.route \notin loads
    BY <1>6 DEF ShowFails
  <2>2. /\ children' \subseteq 1 .. mScreenSerial'
        /\ mLeaving' \subseteq mLeaving /\ faded' \subseteq mLeaving'
        /\ mScreen' = mScreen /\ mScreenSerial' = mScreenSerial /\ mCurrent' = mCurrent
        /\ mScreen' \in children'
        /\ shows' \in [children' -> Entries]
        /\ shows'[mScreen'] = shows[mScreen]
        /\ Accounted => children' = mLeaving' \cup {mScreen'}
    BY <1>1, <2>1, SweepKeeps
  <2>3. RouterTypeOK'
    BY <1>1, <1>2, <1>3, <1>4, <1>6, <2>2 DEF RInv, RouterTypeOK, routerBounds
  <2>4. Placed'
    BY <1>1, <1>2, <2>2 DEF RInv, Placed
  <2>5. ClosedIsIdle' /\ PendingInHistory'
    BY <1>2 DEF ClosedIsIdle, PendingInHistory
  <2>6. ~Remembered
    BY <1>1, <1>2, <2>1 DEF Remembered
  <2> QED
    BY <1>1, <2>2, <2>3, <2>4, <2>5, <2>6 DEF RInv, Accounted
<1> QED
  BY <1>5, <1>6 DEF Restore

LEMMA NavigateKeeps ==
  ASSUME RouterAssumption, RInv, Update, Navigate
  PROVE  /\ RInv'
         /\ Accounted => Accounted'
         /\ Remembered => Remembered'
<1> USE DEF NoPending
<1>1. gRoutesOpen /\ gRoutesOpen' /\ UNCHANGED <<loads, mTransition, routerBounds>>
  BY DEF Update
<1>2. /\ mPending = NoPending /\ mPending' = NoPending /\ param' = param
      /\ route \in Names /\ param \in [Params -> Values]
      /\ mHistory \in Seq(Entries) /\ mPosition \in 1 .. Len(mHistory)
  BY <1>1 DEF RInv, RouterTypeOK, Placed, Navigate
<1>3. ClosedIsIdle' /\ PendingInHistory'
  BY <1>2 DEF ClosedIsIdle, PendingInHistory
<1>4. CASE /\ Show(route, param)
           /\ mHistory' = Append(SubSeq(mHistory, 1, mPosition), Snapshot(route, param))
           /\ mPosition' = mPosition + 1
  <2> DEFINE e == Snapshot(route, param)
             kept == SubSeq(mHistory, 1, mPosition)
  <2>1. /\ route \in loads
        /\ route' = route /\ mCurrent' = route
        /\ mScreenSerial' = mScreenSerial + 1 /\ mScreenSerial' \in Nat
        /\ mScreen' = mScreenSerial' /\ mScreen' \in children'
        /\ children' \subseteq 1 .. mScreenSerial'
        /\ mLeaving' \subseteq 1 .. mScreenSerial /\ faded' \subseteq mLeaving'
        /\ shows' \in [children' -> Entries]
        /\ shows'[mScreen'] = e
        /\ Accounted => children' = mLeaving' \cup {mScreen'}
    BY <1>1, <1>2, <1>4, ShowArrives
  <2>2. e \in Entries /\ e.route = route
    BY <1>2, SnapshotType
  <2>3. /\ kept \in Seq(Entries) /\ Len(kept) = mPosition
        /\ \A i \in 1 .. mPosition : kept[i] = mHistory[i]
    BY <1>2
  <2> HIDE DEF e, kept
  <2>4. /\ mHistory' \in Seq(Entries) /\ Len(mHistory') = mPosition + 1
        /\ mHistory'[mPosition + 1] = e
        /\ \A i \in 1 .. mPosition : mHistory'[i] = mHistory[i]
    BY <1>2, <1>4, <2>2, <2>3 DEF e, kept
  <2>5. mScreenSerial \in Nat /\ mLeaving' \subseteq 1 .. mScreenSerial'
    BY <2>1 DEF RInv, RouterTypeOK
  <2>6. RouterTypeOK'
    BY <1>1, <1>2, <1>4, <2>1, <2>4, <2>5 DEF RInv, RouterTypeOK, routerBounds
  <2>7. Placed'
    BY <1>1, <1>2, <1>4, <2>1, <2>2, <2>4, <2>5 DEF Placed
  <2>8. Remembered => Remembered'
    <3>1. \A i \in 1 .. Len(mHistory') : i \in 1 .. mPosition \/ i = mPosition + 1
      BY <1>2, <2>4
    <3> QED
      BY <1>1, <1>2, <1>4, <2>1, <2>2, <2>4, <3>1 DEF Remembered
  <2> QED
    BY <1>1, <1>3, <2>1, <2>6, <2>7, <2>8 DEF RInv, Accounted
<1>5. CASE ShowFails(route) /\ UNCHANGED <<route, mHistory, mPosition>>
  <2>1. /\ children' \subseteq 1 .. mScreenSerial'
        /\ mLeaving' \subseteq mLeaving /\ faded' \subseteq mLeaving'
        /\ mScreen' = mScreen /\ mScreenSerial' = mScreenSerial /\ mCurrent' = mCurrent
        /\ mScreen' \in children'
        /\ shows' \in [children' -> Entries]
        /\ shows'[mScreen'] = shows[mScreen]
        /\ Accounted => children' = mLeaving' \cup {mScreen'}
    BY <1>1, <1>5, SweepKeeps DEF ShowFails
  <2>2. RouterTypeOK' /\ Placed'
    BY <1>1, <1>2, <1>5, <2>1 DEF RInv, RouterTypeOK, Placed, routerBounds
  <2>3. Remembered => Remembered'
    BY <1>1, <1>5, <2>1 DEF Remembered
  <2> QED
    BY <1>1, <1>3, <2>1, <2>2, <2>3 DEF RInv, Accounted
<1> QED
  BY <1>4, <1>5 DEF Navigate

(* An update that shows nothing new: the signal put back, or left alone. *)
LEMMA IdleUpdateKeeps ==
  ASSUME RouterAssumption, RInv, Update, Refuse \/ Stay
  PROVE  /\ RInv'
         /\ Accounted => Accounted'
         /\ Remembered => Remembered'
<1>1. gRoutesOpen /\ gRoutesOpen' /\ UNCHANGED <<loads, mTransition, routerBounds, history, param>>
  BY DEF Update, Refuse, Stay, signals
<1>2. Sweep /\ route' \in {route, mCurrent}
  BY DEF Refuse, Stay, signals
<1>3. /\ children' \subseteq 1 .. mScreenSerial'
      /\ mLeaving' \subseteq mLeaving /\ faded' \subseteq mLeaving'
      /\ mScreen' = mScreen /\ mScreenSerial' = mScreenSerial /\ mCurrent' = mCurrent
      /\ mScreen' \in children'
      /\ shows' \in [children' -> Entries]
      /\ shows'[mScreen'] = shows[mScreen]
      /\ Accounted => children' = mLeaving' \cup {mScreen'}
  BY <1>1, <1>2, SweepKeeps
<1>4. RouterTypeOK'
  BY <1>1, <1>2, <1>3 DEF RInv, RouterTypeOK, routerBounds, history, Unset
<1>5. Placed' /\ ClosedIsIdle' /\ PendingInHistory'
  BY <1>1, <1>3 DEF RInv, Placed, ClosedIsIdle, PendingInHistory, history
<1>6. Remembered => Remembered'
  BY <1>1, <1>3 DEF Remembered, history
<1> QED
  BY <1>1, <1>3, <1>4, <1>5, <1>6 DEF RInv, Accounted

(* What happens between updates asks for things, or ends a fade. *)
LEMMA BetweenKeeps ==
  ASSUME RouterAssumption, RInv,
         \/ \E s \in mLeaving : Fade(s)
         \/ \E n \in Names \cup {Unknown} : WriteRoute(n)
         \/ \E p \in Params, v \in Values : WriteParam(p, v)
         \/ AskBack \/ AskForward \/ SetTransition
         \/ \E n \in Names : Rewrite(n)
         \/ UNCHANGED routerVars
  PROVE  /\ RInv'
         /\ Accounted => Accounted'
         /\ HistoryLoads => (Remembered => Remembered')
<1> DEFINE Kept == UNCHANGED <<children, shows, mScreen, mLeaving, mScreenSerial, mCurrent,
                              mHistory, mPosition, gRoutesOpen>>
<1>1. Kept
  BY DEF Fade, WriteRoute, WriteParam, AskBack, AskForward, SetTransition, Rewrite, routerVars,
         screens, history
<1>2. route' \in Names \cup {Unknown} /\ param' \in [Params -> Values] /\ loads' \subseteq Names
  BY DEF RInv, RouterTypeOK, Fade, WriteRoute, WriteParam, AskBack, AskForward, SetTransition,
         Rewrite, routerVars, signals
<1>3. faded' \subseteq mLeaving' /\ mTransition' \in BOOLEAN
  BY DEF RInv, RouterTypeOK, Fade, WriteRoute, WriteParam, AskBack, AskForward, SetTransition,
         Rewrite, routerVars, screens
<1>4. asks' \in 0 .. MaxAsks /\ breaks' \in 0 .. MaxBreaks /\ opens' \in 0 .. MaxOpens
  BY SMTT(30) DEF RInv, RouterTypeOK, RouterAssumption, Asking, Fade, WriteRoute, WriteParam, AskBack,
         AskForward, SetTransition, Rewrite, routerVars, routerBounds
<1>5. \/ mPending' = mPending
      \/ gRoutesOpen /\ mPosition > 1 /\ mPending' = mPosition - 1
      \/ gRoutesOpen /\ mPosition < Len(mHistory) /\ mPending' = mPosition + 1
  BY DEF Fade, WriteRoute, WriteParam, AskBack, AskForward, SetTransition, Rewrite, routerVars,
         history
<1>6. mPending' \in Nat /\ ClosedIsIdle' /\ PendingInHistory'
  <2>1. /\ mHistory \in Seq(Entries) /\ Len(mHistory) \in Nat
        /\ mPosition \in Nat /\ mPending \in Nat
    BY DEF RInv, RouterTypeOK
  <2>2. gRoutesOpen => mPosition \in 1 .. Len(mHistory)
    BY DEF RInv, Placed
  <2> QED
    BY <1>1, <1>5, <2>1, <2>2 DEF RInv, ClosedIsIdle, PendingInHistory, NoPending
<1>7. RouterTypeOK'
  BY <1>1, <1>2, <1>3, <1>4, <1>6 DEF RInv, RouterTypeOK
<1>8. Placed'
  BY <1>1 DEF RInv, Placed
<1>9. Accounted => Accounted'
  BY <1>1 DEF Accounted
<1>10. HistoryLoads => \A i \in 1 .. Len(mHistory) :
         mHistory[i].route \in loads => mHistory[i].route \in loads'
  BY DEF Fade, WriteRoute, WriteParam, AskBack, AskForward, SetTransition, Rewrite, routerVars
<1>11. HistoryLoads => (Remembered => Remembered')
  BY <1>1, <1>10 DEF Remembered
<1> QED
  BY <1>6, <1>7, <1>8, <1>9, <1>11 DEF RInv

LEMMA RInvStep ==
  ASSUME RouterAssumption, RInv, [RouterNext]_routerVars
  PROVE  /\ RInv'
         /\ OpenOnce => (Accounted => Accounted')
         /\ HistoryLoads => (Remembered => Remembered')
<1>1. CASE Open
  BY <1>1, OpenKeeps
<1>2. CASE Update
  BY <1>2, RestoreKeeps, NavigateKeeps, IdleUpdateKeeps DEF Update
<1>3. CASE \/ \E s \in mLeaving : Fade(s)
           \/ \E n \in Names \cup {Unknown} : WriteRoute(n)
           \/ \E p \in Params, v \in Values : WriteParam(p, v)
           \/ AskBack \/ AskForward \/ SetTransition
           \/ \E n \in Names : Rewrite(n)
           \/ UNCHANGED routerVars
  BY <1>3, BetweenKeeps
<1> QED
  BY <1>1, <1>2, <1>3 DEF RouterNext

LEMMA RInvHolds == RouterAssumption /\ RouterSpec => []RInv
<1>1. RouterAssumption /\ RouterInit => RInv
  BY RInvInit
<1>2. RouterAssumption /\ RInv /\ [RouterNext]_routerVars => RInv'
  BY RInvStep
<1> QED
  BY <1>1, <1>2, RouterAssumption, PTL DEF RouterSpec

-----------------------------------------------------------------------------
(* The theorems                                                            *)

(* The router's state always has its type: the history's indices and the   *)
(* containers' numbers stay in range through any run of Router.cpp's calls. *)
THEOREM RouterTypeCorrect == RouterSpec => []RouterTypeOK
<1>1. RInv => RouterTypeOK
  BY DEF RInv
<1> QED
  BY <1>1, RInvHolds, RouterAssumption, PTL

(* A back or forward waiting for the next update always points at a        *)
(* neighbour of the place in the history (Router::back, forward, update).  *)
THEOREM MovesLandInHistory == RouterSpec => []PendingInHistory
<1>1. RInv => PendingInHistory
  BY DEF RInv
<1> QED
  BY <1>1, RInvHolds, RouterAssumption, PTL

(* The containers under the parent are the screen that shows and the ones  *)
(* leaving, where routes are not opened over a screen (Router::show,       *)
(* retireFinished, retireAll).                                             *)
THEOREM NoScreenIsLost == OpenOnce => (RouterSpec => []ScreensAccountedFor)
<1> SUFFICES ASSUME OpenOnce PROVE RouterSpec => []ScreensAccountedFor
  OBVIOUS
<1>1. RouterInit => RInv /\ Accounted
  BY RInvInit, RouterAssumption
<1>2. RInv /\ Accounted /\ [RouterNext]_routerVars => Accounted'
  BY RInvStep, RouterAssumption
<1>3. RInv /\ Accounted => ScreensAccountedFor
  BY DEF RInv, RouterTypeOK, Placed, Accounted, ScreensAccountedFor, None
<1> QED
  BY <1>1, <1>2, <1>3, RInvHolds, RouterAssumption, PTL DEF RouterSpec

(* The place in the history is the screen that shows and the params it was *)
(* built with, as long as what is in the history still loads (Router::     *)
(* update, restore, snapshot).                                             *)
THEOREM HistoryFollowsTheUser == HistoryLoads => (RouterSpec => []HistoryIsTheUsers)
<1> SUFFICES ASSUME HistoryLoads PROVE RouterSpec => []HistoryIsTheUsers
  OBVIOUS
<1>1. RouterInit => RInv /\ Remembered
  BY RInvInit, RouterAssumption
<1>2. RInv /\ Remembered /\ [RouterNext]_routerVars => Remembered'
  BY RInvStep, RouterAssumption
<1>3. RInv /\ Remembered => HistoryIsTheUsers
  BY DEF RInv, Placed, Remembered, EntryIsTheScreen, HistoryIsTheUsers
<1> QED
  BY <1>1, <1>2, <1>3, RInvHolds, RouterAssumption, PTL DEF RouterSpec
=============================================================================
