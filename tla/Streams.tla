------------------------------ MODULE Streams ------------------------------
(***************************************************************************)
(* Pictures that a program makes while the interface runs, from the call   *)
(* that makes them to the frame that shows them: the registries of streams *)
(* and images (Streams.cpp, Images.cpp), an effect that reads one stream   *)
(* into another (Effects.cpp), a <stream> and an <image> (Widget.cpp), the *)
(* retained geometry (Gui.cpp), and the renderer with its frames in flight *)
(* (Renderer.cpp, GuiRenderer.cpp, RendeerAlpha.cpp).                      *)
(*                                                                         *)
(* One window.  The loop goes round service, walk, update, draw; the GPU   *)
(* finishes a frame at any time.  A call that arrives from another thread  *)
(* runs at "service"; one the loop thread makes itself runs at "update",   *)
(* or inside the walk when a widget's handler makes it.  All that a call   *)
(* can reach is the record w.                                              *)
(***************************************************************************)
EXTENDS Surfaces, TLC

CONSTANTS
  feed, out,           \* the stream a producer pushes; the one an effect writes
  Sizes,               \* sizes of frames
  KSeenWithin,         \* kSeenWithin
  Patience,            \* frames a producer that is wanted lets pass at most
  FramesInFlight,      \* MAX_FRAMES_IN_FLIGHT
  MaxCalls             \* bound: calls other than the producer's

ASSUME StreamsAssumption ==
  /\ feed # out /\ Sizes # {}
  /\ KSeenWithin \in Nat /\ Patience \in Nat /\ FramesInFlight \in Nat \ {0}
  /\ MaxCalls \in Nat

VARIABLES
  w,                   \* what calls read and write, see World
  mDrawVersion,        \* the hash of the geometry end() saw last
  mCacheValid,
  requested,           \* gRedrawRequested
  currentFrame,
  layer,               \* the cached layer; and whether the <image> is content-sized
  slack,               \* frames since the producer last pushed
  pc, calls, beat

vars == <<w, mDrawVersion, mCacheValid, requested, currentFrame, layer,
          slack, pc, calls, beat>>

Names   == {feed, out}
Never   == KSeenWithin + 2
NoSlot  == [made |-> FALSE, at |-> Null, size |-> 0, writable |-> FALSE,
            seen |-> Never, known |-> 0]
Drawings == {"logo", "icon"}          \* files the <image> rasterises itself
Sources  == {"photo", "memory"} \cup Drawings

(* An <image>: what it loaded, the texture it owns or borrows, the frame   *)
(* of its drawing and what that was drawn from.                            *)
NoImage == [loaded |-> "", texture |-> Null, shared |-> Null, moved |-> TRUE,
            drawing |-> "", frame |-> Null, size |-> 0]

(* mDraw: the textures the geometry names, the <stream>'s and the <image>'s;*)
(* torn: those of them a registry freed since they were painted; hurried: the   *)
(* images it freed without waiting for the GPU; replaced: how many; stale: *)
(* the streams whose last frame was not presented yet; late: a handler     *)
(* changed the texture of a <stream> that had been painted.                *)
World ==
  [gpu |-> NewSurfaces, slots |-> [n \in Names |-> NoSlot], image |-> Null,
   showing |-> feed, source |-> "photo", box |-> 1, img |-> NoImage,
   streamsMoved |-> FALSE, imagesMoved |-> FALSE, layoutDirty |-> TRUE,
   bound |-> <<0, 0>>, misread |-> FALSE, mispainted |-> FALSE,
   mDraw |-> <<Null, Null>>, torn |-> {}, hurried |-> {}, replaced |-> 0, stale |-> {}, late |-> FALSE]

-----------------------------------------------------------------------------
(* The registries                                                          *)

Drawn(v) == {v.mDraw[1], v.mDraw[2]} \ {Null}

(* What goes when a registry lets go of the texture at a. *)
Freed(v, a, waited) ==
  IF a = Null THEN v
  ELSE [v EXCEPT
          !.gpu = DestroyAt(@, a),
          !.torn = IF a \in Drawn(v) THEN @ \cup {a} ELSE @,
          !.hurried = IF waited THEN @ ELSE (@ \cup {Revision(v.gpu, a)}) \cap InFlight(v.gpu),
          !.replaced = @ + 1]

(* Streams::slot. *)
Slot(v, n) ==
  IF v.slots[n].made THEN v
  ELSE [v EXCEPT !.slots[n] = [NoSlot EXCEPT !.made = TRUE]]

(* A frame the screen does not have yet. *)
Fresh(v, n) == [v EXCEPT !.streamsMoved = TRUE, !.stale = @ \cup {n}]

Holding(v, n, a, size, writable) ==
  [v EXCEPT !.slots[n] = [@ EXCEPT !.at = a, !.size = size, !.writable = writable]]

Fits(v, n, size) == v.slots[n].at # Null /\ v.slots[n].size = size

(* Streams::push and upload: into the texture that is there, or into one   *)
(* of another size, which is filled before the one there goes.             *)
Push(v0, n, size) ==
  LET v   == Slot(v0, n)
      new == [v EXCEPT !.gpu = FromPixels(@, n)]
  IN IF Fits(v, n, size) THEN Fresh([v EXCEPT !.gpu = WaitIdle(@)], n)
     ELSE Fresh(Holding(Freed(new, v.slots[n].at, TRUE), n, NextAddress(v.gpu), size, FALSE), n)

(* Streams::target: nothing is uploaded, so nothing waits. *)
Target(v0, n, size) ==
  LET v   == Slot(v0, n)
      new == [v EXCEPT !.gpu = Create(@, n), !.streamsMoved = TRUE]
  IN IF Fits(v, n, size) /\ v.slots[n].writable THEN v
     ELSE Holding(Freed(new, v.slots[n].at, FALSE), n, NextAddress(v.gpu), size, TRUE)

(* Effects::apply: the set is rewritten if either image is another one;    *)
(* then the dispatch, waited for, and Streams::noteWritten.                *)
Apply(v0, from, into) ==
  LET v == Target(v0, into, v0.slots[from].size)
      b == <<Revision(v.gpu, v.slots[from].at), Revision(v.gpu, v.slots[into].at)>>
      bound == IF v.bound # b THEN b ELSE v.bound
  IN IF v0.slots[from].at = Null \/ from = into THEN v0
     ELSE Fresh([v EXCEPT !.bound = bound, !.misread = @ \/ bound # b,
                          !.gpu = WaitIdle(@)], into)

(* Streams::close. *)
Close(v, n) ==
  IF ~v.slots[n].made THEN v
  ELSE [Freed(v, v.slots[n].at, FALSE) EXCEPT !.slots[n] = NoSlot,
          !.streamsMoved = TRUE, !.stale = @ \ {n}]

(* Streams::read. *)
Read(v, n) ==
  IF v.slots[n].at = Null THEN v ELSE [v EXCEPT !.gpu = WaitIdle(@)]

Moved(v) == [v EXCEPT !.imagesMoved = TRUE, !.img.moved = TRUE]

(* Images::define. *)
Define(v) ==
  LET new == [v EXCEPT !.gpu = FromPixels(@, "memory"), !.image = NextAddress(v.gpu)]
  IN Moved(Freed(new, v.image, TRUE))

(* Images::forget. *)
Forget(v) == IF v.image = Null THEN v ELSE Moved(Freed([v EXCEPT !.image = Null], v.image, FALSE))

(* The application or the user changes what is on the screen: a route, the *)
(* picture an <image> shows, the size of its box.                          *)
Shows(v, n)     == [v EXCEPT !.showing = n, !.layoutDirty = TRUE]
SetSource(v, s) == [v EXCEPT !.source = s, !.layoutDirty = TRUE]
SetBox(v, b)    == [v EXCEPT !.box = b, !.layoutDirty = TRUE]

(* Mutant: a stream that was never drawn is wanted for ever. *)
WantedUntilSeen(v, n) ==
  LET s == v.slots[n] IN ~s.made \/ s.seen = Never \/ s.seen <= KSeenWithin

(* Streams::wanted. *)
Wanted(v, n) ==
  LET s == v.slots[n] IN
  IF ~s.made THEN TRUE
  ELSE IF s.seen # Never THEN s.seen <= KSeenWithin
  ELSE s.known <= KSeenWithin

(* Streams::tick: ages saturate just past the window. *)
Older(age) == IF age <= KSeenWithin THEN age + 1 ELSE age
Aged(s) == IF s.made THEN [s EXCEPT !.seen = Older(@), !.known = Older(@)] ELSE s
Tick(v) == [v EXCEPT !.slots = [n \in Names |-> Aged(@[n])]]

-----------------------------------------------------------------------------
(* The widgets                                                             *)

(* gui.image: a command for the texture at a, if there is one. *)
Painting(v, i, a) == [v EXCEPT !.mDraw[i] = a]

(* Stream::paint, with Streams::markSeen. *)
PaintStream(v0) ==
  LET n == v0.showing
      v == Slot(v0, n)
  IN IF n \notin Names THEN v0
     ELSE Painting([v EXCEPT !.slots[n].seen = 0], 1, v.slots[n].at)

(* Image::retireFrames and release. *)
RetireFrames(v) == [v EXCEPT !.gpu = RetireTexture(@, v.img.frame), !.img.frame = Null]
Release(v) ==
  RetireFrames([v EXCEPT !.gpu = RetireTexture(@, v.img.texture),
                         !.img.texture = Null, !.img.shared = Null])

(* Image::ensureLoaded. *)
EnsureLoaded(v) ==
  LET r == [Release(v) EXCEPT !.img.loaded = v.source]
  IN IF v.source = "memory"
     THEN IF v.img.loaded = "memory" /\ ~v.img.moved THEN v
          ELSE [r EXCEPT !.img.moved = FALSE, !.img.shared = v.image]
     ELSE IF v.img.loaded = v.source /\ v.img.texture # Null THEN v
          ELSE [r EXCEPT !.gpu = FromPixels(@, v.source),
                         !.img.texture = NextAddress(r.gpu)]

(* The drawing was read, and is of the source there is now. *)
IsRead(v) == v.img.loaded = v.source /\ v.img.drawing # ""

(* Image::measureContent, where the width asks for the content's: a        *)
(* drawing is read without what was loaded being let go.                   *)
Measure(v) ==
  IF v.source \notin Drawings THEN EnsureLoaded(v)
  ELSE IF IsRead(v) THEN v
  ELSE [v EXCEPT !.img.loaded = v.source, !.img.drawing = v.source]

(* Image::ensureDrawn: rasterised again when the source or the box is      *)
(* another; the frames there were are retired first.                       *)
ReadIn(v) ==
  [Release(v) EXCEPT !.img.loaded = v.source, !.img.drawing = v.source, !.img.size = 0]
Redraw(v) ==
  LET old == RetireFrames(v)
      new == [old EXCEPT !.gpu = FromPixels(@, old.img.drawing),
                         !.img.frame = NextAddress(old.gpu), !.img.size = old.box]
  IN [new EXCEPT !.gpu = RetireTexture(@, new.img.texture), !.img.texture = Null]
EnsureDrawn(v) ==
  LET read == IF IsRead(v) THEN v ELSE ReadIn(v)
      kept == read.img.size = read.box /\ (read.img.texture # Null \/ read.img.frame # Null)
  IN IF kept THEN read ELSE Redraw(read)

(* Image::paint: the frames of a drawing, or the texture owned or borrowed *)
(* (Image::active).  mispainted: it shows a picture that is not its source.*)
PaintImage(v) ==
  LET ready == IF v.source \in Drawings THEN EnsureDrawn(v) ELSE EnsureLoaded(v)
      a == IF v.source \in Drawings THEN ready.img.frame
           ELSE IF ready.img.shared # Null THEN ready.img.shared ELSE ready.img.texture
  IN [Painting(ready, 2, a) EXCEPT
        !.mispainted = IsAlive(ready.gpu, a) /\ ready.gpu.alive[a].of # v.source]

-----------------------------------------------------------------------------
(* Calls: what a program can do, wherever it does it                       *)

RegistryCalls ==
  ({"push"} \X Sizes) \cup ({"close"} \X Names) \cup
  {<<"read", feed>>, <<"apply", feed>>, <<"define", feed>>, <<"forget", feed>>}

ScreenCalls ==
  ({"show"} \X (Names \cup {"nothing"})) \cup ({"source"} \X Sources) \cup ({"box"} \X (1 .. 2))

After(v, c) ==
  CASE c[1] = "push"   -> Push(v, feed, c[2])
    [] c[1] = "close"  -> Close(v, c[2])
    [] c[1] = "read"   -> Read(v, c[2])
    [] c[1] = "apply"  -> Apply(v, c[2], out)
    [] c[1] = "define" -> Define(v)
    [] c[1] = "forget" -> Forget(v)
    [] c[1] = "show"   -> Shows(v, c[2])
    [] c[1] = "source" -> SetSource(v, c[2])
    [] c[1] = "box"    -> SetBox(v, c[2])

Calling == calls < MaxCalls /\ calls' = calls + 1

-----------------------------------------------------------------------------
(* The loop                                                                *)

Init ==
  /\ w \in {World, [World EXCEPT !.showing = "nothing"]}
  /\ mDrawVersion = <<Null, Null>> /\ mCacheValid = FALSE
  /\ requested = TRUE /\ currentFrame = 0
  /\ layer \in {[caching |-> c, measuring |-> c, valid |-> FALSE, version |-> <<Null, Null>>] :
                  c \in BOOLEAN}
  /\ slack = 0 /\ pc = "service" /\ calls = 0 /\ beat = FALSE

(* A call from another thread (onLoop: rendeerRequestRedraw, and then the  *)
(* hop), or from onUpdate.                                                 *)
Call ==
  /\ pc \in {"service", "update"}
  /\ Calling /\ \E c \in RegistryCalls \cup ScreenCalls : w' = After(w, c)
  /\ requested' = TRUE
  /\ UNCHANGED <<mDrawVersion, mCacheValid, currentFrame, layer, slack, pc, beat>>

(* The producer pushes the next frame while it is wanted. *)
Produce ==
  /\ pc \in {"service", "update"}
  /\ Wanted(w, feed)
  /\ w' = Push(w, feed, IF w.slots[feed].at = Null THEN CHOOSE z \in Sizes : TRUE
                        ELSE w.slots[feed].size)
  /\ requested' = TRUE /\ slack' = 0
  /\ UNCHANGED <<mDrawVersion, mCacheValid, currentFrame, layer, pc, calls, beat>>

(* Mutant: the revision of the streams is not asked. *)
CanReuseThroughFrames == mCacheValid /\ ~w.layoutDirty /\ ~w.imagesMoved

(* Gui::canReuseRetained, with no input. *)
CanReuse == mCacheValid /\ ~w.layoutDirty /\ ~w.streamsMoved /\ ~w.imagesMoved

(* A producer that is wanted does not let more frames pass. *)
FrameBegins ==
  /\ pc = "service"
  /\ Wanted(w, feed) => slack < Patience
  /\ slack' = IF Wanted(w, feed) THEN slack + 1 ELSE slack
  /\ pc' = "update"
  /\ UNCHANGED <<mDrawVersion, currentFrame, layer, beat>>

Drained == [w EXCEPT !.gpu = DrainRetired(@)]

Reuse ==
  /\ FrameBegins
  /\ CanReuse
  /\ w' = Tick(Drained)
  /\ UNCHANGED <<mCacheValid, requested, calls>>

(* What the walk leaves when it has painted: every revision as it is now. *)
Settled(v) ==
  Tick([v EXCEPT !.streamsMoved = FALSE, !.imagesMoved = FALSE, !.layoutDirty = FALSE,
                 !.late = v.showing \in Names /\ v.slots[v.showing].at # v.mDraw[1]])

Started == [Drained EXCEPT !.mDraw = <<Null, Null>>, !.torn = {}]
Measured(v) == IF layer.measuring THEN Measure(v) ELSE v
Picture(v) == PaintImage(Measured(v))
Walking(v) == FrameBegins /\ w' = Settled(v) /\ mCacheValid' = TRUE

(* Gui::begin: everything is painted. *)
Walk == Walking(Picture(PaintStream(Started))) /\ UNCHANGED <<requested, calls>>

(* A handler is run on the way, before, between or after the two. *)
WalkWithHandler ==
  /\ Calling /\ requested' = TRUE
  /\ \E c \in RegistryCalls :
       \/ Walking(Picture(PaintStream(After(Started, c))))
       \/ Walking(Picture(After(PaintStream(Started), c)))
       \/ Walking(After(Picture(PaintStream(Started)), c))

(* runFrame after onUpdate: Gui::end's hash, which is of the addresses and *)
(* not of what the textures hold; the request is consumed either way.      *)
Gate(next) ==
  /\ pc = "update"
  /\ mDrawVersion' = w.mDraw /\ requested' = FALSE
  /\ pc' = next
  /\ UNCHANGED <<w, mCacheValid, currentFrame, layer, slack, calls>>

Earned == requested \/ w.mDraw # mDrawVersion
Earn == Earned /\ Gate("draw") /\ UNCHANGED beat
Skip == ~Earned /\ Gate("service") /\ beat' = ~beat

(* The GPU finishes the oldest frame. *)
Finish ==
  /\ w.gpu.flight # <<>>
  /\ w' = [w EXCEPT !.gpu.flight = Tail(@)]
  /\ UNCHANGED <<mDrawVersion, mCacheValid, requested, currentFrame, layer, slack, pc, calls, beat>>

FenceSignalled(f) == \A i \in DOMAIN w.gpu.flight : w.gpu.flight[i].frame # f

(* GuiRenderer::record, for the commands of the geometry: the sets they    *)
(* bind, and the images read through them.  A command whose texture is     *)
(* gone is undefined behaviour; here it draws nothing.                     *)
Bound(g) == LET one == ImageSetFor(g, w.mDraw[1]) IN ImageSetFor(one, w.mDraw[2])
Reads(g) == {g.sets[a] : a \in {b \in Drawn(w) : IsAlive(g, b)}} \ {0}

Shown(reads) == {n \in Names : Revision(w.gpu, w.slots[n].at) \in reads}

(* Renderer::recordFrame: with a cached layer the geometry is drawn into it*)
(* only when its hash is another one, and else the frame reads the layer.  *)
Rasterised == ~layer.caching \/ ~layer.valid \/ layer.version # mDrawVersion
RecordFrame == IF Rasterised THEN Bound(w.gpu) ELSE w.gpu
FrameReads  == IF Rasterised THEN Reads(RecordFrame) ELSE {}

(* Renderer::drawWindow: the frame's fence, the commands, the submission.  *)
DrawWindow ==
  /\ pc = "draw" /\ FenceSignalled(currentFrame)
  /\ w' = [w EXCEPT
             !.gpu = [RecordFrame EXCEPT !.flight =
                        Append(@, [frame |-> currentFrame, reads |-> FrameReads])],
             !.stale = @ \ Shown(FrameReads)]
  /\ layer' = [layer EXCEPT !.valid = @ \/ layer.caching,
                            !.version = IF layer.caching THEN mDrawVersion ELSE @]
  /\ currentFrame' = (currentFrame + 1) % FramesInFlight
  /\ pc' = "service" /\ beat' = ~beat
  /\ UNCHANGED <<mDrawVersion, mCacheValid, requested, slack, calls>>

Next ==
  \/ Call \/ Produce \/ Reuse \/ Walk \/ WalkWithHandler \/ Earn \/ Skip
  \/ Finish \/ DrawWindow

Spec == Init /\ [][Next]_vars

(* The loop goes round, the GPU finishes what it is given, and a producer  *)
(* that is wanted pushes within its patience.                              *)
FairSpec == Spec /\ []<><<beat' # beat>>_beat

-----------------------------------------------------------------------------
(* Properties                                                              *)

(* Whatever is recorded reads an image that exists, through a set that     *)
(* describes it and not one that was at its address before; nothing in     *)
(* flight is freed or its frame's buffers written, and nothing is painted  *)
(* or dispatched from an image that stands for another.  But for what a    *)
(* registry freed: at once, while the GPU reads it (close, forget and an   *)
(* effect's target, hurried), or under the geometry that names it (torn).  *)
(* And a set is lost to the pool only where a registry replaced a texture. *)
DrawsAreSound ==
  /\ pc = "draw" => \A a \in Drawn(w) : IsAlive(w.gpu, a) \/ a \in w.torn
  /\ InFlight(w.gpu) \subseteq Images(w.gpu) \cup w.hurried
  /\ \A i, j \in DOMAIN w.gpu.flight :
       w.gpu.flight[i].frame = w.gpu.flight[j].frame => i = j
  /\ ~w.misread
  /\ w.mispainted => layer.measuring \/ w.torn # {}
  /\ MaxSets <= w.gpu.pool + w.replaced + Cardinality({a \in Addresses : w.gpu.sets[a] # 0})

(* What the comment on Image::retireFrames asks of whoever lets a texture  *)
(* go: the geometry that names it was recorded.  Not so for the registries.*)
DrawsLiveImages == pc = "draw" => \A a \in Drawn(w) : IsAlive(w.gpu, a)

(* What GuiRenderer.h says of forgetTexture, that a texture goes only once *)
(* the GPU is idle.  Not so for close, forget and an effect's target.      *)
FreedWhenIdle == InFlight(w.gpu) \subseteq Images(w.gpu)

(* A frame pushed into a stream that is on the screen is presented, without*)
(* any input and however the pushes, the calls and the frames interleave,  *)
(* as long as the layer is not cached and the sets last; but for a texture *)
(* that a handler replaced after the <stream> was painted in the same walk.*)
FramesAreShown ==
  \A n \in Names :
    []<>(n \notin w.stale \/ w.showing # n \/ w.slots[n].at = Null \/ layer.caching \/ w.late)

(* A producer and the widget that shows its stream do not wait on each     *)
(* other: one that pushes often enough is wanted for as long as the widget *)
(* is on the screen, whatever was closed in between, and is told to stop   *)
(* when nothing shows it any more.                                         *)
ProducersAreTold ==
  /\ []<>(w.showing # feed \/ Wanted(w, feed))
  /\ []<>(w.showing = feed \/ ~Wanted(w, feed))

(* What the drawing that is on the screen is a drawing of, as its source   *)
(* says (Image::ensureDrawn).  Not so where measureContent came first.     *)
PicturesAreTheirSource == w.mispainted => w.torn # {}
=============================================================================
