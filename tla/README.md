# A verification model of RendeerAlpha

RendeerAlpha is a C++ engine for desktop interfaces: an application in any language calls a C ABI,
the engine runs its own loop thread with windows and a Vulkan renderer, and an interface is written
in `.tsx`, compiled to a blueprint (`.rdab`), instantiated as a tree of widgets and kept up to date
by *bindings* to *signals* and *tables*.  This directory holds TLA+ models of the parts of it that
decide things over time, the TLC configurations that check them and TLAPS proofs about them.

Paths below are relative to `src/RendeerAlpha/src/` unless they start with `include/`, which is
`src/RendeerAlpha/include/`.  `PROJECT.json` gives, for every definition, the lines it models.

Contents: [the system](#the-system) · [the modules](#the-modules) · [the runs](#the-runs) ·
[fairness](#fairness) · [assumptions](#assumptions) · [proofs](#proofs) ·
[what we found](#what-we-found) · [not modelled](#not-modelled) · [plan](#plan)

## The system

Three kinds of thread matter.  The *loop thread* (`engineMain`) owns every engine object.  The *host
thread* calls `rda_init` and `rda_wait`.  *Any* thread may make an ABI call; nearly all of them hop
to the loop thread through `LoopWork`, and a few (frames pushed into a stream, the command queue)
take a lock of their own.  Besides the threads there are other programs, editors and compilers, that
write the files the engine watches.

One turn of the loop is: look at `gRunning`; pump window events (which runs handlers); serve the
requests other threads have queued; then, in `frame`, update the router or the layout host, apply
the dirty bindings, and let each window decide whether its interface has to be walked and drawn.

| part | state it keeps | operations | talks to |
|---|---|---|---|
| `Core/LoopWork` | queue of pointers to requests, service thread, stopped flag | request, service, setServiceThread, stop | everything behind the ABI |
| lifecycle: `RendeerC.cpp`, `RendeerAlpha.cpp` | `gRunning`, `gStarted`, `gReadyFlag`, the thread object | rda_init, rda_stop, rda_wait, onLoop, engineMain | LoopWork, the callbacks |
| `Core/Signals` | values by name, observers by signal, dirty list and its marks | define, set, observe, forget, clearDirty | bindings |
| `Layout/Bindings` | bindings indexed by observer id, live or holes | add, remove, applyAll, applyDirty | signals, widgets, lists |
| `Layout/LayoutLoader` | an instance: its observers and its root | instantiate, release | signals, bindings, widget tree |
| `Layout/LayoutHost` | paths, two timestamps, watched files, one instance | open, reloadIfChanged, reload | compiler, loader, files |
| `Layout/Router` | history and place in it, pending move, screens on show and leaving | open, update, back, forward, setTransitionMs | signals, one host per screen |
| `Layout/ListView`, `Core/Tables` | a pool of built rows, scroll offset, what it saw last; columns and a version | paint, revealRow, invalidateRows; resize, set | row templates, bindings |
| `GraphicalObjects/Gui`, `runFrame`, `GraphicalSrc/Renderer` | last frame's draw data and the revisions it was made from, redraw flags | canReuseRetained, end, takeRedrawRequest, drawWindow | all widgets, windows |
| docking: `DockTree`, `TileGrid`, `Docking` | a tree of splits and tabs, a grid of tiles, what the hand holds, a file | spawn, remove, adopt, update (press, drag, drop, close), save, load | widgets, the retained frame, files |
| `Streams`, `Images`, `Effects`, `Viewports` | textures by name, descriptor sets by address, frames in flight, when each name was last seen | push, find, wanted, markSeen, close, define, forget, imageSetFor | any thread, widgets, the GPU |
| ABI queues in `RendeerC.cpp`, `Core/Commands`, the Node binding | functions by name, 256 pending commands, what was logged | bind, invoke, watch, poll; Node's timer and last poll | widgets, backends |
| `Scripting/*` | a queue of recorded commands for each thread, materials | record, apply, read-through | script VM, scene, LoopWork |
| text field: `GuiWidgets`, `Core/Utf8`, `Input` | caret, anchor, box, undo and redo, line index, spans | textField, setText | the frame, the clipboard, the application |
| declarations: `StateSchema`, `TypeEmitter` | none between calls | read, generate for four languages, type a layout | files, applications |
| layouts: `LayoutCompiler`, `ExpressionParser`, `Blueprint`, `LayoutLoader`, `WidgetSchema` | none between calls | compile, pack, parse, evaluate, instantiate, drive | signals, widgets, lists |
| themes: `ThemeSchema`, `ThemeCompiler`, `GuiTheme` | the styles of every variant | compile, load, look up | every widget that is drawn |
| widgets, motion, probe | each widget's own | paint, hit test, measure, query | the frame |
| Vulkan back end, windows, textures, scene objects | device objects | create, record, submit, resize | the frame |

Where it gets hard, and what correctness means there:

* **The hop.**  A caller puts a pointer into its own stack frame into a queue, sleeps with a deadline,
  and the loop swaps the queue out and follows the pointers unlocked.  Correct: an answer tells the
  truth about whether the work ran, no pointer outlives its frame, and every caller gets out, through
  stops and restarts at any moment.
* **Starting and stopping.**  Three flags, a callback handshake with a time limit, a join, and callers
  in the middle of a hop at each end.  Correct: a caller that sees the engine running finds someone
  to serve it; `rda_init` answers for this run; a stop is obeyed; threads never overlap.
* **What is on screen against what is true.**  A write marks observers; a frame evaluates them; a
  reload meanwhile frees the widgets they point to and builds others.  Correct: no live widget is
  left behind its signals, and nothing is evaluated for a widget that is gone.
* **Reloading.**  Two timestamps are compared with files that other programs write at any moment,
  and a compile error must cost a message, not the window.  Correct: an edit that compiles comes on
  screen, and what the host believes it has shown it has shown.
* **Navigation.**  A write of the `route` signal, a history move, failing layouts and screens still
  fading overlap.  Correct: history leads from where the user is, no screen is lost or left over.
* **Lists.**  Every cached decision about a pooled row is used up by a paint that may not visit every
  row.  Correct: what is drawn is what the table says; no row in view is missing or drawn twice.
* **Drawing on demand.**  A frame is drawn only if a flag, a revision or a request says so, and each is used up
  by a frame that may be reused, skipped, refused or run at the wrong size.  Correct: when nothing is left
  that would earn a frame, the screen is current; and then the loop is still.
* **Docking.**  What the hand holds and what waits to be closed are raw pointers kept over frames in which
  panels close and panes collapse; a file saved by one run is matched in the next with another layout.
  Correct: the tree and the grid stay sound, every panel is on screen or behind a tab of one that is, a
  close happens, and an arrangement changes by the user's hand and outlives the run.
* **Streams and pictures.**  A draw list, a descriptor set and a frame on the GPU each name a texture
  that any call may replace.  Correct: what is recorded reads the image it means, a pushed frame reaches
  the screen without input, and a producer and the widget that shows it never wait for each other.
* **Scripts.**  A script asks for changes over time; they have to happen together, in order, or not at
  all, while others change the scene.  Correct: each run is one transaction, reads what it will have
  written, and what it asked of an entity is done to that entity for as long as it stands.
* **Commands for a backend.**  A bounded queue, polled by a timer on a thread that also waits for the
  loop.  Correct: handled once, in order, in their own run; a loss is announced; what waits is collected.
* **Text fields.**  Caret, selection, undo and indices are kept across frames for a text the
  application owns.  Correct: edits stay inside the text and on whole characters, and undo reaches back
  to where its oldest step began.
* **Layouts, declarations, themes.**  A source is printed by a bundler, read by a second grammar, packed
  into shared pools, loaded by tables and run by a stack machine, beside modules generated for four
  languages.  Correct: the screen shows what JavaScript says the source means, all sides agree on what
  was declared, and each variant looks as its theme says.

## The modules

| module | models | built on |
|---|---|---|
| `LoopCall` | the promise of a hop: performed at most once, truthful answer | |
| `LoopWork` | `Core/LoopWork.cpp`, one action per critical section or step between two | implements `LoopCall` |
| `Engine` | `rda_init`, `rda_wait`, `rda_stop`, `onLoop`, `engineMain` | instantiates `LoopWork` |
| `Bindings` | signals, graph, dirty list, binding runtime, building and releasing a tree | |
| `LayoutHost` | open, reloadIfChanged, reload, `rda_load_interface`, the files | instantiates `Bindings` |
| `Router` | open, update, back, forward, transitions, history | |
| `ListView` | paint over one table | |
| `Frame` | one on-demand window: from a change to the presented image | |
| `DockTree`, `TileGrid` | the two arrangements as operations on a value | |
| `DockSpace` | the dock: frames, hands, spawned panels, the file, crashes | extends `DockTree`, instantiates `TileGrid` |
| `Surfaces` | textures at reused addresses, descriptor sets, frames in flight | |
| `Streams` | streams, images, effects, the widgets that show them, the frame | extends `Surfaces` |
| `Transactions` | the promise made to a script's author | |
| `Scripts` | runs of several script engines over one scene | implements `Transactions` |
| `Backends` | commands from the interface to a Node application | |
| `TextEdit`, `TextField` | places in a text; the text field over frames | |
| `Expressions` | parser and stack machine of bindings and handlers | |
| `Blueprints` | the file a layout is packed into and its checks | |
| `Compiling` | from a source's tree to a blueprint | extends both |
| `Widgets`, `Elements` | what each element loads, what a binding drives; what the types offer | extend `Expressions` |
| `Loading` | from a blueprint to widgets, bindings and watches | extends `Widgets`, `Blueprints` |
| `Themes` | schema, compiler and styles of a theme | extends `Compiling`, `Elements` |
| `Declarations` | the state schema and its four generated modules | extends `Expressions` |
| `Layouts` | an application from its declaration to its screen | composes the seven above it |
| `AbiProofs` | theorems of `Engine` and of `Backends`, the two sides of the C interface | extends both |
| `ScreenProofs` | theorems of `Router` and of `Frame`, what is on the screen | extends both |
| `*Proofs` | theorems of `LoopWork`, `LayoutHost` (with `Bindings`), `Scripts`, `ListView`, `Streams`, `DockSpace` | extend the component |
| `MC*` | values for TLC | extend the component |

**LoopWork.**  Each thread has a place in `request` (`pc`); a pointer in `mWaiting` or `batch` is the
thread whose frame it points into, so a later request of the same thread reuses the frame, as it does
on a stack.  Notify and wake are separate steps: a notified thread gets the lock when it gets it, and
looks at the predicate then.  `ran` and `overtaken` are history: how often the current request's work ran,
and whose deadline passed while the loop held their request in its batch, until the loop follows no pointer
to them any more.  The code promises these threads nothing (finding 1), and the properties except them, and
only them.  `LoopCall` sees none, asked, performed, true, false or, for a thread overtaken, adrift;
`ImplementsLoopCall` is the refinement.

**Engine** runs LoopWork's own actions at the places `engineMain` calls them, and adds the flags, the
place of `engineMain`, the place of the host thread and the callers that have passed `onLoop`'s look
at `gRunning` but not yet made their request (`hop`).  What a frame does is one step here.

**Bindings.**  A signal's value, its observers, the dirty list and its membership marks, and the table
of bindings.  What a widget shows is the tuple of values its expression was last evaluated with
(`shown`), so "up to date" is a comparison with the signals now.  A size bound to a text may refuse a
value, which stops that binding for good, as in the code.  `Swap` is what `instantiate` does after the
old tree is released, in the code's order; all of it happens in one step since it is one call on the
loop thread.

**LayoutHost** keeps the host's steps between two system calls apart (`phase`): looking at the source's
timestamp, compiling, looking at the blueprint's, reading it, taking the old tree down and building the
new one.  The editor and the tools write between any two of them.  A source and its imports are one
file, and timestamps never repeat.  `slipped` remembers that a write came between the reading of a
blueprint and its stamp, the one write that can be stamped unread.

**Router.**  A screen is the serial number in its container's id; `children` is what stands under the
parent, `shows` what each was built for and with which params.  An update first sweeps the screens
whose fade ended, then restores, navigates, refuses or stays, in the code's order.  Which layouts load
can change at any time, so every `show` may fail.

**ListView.**  Lengths are in half rows, so a list can stand between two rows.  A paint does what
`ListView::paint` does in its order: totals, wheel or thumb, reveal, follow, clamp, first row, how
many rows, which slots are evaluated again; between paints the table is written and resized, a
signal the rows read changes, and a row is asked for.

**Frame.**  What a widget, a table, the scene or a size says is a version number, so "the image is the one a
frame would draw now" is an equation between numbers.  A frame is four steps: it begins (`Reuse`, `Walk` or
`WalkWithHandler`, each with the bindings applied first), `onUpdate` runs, `Gate` fingerprints the geometry
and consumes the request (`Skip`, `Earn`), and `drawWindow` presents, rebuilds or does nothing.  The loop
runs one after each poll, and a resize, move or repaint runs one inside it (`pc = "modal"`), where the
cached size is still the last poll's.  The OS resizes and another thread changes the scene between any two
steps.  The table stands for every store with a revision (theme, images, streams, drawings, atlas), which
`canReuseRetained` treats alike; `fresh` is history, and says that nothing was presented since the swapchain
was made.  Left out: continuous mode, several windows and a window's own `requestRedraw`.  Overlays, focus
and the pointer only add walks, and a walk for no reason is always possible here.

**DockTree, TileGrid, DockSpace.**  A tree is the root's address and the nodes by theirs, linked both ways,
so that a pointer kept by the caller can be checked after a splice; a grid is the sequence of tiles in the
order a push walks.  One step of `DockSpace` is a whole `update()`: queued spawns, the file on the first
one, seeding by hint, the press, drag or drop of this frame, the splitters, the close at the end, the
autosave.  Between frames panels are spawned, removed and adopted, and the program ends, crashes, or
reloads its layout.  `CanReuse` is what the retained frame asks of the dock before it skips the walk.  A
press lands on anything it could land on: rectangles, ratios and drawing are left out, as are a panel's own
`visible` and dock spaces inside panels.  A crash leaves the old file or the new one cut anywhere (`Cuts`):
before the last pane there is no tree to read, in it a tab may end in mid-name (`Stumps`), and every later
cut leaves a whole tree and fewer of the lines that say what it placed.  `strays` is history: the panels
that the file just opened put in the tree without saying so, or twice.  The layouts of one run may differ in
the panels they declare, so that a panel goes with one reload and comes back with another.

**Surfaces, Streams.**  A texture is what stands at an address, and its image has a revision no other ever
had; a descriptor set describes a revision, a draw list an address, a frame in flight both.  So "reads the
image it means" is an equation.  The loop goes through service, walk, update and draw; calls from other
threads run at service, the loop's own at update, a handler's inside the walk.  The GPU finishes frames at
any time.  An effect reads one stream and writes another; an `<image>` shows a registered picture or a
drawing, measured by its content or not.

**Transactions, Scripts.**  The abstract scene changes in one step per run.  In `Scripts` a run records into
its thread's queue, reads through it, and commits on the loop (or is refused, when the loop is gone), while
the application creates and destroys entities at reused addresses and the loop's own script runs between.
Of the hop only the promise of `LoopCall` is used.  One number stands for each kind of value.

**Backends.**  Invoking, binding and watching as in `Commands.cpp` and `RendeerC.cpp`; Node's `init`, timer,
turn of polls, calls that hop, and last poll as in `bindings/node`.  Commands are numbered as they are
invoked, so order, loss and repetition can be seen; `logged` is the last run that warned of an overflow.

**TextEdit, TextField.**  A byte is its class (a letter, a space, punctuation, a line break, the lead or the
continuation of a longer character), a place is a byte index.  A frame gathers one or two keys, the
modifiers and the mouse, and runs the whole of `Gui::textField` in its order; between frames the application
may write the text.  An index outside the text is undefined behaviour in the code: it raises `fault`, and
the field is not followed any further.  `origin`, `lost`, `wrote` and `rough` are history.

**Expressions, Blueprints, Compiling, Widgets, Elements, Loading, Themes, Declarations, Layouts.**  `Layouts`
takes one application through all of them.  Its declaration is read and written out for one of four
languages; the module's `define` makes the signals, commands and tables; the layout is compiled, packed,
cut or not, parsed and loaded; then the application and its user write, fill, press, reload, change theme
and let frames pass.  Beside it stands what the author meant: an expression is also a tree, with its value
as JavaScript defines it, a source is also its elements, a theme also its entries.  QuickJS and esbuild are
external: a source is what evaluating it gives, and the tokens printed for its functions.

What a layout declares starts over with each load, as the code has it and its comment does not (a finding
each of `LayoutHost` and of `Layouts`).  A bound size whose text does not parse stops that binding for good.
Row lists stay at their
top, since scrolling is `ListView`'s; layouts are typed by TypeScript; quotients are whole; a generated
module is its `define`, its members and its routes, not its wording.  A theme's style maps each field to a
value, `<<"builtIn", mode>>` for what the engine was built with; variants an application defines from code,
the colour helpers and the suggestions for misspelled names are left out.

## The runs

Passing runs, with the bounds and why they are enough:

* **LoopWork** (56,314 states).  Two callers and the loop, any number of requests, deadlines, stops and restarts.
  Two callers make every shape of queue that matters: two in a batch, one in it and one behind it, one
  leaving while the other is served.  `AnswersAreTrue`: a false answer means the work never ran, a true one
  that it ran once, and a queued pointer is live; a caller surprised by its deadline in the loop's hands
  is excepted, and the run shows that the other is not touched by it.  `ImplementsLoopCall`.  `CallersAreReleased`, with its one stated exception, the
  caller a restart overtakes.
* **Engine** (144,516).  The same two callers, the deadline of one of which may pass at any moment (`Hurried`),
  one host thread, any number of runs of the engine.
  `StartsAreSound` (running means served, init answers for this run, one loop thread), `StopEndsTheLoop`,
  `NobodyIsStranded` (init returns, callers are released).
* **Interface** (187,978).  One number and one text signal, three layouts (one binding; two bindings
  of which one may be refused; nothing), two edits, one blueprint written by a tool, one write of the
  application and two loads.  An edit can overtake an edit, a tool's write an edit, a write a reload.  Ten
  bindings are never all used.  `WidgetsAgree`, `GraphAgrees` (dirty list, edges, and only the tree that stands
  is driven), `SeenIsShown`, `BrokenEditsCostNothing`, `EverythingIsShown`.
* **Router** (265,092).  Three routes, two of them with a param of two values; four writes, moves or
  settings, one layout that breaks or is put right.  Three navigations make a history with something on
  either side, and the fourth request overtakes one of them.  `ScreensAccountedFor`, `HistoryIsTheUsers`,
  `RoutesComeToRest`.  Deadlock is not checked: a user may stop asking.
* **ListView** (154,861).  Up to four rows where two fit and three are built, equal rows or rows of their
  own height, following or not, three changes.  Every first row, every edge of the view over every edge
  of the table, growing and shrinking under the view.  `RowsAreTheTables` (no hole, nothing drawn twice, only
  the last slot goes stale), `RevealedIsInView`, `FollowIsAMood`.
* **Frame** (45,652).  Two sizes and none, animations of two steps, two changes of size and one of
  content: there and back, minimised and restored, and an edit of any kind in any step of any of those
  frames.  More edits in a row are the proof's business, and were run with two (405,573 states, the same
  answers).  `QuietMeansCurrent`, `ShownThenStill`.
* **Docking** (200,373).  Three declared panels, one with a close button and one that a second layout does
  not declare, and one spawned; three events (a press, a spawn, a remove, a reload or end, a crash that cuts
  the file anywhere), of which two may be presses and two restarts, in both arrangements,
  starting with no file, with one in the old format, or with one written by hand.  Three columns and tiles
  of one or two make every kind of push, which settles well inside the six rounds allowed here for the
  code's 64.  `PanesAreSound` (links, places and pointers), `TilesAreTight` (no two tiles in a cell, none outside
  the grid, no holes), `EveryPanelIsShown`, `ClosesHappen`, `TheUsersArrangement` (no pane goes blank, what
  stands where changes by the hand, a close, the file or a hint's one use, and no tile moves sideways but
  the one dragged or resized).
* **Streams** (599,669).  One stream with a producer, one an effect writes, two sizes, two calls besides
  the pushes, two frames in flight, a stream shown or not; with a cached layer and an image measured by its
  content, or with neither.  A texture can be replaced while it is named, while it is drawn and while the GPU
  reads it, and its address can be used again.  Ten addresses and nine sets never run out; a stream is
  taken for seen two frames long here and 90 in the code, and at most one frame passes between two pushes.  `DrawsAreSound`,
  `FramesAreShown` (but for a cached layer, and a texture a handler replaced after its widget was painted in
  the same walk), `ProducersAreTold`.
* **Scripts** (623,221).  The loop's own script and one worker, two addresses (alike, hence `SYMMETRY`) for
  one birth each side of a death, three commands in all: a command can be recorded before, and replayed
  after, another run, a death, or a birth in the place of the dead.  `ReadsAreSound`,
  `CommandsReachTheirEntity`, `ImplementsTransactions`.
* **Backends** (113,570).  A queue of two where the code's holds 256 and turns of one for 64, six commands,
  three calls of the backend, two runs: overflow within a run and across a restart.  `QueueIsSound`,
  `LossIsAnnounced`, `EverythingIsCollected`.  Deadlock is not checked: both runs may be over.
* **TextField** (67,185).  A single-line, a code and a read-only field; three frames of one or two keys or a
  gesture of the mouse, one write of the application, a text of at most five bytes with a two-byte character
  in it, and an undo ring of two steps and six bytes, so that both bounds drop steps.  `FieldIsSound`,
  `UndoReachesTheStart`.  Deadlock is not checked: the frames are counted.
* **Layouts** (31,557).  45 applications: one for each of the 21 elements with every prop of its own
  bound (on two of them also those every element takes), five declarations (in TypeScript, in XML, and with names and texts that some language has trouble
  with) in each of four languages, three written layouts with components, row templates, popups and local
  signals, and one with fifteen themes, any of which may be worn from the start.  Three steps each, since every step writes, fills, presses,
  reloads or redresses and the frame after it settles everything; two rows are enough for one slot that is
  written and one that is not.  `LayoutsSayWhatTheyMean`, `SidesAgree`.  Deadlock is not checked: a module
  that a language refuses stops there.

`LoopWork`, `Router` and `Frame` check their type invariant under its own name, the others inside the first
property of the run.  Every property has a mutant in `PROJECT.json`: a plausible bug in the modelled code
that makes the run fail.

Two properties name what they leave out, so that it is not mistaken for what they show.  `SaidDifferently` of
`Layouts` lists the fields in which a function and a constant differ, and `Unwritable` the declarations a
language refuses; each case in them is one of the findings.

## Fairness

* `LoopWork`: a thread inside a request is scheduled (`WF` of its next step).  The loop calls `service`
  once a frame and finishes it; it may make requests of its own between two steps, finitely many, hence
  `SF`.  Nobody has to ask or to stop; no deadline has to pass, except in the premise of
  `EveryRequestReturns`, which is about deadlines.
* `Engine`: the loop thread moves (`SF`, for the same reason), the host thread returns from what it is
  in, and callers move.  No fairness on stopping, on closing the last window, on giving up after 30
  seconds or on starting again.
* `LayoutHost`: `engineMain` calls the frame wrapper for ever, which finishes `reloadIfChanged` (`WF`)
  and applies the dirty list; a reload may get in between (`SF`).  Nobody has to edit or write.
* `Router`: updates for ever (`WF`), and nothing else.  Fades are not fair: a fader learns that its time is
  over only when it is painted, and the frame in which `Motion::step` settles the last value is one
  `Gui::canReuseRetained` allows to be skipped.  So `RoutesComeToRest` states the router's share
  (`FadedScreensLeave`: if again and again the fades under way have been painted to their end, then again and
  again no screen is on its way out); that the premise may fail in an idle window, and `ScreensLeave` with
  it, is a finding, and the one step that `QuietMeansCurrent` of `Frame` allows.
* `Frame`: the loop takes its next step (`WF`).  A poll delivers what there is and comes back, however often
  the OS has a frame run inside it: a drag ends (`SF` of `Deliver` and `PollReturns`).  Whoever changed the
  scene makes the call that says so (`WF` of `RequestRedraw`).  Nobody has to edit, resize or move the
  pointer, and no walk has to happen without a reason.
* `Docking` and `Streams`: the loop keeps turning, `[]<>framed` and `[]<><<beat' # beat>>_beat`, as `engineMain` does until it
  is stopped.  A turn may reuse the frame or walk as the code decides, nobody has to press or to call; in
  `Streams` a producer that is told it is wanted pushes within `Patience` frames, an assumption on the
  application, and the GPU finishes a frame before the loop waits on its fence, as drivers do.
* `Backends`: the timer fires (`WF` of `Collect`), frames come (`WF` of `Frame`), a hop is served although
  other hops may come first (`SF` of `Service`), and a refused one answers (`WF` of `Refused`).
* `ListView`, `Scripts`, `TextField` and `Layouts` have safety properties only: each step is judged by
  itself, against the one before, or (`Scripts`) against the abstract specification.

## Assumptions

They are constants with a name, so a run can lift them; each stands for something the code relies on
and does not enforce.

| constant | meaning | without it |
|---|---|---|
| `StopBeforeUp = FALSE` | nobody stops the engine before it is up | finding 3 |
| `DefineOnce` | the application defines a signal once (layouts may define it again) | finding 5 |
| `HistoryLoads` | the layout of a screen in the history still loads | finding 7 |
| `OpenOnce` | routes are opened only while no screen stands | finding 4 |
| `SurfaceTellsExtent` | the surface reports its current extent (Wayland's does not) | finding 11 |
| `ListsFollow` | a handler that writes a table runs before the list of it is painted | finding 11 |
| `Patience < KSeenWithin` | a producer pushes more often than its stream is forgotten | finding 13 |

Built in: timestamps never repeat and a source is one file (LayoutHost); a list is drawn where it is
scrolled to, without easing (ListView), and enough rows were built: `PoolIsEnough` says how many, for
some pitch that is at most every height, is a hypothesis of the theorem that needs it, and is an `ASSUME` of `MCListView`.
In `Frame` a new size reaches the resize flag and then a frame inside the poll, the order in which the
windowing library calls back; `drawWindow` is one step; and acquiring or presenting never fails but for a
swapchain that does not fit its surface.
`ASSUME`s on the constants only type them, but for two.  `RoomAssumption` of `Surfaces`: memory has room for
the textures that are held at once.  `FileIsSound`, in `DockSpaceAssumption`: a file that `DockSpace` starts
with has a tree such as a stream of lines can spell, one tile for each id (tiles of one id overlap for
good, finding 12), and no spawned panel numbered past what a run may spawn; of the five-slot format, no
panel in two slots nor left out of its list of containers.  What its tree docks, and how often, where its
tiles stand, whether they overlap and where it was cut are left open.

## Proofs

Checked by TLAPS, for every number of callers, signals, layouts, routes and every bound.  Nothing
is taken on trust; a theorem that needs one of the assumptions above says so in its statement.

* **LoopWorkProofs.**  `IInv` adds to `NoDanglingRequest` what the pointers cannot say: how often the
  work of each thread has run, given its place, its pointer and its done flag (`Tally`), how far into
  its batch the loop is (`BatchProgress`), and that a batch never crosses a stop
  (`BatchOnlyInService`).  Without the tally one cannot know that a thread leaving with `done` false
  had not run.  All of it is said of the threads outside a set (`Core`); the set is `overtaken`, a
  deadline inside a batch adds to it, and what is forgotten from it is shown to need no exception any more
  (`ForgetKeeps`, `Adrift`).  So `AnswersAreHonest`, `PointersAreLive`, `RequestIsSafe` and
  `LoopWorkImplementsLoopCall` hold for all deadlines.
* **AbiProofs**, of the engine.  Every step of Engine is a step of LoopWork or leaves it alone
  (`EngineRunsLoopWork`).  The invariant ties the places of `engineMain` and of the host thread to the
  flags: the stretch where a service thread is named contains the one where `gRunning` is up
  (`RunningIsServed`), the word of a run is given only past `on_start` (`InitAnswersForThisRun`), and
  there is a thread exactly between `rendeerRun` and the end of `rendeerWait`
  (`LoopThreadsNeverOverlap`).
* **LayoutHostProofs.**  `BInv` of the bindings is kept by every way the host calls them
  (`HostDrivesBindings`), because the host only ever releases observers of its own instance, which are
  all the live ones (`Driven`).  `GraphIsSound` and `OnlyTheTree` follow without any assumption on the
  application, `WidgetsNeverLeftBehind` under `DefineOnce`, and `StampsAreHonest` from
  `Follows`, which says what the host holds between reading and stamping; only what a tool writes
  between the two (`slipped`) is excepted, which is all that the code lets through.
  `BrokenEditsNeverCost` follows from the types: what a reload carries from the blueprint to the swap is a
  layout (`CarriesALayout`), so a tree is taken down only for another.
* **ScreenProofs**, of the router.  `RInv` places the screen: it stands, is youngest, is what it says, and has a place
  in the history, and only an open router has a move pending.  `Accounted` (under `OpenOnce`) and
  `Remembered` (under `HistoryLoads`) are added for `NoScreenIsLost` and `HistoryFollowsTheUser`.
* **ScreenProofs**, of the frame.  `QuietMeansCurrent` compares the screen with the world across the whole pipeline, so it is
  not inductive; `IInv` cuts it where a note is kept.  A write waits with its binding and a widget with
  the tree's dirty mark (`WidgetAccounted`); what a walk recorded is what it drew (`RecordedIsDrawn`); the
  geometry is at most the settling step behind its animation (`MotionAccounted`); a lost size or a swapchain
  that does not fit has an event on its way or has left the flag (`ResizeAccounted`); and an image that is
  not the fingerprinted one, or not of this scene, has an excuse (`ImageAccounted`).  `NothingIsForgotten`
  follows for every number of edits and resizes, under `SurfaceTellsExtent` and `ListsFollow`;
  `TypeCorrect` without them.
* **ScriptsProofs.**  `RunsAreTransactions` maps every step to one of `Transactions`.  What a replay does to
  a scene is a recursive function the prover need not open: the step that replays is the step that performs,
  once the queue it takes is known to be what the run asked for (`QueueIsTheRuns`), which is why there is a
  queue for each thread.  `LivingEntitiesAreReached` needs who an address is: an entity that stands, and
  the one a command names, were created there (`Housed`, `Addressed`), and a run records nothing more for an
  address once it has recorded its destruction (`DestroyedLast`), which is what `entitySelf` asks the queue for.
  `RunsReadTheirOwnWrites` (`ReadsAreSound`) compares what a run reads, a search from the newest command
  backwards, with the scene the queue would leave, a fold from the oldest forwards.  They agree on every
  prefix of the queue, by induction on its length: the set of lengths where they differ would have a least one.
* **AbiProofs**, of the queue.  `QueueIsAlwaysSound` and `LossIsAlwaysAnnounced`.  What waits in the C ABI's queue is
  the latest that was invoked, in order and all of this run (`Latest`), and what was handled came before it
  (`Handled`).  So every command of the run is at one of three places (`Kept`): handled, waiting, or lost
  with a whole queue behind it, after the run has said so; the flag that silences the second
  warning is known to be this run's (`Warned`) because a start clears it.
* **ListViewProofs.**  `RowsAreAlwaysTheTables`, for tables of any length, rows of any heights and a pool
  that is enough.  What the last paint drew is what the totals of that paint ask for, and shows the rows
  that follow the first one in view, until the table moves again (`Placed`); the running totals are
  those of the heights, so that no row in view is before the first or past the last slot, by induction on
  the row.  That only the last slot goes stale needs an invariant of the slots that are *not* drawn: each
  of those the view is sure to need is current wherever it shows a row at all (`Fresh`), since no slot
  ever shows a row above its own number (`Deep`).  `ARevealedRowIsSeen` and `FollowingIsAMood` are action
  properties, from the types and from what `mWasAtEnd` remembers (`AtEnd`).
* **StreamsProofs.**  `DrawsAreAlwaysSound`, for any number of addresses with room in them, of descriptor sets,
  frames in flight, sizes and calls.  It is an argument about ownership: a texture that stands is held by one
  holder (`Keep`: a stream, the registry's image, the `<image>` twice over) or is to go at the top of the next
  frame, never both (`Owned`), so what one holder lets go of no other loses, and what is painted stands
  unless a registry took it away (`Stands`).  What is in flight stands, but for what a registry did not wait
  for (`Flying`).  A set that is stale is lost only when it is next bound, so the bound on the pool is not
  inductive: the invariant counts it as lost from the moment it is stale (`Pooled`).  What an `<image>`
  owns is of the source it loaded (`Faithful`) where it is not measured by its content; a borrowed picture is
  the registry's unless the `<image>` was told of another (`Borrowed`).  A walk may retire two textures
  where it measures and two where it paints, and every frame starts by letting them go: with five held
  and one in the making, ten addresses are enough (`RoomAssumption`).
* **DockSpaceProofs.**  `PanesStaySound`, `NoPanelIsLost` and `ArrangementIsTheUsers`, for any panels, hints,
  cells, layouts, presses, drops and closes and for files cut anywhere.  It goes from the tree up.  A file's
  tree is `Readable` whatever it docks; soundness, and being `Good`, are stated but for a set of panels, and
  the whole proof is carried out for any such set: `strays` are the ones to except.  A sound tree
  has a rank that falls from a split to its sides; by it the recursion of `Gather` exists and finds every
  pane, so that "the largest pane" and "the panel's leaf" mean something.  Every operation on a tree (tab,
  split, drop, undock, collapse) is then shown to lead to a sound tree that docks what it should and has no
  blank pane the old one had not (`Leads`), through the splices that make a pointer dangle if one link is
  forgotten.  Every operation on the grid slides tiles up and down only (`Slid`, `Follows`).  Each part of
  `update` keeps a space `Good`, where pointers held over frames lead to what is there, and changes no more
  than it says; a walk is their composition (`Walks`), and draws every panel or one that tabs it
  (`Shows`).  `Inv` between two frames adds that spawned panels are numbered no higher than the file's and
  this run's together (`Top`), so that no name is given twice; that before its first walk a dock holds
  nothing (`NotYetWalked`), which is what lets the file replace it; and that the file, or whatever a cut
  leaves of it (`CutsAreGood`), is one the next run can read (`FileIsGood`).

Every theorem that names a property of a run is listed with it in `PROJECT.json`.  Only model-checked:

* all liveness, for which the prover has no rule;
* the whole family of `Layouts`, whose parser, compiler and evaluator are recursive operators, which cost
  the prover its arithmetic;
* `TilesAreTight` of `DockSpace`: a push goes round at most `Rounds` times and then gives up, so that tiles
  end apart only when that was enough for them, which is a matter of their number and sizes; that every
  tile is inside the columns and stands for one panel is in the invariant (`Grids`);
* `TextField`, whose invariants are about every text an operation rewrites: its keys are picked with
  `SelectSeq`, of which the prover knows nothing.

The action properties that the runs check are all proved.

Inductions over data are done by hand where they are needed: the library's theorems take an operator as
a parameter, which the installed provers cannot instantiate, but the least element of a set of numbers
(`UpTo` in `ScriptsProofs`, `ListViewProofs` and `DockSpaceProofs`, `NextIs` in `StreamsProofs`) is
first-order, as is the least element of a well-founded relation, by which `Gather` is built.

## What we found

Each is in `PROJECT.json` with its lines and the comment, header or page it disagrees with.  Where a property
is named, it is stated in the module, and TLC refutes it when it takes the place of the properties in the
configuration of the component's run, with the constants changed as said.

The hop, the engine, the interface:

1. A deadline that passes inside a batch: `request` answers false, and the loop has run or is about to
   run the work, through a pointer into a frame that is gone (`FalseMeansNeverRan`, `LoopWork.cfg`).
2. A call that passes `onLoop`'s check just before the loop ends runs its work on its own thread,
   beside the teardown (`OnlyLoopTouchesEngine`, `Engine.cfg`).
3. A stop before the engine is up is overwritten (`StopEndsTheLoop` with `StopBeforeUp = TRUE`).
4. A second `rda_load_interface` leaves the first interface's widgets standing (`roots` of `LayoutHost`
   reaches two); `rda_open_routes` over routes that are open does the same to screens.
5. A reload writes back the initial value of every signal the layout declares (`ReloadKeepsSignals`,
   `Interface.cfg`), and a second define of a signal marks no observer.
6. A first load that fails watches nothing, although the interface comes up later; a tool's write
   between the reading and the stamping of a blueprint is never shown (`SeenIsShown` without `~slipped`).
7. A history move to a screen that no longer loads moves the place and not the screen
   (`EntryIsTheScreen`, `Router.cfg` with `HistoryLoads = FALSE`); a param changed on a screen is not in its
   history entry.
8. A list at its end can use up a change that its last slot never sees, and shows the old row when
   scrolled back (`ShownIsCurrent`, `ListView.cfg`); a row asked for is forgotten if the list follows in the
   same paint.
9. An animation in an idle window stops one frame short of where it is going (`QuietMeansCurrent` with
   `Current(0)`), and a screen that fades out may stay in the tree until the user does something.
10. A window made minimised stays empty after it is restored, until there is input: the frame that makes its
    swapchain uses up everything that would earn another (`SkippedIsOnScreen`, `Frame.cfg`).
11. On a surface that does not tell its extent, a resize inside the poll can leave the swapchain at the old
    size; and a table written by a handler after its list was painted is taken for drawn
    (`QuietMeansCurrent` with `SurfaceTellsExtent` or `ListsFollow` false).

Docks, pictures, scripts, commands, text:

12. *Docking.*  A panel spawned by a widget's callback is queued again by each update and never made
    (`SpawnsHappen`).  A panel that leaves the layout and comes back is docked twice, and so is one whose line
    was cut off behind a tree that places it; a spawned one whose line was cut off leaves a pane that shows
    nothing and takes no drop (`TreeIsSound`, `NoPaneGoesBlank`, `EveryPanelIsShown`: each excepts `strays`,
    and is refuted without that).  A close is drawn one walk late, and of two
    closes in a frame the first is forgotten.  A dock that was never painted saves over the file it never
    opened.  Tiles of one id overlap for good.  The retained frame watches the engine's dock, not the one a
    `<dock>` element makes.
13. *Streams.*  `define`, `forget`, `close` and a push of another size free a texture that the draw list
    still names (`DrawsLiveImages`), and some of them one the GPU still reads (`FreedWhenIdle`).  A replaced
    texture's descriptor set is lost; there are 256.  A producer slower than a widget's 90 frames is told to
    stop although its widget is on screen (`ProducersAreTold` with `Patience = 3`).  With the layer cached a
    pushed frame is not drawn.  A drawing measured by its content stays when its source changes
    (`PicturesAreTheirSource`).  By reading: a frame whose submission fails has reset its fence and waits
    for it for ever.
14. *Scripts.*  An entity created at a freed address takes the commands meant for the old one
    (`CommandsHitTheirEntity`).  A run that ends after the loop has gone replays on its own thread, through
    released materials (`NothingFreedIsWritten`).  By reading: `createMaterial` pushes into a list two threads
    may share.
15. *Commands.*  A handler inside the walk can take down the tree that is being walked (`TreeAlwaysStands`).
    Node's last poll takes 64 of what may be 256 (`LastPollTakesAll` with `kMaxPending = 3`).  By reading:
    file choosers open twice, a lost `_pending` entry and an early exception in Python, a text that grew
    between two calls, drops kept over a restart.
16. *Text field.*  After the application shortens the text, a key edits outside it (`NoEditOutside`).
    Click, then Backspace twice, takes the wrong character (`SelectionsAreAsked`).  A box selection cuts
    characters in half (`CharactersAlwaysWhole`).  Select all and type within 0.7 s: what was there cannot be
    had back (`ReplacedComesBack`).  After Escape the caret stays drawn (`CaretIsWhereTheKeysGo`).  By reading:
    `wordRight` stands still at punctuation, a click between two frames is lost, a new completion offered in
    `onChange` is cleared.

Layouts, declarations, themes, found while the meaning of a source was written down (most are cases that
`SaidDifferently`, `Unwritable` or the sources of `MCLayouts` step around):

17. *Expressions.*  A binding may write; both arms of a conditional and both sides of `&&` and `||` are
    evaluated, and these two give booleans; `===` is `==`, and `<` on texts compares zeros; `state.n++` is the
    new value; `return` is taken as a prefix of a longer name.  What is not ASCII in a binding's string
    loses its backslash.
18. *Layouts.*  `label#2` may be two widgets.  A local signal is scoped by its file's stem, so two files of
    one name share it; its initial number is rounded to a float; one declared inside a component is never
    declared.  A bound width clears the bounds beside it; `auto`, empty texts and wrong words differ between
    a constant and a binding; many props that may be bound are not driven.
19. *Declarations.*  Initial numbers keep six digits.  A newline in a text, a column called `rows` or `fill`,
    two names that one language writes alike break a generated module.  `value="1"` in XML is true in C++ only.
20. *Themes.*  Panel variants are typed as a union although the page says string; a variant named by two
    themes is merged, not replaced; one written above `default`, or above its base, starts from what
    stood there before; an object where a colour belongs is accepted and ignored.

## Not modelled

* *Widgets' painting, hit testing, measuring and easing, and the probe.*  One thread, one widget at a time, a
  picture at the end; what has to be right across widgets is in `Frame`, `ListView`, `DockSpace`, `TextField`
  and `Layouts`.  Rectangles, ratios and splitters' positions of the dock are arithmetic over pixels.
* *Viewports' camera commands and scene objects.*  Data holders and geometry; the scene's entity list is in
  `Scripts`.
* *The rest of the windows* (title bars, icons, focus, several windows, continuous mode) is calls of the
  windowing library; *the Vulkan back end* follows the driver's rules, which its validation layers
  check.  What decides control flow in them, a swapchain that does not fit, frames in flight,
  descriptor sets by address, is in `Frame` and `Streams`.
* *Core utilities* (SVG, fonts, file dialogs, log, file names): conversions without state.
* *QuickJS and esbuild*, and the resolution of imports, are external: a source is what they make of it.  The
  *command line tool* is one of the programs that write files, the environment of `LayoutHost`.
* *Python and C# bindings*: wrappers with the shape of Node's, which `Backends` models; they were read and
  compared with it.
* The files dropped on a window are queued by the same code as commands, without the clearing at a start.

Vendored code and examples are left aside.

## Plan

What is left, in the order of what it adds:

1. Proofs about `TextField` (undo reaches the start), and how many rounds of a push are enough for so many
   tiles, which would prove `TilesAreTight`.
2. Several windows in `Frame`: a request that means all of them, one that means one, and flags that move from
   the OS side and the interface side at once.
3. A composition of Engine's frame with command handlers that re-enter the engine, which finding 15 shows on
   the side of the walk only.
4. Rows at every scroll offset in `Layouts`, by composing it with `ListView`.
