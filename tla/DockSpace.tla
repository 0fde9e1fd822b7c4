----------------------------- MODULE DockSpace ------------------------------
(***************************************************************************)
(* A dock space: panels arranged as panes or as tiles, moved by the        *)
(* pointer, spawned and closed by the application and by the panels' own   *)
(* widgets, and remembered in a file (GraphicalObjects/Docking.cpp).       *)
(*                                                                         *)
(* update() is one step: a frame that walks.  It runs under the            *)
(* WidgetWalkGuard of Gui::begin, and only when Gui::canReuseRetained does *)
(* not let the frame reuse what it drew last.  Between frames the          *)
(* application may spawn and remove, and the program may end, crash or     *)
(* reload the layout that declared the panels.                             *)
(***************************************************************************)
EXTENDS DockTree

CONSTANTS
  Layouts,     \* what the layout may declare: sequences of panels
  Hint,        \* where a panel says it starts: a slot, or "floating"
  Closable,    \* those with a close button
  Type,        \* the container type the application defined
  Size,        \* a tile's columns and rows, by panel
  At,          \* a tile's written place, or NoPanel for the first that fits
  Cells,       \* the cells a pointer can be over, the grid's outside included
  Arrangements, \* of "panes" and "tiles"
  OldFiles,    \* what an earlier run may have left in the persist file, by arrangement
  NoFile,
  Stumps,      \* what is left of a panel's name when the writing of it was cut short
  Columns, Rounds,
  MaxSpawns,   \* bound: containers spawned, the queued ones included
  MaxRemovals, \* bound: calls of remove
  MaxRestarts, \* bound: ends, crashes and reloads
  MaxPresses,  \* bound: presses of the button
  MaxEvents    \* bound: all of these together

VARIABLES
  arrange,      \* set before the first update and not again
  mContainers,  \* the panels, in creation order
  mTree,
  mGrid,
  mSeeded,      \* panels whose hint was acted on
  mSeedAnchor,  \* the panel each hint seeded, or NoPanel
  mSpawnCounter,
  mPendingRemove,
  mPendingSpawns, \* how many
  hand,         \* what the pointer holds: the five pointers a press can set
  down,         \* the button
  changed,      \* mRevision is not the one the last walk saw
  mOpened,      \* the persist file has been read
  file,
  strays,       \* in the tree the file held and not known to be placed, or there twice
  shown,        \* the panels the geometry on screen draws
  framed,       \* a frame has run since the application last did something
  spawns, removals, restarts, presses

vars == <<arrange, mContainers, mTree, mGrid, mSeeded, mSeedAnchor, mSpawnCounter, mPendingRemove,
          mPendingSpawns, hand, down, changed, mOpened, file, strays, shown, framed, spawns,
          removals, restarts, presses>>

Grid == INSTANCE TileGrid WITH Nobody <- NoPanel

Slots == {"left", "right", "top", "bottom", "center"}
Spawned(n) == <<Type, n>>
SpawnIds == {Spawned(n) : n \in 1 .. 2 * MaxSpawns}
Declared == UNION {ToSet(l) : l \in Layouts}
Panels   == Declared \union SpawnIds
Ids      == Panels \union Stumps

\* What a file may hold: in the five-slot format no panel in two slots and none that
\* the "c" lines leave out, else any tree a stream of lines can spell; and no spawned
\* panel numbered past the spawns of one run.
SlotsAreSound(slots, names) ==
  /\ \A h \in Slots : IsInjective(slots[h]) /\ ToSet(slots[h]) \subseteq ToSet(names)
  /\ \A h, k \in Slots : h # k => ToSet(slots[h]) \intersect ToSet(slots[k]) = {}
TreeIsReadable(t) ==
  /\ t \in [root : Live(t), node : [Live(t) -> NodesOf(Ids)]]
  /\ IsFiniteSet(Live(t)) /\ Live(t) \subseteq Nat \ {0}
  /\ WellLinked(t) /\ ActiveInRange(t)
  /\ \E h \in [Live(t) -> 0 .. Cardinality(Live(t))] : RankedBy(t, h)
TilesAreOwn(grid) ==
  \A i, j \in 1 .. Len(grid) : grid[i].id = grid[j].id => i = j
FileIsSound(f) ==
  /\ f.names \in Seq(Panels) /\ f.count \in 0 .. MaxSpawns
  /\ \A n \in MaxSpawns + 1 .. 2 * MaxSpawns : Spawned(n) \notin ToSet(f.names)
  /\ f.grid \in Seq([id : Panels, col : Int, row : Int, cols : Int, rows : Int]) /\ TilesAreOwn(f.grid)
  /\ IF f.legacy THEN f.slots \in [Slots -> Seq(Panels)] /\ SlotsAreSound(f.slots, f.names)
                 ELSE f.reach # "nothing" => TreeIsReadable(f.tree)

ASSUME DockSpaceAssumption ==
  /\ MaxSpawns \in Nat /\ Columns \in Nat \ {0} /\ Rounds \in Nat
  /\ \A l \in Layouts : l \in Seq(Declared) /\ IsInjective(l)
  /\ NoPanel \notin Ids /\ Declared \intersect SpawnIds = {}
  /\ Hint \in [Declared -> Slots \union {"floating"}]
  /\ Size \in [Declared -> (Int \X Int)] /\ At \in [Declared -> (Int \X Int) \union {NoPanel}]
  /\ Cells \subseteq Int \X Int /\ Arrangements \subseteq {"panes", "tiles"}
  /\ \A a \in Arrangements : \A f \in OldFiles[a] \ {NoFile} : FileIsSound(f)

HintOf(c)   == IF c \in SpawnIds THEN "floating" ELSE Hint[c]
CanClose(c) == c \in SpawnIds \/ c \in Closable

\* mPressTab, mDragging, mResizingFloat, mResizeSplit, mTileDrag and mTileResize.
EmptyHand == [tab |-> NoPanel, drag |-> NoPanel, float |-> NoPanel, split |-> Null,
              tile |-> NoPanel, corner |-> NoPanel]
NoAnchor  == [s \in Slots |-> NoPanel]
Names(seq) == ToSet(seq)

\* What one walk reads and writes, so that its parts can be written one by one.
Space == [list |-> mContainers, tree |-> mTree, grid |-> mGrid, seeded |-> mSeeded,
          anchor |-> mSeedAnchor, doomed |-> mPendingRemove, queued |-> mPendingSpawns,
          hand |-> hand, changed |-> changed, busy |-> FALSE, serial |-> mSpawnCounter,
          drawn |-> {}]

\* structuralChange: a collapse can free the split being dragged.
StructuralChange(s) == [s EXCEPT !.changed = TRUE, !.hand.split = Null]

\* Mutant: a panel made between two frames does not ask for one.
AdoptQuietly(s, c) == [s EXCEPT !.list = Append(@, c), !.hand.split = Null]

Adopt(s, c) == [StructuralChange(s) EXCEPT !.list = Append(@, c)]

\* spawn: queued while anything is walking the tree, made at once otherwise.
Spawn(s, walking) ==
  IF walking THEN [s EXCEPT !.queued = @ + 1]
  ELSE [Adopt(s, Spawned(s.serial + 1)) EXCEPT !.serial = @ + 1]

\* The queue swapped out at the top of update and every entry asked for again --
\* under the guard Gui::begin walks with.
DrainSpawns(s) ==
  LET asked[i \in 0 .. s.queued] ==
        IF i = 0 THEN [s EXCEPT !.queued = 0] ELSE Spawn(asked[i - 1], TRUE)
  IN asked[s.queued]

\* seedTree, for the panels of one hint: shared as tabs with the panel that hint
\* seeded first, else the largest pane for the centre and an edge for the rest.
Big(t, panes, largest) == IF Empty(t) THEN t.root ELSE panes[1 + (largest % Len(panes))]
SeedAt(t, slot, c, largest) ==
  IF slot = "center" \/ Empty(t) THEN AddTab(t, Big(t, Gather(t), largest), c)
  ELSE SplitRoot(t, IF slot \in {"left", "top"} THEN "before" ELSE "after", c)

SeedWith(s, mate, slot, c, largest) ==
  IF mate # Null THEN [s EXCEPT !.tree = AddTab(@, mate, c)]
  ELSE [s EXCEPT !.tree = SeedAt(@, slot, c, largest), !.anchor[slot] = c]

Mate(s, slot) == IF s.anchor[slot] = NoPanel THEN Null ELSE LeafFor(s.tree, s.anchor[slot])

SeedPanel(s, slot, c, largest) ==
  SeedWith([StructuralChange(s) EXCEPT !.seeded = @ \union {c}], Mate(s, slot), slot, c, largest)

\* Mutant: whatever floats and has a slot to go to is docked again, every frame.
SeedOneAgain(s, slot, c, largest) ==
  IF HintOf(c) # slot \/ LeafFor(s.tree, c) # Null THEN s ELSE SeedPanel(s, slot, c, largest)

SeedOne(s, slot, c, largest) ==
  IF HintOf(c) # slot \/ c \in s.seeded THEN s ELSE SeedPanel(s, slot, c, largest)

SeedSlot(s, slot, largest) ==
  LET upTo[i \in 0 .. Len(s.list)] ==
        IF i = 0 THEN s ELSE SeedOne(upTo[i - 1], slot, s.list[i], largest)
  IN upTo[Len(s.list)]

SeedOrder == <<"center", "bottom", "top", "right", "left">>
SeedTree(s, largest) ==
  LET through[k \in 0 .. Len(SeedOrder)] ==
        IF k = 0 THEN s ELSE SeedSlot(through[k - 1], SeedOrder[k], largest)
  IN through[Len(SeedOrder)]

Unanchor(s, c) == [s EXCEPT !.anchor = [h \in Slots |-> IF @[h] = c THEN NoPanel ELSE @[h]]]

\* A splitter or a grip follows the pointer until the button is let go.
AdvanceGrips(s, in) ==
  IF in.released THEN [s EXCEPT !.hand.split = Null, !.hand.float = NoPanel] ELSE s

\* A pressed tab the pointer has carried off leaves its pane and floats.
Detach(s, in) ==
  LET c == s.hand.tab
      out == StructuralChange(Unanchor([s EXCEPT !.tree = Undock(@, c)], c))
  IN IF c = NoPanel THEN s
     ELSE IF in.released THEN [s EXCEPT !.hand.tab = NoPanel]
     ELSE IF ~in.far THEN s
     ELSE [out EXCEPT !.hand.tab = NoPanel, !.hand.drag = c]

\* The panel carried is let go of: over an edge of the space, over part of a pane
\* that holds something, or over nothing.
Drop(s, in) ==
  LET c == s.hand.drag
      t == s.tree
      where == in.drop
      u == [s EXCEPT !.hand.drag = NoPanel]
      pane == IF where.pane \in Live(t) /\ IsLeaf(t, where.pane) /\ t.node[where.pane].tabs # <<>>
              THEN where.pane ELSE Null
  IN IF c = NoPanel \/ ~in.released THEN s
     ELSE IF where.edge # "none"
     THEN StructuralChange([u EXCEPT !.tree = SplitRoot(t, where.edge, c)])
     ELSE IF pane # Null
     THEN StructuralChange([u EXCEPT !.tree = DropOnto(t, pane, where.zone, c)])
     ELSE u

Busy(h) == h.tab # NoPanel \/ h.drag # NoPanel \/ h.float # NoPanel \/ h.split # Null
           \/ h.tile # NoPanel \/ h.corner # NoPanel

\* A press on the chrome of a floating panel.
PressFloat(s, in) ==
  LET c == in.float.panel
  IN IF s.busy \/ ~in.pressed \/ c \notin Names(s.list) \/ LeafFor(s.tree, c) # Null THEN s
     ELSE IF in.float.part = "grip"  THEN [s EXCEPT !.hand.float = c, !.busy = TRUE]
     ELSE IF in.float.part = "close" /\ CanClose(c) THEN [s EXCEPT !.doomed = c, !.busy = TRUE]
     ELSE IF in.float.part = "title" THEN [s EXCEPT !.hand.drag = c, !.busy = TRUE]
     ELSE s

\* drawPane: a press on a tab shows it and may carry it off; one on the close
\* button closes the panel that shows.  A tab whose panel is not there is not drawn.
PressTab(s, n, i) ==
  LET c == s.tree.node[n].tabs[i]
  IN IF c \notin Names(s.list) THEN s
     ELSE [s EXCEPT !.tree.node[n].active = i - 1, !.hand.tab = c, !.busy = TRUE]
PressClose(s, n) ==
  LET c == ActiveTab(s.tree.node[n])
  IN IF c \notin Names(s.list) \/ ~CanClose(c) THEN s ELSE [s EXCEPT !.doomed = c, !.busy = TRUE]
PressPane(s, in) ==
  LET n == in.pane.at
  IN IF s.busy \/ ~in.pressed \/ ~IsLeaf(s.tree, n) THEN s
     ELSE IF in.pane.tab \in 1 .. Len(s.tree.node[n].tabs) THEN PressTab(s, n, in.pane.tab)
     ELSE PressClose(s, n)

PressSplitter(s, in) ==
  IF s.busy \/ ~in.pressed \/ ~IsSplit(s.tree, in.split) THEN s
  ELSE [s EXCEPT !.hand.split = in.split, !.busy = TRUE]

\* What a walk draws: in every pane its active tab, and every floating panel; or
\* every panel that has a tile.
InPanes(s) == {ActiveTab(s.tree.node[n]) : n \in Names(Gather(s.tree))} \intersect Names(s.list)
Floats(s)  == {c \in Names(s.list) : LeafFor(s.tree, c) = Null}
InTiles(s) == {c \in Names(s.list) : Grid!Find(s.grid, c) # 0}

\* A widget in a panel that is drawn may call back into the space.
Draw(s, in, panels) ==
  LET u == [s EXCEPT !.drawn = panels]
  IN IF in.calls.what = "spawn" /\ panels # {} THEN Spawn(u, TRUE)
     ELSE IF in.calls.what = "remove" /\ in.calls.panel \in Names(s.list) /\ panels # {}
     THEN [u EXCEPT !.doomed = in.calls.panel]
     ELSE u

Without(list, c) ==
  IF FirstAt(list, {c}) = 0 THEN list ELSE RemoveAt(list, FirstAt(list, {c}))

\* Mutant: a panel closes under the hand that holds it.
ApplyPendingRemovalsInHand(s) ==
  LET c == s.doomed
      u == Unanchor(StructuralChange([s EXCEPT !.doomed = NoPanel]), c)
  IN IF c = NoPanel THEN s
     ELSE [u EXCEPT !.grid = Grid!RemoveTile(@, c), !.tree = Undock(@, c), !.seeded = @ \ {c},
                    !.list = Without(@, c)]

\* The pointers that hold it let go of it.
LetGoOf(held, c) ==
  LET let(x) == IF x = c THEN NoPanel ELSE x
  IN [held EXCEPT !.drag = let(@), !.tab = let(@), !.float = let(@), !.tile = let(@), !.corner = let(@)]

\* applyPendingRemovals, the last thing a walk does.
ApplyPendingRemovals(s) ==
  LET c == s.doomed
      u == Unanchor(StructuralChange([s EXCEPT !.doomed = NoPanel]), c)
  IN IF c = NoPanel THEN s
     ELSE [u EXCEPT !.hand = LetGoOf(@, c),
                    !.grid = Grid!RemoveTile(@, c),
                    !.tree = Undock(@, c),
                    !.seeded = @ \ {c},
                    !.list = Without(@, c)]

\* update, arranged as panes.
PressPanes(s, in) ==
  PressSplitter(PressPane(PressFloat([s EXCEPT !.busy = Busy(s.hand)], in), in), in)
DrawPanes(s, in)  == Draw(s, in, InPanes(s) \union Floats(s))
UpdatePanes(s, in) ==
  LET placed == SeedTree(DrainSpawns(s), in.largest)
      held   == Drop(Detach(AdvanceGrips(placed, in), in), in)
  IN ApplyPendingRemovals(DrawPanes(PressPanes(held, in), in))

\* The tiles: every panel that has none is placed, then what the hand holds
\* follows the pointer's cell and settles when it is let go of.
PlaceTile(g, c) ==
  LET size == IF c \in SpawnIds THEN <<3, 3>> ELSE Size[c]
      at   == IF c \in SpawnIds THEN NoPanel ELSE At[c]
  IN IF Grid!Find(g, c) # 0 THEN g
     ELSE IF at = NoPanel THEN Grid!Place(g, c, size[1], size[2])
     ELSE Grid!PlaceAt(g, c, at[1], at[2], size[1], size[2])

PlaceAll(g, list) ==
  LET upTo[i \in 0 .. Len(list)] == IF i = 0 THEN g ELSE PlaceTile(upTo[i - 1], list[i])
  IN upTo[Len(list)]

PlaceTiles(s) ==
  IF \A c \in Names(s.list) : Grid!Find(s.grid, c) # 0 THEN s
  ELSE StructuralChange([s EXCEPT !.grid = PlaceAll(@, s.list)])

Settle(s, c, g) ==
  LET x == g[Grid!Find(g, c)]
  IN Grid!MoveTo(g, c, x.col, x.row, x.cols, x.rows, NoPanel)

DragTile(s, in) ==
  LET c == s.hand.tile
      x == s.grid[Grid!Find(s.grid, c)]
      g == Grid!MoveTo(s.grid, c, in.cell[1], in.cell[2], x.cols, x.rows, c)
  IN IF c = NoPanel THEN s
     ELSE IF Grid!Find(s.grid, c) = 0 THEN [s EXCEPT !.hand.tile = NoPanel]
     ELSE IF in.released
     THEN StructuralChange([s EXCEPT !.grid = Settle(s, c, g), !.hand.tile = NoPanel])
     ELSE [s EXCEPT !.grid = g]

ResizeTile(s, in) ==
  LET c == s.hand.corner
      x == s.grid[Grid!Find(s.grid, c)]
      g == Grid!MoveTo(s.grid, c, x.col, x.row, in.cell[1] - x.col, in.cell[2] - x.row, c)
  IN IF c = NoPanel THEN s
     ELSE IF Grid!Find(s.grid, c) = 0 THEN [s EXCEPT !.hand.corner = NoPanel]
     ELSE IF in.released
     THEN StructuralChange([s EXCEPT !.grid = Settle(s, c, g), !.hand.corner = NoPanel])
     ELSE [s EXCEPT !.grid = g]

PressTile(s, in) ==
  LET c == in.float.panel
  IN IF s.busy \/ ~in.pressed \/ c \notin Names(s.list) \/ Grid!Find(s.grid, c) = 0 THEN s
     ELSE IF in.float.part = "grip"  THEN [s EXCEPT !.hand.corner = c, !.busy = TRUE]
     ELSE IF in.float.part = "close" /\ CanClose(c) THEN [s EXCEPT !.doomed = c, !.busy = TRUE]
     ELSE IF in.float.part = "title" THEN [s EXCEPT !.hand.tile = c, !.busy = TRUE]
     ELSE s

PressTiles(s, in) == PressTile([s EXCEPT !.busy = Busy(s.hand)], in)
DrawTiles(s, in)  == Draw(s, in, InTiles(s))
UpdateTiles(s, in) ==
  LET moved == ResizeTile(DragTile(PlaceTiles(DrainSpawns(s)), in), in)
  IN ApplyPendingRemovals(DrawTiles(PressTiles(moved, in), in))

\* saveLayout: both arrangements, then a line for every panel.
Saved == [legacy |-> FALSE, slots |-> <<>>, tree |-> mTree, grid |-> mGrid,
          names |-> mContainers, count |-> 0, reach |-> "whole"]

\* The same text cut short.  Before the tree's last pane is begun there is no tree to
\* read; in that pane its tabs end early, the last one perhaps in mid-name; in the
\* tiles the last one's height may lose digits; and of a "c" line that ends before the
\* type, a declared panel's is as good as whole, a spawned one's moves the counter.
Digits(n) == {n \div d : d \in {1, 10, 100}}

CutPane(t, tabs) ==
  LET last == Last(Gather(t))
      kept == IF t.node[last].active < Len(tabs) THEN t.node[last].active ELSE 0
  IN [t EXCEPT !.node[last] = [@ EXCEPT !.tabs = tabs, !.active = kept]]
CutTabs(tabs) ==
  LET begun == {SubSeq(tabs, 1, k) : k \in 0 .. Len(tabs) - 1}
  IN begun \union {Append(some, stump) : some \in begun, stump \in Stumps}
CutTile(x) == {[x EXCEPT !.rows = r] : r \in Digits(x.rows) \ {0}}
CutGrids(grid) ==
  {<<>>} \union UNION {{Append(SubSeq(grid, 1, k - 1), x) : x \in CutTile(grid[k])} : k \in DOMAIN grid}
Lines(f, k) == [f EXCEPT !.reach = "tree", !.names = SubSeq(@, 1, k)]
LeftOf(c)   == IF c \in SpawnIds THEN {0} \union Digits(c[2]) ELSE {0}

CutAtOnce(f)  == {[f EXCEPT !.reach = "nothing", !.tree = FreshTree, !.grid = <<>>, !.names = <<>>]}
CutInTree(f)  ==
  {[Lines(f, 0) EXCEPT !.tree = CutPane(@, tabs), !.grid = <<>>] :
     tabs \in CutTabs(f.tree.node[Last(Gather(f.tree))].tabs)}
CutInTiles(f) == {[Lines(f, 0) EXCEPT !.grid = g] : g \in CutGrids(f.grid)}
CutInNames(f) ==
  UNION {{[Lines(f, k) EXCEPT !.count = n] : n \in LeftOf(f.names[k + 1])}
           \union {[Lines(f, k) EXCEPT !.names = Append(@, c)] : c \in Stumps \intersect Declared} :
         k \in 0 .. Len(f.names) - 1}
Cuts(f) == CutAtOnce(f) \union CutInTree(f) \union CutInTiles(f) \union CutInNames(f)

\* loadLayout: a spawned panel is made again and the counter kept ahead of it;
\* whatever the file places is not seeded; then the tree and the tiles.
Ahead(serial, n) == IF n > serial THEN n ELSE serial
Recreate(s, c) ==
  IF c \in Names(s.list) \/ c \notin SpawnIds THEN s
  ELSE [Adopt(s, c) EXCEPT !.serial = Ahead(@, c[2])]
MarkPlaced(s, c) == IF c \in Names(s.list) THEN [s EXCEPT !.seeded = @ \union {c}] ELSE s

ReadNames(s, names) ==
  LET upTo[i \in 0 .. Len(names)] ==
        IF i = 0 THEN s ELSE MarkPlaced(Recreate(upTo[i - 1], names[i]), names[i])
  IN upTo[Len(names)]

ReadTree(t, f) == IF f.legacy THEN LoadV1(f.slots) ELSE IF f.reach = "nothing" THEN t ELSE f.tree

LoadLayout(s, f) ==
  StructuralChange([ReadNames(s, f.names) EXCEPT !.serial = Ahead(@, f.count),
                                                 !.tree = ReadTree(@, f),
                                                 !.grid = Grid!LoadGrid(@, f.grid)])

\* What seedTree takes to be in one place and is not: in the tree though no "c" line
\* said so, or there twice.
Twice(t, c) == ~OnePlaceEach(t, Ids \ {c})
Astray(s)   == {c \in Docked(s.tree) : c \notin s.seeded \/ Twice(s.tree, c)}

Opened(s) == IF mOpened \/ file = NoFile THEN s ELSE LoadLayout(s, file)
-----------------------------------------------------------------------------
Start(layout) ==
  /\ mContainers' = layout /\ UNCHANGED arrange
  /\ mTree' = FreshTree /\ mGrid' = <<>>
  /\ mSeeded' = {} /\ mSeedAnchor' = NoAnchor /\ mSpawnCounter' = 0
  /\ mPendingRemove' = NoPanel /\ mPendingSpawns' = 0
  /\ hand' = EmptyHand /\ down' = FALSE /\ changed' = TRUE /\ mOpened' = FALSE
  /\ strays' = {} /\ shown' = {} /\ framed' = FALSE

Init ==
  /\ arrange \in Arrangements
  /\ mContainers \in Layouts /\ mTree = FreshTree /\ mGrid = <<>>
  /\ mSeeded = {} /\ mSeedAnchor = NoAnchor /\ mSpawnCounter = 0
  /\ mPendingRemove = NoPanel /\ mPendingSpawns = 0
  /\ hand = EmptyHand /\ down = FALSE /\ changed = TRUE /\ mOpened = FALSE
  /\ file \in OldFiles[arrange] /\ strays = {} /\ shown = {}
  /\ framed = FALSE /\ spawns = 0 /\ removals = 0 /\ restarts = 0 /\ presses = 0

\* What a frame finds: the button, what is under the pointer, and what a widget in
\* a panel that is drawn calls.
Nowhere == [part |-> "body", panel |-> NoPanel]
NoPane  == [at |-> Null, tab |-> 0]
NoDrop  == [edge |-> "none", pane |-> Null, zone |-> "center"]
NoCall  == [what |-> "nothing", panel |-> NoPanel]
Quiet   == [pressed |-> FALSE, released |-> FALSE, far |-> FALSE, largest |-> 0,
            float |-> Nowhere, pane |-> NoPane, split |-> Null, drop |-> NoDrop,
            cell |-> <<0, 0>>, calls |-> NoCall]

Placed == SeedTree(Opened(Space), Quiet.largest)
OnChrome ==
  {[Quiet EXCEPT !.pressed = TRUE, !.float = f] :
     f \in [part : {"title", "grip", "close"}, panel : Names(Placed.list)]}
\* A tab by its place in its pane; 0 stands for the pane's close button.
OnPanes ==
  {[Quiet EXCEPT !.pressed = TRUE, !.pane = p] :
     p \in UNION {[at : {n}, tab : 0 .. Len(Placed.tree.node[n].tabs)] : n \in Live(Placed.tree)}}
    \union {[Quiet EXCEPT !.pressed = TRUE, !.split = n] : n \in Splits(Placed.tree)}
Press == {[Quiet EXCEPT !.pressed = TRUE]} \union OnChrome
           \union (IF arrange = "panes" THEN OnPanes ELSE {})
\* Where the pointer is matters to what the hand holds.
Drops ==
  IF hand.drag = NoPanel THEN {NoDrop}
  ELSE {NoDrop} \union {[NoDrop EXCEPT !.edge = e] : e \in {"before", "after"}}
                \union {[NoDrop EXCEPT !.pane = n, !.zone = z] :
                          n \in Names(Gather(mTree)), z \in {"center", "before", "after"}}
Over == IF hand.tile = NoPanel /\ hand.corner = NoPanel THEN {Quiet.cell} ELSE Cells
Hold ==
  {[Quiet EXCEPT !.far = TRUE, !.cell = c] : c \in Over}
Calls == [what : {"remove"}, panel : Names(mContainers)]
           \union {[what |-> "spawn", panel |-> NoPanel]}
Dropping(d, c) == [Quiet EXCEPT !.released = TRUE, !.drop = d, !.cell = c]
Calling(w, c)  == [Quiet EXCEPT !.released = TRUE, !.calls = w, !.cell = c]
Release == {Dropping(d, c) : d \in Drops, c \in Over} \union {Calling(w, c) : w \in Calls, c \in Over}
Idle == {[Quiet EXCEPT !.largest = n] : n \in 0 .. 1}

\* Mutant: a close alone does not wake the interface.
CanReuseThroughClose == ~changed /\ mPendingSpawns = 0

\* canReuseRetained, as far as it looks at the dock space.
CanReuse == ~changed /\ mPendingRemove = NoPanel /\ mPendingSpawns = 0

More == spawns + removals + restarts + presses < MaxEvents

\* A frame that walks: the file on the first one, then update.
Walk(in) ==
  /\ spawns + (IF in.calls.what = "spawn" THEN 1 ELSE 0) <= MaxSpawns
  /\ removals + (IF in.calls.what = "remove" THEN 1 ELSE 0) <= MaxRemovals
  /\ in.calls.what # "nothing" => More
  /\ \E u \in {IF arrange = "panes" THEN UpdatePanes(Opened(Space), in)
                                     ELSE UpdateTiles(Opened(Space), in)} :
       /\ mContainers' = u.list /\ mTree' = u.tree /\ mGrid' = u.grid
       /\ mSeeded' = u.seeded /\ mSeedAnchor' = u.anchor /\ mSpawnCounter' = u.serial
       /\ mPendingRemove' = u.doomed /\ mPendingSpawns' = u.queued
       /\ hand' = u.hand /\ changed' = FALSE /\ mOpened' = TRUE /\ shown' = u.drawn
  /\ strays' = IF mOpened THEN strays ELSE Astray(Opened(Space))
  /\ spawns' = spawns + (IF in.calls.what = "spawn" THEN 1 ELSE 0)
  /\ removals' = removals + (IF in.calls.what = "remove" THEN 1 ELSE 0)
  /\ UNCHANGED <<arrange, file, restarts>>

FramePress ==
  /\ ~down /\ down' = TRUE
  /\ More /\ presses < MaxPresses /\ presses' = presses + 1
  /\ \E in \in Press : Walk(in)
FrameHold    == down /\ down' = TRUE /\ UNCHANGED presses /\ \E in \in Hold : Walk(in)
FrameRelease == down /\ down' = FALSE /\ UNCHANGED presses /\ \E in \in Release : Walk(in)
FrameIdle    == ~down /\ ~CanReuse /\ UNCHANGED <<down, presses>> /\ \E in \in Idle : Walk(in)
FrameReuse   == ~down /\ CanReuse /\ UNCHANGED <<arrange, mContainers, mTree, mGrid, mSeeded,
                  mSeedAnchor, mSpawnCounter, mPendingRemove, mPendingSpawns, hand, down, changed,
                  mOpened, file, strays, shown, spawns, removals, restarts, presses>>
Frame == /\ FramePress \/ FrameHold \/ FrameRelease \/ FrameIdle \/ FrameReuse
         /\ framed' = TRUE

\* The application, between two frames.
AppSpawn ==
  /\ More /\ spawns < MaxSpawns /\ spawns' = spawns + 1 /\ framed' = FALSE
  /\ LET s == Spawn(Space, FALSE)
     IN mContainers' = s.list /\ mSpawnCounter' = s.serial /\ hand' = s.hand /\ changed' = s.changed
  /\ UNCHANGED <<arrange, mTree, mGrid, mSeeded, mSeedAnchor, mPendingRemove, mPendingSpawns, down,
                 mOpened, file, strays, shown, removals, restarts, presses>>

AppRemove(c) ==
  /\ More /\ removals < MaxRemovals /\ removals' = removals + 1 /\ framed' = FALSE
  /\ c \in Names(mContainers)
  /\ mPendingRemove' = c
  /\ UNCHANGED <<arrange, mContainers, mTree, mGrid, mSeeded, mSeedAnchor, mSpawnCounter, mPendingSpawns,
                 hand, down, changed, mOpened, file, strays, shown, spawns, restarts, presses>>

\* The dock host goes and another is made: a reload of the layout or the end of the
\* program, which save, or a crash, which does not or which cuts the saving short.
Reload(layout) ==
  /\ More /\ restarts < MaxRestarts /\ restarts' = restarts + 1
  /\ Start(layout) /\ file' = Saved
  /\ UNCHANGED <<spawns, removals, presses>>

Crash(layout) ==
  /\ More /\ restarts < MaxRestarts /\ restarts' = restarts + 1
  /\ Start(layout)
  /\ file' \in {file} \union Cuts(Saved)
  /\ UNCHANGED <<spawns, removals, presses>>

Next ==
  \/ Frame
  \/ AppSpawn
  \/ \E c \in Panels : AppRemove(c)
  \/ \E l \in Layouts : Reload(l) \/ Crash(l)

Spec == Init /\ [][Next]_vars
\* The loop runs one frame after another as long as the program does, so one comes
\* after whatever the application did.
FairSpec == Spec /\ []<>framed
-----------------------------------------------------------------------------
TypeOK ==
  /\ Names(mContainers) \subseteq Panels
  /\ Live(mTree) \subseteq Nat \ {0} /\ Docked(mTree) \subseteq Ids /\ strays \subseteq Ids
  /\ \A i \in DOMAIN mGrid : mGrid[i].id \in Panels
  /\ mSeeded \subseteq Panels /\ mSeedAnchor \in [Slots -> Panels \union {NoPanel}]
  /\ mSpawnCounter \in 0 .. 2 * MaxSpawns /\ mPendingSpawns \in 0 .. MaxSpawns
  /\ mPendingRemove \in Panels \union {NoPanel}
  /\ down \in BOOLEAN /\ changed \in BOOLEAN /\ mOpened \in BOOLEAN
  /\ shown \subseteq Panels

\* The links of the tree agree, every panel in it is in one place, and the tab a
\* pane shows is one it has -- after any splits, collapses, drops, loads and closes.
TreeIsSound == SoundTree(mTree, strays)

\* Whatever the hand holds, and whatever waits to be closed, is still there: a press
\* on a tab, a drag, a grip and a splitter are pointers kept across frames in which
\* panels close and panes collapse.
NothingDangles ==
  /\ {hand.tab, hand.drag, hand.float, hand.tile, hand.corner, mPendingRemove}
       \subseteq Names(mContainers) \union {NoPanel}
  /\ hand.split # Null => IsSplit(mTree, hand.split)
  /\ hand.tab # NoPanel => hand.tab \in Docked(mTree)
  /\ IsInjective(mContainers)

\* A pane with nothing in it comes from a file -- the five-slot format has a centre
\* whether or not it holds anything -- and from nowhere else, and what the tree names
\* exists: no pane is left that shows nothing and that nothing can be dropped on.
NoPaneGoesBlank ==
  [][/\ Docked(mTree') \subseteq Names(mContainers') \union strays'
     /\ mOpened /\ mOpened' => BlankPanes(mTree') \subseteq BlankPanes(mTree)]_vars

\* Once a panel has been placed its place is the user's: it enters or leaves the tree
\* by its own drag, its own close, the file, or the one time its hint is acted on.
PlacementIsTheUsers ==
  [][\A c \in Names(mContainers) \intersect Names(mContainers') :
       (c \in Docked(mTree)) # (c \in Docked(mTree'))
         => \/ c = hand.tab /\ c = hand'.drag
            \/ c = hand.drag /\ ~down'
            \/ c \notin mSeeded /\ c \in mSeeded'
            \/ ~mOpened \/ ~mOpened']_vars

\* What a run left in the file is what the next one opens with: the same panels, the
\* spawned ones made again, and the same ones docked -- but for one closed on that
\* very frame.
SavedIsRestored ==
  [][mOpened' /\ ~mOpened /\ file # NoFile /\ ~file.legacy /\ file.reach = "whole"
       => LET lost == (Names(file.names) \ Names(mContainers')) \ (Declared \ Names(mContainers))
          IN /\ \A c \in Names(file.names) \intersect Names(mContainers') :
                  (c \in Docked(mTree')) = (c \in Docked(file.tree))
             /\ lost \subseteq {mPendingRemove} \/ (presses' > presses /\ Cardinality(lost) = 1)]_vars

\* Tiles never share a cell or leave the grid, and none but the one in the hand has
\* room above it.
TilesAreTight ==
  /\ Grid!Disjoint(mGrid) /\ Grid!Inside(mGrid)
  /\ Grid!NoHoles(mGrid, IF hand.tile # NoPanel THEN hand.tile ELSE hand.corner)

\* The panes are sound at every frame's end and nothing kept across frames points at
\* what is gone, whatever was pressed, dropped, closed, loaded or spawned in it
\* (DockTree.cpp, Docking.h:179-186).
PanesAreSound == TypeOK /\ TreeIsSound /\ NothingDangles

\* A tile moves sideways only under the hand: the one dragged, or the one resized,
\* which moveTo shifts left when its corner is pulled past the last column.
NeverSideways ==
  [][\A i \in DOMAIN mGrid, j \in DOMAIN mGrid' :
       mGrid[i].id = mGrid'[j].id /\ mGrid[i].col # mGrid'[j].col
         => mGrid[i].id \in {hand.tile, hand.corner}]_vars

\* The arrangement is the user's, in this run and the next: what stands where changes
\* by the hand, a close, the file or a hint's one use, and leaves no blank behind.
TheUsersArrangement ==
  NoPaneGoesBlank /\ PlacementIsTheUsers /\ SavedIsRestored /\ NeverSideways

\* While nothing is due to be drawn, every panel is on the screen, or behind the tab
\* of one that is -- but for what a close at the end of the last walk uncovered: the
\* revision a walk remembers is the one it leaves behind, its own closes included.
EveryPanelIsShown ==
  CanReuse /\ ~down /\ shown \subseteq Names(mContainers)
    => \A c \in Names(mContainers) :
         \/ c \in shown
         \/ arrange = "panes" /\ LeafFor(mTree, c) # Null
            /\ ActiveTab(mTree.node[LeafFor(mTree, c)]) \in shown \union strays

\* A panel asked to close goes.
ClosesHappen ==
  \A c \in Panels : mPendingRemove = c ~> c \notin Names(mContainers) \/ mPendingRemove # c

\* A panel a widget asked for is "created at the top of the next update".
SpawnsHappen == mPendingSpawns > 0 ~> mPendingSpawns = 0
=============================================================================
