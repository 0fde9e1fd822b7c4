------------------------------ MODULE DockTree ------------------------------
(***************************************************************************)
(* The arrangement of docked panels as a tree of splits:                   *)
(* GraphicalObjects/DockTree.cpp.                                          *)
(*                                                                         *)
(* A tree is a record: the root's address and the nodes by their address,  *)
(* linked both ways as the code links them.  A pane keeps its address when *)
(* a neighbour collapses and loses it when it is split, so a pointer the   *)
(* caller kept can be checked.  Rectangles and ratios are left out; a drop *)
(* on the left or the top puts the newcomer "before", on the right or the  *)
(* bottom "after".                                                         *)
(***************************************************************************)
EXTENDS Integers, FiniteSets, SequencesExt

CONSTANT NoPanel

Null == 0

Leaf(tabs, active) == [kind |-> "leaf", parent |-> Null, tabs |-> tabs, active |-> active,
                       first |-> Null, second |-> Null]
SplitNode(parent, first, second) ==
  [kind |-> "split", parent |-> parent, tabs |-> <<>>, active |-> 0,
   first |-> first, second |-> second]

\* A node of a tree over some panels.
NodesOf(panels) == [kind : {"leaf", "split"}, parent : Nat, tabs : Seq(panels), active : Nat,
                    first : Nat, second : Nat]

Tree(root, node) == [root |-> root, node |-> node]
Live(t)    == DOMAIN t.node
IsLeaf(t, n) == n \in Live(t) /\ t.node[n].kind = "leaf"
IsSplit(t, n) == n \in Live(t) /\ t.node[n].kind = "split"

\* The allocator: a low address nothing lives at, so one that was freed is soon
\* another node's.
Free(S)   == CHOOSE n \in 1 .. Cardinality(S) + 1 : n \notin S
New(t)    == Free(Live(t))
New2(t)   == Free(Live(t) \union {New(t)})
OneLeaf(tabs) == Tree(Free({}), [n \in {Free({})} |-> Leaf(tabs, 0)])
FreshTree == OneLeaf(<<>>)

\* Where the first element of a set stands in a sequence, 0 when none does.
FirstAt(seq, S) == SelectInSeq(seq, LAMBDA x : x \in S)

\* collectLeaves: the panes, a split's first side before its second.
Gather(t) ==
  LET g[n \in Live(t)] == IF t.node[n].kind = "leaf" THEN <<n>>
                          ELSE g[t.node[n].first] \o g[t.node[n].second]
  IN g[t.root]
Splits(t) == {n \in Live(t) : t.node[n].kind = "split"}
Docked(t) == UNION {ToSet(t.node[n].tabs) : n \in Live(t)}
Empty(t)  == Docked(t) = {}

\* The first pane of a set, Null when no pane is in it.
FirstIn(panes, S) == IF FirstAt(panes, S) = 0 THEN Null ELSE panes[FirstAt(panes, S)]

LeafFor(t, id) == FirstIn(Gather(t), {n \in Live(t) : Contains(t.node[n].tabs, id)})

\* indexOf, counted from 0 as the code does; -1 when it is not there.
IndexOf(leaf, id) == FirstAt(leaf.tabs, {id}) - 1

\* The tab drawn: an index out of range is read as the first.
ActiveTab(leaf) ==
  IF leaf.tabs = <<>> THEN NoPanel
  ELSE leaf.tabs[IF leaf.active \in 0 .. Len(leaf.tabs) - 1 THEN leaf.active + 1 ELSE 1]

DetachFrom(leaf, id) ==
  LET i    == IndexOf(leaf, id)
      rest == RemoveAt(leaf.tabs, i + 1)
      slid == IF leaf.active > i THEN leaf.active - 1 ELSE leaf.active
      kept == IF slid >= Len(rest) THEN Len(rest) - 1 ELSE slid
  IN IF i < 0 THEN leaf
     ELSE [leaf EXCEPT !.tabs = rest, !.active = IF kept < 0 THEN 0 ELSE kept]

AddTab(t, n, id) ==
  LET leaf == t.node[n]
      i    == IndexOf(leaf, id)
      with == IF i >= 0 THEN [leaf EXCEPT !.active = i]
              ELSE [leaf EXCEPT !.tabs = Append(@, id), !.active = Len(leaf.tabs)]
  IN IF IsLeaf(t, n) THEN [t EXCEPT !.node[n] = with] ELSE t

\* split: the pane becomes the split where it stands and its contents move to a
\* new pane beside the newcomer's.
SplitAt(t, n, k, f, side, id) ==
  LET kept  == [t.node[n] EXCEPT !.parent = n]
      fresh == [Leaf(<<id>>, 0) EXCEPT !.parent = n]
      node  == [t.node[n] EXCEPT !.kind = "split", !.tabs = <<>>, !.active = 0,
                                 !.first  = IF side = "before" THEN f ELSE k,
                                 !.second = IF side = "before" THEN k ELSE f]
  IN Tree(t.root, [m \in Live(t) \union {k, f} |->
                     IF m = k THEN kept ELSE IF m = f THEN fresh
                     ELSE IF m = n THEN node ELSE t.node[m]])

Split(t, n, side, id) ==
  IF ~IsLeaf(t, n) THEN t
  ELSE IF side = "center" \/ t.node[n].tabs = <<>> THEN AddTab(t, n, id)
  ELSE SplitAt(t, n, New(t), New2(t), side, id)

\* collapseInto: the sibling takes the split's slot; the split and the emptied
\* pane are freed, and everything under the sibling stays where it was.
CollapseInto(t, split, gone, keep) ==
  LET grand == t.node[split].parent
      rest  == [n \in Live(t) \ {split, gone} |-> t.node[n]]
      up    == [rest EXCEPT ![keep].parent = grand]
  IN IF grand = Null THEN Tree(keep, up)
     ELSE IF t.node[grand].first = split THEN Tree(t.root, [up EXCEPT ![grand].first = keep])
     ELSE Tree(t.root, [up EXCEPT ![grand].second = keep])

\* undock: the pane that held it, and what is left of that pane.
Lifted(t, n, leaf) ==
  LET parent == t.node[n].parent
      keep   == IF t.node[parent].first = n THEN t.node[parent].second
                                            ELSE t.node[parent].first
  IN IF leaf.tabs # <<>> \/ parent = Null THEN [t EXCEPT !.node[n] = leaf]
     ELSE CollapseInto(t, parent, n, keep)

UndockFrom(t, n, id) == IF n = Null THEN t ELSE Lifted(t, n, DetachFrom(t.node[n], id))
Undock(t, id) == UndockFrom(t, LeafFor(t, id), id)

Activate(t, id) ==
  LET n == LeafFor(t, id)
  IN IF n = Null THEN t ELSE [t EXCEPT !.node[n].active = IndexOf(t.node[n], id)]

\* dockFirst: never a second copy; an empty pane before the first one.
DockFirst(t, id) ==
  LET blank == FirstIn(Gather(t), {n \in Live(t) : t.node[n].tabs = <<>>})
  IN IF LeafFor(t, id) # Null THEN Activate(t, id)
     ELSE AddTab(t, IF blank # Null THEN blank ELSE Head(Gather(t)), id)

\* The whole tree becomes one side of a new split at r, a new pane at f the other.
Wrapped(t, r, f, side, tabs) ==
  LET top   == IF side = "before" THEN SplitNode(Null, f, t.root) ELSE SplitNode(Null, t.root, f)
      fresh == [Leaf(tabs, 0) EXCEPT !.parent = r]
  IN Tree(r, [m \in Live(t) \union {r, f} |->
                IF m = r THEN top ELSE IF m = f THEN fresh
                ELSE IF m = t.root THEN [t.node[m] EXCEPT !.parent = r] ELSE t.node[m]])
Wrap(t, side, tabs) == Wrapped(t, New(t), New2(t), side, tabs)

\* splitRoot, once the panel has left the pane it was in.
BesideAll(u, side, id) == IF Empty(u) THEN DockFirst(u, id) ELSE Wrap(u, side, <<id>>)
SplitRoot(t, side, id) == BesideAll(Undock(t, id), side, id)

\* dropOnto: the pane under the pointer, and the part of it the drop landed on.
DropHome(t, n, where, id) ==
  IF where = "center" THEN Activate(t, id)
  ELSE IF Len(t.node[n].tabs) <= 1 THEN t
  ELSE Split([t EXCEPT !.node[n] = DetachFrom(@, id)], n, where, id)

\* With no side it is added to the tabs, which is what split does for the centre.
DropOnto(t, n, where, id) ==
  IF ~IsLeaf(t, n) THEN DockFirst(t, id)
  ELSE IF LeafFor(t, id) = n THEN DropHome(t, n, where, id)
  ELSE Split(Undock(t, id), n, where, id)

\* loadV1: five slots wrapped from the inside out, a slot nothing was in left out
\* -- except the centre, which is a pane whether or not it holds anything.
WrapSlot(t, side, tabs) == IF tabs = <<>> THEN t ELSE Wrap(t, side, tabs)
LoadV1(slots) ==
  LET above  == WrapSlot(OneLeaf(slots["center"]), "after", slots["bottom"])
      below  == WrapSlot(above, "before", slots["top"])
      beside == WrapSlot(below, "after", slots["right"])
  IN WrapSlot(beside, "before", slots["left"])
-----------------------------------------------------------------------------
(* What the links must agree on: one root, every other node the child of   *)
(* the parent it names, both sides of a split different nodes that name it *)
(* back, and every pane reached from the root.                             *)
WellLinked(t) ==
  /\ t.root \in Live(t) /\ t.node[t.root].parent = Null
  /\ \A n \in Live(t) \ {t.root} : /\ IsSplit(t, t.node[n].parent)
                                   /\ n \in {t.node[t.node[n].parent].first,
                                             t.node[t.node[n].parent].second}
  /\ \A n \in Splits(t) : /\ t.node[n].first # t.node[n].second
                          /\ \A c \in {t.node[n].first, t.node[n].second} :
                               c \in Live(t) /\ t.node[c].parent = n
                          /\ t.node[n].tabs = <<>>
  /\ ToSet(Gather(t)) = Live(t) \ Splits(t)

\* But for some, every panel has one tab in one pane.
Once(tabs, but) == \A i, j \in 1 .. Len(tabs) : tabs[i] = tabs[j] => i = j \/ tabs[i] \in but
OnePlaceEach(t, but) ==
  /\ \A n \in Live(t) : Once(t.node[n].tabs, but)
  /\ \A n, m \in Live(t) :
       n # m => ToSet(t.node[n].tabs) \intersect ToSet(t.node[m].tabs) \subseteq but

ActiveInRange(t) ==
  \A n \in Live(t) : t.node[n].active \in 0 .. (IF t.node[n].tabs = <<>> THEN 0
                                                ELSE Len(t.node[n].tabs) - 1)

SoundTree(t, but) == WellLinked(t) /\ OnePlaceEach(t, but) /\ ActiveInRange(t)

\* A number for every node that falls from a split to its sides: no node is below
\* itself.
RankedBy(t, h) ==
  \A n \in Splits(t) : h[t.node[n].first] < h[n] /\ h[t.node[n].second] < h[n]

BlankPanes(t) == {n \in Live(t) \ {t.root} : IsLeaf(t, n) /\ t.node[n].tabs = <<>>}
=============================================================================
