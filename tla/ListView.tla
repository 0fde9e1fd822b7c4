------------------------------ MODULE ListView ------------------------------
(***************************************************************************)
(* A list over a table that may be far longer than the screen              *)
(* (Layout/ListView.cpp): a small pool of built rows is moved over the     *)
(* table as it scrolls, and a row is evaluated again when its slot comes   *)
(* to show another index, when the table's version has moved, or when a    *)
(* signal some row reads has changed.                                      *)
(*                                                                         *)
(* A row of the table is one value, which is both what the row shows and,  *)
(* for a list with a height column, how tall it is; a row nobody has       *)
(* written yet is Blank.  Lengths are in half rows.  The list is drawn     *)
(* where it is scrolled to (no easing), and the table and the signals      *)
(* change between paints.                                                  *)
(***************************************************************************)
EXTENDS Integers, FiniteSets, FiniteSetsExt

CONSTANTS
  MaxRows,     \* bound: rows of the table
  Heights,     \* what can be written to a row: its own height in half rows
  Pitch,       \* rowHeight + spacing, in half rows
  ViewHeight,  \* inner.h, in half rows
  PoolSize,    \* rows that were built
  Wheel,       \* how far one notch may scroll, either way
  MaxEdits     \* bound: changes of the table, the signal and revealRow

ASSUME ListViewAssumption ==
  /\ MaxRows \in Nat /\ MaxEdits \in Nat
  /\ Heights \subseteq Nat \ {0}
  /\ Pitch \in Nat \ {0} /\ ViewHeight \in Nat \ {0} /\ PoolSize \in Nat \ {0}
  /\ Wheel \subseteq Int

VARIABLES
  follow, varies,              \* the layout's follow, and whether rowHeights named a column
  table, tableMoved,           \* the rows, and whether version() # mSeenVersion
  signal, mRowsDirty,
  mRowTop,                     \* where each row began at the last paint
  mPool,                       \* by slot: the row it shows and what it was evaluated with
  offset, mWasAtEnd, mLastMaxOffset,
  revealRow, mRevealed,
  painted,                     \* the slots the last paint drew
  edits

vars == <<follow, varies, table, tableMoved, signal, mRowsDirty, mRowTop, mPool, offset, mWasAtEnd,
          mLastMaxOffset, revealRow, mRevealed, painted, edits>>

NoRow   == -1
Nothing == -1                  \* what revealRow asks for when it asks for nothing
Unbound == [showing |-> NoRow, cell |-> NoRow, signal |-> NoRow]
Slots   == 0 .. PoolSize - 1

Blank == 0
Cells == Heights \cup {Blank}

Rows         == Cardinality(DOMAIN table)
BlankRows(n) == [i \in 0 .. n - 1 |-> Blank]

(* heightOf, the running totals of rebuildTops, the content's height last, *)
(* and topOf, which where the rows are equal needs no totals.              *)
Height(i) == IF varies /\ i \in DOMAIN table /\ table[i] # Blank THEN table[i] ELSE Pitch
RunningTop[i \in 0 .. Rows] == IF i = 0 THEN 0 ELSE RunningTop[i - 1] + Height(i - 1)
Tops == IF varies THEN RunningTop ELSE [i \in 0 .. Rows |-> i * Pitch]

(* How far the list can scroll, for the totals `top`. *)
MaxOffset(top) ==
  LET content == top[Rows] IN IF content > ViewHeight THEN content - ViewHeight ELSE 0

Init ==
  /\ follow \in BOOLEAN /\ varies \in BOOLEAN
  /\ table \in {BlankRows(n) : n \in 0 .. MaxRows} /\ tableMoved = TRUE
  /\ signal = 0 /\ mRowsDirty = FALSE
  /\ mRowTop = [i \in {0} |-> 0] /\ mPool = [s \in Slots |-> Unbound]
  /\ offset = 0 /\ mWasAtEnd = TRUE /\ mLastMaxOffset = 0
  /\ revealRow = Nothing /\ mRevealed = Nothing
  /\ painted = {}
  /\ edits = 0

-----------------------------------------------------------------------------
(* Between paints                                                          *)

Editing == edits < MaxEdits /\ edits' = edits + 1
Kept    == <<follow, varies, mRowTop, mPool, offset, mWasAtEnd, mLastMaxOffset, mRevealed>>

(* Table::setNumber: an unchanged write notifies nobody. *)
SetCell(i, v) ==
  /\ Editing /\ i \in DOMAIN table /\ table[i] # v
  /\ table' = [table EXCEPT ![i] = v] /\ tableMoved' = TRUE /\ painted' = {}
  /\ UNCHANGED <<Kept, signal, mRowsDirty, revealRow>>

(* Table::resize. *)
Resize(n) ==
  /\ Editing /\ n # Rows
  /\ table' = [i \in 0 .. n - 1 |-> IF i \in DOMAIN table THEN table[i] ELSE Blank]
  /\ tableMoved' = TRUE /\ painted' = {}
  /\ UNCHANGED <<Kept, signal, mRowsDirty, revealRow>>

(* A signal the rows read is written, and applyDirty calls invalidateRows. *)
WriteSignal ==
  /\ Editing /\ signal' = 1 - signal /\ mRowsDirty' = TRUE /\ painted' = {}
  /\ UNCHANGED <<Kept, table, tableMoved, revealRow>>

(* A binding writes revealRow. *)
Reveal(r) ==
  /\ Editing /\ r # revealRow /\ revealRow' = r
  /\ UNCHANGED <<Kept, table, tableMoved, signal, mRowsDirty, painted>>

-----------------------------------------------------------------------------
(* ListView::paint.  `top` is mRowTop as this paint has just rebuilt it.   *)

(* The wheel and the thumb, which only a list with somewhere to go reads. *)
Scrolled(top, how) ==
  LET most == MaxOffset(top) IN
  IF most = 0 \/ how = "none" THEN {offset}
  ELSE IF how = "wheel" THEN {offset + d : d \in Wheel}
  ELSE 0 .. most

(* revealRow, nudged into view once for each request (Nudged). *)
Asked  == revealRow >= 0 /\ revealRow # mRevealed /\ Rows > 0
Wanted == IF revealRow < Rows THEN revealRow ELSE Rows - 1

(* Mutant: only the top of the row is brought into view. *)
NudgedByTop(top, o) ==
  IF ~Asked THEN o
  ELSE IF top[Wanted] < o THEN top[Wanted]
  ELSE IF top[Wanted] > o + ViewHeight THEN top[Wanted] - ViewHeight
  ELSE o

Nudged(top, o) ==
  LET bottom == top[Wanted] + Height(Wanted) IN
  IF ~Asked THEN o
  ELSE IF top[Wanted] < o THEN top[Wanted]
  ELSE IF bottom > o + ViewHeight THEN bottom - ViewHeight
  ELSE o

Honoured == IF Asked THEN revealRow ELSE IF revealRow < 0 THEN Nothing ELSE mRevealed

Grew(top) == MaxOffset(top) > mLastMaxOffset

(* Mutant: the list follows whether or not the reader was at its end. *)
FollowedAlways(top, o, how) ==
  IF follow /\ Grew(top) /\ how # "drag" THEN MaxOffset(top) ELSE o

(* follow, which a thumb in the hand overrides, and then the clamp. *)
Followed(top, o, how) ==
  IF follow /\ Grew(top) /\ mWasAtEnd /\ how # "drag" THEN MaxOffset(top) ELSE o

Clamped(top, o) ==
  IF o < 0 THEN 0 ELSE IF o > MaxOffset(top) THEN MaxOffset(top) ELSE o

(* The first row in view and how many the view is over, at an offset. *)
First(top, o) ==
  IF varies THEN LET over == {i \in DOMAIN table : top[i] <= o} IN
                 IF over = {} THEN 0 ELSE Max(over)
            ELSE o \div Pitch

RowsOver(top, o) == {i \in DOMAIN table : i >= First(top, o) /\ top[i] < o + ViewHeight}

Fits(top, o) ==
  IF varies THEN Cardinality(RowsOver(top, o))
            ELSE (ViewHeight + Pitch - 1) \div Pitch + 1

(* The slots that are drawn: those past the end of the table are not visited. *)
Drawn(top, o) ==
  LET first == First(top, o)  wanted == Fits(top, o) IN
  {s \in Slots : s < wanted /\ first + s \in DOMAIN table}

Bound(i) == [showing |-> i, cell |-> table[i], signal |-> signal]

(* Mutant: the table's version is not looked at. *)
ReboundByIndex(first, drawn) ==
  [s \in Slots |->
     IF s \in drawn /\ (mPool[s].showing # first + s \/ mRowsDirty)
       THEN Bound(first + s) ELSE mPool[s]]

Rebound(first, drawn) ==
  [s \in Slots |->
     IF s \in drawn /\ (mPool[s].showing # first + s \/ tableMoved \/ mRowsDirty)
       THEN Bound(first + s) ELSE mPool[s]]

(* The pool has a row for every row of the least height that fits, and one *)
(* for the edges, so paint never warns that poolSize should be raised.     *)
PoolIsEnough ==
  \E h \in 1 .. Pitch : /\ \A k \in Heights : h <= k
                       /\ (ViewHeight + h - 1) \div h + 1 <= PoolSize

Paint(how) ==
  /\ mRowTop' = Tops
  /\ \E o \in Scrolled(mRowTop', how) :
       offset' = Clamped(mRowTop', Followed(mRowTop', Nudged(mRowTop', o), how))
  /\ mLastMaxOffset' = MaxOffset(mRowTop')
  /\ mWasAtEnd' = (2 * offset' >= 2 * mLastMaxOffset' - Pitch)
  /\ mRevealed' = Honoured
  /\ painted' = Drawn(mRowTop', offset')
  /\ mPool' = Rebound(First(mRowTop', offset'), painted')
  /\ tableMoved' = FALSE /\ mRowsDirty' = FALSE
  /\ UNCHANGED <<follow, varies, table, signal, revealRow, edits>>

Next ==
  \/ \E i \in 0 .. MaxRows - 1, v \in Heights : SetCell(i, v)
  \/ \E n \in 0 .. MaxRows : Resize(n)
  \/ WriteSignal
  \/ \E r \in Nothing .. MaxRows : Reveal(r)
  \/ \E how \in {"none", "wheel", "drag"} : Paint(how)

Spec == Init /\ [][Next]_vars

-----------------------------------------------------------------------------
(* Properties                                                              *)

(* Every variable keeps its type; the list is never scrolled past its end. *)
TypeOK ==
  /\ follow \in BOOLEAN /\ varies \in BOOLEAN
  /\ \E n \in 0 .. MaxRows : table \in [0 .. n - 1 -> Cells]
  /\ tableMoved \in BOOLEAN /\ mRowsDirty \in BOOLEAN /\ mWasAtEnd \in BOOLEAN
  /\ signal \in {0, 1}
  /\ \A s \in Slots : mPool[s] = Unbound \/ mPool[s].showing \in 0 .. MaxRows - 1
  /\ offset \in 0 .. mLastMaxOffset
  /\ revealRow \in Nothing .. MaxRows /\ mRevealed \in Nothing .. MaxRows
  /\ painted \subseteq Slots /\ edits \in 0 .. MaxEdits

InView(i) == mRowTop[i] + Height(i) > offset /\ mRowTop[i] < offset + ViewHeight

(* After a paint every row the viewport is over is drawn, in one slot: the *)
(* arithmetic that picks the first row and how many follow leaves no hole  *)
(* at either edge, at the end of the table or over rows of any height.     *)
NoHoles ==
  painted # {} =>
    /\ \A i \in DOMAIN table : InView(i) => \E s \in painted : mPool[s].showing = i
    /\ \A s, t \in painted : mPool[s].showing = mPool[t].showing => s = t

(* What a drawn row shows is what the table and the signals hold now. *)
Current(s) ==
  /\ mPool[s].showing \in DOMAIN table
  /\ mPool[s].cell = table[mPool[s].showing] /\ mPool[s].signal = signal
ShownIsCurrent == \A s \in painted : Current(s)

(* In a list of equal rows only the last slot the view needs can be left   *)
(* showing something old: every other slot is drawn by the paint that uses *)
(* up a change.                                                            *)
OnlyTheLastSlotGoesStale ==
  ~varies => \A s \in painted : s < Fits(mRowTop, offset) - 1 => Current(s)

(* What is drawn is the table's: no hole, no row drawn twice, and nothing  *)
(* old above the last slot (ListView::update and its paint).               *)
RowsAreTheTables == TypeOK /\ NoHoles /\ OnlyTheLastSlotGoesStale

(* A row asked for is wholly on screen once the request is marked as       *)
(* honoured, unless the list was following and its content had just grown. *)
Honours == mRevealed' # mRevealed /\ mRevealed' # Nothing
RevealedIsInView ==
  [][Honours /\ Height(Wanted) <= ViewHeight /\ ~(follow /\ mWasAtEnd /\ Grew(mRowTop'))
     => /\ mRowTop'[Wanted] >= offset'
        /\ mRowTop'[Wanted] + Height(Wanted) <= offset' + ViewHeight]_vars

(* Following is a mood of the reader: while they neither scroll nor are    *)
(* sent to a row, one who was at the end is still there after any change   *)
(* of the content, and one who had scrolled away is left where they were.  *)
FollowIsAMood ==
  [][Paint("none") /\ ~Asked =>
       IF follow /\ mWasAtEnd THEN mWasAtEnd' ELSE offset' = Clamped(mRowTop', offset)]_vars
=============================================================================
