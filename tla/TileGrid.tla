------------------------------ MODULE TileGrid ------------------------------
(***************************************************************************)
(* The other arrangement: panels as rectangles of whole cells in a column  *)
(* grid (GraphicalObjects/TileGrid.cpp).  A grid is the sequence mTiles;   *)
(* its order is the order a push walks in.                                 *)
(***************************************************************************)
EXTENDS Integers, FiniteSets, SequencesExt

CONSTANTS
  Columns,     \* how many cells a row has
  Rounds,      \* the 64 rounds after which a push gives up
  Nobody       \* the id no tile has: nothing is held

Lesser(a, b)  == IF a < b THEN a ELSE b
Greater(a, b) == IF a > b THEN a ELSE b
Clamp(x, low, high) == Lesser(Greater(x, low), high)

Tile(id, col, row, cols, rows) ==
  [id |-> id, col |-> col, row |-> row, cols |-> cols, rows |-> rows]

Overlaps(a, b) ==
  /\ a.col < b.col + b.cols /\ b.col < a.col + a.cols
  /\ a.row < b.row + b.rows /\ b.row < a.row + a.rows

\* find: the first tile of that id, 0 when there is none.
Find(g, id) == SelectInSeq(g, LAMBDA x : x.id = id)

CollidesWithAny(g, tile) == \E i \in DOMAIN g : g[i].id # tile.id /\ Overlaps(tile, g[i])

RowsUsed(g) ==
  LET used[i \in 0 .. Len(g)] == IF i = 0 THEN 0 ELSE Greater(used[i - 1], g[i].row + g[i].rows)
  IN used[Len(g)]

\* One tile of the front pushes what it overlaps below itself.
PushOne(u, i, above) ==
  IF u.grid[i].id = above.id \/ ~Overlaps(above, u.grid[i]) THEN u
  ELSE [grid |-> [u.grid EXCEPT ![i].row = above.row + above.rows],
        next |-> Append(u.next, u.grid[i].id)]
PushBelow(st, above) ==
  LET past[i \in 0 .. Len(st.grid)] == IF i = 0 THEN st ELSE PushOne(past[i - 1], i, above)
  IN past[Len(st.grid)]
Push(st, id) ==
  IF Find(st.grid, id) = 0 THEN st ELSE PushBelow(st, st.grid[Find(st.grid, id)])

\* pushOthers: the tile that moved, then those it pushed, round after round.
PushFront(st, front) ==
  LET pushed[j \in 0 .. Len(front)] == IF j = 0 THEN st ELSE Push(pushed[j - 1], front[j])
  IN pushed[Len(front)]
Round(was) ==
  IF was.next = <<>> THEN was ELSE PushFront([grid |-> was.grid, next |-> <<>>], was.next)
PushOthers(g, id) ==
  LET round[k \in 0 .. Rounds] ==
        IF k = 0 THEN [grid |-> g, next |-> <<id>>] ELSE Round(round[k - 1])
  IN round[Rounds].grid

\* How far up a tile slides before the first row it cannot pass.
Settled(g, i) ==
  LET rows == {r \in 0 .. g[i].row : \A q \in r .. g[i].row - 1 :
                                        ~CollidesWithAny(g, [g[i] EXCEPT !.row = q])}
  IN [g EXCEPT ![i].row = CHOOSE r \in rows : \A q \in rows : r <= q]

\* compact: every tile but `except` pulled up, in reading order.
Nth(g, k) ==
  LET above(i, j) == \/ g[i].row < g[j].row
                     \/ g[i].row = g[j].row /\ g[i].col < g[j].col
                     \/ g[i].row = g[j].row /\ g[i].col = g[j].col /\ i < j
  IN CHOOSE i \in DOMAIN g : Cardinality({j \in DOMAIN g : above(j, i)}) = k - 1
Pull(h, i, except) == IF h[i].id = except THEN h ELSE Settled(h, i)
Compact(g, except) ==
  LET pulled[k \in 0 .. Len(g)] == IF k = 0 THEN g ELSE Pull(pulled[k - 1], Nth(g, k), except)
  IN pulled[Len(g)]

\* moveTo: clamped into the columns rather than refused.
Fitted(x) ==
  LET w == Clamp(x.cols, 1, Columns)
  IN Tile(x.id, Clamp(x.col, 0, Columns - w), Greater(0, x.row), w, Greater(1, x.rows))
MoveTo(g, id, col, row, cols, rows, settling) ==
  LET at == Find(g, id)
  IN IF at = 0 THEN g
     ELSE Compact(PushOthers([g EXCEPT ![at] = Fitted(Tile(id, col, row, cols, rows))], id), settling)

\* place: the first cell it fits in, reading left to right and then down.
Place(g, id, cols, rows) ==
  LET w == Clamp(cols, 1, Columns)
      h == Greater(1, rows)
      cells == {c \in (0 .. Columns - w) \X (0 .. RowsUsed(g)) :
                  ~CollidesWithAny(g, Tile(id, c[1], c[2], w, h))}
      first == CHOOSE c \in cells : \A d \in cells : \/ c[2] < d[2]
                                                     \/ c[2] = d[2] /\ c[1] <= d[1]
  IN IF Find(g, id) # 0 THEN g ELSE Append(g, Tile(id, first[1], first[2], w, h))

\* placeAt: where it says, pushing whatever was there.  A tile the grid has not
\* seen arrives in the corner first.
PlaceAt(g, id, col, row, cols, rows) ==
  MoveTo(IF Find(g, id) # 0 THEN g ELSE Append(g, Tile(id, 0, 0, 3, 3)),
         id, col, row, cols, rows, Nobody)

Others(g, id) ==
  LET left[i \in 0 .. Len(g)] ==
        IF i = 0 THEN <<>>
        ELSE IF g[i].id = id THEN left[i - 1] ELSE Append(left[i - 1], g[i])
  IN left[Len(g)]

\* Mutant: the gap a closed tile leaves stays.
RemoveTileLoose(g, id) == Others(g, id)

RemoveTile(g, id) ==
  IF Len(Others(g, id)) = Len(g) THEN g ELSE Compact(Others(g, id), Nobody)

\* load: clamped into the columns, pushed apart in the order of the file, pulled up.
AllFitted(read) ==
  LET fitted[i \in 0 .. Len(read)] ==
        IF i = 0 THEN <<>> ELSE Append(fitted[i - 1], Fitted(read[i]))
  IN fitted[Len(read)]
PushAll(g) ==
  LET apart[i \in 0 .. Len(g)] == IF i = 0 THEN g ELSE PushOthers(apart[i - 1], g[i].id)
  IN apart[Len(g)]
LoadGrid(g, read) == IF read = <<>> THEN g ELSE Compact(PushAll(AllFitted(read)), Nobody)
-----------------------------------------------------------------------------
Disjoint(g) == \A i, j \in DOMAIN g : i # j => g[i].id # g[j].id /\ ~Overlaps(g[i], g[j])

Inside(g) == \A i \in DOMAIN g : /\ g[i].col >= 0 /\ g[i].row >= 0
                                 /\ g[i].cols >= 1 /\ g[i].rows >= 1
                                 /\ g[i].col + g[i].cols <= Columns

\* No tile but the held one has a free row right above it.
NoHoles(g, held) ==
  \A i \in DOMAIN g : \/ g[i].id = held \/ g[i].row = 0
                      \/ CollidesWithAny(g, [g[i] EXCEPT !.row = @ - 1])
=============================================================================
