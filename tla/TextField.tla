------------------------------ MODULE TextField -----------------------------
(* One text field: Gui::textField with the state Gui keeps for it, the      *)
(* input a frame gathers, and the application that owns the text and may    *)
(* replace it between two frames.                                           *)
(*                                                                          *)
(* The field is one record.  A frame is the whole of textField: the press,  *)
(* the drag, undo, copy, the typed text, every edit key in turn, cut, paste *)
(* and the settling of the caret at the end, then what Gui::end does with   *)
(* the focus.  An index outside the text is undefined behaviour: it raises  *)
(* fault and the field is not followed any further.                         *)
EXTENDS TextEdit

CONSTANTS
  Styles,        \* [multiline, code, readOnly, submit]: what a field may be
  Gestures,      \* [events, shift, ctrl, alt]: what one frame may bring
  Texts,         \* what the application may write
  Offers,        \* the completions it may offer
  Clip,          \* what another program left on the clipboard
  kUndoSteps, kUndoBytes,
  kIndent,       \* the spaces Tab puts in, 4 in the code
  MaxLength, MaxSteps, MaxWrites   \* bounds of the model

VARIABLES
  style, field,
  offer,         \* mSuggestion
  held, clicks,  \* the button and gClickHistory
  shown,         \* the caret is in the geometry of the last walk
  wrote,         \* the application wrote since the last paint
  rough,         \* something that may cut a character has happened
  frames, writes

vars == <<style, field, offer, held, clicks, shown, wrote, rough, frames, writes>>

Least(a, b) == IF a < b THEN a ELSE b
Most(a, b) == IF a < b THEN b ELSE a

\* A field that Tab has just given the keyboard.
NewField(text) ==
    [text |-> text, caret |-> 0, anchor |-> -1,
     box |-> FALSE, boxLine |-> 1, boxCol |-> 0, grain |-> 1,
     undo |-> <<>>, redo |-> <<>>, kind |-> "none", aged |-> FALSE,
     lines |-> <<0>>, lexed |-> <<>>, fresh |-> FALSE,
     active |-> FALSE, focus |-> "field", clip |-> Clip, fault |-> FALSE,
     changed |-> FALSE, claimed |-> FALSE, kept |-> FALSE,
     submitted |-> FALSE, accepted |-> FALSE, dismissed |-> FALSE,
     origin |-> text, lost |-> FALSE]

-----------------------------------------------------------------------------
(* What a frame gathers from the events since the last one.  The keyboard's *)
(* modifiers are polled, and so are the edges of the button: a press and a  *)
(* release between two frames leave no trace.                               *)

Of(events, kind) == SelectSeq(events, LAMBDA e : e.kind = kind)

Gather(g, near, late) ==
    LET buttons == Of(g.events, "button")
        chars   == Of(g.events, "char")
        down    == IF buttons = <<>> THEN held ELSE Last(buttons).down
        keys    == Of(g.events, "key")
        Chord(k) == g.ctrl /\ \E i \in DOMAIN keys : keys[i].key = k
        pressed == down /\ ~held
    IN  [typed |-> IF chars = <<>> THEN <<>> ELSE chars[1].text,
         keys  |-> SelectSeq([i \in DOMAIN keys |-> keys[i].key],
                             LAMBDA k : k \notin {"A", "C", "V", "X", "Y", "Z"}),
         shift |-> g.shift, ctrl |-> g.ctrl, alt |-> g.alt,
         down |-> down, pressed |-> pressed, released |-> ~down /\ held,
         count |-> IF ~pressed THEN clicks
                   ELSE IF ~near \/ clicks >= 3 THEN 1 ELSE clicks + 1,
         all |-> Chord("A"), copy |-> Chord("C"), cut |-> Chord("X"), paste |-> Chord("V"),
         undo |-> Chord("Z") /\ ~g.shift, redo |-> Chord("Y") \/ (Chord("Z") /\ g.shift),
         late |-> late]

-----------------------------------------------------------------------------
(* The parts of a frame.                                                    *)

Reindexed(f) == [f EXCEPT !.lines = LineStarts(f.text)]

Fault(f) == [f EXCEPT !.fault = TRUE]

HasLinear(f) == ~f.box /\ f.anchor >= 0 /\ f.anchor # f.caret

Insert(f, w) ==
    IF f.caret > Len(f.text) THEN Fault(f)
    ELSE [f EXCEPT !.text = SubSeq(@, 1, f.caret) \o w \o SubSeq(@, f.caret + 1, Len(@)),
                   !.caret = @ + Len(w), !.changed = @ \/ w # <<>>]

Erase(f, a, b) ==
    IF b > Len(f.text) THEN Fault(f)
    ELSE [f EXCEPT !.text = SubSeq(@, 1, a) \o SubSeq(@, b + 1, Len(@)), !.caret = a]

\* The rectangle from the box's corner to the caret: its lines and its columns.
Box(f) == LET line == LineOf(f.lines, f.caret)
              col  == f.caret - f.lines[line]
          IN  [lo |-> Least(f.boxLine, line), hi |-> Most(f.boxLine, line),
               a |-> Least(f.boxCol, col), b |-> Most(f.boxCol, col)]

\* The bytes of a line the rectangle covers, as places of the text.
BoxSpan(f, box, line) ==
    LET len == LineLength(f.lines, f.text, line)
    IN  [from |-> f.lines[line] + Least(box.a, len), to |-> f.lines[line] + Least(box.b, len)]

\* Lands the caret at the rectangle's left edge on its first line.
AtBox(f, box) ==
    LET line == Least(box.lo, Len(f.lines))
    IN  [f EXCEPT !.caret = BoxSpan(f, box, line).from]

DeleteSelection(f) ==
    IF f.box
    THEN LET box   == Box(f)
             plain == [f EXCEPT !.box = FALSE, !.anchor = -1]
             gone  == UNION {BoxSpan(f, box, l).from .. BoxSpan(f, box, l).to - 1 : l \in box.lo .. box.hi}
             kept  == SelectSeq([i \in 1 .. Len(f.text) |-> i], LAMBDA i : i - 1 \notin gone)
         IN  IF (IF box.a = box.b THEN box.lo ELSE box.hi) > Len(f.lines) THEN Fault(plain)
             ELSE IF box.a = box.b THEN AtBox(plain, box)
             ELSE AtBox(Reindexed([plain EXCEPT !.text = [i \in DOMAIN kept |-> f.text[kept[i]]]]), box)
    ELSE LET plain == [f EXCEPT !.anchor = -1]
         IN  IF HasLinear(f)
             THEN Reindexed(Erase(plain, Least(f.anchor, f.caret), Most(f.anchor, f.caret)))
             ELSE plain

\* The selection as text, and whether reading it left the text.
SelectionText(f) ==
    IF f.box
    THEN LET box == Box(f)
             Row(l) == SubSeq(f.text, BoxSpan(f, box, l).from + 1, BoxSpan(f, box, l).to)
         IN  IF box.hi > Len(f.lines) THEN [text |-> <<>>, bad |-> TRUE]
             ELSE [text |-> FoldLeft(LAMBDA out, l : out \o <<"n">> \o Row(l), Row(box.lo),
                                     [i \in 1 .. box.hi - box.lo |-> box.lo + i]),
                   bad |-> FALSE]
    ELSE IF ~HasLinear(f) THEN [text |-> <<>>, bad |-> FALSE]
    ELSE LET a == Least(f.anchor, f.caret)
             b == Least(Most(f.anchor, f.caret), Len(f.text))
         IN  [text |-> SubSeq(f.text, a + 1, b), bad |-> a > Len(f.text)]

(* ---- the pointer *)

Select(f, from, to) == [f EXCEPT !.box = FALSE, !.anchor = from, !.caret = to]

PressWord(f, idx) ==
    IF idx < Len(f.text) /\ IsWord(At(f.text, idx))
      THEN Select(f, RunBegin(f.text, idx, IsWord), RunEnd(f.text, idx, IsWord))
    ELSE IF idx < Len(f.text) /\ At(f.text, idx) = " "
      THEN Select(f, RunBegin(f.text, idx, LAMBDA b : b = " "), RunEnd(f.text, idx, LAMBDA b : b = " "))
    ELSE Select(f, idx, idx)

\* Where and how a press puts the caret.
PressAt(f, in, at) ==
    LET idx == f.lines[at.line] + at.col
    IN  CASE in.alt /\ style.multiline ->
               [f EXCEPT !.box = TRUE, !.boxLine = at.line, !.boxCol = at.col,
                         !.anchor = -1, !.caret = idx]
          [] in.shift /\ ~(in.alt /\ style.multiline) ->
               Select(f, IF f.anchor < 0 THEN f.caret ELSE f.anchor, idx)
          [] in.count = 2 /\ ~in.shift /\ ~(in.alt /\ style.multiline) -> PressWord(f, idx)
          [] in.count >= 3 /\ ~in.shift /\ ~(in.alt /\ style.multiline) ->
               Select(f, f.lines[at.line], f.lines[at.line] + LineLength(f.lines, f.text, at.line))
          [] OTHER -> Select(f, idx, idx)

Press(f, in, at, inside) ==
    IF ~(in.pressed /\ inside) THEN f
    ELSE [PressAt(f, in, at) EXCEPT
            !.focus = "field", !.claimed = TRUE, !.active = TRUE, !.kind = "none",
            !.grain = IF in.count >= 2 /\ ~in.alt /\ ~in.shift THEN in.count ELSE 1]

Drag(f, in, at) ==
    IF ~f.active THEN f
    ELSE [f EXCEPT !.claimed = TRUE, !.active = ~in.released,
                   !.caret = IF f.grain = 1 /\ in.down /\ ~in.pressed
                             THEN f.lines[at.line] + at.col ELSE @]

(* ---- undo *)

Step(f) == [text |-> f.text, caret |-> f.caret, anchor |-> f.anchor]

Weight(steps) ==
    LET first[n \in 0 .. Len(steps)] == IF n = 0 THEN 0 ELSE first[n - 1] + Len(steps[n].text)
    IN  first[Len(steps)]

\* The oldest steps go until the rest is within both bounds.
Trim(steps) ==
    LET Fits(d) == /\ Len(steps) - d <= kUndoSteps
                   /\ Weight(SubSeq(steps, d + 1, Len(steps))) <= kUndoBytes
    IN  SubSeq(steps, Min({d \in 0 .. Len(steps) : Fits(d)}) + 1, Len(steps))

\* The step is taken before the edit; origin and lost only follow what the
\* ring can still give back.
NoteForUndo(f, kind) ==
    LET joins == kind = f.kind /\ kind # "other" /\ ~f.aged
        ring  == Trim(Append(f.undo, Step(f)))
        noted == [f EXCEPT !.kind = kind, !.aged = FALSE, !.redo = <<>>]
    IN  IF joins THEN noted
        ELSE [noted EXCEPT !.undo = ring, !.lost = ring = <<>>,
                           !.origin = IF ring = <<>> THEN @ ELSE ring[1].text]

\* Mutant: an undone run is joined by what is typed next.
StepBackJoins(f, from, to) ==
    IF f[from] = <<>> THEN f
    ELSE LET into == Last(f[from])
         IN  Reindexed([f EXCEPT ![from] = Front(@), ![to] = Append(@, Step(f)),
                        !.text = into.text, !.caret = into.caret, !.anchor = into.anchor,
                        !.box = FALSE, !.changed = TRUE])

StepBack(f, from, to) ==
    IF f[from] = <<>> THEN f
    ELSE LET into == Last(f[from])
         IN  Reindexed([f EXCEPT ![from] = Front(@), ![to] = Append(@, Step(f)),
                        !.text = into.text, !.caret = into.caret, !.anchor = into.anchor,
                        !.box = FALSE, !.kind = "none", !.changed = TRUE])

History(f, in) == IF in.undo THEN StepBack(f, "undo", "redo")
                  ELSE IF in.redo THEN StepBack(f, "redo", "undo") ELSE f

(* ---- copy and select-all, which a read-only field takes too *)

SelectAll(f, in) ==
    IF in.all THEN [f EXCEPT !.box = FALSE, !.anchor = 0, !.caret = Len(f.text)] ELSE f

Copy(f, in) ==
    IF ~in.copy THEN f
    ELSE LET sel == SelectionText(f)
         IN  [f EXCEPT !.clip = IF sel.text # <<>> THEN sel.text ELSE @, !.fault = @ \/ sel.bad]

(* ---- typed text and the edit keys *)

Type(f, in) ==
    IF in.typed = <<>> THEN f
    ELSE [Insert(DeleteSelection(NoteForUndo(f, "typing")),
                 SelectSeq(in.typed, LAMBDA b : b # "n")) EXCEPT !.anchor = -1]

BeginMove(f, in) ==
    [f EXCEPT !.kind = "none",
              !.anchor = IF ~in.shift THEN -1 ELSE IF @ < 0 /\ ~f.box THEN f.caret ELSE @,
              !.box = @ /\ in.shift]

Moved(f, in, to) == [BeginMove(f, in) EXCEPT !.caret = to]

\* The selection if there is one, otherwise the text between two places.
EraseOr(f, from, to) ==
    IF HasLinear(f) \/ f.box THEN DeleteSelection(f)
    ELSE IF from < to THEN Erase(f, from, to) ELSE f

Backspace(f) ==
    [EraseOr(NoteForUndo(f, "deleting"), Utf8Prev(f.text, f.caret), f.caret) EXCEPT !.changed = TRUE]

Delete(f) ==
    [EraseOr(NoteForUndo(f, "deleting"), f.caret, Utf8Next(f.text, f.caret)) EXCEPT !.changed = TRUE]

Left(f, in) ==
    IF ~in.shift /\ ~in.ctrl /\ HasLinear(f)
      THEN [f EXCEPT !.caret = Least(f.anchor, f.caret), !.anchor = -1]
    ELSE IF in.ctrl /\ f.caret - 1 > Len(f.text) THEN Fault(f)
    ELSE Moved(f, in, IF in.ctrl THEN WordLeft(f.text, f.caret) ELSE Utf8Prev(f.text, f.caret))

Right(f, in) ==
    IF ~in.shift /\ ~in.ctrl /\ HasLinear(f)
      THEN [f EXCEPT !.caret = Most(f.anchor, f.caret), !.anchor = -1]
    ELSE Moved(f, in, IF in.ctrl THEN WordRight(f.text, f.caret) ELSE Utf8Next(f.text, f.caret))

\* Up and Down keep the byte column, whatever character it falls in.
ToLine(f, in, line, to) ==
    IF ~style.multiline \/ to \notin 1 .. Len(f.lines) THEN f
    ELSE Moved(f, in, f.lines[to] + Least(f.caret - f.lines[line], LineLength(f.lines, f.text, to)))

SubmitsOn(sends, multiline, ctrl, shift) ==
    LET which == IF sends = "default" THEN (IF multiline THEN "ctrl-enter" ELSE "enter") ELSE sends
    IN  IF ctrl THEN which \in {"ctrl-enter", "both"} ELSE ~shift /\ which \in {"enter", "both"}

\* What goes in where the selection was, as a step of its own.
Replace(f, w) == Insert(DeleteSelection(NoteForUndo(f, "other")), w)

Enter(f, in) ==
    LET sending == SubmitsOn(style.submit, style.multiline, in.ctrl, in.shift)
        g == [f EXCEPT !.submitted = @ \/ sending]
    IN  IF ~style.multiline THEN [g EXCEPT !.focus = IF in.ctrl THEN @ ELSE "none"]
        ELSE IF sending \/ in.ctrl THEN g
        ELSE Replace(g, <<"n">>)

Tab(f) ==
    IF offer # <<>> THEN [Replace(f, offer) EXCEPT !.accepted = TRUE, !.kept = TRUE]
    ELSE IF style.code THEN [Replace(f, [i \in 1 .. kIndent |-> " "]) EXCEPT !.kept = TRUE]
    ELSE f

Escape(f) == IF offer # <<>> THEN [f EXCEPT !.dismissed = TRUE] ELSE [f EXCEPT !.focus = "none"]

KeyIn(f, line, key, in) ==
        CASE key = "Backspace" -> Backspace(f)
          [] key = "Delete" -> Delete(f)
          [] key = "Left"   -> Left(f, in)
          [] key = "Right"  -> Right(f, in)
          [] key = "Home"   -> Moved(f, in, f.lines[line])
          [] key = "End"    -> Moved(f, in, f.lines[line] + LineLength(f.lines, f.text, line))
          [] key = "Up"     -> ToLine(f, in, line, line - 1)
          [] key = "Down"   -> ToLine(f, in, line, line + 1)
          [] key = "Enter"  -> Enter(f, in)
          [] key = "Tab"    -> Tab(f)
          [] key = "Escape" -> Escape(f)
          [] OTHER -> f
KeyAt(f, key, in) == KeyIn(f, LineOf(f.lines, f.caret), key, in)
Key(f, key, in) == KeyAt(Reindexed(f), key, in)

CutOut(f, in) ==
    IF ~in.cut THEN f
    ELSE LET sel == SelectionText(f)
         IN  IF sel.bad THEN Fault(f)
             ELSE IF sel.text = <<>> THEN f
             ELSE [DeleteSelection(NoteForUndo([f EXCEPT !.clip = sel.text], "other"))
                     EXCEPT !.changed = TRUE]

Paste(f, in) ==
    IF ~in.paste THEN f
    ELSE [Replace(f, IF style.multiline THEN f.clip ELSE SelectSeq(f.clip, LAMBDA b : b # "n"))
            EXCEPT !.anchor = -1, !.changed = TRUE]

\* The guard is read once: a key that gives the focus up does not stop the rest.
Edits(f, in) ==
    IF f.focus # "field" \/ style.readOnly THEN f
    ELSE Paste(CutOut(FoldLeft(LAMBDA h, key : Key(h, key, in), Type(f, in), in.keys), in), in)

(* ---- the end of the frame *)

\* Brings the index back into step, then the caret and the anchor into the text.
Settle(f0) ==
    LET f == IF f0.changed THEN Reindexed(f0) ELSE f0
        In(i) == FloorBoundary(f.text, Least(i, Len(f.text)))
    IN  [f EXCEPT !.caret = In(@), !.anchor = IF @ > 0 THEN In(@) ELSE @,
                  !.lexed = IF f.changed \/ ~f.fresh THEN f.text ELSE @,
                  !.fresh = ~f.changed]

\* Where the focus is after a press on nothing and a Tab nobody kept, in a
\* walk of the field and one widget after it.
FocusAfter(f, in) ==
    LET now == IF in.pressed /\ ~f.claimed THEN "none" ELSE f.focus
    IN  IF f.kept \/ ~\E i \in DOMAIN in.keys : in.keys[i] = "Tab" THEN now
        ELSE IF now = "none" THEN (IF in.shift THEN "other" ELSE "field")
        ELSE IF now = "field" THEN "other" ELSE "field"

Taken(f, in)  == IF f.focus = "field" /\ ~style.readOnly THEN History(f, in) ELSE f
Copied(f, in) == IF f.focus = "field" THEN Copy(SelectAll(f, in), in) ELSE f

\* Everything before the edits: the index, the pointer, undo, copy.
Opened(f0, in, at, inside) ==
    LET f == [(IF f0.fresh /\ Len(f0.lexed) = Len(f0.text) THEN f0 ELSE Reindexed(f0))
                EXCEPT !.aged = @ \/ in.late]
    IN  Copied(Taken(Drag(Press(f, in, at, inside), in, at), in), in)

\* What the frame leaves behind.
Rested(f, focus, in) ==
    [f EXCEPT !.focus = focus, !.active = @ /\ ~in.released,
              !.changed = FALSE, !.claimed = FALSE, !.kept = FALSE,
              !.submitted = FALSE, !.accepted = FALSE, !.dismissed = FALSE]

\* Whether a frame with this input walks the tree at all.
Walks(in) == \/ in.typed # <<>> \/ in.keys # <<>> \/ in.down \/ in.pressed \/ in.released
             \/ in.all \/ in.copy \/ in.cut \/ in.paste \/ in.undo \/ in.redo
             \/ field.focus # "none" \/ wrote

(* A frame may cut a character when it works on a box, when a key or a      *)
(* paste follows Up or Down before the caret is snapped, when it is the     *)
(* first after the application wrote, or when what it pastes is cut.        *)
MayCut(in) ==
    \/ field.box \/ (in.alt /\ in.pressed)
    \/ /\ \E i \in DOMAIN in.keys : in.keys[i] \in {"Up", "Down"}
       /\ Len(in.keys) > 1 \/ in.cut \/ in.paste
    \/ wrote /\ Walks(in)
    \/ in.paste /\ ~Whole(field.clip)

-----------------------------------------------------------------------------

Init ==
    /\ style \in Styles
    /\ \E t \in Texts : field = NewField(t)
    /\ offer = <<>> /\ held = FALSE /\ clicks = 1 /\ shown = FALSE
    /\ wrote = FALSE /\ rough = FALSE /\ frames = 0 /\ writes = 0

Corner == [line |-> 1, col |-> 0]

\* Where the pointer may be while the button is down: anywhere when it is
\* pressed or moves by itself, on the caret while keys come.
Pointed(in, moves) ==
    LET starts == LineStarts(field.text)
        all    == Places(field.text, starts, style.multiline)
        here   == {p \in all : starts[p.line] + p.col = field.caret}
    IN  IF in.pressed \/ moves THEN all ELSE IF here = {} THEN {Corner} ELSE here

\* One frame of the field, with what TextField::paint does of its answers:
\* the handler of the change may offer a completion, and one that was taken or
\* dropped is spent whatever the handler did.
Paint(g) ==
    /\ ~field.fault /\ frames + writes < MaxSteps
    /\ \E near \in BOOLEAN, late \in BOOLEAN :
         /\ late => field.kind \in {"typing", "deleting"} /\ ~field.aged
         /\ near => Of(g.events, "button") # <<>>
         /\ LET in == Gather(g, near, late)
            IN  /\ Walks(in)
                /\ \E inside \in IF in.pressed /\ ~near THEN BOOLEAN ELSE {TRUE} :
                   \E at \in IF inside /\ in.down THEN Pointed(in, g.events = <<>>) ELSE {Corner} :
                   \E open \in {Opened(field, in, at, inside)} : \E f \in {Edits(open, in)} :
                       /\ Len(f.text) <= MaxLength
                       /\ field' = Rested(IF f.fault THEN f ELSE Settle(f), FocusAfter(f, in), in)
                       /\ shown' = (open.focus = "field")
                       /\ \E reply \in IF f.changed THEN Offers \cup {offer} ELSE {offer} :
                            offer' = IF f.accepted \/ f.dismissed THEN <<>> ELSE reply
                       /\ wrote' = (wrote /\ f.fault)
                /\ held' = in.down /\ clicks' = in.count
                /\ rough' = (rough \/ MayCut(in))
    /\ frames' = frames + 1
    /\ UNCHANGED <<style, writes>>

\* setText: the same text again is not a change.
SetText(t) ==
    /\ ~field.fault /\ writes < MaxWrites /\ frames + writes < MaxSteps
    /\ t # field.text
    /\ field' = [field EXCEPT !.text = t, !.fresh = FALSE,
                   !.origin = IF field.undo = <<>> THEN t ELSE @]
    /\ wrote' = TRUE /\ writes' = writes + 1
    /\ UNCHANGED <<style, offer, held, clicks, shown, rough, frames>>

Next == \/ \E g \in Gestures : Paint(g)
        \/ \E t \in Texts : SetText(t)

Spec == Init /\ [][Next]_vars

-----------------------------------------------------------------------------
(* Properties.                                                              *)

Steps == [text : Seq(Bytes), caret : Nat, anchor : Int]

\* The field keeps its shape: what it holds is text, places and steps.
TypeOK ==
    /\ style \in Styles /\ offer \in Offers \cup {<<>>}
    /\ {held, shown, wrote, rough} \subseteq BOOLEAN /\ clicks \in 1 .. 3
    /\ field.text \in Seq(Bytes) /\ field.clip \in Seq(Bytes)
    /\ field.caret \in Nat /\ field.anchor \in Nat \cup {-1}
    /\ \A s \in Range(field.undo) \cup Range(field.redo) : s \in Steps
    /\ field.kind \in {"none", "typing", "deleting", "other"}
    /\ field.focus \in {"none", "field", "other"}

\* An edit works inside the text it edits (text.insert and text.erase of
\* GuiWidgets.cpp:503-660 check nothing), except in the first frame after the
\* application replaced the text: the caret is brought back into the text only
\* at the end of that frame, after its edits.
EditsAreInside == field.fault => wrote

\* After a frame the caret and the anchor stand on characters of the text, and
\* the index of its lines and the spans it is coloured by are this text's.
PlacesAreCurrent ==
    (frames > 0 /\ ~field.fault /\ ~wrote) =>
        /\ Boundary(field.text, field.caret)
        /\ field.anchor = -1 \/ Boundary(field.text, field.anchor)
        /\ field.lexed = field.text /\ field.lines = LineStarts(field.text)

\* Editing never leaves half a character behind (GuiWidgets.cpp:528-531), as
\* long as none of the four things MayCut names has happened.
CharactersStayWhole == ~rough => Whole(field.text)

\* Redo never holds more than undo gave it: together they stay within the
\* bound that is checked on undo alone (GuiWidgets.cpp:465-468).
RingsAreBounded == Len(field.undo) + Len(field.redo) <= kUndoSteps

FieldIsSound == /\ TypeOK /\ EditsAreInside /\ PlacesAreCurrent
                /\ CharactersStayWhole /\ RingsAreBounded

\* Taking every step back ends at the text the reader began with: the oldest
\* step that is still kept, or, with none, the text on the screen.  Runs of
\* edits that join a step, undo and redo in any order, and the application's
\* own writes never leave an edit that no step stands before.
UndoReachesTheStart ==
    (~field.fault /\ ~field.lost) =>
        field.origin = IF field.undo = <<>> THEN field.text ELSE field.undo[1].text

\* A selection is made by a gesture: Backspace with nothing selected leaves
\* nothing selected (GuiWidgets.cpp:528-531, "move by a character").
SelectionsAreAsked ==
    [][\A g \in Gestures :
         (g.events = <<[kind |-> "key", key |-> "Backspace"]>> /\ ~HasLinear(field)
            /\ ~field.box /\ field.focus = "field" /\ ~wrote /\ Paint(g))
         => ~HasLinear(field')]_vars

\* What an edit takes away can be had back: the text a selection is replaced in
\* is one undo returns to (GuiWidgets.cpp:424-426 and 430-433).
ReplacedComesBack ==
    [][(/\ HasLinear(field) /\ ~wrote /\ ~style.readOnly /\ field'.text # field.text
        /\ ~HasLinear(field') /\ writes' = writes
        /\ Len(field'.undo) >= Len(field.undo) /\ field.redo = <<>>)
       => \E i \in DOMAIN field'.undo : field'.undo[i].text = field.text]_vars

\* The engine's edits stay inside the text whatever the application writes.
NoEditOutside == ~field.fault

\* Whole characters whatever is selected or pressed.
CharactersAlwaysWhole == Whole(field.text)

\* The picture that stays on the screen while nothing happens has a caret only
\* where the keyboard is (Gui.cpp:30-31).
CaretIsWhereTheKeysGo == (field.focus = "none" /\ ~held /\ ~wrote) => ~shown
=============================================================================
