------------------------------ MODULE TextEdit ------------------------------
(* The text a field edits and the places in it: Core/Utf8.cpp and the line  *)
(* and word helpers of GuiWidgets.cpp.  A text is a sequence of bytes, and a *)
(* place is the number of bytes before it.  Of a byte only its class counts: *)
(*   "a" a letter        " " a space        "." punctuation                  *)
(*   "n" a line break    "L" the lead of a two-byte character                *)
(*   "C" a continuation byte.                                                *)
EXTENDS Integers, Sequences, FiniteSets, SequencesExt, FiniteSetsExt

Bytes == {"a", " ", ".", "n", "L", "C"}

\* std::string's own terminator is a byte one may read.
At(s, i) == IF i < Len(s) THEN s[i + 1] ELSE "0"
Continues(s, i) == At(s, i) = "C"

(* A text made of whole characters. *)
Whole(s) == \A i \in 0 .. Len(s) - 1 :
    /\ At(s, i) = "L" => i + 1 < Len(s) /\ At(s, i + 1) = "C"
    /\ At(s, i) = "C" => i > 0 /\ At(s, i - 1) = "L"

(* A place a caret may stop at. *)
Boundary(s, i) == i \in 0 .. Len(s) /\ (i = 0 \/ ~Continues(s, i))

\* The next stop after i, stepping over continuation bytes without decoding.
Utf8Next(s, i) == IF i >= Len(s) THEN Len(s)
                  ELSE Min({j \in i + 1 .. Len(s) : ~Continues(s, j)})

\* The stop before i.
Utf8Prev(s, i) == IF i = 0 \/ s = <<>> THEN 0
                  ELSE LET from == (IF i > Len(s) THEN Len(s) ELSE i) - 1
                       IN  Max({j \in 0 .. from : j = 0 \/ ~Continues(s, j)})

\* Mutant: a place inside a character is left where it is.
FloorKeeps(s, i) == IF i >= Len(s) THEN Len(s) ELSE i

\* The stop at or before i.
FloorBoundary(s, i) == IF i >= Len(s) THEN Len(s)
                       ELSE Max({j \in 0 .. i : j = 0 \/ ~Continues(s, j)})

\* Columns decode() stops at in a line: everywhere but inside a valid pair.
Stops(line) == {c \in 0 .. Len(line) :
    ~(c > 0 /\ c < Len(line) /\ line[c] = "L" /\ line[c + 1] = "C")}

LineStarts(s) == <<0>> \o SelectSeq([i \in 1 .. Len(s) |-> i], LAMBDA i : s[i] = "n")

LineOf(starts, caret) == Max({k \in 1 .. Len(starts) : starts[k] <= caret})

LineLength(starts, s, line) ==
    (IF line < Len(starts) THEN starts[line + 1] - 1 ELSE Len(s)) - starts[line]

IsSpace(b) == b \in {" ", "n"}
IsWord(b) == b \in {"a", "L", "C"}

\* The first place from i on where the class ends, and the last back from i.
RunEnd(s, i, Class(_)) ==
    Min({j \in i .. Len(s) : j = Len(s) \/ ~Class(At(s, j))})
RunBegin(s, i, Class(_)) ==
    Max({j \in 0 .. i : j = 0 \/ ~Class(At(s, j - 1))})

\* wordLeft reads the byte it stands on for spaces and the one before for words.
WordLeft(s, i) ==
    LET back  == IF i > 0 THEN i - 1 ELSE 0
        still == Max({j \in 0 .. back : j = 0 \/ ~IsSpace(At(s, j))})
    IN  RunBegin(s, still, IsWord)

WordRight(s, i) ==
    IF i >= Len(s) THEN i ELSE RunEnd(s, RunEnd(s, i, IsSpace), IsWord)

\* Every place of a text a pointer can point at, as line and column.
Places(s, starts, multiline) ==
    {p \in [line : 1 .. (IF multiline THEN Len(starts) ELSE 1), col : 0 .. Len(s)] :
        LET len  == LineLength(starts, s, p.line)
            from == starts[p.line]
        IN  p.col <= len /\ p.col \in Stops(SubSeq(s, from + 1, from + len))}
=============================================================================
