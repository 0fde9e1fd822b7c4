---------------------------- MODULE MCTextField -----------------------------
(* Short texts with one two-byte character and a line break, and the        *)
(* gestures of a keyboard and a mouse, alone and in the pairs one frame can *)
(* bring.                                                                   *)
EXTENDS TextField

Char(w) == [kind |-> "char", text |-> w]
KeyDown(k) == [kind |-> "key", key |-> k]
Button(d) == [kind |-> "button", down |-> d]
Plain(events) == [events |-> events, shift |-> FALSE, ctrl |-> FALSE, alt |-> FALSE]

Moves == {"Left", "Right", "Home", "End", "Up", "Down"}

MCKeys ==
    {Plain(<<KeyDown(k)>>) : k \in Moves \cup {"Backspace", "Delete", "Enter", "Tab", "Escape"}}
      \cup {[Plain(<<KeyDown(k)>>) EXCEPT !.shift = TRUE] : k \in {"Left", "Down", "Enter"}}
      \cup {[Plain(<<KeyDown(k)>>) EXCEPT !.ctrl = TRUE] :
              k \in {"Left", "Right", "Enter", "A", "C", "X", "V", "Z", "Y"}}

MCTyped == {Plain(<<Char(<<"a">>)>>), Plain(<<Char(<<"L", "C">>)>>)}

MCPairs == {Plain(<<KeyDown("Backspace"), Char(<<"a">>)>>),
            Plain(<<KeyDown("Up"), KeyDown("Backspace")>>),
            [Plain(<<KeyDown("Down"), KeyDown("V")>>) EXCEPT !.ctrl = TRUE]}

MCMouse == {Plain(<<>>), Plain(<<Button(TRUE)>>), Plain(<<Button(FALSE)>>),
            [Plain(<<Button(TRUE)>>) EXCEPT !.shift = TRUE],
            [Plain(<<Button(TRUE)>>) EXCEPT !.alt = TRUE]}

MCGestures == MCKeys \cup MCTyped \cup MCPairs \cup MCMouse
MCTexts    == {<<>>, <<"a", "n", "L", "C">>}
MCClip     == <<"L", "C", "n">>
MCOffers   == {<<"a">>}

Field(multi, code, sends, fixed) ==
    [multiline |-> multi, code |-> code, submit |-> sends, readOnly |-> fixed]
MCStyles == {Field(FALSE, FALSE, "default", FALSE), Field(TRUE, TRUE, "both", FALSE),
             Field(TRUE, FALSE, "none", TRUE)}
=============================================================================
