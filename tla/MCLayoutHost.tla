---------------------------- MODULE MCLayoutHost ----------------------------
(* Two signals, one a number and one a text; three layouts: one that declares *)
(* the number and binds it, one that declares the text and binds both as a    *)
(* size, and one that builds nothing.                                         *)
EXTENDS LayoutHost

CONSTANTS count, gap, zero, one, wide, bad

MCNames     == {count, gap}
MCNumbers   == {zero, one}
MCTexts     == {wide, bad}
MCUnsizable == {bad}

Layout(defs, binds) == [defs |-> defs, binds |-> binds]
NoDefs   == [n \in {} |-> zero]
Counter  == Layout([n \in {count} |-> zero], <<[reads |-> {count}, sized |-> FALSE]>>)
Sized    == Layout([n \in {gap} |-> wide], <<[reads |-> {count}, sized |-> FALSE],
                             [reads |-> {count, gap}, sized |-> TRUE]>>)
MCEmpty  == Layout(NoDefs, <<>>)
MCLayouts == {Counter, Sized, MCEmpty}
=============================================================================
