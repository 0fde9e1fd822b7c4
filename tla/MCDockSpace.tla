----------------------------- MODULE MCDockSpace ----------------------------
(* Three panels: one that starts left, one in the centre, one floating.     *)
EXTENDS DockSpace

CONSTANTS explorer, editor, tool, half

MCAll      == <<explorer, editor, tool>>
MCLayouts  == {MCAll, <<explorer, tool>>}
MCHint     == (explorer :> "left") @@ (editor :> "center") @@ (tool :> "floating")
MCSize     == (explorer :> <<1, 2>>) @@ (editor :> <<2, 1>>) @@ (tool :> <<1, 1>>)
MCAt       == (explorer :> <<0, 0>>) @@ (editor :> NoPanel) @@ (tool :> <<1, 0>>)
MCCells    == {<<1, 1>>, <<4, -1>>}
MCOld == [legacy |-> TRUE, tree |-> <<>>, grid |-> <<>>, reach |-> "whole", count |-> 0,
          names |-> <<explorer, tool>>,
          slots |-> [s \in Slots |-> IF s = "left" THEN <<explorer, tool>> ELSE <<>>]]
\* A file written by hand: two tiles in one cell, one wider than the grid.
MCByHand == [legacy |-> FALSE, tree |-> FreshTree, reach |-> "whole", count |-> 0, names |-> MCAll, slots |-> <<>>,
             grid |-> <<[id |-> editor, col |-> 2, row |-> 3, cols |-> 9, rows |-> 1],
                        [id |-> tool, col |-> 1, row |-> 3, cols |-> 1, rows |-> 0],
                        [id |-> explorer, col |-> -2, row |-> 3, cols |-> 1, rows |-> 2]>>]
MCOldFiles == [panes |-> {NoFile, MCOld}, tiles |-> {MCByHand}]
=============================================================================
