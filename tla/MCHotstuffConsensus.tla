------------------------- MODULE MCHotstuffConsensus -------------------------
EXTENDS HotstuffRefinement

CONSTANTS g, b1, c1, b2

(* Two competing blocks above genesis. *)
TwoBlocks == {g, b1, c1}
TwoAncestors == [b \in TwoBlocks |-> IF b = g THEN {} ELSE {g}]

(* A chain of two blocks above genesis. *)
LineBlocks == {g, b1, b2}
LineAncestors ==
  [b \in LineBlocks |-> CASE b = g -> {} [] b = b1 -> {g} [] b = b2 -> {g, b1}]

(* A single block above genesis. *)
OneBlocks == {g, b1}
OneAncestors == [b \in OneBlocks |-> IF b = g THEN {} ELSE {g}]
=============================================================================
