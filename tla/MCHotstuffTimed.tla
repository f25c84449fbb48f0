--------------------------- MODULE MCHotstuffTimed ---------------------------
EXTENDS HotstuffTimed

CONSTANTS g, b1, b2

(* A chain of two blocks above genesis. *)
LineBlocks == {g, b1, b2}
LineAncestors ==
  [b \in LineBlocks |-> CASE b = g -> {} [] b = b1 -> {g} [] b = b2 -> {g, b1}]
=============================================================================
