--------------------------- MODULE MCHotstuffGossip ---------------------------
EXTENDS HotstuffGossip

CONSTANTS p1, p2

(* p1 proposes in view 0, sends the TC of view 0 and its timeout of view 1; *)
(* p2 votes in view 1. *)
FewMessages ==
  {[type |-> "Propose", view |-> 0, origin |-> p1],
   [type |-> "TC",      view |-> 0, origin |-> p1],
   [type |-> "Timeout", view |-> 1, origin |-> p1],
   [type |-> "Vote",    view |-> 1, origin |-> p2]}
=============================================================================
