-------------------------- MODULE HotstuffRefinement --------------------------
(***************************************************************************)
(* HotstuffConsensus implements HotstuffFinality: the votes, the finalized  *)
(* blocks and the restarts of the detailed system are those of the          *)
(* abstract one.                                                            *)
(***************************************************************************)
EXTENDS HotstuffConsensus

Finality == INSTANCE HotstuffFinality WITH Votes <- Vote, Quorums <- QuorumSets

(* Every handler of consensus.rs, with all the handlers it calls, signs and *)
(* finalizes only as HotstuffFinality allows: own votes in ever higher      *)
(* views, one per view, and a finalized block that moves to descendants     *)
(* with two certified consecutive proposals (make_vote, handle_proposal).   *)
ImplementsFinality == Finality!Spec
=============================================================================
