-------------------------- MODULE HotstuffAggregator --------------------------
(***************************************************************************)
(* The vote and timeout aggregators (aggregator.rs).                        *)
(*                                                                         *)
(* votes_aggregator maps a view and a vote digest to a QCMaker holding the  *)
(* votes appended so far; the set of appended votes holds the same          *)
(* information.  timeouts_aggregators maps a view to a TCMaker; a TCMaker   *)
(* keeps the first timeout of each voter.  Neither is ever pruned.          *)
(***************************************************************************)
EXTENDS HotstuffMessage

(* The entry a TCMaker keeps for a timeout, together with the timeout's     *)
(* view, which is the key of the TCMaker.                                   *)
TimeoutEntry(t) ==
  [view |-> t.view,
   vote |-> [voter     |-> t.voter,
             signature |-> TimeoutDigest(t.view, t.high_qc.view),
             view      |-> t.view]]

QuorumWeight == (N * 2) \div 3 + 1

(* The voters the QCMaker of this vote's view and digest has. *)
QCMakerVoters(votes, vote) ==
  {u.voter : u \in {x \in votes : /\ x.view = vote.view
                                  /\ x.proposal_hash = vote.proposal_hash}}

(* QCMaker::append: the votes after the call... *)
AppendVote(votes, vote) == votes \cup {vote}

(* Mutant: the weight is increased twice for one vote. *)
MakesQCEarly(votes, vote) ==
  /\ vote.voter \notin QCMakerVoters(votes, vote)
  /\ Cardinality(QCMakerVoters(votes, vote)) + 2 >= QuorumWeight

(* ... whether it returns a QC: never for a voter it already has, and then  *)
(* for every vote from the quorum on... *)
MakesQC(votes, vote) ==
  /\ vote.voter \notin QCMakerVoters(votes, vote)
  /\ Cardinality(QCMakerVoters(AppendVote(votes, vote), vote)) >= QuorumWeight

(* ... and which one. *)
MadeQC(votes, vote) ==
  [proposal_hash |-> vote.proposal_hash, view |-> vote.view,
   votes |-> QCMakerVoters(AppendVote(votes, vote), vote)]

TCMakerVotes(timeouts, v) == {e.vote : e \in {x \in timeouts : x.view = v}}

TCMakerHas(timeouts, t) ==
  \E e \in TCMakerVotes(timeouts, t.view) : e.voter = t.voter

(* TCMaker::append, likewise. *)
AppendTimeout(timeouts, t) ==
  IF TCMakerHas(timeouts, t) THEN timeouts ELSE timeouts \cup {TimeoutEntry(t)}

(* Mutant: the weight is increased twice for one timeout. *)
MakesTCEarly(timeouts, t) ==
  /\ ~TCMakerHas(timeouts, t)
  /\ Cardinality(TCMakerVotes(timeouts, t.view)) + 2 >= QuorumWeight

MakesTC(timeouts, t) ==
  /\ ~TCMakerHas(timeouts, t)
  /\ Cardinality(TCMakerVotes(AppendTimeout(timeouts, t), t.view)) >= QuorumWeight

MadeTC(timeouts, t) ==
  [type |-> "TC", view |-> t.view,
   votes |-> TCMakerVotes(AppendTimeout(timeouts, t), t.view)]
=============================================================================
