---------------------------- MODULE HotstuffWorker ----------------------------
(***************************************************************************)
(* The handlers of ConsensusWorker (consensus.rs), each as a transformer of *)
(* the worker's state.                                                      *)
(*                                                                         *)
(* A worker state w is a record with the fields of ConsensusState (view,    *)
(* last_voted_view, high_qc, the two aggregators) and of ConsensusWorker    *)
(* (processing_block, proposal_hash_queue, pending_queue), the proposal     *)
(* store of the Synchronizer, what the Substrate client knows (imported,    *)
(* finalized, the finality notification not yet polled), local_timer (did   *)
(* the handler reset the timer) and the two things a handler adds to        *)
(* outside the node: msgs, the messages gossiped so far, and signed, the    *)
(* votes signed so far.                                                     *)
(*                                                                         *)
(* handle_proposal and handle_vote call each other: a vote can complete a   *)
(* QC, which makes its leader propose, and a leader handles its own         *)
(* proposal.  The recursion stops there, because with two or more           *)
(* authorities the leader of a view is not the leader of the next one: a    *)
(* leader always gossips its vote for its own proposal.  HandleOwnProposal  *)
(* is handle_proposal on that path, HandleProposal on the others.           *)
(***************************************************************************)
EXTENDS HotstuffAggregator

BlockInfo == [hash : Blocks \cup {EmptyHash}, number : Nat]

Higher(a, b) == IF a >= b THEN a ELSE b

ViewLeader(v) == v % N

IsLeader(n, w) == n \in Authorities /\ n = ViewLeader(w.view)

Gossip(w, m) == [w EXCEPT !.msgs = @ \cup {m}]

(* Timer::reset: the next tick is one period from now. *)
ResetTimer(w) == [w EXCEPT !.local_timer = "reset"]

(***************************************************************************)
(* Views and certificates.                                                 *)
(***************************************************************************)
(* Mutant: the view moves to the one before its target. *)
AdvanceViewBack(w, target) ==
  [w EXCEPT !.view = IF w.view >= target THEN target - 1 ELSE @]

(* The comparison is the code's: the view moves only when target is the     *)
(* current view or an older one. *)
AdvanceView(w, target) ==
  [w EXCEPT !.view = IF w.view >= target THEN target + 1 ELSE @]

UpdateHighQC(w, qc) ==
  [w EXCEPT !.high_qc = IF qc.view > @.view THEN qc ELSE @]

(* Mutant: QCs of earlier views are handled too. *)
HandleAnyQC(w, qc) == ResetTimer(UpdateHighQC(AdvanceView(w, qc.view), qc))

HandleQC(w, qc) ==
  IF qc.view >= w.view
  THEN ResetTimer(UpdateHighQC(AdvanceView(w, qc.view), qc))
  ELSE w

(***************************************************************************)
(* Choosing what to propose.                                               *)
(***************************************************************************)
(* Index of the first queued block above a finalized number, or Len + 1. *)
FirstAbove(queue, number) ==
  CHOOSE i \in 1 .. (Len(queue) + 1) :
    /\ \A j \in 1 .. (i - 1) : queue[j].number <= number
    /\ i <= Len(queue) => queue[i].number > number

QueuedAbove(queue, number) == \E i \in DOMAIN queue : queue[i].number > number

(* get_proposal_payload, in two parts: the block the worker is processing   *)
(* when it returns (None when it returns no payload)... *)
NextProcessing(w) ==
  LET finalized == BlockNumber(w.finalized)
  IN  IF w.processing_block = None
      THEN IF w.pending_queue = <<>> THEN None ELSE Head(w.pending_queue)
      ELSE IF /\ w.processing_block.number <= finalized
              /\ QueuedAbove(w.pending_queue, finalized)
           THEN w.pending_queue[FirstAbove(w.pending_queue, finalized)]
           ELSE w.processing_block

(* ... and the payload: that block when the call has just taken it from     *)
(* the queue, an empty payload with its number otherwise. *)
NextPayload(w) ==
  LET fromQueue == \/ w.processing_block = None
                   \/ /\ w.processing_block.number <= BlockNumber(w.finalized)
                      /\ QueuedAbove(w.pending_queue, BlockNumber(w.finalized))
      next      == NextProcessing(w)
  IN  [block_hash   |-> IF fromQueue THEN next.hash ELSE EmptyHash,
       block_number |-> next.number]

(* Mutant: not even a second one. *)
TooManyEmptyAtOne(w, payload) ==
  LET q == w.proposal_hash_queue
  IN  /\ payload.block_hash = EmptyHash
      /\ Len(q) >= 1
      /\ q[Len(q)] = EmptyHash

(* handle_vote does not propose a third empty payload in a row. *)
TooManyEmpty(w, payload) ==
  LET q == w.proposal_hash_queue
  IN  /\ payload.block_hash = EmptyHash
      /\ Len(q) >= 2
      /\ q[Len(q)] = EmptyHash
      /\ q[Len(q) - 1] = EmptyHash

(***************************************************************************)
(* handle_proposal up to the vote.                                         *)
(***************************************************************************)
(* Only the leader of a view proposes in it. *)
VerifyProposal(w, p) ==
  p.author = ViewLeader(p.view) /\ ProposalVerify(p, w.signed)

(* Mutant: a proposal of an unknown block is handled. *)
AcceptableUnknown(w, p) == VerifyProposal(w, p)

(* A proposal whose block is unknown only triggers a sync request; one that *)
(* does not verify is refused. *)
Acceptable(w, p) ==
  /\ p.payload.block_hash # EmptyHash => p.payload.block_hash \in w.imported
  /\ VerifyProposal(w, p)

SaveProposal(w, p) == [w EXCEPT !.store = @ \cup {ProposalDigest(p)}]

(* Client::finalize_block: it refuses a block that does not descend from    *)
(* the last finalized one, and notifies the finality stream. *)
FinalizeBlock(w, b) ==
  IF b \in w.imported /\ w.finalized \in Ancestors[b]
  THEN [w EXCEPT !.finalized = b, !.finalize_notification = BlockNumber(b)]
  ELSE w

(* get_proposal_ancestors: whether the proposal's parent and grandparent,   *)
(* the ends of its parent hash, are both in the local store. *)
HasAncestors(w, p) ==
  /\ p.qc.proposal_hash \in w.store
  /\ Front(p.qc.proposal_hash) \in w.store

(* Mutant: the views of parent and grandparent are not compared. *)
TryFinalizeAnyViews(w, p) ==
  LET parent  == p.qc.proposal_hash
      grandpa == Front(parent)
  IN  IF /\ HasAncestors(w, p)
         /\ Last(grandpa).payload.block_hash \notin {EmptyHash, w.finalized}
      THEN FinalizeBlock(w, Last(grandpa).payload.block_hash)
      ELSE w

(* Mutant: the parent's block is finalized, one proposal too early. *)
TryFinalizeEarly(w, p) ==
  LET parent == p.qc.proposal_hash
  IN  IF /\ parent \in w.store
         /\ p.view = Last(parent).view + 1
         /\ Last(parent).payload.block_hash \notin {EmptyHash, w.finalized}
      THEN FinalizeBlock(w, Last(parent).payload.block_hash)
      ELSE w

(* The grandparent's block is finalized when parent and grandparent have    *)
(* consecutive views. *)
TryFinalize(w, p) ==
  LET parent  == p.qc.proposal_hash
      grandpa == Front(parent)
  IN  IF /\ HasAncestors(w, p)
         /\ Last(parent).view = Last(grandpa).view + 1
         /\ Last(grandpa).payload.block_hash \notin {EmptyHash, w.finalized}
      THEN FinalizeBlock(w, Last(grandpa).payload.block_hash)
      ELSE w

AcceptProposal(w, p) ==
  LET q == HandleQC(w, p.qc)
      t == IF p.tc # None /\ p.tc > q.view
           THEN ResetTimer(AdvanceView(q, p.tc)) ELSE q
  IN  TryFinalize(SaveProposal(t, p), p)

(***************************************************************************)
(* Voting.                                                                 *)
(***************************************************************************)
(* Mutant: the view last voted in is not ruled out. *)
MakesVoteAgain(n, w, p) ==
  n \in Authorities /\ p.view = w.view /\ p.view >= w.last_voted_view

MakesVote(n, w, p) ==
  n \in Authorities /\ p.view = w.view /\ p.view > w.last_voted_view

VoteFor(n, p) ==
  [type |-> "Vote", proposal_hash |-> ProposalDigest(p),
   view |-> p.view, voter |-> n]

CastVote(n, w, p) ==
  [w EXCEPT !.last_voted_view = Higher(@, p.view),
            !.signed = @ \cup {VoteFor(n, p)},
            !.proposal_hash_queue = Append(@, p.payload.block_hash),
            !.processing_block = [hash   |-> p.payload.block_hash,
                                  number |-> p.payload.block_number]]

HandleOwnProposal(n, w, p) ==
  LET a == AcceptProposal(w, p)
  IN  IF ~Acceptable(w, p) THEN w
      ELSE IF MakesVote(n, a, p)
           THEN Gossip(CastVote(n, a, p), VoteFor(n, p))
           ELSE a

(***************************************************************************)
(* Proposing.                                                              *)
(***************************************************************************)
MakeProposal(n, w, payload, tc) ==
  [type |-> "Propose", qc |-> w.high_qc, tc |-> tc, payload |-> payload,
   view |-> w.view, author |-> n]

Propose(n, w, payload, tc) ==
  LET p == MakeProposal(n, w, payload, tc)
  IN  HandleOwnProposal(n, Gossip(w, p), p)

GenerateProposal(n, w, tc) ==
  IF NextProcessing(w) = None
  THEN w
  ELSE Propose(n, [w EXCEPT !.processing_block = NextProcessing(w)],
               NextPayload(w), tc)

(* The proposal handle_vote makes once a QC has moved the worker to a view  *)
(* it leads. *)
ProposeOnQC(n, w) ==
  LET payload == NextPayload(w)
      taken   == [w EXCEPT !.processing_block = NextProcessing(w)]
  IN  IF NextProcessing(w) = None THEN w
      ELSE IF TooManyEmpty(w, payload) THEN taken
      ELSE Propose(n,
             [taken EXCEPT !.proposal_hash_queue =
                Append(IF Len(@) > 3 THEN <<>> ELSE @, payload.block_hash)],
             payload, None)

(***************************************************************************)
(* The handlers.                                                           *)
(***************************************************************************)
VerifyVote(w, vote) == ~(vote.view < w.view) /\ VoteVerify(vote, w.signed)

HandleVote(n, w, vote) ==
  LET added == [w EXCEPT !.votes_aggregator = AppendVote(@, vote)]
      q     == HandleQC(added, MadeQC(w.votes_aggregator, vote))
  IN  IF ~VerifyVote(w, vote) THEN w
      ELSE IF ~MakesQC(w.votes_aggregator, vote) THEN added
      ELSE IF IsLeader(n, q) THEN ProposeOnQC(n, q)
      ELSE q

HandleProposal(n, w, p) ==
  LET a     == AcceptProposal(w, p)
      voted == CastVote(n, a, p)
  IN  IF ~Acceptable(w, p) THEN w
      ELSE IF ~MakesVote(n, a, p) THEN a
      ELSE IF n = ViewLeader(a.view + 1)
           THEN HandleVote(n, voted, VoteFor(n, p))
           ELSE Gossip(voted, VoteFor(n, p))

(* Mutant: the QC of a timeout is not handled. *)
HandleTimeoutOnly(n, w, t) ==
  LET added == [w EXCEPT !.timeouts_aggregators = AppendTimeout(@, t)]
      tc    == MadeTC(w.timeouts_aggregators, t)
      moved == IF tc.view >= added.view
               THEN ResetTimer(AdvanceView(added, tc.view)) ELSE added
      sent  == Gossip(moved, tc)
  IN  IF w.view > t.view \/ ~TimeoutVerify(t, w.signed) THEN w
      ELSE IF ~MakesTC(w.timeouts_aggregators, t) THEN added
      ELSE IF IsLeader(n, sent)
           THEN GenerateProposal(n, [sent EXCEPT !.processing_block = None], tc.view)
           ELSE sent

HandleTimeout(n, w, t) ==
  LET q     == HandleQC(w, t.high_qc)
      added == [q EXCEPT !.timeouts_aggregators = AppendTimeout(@, t)]
      tc    == MadeTC(q.timeouts_aggregators, t)
      moved == IF tc.view >= added.view
               THEN ResetTimer(AdvanceView(added, tc.view)) ELSE added
      sent  == Gossip(moved, tc)
  IN  IF w.view > t.view \/ ~TimeoutVerify(t, w.signed) THEN w
      ELSE IF ~MakesTC(q.timeouts_aggregators, t) THEN added
      ELSE IF IsLeader(n, sent)
           THEN GenerateProposal(n, [sent EXCEPT !.processing_block = None], tc.view)
           ELSE sent

VerifyTC(w, tc) == ~(tc.view < w.view) /\ TCVerify(tc)

HandleTC(n, w, tc) ==
  LET moved == [ResetTimer(AdvanceView(w, tc.view)) EXCEPT !.processing_block = None]
  IN  IF ~VerifyTC(w, tc) THEN w
      ELSE IF IsLeader(n, moved) THEN GenerateProposal(n, moved, None)
      ELSE moved

IncreaseLastVotedView(w) ==
  [w EXCEPT !.last_voted_view = Higher(@, w.view)]

MakeTimeout(n, w) ==
  [type |-> "Timeout", high_qc |-> w.high_qc, view |-> w.view, voter |-> n]

(* Mutant: the timer does not raise last_voted_view. *)
HandleLocalTimerStillVotes(n, w) ==
  LET t == MakeTimeout(n, w)
  IN  IF n \in Authorities THEN HandleTimeout(n, Gossip(ResetTimer(w), t), t) ELSE w

(* The timer stops the worker from voting in this view, whether or not it   *)
(* is an authority; only an authority sends a timeout. *)
HandleLocalTimer(n, w) ==
  LET stopped == IncreaseLastVotedView(ResetTimer(w))
      t       == MakeTimeout(n, w)
  IN  IF n \in Authorities THEN HandleTimeout(n, Gossip(stopped, t), t)
      ELSE stopped

(***************************************************************************)
(* PendingFinalizeBlockQueue (import.rs).                                   *)
(***************************************************************************)
(* new collects the blocks between the finalized and the best one, but the  *)
(* queue it returns is another, empty one. *)
NewPendingQueue == <<>>

(* poll: the queue after the new best blocks have been pushed and every     *)
(* leading block that is not above the finalized number has been popped. *)
PollQueue(queue, imports, finalizedNumber) ==
  LET pushed == queue \o imports
  IN  SubSeq(pushed, FirstAbove(pushed, finalizedNumber), Len(pushed))
=============================================================================
