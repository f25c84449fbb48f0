---------------------------- MODULE HotstuffProofs ----------------------------
(***************************************************************************)
(* Proofs about HotstuffConsensus for every number of authorities, every    *)
(* set of blocks and every bound.                                           *)
(*                                                                         *)
(* The handlers of HotstuffWorker are compositions of small state           *)
(* transformers.  Two facts are carried through every composition: the      *)
(* worker state keeps its type (WorkerState), and signing is disciplined    *)
(* (SignStep): a handler of node n adds only votes of n, for views above    *)
(* the last_voted_view it started with, at most one per view, and raises    *)
(* last_voted_view to cover them.  SignStep is transitive, so it is proved  *)
(* once per transformer.                                                    *)
(***************************************************************************)
EXTENDS HotstuffConsensus, FiniteSetTheorems, SequenceTheorems,
        WellFoundedInduction, TLAPS

WorkerState ==
  [view : Nat, last_voted_view : Nat, high_qc : QC,
   votes_aggregator : SUBSET Vote,
   timeouts_aggregators : SUBSET [view : Nat, vote : TimeoutVote],
   processing_block : BlockInfo \cup {None},
   proposal_hash_queue : Seq(Blocks \cup {EmptyHash}),
   pending_queue : Seq(BlockInfo), finalize_notification : Nat,
   store : SUBSET ProposalHash, imported : SUBSET Blocks, finalized : Blocks,
   local_timer : {"running", "reset"},
   msgs : SUBSET ConsensusMessage, signed : SUBSET Vote]

(* What a handler of node n that starts in w and ends in x may have signed. *)
SignStep(n, w, x) ==
  /\ w.signed \subseteq x.signed
  /\ w.last_voted_view <= x.last_voted_view
  /\ \A s \in x.signed \ w.signed :
       /\ s.voter = n
       /\ w.last_voted_view < s.view
       /\ s.view <= x.last_voted_view
  /\ \A s, t \in x.signed \ w.signed : s.view = t.view => s = t

(* A step that signs nothing. *)
Quiet(w, x) == x.signed = w.signed /\ x.last_voted_view = w.last_voted_view

Step(n, w, x) == x \in WorkerState /\ SignStep(n, w, x)

(* The types of the fields the discipline is about. *)
LEMMA SigningFields ==
  ASSUME NEW w \in WorkerState
  PROVE  /\ w.last_voted_view \in Nat
         /\ \A s \in w.signed : s.view \in Nat
  BY DEF WorkerState, Vote

(***************************************************************************)
(* Composing steps.                                                        *)
(***************************************************************************)
(* A step that signs nothing is a disciplined one. *)
LEMMA QuietStep ==
  ASSUME NEW n, NEW w \in WorkerState, NEW x \in WorkerState, Quiet(w, x)
  PROVE  Step(n, w, x)
  BY DEF WorkerState, Quiet, Step, SignStep

(* Disciplined steps compose. *)
LEMMA StepTransitive ==
  ASSUME NEW n, NEW w \in WorkerState, NEW x, NEW y,
         Step(n, w, x), Step(n, x, y)
  PROVE  Step(n, w, y)
<1>1. x \in WorkerState /\ y \in WorkerState
  BY DEF Step
<1>2. /\ w.last_voted_view \in Nat
      /\ x.last_voted_view \in Nat
      /\ y.last_voted_view \in Nat
      /\ \A s \in y.signed : s.view \in Nat
  BY <1>1, SigningFields
<1>3. w.signed \subseteq y.signed /\ w.last_voted_view <= y.last_voted_view
  BY <1>2 DEF Step, SignStep
<1>4. ASSUME NEW s \in y.signed \ w.signed
      PROVE  /\ s.voter = n /\ w.last_voted_view < s.view
             /\ s.view <= y.last_voted_view
  BY <1>2 DEF Step, SignStep
<1>5. ASSUME NEW s \in y.signed \ w.signed, NEW t \in y.signed \ w.signed,
             s.view = t.view
      PROVE  s = t
  BY <1>2, <1>5 DEF Step, SignStep
<1> QED BY <1>1, <1>3, <1>4, <1>5 DEF Step, SignStep

(***************************************************************************)
(* Helpers.                                                                *)
(***************************************************************************)
(* The height of a block (the header number import.rs reads) is a           *)
(* natural number. *)
LEMMA BlockNumberType == ASSUME NEW b \in Blocks PROVE BlockNumber(b) \in Nat
  BY BlocksAssumption, FS_Subset, FS_CardinalityType DEF BlockNumber

(* Every non-empty set of naturals has a least element. *)
LEMMA LeastNat ==
  ASSUME NEW T \in SUBSET Nat, T # {}
  PROVE  \E i \in T : \A j \in T : i <= j
<1>1. PICK i \in T : \A j \in T : <<j, i>> \notin OpToRel(<, Nat)
  BY NatLessThanWellFounded, WFMin
<1>2. \A j \in T : ~(j < i)
  BY <1>1, Zenon DEF OpToRel
<1> QED BY <1>2

(* FirstAbove is the place of the first queued block above a number, or one *)
(* past the end. *)
LEMMA FirstAboveProperties ==
  ASSUME NEW queue \in Seq(BlockInfo), NEW number \in Nat
  PROVE  /\ FirstAbove(queue, number) \in 1 .. (Len(queue) + 1)
         /\ \A j \in 1 .. (FirstAbove(queue, number) - 1) :
              queue[j].number <= number
         /\ FirstAbove(queue, number) <= Len(queue) =>
              queue[FirstAbove(queue, number)].number > number
<1> DEFINE above == {i \in 1 .. Len(queue) : queue[i].number > number}
           T == above \cup {Len(queue) + 1}
<1>1. \A i \in 1 .. Len(queue) : queue[i].number \in Nat
  <2>1. \A i \in 1 .. Len(queue) : queue[i] \in BlockInfo
    OBVIOUS
  <2> QED BY <2>1 DEF BlockInfo
<1>2. PICK i \in T : \A j \in T : i <= j
  <2>1. T \in SUBSET Nat /\ T # {}
    OBVIOUS
  <2> QED BY <2>1, LeastNat, Zenon
<1>3. /\ i \in 1 .. (Len(queue) + 1)
      /\ \A j \in 1 .. (i - 1) : queue[j].number <= number
      /\ i <= Len(queue) => queue[i].number > number
  <2>1. i \in 1 .. (Len(queue) + 1) /\ (i <= Len(queue) => queue[i].number > number)
    BY <1>2
  <2>2. ASSUME NEW j \in 1 .. (i - 1) PROVE queue[j].number <= number
    <3>1. j \in 1 .. Len(queue) /\ j < i
      BY <2>1
    <3>2. j \notin T
      BY <1>2, <3>1
    <3> QED BY <1>1, <3>1, <3>2
  <2> QED BY <2>1, <2>2
<1> QED BY <1>3 DEF FirstAbove

(***************************************************************************)
(* The transformers that sign nothing.                                     *)
(***************************************************************************)
(* Gossiping a message (gossip_engine.gossip_message) signs no vote. *)
LEMMA GossipStep ==
  ASSUME NEW n, NEW w \in WorkerState, NEW m \in ConsensusMessage
  PROVE  Step(n, w, Gossip(w, m))
<1>1. Gossip(w, m) \in WorkerState /\ Quiet(w, Gossip(w, m))
  BY Zenon DEF Gossip, WorkerState, Quiet
<1> QED BY <1>1, QuietStep

(* Resetting the local timer (Timer::reset) signs nothing. *)
LEMMA ResetTimerStep ==
  ASSUME NEW n, NEW w \in WorkerState
  PROVE  Step(n, w, ResetTimer(w))
<1>1. ResetTimer(w) \in WorkerState /\ Quiet(w, ResetTimer(w))
  BY Zenon DEF ResetTimer, WorkerState, Quiet
<1> QED BY <1>1, QuietStep

(* advance_view_from_target changes the view only, and keeps it a           *)
(* natural. *)
LEMMA AdvanceViewStep ==
  ASSUME NEW n, NEW w \in WorkerState, NEW target \in Nat
  PROVE  Step(n, w, AdvanceView(w, target))
<1> DEFINE v == IF w.view >= target THEN target + 1 ELSE w.view
           x == [w EXCEPT !.view = v]
<1>1. v \in Nat
  BY DEF WorkerState
<1> HIDE DEF v
<1>2. x \in WorkerState /\ Quiet(w, x)
  BY <1>1, Zenon DEF WorkerState, Quiet
<1>3. AdvanceView(w, target) = x
  BY DEF AdvanceView, v
<1> QED BY <1>2, <1>3, QuietStep

(* update_high_qc changes high_qc only, to a well-formed QC. *)
LEMMA UpdateHighQCStep ==
  ASSUME NEW n, NEW w \in WorkerState, NEW qc \in QC
  PROVE  Step(n, w, UpdateHighQC(w, qc))
<1> DEFINE h == IF qc.view > w.high_qc.view THEN qc ELSE w.high_qc
           x == [w EXCEPT !.high_qc = h]
<1>1. h \in QC
  BY DEF WorkerState
<1> HIDE DEF h
<1>2. x \in WorkerState /\ Quiet(w, x)
  BY <1>1, Zenon DEF WorkerState, Quiet
<1>3. UpdateHighQC(w, qc) = x
  BY DEF UpdateHighQC, h
<1> QED BY <1>2, <1>3, QuietStep

(* handle_qc signs no vote and keeps the worker state well formed. *)
LEMMA HandleQCStep ==
  ASSUME NEW n, NEW w \in WorkerState, NEW qc \in QC
  PROVE  Step(n, w, HandleQC(w, qc))
<1> DEFINE moved == AdvanceView(w, qc.view)
           updated == UpdateHighQC(moved, qc)
<1>1. qc.view \in Nat
  BY DEF QC
<1>2. Step(n, w, moved) /\ moved \in WorkerState
  BY <1>1, AdvanceViewStep DEF Step
<1>3. Step(n, moved, updated) /\ updated \in WorkerState
  BY <1>2, UpdateHighQCStep DEF Step
<1>4. Step(n, w, updated)
  BY <1>2, <1>3, StepTransitive
<1>5. Step(n, w, ResetTimer(updated))
  BY <1>3, <1>4, ResetTimerStep, StepTransitive
<1>6. Step(n, w, w)
  BY QuietStep DEF Quiet
<1> QED BY <1>5, <1>6 DEF HandleQC

(* Advancing the view and resetting the timer, as the handlers of           *)
(* certificates do, signs nothing. *)
LEMMA AdvanceAndResetStep ==
  ASSUME NEW n, NEW w \in WorkerState, NEW target \in Nat
  PROVE  Step(n, w, ResetTimer(AdvanceView(w, target)))
<1>1. Step(n, w, AdvanceView(w, target)) /\ AdvanceView(w, target) \in WorkerState
  BY AdvanceViewStep DEF Step
<1> QED BY <1>1, ResetTimerStep, StepTransitive

(* Assigning processing_block is a quiet step. *)
LEMMA ProcessingStep ==
  ASSUME NEW n, NEW w \in WorkerState, NEW b \in BlockInfo \cup {None}
  PROVE  Step(n, w, [w EXCEPT !.processing_block = b])
<1>1. /\ [w EXCEPT !.processing_block = b] \in WorkerState
      /\ Quiet(w, [w EXCEPT !.processing_block = b])
  BY Zenon DEF WorkerState, Quiet
<1> QED BY <1>1, QuietStep

(* Pushing to or clearing proposal_hash_queue is a quiet step. *)
LEMMA HashQueueStep ==
  ASSUME NEW n, NEW w \in WorkerState, NEW q \in Seq(Blocks \cup {EmptyHash})
  PROVE  Step(n, w, [w EXCEPT !.proposal_hash_queue = q])
<1>1. /\ [w EXCEPT !.proposal_hash_queue = q] \in WorkerState
      /\ Quiet(w, [w EXCEPT !.proposal_hash_queue = q])
  BY Zenon DEF WorkerState, Quiet
<1> QED BY <1>1, QuietStep

(* Storing votes in the aggregator (add_vote) is a quiet step. *)
LEMMA VotesStep ==
  ASSUME NEW n, NEW w \in WorkerState, NEW votes \in SUBSET Vote
  PROVE  Step(n, w, [w EXCEPT !.votes_aggregator = votes])
<1>1. /\ [w EXCEPT !.votes_aggregator = votes] \in WorkerState
      /\ Quiet(w, [w EXCEPT !.votes_aggregator = votes])
  BY Zenon DEF WorkerState, Quiet
<1> QED BY <1>1, QuietStep

(* Storing timeouts in the aggregator (add_timeout) is a quiet step. *)
LEMMA TimeoutsStep ==
  ASSUME NEW n, NEW w \in WorkerState,
         NEW timeouts \in SUBSET [view : Nat, vote : TimeoutVote]
  PROVE  Step(n, w, [w EXCEPT !.timeouts_aggregators = timeouts])
<1>1. /\ [w EXCEPT !.timeouts_aggregators = timeouts] \in WorkerState
      /\ Quiet(w, [w EXCEPT !.timeouts_aggregators = timeouts])
  BY Zenon DEF WorkerState, Quiet
<1> QED BY <1>1, QuietStep

(* The digest of a proposal is a proposal hash. *)
LEMMA ProposalDigestType ==
  ASSUME NEW p \in Proposal PROVE ProposalDigest(p) \in ProposalHash
<1>1. /\ p.qc.proposal_hash \in ProposalHash
      /\ [author |-> p.author, payload |-> p.payload, view |-> p.view]
           \in [author : Authorities, payload : Payload, view : Nat]
  BY DEF Proposal, QC
<1> QED BY <1>1, AppendProperties DEF ProposalDigest, ProposalHash

(* Synchronizer::save_proposal stores a proposal hash and signs             *)
(* nothing. *)
LEMMA SaveProposalStep ==
  ASSUME NEW n, NEW w \in WorkerState, NEW p \in Proposal
  PROVE  Step(n, w, SaveProposal(w, p))
<1>1. /\ SaveProposal(w, p) \in WorkerState
      /\ Quiet(w, SaveProposal(w, p))
  BY ProposalDigestType, Zenon DEF SaveProposal, WorkerState, Quiet
<1> QED BY <1>1, QuietStep

(* Whatever hash the client is asked to finalize, its last finalized        *)
(* block stays a block and the notification a number. *)
LEMMA FinalizeBlockStep ==
  ASSUME NEW n, NEW w \in WorkerState, NEW b
  PROVE  Step(n, w, FinalizeBlock(w, b))
<1> DEFINE x == [w EXCEPT !.finalized = b, !.finalize_notification = BlockNumber(b)]
<1>1. CASE b \in w.imported /\ w.finalized \in Ancestors[b]
  <2>1. b \in Blocks
    BY <1>1 DEF WorkerState
  <2>2. BlockNumber(b) \in Nat
    BY <2>1, BlockNumberType
  <2>3. x \in WorkerState /\ Quiet(w, x)
    BY <2>1, <2>2, Zenon DEF WorkerState, Quiet
  <2> QED BY <1>1, <2>3, QuietStep DEF FinalizeBlock
<1>2. CASE ~(b \in w.imported /\ w.finalized \in Ancestors[b])
  BY <1>2, QuietStep DEF FinalizeBlock, Quiet
<1> QED BY <1>1, <1>2

(* The two-chain check of handle_proposal signs nothing. *)
LEMMA TryFinalizeStep ==
  ASSUME NEW n, NEW w \in WorkerState, NEW p \in Proposal
  PROVE  Step(n, w, TryFinalize(w, p))
<1>1. Step(n, w, w)
  BY QuietStep DEF Quiet
<1>2. \A b : Step(n, w, FinalizeBlock(w, b))
  BY FinalizeBlockStep
<1> QED BY <1>1, <1>2 DEF TryFinalize

(* handle_proposal up to its view comparison signs nothing. *)
LEMMA AcceptProposalStep ==
  ASSUME NEW n, NEW w \in WorkerState, NEW p \in Proposal
  PROVE  Step(n, w, AcceptProposal(w, p))
<1> DEFINE q == HandleQC(w, p.qc)
           t == IF p.tc # None /\ p.tc > q.view
                THEN ResetTimer(AdvanceView(q, p.tc)) ELSE q
           s == SaveProposal(t, p)
<1>1. p.qc \in QC /\ p.tc \in Nat \cup {None}
  BY DEF Proposal
<1>2. Step(n, w, q) /\ q \in WorkerState
  BY <1>1, HandleQCStep DEF Step
<1> HIDE DEF q
<1>3. Step(n, q, t) /\ t \in WorkerState
  <2>1. CASE p.tc # None /\ p.tc > q.view
    BY <1>1, <1>2, <2>1, AdvanceAndResetStep DEF Step
  <2>2. CASE ~(p.tc # None /\ p.tc > q.view)
    BY <1>2, <2>2, QuietStep DEF Quiet
  <2> QED BY <2>1, <2>2
<1>4. Step(n, w, t)
  BY <1>2, <1>3, StepTransitive
<1> HIDE DEF t
<1>5. Step(n, t, s) /\ s \in WorkerState
  BY <1>3, SaveProposalStep DEF Step
<1>6. Step(n, w, s)
  BY <1>4, <1>5, StepTransitive
<1> HIDE DEF s
<1>7. Step(n, s, TryFinalize(s, p))
  BY <1>5, TryFinalizeStep
<1>8. Step(n, w, TryFinalize(s, p))
  BY <1>6, <1>7, StepTransitive
<1> QED BY <1>8 DEF AcceptProposal, q, t, s

(***************************************************************************)
(* What get_proposal_payload returns.                                      *)
(***************************************************************************)
(* get_proposal_payload leaves processing_block a block of the queue,       *)
(* the former one, or none. *)
LEMMA NextProcessingType ==
  ASSUME NEW w \in WorkerState
  PROVE  NextProcessing(w) \in BlockInfo \cup {None}
<1> DEFINE finalized_number == BlockNumber(w.finalized)
           i == FirstAbove(w.pending_queue, finalized_number)
<1>1. /\ w.pending_queue \in Seq(BlockInfo)
      /\ w.processing_block \in BlockInfo \cup {None}
      /\ w.finalized \in Blocks
  BY DEF WorkerState
<1>2. finalized_number \in Nat
  BY <1>1, BlockNumberType
<1> HIDE DEF finalized_number
<1>3. ASSUME QueuedAbove(w.pending_queue, finalized_number)
      PROVE  w.pending_queue[i] \in BlockInfo
  <2>1. PICK k \in 1 .. Len(w.pending_queue) :
          w.pending_queue[k].number > finalized_number
    BY <1>1, <1>3 DEF QueuedAbove
  <2>2. w.pending_queue[k].number \in Nat
    <3>1. w.pending_queue[k] \in BlockInfo
      BY <1>1, <2>1
    <3> QED BY <3>1 DEF BlockInfo
  <2>3. /\ i \in 1 .. (Len(w.pending_queue) + 1)
        /\ \A j \in 1 .. (i - 1) : w.pending_queue[j].number <= finalized_number
    BY <1>1, <1>2, FirstAboveProperties, Zenon
  <2>4. i \in 1 .. Len(w.pending_queue)
    BY <1>1, <1>2, <2>1, <2>2, <2>3
  <2> QED BY <1>1, <2>4
<1>4. w.pending_queue # <<>> => Head(w.pending_queue) \in BlockInfo
  BY <1>1, HeadTailProperties
<1> QED BY <1>1, <1>3, <1>4 DEF NextProcessing, finalized_number

(* When get_proposal_payload returns a payload, the payload is well         *)
(* formed. *)
LEMMA NextPayloadType ==
  ASSUME NEW w \in WorkerState, NextProcessing(w) # None
  PROVE  NextPayload(w) \in Payload
<1>1. NextProcessing(w) \in BlockInfo
  BY NextProcessingType
<1>2. /\ NextProcessing(w).hash \in Blocks \cup {EmptyHash}
      /\ NextProcessing(w).number \in Nat
  BY <1>1 DEF BlockInfo
<1> QED BY <1>2 DEF NextPayload, Payload

(***************************************************************************)
(* Voting.                                                                 *)
(***************************************************************************)
(* The vote that make_vote builds is a well-formed vote and message. *)
LEMMA VoteForType ==
  ASSUME NEW n \in Authorities, NEW p \in Proposal
  PROVE  VoteFor(n, p) \in Vote /\ VoteFor(n, p) \in ConsensusMessage
<1>1. p.view \in Nat
  BY DEF Proposal
<1> QED BY <1>1, ProposalDigestType DEF VoteFor, Vote, ConsensusMessage

(* make_vote under its guards is a disciplined step: the one vote it        *)
(* signs is the node's own, above the old last_voted_view and covered       *)
(* by the new one. *)
LEMMA CastVoteStep ==
  ASSUME NEW n, NEW w \in WorkerState, NEW p \in Proposal, MakesVote(n, w, p)
  PROVE  Step(n, w, CastVote(n, w, p))
<1> DEFINE x == CastVote(n, w, p)
           vote == VoteFor(n, p)
           b == [hash |-> p.payload.block_hash, number |-> p.payload.block_number]
           q == Append(w.proposal_hash_queue, p.payload.block_hash)
           v == Higher(w.last_voted_view, p.view)
<1>1. /\ n \in Authorities /\ p.view \in Nat /\ w.last_voted_view \in Nat
      /\ p.view > w.last_voted_view
      /\ p.payload \in Payload
  BY DEF MakesVote, Proposal, WorkerState
<1>2. vote \in Vote
  BY <1>1, VoteForType
<1>3. v = p.view
  BY <1>1 DEF Higher
<1>4. b \in BlockInfo /\ p.payload.block_hash \in Blocks \cup {EmptyHash}
  BY <1>1 DEF Payload, BlockInfo
<1>5. q \in Seq(Blocks \cup {EmptyHash})
  <2>1. w.proposal_hash_queue \in Seq(Blocks \cup {EmptyHash})
    BY DEF WorkerState
  <2> QED BY <1>4, <2>1, AppendProperties
<1>6. vote.voter = n /\ vote.view = p.view
  BY DEF VoteFor
<1>7. x = [w EXCEPT !.last_voted_view = v, !.signed = w.signed \cup {vote},
                    !.proposal_hash_queue = q, !.processing_block = b]
  BY DEF CastVote
<1> HIDE DEF x, vote, b, q, v
<1>8. x \in WorkerState
  BY <1>1, <1>2, <1>3, <1>4, <1>5, <1>7, Zenon DEF WorkerState
<1>9. x.signed = w.signed \cup {vote} /\ x.last_voted_view = p.view
  BY <1>3, <1>7 DEF WorkerState
<1>10. SignStep(n, w, x)
  BY <1>1, <1>6, <1>9 DEF SignStep
<1> QED BY <1>8, <1>10 DEF Step, x

(* A leader handling its own proposal takes a disciplined step. *)
LEMMA HandleOwnProposalStep ==
  ASSUME NEW n, NEW w \in WorkerState, NEW p \in Proposal
  PROVE  Step(n, w, HandleOwnProposal(n, w, p))
<1> DEFINE a == AcceptProposal(w, p)
           voted == CastVote(n, a, p)
           sent == Gossip(voted, VoteFor(n, p))
<1>1. Step(n, w, w)
  BY QuietStep DEF Quiet
<1>2. Step(n, w, a) /\ a \in WorkerState
  BY AcceptProposalStep DEF Step
<1> HIDE DEF a
<1>3. ASSUME MakesVote(n, a, p)
      PROVE  Step(n, w, sent)
  <2>1. Step(n, a, voted) /\ voted \in WorkerState
    BY <1>2, <1>3, CastVoteStep DEF Step
  <2>2. VoteFor(n, p) \in ConsensusMessage
    BY <1>3, VoteForType DEF MakesVote
  <2> HIDE DEF voted
  <2>3. Step(n, voted, sent)
    BY <2>1, <2>2, GossipStep
  <2>4. Step(n, w, voted)
    BY <1>2, <2>1, StepTransitive
  <2> QED BY <2>3, <2>4, StepTransitive
<1> QED BY <1>1, <1>2, <1>3 DEF HandleOwnProposal, a

(***************************************************************************)
(* Proposing.                                                              *)
(***************************************************************************)
(* make_proposal, its gossip and the handling of it are a disciplined       *)
(* step. *)
LEMMA ProposeStep ==
  ASSUME NEW n \in Authorities, NEW w \in WorkerState, NEW payload \in Payload,
         NEW tc \in Nat \cup {None}
  PROVE  Step(n, w, Propose(n, w, payload, tc))
<1> DEFINE p == MakeProposal(n, w, payload, tc)
           sent == Gossip(w, p)
<1>1. p \in Proposal
  <2>1. w.high_qc \in QC /\ w.view \in Nat
    BY DEF WorkerState
  <2> QED BY <2>1 DEF MakeProposal, Proposal
<1>2. p \in ConsensusMessage
  BY <1>1 DEF ConsensusMessage
<1> HIDE DEF p
<1>3. Step(n, w, sent) /\ sent \in WorkerState
  BY <1>2, GossipStep DEF Step
<1> HIDE DEF sent
<1>4. Step(n, sent, HandleOwnProposal(n, sent, p))
  BY <1>1, <1>3, HandleOwnProposalStep
<1>5. Step(n, w, HandleOwnProposal(n, sent, p))
  BY <1>3, <1>4, StepTransitive
<1> QED BY <1>5 DEF Propose, p, sent

(* generate_proposal is a disciplined step, with or without a TC. *)
LEMMA GenerateProposalStep ==
  ASSUME NEW n \in Authorities, NEW w \in WorkerState, NEW tc \in Nat \cup {None}
  PROVE  Step(n, w, GenerateProposal(n, w, tc))
<1> DEFINE taken == [w EXCEPT !.processing_block = NextProcessing(w)]
           payload == NextPayload(w)
<1>1. CASE NextProcessing(w) = None
  BY <1>1, QuietStep DEF GenerateProposal, Quiet
<1>2. CASE NextProcessing(w) # None
  <2>1. Step(n, w, taken) /\ taken \in WorkerState
    BY NextProcessingType, ProcessingStep DEF Step
  <2>2. payload \in Payload
    BY <1>2, NextPayloadType
  <2>3. GenerateProposal(n, w, tc) = Propose(n, taken, payload, tc)
    BY <1>2 DEF GenerateProposal
  <2> HIDE DEF taken, payload
  <2>4. Step(n, taken, Propose(n, taken, payload, tc))
    BY <2>1, <2>2, ProposeStep
  <2> QED BY <2>1, <2>3, <2>4, StepTransitive
<1> QED BY <1>1, <1>2

(* The proposal handle_vote makes after a QC is a disciplined step,         *)
(* also when the empty-payload limit suppresses it. *)
LEMMA ProposeOnQCStep ==
  ASSUME NEW n \in Authorities, NEW w \in WorkerState
  PROVE  Step(n, w, ProposeOnQC(n, w))
<1> DEFINE payload == NextPayload(w)
           taken == [w EXCEPT !.processing_block = NextProcessing(w)]
           kept == IF Len(taken.proposal_hash_queue) > 3
                   THEN <<>> ELSE taken.proposal_hash_queue
           q == Append(kept, payload.block_hash)
           queued == [taken EXCEPT !.proposal_hash_queue = q]
<1>1. CASE NextProcessing(w) = None
  BY <1>1, QuietStep DEF ProposeOnQC, Quiet
<1>2. CASE NextProcessing(w) # None
  <2>1. Step(n, w, taken) /\ taken \in WorkerState
    BY NextProcessingType, ProcessingStep DEF Step
  <2>2. payload \in Payload /\ payload.block_hash \in Blocks \cup {EmptyHash}
    BY <1>2, NextPayloadType DEF Payload
  <2>3. ProposeOnQC(n, w) = IF TooManyEmpty(w, payload) THEN taken
                            ELSE Propose(n, queued, payload, None)
    BY <1>2 DEF ProposeOnQC
  <2> HIDE DEF taken, payload
  <2>4. kept \in Seq(Blocks \cup {EmptyHash})
    BY <2>1 DEF WorkerState
  <2> HIDE DEF kept
  <2>5. q \in Seq(Blocks \cup {EmptyHash})
    BY <2>2, <2>4, AppendProperties
  <2> HIDE DEF q
  <2>6. Step(n, taken, queued) /\ queued \in WorkerState
    BY <2>1, <2>5, HashQueueStep, Zenon DEF Step
  <2>7. Step(n, w, queued)
    BY <2>1, <2>6, StepTransitive
  <2> HIDE DEF queued
  <2>8. Step(n, queued, Propose(n, queued, payload, None))
    BY <2>2, <2>6, ProposeStep, Zenon
  <2>9. Step(n, w, Propose(n, queued, payload, None))
    BY <2>7, <2>8, StepTransitive
  <2> QED BY <2>1, <2>3, <2>9
<1> QED BY <1>1, <1>2

(***************************************************************************)
(* The handlers.                                                           *)
(***************************************************************************)
(* The QC that QCMaker::append returns is well formed. *)
LEMMA MadeQCType ==
  ASSUME NEW votes \in SUBSET Vote, NEW vote \in Vote
  PROVE  MadeQC(votes, vote) \in QC
<1>1. /\ vote.proposal_hash \in ProposalHash /\ vote.view \in Nat
      /\ \A u \in votes \cup {vote} : u.voter \in Authorities
  BY DEF Vote
<1>2. QCMakerVoters(votes \cup {vote}, vote) \subseteq Authorities
  BY <1>1 DEF QCMakerVoters
<1> QED BY <1>1, <1>2, Zenon DEF MadeQC, AppendVote, QC

(* handle_vote is a disciplined step. *)
LEMMA HandleVoteStep ==
  ASSUME NEW n, NEW w \in WorkerState, NEW vote \in Vote
  PROVE  Step(n, w, HandleVote(n, w, vote))
<1> DEFINE votes == AppendVote(w.votes_aggregator, vote)
           added == [w EXCEPT !.votes_aggregator = votes]
           qc == MadeQC(w.votes_aggregator, vote)
           q == HandleQC(added, qc)
<1>1. votes \in SUBSET Vote /\ w.votes_aggregator \in SUBSET Vote
  BY DEF AppendVote, WorkerState
<1>2. qc \in QC
  BY <1>1, MadeQCType
<1>3. Step(n, w, w)
  BY QuietStep DEF Quiet
<1>4. HandleVote(n, w, vote) \in
        {w, added, q} \cup {x \in {ProposeOnQC(n, q)} : IsLeader(n, q)}
  BY DEF HandleVote
<1> HIDE DEF votes, qc
<1>5. Step(n, w, added) /\ added \in WorkerState
  BY <1>1, VotesStep, Zenon DEF Step
<1> HIDE DEF added
<1>6. Step(n, added, q) /\ q \in WorkerState
  BY <1>2, <1>5, HandleQCStep DEF Step
<1>7. Step(n, w, q)
  BY <1>5, <1>6, StepTransitive
<1> HIDE DEF q
<1>8. ASSUME IsLeader(n, q) PROVE Step(n, w, ProposeOnQC(n, q))
  <2>1. Step(n, q, ProposeOnQC(n, q))
    BY <1>6, <1>8, ProposeOnQCStep DEF IsLeader
  <2> QED BY <1>7, <2>1, StepTransitive
<1> QED BY <1>3, <1>4, <1>5, <1>7, <1>8

(* handle_proposal is a disciplined step, also when the voter leads the     *)
(* next view and counts its own vote at once. *)
LEMMA HandleProposalStep ==
  ASSUME NEW n, NEW w \in WorkerState, NEW p \in Proposal
  PROVE  Step(n, w, HandleProposal(n, w, p))
<1> DEFINE a == AcceptProposal(w, p)
           voted == CastVote(n, a, p)
           vote == VoteFor(n, p)
<1>1. Step(n, w, w)
  BY QuietStep DEF Quiet
<1>2. Step(n, w, a) /\ a \in WorkerState
  BY AcceptProposalStep DEF Step
<1> HIDE DEF a
<1>3. ASSUME MakesVote(n, a, p)
      PROVE  /\ Step(n, w, HandleVote(n, voted, vote))
             /\ Step(n, w, Gossip(voted, vote))
  <2>1. Step(n, a, voted) /\ voted \in WorkerState
    BY <1>2, <1>3, CastVoteStep DEF Step
  <2>2. vote \in Vote /\ vote \in ConsensusMessage
    BY <1>3, VoteForType DEF MakesVote
  <2>3. Step(n, w, voted)
    BY <1>2, <2>1, StepTransitive
  <2> HIDE DEF voted, vote
  <2>4. Step(n, voted, HandleVote(n, voted, vote))
    BY <2>1, <2>2, HandleVoteStep
  <2>5. Step(n, voted, Gossip(voted, vote))
    BY <2>1, <2>2, GossipStep
  <2> QED BY <2>3, <2>4, <2>5, StepTransitive
<1> QED BY <1>1, <1>2, <1>3 DEF HandleProposal, a

(* TCMaker::append keeps well-formed entries and returns a well-formed      *)
(* TC for the timeout's view. *)
LEMMA AppendTimeoutType ==
  ASSUME NEW timeouts \in SUBSET [view : Nat, vote : TimeoutVote],
         NEW t \in Timeout
  PROVE  /\ AppendTimeout(timeouts, t) \in SUBSET [view : Nat, vote : TimeoutVote]
         /\ MadeTC(timeouts, t) \in TC
         /\ MadeTC(timeouts, t).view = t.view
<1>1. t.view \in Nat /\ t.voter \in Authorities /\ t.high_qc.view \in Nat
  BY DEF Timeout, QC
<1>2. TimeoutEntry(t) \in [view : Nat, vote : TimeoutVote]
  BY <1>1 DEF TimeoutEntry, TimeoutVote, TimeoutDigest
<1>3. AppendTimeout(timeouts, t) \in SUBSET [view : Nat, vote : TimeoutVote]
  BY <1>2 DEF AppendTimeout
<1>4. TCMakerVotes(AppendTimeout(timeouts, t), t.view) \subseteq TimeoutVote
  BY <1>3 DEF TCMakerVotes
<1> QED BY <1>1, <1>3, <1>4 DEF MadeTC, TC

(* handle_timeout is a disciplined step, the proposal on a new TC           *)
(* included. *)
LEMMA HandleTimeoutStep ==
  ASSUME NEW n, NEW w \in WorkerState, NEW t \in Timeout
  PROVE  Step(n, w, HandleTimeout(n, w, t))
<1> DEFINE q == HandleQC(w, t.high_qc)
           timeouts == AppendTimeout(q.timeouts_aggregators, t)
           added == [q EXCEPT !.timeouts_aggregators = timeouts]
           tc == MadeTC(q.timeouts_aggregators, t)
           moved == IF tc.view >= added.view
                    THEN ResetTimer(AdvanceView(added, tc.view)) ELSE added
           sent == Gossip(moved, tc)
           reset == [sent EXCEPT !.processing_block = None]
<1>1. Step(n, w, w)
  BY QuietStep DEF Quiet
<1>2. HandleTimeout(n, w, t) \in
        {w, added, sent}
          \cup {x \in {GenerateProposal(n, reset, tc.view)} : IsLeader(n, sent)}
  BY DEF HandleTimeout
<1>3. t.high_qc \in QC /\ t.view \in Nat
  BY DEF Timeout
<1>4. Step(n, w, q) /\ q \in WorkerState
  BY <1>3, HandleQCStep DEF Step
<1> HIDE DEF q
<1>5. /\ timeouts \in SUBSET [view : Nat, vote : TimeoutVote]
      /\ tc \in TC /\ tc.view \in Nat
  <2>1. q.timeouts_aggregators \in SUBSET [view : Nat, vote : TimeoutVote]
    BY <1>4 DEF WorkerState
  <2> QED BY <1>3, <2>1, AppendTimeoutType
<1> HIDE DEF timeouts, tc
<1>6. Step(n, q, added) /\ added \in WorkerState
  BY <1>4, <1>5, TimeoutsStep, Zenon DEF Step
<1>7. Step(n, w, added)
  BY <1>4, <1>6, StepTransitive
<1> HIDE DEF added
<1>8. Step(n, w, moved) /\ moved \in WorkerState
  <2>1. Step(n, added, ResetTimer(AdvanceView(added, tc.view)))
    BY <1>5, <1>6, AdvanceAndResetStep
  <2>2. Step(n, w, ResetTimer(AdvanceView(added, tc.view)))
    BY <1>7, <2>1, StepTransitive
  <2> QED BY <1>7, <2>2 DEF Step
<1> HIDE DEF moved
<1>9. Step(n, w, sent) /\ sent \in WorkerState
  <2>1. Step(n, moved, sent)
    BY <1>5, <1>8, GossipStep DEF ConsensusMessage
  <2>2. Step(n, w, sent)
    BY <1>8, <2>1, StepTransitive
  <2> QED BY <2>2 DEF Step
<1> HIDE DEF sent
<1>10. ASSUME IsLeader(n, sent) PROVE Step(n, w, GenerateProposal(n, reset, tc.view))
  <2>1. Step(n, sent, reset) /\ reset \in WorkerState
    BY <1>9, ProcessingStep DEF Step
  <2>2. Step(n, w, reset)
    BY <1>9, <2>1, StepTransitive
  <2> HIDE DEF reset
  <2>3. Step(n, reset, GenerateProposal(n, reset, tc.view))
    BY <1>5, <1>10, <2>1, GenerateProposalStep DEF IsLeader
  <2> QED BY <2>2, <2>3, StepTransitive
<1> QED BY <1>1, <1>2, <1>7, <1>9, <1>10

(* handle_tc is a disciplined step. *)
LEMMA HandleTCStep ==
  ASSUME NEW n, NEW w \in WorkerState, NEW tc \in TC
  PROVE  Step(n, w, HandleTC(n, w, tc))
<1> DEFINE advanced == ResetTimer(AdvanceView(w, tc.view))
           moved == [advanced EXCEPT !.processing_block = None]
<1>1. Step(n, w, w)
  BY QuietStep DEF Quiet
<1>2. tc.view \in Nat
  BY DEF TC
<1>3. HandleTC(n, w, tc) \in
        {w, moved} \cup {x \in {GenerateProposal(n, moved, None)} : IsLeader(n, moved)}
  BY DEF HandleTC
<1>4. Step(n, w, advanced) /\ advanced \in WorkerState
  BY <1>2, AdvanceAndResetStep DEF Step
<1> HIDE DEF advanced
<1>5. Step(n, w, moved) /\ moved \in WorkerState
  <2>1. Step(n, advanced, moved)
    BY <1>4, ProcessingStep
  <2>2. Step(n, w, moved)
    BY <1>4, <2>1, StepTransitive
  <2> QED BY <2>2 DEF Step
<1> HIDE DEF moved
<1>6. ASSUME IsLeader(n, moved) PROVE Step(n, w, GenerateProposal(n, moved, None))
  <2>1. Step(n, moved, GenerateProposal(n, moved, None))
    BY <1>5, <1>6, GenerateProposalStep, Zenon DEF IsLeader
  <2> QED BY <1>5, <2>1, StepTransitive
<1> QED BY <1>1, <1>3, <1>5, <1>6

(* handle_local_timer is a disciplined step: it raises last_voted_view      *)
(* and signs no vote before the proposal a TC may lead to. *)
LEMMA HandleLocalTimerStep ==
  ASSUME NEW n, NEW w \in WorkerState
  PROVE  Step(n, w, HandleLocalTimer(n, w))
<1> DEFINE v == Higher(w.last_voted_view, w.view)
           stopped == [ResetTimer(w) EXCEPT !.last_voted_view = v]
           t == MakeTimeout(n, w)
           sent == Gossip(stopped, t)
<1>1. w.view \in Nat /\ w.last_voted_view \in Nat /\ w.high_qc \in QC
  BY DEF WorkerState
<1>2. v \in Nat /\ w.last_voted_view <= v
  BY <1>1 DEF Higher
<1>3. HandleLocalTimer(n, w) =
        IF n \in Authorities THEN HandleTimeout(n, sent, t) ELSE stopped
  BY DEF HandleLocalTimer, IncreaseLastVotedView, ResetTimer, WorkerState
<1>4. n \in Authorities => t \in Timeout /\ t \in ConsensusMessage
  BY <1>1 DEF MakeTimeout, Timeout, ConsensusMessage
<1> HIDE DEF v, t
<1>5. stopped \in WorkerState
  BY <1>2, Zenon DEF WorkerState, ResetTimer
<1>6. stopped.signed = w.signed /\ stopped.last_voted_view = v
  BY DEF WorkerState, ResetTimer
<1>7. Step(n, w, stopped)
  BY <1>2, <1>5, <1>6 DEF Step, SignStep
<1> HIDE DEF stopped
<1>8. ASSUME n \in Authorities PROVE Step(n, w, HandleTimeout(n, sent, t))
  <2>1. Step(n, stopped, sent) /\ sent \in WorkerState
    BY <1>4, <1>5, <1>8, GossipStep DEF Step
  <2>2. Step(n, w, sent)
    BY <1>7, <2>1, StepTransitive
  <2> HIDE DEF sent
  <2>3. Step(n, sent, HandleTimeout(n, sent, t))
    BY <1>4, <1>8, <2>1, HandleTimeoutStep
  <2> QED BY <2>2, <2>3, StepTransitive
<1> QED BY <1>3, <1>7, <1>8

(***************************************************************************)
(* The inductive invariant.                                                *)
(***************************************************************************)
(* A vote of a node that has not been restarted is covered by the node's    *)
(* last_voted_view. *)
VotesCovered ==
  \A s \in signed : s.voter \notin restarted =>
    s.voter \in Nodes /\ s.view <= last_voted_view[s.voter]

IInv == TypeOK /\ VotesCovered /\ VoteOncePerView

(* The handlers start from a well-formed worker state. *)
LEMMA WorkerType ==
  ASSUME TypeOK, NEW n \in Nodes PROVE Worker(n) \in WorkerState
  BY DEF TypeOK, Worker, WorkerState

(* The state ConsensusState::new and the genesis client start from          *)
(* satisfies the invariant. *)
LEMMA InitIInv == Init => IInv
<1> SUFFICES ASSUME Init PROVE IInv
  OBVIOUS
<1>1. DefaultQC \in QC
  BY DEF DefaultQC, QC, ProposalHash
<1>2. TypeOK
  BY <1>1, BlocksAssumption DEF Init, NewPendingQueue, TypeOK
<1>3. VotesCovered /\ VoteOncePerView
  BY DEF Init, VotesCovered, VoteOncePerView
<1> QED BY <1>2, <1>3 DEF IInv

(* Writing back a well-formed worker state keeps every variable well        *)
(* typed. *)
LEMMA CommitTypeOK ==
  ASSUME TypeOK, NEW n \in Nodes, NEW w \in WorkerState, Commit(n, w)
  PROVE  TypeOK'
<1>1. /\ view' \in [Nodes -> Nat]
      /\ last_voted_view' \in [Nodes -> Nat]
      /\ high_qc' \in [Nodes -> QC]
      /\ votes_aggregator' \in [Nodes -> SUBSET Vote]
  BY DEF TypeOK, Commit, WorkerState
<1>2. /\ timeouts_aggregators' \in [Nodes -> SUBSET [view : Nat, vote : TimeoutVote]]
      /\ processing_block' \in [Nodes -> BlockInfo \cup {None}]
      /\ finalize_notification' \in [Nodes -> Nat]
  BY DEF TypeOK, Commit, WorkerState
<1>3. proposal_hash_queue' \in [Nodes -> Seq(Blocks \cup {EmptyHash})]
  <2>1. w.proposal_hash_queue \in Seq(Blocks \cup {EmptyHash})
    BY DEF WorkerState
  <2> QED BY <2>1 DEF TypeOK, Commit
<1>4. /\ store' \in [Nodes -> SUBSET ProposalHash]
      /\ finalized' \in [Nodes -> Blocks]
      /\ msgs' \subseteq ConsensusMessage
      /\ signed' \subseteq Vote
  BY DEF TypeOK, Commit, WorkerState
<1> QED BY <1>1, <1>2, <1>3, <1>4, Zenon DEF TypeOK, Commit

(* A handler's effect, once committed, preserves the invariant. *)
LEMMA CommitIInv ==
  ASSUME IInv, NEW n \in Nodes, NEW w, Step(n, Worker(n), w), Commit(n, w)
  PROVE  IInv'
<1>1. TypeOK'
  BY CommitTypeOK DEF IInv, Step
<1>2. /\ signed' = w.signed /\ restarted' = restarted
      /\ last_voted_view' = [last_voted_view EXCEPT ![n] = w.last_voted_view]
  BY DEF Commit
<1>3. /\ last_voted_view \in [Nodes -> Nat] /\ w.last_voted_view \in Nat
      /\ \A s \in w.signed : s.view \in Nat
  BY SigningFields DEF IInv, TypeOK, Step
<1>4. /\ signed \subseteq w.signed
      /\ last_voted_view[n] <= w.last_voted_view
      /\ \A s \in w.signed \ signed :
           /\ s.voter = n
           /\ last_voted_view[n] < s.view
           /\ s.view <= w.last_voted_view
      /\ \A s, t \in w.signed \ signed : s.view = t.view => s = t
  BY DEF Step, SignStep, Worker
<1>5. VotesCovered'
  <2> SUFFICES ASSUME NEW s \in signed', s.voter \notin restarted'
               PROVE  s.voter \in Nodes /\ s.view <= last_voted_view'[s.voter]
    BY DEF VotesCovered
  <2>1. CASE s \in signed
    <3>1. s.voter \in Nodes /\ s.view <= last_voted_view[s.voter]
      BY <1>2, <2>1 DEF IInv, VotesCovered
    <3>2. last_voted_view[s.voter] <= last_voted_view'[s.voter]
      BY <1>2, <1>3, <1>4, <3>1
    <3> QED BY <1>2, <1>3, <3>1, <3>2
  <2>2. CASE s \notin signed
    BY <1>2, <1>3, <1>4, <2>2
  <2> QED BY <2>1, <2>2
<1>6. VoteOncePerView'
  <2> SUFFICES ASSUME NEW s \in signed', NEW t \in signed', s.voter = t.voter,
                      s.view = t.view, s.voter \notin restarted'
               PROVE  s = t
    BY DEF VoteOncePerView
  <2>1. CASE s \in signed /\ t \in signed
    BY <1>2, <2>1 DEF IInv, VoteOncePerView
  <2>2. CASE s \notin signed /\ t \notin signed
    BY <1>2, <1>4, <2>2
  <2>3. ASSUME NEW x \in signed, NEW y \in w.signed \ signed,
               x.voter = y.voter, x.view = y.view, x.voter \notin restarted
        PROVE  FALSE
    <3>1. x.view <= last_voted_view[n]
      BY <1>4, <2>3 DEF IInv, VotesCovered
    <3> QED BY <1>3, <1>4, <2>3, <3>1
  <2> QED BY <1>2, <2>1, <2>2, <2>3
<1> QED BY <1>1, <1>5, <1>6 DEF IInv

(* A block import (the client and its notification) preserves the           *)
(* invariant. *)
LEMMA ImportBlockIInv ==
  ASSUME IInv, NEW n \in Nodes, NEW b \in Blocks, ImportBlock(n, b)
  PROVE  IInv'
<1>1. [hash |-> b, number |-> BlockNumber(b)] \in BlockInfo
  BY BlockNumberType DEF BlockInfo
<1>2. Append(import_notification[n], [hash |-> b, number |-> BlockNumber(b)])
        \in Seq(BlockInfo)
  <2>1. import_notification[n] \in Seq(BlockInfo)
    BY DEF IInv, TypeOK
  <2> QED BY <1>1, <2>1, AppendProperties
<1>3. /\ import_notification' \in [Nodes -> Seq(BlockInfo)]
      /\ imported' \in [Nodes -> SUBSET Blocks]
  BY <1>2 DEF ImportBlock, IInv, TypeOK
<1>4. TypeOK'
  BY <1>3 DEF IInv, TypeOK, ImportBlock, workerVars
<1>5. (VotesCovered /\ VoteOncePerView)'
  BY DEF IInv, VotesCovered, VoteOncePerView, ImportBlock, workerVars
<1> QED BY <1>4, <1>5 DEF IInv

(* PendingFinalizeBlockQueue::poll leaves a queue of blocks. *)
LEMMA PollQueueType ==
  ASSUME NEW queue \in Seq(BlockInfo), NEW imports \in Seq(BlockInfo),
         NEW number \in Nat
  PROVE  PollQueue(queue, imports, number) \in Seq(BlockInfo)
<1> DEFINE q == queue \o imports
           i == FirstAbove(q, number)
<1>1. q \in Seq(BlockInfo)
  BY ConcatProperties
<1>2. PollQueue(queue, imports, number) = SubSeq(q, i, Len(q))
  BY DEF PollQueue
<1> HIDE DEF q
<1>3. i \in 1 .. (Len(q) + 1)
  BY <1>1, FirstAboveProperties, Zenon
<1> HIDE DEF i
<1>4. \A k \in i .. Len(q) : q[k] \in BlockInfo
  BY <1>1, <1>3
<1>5. SubSeq(q, i, Len(q)) \in Seq(BlockInfo)
  BY <1>1, <1>3, <1>4, SubSeqProperties
<1> QED BY <1>2, <1>5

(* Polling the pending queue preserves the invariant. *)
LEMMA PollPendingQueueIInv ==
  ASSUME IInv, NEW n \in Nodes, PollPendingQueue(n)
  PROVE  IInv'
<1>1. PollQueue(pending_queue[n], import_notification[n], finalize_notification[n])
        \in Seq(BlockInfo)
  BY PollQueueType DEF IInv, TypeOK
<1>2. /\ pending_queue' \in [Nodes -> Seq(BlockInfo)]
      /\ import_notification' \in [Nodes -> Seq(BlockInfo)]
      /\ finalize_notification' \in [Nodes -> Nat]
  BY <1>1 DEF IInv, TypeOK, PollPendingQueue
<1>3. TypeOK'
  BY <1>2, Zenon DEF IInv, TypeOK, PollPendingQueue, workerVars, clientVars
<1>4. (VotesCovered /\ VoteOncePerView)'
  BY DEF IInv, VotesCovered, VoteOncePerView, PollPendingQueue, workerVars
<1> QED BY <1>3, <1>4 DEF IInv

(* A restart preserves the invariant: the votes of the forgotten views      *)
(* no longer count as covered, because their voter is restarted. *)
LEMMA RestartIInv ==
  ASSUME IInv, NEW n \in Nodes, Restart(n)
  PROVE  IInv'
<1>1. DefaultQC \in QC
  BY DEF DefaultQC, QC, ProposalHash
<1>2. /\ view' \in [Nodes -> Nat] /\ last_voted_view' \in [Nodes -> Nat]
      /\ high_qc' \in [Nodes -> QC]
      /\ votes_aggregator' \in [Nodes -> SUBSET Vote]
      /\ timeouts_aggregators' \in [Nodes -> SUBSET [view : Nat, vote : TimeoutVote]]
  BY <1>1 DEF IInv, TypeOK, Restart
<1>3. /\ processing_block' \in [Nodes -> BlockInfo \cup {None}]
      /\ proposal_hash_queue' \in [Nodes -> Seq(Blocks \cup {EmptyHash})]
      /\ pending_queue' \in [Nodes -> Seq(BlockInfo)]
      /\ import_notification' \in [Nodes -> Seq(BlockInfo)]
      /\ finalize_notification' \in [Nodes -> Nat]
      /\ restarted' \subseteq Restarting
  BY DEF IInv, TypeOK, Restart, NewPendingQueue
<1>4. TypeOK'
  BY <1>2, <1>3, Zenon DEF IInv, TypeOK, Restart, clientVars
<1>5. VotesCovered'
  BY DEF IInv, TypeOK, VotesCovered, Restart
<1>6. VoteOncePerView'
  BY DEF IInv, VoteOncePerView, Restart
<1> QED BY <1>4, <1>5, <1>6 DEF IInv

(* Every step preserves the invariant. *)
LEMMA NextIInv == IInv /\ [Next]_vars => IInv'
<1> SUFFICES ASSUME IInv, [Next]_vars PROVE IInv'
  OBVIOUS
<1>1. ASSUME NEW n \in Nodes PROVE Worker(n) \in WorkerState
  BY <1>1, WorkerType DEF IInv
<1>2. msgs \subseteq ConsensusMessage
  BY DEF IInv, TypeOK
<1>3. ASSUME NEW n \in Nodes, LocalTimer(n) PROVE IInv'
  BY <1>1, <1>3, HandleLocalTimerStep, CommitIInv DEF LocalTimer
<1>4. ASSUME NEW n \in Nodes, ReceiveProposal(n) PROVE IInv'
  <2>1. PICK p \in {m \in msgs : m.type = "Propose"} :
          Commit(n, HandleProposal(n, Worker(n), p))
    BY <1>4 DEF ReceiveProposal
  <2>2. p \in Proposal
    BY <1>2 DEF ConsensusMessage, Proposal, Vote, Timeout, TC
  <2> QED BY <1>1, <2>1, <2>2, HandleProposalStep, CommitIInv
<1>5. ASSUME NEW n \in Nodes, ReceiveVote(n) PROVE IInv'
  <2>1. PICK vote \in {m \in msgs : m.type = "Vote"} :
          Commit(n, HandleVote(n, Worker(n), vote))
    BY <1>5 DEF ReceiveVote
  <2>2. vote \in Vote
    BY <1>2 DEF ConsensusMessage, Proposal, Vote, Timeout, TC
  <2> QED BY <1>1, <2>1, <2>2, HandleVoteStep, CommitIInv
<1>6. ASSUME NEW n \in Nodes, ReceiveTimeout(n) PROVE IInv'
  <2>1. PICK t \in {m \in msgs : m.type = "Timeout"} :
          Commit(n, HandleTimeout(n, Worker(n), t))
    BY <1>6 DEF ReceiveTimeout
  <2>2. t \in Timeout
    BY <1>2 DEF ConsensusMessage, Proposal, Vote, Timeout, TC
  <2> QED BY <1>1, <2>1, <2>2, HandleTimeoutStep, CommitIInv
<1>7. ASSUME NEW n \in Nodes, ReceiveTC(n) PROVE IInv'
  <2>1. PICK tc \in {m \in msgs : m.type = "TC"} :
          Commit(n, HandleTC(n, Worker(n), tc))
    BY <1>7 DEF ReceiveTC
  <2>2. tc \in TC
    BY <1>2 DEF ConsensusMessage, Proposal, Vote, Timeout, TC
  <2> QED BY <1>1, <2>1, <2>2, HandleTCStep, CommitIInv
<1>8. CASE UNCHANGED vars
  <2>1. TypeOK'
    BY <1>8 DEF IInv, TypeOK, vars, workerVars, clientVars, queueVars
  <2>2. (VotesCovered /\ VoteOncePerView)'
    BY <1>8 DEF IInv, VotesCovered, VoteOncePerView, vars, workerVars
  <2> QED BY <2>1, <2>2 DEF IInv
<1> QED
  BY <1>3, <1>4, <1>5, <1>6, <1>7, <1>8, ImportBlockIInv, PollPendingQueueIInv,
     RestartIInv DEF Next

(***************************************************************************)
(* The theorems.                                                           *)
(***************************************************************************)
(* The invariant holds in every reachable state. *)
THEOREM Invariance == Spec => []IInv
  BY InitIInv, NextIInv, PTL DEF Spec

(* Type correctness: every handler of consensus.rs leaves a well-formed     *)
(* worker state and gossips well-formed messages only. *)
THEOREM TypeCorrect == Spec => []TypeOK
<1>1. IInv => TypeOK
  BY DEF IInv
<1> QED BY <1>1, Invariance, PTL

(* make_vote never signs two different votes for one view unless the node   *)
(* has been restarted in between. *)
THEOREM VoteOnce == Spec => []VoteOncePerView
<1>1. IInv => VoteOncePerView
  BY DEF IInv
<1> QED BY <1>1, Invariance, PTL

(* Two sets of signers that each pass QC verification share an authority    *)
(* that is not among a given set of restarted nodes, when those are few. *)
LEMMA QuorumsShareSafeNode ==
  ASSUME NEW A \in SUBSET Authorities, NEW B \in SUBSET Authorities,
         MoreThanTwoThirds(Cardinality(A)), MoreThanTwoThirds(Cardinality(B)),
         NEW R, IsFiniteSet(R), Cardinality(R) < 2 * QuorumWeight - N
  PROVE  \E a \in A \cap B : a \notin R
<1> DEFINE d == (N * 2) \div 3
<1>1. IsFiniteSet(Authorities) /\ Cardinality(Authorities) = N
  BY AuthoritiesAssumption, FS_Interval DEF Authorities
<1>2. IsFiniteSet(A) /\ IsFiniteSet(B)
  BY <1>1, FS_Subset
<1>3. /\ IsFiniteSet(A \cup B) /\ IsFiniteSet(A \cap B)
      /\ Cardinality(A \cup B)
           = Cardinality(A) + Cardinality(B) - Cardinality(A \cap B)
  BY <1>2, FS_Union, FS_Intersection
<1>4. Cardinality(A \cup B) <= N
  <2>1. A \cup B \subseteq Authorities
    OBVIOUS
  <2> QED BY <1>1, <2>1, FS_Subset
<1>5. /\ Cardinality(A) \in Nat /\ Cardinality(B) \in Nat
      /\ Cardinality(A \cup B) \in Nat /\ Cardinality(A \cap B) \in Nat
      /\ Cardinality(R) \in Nat
  BY <1>2, <1>3, FS_CardinalityType
<1>6. d \in Nat /\ N \in Nat
  BY AuthoritiesAssumption
<1>7. /\ Cardinality(A) > d /\ Cardinality(B) > d
      /\ Cardinality(R) < 2 * (d + 1) - N
  BY DEF MoreThanTwoThirds, QuorumWeight
<1> HIDE DEF d
<1>8. Cardinality(A \cap B) > Cardinality(R)
  BY <1>3, <1>4, <1>5, <1>6, <1>7
<1>9. ~(A \cap B \subseteq R)
  BY <1>5, <1>8, FS_Subset
<1> QED BY <1>9

(* Fewer than a third of the authorities are few enough. *)
LEMMA OneThirdIsFew ==
  ASSUME NEW k \in Nat, k <= (N - 1) \div 3
  PROVE  k < 2 * QuorumWeight - N
  BY AuthoritiesAssumption DEF QuorumWeight

(* At most one proposal of a view gathers a QC, as long as fewer than a     *)
(* third of the authorities are ever restarted (QCMaker::append's           *)
(* threshold, QC::verify's threshold and make_vote together). *)
THEOREM UniqueCertificate ==
  ASSUME IsFiniteSet(Restarting), Cardinality(Restarting) <= (N - 1) \div 3
  PROVE  Spec => []CertifiedUnique
<1>1. IInv => CertifiedUnique
  <2> SUFFICES ASSUME IInv, NEW s \in signed, NEW t \in signed, s.view = t.view,
                      Certified(s.proposal_hash, s.view),
                      Certified(t.proposal_hash, t.view)
               PROVE  s.proposal_hash = t.proposal_hash
    BY DEF CertifiedUnique
  <2> DEFINE A == Signers(s.proposal_hash, s.view)
             B == Signers(t.proposal_hash, t.view)
             VoteOf(a, h) == [type |-> "Vote", proposal_hash |-> h,
                              view |-> s.view, voter |-> a]
  <2>1. A \in SUBSET Authorities /\ B \in SUBSET Authorities
    BY DEF Signers
  <2>2. MoreThanTwoThirds(Cardinality(A)) /\ MoreThanTwoThirds(Cardinality(B))
    BY DEF Certified
  <2>3. Cardinality(Restarting) < 2 * QuorumWeight - N
    BY FS_CardinalityType, OneThirdIsFew
  <2>4. PICK a \in A \cap B : a \notin Restarting
    BY <2>1, <2>2, <2>3, QuorumsShareSafeNode
  <2>5. a \notin restarted
    BY <2>4 DEF IInv, TypeOK
  <2>6. VoteOf(a, s.proposal_hash) \in signed /\ VoteOf(a, t.proposal_hash) \in signed
    BY <2>4 DEF Signers
  <2>7. VoteOf(a, s.proposal_hash) = VoteOf(a, t.proposal_hash)
    BY <2>5, <2>6 DEF IInv, VoteOncePerView
  <2> QED BY <2>7
<1> QED BY <1>1, Invariance, PTL

(***************************************************************************)
(* Messages of views the worker has left.                                  *)
(***************************************************************************)
(* x differs from w at most in the proposal store, in what is finalized and *)
(* in the timer. *)
OnlyStores(w, x) ==
  /\ x.view = w.view
  /\ x.last_voted_view = w.last_voted_view
  /\ x.high_qc = w.high_qc
  /\ x.votes_aggregator = w.votes_aggregator
  /\ x.timeouts_aggregators = w.timeouts_aggregators
  /\ x.processing_block = w.processing_block
  /\ x.proposal_hash_queue = w.proposal_hash_queue
  /\ x.pending_queue = w.pending_queue
  /\ x.imported = w.imported
  /\ x.msgs = w.msgs
  /\ x.signed = w.signed

(* Resetting the timer, saving a proposal and the two-chain check do no     *)
(* more than that (Timer::reset, save_proposal, finalize_block). *)
LEMMA StoringSteps ==
  ASSUME NEW w \in WorkerState, NEW p \in Proposal
  PROVE  /\ OnlyStores(w, ResetTimer(w))
         /\ OnlyStores(w, SaveProposal(w, p))
         /\ OnlyStores(w, TryFinalize(w, p))
<1>1. OnlyStores(w, ResetTimer(w)) /\ OnlyStores(w, SaveProposal(w, p))
  BY Zenon DEF OnlyStores, ResetTimer, SaveProposal, WorkerState
<1>2. OnlyStores(w, w)
  BY DEF OnlyStores
<1>3. ASSUME NEW b PROVE OnlyStores(w, FinalizeBlock(w, b))
  <2> DEFINE x == [w EXCEPT !.finalized = b, !.finalize_notification = BlockNumber(b)]
  <2>1. OnlyStores(w, x)
    BY Zenon DEF OnlyStores, WorkerState
  <2> QED BY <1>2, <2>1 DEF FinalizeBlock
<1>4. OnlyStores(w, TryFinalize(w, p))
  BY <1>2, <1>3 DEF TryFinalize
<1> QED BY <1>1, <1>4

(* A proposal of a view that is over, with a QC that is older still, moves  *)
(* no view: advance_view ignores a TC above the current view. *)
LEMMA LateAccept ==
  ASSUME NEW w \in WorkerState, NEW p \in Proposal, p.qc.view < w.view
  PROVE  OnlyStores(w, AcceptProposal(w, p))
<1> DEFINE t == IF p.tc # None /\ p.tc > w.view
                THEN ResetTimer(AdvanceView(w, p.tc)) ELSE w
           s == SaveProposal(t, p)
<1>1. w.view \in Nat /\ p.qc \in QC /\ p.qc.view \in Nat /\ p.tc \in Nat \cup {None}
  BY DEF WorkerState, Proposal, QC
<1>2. HandleQC(w, p.qc) = w
  <2>1. ~(p.qc.view >= w.view)
    BY <1>1
  <2> QED BY <2>1, Zenon DEF HandleQC
<1>3. t \in WorkerState /\ OnlyStores(w, t)
  <2>1. CASE p.tc # None /\ p.tc > w.view
    <3>1. AdvanceView(w, p.tc) = [w EXCEPT !.view = w.view]
      BY <1>1, <2>1 DEF AdvanceView
    <3>2. AdvanceView(w, p.tc) = w
      BY <3>1 DEF WorkerState
    <3>3. ResetTimer(w) \in WorkerState /\ OnlyStores(w, ResetTimer(w))
      BY StoringSteps, ResetTimerStep DEF Step
    <3> QED BY <2>1, <3>2, <3>3
  <2>2. CASE ~(p.tc # None /\ p.tc > w.view)
    BY <2>2 DEF OnlyStores
  <2> QED BY <2>1, <2>2
<1> HIDE DEF t
<1>4. s \in WorkerState /\ OnlyStores(t, s)
  <2>1. Step(0, t, s)
    BY <1>3, SaveProposalStep
  <2>2. OnlyStores(t, s)
    BY <1>3, StoringSteps
  <2> QED BY <2>1, <2>2 DEF Step
<1> HIDE DEF s
<1>5. OnlyStores(s, TryFinalize(s, p))
  BY <1>4, StoringSteps
<1>6. OnlyStores(w, TryFinalize(s, p))
  BY <1>3, <1>4, <1>5, Zenon DEF OnlyStores
<1>7. AcceptProposal(w, p) = TryFinalize(s, p)
  BY <1>2 DEF AcceptProposal, s, t
<1> QED BY <1>6, <1>7

(* What a worker does with messages of views it has left: it ignores votes, *)
(* timeouts and TCs (verify_vote, handle_timeout, verify_tc); a proposal    *)
(* with a QC of such a view it may store, and finalize a block by it, but   *)
(* it neither votes nor sends anything nor changes its view, its            *)
(* certificates or its queues (handle_proposal). *)
THEOREM LateMessages ==
  ASSUME NEW n, NEW w \in WorkerState
  PROVE  /\ \A m \in Vote : m.view < w.view => HandleVote(n, w, m) = w
         /\ \A m \in Timeout : m.view < w.view => HandleTimeout(n, w, m) = w
         /\ \A m \in TC : m.view < w.view => HandleTC(n, w, m) = w
         /\ \A p \in Proposal :
              p.view < w.view /\ p.qc.view < w.view =>
                OnlyStores(w, HandleProposal(n, w, p))
<1>1. \A m \in Vote : m.view < w.view => HandleVote(n, w, m) = w
  BY Zenon DEF HandleVote, VerifyVote
<1>2. ASSUME NEW m \in Timeout, m.view < w.view PROVE HandleTimeout(n, w, m) = w
  <2>1. w.view > m.view
    BY <1>2 DEF WorkerState, Timeout
  <2> QED BY <2>1, Zenon DEF HandleTimeout
<1>3. \A m \in TC : m.view < w.view => HandleTC(n, w, m) = w
  BY Zenon DEF HandleTC, VerifyTC
<1>4. ASSUME NEW p \in Proposal, p.view < w.view, p.qc.view < w.view
      PROVE  OnlyStores(w, HandleProposal(n, w, p))
  <2> DEFINE a == AcceptProposal(w, p)
  <2>1. OnlyStores(w, a)
    BY <1>4, LateAccept
  <2> HIDE DEF a
  <2>2. ~MakesVote(n, a, p)
    <3>1. a.view = w.view /\ w.view \in Nat /\ p.view \in Nat
      BY <2>1 DEF OnlyStores, WorkerState, Proposal
    <3>2. p.view # a.view
      BY <1>4, <3>1
    <3> QED BY <3>2 DEF MakesVote
  <2>3. HandleProposal(n, w, p) \in {w, a}
    BY <2>2, Zenon DEF HandleProposal, a
  <2>4. OnlyStores(w, w)
    BY DEF OnlyStores
  <2> QED BY <2>1, <2>3, <2>4
<1> QED BY <1>1, <1>2, <1>3, <1>4
=============================================================================
