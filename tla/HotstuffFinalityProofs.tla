----------------------- MODULE HotstuffFinalityProofs -----------------------
(***************************************************************************)
(* Proofs about finality, views and timeouts in HotstuffConsensus, for      *)
(* every number of authorities, every tree of blocks and every bound.       *)
(*                                                                         *)
(* A second fact is carried through the compositions of HotstuffProofs.  A  *)
(* worker state is Sound when its signed votes name the view of their       *)
(* proposal and every stored proposal but a first one extends a certified   *)
(* one.  From a sound state a handler reaches a sound state, votes only for *)
(* blocks it has, and moves its finalized block only along two certified    *)
(* proposals (FinalStep).  One handler may finalize twice, a proposal of    *)
(* others and then its own, so FinalStep is transitive because ancestry is. *)
(* A handler also never lowers its view, and the timeouts it sends are its  *)
(* own and not above the view it will still vote in (OrderlyStep).          *)
(***************************************************************************)
EXTENDS HotstuffProofs

(* A quorum of the votes in sigs is for the proposal with hash h. *)
Cert(h, sigs) ==
  \E Q \in QuorumSets : \A a \in Q :
    [type |-> "Vote", proposal_hash |-> h, view |-> Last(h).view, voter |-> a]
      \in sigs

TwoChain(b, sigs) ==
  \E s \in sigs :
    LET h == s.proposal_hash
    IN  /\ Len(h) >= 2
        /\ Last(Front(h)).payload.block_hash = b
        /\ Last(h).view = Last(Front(h)).view + 1
        /\ Cert(h, sigs)
        /\ Cert(Front(h), sigs)

VoteNamesView(s) == s.proposal_hash # <<>> /\ s.view = Last(s.proposal_hash).view

ExtendsCertified(h, sigs) ==
  h # <<>> /\ (Front(h) = <<>> \/ Cert(Front(h), sigs))

Sound(w) ==
  /\ \A s \in w.signed : VoteNamesView(s)
  /\ \A h \in w.store : ExtendsCertified(h, w.signed)

(* The block a vote is for is among these blocks, if it is for a block. *)
VotesAmong(s, blocks) ==
  LET b == Last(s.proposal_hash).payload.block_hash
  IN  b # EmptyHash => b \in blocks

FinalStep(w, x) ==
  /\ Sound(x)
  /\ w.signed \subseteq x.signed
  /\ x.imported = w.imported
  /\ \A s \in x.signed \ w.signed : VotesAmong(s, w.imported)
  /\ \/ x.finalized = w.finalized
     \/ w.finalized \in Ancestors[x.finalized] /\ TwoChain(x.finalized, x.signed)

OrderlyStep(n, w, x) ==
  /\ w.view <= x.view
  /\ w.msgs \subseteq x.msgs
  /\ \A m \in x.msgs \ w.msgs :
       m.type = "Timeout" => m.voter = n /\ m.view <= x.last_voted_view

SafeStep(n, w, x) == Step(n, w, x) /\ FinalStep(w, x) /\ OrderlyStep(n, w, x)

(* A step that touches neither votes, proposals nor blocks. *)
Silent(w, x) ==
  /\ x.signed = w.signed
  /\ x.store = w.store
  /\ x.imported = w.imported
  /\ x.finalized = w.finalized

(* A step that keeps the view or raises it, and sends nothing. *)
Unsent(w, x) == w.view <= x.view /\ x.msgs = w.msgs

(***************************************************************************)
(* Composing steps.                                                        *)
(***************************************************************************)
(* More votes certify no less. *)
LEMMA CertMonotone ==
  ASSUME NEW h, NEW S, NEW T, S \subseteq T, Cert(h, S)
  PROVE  Cert(h, T)
  BY DEF Cert

(* ... and finalize no less. *)
LEMMA TwoChainMonotone ==
  ASSUME NEW b, NEW S, NEW T, S \subseteq T, TwoChain(b, S)
  PROVE  TwoChain(b, T)
  BY CertMonotone DEF TwoChain

(* Sending nothing and keeping or raising the view is orderly. *)
LEMMA UnsentOrderly ==
  ASSUME NEW n, NEW w, NEW x, Unsent(w, x) PROVE OrderlyStep(n, w, x)
  BY DEF Unsent, OrderlyStep

(* A silent step that is orderly is a safe one. *)
LEMMA SilentSafe ==
  ASSUME NEW n, NEW w, NEW x, Sound(w), Step(n, w, x), Silent(w, x),
         OrderlyStep(n, w, x)
  PROVE  SafeStep(n, w, x)
  BY DEF Silent, SafeStep, FinalStep, Sound

(* Orderly steps compose, because a later step only raises last_voted_view. *)
LEMMA OrderlyTransitive ==
  ASSUME NEW n, NEW w \in WorkerState, NEW x, NEW y,
         Step(n, w, x), Step(n, x, y), OrderlyStep(n, w, x), OrderlyStep(n, x, y)
  PROVE  OrderlyStep(n, w, y)
<1>1. x \in WorkerState /\ y \in WorkerState
  BY DEF Step
<1>2. /\ w.view \in Nat /\ x.view \in Nat /\ y.view \in Nat
      /\ x.last_voted_view \in Nat /\ y.last_voted_view \in Nat
      /\ y.msgs \subseteq ConsensusMessage
  BY <1>1 DEF WorkerState
<1>3. x.last_voted_view <= y.last_voted_view
  BY DEF Step, SignStep
<1>4. ASSUME NEW m \in y.msgs \ w.msgs, m.type = "Timeout"
      PROVE  m.voter = n /\ m.view <= y.last_voted_view
  <2>1. m.view \in Nat
    BY <1>2, <1>4 DEF ConsensusMessage, Proposal, Vote, Timeout, TC
  <2>2. CASE m \in x.msgs
    <3>1. m.voter = n /\ m.view <= x.last_voted_view
      BY <1>4, <2>2 DEF OrderlyStep
    <3> QED BY <1>2, <1>3, <2>1, <3>1
  <2>3. CASE m \notin x.msgs
    BY <1>4, <2>3 DEF OrderlyStep
  <2> QED BY <2>2, <2>3
<1>5. w.view <= y.view /\ w.msgs \subseteq y.msgs
  BY <1>2 DEF OrderlyStep
<1> QED BY <1>4, <1>5 DEF OrderlyStep

(* Safe steps compose. *)
LEMMA SafeTransitive ==
  ASSUME NEW n, NEW w \in WorkerState, NEW x, NEW y,
         SafeStep(n, w, x), SafeStep(n, x, y)
  PROVE  SafeStep(n, w, y)
<1>1. Step(n, w, y) /\ OrderlyStep(n, w, y)
  BY StepTransitive, OrderlyTransitive DEF SafeStep
<1>2. /\ Sound(y) /\ w.signed \subseteq y.signed /\ y.imported = w.imported
      /\ \A s \in y.signed \ w.signed : VotesAmong(s, w.imported)
  BY DEF SafeStep, FinalStep
<1>3. x.finalized \in Blocks /\ y.finalized \in Blocks
  BY DEF SafeStep, Step, WorkerState
<1>4. CASE y.finalized = x.finalized
  BY <1>1, <1>2, <1>4, TwoChainMonotone DEF SafeStep, FinalStep
<1>5. CASE y.finalized # x.finalized
  <2>1. x.finalized \in Ancestors[y.finalized] /\ TwoChain(y.finalized, y.signed)
    BY <1>5 DEF SafeStep, FinalStep
  <2>2. w.finalized = x.finalized \/ w.finalized \in Ancestors[x.finalized]
    BY DEF SafeStep, FinalStep
  <2>3. w.finalized \in Ancestors[y.finalized]
    BY <1>3, <2>1, <2>2, AncestorsAssumption
  <2> QED BY <1>1, <1>2, <2>1, <2>3 DEF SafeStep, FinalStep
<1> QED BY <1>4, <1>5

(* What a safe step leads to can be handled further. *)
LEMMA SafeState ==
  ASSUME NEW n, NEW w, NEW x, SafeStep(n, w, x)
  PROVE  x \in WorkerState /\ Sound(x)
  BY DEF SafeStep, Step, FinalStep

(***************************************************************************)
(* The transformers that touch neither votes, proposals nor blocks.         *)
(***************************************************************************)
(* Doing nothing is safe. *)
LEMMA SkipSafe ==
  ASSUME NEW n, NEW w \in WorkerState, Sound(w) PROVE SafeStep(n, w, w)
<1>1. Step(n, w, w)
  BY QuietStep DEF Quiet
<1>2. Unsent(w, w)
  BY DEF Unsent, WorkerState
<1> QED BY <1>1, <1>2, UnsentOrderly, SilentSafe DEF Silent

(* Gossiping a message is safe: if it is a timeout, one of the node's own   *)
(* for a view it will not vote in any more. *)
LEMMA GossipSafe ==
  ASSUME NEW n, NEW w \in WorkerState, Sound(w), NEW m \in ConsensusMessage,
         m.type = "Timeout" => m.voter = n /\ m.view <= w.last_voted_view
  PROVE  SafeStep(n, w, Gossip(w, m))
<1>1. Silent(w, Gossip(w, m))
  BY DEF Silent, Gossip, WorkerState
<1>2. /\ Gossip(w, m).view = w.view /\ w.view \in Nat
      /\ Gossip(w, m).last_voted_view = w.last_voted_view
      /\ Gossip(w, m).msgs = w.msgs \cup {m}
  BY DEF Gossip, WorkerState
<1>3. OrderlyStep(n, w, Gossip(w, m))
  BY <1>2 DEF OrderlyStep
<1> QED BY <1>1, <1>3, GossipStep, SilentSafe

(* Advancing the view and resetting the timer is safe unless the target is  *)
(* older than the view. *)
LEMMA AdvanceAndResetSafe ==
  ASSUME NEW n, NEW w \in WorkerState, Sound(w), NEW target \in Nat,
         target >= w.view
  PROVE  SafeStep(n, w, ResetTimer(AdvanceView(w, target)))
<1>1. Silent(w, ResetTimer(AdvanceView(w, target)))
  BY DEF Silent, ResetTimer, AdvanceView, WorkerState
<1>2. Unsent(w, ResetTimer(AdvanceView(w, target)))
  BY DEF Unsent, ResetTimer, AdvanceView, WorkerState
<1> QED BY <1>1, <1>2, AdvanceAndResetStep, UnsentOrderly, SilentSafe

(* handle_qc is safe. *)
LEMMA HandleQCSafe ==
  ASSUME NEW n, NEW w \in WorkerState, Sound(w), NEW qc \in QC
  PROVE  SafeStep(n, w, HandleQC(w, qc)) /\ Silent(w, HandleQC(w, qc))
<1>1. Silent(w, HandleQC(w, qc))
  BY DEF Silent, HandleQC, ResetTimer, UpdateHighQC, AdvanceView, WorkerState
<1>2. w.view \in Nat /\ qc.view \in Nat
  BY DEF WorkerState, QC
<1>3. Unsent(w, HandleQC(w, qc))
  BY <1>2 DEF Unsent, HandleQC, ResetTimer, UpdateHighQC, AdvanceView, WorkerState
<1> QED BY <1>1, <1>3, HandleQCStep, UnsentOrderly, SilentSafe

(* Assigning processing_block is safe. *)
LEMMA ProcessingSafe ==
  ASSUME NEW n, NEW w \in WorkerState, Sound(w), NEW b \in BlockInfo \cup {None}
  PROVE  SafeStep(n, w, [w EXCEPT !.processing_block = b])
<1>1. /\ Silent(w, [w EXCEPT !.processing_block = b])
      /\ Unsent(w, [w EXCEPT !.processing_block = b])
  BY DEF Silent, Unsent, WorkerState
<1> QED BY <1>1, ProcessingStep, UnsentOrderly, SilentSafe

(* Pushing to or clearing proposal_hash_queue is safe. *)
LEMMA HashQueueSafe ==
  ASSUME NEW n, NEW w \in WorkerState, Sound(w),
         NEW q \in Seq(Blocks \cup {EmptyHash})
  PROVE  SafeStep(n, w, [w EXCEPT !.proposal_hash_queue = q])
<1>1. /\ Silent(w, [w EXCEPT !.proposal_hash_queue = q])
      /\ Unsent(w, [w EXCEPT !.proposal_hash_queue = q])
  BY DEF Silent, Unsent, WorkerState
<1> QED BY <1>1, HashQueueStep, UnsentOrderly, SilentSafe, Zenon

(* Storing votes in the aggregator is safe. *)
LEMMA VotesSafe ==
  ASSUME NEW n, NEW w \in WorkerState, Sound(w), NEW votes \in SUBSET Vote
  PROVE  SafeStep(n, w, [w EXCEPT !.votes_aggregator = votes])
<1>1. /\ Silent(w, [w EXCEPT !.votes_aggregator = votes])
      /\ Unsent(w, [w EXCEPT !.votes_aggregator = votes])
  BY DEF Silent, Unsent, WorkerState
<1> QED BY <1>1, VotesStep, UnsentOrderly, SilentSafe

(* Storing timeouts in the aggregator is safe. *)
LEMMA TimeoutsSafe ==
  ASSUME NEW n, NEW w \in WorkerState, Sound(w),
         NEW timeouts \in SUBSET [view : Nat, vote : TimeoutVote]
  PROVE  SafeStep(n, w, [w EXCEPT !.timeouts_aggregators = timeouts])
<1>1. /\ Silent(w, [w EXCEPT !.timeouts_aggregators = timeouts])
      /\ Unsent(w, [w EXCEPT !.timeouts_aggregators = timeouts])
  BY DEF Silent, Unsent, WorkerState
<1> QED BY <1>1, TimeoutsStep, UnsentOrderly, SilentSafe, Zenon

(***************************************************************************)
(* handle_proposal up to the vote.                                         *)
(***************************************************************************)
(* The hash of a proposal is its parent's hash with one more element. *)
LEMMA DigestParts ==
  ASSUME NEW p \in Proposal
  PROVE  /\ ProposalDigest(p) # <<>>
         /\ Front(ProposalDigest(p)) = p.qc.proposal_hash
         /\ Last(ProposalDigest(p)).view = p.view
         /\ Last(ProposalDigest(p)).payload = p.payload
<1> DEFINE T == [author : Authorities, payload : Payload, view : Nat]
           e == [author |-> p.author, payload |-> p.payload, view |-> p.view]
           s == p.qc.proposal_hash
           h == Append(s, e)
<1>1. s \in Seq(T) /\ e \in T
  BY DEF Proposal, QC, ProposalHash
<1>2. e.view = p.view /\ e.payload = p.payload
  OBVIOUS
<1> HIDE DEF e, s, T
<1>3. /\ h \in Seq(T) /\ h # <<>> /\ Len(h) = Len(s) + 1
      /\ h[Len(h)] = e /\ \A i \in 1 .. Len(s) : h[i] = s[i]
  BY <1>1, AppendProperties
<1>4. SubSeq(h, 1, Len(h) - 1) = s
  BY <1>1, <1>3
<1> QED BY <1>2, <1>3, <1>4 DEF ProposalDigest, Front, Last, e, s

(* A QC that passes verification certifies its proposal: its voters are a   *)
(* quorum, and their votes name the proposal's view. *)
LEMMA AcceptedCertifies ==
  ASSUME NEW w \in WorkerState, Sound(w), NEW qc \in QC,
         QCAccepted(qc, w.signed), qc.proposal_hash # <<>>
  PROVE  Cert(qc.proposal_hash, w.signed)
         /\ \E s \in w.signed : s.proposal_hash = qc.proposal_hash
<1> DEFINE VoteOf(a) == [type |-> "Vote", proposal_hash |-> qc.proposal_hash,
                         view |-> qc.view, voter |-> a]
<1>1. /\ qc.votes \in SUBSET Authorities
      /\ MoreThanTwoThirds(Cardinality(qc.votes))
      /\ \A a \in qc.votes : VoteOf(a) \in w.signed
  BY DEF QCAccepted, QCVerify, QC
<1>2. qc.votes \in QuorumSets
  BY <1>1 DEF QuorumSets
<1>3. PICK a \in qc.votes : TRUE
  <2>1. (N * 2) \div 3 >= 0
    BY AuthoritiesAssumption
  <2>2. Cardinality({}) = 0
    BY FS_EmptySet
  <2>3. ASSUME qc.votes = {} PROVE FALSE
    <3>1. Cardinality(qc.votes) = 0
      BY <2>2, <2>3
    <3>2. MoreThanTwoThirds(0)
      BY <1>1, <3>1
    <3> QED BY <2>1, <3>2, AuthoritiesAssumption DEF MoreThanTwoThirds
  <2> QED BY <2>3
<1>4. /\ VoteOf(a) \in w.signed /\ VoteOf(a).proposal_hash = qc.proposal_hash
      /\ VoteOf(a).view = qc.view
  BY <1>1, <1>3
<1>5. qc.view = Last(qc.proposal_hash).view
  <2>1. VoteNamesView(VoteOf(a))
    BY <1>4 DEF Sound
  <2> QED BY <1>4, <2>1 DEF VoteNamesView
<1> QED BY <1>1, <1>2, <1>4, <1>5 DEF Cert

(* Saving a proposal whose QC has been verified is safe. *)
LEMMA SaveProposalSafe ==
  ASSUME NEW n, NEW w \in WorkerState, Sound(w), NEW p \in Proposal,
         QCAccepted(p.qc, w.signed)
  PROVE  SafeStep(n, w, SaveProposal(w, p))
<1> DEFINE x == SaveProposal(w, p)
<1>1. /\ x.signed = w.signed /\ x.imported = w.imported
      /\ x.finalized = w.finalized
      /\ x.store = w.store \cup {ProposalDigest(p)}
  BY DEF SaveProposal, WorkerState
<1>2. p.qc \in QC
  BY DEF Proposal
<1>3. ExtendsCertified(ProposalDigest(p), w.signed)
  BY <1>2, DigestParts, AcceptedCertifies DEF ExtendsCertified
<1>4. Step(n, w, x)
  BY SaveProposalStep
<1>5. Unsent(w, x)
  BY DEF Unsent, SaveProposal, WorkerState
<1> HIDE DEF x
<1>6. Sound(x)
  BY <1>1, <1>3 DEF Sound
<1> QED BY <1>1, <1>4, <1>5, <1>6, UnsentOrderly DEF SafeStep, FinalStep, x

(* The two-chain rule is safe: parent and grandparent of a verified         *)
(* proposal are certified. *)
LEMMA TryFinalizeSafe ==
  ASSUME NEW n, NEW w \in WorkerState, Sound(w), NEW p \in Proposal,
         QCAccepted(p.qc, w.signed)
  PROVE  SafeStep(n, w, TryFinalize(w, p))
<1> DEFINE parent == p.qc.proposal_hash
           grandpa == Front(parent)
           b == Last(grandpa).payload.block_hash
           x == [w EXCEPT !.finalized = b, !.finalize_notification = BlockNumber(b)]
<1>1. CASE TryFinalize(w, p) = w
  BY <1>1, SkipSafe
<1>2. CASE TryFinalize(w, p) # w
  <2>1. /\ parent \in w.store /\ grandpa \in w.store
        /\ Last(parent).view = Last(grandpa).view + 1
        /\ w.finalized \in Ancestors[b]
        /\ TryFinalize(w, p) = x
    BY <1>2 DEF TryFinalize, FinalizeBlock, HasAncestors
  <2>2. parent # <<>> /\ grandpa # <<>> /\ Cert(grandpa, w.signed)
    BY <2>1 DEF Sound, ExtendsCertified
  <2>3. p.qc \in QC
    BY DEF Proposal
  <2>4. /\ Cert(parent, w.signed)
        /\ \E s \in w.signed : s.proposal_hash = parent
    BY <2>2, <2>3, AcceptedCertifies
  <2>5. Len(parent) >= 2
    <3>1. parent \in Seq([author : Authorities, payload : Payload, view : Nat])
      BY <2>3 DEF QC, ProposalHash
    <3>2. SubSeq(parent, 1, Len(parent) - 1) # <<>>
      BY <2>2 DEF Front
    <3> QED BY <3>1, <3>2
  <2>6. TwoChain(b, w.signed)
    BY <2>1, <2>2, <2>4, <2>5 DEF TwoChain
  <2>7. /\ x.signed = w.signed /\ x.imported = w.imported
        /\ x.store = w.store /\ x.finalized = b
        /\ Unsent(w, x)
    BY DEF Unsent, WorkerState
  <2>8. Step(n, w, x)
    BY <2>1, TryFinalizeStep
  <2> HIDE DEF x, b
  <2>9. Sound(x)
    BY <2>7 DEF Sound
  <2> QED BY <2>1, <2>6, <2>7, <2>8, <2>9, UnsentOrderly DEF SafeStep, FinalStep
<1> QED BY <1>1, <1>2

(* handle_proposal up to its view comparison is safe for a proposal that    *)
(* has been verified. *)
LEMMA AcceptProposalSafe ==
  ASSUME NEW n, NEW w \in WorkerState, Sound(w), NEW p \in Proposal,
         QCAccepted(p.qc, w.signed)
  PROVE  SafeStep(n, w, AcceptProposal(w, p))
<1> DEFINE q == HandleQC(w, p.qc)
           t == IF p.tc # None /\ p.tc > q.view
                THEN ResetTimer(AdvanceView(q, p.tc)) ELSE q
           s == SaveProposal(t, p)
<1>1. p.qc \in QC /\ p.tc \in Nat \cup {None}
  BY DEF Proposal
<1>2. /\ SafeStep(n, w, q) /\ q \in WorkerState /\ Sound(q)
      /\ q.signed = w.signed
  BY <1>1, HandleQCSafe, SafeState DEF Silent
<1> HIDE DEF q
<1>3. SafeStep(n, q, t) /\ t \in WorkerState /\ Sound(t) /\ t.signed = w.signed
  <2>1. CASE p.tc # None /\ p.tc > q.view
    <3>1. t = ResetTimer(AdvanceView(q, p.tc)) /\ p.tc \in Nat
      BY <1>1, <2>1
    <3>2. t.signed = q.signed
      BY <1>2, <3>1 DEF ResetTimer, AdvanceView, WorkerState
    <3>3. p.tc >= q.view
      BY <1>2, <2>1, <3>1 DEF WorkerState
    <3> QED BY <1>2, <3>1, <3>2, <3>3, AdvanceAndResetSafe, SafeState
  <2>2. CASE ~(p.tc # None /\ p.tc > q.view)
    BY <1>2, <2>2, SkipSafe
  <2> QED BY <2>1, <2>2
<1>4. SafeStep(n, w, t)
  BY <1>2, <1>3, SafeTransitive
<1> HIDE DEF t
<1>5. SafeStep(n, t, s) /\ s \in WorkerState /\ Sound(s) /\ s.signed = w.signed
  <2>1. s.signed = t.signed
    BY <1>3 DEF SaveProposal, WorkerState
  <2> QED BY <1>3, <2>1, SaveProposalSafe, SafeState
<1>6. SafeStep(n, w, s)
  BY <1>4, <1>5, SafeTransitive
<1> HIDE DEF s
<1>7. SafeStep(n, s, TryFinalize(s, p))
  BY <1>5, TryFinalizeSafe
<1>8. SafeStep(n, w, TryFinalize(s, p))
  BY <1>6, <1>7, SafeTransitive
<1> QED BY <1>8 DEF AcceptProposal, q, t, s

(***************************************************************************)
(* Voting and proposing.                                                   *)
(***************************************************************************)
(* make_vote is safe when the worker has the block of the proposal. *)
LEMMA CastVoteSafe ==
  ASSUME NEW n, NEW w \in WorkerState, Sound(w), NEW p \in Proposal,
         MakesVote(n, w, p),
         p.payload.block_hash # EmptyHash => p.payload.block_hash \in w.imported
  PROVE  SafeStep(n, w, CastVote(n, w, p))
<1> DEFINE x == CastVote(n, w, p)
           vote == VoteFor(n, p)
<1>1. Step(n, w, x)
  BY CastVoteStep
<1>2. /\ x.signed = w.signed \cup {vote} /\ x.imported = w.imported
      /\ x.store = w.store /\ x.finalized = w.finalized
      /\ Unsent(w, x)
  BY DEF CastVote, Unsent, WorkerState
<1>3. vote.proposal_hash = ProposalDigest(p) /\ vote.view = p.view
  BY DEF VoteFor
<1> HIDE DEF x, vote
<1>4. VoteNamesView(vote) /\ VotesAmong(vote, w.imported)
  BY <1>3, DigestParts DEF VoteNamesView, VotesAmong
<1>5. \A h \in x.store : ExtendsCertified(h, x.signed)
  BY <1>2, CertMonotone DEF Sound, ExtendsCertified
<1>6. Sound(x)
  BY <1>2, <1>4, <1>5 DEF Sound
<1> QED BY <1>1, <1>2, <1>4, <1>6, UnsentOrderly DEF SafeStep, FinalStep, x

(* Verifying, accepting and voting for a proposal are safe. *)
LEMMA VotedSafe ==
  ASSUME NEW n, NEW w \in WorkerState, Sound(w), NEW p \in Proposal,
         Acceptable(w, p)
  PROVE  /\ SafeStep(n, w, AcceptProposal(w, p))
         /\ MakesVote(n, AcceptProposal(w, p), p) =>
              SafeStep(n, w, CastVote(n, AcceptProposal(w, p), p))
<1> DEFINE a == AcceptProposal(w, p)
<1>1. QCAccepted(p.qc, w.signed)
  BY DEF Acceptable, VerifyProposal, ProposalVerify
<1>2. SafeStep(n, w, a) /\ a \in WorkerState /\ Sound(a)
  BY <1>1, AcceptProposalSafe, SafeState
<1>3. p.payload.block_hash # EmptyHash => p.payload.block_hash \in a.imported
  BY <1>2 DEF SafeStep, FinalStep, Acceptable
<1> HIDE DEF a
<1>4. ASSUME MakesVote(n, a, p) PROVE SafeStep(n, w, CastVote(n, a, p))
  <2>1. SafeStep(n, a, CastVote(n, a, p))
    BY <1>2, <1>3, <1>4, CastVoteSafe
  <2> QED BY <1>2, <2>1, SafeTransitive
<1> QED BY <1>2, <1>4 DEF a

(* A leader handling its own proposal takes a safe step. *)
LEMMA HandleOwnProposalSafe ==
  ASSUME NEW n, NEW w \in WorkerState, Sound(w), NEW p \in Proposal
  PROVE  SafeStep(n, w, HandleOwnProposal(n, w, p))
<1> DEFINE a == AcceptProposal(w, p)
           voted == CastVote(n, a, p)
           vote == VoteFor(n, p)
<1>1. CASE ~Acceptable(w, p)
  BY <1>1, SkipSafe DEF HandleOwnProposal
<1>2. CASE Acceptable(w, p)
  <2>1. SafeStep(n, w, a)
    BY <1>2, VotedSafe
  <2>2. ASSUME MakesVote(n, a, p) PROVE SafeStep(n, w, Gossip(voted, vote))
    <3>1. SafeStep(n, w, voted) /\ voted \in WorkerState /\ Sound(voted)
      BY <1>2, <2>2, VotedSafe, SafeState
    <3>2. vote \in ConsensusMessage /\ vote.type # "Timeout"
      BY <2>2, VoteForType DEF MakesVote, VoteFor
    <3> HIDE DEF voted, vote
    <3>3. SafeStep(n, voted, Gossip(voted, vote))
      BY <3>1, <3>2, GossipSafe
    <3> QED BY <3>1, <3>3, SafeTransitive
  <2> QED BY <1>2, <2>1, <2>2 DEF HandleOwnProposal
<1> QED BY <1>1, <1>2

(* Proposing, and handling the proposal, are safe. *)
LEMMA ProposeSafe ==
  ASSUME NEW n \in Authorities, NEW w \in WorkerState, Sound(w),
         NEW payload \in Payload, NEW tc \in Nat \cup {None}
  PROVE  SafeStep(n, w, Propose(n, w, payload, tc))
<1> DEFINE p == MakeProposal(n, w, payload, tc)
           sent == Gossip(w, p)
<1>1. p \in Proposal
  <2>1. w.high_qc \in QC /\ w.view \in Nat
    BY DEF WorkerState
  <2> QED BY <2>1 DEF MakeProposal, Proposal
<1>2. p \in ConsensusMessage /\ p.type # "Timeout"
  BY <1>1 DEF ConsensusMessage, Proposal
<1> HIDE DEF p
<1>3. SafeStep(n, w, sent) /\ sent \in WorkerState /\ Sound(sent)
  BY <1>2, GossipSafe, SafeState
<1> HIDE DEF sent
<1>4. SafeStep(n, sent, HandleOwnProposal(n, sent, p))
  BY <1>1, <1>3, HandleOwnProposalSafe
<1>5. SafeStep(n, w, HandleOwnProposal(n, sent, p))
  BY <1>3, <1>4, SafeTransitive
<1> QED BY <1>5 DEF Propose, p, sent

(* generate_proposal is safe. *)
LEMMA GenerateProposalSafe ==
  ASSUME NEW n \in Authorities, NEW w \in WorkerState, Sound(w),
         NEW tc \in Nat \cup {None}
  PROVE  SafeStep(n, w, GenerateProposal(n, w, tc))
<1> DEFINE taken == [w EXCEPT !.processing_block = NextProcessing(w)]
           payload == NextPayload(w)
<1>1. CASE NextProcessing(w) = None
  BY <1>1, SkipSafe DEF GenerateProposal
<1>2. CASE NextProcessing(w) # None
  <2>1. SafeStep(n, w, taken) /\ taken \in WorkerState /\ Sound(taken)
    BY NextProcessingType, ProcessingSafe, SafeState
  <2>2. payload \in Payload
    BY <1>2, NextPayloadType
  <2>3. GenerateProposal(n, w, tc) = Propose(n, taken, payload, tc)
    BY <1>2 DEF GenerateProposal
  <2> HIDE DEF taken, payload
  <2>4. SafeStep(n, taken, Propose(n, taken, payload, tc))
    BY <2>1, <2>2, ProposeSafe
  <2> QED BY <2>1, <2>3, <2>4, SafeTransitive
<1> QED BY <1>1, <1>2

(* The proposal handle_vote makes after a QC is safe. *)
LEMMA ProposeOnQCSafe ==
  ASSUME NEW n \in Authorities, NEW w \in WorkerState, Sound(w)
  PROVE  SafeStep(n, w, ProposeOnQC(n, w))
<1> DEFINE payload == NextPayload(w)
           taken == [w EXCEPT !.processing_block = NextProcessing(w)]
           kept == IF Len(taken.proposal_hash_queue) > 3
                   THEN <<>> ELSE taken.proposal_hash_queue
           q == Append(kept, payload.block_hash)
           queued == [taken EXCEPT !.proposal_hash_queue = q]
<1>1. CASE NextProcessing(w) = None
  BY <1>1, SkipSafe DEF ProposeOnQC
<1>2. CASE NextProcessing(w) # None
  <2>1. SafeStep(n, w, taken) /\ taken \in WorkerState /\ Sound(taken)
    BY NextProcessingType, ProcessingSafe, SafeState
  <2>2. payload \in Payload /\ payload.block_hash \in Blocks \cup {EmptyHash}
    BY <1>2, NextPayloadType DEF Payload
  <2>3. ProposeOnQC(n, w) = IF TooManyEmpty(w, payload) THEN taken
                            ELSE Propose(n, queued, payload, None)
    BY <1>2 DEF ProposeOnQC
  <2> HIDE DEF taken, payload
  <2>4. kept \in Seq(Blocks \cup {EmptyHash})
    BY <2>1 DEF WorkerState
  <2> HIDE DEF kept
  <2>5. q \in Seq(Blocks \cup {EmptyHash})
    BY <2>2, <2>4, AppendProperties
  <2> HIDE DEF q
  <2>6. SafeStep(n, taken, queued) /\ queued \in WorkerState /\ Sound(queued)
    BY <2>1, <2>5, HashQueueSafe, SafeState, Zenon
  <2>7. SafeStep(n, w, queued)
    BY <2>1, <2>6, SafeTransitive
  <2> HIDE DEF queued
  <2>8. SafeStep(n, queued, Propose(n, queued, payload, None))
    BY <2>2, <2>6, ProposeSafe, Zenon
  <2>9. SafeStep(n, w, Propose(n, queued, payload, None))
    BY <2>7, <2>8, SafeTransitive
  <2> QED BY <2>1, <2>3, <2>9
<1> QED BY <1>1, <1>2

(***************************************************************************)
(* The handlers.                                                           *)
(***************************************************************************)
(* handle_vote is safe. *)
LEMMA HandleVoteSafe ==
  ASSUME NEW n, NEW w \in WorkerState, Sound(w), NEW vote \in Vote
  PROVE  SafeStep(n, w, HandleVote(n, w, vote))
<1> DEFINE votes == AppendVote(w.votes_aggregator, vote)
           added == [w EXCEPT !.votes_aggregator = votes]
           qc == MadeQC(w.votes_aggregator, vote)
           q == HandleQC(added, qc)
<1>1. votes \in SUBSET Vote /\ w.votes_aggregator \in SUBSET Vote
  BY DEF AppendVote, WorkerState
<1>2. qc \in QC
  BY <1>1, MadeQCType
<1>3. SafeStep(n, w, w)
  BY SkipSafe
<1>4. HandleVote(n, w, vote) \in
        {w, added, q} \cup {x \in {ProposeOnQC(n, q)} : IsLeader(n, q)}
  BY DEF HandleVote
<1> HIDE DEF votes, qc
<1>5. SafeStep(n, w, added) /\ added \in WorkerState /\ Sound(added)
  BY <1>1, VotesSafe, SafeState
<1> HIDE DEF added
<1>6. SafeStep(n, added, q) /\ q \in WorkerState /\ Sound(q)
  BY <1>2, <1>5, HandleQCSafe, SafeState
<1>7. SafeStep(n, w, q)
  BY <1>5, <1>6, SafeTransitive
<1> HIDE DEF q
<1>8. ASSUME IsLeader(n, q) PROVE SafeStep(n, w, ProposeOnQC(n, q))
  <2>1. SafeStep(n, q, ProposeOnQC(n, q))
    BY <1>6, <1>8, ProposeOnQCSafe DEF IsLeader
  <2> QED BY <1>7, <2>1, SafeTransitive
<1> QED BY <1>3, <1>4, <1>5, <1>7, <1>8

(* handle_proposal is safe, also when the voter leads the next view and     *)
(* proposes as soon as it has counted its own vote. *)
LEMMA HandleProposalSafe ==
  ASSUME NEW n, NEW w \in WorkerState, Sound(w), NEW p \in Proposal
  PROVE  SafeStep(n, w, HandleProposal(n, w, p))
<1> DEFINE a == AcceptProposal(w, p)
           voted == CastVote(n, a, p)
           vote == VoteFor(n, p)
<1>1. CASE ~Acceptable(w, p)
  BY <1>1, SkipSafe DEF HandleProposal
<1>2. CASE Acceptable(w, p)
  <2>1. SafeStep(n, w, a)
    BY <1>2, VotedSafe
  <2>2. ASSUME MakesVote(n, a, p)
        PROVE  /\ SafeStep(n, w, HandleVote(n, voted, vote))
               /\ SafeStep(n, w, Gossip(voted, vote))
    <3>1. SafeStep(n, w, voted) /\ voted \in WorkerState /\ Sound(voted)
      BY <1>2, <2>2, VotedSafe, SafeState
    <3>2. vote \in Vote /\ vote \in ConsensusMessage /\ vote.type # "Timeout"
      BY <2>2, VoteForType DEF MakesVote, VoteFor
    <3> HIDE DEF voted, vote
    <3>3. SafeStep(n, voted, HandleVote(n, voted, vote))
      BY <3>1, <3>2, HandleVoteSafe
    <3>4. SafeStep(n, voted, Gossip(voted, vote))
      BY <3>1, <3>2, GossipSafe
    <3> QED BY <3>1, <3>3, <3>4, SafeTransitive
  <2> QED BY <1>2, <2>1, <2>2 DEF HandleProposal
<1> QED BY <1>1, <1>2

(* handle_timeout is safe, the proposal on a new TC included. *)
LEMMA HandleTimeoutSafe ==
  ASSUME NEW n, NEW w \in WorkerState, Sound(w), NEW t \in Timeout
  PROVE  SafeStep(n, w, HandleTimeout(n, w, t))
<1> DEFINE q == HandleQC(w, t.high_qc)
           timeouts == AppendTimeout(q.timeouts_aggregators, t)
           added == [q EXCEPT !.timeouts_aggregators = timeouts]
           tc == MadeTC(q.timeouts_aggregators, t)
           moved == IF tc.view >= added.view
                    THEN ResetTimer(AdvanceView(added, tc.view)) ELSE added
           sent == Gossip(moved, tc)
           reset == [sent EXCEPT !.processing_block = None]
<1>1. SafeStep(n, w, w)
  BY SkipSafe
<1>2. HandleTimeout(n, w, t) \in
        {w, added, sent}
          \cup {x \in {GenerateProposal(n, reset, tc.view)} : IsLeader(n, sent)}
  BY DEF HandleTimeout
<1>3. t.high_qc \in QC /\ t.view \in Nat
  BY DEF Timeout
<1>4. SafeStep(n, w, q) /\ q \in WorkerState /\ Sound(q)
  BY <1>3, HandleQCSafe, SafeState
<1> HIDE DEF q
<1>5. /\ timeouts \in SUBSET [view : Nat, vote : TimeoutVote]
      /\ tc \in TC /\ tc.view \in Nat
  <2>1. q.timeouts_aggregators \in SUBSET [view : Nat, vote : TimeoutVote]
    BY <1>4 DEF WorkerState
  <2> QED BY <1>3, <2>1, AppendTimeoutType, Zenon
<1> HIDE DEF timeouts, tc
<1>6. SafeStep(n, q, added) /\ added \in WorkerState /\ Sound(added)
  BY <1>4, <1>5, TimeoutsSafe, SafeState, Zenon
<1>7. SafeStep(n, w, added)
  BY <1>4, <1>6, SafeTransitive
<1> HIDE DEF added
<1>8. SafeStep(n, w, moved) /\ moved \in WorkerState /\ Sound(moved)
  <2>1. ASSUME tc.view >= added.view
        PROVE  SafeStep(n, w, ResetTimer(AdvanceView(added, tc.view)))
    <3>1. SafeStep(n, added, ResetTimer(AdvanceView(added, tc.view)))
      BY <1>5, <1>6, <2>1, AdvanceAndResetSafe
    <3> QED BY <1>7, <3>1, SafeTransitive
  <2>3. SafeStep(n, w, moved)
    BY <1>7, <2>1
  <2> QED BY <2>3, SafeState
<1> HIDE DEF moved
<1>9. SafeStep(n, w, sent) /\ sent \in WorkerState /\ Sound(sent)
  <2>1. SafeStep(n, moved, sent)
    BY <1>5, <1>8, GossipSafe DEF ConsensusMessage, TC
  <2> QED BY <1>8, <2>1, SafeTransitive, SafeState
<1> HIDE DEF sent
<1>10. ASSUME IsLeader(n, sent)
       PROVE  SafeStep(n, w, GenerateProposal(n, reset, tc.view))
  <2>1. SafeStep(n, sent, reset) /\ reset \in WorkerState /\ Sound(reset)
    BY <1>9, ProcessingSafe, SafeState, Zenon
  <2>2. SafeStep(n, w, reset)
    BY <1>9, <2>1, SafeTransitive
  <2> HIDE DEF reset
  <2>3. SafeStep(n, reset, GenerateProposal(n, reset, tc.view))
    BY <1>5, <1>10, <2>1, GenerateProposalSafe DEF IsLeader
  <2> QED BY <2>2, <2>3, SafeTransitive
<1> QED BY <1>1, <1>2, <1>7, <1>9, <1>10

(* handle_tc is safe. *)
LEMMA HandleTCSafe ==
  ASSUME NEW n, NEW w \in WorkerState, Sound(w), NEW tc \in TC
  PROVE  SafeStep(n, w, HandleTC(n, w, tc))
<1> DEFINE advanced == ResetTimer(AdvanceView(w, tc.view))
           moved == [advanced EXCEPT !.processing_block = None]
<1>1. SafeStep(n, w, w)
  BY SkipSafe
<1>2. tc.view \in Nat
  BY DEF TC
<1>3. CASE ~VerifyTC(w, tc)
  BY <1>1, <1>3 DEF HandleTC
<1> SUFFICES ASSUME VerifyTC(w, tc) PROVE SafeStep(n, w, HandleTC(n, w, tc))
  BY <1>3
<1>4. SafeStep(n, w, advanced) /\ advanced \in WorkerState /\ Sound(advanced)
  <2>1. tc.view >= w.view
    BY <1>2 DEF VerifyTC, WorkerState
  <2> QED BY <1>2, <2>1, AdvanceAndResetSafe, SafeState
<1>7. HandleTC(n, w, tc) =
        IF IsLeader(n, moved) THEN GenerateProposal(n, moved, None) ELSE moved
  BY DEF HandleTC
<1> HIDE DEF advanced
<1>5. SafeStep(n, w, moved) /\ moved \in WorkerState /\ Sound(moved)
  <2>1. SafeStep(n, advanced, moved)
    BY <1>4, ProcessingSafe
  <2> QED BY <1>4, <2>1, SafeTransitive, SafeState
<1> HIDE DEF moved
<1>6. ASSUME IsLeader(n, moved) PROVE SafeStep(n, w, GenerateProposal(n, moved, None))
  <2>1. SafeStep(n, moved, GenerateProposal(n, moved, None))
    BY <1>5, <1>6, GenerateProposalSafe, Zenon DEF IsLeader
  <2> QED BY <1>5, <2>1, SafeTransitive
<1> QED BY <1>5, <1>6, <1>7

(* handle_local_timer is safe. *)
LEMMA HandleLocalTimerSafe ==
  ASSUME NEW n, NEW w \in WorkerState, Sound(w)
  PROVE  SafeStep(n, w, HandleLocalTimer(n, w))
<1> DEFINE v == Higher(w.last_voted_view, w.view)
           stopped == [ResetTimer(w) EXCEPT !.last_voted_view = v]
           t == MakeTimeout(n, w)
           sent == Gossip(stopped, t)
<1>1. w.view \in Nat /\ w.last_voted_view \in Nat /\ w.high_qc \in QC
  BY DEF WorkerState
<1>2. v \in Nat /\ w.last_voted_view <= v /\ w.view <= v
  BY <1>1 DEF Higher
<1>3. HandleLocalTimer(n, w) =
        IF n \in Authorities THEN HandleTimeout(n, sent, t) ELSE stopped
  BY DEF HandleLocalTimer, IncreaseLastVotedView, ResetTimer, WorkerState
<1>4. /\ n \in Authorities => t \in Timeout /\ t \in ConsensusMessage
      /\ t.voter = n /\ t.view = w.view
  BY <1>1 DEF MakeTimeout, Timeout, ConsensusMessage
<1> HIDE DEF v, t
<1>5. stopped \in WorkerState
  BY <1>2, Zenon DEF WorkerState, ResetTimer
<1>6. Silent(w, stopped) /\ stopped.last_voted_view = v /\ Unsent(w, stopped)
  BY DEF Silent, Unsent, WorkerState, ResetTimer
<1>7. SafeStep(n, w, stopped) /\ Sound(stopped)
  <2>1. Step(n, w, stopped)
    BY <1>2, <1>5, <1>6 DEF Step, SignStep, Silent
  <2> QED BY <1>6, <2>1, UnsentOrderly, SilentSafe, SafeState
<1> HIDE DEF stopped
<1>8. ASSUME n \in Authorities PROVE SafeStep(n, w, HandleTimeout(n, sent, t))
  <2>1. SafeStep(n, stopped, sent) /\ sent \in WorkerState /\ Sound(sent)
    BY <1>2, <1>4, <1>5, <1>6, <1>7, <1>8, GossipSafe, SafeState
  <2>2. SafeStep(n, w, sent)
    BY <1>7, <2>1, SafeTransitive
  <2> HIDE DEF sent
  <2>3. SafeStep(n, sent, HandleTimeout(n, sent, t))
    BY <1>4, <1>8, <2>1, HandleTimeoutSafe
  <2> QED BY <2>2, <2>3, SafeTransitive
<1> QED BY <1>3, <1>7, <1>8

(***************************************************************************)
(* The inductive invariant.                                                *)
(***************************************************************************)
VotesWellFormed == \A s \in signed : VoteNamesView(s) /\ s.voter \in Nodes

StoreCertified ==
  \A n \in Nodes : \A h \in store[n] : ExtendsCertified(h, signed)

FinalizedCertified ==
  \A n \in Nodes : finalized[n] = Genesis \/ TwoChain(finalized[n], signed)

TimeoutsCovered ==
  \A m \in msgs : (m.type = "Timeout" /\ m.voter \notin restarted) =>
    m.voter \in Nodes /\ m.view <= last_voted_view[m.voter]

FInv ==
  /\ IInv
  /\ TimeoutsCovered
  /\ VotesWellFormed
  /\ StoreCertified
  /\ FinalizedCertified
  /\ VotersHaveBlock

(* Node n's handler ends in a state that a safe step leads to. *)
Handles(n) ==
  \E w \in WorkerState : SafeStep(n, Worker(n), w) /\ Commit(n, w)

(* The handlers start from a sound worker state. *)
LEMMA WorkerSound ==
  ASSUME FInv, NEW n \in Nodes
  PROVE  Worker(n) \in WorkerState /\ Sound(Worker(n))
<1>1. Worker(n) \in WorkerState
  BY WorkerType DEF FInv, IInv
<1>2. Worker(n).signed = signed /\ Worker(n).store = store[n]
  BY DEF Worker
<1> QED BY <1>1, <1>2 DEF Sound, FInv, VotesWellFormed, StoreCertified

(* Every action of the worker is a safe step of its node. *)
LEMMA HandlersSafe ==
  ASSUME FInv, NEW n \in Nodes,
         \/ LocalTimer(n) \/ ReceiveProposal(n) \/ ReceiveVote(n)
         \/ ReceiveTimeout(n) \/ ReceiveTC(n)
  PROVE  Handles(n)
<1>1. Worker(n) \in WorkerState /\ Sound(Worker(n))
  BY WorkerSound
<1>2. msgs \subseteq ConsensusMessage
  BY DEF FInv, IInv, TypeOK
<1>3. ASSUME NEW w, SafeStep(n, Worker(n), w), Commit(n, w) PROVE Handles(n)
  BY <1>3, SafeState DEF Handles
<1>4. CASE LocalTimer(n)
  BY <1>1, <1>3, <1>4, HandleLocalTimerSafe DEF LocalTimer
<1>5. CASE ReceiveProposal(n)
  <2>1. PICK p \in {m \in msgs : m.type = "Propose"} :
          Commit(n, HandleProposal(n, Worker(n), p))
    BY <1>5 DEF ReceiveProposal
  <2>2. p \in Proposal
    BY <1>2 DEF ConsensusMessage, Proposal, Vote, Timeout, TC
  <2> QED BY <1>1, <1>3, <2>1, <2>2, HandleProposalSafe
<1>6. CASE ReceiveVote(n)
  <2>1. PICK vote \in {m \in msgs : m.type = "Vote"} :
          Commit(n, HandleVote(n, Worker(n), vote))
    BY <1>6 DEF ReceiveVote
  <2>2. vote \in Vote
    BY <1>2 DEF ConsensusMessage, Proposal, Vote, Timeout, TC
  <2> QED BY <1>1, <1>3, <2>1, <2>2, HandleVoteSafe
<1>7. CASE ReceiveTimeout(n)
  <2>1. PICK t \in {m \in msgs : m.type = "Timeout"} :
          Commit(n, HandleTimeout(n, Worker(n), t))
    BY <1>7 DEF ReceiveTimeout
  <2>2. t \in Timeout
    BY <1>2 DEF ConsensusMessage, Proposal, Vote, Timeout, TC
  <2> QED BY <1>1, <1>3, <2>1, <2>2, HandleTimeoutSafe
<1>8. CASE ReceiveTC(n)
  <2>1. PICK tc \in {m \in msgs : m.type = "TC"} :
          Commit(n, HandleTC(n, Worker(n), tc))
    BY <1>8 DEF ReceiveTC
  <2>2. tc \in TC
    BY <1>2 DEF ConsensusMessage, Proposal, Vote, Timeout, TC
  <2> QED BY <1>1, <1>3, <2>1, <2>2, HandleTCSafe
<1> QED BY <1>4, <1>5, <1>6, <1>7, <1>8

(* The first state satisfies the invariant. *)
LEMMA InitFInv == Init => FInv
<1> SUFFICES ASSUME Init PROVE FInv
  OBVIOUS
<1>1. IInv
  BY InitIInv
<1>2. /\ VotesWellFormed /\ StoreCertified /\ FinalizedCertified
      /\ VotersHaveBlock /\ TimeoutsCovered
  BY DEF Init, VotesWellFormed, StoreCertified, FinalizedCertified,
         VotersHaveBlock, TimeoutsCovered
<1> QED BY <1>1, <1>2 DEF FInv

(* A safe step of a handler, once committed, preserves the invariant. *)
LEMMA CommitFInv ==
  ASSUME FInv, NEW n \in Nodes, Handles(n)
  PROVE  FInv'
<1>1. PICK w \in WorkerState : SafeStep(n, Worker(n), w) /\ Commit(n, w)
  BY DEF Handles
<1>2. /\ Worker(n).signed = signed /\ Worker(n).imported = imported[n]
      /\ Worker(n).finalized = finalized[n]
  BY DEF Worker
<1>3. /\ signed' = w.signed /\ imported' = imported
      /\ store' = [store EXCEPT ![n] = w.store]
      /\ finalized' = [finalized EXCEPT ![n] = w.finalized]
  BY <1>1 DEF Commit
<1>4. /\ Sound(w) /\ signed \subseteq w.signed
      /\ \A s \in w.signed \ signed :
           VotesAmong(s, imported[n]) /\ s.voter = n
      /\ w.finalized = finalized[n] \/ TwoChain(w.finalized, w.signed)
  BY <1>1, <1>2 DEF SafeStep, FinalStep, Step, SignStep
<1>5. /\ store \in [Nodes -> SUBSET ProposalHash]
      /\ finalized \in [Nodes -> Blocks]
  BY DEF FInv, IInv, TypeOK
<1>6. IInv'
  BY <1>1, CommitIInv DEF FInv, SafeStep
<1>7. VotesWellFormed'
  BY <1>3, <1>4 DEF FInv, VotesWellFormed, Sound
<1>8. StoreCertified'
  <2> SUFFICES ASSUME NEW m \in Nodes, NEW h \in store'[m]
               PROVE  ExtendsCertified(h, w.signed)
    BY <1>3 DEF StoreCertified, ExtendsCertified, Cert
  <2>1. CASE m = n
    BY <1>3, <1>4, <1>5, <2>1 DEF Sound
  <2>2. CASE m # n
    <3>1. ExtendsCertified(h, signed)
      BY <1>3, <1>5, <2>2 DEF FInv, StoreCertified
    <3> QED BY <1>4, <3>1, CertMonotone DEF ExtendsCertified
  <2> QED BY <2>1, <2>2
<1>9. FinalizedCertified'
  <2> SUFFICES ASSUME NEW m \in Nodes
               PROVE  finalized'[m] = Genesis \/ TwoChain(finalized'[m], w.signed)
    BY <1>3 DEF FinalizedCertified, TwoChain, Cert
  <2>1. finalized[m] = Genesis \/ TwoChain(finalized[m], w.signed)
    BY <1>4, TwoChainMonotone DEF FInv, FinalizedCertified
  <2> QED BY <1>3, <1>4, <1>5, <2>1
<1>10. VotersHaveBlock'
  <2> SUFFICES ASSUME NEW s \in w.signed
               PROVE  VotesAmong(s, imported[s.voter])
    BY <1>3 DEF VotersHaveBlock, VotesAmong
  <2>1. CASE s \in signed
    BY <2>1 DEF FInv, VotersHaveBlock, VotesAmong
  <2>2. CASE s \notin signed
    BY <1>4, <2>2
  <2> QED BY <2>1, <2>2
<1>11. TimeoutsCovered'
  <2>1. /\ Worker(n).msgs = msgs /\ Worker(n).last_voted_view = last_voted_view[n]
        /\ msgs' = w.msgs /\ restarted' = restarted
        /\ last_voted_view' = [last_voted_view EXCEPT ![n] = w.last_voted_view]
    BY <1>1 DEF Worker, Commit
  <2>2. /\ last_voted_view[n] <= w.last_voted_view
        /\ \A m \in w.msgs \ msgs :
             m.type = "Timeout" => m.voter = n /\ m.view <= w.last_voted_view
    BY <1>1, <2>1 DEF SafeStep, Step, SignStep, OrderlyStep
  <2>3. /\ last_voted_view \in [Nodes -> Nat] /\ w.last_voted_view \in Nat
        /\ msgs \subseteq ConsensusMessage
    BY DEF FInv, IInv, TypeOK, WorkerState
  <2> SUFFICES ASSUME NEW m \in w.msgs, m.type = "Timeout", m.voter \notin restarted
               PROVE  m.voter \in Nodes /\ m.view <= last_voted_view'[m.voter]
    BY <2>1 DEF TimeoutsCovered
  <2>4. CASE m \in msgs
    <3>1. m.voter \in Nodes /\ m.view <= last_voted_view[m.voter]
      BY <2>4 DEF FInv, TimeoutsCovered
    <3>2. m.view \in Nat
      BY <2>3, <2>4 DEF ConsensusMessage, Proposal, Vote, Timeout, TC
    <3> QED BY <2>1, <2>2, <2>3, <3>1, <3>2
  <2>5. CASE m \notin msgs
    BY <2>1, <2>2, <2>3, <2>5
  <2> QED BY <2>4, <2>5
<1> QED BY <1>6, <1>7, <1>8, <1>9, <1>10, <1>11 DEF FInv

(* A step that changes neither votes, proposals nor finalized blocks, and   *)
(* takes no block from a client, preserves the invariant. *)
LEMMA UnchangedFInv ==
  ASSUME FInv, IInv', TimeoutsCovered', UNCHANGED <<signed, store, finalized>>,
         \A n \in Nodes : imported[n] \subseteq imported'[n]
  PROVE  FInv'
<1>1. VotesWellFormed'
  BY DEF FInv, VotesWellFormed
<1>2. StoreCertified' /\ FinalizedCertified'
  BY DEF FInv, StoreCertified, FinalizedCertified, ExtendsCertified, TwoChain, Cert
<1>3. VotersHaveBlock'
  BY DEF FInv, VotersHaveBlock, VotesWellFormed
<1> QED BY <1>1, <1>2, <1>3 DEF FInv

(* Every step preserves the invariant. *)
LEMMA NextFInv == FInv /\ [Next]_vars => FInv'
<1> SUFFICES ASSUME FInv, [Next]_vars PROVE FInv'
  OBVIOUS
<1>1. IInv'
  BY NextIInv DEF FInv
<1>2. ASSUME NEW n \in Nodes, Handles(n) PROVE FInv'
  BY <1>2, CommitFInv
<1>3. ASSUME UNCHANGED <<msgs, last_voted_view, restarted>>
      PROVE  TimeoutsCovered'
  BY <1>3 DEF FInv, TimeoutsCovered
<1>4. ASSUME NEW n \in Nodes, NEW b \in Blocks, ImportBlock(n, b) PROVE FInv'
  <2>1. imported \in [Nodes -> SUBSET Blocks]
    BY DEF FInv, IInv, TypeOK
  <2>2. \A m \in Nodes : imported[m] \subseteq imported'[m]
    BY <1>4, <2>1 DEF ImportBlock
  <2>3. UNCHANGED <<signed, store, finalized, msgs, last_voted_view, restarted>>
    BY <1>4 DEF ImportBlock, workerVars
  <2> QED BY <1>1, <1>3, <2>2, <2>3, UnchangedFInv
<1>5. ASSUME UNCHANGED <<clientVars, signed>>, TimeoutsCovered' PROVE FInv'
  <2>1. /\ UNCHANGED <<signed, store, finalized>>
        /\ \A m \in Nodes : imported[m] \subseteq imported'[m]
    BY <1>5 DEF clientVars
  <2> QED BY <1>1, <1>5, <2>1, UnchangedFInv
<1>6. ASSUME NEW n \in Nodes, PollPendingQueue(n) PROVE FInv'
  <2>1. UNCHANGED <<clientVars, signed, msgs, last_voted_view, restarted>>
    BY <1>6 DEF PollPendingQueue, workerVars
  <2> QED BY <1>3, <1>5, <2>1
<1>7. ASSUME NEW n \in Nodes, Restart(n) PROVE FInv'
  <2>1. /\ UNCHANGED <<clientVars, signed, msgs>>
        /\ restarted' = restarted \cup {n}
        /\ last_voted_view' = [last_voted_view EXCEPT ![n] = 0]
    BY <1>7 DEF Restart
  <2>2. last_voted_view \in [Nodes -> Nat]
    BY DEF FInv, IInv, TypeOK
  <2>3. TimeoutsCovered'
    BY <2>1, <2>2 DEF FInv, TimeoutsCovered
  <2> QED BY <1>5, <2>1, <2>3
<1>8. CASE UNCHANGED vars
  <2>1. UNCHANGED <<clientVars, signed, msgs, last_voted_view, restarted>>
    BY <1>8 DEF vars, workerVars
  <2> QED BY <1>3, <1>5, <2>1
<1> QED BY <1>2, <1>4, <1>6, <1>7, <1>8, HandlersSafe DEF Next

(***************************************************************************)
(* The theorems.                                                           *)
(***************************************************************************)
(* The invariant holds in every reachable state. *)
THEOREM FinalityInvariance == Spec => []FInv
  BY InitFInv, NextFInv, PTL DEF Spec

(* No replica votes for a block it does not have (the status check of       *)
(* handle_proposal before make_vote), restarts included. *)
THEOREM VoterHasBlock == Spec => []VotersHaveBlock
<1>1. FInv => VotersHaveBlock
  BY DEF FInv
<1> QED BY <1>1, FinalityInvariance, PTL

(* Certificates as an observer of all votes judges them. *)
LEMMA CertCertified ==
  ASSUME NEW h, Cert(h, signed) PROVE Certified(h, Last(h).view)
<1> DEFINE S == Signers(h, Last(h).view)
<1>1. PICK Q \in QuorumSets : \A a \in Q :
        [type |-> "Vote", proposal_hash |-> h, view |-> Last(h).view,
         voter |-> a] \in signed
  BY DEF Cert
<1>2. Q \subseteq S /\ S \subseteq Authorities
  BY <1>1 DEF QuorumSets, Signers
<1>3. IsFiniteSet(Authorities)
  BY FS_Interval, AuthoritiesAssumption DEF Authorities
<1>4. /\ IsFiniteSet(S) /\ Cardinality(S) \in Nat
      /\ Cardinality(Q) \in Nat /\ Cardinality(Q) <= Cardinality(S)
  BY <1>2, <1>3, FS_Subset, FS_CardinalityType
<1>5. MoreThanTwoThirds(Cardinality(Q))
  BY DEF QuorumSets
<1> HIDE DEF S
<1>6. MoreThanTwoThirds(Cardinality(S))
  BY <1>4, <1>5, AuthoritiesAssumption DEF MoreThanTwoThirds
<1> QED BY <1>6 DEF Certified, S

(* The two-chain rule: a block is finalized only when a proposal carrying   *)
(* it and a child of that proposal in the very next view have both gathered *)
(* a quorum of votes (handle_proposal), whatever is lost, repeated,         *)
(* reordered or restarted. *)
THEOREM TwoChainRule == Spec => []FinalizedByTwoChain
<1>1. FInv => FinalizedByTwoChain
  BY CertCertified DEF FInv, FinalizedCertified, FinalizedByTwoChain, TwoChain
<1> QED BY <1>1, FinalityInvariance, PTL

(***************************************************************************)
(* What a step may never do.                                               *)
(***************************************************************************)
(* A handler neither lowers its node's view nor signs a vote for a view its *)
(* node has timed out in. *)
LEMMA HandlerOrder ==
  ASSUME FInv, NEW n \in Nodes, Handles(n)
  PROVE  /\ \A m \in Nodes : view'[m] >= view[m]
         /\ \A s \in signed' \ signed : s.voter \notin restarted =>
              ~\E m \in msgs : /\ m.type = "Timeout"
                               /\ m.voter = s.voter
                               /\ m.view >= s.view
<1>1. PICK w \in WorkerState : SafeStep(n, Worker(n), w) /\ Commit(n, w)
  BY DEF Handles
<1>2. /\ Worker(n).view = view[n] /\ Worker(n).signed = signed
      /\ Worker(n).last_voted_view = last_voted_view[n]
  BY DEF Worker
<1>3. /\ view \in [Nodes -> Nat] /\ last_voted_view \in [Nodes -> Nat]
      /\ w.view \in Nat /\ w.signed \subseteq Vote
      /\ msgs \subseteq ConsensusMessage
  BY DEF FInv, IInv, TypeOK, WorkerState
<1>4. view' = [view EXCEPT ![n] = w.view] /\ signed' = w.signed
  BY <1>1 DEF Commit
<1>5. view[n] <= w.view
  BY <1>1, <1>2 DEF SafeStep, OrderlyStep
<1>6. \A s \in w.signed \ signed : s.voter = n /\ last_voted_view[n] < s.view
  BY <1>1, <1>2 DEF SafeStep, Step, SignStep
<1>7. ASSUME NEW s \in w.signed \ signed, s.voter \notin restarted,
             NEW m \in msgs, m.type = "Timeout", m.voter = s.voter,
             m.view >= s.view
      PROVE  FALSE
  <2>1. m.view <= last_voted_view[n] /\ last_voted_view[n] < s.view
    BY <1>6, <1>7 DEF FInv, TimeoutsCovered
  <2>2. m.view \in Nat /\ s.view \in Nat /\ last_voted_view[n] \in Nat
    BY <1>3, <1>7 DEF ConsensusMessage, Proposal, Vote, Timeout, TC
  <2> QED BY <1>7, <2>1, <2>2
<1>8. \A m \in Nodes : view'[m] >= view[m]
  BY <1>3, <1>4, <1>5
<1> QED BY <1>4, <1>7, <1>8

(* A running node never returns to an earlier view: the guards around       *)
(* advance_view_from_target make up for its comparison. *)
THEOREM ViewsRise == Spec => ViewMonotone
<1>1. FInv /\ [Next]_vars =>
        [\A n \in Nodes : view'[n] >= view[n] \/ n \in restarted' \ restarted]_vars
  <2> SUFFICES ASSUME FInv, Next
               PROVE  \A n \in Nodes :
                        view'[n] >= view[n] \/ n \in restarted' \ restarted
    OBVIOUS
  <2>1. view \in [Nodes -> Nat]
    BY DEF FInv, IInv, TypeOK
  <2>2. ASSUME NEW n \in Nodes, Handles(n)
        PROVE  \A m \in Nodes : view'[m] >= view[m]
    BY <2>2, HandlerOrder
  <2>3. ASSUME NEW n \in Nodes, NEW b \in Blocks,
               ImportBlock(n, b) \/ PollPendingQueue(n)
        PROVE  \A m \in Nodes : view'[m] >= view[m]
    BY <2>1, <2>3 DEF ImportBlock, PollPendingQueue, workerVars
  <2>4. ASSUME NEW n \in Nodes, Restart(n)
        PROVE  \A m \in Nodes : view'[m] >= view[m] \/ m \in restarted' \ restarted
    BY <2>1, <2>4 DEF Restart
  <2>5. Blocks # {}
    BY BlocksAssumption
  <2> QED BY <2>2, <2>3, <2>4, <2>5, HandlersSafe DEF Next
<1> QED BY <1>1, FinalityInvariance, PTL DEF Spec, ViewMonotone

(* Once a replica has timed out in a view it votes neither in that view nor *)
(* in an earlier one (increase_last_voted_view of handle_local_timer), for  *)
(* as long as it runs. *)
THEOREM TimeoutStopsVotes == Spec => NoVoteAfterTimeout
<1> DEFINE A == \A s \in signed' \ signed : s.voter \notin restarted =>
                  ~\E m \in msgs : /\ m.type = "Timeout"
                                   /\ m.voter = s.voter
                                   /\ m.view >= s.view
<1>1. FInv /\ [Next]_vars => [A]_vars
  <2> SUFFICES ASSUME FInv, Next PROVE A
    OBVIOUS
  <2>1. ASSUME NEW n \in Nodes, Handles(n) PROVE A
    BY <2>1, HandlerOrder
  <2>2. ASSUME signed' = signed PROVE A
    BY <2>2
  <2>3. ASSUME NEW n \in Nodes, NEW b \in Blocks,
               ImportBlock(n, b) \/ PollPendingQueue(n) \/ Restart(n)
        PROVE  A
    BY <2>2, <2>3 DEF ImportBlock, PollPendingQueue, Restart
  <2>4. Blocks # {}
    BY BlocksAssumption
  <2> HIDE DEF A
  <2> QED BY <2>1, <2>3, <2>4, HandlersSafe DEF Next
<1> QED BY <1>1, FinalityInvariance, PTL DEF Spec, NoVoteAfterTimeout
=============================================================================
