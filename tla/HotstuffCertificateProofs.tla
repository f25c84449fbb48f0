----------------------- MODULE HotstuffCertificateProofs -----------------------
(***************************************************************************)
(* Why a node holds what it holds: for every number of authorities and any  *)
(* order of messages, timers and restarts, every QC that a node keeps or    *)
(* sends verifies, and every view it has left was left on a quorum of votes *)
(* or of timeouts.                                                          *)
(*                                                                         *)
(* Neither is inductive.  A QC made by the aggregator verifies because the  *)
(* aggregator holds signed votes only; a TC speaks for a quorum because the *)
(* aggregator keeps one entry per voter and view, each from a timeout that  *)
(* was sent; and a TC on the network is trusted for the timeouts it was     *)
(* made of.  Backed(w) says this of a worker state, and every transformer   *)
(* of HotstuffWorker preserves it.                                          *)
(***************************************************************************)
EXTENDS HotstuffFinalityProofs

(* TimeoutSenders and Signers, of any messages and votes. *)
SendersIn(v, M) ==
  {m.voter : m \in {x \in M : x.type = "Timeout" /\ x.view = v}}

TimedOutIn(v, M) == MoreThanTwoThirds(Cardinality(SendersIn(v, M)))

SignersIn(h, v, S) ==
  {a \in Authorities : [type |-> "Vote", proposal_hash |-> h, view |-> v,
                        voter |-> a] \in S}

CertifiedIn(h, v, S) == MoreThanTwoThirds(Cardinality(SignersIn(h, v, S)))

(* A node may leave view v. *)
Passable(v, M, S) ==
  \/ TimedOutIn(v, M)
  \/ \E s \in S : s.view = v /\ CertifiedIn(s.proposal_hash, v, S)

(* What a message says is backed by votes and timeouts. *)
MessageBacked(m, M, S) ==
  /\ m.type = "Propose" => QCAccepted(m.qc, S)
  /\ m.type = "Timeout" => QCAccepted(m.high_qc, S)
  /\ m.type = "TC" => TimedOutIn(m.view, M)

(* Timeouts kept by the aggregator: each was sent, one per voter and view. *)
EntriesBacked(timeouts, M) ==
  /\ \A e \in timeouts : e.vote.voter \in SendersIn(e.view, M)
  /\ \A e, f \in timeouts :
       e.view = f.view /\ e.vote.voter = f.vote.voter => e = f

StateBacked(w) ==
  /\ QCAccepted(w.high_qc, w.signed)
  /\ w.votes_aggregator \subseteq w.signed
  /\ EntriesBacked(w.timeouts_aggregators, w.msgs)
  /\ \A v \in 1 .. (w.view - 1) : Passable(v, w.msgs, w.signed)

MessagesBacked(M, S) == \A m \in M : MessageBacked(m, M, S)

Backed(w) == MessagesBacked(w.msgs, w.signed) /\ StateBacked(w)

CertificateInv ==
  /\ FInv
  /\ MessagesBacked(msgs, signed)
  /\ \A n \in Nodes : StateBacked(Worker(n))

(***************************************************************************)
(* Quorums only grow.                                                      *)
(***************************************************************************)
(* Sets of authorities can be counted. *)
LEMMA AuthoritiesFinite ==
  ASSUME NEW B \in SUBSET Authorities
  PROVE  IsFiniteSet(B) /\ Cardinality(B) \in Nat
<1>1. IsFiniteSet(Authorities)
  BY FS_Interval, AuthoritiesAssumption DEF Authorities
<1> QED BY <1>1, FS_Subset, FS_CardinalityType

(* A larger set of authorities is a quorum too. *)
LEMMA QuorumGrows ==
  ASSUME NEW A, NEW B \in SUBSET Authorities, A \subseteq B,
         MoreThanTwoThirds(Cardinality(A))
  PROVE  MoreThanTwoThirds(Cardinality(B))
<1>1. IsFiniteSet(B) /\ Cardinality(B) \in Nat
  BY AuthoritiesFinite
<1>2. Cardinality(A) \in Nat /\ Cardinality(A) <= Cardinality(B)
  BY <1>1, FS_Subset, FS_CardinalityType
<1> QED BY <1>1, <1>2, AuthoritiesAssumption DEF MoreThanTwoThirds

(* Timeouts come from authorities. *)
LEMMA SendersType ==
  ASSUME NEW v, NEW M \in SUBSET ConsensusMessage
  PROVE  SendersIn(v, M) \subseteq Authorities
<1>1. ASSUME NEW m \in M, m.type = "Timeout" PROVE m.voter \in Authorities
  <2>1. m \in Timeout
    BY <1>1 DEF ConsensusMessage, Proposal, Vote, Timeout, TC
  <2> QED BY <2>1 DEF Timeout
<1> QED BY <1>1 DEF SendersIn

(* More timeouts make no view less timed out. *)
LEMMA TimedOutMonotone ==
  ASSUME NEW v, NEW M, NEW L \in SUBSET ConsensusMessage, M \subseteq L,
         TimedOutIn(v, M)
  PROVE  TimedOutIn(v, L)
<1>1. SendersIn(v, M) \subseteq SendersIn(v, L)
  BY DEF SendersIn
<1> QED BY <1>1, SendersType, QuorumGrows DEF TimedOutIn

(* More votes verify no QC less... *)
LEMMA AcceptedMonotone ==
  ASSUME NEW qc, NEW S, NEW T, S \subseteq T, QCAccepted(qc, S)
  PROVE  QCAccepted(qc, T)
  BY DEF QCAccepted, QCVerify

(* ... and leave no view less passable. *)
LEMMA PassableMonotone ==
  ASSUME NEW v, NEW M, NEW L \in SUBSET ConsensusMessage, M \subseteq L,
         NEW S, NEW T, S \subseteq T, Passable(v, M, S)
  PROVE  Passable(v, L, T)
<1>1. CASE TimedOutIn(v, M)
  BY <1>1, TimedOutMonotone DEF Passable
<1>2. ASSUME NEW s \in S, s.view = v, CertifiedIn(s.proposal_hash, v, S)
      PROVE  Passable(v, L, T)
  <2>1. /\ SignersIn(s.proposal_hash, v, S) \subseteq SignersIn(s.proposal_hash, v, T)
        /\ SignersIn(s.proposal_hash, v, T) \subseteq Authorities
    BY DEF SignersIn
  <2>2. CertifiedIn(s.proposal_hash, v, T)
    BY <1>2, <2>1, QuorumGrows DEF CertifiedIn
  <2> QED BY <1>2, <2>2 DEF Passable
<1> QED BY <1>1, <1>2 DEF Passable

(* A worker state stays backed when the messages and votes grow. *)
LEMMA StateBackedMonotone ==
  ASSUME NEW w \in WorkerState, NEW x, StateBacked(w),
         x.view = w.view, x.high_qc = w.high_qc,
         x.votes_aggregator = w.votes_aggregator,
         x.timeouts_aggregators = w.timeouts_aggregators,
         w.signed \subseteq x.signed, w.msgs \subseteq x.msgs,
         x.msgs \subseteq ConsensusMessage
  PROVE  StateBacked(x)
<1>1. QCAccepted(x.high_qc, x.signed) /\ x.votes_aggregator \subseteq x.signed
  BY AcceptedMonotone DEF StateBacked
<1>2. EntriesBacked(x.timeouts_aggregators, x.msgs)
  <2>1. \A v : SendersIn(v, w.msgs) \subseteq SendersIn(v, x.msgs)
    BY DEF SendersIn
  <2> QED BY <2>1 DEF StateBacked, EntriesBacked
<1>3. \A v \in 1 .. (x.view - 1) : Passable(v, x.msgs, x.signed)
  BY PassableMonotone DEF StateBacked
<1> QED BY <1>1, <1>2, <1>3 DEF StateBacked

(* So does what the messages say. *)
LEMMA MessageBackedMonotone ==
  ASSUME NEW m, NEW M, NEW L \in SUBSET ConsensusMessage, M \subseteq L,
         NEW S, NEW T, S \subseteq T, MessageBacked(m, M, S)
  PROVE  MessageBacked(m, L, T)
  BY AcceptedMonotone, TimedOutMonotone DEF MessageBacked

(***************************************************************************)
(* The transformers that make no certificate.                              *)
(***************************************************************************)
(* Nothing else of a worker state matters. *)
LEMMA SameBacked ==
  ASSUME NEW w \in WorkerState, NEW x, Backed(w),
         x.view = w.view, x.high_qc = w.high_qc,
         x.votes_aggregator = w.votes_aggregator,
         x.timeouts_aggregators = w.timeouts_aggregators,
         x.signed = w.signed, x.msgs = w.msgs
  PROVE  Backed(x)
  BY DEF Backed, StateBacked

(* Gossiping a message that is backed. *)
LEMMA GossipBacked ==
  ASSUME NEW w \in WorkerState, Backed(w), NEW m \in ConsensusMessage,
         MessageBacked(m, w.msgs, w.signed)
  PROVE  Backed(Gossip(w, m))
<1> DEFINE x == Gossip(w, m)
<1>1. /\ x.view = w.view /\ x.high_qc = w.high_qc
      /\ x.votes_aggregator = w.votes_aggregator
      /\ x.timeouts_aggregators = w.timeouts_aggregators
      /\ x.signed = w.signed /\ x.msgs = w.msgs \cup {m}
      /\ w.msgs \subseteq ConsensusMessage
  BY DEF Gossip, WorkerState
<1> HIDE DEF x
<1>2. StateBacked(x)
  BY <1>1, StateBackedMonotone DEF Backed
<1>3. ASSUME NEW k \in x.msgs PROVE MessageBacked(k, x.msgs, x.signed)
  <2>1. MessageBacked(k, w.msgs, w.signed)
    BY <1>1 DEF Backed, MessagesBacked
  <2> QED BY <1>1, <2>1, MessageBackedMonotone
<1> QED BY <1>2, <1>3 DEF Backed, MessagesBacked, x

(* A vote says nothing that needs backing. *)
LEMMA VoteMessageBacked ==
  ASSUME NEW m \in Vote, NEW M, NEW S PROVE MessageBacked(m, M, S)
  BY DEF MessageBacked, Vote

(* Leaving a view that may be left; a later target leaves none              *)
(* (advance_view_from_target). *)
LEMMA AdvanceBacked ==
  ASSUME NEW w \in WorkerState, Backed(w), NEW target \in Nat, target >= w.view,
         target = w.view /\ target >= 1 => Passable(target, w.msgs, w.signed)
  PROVE  Backed(ResetTimer(AdvanceView(w, target)))
<1> DEFINE x == ResetTimer(AdvanceView(w, target))
<1>1. /\ x.high_qc = w.high_qc
      /\ x.votes_aggregator = w.votes_aggregator
      /\ x.timeouts_aggregators = w.timeouts_aggregators
      /\ x.signed = w.signed /\ x.msgs = w.msgs
      /\ x.view = IF w.view >= target THEN target + 1 ELSE w.view
      /\ w.view \in Nat
  BY DEF ResetTimer, AdvanceView, WorkerState
<1> HIDE DEF x
<1>2. ASSUME NEW v \in 1 .. (x.view - 1) PROVE Passable(v, w.msgs, w.signed)
  <2>1. CASE v \in 1 .. (w.view - 1)
    BY <2>1 DEF Backed, StateBacked
  <2>2. CASE v \notin 1 .. (w.view - 1)
    <3>1. v = target /\ target = w.view /\ target >= 1
      BY <1>1, <2>2
    <3> QED BY <3>1
  <2> QED BY <2>1, <2>2
<1>3. StateBacked(x)
  BY <1>1, <1>2 DEF Backed, StateBacked
<1> QED BY <1>1, <1>3 DEF Backed, x

(* A QC that verifies shows that its view may be left. *)
LEMMA AcceptedPassable ==
  ASSUME NEW qc \in QC, NEW M, NEW S, QCAccepted(qc, S), qc.view >= 1
  PROVE  Passable(qc.view, M, S)
<1> DEFINE VoteOf(a) == [type |-> "Vote", proposal_hash |-> qc.proposal_hash,
                         view |-> qc.view, voter |-> a]
<1>1. /\ qc.votes \subseteq Authorities
      /\ MoreThanTwoThirds(Cardinality(qc.votes))
      /\ \A a \in qc.votes : VoteOf(a) \in S
  BY DEF QCAccepted, QCVerify, QC
<1>2. PICK a \in qc.votes : TRUE
  <2>1. ASSUME qc.votes = {} PROVE FALSE
    <3>1. MoreThanTwoThirds(0)
      BY <1>1, <2>1, FS_EmptySet
    <3> QED BY <3>1, AuthoritiesAssumption DEF MoreThanTwoThirds
  <2> QED BY <2>1
<1>3. qc.votes \subseteq SignersIn(qc.proposal_hash, qc.view, S)
  BY <1>1 DEF SignersIn
<1>4. CertifiedIn(qc.proposal_hash, qc.view, S)
  <2>1. SignersIn(qc.proposal_hash, qc.view, S) \subseteq Authorities
    BY DEF SignersIn
  <2> QED BY <1>1, <1>3, <2>1, QuorumGrows DEF CertifiedIn
<1>5. /\ VoteOf(a) \in S /\ VoteOf(a).view = qc.view
      /\ VoteOf(a).proposal_hash = qc.proposal_hash
  BY <1>1, <1>2
<1> QED BY <1>4, <1>5 DEF Passable

(* handle_qc, on a QC that verifies. *)
LEMMA HandleQCBacked ==
  ASSUME NEW w \in WorkerState, Backed(w), NEW qc \in QC, QCAccepted(qc, w.signed)
  PROVE  /\ Backed(HandleQC(w, qc))
         /\ HandleQC(w, qc).signed = w.signed /\ HandleQC(w, qc).msgs = w.msgs
         /\ HandleQC(w, qc).votes_aggregator = w.votes_aggregator
         /\ HandleQC(w, qc).timeouts_aggregators = w.timeouts_aggregators
<1> DEFINE a == ResetTimer(AdvanceView(w, qc.view))
           x == HandleQC(w, qc)
<1>1. w.view \in Nat /\ qc.view \in Nat
  BY DEF WorkerState, QC
<1>2. CASE ~(qc.view >= w.view)
  BY <1>2 DEF HandleQC
<1>3. CASE qc.view >= w.view
  <2>1. Backed(a)
    BY <1>1, <1>3, AcceptedPassable, AdvanceBacked
  <2>2. /\ x.view = a.view /\ x.signed = a.signed /\ x.msgs = a.msgs
        /\ x.votes_aggregator = a.votes_aggregator
        /\ x.timeouts_aggregators = a.timeouts_aggregators
        /\ x.high_qc \in {a.high_qc, qc}
        /\ a.signed = w.signed /\ a.msgs = w.msgs
        /\ a.votes_aggregator = w.votes_aggregator
        /\ a.timeouts_aggregators = w.timeouts_aggregators
    BY <1>3 DEF HandleQC, ResetTimer, UpdateHighQC, AdvanceView, WorkerState
  <2> HIDE DEF a, x
  <2>3. Backed(x)
    BY <2>1, <2>2 DEF Backed, StateBacked
  <2> QED BY <2>2, <2>3 DEF x
<1> QED BY <1>2, <1>3

(***************************************************************************)
(* The aggregators.                                                        *)
(***************************************************************************)
(* A QC that QCMaker::append returns verifies: its votes were signed, and   *)
(* QuorumWeight of them are more than two thirds. *)
LEMMA MadeQCAccepted ==
  ASSUME NEW S \in SUBSET Vote, NEW votes \in SUBSET S, NEW vote \in S,
         MakesQC(votes, vote)
  PROVE  QCAccepted(MadeQC(votes, vote), S)
<1> DEFINE qc == MadeQC(votes, vote)
           k == Cardinality(qc.votes)
<1>1. /\ qc.votes = QCMakerVoters(AppendVote(votes, vote), vote)
      /\ qc.view = vote.view /\ qc.proposal_hash = vote.proposal_hash
  BY DEF MadeQC
<1>2. ASSUME NEW a \in qc.votes
      PROVE  [type |-> "Vote", proposal_hash |-> qc.proposal_hash,
              view |-> qc.view, voter |-> a] \in S
  <2>1. PICK u \in S : /\ u.voter = a /\ u.view = vote.view
                       /\ u.proposal_hash = vote.proposal_hash
    BY <1>1 DEF QCMakerVoters, AppendVote
  <2>2. u \in Vote
    OBVIOUS
  <2>3. u = [type |-> "Vote", proposal_hash |-> qc.proposal_hash,
             view |-> qc.view, voter |-> a]
    BY <1>1, <2>1, <2>2 DEF Vote
  <2> QED BY <2>3
<1>3. MoreThanTwoThirds(k)
  <2>1. qc.votes \subseteq Authorities
    BY MadeQCType DEF QC
  <2>2. k \in Nat
    BY <2>1, AuthoritiesFinite
  <2>3. k >= QuorumWeight
    BY <1>1 DEF MakesQC
  <2> HIDE DEF k
  <2> QED BY <2>2, <2>3, AuthoritiesAssumption DEF QuorumWeight, MoreThanTwoThirds
<1> QED BY <1>2, <1>3 DEF QCAccepted, QCVerify

(* TCMaker::append keeps one timeout per voter, each of which was sent. *)
LEMMA AppendTimeoutBacked ==
  ASSUME NEW M, NEW timeouts, EntriesBacked(timeouts, M),
         NEW t \in M, t.type = "Timeout"
  PROVE  EntriesBacked(AppendTimeout(timeouts, t), M)
<1>1. CASE TCMakerHas(timeouts, t)
  BY <1>1 DEF AppendTimeout
<1>2. CASE ~TCMakerHas(timeouts, t)
  <2> DEFINE new == TimeoutEntry(t)
  <2>1. new.view = t.view /\ new.vote.voter = t.voter
    BY DEF TimeoutEntry
  <2>2. AppendTimeout(timeouts, t) = timeouts \cup {new}
    BY <1>2 DEF AppendTimeout
  <2> HIDE DEF new
  <2>3. t.voter \in SendersIn(t.view, M)
    BY DEF SendersIn
  <2>4. \A e \in timeouts : ~(e.view = t.view /\ e.vote.voter = t.voter)
    BY <1>2 DEF TCMakerHas, TCMakerVotes
  <2> QED BY <2>1, <2>2, <2>3, <2>4 DEF EntriesBacked
<1> QED BY <1>1, <1>2

(* A TC that TCMaker::append returns speaks for more than two thirds of the *)
(* authorities: its entries have different voters. *)
LEMMA MadeTCTimedOut ==
  ASSUME NEW M \in SUBSET ConsensusMessage, NEW timeouts,
         NEW t \in M, t.type = "Timeout",
         EntriesBacked(AppendTimeout(timeouts, t), M), MakesTC(timeouts, t)
  PROVE  TimedOutIn(t.view, M)
<1> DEFINE A == TCMakerVotes(AppendTimeout(timeouts, t), t.view)
           B == SendersIn(t.view, M)
           f == [e \in A |-> e.voter]
<1>1. ASSUME NEW e \in A PROVE e.voter \in B
  BY DEF TCMakerVotes, EntriesBacked
<1>2. ASSUME NEW e \in A, NEW g \in A, e.voter = g.voter PROVE e = g
  BY <1>2 DEF TCMakerVotes, EntriesBacked
<1>3. Cardinality(A) >= QuorumWeight
  BY DEF MakesTC
<1> HIDE DEF A, B
<1>4. IsFiniteSet(B) /\ Cardinality(B) \in Nat
  BY SendersType, AuthoritiesFinite DEF B
<1>5. f \in Injection(A, B)
  BY <1>1, <1>2 DEF Injection, IsInjective
<1>6. IsFiniteSet(A) /\ Cardinality(A) <= Cardinality(B)
  BY <1>4, <1>5, FS_Injection
<1>7. Cardinality(A) \in Nat
  BY <1>6, FS_CardinalityType
<1>8. MoreThanTwoThirds(Cardinality(B))
  BY <1>3, <1>4, <1>6, <1>7, AuthoritiesAssumption DEF QuorumWeight, MoreThanTwoThirds
<1> QED BY <1>8 DEF TimedOutIn, B

(***************************************************************************)
(* Proposals and votes.                                                    *)
(***************************************************************************)
(* handle_proposal up to the vote: a TC inside the proposal never moves the *)
(* view, because advance_view_from_target ignores later targets. *)
LEMMA AcceptProposalBacked ==
  ASSUME NEW n, NEW w \in WorkerState, Backed(w), NEW p \in Proposal,
         QCAccepted(p.qc, w.signed)
  PROVE  /\ Backed(AcceptProposal(w, p)) /\ AcceptProposal(w, p) \in WorkerState
         /\ AcceptProposal(w, p).signed = w.signed
         /\ AcceptProposal(w, p).msgs = w.msgs
<1> DEFINE q == HandleQC(w, p.qc)
           t == IF p.tc # None /\ p.tc > q.view
                THEN ResetTimer(AdvanceView(q, p.tc)) ELSE q
           x == AcceptProposal(w, p)
<1>1. p.qc \in QC /\ p.tc \in Nat \cup {None}
  BY DEF Proposal
<1>2. Backed(q) /\ q \in WorkerState /\ q.signed = w.signed /\ q.msgs = w.msgs
  BY <1>1, HandleQCBacked, HandleQCStep DEF Step
<1>3. x = TryFinalize(SaveProposal(t, p), p)
  BY DEF AcceptProposal
<1>4. x \in WorkerState
  BY AcceptProposalStep DEF Step
<1> HIDE DEF q, x
<1>5. Backed(t) /\ t \in WorkerState /\ t.signed = w.signed /\ t.msgs = w.msgs
  <2>1. CASE ~(p.tc # None /\ p.tc > q.view)
    BY <1>2, <2>1
  <2>2. CASE p.tc # None /\ p.tc > q.view
    <3>1. p.tc \in Nat /\ q.view \in Nat
      BY <1>1, <1>2, <2>2 DEF WorkerState
    <3>2. Backed(t)
      BY <1>2, <2>2, <3>1, AdvanceBacked
    <3>3. t \in WorkerState
      BY <1>2, <2>2, <3>1, AdvanceAndResetStep DEF Step
    <3>4. t = ResetTimer(AdvanceView(q, p.tc))
      BY <2>2
    <3>5. t.signed = q.signed /\ t.msgs = q.msgs
      BY <1>2, <3>4 DEF ResetTimer, AdvanceView, WorkerState
    <3> QED BY <1>2, <3>2, <3>3, <3>5
  <2> QED BY <2>1, <2>2
<1> HIDE DEF t
<1>6. /\ x.view = t.view /\ x.high_qc = t.high_qc
      /\ x.votes_aggregator = t.votes_aggregator
      /\ x.timeouts_aggregators = t.timeouts_aggregators
      /\ x.signed = t.signed /\ x.msgs = t.msgs
  BY <1>3, <1>5 DEF TryFinalize, SaveProposal, FinalizeBlock, WorkerState
<1> QED BY <1>4, <1>5, <1>6, SameBacked DEF x

(* Casting a vote only adds to the votes. *)
LEMMA CastVoteBacked ==
  ASSUME NEW n, NEW w \in WorkerState, Backed(w), NEW p \in Proposal,
         MakesVote(n, w, p)
  PROVE  /\ Backed(CastVote(n, w, p)) /\ CastVote(n, w, p) \in WorkerState
         /\ VoteFor(n, p) \in CastVote(n, w, p).signed
<1> DEFINE x == CastVote(n, w, p)
<1>1. x \in WorkerState
  BY CastVoteStep DEF Step
<1>2. /\ x.view = w.view /\ x.high_qc = w.high_qc
      /\ x.votes_aggregator = w.votes_aggregator
      /\ x.timeouts_aggregators = w.timeouts_aggregators
      /\ x.msgs = w.msgs /\ x.signed = w.signed \cup {VoteFor(n, p)}
      /\ w.msgs \subseteq ConsensusMessage
  BY DEF CastVote, WorkerState
<1> HIDE DEF x
<1>3. StateBacked(x)
  BY <1>2, StateBackedMonotone DEF Backed
<1>4. MessagesBacked(x.msgs, x.signed)
  BY <1>2, MessageBackedMonotone DEF Backed, MessagesBacked
<1> QED BY <1>1, <1>2, <1>3, <1>4 DEF Backed, x

(* A leader handling its own proposal. *)
LEMMA HandleOwnProposalBacked ==
  ASSUME NEW n, NEW w \in WorkerState, Backed(w), NEW p \in Proposal
  PROVE  Backed(HandleOwnProposal(n, w, p))
<1> DEFINE a == AcceptProposal(w, p)
           voted == CastVote(n, a, p)
           vote == VoteFor(n, p)
<1>1. CASE ~Acceptable(w, p)
  BY <1>1 DEF HandleOwnProposal
<1>2. CASE Acceptable(w, p)
  <2>1. Backed(a) /\ a \in WorkerState
    BY <1>2, AcceptProposalBacked DEF Acceptable, VerifyProposal, ProposalVerify
  <2>2. ASSUME MakesVote(n, a, p) PROVE Backed(Gossip(voted, vote))
    <3>1. Backed(voted) /\ voted \in WorkerState
      BY <2>1, <2>2, CastVoteBacked
    <3>2. vote \in Vote /\ vote \in ConsensusMessage
      BY <2>2, VoteForType DEF MakesVote
    <3> HIDE DEF voted, vote
    <3> QED BY <3>1, <3>2, VoteMessageBacked, GossipBacked
  <2> QED BY <1>2, <2>1, <2>2 DEF HandleOwnProposal
<1> QED BY <1>1, <1>2

(* Proposing: the QC of the proposal is the proposer's high_qc. *)
LEMMA ProposeBacked ==
  ASSUME NEW n \in Authorities, NEW w \in WorkerState, Backed(w),
         NEW payload \in Payload, NEW tc \in Nat \cup {None}
  PROVE  Backed(Propose(n, w, payload, tc))
<1> DEFINE p == MakeProposal(n, w, payload, tc)
           sent == Gossip(w, p)
<1>1. p \in Proposal
  <2>1. w.high_qc \in QC /\ w.view \in Nat
    BY DEF WorkerState
  <2> QED BY <2>1 DEF MakeProposal, Proposal
<1>2. p \in ConsensusMessage /\ p.type = "Propose" /\ p.qc = w.high_qc
  BY <1>1 DEF ConsensusMessage, MakeProposal
<1>3. MessageBacked(p, w.msgs, w.signed)
  BY <1>2 DEF MessageBacked, Backed, StateBacked
<1> HIDE DEF p
<1>4. Backed(sent) /\ sent \in WorkerState
  BY <1>2, <1>3, GossipBacked, GossipStep, Zenon DEF Step
<1> HIDE DEF sent
<1>5. Backed(HandleOwnProposal(n, sent, p))
  BY <1>1, <1>4, HandleOwnProposalBacked
<1> QED BY <1>5 DEF Propose, p, sent

(* Changing the block being processed leaves certificates alone. *)
LEMMA ProcessingBacked ==
  ASSUME NEW w \in WorkerState, Backed(w), NEW b
  PROVE  Backed([w EXCEPT !.processing_block = b])
<1> DEFINE x == [w EXCEPT !.processing_block = b]
<1>1. /\ x.view = w.view /\ x.high_qc = w.high_qc
      /\ x.votes_aggregator = w.votes_aggregator
      /\ x.timeouts_aggregators = w.timeouts_aggregators
      /\ x.signed = w.signed /\ x.msgs = w.msgs
  BY DEF WorkerState
<1> HIDE DEF x
<1>2. Backed(x)
  BY <1>1, SameBacked
<1> QED BY <1>2 DEF x

(* generate_proposal. *)
LEMMA GenerateProposalBacked ==
  ASSUME NEW n \in Authorities, NEW w \in WorkerState, Backed(w),
         NEW tc \in Nat \cup {None}
  PROVE  Backed(GenerateProposal(n, w, tc))
<1> DEFINE taken == [w EXCEPT !.processing_block = NextProcessing(w)]
           payload == NextPayload(w)
<1>1. CASE NextProcessing(w) = None
  BY <1>1 DEF GenerateProposal
<1>2. CASE NextProcessing(w) # None
  <2>1. Backed(taken) /\ taken \in WorkerState
    BY NextProcessingType, ProcessingBacked, ProcessingStep DEF Step
  <2>2. payload \in Payload
    BY <1>2, NextPayloadType
  <2>3. GenerateProposal(n, w, tc) = Propose(n, taken, payload, tc)
    BY <1>2 DEF GenerateProposal
  <2> HIDE DEF taken, payload
  <2> QED BY <2>1, <2>2, <2>3, ProposeBacked
<1> QED BY <1>1, <1>2

(* The proposal handle_vote makes after a QC. *)
LEMMA ProposeOnQCBacked ==
  ASSUME NEW n \in Authorities, NEW w \in WorkerState, Backed(w)
  PROVE  Backed(ProposeOnQC(n, w))
<1> DEFINE payload == NextPayload(w)
           taken == [w EXCEPT !.processing_block = NextProcessing(w)]
           kept == IF Len(taken.proposal_hash_queue) > 3
                   THEN <<>> ELSE taken.proposal_hash_queue
           q == Append(kept, payload.block_hash)
           queued == [taken EXCEPT !.proposal_hash_queue = q]
<1>1. CASE NextProcessing(w) = None
  BY <1>1 DEF ProposeOnQC
<1>2. CASE NextProcessing(w) # None
  <2>1. Backed(taken) /\ taken \in WorkerState
    BY NextProcessingType, ProcessingBacked, ProcessingStep DEF Step
  <2>2. payload \in Payload /\ payload.block_hash \in Blocks \cup {EmptyHash}
    BY <1>2, NextPayloadType DEF Payload
  <2>3. ProposeOnQC(n, w) = IF TooManyEmpty(w, payload) THEN taken
                            ELSE Propose(n, queued, payload, None)
    BY <1>2 DEF ProposeOnQC
  <2> HIDE DEF taken, payload
  <2>4. kept \in Seq(Blocks \cup {EmptyHash})
    BY <2>1 DEF WorkerState
  <2> HIDE DEF kept
  <2>5. q \in Seq(Blocks \cup {EmptyHash})
    BY <2>2, <2>4, AppendProperties
  <2> HIDE DEF q
  <2>6. queued \in WorkerState
    BY <2>1, <2>5, HashQueueStep, Zenon DEF Step
  <2>7. /\ queued.view = taken.view /\ queued.high_qc = taken.high_qc
        /\ queued.votes_aggregator = taken.votes_aggregator
        /\ queued.timeouts_aggregators = taken.timeouts_aggregators
        /\ queued.signed = taken.signed /\ queued.msgs = taken.msgs
    BY <2>1 DEF WorkerState
  <2> HIDE DEF queued
  <2>8. Backed(queued)
    BY <2>1, <2>7, SameBacked
  <2> QED BY <2>1, <2>2, <2>3, <2>6, <2>8, ProposeBacked, Zenon
<1> QED BY <1>1, <1>2

(***************************************************************************)
(* The handlers.                                                           *)
(***************************************************************************)
(* handle_vote: a vote is counted once its signature has been checked. *)
LEMMA HandleVoteBacked ==
  ASSUME NEW n, NEW w \in WorkerState, Backed(w), NEW vote \in Vote
  PROVE  Backed(HandleVote(n, w, vote))
<1> DEFINE votes == AppendVote(w.votes_aggregator, vote)
           added == [w EXCEPT !.votes_aggregator = votes]
           qc == MadeQC(w.votes_aggregator, vote)
           q == HandleQC(added, qc)
<1>1. CASE ~VerifyVote(w, vote)
  BY <1>1 DEF HandleVote
<1> SUFFICES ASSUME VerifyVote(w, vote) PROVE Backed(HandleVote(n, w, vote))
  BY <1>1
<1>2. /\ vote \in w.signed /\ w.votes_aggregator \subseteq w.signed
      /\ w.signed \subseteq Vote /\ w.votes_aggregator \subseteq Vote
  BY DEF VerifyVote, VoteVerify, Backed, StateBacked, WorkerState
<1>3. votes \in SUBSET Vote /\ votes \subseteq w.signed
  BY <1>2 DEF AppendVote
<1>4. HandleVote(n, w, vote) =
        IF ~MakesQC(w.votes_aggregator, vote) THEN added
        ELSE IF IsLeader(n, q) THEN ProposeOnQC(n, q) ELSE q
  BY DEF HandleVote
<1> HIDE DEF votes
<1>5. /\ added.view = w.view /\ added.high_qc = w.high_qc
      /\ added.votes_aggregator = votes
      /\ added.timeouts_aggregators = w.timeouts_aggregators
      /\ added.signed = w.signed /\ added.msgs = w.msgs
  BY DEF WorkerState
<1>6. added \in WorkerState
  BY <1>3, VotesStep DEF Step
<1> HIDE DEF added
<1>7. Backed(added)
  BY <1>3, <1>5 DEF Backed, StateBacked
<1>8. ASSUME MakesQC(w.votes_aggregator, vote)
      PROVE  Backed(q) /\ q \in WorkerState
  <2>1. qc \in QC /\ QCAccepted(qc, added.signed)
    BY <1>2, <1>5, <1>8, MadeQCType, MadeQCAccepted
  <2> HIDE DEF qc
  <2> QED BY <1>6, <1>7, <2>1, HandleQCBacked, HandleQCStep DEF Step
<1> HIDE DEF q
<1>9. ASSUME MakesQC(w.votes_aggregator, vote), IsLeader(n, q)
      PROVE  Backed(ProposeOnQC(n, q))
  BY <1>8, <1>9, ProposeOnQCBacked DEF IsLeader
<1> QED BY <1>4, <1>7, <1>8, <1>9

(* handle_proposal. *)
LEMMA HandleProposalBacked ==
  ASSUME NEW n, NEW w \in WorkerState, Backed(w), NEW p \in Proposal
  PROVE  Backed(HandleProposal(n, w, p))
<1> DEFINE a == AcceptProposal(w, p)
           voted == CastVote(n, a, p)
           vote == VoteFor(n, p)
<1>1. CASE ~Acceptable(w, p)
  BY <1>1 DEF HandleProposal
<1>2. CASE Acceptable(w, p)
  <2>1. Backed(a) /\ a \in WorkerState
    BY <1>2, AcceptProposalBacked DEF Acceptable, VerifyProposal, ProposalVerify
  <2>2. ASSUME MakesVote(n, a, p)
        PROVE  Backed(Gossip(voted, vote)) /\ Backed(HandleVote(n, voted, vote))
    <3>1. Backed(voted) /\ voted \in WorkerState
      BY <2>1, <2>2, CastVoteBacked
    <3>2. vote \in Vote /\ vote \in ConsensusMessage
      BY <2>2, VoteForType DEF MakesVote
    <3> HIDE DEF voted, vote
    <3> QED BY <3>1, <3>2, VoteMessageBacked, GossipBacked, HandleVoteBacked
  <2> QED BY <1>2, <2>1, <2>2 DEF HandleProposal
<1> QED BY <1>1, <1>2

(* handle_timeout, on a timeout that was sent: the TC it may assemble is    *)
(* backed by the timeouts it holds, before it moves the view and before it  *)
(* is gossiped. *)
LEMMA HandleTimeoutBacked ==
  ASSUME NEW n, NEW w \in WorkerState, Backed(w), NEW t \in Timeout, t \in w.msgs
  PROVE  Backed(HandleTimeout(n, w, t))
<1> DEFINE q == HandleQC(w, t.high_qc)
           timeouts == AppendTimeout(q.timeouts_aggregators, t)
           added == [q EXCEPT !.timeouts_aggregators = timeouts]
           tc == MadeTC(q.timeouts_aggregators, t)
           moved == IF tc.view >= added.view
                    THEN ResetTimer(AdvanceView(added, tc.view)) ELSE added
           sent == Gossip(moved, tc)
           reset == [sent EXCEPT !.processing_block = None]
<1>1. CASE w.view > t.view \/ ~TimeoutVerify(t, w.signed)
  BY <1>1 DEF HandleTimeout
<1> SUFFICES ASSUME TimeoutVerify(t, w.signed), ~(w.view > t.view)
             PROVE  Backed(HandleTimeout(n, w, t))
  BY <1>1
<1>2. HandleTimeout(n, w, t) =
        IF ~MakesTC(q.timeouts_aggregators, t) THEN added
        ELSE IF IsLeader(n, sent) THEN GenerateProposal(n, reset, tc.view)
        ELSE sent
  BY DEF HandleTimeout
<1>3. /\ t.high_qc \in QC /\ t.view \in Nat /\ t.type = "Timeout"
      /\ QCAccepted(t.high_qc, w.signed)
  BY DEF Timeout, TimeoutVerify
<1>4. Backed(q) /\ q \in WorkerState /\ q.msgs = w.msgs
  BY <1>3, HandleQCBacked, HandleQCStep, Zenon DEF Step
<1> HIDE DEF q
<1>5. /\ timeouts \in SUBSET [view : Nat, vote : TimeoutVote]
      /\ tc \in TC /\ tc.view = t.view /\ tc.type = "TC"
      /\ EntriesBacked(timeouts, q.msgs)
  <2>1. /\ q.timeouts_aggregators \in SUBSET [view : Nat, vote : TimeoutVote]
        /\ EntriesBacked(q.timeouts_aggregators, q.msgs)
    BY <1>4 DEF WorkerState, Backed, StateBacked
  <2>2. EntriesBacked(timeouts, q.msgs)
    BY <1>3, <1>4, <2>1, AppendTimeoutBacked
  <2> HIDE DEF timeouts
  <2>3. tc \in TC /\ tc.view = t.view
    BY <2>1, AppendTimeoutType, Zenon
  <2> QED BY <2>1, <2>2, <2>3, AppendTimeoutType DEF TC, timeouts
<1>6. ASSUME MakesTC(q.timeouts_aggregators, t) PROVE TimedOutIn(tc.view, q.msgs)
  <2>1. q.msgs \in SUBSET ConsensusMessage
    BY <1>4 DEF WorkerState
  <2> QED BY <1>3, <1>4, <1>5, <1>6, <2>1, MadeTCTimedOut
<1> HIDE DEF timeouts, tc
<1>7. added \in WorkerState /\ added.msgs = q.msgs
  BY <1>4, <1>5, TimeoutsStep, Zenon DEF Step, WorkerState
<1>8. Backed(added)
  <2>1. /\ added.view = q.view /\ added.high_qc = q.high_qc
        /\ added.votes_aggregator = q.votes_aggregator
        /\ added.timeouts_aggregators = timeouts
        /\ added.signed = q.signed
    BY <1>4 DEF WorkerState
  <2> HIDE DEF added
  <2> QED BY <1>4, <1>5, <1>7, <2>1 DEF Backed, StateBacked
<1> HIDE DEF added
<1>9. ASSUME MakesTC(q.timeouts_aggregators, t)
      PROVE  Backed(sent) /\ sent \in WorkerState
  <2>1. Backed(moved) /\ moved \in WorkerState /\ moved.msgs = added.msgs
    <3>1. ASSUME tc.view >= added.view
          PROVE  LET x == ResetTimer(AdvanceView(added, tc.view))
                 IN  Backed(x) /\ x \in WorkerState /\ x.msgs = added.msgs
      <4>1. Passable(tc.view, added.msgs, added.signed) /\ tc.view \in Nat
        BY <1>3, <1>5, <1>6, <1>7, <1>9 DEF Passable
      <4>2. ResetTimer(AdvanceView(added, tc.view)) \in WorkerState
        BY <1>7, <4>1, AdvanceAndResetStep, Zenon DEF Step
      <4>3. Backed(ResetTimer(AdvanceView(added, tc.view)))
        BY <1>7, <1>8, <3>1, <4>1, AdvanceBacked
      <4> QED BY <1>7, <4>2, <4>3, Zenon DEF ResetTimer, AdvanceView, WorkerState
    <3> QED BY <1>7, <1>8, <3>1
  <2> HIDE DEF moved
  <2>2. tc \in ConsensusMessage
    BY <1>5 DEF ConsensusMessage
  <2>3. MessageBacked(tc, moved.msgs, moved.signed)
    BY <1>5, <1>6, <1>7, <1>9, <2>1 DEF MessageBacked
  <2> QED BY <2>1, <2>2, <2>3, GossipBacked, GossipStep DEF Step
<1> HIDE DEF sent
<1>10. ASSUME MakesTC(q.timeouts_aggregators, t), IsLeader(n, sent)
       PROVE  Backed(GenerateProposal(n, reset, tc.view))
  <2>1. Backed(reset) /\ reset \in WorkerState
    BY <1>9, <1>10, ProcessingBacked, ProcessingStep DEF Step
  <2> HIDE DEF reset
  <2> QED BY <1>3, <1>5, <1>10, <2>1, GenerateProposalBacked DEF IsLeader
<1> QED BY <1>2, <1>8, <1>9, <1>10

(* handle_tc, on a TC that was sent: the timeouts it stands for were too. *)
LEMMA HandleTCBacked ==
  ASSUME NEW n, NEW w \in WorkerState, Backed(w), NEW tc \in TC, tc \in w.msgs
  PROVE  Backed(HandleTC(n, w, tc))
<1> DEFINE advanced == ResetTimer(AdvanceView(w, tc.view))
           moved == [advanced EXCEPT !.processing_block = None]
<1>1. CASE ~VerifyTC(w, tc)
  BY <1>1 DEF HandleTC
<1> SUFFICES ASSUME VerifyTC(w, tc) PROVE Backed(HandleTC(n, w, tc))
  BY <1>1
<1>2. tc.view \in Nat /\ tc.type = "TC" /\ tc.view >= w.view
  BY DEF TC, VerifyTC, WorkerState
<1>3. Passable(tc.view, w.msgs, w.signed)
  BY <1>2 DEF Backed, MessagesBacked, MessageBacked, Passable
<1>4. Backed(advanced) /\ advanced \in WorkerState
  BY <1>2, <1>3, AdvanceBacked, AdvanceAndResetStep DEF Step
<1>5. HandleTC(n, w, tc) =
        IF IsLeader(n, moved) THEN GenerateProposal(n, moved, None) ELSE moved
  BY DEF HandleTC
<1> HIDE DEF advanced
<1>6. Backed(moved) /\ moved \in WorkerState
  BY <1>4, ProcessingBacked, ProcessingStep DEF Step
<1> HIDE DEF moved
<1>7. ASSUME IsLeader(n, moved) PROVE Backed(GenerateProposal(n, moved, None))
  BY <1>6, <1>7, GenerateProposalBacked, Zenon DEF IsLeader
<1> QED BY <1>5, <1>6, <1>7

(* handle_local_timer: the timeout is gossiped before it is counted. *)
LEMMA HandleLocalTimerBacked ==
  ASSUME NEW n, NEW w \in WorkerState, Backed(w)
  PROVE  Backed(HandleLocalTimer(n, w))
<1> DEFINE v == Higher(w.last_voted_view, w.view)
           stopped == [ResetTimer(w) EXCEPT !.last_voted_view = v]
           t == MakeTimeout(n, w)
           sent == Gossip(stopped, t)
<1>1. w.view \in Nat /\ w.last_voted_view \in Nat /\ w.high_qc \in QC
  BY DEF WorkerState
<1>2. v \in Nat
  BY <1>1 DEF Higher
<1>3. HandleLocalTimer(n, w) =
        IF n \in Authorities THEN HandleTimeout(n, sent, t) ELSE stopped
  BY DEF HandleLocalTimer, IncreaseLastVotedView, ResetTimer, WorkerState
<1>4. /\ n \in Authorities => t \in Timeout /\ t \in ConsensusMessage
      /\ t.type = "Timeout" /\ t.high_qc = w.high_qc
  BY <1>1 DEF MakeTimeout, Timeout, ConsensusMessage
<1> HIDE DEF v, t
<1>5. stopped \in WorkerState
  BY <1>2, Zenon DEF WorkerState, ResetTimer
<1>6. /\ stopped.view = w.view /\ stopped.high_qc = w.high_qc
      /\ stopped.votes_aggregator = w.votes_aggregator
      /\ stopped.timeouts_aggregators = w.timeouts_aggregators
      /\ stopped.signed = w.signed /\ stopped.msgs = w.msgs
  BY DEF WorkerState, ResetTimer
<1> HIDE DEF stopped
<1>7. Backed(stopped)
  BY <1>6, SameBacked
<1>8. ASSUME n \in Authorities PROVE Backed(HandleTimeout(n, sent, t))
  <2>1. MessageBacked(t, stopped.msgs, stopped.signed)
    BY <1>4, <1>6, <1>7 DEF MessageBacked, Backed, StateBacked
  <2>2. Backed(sent) /\ sent \in WorkerState
    BY <1>4, <1>5, <1>7, <1>8, <2>1, GossipBacked, GossipStep DEF Step
  <2>3. t \in sent.msgs
    BY <1>5 DEF Gossip, WorkerState
  <2> HIDE DEF sent
  <2> QED BY <1>4, <1>8, <2>2, <2>3, HandleTimeoutBacked
<1> QED BY <1>3, <1>7, <1>8

(***************************************************************************)
(* The inductive invariant.                                                *)
(***************************************************************************)
(* Node n's handler ends in a backed state that a safe step leads to. *)
HandlesBacked(n) ==
  \E w \in WorkerState :
    SafeStep(n, Worker(n), w) /\ Backed(w) /\ Commit(n, w)

(* Every action of the worker ends in a backed state. *)
LEMMA HandlersBacked ==
  ASSUME CertificateInv, NEW n \in Nodes,
         \/ LocalTimer(n) \/ ReceiveProposal(n) \/ ReceiveVote(n)
         \/ ReceiveTimeout(n) \/ ReceiveTC(n)
  PROVE  HandlesBacked(n)
<1>1. Worker(n) \in WorkerState /\ Sound(Worker(n))
  BY WorkerSound DEF CertificateInv
<1>2. Worker(n).msgs = msgs /\ Worker(n).signed = signed
  BY DEF Worker
<1>3. Backed(Worker(n)) /\ msgs \subseteq ConsensusMessage
  BY <1>2 DEF CertificateInv, Backed, FInv, IInv, TypeOK
<1>4. ASSUME NEW w, SafeStep(n, Worker(n), w), Backed(w), Commit(n, w)
      PROVE  HandlesBacked(n)
  BY <1>4, SafeState DEF HandlesBacked
<1>5. CASE LocalTimer(n)
  BY <1>1, <1>3, <1>4, <1>5, HandleLocalTimerSafe, HandleLocalTimerBacked
  DEF LocalTimer
<1>6. CASE ReceiveProposal(n)
  <2>1. PICK p \in {m \in msgs : m.type = "Propose"} :
          Commit(n, HandleProposal(n, Worker(n), p))
    BY <1>6 DEF ReceiveProposal
  <2>2. p \in Proposal
    BY <1>3 DEF ConsensusMessage, Proposal, Vote, Timeout, TC
  <2> QED BY <1>1, <1>3, <1>4, <2>1, <2>2, HandleProposalSafe, HandleProposalBacked
<1>7. CASE ReceiveVote(n)
  <2>1. PICK vote \in {m \in msgs : m.type = "Vote"} :
          Commit(n, HandleVote(n, Worker(n), vote))
    BY <1>7 DEF ReceiveVote
  <2>2. vote \in Vote
    BY <1>3 DEF ConsensusMessage, Proposal, Vote, Timeout, TC
  <2> QED BY <1>1, <1>3, <1>4, <2>1, <2>2, HandleVoteSafe, HandleVoteBacked
<1>8. CASE ReceiveTimeout(n)
  <2>1. PICK t \in {m \in msgs : m.type = "Timeout"} :
          Commit(n, HandleTimeout(n, Worker(n), t))
    BY <1>8 DEF ReceiveTimeout
  <2>2. t \in Timeout /\ t \in Worker(n).msgs
    BY <1>2, <1>3 DEF ConsensusMessage, Proposal, Vote, Timeout, TC
  <2> QED BY <1>1, <1>3, <1>4, <2>1, <2>2, HandleTimeoutSafe, HandleTimeoutBacked
<1>9. CASE ReceiveTC(n)
  <2>1. PICK tc \in {m \in msgs : m.type = "TC"} :
          Commit(n, HandleTC(n, Worker(n), tc))
    BY <1>9 DEF ReceiveTC
  <2>2. tc \in TC /\ tc \in Worker(n).msgs
    BY <1>2, <1>3 DEF ConsensusMessage, Proposal, Vote, Timeout, TC
  <2> QED BY <1>1, <1>3, <1>4, <2>1, <2>2, HandleTCSafe, HandleTCBacked
<1> QED BY <1>5, <1>6, <1>7, <1>8, <1>9

(* The invariant, over the variables themselves. *)
NodeBacked(n) ==
  /\ QCAccepted(high_qc[n], signed)
  /\ votes_aggregator[n] \subseteq signed
  /\ EntriesBacked(timeouts_aggregators[n], msgs)
  /\ \A v \in 1 .. (view[n] - 1) : Passable(v, msgs, signed)

(* A node is backed when its worker state is. *)
LEMMA NodeWorkerBacked ==
  ASSUME NEW n PROVE NodeBacked(n) <=> StateBacked(Worker(n))
  BY DEF NodeBacked, StateBacked, Worker

(* ... also after a step. *)
LEMMA NodeWorkerBackedNext ==
  ASSUME NEW n PROVE NodeBacked(n)' <=> StateBacked(Worker(n))'
  BY NodeWorkerBacked, PTL

(* The first state satisfies the invariant: nobody has said anything. *)
LEMMA InitCertificateInv == Init => CertificateInv
<1> SUFFICES ASSUME Init PROVE CertificateInv
  OBVIOUS
<1>1. FInv
  BY InitFInv
<1>2. MessagesBacked(msgs, signed)
  BY DEF Init, MessagesBacked
<1>3. ASSUME NEW n \in Nodes PROVE NodeBacked(n)
  BY DEF Init, NodeBacked, QCAccepted, DefaultQC, EntriesBacked
<1> QED BY <1>1, <1>2, <1>3, NodeWorkerBacked DEF CertificateInv

(* What backs one node backs it still when messages and votes are added. *)
LEMMA NodeBackedMonotone ==
  ASSUME NEW n, NodeBacked(n), msgs \subseteq msgs', signed \subseteq signed',
         msgs' \subseteq ConsensusMessage,
         high_qc'[n] = high_qc[n], votes_aggregator'[n] = votes_aggregator[n],
         timeouts_aggregators'[n] = timeouts_aggregators[n], view'[n] = view[n]
  PROVE  NodeBacked(n)'
<1>1. QCAccepted(high_qc[n], signed') /\ votes_aggregator[n] \subseteq signed'
  BY AcceptedMonotone DEF NodeBacked
<1>2. EntriesBacked(timeouts_aggregators[n], msgs')
  <2>1. \A v : SendersIn(v, msgs) \subseteq SendersIn(v, msgs')
    BY DEF SendersIn
  <2> QED BY <2>1 DEF NodeBacked, EntriesBacked
<1>3. \A v \in 1 .. (view[n] - 1) : Passable(v, msgs', signed')
  BY PassableMonotone DEF NodeBacked
<1>4. QCAccepted(high_qc[n], signed)'
  BY <1>1, Zenon DEF QCAccepted, QCVerify
<1>5. (votes_aggregator[n] \subseteq signed)'
  BY <1>1
<1>6. EntriesBacked(timeouts_aggregators[n], msgs)'
  BY <1>2, Zenon DEF EntriesBacked, SendersIn
<1>7. (\A v \in 1 .. (view[n] - 1) : Passable(v, msgs, signed))'
  <2>1. \A v : Passable(v, msgs, signed)' <=> Passable(v, msgs', signed')
    BY Zenon DEF Passable, TimedOutIn, SendersIn, CertifiedIn, SignersIn
  <2> QED BY <1>3, <2>1
<1> QED BY <1>4, <1>5, <1>6, <1>7 DEF NodeBacked

(* A handler's step, once committed, preserves the invariant. *)
LEMMA CommitCertificateInv ==
  ASSUME CertificateInv, NEW n \in Nodes, HandlesBacked(n)
  PROVE  CertificateInv'
<1>1. PICK w \in WorkerState :
        SafeStep(n, Worker(n), w) /\ Backed(w) /\ Commit(n, w)
  BY DEF HandlesBacked
<1>2. FInv'
  BY <1>1, CommitFInv DEF Handles, CertificateInv
<1>3. /\ view' = [view EXCEPT ![n] = w.view]
      /\ high_qc' = [high_qc EXCEPT ![n] = w.high_qc]
      /\ votes_aggregator' = [votes_aggregator EXCEPT ![n] = w.votes_aggregator]
      /\ timeouts_aggregators' =
           [timeouts_aggregators EXCEPT ![n] = w.timeouts_aggregators]
      /\ msgs' = w.msgs /\ signed' = w.signed
  BY <1>1 DEF Commit
<1>4. /\ view \in [Nodes -> Nat] /\ high_qc \in [Nodes -> QC]
      /\ votes_aggregator \in [Nodes -> SUBSET Vote]
      /\ timeouts_aggregators \in
           [Nodes -> SUBSET [view : Nat, vote : TimeoutVote]]
      /\ msgs' \subseteq ConsensusMessage
  BY <1>2 DEF CertificateInv, FInv, IInv, TypeOK
<1>5. msgs \subseteq msgs' /\ signed \subseteq signed'
  BY <1>1, <1>3 DEF SafeStep, Step, SignStep, OrderlyStep, Worker
<1>6. MessagesBacked(msgs, signed)'
  <2>1. MessagesBacked(w.msgs, w.signed)
    BY <1>1 DEF Backed
  <2> QED BY <1>3, <2>1, Zenon
    DEF MessagesBacked, MessageBacked, QCAccepted, QCVerify, TimedOutIn, SendersIn
<1>7. NodeBacked(n)'
  <2>1. StateBacked(w)
    BY <1>1 DEF Backed
  <2>2. /\ view'[n] = w.view /\ high_qc'[n] = w.high_qc
        /\ votes_aggregator'[n] = w.votes_aggregator
        /\ timeouts_aggregators'[n] = w.timeouts_aggregators
    BY <1>3, <1>4
  <2>3. QCAccepted(high_qc[n], signed)'
    BY <1>3, <2>1, <2>2 DEF StateBacked, QCAccepted, QCVerify
  <2>4. (votes_aggregator[n] \subseteq signed)'
    BY <1>3, <2>1, <2>2 DEF StateBacked
  <2>5. EntriesBacked(timeouts_aggregators[n], msgs)'
    BY <1>3, <2>1, <2>2 DEF StateBacked, EntriesBacked, SendersIn
  <2>6. (\A v \in 1 .. (view[n] - 1) : Passable(v, msgs, signed))'
    <3>1. \A v : Passable(v, msgs, signed)' <=> Passable(v, msgs', signed')
      BY Zenon DEF Passable, TimedOutIn, SendersIn, CertifiedIn, SignersIn
    <3>2. \A v \in 1 .. (view'[n] - 1) : Passable(v, msgs', signed')
      BY <1>3, <2>1, <2>2 DEF StateBacked
    <3> QED BY <3>1, <3>2, Zenon
  <2> QED BY <2>3, <2>4, <2>5, <2>6 DEF NodeBacked
<1>8. ASSUME NEW m \in Nodes, m # n PROVE NodeBacked(m)'
  <2>1. NodeBacked(m)
    BY NodeWorkerBacked DEF CertificateInv
  <2>2. /\ view'[m] = view[m] /\ high_qc'[m] = high_qc[m]
        /\ votes_aggregator'[m] = votes_aggregator[m]
        /\ timeouts_aggregators'[m] = timeouts_aggregators[m]
    BY <1>3, <1>4, <1>8
  <2> QED BY <1>4, <1>5, <2>1, <2>2, NodeBackedMonotone
<1>9. \A m \in Nodes : StateBacked(Worker(m))'
  BY <1>7, <1>8, NodeWorkerBackedNext
<1> QED BY <1>2, <1>6, <1>9 DEF CertificateInv

(* A step that sends and signs nothing, and leaves a node's certificates    *)
(* and view alone or clears them (Restart), preserves the invariant. *)
LEMMA QuietCertificateInv ==
  ASSUME CertificateInv, FInv', UNCHANGED <<msgs, signed>>,
         \A n \in Nodes :
           \/ /\ high_qc'[n] = high_qc[n] /\ view'[n] = view[n]
              /\ votes_aggregator'[n] = votes_aggregator[n]
              /\ timeouts_aggregators'[n] = timeouts_aggregators[n]
           \/ /\ high_qc'[n] = DefaultQC /\ view'[n] = 0
              /\ votes_aggregator'[n] = {}
              /\ timeouts_aggregators'[n] = {}
  PROVE  CertificateInv'
<1>1. MessagesBacked(msgs, signed)'
  BY DEF CertificateInv, MessagesBacked, MessageBacked, QCAccepted, QCVerify,
         TimedOutIn, SendersIn
<1>2. msgs' \subseteq ConsensusMessage
  BY DEF FInv, IInv, TypeOK
<1>3. ASSUME NEW n \in Nodes PROVE NodeBacked(n)'
  <2>1. CASE /\ high_qc'[n] = DefaultQC /\ view'[n] = 0
             /\ votes_aggregator'[n] = {}
             /\ timeouts_aggregators'[n] = {}
    BY <2>1 DEF NodeBacked, QCAccepted, DefaultQC, EntriesBacked
  <2>2. CASE /\ high_qc'[n] = high_qc[n] /\ view'[n] = view[n]
             /\ votes_aggregator'[n] = votes_aggregator[n]
             /\ timeouts_aggregators'[n] = timeouts_aggregators[n]
    <3>1. NodeBacked(n)
      BY NodeWorkerBacked DEF CertificateInv
    <3> QED BY <1>2, <2>2, <3>1, NodeBackedMonotone
  <2> QED BY <2>1, <2>2
<1>4. \A n \in Nodes : StateBacked(Worker(n))'
  BY <1>3, NodeWorkerBackedNext
<1> QED BY <1>1, <1>4 DEF CertificateInv

(* Every step preserves the invariant. *)
LEMMA NextCertificateInv == CertificateInv /\ [Next]_vars => CertificateInv'
<1> SUFFICES ASSUME CertificateInv, [Next]_vars PROVE CertificateInv'
  OBVIOUS
<1>1. FInv'
  BY NextFInv DEF CertificateInv
<1>2. ASSUME NEW n \in Nodes, HandlesBacked(n) PROVE CertificateInv'
  BY <1>2, CommitCertificateInv
<1>3. ASSUME UNCHANGED <<workerVars, msgs, signed>> PROVE CertificateInv'
  BY <1>1, <1>3, QuietCertificateInv DEF workerVars
<1>4. ASSUME NEW n \in Nodes, Restart(n) PROVE CertificateInv'
  <2>1. /\ view \in [Nodes -> Nat] /\ high_qc \in [Nodes -> QC]
        /\ votes_aggregator \in [Nodes -> SUBSET Vote]
        /\ timeouts_aggregators \in
             [Nodes -> SUBSET [view : Nat, vote : TimeoutVote]]
    BY DEF CertificateInv, FInv, IInv, TypeOK
  <2>2. /\ UNCHANGED <<msgs, signed>>
        /\ \A m \in Nodes :
             \/ /\ high_qc'[m] = high_qc[m] /\ view'[m] = view[m]
                /\ votes_aggregator'[m] = votes_aggregator[m]
                /\ timeouts_aggregators'[m] = timeouts_aggregators[m]
             \/ /\ high_qc'[m] = DefaultQC /\ view'[m] = 0
                /\ votes_aggregator'[m] = {}
                /\ timeouts_aggregators'[m] = {}
    BY <1>4, <2>1 DEF Restart
  <2> QED BY <1>1, <2>2, QuietCertificateInv
<1>5. ASSUME NEW n \in Nodes, NEW b \in Blocks,
             ImportBlock(n, b) \/ PollPendingQueue(n)
      PROVE  CertificateInv'
  BY <1>3, <1>5 DEF ImportBlock, PollPendingQueue
<1>6. CASE UNCHANGED vars
  BY <1>3, <1>6 DEF vars
<1>7. Blocks # {}
  BY BlocksAssumption
<1> QED BY <1>2, <1>4, <1>5, <1>6, <1>7, HandlersBacked DEF Next

(***************************************************************************)
(* The theorems.                                                           *)
(***************************************************************************)
(* The invariant holds in every reachable state. *)
THEOREM CertificateInvariance == Spec => []CertificateInv
  BY InitCertificateInv, NextCertificateInv, PTL DEF Spec

(* Every QC that a node keeps, or sends in a proposal or a timeout, passes  *)
(* QC::verify at whoever receives it, for every number of authorities and   *)
(* whatever is lost, repeated, reordered or restarted. *)
THEOREM EveryQCVerifies == Spec => []KnownQCsVerify
<1>1. CertificateInv => KnownQCsVerify
  <2> SUFFICES ASSUME CertificateInv PROVE KnownQCsVerify
    OBVIOUS
  <2>1. \A n \in Nodes : QCAccepted(high_qc[n], signed)
    BY NodeWorkerBacked DEF CertificateInv, NodeBacked
  <2>2. \A m \in msgs : /\ m.type = "Propose" => QCAccepted(m.qc, signed)
                        /\ m.type = "Timeout" => QCAccepted(m.high_qc, signed)
    BY DEF CertificateInv, MessagesBacked, MessageBacked
  <2> QED BY <2>1, <2>2 DEF KnownQCsVerify, KnownQCs
<1> QED BY <1>1, CertificateInvariance, PTL

(* A node has left a view only on a quorum of votes for one proposal of it  *)
(* or a quorum of timeouts in it (handle_qc, handle_timeout, handle_tc). *)
THEOREM EveryViewJustified == Spec => []ViewJustified
<1>1. CertificateInv => ViewJustified
  <2> SUFFICES ASSUME CertificateInv, NEW n \in Nodes, NEW v \in 1 .. (view[n] - 1)
               PROVE  \/ TimedOut(v)
                      \/ \E s \in signed :
                           s.view = v /\ Certified(s.proposal_hash, v)
    BY DEF ViewJustified
  <2>1. Passable(v, msgs, signed)
    BY NodeWorkerBacked DEF CertificateInv, NodeBacked
  <2> QED BY <2>1 DEF Passable, TimedOutIn, SendersIn, TimedOut, TimeoutSenders,
                      CertifiedIn, SignersIn, Certified, Signers
<1> QED BY <1>1, CertificateInvariance, PTL
=============================================================================
