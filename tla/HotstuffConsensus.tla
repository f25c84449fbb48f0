-------------------------- MODULE HotstuffConsensus --------------------------
(***************************************************************************)
(* The replicated system: every node runs a ConsensusWorker and a           *)
(* PendingFinalizeBlockQueue over its Substrate client, and the workers     *)
(* gossip.                                                                  *)
(*                                                                         *)
(* The gossip network is the set of messages sent so far.  A node may       *)
(* receive any of them at any time, any number of times or never, so loss,  *)
(* duplication, reordering and delay are all behaviours; the messages that  *)
(* the gossip validator discards and those dropped when the 1000-slot       *)
(* channel to the worker is full are among the lost ones.                   *)
(***************************************************************************)
EXTENDS HotstuffWorker

CONSTANTS
  Offline,      \* authorities whose node never runs
  Observers,    \* nodes that run a worker but are not authorities
  Restarting,   \* nodes that may be restarted (each once)
  MaxView,      \* bound: no node moves beyond this view
  TimerViews,   \* bound: the views in which local timers fire
  ImportViews   \* bound: the views of a node in which it imports blocks

Nodes == (Authorities \ Offline) \cup Observers

ASSUME NodesAssumption ==
  /\ Observers \cap Authorities = {}
  /\ Restarting \subseteq Nodes

ASSUME BoundAssumption == MaxView \in Nat

VARIABLES
  view,                   \* ConsensusState.view
  last_voted_view,        \* ConsensusState.last_voted_view
  high_qc,                \* ConsensusState.high_qc
  votes_aggregator,       \* Aggregator.votes_aggregator
  timeouts_aggregators,   \* Aggregator.timeouts_aggregators
  processing_block,       \* ConsensusWorker.processing_block
  proposal_hash_queue,    \* ConsensusWorker.proposal_hash_queue
  pending_queue,          \* PendingFinalizeBlockQueue.inner
  import_notification,    \* new best blocks not yet polled by that queue
  finalize_notification,  \* highest finalized number not yet polled, or 0
  store,                  \* proposals in the node's auxiliary store
  imported,               \* blocks in the node's Substrate client
  finalized,              \* the client's last finalized block
  msgs,                   \* messages gossiped so far
  signed,                 \* votes signed so far
  restarted               \* nodes that have been restarted

workerVars == <<view, last_voted_view, high_qc, votes_aggregator,
                timeouts_aggregators, processing_block, proposal_hash_queue>>
clientVars == <<store, imported, finalized>>
queueVars  == <<pending_queue, import_notification, finalize_notification>>
vars == <<workerVars, clientVars, queueVars, msgs, signed, restarted>>

Init ==
  /\ view = [n \in Nodes |-> 0]
  /\ last_voted_view = [n \in Nodes |-> 0]
  /\ high_qc = [n \in Nodes |-> DefaultQC]
  /\ votes_aggregator = [n \in Nodes |-> {}]
  /\ timeouts_aggregators = [n \in Nodes |-> {}]
  /\ processing_block = [n \in Nodes |-> None]
  /\ proposal_hash_queue = [n \in Nodes |-> <<>>]
  /\ pending_queue = [n \in Nodes |-> NewPendingQueue]
  /\ import_notification = [n \in Nodes |-> <<>>]
  /\ finalize_notification = [n \in Nodes |-> 0]
  /\ store = [n \in Nodes |-> {}]
  /\ imported = [n \in Nodes |-> {Genesis}]
  /\ finalized = [n \in Nodes |-> Genesis]
  /\ msgs = {}
  /\ signed = {}
  /\ restarted = {}

(* The worker state of node n that the handlers of HotstuffWorker act on. *)
Worker(n) ==
  [view                  |-> view[n],
   last_voted_view       |-> last_voted_view[n],
   high_qc               |-> high_qc[n],
   votes_aggregator      |-> votes_aggregator[n],
   timeouts_aggregators  |-> timeouts_aggregators[n],
   processing_block      |-> processing_block[n],
   proposal_hash_queue   |-> proposal_hash_queue[n],
   pending_queue         |-> pending_queue[n],
   finalize_notification |-> finalize_notification[n],
   store                 |-> store[n],
   imported              |-> imported[n],
   finalized             |-> finalized[n],
   local_timer           |-> "running",
   msgs                  |-> msgs,
   signed                |-> signed]

(* Node n's handler returns with worker state w.  When timers fire is left  *)
(* open here, so what the handler did to its timer is not kept. *)
Commit(n, w) ==
  /\ w.view <= MaxView
  /\ view' = [view EXCEPT ![n] = w.view]
  /\ last_voted_view' = [last_voted_view EXCEPT ![n] = w.last_voted_view]
  /\ high_qc' = [high_qc EXCEPT ![n] = w.high_qc]
  /\ votes_aggregator' = [votes_aggregator EXCEPT ![n] = w.votes_aggregator]
  /\ timeouts_aggregators' =
       [timeouts_aggregators EXCEPT ![n] = w.timeouts_aggregators]
  /\ processing_block' = [processing_block EXCEPT ![n] = w.processing_block]
  /\ proposal_hash_queue' =
       [proposal_hash_queue EXCEPT ![n] = w.proposal_hash_queue]
  /\ finalize_notification' =
       [finalize_notification EXCEPT ![n] = w.finalize_notification]
  /\ store' = [store EXCEPT ![n] = w.store]
  /\ finalized' = [finalized EXCEPT ![n] = w.finalized]
  /\ msgs' = w.msgs
  /\ signed' = w.signed
  /\ UNCHANGED <<pending_queue, import_notification, imported, restarted>>

(* The gossip engine does not deliver a node's own messages back to it,     *)
(* except those it sent before a restart. *)
Receivable(n, sender) == sender # n \/ n \in restarted

LocalTimer(n) ==
  /\ view[n] \in TimerViews
  /\ Commit(n, HandleLocalTimer(n, Worker(n)))

ReceiveProposal(n) ==
  \E p \in {m \in msgs : m.type = "Propose"} :
    /\ Receivable(n, p.author)
    /\ Commit(n, HandleProposal(n, Worker(n), p))

ReceiveVote(n) ==
  \E vote \in {m \in msgs : m.type = "Vote"} :
    /\ Receivable(n, vote.voter)
    /\ Commit(n, HandleVote(n, Worker(n), vote))

ReceiveTimeout(n) ==
  \E t \in {m \in msgs : m.type = "Timeout"} :
    /\ Receivable(n, t.voter)
    /\ Commit(n, HandleTimeout(n, Worker(n), t))

ReceiveTC(n) ==
  \E tc \in {m \in msgs : m.type = "TC"} :
    Commit(n, HandleTC(n, Worker(n), tc))

(* Substrate imports a block whose ancestors it has and that is not at or   *)
(* below the finalized height; it becomes the best block when it is higher  *)
(* than every other.  Notifications of other blocks are skipped by the      *)
(* queue, so only those of new best blocks are kept. *)
ImportBlock(n, b) ==
  /\ view[n] \in ImportViews
  /\ b \notin imported[n]
  /\ Ancestors[b] \subseteq imported[n]
  /\ BlockNumber(b) > BlockNumber(finalized[n])
  /\ imported' = [imported EXCEPT ![n] = @ \cup {b}]
  /\ import_notification' =
       IF \A c \in imported[n] : BlockNumber(b) > BlockNumber(c)
       THEN [import_notification EXCEPT
               ![n] = Append(@, [hash |-> b, number |-> BlockNumber(b)])]
       ELSE import_notification
  /\ UNCHANGED <<workerVars, store, finalized, pending_queue,
                 finalize_notification, msgs, signed, restarted>>

PollPendingQueue(n) ==
  /\ import_notification[n] # <<>> \/ finalize_notification[n] # 0
  /\ pending_queue' =
       [pending_queue EXCEPT ![n] = PollQueue(@, import_notification[n],
                                              finalize_notification[n])]
  /\ import_notification' = [import_notification EXCEPT ![n] = <<>>]
  /\ finalize_notification' = [finalize_notification EXCEPT ![n] = 0]
  /\ UNCHANGED <<workerVars, clientVars, msgs, signed, restarted>>

(* A node stops and starts again.  The client's blocks and the auxiliary    *)
(* store are on disk; ConsensusState and the queue start afresh. *)
Restart(n) ==
  /\ n \in Restarting \ restarted
  /\ restarted' = restarted \cup {n}
  /\ view' = [view EXCEPT ![n] = 0]
  /\ last_voted_view' = [last_voted_view EXCEPT ![n] = 0]
  /\ high_qc' = [high_qc EXCEPT ![n] = DefaultQC]
  /\ votes_aggregator' = [votes_aggregator EXCEPT ![n] = {}]
  /\ timeouts_aggregators' = [timeouts_aggregators EXCEPT ![n] = {}]
  /\ processing_block' = [processing_block EXCEPT ![n] = None]
  /\ proposal_hash_queue' = [proposal_hash_queue EXCEPT ![n] = <<>>]
  /\ pending_queue' = [pending_queue EXCEPT ![n] = NewPendingQueue]
  /\ import_notification' = [import_notification EXCEPT ![n] = <<>>]
  /\ finalize_notification' = [finalize_notification EXCEPT ![n] = 0]
  /\ UNCHANGED <<clientVars, msgs, signed>>

Next ==
  \/ \E n \in Nodes : LocalTimer(n)
  \/ \E n \in Nodes : ReceiveProposal(n)
  \/ \E n \in Nodes : ReceiveVote(n)
  \/ \E n \in Nodes : ReceiveTimeout(n)
  \/ \E n \in Nodes : ReceiveTC(n)
  \/ \E n \in Nodes : \E b \in Blocks : ImportBlock(n, b)
  \/ \E n \in Nodes : PollPendingQueue(n)
  \/ \E n \in Nodes : Restart(n)

Spec == Init /\ [][Next]_vars

(***************************************************************************)
(* Type invariant.                                                         *)
(***************************************************************************)
TypeOK ==
  /\ view \in [Nodes -> Nat]
  /\ last_voted_view \in [Nodes -> Nat]
  /\ high_qc \in [Nodes -> QC]
  /\ votes_aggregator \in [Nodes -> SUBSET Vote]
  /\ timeouts_aggregators \in [Nodes -> SUBSET [view : Nat, vote : TimeoutVote]]
  /\ processing_block \in [Nodes -> BlockInfo \cup {None}]
  /\ proposal_hash_queue \in [Nodes -> Seq(Blocks \cup {EmptyHash})]
  /\ pending_queue \in [Nodes -> Seq(BlockInfo)]
  /\ import_notification \in [Nodes -> Seq(BlockInfo)]
  /\ finalize_notification \in [Nodes -> Nat]
  /\ store \in [Nodes -> SUBSET ProposalHash]
  /\ imported \in [Nodes -> SUBSET Blocks]
  /\ finalized \in [Nodes -> Blocks]
  /\ msgs \subseteq ConsensusMessage
  /\ signed \subseteq Vote
  /\ restarted \subseteq Restarting

(***************************************************************************)
(* Certificates, as any observer of all signatures would judge them.        *)
(***************************************************************************)
QuorumSets == {Q \in SUBSET Authorities : MoreThanTwoThirds(Cardinality(Q))}

Signers(h, v) ==
  {a \in Authorities : [type |-> "Vote", proposal_hash |-> h, view |-> v,
                        voter |-> a] \in signed}

Certified(h, v) == MoreThanTwoThirds(Cardinality(Signers(h, v)))

TimeoutSenders(v) ==
  {m.voter : m \in {x \in msgs : x.type = "Timeout" /\ x.view = v}}

TimedOut(v) == MoreThanTwoThirds(Cardinality(TimeoutSenders(v)))

KnownQCs ==
  {high_qc[n] : n \in Nodes}
    \cup {m.qc : m \in {x \in msgs : x.type = "Propose"}}
    \cup {m.high_qc : m \in {x \in msgs : x.type = "Timeout"}}

(***************************************************************************)
(* Safety.                                                                 *)
(***************************************************************************)
(* A replica that has not been restarted never signs two different votes    *)
(* for the same view (make_vote and last_voted_view), whatever its leaders  *)
(* propose and however messages are repeated. *)
VoteOncePerView ==
  \A s, t \in signed :
    (s.voter = t.voter /\ s.view = t.view /\ s.voter \notin restarted) => s = t

(* No two different proposals of the same view both gather the votes for a  *)
(* QC (QCMaker::append), even when a leader is restarted and proposes again *)
(* in a view it has already used. *)
CertifiedUnique ==
  \A s, t \in signed :
    /\ s.view = t.view
    /\ Certified(s.proposal_hash, s.view)
    /\ Certified(t.proposal_hash, t.view)
    => s.proposal_hash = t.proposal_hash

(* Every QC that a node keeps, or sends in a proposal or a timeout, passes  *)
(* the verification its receivers make (QC::verify): no replica's progress  *)
(* is refused because of a certificate it was given. *)
KnownQCsVerify == \A qc \in KnownQCs : QCAccepted(qc, signed)

(* A node has left a view only if more than two thirds of the authorities   *)
(* voted for one proposal of that view or timed out in it; view 0 is left   *)
(* freely, on the default QC (handle_qc, handle_timeout, handle_tc). *)
ViewJustified ==
  \A n \in Nodes : \A v \in 1 .. (view[n] - 1) :
    \/ TimedOut(v)
    \/ \E s \in signed : s.view = v /\ Certified(s.proposal_hash, v)

(* A node finalizes a block only when a proposal carrying it and a child of *)
(* that proposal in the very next view have both gathered a quorum of votes *)
(* (the two-chain rule of handle_proposal). *)
FinalizedByTwoChain ==
  \A n \in Nodes : finalized[n] # Genesis =>
    \E s \in signed :
      LET h == s.proposal_hash IN
      /\ Len(h) >= 2
      /\ Last(Front(h)).payload.block_hash = finalized[n]
      /\ Last(h).view = Last(Front(h)).view + 1
      /\ Certified(h, Last(h).view)
      /\ Certified(Front(h), Last(Front(h)).view)

(* A voter has the Substrate block it votes for (the status check of        *)
(* handle_proposal), so the block of a certified proposal is held by more   *)
(* than two thirds of the authorities. *)
VotersHaveBlock ==
  \A s \in signed :
    LET b == Last(s.proposal_hash).payload.block_hash
    IN  b # EmptyHash => b \in imported[s.voter]

(***************************************************************************)
(* Action properties.                                                      *)
(***************************************************************************)
(* A running node never moves back to an earlier view; only a restart does  *)
(* that (advance_view_from_target by itself would lower the view for an     *)
(* older target, and its callers' guards must prevent it). *)
ViewMonotone ==
  [][\A n \in Nodes : view'[n] >= view[n] \/ n \in restarted' \ restarted]_vars

(* Once a replica has sent a timeout for a view it signs no vote for that   *)
(* view or an earlier one (increase_last_voted_view in handle_local_timer): *)
(* the timeout that races the proposal wins. *)
NoVoteAfterTimeout ==
  [][\A s \in signed' \ signed : s.voter \notin restarted =>
       ~\E m \in msgs : /\ m.type = "Timeout"
                        /\ m.voter = s.voter
                        /\ m.view >= s.view]_vars

(***************************************************************************)
(* Statements of the repository's documentation that the code does not      *)
(* meet.                                                                   *)
(***************************************************************************)
Compatible(a, b) == a = b \/ a \in Ancestors[b] \/ b \in Ancestors[a]

(* Finality (hotstuff/README.md): no two nodes finalize conflicting blocks  *)
(* (the finalize_block call of handle_proposal). *)
FinalityAgreement ==
  \A n, m \in Nodes : Compatible(finalized[n], finalized[m])

(* A TC that a node has assembled and broadcast passes the verification of  *)
(* its receivers (TCMaker::append against TC::verify). *)
BroadcastTCsVerify == \A m \in msgs : m.type = "TC" => TCVerify(m)

(* high_qc, the QC a node puts in its timeouts, is the highest QC it has    *)
(* accepted: at least that of every proposal it has saved (handle_qc). *)
HighQCIsHighest ==
  \A n \in Nodes : \A h \in store[n] :
    Len(h) > 1 => high_qc[n].view >= Last(Front(h)).view

(* A node that has accepted the QC of a view is past that view, like the    *)
(* replicas that formed it (advance_view_from_target). *)
SynchronizedByQC ==
  \A n \in Nodes : high_qc[n] # DefaultQC => view[n] > high_qc[n].view

(* A best block that waits for finalization is in the pending queue or on   *)
(* its way to it (PendingFinalizeBlockQueue::new). *)
PendingBlocksQueued ==
  \A n \in Nodes : \A b \in imported[n] :
    /\ BlockNumber(b) > BlockNumber(finalized[n])
    /\ \A c \in imported[n] : c # b => BlockNumber(c) < BlockNumber(b)
    => \E i \in DOMAIN (pending_queue[n] \o import_notification[n]) :
         (pending_queue[n] \o import_notification[n])[i].hash = b
=============================================================================
