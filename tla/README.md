# Substrate-HotStuff in TLA+

A verification project for the HotStuff finality gadget of this repository: TLA+
modules translated from the source, model-checked with TLC on small instances,
and theorems about them proved with TLAPS for every instance.
`PROJECT.json` lists the components, runs, mutants, source map, findings,
hazards and theorems in machine-readable form.

## The system

Substrate (Aura) builds blocks. The gadget finalizes them. Every authority runs
two tasks started by `start_hotstuff`:

* **the worker** (`ConsensusWorker::run`, consensus.rs) handles one event at a
  time: its local timer, or a message from a 1000-slot channel. Views are
  numbered; the leader of view `v` is authority `v % N`. The leader proposes a
  block hash (or an empty payload) on top of its highest quorum certificate
  (QC). Others vote, and send the vote to the next leader, which assembles the
  QC and proposes in turn. A node whose timer fires stops voting in its view and
  gossips a timeout; a quorum of timeouts makes a timeout certificate (TC) and
  moves to the next view. A block is finalized when its proposal and a child in
  the next view are certified (two-chain rule).
* **the network task** (`ConsensusNetwork::poll`) forwards gossip to the
  channel, keeps the queue of blocks waiting for finalization up to date, and
  drives the gossip engine. `GossipValidator` filters messages by a copy of the
  worker's view.

On chain, **pallet-hotstuff** keeps the authority list and the current slot.

## Inventory

| Part | Source | Modelled in |
|---|---|---|
| Messages, certificates, their verification | consensus/src/message.rs | `HotstuffMessage` |
| Vote and timeout aggregators | consensus/src/aggregator.rs | `HotstuffAggregator` |
| Worker: handlers, proposing, voting, finalizing | consensus/src/consensus.rs | `HotstuffWorker`, `HotstuffConsensus`; what it promises: `HotstuffFinality` |
| Proposal store, ancestors | consensus/src/synchronizer.rs, store.rs | `HotstuffWorker` |
| Local timer | consensus/src/synchronizer.rs | `HotstuffConsensus` (may fire at any time), `HotstuffTimed` (runs) |
| Pending queue, block import | consensus/src/import.rs | `HotstuffWorker`, `HotstuffConsensus` |
| Gossip validator, forwarding, channel | consensus/src/network.rs, consensus.rs | `HotstuffGossip`; what it promises: `HotstuffNetwork` |
| Authorities and slots on chain | pallets/hotstuff/src/lib.rs | `HotstuffPallet` |
| Authority set and authority list of a node | consensus/src/authorities.rs, aux_schema.rs, client.rs, consensus.rs | `HotstuffStartup` |
| Node service | node-template/node/src/service.rs | `HotstuffStartup`: what a start reads and who runs a worker |
| Runtime | node-template/runtime/src/lib.rs | `HotstuffStartup`: the authorities call of `HotstuffApi`; `HotstuffPallet`: whose timestamp hook is called |
| Primitives, configuration, weights, CLI, RPC, chain specification, benchmarks | the rest | not modelled (see below) |

## Modules

`HotstuffChain` → `HotstuffMessage` → `HotstuffAggregator` → `HotstuffWorker` →
`HotstuffConsensus` extend one another. `HotstuffTimed` composes the last with
timers and a network that delivers; `HotstuffRefinement` instantiates the abstract
`HotstuffFinality` in it. `HotstuffPallet` stands alone and `HotstuffStartup`
composes it with the nodes that read its authorities. `HotstuffGossip` stands
alone and instantiates the abstract `HotstuffNetwork`. Proofs are in
`HotstuffProofs` → `HotstuffFinalityProofs` → `HotstuffRefinementProofs` and
`HotstuffCertificateProofs`, in `HotstuffPalletProofs` → `HotstuffStartupProofs`
and in `HotstuffGossipProofs`. `MC*` modules give TLC the constants that a cfg
cannot write. Definitions whose comment begins with
"Mutant:" are deliberately wrong variants of the definition that follows; no
specification uses them, and each breaks one property when substituted.

### HotstuffMessage

A proposal's digest covers its author, payload, view and the hash of its parent,
so the hash of a proposal is modelled as the sequence of proposals it stands on,
oldest first; `<<>>` is the default hash. `HotstuffChain` reads one: its last
proposal and the hash of its parent. `signed` is the set of votes that have
been signed, and a vote signature verifies when the vote is in it: keys are not
forged. What a timeout signature covers (its view and the view of its QC) is
kept, because `TC::verify` recomputes it. The TC inside a proposal is never
verified and only its view is read, so the view stands for it.

### HotstuffAggregator

Each `append` is three operators: the state after it, whether it returns a
certificate, and which one. Neither aggregator is ever pruned, and both return a
certificate again for every new voter after the quorum, as the code does.

### HotstuffWorker

Every handler is an operator from a worker state (a record) to the worker state
after it, built from the functions the handler calls in the order it calls them,
early returns included. `handle_proposal` and `handle_vote` are mutually
recursive in the code. The recursion ends when a leader handles its own proposal,
since with two or more authorities it does not lead the next view:
`HandleOwnProposal` is that last call. A network of one authority is therefore
outside the model (`N >= 2`).

### HotstuffConsensus

State is one function per field of the code, from nodes to values. Each branch of
`ConsensusWorker::run` is an action (`LocalTimer`, `ReceiveProposal`,
`ReceiveVote`, `ReceiveTimeout`, `ReceiveTC`); `ImportBlock` is Substrate's
import, `PollPendingQueue` the queue's poll, `Restart` a stop and start of a node,
which keeps the client's blocks and the proposal store and loses the rest.
`Commit` ends every handler.

A handler is one step. The only state it shares with the other task is the
pending queue, which it reads once (`get_proposal_payload`). A poll in the middle
of a handler that pushes imported blocks has the effect of one before it. One that
pops blocks the same handler has just finalized has the effect of one after it:
such a handler has set `processing_block`, and the search then skips finalized
numbers whether they are still queued or not.

The network is the set of messages gossiped so far. A node receives any of
them at any time, repeatedly or never: loss, delay, duplication and reordering.
Authorities may be offline (`Offline`), and nodes without an authority's key may
run workers (`Observers`). Authorities that deviate from the code are not
modelled, except as far as a restarted one acts against its past.

### HotstuffFinality and HotstuffRefinement

`HotstuffFinality` is the gadget seen from outside: three variables (the signed
votes, each node's finalized block, the restarted nodes) and two actions. In
`Act` a node signs votes of its own, in ever higher views unless it has been
restarted, and may move its finalized block to a descendant whose proposal, and a
child of it in the next view, a quorum has voted for. Nothing is said of views,
timers, queues, aggregators, stores or messages. The abstract specification does
not promise that nodes agree; the code does not keep that promise (run
`agreement`). `HotstuffRefinement` maps the three variables to those of
`HotstuffConsensus` with the same names, the votes to `Vote` and the quorums to
the sets of more than two thirds.

### HotstuffTimed

The same handlers over a network with an order and a clock. Every pair of nodes
has a connection; what a handler gossips is put on each connection of its node
once, and handled once (`Deliver`). `ResetTimer` in `HotstuffWorker` marks the
handlers that reset the timer; here a reset gives the node one `Period` until
`Fire`. The first tick of a timer is immediate, as with `tokio::time::interval`,
so a node that starts (`Starts`) fires at once. `Author` and `Sync` are Substrate:
a node builds a block, and block sync brings it to the others. `Tick` lets time
pass for all timers, and only when everything sent has been handled and every
notification polled. That is the assumption that delays are shorter than a
timer's period. `Lose` takes a message of a type in `LostTypes` away, as a full
channel does. Handlers that would pass `MaxView` change nothing but the message
and the timer.

### HotstuffGossip and HotstuffNetwork

The path of a message: `GossipMessage` at the sender, `Send` and `Arrive` for the
engine, `WorkerReceive` at the other end, with the validator's three filters.
`AdvanceView` and `SetView` are the two halves of `advance_view`: in between the
validator judges by an old view. The engine is Substrate's and is modelled from
how this code uses it; its cache of known messages, which is large but bounded,
forgets nothing here. `dropped` records what `try_send` could not place. Views are
`u64`, and `Pred` is the subtraction of the filters, which wraps.

Of the handlers the module has what they do with the view of a message, and there
proposals differ from the rest. A vote, a timeout or a TC of an earlier view is
refused (`Refuses`; `refused` records it). An old proposal is still stored and may
finalize a block; it is only no longer voted for (`VotesFor`). The validator treats all types alike, so for a proposal
discarding it is a loss, which `progress` has to make up for. That the real handlers
act this way is the theorem `LateMessages`.

`HotstuffNetwork` is what all of this amounts to for the workers: a set of sent
messages and, for each worker, the set of those it has received; a message may be
received by any worker but its sender, once. Sent are the messages that their
origin's engine has accepted, received those that the worker has taken from its
channel. Views, filters, queues and losses are hidden. `HotstuffConsensus` assumes
no more of its network than that, and less: there a message may also come again.

### HotstuffPallet

Blocks are executed phase by phase: `OnInitialize`, an optional `OnNewSession`,
`OnDisabled` at any point, `SetTimestamp`, `EndBlock`. A failed assertion rejects
the block: at `OnInitialize` nothing has been written, at `SetTimestamp` the
parent's state is restored (`RejectBlock`).

Runtimes differ in two ways, which the variable `config` fixes at genesis: whether
several blocks may share a slot, and whose `on_timestamp_set` the timestamp pallet
calls. `OnTimestampSet` is this pallet's and decides about a block only where it is
wired. The node template wires Aura's (runtime/src/lib.rs, `type OnTimestampSet =
Aura`), which judges by Aura's slot and knows nothing of this pallet's, so there a
block may be accepted or rejected whatever `current_slot` is. The node template also
has no session pallet and never disables a validator; sessions and disabling are
modelled as the pallet's traits intend.

### HotstuffStartup

Nodes start and stop while the chain of `HotstuffPallet` grows. A start builds the
authority set of `LinkHalf` (`block_import`, `load_persistent`,
`AuthoritySet::genesis`), and on a node with the authority role the list of
`ConsensusState` (`get_genesis_authorities_from_client`). Both are read through
the runtime API in the state of the genesis block, at two places of the code and
at whatever height the node happens to start. `IsLocalAuthority` and `LeaderOf` are
`local_authority_id` and `view_leader` on that list. A node may hold several keys;
no key is held by two nodes. The pallet is again the library, with sessions that
change its list; the model asks what nodes would make of that.

## Runs

Passing runs:

| Run | Instance | Properties |
|---|---|---|
| `finality` | 2 authorities, 2 competing blocks, views to 5, timers in views 0 to 3, imports in every view | `TypeOK`, `FinalizedByTwoChain`, `VotersHaveBlock`, `ViewMonotone`, `NoVoteAfterTimeout` |
| `certificates` | 4 authorities, one offline, views to 3 | `KnownQCsVerify`, `ViewJustified` |
| `restart` | 2 authorities, one of them restarted, a chain of 2 blocks, views to 3 | `VoteOncePerView`, `CertifiedUnique`, `ImplementsFinality` |
| `progress` | 2 authorities, a chain of 2 blocks, three start times, two lost messages (proposals, votes, TCs), views to 10 | `BlocksFinalized`, `ReplicasMeet` |
| `gossip` | 2 peers, channel of 1, views to 3, 4 messages, one of each type | `TypeOK`, `FreshMessagesLeave`, `HandledAtMostOnce`, `DiscardedIsExpired`, `GossipReachesWorkers`, `ImplementsNetwork` |
| `startup` | 3 keys, at most 2 authorities, `u64::MAX` = 3, 3 runtime configurations; 3 nodes, 2 validators, one with two keys | `TypeOK`, `AnnouncedAuthorities`, `SlotsAscend`, `AuthorKnown`, `SameAuthorities`, `OneLeader` |

* `ViewMonotone`: a running node never returns to an earlier view.
  `advance_view_from_target` by itself would lower it; its callers' guards do not
  let it.
* `NoVoteAfterTimeout`: a timeout for a view rules out a later vote in it.
* `KnownQCsVerify`: no QC in use is one that a receiver would refuse.
* `ViewJustified`: a view is left only on a quorum of votes for one proposal or of
  timeouts. View 0 is the exception: the default QC has view 0, so any
  proposal or timeout carrying it moves a node to view 1.
* `FinalizedByTwoChain`, `VotersHaveBlock`: what lies behind a finalized block.
* `VoteOncePerView`: one vote per view from every voter that was not restarted.
* `CertifiedUnique`: one certificate per view, although a restarted node does vote
  and propose again.
* `ImplementsFinality`: `HotstuffFinality!Spec`. One call of a handler may accept a
  proposal, finalize, vote, count its own vote, make a QC, propose and vote again;
  all of it together is one step of the abstract node.
* `BlocksFinalized` (liveness): a block that some node has imported is eventually
  finalized by every node, although leaders go silent after two empty proposals,
  propose blocks that are already finalized, and lose proposals and votes.
* `ReplicasMeet` (liveness): the replicas are in the same view infinitely often. On
  a bounded instance they meet for good at `MaxView`, so what is shown is that none
  of them stays behind below it, which is what happens in `lost_timeout`.
* `SameAuthorities`, `OneLeader`: every worker decides with the same list, the one
  in every node's authority set, and no two workers take themselves for the
  leader of one view.
* `DiscardedIsExpired`: a vote, timeout or TC that the validator discards is one that
  the worker would have refused, and a proposal one that it would not have voted
  for, in its present view and in any later one.
* `FreshMessagesLeave`: a message of the current or previous view leaves its
  sender; this includes the TC, gossiped after its sender has moved on, and all
  messages of view 0, where an unguarded `view - 1` would be `u64::MAX`.
* `HandledAtMostOnce`: an accepted message is waiting, handled or dropped, exactly
  one of them.
* `GossipReachesWorkers`: a gossiped message is handled by every worker, and not
  refused, unless the worker's channel was full, it has left the view of a message
  that is no proposal, or some node has moved two views on.
* `ImplementsNetwork`: `HotstuffNetwork!Spec`. Workers get only what was gossiped,
  never twice and never their own, however peers relay it.
* `AnnouncedAuthorities`: following the logs gives the authorities in storage.
* `SlotsAscend`: along the imported chain slots never fall, and two blocks share one
  only if the runtime allows it, whatever blocks without a slot, of other engines or
  rejected half-way come in between, and whichever timestamp hook is wired.
* `AuthorKnown`: the author of a block is found at every point of its execution.

Violation runs, each a statement of the repository that the code does not meet
(details and quotations under "findings" in `PROJECT.json`):

| Run | Property | What happens |
|---|---|---|
| `tc_verify` | `BroadcastTCsVerify` | `TCMaker` records the timeout's view where `TC::verify` needs the view of its QC: the assembled TC does not verify |
| `high_qc` | `HighQCIsHighest` | a QC that arrives after its view was left is not kept, although the proposal carrying it is saved |
| `lagging` | `SynchronizedByQC` | `self.view >= view` keeps a lagging node in its view when it accepts a later QC |
| `agreement` | `FinalityAgreement` | voting does not compare a proposal with `high_qc`; timeouts and late QCs let two nodes finalize conflicting blocks |
| `pending_blocks` | `PendingBlocksQueued` | the queue built from the client at start is dropped and an empty one used |
| `lost_timeout` | `ReplicasMeet` | one timeout message is lost; the TC that should replace it does not verify, and its receiver stays behind for ever |

Consequences worth knowing when reading the model: because of `tc_verify`,
no TC of the passing runs verifies: `handle_tc` refuses each, its accepting branch
is never taken there, and nodes change view by their own count of timeouts. This is
why `progress` loses no timeout: with one lost, liveness fails (`lost_timeout`). The
counterexample is not one of the bound on views: the replica left behind refuses
every later TC as well, and the timeouts of the others are for views that it
cannot enter alone.

### Bounds

* Two authorities make every quorum the whole set, the leader alternates, and
  traces are long enough for two-chains. Four authorities with one offline give
  a quorum smaller than the whole set. With four running authorities an instance in
  which votes are cast does not finish in minutes. The theorems below remove the
  bound on authorities for every safety property of the core.
* `MaxView` is the largest view for which a run ends in minutes and is beyond what
  its properties need: a two-chain takes four views, a timeout and a late
  proposal three, conflicting finality seven.
* `TimerViews` and `ImportViews` say in which views timers fire and blocks are
  imported. `finality` restricts imports nowhere and leaves out the timers of the
  last two views, which keeps it within minutes.
* Each node in `Restarting` restarts once.
* In `HotstuffTimed`, `EventViews` are the views in which blocks are authored and
  messages lost. Both end there, well below `MaxView`, so that what they set off
  can complete; the liveness properties are about what follows. `Period` 2 with
  starts at 0, 1 and 2 gives timers in phase, apart, and a whole period apart.
* In `startup`, one session list is empty, one is a permutation of the genesis
  list, which moves the leader of every view, and one is truncated to other keys;
  `Views` covers every position of a list twice. 3 stands for `u64::MAX`, which
  leaves room for three blocks with a slot and others between them. Of the four
  configurations the one left out, Aura's hook with several blocks per slot, differs
  from the others in nothing that they do not have. 1.2 million states.
* `Message` in `gossip` holds a proposal, a timeout and a TC of one peer and a vote of
  the other, in views 0 and 1. With one channel slot the channel fills, with views
  to 3 both sides of each filter are met, and `u64::MAX` is 4, above all views, so
  that a subtraction that wraps is seen.
* The views of the core model stop at `MaxView`, but no node is then without a
  step (repeated messages are always receivable), so deadlock is checked there, and
  in `startup`, where nodes can always start or stop. A network with nothing to
  send may stop: `gossip` does not check it.

### Fairness

`gossip` states weak fairness of setting the validator's view, of
taking a message from the channel, of sending and of arrival. The tasks are
spawned as essential and woken by their channels, and the engine retries its
peers. Nothing obliges a worker to advance or to gossip. `Sweep` is not fair.

`progress` and `lost_timeout` assume weak fairness of the clock (`Tick`), and of
all other steps together: while a message, timer or notification is left to
handle, something is handled. The second is written out, with the state predicate
`~Idle` for the enabling condition, because TLC is slow at evaluating `ENABLED` of
the handlers. Nothing stronger is needed: time passes only when everything has been
handled, so no single message, timer or poll can be put off for ever. It is
justified by the same facts: the tasks are essential, timers are tokio's, and the
wait for messages is the assumption on delays.

The other runs check safety and need none.

## Proofs

For every `N >= 2`, every finite block tree and every choice of the other
constants, `HotstuffConsensus` satisfies:

| Theorem | Module | Statement |
|---|---|---|
| `TypeCorrect` | `HotstuffProofs` | `Spec => []TypeOK` |
| `VoteOnce` | `HotstuffProofs` | `Spec => []VoteOncePerView` |
| `LateMessages` | `HotstuffProofs` | of a view that it has left, a worker ignores votes, timeouts and TCs; a proposal whose QC is as old changes at most its store, finalized block and timer |
| `UniqueCertificate` | `HotstuffProofs` | `Spec => []CertifiedUnique`, if `Restarting` is finite and has at most `(N-1) \div 3` members |
| `TwoChainRule` | `HotstuffFinalityProofs` | `Spec => []FinalizedByTwoChain` |
| `VoterHasBlock` | `HotstuffFinalityProofs` | `Spec => []VotersHaveBlock` |
| `ViewsRise` | `HotstuffFinalityProofs` | `Spec => ViewMonotone` |
| `TimeoutStopsVotes` | `HotstuffFinalityProofs` | `Spec => NoVoteAfterTimeout` |
| `Refinement` | `HotstuffRefinementProofs` | `Spec => ImplementsFinality` |
| `EveryQCVerifies` | `HotstuffCertificateProofs` | `Spec => []KnownQCsVerify` |
| `EveryViewJustified` | `HotstuffCertificateProofs` | `Spec => []ViewJustified` |

for every set of peers, every set of messages, every channel size and every bound
on views, `HotstuffGossip` satisfies:

| Theorem | Module | Statement |
|---|---|---|
| `GossipTypeCorrect` | `HotstuffGossipProofs` | `Spec => []TypeOK` |
| `FreshMessagesAlwaysLeave` | `HotstuffGossipProofs` | `Spec => []FreshMessagesLeave` |
| `EachHandledAtMostOnce` | `HotstuffGossipProofs` | `Spec => []HandledAtMostOnce` |
| `DiscardsExpiredOnly` | `HotstuffGossipProofs` | `Spec => DiscardedIsExpired` |
| `NetworkRefinement` | `HotstuffGossipProofs` | `Spec => ImplementsNetwork` |

and for every set of runtime configurations, genesis list, limit on authorities,
slot duration, distribution of keys and sequence of blocks:

| Theorem | Module | Statement |
|---|---|---|
| `SlotsNeverFall` | `HotstuffPalletProofs` | `Spec => []SlotsAscend` |
| `AuthorAlwaysKnown` | `HotstuffPalletProofs` | `Spec => []AuthorKnown` |
| `LogsAnnounceAuthorities` | `HotstuffPalletProofs` | `Spec => []AnnouncedAuthorities` |
| `PalletTypeCorrect` | `HotstuffPalletProofs` | `Spec => []TypeOK` |
| `NodesOnlyRead` | `HotstuffStartupProofs` | `StartupSpec => Spec` |
| `PalletBesideNodes` | `HotstuffStartupProofs` | `StartupSpec => []` of the four pallet invariants |
| `AuthoritiesFixed` | `HotstuffStartupProofs` | `StartupSpec => []SameAuthorities` |
| `LeaderUnique` | `HotstuffStartupProofs` | `StartupSpec => []OneLeader` |

**Voting.** `TypeCorrect`, `VoteOnce` and `UniqueCertificate` follow from `Invariance`: `Spec => []IInv` with

    IInv == TypeOK /\ VotesCovered /\ VoteOncePerView

`VoteOncePerView` is not inductive: nothing in it forbids signing again in a
view already voted in. `VotesCovered` adds what `make_vote` relies on: every vote
of a node that was not restarted is for a view up to its `last_voted_view`.

Handlers are compositions, and so are the proofs. `SignStep(n, w, x)` says what
a handler of node `n` from `w` to `x` may sign: only votes of `n`, above the old
`last_voted_view`, up to the new one, one per view. It is transitive
(`StepTransitive`), each transformer has a lemma (`CastVoteStep` is the one that
signs), and each handler combines those of the functions it calls. `CommitIInv`
turns a handler's step into a step of the specification. `UniqueCertificate` adds
that two sets of more than two thirds share a node that was not restarted.

`LateMessages` is about the handlers alone and needs no invariant. `OnlyStores`
says which fields of a worker state may differ; `LateAccept` is the part of
`handle_proposal` up to its return before the vote. The condition on the QC
is needed because nothing in the handler compares the views of a proposal and of its
QC; workers only send proposals with an older QC.

**Finality, views and timeouts.** `HotstuffFinalityProofs` goes through the same
compositions once more with `SafeStep`, which adds two relations to `SignStep`.
`FinalStep`: votes are for blocks the node has, and the finalized block stays or
moves to a descendant with two certified consecutive proposals. `OrderlyStep`: the
view does not fall, and every timeout sent is the node's own and for a view up to
`last_voted_view`. `FinalStep` needs a worker state that is `Sound`: votes name
the view of their proposal, and every stored proposal but a first one extends a
certified one. The second is why the two-chain rule is right to look only at the
store: a proposal gets there after its QC was verified. `OrderlyStep` needs the
guard of each caller of `advance_view_from_target`, which is where a later change
of the code would break the proof. The invariant is

    FInv == IInv /\ TimeoutsCovered /\ VotesWellFormed /\ StoreCertified
                 /\ FinalizedCertified /\ VotersHaveBlock

with `TimeoutsCovered` for timeouts what `VotesCovered` is for votes.

**Refinement.** The mapping is the identity on votes, finalized blocks and
restarts. A handler's `SafeStep` is an abstract `Act`: `VotesCovered` puts a node's
earlier votes below the new ones, `FinalStep` gives the finalized block. Imports
and polls are stutters, a restart is a restart.

**Certificates.** `KnownQCsVerify` and `ViewJustified` say nothing of where
certificates come from, so neither is inductive. `Backed(w)` says it of a worker
state: the QC it keeps verifies; every vote in its aggregator was signed; every
entry of its timeout aggregator comes from a timeout that was sent, and no voter
has two entries for one view; every view from 1 to the one before its own has a
quorum of votes or of timeouts behind it; and among the messages, every QC
verifies and every TC stands for a quorum of timeouts. The invariant,

    CertificateInv == FInv /\ MessagesBacked(msgs, signed)
                           /\ \A n \in Nodes : StateBacked(Worker(n))

was checked by TLC on the `certificates` and `restart` instances first. All of it
only grows with the messages and the votes, so a handler of one node takes nothing
from another; `FInv` gives that they grow. Each transformer has a `...Backed`
lemma. The ones that carry the argument are `MadeQCAccepted` (`QuorumWeight` votes
counted by `QCMaker` satisfy the comparison of `QC::verify`), `MadeTCTimedOut`
(entries map one-to-one to senders, so a TC cannot count a repeated timeout
twice) and `AdvanceBacked` (a handler leaves only the view its certificate is
for). A TC inside a proposal, which nobody verifies, is harmless only because
`advance_view_from_target` ignores targets above the view: `AcceptProposalBacked`
rests on that comparison. If it were changed to let a lagging node catch up (run
`lagging`), the TC would have to be verified.

**Gossip.** The invariant is

    GossipInv == TypeOK /\ ViewsTrail /\ FreshKept /\ OriginAccepted
                 /\ \A n \in Peers : Delivered(n)

`ViewsTrail`: the validator's view is the worker's or one behind, because
`advance_view` sets it before the worker goes on. This is why what a
filter discards by an old view is at least a view old for the worker, and why the sweep spares the TC of the view
just left. `OriginAccepted` traces every message to its sender, which the
refinement needs; `Delivered` is `HandledAtMostOnce` with a queue without
repetitions in place of its cardinality. `GossipMessage` and `WorkerReceive` are
the two steps of `HotstuffNetwork`; arrivals, view changes, sends and sweeps are
stutters.

**Pallet and start-up.** `SlotsAscend` speaks of past blocks, while `on_initialize`
compares with storage, which the current block has already overwritten and a
rejection sets back. `SlotInv` connects the two: between blocks no past slot is
above `current_slot`; within a block none is above the parent's, and the block's own
slot, if it carries one, is in storage and may follow the parent's. It does not
matter which hook judges the timestamp. `LogInv` says at every point of a block
that its logs so far lead from the announced authorities to those in storage
(`LogsLead`), and that a rejected block returns to a parent whose list is the
announced one. Nodes only read the chain, so the composition implements the
pallet's specification and inherits its theorems. The start-up invariant says that the
first state of the chain stays the genesis one and that every running node has
read exactly that.

Assumptions: the named `ASSUME`s of the modules, which TLC evaluates in the runs.
They say that ancestry is transitive (`AncestorsAssumption`), that no key is in two
keystores (`StartupAssumption`), that slots are in the range of `u64`
(`DigestsAssumption`), and that constants have their types. To these come the
unforgeable signatures described above.

### Only model-checked

Liveness is outside the reach of the prover: `BlocksFinalized`, `ReplicasMeet` and
`GossipReachesWorkers` hold on the instances of `progress` and `gossip`. Every
other property of the passing runs is a theorem. `HotstuffTimed` shares its
handlers with `HotstuffConsensus`; no theorem is stated about it.

## Not modelled

* `import_justification`: nothing in the repository produces a justification.
* Changes of a node's authority set while it runs: the code has none.
  `AuthoritySet::new` and the set changes are not called, and the worker does not
  follow the pallet's `AuthoritiesChange` logs.
* Delays longer than a timer's period in `HotstuffTimed`. `HotstuffConsensus` has
  them, where timers fire at any time, and no liveness is claimed there.
* A bound on the aggregators' size: the code never prunes them.
* `do_try_state`, a test hook. Two of its conditions are not invariants of the
  pallet: `on_initialize` accepts slot `u64::MAX`, which only this pallet's timestamp
  hook would refuse, later in the block and where it is wired; and a validator may
  be disabled in the block that it authors. That the author is found is
  `AuthorKnown`.
* Errors of the client's database and of the keystore.
* `SyncRequest` messages, which are neither sent nor handled; the request for an
  unknown block, which is a hint to Substrate.
* Primitives, configuration, weights, command line, RPC, chain specification,
  benchmarks and the rest of the runtime and the service: types, constants and
  wiring.
* An authority that does not follow the code.

## Plan

1. Four running authorities in `HotstuffTimed`, with symmetry among the nodes that
   do not lead, so that certificates repeated beyond the quorum occur under TLC.
2. `do_try_state` as a property of `HotstuffPallet`, for the runtimes and session
   pallets with which it could hold.
3. A bounded cache of known messages in `HotstuffGossip`, and how late a repeated
   message can then be.
