---------------------------- MODULE HotstuffTimed ----------------------------
(***************************************************************************)
(* The replicated system of HotstuffConsensus over a network that delivers  *)
(* each message once and over local timers that run: what the workers       *)
(* achieve when messages, block imports and notifications take less time    *)
(* than the timer's period.                                                 *)
(*                                                                         *)
(* Every pair of nodes has a connection that delivers in order; a gossiped  *)
(* message is put on each of them once, and msgs, the network of            *)
(* HotstuffConsensus, stays empty between handlers.  A handler that resets  *)
(* its timer has one Period until it fires.  Time passes, one tick for all  *)
(* timers, only when nothing is on its way: this is the assumption that     *)
(* delays are short, and the only one made about them.  Lose drops a        *)
(* message that was accepted by the gossip engine but not by the worker's   *)
(* channel (ConsensusNetwork::incoming_message_handler ignores a full one). *)
(***************************************************************************)
EXTENDS HotstuffConsensus

SE == INSTANCE SequencesExt

CONSTANTS
  Period,       \* ticks between two firings of a timer (HOTSTUFF_DURATION)
  Starts,       \* the ticks at which nodes may start
  LostTypes,    \* the types of the messages that may be lost
  MaxLosses,    \* bound: how many messages are lost
  EventViews    \* bound: the views of a node in which it authors blocks and
                \* loses messages

ASSUME TimedAssumption ==
  /\ Period \in Nat \ {0}
  /\ Starts \subseteq Nat
  /\ MaxLosses \in Nat

VARIABLES
  link,         \* link[m][n]: messages from m that n has not yet handled
  timer,        \* ticks until the node's timer fires, or until it starts
  started,      \* nodes whose worker runs
  losses        \* messages lost so far

timedVars == <<vars, link, timer, started, losses>>

TimedInit ==
  /\ Init
  /\ link = [m \in Nodes |-> [n \in Nodes |-> <<>>]]
  /\ timer \in [Nodes -> Starts]
  /\ started = {n \in Nodes : timer[n] = 0}
  /\ losses = 0

(* The order in which a handler gossips its messages; it sends at most one  *)
(* of each type. *)
SendRank(m) ==
  CASE m.type = "Timeout" -> 1
    [] m.type = "TC"      -> 2
    [] m.type = "Propose" -> 3
    [] m.type = "Vote"    -> 4

Outgoing(sent) == SE!SetToSortSeq(sent, LAMBDA a, b : SendRank(a) < SendRank(b))

(* Node n's handler returns with worker state w, and its messages are on    *)
(* every connection of n; net is link without the message it handled.  A    *)
(* handler that would pass the bound of views only takes its message or     *)
(* resets its timer. *)
Return(n, w, net) ==
  /\ timer' = [timer EXCEPT ![n] = IF w.local_timer = "reset" THEN Period ELSE @]
  /\ UNCHANGED <<started, losses>>
  /\ \/ /\ Commit(n, [w EXCEPT !.msgs = {}])
        /\ link' = [net EXCEPT ![n] =
             [m \in Nodes |-> IF m = n THEN @[m] ELSE @[m] \o Outgoing(w.msgs)]]
     \/ /\ w.view > MaxView
        /\ link' = net
        /\ UNCHANGED vars

Handle(n, w, m) ==
  CASE m.type = "Propose" -> HandleProposal(n, w, m)
    [] m.type = "Vote"    -> HandleVote(n, w, m)
    [] m.type = "Timeout" -> HandleTimeout(n, w, m)
    [] m.type = "TC"      -> HandleTC(n, w, m)

(* The timer is due.  The first tick of an interval is immediate. *)
Fire(n) ==
  /\ n \in started
  /\ timer[n] = 0
  /\ Return(n, HandleLocalTimer(n, Worker(n)), link)

Unread(m, n) == n \in started /\ link[m][n] # <<>>

(* Node n handles the next message from m. *)
Deliver(m, n) ==
  /\ Unread(m, n)
  /\ Return(n, Handle(n, Worker(n), Head(link[m][n])),
            [link EXCEPT ![m][n] = Tail(@)])

Lose(m, n) ==
  /\ Unread(m, n)
  /\ view[n] \in EventViews
  /\ Head(link[m][n]).type \in LostTypes
  /\ losses < MaxLosses
  /\ losses' = losses + 1
  /\ link' = [link EXCEPT ![m][n] = Tail(@)]
  /\ UNCHANGED <<vars, timer, started>>

KnownBlocks == UNION {imported[n] : n \in Nodes}

(* A node authors a block on top of its own ones. *)
Author(n, b) ==
  /\ n \in started
  /\ view[n] \in EventViews
  /\ b \notin KnownBlocks
  /\ ImportBlock(n, b)
  /\ UNCHANGED <<link, timer, started, losses>>

(* Block sync brings a block of another node. *)
Sync(n, b) ==
  /\ n \in started
  /\ b \in KnownBlocks
  /\ ImportBlock(n, b)
  /\ UNCHANGED <<link, timer, started, losses>>

Poll(n) ==
  /\ PollPendingQueue(n)
  /\ UNCHANGED <<link, timer, started, losses>>

(* Everything sent has been handled, every block has reached the nodes that *)
(* can import it, and every notification has been polled. *)
Settled ==
  \A n \in started :
    /\ \A m \in Nodes : ~Unread(m, n)
    /\ import_notification[n] = <<>> /\ finalize_notification[n] = 0
    /\ \A b \in KnownBlocks \ imported[n] :
         \/ ~(Ancestors[b] \subseteq imported[n])
         \/ BlockNumber(b) <= BlockNumber(finalized[n])

(* Nor is a timer due. *)
Idle == Settled /\ \A n \in Nodes : timer[n] > 0

Tick ==
  /\ Idle
  /\ timer' = [n \in Nodes |-> timer[n] - 1]
  /\ started' = started \cup {n \in Nodes : timer[n] = 1}
  /\ UNCHANGED <<vars, link, losses>>

TimedNext ==
  \/ \E n \in Nodes : Fire(n)
  \/ \E m, n \in Nodes : Deliver(m, n)
  \/ \E m, n \in Nodes : Lose(m, n)
  \/ \E n \in Nodes : \E b \in Blocks : Author(n, b)
  \/ \E n \in Nodes : \E b \in Blocks : Sync(n, b)
  \/ \E n \in Nodes : Poll(n)
  \/ Tick

(* Weak fairness of the clock, and of all the other steps together: while   *)
(* something is left to handle, something is handled.  The second conjunct  *)
(* is WF written out: a step other than a tick is enabled exactly when the  *)
(* system is not idle, but for authoring, which ends.  This is enough: time *)
(* waits until everything has been handled, so no single message, timer or  *)
(* poll can be put off for ever. *)
Fairness ==
  /\ WF_timedVars(Tick)
  /\ []<>Idle \/ []<><<~Idle>>_timedVars

TimedSpec == TimedInit /\ [][TimedNext]_timedVars /\ Fairness

(***************************************************************************)
(* Liveness.                                                               *)
(***************************************************************************)
FinalizedAt(n, b) == b = finalized[n] \/ b \in Ancestors[finalized[n]]

(* Every block that a node has imported is eventually finalized by every    *)
(* node: the leaders' choice of payload (get_proposal_payload), the limit   *)
(* on empty proposals and the views without a proposal that follow from it  *)
(* delay a block, and never shut it out. *)
BlocksFinalized ==
  \A b \in Blocks :
    (b \in KnownBlocks) ~> (\A n \in Nodes : FinalizedAt(n, b))

(* The replicas are in the same view again and again: a node that was left  *)
(* behind follows by handling the same timeouts, the QC in the next         *)
(* proposal, or the QC in the next timeout (handle_timeout,                 *)
(* handle_proposal). *)
ReplicasMeet == []<>(\A m, n \in Nodes : view[m] = view[n])
=============================================================================
