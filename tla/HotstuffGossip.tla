---------------------------- MODULE HotstuffGossip ----------------------------
(***************************************************************************)
(* The way of a consensus message from one worker to another: the gossip    *)
(* engine with the GossipValidator (network.rs), the ConsensusNetwork task  *)
(* that forwards to the worker, and the bounded channel between the two     *)
(* (consensus.rs).                                                          *)
(*                                                                         *)
(* A worker is reduced to what the network sees of it (a view that grows by *)
(* one at a time, messages of that view, and TCs of the view it has just    *)
(* left or, when it lags, of a later one) and to what its handlers do with  *)
(* the view of a message.  There proposals differ from the rest: a vote, a  *)
(* timeout or a TC of an earlier view is refused, a proposal is still       *)
(* stored and may finalize a block, but is no longer voted for.  The        *)
(* network treats all alike.  The validator's copy of the view is written   *)
(* by the worker's task (advance_view) and read by the network task, so the *)
(* two views differ for a while.                                            *)
(*                                                                         *)
(* The gossip engine is Substrate's (sc-network-gossip), modelled from how  *)
(* the code uses it: it keeps the messages it accepted, sends each once to  *)
(* every peer, ignores a message it has already accepted, and now and then  *)
(* drops the expired ones.  Its cache of known messages is large but        *)
(* bounded; here it forgets none.                                           *)
(***************************************************************************)
EXTENDS Integers, FiniteSets, Sequences

CONSTANTS
  Peers,        \* nodes, all connected with each other
  ChannelSize,  \* capacity of the channel to the worker (1000 in the code)
  MaxView,      \* bound: no worker moves beyond this view
  MaxU64,       \* u64::MAX: the largest view number
  Message       \* bound: the messages that workers gossip

ASSUME GossipAssumption ==
  /\ ChannelSize \in Nat \ {0}
  /\ MaxU64 \in Nat
  /\ MaxView \in 0 .. MaxU64
  /\ Message \subseteq [type : {"Propose", "Vote", "Timeout", "TC"},
                        view : 0 .. MaxU64, origin : Peers]

VARIABLES
  view,            \* ConsensusState.view
  validator_view,  \* GossipValidator.view
  accepted,        \* messages the engine has accepted or sent, for ever
  kept,            \* those it still keeps and sends to peers
  peer_knows,      \* <<n, p, m>>: n's engine has sent m to p or got it from p
  wire,            \* <<n, p, m>>: m is on its way from n to p
  channel,         \* messages waiting for the worker
  handled,         \* messages the worker has taken from the channel
  refused,         \* those among them it refused because of their view
  dropped          \* messages lost because the channel was full

vars == <<view, validator_view, accepted, kept, peer_knows, wire, channel,
          handled, refused, dropped>>
engineVars == <<accepted, kept, peer_knows, wire>>
workerVars == <<view, validator_view, channel, handled, refused, dropped>>

Init ==
  /\ view = [n \in Peers |-> 0]
  /\ validator_view = [n \in Peers |-> 0]
  /\ accepted = [n \in Peers |-> {}]
  /\ kept = [n \in Peers |-> {}]
  /\ peer_knows = {}
  /\ wire = {}
  /\ channel = [n \in Peers |-> <<>>]
  /\ handled = [n \in Peers |-> {}]
  /\ refused = [n \in Peers |-> {}]
  /\ dropped = [n \in Peers |-> {}]

(***************************************************************************)
(* GossipValidator: three filters with the same threshold.  The subtraction *)
(* is on unsigned integers, which the tests against 1 protect.              *)
(***************************************************************************)
(* view - 1 on u64, which wraps in a release build. *)
Pred(v) == IF v = 0 THEN MaxU64 ELSE v - 1

(* Mutant: the current view is the oldest one accepted. *)
ValidateCurrentOnly(n, m) == ~(m.view < validator_view[n])

(* Mutant: the sign of the tolerance is wrong. *)
ValidateNewerOnly(n, m) == ~(m.view < validator_view[n] + 1)

Validate(n, m) ==
  ~(validator_view[n] > 1 /\ m.view < Pred(validator_view[n]))

MessageExpired(n, m) ==
  validator_view[n] >= 1 /\ m.view < Pred(validator_view[n])

(* Mutant: the subtraction is not protected in view 0. *)
MessageAllowedUnguarded(n, m) == ~(m.view < Pred(validator_view[n]))

MessageAllowed(n, m) ==
  ~(validator_view[n] >= 1 /\ m.view < Pred(validator_view[n]))

(***************************************************************************)
(* The worker's task.                                                      *)
(***************************************************************************)
(* Mutant: the view moves to the one before its target. *)
AdvanceViewBack(n) ==
  /\ view[n] = validator_view[n]
  /\ view' = [view EXCEPT ![n] = @ - 1]
  /\ UNCHANGED <<validator_view, engineVars, channel, handled, refused,
                 dropped>>

(* advance_view, first half: ConsensusState.view... *)
AdvanceView(n) ==
  /\ view[n] = validator_view[n]
  /\ view[n] < MaxView
  /\ view' = [view EXCEPT ![n] = @ + 1]
  /\ UNCHANGED <<validator_view, engineVars, channel, handled, refused,
                 dropped>>

(* ... and second half: the validator's copy of it. *)
SetView(n) ==
  /\ validator_view[n] # view[n]
  /\ validator_view' = [validator_view EXCEPT ![n] = view[n]]
  /\ UNCHANGED <<view, engineVars, channel, handled, refused,
                 dropped>>

(* Mutant: the engine does not register the message as known. *)
GossipUnregistered(n, m) ==
  /\ view[n] = validator_view[n]
  /\ m.origin = n
  /\ IF m.type = "TC" THEN m.view >= view[n] - 1 ELSE m.view = view[n]
  /\ m \notin accepted[n]
  /\ kept' = [kept EXCEPT ![n] = @ \cup {m}]
  /\ UNCHANGED <<accepted, peer_knows, wire, workerVars>>

(* gossip_message, once advance_view has returned: the engine keeps the     *)
(* message without validating it. *)
GossipMessage(n, m) ==
  /\ view[n] = validator_view[n]
  /\ m.origin = n
  /\ IF m.type = "TC" THEN m.view >= view[n] - 1 ELSE m.view = view[n]
  /\ m \notin accepted[n]
  /\ accepted' = [accepted EXCEPT ![n] = @ \cup {m}]
  /\ kept' = [kept EXCEPT ![n] = @ \cup {m}]
  /\ UNCHANGED <<peer_knows, wire, workerVars>>

(* In view v, verify_vote, handle_timeout and verify_tc refuse a message of  *)
(* an earlier view; handle_proposal has no such test... *)
Refuses(v, m) == m.type # "Propose" /\ m.view < v

(* ... but it returns before the vote when v is not the proposal's view. *)
VotesFor(v, m) == m.type = "Propose" /\ m.view = v

(* One turn of ConsensusWorker::run. *)
WorkerReceive(n) ==
  /\ channel[n] # <<>>
  /\ channel' = [channel EXCEPT ![n] = Tail(@)]
  /\ handled' = [handled EXCEPT ![n] = @ \cup {Head(channel[n])}]
  /\ refused' = IF Refuses(view[n], Head(channel[n]))
                THEN [refused EXCEPT ![n] = @ \cup {Head(channel[n])}]
                ELSE refused
  /\ UNCHANGED <<view, validator_view, engineVars, dropped>>

(***************************************************************************)
(* The network task.                                                       *)
(***************************************************************************)
(* The engine sends a kept message to a peer that need not know it yet. *)
Send(n, p) ==
  \E m \in kept[n] :
    /\ p # n
    /\ <<n, p, m>> \notin peer_knows
    /\ MessageAllowed(n, m)
    /\ peer_knows' = peer_knows \cup {<<n, p, m>>}
    /\ wire' = wire \cup {<<n, p, m>>}
    /\ UNCHANGED <<accepted, kept, workerVars>>

(* Mutant: a full channel loses its oldest message. *)
ArriveEvicts(n, p, m) ==
  /\ <<n, p, m>> \in wire
  /\ wire' = wire \ {<<n, p, m>>}
  /\ peer_knows' = peer_knows \cup {<<p, n, m>>}
  /\ IF m \in accepted[p] \/ ~Validate(p, m)
     THEN UNCHANGED <<accepted, kept, channel>>
     ELSE /\ accepted' = [accepted EXCEPT ![p] = @ \cup {m}]
          /\ kept' = [kept EXCEPT ![p] = @ \cup {m}]
          /\ channel' = [channel EXCEPT ![p] =
               Append(IF Len(@) < ChannelSize THEN @ ELSE Tail(@), m)]
  /\ UNCHANGED <<view, validator_view, handled, refused, dropped>>

(* A message arrives: it is ignored when already accepted, discarded when   *)
(* the validator says so, and otherwise kept and forwarded by               *)
(* incoming_message_handler, whose try_send fails on a full channel. *)
Arrive(n, p, m) ==
  /\ <<n, p, m>> \in wire
  /\ wire' = wire \ {<<n, p, m>>}
  /\ peer_knows' = peer_knows \cup {<<p, n, m>>}
  /\ IF m \in accepted[p] \/ ~Validate(p, m)
     THEN UNCHANGED <<accepted, kept, channel, dropped>>
     ELSE /\ accepted' = [accepted EXCEPT ![p] = @ \cup {m}]
          /\ kept' = [kept EXCEPT ![p] = @ \cup {m}]
          /\ IF Len(channel[p]) < ChannelSize
             THEN /\ channel' = [channel EXCEPT ![p] = Append(@, m)]
                  /\ UNCHANGED dropped
             ELSE /\ dropped' = [dropped EXCEPT ![p] = @ \cup {m}]
                  /\ UNCHANGED channel
  /\ UNCHANGED <<view, validator_view, handled, refused>>

(* The engine's periodic sweep. *)
Sweep(n) ==
  /\ \E m \in kept[n] : MessageExpired(n, m)
  /\ kept' = [kept EXCEPT ![n] = {m \in @ : ~MessageExpired(n, m)}]
  /\ UNCHANGED <<accepted, peer_knows, wire, workerVars>>

Next ==
  \/ \E n \in Peers : AdvanceView(n)
  \/ \E n \in Peers : SetView(n)
  \/ \E n \in Peers : \E m \in Message : GossipMessage(n, m)
  \/ \E n \in Peers : WorkerReceive(n)
  \/ \E n, p \in Peers : Send(n, p)
  \/ \E n, p \in Peers : \E m \in Message : Arrive(n, p, m)
  \/ \E n \in Peers : Sweep(n)

(* Tasks that can run are polled again: the worker's loop and the network   *)
(* future are woken by their channels, and the engine retries its peers.    *)
(* Nothing makes a worker advance or gossip. *)
Fairness ==
  /\ \A n \in Peers : WF_vars(SetView(n))
  /\ \A n \in Peers : WF_vars(WorkerReceive(n))
  /\ \A n, p \in Peers : WF_vars(Send(n, p))
  /\ \A n, p \in Peers : \A m \in Message : WF_vars(Arrive(n, p, m))

Spec == Init /\ [][Next]_vars /\ Fairness

(***************************************************************************)
(* Properties.                                                             *)
(***************************************************************************)
TypeOK ==
  /\ view \in [Peers -> 0 .. MaxView]
  /\ validator_view \in [Peers -> 0 .. MaxView]
  /\ accepted \in [Peers -> SUBSET Message]
  /\ kept \in [Peers -> SUBSET Message]
  /\ peer_knows \subseteq Peers \X Peers \X Message
  /\ wire \subseteq Peers \X Peers \X Message
  /\ channel \in [Peers -> Seq(Message)]
  /\ handled \in [Peers -> SUBSET Message]
  /\ refused \in [Peers -> SUBSET Message]
  /\ dropped \in [Peers -> SUBSET Message]

(* What GossipValidator::validate discards, although by a view that another *)
(* task may be changing, is past its use for the worker, now and in every   *)
(* later view: a vote, a timeout or a TC would be refused (verify_vote,     *)
(* handle_timeout, verify_tc), and a proposal would not be voted for        *)
(* (handle_proposal; it would still have been stored, which is lost). *)
DiscardedIsExpired ==
  [][\A n, p \in Peers : \A m \in Message :
       (<<n, p, m>> \in wire \ wire' /\ m \notin accepted'[p]) =>
         \A v \in view[p] .. MaxU64 :
           IF m.type = "Propose" THEN ~VotesFor(v, m) ELSE Refuses(v, m)]_vars

(* A message that its sender gossiped for the view it is in, or a TC for    *)
(* the view it has just left (handle_timeout gossips it after advance_view),*)
(* is neither held back by message_allowed nor swept by message_expired. *)
FreshMessagesLeave ==
  \A n \in Peers : \A m \in accepted[n] :
    m.view >= view[n] - 1 => m \in kept[n] /\ MessageAllowed(n, m)

(* The worker gets a gossiped message at most once, and every message the   *)
(* engine accepted from a peer is with the worker, waiting for it, or was   *)
(* dropped because the channel was full (incoming_message_handler). *)
HandledAtMostOnce ==
  \A n \in Peers :
    LET waiting == {channel[n][i] : i \in DOMAIN channel[n]}
    IN  /\ Cardinality(waiting) = Len(channel[n])
        /\ waiting \cap handled[n] = {}
        /\ (waiting \cup handled[n]) \cap dropped[n] = {}
        /\ waiting \cup handled[n] \cup dropped[n]
             = {m \in accepted[n] : m.origin # n}

(* A gossiped message reaches every other worker, and is not refused there, *)
(* unless the channel was full, that worker had left the view (of a vote,   *)
(* timeout or TC), or some node has moved two views past it (the three      *)
(* filters of GossipValidator together). *)
GossipReachesWorkers ==
  \A m \in Message : \A n \in Peers \ {m.origin} :
    m \in accepted[m.origin] ~>
      \/ m \in (handled[n] \ refused[n]) \cup dropped[n]
      \/ m.type # "Propose" /\ view[n] > m.view
      \/ \E p \in Peers : view[p] > m.view + 1

(***************************************************************************)
(* Refinement.                                                             *)
(***************************************************************************)
Sent == {m \in Message : m \in accepted[m.origin]}

Network == INSTANCE HotstuffNetwork WITH sent <- Sent, received <- handled

(* The gossip engine, the validator, the forwarding task and the bounded    *)
(* channel together are a network that may lose, delay and reorder, but     *)
(* that delivers only what was gossiped, never twice and never back to its  *)
(* sender (incoming_message_handler, gossip_message). *)
ImplementsNetwork == Network!Spec
=============================================================================
