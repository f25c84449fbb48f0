--------------------------- MODULE HotstuffFinality ---------------------------
(***************************************************************************)
(* What the finality gadget promises to the outside: how the signed votes   *)
(* and the nodes' finalized blocks may change.  Views, timers, queues,      *)
(* aggregators, the proposal store and the network are not seen here.       *)
(*                                                                         *)
(* In one step a node signs some votes of its own and may move its          *)
(* finalized block to a descendant whose proposal, and a child of it in the *)
(* next view, a quorum has voted for.  A node that has not been restarted   *)
(* votes in ever higher views.                                              *)
(***************************************************************************)
EXTENDS Integers, Sequences, HotstuffChain

CONSTANTS
  Nodes,        \* the nodes that run
  Restarting,   \* nodes that may be restarted (each once)
  Blocks,       \* Substrate blocks
  Genesis,      \* the Substrate genesis block
  Ancestors,    \* Ancestors[b]: the strict ancestors of block b
  Votes,        \* the votes that can be signed
  Quorums       \* the sets of voters whose votes make a certificate

VARIABLES
  signed,       \* votes signed so far
  finalized,    \* finalized[n]: the last finalized block of node n
  restarted     \* nodes that have been restarted

finalityVars == <<signed, finalized, restarted>>

Init ==
  /\ signed = {}
  /\ finalized = [n \in Nodes |-> Genesis]
  /\ restarted = {}

(* A quorum has voted, in sigs, for the proposal with this hash. *)
Certificate(h, sigs) ==
  \E Q \in Quorums : \A a \in Q :
    [type |-> "Vote", proposal_hash |-> h, view |-> Last(h).view, voter |-> a]
      \in sigs

(* The votes in sigs finalize block b: it is the payload of a certified     *)
(* proposal that has a certified child in the next view. *)
Finalizes(b, sigs) ==
  \E s \in sigs :
    LET h == s.proposal_hash
    IN  /\ Len(h) >= 2
        /\ Last(Front(h)).payload.block_hash = b
        /\ Last(h).view = Last(Front(h)).view + 1
        /\ Certificate(h, sigs)
        /\ Certificate(Front(h), sigs)

Sign(n) ==
  /\ signed \subseteq signed'
  /\ \A s \in signed' \ signed :
       /\ s \in Votes
       /\ s.voter = n
       /\ s.proposal_hash # <<>> /\ s.view = Last(s.proposal_hash).view
       /\ n \notin restarted => \A t \in signed : t.voter = n => t.view < s.view
  /\ \A s, t \in signed' \ signed : s.view = t.view => s = t

Finalize(n) ==
  \/ UNCHANGED finalized
  \/ \E b \in Blocks :
       /\ finalized[n] \in Ancestors[b]
       /\ Finalizes(b, signed')
       /\ finalized' = [finalized EXCEPT ![n] = b]

Act(n) == Sign(n) /\ Finalize(n) /\ UNCHANGED restarted

Restart(n) ==
  /\ n \in Restarting \ restarted
  /\ restarted' = restarted \cup {n}
  /\ UNCHANGED <<signed, finalized>>

Next == \E n \in Nodes : Act(n) \/ Restart(n)

Spec == Init /\ [][Next]_finalityVars
=============================================================================
