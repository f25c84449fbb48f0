--------------------------- MODULE HotstuffNetwork ---------------------------
(***************************************************************************)
(* What the workers may rely on of the network between them: a set of sent  *)
(* messages, each of which may reach any worker but its sender, once, at    *)
(* any time or never.  It is the network that the handlers of consensus.rs  *)
(* are checked over, less the repetitions that those handlers also bear.    *)
(***************************************************************************)
CONSTANTS
  Peers,        \* nodes
  Message       \* messages that workers gossip

VARIABLES
  sent,         \* messages some worker has gossiped
  received      \* received[n]: messages that worker n has taken

networkVars == <<sent, received>>

Init ==
  /\ sent = {}
  /\ received = [n \in Peers |-> {}]

Send(m) ==
  /\ m \notin sent
  /\ sent' = sent \cup {m}
  /\ UNCHANGED received

Receive(n, m) ==
  /\ m \in sent
  /\ m.origin # n
  /\ m \notin received[n]
  /\ received' = [received EXCEPT ![n] = @ \cup {m}]
  /\ UNCHANGED sent

Next ==
  \/ \E m \in Message : Send(m)
  \/ \E n \in Peers : \E m \in Message : Receive(n, m)

Spec == Init /\ [][Next]_networkVars
=============================================================================
