-------------------------- MODULE MCHotstuffStartup --------------------------
EXTENDS HotstuffStartup

CONSTANTS a, b, c, n1, n2, n3

TwoAuthorities == <<a, b>>

(* The node template's runtime, and two with this pallet's timestamp hook. *)
SomeConfigs ==
  {[AllowMultipleBlocksPerSlot |-> FALSE, OnTimestampSet |-> "Aura"]}
  \cup [AllowMultipleBlocksPerSlot : BOOLEAN, OnTimestampSet : {"Hotstuff"}]

(* No list, the genesis list in another order, and one above the limit of  *)
(* two. *)
Lists == {<<>>, <<b, a>>, <<c, a, b>>}

(* Blocks without a slot because the data does not decode, with items of    *)
(* another engine before and of this one after the slot, and with the slots *)
(* at both ends. *)
SomeDigests ==
  {<<[engine |-> "HOTS", slot |-> None]>>,
   <<[engine |-> "AURA", slot |-> 1], [engine |-> "HOTS", slot |-> 2],
     [engine |-> "HOTS", slot |-> 0]>>}
  \cup {<<[engine |-> "HOTS", slot |-> s]>> : s \in {0, 1, MaxU64}}

(* Two validators, one of them with two keys, and a full node. *)
Keys == [n \in {n1, n2, n3} |->
          CASE n = n1 -> {a, c} [] n = n2 -> {b} [] n = n3 -> {}]
=============================================================================
