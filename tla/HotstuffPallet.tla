---------------------------- MODULE HotstuffPallet ----------------------------
(***************************************************************************)
(* pallet-hotstuff: the authorities and the current slot that the runtime   *)
(* keeps on chain (pallets/hotstuff/src/lib.rs), as a sequence of blocks    *)
(* changes them.                                                            *)
(*                                                                         *)
(* A block is executed in the order of the runtime: on_initialize, possibly *)
(* a session change, the timestamp inherent, and the end of the block;      *)
(* validators may be disabled in between.  A panic rejects the block, which *)
(* takes back all it did.  The session and timestamp pallets are outside    *)
(* the repository and modelled from how this pallet is called.              *)
(*                                                                         *)
(* Two things differ between runtimes and are chosen once, at genesis:      *)
(* whether several blocks may share a slot, and whose hook the timestamp    *)
(* pallet calls.  The node template calls Aura's, which judges the          *)
(* timestamp by Aura's own slot and never runs this pallet's.               *)
(***************************************************************************)
EXTENDS Integers, FiniteSets, Sequences

CONSTANTS
  AuthorityId,                 \* authority keys
  GenesisAuthorities,          \* GenesisConfig.authorities
  MaxAuthorities,              \* Config::MaxAuthorities
  Configs,                     \* the runtimes considered
  MinimumPeriod,               \* pallet_timestamp::Config::MinimumPeriod
  MaxU64,                      \* u64::MAX: the largest slot and moment
  Digests,                     \* bound: the pre-runtime digests of blocks
  SessionKeys,                 \* bound: the validator lists of new sessions
  None                         \* Option::None

ASSUME PalletAssumption ==
  /\ MaxAuthorities \in Nat \ {0}
  /\ Configs \subseteq [AllowMultipleBlocksPerSlot : BOOLEAN,
                        OnTimestampSet : {"Hotstuff", "Aura"}]
  /\ MinimumPeriod \in Nat \ {0}
  /\ MaxU64 \in Nat \ {0}
  /\ GenesisAuthorities \in Seq(AuthorityId)
  /\ Len(GenesisAuthorities) \in 1 .. MaxAuthorities
  /\ SessionKeys \subseteq Seq(AuthorityId)

VARIABLES
  config,        \* this pallet's Config and pallet_timestamp's OnTimestampSet
  authorities,   \* storage Authorities
  current_slot,  \* storage CurrentSlot
  digest,        \* pre-runtime digest items of the current block
  logs,          \* consensus logs deposited by the current block
  disabled,      \* indices the session pallet reports as disabled
  now,           \* the timestamp pallet's time
  phase,         \* how far the current block is executed
  parent,        \* the state the current block started from
  announced,     \* authorities according to the logs of all past blocks
  slots          \* slots of the past blocks that carry one, in their order

vars == <<config, authorities, current_slot, digest, logs, disabled, now,
          phase, parent, announced, slots>>
history == <<announced, slots>>

Init ==
  /\ config \in Configs
  /\ authorities = GenesisAuthorities
  /\ current_slot = 0
  /\ digest = <<>>
  /\ logs = <<>>
  /\ disabled = {}
  /\ now = 0
  /\ phase = "idle"
  /\ parent = [authorities |-> authorities, slot |-> 0, disabled |-> {}]
  /\ announced = authorities
  /\ slots = <<>>

(* The first pre-runtime item of this engine decides; None when there is no *)
(* such item or its data does not decode. *)
SlotFromDigests(d) ==
  LET own == SelectSeq(d, LAMBDA item : item.engine = "HOTS")
  IN  IF own = <<>> THEN None ELSE Head(own).slot

(* A slot is a u64. *)
ASSUME DigestsAssumption ==
  /\ None \notin 0 .. MaxU64
  /\ \A d \in Digests : SlotFromDigests(d) \in (0 .. MaxU64) \cup {None}

SlotDuration == IF MinimumPeriod * 2 > MaxU64 THEN MaxU64 ELSE MinimumPeriod * 2

(* find_author: the index of the block's author; the division panics when   *)
(* there are no authorities. *)
FindAuthor(d) ==
  IF SlotFromDigests(d) = None \/ authorities = <<>> THEN None
  ELSE SlotFromDigests(d) % Len(authorities)

(* FindAccountFromAuthorIndex. *)
AuthorId(d) ==
  IF FindAuthor(d) \in 0 .. (Len(authorities) - 1)
  THEN authorities[FindAuthor(d) + 1] ELSE None

(* Mutant: a block may repeat the slot of the one before it. *)
SlotAllowedAgain(slot) == current_slot <= slot

(* The assertion of on_initialize on the slot of a new block. *)
SlotAllowed(slot) ==
  IF config.AllowMultipleBlocksPerSlot
  THEN current_slot <= slot ELSE current_slot < slot

(* A failed assertion panics and the block is never imported. *)
OnInitialize ==
  \E d \in Digests :
    LET slot == SlotFromDigests(d) IN
    /\ phase = "idle"
    /\ slot # None =>
         /\ SlotAllowed(slot)
         /\ authorities # <<>> => slot % Len(authorities) \notin disabled
    /\ phase' = "initialized"
    /\ digest' = d
    /\ current_slot' = IF slot = None THEN current_slot ELSE slot
    /\ parent' = [authorities |-> authorities, slot |-> current_slot,
                  disabled |-> disabled]
    /\ UNCHANGED <<config, authorities, logs, disabled, now, history>>

(* Mutant: an empty list is stored like any other. *)
ChangeAuthoritiesAlways(new) ==
  /\ authorities' = new
  /\ logs' = Append(logs, [log |-> "AuthoritiesChange", authorities |-> new])

(* An empty list is ignored. *)
ChangeAuthorities(new) ==
  IF new = <<>> THEN UNCHANGED <<authorities, logs>>
  ELSE /\ authorities' = new
       /\ logs' = Append(logs, [log |-> "AuthoritiesChange", authorities |-> new])

(* Mutant: the list is stored whole. *)
Untruncated(keys) == keys

Truncated(keys) ==
  SubSeq(keys, 1, IF Len(keys) > MaxAuthorities THEN MaxAuthorities ELSE Len(keys))

(* Mutant: the log carries the list before truncation. *)
OnNewSessionLogsAll ==
  \E changed \in BOOLEAN : \E keys \in SessionKeys :
    /\ phase = "initialized"
    /\ phase' = "rotated"
    /\ disabled' = {}
    /\ IF changed /\ keys \notin {authorities, <<>>}
       THEN /\ authorities' = Truncated(keys)
            /\ logs' = Append(logs, [log |-> "AuthoritiesChange",
                                     authorities |-> keys])
       ELSE UNCHANGED <<authorities, logs>>
    /\ UNCHANGED <<config, current_slot, digest, now, parent, history>>

(* The session pallet starts a session, with an empty list of disabled      *)
(* validators. *)
OnNewSession ==
  \E changed \in BOOLEAN : \E keys \in SessionKeys :
    /\ phase = "initialized"
    /\ phase' = "rotated"
    /\ disabled' = {}
    /\ IF changed /\ authorities # keys
       THEN ChangeAuthorities(Truncated(keys))
       ELSE UNCHANGED <<authorities, logs>>
    /\ UNCHANGED <<config, current_slot, digest, now, parent, history>>

(* The session pallet disables a validator. *)
OnDisabled ==
  \E i \in 0 .. (Len(authorities) - 1) :
    /\ phase # "idle"
    /\ i \notin disabled
    /\ disabled' = disabled \cup {i}
    /\ logs' = Append(logs, [log |-> "OnDisabled", index |-> i])
    /\ UNCHANGED <<config, authorities, current_slot, digest, now, phase,
                   parent, history>>

(* A panic in a block: its parent's state is the state again. *)
RejectBlock ==
  /\ phase' = "idle"
  /\ authorities' = parent.authorities
  /\ current_slot' = parent.slot
  /\ disabled' = parent.disabled
  /\ digest' = <<>>
  /\ logs' = <<>>
  /\ UNCHANGED now

(* The assertion of on_timestamp_set: the timestamp is in the current slot. *)
OnTimestampSet(moment) == current_slot = moment \div SlotDuration

(* The timestamp inherent, which every block has.  Where this pallet's hook *)
(* is called it decides about the block; another pallet's decides by what   *)
(* is not modelled here, so that both outcomes are possible. *)
SetTimestamp ==
  \E moment \in (now + MinimumPeriod) .. MaxU64 :
    /\ phase \in {"initialized", "rotated"}
    /\ \/ /\ config.OnTimestampSet = "Hotstuff" => OnTimestampSet(moment)
          /\ phase' = "stamped"
          /\ now' = moment
          /\ UNCHANGED <<authorities, current_slot, digest, logs, disabled>>
       \/ /\ config.OnTimestampSet = "Hotstuff" => ~OnTimestampSet(moment)
          /\ RejectBlock
    /\ UNCHANGED <<config, parent, history>>

(* The block's last AuthoritiesChange log is the one at i. *)
LastChange(i) ==
  /\ logs[i].log = "AuthoritiesChange"
  /\ \A j \in (i + 1) .. Len(logs) : logs[j].log # "AuthoritiesChange"

(* The block ends; whoever reads its logs knows the authorities that the    *)
(* last change among them names. *)
EndBlock ==
  /\ phase = "stamped"
  /\ phase' = "idle"
  /\ IF \E i \in DOMAIN logs : LastChange(i)
     THEN \E i \in DOMAIN logs : LastChange(i) /\ announced' = logs[i].authorities
     ELSE UNCHANGED announced
  /\ slots' = IF SlotFromDigests(digest) = None THEN slots
              ELSE Append(slots, SlotFromDigests(digest))
  /\ digest' = <<>>
  /\ logs' = <<>>
  /\ UNCHANGED <<config, authorities, current_slot, disabled, now, parent>>

Next == OnInitialize \/ OnNewSession \/ OnDisabled \/ SetTimestamp \/ EndBlock

Spec == Init /\ [][Next]_vars

(***************************************************************************)
(* Properties.                                                             *)
(***************************************************************************)
TypeOK ==
  /\ config \in Configs
  /\ authorities \in Seq(AuthorityId)
  /\ Len(authorities) <= MaxAuthorities
  /\ current_slot \in 0 .. MaxU64
  /\ disabled \subseteq 0 .. (MaxAuthorities - 1)
  /\ now \in 0 .. MaxU64
  /\ phase \in {"idle", "initialized", "rotated", "stamped"}
  /\ announced \in Seq(AuthorityId)
  /\ slots \in Seq(0 .. MaxU64)

(* Whoever follows the AuthoritiesChange logs of the imported blocks from   *)
(* genesis on has, after every block, exactly the authorities that the      *)
(* runtime has (on_new_session and change_authorities: truncation, no-op    *)
(* changes and rejected blocks included). *)
AnnouncedAuthorities == phase = "idle" => announced = authorities

(* Along the imported chain slots never fall, and no two blocks share one   *)
(* unless Config::AllowMultipleBlocksPerSlot says so: whatever blocks       *)
(* without a slot, of other engines or rejected come in between, and        *)
(* whichever timestamp hook the runtime has (on_initialize). *)
SlotsAscend ==
  \A i, j \in DOMAIN slots :
    i < j => \/ slots[i] < slots[j]
             \/ config.AllowMultipleBlocksPerSlot /\ slots[i] = slots[j]

(* Throughout a block that carries a slot, find_author names a current      *)
(* authority, also after a session has changed or emptied the list. *)
AuthorKnown ==
  (phase # "idle" /\ SlotFromDigests(digest) # None) =>
    \E i \in DOMAIN authorities : AuthorId(digest) = authorities[i]
=============================================================================
