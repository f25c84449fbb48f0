------------------------- MODULE HotstuffPalletProofs -------------------------
(***************************************************************************)
(* For every genesis list, every limit on authorities, every slot duration  *)
(* and every sequence of blocks, whatever the runtime's configuration:      *)
(* slots ascend, a block's author is a current authority, and whoever       *)
(* follows the logs knows the authorities.                                  *)
(*                                                                         *)
(* None is inductive.  A rejected block takes the state of its parent back, *)
(* so the invariants speak of that state too: inside a block, the slots of  *)
(* the past are bounded by the parent's (SlotInv), and the logs so far lead *)
(* from the parent's authorities to those in storage (LogInv).              *)
(***************************************************************************)
EXTENDS HotstuffPallet, TLAPS

NonEmptyLists == {list \in Seq(AuthorityId) : list # <<>>}

PalletInv ==
  /\ config \in Configs
  /\ authorities \in NonEmptyLists
  /\ parent.authorities \in NonEmptyLists
  /\ current_slot \in 0 .. MaxU64
  /\ parent.slot \in 0 .. MaxU64
  /\ now \in 0 .. MaxU64
  /\ phase \in {"idle", "initialized", "rotated", "stamped"}
  /\ phase # "idle" => digest \in Digests

(* Truncating a list of session keys yields a list of authorities. *)
LEMMA TruncatedType ==
  ASSUME NEW keys \in Seq(AuthorityId)
  PROVE  Truncated(keys) \in Seq(AuthorityId)
BY PalletAssumption DEF Truncated

(* The invariant holds at genesis. *)
LEMMA PalletInitially == Init => PalletInv
BY PalletAssumption DEF Init, PalletInv, NonEmptyLists

(* Every step of a block preserves it. *)
LEMMA PalletInductive == PalletInv /\ [Next]_vars => PalletInv'
<1> SUFFICES ASSUME PalletInv, [Next]_vars PROVE PalletInv'
  OBVIOUS
<1>1. CASE OnInitialize
  <2>1. PICK d \in Digests :
          /\ phase = "idle"
          /\ phase' = "initialized"
          /\ digest' = d
          /\ current_slot' = IF SlotFromDigests(d) = None
                             THEN current_slot ELSE SlotFromDigests(d)
          /\ parent' = [authorities |-> authorities, slot |-> current_slot,
                        disabled |-> disabled]
          /\ UNCHANGED <<config, authorities, now>>
    BY <1>1 DEF OnInitialize
  <2>2. current_slot' \in 0 .. MaxU64
    BY <2>1, DigestsAssumption DEF PalletInv
  <2>3. QED
    BY <2>1, <2>2 DEF PalletInv
<1>2. CASE OnNewSession
  <2>1. PICK changed \in BOOLEAN, keys \in SessionKeys :
          IF changed /\ authorities # keys
          THEN ChangeAuthorities(Truncated(keys))
          ELSE UNCHANGED <<authorities, logs>>
    BY <1>2 DEF OnNewSession
  <2>2. Truncated(keys) \in Seq(AuthorityId)
    BY TruncatedType, PalletAssumption
  <2>3. authorities' \in NonEmptyLists
    BY <2>1, <2>2 DEF ChangeAuthorities, PalletInv, NonEmptyLists
  <2>4. /\ phase = "initialized" /\ phase' = "rotated"
        /\ UNCHANGED <<config, current_slot, digest, now, parent>>
    BY <1>2 DEF OnNewSession
  <2>5. QED
    BY <2>3, <2>4 DEF PalletInv
<1>3. CASE OnDisabled
  BY <1>3 DEF OnDisabled, PalletInv
<1>4. CASE SetTimestamp
  <2>1. PICK moment \in (now + MinimumPeriod) .. MaxU64 :
          /\ phase \in {"initialized", "rotated"}
          /\ \/ /\ phase' = "stamped"
                /\ now' = moment
                /\ UNCHANGED <<authorities, current_slot, digest>>
             \/ RejectBlock
          /\ UNCHANGED <<config, parent>>
    BY <1>4 DEF SetTimestamp
  <2>2. moment \in 0 .. MaxU64
    BY PalletAssumption DEF PalletInv
  <2>3. CASE phase' = "stamped" /\ now' = moment
             /\ UNCHANGED <<authorities, current_slot, digest>>
    BY <2>1, <2>2, <2>3 DEF PalletInv
  <2>4. CASE RejectBlock
    BY <2>1, <2>4 DEF PalletInv, RejectBlock
  <2>5. QED
    BY <2>1, <2>3, <2>4
<1>5. CASE EndBlock
  BY <1>5 DEF EndBlock, PalletInv
<1>6. CASE UNCHANGED vars
  BY <1>6 DEF vars, PalletInv
<1>7. QED
  BY <1>1, <1>2, <1>3, <1>4, <1>5, <1>6 DEF Next

(***************************************************************************)
(* The slots of the imported blocks.                                       *)
(***************************************************************************)
(* b may be the slot of a later block than one with slot a. *)
MayFollow(a, b) ==
  \/ a < b
  \/ config.AllowMultipleBlocksPerSlot /\ a = b

SlotInv ==
  /\ slots \in Seq(0 .. MaxU64)
  /\ \A i, j \in DOMAIN slots : i < j => MayFollow(slots[i], slots[j])
  /\ phase = "idle" => \A i \in DOMAIN slots : slots[i] <= current_slot
  /\ phase # "idle" => \A i \in DOMAIN slots : slots[i] <= parent.slot
  /\ phase # "idle" =>
       IF SlotFromDigests(digest) = None THEN current_slot = parent.slot
       ELSE /\ current_slot = SlotFromDigests(digest)
            /\ MayFollow(parent.slot, current_slot)

(* The invariant holds at genesis. *)
LEMMA SlotInitially == Init => SlotInv
BY DEF Init, SlotInv

(* Every step of a block preserves it. *)
LEMMA SlotInductive ==
  PalletInv /\ SlotInv /\ [Next]_vars => SlotInv'
<1> SUFFICES ASSUME PalletInv, SlotInv, [Next]_vars PROVE SlotInv'
  OBVIOUS
<1> USE DEF MayFollow
<1>1. CASE OnInitialize
  <2>1. PICK d \in Digests :
          /\ phase = "idle"
          /\ SlotFromDigests(d) # None => SlotAllowed(SlotFromDigests(d))
          /\ phase' = "initialized"
          /\ digest' = d
          /\ current_slot' = IF SlotFromDigests(d) = None
                             THEN current_slot ELSE SlotFromDigests(d)
          /\ parent' = [authorities |-> authorities, slot |-> current_slot,
                        disabled |-> disabled]
          /\ UNCHANGED <<config, slots>>
    BY <1>1 DEF OnInitialize, history
  <2>2. SlotFromDigests(d) # None =>
          MayFollow(current_slot, SlotFromDigests(d))
    <3>1. ASSUME NEW slot \in 0 .. MaxU64, SlotAllowed(slot)
          PROVE  MayFollow(current_slot, slot)
      <4>1. CASE config.AllowMultipleBlocksPerSlot
        BY <3>1, <4>1 DEF SlotAllowed, PalletInv
      <4>2. CASE ~config.AllowMultipleBlocksPerSlot
        BY <3>1, <4>2 DEF SlotAllowed
      <4> QED BY <4>1, <4>2
    <3> QED BY <2>1, <3>1, DigestsAssumption
  <2>3. SlotFromDigests(digest') = SlotFromDigests(d)
    BY <2>1
  <2> QED
    BY <2>1, <2>2, <2>3 DEF SlotInv
<1>2. CASE OnNewSession
  BY <1>2 DEF OnNewSession, SlotInv, history
<1>3. CASE OnDisabled
  BY <1>3 DEF OnDisabled, SlotInv, history
<1>4. CASE SetTimestamp
  <2>1. /\ phase # "idle"
        /\ UNCHANGED <<config, parent, slots>>
        /\ \/ phase' = "stamped" /\ UNCHANGED <<current_slot, digest>>
           \/ phase' = "idle" /\ current_slot' = parent.slot
    BY <1>4 DEF SetTimestamp, RejectBlock, history
  <2> QED
    BY <2>1 DEF SlotInv
<1>5. CASE EndBlock
  <2> DEFINE slot == SlotFromDigests(digest)
  <2>1. /\ phase # "idle" /\ phase' = "idle"
        /\ slots' = IF slot = None THEN slots ELSE Append(slots, slot)
        /\ UNCHANGED <<config, current_slot>>
    BY <1>5 DEF EndBlock
  <2>2. CASE slot = None
    BY <2>1, <2>2 DEF SlotInv
  <2>3. CASE slot # None
    <3>1. /\ slot = current_slot /\ slot \in 0 .. MaxU64
          /\ MayFollow(parent.slot, slot) /\ parent.slot \in 0 .. MaxU64
      BY <2>1, <2>3 DEF SlotInv, PalletInv
    <3> HIDE DEF slot
    <3>2. /\ slots' \in Seq(0 .. MaxU64)
          /\ Len(slots) \in Nat /\ DOMAIN slots = 1 .. Len(slots)
          /\ DOMAIN slots' = 1 .. (Len(slots) + 1)
          /\ slots'[Len(slots) + 1] = slot
          /\ \A i \in DOMAIN slots : slots'[i] = slots[i]
      BY <2>1, <2>3, <3>1 DEF SlotInv
    <3>3. \A i \in DOMAIN slots : slots[i] \in 0 .. MaxU64 /\ slots[i] <= parent.slot
      <4>1. \A i \in DOMAIN slots : slots[i] \in 0 .. MaxU64
        <5> DEFINE U64 == 0 .. MaxU64
        <5>1. slots \in Seq(U64)
          BY DEF SlotInv
        <5> HIDE DEF U64
        <5>2. \A i \in DOMAIN slots : slots[i] \in U64
          BY <5>1
        <5> QED BY <5>2 DEF U64
      <4>2. \A i \in DOMAIN slots : slots[i] <= parent.slot
        BY <2>1, Zenon DEF SlotInv
      <4> QED BY <4>1, <4>2
    <3>4. \A i \in DOMAIN slots : MayFollow(slots[i], slot)
      <4> TAKE i \in DOMAIN slots
      <4>1. CASE parent.slot < slot
        BY <3>1, <3>3, <4>1
      <4>2. CASE config.AllowMultipleBlocksPerSlot /\ parent.slot = slot
        BY <3>1, <3>3, <4>2
      <4> QED BY <3>1, <4>1, <4>2
    <3>5. \A i, j \in DOMAIN slots' : i < j => MayFollow(slots'[i], slots'[j])
      <4> TAKE i, j \in DOMAIN slots'
      <4> HAVE i < j
      <4>1. i \in DOMAIN slots
        BY <3>2
      <4>2. CASE j \in DOMAIN slots
        BY <3>2, <4>1, <4>2 DEF SlotInv
      <4>3. CASE j = Len(slots) + 1
        BY <3>2, <3>4, <4>1, <4>3
      <4> QED BY <3>2, <4>2, <4>3
    <3>6. \A i \in DOMAIN slots' : slots'[i] <= current_slot'
      BY <2>1, <3>1, <3>2, <3>3
    <3>7. \A i, j \in DOMAIN slots' :
            i < j => \/ slots'[i] < slots'[j]
                     \/ /\ config'.AllowMultipleBlocksPerSlot
                        /\ slots'[i] = slots'[j]
      BY <2>1, <3>2, <3>5
    <3> QED
      BY <2>1, <3>2, <3>6, <3>7 DEF SlotInv
  <2> QED
    BY <2>2, <2>3
<1>6. CASE UNCHANGED vars
  BY <1>6 DEF vars, SlotInv
<1> QED
  BY <1>1, <1>2, <1>3, <1>4, <1>5, <1>6 DEF Next

(* Slots never fall along the chain, and rise with every block that carries *)
(* one unless several blocks may share a slot (on_initialize). *)
THEOREM SlotsNeverFall == Spec => []SlotsAscend
<1>1. SlotInv => SlotsAscend
  BY DEF SlotInv, SlotsAscend, MayFollow
<1>2. QED
  BY <1>1, PalletInitially, PalletInductive, SlotInitially, SlotInductive, PTL
     DEF Spec

(* The author of a block is a current authority throughout the block, also  *)
(* when a session changes the list (find_author, change_authorities). *)
THEOREM AuthorAlwaysKnown == Spec => []AuthorKnown
<1>1. PalletInv => AuthorKnown
  <2> SUFFICES ASSUME PalletInv, phase # "idle", SlotFromDigests(digest) # None
               PROVE  \E i \in DOMAIN authorities : AuthorId(digest) = authorities[i]
    BY DEF AuthorKnown
  <2> DEFINE slot == SlotFromDigests(digest)
             k == slot % Len(authorities)
  <2>1. slot \in 0 .. MaxU64
    BY DigestsAssumption DEF PalletInv
  <2>2. /\ Len(authorities) \in Nat /\ Len(authorities) >= 1
        /\ DOMAIN authorities = 1 .. Len(authorities) /\ authorities # <<>>
    BY DEF PalletInv, NonEmptyLists
  <2>3. FindAuthor(digest) = k
    BY <2>2 DEF FindAuthor
  <2> HIDE DEF slot
  <2>4. k \in 0 .. (Len(authorities) - 1)
    BY <2>1, <2>2, PalletAssumption
  <2> HIDE DEF k
  <2>5. AuthorId(digest) = authorities[k + 1]
    BY <2>3, <2>4 DEF AuthorId
  <2>6. k + 1 \in DOMAIN authorities
    BY <2>2, <2>4
  <2>7. QED
    BY <2>5, <2>6
<1>2. QED
  BY <1>1, PalletInitially, PalletInductive, PTL DEF Spec

(***************************************************************************)
(* The authorities that the logs announce.  While a block is executed the   *)
(* storage may be ahead of what past blocks have announced, but never of    *)
(* the last change in the block's own logs; the parent's list is the one    *)
(* announced, which a rejected block returns to.                            *)
(***************************************************************************)
Lists == {list \in Seq(AuthorityId) : Len(list) <= MaxAuthorities}

Indices == 0 .. (MaxAuthorities - 1)

Log == [log : {"AuthoritiesChange"}, authorities : Lists]
         \cup [log : {"OnDisabled"}, index : Indices]

(* The logs so far lead from the announced authorities to the stored ones. *)
LogsLead ==
  IF \E i \in DOMAIN logs : LastChange(i)
  THEN \A i \in DOMAIN logs : LastChange(i) => logs[i].authorities = authorities
  ELSE authorities = announced

LogInv ==
  /\ authorities \in Lists
  /\ announced \in Lists
  /\ parent.authorities \in Lists
  /\ disabled \subseteq Indices
  /\ parent.disabled \subseteq Indices
  /\ logs \in Seq(Log)
  /\ LogsLead
  /\ phase = "idle" => logs = <<>>
  /\ phase # "idle" => parent.authorities = announced

(* An empty log announces nothing. *)
LEMMA EmptyLogsLead ==
  ASSUME logs = <<>> PROVE LogsLead <=> authorities = announced
<1>1. DOMAIN logs = {}
  OBVIOUS
<1> QED BY <1>1 DEF LogsLead

(* A truncated list respects the limit (BoundedVec::truncate_from). *)
LEMMA TruncatedBounded ==
  ASSUME NEW keys \in Seq(AuthorityId) PROVE Truncated(keys) \in Lists
<1>1. Truncated(keys) \in Seq(AuthorityId)
  BY TruncatedType
<1>2. Len(Truncated(keys)) <= MaxAuthorities
  BY PalletAssumption DEF Truncated
<1> QED BY <1>1, <1>2 DEF Lists

(* The log of a change leads to the list it stores (change_authorities). *)
LEMMA ChangeLeads ==
  ASSUME LogInv, NEW new \in Lists, ChangeAuthorities(new), announced' = announced
  PROVE  authorities' \in Lists /\ logs' \in Seq(Log) /\ LogsLead'
<1> DEFINE item == [log |-> "AuthoritiesChange", authorities |-> new]
<1>1. PICK k \in Nat : k = Len(logs) + 1
  BY DEF LogInv
<1>2. CASE new = <<>>
  <2>1. UNCHANGED <<authorities, logs>>
    BY <1>2 DEF ChangeAuthorities
  <2> QED BY <2>1 DEF LogInv, LogsLead, LastChange
<1>3. CASE new # <<>>
  <2>1. authorities' = new /\ logs' = Append(logs, item)
    BY <1>3 DEF ChangeAuthorities
  <2>2. item \in Log /\ item.log = "AuthoritiesChange" /\ item.authorities = new
    BY DEF Log
  <2> HIDE DEF item
  <2>3. /\ Len(logs) \in Nat /\ logs' \in Seq(Log) /\ Len(logs') = k
        /\ DOMAIN logs' = 1 .. k /\ logs'[k] = item
    BY <1>1, <2>1, <2>2 DEF LogInv
  <2>4. LastChange(k)' /\ k \in DOMAIN logs'
    <3>1. /\ k \in DOMAIN logs' /\ logs'[k].log = "AuthoritiesChange"
          /\ \A j \in (k + 1) .. Len(logs') : FALSE
      BY <1>1, <2>2, <2>3
    <3> QED BY <3>1 DEF LastChange
  <2>5. ASSUME NEW i \in DOMAIN logs', LastChange(i)' PROVE i = k
    <3>1. CASE i < k
      BY <2>2, <2>3, <2>5, <3>1 DEF LastChange
    <3> QED BY <2>3, <3>1
  <2>6. LogsLead'
    BY <2>1, <2>2, <2>3, <2>4, <2>5 DEF LogsLead
  <2> QED BY <2>1, <2>3, <2>6
<1> QED BY <1>2, <1>3

(* The log of a disabled validator changes no authorities (on_disabled). *)
LEMMA DisabledLeads ==
  ASSUME LogInv, NEW x \in Indices, UNCHANGED <<authorities, announced>>,
         logs' = Append(logs, [log |-> "OnDisabled", index |-> x])
  PROVE  logs' \in Seq(Log) /\ LogsLead'
<1> DEFINE item == [log |-> "OnDisabled", index |-> x]
<1>1. PICK k \in Nat : k = Len(logs) + 1
  BY DEF LogInv
<1>2. item \in Log /\ item.log # "AuthoritiesChange"
  BY DEF Log
<1> HIDE DEF item
<1>3. /\ Len(logs) \in Nat /\ DOMAIN logs = 1 .. Len(logs)
      /\ logs' \in Seq(Log) /\ Len(logs') = k
      /\ DOMAIN logs' = 1 .. k /\ logs'[k] = item
      /\ \A i \in 1 .. Len(logs) : logs'[i] = logs[i]
  BY <1>1, <1>2 DEF LogInv, item
<1>4. \A i \in DOMAIN logs : LastChange(i)' <=> LastChange(i)
  BY <1>2, <1>3 DEF LastChange
<1>5. ~LastChange(k)'
  BY <1>2, <1>3 DEF LastChange
<1>6. \A i \in DOMAIN logs' : i \in DOMAIN logs \/ i = k
  BY <1>3
<1>7. DOMAIN logs \subseteq DOMAIN logs'
  BY <1>3
<1>8. LogsLead'
  BY <1>3, <1>4, <1>5, <1>6, <1>7 DEF LogInv, LogsLead
<1> QED BY <1>3, <1>8

(* The invariant holds at genesis. *)
LEMMA LogInitially == Init => LogInv
<1> SUFFICES ASSUME Init PROVE LogInv
  OBVIOUS
<1>1. LogsLead
  BY EmptyLogsLead DEF Init
<1> QED BY <1>1, PalletAssumption DEF Init, LogInv, Lists

(* Every step of a block preserves it. *)
LEMMA LogInductive == LogInv /\ [Next]_vars => LogInv'
<1> SUFFICES ASSUME LogInv, [Next]_vars PROVE LogInv'
  OBVIOUS
<1>1. ASSUME UNCHANGED <<authorities, announced, logs>> PROVE LogsLead'
  BY <1>1 DEF LogInv, LogsLead, LastChange
<1>2. CASE OnInitialize
  <2>1. /\ phase = "idle" /\ phase' = "initialized"
        /\ parent' = [authorities |-> authorities, slot |-> current_slot,
                      disabled |-> disabled]
        /\ UNCHANGED <<authorities, logs, disabled, announced>>
    BY <1>2 DEF OnInitialize, history
  <2>2. authorities = announced
    BY <2>1, EmptyLogsLead DEF LogInv
  <2> QED BY <1>1, <2>1, <2>2 DEF LogInv
<1>3. CASE OnNewSession
  <2>1. PICK changed \in BOOLEAN, keys \in SessionKeys :
          IF changed /\ authorities # keys
          THEN ChangeAuthorities(Truncated(keys))
          ELSE UNCHANGED <<authorities, logs>>
    BY <1>3 DEF OnNewSession, history
  <2>2. /\ phase = "initialized" /\ phase' = "rotated" /\ disabled' = {}
        /\ UNCHANGED <<parent, announced>>
    BY <1>3 DEF OnNewSession, history
  <2>3. Truncated(keys) \in Lists
    BY TruncatedBounded, PalletAssumption
  <2>4. authorities' \in Lists /\ logs' \in Seq(Log) /\ LogsLead'
    <3>1. CASE ChangeAuthorities(Truncated(keys))
      BY <2>2, <2>3, <3>1, ChangeLeads
    <3>2. CASE UNCHANGED <<authorities, logs>>
      BY <1>1, <2>2, <3>2 DEF LogInv
    <3> QED BY <2>1, <3>1, <3>2
  <2> QED BY <2>2, <2>4 DEF LogInv
<1>4. CASE OnDisabled
  <2>1. PICK x \in 0 .. (Len(authorities) - 1) :
          /\ phase # "idle" /\ disabled' = disabled \cup {x}
          /\ logs' = Append(logs, [log |-> "OnDisabled", index |-> x])
          /\ UNCHANGED <<authorities, phase, parent, announced>>
    BY <1>4 DEF OnDisabled, history
  <2>2. x \in Indices
    BY PalletAssumption DEF LogInv, Lists, Indices
  <2>3. logs' \in Seq(Log) /\ LogsLead'
    BY <2>1, <2>2, DisabledLeads
  <2> QED BY <2>1, <2>2, <2>3 DEF LogInv
<1>5. CASE SetTimestamp
  <2>1. /\ phase \in {"initialized", "rotated"}
        /\ UNCHANGED <<parent, announced>>
        /\ \/ /\ phase' = "stamped"
              /\ UNCHANGED <<authorities, logs, disabled>>
           \/ /\ phase' = "idle" /\ logs' = <<>>
              /\ authorities' = parent.authorities
              /\ disabled' = parent.disabled
    BY <1>5 DEF SetTimestamp, RejectBlock, history
  <2>2. CASE phase' = "stamped" /\ UNCHANGED <<authorities, logs, disabled>>
    BY <1>1, <2>1, <2>2 DEF LogInv
  <2>3. CASE /\ phase' = "idle" /\ logs' = <<>>
             /\ authorities' = parent.authorities /\ disabled' = parent.disabled
    <3>1. authorities' = announced'
      BY <2>1, <2>3 DEF LogInv
    <3>2. LogsLead'
      BY <2>3, <3>1 DEF LogsLead
    <3> QED BY <2>1, <2>3, <3>1, <3>2 DEF LogInv
  <2> QED BY <2>1, <2>2, <2>3
<1>6. CASE EndBlock
  <2>1. /\ phase' = "idle" /\ logs' = <<>>
        /\ UNCHANGED <<authorities, disabled, parent>>
    BY <1>6 DEF EndBlock
  <2>2. announced' = authorities'
    BY <1>6, <2>1 DEF EndBlock, LogInv, LogsLead
  <2>3. LogsLead'
    BY <2>1, <2>2 DEF LogsLead
  <2> QED BY <2>1, <2>2, <2>3 DEF LogInv
<1>7. CASE UNCHANGED vars
  BY <1>1, <1>7 DEF vars, LogInv
<1> QED BY <1>2, <1>3, <1>4, <1>5, <1>6, <1>7 DEF Next

(* Whoever follows the logs of the imported blocks knows the authorities of *)
(* the runtime after every block (change_authorities, on_new_session). *)
THEOREM LogsAnnounceAuthorities == Spec => []AnnouncedAuthorities
<1>1. LogInv => AnnouncedAuthorities
  BY EmptyLogsLead DEF LogInv, AnnouncedAuthorities
<1> QED BY <1>1, LogInitially, LogInductive, PTL DEF Spec

(* The stored list never exceeds MaxAuthorities, disabled indices stay      *)
(* below it, and slots and timestamps stay within u64, for every limit and  *)
(* every list of session keys. *)
THEOREM PalletTypeCorrect == Spec => []TypeOK
<1>1. PalletInv /\ LogInv /\ SlotInv => TypeOK
  BY DEF PalletInv, LogInv, SlotInv, TypeOK, Lists, Indices
<1> QED
  BY <1>1, PalletInitially, PalletInductive, LogInitially, LogInductive,
     SlotInitially, SlotInductive, PTL DEF Spec
=============================================================================
