------------------------ MODULE HotstuffStartupProofs ------------------------
(***************************************************************************)
(* For every genesis list, every distribution of keys and every sequence of *)
(* session changes, starts and stops: all workers use the genesis list and  *)
(* no two of them lead the same view.                                       *)
(*                                                                         *)
(* The invariant says that the first state of the chain stays the genesis   *)
(* one, and that what a running node has read is exactly that.  The types   *)
(* of the pallet's lists are part of it, because a block is appended to the *)
(* chain with whatever the pallet holds.                                    *)
(***************************************************************************)
EXTENDS HotstuffStartup, HotstuffPalletProofs

ListsTyped ==
  /\ authorities \in Seq(AuthorityId)
  /\ parent.authorities \in Seq(AuthorityId)

GenesisKept ==
  /\ chain \in Seq(Seq(AuthorityId))
  /\ Len(chain) >= 1
  /\ chain[1] = GenesisAuthorities

GenesisRead ==
  /\ running \subseteq Nodes
  /\ DOMAIN authority_set = Nodes
  /\ DOMAIN authority_list = Nodes
  /\ \A n \in running : authority_set[n] = Weighted(GenesisAuthorities, 1)
  /\ \A n \in Workers : authority_list[n] = Weighted(GenesisAuthorities, 0)

StartupInv == ListsTyped /\ GenesisKept /\ GenesisRead

(* Every step of a block's execution leaves lists of authorities. *)
LEMMA BlockKeepsLists ==
  ASSUME ListsTyped, OnInitialize \/ OnNewSession \/ OnDisabled \/ SetTimestamp
  PROVE  ListsTyped'
<1>1. CASE OnInitialize
  BY <1>1 DEF ListsTyped, OnInitialize
<1>2. CASE OnNewSession
  <2>1. PICK changed \in BOOLEAN, keys \in SessionKeys :
          IF changed /\ authorities # keys
          THEN ChangeAuthorities(Truncated(keys))
          ELSE UNCHANGED <<authorities, logs>>
    BY <1>2 DEF OnNewSession
  <2>2. Truncated(keys) \in Seq(AuthorityId)
    BY TruncatedType, PalletAssumption
  <2>3. authorities' \in Seq(AuthorityId)
    BY <2>1, <2>2 DEF ChangeAuthorities, ListsTyped
  <2>4. parent' = parent
    BY <1>2 DEF OnNewSession
  <2>5. QED
    BY <2>3, <2>4 DEF ListsTyped
<1>3. CASE OnDisabled
  BY <1>3 DEF ListsTyped, OnDisabled
<1>4. CASE SetTimestamp
  BY <1>4 DEF ListsTyped, SetTimestamp, RejectBlock
<1>5. QED
  BY <1>1, <1>2, <1>3, <1>4

(* Weights do not change the keys of a list. *)
LEMMA WeightedKeys ==
  ASSUME NEW keys \in Seq(AuthorityId), NEW weight
  PROVE  /\ Len(Weighted(keys, weight)) = Len(keys)
         /\ DOMAIN Weighted(keys, weight) = DOMAIN keys
         /\ \A i \in DOMAIN keys : Weighted(keys, weight)[i].id = keys[i]
<1>1. DOMAIN keys = 1 .. Len(keys) /\ Len(keys) \in Nat
  OBVIOUS
<1>2. DOMAIN Weighted(keys, weight) = 1 .. Len(keys)
  BY <1>1 DEF Weighted
<1>3. Len(Weighted(keys, weight)) = Len(keys)
  <2>1. Weighted(keys, weight) \in Seq([id : AuthorityId, weight : {weight}])
    BY <1>1 DEF Weighted
  <2>2. QED
    BY <1>1, <1>2, <2>1
<1>4. QED
  BY <1>1, <1>2, <1>3 DEF Weighted

(* The invariant holds initially. *)
LEMMA StartupInitially == StartupInit => StartupInv
BY PalletAssumption
   DEF StartupInit, Init, StartupInv, ListsTyped, GenesisKept, GenesisRead, Workers

(* Every step preserves it. *)
LEMMA StartupInductive == StartupInv /\ [StartupNext]_startupVars => StartupInv'
<1> SUFFICES ASSUME StartupInv, [StartupNext]_startupVars PROVE StartupInv'
  OBVIOUS
<1>1. ASSUME NEW n \in Nodes, Start(n) PROVE StartupInv'
  <2>1. ListsTyped' /\ GenesisKept'
    BY <1>1 DEF Start, StartupInv, ListsTyped, GenesisKept, vars
  <2>2. /\ GenesisSet = Weighted(GenesisAuthorities, 1)
        /\ GetGenesisAuthorities = GenesisAuthorities
    BY DEF GenesisSet, GetGenesisAuthorities, AuthoritiesAt, StartupInv, GenesisKept
  <2>3. /\ authority_set' = [authority_set EXCEPT ![n] = Weighted(GenesisAuthorities, 1)]
        /\ authority_list' = IF n \in Validators
             THEN [authority_list EXCEPT ![n] = Weighted(GenesisAuthorities, 0)]
             ELSE authority_list
        /\ running' = running \cup {n}
    BY <1>1, <2>2 DEF Start
  <2>4. GenesisRead'
    BY <2>3 DEF GenesisRead, Workers, StartupInv
  <2>5. QED
    BY <2>1, <2>4 DEF StartupInv
<1>2. ASSUME NEW n \in Nodes, Stop(n) PROVE StartupInv'
  <2>1. ListsTyped' /\ GenesisKept'
    BY <1>2 DEF Stop, StartupInv, ListsTyped, GenesisKept, vars
  <2>2. GenesisRead'
    BY <1>2 DEF Stop, GenesisRead, Workers, StartupInv
  <2>3. QED
    BY <2>1, <2>2 DEF StartupInv
<1>3. CASE ExtendChain
  <2>1. ListsTyped'
    BY <1>3 DEF ExtendChain, EndBlock, StartupInv, ListsTyped
  <2>2. GenesisKept'
    BY <1>3 DEF ExtendChain, StartupInv, ListsTyped, GenesisKept
  <2>3. GenesisRead'
    BY <1>3 DEF ExtendChain, nodeVars, StartupInv, GenesisRead, Workers
  <2>4. QED
    BY <2>1, <2>2, <2>3 DEF StartupInv
<1>4. CASE ExecuteBlock
  <2>1. ListsTyped'
    BY <1>4, BlockKeepsLists DEF ExecuteBlock, StartupInv
  <2>2. GenesisKept' /\ GenesisRead'
    BY <1>4 DEF ExecuteBlock, nodeVars, StartupInv, GenesisKept, GenesisRead, Workers
  <2>3. QED
    BY <2>1, <2>2 DEF StartupInv
<1>5. CASE UNCHANGED startupVars
  BY <1>5 DEF startupVars, vars, nodeVars, StartupInv, ListsTyped, GenesisKept,
              GenesisRead, Workers
<1>6. QED
  BY <1>1, <1>2, <1>3, <1>4, <1>5 DEF StartupNext

(* Every worker decides with the list that every node's LinkHalf holds: both *)
(* come from the state of the genesis block (start_hotstuff, block_import). *)
THEOREM AuthoritiesFixed == StartupSpec => []SameAuthorities
<1>1. StartupInv => SameAuthorities
  <2> SUFFICES ASSUME StartupInv, NEW m \in running, NEW n \in Workers
               PROVE  /\ Len(authority_set[m]) = Len(authority_list[n])
                      /\ \A i \in DOMAIN authority_list[n] :
                           authority_set[m][i].id = authority_list[n][i].id
    BY DEF SameAuthorities
  <2>1. /\ authority_set[m] = Weighted(GenesisAuthorities, 1)
        /\ authority_list[n] = Weighted(GenesisAuthorities, 0)
    BY DEF StartupInv, GenesisRead
  <2>2. QED
    BY <2>1, WeightedKeys, PalletAssumption
<1>2. QED
  BY <1>1, StartupInitially, StartupInductive, PTL DEF StartupSpec

(* At most one worker takes itself for the leader of a view: the leader is   *)
(* the same authority for all, and its key is in one keystore only           *)
(* (is_leader, local_authority_id). *)
THEOREM LeaderUnique == StartupSpec => []OneLeader
<1>1. StartupInv => OneLeader
  <2> SUFFICES ASSUME StartupInv, NEW m \in Workers, NEW n \in Workers,
                      NEW view \in Views,
                      IsLocalAuthority(m, LeaderOf(m, view)),
                      IsLocalAuthority(n, LeaderOf(n, view))
               PROVE  m = n
    BY DEF OneLeader
  <2>1. authority_list[m] = authority_list[n]
    BY DEF StartupInv, GenesisRead
  <2>2. LeaderOf(m, view) = LeaderOf(n, view)
    BY <2>1 DEF LeaderOf
  <2>3. /\ LeaderOf(m, view) \in Keystore[m]
        /\ LeaderOf(m, view) \in Keystore[n]
    BY <2>2 DEF IsLocalAuthority, OwnPositions
  <2>4. QED
    BY <2>3, StartupAssumption DEF Workers, StartupInv, GenesisRead
<1>2. QED
  BY <1>1, StartupInitially, StartupInductive, PTL DEF StartupSpec

(***************************************************************************)
(* The pallet beside the nodes.                                            *)
(***************************************************************************)
(* The chain of a running network is one of the pallet alone: nodes that    *)
(* start and stop only read it (AuthoritiesProvider). *)
THEOREM NodesOnlyRead == StartupSpec => Spec
<1>1. StartupInit => Init
  BY DEF StartupInit
<1>2. [StartupNext]_startupVars => [Next]_vars
  <2>1. \A n \in Nodes : Start(n) \/ Stop(n) => UNCHANGED vars
    BY DEF Start, Stop
  <2>2. ExtendChain \/ ExecuteBlock => Next
    BY DEF ExtendChain, ExecuteBlock, Next
  <2>3. UNCHANGED startupVars => UNCHANGED vars
    BY DEF startupVars
  <2> QED BY <2>1, <2>2, <2>3 DEF StartupNext
<1> QED BY <1>1, <1>2, PTL DEF StartupSpec, Spec

(* So all that holds of the pallet holds while nodes start and stop: the    *)
(* logs announce the authorities, slots ascend, and the block's author is   *)
(* known. *)
THEOREM PalletBesideNodes ==
  StartupSpec => [](TypeOK /\ AnnouncedAuthorities /\ SlotsAscend /\ AuthorKnown)
  BY NodesOnlyRead, PalletTypeCorrect, LogsAnnounceAuthorities, SlotsNeverFall,
     AuthorAlwaysKnown, PTL
=============================================================================
