--------------------------- MODULE HotstuffStartup ---------------------------
(***************************************************************************)
(* Nodes start and stop while the chain of HotstuffPallet grows and its     *)
(* sessions change the authorities: which authorities each node's worker    *)
(* works with, and which authority it takes itself to be.                   *)
(*                                                                         *)
(* Starting a node is new_partial and new_full of service.rs.  The first    *)
(* builds the authority set of LinkHalf with block_import; the second, on a *)
(* node with the authority role, calls start_hotstuff, which drops that set *)
(* and reads the authorities again for ConsensusState.                      *)
(***************************************************************************)
EXTENDS HotstuffPallet

CONSTANTS
  Nodes,        \* the nodes
  Validators,   \* nodes that have the authority role
  Keystore,     \* Keystore[n]: the authorities whose key node n holds
  Views         \* bound: the views whose leader is compared

ASSUME StartupAssumption ==
  /\ Validators \subseteq Nodes
  /\ Views \subseteq Nat
  /\ Keystore \in [Nodes -> SUBSET AuthorityId]
  /\ \A m, n \in Nodes : m # n => Keystore[m] \cap Keystore[n] = {}

VARIABLES
  chain,          \* the authorities in the state of each block, from genesis
  running,        \* nodes that run
  authority_set,  \* LinkHalf.persistent_data.authority_set.current_authorities
  authority_list  \* ConsensusState.authorities

nodeVars == <<running, authority_set, authority_list>>
startupVars == <<vars, chain, nodeVars>>

StartupInit ==
  /\ Init
  /\ chain = <<GenesisAuthorities>>
  /\ running = {}
  /\ authority_set = [n \in Nodes |-> <<>>]
  /\ authority_list = [n \in Nodes |-> <<>>]

(* Calling HotstuffApi_authorities in the state of a block. *)
AuthoritiesAt(number) == chain[number + 1]

(* An AuthorityList in which all have the same weight. *)
Weighted(keys, weight) ==
  [i \in DOMAIN keys |-> [id |-> keys[i], weight |-> weight]]

GetGenesisAuthorities == AuthoritiesAt(0)

InvalidAuthorityList(list) ==
  list = <<>> \/ \E i \in DOMAIN list : list[i].weight = 0

(* Mutant: the set of the best block. *)
BestSet == Weighted(AuthoritiesAt(Len(chain) - 1), 1)

(* The set that block_import hands to load_persistent. *)
GenesisSet == Weighted(AuthoritiesAt(0), 1)

(* load_persistent panics on an invalid genesis set. *)
LoadPersistent == ~InvalidAuthorityList(GenesisSet)

Start(n) ==
  /\ n \notin running
  /\ LoadPersistent
  /\ running' = running \cup {n}
  /\ authority_set' = [authority_set EXCEPT ![n] = GenesisSet]
  /\ authority_list' =
       IF n \in Validators
       THEN [authority_list EXCEPT ![n] = Weighted(GetGenesisAuthorities, 0)]
       ELSE authority_list
  /\ UNCHANGED <<vars, chain>>

(* A node stops, and nothing of this is kept. *)
Stop(n) ==
  /\ n \in running
  /\ running' = running \ {n}
  /\ authority_set' = [authority_set EXCEPT ![n] = <<>>]
  /\ authority_list' = [authority_list EXCEPT ![n] = <<>>]
  /\ UNCHANGED <<vars, chain>>

(* The chain grows by the block whose execution ends. *)
ExtendChain ==
  /\ EndBlock
  /\ chain' = Append(chain, authorities)
  /\ UNCHANGED nodeVars

ExecuteBlock ==
  /\ OnInitialize \/ OnNewSession \/ OnDisabled \/ SetTimestamp
  /\ UNCHANGED <<chain, nodeVars>>

StartupNext ==
  \/ \E n \in Nodes : Start(n)
  \/ \E n \in Nodes : Stop(n)
  \/ ExtendChain
  \/ ExecuteBlock

StartupSpec == StartupInit /\ [][StartupNext]_startupVars

(***************************************************************************)
(* Who a worker takes itself and the leader to be.                         *)
(***************************************************************************)
(* Mutant: all positions, whether the node holds the key or not. *)
AllPositions(n) == DOMAIN authority_list[n]

(* Positions of the authorities whose key is in the node's keystore. *)
OwnPositions(n) ==
  {i \in DOMAIN authority_list[n] : authority_list[n][i].id \in Keystore[n]}

(* local_authority_id: the first of them. *)
IsLocalAuthority(n, id) ==
  \E i \in OwnPositions(n) :
    /\ id = authority_list[n][i].id
    /\ \A j \in OwnPositions(n) : i <= j

(* view_leader. *)
LeaderOf(n, view) == authority_list[n][(view % Len(authority_list[n])) + 1].id

Workers == running \cap Validators

(***************************************************************************)
(* Properties.                                                             *)
(***************************************************************************)
(* All workers decide with one list of authorities, the keys of the set in  *)
(* every node's LinkHalf, whatever has become of the authorities on chain   *)
(* when each of them started (get_genesis_authorities_from_client,          *)
(* block_import). *)
SameAuthorities ==
  \A m \in running : \A n \in Workers :
    /\ Len(authority_set[m]) = Len(authority_list[n])
    /\ \A i \in DOMAIN authority_list[n] :
         authority_set[m][i].id = authority_list[n][i].id

(* In no view do two workers both take themselves for the leader            *)
(* (ConsensusState::is_leader), also when nodes have been started at        *)
(* different heights of a chain whose authorities change. *)
OneLeader ==
  \A m, n \in Workers : \A view \in Views :
    (/\ IsLocalAuthority(m, LeaderOf(m, view))
     /\ IsLocalAuthority(n, LeaderOf(n, view))) => m = n
=============================================================================
