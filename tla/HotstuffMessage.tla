--------------------------- MODULE HotstuffMessage ---------------------------
(***************************************************************************)
(* The messages of the HotStuff finality gadget (message.rs): quorum        *)
(* certificates, proposals, votes, timeouts and timeout certificates, and   *)
(* the checks a replica makes before it acts on one.                        *)
(*                                                                         *)
(* Hashes.  Proposal::digest covers the author, the payload, the view and   *)
(* the hash of the parent proposal, so with a collision-free hash a digest  *)
(* determines the whole chain of proposals below it.  A proposal hash is    *)
(* therefore that chain: the sequence of its proposals, oldest first, and   *)
(* <<>> is the default hash carried by the default QC.                      *)
(*                                                                         *)
(* Signatures.  Keys are not forged: a vote signature verifies exactly when *)
(* the voter has signed that (hash, view).  Proposals and timeouts are      *)
(* built and signed in one step by their sender, so their own signature     *)
(* always verifies; what a timeout signature covers is kept, because TC     *)
(* verification recomputes it.                                              *)
(***************************************************************************)
EXTENDS Integers, FiniteSets, Sequences, HotstuffChain

CONSTANTS
  N,            \* number of authorities (authorities.len())
  Blocks,       \* Substrate blocks, the genesis block included
  Genesis,      \* the Substrate genesis block
  Ancestors,    \* Ancestors[b]: the strict ancestors of block b
  EmptyHash,    \* the hash of EMPTY_PAYLOAD, not a block
  None          \* Option::None

ASSUME AuthoritiesAssumption == N \in Nat /\ N >= 2

ASSUME BlocksAssumption ==
  /\ IsFiniteSet(Blocks)
  /\ Genesis \in Blocks
  /\ EmptyHash \notin Blocks
  /\ Ancestors \in [Blocks -> SUBSET Blocks]

ASSUME AncestorsAssumption ==
  \A b \in Blocks : \A a \in Ancestors[b] : Ancestors[a] \subseteq Ancestors[b]

(* Authorities are numbered by their position in the authority list. *)
Authorities == 0 .. (N - 1)

(* The height of a block: genesis is block 0. *)
BlockNumber(b) == Cardinality(Ancestors[b])

(***************************************************************************)
(* Data types.                                                             *)
(***************************************************************************)
Payload == [block_hash : Blocks \cup {EmptyHash}, block_number : Nat]

ProposalHash == Seq([author : Authorities, payload : Payload, view : Nat])

QC == [proposal_hash : ProposalHash, view : Nat, votes : SUBSET Authorities]

DefaultQC == [proposal_hash |-> <<>>, view |-> 0, votes |-> {}]

(* The TC inside a proposal is never verified and only its view is read, so *)
(* that view stands for it.                                                 *)
Proposal == [type : {"Propose"}, qc : QC, tc : Nat \cup {None},
             payload : Payload, view : Nat, author : Authorities]

Vote == [type : {"Vote"}, proposal_hash : ProposalHash, view : Nat,
         voter : Authorities]

Timeout == [type : {"Timeout"}, high_qc : QC, view : Nat, voter : Authorities]

(* One vote of a TC: who signed, what the signature covers, and the view    *)
(* number recorded beside it.                                               *)
TimeoutVote == [voter : Authorities, signature : Nat \X Nat, view : Nat]

TC == [type : {"TC"}, view : Nat, votes : SUBSET TimeoutVote]

ConsensusMessage == Proposal \cup Vote \cup Timeout \cup TC

(***************************************************************************)
(* Digests.                                                                *)
(***************************************************************************)
ProposalDigest(p) ==
  Append(p.qc.proposal_hash,
         [author |-> p.author, payload |-> p.payload, view |-> p.view])

TimeoutDigest(v, qcView) == <<v, qcView>>

(***************************************************************************)
(* Verification.  sigs is the set of votes that have been signed.           *)
(***************************************************************************)
(* Mutant: two thirds are enough. *)
AtLeastTwoThirds(k) == k >= (N * 2) \div 3

MoreThanTwoThirds(k) == k > (N * 2) \div 3

QCVerify(qc, sigs) ==
  /\ MoreThanTwoThirds(Cardinality(qc.votes))
  /\ \A a \in qc.votes :
       [type |-> "Vote", proposal_hash |-> qc.proposal_hash,
        view |-> qc.view, voter |-> a] \in sigs

(* A QC equal to the default one (same hash and view) is not verified. *)
QCAccepted(qc, sigs) ==
  \/ qc.proposal_hash = <<>> /\ qc.view = 0
  \/ QCVerify(qc, sigs)

ProposalVerify(p, sigs) == p.author \in Authorities /\ QCAccepted(p.qc, sigs)

VoteVerify(vote, sigs) == vote.voter \in Authorities /\ vote \in sigs

TimeoutVerify(t, sigs) == t.voter \in Authorities /\ QCAccepted(t.high_qc, sigs)

TCVerify(tc) ==
  /\ \A e, f \in tc.votes : e.voter = f.voter => e = f
  /\ MoreThanTwoThirds(Cardinality(tc.votes))
  /\ \A e \in tc.votes : e.signature = TimeoutDigest(tc.view, e.view)
=============================================================================
