---------------------------- MODULE HotstuffChain ----------------------------
(***************************************************************************)
(* A proposal hash is the chain of proposals it stands on, oldest first     *)
(* (see HotstuffMessage).  These are the two ways of reading one.  They are *)
(* the operators of SequencesExt with the same names; only these two are    *)
(* needed, and a proof that carries all of that module takes twice the time.*)
(***************************************************************************)
EXTENDS Integers, Sequences

(* The proposal that a hash is the hash of. *)
Last(h) == h[Len(h)]

(* Proposal::parent_hash of that proposal. *)
Front(h) == SubSeq(h, 1, Len(h) - 1)
=============================================================================
