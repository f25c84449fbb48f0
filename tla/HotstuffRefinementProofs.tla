----------------------- MODULE HotstuffRefinementProofs -----------------------
(***************************************************************************)
(* The proof that HotstuffConsensus implements HotstuffFinality.  The       *)
(* refinement mapping is the identity on the votes, the finalized blocks    *)
(* and the restarts, so what is left to show is that every step, seen       *)
(* through these three, is a step of the abstract system or a stutter.      *)
(* The facts about a handler's whole step come from HotstuffFinalityProofs. *)
(***************************************************************************)
EXTENDS HotstuffFinalityProofs, HotstuffRefinement

(* The abstract system finalizes by the same two-chain rule. *)
LEMMA SameTwoChain ==
  ASSUME NEW b, NEW sigs, TwoChain(b, sigs)
  PROVE  Finality!Finalizes(b, sigs)
<1>1. \A h : Finality!Last(h) = Last(h) /\ Finality!Front(h) = Front(h)
  BY DEF Finality!Last, Finality!Front, Last, Front
<1>2. \A h : Cert(h, sigs) => Finality!Certificate(h, sigs)
  BY <1>1 DEF Cert, Finality!Certificate
<1> QED BY <1>1, <1>2 DEF TwoChain, Finality!Finalizes

(* A handler's votes are votes the abstract node may sign: VotesCovered     *)
(* puts all its earlier votes below the new ones. *)
LEMMA HandlerSigns ==
  ASSUME FInv, NEW n \in Nodes, Handles(n)
  PROVE  Finality!Sign(n)
<1>1. PICK w \in WorkerState : SafeStep(n, Worker(n), w) /\ Commit(n, w)
  BY DEF Handles
<1>2. signed' = w.signed
  BY <1>1 DEF Commit
<1>3. /\ signed \subseteq w.signed /\ w.signed \subseteq Vote
      /\ \A s \in w.signed \ signed :
           s.voter = n /\ last_voted_view[n] < s.view
      /\ \A s, t \in w.signed \ signed : s.view = t.view => s = t
      /\ \A s \in w.signed : VoteNamesView(s)
  BY <1>1 DEF SafeStep, Step, SignStep, FinalStep, Sound, Worker, WorkerState
<1>4. \A h : Finality!Last(h) = Last(h)
  BY DEF Finality!Last, Last
<1>5. ASSUME NEW s \in w.signed \ signed, n \notin restarted,
             NEW t \in signed, t.voter = n
      PROVE  t.view < s.view
  <2>1. t.view <= last_voted_view[n]
    BY <1>5 DEF FInv, IInv, VotesCovered
  <2>2. last_voted_view[n] < s.view
    BY <1>3
  <2>3. t.view \in Nat /\ s.view \in Nat /\ last_voted_view[n] \in Nat
    BY <1>3 DEF FInv, IInv, TypeOK, Vote
  <2> QED BY <2>1, <2>2, <2>3
<1>6. ASSUME NEW s \in signed' \ signed
      PROVE  /\ s \in Vote /\ s.voter = n
             /\ s.proposal_hash # <<>> /\ s.view = Finality!Last(s.proposal_hash).view
             /\ n \notin restarted => \A t \in signed : t.voter = n => t.view < s.view
  BY <1>2, <1>3, <1>4, <1>5, <1>6 DEF VoteNamesView
<1>7. /\ signed \subseteq signed'
      /\ \A s, t \in signed' \ signed : s.view = t.view => s = t
  BY <1>2, <1>3
<1> QED BY <1>6, <1>7 DEF Finality!Sign

(* A handler finalizes as the abstract node may. *)
LEMMA HandlerFinalizes ==
  ASSUME FInv, NEW n \in Nodes, Handles(n)
  PROVE  Finality!Finalize(n)
<1>1. PICK w \in WorkerState : SafeStep(n, Worker(n), w) /\ Commit(n, w)
  BY DEF Handles
<1>2. signed' = w.signed /\ finalized' = [finalized EXCEPT ![n] = w.finalized]
  BY <1>1 DEF Commit
<1>3. w.finalized \in Blocks /\ finalized \in [Nodes -> Blocks]
  BY DEF FInv, IInv, TypeOK, WorkerState
<1>4. \/ w.finalized = finalized[n]
      \/ finalized[n] \in Ancestors[w.finalized] /\ TwoChain(w.finalized, w.signed)
  BY <1>1 DEF SafeStep, FinalStep, Worker
<1>5. CASE w.finalized = finalized[n]
  BY <1>2, <1>3, <1>5 DEF Finality!Finalize
<1>6. CASE finalized[n] \in Ancestors[w.finalized] /\ TwoChain(w.finalized, w.signed)
  <2>1. Finality!Finalizes(w.finalized, signed')
    BY <1>2, <1>6, SameTwoChain
  <2> QED BY <1>2, <1>3, <1>6, <2>1 DEF Finality!Finalize
<1> QED BY <1>4, <1>5, <1>6

(* Every step is a step of the abstract system or leaves it unchanged. *)
LEMMA StepSimulation ==
  ASSUME FInv, [Next]_vars
  PROVE  [Finality!Next]_(Finality!finalityVars)
<1>1. ASSUME NEW n \in Nodes, Handles(n) PROVE Finality!Next
  <2>1. UNCHANGED restarted
    BY <1>1 DEF Handles, Commit
  <2>2. Finality!Act(n)
    BY <1>1, <2>1, HandlerSigns, HandlerFinalizes DEF Finality!Act
  <2> QED BY <2>2 DEF Finality!Next
<1>2. ASSUME NEW n \in Nodes, Restart(n) PROVE Finality!Next
  <2>1. Finality!Restart(n)
    BY <1>2 DEF Restart, clientVars, Finality!Restart
  <2> QED BY <2>1 DEF Finality!Next
<1>3. ASSUME NEW n \in Nodes, NEW b \in Blocks, ImportBlock(n, b)
      PROVE  UNCHANGED Finality!finalityVars
  BY <1>3 DEF ImportBlock, Finality!finalityVars
<1>4. ASSUME NEW n \in Nodes, PollPendingQueue(n)
      PROVE  UNCHANGED Finality!finalityVars
  BY <1>4 DEF PollPendingQueue, clientVars, Finality!finalityVars
<1>5. CASE UNCHANGED vars
  BY <1>5 DEF vars, clientVars, Finality!finalityVars
<1> QED BY <1>1, <1>2, <1>3, <1>4, <1>5, HandlersSafe DEF Next

(* The detailed system implements the abstract one: for every number of     *)
(* authorities and every order of deliveries, timers, imports and restarts, *)
(* the handlers of consensus.rs sign and finalize only as HotstuffFinality  *)
(* allows. *)
THEOREM Refinement == Spec => ImplementsFinality
<1>1. Init => Finality!Init
  BY DEF Init, Finality!Init
<1>2. FInv /\ [Next]_vars => [Finality!Next]_(Finality!finalityVars)
  BY StepSimulation
<1> QED
  BY <1>1, <1>2, FinalityInvariance, PTL DEF Spec, ImplementsFinality, Finality!Spec
=============================================================================
