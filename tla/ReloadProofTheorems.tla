------------------------- MODULE ReloadProofTheorems -------------------------
(* Theorems about ReloadProof: what a confirmed reload is worth, for every   *)
(* set of names, whichever of them sort before the proof file.               *)
EXTENDS ReloadProof, TLAPS

USE DEF vars, dirVars, agentVars, masterVars, readVars, servedVars

LEMMA EmptyIsTree == EmptyTree \in Tree
BY DEF EmptyTree, Tree

LEMMA PresentNames == \A tree \in Tree : Present(tree) \subseteq Fqdn
BY DEF Present

-----------------------------------------------------------------------------
(* Types.                                                                    *)

LEMMA ProofInitType == Init => TypeOK
BY EmptyIsTree DEF Init, TypeOK, MaybeNonce, Phase

LEMMA AgentType == TypeOK /\ Agent => TypeOK'
<1> SUFFICES ASSUME TypeOK, Agent PROVE TypeOK'
  OBVIOUS
<1>1. ASSUME NEW tree \in Tree, Begin(tree) PROVE TypeOK'
  BY <1>1 DEF Begin, TypeOK, Phase
<1>2. ASSUME NEW f \in Fqdn, Put(f) PROVE TypeOK'
  <2>1. Goal \in Tree
    BY DEF Goal, TypeOK
  <2>2. disk' \in Tree
    BY <1>2, <2>1 DEF Put, TypeOK, Tree
  <2> QED
    BY <1>2, <2>2 DEF Put, TypeOK
<1>3. CASE Swapped
  BY <1>3 DEF Swapped, TypeOK, Phase
<1>4. CASE PrepareProof
  BY <1>4 DEF PrepareProof, FreshNonce, MaybeNonce, TypeOK, Phase
<1>5. CASE TestPassed
  BY <1>5 DEF TestPassed, TypeOK, Phase
<1>6. CASE TestFailed
  BY <1>6 DEF TestFailed, Fail, MaybeNonce, TypeOK, Phase
<1>7. CASE Signalled
  BY <1>7 DEF Signalled, TypeOK, Phase
<1>8. CASE SignalFailed
  BY <1>8 DEF SignalFailed, Fail, TypeOK, Phase
<1>9. CASE Confirmed
  BY <1>9 DEF Confirmed, TypeOK, Phase
<1>10. CASE TimedOut
  BY <1>10 DEF TimedOut, Fail, TypeOK, Phase
<1>11. CASE Restored
  BY <1>11 DEF Restored, TypeOK, Phase
<1>12. CASE Answered
  BY <1>12 DEF Answered, TypeOK, Phase
<1>13. CASE CrashRestart
  BY <1>13 DEF CrashRestart, MaybeNonce, TypeOK, Phase
<1> QED
  BY <1>1, <1>2, <1>3, <1>4, <1>5, <1>6, <1>7, <1>8, <1>9, <1>10, <1>11, <1>12,
     <1>13 DEF Agent

LEMMA MasterType == TypeOK /\ Master => TypeOK'
<1> SUFFICES ASSUME TypeOK, Master PROVE TypeOK'
  OBVIOUS
<1>1. CASE ForeignReload
  BY <1>1 DEF ForeignReload, TypeOK
<1>2. CASE MasterLists
  BY <1>2, EmptyIsTree, PresentNames DEF MasterLists, MaybeNonce, TypeOK
<1>3. CASE MasterOpensProof
  BY <1>3 DEF MasterOpensProof, TypeOK
<1>4. ASSUME NEW f \in Fqdn, MasterOpens(f) PROVE TypeOK'
  <2>1. loaded' \in Tree
    BY <1>4 DEF MasterOpens, TypeOK, Tree
  <2> QED
    BY <1>4, <2>1 DEF MasterOpens, TypeOK
<1>5. CASE MasterServes
  BY <1>5 DEF MasterServes, TypeOK
<1>6. CASE MasterRefuses
  BY <1>6 DEF MasterRefuses, TypeOK
<1> QED
  BY <1>1, <1>2, <1>3, <1>4, <1>5, <1>6 DEF Master

-----------------------------------------------------------------------------
(* The agent's half of the invariants.                                       *)

LEMMA AgentAwaits ==
    ASSUME TypeOK, AwaitedIsOnDisk, TestedIsAccepted, Agent
    PROVE  AwaitedIsOnDisk' /\ TestedIsAccepted'
<1>1. ASSUME NEW tree \in Tree, Begin(tree)
      PROVE  AwaitedIsOnDisk' /\ TestedIsAccepted'
  BY <1>1 DEF Begin, AwaitedIsOnDisk, TestedIsAccepted, Proving
<1>2. ASSUME NEW f \in Fqdn, Put(f)
      PROVE  AwaitedIsOnDisk' /\ TestedIsAccepted'
  BY <1>2 DEF Put, AwaitedIsOnDisk, TestedIsAccepted, Proving
<1>3. CASE Swapped
  BY <1>3 DEF Swapped, AwaitedIsOnDisk, TestedIsAccepted, Proving
<1>4. CASE PrepareProof
  BY <1>4 DEF PrepareProof, FreshNonce, AwaitedIsOnDisk, TestedIsAccepted, Proving
<1>5. CASE TestPassed
  BY <1>5 DEF TestPassed, PassesTest, Accepts, AwaitedIsOnDisk, TestedIsAccepted, Proving
<1>6. CASE TestFailed
  BY <1>6 DEF TestFailed, Fail, AwaitedIsOnDisk, TestedIsAccepted, Proving
<1>7. CASE Signalled
  BY <1>7 DEF Signalled, Accepts, AwaitedIsOnDisk, TestedIsAccepted, Proving
<1>8. CASE SignalFailed
  BY <1>8 DEF SignalFailed, Fail, AwaitedIsOnDisk, TestedIsAccepted, Proving
<1>9. CASE Confirmed
  BY <1>9 DEF Confirmed, Accepts, AwaitedIsOnDisk, TestedIsAccepted, Proving
<1>10. CASE TimedOut
  BY <1>10 DEF TimedOut, Fail, AwaitedIsOnDisk, TestedIsAccepted, Proving
<1>11. CASE Restored
  BY <1>11 DEF Restored, AwaitedIsOnDisk, TestedIsAccepted, Proving
<1>12. CASE Answered
  BY <1>12 DEF Answered, AwaitedIsOnDisk, TestedIsAccepted, Proving
<1>13. CASE CrashRestart
  BY <1>13 DEF CrashRestart, AwaitedIsOnDisk, TestedIsAccepted, Proving
<1> QED
  BY <1>1, <1>2, <1>3, <1>4, <1>5, <1>6, <1>7, <1>8, <1>9, <1>10, <1>11, <1>12,
     <1>13 DEF Agent

\* How the agent gets into, and stays in, the phases in which it proves.
LEMMA AgentProves ==
    ASSUME Agent, Proving'
    PROVE  /\ UNCHANGED <<disk, readVars, servedVars>>
           /\ \/ Proving /\ UNCHANGED proof
              \/ proof' \in FreshNonce
BY DEF Agent, Begin, Put, Swapped, PrepareProof, TestPassed, TestFailed, Fail,
       Signalled, SignalFailed, Confirmed, TimedOut, Restored, Answered,
       CrashRestart, Proving

LEMMA AgentReads ==
    ASSUME Agent PROVE UNCHANGED <<readVars, servedVars>>
BY DEF Agent, Begin, Put, Swapped, PrepareProof, TestPassed, TestFailed,
       Signalled, SignalFailed, Confirmed, TimedOut, Restored, Answered,
       CrashRestart

\* The master writes nothing the agent looks at but the running configuration.
LEMMA MasterLeaves ==
    ASSUME Master PROVE UNCHANGED <<dirVars, agentVars>>
BY DEF Master, ForeignReload, MasterLists, MasterOpensProof, MasterOpens,
       MasterServes, MasterRefuses

LEMMA MasterAwaits ==
    ASSUME AwaitedIsOnDisk, TestedIsAccepted, Master
    PROVE  AwaitedIsOnDisk' /\ TestedIsAccepted'
BY MasterLeaves DEF AwaitedIsOnDisk, TestedIsAccepted, Accepts, Proving

-----------------------------------------------------------------------------
(* The order of the reads.                                                   *)

LEMMA AgentInOrder ==
    ASSUME ReadInOrder, Agent PROVE ReadInOrder'
BY AgentReads DEF ReadInOrder

LEMMA MasterInOrder ==
    ASSUME TypeOK, ReadInOrder, Master PROVE ReadInOrder'
<1>1. CASE ForeignReload
  BY <1>1 DEF ForeignReload, ReadInOrder
<1>2. CASE MasterLists
  BY <1>2, PresentNames DEF MasterLists, ReadInOrder, EmptyTree, TypeOK
<1>3. CASE MasterOpensProof
  BY <1>3 DEF MasterOpensProof, ReadInOrder
<1>4. ASSUME NEW f \in Fqdn, MasterOpens(f) PROVE ReadInOrder'
  BY <1>4 DEF MasterOpens, InTurn, ReadInOrder, TypeOK, Tree
<1>5. CASE MasterServes
  BY <1>5 DEF MasterServes, ReadInOrder
<1>6. CASE MasterRefuses
  BY <1>6 DEF MasterRefuses, ReadInOrder
<1> QED
  BY <1>1, <1>2, <1>3, <1>4, <1>5, <1>6 DEF Master

-----------------------------------------------------------------------------
(* What the nonce says.                                                      *)

LEMMA AgentNonce ==
    ASSUME NonceMeansCurrent, Agent PROVE NonceMeansCurrent'
<1> SUFFICES ASSUME Proving' PROVE NonceMeansCurrent'
  BY DEF NonceMeansCurrent
<1>1. CASE Proving /\ UNCHANGED proof
  BY <1>1, AgentProves DEF NonceMeansCurrent, LateIsCurrent
<1>2. CASE proof' \in FreshNonce
  BY <1>2, AgentProves DEF NonceMeansCurrent, FreshNonce
<1> QED
  BY <1>1, <1>2, AgentProves

LEMMA MasterNonce ==
    ASSUME TypeOK, AwaitedIsOnDisk, ReadInOrder, NonceMeansCurrent, Master
    PROVE  NonceMeansCurrent'
<1> USE MasterLeaves
<1>1. CASE ForeignReload
  BY <1>1 DEF ForeignReload, NonceMeansCurrent, LateIsCurrent, Proving
<1>2. CASE MasterLists
  BY <1>2, ProofAssumption
  DEF MasterLists, NonceMeansCurrent, LateIsCurrent, Proving, AwaitedIsOnDisk
<1>3. CASE MasterOpensProof
  BY <1>3 DEF MasterOpensProof, NonceMeansCurrent, LateIsCurrent, ReadInOrder, Proving
<1>4. ASSUME NEW f \in Fqdn, MasterOpens(f) PROVE NonceMeansCurrent'
  BY <1>4 DEF MasterOpens, NonceMeansCurrent, LateIsCurrent, Proving, TypeOK, Tree
<1>5. CASE MasterServes
  BY <1>5 DEF MasterServes, NonceMeansCurrent, LateIsCurrent, Proving
<1>6. CASE MasterRefuses
  BY <1>6 DEF MasterRefuses, NonceMeansCurrent, LateIsCurrent, Proving
<1> QED
  BY <1>1, <1>2, <1>3, <1>4, <1>5, <1>6 DEF Master

LEMMA AgentStays ==
    ASSUME AwaitedIsOnDisk, NonceStays, Agent PROVE NonceStays'
<1> SUFFICES ASSUME Proving' PROVE NonceStays'
  BY DEF NonceStays
<1>1. CASE Proving /\ UNCHANGED proof
  <2>1. pc' = "confirmed" => pc = "confirmed" \/ servedProof = expected
    BY DEF Agent, Begin, Put, Swapped, PrepareProof, TestPassed, TestFailed, Fail,
           Signalled, SignalFailed, Confirmed, TimedOut, Restored, Answered, CrashRestart
  <2> QED
    BY <1>1, <2>1, AgentProves DEF NonceStays, AwaitedIsOnDisk
<1>2. CASE proof' \in FreshNonce
  <2>1. pc' # "confirmed"
    BY <1>2 DEF Agent, Begin, Put, Swapped, PrepareProof, TestPassed, TestFailed,
           Signalled, SignalFailed, Confirmed, TimedOut, Restored, Answered,
           CrashRestart, FreshNonce, Fail
  <2> QED
    BY <1>2, <2>1, AgentProves DEF NonceStays, FreshNonce
<1> QED
  BY <1>1, <1>2, AgentProves

LEMMA MasterStays ==
    ASSUME AwaitedIsOnDisk, NonceStays, Master PROVE NonceStays'
<1> USE MasterLeaves DEF NonceStays, Proving
<1>1. CASE ForeignReload
  BY <1>1 DEF ForeignReload
<1>2. CASE MasterLists
  BY <1>2, ProofAssumption DEF MasterLists, AwaitedIsOnDisk
<1>3. CASE MasterOpensProof
  BY <1>3 DEF MasterOpensProof
<1>4. ASSUME NEW f \in Fqdn, MasterOpens(f) PROVE NonceStays'
  BY <1>4 DEF MasterOpens
<1>5. CASE MasterServes
  BY <1>5 DEF MasterServes
<1>6. CASE MasterRefuses
  BY <1>6 DEF MasterRefuses
<1> QED
  BY <1>1, <1>2, <1>3, <1>4, <1>5, <1>6 DEF Master

-----------------------------------------------------------------------------
(* What becomes of the agent's signal.                                       *)

\* A load of exactly the directory, when complete, is the directory.
LEMMA CompleteLoad ==
    ASSUME TypeOK, LoadIsCurrent, listed = {} PROVE loaded = disk
BY DEF TypeOK, LoadIsCurrent, Tree

LEMMA AgentSignal ==
    ASSUME SignalIsHeeded, Agent PROVE SignalIsHeeded'
<1> SUFFICES ASSUME pc' \in {"await", "confirmed"} PROVE SignalIsHeeded'
  BY DEF SignalIsHeeded
<1>1. \/ hup'
      \/ pc \in {"await", "confirmed"} /\ UNCHANGED <<dirVars, masterVars>>
  BY DEF Agent, Begin, Put, Swapped, PrepareProof, TestPassed, TestFailed, Fail,
         Signalled, SignalFailed, Confirmed, TimedOut, Restored, Answered, CrashRestart
<1> QED
  BY <1>1 DEF SignalIsHeeded, LoadIsCurrent, Present

LEMMA MasterSignal ==
    ASSUME TypeOK, TestedIsAccepted, ReadInOrder, SignalIsHeeded, Master,
           "refuse" \notin Faults
    PROVE  SignalIsHeeded'
<1> SUFFICES ASSUME pc \in {"await", "confirmed"}
             PROVE  hup' \/ LoadIsCurrent' \/ (~reading' /\ served' = disk')
  BY MasterLeaves DEF SignalIsHeeded
<1>0. UNCHANGED disk /\ Accepts(disk)
  BY MasterLeaves DEF TestedIsAccepted
<1>1. CASE ForeignReload
  BY <1>1 DEF ForeignReload
<1>2. CASE MasterLists
  BY <1>0, <1>2 DEF MasterLists, LoadIsCurrent, Present, EmptyTree
<1>3. CASE MasterOpensProof
  BY <1>0, <1>3 DEF MasterOpensProof, SignalIsHeeded, LoadIsCurrent, Present
<1>4. ASSUME NEW f \in Fqdn, MasterOpens(f)
      PROVE  hup' \/ LoadIsCurrent' \/ (~reading' /\ served' = disk')
  BY <1>0, <1>4 DEF MasterOpens, SignalIsHeeded, LoadIsCurrent, Present, TypeOK, Tree
<1>5. CASE MasterServes
  BY <1>0, <1>5, CompleteLoad DEF MasterServes, SignalIsHeeded
<1>6. CASE MasterRefuses
  <2>1. ASSUME LoadIsCurrent PROVE FALSE
    <3>1. \A f \in listed : f \in Present(disk)
      BY <2>1 DEF LoadIsCurrent
    <3>2. Accepts(loaded)
      BY <1>0, <1>6, <2>1, ProofAssumption
      DEF Accepts, LoadIsCurrent, MasterRefuses, ReadInOrder
    <3> QED
      BY <1>6, <3>1, <3>2 DEF MasterRefuses
  <2> QED
    BY <1>6, <2>1 DEF MasterRefuses, SignalIsHeeded
<1> QED
  BY <1>1, <1>2, <1>3, <1>4, <1>5, <1>6 DEF Master

-----------------------------------------------------------------------------
LEMMA ProofInvInit == Init => ProofInv
BY ProofInitType
DEF Init, ProofInv, AwaitedIsOnDisk, TestedIsAccepted, ReadInOrder,
    NonceMeansCurrent, NonceStays, SignalIsHeeded, Proving

LEMMA ProofInvNext == ProofInv /\ [Next]_vars => ProofInv'
<1> SUFFICES ASSUME ProofInv, [Next]_vars PROVE ProofInv'
  OBVIOUS
<1> USE DEF ProofInv
<1>1. CASE Agent
  BY <1>1, AgentType, AgentAwaits, AgentInOrder, AgentNonce,
     AgentStays, AgentSignal
<1>2. CASE Master
  BY <1>2, MasterType, MasterAwaits, MasterInOrder, MasterNonce,
     MasterStays, MasterSignal
<1>3. CASE UNCHANGED vars
  BY <1>3 DEF TypeOK, AwaitedIsOnDisk, TestedIsAccepted, ReadInOrder,
              NonceMeansCurrent, NonceStays, SignalIsHeeded, Proving, LateIsCurrent,
              LoadIsCurrent, Accepts, Present
<1> QED
  BY <1>1, <1>2, <1>3 DEF Next

(* The phases of a proof, the master's read and the pending signal fit       *)
(* together in every reachable state, whoever else reloads nginx.            *)
THEOREM ProofInductive == Spec => []ProofInv
BY ProofInvInit, ProofInvNext, PTL DEF Spec

(* No outdated vhost is confirmed under a name that sorts after the proof    *)
(* file, although the master reads while the directory changes.              *)
THEOREM NothingOldProven == Spec => []NothingOldIsConfirmed
<1>1. ProofInv => NothingOldIsConfirmed
  <2> SUFFICES ASSUME ProofInv, pc = "confirmed"
               PROVE  \A f \in Fqdn \ Early : served[f] \in {disk[f], NoVhost}
    BY DEF NothingOldIsConfirmed
  <2> QED
    BY DEF ProofInv, NonceStays, NonceMeansCurrent, LateIsCurrent, Proving
<1> QED
  BY <1>1, ProofInductive, PTL

(* A confirmed directory is served or about to be: if the master loads what  *)
(* passed `nginx -t`, a proof that came too early does not stand alone.      *)
THEOREM ServedOrLoading ==
    ASSUME "refuse" \notin Faults
    PROVE  Spec => []ConfirmedIsServedOrLoading
<1>1. ProofInv => ConfirmedIsServedOrLoading
  BY DEF ProofInv, SignalIsHeeded, ConfirmedIsServedOrLoading
<1> QED
  BY <1>1, ProofInductive, PTL

-----------------------------------------------------------------------------
(* A master that reads while the directory rests.                            *)

LEMMA ApartInit == Init => ApartInv
BY ProofInitType DEF Init, ApartInv, AwaitedIsOnDisk, NonceStays, Proving

\* AwaitedIsOnDisk needs nothing of the tests.
LEMMA AgentAwaitsApart ==
    ASSUME AwaitedIsOnDisk, Agent PROVE AwaitedIsOnDisk'
<1> SUFFICES ASSUME Proving' PROVE expected' = proof' /\ proof' \in Nonce
  BY DEF AwaitedIsOnDisk
<1>1. \/ Proving /\ UNCHANGED <<proof, expected>>
      \/ proof' \in FreshNonce /\ expected' = proof'
  BY DEF Agent, Begin, Put, Swapped, PrepareProof, TestPassed, TestFailed, Fail,
         Signalled, SignalFailed, Confirmed, TimedOut, Restored, Answered,
         CrashRestart, Proving
<1> QED
  BY <1>1 DEF AwaitedIsOnDisk, FreshNonce

LEMMA AgentApart ==
    ASSUME ApartInv, Agent, Apart PROVE ApartInv'
<1> USE DEF ApartInv
<1>1. TypeOK' /\ AwaitedIsOnDisk' /\ NonceStays'
  BY AgentType, AgentAwaitsApart, AgentStays
<1>2. reading' => /\ LoadIsCurrent'
                  /\ loadedProof' = IF proofListed' THEN NoNonce ELSE proof'
  <2> SUFFICES ASSUME reading'
               PROVE  /\ LoadIsCurrent'
                      /\ loadedProof' = IF proofListed' THEN NoNonce ELSE proof'
    OBVIOUS
  <2>1. UNCHANGED readVars /\ UNCHANGED <<disk, proof>>
    BY AgentReads DEF Apart
  <2> QED
    BY <2>1 DEF LoadIsCurrent, Present
<1>3. Proving' /\ servedProof' = proof' => served' = disk'
  BY AgentProves DEF FreshNonce
<1> QED
  BY <1>1, <1>2, <1>3

LEMMA MasterApart ==
    ASSUME ApartInv, Master PROVE ApartInv'
<1> USE DEF ApartInv
<1>1. TypeOK' /\ AwaitedIsOnDisk' /\ NonceStays'
  BY MasterType, MasterLeaves, MasterStays DEF AwaitedIsOnDisk, Proving
<1> USE MasterLeaves DEF Proving
<1>2. CASE ForeignReload
  BY <1>1, <1>2 DEF ForeignReload, LoadIsCurrent, Present
<1>3. CASE MasterLists
  <2>1. LoadIsCurrent' /\ loadedProof' = IF proofListed' THEN NoNonce ELSE proof'
    BY <1>3 DEF MasterLists, LoadIsCurrent, Present, EmptyTree
  <2> QED
    BY <1>1, <1>3, <2>1 DEF MasterLists
<1>4. CASE MasterOpensProof
  BY <1>1, <1>4 DEF MasterOpensProof, LoadIsCurrent, Present
<1>5. ASSUME NEW f \in Fqdn, MasterOpens(f) PROVE ApartInv'
  <2>1. LoadIsCurrent'
    BY <1>5 DEF MasterOpens, LoadIsCurrent, Present, TypeOK, Tree
  <2> QED
    BY <1>1, <1>5, <2>1 DEF MasterOpens
<1>6. CASE MasterServes
  <2>1. served' = disk'
    BY <1>6, CompleteLoad DEF MasterServes
  <2> QED
    BY <1>1, <1>6, <2>1 DEF MasterServes
<1>7. CASE MasterRefuses
  BY <1>1, <1>7 DEF MasterRefuses
<1> QED
  BY <1>2, <1>3, <1>4, <1>5, <1>6, <1>7 DEF Master

(* A load that finds the directory at rest is current from its first read on. *)
THEOREM ApartInductive == ApartSpec => []ApartInv
<1>1. ApartInv /\ [Next /\ Apart]_vars => ApartInv'
  <2> SUFFICES ASSUME ApartInv, [Next /\ Apart]_vars PROVE ApartInv'
    OBVIOUS
  <2>1. CASE UNCHANGED vars
    BY <2>1 DEF ApartInv, TypeOK, AwaitedIsOnDisk, NonceStays, LoadIsCurrent,
                Proving, Present
  <2> QED
    BY <2>1, AgentApart, MasterApart DEF Next
<1> QED
  BY <1>1, ApartInit, PTL DEF ApartSpec

(* As long as the directory rests while the master reads it, the proof       *)
(* stands for the whole directory. The one-step read of Nginx is this case.  *)
THEOREM ProofStands == ApartSpec => []ConfirmedIsServed
<1>1. ApartInv => ConfirmedIsServed
  BY DEF ApartInv, NonceStays, ConfirmedIsServed, Proving
<1> QED
  BY <1>1, ApartInductive, PTL

=============================================================================
