---------------------------- MODULE ManagerProofs ----------------------------
(* Theorems about Manager, for every set of names, requests and faults.      *)
EXTENDS ManagerInvariant, TLAPS

USE DEF storeVars, certVars, nginxVars, localVars, flowVars, planVars, treeVars,
        settleVars

-----------------------------------------------------------------------------
(* Typing of the helpers.                                                    *)

LEMMA RenderedType ==
    ASSUME NEW r \in Route, NEW ready \in BOOLEAN
    PROVE  Rendered(r, ready) \in Vhost
BY DEF Rendered, Vhost, Kind, Route, IsPlatform

LEMMA ApplyFileType ==
    ASSUME NEW r \in Route
    PROVE  ApplyFile(r) \in File
BY RenderedType DEF ApplyFile, File, CertReady, IsPlatform

LEMMA PersistType ==
    ASSUME StoreTypeOK, NEW s \in StoreState, Persist(s)
    PROVE  StoreTypeOK'
BY DEF Persist, StoreTypeOK

LEMMA SetCertType ==
    ASSUME StoreTypeOK, NEW f \in Fqdn, NEW cert \in CertState, SetCert(f, cert)
    PROVE  StoreTypeOK'
<1>1. WithCert(store.entries[f], cert) \in Entry
  BY DEF StoreTypeOK, StoreState, Entries, Entry, WithCert
<1>2. [store EXCEPT !.entries[f] = WithCert(store.entries[f], cert)] \in StoreState
  BY <1>1 DEF StoreTypeOK, StoreState, Entries
<1> QED
  BY <1>2, PersistType DEF SetCert

LEMMA MergedType ==
    ASSUME NEW old \in Entries, NEW new \in Entries
    PROVE  Merged(old, new) \in Entries
BY DEF Entries, Merged, Tombstone, Entry, CertState

LEMMA EmptyTypes == NoEntries \in Entries /\ EmptyTree \in Tree
BY DEF NoEntries, NoEntry, Entries, Entry, CertState, EmptyTree, Tree, File

LEMMA EndUpgradeType ==
    ASSUME TypeOK, Upgrading, NEW cert \in CertState, EndUpgrade(cert)
    PROVE  /\ StoreTypeOK'
           /\ pc' \in Phase /\ failure' \in Failure /\ reply' \in Reply
           /\ upgrading' \in Route \cup {NoRoute}
<1>1. upgrading.fqdn \in Fqdn
  BY DEF TypeOK, Upgrading, Route
<1>2. StoreTypeOK'
  BY <1>1, SetCertType DEF EndUpgrade, TypeOK
<1> QED
  BY <1>2 DEF EndUpgrade, TypeOK, Phase, Failure

LEMMA EndFailureType ==
    ASSUME TypeOK, NEW doubt \in BOOLEAN, EndFailure(doubt)
    PROVE  /\ StoreTypeOK'
           /\ pc' \in Phase /\ failure' \in Failure /\ reply' \in Reply
           /\ upgrading' \in Route \cup {NoRoute}
<1>1. CASE Upgrading
  BY <1>1, EndUpgradeType DEF EndFailure, CertState
<1>2. CASE ~Upgrading
  BY <1>2 DEF EndFailure, TypeOK, StoreTypeOK, Phase, Reply
<1> QED
  BY <1>1, <1>2

LEMMA RejectType ==
    ASSUME NEW code \in {409, 422}, Reject(code)
    PROVE  pc' \in Phase /\ reply' \in Reply /\ failure' = failure
BY DEF Reject, NoReply, Reply, Phase

LEMMA RestoringType ==
    ASSUME TypeOK, NEW why \in Failure, Restoring(why)
    PROVE  /\ StoreTypeOK'
           /\ pc' \in Phase /\ failure' \in Failure /\ reply' \in Reply
           /\ upgrading' \in Route \cup {NoRoute}
BY DEF Restoring, TypeOK, StoreTypeOK, Phase, Failure

-----------------------------------------------------------------------------
(* Every step keeps the types.                                               *)

LEMMA InitType == Init => TypeOK
<1> SUFFICES ASSUME Init PROVE TypeOK
  OBVIOUS
<1>1. StoreTypeOK /\ CertTypeOK /\ NginxTypeOK
  BY EmptyTypes DEF Init, StoreInit, CertInit, NginxInit, StoreTypeOK, StoreState,
     CertTypeOK, NginxTypeOK, MaybeNonce
<1>2. job \in Job /\ reply \in Reply /\ pc \in Phase /\ failure \in Failure
  BY DEF Init, Idle, Job, NoJob, Reply, NoReply, Phase, Failure
<1>3. planned \in Entries /\ target \in Tree /\ backup \in Tree
  BY EmptyTypes DEF Init, Idle
<1> QED
  BY <1>1, <1>2, <1>3 DEF Init, Idle, TypeOK

LEMMA ReceiveType == TypeOK /\ Receive => TypeOK'
<1> SUFFICES ASSUME TypeOK, Receive PROVE TypeOK'
  OBVIOUS
<1>1. ASSUME NEW r \in ApplyRequests, ApplyRejected(r)
      PROVE  TypeOK'
  <2>1. r \in Route /\ <<r>> \in Seq(Route)
    BY RequestsAssumption
  <2>2. job' \in Job /\ pc' \in Phase /\ reply' \in Reply /\ failure' = failure
    BY <1>1, <2>1, RejectType DEF ApplyRejected, Job
  <2> QED
    BY <1>1, <2>2 DEF ApplyRejected, TypeOK, StoreTypeOK, CertTypeOK, NginxTypeOK
<1>2. ASSUME NEW r \in ApplyRequests, ApplyAccepted(r)
      PROVE  TypeOK'
  <2>1. r \in Route /\ <<r>> \in Seq(Route) /\ r.fqdn \in Fqdn /\ r.gen \in Nat
    BY RequestsAssumption DEF Route
  <2>2. job' \in Job /\ pc' \in Phase
    BY <1>2, <2>1 DEF ApplyAccepted, Job, Phase
  <2>3. target' \in Tree /\ backup' \in Tree
    BY <1>2, <2>1, ApplyFileType DEF ApplyAccepted, TypeOK, NginxTypeOK, Tree
  <2>4. planned' \in Entries
    BY <1>2, <2>1, EmptyTypes DEF ApplyAccepted, Entries, Entry, EntryOf, CertState
  <2>5. toPrune' \subseteq Fqdn
    BY <1>2, <2>1 DEF ApplyAccepted
  <2>6. toSettle' \in Seq(Route)
    <3>1. toSettle' = <<r>> \/ toSettle' = <<>>
      BY <1>2 DEF ApplyAccepted
    <3>2. <<>> \in Seq(Route)
      OBVIOUS
    <3> QED
      BY <3>1, <3>2, <2>1
  <2> QED
    BY <1>2, <2>2, <2>3, <2>4, <2>5, <2>6
    DEF ApplyAccepted, TypeOK, StoreTypeOK, CertTypeOK, NginxTypeOK
<1>3. ASSUME NEW routes \in Manifests, NEW snap \in Snapshots, SyncRejected(routes, snap)
      PROVE  TypeOK'
  <2>1. job' \in Job /\ pc' \in Phase /\ reply' \in Reply /\ failure' = failure
    BY <1>3, RequestsAssumption, RejectType DEF SyncRejected, Job
  <2> QED
    BY <1>3, <2>1 DEF SyncRejected, TypeOK, StoreTypeOK, CertTypeOK, NginxTypeOK
<1>4. ASSUME NEW routes \in Manifests, NEW snap \in Snapshots, SyncAccepted(routes, snap)
      PROVE  TypeOK'
  <2>1. job' \in Job /\ pc' \in Phase /\ idx' \in Nat \ {0}
    BY <1>4, RequestsAssumption DEF SyncAccepted, FromTheStart, Job, Phase
  <2> QED
    BY <1>4, <2>1 DEF SyncAccepted, FromTheStart, TypeOK, StoreTypeOK, CertTypeOK, NginxTypeOK
<1> QED
  BY <1>1, <1>2, <1>3, <1>4 DEF Receive


\* What no step of a plan, a swap or a reload touches.
LEMMA StutterType ==
    ASSUME TypeOK, UNCHANGED <<storeVars, certVars>>
    PROVE  StoreTypeOK' /\ CertTypeOK'
BY DEF TypeOK, StoreTypeOK, CertTypeOK

LEMMA PlanType ==
    ASSUME TypeOK,
           PlanOmitted \/ PlanRejected \/ PlanKept \/ PlanRendered \/ PlanDone
    PROVE  TypeOK'
<1>1. CASE PlanOmitted
  BY <1>1 DEF PlanOmitted, NextEntry, TypeOK, StoreTypeOK, CertTypeOK, NginxTypeOK
<1>2. CASE PlanRejected
  BY <1>2, RejectType DEF PlanRejected, TypeOK, StoreTypeOK, CertTypeOK, NginxTypeOK
<1>3. CASE PlanDone
  BY <1>3 DEF PlanDone, TypeOK, StoreTypeOK, CertTypeOK, NginxTypeOK, Phase
<1> DEFINE r == job.routes[idx]
<1>4. ASSUME Planning PROVE r \in Route /\ r.fqdn \in Fqdn /\ r.gen \in Nat
  <2>1. job.routes \in Seq(Route) /\ idx \in 1 .. Len(job.routes)
    BY <1>4 DEF Planning, TypeOK, Job
  <2>2. r \in Route
    BY <2>1
  <2> QED
    BY <2>2 DEF Route
<1>5. CASE PlanKept
  <2>1. r \in Route /\ r.fqdn \in Fqdn
    BY <1>4, <1>5 DEF PlanKept
  <2>2. store.entries[r.fqdn] \in Entry /\ backup[r.fqdn] \in File /\ NoFile \in File
    BY <2>1 DEF TypeOK, StoreTypeOK, StoreState, Entries, Tree, File
  <2>3. target' \in Tree
    BY <1>5, <2>1, <2>2 DEF PlanKept, TypeOK, Tree
  <2>4. planned' \in Entries
    BY <1>5, <2>1, <2>2 DEF PlanKept, KeptEntry, TypeOK, Entries, Entry, Exists
  <2> QED
    BY <1>5, <2>1, <2>3, <2>4
    DEF PlanKept, NextEntry, TypeOK, StoreTypeOK, CertTypeOK, NginxTypeOK
<1>6. CASE PlanRendered
  <2>1. r \in Route /\ r.fqdn \in Fqdn /\ r.gen \in Nat
    BY <1>4, <1>6 DEF PlanRendered
  <2>2. Rendered(r, CertReady(r)) \in File
    BY <2>1, RenderedType DEF CertReady, IsPlatform, File
  <2>3. target' \in Tree
    BY <1>6, <2>1, <2>2 DEF PlanRendered, TypeOK, Tree
  <2>4. EntryOf(r.gen, TRUE, SyncCert(r)) \in Entry
    BY <2>1 DEF EntryOf, SyncCert, Entry, CertState, CertReady, IsPlatform
  <2>5. planned' \in Entries
    BY <1>6, <2>1, <2>4 DEF PlanRendered, TypeOK, Entries
  <2>6. toSettle' \in Seq(Route)
    BY <1>6, <2>1 DEF PlanRendered, TypeOK
  <2> QED
    BY <1>6, <2>3, <2>5, <2>6
    DEF PlanRendered, NextEntry, TypeOK, StoreTypeOK, CertTypeOK, NginxTypeOK
<1> QED
  BY <1>1, <1>2, <1>3, <1>5, <1>6

LEMMA SwapType ==
    ASSUME TypeOK,
           \/ \E f \in Fqdn : SwapFile(f) \/ RestoreFile(f)
           \/ SwapDone \/ ApplySwapFails \/ SyncSwapFails \/ UpgradeSwapFails
           \/ Restored \/ RestoreFailed
    PROVE  TypeOK'
<1>1. ASSUME NEW f \in Fqdn, SwapFile(f) \/ RestoreFile(f) PROVE TypeOK'
  <2>1. disk' \in Tree
    BY <1>1 DEF SwapFile, RestoreFile, PutFile, TypeOK, NginxTypeOK, Tree
  <2> QED
    BY <1>1, <2>1 DEF SwapFile, RestoreFile, PutFile, TypeOK, StoreTypeOK, CertTypeOK,
       NginxTypeOK
<1>2. CASE SwapDone
  BY <1>2 DEF SwapDone, TypeOK, StoreTypeOK, CertTypeOK, NginxTypeOK, Phase
<1>3. CASE ApplySwapFails
  BY <1>3, RejectType DEF ApplySwapFails, TypeOK, StoreTypeOK, CertTypeOK, NginxTypeOK
<1>4. CASE SyncSwapFails
  BY <1>4 DEF SyncSwapFails, TypeOK, StoreTypeOK, CertTypeOK, NginxTypeOK, Phase, Failure
<1>5. CASE UpgradeSwapFails
  <2>1. "FAILED" \in CertState
    BY DEF CertState
  <2> QED
    BY <1>5, <2>1, EndUpgradeType DEF UpgradeSwapFails, TypeOK, CertTypeOK, NginxTypeOK
<1>6. CASE RestoreFailed
  BY <1>6, EndFailureType DEF RestoreFailed, TypeOK, CertTypeOK, NginxTypeOK
<1>7. CASE Restored /\ Recovering
  BY <1>7 DEF Restored, TypeOK, StoreTypeOK, CertTypeOK, NginxTypeOK, Phase
<1>8. CASE Restored /\ ~Recovering
  BY <1>8, EndFailureType DEF Restored, TypeOK, CertTypeOK, NginxTypeOK
<1> QED
  BY <1>1, <1>2, <1>3, <1>4, <1>5, <1>6, <1>7, <1>8

LEMMA ReloadType ==
    ASSUME TypeOK,
           \/ TestPassed \/ TestFailed \/ Signalled \/ SignalFailed
           \/ ProofTimeout \/ Confirmed \/ RecoveryConfirmed
    PROVE  TypeOK'
<1>1. CASE TestPassed
  BY <1>1 DEF TestPassed, TestSucceeds, FreshNonce, TypeOK, StoreTypeOK, CertTypeOK,
     NginxTypeOK, MaybeNonce, Phase
<1>2. CASE Signalled
  BY <1>2 DEF Signalled, SignalSucceeds, TypeOK, StoreTypeOK, CertTypeOK, NginxTypeOK,
     Phase
<1>3. CASE Confirmed
  BY <1>3 DEF Confirmed, TypeOK, StoreTypeOK, CertTypeOK, NginxTypeOK, Phase
<1>4. CASE RecoveryConfirmed
  BY <1>4, EndFailureType DEF RecoveryConfirmed, TypeOK, CertTypeOK, NginxTypeOK
<1> DEFINE FlowOK == /\ StoreTypeOK'
                     /\ pc' \in Phase /\ failure' \in Failure /\ reply' \in Reply
                     /\ upgrading' \in Route \cup {NoRoute}
<1>5. CASE TestFailed
  <2>1. FlowOK
    BY <1>5, EndFailureType, RestoringType DEF TestFailed, Failure
  <2> QED
    BY <1>5, <2>1 DEF TestFailed, TestFails, FreshNonce, TypeOK, CertTypeOK, NginxTypeOK,
       MaybeNonce
<1>6. ASSUME ReloadGivesUp PROVE FlowOK
  BY <1>6, EndFailureType, RestoringType DEF ReloadGivesUp, Failure
<1>7. CASE SignalFailed
  BY <1>7, <1>6 DEF SignalFailed, SignalFails, TypeOK, CertTypeOK, NginxTypeOK
<1>8. CASE ProofTimeout
  BY <1>8, <1>6 DEF ProofTimeout, TypeOK, CertTypeOK, NginxTypeOK
<1> QED
  BY <1>1, <1>2, <1>3, <1>4, <1>5, <1>7, <1>8


LEMMA HeadType ==
    ASSUME TypeOK, Settling
    PROVE  /\ Head(toSettle) \in Route
           /\ Head(toSettle).fqdn \in Fqdn
           /\ Tail(toSettle) \in Seq(Route)
<1>1. toSettle \in Seq(Route) /\ toSettle # <<>>
  BY DEF Settling, TypeOK
<1>2. Head(toSettle) \in Route /\ Tail(toSettle) \in Seq(Route)
  BY <1>1
<1> QED
  BY <1>2 DEF Route

LEMMA SettleType ==
    ASSUME TypeOK,
           \/ CommitApply \/ CommitSync \/ CommitUpgrade
           \/ \E f \in Fqdn : PruneCert(f)
           \/ PruneDone \/ SettleReady \/ EnsureFailed \/ Ensured \/ Settled
           \/ Respond
    PROVE  TypeOK'
<1>1. CASE CommitApply
  <2> DEFINE f == job.routes[1].fqdn
  <2>1. planned[f] \in Entry \/ f \notin Fqdn
    BY DEF TypeOK, Entries
  <2>2. [store EXCEPT !.entries[f] = planned[f]] \in StoreState
    BY <2>1 DEF TypeOK, StoreTypeOK, StoreState, Entries
  <2>3. StoreTypeOK'
    BY <1>1, <2>2, PersistType DEF CommitApply, Record, TypeOK
  <2> QED
    BY <1>1, <2>3 DEF CommitApply, TypeOK, CertTypeOK, NginxTypeOK, Phase
<1>2. CASE CommitSync
  <2>1. [entries |-> Merged(store.entries, planned), snap |-> job.snap] \in StoreState
    BY MergedType DEF TypeOK, StoreTypeOK, StoreState, Job
  <2>2. StoreTypeOK'
    BY <1>2, <2>1, PersistType DEF CommitSync, ReplaceAll, TypeOK
  <2> QED
    BY <1>2, <2>2 DEF CommitSync, TypeOK, CertTypeOK, NginxTypeOK, Phase
<1>3. CASE CommitUpgrade
  BY <1>3, EndUpgradeType DEF CommitUpgrade, TypeOK, CertTypeOK, NginxTypeOK, CertState
<1>4. ASSUME NEW f \in Fqdn, PruneCert(f) PROVE TypeOK'
  <2>1. StoreTypeOK'
    BY <1>4, SetCertType DEF PruneCert, TypeOK, StoreTypeOK, CertState
  <2>2. CertTypeOK'
    BY <1>4 DEF PruneCert, DeleteSucceeds, DeleteInterrupted, TypeOK, CertTypeOK
  <2> QED
    BY <1>4, <2>1, <2>2 DEF PruneCert, TypeOK, NginxTypeOK
<1>5. CASE PruneDone
  BY <1>5 DEF PruneDone, TypeOK, StoreTypeOK, CertTypeOK, NginxTypeOK, Phase
<1>6. CASE Settled
  BY <1>6 DEF Settled, TypeOK, StoreTypeOK, CertTypeOK, NginxTypeOK, Phase, Reply
<1>7. CASE Respond
  BY <1>7, EmptyTypes DEF Respond, Forgotten, TypeOK, StoreTypeOK, CertTypeOK,
     NginxTypeOK, Phase, Job, NoJob, Failure, Reply, NoReply
<1> DEFINE r == Head(toSettle)
<1>8. ASSUME Settling
      PROVE  r \in Route /\ r.fqdn \in Fqdn /\ Tail(toSettle) \in Seq(Route)
  BY <1>8, HeadType
<1>9. "OK" \in CertState /\ "FAILED" \in CertState
  BY DEF CertState
<1>10. CASE SettleReady
  BY <1>10, <1>8, <1>9, SetCertType DEF SettleReady, TypeOK, CertTypeOK, NginxTypeOK
<1>11. CASE EnsureFailed
  <2>1. StoreTypeOK'
    BY <1>11, <1>8, <1>9, SetCertType DEF EnsureFailed, TypeOK
  <2>2. CertTypeOK'
    BY <1>11, <1>8 DEF EnsureFailed, EnsureInterrupted, TypeOK, CertTypeOK
  <2> QED
    BY <1>11, <1>8, <2>1, <2>2 DEF EnsureFailed, TypeOK, NginxTypeOK
<1>12. CASE Ensured
  <2>1. r \in Route /\ r.fqdn \in Fqdn
    BY <1>12, <1>8 DEF Ensured
  <2>2. Rendered(r, TRUE) \in File /\ NoFile \in File
    BY <2>1, RenderedType DEF File
  <2>3. target' \in Tree /\ backup' \in Tree
    BY <1>12, <2>1, <2>2 DEF Ensured, ReadBack, TypeOK, NginxTypeOK, Tree
  <2>4. CertTypeOK'
    BY <1>12, <2>1 DEF Ensured, EnsureSucceeds, TypeOK, CertTypeOK
  <2> QED
    BY <1>12, <1>8, <2>1, <2>3, <2>4
    DEF Ensured, TypeOK, StoreTypeOK, NginxTypeOK, Phase
<1> QED
  BY <1>1, <1>2, <1>3, <1>4, <1>5, <1>6, <1>7, <1>10, <1>11, <1>12

LEMMA OutsideType ==
    ASSUME TypeOK, CrashRestart \/ Environment
    PROVE  TypeOK'
<1>1. CASE CrashRestart
  <2>1. CertTypeOK'
    <3>1. ASSUME NEW f \in Fqdn, DeleteInterrupted(f) PROVE CertTypeOK'
      BY <3>1 DEF DeleteInterrupted, TypeOK, CertTypeOK
    <3>2. ASSUME Settling, EnsureInterrupted(Head(toSettle).fqdn) PROVE CertTypeOK'
      <4>1. Head(toSettle).fqdn \in Fqdn
        BY <3>2, HeadType
      <4> QED
        BY <3>2, <4>1 DEF EnsureInterrupted, TypeOK, CertTypeOK
    <3>3. CASE UNCHANGED certVars
      BY <3>3 DEF TypeOK, CertTypeOK
    <3> QED
      BY <1>1, <3>1, <3>2, <3>3 DEF CrashRestart, InterruptedCertbot, TypeOK
  <2>2. StoreTypeOK' /\ NginxTypeOK'
    BY <1>1 DEF CrashRestart, Reload, ForgetProof, TypeOK, StoreTypeOK, NginxTypeOK,
       MaybeNonce
  <2> QED
    BY <1>1, <2>1, <2>2, EmptyTypes DEF CrashRestart, Forgotten, TypeOK, Phase, Job, NoJob,
       Failure, Reply, NoReply
<1>2. CASE Environment
  BY <1>2 DEF Environment, MasterLoads, MasterRefuses, ForeignReload, RemoveByHand,
     TypeOK, StoreTypeOK, CertTypeOK, NginxTypeOK
<1> QED
  BY <1>1, <1>2

LEMMA NextType == TypeOK /\ [Next]_vars => TypeOK'
<1>1. ASSUME TypeOK, UNCHANGED vars PROVE TypeOK'
  BY <1>1 DEF vars, TypeOK, StoreTypeOK, CertTypeOK, NginxTypeOK
<1>2. ASSUME TypeOK, Work PROVE TypeOK'
  BY <1>2, PlanType, SwapType, ReloadType, SettleType DEF Work
<1> QED
  BY <1>1, <1>2, ReceiveType, OutsideType DEF Next

(* Every variable of the manager, the store, certbot and nginx stays in the  *)
(* set its Go type and its use in the code give it.                          *)
THEOREM TypeCorrect == Spec => []TypeOK
BY InitType, NextType, PTL DEF Spec


-----------------------------------------------------------------------------
(* The phases: FlowInv needs no other part of the invariant.                 *)

LEMMA FlowReceive ==
    ASSUME TypeOK, FlowInv, Receive
    PROVE  FlowInv'
<1> USE DEF FlowInv, PhaseFits, CandidateIsOnDisk, Wanted, Recovering, Upgrading,
            ProofMeansServed, RollbackIsComplete
<1>1. ASSUME NEW r \in ApplyRequests, ApplyRejected(r) PROVE FlowInv'
  BY <1>1 DEF ApplyRejected, Reject
<1>2. ASSUME NEW r \in ApplyRequests, ApplyAccepted(r) PROVE FlowInv'
  BY <1>2 DEF ApplyAccepted
<1>3. ASSUME NEW routes \in Manifests, NEW snap \in Snapshots, SyncRejected(routes, snap)
      PROVE  FlowInv'
  BY <1>3 DEF SyncRejected, Reject
<1>4. ASSUME NEW routes \in Manifests, NEW snap \in Snapshots, SyncAccepted(routes, snap)
      PROVE  FlowInv'
  BY <1>4 DEF SyncAccepted
<1> QED
  BY <1>1, <1>2, <1>3, <1>4 DEF Receive

LEMMA FlowPlan ==
    ASSUME TypeOK, FlowInv,
           PlanOmitted \/ PlanRejected \/ PlanKept \/ PlanRendered \/ PlanDone
    PROVE  FlowInv'
<1> USE DEF FlowInv, PhaseFits, CandidateIsOnDisk, Wanted, Recovering, Upgrading,
            ProofMeansServed, RollbackIsComplete
<1>1. CASE PlanOmitted
  BY <1>1 DEF PlanOmitted, Planning, NextEntry
<1>2. CASE PlanRejected
  BY <1>2 DEF PlanRejected, Planning, Reject
<1>3. CASE PlanKept
  BY <1>3 DEF PlanKept, Planning, NextEntry
<1>4. CASE PlanRendered
  BY <1>4 DEF PlanRendered, Planning, NextEntry
<1>5. CASE PlanDone
  BY <1>5 DEF PlanDone
<1> QED
  BY <1>1, <1>2, <1>3, <1>4, <1>5

\* A failure sends the request to restore, to respond or back to its settling.
LEMMA FlowEndFailure ==
    ASSUME TypeOK, FlowInv, NEW doubt \in BOOLEAN, EndFailure(doubt),
           pc \in {"test", "reload", "await", "restore"},
           ~doubt /\ failure # "none" => disk = backup,
           ~doubt /\ failure = "ambiguous" => served = disk,
           served' = served, disk' = disk, UNCHANGED <<planVars, treeVars, toSettle>>
    PROVE  FlowInv'
BY DEF EndFailure, EndUpgrade, NoReply, FlowInv, PhaseFits, CandidateIsOnDisk, Wanted, Recovering,
   Upgrading, ProofMeansServed, RollbackIsComplete, TypeOK, Reply

LEMMA FlowRestoring ==
    ASSUME FlowInv, NEW why \in Failure, Restoring(why)
    PROVE  FlowInv'
BY DEF Restoring, FlowInv, PhaseFits, CandidateIsOnDisk, ProofMeansServed,
   RollbackIsComplete

LEMMA FlowSwap ==
    ASSUME TypeOK, FlowInv,
           \/ \E f \in Fqdn : SwapFile(f) \/ RestoreFile(f)
           \/ SwapDone \/ ApplySwapFails \/ SyncSwapFails \/ UpgradeSwapFails
           \/ Restored \/ RestoreFailed
    PROVE  FlowInv'
<1> USE DEF FlowInv, PhaseFits, CandidateIsOnDisk, Wanted, Recovering, Upgrading,
            ProofMeansServed, RollbackIsComplete
<1>1. ASSUME NEW f \in Fqdn, SwapFile(f) \/ RestoreFile(f) PROVE FlowInv'
  BY <1>1 DEF SwapFile, RestoreFile, PutFile
<1>2. CASE SwapDone
  BY <1>2 DEF SwapDone
<1>3. CASE ApplySwapFails
  BY <1>3 DEF ApplySwapFails, Reject
<1>4. CASE SyncSwapFails
  BY <1>4 DEF SyncSwapFails
<1>5. CASE UpgradeSwapFails
  BY <1>5 DEF UpgradeSwapFails, EndUpgrade
<1>6. CASE RestoreFailed
  BY <1>6, FlowEndFailure DEF RestoreFailed
<1>7. CASE Restored /\ Recovering
  BY <1>7 DEF Restored
<1>8. CASE Restored /\ ~Recovering
  BY <1>8, FlowEndFailure DEF Restored
<1> QED
  BY <1>1, <1>2, <1>3, <1>4, <1>5, <1>6, <1>7, <1>8

LEMMA FlowReload ==
    ASSUME TypeOK, FlowInv,
           \/ TestPassed \/ TestFailed \/ Signalled \/ SignalFailed
           \/ ProofTimeout \/ Confirmed \/ RecoveryConfirmed
    PROVE  FlowInv'
<1> USE DEF FlowInv, PhaseFits, CandidateIsOnDisk, Wanted, Recovering, Upgrading,
            ProofMeansServed, RollbackIsComplete
<1>1. CASE TestPassed
  BY <1>1 DEF TestPassed, TestSucceeds, FreshNonce
<1>2. CASE Signalled
  BY <1>2 DEF Signalled, SignalSucceeds
<1>3. CASE Confirmed
  BY <1>3 DEF Confirmed, ProofSeen
<1>4. CASE RecoveryConfirmed
  BY <1>4, FlowEndFailure DEF RecoveryConfirmed, ProofSeen
<1>5. CASE TestFailed
  BY <1>5, FlowEndFailure, FlowRestoring DEF TestFailed, TestFails, Failure
<1>6. CASE SignalFailed
  BY <1>6, FlowEndFailure, FlowRestoring DEF SignalFailed, SignalFails, ReloadGivesUp, Failure
<1>7. CASE ProofTimeout
  BY <1>7, FlowEndFailure, FlowRestoring DEF ProofTimeout, ReloadGivesUp, Failure
<1> QED
  BY <1>1, <1>2, <1>3, <1>4, <1>5, <1>6, <1>7

LEMMA FlowSettle ==
    ASSUME TypeOK, FlowInv,
           \/ CommitApply \/ CommitSync \/ CommitUpgrade
           \/ \E f \in Fqdn : PruneCert(f)
           \/ PruneDone \/ SettleReady \/ EnsureFailed \/ Ensured \/ Settled
           \/ Respond
    PROVE  FlowInv'
<1> USE DEF FlowInv, PhaseFits, CandidateIsOnDisk, Wanted, Recovering, Upgrading,
            ProofMeansServed, RollbackIsComplete
<1>1. CASE CommitApply
  BY <1>1 DEF CommitApply
<1>2. CASE CommitSync
  BY <1>2 DEF CommitSync
<1>3. CASE CommitUpgrade
  BY <1>3 DEF CommitUpgrade, EndUpgrade
<1>4. ASSUME NEW f \in Fqdn, PruneCert(f) PROVE FlowInv'
  BY <1>4 DEF PruneCert
<1>5. CASE PruneDone
  BY <1>5 DEF PruneDone
<1>6. CASE SettleReady
  BY <1>6 DEF SettleReady, Settling
<1>7. CASE EnsureFailed
  BY <1>7 DEF EnsureFailed, Settling
<1>8. CASE Ensured
  BY <1>8 DEF Ensured, ReadBack, Settling
<1>9. CASE Settled
  BY <1>9 DEF Settled
<1>10. CASE Respond
  BY <1>10 DEF Respond, Forgotten
<1> QED
  BY <1>1, <1>2, <1>3, <1>4, <1>5, <1>6, <1>7, <1>8, <1>9, <1>10

LEMMA FlowOutside ==
    ASSUME TypeOK, FlowInv, CrashRestart \/ Environment
    PROVE  FlowInv'
<1> USE DEF FlowInv, PhaseFits, CandidateIsOnDisk, Wanted, Recovering, Upgrading,
            ProofMeansServed, RollbackIsComplete
<1>1. CASE CrashRestart
  BY <1>1 DEF CrashRestart, Forgotten
<1>2. CASE Environment
  BY <1>2 DEF Environment, MasterLoads, MasterRefuses, ForeignReload, RemoveByHand
<1> QED
  BY <1>1, <1>2

LEMMA FlowNext == TypeOK /\ FlowInv /\ [Next]_vars => FlowInv'
<1>1. ASSUME FlowInv, UNCHANGED vars PROVE FlowInv'
  BY <1>1 DEF vars, FlowInv, PhaseFits, CandidateIsOnDisk, Wanted, Recovering, Upgrading,
     ProofMeansServed, RollbackIsComplete
<1>2. ASSUME TypeOK, FlowInv, Work PROVE FlowInv'
  BY <1>2, FlowPlan, FlowSwap, FlowReload, FlowSettle DEF Work
<1> QED
  BY <1>1, <1>2, FlowReceive, FlowOutside DEF Next


-----------------------------------------------------------------------------
(* The record, and what a request is about to tell it.                       *)

LEMMA RenderedGen ==
    ASSUME NEW r, NEW ready \in BOOLEAN
    PROVE  Rendered(r, ready).gen = r.gen /\ Exists(Rendered(r, ready))
BY DEF Rendered, Exists, IsPlatform

\* A record that only learns a name of generation zero outdates no tree.
LEMMA NotOlderKept ==
    ASSUME NEW tree \in Tree, NEW old \in Entries, NEW new \in Entries,
           \A f \in Fqdn : /\ new[f].gen = old[f].gen
                           /\ ~old[f].known => old[f].gen = 0,
           NotOlder(tree, old)
    PROVE  NotOlder(tree, new)
BY DEF NotOlder, Tree, File, Vhost, Exists, NoFile, Entries, Entry

LEMMA SetCertRecord ==
    ASSUME TypeOK, SavedIsBehind, UnknownIsZero, NEW f \in Fqdn, NEW cert \in CertState,
           SetCert(f, cert)
    PROVE  /\ SavedIsBehind' /\ UnknownIsZero' /\ StoreTypeOK'
           /\ store'.snap = store.snap
           /\ \A g \in Fqdn : /\ store'.entries[g].gen = store.entries[g].gen
                              /\ store.entries[g].known => store'.entries[g].known
<1> DEFINE e == WithCert(store.entries[f], cert)
<1>1. store \in StoreState /\ saved \in StoreState /\ store.entries[f] \in Entry
  BY DEF TypeOK, StoreTypeOK, StoreState, Entries
<1>2. e.known /\ e.gen = store.entries[f].gen
  BY <1>1 DEF WithCert, Entry
<1>3. store' = [store EXCEPT !.entries[f] = e] /\ saved' \in {saved, store'}
  BY DEF SetCert, Persist
<1>4. /\ store'.snap = store.snap
      /\ store'.entries = [store.entries EXCEPT ![f] = e]
  BY <1>1, <1>3 DEF StoreState
<1>5. \A g \in Fqdn : /\ store'.entries[g].gen = store.entries[g].gen
                      /\ store.entries[g].known => store'.entries[g].known
                      /\ store'.entries[g].known \/ store'.entries[g] = store.entries[g]
  BY <1>1, <1>2, <1>4 DEF StoreState, Entries
<1>6. UnknownIsZero'
  BY <1>3, <1>5 DEF UnknownIsZero
<1>7. SavedIsBehind'
  BY <1>1, <1>3, <1>4, <1>5 DEF SavedIsBehind, Behind, StoreState, Entries, Entry
<1>8. StoreTypeOK'
  BY SetCertType DEF TypeOK
<1> QED
  BY <1>4, <1>5, <1>6, <1>7, <1>8

LEMMA PlanReceive ==
    ASSUME IInv, Receive
    PROVE  RecordInv' /\ PlanInv'
<1> USE DEF IInv, RecordInv, PlanInv, SavedIsBehind, UnknownIsZero,
            NeverServesOlderThanRecorded
<1>1. ASSUME NEW r \in ApplyRequests, ApplyRejected(r) PROVE RecordInv' /\ PlanInv'
  <2>1. pc' = "respond" /\ toSettle = <<>> /\ toSettle' = <<>>
    BY <1>1 DEF ApplyRejected, Reject, FlowInv, PhaseFits
  <2> QED
    BY <1>1, <2>1 DEF ApplyRejected, TreesFit, PlannedFits, SnapshotFits, SettleFits, Pending
<1>2. ASSUME NEW r \in ApplyRequests, ApplyAccepted(r) PROVE RecordInv' /\ PlanInv'
  <2>1. r \in Route /\ r.fqdn \in Fqdn /\ r.gen \in Nat
    BY RequestsAssumption DEF Route
  <2>2. store \in StoreState /\ store.entries[r.fqdn].gen \in Nat /\ disk \in Tree
    BY <2>1 DEF TypeOK, StoreTypeOK, NginxTypeOK, StoreState, Entries, Entry
  <2>3. store.entries[r.fqdn].known => r.gen > store.entries[r.fqdn].gen
    <3>1. ~Superseded(r.fqdn, r.gen)
      BY <1>2 DEF ApplyAccepted
    <3> QED
      BY <3>1, <2>1, <2>2 DEF Superseded
  <2>4. Exists(ApplyFile(r)) => ApplyFile(r).gen = r.gen
    BY RenderedGen DEF ApplyFile, Exists, NoFile, CertReady, IsPlatform
  <2>5. target'[r.fqdn] = ApplyFile(r) /\ \A f \in Fqdn \ {r.fqdn} : target'[f] = disk[f]
    BY <1>2, <2>1, <2>2 DEF ApplyAccepted, Tree
  <2>6. /\ planned'[r.fqdn].known /\ planned'[r.fqdn].gen = r.gen
        /\ \A f \in Fqdn \ {r.fqdn} : ~planned'[f].known
    BY <1>2, <2>1 DEF ApplyAccepted, NoEntries, NoEntry, EntryOf
  <2>7. pc' = "swap" /\ ~Upgrading' /\ job'.kind = "apply" /\ job'.routes[1] = r
        /\ UNCHANGED <<store, saved, disk, served>> /\ backup' = disk
    BY <1>2 DEF ApplyAccepted, FlowInv, PhaseFits, Upgrading
  <2>8. TreesFit'
    <3>1. NotOlder(disk, store.entries)
      OBVIOUS
    <3>2. ASSUME NEW f \in Fqdn, Exists(target'[f]), store.entries[f].known
          PROVE  target'[f].gen >= store.entries[f].gen
      <4>1. CASE f = r.fqdn
        BY <3>2, <4>1, <2>1, <2>2, <2>3, <2>4, <2>5
      <4>2. CASE f # r.fqdn
        BY <3>1, <3>2, <4>2, <2>5 DEF NotOlder
      <4> QED
        BY <4>1, <4>2
    <3>3. NotOlder(target', store.entries)
      BY <3>2 DEF NotOlder
    <3> QED
      BY <3>1, <3>3, <2>7 DEF TreesFit
  <2>9. PlannedFits'
    <3>1. ASSUME NEW f \in Fqdn, planned'[f].known PROVE f = r.fqdn
      BY <3>1, <2>6
    <3>2. Exists(target'[r.fqdn]) => target'[r.fqdn].gen >= planned'[r.fqdn].gen
      BY <2>1, <2>4, <2>5, <2>6
    <3>3. store'.entries[r.fqdn].known =>
            planned'[r.fqdn].gen >= store'.entries[r.fqdn].gen
      BY <2>1, <2>2, <2>3, <2>6, <2>7
    <3> QED
      BY <3>1, <3>2, <3>3, <2>1, <2>6, <2>7 DEF PlannedFits
  <2>10. toSettle' = <<r>> \/ toSettle' = <<>>
    BY <1>2 DEF ApplyAccepted
  <2>11. SettleFits'
    BY <2>6, <2>7, <2>10 DEF SettleFits, Pending
  <2> QED
    BY <2>7, <2>8, <2>9, <2>11 DEF SnapshotFits
<1>3. ASSUME NEW routes \in Manifests, NEW snap \in Snapshots, SyncRejected(routes, snap)
      PROVE  RecordInv' /\ PlanInv'
  <2>1. pc' = "respond" /\ toSettle = <<>> /\ toSettle' = <<>>
    BY <1>3 DEF SyncRejected, Reject, FlowInv, PhaseFits
  <2> QED
    BY <1>3, <2>1 DEF SyncRejected, TreesFit, PlannedFits, SnapshotFits, SettleFits, Pending
<1>4. ASSUME NEW routes \in Manifests, NEW snap \in Snapshots, SyncAccepted(routes, snap)
      PROVE  RecordInv' /\ PlanInv'
  <2>1. toSettle' = <<>> /\ target' = EmptyTree /\ planned' = NoEntries /\ backup' = disk
        /\ pc' = "plan" /\ job'.kind = "sync"
        /\ UNCHANGED <<store, saved, disk, served>>
    BY <1>4 DEF SyncAccepted, FlowInv, PhaseFits
  <2>2. \A f \in Fqdn : ~Exists(target'[f]) /\ ~planned'[f].known
    BY <2>1 DEF EmptyTree, NoFile, Exists, NoEntries, NoEntry
  <2>3. snap \in Nat /\ store.snap \in Nat
    BY RequestsAssumption DEF TypeOK, StoreTypeOK, StoreState
  <2>4. SnapshotFits'
    BY <1>4, <2>3 DEF SyncAccepted, SnapshotStale, SnapshotFits
  <2> QED
    BY <2>1, <2>2, <2>4 DEF TreesFit, NotOlder, PlannedFits, SettleFits
<1> QED
  BY <1>1, <1>2, <1>3, <1>4 DEF Receive


LEMMA PlanPlan ==
    ASSUME IInv,
           PlanOmitted \/ PlanRejected \/ PlanKept \/ PlanRendered \/ PlanDone
    PROVE  RecordInv' /\ PlanInv'
<1> USE DEF IInv, RecordInv, PlanInv, SavedIsBehind, UnknownIsZero,
            NeverServesOlderThanRecorded
<1>1. CASE PlanOmitted
  BY <1>1 DEF PlanOmitted, Planning, NextEntry, TreesFit, PlannedFits, Upgrading,
     SnapshotFits, SettleFits
<1>2. CASE PlanRejected
  BY <1>2 DEF PlanRejected, Planning, Reject, TreesFit, PlannedFits, SnapshotFits,
     SettleFits, Pending
<1>3. CASE PlanDone
  BY <1>3 DEF PlanDone, TreesFit, PlannedFits, Upgrading, SnapshotFits, SettleFits, Pending
<1> DEFINE r == job.routes[idx]
           f == r.fqdn
<1>4. ASSUME PlanKept \/ PlanRendered
      PROVE  /\ r \in Route /\ f \in Fqdn /\ r.gen \in Nat
             /\ pc = "plan" /\ pc' = "plan" /\ ~Upgrading /\ ~Upgrading'
             /\ job.kind = "sync" /\ ~Exists(target[f])
             /\ UNCHANGED <<store, saved, disk, served, backup, job>>
  <2>1. job.routes \in Seq(Route) /\ idx \in 1 .. Len(job.routes)
    <3>1. Planning
      BY <1>4 DEF PlanKept, PlanRendered
    <3> QED
      BY <3>1 DEF Planning, TypeOK, Job
  <2>2. r \in Route
    BY <2>1
  <2> QED
    BY <1>4, <2>2 DEF PlanKept, PlanRendered, Planning, NextEntry, Route, FlowInv,
       PhaseFits, Upgrading
<1>5. ASSUME PlanKept \/ PlanRendered
      PROVE  \A i \in 1 .. Len(toSettle) : toSettle[i].fqdn # f
  BY <1>4, <1>5 DEF SettleFits, Pending
<1>6. store.entries \in Entries /\ backup \in Tree /\ target \in Tree /\ planned \in Entries
  BY DEF TypeOK, StoreTypeOK, StoreState
\* What both kinds of entry have in common: file and entry of one name change.
<1>7. ASSUME PlanKept \/ PlanRendered,
             NEW file, NEW e,
             target' = [target EXCEPT ![f] = file],
             planned' = [planned EXCEPT ![f] = e],
             Exists(file) /\ store.entries[f].known => file.gen >= store.entries[f].gen,
             Exists(file) /\ e.known => file.gen >= e.gen,
             e.known /\ store.entries[f].known => e.gen >= store.entries[f].gen
      PROVE  /\ RecordInv' /\ PlannedFits' /\ SnapshotFits'
             /\ \A i \in 1 .. Len(toSettle) :
                  LET s == toSettle[i]
                  IN  /\ planned'[s.fqdn].known /\ planned'[s.fqdn].gen = s.gen
                      /\ Exists(target'[s.fqdn])
  <2>1. NotOlder(target', store.entries) /\ NotOlder(backup', store.entries)
    BY <1>4, <1>6, <1>7 DEF TreesFit, NotOlder, Pending, Tree
  <2>2. PlannedFits'
    BY <1>4, <1>6, <1>7 DEF PlannedFits, Pending, Tree, Entries
  <2>3. \A g \in Fqdn \ {f} : target'[g] = target[g] /\ planned'[g] = planned[g]
    BY <1>4, <1>6, <1>7 DEF Tree, Entries
  <2>4. \A i \in 1 .. Len(toSettle) : toSettle[i].fqdn \in Fqdn
    <3>1. \A i \in 1 .. Len(toSettle) : toSettle[i] \in Route
      BY DEF TypeOK
    <3> QED
      BY <3>1 DEF Route
  <2>5. \A i \in 1 .. Len(toSettle) :
           LET s == toSettle[i]
           IN  /\ planned[s.fqdn].known /\ planned[s.fqdn].gen = s.gen
               /\ Exists(target[s.fqdn])
    BY <1>4, <1>7 DEF SettleFits, Pending
  <2> QED
    BY <1>4, <1>5, <1>7, <2>1, <2>2, <2>3, <2>4, <2>5 DEF TreesFit, SnapshotFits
<1>8. CASE PlanKept
  <2> DEFINE cur == store.entries[f]
             file == IF cur.present THEN backup[f] ELSE NoFile
             e == [cur EXCEPT !.present = Exists(file)]
  <2>1. /\ target' = [target EXCEPT ![f] = file]
        /\ planned' = [planned EXCEPT ![f] = e]
        /\ toSettle' = toSettle
    BY <1>8 DEF PlanKept, KeptEntry
  <2>2. cur \in Entry /\ e.gen = cur.gen /\ e.known = cur.known
    BY <1>4, <1>6, <1>8 DEF Entries, Entry
  <2>3. Exists(file) /\ cur.known => file.gen >= cur.gen
    BY <1>4, <1>6, <1>8 DEF TreesFit, NotOlder, Pending, NoFile, Exists
  <2>4. cur.gen >= cur.gen
    BY <2>2 DEF Entry
  <2>5. /\ RecordInv' /\ PlannedFits' /\ SnapshotFits'
        /\ \A i \in 1 .. Len(toSettle) :
             LET s == toSettle[i]
             IN  /\ planned'[s.fqdn].known /\ planned'[s.fqdn].gen = s.gen
                 /\ Exists(target'[s.fqdn])
    BY <1>7, <1>8, <2>1, <2>2, <2>3, <2>4
  <2> QED
    BY <1>4, <1>8, <2>1, <2>5 DEF SettleFits, Pending
<1>9. CASE PlanRendered
  <2> DEFINE file == Rendered(r, CertReady(r))
             e == EntryOf(r.gen, TRUE, SyncCert(r))
  <2>1. /\ target' = [target EXCEPT ![f] = file]
        /\ planned' = [planned EXCEPT ![f] = e]
        /\ toSettle' = toSettle \/ toSettle' = Append(toSettle, r)
    BY <1>9 DEF PlanRendered
  <2>2. file.gen = r.gen /\ Exists(file) /\ e.gen = r.gen /\ e.known
    BY RenderedGen DEF EntryOf, CertReady, IsPlatform
  <2>3. store.entries[f].known => r.gen >= store.entries[f].gen
    <3>1. ~Outdated(f, r.gen)
      BY <1>9 DEF PlanRendered
    <3>2. store.entries[f] \in Entry
      BY <1>4, <1>6, <1>9 DEF Entries
    <3> QED
      BY <3>1, <3>2, <1>4, <1>9 DEF Outdated, Entry
  <2>4. r.gen >= r.gen
    BY <1>4, <1>9
  <2>5. /\ RecordInv' /\ PlannedFits' /\ SnapshotFits'
        /\ \A i \in 1 .. Len(toSettle) :
             LET s == toSettle[i]
             IN  /\ planned'[s.fqdn].known /\ planned'[s.fqdn].gen = s.gen
                 /\ Exists(target'[s.fqdn])
    BY <1>7, <1>9, <2>1, <2>2, <2>3, <2>4
  <2>6. planned'[f] = e /\ target'[f] = file
    BY <1>4, <1>6, <1>9, <2>1 DEF Entries, Tree
  <2>7. \A i \in 1 .. Len(toSettle') : toSettle'[i] = r \/ \E j \in 1 .. Len(toSettle) : toSettle'[i] = toSettle[j]
    BY <2>1, <1>4, <1>9 DEF TypeOK
  <2>8. \A i \in 1 .. Len(toSettle') :
             LET s == toSettle'[i]
             IN  /\ planned'[s.fqdn].known /\ planned'[s.fqdn].gen = s.gen
                 /\ Exists(target'[s.fqdn])
    BY <2>2, <2>5, <2>6, <2>7
  <2> QED
    BY <1>4, <1>9, <2>5, <2>8 DEF SettleFits, Pending
<1> QED
  BY <1>1, <1>2, <1>3, <1>8, <1>9


\* A step between two pending phases that leaves record, plan and trees alone.
LEMMA PlanStays ==
    ASSUME IInv, pc \in Pending, pc' \in Pending \ {"plan"},
           UNCHANGED <<storeVars, planVars, treeVars, settleVars>>,
           NotOlder(disk', store.entries), NotOlder(served', store.entries)
    PROVE  RecordInv' /\ PlanInv'
BY DEF IInv, RecordInv, PlanInv, SavedIsBehind, UnknownIsZero, NeverServesOlderThanRecorded,
   TreesFit, PlannedFits, Upgrading, SnapshotFits, SettleFits, Pending

LEMMA PlanEnds ==
    ASSUME IInv, pc' = "respond", UNCHANGED <<storeVars, toSettle, disk, served>>
    PROVE  RecordInv' /\ PlanInv'
BY DEF IInv, RecordInv, PlanInv, SavedIsBehind, UnknownIsZero, NeverServesOlderThanRecorded,
   TreesFit, PlannedFits, SnapshotFits, SettleFits, Pending

\* SetCert disturbs nothing, wherever it is called.
LEMMA SetCertKeeps ==
    ASSUME IInv, NEW f \in Fqdn, NEW cert \in CertState, SetCert(f, cert),
           disk' = disk, served' = served, pc' \notin Pending, pc' # "respond",
           pc \in Pending => Upgrading, pc \notin {"idle", "respond"},
           job' = job,
           NEW s \in Seq(Route), toSettle' = s,
           \A i \in 1 .. Len(s) : \E j \in 1 .. Len(toSettle) : s[i] = toSettle[j]
    PROVE  RecordInv' /\ PlanInv'
<1> USE DEF IInv, RecordInv, PlanInv, NeverServesOlderThanRecorded
<1>1. /\ SavedIsBehind' /\ UnknownIsZero' /\ StoreTypeOK'
      /\ store'.snap = store.snap
      /\ \A g \in Fqdn : /\ store'.entries[g].gen = store.entries[g].gen
                         /\ store.entries[g].known => store'.entries[g].known
  BY SetCertRecord
<1>2. store.entries \in Entries /\ store'.entries \in Entries
      /\ disk \in Tree /\ served \in Tree
  BY <1>1 DEF TypeOK, StoreTypeOK, StoreState, NginxTypeOK
<1>3. NotOlder(disk, store'.entries) /\ NotOlder(served, store'.entries)
  BY <1>1, <1>2, NotOlderKept DEF UnknownIsZero
<1>4. \A j \in 1 .. Len(toSettle) :
         /\ toSettle[j].fqdn \in Fqdn
         /\ store.entries[toSettle[j].fqdn].known
         /\ store.entries[toSettle[j].fqdn].gen = toSettle[j].gen
  <2>1. \A j \in 1 .. Len(toSettle) : toSettle[j] \in Route
    BY DEF TypeOK
  <2> QED
    BY <2>1 DEF Route, SettleFits
<1>5. SettleFits'
  BY <1>1, <1>4 DEF SettleFits
<1> QED
  BY <1>1, <1>3, <1>5 DEF TreesFit, PlannedFits, SnapshotFits

LEMMA PlanEndUpgrade ==
    ASSUME IInv, Upgrading, pc \in Pending, NEW cert \in CertState, EndUpgrade(cert),
           UNCHANGED <<planVars, toSettle>>, disk' = disk, served' = served
    PROVE  RecordInv' /\ PlanInv'
<1>1. upgrading.fqdn \in Fqdn /\ toSettle \in Seq(Route)
  BY DEF IInv, TypeOK, Upgrading, Route
<1> QED
  BY <1>1, SetCertKeeps DEF EndUpgrade, Pending

LEMMA PlanEndFailure ==
    ASSUME IInv, pc \in Pending, NEW doubt \in BOOLEAN, EndFailure(doubt),
           UNCHANGED <<planVars, toSettle>>, disk' = disk, served' = served
    PROVE  RecordInv' /\ PlanInv'
<1>1. CASE Upgrading
  BY <1>1, PlanEndUpgrade DEF EndFailure, CertState
<1>2. CASE ~Upgrading
  BY <1>2, PlanEnds DEF EndFailure
<1> QED
  BY <1>1, <1>2

LEMMA PlanRestoring ==
    ASSUME IInv, pc \in Pending, NEW why \in Failure, Restoring(why),
           UNCHANGED <<planVars, treeVars, toSettle>>, disk' = disk, served' = served
    PROVE  RecordInv' /\ PlanInv'
BY PlanStays DEF Restoring, Pending, IInv, RecordInv, NeverServesOlderThanRecorded

LEMMA PlanSwap ==
    ASSUME IInv,
           \/ \E f \in Fqdn : SwapFile(f) \/ RestoreFile(f)
           \/ SwapDone \/ ApplySwapFails \/ SyncSwapFails \/ UpgradeSwapFails
           \/ Restored \/ RestoreFailed
    PROVE  RecordInv' /\ PlanInv'
<1>1. ASSUME NEW f \in Fqdn, SwapFile(f) \/ RestoreFile(f) PROVE RecordInv' /\ PlanInv'
  <2>1. disk \in Tree /\ NotOlder(disk, store.entries) /\ NotOlder(served, store.entries)
    BY DEF IInv, TypeOK, NginxTypeOK, RecordInv, NeverServesOlderThanRecorded
  <2>2. NotOlder(target, store.entries) /\ NotOlder(backup, store.entries)
    BY <1>1 DEF SwapFile, RestoreFile, IInv, RecordInv, TreesFit, Pending
  <2>3. NotOlder(disk', store.entries)
    BY <1>1, <2>1, <2>2 DEF SwapFile, RestoreFile, PutFile, NotOlder, Tree
  <2> QED
    BY <1>1, <2>1, <2>3, PlanStays DEF SwapFile, RestoreFile, PutFile, Pending
<1> USE DEF NeverServesOlderThanRecorded, Pending
<1>2. CASE SwapDone
  BY <1>2, PlanStays DEF SwapDone, IInv, RecordInv
<1>3. CASE ApplySwapFails
  BY <1>3, PlanEnds DEF ApplySwapFails, Reject
<1>4. CASE SyncSwapFails
  BY <1>4, PlanStays DEF SyncSwapFails, IInv, RecordInv
<1>5. CASE UpgradeSwapFails
  BY <1>5, PlanEndUpgrade DEF UpgradeSwapFails, CertState
<1>6. CASE RestoreFailed
  BY <1>6, PlanEndFailure DEF RestoreFailed
<1>7. CASE Restored /\ Recovering
  BY <1>7, PlanStays DEF Restored, IInv, RecordInv
<1>8. CASE Restored /\ ~Recovering
  BY <1>8, PlanEndFailure DEF Restored
<1> QED
  BY <1>1, <1>2, <1>3, <1>4, <1>5, <1>6, <1>7, <1>8

LEMMA PlanReload ==
    ASSUME IInv,
           \/ TestPassed \/ TestFailed \/ Signalled \/ SignalFailed
           \/ ProofTimeout \/ Confirmed \/ RecoveryConfirmed
    PROVE  RecordInv' /\ PlanInv'
<1> USE DEF Pending
<1>1. NotOlder(disk, store.entries) /\ NotOlder(served, store.entries)
  BY DEF IInv, RecordInv, NeverServesOlderThanRecorded
<1>2. CASE TestPassed
  BY <1>1, <1>2, PlanStays DEF TestPassed, TestSucceeds
<1>3. CASE Signalled
  BY <1>1, <1>3, PlanStays DEF Signalled, SignalSucceeds
<1>4. CASE Confirmed
  BY <1>1, <1>4, PlanStays DEF Confirmed
<1>5. CASE RecoveryConfirmed
  BY <1>5, PlanEndFailure DEF RecoveryConfirmed
<1>6. CASE TestFailed
  BY <1>6, PlanEndFailure, PlanRestoring DEF TestFailed, TestFails, Failure
<1>7. CASE SignalFailed
  BY <1>7, PlanEndFailure, PlanRestoring DEF SignalFailed, SignalFails, ReloadGivesUp, Failure
<1>8. CASE ProofTimeout
  BY <1>8, PlanEndFailure, PlanRestoring DEF ProofTimeout, ReloadGivesUp, Failure
<1> QED
  BY <1>2, <1>3, <1>4, <1>5, <1>6, <1>7, <1>8


\* Telling the store: the entries of all names move together with their vhosts.
LEMMA PlanCommit ==
    ASSUME IInv, pc = "commit", pc' = "prune", ~Upgrading,
           UNCHANGED <<disk, served, planVars, treeVars, settleVars>>,
           NEW new \in StoreState, Persist(new),
           \A f \in Fqdn : IF planned[f].known
                           THEN new.entries[f] = planned[f]
                           ELSE /\ new.entries[f].gen = store.entries[f].gen
                                /\ new.entries[f].known = store.entries[f].known,
           new.snap >= store.snap,
           job.kind = "sync" => new.snap = job.snap
    PROVE  RecordInv' /\ PlanInv'
<1> USE DEF IInv, RecordInv, PlanInv, NeverServesOlderThanRecorded
<1>1. store' = new /\ saved' \in {saved, new} /\ store \in StoreState /\ saved \in StoreState
  BY DEF Persist, TypeOK, StoreTypeOK
<1>2. \A f \in Fqdn : planned[f].known =>
         /\ Exists(target[f]) => target[f].gen >= planned[f].gen
         /\ store.entries[f].known => planned[f].gen >= store.entries[f].gen
  BY DEF PlannedFits, Pending
<1>3. Behind(store.entries, new.entries)
  <2>1. \A f \in Fqdn : store.entries[f].gen \in Nat /\ new.entries[f].gen \in Nat
    BY <1>1 DEF StoreState, Entries, Entry
  <2> QED
    BY <1>2, <2>1 DEF Behind
<1>4. SavedIsBehind'
  <2>1. Behind(saved.entries, store.entries) /\ saved.snap <= store.snap
    BY DEF SavedIsBehind
  <2>2. \A f \in Fqdn : /\ saved.entries[f].gen \in Nat /\ store.entries[f].gen \in Nat
                        /\ new.entries[f].gen \in Nat
    BY <1>1 DEF StoreState, Entries, Entry
  <2>3. Behind(saved.entries, new.entries) /\ Behind(new.entries, new.entries)
    BY <1>3, <2>1, <2>2 DEF Behind
  <2> QED
    BY <1>1, <2>1, <2>3 DEF SavedIsBehind, StoreState
<1>5. UnknownIsZero'
  BY <1>1 DEF UnknownIsZero
<1>6. disk = target /\ served = target
  BY DEF FlowInv, PhaseFits, CandidateIsOnDisk, Wanted, Recovering, ProofMeansServed
<1>7. NotOlder(target, new.entries)
  <2>1. NotOlder(target, store.entries)
    BY DEF TreesFit, Pending
  <2> QED
    BY <1>2, <2>1 DEF NotOlder
<1>8. SettleFits'
  <2>1. \A i \in 1 .. Len(toSettle) : toSettle[i].fqdn \in Fqdn
    <3>1. \A i \in 1 .. Len(toSettle) : toSettle[i] \in Route
      BY DEF TypeOK
    <3> QED
      BY <3>1 DEF Route
  <2>2. \A i \in 1 .. Len(toSettle) :
           /\ planned[toSettle[i].fqdn].known
           /\ planned[toSettle[i].fqdn].gen = toSettle[i].gen
    BY DEF SettleFits, Pending
  <2> QED
    BY <1>1, <2>1, <2>2 DEF SettleFits, Pending
<1>9. SnapshotFits'
  BY <1>1 DEF SnapshotFits, StoreState
<1> QED
  BY <1>1, <1>4, <1>5, <1>6, <1>7, <1>8, <1>9 DEF TreesFit, PlannedFits, Pending

LEMMA PlanSettle ==
    ASSUME IInv,
           \/ CommitApply \/ CommitSync \/ CommitUpgrade
           \/ \E f \in Fqdn : PruneCert(f)
           \/ PruneDone \/ SettleReady \/ EnsureFailed \/ Ensured \/ Settled
           \/ Respond
    PROVE  RecordInv' /\ PlanInv'
<1>1. store \in StoreState /\ planned \in Entries /\ job \in Job /\ toSettle \in Seq(Route)
  BY DEF IInv, TypeOK, StoreTypeOK
<1>2. CASE CommitApply
  <2> DEFINE f == job.routes[1].fqdn
             new == [store EXCEPT !.entries[f] = planned[f]]
  <2>1. f \in Fqdn /\ \A g \in Fqdn : planned[g].known <=> g = f
    BY <1>2 DEF CommitApply, IInv, PlanInv, PlannedFits, Pending
  <2>2. new \in StoreState /\ new.snap = store.snap
        /\ new.entries = [store.entries EXCEPT ![f] = planned[f]]
    BY <1>1, <2>1 DEF StoreState, Entries
  <2>3. \A g \in Fqdn : new.entries[g] = IF g = f THEN planned[f] ELSE store.entries[g]
    BY <1>1, <2>2 DEF StoreState, Entries
  <2>4. store.snap \in Nat
    BY <1>1 DEF StoreState
  <2>5. Persist(new)
    BY <1>2 DEF CommitApply, Record
  <2> HIDE DEF f, new
  <2>6. new.snap >= store.snap
    BY <2>2, <2>4
  <2> QED
    BY <1>2, <2>1, <2>2, <2>3, <2>5, <2>6, PlanCommit DEF CommitApply
<1>3. CASE CommitSync
  <2> DEFINE new == [entries |-> Merged(store.entries, planned), snap |-> job.snap]
  <2>1. new \in StoreState /\ new.snap = job.snap
    BY <1>1, MergedType DEF StoreState, Job
  <2>2. job.snap >= store.snap
    BY <1>3 DEF CommitSync, IInv, PlanInv, SnapshotFits
  <2>3. \A f \in Fqdn : store.entries[f] \in Entry
    BY <1>1 DEF StoreState, Entries
  <2>4. \A f \in Fqdn : IF planned[f].known
                        THEN new.entries[f] = planned[f]
                        ELSE /\ new.entries[f].gen = store.entries[f].gen
                             /\ new.entries[f].known = store.entries[f].known
    BY <2>3 DEF Merged, Tombstone, Entry
  <2>5. Persist(new)
    BY <1>3 DEF CommitSync, ReplaceAll
  <2> HIDE DEF new
  <2> QED
    BY <1>3, <2>1, <2>2, <2>4, <2>5, PlanCommit DEF CommitSync
<1>4. CASE CommitUpgrade
  BY <1>4, PlanEndUpgrade DEF CommitUpgrade, Pending, CertState
<1>5. PhaseFits
  BY DEF IInv, FlowInv
<1>6. \A i \in 1 .. Len(toSettle) : \E j \in 1 .. Len(toSettle) : toSettle[i] = toSettle[j]
  OBVIOUS
<1>7. ASSUME NEW f \in Fqdn, PruneCert(f) PROVE RecordInv' /\ PlanInv'
  <2>1. CASE UNCHANGED storeVars
    BY <1>7, <2>1 DEF PruneCert, IInv, RecordInv, PlanInv, SavedIsBehind, UnknownIsZero,
       NeverServesOlderThanRecorded, TreesFit, PlannedFits, SnapshotFits, SettleFits,
       Pending
  <2>2. CASE SetCert(f, "FAILED")
    BY <1>1, <1>6, <1>7, <2>2, SetCertKeeps DEF PruneCert, Pending, CertState
  <2> QED
    BY <1>7, <2>1, <2>2 DEF PruneCert
<1>8. CASE PruneDone
  BY <1>5, <1>8 DEF PruneDone, PhaseFits, IInv, RecordInv, PlanInv, SavedIsBehind,
     UnknownIsZero, NeverServesOlderThanRecorded, TreesFit, PlannedFits, SnapshotFits,
     SettleFits, Pending
<1>9. ASSUME Settling
      PROVE  /\ Head(toSettle).fqdn \in Fqdn /\ Tail(toSettle) \in Seq(Route)
             /\ Head(toSettle) = toSettle[1] /\ 1 \in 1 .. Len(toSettle)
             /\ \A i \in 1 .. Len(Tail(toSettle)) :
                  \E j \in 1 .. Len(toSettle) : Tail(toSettle)[i] = toSettle[j]
  <2>1. toSettle # <<>>
    BY <1>9 DEF Settling
  <2> QED
    BY <1>1, <1>9, <2>1, HeadType DEF IInv
<1>10. CASE SettleReady
  BY <1>9, <1>10, SetCertKeeps DEF SettleReady, Settling, Pending, CertState
<1>11. CASE EnsureFailed
  BY <1>9, <1>11, SetCertKeeps DEF EnsureFailed, Settling, Pending, CertState
<1>12. CASE Ensured
  <2> DEFINE r == Head(toSettle)
  <2>1. /\ r.fqdn \in Fqdn /\ pc = "settle" /\ pc' = "swap"
        /\ UNCHANGED <<store, saved, disk, served, job, planned>>
        /\ toSettle' = Tail(toSettle)
        /\ target' = [disk EXCEPT ![r.fqdn] = Rendered(r, TRUE)]
        /\ backup' \in {disk, [disk EXCEPT ![r.fqdn] = NoFile]}
    BY <1>9, <1>12 DEF Ensured, ReadBack, Settling
  <2>2. upgrading' = r /\ r \in Route
    BY <1>12, HeadType DEF Ensured, IInv
  <2>3. Upgrading'
    <3>1. r.state # NoRoute.state
      BY <2>2 DEF NoRoute, Route
    <3> QED
      BY <2>2, <3>1 DEF Upgrading
  <2>4. \A i \in 1 .. Len(toSettle) :
           store.entries[toSettle[i].fqdn].known
           /\ store.entries[toSettle[i].fqdn].gen = toSettle[i].gen
    BY <2>1 DEF IInv, PlanInv, SettleFits, Pending
  <2>5. r.gen = store.entries[r.fqdn].gen /\ r.gen \in Nat
    BY <1>9, <1>12, <2>2, <2>4 DEF Ensured, Route
  <2>6. disk \in Tree /\ NotOlder(disk, store.entries)
    BY DEF IInv, TypeOK, NginxTypeOK, RecordInv, NeverServesOlderThanRecorded
  <2>7. NotOlder(target', store.entries)
    <3> SUFFICES ASSUME NEW f \in Fqdn, Exists(target'[f]), store.entries[f].known
                 PROVE  target'[f].gen >= store.entries[f].gen
      BY DEF NotOlder
    <3>1. CASE f = r.fqdn
      <4>1. target'[f] = Rendered(r, TRUE)
        BY <2>1, <2>6, <3>1 DEF Tree
      <4>2. target'[f].gen = r.gen
        BY <4>1, RenderedGen
      <4> QED
        BY <2>5, <3>1, <4>2
    <3>2. CASE f # r.fqdn
      <4>1. target'[f] = disk[f]
        BY <2>1, <2>6, <3>2 DEF Tree
      <4> QED
        BY <2>6, <4>1 DEF NotOlder
    <3> QED
      BY <3>1, <3>2
  <2>8. NotOlder(backup', store.entries)
    BY <2>1, <2>6 DEF NotOlder, Tree, Exists, NoFile
  <2>9. SettleFits'
    BY <1>9, <1>12, <2>1, <2>3, <2>4 DEF SettleFits, Ensured
  <2> QED
    BY <2>1, <2>3, <2>7, <2>8, <2>9 DEF IInv, RecordInv, PlanInv, SavedIsBehind,
       UnknownIsZero, NeverServesOlderThanRecorded, TreesFit, PlannedFits, SnapshotFits
<1>13. CASE Settled
  BY <1>13, PlanEnds DEF Settled
<1>14. CASE Respond
  BY <1>14 DEF Respond, Forgotten, NoJob, IInv, RecordInv, SavedIsBehind,
     UnknownIsZero, NeverServesOlderThanRecorded, TreesFit, PlanInv, PlannedFits,
     SnapshotFits, SettleFits, Pending
<1> QED
  BY <1>2, <1>3, <1>4, <1>7, <1>8, <1>10, <1>11, <1>12, <1>13, <1>14

LEMMA PlanOutside ==
    ASSUME IInv, CrashRestart \/ Environment
    PROVE  RecordInv' /\ PlanInv'
<1> USE DEF IInv, RecordInv, PlanInv, Pending
<1>1. CASE CrashRestart
  <2>1. /\ store' = saved /\ saved' = saved /\ disk' = disk /\ served' = served
        /\ pc' = "idle" /\ toSettle' = <<>>
    BY <1>1 DEF CrashRestart, Reload, ForgetProof, Forgotten
  <2>2. /\ Behind(saved.entries, store.entries)
        /\ disk \in Tree /\ served \in Tree
        /\ store \in StoreState /\ saved \in StoreState
    BY DEF SavedIsBehind, TypeOK, StoreTypeOK, NginxTypeOK
  <2>3. ASSUME NEW tree \in Tree, NotOlder(tree, store.entries)
        PROVE  NotOlder(tree, saved.entries)
    <3> SUFFICES ASSUME NEW f \in Fqdn, Exists(tree[f]), saved.entries[f].known
                 PROVE  tree[f].gen >= saved.entries[f].gen
      BY DEF NotOlder
    <3>1. store.entries[f].known /\ store.entries[f].gen >= saved.entries[f].gen
      BY <2>2 DEF Behind
    <3>2. tree[f].gen >= store.entries[f].gen
      BY <2>3, <3>1 DEF NotOlder
    <3>3. saved.entries[f].gen \in Nat /\ store.entries[f].gen \in Nat /\ tree[f].gen \in Nat
      BY <2>2 DEF StoreState, Entries, Entry, Tree, File, Vhost, NoFile
    <3> QED
      BY <3>1, <3>2, <3>3
  <2>4. NeverServesOlderThanRecorded'
    BY <2>1, <2>2, <2>3 DEF NeverServesOlderThanRecorded
  <2>5. SavedIsBehind' /\ UnknownIsZero'
    BY <2>1, <2>2 DEF SavedIsBehind, UnknownIsZero, Behind, StoreState, Entries, Entry
  <2> QED
    BY <2>1, <2>4, <2>5 DEF TreesFit, PlannedFits, SnapshotFits, SettleFits
<1>2. CASE Environment
  <2>1. UNCHANGED <<storeVars, localVars, disk>> /\ served' \in {served, disk}
    BY <1>2 DEF Environment, MasterLoads, MasterRefuses, ForeignReload, RemoveByHand
  <2> QED
    BY <2>1 DEF SavedIsBehind, UnknownIsZero, NeverServesOlderThanRecorded, TreesFit,
       PlannedFits, SnapshotFits, SettleFits, Upgrading
<1> QED
  BY <1>1, <1>2

LEMMA PlanNext == IInv /\ [Next]_vars => RecordInv' /\ PlanInv'
<1>1. ASSUME IInv, UNCHANGED vars PROVE RecordInv' /\ PlanInv'
  BY <1>1 DEF vars, IInv, RecordInv, PlanInv, SavedIsBehind, UnknownIsZero,
     NeverServesOlderThanRecorded, TreesFit, PlannedFits, SnapshotFits, SettleFits,
     Upgrading, Pending
<1>2. ASSUME IInv, Work PROVE RecordInv' /\ PlanInv'
  BY <1>2, PlanPlan, PlanSwap, PlanReload, PlanSettle DEF Work
<1> QED
  BY <1>1, <1>2, PlanReceive, PlanOutside DEF Next

-----------------------------------------------------------------------------
(* The inductive invariant and what follows from it.                         *)

LEMMA InitIInv == Init => IInv
<1> SUFFICES ASSUME Init PROVE IInv
  OBVIOUS
<1>1. TypeOK
  BY InitType
<1>2. FlowInv
  BY DEF Init, Idle, FlowInv, PhaseFits, CandidateIsOnDisk, ProofMeansServed,
     RollbackIsComplete, Upgrading
<1>3. RecordInv
  <2>1. /\ store.entries = NoEntries /\ store.snap = 0 /\ saved = store
        /\ disk = EmptyTree /\ served = EmptyTree /\ pc = "idle"
    BY DEF Init, StoreInit, NginxInit, Idle
  <2>2. \A f \in Fqdn : NoEntries[f] = NoEntry /\ ~NoEntry.known /\ NoEntry.gen = 0
    BY DEF NoEntries, NoEntry
  <2> QED
    BY <2>1, <2>2 DEF RecordInv, SavedIsBehind, Behind, UnknownIsZero,
       NeverServesOlderThanRecorded, NotOlder, TreesFit, Pending
<1>4. PlanInv
  BY DEF Init, Idle, PlanInv, PlannedFits, SnapshotFits, SettleFits, Pending
<1> QED
  BY <1>1, <1>2, <1>3, <1>4 DEF IInv

LEMMA NextIInv == IInv /\ [Next]_vars => IInv'
BY NextType, FlowNext, PlanNext DEF IInv

(* Whatever requests arrive, whatever fails and whenever the process dies,   *)
(* Manager never leaves its inductive invariant.                             *)
THEOREM Inductive == Spec => []IInv
BY InitIInv, NextIInv, PTL DEF Spec

(* Manager.Apply and Manager.SyncAll never leave a vhost older than the      *)
(* generation on record in the directory or in the running nginx.            *)
THEOREM NeverServesOlder == Spec => []NeverServesOlderThanRecorded
<1>1. IInv => NeverServesOlderThanRecorded
  BY DEF IInv, RecordInv
<1> QED
  BY <1>1, Inductive, PTL

(* testAndReload succeeds, and a generation is recorded, only while nginx    *)
(* serves the candidate that is on disk.                                     *)
THEOREM CommitsServed == Spec => []CommitsOnlyWhatIsServed
<1>1. IInv => CommitsOnlyWhatIsServed
  BY DEF IInv, FlowInv, PhaseFits, CandidateIsOnDisk, Wanted, Recovering, ProofMeansServed,
     CommitsOnlyWhatIsServed
<1> QED
  BY <1>1, Inductive, PTL

(* An error answer that does not say otherwise means that restoreAfterFailure *)
(* and the rollback before it restored the directory, and nginx with it       *)
(* after an ambiguous reload.                                                 *)
THEOREM RollbackComplete == Spec => []RollbackIsComplete
<1>1. IInv => RollbackIsComplete
  BY DEF IInv, FlowInv
<1> QED
  BY <1>1, Inductive, PTL

-----------------------------------------------------------------------------
(* Generations only grow as long as the state file can be written.           *)

\* The state file holds what the map holds.
Durable == saved = store

\* What a step may do to the record.
LEMMA StoreStep ==
    ASSUME TypeOK, FlowInv, [Next]_vars
    PROVE  \/ UNCHANGED storeVars
           \/ \E f \in Fqdn, cert \in CertState : SetCert(f, cert)
           \/ CommitApply \/ CommitSync \/ Reload
<1> USE DEF CertState
<1>1. Upgrading => upgrading.fqdn \in Fqdn
  BY DEF TypeOK, Upgrading, Route
<1>2. ASSUME NEW cert \in CertState, Upgrading, EndUpgrade(cert)
      PROVE  \E f \in Fqdn, c \in CertState : SetCert(f, c)
  BY <1>1, <1>2 DEF EndUpgrade
<1>3. ASSUME NEW doubt, EndFailure(doubt)
      PROVE  \/ UNCHANGED storeVars
             \/ \E f \in Fqdn, c \in CertState : SetCert(f, c)
  BY <1>1, <1>3 DEF EndFailure, EndUpgrade
<1>4. CASE Receive
  BY <1>4 DEF Receive, ApplyRejected, ApplyAccepted, SyncRejected, SyncAccepted
<1>5. CASE PlanOmitted \/ PlanRejected \/ PlanKept \/ PlanRendered \/ PlanDone
  BY <1>5 DEF PlanOmitted, PlanRejected, PlanKept, PlanRendered, PlanDone
<1>6. CASE \/ \E f \in Fqdn : SwapFile(f) \/ RestoreFile(f)
           \/ SwapDone \/ ApplySwapFails \/ SyncSwapFails
  BY <1>6 DEF SwapFile, RestoreFile, SwapDone, ApplySwapFails, SyncSwapFails
<1>7. CASE UpgradeSwapFails \/ CommitUpgrade
  BY <1>2, <1>7 DEF UpgradeSwapFails, CommitUpgrade
<1>8. CASE TestPassed \/ Signalled \/ Confirmed \/ PruneDone \/ Settled \/ Respond \/ Ensured
  BY <1>8 DEF TestPassed, Signalled, Confirmed, PruneDone, Settled, Respond, Ensured
<1>9. CASE TestFailed \/ SignalFailed \/ ProofTimeout
  BY <1>3, <1>9 DEF TestFailed, SignalFailed, ProofTimeout, ReloadGivesUp, Restoring
<1>10. CASE RecoveryConfirmed \/ Restored \/ RestoreFailed
  BY <1>3, <1>10 DEF RecoveryConfirmed, Restored, RestoreFailed
<1>11. CASE \E f \in Fqdn : PruneCert(f)
  BY <1>11 DEF PruneCert
<1>12. CASE SettleReady \/ EnsureFailed
  <2>1. Head(toSettle).fqdn \in Fqdn
    BY <1>12, HeadType DEF SettleReady, EnsureFailed
  <2> QED
    BY <1>12, <2>1 DEF SettleReady, EnsureFailed
<1>13. CASE CrashRestart
  BY <1>13 DEF CrashRestart
<1>14. CASE Environment \/ UNCHANGED vars
  BY <1>14 DEF Environment, vars
<1> QED
  BY <1>4, <1>5, <1>6, <1>7, <1>8, <1>9, <1>10, <1>11, <1>12, <1>13, <1>14
     DEF Next, Work

\* The record moves forward, and the state file with it.
LEMMA DurableStep ==
    ASSUME "persist" \notin Faults, IInv, saved = store, [Next]_vars
    PROVE  NothingForgotten /\ saved' = store'
<1>1. store \in StoreState /\ planned \in Entries /\ job \in Job
      /\ \A f \in Fqdn : store.entries[f] \in Entry
  BY DEF IInv, TypeOK, StoreTypeOK, StoreState, Entries
<1>2. store.snap \in Nat /\ \A f \in Fqdn : store.entries[f].gen \in Nat
  BY <1>1 DEF StoreState, Entry
<1>3. CASE UNCHANGED storeVars \/ Reload
  BY <1>2, <1>3 DEF NothingForgotten, Reload
<1>4. ASSUME NEW f \in Fqdn, NEW cert \in CertState, SetCert(f, cert)
      PROVE  NothingForgotten /\ saved' = store'
  <2>1. saved' = store'
    BY <1>4 DEF SetCert, Persist
  <2>2. /\ store'.snap = store.snap
        /\ \A g \in Fqdn : /\ store'.entries[g].gen = store.entries[g].gen
                           /\ store.entries[g].known => store'.entries[g].known
    BY <1>4, SetCertRecord DEF IInv, RecordInv
  <2> QED
    BY <1>2, <2>1, <2>2 DEF NothingForgotten
<1>5. ASSUME pc = "commit", ~Upgrading
      PROVE  \A f \in Fqdn : planned[f].known /\ store.entries[f].known =>
                planned[f].gen >= store.entries[f].gen
  BY <1>5 DEF IInv, PlanInv, PlannedFits, Pending
<1>6. CASE CommitApply
  <2> DEFINE f == job.routes[1].fqdn
  <2>1. f \in Fqdn /\ planned[f].known /\ planned[f] \in Entry
    BY <1>1, <1>6 DEF CommitApply, IInv, PlanInv, PlannedFits, Pending, Entries
  <2>2. store' = [store EXCEPT !.entries[f] = planned[f]] /\ saved' = store'
    BY <1>6 DEF CommitApply, Record, Persist
  <2>3. /\ store'.snap = store.snap
        /\ \A g \in Fqdn : store'.entries[g] = IF g = f THEN planned[f] ELSE store.entries[g]
    BY <1>1, <2>1, <2>2 DEF StoreState, Entries
  <2>4. store.entries[f].known => planned[f].gen >= store.entries[f].gen
    BY <1>5, <1>6, <2>1 DEF CommitApply
  <2> HIDE DEF f
  <2> QED
    BY <1>2, <2>1, <2>2, <2>3, <2>4 DEF NothingForgotten
<1>7. CASE CommitSync
  <2>1. /\ store'.snap = job.snap /\ saved' = store'
        /\ store'.entries = Merged(store.entries, planned)
    BY <1>7 DEF CommitSync, ReplaceAll, Persist
  <2>2. job.snap >= store.snap
    BY <1>7 DEF CommitSync, IInv, PlanInv, SnapshotFits
  <2>3. \A f \in Fqdn : IF planned[f].known
                        THEN store'.entries[f] = planned[f]
                        ELSE /\ store'.entries[f].gen = store.entries[f].gen
                             /\ store'.entries[f].known = store.entries[f].known
    BY <1>1, <2>1 DEF Merged, Tombstone, Entry
  <2>4. \A f \in Fqdn : planned[f].known /\ store.entries[f].known =>
           planned[f].gen >= store.entries[f].gen
    BY <1>5, <1>7 DEF CommitSync
  <2> QED
    BY <1>2, <2>1, <2>2, <2>3, <2>4 DEF NothingForgotten
<1> QED
  BY <1>3, <1>4, <1>6, <1>7, StoreStep DEF IInv

(* While the state file can be written, no request, failure or restart makes *)
(* the store forget a name or go back to an older generation or snapshot.    *)
THEOREM MonotonicWhileDurable ==
    ASSUME "persist" \notin Faults
    PROVE  Spec => GenerationMonotonic
<1>1. Init => Durable
  BY DEF Init, StoreInit, Durable
<1>2. IInv /\ Durable /\ [Next]_vars => NothingForgotten
  BY DurableStep DEF Durable
<1>3. IInv /\ Durable /\ [Next]_vars => Durable'
  BY DurableStep DEF Durable
<1>4. Spec => []Durable
  BY <1>1, <1>3, Inductive, PTL DEF Spec
<1> QED
  BY <1>2, <1>4, Inductive, PTL DEF Spec, GenerationMonotonic

=============================================================================
