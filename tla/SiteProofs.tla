------------------------------ MODULE SiteProofs ------------------------------
(* Theorems about what visitors are served and what /status tells, and the   *)
(* refinement of GenerationLedger, for every set of names and requests. Each *)
(* names the faults it does without.                                         *)
EXTENDS ManagerProofs

USE DEF storeVars, certVars, nginxVars, localVars, flowVars, planVars, treeVars,
        settleVars

-----------------------------------------------------------------------------
(* What a step may do, as far as files, certificates and answers go.         *)

\* The request is refused or fails; only an unwritable file keeps the directory
\* from being what it was.
GivesUp ==
    /\ pc \in Pending \cup {"idle"} /\ ~Upgrading
    /\ pc' = "respond" /\ reply'.code # 200
    /\ UNCHANGED <<storeVars, certVars, toPrune, treeVars, settleVars, disk, served>>
    /\ pc \in {"idle", "plan"} \/ disk = backup \/ "write" \in Faults

\* A candidate, or its predecessor, on its way through testAndReload.
InFlight ==
    /\ {pc, pc'} \subseteq Pending \ {"plan"}
    /\ UNCHANGED <<storeVars, certVars, planVars, treeVars, settleVars, served, reply>>
    /\ \/ disk' = disk
       \/ \E f \in Fqdn : disk' \in {[disk EXCEPT ![f] = target[f]],
                                     [disk EXCEPT ![f] = backup[f]]}

UpgradeEnds(cert) ==
    /\ UpgradePending
    /\ SetCert(upgrading.fqdn, cert)
    /\ pc' = "settle" /\ ~Upgrading'
    /\ UNCHANGED <<certVars, planVars, treeVars, toSettle, disk, served, reply>>
    /\ \/ cert = "OK" /\ disk = target /\ served = disk
       \/ cert = "FAILED" /\ (disk = backup \/ "write" \in Faults)

\* nginx and the operator, whatever the agent is doing.
Outside ==
    /\ UNCHANGED <<storeVars, localVars, lineage, disk>>
    /\ served' \in {served, disk}
    /\ live' = live \/ ("hand" \in Faults /\ live' \subseteq live)

LEMMA EndFailureStep ==
    ASSUME IInv, pc \in Pending \ {"plan"}, NEW doubt, EndFailure(doubt),
           UNCHANGED <<certVars, planVars, treeVars, toSettle, disk, served>>,
           disk = backup \/ "write" \in Faults
    PROVE  GivesUp \/ UpgradeEnds("FAILED")
<1>1. CASE Upgrading
  BY <1>1 DEF EndFailure, EndUpgrade, UpgradeEnds, UpgradePending, Upgrading
<1>2. CASE ~Upgrading
  BY <1>2 DEF EndFailure, GivesUp
<1> QED
  BY <1>1, <1>2

LEMMA GivesUpStep ==
    ASSUME IInv,
           \/ \E r \in ApplyRequests : ApplyRejected(r)
           \/ \E routes \in Manifests, snap \in Snapshots : SyncRejected(routes, snap)
           \/ PlanRejected \/ ApplySwapFails
    PROVE  GivesUp
<1>1. PhaseFits
  BY DEF IInv, FlowInv
<1>2. \A code \in {409, 422} : Reject(code) => pc' = "respond" /\ reply'.code # 200
  BY DEF Reject, NoReply
<1> QED
  BY <1>1, <1>2 DEF PhaseFits, GivesUp, Pending, ApplyRejected, SyncRejected, PlanRejected,
     Planning, ApplySwapFails

LEMMA InFlightStep ==
    ASSUME IInv,
           \/ \E f \in Fqdn : SwapFile(f) \/ RestoreFile(f)
           \/ SwapDone \/ SyncSwapFails \/ TestPassed \/ Signalled \/ Confirmed
           \/ Restored /\ Recovering
    PROVE  InFlight
<1>1. ASSUME NEW f \in Fqdn, SwapFile(f) \/ RestoreFile(f) PROVE InFlight
  <2>1. /\ pc \in {"swap", "restore"} /\ pc' = pc /\ UNCHANGED <<served, localVars>>
        /\ UNCHANGED <<storeVars, certVars>>
        /\ disk' = [disk EXCEPT ![f] = target[f]] \/ disk' = [disk EXCEPT ![f] = backup[f]]
    BY <1>1 DEF SwapFile, RestoreFile, PutFile
  <2> QED
    BY <2>1 DEF InFlight, Pending
<1>2. CASE SwapDone \/ SyncSwapFails \/ TestPassed \/ Signalled \/ Confirmed
  BY <1>2 DEF SwapDone, SyncSwapFails, TestPassed, TestSucceeds, Signalled, SignalSucceeds,
     Confirmed, InFlight, Pending
<1>3. CASE Restored /\ Recovering
  BY <1>3 DEF Restored, InFlight, Pending
<1> QED
  BY <1>1, <1>2, <1>3

\* Failures while the candidate is tried out.
LEMMA FailureStep ==
    ASSUME IInv,
           \/ UpgradeSwapFails \/ TestFailed \/ SignalFailed \/ ProofTimeout
           \/ RecoveryConfirmed \/ Restored \/ RestoreFailed
    PROVE  InFlight \/ GivesUp \/ UpgradeEnds("FAILED")
<1>1. ASSUME Recovering, pc \in {"test", "reload", "await"} PROVE disk = backup
  BY <1>1 DEF IInv, FlowInv, CandidateIsOnDisk, Wanted
<1>2. ASSUME NEW why, Restoring(why), pc \in {"test", "reload", "await"},
             UNCHANGED <<certVars, planVars, treeVars, toSettle, disk, served>>
      PROVE  InFlight
  BY <1>2 DEF Restoring, InFlight, Pending
<1>3. ASSUME pc \in {"reload", "await"}, ReloadGivesUp,
             UNCHANGED <<certVars, planVars, treeVars, toSettle, disk, served>>
      PROVE  InFlight \/ GivesUp \/ UpgradeEnds("FAILED")
  BY <1>1, <1>2, <1>3, EndFailureStep DEF ReloadGivesUp, Pending
<1>4. CASE UpgradeSwapFails
  BY <1>4 DEF UpgradeSwapFails, EndUpgrade, UpgradeEnds, UpgradePending, Upgrading, Pending
<1>5. CASE TestFailed
  BY <1>1, <1>2, <1>5, EndFailureStep DEF TestFailed, TestFails, Pending
<1>6. CASE SignalFailed
  BY <1>3, <1>6 DEF SignalFailed, SignalFails
<1>7. CASE ProofTimeout
  BY <1>3, <1>7 DEF ProofTimeout
<1>8. CASE RecoveryConfirmed
  BY <1>1, <1>8, EndFailureStep DEF RecoveryConfirmed, Pending
<1>9. CASE Restored
  BY <1>9, InFlightStep, EndFailureStep DEF Restored, Pending
<1>10. CASE RestoreFailed
  BY <1>10, EndFailureStep DEF RestoreFailed, Pending
<1> QED
  BY <1>4, <1>5, <1>6, <1>7, <1>8, <1>9, <1>10

LEMMA OutsideStep ==
    ASSUME Environment \/ UNCHANGED vars
    PROVE  Outside
BY DEF Environment, MasterLoads, MasterRefuses, ForeignReload, RemoveByHand, vars, Outside

LEMMA Steps ==
    ASSUME IInv, [Next]_vars
    PROVE  \/ GivesUp \/ InFlight \/ Outside
           \/ \E cert \in {"OK", "FAILED"} : UpgradeEnds(cert)
           \/ \E r \in ApplyRequests : ApplyAccepted(r)
           \/ \E routes \in Manifests, snap \in Snapshots : SyncAccepted(routes, snap)
           \/ PlanOmitted \/ PlanKept \/ PlanRendered \/ PlanDone
           \/ CommitApply \/ CommitSync
           \/ \E f \in Fqdn : PruneCert(f)
           \/ PruneDone \/ SettleReady \/ EnsureFailed \/ Ensured \/ Settled
           \/ Respond \/ CrashRestart
<1>1. CASE CommitUpgrade
  <2>1. served = disk /\ disk = target
    BY <1>1 DEF CommitUpgrade, IInv, FlowInv, PhaseFits, CandidateIsOnDisk, Wanted,
       Recovering, ProofMeansServed
  <2>2. UpgradeEnds("OK")
    BY <1>1, <2>1 DEF CommitUpgrade, EndUpgrade, UpgradeEnds, UpgradePending, Upgrading,
       Pending
  <2> QED
    BY <2>2
<1> QED
  BY <1>1, GivesUpStep, InFlightStep, FailureStep, OutsideStep DEF Next, Receive, Work

-----------------------------------------------------------------------------
(* Names that are to lose their certificates.                                *)

LEMMA PhaseFacts ==
    ASSUME IInv
    PROVE  /\ pc = "idle" => toSettle = <<>> /\ target = EmptyTree /\ planned = NoEntries
           /\ pc \in {"idle", "plan", "prune", "settle"} => ~Upgrading
           /\ pc = "plan" => job.kind = "sync"
           /\ pc = "commit" => served = disk /\ disk = target
BY DEF IInv, FlowInv, PhaseFits, CandidateIsOnDisk, Wanted, Recovering, ProofMeansServed

LEMMA PruneStep ==
    ASSUME IInv, PruneFits, [Next]_vars
    PROVE  PruneFits'
<1> USE DEF PruneFits, UpgradePending, Pending
<1>0. IInv'
  BY NextIInv
<1>1. CASE GivesUp
  BY <1>1 DEF GivesUp
<1>2. CASE InFlight
  BY <1>2 DEF InFlight, Upgrading
<1>3. CASE Outside
  BY <1>3 DEF Outside, Upgrading
<1>4. ASSUME NEW cert \in {"OK", "FAILED"}, UpgradeEnds(cert) PROVE PruneFits'
  BY <1>4 DEF UpgradeEnds
<1>5. ASSUME NEW r \in ApplyRequests, ApplyAccepted(r) PROVE PruneFits'
  <2>1. r \in Route /\ r.fqdn \in Fqdn /\ disk \in Tree
    BY RequestsAssumption DEF Route, IInv, TypeOK, NginxTypeOK
  <2>2. toPrune' # {} => toPrune' = {r.fqdn} /\ ApplyFile(r) = NoFile
    BY <1>5 DEF ApplyAccepted, ApplyFile
  <2>3. target'[r.fqdn] = ApplyFile(r)
    BY <1>5, <2>1 DEF ApplyAccepted, Tree
  <2>4. pc' = "swap" /\ ~Upgrading'
    BY <1>5, PhaseFacts DEF ApplyAccepted, Upgrading
  <2> QED
    BY <2>2, <2>3, <2>4
<1>6. ASSUME NEW routes \in Manifests, NEW snap \in Snapshots, SyncAccepted(routes, snap)
      PROVE  PruneFits'
  BY <1>6 DEF SyncAccepted
<1>7. CASE PlanOmitted \/ PlanKept \/ PlanRendered
  BY <1>7 DEF PlanOmitted, PlanKept, PlanRendered, Planning, NextEntry
<1>8. CASE PlanDone
  <2>1. \A f \in Fqdn : target[f] \in File
    BY DEF IInv, TypeOK, Tree
  <2>2. \A f \in toPrune' : f \in Fqdn /\ ~Exists(target[f])
    BY <1>8 DEF PlanDone
  <2>3. pc' = "swap" /\ ~Upgrading' /\ target' = target
    BY <1>8, PhaseFacts DEF PlanDone, Upgrading
  <2> QED
    BY <2>1, <2>2, <2>3 DEF File, Vhost, Kind, Exists
<1>9. CASE CommitApply \/ CommitSync
  BY <1>9, PhaseFacts DEF CommitApply, CommitSync
<1>10. ASSUME NEW f \in Fqdn, PruneCert(f) PROVE PruneFits'
  BY <1>10 DEF PruneCert
<1>11. CASE PruneDone
  BY <1>11 DEF PruneDone
<1>12. CASE SettleReady \/ EnsureFailed
  BY <1>12 DEF SettleReady, EnsureFailed, Settling
<1>13. CASE Ensured
  BY <1>13 DEF Ensured, Settling
<1>14. CASE Settled \/ Respond
  BY <1>14 DEF Settled, Respond, Forgotten
<1>15. CASE CrashRestart
  BY <1>15 DEF CrashRestart, Forgotten
<1> QED
  BY <1>1, <1>2, <1>3, <1>4, <1>5, <1>6, <1>7, <1>8, <1>9, <1>10, <1>11, <1>12, <1>13,
     <1>14, <1>15, Steps

-----------------------------------------------------------------------------
(* Domains that wait for their certificates.                                 *)

LEMMA QueueHead ==
    ASSUME IInv, Settling
    PROVE  /\ pc = "settle" /\ ~Upgrading
           /\ Head(toSettle) \in Route /\ Head(toSettle).fqdn \in Fqdn
           /\ Head(toSettle) = toSettle[1] /\ 1 \in 1 .. Len(toSettle)
           /\ \A i \in 1 .. Len(Tail(toSettle)) :
                i + 1 \in 1 .. Len(toSettle) /\ Tail(toSettle)[i] = toSettle[i + 1]
<1>1. TypeOK
  BY DEF IInv
<1>2. toSettle \in Seq(Route) /\ toSettle # <<>>
  BY <1>1 DEF Settling, TypeOK
<1>3. Len(toSettle) \in Nat /\ Len(toSettle) > 0 /\ Len(Tail(toSettle)) = Len(toSettle) - 1
  BY <1>2
<1>4. \A i \in 1 .. Len(Tail(toSettle)) : Tail(toSettle)[i] = toSettle[i + 1]
  BY <1>2
<1> QED
  BY <1>1, <1>2, <1>3, <1>4, HeadType, PhaseFacts DEF Settling

\* What QueueFits says of one place in the queue.
Waits(r) ==
    /\ ~IsPlatform(r)
    /\ target[r.fqdn] \in {Rendered(r, TRUE), Rendered(r, FALSE)}
    /\ AfterCommit => disk[r.fqdn] = target[r.fqdn] /\ served[r.fqdn] = target[r.fqdn]
    /\ UpgradePending => r.fqdn # upgrading.fqdn /\ backup[r.fqdn] = target[r.fqdn]

Distinct(queue) ==
    \A i, j \in 1 .. Len(queue) : queue[j].fqdn = queue[i].fqdn => j = i

LEMMA QueueParts ==
    QueueFits <=> (pc # "respond" =>
        (\A i \in 1 .. Len(toSettle) : Waits(toSettle[i])) /\ Distinct(toSettle))
BY DEF QueueFits, Waits, Distinct

LEMMA TailDistinct ==
    ASSUME IInv, Settling, Distinct(toSettle)
    PROVE  /\ Distinct(Tail(toSettle))
           /\ \A i \in 1 .. Len(Tail(toSettle)) : Tail(toSettle)[i].fqdn # Head(toSettle).fqdn
<1>1. \A i \in 1 .. Len(Tail(toSettle)) :
         /\ i + 1 \in 1 .. Len(toSettle) /\ Tail(toSettle)[i] = toSettle[i + 1]
         /\ i + 1 # 1
  BY QueueHead
<1>2. ASSUME NEW i \in 1 .. Len(Tail(toSettle)), NEW j \in 1 .. Len(Tail(toSettle)),
             Tail(toSettle)[j].fqdn = Tail(toSettle)[i].fqdn
      PROVE  j = i
  <2>1. j + 1 = i + 1
    BY <1>1, <1>2 DEF Distinct
  <2> QED
    BY <2>1
<1>3. Head(toSettle) = toSettle[1] /\ 1 \in 1 .. Len(toSettle)
  BY QueueHead
<1> QED
  BY <1>1, <1>2, <1>3 DEF Distinct

\* The queue is settled one by one, and nothing else happens to its files.
LEMMA QueueShrinks ==
    ASSUME IInv, QueueFits, Settling, toSettle' = Tail(toSettle),
           pc' = "settle", UNCHANGED <<target, disk, served>>
    PROVE  QueueFits'
<1>1. AfterCommit
  BY QueueHead DEF AfterCommit
<1>2. ~UpgradePending'
  BY DEF UpgradePending, Pending
<1>3. Distinct(toSettle) /\ \A i \in 1 .. Len(toSettle) : Waits(toSettle[i])
  BY QueueParts DEF Settling
<1>4. \A i \in 1 .. Len(Tail(toSettle)) : Waits(Tail(toSettle)[i])
  BY <1>3, QueueHead
<1>5. \A i \in 1 .. Len(toSettle') : Waits(toSettle[i])'
  BY <1>1, <1>2, <1>4 DEF Waits
<1>6. Distinct(toSettle)'
  BY <1>3, TailDistinct
<1> QED
  BY <1>5, <1>6 DEF QueueFits, Waits, Distinct

\* A step that leaves queue, candidate and the files of the queue alone.
LEMMA QueueKept ==
    ASSUME QueueFits, pc # "respond", UNCHANGED <<toSettle, target, backup, upgrading>>,
           AfterCommit' => \A i \in 1 .. Len(toSettle) :
              LET f == toSettle[i].fqdn
              IN  disk'[f] = target[f] /\ served'[f] = target[f],
           UpgradePending' => UpgradePending
    PROVE  QueueFits'
BY DEF QueueFits

LEMMA QueueStep ==
    ASSUME IInv, QueueFits, [Next]_vars
    PROVE  QueueFits'
<1>1. CASE GivesUp \/ Settled
  BY <1>1 DEF GivesUp, Settled, QueueFits
<1>2. CASE InFlight
  <2>1. /\ pc # "respond" /\ UNCHANGED <<toSettle, target, backup, upgrading, served>>
        /\ UpgradePending' = UpgradePending /\ AfterCommit' = AfterCommit
    BY <1>2 DEF InFlight, UpgradePending, AfterCommit, Upgrading, Pending
  <2>2. AfterCommit => UpgradePending
    BY <1>2 DEF InFlight, AfterCommit, Pending
  <2>3. ASSUME AfterCommit, NEW i \in 1 .. Len(toSettle)
        PROVE  LET f == toSettle[i].fqdn
               IN  disk'[f] = target[f] /\ served'[f] = target[f]
    <3> DEFINE f == toSettle[i].fqdn
    <3>1. disk[f] = target[f] /\ served[f] = target[f] /\ backup[f] = target[f]
      BY <2>1, <2>2, <2>3 DEF QueueFits
    <3>2. disk \in Tree /\ f \in Fqdn
      <4>1. toSettle[i] \in Route
        BY DEF IInv, TypeOK
      <4> QED
        BY <4>1 DEF IInv, TypeOK, NginxTypeOK, Route
    <3>3. disk'[f] = target[f]
      BY <1>2, <3>1, <3>2 DEF InFlight, Tree
    <3> QED
      BY <2>1, <3>1, <3>3
  <2> QED
    BY <2>1, <2>3, QueueKept
<1>3. CASE Outside
  <2>1. UNCHANGED <<pc, toSettle, target, backup, upgrading, disk>> /\ served' \in {served, disk}
    BY <1>3 DEF Outside
  <2> QED
    BY <2>1 DEF QueueFits, AfterCommit, UpgradePending, Upgrading
<1>4. ASSUME NEW cert \in {"OK", "FAILED"}, UpgradeEnds(cert) PROVE QueueFits'
  <2>1. UpgradePending /\ pc # "respond" /\ ~UpgradePending' /\ AfterCommit
    BY <1>4 DEF UpgradeEnds, UpgradePending, Pending, AfterCommit
  <2> QED
    BY <1>4, <2>1 DEF UpgradeEnds, QueueFits
<1>5. ASSUME NEW r \in ApplyRequests, ApplyAccepted(r) PROVE QueueFits'
  <2>1. r \in Route /\ r.fqdn \in Fqdn /\ disk \in Tree
    BY RequestsAssumption DEF Route, IInv, TypeOK, NginxTypeOK
  <2>2. target'[r.fqdn] = ApplyFile(r)
    BY <1>5, <2>1 DEF ApplyAccepted, Tree
  <2>3. r.state = "PRESENT" => ApplyFile(r) \in {Rendered(r, TRUE), Rendered(r, FALSE)}
    BY DEF ApplyFile, CertReady, IsPlatform
  <2>4. ~UpgradePending' /\ ~AfterCommit'
    BY <1>5, PhaseFacts DEF ApplyAccepted, UpgradePending, AfterCommit, Upgrading
  <2>5. toSettle' = <<>> \/ (toSettle' = <<r>> /\ r.state = "PRESENT" /\ ~IsPlatform(r))
    BY <1>5 DEF ApplyAccepted
  <2>6. CASE toSettle' = <<>>
    BY <2>6 DEF QueueFits
  <2>7. CASE toSettle' = <<r>> /\ r.state = "PRESENT" /\ ~IsPlatform(r)
    <3>1. \A i \in 1 .. Len(toSettle') : i = 1 /\ toSettle'[i] = r
      BY <2>7
    <3> QED
      BY <2>2, <2>3, <2>4, <2>7, <3>1 DEF QueueFits
  <2> QED
    BY <2>5, <2>6, <2>7
<1>6. ASSUME NEW routes \in Manifests, NEW snap \in Snapshots, SyncAccepted(routes, snap)
      PROVE  QueueFits'
  BY <1>6, PhaseFacts DEF SyncAccepted, QueueFits
<1>7. ASSUME pc = "plan", pc' \in {"plan", "swap"}, UNCHANGED upgrading
      PROVE  ~AfterCommit' /\ ~UpgradePending' /\ pc # "respond"
  BY <1>7, PhaseFacts DEF AfterCommit, UpgradePending, Upgrading
<1>8. CASE PlanOmitted \/ PlanDone
  BY <1>7, <1>8 DEF PlanOmitted, PlanDone, Planning, NextEntry, QueueFits
<1>9. ASSUME PlanKept \/ PlanRendered
      PROVE  LET r == job.routes[idx]
             IN  /\ r \in Route /\ r.fqdn \in Fqdn /\ target \in Tree
                 /\ \A i \in 1 .. Len(toSettle) :
                      toSettle[i].fqdn # r.fqdn /\ toSettle[i].fqdn \in Fqdn
  <2> DEFINE r == job.routes[idx]
  <2>1. job.routes \in Seq(Route) /\ idx \in 1 .. Len(job.routes) /\ pc = "plan"
    <3>1. Planning
      BY <1>9 DEF PlanKept, PlanRendered
    <3> QED
      BY <3>1 DEF Planning, IInv, TypeOK, Job
  <2>2. r \in Route
    BY <2>1
  <2>3. ~Exists(target[r.fqdn]) /\ pc # "respond"
    BY <1>9, <2>1 DEF PlanKept, PlanRendered
  <2>4. \A i \in 1 .. Len(toSettle) : toSettle[i] \in Route
    BY DEF IInv, TypeOK
  <2>5. \A i \in 1 .. Len(toSettle) : Exists(target[toSettle[i].fqdn])
    BY <2>3, RenderedGen DEF QueueFits
  <2> QED
    BY <2>2, <2>3, <2>4, <2>5, Zenon DEF IInv, TypeOK, Route
<1>10. CASE PlanKept
  <2>1. /\ pc = "plan" /\ pc' = "plan" /\ UNCHANGED <<upgrading, toSettle>>
        /\ \A i \in 1 .. Len(toSettle) : target'[toSettle[i].fqdn] = target[toSettle[i].fqdn]
    BY <1>9, <1>10 DEF PlanKept, Planning, NextEntry, Tree
  <2> QED
    BY <1>7, <2>1 DEF QueueFits
<1>11. CASE PlanRendered
  <2> DEFINE r == job.routes[idx]
             n == Len(toSettle)
  <2>1. /\ pc = "plan" /\ pc' = "plan" /\ UNCHANGED upgrading
        /\ \A i \in 1 .. n : target'[toSettle[i].fqdn] = target[toSettle[i].fqdn]
        /\ target'[r.fqdn] = Rendered(r, CertReady(r))
    BY <1>9, <1>11 DEF PlanRendered, Planning, NextEntry, Tree
  <2>2. ~AfterCommit' /\ ~UpgradePending' /\ pc # "respond"
    BY <1>7, <2>1
  <2>3. CASE CertReady(r)
    <3>1. toSettle' = toSettle
      BY <1>11, <2>3 DEF PlanRendered
    <3> QED
      BY <2>1, <2>2, <3>1 DEF QueueFits
  <2>4. CASE ~CertReady(r)
    <3>1. toSettle' = Append(toSettle, r) /\ toSettle \in Seq(Route)
      BY <1>11, <2>4 DEF PlanRendered, IInv, TypeOK
    <3>2. /\ Len(toSettle') = n + 1 /\ n \in Nat /\ toSettle'[n + 1] = r
          /\ \A i \in 1 .. n : toSettle'[i] = toSettle[i]
      BY <3>1
    <3>3. target'[r.fqdn] = Rendered(r, FALSE) /\ ~IsPlatform(r)
      <4>1. Rendered(r, CertReady(r)) = Rendered(r, FALSE)
        BY <2>4 DEF Rendered
      <4> QED
        BY <2>1, <2>4, <4>1 DEF CertReady
    <3>4. \A i \in 1 .. n : toSettle[i].fqdn # r.fqdn
      BY <1>9, <1>11
    <3>5. ASSUME NEW i \in 1 .. n + 1
          PROVE  /\ ~IsPlatform(toSettle'[i])
                 /\ target'[toSettle'[i].fqdn] \in
                      {Rendered(toSettle'[i], TRUE), Rendered(toSettle'[i], FALSE)}
                 /\ \A j \in 1 .. n + 1 : toSettle'[j].fqdn = toSettle'[i].fqdn => j = i
      <4>0. \A j \in 1 .. n + 1 : j = n + 1 \/ j \in 1 .. n
        BY <3>2
      <4>1. CASE i = n + 1
        <5>1. \A j \in 1 .. n : toSettle'[j].fqdn # r.fqdn
          BY <3>2, <3>4
        <5> QED
          BY <3>2, <3>3, <4>0, <4>1, <5>1
      <4>2. CASE i \in 1 .. n
        <5>1. toSettle'[i] = toSettle[i] /\ toSettle[i].fqdn # r.fqdn
          BY <3>2, <3>4, <4>2
        <5>2. /\ ~IsPlatform(toSettle[i])
              /\ target[toSettle[i].fqdn] \in
                      {Rendered(toSettle[i], TRUE), Rendered(toSettle[i], FALSE)}
              /\ \A j \in 1 .. n : toSettle[j].fqdn = toSettle[i].fqdn => j = i
          BY <2>2, <4>2 DEF QueueFits
        <5>3. \A j \in 1 .. n : toSettle'[j].fqdn = toSettle'[i].fqdn => j = i
          BY <3>2, <5>1, <5>2
        <5> QED
          BY <2>1, <3>2, <4>0, <4>2, <5>1, <5>2, <5>3
      <4> QED
        BY <4>0, <4>1, <4>2
    <3> QED
      BY <2>2, <3>2, <3>5 DEF QueueFits
  <2> QED
    BY <2>3, <2>4
<1>12. CASE CommitApply \/ CommitSync
  <2>1. /\ pc = "commit" /\ pc' = "prune" /\ ~UpgradePending'
        /\ UNCHANGED <<toSettle, target, backup, upgrading, disk, served>>
        /\ served = disk /\ disk = target
    BY <1>12, PhaseFacts DEF CommitApply, CommitSync, UpgradePending, Pending
  <2> QED
    BY <2>1, QueueKept
<1>13. CASE PruneDone \/ \E f \in Fqdn : PruneCert(f)
  BY <1>13 DEF PruneDone, PruneCert, QueueFits, AfterCommit, UpgradePending, Pending
<1>14. CASE SettleReady \/ EnsureFailed
  BY <1>14, QueueShrinks DEF SettleReady, EnsureFailed, Settling
<1>15. CASE Ensured
  <2> DEFINE r == Head(toSettle)
  <2>1. /\ Settling /\ upgrading' = r /\ pc' = "swap" /\ toSettle' = Tail(toSettle)
        /\ UNCHANGED <<disk, served>>
        /\ target' = [disk EXCEPT ![r.fqdn] = Rendered(r, TRUE)]
        /\ backup' = disk \/ backup' = [disk EXCEPT ![r.fqdn] = NoFile]
    BY <1>15 DEF Ensured, ReadBack
  <2>2. AfterCommit /\ pc # "respond" /\ disk \in Tree
    BY <2>1, QueueHead DEF AfterCommit, IInv, TypeOK, NginxTypeOK
  <2>3. ASSUME NEW i \in 1 .. Len(toSettle')
        PROVE  LET q == toSettle'[i]
               IN  /\ q = toSettle[i + 1] /\ i + 1 \in 1 .. Len(toSettle)
                   /\ q.fqdn # r.fqdn
                   /\ target'[q.fqdn] = disk[q.fqdn] /\ backup'[q.fqdn] = disk[q.fqdn]
    <3> DEFINE q == toSettle'[i]
    <3>1. q = toSettle[i + 1] /\ i + 1 \in 1 .. Len(toSettle) /\ r = toSettle[1]
          /\ 1 \in 1 .. Len(toSettle) /\ i \in Nat /\ i + 1 # 1
      BY <2>1, QueueHead
    <3>2. q.fqdn # r.fqdn
      BY <2>2, <3>1 DEF QueueFits
    <3>3. q \in Route
      BY <3>1 DEF IInv, TypeOK
    <3>4. q.fqdn \in Fqdn
      BY <3>3 DEF Route
    <3> QED
      BY <2>1, <2>2, <3>1, <3>2, <3>4 DEF Tree
  <2>4. Distinct(toSettle) /\ \A i \in 1 .. Len(toSettle) : Waits(toSettle[i])
    BY <2>2, QueueParts
  <2>5. \A i \in 1 .. Len(toSettle') : Waits(toSettle[i])'
    <3> SUFFICES ASSUME NEW i \in 1 .. Len(toSettle') PROVE Waits(toSettle[i])'
      OBVIOUS
    <3>1. Waits(toSettle[i + 1]) /\ toSettle'[i] = toSettle[i + 1]
      BY <2>3, <2>4
    <3>2. /\ target'[toSettle'[i].fqdn] = disk[toSettle'[i].fqdn]
          /\ backup'[toSettle'[i].fqdn] = disk[toSettle'[i].fqdn]
          /\ toSettle'[i].fqdn # upgrading'.fqdn
      BY <2>1, <2>3
    <3> QED
      BY <2>1, <2>2, <3>1, <3>2 DEF Waits
  <2>6. Distinct(toSettle)'
    BY <2>1, <2>4, TailDistinct
  <2> QED
    BY <2>5, <2>6 DEF QueueFits, Waits, Distinct
<1>16. CASE Respond \/ CrashRestart
  BY <1>16 DEF Respond, CrashRestart, Forgotten, QueueFits
<1> QED
  BY <1>1, <1>2, <1>3, <1>4, <1>5, <1>6, <1>8, <1>10, <1>11, <1>12, <1>13, <1>14, <1>15,
     <1>16, Steps


-----------------------------------------------------------------------------
(* Withdrawals.                                                              *)

LEMMA SetCertEntries ==
    ASSUME IInv, NEW f \in Fqdn, NEW cert, SetCert(f, cert)
    PROVE  /\ \A g \in Fqdn \ {f} : store'.entries[g] = store.entries[g]
           /\ store'.entries[f].known /\ store'.entries[f].cert = cert
           /\ store'.entries[f].gen = store.entries[f].gen
           /\ store'.entries[f].present = store.entries[f].present
<1>1. store \in StoreState /\ store.entries[f] \in Entry
  BY DEF IInv, TypeOK, StoreTypeOK, StoreState, Entries
<1>2. store'.entries = [store.entries EXCEPT ![f] = WithCert(store.entries[f], cert)]
  BY <1>1 DEF SetCert, Persist, StoreState
<1>3. \A g \in Fqdn : store'.entries[g] = IF g = f THEN WithCert(store.entries[f], cert)
                                          ELSE store.entries[g]
  BY <1>1, <1>2 DEF StoreState, Entries
<1> QED
  BY <1>1, <1>3 DEF WithCert, Entry

LEMMA WithdrawalStep ==
    ASSUME IInv, PruneFits, WithdrawalFits, [Next]_vars
    PROVE  WithdrawalFits'
<1> USE DEF WithdrawalFits, BeforeCommit, Pending
<1>1. CASE GivesUp
  BY <1>1 DEF GivesUp
<1>2. CASE InFlight
  BY <1>2 DEF InFlight, Upgrading
<1>3. CASE Outside
  BY <1>3 DEF Outside, Upgrading, Cleaned
<1>4. ASSUME NEW cert \in {"OK", "FAILED"}, UpgradeEnds(cert) PROVE WithdrawalFits'
  BY <1>4 DEF UpgradeEnds, UpgradePending
<1>5. ASSUME NEW r \in ApplyRequests, ApplyAccepted(r) PROVE WithdrawalFits'
  <2>1. pc' = "swap" /\ ~Upgrading' /\ job'.routes[1] = r
    BY <1>5, PhaseFacts DEF ApplyAccepted, Upgrading
  <2> QED
    BY <1>5, <2>1 DEF ApplyAccepted
<1>6. ASSUME NEW routes \in Manifests, NEW snap \in Snapshots, SyncAccepted(routes, snap)
      PROVE  WithdrawalFits'
  BY <1>6 DEF SyncAccepted
<1>7. CASE PlanOmitted \/ PlanKept \/ PlanRendered \/ PlanDone
  BY <1>7, PhaseFacts DEF PlanOmitted, PlanKept, PlanRendered, PlanDone, Planning, NextEntry
<1>8. CASE CommitApply \/ CommitSync
  BY <1>8 DEF CommitApply, CommitSync, Upgrading
<1>9. ASSUME NEW g \in Fqdn, PruneCert(g) PROVE WithdrawalFits'
  <2> DEFINE f == job.routes[1].fqdn
  <2> SUFFICES ASSUME job.kind = "apply", job.routes[1].state = "ABSENT"
               PROVE  f \in toPrune' \/ Cleaned(f)'
    BY <1>9 DEF PruneCert, Upgrading
  <2>1. toPrune' = toPrune \ {g} /\ pc = "prune" /\ (f \in toPrune \/ Cleaned(f))
    BY <1>9 DEF PruneCert
  <2>2. toPrune \subseteq Fqdn
    BY DEF IInv, TypeOK
  <2>3. CASE f = g
    BY <1>9, <2>3, SetCertEntries
    DEF PruneCert, Cleaned, LineageExists, DeleteSucceeds, DeleteInterrupted
  <2>4. CASE f # g /\ f \in toPrune
    BY <2>1, <2>4
  <2>5. CASE f # g /\ f \notin toPrune
    <3>1. f \in lineage' => f \in lineage
      BY <1>9 DEF PruneCert, DeleteSucceeds, DeleteInterrupted
    <3>2. \/ store' = store
          \/ SetCert(g, "FAILED")
      BY <1>9 DEF PruneCert
    <3>3. f \in lineage => store'.entries[f].cert = "FAILED"
      <4>1. CASE f \in Fqdn
        BY <2>1, <2>5, <3>2, <4>1, SetCertEntries DEF Cleaned
      <4>2. CASE f \notin Fqdn
        BY <4>2 DEF IInv, TypeOK, CertTypeOK
      <4> QED
        BY <4>1, <4>2
    <3> QED
      BY <1>9, <3>1, <3>3 DEF Cleaned, PruneCert
  <2> QED
    BY <2>3, <2>4, <2>5
<1>10. CASE PruneDone
  BY <1>10 DEF PruneDone, Cleaned, Upgrading
<1>11. CASE SettleReady \/ EnsureFailed \/ Ensured
  BY <1>11 DEF SettleReady, EnsureFailed, Ensured, Settling
<1>12. CASE Settled
  BY <1>12 DEF Settled, Cleaned
<1>13. CASE Respond \/ CrashRestart
  BY <1>13 DEF Respond, CrashRestart, Forgotten, NoJob
<1> QED
  BY <1>1, <1>2, <1>3, <1>4, <1>5, <1>6, <1>7, <1>8, <1>9, <1>10, <1>11, <1>12, <1>13,
     Steps

-----------------------------------------------------------------------------
(* Lines of the record.                                                      *)

\* Planning one entry of a manifest.
LEMMA PlanOne ==
    ASSUME IInv, PlanKept \/ PlanRendered
    PROVE  LET r == job.routes[idx]
               f == r.fqdn
           IN  /\ r \in Route /\ f \in Fqdn /\ r.gen \in Nat /\ idx \in 1 .. Len(job.routes)
               /\ pc = "plan" /\ pc' = "plan" /\ ~Upgrading /\ ~Upgrading'
               /\ job.kind = "sync" /\ ~Exists(target[f])
               /\ idx' = idx + 1
               /\ UNCHANGED <<store, saved, certVars, disk, served, backup, job, toPrune>>
               /\ \A g \in Fqdn \ {f} : target'[g] = target[g] /\ planned'[g] = planned[g]
<1> DEFINE r == job.routes[idx]
           f == r.fqdn
<1>1. Planning
  BY DEF PlanKept, PlanRendered
<1>2. job.routes \in Seq(Route) /\ idx \in 1 .. Len(job.routes)
  BY <1>1 DEF Planning, IInv, TypeOK, Job
<1>3. r \in Route
  BY <1>2
<1>4. f \in Fqdn /\ r.gen \in Nat
  BY <1>3 DEF Route
<1>5. pc = "plan" /\ pc' = "plan" /\ ~Upgrading /\ ~Upgrading' /\ job.kind = "sync"
  BY <1>1, PhaseFacts DEF PlanKept, PlanRendered, Planning, NextEntry, Upgrading
<1>6. \A g \in Fqdn \ {f} : target'[g] = target[g] /\ planned'[g] = planned[g]
  BY DEF PlanKept, PlanRendered, IInv, TypeOK, Tree, Entries
<1> QED
  BY <1>2, <1>3, <1>4, <1>5, <1>6 DEF PlanKept, PlanRendered, NextEntry

\* The entry that the stale guard keeps, with its file.
LEMMA KeptOne ==
    ASSUME IInv, PlanKept
    PROVE  LET f   == job.routes[idx].fqdn
               cur == store.entries[f]
           IN  /\ cur.known
               /\ target'[f] = IF cur.present THEN backup[f] ELSE NoFile
               /\ planned'[f] = [cur EXCEPT !.present = Exists(target'[f])]
               /\ kept' = kept \cup {f} /\ UNCHANGED toSettle
<1> DEFINE f == job.routes[idx].fqdn
<1>1. f \in Fqdn /\ target \in Tree /\ planned \in Entries
  BY PlanOne DEF IInv, TypeOK
<1> QED
  BY <1>1 DEF PlanKept, KeptEntry, Outdated, Tree, Entries

LEMMA RenderedOne ==
    ASSUME IInv, PlanRendered
    PROVE  LET r == job.routes[idx]
               f == r.fqdn
           IN  /\ r.state # "ABSENT" /\ Valid(r)
               /\ target'[f] = Rendered(r, CertReady(r))
               /\ planned'[f] = EntryOf(r.gen, TRUE, SyncCert(r))
               /\ toSettle' = IF CertReady(r) THEN toSettle ELSE Append(toSettle, r)
               /\ UNCHANGED kept
<1> DEFINE f == job.routes[idx].fqdn
<1>1. f \in Fqdn /\ target \in Tree /\ planned \in Entries
  BY PlanOne DEF IInv, TypeOK
<1> QED
  BY <1>1 DEF PlanRendered, Tree, Entries


LEMMA EntryFields ==
    ASSUME NEW gen, NEW present, NEW cert, NEW e, e = EntryOf(gen, present, cert)
    PROVE  e.known /\ e.gen = gen /\ e.present = present /\ e.cert = cert
BY DEF EntryOf

\* An apply plans one name.
LEMMA ApplyOne ==
    ASSUME IInv, NEW r \in ApplyRequests, ApplyAccepted(r)
    PROVE  LET f == r.fqdn
               e == planned'[f]
           IN  /\ r \in Route /\ f \in Fqdn /\ r.gen \in Nat
               /\ pc' = "swap" /\ ~Upgrading' /\ job'.kind = "apply"
               /\ UNCHANGED <<storeVars, certVars, disk, served, kept>>
               /\ backup' = disk
               /\ target'[f] = ApplyFile(r)
               /\ e.known /\ e.gen = r.gen /\ e.cert = ""
               /\ e.present <=> r.state = "PRESENT"
               /\ e.present = Exists(target'[f])
               /\ Exists(target'[f]) => target'[f].gen = r.gen
               /\ \A g \in Fqdn \ {f} : ~planned'[g].known /\ target'[g] = disk[g]
<1> DEFINE f == r.fqdn
<1>0. PICK p \in BOOLEAN : p <=> r.state = "PRESENT"
  OBVIOUS
<1>10. PICK none \in CertState : none = ""
  BY DEF CertState
<1>1. r \in Route /\ f \in Fqdn /\ r.gen \in Nat /\ disk \in Tree /\ NoEntries \in Entries
  BY RequestsAssumption, EmptyTypes DEF Route, IInv, TypeOK, NginxTypeOK
<1>2. target'[f] = ApplyFile(r) /\ \A g \in Fqdn \ {f} : target'[g] = disk[g]
  BY <1>1 DEF ApplyAccepted, Tree
<1>3. /\ planned'[f] = EntryOf(r.gen, p, none)
      /\ \A g \in Fqdn \ {f} : planned'[g] = NoEntry
  BY <1>0, <1>1, <1>10 DEF ApplyAccepted, NoEntries
<1>4. /\ planned'[f].known /\ planned'[f].gen = r.gen /\ planned'[f].cert = none
      /\ planned'[f].present = p
  BY <1>3 DEF EntryOf
<1>5. /\ Exists(ApplyFile(r)) = p
      /\ Exists(ApplyFile(r)) => ApplyFile(r).gen = r.gen
  BY <1>0, RenderedGen DEF ApplyAccepted, ApplyFile, Valid, Exists, NoFile, CertReady, IsPlatform
<1>6. pc' = "swap" /\ ~Upgrading' /\ job'.kind = "apply"
  BY PhaseFacts DEF ApplyAccepted, Upgrading
<1>7. \A g \in Fqdn \ {f} : ~planned'[g].known
  <2>1. ~NoEntry.known
    BY DEF NoEntry
  <2> QED
    BY <1>3, <2>1, Zenon
<1>8. planned'[f].present = Exists(target'[f])
  BY <1>2, <1>3, <1>4, <1>5, Zenon
<1>9. UNCHANGED <<storeVars, certVars, disk, served, kept>> /\ backup' = disk
  BY DEF ApplyAccepted
<1> QED
  BY <1>0, <1>1, <1>2, <1>4, <1>5, <1>6, <1>7, <1>8, <1>9, <1>10, Zenon

LEMMA LinesStep ==
    ASSUME IInv, LinesFit, [Next]_vars
    PROVE  LinesFit'
<1> USE DEF LinesFit, BeforeCommit, UpgradePending, Pending
<1>1. CASE GivesUp \/ InFlight
  BY <1>1 DEF GivesUp, InFlight, LineFits, Upgrading
<1>2. CASE Outside
  BY <1>2 DEF Outside, LineFits, Upgrading
<1>3. ASSUME NEW cert \in {"OK", "FAILED"}, UpgradeEnds(cert) PROVE LinesFit'
  BY <1>3 DEF UpgradeEnds
<1>4. ASSUME NEW r \in ApplyRequests, ApplyAccepted(r) PROVE LinesFit'
  <2>1. LineFits(r.fqdn)' /\ \A f \in Fqdn : planned'[f].known => f = r.fqdn
    BY <1>4, ApplyOne, Zenon DEF LineFits
  <2> QED
    BY <1>4, <2>1, ApplyOne, Zenon
<1>5. ASSUME NEW routes \in Manifests, NEW snap \in Snapshots, SyncAccepted(routes, snap)
      PROVE  LinesFit'
  <2>1. planned' = NoEntries /\ target' = EmptyTree /\ pc' = "plan" /\ ~Upgrading'
    BY <1>5, PhaseFacts DEF SyncAccepted, Upgrading
  <2> QED
    BY <2>1 DEF NoEntries, NoEntry, EmptyTree
<1>6. CASE PlanOmitted \/ PlanDone
  <2>1. /\ pc = "plan" /\ ~Upgrading /\ pc' \in {"plan", "swap"}
        /\ UNCHANGED <<storeVars, planned, target, job, upgrading>>
    BY <1>6, PhaseFacts DEF PlanOmitted, PlanDone, Planning, NextEntry
  <2> QED
    BY <2>1 DEF LineFits, Upgrading
<1>7. ASSUME PlanKept \/ PlanRendered, NEW f, f = job.routes[idx].fqdn,
             LineFits(f)', planned'[f].known
      PROVE  LinesFit'
  <2>1. /\ pc = "plan" /\ pc' = "plan" /\ ~Upgrading /\ ~Upgrading' /\ job' = job
        /\ store' = store
        /\ \A g \in Fqdn \ {f} : target'[g] = target[g] /\ planned'[g] = planned[g]
    BY <1>7, PlanOne
  <2>2. \A g \in Fqdn \ {f} : planned'[g].known => LineFits(g)'
    BY <2>1 DEF LineFits
  <2> QED
    BY <1>7, <2>1, <2>2
<1>8. CASE PlanKept
  <2> SUFFICES ASSUME NEW f, f = job.routes[idx].fqdn PROVE LinesFit'
    OBVIOUS
  <2>1. f \in Fqdn /\ store' = store /\ store.entries[f] \in Entry
    BY <1>8, PlanOne DEF IInv, TypeOK, StoreTypeOK, StoreState, Entries
  <2>2. /\ store.entries[f].known
        /\ target'[f] = IF store.entries[f].present THEN backup[f] ELSE NoFile
        /\ planned'[f] = [store.entries[f] EXCEPT !.present = Exists(target'[f])]
    BY <1>8, KeptOne
  <2>3. /\ planned'[f].known /\ planned'[f].gen = store.entries[f].gen
        /\ planned'[f].present = Exists(target'[f])
    BY <2>1, <2>2 DEF Entry
  <2>4. ~store.entries[f].present => ~Exists(target'[f])
    BY <2>2 DEF Exists, NoFile
  <2>5. store.entries[f].present \in BOOLEAN
    BY <2>1 DEF Entry
  <2>6. LineFits(f)' \/ planned'[f].present # store.entries[f].present
    BY <2>1, <2>2, <2>3 DEF LineFits
  <2>7. ~Exists(target'[f]) => LineFits(f)'
    BY <2>3 DEF LineFits
  <2>8. Exists(target'[f]) => planned'[f].present = store.entries[f].present
    BY <2>3, <2>4, <2>5 DEF Exists
  <2> QED
    BY <1>7, <1>8, <2>3, <2>6, <2>7, <2>8
<1>9. CASE PlanRendered
  <2> SUFFICES ASSUME NEW r, r = job.routes[idx] PROVE LinesFit'
    OBVIOUS
  <2>1. /\ target'[r.fqdn] = Rendered(r, CertReady(r))
        /\ planned'[r.fqdn] = EntryOf(r.gen, TRUE, SyncCert(r))
    BY <1>9, RenderedOne
  <2>2. Exists(Rendered(r, CertReady(r))) /\ Rendered(r, CertReady(r)).gen = r.gen
    BY RenderedGen DEF CertReady, IsPlatform
  <2>3. /\ planned'[r.fqdn].known /\ planned'[r.fqdn].gen = r.gen
        /\ planned'[r.fqdn].present = Exists(target'[r.fqdn])
    <3>1. Exists(target'[r.fqdn]) = TRUE
      BY <2>1, <2>2 DEF Exists
    <3>2. planned'[r.fqdn].known /\ planned'[r.fqdn].gen = r.gen
      BY <2>1 DEF EntryOf
    <3>3. planned'[r.fqdn].present = TRUE
      BY <2>1 DEF EntryOf
    <3> QED
      BY <3>1, <3>2, <3>3, Zenon
  <2>4. LineFits(r.fqdn)'
    BY <2>1, <2>2, <2>3 DEF LineFits
  <2> QED
    BY <1>7, <1>9, <2>3, <2>4
<1>10. CASE CommitApply \/ CommitSync \/ PruneDone \/ \E f \in Fqdn : PruneCert(f)
  BY <1>10 DEF CommitApply, CommitSync, PruneDone, PruneCert
<1>11. CASE SettleReady \/ EnsureFailed \/ Settled
  BY <1>11 DEF SettleReady, EnsureFailed, Settling, Settled
<1>12. CASE Ensured
  <2>1. Settling /\ upgrading' = Head(toSettle) /\ pc' = "swap" /\ store' = store
    BY <1>12 DEF Ensured
  <2>2. \A i \in 1 .. Len(toSettle) :
           /\ store.entries[toSettle[i].fqdn].known
           /\ store.entries[toSettle[i].fqdn].gen = toSettle[i].gen
    BY <2>1, QueueHead DEF IInv, PlanInv, SettleFits
  <2>3. Upgrading' /\ store.entries[upgrading'.fqdn].known
        /\ store.entries[upgrading'.fqdn].gen = upgrading'.gen
    <3>1. Head(toSettle) \in Route /\ Head(toSettle) = toSettle[1] /\ 1 \in 1 .. Len(toSettle)
      BY <2>1, QueueHead
    <3>2. Head(toSettle).state # NoRoute.state
      BY <3>1 DEF Route, NoRoute
    <3> QED
      BY <2>1, <2>2, <3>1, <3>2 DEF Upgrading
  <2> QED
    BY <2>1, <2>3
<1>13. CASE Respond \/ CrashRestart
  BY <1>13 DEF Respond, CrashRestart, Forgotten
<1> QED
  BY <1>1, <1>2, <1>3, <1>4, <1>5, <1>6, <1>8, <1>9, <1>10, <1>11, <1>12, <1>13, Steps

\* Every write of the record, to the map and, unless it fails, to the file.
LEMMA AbsentStep ==
    ASSUME IInv, UnknownIsAbsent, [Next]_vars
    PROVE  UnknownIsAbsent'
<1>1. /\ store \in StoreState /\ planned \in Entries
  BY DEF IInv, TypeOK, StoreTypeOK
<1>2. ASSUME NEW new, Persist(new),
             \A f \in Fqdn : new.entries[f].present => new.entries[f].known
      PROVE  UnknownIsAbsent'
  BY <1>2 DEF Persist, UnknownIsAbsent
<1>3. ASSUME NEW f \in Fqdn, NEW cert, SetCert(f, cert) PROVE UnknownIsAbsent'
  <2>1. \A g \in Fqdn : store'.entries[g].present => store'.entries[g].known
    BY <1>3, SetCertEntries DEF UnknownIsAbsent
  <2>2. saved' = store' \/ saved' = saved
    BY <1>3 DEF SetCert, Persist
  <2> QED
    BY <2>1, <2>2 DEF UnknownIsAbsent
<1>4. CASE CommitApply
  <2>1. PICK f : f = job.routes[1].fqdn
    OBVIOUS
  <2>2. f \in Fqdn /\ planned[f].known /\ Record(f, planned[f])
    BY <1>4, <2>1 DEF CommitApply, IInv, PlanInv, PlannedFits, Pending
  <2>3. \A g \in Fqdn : [store EXCEPT !.entries[f] = planned[f]].entries[g] =
                           IF g = f THEN planned[f] ELSE store.entries[g]
    BY <1>1, <2>2 DEF StoreState, Entries
  <2> QED
    BY <1>2, <2>2, <2>3 DEF Record, UnknownIsAbsent
<1>5. CASE CommitSync
  <2>1. \A f \in Fqdn : Merged(store.entries, planned)[f].present =>
                           Merged(store.entries, planned)[f].known
    <3>1. \A f \in Fqdn : store.entries[f] \in Entry
      BY <1>1 DEF StoreState, Entries
    <3>2. \A f \in Fqdn : Tombstone(store.entries[f]).present = FALSE
      BY <3>1 DEF Tombstone, Entry
    <3> QED
      BY <3>2 DEF Merged
  <2> QED
    BY <1>2, <1>5, <2>1 DEF CommitSync, ReplaceAll
<1>6. CASE UNCHANGED storeVars \/ Reload
  BY <1>6 DEF Reload, UnknownIsAbsent
<1> QED
  BY <1>3, <1>4, <1>5, <1>6, StoreStep DEF IInv

\* What a sync is going to tell the store, and has told it.
LEMMA RepairStep ==
    ASSUME IInv, PruneFits, LinesFit, RepairFits, [Next]_vars
    PROVE  RepairFits'
<1> USE DEF RepairFits, SyncRepairsTheRecord, BeforeCommit, Pending
<1>1. CASE GivesUp \/ InFlight
  BY <1>1 DEF GivesUp, InFlight, Upgrading
<1>2. CASE Outside
  BY <1>2 DEF Outside, PruneFits, Upgrading
<1>3. ASSUME NEW cert \in {"OK", "FAILED"}, UpgradeEnds(cert) PROVE RepairFits'
  BY <1>3 DEF UpgradeEnds
<1>4. ASSUME NEW r \in ApplyRequests, ApplyAccepted(r) PROVE RepairFits'
  BY <1>4, ApplyOne
<1>5. ASSUME NEW routes \in Manifests, NEW snap \in Snapshots, SyncAccepted(routes, snap)
      PROVE  RepairFits'
  <2>1. planned' = NoEntries /\ pc' = "plan"
    BY <1>5, PhaseFacts DEF SyncAccepted
  <2> QED
    BY <2>1 DEF NoEntries, NoEntry
<1>6. CASE PlanOmitted \/ PlanDone
  <2>1. /\ pc = "plan" /\ ~Upgrading /\ pc' \in {"plan", "swap"}
        /\ UNCHANGED <<planned, target, job>>
    BY <1>6, PhaseFacts DEF PlanOmitted, PlanDone, Planning, NextEntry
  <2> QED
    BY <2>1
<1>7. CASE PlanKept \/ PlanRendered
  <2> SUFFICES ASSUME NEW f, f = job.routes[idx].fqdn PROVE RepairFits'
    OBVIOUS
  <2>1. planned'[f].present = Exists(target'[f])
    <3>1. CASE PlanKept
      <4>1. store.entries[f] \in Entry
        BY <3>1, PlanOne DEF IInv, TypeOK, StoreTypeOK, StoreState, Entries
      <4>2. planned'[f] = [store.entries[f] EXCEPT !.present = Exists(target'[f])]
        BY <3>1, KeptOne
      <4> QED
        BY <4>1, <4>2 DEF Entry
    <3>2. CASE PlanRendered
      <4> DEFINE r == job.routes[idx]
      <4>1. target'[f] = Rendered(r, CertReady(r)) /\ planned'[f].present = TRUE
        BY <3>2, RenderedOne DEF EntryOf
      <4>2. Exists(Rendered(r, CertReady(r))) = TRUE
        BY RenderedGen DEF CertReady, IsPlatform, Exists
      <4> QED
        BY <4>1, <4>2
    <3> QED
      BY <1>7, <3>1, <3>2
  <2> QED
    BY <1>7, <2>1, PlanOne
<1>8. CASE CommitSync
  <2>1. /\ pc = "commit" /\ pc' = "prune" /\ job.kind = "sync" /\ ~Upgrading
        /\ UNCHANGED <<disk, served>> /\ served = disk /\ disk = target
    BY <1>8, PhaseFacts DEF CommitSync
  <2>2. store'.entries = Merged(store.entries, planned)
    BY <1>8 DEF CommitSync, ReplaceAll, Persist
  <2>3. ASSUME NEW f \in Fqdn PROVE store'.entries[f].present = Exists(target[f])
    <3>1. CASE planned[f].known
      BY <2>1, <2>2, <3>1 DEF Merged
    <3>2. CASE ~planned[f].known
      <4>1. target[f] = NoFile
        BY <2>1, <3>2 DEF LinesFit
      <4>2. store.entries[f] \in Entry
        BY DEF IInv, TypeOK, StoreTypeOK, StoreState, Entries
      <4>3. store'.entries[f] = Tombstone(store.entries[f])
        BY <2>2, <3>2 DEF Merged
      <4>4. store'.entries[f].present = FALSE
        BY <4>2, <4>3 DEF Tombstone, Entry
      <4>5. Exists(target[f]) = FALSE
        BY <4>1 DEF Exists, NoFile
      <4> QED
        BY <4>4, <4>5, Zenon
    <3> QED
      BY <3>1, <3>2
  <2> QED
    BY <2>1, <2>3
<1>9. ASSUME NEW f \in Fqdn, PruneCert(f) PROVE RepairFits'
  <2>1. \A g \in Fqdn : store'.entries[g].present = store.entries[g].present
    BY <1>9, SetCertEntries DEF PruneCert
  <2>2. pc = "prune" /\ pc' = "prune" /\ UNCHANGED <<disk, served, job>>
    BY <1>9 DEF PruneCert
  <2> QED
    BY <2>1, <2>2
<1>10. CASE CommitApply \/ PruneDone
  BY <1>10 DEF CommitApply, PruneDone
<1>11. CASE SettleReady \/ EnsureFailed \/ Settled
  BY <1>11 DEF SettleReady, EnsureFailed, Settling, Settled
<1>12. CASE Ensured
  <2>1. Settling /\ upgrading' = Head(toSettle) /\ pc' = "swap"
    BY <1>12 DEF Ensured
  <2>2. Upgrading'
    <3>1. Head(toSettle) \in Route
      BY <2>1, QueueHead
    <3>2. Head(toSettle).state # NoRoute.state
      BY <3>1 DEF Route, NoRoute
    <3> QED
      BY <2>1, <3>2 DEF Upgrading
  <2> QED
    BY <2>1, <2>2
<1>13. CASE Respond \/ CrashRestart
  BY <1>13 DEF Respond, CrashRestart, Forgotten
<1> QED
  BY <1>1, <1>2, <1>3, <1>4, <1>5, <1>6, <1>7, <1>8, <1>9, <1>10, <1>11, <1>12, <1>13, Steps

-----------------------------------------------------------------------------
(* Certificates of the vhosts that need one.                                 *)

\* Trees, old or new, under the certificates of now.
CertifiedBy(tree, certs) == \A f \in Fqdn : tree[f].kind = "https" => f \in certs

LEMMA CertifiedPut ==
    ASSUME NEW tree \in Tree, NEW certs, NEW f \in Fqdn, NEW file,
           CertifiedBy(tree, certs), file.kind = "https" => f \in certs
    PROVE  CertifiedBy([tree EXCEPT ![f] = file], certs)
BY DEF CertifiedBy, Tree

LEMMA CertifiedMore ==
    ASSUME NEW tree, NEW certs, NEW more, CertifiedBy(tree, certs), certs \subseteq more
    PROVE  CertifiedBy(tree, more)
BY DEF CertifiedBy

LEMMA CertifiedParts ==
    CertifiedInv <=> /\ CertifiedBy(disk, live) /\ CertifiedBy(served, live)
                     /\ pc \in Pending => CertifiedBy(target, live) /\ CertifiedBy(backup, live)
BY DEF CertifiedInv, Certified, CertifiedBy

LEMMA HttpsNeedsCert ==
    ASSUME NEW r, Rendered(r, CertReady(r)).kind = "https"
    PROVE  r.fqdn \in live
BY DEF Rendered, CertReady

LEMMA TreeTypes ==
    ASSUME IInv
    PROVE  {disk, served, target, backup} \subseteq Tree
BY DEF IInv, TypeOK, NginxTypeOK

\* Deleting certificates of names that are in no file.
LEMMA CertifiedPrune ==
    ASSUME IInv, PruneFits, CertifiedInv, NEW f \in Fqdn, f \in toPrune, pc = "prune",
           live' \in {live, live \ {f}}
    PROVE  CertifiedBy(disk, live') /\ CertifiedBy(served, live')
<1>1. target[f] = NoFile /\ served = disk /\ disk = target
  BY DEF PruneFits
<1>2. disk[f].kind # "https" /\ served[f].kind # "https"
  BY <1>1 DEF NoFile
<1> QED
  BY <1>2, CertifiedParts DEF CertifiedBy

LEMMA CertifiedStep ==
    ASSUME "hand" \notin Faults, IInv, PruneFits, CertifiedInv, [Next]_vars
    PROVE  CertifiedInv'
<1>0. /\ CertifiedBy(disk, live) /\ CertifiedBy(served, live)
      /\ pc \in Pending => CertifiedBy(target, live) /\ CertifiedBy(backup, live)
  BY CertifiedParts
<1> DEFINE Goal == /\ CertifiedBy(disk', live') /\ CertifiedBy(served', live')
                   /\ pc' \in Pending =>
                        CertifiedBy(target', live') /\ CertifiedBy(backup', live')
<1> SUFFICES Goal
  BY DEF CertifiedInv, Certified, CertifiedBy
<1>1. CASE GivesUp \/ Settled
  BY <1>0, <1>1 DEF GivesUp, Settled, Pending
<1>2. CASE InFlight
  <2>1. /\ pc \in Pending /\ live' = live /\ UNCHANGED <<served, target, backup>>
        /\ \/ disk' = disk
           \/ \E f \in Fqdn : disk' = [disk EXCEPT ![f] = target[f]]
           \/ \E f \in Fqdn : disk' = [disk EXCEPT ![f] = backup[f]]
    BY <1>2 DEF InFlight
  <2>2. ASSUME NEW f \in Fqdn
        PROVE  /\ CertifiedBy([disk EXCEPT ![f] = target[f]], live)
               /\ CertifiedBy([disk EXCEPT ![f] = backup[f]], live)
    <3>1. disk \in Tree
      BY TreeTypes
    <3>2. /\ target[f].kind = "https" => f \in live
          /\ backup[f].kind = "https" => f \in live
      BY <1>0, <2>1 DEF CertifiedBy
    <3> QED
      BY <1>0, <3>1, <3>2, CertifiedPut
  <2> QED
    BY <1>0, <2>1, <2>2
<1>3. CASE Outside
  BY <1>0, <1>3 DEF Outside
<1>4. ASSUME NEW cert \in {"OK", "FAILED"}, UpgradeEnds(cert) PROVE Goal
  BY <1>0, <1>4 DEF UpgradeEnds, Pending
<1>5. ASSUME NEW r \in ApplyRequests, ApplyAccepted(r) PROVE Goal
  <2>1. /\ r.fqdn \in Fqdn /\ disk \in Tree /\ live' = live
        /\ UNCHANGED <<disk, served>> /\ backup' = disk
        /\ target' = [disk EXCEPT ![r.fqdn] = ApplyFile(r)]
    BY <1>5, ApplyOne, TreeTypes DEF ApplyAccepted
  <2>2. ApplyFile(r).kind = "https" => r.fqdn \in live
    BY HttpsNeedsCert DEF ApplyFile, NoFile
  <2>3. CertifiedBy([disk EXCEPT ![r.fqdn] = ApplyFile(r)], live)
    BY <1>0, <2>1, <2>2, CertifiedPut
  <2> QED
    BY <1>0, <2>1, <2>3
<1>6. ASSUME NEW routes \in Manifests, NEW snap \in Snapshots, SyncAccepted(routes, snap)
      PROVE  Goal
  <2>1. CertifiedBy(EmptyTree, live)
    BY DEF CertifiedBy, EmptyTree, NoFile
  <2>2. target' = EmptyTree /\ backup' = disk /\ UNCHANGED <<live, disk, served>>
    BY <1>6, PhaseFacts DEF SyncAccepted
  <2> QED
    BY <1>0, <2>1, <2>2
<1>7. CASE PlanOmitted \/ PlanDone
  BY <1>0, <1>7 DEF PlanOmitted, PlanDone, Planning, NextEntry, Pending
<1>8. CASE PlanKept
  <2> DEFINE f == job.routes[idx].fqdn
  <2>1. /\ f \in Fqdn /\ pc = "plan" /\ UNCHANGED <<live, disk, served, backup>>
        /\ \A g \in Fqdn \ {f} : target'[g] = target[g]
    BY <1>8, PlanOne
  <2>2. target'[f] = backup[f] \/ target'[f] = NoFile
    BY <1>8, KeptOne
  <2>3. pc \in Pending
    BY <2>1 DEF Pending
  <2>4. target'[f].kind = "https" => f \in live
    BY <1>0, <2>1, <2>2, <2>3 DEF CertifiedBy, NoFile
  <2>5. CertifiedBy(target', live)
    BY <1>0, <2>1, <2>3, <2>4 DEF CertifiedBy
  <2> QED
    BY <1>0, <2>1, <2>3, <2>5
<1>9. CASE PlanRendered
  <2> DEFINE r == job.routes[idx]
  <2>1. /\ r.fqdn \in Fqdn /\ pc = "plan" /\ UNCHANGED <<live, disk, served, backup>>
        /\ \A g \in Fqdn \ {r.fqdn} : target'[g] = target[g]
    BY <1>9, PlanOne
  <2>2. target'[r.fqdn] = Rendered(r, CertReady(r))
    BY <1>9, RenderedOne
  <2>3. pc \in Pending
    BY <2>1 DEF Pending
  <2>4. target'[r.fqdn].kind = "https" => r.fqdn \in live
    BY <2>2, HttpsNeedsCert
  <2>5. CertifiedBy(target', live)
    BY <1>0, <2>1, <2>3, <2>4 DEF CertifiedBy
  <2> QED
    BY <1>0, <2>1, <2>3, <2>5
<1>10. CASE CommitApply \/ CommitSync \/ PruneDone \/ SettleReady
  BY <1>0, <1>10 DEF CommitApply, CommitSync, PruneDone, SettleReady, Settling, Pending
<1>11. ASSUME NEW f \in Fqdn, PruneCert(f) PROVE Goal
  <2>1. /\ f \in toPrune /\ pc = "prune" /\ pc' = pc /\ live' \in {live, live \ {f}}
        /\ UNCHANGED <<disk, served>>
    BY <1>11 DEF PruneCert, DeleteSucceeds, DeleteInterrupted
  <2> QED
    BY <2>1, CertifiedPrune DEF Pending
<1>12. CASE EnsureFailed
  <2>1. live \subseteq live' /\ pc = "settle" /\ pc' = pc /\ UNCHANGED <<disk, served>>
    BY <1>12 DEF EnsureFailed, EnsureInterrupted, Settling
  <2> QED
    BY <1>0, <2>1, CertifiedMore DEF Pending
<1>13. CASE Ensured
  <2> DEFINE r == Head(toSettle)
  <2>1. /\ Settling /\ live' = live \cup {r.fqdn} /\ UNCHANGED <<disk, served>>
        /\ target' = [disk EXCEPT ![r.fqdn] = Rendered(r, TRUE)]
        /\ backup' = disk \/ backup' = [disk EXCEPT ![r.fqdn] = NoFile]
    BY <1>13 DEF Ensured, ReadBack, EnsureSucceeds
  <2>2. r.fqdn \in Fqdn /\ disk \in Tree
    BY <2>1, QueueHead, TreeTypes
  <2>3. CertifiedBy(disk, live') /\ CertifiedBy(served, live')
    BY <1>0, <2>1, CertifiedMore
  <2>4. CertifiedBy([disk EXCEPT ![r.fqdn] = Rendered(r, TRUE)], live')
    BY <2>1, <2>2, <2>3, CertifiedPut
  <2>5. CertifiedBy([disk EXCEPT ![r.fqdn] = NoFile], live')
    BY <2>2, <2>3, CertifiedPut DEF NoFile
  <2> QED
    BY <2>1, <2>3, <2>4, <2>5
<1>14. CASE Respond
  BY <1>0, <1>14 DEF Respond, Forgotten, Pending
<1>15. CASE CrashRestart
  <2>1. pc' = "idle" /\ UNCHANGED <<disk, served>> /\ InterruptedCertbot
    BY <1>15 DEF CrashRestart, Forgotten, ForgetProof
  <2>2. CASE live \subseteq live'
    BY <1>0, <2>1, <2>2, CertifiedMore DEF Pending
  <2>3. ASSUME pc = "prune", NEW f \in toPrune, DeleteInterrupted(f)
        PROVE  CertifiedBy(disk, live') /\ CertifiedBy(served, live')
    <3>1. f \in Fqdn /\ live' \in {live, live \ {f}}
      BY <2>3 DEF DeleteInterrupted, IInv, TypeOK
    <3> QED
      BY <2>3, <3>1, CertifiedPrune
  <2> QED
    BY <2>1, <2>2, <2>3 DEF InterruptedCertbot, EnsureInterrupted, Pending
<1> QED
  BY <1>1, <1>2, <1>3, <1>4, <1>5, <1>6, <1>7, <1>8, <1>9, <1>10, <1>11, <1>12, <1>13,
     <1>14, <1>15, Steps

-----------------------------------------------------------------------------
(* Routes that a positive answer calls published.                            *)

LEMMA PublishTypes ==
    ASSUME IInv, NEW r \in ToPublish
    PROVE  r \in Route /\ r.fqdn \in Fqdn
<1>1. job.routes \in Seq(Route)
  BY DEF IInv, TypeOK, Job
<1>2. r \in Route
  BY <1>1 DEF ToPublish
<1> QED
  BY <1>2 DEF Route

\* While the plan stands, so does the set of its routes.
LEMMA PublishKept ==
    ASSUME UNCHANGED <<job, kept>>, pc # "plan", pc' # "plan"
    PROVE  ToPublish' = ToPublish
BY DEF ToPublish

LEMMA PublishedStep ==
    ASSUME "read" \notin Faults, IInv, QueueFits, PublishedInv, [Next]_vars
    PROVE  PublishedInv'
<1> USE DEF PublishedInv, Holds
<1>1. CASE GivesUp
  BY <1>1 DEF GivesUp, AfterCommit, UpgradePending, Pending
<1>2. CASE InFlight
  <2>1. ToPublish' = ToPublish
    BY <1>2, PublishKept DEF InFlight, Pending
  <2>2. /\ pc \in Pending /\ pc \notin {"prune", "settle", "respond"}
        /\ pc' \notin {"prune", "settle", "respond"} /\ UpgradePending' = UpgradePending
        /\ UNCHANGED <<target, backup, served>>
    BY <1>2 DEF InFlight, UpgradePending, Upgrading, Pending
  <2>3. ASSUME NEW r \in ToPublish, UpgradePending PROVE Holds(disk', r)
    <3>1. Holds(disk, r) /\ Holds(target, r) /\ Holds(backup, r)
      BY <2>2, <2>3 DEF AfterCommit
    <3>2. r.fqdn \in Fqdn /\ disk \in Tree
      BY PublishTypes, TreeTypes
    <3> QED
      BY <1>2, <3>1, <3>2 DEF InFlight, Tree
  <2> QED
    BY <2>1, <2>2, <2>3 DEF AfterCommit
<1>3. CASE Outside
  <2>1. ToPublish' = ToPublish
    BY <1>3 DEF Outside, ToPublish
  <2>2. /\ UNCHANGED <<pc, reply, target, backup, disk>> /\ served' \in {served, disk}
        /\ UpgradePending' = UpgradePending /\ AfterCommit' = AfterCommit
    BY <1>3 DEF Outside, UpgradePending, AfterCommit, Upgrading
  <2> QED
    BY <2>1, <2>2
<1>4. ASSUME NEW cert \in {"OK", "FAILED"}, UpgradeEnds(cert) PROVE PublishedInv'
  <2>1. ToPublish' = ToPublish
    BY <1>4, PhaseFacts, PublishKept DEF UpgradeEnds, UpgradePending
  <2> QED
    BY <1>4, <2>1 DEF UpgradeEnds, UpgradePending, AfterCommit, Pending
<1>5. ASSUME NEW r \in ApplyRequests, ApplyAccepted(r) PROVE PublishedInv'
  <2>1. pc' = "swap" /\ ~AfterCommit' /\ ~UpgradePending'
    BY <1>5, ApplyOne DEF AfterCommit, UpgradePending
  <2>2. \A q \in ToPublish' : q = r /\ r.state = "PRESENT"
    <3>1. job'.routes = <<r>>
      BY <1>5 DEF ApplyAccepted
    <3>2. \A i \in 1 .. Len(job'.routes) : job'.routes[i] = r
      BY <3>1
    <3> QED
      BY <3>2 DEF ToPublish
  <2>3. r.state = "PRESENT" => Holds(target', r)
    BY <1>5, ApplyOne
  <2> QED
    BY <2>1, <2>2, <2>3
<1>6. ASSUME NEW routes \in Manifests, NEW snap \in Snapshots, SyncAccepted(routes, snap)
      PROVE  PublishedInv'
  BY <1>6 DEF SyncAccepted, FromTheStart, ToPublish
<1>7. ASSUME pc = "plan", pc' \in {"plan", "swap"}, UNCHANGED upgrading,
             \A r \in ToPublish' : Holds(target', r)
      PROVE  PublishedInv'
  BY <1>7, PhaseFacts DEF AfterCommit, UpgradePending, Upgrading
<1>8. ASSUME pc = "plan", pc' = "plan", idx' = idx + 1, job' = job,
             idx \in 1 .. Len(job.routes), NEW r, r \in ToPublish'
      PROVE  \/ r \in ToPublish \/ r.fqdn \in kept
             \/ r = job.routes[idx] /\ r.state = "PRESENT"
  <2>1. PICK i \in 1 .. Len(job.routes) : r = job.routes[i] /\ i < idx + 1
    BY <1>8 DEF ToPublish
  <2>2. r.state = "PRESENT"
    BY <1>8 DEF ToPublish
  <2>3. i < idx \/ i = idx
    BY <1>8, <2>1
  <2> QED
    BY <1>8, <2>1, <2>2, <2>3 DEF ToPublish
<1>9. CASE PlanOmitted
  <2>1. /\ pc = "plan" /\ pc' = "plan" /\ idx' = idx + 1 /\ UNCHANGED <<job, kept, target, upgrading>>
        /\ idx \in 1 .. Len(job.routes) /\ job.routes[idx].state = "ABSENT"
    BY <1>9 DEF PlanOmitted, Planning, NextEntry, IInv, TypeOK, Job
  <2>2. \A r \in ToPublish' : r.fqdn \notin kept
    BY <2>1 DEF ToPublish
  <2>3. \A r \in ToPublish' : r \in ToPublish
    BY <1>8, <2>1, <2>2
  <2> QED
    BY <1>7, <2>1, <2>3 DEF Pending
<1>10. ASSUME PlanKept \/ PlanRendered, NEW q, q = job.routes[idx],
              q.fqdn \in kept' \/ Holds(target', q), kept \subseteq kept'
       PROVE  PublishedInv'
  <2>1. /\ pc = "plan" /\ pc' = "plan" /\ idx' = idx + 1 /\ UNCHANGED <<job>>
        /\ idx \in 1 .. Len(job.routes) /\ ~Exists(target[q.fqdn])
        /\ \A g \in Fqdn \ {q.fqdn} : target'[g] = target[g]
        /\ ~Upgrading'
    BY <1>10, PlanOne
  <2>2. ASSUME NEW r \in ToPublish' PROVE Holds(target', r)
    <3>1. r.fqdn \notin kept'
      BY DEF ToPublish
    <3>2. CASE r \in ToPublish
      <4>1. Holds(target, r) /\ r.fqdn \in Fqdn
        BY <2>1, <3>2, PublishTypes DEF Pending
      <4>2. r.fqdn # q.fqdn
        BY <2>1, <4>1
      <4> QED
        BY <2>1, <4>1, <4>2
    <3>3. CASE r = q
      BY <1>10, <3>1, <3>3
    <3> QED
      BY <1>8, <1>10, <2>1, <3>1, <3>2, <3>3
  <2> QED
    BY <2>1, <2>2 DEF AfterCommit, UpgradePending
<1>11. CASE PlanKept
  BY <1>10, <1>11, KeptOne
<1>12. CASE PlanRendered
  <2>1. Holds(target', job.routes[idx])
    BY <1>12, RenderedOne, RenderedGen DEF CertReady, IsPlatform
  <2> QED
    BY <1>10, <1>12, <2>1, RenderedOne
<1>13. CASE PlanDone
  <2>1. /\ pc = "plan" /\ pc' = "swap" /\ idx > Len(job.routes)
        /\ UNCHANGED <<job, idx, kept, target, upgrading>>
        /\ idx \in Nat /\ Len(job.routes) \in Nat
    BY <1>13 DEF PlanDone, IInv, TypeOK, Job
  <2>2. ToPublish' \subseteq ToPublish
    BY <2>1 DEF ToPublish
  <2> QED
    BY <1>7, <2>1, <2>2 DEF Pending
<1>14. CASE CommitApply \/ CommitSync
  <2>1. /\ pc = "commit" /\ pc' = "prune" /\ UNCHANGED <<job, kept, target, disk, served>>
        /\ served = disk /\ disk = target
    BY <1>14, PhaseFacts DEF CommitApply, CommitSync
  <2>2. ToPublish' = ToPublish
    BY <2>1, PublishKept
  <2> QED
    BY <2>1, <2>2 DEF AfterCommit, UpgradePending, Pending
<1>15. CASE (\E f \in Fqdn : PruneCert(f)) \/ PruneDone \/ SettleReady \/ EnsureFailed
  <2>1. /\ {pc, pc'} \subseteq {"prune", "settle"} /\ UNCHANGED <<job, kept, disk, served>>
    BY <1>15 DEF PruneCert, PruneDone, SettleReady, EnsureFailed, Settling
  <2>2. ToPublish' = ToPublish
    BY <2>1, PublishKept
  <2> QED
    BY <2>1, <2>2 DEF AfterCommit, UpgradePending, Pending
<1>16. CASE Ensured
  <2>1. PICK q : q = Head(toSettle)
    OBVIOUS
  <2>2. /\ Settling /\ pc' = "swap" /\ UNCHANGED <<job, kept, disk, served>>
        /\ target' = [disk EXCEPT ![q.fqdn] = Rendered(q, TRUE)] /\ backup' = disk
    BY <1>16, <2>1 DEF Ensured, ReadBack
  <2>3. pc = "settle" /\ q.fqdn \in Fqdn /\ disk \in Tree /\ ToPublish' = ToPublish
    BY <2>1, <2>2, QueueHead, TreeTypes, PublishKept
  <2>4. disk[q.fqdn] \in {Rendered(q, TRUE), Rendered(q, FALSE)}
    BY <2>1, <2>3, <2>2, QueueHead DEF QueueFits, AfterCommit
  <2>5. disk[q.fqdn].gen = q.gen /\ Rendered(q, TRUE).gen = q.gen /\ Exists(Rendered(q, TRUE))
    BY <2>4, RenderedGen
  <2>6. ASSUME NEW r \in ToPublish PROVE Holds(disk, r) /\ Holds(served, r) /\ Holds(target', r)
    <3>1. Holds(disk, r) /\ Holds(served, r)
      BY <2>3 DEF AfterCommit
    <3>2. r.fqdn \in Fqdn
      BY PublishTypes
    <3> QED
      BY <2>2, <2>3, <2>5, <3>1, <3>2 DEF Tree
  <2> QED
    BY <2>2, <2>3, <2>6
<1>17. CASE Settled
  <2>1. ToPublish' = ToPublish
    BY <1>17, PublishKept DEF Settled
  <2> QED
    BY <1>17, <2>1 DEF Settled, AfterCommit, UpgradePending, Pending
<1>18. CASE Respond \/ CrashRestart
  BY <1>18 DEF Respond, CrashRestart, Forgotten, NoJob, ToPublish
<1> QED
  BY <1>1, <1>2, <1>3, <1>4, <1>5, <1>6, <1>9, <1>11, <1>12, <1>13, <1>14, <1>15, <1>16,
     <1>17, <1>18, Steps

-----------------------------------------------------------------------------
(* What the entries tell of the directory.                                   *)

\* Only the certificate of an entry changes, to what is true of the file.
LEMMA TellsCert ==
    ASSUME NEW e, NEW file, NEW before, Tells(e, file, before),
           NEW new, new.present = e.present, new.gen = e.gen, NEW after,
           IF after THEN new.cert # "OK" ELSE new.cert = "OK" <=> file.kind = "https"
    PROVE  Tells(new, file, after)
BY DEF Tells

LEMMA TellsNothing ==
    ASSUME NEW e, e.present = FALSE, e.cert # "OK", NEW waiting
    PROVE  Tells(e, NoFile, waiting)
BY DEF Tells, Exists, NoFile

\* Between requests, while one is committed, and while one is under way.
LEMMA DirectoryRest ==
    ASSUME pc' \in {"idle", "respond"}, \A f \in Fqdn : Tells(store'.entries[f], disk'[f], FALSE)
    PROVE  DirectoryInv'
BY DEF DirectoryInv, BeforeCommit, UpgradePending, Pending

LEMMA DirectoryCommitted ==
    ASSUME pc' \in {"prune", "settle"},
           \A f \in Fqdn : Tells(store'.entries[f], disk'[f], Queued(f)')
    PROVE  DirectoryInv'
BY DEF DirectoryInv, BeforeCommit, UpgradePending, Pending

LEMMA DirectoryPlanned ==
    ASSUME pc' \in Pending, ~Upgrading', pc' = "plan" => disk' = backup',
           \A f \in Fqdn : Tells(store'.entries[f], backup'[f], FALSE),
           \A f \in Fqdn : planned'[f].known => Tells(planned'[f], target'[f], Queued(f)'),
           \A f \in Fqdn : ~planned'[f].known =>
              target'[f] = IF job'.kind = "sync" THEN NoFile ELSE backup'[f]
    PROVE  DirectoryInv'
BY DEF DirectoryInv, BeforeCommit, UpgradePending, Pending

LEMMA PlannedNotQueued ==
    ASSUME IInv, QueueFits, PlanKept \/ PlanRendered
    PROVE  ~Queued(job.routes[idx].fqdn)
<1> DEFINE f == job.routes[idx].fqdn
<1>1. ~Exists(target[f]) /\ pc # "respond"
  BY PlanOne
<1>2. \A i \in 1 .. Len(toSettle) : Exists(target[toSettle[i].fqdn])
  BY <1>1, RenderedGen DEF QueueFits
<1> QED
  BY <1>1, <1>2 DEF Queued

\* The queue without its head: the other names wait, its own does not.
LEMMA QueuedBehind ==
    ASSUME IInv, QueueFits, Settling, toSettle' = Tail(toSettle), NEW f \in Fqdn
    PROVE  Queued(f)' <=> Queued(f) /\ f # Head(toSettle).fqdn
<1>1. Distinct(toSettle)
  BY QueueParts DEF Settling
<1>2. /\ Head(toSettle) = toSettle[1] /\ 1 \in 1 .. Len(toSettle)
      /\ \A i \in 1 .. Len(Tail(toSettle)) :
           i + 1 \in 1 .. Len(toSettle) /\ Tail(toSettle)[i] = toSettle[i + 1]
  BY QueueHead
<1>3. \A i \in 1 .. Len(Tail(toSettle)) : Tail(toSettle)[i].fqdn # Head(toSettle).fqdn
  BY <1>1, TailDistinct
<1>4. \A i \in 1 .. Len(toSettle) : i = 1 \/ i - 1 \in 1 .. Len(Tail(toSettle))
  <2>1. toSettle \in Seq(Route) /\ toSettle # <<>>
    BY DEF Settling, IInv, TypeOK
  <2>2. Len(Tail(toSettle)) = Len(toSettle) - 1 /\ Len(toSettle) \in Nat
    BY <2>1
  <2> QED
    BY <2>2
<1>5. ASSUME NEW i \in 1 .. Len(toSettle), toSettle[i].fqdn = f, f # Head(toSettle).fqdn
      PROVE  \E j \in 1 .. Len(Tail(toSettle)) : Tail(toSettle)[j].fqdn = f
  <2>1. i # 1 /\ i - 1 \in 1 .. Len(Tail(toSettle)) /\ (i - 1) + 1 = i
    BY <1>2, <1>4, <1>5
  <2>2. Tail(toSettle)[i - 1].fqdn = f
    BY <1>2, <1>5, <2>1
  <2> QED
    BY <2>1, <2>2
<1>6. Queued(f) /\ f # Head(toSettle).fqdn => Queued(f)'
  BY <1>5 DEF Queued
<1>7. Queued(f)' => Queued(f) /\ f # Head(toSettle).fqdn
  BY <1>2, <1>3 DEF Queued
<1> QED
  BY <1>6, <1>7

\* What DirectoryInv and QueueFits say of the domain that is settled next.
LEMMA SettlingHead ==
    ASSUME IInv, QueueFits, DirectoryInv, Settling
    PROVE  LET r == Head(toSettle)
           IN  /\ Queued(r.fqdn) /\ disk[r.fqdn] = target[r.fqdn] /\ ~IsPlatform(r)
               /\ Tells(store.entries[r.fqdn], disk[r.fqdn], TRUE)
               /\ disk[r.fqdn] = Rendered(r, WasReady(r))
               /\ disk[r.fqdn].kind = "https" <=> WasReady(r)
<1> DEFINE r == Head(toSettle)
<1>1. r = toSettle[1] /\ 1 \in 1 .. Len(toSettle) /\ pc = "settle" /\ r.fqdn \in Fqdn
  BY QueueHead
<1>2. Queued(r.fqdn) /\ Queued(r.fqdn) = TRUE
  BY <1>1 DEF Queued
<1>3. Tells(store.entries[r.fqdn], disk[r.fqdn], TRUE)
  BY <1>1, <1>2 DEF DirectoryInv
<1>4. /\ ~IsPlatform(r) /\ disk[r.fqdn] = target[r.fqdn]
      /\ target[r.fqdn] \in {Rendered(r, TRUE), Rendered(r, FALSE)}
  BY <1>1 DEF QueueFits, AfterCommit
<1>5. Rendered(r, TRUE).kind = "https" /\ Rendered(r, FALSE).kind = "challenge"
  BY <1>4 DEF Rendered
<1>6. target[r.fqdn] = Rendered(r, WasReady(r))
  <2>1. CASE target[r.fqdn] = Rendered(r, TRUE)
    BY <1>5, <2>1 DEF WasReady
  <2>2. CASE target[r.fqdn] = Rendered(r, FALSE)
    BY <1>5, <2>2 DEF WasReady
  <2> QED
    BY <1>4, <2>1, <2>2
<1> QED
  BY <1>2, <1>3, <1>4, <1>6 DEF WasReady

LEMMA UpgradedTells ==
    ASSUME IInv, QueueFits, LinesFit, DirectoryInv, NEW cert \in {"OK", "FAILED"},
           UpgradeEnds(cert), cert = "OK" \/ disk = backup
    PROVE  DirectoryInv'
<1>1. PICK u : u = upgrading
  OBVIOUS
<1>2. /\ UpgradePending /\ SetCert(u.fqdn, cert) /\ pc' = "settle"
      /\ UNCHANGED <<toSettle, disk>>
      /\ disk = IF cert = "OK" THEN target ELSE backup
  BY <1>1 DEF UpgradeEnds
<1>3. u \in Route /\ u.fqdn \in Fqdn
  <2>1. u \in Route
    BY <1>1, <1>2 DEF UpgradePending, Upgrading, IInv, TypeOK
  <2> QED
    BY <2>1 DEF Route
<1>4. /\ \A f \in Fqdn : Tells(store.entries[f], backup[f], Queued(f))
      /\ ~IsPlatform(u) /\ backup[u.fqdn] = Rendered(u, FALSE)
      /\ target = [backup EXCEPT ![u.fqdn] = Rendered(u, TRUE)]
  BY <1>1, <1>2 DEF DirectoryInv
<1>5. /\ \A g \in Fqdn \ {u.fqdn} : store'.entries[g] = store.entries[g]
      /\ store'.entries[u.fqdn].cert = cert
      /\ store'.entries[u.fqdn].gen = store.entries[u.fqdn].gen
      /\ store'.entries[u.fqdn].present = store.entries[u.fqdn].present
  BY <1>2, <1>3, SetCertEntries
<1>6. ~Queued(u.fqdn)
  BY <1>1, <1>2 DEF QueueFits, Queued, UpgradePending, Pending
<1>7. backup \in Tree
  BY TreeTypes
<1>8. ASSUME NEW f \in Fqdn \ {u.fqdn} PROVE Tells(store'.entries[f], disk[f], Queued(f))
  <2>1. disk[f] = backup[f]
    BY <1>2, <1>3, <1>4, <1>7 DEF Tree
  <2> QED
    BY <1>4, <1>5, <2>1
<1>9. Tells(store'.entries[u.fqdn], disk[u.fqdn], FALSE)
  <2>1. /\ Rendered(u, TRUE).kind = "https" /\ Rendered(u, FALSE).kind = "challenge"
        /\ Rendered(u, TRUE).gen = Rendered(u, FALSE).gen
    BY <1>4 DEF Rendered
  <2>2. disk[u.fqdn] = IF cert = "OK" THEN Rendered(u, TRUE) ELSE Rendered(u, FALSE)
    BY <1>2, <1>3, <1>4, <1>7 DEF Tree
  <2>3. cert = "OK" <=> disk[u.fqdn].kind = "https"
    BY <2>1, <2>2
  <2>4. Tells(store.entries[u.fqdn], Rendered(u, FALSE), Queued(u.fqdn))
    BY <1>3, <1>4
  <2>5. Tells(store.entries[u.fqdn], Rendered(u, FALSE), FALSE)
    BY <1>6, <2>4 DEF Tells
  <2>6. /\ store.entries[u.fqdn].present = Exists(Rendered(u, FALSE))
        /\ store.entries[u.fqdn].present =>
             Rendered(u, FALSE).gen = store.entries[u.fqdn].gen
    BY <2>5 DEF Tells
  <2>7. /\ Exists(disk[u.fqdn]) = Exists(Rendered(u, FALSE))
        /\ disk[u.fqdn].gen = Rendered(u, FALSE).gen
    BY <2>1, <2>2 DEF Exists
  <2> QED
    BY <1>5, <2>3, <2>6, <2>7 DEF Tells
<1>10. \A f \in Fqdn : Tells(store'.entries[f], disk'[f], Queued(f)')
  <2>1. \A f \in Fqdn : Queued(f)' = Queued(f)
    BY <1>2 DEF Queued
  <2>2. Tells(store'.entries[u.fqdn], disk[u.fqdn], Queued(u.fqdn))
    BY <1>6, <1>9 DEF Tells
  <2> QED
    BY <1>2, <1>8, <2>1, <2>2
<1> QED
  BY <1>2, <1>10, DirectoryCommitted

LEMMA DirectoryTried ==
    ASSUME {"crash", "read", "write"} \cap Faults = {}, IInv, QueueFits, LinesFit, DirectoryInv,
           GivesUp \/ InFlight \/ Outside \/ \E cert \in {"OK", "FAILED"} : UpgradeEnds(cert)
    PROVE  DirectoryInv'
<1>1. CASE GivesUp
  <2>1. \A f \in Fqdn : Tells(store.entries[f], disk[f], FALSE)
    <3>1. CASE pc = "idle"
      BY <3>1 DEF DirectoryInv
    <3>2. CASE pc # "idle"
      BY <1>1, <3>2 DEF GivesUp, DirectoryInv, BeforeCommit
    <3> QED
      BY <3>1, <3>2
  <2> QED
    BY <1>1, <2>1, DirectoryRest DEF GivesUp
<1>2. CASE InFlight
  BY <1>2 DEF InFlight, DirectoryInv, BeforeCommit, UpgradePending, Upgrading, Queued, Pending
<1>3. CASE Outside
  BY <1>3 DEF Outside, DirectoryInv, BeforeCommit, UpgradePending, Upgrading, Queued
<1>4. ASSUME NEW cert \in {"OK", "FAILED"}, UpgradeEnds(cert) PROVE DirectoryInv'
  BY <1>4, UpgradedTells DEF UpgradeEnds
<1> QED
  BY <1>1, <1>2, <1>3, <1>4

LEMMA DirectoryReceive ==
    ASSUME IInv, DirectoryInv,
           \/ \E r \in ApplyRequests : ApplyAccepted(r)
           \/ \E routes \in Manifests, snap \in Snapshots : SyncAccepted(routes, snap)
    PROVE  DirectoryInv'
<1>1. ASSUME NEW r \in ApplyRequests, ApplyAccepted(r) PROVE DirectoryInv'
  <2>1. /\ pc = "idle" /\ pc' = "swap" /\ ~Upgrading' /\ job'.kind = "apply"
        /\ store' = store /\ backup' = disk
        /\ \A g \in Fqdn \ {r.fqdn} : ~planned'[g].known /\ target'[g] = disk[g]
        /\ planned'[r.fqdn].known
    BY <1>1, ApplyOne DEF ApplyAccepted
  <2>2. \A f \in Fqdn : Tells(store.entries[f], disk[f], FALSE)
    BY <2>1 DEF DirectoryInv
  <2>3. Tells(planned'[r.fqdn], target'[r.fqdn], Queued(r.fqdn)')
    <3> DEFINE e == planned'[r.fqdn]
    <3>1. /\ e.present = Exists(target'[r.fqdn]) /\ e.gen = r.gen /\ e.cert = ""
          /\ Exists(target'[r.fqdn]) => target'[r.fqdn].gen = r.gen
          /\ target'[r.fqdn] = ApplyFile(r)
      BY <1>1, ApplyOne
    <3>2. ApplyFile(r).kind = "https" => r.state # "ABSENT" /\ ~IsPlatform(r)
      BY DEF ApplyFile, NoFile, Rendered
    <3>3. ApplyFile(r).kind = "https" => toSettle' = <<r>>
      BY <1>1, <3>2 DEF ApplyAccepted, Valid
    <3>4. ApplyFile(r).kind = "https" => Queued(r.fqdn)'
      BY <3>3 DEF Queued
    <3>5. e.cert # "OK"
      BY <3>1
    <3> QED
      BY <3>1, <3>4, <3>5 DEF Tells
  <2> QED
    BY <2>1, <2>2, <2>3, DirectoryPlanned DEF Pending
<1>2. ASSUME NEW routes \in Manifests, NEW snap \in Snapshots, SyncAccepted(routes, snap)
      PROVE  DirectoryInv'
  <2>1. /\ pc = "idle" /\ pc' = "plan" /\ ~Upgrading' /\ job'.kind = "sync"
        /\ store' = store /\ backup' = disk /\ disk' = disk
        /\ planned' = NoEntries /\ target' = EmptyTree
    BY <1>2, PhaseFacts DEF SyncAccepted, Upgrading
  <2>2. \A f \in Fqdn : Tells(store.entries[f], disk[f], FALSE)
    BY <2>1 DEF DirectoryInv
  <2>3. \A f \in Fqdn : ~planned'[f].known /\ target'[f] = NoFile
    BY <2>1 DEF NoEntries, NoEntry, EmptyTree
  <2> QED
    BY <2>1, <2>2, <2>3, DirectoryPlanned DEF Pending
<1> QED
  BY <1>1, <1>2

\* One more entry of a manifest is planned.
LEMMA DirectoryPlanOne ==
    ASSUME IInv, QueueFits, DirectoryInv, PlanKept \/ PlanRendered,
           NEW f, f = job.routes[idx].fqdn, planned'[f].known,
           Tells(planned'[f], target'[f], Queued(f)'),
           \A g \in Fqdn \ {f} : Queued(g)' = Queued(g)
    PROVE  DirectoryInv'
<1>1. /\ f \in Fqdn /\ pc = "plan" /\ pc' = "plan" /\ ~Upgrading /\ ~Upgrading'
      /\ UNCHANGED <<store, disk, backup, job>>
      /\ \A g \in Fqdn \ {f} : target'[g] = target[g] /\ planned'[g] = planned[g]
  BY PlanOne
<1>2. pc \in Pending /\ BeforeCommit
  BY <1>1 DEF Pending, BeforeCommit
<1>3. /\ disk = backup
      /\ \A g \in Fqdn : Tells(store.entries[g], backup[g], FALSE)
  BY <1>1, <1>2 DEF DirectoryInv
<1>4. \A g \in Fqdn : planned[g].known => Tells(planned[g], target[g], Queued(g))
  BY <1>2 DEF DirectoryInv
<1>5. \A g \in Fqdn : ~planned[g].known =>
         target[g] = IF job.kind = "sync" THEN NoFile ELSE backup[g]
  BY <1>2 DEF DirectoryInv
<1>6. \A g \in Fqdn : planned'[g].known => Tells(planned'[g], target'[g], Queued(g)')
  BY <1>1, <1>4, Zenon
<1>7. \A g \in Fqdn : ~planned'[g].known =>
         target'[g] = IF job'.kind = "sync" THEN NoFile ELSE backup'[g]
  BY <1>1, <1>5
<1> QED
  BY <1>1, <1>2, <1>3, <1>6, <1>7, DirectoryPlanned

LEMMA DirectoryPlan ==
    ASSUME IInv, QueueFits, DirectoryInv,
           PlanOmitted \/ PlanKept \/ PlanRendered \/ PlanDone
    PROVE  DirectoryInv'
<1>1. CASE PlanOmitted \/ PlanDone
  <2>1. /\ pc = "plan" /\ pc' \in {"plan", "swap"} /\ ~Upgrading
        /\ UNCHANGED <<storeVars, disk, treeVars, planned, job, settleVars>>
    BY <1>1, PhaseFacts DEF PlanOmitted, PlanDone, Planning, NextEntry
  <2> QED
    BY <2>1 DEF DirectoryInv, BeforeCommit, UpgradePending, Upgrading, Queued, Pending
<1>2. CASE PlanKept
  <2>1. PICK f : f = job.routes[idx].fqdn
    OBVIOUS
  <2> DEFINE cur == store.entries[f]
  <2>2. f \in Fqdn /\ cur \in Entry /\ pc = "plan" /\ ~Upgrading
    BY <1>2, <2>1, PlanOne DEF IInv, TypeOK, StoreTypeOK, StoreState, Entries
  <2>3. /\ cur.known
        /\ target'[f] = IF cur.present THEN backup[f] ELSE NoFile
        /\ planned'[f] = [cur EXCEPT !.present = Exists(target'[f])]
        /\ toSettle' = toSettle
    BY <1>2, <2>1, KeptOne
  <2>4. Tells(cur, backup[f], FALSE)
    BY <2>2 DEF DirectoryInv, BeforeCommit, Pending
  <2>5. /\ cur.present = Exists(backup[f])
        /\ cur.present => backup[f].gen = cur.gen
        /\ cur.cert = "OK" <=> backup[f].kind = "https"
    BY <2>4 DEF Tells
  <2>6. /\ planned'[f].known /\ planned'[f].gen = cur.gen /\ planned'[f].cert = cur.cert
        /\ planned'[f].present = Exists(target'[f])
    BY <2>2, <2>3 DEF Entry
  <2>7. ~Queued(f)' /\ \A g \in Fqdn : Queued(g)' = Queued(g)
    BY <1>2, <2>1, <2>3, PlannedNotQueued DEF Queued
  <2>8. CASE cur.present
    <3>1. target'[f] = backup[f]
      BY <2>3, <2>8
    <3>2. Tells(planned'[f], target'[f], FALSE)
      BY <2>5, <2>6, <2>8, <3>1 DEF Tells
    <3> QED
      BY <1>2, <2>1, <2>6, <2>7, <3>2, DirectoryPlanOne DEF Tells
  <2>9. CASE ~cur.present
    <3>1. target'[f] = NoFile /\ ~Exists(backup[f])
      BY <2>3, <2>5, <2>9
    <3>2. planned'[f].present = FALSE
      <4>1. Exists(NoFile) = FALSE
        BY DEF Exists, NoFile
      <4> QED
        BY <2>6, <3>1, <4>1, Zenon
    <3>3. planned'[f].cert # "OK"
      BY <2>5, <2>6, <3>1 DEF Exists
    <3>4. Tells(planned'[f], target'[f], Queued(f)')
      BY <3>1, <3>2, <3>3, TellsNothing
    <3> QED
      BY <1>2, <2>1, <2>6, <2>7, <3>4, DirectoryPlanOne
  <2> QED
    BY <2>8, <2>9
<1>3. CASE PlanRendered
  <2>1. PICK r, f : r = job.routes[idx] /\ f = r.fqdn
    OBVIOUS
  <2>2. f \in Fqdn /\ r \in Route
    BY <1>3, <2>1, PlanOne
  <2>3. PICK cert : cert = SyncCert(r)
    OBVIOUS
  <2>4. /\ target'[f] = Rendered(r, CertReady(r))
        /\ planned'[f] = EntryOf(r.gen, TRUE, cert)
        /\ toSettle' = IF CertReady(r) THEN toSettle ELSE Append(toSettle, r)
    BY <1>3, <2>1, <2>3, RenderedOne
  <2>5. /\ planned'[f].known /\ planned'[f].gen = r.gen /\ planned'[f].cert = cert
        /\ planned'[f].present = TRUE
    BY <2>4 DEF EntryOf
  <2>6. Exists(target'[f]) = TRUE /\ target'[f].gen = r.gen
    BY <2>4, RenderedGen DEF CertReady, IsPlatform, Exists
  <2>7. toSettle \in Seq(Route)
    BY DEF IInv, TypeOK
  <2>8. /\ \A g \in Fqdn \ {f} : Queued(g)' = Queued(g)
        /\ Queued(f)' <=> ~CertReady(r)
    <3>1. ~Queued(f)
      BY <1>3, <2>1, PlannedNotQueued
    <3>2. CASE CertReady(r)
      BY <2>4, <3>1, <3>2 DEF Queued
    <3>3. CASE ~CertReady(r)
      <4>1. /\ Len(toSettle') = Len(toSettle) + 1 /\ Len(toSettle) \in Nat
            /\ toSettle'[Len(toSettle) + 1] = r
            /\ \A i \in 1 .. Len(toSettle) : toSettle'[i] = toSettle[i]
        BY <2>2, <2>4, <2>7, <3>3
      <4>2. \A i \in 1 .. Len(toSettle') : i = Len(toSettle) + 1 \/ i \in 1 .. Len(toSettle)
        BY <4>1
      <4>3. Len(toSettle) + 1 \in 1 .. Len(toSettle')
        BY <4>1
      <4>4. Queued(f)'
        BY <2>1, <4>1, <4>3 DEF Queued
      <4>5. \A g \in Fqdn \ {f} : Queued(g)' <=> Queued(g)
        <5>1. \A i \in 1 .. Len(toSettle) : i \in 1 .. Len(toSettle')
          BY <4>1
        <5> QED
          BY <2>1, <4>1, <4>2, <5>1 DEF Queued
      <4> QED
        BY <3>3, <4>4, <4>5 DEF Queued
    <3> QED
      BY <3>2, <3>3
  <2>9. IF Queued(f)' THEN cert # "OK" ELSE cert = "OK" <=> target'[f].kind = "https"
    <3>1. /\ cert = "OK" <=> ~IsPlatform(r) /\ CertReady(r)
      BY <2>3 DEF SyncCert
    <3>2. target'[f].kind = "https" <=> ~IsPlatform(r) /\ CertReady(r)
      BY <2>4 DEF Rendered
    <3> QED
      BY <2>8, <3>1, <3>2
  <2>10. Tells(planned'[f], target'[f], Queued(f)')
    BY <2>5, <2>6, <2>9 DEF Tells
  <2> QED
    BY <1>3, <2>1, <2>5, <2>8, <2>10, DirectoryPlanOne
<1> QED
  BY <1>1, <1>2, <1>3

LEMMA DirectoryCommit ==
    ASSUME IInv, DirectoryInv, CommitApply \/ CommitSync
    PROVE  DirectoryInv'
<1>1. /\ pc = "commit" /\ pc' = "prune" /\ ~Upgrading /\ pc \in Pending /\ BeforeCommit
      /\ disk' = target /\ toSettle' = toSettle
  BY PhaseFacts DEF CommitApply, CommitSync, BeforeCommit, Pending
<1>2. /\ \A f \in Fqdn : planned[f].known => Tells(planned[f], target[f], Queued(f))
      /\ \A f \in Fqdn : ~planned[f].known =>
            target[f] = IF job.kind = "sync" THEN NoFile ELSE backup[f]
      /\ \A f \in Fqdn : Tells(store.entries[f], backup[f], FALSE)
  BY <1>1 DEF DirectoryInv
<1>3. store \in StoreState /\ planned \in Entries
  BY DEF IInv, TypeOK, StoreTypeOK
<1>4. \A f \in Fqdn : Tells(store'.entries[f], target[f], Queued(f))
  <2>1. CASE CommitApply
    <3>1. PICK f : f = job.routes[1].fqdn
      OBVIOUS
    <3>2. f \in Fqdn /\ \A g \in Fqdn : planned[g].known <=> g = f
      BY <1>1, <2>1, <3>1 DEF IInv, PlanInv, PlannedFits, CommitApply
    <3>3. Record(f, planned[f]) /\ job.kind = "apply"
      BY <2>1, <3>1 DEF CommitApply
    <3>4. store'.entries = [store.entries EXCEPT ![f] = planned[f]]
      BY <1>3, <3>3 DEF Record, Persist, StoreState
    <3>5. /\ store'.entries[f] = planned[f]
          /\ \A g \in Fqdn \ {f} : store'.entries[g] = store.entries[g] /\ target[g] = backup[g]
      BY <1>2, <1>3, <3>2, <3>3, <3>4 DEF StoreState, Entries
    <3>6. \A g \in Fqdn \ {f} : ~Queued(g)
      BY <1>1, <3>2 DEF Queued, IInv, PlanInv, SettleFits
    <3>7. \A g \in Fqdn \ {f} : Tells(store'.entries[g], target[g], FALSE)
      BY <1>2, <3>5
    <3>8. \A g \in Fqdn \ {f} : Tells(store'.entries[g], target[g], Queued(g))
      BY <3>6, <3>7 DEF Tells
    <3> QED
      BY <1>2, <3>2, <3>5, <3>8
  <2>2. CASE CommitSync
    <3>1. store'.entries = Merged(store.entries, planned) /\ job.kind = "sync"
      BY <2>2 DEF CommitSync, ReplaceAll, Persist
    <3>2. ASSUME NEW f \in Fqdn PROVE Tells(store'.entries[f], target[f], Queued(f))
      <4>1. CASE planned[f].known
        BY <1>2, <3>1, <4>1 DEF Merged
      <4>2. CASE ~planned[f].known
        <5>1. store'.entries[f] = Tombstone(store.entries[f]) /\ store.entries[f] \in Entry
          BY <1>3, <3>1, <4>2 DEF Merged, StoreState, Entries
        <5>2. store'.entries[f].present = FALSE /\ store'.entries[f].cert # "OK"
          BY <5>1 DEF Tombstone, Entry
        <5>3. target[f] = NoFile
          BY <1>2, <3>1, <4>2
        <5> QED
          BY <5>2, <5>3, TellsNothing
      <4> QED
        BY <4>1, <4>2
    <3> QED
      BY <3>2
  <2> QED
    BY <2>1, <2>2
<1> QED
  BY <1>1, <1>4, DirectoryCommitted DEF Queued

\* The certificate of one name is recorded, and nothing else of the record.
LEMMA TellsSettled ==
    ASSUME IInv, pc' \in {"prune", "settle"}, disk' = disk, NEW f \in Fqdn,
           NEW cert \in {"OK", "FAILED"}, SetCert(f, cert),
           \A g \in Fqdn : Tells(store.entries[g], disk[g], Queued(g)),
           \A g \in Fqdn \ {f} : Queued(g)' = Queued(g),
           cert = "OK" <=> disk[f].kind = "https",
           Queued(f)' => cert # "OK"
    PROVE  DirectoryInv'
<1>1. /\ \A g \in Fqdn \ {f} : store'.entries[g] = store.entries[g]
      /\ store'.entries[f].cert = cert
      /\ store'.entries[f].gen = store.entries[f].gen
      /\ store'.entries[f].present = store.entries[f].present
  BY SetCertEntries
<1>2. Tells(store.entries[f], disk[f], Queued(f))
  OBVIOUS
<1>3. Tells(store'.entries[f], disk[f], Queued(f)')
  BY <1>1, <1>2, TellsCert
<1> QED
  BY <1>1, <1>3, DirectoryCommitted

LEMMA DirectorySettle ==
    ASSUME {"crash", "read", "write"} \cap Faults = {}, IInv, PruneFits, QueueFits, DirectoryInv,
           \/ \E f \in Fqdn : PruneCert(f)
           \/ PruneDone \/ SettleReady \/ EnsureFailed \/ Ensured \/ Settled \/ Respond
    PROVE  DirectoryInv'
<1>0. pc \in {"prune", "settle"} =>
         \A f \in Fqdn : Tells(store.entries[f], disk[f], Queued(f))
  BY DEF DirectoryInv
<1>1. ASSUME NEW f \in Fqdn, PruneCert(f) PROVE DirectoryInv'
  <2>1. /\ pc = "prune" /\ pc' = "prune" /\ UNCHANGED <<disk, toSettle>>
        /\ store' = store \/ SetCert(f, "FAILED")
    BY <1>1 DEF PruneCert
  <2>2. \A g \in Fqdn : Queued(g)' = Queued(g)
    BY <2>1 DEF Queued
  <2>3. disk[f].kind # "https"
    BY <1>1, <2>1 DEF PruneCert, PruneFits, NoFile
  <2>4. CASE store' = store
    BY <1>0, <2>1, <2>2, <2>4, DirectoryCommitted
  <2>5. CASE SetCert(f, "FAILED")
    BY <1>0, <2>1, <2>2, <2>3, <2>5, TellsSettled
  <2> QED
    BY <2>1, <2>4, <2>5
<1>2. CASE PruneDone
  BY <1>0, <1>2, DirectoryCommitted DEF PruneDone, Queued
<1>3. ASSUME SettleReady \/ EnsureFailed, NEW f, f = Head(toSettle).fqdn,
             NEW cert \in {"OK", "FAILED"}, SetCert(f, cert),
             cert = "OK" <=> WasReady(Head(toSettle))
      PROVE  DirectoryInv'
  <2>1. /\ Settling /\ toSettle' = Tail(toSettle) /\ pc = "settle" /\ pc' = pc /\ disk' = disk
        /\ f \in Fqdn
    BY <1>3, QueueHead DEF SettleReady, EnsureFailed
  <2>2. \A g \in Fqdn : Queued(g)' <=> Queued(g) /\ g # f
    BY <1>3, <2>1, QueuedBehind
  <2>3. cert = "OK" <=> disk[f].kind = "https"
    BY <1>3, <2>1, SettlingHead
  <2>4. \A g \in Fqdn \ {f} : Queued(g)' = Queued(g)
    BY <2>2 DEF Queued
  <2> QED
    BY <1>0, <1>3, <2>1, <2>2, <2>3, <2>4, TellsSettled
<1>7. CASE SettleReady
  <2>1. SetCert(Head(toSettle).fqdn, "OK") /\ WasReady(Head(toSettle))
    BY <1>7 DEF SettleReady
  <2> QED
    BY <1>3, <1>7, <2>1
<1>8. CASE EnsureFailed
  <2>1. SetCert(Head(toSettle).fqdn, "FAILED") /\ ~WasReady(Head(toSettle))
    BY <1>8 DEF EnsureFailed
  <2> QED
    BY <1>3, <1>8, <2>1
<1>4. CASE Ensured
  <2>1. PICK r : r = Head(toSettle)
    OBVIOUS
  <2>2. /\ Settling /\ ~WasReady(r) /\ upgrading' = r /\ pc' = "swap"
        /\ toSettle' = Tail(toSettle) /\ UNCHANGED <<store, disk>>
        /\ target' = [disk EXCEPT ![r.fqdn] = Rendered(r, TRUE)] /\ backup' = disk
    BY <1>4, <2>1 DEF Ensured, ReadBack
  <2>3. /\ pc = "settle" /\ r.fqdn \in Fqdn /\ r \in Route /\ disk \in Tree
    BY <2>1, <2>2, QueueHead, TreeTypes
  <2>4. /\ ~IsPlatform(r) /\ disk[r.fqdn] = Rendered(r, FALSE)
        /\ Tells(store.entries[r.fqdn], disk[r.fqdn], TRUE)
        /\ disk[r.fqdn].kind # "https"
    <3>1. WasReady(r) = FALSE
      BY <2>2 DEF WasReady
    <3> QED
      BY <2>1, <2>2, <3>1, SettlingHead
  <2>5. Tells(store.entries[r.fqdn], disk[r.fqdn], FALSE)
    BY <2>4 DEF Tells
  <2>6. \A g \in Fqdn : Queued(g)' <=> Queued(g) /\ g # r.fqdn
    BY <2>1, <2>2, QueuedBehind
  <2>7. ASSUME NEW f \in Fqdn PROVE Tells(store'.entries[f], backup'[f], Queued(f)')
    <3>1. CASE f = r.fqdn
      BY <2>2, <2>5, <2>6, <3>1 DEF Tells
    <3>2. CASE f # r.fqdn
      <4>1. Tells(store.entries[f], disk[f], Queued(f))
        BY <1>0, <2>3
      <4> QED
        BY <2>2, <2>6, <3>2, <4>1 DEF Tells
    <3> QED
      BY <3>1, <3>2
  <2>8. Upgrading'
    <3>1. r.state # NoRoute.state
      BY <2>3 DEF Route, NoRoute
    <3> QED
      BY <2>2, <3>1 DEF Upgrading
  <2> QED
    BY <2>2, <2>4, <2>7, <2>8 DEF DirectoryInv, BeforeCommit, UpgradePending, Pending
<1>5. CASE Settled
  <2>1. \A f \in Fqdn : ~Queued(f)
    BY <1>5 DEF Settled, Queued
  <2>2. \A f \in Fqdn : Tells(store.entries[f], disk[f], FALSE)
    BY <1>0, <1>5, <2>1 DEF Settled, Tells
  <2> QED
    BY <1>5, <2>2, DirectoryRest DEF Settled
<1>6. CASE Respond
  BY <1>6, DirectoryRest DEF Respond, Forgotten, DirectoryInv
<1> QED
  BY <1>1, <1>2, <1>4, <1>5, <1>6, <1>7, <1>8

LEMMA DirectoryStep ==
    ASSUME {"crash", "read", "write"} \cap Faults = {},
           IInv, PruneFits, QueueFits, LinesFit, DirectoryInv, [Next]_vars
    PROVE  DirectoryInv'
<1>1. ~CrashRestart
  BY DEF CrashRestart
<1> QED
  BY <1>1, Steps, DirectoryTried, DirectoryReceive, DirectoryPlan, DirectoryCommit,
     DirectorySettle

-----------------------------------------------------------------------------
LEMMA InitSite == Init => SiteInv
<1> SUFFICES ASSUME Init PROVE SiteInv
  OBVIOUS
<1>1. /\ pc = "idle" /\ toPrune = {} /\ toSettle = <<>> /\ upgrading = NoRoute /\ job = NoJob
      /\ disk = EmptyTree /\ served = EmptyTree /\ store.entries = NoEntries /\ ~Upgrading
  BY DEF Init, StoreInit, NginxInit, Idle, Upgrading
<1>6. UnknownIsAbsent
  BY <1>1 DEF Init, StoreInit, NoEntries, NoEntry, UnknownIsAbsent
<1>2. PruneFits /\ QueueFits /\ WithdrawalFits /\ LinesFit /\ RepairFits
  BY <1>1 DEF PruneFits, QueueFits, WithdrawalFits, LinesFit, RepairFits,
     SyncRepairsTheRecord, NoJob, BeforeCommit, UpgradePending, Pending
<1>3. CertifiedInv
  BY <1>1 DEF CertifiedInv, Certified, EmptyTree, NoFile, Pending
<1>4. PublishedInv
  BY <1>1 DEF PublishedInv, ToPublish, NoJob
<1>5. DirectoryInv
  <2>1. Tells(NoEntry, NoFile, FALSE)
    BY TellsNothing DEF NoEntry
  <2>2. \A f \in Fqdn : store.entries[f] = NoEntry /\ disk[f] = NoFile
    BY <1>1 DEF NoEntries, EmptyTree
  <2> QED
    BY <1>1, <2>1, <2>2 DEF DirectoryInv, BeforeCommit, UpgradePending, Pending
<1> QED
  BY <1>2, <1>3, <1>4, <1>5, <1>6 DEF SiteInv

LEMMA NextSite == IInv /\ SiteInv /\ [Next]_vars => SiteInv'
BY PruneStep, QueueStep, WithdrawalStep, LinesStep, AbsentStep, RepairStep,
   CertifiedStep, PublishedStep, DirectoryStep
DEF SiteInv

(* Whatever requests arrive and whatever fails, Manager keeps the files, the *)
(* certificates and the record of a request together as SiteInv says.        *)
THEOREM SiteInductive == Spec => [](IInv /\ SiteInv)
<1>1. Init => IInv /\ SiteInv
  BY InitIInv, InitSite
<1>2. (IInv /\ SiteInv) /\ [Next]_vars => (IInv /\ SiteInv)'
  BY NextIInv, NextSite
<1> QED
  BY <1>1, <1>2, PTL DEF Spec


(* certbot certonly, run by settleCert, always finds nginx serving the vhost *)
(* that answers its challenge: for every queue of domains and every failure. *)
THEOREM ChallengeAnswered == Spec => []ChallengeIsServed
<1>1. IInv /\ SiteInv => ChallengeIsServed
  <2> SUFFICES ASSUME IInv, SiteInv, Settling, NEW r, r = Head(toSettle), ~WasReady(r)
               PROVE  served[r.fqdn] = Rendered(r, FALSE)
    BY DEF ChallengeIsServed
  <2>1. /\ served[r.fqdn] = target[r.fqdn] /\ ~IsPlatform(r)
        /\ target[r.fqdn] \in {Rendered(r, TRUE), Rendered(r, FALSE)}
    BY QueueHead DEF SiteInv, QueueFits, AfterCommit
  <2>2. Rendered(r, TRUE).kind = "https"
    BY <2>1 DEF Rendered
  <2> QED
    BY <2>1, <2>2 DEF WasReady
<1> QED
  BY <1>1, SiteInductive, PTL

(* Whatever fails, an apply that withdrew a name and answers with success    *)
(* left no lineage behind that the entry of the name does not tell of.       *)
THEOREM WithdrawnCleaned == Spec => []WithdrawnIsCleaned
<1>1. SiteInv => WithdrawnIsCleaned
  BY DEF SiteInv, WithdrawalFits, WithdrawnIsCleaned, Cleaned
<1> QED
  BY <1>1, SiteInductive, PTL

(* Unless somebody takes the files away by hand, every HTTPS vhost, on disk  *)
(* or in the running nginx, has its certificate: pruneCert comes after the   *)
(* confirmed reload, and render looks before it picks the HTTPS template.    *)
THEOREM CertificatesInPlace ==
    ASSUME "hand" \notin Faults
    PROVE  Spec => []NoDanglingCertificate
<1>1. SiteInv => NoDanglingCertificate
  BY DEF SiteInv, CertifiedInv, Certified, NoDanglingCertificate
<1> QED
  BY <1>1, SiteInductive, PTL

(* Unless the vhost that an upgrade replaces cannot be read back, a positive *)
(* answer of Apply or SyncAll means that every published route is live, even *)
(* when its certificate, or that of another domain, failed.                  *)
THEOREM PublishedLive ==
    ASSUME "read" \notin Faults
    PROVE  Spec => []PublishedIsLive
<1>1. IInv /\ SiteInv => PublishedIsLive
  <2> SUFFICES ASSUME IInv, SiteInv, NEW r \in Published PROVE Holds(served, r)
    BY DEF PublishedIsLive, Holds
  <2>0. DOMAIN job.routes = 1 .. Len(job.routes)
    BY DEF IInv, TypeOK, Job
  <2>1. r \in ToPublish /\ pc = "respond" /\ reply.code = 200
    BY <2>0 DEF Published, ToPublish
  <2> QED
    BY <2>1 DEF SiteInv, PublishedInv
<1> QED
  BY <1>1, SiteInductive, PTL

(* Whatever crashes and failed rollbacks left behind, once SyncAll has       *)
(* replaced the record it says of every name, listed, kept or neither,       *)
(* whether its vhost is in the directory and served.                         *)
THEOREM RecordRepaired == Spec => []SyncRepairsTheRecord
<1>1. SiteInv => SyncRepairsTheRecord
  BY DEF SiteInv, RepairFits
<1> QED
  BY <1>1, SiteInductive, PTL

(* As long as the agent lives and files can be read and written, Status      *)
(* tells between requests what the directory holds, for any state file.      *)
THEOREM StatusTrue ==
    ASSUME {"crash", "read", "write"} \cap Faults = {}
    PROVE  Spec => []StatusMatchesDirectory
<1>1. SiteInv => StatusMatchesDirectory
  BY DEF SiteInv, DirectoryInv, Tells, StatusMatchesDirectory
<1> QED
  BY <1>1, SiteInductive, PTL


-----------------------------------------------------------------------------
(* Manager implements GenerationLedger.                                      *)

\* Both sides of the refinement mapping, per name.
LineOf(e) == [gen |-> IF e.known THEN e.gen ELSE -1, present |-> e.present]

Shown(file) == IF Exists(file) THEN file.gen ELSE -1

\* The entry stays as it was, as far as the ledger goes, or advances to what nginx serves.
SameLine(old, new) ==
    new.known = old.known /\ new.gen = old.gen /\ new.present = old.present

AdvancedLine(old, new, file) ==
    /\ old.known => new.known /\ new.gen >= old.gen
    /\ new.present = Exists(file)
    /\ Exists(file) => new.known /\ file.gen = new.gen

LEMMA LineTypes ==
    ASSUME IInv
    PROVE  \A f \in Fqdn : /\ store.entries[f] \in Entry
                           /\ served[f] \in File
BY DEF IInv, TypeOK, StoreTypeOK, NginxTypeOK, StoreState, Entries, Tree

LEMMA LineAdvances ==
    ASSUME NEW old \in Entry, NEW new \in Entry, NEW file \in File,
           AdvancedLine(old, new, file)
    PROVE  /\ LineOf(new).gen >= LineOf(old).gen
           /\ IF LineOf(new).present THEN Shown(file) = LineOf(new).gen ELSE Shown(file) = -1
<1>1. old.gen \in Nat /\ new.gen \in Nat /\ new.present \in BOOLEAN /\ old.known \in BOOLEAN
      /\ new.known \in BOOLEAN
  BY DEF Entry
<1>2. LineOf(new).gen = IF new.known THEN new.gen ELSE -1
  BY DEF LineOf
<1>3. LineOf(old).gen = IF old.known THEN old.gen ELSE -1
  BY DEF LineOf
<1>4. LineOf(new).present = new.present
  BY DEF LineOf
<1>5. LineOf(new).gen >= LineOf(old).gen
  BY <1>1, <1>2, <1>3 DEF AdvancedLine
<1>6. CASE Exists(file)
  <2>1. new.known /\ file.gen = new.gen /\ new.present
    BY <1>6 DEF AdvancedLine
  <2> QED
    BY <1>2, <1>4, <1>5, <1>6, <2>1 DEF Shown
<1>7. CASE ~Exists(file)
  <2>1. ~new.present
    BY <1>7 DEF AdvancedLine
  <2> QED
    BY <1>4, <1>5, <1>7, <2>1 DEF Shown
<1> QED
  BY <1>6, <1>7

LEMMA LedgerSwitch ==
    ASSUME IInv, IInv', UNCHANGED store
    PROVE  Ledger!Switch
<1>1. \A f \in Fqdn : store'.entries[f] = store.entries[f]
  OBVIOUS
<1>2. ASSUME NEW f \in Fqdn PROVE Shown(served'[f]) = -1 \/ Shown(served'[f]) >= LineOf(store.entries[f]).gen
  <2>1. Exists(served'[f]) /\ store.entries[f].known =>
           served'[f].gen >= store.entries[f].gen
    BY <1>1 DEF IInv, RecordInv, NeverServesOlderThanRecorded, NotOlder
  <2>2. served'[f] \in File /\ store.entries[f] \in Entry
    BY LineTypes DEF IInv, TypeOK, NginxTypeOK, Tree
  <2>3. Exists(served'[f]) => served'[f].gen \in Nat
    BY <2>2 DEF File, Vhost, Exists, NoFile
  <2>4. LineOf(store.entries[f]).gen =
           IF store.entries[f].known THEN store.entries[f].gen ELSE -1
    BY DEF LineOf
  <2> QED
    BY <2>1, <2>2, <2>3, <2>4 DEF Shown, Entry
<1> QED
  BY <1>1, <1>2 DEF Ledger!Switch, Ledger!Nothing, LineOf, Shown

LEMMA LedgerAdvance ==
    ASSUME IInv, IInv', UNCHANGED served,
           \A f \in Fqdn : \/ SameLine(store.entries[f], store'.entries[f])
                           \/ AdvancedLine(store.entries[f], store'.entries[f], served[f])
    PROVE  Ledger!Advance
<1>1. ASSUME NEW f \in Fqdn
      PROVE  \/ LineOf(store'.entries[f]) = LineOf(store.entries[f])
             \/ /\ LineOf(store'.entries[f]).gen >= LineOf(store.entries[f]).gen
                /\ IF LineOf(store'.entries[f]).present
                   THEN Shown(served[f]) = LineOf(store'.entries[f]).gen
                   ELSE Shown(served[f]) = -1
  <2>1. store.entries[f] \in Entry /\ served[f] \in File /\ store'.entries[f] \in Entry
    BY LineTypes DEF IInv, TypeOK, StoreTypeOK, StoreState, Entries
  <2>2. CASE SameLine(store.entries[f], store'.entries[f])
    BY <2>2 DEF SameLine, LineOf
  <2>3. CASE AdvancedLine(store.entries[f], store'.entries[f], served[f])
    BY <2>1, <2>3, LineAdvances
  <2> QED
    BY <2>2, <2>3
<1> QED
  BY <1>1 DEF Ledger!Advance, Ledger!Honoured, Ledger!Nothing, LineOf, Shown


\* SetCert leaves the line of a known name alone, and gives an unknown one, of
\* which nothing is served, the line of a removal.
LEMMA LedgerSetCert ==
    ASSUME IInv, IInv', UnknownIsAbsent, UNCHANGED served, NEW f \in Fqdn, NEW cert, SetCert(f, cert),
           store.entries[f].known \/ ~Exists(served[f])
    PROVE  Ledger!Advance
<1>1. /\ \A g \in Fqdn \ {f} : store'.entries[g] = store.entries[g]
      /\ store'.entries[f].known
      /\ store'.entries[f].gen = store.entries[f].gen
      /\ store'.entries[f].present = store.entries[f].present
  BY SetCertEntries
<1>2. store.entries[f] \in Entry /\ store'.entries[f] \in Entry
  BY LineTypes DEF IInv, TypeOK, StoreTypeOK, StoreState, Entries
<1>3. \A g \in Fqdn \ {f} : SameLine(store.entries[g], store'.entries[g])
  BY <1>1 DEF SameLine
<1>4. CASE store.entries[f].known
  <2>1. store'.entries[f].known = store.entries[f].known
    BY <1>1, <1>2, <1>4 DEF Entry
  <2>2. SameLine(store.entries[f], store'.entries[f])
    BY <1>1, <2>1 DEF SameLine
  <2> QED
    BY <1>3, <2>2, LedgerAdvance
<1>5. CASE ~store.entries[f].known
  <2>1. ~Exists(served[f])
    BY <1>5
  <2>2. store.entries[f].present = FALSE
    BY <1>2, <1>5 DEF UnknownIsAbsent, Entry
  <2>3. AdvancedLine(store.entries[f], store'.entries[f], served[f])
    BY <1>1, <1>5, <2>1, <2>2 DEF AdvancedLine, Exists
  <2> QED
    BY <1>3, <2>3, LedgerAdvance
<1> QED
  BY <1>4, <1>5


LEMMA LedgerCommit ==
    ASSUME IInv, IInv', LinesFit, UnknownIsAbsent, CommitApply \/ CommitSync
    PROVE  Ledger!Advance
<1>1. /\ pc = "commit" /\ BeforeCommit /\ pc \in Pending /\ ~Upgrading
      /\ served = target /\ UNCHANGED served
  BY PhaseFacts DEF CommitApply, CommitSync, BeforeCommit, Pending
<1>2. store \in StoreState /\ planned \in Entries
  BY DEF IInv, TypeOK, StoreTypeOK
<1>3. ASSUME NEW f \in Fqdn, planned[f].known, store'.entries[f] = planned[f]
      PROVE  \/ SameLine(store.entries[f], store'.entries[f])
             \/ AdvancedLine(store.entries[f], store'.entries[f], served[f])
  <2>1. LineFits(f)
    BY <1>1, <1>3 DEF LinesFit
  <2>2. store.entries[f].known => planned[f].gen >= store.entries[f].gen
    BY <1>1, <1>3 DEF IInv, PlanInv, PlannedFits
  <2>3. planned[f] \in Entry /\ store.entries[f] \in Entry
    BY <1>2 DEF StoreState, Entries
  <2>4. CASE /\ store.entries[f].known
             /\ planned[f].gen = store.entries[f].gen
             /\ planned[f].present = store.entries[f].present
    <3>1. planned[f].known = store.entries[f].known
      BY <1>3, <2>3, <2>4 DEF Entry
    <3> QED
      BY <1>3, <2>4, <3>1 DEF SameLine
  <2>5. CASE /\ planned[f].present = Exists(target[f])
             /\ Exists(target[f]) => target[f].gen = planned[f].gen
    BY <1>1, <1>3, <2>2, <2>5 DEF AdvancedLine
  <2> QED
    BY <2>1, <2>4, <2>5 DEF LineFits
<1>4. CASE CommitApply
  <2>1. PICK f : f = job.routes[1].fqdn
    OBVIOUS
  <2>2. f \in Fqdn /\ planned[f].known /\ Record(f, planned[f])
    BY <1>1, <1>4, <2>1 DEF CommitApply, IInv, PlanInv, PlannedFits
  <2>3. store'.entries = [store.entries EXCEPT ![f] = planned[f]]
    BY <1>2, <2>2 DEF Record, Persist, StoreState
  <2>4. \A g \in Fqdn : store'.entries[g] = IF g = f THEN planned[f] ELSE store.entries[g]
    BY <1>2, <2>2, <2>3 DEF StoreState, Entries
  <2>5. \A g \in Fqdn \ {f} : SameLine(store.entries[g], store'.entries[g])
    BY <2>4 DEF SameLine
  <2>6. \/ SameLine(store.entries[f], store'.entries[f])
        \/ AdvancedLine(store.entries[f], store'.entries[f], served[f])
    BY <1>3, <2>2, <2>4
  <2> QED
    BY <1>1, <2>5, <2>6, LedgerAdvance
<1>5. CASE CommitSync
  <2>1. store'.entries = Merged(store.entries, planned) /\ job.kind = "sync"
    BY <1>5 DEF CommitSync, ReplaceAll, Persist
  <2>2. ASSUME NEW f \in Fqdn
        PROVE  \/ SameLine(store.entries[f], store'.entries[f])
               \/ AdvancedLine(store.entries[f], store'.entries[f], served[f])
    <3>1. CASE planned[f].known
      BY <1>3, <2>1, <3>1 DEF Merged
    <3>2. CASE ~planned[f].known
      <4>1. store'.entries[f] = Tombstone(store.entries[f]) /\ store.entries[f] \in Entry
        BY <1>2, <2>1, <3>2 DEF Merged, StoreState, Entries
      <4>2. /\ store'.entries[f].known = store.entries[f].known
            /\ store'.entries[f].gen = store.entries[f].gen
            /\ store'.entries[f].present = FALSE
        BY <4>1 DEF Tombstone, Entry
      <4>3. served[f] = NoFile
        BY <1>1, <2>1, <3>2 DEF LinesFit
      <4>4. Exists(served[f]) = FALSE
        BY <4>3 DEF Exists, NoFile
      <4> QED
        <5>1. store.entries[f].known =>
                 store'.entries[f].known /\ store'.entries[f].gen >= store.entries[f].gen
          BY <4>1, <4>2 DEF Entry
        <5>2. store'.entries[f].present = Exists(served[f]) /\ ~Exists(served[f])
          BY <4>2, <4>4, Zenon
        <5> QED
          BY <5>1, <5>2, Zenon DEF AdvancedLine
    <3> QED
      BY <3>1, <3>2
  <2> QED
    BY <1>1, <2>2, LedgerAdvance
<1> QED
  BY <1>4, <1>5

LEMMA LedgerStep ==
    ASSUME "persist" \notin Faults, saved = store, IInv, SiteInv, [Next]_vars
    PROVE  Ledger!Switch \/ Ledger!Advance
<1>0. IInv' /\ PruneFits /\ QueueFits /\ LinesFit /\ UnknownIsAbsent
  BY NextIInv DEF SiteInv
<1>1. CASE store' = store
  BY <1>0, <1>1, LedgerSwitch
<1>2. ASSUME NEW cert \in {"OK", "FAILED"}, UpgradeEnds(cert) PROVE Ledger!Advance
  <2>1. PICK f : f = upgrading.fqdn
    OBVIOUS
  <2>2. UpgradePending /\ SetCert(f, cert) /\ UNCHANGED served
    BY <1>2, <2>1 DEF UpgradeEnds
  <2>3. upgrading \in Route
    BY <2>2 DEF UpgradePending, Upgrading, IInv, TypeOK
  <2>4. f \in Fqdn /\ store.entries[f].known
    BY <1>0, <2>1, <2>2, <2>3 DEF LinesFit, Route
  <2> QED
    BY <1>0, <2>2, <2>4, LedgerSetCert
<1>3. ASSUME NEW f \in Fqdn, PruneCert(f), store' # store PROVE Ledger!Advance
  <2>1. SetCert(f, "FAILED") /\ UNCHANGED served /\ pc = "prune" /\ f \in toPrune
    BY <1>3 DEF PruneCert
  <2>2. served[f] = NoFile
    BY <1>0, <2>1 DEF PruneFits
  <2>3. ~Exists(served[f])
    BY <2>2 DEF Exists, NoFile
  <2> QED
    BY <1>0, <2>1, <2>3, LedgerSetCert
<1>4. CASE SettleReady \/ EnsureFailed
  <2>1. PICK f : f = Head(toSettle).fqdn
    OBVIOUS
  <2>2. /\ Settling /\ UNCHANGED served
        /\ SetCert(f, "OK") \/ SetCert(f, "FAILED")
    BY <1>4, <2>1 DEF SettleReady, EnsureFailed
  <2>3. f \in Fqdn /\ store.entries[f].known
    BY <2>1, <2>2, QueueHead DEF IInv, PlanInv, SettleFits, Pending
  <2> QED
    BY <1>0, <2>2, <2>3, LedgerSetCert
<1>5. CASE CommitApply \/ CommitSync
  BY <1>0, <1>5, LedgerCommit
<1>6. ASSUME \/ GivesUp \/ InFlight \/ Outside
             \/ \E r \in ApplyRequests : ApplyAccepted(r)
             \/ \E routes \in Manifests, snap \in Snapshots : SyncAccepted(routes, snap)
             \/ PlanOmitted \/ PlanKept \/ PlanRendered \/ PlanDone
             \/ PruneDone \/ Ensured \/ Settled \/ Respond \/ CrashRestart
      PROVE  store' = store
  BY <1>6 DEF GivesUp, InFlight, Outside, ApplyAccepted, SyncAccepted, PlanOmitted, PlanKept,
     PlanRendered, PlanDone, PruneDone, Ensured, Settled, Respond, CrashRestart, Reload
<1> QED
  BY <1>1, <1>2, <1>3, <1>4, <1>5, <1>6, Steps

(* As long as the state file can be written, Manager with its store, nginx   *)
(* and certbot implements GenerationLedger, restarts included: the recorded  *)
(* generations only move forward, to what nginx serves at that moment, and   *)
(* what nginx serves never falls behind the record.                          *)
THEOREM Refinement ==
    ASSUME "persist" \notin Faults
    PROVE  Spec => KeepsTheLedger
<1>1. Init => Ledger!LedgerInit
  <2> SUFFICES ASSUME Init PROVE Ledger!LedgerInit
    OBVIOUS
  <2>1. \A f \in Fqdn : store.entries[f] = NoEntry /\ served[f] = NoFile
    BY DEF Init, StoreInit, NginxInit, NoEntries, EmptyTree
  <2>2. NoEntry.known = FALSE /\ NoEntry.present = FALSE /\ ~Exists(NoFile)
    BY DEF NoEntry, NoFile, Exists
  <2> QED
    BY <2>1, <2>2 DEF Ledger!LedgerInit, Ledger!Unknown, Ledger!Nothing
<1>2. Init => saved = store
  BY DEF Init, StoreInit
<1>3. saved = store /\ IInv /\ [Next]_vars => (saved = store)'
  BY DurableStep
<1>4. saved = store /\ IInv /\ SiteInv /\ [Next]_vars =>
         [Ledger!Switch \/ Ledger!Advance]_(Ledger!ledgerVars)
  BY LedgerStep
<1> QED
  BY <1>1, <1>2, <1>3, <1>4, SiteInductive, PTL DEF Spec, KeepsTheLedger, Ledger!LedgerSpec

=============================================================================
