------------------------------- MODULE Manager -------------------------------
(* The manager of the proxy agent (internal/manager): /apply and /sync-all   *)
(* run one at a time under mutateMu, each as a long sequence of file writes, *)
(* nginx commands, store updates and certbot runs. nginx's master, other     *)
(* users of the host and the death of the process act between its steps.     *)
(*                                                                           *)
(* The three callers of testAndReload - an apply, a sync and the upgrade of  *)
(* a custom domain to HTTPS in settleCert - walk the same states:            *)
(*                                                                           *)
(*   plan -> swap -> test -> reload -> await -> commit -> prune -> settle    *)
(*                                                                           *)
(* and on a failure restore, then, if the reload was ambiguous, test, reload *)
(* and await once more on the restored files (restoreAfterFailure).          *)
EXTENDS Store, Nginx

CONSTANTS
    ApplyRequests,  \* the routes /apply may receive
    Manifests,      \* the route lists /sync-all may receive
    Snapshots       \* the snapshot generations /sync-all may receive

ASSUME RequestsAssumption == /\ ApplyRequests \subseteq Route
                             /\ Manifests \subseteq Seq(Route)
                             /\ Snapshots \subseteq Nat

VARIABLES
    pc,         \* where the request that holds mutateMu is
    job,        \* that request
    idx,        \* the manifest entry being planned
    planned,    \* newEntries: what the store is to hold
    kept,       \* staleKept: names whose newer state a sync keeps
    target,     \* desired: what the directory is to hold
    backup,     \* prior: what the directory held
    toPrune,    \* names whose lineage is still to be dropped
    toSettle,   \* pendingCustom: routes whose certificate is still to be settled
    upgrading,  \* the route being upgraded to HTTPS
    failure,    \* why the files are being restored
    reply       \* the answer, and the event recorded for /status

flowVars == <<pc, failure, reply>>
planVars == <<job, idx, planned, kept, toPrune>>
treeVars == <<target, backup>>
settleVars == <<toSettle, upgrading>>
localVars == <<flowVars, planVars, treeVars, settleVars>>
vars == <<storeVars, certVars, nginxVars, localVars>>

Phase == {"idle", "plan", "swap", "test", "reload", "await", "commit",
          "prune", "settle", "restore", "respond"}

Job == [kind : {"none", "apply", "sync"}, routes : Seq(Route), snap : Nat]

NoJob == [kind |-> "none", routes |-> <<>>, snap |-> 0]

NoRoute == [fqdn |-> "", state |-> "none", gen |-> 0, ref |-> "", target |-> ""]

\* none while nothing failed; "ambiguous" is errReloadUnconfirmed.
Failure == {"none", "write", "test", "ambiguous"}

\* doubt: the answer says that the rollback is not confirmed.
Reply == [code  : {0, 200, 409, 422},
          doubt : BOOLEAN,
          event : {"unrecorded", "ok", "failed"}]

NoReply == [code |-> 0, doubt |-> FALSE, event |-> "unrecorded"]

\* Mutant: a failed reload is no reason to reload the restored files.
NeverAmbiguous == FALSE

Recovering == failure = "ambiguous"

Upgrading == upgrading # NoRoute

TypeOK ==
    /\ StoreTypeOK
    /\ CertTypeOK
    /\ NginxTypeOK
    /\ pc \in Phase
    /\ job \in Job
    /\ idx \in Nat \ {0}
    /\ planned \in Entries
    /\ kept \subseteq Fqdn
    /\ target \in Tree
    /\ backup \in Tree
    /\ toPrune \subseteq Fqdn
    /\ toSettle \in Seq(Route)
    /\ upgrading \in Route \cup {NoRoute}
    /\ failure \in Failure
    /\ reply \in Reply

Idle ==
    /\ pc = "idle"
    /\ job = NoJob
    /\ idx = 1
    /\ planned = NoEntries
    /\ kept = {}
    /\ target = EmptyTree
    /\ backup = EmptyTree
    /\ toPrune = {}
    /\ toSettle = <<>>
    /\ upgrading = NoRoute
    /\ failure = "none"
    /\ reply = NoReply

\* No request is in progress any more.
Forgotten ==
    /\ pc' = "idle"
    /\ job' = NoJob
    /\ idx' = 1
    /\ planned' = NoEntries
    /\ kept' = {}
    /\ target' = EmptyTree
    /\ backup' = EmptyTree
    /\ toPrune' = {}
    /\ toSettle' = <<>>
    /\ upgrading' = NoRoute
    /\ failure' = "none"
    /\ reply' = NoReply

Init == StoreInit /\ CertInit /\ NginxInit /\ Idle

-----------------------------------------------------------------------------
(* Receiving a request.                                                      *)

\* Answer without having changed anything.
Reject(code) ==
    /\ pc' = "respond"
    /\ reply' = [NoReply EXCEPT !.code = code]
    /\ UNCHANGED failure

\* Mutant: HTTPS without a look at the certificate.
AlwaysReady(r) == TRUE

\* The existing certificate decides between challenge and HTTPS, per route.
CertReady(r) == IsPlatform(r) \/ r.fqdn \in live

ApplyRejected(r) ==
    /\ pc = "idle"
    /\ job' = [kind |-> "apply", routes |-> <<r>>, snap |-> 0]
    /\ \/ Superseded(r.fqdn, r.gen) /\ Reject(409)
       \/ /\ ~Superseded(r.fqdn, r.gen)
          /\ \/ ~Valid(r)
             \/ "read" \in Faults  \* the vhost cannot be read for its backup
             \/ r.state = "PRESENT" /\ ~HasCertPaths(r)
          /\ Reject(422)
    /\ UNCHANGED <<storeVars, certVars, nginxVars, idx, planned, kept, toPrune,
                   treeVars, settleVars>>

ApplyFile(r) ==
    IF r.state = "ABSENT" THEN NoFile ELSE Rendered(r, CertReady(r))

ApplyAccepted(r) ==
    /\ pc = "idle"
    /\ ~Superseded(r.fqdn, r.gen)
    /\ Valid(r)
    /\ r.state = "PRESENT" => HasCertPaths(r)
    /\ pc' = "swap"
    /\ job' = [kind |-> "apply", routes |-> <<r>>, snap |-> 0]
    /\ backup' = disk
    /\ target' = [disk EXCEPT ![r.fqdn] = ApplyFile(r)]
    /\ planned' = [NoEntries EXCEPT ![r.fqdn] =
                     EntryOf(r.gen, r.state = "PRESENT", "")]
    /\ toPrune' = IF r.state = "ABSENT" THEN {r.fqdn} ELSE {}
    /\ toSettle' = IF r.state = "PRESENT" /\ ~IsPlatform(r) THEN <<r>> ELSE <<>>
    /\ UNCHANGED <<storeVars, certVars, nginxVars, idx, kept, upgrading,
                   failure, reply>>

\* Mutant: a snapshot of any generation is taken.
AnySnapshot(snap) == FALSE

\* last != 0 && req.SnapshotGeneration <= last
SnapshotStale(snap) == store.snap # 0 /\ snap <= store.snap

SyncRejected(routes, snap) ==
    /\ pc = "idle"
    /\ job' = [kind |-> "sync", routes |-> routes, snap |-> snap]
    /\ \/ SnapshotStale(snap) /\ Reject(409)
       \/ ~SnapshotStale(snap) /\ "read" \in Faults /\ Reject(422)
    /\ UNCHANGED <<storeVars, certVars, nginxVars, idx, planned, kept, toPrune,
                   treeVars, settleVars>>

\* Mutant: counting from zero.
FromZero == idx' = 0

FromTheStart == idx' = 1

SyncAccepted(routes, snap) ==
    /\ pc = "idle"
    /\ ~SnapshotStale(snap)
    /\ pc' = "plan"
    /\ job' = [kind |-> "sync", routes |-> routes, snap |-> snap]
    /\ FromTheStart
    /\ backup' = disk
    /\ UNCHANGED <<storeVars, certVars, nginxVars, planned, kept, toPrune,
                   target, settleVars, failure, reply>>

-----------------------------------------------------------------------------
(* Planning a sync: the manifest, entry by entry, before touching the disk.  *)

Planning == pc = "plan" /\ idx <= Len(job.routes)

NextEntry == idx' = idx + 1 /\ UNCHANGED <<pc, reply>>

PlanOmitted ==
    /\ Planning
    /\ job.routes[idx].state = "ABSENT"
    /\ NextEntry
    /\ UNCHANGED <<storeVars, certVars, nginxVars, job, planned, kept, toPrune,
                   treeVars, settleVars, failure>>

\* Validation, a second entry for the same file, or an unresolvable certRef.
PlanRejected ==
    /\ Planning
    /\ LET r == job.routes[idx]
       IN  /\ r.state # "ABSENT"
           /\ \/ ~Valid(r)
              \/ Exists(target[r.fqdn])
              \/ ~Outdated(r.fqdn, r.gen) /\ ~HasCertPaths(r)
    /\ Reject(422)
    /\ UNCHANGED <<storeVars, certVars, nginxVars, planVars, treeVars, settleVars>>

\* Mutant: the entry is kept as it is on record.
AsRecorded(cur, file) == cur

\* An entry may say present when its file is gone.
KeptEntry(cur, file) == [cur EXCEPT !.present = Exists(file)]

\* The stale guard keeps the newer applied entry, and its file if there is one.
PlanKept ==
    /\ Planning
    /\ LET r == job.routes[idx]
           cur == store.entries[r.fqdn]
           file == IF cur.present THEN backup[r.fqdn] ELSE NoFile
       IN  /\ r.state # "ABSENT" /\ Valid(r)
           /\ ~Exists(target[r.fqdn])
           /\ Outdated(r.fqdn, r.gen)
           /\ target' = [target EXCEPT ![r.fqdn] = file]
           /\ planned' = [planned EXCEPT ![r.fqdn] = KeptEntry(cur, file)]
           /\ kept' = kept \cup {r.fqdn}
    /\ NextEntry
    /\ UNCHANGED <<storeVars, certVars, nginxVars, job, toPrune, backup,
                   settleVars, failure>>

SyncCert(r) == CASE IsPlatform(r)                     -> ""
                 [] ~IsPlatform(r) /\ CertReady(r)    -> "OK"
                 [] ~IsPlatform(r) /\ ~CertReady(r)   -> "PENDING"

PlanRendered ==
    /\ Planning
    /\ LET r == job.routes[idx]
       IN  /\ r.state # "ABSENT" /\ Valid(r) /\ HasCertPaths(r)
           /\ ~Exists(target[r.fqdn])
           /\ ~Outdated(r.fqdn, r.gen)
           /\ target' = [target EXCEPT ![r.fqdn] = Rendered(r, CertReady(r))]
           /\ planned' = [planned EXCEPT ![r.fqdn] =
                            EntryOf(r.gen, TRUE, SyncCert(r))]
           /\ toSettle' = IF CertReady(r) THEN toSettle ELSE Append(toSettle, r)
    /\ NextEntry
    /\ UNCHANGED <<storeVars, certVars, nginxVars, job, kept, toPrune, backup,
                   upgrading, failure>>

\* The prune set is what the directory holds and the manifest does not.
PlanDone ==
    /\ pc = "plan" /\ idx > Len(job.routes)
    /\ pc' = "swap"
    /\ toPrune' = {f \in Fqdn : Exists(backup[f]) /\ ~Exists(target[f])}
    /\ UNCHANGED <<storeVars, certVars, nginxVars, job, idx, planned, kept,
                   treeVars, settleVars, failure, reply>>

-----------------------------------------------------------------------------
(* Writing the directory, file by file.                                      *)

\* writeConfDir writes every wanted file before it removes the others.
PutFile(want, f) ==
    /\ disk[f] # want[f]
    /\ Exists(want[f]) \/ \A g \in Fqdn : Exists(want[g]) => disk[g] = want[g]
    /\ disk' = [disk EXCEPT ![f] = want[f]]
    /\ UNCHANGED <<proof, expected, served, servedProof, hup>>

SwapFile(f) ==
    /\ pc = "swap"
    /\ PutFile(target, f)
    /\ UNCHANGED <<storeVars, certVars, localVars>>

SwapDone ==
    /\ pc = "swap" /\ disk = target
    /\ pc' = "test"
    /\ UNCHANGED <<storeVars, certVars, nginxVars, planVars, treeVars,
                   settleVars, failure, reply>>

\* An apply has a single file to write, and gives up as it found the directory.
ApplySwapFails ==
    /\ "write" \in Faults
    /\ pc = "swap" /\ job.kind = "apply" /\ ~Upgrading /\ disk = backup
    /\ Reject(422)
    /\ UNCHANGED <<storeVars, certVars, nginxVars, planVars, treeVars, settleVars>>

SyncSwapFails ==
    /\ "write" \in Faults
    /\ pc = "swap" /\ job.kind = "sync" /\ ~Upgrading
    /\ pc' = "restore"
    /\ failure' = "write"
    /\ UNCHANGED <<storeVars, certVars, nginxVars, planVars, treeVars,
                   settleVars, reply>>

\* End of an upgrade, with its result for /status.
EndUpgrade(cert) ==
    /\ SetCert(upgrading.fqdn, cert)
    /\ upgrading' = NoRoute
    /\ failure' = "none"
    /\ pc' = "settle"
    /\ UNCHANGED reply

UpgradeSwapFails ==
    /\ "write" \in Faults
    /\ pc = "swap" /\ Upgrading /\ disk # target
    /\ EndUpgrade("FAILED")
    /\ UNCHANGED <<certVars, nginxVars, planVars, treeVars, toSettle>>

-----------------------------------------------------------------------------
(* testAndReload, for the candidate and again for the restored files.        *)

\* The request fails: 422 and an event, or CertFailed in the middle of a settle.
EndFailure(doubt) ==
    \/ /\ Upgrading
       /\ EndUpgrade("FAILED")
    \/ /\ ~Upgrading
       /\ pc' = "respond"
       /\ reply' = [code  |-> 422, doubt |-> doubt,
                    event |-> IF failure = "write" THEN "unrecorded" ELSE "failed"]
       /\ UNCHANGED <<storeVars, upgrading, failure>>

Restoring(why) ==
    /\ failure' = why
    /\ pc' = "restore"
    /\ UNCHANGED <<storeVars, upgrading, reply>>

TestPassed ==
    /\ pc = "test"
    /\ TestSucceeds
    /\ pc' = "reload"
    /\ UNCHANGED <<storeVars, certVars, planVars, treeVars, settleVars, failure,
                   reply>>

TestFailed ==
    /\ pc = "test"
    /\ TestFails
    /\ \/ ~Recovering /\ Restoring("test")
       \/ Recovering /\ EndFailure(TRUE)
    /\ UNCHANGED <<certVars, planVars, treeVars, toSettle>>

Signalled ==
    /\ pc = "reload"
    /\ SignalSucceeds
    /\ pc' = "await"
    /\ UNCHANGED <<storeVars, certVars, planVars, treeVars, settleVars, failure,
                   reply>>

ReloadGivesUp == \/ ~Recovering /\ Restoring("ambiguous")
                 \/ Recovering /\ EndFailure(TRUE)

SignalFailed ==
    /\ pc = "reload"
    /\ SignalFails
    /\ ReloadGivesUp
    /\ UNCHANGED <<certVars, planVars, treeVars, toSettle>>

\* Mutant: no deadline for the proof.
WaitsForever == FALSE

ProofTimeout ==
    /\ pc = "await"
    /\ ReloadGivesUp
    /\ UNCHANGED <<certVars, nginxVars, planVars, treeVars, toSettle>>

Confirmed ==
    /\ pc = "await" /\ ~Recovering
    /\ ProofSeen
    /\ pc' = "commit"
    /\ UNCHANGED <<storeVars, certVars, nginxVars, planVars, treeVars,
                   settleVars, failure, reply>>

RecoveryConfirmed ==
    /\ pc = "await" /\ Recovering
    /\ ProofSeen
    /\ EndFailure(FALSE)
    /\ UNCHANGED <<certVars, nginxVars, planVars, treeVars, toSettle>>

RestoreFile(f) ==
    /\ pc = "restore"
    /\ PutFile(backup, f)
    /\ UNCHANGED <<storeVars, certVars, localVars>>

\* Only an ambiguous reload makes nginx look at the restored files again.
Restored ==
    /\ pc = "restore" /\ disk = backup
    /\ \/ /\ Recovering
          /\ pc' = "test"
          /\ UNCHANGED <<storeVars, upgrading, failure, reply>>
       \/ ~Recovering /\ EndFailure(FALSE)
    /\ UNCHANGED <<certVars, nginxVars, planVars, treeVars, toSettle>>

RestoreFailed ==
    /\ "write" \in Faults
    /\ pc = "restore"
    /\ EndFailure(TRUE)
    /\ UNCHANGED <<certVars, nginxVars, planVars, treeVars, toSettle>>

-----------------------------------------------------------------------------
(* After the candidate is confirmed.                                         *)

CommitApply ==
    /\ pc = "commit" /\ job.kind = "apply" /\ ~Upgrading
    /\ LET f == job.routes[1].fqdn IN Record(f, planned[f])
    /\ pc' = "prune"
    /\ UNCHANGED <<certVars, nginxVars, planVars, treeVars, settleVars, failure,
                   reply>>

CommitSync ==
    /\ pc = "commit" /\ job.kind = "sync" /\ ~Upgrading
    /\ ReplaceAll(planned, job.snap)
    /\ pc' = "prune"
    /\ UNCHANGED <<certVars, nginxVars, planVars, treeVars, settleVars, failure,
                   reply>>

CommitUpgrade ==
    /\ pc = "commit" /\ Upgrading
    /\ EndUpgrade("OK")
    /\ UNCHANGED <<certVars, nginxVars, planVars, treeVars, toSettle>>

\* pruneCert of one name: without a lineage there is nothing to call certbot for.
PruneCert(f) ==
    /\ pc = "prune" /\ f \in toPrune
    /\ \/ ~LineageExists(f) /\ UNCHANGED <<certVars, storeVars>>
       \/ LineageExists(f) /\ DeleteSucceeds(f) /\ UNCHANGED storeVars
       \/ LineageExists(f) /\ DeleteInterrupted(f) /\ SetCert(f, "FAILED")
    /\ toPrune' = toPrune \ {f}
    /\ UNCHANGED <<nginxVars, flowVars, job, idx, planned, kept, treeVars,
                   settleVars>>

PruneDone ==
    /\ pc = "prune" /\ toPrune = {}
    /\ pc' = "settle"
    /\ UNCHANGED <<storeVars, certVars, nginxVars, planVars, treeVars,
                   settleVars, failure, reply>>

Settling == pc = "settle" /\ toSettle # <<>>

\* Render saw the certificate: the target file, unlike the one on disk after a
\* failed upgrade, still says what it decided.
WasReady(r) == target[r.fqdn].kind = "https"

SettleReady ==
    /\ Settling
    /\ WasReady(Head(toSettle))
    /\ SetCert(Head(toSettle).fqdn, "OK")
    /\ toSettle' = Tail(toSettle)
    /\ UNCHANGED <<certVars, nginxVars, flowVars, planVars, treeVars, upgrading>>

EnsureFailed ==
    /\ Settling
    /\ LET f == Head(toSettle).fqdn
       IN  /\ ~WasReady(Head(toSettle))
           /\ EnsureInterrupted(f)
           /\ SetCert(f, "FAILED")
    /\ toSettle' = Tail(toSettle)
    /\ UNCHANGED <<nginxVars, flowVars, planVars, treeVars, upgrading>>

\* Mutant: an upgrade whose prior file always counts as missing.
NothingToRestore(f) == backup' = [disk EXCEPT ![f] = NoFile]

\* The prior file of an upgrade. The error of that read is dropped, so that a
\* file that cannot be read counts as one that is not there.
ReadBack(f) ==
    \/ backup' = disk
    \/ "read" \in Faults /\ backup' = [disk EXCEPT ![f] = NoFile]

\* The certificate exists: read the file back, then swap in the HTTPS vhost.
Ensured ==
    /\ Settling
    /\ LET r == Head(toSettle)
       IN  /\ ~WasReady(r)
           /\ EnsureSucceeds(r.fqdn)
           /\ upgrading' = r
           /\ target' = [disk EXCEPT ![r.fqdn] = Rendered(r, TRUE)]
           /\ ReadBack(r.fqdn)
    /\ toSettle' = Tail(toSettle)
    /\ pc' = "swap"
    /\ UNCHANGED <<storeVars, nginxVars, planVars, failure, reply>>

Settled ==
    /\ pc = "settle" /\ toSettle = <<>>
    /\ pc' = "respond"
    /\ reply' = [code |-> 200, doubt |-> FALSE, event |-> "ok"]
    /\ UNCHANGED <<storeVars, certVars, nginxVars, planVars, treeVars,
                   settleVars, failure>>

Respond ==
    /\ pc = "respond"
    /\ Forgotten
    /\ UNCHANGED <<storeVars, certVars, nginxVars>>

-----------------------------------------------------------------------------
(* The process dies anywhere - killed, or out of its shutdown grace with a   *)
(* request still running - and systemd starts it again. A certbot run dies   *)
(* with it, wherever it was.                                                 *)

InterruptedCertbot ==
    \/ UNCHANGED certVars
    \/ pc = "prune" /\ \E f \in toPrune : LineageExists(f) /\ DeleteInterrupted(f)
    \/ Settling /\ EnsureInterrupted(Head(toSettle).fqdn)

CrashRestart ==
    /\ "crash" \in Faults
    /\ Reload
    /\ ForgetProof
    /\ InterruptedCertbot
    /\ Forgotten

-----------------------------------------------------------------------------
Receive == \/ \E r \in ApplyRequests : ApplyRejected(r) \/ ApplyAccepted(r)
           \/ \E routes \in Manifests, snap \in Snapshots :
                  SyncRejected(routes, snap) \/ SyncAccepted(routes, snap)

\* A step of the goroutine that holds mutateMu.
Work == \/ PlanOmitted \/ PlanRejected \/ PlanKept \/ PlanRendered \/ PlanDone
        \/ \E f \in Fqdn : SwapFile(f) \/ RestoreFile(f) \/ PruneCert(f)
        \/ SwapDone \/ ApplySwapFails \/ SyncSwapFails \/ UpgradeSwapFails
        \/ TestPassed \/ TestFailed \/ Signalled \/ SignalFailed
        \/ ProofTimeout \/ Confirmed \/ RecoveryConfirmed
        \/ Restored \/ RestoreFailed
        \/ CommitApply \/ CommitSync \/ CommitUpgrade
        \/ PruneDone \/ SettleReady \/ EnsureFailed \/ Ensured \/ Settled
        \/ Respond

Environment ==
    \/ (MasterLoads \/ MasterRefuses \/ ForeignReload)
          /\ UNCHANGED <<storeVars, certVars, localVars>>
    \/ \E f \in Fqdn : RemoveByHand(f)
          /\ UNCHANGED <<storeVars, nginxVars, localVars>>

Next == Receive \/ Work \/ CrashRestart \/ Environment

Spec == Init /\ [][Next]_vars

(* Every command has a deadline (ExecTimeout, 180 s, for nginx and certbot,  *)
(* 10 s for the proof, 20 s for a recovery), so the goroutine that holds     *)
(* mutateMu is never stuck.                                                  *)
FairSpec == Spec /\ WF_vars(Work)

=============================================================================
