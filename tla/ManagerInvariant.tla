--------------------------- MODULE ManagerInvariant ---------------------------
(* The inductive invariant behind the theorems of ManagerProofs: why the     *)
(* safety properties of Manager hold, step by step.                          *)
EXTENDS ManagerProperties

\* A request has not told the store yet, or an upgrade has not ended yet.
Pending == {"plan", "swap", "test", "reload", "await", "restore", "commit"}

\* Every name of the first map is in the second, at the same or a later generation.
Behind(old, new) ==
    \A f \in Fqdn : old[f].known => new[f].known /\ new[f].gen >= old[f].gen

\* The state file never knows more than the map, so a restart only forgets.
SavedIsBehind == Behind(saved.entries, store.entries) /\ saved.snap <= store.snap

\* An unknown name has no generation that SetCert could bring to life.
UnknownIsZero ==
    \A f \in Fqdn : /\ ~store.entries[f].known => store.entries[f].gen = 0
                    /\ ~saved.entries[f].known => saved.entries[f].gen = 0

\* Whatever may be written next, forwards or backwards, is not older than the record.
TreesFit ==
    pc \in Pending =>
        NotOlder(target, store.entries) /\ NotOlder(backup, store.entries)

\* What the store is to be told neither goes back nor overtakes the candidate.
PlannedFits ==
    pc \in Pending /\ ~Upgrading =>
        /\ \A f \in Fqdn : planned[f].known =>
             /\ Exists(target[f]) => target[f].gen >= planned[f].gen
             /\ store.entries[f].known => planned[f].gen >= store.entries[f].gen
        /\ job.kind = "apply" =>
             /\ job.routes[1].fqdn \in Fqdn
             /\ \A f \in Fqdn : planned[f].known <=> f = job.routes[1].fqdn

SnapshotFits ==
    pc \notin {"idle", "respond"} /\ job.kind = "sync" => job.snap >= store.snap

\* A certificate is settled for the very generation that is, or will be, on record.
SettleFits ==
    \A i \in 1 .. Len(toSettle) :
        LET r == toSettle[i]
        IN  IF pc \in Pending /\ ~Upgrading
            THEN /\ planned[r.fqdn].known /\ planned[r.fqdn].gen = r.gen
                 /\ pc = "plan" => Exists(target[r.fqdn])
            ELSE pc # "respond" =>
                    store.entries[r.fqdn].known /\ store.entries[r.fqdn].gen = r.gen

PhaseFits ==
    /\ pc = "idle" => toSettle = <<>> /\ target = EmptyTree /\ planned = NoEntries
    /\ pc \in {"idle", "plan", "prune", "settle"} => ~Upgrading
    /\ pc \in {"idle", "plan", "swap", "commit", "prune", "settle"} => failure = "none"
    /\ pc \in {"test", "reload", "await"} => failure \in {"none", "ambiguous"}
    /\ pc = "plan" => job.kind = "sync"

\* The files that testAndReload is about.
Wanted == IF Recovering THEN backup ELSE target

CandidateIsOnDisk ==
    pc \in {"test", "reload", "await", "commit"} => disk = Wanted

\* Seeing the awaited proof means that nginx took the files as they are now.
ProofMeansServed ==
    /\ pc \in {"reload", "await"} =>
         expected = proof /\ (servedProof = proof => served = disk)
    /\ pc = "commit" => served = disk

\* The phases of a request and what is on disk and served in them.
FlowInv ==
    PhaseFits /\ CandidateIsOnDisk /\ ProofMeansServed /\ RollbackIsComplete

\* The record against its file, and against everything on disk and served.
RecordInv ==
    SavedIsBehind /\ UnknownIsZero /\ NeverServesOlderThanRecorded /\ TreesFit

\* The record against what a request is about to tell it.
PlanInv == PlannedFits /\ SnapshotFits /\ SettleFits

(* The conjunction is inductive; every reachable state of every run has it.  *)
IInv == TypeOK /\ FlowInv /\ RecordInv /\ PlanInv

-----------------------------------------------------------------------------
(* Files, certificates and answers of a request, over its whole way: what    *)
(* the statements about visitors and about /status rest on.                  *)

\* The generations of the request are on record: what is left are certificates.
UpgradePending == pc \in Pending /\ Upgrading
BeforeCommit   == pc \in Pending /\ ~Upgrading
AfterCommit    == pc \in {"prune", "settle"} \/ UpgradePending

\* A name that is to lose its certificate is out of the directory and of nginx.
PruneFits ==
    /\ pc \in {"idle", "plan", "settle"} \/ UpgradePending => toPrune = {}
    /\ pc # "respond" => \A f \in toPrune : target[f] = NoFile
    /\ pc = "prune" => served = disk /\ disk = target

\* A domain that waits for its certificate is left alone by all that happens to others.
QueueFits ==
    pc # "respond" => \A i \in 1 .. Len(toSettle) :
        LET r == toSettle[i]
        IN  /\ ~IsPlatform(r)
            /\ target[r.fqdn] \in {Rendered(r, TRUE), Rendered(r, FALSE)}
            /\ AfterCommit => disk[r.fqdn] = target[r.fqdn] /\ served[r.fqdn] = target[r.fqdn]
            /\ UpgradePending => r.fqdn # upgrading.fqdn /\ backup[r.fqdn] = target[r.fqdn]
            /\ \A j \in 1 .. Len(toSettle) : toSettle[j].fqdn = r.fqdn => j = i

\* Nothing is left of a withdrawn name but what its entry says.
Cleaned(f) == f \in lineage => store.entries[f].cert = "FAILED"

WithdrawalFits ==
    job.kind = "apply" /\ job.routes[1].state = "ABSENT" =>
        LET f == job.routes[1].fqdn
        IN  /\ pc \notin {"idle", "respond"} => toSettle = <<>> /\ ~Upgrading
            /\ BeforeCommit => f \in toPrune
            /\ pc = "prune" => f \in toPrune \/ Cleaned(f)
            /\ pc = "settle" \/ (pc = "respond" /\ reply.code = 200) => Cleaned(f)

\* A name that is not known is not published either.
UnknownIsAbsent ==
    \A f \in Fqdn : /\ store.entries[f].present => store.entries[f].known
                    /\ saved.entries[f].present => saved.entries[f].known

\* A line of the record changes only to what the candidate holds.
LineFits(f) ==
    \/ /\ store.entries[f].known
       /\ planned[f].gen = store.entries[f].gen
       /\ planned[f].present = store.entries[f].present
    \/ /\ planned[f].present = Exists(target[f])
       /\ Exists(target[f]) => target[f].gen = planned[f].gen

LinesFit ==
    /\ BeforeCommit => \A f \in Fqdn :
         /\ planned[f].known => LineFits(f)
         /\ job.kind = "sync" /\ ~planned[f].known => target[f] = NoFile
    /\ UpgradePending => /\ store.entries[upgrading.fqdn].known
                         /\ store.entries[upgrading.fqdn].gen = upgrading.gen

\* A manifest is planned so that the record will tell which names have a file.
RepairFits ==
    /\ BeforeCommit /\ job.kind = "sync" => \A f \in Fqdn :
         planned[f].known => planned[f].present = Exists(target[f])
    /\ SyncRepairsTheRecord

\* Every HTTPS vhost of the tree has its certificate.
Certified(tree) == \A f \in Fqdn : tree[f].kind = "https" => f \in live

CertifiedInv ==
    /\ Certified(disk) /\ Certified(served)
    /\ pc \in Pending => Certified(target) /\ Certified(backup)

\* The routes of the request that are, as far as it got, to be published.
ToPublish == {r \in {job.routes[i] : i \in {j \in 1 .. Len(job.routes) : pc = "plan" => j < idx}} :
                r.state = "PRESENT" /\ r.fqdn \notin kept}

Holds(tree, r) == Exists(tree[r.fqdn]) /\ tree[r.fqdn].gen = r.gen

PublishedInv ==
    \A r \in ToPublish :
        /\ pc \in Pending => Holds(target, r)
        /\ AfterCommit => Holds(disk, r) /\ Holds(served, r)
        /\ UpgradePending => Holds(backup, r)
        /\ pc = "respond" /\ reply.code = 200 => Holds(disk, r) /\ Holds(served, r)

Queued(f) == \E i \in 1 .. Len(toSettle) : toSettle[i].fqdn = f

\* The entry tells what the file is, its certificate apart while it is waited for.
Tells(e, file, waiting) ==
    /\ e.present = Exists(file)
    /\ e.present => file.gen = e.gen
    /\ IF waiting THEN e.cert # "OK" ELSE e.cert = "OK" <=> file.kind = "https"

DirectoryInv ==
    /\ pc \in {"idle", "respond"} => \A f \in Fqdn : Tells(store.entries[f], disk[f], FALSE)
    /\ pc \in {"prune", "settle"} => \A f \in Fqdn : Tells(store.entries[f], disk[f], Queued(f))
    /\ pc = "plan" => disk = backup
    /\ BeforeCommit => \A f \in Fqdn :
         /\ Tells(store.entries[f], backup[f], FALSE)
         /\ planned[f].known => Tells(planned[f], target[f], Queued(f))
         /\ ~planned[f].known => target[f] = IF job.kind = "sync" THEN NoFile ELSE backup[f]
    /\ UpgradePending =>
         /\ \A f \in Fqdn : Tells(store.entries[f], backup[f], Queued(f))
         /\ ~IsPlatform(upgrading)
         /\ backup[upgrading.fqdn] = Rendered(upgrading, FALSE)
         /\ target = [backup EXCEPT ![upgrading.fqdn] = Rendered(upgrading, TRUE)]

(* What holds whatever fails, and what holds as long as certain things do    *)
(* not. With IInv the conjunction is inductive.                              *)
SiteInv ==
    /\ PruneFits /\ QueueFits /\ WithdrawalFits /\ LinesFit /\ UnknownIsAbsent
    /\ RepairFits
    /\ "hand" \notin Faults => CertifiedInv
    /\ "read" \notin Faults => PublishedInv
    /\ {"crash", "read", "write"} \cap Faults = {} => DirectoryInv

=============================================================================
