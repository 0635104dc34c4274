-------------------------- MODULE ManagerProperties --------------------------
(* What Manager promises, to visitors, to pickle-api and to the operator who *)
(* reads /status, and where the code disagrees with what it says of itself.  *)
EXTENDS Manager

-----------------------------------------------------------------------------
(* Safety.                                                                   *)

(* A late request never brings an old vhost back: neither the directory nor  *)
(* the running nginx holds a vhost older than the generation on record, in   *)
(* the middle of any request and after any crash.                            *)
NotOlder(tree, entries) ==
    \A f \in Fqdn : Exists(tree[f]) /\ entries[f].known =>
        tree[f].gen >= entries[f].gen

NeverServesOlderThanRecorded ==
    NotOlder(disk, store.entries) /\ NotOlder(served, store.entries)

(* A generation is recorded only while nginx serves the candidate, whatever  *)
(* reloads and signals of others did in the meantime.                        *)
CommitsOnlyWhatIsServed == pc = "commit" => served = disk /\ disk = target

(* An error that does not call the rollback unconfirmed means that the       *)
(* directory is what it was, and after an ambiguous reload nginx too.        *)
RollbackIsComplete ==
    pc = "respond" /\ failure # "none" /\ ~reply.doubt =>
        /\ disk = backup
        /\ failure = "ambiguous" => served = backup

(* A removal takes the HTTPS vhost out of service before its certificate:    *)
(* without a hand on the files no vhost, on disk or running, lacks its own.  *)
NoDanglingCertificate ==
    \A f \in Fqdn : "https" \in {disk[f].kind, served[f].kind} => f \in live

(* certbot is called only while nginx serves the vhost that answers the      *)
(* challenge, also for a domain that waits behind a failed upgrade.          *)
ChallengeIsServed ==
    Settling /\ ~WasReady(Head(toSettle)) =>
        LET r == Head(toSettle)
        IN  served[r.fqdn] = Rendered(r, FALSE)

\* The routes that a positive answer says are published.
Published == IF pc = "respond" /\ reply.code = 200
             THEN {r \in {job.routes[i] : i \in DOMAIN job.routes} :
                     r.state = "PRESENT" /\ r.fqdn \notin kept}
             ELSE {}

(* A failed certificate does not fail the request: after a positive answer   *)
(* the vhost of every published route is live.                               *)
PublishedIsLive ==
    \A r \in Published : Exists(served[r.fqdn]) /\ served[r.fqdn].gen = r.gen

(* Between requests /status tells what the directory holds: which vhost of   *)
(* which generation, and HTTPS exactly where the certificate is reported OK. *)
StatusMatchesDirectory ==
    pc = "idle" => \A f \in Fqdn :
        LET e == store.entries[f]
        IN  /\ e.present = Exists(disk[f])
            /\ e.present => disk[f].gen = e.gen
            /\ e.cert = "OK" <=> disk[f].kind = "https"

(* Crashes and failed rollbacks leave vhosts that the record does not know,  *)
(* and entries whose vhost is gone. A confirmed sync brings them together:   *)
(* of every name, listed or kept or neither, the record says whether it is   *)
(* in the directory and served.                                              *)
SyncRepairsTheRecord ==
    pc = "prune" /\ job.kind = "sync" => \A f \in Fqdn :
        /\ store.entries[f].present = Exists(disk[f])
        /\ store.entries[f].present = Exists(served[f])

(* A withdrawn name leaves no lineage behind for `certbot renew` to fail on, *)
(* unless /status shows the failure.                                         *)
WithdrawnIsCleaned ==
    pc = "respond" /\ reply.code = 200 /\ job.kind = "apply" =>
        LET r == job.routes[1]
        IN  r.state = "ABSENT" /\ r.fqdn \in lineage =>
                store.entries[r.fqdn].cert = "FAILED"

-----------------------------------------------------------------------------
(* What the code or its documents say and the code does not keep: see        *)
(* "What does not hold" in the README.                                       *)

(* A removal that is repeated comes to the same: answered, the first time or *)
(* as one already known, it leaves no lineage behind, unless /status says so. *)
RepeatedRemovalIsClean ==
    pc = "respond" /\ reply.code \in {200, 409} /\ job.kind = "apply" =>
        LET r == job.routes[1]
            e == store.entries[r.fqdn]
        IN  r.state = "ABSENT" /\ e.gen = r.gen /\ r.fqdn \in lineage =>
                e.cert = "FAILED"

(* A lineage left behind is on /status for as long as it is there.           *)
LeftoverStaysReported ==
    pc = "idle" => \A f \in lineage :
        store.entries[f].known /\ ~store.entries[f].present =>
            store.entries[f].cert = "FAILED"

(* A certificate that /status calls OK is one that `certbot renew` renews.   *)
OKIsRenewed ==
    pc = "idle" => \A f \in Fqdn : store.entries[f].cert = "OK" => f \in lineage

(* A request that failed leaves the running configuration as it was, unless  *)
(* its answer says otherwise.                                                *)
FailureLeavesServedAlone ==
    pc = "respond" /\ reply.code = 422 /\ ~reply.doubt => served = backup

(* A name that the result of a sync calls not applied gets no new vhost.     *)
KeptIsNotApplied ==
    pc = "commit" /\ ~Upgrading =>
        \A f \in kept : target[f] \in {NoFile, backup[f]}

(* A request that failed after touching the directory is on /status.         *)
FailureIsRecorded ==
    pc = "respond" /\ failure # "none" => reply.event = "failed"

-----------------------------------------------------------------------------
(* Action properties and liveness.                                           *)

\* The step keeps every name, its generation and the accepted snapshot, or later ones.
NothingForgotten ==
    /\ store'.snap >= store.snap
    /\ \A f \in Fqdn : store.entries[f].known =>
          store'.entries[f].known /\ store'.entries[f].gen >= store.entries[f].gen

(* No step, a restart included, forgets a name or takes its generation or    *)
(* the accepted snapshot back.                                               *)
GenerationMonotonic == [][NothingForgotten]_vars

(* Whoever waits for mutateMu gets it: every request ends.                   *)
RequestsEnd == pc # "idle" ~> pc = "idle"

-----------------------------------------------------------------------------
(* The abstract specification.                                               *)

Ledger == INSTANCE GenerationLedger WITH
    ledger  <- [f \in Fqdn |->
                  [gen |-> IF store.entries[f].known THEN store.entries[f].gen ELSE -1,
                   present |-> store.entries[f].present]],
    serving <- [f \in Fqdn |-> IF Exists(served[f]) THEN served[f].gen ELSE -1]

(* The agent keeps the promise of GenerationLedger.                          *)
KeepsTheLedger == Ledger!LedgerSpec

=============================================================================
