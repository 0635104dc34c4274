# Verification of pickle-proxy-agent

The agent runs on a reverse-proxy host. pickle-api tells it which domain names
are published (`POST /apply` for one name, `POST /sync-all` for all of them), and
it renders one nginx vhost per name, validates and reloads nginx, obtains and
drops certificates through certbot, and remembers the *generation* it applied for
every name, so that a late request cannot bring an old vhost back onto an address
that belongs to somebody else by then.

This directory holds TLA+ modules that model the agent together with the nginx
master, certbot, the file system and the death of its own process, TLC
configurations that check small instances, and proofs, checked by TLAPS, for every
instance.

## The system

| Part | State | Operations | Talks to |
|---|---|---|---|
| `internal/manager` | `mutateMu`, last events | `Apply`, `SyncAll`, `settleCert`, `pruneCert`, `restoreAfterFailure`, `testAndReload`, `Status` | all below, by calls made one after the other under `mutateMu` |
| `internal/manager/fsops.go` | `pickle.d/*.conf` | read, write by rename, remove, write or restore the whole directory | the directory nginx includes |
| `internal/nginx` | expected proof, `_pickle_reload_proof.conf` | `Test`, `Reload`, `prepareProof`, `waitForProof` | nginx commands, a private Unix socket |
| nginx master (external) | running configuration, pending signals | list the directory, open the files, load or keep, some time after SIGHUP | reads the directory when *it* gets to it |
| `internal/state` | map of entries, snapshot generation, JSON file | `Record`, `SetCert`, `ReplaceAll`, `Load` | file replaced atomically; its errors are dropped by the manager |
| `internal/certbot` and certbot | `live/`, `renewal/` | `Exists`, `LineageExists`, `Ensure`, `Delete` | ACME challenge served by the vhost |
| `internal/render`, `internal/model` | none | validate, choose template and certificate paths | |
| `internal/server` | token buckets | guard, rate limit, decode, shutdown | one goroutine per request, all waiting for `mutateMu` |
| `internal/sourcepolicy` | none | parse, write out, render as access rules | |
| `internal/config` | the settings of a start | read the environment, refuse what cannot be served | rendered into every vhost |
| pickle-api (external) | wanted generations, last snapshot | apply, retry, resync | HTTP |

What is hard about it:

* **Two readers of one directory.** A candidate is written into the directory nginx
  includes *before* it is tested. certbot's deploy hook, a package upgrade or an
  operator may reload nginx at that moment.
* **Late signals.** `nginx -s reload` returns before the master has acted. The agent
  proves a reload by a fresh nonce in a vhost of its own and asks for it for 10 s.
  When it gives up, the signal may still be pending.
* **Rollback.** Every failure restores files, and only an ambiguous reload runs
  test, reload and proof again on them. Each of these steps can fail as well.
* **Crashes.** Directory, running nginx, state file and certificates are four places
  that a dying process leaves at different points.
* **Three generations at once.** The record, the candidate and the backup; a sync
  keeps newer entries (and their files) for names its manifest is too old for.
* **Certificates** are obtained only while a challenge vhost is served and dropped
  only after the HTTPS vhost is gone, by a program that may be interrupted.
* **A master that reads while the agent writes.** nginx lists the include directory,
  then opens one file after the other in byte order. What a nonce proves depends on
  where the proof file stands in that order.
* **Many callers, one mutex.** Requests wait in any order, callers hang up and repeat
  themselves, `/status` reads events and store under two locks, and the process
  leaves after 10 s of grace in the middle of an apply that may take minutes.
* **Messages that are lost, late and doubled**, applies and whole snapshots mixed.
* **Settings that outlive each other.** Vhosts in the directory were rendered under an
  earlier start; one that nginx no longer accepts fails the test of all names.

## The modules

| Module | Models | Lines of the code |
|---|---|---|
| `Routes` | a request, a vhost as generation and template, validation, choice of template | `render.go`, `model.go` |
| `Store` | entries in memory (`store`) and in the file (`saved`) | `state.go` |
| `Certbot` | `live` and `lineage`, and what Ensure and Delete leave, also when interrupted | `certbot.go` |
| `Nginx` | `disk`, `proof`, `expected`; the master's `served`, `servedProof`, `hup` | `nginx.go`, `proof.go` |
| `Manager` | the request that holds `mutateMu`, step by step; composes the four above, the environment and crashes | `manager.go`, `fsops.go`, `main.go` |
| `ManagerProperties` | what all this promises | |
| `GenerationLedger` | the abstract specification: a ledger that only moves forward to what visitors are being served | |
| `ManagerInvariant` | the inductive invariants: `IInv` of the record, `SiteInv` of files, certificates and answers | |
| `ManagerProofs` | the theorems about the record | |
| `SiteProofs` | the theorems about vhosts, certificates and `/status`, and the refinement of the ledger | |
| `ReloadProof` | the agent's swap, proof and rollback against a master that reads file by file | `proof.go`, `nginx.go`, `manager.go`, `fsops.go` |
| `ReloadProofTheorems` | its theorems | |
| `Server` | calls in flight: guard, decoding, queue for `mutateMu`, answers, `Status`, hang-ups, shutdown, restart | `server.go`, `auth.go`, `util.go`, `manager.go`, `main.go` |
| `ServerProofs` | its theorems | |
| `RateLimiter` | buckets that are made and filled when their key calls | `ratelimit.go` |
| `TokenBucket` | the abstract specification: buckets that are always there and always filling | |
| `RateLimiterProofs` | its theorems | |
| `PickleApi` | the caller with its retries and snapshots, the network, and the agent's record | `manager.go`, `state.go`, the contract in the repository's README |
| `PickleApiProofs` | its theorems | |
| `Startup` | the environment, the settings a start accepts, what each render checks again, the vhosts earlier starts left | `config.go`, `http_proxy.go`, `http_metadata.go`, `render.go` |
| `StartupProofs` | its theorems | |
| `SourcePolicy` | a policy from its JSON object to access rules, and back to JSON | `policy.go`, `optional.go`, `source_policy.go` |
| `Vhost` | what the templates answer on each socket; composes `SourcePolicy` | `render.go` |
| `VhostProofs` | the theorems about both | |
| `MC...` | small instances of `Manager`, `ReloadProof`, `Server`, `RateLimiter`, `PickleApi`, `Startup`, `Vhost` | |

### How they fit together

The request that holds `mutateMu` is `Manager`'s subject, down to single files and
signals. The other modules look at the same agent from its edges, and take from
`Manager` only what it shows:

* `ReloadProof` looks closer at one assumption of `Nginx`, that the master reads the
  directory in one step. Under `ApartSpec`, where no load overlaps with a change of
  the directory, a nonce that answers means that exactly this directory is served
  (theorem `ProofStands`); that is the case `Nginx` models. Without it (`Spec`) less
  is true, and the run `Reading` and two theorems say what.
* `Server` and `PickleApi` replace a request by its effect on the record: it fails, or
  its generations are recorded. `Manager` shows that these are the only two outcomes
  and that both come to an end (`GenerationMonotonic`, `KeepsTheLedger`, `RequestsEnd`).
  `Server` adds other calls and the process, `PickleApi` the caller and the network.
  Both take the state file to be writable; what happens otherwise is `RestartForgets`.
* `Startup` adds the settings that vhosts are rendered under, and reduces a request to
  one step likewise. `Vhost` is about what those vhosts answer, with the policy of
  `SourcePolicy` read from the very body the name was published with.

### Inside `Manager`

`Manager` extends `Store` and `Nginx`, `Nginx` extends `Certbot` (a test asks
whether certificates exist), and all rest on `Routes`. One variable `pc` says where
the request is. An apply, a sync and the upgrade of one custom domain to HTTPS
(`settleCert`) walk the same phases, as all three call `testAndReload`:

    plan -> swap -> test -> reload -> await -> commit -> prune -> settle -> respond
                      \________\_______\____ restore (-> test -> reload -> await)

| Variable | In the code |
|---|---|
| `job`, `idx` | the request, the loop over `req.Routes` |
| `planned`, `kept` | `newEntries` (one entry for an apply), `staleKept` |
| `target`, `backup` | `desired` and `prior`; for an apply the directory with one file changed |
| `toPrune`, `toSettle` | `pruned`, `pendingCustom` |
| `upgrading` | the route inside `settleCert`, after `Ensure` |
| `failure` | which error is being handled; `"ambiguous"` is `errReloadUnconfirmed` |
| `reply` | status code, whether it says "unconfirmed", and the event for `/status` |

A step of `Manager` is what the code does between two moments at which somebody
else can act or the process can die: one file written or removed, one nginx command,
one look at the proof, one store update, one certbot run. A store update changes
the map and then its file; the model makes it one step in which the file may stay
behind (fault `persist`). A crash between the two loses the map, as a crash before
the update does.

**Abstractions.** A vhost is its generation and template. Time does not exist: a
deadline is an action that may happen whenever the step it bounds is waiting.
Integers are unbounded naturals (the code has int64; negative generations are left
out). A nonce differs from the one in the proof file and from the one the running
nginx answers with, which is all that 32 random bytes have to do. `nginx -t` refuses
generations in `Refused`, every HTTPS vhost without its certificate, and may fail
for reasons of its own or because the caller hung up. In `Nginx` the master reads the
directory in one step (see `ReloadProof`). certbot that exits with success is assumed
to have put the files where `live/` is looked up. nginx stays up: a restart of the host
or of nginx itself is left out.

**Faults** are a constant: a run names the ones it allows. `persist`: the state file
cannot be written. `crash`: the process dies and is restarted. `read`, `write`: a
vhost cannot be read, written or removed. `reload`: somebody else signals nginx.
`hand`: certificate files vanish by hand while the renewal configuration stays.
A failing nginx command, a refused or failing reload, a missing proof and a failing
or interrupted certbot need no fault: they are always possible.

**The other modules' abstractions.** `ReloadProof`: a request is the directory it
wants, a vhost one of two versions. `RateLimiter`: tokens are counted in parts of
`1/Minute`, where the code has `float64` and nanoseconds. `Server`: a request has at
most one flaw, and whom the limiter refuses is left open (`RateLimiter` says whom).
`PickleApi`: `net` keeps a message until it is dropped, so that it can be delivered
twice and in any order; a snapshot is taken only when the agent differs and the last
one is in, and is sent until one comes through, which is what the repository's
documents ask of the caller; `accepted`, the newest snapshot that the agent took, is
a history variable that no action reads. `Startup`: an address is its text, its kind,
its port and whether it is spelt canonically; a wildcard entry is the sequence of its
words, "=" and ":", as `Load` cuts it, so that a malformed one is refused because of
what it says and not because it is called malformed; names are platform names, whose
certificates come from the settings. `SourcePolicy` and `Vhost`: addresses of two bits
and one family; a body is the policy *object* (a `sourcePolicy` key that a route
repeats is accepted by `encoding/json`, the last one counts, `server.go:96-99`); the
peers of the PROXY listener and those of the metadata listener are two lists; nginx's
order (return, access, content) is external, as the templates use it. The agent
reads policies and never writes one: `RoundTrip` is about `MarshalJSON` and
`UnmarshalJSON`, which tests and callers in Go use.

## The runs

No bound cuts a behaviour of the agent off unless the table says so: generations come
from finite sets of requests, which may be repeated for ever. Nonces and names that
are only compared are symmetric where no liveness is checked.

| Run | Instance | Asks |
|---|---|---|
| `Sites` | one custom domain, one platform subdomain; crash, read, write, reload; generation 4 refused by nginx; snapshots 0 (which the guard takes for "none yet") and 1 | Is anything older than the record ever on disk or served? Is a generation recorded only while its vhost is served? Is a failed request rolled back? Does any vhost lack its certificate? Does a sync repair a record that crashes left wrong? Do generations only grow? Does the agent implement `GenerationLedger`? Is `IInv` invariant? |
| `Certificates` | two custom domains of one sync; persist, hand; fairness | Is certbot run only while the challenge is served? Is a published vhost live after a 200? Does `/status` tell what the directory holds? Is a failed clean-up reported? Does every request end? Is `SiteInv` invariant? |
| `Reading` | one name before the proof file in byte order, one after; crash, reload; a version nginx refuses | What does a nonce prove if the master reads while the agent writes? |
| `Limits` | two keys, two calls in three ticks, five ticks | Does any key get more than burst and rate in any window? Are buckets made and filled on demand as good as `TokenBucket`? |
| `Calls` | two calls of four kinds and a flawed one; fairness | Are answers current, does what a caller heard stay, does a status know its events, does every call end? |
| `Resync` | two names, two changes each, four snapshots; fairness | Does the agent make nothing up, stand by what it confirmed, keep to the newest snapshot it took, and come round to what is wanted? |
| `Starts` | two platform names under different roots, six environments that are accepted, seventeen mistaken ones, two publications; fairness | Can what starts be rendered, and do resyncs alone bring every platform site under the current settings? |
| `Visits` | four networks, two fields of up to three; every combination of settings; every request | Does a policy survive JSON, does nginx admit exactly whom the request lists on every socket, does the challenge stay open and the closed ingress closed? |

Two names and generations up to 4 are the fewest that have a name that is touched and
one that is not, a removal between two publications, and a manifest older than the
record; three nonces (four in `ReloadProof`, where one may be half read) are the
fewest that always leave a fresh one. Two keys show that buckets are apart, and five
ticks fill an empty bucket and run over. Two calls show every race for a mutex with
one holder and one record; one name suffices, as names do not touch each other in
`Server`. The `Horizon` of `Limits` and the `MaxGen`, `MaxSnap` of `Resync` and
`Starts` do cut behaviours off; the theorems about these modules hold for all of them.
A body has one network more than `MaxCIDRs`, so that the limit is met and passed.

Beside the definitions it stands for, each module has a few marked `Mutant`: one
plausible mistake per property of these runs (a dropped guard, a trusted exit status,
a tombstone that is forgotten). Put in the place of the definition after it, it makes
TLC report the property.

**What a run does not say.** `Sites` has four faults and `Certificates` two, as each
property is about some of them. In `Certificates`, where files vanish by hand, the part
of `SiteInv` about certificates claims nothing; `Sites` and the theorem cover it.
`StatusMatchesDirectory` is checked without crashes and unreadable or unwritable files,
which do make `/status` wrong until a sync: that a sync repairs it is
`SyncRepairsTheRecord`, with all of them. `RollbackIsComplete` is about requests that
are answered with an error; the rollback of a failed upgrade is part of a request
that is answered 200, and `PublishedIsLive` and the run `UnreadBackup` are about it.
`ConfirmedStands` compares generations: that a snapshot prunes a name it does not list
is `ConfirmedIsLive`, below.

**Fairness.** `Manager`: weak fairness of `Work`, the steps of the goroutine that
holds `mutateMu`. Every command it waits for runs under a context with a deadline
(`ExecTimeout`, 180 s by default; 10 s for the proof; 20 s for a recovery), so it
always has a next step, and a step that is possible for ever is taken. Nothing is
asked of the nginx master, of certbot's success or of the environment. `Server`: weak
fairness of each call's own goroutine, and strong fairness of taking `mutateMu`: a Go
mutex that has kept a goroutine waiting for more than a millisecond is handed to it
(starvation mode). `PickleApi`: a snapshot that is needed is taken, and a snapshot
that is sent again and again comes through in the end; nothing is asked of single
messages. `Startup`: weak fairness of `Sync(wanted)`, a snapshot in full that reaches
the agent if one can succeed for ever.

## What does not hold

Four runs show a disagreement between the code and what it says of itself. Each
checks one property and TLC finds the behaviour that breaks it:

| Run | What happens |
|---|---|
| `RestartForgets` | The error of every store write is dropped (`manager.go:104`, `128`, `285`). After a failing write and a restart an old generation is accepted again, which `state.go:1-3` rules out. |
| `NeverRenewed` | Files left by an interrupted delete, "inert" for `certbot.go:97`, are taken for a certificate by the next publication (`certbot.go:104`), reported OK, and no renewal knows them. |
| `UnreadBackup` | `manager.go:157` drops a read error; a failed upgrade then rolls back by deleting a published vhost, and the request is answered 200. |
| `BroughtBack` | A withdrawal by snapshot leaves a tombstone with the generation last applied (`manager.go:218` passes over that of the ABSENT entry). A late apply of a generation in between brings the name back, which `manager.go:7-8` rules out. |

More statements of comments and documents are defined beside the properties and do
not hold either. To see one refuted, put it in the place of the properties of the
configuration named here; TLC takes seconds.

| Statement | Configuration | What happens |
|---|---|---|
| `LeftoverStaysReported` | `Sites` | `ReplaceAll` (`state.go:117`) drops the certificate state of unlisted names: a failed clean-up disappears from `/status` while the lineage stays (`manager.go:184-185` says it surfaces there). |
| `FailureLeavesServedAlone` | `Sites` | A foreign reload loads a candidate that then fails its test. The rollback does not reload (`manager.go:321`), so nginx goes on serving what was answered 422 (`manager.go:9-10`). |
| `KeptIsNotApplied` | `Sites` | The duplicate check (`manager.go:226`) misses a name whose first entry was kept without a file. The second is applied, and the result says it was not (`manager.go:304-305`). |
| `FailureIsRecorded` | `Sites` | A sync that fails while swapping records no event (`manager.go:276`, against `model.go:115`). |
| `RepeatedRemovalIsClean` | `Sites` | After a crash between the record of a removal and `pruneCert` (`manager.go:105`) the repeated removal is answered 409 and the lineage stays. |
| `ConfirmedIsServed` | `Reading` | A master that has listed the directory before the agent's rename and opens the proof file after it answers with the new nonce (`proof.go:151`) and serves without the new vhost. The agent's own signal makes it good. |
| `NothingOldAtAll` | `Reading` | A vhost whose name sorts before `_` is opened before the proof file: its old content can be served under the new nonce (`proof.go:22`). |
| `ConfirmedIsLive` | `Resync` | A snapshot taken before an apply does not list the new name; the stale guard looks at listed names only, and the sync prunes the vhost and its certificate (`manager.go:268`, against `manager.go:12-14`). |
| `NoRootIsDropped` | `Starts` | `Load` cuts a wildcard entry at its first "=" and the first ":" after it (`config.go:184-188`). Without its comma `r1=/c:/k r2=/c:/k` is one entry whose key path swallows the next: the agent starts and `r2` is gone, although a typo is not to drop a root silently (`config.go:175-176`). |
| `DedicatedSocket` | `Starts` | `Load` compares the PROXY listener with `HTTPSListen` alone (`config.go:135`); the address of the control server is accepted for it (`http_proxy.go:10`). |

## The proofs

Each module of theorems proves for every value of its constants, from nothing but the
assumptions the modules state of them and those named here.

**`ManagerProofs`**, for every set of names, requests, nonces and faults:

* `TypeCorrect`: `Spec => []TypeOK`; `Inductive`: `Spec => []IInv`;
* `NeverServesOlder`, `CommitsServed`, `RollbackComplete`: three safety properties of
  the run `Sites`;
* `MonotonicWhileDurable`: `GenerationMonotonic`, if `"persist"` is not among the
  faults. The run `RestartForgets` shows that this assumption is needed.

The argument has two halves. `FlowInv` follows a request: in the phases from `test`
to `commit` the directory is exactly the tree the request put there (`target`, or
`backup` while recovering), and while a reload is awaited *the nonce answering means
that directory is served*. That holds although others may reload at any time: the
proof file gets its nonce after the vhosts are in place and the directory does not
change until the wait is over, so whoever makes the master load anything makes it
load this. `RecordInv` compares the record with everything that may become visible:
disk, running nginx, candidate and backup are never older than it, and the state
file never knows more than the map, which is what a crash needs. `PlanInv` connects
the two: what a request will tell the store is neither older than the store nor newer
than its candidate, and a certificate is settled only for the generation on record.
None of the properties is inductive alone: that a rollback brings nothing old back
needs `backup` to be as new as the record at every step in between. Each half is
proved by one lemma per group of actions, after the types, which `NextType` settles.

**`SiteProofs`**, about the same specification:

* `SiteInductive`: `Spec => [](IInv /\ SiteInv)`;
* `ChallengeAnswered` (`ChallengeIsServed`) and `WithdrawnCleaned`
  (`WithdrawnIsCleaned`), whatever fails;
* `CertificatesInPlace` (`NoDanglingCertificate`), if `"hand"` is not among the faults:
  nothing but a hand takes the files of a certificate that a vhost names;
* `PublishedLive` (`PublishedIsLive`), if `"read"` is not: the run `UnreadBackup` shows
  why;
* `RecordRepaired` (`SyncRepairsTheRecord`), whatever fails: the entry that the stale
  guard keeps has lost its "present" if its file is gone, the names that the manifest
  does not list have lost theirs with their files, and no step between the record and
  the first settlement changes either;
* `StatusTrue` (`StatusMatchesDirectory`), without `"crash"`, `"read"` and `"write"`. A
  crash after a commit leaves the record ahead of a certificate; after a file that
  could not be read or restored the directory is not the one on record. The next sync
  repairs both;
* `Refinement` (`KeepsTheLedger`): without `"persist"` every step of the agent is a step
  of `GenerationLedger` or a stutter, by one lemma per action of the ledger
  (`LedgerSwitch`, `LedgerAdvance`, `LedgerSetCert`, `LedgerCommit`).

`IInv` compares generations and says nothing of what happens to a name's certificate
after its generation is on record. `SiteInv` follows this tail: the names to prune are
out of the directory and of nginx before certbot runs (`PruneFits`); a domain that waits
for its certificate keeps its vhost while others before it are upgraded and rolled back
(`QueueFits`, the reason why one failed upgrade does not undo another); what a sync
plans tells which names have a file (`RepairFits`); a withdrawal either leaves no
lineage or says so in its entry (`WithdrawalFits`). Its last three parts hold as long as
certain things do not fail, and each is an implication from exactly that. The lemma
`Steps` sorts the steps of `Next` into classes by what they change, and each part is
shown to survive each class that can disturb it.

**`ReloadProofTheorems`**: `ProofInductive` (`ProofInv`), `NothingOldProven` (nothing
outdated is confirmed under a name that sorts after the proof file), `ServedOrLoading`
(a confirmed directory is served or about to be, if `"refuse"` is not among the
faults: the master loads what passed the test), and under `ApartSpec` `ApartInductive`
and `ProofStands` (a nonce proves the whole directory, with all faults). The invariant
says that whoever has read the new nonce has read the late names after it, that every
later load reads it again, and that the agent's signal is pending, being acted upon
in a load that sees the directory as it is, or done with.

**`ServerProofs`**: `ServerInductive` (`ServerInv`), `CurrentAnswers`
(`AnswersAreCurrent`), `HeardRecorded` (`HeardIsRecorded`), `StatusComplete`
(`StatusKnowsItsEvents`) and `NeverBack` (`RecordGoesForward`), for every number of
calls. Only the holder of `mutateMu` is past it, what it checked stays
true until it commits, and whatever a caller, an event or a status has seen is below
the record; so an apply that is not stale is beyond what its caller had heard.

**`PickleApiProofs`**: `NeverInvents` (`NothingInvented`), `ConfirmedIsKept`
(`ConfirmedStands`) and `SnapshotIsKept` (`SnapshotStands`: what the newest snapshot
accepted lists is neither taken back nor replaced by anything older). They rest on
`ApiInv`, which says of the messages on their way that they tell what pickle-api wanted
of a name in a generation: a fact about the caller, and therefore neither a property of
a run nor a result.

**`RateLimiterProofs`**: `LimiterInductive` (what was granted since any moment and
what is left stay in the budget), `StaysWithinBudget`, and `WaitingIsEnough`
(`RetryAfterIsEnough`, for 60 calls a minute or more; with fewer, a second does not
earn a token). The difficulty is the product of two variables, so distribution and
monotony of the product are lemmas of their own. `Refinement` (`FillsSteadily`): a
bucket made and filled when its key calls implements `TokenBucket`, one that has always
been filling; under the refinement mapping a tick fills every bucket at once, and a
call takes from what the code works out late.

**`StartupProofs`**, for every environment: `StartedRenders` (`StartedCanRender`: the
rules of `Load` imply those of `validateMetadata` and of the marker, so that no agent
starts that would then refuse every request).

**`VhostProofs`**, for addresses of any width and policies of any length:
`VhostInductive` (`VhostInv`: a vhost has the policy of the accepted body it was
published with), `ListedAreAdmitted` (`AdmitsTheListed`), `PoliciesSurvive`
(`RoundTrip`), `OrderIsIrrelevant` (`OnePolicyPerSet`), `ChallengesGetThrough`
(`ChallengeStaysOpen`), `ClosedIsClosed` (`ClosedMeansClosed`) and `PoliciesHold`
(`PolicyHoldsEverywhere`). Sorting is any rearrangement of the places of a list after
which no network comes before an earlier one under the comparison of the code
(`Before`). That there is one, and that it makes the same list of the same set, is
proved without induction: the rank of a network among those of its set (how many are
before it) is a bijection onto the places of a sequence, and in an ascending sequence
each network is at its rank. `PolicyAssumption` adds to the types of the constants that
`2 ^ Width` is a positive natural, which is so for every width, but the provers know
nothing of powers. `VhostInv` is no property of the run `Visits`, all of whose
properties rest on it, but holds on its instance.

**Only model-checked.** Liveness (`RequestsEnd`, `EveryCallEnds`, `Converges`,
`SettingsReachEverySite`), which is out of TLAPS's reach. Every other property of the
passing runs is a theorem.

## Not modelled

* `validFQDN`, a predicate on characters: `Routes` has names that are valid and routes
  that are refused. So is the text of a certRef and of a target.
* Proxy headers, timeouts and request limits in the vhosts, but for the zones that
  limits need (`Startup`) and the rules a visitor meets (`Vhost`).
* Blanks around a token (`config.go:155`, `auth.go:70`): texts are left out.
* The checks `NewVerified` and `checkProofOwner` make of an include directory that is
  not the agent's own; they end a start or fail a test and change nothing.
* A restart of the host or of nginx itself: the running configuration outlives the
  agent in all modules.
* `internal/fake`, which only tests use; the deployment scripts, but for the deploy
  hook that reloads nginx (`ForeignReload`) and the restart of the service.

## Plan

Done, in this order: `Routes`, `Store`, `Certbot`, `Nginx`, `Manager` with their runs
and theorems; `ReloadProof`; `RateLimiter`; `Server`; `PickleApi`; `Startup`;
`SourcePolicy` and `Vhost`; `SiteProofs`; `VhostProofs`. What is left to prove is
liveness, which stays with TLC.
