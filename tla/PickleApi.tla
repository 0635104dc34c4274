------------------------------ MODULE PickleApi ------------------------------
(* The agent and its caller. pickle-api (external) changes what it wants,    *)
(* tells the agent by apply, and takes numbered snapshots for sync-all; its  *)
(* messages are lost, delayed and doubled, and so are the answers. The agent *)
(* is reduced to the record of Manager: a request that succeeds takes effect *)
(* in one step, one that fails is as good as lost.                           *)
EXTENDS Integers

CONSTANTS
    Fqdn,
    MaxGen,   \* changes of a name (a bound for TLC)
    MaxSnap   \* snapshots taken (a bound for TLC)

ASSUME ApiAssumption == MaxGen \in Nat /\ MaxSnap \in Nat

VARIABLES
    desired,    \* per name: what pickle-api wants
    snapshot,   \* the last snapshot it took
    net,        \* the requests on their way, or delivered and sent again
    confirmed,  \* per name: the generation the answers confirm
    entries,    \* the agent's record
    snap,       \* the snapshot generation it has accepted
    withdrawn,  \* per name, for the properties: the last withdrawal it was told
    accepted    \* for the properties: the newest snapshot it has accepted

apiVars == <<desired, snapshot, confirmed>>
agentVars == <<entries, snap, withdrawn, accepted>>
vars == <<apiVars, net, agentVars>>

Line == [gen : 0 .. MaxGen, present : BOOLEAN]

NoLine == [gen |-> 0, present |-> FALSE]

ApplyMessage == [kind : {"apply"}, fqdn : Fqdn, line : Line]

SyncMessage == [kind : {"sync"}, snap : 0 .. MaxSnap, lines : [Fqdn -> Line]]

TypeOK ==
    /\ desired \in [Fqdn -> Line] /\ entries \in [Fqdn -> Line]
    /\ snapshot \in SyncMessage /\ accepted \in SyncMessage /\ snap \in 0 .. MaxSnap
    /\ net \subseteq ApplyMessage \cup SyncMessage
    /\ confirmed \in [Fqdn -> 0 .. MaxGen] /\ withdrawn \in [Fqdn -> 0 .. MaxGen]

Init ==
    /\ desired = [f \in Fqdn |-> NoLine]
    /\ snapshot = [kind |-> "sync", snap |-> 0, lines |-> desired]
    /\ net = {}
    /\ confirmed = [f \in Fqdn |-> 0]
    /\ entries = [f \in Fqdn |-> NoLine]
    /\ snap = 0
    /\ withdrawn = [f \in Fqdn |-> 0]
    /\ accepted = snapshot

-----------------------------------------------------------------------------
(* pickle-api.                                                               *)

\* Every change, a withdrawal too, is a generation of its own.
Change(f, present) ==
    /\ desired[f].gen < MaxGen
    /\ desired' = [desired EXCEPT ![f] = [gen |-> desired[f].gen + 1, present |-> present]]
    /\ UNCHANGED <<snapshot, net, confirmed, agentVars>>

SendApply(f) ==
    /\ desired[f].gen > 0
    /\ net' = net \cup {[kind |-> "apply", fqdn |-> f, line |-> desired[f]]}
    /\ UNCHANGED <<apiVars, agentVars>>

\* Visitors find what is wanted, and nothing else.
Agrees == \A f \in Fqdn :
    /\ entries[f].present = desired[f].present
    /\ desired[f].present => entries[f].gen = desired[f].gen

\* A resync: /status and the database disagree, and the last snapshot is in.
TakeSnapshot ==
    /\ ~Agrees /\ snap = snapshot.snap /\ snapshot.snap < MaxSnap
    /\ snapshot' = [kind |-> "sync", snap |-> snapshot.snap + 1, lines |-> desired]
    /\ UNCHANGED <<desired, net, confirmed, agentVars>>

SendSnapshot ==
    /\ snapshot.snap > 0
    /\ net' = net \cup {snapshot}
    /\ UNCHANGED <<apiVars, agentVars>>

Drop(m) ==
    /\ net' = net \ {m}
    /\ UNCHANGED <<apiVars, agentVars>>

-----------------------------------------------------------------------------
(* The agent: a delivered request, its effect and its answer.                *)

\* Mutant: requests are taken as they come.
Unguarded(f, line) == TRUE

\* Apply's guard lets the request through.
IsNews(f, line) == line.gen > entries[f].gen

\* What a request says of a name, when it says that it is to go.
Told(f, line) == IF line.present \/ line.gen < withdrawn[f] THEN withdrawn[f] ELSE line.gen

\* The answer confirms the generation on record, or is lost.
Hears(f) == confirmed' \in {confirmed, [confirmed EXCEPT ![f] = entries'[f].gen]}

ApplyTaken(m) ==
    /\ m \in net /\ m.kind = "apply"
    /\ IsNews(m.fqdn, m.line)
    /\ entries' = [entries EXCEPT ![m.fqdn] = m.line]
    /\ withdrawn' = [withdrawn EXCEPT ![m.fqdn] = Told(m.fqdn, m.line)]
    /\ Hears(m.fqdn)
    /\ UNCHANGED <<desired, snapshot, net, snap, accepted>>

\* A 409, with the generation on record.
ApplyStale(m) ==
    /\ m \in net /\ m.kind = "apply"
    /\ ~IsNews(m.fqdn, m.line)
    /\ UNCHANGED <<entries, withdrawn>>
    /\ Hears(m.fqdn)
    /\ UNCHANGED <<desired, snapshot, net, snap, accepted>>

\* Mutants: a newer generation is kept with the manifest's vhost; what is not
\* listed is left alone.
Regressed(f, line) ==
    [gen |-> IF line.gen < entries[f].gen THEN entries[f].gen ELSE line.gen,
     present |-> line.present]
Unpruned(f, line) == IF line.present /\ line.gen >= entries[f].gen THEN line ELSE entries[f]

\* Listed: rendered, or kept if newer. Unlisted or ABSENT: pruned to a tombstone.
Synced(f, line) ==
    IF line.present
    THEN IF line.gen < entries[f].gen THEN entries[f] ELSE line
    ELSE [entries[f] EXCEPT !.present = FALSE]

\* Mutant: snapshots are taken as they come.
Unordered(m) == FALSE

\* SyncAll's guard keeps a snapshot out, with a 409; 0 stands for none yet.
SnapshotStale(m) == snap # 0 /\ m.snap <= snap

\* The results of a sync tell the generations of the listed names.
SyncTaken(m) ==
    /\ m \in net /\ m.kind = "sync"
    /\ ~SnapshotStale(m)
    /\ snap' = m.snap
    /\ accepted' = IF m.snap > accepted.snap THEN m ELSE accepted
    /\ entries' = [f \in Fqdn |-> Synced(f, m.lines[f])]
    /\ withdrawn' = [f \in Fqdn |-> Told(f, m.lines[f])]
    /\ confirmed' \in {confirmed,
                       [f \in Fqdn |-> IF m.lines[f].present THEN entries'[f].gen
                                       ELSE confirmed[f]]}
    /\ UNCHANGED <<desired, snapshot, net>>

-----------------------------------------------------------------------------
Next == \/ \E f \in Fqdn : SendApply(f) \/ \E present \in BOOLEAN : Change(f, present)
        \/ TakeSnapshot \/ SendSnapshot
        \/ \E m \in net : Drop(m) \/ ApplyTaken(m) \/ ApplyStale(m) \/ SyncTaken(m)

Spec == Init /\ [][Next]_vars

\* Snapshots are sent until one comes through; nothing else is asked of anybody.
FairSpec ==
    /\ Spec
    /\ WF_vars(TakeSnapshot)
    /\ WF_vars(snap < snapshot.snap /\ SendSnapshot)
    /\ SF_vars(\E m \in net : m = snapshot /\ SyncTaken(m))

-----------------------------------------------------------------------------
\* A line that pickle-api once wrote: of its present generation, its present one.
Written(f, line) ==
    /\ line.gen <= desired[f].gen
    /\ line.gen = desired[f].gen => line = desired[f]

(* What the properties rest on: the types, that every request on its way, or *)
(* to be sent again, says of each name what pickle-api once wanted, and that *)
(* the newest snapshot accepted is the one whose number the agent knows.     *)
ApiInv ==
    /\ TypeOK
    /\ accepted.snap = snap
    /\ \A f \in Fqdn : Written(f, snapshot.lines[f])
    /\ \A m \in net : /\ m.kind = "apply" => Written(m.fqdn, m.line)
                      /\ m.kind = "sync" => /\ m.snap > 0
                                            /\ \A f \in Fqdn : Written(f, m.lines[f])

(* The agent never makes anything up: what it publishes of a generation is   *)
(* what pickle-api wanted of it, and it is never ahead.                      *)
NothingInvented ==
    \A f \in Fqdn :
        /\ entries[f].gen <= desired[f].gen
        /\ entries[f].present /\ entries[f].gen = desired[f].gen => desired[f].present

(* What an answer has confirmed stands: however late or often older          *)
(* requests arrive, nothing older is published again.                        *)
ConfirmedStands == \A f \in Fqdn : confirmed[f] <= entries[f].gen

(* What a snapshot lists stays as it says until a newer generation of the    *)
(* name: no older snapshot and no older apply that arrives after it, late or *)
(* doubled, takes a listed name away again or puts it back.                  *)
SnapshotStands ==
    \A f \in Fqdn : accepted.lines[f].present =>
        entries[f] = accepted.lines[f] \/ entries[f].gen > accepted.lines[f].gen

(* Once pickle-api stops changing its mind, resyncs bring the agent in line  *)
(* for good, late applies notwithstanding.                                   *)
Converges == <>[]Agrees

-----------------------------------------------------------------------------
(* Two statements of the code's comments that do not hold (see the README).  *)

(* A publication that an answer confirmed stays published while it is        *)
(* wanted: a resync that races it keeps it.                                  *)
ConfirmedIsLive ==
    \A f \in Fqdn : desired[f].present /\ confirmed[f] = desired[f].gen =>
        entries[f] = desired[f]

(* A withdrawal the agent was told, by apply or by snapshot, is for good: no *)
(* late request of an older generation brings the name back.                 *)
WithdrawnStays ==
    \A f \in Fqdn : entries[f].present => entries[f].gen > withdrawn[f]

=============================================================================
