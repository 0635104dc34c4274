----------------------------- MODULE ReloadProof -----------------------------
(* The reload proof of internal/nginx/proof.go against an nginx master that  *)
(* reads the include directory as it really does: `include pickle.d/*.conf`  *)
(* lists the names once, then opens one file after the other in byte order.  *)
(* The agent replaces those files, and the proof file among them, meanwhile. *)
(*                                                                           *)
(* A request is reduced to the directory it wants. A directory maps every    *)
(* name to a version of its vhost; which request wrote it does not matter.   *)
EXTENDS Naturals

CONSTANTS
    Fqdn,            \* host names
    Early,           \* those whose file sorts before _pickle_reload_proof.conf
    Version,         \* contents of a vhost
    NoVhost,         \* no file
    Refused,         \* the contents that `nginx -t` refuses
    Nonce, NoNonce,  \* answers of a proof file
    Faults           \* what may happen besides

ProofFault == {"crash",   \* the agent dies and is started again
               "reload",  \* somebody else reloads nginx
               "refuse"}  \* the master fails to load what passed `nginx -t`

ASSUME ProofAssumption == /\ Early \subseteq Fqdn
                          /\ Refused \subseteq Version
                          /\ NoVhost \notin Version
                          /\ NoNonce \notin Nonce
                          /\ Faults \subseteq ProofFault

VARIABLES
    disk,         \* the vhosts in the directory
    proof,        \* the nonce in the proof file
    pc,           \* where the request in progress is
    want,         \* the directory it wants
    backup,       \* the directory it found
    failure,      \* why the files are being restored
    expected,     \* the answer that confirms the reload (proofExpected)
    hup,          \* a SIGHUP waits for the master
    reading,      \* the master is reading the directory
    listed,       \* names it still has to open
    proofListed,  \* the proof file is still to be opened
    loaded,       \* the vhosts it has read
    loadedProof,  \* the nonce it has read
    served,       \* the vhosts of the running configuration
    servedProof   \* the nonce of the running configuration

dirVars == <<disk, proof>>
agentVars == <<pc, want, backup, failure, expected>>
readVars == <<reading, listed, proofListed, loaded, loadedProof>>
servedVars == <<served, servedProof>>
masterVars == <<hup, readVars, servedVars>>
vars == <<dirVars, agentVars, masterVars>>

Phase == {"idle", "swap", "prepare", "test", "reload", "await", "confirmed",
          "restore", "failed"}

MaybeNonce == Nonce \cup {NoNonce}

Tree == [Fqdn -> Version \cup {NoVhost}]

EmptyTree == [f \in Fqdn |-> NoVhost]

Present(tree) == {f \in Fqdn : tree[f] # NoVhost}

Accepts(tree) == \A f \in Fqdn : tree[f] \notin Refused

TypeOK ==
    /\ {disk, want, backup, loaded, served} \subseteq Tree
    /\ {proof, expected, loadedProof, servedProof} \subseteq MaybeNonce
    /\ pc \in Phase
    /\ failure \in {"none", "test", "ambiguous"}
    /\ {hup, reading, proofListed} \subseteq BOOLEAN
    /\ listed \subseteq Fqdn

\* NewVerified on a directory of the agent's own without a proof file.
Init ==
    /\ disk = EmptyTree /\ served = EmptyTree /\ loaded = EmptyTree
    /\ want = EmptyTree /\ backup = EmptyTree
    /\ proof = NoNonce /\ expected = NoNonce
    /\ servedProof = NoNonce /\ loadedProof = NoNonce
    /\ pc = "idle" /\ failure = "none"
    /\ hup = FALSE /\ reading = FALSE /\ listed = {} /\ proofListed = FALSE

-----------------------------------------------------------------------------
(* The agent.                                                                *)

Begin(tree) ==
    /\ pc = "idle"
    /\ pc' = "swap"
    /\ want' = tree
    /\ backup' = disk
    /\ UNCHANGED <<dirVars, failure, expected, masterVars>>

Goal == IF pc = "restore" THEN backup ELSE want

\* writeConfDir: every wanted file is in place before others are removed.
Put(f) ==
    /\ pc \in {"swap", "restore"}
    /\ disk[f] # Goal[f]
    /\ f \in Present(Goal) \/ \A g \in Present(Goal) : disk[g] = Goal[g]
    /\ disk' = [disk EXCEPT ![f] = Goal[f]]
    /\ UNCHANGED <<proof, agentVars, masterVars>>

Swapped ==
    /\ pc = "swap" /\ disk = want
    /\ pc' = "prepare"
    /\ UNCHANGED <<dirVars, want, backup, failure, expected, masterVars>>

\* Mutant: the nonce of the last proof will do.
SameNonce == IF proof = NoNonce THEN Nonce ELSE {proof}

FreshNonce == Nonce \ {proof, loadedProof, servedProof}

\* prepareProof, up to and with the rename of the proof file.
PrepareProof ==
    /\ pc = "prepare"
    /\ proof' \in FreshNonce
    /\ expected' = proof'
    /\ pc' = "test"
    /\ UNCHANGED <<disk, want, backup, failure, masterVars>>

\* Mutant: the result of `nginx -t` is not looked at.
AnythingGoes == TRUE

PassesTest == Accepts(disk)

TestPassed ==
    /\ pc = "test"
    /\ PassesTest
    /\ pc' = "reload"
    /\ UNCHANGED <<dirVars, want, backup, failure, expected, masterVars>>

\* A failed candidate is restored; a failed restoration is given up.
Fail(why) ==
    /\ pc' = IF failure = "none" THEN "restore" ELSE "failed"
    /\ failure' = IF failure = "none" THEN why ELSE failure
    /\ UNCHANGED <<want, backup>>

\* prepareProof or `nginx -t` fails, the candidate's fault or not.
TestFailed ==
    /\ pc \in {"prepare", "test"}
    /\ Fail("test")
    /\ expected' = NoNonce
    /\ UNCHANGED <<dirVars, masterVars>>

Signalled ==
    /\ pc = "reload"
    /\ pc' = "await"
    /\ hup' = TRUE
    /\ UNCHANGED <<dirVars, want, backup, failure, expected, readVars, servedVars>>

\* `nginx -s reload` fails, with or without the signal delivered.
SignalFailed ==
    /\ pc = "reload"
    /\ Fail("ambiguous")
    /\ hup' \in {hup, TRUE}
    /\ UNCHANGED <<dirVars, expected, readVars, servedVars>>

Confirmed ==
    /\ pc = "await"
    /\ servedProof = expected
    /\ pc' = "confirmed"
    /\ UNCHANGED <<dirVars, want, backup, failure, expected, masterVars>>

TimedOut ==
    /\ pc = "await"
    /\ Fail("ambiguous")
    /\ UNCHANGED <<dirVars, expected, masterVars>>

\* restoreAfterFailure: an ambiguous reload has to be proved once more.
Restored ==
    /\ pc = "restore" /\ disk = backup
    /\ pc' = IF failure = "ambiguous" THEN "prepare" ELSE "failed"
    /\ UNCHANGED <<dirVars, want, backup, failure, expected, masterVars>>

Answered ==
    /\ pc \in {"confirmed", "failed"}
    /\ pc' = "idle"
    /\ failure' = "none"
    /\ UNCHANGED <<dirVars, want, backup, expected, masterVars>>

CrashRestart ==
    /\ "crash" \in Faults
    /\ pc # "idle"
    /\ pc' = "idle"
    /\ failure' = "none"
    /\ expected' = NoNonce
    /\ UNCHANGED <<dirVars, want, backup, masterVars>>

-----------------------------------------------------------------------------
(* The nginx master (external). A SIGHUP that arrives while it reads is kept *)
(* for later; a configuration it cannot load leaves the running one alone.   *)

ForeignReload ==
    /\ "reload" \in Faults
    /\ hup' = TRUE
    /\ UNCHANGED <<dirVars, agentVars, readVars, servedVars>>

\* The names are listed once, before the first file is opened.
MasterLists ==
    /\ hup /\ ~reading
    /\ hup' = FALSE
    /\ reading' = TRUE
    /\ listed' = Present(disk)
    /\ proofListed' = (proof # NoNonce)
    /\ loaded' = EmptyTree
    /\ loadedProof' = NoNonce
    /\ UNCHANGED <<dirVars, agentVars, servedVars>>

\* Byte order: early names, the proof file, the other names.
InTurn(f) == f \in Early \/ (~proofListed /\ listed \cap Early = {})

MasterOpens(f) ==
    /\ reading
    /\ f \in listed /\ f \in Present(disk)
    /\ InTurn(f)
    /\ listed' = listed \ {f}
    /\ loaded' = [loaded EXCEPT ![f] = disk[f]]
    /\ UNCHANGED <<dirVars, agentVars, hup, reading, proofListed, loadedProof,
                   servedVars>>

MasterOpensProof ==
    /\ reading
    /\ proofListed /\ listed \cap Early = {}
    /\ proofListed' = FALSE
    /\ loadedProof' = proof
    /\ UNCHANGED <<dirVars, agentVars, hup, reading, listed, loaded, servedVars>>

MasterServes ==
    /\ reading
    /\ listed = {} /\ ~proofListed
    /\ Accepts(loaded)
    /\ reading' = FALSE
    /\ served' = loaded
    /\ servedProof' = loadedProof
    /\ UNCHANGED <<dirVars, agentVars, hup, listed, proofListed, loaded, loadedProof>>

\* A listed file is gone, a vhost is refused, or the master cannot do its part.
MasterRefuses ==
    /\ reading
    /\ \/ \E f \in listed : f \notin Present(disk)
       \/ ~Accepts(loaded)
       \/ "refuse" \in Faults
    /\ reading' = FALSE
    /\ UNCHANGED <<dirVars, agentVars, hup, listed, proofListed, loaded,
                   loadedProof, servedVars>>

-----------------------------------------------------------------------------
Agent == \/ \E tree \in Tree : Begin(tree)
         \/ \E f \in Fqdn : Put(f)
         \/ Swapped \/ PrepareProof \/ TestPassed \/ TestFailed
         \/ Signalled \/ SignalFailed \/ Confirmed \/ TimedOut
         \/ Restored \/ Answered \/ CrashRestart

Master == \/ ForeignReload \/ MasterLists \/ MasterOpensProof
          \/ \E f \in Fqdn : MasterOpens(f)
          \/ MasterServes \/ MasterRefuses

Next == Agent \/ Master

Spec == Init /\ [][Next]_vars

\* The master never reads while the directory changes: what Nginx takes for
\* granted when it lets the master read the directory in one step.
Apart == reading => UNCHANGED dirVars

ApartSpec == Init /\ [][Next /\ Apart]_vars

-----------------------------------------------------------------------------
(* The proof stands for the whole directory: what is confirmed is served.    *)
(* Under ApartSpec, that is; Spec does not keep it.                          *)
ConfirmedIsServed == pc = "confirmed" => served = disk

\* The load in progress, if the master completes it, gives the directory.
LoadIsCurrent ==
    /\ reading
    /\ listed \subseteq Present(disk)
    /\ \A f \in Fqdn \ listed : loaded[f] = disk[f]

(* A confirmed directory is served, or nginx is about to load exactly that:  *)
(* a proof that came too early is made good by the agent's own signal.       *)
ConfirmedIsServedOrLoading ==
    pc = "confirmed" => served = disk \/ hup \/ LoadIsCurrent

(* An outdated vhost is never confirmed under a name that sorts after the    *)
(* proof file; at worst a vhost that is new is not served yet.               *)
NothingOldIsConfirmed ==
    pc = "confirmed" => \A f \in Fqdn \ Early : served[f] \in {disk[f], NoVhost}

(* The same for every name, as the agent's comments read: Spec does not keep *)
(* it.                                                                       *)
NothingOldAtAll ==
    pc = "confirmed" => \A f \in Fqdn : served[f] \in {disk[f], NoVhost}

-----------------------------------------------------------------------------
(* The inductive invariants behind these properties.                         *)

\* The proof file holds the awaited nonce, the directory rests.
Proving == pc \in {"test", "reload", "await", "confirmed"}

AwaitedIsOnDisk == Proving => expected = proof /\ proof \in Nonce

TestedIsAccepted == pc \in {"reload", "await", "confirmed"} => Accepts(disk)

\* What is not opened yet is not loaded, a late name not before the proof.
ReadInOrder ==
    reading => /\ \A f \in listed : loaded[f] = NoVhost
               /\ proofListed => \A f \in Fqdn \ Early : loaded[f] = NoVhost

LateIsCurrent(tree) == \A f \in Fqdn \ Early : tree[f] \in {disk[f], NoVhost}

\* Whoever has read the new nonce read the late names after it.
NonceMeansCurrent ==
    Proving => /\ servedProof = proof => LateIsCurrent(served)
               /\ reading /\ loadedProof = proof => LateIsCurrent(loaded)

\* Once the nonce answers, every later load brings it again.
NonceStays ==
    Proving => /\ pc = "confirmed" => servedProof = proof
               /\ servedProof = proof /\ reading => proofListed \/ loadedProof = proof

\* The agent's own signal is pending, being acted upon, or done with.
SignalIsHeeded ==
    pc \in {"await", "confirmed"} =>
        hup \/ LoadIsCurrent \/ (~reading /\ served = disk)

(* The invariant of a master that reads while the directory changes.         *)
ProofInv == /\ TypeOK /\ AwaitedIsOnDisk /\ TestedIsAccepted
            /\ ReadInOrder /\ NonceMeansCurrent /\ NonceStays
            /\ "refuse" \notin Faults => SignalIsHeeded

(* The invariant of a master that does not: a load is current throughout.    *)
ApartInv ==
    /\ TypeOK /\ AwaitedIsOnDisk /\ NonceStays
    /\ reading => /\ LoadIsCurrent
                  /\ loadedProof = IF proofListed THEN NoNonce ELSE proof
    /\ Proving /\ servedProof = proof => served = disk

=============================================================================
