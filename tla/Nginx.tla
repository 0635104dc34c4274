-------------------------------- MODULE Nginx --------------------------------
(* The include directory, the nginx master process that reads it, and the    *)
(* agent's two commands on it (internal/nginx): `nginx -t` behind a fresh    *)
(* reload proof, and `nginx -s reload` followed by the wait for that proof.  *)
(*                                                                           *)
(* The master is external. It reacts to SIGHUP in its own time, coalesces    *)
(* pending signals, and keeps the configuration it serves when it cannot     *)
(* take the one on disk. It reads the directory in one step here.            *)
EXTENDS Certbot

CONSTANTS Nonce, NoNonce

ASSUME NonceAssumption == NoNonce \notin Nonce

VARIABLES
    disk,         \* the vhost files of the include directory
    proof,        \* the nonce in the reload-proof file
    expected,     \* the nonce the agent waits for (proofExpected)
    served,       \* the vhosts of the running configuration
    servedProof,  \* the nonce the running configuration answers with
    hup           \* a SIGHUP is pending at the master

nginxVars == <<disk, proof, expected, served, servedProof, hup>>

MaybeNonce == Nonce \cup {NoNonce}

NginxTypeOK ==
    /\ disk \in Tree
    /\ served \in Tree
    /\ {proof, expected, servedProof} \subseteq MaybeNonce
    /\ hup \in BOOLEAN

NginxInit ==
    /\ disk = EmptyTree
    /\ served = EmptyTree
    /\ proof = NoNonce
    /\ expected = NoNonce
    /\ servedProof = NoNonce
    /\ hup = FALSE

\* A configuration nginx accepts: no refused vhost, and every HTTPS vhost of a
\* custom domain finds its certificate.
Accepts(tree) ==
    \A f \in Fqdn :
        /\ tree[f].gen \in Refused => ~Exists(tree[f])
        /\ tree[f].kind = "https" => f \in live

-----------------------------------------------------------------------------
\* 32 random bytes repeat no nonce that is still somewhere.
FreshNonce == Nonce \ {proof, servedProof}

\* Test: prepareProof and a successful `nginx -t`.
TestSucceeds ==
    /\ Accepts(disk)
    /\ proof' \in FreshNonce
    /\ expected' = proof'
    /\ UNCHANGED <<disk, served, servedProof, hup>>

\* Test: prepareProof fails before or after it replaced the proof file, or
\* `nginx -t` fails, for the configuration's sake or not.
TestFails ==
    /\ proof' \in FreshNonce \cup {proof}
    /\ expected' = NoNonce
    /\ UNCHANGED <<disk, served, servedProof, hup>>

\* Reload: the signal reaches the master.
SignalSucceeds ==
    /\ expected # NoNonce
    /\ hup' = TRUE
    /\ UNCHANGED <<disk, proof, expected, served, servedProof>>

\* The command fails or times out, with or without the signal delivered.
SignalFails ==
    /\ hup' \in {hup, TRUE}
    /\ UNCHANGED <<disk, proof, expected, served, servedProof>>

\* Mutant: the exit status of `nginx -s reload` is taken for a confirmation.
TrustsExitStatus == TRUE

\* waitForProof reads the expected answer on the private socket.
ProofSeen == servedProof = expected

-----------------------------------------------------------------------------
\* The master takes the configuration on disk.
MasterLoads ==
    /\ hup
    /\ Accepts(disk)
    /\ served' = disk
    /\ servedProof' = proof
    /\ hup' = FALSE
    /\ UNCHANGED <<disk, proof, expected>>

\* The master keeps its configuration: the new one is refused or cannot be set up.
MasterRefuses ==
    /\ hup
    /\ hup' = FALSE
    /\ UNCHANGED <<disk, proof, expected, served, servedProof>>

\* certbot's deploy hook, a package upgrade or an operator signals the master.
ForeignReload ==
    /\ "reload" \in Faults
    /\ ~hup
    /\ hup' = TRUE
    /\ UNCHANGED <<disk, proof, expected, served, servedProof>>

\* A new agent process knows no expected proof.
ForgetProof ==
    /\ expected' = NoNonce
    /\ UNCHANGED <<disk, proof, served, servedProof, hup>>

=============================================================================
