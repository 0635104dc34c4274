------------------------------- MODULE Routes -------------------------------
(* Route requests and what the agent renders for them: internal/model, the   *)
(* validation and the template choice of internal/render.                    *)
(*                                                                           *)
(* A vhost file is abstracted to the generation it was rendered for and the  *)
(* template that rendered it; its text beyond that changes no decision of    *)
(* the agent.                                                                *)
EXTENDS Integers, Sequences

CONSTANTS
    Fqdn,      \* the host names that pass validFQDN
    Refused,   \* the generations whose vhost `nginx -t` refuses
    Faults     \* the failures the environment may produce, see FaultKind

FaultKind == {"persist",  \* writing the state file fails
              "crash",    \* the agent dies and systemd restarts it
              "read",     \* reading a vhost file fails
              "write",    \* writing or removing a vhost file fails
              "reload",   \* somebody else reloads nginx
              "hand"}     \* an operator removes certificate files

ASSUME FaultsAssumption == Faults \subseteq FaultKind

ASSUME RefusedAssumption == Refused \subseteq Nat

-----------------------------------------------------------------------------
(* A desired route. A certRef is either a configured wildcard root, the      *)
(* Let's Encrypt marker, or one that CertPaths refuses.                      *)
Route == [fqdn   : Fqdn,
          state  : {"PRESENT", "ABSENT", "UNKNOWN"},
          gen    : Nat,
          ref    : {"wildcard", "letsencrypt", "unrecognised"},
          target : {"guest", "outside"}]

Kind == {"platform", "challenge", "https"}

Vhost == [gen : Nat, kind : Kind]

NoFile == [gen |-> 0, kind |-> "none"]

File == Vhost \cup {NoFile}

Exists(file) == file.kind # "none"

\* The content of the include directory, of a running nginx, or of a backup.
Tree == [Fqdn -> File]

EmptyTree == [f \in Fqdn |-> NoFile]

-----------------------------------------------------------------------------
IsPlatform(r) == r.ref = "wildcard"

\* ValidateWithNetwork: an ABSENT route names no target, an unknown state is refused.
Valid(r) == \/ r.state = "ABSENT"
            \/ r.state = "PRESENT" /\ r.target = "guest"

\* CertPaths succeeds.
HasCertPaths(r) == r.ref \in {"wildcard", "letsencrypt"}

\* The template Render picks; ready says that the route's certificate exists.
Rendered(r, ready) ==
    [gen  |-> r.gen,
     kind |-> CASE IsPlatform(r)           -> "platform"
                [] ~IsPlatform(r) /\ ready  -> "https"
                [] ~IsPlatform(r) /\ ~ready -> "challenge"]

=============================================================================
