------------------------------- MODULE Certbot -------------------------------
(* The certificates certbot keeps for custom domains, as internal/certbot    *)
(* sees and drives them. certbot itself is external: what a run leaves       *)
(* behind is what the comments and checks of internal/certbot expect of it.  *)
EXTENDS Routes

VARIABLES
    live,     \* names whose certificate and key files exist
    lineage   \* names whose renewal configuration exists

certVars == <<live, lineage>>

CertTypeOK == live \subseteq Fqdn /\ lineage \subseteq Fqdn

CertInit == live = {} /\ lineage = {}

-----------------------------------------------------------------------------
\* Mutant: what is there to delete is judged by the certificate files.
CertificateExists(f) == f \in live

\* Renewable state for the name, with or without usable certificate files.
LineageExists(f) == f \in lineage

\* Ensure: nothing to do for an existing certificate, else certonly issues one.
EnsureSucceeds(f) ==
    /\ live' = live \cup {f}
    /\ lineage' = IF f \in live THEN lineage ELSE lineage \cup {f}

\* certonly fails, or is killed at its timeout before or after issuing.
EnsureInterrupted(f) ==
    /\ f \notin live
    /\ \/ UNCHANGED certVars
       \/ live' = live \cup {f} /\ lineage' = lineage \cup {f}

\* Delete: certbot is called only for a name with a lineage.
DeleteSucceeds(f) == live' = live \ {f} /\ lineage' = lineage \ {f}

\* The renewal configuration goes first, the certificate files after it.
DeleteInterrupted(f) ==
    \/ UNCHANGED certVars
    \/ lineage' = lineage \ {f} /\ live' \in {live, live \ {f}}

\* An operator removes the live directory and leaves the renewal configuration.
RemoveByHand(f) ==
    /\ "hand" \in Faults
    /\ f \in live
    /\ live' = live \ {f}
    /\ UNCHANGED lineage

=============================================================================
