------------------------------ MODULE MCManager ------------------------------
(* Small instances of Manager for TLC: two names, generations up to four,    *)
(* and the requests that bring the cases of each run about.                  *)
EXTENDS ManagerInvariant, TLC

CONSTANTS a, b

\* A published platform subdomain, a published custom domain, a withdrawn name.
Platform(f, g) == [fqdn |-> f, state |-> "PRESENT", gen |-> g,
                   ref |-> "wildcard", target |-> "guest"]
Custom(f, g)   == [Platform(f, g) EXCEPT !.ref = "letsencrypt"]
Withdrawn(f, g) == [Platform(f, g) EXCEPT !.state = "ABSENT"]

\* Routes the agent has to refuse.
Outside(f, g) == [Platform(f, g) EXCEPT !.target = "outside"]
Unknown(f, g) == [Platform(f, g) EXCEPT !.state = "UNKNOWN"]
Skewed(f, g)  == [Platform(f, g) EXCEPT !.ref = "unrecognised"]

-----------------------------------------------------------------------------
\* A custom domain is published, withdrawn and published again; a platform
\* subdomain comes and goes with the manifests, and nginx refuses generation 4.
SiteApplies == {Custom(a, 1), Withdrawn(a, 2), Custom(a, 3), Platform(b, 4),
                Outside(b, 1), Skewed(b, 1)}
SiteManifests == {<<>>,
                  <<Withdrawn(b, 1), Custom(a, 1), Platform(b, 1)>>,
                  <<Custom(a, 1), Custom(a, 3)>>,
                  <<Unknown(a, 3)>>,
                  <<Skewed(b, 2)>>}

\* Two custom domains of one sync.
PairApplies == {Withdrawn(a, 2), Custom(a, 3)}
PairManifests == {<<>>, <<Custom(a, 1), Custom(b, 1)>>}

\* One custom domain.
OneApplies == {Custom(a, 1), Withdrawn(a, 2), Custom(a, 3)}
OneManifests == {<<>>, <<Custom(a, 3)>>}

\* Nonces are compared with each other and nothing else.
NonceSymmetry == Permutations(Nonce)

=============================================================================
