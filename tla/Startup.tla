------------------------------- MODULE Startup -------------------------------
(* The agent's settings, from the environment of its start (internal/config) *)
(* to the vhosts rendered under them (internal/render): what a start accepts, *)
(* what each render checks again, and the vhosts that an earlier start left  *)
(* in the directory. Requests take effect in one step; what Manager does to  *)
(* one that fails leaves files and record as they were. All names are        *)
(* platform subdomains, whose certificate is among the settings.             *)
EXTENDS Naturals, Sequences, FiniteSets, Functions

CONSTANTS
    Fqdn,
    RootOf,        \* per name: the platform root its certRef asks for, one word
    Environments,  \* what the operator may write into the environment
    MaxPeers,      \* trusted peers of a listener, 16 in the code
    MaxGen         \* publications of a name (a bound for TLC)

ASSUME StartupAssumption == MaxPeers \in Nat \ {0} /\ MaxGen \in Nat

VARIABLES
    env,     \* the environment as it is written now
    cfg,     \* the settings of the running agent
    zones,   \* whether the base nginx configuration declares the limit zones
    wanted,  \* per name: the generation pickle-api has published
    files,   \* per name: the vhost in the directory
    gens,    \* per name: the generation on record, over every restart
    listed   \* the manifest last accepted

hostVars == <<env, zones>>
siteVars == <<files, gens, listed>>
vars == <<hostVars, cfg, wanted, siteVars>>

-----------------------------------------------------------------------------
(* Settings. Addresses are compared as the texts they are; of a text only    *)
(* its kind, its port and whether it is the canonical spelling matter.       *)

Unset == [at |-> "", kind |-> "none", canonical |-> TRUE, port |-> 0]

Literal(address) == address.canonical /\ address.kind = "unicast"

\* parseHTTPProxy.
ListenerAccepted(listen, peers) ==
    \/ listen = Unset /\ peers = <<>>
    \/ /\ Literal(listen) /\ listen.port \notin {0, 80}
       /\ Len(peers) \in 1 .. MaxPeers
       /\ \A i \in DOMAIN peers : Literal(peers[i])
       /\ IsInjective(peers)

\* Mutant: no second look at the port.
AnyPort(listen, peers) == ListenerAccepted(listen, peers)

\* parseHTTPMetadata.
MetadataAccepted(listen, peers) ==
    /\ ListenerAccepted(listen, peers)
    /\ listen # Unset => listen.port >= 1024

(* parseWildcardCerts. What stands between two commas is a sequence of words *)
(* and of the marks "=" and ":"; blanks only separate words.                 *)

\* Where strings.Cut cuts: at the first mark, if there is one.
Cuts(text, mark) ==
    {i \in DOMAIN text : text[i] = mark /\ \A j \in 1 .. i - 1 : text[j] # mark}

\* A root before the first "=", and a word on either side of the ":" after it.
WellFormed(entry) ==
    \E i \in Cuts(entry, "=") :
        LET pair == SubSeq(entry, i + 1, Len(entry))
        IN  i > 1 /\ \E k \in Cuts(pair, ":") : 1 < k /\ k < Len(pair)

Root(entry) == SubSeq(entry, 1, (CHOOSE i \in Cuts(entry, "=") : TRUE) - 1)

\* The places of the entries that are not blank.
Listed(wildcards) == {i \in DOMAIN wildcards : wildcards[i] # <<>>}

WildcardsAccepted(wildcards) ==
    /\ \A i \in Listed(wildcards) : WellFormed(wildcards[i])
    /\ IsInjective([i \in Listed(wildcards) |-> Root(wildcards[i])])

WildcardRoots(wildcards) == {Root(wildcards[i]) : i \in Listed(wildcards)}

\* Everything after the first ":" is the path of the key: one that is not a
\* single word makes nginx refuse the vhost it is rendered into.
BrokenRoots(wildcards) ==
    {Root(wildcards[i]) : i \in {k \in Listed(wildcards) :
                                  Len(wildcards[k]) # Len(Root(wildcards[k])) + 4}}

\* parseOnOff: a value that is set is one of the four spellings.
OnOffAccepted(value) == value.spelling # "misspelt"

SiteLimits(value) == IF value.spelling = "right" THEN value.meant ELSE TRUE

MarkerAccepted(marker) == marker # "unclean"

\* Load.
LoadAccepts(e) ==
    /\ WildcardsAccepted(e.wildcards)
    /\ e.targetNetwork = "canonical"
    /\ ListenerAccepted(e.proxyListen, e.proxyPeers)
    /\ e.proxyListen # Unset => e.proxyListen # e.httpsListen
    /\ MetadataAccepted(e.metadataListen, e.metadataPeers)
    /\ e.metadataListen # Unset =>
         e.metadataListen \notin {e.listen, e.httpsListen, e.proxyListen}
    /\ MarkerAccepted(e.marker)
    /\ OnOffAccepted(e.siteLimits)
    /\ e.token \notin {"blank", "placeholder"}

Settings(e) ==
    [listen |-> e.listen, httpsListen |-> e.httpsListen,
     proxyListen |-> e.proxyListen, proxyPeers |-> e.proxyPeers,
     metadataListen |-> e.metadataListen, metadataPeers |-> e.metadataPeers,
     marker |-> e.marker, siteLimits |-> SiteLimits(e.siteLimits),
     roots |-> WildcardRoots(e.wildcards), broken |-> BrokenRoots(e.wildcards)]

Down == [roots |-> {}]

Up == cfg # Down

-----------------------------------------------------------------------------
(* What every render checks of the settings once more, and nginx -t.         *)

\* validateMetadata.
MetadataRenders(p) ==
    \/ p.metadataListen = Unset /\ p.metadataPeers = <<>>
    \/ /\ Literal(p.metadataListen) /\ p.metadataListen.port >= 1024
       /\ p.metadataListen \notin {p.httpsListen, p.proxyListen}
       /\ Len(p.metadataPeers) \in 1 .. MaxPeers
       /\ \A i \in DOMAIN p.metadataPeers : p.metadataPeers[i].kind = "unicast"
       /\ IsInjective(p.metadataPeers)

Renders(p) == MetadataRenders(p) /\ MarkerAccepted(p.marker)

\* A platform name is rendered with its own root's pair or not at all.
RouteRenders(f) == Renders(cfg) /\ RootOf[f] \in cfg.roots

NoFile == [gen |-> 0, under |-> Down]

Rendered(gen) == [gen |-> gen, under |-> cfg]

\* nginx -t judges every vhost: one that names a zone nobody declares fails it,
\* and so does one with a key path that is no path.
Testable(tree) ==
    \A f \in Fqdn : tree[f] # NoFile =>
        /\ tree[f].under.siteLimits => zones
        /\ RootOf[f] \notin tree[f].under.broken

-----------------------------------------------------------------------------
Init ==
    /\ env \in Environments
    /\ cfg = Down
    /\ zones \in BOOLEAN
    /\ wanted = [f \in Fqdn |-> 0]
    /\ files = [f \in Fqdn |-> NoFile]
    /\ gens = [f \in Fqdn |-> 0]
    /\ listed = [f \in Fqdn |-> 0]

\* The operator edits the environment. A running agent reads it no more.
Edit(e) ==
    /\ ~Up
    /\ env' = e
    /\ UNCHANGED <<zones, cfg, wanted, siteVars>>

\* The operator adds the zones to the base configuration, or takes them away.
ChangeZones ==
    /\ zones' = ~zones
    /\ UNCHANGED <<env, cfg, wanted, siteVars>>

\* A start that Load refuses ends before it has changed anything.
Start ==
    /\ ~Up
    /\ LoadAccepts(env)
    /\ cfg' = Settings(env)
    /\ UNCHANGED <<hostVars, wanted, siteVars>>

Stop ==
    /\ Up
    /\ cfg' = Down
    /\ UNCHANGED <<hostVars, wanted, siteVars>>

Publish(f) ==
    /\ wanted[f] < MaxGen
    /\ wanted' = [wanted EXCEPT ![f] = @ + 1]
    /\ UNCHANGED <<hostVars, cfg, siteVars>>

Apply(f, gen) ==
    /\ Up
    /\ gen > gens[f]
    /\ RouteRenders(f)
    /\ files' = [files EXCEPT ![f] = Rendered(gen)]
    /\ Testable(files')
    /\ gens' = [gens EXCEPT ![f] = gen]
    /\ UNCHANGED <<hostVars, cfg, wanted, listed>>

\* Mutant: a sync skips, as an apply does, what is on record already.
NotNews(f, gen) == gen <= gens[f]

\* The stale guard of a sync: an equal generation is rendered again.
Outdated(f, gen) == gen < gens[f]

\* A manifest of generations, 0 for a name it does not list. Snapshots are taken
\* in order, and the guard on their generation keeps an older one out.
Sync(manifest) ==
    /\ Up
    /\ \A f \in Fqdn : manifest[f] \in listed[f] .. wanted[f]
    /\ listed' = manifest
    /\ \A f \in Fqdn : manifest[f] > 0 /\ ~Outdated(f, manifest[f]) => RouteRenders(f)
    /\ files' = [f \in Fqdn |-> CASE manifest[f] = 0 -> NoFile
                                  [] manifest[f] > 0 /\ Outdated(f, manifest[f]) -> files[f]
                                  [] OTHER -> Rendered(manifest[f])]
    /\ Testable(files')
    /\ gens' = [f \in Fqdn |-> IF manifest[f] = 0 \/ Outdated(f, manifest[f])
                               THEN gens[f] ELSE manifest[f]]
    /\ UNCHANGED <<hostVars, cfg, wanted>>

Next ==
    \/ \E e \in Environments : Edit(e)
    \/ ChangeZones \/ Start \/ Stop
    \/ \E f \in Fqdn : Publish(f) \/ \E gen \in 1 .. wanted[f] : Apply(f, gen)
    \/ \E manifest \in [Fqdn -> 0 .. MaxGen] : Sync(manifest)

Spec == Init /\ [][Next]_vars

\* pickle-api sends a full and present snapshot time and again.
FairSpec == Spec /\ WF_vars(Sync(wanted))

-----------------------------------------------------------------------------
(* Settings that a start accepts are settings that every render accepts:     *)
(* the two lists of rules, kept in two packages, do not drift apart into an  *)
(* agent that starts and then refuses each site.                             *)
StartedCanRender == Up => Renders(cfg)

\* The settings can serve what is wanted on this host.
Serviceable ==
    /\ Up
    /\ \A f \in Fqdn : wanted[f] > 0 => RootOf[f] \in cfg.roots \ cfg.broken
    /\ cfg.siteLimits => zones

Resettled == \A f \in Fqdn : wanted[f] > 0 => files[f] = [gen |-> wanted[f], under |-> cfg]

(* Whatever earlier starts left behind - vhosts of other listeners or roots, *)
(* or with limits whose zones are gone, so that nginx -t refuses everything -*)
(* a serviceable agent that is left running ends with every platform site    *)
(* rendered under its own settings, by resyncs alone.                        *)
SettingsReachEverySite == <>[]Serviceable => <>[]Resettled

-----------------------------------------------------------------------------
(* Two statements of the code's comments that do not hold (see the README).  *)

(* No typo drops a root silently: an agent that runs has every root the      *)
(* operator wrote, a word with its "=", wherever the commas stand.           *)
NoRootIsDropped ==
    Up => \A entry \in Range(env.wildcards) :
              \A i \in 2 .. Len(entry) : entry[i] = "=" => <<entry[i - 1]>> \in cfg.roots

(* The PROXY listener is a socket of its own: LoadAccepts sees to it in part. *)
DedicatedSocket ==
    Up /\ cfg.proxyListen # Unset =>
        cfg.proxyListen \notin {cfg.listen, cfg.httpsListen, cfg.metadataListen}

=============================================================================
