---------------------------- MODULE StartupProofs ----------------------------
(* Theorems about Startup, for every set of names and every environment.     *)
EXTENDS Startup, TLAPS

\* What runs was loaded from some environment.
Loaded == Up => \E e : LoadAccepts(e) /\ cfg = Settings(e)

\* No listener can be unset and have peers.
LEMMA UnsetHasNoPeers ==
    ASSUME NEW peers, ListenerAccepted(Unset, peers)
    PROVE  peers = <<>>
<1>1. ~Literal(Unset)
  BY DEF Literal, Unset
<1> QED
  BY <1>1 DEF ListenerAccepted

\* The rules of Load imply those of validateMetadata.
LEMMA LoadedMetadataRenders ==
    ASSUME NEW e, LoadAccepts(e)
    PROVE  MetadataRenders(Settings(e))
<1>1. /\ Settings(e).metadataListen = e.metadataListen
      /\ Settings(e).metadataPeers = e.metadataPeers
      /\ Settings(e).httpsListen = e.httpsListen
      /\ Settings(e).proxyListen = e.proxyListen
  BY DEF Settings
<1>2. ListenerAccepted(e.metadataListen, e.metadataPeers)
  BY DEF LoadAccepts, MetadataAccepted
<1>3. CASE e.metadataListen = Unset
  BY <1>1, <1>2, <1>3, UnsetHasNoPeers DEF MetadataRenders
<1>4. CASE e.metadataListen # Unset
  <2>1. /\ e.metadataListen.port >= 1024
        /\ e.metadataListen \notin {e.httpsListen, e.proxyListen}
    BY <1>4 DEF LoadAccepts, MetadataAccepted
  <2>2. /\ Literal(e.metadataListen)
        /\ Len(e.metadataPeers) \in 1 .. MaxPeers
        /\ \A i \in DOMAIN e.metadataPeers : Literal(e.metadataPeers[i])
        /\ IsInjective(e.metadataPeers)
    BY <1>2, <1>4 DEF ListenerAccepted
  <2>3. \A i \in DOMAIN e.metadataPeers : e.metadataPeers[i].kind = "unicast"
    BY <2>2 DEF Literal
  <2> QED
    BY <1>1, <2>1, <2>2, <2>3, Zenon DEF MetadataRenders
<1> QED
  BY <1>3, <1>4

LEMMA LoadedRenders ==
    ASSUME Loaded
    PROVE  StartedCanRender
<1> SUFFICES ASSUME NEW e, LoadAccepts(e), cfg = Settings(e)
             PROVE  Renders(cfg)
  BY DEF Loaded, StartedCanRender
<1>1. cfg.marker = e.marker
  BY DEF Settings
<1> QED
  BY <1>1, LoadedMetadataRenders DEF Renders, LoadAccepts

\* An agent that started never refuses a site for its own settings.
THEOREM StartedRenders == Spec => []StartedCanRender
<1>1. Init => Loaded
  BY DEF Init, Loaded, Up
<1>2. Loaded /\ [Next]_vars => Loaded'
  <2>1. CASE Start
    BY <2>1 DEF Start, Loaded, Up
  <2>2. CASE Stop
    BY <2>2 DEF Stop, Loaded, Up
  <2>3. ASSUME Loaded, UNCHANGED cfg
        PROVE  Loaded'
    BY <2>3 DEF Loaded, Up
  <2> QED
    BY <2>1, <2>2, <2>3
    DEF Next, Edit, ChangeZones, Publish, Apply, Sync, vars
<1> QED
  BY <1>1, <1>2, LoadedRenders, PTL DEF Spec

=============================================================================
