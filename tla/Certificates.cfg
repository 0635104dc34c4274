CONSTANTS
  a = a
  b = b
  Fqdn = {a, b}
  Refused = {}
  Faults = {"persist", "hand"}
  Nonce = {n1, n2, n3}
  NoNonce = NoNonce
  ApplyRequests <- PairApplies
  Manifests <- PairManifests
  Snapshots = {1}
SPECIFICATION FairSpec
INVARIANTS
  SiteInv
  ChallengeIsServed
  PublishedIsLive
  StatusMatchesDirectory
  WithdrawnIsCleaned
PROPERTIES
  RequestsEnd
