CONSTANTS
  a = a
  b = b
  Fqdn = {a, b}
  Refused = {4}
  Faults = {"crash", "read", "write", "reload"}
  Nonce = {n1, n2, n3}
  NoNonce = NoNonce
  ApplyRequests <- SiteApplies
  Manifests <- SiteManifests
  Snapshots = {0, 1}
SPECIFICATION Spec
SYMMETRY NonceSymmetry
INVARIANTS
  TypeOK
  IInv
  NeverServesOlderThanRecorded
  CommitsOnlyWhatIsServed
  RollbackIsComplete
  NoDanglingCertificate
  SyncRepairsTheRecord
PROPERTIES
  GenerationMonotonic
  KeepsTheLedger
