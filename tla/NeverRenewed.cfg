CONSTANTS
  a = a
  b = b
  Fqdn = {a}
  Refused = {}
  Faults = {}
  Nonce = {n1, n2, n3}
  NoNonce = NoNonce
  ApplyRequests <- OneApplies
  Manifests <- OneManifests
  Snapshots = {1}
SPECIFICATION Spec
SYMMETRY NonceSymmetry
INVARIANTS
  OKIsRenewed
