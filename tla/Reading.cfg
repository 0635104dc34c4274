CONSTANTS
  Fqdn = {d, m}
  Early = {d}
  Version = {v1, v2}
  NoVhost = NoVhost
  Refused = {v2}
  Nonce = {n1, n2, n3, n4}
  NoNonce = NoNonce
  Faults = {"crash", "reload"}
SPECIFICATION Spec
SYMMETRY NonceSymmetry
INVARIANTS
  ProofInv
  ConfirmedIsServedOrLoading
  NothingOldIsConfirmed
