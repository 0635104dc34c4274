CONSTANTS
  Literals <- SomeLiterals
  Width = 2
  MaxCIDRs = 2
  MaxFields = 2
  ProxyPeers <- Relay
  MetadataPeers <- Monitor
  Settings <- AllSettings
SPECIFICATION Spec
INVARIANTS
  AdmitsTheListed
  OnePolicyPerSet
  RoundTrip
  ChallengeStaysOpen
  ClosedMeansClosed
  PolicyHoldsEverywhere
