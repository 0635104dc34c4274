CONSTANTS
  Fqdn = {a, b}
  RootOf <- Roots
  Environments <- Environs
  MaxPeers = 2
  MaxGen = 2
SPECIFICATION FairSpec
INVARIANTS
  StartedCanRender
PROPERTIES
  SettingsReachEverySite
