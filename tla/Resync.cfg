CONSTANTS
  Fqdn = {a, b}
  MaxGen = 2
  MaxSnap = 4
SPECIFICATION FairSpec
INVARIANTS
  NothingInvented
  ConfirmedStands
  SnapshotStands
PROPERTIES
  Converges
