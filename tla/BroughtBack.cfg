CONSTANTS
  Fqdn = {a}
  MaxGen = 3
  MaxSnap = 1
SPECIFICATION Spec
INVARIANTS
  WithdrawnStays
