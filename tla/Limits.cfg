CONSTANTS
  Key = {k1, k2}
  NoKey = NoKey
  PerMin = 2
  Minute = 3
  Horizon = 5
SPECIFICATION Spec
SYMMETRY KeySymmetry
INVARIANTS
  LimiterInv
  WithinBudget
PROPERTIES
  FillsSteadily
