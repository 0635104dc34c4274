CONSTANTS
  a = a
  Call = {c1, c2}
  NoCall = NoCall
  Fqdn = {a}
  Generation = {1, 2}
  Requests <- Mixed
SPECIFICATION FairSpec
INVARIANTS
  ServerInv
  HeardIsRecorded
  AnswersAreCurrent
  StatusKnowsItsEvents
PROPERTIES
  RecordGoesForward
  EveryCallEnds
