SPECIFICATION MCSpec
CONSTANTS
  Retailer = {"known", "new"}
  Curated = {"known"}
  Policies <- MCPolicies
  Pages <- MCPages
  Readings <- MCReadings
  MostRows = 2
  Report = {"p1"}
  User = {"u1", "u2"}
  HideAfter = 2
  About <- MCAbout
  Tx = {"t1", "t2"}
  AssessBatch = 2
  RefreshBatch = 1
INVARIANTS
  FlagsAreDistinctUsers
  FlaggedOnlyIfCorroborated
PROPERTY WebEvidenceArrives
