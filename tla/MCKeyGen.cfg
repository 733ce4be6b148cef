SPECIFICATION Spec
CONSTANTS
  k1 = k1
  k2 = k2
  s1 = s1
  Keygens = {k1, k2}
  Signers = {s1}
  OldKeys <- MCOldKeys
  KeyLen = 2
  PathLengths = {"short", "long", "longer"}
  MaxRuns = 1
  CanFail = TRUE
  CanCrash = TRUE
INVARIANTS
  PairReported
  WholeKeysUsed
PROPERTIES
  RunsEnd
