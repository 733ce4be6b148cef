SPECIFICATION Spec
CONSTANTS
  RIFF = 1
  DDFB = 2
  SIGN = 3
  PubLen = 33
  SigLen = 64
  Torn = 77
  Extra = 16
  Keys = {1, 2}
  PubKey <- MCPubKey
  Signature <- MCSignature
  s1 = s1
  s2 = s2
  s3 = s3
  c1 = c1
  Signers = {s1, s2, s3}
  Creators = {c1}
  KeyOf <- MCKeyOf
  PayloadOf <- MCSamePayload
  Initial <- MCInitial
  MaxRuns = 1
  Block = 6
  Exclusive = FALSE
  CanFail = FALSE
  CanCrash = FALSE
INVARIANTS
  NothingLost
  EntriesVerify
  OnlyGenuineSigned
