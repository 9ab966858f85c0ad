\* coalescing-broker.js:41-48 on a first mint that fails with an Edge 5xx.
SPECIFICATION Spec
CONSTANTS
  c1 = c1
  c2 = c2
  c3 = c3
  c4 = c4
  c5 = c5
  c6 = c6
  Calls <- MCCalls
  Keys = {"ds1", "ds2"}
  NoKey = NoKey
  MintKey <- MCMintKey
  Coalescing = TRUE
  NoIdentity = NoIdentity
  NoCall = NoCall
  Rejected = Rejected
INVARIANTS FailureNotReplayed
