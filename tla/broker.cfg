\* Six concurrent calls of the broker, with failures and retries.
SPECIFICATION FairSpec
CONSTANTS
  c1 = c1
  c2 = c2
  c3 = c3
  c4 = c4
  c5 = c5
  c6 = c6
  Calls <- MCCalls
  Keys = {"ds1", "ds2"}
  NoKey = NoKey
  MintKey <- MCMintKey
  Coalescing = TRUE
  NoIdentity = NoIdentity
  NoCall = NoCall
  Rejected = Rejected
INVARIANTS TypeOK OneIdentity OneMintPerKey HeldSharesFate
PROPERTIES ImplementsRegister HeldSettles
