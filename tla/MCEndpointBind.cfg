SPECIFICATION FairSpec
CONSTANTS
  k1 = k1
  k2 = k2
  i1 = i1
  i2 = i2
  r1 = r1
  r2 = r2
  Ids = {i1, i2}
  Relays = {r1, r2}
  Ips = {}
  Customs = {}
  Malformed = Malformed
  Secrets = {k1, k2}
  PublicKey <- PublicKeys
  PresetRelays = {r1}
  PresetLookups <- N0Lookups
  Threads = {t1, t2}
  Binds = {b1, b2}
  OptionSets <- SomeOptions
  Data = {d1}
  Shown = {d1, d2}
  MaxSignatures = 1
  MaxRestarts = 1
CHECK_DEADLOCK FALSE
INVARIANTS
  TypeOK
  StableIdentity
  SignaturesVerify
  LookupsMeet
PROPERTIES
  ContextSettled
  InstallsReturn
  DisposedIsReleased
