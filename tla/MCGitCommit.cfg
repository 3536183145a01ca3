SPECIFICATION Spec
CONSTANTS
  Proc = {p1, p2}
  Ids = {i1}
  Snaps = {s1}
  Stamps = {1, 2}
  MaxHead = 1
  MaxIndex = 1
  MaxCrashes = 1
  MayOverstay = FALSE
  HeadReadsFail = FALSE
  NoIntent = NoIntent
  NoSha = NoSha
  NoLease = NoLease
  NoRun = NoRun
SYMMETRY ProcSymmetry
INVARIANTS
  RefIsVerifiedIntent
  RecordedWasNamed
  CommitTreeAtMostOnce
  NoStaleRef
PROPERTIES
  IdentityIsDurable
  ImplementsLedger
