SPECIFICATION FairSpec
CONSTANTS
  i1 = i1
  i2 = i2
  d1 = d1
  s1 = s1
  s2 = s2
  Proc = {p1, p2}
  Ids = {i1, i2}
  Dests = {d1, d2}
  Shas = {s1, s2}
  ShaOf <- ShaOfId
  Descends <- SecondDescends
  Looks404 = {}
  Asked <- FirstAnywhere
  Lag = FALSE
  MayOverstay = FALSE
  MaxOther = 1
  MaxFaults = 1
  NoJob = NoJob
  NoSha = NoSha
  NoLease = NoLease
  NoRun = NoRun
INVARIANTS SucceededWasOnRemote RemoteContactHasIntent BlockedWasNotPushed
PROPERTIES PushOnlyCreates PushSettles
