SPECIFICATION Spec
CONSTANTS
  i1 = i1
  i2 = i2
  d1 = d1
  s1 = s1
  s2 = s2
  Proc = {p1}
  Ids = {i1}
  Dests = {d1}
  Shas = {s1, s2}
  ShaOf <- ShaOfId
  Descends <- SecondDescends
  Looks404 = {s1}
  Asked <- FirstAnywhere
  Lag = FALSE
  MayOverstay = FALSE
  MaxOther = 0
  MaxFaults = 0
  NoJob = NoJob
  NoSha = NoSha
  NoLease = NoLease
  NoRun = NoRun
INVARIANT BlockedWasNotPushed
