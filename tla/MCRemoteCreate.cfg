SPECIFICATION FairSpec
CONSTANTS
  Proc = {p1, p2}
  Ids = {i1}
  Dests = {d1, d2}
  MayOverstay = FALSE
  MaxOther = 2
  MaxFaults = 2
  NoJob = NoJob
  NoLease = NoLease
  NoRun = NoRun
  NoRemote = NoRemote
  Foreign = Foreign
INVARIANTS AttachedIsReal CreatedIsOnRecord NoSecondCreate
PROPERTY RemoteSettles
