SPECIFICATION Spec
CONSTANTS
  Proc = {p1, p2}
  MaxTx = 2
  NoFile = NoFile
INVARIANT RestoreIsAtomic
