SPECIFICATION Spec
CONSTANTS
  N = 3
  Envelopes <- AllEnvelopes
  Seqs <- MCSeqs
  Declarations <- OneAllOrNone
  MaxRefused = 1
  NoEnv = NoEnv
INVARIANTS NeverWedged StoreMatchesProjection OnceAndAfterItsCause StreamOrder
PROPERTIES AnswerIsFinal DependantsReplayed
