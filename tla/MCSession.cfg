SPECIFICATION Spec
CONSTANTS
  Langs = {"rust", "cpp"}
  WatchesStdin = TRUE
  MaxRequests = 4
  SeqMod = 3
INVARIANTS
  TypeOK
  AnswerIsOwn
  ExecutedInOrder
  NoLateEffect
  ClosedIsReaped
PROPERTIES
  AtMostOnce
  ShutdownReturns
  NoOrphans
