SPECIFICATION Spec
CONSTANTS
  j1 = j1
  j2 = j2
  j3 = j3
  NoJob = NoJob
  Jobs = {j1, j2, j3}
  KeyOf <- MCKeyOf
  Streams = {j1}
  MaxPerKey = 1
  MaxTotal = 2
  Width = 2
  Target <- OneSlotEach
  Closers = {unload}
  MaxCancels = 1
SYMMETRY JobSymmetry
INVARIANTS
  TypeOK
  SoleOwner
  SlotsRespected
  ActiveAgrees
  ReleasedBeforeAnswered
  NoLostWakeup
  UnloadingOnlyWhenStopping
  ExitIsFinal
PROPERTIES ImplementsContract
CHECK_DEADLOCK FALSE
