\* Liveness, with two closers and a stream cancelled up to twice, on one replica.
SPECIFICATION FairSpec
CONSTANTS
  j1 = j1
  j2 = j2
  j3 = j3
  NoJob = NoJob
  Jobs = {j1, j2}
  KeyOf <- MCKeyOf
  Streams = {j1}
  MaxPerKey = 2
  MaxTotal = 2
  Width = 1
  Target <- OneSlotEach
  Closers = {unload, close}
  MaxCancels = 2
PROPERTIES EveryJobAnswered LoopStops
CHECK_DEADLOCK FALSE
