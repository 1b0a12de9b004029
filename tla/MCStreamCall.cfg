SPECIFICATION FairSpec
CONSTANT MaxChunks = 2
INVARIANTS CompletedMeansAll ReleasedOnce NothingLeftOpen
PROPERTIES LeavingFreesSlot AnswerArrives
\* The stream ends, and a server may stay silent.
CHECK_DEADLOCK FALSE
