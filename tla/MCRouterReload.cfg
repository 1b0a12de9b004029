\* Settings reloads between the steps of a load or an unload, and two requests; no symmetry,
\* because of the liveness property.
SPECIFICATION FairSpec
CONSTANTS
  a1 = a1
  a2 = a2
  q1 = q1
  q2 = q2
  Models = {"m", "n"}
  Catalogs <- Files
  Tunings <- AllTunings
  Replicas = {1}
  Admins = {a1}
  Requests = {q1, q2}
  Streams = {q1, q2}
  MaxBuilds = 2
  MaxReloads = 2
INVARIANTS
  CallsOnLiveRuntimes
  InflightExact
  CallsKeepTheirState
  RuntimeMatchesSettings
PROPERTIES CallsFinish
CHECK_DEADLOCK FALSE
