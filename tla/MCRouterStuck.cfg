\* A load whose override is invalid.
SPECIFICATION Spec
CONSTANTS
  a1 = a1
  a2 = a2
  q1 = q1
  q2 = q2
  Models = {"m"}
  Catalogs <- OneModel
  Tunings <- OneTuning
  Replicas = {1}
  Admins = {a1}
  Requests = {q1}
  Streams = {q1}
  MaxBuilds = 1
  MaxReloads = 0
INVARIANTS LoadingIsInProgress
CHECK_DEADLOCK FALSE
