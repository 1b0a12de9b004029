\* Two admin calls at a time and a reload, one request, models that share a backend.
SPECIFICATION Spec
CONSTANTS
  a1 = a1
  a2 = a2
  q1 = q1
  q2 = q2
  Models = {"m", "n"}
  Catalogs <- Backends
  Tunings <- OneTuning
  Replicas = {1, 2}
  Admins = {a1, a2}
  Requests = {q1}
  Streams = {q1}
  MaxBuilds = 3
  MaxReloads = 1
SYMMETRY AdminSymmetry
INVARIANTS
  TablesAgree
  NoRuntimeLeaks
  OneEnginePerBackend
CHECK_DEADLOCK FALSE
