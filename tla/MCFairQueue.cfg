\* The queue under the load of an executor with two slots.
SPECIFICATION ShareSpec
CONSTANTS
  a1 = a1
  a2 = a2
  b1 = b1
  b2 = b2
  b3 = b3
  Jobs = {a1, a2, b1, b2, b3}
  KeyOf <- MCKeyOf
  Rate <- MCRate
  MaxPerKey = 2
  MaxTotal = 3
  SoftCap = 1
  Ttl = 2
  MaxTime = 4
  Slots = 2
  MaxCall = 1
SYMMETRY JobSymmetry
INVARIANTS CountAgrees ActiveKept IdleAgrees LeadBounded
PROPERTIES FifoPerKey SettlingNeverRaisesScore ImplementsPool
\* Every job has been sent and settled and the clock is at its bound.
CHECK_DEADLOCK FALSE
