SPECIFICATION Spec
CONSTANTS
  t1 = t1
  t2 = t2
  t3 = t3
  Threads <- ThreeThreads
  NoThread = NoThread
SYMMETRY Symmetric
INVARIANTS OneUserManager OneLogin RequestsCarriedOut
PROPERTY RaceIsOver
CHECK_DEADLOCK FALSE
