CONSTANTS
  Conns = {k1, k2, k3}
  NumSlots = 2
  NumFds = 3
  MaxHeld = 1
  Unused = Unused
  Device = Device
  NoConn = NoConn
SPECIFICATION Spec
SYMMETRY ConnSymmetry
CONSTRAINT NotRaced
INVARIANT OnlyOwnDescriptors
INVARIANT OneSourceEach
INVARIANT NoDescriptorLeak
\* Every connection is made once: when all have hung up, nothing is left to do.
CHECK_DEADLOCK FALSE
