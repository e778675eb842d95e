CONSTANTS
  Conns = {k1, k2, k3}
  Sessions = {k1}
  NumSlots = 1
  NumFds = 3
  MaxHeld = 1
  Unused = Unused
  Device = Device
  NoConn = NoConn
SPECIFICATION SFairSpec
ACTION_CONSTRAINT OthersSilent
INVARIANT STypeOK
INVARIANT NeverForgotten
INVARIANT KilledOnlyIfTurnedAway
PROPERTY ImplementsSeatSession
PROPERTY HangupCleans
\* Every connection is made once: when all have hung up, nothing is left to do.
CHECK_DEADLOCK FALSE
