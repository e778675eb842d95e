CONSTANTS
  Tasks = {t1, t2}
  NumBOs = 2
  Mems = {m1, m2}
  NoMem = NoMem
  Free = Free
  NoLock = NoLock
  Word = 512
  Widths = {0, 1, 3, 15, 16, 17, 511}
  Heights = {0, 1, 2, 9, 511}
  Bpps = {0, 8, 16, 24, 32, 511}
  Strides = {0, 48, 64, 100, 128}
  Rows = {0, 1, 2, 9, 10}
SPECIFICATION FairSpec
INVARIANT TableMatchesMemory
INVARIANT PanicOnlyIfBusyUnload
INVARIANT RegisteredImpliesReady
PROPERTY PinnedUnderLock
PROPERTY ImplementsDumbBuffers
PROPERTY IoctlReturns
\* A kernel panic ends the run of the machine.
CHECK_DEADLOCK FALSE
