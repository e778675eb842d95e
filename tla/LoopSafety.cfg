CONSTANTS
  MaxSources = 3
  Fds = {f1, f2}
SPECIFICATION Spec
SYMMETRY FdSymmetry
CONSTRAINT WritesAtTheEnd
INVARIANT SlotOwnedOnce
INVARIANT AtMostOneLateCall
INVARIANT DestroyWhenQuiet
INVARIANT StillWatched
INVARIANT CrashOnlyIfCareless
\* A destroyed loop, and a process that libdispatch ended, have nothing left to do.
CHECK_DEADLOCK FALSE
