CONSTANTS
  MaxSources = 1
  Fds = {f1}
SPECIFICATION Spec
PROPERTY WaitsForSomething
\* A destroyed loop, and a process that libdispatch ended, have nothing left to do.
CHECK_DEADLOCK FALSE
