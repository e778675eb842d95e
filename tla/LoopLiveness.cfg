CONSTANTS
  MaxSources = 3
  Fds = {f1}
SPECIFICATION FairSpec
CONSTRAINTS CarefulCallers WritesAtTheEnd
PROPERTY Served
\* A destroyed loop, and a process that libdispatch ended, have nothing left to do.
CHECK_DEADLOCK FALSE
