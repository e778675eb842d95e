CONSTANTS
  Panels = {p}
  Launchers = {l}
  Wallpapers = {w}
  Stdin = Stdin
  Unused = Unused
SPECIFICATION Spec
INVARIANT ShownBufferAlive
INVARIANT EndsExplained
INVARIANT OwnsWhatExists
\* The shell may end.
CHECK_DEADLOCK FALSE
