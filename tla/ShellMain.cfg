CONSTANTS
  Outputs = {o1, o2}
  MaxWire = 2
  MaxPanels = 2
SPECIFICATION FairSpec
INVARIANT TypeOK
INVARIANT DeafOnlyAfterReplug
PROPERTY DimensionsKnown
PROPERTY BrokenEnds
PROPERTY PanelsPileUp
\* The shell may end.
CHECK_DEADLOCK FALSE
