CONSTANTS
  Surfaces = {s1, s2}
  NoSurface = NoSurface
SPECIFICATION Spec
PROPERTY SuperQClosesFocused
\* The compositor ends with Super+Shift+E.
CHECK_DEADLOCK FALSE
