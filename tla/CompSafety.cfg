CONSTANTS
  Surfaces = {s1, s2, s3, s4}
  NoSurface = NoSurface
SPECIFICATION Spec
SYMMETRY SurfaceSymmetry
INVARIANT TypeOK
INVARIANT ListIsStacking
INVARIANT OnlyFocusedActive
INVARIANT FocusedInFront
\* The compositor ends with Super+Shift+E.
CHECK_DEADLOCK FALSE
