CONSTANTS
  Clients = {c1, c2}
  NumBOs = 2
  Mems = {m1, m2}
  NoMem = NoMem
  Bos = {b1, b2, b3}
  NoBo = NoBo
  Surfs = {s1}
  NoSurf = NoSurf
SPECIFICATION GbmSpec
SYMMETRY GbmSymmetry
INVARIANT GbmTypeOK
INVARIANT KeptUnlessExposed
INVARIANT NoLeak
INVARIANT SurfaceBuffers
PROPERTY ExposureNeedsWindow
