--------------------------- MODULE MCCompositor ----------------------------
(* Small instances of Compositor for TLC.                                   *)
EXTENDS Compositor, TLC

SurfaceSymmetry == Permutations(Surfaces)
=============================================================================
