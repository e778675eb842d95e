-------------------------- MODULE MCShellSurfaces --------------------------
(* Small instances of ShellSurfaces for TLC.                                *)
EXTENDS ShellSurfaces, TLC
=============================================================================
