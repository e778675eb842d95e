---------------------------- MODULE MCShellMain ----------------------------
(* Small instances of ShellMain for TLC.                                    *)
EXTENDS ShellMain, TLC
=============================================================================
