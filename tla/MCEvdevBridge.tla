-------------------------- MODULE MCEvdevBridge ---------------------------
(* Small instances of EvdevBridge for TLC.                                  *)
EXTENDS EvdevBridge, TLC
=============================================================================
