---------------------------- MODULE MCIODRMShim ----------------------------
(* Small instances of IODRMShim and of DumbGeometry for TLC.                *)
EXTENDS IODRMShim, DumbGeometry, TLC

\* What DumbGeometry states, for a word of nine bits; DumbGeometryProofs has it for all.
ASSUME GeometryHolds == RowsFit /\ BlitInBounds /\ BlitReadsRows
=============================================================================
