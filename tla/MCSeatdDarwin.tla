--------------------------- MODULE MCSeatdDarwin ---------------------------
(* Small instances of SeatdDarwin for TLC.                                  *)
EXTENDS SeatdDarwin, TLC

\* Connections are interchangeable in the safety run.
ConnSymmetry == Permutations(Conns)

\* Nothing is promised once a slot was reused too early: such states are reached,
\* and checked, and not continued.
NotRaced == ~raced
=============================================================================
