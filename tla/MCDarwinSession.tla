-------------------------- MODULE MCDarwinSession --------------------------
(* Small instances of DarwinSession for TLC.                                *)
EXTENDS DarwinSession, TLC

\* Bound: those that are no sessions connect and hang up, and ask for nothing.  No
\* fairness is required of them, so this leaves a part of their behaviours out and adds
\* none.
OthersSilent == \A k \in Conns \ Sessions : inbox'[k] = "none"
=============================================================================
