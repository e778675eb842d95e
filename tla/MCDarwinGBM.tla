---------------------------- MODULE MCDarwinGBM ----------------------------
(* Small instances of DarwinGBM for TLC.                                    *)
EXTENDS DarwinGBM, TLC

\* Clients, structures and descriptors are interchangeable in the safety run.
GbmSymmetry == Permutations(Clients) \cup Permutations(Bos) \cup Permutations(Mems)
=============================================================================
