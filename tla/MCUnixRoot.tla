----------------------------- MODULE MCUnixRoot -----------------------------
(* Instances of UnixRoot for TLC.                                          *)
EXTENDS UnixRoot, TLC

\* Workers, tasks and clients are interchangeable; only for invariants.
Symmetry == Permutations(Workers) \cup Permutations(Tasks) \cup Permutations(Clients)
=============================================================================
