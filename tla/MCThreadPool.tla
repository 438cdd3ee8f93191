---------------------------- MODULE MCThreadPool -----------------------------
(* Instances of ThreadPool for TLC.                                          *)
EXTENDS ThreadPool, TLC

\* Workers are interchangeable (used with safety properties only).
Symmetry == Permutations(Workers)
=============================================================================
