---------------------------- MODULE MCParallelMap ----------------------------
(* Instances of ParallelMap for TLC.                                         *)
EXTENDS ParallelMap, TLC

\* Workers are interchangeable (used with safety properties only).
Symmetry == Permutations(Workers)

\* One vector, two of the same length, a scalar only, two unequal lengths
\* that are rejected, and an empty vector before a longer one.
ManyArguments == {<<2>>, <<1, 1>>, <<>>, <<2, 1>>, <<0, 2>>}

\* One vector, and two unequal lengths in both orders.
UnequalArguments == {<<2>>, <<0, 2>>, <<2, 0>>}
\* More elements than the ring has slots, and two unequal lengths.
LongArguments == {<<4>>, <<2, 0>>}
=============================================================================
