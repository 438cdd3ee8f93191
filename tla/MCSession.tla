------------------------------ MODULE MCSession ------------------------------
(* An instance of Session for TLC: two regions next to each other, one page  *)
(* and three pages long, and a process that makes up to MaxEvents changes.   *)
EXTENDS Session, TLC

MCLayout ==
    <<[start |-> 2, end |-> 4, perms |-> {"r", "x", "p"}, name |-> <<"/bin", "prog">>],
      [start |-> 4, end |-> 10, perms |-> {"r", "w", "p"}, name |-> <<>>]>>

\* A number and a string in the middle of the second region.
MCMemories == {[a \in 2 .. 9 |-> IF a \in {6, 7} THEN 1 ELSE 0]}

MCFilters == [sizes |-> {4}, names |-> {<<"prog">>}, perms |-> {{"w"}}]

MCCompareSizes == {4}
MCNumbers == {1, 3}
MCStrings == {<<1, 1>>, <<1, 0>>}
MCBuffers == {<<1, 1, 0>>, <<1, 0>>}
=============================================================================
