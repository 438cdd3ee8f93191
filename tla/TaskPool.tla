------------------------------ MODULE TaskPool -------------------------------
(***************************************************************************)
(* What a thread pool promises its client, with no queue and no thread in   *)
(* sight: tasks are numbered as they are submitted, taken in that order,    *)
(* each finished at most once and only after it was taken, and the pool     *)
(* closes only when every taken task is finished, breaking the rest.        *)
(***************************************************************************)
EXTENDS Naturals

CONSTANT MaxTasks   \* bound: how many tasks are ever submitted

VARIABLES
    submitted,  \* how many tasks were submitted
    taken,      \* how many of them were taken, the first ones
    done,       \* the tasks that finished
    broken,     \* the tasks whose future was broken
    covered,    \* how many tasks the last await covers
    closed      \* the pool is gone

vars == <<submitted, taken, done, broken, covered, closed>>

Init ==
    /\ submitted = 0
    /\ taken = 0
    /\ done = {}
    /\ broken = {}
    /\ covered = 0
    /\ closed = FALSE

Submit ==
    /\ ~closed
    /\ submitted < MaxTasks
    /\ submitted' = submitted + 1
    /\ UNCHANGED <<taken, done, broken, covered, closed>>

Take ==
    /\ ~closed
    /\ taken < submitted
    /\ taken' = taken + 1
    /\ UNCHANGED <<submitted, done, broken, covered, closed>>

Finish(t) ==
    /\ ~closed
    /\ t < taken
    /\ t \notin done
    /\ done' = done \cup {t}
    /\ UNCHANGED <<submitted, taken, broken, covered, closed>>

\* An await covers what was submitted, and returns when all of it was taken.
AwaitReturn ==
    /\ ~closed
    /\ taken = submitted
    /\ covered' = submitted
    /\ UNCHANGED <<submitted, taken, done, broken, closed>>

Close ==
    /\ ~closed
    /\ done = 0 .. taken - 1
    /\ closed' = TRUE
    /\ broken' = taken .. submitted - 1
    /\ UNCHANGED <<submitted, taken, done, covered>>

Next ==
    \/ Submit
    \/ Take
    \/ \E t \in 0 .. MaxTasks - 1 : Finish(t)
    \/ AwaitReturn
    \/ Close

Spec == Init /\ [][Next]_vars
=============================================================================
