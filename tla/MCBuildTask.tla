---------------------------- MODULE MCBuildTask ----------------------------
(* Instances of BuildTask for TLC. *)
EXTENDS BuildTask, TLC

CONSTANTS t1, t2, t3

\* Tasks that do not depend on each other.
Independent == [t \in Tasks |-> NoTask]

Equal == [t \in Tasks |-> 2]
Ranked == [t \in Tasks |-> IF t = t1 THEN 3 ELSE 1]

\* Which annotations humans write in which phases.
Never == {}
Approving == {"awaiting-human"} \X {"approved"}
ApprovingOrNot == {"awaiting-human"} \X {"approved", "abandon"}
Reviewing == {"awaiting-human", "waiting-for-input", "failed"} \X {"approved", "changes"}
Tending == ({"waiting-for-input"} \X {"answer", "abandon"}) \cup ApprovingOrNot

\* Which runs are deleted, in which phases.
ReviewRuns == {"review"} \X RunPhase
MergeRuns == {"merge"} \X RunPhase
ParkedRuns == {<<"worker", "WaitingForInput">>}

\* t2 starts from t1's merged work.
Chained == [t \in Tasks |-> IF t = t2 THEN t1 ELSE NoTask]

=============================================================================
