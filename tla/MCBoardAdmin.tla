---------------------------- MODULE MCBoardAdmin ----------------------------
(* Instances of BoardAdmin for TLC. *)
EXTENDS BoardAdmin, TLC

CONSTANT t1

Alone == [t \in Tasks |-> NoTask]
Equal == [t \in Tasks |-> 2]

Never == {}

\* The tools people use, in which phase, to which.
Everything ==
     ({"move"} \X {"scheduled", "running", "reviewing", "failed"} \X {"pending"})
  \cup {<<"move", "failed", "idea">>, <<"move", "idea", "pending">>}
  \cup ({"retry"} \X {"failed"} \X {"pending", "awaiting-human"})
  \cup {<<"task move", "failed", "pending">>}
  \cup {<<"retry-review", "awaiting-human", "succeeded">>}
  \cup {<<"create_run", "pending", "scheduled">>}
  \cup ({"force_retry"} \X {"running", "failed"} \X {"running", "pending"})
  \cup ({"set_task_state"} \X {"running"} \X {"pending", "scheduled"})
  \cup {<<"set_task_state", "awaiting-human", "done">>}

\* Those that start it over once more.
Restarting == {<<"move", "reviewing", "pending">>, <<"move", "failed", "pending">>}

=============================================================================
