--------------------------- MODULE MCRunLifecycle ---------------------------
(* Instances of RunLifecycle for TLC. *)
EXTENDS RunLifecycle

SomeTroubles ==
  ({"operator"} \X {"lost", "unread", "unmade", "undeleted", "crash"})
  \cup ({"dispatcher"} \X {"lost", "killed", "aborted"})
  \cup {<<"engine", "ends">>, <<"pod", "drained">>}

=============================================================================
