---------------------------- MODULE MCManagerLoop ----------------------------
(* Instances of ManagerLoop for TLC. *)
EXTENDS ManagerLoop

\* One project is deleted and paused, or runs are requested for its task.
SomeHabits ==
  {{"delete", "pause"} \X {"p1"}, {"delete", "request"} \X {"p1"}}

SomeTroubles ==
  ({"manager"} \X {"unread", "unlisted", "crash"})
  \cup ({"request"} \X {"unmade", "unanswered", "uncleared"})
  \cup {<<"pause", "unnoted">>}

=============================================================================
