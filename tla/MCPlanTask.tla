----------------------------- MODULE MCPlanTask -----------------------------
(***************************************************************************)
(* The instances of PlanTask that are checked.                             *)
(***************************************************************************)
EXTENDS PlanTask

\* The human answers where the board offers it to him.
Attending ==
  (Flows \X {"awaiting-human", "failed"} \X {"approved"})
  \cup (Flows \X {"awaiting-human", "awaiting-feature-merge"} \X {"changes"})
  \cup ({"auto-merge", "manual"} \X {"awaiting-human"} \X {"abandon"})

\* Without pull requests the generation fails; an integration run fails, stalls,
\* is deleted or cannot be read.  With them, an evaluation fails or stalls.
SomeTroubles ==
  ({"auto-merge", "manual"} \X {"buildgen"} \X {"fails", "unread"})
  \cup ({"auto-merge"} \X {"merge"} \X {"fails", "stalls", "deleted", "unread"})
  \cup ({"pr"} \X {"preval"} \X {"fails", "stalls"})

\* Children are merged; some are set to done by hand or abandoned.
SomeEndings == (Flows \X {"merged"}) \cup ({"auto-merge"} \X {"abandoned", "unmerged"})

=============================================================================
