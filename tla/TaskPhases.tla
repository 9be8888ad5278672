----------------------------- MODULE TaskPhases -----------------------------
(***************************************************************************)
(* The phases of a Task and the table of the transitions allowed between   *)
(* them: TRANSITION_TABLE of packages/api/src/index.ts, which the manager  *)
(* (reconciler/transitions.ts), its MCP tools and the CLI all validate     *)
(* against, and the phases that occupy a maxParallel slot                  *)
(* (reconciler/scheduler.ts).                                              *)
(***************************************************************************)

TaskPhase == {"idea", "pending", "scheduled", "initializing", "running",
              "waiting-for-input", "succeeded", "reviewing", "awaiting-human",
              "awaiting-merge", "rework-requested", "generating-builds",
              "awaiting-children", "awaiting-feature-merge", "failed", "done"}

\* With the phase that waits for an approval among them.
ACTIVE_PHASES_Waiting == {"scheduled", "initializing", "running", "reviewing",
                          "waiting-for-input", "awaiting-human", "awaiting-merge",
                          "generating-builds"}
\* With failed tasks keeping their slot.
ACTIVE_PHASES_Failed == {"scheduled", "initializing", "running", "reviewing", "failed",
                         "waiting-for-input", "awaiting-merge", "generating-builds"}
ACTIVE_PHASES == {"scheduled", "initializing", "running", "reviewing",
                  "waiting-for-input", "awaiting-merge", "generating-builds"}

TRANSITION_TABLE ==
  [p \in TaskPhase |->
     CASE p = "idea" -> {"pending"}
       [] p = "pending" -> {"scheduled"}
       [] p = "scheduled" -> {"initializing", "failed"}
       [] p = "initializing" -> {"running", "succeeded", "failed"}
       [] p = "running" -> {"waiting-for-input", "succeeded", "failed"}
       [] p = "waiting-for-input" -> {"running", "succeeded", "failed", "done",
                                      "rework-requested"}
       [] p = "succeeded" -> {"reviewing", "awaiting-human", "done"}
       [] p = "reviewing" -> {"awaiting-human", "rework-requested"}
       [] p = "awaiting-human" -> {"awaiting-merge", "generating-builds",
                                   "awaiting-feature-merge", "rework-requested",
                                   "done", "failed"}
       [] p = "awaiting-merge" -> {"done", "awaiting-human", "failed"}
       [] p = "rework-requested" -> {"scheduled"}
       [] p = "generating-builds" -> {"awaiting-children", "awaiting-human", "failed"}
       [] p = "awaiting-children" -> {"awaiting-feature-merge", "awaiting-human",
                                      "done", "failed"}
       [] p = "awaiting-feature-merge" -> {"done", "awaiting-human", "failed",
                                           "awaiting-children"}
       [] p = "failed" -> {"pending", "awaiting-human", "awaiting-merge",
                           "awaiting-feature-merge"}
       [] p = "done" -> {}]

\* isValidTransition
IsValidTransition(from, to) == to \in TRANSITION_TABLE[from]

=============================================================================
