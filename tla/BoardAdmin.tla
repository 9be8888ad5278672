----------------------------- MODULE BoardAdmin -----------------------------
(***************************************************************************)
(* The people and the agent who write the status of a task themselves, past *)
(* the reconciler: dragging a task on the board and repeating its review    *)
(* (web/src/server/routes/board.ts), beatctl board task move and retry     *)
(* (cli/src/board.ts), and the manager's tools create_run, force_retry and  *)
(* set_task_state (manager-controller/src/agent/tools.ts), beside the       *)
(* reconciler of BuildTask.                                                 *)
(*                                                                         *)
(* Each reads the task, and later writes what it makes of it, without the   *)
(* condition that the reconciler puts on its own writes.  Left out: the     *)
(* choice of another agent or model, and the clean-up of worktrees.         *)
(***************************************************************************)
EXTENDS BuildTask

CONSTANTS
  Directly,  \* what people do, in which phase, to which phase: <<tool, from, to>>
  Repeatedly, \* bound: what of it they do after another direct write
  MaxCalls   \* bound: direct writes in all

VARIABLES
  call,     \* the direct write in progress and the task as it was read
  calls,    \* how many there were
  used,     \* history: used[t], the worker runs it had when it was put back
  raced     \* history: the status of these was written from an old read

ASSUME MaxCallsAssumption == MaxCalls \in Nat

admin == <<call, calls, used, raced>>
allvars == <<vars, admin>>

NoCall == [does |-> "nothing", task |-> NoTask, to |-> "idea", seen |-> NewWorker]
Calling(does) == call.does = does
Restarts == {"move", "retry", "force_retry"}

-----------------------------------------------------------------------------
(* The reads.                                                              *)

\* create_run looks again before it writes: what it saw first decides nothing.
Schedulable(from, to) == to = "scheduled" /\ IsValidTransition(from, to)

\* beatctl and the tools look at the phase; the board does so for a review only.
\* (set_task_state may be told to look away.)
Sanctioned(tool, from, to) ==
  CASE tool = "task move" -> IsValidTransition(from, to)
    [] tool = "retry" -> from = "failed" /\ to \in {"pending", "awaiting-human"}
    [] tool = "retry-review" -> from = "awaiting-human" /\ to = "succeeded"
    [] tool = "create_run" -> Schedulable(from, to)
    [] tool = "force_retry" -> to \in {"running", "pending"}
    [] tool = "move" -> to \in {"pending", "idea"}
    [] tool = "set_task_state" -> TRUE

Reads(t) ==
  /\ call = NoCall /\ calls < MaxCalls /\ calls' = calls + 1
  /\ \E d \in IF calls = 0 THEN Directly ELSE Repeatedly :
       /\ d[2] = phase[t] /\ Sanctioned(d[1], d[2], d[3])
       /\ d[1] = "retry-review" => worker[t].review # NoRun
       /\ call' = [does |-> d[1], task |-> t, to |-> d[3], seen |-> worker[t]]
  /\ UNCHANGED <<vars, used, raced>>

-----------------------------------------------------------------------------
(* The writes.                                                             *)

\* The worker status as read: what it did not have, the patch does not name.
Spread(w) ==
  [f \in {"retry", "ai"} \cup {g \in {"run", "review", "merge"} : w[g] # NoRun}
                         \cup {g \in {"mergeError", "merged", "abandoned", "longFail"} : w[g]} |-> w[f]]

\* It has never run.  (To the board a status that names a failure is a retry
\* too, though without a run and with counts of zero: set_task_state can leave one.)
NoWorker(w) == w = [NewWorker EXCEPT !.longFail = w.longFail]

\* The counters as they were.
Again_SameAttempt(w) == w
Again(w) == [w EXCEPT !.retry = @ + 1]

\* The name of the run is taken out.
Unlaunched(w) ==
  LET patch == Spread(w) IN
  [f \in DOMAIN patch \cup {"run"} |-> IF f = "run" THEN NoRun ELSE patch[f]]

\* The patches of the worker status.  A drag to the ideas names none of it, and
\* nor does a retry that asks for a review.
Moved(c) ==
  IF c.to = "pending" /\ ~NoWorker(c.seen) THEN Spread(Again(c.seen)) ELSE NoPatch

Retried(c) ==
  IF c.to = "pending" /\ ~NoWorker(c.seen) THEN Spread(Again(c.seen)) ELSE NoPatch

ReviewRetried(c) == Spread([c.seen EXCEPT !.ai = @ + 1])

\* force_retry counts the reviews anew.
ForceRetried(c) ==
  LET w == [Again(c.seen) EXCEPT !.ai = 0] IN
  IF c.to = "running"
  THEN [run |-> WorkerRun(c.task, w), retry |-> w.retry, ai |-> 0]
  ELSE Unlaunched(Again(c.seen))

StateSet(c) ==
  IF c.to \in {"scheduled", "running", "done", "pending", "rework-requested", "failed"}
  THEN Unlaunched(c.seen) ELSE NoPatch

Written(c) ==
  CASE c.does = "move" -> Moved(c)
    [] c.does = "retry" -> Retried(c)
    [] c.does = "retry-review" -> ReviewRetried(c)
    [] c.does = "force_retry" -> ForceRetried(c)
    [] c.does = "set_task_state" -> StateSet(c)
    [] OTHER -> NoPatch

\* Unconditional.  A clearing in flight conflicts with it.
Writes ==
  /\ call # NoCall /\ ~Calling("create")
  /\ LET t == call.task
         patch == Written(call) IN
     /\ phase' = [phase EXCEPT ![t] = call.to]
     /\ worker' = [worker EXCEPT ![t] = Merge(@, patch)]
     /\ pass' = IF InStage("clear") /\ pass.task = t THEN NoPass ELSE pass
     /\ used' = IF call.does \in Restarts /\ call.to \in {"pending", "running"}
                THEN [used EXCEPT ![t] = @ \cup ({worker[t].run} \ {NoRun})] ELSE used
     /\ raced' = IF worker[t] # call.seen THEN raced \cup {t} ELSE raced
     /\ call' = IF Calling("force_retry") /\ call.to = "running"
                THEN [call EXCEPT !.does = "create", !.seen = worker'[t]] ELSE NoCall
  /\ UNCHANGED <<notes, backoff, runs, cycle, history, calls>>

\* force_retry creates the run it has put on record.  One of the name that
\* has failed is deleted, and created again unless that fails.
Creates ==
  /\ Calling("create") /\ call' = NoCall
  /\ LET x == call.seen.run
         failed == x \in DOMAIN runs /\ runs[x].phase = "Failed" IN
     \/ runs' = IF x \in DOMAIN runs /\ ~failed THEN runs ELSE With(x)
     \/ failed /\ runs' = Without(x)
  /\ UNCHANGED <<task, cycle, pass, history, calls, used, raced>>

\* The creation fails: the task goes to the backlog.
CreateFails ==
  /\ Calling("create") /\ call' = NoCall
  /\ phase' = [phase EXCEPT ![call.task] = "pending"]
  /\ pass' = IF InStage("clear") /\ pass.task = call.task THEN NoPass ELSE pass
  /\ UNCHANGED <<worker, notes, backoff, runs, cycle, history, calls, used, raced>>

\* set_task_state deletes the runs of the task first, if told to: those that
\* are over or have no phase yet, or all of them; it may fail half-way.
Deletes ==
  /\ Calling("set_task_state")
  /\ \E gone \in SUBSET {x \in DOMAIN runs : x.task = call.task} :
       runs' = [x \in DOMAIN runs \ gone |-> runs[x]]
  /\ UNCHANGED <<task, cycle, pass, history, admin>>

\* A read, a deletion, a check of the model or the write fails.
Fails ==
  /\ call # NoCall /\ call' = NoCall
  /\ UNCHANGED <<vars, calls, used, raced>>

Admin == (\E t \in Tasks : Reads(t)) \/ Writes \/ Creates \/ CreateFails \/ Deletes \/ Fails

AdminInit ==
  /\ Init
  /\ call = NoCall /\ calls = 0
  /\ used = [t \in Tasks |-> {}] /\ raced = {}

\* An idea that has run is put back by a direct write of the board.
Reconciles ==
  /\ Next /\ \A t \in Tasks : Promote(t) => NoWorker(worker[t])
  /\ UNCHANGED admin

AdminNext == Admin \/ Reconciles

AdminSpec == AdminInit /\ [][AdminNext]_allvars

\* The decision carried out is about another phase than the task is in.
Refused ==
  /\ pass # NoPass /\ pass.stage # "clear" /\ phase[pass.task] # pass.from
  /\ Abort

\* The reconciler keeps the fairness it has in BuildTask, and a call ends.
FairAdminSpec ==
  /\ AdminSpec /\ Fairness
  /\ WF_vars(Refused)
  /\ WF_allvars(Writes \/ Creates \/ CreateFails \/ Fails)

-----------------------------------------------------------------------------
(* What is left of the guarantees of the reconciler.                       *)

\* A task that a person puts back gets "a new unique run name" (board.ts): the
\* worker run it had is not taken for the one it launches, whatever the
\* reconciler was at, unless the status was written from a read older than
\* the reconciler's last write.
FreshAfterRestart ==
  [][\A t \in Tasks \ raced :
       phase[t] = "scheduled" /\ phase'[t] = "initializing"
         => worker'[t].run \notin used[t]]_allvars

\* A verdict is still about the run on record, except after such a write.
ReviewsStayCurrent ==
  \A t \in Tasks \ raced :
    phase[t] = "reviewing" /\ worker[t].review \in DOMAIN runs
      => runs[worker[t].review].about = worker[t].run

\* Work that somebody restarts or rewrites, in whatever phase they leave it,
\* comes back to a human, ends, or is put aside.  The exception is a review
\* whose run set_task_state has deleted: nobody notices (decideReviewing).
ReviewRunLost(t) == phase[t] = "reviewing" /\ Observed(worker[t].review) = "Gone"

RestartedWorkSettles ==
  \A t \in Tasks :
    phase[t] \in {"pending", "scheduled", "initializing", "running", "succeeded", "reviewing"}
      ~> phase[t] \in {"awaiting-human", "failed", "done", "idea"} \/ ReviewRunLost(t)

=============================================================================
