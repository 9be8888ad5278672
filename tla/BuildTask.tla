----------------------------- MODULE BuildTask -----------------------------
(***************************************************************************)
(* The manager's reconciler over the BUILD tasks of one project: the       *)
(* reconcile cycle (reconciler/index.ts), the decision engine              *)
(* (reconciler/decision.ts) and the effect executor                        *)
(* (reconciler/effects.ts), interleaved with the runs they launch, with    *)
(* the humans who annotate the tasks, and with the failures of the API     *)
(* server and of the manager itself.                                       *)
(*                                                                         *)
(* A cycle lists the tasks once and decides each of them from that list,   *)
(* so every decision rests on a snapshot (cycle.seen).  Carrying it out is *)
(* a pass of three writes that other writers interleave with: the effects  *)
(* (runs created or deleted), the status patch, conditional on the phase   *)
(* and on the resource version read just before it, and the clearing of    *)
(* the consumed annotations, conditional on the version of that patch.     *)
(*                                                                         *)
(* Left out: blocked tasks, the healing of a missing phase and the         *)
(* deletion of tasks; worktree cleanup and session summaries               *)
(* (fire-and-forget, nothing here reads them); the texts of feedback,      *)
(* diagnosis and error messages.                                           *)
(***************************************************************************)
EXTENDS Integers, FiniteSets, TaskPhases

CONSTANTS
  Tasks,            \* the BUILD tasks of the project
  NoTask,
  Predecessor,      \* spec.predecessorRef of each task, or NoTask
  Priority,         \* spec.priority of each task: 1 low, 2 medium, 3 high
  Ideas,            \* the tasks created as ideas; the others start pending
  MaxParallel,      \* spec.maxParallel
  AiReviewer,       \* flow.review.aiReviewerEnabled
  MaxAutoReworks,   \* flow.review.maxAutoReworks
  AutoDone,         \* flow.build.onSuccess = 'done'
  MergesOnApprove,  \* flow.build.onApprove = 'merge' and flow.merge.mode # 'disabled'
  FeatureBranching, \* spec.featureBranchingEnabled
  RetryEnabled,     \* flow.retry.enabled
  MaxAttempts,      \* flow.retry.maxAttempts
  HumanActs,        \* the annotations humans write, with the phases they write them in
  Troubles,         \* what may happen to a run: "parks", "stalls", "fails", "unread"
  Deletable,        \* the kinds of run that may be deleted, with their phases then
  Overwritable,     \* the kinds of run whose success may be overwritten
  AnswersLost,      \* whether the answer to a write may be lost
  MaxRework,        \* bound: human reworks per task
  NoRun, NoCycle, NoPass

VARIABLES
  phase,    \* phase[t]: status.phase of the Task CR
  worker,   \* worker[t]: status.worker, and status.lastFailureDuration
  notes,    \* notes[t]: its percussionist.dev/action-* annotations
  backoff,  \* the tasks whose status.retryAfter is in the future
  runs,     \* the Run CRs: a function from the names in use
  cycle,    \* the reconcile cycle in progress
  pass,     \* the decision being carried out, executeEffects
  asked,    \* history: asked[t], the requests not yet acted on or withdrawn
  landed    \* history: the worker runs whose work a merge run reported merged

ASSUME TasksAssumption ==
  /\ IsFiniteSet(Tasks) /\ NoTask \notin Tasks
  /\ Predecessor \in [Tasks -> Tasks \cup {NoTask}]
  /\ Priority \in [Tasks -> Nat]
  /\ Ideas \subseteq Tasks

ASSUME SettingsAssumption == MaxAutoReworks \in Nat /\ MaxParallel \in Nat

task == <<phase, worker, notes, backoff>>
history == <<asked, landed>>
vars == <<phase, worker, notes, backoff, runs, cycle, pass, asked, landed>>

Acts == {"approved", "changes", "abandon", "answer"}

-----------------------------------------------------------------------------
(* Runs. *)

RunKind == {"worker", "review", "merge", "remerge"}

\* A run's name is a hash of its task, its kind and the counters.
RunId == [task : Tasks, kind : RunKind, r : Nat, a : Nat]

ASSUME NoRunAssumption == NoRun \notin RunId

\* "Stale" is Running with a lastEventAt older than the flow's timeout.
RunPhase == {"Pending", "Running", "Stale", "WaitingForInput", "Succeeded", "Failed"}
Terminal == {"Succeeded", "Failed"}

\* "landed" is merged or already-merged, "retryable" is push-failed or
\* transient-failure, "conflict" is conflict, or landed with requiresHuman.
Verdict == {"none", "approve", "changes", "landed", "retryable", "conflict"}
Verdicts(kind) == CASE kind = "worker" -> {"none"}
                    [] kind = "review" -> {"none", "approve", "changes"}
                    [] OTHER -> {"none", "landed", "retryable", "conflict"}

\* about: the worker run on record when the run was created.
Run == [phase : RunPhase, verdict : Verdict, about : RunId \cup {NoRun}]

\* The name without the count of the AI reworks.
WorkerRun_RetryOnly(t, w) == [task |-> t, kind |-> "worker", r |-> w.retry, a |-> 0]
WorkerRun(t, w) == [task |-> t, kind |-> "worker", r |-> w.retry, a |-> w.ai]
\* The suffix as the sum of the counters, the collision the code's comment
\* warns of ("2+1 vs 1+2").
ReviewRun_SumOfCounters(t, w) ==
  [task |-> t, kind |-> "review", r |-> w.retry + w.ai, a |-> 0]
ReviewRun(t, w) == [task |-> t, kind |-> "review", r |-> w.retry, a |-> w.ai]
\* The suffix without the retry count.
MergeRun_OneName(t, w) == [task |-> t, kind |-> "merge", r |-> 0, a |-> 0]
MergeRun(t, w) == [task |-> t, kind |-> "merge", r |-> w.retry, a |-> 0]
RemergeRun(t, w) == [task |-> t, kind |-> "remerge", r |-> w.retry, a |-> 0]

\* getRun, a 404 being "Gone".
Observed(x) == IF x \in DOMAIN runs THEN runs[x].phase ELSE "Gone"
VerdictOf(x) == IF x \in DOMAIN runs THEN runs[x].verdict ELSE "none"

Worker == [retry : Nat, ai : Nat,
           run : RunId \cup {NoRun}, review : RunId \cup {NoRun},
           merge : RunId \cup {NoRun}, mergeError : BOOLEAN,
           merged : BOOLEAN, abandoned : BOOLEAN, longFail : BOOLEAN]

NewWorker == [retry |-> 0, ai |-> 0, run |-> NoRun, review |-> NoRun,
              merge |-> NoRun, mergeError |-> FALSE,
              merged |-> FALSE, abandoned |-> FALSE, longFail |-> FALSE]

\* A JSON merge patch: the fields it names are replaced.
Merge(current, patch) ==
  [f \in DOMAIN current |-> IF f \in DOMAIN patch THEN patch[f] ELSE current[f]]

Init ==
  /\ phase = [t \in Tasks |-> IF t \in Ideas THEN "idea" ELSE "pending"]
  /\ worker = [t \in Tasks |-> NewWorker]
  /\ notes = [t \in Tasks |-> {}]
  /\ backoff = {}
  /\ runs = [x \in {} |-> NoRun]
  /\ cycle = NoCycle
  /\ pass = NoPass
  /\ asked = [t \in Tasks |-> {}]
  /\ landed = {}

-----------------------------------------------------------------------------
(* The reconcile cycle. *)

ActiveTasks == {t \in Tasks : phase[t] \in ACTIVE_PHASES}

\* What deciding the tasks S takes from the list.
Needed(S) == S \cup ({Predecessor[t] : t \in S} \ {NoTask})

StartCycle ==
  /\ cycle = NoCycle
  /\ LET S == {t \in Tasks : phase[t] \notin {"idea", "done"}} IN
     cycle' = [todo |-> S, active |-> Cardinality(ActiveTasks),
               seen |-> [t \in Needed(S) |-> [phase |-> phase[t], worker |-> worker[t],
                                              notes |-> notes[t]]]]
  /\ UNCHANGED <<task, runs, pass, history>>

EndCycle ==
  /\ cycle # NoCycle /\ cycle.todo = {} /\ pass = NoPass
  /\ cycle' = NoCycle
  /\ UNCHANGED <<task, runs, pass, history>>

\* The loop moves on; the rest of the list is forgotten with its last reader.
Past(t) ==
  LET S == cycle.todo \ {t} IN
  [todo |-> S, active |-> cycle.active, seen |-> [u \in Needed(S) |-> cycle.seen[u]]]

Seen(t) == cycle.seen[t]
Full_OneMore == cycle.active > MaxParallel
Full == cycle.active >= MaxParallel

-----------------------------------------------------------------------------
(* The decision engine: one operator per phase.  A decision is the pass it *)
(* starts; where no operator is enabled the task stays as it is.           *)

NoPatch == [f \in {} |-> NoRun]

Move(t, to) ==
  [task |-> t, stage |-> "effects", from |-> Seen(t).phase, to |-> to,
   patch |-> NoPatch, create |-> NoRun, discard |-> NoRun, clear |-> {}]

In(t, p) == Seen(t).phase = p

\* childMergeExpected and childSatisfiesGate
MergeExpected == FeatureBranching /\ MergesOnApprove /\ ~AutoDone
SatisfiesGate_OnceApproved(s) == s.phase \in {"awaiting-merge", "done"}
SatisfiesGate(s) ==
  s.phase = "done" /\ (s.worker.merged \/ s.worker.abandoned \/ ~MergeExpected)

DecidePending(t) ==
  /\ In(t, "pending") /\ ~Full
  /\ Predecessor[t] # NoTask => SatisfiesGate(Seen(Predecessor[t]))
  /\ t \notin backoff
  /\ pass' = Move(t, "scheduled")

DecideScheduled(t) ==
  LET w == Seen(t).worker IN
  /\ In(t, "scheduled")
  /\ pass' = [Move(t, "initializing") EXCEPT
                !.patch = [run |-> WorkerRun(t, w), retry |-> w.retry, ai |-> w.ai],
                !.create = WorkerRun(t, w)]

\* The run failed: how long it lasted decides whether a retry may follow.
WorkerFailed(t) ==
  /\ Observed(Seen(t).worker.run) = "Failed"
  /\ \E long \in BOOLEAN :
       pass' = [Move(t, "failed") EXCEPT !.patch = [longFail |-> long]]

\* Without the exit for a run that is over before it was seen running.
DecideInitializing_NoShortcut(t) ==
  LET run == Observed(Seen(t).worker.run) IN
  /\ In(t, "initializing")
  /\ \/ run = "Gone" /\ pass' = Move(t, "failed")
     \/ run \in {"Running", "Stale", "WaitingForInput"} /\ pass' = Move(t, "running")
     \/ WorkerFailed(t)

DecideInitializing(t) ==
  LET run == Observed(Seen(t).worker.run) IN
  /\ In(t, "initializing")
  /\ \/ run = "Gone" /\ pass' = Move(t, "failed")
     \/ run \in {"Running", "Stale", "WaitingForInput"} /\ pass' = Move(t, "running")
     \/ WorkerFailed(t)
     \/ run = "Succeeded" /\ pass' = Move(t, "succeeded")

\* A run that is not there is waited for, as decideReviewing does.
DecideRunning_Waits(t) ==
  LET run == Observed(Seen(t).worker.run) IN
  /\ In(t, "running")
  /\ \/ run = "Stale" /\ pass' = Move(t, "failed")
     \/ run = "Succeeded" /\ pass' = Move(t, "succeeded")
     \/ WorkerFailed(t)
     \/ run = "WaitingForInput" /\ pass' = Move(t, "waiting-for-input")

\* A stale run is given up; it is not deleted.
DecideRunning(t) ==
  LET run == Observed(Seen(t).worker.run) IN
  /\ In(t, "running")
  /\ \/ run \in {"Gone", "Stale"} /\ pass' = Move(t, "failed")
     \/ run = "Succeeded" /\ pass' = Move(t, "succeeded")
     \/ WorkerFailed(t)
     \/ run = "WaitingForInput" /\ pass' = Move(t, "waiting-for-input")

\* Every annotation seen is consumed, whichever of them decides.
Consuming(t, move) == [move EXCEPT !.clear = Seen(t).notes]

\* An answer also given wins.
Abandoned_Unless(said) == "abandon" \in said /\ "answer" \notin said
Abandoned(said) == "abandon" \in said

AbandonTask(t) == Consuming(t, [Move(t, "done") EXCEPT !.patch = [abandoned |-> TRUE]])

\* The counter of the attempts left.
ReworkTask_CountsDown(t) ==
  Consuming(t, [Move(t, "rework-requested") EXCEPT
                  !.patch = [retry |-> Seen(t).worker.retry - 1, ai |-> 0]])
ReworkTask(t) ==
  Consuming(t, [Move(t, "rework-requested") EXCEPT
                  !.patch = [retry |-> Seen(t).worker.retry + 1, ai |-> 0]])

ParkedRunDied_NotIfGone(run) == run = "Failed"
ParkedRunDied(run) == run \in {"Gone", "Failed"}

\* An answer to a run still waiting is delivered and kept.
DecideWaitingForInput(t) ==
  LET run == Observed(Seen(t).worker.run)
      said == Seen(t).notes
      alive == run \notin {"Gone", "Failed", "Succeeded"} IN
  /\ In(t, "waiting-for-input")
  /\ \/ ParkedRunDied(run) /\ pass' = Move(t, "failed")
     \/ run = "Succeeded" /\ pass' = Move(t, "succeeded")
     \/ alive /\ Abandoned(said) /\ pass' = AbandonTask(t)
     \/ /\ alive /\ ~Abandoned(said) /\ "changes" \in said
        /\ Seen(t).worker.retry < MaxRework
        /\ pass' = ReworkTask(t)
     \/ /\ ~Abandoned(said) /\ "changes" \notin said /\ "answer" \in said
        /\ run \in {"Running", "Stale"}
        /\ pass' = [Move(t, "running") EXCEPT !.clear = {"answer"}]

DecideSucceeded(t) ==
  LET w == Seen(t).worker
      review == ReviewRun(t, w) IN
  /\ In(t, "succeeded")
  /\ \/ AutoDone /\ pass' = Move(t, "done")
     \/ /\ ~AutoDone /\ AiReviewer /\ w.run # NoRun
        /\ pass' = [Move(t, "reviewing") EXCEPT !.patch = [review |-> review],
                                                !.create = review]
     \/ /\ ~AutoDone /\ (~AiReviewer \/ w.run = NoRun)
        /\ pass' = Move(t, "awaiting-human")

CeilingReached_Late(w) == w.ai > MaxAutoReworks
CeilingReached(w) == w.ai + 1 > MaxAutoReworks

\* A review without a verdict goes to the human like a failed one.
ReviewToHuman(run, verdict) ==
  run \in {"Failed", "Stale"} \/ (run = "Succeeded" /\ verdict # "changes")

\* A reviewer whose run vanished is waited for.
DecideReviewing(t) ==
  LET w == Seen(t).worker
      run == Observed(w.review)
      changes == run = "Succeeded" /\ VerdictOf(w.review) = "changes" IN
  /\ In(t, "reviewing")
  /\ \/ /\ w.review = NoRun \/ ReviewToHuman(run, VerdictOf(w.review))
        /\ pass' = Move(t, "awaiting-human")
     \/ /\ changes /\ CeilingReached(w)
        /\ pass' = [Move(t, "awaiting-human") EXCEPT !.patch = [ai |-> w.ai + 1]]
     \/ /\ changes /\ ~CeilingReached(w)
        /\ pass' = [Move(t, "rework-requested") EXCEPT !.patch = [ai |-> w.ai + 1]]

DecideAwaitingHuman(t) ==
  LET w == Seen(t).worker
      said == Seen(t).notes
      approved == "approved" \in said /\ ~Abandoned(said) /\ "changes" \notin said IN
  /\ In(t, "awaiting-human")
  /\ \/ Abandoned(said) /\ pass' = AbandonTask(t)
     \/ /\ ~Abandoned(said) /\ "changes" \in said
        /\ w.retry < MaxRework
        /\ pass' = ReworkTask(t)
     \/ approved /\ ~MergesOnApprove /\ pass' = Consuming(t, Move(t, "done"))
     \/ /\ approved /\ MergesOnApprove /\ ~Full
        /\ pass' = Consuming(t, [Move(t, "awaiting-merge") EXCEPT
                                   !.patch = [merge |-> MergeRun(t, w)],
                                   !.create = MergeRun(t, w)])

\* A merge run that ends without a verdict is believed.
MergeLanded_Trusting(verdict) == verdict \in {"landed", "none"}
MergeLanded(verdict) == verdict = "landed"

\* Without a merge run on record one is scheduled and the task stays.
DecideAwaitingMerge(t) ==
  LET w == Seen(t).worker
      run == Observed(w.merge)
      verdict == VerdictOf(w.merge)
      failure == [Move(t, "failed") EXCEPT !.patch = [mergeError |-> TRUE]] IN
  /\ In(t, "awaiting-merge")
  /\ \/ /\ w.merge = NoRun
        /\ pass' = [Move(t, "awaiting-merge") EXCEPT
                      !.patch = [merge |-> RemergeRun(t, w)], !.create = RemergeRun(t, w)]
     \/ w.merge # NoRun /\ run \in {"Gone", "Failed"} /\ pass' = failure
     \/ run = "Stale" /\ pass' = [failure EXCEPT !.discard = w.merge]
     \/ /\ run = "Succeeded" /\ MergeLanded(verdict)
        /\ pass' = [Move(t, "done") EXCEPT !.patch = [merged |-> TRUE]]
     \/ run = "Succeeded" /\ verdict = "retryable" /\ pass' = failure
     \/ /\ run = "Succeeded" /\ verdict \in {"conflict", "none"}
        /\ pass' = [Move(t, "awaiting-human") EXCEPT !.patch = [mergeError |-> TRUE]]

\* An automatic retry: the next attempt, after a backoff.
RetryTask_SameAttempt(t) == Move(t, "pending")
RetryTask(t) ==
  [Move(t, "pending") EXCEPT !.patch = [retry |-> Seen(t).worker.retry + 1]]

DecideReworkRequested(t) ==
  In(t, "rework-requested") /\ ~Full /\ pass' = Move(t, "scheduled")

DecideFailed(t) ==
  LET w == Seen(t).worker
      approved == "approved" \in Seen(t).notes
      mergeFailed == w.mergeError \/ w.merge # NoRun IN
  /\ In(t, "failed")
  /\ \/ /\ approved /\ mergeFailed /\ ~Full
        /\ pass' = Consuming(t, [Move(t, "awaiting-merge") EXCEPT
                                   !.patch = [merge |-> NoRun, mergeError |-> FALSE]])
     \/ approved /\ ~mergeFailed /\ pass' = Consuming(t, Move(t, "awaiting-human"))
     \/ /\ ~approved /\ RetryEnabled /\ w.longFail /\ w.retry < MaxAttempts - 1
        /\ pass' = RetryTask(t)

Decide(t) ==
  \/ DecidePending(t) \/ DecideScheduled(t) \/ DecideInitializing(t)
  \/ DecideRunning(t) \/ DecideWaitingForInput(t) \/ DecideSucceeded(t)
  \/ DecideReviewing(t) \/ DecideAwaitingHuman(t) \/ DecideAwaitingMerge(t)
  \/ DecideReworkRequested(t) \/ DecideFailed(t)

\* byPriority, in any order where priorities are equal.
Turn(t) ==
  /\ cycle # NoCycle /\ pass = NoPass /\ t \in cycle.todo
  /\ \A u \in cycle.todo : Priority[u] <= Priority[t]

Visit(t) ==
  /\ Turn(t)
  /\ cycle' = Past(t)
  /\ Decide(t)
  /\ UNCHANGED <<task, runs, history>>

\* No decision, or reading the task's runs failed and the loop went on.
PassOver(t) ==
  /\ Turn(t)
  /\ cycle' = Past(t)
  /\ UNCHANGED <<task, runs, pass, history>>

-----------------------------------------------------------------------------
(* The effect executor. *)

InStage(s) == pass # NoPass /\ pass.stage = s

\* The guards of a transition, against a fresh read of the task.
StillValid ==
  /\ phase[pass.task] = pass.from
  /\ pass.to # pass.from => IsValidTransition(pass.from, pass.to)

\* A taken name is adopted, except that a terminal merge run is replaced.
Replaceable(x) == x.kind \in {"merge", "remerge"} /\ runs[x].phase \in Terminal

With(x) ==
  [y \in DOMAIN runs \cup {x} |->
     IF y = x
     THEN [phase |-> "Pending", verdict |-> "none", about |-> worker[x.task].run]
     ELSE runs[y]]

Without(x) == [y \in DOMAIN runs \ {x} |-> runs[y]]

\* The read of a taken name fails: what is there is adopted, whatever it is.
Unread == {x \in DOMAIN runs : "unread" \in Troubles /\ x.kind \in {"merge", "remerge"}}

\* The annotations consumed with the other effects, before the status write.
RunEffects_ClearsFirst ==
  /\ InStage("effects") /\ StillValid
  /\ runs' = IF pass.create # NoRun /\ (pass.create \in DOMAIN runs => Replaceable(pass.create))
             THEN With(pass.create) ELSE Without(pass.discard)
  /\ notes' = [notes EXCEPT ![pass.task] = @ \ pass.clear]
  /\ pass' = [pass EXCEPT !.stage = "patch"]
  /\ UNCHANGED <<phase, worker, backoff, cycle, history>>

RunEffects ==
  /\ InStage("effects") /\ StillValid
  /\ LET x == pass.create IN
     \/ runs' = IF x # NoRun /\ (x \in DOMAIN runs => Replaceable(x))
                THEN With(x)
                ELSE Without(pass.discard)
     \/ x \in Unread /\ UNCHANGED runs
  /\ pass' = [pass EXCEPT !.stage = "patch"]
  /\ UNCHANGED <<task, cycle, history>>

\* createRun fails after the leftover of its name was deleted.
FailReplacing ==
  /\ InStage("effects") /\ StillValid
  /\ pass.create \in DOMAIN runs /\ Replaceable(pass.create)
  /\ runs' = Without(pass.create)
  /\ pass' = NoPass
  /\ UNCHANGED <<task, cycle, history>>

\* How the status write changes the cycle's count of active tasks.
Adjusted(active) ==
  CASE pass.from \in ACTIVE_PHASES /\ pass.to \notin ACTIVE_PHASES -> active - 1
    [] pass.from \notin ACTIVE_PHASES /\ pass.to \in ACTIVE_PHASES -> active + 1
    [] OTHER -> active

\* The re-read and the conditional write are one step: a write between them
\* makes the second conflict, which is Abort.  Every retry sets retryAfter.
WriteStatus ==
  /\ InStage("patch") /\ phase[pass.task] = pass.from
  /\ phase' = [phase EXCEPT ![pass.task] = pass.to]
  /\ worker' = [worker EXCEPT ![pass.task] = Merge(@, pass.patch)]
  /\ backoff' = IF pass.to = "pending" THEN backoff \cup {pass.task} ELSE backoff
  /\ asked' = [asked EXCEPT ![pass.task] = @ \ pass.clear]
  /\ UNCHANGED <<notes, runs, landed>>

PatchStatus ==
  /\ WriteStatus
  /\ cycle' = [cycle EXCEPT !.active = Adjusted(@)]
  /\ pass' = IF pass.clear = {} THEN NoPass ELSE [pass EXCEPT !.stage = "clear"]

\* The write lands and its answer is lost: the error is caught, the
\* annotations stay and the count of active tasks is not adjusted.
PatchUnanswered ==
  /\ AnswersLost
  /\ WriteStatus
  /\ pass' = NoPass
  /\ UNCHANGED cycle

ClearTaskAnnotations ==
  /\ InStage("clear")
  /\ notes' = [notes EXCEPT ![pass.task] = @ \ pass.clear]
  /\ pass' = NoPass
  /\ UNCHANGED <<phase, worker, backoff, runs, cycle, history>>

\* A guard, an effect, the status write or the clearing fails: what was done
\* stays done and the cycle goes on with the next task.
Abort ==
  /\ pass # NoPass /\ pass' = NoPass
  /\ UNCHANGED <<task, runs, cycle, history>>

ManagerCrash ==
  /\ cycle # NoCycle
  /\ cycle' = NoCycle /\ pass' = NoPass
  /\ UNCHANGED <<task, runs, history>>

Manager ==
  \/ StartCycle \/ EndCycle
  \/ \E t \in Tasks : Visit(t) \/ PassOver(t)
  \/ RunEffects \/ FailReplacing
  \/ PatchStatus \/ PatchUnanswered \/ ClearTaskAnnotations
  \/ Abort \/ ManagerCrash

-----------------------------------------------------------------------------
(* Humans, on the board. *)

\* A write to the task makes a clearing in flight conflict, and nothing
\* repeats it.
Annotate(t, new) ==
  /\ new # notes[t]
  /\ notes' = [notes EXCEPT ![t] = new]
  /\ asked' = [asked EXCEPT ![t] = (@ \cap new) \cup (new \ notes[t])]
  /\ pass' = IF InStage("clear") /\ pass.task = t THEN NoPass ELSE pass
  /\ UNCHANGED <<phase, worker, backoff, runs, cycle, landed>>

May(t, act) == <<phase[t], act>> \in HumanActs

\* The routes check no phase.  An approval withdraws a request for changes.
Approve(t) == May(t, "approved") /\ Annotate(t, (notes[t] \ {"changes"}) \cup {"approved"})
RequestChanges(t) == May(t, "changes") /\ Annotate(t, notes[t] \cup {"changes"})
Abandon(t) == May(t, "abandon") /\ Annotate(t, notes[t] \cup {"abandon"})
Answer(t) == May(t, "answer") /\ Annotate(t, notes[t] \cup {"answer"})

\* Dragging an idea that never ran to the backlog.
Promote(t) ==
  /\ phase[t] = "idea"
  /\ phase' = [phase EXCEPT ![t] = "pending"]
  /\ UNCHANGED <<worker, notes, backoff, runs, cycle, pass, history>>

Human(t) == Approve(t) \/ RequestChanges(t) \/ Abandon(t) \/ Answer(t) \/ Promote(t)

-----------------------------------------------------------------------------
(* The runs, driven by the operator, their dispatchers and their agents. *)

RunTurns(x, from, to, verdict) ==
  /\ runs[x].phase \in from
  /\ runs' = [runs EXCEPT ![x].phase = to, ![x].verdict = verdict]
  /\ landed' = IF verdict = "landed" THEN landed \cup {runs[x].about} ELSE landed
  /\ UNCHANGED <<task, cycle, pass, asked>>

RunStarts(x) == RunTurns(x, {"Pending"}, "Running", "none")
RunParks(x) == "parks" \in Troubles /\ RunTurns(x, {"Running"}, "WaitingForInput", "none")
RunResumes(x) == RunTurns(x, {"WaitingForInput", "Stale"}, "Running", "none")
RunStalls(x) == "stalls" \in Troubles /\ RunTurns(x, {"Running"}, "Stale", "none")
RunSucceeds(x) ==
  \E v \in Verdicts(x.kind) : RunTurns(x, {"Running", "Stale"}, "Succeeded", v)
RunFails(x) == "fails" \in Troubles /\ RunTurns(x, RunPhase \ Terminal, "Failed", "none")

\* The operator, reconciling from an older read, reports the pod's failure
\* over the success its dispatcher has written.
RunOverwritten(x) ==
  x.kind \in Overwritable /\ RunTurns(x, {"Succeeded"}, "Failed", runs[x].verdict)

\* By hand, or by the operator's TTL once the run is terminal.
RunDeleted(x) ==
  /\ <<x.kind, runs[x].phase>> \in Deletable
  /\ runs' = Without(x)
  /\ UNCHANGED <<task, cycle, pass, history>>

RunSteps(x) ==
  \/ RunStarts(x) \/ RunParks(x) \/ RunResumes(x) \/ RunStalls(x)
  \/ RunSucceeds(x) \/ RunFails(x) \/ RunOverwritten(x) \/ RunDeleted(x)

BackoffElapses(t) ==
  /\ t \in backoff
  /\ backoff' = backoff \ {t}
  /\ UNCHANGED <<phase, worker, notes, runs, cycle, pass, history>>

Environment ==
  \/ \E t \in Tasks : Human(t) \/ BackoffElapses(t)
  \/ \E x \in DOMAIN runs : RunSteps(x)

Next == Manager \/ Environment

Spec == Init /\ [][Next]_vars

-----------------------------------------------------------------------------
(* What the reconciler guarantees. *)

NameOrNone == RunId \cup {NoRun}

Snapshot == [phase : TaskPhase, worker : Worker, notes : SUBSET Acts]
Cycle(S) == [todo : {S}, active : Int, seen : [Needed(S) -> Snapshot]]
ASSUME NoCycleAssumption == \A S \in SUBSET Tasks : NoCycle \notin Cycle(S)

\* A patch names fields of the worker status and gives them their types.
PatchOK(patch) ==
  DOMAIN patch \subseteq DOMAIN NewWorker /\ Merge(NewWorker, patch) \in Worker

Pass(patch) == [task : Tasks, stage : {"effects", "patch", "clear"},
                from : TaskPhase, to : TaskPhase, patch : {patch},
                create : NameOrNone, discard : NameOrNone, clear : SUBSET Acts]

\* Types.
TypeOK ==
  /\ phase \in [Tasks -> TaskPhase]
  /\ worker \in [Tasks -> Worker]
  /\ notes \in [Tasks -> SUBSET Acts]
  /\ backoff \in SUBSET Tasks
  /\ DOMAIN runs \subseteq RunId
  /\ \A x \in DOMAIN runs : runs[x] \in Run
  /\ cycle = NoCycle \/ \E S \in SUBSET Tasks : cycle \in Cycle(S)
  /\ pass # NoPass => pass \in Pass(pass.patch) /\ PatchOK(pass.patch)
  /\ asked \in [Tasks -> SUBSET Acts]
  /\ landed \subseteq NameOrNone

\* The verdict a reviewing task waits for is on the run it last launched,
\* never the verdict of an earlier attempt adopted with its name.
ReviewIsOfCurrentWork ==
  \A t \in Tasks :
    phase[t] = "reviewing" /\ worker[t].review \in DOMAIN runs
      => runs[worker[t].review].about = worker[t].run

\* So is the merge a task waits for, though merge names are reused.
MergeIsOfCurrentWork ==
  \A t \in Tasks :
    phase[t] = "awaiting-merge" /\ worker[t].merge \in DOMAIN runs
      => runs[worker[t].merge].about = worker[t].run

\* Where approved work is merged, a task is done only if it was abandoned or
\* a merge run reported that the work of its last run has landed.
DoneMeansLanded ==
  \A t \in Tasks :
    phase[t] = "done" /\ MergesOnApprove /\ ~AutoDone
      => worker[t].abandoned \/ worker[t].run \in landed

\* A task works on top of its predecessor's merged work.
StartsOnLandedWork ==
  \A t \in Tasks :
    /\ Predecessor[t] # NoTask /\ MergeExpected
    /\ phase[t] \notin {"idea", "pending"}
    => LET p == worker[Predecessor[t]] IN p.abandoned \/ p.run \in landed

\* No worker run is launched for more than maxAutoReworks reviews in a row,
\* unless approved work is merged and failures are retried: the retry of a
\* failed merge launches the worker that was escalated to a human.
ReworksWithinCeiling ==
  \/ MergesOnApprove /\ RetryEnabled
  \/ \A x \in DOMAIN runs : x.kind = "worker" => x.a <= MaxAutoReworks

\* The active tasks stay within maxParallel.
ActiveWithinLimit == Cardinality(ActiveTasks) <= MaxParallel

\* A request that no status write has acted on is still on the task: "a
\* failed/conflicted status write never deletes a human's intent" (effects.ts).
RequestsKept == \A t \in Tasks : asked[t] \subseteq notes[t]

\* The task moves as the board promises: along the transition table, with a
\* larger attempt whenever it starts over, and launching a worker run only
\* under a name no earlier attempt of it has used.
AttemptOf(w) == <<w.retry, w.ai>>
LaunchedOf(w) == IF w.run = NoRun THEN <<-1, 0>> ELSE <<w.run.r, w.run.a>>

Lifecycle == INSTANCE TaskLifecycle WITH
  attempt <- [t \in Tasks |-> AttemptOf(worker[t])],
  launched <- [t \in Tasks |-> LaunchedOf(worker[t])]
FollowsLifecycle == Lifecycle!Spec

(* Why it does: the inductive invariant. *)

\* The list of the cycle still describes the tasks it has yet to decide.
ListCurrent ==
  cycle # NoCycle =>
    \A t \in cycle.todo : /\ phase[t] # "idea"
                          /\ Seen(t).phase = phase[t] /\ Seen(t).worker = worker[t]

\* What the status write of the pass p does to the counters and the launched
\* run of the status w.
Prescribes(p, w) ==
  LET m == Merge(w, p.patch) IN
  /\ IF p.to = "initializing"
     THEN LaunchedOf(m) = AttemptOf(w)
     ELSE LaunchedOf(m) = LaunchedOf(w)
  /\ AttemptOf(m) # AttemptOf(w) =>
       /\ Lifecycle!Before(AttemptOf(w), AttemptOf(m))
       /\ \/ p.to \in {"pending", "rework-requested"}
          \/ p.from = "reviewing" /\ p.to = "awaiting-human"
  /\ p.to \in {"pending", "rework-requested"} => AttemptOf(m) # AttemptOf(w)
  /\ p.to \in {"initializing", "pending", "rework-requested"} => p.from # p.to

\* The decision being carried out is about the task as it still is.
PassCurrent ==
  pass # NoPass =>
    /\ cycle # NoCycle /\ pass.task \notin cycle.todo
    /\ pass.stage # "clear" =>
         /\ phase[pass.task] = pass.from /\ pass.from # "idea"
         /\ Prescribes(pass, worker[pass.task])
    /\ pass.stage = "patch" /\ pass.to # pass.from => IsValidTransition(pass.from, pass.to)

\* A task about to be worked on has not used its attempt yet.
AttemptUnused ==
  \A t \in Tasks :
    phase[t] \in {"idea", "pending", "rework-requested", "scheduled"}
      => Lifecycle!Before(LaunchedOf(worker[t]), AttemptOf(worker[t]))

\* No task has launched a run of an attempt it has not come to.
LaunchedWithinAttempts ==
  \A t \in Tasks : ~Lifecycle!Before(AttemptOf(worker[t]), LaunchedOf(worker[t]))

\* A decision carried out is a decision about the task as it is, and every
\* launch is of an attempt not launched before.
DecisionsCurrent ==
  ListCurrent /\ PassCurrent /\ AttemptUnused /\ LaunchedWithinAttempts

-----------------------------------------------------------------------------
(* What eventually happens.  Cycles keep starting (a resync timer) and go   *)
(* on to their end; an error or a crash does not hit every attempt at the   *)
(* same write; a pod starts, and activeDeadlineSeconds ends its run.        *)

PassOf(t) == pass # NoPass /\ pass.task = t
Visited(t) == Visit(t) \/ (PassOver(t) /\ ~ENABLED Decide(t))
Ends(x) == RunSucceeds(x) \/ RunFails(x)

Fairness ==
  /\ WF_vars(StartCycle) /\ WF_vars(EndCycle)
  /\ \A t \in Tasks :
       /\ SF_vars(Visited(t))
       /\ SF_vars(PassOf(t) /\ RunEffects) /\ SF_vars(PassOf(t) /\ PatchStatus)
       /\ SF_vars(PassOf(t) /\ ClearTaskAnnotations)
       /\ WF_vars(BackoffElapses(t))
       /\ WF_vars(\E x \in DOMAIN runs : x.task = t /\ RunStarts(x))
       /\ WF_vars(\E x \in DOMAIN runs : x.task = t /\ Ends(x))

FairSpec == Spec /\ Fairness

\* "A parked task must never be stranded forever" (decision.ts): once its run
\* has terminated or disappeared, the task leaves waiting-for-input.
ParkedNeverStranded ==
  \A t \in Tasks :
    phase[t] = "waiting-for-input" /\ Observed(worker[t].run) \in Terminal \cup {"Gone"}
      ~> phase[t] # "waiting-for-input"

\* An abandonment comes to an end of the task, whatever else the human asked
\* for while a decision taken before it is carried out.
AbandonHonoured ==
  \A t \in Tasks :
    "abandon" \in asked[t] /\ phase[t] \in {"awaiting-human", "waiting-for-input"}
      ~> phase[t] \in {"done", "failed"}

\* A task approved for merging leaves awaiting-human.
ApprovalHonoured ==
  \A t \in Tasks :
    "approved" \in asked[t] /\ phase[t] = "awaiting-human"
      ~> phase[t] # "awaiting-human"

\* Scheduled work comes back to a human, is done, or has failed.
WorkSettles ==
  \A t \in Tasks :
    phase[t] = "scheduled" ~> phase[t] \in {"awaiting-human", "failed", "done"}

\* No task waits forever for a slot: every pending task is scheduled.
EveryTaskStarts == \A t \in Tasks : phase[t] = "pending" ~> phase[t] # "pending"

-----------------------------------------------------------------------------
(* What documents and comments say of the program and the code does not do. *)

\* "Merge failure" and "Other failure - escalate to human" (decision.ts): a
\* failed worker is not answered with a merge.  The name of an earlier merge
\* run still on record says that it was the merge that failed.
MergesOnlyFinishedWork ==
  [][\A t \in Tasks : phase[t] # "awaiting-merge" /\ phase'[t] = "awaiting-merge"
       => Observed(worker[t].run) # "Failed"]_vars

=============================================================================
