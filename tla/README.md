# Percussionist in TLA+

Percussionist runs coding agents on Kubernetes. A human writes tasks on a
board; a manager moves every task through its phases, launching runs (pods with
an agent) to do the work, to review it and to merge it; an operator gives every
run its pod and a dispatcher in the pod reports how the agent fares. These
modules model the part of it that decides, and the protocols around it: the
reconciler of the manager over BUILD and PLAN tasks, what wakes it up, the people
and tools that write past it, the life of a run between operator and dispatcher,
and the findings that agents report and the manager triages.

Paths below are relative to the repository root, `src/` here.

## 1. The system

### 1.1 Components

| Component | Code | State it keeps | Operations |
| --- | --- | --- | --- |
| task lifecycle | `packages/api/src/index.ts` | `status.phase` and `status.worker` of a Task | the transition table, `isValidTransition` |
| reconcile cycle | `manager-controller/src/reconciler/index.ts`, `scheduler.ts` | none between cycles; in a cycle, the list of tasks and the count of active ones | `reconcileProject` |
| decision engine, BUILD | `reconciler/decision.ts`, `observations.ts`, `child-completion.ts` | none: it is a function of a snapshot | one `decide*` per phase |
| decision engine, PLAN | `reconciler/decision.ts`, `github-client.ts` | the PLAN fields of `status.worker`; pull requests | build generation, waiting for children, feature merge, pull-request follow-up |
| effect executor | `reconciler/effects.ts`, `worker-builder.ts` | none; it writes Runs and Tasks | guards, create, delete, status write, clearing of annotations |
| human actions | `web/src/server/routes/board.ts`, `cli/src/board.ts` | annotations of a Task | approve, request changes, abandon, answer; move, retry, retry-review |
| operator | `operator/src/reconciler.ts`, `index.ts`, `ttl.ts` | `status` of a Run, its Pod and Service, a work queue | reconcile a Run, clean up its pod and worktree, TTL |
| dispatcher | `dispatcher/src/polling.ts`, `session.ts`, `mcp-server.ts`, `index.ts` | session, pending input, heartbeat, verdict annotations | poll loop, terminal status write, tool calls |
| manager watch loop | `manager-controller/src/reconciler-bridge.ts`, `index.ts` | queue of projects, pause map | enqueue, run, requeue, resync, pause and resume |
| findings ingestion | `reconciler/findings-ingestion.ts` | ConfigMap of findings | fold the inbox, create tasks, triage |
| interactive requests | `reconciler/interactive-requests.ts` | annotations of a Task | create a run, clear the request |
| flow configuration | `reconciler/flow.ts` | the resolved settings | merge of project and defaults |
| manager agent | `manager-controller/src/agent/` | chat sessions | tools that read and write the board |
| run builders, git clean-up | `facilitator.ts`, `branch-resolver.ts`, `session-summarizer.ts`, `worktree-cleanup.ts` | none | prompts, pod settings, clean-up jobs |
| Kubernetes helpers | `kube/src/index.ts` | none | get, list, create, conditional and plain patches |
| runners, memory service, web client, command line | `runner-*`, `memory-service`, `web`, `cli` | engine sessions, memories, a mirror database | presentation and I/O |

### 1.2 How they interact

Everything is shared through the API server: Tasks, Runs and annotations.
Nobody calls the manager; it lists. The manager's cycle reads a list of tasks
once, decides each task from that list, and carries each decision out with
several writes. The board writes annotations at any time and the manager
consumes them. The operator and each dispatcher write the status of the same
Run. A conditional write (resource version, or phase just read) fails when
another writer came first, an unconditional one does not: those of the
operator, the dispatcher, the board and the tools are unconditional.

Informers turn changes into keys of two queues, one of projects in the manager
and one of Runs in the operator, each emptied by one worker. A resync puts every
project back into the first. Nothing lists Runs for the second: its resync only
repeats the keys it still knows.

### 1.3 What is hard

* A decision rests on a snapshot and is carried out later, in three steps with
  other writers between them: effects, status write, clearing of annotations.
* Any step may fail and the rest is skipped; the manager may stop between any
  two; the answer to a write that landed may be lost.
* Run names are hashes of counters. A run whose name is taken is *adopted*, so
  a counter that does not grow makes a task take an old result for a new one.
* Annotations are level-triggered requests: they are consumed by the status
  write and cleared afterwards.
* `maxParallel` is enforced with a count that the cycle adjusts as it goes.
* Runs park for input, stall, fail, vanish; a terminal phase may be overwritten.
* A Run, its pod and its worktree go by one name. A step of the operator that
  began on a Run may end on the next Run of that name, and so may a report of
  an old dispatcher.
* The last words of a dispatcher, its terminal status, are written once and not
  repeated; the operator claims the end of a Run whose dispatcher has not.
* GitHub is polled, cached, and read in three parts that may each fail.
* People write the status of a task directly, from what they read earlier.

`PROJECT.json` lists every hazard at its line, with the properties about it.

### 1.4 What makes each component correct

* Task lifecycle: only transitions of the table; a task that starts over does
  so under a new attempt; a worker run is launched once per attempt.
* Cycle and scheduler: the limit on active tasks; the count never falls below
  the truth; tasks of low priority start eventually.
* Decision engine: verdicts are about current work; done means landed;
  successors start on landed work; the ceiling on AI reworks; every phase that
  waits for something is left when that something has come to an end.
* Executor: a decision is carried out on the task it was taken about; a
  request is not lost before a status write acts on it.
* Human actions: an approval and an abandonment come to effect.
* Decision engine, PLAN: done means that the children are done and that their
  work has landed; what the pull request shows is what they have done; one
  follow-up per request; builds are generated once; GitHub is listened to.
* Direct writes: what starts over gets names no earlier attempt had; verdicts
  stay with the work they are about; nothing is left in a phase in which
  nobody would look at it.
* Operator and dispatcher: every Run ends, its work is done once, a failure on
  record stays one, and the pod of a Run that has ended goes.
* Manager watch loop: no change is missed, by the queue or in the end; a pause holds.
* Interactive requests: a request leaves the task only when it has been served.
* Findings ingestion: every report is counted once, in one record per issue,
  whatever fails; the inbox drains.

## 2. The modules

| Module | What it is |
| --- | --- |
| `TaskPhases` | phases, transition table, active phases |
| `TaskLifecycle` | the abstract specification: what the board promises about a task |
| `BuildTask` | the reconciler over the BUILD tasks of a project, with its environment |
| `MCBuildTask` | the definitions the `.cfg` files give to the constants |
| `BuildTaskProofs` | types, the currency of decisions, refinement of `TaskLifecycle`, requests, the limit |
| `BuildTaskReviewProofs` | the rounds of review: verdicts are current, the ceiling is kept |
| `BuildTaskMergeProofs` | merges: verdicts are current, done means landed, chains |
| `BoardAdmin` | extends `BuildTask` by the people and tools that write a status directly |
| `PlanTask` | the reconciler over one PLAN task, its children, its pull requests |
| `RunLifecycle` | operator and dispatcher over the Runs of one name |
| `ManagerLoop` | what makes the manager look at a project: queue, informers, resync, pause; interactive requests |
| `FindingsIngestion` | reporting, ingesting and reclassifying findings |
| `MCBoardAdmin`, `MCPlanTask`, `MCRunLifecycle`, `MCManagerLoop`, `MCFindings` | the definitions the other `.cfg` files give to the constants |
| `BoardAdminProofs` | direct writes that raise the attempt: verdicts are current, restarts are fresh |
| `PlanTaskProofs` | PLAN tasks: done means built and landed, the pull request and its comments, one follow-up per request |
| `RunLifecycleProofs` | runs: the work is done once, a failure stands |
| `ManagerLoopProofs` | the loop: wake-ups, pauses, requests |
| `FindingsIngestionProofs` | one record per issue, every report counted |

### 2.1 `TaskLifecycle`

Three variables per task: its phase, its attempt `<<retryCount,
aiReworkCount>>`, ordered lexicographically, and the attempt of the worker run
it launched last. Starting over (`StartOver`) raises the attempt. `Launch`
needs the attempt to be larger than the launched one. Everything else
(`Advance`) moves along the table and touches neither. `Escalate` is the one
odd step: a review that asks for changes once too often raises the count
although the task goes to a human.

### 2.2 `BuildTask`: state

| Variable | In the code |
| --- | --- |
| `phase`, `worker` | `status.phase`, `status.worker`: `retryCount`, `aiReworkCount`, the names of the worker, review and merge runs, whether the merge failed, has merged, or the task was abandoned; `longFail` is `status.lastFailureDuration >= poisonPillThresholdSeconds` |
| `notes` | the `percussionist.dev/action-*` annotations |
| `backoff` | `status.retryAfter` lies in the future |
| `runs` | the Runs by name, with phase, verdict annotation and, for the properties, the worker run on record when they were created |
| `cycle` | the locals of `reconcileProject`: what is left to visit, `activeCount`, the listed tasks |
| `pass` | the locals of `executeEffects`: the decision and how far it has come |
| `asked`, `landed` | history variables, read by properties only |

A run's name is the record of what is hashed into it: task, kind, counters. So
two names are equal in the model when the code's are (hash collisions aside).

### 2.3 `BuildTask`: actions

* `StartCycle`, `EndCycle`: `reconcileProject` lists and counts; ideas and done
  tasks are not decided. `Visit(t)` takes the task whose turn it is (by
  priority, any order among equals), observes its runs and decides. The decision
  is the operator `Decide…` of its phase, on `Seen(t)`, the task as listed, and on
  the runs as they are at that moment, which is what `observe` reads. `PassOver`
  is a visit that decides nothing or whose reads failed.
* `RunEffects`, `FailReplacing`: the guards of `executeEffects` on a fresh read,
  then the creation of a run (adopted if its name is taken, replaced if it is a
  terminal merge run, adopted unread if that merge run cannot be read) or the deletion of a
  stale one. `FailReplacing` is the
  creation failing after the leftover is gone.
* `PatchStatus`: phase and worker status in one merge patch, then the
  adjustment of the active count. The code re-reads the task and writes under
  that version; a write of anybody between the two makes it fail, so the two
  are one step here and the failure is `Abort`. `PatchUnanswered` is the
  write whose answer is lost.
* `ClearTaskAnnotations`: conditional on the version of the status write. So
  `Annotate`, which changes the task, makes a clearing in flight fail.
* `Abort`, `ManagerCrash`: any step fails; the manager stops anywhere.
* `Approve`, `RequestChanges`, `Abandon`, `Answer`, `Promote`: the routes of the
  board. An approval removes a request for changes, as the route does. The routes
  check no phase, and neither do the actions: `HumanActs` says in which phases a
  run of TLC lets a human act.
* `RunStarts`, `RunParks`, `RunResumes`, `RunStalls`, `RunSucceeds`, `RunFails`,
  `RunOverwritten`, `RunDeleted`: what the manager may observe of a run. A stale
  run is a running one with an old `lastEventAt`, and may resume.
  `RunOverwritten` is the operator reporting a failed pod from an old read over
  the success its dispatcher has written. `RunDeleted` is a human, or the TTL.
* `BackoffElapses`: the passing of `retryAfter`.

Abstractions: texts (feedback, diagnosis, reasons), the settings of pods, event
records and time stamps are left out. Seven merge verdicts are three classes: landed,
retryable, and the ones that go to a human. A missing verdict annotation is
"none". Left out of the cycle: the healing of a missing phase, blocked tasks, and
the calls of findings ingestion and interactive requests, which touch no BUILD
task that exists.

How the modules fit together. `BuildTask` takes two things for granted that are
modelled elsewhere: that cycles of one project do not overlap and keep coming,
which `ManagerLoop` has one worker and a resync for; and the phases a run goes
through, which are the transitions of `RunLifecycle`, its overwritten outcomes
included. `PlanTask` sees a child as what `BuildTask` says of it in the end: merged,
abandoned, or done without either. They share `TaskPhases`. `BoardAdmin` is a
composition: `BuildTask`'s actions, interleaved with other writers (only the promotion
of an idea that has run before is left to those).

### 2.4 `BoardAdmin`

`call` is the direct write under way, with the worker status as its caller has
read it; `used` and `raced` are history. `Reads(t)` is the read, with the check of
the phase that its tool makes (`Sanctioned`); `Writes` is the patch, computed from the
read (`Moved`, `Retried`, `ReviewRetried`, `ForceRetried`, `StateSet`) and written without
a condition, whatever the task has become; `Creates` and `CreateFails` are the run that
`force_retry` creates after it has put the task in running; `Deletes` are the runs
`set_task_state` deletes first; `Fails` is any of it failing. The patch is a JSON merge
patch of a status spread from the read: a field the read did not have is not
named by it and survives (`Spread`).

Without conditions on the writes, little of `DecisionsCurrent` survives: a decision may
be carried out on a worker status it was not taken from. What survives, and
what does not, is in section 3.4.

### 2.5 `PlanTask`

| Variable | In the code |
| --- | --- |
| `flow` | how the work is integrated: `flow.integration.mode`, or none |
| `phase`, `worker`, `notes` | as in `BuildTask`, with the PLAN fields of the worker status: generation run, `childTaskRefs`, merge or pull-request run, number and watermark of the pull request, evaluation run |
| `children` | the BUILD tasks whose `parentTaskRef` it is, and how they are |
| `runs` | the runs it launched, by name; `covers` is what was merged into the feature branch when one was created |
| `prs`, `posted` | GitHub: the pull requests with what they show, and the comments in the order of their time |
| `seen`, `pass` | the cycle and the decision under way, as in `BuildTask` |
| `asked`, `lapsed`, `landed`, `handed` | history; `handed` is the comments that an evaluation was told to read |

One operator per handler: `DecideAwaitingHuman`, `DecideGeneratingBuilds`,
`DecideAwaitingChildren`, `DecideIntegrationRun`, `DecideIntegrationOutcome`,
`DecidePrClosed`, `DecideEvaluation`, `DecideScopeChange`, `DecideComments`, `DecideFailed`. A
poll of GitHub may fail or answer from the cache: it returns any subset of the
comments there are, so that a newer one may come without an older one, and a decision that
assumes the pull request open does not need it to be. The evaluation it launches is
`Told` to read, of all the feeds, what is later than the watermark on record: that is what makes up
for a partial poll, and what `handed` remembers. `RunEffects` also creates follow-up tasks, and replaces a failed
generation and a terminal integration run of the same name. `RunSucceeds`, `PrOpened` and
`PrUpdated` are the agents that merge or publish; they do what their prompts say,
told the number of the pull request or not.

Left out: planning and its review, which run through the same handlers as a BUILD
task's work, and automatic retries.

### 2.6 `RunLifecycle`

| Variable | In the code |
| --- | --- |
| `run`, `made` | the Run of the name, with a number for a uid, and how many there were |
| `pod` | the pod of the name: its owner's uid, its phase, whether it is being deleted, the agent's container (`engine`), how far its dispatcher is (`stage`) |
| `op` | the locals of `reconcile`: where it is, the Run it has read (`uid`, `phase`), the pod phase it saw |
| `queue` | of the sets of `operator/src/reconciler.ts`, what they hold of the name |
| `news`, `job` | watch events on the way; the Job that removes the worktree |
| `history` | what properties read: the agent gave up, it came to its end, that was recorded, others deleted the pod, an open phase was written over an end |

Every call to the API server is a step: `OpTakes`, `OpFindsPod`, `OpCreatesPod`, `OpRecordsPod`,
`OpMirrors`, `OpClaims` (the fresh read), `OpSucceeds`, `OpFails`, `OpReaps`, `OpDeletesPod`,
`OpSeesEnded`; `OpPatches` is a status write, whose failure ends the pass. The dispatcher goes
from `AgentBoots` over `AgentPrompted`, `AgentWaits` to `AgentEnds`, `AgentReports` and
`AgentDies`; `AgentPatches` swallows a failed write. Which completion tool an
agent calls, and how often it is refused, is not told apart: `AgentEnds` is the
signal that wins the race of `runPrompt`. Writes go by name, so both may
hit the next Run. `Trouble` bounds the failures of a behaviour, by who meets them
and what they are.

An assumption, named: an agent does not come to its end while the operator is
still in the pass in which it found the Run new or made the pod (`LongRunning`); it
has to boot, be healthy and be prompted first.

### 2.7 `ManagerLoop`

`queue` is the set of keys in insertion order, `worker` the iteration of `runWorker`
and what it has read; `memory` and `noted` are the two places of a pause, `request` the
annotation of the project's one task. `TakeKey` to `EndCycle` is one iteration, a step
per call; `ItemFails` puts the key back. `ProjectInformer`, `TaskInformer` and
`PeriodicResync` fill the queue. `Pause`, `Resume` and `AnnotatePause` are the tools: memory first,
then annotations, whose failure is only reported. `PauseLapses` is the end of its time,
in memory and in annotations. `Restart` empties all that is in memory. `ServeRequest` and
`clearAnnotation` are `processInteractiveRequests`. A task is over while it is done or an idea
(`TaskEnds`), and may be moved back (`TaskResumes`). `Habits` says what people do to which
project in one behaviour; one of them is chosen at `Init`, which keeps projects that
are paused and projects that are asked for runs apart.

### 2.8 `FindingsIngestion`

| Variable | In the code |
| --- | --- |
| `exists`, `inbox`, `triaged` | the ConfigMap `<project>-findings`: there or not, its `inbox.*` and its `triaged.*` keys |
| `board` | `status.board.findings` of the Project |
| `tasks`, `memory` | the tasks made of findings and the clusters in the vector memory: external, and written before the ConfigMap is |
| `sending` | where each call of `appendFindingToConfigMap` is |
| `ingest` | the locals of `ingestFindings`: what is left of the inbox it read, the records read, the records as it changes them, and the keys of its patch |
| `call` | the locals of `update_finding` and `create_task_from_finding` |
| `raced` | history variable: a record was written from a read that was out of date |

* `Report(f)`: the patch that finds no ConfigMap, the one that lands, the creation,
  and the creation that comes second and goes back to the patch. `ReportFails(f)`: any other
  error ends the call, at the patch or at the creation; the agent is told, and the report is
  not on record. (A write that lands and whose answer is lost is, for the ConfigMap, one that lands.)
  The code gives up after three rounds of patch and creation, which it never needs here: the
  ConfigMap is not deleted, so the second patch finds it.
* `StartIngest`, `Fold(f)`, `LandPatch`, `WriteBoard`: the phases of
  `ingestFindings`, each finding a step of its own because it waits for the memory
  service and for the creation of a task, and the tools run in the same process
  meanwhile. `AbortIngest` and `ManagerCrash` end it anywhere.
* `CallUpdate`, `CallPromote`, `CallCreates`, `CallWrites`, `CallSkips`,
  `CallBoard`, `CallFails`: the two tools, from read to board.

A finding is a number, its time of creation; its key, its snippet and what it
reads like are constants. A record has what the properties tell apart: how often
the issue was reported, whether it is closed, which task is linked. The memory may
recall anything near, or fail. The ingestion writes only the keys it changed,
and removes only the reports it read, so patches of different keys never undo
each other; patches of the same record do. The fallback of
`create_task_from_finding` to the findings of the board is left out: it is for
a ConfigMap somebody has deleted.

Nothing here reads or writes what `BuildTask` has: the tasks made are new ones,
and so the two are not composed.

## 3. What TLC checks

Deadlock checking is off where the system may stop: a manager that has nothing
on the board to list, no report to ingest, no project left, or a last Run that
has ended, may stand still. What must go on is stated as liveness. `manager`, in
which the worker, the informers and the resync always have something to do, is
checked for deadlock.

| Run | Instance | Shows |
| --- | --- | --- |
| `build_rework` | one task, AI reviewer, automatic retries (2 attempts), failing runs, deleted review runs, lost answers | `TypeOK`; `ReviewIsOfCurrentWork`: a verdict is never that of an earlier attempt; `ReworksWithinCeiling`; `DecisionsCurrent`: the inductive invariant of section 4; `FollowsLifecycle`: refinement of `TaskLifecycle` |
| `build_merge` | one task, merges with every verdict, deleted merge runs, merge runs that cannot be read, overwritten successes | `MergeIsOfCurrentWork`, though merge names repeat; `DoneMeansLanded`; `RequestsKept`: a request that no status write acted on is still there |
| `build_slots` | two tasks of different priority, one slot, stalls and failures, retries with backoff | `ActiveWithinLimit`; `EveryTaskStarts`: the low priority is not starved |
| `build_chain` | a task and its successor, feature branching, abandonment | `StartsOnLandedWork` |
| `build_fair` | one task, parked and failing runs, deleted parked runs, a tending human | `ParkedNeverStranded`, `AbandonHonoured`, `ApprovalHonoured`, `WorkSettles` |
| `findings` | three reports, of which two have one key, two one snippet and two read alike; one serious; one tool call | `TypeOK`; `EveryReportCounted`; `OneRecordPerIssue`; `InboxDrains` |
| `admin` | one task with an AI reviewer; any two direct writes, the second one a drag to the backlog, at any point of a cycle | `FreshAfterRestart`: what starts over does not take its earlier worker run for the new one; `ReviewsStayCurrent`; `RestartedWorkSettles` |
| `plan` | one PLAN under each of five flows; a build task and a follow-up; one pull request with two comments, or a comment and a request, and polls that return any part of them; integration runs that fail, stall, vanish or cannot be read, evaluations that fail or stall | `TypeOK`; `DoneMeansBuilt`; `DoneMeansLanded`; `PrShowsTheWork`; `OneFollowUpPerRequest`; `NoCommentSkipped`: the watermark passes no comment that no evaluation was told to read; `GeneratedOnce`; `PrOutcomeNoticed`; `CommentsHandedOn`: each is handed to one |
| `run_ends` | two Runs of one name, one failure of any kind, anywhere | `TypeOK`; `FailureStands`; `RunOnce`; `RunsEnd`; `PodsReaped` |
| `manager` | two projects, one of them deleted and paused, or deleted and asked for a run; one failure or restart | `NoWakeUpLost`; `PauseHolds`; `ClearedWhenServed`; `ChangesSeen` |

### 3.1 Bounds

`MaxRework` bounds the reworks a human asks for (the code has no bound);
`MaxAttempts` and `MaxAutoReworks` are settings of the code and bound the rest.
One human rework, one AI rework and two attempts already give every way in which
the two counters of an attempt change (`+1` on either, `+1` with a reset, both in a row)
and every way in which names may collide. Two tasks and one slot are the
smallest instance with competition; a chain of two has the only relation
between tasks that the decisions read. The settings of each run switch on the
features its properties are about and leave out the others.

Three reports give every layer of deduplication something to find, a duplicate
of a record on record and one of a record made in the same ingestion, and a
report that comes while an ingestion works. `Calls` is the number of calls of
the tools: with one, tool and ingestion already race in both orders. `EveryReportCounted`
is stated until the first such race (`raced`), which section 3.4 is about; it holds
through any number of failed ingestions and crashes, which are not bounded.

`admin`: two writes are the least with which one may undo the other. With more
than dragging for the second write (all but `set_task_state`, `create_run` and `task move`) the
two invariants have been checked over 891,000 states, and with one AI rework and
one write all three properties.

`plan`: a build task and a follow-up give each of the two ways a child comes about, and
a follow-up after merged children is what makes names of integration runs
repeat. Larger instances (two build tasks and three children; two pull requests,
two requests and three children, 3.6 million states) have been checked for the
invariants.

Two comments on one pull request are the least with which one may be missed by the poll that returns
the other, come while the other is evaluated, or follow right behind the watermark.
`MaxFeedback` counts comments and requests together: a behaviour has two comments, or one of each.
Which runs meet which trouble depends on the flow (`SomeTroubles`), to keep each trouble where a
property is about it: the run that merges the feature branch under `auto-merge`, the evaluations
under `pr`, the generation where there is no pull request. The proofs allow every
trouble, but for the one named in section 3.4.

`run_ends`: two Runs of one name give a predecessor to every report and every pod.
One failure is enough to get every single point of failure, at any moment; two at
once go beyond what the code tries to handle, and beyond the time of a run. Of
the failures, three are left out because a property is broken by them, and
section 3.4 says which.

`manager` does not list `TypeOK`, which is proved (`TypeCorrect`). Two projects compete for the worker; with the habits not kept apart the
instance has 1.1 million states and has been checked as well.

`ReworksWithinCeiling` is stated for flows that do not both merge and
retry. With both, the automatic retry of a failed merge relaunches the worker
of a task that was escalated with its count past the ceiling.

### 3.2 Fairness

* Cycles keep starting and ending (`build_*`, `plan`, `admin`): the watch loop re-enqueues
  every project by a resync timer, and after every error. `ManagerLoop` is where that
  comes from.
* A task is decided again and again (`Visited`) and each of the writes of a pass
  is carried out again and again when it can be (`SF`): errors and crashes
  happen, but not at every attempt at the same write. Strong
  fairness is needed because each attempt is disabled again by its failure.
* A pod starts; a run that started ends (`WF`): `activeDeadlineSeconds` of
  the pod ends what nothing else does. A run that stalls or parks may do so for
  any finite time.
* `retryAfter` passes.
* Direct writes (`admin`): a call that has read comes to its end, well or not, and a
  decision about a phase the task has left is refused (`Refused`): the guard of the
  executor stands in the same function.
* GitHub (`plan`): no poll fails for ever. Nothing is assumed of runs, children,
  the human and GitHub itself.
* Evaluations (`plan`, `EvaluationsEnd`): a pod starts, and what has started ends, by itself or by
  `activeDeadlineSeconds`. Until then the comments that come wait: the poll asks for none while an
  evaluation is on record (`observations.ts:91`).
* `run_ends`: the worker of the operator goes on, its informer delivers, its timers fire
  (`Reconcile`, `Resync`, `Informed`), the kubelet enforces deadlines and the garbage
  collector removes orphans. Nothing at all is assumed of agents and dispatchers.
* `manager`: the worker goes on, the resync timer fires and the time of a pause passes. The
  informers may be silent for ever.
* Ingestion (`findings`): every cycle calls it, so it is started again and again,
  and each fold and patch succeeds again and again when attempted (`SF`). Nothing
  is assumed of agents and tools.

Nothing is assumed of humans.

`WorkSettles` is checked without the deletion of review runs: a
reviewing task whose review run has been deleted is waited for without end,
because the code cannot tell a run not yet created from one that is gone. In
`admin`, where `set_task_state` deletes them, the property names the case.

### 3.3 Disagreements

Two runs are violated, each by a behaviour of the code that a comment of the
repository denies:

* `merge_failed_work`: the name of an old merge run survives a rework; when the
  new worker then fails, an approval sends its unfinished branch to be merged.
* `failed_kept`: what an agent gives as its reason for `fail_run` becomes the text of
  an error, and an error whose text contains "Aborted" is taken for a cancelled
  message. The Run is then written Running, the dispatcher exits with 0, and the Run
  stays open until the pod's deadline.

### 3.4 Where the guarantees end

What the properties except, and why. None of it is checked by a run of its own;
each was met in the code, or as a counterexample, while a property was being stated.

BUILD tasks:

* A finished worker goes on to review without a look at the capacity, so with
  the AI reviewer on the active tasks may exceed `maxParallel`: `ActiveWithinLimit` is
  checked with the reviewer off.
* A clearing of annotations that failed leaves the approval on the task; when
  the merge fails, the leftover retries it, unasked.

Findings:

* `patchFindingsConfigMap` is called safe because the manager is the only writer of the
  records. But the manager writes them from two places: a tool that has read a
  record writes it back over the duplicate that the ingestion has counted in it,
  and that report, gone from the inbox, is counted nowhere.

Direct writes:

* The status is written from an old read (`raced`): a write of the reconciler in between,
  the name of a run it has launched, say, is undone. `set_task_state` is described as atomic
  (`tools.ts:373`) and is such a write.
* `retry-review` followed by `set_task_state` to scheduled: the one raises the review's name, the
  other sends the task back to work without raising any, so worker and review take
  the names of the first attempt, with its verdict. The instance lets people use `set_task_state`
  only first.
* `beatctl board task move` from failed to pending does not raise the counter: the next
  launch adopts the failed run. `FreshAfterRestart` is about the worker run a task had
  when one of the other tools put it back.
* `create_run` after a drag brings a task back to scheduled while a decision from before the
  drag is carried out; its patch lowers the counters again, to an attempt the task has had.
  With three direct writes (a `force_retry` whose run cannot be created, the drag, the
  `create_run`) `FreshAfterRestart` is violated; the instance has two.
* `force_retry` puts the task in running before its run exists: a cycle that looks in
  between finds the run gone and fails the task.
* A task that was merged or abandoned keeps saying so when it is dragged back.

PLAN tasks:

* `manual` integration: an approval when all children are done decides
  awaiting-human again, which the transition table refuses; the annotation stays.
* A taken name whose run cannot be read is adopted, whatever it is. For the run
  that opens a pull request, the request then does not show the last follow-up's
  work; `<<"pr", "pr", "unread">>` is not among the troubles.
* A request for changes whose annotation could not be cleared makes a second
  follow-up (`lapsed`).
* A comment counts as handed over when its evaluation is launched. One that fails or vanishes is not
  repeated: its comments are read again only by an agent that looks further back than it is told.
* Two comments of one time are told apart, which `createdAt` does to the second: a comment
  of the second of the watermark is not newer. And the comments are those a poll can return:
  each feed is read for its first hundred (`github-client.ts:256`).
* A pull request merged while a follow-up is under way is done without its work:
  `DoneMeansLanded` is about `auto-merge`, `DoneMeansBuilt` about children on record.
* A generation run that is deleted is waited for without end.

Runs of one name:

* A failure on record is overwritten when four things go wrong (`FailureStands` is checked
  with one and proved with three): both reports of a dispatcher are lost, so that the Run
  seems to initialize; the operator stops before it writes that the pod is there, and
  its successor mirrors the Run as it first read it, "Initializing", over the failure; the
  engine's end is then claimed a success.
* A pass that has seen an ended Run and finds its pod gone takes the name out of
  the queue, although the name may by then be that of a new Run. Nothing
  brings the new Run back until it changes: `RunsEnd` excepts it (`Forgotten`).
* `<<"operator", "misread">>`: an error of any kind when reading the pod of an ended Run
  means that it is gone, and the pod stays.
* `<<"operator", "unfresh">>`: when the fresh read before the claim fails the old one
  decides, and a success may be claimed over a failure.
* A write of the poll loop that arrives after the terminal one opens the Run again;
  in the model that is the write of a predecessor's dispatcher, or of one whose Run
  the operator has given up (`reopened`).
* The failed write after a pod was created stands in the same try as the creation:
  the Run is failed although its pod runs, and reaped then.
* The worktree job of a deleted Run may start after the next Run's pod; and it may not start at all, for a
  Run without git source or project, or because its creation failed.
* The phase `Cancelled` of a Run is in no module: neither the operator nor a dispatcher writes
  it, though `effects.ts` treats it like the other two ends.

The manager's loop:

* A request written after the cycle has listed the task is cleared unread:
  `clearAnnotation` names neither version nor value (`interactive-requests.ts:84`).
* A resume whose annotations could not be removed leaves the project paused by them,
  although the message says that the in-memory resume works (`tools.ts:2093`).
* A pause that was not annotated does not survive a restart, and is not `held`.

## 4. What is proved

The theorems hold for every value of the constants: every set of tasks or reports,
every flow, every pattern of human acts and of failures the model has, and any
bound. Where one needs more, its `ASSUME` says so, and so does this section. The
constants carry assumptions that only say what they are: finitely many tasks and
projects, settings and bounds that are numbers, and values for "none" that are not
runs, cycles or children.

| Module | Theorem | What it states |
| --- | --- | --- |
| `BuildTaskProofs` | `TypeCorrect`, `DecisionsStayCurrent` | `TypeOK`; `DecisionsCurrent` |
| | `ImplementsLifecycle` | `Spec => FollowsLifecycle`: the reconciler implements `TaskLifecycle` |
| | `RequestsNotLost` | `RequestsKept` |
| | `LimitKept` | `ActiveWithinLimit`, without AI reviewer and lost answers |
| `BuildTaskReviewProofs` | `ReviewsCurrent`, `CeilingKept` | `ReviewIsOfCurrentWork`; `ReworksWithinCeiling` |
| `BuildTaskMergeProofs` | `MergesCurrent`, `DoneHasLanded`, `ChainsStartLanded` | `MergeIsOfCurrentWork`; `DoneMeansLanded`; `StartsOnLandedWork` |
| `BoardAdminProofs` | `ReviewsStay`, `RestartsFresh` | `ReviewsStayCurrent`; `FreshAfterRestart`, for the tools that raise the attempt (`RenewingOnly`) |
| `PlanTaskProofs` | `TypeCorrect`, `BuiltWhenDone`, `LandedWhenDone` | `TypeOK`; `DoneMeansBuilt`; `DoneMeansLanded` |
| | `Generated`, `OneFollowUp` | `GeneratedOnce`; `OneFollowUpPerRequest` |
| | `CommentsHanded` | `NoCommentSkipped` |
| | `PrShows` | `PrShowsTheWork`, when the read of a leftover pull-request run does not fail |
| `RunLifecycleProofs` | `TypeCorrect`, `WorkNotRepeated` | `TypeOK`; `RunOnce` |
| | `FailuresStand` | `FailureStands`, when claims rest on fresh reads and few reports are lost |
| `ManagerLoopProofs` | `TypeCorrect`, `WakeUpsKept`, `PausesHold`, `RequestsServed` | `TypeOK`; `NoWakeUpLost`; `PauseHolds`; `ClearedWhenServed` |
| `FindingsIngestionProofs` | `TypeCorrect`, `OneRecord`, `ReportsCounted` | `TypeOK`; `OneRecordPerIssue`; `EveryReportCounted` |

### 4.1 BUILD tasks

*Decisions.* `FollowsLifecycle` needs to know, at the status write, that the
task still is what the decision was taken from. The re-read before the write only
compares the phase, not the worker status; so a stale patch could lower a counter
or record an old run name. `DecisionsCurrent` is what excludes it:

* `ListCurrent`: a task the cycle has not visited yet is as it was listed, in
  phase and worker status. It holds because nothing but the status writes of the
  cycle itself changes them (an idea is not on the list).
* `PassCurrent`: hence the pass is about the current phase and worker
  status, and its patch changes counters and run name as its transition
  prescribes (`Prescribes`).
* `AttemptUnused` and `LaunchedWithinAttempts`: the attempt of a task about to be
  worked on is larger than the launched one, and no launched attempt is larger
  than the current one.

None of these is inductive alone. `DecideSound` shows for each of the eleven decision
operators that the pass it starts has the right type and does to the counters
what `Prescribes` says; `StepType` and `StepDecisions` go through the actions;
`WrittenLifecycle` maps a status write to a step of the lifecycle or to a stutter.
Everything else stutters, except `Promote`.

*Requests.* While annotations are being cleared, none of those to be cleared is
still asked for (`NoneLeft`): the human's next write makes the clearing conflict.

*The limit.* `SlotsCounted`: the count the cycle adjusts as it goes is the number
of active tasks, and a decision that activates a task found it below the limit. A
reviewer activates a task without a look at the count, and a status write whose
answer is lost leaves the count as it was; the theorem assumes neither happens, and
for both the limit is in fact exceeded.

*Reviews.* Two more invariants, on top of `DecisionsCurrent`:

* `ReviewNames`: while a task works or is reviewed, the worker run on record is
  named by its counters, and in review so is the review run (`WorkIsOfAttempt`,
  `ReviewIsOfAttempt`); a review run that exists was created when the worker run of
  its own name's attempt was on record (`ReviewsAreOfTheirAttempts`); and the pass will
  keep all this (`PassNames`). A review run is never replaced, so an old one may
  well be adopted; but then it bears the counters of the current attempt, hence is
  about the current worker run.
* `ReviewRounds`: a task whose count has passed the ceiling is in a phase
  from which only a rework that resets the count leads back to work
  (`CountsWithinCeiling`, `PassRounds`). This is where the exception for flows that merge
  and retry comes from: they retry a failed merge from `failed` with the count
  as it is.

*Merges.* A merge run's name has only the retry count in it, so several
attempts share it. What makes an adopted one current all the same (`MergeRests`): once
a merge run of an attempt exists, the task is past its work, and no other worker
run replaces the one it is to merge (`MergesAreOfTheirAttempts`). Then `LandedVerdicts`,
done is for good however old the list (`SeenDone`), and a task that was ever
scheduled has a predecessor that is done (`PredecessorDone`) give `Landing`.

### 4.2 Direct writes

`DecisionsCurrent` does not hold beside direct writes: a task that the cycle has listed, or
the pass has decided, may be dragged away, started again, and come back to the same phase
with another status. What takes its place (`Settled`), for every task whose status
was not written from an old read:

* `ListNear` and `PassNear`: a task on the list, or in the pass, is in the phase it was
  seen in or in one where a tool may have put it (`Displaced`). Where it is back in the
  phase it was seen in, its status is as it was seen, except in pending and running, the
  phases that tools write themselves; and the decisions taken there change neither counters
  nor names (`Untouching`), so they are right for any status.
* `ReviewsNear`: no review is of an attempt to come, and one of this attempt is about the
  run on record, or about the one that is going to be.
* `CallNear`: what a call has read is an attempt that the task has had. `UsedNear`: a run
  that a task had when it was put back is of an earlier attempt.

Each status then stays, or changes in one of four ways: by the pass (`ByPass`), by a call
(`ByCall`), when a forced run cannot be created (`ByFailure`), or by the promotion of an idea
(`ByPromotion`); and an attempt never becomes smaller (`Attempts`).

The theorems assume `RenewingOnly`: people use the drag, `retry`, `retry-review` and `force_retry`.
`create_run`, `task move` and `set_task_state` write a phase and no larger attempt, so a task may
come back to a phase with a decision in hand that was taken from a smaller attempt, and
that is then written. With enough calls each of them breaks one of the two properties:
`create_run` takes three direct writes, `task move` four, and `set_task_state` needs a `retry-review`
before it (section 3.4). So for these three the properties stay with the run `admin`, within
its two calls.

### 4.3 PLAN tasks

`DecideSound` here says of each decision what it comes to, as one of nine kinds (`Chosen`), and
`Kinds` says it of each step; the invariants are proved over these kinds.

* `Base`: types, and that what is on record exists.
* `GenerationInPlace`: the agent of the build generation is at work only while the
  task waits for it. Hence `SeenOutOfDate`: the list a cycle holds may be out of date
  only in children that are done by now.
* `CourseKept`: how far a PLAN has come by its phase and status (`Course`) and will have come
  once the decision in hand is written. It gives `DoneMeansBuilt` and `GeneratedOnce`.
* `VerdictsHold`, `PrsOfTheFlow`, `IntegratesDone`: verdicts are so, each flow has its own run of
  the integration, and one is launched when the children are done. With them
  `MergeCoversAll`: the merge run, though its name is used again, covers all that is
  merged.
* `OnePrRun`, `PrCoversAll`: the same for the pull request, through the round of a
  follow-up. It needs that a leftover run is not adopted unread: `PrShows` assumes
  `<<"pr", "pr", "unread">>` not among the troubles, as the run `plan` does.
* `ActedOnOnce`: a request whose follow-up has been made stands on the task, on the list or
  in the pass only where it would make the same follow-up again (`Stands`): the
  pull request and the number of children on record, which its name is made of,
  are as they were.
* `HandedOver`: what lies behind the watermark, behind the one about to be written and behind the round of
  each evaluation there is, was handed over if its pull request is open (`Noted`). Of a new evaluation
  this holds because only the last pull request may be open (`LastOpen`) and comments come in that order
  (`InOrder`), so that all that is left to hand over is on the polled one, and the agent is told of all of it.
  An evaluation that is adopted was launched for the same newest comment.

### 4.4 Runs, loop, findings

`RunLifecycleProofs`. `Order`: which Run a pass and a pod are of. `PodStays`: the pod of a Run
whose work is under way is not replaced. `FailuresStand` rests on `Stands`: where a failure is
on record, or certain, no pass that may still write "Initializing" or claim a success
goes on. A pass gets there when the operator has missed both reports of a
dispatcher, so the proof counts what was lost (`LostBefore`): it takes four troubles, and
the theorem assumes three at most, or that reports of dispatchers are not lost
(`FewLosses`). With four, TLC finds the failure overwritten (section 3.4).

`ManagerLoopProofs`. `NewsInOrder`: the news of a project that exists end with a change, so
that the queue still comes to it. `PauseKnown`: a pause that is annotated is known to the
memory or will be read. `ServedOrOver`: what is cleared was served.

`FindingsIngestionProofs`. The records the ingestion matches against are those it read, and
what is on record when it writes may be others; so `OneRecordEach` says that the
ingestion knows all there is on record (`IngestKnowsAll`), which holds because the
tools only write records that are there (`CallsOnRecord`), and that no two records it
knows are of one issue. For the counts, `FoldedOnce`: what the ingestion holds, together with
the reports it has yet to fold, is what it has read plus each report once. Counts are
cardinalities of sets of pairs (`Tally`), which the library's theorems are about; a
recursive sum is not within the prover's reach.

### 4.5 How the modules were made for it

Where a definition could not be reasoned about, it was given another of the same
value: `Put` and `WithChild` in `PlanTask` for `:>` and `@@`, which the prover does not expand; `Removed` in
`ManagerLoop` for a sequence without an element; `Tally` in `FindingsIngestion`; `NoPass` in `PlanTask` is a record,
so that it differs from a decision. The runs check the modules as they are proved.

### 4.6 What is only model-checked

Liveness, that is, everything in section 3.2, is out of the prover's reach. So is
`ENABLED`, which is why `Visited` is in no theorem. `BoardAdmin` with `create_run`, `task move` and
`set_task_state` is (section 4.2).
The two violated properties have no proof, of course.

## 5. Not modelled

* The tools the dispatcher serves beside the end of a run: which completion tool an
  agent may call, the verdict it writes first, plans, searches and sessions. That a
  verdict is there when a review or a merge has succeeded is not assumed: `BuildTask` and `PlanTask` let
  a run succeed without one.
* Automatic retries and planning runs of a PLAN: the handlers are those `BuildTask` models.
* The healing of tasks without a phase, and blocked tasks.
* The delays of queues and retries: every step takes as long as it likes.
* Builders of prompts and pods; only names, branches and children of a run are
  read by a decision.
* Services of the operator (code server, memory, agents' volumes): applied until
  they match, with no protocol between them.
* Runners, the memory service, the web client, push messages and the mirror
  database, deployment and diagnosis by the command line: translation, presentation
  and I/O with no state that a decision of the task flow reads. They are most of the
  repository's lines.

`PROJECT.json` gives the reason for each component.

## 6. What is left

In order of worth:

1. An abstract specification of a Run for `RunLifecycle` to implement, with the phases as `BuildTask` and
   `PlanTask` see them.
2. The completion tools of the dispatcher, as a refinement of `AgentEnds`.
