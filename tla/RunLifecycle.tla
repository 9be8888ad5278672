---------------------------- MODULE RunLifecycle ----------------------------
(***************************************************************************)
(* The life of the Runs of one name: the operator that gives a Run its pod *)
(* and reaps it (operator/src/reconciler.ts, with its work queue, its      *)
(* informer in index.ts and the worktree cleanup of ttl.ts) and the        *)
(* dispatcher in the pod that reports how the agent fares                  *)
(* (dispatcher/src/index.ts, polling.ts).  The manager creates a Run under *)
(* the name of a deleted one.                                              *)
(*                                                                         *)
(* A Run and its pod have the same name, and every read and write is by    *)
(* name: a step of the operator that began on one Run may end on the next. *)
(* Between two calls to the API server anything may happen.                *)
(*                                                                         *)
(* Left out: the service, the ConfigMaps and the run key, which are        *)
(* ensured and removed on the same paths; podPhase and messages;           *)
(* interactive runs, whose dispatcher reports no outcome.                  *)
(***************************************************************************)
EXTENDS Integers, Sequences

CONSTANTS
  Troubles,    \* what may go wrong: <<who, what>>
  MaxTroubles, \* bound: how often in all
  MaxRuns      \* bound: the Runs created under the name; the last is not deleted

VARIABLES
  run,      \* the Run of the name; sound is a valid spec
  made,     \* the Runs created so far, each with its number for a uid
  pod,      \* the pod of the name, its owner's uid and its dispatcher
  op,       \* the reconcile pass of the operator and the Run it has read
  queue,    \* what the work queue holds of the name: seen, pending,
            \* processing and dirty
  news,     \* the watch events not delivered yet
  job,      \* the cleanup job of the name is under way
  troubled, \* how often something went wrong
  history   \* of the Run that exists: "gaveup", its agent called fail_run;
            \* "finished", its agent or its pod came to an end; "failed", its
            \* dispatcher has recorded that; "drained", others deleted its pod;
            \* "reopened", its dispatcher wrote an open phase over its end

ASSUME BoundsAssumption == MaxTroubles \in Nat /\ MaxRuns \in Nat

cluster == <<run, made, pod, job, troubled, history>>
vars == <<run, made, pod, op, queue, news, job, troubled, history>>

Open == {"Pending", "Initializing", "Running", "WaitingForInput"}
Terminal == {"Succeeded", "Failed"}

NoRun == [uid |-> 0, phase |-> "None", sound |-> FALSE]
NoPod == [uid |-> 0, phase |-> "None", going |-> FALSE, engine |-> "None",
          stage |-> "None", cause |-> "none", waiting |-> FALSE]
NewPod(u) == [uid |-> u, phase |-> "Running", going |-> FALSE, engine |-> "up",
              stage |-> "boot", cause |-> "none", waiting |-> FALSE]

Exists == run # NoRun

Trouble(who, what) ==
  /\ <<who, what>> \in Troubles /\ troubled < MaxTroubles
  /\ troubled' = troubled + 1

-----------------------------------------------------------------------------
(* The work queue.                                                         *)

EmptyQueue == [seen |-> FALSE, pending |-> FALSE, processing |-> FALSE, dirty |-> FALSE]

enqueue(q) ==
  IF q.processing THEN [q EXCEPT !.seen = TRUE, !.dirty = TRUE]
  ELSE [q EXCEPT !.seen = TRUE, !.pending = TRUE]

\* The key is forgotten, its place in the queue is not.
dequeue_Queued == [queue EXCEPT !.seen = FALSE]
dequeue == EmptyQueue

\* The end of a pass: what came in meanwhile is put back.
Release(q) ==
  LET free == [q EXCEPT !.processing = FALSE, !.dirty = FALSE] IN
  IF q.dirty /\ q.seen THEN enqueue(free) ELSE free

Idle == [at |-> "idle", uid |-> 0, phase |-> "None", saw |-> "None"]

Done == op' = Idle /\ queue' = Release(queue)
Drop == op' = Idle /\ queue' = Release(dequeue)
\* After five seconds a Run still seen is queued, as the next resync would.
Retry == Done
Goes(at) == op' = [op EXCEPT !.at = at] /\ UNCHANGED queue

\* An informer tells of the last of several changes only.
Told(s) == IF s # <<>> /\ s[Len(s)] = "change" THEN s ELSE Append(s, "change")

Patched(ph) ==
  /\ run' = [run EXCEPT !.phase = ph]
  /\ news' = Told(news)

-----------------------------------------------------------------------------
(* The operator: runWorkerOnce and reconcile.                              *)

\* patchStatus rethrows: a failed write ends the pass and it is tried again.
OpPatches(ph, after) ==
  \/ Exists /\ Patched(ph) /\ after /\ UNCHANGED troubled
  \/ ~Exists /\ Drop /\ UNCHANGED <<run, news, troubled>>
  \/ Trouble("operator", "lost") /\ Retry /\ UNCHANGED <<run, news>>

Entry(r) ==
  CASE r.phase \in Terminal -> "ended"
    [] r.phase \in Open /\ ~r.sound -> "refuse"
    [] OTHER -> "pod"

\* The key is taken from the queue and the Run is read by name.
OpTakes ==
  /\ op = Idle /\ queue.pending
  /\ \/ /\ Exists
        /\ queue' = [queue EXCEPT !.pending = FALSE, !.processing = TRUE]
        /\ op' = [at |-> Entry(run), uid |-> run.uid, phase |-> run.phase, saw |-> "None"]
        /\ UNCHANGED troubled
     \/ ~Exists /\ Drop /\ UNCHANGED troubled
     \/ /\ Trouble("operator", "unread") /\ op' = Idle
        /\ queue' = [queue EXCEPT !.pending = FALSE]
  /\ UNCHANGED <<run, made, pod, news, job, history>>

OpRefuses ==
  /\ op.at = "refuse"
  /\ OpPatches("Failed", Done)
  /\ UNCHANGED <<made, pod, job, history>>

\* A pod that cannot be read is taken for absent; create tells.
OpFindsPod ==
  /\ op.at = "pod"
  /\ \/ /\ pod # NoPod
        /\ op' = [op EXCEPT !.at = "mirror", !.saw = pod.phase]
        /\ UNCHANGED <<queue, troubled>>
     \/ /\ pod = NoPod /\ UNCHANGED troubled
        /\ IF job THEN Retry ELSE Goes("create")
     \/ /\ pod # NoPod /\ Trouble("operator", "unread")
        /\ IF job THEN Retry ELSE Goes("create")
     \/ Trouble("operator", "unmade") /\ Goes("giveup")
  /\ UNCHANGED <<run, made, pod, news, job, history>>

OpCreatesPod ==
  /\ op.at = "create"
  /\ \/ pod = NoPod /\ pod' = NewPod(op.uid) /\ Goes("created") /\ UNCHANGED troubled
     \/ /\ pod # NoPod
        /\ op' = [op EXCEPT !.at = "mirror", !.saw = pod.phase]
        /\ UNCHANGED <<pod, queue, troubled>>
     \/ Trouble("operator", "unmade") /\ Goes("giveup") /\ UNCHANGED pod
  /\ UNCHANGED <<run, made, news, job, history>>

\* The write stands in the same try as the creation.
OpRecordsPod ==
  /\ op.at = "created"
  /\ \/ /\ Exists /\ Patched("Initializing") /\ UNCHANGED <<queue, troubled>>
        /\ op' = [op EXCEPT !.at = "mirror", !.saw = "Running"]
     \/ /\ ~Exists /\ UNCHANGED <<run, news, queue, troubled>>
        /\ op' = [op EXCEPT !.at = "giveup", !.saw = "gone"]
     \/ Trouble("operator", "lost") /\ Goes("giveup") /\ UNCHANGED <<run, news>>
  /\ UNCHANGED <<made, pod, job, history>>

OpGivesUp ==
  /\ op.at = "giveup"
  /\ OpPatches("Failed", IF op.saw = "gone" THEN Drop ELSE Retry)
  /\ UNCHANGED <<made, pod, job, history>>

\* A pod that ended well is cleaned up, its Run is left to the dispatcher.
Judge_Unclaimed ==
  CASE op.saw = "Succeeded" -> Goes("reap")
    [] op.saw = "Failed" -> Goes("fail")
    [] OTHER -> Done
Judge ==
  CASE op.saw = "Succeeded" -> Goes("claim")
    [] op.saw = "Failed" -> Goes("fail")
    [] OTHER -> Done

\* The pod's phase is mirrored too, by a write that may fail as this one.
OpMirrors ==
  /\ op.at = "mirror"
  /\ IF op.phase = "Pending" THEN OpPatches("Initializing", Judge)
     ELSE \/ Judge /\ UNCHANGED <<run, news, troubled>>
          \/ Trouble("operator", "lost") /\ Retry /\ UNCHANGED <<run, news>>
  /\ UNCHANGED <<made, pod, job, history>>

\* Without the fresh read.
Fresh_Snapshot == op.phase
Fresh == IF Exists THEN run.phase ELSE op.phase

\* readFreshRun; when it fails the phase read before the pass decides.
OpClaims ==
  /\ op.at = "claim"
  /\ \/ /\ IF Fresh \in Terminal THEN Goes("reap") ELSE Goes("write")
        /\ UNCHANGED troubled
     \/ Trouble("operator", "unfresh") /\ Goes("write")
  /\ UNCHANGED <<run, made, pod, news, job, history>>

OpSucceeds ==
  /\ op.at = "write"
  /\ OpPatches("Succeeded", Goes("reap"))
  /\ UNCHANGED <<made, pod, job, history>>

\* The pod is deleted before the outcome is recorded.
OpFails_PodFirst ==
  /\ op.at = "fail"
  /\ pod' = IF pod = NoPod THEN pod ELSE [pod EXCEPT !.going = TRUE]
  /\ Goes("giveup")
  /\ UNCHANGED <<run, made, news, job, troubled, history>>
OpFails ==
  /\ op.at = "fail"
  /\ OpPatches("Failed", Goes("reap"))
  /\ UNCHANGED <<made, pod, job, history>>

MayReap == Exists /\ run.phase \in Terminal

\* cleanupChildResources
OpReaps ==
  /\ op.at = "reap"
  /\ \/ /\ IF MayReap THEN Goes("delete") ELSE Done
        /\ UNCHANGED troubled
     \/ Trouble("operator", "unread") /\ Done
  /\ UNCHANGED <<run, made, pod, news, job, history>>

OpDeletesPod ==
  /\ op.at = "delete"
  /\ Done
  /\ \/ /\ pod' = IF pod = NoPod THEN pod ELSE [pod EXCEPT !.going = TRUE]
        /\ UNCHANGED troubled
     \/ Trouble("operator", "undeleted") /\ UNCHANGED pod
  /\ UNCHANGED <<run, made, news, job, history>>

\* An ended Run is forgotten without a look at its pod.
OpSeesEnded_Forgets ==
  /\ op.at = "ended"
  /\ Drop
  /\ UNCHANGED <<run, made, pod, news, job, troubled, history>>
\* The run was over when it was read.  Any error means the pod is gone.
OpSeesEnded ==
  /\ op.at = "ended"
  /\ \/ pod # NoPod /\ Goes("reap") /\ UNCHANGED troubled
     \/ pod = NoPod /\ Drop /\ UNCHANGED troubled
     \/ pod # NoPod /\ Trouble("operator", "misread") /\ Drop
  /\ UNCHANGED <<run, made, pod, news, job, history>>

Reconcile ==
  \/ OpTakes \/ OpRefuses \/ OpFindsPod \/ OpCreatesPod \/ OpRecordsPod
  \/ OpGivesUp \/ OpMirrors \/ OpClaims \/ OpSucceeds \/ OpFails \/ OpReaps
  \/ OpDeletesPod \/ OpSeesEnded

\* Every ten seconds; in the midst of a pass it does no more than after it.
Resync ==
  /\ op = Idle /\ queue.seen /\ ~queue.pending
  /\ queue' = enqueue(queue)
  /\ UNCHANGED <<cluster, op, news>>

Informed ==
  /\ news # <<>> /\ Head(news) = "change"
  /\ queue' = enqueue(queue) /\ news' = Tail(news)
  /\ UNCHANGED <<cluster, op>>

\* The worktree of the name is removed by a job, spawnWorktreeCleanupJob, if the
\* source is git and the Run has a project; its creation may fail, and is not
\* tried again.
handleRunDelete ==
  /\ news # <<>> /\ Head(news) = "delete"
  /\ queue' = dequeue /\ news' = Tail(news)
  /\ job' \in {job, TRUE}
  /\ UNCHANGED <<run, made, pod, op, troubled, history>>

\* The informer of the next process lists what there is.
OpCrashes ==
  /\ Trouble("operator", "crash")
  /\ op' = Idle /\ queue' = EmptyQueue
  /\ news' = IF Exists THEN <<"change">> ELSE <<>>
  /\ UNCHANGED <<run, made, pod, job, history>>

JobEnds ==
  /\ job /\ job' = FALSE
  /\ UNCHANGED <<run, made, pod, op, queue, news, troubled, history>>

-----------------------------------------------------------------------------
(* The dispatcher: main, runPrompt and runPollStatusLoop.                  *)

Live == pod.phase = "Running"
At(stage) == Live /\ pod.stage = stage

Remember(marks) ==
  history' = IF pod.uid = run.uid THEN history \cup marks ELSE history

\* patchStatus swallows a failure.
AgentPatches(ph) ==
  \/ /\ Exists /\ Patched(ph) /\ UNCHANGED troubled
     /\ Remember(IF ph = "Failed" THEN {"failed"}
                 ELSE IF run.phase \in Terminal /\ ph \in Open THEN {"reopened"} ELSE {})
  \/ ~Exists /\ UNCHANGED <<run, news, troubled, history>>
  \/ Trouble("dispatcher", "lost") /\ UNCHANGED <<run, news, history>>

AgentBoots ==
  /\ At("boot") /\ ~pod.going
  /\ pod' = [pod EXCEPT !.stage = "health"]
  /\ AgentPatches("Initializing")
  /\ UNCHANGED <<made, op, queue, job>>

\* An agent does not come to its end while the operator is still at the pass
\* in which it found the Run new or made the pod.
LongRunning ==
  op.uid = pod.uid => op.phase # "Pending" /\ op.at \notin {"created", "giveup"}

AgentUnhealthy ==
  /\ At("health") /\ ~pod.going /\ LongRunning
  /\ pod' = [pod EXCEPT !.stage = "fatal"]
  /\ Remember({"finished"})
  /\ UNCHANGED <<run, made, op, queue, news, job, troubled>>

AgentPrompted ==
  /\ At("health") /\ ~pod.going
  /\ pod' = [pod EXCEPT !.stage = "polling"]
  /\ AgentPatches("Running")
  /\ UNCHANGED <<made, op, queue, job>>

\* A permission prompt, and its answer.
AgentWaits ==
  /\ At("polling") /\ ~pod.going
  /\ pod' = [pod EXCEPT !.waiting = ~@]
  /\ AgentPatches(IF pod.waiting THEN "Running" ELSE "WaitingForInput")
  /\ UNCHANGED <<made, op, queue, job>>

\* complete_run; no completion signal; fail_run or an error, and one whose
\* text speaks of something "Aborted".
Causes == {"complete", "silent", "fail", "aborted"}

AgentEnds ==
  /\ At("polling") /\ ~pod.going /\ LongRunning
  /\ \E c \in Causes :
       /\ c = "aborted" => <<"dispatcher", "aborted">> \in Troubles
       /\ pod' = [pod EXCEPT !.stage = "ending", !.cause = c, !.waiting = FALSE]
       /\ Remember({"finished"} \cup IF c \in {"fail", "aborted"} THEN {"gaveup"} ELSE {})
  /\ UNCHANGED <<run, made, op, queue, news, job, troubled>>

Outcome(c) ==
  CASE c = "complete" -> "Succeeded"
    [] c = "aborted" -> "Running"
    [] OTHER -> "Failed"

AgentReports ==
  /\ At("ending")
  /\ pod' = [pod EXCEPT !.stage = IF pod.cause = "fail" THEN "fatal" ELSE "exit0",
                        !.cause = "none"]
  /\ AgentPatches(Outcome(pod.cause))
  /\ UNCHANGED <<made, op, queue, job>>

\* main().catch records the failure once more.
AgentDies ==
  /\ At("fatal") /\ ~pod.going
  /\ pod' = [pod EXCEPT !.stage = "exit1"]
  /\ AgentPatches("Failed")
  /\ UNCHANGED <<made, op, queue, job>>

\* SIGTERM
AgentStops ==
  /\ pod.going /\ \E s \in {"boot", "health", "polling", "fatal"} : At(s)
  /\ pod' = [pod EXCEPT !.stage = "exit0", !.waiting = FALSE]
  /\ UNCHANGED <<run, made, op, queue, news, job, troubled, history>>

-----------------------------------------------------------------------------
(* The manager, the kubelet and the garbage collector.                     *)

CreateRun ==
  /\ ~Exists /\ made < MaxRuns
  /\ made' = made + 1
  /\ \E s \in BOOLEAN : run' = [uid |-> made', phase |-> "Pending", sound |-> s]
  /\ news' = Told(news)
  /\ UNCHANGED <<pod, op, queue, job, troubled, history>>

\* By the manager that replaces it, by the TTL of an ended Run, by hand.
DeleteRun ==
  /\ Exists /\ made < MaxRuns
  /\ run' = NoRun /\ news' = Append(news, "delete") /\ history' = {}
  /\ UNCHANGED <<made, pod, op, queue, job, troubled>>

\* The dispatcher's process is killed.
AgentKilled ==
  /\ Live /\ pod.stage \notin {"exit0", "exit1"} /\ Trouble("dispatcher", "killed")
  /\ pod' = [pod EXCEPT !.stage = "exit1", !.cause = "none", !.waiting = FALSE]
  /\ UNCHANGED <<run, made, op, queue, news, job, history>>

\* The agent's server, which does not end by itself, ends.
EngineEnds ==
  /\ Live /\ pod.engine = "up" /\ Trouble("engine", "ends")
  /\ \E e \in {"exit0", "exit1"} : pod' = [pod EXCEPT !.engine = e]
  /\ UNCHANGED <<run, made, op, queue, news, job, history>>

PodOver(ph) ==
  /\ pod' = [NewPod(pod.uid) EXCEPT !.phase = ph, !.going = pod.going]
  /\ Remember({"finished"})
  /\ UNCHANGED <<run, made, op, queue, news, job, troubled>>

PodEnds ==
  /\ Live /\ pod.engine # "up" /\ pod.stage \in {"exit0", "exit1"}
  /\ PodOver(IF "exit1" \in {pod.engine, pod.stage} THEN "Failed" ELSE "Succeeded")

\* activeDeadlineSeconds, or an eviction.
PodDeadline == Live /\ PodOver("Failed")

\* A node is drained: its pods are deleted.
PodDrained ==
  /\ pod # NoPod /\ ~pod.going /\ Trouble("pod", "drained")
  /\ pod' = [pod EXCEPT !.going = TRUE]
  /\ Remember({"drained"})
  /\ UNCHANGED <<run, made, op, queue, news, job>>

\* The owner of the pod is gone: owners are compared by uid.
PodOrphaned ==
  /\ pod # NoPod /\ ~pod.going /\ pod.uid # run.uid
  /\ pod' = [pod EXCEPT !.going = TRUE]
  /\ UNCHANGED <<run, made, op, queue, news, job, troubled, history>>

PodRemoved ==
  /\ pod.going /\ pod' = NoPod
  /\ UNCHANGED <<run, made, op, queue, news, job, troubled, history>>

Init ==
  /\ run = NoRun /\ made = 0 /\ pod = NoPod /\ op = Idle /\ queue = EmptyQueue
  /\ news = <<>> /\ job = FALSE /\ troubled = 0 /\ history = {}

Operator == Reconcile \/ Resync \/ Informed \/ handleRunDelete \/ OpCrashes
Dispatcher ==
  \/ AgentBoots \/ AgentUnhealthy \/ AgentPrompted \/ AgentWaits \/ AgentEnds
  \/ AgentReports \/ AgentDies \/ AgentStops \/ AgentKilled
Kubernetes ==
  \/ JobEnds \/ EngineEnds \/ PodEnds \/ PodDeadline
  \/ PodDrained \/ PodOrphaned \/ PodRemoved
Manager == CreateRun \/ DeleteRun

Next == Operator \/ Dispatcher \/ Kubernetes \/ Manager

Spec == Init /\ [][Next]_vars

\* The operator's loops and timers go on, the kubelet enforces deadlines, the
\* garbage collector and the jobs end; nothing is assumed of an agent.
Fairness ==
  /\ WF_vars(Reconcile) /\ WF_vars(Resync)
  /\ WF_vars(Informed \/ handleRunDelete)
  /\ WF_vars(PodDeadline) /\ WF_vars(JobEnds \/ PodOrphaned \/ PodRemoved)

FairSpec == Spec /\ Fairness

-----------------------------------------------------------------------------
(* What a Run may count on.                                                *)

\* The types, and two facts of the representation: the Run that exists is the
\* last one made, and the queue holds the key only while it has seen it (the
\* pending, dirty and seen sets of the operator's work queue).
TypeOK ==
  /\ run \in {NoRun} \cup [uid : 1..MaxRuns, phase : Open \cup Terminal, sound : BOOLEAN]
  /\ made \in 0..MaxRuns /\ run.uid \in {0, made}
  /\ pod.phase \in {"None", "Running", "Succeeded", "Failed"} /\ pod.uid \in 0..made
  /\ queue \in [{"seen", "pending", "processing", "dirty"} -> BOOLEAN]
  /\ queue.pending \/ queue.dirty => queue.seen
  /\ news \in Seq({"change", "delete"})
  /\ job \in BOOLEAN
  /\ troubled \in 0..MaxTroubles
  /\ history \subseteq {"gaveup", "finished", "failed", "drained", "reopened"}

OpenRun(u) == run.uid = u /\ run.phase \in Open

\* No pass, timer or event is left that would bring the Run to the operator.
Forgotten == queue = EmptyQueue /\ op = Idle /\ news = <<>>

\* Every Run that is open comes to an end, whatever its agent does, be it dead,
\* silent or at work for ever, and whatever write, pass or operator fails on
\* the way, unless the queue has lost the Run: reconcile, driven by informer,
\* resync and retry, brings the pod's deadline or death back to the Run.
RunsEnd == run.phase \in Open ~> (run.phase \notin Open \/ Forgotten)

\* The work of an agent that came to its end is not done a second time: no pod
\* is made for a Run whose agent has finished, although the Run may still be
\* open (the lost reports of patchStatus) and its pod may vanish.  Pods deleted
\* by others and Runs that their predecessor's dispatcher reopened are excepted.
RunOnce ==
  [][\A u \in 1..MaxRuns :
       OpenRun(u) /\ pod = NoPod /\ pod'.uid = u
         => ("finished" \in history => history \cap {"drained", "reopened"} # {})]_vars

\* A pod whose Run has ended, or is gone, does not stay: the engine container
\* runs on after the dispatcher has exited, and only cleanupChildResources or
\* the garbage collector end it.
PodsReaped == (pod # NoPod /\ ~OpenRun(pod.uid)) ~> (pod = NoPod \/ OpenRun(pod.uid))

\* A failure the dispatcher has recorded is not turned into a success by the
\* operator, whose pass began when the Run was still open and whose pod ended
\* well: the fresh read before the claim (readFreshRun).
FailureStands ==
  "failed" \in history /\ run.phase = "Succeeded" => history \cap {"drained", "reopened"} # {}

\* A Run whose agent has called fail_run, or met a session error, is recorded
\* as ended once the dispatcher of its pod has exited without any trouble (the
\* "standard failure path" of mcp-server.ts and polling.ts).
FailureReported ==
  "gaveup" \in history /\ troubled = 0 /\ pod.uid = run.uid /\ pod.stage = "exit0"
    => run.phase \in Terminal

=============================================================================
