--------------------------- MODULE RunLifecycleProofs ---------------------------
(***************************************************************************)
(* Proofs about RunLifecycle, for any troubles and any number of Runs of   *)
(* one name: the types, that finished work is not done again, and that a   *)
(* recorded failure is not turned into a success.                          *)
(***************************************************************************)
EXTENDS RunLifecycle, SequenceTheorems, TLAPS

-----------------------------------------------------------------------------
(* The types. *)

Phases == Open \cup Terminal
Runs == [uid : 1..MaxRuns, phase : Phases, sound : BOOLEAN]

Pods ==
  [uid : 1..MaxRuns, phase : {"Running", "Succeeded", "Failed"}, going : BOOLEAN,
   engine : {"up", "exit0", "exit1"},
   stage : {"boot", "health", "polling", "ending", "fatal", "exit0", "exit1"},
   cause : Causes \cup {"none"}, waiting : BOOLEAN]

\* A pass of the operator that has read a Run.
Passes ==
  [at : {"ended", "refuse", "pod", "mirror", "create", "created", "giveup", "reap", "fail",
         "claim", "write", "delete"},
   uid : 1..MaxRuns, phase : Phases,
   saw : {"None", "Running", "Succeeded", "Failed", "gone"}]

Queues == [seen : BOOLEAN, pending : BOOLEAN, processing : BOOLEAN, dirty : BOOLEAN]

RunType ==
  /\ run \in {NoRun} \cup Runs /\ made \in 0..MaxRuns /\ run.uid \in {0, made}
  /\ history \subseteq {"gaveup", "finished", "failed", "drained", "reopened"}
PodType == pod \in {NoPod} \cup Pods
OpType == op \in {Idle} \cup Passes
QueueType == queue \in Queues /\ (queue.pending \/ queue.dirty => queue.seen)
RestType ==
  news \in Seq({"change", "delete"}) /\ job \in BOOLEAN /\ troubled \in 0..MaxTroubles

Types == RunType /\ PodType /\ OpType /\ QueueType /\ RestType

\* At first there is nothing.
LEMMA InitTypes == Init => Types
<1> SUFFICES ASSUME Init
             PROVE  Types
  OBVIOUS
<1>1. RunType
  BY BoundsAssumption DEF Init, RunType, NoRun
<1>2. PodType /\ OpType
  BY DEF Init, PodType, OpType
<1>3. QueueType
  BY DEF Init, QueueType, Queues, EmptyQueue
<1>4. RestType
  <2>1. news \in Seq({"change", "delete"})
    BY DEF Init
  <2>2. troubled \in 0..MaxTroubles
    BY BoundsAssumption DEF Init
  <2>3. job \in BOOLEAN
    BY DEF Init
  <2> QED
    BY <2>1, <2>2, <2>3 DEF RestType
<1> QED
  BY <1>1, <1>2, <1>3, <1>4 DEF Types

\* The Run that exists, and the pod.
LEMMA RunThatExists ==
  ASSUME RunType, Exists
  PROVE  run \in Runs /\ run.uid = made /\ made >= 1
BY DEF RunType, Exists, Runs, NoRun

\* A pod there is.
LEMMA PodThatLives ==
  ASSUME PodType, pod # NoPod
  PROVE  pod \in Pods
BY DEF PodType

\* What stands for no Run, no pod and no pass.
LEMMA NoneThere ==
  /\ NoRun.uid = 0 /\ NoRun.phase = "None" /\ NoPod.uid = 0 /\ NoPod.phase = "None"
  /\ NoPod.going = FALSE /\ Idle.at = "idle" /\ Idle.uid = 0
BY DEF NoRun, NoPod, Idle

\* News that is told is news.
LEMMA ToldNews ==
  ASSUME NEW s \in Seq({"change", "delete"})
  PROVE  Told(s) \in Seq({"change", "delete"})
BY AppendProperties DEF Told

\* A Run whose phase is written stays the Run it was.
LEMMA PatchedRun ==
  ASSUME RunType, Exists, NEW ph \in Phases, Patched(ph)
  PROVE  run' \in Runs /\ run'.uid = run.uid /\ run'.phase = ph /\ run' # NoRun
<1>1. run \in Runs
  BY RunThatExists
<1>2. run' = [run EXCEPT !.phase = ph]
  BY DEF Patched
<1>3. run' \in Runs /\ run'.uid = run.uid /\ run'.phase = ph
  BY <1>1, <1>2 DEF Runs
<1>4. 0 \notin 1..MaxRuns
  BY BoundsAssumption
<1> QED
  BY <1>3, <1>4 DEF Runs, NoRun

\* The queue keeps its representation.
KeySeen(q) == q \in Queues /\ (q.pending \/ q.dirty => q.seen)

\* Adding the key keeps it,
LEMMA EnqueuedKey == ASSUME NEW q, KeySeen(q) PROVE KeySeen(enqueue(q))
BY DEF KeySeen, Queues, enqueue

\* and so does letting go of it.
LEMMA ReleasedKey == ASSUME NEW q, KeySeen(q) PROVE KeySeen(Release(q))
<1> DEFINE free == [q EXCEPT !.processing = FALSE, !.dirty = FALSE]
<1>1. KeySeen(free)
  BY DEF KeySeen, Queues
<1> QED
  BY <1>1, EnqueuedKey DEF Release

\* All that is ever done to the queue keeps its type.
LEMMA QueueKept ==
  ASSUME QueueType
  PROVE  /\ queue' = enqueue(queue) => QueueType'
         /\ queue' = Release(queue) => QueueType'
         /\ queue' = Release(dequeue) => QueueType'
         /\ queue' = dequeue => QueueType'
         /\ queue' = EmptyQueue => QueueType'
         /\ queue' = [queue EXCEPT !.pending = FALSE] => QueueType'
         /\ queue' = [queue EXCEPT !.pending = FALSE, !.processing = TRUE] => QueueType'
<1>1. KeySeen(queue) /\ (KeySeen(queue') => QueueType')
  BY DEF QueueType, KeySeen
<1>2. KeySeen(EmptyQueue)
  BY DEF KeySeen, Queues, EmptyQueue
<1>3. KeySeen([queue EXCEPT !.pending = FALSE])
  BY <1>1 DEF KeySeen, Queues
<1>4. KeySeen([queue EXCEPT !.pending = FALSE, !.processing = TRUE])
  BY <1>1 DEF KeySeen, Queues
<1> QED
  BY <1>1, <1>2, <1>3, <1>4, EnqueuedKey, ReleasedKey DEF dequeue


\* Every step keeps the type of the queue,
LEMMA StepQueue ==
  ASSUME Types, [Next]_vars
  PROVE  QueueType'
<1>0. QueueType
  BY DEF Types
<1>1. CASE UNCHANGED queue
  BY <1>0, <1>1 DEF QueueType
<1>2. CASE Done \/ Drop \/ Retry
  BY <1>0, <1>2, QueueKept DEF Done, Drop, Retry
<1>3. \A at : Goes(at) => UNCHANGED queue
  BY DEF Goes
<1>4. CASE OpTakes \/ OpRefuses \/ OpFindsPod \/ OpCreatesPod \/ OpRecordsPod
  BY <1>0, <1>1, <1>2, <1>3, <1>4, QueueKept
  DEF OpTakes, OpRefuses, OpFindsPod, OpCreatesPod, OpRecordsPod, OpPatches
<1>5. CASE OpGivesUp \/ OpMirrors \/ OpClaims \/ OpSucceeds \/ OpFails
  BY <1>1, <1>2, <1>3, <1>5
  DEF OpGivesUp, OpMirrors, OpClaims, OpSucceeds, OpFails, OpPatches, Judge
<1>6. CASE OpReaps \/ OpDeletesPod \/ OpSeesEnded
  BY <1>1, <1>2, <1>3, <1>6 DEF OpReaps, OpDeletesPod, OpSeesEnded
<1>7. CASE Resync \/ Informed \/ handleRunDelete \/ OpCrashes
  BY <1>0, <1>7, QueueKept DEF Resync, Informed, handleRunDelete, OpCrashes
<1> QED
  BY <1>1, <1>4, <1>5, <1>6, <1>7
  DEF Next, Operator, Reconcile, Dispatcher, Kubernetes, Manager, AgentBoots, AgentUnhealthy,
      AgentPrompted, AgentWaits, AgentEnds, AgentReports, AgentDies, AgentStops, AgentKilled,
      JobEnds, EngineEnds, PodEnds, PodDeadline, PodDrained, PodOrphaned, PodRemoved, PodOver,
      CreateRun, DeleteRun, vars

\* that of the operator's pass,
LEMMA StepOp ==
  ASSUME Types, [Next]_vars
  PROVE  OpType'
<1>0. RunType /\ PodType /\ OpType
  BY DEF Types
<1>1. UNCHANGED op \/ op' = Idle => OpType'
  BY <1>0 DEF OpType
<1>2. Done \/ Drop \/ Retry => OpType'
  BY <1>1 DEF Done, Drop, Retry
<1>3. CASE OpTakes
  <2>1. CASE op' = Idle
    BY <1>1, <2>1
  <2>2. CASE Exists /\ op' = [at |-> Entry(run), uid |-> run.uid, phase |-> run.phase, saw |-> "None"]
    <3>1. run \in Runs
      BY <1>0, <2>2, RunThatExists
    <3>2. Entry(run) \in {"ended", "refuse", "pod"}
      BY DEF Entry
    <3> QED
      BY <2>2, <3>1, <3>2 DEF OpType, Passes, Runs
  <2> QED
    BY <1>3, <2>1, <2>2 DEF OpTakes, Drop
<1>4. CASE Reconcile /\ ~OpTakes
  <2>1. op \in Passes
    BY <1>0, <1>4, NoneThere
    DEF OpType, Reconcile, OpTakes, OpRefuses, OpFindsPod, OpCreatesPod, OpRecordsPod, OpGivesUp,
        OpMirrors, OpClaims, OpSucceeds, OpFails, OpReaps, OpDeletesPod, OpSeesEnded
  <2>2. \A at \in {"create", "created", "giveup", "reap", "fail", "claim", "write", "delete"} :
          Goes(at) => OpType'
    BY <2>1 DEF Goes, OpType, Passes
  <2>3. \A s \in {"Running", "Succeeded", "Failed", "gone"}, at \in {"mirror", "giveup"} :
          op' = [op EXCEPT !.at = at, !.saw = s] => OpType'
    BY <2>1 DEF OpType, Passes
  <2>4. pod # NoPod => pod.phase \in {"Running", "Succeeded", "Failed"}
    BY <1>0, PodThatLives DEF Pods
  <2>5. CASE OpRefuses \/ OpFindsPod \/ OpCreatesPod \/ OpRecordsPod
    BY <1>1, <1>2, <2>2, <2>3, <2>4, <2>5
    DEF OpRefuses, OpFindsPod, OpCreatesPod, OpRecordsPod, OpPatches
  <2>6. CASE OpGivesUp \/ OpMirrors \/ OpClaims \/ OpSucceeds \/ OpFails
    BY <1>1, <1>2, <2>2, <2>6
    DEF OpGivesUp, OpMirrors, OpClaims, OpSucceeds, OpFails, OpPatches, Judge
  <2>7. CASE OpReaps \/ OpDeletesPod \/ OpSeesEnded
    BY <1>1, <1>2, <2>2, <2>7 DEF OpReaps, OpDeletesPod, OpSeesEnded
  <2> QED
    BY <1>4, <2>5, <2>6, <2>7 DEF Reconcile
<1> QED
  BY <1>1, <1>3, <1>4
  DEF Next, Operator, Resync, Informed, handleRunDelete, OpCrashes,
      Dispatcher, Kubernetes, Manager, AgentBoots, AgentUnhealthy,
      AgentPrompted, AgentWaits, AgentEnds, AgentReports, AgentDies, AgentStops, AgentKilled,
      JobEnds, EngineEnds, PodEnds, PodDeadline, PodDrained, PodOrphaned, PodRemoved, PodOver,
      CreateRun, DeleteRun, vars

\* and that of the pod.
LEMMA StepPod ==
  ASSUME Types, [Next]_vars
  PROVE  PodType'
<1>0. RunType /\ PodType /\ OpType
  BY DEF Types
<1>1. UNCHANGED pod \/ pod' = NoPod => PodType'
  BY <1>0 DEF PodType
<1>2. \A u \in 1..MaxRuns : NewPod(u) \in Pods
  BY DEF NewPod, Pods
<1>3. Live => pod \in Pods
  BY <1>0, NoneThere, PodThatLives DEF Live
<1>4. CASE AgentBoots \/ AgentUnhealthy \/ AgentPrompted \/ AgentReports \/ AgentDies
  BY <1>3, <1>4
  DEF AgentBoots, AgentUnhealthy, AgentPrompted, AgentReports, AgentDies, At, PodType, Pods
<1>5. CASE AgentWaits
  BY <1>3, <1>5 DEF AgentWaits, At, PodType, Pods
<1>6. CASE AgentEnds
  BY <1>3, <1>6 DEF AgentEnds, At, PodType, Pods
<1>7. CASE AgentStops \/ AgentKilled \/ EngineEnds
  BY <1>3, <1>7 DEF AgentStops, AgentKilled, EngineEnds, At, PodType, Pods
<1>8. CASE PodEnds \/ PodDeadline
  <2>1. PICK ph \in {"Succeeded", "Failed"} :
          pod' = [NewPod(pod.uid) EXCEPT !.phase = ph, !.going = pod.going]
    BY <1>8 DEF PodEnds, PodDeadline, PodOver
  <2>2. pod \in Pods
    BY <1>3, <1>8 DEF PodEnds, PodDeadline
  <2> QED
    BY <1>2, <2>1, <2>2 DEF PodType, Pods
<1>9. ASSUME pod # NoPod, pod' = [pod EXCEPT !.going = TRUE]
      PROVE  PodType'
  BY <1>0, <1>9, PodThatLives DEF PodType, Pods
<1>10. CASE OpDeletesPod \/ PodDrained \/ PodOrphaned \/ PodRemoved
  BY <1>1, <1>9, <1>10 DEF OpDeletesPod, PodDrained, PodOrphaned, PodRemoved
<1>11. CASE OpCreatesPod
  <2>1. op \in Passes
    BY <1>0, <1>11, NoneThere DEF OpCreatesPod, OpType
  <2> QED
    BY <1>1, <1>2, <1>11, <2>1 DEF OpCreatesPod, PodType, Passes
<1> QED
  BY <1>1, <1>4, <1>5, <1>6, <1>7, <1>8, <1>10, <1>11
  DEF Next, Operator, Reconcile, Dispatcher, Kubernetes, Manager, OpTakes, OpRefuses, OpFindsPod,
      OpRecordsPod, OpGivesUp, OpMirrors, OpClaims, OpSucceeds, OpFails, OpReaps, OpSeesEnded,
      Resync, Informed, handleRunDelete, OpCrashes, JobEnds, CreateRun, DeleteRun, cluster, vars

\* What a write of the operator or of a dispatcher does to the Run: it may set
\* its phase, and no more.
Written(ph) == \/ Exists /\ Patched(ph)
               \/ UNCHANGED <<run, news>>

\* Such a write keeps the types of the Run and of the news.
LEMMA WrittenRun ==
  ASSUME Types, NEW ph \in Phases, Written(ph), made' = made,
         history' \subseteq {"gaveup", "finished", "failed", "drained", "reopened"}
  PROVE  RunType' /\ news' \in Seq({"change", "delete"})
<1>0. RunType /\ news \in Seq({"change", "delete"})
  BY DEF Types, RestType
<1>1. CASE Exists /\ Patched(ph)
  <2>1. run' \in Runs /\ run'.uid = run.uid
    BY <1>0, <1>1, PatchedRun
  <2>2. news' \in Seq({"change", "delete"})
    BY <1>0, <1>1, ToldNews DEF Patched
  <2> QED
    BY <1>0, <2>1, <2>2 DEF RunType
<1>2. CASE UNCHANGED <<run, news>>
  BY <1>0, <1>2 DEF RunType
<1> QED
  BY <1>1, <1>2 DEF Written

\* The writes of a pass.
LEMMA PassWrites ==
  ASSUME Reconcile
  PROVE  /\ UNCHANGED <<made, history>>
         /\ \/ Written("Initializing") /\ (OpRecordsPod \/ OpMirrors)
            \/ Written("Failed") /\ (OpRefuses \/ OpGivesUp \/ OpFails)
            \/ Written("Succeeded") /\ OpSucceeds
            \/ UNCHANGED <<run, news>>
<1>1. CASE OpRefuses \/ OpGivesUp \/ OpFails \/ OpSucceeds
  BY <1>1 DEF OpRefuses, OpGivesUp, OpFails, OpSucceeds, OpPatches, Written
<1>2. CASE OpRecordsPod \/ OpMirrors
  BY <1>2 DEF OpRecordsPod, OpMirrors, OpPatches, Written
<1>3. CASE ~(OpRefuses \/ OpGivesUp \/ OpFails \/ OpSucceeds \/ OpRecordsPod \/ OpMirrors)
  BY <1>3 DEF Reconcile, OpTakes, OpFindsPod, OpCreatesPod, OpClaims, OpReaps, OpDeletesPod,
              OpSeesEnded
<1> QED
  BY <1>1, <1>2, <1>3

\* The writes of a dispatcher.
LEMMA DispatcherWrites ==
  ASSUME Dispatcher
  PROVE  /\ UNCHANGED <<made, job>> /\ Live
         /\ \E ph \in Phases : Written(ph)
         /\ history' \subseteq history \cup {"gaveup", "finished", "failed", "reopened"}
<1>1. Live /\ UNCHANGED <<made, job>>
  BY DEF Dispatcher, AgentBoots, AgentUnhealthy, AgentPrompted, AgentWaits, AgentEnds, AgentReports,
         AgentDies, AgentStops, AgentKilled, At
<1>2. ASSUME NEW ph \in Phases, AgentPatches(ph)
      PROVE  Written(ph) /\ history' \subseteq history \cup {"failed", "reopened"}
  BY <1>2 DEF AgentPatches, Written, Remember
<1>3. CASE AgentBoots \/ AgentPrompted \/ AgentReports \/ AgentDies
  <2>1. \E ph \in Phases : AgentPatches(ph)
    BY <1>3 DEF AgentBoots, AgentPrompted, AgentReports, AgentDies, Outcome, Phases, Open, Terminal
  <2> QED
    BY <1>1, <1>2, <2>1
<1>4. CASE AgentWaits
  <2>1. \E ph \in Phases : AgentPatches(ph)
    BY <1>4 DEF AgentWaits, Phases, Open, Terminal
  <2> QED
    BY <1>1, <1>2, <2>1
<1>5. CASE AgentUnhealthy \/ AgentEnds \/ AgentStops \/ AgentKilled
  <2>1. UNCHANGED <<run, news>>
    BY <1>5 DEF AgentUnhealthy, AgentEnds, AgentStops, AgentKilled
  <2>2. history' \subseteq history \cup {"gaveup", "finished"}
    BY <1>5 DEF AgentUnhealthy, AgentEnds, AgentStops, AgentKilled, Remember
  <2> QED
    BY <1>1, <2>1, <2>2 DEF Written, Phases, Open
<1> QED
  BY <1>3, <1>4, <1>5 DEF Dispatcher

\* Every step keeps the types of the Run and of the news.
LEMMA StepRun ==
  ASSUME Types, [Next]_vars
  PROVE  RunType' /\ news' \in Seq({"change", "delete"})
<1>0. RunType /\ news \in Seq({"change", "delete"})
  BY DEF Types, RestType
<1>1. CASE Reconcile
  <2>1. UNCHANGED <<made, history>> /\ \E ph \in Phases : Written(ph)
    BY <1>1, PassWrites DEF Phases, Open, Terminal, Written
  <2> QED
    BY <1>0, <2>1, WrittenRun DEF RunType
<1>2. CASE Dispatcher
  BY <1>0, <1>2, DispatcherWrites, WrittenRun DEF RunType
<1>3. CASE Resync \/ Informed \/ handleRunDelete \/ OpCrashes
  <2>1. UNCHANGED <<run, made, history>>
    BY <1>3 DEF Resync, Informed, handleRunDelete, OpCrashes, cluster
  <2>2. news' \in Seq({"change", "delete"})
    <3>1. <<>> \in Seq({"change", "delete"}) /\ <<"change">> \in Seq({"change", "delete"})
      OBVIOUS
    <3>2. news # <<>> => Tail(news) \in Seq({"change", "delete"})
      BY <1>0
    <3> QED
      BY <1>0, <1>3, <3>1, <3>2 DEF Resync, Informed, handleRunDelete, OpCrashes
  <2> QED
    BY <1>0, <2>1, <2>2 DEF RunType
<1>4. CASE Kubernetes
  <2>1. UNCHANGED <<run, made, news>> /\ history' \subseteq history \cup {"finished", "drained"}
    BY <1>4 DEF Kubernetes, JobEnds, EngineEnds, PodEnds, PodDeadline, PodDrained, PodOrphaned,
                PodRemoved, PodOver, Remember
  <2> QED
    BY <1>0, <2>1 DEF RunType
<1>5. CASE CreateRun
  <2>1. made + 1 \in 1..MaxRuns
    BY <1>0, <1>5, BoundsAssumption DEF RunType, CreateRun
  <2>2. run' \in Runs /\ run'.uid = made' /\ made' = made + 1
    BY <1>5, <2>1 DEF CreateRun, Runs, Phases, Open
  <2>3. news' \in Seq({"change", "delete"}) /\ history' = history
    BY <1>0, <1>5, ToldNews DEF CreateRun
  <2> QED
    BY <1>0, <2>1, <2>2, <2>3 DEF RunType
<1>6. CASE DeleteRun
  BY <1>0, <1>6, NoneThere DEF DeleteRun, RunType
<1>7. CASE UNCHANGED vars
  BY <1>0, <1>7 DEF vars, RunType
<1> QED
  BY <1>1, <1>2, <1>3, <1>4, <1>5, <1>6, <1>7 DEF Next, Operator, Manager

\* The job, and the count of troubles.
LEMMA StepRest ==
  ASSUME Types, [Next]_vars
  PROVE  /\ job' \in BOOLEAN /\ troubled' \in 0..MaxTroubles
         /\ troubled' = troubled \/ troubled' = troubled + 1
<1>0. job \in BOOLEAN /\ troubled \in 0..MaxTroubles
  BY DEF Types, RestType
<1>1. troubled' = troubled \/ (troubled < MaxTroubles /\ troubled' = troubled + 1)
  <2>1. CASE Reconcile
    BY <2>1 DEF Reconcile, OpTakes, OpRefuses, OpFindsPod, OpCreatesPod, OpRecordsPod, OpGivesUp,
                OpMirrors, OpClaims, OpSucceeds, OpFails, OpReaps, OpDeletesPod, OpSeesEnded,
                OpPatches, Trouble
  <2>2. CASE Dispatcher
    BY <2>2 DEF Dispatcher, AgentBoots, AgentUnhealthy, AgentPrompted, AgentWaits, AgentEnds,
                AgentReports, AgentDies, AgentStops, AgentKilled, AgentPatches, Trouble
  <2>3. CASE Kubernetes \/ Manager
    BY <2>3 DEF Kubernetes, JobEnds, EngineEnds, PodEnds, PodDeadline, PodDrained, PodOrphaned,
                PodRemoved, PodOver, Manager, CreateRun, DeleteRun, Trouble
  <2> QED
    BY <2>1, <2>2, <2>3
    DEF Next, Operator, Resync, Informed, handleRunDelete, OpCrashes, Trouble, cluster, vars
<1>2. job' = job \/ job' \in BOOLEAN
  BY DispatcherWrites
  DEF Next, Operator, Reconcile, Kubernetes, Manager, OpTakes, OpRefuses, OpFindsPod, OpCreatesPod,
      OpRecordsPod, OpGivesUp, OpMirrors, OpClaims, OpSucceeds, OpFails, OpReaps, OpDeletesPod,
      OpSeesEnded, Resync, Informed, handleRunDelete, OpCrashes, JobEnds, EngineEnds, PodEnds,
      PodDeadline, PodDrained, PodOrphaned, PodRemoved, PodOver, CreateRun, DeleteRun, cluster, vars
<1> QED
  BY <1>0, <1>1, <1>2, BoundsAssumption

\* Every step keeps the types.
LEMMA StepTypes ==
  ASSUME Types, [Next]_vars
  PROVE  Types'
BY StepQueue, StepOp, StepPod, StepRun, StepRest DEF Types, RestType


-----------------------------------------------------------------------------
(* Who is about whom: passes and pods are of the last Run or of earlier     *)
(* ones, and history is of the Run that exists.                             *)

Own == Exists /\ pod.uid = run.uid

Order ==
  /\ pod.uid <= made /\ op.uid <= made
  /\ op # Idle => pod.uid <= op.uid
  /\ ~Exists => history = {}
  /\ "finished" \in history =>
       /\ op # Idle => op.uid = run.uid
       /\ pod # NoPod => Own

\* A pod that exists has the uid of a Run, and so has a pass.
LEMMA Numbered ==
  ASSUME Types
  PROVE  /\ made \in Nat /\ run.uid \in Nat /\ pod.uid \in Nat /\ op.uid \in Nat
         /\ pod = NoPod <=> pod.uid = 0
         /\ op = Idle <=> op.uid = 0
         /\ Exists <=> run.uid # 0
         /\ Exists => run.uid = made /\ run.phase \in Phases
<1>0. BoundsAssumption
  BY BoundsAssumption
<1>1. CASE pod = NoPod
  BY <1>0, <1>1, NoneThere DEF Types, RunType, PodType, OpType, Exists, Runs, Passes, BoundsAssumption
<1>2. CASE pod # NoPod
  <2>1. pod \in Pods
    BY <1>2, PodThatLives DEF Types
  <2> QED
    BY <1>0, <1>2, <2>1, NoneThere DEF Types, RunType, OpType, Exists, Runs, Pods, Passes,
                                       BoundsAssumption
<1> QED
  BY <1>1, <1>2

\* The stages in which a pass makes the pod, and those in which it may write
\* an open phase.
Opening ==
  \/ op.at \in {"pod", "create", "created"}
  \/ op.at = "mirror" /\ op.phase = "Pending"

\* What a pass does to itself and to the pod.
LEMMA PassMoves ==
  ASSUME Types, Reconcile
  PROVE  /\ \/ op' = Idle
            \/ /\ op # Idle /\ ~OpTakes /\ op' \in Passes /\ op'.uid = op.uid
               /\ op'.phase = op.phase /\ (Opening' => Opening)
               /\ op'.at = "delete" => OpReaps /\ Exists /\ run.phase \in Terminal
            \/ /\ OpTakes /\ Exists /\ op' \in Passes /\ op'.uid = run.uid
               /\ op'.phase = run.phase /\ op'.at \in {"ended", "refuse", "pod"}
               /\ op'.at = "pod" => run.phase \in Open
         /\ \/ pod' = pod
            \/ OpCreatesPod /\ pod = NoPod /\ op.at = "create" /\ pod' = NewPod(op.uid)
               /\ op'.at = "created"
            \/ /\ OpDeletesPod /\ op.at = "delete" /\ op' = Idle
               /\ pod # NoPod /\ pod' = [pod EXCEPT !.going = TRUE]
<1>0. RunType /\ PodType /\ OpType
  BY DEF Types
<1>a. Done \/ Drop \/ Retry => op' = Idle
  BY DEF Done, Drop, Retry
<1>1. CASE OpTakes
  <2>1. CASE op' = Idle
    BY <1>1, <2>1 DEF OpTakes
  <2>2. CASE Exists /\ op' = [at |-> Entry(run), uid |-> run.uid, phase |-> run.phase, saw |-> "None"]
    <3>1. run \in Runs
      BY <1>0, <2>2, RunThatExists
    <3>2. Entry(run) \in {"ended", "refuse", "pod"} /\ (Entry(run) = "pod" => run.phase \in Open)
      BY <3>1 DEF Entry, Runs, Phases
    <3>3. op' \in Passes /\ op'.uid = run.uid /\ op'.phase = run.phase /\ op'.at = Entry(run)
      BY <2>2, <3>1, <3>2 DEF Passes, Runs
    <3> QED
      BY <1>1, <2>2, <3>2, <3>3 DEF OpTakes
  <2> QED
    BY <1>1, <1>a, <2>1, <2>2 DEF OpTakes
<1>2. CASE ~OpTakes
  <2>1. op \in Passes /\ op # Idle
    BY <1>0, <1>2, NoneThere
    DEF OpType, Reconcile, OpTakes, OpRefuses, OpFindsPod, OpCreatesPod, OpRecordsPod, OpGivesUp,
        OpMirrors, OpClaims, OpSucceeds, OpFails, OpReaps, OpDeletesPod, OpSeesEnded
  <2> DEFINE Same == op' \in Passes /\ op'.uid = op.uid /\ op'.phase = op.phase
  <2>2. \A at \in {"create", "created", "giveup", "reap", "fail", "claim", "write", "delete"} :
          Goes(at) => Same /\ op'.at = at
    BY <2>1 DEF Goes, Passes
  <2>3. \A x \in {"Running", "Succeeded", "Failed", "gone"}, at \in {"mirror", "giveup"} :
          op' = [op EXCEPT !.at = at, !.saw = x] => Same /\ op'.at = at
    BY <2>1 DEF Passes
  <2>4. pod # NoPod => pod.phase \in {"Running", "Succeeded", "Failed"}
    BY <1>0, PodThatLives DEF Pods
  <2> HIDE DEF Same
  <2>5. CASE OpFindsPod
    <3>1. op' = Idle \/ (Same /\ op'.at \in {"mirror", "create", "giveup"})
      BY <1>a, <2>2, <2>3, <2>4, <2>5 DEF OpFindsPod
    <3> QED
      BY <1>2, <2>1, <2>5, <3>1 DEF OpFindsPod, Opening, Same
  <2>6. CASE OpCreatesPod
    <3>1. Same /\ op'.at \in {"mirror", "created", "giveup"}
      BY <2>2, <2>3, <2>4, <2>6 DEF OpCreatesPod
    <3>2. pod' = pod \/ (pod = NoPod /\ pod' = NewPod(op.uid) /\ op'.at = "created")
      BY <2>2, <2>6 DEF OpCreatesPod
    <3> QED
      BY <1>2, <2>1, <2>6, <3>1, <3>2 DEF OpCreatesPod, Opening, Same
  <2>7. CASE OpRecordsPod
    <3>1. Same /\ op'.at \in {"mirror", "giveup"}
      BY <2>2, <2>3, <2>7 DEF OpRecordsPod
    <3> QED
      BY <1>2, <2>1, <2>7, <3>1 DEF OpRecordsPod, Opening, Same
  <2>8. CASE OpRefuses \/ OpGivesUp \/ OpMirrors \/ OpClaims \/ OpSucceeds \/ OpFails
    <3>1. op' = Idle \/ (Same /\ op'.at \in {"claim", "fail", "reap", "write"})
      BY <1>a, <2>2, <2>8 DEF OpRefuses, OpGivesUp, OpMirrors, OpClaims, OpSucceeds, OpFails,
                              OpPatches, Judge
    <3>2. pod' = pod
      BY <2>8 DEF OpRefuses, OpGivesUp, OpMirrors, OpClaims, OpSucceeds, OpFails
    <3> QED
      BY <1>2, <2>1, <3>1, <3>2 DEF Opening, Same
  <2>9. CASE OpReaps
    <3>1. op' = Idle \/ (Same /\ op'.at = "delete" /\ MayReap)
      BY <1>a, <2>2, <2>9 DEF OpReaps
    <3> QED
      BY <1>2, <2>1, <2>9, <3>1 DEF OpReaps, MayReap, Opening, Same
  <2>10. CASE OpDeletesPod
    BY <1>a, <2>10 DEF OpDeletesPod
  <2>11. CASE OpSeesEnded
    <3>1. op' = Idle \/ (Same /\ op'.at = "reap")
      BY <1>a, <2>2, <2>11 DEF OpSeesEnded
    <3> QED
      BY <1>2, <2>1, <2>11, <3>1 DEF OpSeesEnded, Opening, Same
  <2> QED
    BY <1>2, <2>5, <2>6, <2>7, <2>8, <2>9, <2>10, <2>11 DEF Reconcile
<1> QED
  BY <1>1, <1>2

\* What the dispatcher of a pod and the cluster do to the pod.
SamePod == pod' # NoPod /\ pod'.uid = pod.uid /\ pod'.going = pod.going

\* A dispatcher leaves the pod the pod it is, and the Run the Run it is.
LEMMA DispatcherMoves ==
  ASSUME Types, Dispatcher
  PROVE  op' = op /\ pod # NoPod /\ SamePod /\ (Exists' <=> Exists) /\ run'.uid = run.uid
<1>1. Live /\ pod # NoPod /\ pod \in Pods
  BY DispatcherWrites, NoneThere, PodThatLives DEF Live, Types
<1>2. op' = op
  BY DEF Dispatcher, AgentBoots, AgentUnhealthy, AgentPrompted, AgentWaits, AgentEnds, AgentReports,
         AgentDies, AgentStops, AgentKilled
<1>3. pod' \in Pods /\ pod'.uid = pod.uid /\ pod'.going = pod.going
  <2>1. CASE AgentBoots \/ AgentUnhealthy \/ AgentPrompted \/ AgentReports \/ AgentDies
    BY <1>1, <2>1 DEF AgentBoots, AgentUnhealthy, AgentPrompted, AgentReports, AgentDies, Pods
  <2>2. CASE AgentWaits
    BY <1>1, <2>2 DEF AgentWaits, Pods
  <2>3. CASE AgentEnds
    BY <1>1, <2>3 DEF AgentEnds, Pods
  <2>4. CASE AgentStops \/ AgentKilled
    BY <1>1, <2>4 DEF AgentStops, AgentKilled, Pods
  <2> QED
    BY <2>1, <2>2, <2>3, <2>4 DEF Dispatcher
<1>4. pod' # NoPod
  BY <1>3, NoneThere, BoundsAssumption DEF Pods
<1>5. (Exists' <=> Exists) /\ run'.uid = run.uid
  BY DispatcherWrites, PatchedRun DEF Written, Types, Exists
<1> QED
  BY <1>1, <1>2, <1>3, <1>4, <1>5 DEF SamePod

\* The cluster ends, drains or removes the pod, and leaves the Run.
LEMMA ClusterMoves ==
  ASSUME Types, Kubernetes
  PROVE  /\ UNCHANGED <<op, run, made>>
         /\ \/ pod' = pod /\ history' = history
            \/ pod # NoPod /\ SamePod
               /\ (history' = history \/ (pod.uid = run.uid /\ history' = history \cup {"finished"}))
            \/ /\ pod # NoPod /\ pod' # NoPod /\ pod'.uid = pod.uid
               /\ \/ pod.uid = run.uid /\ history' = history \cup {"drained"}
                  \/ pod.uid # run.uid /\ history' = history
            \/ PodRemoved /\ pod.going /\ pod' = NoPod /\ history' = history
<1>0. pod # NoPod => pod \in Pods
  BY PodThatLives DEF Types
<1>a. ASSUME pod # NoPod, pod' \in Pods
      PROVE  pod' # NoPod
  BY <1>a, NoneThere, BoundsAssumption DEF Pods
<1>1. CASE JobEnds
  BY <1>1 DEF JobEnds
<1>2. CASE EngineEnds
  <2>1. pod # NoPod
    BY <1>2, NoneThere DEF EngineEnds, Live
  <2>2. pod' \in Pods /\ pod'.uid = pod.uid /\ pod'.going = pod.going
    BY <1>0, <1>2, <2>1 DEF EngineEnds, Pods
  <2> QED
    BY <1>2, <1>a, <2>1, <2>2 DEF EngineEnds, SamePod
<1>3. CASE PodEnds \/ PodDeadline
  <2>1. PICK ph \in {"Succeeded", "Failed"} : PodOver(ph)
    BY <1>3 DEF PodEnds, PodDeadline
  <2>2. pod # NoPod
    BY <1>3, NoneThere DEF PodEnds, PodDeadline, Live
  <2>3. pod' \in Pods /\ pod'.uid = pod.uid /\ pod'.going = pod.going
    BY <1>0, <2>1, <2>2 DEF PodOver, NewPod, Pods
  <2> QED
    BY <1>a, <2>1, <2>2, <2>3 DEF PodOver, Remember, SamePod
<1>4. CASE PodDrained \/ PodOrphaned
  <2>1. pod # NoPod /\ pod' = [pod EXCEPT !.going = TRUE]
    BY <1>4 DEF PodDrained, PodOrphaned
  <2>2. pod' \in Pods /\ pod'.uid = pod.uid
    BY <1>0, <2>1 DEF Pods
  <2> QED
    BY <1>4, <1>a, <2>1, <2>2 DEF PodDrained, PodOrphaned, Remember
<1>5. CASE PodRemoved
  BY <1>5 DEF PodRemoved
<1> QED
  BY <1>1, <1>2, <1>3, <1>4, <1>5 DEF Kubernetes


\* A dispatcher marks the history of its own Run only, and marks it when it
\* opens a Run that was over.
LEMMA DispatcherMarks ==
  ASSUME Types, Dispatcher
  PROVE  /\ history \subseteq history' /\ (history' = history \/ pod.uid = run.uid)
         /\ Own /\ run.phase \in Terminal /\ "reopened" \notin history' => run'.phase \in Terminal
<1>1. ASSUME NEW ph \in Phases, AgentPatches(ph)
      PROVE  /\ history \subseteq history' /\ (history' = history \/ pod.uid = run.uid)
             /\ Own /\ run.phase \in Terminal /\ "reopened" \notin history' => run'.phase \in Terminal
  <2>1. CASE Exists /\ Patched(ph) /\ Remember(IF ph = "Failed" THEN {"failed"}
                 ELSE IF run.phase \in Terminal /\ ph \in Open THEN {"reopened"} ELSE {})
    <3>1. run'.phase = ph
      BY <2>1, PatchedRun DEF Types
    <3> QED
      BY <2>1, <3>1 DEF Remember, Own, Phases, Terminal
  <2>2. CASE UNCHANGED <<run, history>>
    BY <2>2
  <2> QED
    BY <1>1, <2>1, <2>2 DEF AgentPatches
<1>2. CASE AgentBoots \/ AgentPrompted \/ AgentReports \/ AgentDies
  <2>1. \E ph \in Phases : AgentPatches(ph)
    BY <1>2 DEF AgentBoots, AgentPrompted, AgentReports, AgentDies, Outcome, Phases, Open, Terminal
  <2> QED
    BY <1>1, <2>1
<1>3. CASE AgentWaits
  <2>1. \E ph \in Phases : AgentPatches(ph)
    BY <1>3 DEF AgentWaits, Phases, Open, Terminal
  <2> QED
    BY <1>1, <2>1
<1>4. CASE AgentUnhealthy \/ AgentEnds \/ AgentStops \/ AgentKilled
  BY <1>4 DEF AgentUnhealthy, AgentEnds, AgentStops, AgentKilled, Remember
<1> QED
  BY <1>2, <1>3, <1>4 DEF Dispatcher

\* At first nothing is about anything.
LEMMA InitOrder == Init => Order
BY NoneThere DEF Init, Order

\* Every step keeps that order.
LEMMA StepOrder ==
  ASSUME Types, Order, [Next]_vars
  PROVE  Order'
<1>0. Types'
  BY StepTypes
<1>n. /\ made \in Nat /\ run.uid \in Nat /\ pod.uid \in Nat /\ op.uid \in Nat
      /\ (pod = NoPod <=> pod.uid = 0) /\ (op = Idle <=> op.uid = 0) /\ (Exists <=> run.uid # 0)
      /\ (Exists => run.uid = made)
  BY Numbered
<1>m. /\ (pod' = NoPod <=> pod'.uid = 0) /\ (op' = Idle <=> op'.uid = 0)
      /\ (Exists' <=> run'.uid # 0)
  <2>1. Types' => (/\ (pod = NoPod <=> pod.uid = 0) /\ (op = Idle <=> op.uid = 0)
                   /\ (Exists <=> run.uid # 0))'
    BY Numbered, PTL
  <2> QED
    BY <1>0, <2>1
<1>1. CASE UNCHANGED <<run, made, pod, history>> /\ (op' = op \/ op' = Idle)
  BY <1>1, <1>n, NoneThere DEF Order, Own, Exists
<1>2. CASE Reconcile
  <2>1. UNCHANGED <<made, history>> /\ run'.uid = run.uid
    BY <1>2, PassWrites, PatchedRun DEF Written, Types, Phases, Open, Terminal
  <2>2. op'.uid = 0 \/ op'.uid = op.uid \/ (Exists /\ op'.uid = run.uid)
    BY <1>2, PassMoves, NoneThere
  <2>3. \/ pod'.uid = pod.uid
        \/ pod.uid = 0 /\ pod'.uid = op.uid /\ op # Idle /\ op'.uid = op.uid
    <3>1. pod # NoPod => [pod EXCEPT !.going = TRUE].uid = pod.uid
      BY PodThatLives DEF Pods, Types
    <3>2. NewPod(op.uid).uid = op.uid
      BY DEF NewPod
    <3>3. CASE pod' = pod \/ (pod # NoPod /\ pod' = [pod EXCEPT !.going = TRUE])
      BY <3>1, <3>3
    <3>4. CASE pod = NoPod /\ op.at = "create" /\ pod' = NewPod(op.uid) /\ op'.at = "created"
      BY <1>2, <3>2, <3>4, PassMoves, NoneThere
    <3> QED
      BY <1>2, <3>3, <3>4, PassMoves
  <2> QED
    BY <1>n, <1>m, <2>1, <2>2, <2>3 DEF Order, Own
<1>3. CASE Dispatcher
  <2>1. made' = made /\ op' = op /\ pod # NoPod /\ pod'.uid = pod.uid /\ run'.uid = run.uid
    BY <1>3, DispatcherMoves, DispatcherWrites DEF SamePod
  <2>2. history' = history \/ pod.uid = run.uid
    BY <1>3, DispatcherMarks
  <2> QED
    BY <1>n, <1>m, <2>1, <2>2 DEF Order, Own
<1>4. CASE Kubernetes
  <2>1. UNCHANGED <<op, run, made>> /\ (pod'.uid = pod.uid \/ pod'.uid = 0)
        /\ (history' = history \/ (pod # NoPod /\ pod.uid = run.uid))
    BY <1>4, ClusterMoves, NoneThere DEF SamePod
  <2> QED
    BY <1>n, <1>m, <2>1 DEF Order, Own
<1>5. CASE CreateRun
  <2>1. made' = made + 1 /\ run'.uid = made + 1 /\ UNCHANGED <<pod, op, history>> /\ ~Exists
    BY <1>5 DEF CreateRun
  <2> QED
    BY <1>n, <1>m, <2>1 DEF Order, Own
<1>6. CASE DeleteRun
  BY <1>n, <1>6 DEF DeleteRun, Order, Own, Exists
<1> QED
  BY <1>1, <1>2, <1>3, <1>4, <1>5, <1>6
  DEF Next, Operator, Resync, Informed, handleRunDelete, OpCrashes, Manager, cluster, vars

-----------------------------------------------------------------------------
(* A pod whose agent has finished stays until its Run is over. *)

Clean == "drained" \notin history /\ "reopened" \notin history

PodStays ==
  Clean =>
    /\ Own /\ pod.going => run.phase \in Terminal
    /\ Own /\ op.at = "delete" => run.phase \in Terminal
    /\ "finished" \in history /\ pod = NoPod => run.phase \in Terminal
    /\ Opening /\ Own => ~pod.going
    /\ Opening /\ "finished" \in history => Own

\* An open phase is written by a pass that makes the pod, or found the Run new.
LEMMA OpeningWrites ==
  ASSUME Types, Reconcile
  PROVE  /\ history' = history /\ run'.uid = run.uid /\ (Exists' <=> Exists)
         /\ \/ run' = run
            \/ run'.phase \in Terminal
            \/ /\ run'.phase = "Initializing" /\ (OpRecordsPod \/ OpMirrors)
               /\ Opening /\ UNCHANGED pod /\ op'.at # "delete"
<1>1. history' = history /\ run'.uid = run.uid /\ (Exists' <=> Exists)
  BY PassWrites, PatchedRun DEF Written, Types, Phases, Open, Terminal, Exists
<1>2. CASE Written("Failed") \/ Written("Succeeded")
  BY <1>1, <1>2, PatchedRun DEF Written, Types, Phases, Terminal
<1>3. CASE (OpRecordsPod \/ OpMirrors) /\ run' # run
  <2>1. Exists /\ Patched("Initializing") /\ Opening /\ UNCHANGED pod
    BY <1>3 DEF OpRecordsPod, OpMirrors, OpPatches, Opening
  <2>2. run'.phase = "Initializing"
    BY <2>1, PatchedRun DEF Types, Phases, Open
  <2>3. op'.at # "delete"
    BY <1>3, PassMoves, NoneThere DEF OpRecordsPod, OpMirrors, OpReaps
  <2> QED
    BY <1>1, <1>3, <2>1, <2>2, <2>3
<1> QED
  BY <1>1, <1>2, <1>3, PassWrites


\* Every step keeps the pod there.
LEMMA StepStays ==
  ASSUME Types, Order, PodStays, [Next]_vars
  PROVE  PodStays'
<1> SUFFICES ASSUME Clean'
             PROVE  PodStays'
  BY DEF PodStays
<1>n. /\ made \in Nat /\ run.uid \in Nat /\ pod.uid \in Nat /\ op.uid \in Nat
      /\ (pod = NoPod <=> pod.uid = 0) /\ (op = Idle <=> op.uid = 0) /\ (Exists <=> run.uid # 0)
      /\ (Exists => run.uid = made /\ run.phase \in Phases)
  BY Numbered
<1>o. Terminal \cap Open = {}
  BY DEF Terminal, Open
<1>i. ~(Idle.at = "delete") /\ (op' = Idle => ~Opening')
  BY NoneThere DEF Opening
<1>1. CASE UNCHANGED <<run, pod, history>> /\ (op' = op \/ op' = Idle)
  BY <1>1, <1>i DEF PodStays, Clean, Own, Exists, Opening
<1>2. CASE Reconcile
  <2>1. Clean /\ history' = history /\ run'.uid = run.uid /\ (Exists' <=> Exists)
    BY <1>2, OpeningWrites DEF Clean
  <2>2. CASE ~(run' = run \/ run'.phase \in Terminal)
    <3>1. Opening /\ UNCHANGED pod /\ op'.at # "delete"
      BY <1>2, <2>2, OpeningWrites
    <3>2. Own' <=> Own
      BY <2>1, <3>1 DEF Own
    <3>3. Own /\ Opening => ~pod.going
      BY <2>1 DEF PodStays
    <3>4. Opening /\ "finished" \in history => Own
      BY <2>1 DEF PodStays
    <3> QED
      BY <1>n, <2>1, <3>1, <3>2, <3>3, <3>4, NoneThere DEF PodStays, Own
  <2>3. CASE run' = run \/ run'.phase \in Terminal
    <3>0. run.phase \in Terminal => run'.phase \in Terminal
      BY <2>3
    <3>1. CASE pod' = pod
      <4>0. Own' <=> Own
        BY <2>1, <3>1 DEF Own
      <4>1. (Own /\ pod.going)' => run'.phase \in Terminal
        BY <2>1, <3>0, <3>1, <4>0 DEF PodStays
      <4>2. (Own /\ op.at = "delete")' => run'.phase \in Terminal
        BY <1>2, <1>i, <3>0, PassMoves
      <4>3. ("finished" \in history /\ pod = NoPod)' => run'.phase \in Terminal
        BY <2>1, <3>0, <3>1 DEF PodStays
      <4>4. CASE Opening' => Opening
        BY <2>1, <3>1, <4>0, <4>1, <4>2, <4>3, <4>4 DEF PodStays
      <4>5. CASE Opening' /\ ~Opening
        <5>1. OpTakes /\ run.phase \in Open
          BY <1>2, <1>i, <4>5, PassMoves DEF Opening
        <5>2. Own => ~pod.going
          BY <1>o, <2>1, <5>1 DEF PodStays
        <5>3. "finished" \in history => Own
          BY <1>o, <2>1, <5>1 DEF PodStays, Order
        <5> QED
          BY <2>1, <3>1, <4>0, <4>1, <4>2, <4>3, <5>2, <5>3 DEF PodStays
      <4> QED
        BY <4>4, <4>5
    <3>2. CASE pod = NoPod /\ op.at = "create" /\ pod' = NewPod(op.uid) /\ op'.at = "created"
      <4>1. Opening /\ ~Own
        BY <1>n, <3>2 DEF Opening, Own
      <4>2. "finished" \notin history'
        BY <2>1, <4>1 DEF PodStays
      <4>3. ~pod'.going
        BY <3>2 DEF NewPod
      <4> QED
        BY <3>2, <4>2, <4>3 DEF PodStays
    <3>3. CASE op.at = "delete" /\ op' = Idle /\ pod # NoPod /\ pod' = [pod EXCEPT !.going = TRUE]
      <4>1. pod' \in Pods /\ pod'.uid = pod.uid
        BY <3>3, PodThatLives DEF Types, Pods
      <4>2. Own' <=> Own
        BY <2>1, <4>1 DEF Own
      <4>3. Own => run'.phase \in Terminal
        BY <2>1, <3>0, <3>3 DEF PodStays
      <4>4. pod' # NoPod
        BY <4>1, <3>3, <1>n, NoneThere
      <4> QED
        BY <1>i, <3>3, <4>2, <4>3, <4>4 DEF PodStays
    <3> QED
      BY <1>2, <3>1, <3>2, <3>3, PassMoves
  <2> QED
    BY <2>2, <2>3
<1>3. CASE Dispatcher
  <2>1. op' = op /\ pod # NoPod /\ pod' # NoPod /\ pod'.uid = pod.uid /\ pod'.going = pod.going
        /\ (Exists' <=> Exists) /\ run'.uid = run.uid
    BY <1>3, DispatcherMoves DEF SamePod
  <2>2. history \subseteq history' /\ (history' = history \/ pod.uid = run.uid)
        /\ (Own /\ run.phase \in Terminal /\ "reopened" \notin history' => run'.phase \in Terminal)
    BY <1>3, DispatcherMarks
  <2>3. Clean /\ (Own' <=> Own) /\ (Opening' <=> Opening)
    BY <2>1, <2>2 DEF Clean, Own, Opening
  <2>4. "finished" \in history' => "finished" \in history \/ Own
    BY <1>n, <2>1, <2>2 DEF Own
  <2> QED
    BY <2>1, <2>2, <2>3, <2>4 DEF PodStays, Clean
<1>4. CASE Kubernetes
  <2>0. UNCHANGED <<op, run, made>> /\ (Opening' <=> Opening)
    BY <1>4, ClusterMoves DEF Opening
  <2>1. CASE pod' = pod /\ history' = history
    BY <1>1, <2>0, <2>1
  <2>2. CASE pod # NoPod /\ SamePod
             /\ (history' = history \/ (pod.uid = run.uid /\ history' = history \cup {"finished"}))
    <3>1. Clean /\ (Own' <=> Own)
      BY <2>0, <2>2 DEF Clean, Own, SamePod, Exists
    <3>2. "finished" \in history' => "finished" \in history \/ Own
      BY <1>n, <2>2 DEF Own
    <3> QED
      BY <2>0, <2>2, <3>1, <3>2 DEF PodStays, SamePod
  <2>3. CASE pod' # NoPod /\ pod # NoPod /\ pod'.uid = pod.uid /\ pod.uid # run.uid /\ history' = history
    <3>1. Clean /\ ~Own /\ ~Own'
      BY <2>0, <2>3 DEF Clean, Own
    <3> QED
      BY <2>0, <2>3, <3>1 DEF PodStays
  <2>4. CASE pod.going /\ pod' = NoPod /\ history' = history
    <3>1. Clean /\ ~Own' /\ pod # NoPod
      BY <1>n, <2>0, <2>4, NoneThere DEF Clean, Own, Exists
    <3>2. "finished" \in history => Own
      BY <3>1 DEF Order
    <3>3. "finished" \in history => run.phase \in Terminal /\ ~Opening
      BY <2>4, <3>1, <3>2 DEF PodStays
    <3> QED
      BY <2>0, <2>4, <3>1, <3>3 DEF PodStays
  <2>5. "drained" \notin history'
    BY DEF Clean
  <2> QED
    BY <1>4, <2>1, <2>2, <2>3, <2>4, <2>5, ClusterMoves
<1>5. CASE CreateRun
  <2>1. run'.uid = made + 1 /\ UNCHANGED <<pod, op, history>> /\ ~Exists
    BY <1>5 DEF CreateRun
  <2>2. history = {} /\ ~Own'
    BY <1>n, <2>1 DEF Order, Own
  <2> QED
    BY <2>1, <2>2 DEF PodStays
<1>6. CASE DeleteRun
  BY <1>6 DEF DeleteRun, PodStays, Own, Exists
<1> QED
  BY <1>1, <1>2, <1>3, <1>4, <1>5, <1>6
  DEF Next, Operator, Resync, Informed, handleRunDelete, OpCrashes, Manager, cluster, vars


\* At first there is no pod to stay.
LEMMA InitStays == Init => PodStays
BY NoneThere DEF Init, PodStays, Own, Exists, Opening

\* The variables have their types, and the work queue keeps its representation.
THEOREM TypeCorrect == Spec => []TypeOK
<1>1. Types /\ Order => TypeOK
  <2> SUFFICES ASSUME Types, Order
               PROVE  TypeOK
    OBVIOUS
  <2>0. pod.uid \in 0..made
    BY Numbered DEF Order
  <2>1. pod.phase \in {"None", "Running", "Succeeded", "Failed"}
    BY NoneThere DEF Types, PodType, Pods
  <2>2. queue \in [{"seen", "pending", "processing", "dirty"} -> BOOLEAN]
    BY DEF Types, QueueType, Queues
  <2>3. run \in {NoRun} \cup [uid : 1..MaxRuns, phase : Open \cup Terminal, sound : BOOLEAN]
    BY DEF Types, RunType, Runs, Phases
  <2> QED
    BY <2>0, <2>1, <2>2, <2>3 DEF Types, RunType, QueueType, RestType, TypeOK
<1> QED
  BY <1>1, InitTypes, StepTypes, InitOrder, StepOrder, PTL DEF Spec

\* The work of an agent that came to its end is not done a second time.
THEOREM WorkNotRepeated == Spec => RunOnce
<1> DEFINE A == \A u \in 1..MaxRuns :
                  OpenRun(u) /\ pod = NoPod /\ pod'.uid = u
                    => ("finished" \in history => history \cap {"drained", "reopened"} # {})
<1>1. Types /\ Order /\ PodStays /\ [Next]_vars => [A]_vars
  <2> SUFFICES ASSUME Types, Order, PodStays, [Next]_vars, NEW u \in 1..MaxRuns,
                      OpenRun(u), pod = NoPod, pod'.uid = u, "finished" \in history, Clean
               PROVE  FALSE
    BY DEF Clean
  <2>1. run.phase \notin Terminal
    BY DEF OpenRun, Open, Terminal
  <2> QED
    BY <2>1 DEF PodStays
<1> QED
  BY <1>1, InitTypes, StepTypes, InitOrder, StepOrder, InitStays, StepStays, PTL DEF Spec, RunOnce


-----------------------------------------------------------------------------
(* The life of a pod, seen from its dispatcher. *)

\* A report that did not change the phase of a Run was lost.
LEMMA LostReport ==
  ASSUME Types, NEW ph \in Phases, ph # "Pending", AgentPatches(ph), Exists, run'.phase = "Pending"
  PROVE  <<"dispatcher", "lost">> \in Troubles /\ troubled' = troubled + 1
<1>1. ~Patched(ph)
  BY PatchedRun DEF Types
<1> QED
  BY <1>1 DEF AgentPatches, Trouble

AgentStage(x, y) ==
  pod.stage = x /\ pod'.stage = y /\ pod'.engine = pod.engine /\ pod'.phase = pod.phase

\* The steps of a dispatcher, with the stages it passes and what it reports.
LEMMA AgentSteps ==
  ASSUME Types, Dispatcher
  PROVE  \/ AgentBoots /\ AgentStage("boot", "health") /\ AgentPatches("Initializing")
         \/ AgentPrompted /\ AgentStage("health", "polling") /\ AgentPatches("Running")
         \/ /\ AgentWaits /\ AgentStage("polling", "polling")
            /\ AgentPatches("Running") \/ AgentPatches("WaitingForInput")
         \/ /\ AgentUnhealthy /\ AgentStage("health", "fatal") /\ LongRunning /\ run' = run
            /\ Remember({"finished"})
         \/ /\ AgentEnds /\ AgentStage("polling", "ending") /\ LongRunning /\ run' = run
            /\ "failed" \in history' => "failed" \in history
            /\ Own => "finished" \in history'
         \/ /\ AgentReports
            /\ AgentStage("ending", "fatal") \/ AgentStage("ending", "exit0")
            /\ \E ph \in {"Succeeded", "Failed", "Running"} : AgentPatches(ph)
         \/ AgentDies /\ AgentStage("fatal", "exit1") /\ AgentPatches("Failed")
         \/ /\ AgentStops /\ pod.going /\ run' = run /\ history' = history
            /\ \E x \in {"boot", "health", "polling", "fatal"} : AgentStage(x, "exit0")
         \/ /\ AgentKilled /\ run' = run /\ history' = history
            /\ \E x \in {"boot", "health", "polling", "ending", "fatal"} : AgentStage(x, "exit1")
<1>1. pod \in Pods
  BY DispatcherMoves, PodThatLives DEF Types
<1>2. CASE AgentBoots \/ AgentPrompted \/ AgentUnhealthy \/ AgentDies
  BY <1>1, <1>2 DEF AgentBoots, AgentPrompted, AgentUnhealthy, AgentDies, AgentStage, At, Pods
<1>3. CASE AgentWaits
  <2>1. AgentStage("polling", "polling")
    BY <1>1, <1>3 DEF AgentWaits, AgentStage, At, Pods
  <2> QED
    BY <1>3, <2>1 DEF AgentWaits
<1>4. CASE AgentEnds
  <2>1. AgentStage("polling", "ending")
    BY <1>1, <1>4 DEF AgentEnds, AgentStage, At, Pods
  <2>2. ("failed" \in history' => "failed" \in history) /\ (Own => "finished" \in history')
    BY <1>4 DEF AgentEnds, Remember, Own
  <2> QED
    BY <1>4, <2>1, <2>2 DEF AgentEnds
<1>5. CASE AgentReports
  <2>1. AgentStage("ending", "fatal") \/ AgentStage("ending", "exit0")
    BY <1>1, <1>5 DEF AgentReports, AgentStage, At, Pods
  <2>2. \E ph \in {"Succeeded", "Failed", "Running"} : AgentPatches(ph)
    BY <1>5 DEF AgentReports, Outcome
  <2> QED
    BY <1>5, <2>1, <2>2
<1>6. CASE AgentStops
  BY <1>1, <1>6 DEF AgentStops, AgentStage, At, Pods
<1>7. CASE AgentKilled
  BY <1>1, <1>7 DEF AgentKilled, AgentStage, At, Pods
<1> QED
  BY <1>2, <1>3, <1>4, <1>5, <1>6, <1>7 DEF Dispatcher

\* What the cluster does to a pod that lives.
LEMMA ClusterSteps ==
  ASSUME Types, Kubernetes, pod # NoPod, pod' # NoPod
  PROVE  \/ pod' = pod /\ troubled' = troubled
         \/ /\ EngineEnds /\ troubled' = troubled + 1 /\ troubled < MaxTroubles
            /\ pod'.stage = pod.stage /\ pod'.phase = pod.phase
         \/ /\ Live /\ pod'.phase = "Failed"
         \/ /\ Live /\ pod'.phase = "Succeeded" /\ pod.engine # "up" /\ pod.stage = "exit0"
         \/ /\ pod'.stage = pod.stage /\ pod'.phase = pod.phase /\ pod'.engine = pod.engine
            /\ PodDrained \/ PodOrphaned
<1>1. pod \in Pods
  BY PodThatLives DEF Types
<1>2. CASE EngineEnds
  BY <1>1, <1>2 DEF EngineEnds, Trouble, Pods
<1>3. CASE PodEnds \/ PodDeadline
  <2>1. \A ph \in {"Succeeded", "Failed"} : PodOver(ph) => pod'.phase = ph
    BY DEF PodOver, NewPod
  <2> QED
    BY <1>3, <2>1 DEF PodEnds, PodDeadline
<1>4. CASE PodDrained \/ PodOrphaned
  BY <1>1, <1>4 DEF PodDrained, PodOrphaned, Pods
<1>5. CASE JobEnds \/ PodRemoved
  BY <1>5 DEF JobEnds, PodRemoved
<1> QED
  BY <1>2, <1>3, <1>4, <1>5 DEF Kubernetes

\* What a pass does to the pod leaves its dispatcher as it is.
LEMMA PassLeavesPod ==
  ASSUME Types, Reconcile
  PROVE  \/ /\ pod' # NoPod <=> pod # NoPod
            /\ pod'.uid = pod.uid /\ pod'.stage = pod.stage /\ pod'.phase = pod.phase
            /\ pod'.engine = pod.engine
         \/ OpCreatesPod /\ pod = NoPod /\ pod' = NewPod(op.uid) /\ op'.at = "created"
<1>1. CASE pod # NoPod /\ pod' = [pod EXCEPT !.going = TRUE]
  <2>1. pod \in Pods
    BY <1>1, PodThatLives DEF Types
  <2>2. pod' \in Pods
    BY <1>1, <2>1 DEF Pods
  <2>3. pod' # NoPod
    BY <2>2, NoneThere, BoundsAssumption DEF Pods
  <2> QED
    BY <1>1, <2>1, <2>3 DEF Pods
<1> QED
  BY <1>1, PassMoves

\* A pass comes to its creation by making the pod.
LEMMA PassCreates ==
  ASSUME Types, Reconcile, op'.at = "created"
  PROVE  OpCreatesPod /\ pod = NoPod /\ ~OpTakes
<1>1. op \in {Idle} \cup Passes /\ Idle.at = "idle"
  BY NoneThere DEF Types, OpType
<1>2. \A at : Goes(at) /\ op # Idle => op'.at = at
  BY <1>1 DEF Goes, Passes
<1>3. ~(Done \/ Drop \/ Retry)
  BY <1>1 DEF Done, Drop, Retry
<1>4. \A x, at : op' = [op EXCEPT !.at = at, !.saw = x] /\ op # Idle => op'.at = at
  BY <1>1 DEF Passes
<1>5. ~OpTakes
  BY <1>1, <1>3, PassMoves DEF OpTakes
<1>6. op # Idle
  BY <1>5, PassMoves, NoneThere
<1>7. ~OpFindsPod /\ ~OpRecordsPod
  BY <1>2, <1>3, <1>4, <1>6 DEF OpFindsPod, OpRecordsPod
<1>8. ~(OpRefuses \/ OpGivesUp \/ OpMirrors \/ OpClaims \/ OpSucceeds \/ OpFails)
  BY <1>2, <1>3, <1>6 DEF OpRefuses, OpGivesUp, OpMirrors, OpClaims, OpSucceeds, OpFails, OpPatches,
                          Judge
<1>9. ~(OpReaps \/ OpDeletesPod \/ OpSeesEnded)
  BY <1>2, <1>3, <1>6 DEF OpReaps, OpDeletesPod, OpSeesEnded
<1>10. OpCreatesPod
  BY <1>5, <1>7, <1>8, <1>9 DEF Reconcile
<1> QED
  BY <1>2, <1>4, <1>5, <1>6, <1>10 DEF OpCreatesPod

-----------------------------------------------------------------------------
(* A Run that is still Pending when its agent is at work has lost reports,  *)
(* one with every stage its dispatcher came to; and a pass that found it so *)
(* began after the loss of all.                                             *)

Level == CASE pod.stage = "health" -> 1
           [] pod.stage \in {"polling", "ending"} -> 2
           [] OTHER -> 0
EngineGone == IF pod.engine = "up" THEN 0 ELSE 1
Unrecorded == IF op.at = "created" THEN 0 ELSE 1

PendingHasLost ==
  Own /\ Live /\ run.phase = "Pending" =>
    /\ troubled >= Unrecorded + Level + EngineGone
    /\ Level > 0 => <<"dispatcher", "lost">> \in Troubles

PassBeganLate ==
  op # Idle /\ op.uid = pod.uid /\ Live =>
    /\ op.at = "created" => pod.stage \notin {"ending", "fatal"}
    /\ op.phase = "Pending" /\ pod.stage = "ending" =>
         troubled >= 3 + EngineGone /\ <<"dispatcher", "lost">> \in Troubles

LostBefore == PendingHasLost /\ PassBeganLate


\* The sum of a lower bound on the troubles, whose parts change.
LEMMA Covers ==
  /\ \A t, u, l, e, v \in Int :
       t >= u + l + e /\ v <= u => t >= v + l + e /\ t + 1 >= v + l + e
  /\ \A t, u, l, e, v \in Int :
       t >= u + l + e /\ v <= u + 1 => t + 1 >= v + l + e
  /\ \A s, t, u, l, e, f \in Int :
       t >= u + l + e /\ f <= e + 1 /\ s = t + 1 => s >= u + l + f
  /\ \A s, t, e, f \in Int : t >= 3 + e /\ f <= e + 1 /\ s = t + 1 => s >= 3 + f
OBVIOUS

\* At first nothing is lost.
LEMMA InitLost == Init => LostBefore
BY NoneThere DEF Init, LostBefore, PendingHasLost, PassBeganLate, Own, Exists

\* Every step keeps the account of what was lost.
LEMMA StepLost ==
  ASSUME Types, Order, LostBefore, [Next]_vars
  PROVE  LostBefore'
<1>n. /\ made \in Nat /\ run.uid \in Nat /\ pod.uid \in Nat /\ op.uid \in Nat
      /\ (pod = NoPod <=> pod.uid = 0) /\ (op = Idle <=> op.uid = 0) /\ (Exists <=> run.uid # 0)
      /\ (Exists => run.uid = made /\ run.phase \in Phases)
  BY Numbered
<1>t. troubled \in Nat /\ (troubled' = troubled \/ troubled' = troubled + 1)
  BY StepRest, BoundsAssumption DEF Types, RestType
<1>l. Level \in 0..2 /\ EngineGone \in 0..1 /\ Unrecorded \in 0..1
  BY DEF Level, EngineGone, Unrecorded
<1>i. NoPod.phase # "Running" /\ Idle.at = "idle"
  BY NoneThere
<1>0. PendingHasLost /\ PassBeganLate
  BY DEF LostBefore
<1>1. ASSUME op' = op \/ op' = Idle, pod'.uid = pod.uid, pod'.phase = pod.phase,
             pod'.stage = pod.stage, pod'.engine = pod.engine, UNCHANGED run,
             op.at = "created" => op' = op \/ troubled' = troubled + 1
      PROVE  LostBefore'
  <2>1. (Own' <=> Own) /\ (Live' <=> Live) /\ Level' = Level /\ EngineGone' = EngineGone
    BY <1>1 DEF Own, Exists, Live, Level, EngineGone
  <2>2. Unrecorded' = Unrecorded \/ (Unrecorded' = Unrecorded + 1 /\ troubled' = troubled + 1)
    BY <1>1, <1>i DEF Unrecorded
  <2>3. PendingHasLost'
    BY <1>0, <1>1, <1>t, <1>l, <2>1, <2>2 DEF PendingHasLost
  <2>4. PassBeganLate'
    BY <1>0, <1>1, <1>t, <1>l, <2>1 DEF PassBeganLate
  <2> QED
    BY <2>3, <2>4 DEF LostBefore
<1>2. CASE Reconcile
  <2>1. run'.uid = run.uid /\ (Exists' <=> Exists)
        /\ (run'.phase = "Pending" => run' = run)
    BY <1>2, OpeningWrites DEF Terminal
  <2>2. CASE OpCreatesPod /\ pod = NoPod /\ pod' = NewPod(op.uid) /\ op'.at = "created"
    <3>1. pod'.stage = "boot" /\ pod'.engine = "up"
      BY <2>2 DEF NewPod
    <3>2. Level' = 0 /\ EngineGone' = 0 /\ Unrecorded' = 0
      BY <2>2, <3>1 DEF Level, EngineGone, Unrecorded
    <3> QED
      BY <1>t, <3>1, <3>2 DEF LostBefore, PendingHasLost, PassBeganLate
  <2>3. CASE /\ pod'.uid = pod.uid /\ pod'.stage = pod.stage /\ pod'.phase = pod.phase
             /\ pod'.engine = pod.engine
    <3>1. (Own' <=> Own) /\ (Live' <=> Live) /\ Level' = Level /\ EngineGone' = EngineGone
      BY <2>1, <2>3 DEF Own, Live, Level, EngineGone
    <3>2. PendingHasLost'
      <4> SUFFICES ASSUME Own, Live, run'.phase = "Pending"
                   PROVE  /\ troubled' >= Unrecorded' + Level + EngineGone
                          /\ Level > 0 => <<"dispatcher", "lost">> \in Troubles
        BY <3>1 DEF PendingHasLost
      <4>0. troubled >= Unrecorded + Level + EngineGone
            /\ (Level > 0 => <<"dispatcher", "lost">> \in Troubles)
        BY <1>0, <2>1 DEF PendingHasLost
      <4>1. CASE op.at = "created"
        <5>1. OpRecordsPod
          BY <1>2, <1>i, <4>1
          DEF Reconcile, OpTakes, OpRefuses, OpFindsPod, OpCreatesPod, OpGivesUp, OpMirrors,
              OpClaims, OpSucceeds, OpFails, OpReaps, OpDeletesPod, OpSeesEnded
        <5>2. ~(Exists /\ Patched("Initializing"))
          BY PatchedRun DEF Types, Phases, Open
        <5>3. troubled' = troubled + 1
          BY <5>1, <5>2 DEF OpRecordsPod, Own, Trouble
        <5>4. Unrecorded' \in 0..1 /\ Unrecorded = 0
          BY <4>1 DEF Unrecorded
        <5>5. troubled \in Int /\ troubled' \in Int /\ Unrecorded \in Int /\ Unrecorded' \in Int
              /\ Level \in Int /\ EngineGone \in Int
          BY <1>t, <1>l, <5>4
        <5>6. Unrecorded' <= Unrecorded + 1
          BY <5>4
        <5> QED
          BY <4>0, <5>3, <5>5, <5>6, Covers
      <4>2. CASE op.at # "created"
        <5>1. Unrecorded' \in 0..1 /\ Unrecorded = 1
          BY <4>2 DEF Unrecorded
        <5>2. troubled \in Int /\ troubled' \in Int /\ Unrecorded \in Int /\ Unrecorded' \in Int
              /\ Level \in Int /\ EngineGone \in Int
          BY <1>t, <1>l, <5>1
        <5>3. Unrecorded' <= Unrecorded /\ (troubled' = troubled \/ troubled' = troubled + 1)
          BY <1>t, <5>1
        <5>4. CASE troubled' = troubled
          BY <4>0, <5>2, <5>3, <5>4, Covers
        <5>5. CASE troubled' = troubled + 1
          BY <4>0, <5>2, <5>3, <5>5, Covers
        <5> QED
          BY <5>3, <5>4, <5>5
      <4> QED
        BY <4>1, <4>2
    <3>3. PassBeganLate'
      <4> SUFFICES ASSUME op' # Idle, op'.uid = pod.uid, Live
                   PROVE  /\ op'.at = "created" => pod.stage \notin {"ending", "fatal"}
                          /\ op'.phase = "Pending" /\ pod.stage = "ending" =>
                               troubled' >= 3 + EngineGone
                               /\ <<"dispatcher", "lost">> \in Troubles
        BY <2>3, <3>1 DEF PassBeganLate
      <4>1. CASE OpTakes
        <5>1. op = Idle /\ Exists /\ op'.uid = run.uid /\ op'.phase = run.phase
              /\ op'.at # "created"
          BY <1>2, <4>1, PassMoves DEF OpTakes
        <5>2. Own /\ Unrecorded = 1 /\ (pod.stage = "ending" => Level = 2)
          BY <1>i, <5>1 DEF Own, Unrecorded, Level
        <5> QED
          BY <1>0, <1>t, <1>l, <5>1, <5>2 DEF PendingHasLost
      <4>2. CASE ~OpTakes
        <5>1. op # Idle /\ op'.uid = op.uid /\ op'.phase = op.phase
          BY <1>2, <4>2, PassMoves
        <5>2. op'.at = "created" => pod = NoPod
          <6>1. op'.at = "created" => OpCreatesPod /\ pod = NoPod
            BY <1>2, <4>2, PassCreates
          <6> QED
            BY <6>1
        <5> QED
          BY <1>0, <1>i, <1>t, <1>l, <5>1, <5>2 DEF PassBeganLate, Live
      <4> QED
        BY <4>1, <4>2
    <3> QED
      BY <3>2, <3>3 DEF LostBefore
  <2> QED
    BY <1>2, <2>2, <2>3, PassLeavesPod
<1>3. CASE Dispatcher
  <2>1. op' = op /\ pod'.uid = pod.uid /\ (Exists' <=> Exists) /\ run'.uid = run.uid /\ Live
    BY <1>3, DispatcherMoves, DispatcherWrites DEF SamePod
  <2>2. (Own' <=> Own) /\ Unrecorded' = Unrecorded
    BY <2>1 DEF Own, Unrecorded
  <2>3. \A x, y : AgentStage(x, y) => EngineGone' = EngineGone
    BY DEF AgentStage, EngineGone
  <2>4. EngineGone' = EngineGone
    BY <1>3, <2>3, AgentSteps
  <2>5. PassBeganLate'
    <3>1. CASE AgentStage("polling", "ending") \/ AgentStage("health", "fatal")
      <4>1. LongRunning
        BY <1>3, <3>1, AgentSteps DEF AgentStage
      <4> QED
        BY <2>1, <4>1 DEF PassBeganLate, LongRunning
    <3>2. CASE AgentStage("ending", "fatal") \/ AgentStage("ending", "exit0")
      BY <1>0, <2>1, <3>2 DEF PassBeganLate, AgentStage
    <3>3. CASE pod'.stage \notin {"ending", "fatal"}
      BY <3>3 DEF PassBeganLate
    <3> QED
      BY <1>3, <3>1, <3>2, <3>3, AgentSteps DEF AgentStage
  <2>6. PendingHasLost'
    <3> SUFFICES ASSUME Own, run'.phase = "Pending"
                 PROVE  /\ troubled' >= Unrecorded + Level' + EngineGone
                        /\ Level' > 0 => <<"dispatcher", "lost">> \in Troubles
      BY <2>2, <2>4 DEF PendingHasLost
    <3>1. run.phase = "Pending"
      <4>1. ASSUME NEW ph \in Phases, ph # "Pending", AgentPatches(ph)
            PROVE  run' = run
        BY <4>1, PatchedRun DEF AgentPatches, Types
      <4>2. run' = run
        BY <1>3, <4>1, AgentSteps DEF Phases, Open, Terminal
      <4> QED
        BY <4>2
    <3>2. ASSUME NEW ph \in Phases, ph # "Pending", AgentPatches(ph)
          PROVE  <<"dispatcher", "lost">> \in Troubles /\ troubled' = troubled + 1
      BY <3>2, LostReport DEF Own
    <3>3. troubled >= Unrecorded + Level + EngineGone
          /\ (Level > 0 => <<"dispatcher", "lost">> \in Troubles)
      BY <1>0, <2>1, <3>1 DEF PendingHasLost
    <3>4. \/ Level' <= Level
          \/ /\ Level' = Level + 1 /\ troubled' = troubled + 1
             /\ <<"dispatcher", "lost">> \in Troubles
      <4>1. CASE AgentStage("boot", "health") /\ AgentPatches("Initializing")
        BY <3>2, <4>1 DEF AgentStage, Level, Phases, Open
      <4>2. CASE AgentStage("health", "polling") /\ AgentPatches("Running")
        BY <3>2, <4>2 DEF AgentStage, Level, Phases, Open
      <4>3. ASSUME NEW x, NEW y, AgentStage(x, y),
                   y \in {"fatal", "exit0", "exit1"} \/ (x = "polling" /\ y \in {"polling", "ending"})
            PROVE  Level' <= Level
        BY <4>3 DEF AgentStage, Level
      <4> QED
        BY <1>3, <4>1, <4>2, <4>3, AgentSteps
    <3> QED
      BY <1>t, <1>l, <3>3, <3>4 DEF Level
  <2> QED
    BY <2>5, <2>6 DEF LostBefore
<1>4. CASE Kubernetes
  <2>0. UNCHANGED <<op, run, made>>
    BY <1>4, ClusterMoves
  <2>1. CASE pod' = NoPod \/ ~Live'
    <3>1. ~Live'
      BY <1>i, <2>1 DEF Live
    <3> QED
      BY <3>1 DEF LostBefore, PendingHasLost, PassBeganLate
  <2>2. CASE pod' # NoPod /\ Live' /\ pod # NoPod
    <3>1. pod'.uid = pod.uid
      BY <1>4, <2>2, ClusterMoves DEF SamePod
    <3>2. CASE EngineEnds /\ troubled' = troubled + 1 /\ pod'.stage = pod.stage /\ pod'.phase = pod.phase
      <4>1. (Own' <=> Own) /\ (Live' <=> Live) /\ Level' = Level /\ Unrecorded' = Unrecorded
            /\ EngineGone' <= EngineGone + 1 /\ EngineGone' \in 0..1
        BY <2>0, <3>1, <3>2 DEF Own, Exists, Live, Level, EngineGone, Unrecorded
      <4>2. PendingHasLost'
        <5> SUFFICES ASSUME Own, Live, run.phase = "Pending"
                     PROVE  /\ troubled' >= Unrecorded + Level + EngineGone'
                            /\ Level > 0 => <<"dispatcher", "lost">> \in Troubles
          BY <2>0, <4>1 DEF PendingHasLost
        <5>1. troubled >= Unrecorded + Level + EngineGone
              /\ (Level > 0 => <<"dispatcher", "lost">> \in Troubles)
          BY <1>0 DEF PendingHasLost
        <5>2. troubled \in Int /\ troubled' \in Int /\ Unrecorded \in Int
              /\ Level \in Int /\ EngineGone \in Int /\ EngineGone' \in Int
          BY <1>t, <1>l, <4>1
        <5> QED
          BY <3>2, <4>1, <5>1, <5>2, Covers
      <4>3. PassBeganLate'
        <5> SUFFICES ASSUME op # Idle, op.uid = pod.uid, Live
                     PROVE  /\ op.at = "created" => pod.stage \notin {"ending", "fatal"}
                            /\ op.phase = "Pending" /\ pod.stage = "ending" =>
                                 troubled' >= 3 + EngineGone'
                                 /\ <<"dispatcher", "lost">> \in Troubles
          BY <2>0, <3>1, <3>2, <4>1 DEF PassBeganLate
        <5>1. /\ op.at = "created" => pod.stage \notin {"ending", "fatal"}
              /\ op.phase = "Pending" /\ pod.stage = "ending" =>
                   troubled >= 3 + EngineGone /\ <<"dispatcher", "lost">> \in Troubles
          BY <1>0 DEF PassBeganLate
        <5>2. troubled \in Int /\ troubled' \in Int /\ EngineGone \in Int /\ EngineGone' \in Int
          BY <1>t, <1>l, <4>1
        <5>3. troubled >= 3 + EngineGone => troubled' >= 3 + EngineGone'
          BY <3>2, <4>1, <5>2, Covers
        <5> QED
          BY <5>1, <5>3
      <4> QED
        BY <4>2, <4>3 DEF LostBefore
    <3>3. CASE pod'.stage = pod.stage /\ pod'.phase = pod.phase /\ pod'.engine = pod.engine
      BY <1>1, <2>0, <3>1, <3>3
    <3>4. Live => Live' \/ pod'.phase \in {"Succeeded", "Failed"}
      BY <2>2
    <3> QED
      BY <1>4, <2>2, <3>2, <3>3, ClusterSteps DEF Live
  <2>3. pod = NoPod => pod' = NoPod
    BY <1>4, ClusterMoves
  <2> QED
    BY <2>1, <2>2, <2>3
<1>5. CASE CreateRun
  <2>1. run'.uid = made + 1 /\ UNCHANGED <<pod, op, troubled>>
    BY <1>5 DEF CreateRun
  <2>2. ~Own'
    BY <1>n, <2>1 DEF Order, Own
  <2> QED
    BY <1>0, <2>1, <2>2 DEF LostBefore, PendingHasLost, PassBeganLate, Live, EngineGone
<1>6. CASE DeleteRun
  <2>1. ~Own' /\ UNCHANGED <<pod, op, troubled>>
    BY <1>6 DEF DeleteRun, Own, Exists
  <2> QED
    BY <1>0, <2>1 DEF LostBefore, PendingHasLost, PassBeganLate, Live, EngineGone
<1>7. CASE Resync \/ Informed \/ handleRunDelete \/ OpCrashes
  BY <1>1, <1>7 DEF Resync, Informed, handleRunDelete, OpCrashes, Trouble, cluster
<1>8. CASE UNCHANGED vars
  BY <1>1, <1>8 DEF vars
<1> QED
  BY <1>2, <1>3, <1>4, <1>5, <1>6, <1>7, <1>8 DEF Next, Operator, Manager

-----------------------------------------------------------------------------
(* A failure that is recorded: its Run is Failed, or opened again by a pass *)
(* that began before, and then its pod will fail.                           *)

\* The agent of a recorded failure, and one that is about to report, is over.
Ended ==
  /\ "failed" \in history => "finished" \in history
  /\ Own /\ Live /\ pod.stage \in {"ending", "fatal"} => "finished" \in history

\* The pod of the Run has failed or can come to no other end.
WillFail ==
  /\ Own
  /\ \/ pod.phase = "Failed"
     \/ Live /\ pod.stage \in {"fatal", "exit1"}
     \/ Live /\ pod.engine = "up" /\ troubled >= MaxTroubles

\* A pass that may still write "Initializing".
Rewrites ==
  \/ op.at = "created"
  \/ op.at \in {"pod", "create", "mirror"} /\ op.phase = "Pending"

FailedOrWillFail == run.phase = "Failed" \/ (run.phase \in Open /\ WillFail)

Stands ==
  Clean /\ "failed" \in history =>
    /\ FailedOrWillFail
    /\ Rewrites => WillFail
    /\ Own /\ Live => pod.stage \in {"fatal", "exit0", "exit1"}
    /\ op.at # "write"

\* A pass that claims a success has seen the pod succeed.
SawSuccess ==
  /\ op.at \in {"mirror", "claim", "write"} /\ op.saw = "Succeeded" /\ Own
       => pod.phase = "Succeeded"
  /\ op.at \in {"claim", "write"} => op.saw = "Succeeded"

\* What the steps of a pass read: the phase of the pod, and at the claim the
\* phase of the Run.
LEMMA PassSees ==
  ASSUME Types, Reconcile
  PROVE  /\ op'.at = "mirror" => op'.saw = "Running" \/ (pod # NoPod /\ op'.saw = pod.phase)
         /\ op'.at = "claim" => op.at = "mirror" /\ op'.saw = op.saw /\ op.saw = "Succeeded"
         /\ op'.at = "write" => op.at = "claim" /\ op'.saw = op.saw
         /\ op'.at = "write" => Fresh \notin Terminal \/ <<"operator", "unfresh">> \in Troubles
         /\ op'.at \in {"mirror", "claim", "write"} => pod' = pod
<1>1. op \in {Idle} \cup Passes /\ Idle.at = "idle"
  BY NoneThere DEF Types, OpType
<1>2. \A at : Goes(at) /\ op # Idle => op'.at = at /\ op'.saw = op.saw
  BY <1>1 DEF Goes, Passes
<1>3. Done \/ Drop \/ Retry => op'.at = "idle"
  BY <1>1 DEF Done, Drop, Retry
<1>4. \A x, at : op' = [op EXCEPT !.at = at, !.saw = x] /\ op # Idle => op'.at = at /\ op'.saw = x
  BY <1>1 DEF Passes
<1>5. CASE OpTakes
  <2>1. op'.at \in {"idle", "ended", "refuse", "pod"}
    BY <1>1, <1>3, <1>5 DEF OpTakes, Entry
  <2> QED
    BY <2>1
<1>6. CASE OpFindsPod \/ OpCreatesPod \/ OpRecordsPod
  <2>1. op # Idle
    BY <1>1, <1>6 DEF OpFindsPod, OpCreatesPod, OpRecordsPod
  <2>2. CASE OpFindsPod
    <3>1. pod' = pod
      BY <2>2 DEF OpFindsPod
    <3>2. CASE pod # NoPod /\ op' = [op EXCEPT !.at = "mirror", !.saw = pod.phase]
      BY <1>4, <2>1, <3>1, <3>2
    <3>3. CASE Retry \/ Goes("create") \/ Goes("giveup")
      <4>1. op'.at \in {"idle", "create", "giveup"}
        BY <1>2, <1>3, <2>1, <3>3
      <4> QED
        BY <4>1
    <3> QED
      BY <2>2, <3>2, <3>3 DEF OpFindsPod
  <2>3. CASE OpCreatesPod
    BY <1>2, <1>3, <1>4, <2>1, <2>3 DEF OpCreatesPod
  <2>4. CASE OpRecordsPod
    BY <1>2, <1>3, <1>4, <2>1, <2>4 DEF OpRecordsPod
  <2> QED
    BY <1>6, <2>2, <2>3, <2>4
<1>7. CASE OpMirrors
  <2>1. op # Idle /\ op.at = "mirror" /\ pod' = pod
    BY <1>1, <1>7 DEF OpMirrors
  <2>2. Judge \/ op'.at = "idle"
    BY <1>3, <1>7 DEF OpMirrors, OpPatches
  <2>3. Judge => \/ op'.at = "claim" /\ op'.saw = op.saw /\ op.saw = "Succeeded"
                 \/ op'.at \in {"fail", "idle"}
    BY <1>2, <1>3, <2>1 DEF Judge
  <2> QED
    BY <2>1, <2>2, <2>3
<1>8. CASE OpClaims
  <2>1. op # Idle /\ op.at = "claim" /\ pod' = pod
    BY <1>1, <1>8 DEF OpClaims
  <2>2. \/ op'.at = "reap"
        \/ /\ op'.at = "write" /\ op'.saw = op.saw
           /\ Fresh \notin Terminal \/ <<"operator", "unfresh">> \in Troubles
    BY <1>2, <1>8, <2>1 DEF OpClaims, Trouble
  <2> QED
    BY <2>1, <2>2
<1>9. CASE OpRefuses \/ OpGivesUp \/ OpSucceeds \/ OpFails
  <2>1. op # Idle
    BY <1>1, <1>9 DEF OpRefuses, OpGivesUp, OpSucceeds, OpFails
  <2>2. op'.at \in {"idle", "reap"}
    BY <1>2, <1>3, <1>9, <2>1 DEF OpRefuses, OpGivesUp, OpSucceeds, OpFails, OpPatches
  <2> QED
    BY <2>2
<1>10. CASE OpReaps \/ OpDeletesPod \/ OpSeesEnded
  <2>1. op # Idle
    BY <1>1, <1>10 DEF OpReaps, OpDeletesPod, OpSeesEnded
  <2>2. op'.at \in {"idle", "reap", "delete"}
    BY <1>2, <1>3, <1>10, <2>1 DEF OpReaps, OpDeletesPod, OpSeesEnded
  <2> QED
    BY <2>2
<1> QED
  BY <1>5, <1>6, <1>7, <1>8, <1>9, <1>10 DEF Reconcile

\* A dispatcher that marks a failure has recorded it, as the end of its agent.
LEMMA NewFailure ==
  ASSUME Types, Dispatcher, "failed" \in history', "failed" \notin history
  PROVE  /\ Own /\ Live /\ run'.phase = "Failed" /\ troubled' = troubled
         /\ \/ AgentReports /\ AgentStage("ending", "fatal")
            \/ AgentReports /\ AgentStage("ending", "exit0")
            \/ AgentDies /\ AgentStage("fatal", "exit1")
<1>1. ASSUME NEW ph \in Phases, AgentPatches(ph)
      PROVE  ph = "Failed" /\ Own /\ run'.phase = "Failed" /\ troubled' = troubled
  <2>1. Exists /\ Patched(ph) /\ troubled' = troubled
        /\ Remember(IF ph = "Failed" THEN {"failed"}
                    ELSE IF run.phase \in Terminal /\ ph \in Open THEN {"reopened"} ELSE {})
    BY <1>1 DEF AgentPatches
  <2>2. ph = "Failed" /\ pod.uid = run.uid
    BY <2>1 DEF Remember
  <2> QED
    BY <2>1, <2>2, PatchedRun DEF Types, Own
<1>2. Live
  BY DispatcherWrites
<1>3. "Initializing" \in Phases /\ "Running" \in Phases /\ "WaitingForInput" \in Phases
      /\ "Succeeded" \in Phases /\ "Failed" \in Phases
  BY DEF Phases, Open, Terminal
<1>4. ~AgentPatches("Initializing") /\ ~AgentPatches("Running") /\ ~AgentPatches("WaitingForInput")
      /\ ~AgentPatches("Succeeded")
  BY <1>1, <1>3
<1>5. AgentPatches("Failed") => Own /\ run'.phase = "Failed" /\ troubled' = troubled
  BY <1>1, <1>3
<1>6. ~Remember({"finished"}) /\ history' # history
  BY DEF Remember
<1> QED
  BY <1>2, <1>4, <1>5, <1>6, AgentSteps

-----------------------------------------------------------------------------
(* Ended and SawSuccess are kept. *)

\* At first nothing has ended.
LEMMA InitEnded == Init => Ended /\ SawSuccess
BY NoneThere DEF Init, Ended, SawSuccess, Own, Exists

\* Every step keeps Ended,
LEMMA StepEnded ==
  ASSUME Types, Order, Ended, [Next]_vars
  PROVE  Ended'
<1>n. /\ made \in Nat /\ run.uid \in Nat /\ pod.uid \in Nat /\ op.uid \in Nat
      /\ (pod = NoPod <=> pod.uid = 0) /\ (op = Idle <=> op.uid = 0) /\ (Exists <=> run.uid # 0)
      /\ (Exists => run.uid = made /\ run.phase \in Phases)
  BY Numbered
<1>1. CASE UNCHANGED <<run, pod, history>>
  BY <1>1 DEF Ended, Own, Exists, Live
<1>2. CASE Reconcile
  <2>1. history' = history /\ run'.uid = run.uid /\ (Exists' <=> Exists)
    BY <1>2, OpeningWrites
  <2>2. CASE pod'.uid = pod.uid /\ pod'.stage = pod.stage /\ pod'.phase = pod.phase
    BY <2>1, <2>2 DEF Ended, Own, Live
  <2>3. CASE pod' = NewPod(op.uid)
    BY <2>1, <2>3 DEF Ended, NewPod
  <2> QED
    BY <1>2, <2>2, <2>3, PassLeavesPod
<1>3. CASE Dispatcher
  <2>1. pod'.uid = pod.uid /\ (Exists' <=> Exists) /\ run'.uid = run.uid /\ history \subseteq history'
        /\ Live
    BY <1>3, DispatcherMoves, DispatcherMarks, DispatcherWrites DEF SamePod
  <2>2. Own' <=> Own
    BY <2>1 DEF Own
  <2>3. "failed" \in history' => "finished" \in history'
    <3>1. CASE "failed" \in history
      BY <2>1, <3>1 DEF Ended
    <3>2. CASE "failed" \notin history /\ "failed" \in history'
      BY <1>3, <2>1, <3>2, NewFailure DEF Ended, AgentStage
    <3> QED
      BY <3>1, <3>2
  <2>4. Own /\ pod'.stage \in {"ending", "fatal"} => "finished" \in history'
    <3>1. CASE AgentStage("health", "fatal") /\ Remember({"finished"})
      BY <3>1 DEF Remember, Own
    <3>2. CASE AgentStage("polling", "ending") /\ (Own => "finished" \in history')
      BY <3>2
    <3>3. CASE pod.stage \in {"ending", "fatal"}
      BY <2>1, <3>3 DEF Ended
    <3>4. CASE pod'.stage \notin {"ending", "fatal"}
      BY <3>4
    <3> QED
      BY <1>3, <3>1, <3>2, <3>3, <3>4, AgentSteps DEF AgentStage
  <2> QED
    BY <2>2, <2>3, <2>4 DEF Ended
<1>4. CASE Kubernetes
  <2>1. UNCHANGED <<op, run, made>> /\ history \subseteq history'
        /\ ("failed" \in history' => "failed" \in history)
    BY <1>4, ClusterMoves
  <2>2. CASE ~Live'
    BY <2>1, <2>2 DEF Ended
  <2>3. CASE Live'
    <3>1. pod # NoPod /\ pod' # NoPod /\ pod'.uid = pod.uid
      BY <1>4, <2>3, ClusterMoves, NoneThere DEF Live, SamePod
    <3>2. pod'.stage = pod.stage /\ pod'.phase = pod.phase
      BY <1>4, <2>3, <3>1, ClusterSteps DEF Live
    <3> QED
      BY <2>1, <3>1, <3>2 DEF Ended, Own, Exists, Live
  <2> QED
    BY <2>2, <2>3
<1>5. CASE CreateRun
  <2>1. run'.uid = made + 1 /\ UNCHANGED <<pod, op, history>> /\ ~Exists
    BY <1>5 DEF CreateRun
  <2>2. history = {} /\ ~Own'
    BY <1>n, <2>1 DEF Order, Own
  <2> QED
    BY <2>1, <2>2 DEF Ended
<1>6. CASE DeleteRun
  BY <1>6 DEF DeleteRun, Ended, Own, Exists
<1> QED
  BY <1>1, <1>2, <1>3, <1>4, <1>5, <1>6
  DEF Next, Operator, Resync, Informed, handleRunDelete, OpCrashes, Manager, cluster, vars

\* and SawSuccess.
LEMMA StepSawSuccess ==
  ASSUME Types, Order, SawSuccess, [Next]_vars
  PROVE  SawSuccess'
<1>n. /\ made \in Nat /\ run.uid \in Nat /\ pod.uid \in Nat /\ op.uid \in Nat
      /\ (pod = NoPod <=> pod.uid = 0) /\ (op = Idle <=> op.uid = 0) /\ (Exists <=> run.uid # 0)
      /\ (Exists => run.uid = made /\ run.phase \in Phases)
  BY Numbered
<1>1. ASSUME op' = op \/ op' = Idle, pod'.uid = pod.uid, pod.phase = "Succeeded" => pod'.phase = pod.phase,
             run'.uid = run.uid, Exists' <=> Exists
      PROVE  SawSuccess'
  BY <1>1, NoneThere DEF SawSuccess, Own
<1>2. CASE Reconcile
  <2>1. run'.uid = run.uid /\ (Exists' <=> Exists)
    BY <1>2, OpeningWrites
  <2>2. CASE op'.at \in {"mirror", "claim", "write"}
    <3>1. pod' = pod /\ (Own' <=> Own)
      BY <1>2, <2>1, <2>2, PassSees DEF Own
    <3>2. op'.at = "mirror" => (op'.saw = "Succeeded" => pod.phase = "Succeeded")
      BY <1>2, PassSees
    <3>3. op'.at \in {"claim", "write"} =>
            op'.saw = op.saw /\ op.at \in {"mirror", "claim"} /\ op.saw = "Succeeded"
      <4>1. op'.at = "write" => op'.saw = op.saw /\ op.at = "claim"
        BY <1>2, PassSees
      <4>2. op'.at = "claim" => op'.saw = op.saw /\ op.at = "mirror" /\ op.saw = "Succeeded"
        BY <1>2, PassSees
      <4> QED
        BY <4>1, <4>2 DEF SawSuccess
    <3> QED
      BY <2>2, <3>1, <3>2, <3>3 DEF SawSuccess
  <2>3. CASE op'.at \notin {"mirror", "claim", "write"}
    BY <2>3 DEF SawSuccess
  <2> QED
    BY <2>2, <2>3
<1>3. CASE Dispatcher
  <2>1. op' = op /\ pod'.uid = pod.uid /\ (Exists' <=> Exists) /\ run'.uid = run.uid
    BY <1>3, DispatcherMoves DEF SamePod
  <2>2. Live
    BY <1>3, DispatcherWrites
  <2> QED
    BY <1>1, <2>1, <2>2 DEF Live
<1>4. CASE Kubernetes
  <2>1. UNCHANGED <<op, run, made>>
    BY <1>4, ClusterMoves
  <2>2. CASE pod' # NoPod /\ pod # NoPod
    <3>1. pod'.uid = pod.uid
      BY <1>4, <2>2, ClusterMoves DEF SamePod
    <3>2. pod.phase = "Succeeded" => pod'.phase = pod.phase
      BY <1>4, <2>2, ClusterSteps DEF Live
    <3> QED
      BY <1>1, <2>1, <3>1, <3>2 DEF Exists
  <2>3. CASE pod' = NoPod
    BY <1>n, <2>1, <2>3, NoneThere DEF SawSuccess, Own, Exists
  <2> QED
    BY <1>4, <2>2, <2>3, ClusterMoves
<1>5. CASE CreateRun
  <2>1. run'.uid = made + 1 /\ UNCHANGED <<pod, op>>
    BY <1>5 DEF CreateRun
  <2>2. ~Own'
    BY <1>n, <2>1 DEF Order, Own
  <2> QED
    BY <2>1, <2>2 DEF SawSuccess
<1>6. CASE DeleteRun
  BY <1>6 DEF DeleteRun, SawSuccess, Own, Exists
<1>7. CASE Resync \/ Informed \/ handleRunDelete \/ OpCrashes \/ UNCHANGED vars
  BY <1>1, <1>7 DEF Resync, Informed, handleRunDelete, OpCrashes, cluster, vars, Exists
<1> QED
  BY <1>2, <1>3, <1>4, <1>5, <1>6, <1>7 DEF Next, Operator, Manager

-----------------------------------------------------------------------------
(* Stands is kept when the fresh read does not fail and reports are not     *)
(* lost so often that a Run is still Pending when its agent ends.           *)

FreshReads == <<"operator", "unfresh">> \notin Troubles
FewLosses == MaxTroubles <= 3 \/ <<"dispatcher", "lost">> \notin Troubles

\* A pod that can only fail can do so only, unless it is deleted.
LEMMA StepWillFail ==
  ASSUME Types, WillFail, ~pod.going, Reconcile \/ Dispatcher \/ Kubernetes
  PROVE  WillFail'
<1>n. /\ made \in Nat /\ run.uid \in Nat /\ pod.uid \in Nat /\ op.uid \in Nat
      /\ (pod = NoPod <=> pod.uid = 0) /\ (op = Idle <=> op.uid = 0) /\ (Exists <=> run.uid # 0)
  BY Numbered
<1>0. Own /\ pod # NoPod
  BY <1>n DEF WillFail, Own
<1>t. troubled \in Nat /\ MaxTroubles \in Nat
  BY BoundsAssumption DEF Types, RestType
<1>1. CASE Reconcile
  <2>1. /\ run'.uid = run.uid /\ (Exists' <=> Exists)
        /\ pod'.uid = pod.uid /\ pod'.stage = pod.stage /\ pod'.phase = pod.phase
        /\ pod'.engine = pod.engine
    BY <1>0, <1>1, OpeningWrites, PassLeavesPod
  <2>2. troubled' = troubled \/ troubled' = troubled + 1
    BY <1>1, StepRest DEF Next, Operator
  <2>3. troubled >= MaxTroubles => troubled' >= MaxTroubles
    BY <1>t, <2>2
  <2> QED
    BY <2>1, <2>3 DEF WillFail, Own, Live
<1>2. CASE Dispatcher
  <2>1. /\ pod'.uid = pod.uid /\ (Exists' <=> Exists) /\ run'.uid = run.uid /\ Live
        /\ pod'.phase = pod.phase
    BY <1>2, DispatcherMoves, DispatcherWrites, AgentSteps DEF SamePod, AgentStage
  <2>2. Own' /\ Live'
    BY <1>0, <2>1 DEF Own, Live
  <2>3. pod'.engine = pod.engine
    BY <1>2, AgentSteps DEF AgentStage
  <2>4. troubled' = troubled \/ troubled' = troubled + 1
    BY <1>2, StepRest DEF Next
  <2>5. troubled >= MaxTroubles => troubled' >= MaxTroubles
    BY <1>t, <2>4
  <2>6. pod.stage \in {"fatal", "exit1"} => pod'.stage \in {"fatal", "exit1"}
    BY <1>2, AgentSteps DEF AgentStage, AgentStops
  <2> QED
    BY <2>1, <2>2, <2>3, <2>5, <2>6 DEF WillFail, Live
<1>3. CASE Kubernetes
  <2>1. UNCHANGED <<op, run, made>> /\ pod' # NoPod /\ pod'.uid = pod.uid
    BY <1>0, <1>3, ClusterMoves DEF SamePod
  <2>2. Own'
    BY <1>0, <2>1 DEF Own, Exists
  <2>3. troubled' = troubled \/ troubled' = troubled + 1
    BY <1>3, StepRest DEF Next
  <2>4. troubled >= MaxTroubles => troubled' >= MaxTroubles
    BY <1>t, <2>3
  <2>5. CASE pod' = pod
    BY <2>2, <2>4, <2>5 DEF WillFail, Live
  <2>6. CASE EngineEnds /\ troubled < MaxTroubles /\ pod'.stage = pod.stage /\ pod'.phase = pod.phase
    BY <1>t, <2>2, <2>6 DEF WillFail, Live
  <2>7. CASE pod'.phase = "Failed"
    BY <2>2, <2>7 DEF WillFail
  <2>8. CASE Live /\ pod'.phase = "Succeeded" /\ pod.engine # "up" /\ pod.stage = "exit0"
    BY <2>8 DEF WillFail, Live
  <2>9. CASE pod'.stage = pod.stage /\ pod'.phase = pod.phase /\ pod'.engine = pod.engine
    BY <2>2, <2>4, <2>9 DEF WillFail, Live
  <2> QED
    BY <1>0, <1>3, <2>1, <2>5, <2>6, <2>7, <2>8, <2>9, ClusterSteps
<1> QED
  BY <1>1, <1>2, <1>3

\* A pass that may still reopen the Run was there before, or has found the Run
\* new, or makes its pod.
LEMMA PassRewrites ==
  ASSUME Types, Reconcile, Rewrites'
  PROVE  \/ Rewrites
         \/ OpTakes /\ Exists /\ run.phase = "Pending"
         \/ Opening /\ pod = NoPod
<1>0. Idle.at = "idle"
  BY NoneThere
<1>1. op' # Idle
  BY <1>0 DEF Rewrites
<1>2. CASE OpTakes
  BY <1>1, <1>2, PassMoves DEF Rewrites
<1>3. CASE ~OpTakes
  <2>1. op'.phase = op.phase /\ (Opening' => Opening)
    BY <1>1, <1>3, PassMoves
  <2>2. op'.at = "created" => OpCreatesPod /\ pod = NoPod
    BY PassCreates
  <2>3. OpCreatesPod => Opening
    BY DEF OpCreatesPod, Opening
  <2>4. Opening'
    BY DEF Rewrites, Opening
  <2> QED
    BY <2>1, <2>2, <2>3, <2>4 DEF Rewrites, Opening
<1> QED
  BY <1>2, <1>3

\* A failure that is recorded by a step stands after it.
LEMMA NewFailureStands ==
  ASSUME FewLosses, Types, Order, LostBefore, SawSuccess, Ended, Dispatcher,
         "failed" \in history', "failed" \notin history
  PROVE  Stands'
<1>n. /\ made \in Nat /\ run.uid \in Nat /\ pod.uid \in Nat /\ op.uid \in Nat
      /\ (pod = NoPod <=> pod.uid = 0) /\ (op = Idle <=> op.uid = 0) /\ (Exists <=> run.uid # 0)
  BY Numbered
<1>1. /\ op' = op /\ pod'.uid = pod.uid /\ (Exists' <=> Exists) /\ run'.uid = run.uid
  BY DispatcherMoves DEF SamePod
<1>2. Own /\ Live /\ run'.phase = "Failed" /\ troubled' = troubled
  BY NewFailure
<1>3. \/ AgentStage("ending", "fatal")
      \/ AgentStage("ending", "exit0")
      \/ AgentStage("fatal", "exit1")
  BY NewFailure
<1>4. Own' /\ Live' /\ (Rewrites' <=> Rewrites)
  BY <1>1, <1>2, <1>3 DEF Own, Live, AgentStage, Rewrites
<1>5. FailedOrWillFail'
  BY <1>2 DEF FailedOrWillFail
<1>6. pod'.stage \in {"fatal", "exit0", "exit1"}
  BY <1>3 DEF AgentStage
<1>7. op'.at # "write"
  BY <1>1, <1>2 DEF SawSuccess, Live
<1>8. Rewrites => WillFail'
  <2>1. CASE pod'.stage \in {"fatal", "exit1"}
    BY <1>4, <2>1 DEF WillFail
  <2>2. CASE AgentStage("ending", "exit0") /\ Rewrites
    <3>1. pod.stage = "ending" /\ pod'.engine = pod.engine
      BY <2>2 DEF AgentStage
    <3>2. "finished" \in history
      BY <1>2, <3>1 DEF Ended
    <3>3. op # Idle
      BY <2>2, NoneThere DEF Rewrites
    <3>4. op.uid = pod.uid
      BY <1>2, <3>2, <3>3 DEF Order, Own
    <3>5. op.phase = "Pending"
      BY <1>2, <2>2, <3>1, <3>3, <3>4 DEF Rewrites, LostBefore, PassBeganLate
    <3>6. troubled >= 3 + EngineGone /\ <<"dispatcher", "lost">> \in Troubles
      BY <1>2, <3>1, <3>3, <3>4, <3>5 DEF LostBefore, PassBeganLate
    <3>7. MaxTroubles <= 3 /\ troubled \in Nat /\ troubled <= MaxTroubles /\ MaxTroubles \in Nat
      BY <3>6, BoundsAssumption DEF FewLosses, Types, RestType
    <3>8. EngineGone \in {0, 1}
      BY DEF EngineGone
    <3>9. EngineGone = 0 /\ troubled >= MaxTroubles
      BY <3>6, <3>7, <3>8
    <3>10. pod'.engine = "up"
      BY <3>1, <3>9 DEF EngineGone
    <3> QED
      BY <1>2, <1>4, <3>9, <3>10 DEF WillFail
  <2> QED
    BY <1>3, <2>1, <2>2 DEF AgentStage
<1> QED
  BY <1>4, <1>5, <1>6, <1>7, <1>8 DEF Stands

\* Every step lets a failure stand.
LEMMA StepStands ==
  ASSUME FreshReads, FewLosses, Types, Order, PodStays, LostBefore, Ended, SawSuccess, Stands,
         [Next]_vars
  PROVE  Stands'
<1> SUFFICES ASSUME Clean', "failed" \in history'
             PROVE  Stands'
  BY DEF Stands
<1>n. /\ made \in Nat /\ run.uid \in Nat /\ pod.uid \in Nat /\ op.uid \in Nat
      /\ (pod = NoPod <=> pod.uid = 0) /\ (op = Idle <=> op.uid = 0) /\ (Exists <=> run.uid # 0)
      /\ (Exists => run.uid = made /\ run.phase \in Phases)
  BY Numbered
<1>p. Terminal \cap Open = {} /\ "Failed" \in Terminal /\ "Pending" \in Open
      /\ "Initializing" \in Open /\ Terminal = {"Succeeded", "Failed"}
  BY DEF Terminal, Open
<1>i. Idle.at = "idle" /\ NoPod.phase # "Running"
  BY NoneThere
<1>f. ASSUME Clean, "failed" \in history
      PROVE  /\ Exists /\ "finished" \in history
             /\ pod # NoPod => Own
             /\ Opening => Own /\ ~pod.going
             /\ run.phase \in Open => WillFail /\ ~pod.going
             /\ Rewrites => WillFail /\ ~pod.going
  <2>1. Exists /\ "finished" \in history
    BY <1>f DEF Ended, Order
  <2>2. pod # NoPod => Own
    BY <2>1 DEF Order
  <2>3. Opening => Own /\ ~pod.going
    BY <1>f, <2>1 DEF PodStays
  <2>4. Rewrites => Opening /\ WillFail
    BY <1>f DEF Rewrites, Opening, Stands
  <2>5. run.phase \in Open => WillFail
    BY <1>f, <1>p DEF Stands, FailedOrWillFail
  <2>6. run.phase \in Open /\ WillFail => ~pod.going
    BY <1>f, <1>p DEF PodStays, WillFail
  <2> QED
    BY <2>1, <2>2, <2>3, <2>4, <2>5, <2>6
<1>1. ASSUME op' = op \/ op' = Idle, UNCHANGED <<run, pod, history>>,
             troubled' = troubled \/ troubled' = troubled + 1
      PROVE  Stands'
  <2>1. Clean /\ "failed" \in history /\ (Own' <=> Own) /\ (Live' <=> Live)
    BY <1>1 DEF Clean, Own, Exists, Live
  <2>2. troubled >= MaxTroubles => troubled' >= MaxTroubles
    <3>1. troubled \in Nat /\ MaxTroubles \in Nat
      BY BoundsAssumption DEF Types, RestType
    <3> QED
      BY <1>1, <3>1
  <2>3. WillFail => WillFail'
    BY <1>1, <2>1, <2>2 DEF WillFail
  <2>4. (Rewrites' => Rewrites) /\ (op'.at = "write" => op.at = "write")
    BY <1>1, <1>i DEF Rewrites
  <2> QED
    BY <1>1, <2>1, <2>3, <2>4 DEF Stands, FailedOrWillFail
<1>2. CASE Reconcile
  <2>0. history' = history /\ run'.uid = run.uid /\ (Exists' <=> Exists)
    BY <1>2, OpeningWrites
  <2>1. Clean /\ "failed" \in history
    BY <2>0 DEF Clean
  <2>2. /\ pod'.uid = pod.uid /\ pod'.stage = pod.stage /\ pod'.phase = pod.phase
        /\ pod'.engine = pod.engine
    <3>1. ~(OpCreatesPod /\ pod = NoPod)
      <4>1. OpCreatesPod => Opening
        BY DEF OpCreatesPod, Opening
      <4>2. Opening => Own
        BY <1>f, <2>1
      <4>3. ~(Own /\ pod = NoPod)
        BY <1>n DEF Own
      <4> QED
        BY <4>1, <4>2, <4>3
    <3> QED
      BY <1>2, <3>1, PassLeavesPod
  <2>3. (Own' <=> Own) /\ (Live' <=> Live)
    BY <2>0, <2>2 DEF Own, Live
  <2>4. WillFail /\ ~pod.going => WillFail'
    BY <1>2, StepWillFail
  <2>5. FailedOrWillFail'
    <3>1. CASE run' = run
      BY <1>f, <2>1, <2>4, <3>1 DEF Stands, FailedOrWillFail
    <3>2. CASE run'.phase \in Terminal /\ run' # run
      <4>1. ~OpSucceeds
        BY <2>1 DEF OpSucceeds, Stands
      <4>2. Written("Failed") \/ Written("Initializing")
        BY <1>2, <3>2, <4>1, PassWrites
      <4>3. run'.phase = "Failed" \/ run'.phase = "Initializing"
        BY <3>2, <4>2, PatchedRun DEF Written, Types, Phases, Open, Terminal
      <4> QED
        BY <1>p, <3>2, <4>3 DEF FailedOrWillFail
    <3>3. CASE run'.phase = "Initializing" /\ (OpRecordsPod \/ OpMirrors) /\ Opening
      <4>1. Rewrites
        BY <3>3 DEF OpRecordsPod, OpMirrors, Opening, Rewrites
      <4> QED
        BY <1>f, <1>p, <2>1, <2>4, <3>3, <4>1 DEF FailedOrWillFail
    <3> QED
      BY <1>2, <3>1, <3>2, <3>3, OpeningWrites
  <2>6. Rewrites' => WillFail'
    <3>1. CASE Rewrites
      BY <1>f, <2>1, <2>4, <3>1
    <3>2. CASE OpTakes /\ Exists /\ run.phase = "Pending"
      BY <1>f, <1>p, <2>1, <2>4, <3>2
    <3>3. ~(Opening /\ pod = NoPod)
      BY <1>f, <1>n, <2>1 DEF Own
    <3> QED
      BY <1>2, <3>1, <3>2, <3>3, PassRewrites
  <2>7. (Own /\ Live)' => pod'.stage \in {"fatal", "exit0", "exit1"}
    BY <2>1, <2>2, <2>3 DEF Stands
  <2>8. op'.at # "write"
    <3> SUFFICES ASSUME op'.at = "write"
                 PROVE  FALSE
      OBVIOUS
    <3>1. op.at = "claim" /\ Fresh \notin Terminal
      BY <1>2, PassSees DEF FreshReads
    <3>2. run.phase \notin Terminal /\ run.phase \in Phases
      BY <1>f, <1>n, <2>1, <3>1 DEF Fresh
    <3>3. WillFail
      BY <1>f, <2>1, <3>2 DEF Phases
    <3>4. pod.phase = "Succeeded"
      BY <3>1, <3>3 DEF SawSuccess, WillFail
    <3> QED
      BY <3>3, <3>4 DEF WillFail, Live
  <2> QED
    BY <2>5, <2>6, <2>7, <2>8 DEF Stands
<1>3. CASE Dispatcher
  <2>1. CASE "failed" \notin history
    BY <1>3, <2>1, NewFailureStands
  <2>2. CASE "failed" \in history
    <3>1. /\ op' = op /\ pod # NoPod /\ pod'.uid = pod.uid /\ pod'.going = pod.going
          /\ (Exists' <=> Exists) /\ run'.uid = run.uid /\ history \subseteq history' /\ Live
      BY <1>3, DispatcherMoves, DispatcherMarks, DispatcherWrites DEF SamePod
    <3>2. Clean
      BY <3>1 DEF Clean
    <3>3. Own /\ Own' /\ (Rewrites' <=> Rewrites)
      BY <1>f, <2>2, <3>1, <3>2 DEF Own, Rewrites
    <3>4. pod.stage \in {"fatal", "exit0", "exit1"}
      BY <2>2, <3>1, <3>2, <3>3 DEF Stands
    <3>5. \/ AgentDies /\ AgentStage("fatal", "exit1") /\ AgentPatches("Failed")
          \/ run' = run /\ (AgentStage("fatal", "exit0") \/ AgentStage("fatal", "exit1"))
      <4>1. ASSUME NEW y, AgentStage("boot", y) \/ AgentStage("health", y) \/ AgentStage("polling", y)
                          \/ AgentStage("ending", y)
            PROVE  FALSE
        BY <3>4, <4>1 DEF AgentStage
      <4> QED
        BY <1>3, <4>1, AgentSteps
    <3>6. run' = run \/ run'.phase = "Failed"
      BY <3>5, PatchedRun DEF AgentPatches, Types, Phases, Terminal
    <3>7. WillFail /\ ~pod.going => WillFail'
      BY <1>3, StepWillFail
    <3>8. FailedOrWillFail'
      BY <1>f, <2>2, <3>2, <3>6, <3>7 DEF Stands, FailedOrWillFail
    <3>9. Rewrites' => WillFail'
      BY <1>f, <2>2, <3>2, <3>3, <3>7
    <3>10. pod'.stage \in {"fatal", "exit0", "exit1"}
      BY <3>5 DEF AgentStage
    <3>11. op'.at # "write"
      BY <2>2, <3>1, <3>2 DEF Stands
    <3> QED
      BY <3>8, <3>9, <3>10, <3>11 DEF Stands
  <2> QED
    BY <2>1, <2>2
<1>4. CASE Kubernetes
  <2>1. UNCHANGED <<op, run, made>> /\ history \subseteq history'
        /\ ("failed" \in history' => "failed" \in history) /\ (Rewrites' <=> Rewrites)
    BY <1>4, ClusterMoves DEF Rewrites
  <2>2. Clean /\ "failed" \in history
    BY <2>1 DEF Clean
  <2>3. WillFail /\ ~pod.going => WillFail'
    BY <1>4, StepWillFail
  <2>4. FailedOrWillFail'
    BY <1>f, <2>1, <2>2, <2>3 DEF Stands, FailedOrWillFail
  <2>5. Rewrites' => WillFail'
    BY <1>f, <2>1, <2>2, <2>3
  <2>6. (Own /\ Live)' => pod'.stage \in {"fatal", "exit0", "exit1"}
    <3> SUFFICES ASSUME Live'
                 PROVE  pod'.stage \in {"fatal", "exit0", "exit1"}
      OBVIOUS
    <3>1. pod # NoPod /\ pod' # NoPod
      BY <1>4, <1>i, ClusterMoves DEF Live
    <3>2. pod'.stage = pod.stage /\ pod'.phase = pod.phase
      BY <1>4, <3>1, ClusterSteps DEF Live
    <3>3. Own /\ Live
      BY <1>f, <2>2, <3>1, <3>2 DEF Live
    <3> QED
      BY <2>2, <3>2, <3>3 DEF Stands
  <2>7. op'.at # "write"
    BY <2>1, <2>2 DEF Stands
  <2> QED
    BY <2>4, <2>5, <2>6, <2>7 DEF Stands
<1>5. CASE Manager
  <2>1. history' = {}
    BY <1>5 DEF Manager, CreateRun, DeleteRun, Order
  <2> QED
    BY <2>1
<1>6. CASE Resync \/ Informed \/ handleRunDelete \/ OpCrashes \/ UNCHANGED vars
  BY <1>1, <1>6 DEF Resync, Informed, handleRunDelete, OpCrashes, cluster, vars, Trouble
<1> QED
  BY <1>2, <1>3, <1>4, <1>5, <1>6 DEF Next, Operator

\* At first there is no failure.
LEMMA InitStands == Init => Stands
BY DEF Init, Stands

\* A failure the dispatcher has recorded is not turned into a success by the
\* operator, as long as its fresh read does not fail, and as no Run has lost so
\* many reports that the operator takes it for new when its agent has ended.
THEOREM FailuresStand ==
  ASSUME FreshReads, FewLosses
  PROVE  Spec => []FailureStands
<1>1. Types /\ Order /\ Stands => FailureStands
  <2> SUFFICES ASSUME Stands, "failed" \in history, run.phase = "Succeeded",
                      "drained" \notin history, "reopened" \notin history
               PROVE  FALSE
    BY DEF FailureStands
  <2> QED
    BY DEF Stands, Clean, FailedOrWillFail, Open
<1> DEFINE I == Types /\ Order /\ PodStays /\ LostBefore /\ Ended /\ SawSuccess /\ Stands
<1>2. Init => I
  BY InitTypes, InitOrder, InitStays, InitLost, InitEnded, InitStands
<1>3. I /\ [Next]_vars => I'
  BY StepTypes, StepOrder, StepStays, StepLost, StepEnded, StepSawSuccess, StepStands
<1>4. I => FailureStands
  BY <1>1
<1> HIDE DEF I
<1> QED
  BY <1>2, <1>3, <1>4, PTL DEF Spec

=============================================================================
