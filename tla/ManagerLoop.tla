---------------------------- MODULE ManagerLoop ----------------------------
(***************************************************************************)
(* What makes the manager look at a project: the queue of projects, the    *)
(* informers and the resync that fill it, the one worker that empties it   *)
(* (manager-controller/src/reconciler-bridge.ts, index.ts), the pause of a *)
(* project, kept in memory and in annotations (agent/tools.ts), and the    *)
(* first part of a cycle, the interactive runs requested by annotation     *)
(* (reconciler/interactive-requests.ts).  The rest of a cycle is BuildTask *)
(* and PlanTask; here it only takes its time.                              *)
(*                                                                         *)
(* Every project has one task that interactive runs are requested for.     *)
(* Left out: get_reconcile_status, the delays between items, requests that *)
(* do not parse (the writers check them), audit events.                    *)
(***************************************************************************)
EXTENDS Integers, Sequences, SequencesExt, FiniteSets

CONSTANTS
  Projects,
  Habits,      \* what people do to projects, in one behaviour or another: sets
               \* of <<what, project>>, with "pause", "delete" and "request"
  Troubles,    \* what may go wrong: <<who, what>>
  MaxTroubles, \* bound: how often in all
  MaxPauses,   \* bound: pauses in all
  MaxRequests  \* bound: interactive runs requested for one task

VARIABLES
  alive,    \* the projects that exist
  news,     \* news[p]: the events of the project informer, not delivered yet
  touched,  \* the projects that the task and run informers have an event of, or
            \* any of the three at its start
  queue,    \* the keys, in the order they came
  worker,   \* the iteration of runWorker and what it has read
  memory,   \* pauseStates: "none", "on" or "lapsed"
  noted,    \* the projects with pause annotations whose time is not up
  call,     \* the pause or resume tool called and not answered yet
  request,  \* the request in the annotation of the project's task, 0 for none
  asked,    \* the requests written so far
  over,     \* the projects whose task is done, or an idea again
  made,     \* made[p]: the requests for which a Run was created
  unseen,   \* history: tasks or runs of these changed since the last listing
  held,     \* history: these are paused, and that is on record
  letgo,    \* history: the key of these was dropped unread, paused or gone
  habit, pauses, troubled

ASSUME ProjectsAssumption == IsFiniteSet(Projects)
ASSUME HabitsAssumption == Habits \subseteq SUBSET ({"pause", "delete", "request"} \X Projects)
ASSUME BoundsAssumption == {MaxTroubles, MaxPauses, MaxRequests} \subseteq Nat

tasks == <<request, asked, over, made>>
pausing == <<memory, noted, call, held, pauses, habit>>
vars == <<alive, news, touched, queue, worker, memory, noted, call, request,
          asked, over, made, unseen, held, letgo, habit, pauses, troubled>>

NoProject == "none"
NoCall == [does |-> "nothing", project |-> NoProject]
Idle == [at |-> "idle", project |-> NoProject, noted |-> FALSE, request |-> 0, over |-> FALSE]

Trouble(who, what) ==
  /\ <<who, what>> \in Troubles /\ troubled < MaxTroubles
  /\ troubled' = troubled + 1

-----------------------------------------------------------------------------
(* The queue is a set that keeps the order of insertion.                   *)

\* The latest key comes first.
Added_First(q, p) == IF Contains(q, p) THEN q ELSE <<p>> \o q
Added(q, p) == IF Contains(q, p) THEN q ELSE Append(q, p)
Removed(q, p) == IF Contains(q, p) THEN RemoveAt(q, CHOOSE i \in DOMAIN q : q[i] = p) ELSE q

enqueue(p) == queue' = Added(queue, p) /\ letgo' = letgo \ {p}
dequeue(p) == queue' = Removed(queue, p) /\ UNCHANGED letgo

\* A change of a task or a run of p.
Changed(p) == unseen' = unseen \cup ({p} \cap alive) /\ touched' = touched \cup {p}
Unchanged == UNCHANGED <<unseen, touched>>

-----------------------------------------------------------------------------
(* runWorker.                                                              *)

At(at) == worker.at = at
Busy(at) == worker' = [worker EXCEPT !.at = at]

\* The oldest key is taken out of the queue before anything else.
TakeKey ==
  /\ At("idle") /\ queue # <<>>
  /\ worker' = [Idle EXCEPT !.at = "read", !.project = Head(queue)]
  /\ queue' = Tail(queue)
  /\ UNCHANGED <<alive, news, touched, pausing, tasks, unseen, letgo, troubled>>

\* The key stays until the iteration is over: one that comes in is not noted.
ItemDone_Removes ==
  /\ queue' = Removed(queue, worker.project) /\ worker' = Idle /\ UNCHANGED letgo
ItemDone == worker' = Idle /\ UNCHANGED <<queue, letgo>>
LetGo ==
  /\ worker' = Idle /\ UNCHANGED queue
  /\ letgo' = letgo \cup ({worker.project} \ ToSet(queue))

\* An error other than 404 puts the key back.
ItemFails == worker' = Idle /\ enqueue(worker.project)

\* getProject throws a 404 for a project that is gone.
ReadProject ==
  /\ At("read")
  /\ \/ /\ worker.project \in alive
        /\ worker' = [worker EXCEPT !.at = "check", !.noted = worker.project \in noted]
        /\ UNCHANGED <<queue, letgo, troubled>>
     \/ worker.project \notin alive /\ LetGo /\ UNCHANGED troubled
     \/ Trouble("manager", "unread") /\ ItemFails
  /\ UNCHANGED <<alive, news, touched, pausing, tasks, unseen>>

\* Only this process knows of the pause.
effectivePauseState_InMemory(p, annotated) == memory[p]
effectivePauseState(p, annotated) ==
  IF memory[p] = "none" /\ annotated THEN "on" ELSE memory[p]

\* reconcile
CheckPause ==
  /\ At("check")
  /\ IF effectivePauseState(worker.project, worker.noted) = "on" THEN LetGo
     ELSE Busy("list") /\ UNCHANGED <<queue, letgo>>
  /\ UNCHANGED <<alive, news, touched, pausing, tasks, unseen, troubled>>

\* reconcileProject, up to the second listing.
ListTasks ==
  /\ At("list")
  /\ \/ /\ worker' = [worker EXCEPT !.at = "requests", !.request = request[worker.project],
                                    !.over = worker.project \in over]
        /\ unseen' = unseen \ {worker.project}
        /\ UNCHANGED <<queue, letgo, troubled>>
     \/ Trouble("manager", "unlisted") /\ ItemFails /\ UNCHANGED unseen
  /\ UNCHANGED <<alive, news, touched, pausing, tasks>>

\* A failure to make the run is taken for one of an earlier attempt.
RunMissing_Cleared == "clear"
RunMissing == "rest"

\* processInteractiveRequests.  A Run of the same name exists already: 409.
ServeRequest ==
  /\ At("requests")
  /\ IF worker.request = 0 \/ worker.over
     THEN /\ Busy(IF worker.request = 0 THEN "rest" ELSE "clear")
          /\ UNCHANGED <<made, touched, unseen, troubled>>
     ELSE \/ /\ Busy("clear") /\ UNCHANGED troubled
             /\ made' = [made EXCEPT ![worker.project] = @ \cup {worker.request}]
             /\ IF worker.request \in made[worker.project] THEN Unchanged
                ELSE Changed(worker.project)
          \/ /\ Trouble("request", "unmade") /\ Busy(RunMissing)
             /\ UNCHANGED made /\ Unchanged
          \/ /\ Trouble("request", "unanswered") /\ Busy(RunMissing)
             /\ made' = [made EXCEPT ![worker.project] = @ \cup {worker.request}]
             /\ Changed(worker.project)
  /\ UNCHANGED <<alive, news, queue, pausing, request, asked, over, letgo>>

\* clearAnnotation names no version and no value.
clearAnnotation ==
  /\ At("clear") /\ Busy("rest")
  /\ \/ /\ worker.project \in alive
        /\ request' = [request EXCEPT ![worker.project] = 0]
        /\ Changed(worker.project) /\ UNCHANGED troubled
     \/ worker.project \notin alive /\ UNCHANGED <<request, touched, unseen, troubled>>
     \/ Trouble("request", "uncleared") /\ UNCHANGED <<request, touched, unseen>>
  /\ UNCHANGED <<alive, news, queue, pausing, asked, over, made, letgo>>

\* The tasks are decided, the findings ingested.
EndCycle ==
  /\ At("rest") /\ ItemDone
  /\ UNCHANGED <<alive, news, touched, pausing, tasks, unseen, troubled>>

Worker ==
  \/ TakeKey \/ ReadProject \/ CheckPause \/ ListTasks \/ ServeRequest
  \/ clearAnnotation \/ EndCycle

-----------------------------------------------------------------------------
(* What fills the queue.                                                   *)

\* An informer tells of the last of several changes only.
Told(s) == IF s # <<>> /\ Last(s) = "change" THEN s ELSE Append(s, "change")

ProjectInformer(p) ==
  /\ news[p] # <<>>
  /\ news' = [news EXCEPT ![p] = Tail(@)]
  /\ IF Head(news[p]) = "change" THEN enqueue(p) ELSE dequeue(p)
  /\ UNCHANGED <<alive, touched, worker, pausing, tasks, unseen, troubled>>

\* enqueueTaskProject, enqueueRunProject
TaskInformer(p) ==
  /\ p \in touched
  /\ touched' = touched \ {p} /\ enqueue(p)
  /\ UNCHANGED <<alive, news, worker, pausing, tasks, unseen, troubled>>

\* Every minute, what is listed then.
PeriodicResync ==
  /\ alive \ ToSet(queue) # {}
  /\ \E s \in SetToSeqs(alive \ ToSet(queue)) : queue' = queue \o s
  /\ letgo' = letgo \ alive
  /\ UNCHANGED <<alive, news, touched, worker, pausing, tasks, unseen, troubled>>

\* The manager stops; the next process lists what there is.
Restart ==
  /\ Trouble("manager", "crash")
  /\ worker' = Idle /\ queue' = <<>> /\ letgo' = {}
  /\ memory' = [p \in Projects |-> "none"] /\ call' = NoCall
  /\ news' = [p \in Projects |-> <<>>] /\ touched' = alive
  /\ UNCHANGED <<habit, alive, noted, tasks, unseen, held, pauses>>

-----------------------------------------------------------------------------
(* The tools pause_reconciliation and resume_reconciliation: first the     *)
(* memory, then the annotations, whose write may fail unnoticed.           *)

Pause(p) ==
  /\ <<"pause", p>> \in habit /\ call = NoCall /\ pauses < MaxPauses /\ pauses' = pauses + 1
  /\ memory' = [memory EXCEPT ![p] = "on"]
  /\ call' = [does |-> "on", project |-> p]
  /\ UNCHANGED <<habit, alive, news, touched, queue, worker, noted, tasks, unseen,
                 held, letgo, troubled>>

Resume(p) ==
  /\ call = NoCall /\ (memory[p] # "none" \/ p \in noted)
  /\ memory' = [memory EXCEPT ![p] = "none"]
  /\ call' = [does |-> "none", project |-> p] /\ held' = held \ {p}
  /\ UNCHANGED <<habit, alive, news, touched, queue, worker, noted, tasks, unseen,
                 letgo, pauses, troubled>>

AnnotatePause ==
  /\ call # NoCall /\ call' = NoCall
  /\ LET p == call.project IN
     \/ /\ p \in alive /\ noted' = IF call.does = "on" THEN noted \cup {p} ELSE noted \ {p}
        /\ news' = [news EXCEPT ![p] = Told(@)]
        /\ held' = IF call.does = "on" /\ memory[p] = "on" THEN held \cup {p} ELSE held
        /\ UNCHANGED troubled
     \/ p \notin alive /\ UNCHANGED <<noted, news, held, troubled>>
     \/ Trouble("pause", "unnoted") /\ UNCHANGED <<noted, news, held>>
  /\ UNCHANGED <<habit, alive, touched, queue, worker, memory, tasks, unseen, letgo, pauses>>

\* The time is up, in memory, where it started first, or in the annotations,
\* those the worker has read included.
PauseLapses(p) ==
  /\ \/ /\ memory[p] = "on" /\ memory' = [memory EXCEPT ![p] = "lapsed"]
        /\ UNCHANGED <<noted, worker>>
     \/ /\ p \in noted /\ memory[p] # "on" /\ UNCHANGED memory
        /\ noted' = noted \ {p}
        /\ worker' = IF worker.project = p THEN [worker EXCEPT !.noted = FALSE] ELSE worker
  /\ held' = held \ {p}
  /\ UNCHANGED <<habit, alive, news, touched, queue, call, tasks, unseen, letgo, pauses, troubled>>

-----------------------------------------------------------------------------
(* Everybody else.                                                         *)

\* Tasks and runs of p change: agents, humans, the operator, the cycle itself.
Change(p) ==
  /\ p \in alive /\ Changed(p)
  /\ UNCHANGED <<alive, news, queue, worker, pausing, tasks, letgo, troubled>>

\* By the web server, the command line or a tool; it replaces one not served.
RequestRun(p) ==
  /\ <<"request", p>> \in habit /\ p \in alive \ over /\ asked[p] < MaxRequests
  /\ asked' = [asked EXCEPT ![p] = @ + 1]
  /\ request' = [request EXCEPT ![p] = asked'[p]]
  /\ Changed(p)
  /\ UNCHANGED <<alive, news, queue, worker, pausing, over, made, letgo, troubled>>

\* Done, or put back to the ideas.
TaskEnds(p) ==
  /\ <<"request", p>> \in habit /\ p \in alive \ over
  /\ over' = over \cup {p} /\ Changed(p)
  /\ UNCHANGED <<alive, news, queue, worker, pausing, request, asked, made, letgo, troubled>>

\* Out of the ideas, or out of done by a tool.
TaskResumes(p) ==
  /\ <<"request", p>> \in habit /\ p \in alive \cap over
  /\ over' = over \ {p} /\ Changed(p)
  /\ UNCHANGED <<alive, news, queue, worker, pausing, request, asked, made, letgo, troubled>>

\* Its tasks and their runs go with it.
DeleteProject(p) ==
  /\ <<"delete", p>> \in habit /\ p \in alive /\ alive' = alive \ {p}
  /\ news' = [news EXCEPT ![p] = Append(@, "delete")]
  /\ touched' = touched \cup {p} /\ unseen' = unseen \ {p}
  /\ noted' = noted \ {p} /\ held' = held \ {p}
  /\ request' = [request EXCEPT ![p] = 0]
  /\ UNCHANGED <<habit, queue, worker, memory, call, asked, over, made, letgo, pauses, troubled>>

\* Under the old name, with a task of its own.
CreateProject(p) ==
  /\ p \in Projects \ alive /\ alive' = alive \cup {p} /\ Len(news[p]) < 3
  /\ news' = [news EXCEPT ![p] = Told(@)]
  /\ over' = over \ {p} /\ unseen' = unseen \cup {p} /\ touched' = touched \cup {p}
  /\ UNCHANGED <<queue, worker, pausing, request, asked, made, letgo, troubled>>

Init ==
  /\ alive = Projects
  /\ news = [p \in Projects |-> <<>>] /\ touched = Projects
  /\ queue = <<>> /\ worker = Idle
  /\ memory = [p \in Projects |-> "none"] /\ noted = {} /\ call = NoCall
  /\ request = [p \in Projects |-> 0] /\ asked = request /\ over = {}
  /\ made = [p \in Projects |-> {}]
  /\ unseen = Projects /\ held = {} /\ letgo = {} /\ habit \in Habits
  /\ pauses = 0 /\ troubled = 0

Informers == \E p \in Projects : ProjectInformer(p) \/ TaskInformer(p)
Tools == (\E p \in Projects : Pause(p) \/ Resume(p)) \/ AnnotatePause
Others ==
  \E p \in Projects :
    \/ Change(p) \/ RequestRun(p) \/ TaskEnds(p) \/ TaskResumes(p)
    \/ DeleteProject(p) \/ CreateProject(p)

Next ==
  \/ Worker \/ Informers \/ PeriodicResync \/ Restart \/ Tools
  \/ (\E p \in Projects : PauseLapses(p)) \/ Others

Spec == Init /\ [][Next]_vars

\* The worker and the resync go on and pauses lapse; that a watch delivers is
\* not assumed.
Fairness ==
  /\ WF_vars(Worker) /\ WF_vars(PeriodicResync)
  /\ \A p \in Projects : WF_vars(PauseLapses(p))

FairSpec == Spec /\ Fairness

-----------------------------------------------------------------------------
(* What the projects may count on.                                         *)

\* The types; no project is in the queue twice.
TypeOK ==
  /\ alive \subseteq Projects /\ touched \subseteq Projects
  /\ \A p \in Projects : news[p] \in Seq({"change", "delete"})
  /\ ToSet(queue) \subseteq Projects /\ IsInjective(queue)
  /\ worker.project \in Projects \cup {NoProject}
  /\ memory \in [Projects -> {"none", "on", "lapsed"}]
  /\ noted \subseteq alive
  /\ call.project \in Projects \cup {NoProject}
  /\ \A p \in Projects : request[p] \in {0, asked[p]} /\ asked[p] \in 0..MaxRequests
  /\ over \subseteq Projects /\ \A p \in Projects : made[p] \subseteq 1..asked[p]
  /\ unseen \subseteq alive /\ held \subseteq alive /\ letgo \subseteq Projects
  /\ pauses \in 0..MaxPauses /\ troubled \in 0..MaxTroubles

\* A change whose event was delivered is not lost, even without the resync: the
\* key is in the queue, or the worker is on the project and has not listed its
\* tasks yet, unless the key was let go for a pause or a project gone.
NoWakeUpLost ==
  \A p \in unseen :
    \/ p \in touched \cup ToSet(queue) \cup letgo \/ news[p] # <<>>
    \/ worker.project = p /\ worker.at \in {"read", "check", "list"}

\* Every change is seen by a cycle in the end, also one that came while the
\* project was paused or whose event was not delivered, and whatever the other
\* projects do: they share one worker, and a failing one comes back at the end.
ChangesSeen == \A p \in Projects : p \in unseen ~> p \notin unseen

\* A pause on record holds: no cycle begins before it lapses or is resumed,
\* over restarts, whose memory is empty, and projects read before the pause.
PauseHolds ==
  [][\A p \in held : ~(CheckPause /\ worker.project = p /\ worker'.at = "list")]_vars

\* A request the cycle has listed leaves the annotation only when its Run was
\* created, it was replaced by another, or its task is done, whatever fails in
\* between.  (One that was written after the listing is cleared unread.)
ClearedWhenServed ==
  [][\A p \in alive :
       clearAnnotation /\ worker.project = p /\ request[p] # request'[p]
         => request[p] \in made[p] \/ request[p] # worker.request \/ worker.over]_vars

=============================================================================
