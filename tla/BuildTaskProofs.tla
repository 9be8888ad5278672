-------------------------- MODULE BuildTaskProofs --------------------------
(***************************************************************************)
(* Proofs about the reconciler of BuildTask, for any tasks, runs, flow     *)
(* settings and human actions.                                             *)
(***************************************************************************)
EXTENDS BuildTask, FiniteSetTheorems, TLAPS

-----------------------------------------------------------------------------
(* Types. *)

\* The worker statuses are records of the same fields.
LEMMA Fields ==
  /\ NewWorker \in Worker
  /\ \A w \in Worker : DOMAIN w = DOMAIN NewWorker
BY DEF NewWorker, Worker

\* A patch leaves a worker status a worker status.
LEMMA MergeType ==
  ASSUME NEW w \in Worker, NEW p, PatchOK(p)
  PROVE  Merge(w, p) \in Worker
<1> DEFINE m == Merge(w, p)
           n == Merge(NewWorker, p)
<1>1. DOMAIN w = {"retry", "ai", "run", "review", "merge",
                  "mergeError", "merged", "abandoned", "longFail"}
  BY DEF Worker
<1>2. \A f \in DOMAIN w : m[f] = w[f] \/ m[f] = n[f]
  BY <1>1, Fields DEF Merge
<1>3. m = [retry |-> m.retry, ai |-> m.ai, run |-> m.run, review |-> m.review,
           merge |-> m.merge, mergeError |-> m.mergeError, merged |-> m.merged,
           abandoned |-> m.abandoned, longFail |-> m.longFail]
  BY <1>1 DEF Merge
<1>4. n \in Worker
  BY DEF PatchOK
<1> HIDE DEF m, n
<1>5. m \in Worker
  BY <1>1, <1>2, <1>3, <1>4 DEF Worker
<1> QED
  BY <1>5 DEF m

\* What the decisions read of the list is about tasks.
LEMMA NeededType ==
  ASSUME NEW S \in SUBSET Tasks
  PROVE  S \subseteq Needed(S) /\ Needed(S) \subseteq Tasks
  BY TasksAssumption DEF Needed

\* The names of the runs of a task are names.
LEMMA RunNames ==
  ASSUME NEW t \in Tasks, NEW w \in Worker
  PROVE  /\ WorkerRun(t, w) \in RunId /\ ReviewRun(t, w) \in RunId
         /\ MergeRun(t, w) \in RunId /\ RemergeRun(t, w) \in RunId
  BY DEF Worker, WorkerRun, ReviewRun, MergeRun, RemergeRun, RunId, RunKind

\* The list of a cycle in progress, seen from a task it still has to decide.
LEMMA SeenType ==
  ASSUME TypeOK, cycle # NoCycle, NEW t \in cycle.todo
  PROVE  t \in Tasks /\ Seen(t) \in Snapshot
<1>1. PICK S \in SUBSET Tasks : cycle \in Cycle(S)
  BY DEF TypeOK
<1>2. cycle.todo = S /\ cycle.seen \in [Needed(S) -> Snapshot]
  BY <1>1 DEF Cycle
<1> QED
  BY <1>2, NeededType DEF Seen

-----------------------------------------------------------------------------
(* Decisions: the pass that each one starts. *)

\* A merge patch, field by field.
LEMMA MergeFields ==
  ASSUME NEW w \in Worker, NEW p
  PROVE  LET m == Merge(w, p) IN
         /\ m.retry = IF "retry" \in DOMAIN p THEN p["retry"] ELSE w.retry
         /\ m.ai = IF "ai" \in DOMAIN p THEN p["ai"] ELSE w.ai
         /\ m.run = IF "run" \in DOMAIN p THEN p["run"] ELSE w.run
<1>1. DOMAIN w = {"retry", "ai", "run", "review", "merge",
                  "mergeError", "merged", "abandoned", "longFail"}
  BY DEF Worker
<1> QED
  BY <1>1 DEF Merge

\* The patches of the decisions have the types of the fields they name.
LEMMA PatchTypes ==
  ASSUME NEW r \in Nat, NEW a \in Nat, NEW x \in NameOrNone, NEW b \in BOOLEAN
  PROVE  /\ PatchOK(NoPatch)
         /\ PatchOK([run |-> x, retry |-> r, ai |-> a])
         /\ PatchOK([retry |-> r, ai |-> a])
         /\ PatchOK([retry |-> r])
         /\ PatchOK([ai |-> a])
         /\ PatchOK([review |-> x])
         /\ PatchOK([merge |-> x])
         /\ PatchOK([merge |-> x, mergeError |-> b])
         /\ PatchOK([mergeError |-> b])
         /\ PatchOK([merged |-> b])
         /\ PatchOK([abandoned |-> b])
         /\ PatchOK([longFail |-> b])
<1> USE DEF PatchOK, Merge, NewWorker, Worker, NameOrNone
<1>1. PatchOK(NoPatch)
  BY DEF NoPatch
<1>2. PatchOK([run |-> x, retry |-> r, ai |-> a])
  OBVIOUS
<1>3. PatchOK([retry |-> r, ai |-> a])
  OBVIOUS
<1>4. PatchOK([retry |-> r])
  OBVIOUS
<1>5. PatchOK([ai |-> a])
  OBVIOUS
<1>6. PatchOK([review |-> x])
  OBVIOUS
<1>7. PatchOK([merge |-> x])
  OBVIOUS
<1>8. PatchOK([merge |-> x, mergeError |-> b])
  OBVIOUS
<1>9. PatchOK([mergeError |-> b])
  OBVIOUS
<1>10. PatchOK([merged |-> b])
  OBVIOUS
<1>11. PatchOK([abandoned |-> b])
  OBVIOUS
<1>12. PatchOK([longFail |-> b])
  OBVIOUS
<1> HIDE DEF PatchOK, Merge, NewWorker, Worker, NameOrNone
<1> QED
  BY <1>1, <1>2, <1>3, <1>4, <1>5, <1>6, <1>7, <1>8, <1>9, <1>10, <1>11, <1>12

\* What carrying a decision on the task t out rests on.
Sound(t, p) ==
  /\ p \in Pass(p.patch) /\ PatchOK(p.patch)
  /\ p.task = t /\ p.stage = "effects" /\ p.from = Seen(t).phase
  /\ Prescribes(p, Seen(t).worker)

Decision(t, to, patch, create, discard, clear) ==
  [task |-> t, stage |-> "effects", from |-> Seen(t).phase, to |-> to,
   patch |-> patch, create |-> create, discard |-> discard, clear |-> clear]

\* A record of the right fields is a pass.
LEMMA DecisionType ==
  ASSUME NEW t \in Tasks, Seen(t) \in Snapshot, NEW to \in TaskPhase,
         NEW patch, PatchOK(patch),
         NEW create \in NameOrNone, NEW discard \in NameOrNone,
         NEW clear \in SUBSET Acts
  PROVE  LET p == Decision(t, to, patch, create, discard, clear) IN
         /\ p \in Pass(p.patch) /\ PatchOK(p.patch)
         /\ p.task = t /\ p.stage = "effects" /\ p.from = Seen(t).phase
         /\ p.to = to /\ p.patch = patch
BY DEF Decision, Pass, Snapshot

\* Most decisions leave the counters and the launched run alone.
LEMMA PlainDecision ==
  ASSUME NEW t \in Tasks, Seen(t) \in Snapshot,
         NEW to \in TaskPhase \ {"initializing", "pending", "rework-requested"},
         NEW patch, PatchOK(patch),
         "retry" \notin DOMAIN patch, "ai" \notin DOMAIN patch, "run" \notin DOMAIN patch,
         NEW create \in NameOrNone, NEW discard \in NameOrNone,
         NEW clear \in SUBSET Acts
  PROVE  Sound(t, Decision(t, to, patch, create, discard, clear))
<1> DEFINE p == Decision(t, to, patch, create, discard, clear)
           w == Seen(t).worker
           m == Merge(w, patch)
<1>1. w \in Worker
  BY DEF Snapshot
<1>2. m.retry = w.retry /\ m.ai = w.ai /\ m.run = w.run
  BY <1>1, MergeFields
<1>3. AttemptOf(m) = AttemptOf(w) /\ LaunchedOf(m) = LaunchedOf(w)
  BY <1>2 DEF AttemptOf, LaunchedOf
<1> HIDE DEF m
<1>4. p.to = to /\ Merge(w, p.patch) = m
  BY DecisionType DEF m
<1>5. Prescribes(p, w)
  BY <1>3, <1>4 DEF Prescribes
<1> QED
  BY <1>5, DecisionType DEF Sound

\* A decision rests on the list, and sets what its transition prescribes.
LEMMA DecideSound ==
  ASSUME TypeOK, cycle # NoCycle, NEW t \in cycle.todo, Decide(t)
  PROVE  Sound(t, pass')
<1> DEFINE w == Seen(t).worker
<1>0. t \in Tasks /\ Seen(t) \in Snapshot
  BY SeenType
<1>1. w \in Worker /\ Seen(t).notes \in SUBSET Acts
  BY <1>0 DEF Snapshot
<1>2. NoRun \in NameOrNone /\ w.merge \in NameOrNone /\ {} \in SUBSET Acts
      /\ {"answer"} \in SUBSET Acts
  BY <1>1 DEF NameOrNone, Worker, Acts
<1>3. /\ WorkerRun(t, w) \in NameOrNone /\ ReviewRun(t, w) \in NameOrNone
      /\ MergeRun(t, w) \in NameOrNone /\ RemergeRun(t, w) \in NameOrNone
  BY <1>0, <1>1, RunNames DEF NameOrNone
<1>4. w.retry \in Nat /\ w.ai \in Nat /\ w.retry + 1 \in Nat /\ w.ai + 1 \in Nat
  BY <1>1 DEF Worker
<1> DEFINE Plain(to) == Decision(t, to, NoPatch, NoRun, NoRun, {})
<1>5. /\ DOMAIN NoPatch = {} /\ PatchOK(NoPatch)
      /\ \A to : Move(t, to) = Plain(to)
  BY PatchTypes, <1>2 DEF NoPatch, Move, Decision
<1>6. \A to \in TaskPhase \ {"initializing", "pending", "rework-requested"} :
        Sound(t, Move(t, to))
  BY <1>0, <1>2, <1>5, PlainDecision
<1>7. \A to \in TaskPhase \ {"initializing", "pending", "rework-requested"} :
        Sound(t, Consuming(t, Move(t, to)))
  <2> TAKE to \in TaskPhase \ {"initializing", "pending", "rework-requested"}
  <2>1. Consuming(t, Move(t, to)) = Decision(t, to, NoPatch, NoRun, NoRun, Seen(t).notes)
    BY DEF Consuming, Move, Decision
  <2> QED
    BY <2>1, <1>0, <1>1, <1>2, <1>5, PlainDecision
<1>8. ASSUME NEW q, PatchOK(q),
             "retry" \notin DOMAIN q, "ai" \notin DOMAIN q, "run" \notin DOMAIN q,
             NEW to \in TaskPhase \ {"initializing", "pending", "rework-requested"},
             NEW x \in NameOrNone
      PROVE  /\ Sound(t, [Move(t, to) EXCEPT !.patch = q])
             /\ Sound(t, [Move(t, to) EXCEPT !.patch = q, !.create = x])
             /\ Sound(t, [[Move(t, to) EXCEPT !.patch = q] EXCEPT !.discard = x])
             /\ Sound(t, Consuming(t, [Move(t, to) EXCEPT !.patch = q]))
             /\ Sound(t, Consuming(t, [Move(t, to) EXCEPT !.patch = q, !.create = x]))
  <2>1. [Move(t, to) EXCEPT !.patch = q] = Decision(t, to, q, NoRun, NoRun, {})
    BY DEF Move, Decision
  <2>2. [Move(t, to) EXCEPT !.patch = q, !.create = x] = Decision(t, to, q, x, NoRun, {})
    <3>1. [Move(t, to) EXCEPT !.patch = q, !.create = x]
            = [[Move(t, to) EXCEPT !.patch = q] EXCEPT !.create = x]
      BY DEF Move
    <3>2. [Decision(t, to, q, NoRun, NoRun, {}) EXCEPT !.create = x]
            = Decision(t, to, q, x, NoRun, {})
      BY DEF Decision
    <3> QED
      BY <2>1, <3>1, <3>2
  <2>3. [Decision(t, to, q, NoRun, NoRun, {}) EXCEPT !.discard = x]
          = Decision(t, to, q, NoRun, x, {})
    BY DEF Decision
  <2>4. Consuming(t, Decision(t, to, q, NoRun, NoRun, {}))
          = Decision(t, to, q, NoRun, NoRun, Seen(t).notes)
    BY DEF Consuming, Decision
  <2>5. Consuming(t, Decision(t, to, q, x, NoRun, {}))
          = Decision(t, to, q, x, NoRun, Seen(t).notes)
    BY DEF Consuming, Decision
  <2>6. /\ Sound(t, Decision(t, to, q, NoRun, NoRun, {}))
        /\ Sound(t, Decision(t, to, q, x, NoRun, {}))
        /\ Sound(t, Decision(t, to, q, NoRun, x, {}))
        /\ Sound(t, Decision(t, to, q, NoRun, NoRun, Seen(t).notes))
        /\ Sound(t, Decision(t, to, q, x, NoRun, Seen(t).notes))
    BY <1>0, <1>1, <1>2, <1>8, PlainDecision
  <2> QED
    BY <2>1, <2>2, <2>3, <2>4, <2>5, <2>6
<1>9. WorkerFailed(t) => Sound(t, pass')
  <2> HAVE WorkerFailed(t)
  <2> PICK long \in BOOLEAN :
         pass' = [Move(t, "failed") EXCEPT !.patch = [longFail |-> long]]
    BY DEF WorkerFailed
  <2>1. PatchOK([longFail |-> long])
    BY <1>2, PatchTypes
  <2> QED
    BY <2>1, <1>2, <1>8 DEF TaskPhase
<1>10. Sound(t, AbandonTask(t))
  <2> DEFINE q == [abandoned |-> TRUE]
  <2>1. PatchOK(q) /\ DOMAIN q = {"abandoned"}
    BY <1>2, PatchTypes
  <2>2. AbandonTask(t) = Consuming(t, [Move(t, "done") EXCEPT !.patch = q])
    BY DEF AbandonTask
  <2> HIDE DEF q
  <2> QED
    BY <2>1, <2>2, <1>2, <1>8 DEF TaskPhase
<1>11. Seen(t).phase # "rework-requested" => Sound(t, ReworkTask(t))
  <2> HAVE Seen(t).phase # "rework-requested"
  <2> DEFINE q == [retry |-> w.retry + 1, ai |-> 0]
             m == Merge(w, q)
  <2>1. ReworkTask(t) = Decision(t, "rework-requested", q, NoRun, NoRun, Seen(t).notes)
    <3>1. [Move(t, "rework-requested") EXCEPT !.patch = q]
            = Decision(t, "rework-requested", q, NoRun, NoRun, {})
      BY DEF Move, Decision
    <3>2. Consuming(t, Decision(t, "rework-requested", q, NoRun, NoRun, {}))
            = Decision(t, "rework-requested", q, NoRun, NoRun, Seen(t).notes)
      BY DEF Consuming, Decision
    <3> QED
      BY <3>1, <3>2 DEF ReworkTask
  <2>2. PatchOK(q)
    BY <1>2, <1>4, PatchTypes
  <2>3. m.retry = w.retry + 1 /\ m.ai = 0 /\ m.run = w.run
    BY <1>1, MergeFields
  <2>4. Lifecycle!Before(AttemptOf(w), AttemptOf(m)) /\ AttemptOf(m) # AttemptOf(w)
        /\ LaunchedOf(m) = LaunchedOf(w)
    BY <1>4, <2>3 DEF AttemptOf, LaunchedOf, Lifecycle!Before
  <2> HIDE DEF q
  <2>5. Prescribes(Decision(t, "rework-requested", q, NoRun, NoRun, Seen(t).notes), w)
    BY <2>4 DEF Prescribes, Decision
  <2> QED
    BY <2>1, <2>2, <2>5, <1>0, <1>1, <1>2, DecisionType DEF Sound, TaskPhase
<1>12. CASE DecidePending(t)
  BY <1>6, <1>12 DEF DecidePending, TaskPhase
<1>13. CASE DecideScheduled(t)
  <2> DEFINE q == [run |-> WorkerRun(t, w), retry |-> w.retry, ai |-> w.ai]
             m == Merge(w, q)
             x == WorkerRun(t, w)
  <2>1. PatchOK(q)
    BY <1>3, <1>4, PatchTypes, <1>2
  <2>2. pass' = [Move(t, "initializing") EXCEPT !.patch = q, !.create = x]
    BY <1>13 DEF DecideScheduled
  <2>3. m.retry = w.retry /\ m.ai = w.ai /\ m.run = x
    BY <1>1, MergeFields
  <2>4. x # NoRun /\ x.r = w.retry /\ x.a = w.ai
    BY <1>0, <1>1, RunNames, NoRunAssumption DEF WorkerRun
  <2>5. LaunchedOf(m) = AttemptOf(w) /\ AttemptOf(m) = AttemptOf(w)
    BY <2>3, <2>4 DEF LaunchedOf, AttemptOf
  <2> HIDE DEF q, x
  <2>6. [Move(t, "initializing") EXCEPT !.patch = q, !.create = x]
          = Decision(t, "initializing", q, x, NoRun, {})
    <3>1. [Move(t, "initializing") EXCEPT !.patch = q, !.create = x]
            = [[Move(t, "initializing") EXCEPT !.patch = q] EXCEPT !.create = x]
      BY DEF Move
    <3>2. [Move(t, "initializing") EXCEPT !.patch = q]
            = Decision(t, "initializing", q, NoRun, NoRun, {})
      BY DEF Move, Decision
    <3>3. [Decision(t, "initializing", q, NoRun, NoRun, {}) EXCEPT !.create = x]
            = Decision(t, "initializing", q, x, NoRun, {})
      BY DEF Decision
    <3> QED
      BY <3>1, <3>2, <3>3
  <2>7. Prescribes(Decision(t, "initializing", q, x, NoRun, {}), w)
    BY <2>5, <1>13 DEF Prescribes, Decision, DecideScheduled, In
  <2>8. x \in NameOrNone
    BY <1>3 DEF x
  <2> DEFINE d == Decision(t, "initializing", q, x, NoRun, {})
  <2>9. /\ d \in Pass(d.patch) /\ PatchOK(d.patch)
        /\ d.task = t /\ d.stage = "effects" /\ d.from = Seen(t).phase
    BY <2>1, <2>8, <1>0, <1>2, DecisionType DEF TaskPhase
  <2> QED
    BY <2>2, <2>6, <2>7, <2>9 DEF Sound
<1>14. CASE DecideInitializing(t)
  BY <1>6, <1>9, <1>14 DEF DecideInitializing, TaskPhase
<1>15. CASE DecideRunning(t)
  BY <1>6, <1>9, <1>15 DEF DecideRunning, TaskPhase
<1>16. CASE DecideWaitingForInput(t)
  <2>1. Sound(t, [Move(t, "running") EXCEPT !.clear = {"answer"}])
    <3>1. [Move(t, "running") EXCEPT !.clear = {"answer"}]
            = Decision(t, "running", NoPatch, NoRun, NoRun, {"answer"})
      BY DEF Move, Decision
    <3> QED
      BY <3>1, <1>0, <1>2, <1>5, PlainDecision DEF TaskPhase
  <2>2. Sound(t, Move(t, "failed")) /\ Sound(t, Move(t, "succeeded"))
    BY <1>6 DEF TaskPhase
  <2>3. \/ pass' = Move(t, "failed") \/ pass' = Move(t, "succeeded")
        \/ pass' = AbandonTask(t) \/ pass' = ReworkTask(t)
        \/ pass' = [Move(t, "running") EXCEPT !.clear = {"answer"}]
    BY <1>16 DEF DecideWaitingForInput
  <2>4. Seen(t).phase = "waiting-for-input"
    BY <1>16 DEF DecideWaitingForInput, In
  <2> QED
    BY <2>1, <2>2, <2>3, <2>4, <1>10, <1>11
<1>17. CASE DecideSucceeded(t)
  <2> DEFINE x == ReviewRun(t, w)
             q == [review |-> x]
  <2>1. PatchOK(q) /\ x \in NameOrNone
    BY <1>2, <1>3, <1>4, PatchTypes
  <2>2. Sound(t, [Move(t, "reviewing") EXCEPT !.patch = q, !.create = x])
    BY <2>1, <1>8 DEF TaskPhase
  <2>3. Sound(t, Move(t, "done")) /\ Sound(t, Move(t, "awaiting-human"))
    BY <1>6 DEF TaskPhase
  <2>4. \/ pass' = Move(t, "done") \/ pass' = Move(t, "awaiting-human")
        \/ pass' = [Move(t, "reviewing") EXCEPT !.patch = q, !.create = x]
    BY <1>17 DEF DecideSucceeded
  <2> QED
    BY <2>2, <2>3, <2>4
<1>18. CASE DecideReviewing(t)
  <2> DEFINE q == [ai |-> w.ai + 1]
             m == Merge(w, q)
  <2>1. PatchOK(q)
    BY <1>2, <1>4, PatchTypes
  <2>2. m.retry = w.retry /\ m.ai = w.ai + 1 /\ m.run = w.run
    BY <1>1, MergeFields
  <2>3. /\ Lifecycle!Before(AttemptOf(w), AttemptOf(m)) /\ AttemptOf(m) # AttemptOf(w)
        /\ LaunchedOf(m) = LaunchedOf(w)
    BY <1>4, <2>2 DEF AttemptOf, LaunchedOf, Lifecycle!Before
  <2>4. Seen(t).phase = "reviewing"
    BY <1>18 DEF DecideReviewing, In
  <2>5. \/ pass' = Move(t, "awaiting-human")
        \/ \E to \in {"awaiting-human", "rework-requested"} :
             pass' = [Move(t, to) EXCEPT !.patch = q]
    BY <1>18 DEF DecideReviewing
  <2> HIDE DEF q
  <2>6. ASSUME NEW to \in {"awaiting-human", "rework-requested"}
        PROVE  Sound(t, [Move(t, to) EXCEPT !.patch = q])
    <3>1. [Move(t, to) EXCEPT !.patch = q] = Decision(t, to, q, NoRun, NoRun, {})
      BY DEF Move, Decision
    <3>2. Prescribes(Decision(t, to, q, NoRun, NoRun, {}), w)
      BY <2>3, <2>4 DEF Prescribes, Decision
    <3> DEFINE d == Decision(t, to, q, NoRun, NoRun, {})
    <3>3. /\ d \in Pass(d.patch) /\ PatchOK(d.patch)
          /\ d.task = t /\ d.stage = "effects" /\ d.from = Seen(t).phase
      BY <2>1, <1>0, <1>2, DecisionType DEF TaskPhase
    <3> QED
      BY <3>1, <3>2, <3>3 DEF Sound
  <2>7. Sound(t, Move(t, "awaiting-human"))
    BY <1>6 DEF TaskPhase
  <2> QED
    BY <2>5, <2>6, <2>7
<1>19. CASE DecideAwaitingHuman(t)
  <2> DEFINE x == MergeRun(t, w)
             q == [merge |-> x]
  <2>1. PatchOK(q) /\ x \in NameOrNone
    BY <1>2, <1>3, <1>4, PatchTypes
  <2>2. Sound(t, Consuming(t, [Move(t, "awaiting-merge") EXCEPT !.patch = q, !.create = x]))
    BY <2>1, <1>8 DEF TaskPhase
  <2>3. Sound(t, Consuming(t, Move(t, "done")))
    BY <1>7 DEF TaskPhase
  <2>4. \/ pass' = AbandonTask(t) \/ pass' = ReworkTask(t)
        \/ pass' = Consuming(t, Move(t, "done"))
        \/ pass' = Consuming(t, [Move(t, "awaiting-merge") EXCEPT !.patch = q, !.create = x])
    BY <1>19 DEF DecideAwaitingHuman
  <2>5. Seen(t).phase = "awaiting-human"
    BY <1>19 DEF DecideAwaitingHuman, In
  <2> QED
    BY <2>2, <2>3, <2>4, <2>5, <1>10, <1>11
<1>20. CASE DecideAwaitingMerge(t)
  <2> DEFINE x == RemergeRun(t, w)
             remerge == [merge |-> x]
             failure == [mergeError |-> TRUE]
             success == [merged |-> TRUE]
  <2>1. /\ PatchOK(remerge) /\ PatchOK(failure) /\ PatchOK(success)
        /\ x \in NameOrNone
    BY <1>2, <1>3, <1>4, PatchTypes
  <2>2. Sound(t, [Move(t, "awaiting-merge") EXCEPT !.patch = remerge, !.create = x])
    BY <2>1, <1>8 DEF TaskPhase
  <2>3. /\ Sound(t, [Move(t, "failed") EXCEPT !.patch = failure])
        /\ Sound(t, [[Move(t, "failed") EXCEPT !.patch = failure] EXCEPT !.discard = w.merge])
        /\ Sound(t, [Move(t, "awaiting-human") EXCEPT !.patch = failure])
    BY <2>1, <1>2, <1>8 DEF TaskPhase
  <2>4. Sound(t, [Move(t, "done") EXCEPT !.patch = success])
    BY <2>1, <1>2, <1>8 DEF TaskPhase
  <2>5. \/ pass' = [Move(t, "awaiting-merge") EXCEPT !.patch = remerge, !.create = x]
        \/ pass' = [Move(t, "failed") EXCEPT !.patch = failure]
        \/ pass' = [[Move(t, "failed") EXCEPT !.patch = failure] EXCEPT !.discard = w.merge]
        \/ pass' = [Move(t, "awaiting-human") EXCEPT !.patch = failure]
        \/ pass' = [Move(t, "done") EXCEPT !.patch = success]
    BY <1>20 DEF DecideAwaitingMerge
  <2> QED
    BY <2>2, <2>3, <2>4, <2>5
<1>21. CASE DecideReworkRequested(t)
  BY <1>6, <1>21 DEF DecideReworkRequested, TaskPhase
<1>22. CASE DecideFailed(t)
  <2> DEFINE q == [merge |-> NoRun, mergeError |-> FALSE]
             next == [retry |-> w.retry + 1]
             m == Merge(w, next)
  <2>1. PatchOK(q) /\ PatchOK(next)
    BY <1>2, <1>4, PatchTypes
  <2>2. Sound(t, Consuming(t, [Move(t, "awaiting-merge") EXCEPT !.patch = q]))
    BY <2>1, <1>2, <1>8 DEF TaskPhase
  <2>3. Sound(t, Consuming(t, Move(t, "awaiting-human")))
    BY <1>7 DEF TaskPhase
  <2>4. Sound(t, RetryTask(t))
    <3>1. m.retry = w.retry + 1 /\ m.ai = w.ai /\ m.run = w.run
      BY <1>1, MergeFields
    <3>2. /\ Lifecycle!Before(AttemptOf(w), AttemptOf(m)) /\ AttemptOf(m) # AttemptOf(w)
          /\ LaunchedOf(m) = LaunchedOf(w)
      BY <1>4, <3>1 DEF AttemptOf, LaunchedOf, Lifecycle!Before
    <3>3. RetryTask(t) = [Move(t, "pending") EXCEPT !.patch = next]
      BY DEF RetryTask
    <3> HIDE DEF next
    <3> DEFINE d == Decision(t, "pending", next, NoRun, NoRun, {})
    <3>4. [Move(t, "pending") EXCEPT !.patch = next] = d
      BY DEF Move, Decision
    <3>5. Prescribes(d, w)
      BY <3>2, <1>22 DEF Prescribes, Decision, DecideFailed, In
    <3>6. /\ d \in Pass(d.patch) /\ PatchOK(d.patch)
          /\ d.task = t /\ d.stage = "effects" /\ d.from = Seen(t).phase
      BY <2>1, <1>0, <1>2, DecisionType DEF TaskPhase
    <3> QED
      BY <3>3, <3>4, <3>5, <3>6 DEF Sound
  <2>5. \/ pass' = Consuming(t, [Move(t, "awaiting-merge") EXCEPT !.patch = q])
        \/ pass' = Consuming(t, Move(t, "awaiting-human"))
        \/ pass' = RetryTask(t)
    BY <1>22 DEF DecideFailed
  <2> QED
    BY <2>2, <2>3, <2>4, <2>5
<1> QED
  BY <1>12, <1>13, <1>14, <1>15, <1>16, <1>17, <1>18, <1>19, <1>20, <1>21, <1>22
  DEF Decide

-----------------------------------------------------------------------------
(* Type correctness. *)

\* Past a task, the list still has the shape of a list.
LEMMA PastType ==
  ASSUME TypeOK, cycle # NoCycle, NEW t \in cycle.todo
  PROVE  /\ \E S \in SUBSET Tasks : Past(t) \in Cycle(S)
         /\ Past(t).todo = cycle.todo \ {t}
         /\ \A u \in cycle.todo \ {t} : Past(t).seen[u] = cycle.seen[u]
<1>1. PICK S \in SUBSET Tasks : cycle \in Cycle(S)
  BY DEF TypeOK
<1>2. /\ cycle = [todo |-> S, active |-> cycle.active, seen |-> cycle.seen]
      /\ cycle.active \in Int /\ cycle.seen \in [Needed(S) -> Snapshot]
  BY <1>1 DEF Cycle
<1> DEFINE R == S \ {t}
           seen == [u \in Needed(R) |-> cycle.seen[u]]
<1>3. R \in SUBSET Tasks /\ R \subseteq Needed(R) /\ Needed(R) \subseteq Needed(S)
  BY NeededType DEF Needed
<1>4. seen \in [Needed(R) -> Snapshot]
  BY <1>2, <1>3
<1>5. Past(t) = [todo |-> R, active |-> cycle.active, seen |-> seen]
  BY <1>2 DEF Past
<1>6. \A u \in R : seen[u] = cycle.seen[u]
  BY <1>3
<1> HIDE DEF R, seen
<1>7. Past(t) \in Cycle(R)
  BY <1>2, <1>4, <1>5 DEF Cycle
<1> QED
  BY <1>2, <1>3, <1>5, <1>6, <1>7 DEF R

\* A run added under a name is a run.
LEMMA RunAdded ==
  ASSUME TypeOK, NEW x \in RunId
  PROVE  DOMAIN With(x) \subseteq RunId /\ \A y \in DOMAIN With(x) : With(x)[y] \in Run
<1>1. worker[x.task].run \in RunId \cup {NoRun}
  BY DEF TypeOK, RunId, Worker
<1>2. [phase |-> "Pending", verdict |-> "none", about |-> worker[x.task].run] \in Run
  BY <1>1 DEF Run, RunPhase, Verdict
<1> QED
  BY <1>2 DEF With, TypeOK

\* The initial state has the types.
LEMMA InitType == Init => TypeOK
<1> SUFFICES ASSUME Init PROVE TypeOK
  OBVIOUS
<1>1. phase \in [Tasks -> TaskPhase]
  BY DEF Init, TaskPhase
<1>2. worker \in [Tasks -> Worker]
  BY Fields DEF Init
<1>3. notes \in [Tasks -> SUBSET Acts] /\ asked \in [Tasks -> SUBSET Acts]
  BY DEF Init
<1>4. DOMAIN runs = {}
  BY DEF Init
<1>5. backoff = {} /\ landed = {} /\ cycle = NoCycle /\ pass = NoPass
  BY DEF Init
<1> QED
  BY <1>1, <1>2, <1>3, <1>4, <1>5 DEF TypeOK

\* And every step keeps them.
LEMMA StepType ==
  ASSUME TypeOK, pass # NoPass => cycle # NoCycle, [Next]_vars
  PROVE  TypeOK'
<1> USE DEF TypeOK, history, task
<1>1. CASE StartCycle
  <2> DEFINE S == {t \in Tasks : phase[t] \notin {"idea", "done"}}
             seen == [t \in Needed(S) |-> [phase |-> phase[t], worker |-> worker[t],
                                           notes |-> notes[t]]]
  <2>1. Cardinality(ActiveTasks) \in Int
    BY FS_Subset, FS_CardinalityType, TasksAssumption DEF ActiveTasks
  <2>2. S \in SUBSET Tasks /\ Needed(S) \subseteq Tasks
    BY NeededType
  <2>3. seen \in [Needed(S) -> Snapshot]
    BY <2>2 DEF Snapshot
  <2>4. cycle' \in Cycle(S)
    BY <1>1, <2>1, <2>3 DEF StartCycle, Cycle
  <2> QED
    BY <1>1, <2>2, <2>4 DEF StartCycle
<1>2. CASE EndCycle
  BY <1>2 DEF EndCycle
<1>3. ASSUME NEW t \in Tasks, Visit(t)
      PROVE  TypeOK'
  <2>1. cycle # NoCycle /\ t \in cycle.todo /\ Decide(t) /\ cycle' = Past(t)
    BY <1>3 DEF Visit, Turn
  <2>2. Sound(t, pass')
    BY <2>1, DecideSound
  <2>3. pass' \in Pass(pass'.patch) /\ PatchOK(pass'.patch)
    BY <2>2 DEF Sound
  <2>4. \E S \in SUBSET Tasks : cycle' \in Cycle(S)
    BY <2>1, PastType
  <2> QED
    BY <1>3, <2>3, <2>4 DEF Visit
<1>4. ASSUME NEW t \in Tasks, PassOver(t)
      PROVE  TypeOK'
  <2>1. cycle # NoCycle /\ t \in cycle.todo /\ cycle' = Past(t)
    BY <1>4 DEF PassOver, Turn
  <2>2. \E S \in SUBSET Tasks : cycle' \in Cycle(S)
    BY <2>1, PastType
  <2> QED
    BY <1>4, <2>2 DEF PassOver
<1>5. CASE RunEffects
  <2>1. pass \in Pass(pass.patch) /\ PatchOK(pass.patch)
    BY <1>5 DEF RunEffects, InStage
  <2>2. pass' \in Pass(pass.patch) /\ pass'.patch = pass.patch
    BY <1>5, <2>1 DEF RunEffects, Pass
  <2>3. pass.create \in NameOrNone /\ pass.discard \in NameOrNone
    BY <2>1 DEF Pass
  <2>4. DOMAIN runs' \subseteq RunId /\ \A x \in DOMAIN runs' : runs'[x] \in Run
    <3>1. CASE runs' = With(pass.create) /\ pass.create # NoRun
      BY <2>3, <3>1, RunAdded DEF NameOrNone
    <3>2. CASE runs' = Without(pass.discard)
      BY <3>2 DEF Without
    <3>3. CASE runs' = runs
      BY <3>3
    <3> QED
      BY <1>5, <3>1, <3>2, <3>3 DEF RunEffects
  <2> QED
    BY <1>5, <2>1, <2>2, <2>4 DEF RunEffects
<1>6. CASE FailReplacing
  <2>1. DOMAIN runs' \subseteq RunId /\ \A x \in DOMAIN runs' : runs'[x] \in Run
    BY <1>6 DEF FailReplacing, Without
  <2> QED
    BY <1>6, <2>1 DEF FailReplacing
<1>7. ASSUME WriteStatus
      PROVE  /\ phase' \in [Tasks -> TaskPhase] /\ worker' \in [Tasks -> Worker]
             /\ backoff' \in SUBSET Tasks /\ asked' \in [Tasks -> SUBSET Acts]
             /\ UNCHANGED <<notes, runs, landed>>
  <2>1. pass \in Pass(pass.patch) /\ PatchOK(pass.patch)
    BY <1>7 DEF WriteStatus, InStage
  <2>2. pass.task \in Tasks /\ pass.to \in TaskPhase /\ pass.clear \in SUBSET Acts
    BY <2>1 DEF Pass
  <2>3. Merge(worker[pass.task], pass.patch) \in Worker
    BY <2>1, <2>2, MergeType
  <2> QED
    BY <1>7, <2>2, <2>3 DEF WriteStatus
<1>8. CASE PatchStatus
  <2>1. PICK S \in SUBSET Tasks : cycle \in Cycle(S)
    BY <1>8 DEF PatchStatus, WriteStatus, InStage
  <2>2. Adjusted(cycle.active) \in Int
    BY <2>1 DEF Cycle, Adjusted
  <2>3. cycle' \in Cycle(S)
    BY <1>8, <2>1, <2>2 DEF PatchStatus, Cycle
  <2>4. pass \in Pass(pass.patch) /\ PatchOK(pass.patch)
    BY <1>8 DEF PatchStatus, WriteStatus, InStage
  <2>5. pass' # NoPass => pass' \in Pass(pass.patch) /\ pass'.patch = pass.patch
    BY <1>8, <2>4 DEF PatchStatus, Pass
  <2> QED
    BY <1>7, <1>8, <2>3, <2>4, <2>5 DEF PatchStatus
<1>9. CASE PatchUnanswered
  BY <1>7, <1>9 DEF PatchUnanswered
<1>10. CASE ClearTaskAnnotations
  <2>1. notes' \in [Tasks -> SUBSET Acts]
    BY <1>10 DEF ClearTaskAnnotations
  <2> QED
    BY <1>10, <2>1 DEF ClearTaskAnnotations
<1>11. CASE Abort
  BY <1>11 DEF Abort
<1>12. CASE ManagerCrash
  BY <1>12 DEF ManagerCrash
<1>13. ASSUME NEW t \in Tasks, NEW new \in SUBSET Acts, Annotate(t, new)
       PROVE  TypeOK'
  <2>1. notes' \in [Tasks -> SUBSET Acts] /\ asked' \in [Tasks -> SUBSET Acts]
    BY <1>13 DEF Annotate
  <2> QED
    BY <1>13, <2>1 DEF Annotate
<1>14. ASSUME NEW t \in Tasks, Human(t)
       PROVE  TypeOK'
  <2>1. CASE Promote(t)
    <3>1. phase' \in [Tasks -> TaskPhase]
      BY <2>1 DEF Promote, TaskPhase
    <3> QED
      BY <2>1, <3>1 DEF Promote
  <2>2. \E new \in SUBSET Acts : Annotate(t, new) \/ Promote(t)
    <3>1. notes[t] \in SUBSET Acts
      OBVIOUS
    <3> QED
      BY <1>14, <3>1 DEF Human, Approve, RequestChanges, Abandon, Answer, Acts
  <2> QED
    BY <1>13, <2>1, <2>2
<1>15. ASSUME NEW t \in Tasks, BackoffElapses(t)
       PROVE  TypeOK'
  BY <1>15 DEF BackoffElapses
<1>16. ASSUME NEW x \in DOMAIN runs, RunSteps(x)
       PROVE  TypeOK'
  <2>1. ASSUME NEW from, NEW to \in RunPhase, NEW v \in Verdict, RunTurns(x, from, to, v)
        PROVE  TypeOK'
    <3>1. runs[x] \in Run
      OBVIOUS
    <3>2. DOMAIN runs' = DOMAIN runs /\ \A y \in DOMAIN runs' : runs'[y] \in Run
      BY <2>1, <3>1 DEF RunTurns, Run
    <3>3. runs[x].about \in NameOrNone
      BY <3>1 DEF Run, NameOrNone
    <3> QED
      BY <2>1, <3>2, <3>3 DEF RunTurns
  <2>2. CASE RunDeleted(x)
    <3>1. DOMAIN runs' \subseteq RunId /\ \A y \in DOMAIN runs' : runs'[y] \in Run
      BY <2>2 DEF RunDeleted, Without
    <3> QED
      BY <2>2, <3>1 DEF RunDeleted
  <2>3. \A kind \in RunKind : Verdicts(kind) \subseteq Verdict
    BY DEF RunKind, Verdicts, Verdict
  <2>4. x.kind \in RunKind /\ runs[x].verdict \in Verdict
    BY DEF RunId, Run
  <2>5. RunDeleted(x) \/ \E from : \E to \in RunPhase, v \in Verdict : RunTurns(x, from, to, v)
    BY <1>16, <2>3, <2>4
    DEF RunSteps, RunStarts, RunParks, RunResumes, RunStalls, RunSucceeds, RunFails,
        RunOverwritten, RunPhase, Verdict
  <2> QED
    BY <2>1, <2>2, <2>5
<1>17. CASE UNCHANGED vars
  BY <1>17 DEF vars
<1> QED
  BY <1>1, <1>2, <1>3, <1>4, <1>5, <1>6, <1>8, <1>9, <1>10, <1>11, <1>12, <1>14, <1>15,
     <1>16, <1>17 DEF Next, Manager, Environment

-----------------------------------------------------------------------------
(* Decisions are about the task as it is. *)

\* The pairs of counters are totally ordered.
LEMMA Order ==
  ASSUME NEW x \in Int \X Int, NEW y \in Int \X Int, NEW z \in Int \X Int
  PROVE  /\ ~Lifecycle!Before(x, x)
         /\ Lifecycle!Before(x, y) /\ Lifecycle!Before(y, z) => Lifecycle!Before(x, z)
         /\ Lifecycle!Before(x, y) => ~Lifecycle!Before(y, x)
         /\ Lifecycle!Before(x, y) \/ Lifecycle!Before(y, x) \/ x = y
BY DEF Lifecycle!Before

\* The counters and the launched run of a status are such pairs.
LEMMA Counters ==
  ASSUME NEW w \in Worker
  PROVE  AttemptOf(w) \in Nat \X Nat /\ LaunchedOf(w) \in Int \X Int
BY DEF Worker, AttemptOf, LaunchedOf, RunId

\* What the table says of the transitions that start work.
LEMMA Table ==
  ASSUME NEW from \in TaskPhase, NEW to, IsValidTransition(from, to)
  PROVE  /\ to \in TaskPhase \ {"idea"} /\ from # "done"
         /\ to = "initializing" => from = "scheduled"
         /\ to = "scheduled" => from \in {"pending", "rework-requested"}
BY DEF IsValidTransition, TRANSITION_TABLE, TaskPhase

\* What a status write does to its task, and that it writes nothing else.
LEMMA WriteFacts ==
  ASSUME TypeOK, DecisionsCurrent, WriteStatus
  PROVE  LET t == pass.task
             w == worker[t]
             m == Merge(w, pass.patch) IN
         /\ t \in Tasks /\ w \in Worker /\ m \in Worker
         /\ phase[t] = pass.from /\ phase'[t] = pass.to
         /\ worker'[t] = m
         /\ \A u \in Tasks \ {t} : phase'[u] = phase[u] /\ worker'[u] = worker[u]
         /\ pass.from \in TaskPhase \ {"idea"} /\ pass.to \in TaskPhase
         /\ Prescribes(pass, w)
         /\ pass.to # pass.from => IsValidTransition(pass.from, pass.to)
<1>1. pass # NoPass /\ pass \in Pass(pass.patch) /\ PatchOK(pass.patch)
  BY DEF TypeOK, WriteStatus, InStage
<1>2. pass.task \in Tasks /\ pass.from \in TaskPhase /\ pass.to \in TaskPhase
  BY <1>1 DEF Pass
<1>3. pass.stage = "patch"
  BY DEF WriteStatus, InStage
<1>4. /\ phase[pass.task] = pass.from /\ pass.from # "idea"
      /\ Prescribes(pass, worker[pass.task])
      /\ pass.to # pass.from => IsValidTransition(pass.from, pass.to)
  BY <1>1, <1>3 DEF DecisionsCurrent, PassCurrent
<1>5. worker[pass.task] \in Worker
  BY <1>2 DEF TypeOK
<1>6. Merge(worker[pass.task], pass.patch) \in Worker
  BY <1>1, <1>5, MergeType
<1>7. /\ phase' = [phase EXCEPT ![pass.task] = pass.to]
      /\ worker' = [worker EXCEPT ![pass.task] = Merge(worker[pass.task], pass.patch)]
  BY DEF WriteStatus
<1> HIDE DEF WriteStatus
<1> QED
  BY <1>2, <1>4, <1>5, <1>6, <1>7 DEF TypeOK

\* A status write keeps every launch within the attempts, and the attempt of
\* a task about to be worked on unused.
LEMMA WrittenAttempts ==
  ASSUME TypeOK, DecisionsCurrent, WriteStatus
  PROVE  AttemptUnused' /\ LaunchedWithinAttempts'
<1> DEFINE t == pass.task
           w == worker[t]
           m == Merge(w, pass.patch)
<1>1. /\ t \in Tasks /\ w \in Worker /\ m \in Worker
      /\ phase[t] = pass.from /\ phase'[t] = pass.to /\ worker'[t] = m
      /\ \A u \in Tasks \ {t} : phase'[u] = phase[u] /\ worker'[u] = worker[u]
      /\ pass.from \in TaskPhase \ {"idea"} /\ pass.to \in TaskPhase
      /\ Prescribes(pass, w)
      /\ pass.to # pass.from => IsValidTransition(pass.from, pass.to)
  BY WriteFacts
<1>2. /\ AttemptOf(w) \in Int \X Int /\ LaunchedOf(w) \in Int \X Int
      /\ AttemptOf(m) \in Int \X Int /\ LaunchedOf(m) \in Int \X Int
  BY <1>1, Counters
<1>3. /\ ~Lifecycle!Before(AttemptOf(w), LaunchedOf(w))
      /\ phase[t] \in {"idea", "pending", "rework-requested", "scheduled"}
           => Lifecycle!Before(LaunchedOf(w), AttemptOf(w))
  BY <1>1 DEF DecisionsCurrent, AttemptUnused, LaunchedWithinAttempts
<1> HIDE DEF t, w, m
<1>4. /\ IF pass.to = "initializing"
         THEN LaunchedOf(m) = AttemptOf(w) ELSE LaunchedOf(m) = LaunchedOf(w)
      /\ AttemptOf(m) # AttemptOf(w) =>
           /\ Lifecycle!Before(AttemptOf(w), AttemptOf(m))
           /\ pass.to \in {"pending", "rework-requested", "awaiting-human"}
      /\ pass.to \in {"pending", "rework-requested"} => AttemptOf(m) # AttemptOf(w)
  BY <1>1 DEF Prescribes, m
<1>5. ~Lifecycle!Before(AttemptOf(m), LaunchedOf(m))
  BY <1>2, <1>3, <1>4, Order
<1>6. pass.to \in {"idea", "pending", "rework-requested", "scheduled"}
        => Lifecycle!Before(LaunchedOf(m), AttemptOf(m))
  <2>1. CASE pass.to \in {"pending", "rework-requested"}
    BY <2>1, <1>2, <1>3, <1>4, Order
  <2>2. CASE pass.to = "scheduled"
    <3>1. pass.from \in {"pending", "rework-requested", "scheduled"}
      BY <2>2, <1>1, Table
    <3> QED
      BY <2>2, <3>1, <1>1, <1>3, <1>4
  <2>3. pass.to # "idea"
    BY <1>1, Table
  <2> QED
    BY <2>1, <2>2, <2>3
<1>7. \A u \in Tasks \ {t} :
        /\ ~Lifecycle!Before(AttemptOf(worker[u]), LaunchedOf(worker[u]))
        /\ phase[u] \in {"idea", "pending", "rework-requested", "scheduled"}
             => Lifecycle!Before(LaunchedOf(worker[u]), AttemptOf(worker[u]))
  BY DEF DecisionsCurrent, AttemptUnused, LaunchedWithinAttempts
<1>8. \A u \in Tasks :
        /\ ~Lifecycle!Before(AttemptOf(worker'[u]), LaunchedOf(worker'[u]))
        /\ phase'[u] \in {"idea", "pending", "rework-requested", "scheduled"}
             => Lifecycle!Before(LaunchedOf(worker'[u]), AttemptOf(worker'[u]))
  <2> TAKE u \in Tasks
  <2>1. CASE u = t
    BY <2>1, <1>1, <1>5, <1>6
  <2>2. CASE u # t
    BY <2>2, <1>1, <1>7
  <2> QED
    BY <2>1, <2>2
<1> QED
  BY <1>8 DEF AttemptUnused, LaunchedWithinAttempts

\* Before anything has run there is nothing to be behind of.
LEMMA InitDecisions == Init => DecisionsCurrent
<1> SUFFICES ASSUME Init PROVE DecisionsCurrent
  OBVIOUS
<1>1. ListCurrent /\ PassCurrent
  BY DEF Init, ListCurrent, PassCurrent
<1>2. ASSUME NEW t \in Tasks
      PROVE  /\ Lifecycle!Before(LaunchedOf(worker[t]), AttemptOf(worker[t]))
             /\ ~Lifecycle!Before(AttemptOf(worker[t]), LaunchedOf(worker[t]))
  <2>1. worker[t].retry = 0 /\ worker[t].ai = 0 /\ worker[t].run = NoRun
    BY DEF Init, NewWorker
  <2> QED
    BY <2>1 DEF AttemptOf, LaunchedOf, Lifecycle!Before
<1> QED
  BY <1>1, <1>2 DEF DecisionsCurrent, AttemptUnused, LaunchedWithinAttempts

\* Decisions stay current: the manager, one task at a time, is the only one
\* that writes the phase and the worker status of a task on its list.
LEMMA StepDecisions ==
  ASSUME TypeOK, DecisionsCurrent, [Next]_vars
  PROVE  DecisionsCurrent'
<1> USE DEF history, task
<1>a. ListCurrent /\ PassCurrent /\ AttemptUnused /\ LaunchedWithinAttempts
  BY DEF DecisionsCurrent
<1>b. UNCHANGED <<phase, worker>> => AttemptUnused' /\ LaunchedWithinAttempts'
  BY <1>a DEF AttemptUnused, LaunchedWithinAttempts
<1>c. UNCHANGED <<phase, worker, cycle>> => ListCurrent'
  BY <1>a DEF ListCurrent, Seen
<1>d. UNCHANGED <<phase, worker, cycle, pass>> => DecisionsCurrent'
  <2> HAVE UNCHANGED <<phase, worker, cycle, pass>>
  <2>1. PassCurrent'
    BY <1>a DEF PassCurrent
  <2> QED
    BY <2>1, <1>b, <1>c DEF DecisionsCurrent
<1>e. UNCHANGED <<phase, worker, cycle>> /\ pass' = NoPass => DecisionsCurrent'
  BY <1>b, <1>c DEF DecisionsCurrent, PassCurrent
<1>1. CASE StartCycle
  <2> DEFINE S == {t \in Tasks : phase[t] \notin {"idea", "done"}}
             seen == [t \in Needed(S) |-> [phase |-> phase[t], worker |-> worker[t],
                                           notes |-> notes[t]]]
  <2>1. S \subseteq Needed(S)
    BY NeededType
  <2>2. cycle'.todo = S /\ cycle'.seen = seen /\ UNCHANGED <<phase, worker, pass>>
    BY <1>1 DEF StartCycle
  <2>3. ListCurrent'
    BY <2>1, <2>2 DEF ListCurrent, Seen
  <2>4. cycle = NoCycle
    BY <1>1 DEF StartCycle
  <2>5. PassCurrent'
    BY <2>2, <2>4, <1>a DEF PassCurrent
  <2> QED
    BY <2>2, <2>3, <2>5, <1>b DEF DecisionsCurrent
<1>2. CASE EndCycle
  <2>1. cycle' = NoCycle /\ pass' = NoPass /\ UNCHANGED <<phase, worker>>
    BY <1>2 DEF EndCycle
  <2> QED
    BY <2>1, <1>b DEF DecisionsCurrent, ListCurrent, PassCurrent
<1>3. ASSUME NEW t \in Tasks, Turn(t), cycle' = Past(t), UNCHANGED <<phase, worker>>
      PROVE  /\ ListCurrent' /\ AttemptUnused' /\ LaunchedWithinAttempts'
             /\ cycle # NoCycle /\ t \in cycle.todo /\ t \notin cycle'.todo
  <2>1. cycle # NoCycle /\ t \in cycle.todo
    BY <1>3 DEF Turn
  <2>2. cycle'.todo = cycle.todo \ {t} /\ \A u \in cycle'.todo : cycle'.seen[u] = cycle.seen[u]
    BY <2>1, <1>3, PastType
  <2>3. ListCurrent'
    BY <2>1, <2>2, <1>3, <1>a DEF ListCurrent, Seen
  <2> QED
    BY <2>1, <2>2, <2>3, <1>3, <1>b
<1>4. ASSUME NEW t \in Tasks, Visit(t)
      PROVE  DecisionsCurrent'
  <2>1. /\ Turn(t) /\ cycle' = Past(t) /\ UNCHANGED <<phase, worker>>
        /\ Decide(t)
    BY <1>4 DEF Visit
  <2>2. /\ ListCurrent' /\ AttemptUnused' /\ LaunchedWithinAttempts'
        /\ cycle # NoCycle /\ t \in cycle.todo /\ t \notin cycle'.todo
    BY <1>3, <2>1
  <2>3. Sound(t, pass')
    BY <2>1, <2>2, DecideSound
  <2>4. Seen(t).phase = phase[t] /\ Seen(t).worker = worker[t] /\ phase[t] # "idea"
    BY <2>2, <1>a DEF ListCurrent
  <2>5. /\ pass'.task = t /\ pass'.stage = "effects" /\ pass'.from = phase[t]
        /\ Prescribes(pass', worker[t])
    BY <2>3, <2>4 DEF Sound
  <2>6. cycle' # NoCycle
    BY <2>1, <2>2, PastType, NoCycleAssumption
  <2>7. PassCurrent'
    BY <2>1, <2>2, <2>4, <2>5, <2>6 DEF PassCurrent, Prescribes
  <2> QED
    BY <2>2, <2>7 DEF DecisionsCurrent
<1>5. ASSUME NEW t \in Tasks, PassOver(t)
      PROVE  DecisionsCurrent'
  <2>1. Turn(t) /\ cycle' = Past(t) /\ UNCHANGED <<phase, worker>> /\ pass' = NoPass
    BY <1>5 DEF PassOver, Turn
  <2> QED
    BY <1>3, <2>1 DEF DecisionsCurrent, PassCurrent
<1>6. CASE RunEffects
  <2>1. pass \in Pass(pass.patch)
    BY <1>6 DEF RunEffects, InStage, TypeOK
  <2>2. /\ pass'.task = pass.task /\ pass'.from = pass.from /\ pass'.to = pass.to
        /\ pass'.patch = pass.patch /\ pass'.stage = "patch"
    BY <1>6, <2>1 DEF RunEffects, Pass
  <2>3. UNCHANGED <<phase, worker, cycle>> /\ StillValid
        /\ pass # NoPass /\ pass.stage = "effects"
    BY <1>6 DEF RunEffects, InStage
  <2>4. /\ cycle # NoCycle /\ pass.task \notin cycle.todo
        /\ phase[pass.task] = pass.from /\ pass.from # "idea"
        /\ Prescribes(pass, worker[pass.task])
    BY <2>3, <1>a DEF PassCurrent
  <2>5. Prescribes(pass', worker[pass.task])
    BY <2>2, <2>4 DEF Prescribes
  <2>6. PassCurrent'
    BY <2>2, <2>3, <2>4, <2>5 DEF PassCurrent, StillValid
  <2> QED
    BY <2>3, <2>6, <1>b, <1>c DEF DecisionsCurrent
<1>7. CASE FailReplacing
  BY <1>7, <1>e DEF FailReplacing
<1>8. ASSUME WriteStatus
      PROVE  /\ AttemptUnused' /\ LaunchedWithinAttempts'
             /\ cycle # NoCycle /\ pass.task \notin cycle.todo
             /\ \A u \in Tasks \ {pass.task} : phase'[u] = phase[u] /\ worker'[u] = worker[u]
             /\ cycle.todo \subseteq Tasks
  <2>1. cycle # NoCycle /\ pass.task \notin cycle.todo
    BY <1>8, <1>a DEF WriteStatus, InStage, PassCurrent
  <2>2. \A u \in Tasks \ {pass.task} : phase'[u] = phase[u] /\ worker'[u] = worker[u]
    BY <1>8, WriteFacts
  <2>3. \A u \in cycle.todo : u \in Tasks
    BY <2>1, SeenType
  <2> QED
    BY <1>8, <2>1, <2>2, <2>3, WrittenAttempts
<1>9. CASE PatchStatus
  <2>1. WriteStatus /\ (pass' = NoPass \/ pass' = [pass EXCEPT !.stage = "clear"])
    BY <1>9 DEF PatchStatus
  <2>2. PICK S \in SUBSET Tasks : cycle \in Cycle(S)
    BY <2>1, <1>8 DEF TypeOK
  <2>3. cycle'.todo = cycle.todo /\ cycle'.seen = cycle.seen
    BY <1>9, <2>2 DEF PatchStatus, Cycle
  <2>4. cycle' \in Cycle(S)
    BY <1>9, <2>2 DEF PatchStatus, Cycle, Adjusted
  <2>5. cycle' # NoCycle
    BY <2>4, NoCycleAssumption
  <2>6. ListCurrent'
    BY <2>1, <2>3, <1>8, <1>a DEF ListCurrent, Seen
  <2>7. pass \in Pass(pass.patch)
    BY <2>1 DEF WriteStatus, InStage, TypeOK
  <2>8. pass' # NoPass => pass'.stage = "clear" /\ pass'.task = pass.task
    BY <2>1, <2>7 DEF Pass
  <2>9. PassCurrent'
    BY <2>1, <2>3, <2>5, <2>8, <1>8 DEF PassCurrent
  <2> QED
    BY <2>1, <2>6, <2>9, <1>8 DEF DecisionsCurrent
<1>10. CASE PatchUnanswered
  <2>1. WriteStatus /\ pass' = NoPass /\ cycle' = cycle
    BY <1>10 DEF PatchUnanswered
  <2>2. ListCurrent'
    BY <2>1, <1>8, <1>a DEF ListCurrent, Seen
  <2> QED
    BY <2>1, <2>2, <1>8 DEF DecisionsCurrent, PassCurrent
<1>11. CASE ClearTaskAnnotations
  BY <1>11, <1>e DEF ClearTaskAnnotations
<1>12. CASE Abort
  BY <1>12, <1>e DEF Abort
<1>13. CASE ManagerCrash
  <2>1. cycle' = NoCycle /\ pass' = NoPass /\ UNCHANGED <<phase, worker>>
    BY <1>13 DEF ManagerCrash
  <2> QED
    BY <2>1, <1>b DEF DecisionsCurrent, ListCurrent, PassCurrent
<1>14. ASSUME NEW t \in Tasks, Promote(t)
       PROVE  DecisionsCurrent'
  <2>1. /\ phase[t] = "idea" /\ phase' = [phase EXCEPT ![t] = "pending"]
        /\ UNCHANGED <<worker, cycle, pass>>
    BY <1>14 DEF Promote
  <2>2. \A u \in Tasks \ {t} : phase'[u] = phase[u]
    BY <2>1 DEF TypeOK
  <2>3. \A u \in cycle.todo : cycle # NoCycle => u \in Tasks \ {t}
    BY <2>1, <1>a, SeenType DEF ListCurrent
  <2>4. ListCurrent'
    BY <2>1, <2>2, <2>3, <1>a DEF ListCurrent, Seen
  <2>5. pass # NoPass => pass.task \in Tasks
    BY DEF TypeOK, Pass
  <2>6. PassCurrent'
    BY <2>1, <2>2, <2>5, <1>a DEF PassCurrent
  <2>7. AttemptUnused' /\ LaunchedWithinAttempts'
    BY <2>1, <2>2, <1>a DEF AttemptUnused, LaunchedWithinAttempts
  <2> QED
    BY <2>4, <2>6, <2>7 DEF DecisionsCurrent
<1>15. ASSUME NEW t \in Tasks, Human(t)
       PROVE  DecisionsCurrent'
  <2>1. ASSUME NEW new, Annotate(t, new)
        PROVE  DecisionsCurrent'
    <3>1. UNCHANGED <<phase, worker, cycle>> /\ (pass' = NoPass \/ pass' = pass)
      BY <2>1 DEF Annotate
    <3> QED
      BY <3>1, <1>d, <1>e
  <2> QED
    BY <1>14, <1>15, <2>1 DEF Human, Approve, RequestChanges, Abandon, Answer
<1>16. ASSUME NEW t \in Tasks, BackoffElapses(t)
       PROVE  DecisionsCurrent'
  BY <1>16, <1>d DEF BackoffElapses
<1>17. ASSUME NEW x \in DOMAIN runs, RunSteps(x)
       PROVE  DecisionsCurrent'
  BY <1>17, <1>d DEF RunSteps, RunStarts, RunParks, RunResumes, RunStalls, RunSucceeds,
                     RunFails, RunOverwritten, RunDeleted, RunTurns
<1>18. CASE UNCHANGED vars
  BY <1>18, <1>d DEF vars
<1> QED
  BY <1>1, <1>2, <1>4, <1>5, <1>6, <1>7, <1>9, <1>10, <1>11, <1>12, <1>13, <1>15, <1>16,
     <1>17, <1>18 DEF Next, Manager, Environment

\* Only status writes and promotions change the phase or the status of a task.
LEMMA StatusSteps ==
  ASSUME [Next]_vars
  PROVE  WriteStatus \/ (\E t \in Tasks : Promote(t)) \/ UNCHANGED <<phase, worker>>
<1> USE DEF history, task
<1>1. CASE Manager
  BY <1>1 DEF Manager, StartCycle, EndCycle, Visit, PassOver, RunEffects, FailReplacing,
              PatchStatus, PatchUnanswered, ClearTaskAnnotations, Abort, ManagerCrash
<1>2. CASE Environment
  BY <1>2 DEF Environment, Human, Approve, RequestChanges, Abandon, Answer, Annotate,
              BackoffElapses, RunSteps, RunStarts, RunParks, RunResumes, RunStalls,
              RunSucceeds, RunFails, RunOverwritten, RunDeleted, RunTurns
<1>3. CASE UNCHANGED vars
  BY <1>3 DEF vars
<1> QED
  BY <1>1, <1>2, <1>3 DEF Next

-----------------------------------------------------------------------------
(* The reconciler implements TaskLifecycle. *)

\* The instance has its own copy of the table; it is the same table.
LEMMA SameTable ==
  ASSUME NEW from \in TaskPhase, NEW to
  PROVE  /\ Lifecycle!TaskPhase = TaskPhase
         /\ Lifecycle!IsValidTransition(from, to) <=> IsValidTransition(from, to)
BY DEF Lifecycle!TaskPhase, TaskPhase, Lifecycle!IsValidTransition, IsValidTransition,
       Lifecycle!TRANSITION_TABLE, TRANSITION_TABLE

\* Initial states map to initial states.
LEMMA InitLifecycle == Init => Lifecycle!Init
<1> SUFFICES ASSUME Init PROVE Lifecycle!Init
  OBVIOUS
<1>1. phase \in [Tasks -> {"idea", "pending"}]
  BY DEF Init
<1>2. \A t \in Tasks : AttemptOf(worker[t]) = <<0, 0>> /\ LaunchedOf(worker[t]) = <<-1, 0>>
  BY DEF Init, NewWorker, AttemptOf, LaunchedOf
<1> QED
  BY <1>1, <1>2 DEF Lifecycle!Init, Lifecycle!Nothing

\* A status write maps to a step of the lifecycle, or to none.
LEMMA WrittenLifecycle ==
  ASSUME TypeOK, DecisionsCurrent, WriteStatus
  PROVE  [Lifecycle!Next]_Lifecycle!vars
<1> DEFINE t == pass.task
           w == worker[t]
           m == Merge(w, pass.patch)
           attempt == [u \in Tasks |-> AttemptOf(worker[u])]
           launched == [u \in Tasks |-> LaunchedOf(worker[u])]
<1>1. /\ t \in Tasks /\ w \in Worker /\ m \in Worker
      /\ phase[t] = pass.from /\ phase'[t] = pass.to /\ worker'[t] = m
      /\ \A u \in Tasks \ {t} : phase'[u] = phase[u] /\ worker'[u] = worker[u]
      /\ pass.from \in TaskPhase \ {"idea"} /\ pass.to \in TaskPhase
      /\ Prescribes(pass, w)
      /\ pass.to # pass.from => IsValidTransition(pass.from, pass.to)
  BY WriteFacts
<1>2. phase' = [phase EXCEPT ![t] = pass.to]
  BY DEF WriteStatus
<1>3. /\ attempt' = [attempt EXCEPT ![t] = AttemptOf(m)]
      /\ launched' = [launched EXCEPT ![t] = LaunchedOf(m)]
  BY <1>1
<1>4. AttemptOf(m) \in Nat \X Nat /\ attempt[t] = AttemptOf(w) /\ launched[t] = LaunchedOf(w)
      /\ attempt'[t] = AttemptOf(m)
  BY <1>1, Counters
<1>5. DOMAIN phase = Tasks
  BY DEF TypeOK
<1> HIDE DEF t, w, m
<1>6. /\ IF pass.to = "initializing"
         THEN LaunchedOf(m) = AttemptOf(w) ELSE LaunchedOf(m) = LaunchedOf(w)
      /\ AttemptOf(m) # AttemptOf(w) =>
           /\ Lifecycle!Before(AttemptOf(w), AttemptOf(m))
           /\ \/ pass.to \in {"pending", "rework-requested"}
              \/ pass.from = "reviewing" /\ pass.to = "awaiting-human"
      /\ pass.to \in {"pending", "rework-requested"} => AttemptOf(m) # AttemptOf(w)
      /\ pass.to \in {"initializing", "pending", "rework-requested"} => pass.from # pass.to
  BY <1>1 DEF Prescribes, m
<1>7. /\ Lifecycle!TaskPhase = TaskPhase
      /\ Lifecycle!IsValidTransition(pass.from, pass.to)
           <=> IsValidTransition(pass.from, pass.to)
  BY <1>1, SameTable
<1>8. CASE pass.to = "initializing"
  <2>1. pass.from = "scheduled"
    BY <1>1, <1>6, <1>8, Table
  <2>2. AttemptOf(m) = AttemptOf(w) /\ LaunchedOf(m) = AttemptOf(w)
    BY <1>6, <1>8
  <2>3. Lifecycle!Before(LaunchedOf(w), AttemptOf(w))
    BY <1>1, <2>1 DEF DecisionsCurrent, AttemptUnused, w
  <2>4. attempt' = attempt /\ launched' = [launched EXCEPT ![t] = attempt[t]]
    BY <1>3, <1>4, <2>2
  <2>5. Lifecycle!Launch(t)
    BY <1>1, <1>2, <1>4, <1>8, <2>1, <2>3, <2>4 DEF Lifecycle!Launch
  <2> QED
    BY <1>1, <2>5 DEF Lifecycle!Next
<1>9. CASE AttemptOf(m) # AttemptOf(w)
  <2>1. Lifecycle!Raise(t)
    BY <1>3, <1>4, <1>6, <1>9 DEF Lifecycle!Raise, Lifecycle!Attempt
  <2>2. launched' = launched
    BY <1>3, <1>4, <1>6, <1>9
  <2>3. CASE pass.to \in {"pending", "rework-requested"}
    <3>1. Lifecycle!StartOver(t)
      BY <1>1, <1>2, <1>6, <1>7, <2>1, <2>2, <2>3 DEF Lifecycle!StartOver
    <3> QED
      BY <1>1, <3>1 DEF Lifecycle!Next
  <2>4. CASE pass.from = "reviewing" /\ pass.to = "awaiting-human"
    <3>1. Lifecycle!Escalate(t)
      BY <1>1, <1>2, <2>1, <2>2, <2>4 DEF Lifecycle!Escalate
    <3> QED
      BY <1>1, <3>1 DEF Lifecycle!Next
  <2> QED
    BY <1>6, <1>9, <2>3, <2>4
<1>10. CASE AttemptOf(m) = AttemptOf(w) /\ pass.to # "initializing"
  <2>1. attempt' = attempt /\ launched' = launched
    BY <1>3, <1>4, <1>6, <1>10
  <2>2. pass.to \notin {"pending", "rework-requested"}
    BY <1>6, <1>10
  <2>3. CASE pass.to = pass.from
    <3>1. phase' = phase
      BY <1>1, <1>2, <1>5, <2>3 DEF TypeOK
    <3> QED
      BY <2>1, <3>1 DEF Lifecycle!vars
  <2>4. CASE pass.to # pass.from
    <3>1. Lifecycle!Advance(t)
      BY <1>1, <1>2, <1>7, <1>10, <2>1, <2>2, <2>4 DEF Lifecycle!Advance
    <3> QED
      BY <1>1, <3>1 DEF Lifecycle!Next
  <2> QED
    BY <2>3, <2>4
<1> QED
  BY <1>8, <1>9, <1>10

\* Only status writes and promotions are steps of the lifecycle.
LEMMA StepLifecycle ==
  ASSUME TypeOK, DecisionsCurrent, [Next]_vars
  PROVE  [Lifecycle!Next]_Lifecycle!vars
<1> USE DEF history, task
<1>1. CASE WriteStatus
  BY <1>1, WrittenLifecycle
<1>2. ASSUME NEW t \in Tasks, Promote(t)
      PROVE  Lifecycle!Next
  <2>1. IsValidTransition("idea", "pending") /\ "idea" \in TaskPhase
    BY DEF IsValidTransition, TRANSITION_TABLE, TaskPhase
  <2>2. Lifecycle!IsValidTransition("idea", "pending") /\ "pending" \in Lifecycle!TaskPhase
    BY <2>1, SameTable DEF TaskPhase
  <2>3. /\ phase[t] = "idea" /\ phase' = [phase EXCEPT ![t] = "pending"]
        /\ UNCHANGED worker
    BY <1>2 DEF Promote
  <2>4. Lifecycle!Advance(t)
    BY <2>2, <2>3 DEF Lifecycle!Advance
  <2> QED
    BY <2>4 DEF Lifecycle!Next
<1>3. UNCHANGED <<phase, worker>> => UNCHANGED Lifecycle!vars
  BY DEF Lifecycle!vars
<1>4. WriteStatus \/ (\E t \in Tasks : Promote(t)) \/ UNCHANGED <<phase, worker>>
  <2>1. CASE Manager
    BY <2>1 DEF Manager, StartCycle, EndCycle, Visit, PassOver, RunEffects, FailReplacing,
                PatchStatus, PatchUnanswered, ClearTaskAnnotations, Abort, ManagerCrash
  <2>2. CASE Environment
    BY <2>2 DEF Environment, Human, Approve, RequestChanges, Abandon, Answer, Annotate,
                BackoffElapses, RunSteps, RunStarts, RunParks, RunResumes, RunStalls,
                RunSucceeds, RunFails, RunOverwritten, RunDeleted, RunTurns
  <2>3. CASE UNCHANGED vars
    BY <2>3 DEF vars
  <2> QED
    BY <2>1, <2>2, <2>3 DEF Next
<1> QED
  BY <1>1, <1>2, <1>3, <1>4

-----------------------------------------------------------------------------
(* Requests. *)

\* What is being cleared has been acted on, and a write to the task in between
\* makes the clearing conflict.
NoneLeft == InStage("clear") => asked[pass.task] \cap pass.clear = {}

\* No step loses a request.
LEMMA StepRequests ==
  ASSUME TypeOK, RequestsKept, NoneLeft, [Next]_vars
  PROVE  RequestsKept' /\ NoneLeft'
<1> USE DEF history, task
<1>a. pass # NoPass => pass.task \in Tasks /\ pass \in Pass(pass.patch)
  BY DEF TypeOK, Pass
<1>1. UNCHANGED <<notes, asked>> /\ (pass' = pass \/ pass' = NoPass \/ pass'.stage # "clear")
        => RequestsKept' /\ NoneLeft'
  BY DEF RequestsKept, NoneLeft, InStage
<1>2. ASSUME WriteStatus
      PROVE  /\ RequestsKept' /\ notes' = notes
             /\ pass.task \in Tasks /\ asked'[pass.task] = asked[pass.task] \ pass.clear
  <2>1. pass # NoPass
    BY <1>2 DEF WriteStatus, InStage
  <2>2. /\ pass.task \in Tasks /\ notes' = notes
        /\ asked' = [asked EXCEPT ![pass.task] = @ \ pass.clear]
    BY <1>2, <2>1, <1>a DEF WriteStatus
  <2>3. asked'[pass.task] = asked[pass.task] \ pass.clear
        /\ \A u \in Tasks : asked'[u] \subseteq asked[u]
    BY <2>2 DEF TypeOK
  <2> QED
    BY <2>2, <2>3 DEF RequestsKept
<1>3. CASE PatchStatus
  <2>1. WriteStatus /\ (pass' = NoPass \/ pass' = [pass EXCEPT !.stage = "clear"])
    BY <1>3 DEF PatchStatus
  <2>2. pass \in Pass(pass.patch)
    BY <2>1, <1>a DEF WriteStatus, InStage
  <2>3. pass' # NoPass => pass'.task = pass.task /\ pass'.clear = pass.clear
    BY <2>1, <2>2 DEF Pass
  <2>4. NoneLeft'
    BY <2>1, <2>3, <1>2 DEF NoneLeft, InStage
  <2> QED
    BY <2>1, <2>4, <1>2
<1>4. CASE PatchUnanswered
  BY <1>4, <1>2 DEF PatchUnanswered, NoneLeft, InStage
<1>5. CASE ClearTaskAnnotations
  <2>1. /\ InStage("clear") /\ pass' = NoPass /\ asked' = asked
        /\ notes' = [notes EXCEPT ![pass.task] = @ \ pass.clear]
    BY <1>5 DEF ClearTaskAnnotations
  <2>2. \A u \in Tasks : notes'[u] = IF u = pass.task THEN notes[u] \ pass.clear ELSE notes[u]
    BY <2>1 DEF TypeOK
  <2>3. asked[pass.task] \cap pass.clear = {} /\ pass.task \in Tasks
    BY <2>1, <1>a DEF NoneLeft, InStage
  <2>4. RequestsKept'
    BY <2>1, <2>2, <2>3 DEF RequestsKept
  <2> QED
    BY <2>1, <2>4 DEF NoneLeft, InStage
<1>6. ASSUME NEW t \in Tasks, NEW new, Annotate(t, new)
      PROVE  RequestsKept' /\ NoneLeft'
  <2>1. /\ notes' = [notes EXCEPT ![t] = new]
        /\ asked' = [asked EXCEPT ![t] = (@ \cap new) \cup (new \ notes[t])]
        /\ pass' = IF InStage("clear") /\ pass.task = t THEN NoPass ELSE pass
    BY <1>6 DEF Annotate
  <2>2. /\ notes'[t] = new /\ asked'[t] = (asked[t] \cap new) \cup (new \ notes[t])
        /\ \A u \in Tasks \ {t} : notes'[u] = notes[u] /\ asked'[u] = asked[u]
    BY <2>1 DEF TypeOK
  <2>3. RequestsKept'
    BY <2>2 DEF RequestsKept
  <2>4. NoneLeft'
    BY <2>1, <2>2, <1>a DEF NoneLeft, InStage
  <2> QED
    BY <2>3, <2>4
<1>7. \A t \in Tasks : Human(t) => Promote(t) \/ \E new : Annotate(t, new)
  BY DEF Human, Approve, RequestChanges, Abandon, Answer
<1>8. CASE RunEffects
  <2>1. pass \in Pass(pass.patch)
    BY <1>8, <1>a DEF RunEffects, InStage
  <2> QED
    BY <2>1, <1>1, <1>8 DEF RunEffects, Pass
<1>9. ASSUME NEW t \in Tasks, Visit(t)
      PROVE  RequestsKept' /\ NoneLeft'
  <2>1. cycle # NoCycle /\ t \in cycle.todo /\ Decide(t) /\ UNCHANGED <<notes, asked>>
    BY <1>9 DEF Visit, Turn
  <2>2. pass'.stage = "effects"
    BY <2>1, DecideSound DEF Sound
  <2> QED
    BY <2>1, <2>2, <1>1
<1>10. \/ PatchStatus \/ PatchUnanswered \/ ClearTaskAnnotations \/ RunEffects
       \/ (\E t \in Tasks : Visit(t)) \/ (\E t \in Tasks : \E new : Annotate(t, new))
       \/ UNCHANGED <<notes, asked>> /\ (pass' = pass \/ pass' = NoPass)
  <2>1. CASE Manager
    BY <2>1 DEF Manager, StartCycle, EndCycle, PassOver, FailReplacing, Abort, ManagerCrash
  <2>2. CASE Environment
    BY <2>2, <1>7 DEF Environment, Promote, BackoffElapses, RunSteps, RunStarts, RunParks,
                RunResumes, RunStalls, RunSucceeds, RunFails, RunOverwritten, RunDeleted, RunTurns
  <2>3. CASE UNCHANGED vars
    BY <2>3 DEF vars
  <2> QED
    BY <2>1, <2>2, <2>3 DEF Next
<1> QED
  BY <1>1, <1>3, <1>4, <1>5, <1>6, <1>8, <1>9, <1>10

-----------------------------------------------------------------------------
(* Slots. *)

\* The cycle's count of active tasks is right.
CountRight == cycle # NoCycle => cycle.active = Cardinality(ActiveTasks)

\* A decision that activates its task has found a slot for it.
Activates(p) == p.from \notin ACTIVE_PHASES /\ p.to \in ACTIVE_PHASES
RoomLeft ==
  pass # NoPass /\ pass.stage # "clear" /\ Activates(pass)
    => Cardinality(ActiveTasks) < MaxParallel

SlotsCounted == CountRight /\ RoomLeft /\ ActiveWithinLimit

\* Every decision that takes a slot looks for one, unless a reviewer is
\* launched for work that has succeeded.
LEMMA DecideRoom ==
  ASSUME ~AiReviewer, NEW t, Decide(t), Activates(pass')
  PROVE  ~Full
<1> USE DEF Activates, ACTIVE_PHASES
<1> DEFINE from == Seen(t).phase
<1>1. \A to : Move(t, to).from = from /\ Move(t, to).to = to
  BY DEF Move
<1>2. CASE DecidePending(t) \/ DecideReworkRequested(t)
  BY <1>2 DEF DecidePending, DecideReworkRequested
<1>3. from \in ACTIVE_PHASES => pass'.from = from
  <2> SUFFICES ASSUME from \in ACTIVE_PHASES PROVE pass'.from = from
    OBVIOUS
  <2> USE DEF Move
  <2>1. CASE DecideScheduled(t)
    BY <2>1 DEF DecideScheduled
  <2>2. CASE DecideInitializing(t) \/ DecideRunning(t)
    BY <2>2 DEF DecideInitializing, DecideRunning, WorkerFailed
  <2>3. CASE DecideWaitingForInput(t)
    <3>1. AbandonTask(t).from = from /\ ReworkTask(t).from = from
          /\ [Move(t, "running") EXCEPT !.clear = {"answer"}].from = from
      BY DEF Consuming, AbandonTask, ReworkTask
    <3>2. \/ pass' = Move(t, "failed") \/ pass' = Move(t, "succeeded")
          \/ pass' = AbandonTask(t) \/ pass' = ReworkTask(t)
          \/ pass' = [Move(t, "running") EXCEPT !.clear = {"answer"}]
      BY <2>3 DEF DecideWaitingForInput
    <3> QED
      BY <1>1, <3>1, <3>2
  <2>4. CASE DecideReviewing(t)
    BY <2>4 DEF DecideReviewing
  <2>5. CASE DecideAwaitingMerge(t)
    <3> DEFINE w == Seen(t).worker
               failure == [Move(t, "failed") EXCEPT !.patch = [mergeError |-> TRUE]]
    <3>1. \/ pass' = [Move(t, "awaiting-merge") EXCEPT
                        !.patch = [merge |-> RemergeRun(t, w)], !.create = RemergeRun(t, w)]
          \/ pass' = failure
          \/ pass' = [failure EXCEPT !.discard = w.merge]
          \/ pass' = [Move(t, "done") EXCEPT !.patch = [merged |-> TRUE]]
          \/ pass' = [Move(t, "awaiting-human") EXCEPT !.patch = [mergeError |-> TRUE]]
      BY <2>5 DEF DecideAwaitingMerge
    <3>2. failure.from = from /\ [failure EXCEPT !.discard = w.merge].from = from
      OBVIOUS
    <3> HIDE DEF failure
    <3> QED
      BY <3>1, <3>2
  <2> QED
    BY <2>1, <2>2, <2>3, <2>4, <2>5
    DEF Decide, DecidePending, DecideSucceeded, DecideAwaitingHuman, DecideReworkRequested,
        DecideFailed, In
<1>4. CASE from \in ACTIVE_PHASES
  BY <1>3, <1>4
<1>5. CASE DecideSucceeded(t)
  BY <1>1, <1>5 DEF DecideSucceeded
<1>6. CASE DecideAwaitingHuman(t)
  <2>1. AbandonTask(t).to = "done" /\ ReworkTask(t).to = "rework-requested"
        /\ Consuming(t, Move(t, "done")).to = "done"
    BY DEF AbandonTask, ReworkTask, Consuming, Move
  <2> QED
    BY <1>6, <2>1 DEF DecideAwaitingHuman
<1>7. CASE DecideFailed(t)
  <2>1. RetryTask(t).to = "pending" /\ Consuming(t, Move(t, "awaiting-human")).to = "awaiting-human"
    BY DEF RetryTask, Consuming, Move
  <2> QED
    BY <1>7, <2>1 DEF DecideFailed
<1>8. \/ DecidePending(t) \/ DecideReworkRequested(t) \/ from \in ACTIVE_PHASES
      \/ DecideSucceeded(t) \/ DecideAwaitingHuman(t) \/ DecideFailed(t)
  BY DEF Decide, DecideScheduled, DecideInitializing, DecideRunning, DecideWaitingForInput,
         DecideReviewing, DecideAwaitingMerge, In
<1> QED
  BY <1>2, <1>4, <1>5, <1>6, <1>7, <1>8

\* There are finitely many active tasks.
LEMMA ActiveFinite ==
  /\ IsFiniteSet(ActiveTasks) /\ Cardinality(ActiveTasks) \in Nat
  /\ IsFiniteSet(ActiveTasks') /\ Cardinality(ActiveTasks') \in Nat
<1>1. ActiveTasks \in SUBSET Tasks /\ ActiveTasks' \in SUBSET Tasks
  BY DEF ActiveTasks
<1>2. IsFiniteSet(ActiveTasks) /\ IsFiniteSet(ActiveTasks')
  BY <1>1, TasksAssumption, FS_Subset
<1> QED
  BY <1>2, FS_CardinalityType

\* A status write changes the number of active tasks as the cycle counts.
LEMMA WrittenSlots ==
  ASSUME TypeOK, DecisionsCurrent, RoomLeft, ActiveWithinLimit, WriteStatus
  PROVE  /\ Cardinality(ActiveTasks') = Adjusted(Cardinality(ActiveTasks))
         /\ ActiveWithinLimit'
<1> DEFINE t == pass.task
           A == ActiveTasks
<1>1. /\ t \in Tasks /\ phase[t] = pass.from /\ phase'[t] = pass.to
      /\ \A u \in Tasks \ {t} : phase'[u] = phase[u]
  BY WriteFacts
<1>2. Cardinality(A) \in Nat /\ IsFiniteSet(A) /\ Cardinality(A) <= MaxParallel
  BY ActiveFinite DEF ActiveWithinLimit
<1>3. MaxParallel \in Nat
  BY SettingsAssumption
<1>4. CASE pass.from \in ACTIVE_PHASES /\ pass.to \notin ACTIVE_PHASES
  <2>1. ActiveTasks' = A \ {t} /\ t \in A
    BY <1>1, <1>4 DEF ActiveTasks
  <2>2. Cardinality(A \ {t}) = Cardinality(A) - 1
    BY <2>1, <1>2, FS_RemoveElement
  <2>3. Adjusted(Cardinality(A)) = Cardinality(A) - 1
    BY <1>4 DEF Adjusted
  <2> HIDE DEF A
  <2>4. Cardinality(A) - 1 <= MaxParallel
    BY <1>2, <1>3
  <2> QED
    BY <2>1, <2>2, <2>3, <2>4 DEF ActiveWithinLimit, A
<1>5. CASE pass.from \notin ACTIVE_PHASES /\ pass.to \in ACTIVE_PHASES
  <2>1. ActiveTasks' = A \cup {t} /\ t \notin A
    BY <1>1, <1>5 DEF ActiveTasks
  <2>2. Cardinality(A \cup {t}) = Cardinality(A) + 1
    BY <2>1, <1>2, FS_AddElement
  <2>3. Adjusted(Cardinality(A)) = Cardinality(A) + 1
    BY <1>5 DEF Adjusted
  <2>4. Cardinality(A) < MaxParallel
    BY <1>5 DEF RoomLeft, Activates, WriteStatus, InStage
  <2> HIDE DEF A
  <2>5. Cardinality(A) + 1 <= MaxParallel
    BY <2>4, <1>2, <1>3
  <2> QED
    BY <2>1, <2>2, <2>3, <2>5 DEF ActiveWithinLimit, A
<1>6. CASE pass.from \in ACTIVE_PHASES <=> pass.to \in ACTIVE_PHASES
  <2>1. ActiveTasks' = A
    BY <1>1, <1>6 DEF ActiveTasks
  <2>2. Adjusted(Cardinality(A)) = Cardinality(A)
    BY <1>6 DEF Adjusted
  <2> QED
    BY <2>1, <2>2, <1>2 DEF ActiveWithinLimit
<1> QED
  BY <1>4, <1>5, <1>6

\* No step loses count of the slots, as long as the manager learns what became
\* of its writes and launches no reviewer beyond them.
LEMMA StepSlots ==
  ASSUME ~AiReviewer, ~AnswersLost, TypeOK, DecisionsCurrent, SlotsCounted, [Next]_vars
  PROVE  SlotsCounted'
<1> USE DEF history, task
<1>a. CountRight /\ RoomLeft /\ ActiveWithinLimit
  BY DEF SlotsCounted
<1>b. phase' = phase => ActiveTasks' = ActiveTasks /\ ActiveWithinLimit'
  BY <1>a DEF ActiveTasks, ActiveWithinLimit
<1>c. pass # NoPass => pass \in Pass(pass.patch)
  BY DEF TypeOK
<1>1. ASSUME ActiveTasks' = ActiveTasks,
             cycle' = cycle \/ cycle' = NoCycle, pass' = pass \/ pass' = NoPass
      PROVE  SlotsCounted'
  BY <1>1, <1>a DEF SlotsCounted, CountRight, RoomLeft, ActiveWithinLimit
<1>2. CASE StartCycle
  <2>1. cycle'.active = Cardinality(ActiveTasks) /\ phase' = phase /\ pass' = pass
    BY <1>2 DEF StartCycle
  <2> QED
    BY <2>1, <1>a, <1>b DEF SlotsCounted, CountRight, RoomLeft
<1>3. ASSUME NEW t \in Tasks, Turn(t), cycle' = Past(t), phase' = phase
      PROVE  CountRight' /\ ActiveWithinLimit' /\ cycle.active = Cardinality(ActiveTasks)
  <2>1. cycle'.active = cycle.active
    BY <1>3 DEF Past
  <2>2. cycle.active = Cardinality(ActiveTasks)
    BY <1>3, <1>a DEF CountRight, Turn
  <2> QED
    BY <2>1, <2>2, <1>3, <1>b DEF CountRight
<1>4. ASSUME NEW t \in Tasks, Visit(t)
      PROVE  SlotsCounted'
  <2>1. Turn(t) /\ cycle' = Past(t) /\ phase' = phase /\ Decide(t)
    BY <1>4 DEF Visit
  <2>2. CountRight' /\ ActiveWithinLimit' /\ cycle.active = Cardinality(ActiveTasks)
    BY <2>1, <1>3
  <2>3. Activates(pass') => ~(Cardinality(ActiveTasks) >= MaxParallel)
    BY <2>1, <2>2, DecideRoom DEF Full
  <2>4. Cardinality(ActiveTasks) \in Nat /\ MaxParallel \in Nat
    BY ActiveFinite, SettingsAssumption
  <2>5. Activates(pass') => Cardinality(ActiveTasks) < MaxParallel
    BY <2>3, <2>4
  <2>6. RoomLeft'
    BY <2>1, <2>5, <1>b DEF RoomLeft, Activates
  <2> QED
    BY <2>2, <2>6 DEF SlotsCounted
<1>5. ASSUME NEW t \in Tasks, PassOver(t)
      PROVE  SlotsCounted'
  <2>1. Turn(t) /\ cycle' = Past(t) /\ phase' = phase /\ pass' = pass
    BY <1>5 DEF PassOver
  <2>2. CountRight' /\ ActiveWithinLimit'
    BY <2>1, <1>3
  <2> QED
    BY <2>1, <2>2, <1>a, <1>b DEF SlotsCounted, RoomLeft
<1>6. CASE RunEffects
  <2>1. pass \in Pass(pass.patch) /\ pass # NoPass /\ pass.stage = "effects"
        /\ phase' = phase /\ cycle' = cycle /\ pass' = [pass EXCEPT !.stage = "patch"]
    BY <1>6, <1>c DEF RunEffects, InStage
  <2>2. pass'.from = pass.from /\ pass'.to = pass.to
    BY <2>1 DEF Pass
  <2> QED
    BY <2>1, <2>2, <1>a, <1>b DEF SlotsCounted, CountRight, RoomLeft, Activates
<1>7. CASE PatchStatus
  <2>1. WriteStatus /\ cycle' = [cycle EXCEPT !.active = Adjusted(@)]
        /\ (pass' = NoPass \/ pass' = [pass EXCEPT !.stage = "clear"])
    BY <1>7 DEF PatchStatus
  <2>2. pass \in Pass(pass.patch) /\ cycle # NoCycle
    BY <2>1, <1>c DEF WriteStatus, InStage, DecisionsCurrent, PassCurrent
  <2>3. PICK S \in SUBSET Tasks : cycle \in Cycle(S)
    BY <2>2 DEF TypeOK
  <2>4. cycle'.active = Adjusted(Cardinality(ActiveTasks))
    BY <2>1, <2>2, <2>3, <1>a DEF Cycle, CountRight
  <2>5. CountRight' /\ ActiveWithinLimit'
    BY <2>1, <2>4, <1>a, WrittenSlots DEF CountRight
  <2>6. RoomLeft'
    BY <2>1, <2>2 DEF RoomLeft, Pass
  <2> QED
    BY <2>5, <2>6 DEF SlotsCounted
<1>8. ASSUME NEW t \in Tasks, Promote(t)
      PROVE  SlotsCounted'
  <2>1. /\ phase[t] = "idea" /\ phase'[t] = "pending" /\ UNCHANGED <<cycle, pass>>
        /\ \A u \in Tasks \ {t} : phase'[u] = phase[u]
    BY <1>8 DEF Promote, TypeOK
  <2>2. ActiveTasks' = ActiveTasks
    BY <2>1 DEF ActiveTasks, ACTIVE_PHASES
  <2> QED
    BY <2>1, <2>2, <1>1
<1>9. \/ StartCycle \/ RunEffects \/ PatchStatus
      \/ (\E t \in Tasks : Visit(t) \/ PassOver(t) \/ Promote(t))
      \/ phase' = phase /\ (cycle' = cycle \/ cycle' = NoCycle) /\ (pass' = pass \/ pass' = NoPass)
  <2>1. CASE Manager
    BY <2>1 DEF Manager, EndCycle, FailReplacing, PatchUnanswered, ClearTaskAnnotations,
                Abort, ManagerCrash
  <2>2. CASE Environment
    BY <2>2 DEF Environment, Human, Approve, RequestChanges, Abandon, Answer, Annotate,
                BackoffElapses, RunSteps, RunStarts, RunParks, RunResumes,
                RunStalls, RunSucceeds, RunFails, RunOverwritten, RunDeleted, RunTurns
  <2>3. CASE UNCHANGED vars
    BY <2>3 DEF vars
  <2> QED
    BY <2>1, <2>2, <2>3 DEF Next
<1> QED
  BY <1>1, <1>2, <1>4, <1>5, <1>6, <1>7, <1>8, <1>9, <1>b

-----------------------------------------------------------------------------
(* The theorems. *)

\* The inductive invariant.
LEMMA Inductive == Spec => [](TypeOK /\ DecisionsCurrent)
<1>1. Init => TypeOK /\ DecisionsCurrent
  BY InitType, InitDecisions
<1>2. TypeOK /\ DecisionsCurrent /\ [Next]_vars => (TypeOK /\ DecisionsCurrent)'
  BY StepType, StepDecisions DEF DecisionsCurrent, PassCurrent
<1> QED
  BY <1>1, <1>2, PTL DEF Spec

\* Whatever the tasks, the flow and the failures, every value keeps its type;
\* in particular no counter goes below zero.
THEOREM TypeCorrect == Spec => []TypeOK
BY Inductive, PTL

\* A decision is carried out only on the task it was taken about, still in
\* the phase and with the worker status it was taken from, and every launch
\* is of an attempt that was not launched before.
THEOREM DecisionsStayCurrent == Spec => []DecisionsCurrent
BY Inductive, PTL

\* The reconciler keeps what the board promises of a task.
THEOREM ImplementsLifecycle == Spec => FollowsLifecycle
<1>1. Init => Lifecycle!Init
  BY InitLifecycle
<1>2. TypeOK /\ DecisionsCurrent /\ [Next]_vars => [Lifecycle!Next]_Lifecycle!vars
  BY StepLifecycle
<1> QED
  BY <1>1, <1>2, Inductive, PTL DEF Spec, FollowsLifecycle, Lifecycle!Spec

\* No status write that fails, conflicts or comes late, no crash and no
\* interleaving with the human's own writes loses a request of a human.
THEOREM RequestsNotLost == Spec => []RequestsKept
<1>1. Init => RequestsKept /\ NoneLeft
  BY DEF Init, RequestsKept, NoneLeft, InStage
<1>2. TypeOK /\ RequestsKept /\ NoneLeft /\ [Next]_vars => (RequestsKept /\ NoneLeft)'
  BY StepRequests
<1> QED
  BY <1>1, <1>2, Inductive, PTL DEF Spec

\* The tasks being worked on stay within maxParallel, in a project without AI
\* reviewers (a review is launched for work that has given its slot back) and
\* as long as the answer to a status write is not lost (the cycle then goes on
\* with the old count).
THEOREM LimitKept ==
  ASSUME ~AiReviewer, ~AnswersLost
  PROVE  Spec => []ActiveWithinLimit
<1>1. Init => SlotsCounted
  <2> SUFFICES ASSUME Init PROVE SlotsCounted
    OBVIOUS
  <2>1. \A t \in Tasks : phase[t] \notin ACTIVE_PHASES
    BY DEF Init, ACTIVE_PHASES
  <2>2. ActiveTasks = {}
    BY <2>1 DEF ActiveTasks
  <2>3. ActiveWithinLimit
    BY <2>2, FS_EmptySet, SettingsAssumption DEF ActiveWithinLimit
  <2>4. cycle = NoCycle /\ pass = NoPass
    BY DEF Init
  <2> QED
    BY <2>3, <2>4 DEF SlotsCounted, CountRight, RoomLeft
<1>2. TypeOK /\ DecisionsCurrent /\ SlotsCounted /\ [Next]_vars => SlotsCounted'
  BY StepSlots
<1>3. SlotsCounted => ActiveWithinLimit
  BY DEF SlotsCounted
<1> QED
  BY <1>1, <1>2, <1>3, Inductive, PTL DEF Spec

=============================================================================
