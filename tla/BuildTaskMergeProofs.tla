------------------------ MODULE BuildTaskMergeProofs ------------------------
(***************************************************************************)
(* Proofs about the merging of approved work in BuildTask: a merge is of   *)
(* the work on record, done means landed, and a task starts from its       *)
(* predecessor's landed work.                                              *)
(***************************************************************************)
EXTENDS BuildTaskReviewProofs

-----------------------------------------------------------------------------
(* Inductive invariants. *)

MergeKinds == {"merge", "remerge"}

\* The phases in which the attempt on record is not worked on any more.
Settled == {"awaiting-human", "awaiting-merge", "failed", "done"}

\* A merge run is of an attempt the task has come to; as long as it is of the
\* last one, no other worker run replaces the one it is to merge.
MergesAreOfTheirAttempts ==
  \A x \in DOMAIN runs :
    x.kind \in MergeKinds =>
      /\ x.r <= worker[x.task].retry
      /\ x.r = worker[x.task].retry =>
           phase[x.task] \in Settled /\ runs[x].about = worker[x.task].run

\* The names of the merge runs of the attempt on record.
MergeNames(t, w) == {MergeRun(t, w), RemergeRun(t, w)}

\* A task that waits for a merge waits for one of its attempt.
MergeIsOfAttempt ==
  \A t \in Tasks :
    phase[t] = "awaiting-merge" => worker[t].merge \in MergeNames(t, worker[t]) \cup {NoRun}

\* What a run says it has merged is merged.
LandedVerdicts ==
  \A x \in DOMAIN runs : runs[x].verdict = "landed" => runs[x].about \in landed

\* A task that was scheduled once has a predecessor that is done.
PredecessorDone ==
  \A t \in Tasks :
    phase[t] \notin {"idea", "pending"} /\ Predecessor[t] # NoTask
      => phase[Predecessor[t]] = "done"

\* Done is for good, whatever the age of the list.
SeenDone ==
  cycle # NoCycle =>
    \A u \in Needed(cycle.todo) : Seen(u).phase = "done" => phase[u] = "done"

\* What the pass p creates, and what its status write does to the merging of a
\* task with the status w.
Lands(p, w) ==
  LET m == Merge(w, p.patch) IN
  /\ p.from # "done"
  /\ m.retry >= w.retry
  /\ m.retry = w.retry /\ p.from \in Settled => p.to \in Settled
  /\ p.to = "awaiting-merge" =>
       m.retry = w.retry /\ m.merge \in MergeNames(p.task, w) \cup {NoRun}
  /\ p.create # NoRun /\ p.create.kind \in MergeKinds =>
       p.create \in MergeNames(p.task, w) /\ p.from \in Settled
  /\ p.to = "done" /\ MergesOnApprove /\ ~AutoDone => m.abandoned \/ w.run \in landed
  /\ p.from = "pending" /\ Predecessor[p.task] # NoTask =>
       phase[Predecessor[p.task]] = "done"

PassLands == pass # NoPass /\ pass.stage # "clear" => Lands(pass, worker[pass.task])

Landing ==
  /\ MergesAreOfTheirAttempts /\ MergeIsOfAttempt /\ LandedVerdicts
  /\ PredecessorDone /\ SeenDone /\ PassLands /\ DoneMeansLanded

-----------------------------------------------------------------------------
(* Decisions. *)

\* The fields of a patch that the invariants read.
LEMMA MergingFields ==
  ASSUME NEW w \in Worker, NEW p
  PROVE  LET m == Merge(w, p) IN
         /\ m.merge = IF "merge" \in DOMAIN p THEN p["merge"] ELSE w.merge
         /\ m.abandoned = IF "abandoned" \in DOMAIN p THEN p["abandoned"] ELSE w.abandoned
<1>1. "merge" \in DOMAIN w /\ "abandoned" \in DOMAIN w
  BY DEF Worker
<1> QED
  BY <1>1 DEF Merge

\* The names of the runs of a task say its kind and its attempt.
LEMMA MergeNamesOf ==
  ASSUME NEW t, NEW w, NEW x \in MergeNames(t, w)
  PROVE  x.task = t /\ x.kind \in MergeKinds /\ x.r = w.retry
BY DEF MergeNames, MergeRun, RemergeRun, MergeKinds

\* Most decisions stay with the attempt, create no merge run, and lead
\* neither to a merge nor, where work is merged, to done.
LEMMA PlainLands ==
  ASSUME NEW w \in Worker, NEW p,
         p.from \notin {"done", "pending"},
         "retry" \notin DOMAIN p.patch,
         p.create = NoRun \/ p.create.kind \notin MergeKinds,
         p.from \in Settled => p.to \in Settled,
         p.to # "awaiting-merge",
         p.to = "done" => ~MergesOnApprove \/ AutoDone
  PROVE  Lands(p, w)
<1>1. Merge(w, p.patch).retry = w.retry /\ w.retry \in Nat
  BY MergeFields DEF Worker
<1> QED
  BY <1>1 DEF Lands

\* What a decision does to the merging of its task.
LEMMA DecideLands ==
  ASSUME TypeOK, cycle # NoCycle, NEW t \in cycle.todo, Decide(t), SeenDone,
         Seen(t).phase = "awaiting-merge" /\ VerdictOf(Seen(t).worker.merge) = "landed"
           => Seen(t).worker.run \in landed
  PROVE  Lands(pass', Seen(t).worker)
<1> DEFINE w == Seen(t).worker
           from == Seen(t).phase
           Good == Lands(pass', w)
<1>0. t \in Tasks /\ Seen(t) \in Snapshot
  BY SeenType
<1>1. w \in Worker /\ w.retry \in Nat
  BY <1>0 DEF Snapshot, Worker
<1>2. DOMAIN NoPatch = {}
  BY DEF NoPatch
<1>3. ASSUME NEW to, to # "awaiting-merge", from \notin {"done", "pending"},
             from \in Settled => to \in Settled,
             to = "done" => ~MergesOnApprove \/ AutoDone,
             pass' = Move(t, to) \/ pass' = Consuming(t, Move(t, to))
      PROVE  Good
  <2>1. /\ pass'.from = from /\ pass'.to = to
        /\ pass'.patch = NoPatch /\ pass'.create = NoRun
    BY <1>3 DEF Move, Consuming
  <2> HIDE DEF w, from
  <2> QED
    BY <2>1, <1>1, <1>2, <1>3, PlainLands
<1>4. ASSUME NEW to, to \notin {"awaiting-merge", "done"}, from \notin {"done", "pending"},
             from \in Settled => to \in Settled,
             NEW q, "retry" \notin DOMAIN q, NEW x,
             \/ pass' = [Move(t, to) EXCEPT !.patch = q]
             \/ pass' = [[Move(t, to) EXCEPT !.patch = q] EXCEPT !.discard = x]
      PROVE  Good
  <2>1. pass'.from = from /\ pass'.to = to /\ pass'.patch = q /\ pass'.create = NoRun
    BY <1>4 DEF Move
  <2> HIDE DEF w, from
  <2> QED
    BY <2>1, <1>1, <1>4, PlainLands
<1>5. ASSUME from \in {"awaiting-human", "awaiting-merge", "failed"},
             NEW x \in MergeNames(t, w) \cup {NoRun}, NEW q, NEW y \in {NoRun, x},
             "retry" \notin DOMAIN q, "merge" \in DOMAIN q, q["merge"] = x,
             pass'.task = t, pass'.from = from, pass'.to = "awaiting-merge",
             pass'.patch = q, pass'.create = y
      PROVE  Good
  <2>1. /\ Merge(w, q).retry = w.retry /\ Merge(w, q).merge = x
    BY <1>1, <1>5, MergeFields, MergingFields
  <2>2. from \in Settled
    BY <1>5 DEF Settled
  <2> HIDE DEF w, from
  <2> QED
    BY <2>1, <2>2, <1>1, <1>5 DEF Lands, Settled
<1>6. WorkerFailed(t) /\ from \notin {"done", "pending"} => Good
  <2> HAVE WorkerFailed(t) /\ from \notin {"done", "pending"}
  <2> PICK long \in BOOLEAN :
         pass' = [Move(t, "failed") EXCEPT !.patch = [longFail |-> long]]
    BY DEF WorkerFailed
  <2>1. "failed" \in Settled
    BY DEF Settled
  <2> QED
    BY <2>1, <1>4
<1>7. pass' = AbandonTask(t) /\ from \notin {"done", "pending"} => Good
  <2> DEFINE q == [abandoned |-> TRUE]
  <2> HAVE pass' = AbandonTask(t) /\ from \notin {"done", "pending"}
  <2>1. Merge(w, q).retry = w.retry /\ Merge(w, q).abandoned = TRUE
    BY <1>1, MergeFields, MergingFields
  <2>2. AbandonTask(t) = Consuming(t, [Move(t, "done") EXCEPT !.patch = q])
    BY DEF AbandonTask
  <2> HIDE DEF q
  <2>3. /\ pass'.from = from /\ pass'.to = "done"
        /\ pass'.patch = q /\ pass'.create = NoRun
    BY <2>2 DEF Move, Consuming
  <2>4. "done" \in Settled
    BY DEF Settled
  <2> HIDE DEF w, from
  <2> QED
    BY <2>1, <2>3, <2>4, <1>1 DEF Lands
<1>8. ASSUME NEW q, "retry" \in DOMAIN q, q["retry"] = w.retry + 1,
             from \notin {"done", "pending"}, NEW to \in {"rework-requested", "pending"},
             pass'.from = from, pass'.to = to, pass'.patch = q, pass'.create = NoRun
      PROVE  Good
  <2>1. Merge(w, q).retry = w.retry + 1
    BY <1>1, <1>8, MergeFields
  <2> HIDE DEF w, from
  <2> QED
    BY <2>1, <1>1, <1>8 DEF Lands
<1>9. pass' = ReworkTask(t) /\ from \notin {"done", "pending"} => Good
  <2> DEFINE q == [retry |-> w.retry + 1, ai |-> 0]
  <2> HAVE pass' = ReworkTask(t) /\ from \notin {"done", "pending"}
  <2>1. pass' = Consuming(t, [Move(t, "rework-requested") EXCEPT !.patch = q])
    BY DEF ReworkTask
  <2>2. "retry" \in DOMAIN q /\ q["retry"] = w.retry + 1
    OBVIOUS
  <2> HIDE DEF q
  <2>3. /\ pass'.from = from /\ pass'.to = "rework-requested"
        /\ pass'.patch = q /\ pass'.create = NoRun
    BY <2>1 DEF Move, Consuming
  <2> QED
    BY <2>2, <2>3, <1>8
<1>10. CASE DecidePending(t)
  <2>1. /\ from = "pending" /\ pass' = Move(t, "scheduled")
        /\ Predecessor[t] # NoTask => SatisfiesGate(Seen(Predecessor[t]))
    BY <1>10 DEF DecidePending, In
  <2>2. Predecessor[t] # NoTask => phase[Predecessor[t]] = "done"
    <3> SUFFICES ASSUME Predecessor[t] # NoTask PROVE phase[Predecessor[t]] = "done"
      OBVIOUS
    <3>1. Predecessor[t] \in Needed(cycle.todo)
      BY DEF Needed
    <3>2. Seen(Predecessor[t]).phase = "done"
      BY <2>1 DEF SatisfiesGate
    <3> QED
      BY <3>1, <3>2 DEF SeenDone
  <2>3. /\ pass'.task = t /\ pass'.from = "pending" /\ pass'.to = "scheduled"
        /\ pass'.patch = NoPatch /\ pass'.create = NoRun
    BY <2>1 DEF Move
  <2>4. Merge(w, NoPatch).retry = w.retry /\ "pending" \notin Settled
    BY <1>1, <1>2, MergeFields DEF Settled
  <2> QED
    BY <2>2, <2>3, <2>4, <1>1 DEF Lands
<1>11. CASE DecideScheduled(t)
  <2> DEFINE x == WorkerRun(t, w)
             q == [run |-> x, retry |-> w.retry, ai |-> w.ai]
  <2>1. pass' = [Move(t, "initializing") EXCEPT !.patch = q, !.create = x]
        /\ from = "scheduled"
    BY <1>11 DEF DecideScheduled, In
  <2>2. Merge(w, q).retry = w.retry
    BY <1>1, MergeFields
  <2>3. x.kind \notin MergeKinds /\ "scheduled" \notin Settled
    BY DEF WorkerRun, MergeKinds, Settled
  <2> HIDE DEF q, x
  <2>4. /\ pass'.from = "scheduled" /\ pass'.to = "initializing"
        /\ pass'.patch = q /\ pass'.create = x
    BY <2>1 DEF Move
  <2> QED
    BY <2>2, <2>3, <2>4, <1>1 DEF Lands
<1>12. CASE DecideInitializing(t)
  <2>1. from = "initializing" /\ from \notin Settled
    BY <1>12 DEF DecideInitializing, In, Settled
  <2> QED
    BY <2>1, <1>3, <1>6, <1>12 DEF DecideInitializing
<1>13. CASE DecideRunning(t)
  <2>1. from = "running" /\ from \notin Settled
    BY <1>13 DEF DecideRunning, In, Settled
  <2> QED
    BY <2>1, <1>3, <1>6, <1>13 DEF DecideRunning
<1>14. CASE DecideWaitingForInput(t)
  <2>1. from = "waiting-for-input" /\ from \notin Settled
    BY <1>14 DEF DecideWaitingForInput, In, Settled
  <2>2. pass' = [Move(t, "running") EXCEPT !.clear = {"answer"}] => Good
    <3> HAVE pass' = [Move(t, "running") EXCEPT !.clear = {"answer"}]
    <3>1. /\ pass'.from = from /\ pass'.to = "running"
          /\ pass'.patch = NoPatch /\ pass'.create = NoRun
      BY DEF Move
    <3> HIDE DEF w, from
    <3> QED
      BY <3>1, <2>1, <1>1, <1>2, PlainLands
  <2>3. \/ pass' = Move(t, "failed") \/ pass' = Move(t, "succeeded")
        \/ pass' = AbandonTask(t) \/ pass' = ReworkTask(t)
        \/ pass' = [Move(t, "running") EXCEPT !.clear = {"answer"}]
    BY <1>14 DEF DecideWaitingForInput
  <2>4. pass' = Move(t, "failed") \/ pass' = Move(t, "succeeded") => Good
    BY <2>1, <1>3
  <2> QED
    BY <2>1, <2>2, <2>3, <2>4, <1>7, <1>9
<1>15. CASE DecideSucceeded(t)
  <2> DEFINE x == ReviewRun(t, w)
             q == [review |-> x]
  <2>1. from = "succeeded" /\ from \notin Settled
    BY <1>15 DEF DecideSucceeded, In, Settled
  <2>2. pass' = [Move(t, "reviewing") EXCEPT !.patch = q, !.create = x] => Good
    <3> HAVE pass' = [Move(t, "reviewing") EXCEPT !.patch = q, !.create = x]
    <3>1. "retry" \notin DOMAIN q /\ x.kind \notin MergeKinds
      BY DEF ReviewRun, MergeKinds
    <3> HIDE DEF q, x
    <3>2. /\ pass'.from = from /\ pass'.to = "reviewing"
          /\ pass'.patch = q /\ pass'.create = x
      BY DEF Move
    <3> HIDE DEF w, from
    <3> QED
      BY <2>1, <3>1, <3>2, <1>1, PlainLands
  <2>3. AutoDone /\ pass' = Move(t, "done") => Good
    BY <2>1, <1>3
  <2>4. pass' = Move(t, "awaiting-human") => Good
    BY <2>1, <1>3
  <2>5. \/ AutoDone /\ pass' = Move(t, "done")
        \/ pass' = Move(t, "awaiting-human")
        \/ pass' = [Move(t, "reviewing") EXCEPT !.patch = q, !.create = x]
    BY <1>15 DEF DecideSucceeded
  <2> QED
    BY <2>2, <2>3, <2>4, <2>5
<1>16. CASE DecideReviewing(t)
  <2> DEFINE q == [ai |-> w.ai + 1]
  <2>1. from = "reviewing" /\ from \notin Settled
    BY <1>16 DEF DecideReviewing, In, Settled
  <2>2. "retry" \notin DOMAIN q
    OBVIOUS
  <2>3. \/ pass' = Move(t, "awaiting-human")
        \/ pass' = [Move(t, "awaiting-human") EXCEPT !.patch = q]
        \/ pass' = [Move(t, "rework-requested") EXCEPT !.patch = q]
    BY <1>16 DEF DecideReviewing
  <2> HIDE DEF q
  <2>4. pass' = Move(t, "awaiting-human") => Good
    BY <2>1, <1>3
  <2>5. pass' = [Move(t, "awaiting-human") EXCEPT !.patch = q] => Good
    BY <2>1, <2>2, <1>4
  <2>6. pass' = [Move(t, "rework-requested") EXCEPT !.patch = q] => Good
    BY <2>1, <2>2, <1>4
  <2> QED
    BY <2>3, <2>4, <2>5, <2>6
<1>17. CASE DecideAwaitingHuman(t)
  <2> DEFINE x == MergeRun(t, w)
             q == [merge |-> x]
  <2>1. from = "awaiting-human" /\ "done" \in Settled
    BY <1>17 DEF DecideAwaitingHuman, In, Settled
  <2>2. pass' = Consuming(t, [Move(t, "awaiting-merge") EXCEPT !.patch = q, !.create = x])
          => Good
    <3> HAVE pass' = Consuming(t, [Move(t, "awaiting-merge") EXCEPT !.patch = q, !.create = x])
    <3>1. /\ x \in MergeNames(t, w) /\ "retry" \notin DOMAIN q
          /\ "merge" \in DOMAIN q /\ q["merge"] = x
      BY DEF MergeNames
    <3> HIDE DEF q, x
    <3>2. /\ pass'.task = t /\ pass'.from = from /\ pass'.to = "awaiting-merge"
          /\ pass'.patch = q /\ pass'.create = x
      BY DEF Move, Consuming
    <3> QED
      BY <2>1, <3>1, <3>2, <1>5
  <2>3. ~MergesOnApprove /\ pass' = Consuming(t, Move(t, "done")) => Good
    BY <2>1, <1>3
  <2>4. \/ pass' = AbandonTask(t) \/ pass' = ReworkTask(t)
        \/ ~MergesOnApprove /\ pass' = Consuming(t, Move(t, "done"))
        \/ pass' = Consuming(t, [Move(t, "awaiting-merge") EXCEPT !.patch = q, !.create = x])
    BY <1>17 DEF DecideAwaitingHuman
  <2> HIDE DEF q, x
  <2> QED
    BY <2>1, <2>2, <2>3, <2>4, <1>7, <1>9
<1>18. CASE DecideAwaitingMerge(t)
  <2> DEFINE x == RemergeRun(t, w)
             remerge == [merge |-> x]
             failure == [mergeError |-> TRUE]
             success == [merged |-> TRUE]
  <2>1. from = "awaiting-merge"
    BY <1>18 DEF DecideAwaitingMerge, In
  <2>2. /\ x \in MergeNames(t, w) /\ "failed" \in Settled /\ "awaiting-human" \in Settled
        /\ "done" \in Settled
    BY DEF MergeNames, Settled
  <2>3. /\ "retry" \notin DOMAIN remerge /\ "merge" \in DOMAIN remerge
        /\ remerge["merge"] = x
        /\ "retry" \notin DOMAIN failure /\ "retry" \notin DOMAIN success
    OBVIOUS
  <2>4. \/ pass' = [Move(t, "awaiting-merge") EXCEPT !.patch = remerge, !.create = x]
        \/ pass' = [Move(t, "failed") EXCEPT !.patch = failure]
        \/ pass' = [[Move(t, "failed") EXCEPT !.patch = failure] EXCEPT !.discard = w.merge]
        \/ pass' = [Move(t, "awaiting-human") EXCEPT !.patch = failure]
        \/ /\ VerdictOf(w.merge) = "landed"
           /\ pass' = [Move(t, "done") EXCEPT !.patch = success]
    BY <1>18 DEF DecideAwaitingMerge, MergeLanded
  <2> HIDE DEF x, remerge, failure, success
  <2>5. pass' = [Move(t, "awaiting-merge") EXCEPT !.patch = remerge, !.create = x] => Good
    <3> HAVE pass' = [Move(t, "awaiting-merge") EXCEPT !.patch = remerge, !.create = x]
    <3>1. /\ pass'.task = t /\ pass'.from = from /\ pass'.to = "awaiting-merge"
          /\ pass'.patch = remerge /\ pass'.create = x
      BY DEF Move
    <3> QED
      BY <2>1, <2>2, <2>3, <3>1, <1>5
  <2>6. \/ pass' = [Move(t, "failed") EXCEPT !.patch = failure]
        \/ pass' = [[Move(t, "failed") EXCEPT !.patch = failure] EXCEPT !.discard = w.merge]
        \/ pass' = [Move(t, "awaiting-human") EXCEPT !.patch = failure]
        => Good
    BY <2>1, <2>2, <2>3, <1>4
  <2>7. VerdictOf(w.merge) = "landed" /\ pass' = [Move(t, "done") EXCEPT !.patch = success]
          => Good
    <3> HAVE VerdictOf(w.merge) = "landed"
               /\ pass' = [Move(t, "done") EXCEPT !.patch = success]
    <3>1. w.run \in landed
      BY <2>1
    <3>2. Merge(w, success).retry = w.retry
      BY <2>3, <1>1, MergeFields
    <3>3. /\ pass'.from = "awaiting-merge" /\ pass'.to = "done"
          /\ pass'.patch = success /\ pass'.create = NoRun
      BY <2>1 DEF Move
    <3> HIDE DEF w, from
    <3> QED
      BY <2>2, <3>1, <3>2, <3>3, <1>1 DEF Lands
  <2> QED
    BY <2>4, <2>5, <2>6, <2>7
<1>19. CASE DecideReworkRequested(t)
  <2>1. from = "rework-requested" /\ from \notin Settled
    BY <1>19 DEF DecideReworkRequested, In, Settled
  <2> QED
    BY <2>1, <1>3, <1>19 DEF DecideReworkRequested
<1>20. CASE DecideFailed(t)
  <2> DEFINE q == [merge |-> NoRun, mergeError |-> FALSE]
             next == [retry |-> w.retry + 1]
  <2>1. from = "failed" /\ "awaiting-human" \in Settled
    BY <1>20 DEF DecideFailed, In, Settled
  <2>2. /\ "retry" \notin DOMAIN q /\ "merge" \in DOMAIN q /\ q["merge"] = NoRun
        /\ "retry" \in DOMAIN next /\ next["retry"] = w.retry + 1
    OBVIOUS
  <2>3. \/ pass' = Consuming(t, [Move(t, "awaiting-merge") EXCEPT !.patch = q])
        \/ pass' = Consuming(t, Move(t, "awaiting-human"))
        \/ pass' = [Move(t, "pending") EXCEPT !.patch = next]
    BY <1>20 DEF DecideFailed, RetryTask
  <2> HIDE DEF q, next
  <2>4. pass' = Consuming(t, [Move(t, "awaiting-merge") EXCEPT !.patch = q]) => Good
    <3> HAVE pass' = Consuming(t, [Move(t, "awaiting-merge") EXCEPT !.patch = q])
    <3>1. /\ pass'.task = t /\ pass'.from = from /\ pass'.to = "awaiting-merge"
          /\ pass'.patch = q /\ pass'.create = NoRun
      BY DEF Move, Consuming
    <3> QED
      BY <2>1, <2>2, <3>1, <1>5
  <2>5. pass' = Consuming(t, Move(t, "awaiting-human")) => Good
    BY <2>1, <1>3
  <2>6. pass' = [Move(t, "pending") EXCEPT !.patch = next] => Good
    <3> HAVE pass' = [Move(t, "pending") EXCEPT !.patch = next]
    <3>1. /\ pass'.from = from /\ pass'.to = "pending"
          /\ pass'.patch = next /\ pass'.create = NoRun
      BY DEF Move
    <3> QED
      BY <2>1, <2>2, <3>1, <1>8
  <2> QED
    BY <2>3, <2>4, <2>5, <2>6
<1> QED
  BY <1>10, <1>11, <1>12, <1>13, <1>14, <1>15, <1>16, <1>17, <1>18, <1>19, <1>20 DEF Decide

-----------------------------------------------------------------------------
(* The invariants are inductive. *)

MergeRests == Rests /\ Landing

\* Nothing is merged and nothing is done at first.
LEMMA InitLanding == Init => Landing
<1> SUFFICES ASSUME Init PROVE Landing
  OBVIOUS
<1>1. \A t \in Tasks : phase[t] \in {"idea", "pending"}
  BY DEF Init
<1>2. pass = NoPass /\ cycle = NoCycle /\ DOMAIN runs = {}
  BY DEF Init
<1> QED
  BY <1>1, <1>2
  DEF Landing, MergesAreOfTheirAttempts, MergeIsOfAttempt, LandedVerdicts, PredecessorDone,
      SeenDone, PassLands, DoneMeansLanded

\* What a task that waits for a merge learns is about the work on record.
LEMMA MergeVerdicts ==
  ASSUME MergeRests, NEW t \in Tasks, phase[t] = "awaiting-merge",
         worker[t].merge \in DOMAIN runs
  PROVE  /\ runs[worker[t].merge].about = worker[t].run
         /\ runs[worker[t].merge].verdict = "landed" => worker[t].run \in landed
<1> DEFINE x == worker[t].merge
<1>1. x # NoRun
  BY NoRunAssumption DEF MergeRests, Rests, TypeOK
<1>2. x \in MergeNames(t, worker[t])
  BY <1>1 DEF MergeRests, Landing, MergeIsOfAttempt
<1>3. x.task = t /\ x.kind \in MergeKinds /\ x.r = worker[t].retry
  BY <1>2, MergeNamesOf
<1>4. runs[x].about = worker[t].run
  BY <1>3 DEF MergeRests, Landing, MergesAreOfTheirAttempts
<1> QED
  BY <1>4 DEF MergeRests, Landing, LandedVerdicts

\* A decision takes the invariants over from the list, which is current.
LEMMA VisitLands ==
  ASSUME MergeRests, NEW t \in Tasks, Visit(t)
  PROVE  PassLands'
<1>1. cycle # NoCycle /\ t \in cycle.todo /\ Decide(t) /\ UNCHANGED <<phase, worker, landed>>
  BY DEF Visit, Turn, task, history
<1>2. Seen(t).phase = phase[t] /\ Seen(t).worker = worker[t]
  BY <1>1 DEF MergeRests, Rests, DecisionsCurrent, ListCurrent
<1>3. phase[t] = "awaiting-merge" /\ VerdictOf(worker[t].merge) = "landed"
        => worker[t].run \in landed
  BY MergeVerdicts DEF VerdictOf
<1>4. Lands(pass', worker[t])
  BY <1>1, <1>2, <1>3, DecideLands DEF MergeRests, Rests, Landing
<1>5. pass'.task = t
  BY <1>1, DecideSound DEF MergeRests, Rests, Sound
<1>6. Lands(pass, worker[t])'
  BY <1>1, <1>4 DEF Lands
<1> QED
  BY <1>1, <1>5, <1>6 DEF PassLands

\* Done is for good, and so is what is merged.
LEMMA DoneForGood ==
  ASSUME MergeRests, [Next]_vars
  PROVE  /\ \A u \in Tasks : phase[u] = "done" => phase'[u] = "done" /\ worker'[u] = worker[u]
         /\ landed \subseteq landed'
<1> USE DEF history, task
<1>1. ASSUME NEW u \in Tasks, phase[u] = "done"
      PROVE  phase'[u] = "done" /\ worker'[u] = worker[u]
  <2>1. CASE WriteStatus
    <3>1. Lands(pass, worker[pass.task]) /\ phase[pass.task] = pass.from
      BY <2>1 DEF WriteStatus, InStage, MergeRests, Landing, PassLands
    <3>2. u # pass.task
      BY <3>1, <1>1 DEF Lands
    <3> QED
      BY <2>1, <3>2, <1>1, WriteFacts DEF MergeRests, Rests
  <2>2. ASSUME NEW t \in Tasks, Promote(t)
        PROVE  phase'[u] = "done" /\ worker'[u] = worker[u]
    BY <1>1, <2>2 DEF Promote, MergeRests, Rests, TypeOK
  <2> QED
    BY <1>1, <2>1, <2>2, StatusSteps
<1>2. landed \subseteq landed'
  <2>1. CASE Manager
    BY <2>1 DEF Manager, StartCycle, EndCycle, Visit, PassOver, RunEffects, FailReplacing,
                WriteStatus, PatchStatus, PatchUnanswered, ClearTaskAnnotations, Abort,
                ManagerCrash
  <2>2. CASE Environment
    BY <2>2 DEF Environment, Human, Approve, RequestChanges, Abandon, Answer, Annotate,
                Promote, BackoffElapses, RunSteps, RunStarts, RunParks, RunResumes,
                RunStalls, RunSucceeds, RunFails, RunOverwritten, RunDeleted, RunTurns
  <2>3. CASE UNCHANGED vars
    BY <2>3 DEF vars
  <2> QED
    BY <2>1, <2>2, <2>3 DEF Next
<1> QED
  BY <1>1, <1>2

\* A status write keeps what the tasks rest on.
LEMMA WrittenLands ==
  ASSUME MergeRests, WriteStatus
  PROVE  /\ MergesAreOfTheirAttempts' /\ MergeIsOfAttempt'
         /\ PredecessorDone' /\ DoneMeansLanded'
<1> DEFINE t == pass.task
           w == worker[t]
           m == Merge(w, pass.patch)
<1>1. /\ t \in Tasks /\ w \in Worker /\ m \in Worker
      /\ phase[t] = pass.from /\ phase'[t] = pass.to /\ worker'[t] = m
      /\ \A u \in Tasks \ {t} : phase'[u] = phase[u] /\ worker'[u] = worker[u]
      /\ pass.from \in TaskPhase \ {"idea"} /\ pass.to \in TaskPhase
  BY WriteFacts DEF MergeRests, Rests
<1>2. Names(pass, w) /\ Lands(pass, w)
  BY DEF WriteStatus, InStage, MergeRests, Rests, ReviewNames, Landing, PassNames, PassLands
<1>3. runs' = runs /\ landed' = landed
  BY DEF WriteStatus
<1>4. DOMAIN runs \subseteq RunId
  BY DEF MergeRests, Rests, TypeOK
<1> HIDE DEF t, w, m
<1>5. m.run = IF pass.to = "initializing" THEN WorkerRun(t, w) ELSE w.run
  BY <1>2 DEF Names, m, t
<1>6. /\ pass.from # "done"
      /\ m.retry >= w.retry
      /\ m.retry = w.retry /\ pass.from \in Settled => pass.to \in Settled
      /\ pass.to = "awaiting-merge" =>
           m.retry = w.retry /\ m.merge \in MergeNames(t, w) \cup {NoRun}
      /\ pass.to = "done" /\ MergesOnApprove /\ ~AutoDone => m.abandoned \/ w.run \in landed
      /\ pass.from = "pending" /\ Predecessor[t] # NoTask =>
           phase[Predecessor[t]] = "done"
  BY <1>2 DEF Lands, m, t
<1>7. ASSUME NEW x \in DOMAIN runs, x.kind \in MergeKinds
      PROVE  /\ x.r <= worker'[x.task].retry
             /\ x.r = worker'[x.task].retry =>
                  phase'[x.task] \in Settled /\ runs[x].about = worker'[x.task].run
  <2>1. /\ x.r <= worker[x.task].retry
        /\ x.r = worker[x.task].retry =>
             phase[x.task] \in Settled /\ runs[x].about = worker[x.task].run
    BY <1>7 DEF MergeRests, Landing, MergesAreOfTheirAttempts
  <2>2. x.task \in Tasks /\ x.r \in Nat
    BY <1>4 DEF RunId
  <2>3. CASE x.task # t
    BY <2>1, <2>2, <2>3, <1>1
  <2>4. CASE x.task = t
    <3>1. w.retry \in Nat /\ m.retry \in Nat
      BY <1>1 DEF Worker
    <3>2. x.r <= m.retry
      BY <2>1, <2>2, <2>4, <3>1, <1>6 DEF w
    <3>3. ASSUME x.r = m.retry
          PROVE  pass.to \in Settled /\ runs[x].about = m.run
      <4>1. m.retry = w.retry
        BY <2>1, <2>2, <2>4, <3>1, <3>3, <1>6 DEF w
      <4>2. pass.from \in Settled /\ runs[x].about = w.run
        BY <2>1, <2>4, <3>3, <4>1, <1>1 DEF w
      <4>3. pass.to \in Settled
        BY <4>1, <4>2, <1>6
      <4>4. pass.to # "initializing"
        BY <4>3 DEF Settled
      <4> QED
        BY <4>2, <4>3, <4>4, <1>5
    <3> QED
      BY <2>4, <3>2, <3>3, <1>1
  <2> QED
    BY <2>3, <2>4
<1>8. MergesAreOfTheirAttempts'
  BY <1>3, <1>7 DEF MergesAreOfTheirAttempts
<1>9. ASSUME NEW u \in Tasks
      PROVE  /\ phase'[u] = "awaiting-merge"
                  => worker'[u].merge \in MergeNames(u, worker'[u]) \cup {NoRun}
             /\ phase'[u] = "done" /\ MergesOnApprove /\ ~AutoDone
                  => worker'[u].abandoned \/ worker'[u].run \in landed
             /\ phase'[u] \notin {"idea", "pending"} /\ Predecessor[u] # NoTask
                  => phase'[Predecessor[u]] = "done"
  <2>1. CASE u # t
    <3>1. phase'[u] = phase[u] /\ worker'[u] = worker[u]
      BY <2>1, <1>1
    <3>2. Predecessor[u] # NoTask /\ phase[Predecessor[u]] = "done"
            => phase'[Predecessor[u]] = "done"
      BY <1>1, <1>6, TasksAssumption
    <3> QED
      BY <3>1, <3>2 DEF MergeRests, Landing, MergeIsOfAttempt, DoneMeansLanded, PredecessorDone
  <2>2. CASE u = t
    <3>1. pass.to = "awaiting-merge" => m.merge \in MergeNames(t, m) \cup {NoRun}
      BY <1>6 DEF MergeNames, MergeRun, RemergeRun
    <3>2. pass.to = "done" => m.run = w.run
      BY <1>5
    <3>3. Predecessor[t] # NoTask => phase[Predecessor[t]] = "done"
      BY <1>1, <1>6 DEF MergeRests, Landing, PredecessorDone
    <3>4. Predecessor[t] # NoTask => phase'[Predecessor[t]] = "done"
      BY <3>3, <1>1, <1>6, TasksAssumption
    <3> QED
      BY <2>2, <3>1, <3>2, <3>4, <1>1, <1>6
  <2> QED
    BY <2>1, <2>2
<1> QED
  BY <1>3, <1>8, <1>9 DEF MergeIsOfAttempt, DoneMeansLanded, PredecessorDone

\* What every step does to the runs, where it leaves the tasks alone.
LEMMA StepMerges ==
  ASSUME MergeRests, [Next]_vars
  PROVE  LandedVerdicts' /\ (UNCHANGED <<phase, worker>> => MergesAreOfTheirAttempts')
<1> USE DEF history, task
<1>a. MergesAreOfTheirAttempts /\ LandedVerdicts /\ landed \subseteq landed'
  BY DoneForGood DEF MergeRests, Landing
<1>1. ASSUME DOMAIN runs' \subseteq DOMAIN runs,
             \A x \in DOMAIN runs' : runs'[x].about = runs[x].about
      PROVE  UNCHANGED <<phase, worker>> => MergesAreOfTheirAttempts'
  BY <1>1, <1>a DEF MergesAreOfTheirAttempts
<1>2. (\E x : runs' = Without(x)) \/ runs' = runs
        => LandedVerdicts' /\ (UNCHANGED <<phase, worker>> => MergesAreOfTheirAttempts')
  BY <1>1, <1>a DEF Without, LandedVerdicts
<1>3. CASE RunEffects
  <2> DEFINE x == pass.create
  <2>1. CASE x # NoRun /\ runs' = With(x)
    <3>1. /\ DOMAIN runs' = DOMAIN runs \cup {x}
          /\ \A y \in DOMAIN runs' \ {x} : runs'[y] = runs[y]
          /\ runs'[x].about = worker[x.task].run /\ runs'[x].verdict = "none"
      BY <2>1 DEF With
    <3>2. LandedVerdicts'
      BY <3>1, <1>a DEF LandedVerdicts
    <3>3. pass # NoPass /\ pass.stage # "clear" /\ phase[pass.task] = pass.from
          /\ pass.task \in Tasks /\ UNCHANGED <<phase, worker>>
      BY <1>3 DEF RunEffects, InStage, StillValid, MergeRests, Rests, TypeOK, Pass
    <3>4. Lands(pass, worker[pass.task])
      BY <3>3 DEF MergeRests, Landing, PassLands
    <3>5. x.kind \in MergeKinds => x \in MergeNames(pass.task, worker[pass.task])
                                   /\ pass.from \in Settled
      BY <2>1, <3>4 DEF Lands
    <3>6. x.kind \in MergeKinds =>
            /\ x.task = pass.task /\ x.r = worker[x.task].retry /\ phase[x.task] \in Settled
      BY <3>3, <3>5, MergeNamesOf
    <3>7. worker[pass.task].retry \in Nat
      BY <3>3 DEF MergeRests, Rests, TypeOK, Worker
    <3>8. x.kind \in MergeKinds => x.r <= worker[x.task].retry
      BY <3>6, <3>7
    <3>9. MergesAreOfTheirAttempts'
      BY <3>1, <3>3, <3>6, <3>8, <1>a DEF MergesAreOfTheirAttempts
    <3> QED
      BY <3>2, <3>9
  <2> QED
    BY <2>1, <1>2, <1>3 DEF RunEffects
<1>4. ASSUME NEW x \in DOMAIN runs, RunSteps(x)
      PROVE  LandedVerdicts' /\ (UNCHANGED <<phase, worker>> => MergesAreOfTheirAttempts')
  <2>1. CASE RunDeleted(x)
    BY <2>1, <1>2 DEF RunDeleted
  <2>2. ASSUME NEW from, NEW to, NEW v, RunTurns(x, from, to, v)
        PROVE  LandedVerdicts' /\ (UNCHANGED <<phase, worker>> => MergesAreOfTheirAttempts')
    <3>1. runs[x] \in Run
      BY DEF MergeRests, Rests, TypeOK
    <3>2. /\ DOMAIN runs' = DOMAIN runs
          /\ runs'[x].about = runs[x].about /\ runs'[x].verdict = v
          /\ \A y \in DOMAIN runs \ {x} : runs'[y] = runs[y]
      BY <2>2, <3>1 DEF RunTurns, Run
    <3>3. v = "landed" => runs[x].about \in landed'
      BY <2>2 DEF RunTurns
    <3>4. LandedVerdicts'
      BY <3>2, <3>3, <1>a DEF LandedVerdicts
    <3> QED
      BY <3>2, <3>4, <1>1
  <2> QED
    BY <2>1, <2>2, <1>4 DEF RunSteps, RunStarts, RunParks, RunResumes, RunStalls,
                            RunSucceeds, RunFails, RunOverwritten
<1>5. RunEffects \/ FailReplacing \/ (\E x \in DOMAIN runs : RunSteps(x)) \/ runs' = runs
  BY DEF Next, Manager, Environment, StartCycle, EndCycle, Visit, PassOver, WriteStatus,
         PatchStatus, PatchUnanswered, ClearTaskAnnotations, Abort, ManagerCrash, Human,
         Approve, RequestChanges, Abandon, Answer, Annotate, Promote, BackoffElapses, vars
<1> QED
  BY <1>2, <1>3, <1>4, <1>5 DEF FailReplacing

\* What every step does to the tasks.
LEMMA StepLanded ==
  ASSUME MergeRests, [Next]_vars
  PROVE  /\ MergesAreOfTheirAttempts' /\ MergeIsOfAttempt'
         /\ PredecessorDone' /\ DoneMeansLanded'
<1>a. /\ MergesAreOfTheirAttempts /\ MergeIsOfAttempt /\ PredecessorDone /\ DoneMeansLanded
      /\ landed \subseteq landed'
  BY DoneForGood DEF MergeRests, Landing
<1>1. CASE WriteStatus
  BY <1>1, WrittenLands
<1>2. ASSUME NEW t \in Tasks, Promote(t)
      PROVE  /\ MergesAreOfTheirAttempts' /\ MergeIsOfAttempt'
             /\ PredecessorDone' /\ DoneMeansLanded'
  <2>1. /\ phase[t] = "idea" /\ phase'[t] = "pending" /\ UNCHANGED <<worker, runs, landed>>
        /\ \A u \in Tasks \ {t} : phase'[u] = phase[u]
    BY <1>2 DEF Promote, MergeRests, Rests, TypeOK, history
  <2>2. DOMAIN runs \subseteq RunId
    BY DEF MergeRests, Rests, TypeOK
  <2>3. \A x \in DOMAIN runs : x.task \in Tasks
    BY <2>2 DEF RunId
  <2>4. "idea" \notin Settled
    BY DEF Settled
  <2>5. MergesAreOfTheirAttempts'
    BY <2>1, <2>3, <2>4, <1>a DEF MergesAreOfTheirAttempts
  <2>6. MergeIsOfAttempt' /\ DoneMeansLanded'
    BY <2>1, <1>a DEF MergeIsOfAttempt, DoneMeansLanded
  <2>7. PredecessorDone'
    BY <2>1, <1>a, TasksAssumption DEF PredecessorDone
  <2> QED
    BY <2>5, <2>6, <2>7
<1>3. CASE UNCHANGED <<phase, worker>>
  BY <1>a, <1>3, StepMerges DEF MergeIsOfAttempt, PredecessorDone, DoneMeansLanded
<1> QED
  BY <1>1, <1>2, <1>3, StatusSteps

\* What every step does to the list.
LEMMA StepSeen ==
  ASSUME MergeRests, [Next]_vars
  PROVE  SeenDone'
<1> USE DEF history, task
<1>a. SeenDone /\ \A u \in Tasks : phase[u] = "done" => phase'[u] = "done"
  BY DoneForGood DEF MergeRests, Landing
<1>b. cycle # NoCycle => Needed(cycle.todo) \subseteq Tasks
  <2>1. cycle # NoCycle => cycle.todo \in SUBSET Tasks
    BY SeenType DEF MergeRests, Rests
  <2> QED
    BY <2>1, NeededType
<1>1. cycle' = NoCycle => SeenDone'
  BY DEF SeenDone
<1>2. cycle # NoCycle /\ cycle'.todo = cycle.todo /\ cycle'.seen = cycle.seen => SeenDone'
  BY <1>a, <1>b DEF SeenDone, Seen, Needed
<1>3. CASE StartCycle
  <2> DEFINE S == {t \in Tasks : phase[t] \notin {"idea", "done"}}
  <2>1. /\ cycle'.todo = S /\ phase' = phase
        /\ \A u \in Needed(S) : cycle'.seen[u].phase = phase[u]
    BY <1>3 DEF StartCycle
  <2>2. Needed(cycle'.todo) = Needed(S)
    BY <2>1
  <2> HIDE DEF S
  <2> QED
    BY <2>1, <2>2 DEF SeenDone, Seen, Needed
<1>4. ASSUME NEW t \in Tasks, Turn(t), cycle' = Past(t)
      PROVE  SeenDone'
  <2>1. cycle # NoCycle /\ t \in cycle.todo
    BY <1>4 DEF Turn
  <2> DEFINE S == cycle.todo \ {t}
  <2>2. cycle'.todo = S /\ \A u \in Needed(S) : cycle'.seen[u] = cycle.seen[u]
    BY <1>4 DEF Past
  <2>3. Needed(S) \subseteq Needed(cycle.todo) /\ Needed(cycle'.todo) = Needed(S)
    BY <2>2 DEF Needed
  <2> HIDE DEF S
  <2> QED
    BY <2>1, <2>2, <2>3, <1>a, <1>b DEF SeenDone, Seen, Needed
<1>5. CASE PatchStatus
  <2>1. cycle # NoCycle
    BY <1>5 DEF PatchStatus, WriteStatus, InStage, MergeRests, Rests, DecisionsCurrent,
                PassCurrent
  <2>2. PICK S \in SUBSET Tasks : cycle \in Cycle(S)
    BY <2>1 DEF MergeRests, Rests, TypeOK
  <2>3. cycle'.todo = cycle.todo /\ cycle'.seen = cycle.seen
    BY <1>5, <2>2 DEF PatchStatus, Cycle
  <2> QED
    BY <2>1, <2>3, <1>2
<1>6. \/ StartCycle \/ PatchStatus \/ cycle' = NoCycle \/ cycle' = cycle
      \/ \E t \in Tasks : Turn(t) /\ cycle' = Past(t)
  <2>1. CASE Manager
    BY <2>1 DEF Manager, EndCycle, Visit, PassOver, RunEffects, FailReplacing,
                PatchUnanswered, ClearTaskAnnotations, Abort, ManagerCrash
  <2>2. CASE Environment
    BY <2>2 DEF Environment, Human, Approve, RequestChanges, Abandon, Answer, Annotate,
                Promote, BackoffElapses, RunSteps, RunStarts, RunParks, RunResumes,
                RunStalls, RunSucceeds, RunFails, RunOverwritten, RunDeleted, RunTurns
  <2>3. CASE UNCHANGED vars
    BY <2>3 DEF vars
  <2> QED
    BY <2>1, <2>2, <2>3 DEF Next
<1> QED
  BY <1>1, <1>2, <1>3, <1>4, <1>5, <1>6

\* What every step does to the decision being carried out.
LEMMA StepPassLands ==
  ASSUME MergeRests, [Next]_vars
  PROVE  PassLands'
<1> USE DEF history, task
<1>a. PassLands /\ landed \subseteq landed'
      /\ \A u \in Tasks : phase[u] = "done" => phase'[u] = "done"
  BY DoneForGood DEF MergeRests, Landing
<1>b. pass # NoPass => pass.task \in Tasks /\ pass \in Pass(pass.patch)
  BY DEF MergeRests, Rests, TypeOK, Pass
<1>c. \A t \in Tasks : Predecessor[t] # NoTask => Predecessor[t] \in Tasks
  BY TasksAssumption
<1>1. pass' = NoPass \/ pass'.stage = "clear" => PassLands'
  BY DEF PassLands
<1>2. ASSUME pass # NoPass, pass.stage # "clear", UNCHANGED worker,
             pass'.task = pass.task, pass'.from = pass.from, pass'.to = pass.to,
             pass'.patch = pass.patch, pass'.create = pass.create
      PROVE  PassLands'
  <2>1. Lands(pass, worker[pass.task]) /\ pass.task \in Tasks
    BY <1>2, <1>a, <1>b DEF PassLands
  <2>2. Lands(pass, worker[pass.task])'
    BY <2>1, <1>2, <1>a, <1>c DEF Lands
  <2> QED
    BY <2>2 DEF PassLands
<1>3. UNCHANGED <<worker, pass>> => PassLands'
  BY <1>1, <1>2
<1>4. CASE RunEffects
  <2>1. pass \in Pass(pass.patch) /\ pass # NoPass /\ pass.stage = "effects"
        /\ worker' = worker /\ pass' = [pass EXCEPT !.stage = "patch"]
    BY <1>4, <1>b DEF RunEffects, InStage
  <2>2. /\ pass'.task = pass.task /\ pass'.from = pass.from /\ pass'.to = pass.to
        /\ pass'.patch = pass.patch /\ pass'.create = pass.create
    BY <2>1 DEF Pass
  <2> QED
    BY <2>1, <2>2, <1>2
<1>5. CASE PatchStatus
  <2>1. pass \in Pass(pass.patch)
    BY <1>5, <1>b DEF PatchStatus, WriteStatus, InStage
  <2> QED
    BY <2>1, <1>1, <1>5 DEF PatchStatus, Pass
<1>6. ASSUME NEW t \in Tasks, Visit(t)
      PROVE  PassLands'
  BY <1>6, VisitLands
<1>7. \/ pass' = NoPass \/ UNCHANGED <<worker, pass>>
      \/ RunEffects \/ PatchStatus \/ \E t \in Tasks : Visit(t)
  <2>1. CASE Manager
    BY <2>1 DEF Manager, StartCycle, EndCycle, PassOver, FailReplacing, PatchUnanswered,
                ClearTaskAnnotations, Abort, ManagerCrash
  <2>2. CASE Environment
    BY <2>2 DEF Environment, Human, Approve, RequestChanges, Abandon, Answer, Annotate,
                Promote, BackoffElapses, RunSteps, RunStarts, RunParks, RunResumes,
                RunStalls, RunSucceeds, RunFails, RunOverwritten, RunDeleted, RunTurns
  <2>3. CASE UNCHANGED vars
    BY <2>3 DEF vars
  <2> QED
    BY <2>1, <2>2, <2>3 DEF Next
<1> QED
  BY <1>1, <1>3, <1>4, <1>5, <1>6, <1>7

-----------------------------------------------------------------------------
(* The theorems. *)

\* The invariants together.
LEMMA MergesInductive == Spec => []MergeRests
<1>1. Init => Landing
  BY InitLanding
<1>2. Rests /\ Landing /\ [Next]_vars => Landing'
  <2> SUFFICES ASSUME MergeRests, [Next]_vars PROVE Landing'
    BY DEF MergeRests
  <2> QED
    BY StepMerges, StepLanded, StepSeen, StepPassLands DEF Landing
<1>3. Spec => [](Rests /\ Landing)
  BY <1>1, <1>2, ReviewsInductive, PTL DEF Spec
<1> QED
  BY <1>3, PTL DEF MergeRests

\* The merge a task waits for is of the worker run it has on record, though
\* merge runs are replaced under their names and their success overwritten.
THEOREM MergesCurrent == Spec => []MergeIsOfCurrentWork
<1>1. MergeRests => MergeIsOfCurrentWork
  BY MergeVerdicts DEF MergeIsOfCurrentWork
<1> QED
  BY <1>1, MergesInductive, PTL

\* Where approved work is merged, no task is done without a human having
\* abandoned it or a merge run having reported its last work merged.
THEOREM DoneHasLanded == Spec => []DoneMeansLanded
<1>1. MergeRests => DoneMeansLanded
  BY DEF MergeRests, Landing
<1> QED
  BY <1>1, MergesInductive, PTL

\* No task is scheduled before its predecessor's work has landed or was
\* abandoned, and that stays so while it is worked on (StartsOnLandedWork).
THEOREM ChainsStartLanded == Spec => []StartsOnLandedWork
<1>1. MergeRests => StartsOnLandedWork
  <2> SUFFICES ASSUME MergeRests, NEW t \in Tasks, Predecessor[t] # NoTask, MergeExpected,
                      phase[t] \notin {"idea", "pending"}
               PROVE  LET p == worker[Predecessor[t]] IN p.abandoned \/ p.run \in landed
    BY DEF StartsOnLandedWork
  <2>1. phase[Predecessor[t]] = "done" /\ Predecessor[t] \in Tasks
    BY TasksAssumption DEF MergeRests, Landing, PredecessorDone
  <2> QED
    BY <2>1 DEF MergeRests, Landing, DoneMeansLanded, MergeExpected
<1> QED
  BY <1>1, MergesInductive, PTL

=============================================================================
