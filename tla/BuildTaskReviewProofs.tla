----------------------- MODULE BuildTaskReviewProofs -----------------------
(***************************************************************************)
(* Proofs about the rounds of review of BuildTask: a verdict is about the  *)
(* work the task has on record, and the reviewer's requests for changes    *)
(* stay within the ceiling.                                                *)
(***************************************************************************)
EXTENDS BuildTaskProofs

-----------------------------------------------------------------------------
(* Inductive invariants. *)

Working == {"initializing", "running", "waiting-for-input", "succeeded", "reviewing"}

\* While it works and while it is reviewed, a task has the worker run of its
\* attempt on record.
WorkIsOfAttempt ==
  \A t \in Tasks : phase[t] \in Working => worker[t].run = WorkerRun(t, worker[t])

\* And in review, the review run of its attempt.
ReviewIsOfAttempt ==
  \A t \in Tasks : phase[t] = "reviewing" => worker[t].review = ReviewRun(t, worker[t])

\* A review run was created when the worker run of its attempt was on record.
ReviewsAreOfTheirAttempts ==
  \A x \in DOMAIN runs :
    x.kind = "review" =>
      runs[x].about = [task |-> x.task, kind |-> "worker", r |-> x.r, a |-> x.a]

\* What the pass p creates, and what its status write does to the names on
\* record in the status w.
Names(p, w) ==
  LET m == Merge(w, p.patch) IN
  /\ m.run = IF p.to = "initializing" THEN WorkerRun(p.task, w) ELSE w.run
  /\ p.to = "reviewing" => m.review = ReviewRun(p.task, w) /\ p.from = "succeeded"
  /\ p.create # NoRun /\ p.create.kind = "review"
       => p.create = ReviewRun(p.task, w) /\ p.from = "succeeded" /\ w.run # NoRun

PassNames == pass # NoPass /\ pass.stage # "clear" => Names(pass, worker[pass.task])

ReviewNames ==
  WorkIsOfAttempt /\ ReviewIsOfAttempt /\ ReviewsAreOfTheirAttempts /\ PassNames

\* The phases of a task whose count of AI reworks has passed the ceiling.
Above == {"awaiting-human", "done"}
           \cup (IF RetryEnabled THEN {} ELSE {"awaiting-merge", "failed"})

\* Flows whose retries cannot relaunch the worker of an escalated task.
Capped == ~(MergesOnApprove /\ RetryEnabled)

CountsWithinCeiling ==
  \A t \in Tasks : Capped /\ worker[t].ai > MaxAutoReworks => phase[t] \in Above

\* The same of the pass p, from the status w.
Rounds(p, w) ==
  Capped => /\ Merge(w, p.patch).ai > MaxAutoReworks => p.to \in Above
            /\ p.create # NoRun /\ p.create.kind = "worker" => p.create.a <= MaxAutoReworks

PassRounds == pass # NoPass /\ pass.stage # "clear" => Rounds(pass, worker[pass.task])

ReviewRounds == CountsWithinCeiling /\ PassRounds /\ ReworksWithinCeiling

-----------------------------------------------------------------------------
(* Decisions. *)

\* The fields of a patch that the invariants read.
LEMMA ReviewFields ==
  ASSUME NEW w \in Worker, NEW p
  PROVE  Merge(w, p).review = IF "review" \in DOMAIN p THEN p["review"] ELSE w.review
<1>1. "review" \in DOMAIN w
  BY DEF Worker
<1> QED
  BY <1>1 DEF Merge

\* Most decisions create no worker or review run, name none of the fields,
\* and do not lead to work or review.
LEMMA PlainFacts ==
  ASSUME NEW t, NEW w \in Worker, NEW p, p.task = t,
         p.to \notin {"initializing", "reviewing"},
         "run" \notin DOMAIN p.patch, "ai" \notin DOMAIN p.patch,
         p.create = NoRun \/ p.create.kind \in {"merge", "remerge"}
  PROVE  /\ Names(p, w)
         /\ (Capped /\ w.ai > MaxAutoReworks => p.to \in Above) => Rounds(p, w)
BY MergeFields DEF Names, Rounds

\* The names that a decision gives.
LEMMA DecideNames ==
  ASSUME TypeOK, cycle # NoCycle, NEW t \in cycle.todo, Decide(t)
  PROVE  /\ Names(pass', Seen(t).worker)
         /\ (Capped /\ Seen(t).worker.ai > MaxAutoReworks => Seen(t).phase \in Above)
              => Rounds(pass', Seen(t).worker)
<1> DEFINE w == Seen(t).worker
           Below == Capped /\ w.ai > MaxAutoReworks => Seen(t).phase \in Above
           Good == Names(pass', w) /\ (Below => Rounds(pass', w))
           Closed == {"awaiting-human", "done"}
<1>0. t \in Tasks /\ Seen(t) \in Snapshot
  BY SeenType
<1>1. w \in Worker /\ w.ai \in Nat /\ w.retry \in Nat
  BY <1>0 DEF Snapshot, Worker
<1>2. DOMAIN NoPatch = {}
  BY DEF NoPatch
<1>3. Closed \subseteq Above
  BY DEF Above
<1>4. \A to : to \notin {"initializing", "reviewing"} /\ (Capped => Seen(t).phase \notin Above \/ to \in Above)
        /\ (pass' = Move(t, to) \/ pass' = Consuming(t, Move(t, to)))
        => Good
  <2> SUFFICES ASSUME NEW to, to \notin {"initializing", "reviewing"},
                      Capped => Seen(t).phase \notin Above \/ to \in Above,
                      pass' = Move(t, to) \/ pass' = Consuming(t, Move(t, to))
               PROVE  Good
    OBVIOUS
  <2>1. /\ pass'.task = t /\ pass'.to = to
        /\ pass'.patch = NoPatch /\ pass'.create = NoRun
    <3>1. CASE pass' = Move(t, to)
      BY <3>1 DEF Move
    <3>2. CASE pass' = Consuming(t, Move(t, to))
      BY <3>2 DEF Move, Consuming
    <3> QED
      BY <3>1, <3>2
  <2> QED
    BY <2>1, <1>1, <1>2, <1>3, PlainFacts
<1>5. ASSUME NEW to, to \notin {"initializing", "reviewing"},
             Capped => Seen(t).phase \notin Above \/ to \in Above,
             NEW q, "run" \notin DOMAIN q, "ai" \notin DOMAIN q,
             NEW x, x = NoRun \/ x.kind \in {"merge", "remerge"}, NEW y,
             \/ pass' = [Move(t, to) EXCEPT !.patch = q]
             \/ pass' = [[Move(t, to) EXCEPT !.patch = q] EXCEPT !.discard = y]
             \/ pass' = Consuming(t, [Move(t, to) EXCEPT !.patch = q])
             \/ pass' = [Move(t, to) EXCEPT !.patch = q, !.create = x]
             \/ pass' = Consuming(t, [Move(t, to) EXCEPT !.patch = q, !.create = x])
      PROVE  Good
  <2>1. /\ pass'.task = t /\ pass'.to = to
        /\ pass'.patch = q /\ (pass'.create = NoRun \/ pass'.create = x)
    <3>1. CASE pass' = [Move(t, to) EXCEPT !.patch = q]
      BY <3>1 DEF Move
    <3>2. CASE pass' = [[Move(t, to) EXCEPT !.patch = q] EXCEPT !.discard = y]
      BY <3>2 DEF Move
    <3>3. CASE pass' = Consuming(t, [Move(t, to) EXCEPT !.patch = q])
      BY <3>3 DEF Move, Consuming
    <3>4. CASE pass' = [Move(t, to) EXCEPT !.patch = q, !.create = x]
      BY <3>4 DEF Move
    <3>5. CASE pass' = Consuming(t, [Move(t, to) EXCEPT !.patch = q, !.create = x])
      BY <3>5 DEF Move, Consuming
    <3> QED
      BY <1>5, <3>1, <3>2, <3>3, <3>4, <3>5
  <2> QED
    BY <2>1, <1>1, <1>3, <1>5, PlainFacts
<1>6. \A from \in Working \cup {"pending", "scheduled", "rework-requested"} : from \notin Above
  BY DEF Working, Above
<1>7. WorkerFailed(t) /\ Seen(t).phase \in Working => Good
  <2> HAVE WorkerFailed(t) /\ Seen(t).phase \in Working
  <2> PICK long \in BOOLEAN :
         pass' = [Move(t, "failed") EXCEPT !.patch = [longFail |-> long]]
    BY DEF WorkerFailed
  <2> QED
    BY <1>5, <1>6
<1>8. pass' = AbandonTask(t) => Good
  BY <1>3, <1>5 DEF AbandonTask
<1>9. pass' = ReworkTask(t) => Good
  <2> DEFINE q == [retry |-> w.retry + 1, ai |-> 0]
  <2> HAVE pass' = ReworkTask(t)
  <2>1. pass' = Consuming(t, [Move(t, "rework-requested") EXCEPT !.patch = q])
    BY DEF ReworkTask
  <2>2. Merge(w, q).run = w.run /\ Merge(w, q).ai = 0
    BY <1>1, MergeFields
  <2> HIDE DEF q
  <2>3. pass'.to = "rework-requested" /\ pass'.patch = q /\ pass'.create = NoRun
    BY <2>1 DEF Move, Consuming
  <2> QED
    BY <2>2, <2>3, SettingsAssumption DEF Names, Rounds
<1>10. CASE DecidePending(t)
  BY <1>4, <1>6, <1>10 DEF DecidePending, In
<1>11. CASE DecideScheduled(t)
  <2> DEFINE x == WorkerRun(t, w)
             q == [run |-> x, retry |-> w.retry, ai |-> w.ai]
  <2>1. pass' = [Move(t, "initializing") EXCEPT !.patch = q, !.create = x]
        /\ Seen(t).phase = "scheduled"
    BY <1>11 DEF DecideScheduled, In
  <2>2. Merge(w, q).run = x /\ Merge(w, q).ai = w.ai
    BY <1>1, MergeFields
  <2>3. x.kind = "worker" /\ x.a = w.ai
    BY DEF WorkerRun
  <2>4. Capped /\ Below => ~(w.ai > MaxAutoReworks)
    BY <2>1, <1>6
  <2> HIDE DEF q, x
  <2>5. pass'.task = t /\ pass'.to = "initializing" /\ pass'.patch = q /\ pass'.create = x
    BY <2>1 DEF Move
  <2>6. x = WorkerRun(t, w)
    BY DEF x
  <2> QED
    BY <2>2, <2>3, <2>4, <2>5, <2>6, <1>1, SettingsAssumption DEF Names, Rounds
<1>12. CASE DecideInitializing(t)
  BY <1>4, <1>6, <1>7, <1>12 DEF DecideInitializing, In, Working
<1>13. CASE DecideRunning(t)
  BY <1>4, <1>6, <1>7, <1>13 DEF DecideRunning, In, Working
<1>14. CASE DecideWaitingForInput(t)
  <2>1. Seen(t).phase = "waiting-for-input"
    BY <1>14 DEF DecideWaitingForInput, In
  <2>2. pass' = [Move(t, "running") EXCEPT !.clear = {"answer"}] => Good
    <3> HAVE pass' = [Move(t, "running") EXCEPT !.clear = {"answer"}]
    <3>1. pass'.task = t /\ pass'.to = "running" /\ pass'.patch = NoPatch /\ pass'.create = NoRun
      BY DEF Move
    <3> QED
      BY <3>1, <2>1, <1>1, <1>2, <1>3, <1>6, PlainFacts DEF Working
  <2>3. \/ pass' = Move(t, "failed") \/ pass' = Move(t, "succeeded")
        \/ pass' = AbandonTask(t) \/ pass' = ReworkTask(t)
        \/ pass' = [Move(t, "running") EXCEPT !.clear = {"answer"}]
    BY <1>14 DEF DecideWaitingForInput
  <2>4. pass' = Move(t, "failed") \/ pass' = Move(t, "succeeded") => Good
    BY <2>1, <1>4, <1>6 DEF Working
  <2> QED
    BY <2>2, <2>3, <2>4, <1>8, <1>9
<1>15. CASE DecideSucceeded(t)
  <2> DEFINE x == ReviewRun(t, w)
             q == [review |-> x]
  <2>1. Seen(t).phase = "succeeded"
    BY <1>15 DEF DecideSucceeded, In
  <2>2. w.run # NoRun /\ pass' = [Move(t, "reviewing") EXCEPT !.patch = q, !.create = x] => Good
    <3> HAVE w.run # NoRun /\ pass' = [Move(t, "reviewing") EXCEPT !.patch = q, !.create = x]
    <3>1. /\ Merge(w, q).run = w.run /\ Merge(w, q).ai = w.ai
          /\ Merge(w, q).review = x
      BY <1>1, MergeFields, ReviewFields
    <3>2. x = ReviewRun(t, w) /\ x.kind = "review"
      BY DEF ReviewRun
    <3>3. Capped /\ Below => ~(w.ai > MaxAutoReworks)
      BY <2>1, <1>6 DEF Working
    <3> HIDE DEF q, x
    <3>4. /\ pass'.task = t /\ pass'.to = "reviewing" /\ pass'.patch = q /\ pass'.create = x
          /\ pass'.from = Seen(t).phase
      BY DEF Move
    <3> QED
      BY <2>1, <3>1, <3>2, <3>3, <3>4 DEF Names, Rounds
  <2>3. pass' = Move(t, "done") \/ pass' = Move(t, "awaiting-human") => Good
    BY <2>1, <1>4, <1>6 DEF Working
  <2> QED
    BY <2>2, <2>3, <1>15 DEF DecideSucceeded
<1>16. CASE DecideReviewing(t)
  <2> DEFINE q == [ai |-> w.ai + 1]
  <2>1. Seen(t).phase = "reviewing"
    BY <1>16 DEF DecideReviewing, In
  <2>2. ASSUME NEW to \in {"awaiting-human", "rework-requested"},
               pass' = [Move(t, to) EXCEPT !.patch = q],
               to = "rework-requested" => ~CeilingReached(w)
        PROVE  Good
    <3>1. Merge(w, q).run = w.run /\ Merge(w, q).ai = w.ai + 1
      BY <1>1, MergeFields
    <3>2. to = "rework-requested" => ~(w.ai + 1 > MaxAutoReworks)
      BY <2>2 DEF CeilingReached
    <3> HIDE DEF q
    <3>3. pass'.task = t /\ pass'.to = to /\ pass'.patch = q /\ pass'.create = NoRun
      BY <2>2 DEF Move
    <3> QED
      BY <3>1, <3>2, <3>3, <1>3 DEF Names, Rounds
  <2>3. pass' = Move(t, "awaiting-human") => Good
    BY <1>3, <1>4
  <2>4. \/ pass' = Move(t, "awaiting-human")
        \/ pass' = [Move(t, "awaiting-human") EXCEPT !.patch = q]
        \/ pass' = [Move(t, "rework-requested") EXCEPT !.patch = q] /\ ~CeilingReached(w)
    BY <1>16 DEF DecideReviewing
  <2> QED
    BY <2>2, <2>3, <2>4
<1>17. CASE DecideAwaitingHuman(t)
  <2> DEFINE x == MergeRun(t, w)
             q == [merge |-> x]
  <2>1. x.kind = "merge" /\ DOMAIN q = {"merge"}
    BY DEF MergeRun
  <2>2. Capped /\ MergesOnApprove => "awaiting-merge" \in Above
    BY DEF Above, Capped
  <2>3. MergesOnApprove
          /\ pass' = Consuming(t, [Move(t, "awaiting-merge") EXCEPT !.patch = q, !.create = x])
        => Good
    <3> HIDE DEF q, x
    <3> QED
      BY <2>1, <2>2, <1>5
  <2>4. pass' = Consuming(t, Move(t, "done")) => Good
    BY <1>3, <1>4
  <2>5. \/ pass' = AbandonTask(t) \/ pass' = ReworkTask(t)
        \/ pass' = Consuming(t, Move(t, "done"))
        \/ /\ MergesOnApprove
           /\ pass' = Consuming(t, [Move(t, "awaiting-merge") EXCEPT !.patch = q, !.create = x])
    BY <1>17 DEF DecideAwaitingHuman
  <2> QED
    BY <2>3, <2>4, <2>5, <1>8, <1>9
<1>18. CASE DecideAwaitingMerge(t)
  <2> DEFINE x == RemergeRun(t, w)
             remerge == [merge |-> x]
             failure == [mergeError |-> TRUE]
             success == [merged |-> TRUE]
  <2>1. Seen(t).phase = "awaiting-merge"
    BY <1>18 DEF DecideAwaitingMerge, In
  <2>2. \A to \in {"awaiting-merge", "failed", "awaiting-human", "done"} :
          Seen(t).phase \notin Above \/ to \in Above
    BY <2>1 DEF Above
  <2>3. /\ x.kind = "remerge" /\ DOMAIN remerge = {"merge"}
        /\ DOMAIN failure = {"mergeError"} /\ DOMAIN success = {"merged"}
    BY DEF RemergeRun
  <2>4. \/ pass' = [Move(t, "awaiting-merge") EXCEPT !.patch = remerge, !.create = x]
        \/ pass' = [Move(t, "failed") EXCEPT !.patch = failure]
        \/ pass' = [[Move(t, "failed") EXCEPT !.patch = failure] EXCEPT !.discard = w.merge]
        \/ pass' = [Move(t, "awaiting-human") EXCEPT !.patch = failure]
        \/ pass' = [Move(t, "done") EXCEPT !.patch = success]
    BY <1>18 DEF DecideAwaitingMerge
  <2> HIDE DEF x, remerge, failure, success
  <2> QED
    BY <2>2, <2>3, <2>4, <1>5
<1>19. CASE DecideReworkRequested(t)
  BY <1>4, <1>6, <1>19 DEF DecideReworkRequested, In
<1>20. CASE DecideFailed(t)
  <2> DEFINE q == [merge |-> NoRun, mergeError |-> FALSE]
             next == [retry |-> w.retry + 1]
  <2>1. Seen(t).phase = "failed"
    BY <1>20 DEF DecideFailed, In
  <2>2. /\ Seen(t).phase \notin Above \/ "awaiting-merge" \in Above
        /\ RetryEnabled => Seen(t).phase \notin Above
    BY <2>1 DEF Above
  <2>3. DOMAIN q = {"merge", "mergeError"} /\ DOMAIN next = {"retry"}
    OBVIOUS
  <2>4. \/ pass' = Consuming(t, [Move(t, "awaiting-merge") EXCEPT !.patch = q])
        \/ pass' = Consuming(t, Move(t, "awaiting-human"))
        \/ RetryEnabled /\ pass' = [Move(t, "pending") EXCEPT !.patch = next]
    BY <1>20 DEF DecideFailed, RetryTask
  <2> HIDE DEF q, next
  <2>5. pass' = Consuming(t, [Move(t, "awaiting-merge") EXCEPT !.patch = q]) => Good
    BY <2>2, <2>3, <1>5
  <2>6. pass' = Consuming(t, Move(t, "awaiting-human")) => Good
    BY <1>3, <1>4
  <2>7. RetryEnabled /\ pass' = [Move(t, "pending") EXCEPT !.patch = next] => Good
    BY <2>2, <2>3, <1>5
  <2> QED
    BY <2>4, <2>5, <2>6, <2>7
<1> QED
  BY <1>10, <1>11, <1>12, <1>13, <1>14, <1>15, <1>16, <1>17, <1>18, <1>19, <1>20 DEF Decide

-----------------------------------------------------------------------------
(* The invariants are inductive. *)

Rests == TypeOK /\ DecisionsCurrent /\ ReviewNames /\ ReviewRounds

\* Nothing is named and nothing is counted at first.
LEMMA InitReviews == Init => ReviewNames /\ ReviewRounds
<1> SUFFICES ASSUME Init PROVE ReviewNames /\ ReviewRounds
  OBVIOUS
<1>1. \A t \in Tasks : phase[t] \in {"idea", "pending"} /\ worker[t].ai = 0
  BY DEF Init, NewWorker
<1>2. pass = NoPass /\ DOMAIN runs = {}
  BY DEF Init
<1>3. ReviewNames
  BY <1>1, <1>2
  DEF ReviewNames, WorkIsOfAttempt, ReviewIsOfAttempt, ReviewsAreOfTheirAttempts, PassNames,
      Working
<1>4. ReviewRounds
  BY <1>1, <1>2, SettingsAssumption
  DEF ReviewRounds, CountsWithinCeiling, PassRounds, ReworksWithinCeiling
<1> QED
  BY <1>3, <1>4

\* A decision takes the invariants over from the list, which is current.
LEMMA VisitReviews ==
  ASSUME Rests, NEW t \in Tasks, Visit(t)
  PROVE  PassNames' /\ PassRounds'
<1>1. cycle # NoCycle /\ t \in cycle.todo /\ Decide(t) /\ UNCHANGED <<phase, worker>>
  BY DEF Visit, Turn, task
<1>2. Seen(t).phase = phase[t] /\ Seen(t).worker = worker[t]
  BY <1>1 DEF Rests, DecisionsCurrent, ListCurrent
<1>3. Capped /\ Seen(t).worker.ai > MaxAutoReworks => Seen(t).phase \in Above
  BY <1>2 DEF Rests, ReviewRounds, CountsWithinCeiling
<1>4. Names(pass', worker[t]) /\ Rounds(pass', worker[t])
  BY <1>1, <1>2, <1>3, DecideNames DEF Rests
<1>5. pass'.task = t
  BY <1>1, DecideSound DEF Rests, Sound
<1> QED
  BY <1>1, <1>4, <1>5 DEF PassNames, PassRounds

\* From which phases a task comes to work or review.
LEMMA WorkTable ==
  ASSUME NEW from \in TaskPhase, NEW to \in Working, to # "initializing",
         IsValidTransition(from, to)
  PROVE  from \in Working
BY DEF IsValidTransition, TRANSITION_TABLE, TaskPhase, Working

\* A status write gives its task the names and the count that its pass says.
LEMMA WrittenReviews ==
  ASSUME Rests, WriteStatus
  PROVE  WorkIsOfAttempt' /\ ReviewIsOfAttempt' /\ CountsWithinCeiling'
<1> DEFINE t == pass.task
           w == worker[t]
           m == Merge(w, pass.patch)
<1>1. /\ t \in Tasks /\ w \in Worker /\ m \in Worker
      /\ phase[t] = pass.from /\ phase'[t] = pass.to /\ worker'[t] = m
      /\ \A u \in Tasks \ {t} : phase'[u] = phase[u] /\ worker'[u] = worker[u]
      /\ pass.from \in TaskPhase \ {"idea"} /\ pass.to \in TaskPhase
      /\ Prescribes(pass, w)
      /\ pass.to # pass.from => IsValidTransition(pass.from, pass.to)
  BY WriteFacts DEF Rests
<1>2. Names(pass, w) /\ Rounds(pass, w)
  BY DEF WriteStatus, InStage, Rests, ReviewNames, ReviewRounds, PassNames, PassRounds
<1> HIDE DEF t, w, m
<1>3. /\ m.run = IF pass.to = "initializing" THEN WorkerRun(t, w) ELSE w.run
      /\ pass.to = "reviewing" => m.review = ReviewRun(t, w)
      /\ Capped /\ m.ai > MaxAutoReworks => pass.to \in Above
  BY <1>2 DEF Names, Rounds, m, t
<1>4. pass.to \in Working => m.retry = w.retry /\ m.ai = w.ai
  <2>1. AttemptOf(m) # AttemptOf(w)
          => pass.to \in {"pending", "rework-requested", "awaiting-human"}
    BY <1>1 DEF Prescribes, m
  <2> QED
    BY <2>1 DEF AttemptOf, Working
<1>5. pass.to \in Working => m.run = WorkerRun(t, m)
  <2> SUFFICES ASSUME pass.to \in Working PROVE m.run = WorkerRun(t, m)
    OBVIOUS
  <2>1. CASE pass.to = "initializing"
    BY <2>1, <1>3, <1>4 DEF WorkerRun
  <2>2. CASE pass.to # "initializing"
    <3>1. phase[t] \in Working
      BY <2>2, <1>1, WorkTable
    <3>2. w.run = WorkerRun(t, w)
      BY <1>1, <3>1 DEF Rests, ReviewNames, WorkIsOfAttempt, w
    <3> QED
      BY <2>2, <3>2, <1>3, <1>4 DEF WorkerRun
  <2> QED
    BY <2>1, <2>2
<1>6. pass.to = "reviewing" => m.review = ReviewRun(t, m)
  BY <1>3, <1>4 DEF ReviewRun, Working
<1>7. \A u \in Tasks \ {t} :
        /\ phase[u] \in Working => worker[u].run = WorkerRun(u, worker[u])
        /\ phase[u] = "reviewing" => worker[u].review = ReviewRun(u, worker[u])
        /\ Capped /\ worker[u].ai > MaxAutoReworks => phase[u] \in Above
  BY DEF Rests, ReviewNames, ReviewRounds, WorkIsOfAttempt, ReviewIsOfAttempt,
         CountsWithinCeiling
<1>8. ASSUME NEW u \in Tasks
      PROVE  /\ phase'[u] \in Working => worker'[u].run = WorkerRun(u, worker'[u])
             /\ phase'[u] = "reviewing" => worker'[u].review = ReviewRun(u, worker'[u])
             /\ Capped /\ worker'[u].ai > MaxAutoReworks => phase'[u] \in Above
  <2>1. CASE u = t
    BY <2>1, <1>1, <1>3, <1>5, <1>6
  <2>2. CASE u # t
    BY <2>2, <1>1, <1>7
  <2> QED
    BY <2>1, <2>2
<1> QED
  BY <1>8 DEF WorkIsOfAttempt, ReviewIsOfAttempt, CountsWithinCeiling

\* What every step does to the names and the counts of the tasks.
LEMMA StepTasks ==
  ASSUME Rests, [Next]_vars
  PROVE  WorkIsOfAttempt' /\ ReviewIsOfAttempt' /\ CountsWithinCeiling'
<1>1. WorkIsOfAttempt /\ ReviewIsOfAttempt /\ CountsWithinCeiling
  BY DEF Rests, ReviewNames, ReviewRounds
<1>2. CASE WriteStatus
  BY <1>2, WrittenReviews
<1>3. ASSUME NEW t \in Tasks, Promote(t)
      PROVE  WorkIsOfAttempt' /\ ReviewIsOfAttempt' /\ CountsWithinCeiling'
  <2>1. phase[t] = "idea" /\ phase'[t] = "pending" /\ worker' = worker
        /\ \A u \in Tasks \ {t} : phase'[u] = phase[u]
    BY <1>3 DEF Promote, Rests, TypeOK
  <2>2. phase[t] \notin Above /\ phase'[t] \notin Working /\ phase'[t] # "reviewing"
    BY <2>1 DEF Above, Working
  <2>3. \A u \in Tasks : Capped /\ worker'[u].ai > MaxAutoReworks => phase'[u] \in Above
    BY <2>1, <2>2, <1>1 DEF CountsWithinCeiling
  <2> QED
    BY <2>1, <2>2, <2>3, <1>1 DEF WorkIsOfAttempt, ReviewIsOfAttempt, CountsWithinCeiling
<1>4. CASE UNCHANGED <<phase, worker>>
  BY <1>1, <1>4 DEF WorkIsOfAttempt, ReviewIsOfAttempt, CountsWithinCeiling
<1> QED
  BY <1>2, <1>3, <1>4, StatusSteps

\* The run a pass creates is of the attempt on record, and a worker run is of
\* one within the ceiling.
LEMMA CreatedRun ==
  ASSUME Rests, pass # NoPass, pass.stage = "effects", StillValid, pass.create # NoRun
  PROVE  /\ pass.create.kind = "review"
              => worker[pass.create.task].run
                   = [task |-> pass.create.task, kind |-> "worker",
                      r |-> pass.create.r, a |-> pass.create.a]
         /\ Capped /\ pass.create.kind = "worker" => pass.create.a <= MaxAutoReworks
<1> DEFINE t == pass.task
           w == worker[t]
           x == pass.create
<1>1. Names(pass, w) /\ Rounds(pass, w)
  BY DEF Rests, ReviewNames, ReviewRounds, PassNames, PassRounds
<1>2. Capped /\ x.kind = "worker" => x.a <= MaxAutoReworks
  BY <1>1 DEF Rounds
<1>3. ASSUME x.kind = "review"
      PROVE  worker[x.task].run = [task |-> x.task, kind |-> "worker", r |-> x.r, a |-> x.a]
  <2>1. x = ReviewRun(t, w) /\ pass.from = "succeeded"
    BY <1>1, <1>3 DEF Names
  <2>2. phase[t] = "succeeded" /\ t \in Tasks
    BY <2>1 DEF StillValid, Rests, TypeOK, Pass
  <2>3. w.run = WorkerRun(t, w)
    BY <2>2 DEF Rests, ReviewNames, WorkIsOfAttempt, Working
  <2>4. x.task = t /\ x.r = w.retry /\ x.a = w.ai
    BY <2>1 DEF ReviewRun
  <2> QED
    BY <2>3, <2>4 DEF WorkerRun
<1> QED
  BY <1>2, <1>3

\* What every step does to the runs.
LEMMA StepRuns ==
  ASSUME Rests, [Next]_vars
  PROVE  ReviewsAreOfTheirAttempts' /\ ReworksWithinCeiling'
<1> USE DEF history, task
<1>1. ReviewsAreOfTheirAttempts /\ ReworksWithinCeiling
  BY DEF Rests, ReviewNames, ReviewRounds
<1>2. DOMAIN runs' \subseteq DOMAIN runs /\ (\A x \in DOMAIN runs' : runs'[x].about = runs[x].about)
        => ReviewsAreOfTheirAttempts' /\ ReworksWithinCeiling'
  BY <1>1 DEF ReviewsAreOfTheirAttempts, ReworksWithinCeiling
<1>3. runs' = runs => ReviewsAreOfTheirAttempts' /\ ReworksWithinCeiling'
  BY <1>2
<1>4. \A x : runs' = Without(x) => ReviewsAreOfTheirAttempts' /\ ReworksWithinCeiling'
  BY <1>2 DEF Without
<1>5. CASE RunEffects
  <2> DEFINE x == pass.create
  <2>1. CASE x # NoRun /\ runs' = With(x)
    <3>1. DOMAIN runs' = DOMAIN runs \cup {x}
          /\ \A y \in DOMAIN runs' :
               runs'[y].about = IF y = x THEN worker[x.task].run ELSE runs[y].about
      BY <2>1 DEF With
    <3>2. /\ x.kind = "review" => worker[x.task].run
                = [task |-> x.task, kind |-> "worker", r |-> x.r, a |-> x.a]
          /\ Capped /\ x.kind = "worker" => x.a <= MaxAutoReworks
      BY <1>5, <2>1, CreatedRun DEF RunEffects, InStage
    <3>3. ReviewsAreOfTheirAttempts'
      BY <3>1, <3>2, <1>1 DEF ReviewsAreOfTheirAttempts
    <3>4. ReworksWithinCeiling'
      BY <3>1, <3>2, <1>1 DEF ReworksWithinCeiling, Capped
    <3> QED
      BY <3>3, <3>4
  <2> QED
    BY <2>1, <1>3, <1>4, <1>5 DEF RunEffects
<1>6. CASE FailReplacing
  BY <1>4, <1>6 DEF FailReplacing
<1>7. ASSUME NEW x \in DOMAIN runs, RunSteps(x)
      PROVE  ReviewsAreOfTheirAttempts' /\ ReworksWithinCeiling'
  <2>1. CASE RunDeleted(x)
    BY <2>1, <1>4 DEF RunDeleted
  <2>2. ASSUME NEW from, NEW to, NEW v, RunTurns(x, from, to, v)
        PROVE  ReviewsAreOfTheirAttempts' /\ ReworksWithinCeiling'
    <3>1. DOMAIN runs' = DOMAIN runs
      BY <2>2 DEF RunTurns
    <3>2. runs[x] \in Run
      BY DEF Rests, TypeOK
    <3>3. \A y \in DOMAIN runs' : runs'[y].about = runs[y].about
      BY <2>2, <3>2 DEF RunTurns, Run
    <3> QED
      BY <3>1, <3>3, <1>2
  <2> QED
    BY <2>1, <2>2, <1>7 DEF RunSteps, RunStarts, RunParks, RunResumes, RunStalls,
                            RunSucceeds, RunFails, RunOverwritten
<1>8. RunEffects \/ FailReplacing \/ (\E x \in DOMAIN runs : RunSteps(x)) \/ runs' = runs
  BY DEF Next, Manager, Environment, StartCycle, EndCycle, Visit, PassOver, WriteStatus,
         PatchStatus, PatchUnanswered, ClearTaskAnnotations, Abort, ManagerCrash, Human,
         Approve, RequestChanges, Abandon, Answer, Annotate, Promote, BackoffElapses, vars
<1> QED
  BY <1>3, <1>5, <1>6, <1>7, <1>8

\* What every step does to the decision being carried out.
LEMMA StepPass ==
  ASSUME Rests, [Next]_vars
  PROVE  PassNames' /\ PassRounds'
<1> USE DEF history, task
<1>1. PassNames /\ PassRounds
  BY DEF Rests, ReviewNames, ReviewRounds
<1>2. pass' = NoPass \/ pass'.stage = "clear" => PassNames' /\ PassRounds'
  BY DEF PassNames, PassRounds
<1>3. UNCHANGED <<worker, pass>> => PassNames' /\ PassRounds'
  BY <1>1 DEF PassNames, PassRounds
<1>4. CASE RunEffects
  <2>1. pass \in Pass(pass.patch) /\ pass # NoPass /\ pass.stage = "effects"
        /\ worker' = worker /\ pass' = [pass EXCEPT !.stage = "patch"]
    BY <1>4 DEF RunEffects, InStage, Rests, TypeOK
  <2>2. /\ pass'.task = pass.task /\ pass'.from = pass.from /\ pass'.to = pass.to
        /\ pass'.patch = pass.patch /\ pass'.create = pass.create
    BY <2>1 DEF Pass
  <2>3. Names(pass, worker[pass.task]) /\ Rounds(pass, worker[pass.task])
    BY <2>1, <1>1 DEF PassNames, PassRounds
  <2>4. Names(pass', worker[pass.task]) /\ Rounds(pass', worker[pass.task])
    BY <2>2, <2>3 DEF Names, Rounds
  <2> QED
    BY <2>1, <2>2, <2>4 DEF PassNames, PassRounds
<1>5. CASE PatchStatus
  <2>1. pass \in Pass(pass.patch)
    BY <1>5 DEF PatchStatus, WriteStatus, InStage, Rests, TypeOK
  <2> QED
    BY <2>1, <1>2, <1>5 DEF PatchStatus, Pass
<1>6. ASSUME NEW t \in Tasks, Visit(t)
      PROVE  PassNames' /\ PassRounds'
  BY <1>6, VisitReviews
<1>7. \/ pass' = NoPass \/ UNCHANGED <<worker, pass>>
      \/ RunEffects \/ PatchStatus \/ \E t \in Tasks : Visit(t)
  <2>1. CASE Manager
    BY <2>1 DEF Manager, StartCycle, EndCycle, PassOver, FailReplacing, PatchUnanswered,
                ClearTaskAnnotations, Abort, ManagerCrash
  <2>2. CASE Environment
    BY <2>2 DEF Environment, Human, Approve, RequestChanges, Abandon, Answer, Annotate,
                Promote, BackoffElapses, RunSteps, RunStarts, RunParks, RunResumes,
                RunStalls, RunSucceeds, RunFails, RunOverwritten, RunDeleted, RunTurns
  <2>3. CASE UNCHANGED vars
    BY <2>3 DEF vars
  <2> QED
    BY <2>1, <2>2, <2>3 DEF Next
<1> QED
  BY <1>2, <1>3, <1>4, <1>5, <1>6, <1>7

-----------------------------------------------------------------------------
(* The theorems. *)

\* The invariants together.
LEMMA ReviewsInductive == Spec => []Rests
<1>1. Init => Rests
  BY InitType, InitDecisions, InitReviews DEF Rests
<1>2. Rests /\ [Next]_vars => Rests'
  <2> SUFFICES ASSUME Rests, [Next]_vars PROVE Rests'
    OBVIOUS
  <2>1. TypeOK' /\ DecisionsCurrent'
    BY StepType, StepDecisions DEF Rests, DecisionsCurrent, PassCurrent
  <2> QED
    BY <2>1, StepTasks, StepRuns, StepPass DEF Rests, ReviewNames, ReviewRounds
<1> QED
  BY <1>1, <1>2, PTL DEF Spec

\* The verdict that a task in review is decided by is about the worker run it
\* has on record, though review runs are adopted by name and never replaced.
THEOREM ReviewsCurrent == Spec => []ReviewIsOfCurrentWork
<1>1. Rests => ReviewIsOfCurrentWork
  <2> SUFFICES ASSUME Rests, NEW t \in Tasks, phase[t] = "reviewing",
                      worker[t].review \in DOMAIN runs
               PROVE  runs[worker[t].review].about = worker[t].run
    BY DEF ReviewIsOfCurrentWork
  <2> DEFINE x == worker[t].review
  <2>1. x = ReviewRun(t, worker[t]) /\ worker[t].run = WorkerRun(t, worker[t])
    BY DEF Rests, ReviewNames, ReviewIsOfAttempt, WorkIsOfAttempt, Working
  <2>2. /\ x.kind = "review" /\ x.task = t
        /\ x.r = worker[t].retry /\ x.a = worker[t].ai
    BY <2>1 DEF ReviewRun
  <2>3. runs[x].about = [task |-> x.task, kind |-> "worker", r |-> x.r, a |-> x.a]
    BY <2>2 DEF Rests, ReviewNames, ReviewsAreOfTheirAttempts
  <2> QED
    BY <2>1, <2>2, <2>3 DEF WorkerRun
<1> QED
  BY <1>1, ReviewsInductive, PTL

\* The reviewer sends a task back maxAutoReworks times and no more before a
\* human has looked at it.
THEOREM CeilingKept == Spec => []ReworksWithinCeiling
<1>1. Rests => ReworksWithinCeiling
  BY DEF Rests, ReviewRounds
<1> QED
  BY <1>1, ReviewsInductive, PTL

=============================================================================
