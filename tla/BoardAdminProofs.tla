-------------------------- MODULE BoardAdminProofs --------------------------
(***************************************************************************)
(* Proofs about BoardAdmin, for the tools that take a task out of a phase  *)
(* with a new attempt: dragging it on the board, beatctl's retry, repeating *)
(* a review and force_retry.  However often they are used, whatever the    *)
(* reconciler is at, a verdict is about the work on record and a task put  *)
(* back launches a run it has not had.                                     *)
(*                                                                         *)
(* The other three write a phase and leave the counters: with them a task  *)
(* comes back under the names of its last attempt.                         *)
(***************************************************************************)
EXTENDS BoardAdmin, BuildTaskReviewProofs

Renewing == {"move", "retry", "retry-review", "force_retry"}

RenewingOnly == \A d \in Directly \cup Repeatedly : d[1] \in Renewing

-----------------------------------------------------------------------------
(* The inductive invariant. *)

Before(a, b) == Lifecycle!Before(a, b)

\* To which phase the tools write.
Targets(does) ==
  CASE does = "move" -> {"pending", "idea"}
    [] does = "retry" -> {"pending", "awaiting-human"}
    [] does = "retry-review" -> {"succeeded"}
    [] does = "force_retry" -> {"running", "pending"}
    [] OTHER -> {"running"}

\* Types.
CallTyped ==
  call # NoCall =>
    /\ call \in [does : Renewing \cup {"create"}, task : Tasks, to : TaskPhase, seen : Worker]
    /\ call.to \in Targets(call.does)
    /\ Calling("create") => call.seen.run \in RunId /\ call.seen.run.kind = "worker"

Typed == TypeOK /\ CallTyped /\ used \in [Tasks -> SUBSET RunId]

\* The phases a task rests in until a new attempt.
Resting == {"awaiting-human", "awaiting-merge", "generating-builds", "awaiting-children",
            "awaiting-feature-merge", "failed", "done"}

\* Where direct writes may take a task from the phase p.
Displaced(p) ==
  {"pending", "idea", "running"}
    \cup (IF p \in Resting THEN {"succeeded"} \cup ({"awaiting-human"} \ {p}) ELSE {})

\* A decision taken from the status w.
Current(p, w) == Names(p, w) /\ Prescribes(p, w)

\* One that is right whatever the status.
Untouching(p) ==
  /\ DOMAIN p.patch \subseteq {"longFail"} /\ p.create = NoRun
  /\ p.to \notin {"initializing", "reviewing", "pending", "rework-requested"}

\* The list may be out of date in tasks that were displaced; a task is back in the
\* phase it was listed in only where the decision does not depend on the rest.
ListNear ==
  cycle # NoCycle =>
    \A t \in cycle.todo \ raced :
      LET p == Seen(t).phase IN
      /\ p # "idea" /\ phase[t] \in {p} \cup Displaced(p)
      /\ phase[t] = p => worker[t] = Seen(t).worker \/ p \in {"pending", "running"}

\* So is the decision being carried out.
PassNear ==
  pass # NoPass /\ pass.stage # "clear" /\ pass.task \notin raced =>
    /\ pass.from # "idea" /\ phase[pass.task] \in {pass.from} \cup Displaced(pass.from)
    /\ phase[pass.task] = pass.from => Current(pass, worker[pass.task])
    /\ pass.from \in {"pending", "running"} => Untouching(pass)

PassInCycle ==
  pass # NoPass =>
    /\ cycle # NoCycle /\ pass.task \notin cycle.todo
    /\ pass.create # NoRun /\ pass.create.kind = "review"
         => pass.create.task = pass.task /\ pass.from = "succeeded"
    /\ pass.stage = "patch" /\ pass.to # pass.from => IsValidTransition(pass.from, pass.to)

Near == ListNear /\ PassInCycle /\ PassNear

\* The phases before the launch of the run that the counters name.
ToLaunch == {"pending", "scheduled", "rework-requested"}

ReviewsOf(t) == {x \in DOMAIN runs : x.kind = "review" /\ x.task = t}

\* There is no review of an attempt to come.  That of this attempt is about
\* the run on record, which a launch to come replaces by the same.
ReviewsNear(t) ==
  /\ \A x \in ReviewsOf(t) :
       /\ runs[x].about # NoRun
       /\ ~Before(AttemptOf(worker[t]), <<x.r, x.a>>)
       /\ <<x.r, x.a>> = AttemptOf(worker[t]) =>
            /\ runs[x].about = worker[t].run
            /\ phase[t] \in ToLaunch => runs[x].about = WorkerRun(t, worker[t])
  /\ phase[t] = "reviewing" => worker[t].review = ReviewRun(t, worker[t])

\* The run on record, where the task works, and the review have the counters.
Named(t) ==
  /\ phase[t] \in Working => worker[t].run = WorkerRun(t, worker[t])
  /\ \A x \in ReviewsOf(t) :
       <<x.r, x.a>> = AttemptOf(worker[t]) => runs[x].about = WorkerRun(t, worker[t])

\* What a call has read is an attempt the task has had; if it still has it, a
\* task to be reviewed anew rests.
CallNear ==
  LET t == call.task IN
  call # NoCall /\ t \notin raced =>
    /\ ~Before(AttemptOf(worker[t]), AttemptOf(call.seen))
    /\ call.to \in {"awaiting-human", "succeeded"} /\ AttemptOf(worker[t]) = AttemptOf(call.seen)
         => phase[t] \in Resting
    /\ Calling("create") => Named(t)

\* The runs a task had when it was put back are of earlier attempts.
UsedNear(t) ==
  /\ ~Before(AttemptOf(worker[t]), LaunchedOf(worker[t]))
  /\ \A x \in used[t] : Before(<<x.r, x.a>>, AttemptOf(worker[t]))

Settled ==
  Typed /\ Near /\ CallNear /\ \A t \in Tasks \ raced : ReviewsNear(t) /\ UsedNear(t)

-----------------------------------------------------------------------------
(* Decisions. *)

\* The decisions that leave the counters and the names alone.
LEMMA DecideUntouching ==
  ASSUME NEW t, Decide(t)
  PROVE  Seen(t).phase \in {"pending", "running"} => Untouching(pass')
<1>1. \A to : Move(t, to).to = to /\ Move(t, to).patch = NoPatch /\ Move(t, to).create = NoRun
  BY DEF Move
<1>2. DOMAIN NoPatch = {}
  BY DEF NoPatch
<1>3. CASE Seen(t).phase = "pending"
  <2>1. pass' = Move(t, "scheduled")
    BY <1>3 DEF Decide, DecidePending, DecideScheduled, DecideInitializing, DecideRunning,
         DecideWaitingForInput, DecideSucceeded, DecideReviewing, DecideAwaitingHuman,
         DecideAwaitingMerge, DecideReworkRequested, DecideFailed, In
  <2> QED
    BY <2>1, <1>1, <1>2, <1>3 DEF Untouching
<1>4. CASE Seen(t).phase = "running"
  <2>1. DecideRunning(t)
    BY <1>4 DEF Decide, DecidePending, DecideScheduled, DecideInitializing,
         DecideWaitingForInput, DecideSucceeded, DecideReviewing, DecideAwaitingHuman,
         DecideAwaitingMerge, DecideReworkRequested, DecideFailed, In
  <2>2. \E to \in {"failed", "succeeded", "waiting-for-input"} :
          pass' = Move(t, to) \/ \E long : pass' = [Move(t, to) EXCEPT !.patch = [longFail |-> long]]
    BY <2>1 DEF DecideRunning, WorkerFailed
  <2>3. PICK to \in {"failed", "succeeded", "waiting-for-input"} :
          pass' = Move(t, to) \/ \E long : pass' = [Move(t, to) EXCEPT !.patch = [longFail |-> long]]
    BY <2>2
  <2>4. pass'.to = to /\ pass'.create = NoRun /\ DOMAIN pass'.patch \subseteq {"longFail"}
    <3>1. CASE pass' = Move(t, to)
      BY <3>1, <1>1, <1>2
    <3>2. ASSUME NEW long, pass' = [Move(t, to) EXCEPT !.patch = [longFail |-> long]]
          PROVE  pass'.to = to /\ pass'.create = NoRun /\ DOMAIN pass'.patch \subseteq {"longFail"}
      BY <3>2 DEF Move
    <3> QED
      BY <2>3, <3>1, <3>2
  <2> QED
    BY <2>3, <2>4, <1>4 DEF Untouching
<1> QED
  BY <1>3, <1>4

\* They are right for every status.
LEMMA UntouchingCurrent ==
  ASSUME NEW p, Untouching(p), p.from \in {"pending", "running"}, NEW w \in Worker
  PROVE  Current(p, w)
<1> DEFINE m == Merge(w, p.patch)
<1>1. m.retry = w.retry /\ m.ai = w.ai /\ m.run = w.run
  BY MergeFields DEF Untouching
<1>2. AttemptOf(m) = AttemptOf(w) /\ LaunchedOf(m) = LaunchedOf(w)
  BY <1>1 DEF AttemptOf, LaunchedOf
<1>3. Names(p, w)
  BY <1>1 DEF Names, Untouching
<1> HIDE DEF m
<1>4. Prescribes(p, w)
  BY <1>2 DEF Prescribes, Untouching, m
<1> QED
  BY <1>3, <1>4 DEF Current

\* A decision from a list that may be out of date.
LEMMA DecideNear ==
  ASSUME Typed, ListNear, cycle # NoCycle, NEW t \in cycle.todo, Decide(t)
  PROVE  /\ pass'.task = t /\ pass'.stage = "effects" /\ pass'.from = Seen(t).phase
         /\ pass'.create # NoRun /\ pass'.create.kind = "review"
              => pass'.create.task = t /\ pass'.from = "succeeded"
         /\ t \notin raced =>
              /\ pass'.from # "idea" /\ phase[t] \in {pass'.from} \cup Displaced(pass'.from)
              /\ phase[t] = pass'.from => Current(pass', worker[t])
              /\ pass'.from \in {"pending", "running"} => Untouching(pass')
<1> DEFINE w == Seen(t).worker
<1>1. Sound(t, pass') /\ Names(pass', w)
  BY DecideSound, DecideNames DEF Typed
<1>2. /\ pass'.task = t /\ pass'.stage = "effects" /\ pass'.from = Seen(t).phase
      /\ Prescribes(pass', w)
  BY <1>1 DEF Sound
<1>3. pass'.from \in {"pending", "running"} => Untouching(pass')
  BY <1>2, DecideUntouching
<1>4. pass'.create # NoRun /\ pass'.create.kind = "review"
        => pass'.create.task = t /\ pass'.from = "succeeded"
  BY <1>1, <1>2 DEF Names, ReviewRun
<1>5. Current(pass', w)
  BY <1>1, <1>2 DEF Current
<1>6. t \in Tasks /\ worker[t] \in Worker
  BY SeenType DEF Typed, TypeOK
<1> HIDE DEF w
<1>7. ASSUME t \notin raced
      PROVE  /\ pass'.from # "idea" /\ phase[t] \in {pass'.from} \cup Displaced(pass'.from)
             /\ phase[t] = pass'.from => Current(pass', worker[t])
  <2>1. /\ pass'.from # "idea" /\ phase[t] \in {pass'.from} \cup Displaced(pass'.from)
        /\ phase[t] = pass'.from => worker[t] = w \/ pass'.from \in {"pending", "running"}
    BY <1>2, <1>7 DEF ListNear, w
  <2> QED
    BY <2>1, <1>3, <1>5, <1>6, UntouchingCurrent
<1> QED
  BY <1>2, <1>3, <1>4, <1>7

-----------------------------------------------------------------------------
(* Direct writes. *)

\* A patch whose fields are those of a worker status.
LEMMA PatchFrom ==
  ASSUME NEW p, DOMAIN p \subseteq DOMAIN NewWorker, NEW v \in Worker,
         \A f \in DOMAIN p : p[f] = v[f]
  PROVE  PatchOK(p)
<1> DEFINE n == Merge(NewWorker, p)
<1>1. /\ DOMAIN NewWorker = {"retry", "ai", "run", "review", "merge",
                             "mergeError", "merged", "abandoned", "longFail"}
      /\ NewWorker \in Worker
  BY Fields DEF NewWorker
<1>2. \A f \in DOMAIN NewWorker : n[f] = NewWorker[f] \/ n[f] = v[f]
  BY <1>1 DEF Merge
<1>3. n = [retry |-> n.retry, ai |-> n.ai, run |-> n.run, review |-> n.review,
           merge |-> n.merge, mergeError |-> n.mergeError, merged |-> n.merged,
           abandoned |-> n.abandoned, longFail |-> n.longFail]
  BY <1>1 DEF Merge
<1> HIDE DEF n
<1>4. n \in Worker
  BY <1>1, <1>2, <1>3 DEF Worker
<1> QED
  BY <1>4 DEF PatchOK, n

\* A patch of no fields changes nothing.
LEMMA MergeNothing ==
  ASSUME NEW w \in Worker
  PROVE  Merge(w, NoPatch) = w
BY DEF Merge, NoPatch, Worker

\* What the status as read names, and what it does not.
LEMMA SpreadFields ==
  ASSUME NEW v \in Worker
  PROVE  /\ DOMAIN Spread(v) \subseteq DOMAIN NewWorker
         /\ {"retry", "ai"} \subseteq DOMAIN Spread(v)
         /\ "run" \in DOMAIN Spread(v) <=> v.run # NoRun
         /\ \A f \in DOMAIN Spread(v) : Spread(v)[f] = v[f]
<1> DEFINE D == {"retry", "ai"} \cup {g \in {"run", "review", "merge"} : v[g] # NoRun}
                  \cup {g \in {"mergeError", "merged", "abandoned", "longFail"} : v[g]}
<1>1. Spread(v) = [f \in D |-> v[f]]
  BY DEF Spread
<1>2. D \subseteq DOMAIN NewWorker /\ {"retry", "ai"} \subseteq D
  BY DEF NewWorker
<1>3. "run" \in D <=> v.run # NoRun
  OBVIOUS
<1> HIDE DEF D
<1> QED
  BY <1>1, <1>2, <1>3

\* And without the name of the run.
LEMMA UnlaunchedFields ==
  ASSUME NEW v \in Worker
  PROVE  /\ DOMAIN Unlaunched(v) \subseteq DOMAIN NewWorker
         /\ {"retry", "ai", "run"} \subseteq DOMAIN Unlaunched(v)
         /\ \A f \in DOMAIN Unlaunched(v) :
              Unlaunched(v)[f] = [v EXCEPT !.run = NoRun][f]
<1> DEFINE s == Spread(v)
           D == DOMAIN s \cup {"run"}
<1>1. /\ DOMAIN s \subseteq DOMAIN NewWorker
      /\ {"retry", "ai"} \subseteq DOMAIN s
      /\ \A f \in DOMAIN s : s[f] = v[f]
  BY SpreadFields
<1>2. Unlaunched(v) = [f \in D |-> IF f = "run" THEN NoRun ELSE s[f]]
  BY DEF Unlaunched
<1>3. /\ "run" \in DOMAIN NewWorker /\ DOMAIN v = DOMAIN NewWorker
      /\ v = [f \in DOMAIN v |-> v[f]]
  BY Fields DEF NewWorker, Worker
<1>4. \A f \in DOMAIN v : [v EXCEPT !.run = NoRun][f] = IF f = "run" THEN NoRun ELSE v[f]
  BY <1>3
<1> HIDE DEF s
<1>5. DOMAIN Unlaunched(v) = D /\ D \subseteq DOMAIN NewWorker
  BY <1>1, <1>2, <1>3
<1>6. \A f \in D : Unlaunched(v)[f] = IF f = "run" THEN NoRun ELSE v[f]
  BY <1>1, <1>2
<1>7. {"retry", "ai", "run"} \subseteq D
  BY <1>1
<1> HIDE DEF D
<1>8. \A f \in D : Unlaunched(v)[f] = [v EXCEPT !.run = NoRun][f]
  BY <1>3, <1>4, <1>5, <1>6
<1> QED
  BY <1>5, <1>7, <1>8

\* A status with one count raised is a status.
LEMMA Raised ==
  ASSUME NEW w \in Worker
  PROVE  /\ Again(w) \in Worker /\ Again(w).retry = w.retry + 1
         /\ Again(w).ai = w.ai /\ Again(w).run = w.run
         /\ [w EXCEPT !.ai = @ + 1] \in Worker
         /\ [w EXCEPT !.run = NoRun] \in Worker
BY DEF Again, Worker

\* What a direct write comes to, where the status is as it was read: a new
\* attempt, or no change of the status.
Renewed(c, m) ==
  \/ /\ Before(AttemptOf(c.seen), AttemptOf(m)) /\ c.to \in {"pending", "running", "succeeded"}
     /\ IF c.to = "running" THEN m.run = WorkerRun(c.task, m) ELSE m.run \in {c.seen.run, NoRun}
  \/ m = c.seen /\ c.to \in {"idea", "awaiting-human"}
  \/ m = c.seen /\ c.to = "pending" /\ m.run = NoRun

\* Each tool writes a status, and one of these.
LEMMA DirectFacts ==
  ASSUME CallTyped, call # NoCall, ~Calling("create")
  PROVE  PatchOK(Written(call)) /\ Renewed(call, Merge(call.seen, Written(call)))
<1> DEFINE c == call
           w == call.seen
           Good(p) == PatchOK(p) /\ Renewed(c, Merge(w, p))
<1>1. /\ c.does \in Renewing /\ c.task \in Tasks /\ c.to \in Targets(c.does) /\ w \in Worker
  BY DEF CallTyped, Calling
<1>2. w.retry \in Nat /\ w.ai \in Nat /\ w.run \in NameOrNone
  BY <1>1 DEF Worker, NameOrNone
<1>3. c.to \in {"idea", "awaiting-human"} => Good(NoPatch)
  BY <1>1, MergeNothing, PatchTypes, <1>2 DEF Renewed
<1>4. c.to = "pending" /\ NoWorker(w) => Good(NoPatch)
  <2>1. NoWorker(w) => w.run = NoRun
    BY DEF NoWorker, NewWorker
  <2> QED
    BY <2>1, <1>1, <1>2, MergeNothing, PatchTypes DEF Renewed
<1>5. c.to = "pending" => Good(Spread(Again(w)))
  <2> DEFINE v == Again(w)
             p == Spread(v)
             m == Merge(w, p)
  <2>1. v \in Worker /\ v.retry = w.retry + 1 /\ v.ai = w.ai /\ v.run = w.run
    BY <1>1, Raised
  <2> HIDE DEF v
  <2>2. /\ DOMAIN p \subseteq DOMAIN NewWorker /\ {"retry", "ai"} \subseteq DOMAIN p
        /\ \A f \in DOMAIN p : p[f] = v[f]
    BY <2>1, SpreadFields
  <2>3. PatchOK(p)
    BY <2>1, <2>2, PatchFrom
  <2>4. m.retry = w.retry + 1 /\ m.ai = w.ai /\ m.run = w.run
    BY <1>1, <2>1, <2>2, MergeFields
  <2>5. Before(AttemptOf(w), AttemptOf(m))
    BY <2>4, <1>2 DEF Before, Lifecycle!Before, AttemptOf
  <2> HIDE DEF m
  <2> QED
    BY <2>3, <2>4, <2>5 DEF Renewed, m, v
<1>6. c.to = "succeeded" => Good(ReviewRetried(c))
  <2> DEFINE v == [w EXCEPT !.ai = @ + 1]
             p == Spread(v)
             m == Merge(w, p)
  <2>1. v \in Worker /\ v.retry = w.retry /\ v.ai = w.ai + 1 /\ v.run = w.run
    BY <1>1, Raised DEF Worker
  <2>a. ReviewRetried(c) = p
    BY DEF ReviewRetried
  <2> HIDE DEF v
  <2>2. /\ DOMAIN p \subseteq DOMAIN NewWorker /\ {"retry", "ai"} \subseteq DOMAIN p
        /\ \A f \in DOMAIN p : p[f] = v[f]
    BY <2>1, SpreadFields
  <2>3. PatchOK(p)
    BY <2>1, <2>2, PatchFrom
  <2>4. m.retry = w.retry /\ m.ai = w.ai + 1 /\ m.run = w.run
    BY <1>1, <2>1, <2>2, MergeFields
  <2>5. Before(AttemptOf(w), AttemptOf(m))
    BY <2>4, <1>2 DEF Before, Lifecycle!Before, AttemptOf
  <2> HIDE DEF m
  <2>6. c.to = "succeeded" => Renewed(c, m)
    BY <2>4, <2>5 DEF Renewed
  <2> HIDE DEF p
  <2> QED
    BY <2>3, <2>6, <2>a DEF m
<1>7. c.to = "running" => Good(ForceRetried(c))
  <2> DEFINE v == [Again(w) EXCEPT !.ai = 0]
             p == [run |-> WorkerRun(c.task, v), retry |-> v.retry, ai |-> 0]
             m == Merge(w, p)
  <2>1. v.retry = w.retry + 1 /\ v.ai = 0
    BY <1>1 DEF Worker, Again
  <2>a. c.to = "running" => ForceRetried(c) = p
    BY DEF ForceRetried
  <2>2. WorkerRun(c.task, v) \in RunId
        /\ WorkerRun(c.task, v) = [task |-> c.task, kind |-> "worker", r |-> w.retry + 1, a |-> 0]
    BY <2>1, <1>1, <1>2 DEF WorkerRun, RunId, RunKind
  <2> HIDE DEF v
  <2>b. \A r \in Nat, a \in Nat, x \in NameOrNone : PatchOK([run |-> x, retry |-> r, ai |-> a])
    BY PatchTypes
  <2>c. WorkerRun(c.task, v) \in NameOrNone /\ v.retry \in Nat /\ 0 \in Nat
    BY <2>1, <2>2, <1>2 DEF NameOrNone
  <2>3. PatchOK(p)
    BY <2>b, <2>c
  <2>4. m.retry = w.retry + 1 /\ m.ai = 0 /\ m.run = WorkerRun(c.task, v)
    BY <1>1, <2>1, MergeFields
  <2> HIDE DEF m
  <2>5. m.run = WorkerRun(c.task, m)
    BY <2>2, <2>4 DEF WorkerRun
  <2>6. Before(AttemptOf(w), AttemptOf(m))
    BY <2>4, <1>2 DEF Before, Lifecycle!Before, AttemptOf
  <2>7. c.to = "running" => Renewed(c, m)
    BY <2>5, <2>6 DEF Renewed
  <2> HIDE DEF p
  <2> QED
    BY <2>3, <2>7, <2>a DEF m
<1>8. c.to = "pending" => Good(Unlaunched(Again(w)))
  <2> DEFINE v == Again(w)
             u == [v EXCEPT !.run = NoRun]
             p == Unlaunched(v)
             m == Merge(w, p)
  <2>1. v \in Worker /\ v.retry = w.retry + 1 /\ v.ai = w.ai
    BY <1>1, Raised
  <2> HIDE DEF v
  <2>2. u \in Worker /\ u.retry = v.retry /\ u.ai = v.ai /\ u.run = NoRun
    BY <2>1, Raised DEF Worker
  <2>3. /\ DOMAIN p \subseteq DOMAIN NewWorker /\ {"retry", "ai", "run"} \subseteq DOMAIN p
        /\ \A f \in DOMAIN p : p[f] = u[f]
    BY <2>1, UnlaunchedFields
  <2> HIDE DEF u
  <2>4. PatchOK(p)
    BY <2>2, <2>3, PatchFrom
  <2>5. m.retry = w.retry + 1 /\ m.ai = w.ai /\ m.run = NoRun
    BY <1>1, <2>1, <2>2, <2>3, MergeFields
  <2>6. Before(AttemptOf(w), AttemptOf(m))
    BY <2>5, <1>2 DEF Before, Lifecycle!Before, AttemptOf
  <2> HIDE DEF m
  <2> QED
    BY <2>4, <2>5, <2>6 DEF Renewed, m, v
<1> HIDE DEF Good
<1>9. CASE c.does = "move"
  <2>1. Written(c) = IF c.to = "pending" /\ ~NoWorker(w) THEN Spread(Again(w)) ELSE NoPatch
    BY <1>9 DEF Written, Moved
  <2>2. c.to \in {"pending", "idea"}
    BY <1>1, <1>9 DEF Targets
  <2> QED
    BY <2>1, <2>2, <1>3, <1>4, <1>5 DEF Good
<1>10. CASE c.does = "retry"
  <2>1. Written(c) = IF c.to = "pending" /\ ~NoWorker(w) THEN Spread(Again(w)) ELSE NoPatch
    BY <1>10 DEF Written, Retried
  <2>2. c.to \in {"pending", "awaiting-human"}
    BY <1>1, <1>10 DEF Targets
  <2> QED
    BY <2>1, <2>2, <1>3, <1>4, <1>5 DEF Good
<1>11. CASE c.does = "retry-review"
  BY <1>1, <1>6, <1>11 DEF Written, Targets, Good
<1>12. CASE c.does = "force_retry"
  <2>1. Written(c) = ForceRetried(c)
    BY <1>12 DEF Written
  <2>2. c.to \in {"pending", "running"}
    BY <1>1, <1>12 DEF Targets
  <2>3. c.to = "pending" => ForceRetried(c) = Unlaunched(Again(w))
    BY DEF ForceRetried
  <2> QED
    BY <2>1, <2>2, <2>3, <1>7, <1>8 DEF Good
<1> QED
  BY <1>1, <1>9, <1>10, <1>11, <1>12 DEF Renewing

-----------------------------------------------------------------------------
(* What a step may do to a task. *)

Still(t) == phase'[t] = phase[t] /\ worker'[t] = worker[t]

Patches == PatchStatus \/ PatchUnanswered

ByPass(t) ==
  /\ Patches /\ pass.task = t
  /\ phase[t] = pass.from /\ phase'[t] = pass.to
  /\ worker'[t] = Merge(worker[t], pass.patch) /\ Current(pass, worker[t])
  /\ pass.to # pass.from => IsValidTransition(pass.from, pass.to)

ByCall(t) ==
  /\ Writes /\ call.task = t /\ call.seen = worker[t] /\ phase'[t] = call.to
  /\ Renewed(call, worker'[t]) /\ call.to \in Targets(call.does)

ByFailure(t) ==
  /\ CreateFails /\ call.task = t /\ Calling("create")
  /\ phase'[t] = "pending" /\ worker'[t] = worker[t]

ByPromotion(t) ==
  /\ Promote(t) /\ UNCHANGED admin /\ phase[t] = "idea" /\ phase'[t] = "pending"
  /\ worker'[t] = worker[t] /\ worker[t].run = NoRun

\* The steps that write the status of a task.
LEMMA AdminSteps ==
  ASSUME Typed, [AdminNext]_allvars
  PROVE  \/ [Next]_vars /\ UNCHANGED admin /\ \A t \in Tasks : Promote(t) => NoWorker(worker[t])
         \/ \E t \in Tasks : Reads(t)
         \/ Writes \/ Creates \/ CreateFails
         \/ Fails
<1>1. ~Deletes
  BY DEF Deletes, Calling, Typed, CallTyped, NoCall, Renewing
<1>2. UNCHANGED allvars => UNCHANGED vars /\ UNCHANGED admin
  BY DEF allvars
<1>3. UNCHANGED vars => \A t \in Tasks : ~Promote(t)
  <2> SUFFICES ASSUME UNCHANGED vars, NEW t \in Tasks, Promote(t) PROVE FALSE
    OBVIOUS
  <2>1. phase' = phase /\ phase[t] = "idea" /\ phase' = [phase EXCEPT ![t] = "pending"]
    BY DEF Promote, vars
  <2> QED
    BY <2>1 DEF Typed, TypeOK
<1> QED
  BY <1>1, <1>2, <1>3 DEF AdminNext, Admin, Reconciles

\* What each of them leaves of the status of the other tasks, and makes of
\* that of its own.
LEMMA WritesFacts ==
  ASSUME Typed, Writes
  PROVE  LET t == call.task IN
         /\ t \in Tasks /\ ~Calling("create") /\ UNCHANGED <<runs, cycle>>
         /\ phase' = [phase EXCEPT ![t] = call.to] /\ phase'[t] = call.to
         /\ worker' = [worker EXCEPT ![t] = Merge(worker[t], Written(call))]
         /\ worker'[t] = Merge(worker[t], Written(call)) /\ worker'[t] \in Worker
         /\ \A u \in Tasks \ {t} : phase'[u] = phase[u] /\ worker'[u] = worker[u]
         /\ worker[t] = call.seen \/ t \in raced'
         /\ raced \subseteq raced' /\ raced' \subseteq raced \cup {t}
         /\ worker[t] = call.seen => Renewed(call, worker'[t])
         /\ pass' = pass \/ pass' = NoPass
<1> DEFINE t == call.task
           m == Merge(worker[t], Written(call))
<1>1. call # NoCall /\ ~Calling("create")
  BY DEF Writes
<1>2. t \in Tasks /\ worker[t] \in Worker
  BY <1>1 DEF Typed, CallTyped, TypeOK
<1>3. PatchOK(Written(call)) /\ Renewed(call, Merge(call.seen, Written(call)))
  BY <1>1, DirectFacts DEF Typed
<1>4. m \in Worker
  BY <1>2, <1>3, MergeType
<1>5. /\ phase' = [phase EXCEPT ![t] = call.to]
      /\ worker' = [worker EXCEPT ![t] = Merge(worker[t], Written(call))]
  BY DEF Writes
<1>6. /\ worker[t] = call.seen \/ raced' = raced \cup {t}
      /\ raced' = raced \/ raced' = raced \cup {t}
      /\ UNCHANGED <<runs, cycle>> /\ (pass' = pass \/ pass' = NoPass)
  BY DEF Writes
<1>7. phase'[t] = call.to /\ worker'[t] = m
      /\ \A u \in Tasks \ {t} : phase'[u] = phase[u] /\ worker'[u] = worker[u]
  BY <1>2, <1>5 DEF Typed, TypeOK
<1>8. worker[t] = call.seen => Renewed(call, worker'[t])
  BY <1>3, <1>7
<1> QED
  BY <1>1, <1>2, <1>4, <1>5, <1>6, <1>7, <1>8

\* Only a patch or a promotion of the reconciler's changes a status.
LEMMA PatchSteps ==
  ASSUME [Next]_vars
  PROVE  Patches \/ (\E t \in Tasks : Promote(t)) \/ UNCHANGED <<phase, worker>>
<1> USE DEF history, task
<1>1. CASE Manager
  BY <1>1 DEF Manager, StartCycle, EndCycle, Visit, PassOver, RunEffects, FailReplacing,
              Patches, ClearTaskAnnotations, Abort, ManagerCrash
<1>2. CASE Environment
  BY <1>2 DEF Environment, Human, Approve, RequestChanges, Abandon, Answer, Annotate,
              BackoffElapses, RunSteps, RunStarts, RunParks, RunResumes, RunStalls,
              RunSucceeds, RunFails, RunOverwritten, RunDeleted, RunTurns
<1>3. CASE UNCHANGED vars
  BY <1>3 DEF vars
<1> QED
  BY <1>1, <1>2, <1>3 DEF Next

\* The decision in hand is written to its task as it was taken.
LEMMA WrittenNear ==
  ASSUME Typed, Near, Patches
  PROVE  LET t == pass.task IN
         /\ t \in Tasks /\ worker[t] \in Worker /\ worker'[t] \in Worker
         /\ \A u \in Tasks \ {t} : phase'[u] = phase[u] /\ worker'[u] = worker[u]
         /\ pass.from \in TaskPhase /\ pass.to \in TaskPhase
         /\ t \notin raced => ByPass(t)
<1> DEFINE t == pass.task
<1>0. WriteStatus
  BY DEF Patches, PatchStatus, PatchUnanswered
<1>1. pass # NoPass /\ pass.stage = "patch" /\ pass \in Pass(pass.patch) /\ PatchOK(pass.patch)
  BY <1>0 DEF WriteStatus, InStage, Typed, TypeOK
<1>2. t \in Tasks /\ pass.from \in TaskPhase /\ pass.to \in TaskPhase
  BY <1>1 DEF Pass
<1>3. worker[t] \in Worker
  BY <1>2 DEF Typed, TypeOK
<1>4. Merge(worker[t], pass.patch) \in Worker
  BY <1>1, <1>3, MergeType
<1>5. /\ phase[t] = pass.from /\ phase' = [phase EXCEPT ![t] = pass.to]
      /\ worker' = [worker EXCEPT ![t] = Merge(worker[t], pass.patch)]
  BY <1>0 DEF WriteStatus
<1>6. /\ phase'[t] = pass.to /\ worker'[t] = Merge(worker[t], pass.patch)
      /\ \A u \in Tasks \ {t} : phase'[u] = phase[u] /\ worker'[u] = worker[u]
  BY <1>2, <1>5 DEF Typed, TypeOK
<1>7. t \notin raced => Current(pass, worker[t])
  BY <1>1, <1>5 DEF Near, PassNear
<1>8. pass.to # pass.from => IsValidTransition(pass.from, pass.to)
  BY <1>1 DEF Near, PassInCycle
<1> QED
  BY <1>2, <1>3, <1>4, <1>5, <1>6, <1>7, <1>8 DEF ByPass

\* So a task whose status was never written from an old read changes in one
\* of five ways.
LEMMA Changes ==
  ASSUME Typed, Near, [AdminNext]_allvars, NEW t \in Tasks, t \notin raced'
  PROVE  /\ t \notin raced
         /\ Still(t) \/ ByPass(t) \/ ByCall(t) \/ ByFailure(t) \/ ByPromotion(t)
         /\ ~Still(t) => runs' = runs
<1>1. CASE [Next]_vars /\ UNCHANGED admin /\ \A u \in Tasks : Promote(u) => NoWorker(worker[u])
  <2>1. raced' = raced
    BY <1>1 DEF admin
  <2>2. CASE Patches
    <3>1. runs' = runs
      BY <2>2 DEF Patches, PatchStatus, PatchUnanswered, WriteStatus
    <3>2. CASE t = pass.task
      BY <3>1, <3>2, <2>1, <2>2, WrittenNear
    <3>3. CASE t # pass.task
      BY <3>3, <2>1, <2>2, WrittenNear DEF Still
    <3> QED
      BY <3>2, <3>3
  <2>3. ASSUME NEW u \in Tasks, Promote(u)
        PROVE  (Still(t) \/ ByPromotion(t)) /\ runs' = runs
    <3>1. /\ phase[u] = "idea" /\ phase' = [phase EXCEPT ![u] = "pending"]
          /\ worker' = worker /\ runs' = runs /\ NoWorker(worker[u])
      BY <2>3, <1>1 DEF Promote
    <3>2. worker[u].run = NoRun
      BY <3>1 DEF NoWorker, NewWorker
    <3>3. CASE t = u
      BY <3>1, <3>2, <3>3, <2>3, <1>1 DEF ByPromotion, Typed, TypeOK
    <3>4. CASE t # u
      BY <3>1, <3>4 DEF Still, Typed, TypeOK
    <3> QED
      BY <3>1, <3>3, <3>4
  <2>4. CASE UNCHANGED <<phase, worker>>
    BY <2>1, <2>4 DEF Still
  <2> QED
    BY <1>1, <2>1, <2>2, <2>3, <2>4, PatchSteps
<1>2. ASSUME NEW u \in Tasks, Reads(u)
      PROVE  Still(t) /\ t \notin raced
  BY <1>2 DEF Reads, Still, vars
<1>3. CASE Writes
  <2>1. call.to \in Targets(call.does)
    BY <1>3 DEF Writes, Typed, CallTyped
  <2>2. t \notin raced /\ runs' = runs
    BY <1>3, WritesFacts
  <2>3. CASE t = call.task
    BY <2>1, <2>2, <2>3, <1>3, WritesFacts DEF ByCall
  <2>4. CASE t # call.task
    BY <2>2, <2>4, <1>3, WritesFacts DEF Still
  <2> QED
    BY <2>2, <2>3, <2>4
<1>4. CASE Creates
  BY <1>4 DEF Creates, Still, task
<1>5. CASE CreateFails
  <2>1. /\ phase' = [phase EXCEPT ![call.task] = "pending"] /\ worker' = worker
        /\ raced' = raced /\ Calling("create") /\ runs' = runs
    BY <1>5 DEF CreateFails
  <2>2. CASE t = call.task
    BY <2>1, <2>2, <1>5 DEF ByFailure, Typed, TypeOK
  <2>3. CASE t # call.task
    BY <2>1, <2>3 DEF Still, Typed, TypeOK
  <2> QED
    BY <2>1, <2>2, <2>3
<1>6. CASE Fails
  BY <1>6 DEF Fails, Still, vars
<1> QED
  BY <1>1, <1>2, <1>3, <1>4, <1>5, <1>6, AdminSteps

\* The types hold on.
LEMMA StepTyped ==
  ASSUME RenewingOnly, Typed, Near, [AdminNext]_allvars
  PROVE  Typed'
<1>1. CASE [Next]_vars /\ UNCHANGED admin
  <2>1. TypeOK'
    BY <1>1, StepType DEF Typed, Near, PassInCycle
  <2>2. CallTyped' /\ (used \in [Tasks -> SUBSET RunId])'
    BY <1>1 DEF admin, Typed, CallTyped, Calling
  <2> QED
    BY <2>1, <2>2 DEF Typed
<1>2. ASSUME NEW t \in Tasks, Reads(t)
      PROVE  Typed'
  <2>1. UNCHANGED vars /\ used' = used /\ worker[t] \in Worker
    BY <1>2 DEF Reads, Typed, TypeOK
  <2>2. PICK d \in Directly \cup Repeatedly :
          /\ Sanctioned(d[1], d[2], d[3])
          /\ call' = [does |-> d[1], task |-> t, to |-> d[3], seen |-> worker[t]]
    BY <1>2 DEF Reads
  <2>3. d[1] \in Renewing
    BY DEF RenewingOnly
  <2>4. d[3] \in Targets(d[1]) /\ d[3] \in TaskPhase
    BY <2>2, <2>3 DEF Renewing, Sanctioned, Targets, TaskPhase
  <2>5. CallTyped'
    BY <2>1, <2>2, <2>3, <2>4 DEF CallTyped, Calling, Renewing
  <2>6. TypeOK'
    BY <2>1 DEF vars, Typed, TypeOK
  <2> QED
    BY <2>1, <2>5, <2>6 DEF Typed
<1>3. CASE Writes
  <2> DEFINE t == call.task
  <2>1. /\ t \in Tasks /\ UNCHANGED <<runs, cycle>>
        /\ phase' = [phase EXCEPT ![t] = call.to]
        /\ worker' = [worker EXCEPT ![t] = Merge(worker[t], Written(call))]
        /\ worker'[t] = Merge(worker[t], Written(call)) /\ worker'[t] \in Worker
        /\ pass' = pass \/ pass' = NoPass
    BY <1>3, WritesFacts
  <2>2. /\ call.does \in Renewing /\ call.to \in Targets(call.does) /\ call.seen \in Worker
        /\ call.does # "create"
    BY <1>3 DEF Writes, Typed, CallTyped, Calling
  <2>3. call.to \in TaskPhase
    BY <2>2 DEF Targets, TaskPhase
  <2>4. phase' \in [Tasks -> TaskPhase] /\ worker' \in [Tasks -> Worker]
    BY <2>1, <2>3 DEF Typed, TypeOK
  <2>5. UNCHANGED <<notes, backoff, asked, landed>>
    BY <1>3 DEF Writes, history
  <2>6. TypeOK'
    BY <2>1, <2>4, <2>5 DEF Typed, TypeOK
  <2>7. worker[t].run \in RunId \cup {NoRun}
    BY <2>1 DEF Typed, TypeOK, Worker
  <2>8. (used \in [Tasks -> SUBSET RunId])'
    BY <2>1, <2>7, <1>3 DEF Writes, Typed
  <2>9. CallTyped'
    <3>1. CASE Calling("force_retry") /\ call.to = "running"
      <4> DEFINE v == [Again(call.seen) EXCEPT !.ai = 0]
      <4>1. call' = [call EXCEPT !.does = "create", !.seen = worker'[t]]
        BY <1>3, <3>1 DEF Writes
      <4>a. Written(call) = ForceRetried(call)
        BY <3>1 DEF Written, Calling
      <4>b. ForceRetried(call) = [run |-> WorkerRun(t, v), retry |-> v.retry, ai |-> 0]
        BY <3>1 DEF ForceRetried
      <4>c. v.retry \in Nat /\ v.ai = 0
        BY <2>2 DEF Worker, Again
      <4> HIDE DEF v
      <4>d. worker[t] \in Worker
        BY <2>1 DEF Typed, TypeOK
      <4>2. worker'[t].run = WorkerRun(t, v)
        BY <2>1, <4>a, <4>b, <4>d, MergeFields
      <4>3. worker'[t].run \in RunId /\ worker'[t].run.kind = "worker"
        BY <4>2, <4>c, <2>1 DEF WorkerRun, RunId, RunKind
      <4>e. call \in [does : Renewing \cup {"create"}, task : Tasks, to : TaskPhase, seen : Worker]
        BY <1>3 DEF Writes, Typed, CallTyped
      <4>4. /\ call'.does = "create" /\ call'.task = t /\ call'.to = "running"
            /\ call'.seen = worker'[t]
            /\ call' \in [does : Renewing \cup {"create"}, task : Tasks, to : TaskPhase,
                          seen : Worker]
        BY <4>1, <4>e, <3>1, <2>1
      <4> QED
        BY <2>1, <4>3, <4>4 DEF CallTyped, Targets
    <3>2. CASE ~(Calling("force_retry") /\ call.to = "running")
      BY <3>2, <1>3 DEF Writes, CallTyped
    <3> QED
      BY <3>1, <3>2
  <2> QED
    BY <2>6, <2>8, <2>9 DEF Typed
<1>4. CASE Creates
  <2> DEFINE x == call.seen.run
  <2>1. call # NoCall /\ x \in RunId /\ call' = NoCall /\ used' = used
    BY <1>4 DEF Creates, Calling, Typed, CallTyped, NoCall
  <2>2. runs' = runs \/ runs' = With(x) \/ runs' = Without(x)
    BY <1>4 DEF Creates
  <2>3. DOMAIN runs' \subseteq RunId /\ \A y \in DOMAIN runs' : runs'[y] \in Run
    <3>1. CASE runs' = With(x)
      BY <3>1, <2>1, RunAdded DEF Typed
    <3>2. CASE runs' = Without(x)
      BY <3>2 DEF Without, Typed, TypeOK
    <3>3. CASE runs' = runs
      BY <3>3 DEF Typed, TypeOK
    <3> QED
      BY <2>2, <3>1, <3>2, <3>3
  <2>4. UNCHANGED <<phase, worker, notes, backoff, cycle, pass, asked, landed>>
    BY <1>4 DEF Creates, task, history
  <2>5. TypeOK'
    BY <2>3, <2>4 DEF Typed, TypeOK
  <2> QED
    BY <2>1, <2>5 DEF Typed, CallTyped
<1>5. CASE CreateFails
  <2>1. /\ phase' = [phase EXCEPT ![call.task] = "pending"] /\ call' = NoCall
        /\ pass' = pass \/ pass' = NoPass
        /\ UNCHANGED <<worker, notes, backoff, runs, cycle, asked, landed, used>>
    BY <1>5 DEF CreateFails, history
  <2>2. phase' \in [Tasks -> TaskPhase]
    BY <2>1 DEF Typed, TypeOK, TaskPhase
  <2>3. TypeOK'
    BY <2>1, <2>2 DEF Typed, TypeOK
  <2> QED
    BY <2>1, <2>3 DEF Typed, CallTyped
<1>6. CASE Fails
  <2>1. UNCHANGED vars /\ used' = used /\ call' = NoCall
    BY <1>6 DEF Fails
  <2>2. TypeOK'
    BY <2>1 DEF vars, Typed, TypeOK
  <2> QED
    BY <2>1, <2>2 DEF Typed, CallTyped
<1> QED
  BY <1>1, <1>2, <1>3, <1>4, <1>5, <1>6, AdminSteps

\* Each change leaves the attempt, or starts a later one.  A task at rest stays so
\* within an attempt, unless a call ends.
LEMMA Attempts ==
  ASSUME RenewingOnly, Typed, Near, [AdminNext]_allvars, NEW t \in Tasks, t \notin raced'
  PROVE  /\ worker[t] \in Worker /\ worker'[t] \in Worker
         /\ \/ AttemptOf(worker'[t]) = AttemptOf(worker[t])
            \/ Before(AttemptOf(worker[t]), AttemptOf(worker'[t]))
         /\ phase[t] \in Resting /\ AttemptOf(worker'[t]) = AttemptOf(worker[t])
              => phase'[t] \in Resting \/ ByCall(t) \/ ByFailure(t)
<1>1. worker[t] \in Worker /\ worker'[t] \in Worker /\ phase[t] \in TaskPhase
  BY StepTyped DEF Typed, TypeOK
<1>2. CASE Still(t)
  BY <1>1, <1>2 DEF Still
<1>3. CASE ByPass(t)
  <2> DEFINE m == worker'[t]
             w == worker[t]
  <2>1. /\ AttemptOf(m) # AttemptOf(w) => Lifecycle!Before(AttemptOf(w), AttemptOf(m))
        /\ pass.to \in {"pending", "rework-requested"} => AttemptOf(m) # AttemptOf(w)
    BY <1>3 DEF ByPass, Current, Prescribes
  <2>2. phase[t] \in Resting => phase'[t] \in Resting \cup {"pending", "rework-requested"}
    BY <1>1, <1>3 DEF ByPass, IsValidTransition, TRANSITION_TABLE, Resting, TaskPhase
  <2> QED
    BY <1>1, <1>3, <2>1, <2>2 DEF Before, ByPass
<1>4. CASE ByCall(t)
  BY <1>1, <1>4 DEF ByCall, Renewed
<1>5. CASE ByFailure(t)
  BY <1>1, <1>5 DEF ByFailure
<1>6. CASE ByPromotion(t)
  BY <1>1, <1>6 DEF ByPromotion, Resting
<1> QED
  BY <1>2, <1>3, <1>4, <1>5, <1>6, Changes

-----------------------------------------------------------------------------
(* The list and the decision in hand. *)

\* A write past the reconciler takes a task where it may be displaced to, and
\* back to a phase it was in only where nothing else has changed or matters.
LEMMA DisplacedStays ==
  ASSUME Typed, CallNear, NEW t \in Tasks, t \notin raced,
         ByCall(t) \/ ByFailure(t) \/ ByPromotion(t),
         NEW p, p # "idea", phase[t] \in {p} \cup Displaced(p)
  PROVE  /\ phase'[t] \in {p} \cup Displaced(p)
         /\ phase'[t] = p => \/ p \in {"pending", "running"}
                             \/ phase[t] = p /\ worker'[t] = worker[t]
<1>1. CASE ByFailure(t) \/ ByPromotion(t)
  BY <1>1 DEF ByFailure, ByPromotion, Displaced
<1>2. CASE ByCall(t)
  <2>1. /\ call # NoCall /\ call.task = t /\ call.seen = worker[t] /\ phase'[t] = call.to
        /\ Renewed(call, worker'[t])
    BY <1>2 DEF ByCall, Writes
  <2>2. call.to \in {"awaiting-human", "succeeded"} => phase[t] \in Resting
    BY <2>1 DEF CallNear
  <2>3. CASE call.to \in {"pending", "idea", "running"}
    BY <2>1, <2>3 DEF Displaced
  <2>4. CASE call.to = "awaiting-human"
    <3>1. p \in Resting /\ (p = "awaiting-human" => phase[t] = p)
      BY <2>2, <2>4 DEF Displaced, Resting
    <3>2. worker'[t] = worker[t]
      BY <2>1, <2>4 DEF Renewed
    <3> QED
      BY <2>1, <2>4, <3>1, <3>2 DEF Displaced
  <2>5. CASE call.to = "succeeded"
    <3>1. p \in Resting
      BY <2>2, <2>5 DEF Displaced, Resting
    <3> QED
      BY <2>1, <2>5, <3>1 DEF Displaced, Resting
  <2>6. call.to \in {"pending", "idea", "running", "awaiting-human", "succeeded"}
    BY <2>1 DEF Renewed
  <2> QED
    BY <2>3, <2>4, <2>5, <2>6
<1> QED
  BY <1>1, <1>2

\* A list stays near the tasks that are still on it.
LEMMA ListStays ==
  ASSUME RenewingOnly, Typed, Near, CallNear, [AdminNext]_allvars,
         cycle # NoCycle, cycle' # NoCycle,
         cycle'.todo \subseteq cycle.todo, \A u \in cycle'.todo : cycle'.seen[u] = cycle.seen[u]
  PROVE  ListNear'
<1> SUFFICES ASSUME NEW t \in cycle'.todo, t \notin raced'
             PROVE  LET p == cycle'.seen[t].phase IN
                    /\ p # "idea" /\ phase'[t] \in {p} \cup Displaced(p)
                    /\ phase'[t] = p => worker'[t] = cycle'.seen[t].worker \/ p \in {"pending", "running"}
  BY DEF ListNear, Seen, Displaced
<1>1. t \in Tasks /\ t \in cycle.todo
  BY SeenType DEF Typed
<1>2. t \notin raced
  BY <1>1, Changes
<1> DEFINE p == cycle.seen[t].phase
           w == cycle.seen[t].worker
<1>3. cycle'.seen[t] = cycle.seen[t]
  OBVIOUS
<1>4. /\ p # "idea" /\ phase[t] \in {p} \cup Displaced(p)
      /\ phase[t] = p => worker[t] = w \/ p \in {"pending", "running"}
  BY <1>1, <1>2 DEF Near, ListNear, Seen
<1>5. ~ByPass(t)
  BY <1>1 DEF ByPass, Patches, PatchStatus, PatchUnanswered, WriteStatus, InStage, Near, PassInCycle
<1> HIDE DEF p, w
<1>6. /\ phase'[t] \in {p} \cup Displaced(p)
      /\ phase'[t] = p => worker'[t] = w \/ p \in {"pending", "running"}
  <2>1. CASE Still(t)
    BY <2>1, <1>4 DEF Still
  <2>2. CASE ByCall(t) \/ ByFailure(t) \/ ByPromotion(t)
    <3>1. /\ phase'[t] \in {p} \cup Displaced(p)
          /\ phase'[t] = p => \/ p \in {"pending", "running"}
                              \/ phase[t] = p /\ worker'[t] = worker[t]
      BY <2>2, <1>1, <1>2, <1>4, DisplacedStays
    <3> QED
      BY <3>1, <1>4
  <2> QED
    BY <2>1, <2>2, <1>1, <1>5, Changes
<1> QED
  BY <1>3, <1>4, <1>6 DEF p, w

\* So does a decision in hand that is not written.
LEMMA PassStays ==
  ASSUME RenewingOnly, Typed, Near, CallNear, [AdminNext]_allvars, ~Patches, pass # NoPass,
         pass.stage # "clear", NEW q, q.task = pass.task, q.from = pass.from, q.to = pass.to,
         q.patch = pass.patch, q.create = pass.create, pass.task \notin raced'
  PROVE  /\ q.from # "idea" /\ phase'[q.task] \in {q.from} \cup Displaced(q.from)
         /\ phase'[q.task] = q.from => Current(q, worker'[q.task])
         /\ q.from \in {"pending", "running"} => Untouching(q)
<1> DEFINE t == pass.task
           p == pass.from
<1>1. t \in Tasks
  BY DEF Typed, TypeOK, Pass
<1>2. t \notin raced /\ t \notin raced' /\ worker'[t] \in Worker
  BY <1>1, Changes, Attempts
<1>3. /\ p # "idea" /\ phase[t] \in {p} \cup Displaced(p)
      /\ phase[t] = p => Current(pass, worker[t])
      /\ p \in {"pending", "running"} => Untouching(pass)
  BY <1>2 DEF Near, PassNear
<1>4. ~ByPass(t)
  BY DEF ByPass
<1>5. \A w : Current(pass, w) => Current(q, w)
  BY DEF Current, Names, Prescribes
<1>6. Untouching(pass) => Untouching(q)
  BY DEF Untouching
<1> HIDE DEF t, p
<1>7. /\ phase'[t] \in {p} \cup Displaced(p)
      /\ phase'[t] = p => Current(pass, worker'[t])
  <2>1. CASE Still(t)
    BY <2>1, <1>3 DEF Still
  <2>2. CASE ByCall(t) \/ ByFailure(t) \/ ByPromotion(t)
    <3>1. /\ phase'[t] \in {p} \cup Displaced(p)
          /\ phase'[t] = p => \/ p \in {"pending", "running"}
                              \/ phase[t] = p /\ worker'[t] = worker[t]
      BY <2>2, <1>1, <1>2, <1>3, DisplacedStays
    <3>2. p \in {"pending", "running"} => Current(pass, worker'[t])
      BY <1>2, <1>3, UntouchingCurrent DEF p
    <3> QED
      BY <3>1, <3>2, <1>3
  <2>3. Still(t) \/ ByPass(t) \/ ByCall(t) \/ ByFailure(t) \/ ByPromotion(t)
    BY <1>1, <1>2, Changes
  <2> QED
    BY <2>1, <2>2, <2>3, <1>4
<1> QED
  BY <1>3, <1>5, <1>6, <1>7 DEF t, p


\* Where the cycle goes on, and the decision is kept or dropped.
LEMMA KeptNear ==
  ASSUME RenewingOnly, Typed, Near, CallNear, [AdminNext]_allvars,
         cycle' = cycle, pass' = pass \/ pass' = NoPass
  PROVE  Near'
<1>1. ListNear'
  <2>1. CASE cycle = NoCycle
    BY <2>1 DEF ListNear
  <2>2. CASE cycle # NoCycle
    <3>1. /\ cycle' # NoCycle /\ cycle'.todo \subseteq cycle.todo
          /\ \A u \in cycle'.todo : cycle'.seen[u] = cycle.seen[u]
      BY <2>2
    <3> QED
      BY <2>2, <3>1, ListStays
  <2> QED
    BY <2>1, <2>2
<1>2. PassInCycle'
  BY DEF Near, PassInCycle
<1>3. PassNear'
  <2> SUFFICES ASSUME pass' # NoPass, pass'.stage # "clear", pass'.task \notin raced'
               PROVE  PassNear'
    BY DEF PassNear
  <2>1. pass' = pass /\ pass # NoPass /\ pass.stage # "clear" /\ pass.task \notin raced'
    OBVIOUS
  <2>2. ~Patches
    <3>1. pass \in Pass(pass.patch)
      BY <2>1 DEF Typed, TypeOK
    <3>2. [pass EXCEPT !.stage = "clear"].stage = "clear"
      BY <3>1 DEF Pass
    <3> QED
      BY <2>1, <3>2 DEF Patches, PatchStatus, PatchUnanswered
  <2>3. /\ pass.from # "idea" /\ phase'[pass.task] \in {pass.from} \cup Displaced(pass.from)
        /\ phase'[pass.task] = pass.from => Current(pass, worker'[pass.task])
        /\ pass.from \in {"pending", "running"} => Untouching(pass)
    BY <2>1, <2>2, PassStays
  <2> QED
    BY <2>1, <2>3 DEF PassNear, Displaced, Current, Names, Prescribes, Untouching
<1> QED
  BY <1>1, <1>2, <1>3 DEF Near

\* Where the effects of a decision run.
LEMMA EffectsNear ==
  ASSUME RenewingOnly, Typed, Near, CallNear, [AdminNext]_allvars, RunEffects
  PROVE  Near'
<1> USE DEF history, task
<1>1. pass \in Pass(pass.patch) /\ pass # NoPass /\ pass.stage = "effects" /\ StillValid
  BY DEF RunEffects, InStage, Typed, TypeOK
<1>2. /\ pass' # NoPass => pass'.stage = "patch"
      /\ pass'.task = pass.task /\ pass'.from = pass.from /\ pass'.to = pass.to
      /\ pass'.patch = pass.patch /\ pass'.create = pass.create
      /\ pass'.stage = "patch" /\ cycle' = cycle
  BY <1>1 DEF RunEffects, Pass
<1>3. cycle # NoCycle /\ pass.task \notin cycle.todo
  BY <1>1 DEF Near, PassInCycle
<1>4. ListNear'
  <2>1. /\ cycle' # NoCycle /\ cycle'.todo \subseteq cycle.todo
        /\ \A u \in cycle'.todo : cycle'.seen[u] = cycle.seen[u]
    BY <1>2, <1>3
  <2> QED
    BY <1>3, <2>1, ListStays
<1>5. PassInCycle'
  BY <1>1, <1>2, <1>3 DEF Near, PassInCycle, StillValid
<1>6. PassNear'
  <2> SUFFICES ASSUME pass'.task \notin raced' PROVE PassNear'
    BY DEF PassNear
  <2>1. ~Patches
    BY <1>1 DEF Patches, PatchStatus, PatchUnanswered, WriteStatus, InStage
  <2> DEFINE q == pass'
  <2>2. /\ q.task = pass.task /\ q.from = pass.from /\ q.to = pass.to
        /\ q.patch = pass.patch /\ q.create = pass.create
        /\ pass.stage # "clear" /\ pass.task \notin raced'
    BY <1>1, <1>2
  <2> HIDE DEF q
  <2>3. /\ q.from # "idea" /\ phase'[q.task] \in {q.from} \cup Displaced(q.from)
        /\ phase'[q.task] = q.from => Current(q, worker'[q.task])
        /\ q.from \in {"pending", "running"} => Untouching(q)
    BY <1>1, <2>1, <2>2, PassStays
  <2> QED
    BY <2>3 DEF q, PassNear, Displaced, Current, Names, Prescribes, Untouching
<1> QED
  BY <1>4, <1>5, <1>6 DEF Near

\* Where a task of the list is decided or passed over.
LEMMA TurnNear ==
  ASSUME RenewingOnly, Typed, Near, CallNear, [AdminNext]_allvars,
         NEW t \in Tasks, Turn(t), cycle' = Past(t), UNCHANGED <<phase, worker, raced>>,
         Decide(t) \/ pass' = pass
  PROVE  Near'
<1>1. cycle # NoCycle /\ t \in cycle.todo /\ pass = NoPass
  BY DEF Turn
<1>2. /\ cycle'.todo = cycle.todo \ {t} /\ \A u \in cycle'.todo : cycle'.seen[u] = cycle.seen[u]
      /\ cycle' # NoCycle
  BY <1>1, PastType, NoCycleAssumption DEF Typed
<1>3. ListNear'
  <2>1. cycle'.todo \subseteq cycle.todo
    BY <1>2
  <2> QED
    BY <1>1, <1>2, <2>1, ListStays
<1>4. CASE pass' = pass
  BY <1>1, <1>3, <1>4 DEF Near, PassInCycle, PassNear
<1>5. CASE Decide(t)
  <2>1. /\ pass'.task = t /\ pass'.stage = "effects" /\ pass'.from = Seen(t).phase
        /\ pass'.create # NoRun /\ pass'.create.kind = "review"
             => pass'.create.task = t /\ pass'.from = "succeeded"
        /\ t \notin raced =>
             /\ pass'.from # "idea" /\ phase[t] \in {pass'.from} \cup Displaced(pass'.from)
             /\ phase[t] = pass'.from => Current(pass', worker[t])
             /\ pass'.from \in {"pending", "running"} => Untouching(pass')
    BY <1>1, <1>5, DecideNear DEF Near
  <2>2. PassInCycle'
    BY <1>2, <2>1 DEF PassInCycle
  <2>3. PassNear'
    BY <2>1 DEF PassNear, Displaced, Current, Names, Prescribes, Untouching
  <2> QED
    BY <1>3, <2>2, <2>3 DEF Near
<1> QED
  BY <1>4, <1>5

\* Where the status of a decision is patched, and its annotations are to go.
LEMMA PatchedNear ==
  ASSUME RenewingOnly, Typed, Near, CallNear, [AdminNext]_allvars, PatchStatus
  PROVE  Near'
<1>1. WriteStatus /\ (pass' = NoPass \/ pass' = [pass EXCEPT !.stage = "clear"])
  BY DEF PatchStatus
<1>2. pass \in Pass(pass.patch) /\ pass # NoPass
  BY <1>1 DEF WriteStatus, InStage, Typed, TypeOK
<1>3. cycle # NoCycle /\ pass.task \notin cycle.todo
  BY <1>2 DEF Near, PassInCycle
<1>4. PICK S \in SUBSET Tasks : cycle \in Cycle(S)
  BY <1>3 DEF Typed, TypeOK
<1>5. cycle'.todo = cycle.todo /\ cycle'.seen = cycle.seen
  BY <1>4 DEF PatchStatus, Cycle
<1>6. cycle' \in Cycle(S)
  BY <1>4 DEF PatchStatus, Cycle, Adjusted
<1>7. cycle' # NoCycle
  BY <1>6, NoCycleAssumption
<1>8. ListNear'
  BY <1>3, <1>5, <1>7, ListStays
<1>9. pass' # NoPass => /\ pass'.stage = "clear" /\ pass'.task = pass.task
                        /\ pass'.create = pass.create /\ pass'.from = pass.from
  BY <1>1, <1>2 DEF Pass
<1>10. PassInCycle' /\ PassNear'
  BY <1>2, <1>3, <1>5, <1>7, <1>9 DEF Near, PassInCycle, PassNear
<1> QED
  BY <1>8, <1>10 DEF Near

\* The list and the decision in hand stay near.
LEMMA StepNear ==
  ASSUME RenewingOnly, Typed, Near, CallNear, [AdminNext]_allvars
  PROVE  Near'
<1> DEFINE Kept == cycle' = cycle /\ (pass' = pass \/ pass' = NoPass)
<1>1. CASE Kept
  BY <1>1, KeptNear
<1>2. CASE StartCycle /\ raced' = raced
  <2> DEFINE S == {t \in Tasks : phase[t] \notin {"idea", "done"}}
             seen == [t \in Needed(S) |-> [phase |-> phase[t], worker |-> worker[t],
                                           notes |-> notes[t]]]
  <2>1. S \subseteq Needed(S)
    BY NeededType
  <2>2. cycle'.todo = S /\ cycle'.seen = seen /\ UNCHANGED <<phase, worker, pass>> /\ cycle = NoCycle
    BY <1>2 DEF StartCycle, task
  <2>3. ListNear'
    BY <2>1, <2>2 DEF ListNear, Seen
  <2>4. pass' = NoPass
    BY <2>2 DEF Near, PassInCycle
  <2> QED
    BY <2>3, <2>4 DEF Near, PassInCycle, PassNear
<1>3. CASE EndCycle \/ ManagerCrash
  <2>1. cycle' = NoCycle /\ pass' = NoPass
    BY <1>3 DEF EndCycle, ManagerCrash
  <2> QED
    BY <2>1 DEF Near, ListNear, PassInCycle, PassNear
<1>4. ASSUME NEW t \in Tasks, Visit(t) \/ PassOver(t), raced' = raced
      PROVE  Near'
  <2>1. /\ Turn(t) /\ cycle' = Past(t) /\ UNCHANGED <<phase, worker, raced>>
        /\ Decide(t) \/ pass' = pass
    BY <1>4 DEF Visit, PassOver, task
  <2> QED
    BY <2>1, TurnNear
<1>5. CASE RunEffects
  BY <1>5, EffectsNear
<1>6. CASE PatchStatus
  BY <1>6, PatchedNear
<1>7. CASE [Next]_vars /\ UNCHANGED admin
  <2> USE DEF history, task
  <2>a. raced' = raced
    BY <1>7 DEF admin
  <2>1. CASE Manager
    <3>1. CASE FailReplacing \/ PatchUnanswered \/ ClearTaskAnnotations \/ Abort
      BY <3>1, <1>1 DEF FailReplacing, PatchUnanswered, ClearTaskAnnotations, Abort
    <3> QED
      BY <2>1, <2>a, <3>1, <1>2, <1>3, <1>4, <1>5, <1>6 DEF Manager
  <2>2. CASE Environment
    <3>1. Kept
      BY <2>2 DEF Environment, Human, Approve, RequestChanges, Abandon, Answer, Annotate, Promote,
                  BackoffElapses, RunSteps, RunStarts, RunParks, RunResumes, RunStalls,
                  RunSucceeds, RunFails, RunOverwritten, RunDeleted, RunTurns
    <3> QED
      BY <3>1, <1>1
  <2>3. CASE UNCHANGED vars
    BY <2>3, <1>1 DEF vars
  <2> QED
    BY <1>7, <2>1, <2>2, <2>3 DEF Next
<1>8. CASE (\E t \in Tasks : Reads(t)) \/ Writes \/ Creates \/ CreateFails \/ Fails
  BY <1>8, <1>1 DEF Reads, Writes, Creates, CreateFails, Fails, vars
<1> QED
  BY <1>7, <1>8, AdminSteps

-----------------------------------------------------------------------------
(* Reviews. *)

\* What is ordered before a later attempt.
LEMMA Grown ==
  ASSUME NEW w \in Worker, NEW m \in Worker, NEW x \in Int \X Int,
         AttemptOf(m) = AttemptOf(w) \/ Before(AttemptOf(w), AttemptOf(m))
  PROVE  /\ ~Before(AttemptOf(w), x) => ~Before(AttemptOf(m), x)
         /\ ~Before(AttemptOf(w), x) /\ x = AttemptOf(m) => AttemptOf(m) = AttemptOf(w)
         /\ Before(x, AttemptOf(w)) => Before(x, AttemptOf(m))
<1> DEFINE a == AttemptOf(w)
           b == AttemptOf(m)
<1>1. a \in Int \X Int /\ b \in Int \X Int
  BY Counters
<1> HIDE DEF a, b
<1>2. /\ Before(a, b) /\ Before(b, x) => Before(a, x)
      /\ Before(x, a) /\ Before(a, b) => Before(x, b)
  BY <1>1, Order DEF Before
<1> QED
  BY <1>2 DEF a, b

\* The counters in the name of a run.
LEMMA Numbered ==
  ASSUME Typed, NEW t \in Tasks, NEW x \in ReviewsOf(t)
  PROVE  x \in RunId /\ <<x.r, x.a>> \in Int \X Int
BY DEF Typed, TypeOK, ReviewsOf, RunId

\* A review of a task is of its attempt when it is created.
LEMMA ReviewRuns ==
  ASSUME Typed, Near, [AdminNext]_allvars, NEW t \in Tasks, t \notin raced',
         NEW x \in DOMAIN runs', x.kind = "review", x.task = t
  PROVE  \/ x \in ReviewsOf(t) /\ runs'[x].about = runs[x].about
         \/ /\ x = ReviewRun(t, worker[t]) /\ runs'[x].about = worker[t].run
            /\ worker[t].run # NoRun /\ phase[t] = "succeeded" /\ Still(t)
<1> USE DEF history, task
<1> DEFINE Old == x \in ReviewsOf(t) /\ runs'[x].about = runs[x].about
           New == /\ x = ReviewRun(t, worker[t]) /\ runs'[x].about = worker[t].run
                  /\ worker[t].run # NoRun /\ phase[t] = "succeeded" /\ Still(t)
<1>1. x \in DOMAIN runs /\ runs'[x].about = runs[x].about => Old
  BY DEF ReviewsOf
<1> HIDE DEF Old, New
<1>2. runs' = runs => Old
  BY <1>1
<1>3. \A y : runs' = Without(y) => Old
  BY <1>1 DEF Without
<1>4. \A y : runs' = With(y) /\ y # x => Old
  BY <1>1 DEF With
<1>5. CASE RunEffects
  <2> DEFINE y == pass.create
  <2>1. /\ pass # NoPass /\ pass.stage = "effects" /\ StillValid
        /\ UNCHANGED <<phase, worker>>
        /\ \/ y # NoRun /\ runs' = With(y)
           \/ runs' = Without(pass.discard)
           \/ runs' = runs
    BY <1>5 DEF RunEffects, InStage
  <2>2. CASE runs' = With(y) /\ y = x /\ y # NoRun
    <3>1. pass.task = t /\ t \notin raced
      BY <2>1, <2>2, Changes DEF Near, PassInCycle
    <3>2. Current(pass, worker[t])
      BY <2>1, <3>1 DEF Near, PassNear, StillValid
    <3>3. y = ReviewRun(t, worker[t]) /\ phase[t] = "succeeded" /\ worker[t].run # NoRun
      BY <2>1, <2>2, <3>1, <3>2 DEF Current, Names, StillValid
    <3>4. runs'[x].about = worker[x.task].run
      BY <2>2 DEF With
    <3> QED
      BY <2>1, <2>2, <3>3, <3>4 DEF New, Still
  <2> QED
    BY <2>1, <2>2, <1>2, <1>3, <1>4 DEF Old, New
<1>6. ASSUME NEW y \in DOMAIN runs, RunSteps(y)
      PROVE  Old
  <2>1. CASE RunDeleted(y)
    BY <2>1, <1>3 DEF RunDeleted
  <2>2. ASSUME NEW from, NEW to, NEW verdict, RunTurns(y, from, to, verdict)
        PROVE  Old
    <3>1. runs' = [runs EXCEPT ![y].phase = to, ![y].verdict = verdict] /\ runs[y] \in Run
      BY <2>2 DEF RunTurns, Typed, TypeOK
    <3>2. [runs[y] EXCEPT !.phase = to, !.verdict = verdict].about = runs[y].about
      BY <3>1 DEF Run
    <3> QED
      BY <3>1, <3>2, <1>1
  <2> QED
    BY <1>6, <2>1, <2>2 DEF RunSteps, RunStarts, RunParks, RunResumes, RunStalls, RunSucceeds,
                            RunFails, RunOverwritten
<1>7. CASE [Next]_vars
  <2>1. CASE Manager
    BY <2>1, <1>2, <1>3, <1>5
    DEF Manager, StartCycle, EndCycle, Visit, PassOver, FailReplacing, PatchStatus,
        PatchUnanswered, WriteStatus, ClearTaskAnnotations, Abort, ManagerCrash, Old, New
  <2>2. CASE Environment
    BY <2>2, <1>2, <1>6 DEF Environment, Human, Approve, RequestChanges, Abandon, Answer, Annotate,
                            Promote, BackoffElapses, Old, New
  <2>3. CASE UNCHANGED vars
    BY <2>3, <1>2 DEF vars, Old, New
  <2> QED
    BY <1>7, <2>1, <2>2, <2>3 DEF Next
<1>8. CASE Creates
  <2>1. call.seen.run.kind = "worker"
    BY <1>8 DEF Creates, Calling, Typed, CallTyped, NoCall
  <2>2. call.seen.run # x
    BY <2>1
  <2> QED
    BY <2>2, <1>8, <1>2, <1>3, <1>4 DEF Creates, Old, New
<1>9. CASE (\E u \in Tasks : Reads(u)) \/ Writes \/ CreateFails \/ Fails
  BY <1>9, <1>2 DEF Reads, Writes, CreateFails, Fails, vars, Old, New
<1> QED
  BY <1>7, <1>8, <1>9, AdminSteps DEF Old, New

\* The verdict waited for, and every other, is about the run of its attempt.
LEMMA StepReviews ==
  ASSUME RenewingOnly, Typed, Near, CallNear, [AdminNext]_allvars,
         NEW t \in Tasks, t \notin raced', ReviewsNear(t)
  PROVE  ReviewsNear(t)'
<1> DEFINE w == worker[t]
           m == worker'[t]
           Same == AttemptOf(m) = AttemptOf(w)
<1>1. /\ w \in Worker /\ m \in Worker /\ (Same \/ Before(AttemptOf(w), AttemptOf(m)))
      /\ phase[t] \in TaskPhase
  BY Attempts DEF Typed, TypeOK
<1>2. t \notin raced /\ (Still(t) \/ ByPass(t) \/ ByCall(t) \/ ByFailure(t) \/ ByPromotion(t))
  BY Changes
<1>3. Same => /\ m.retry = w.retry /\ m.ai = w.ai
              /\ WorkerRun(t, m) = WorkerRun(t, w) /\ ReviewRun(t, m) = ReviewRun(t, w)
  BY DEF AttemptOf, WorkerRun, ReviewRun
<1>4. ASSUME NEW x \in DOMAIN runs', x.kind = "review", x.task = t
      PROVE  /\ runs'[x].about # NoRun
             /\ ~Before(AttemptOf(m), <<x.r, x.a>>)
             /\ <<x.r, x.a>> = AttemptOf(m) =>
                  /\ runs'[x].about = m.run
                  /\ phase'[t] \in ToLaunch => runs'[x].about = WorkerRun(t, m)
  <2> DEFINE n == <<x.r, x.a>>
             a == runs'[x].about
  <2>1. CASE /\ x = ReviewRun(t, w) /\ a = w.run /\ w.run # NoRun
             /\ phase[t] = "succeeded" /\ Still(t)
    <3>1. m = w /\ phase'[t] = "succeeded"
      BY <2>1 DEF Still
    <3>2. n = AttemptOf(w)
      BY <2>1 DEF ReviewRun, AttemptOf
    <3>3. AttemptOf(w) \in Int \X Int
      BY <1>1, Counters
    <3>4. ~Before(n, n)
      BY <3>2, <3>3, Order DEF Before
    <3> QED
      BY <2>1, <3>1, <3>2, <3>4 DEF ToLaunch
  <2>2. CASE x \in ReviewsOf(t) /\ a = runs[x].about
    <3>1. n \in Int \X Int
      BY <2>2, Numbered
    <3>2. /\ a # NoRun /\ ~Before(AttemptOf(w), n)
          /\ n = AttemptOf(w) => /\ a = w.run
                                 /\ phase[t] \in ToLaunch => a = WorkerRun(t, w)
      BY <2>2 DEF ReviewsNear
    <3> HIDE DEF n, a
    <3>3. /\ ~Before(AttemptOf(m), n)
          /\ n = AttemptOf(m) => Same
      BY <1>1, <3>1, <3>2, Grown
    <3>4. ASSUME n = AttemptOf(m)
          PROVE  a = m.run /\ (phase'[t] \in ToLaunch => a = WorkerRun(t, m))
      <4>1. /\ Same /\ a = w.run /\ (phase[t] \in ToLaunch => a = WorkerRun(t, w))
            /\ WorkerRun(t, m) = WorkerRun(t, w)
        BY <1>3, <3>2, <3>3, <3>4
      <4>2. CASE Still(t)
        BY <4>1, <4>2 DEF Still
      <4>3. CASE ByPass(t)
        <5>1. /\ pass.task = t /\ phase[t] = pass.from /\ phase'[t] = pass.to
              /\ Current(pass, w) /\ m = Merge(w, pass.patch)
              /\ pass.to # pass.from => IsValidTransition(pass.from, pass.to)
          BY <4>3 DEF ByPass
        <5>2. /\ m.run = IF pass.to = "initializing" THEN WorkerRun(t, w) ELSE w.run
              /\ pass.to \notin {"pending", "rework-requested"}
              /\ pass.to = "initializing" => pass.from # pass.to
          BY <4>1, <5>1 DEF Current, Names, Prescribes
        <5>3. pass.to = "initializing" => pass.from = "scheduled"
          BY <1>1, <5>1, <5>2, Table
        <5>4. pass.to \in ToLaunch => pass.from \in ToLaunch
          BY <1>1, <5>1, <5>2, Table DEF ToLaunch
        <5>5. "scheduled" \in ToLaunch /\ "initializing" \notin ToLaunch
          BY DEF ToLaunch
        <5> QED
          BY <4>1, <5>1, <5>2, <5>3, <5>4, <5>5
      <4>4. CASE ByCall(t)
        <5>1. call.seen = w /\ phase'[t] = call.to /\ Renewed(call, m)
          BY <4>4 DEF ByCall
        <5>2. ~Before(AttemptOf(w), AttemptOf(m))
          BY <1>1, <4>1, Counters, Order DEF Before
        <5>3. m = w /\ (call.to \in {"idea", "awaiting-human"} \/ m.run = NoRun)
          BY <5>1, <5>2 DEF Renewed
        <5>4. call.to \notin ToLaunch
          BY <3>2, <4>1, <5>3 DEF ToLaunch
        <5> QED
          BY <4>1, <5>1, <5>3, <5>4
      <4>5. CASE ByFailure(t)
        <5>1. m = w /\ call # NoCall /\ call.task = t /\ Calling("create")
          BY <4>5 DEF ByFailure, Calling, NoCall
        <5>2. Named(t)
          BY <1>2, <5>1 DEF CallNear
        <5>3. n = AttemptOf(w) => a = WorkerRun(t, w)
          BY <2>2, <5>2 DEF Named, n
        <5> QED
          BY <3>4, <4>1, <5>1, <5>3
      <4>6. CASE ByPromotion(t)
        BY <3>2, <4>1, <4>6 DEF ByPromotion
      <4> QED
        BY <1>2, <4>2, <4>3, <4>4, <4>5, <4>6
    <3> QED
      BY <3>2, <3>3, <3>4 DEF n, a
  <2> QED
    BY <1>4, <2>1, <2>2, ReviewRuns
<1>5. phase'[t] = "reviewing" => m.review = ReviewRun(t, m)
  <2> SUFFICES ASSUME phase'[t] = "reviewing" PROVE m.review = ReviewRun(t, m)
    OBVIOUS
  <2>1. CASE Still(t)
    BY <2>1 DEF Still, ReviewsNear
  <2>2. CASE ByPass(t)
    <3>1. /\ pass.task = t /\ pass.to = "reviewing"
          /\ Current(pass, w) /\ m = Merge(w, pass.patch)
      BY <2>2 DEF ByPass
    <3>2. Same /\ m.review = ReviewRun(t, w)
      BY <3>1 DEF Current, Names, Prescribes
    <3> QED
      BY <3>2, <1>3
  <2>3. ~ByCall(t) /\ ~ByFailure(t) /\ ~ByPromotion(t)
    BY DEF ByCall, ByFailure, ByPromotion, Renewed
  <2> QED
    BY <1>2, <2>1, <2>2, <2>3
<1> QED
  BY <1>4, <1>5 DEF ReviewsNear, ReviewsOf

-----------------------------------------------------------------------------
(* Calls. *)

\* Between the write and the creation of a restarted run, the reconciler
\* leaves the task with the name of its attempt.
LEMMA NamedStays ==
  ASSUME RenewingOnly, Typed, Near, CallNear, [AdminNext]_allvars,
         NEW t \in Tasks, t \notin raced', ReviewsNear(t), Named(t), call' = call
  PROVE  Named(t)'
<1> DEFINE w == worker[t]
           m == worker'[t]
           Same == AttemptOf(m) = AttemptOf(w)
<1>1. /\ w \in Worker /\ m \in Worker /\ (Same \/ Before(AttemptOf(w), AttemptOf(m)))
      /\ phase[t] \in TaskPhase
  BY Attempts DEF Typed, TypeOK
<1>2. Still(t) \/ ByPass(t) \/ ByPromotion(t)
  <2>1. Still(t) \/ ByPass(t) \/ ByCall(t) \/ ByFailure(t) \/ ByPromotion(t)
    BY Changes
  <2>2. ~ByCall(t)
    <3> SUFFICES ASSUME Writes PROVE FALSE
      BY DEF ByCall
    <3>1. call # NoCall /\ call.does # "create"
      BY DEF Writes, Calling
    <3>2. \A v : [call EXCEPT !.does = "create", !.seen = v].does = "create"
      BY <3>1 DEF Typed, CallTyped
    <3> QED
      BY <3>1, <3>2 DEF Writes
  <2>3. ~ByFailure(t)
    BY DEF ByFailure, CreateFails, Calling, NoCall
  <2> QED
    BY <2>1, <2>2, <2>3
<1>3. Same => WorkerRun(t, m) = WorkerRun(t, w)
  BY DEF AttemptOf, WorkerRun
<1>4. phase'[t] \in Working => m.run = WorkerRun(t, m)
  <2>1. CASE Still(t)
    BY <2>1 DEF Still, Named
  <2>2. CASE ByPass(t) /\ phase'[t] \in Working
    <3>1. /\ pass.task = t /\ phase[t] = pass.from /\ phase'[t] = pass.to
          /\ Current(pass, w) /\ m = Merge(w, pass.patch)
          /\ pass.to # pass.from => IsValidTransition(pass.from, pass.to)
      BY <2>2 DEF ByPass
    <3>2. /\ m.run = IF pass.to = "initializing" THEN WorkerRun(t, w) ELSE w.run
          /\ pass.to \notin {"pending", "rework-requested", "awaiting-human"} => Same
      BY <3>1 DEF Current, Names, Prescribes
    <3>3. Same
      BY <2>2, <3>1, <3>2 DEF Working
    <3>4. pass.to # "initializing" => pass.from \in Working
      BY <1>1, <2>2, <3>1, WorkTable
    <3>5. pass.from \in Working => w.run = WorkerRun(t, w)
      BY <3>1 DEF Named
    <3> QED
      BY <1>3, <3>2, <3>3, <3>4, <3>5
  <2>3. CASE ByPromotion(t)
    BY <2>3 DEF ByPromotion, Working
  <2> QED
    BY <1>2, <2>1, <2>2, <2>3
<1>5. ASSUME NEW x \in DOMAIN runs', x.kind = "review", x.task = t,
             <<x.r, x.a>> = AttemptOf(m)
      PROVE  runs'[x].about = WorkerRun(t, m)
  <2>1. CASE x \in ReviewsOf(t) /\ runs'[x].about = runs[x].about
    <3>1. <<x.r, x.a>> \in Int \X Int
      BY <2>1, Numbered
    <3>2. ~Before(AttemptOf(w), <<x.r, x.a>>)
      BY <2>1 DEF ReviewsNear
    <3>3. Same
      BY <1>1, <1>5, <3>1, <3>2, Grown
    <3> QED
      BY <1>3, <1>5, <2>1, <3>3 DEF Named
  <2>2. CASE /\ runs'[x].about = w.run /\ phase[t] = "succeeded" /\ Still(t)
    <3>1. w.run = WorkerRun(t, w)
      BY <2>2 DEF Named, Working
    <3> QED
      BY <2>2, <3>1 DEF Still
  <2> QED
    BY <1>5, <2>1, <2>2, ReviewRuns
<1> QED
  BY <1>4, <1>5 DEF Named, ReviewsOf

\* What a call has read is still an attempt that the task has had.
LEMMA StepCalls ==
  ASSUME RenewingOnly, Settled, [AdminNext]_allvars
  PROVE  CallNear'
<1> USE DEF Settled
<1> SUFFICES ASSUME NEW t \in Tasks, t = call'.task, call' # NoCall, t \notin raced'
             PROVE  /\ ~Before(AttemptOf(worker'[t]), AttemptOf(call'.seen))
                    /\ call'.to \in {"awaiting-human", "succeeded"}
                       /\ AttemptOf(worker'[t]) = AttemptOf(call'.seen) => phase'[t] \in Resting
                    /\ call'.does = "create" => Named(t)'
  <2>1. call' # NoCall => call'.task \in Tasks
    BY StepTyped DEF Typed, CallTyped
  <2> QED
    BY <2>1 DEF CallNear, Calling, Named, ReviewsOf
<1> DEFINE m == worker'[t]
<1>1. t \in Tasks /\ m \in Worker /\ call'.seen \in Worker
  BY StepTyped DEF Typed, CallTyped, TypeOK
<1>2. ~Before(AttemptOf(m), AttemptOf(m))
  <2>1. AttemptOf(m) \in Int \X Int
    BY <1>1, Counters
  <2> QED
    BY <2>1, Order DEF Before
<1>3. ASSUME NEW u \in Tasks, Reads(u)
      PROVE  /\ ~Before(AttemptOf(m), AttemptOf(call'.seen))
             /\ call'.to \in {"awaiting-human", "succeeded"} => phase'[t] \in Resting
             /\ call'.does # "create"
  <2>1. PICK d \in Directly \cup Repeatedly :
          /\ d[2] = phase[u] /\ Sanctioned(d[1], d[2], d[3])
          /\ call' = [does |-> d[1], task |-> u, to |-> d[3], seen |-> worker[u]]
    BY <1>3 DEF Reads
  <2>2. UNCHANGED <<phase, worker>>
    BY <1>3 DEF Reads, vars
  <2>3. t = u /\ call'.seen = m /\ call'.to = d[3] /\ call'.does = d[1]
    BY <2>1, <2>2
  <2>4. d[1] \in Renewing
    BY DEF RenewingOnly
  <2>5. d[3] \in {"awaiting-human", "succeeded"} => d[2] \in Resting
    BY <2>1, <2>4 DEF Renewing, Sanctioned, Resting
  <2> QED
    BY <1>2, <2>1, <2>2, <2>3, <2>4, <2>5 DEF Renewing
<1>4. CASE Writes
  <2>1. /\ call' = [call EXCEPT !.does = "create", !.seen = worker'[call.task]]
        /\ call.to = "running" /\ call # NoCall
    BY <1>4 DEF Writes
  <2>2. call'.task = call.task /\ call'.seen = m /\ call'.to = "running"
    BY <2>1 DEF Typed, CallTyped
  <2>3. /\ t \notin raced /\ call.seen = worker[t] /\ phase'[t] = "running"
        /\ Renewed(call, m) /\ runs' = runs
    BY <1>4, <2>1, <2>2, WritesFacts
  <2>4. Before(AttemptOf(worker[t]), AttemptOf(m)) /\ m.run = WorkerRun(t, m)
    BY <2>1, <2>2, <2>3 DEF Renewed
  <2>5. ASSUME NEW x \in ReviewsOf(t)
        PROVE  <<x.r, x.a>> # AttemptOf(m)
    BY <1>1, <2>3, <2>4 DEF ReviewsNear
  <2>6. Named(t)'
    BY <2>3, <2>4, <2>5 DEF Named, ReviewsOf
  <2> QED
    BY <1>2, <2>2, <2>6
<1>5. CASE call' = call
  <2>1. t \notin raced /\ ReviewsNear(t)
    BY <1>1, Changes
  <2>2. /\ ~Before(AttemptOf(worker[t]), AttemptOf(call.seen))
        /\ call.to \in {"awaiting-human", "succeeded"}
           /\ AttemptOf(worker[t]) = AttemptOf(call.seen) => phase[t] \in Resting
        /\ Calling("create") => Named(t)
    BY <1>5, <2>1 DEF CallNear
  <2>3. /\ worker[t] \in Worker
        /\ AttemptOf(m) = AttemptOf(worker[t]) \/ Before(AttemptOf(worker[t]), AttemptOf(m))
        /\ phase[t] \in Resting /\ AttemptOf(m) = AttemptOf(worker[t])
             => phase'[t] \in Resting \/ ByCall(t) \/ ByFailure(t)
    BY <1>1, Attempts
  <2>4. ~ByCall(t)
    <3> SUFFICES ASSUME Writes PROVE FALSE
      BY DEF ByCall
    <3>1. call # NoCall /\ call.does # "create"
      BY DEF Writes, Calling
    <3>2. \A v : [call EXCEPT !.does = "create", !.seen = v].does = "create"
      BY <3>1 DEF Typed, CallTyped
    <3> QED
      BY <1>5, <3>1, <3>2 DEF Writes
  <2>5. ~ByFailure(t)
    BY <1>5 DEF ByFailure, CreateFails
  <2>6. AttemptOf(call.seen) \in Int \X Int
    BY <1>1, <1>5, Counters
  <2>7. /\ ~Before(AttemptOf(m), AttemptOf(call.seen))
        /\ AttemptOf(call.seen) = AttemptOf(m) => AttemptOf(m) = AttemptOf(worker[t])
    BY <1>1, <2>2, <2>3, <2>6, Grown
  <2>8. call.does = "create" => Named(t)'
    BY <1>1, <1>5, <2>1, <2>2, NamedStays DEF Calling
  <2> QED
    BY <1>5, <2>2, <2>3, <2>4, <2>5, <2>7, <2>8
<1>6. call' = call \/ Writes \/ \E u \in Tasks : Reads(u)
  BY AdminSteps DEF Creates, CreateFails, Fails, admin
<1> QED
  BY <1>3, <1>4, <1>5, <1>6

-----------------------------------------------------------------------------
(* Restarts. *)

\* A task put back leaves its run behind.
LEMMA StepUsed ==
  ASSUME RenewingOnly, Typed, Near, [AdminNext]_allvars,
         NEW t \in Tasks, t \notin raced', UsedNear(t)
  PROVE  UsedNear(t)'
<1> DEFINE w == worker[t]
           m == worker'[t]
           Same == AttemptOf(m) = AttemptOf(w)
<1>1. w \in Worker /\ m \in Worker /\ (Same \/ Before(AttemptOf(w), AttemptOf(m)))
  BY Attempts
<1>2. /\ AttemptOf(w) \in Nat \X Nat /\ AttemptOf(m) \in Nat \X Nat
      /\ LaunchedOf(w) \in Int \X Int /\ ~Before(AttemptOf(w), LaunchedOf(w))
  BY <1>1, Counters DEF UsedNear
<1>3. /\ ~Before(AttemptOf(m), AttemptOf(m))
      /\ ~Before(AttemptOf(m), LaunchedOf(w))
      /\ \A r \in Nat, a \in Nat : ~Before(<<r, a>>, <<-1, 0>>)
  <2>1. AttemptOf(m) \in Int \X Int
    BY <1>2
  <2>2. ~Before(AttemptOf(m), LaunchedOf(w))
    BY <1>1, <1>2, Grown
  <2>3. ~Before(AttemptOf(m), AttemptOf(m))
    BY <2>1, Order DEF Before
  <2>4. \A r \in Nat, a \in Nat : ~Before(<<r, a>>, <<-1, 0>>)
    BY DEF Before, Lifecycle!Before
  <2> QED
    BY <2>2, <2>3, <2>4
<1>4. ~Before(AttemptOf(m), LaunchedOf(m))
  <2>1. m.run = w.run => LaunchedOf(m) = LaunchedOf(w)
    BY DEF LaunchedOf
  <2>2. m.run = NoRun => LaunchedOf(m) = <<-1, 0>>
    BY DEF LaunchedOf
  <2>3. m.run = WorkerRun(t, m) => LaunchedOf(m) = AttemptOf(m)
    <3>1. WorkerRun(t, m) \in RunId
      BY <1>1, RunNames
    <3> QED
      BY <3>1, NoRunAssumption DEF LaunchedOf, AttemptOf, WorkerRun
  <2>4. m.run = NoRun => ~Before(AttemptOf(m), LaunchedOf(m))
    BY <1>1, <1>3, <2>2 DEF AttemptOf, Worker
  <2>5. CASE Still(t) \/ ByFailure(t) \/ ByPromotion(t)
    BY <2>5, <1>3, <2>1 DEF Still, ByFailure, ByPromotion
  <2>6. CASE ByPass(t)
    <3>1. IF pass.to = "initializing" THEN LaunchedOf(m) = AttemptOf(w)
                                      ELSE LaunchedOf(m) = LaunchedOf(w)
      BY <2>6 DEF ByPass, Current, Prescribes
    <3>2. pass.to = "initializing" => Same
      BY <2>6 DEF ByPass, Current, Prescribes
    <3> QED
      BY <1>3, <3>1, <3>2
  <2>7. CASE ByCall(t)
    <3>1. /\ call.task = t /\ call.seen = w /\ Renewed(call, m)
      BY <2>7 DEF ByCall
    <3>2. m.run \in {w.run, NoRun, WorkerRun(t, m)}
      BY <3>1 DEF Renewed
    <3> QED
      BY <1>3, <2>1, <2>3, <2>4, <3>2
  <2> QED
    BY <2>5, <2>6, <2>7, Changes
<1>5. ASSUME NEW x \in used'[t]
      PROVE  Before(<<x.r, x.a>>, AttemptOf(m))
  <2>1. CASE x \in used[t]
    <3>1. <<x.r, x.a>> \in Int \X Int /\ Before(<<x.r, x.a>>, AttemptOf(w))
      BY <2>1 DEF Typed, RunId, UsedNear
    <3> QED
      BY <1>1, <3>1, Grown
  <2>2. CASE x \notin used[t]
    <3>1. Writes
      BY <1>5, <2>2, AdminSteps DEF admin, Reads, Creates, CreateFails, Fails
    <3>2. /\ call.task = t /\ x = w.run /\ x # NoRun /\ call.to \in {"pending", "running"}
          /\ call.does \in Restarts
      BY <1>5, <2>2, <3>1 DEF Writes, Typed
    <3>3. call.seen = w /\ Renewed(call, m)
      BY <3>1, <3>2, WritesFacts
    <3>4. Before(AttemptOf(w), AttemptOf(m))
      BY <3>2, <3>3 DEF Renewed
    <3>5. LaunchedOf(w) = <<x.r, x.a>>
      BY <3>2 DEF LaunchedOf
    <3> DEFINE a == AttemptOf(w)
               b == AttemptOf(m)
               l == LaunchedOf(w)
    <3>6. a \in Int \X Int /\ b \in Int \X Int /\ l \in Int \X Int
      BY <1>2
    <3>7. Before(a, b) /\ ~Before(a, l)
      BY <1>2, <3>4
    <3> HIDE DEF a, b, l
    <3>8. Before(l, a) \/ l = a
      BY <3>6, <3>7, Order DEF Before
    <3>9. Before(l, b)
      BY <3>6, <3>7, <3>8, Order DEF Before
    <3> QED
      BY <3>5, <3>9 DEF l, b
  <2> QED
    BY <2>1, <2>2
<1> QED
  BY <1>4, <1>5 DEF UsedNear

-----------------------------------------------------------------------------
(* The theorems. *)

\* Nothing has been done to begin with.
LEMMA InitSettled == AdminInit => Settled
<1> SUFFICES ASSUME AdminInit PROVE Settled
  OBVIOUS
<1>1. Init /\ call = NoCall /\ used = [t \in Tasks |-> {}] /\ raced = {}
  BY DEF AdminInit
<1>2. Typed /\ CallNear
  BY <1>1, InitType DEF Typed, CallTyped, CallNear
<1>3. /\ cycle = NoCycle /\ pass = NoPass /\ DOMAIN runs = {}
      /\ \A t \in Tasks : phase[t] # "reviewing"
  BY <1>1 DEF Init
<1>4. Near
  BY <1>3 DEF Near, ListNear, PassInCycle, PassNear
<1>5. ASSUME NEW t \in Tasks
      PROVE  ReviewsNear(t) /\ UsedNear(t)
  <2>1. worker[t].run = NoRun /\ worker[t].retry = 0 /\ worker[t].ai = 0
    BY <1>1 DEF Init, NewWorker
  <2>2. ~Before(AttemptOf(worker[t]), LaunchedOf(worker[t]))
    BY <2>1 DEF AttemptOf, LaunchedOf, Before, Lifecycle!Before
  <2> QED
    BY <1>1, <1>3, <2>2 DEF ReviewsNear, ReviewsOf, UsedNear
<1> QED
  BY <1>2, <1>4, <1>5 DEF Settled

\* And it stays so.
LEMMA AdminInductive == ASSUME RenewingOnly PROVE AdminSpec => []Settled
<1>1. Settled /\ [AdminNext]_allvars => Settled'
  <2> SUFFICES ASSUME Settled, [AdminNext]_allvars PROVE Settled'
    OBVIOUS
  <2>1. Typed /\ Near /\ CallNear
    BY DEF Settled
  <2>2. Typed' /\ Near' /\ CallNear'
    BY <2>1, StepTyped, StepNear, StepCalls
  <2>3. ASSUME NEW t \in Tasks \ raced'
        PROVE  ReviewsNear(t)' /\ UsedNear(t)'
    <3>1. t \in Tasks /\ t \notin raced'
      OBVIOUS
    <3>2. t \notin raced
      BY <2>1, <3>1, Changes
    <3>3. ReviewsNear(t) /\ UsedNear(t)
      BY <3>1, <3>2 DEF Settled
    <3> QED
      BY <2>1, <3>1, <3>3, StepReviews, StepUsed
  <2> QED
    BY <2>2, <2>3 DEF Settled
<1> QED
  BY <1>1, InitSettled, PTL DEF AdminSpec

\* However often people drag a task, retry it or repeat its review, and
\* whatever the reconciler is at, the verdict that decides a review is about
\* the worker run on record (ReviewsStayCurrent), as long as no status was
\* written from an old read.
THEOREM ReviewsStay == ASSUME RenewingOnly PROVE AdminSpec => []ReviewsStayCurrent
<1>1. Settled => ReviewsStayCurrent
  <2> SUFFICES ASSUME Settled, NEW t \in Tasks \ raced,
                      phase[t] = "reviewing", worker[t].review \in DOMAIN runs
               PROVE  runs[worker[t].review].about = worker[t].run
    BY DEF ReviewsStayCurrent
  <2> DEFINE x == worker[t].review
  <2>1. ReviewsNear(t)
    BY DEF Settled
  <2>2. x = ReviewRun(t, worker[t])
    BY <2>1 DEF ReviewsNear
  <2>3. x.kind = "review" /\ x.task = t /\ <<x.r, x.a>> = AttemptOf(worker[t])
    BY <2>2 DEF ReviewRun, AttemptOf
  <2> HIDE DEF x
  <2>4. x \in ReviewsOf(t)
    BY <2>3 DEF ReviewsOf, x
  <2> QED
    BY <2>1, <2>3, <2>4 DEF ReviewsNear, x
<1> QED
  BY <1>1, AdminInductive, PTL

\* A task put back by one of these tools launches a worker run that it did not
\* have when it was put back (FreshAfterRestart): no run of an earlier attempt
\* is adopted for the new one.
THEOREM RestartsFresh == ASSUME RenewingOnly PROVE AdminSpec => FreshAfterRestart
<1> DEFINE Fresh(t) ==
      phase[t] = "scheduled" /\ phase'[t] = "initializing" => worker'[t].run \notin used[t]
<1>1. Settled /\ [AdminNext]_allvars => [\A t \in Tasks \ raced : Fresh(t)]_allvars
  <2> SUFFICES ASSUME Settled, [AdminNext]_allvars, NEW t \in Tasks \ raced,
                      phase[t] = "scheduled", phase'[t] = "initializing"
               PROVE  worker'[t].run \notin used[t]
    OBVIOUS
  <2>1. Typed /\ Near /\ UsedNear(t) /\ t \in Tasks
    BY DEF Settled
  <2>2. t \notin raced'
    <3>1. CASE Writes
      <4>1. raced' \subseteq raced \cup {call.task} /\ phase'[call.task] = call.to
        BY <2>1, <3>1, WritesFacts
      <4>2. call # NoCall /\ call.to # "initializing"
        BY <2>1, <3>1 DEF Writes, Typed, CallTyped, Targets
      <4> QED
        BY <4>1, <4>2
    <3>2. CASE ~Writes
      BY <2>1, <3>2, AdminSteps DEF admin, Reads, Creates, CreateFails, Fails
    <3> QED
      BY <3>1, <3>2
  <2>3. Still(t) \/ ByPass(t) \/ ByCall(t) \/ ByFailure(t) \/ ByPromotion(t)
    BY <2>1, <2>2, Changes
  <2>4. ByPass(t)
    BY <2>3 DEF Still, ByCall, ByFailure, ByPromotion, Renewed
  <2>5. worker'[t].run = WorkerRun(t, worker[t])
    BY <2>4 DEF ByPass, Current, Names
  <2>6. ASSUME worker'[t].run \in used[t] PROVE FALSE
    <3> DEFINE x == WorkerRun(t, worker[t])
    <3>1. Before(<<x.r, x.a>>, AttemptOf(worker[t]))
      BY <2>1, <2>5, <2>6 DEF UsedNear
    <3>2. <<x.r, x.a>> = AttemptOf(worker[t])
      BY DEF WorkerRun, AttemptOf
    <3>3. AttemptOf(worker[t]) \in Int \X Int
      BY <2>1, Counters DEF Typed, TypeOK
    <3> QED
      BY <3>1, <3>2, <3>3, Order DEF Before
  <2> QED
    BY <2>6
<1> QED
  BY <1>1, AdminInductive, PTL DEF AdminSpec, FreshAfterRestart
=============================================================================
