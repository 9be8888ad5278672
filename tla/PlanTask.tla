------------------------------ MODULE PlanTask ------------------------------
(***************************************************************************)
(* One PLAN task from the approval of its plan to the integration of its   *)
(* feature branch: the PLAN side of the decision engine                    *)
(* (reconciler/decision.ts) and of the effect executor                     *)
(* (reconciler/effects.ts), the polling of its GitHub pull request         *)
(* (reconciler/observations.ts), the runs it launches, its BUILD children, *)
(* its human and GitHub.                                                   *)
(*                                                                         *)
(* As in BuildTask a decision rests on a list of the tasks read earlier    *)
(* (seen) and is carried out in three writes (pass).  The list holds the   *)
(* phase and the worker status as they are, the reconciler being their     *)
(* only writer here; the annotations and the children may have changed.    *)
(*                                                                         *)
(* Left out: the planning runs themselves (BuildTask has the same code),   *)
(* the work of the children, automatic retries (off by default), texts.    *)
(***************************************************************************)
EXTENDS Integers, FiniteSets, TaskPhases

CONSTANTS
  Flows,       \* the settings of the integration, one of which holds
  HumanActs,   \* the annotations the human writes, by the flow and the phase
  Troubles,    \* what may happen to a run, by the flow and its kind: "fails", "stalls",
               \* "deleted", "unread"
  Endings,     \* how a child may end, by the flow: "merged", "abandoned", "unmerged"
  MaxBuilds,   \* bound: BUILD tasks the generation creates
  MaxChildren, \* bound: children on record, of both kinds
  MaxRequests, \* bound: requests for changes
  MaxFeedback, \* bound: requests, and comments on the pull requests, together
  MaxPRs,      \* bound: pull requests
  NoRun, NoChild, NoCycle

VARIABLES
  flow,     \* flow.integration.mode; "disabled" without feature branching;
            \* "plan-only" is flow.plan.onApprove = 'done'
  phase,    \* status.phase of the PLAN task
  worker,   \* its status.worker
  notes,    \* its action annotations; changes is the request's feedback, 0 if none
  children, \* the BUILD tasks whose parentTaskRef it is, and how they are
  runs,     \* the runs it launched: a function from the names in use
  prs,      \* its pull requests on GitHub, by number
  posted,   \* the comments posted on them, in the order of their time
  seen,     \* the reconcile cycle: what the list says
  pass,     \* the decision being carried out, executeEffects
  asked,    \* history: the requests for changes made so far
  lapsed,   \* history: the requests acted on that were not cleared
  landed,   \* history: the children whose work is on the target branch
  handed    \* history: the comments an evaluation was told to read

ASSUME BoundsAssumption ==
  /\ MaxBuilds \in Nat /\ MaxChildren \in Nat /\ MaxRequests \in Nat
  /\ MaxFeedback \in Nat /\ MaxPRs \in Nat
  /\ Flows \subseteq {"auto-merge", "pr", "manual", "disabled", "plan-only"}

plan == <<flow, phase, worker>>
github == <<prs, posted>>
history == <<asked, lapsed, landed, handed>>
vars == <<flow, phase, worker, notes, children, runs, prs, posted, seen, pass,
          asked, lapsed, landed, handed>>

-----------------------------------------------------------------------------
(* Names.  A run's name is a hash of its kind, and of the newest comment   *)
(* for an evaluation; a follow-up's of the pull request and the round.     *)

RunId == [kind : {"buildgen", "merge", "pr", "preval"}, round : Nat]
BuildGen == [kind |-> "buildgen", round |-> 0]
MergeRun == [kind |-> "merge", round |-> 0]
PrOpen == [kind |-> "pr", round |-> 0]
EvalRun(newest) == [kind |-> "preval", round |-> newest]

Child == [by : {"buildgen", "comment", "request"}, pr : Nat, round : Nat, text : Nat]
BuildOf(n) == [by |-> "buildgen", pr |-> 0, round |-> n, text |-> 0]
FollowUpOfComments(w) == [by |-> "comment", pr |-> w.pr, round |-> w.watermark, text |-> 0]
\* With the number of children there are for the round.
FollowUpOfRequest_PerChild(w, feedback) ==
  [by |-> "request", pr |-> w.pr, round |-> Cardinality(DOMAIN children), text |-> feedback]
\* The round is the number of children on record.
FollowUpOfRequest(w, feedback) ==
  [by |-> "request", pr |-> w.pr, round |-> Cardinality(w.refs), text |-> feedback]

ASSUME NamesAssumption == NoRun \notin RunId /\ NoChild \notin Child

\* "unmerged" is done, neither merged nor abandoned.
ChildState == {"open", "merged", "abandoned", "unmerged"}
RunPhase == {"Pending", "Running", "Stale", "Succeeded", "Failed"}
Terminal == {"Succeeded", "Failed"}

Verdicts(kind) ==
  CASE kind = "buildgen" -> {"none"}
    [] kind = "merge" -> {"none", "landed", "retryable", "conflict"}
    [] kind = "pr" -> {"none", "opened", "landed", "retryable", "conflict"}
    [] kind = "preval" -> {"none", "approve", "changes"}

\* pr: the pull request the run was told of; covers: the children merged into
\* the feature branch when it was created.
Run == [phase : RunPhase,
        verdict : {"none", "landed", "opened", "retryable", "conflict", "approve", "changes"},
        pr : Nat, covers : SUBSET Child]

Observed(x) == IF x \in DOMAIN runs THEN runs[x].phase ELSE "Gone"
VerdictOf(x) == IF x \in DOMAIN runs THEN runs[x].verdict ELSE "none"

Worker == [buildgen : RunId \cup {NoRun}, created : BOOLEAN,
           refs : SUBSET Child, merge : RunId \cup {NoRun}, mergeError : BOOLEAN,
           pr : Nat, eval : RunId \cup {NoRun}, watermark : Nat,
           merged : BOOLEAN, abandoned : BOOLEAN]

NewWorker == [buildgen |-> NoRun, created |-> FALSE, refs |-> {},
              merge |-> NoRun, mergeError |-> FALSE, pr |-> 0, eval |-> NoRun,
              watermark |-> 0, merged |-> FALSE, abandoned |-> FALSE]

NoNotes == [approved |-> FALSE, abandon |-> FALSE, changes |-> 0]

\* The function f with the value v at x.
Put(f, x, v) == [y \in DOMAIN f \cup {x} |-> IF y = x THEN v ELSE f[y]]

\* A JSON merge patch: the fields it names are replaced.
Merge(current, patch) ==
  [f \in DOMAIN current |-> IF f \in DOMAIN patch THEN patch[f] ELSE current[f]]

\* No decision is being carried out.
NoPass == [stage |-> "none"]

\* The first plan awaits the human.
Init ==
  /\ flow \in Flows
  /\ phase = "awaiting-human" /\ worker = NewWorker /\ notes = NoNotes
  /\ children = [c \in {} |-> "open"] /\ runs = [x \in {} |-> NoRun]
  /\ prs = [n \in {} |-> NoRun] /\ posted = [c \in {} |-> 0]
  /\ seen = NoCycle /\ pass = NoPass
  /\ asked = 0 /\ lapsed = {} /\ landed = {} /\ handed = {}

\* One child that is done is enough.
Done_Some(S) == \E c \in DOMAIN S : S[c] # "open"
Done(S) == \A c \in DOMAIN S : S[c] # "open"

-----------------------------------------------------------------------------
(* The reconcile cycle and the decisions.                                  *)

StartCycle ==
  /\ seen = NoCycle /\ pass = NoPass /\ phase # "done"
  /\ seen' = [notes |-> notes, children |-> children]
  /\ UNCHANGED <<plan, notes, children, runs, github, pass, history>>

NoPatch == [f \in {} |-> NoRun]

\* to = "stay" is a decision without toPhase.
Move(to) ==
  [stage |-> "effects", from |-> phase, to |-> to, patch |-> NoPatch,
   create |-> NoRun, discard |-> NoRun, child |-> NoChild, clear |-> NoNotes]

\* getConsumedAnnotationKeys: every annotation seen is consumed.
Consuming(move) == [move EXCEPT !.clear = seen.notes]

WantsChanges == ~seen.notes.abandon /\ seen.notes.changes # 0
Approved == ~seen.notes.abandon /\ seen.notes.changes = 0 /\ seen.notes.approved

\* decideChildrenCompleteNext
ChildrenComplete ==
  CASE flow \in {"disabled", "plan-only"} -> Move("done")
    [] flow = "manual" -> Move("awaiting-human")
    [] flow = "pr" -> [Move("awaiting-feature-merge") EXCEPT
                         !.patch = [merge |-> PrOpen], !.create = PrOpen]
    [] flow = "auto-merge" -> [Move("awaiting-feature-merge") EXCEPT
                                 !.patch = [merge |-> MergeRun], !.create = MergeRun]

\* The number of the pull request is kept as a name.
RetryMerge_Unset ==
  [Move("awaiting-feature-merge") EXCEPT
     !.patch = [merge |-> NoRun, mergeError |-> FALSE, pr |-> NoRun]]
RetryMerge ==
  [Move("awaiting-feature-merge") EXCEPT
     !.patch = [merge |-> NoRun, mergeError |-> FALSE, pr |-> 0]]

\* Only children that landed are taken up again.
Resumes_IfLanded ==
  /\ worker.created /\ DOMAIN seen.children # {}
  /\ \A c \in DOMAIN seen.children : seen.children[c] = "merged"
\* The children of an earlier approval are all done: they are integrated.
Resumes == worker.created /\ DOMAIN seen.children # {} /\ Done(seen.children)

\* The build generation needs a free slot, which other tasks may hold.
DecideAwaitingHuman ==
  /\ phase = "awaiting-human"
  /\ \/ /\ seen.notes.abandon
        /\ pass' = Consuming([Move("done") EXCEPT !.patch = [abandoned |-> TRUE]])
     \/ /\ WantsChanges
        /\ pass' = Consuming(Move("rework-requested"))
     \/ Approved /\ worker.mergeError /\ pass' = Consuming(RetryMerge)
     \/ Approved /\ ~worker.mergeError /\ Resumes /\ pass' = Consuming(ChildrenComplete)
     \/ /\ Approved /\ ~worker.mergeError /\ ~Resumes
        /\ \/ flow = "plan-only" /\ pass' = Consuming(Move("done"))
           \/ flow # "plan-only" /\ pass' = Consuming(Move("generating-builds"))

\* A generation whose run vanished is waited for.
DecideGeneratingBuilds ==
  LET run == Observed(worker.buildgen)
      built == DOMAIN seen.children IN
  /\ phase = "generating-builds"
  /\ \/ /\ worker.buildgen = NoRun
        /\ pass' = [Move("stay") EXCEPT !.patch = [buildgen |-> BuildGen], !.create = BuildGen]
     \/ /\ run = "Failed" \/ (run = "Succeeded" /\ built = {})
        /\ pass' = [Move("awaiting-human") EXCEPT !.patch = [buildgen |-> NoRun]]
     \/ /\ run = "Succeeded" /\ built # {}
        /\ pass' = [Move("awaiting-children") EXCEPT
                      !.patch = [created |-> TRUE, refs |-> built]]

\* childSatisfiesGate; children are merged only where there are feature branches.
SatisfiesGate(how) == how # "unmerged" \/ flow \in {"disabled", "plan-only"}
AllSatisfyGate == \A c \in DOMAIN seen.children : SatisfiesGate(seen.children[c])

DecideAwaitingChildren ==
  /\ phase = "awaiting-children"
  /\ \/ DOMAIN seen.children = {} /\ pass' = Move("awaiting-human")
     \/ /\ DOMAIN seen.children # {} /\ Done(seen.children)
        /\ \/ ~AllSatisfyGate /\ pass' = Move("awaiting-human")
           \/ AllSatisfyGate /\ pass' = ChildrenComplete

\* A run that ends without a verdict is believed.
Landed_Trusting(verdict) == verdict \in {"landed", "none"}
Landed(verdict) == verdict = "landed"

\* Without a run on record one is scheduled and the task stays.
DecideIntegrationRun ==
  LET x == IF flow = "pr" THEN PrOpen ELSE MergeRun IN
  /\ phase = "awaiting-feature-merge" /\ worker.merge = NoRun /\ worker.pr = 0
  /\ pass' = [Move("stay") EXCEPT !.patch = [merge |-> x], !.create = x]

\* The pull request a run with the verdict "opened" reports is read from the
\* run; no report of it, no verdict and a conflict go to the human.  The error
\* kept of a failed run is its message: all that write Failed write one with it.
DecideIntegrationOutcome ==
  LET run == Observed(worker.merge)
      verdict == VerdictOf(worker.merge)
      failure == [Move("failed") EXCEPT !.patch = [mergeError |-> TRUE]]
      escalation == [failure EXCEPT !.to = "awaiting-human"] IN
  /\ phase = "awaiting-feature-merge" /\ worker.merge # NoRun
  /\ \/ run = "Gone" /\ pass' = failure
     \/ run = "Stale" /\ pass' = [failure EXCEPT !.discard = worker.merge]
     \/ run = "Failed" /\ pass' = escalation
     \/ /\ run = "Succeeded" /\ verdict = "opened"
        /\ pass' = [Move("stay") EXCEPT
                      !.patch = [pr |-> runs[worker.merge].pr, merge |-> NoRun]]
     \/ /\ run = "Succeeded" /\ Landed(verdict)
        /\ pass' = [Move("done") EXCEPT !.patch = [merged |-> TRUE]]
     \/ run = "Succeeded" /\ verdict = "retryable" /\ pass' = failure
     \/ run = "Succeeded" /\ verdict \in {"conflict", "none"} /\ pass' = escalation

Polls == phase = "awaiting-feature-merge" /\ worker.merge = NoRun /\ worker.pr # 0

\* Only while no evaluation is under way.
DecidePrClosed_AfterEval ==
  /\ Polls /\ worker.eval = NoRun
  /\ \/ /\ prs[worker.pr].state = "merged"
        /\ pass' = [Move("done") EXCEPT !.patch = [merged |-> TRUE]]
     \/ /\ prs[worker.pr].state = "closed"
        /\ pass' = [Move("awaiting-human") EXCEPT !.patch = [mergeError |-> TRUE, pr |-> 0]]

\* decidePrStateOutcome, once the poll says that the pull request is closed: an
\* evaluation is moot.  A poll that fails or answers from its cache says less,
\* and so the decisions below do not need the pull request open.
DecidePrClosed ==
  LET move(to) == [Move(to) EXCEPT !.discard = worker.eval] IN
  /\ Polls
  /\ \/ /\ prs[worker.pr].state = "merged"
        /\ pass' = [move("done") EXCEPT !.patch = [merged |-> TRUE, eval |-> NoRun]]
     \/ /\ prs[worker.pr].state = "closed"
        /\ pass' = [move("awaiting-human") EXCEPT
                      !.patch = [mergeError |-> TRUE, pr |-> 0, eval |-> NoRun]]

MayGrow == Cardinality(worker.refs) < MaxChildren

\* prFollowUpDecision
FollowUp(c) ==
  [Move("awaiting-children") EXCEPT
     !.patch = [refs |-> worker.refs \cup {c}], !.child = c]

\* decidePrFeedbackEvalOutcome.  The follow-up of the comments covers a
\* request of the human made meanwhile, and consumes it.
DecideEvaluation ==
  LET run == Observed(worker.eval)
      verdict == VerdictOf(worker.eval)
      over == [Move("stay") EXCEPT !.patch = [eval |-> NoRun]]
      followUp == [FollowUp(FollowUpOfComments(worker)) EXCEPT
                     !.patch = [refs |-> @.refs, eval |-> NoRun]] IN
  /\ Polls /\ worker.eval # NoRun
  /\ \/ run \in {"Gone", "Failed"} /\ pass' = over
     \/ run = "Stale" /\ pass' = [over EXCEPT !.discard = worker.eval]
     \/ run = "Succeeded" /\ verdict # "changes" /\ pass' = over
     \/ /\ run = "Succeeded" /\ verdict = "changes" /\ MayGrow
        /\ pass' = IF seen.notes.changes # 0 THEN Consuming(followUp) ELSE followUp

\* A request for changes on the pull request, ahead of the comments.
DecideScopeChange ==
  /\ Polls /\ worker.eval = NoRun /\ seen.notes.changes # 0 /\ MayGrow
  /\ pass' = Consuming(FollowUp(FollowUpOfRequest(worker, seen.notes.changes)))

\* The comments a poll may return: those cached, and each of the three feeds
\* it reads may fail.
CommentsOn(n) == {c \in DOMAIN posted : posted[c] = n}
\* The watermark of the next comment to come.
Newer_OffByOne(S) == {c \in S : c > worker.watermark + 1}
Newer(S) == {c \in S : c > worker.watermark}
Latest(S) == CHOOSE c \in S : \A d \in S : d <= c

DecideComments ==
  /\ Polls /\ worker.eval = NoRun /\ seen.notes.changes = 0
  /\ \E S \in SUBSET CommentsOn(worker.pr) :
       LET x == EvalRun(Latest(Newer(S))) IN
       /\ Newer(S) # {}
       /\ pass' = [Move("stay") EXCEPT
                     !.patch = [eval |-> x, watermark |-> x.round], !.create = x]

\* The failure was the merge's if one is on record.
DecideFailed ==
  /\ phase = "failed" /\ seen.notes.approved
  /\ pass' = Consuming(IF worker.mergeError \/ worker.merge # NoRun
                       THEN RetryMerge
                       ELSE Move("awaiting-human"))

Decide ==
  \/ DecideAwaitingHuman \/ DecideGeneratingBuilds \/ DecideAwaitingChildren
  \/ DecideIntegrationRun \/ DecideIntegrationOutcome \/ DecidePrClosed
  \/ DecideEvaluation \/ DecideScopeChange \/ DecideComments \/ DecideFailed

Visit ==
  /\ seen # NoCycle
  /\ seen' = NoCycle
  /\ Decide
  /\ UNCHANGED <<plan, notes, children, runs, github, history>>

\* No decision, no free slot, a failed read, or the manager stopped.
PassOver ==
  /\ seen # NoCycle
  /\ seen' = NoCycle
  /\ UNCHANGED <<plan, notes, children, runs, github, pass, history>>

-----------------------------------------------------------------------------
(* The effect executor. *)

InStage(s) == pass # NoPass /\ pass.stage = s

\* The guards of a transition, against a fresh read of the task.
StillValid == pass.to # "stay" => IsValidTransition(pass.from, pass.to)

\* The rule of the generation for every run: what succeeded is adopted.
Replaceable_Failed(x) == x.kind # "preval" /\ runs[x].phase = "Failed"
\* A taken name is adopted, except that a failed generation and a terminal
\* integration run are replaced.
Replaceable(x) ==
  \/ x = BuildGen /\ runs[x].phase = "Failed"
  \/ x \in {MergeRun, PrOpen} /\ runs[x].phase \in Terminal

MergedChildren == {c \in DOMAIN children : children[c] = "merged"}

With(x) ==
  Put(runs, x, [phase |-> "Pending", verdict |-> "none", pr |-> worker.pr,
                covers |-> MergedChildren])

Without(x) == [y \in DOMAIN runs \ {x} |-> runs[y]]

Meets(x, trouble) == <<flow, x.kind, trouble>> \in Troubles

\* The read of a taken name fails: what is there is adopted, whatever it is.
Unread == {x \in DOMAIN runs : Meets(x, "unread")}

\* A child that exists is left as it is.
WithChild(c) == IF c \in DOMAIN children THEN children ELSE Put(children, c, "open")

\* The newest comment polled is named, as if it were the watermark.
Told_SinceNewest(x) ==
  IF x.kind = "preval" THEN {c \in CommentsOn(worker.pr) : c > x.round} ELSE {}
\* buildPrFeedbackEvalRun: the agent is told to read, of all the feeds of the
\* pull request, the comments since the watermark of the round before.
Told(x) ==
  IF x.kind = "preval" THEN {c \in CommentsOn(worker.pr) : c > worker.watermark} ELSE {}

RunEffects ==
  /\ InStage("effects") /\ StillValid
  /\ LET x == pass.create
         launches == x # NoRun /\ (x \in DOMAIN runs => Replaceable(x)) IN
     \/ /\ runs' = IF launches THEN With(x) ELSE Without(pass.discard)
        /\ handed' = IF launches THEN handed \cup Told(x) ELSE handed
     \/ x \in Unread /\ UNCHANGED <<runs, handed>>
  /\ children' = IF pass.child = NoChild THEN children ELSE WithChild(pass.child)
  /\ pass' = [pass EXCEPT !.stage = "patch"]
  /\ UNCHANGED <<plan, notes, github, seen, asked, lapsed, landed>>

\* createRun fails after the leftover of its name was deleted.
FailReplacing ==
  /\ InStage("effects") /\ StillValid
  /\ pass.create \in DOMAIN runs /\ Replaceable(pass.create)
  /\ runs' = Without(pass.create)
  /\ pass' = NoPass
  /\ UNCHANGED <<plan, notes, children, github, seen, history>>

WriteStatus ==
  /\ InStage("patch")
  /\ phase' = IF pass.to = "stay" THEN phase ELSE pass.to
  /\ worker' = Merge(worker, pass.patch)
  /\ UNCHANGED <<flow, notes, children, runs, github, seen, asked, landed, handed>>

PatchStatus ==
  /\ WriteStatus
  /\ pass' = IF pass.clear = NoNotes THEN NoPass ELSE [pass EXCEPT !.stage = "clear"]
  /\ UNCHANGED lapsed

\* The consumed annotations stay on the task.
Lapse == lapsed' = lapsed \cup ({pass.clear.changes} \ {0})

\* The write lands and its answer is lost: nothing is cleared.
PatchUnanswered ==
  /\ WriteStatus
  /\ pass' = NoPass
  /\ Lapse

\* A key consumed is deleted whatever it holds by now.
ClearTaskAnnotations ==
  /\ InStage("clear")
  /\ notes' = [k \in DOMAIN notes |-> IF pass.clear[k] # NoNotes[k] THEN NoNotes[k]
                                                                 ELSE notes[k]]
  /\ pass' = NoPass
  /\ UNCHANGED <<plan, children, runs, github, seen, history>>

\* A guard, an effect, a write or the clearing fails, or the manager stops:
\* what was done stays done.
Abort ==
  /\ pass # NoPass
  /\ pass' = NoPass
  /\ IF InStage("clear") THEN Lapse ELSE UNCHANGED lapsed
  /\ UNCHANGED <<plan, notes, children, runs, github, seen, asked, landed, handed>>

Manager ==
  \/ StartCycle \/ Visit \/ PassOver
  \/ RunEffects \/ FailReplacing \/ PatchStatus \/ PatchUnanswered
  \/ ClearTaskAnnotations \/ Abort

-----------------------------------------------------------------------------
(* The human, and the planning rounds of BuildTask. *)

\* A write to the task makes a clearing in flight conflict, and nothing
\* repeats it.
Annotate(new) ==
  /\ new # notes
  /\ notes' = new
  /\ IF InStage("clear") THEN pass' = NoPass /\ Lapse ELSE UNCHANGED <<pass, lapsed>>
  /\ UNCHANGED <<plan, children, runs, github, seen, landed, handed>>

May(act) == <<flow, phase, act>> \in HumanActs
Feedback == asked + Cardinality(DOMAIN posted)

\* An approval withdraws a request for changes.
Approve ==
  /\ May("approved")
  /\ Annotate([notes EXCEPT !.approved = TRUE, !.changes = 0])
  /\ UNCHANGED asked

RequestChanges ==
  /\ May("changes") /\ asked < MaxRequests /\ Feedback < MaxFeedback
  /\ Annotate([notes EXCEPT !.changes = asked + 1])
  /\ asked' = asked + 1

Abandon ==
  /\ May("abandon")
  /\ Annotate([notes EXCEPT !.abandon = TRUE])
  /\ UNCHANGED asked

\* A new plan, reviewed or not, or a planning run that fails.
PlanningRound ==
  /\ phase = "rework-requested" /\ seen = NoCycle /\ pass = NoPass
  /\ phase' \in {"awaiting-human", "failed"}
  /\ UNCHANGED <<flow, worker, notes, children, runs, github, seen, pass, history>>

Human == Approve \/ RequestChanges \/ Abandon

-----------------------------------------------------------------------------
(* The runs and the children. *)

RunTurns(x, from, to, verdict) ==
  /\ runs[x].phase \in from
  /\ runs' = [runs EXCEPT ![x].phase = to, ![x].verdict = verdict]

Quiet == UNCHANGED <<plan, notes, children, github, seen, pass, history>>

RunStarts(x) == RunTurns(x, {"Pending"}, "Running", "none") /\ Quiet
RunStalls(x) ==
  Meets(x, "stalls") /\ RunTurns(x, {"Running"}, "Stale", "none") /\ Quiet
RunFails(x) ==
  Meets(x, "fails") /\ RunTurns(x, RunPhase \ Terminal, "Failed", "none") /\ Quiet

\* A merge run that landed the feature branch says so.
RunSucceeds(x) ==
  \E v \in Verdicts(x.kind) \ {"opened"} :
    /\ RunTurns(x, {"Running", "Stale"}, "Succeeded", v)
    /\ landed' = IF v = "landed" THEN landed \cup runs[x].covers ELSE landed
    /\ UNCHANGED <<plan, notes, children, github, seen, pass, asked, lapsed, handed>>

OpenPRs == {n \in DOMAIN prs : prs[n].state = "open"}
Publish(n, head) == prs' = Put(prs, n, [state |-> "open", head |-> head])
Reports(x, n) ==
  /\ runs[x].phase \in {"Running", "Stale"}
  /\ runs' = [runs EXCEPT ![x].phase = "Succeeded", ![x].verdict = "opened", ![x].pr = n]
  /\ UNCHANGED <<plan, notes, children, posted, seen, pass, history>>

\* buildPrOpenRun told of a pull request publishes the head and reports that
\* number, whatever has become of it; otherwise it opens one, or finds it open.
PrUpdated(x) ==
  LET n == runs[x].pr IN
  /\ x.kind = "pr" /\ n # 0
  /\ Reports(x, n)
  /\ IF n \in OpenPRs THEN Publish(n, runs[x].covers) ELSE UNCHANGED prs

\* The prompt may set the head back to the branch as it is on the remote, where
\* every merge of a child has been pushed: what it shows is no less.
PrOpened(x) ==
  LET n == IF OpenPRs = {} THEN Cardinality(DOMAIN prs) + 1 ELSE Latest(OpenPRs) IN
  /\ x.kind = "pr" /\ runs[x].pr = 0 /\ n <= MaxPRs
  /\ Reports(x, n)
  /\ Publish(n, runs[x].covers)

RunDeleted(x) ==
  /\ Meets(x, "deleted") /\ runs[x].phase \in Terminal
  /\ runs' = Without(x)
  /\ Quiet

RunSteps(x) ==
  \/ RunStarts(x) \/ RunStalls(x) \/ RunFails(x) \/ RunSucceeds(x)
  \/ PrUpdated(x) \/ PrOpened(x) \/ RunDeleted(x)

Built == {c \in DOMAIN children : c.by = "buildgen"}

\* The agent of the generation creates the BUILD tasks one by one.
BuildTaskCreated ==
  /\ Observed(BuildGen) \in {"Running", "Stale"}
  /\ Cardinality(Built) < MaxBuilds
  /\ children' = WithChild(BuildOf(Cardinality(Built) + 1))
  /\ UNCHANGED <<plan, notes, runs, github, seen, pass, history>>

\* What BuildTask says of a BUILD task, and a task set to done by hand.
ChildEnds(c) ==
  /\ children[c] = "open"
  /\ \E how \in ChildState \ {"open"} :
       <<flow, how>> \in Endings /\ children' = [children EXCEPT ![c] = how]
  /\ UNCHANGED <<plan, notes, runs, github, seen, pass, history>>

-----------------------------------------------------------------------------
(* GitHub. *)

PrEnds(n, how) ==
  /\ n \in OpenPRs
  /\ prs' = [prs EXCEPT ![n].state = how]
  /\ UNCHANGED <<plan, notes, children, runs, posted, seen, pass, asked, lapsed, handed>>

\* Somebody merges what the pull request shows by then.
PrMerged(n) ==
  /\ PrEnds(n, "merged")
  /\ landed' = landed \cup prs[n].head

PrClosed(n) == PrEnds(n, "closed") /\ UNCHANGED landed

Comment(n) ==
  /\ n \in OpenPRs /\ Feedback < MaxFeedback
  /\ posted' = Put(posted, Cardinality(DOMAIN posted) + 1, n)
  /\ UNCHANGED <<plan, notes, children, runs, prs, seen, pass, history>>

GitHub == \E n \in DOMAIN prs : PrMerged(n) \/ PrClosed(n) \/ Comment(n)

Next ==
  \/ Manager \/ Human \/ PlanningRound \/ BuildTaskCreated \/ GitHub
  \/ \E x \in DOMAIN runs : RunSteps(x)
  \/ \E c \in DOMAIN children : ChildEnds(c)

Spec == Init /\ [][Next]_vars

-----------------------------------------------------------------------------
(* What the reconciler guarantees. *)

PR == [state : {"open", "closed", "merged"}, head : SUBSET Child]
Notes == [approved : BOOLEAN, abandon : BOOLEAN, changes : Nat]

Pass(patch) == [stage : {"effects", "patch", "clear"}, from : TaskPhase,
                to : TaskPhase \cup {"stay"}, patch : {patch},
                create : RunId \cup {NoRun}, discard : RunId \cup {NoRun},
                child : Child \cup {NoChild}, clear : Notes]

\* Types.
TypeOK ==
  /\ flow \in Flows /\ phase \in TaskPhase
  /\ worker \in Worker /\ notes \in Notes
  /\ DOMAIN children \subseteq Child /\ \A c \in DOMAIN children : children[c] \in ChildState
  /\ DOMAIN runs \subseteq RunId /\ \A x \in DOMAIN runs : runs[x] \in Run
  /\ DOMAIN prs \subseteq Nat /\ \A n \in DOMAIN prs : prs[n] \in PR
  /\ DOMAIN posted \subseteq Nat /\ \A c \in DOMAIN posted : posted[c] \in DOMAIN prs
  /\ seen = NoCycle \/ (seen.notes \in Notes /\ DOMAIN seen.children \subseteq Child)
  /\ pass = NoPass \/ (pass \in Pass(pass.patch) /\ Merge(worker, pass.patch) \in Worker)
  /\ asked \in Nat /\ lapsed \subseteq Nat /\ landed \subseteq Child /\ handed \subseteq Nat

Integrated == phase = "done" /\ ~worker.abandoned /\ flow # "plan-only"

\* No child the PLAN has on record, and none of the generation, is still open
\* when the PLAN is done.
DoneMeansBuilt ==
  Integrated => \A c \in worker.refs \cup Built : c \in DOMAIN children => children[c] # "open"

\* With auto-merge, the work merged into the feature branch is on the target
\* branch when the PLAN is done: the merge whose verdict decides is one that
\* started after the last child was done, though its name is used again.
DoneMeansLanded ==
  Integrated /\ flow = "auto-merge" => MergedChildren \subseteq landed

\* While the reconciler waits for the reviewers, the open pull request shows
\* them the work of every child on record.
PrShowsTheWork ==
  Polls /\ prs[worker.pr].state = "open"
    => worker.refs \cap MergedChildren \subseteq prs[worker.pr].head

\* "a retry cannot create a duplicate" (docs/task-lifetime.md): a request for
\* changes makes one follow-up, unless its annotation could not be cleared.
OneFollowUpPerRequest ==
  \A k \in 1..asked \ lapsed :
    Cardinality({c \in DOMAIN children : c.by = "request" /\ c.text = k}) <= 1

\* The watermark passes no comment on an open pull request that was not handed
\* to an evaluation, though a poll may miss older comments and return newer ones:
\* "comments only ever arrive late" (github-client.ts).
NoCommentSkipped ==
  \A c \in DOMAIN posted :
    c <= worker.watermark /\ prs[posted[c]].state = "open" => c \in handed

\* An approval never falls through to a second generation while there are
\* children on record (decision.ts).
GeneratedOnce ==
  [][PatchStatus /\ phase' = "generating-builds"
       => worker.refs \cap DOMAIN children = {}]_vars

-----------------------------------------------------------------------------
(* What eventually happens.  Cycles keep starting and are carried out, no  *)
(* failure hits every attempt, a poll gets through.  Nothing is assumed of *)
(* the runs, the human, the children or GitHub.                            *)

Fairness ==
  /\ WF_vars(StartCycle) /\ SF_vars(Visit) /\ WF_vars(PassOver)
  /\ SF_vars(RunEffects) /\ SF_vars(PatchStatus) /\ WF_vars(ClearTaskAnnotations)

FairSpec == Spec /\ Fairness

\* A pull request closed or merged while the reconciler polls it, whatever an
\* evaluation of its comments is up to, ends the wait for it.
PrOutcomeNoticed == Polls /\ prs[worker.pr].state # "open" ~> ~Polls

\* The evaluations of comments come to an end, by themselves or by the deadline
\* of their pods.
EvaluationsEnd ==
  /\ WF_vars(\E x \in DOMAIN runs : x.kind = "preval" /\ RunStarts(x))
  /\ WF_vars(\E x \in DOMAIN runs : x.kind = "preval" /\ (RunSucceeds(x) \/ RunFails(x)))

CommentsSpec == FairSpec /\ EvaluationsEnd

\* Every comment on the polled pull request is handed to an evaluation, also one
\* that comes while another is under way or that a poll has missed, so that in
\* the end none is left, unless the wait for the pull request ends.
CommentsHandedOn ==
  Polls /\ ~(CommentsOn(worker.pr) \subseteq handed)
    ~> CommentsOn(worker.pr) \subseteq handed \/ ~Polls \/ ~MayGrow

=============================================================================
