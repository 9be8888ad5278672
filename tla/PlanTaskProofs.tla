--------------------------- MODULE PlanTaskProofs ---------------------------
(***************************************************************************)
(* Proofs about PlanTask, for any flow settings, human acts, troubles of   *)
(* the runs, ends of the children and bounds.                              *)
(***************************************************************************)
EXTENDS PlanTask, FiniteSetTheorems, WellFoundedInduction, TLAPS

-----------------------------------------------------------------------------
(* The operators of the model. *)

\* The sets 1..n.
Numbered(S) == \E n \in Nat : S = 1..n

\* The next number.
LEMMA NextNumber ==
  ASSUME NEW S, Numbered(S)
  PROVE  /\ S \subseteq Nat
         /\ Cardinality(S) + 1 \in Nat \ {0}
         /\ Numbered(S \cup {Cardinality(S) + 1})
<1>1. PICK n \in Nat : S = 1..n
  BY DEF Numbered
<1>2. Cardinality(S) = n
  BY <1>1, FS_Interval
<1>3. S \cup {n + 1} = 1 .. (n + 1)
  BY <1>1
<1> QED
  BY <1>1, <1>2, <1>3 DEF Numbered

\* The latest of some numbers is one of them.
LEMMA LatestIsOne ==
  ASSUME NEW D, Numbered(D), NEW S \in SUBSET D, S # {}
  PROVE  Latest(S) \in S
<1>0. PICK n \in Nat : D = 1..n
  BY DEF Numbered
<1> DEFINE T == {k \in Nat : n - k \in S}
           R == OpToRel(<, Nat)
<1>1. PICK s : s \in S
  OBVIOUS
<1>2. s \in Nat /\ n - s \in Nat /\ n - (n - s) = s
  BY <1>0, <1>1
<1>3. n - s \in T
  BY <1>1, <1>2
<1>4. \A x, y \in Nat : <<x, y>> \in R <=> x < y
  BY DEF OpToRel
<1>5. IsWellFoundedOn(R, Nat)
  BY NatLessThanWellFounded
<1>6. T \subseteq Nat /\ T # {}
  BY <1>3
<1> HIDE DEF R, T
<1>7. PICK m \in T : \A y \in T : ~(<<y, m>> \in R)
  BY <1>5, <1>6, WFMin
<1>8. n - m \in S /\ m \in Nat
  BY DEF T
<1>9. \A d \in S : d <= n - m
  <2> TAKE d \in S
  <2>1. n - d \in Nat /\ n - (n - d) = d
    BY <1>0
  <2>2. n - d \in T
    BY <2>1 DEF T
  <2>3. ~(n - d < m)
    BY <2>1, <2>2, <1>4, <1>7, <1>8
  <2> QED
    BY <2>1, <2>3, <1>0, <1>8
<1>10. \E c \in S : \A d \in S : d <= c
  BY <1>8, <1>9
<1> QED
  BY <1>10 DEF Latest

\* The fields of a worker status.
FieldNames == {"buildgen", "created", "refs", "merge", "mergeError", "pr", "eval",
               "watermark", "merged", "abandoned"}

\* A merge patch, field by field.
LEMMA MergeFields ==
  ASSUME NEW w \in Worker, NEW p
  PROVE  LET m == Merge(w, p) IN
         /\ DOMAIN w = FieldNames
         /\ m.buildgen = IF "buildgen" \in DOMAIN p THEN p["buildgen"] ELSE w.buildgen
         /\ m.created = IF "created" \in DOMAIN p THEN p["created"] ELSE w.created
         /\ m.refs = IF "refs" \in DOMAIN p THEN p["refs"] ELSE w.refs
         /\ m.merge = IF "merge" \in DOMAIN p THEN p["merge"] ELSE w.merge
         /\ m.mergeError = IF "mergeError" \in DOMAIN p THEN p["mergeError"] ELSE w.mergeError
         /\ m.pr = IF "pr" \in DOMAIN p THEN p["pr"] ELSE w.pr
         /\ m.abandoned = IF "abandoned" \in DOMAIN p THEN p["abandoned"] ELSE w.abandoned
<1>1. DOMAIN w = FieldNames
  BY DEF Worker, FieldNames
<1> QED
  BY <1>1 DEF Merge, FieldNames

\* A patch that gives the fields it names their types.
PatchOK(p) == Merge(NewWorker, p) \in Worker

\* It leaves a worker status a worker status.
LEMMA MergeType ==
  ASSUME NEW w \in Worker, NEW p, PatchOK(p)
  PROVE  Merge(w, p) \in Worker
<1> DEFINE m == Merge(w, p)
           n == Merge(NewWorker, p)
<1>1. DOMAIN w = FieldNames /\ DOMAIN NewWorker = FieldNames
  BY DEF Worker, NewWorker, FieldNames
<1>2. \A f \in FieldNames : m[f] = w[f] \/ m[f] = n[f]
  BY <1>1 DEF Merge
<1>3. m = [buildgen |-> m.buildgen, created |-> m.created, refs |-> m.refs,
           merge |-> m.merge, mergeError |-> m.mergeError, pr |-> m.pr, eval |-> m.eval,
           watermark |-> m.watermark, merged |-> m.merged, abandoned |-> m.abandoned]
  BY <1>1 DEF Merge, FieldNames
<1>4. n \in Worker
  BY DEF PatchOK
<1> HIDE DEF m, n
<1>5. m \in Worker
  BY <1>2, <1>3, <1>4 DEF Worker, FieldNames
<1> QED
  BY <1>5 DEF m

\* A merge patch of the fields of a worker status is one.
LEMMA FieldsType ==
  ASSUME NEW p,
         "buildgen" \in DOMAIN p => p["buildgen"] \in RunId \cup {NoRun},
         "created" \in DOMAIN p => p["created"] \in BOOLEAN,
         "refs" \in DOMAIN p => p["refs"] \in SUBSET Child,
         "merge" \in DOMAIN p => p["merge"] \in RunId \cup {NoRun},
         "mergeError" \in DOMAIN p => p["mergeError"] \in BOOLEAN,
         "pr" \in DOMAIN p => p["pr"] \in Nat,
         "eval" \in DOMAIN p => p["eval"] \in RunId \cup {NoRun},
         "watermark" \in DOMAIN p => p["watermark"] \in Nat,
         "merged" \in DOMAIN p => p["merged"] \in BOOLEAN,
         "abandoned" \in DOMAIN p => p["abandoned"] \in BOOLEAN
  PROVE  PatchOK(p)
<1> DEFINE m == Merge(NewWorker, p)
<1>1. DOMAIN NewWorker = FieldNames
  BY DEF NewWorker, FieldNames
<1>2. m = [buildgen |-> m.buildgen, created |-> m.created, refs |-> m.refs,
           merge |-> m.merge, mergeError |-> m.mergeError, pr |-> m.pr, eval |-> m.eval,
           watermark |-> m.watermark, merged |-> m.merged, abandoned |-> m.abandoned]
  BY <1>1 DEF Merge, FieldNames
<1>3. \A f \in FieldNames : m[f] = IF f \in DOMAIN p THEN p[f] ELSE NewWorker[f]
  BY <1>1 DEF Merge
<1> HIDE DEF m
<1>a. /\ NewWorker["buildgen"] = NoRun
      /\ NewWorker["created"] = FALSE
      /\ NewWorker["refs"] = {}
      /\ NewWorker["merge"] = NoRun
      /\ NewWorker["mergeError"] = FALSE
      /\ NewWorker["pr"] = 0
      /\ NewWorker["eval"] = NoRun
      /\ NewWorker["watermark"] = 0
      /\ NewWorker["merged"] = FALSE
      /\ NewWorker["abandoned"] = FALSE
  BY DEF NewWorker
<1>b. /\ m.buildgen = IF "buildgen" \in DOMAIN p THEN p["buildgen"] ELSE NoRun
      /\ m.created = IF "created" \in DOMAIN p THEN p["created"] ELSE FALSE
      /\ m.refs = IF "refs" \in DOMAIN p THEN p["refs"] ELSE {}
      /\ m.merge = IF "merge" \in DOMAIN p THEN p["merge"] ELSE NoRun
      /\ m.mergeError = IF "mergeError" \in DOMAIN p THEN p["mergeError"] ELSE FALSE
      /\ m.pr = IF "pr" \in DOMAIN p THEN p["pr"] ELSE 0
      /\ m.eval = IF "eval" \in DOMAIN p THEN p["eval"] ELSE NoRun
      /\ m.watermark = IF "watermark" \in DOMAIN p THEN p["watermark"] ELSE 0
      /\ m.merged = IF "merged" \in DOMAIN p THEN p["merged"] ELSE FALSE
      /\ m.abandoned = IF "abandoned" \in DOMAIN p THEN p["abandoned"] ELSE FALSE
  BY <1>3, <1>a DEF FieldNames
<1>4. m.buildgen \in RunId \cup {NoRun}
  BY <1>b
<1>5. m.created \in BOOLEAN
  BY <1>b
<1>6. m.refs \in SUBSET Child
  BY <1>b
<1>7. m.merge \in RunId \cup {NoRun}
  BY <1>b
<1>8. m.mergeError \in BOOLEAN
  BY <1>b
<1>9. m.pr \in Nat
  BY <1>b
<1>10. m.eval \in RunId \cup {NoRun}
  BY <1>b
<1>11. m.watermark \in Nat
  BY <1>b
<1>12. m.merged \in BOOLEAN
  BY <1>b
<1>13. m.abandoned \in BOOLEAN
  BY <1>b
<1>14. m \in Worker
  BY <1>2, <1>4, <1>5, <1>6, <1>7, <1>8, <1>9, <1>10, <1>11, <1>12, <1>13 DEF Worker
<1> QED
  BY <1>14 DEF m, PatchOK

-----------------------------------------------------------------------------
(* Types.  What is stored, what a cycle has read, the decision in hand. *)

StoreTyped ==
  /\ flow \in Flows /\ phase \in TaskPhase
  /\ worker \in Worker /\ notes \in Notes
  /\ DOMAIN children \subseteq Child /\ \A c \in DOMAIN children : children[c] \in ChildState
  /\ DOMAIN runs \subseteq RunId /\ \A x \in DOMAIN runs : runs[x] \in Run
  /\ DOMAIN prs \subseteq Nat /\ \A n \in DOMAIN prs : prs[n] \in PR
  /\ DOMAIN posted \subseteq Nat /\ \A c \in DOMAIN posted : posted[c] \in DOMAIN prs
  /\ asked \in Nat /\ lapsed \subseteq Nat /\ landed \subseteq Child

SeenTyped == seen # NoCycle => seen.notes \in Notes /\ DOMAIN seen.children \subseteq Child

PassTyped == pass # NoPass => pass \in Pass(pass.patch) /\ PatchOK(pass.patch)

Typed == StoreTyped /\ SeenTyped /\ PassTyped

\* They are the type invariant.
LEMMA TypedIsType == Typed /\ handed \subseteq DOMAIN posted => TypeOK
<1>1. ASSUME Typed, pass # NoPass
      PROVE  Merge(worker, pass.patch) \in Worker
  BY <1>1, MergeType DEF Typed, StoreTyped, PassTyped
<1> QED
  BY <1>1 DEF Typed, StoreTyped, SeenTyped, PassTyped, TypeOK

\* Its worker status and its phase once the decision in hand is written.
Deciding == pass # NoPass /\ pass.stage \in {"effects", "patch"}
After == Merge(worker, pass.patch)
To == IF pass.to = "stay" THEN phase ELSE pass.to

\* What is on record exists; a cycle and a decision follow each other.
OnRecord ==
  /\ IsFiniteSet(DOMAIN children) /\ Numbered(DOMAIN prs) /\ Numbered(DOMAIN posted)
  /\ worker.refs \subseteq DOMAIN children
  /\ worker.pr \in {0} \cup DOMAIN prs
  /\ \A x \in DOMAIN runs : runs[x].pr \in {0} \cup DOMAIN prs
  /\ seen = NoCycle \/ pass = NoPass
  /\ seen # NoCycle => DOMAIN seen.children \subseteq DOMAIN children
  /\ Deciding =>
       /\ pass.from = phase
       /\ After.refs \subseteq DOMAIN children
            \cup (IF pass.stage = "effects" THEN {pass.child} \ {NoChild} ELSE {})
       /\ After.pr \in {0} \cup DOMAIN prs

-----------------------------------------------------------------------------
(* The decisions: what each comes to.  p is the decision, v the worker     *)
(* status once it is written.                                              *)

\* The run of the integration.
Integration == IF flow = "pr" THEN PrOpen ELSE MergeRun

\* The worker status stays as it is, but for what the proofs do not look at.
Same(v) ==
  /\ v.created = worker.created /\ v.refs = worker.refs /\ v.merge = worker.merge
  /\ v.mergeError = worker.mergeError /\ v.pr = worker.pr

Launches(p, v) ==
  /\ p.create = Integration /\ v.merge = Integration
  /\ v.created = worker.created /\ v.refs = worker.refs
  /\ v.mergeError = worker.mergeError /\ v.pr = worker.pr

\* ChildrenComplete
Integrates(p, v) ==
  \/ flow \in {"disabled", "plan-only"} /\ p.to = "done" /\ p.create = NoRun /\ Same(v)
  \/ flow = "manual" /\ p.to = "awaiting-human" /\ p.create = NoRun /\ Same(v)
  \/ flow \in {"pr", "auto-merge"} /\ p.to = "awaiting-feature-merge" /\ Launches(p, v)

\* RetryMerge
Retries(p, v) ==
  /\ p.to = "awaiting-feature-merge" /\ p.create = NoRun
  /\ v.merge = NoRun /\ ~v.mergeError /\ v.pr = 0
  /\ v.created = worker.created /\ v.refs = worker.refs

AnswersHuman(p, v) ==
  /\ phase = "awaiting-human" /\ p.clear = seen.notes /\ p.child = NoChild
  /\ \/ p.to = "done" /\ p.create = NoRun /\ Same(v) /\ v.abandoned
     \/ p.to = "rework-requested" /\ p.create = NoRun /\ Same(v)
     \/ seen.notes.changes = 0 /\ worker.mergeError /\ Retries(p, v)
     \/ seen.notes.changes = 0 /\ ~worker.mergeError /\ Resumes /\ Integrates(p, v)
     \/ /\ seen.notes.changes = 0 /\ ~worker.mergeError /\ p.create = NoRun /\ Same(v)
        /\ (flow = "plan-only" /\ p.to = "done") \/ (~Resumes /\ p.to = "generating-builds")

Generates(p, v) ==
  /\ phase = "generating-builds" /\ p.clear = NoNotes /\ p.child = NoChild
  /\ \/ p.to = "stay" /\ p.create = BuildGen /\ Same(v)
     \/ /\ Observed(worker.buildgen) \in Terminal /\ p.create = NoRun
        /\ \/ p.to = "awaiting-human" /\ Same(v)
           \/ /\ p.to = "awaiting-children" /\ DOMAIN seen.children # {}
              /\ v.created /\ v.refs = DOMAIN seen.children
              /\ v.merge = worker.merge /\ v.mergeError = worker.mergeError /\ v.pr = worker.pr

Gates(p, v) ==
  /\ phase = "awaiting-children" /\ p.clear = NoNotes /\ p.child = NoChild
  /\ \/ /\ p.to = "awaiting-human" /\ p.create = NoRun /\ Same(v)
        /\ DOMAIN seen.children = {} \/ Done(seen.children)
     \/ DOMAIN seen.children # {} /\ Done(seen.children) /\ Integrates(p, v)

Schedules(p, v) ==
  /\ phase = "awaiting-feature-merge" /\ worker.merge = NoRun /\ worker.pr = 0
  /\ p.to = "stay" /\ p.child = NoChild /\ p.clear = NoNotes /\ Launches(p, v)

Concludes(p, v) ==
  /\ phase = "awaiting-feature-merge" /\ worker.merge # NoRun
  /\ p.create = NoRun /\ p.child = NoChild /\ p.clear = NoNotes
  /\ \/ /\ p.to \in {"failed", "awaiting-human"} /\ v.mergeError
        /\ v.created = worker.created /\ v.refs = worker.refs
        /\ v.merge = worker.merge /\ v.pr = worker.pr
     \/ /\ worker.merge \in DOMAIN runs /\ runs[worker.merge].verdict = "opened"
        /\ p.to = "stay" /\ v.merge = NoRun /\ v.pr = runs[worker.merge].pr
        /\ v.created = worker.created /\ v.refs = worker.refs /\ v.mergeError = worker.mergeError
     \/ /\ worker.merge \in DOMAIN runs /\ runs[worker.merge].verdict = "landed"
        /\ p.to = "done" /\ Same(v)

Closes(p, v) ==
  /\ Polls /\ p.create = NoRun /\ p.child = NoChild /\ p.clear = NoNotes
  /\ \/ p.to = "done" /\ Same(v)
     \/ /\ p.to = "awaiting-human" /\ v.mergeError /\ v.pr = 0
        /\ v.created = worker.created /\ v.refs = worker.refs /\ v.merge = worker.merge

Watches(p, v) ==
  /\ Polls /\ p.to = "stay" /\ p.child = NoChild /\ p.clear = NoNotes /\ Same(v)
  /\ p.create \notin {BuildGen, MergeRun, PrOpen}
  /\ p.create # NoRun => p.create.kind = "preval"

FollowsUp(p, v) ==
  /\ Polls /\ p.to = "awaiting-children" /\ p.create = NoRun
  /\ p.child \in Child /\ p.child.by \in {"comment", "request"}
  /\ v.refs = worker.refs \cup {p.child}
  /\ v.created = worker.created /\ v.merge = worker.merge
  /\ v.mergeError = worker.mergeError /\ v.pr = worker.pr
  /\ p.clear.changes = seen.notes.changes
  /\ p.child.by = "request" =>
       seen.notes.changes # 0 /\ p.child = FollowUpOfRequest(worker, seen.notes.changes)

Recovers(p, v) ==
  /\ phase = "failed" /\ p.clear = seen.notes /\ p.child = NoChild
  /\ \/ (worker.mergeError \/ worker.merge # NoRun) /\ Retries(p, v)
     \/ /\ ~worker.mergeError /\ worker.merge = NoRun
        /\ p.to = "awaiting-human" /\ p.create = NoRun /\ Same(v)

Chosen(p, v) ==
  \/ AnswersHuman(p, v) \/ Generates(p, v) \/ Gates(p, v) \/ Schedules(p, v)
  \/ Concludes(p, v) \/ Closes(p, v) \/ Watches(p, v) \/ FollowsUp(p, v) \/ Recovers(p, v)

\* A decision is typed, and one of these.
Sound(p) ==
  /\ p \in Pass(p.patch) /\ PatchOK(p.patch)
  /\ p.stage = "effects" /\ p.from = phase
  /\ p.clear \in {NoNotes, seen.notes}
  /\ Merge(worker, p.patch).buildgen \in {worker.buildgen, NoRun, BuildGen}
  /\ Chosen(p, Merge(worker, p.patch))

\* A decision as a record.
Decision(to, patch, create, discard, child, clear) ==
  [stage |-> "effects", from |-> phase, to |-> to, patch |-> patch,
   create |-> create, discard |-> discard, child |-> child, clear |-> clear]

\* The ways the decisions are written are this record.
LEMMA FormMove ==
  ASSUME NEW to
  PROVE  Move(to) = Decision(to, NoPatch, NoRun, NoRun, NoChild, NoNotes)
BY DEF Move, Decision

\* The same with a patch.
LEMMA FormPatch ==
  ASSUME NEW to, NEW q
  PROVE  [Move(to) EXCEPT !.patch = q] = Decision(to, q, NoRun, NoRun, NoChild, NoNotes)
BY DEF Move, Decision

\* With a run to create.
LEMMA FormCreate ==
  ASSUME NEW to, NEW q, NEW x
  PROVE  [Move(to) EXCEPT !.patch = q, !.create = x]
           = Decision(to, q, x, NoRun, NoChild, NoNotes)
<1>1. [Move(to) EXCEPT !.patch = q, !.create = x] = [[Move(to) EXCEPT !.patch = q] EXCEPT !.create = x]
  OBVIOUS
<1>2. [Decision(to, q, NoRun, NoRun, NoChild, NoNotes) EXCEPT !.create = x]
        = Decision(to, q, x, NoRun, NoChild, NoNotes)
  BY DEF Decision
<1> QED
  BY <1>1, <1>2, FormPatch

\* With a follow-up to create.
LEMMA FormChild ==
  ASSUME NEW to, NEW q, NEW c
  PROVE  [Move(to) EXCEPT !.patch = q, !.child = c]
           = Decision(to, q, NoRun, NoRun, c, NoNotes)
<1>1. [Move(to) EXCEPT !.patch = q, !.child = c] = [[Move(to) EXCEPT !.patch = q] EXCEPT !.child = c]
  OBVIOUS
<1>2. [Decision(to, q, NoRun, NoRun, NoChild, NoNotes) EXCEPT !.child = c]
        = Decision(to, q, NoRun, NoRun, c, NoNotes)
  BY DEF Decision
<1> QED
  BY <1>1, <1>2, FormPatch

\* With a run to discard.
LEMMA FormDiscard ==
  ASSUME NEW to, NEW q, NEW d
  PROVE  /\ [Decision(to, q, NoRun, NoRun, NoChild, NoNotes) EXCEPT !.discard = d]
              = Decision(to, q, NoRun, d, NoChild, NoNotes)
         /\ [[Move(to) EXCEPT !.discard = d] EXCEPT !.patch = q]
              = Decision(to, q, NoRun, d, NoChild, NoNotes)
<1>1. [Decision(to, q, NoRun, NoRun, NoChild, NoNotes) EXCEPT !.discard = d]
        = Decision(to, q, NoRun, d, NoChild, NoNotes)
  BY DEF Decision
<1>2. [Move(to) EXCEPT !.discard = d] = Decision(to, NoPatch, NoRun, d, NoChild, NoNotes)
  BY DEF Decision, Move
<1>3. [Decision(to, NoPatch, NoRun, d, NoChild, NoNotes) EXCEPT !.patch = q]
        = Decision(to, q, NoRun, d, NoChild, NoNotes)
  BY DEF Decision
<1> QED
  BY <1>1, <1>2, <1>3

\* To another phase.
LEMMA FormTo ==
  ASSUME NEW from, NEW to, NEW q
  PROVE  [Decision(from, q, NoRun, NoRun, NoChild, NoNotes) EXCEPT !.to = to]
           = Decision(to, q, NoRun, NoRun, NoChild, NoNotes)
BY DEF Decision

\* Consuming the annotations.
LEMMA FormConsuming ==
  ASSUME NEW to, NEW q, NEW x, NEW d, NEW c
  PROVE  Consuming(Decision(to, q, x, d, c, NoNotes)) = Decision(to, q, x, d, c, seen.notes)
BY DEF Decision, Consuming

\* Its fields, and its type.
LEMMA DecisionType ==
  ASSUME phase \in TaskPhase, NEW to \in TaskPhase \cup {"stay"}, NEW patch, PatchOK(patch),
         NEW create \in RunId \cup {NoRun}, NEW discard \in RunId \cup {NoRun},
         NEW child \in Child \cup {NoChild}, NEW clear \in Notes
  PROVE  LET p == Decision(to, patch, create, discard, child, clear) IN
         /\ p \in Pass(p.patch) /\ PatchOK(p.patch)
         /\ p.stage = "effects" /\ p.from = phase /\ p.to = to /\ p.patch = patch
         /\ p.create = create /\ p.child = child /\ p.clear = clear
BY DEF Decision, Pass

\* What a decision may name.
LEMMA NamesType ==
  ASSUME StoreTyped, OnRecord
  PROVE  /\ BuildGen \in RunId /\ MergeRun \in RunId /\ PrOpen \in RunId
         /\ worker.merge \in RunId \cup {NoRun} /\ worker.eval \in RunId \cup {NoRun}
         /\ worker.refs \in SUBSET Child
         /\ FollowUpOfComments(worker) \in Child
         /\ \A k \in Nat : FollowUpOfRequest(worker, k) \in Child
         /\ NoNotes \in Notes /\ Integration \in RunId
         /\ \A x \in DOMAIN runs : runs[x].pr \in Nat
<1>1. worker.pr \in Nat /\ worker.watermark \in Nat /\ worker.refs \in SUBSET Child
      /\ worker.merge \in RunId \cup {NoRun} /\ worker.eval \in RunId \cup {NoRun}
  BY DEF StoreTyped, Worker
<1>2. Cardinality(worker.refs) \in Nat
  <2>1. IsFiniteSet(worker.refs)
    BY FS_Subset DEF OnRecord
  <2> QED
    BY <2>1, FS_CardinalityType
<1>3. BuildGen \in RunId /\ MergeRun \in RunId /\ PrOpen \in RunId
  BY DEF BuildGen, MergeRun, PrOpen, RunId
<1>4. FollowUpOfComments(worker) \in Child
  BY <1>1 DEF FollowUpOfComments, Child
<1>5. \A k \in Nat : FollowUpOfRequest(worker, k) \in Child
  BY <1>1, <1>2 DEF FollowUpOfRequest, Child
<1>6. NoNotes \in Notes
  BY DEF NoNotes, Notes
<1>7. \A x \in DOMAIN runs : runs[x].pr \in Nat
  BY DEF StoreTyped, Run
<1> QED
  BY <1>1, <1>3, <1>4, <1>5, <1>6, <1>7 DEF Integration

\* A decision that patches nothing the proofs look at.
LEMMA SameAfter ==
  ASSUME worker \in Worker, NEW q,
         "buildgen" \in DOMAIN q => q["buildgen"] \in {NoRun, BuildGen},
         "created" \notin DOMAIN q, "refs" \notin DOMAIN q, "merge" \notin DOMAIN q,
         "mergeError" \notin DOMAIN q, "pr" \notin DOMAIN q
  PROVE  /\ Same(Merge(worker, q))
         /\ Merge(worker, q).buildgen \in {worker.buildgen, NoRun, BuildGen}
BY MergeFields DEF Same

\* The decision ChildrenComplete, as a record.
CompletesBy(to, q, x) ==
  /\ ChildrenComplete = Decision(to, q, x, NoRun, NoChild, NoNotes)
  /\ to \in TaskPhase /\ PatchOK(q) /\ x \in RunId \cup {NoRun}
  /\ Merge(worker, q).buildgen = worker.buildgen
  /\ \A n : Integrates(Decision(to, q, x, NoRun, NoChild, n), Merge(worker, q))

\* It integrates.
LEMMA CompleteIntegrates ==
  ASSUME StoreTyped, OnRecord
  PROVE  \E to, q, x : CompletesBy(to, q, x)
<1>1. worker \in Worker /\ flow \in {"auto-merge", "pr", "manual", "disabled", "plan-only"}
  BY BoundsAssumption DEF StoreTyped
<1>2. DOMAIN NoPatch = {} /\ PatchOK(NoPatch)
  BY FieldsType DEF NoPatch
<1>3. Same(Merge(worker, NoPatch)) /\ Merge(worker, NoPatch).buildgen = worker.buildgen
  BY <1>1, <1>2, MergeFields DEF Same
<1>4. CASE flow \in {"disabled", "plan-only"}
  <2>1. ChildrenComplete = Decision("done", NoPatch, NoRun, NoRun, NoChild, NoNotes)
    BY <1>4, FormMove DEF ChildrenComplete
  <2>2. \A n : Integrates(Decision("done", NoPatch, NoRun, NoRun, NoChild, n), Merge(worker, NoPatch))
    BY <1>3, <1>4 DEF Integrates, Decision
  <2>3. CompletesBy("done", NoPatch, NoRun)
    BY <2>1, <2>2, <1>2, <1>3 DEF CompletesBy, TaskPhase
  <2> QED
    BY <2>3
<1>5. CASE flow = "manual"
  <2>1. ChildrenComplete = Decision("awaiting-human", NoPatch, NoRun, NoRun, NoChild, NoNotes)
    BY <1>5, FormMove DEF ChildrenComplete
  <2>2. \A n : Integrates(Decision("awaiting-human", NoPatch, NoRun, NoRun, NoChild, n),
                          Merge(worker, NoPatch))
    BY <1>3, <1>5 DEF Integrates, Decision
  <2>3. CompletesBy("awaiting-human", NoPatch, NoRun)
    BY <2>1, <2>2, <1>2, <1>3 DEF CompletesBy, TaskPhase
  <2> QED
    BY <2>3
<1>6. CASE flow \in {"pr", "auto-merge"}
  <2> DEFINE x == Integration
             q == [merge |-> x]
  <2>1. x \in RunId
    BY NamesType
  <2>2. ChildrenComplete = [Move("awaiting-feature-merge") EXCEPT !.patch = q, !.create = x]
    <3>1. CASE flow = "pr"
      BY <3>1 DEF ChildrenComplete, Integration
    <3>2. CASE flow = "auto-merge"
      <4>1. Integration = MergeRun
        BY <3>2 DEF Integration
      <4>2. ChildrenComplete = [Move("awaiting-feature-merge") EXCEPT
                                  !.patch = [merge |-> MergeRun], !.create = MergeRun]
        BY <3>2 DEF ChildrenComplete
      <4> QED
        BY <4>1, <4>2
    <3> QED
      BY <3>1, <3>2, <1>6
  <2>3. PatchOK(q)
    BY <2>1, FieldsType
  <2>4. /\ Merge(worker, q).buildgen = worker.buildgen /\ Merge(worker, q).merge = x
        /\ Merge(worker, q).created = worker.created /\ Merge(worker, q).refs = worker.refs
        /\ Merge(worker, q).mergeError = worker.mergeError /\ Merge(worker, q).pr = worker.pr
    BY <1>1, MergeFields
  <2> HIDE DEF q
  <2>5. ChildrenComplete = Decision("awaiting-feature-merge", q, x, NoRun, NoChild, NoNotes)
    BY <2>2, FormCreate
  <2>6. \A n : Integrates(Decision("awaiting-feature-merge", q, x, NoRun, NoChild, n),
                          Merge(worker, q))
    BY <2>4, <1>6 DEF Integrates, Launches, Decision
  <2>7. CompletesBy("awaiting-feature-merge", q, x)
    BY <2>1, <2>3, <2>4, <2>5, <2>6 DEF CompletesBy, TaskPhase
  <2> QED
    BY <2>7
<1> QED
  BY <1>1, <1>4, <1>5, <1>6

\* The decision RetryMerge, as a record.
RetriesBy(q) ==
  /\ RetryMerge = Decision("awaiting-feature-merge", q, NoRun, NoRun, NoChild, NoNotes)
  /\ PatchOK(q) /\ Merge(worker, q).buildgen = worker.buildgen
  /\ \A n : Retries(Decision("awaiting-feature-merge", q, NoRun, NoRun, NoChild, n),
                    Merge(worker, q))

\* It retries.
LEMMA RetryRetries ==
  ASSUME StoreTyped
  PROVE  \E q : RetriesBy(q)
<1> DEFINE q == [merge |-> NoRun, mergeError |-> FALSE, pr |-> 0]
<1>1. RetryMerge = Decision("awaiting-feature-merge", q, NoRun, NoRun, NoChild, NoNotes)
  BY FormPatch DEF RetryMerge
<1>2. PatchOK(q)
  BY FieldsType
<1>3. worker \in Worker
  BY DEF StoreTyped
<1>4. /\ Merge(worker, q).buildgen = worker.buildgen /\ Merge(worker, q).merge = NoRun
      /\ Merge(worker, q).created = worker.created /\ Merge(worker, q).refs = worker.refs
      /\ ~Merge(worker, q).mergeError /\ Merge(worker, q).pr = 0
  BY <1>3, MergeFields
<1> HIDE DEF q
<1>5. \A n : Retries(Decision("awaiting-feature-merge", q, NoRun, NoRun, NoChild, n), Merge(worker, q))
  BY <1>4 DEF Retries, Decision
<1>6. RetriesBy(q)
  BY <1>1, <1>2, <1>4, <1>5 DEF RetriesBy
<1> QED
  BY <1>6


\* A decision given as a record is sound if it is typed and one of those.
LEMMA SoundIf ==
  ASSUME StoreTyped, OnRecord, SeenTyped, seen # NoCycle,
         NEW to \in TaskPhase \cup {"stay"}, NEW q, PatchOK(q),
         NEW x \in RunId \cup {NoRun}, NEW d \in RunId \cup {NoRun},
         NEW c \in Child \cup {NoChild}, NEW n \in {NoNotes, seen.notes},
         Merge(worker, q).buildgen \in {worker.buildgen, NoRun, BuildGen},
         Chosen(Decision(to, q, x, d, c, n), Merge(worker, q))
  PROVE  Sound(Decision(to, q, x, d, c, n))
<1>1. phase \in TaskPhase
  BY DEF StoreTyped
<1>2. n \in Notes
  BY NamesType DEF SeenTyped
<1>3. LET p == Decision(to, q, x, d, c, n) IN
      /\ p \in Pass(p.patch) /\ PatchOK(p.patch)
      /\ p.stage = "effects" /\ p.from = phase /\ p.patch = q /\ p.clear = n
  BY <1>1, <1>2 DEF Decision, Pass
<1> QED
  BY <1>3 DEF Sound

\* The fields of the decision as a record.
LEMMA Fields ==
  ASSUME NEW to, NEW q, NEW x, NEW d, NEW c, NEW n
  PROVE  LET p == Decision(to, q, x, d, c, n) IN
         p.to = to /\ p.patch = q /\ p.create = x /\ p.child = c /\ p.clear = n
BY DEF Decision

\* The patch that changes nothing.
LEMMA NoPatchSame ==
  ASSUME worker \in Worker
  PROVE  /\ PatchOK(NoPatch)
         /\ Same(Merge(worker, NoPatch)) /\ Merge(worker, NoPatch).buildgen = worker.buildgen
<1>1. DOMAIN NoPatch = {}
  BY DEF NoPatch
<1>2. PatchOK(NoPatch)
  BY <1>1, FieldsType
<1> QED
  BY <1>1, <1>2, MergeFields DEF Same

\* The decision of a task that awaits its human is sound.
LEMMA AwaitingHumanSound ==
  ASSUME StoreTyped, OnRecord, SeenTyped, seen # NoCycle, DecideAwaitingHuman
  PROVE  Sound(pass')
<1>1. worker \in Worker /\ phase = "awaiting-human" /\ seen.notes \in Notes
  BY DEF StoreTyped, SeenTyped, DecideAwaitingHuman
<1>2. PatchOK(NoPatch) /\ Same(Merge(worker, NoPatch))
      /\ Merge(worker, NoPatch).buildgen = worker.buildgen
  BY <1>1, NoPatchSame
<1>3. CASE pass' = Consuming([Move("done") EXCEPT !.patch = [abandoned |-> TRUE]])
  <2> DEFINE q == [abandoned |-> TRUE]
             p == Decision("done", q, NoRun, NoRun, NoChild, seen.notes)
  <2>1. pass' = p
    <3>1. [Move("done") EXCEPT !.patch = q] = Decision("done", q, NoRun, NoRun, NoChild, NoNotes)
      BY FormPatch
    <3>2. Consuming(Decision("done", q, NoRun, NoRun, NoChild, NoNotes)) = p
      BY FormConsuming
    <3> QED
      BY <3>1, <3>2, <1>3
  <2>2. PatchOK(q)
    BY FieldsType
  <2>3. Same(Merge(worker, q)) /\ Merge(worker, q).buildgen = worker.buildgen
        /\ Merge(worker, q).abandoned
    BY <1>1, MergeFields DEF Same
  <2> HIDE DEF q
  <2>4. Chosen(p, Merge(worker, q))
    BY <1>1, <2>3 DEF Chosen, AnswersHuman, Decision
  <2> QED
    BY <2>1, <2>2, <2>3, <2>4, SoundIf DEF TaskPhase
<1>4. ASSUME NEW to \in {"rework-requested", "done", "generating-builds"}, pass' = Consuming(Move(to)),
             \/ to = "rework-requested"
             \/ /\ Approved /\ ~worker.mergeError
                /\ (flow = "plan-only" /\ to = "done") \/ (~Resumes /\ to = "generating-builds")
      PROVE  Sound(pass')
  <2> DEFINE p == Decision(to, NoPatch, NoRun, NoRun, NoChild, seen.notes)
  <2>1. pass' = p
    BY <1>4, FormMove, FormConsuming
  <2>2. p.to = to /\ p.create = NoRun /\ p.child = NoChild /\ p.clear = seen.notes
    BY Fields
  <2>3. Approved => seen.notes.changes = 0
    BY DEF Approved
  <2> HIDE DEF p
  <2>4. AnswersHuman(p, Merge(worker, NoPatch))
    BY <1>1, <1>2, <1>4, <2>2, <2>3 DEF AnswersHuman
  <2>5. Chosen(p, Merge(worker, NoPatch))
    BY <2>4 DEF Chosen
  <2> QED
    BY <1>2, <2>1, <2>5, SoundIf DEF TaskPhase, p
<1>5. CASE Approved /\ worker.mergeError /\ pass' = Consuming(RetryMerge)
  <2>1. PICK q : RetriesBy(q)
    BY RetryRetries
  <2> DEFINE p == Decision("awaiting-feature-merge", q, NoRun, NoRun, NoChild, seen.notes)
  <2>2. pass' = p
    BY <2>1, <1>5, FormConsuming DEF RetriesBy
  <2>3. p.child = NoChild /\ p.clear = seen.notes
    BY Fields
  <2>4. Retries(p, Merge(worker, q))
    BY <2>1 DEF RetriesBy
  <2> HIDE DEF p
  <2>5. Chosen(p, Merge(worker, q))
    BY <1>1, <1>5, <2>3, <2>4 DEF Chosen, AnswersHuman, Approved
  <2> QED
    BY <2>1, <2>2, <2>5, SoundIf DEF RetriesBy, TaskPhase, p
<1>6. CASE Approved /\ ~worker.mergeError /\ Resumes /\ pass' = Consuming(ChildrenComplete)
  <2>1. PICK to, q, x : CompletesBy(to, q, x)
    BY CompleteIntegrates
  <2> DEFINE p == Decision(to, q, x, NoRun, NoChild, seen.notes)
  <2>2. pass' = p
    BY <2>1, <1>6, FormConsuming DEF CompletesBy
  <2>3. p.child = NoChild /\ p.clear = seen.notes
    BY Fields
  <2>4. Integrates(p, Merge(worker, q))
    BY <2>1 DEF CompletesBy
  <2> HIDE DEF p
  <2>5. Chosen(p, Merge(worker, q))
    BY <1>1, <1>6, <2>3, <2>4 DEF Chosen, AnswersHuman, Approved
  <2> QED
    BY <2>1, <2>2, <2>5, SoundIf DEF CompletesBy, p
<1> QED
  BY <1>3, <1>4, <1>5, <1>6 DEF DecideAwaitingHuman, WantsChanges

\* So is that of a task that generates its BUILD tasks,
LEMMA GeneratingSound ==
  ASSUME StoreTyped, OnRecord, SeenTyped, seen # NoCycle, DecideGeneratingBuilds
  PROVE  Sound(pass')
<1>1. worker \in Worker /\ phase = "generating-builds" /\ DOMAIN seen.children \in SUBSET Child
  BY DEF StoreTyped, SeenTyped, DecideGeneratingBuilds
<1>2. CASE pass' = [Move("stay") EXCEPT !.patch = [buildgen |-> BuildGen], !.create = BuildGen]
  <2> DEFINE q == [buildgen |-> BuildGen]
             p == Decision("stay", q, BuildGen, NoRun, NoChild, NoNotes)
  <2>1. pass' = p
    BY <1>2, FormCreate
  <2>2. PatchOK(q)
    BY NamesType, FieldsType
  <2>3. Same(Merge(worker, q)) /\ Merge(worker, q).buildgen = BuildGen
    BY <1>1, MergeFields DEF Same
  <2> HIDE DEF q
  <2>4. Chosen(p, Merge(worker, q))
    BY <1>1, <2>3 DEF Chosen, Generates, Decision
  <2> QED
    BY <2>1, <2>2, <2>3, <2>4, SoundIf, NamesType
<1>3. CASE /\ Observed(worker.buildgen) \in Terminal
           /\ pass' = [Move("awaiting-human") EXCEPT !.patch = [buildgen |-> NoRun]]
  <2> DEFINE q == [buildgen |-> NoRun]
             p == Decision("awaiting-human", q, NoRun, NoRun, NoChild, NoNotes)
  <2>1. pass' = p
    BY <1>3, FormPatch
  <2>2. PatchOK(q)
    BY FieldsType
  <2>3. Same(Merge(worker, q)) /\ Merge(worker, q).buildgen = NoRun
    BY <1>1, MergeFields DEF Same
  <2> HIDE DEF q
  <2>4. Chosen(p, Merge(worker, q))
    BY <1>1, <1>3, <2>3 DEF Chosen, Generates, Decision
  <2> QED
    BY <2>1, <2>2, <2>3, <2>4, SoundIf DEF TaskPhase
<1>4. CASE /\ Observed(worker.buildgen) \in Terminal /\ DOMAIN seen.children # {}
           /\ pass' = [Move("awaiting-children") EXCEPT
                         !.patch = [created |-> TRUE, refs |-> DOMAIN seen.children]]
  <2> DEFINE q == [created |-> TRUE, refs |-> DOMAIN seen.children]
             p == Decision("awaiting-children", q, NoRun, NoRun, NoChild, NoNotes)
  <2>1. pass' = p
    BY <1>4, FormPatch
  <2>2. PatchOK(q)
    BY <1>1, FieldsType
  <2>3. /\ Merge(worker, q).created /\ Merge(worker, q).refs = DOMAIN seen.children
        /\ Merge(worker, q).buildgen = worker.buildgen
        /\ Merge(worker, q).merge = worker.merge
        /\ Merge(worker, q).mergeError = worker.mergeError /\ Merge(worker, q).pr = worker.pr
    BY <1>1, MergeFields
  <2> HIDE DEF q
  <2>4. Generates(p, Merge(worker, q))
    BY <1>1, <1>4, <2>3 DEF Generates, Decision
  <2>5. Chosen(p, Merge(worker, q))
    BY <2>4 DEF Chosen
  <2> QED
    BY <2>1, <2>2, <2>3, <2>5, SoundIf DEF TaskPhase
<1> QED
  BY <1>2, <1>3, <1>4 DEF DecideGeneratingBuilds, Terminal

\* of one that waits for its children,
LEMMA AwaitingChildrenSound ==
  ASSUME StoreTyped, OnRecord, SeenTyped, seen # NoCycle, DecideAwaitingChildren
  PROVE  Sound(pass')
<1>1. worker \in Worker /\ phase = "awaiting-children"
  BY DEF StoreTyped, DecideAwaitingChildren
<1>2. PatchOK(NoPatch) /\ Same(Merge(worker, NoPatch))
      /\ Merge(worker, NoPatch).buildgen = worker.buildgen
  BY <1>1, NoPatchSame
<1>3. CASE pass' = Move("awaiting-human") /\ (DOMAIN seen.children = {} \/ Done(seen.children))
  <2> DEFINE p == Decision("awaiting-human", NoPatch, NoRun, NoRun, NoChild, NoNotes)
  <2>1. pass' = p
    BY <1>3, FormMove
  <2>2. p.to = "awaiting-human" /\ p.create = NoRun /\ p.child = NoChild /\ p.clear = NoNotes
    BY Fields
  <2> HIDE DEF p
  <2>3. Chosen(p, Merge(worker, NoPatch))
    BY <1>1, <1>2, <1>3, <2>2 DEF Chosen, Gates
  <2> QED
    BY <1>2, <2>1, <2>3, SoundIf DEF TaskPhase, p
<1>4. CASE pass' = ChildrenComplete /\ DOMAIN seen.children # {} /\ Done(seen.children)
  <2>1. PICK to, q, x : CompletesBy(to, q, x)
    BY CompleteIntegrates
  <2> DEFINE p == Decision(to, q, x, NoRun, NoChild, NoNotes)
  <2>2. pass' = p
    BY <2>1, <1>4 DEF CompletesBy
  <2>3. p.child = NoChild /\ p.clear = NoNotes
    BY Fields
  <2>4. Integrates(p, Merge(worker, q))
    BY <2>1 DEF CompletesBy
  <2> HIDE DEF p
  <2>5. Chosen(p, Merge(worker, q))
    BY <1>1, <1>4, <2>3, <2>4 DEF Chosen, Gates
  <2> QED
    BY <2>1, <2>2, <2>5, SoundIf DEF CompletesBy, p
<1> QED
  BY <1>3, <1>4 DEF DecideAwaitingChildren

\* of one that has no integration run on record,
LEMMA IntegrationRunSound ==
  ASSUME StoreTyped, OnRecord, SeenTyped, seen # NoCycle, DecideIntegrationRun
  PROVE  Sound(pass')
<1> DEFINE x == Integration
           q == [merge |-> x]
           p == Decision("stay", q, x, NoRun, NoChild, NoNotes)
<1>1. worker \in Worker /\ phase = "awaiting-feature-merge" /\ worker.merge = NoRun /\ worker.pr = 0
  BY DEF StoreTyped, DecideIntegrationRun
<1>2. pass' = [Move("stay") EXCEPT !.patch = q, !.create = x]
  BY DEF DecideIntegrationRun, Integration
<1>3. pass' = p
  BY <1>2, FormCreate
<1>4. x \in RunId
  BY NamesType
<1>5. PatchOK(q)
  BY <1>4, FieldsType
<1>6. /\ Merge(worker, q).buildgen = worker.buildgen /\ Merge(worker, q).merge = x
      /\ Merge(worker, q).created = worker.created /\ Merge(worker, q).refs = worker.refs
      /\ Merge(worker, q).mergeError = worker.mergeError /\ Merge(worker, q).pr = worker.pr
  BY <1>1, MergeFields
<1> HIDE DEF q
<1>7. p.to = "stay" /\ p.create = x /\ p.child = NoChild /\ p.clear = NoNotes
  BY Fields
<1> HIDE DEF p
<1>8. Chosen(p, Merge(worker, q))
  BY <1>1, <1>6, <1>7 DEF Chosen, Schedules, Launches
<1> QED
  BY <1>3, <1>4, <1>5, <1>6, <1>8, SoundIf DEF p

\* of one whose integration run is over,
LEMMA IntegrationOutcomeSound ==
  ASSUME StoreTyped, OnRecord, SeenTyped, seen # NoCycle, DecideIntegrationOutcome
  PROVE  Sound(pass')
<1> DEFINE e == [mergeError |-> TRUE]
           failure == [Move("failed") EXCEPT !.patch = e]
<1>1. worker \in Worker /\ phase = "awaiting-feature-merge" /\ worker.merge # NoRun
      /\ worker.merge \in RunId
  BY NamesType DEF StoreTyped, DecideIntegrationOutcome
<1>2. Observed(worker.merge) \in {"Succeeded", "Stale", "Failed"} => worker.merge \in DOMAIN runs
  BY DEF Observed
<1>3. VerdictOf(worker.merge) # "none" => worker.merge \in DOMAIN runs
                                  /\ runs[worker.merge].verdict = VerdictOf(worker.merge)
  BY DEF VerdictOf
<1>4. failure = Decision("failed", e, NoRun, NoRun, NoChild, NoNotes)
  BY FormPatch
<1>5. PatchOK(e)
  BY FieldsType
<1>6. /\ Merge(worker, e).buildgen = worker.buildgen /\ Merge(worker, e).mergeError
      /\ Merge(worker, e).created = worker.created /\ Merge(worker, e).refs = worker.refs
      /\ Merge(worker, e).merge = worker.merge /\ Merge(worker, e).pr = worker.pr
  BY <1>1, MergeFields
<1> HIDE DEF e, failure
<1>7. ASSUME NEW to \in {"failed", "awaiting-human"}, NEW d \in RunId \cup {NoRun},
             pass' = Decision(to, e, NoRun, d, NoChild, NoNotes)
      PROVE  Sound(pass')
  <2> DEFINE p == Decision(to, e, NoRun, d, NoChild, NoNotes)
  <2>1. p.to = to /\ p.create = NoRun /\ p.child = NoChild /\ p.clear = NoNotes
    BY Fields
  <2> HIDE DEF p
  <2>2. Chosen(p, Merge(worker, e))
    BY <1>1, <1>6, <1>7, <2>1 DEF Chosen, Concludes
  <2> QED
    BY <1>5, <1>6, <1>7, <2>2, SoundIf DEF TaskPhase, p
<1>8. CASE pass' = failure
  BY <1>4, <1>7, <1>8
<1>9. CASE pass' = [failure EXCEPT !.discard = worker.merge]
  <2>1. [failure EXCEPT !.discard = worker.merge] = Decision("failed", e, NoRun, worker.merge, NoChild, NoNotes)
    BY <1>4, FormDiscard
  <2> QED
    BY <2>1, <1>1, <1>7, <1>9
<1>10. CASE pass' = [failure EXCEPT !.to = "awaiting-human"]
  <2>1. [failure EXCEPT !.to = "awaiting-human"] = Decision("awaiting-human", e, NoRun, NoRun, NoChild, NoNotes)
    BY <1>4, FormTo
  <2> QED
    BY <2>1, <1>7, <1>10
<1>11. CASE /\ worker.merge \in DOMAIN runs /\ runs[worker.merge].verdict = "opened"
            /\ pass' = [Move("stay") EXCEPT
                          !.patch = [pr |-> runs[worker.merge].pr, merge |-> NoRun]]
  <2> DEFINE n == runs[worker.merge].pr
             q == [pr |-> n, merge |-> NoRun]
             p == Decision("stay", q, NoRun, NoRun, NoChild, NoNotes)
  <2>1. pass' = p
    BY <1>11, FormPatch
  <2>2. n \in Nat
    BY <1>11, NamesType
  <2> HIDE DEF n
  <2>3. PatchOK(q)
    BY <2>2, FieldsType
  <2>4. /\ Merge(worker, q).buildgen = worker.buildgen /\ Merge(worker, q).merge = NoRun
        /\ Merge(worker, q).created = worker.created /\ Merge(worker, q).refs = worker.refs
        /\ Merge(worker, q).mergeError = worker.mergeError /\ Merge(worker, q).pr = n
    BY <1>1, MergeFields
  <2> HIDE DEF q
  <2>5. p.to = "stay" /\ p.create = NoRun /\ p.child = NoChild /\ p.clear = NoNotes
    BY Fields
  <2> HIDE DEF p
  <2>6. Chosen(p, Merge(worker, q))
    BY <1>1, <1>11, <2>4, <2>5 DEF Chosen, Concludes, n
  <2> QED
    BY <2>1, <2>3, <2>4, <2>6, SoundIf DEF p
<1>12. CASE /\ worker.merge \in DOMAIN runs /\ runs[worker.merge].verdict = "landed"
            /\ pass' = [Move("done") EXCEPT !.patch = [merged |-> TRUE]]
  <2> DEFINE q == [merged |-> TRUE]
             p == Decision("done", q, NoRun, NoRun, NoChild, NoNotes)
  <2>1. pass' = p
    BY <1>12, FormPatch
  <2>2. PatchOK(q)
    BY FieldsType
  <2>3. Same(Merge(worker, q)) /\ Merge(worker, q).buildgen = worker.buildgen
    BY <1>1, MergeFields DEF Same
  <2> HIDE DEF q
  <2>4. p.to = "done" /\ p.create = NoRun /\ p.child = NoChild /\ p.clear = NoNotes
    BY Fields
  <2> HIDE DEF p
  <2>5. Chosen(p, Merge(worker, q))
    BY <1>1, <1>12, <2>3, <2>4 DEF Chosen, Concludes
  <2> QED
    BY <2>1, <2>2, <2>3, <2>5, SoundIf DEF p, TaskPhase
<1>13. \/ pass' = failure \/ pass' = [failure EXCEPT !.discard = worker.merge]
       \/ pass' = [failure EXCEPT !.to = "awaiting-human"]
       \/ /\ VerdictOf(worker.merge) = "opened"
          /\ pass' = [Move("stay") EXCEPT
                          !.patch = [pr |-> runs[worker.merge].pr, merge |-> NoRun]]
       \/ /\ VerdictOf(worker.merge) = "landed"
          /\ pass' = [Move("done") EXCEPT !.patch = [merged |-> TRUE]]
  BY DEF DecideIntegrationOutcome, failure, e, Landed
<1> QED
  BY <1>3, <1>8, <1>9, <1>10, <1>11, <1>12, <1>13

\* of one whose pull request is closed or merged,
LEMMA PrClosedSound ==
  ASSUME StoreTyped, OnRecord, SeenTyped, seen # NoCycle, DecidePrClosed
  PROVE  Sound(pass')
<1>1. worker \in Worker /\ Polls /\ worker.eval \in RunId \cup {NoRun}
  BY NamesType DEF StoreTyped, DecidePrClosed
<1>2. CASE pass' = [[Move("done") EXCEPT !.discard = worker.eval] EXCEPT
                      !.patch = [merged |-> TRUE, eval |-> NoRun]]
  <2> DEFINE q == [merged |-> TRUE, eval |-> NoRun]
             p == Decision("done", q, NoRun, worker.eval, NoChild, NoNotes)
  <2>1. pass' = p
    BY <1>2, FormDiscard
  <2>2. PatchOK(q)
    BY FieldsType
  <2>3. Same(Merge(worker, q)) /\ Merge(worker, q).buildgen = worker.buildgen
    BY <1>1, MergeFields DEF Same
  <2> HIDE DEF q
  <2>4. p.to = "done" /\ p.create = NoRun /\ p.child = NoChild /\ p.clear = NoNotes
    BY Fields
  <2> HIDE DEF p
  <2>5. Chosen(p, Merge(worker, q))
    BY <1>1, <2>3, <2>4 DEF Chosen, Closes
  <2> QED
    BY <1>1, <2>1, <2>2, <2>3, <2>5, SoundIf DEF p, TaskPhase
<1>3. CASE pass' = [[Move("awaiting-human") EXCEPT !.discard = worker.eval] EXCEPT
                      !.patch = [mergeError |-> TRUE, pr |-> 0, eval |-> NoRun]]
  <2> DEFINE q == [mergeError |-> TRUE, pr |-> 0, eval |-> NoRun]
             p == Decision("awaiting-human", q, NoRun, worker.eval, NoChild, NoNotes)
  <2>1. pass' = p
    BY <1>3, FormDiscard
  <2>2. PatchOK(q)
    BY FieldsType
  <2>3. /\ Merge(worker, q).buildgen = worker.buildgen /\ Merge(worker, q).mergeError
        /\ Merge(worker, q).created = worker.created /\ Merge(worker, q).refs = worker.refs
        /\ Merge(worker, q).merge = worker.merge /\ Merge(worker, q).pr = 0
    BY <1>1, MergeFields
  <2> HIDE DEF q
  <2>4. p.to = "awaiting-human" /\ p.create = NoRun /\ p.child = NoChild /\ p.clear = NoNotes
    BY Fields
  <2> HIDE DEF p
  <2>5. Chosen(p, Merge(worker, q))
    BY <1>1, <2>3, <2>4 DEF Chosen, Closes
  <2> QED
    BY <1>1, <2>1, <2>2, <2>3, <2>5, SoundIf DEF p, TaskPhase
<1> QED
  BY <1>2, <1>3 DEF DecidePrClosed

\* A follow-up, whether the evaluation is over with it or not.
LEMMA FollowUpSound ==
  ASSUME StoreTyped, OnRecord, SeenTyped, seen # NoCycle, Polls,
         NEW c \in Child, c.by \in {"comment", "request"},
         NEW n \in {NoNotes, seen.notes}, n.changes = seen.notes.changes,
         c.by = "request" => seen.notes.changes # 0
                               /\ c = FollowUpOfRequest(worker, seen.notes.changes),
         NEW q, q.refs = worker.refs \cup {c}, DOMAIN q \subseteq {"refs", "eval"},
         "refs" \in DOMAIN q, "eval" \in DOMAIN q => q["eval"] = NoRun,
         pass' = Decision("awaiting-children", q, NoRun, NoRun, c, n)
  PROVE  Sound(pass')
<1> DEFINE p == Decision("awaiting-children", q, NoRun, NoRun, c, n)
<1>1. worker \in Worker /\ worker.refs \in SUBSET Child
  BY NamesType DEF StoreTyped
<1>2. PatchOK(q)
  BY <1>1, FieldsType
<1>3. /\ Merge(worker, q).buildgen = worker.buildgen
      /\ Merge(worker, q).created = worker.created /\ Merge(worker, q).refs = worker.refs \cup {c}
      /\ Merge(worker, q).merge = worker.merge
      /\ Merge(worker, q).mergeError = worker.mergeError /\ Merge(worker, q).pr = worker.pr
  BY <1>1, MergeFields
<1>4. p.to = "awaiting-children" /\ p.create = NoRun /\ p.child = c /\ p.clear = n
  BY Fields
<1> HIDE DEF p
<1>5. Chosen(p, Merge(worker, q))
  BY <1>3, <1>4 DEF Chosen, FollowsUp
<1> QED
  BY <1>2, <1>3, <1>5, SoundIf DEF p, TaskPhase

\* of one whose comments are being evaluated,
LEMMA EvaluationSound ==
  ASSUME StoreTyped, OnRecord, SeenTyped, seen # NoCycle, DecideEvaluation
  PROVE  Sound(pass')
<1> DEFINE e == [eval |-> NoRun]
<1>1. worker \in Worker /\ Polls /\ worker.eval \in RunId
  BY NamesType DEF StoreTyped, DecideEvaluation
<1>2. PatchOK(e)
  BY FieldsType
<1>3. Same(Merge(worker, e)) /\ Merge(worker, e).buildgen = worker.buildgen
  BY <1>1, MergeFields DEF Same
<1>4. [Move("stay") EXCEPT !.patch = e] = Decision("stay", e, NoRun, NoRun, NoChild, NoNotes)
  BY FormPatch
<1> DEFINE over == [Move("stay") EXCEPT !.patch = e]
<1>5. ASSUME NEW d \in RunId \cup {NoRun}, pass' = Decision("stay", e, NoRun, d, NoChild, NoNotes)
      PROVE  Sound(pass')
  <2> HIDE DEF e
  <2> DEFINE p == Decision("stay", e, NoRun, d, NoChild, NoNotes)
  <2>1. p.to = "stay" /\ p.create = NoRun /\ p.child = NoChild /\ p.clear = NoNotes
    BY Fields
  <2> HIDE DEF p
  <2>2. NoRun \notin {BuildGen, MergeRun, PrOpen}
    BY NamesType, NamesAssumption
  <2>3. Chosen(p, Merge(worker, e))
    BY <1>1, <1>3, <2>1, <2>2 DEF Chosen, Watches
  <2> QED
    BY <1>2, <1>3, <1>5, <2>3, SoundIf DEF p
<1>6. CASE pass' = over
  BY <1>4, <1>5, <1>6
<1>7. CASE pass' = [over EXCEPT !.discard = worker.eval]
  <2> HIDE DEF over, e
  <2>1. over = Decision("stay", e, NoRun, NoRun, NoChild, NoNotes)
    BY <1>4 DEF over
  <2>2. [over EXCEPT !.discard = worker.eval] = Decision("stay", e, NoRun, worker.eval, NoChild, NoNotes)
    BY <2>1, FormDiscard
  <2> QED
    BY <2>2, <1>1, <1>5, <1>7
<1> DEFINE c == FollowUpOfComments(worker)
           f == [FollowUp(c) EXCEPT !.patch = [refs |-> @.refs, eval |-> NoRun]]
           q == [refs |-> worker.refs \cup {c}, eval |-> NoRun]
<1>8. CASE pass' = IF seen.notes.changes # 0 THEN Consuming(f) ELSE f
  <2>1. c \in Child /\ c.by = "comment"
    BY NamesType DEF FollowUpOfComments
  <2> HIDE DEF c
  <2>2. FollowUp(c) = Decision("awaiting-children", [refs |-> worker.refs \cup {c}],
                               NoRun, NoRun, c, NoNotes)
    BY FormChild DEF FollowUp
  <2>3. f = Decision("awaiting-children", q, NoRun, NoRun, c, NoNotes)
    BY <2>2 DEF Decision
  <2>4. q.refs = worker.refs \cup {c} /\ DOMAIN q = {"refs", "eval"} /\ q["eval"] = NoRun
    OBVIOUS
  <2> HIDE DEF f, q
  <2>5. Consuming(f) = Decision("awaiting-children", q, NoRun, NoRun, c, seen.notes)
    BY <2>3, FormConsuming
  <2>6. NoNotes.changes = 0
    BY DEF NoNotes
  <2>7. CASE seen.notes.changes = 0
    BY <1>1, <1>8, <2>1, <2>3, <2>4, <2>6, <2>7, FollowUpSound
  <2>8. CASE seen.notes.changes # 0
    BY <1>1, <1>8, <2>1, <2>4, <2>5, <2>8, FollowUpSound
  <2> QED
    BY <2>7, <2>8
<1> HIDE DEF c, f, q, over
<1>9. \/ pass' = over \/ pass' = [over EXCEPT !.discard = worker.eval]
      \/ pass' = IF seen.notes.changes # 0 THEN Consuming(f) ELSE f
  BY DEF DecideEvaluation, over, f, c
<1> QED
  BY <1>6, <1>7, <1>8, <1>9

\* of one whose human asks for changes on the pull request,
LEMMA ScopeChangeSound ==
  ASSUME StoreTyped, OnRecord, SeenTyped, seen # NoCycle, DecideScopeChange
  PROVE  Sound(pass')
<1> DEFINE k == seen.notes.changes
           c == FollowUpOfRequest(worker, k)
           q == [refs |-> worker.refs \cup {c}]
<1>1. Polls /\ k # 0 /\ pass' = Consuming(FollowUp(c)) /\ k \in Nat
  BY DEF DecideScopeChange, SeenTyped, Notes
<1>2. c \in Child /\ c.by = "request"
  BY <1>1, NamesType DEF FollowUpOfRequest
<1> HIDE DEF c
<1>3. FollowUp(c) = Decision("awaiting-children", q, NoRun, NoRun, c, NoNotes)
  BY FormChild DEF FollowUp
<1>4. q.refs = worker.refs \cup {c} /\ DOMAIN q = {"refs"}
  OBVIOUS
<1> HIDE DEF q
<1>5. pass' = Decision("awaiting-children", q, NoRun, NoRun, c, seen.notes)
  BY <1>1, <1>3, FormConsuming
<1> QED
  BY <1>1, <1>2, <1>4, <1>5, FollowUpSound DEF c

\* of one with new comments on it,
LEMMA CommentsSound ==
  ASSUME StoreTyped, OnRecord, SeenTyped, seen # NoCycle, DecideComments
  PROVE  Sound(pass')
<1>1. PICK S \in SUBSET CommentsOn(worker.pr) :
        LET x == EvalRun(Latest(Newer(S))) IN
        /\ Newer(S) # {}
        /\ pass' = [Move("stay") EXCEPT
                      !.patch = [eval |-> x, watermark |-> x.round], !.create = x]
  BY DEF DecideComments
<1> DEFINE n == Latest(Newer(S))
           x == EvalRun(n)
           q == [eval |-> x, watermark |-> x.round]
           p == Decision("stay", q, x, NoRun, NoChild, NoNotes)
<1>2. Polls /\ worker \in Worker
  BY DEF DecideComments, StoreTyped
<1>3. Newer(S) \in SUBSET DOMAIN posted
  BY DEF Newer, CommentsOn
<1>4. n \in Newer(S)
  BY <1>1, <1>3, LatestIsOne DEF OnRecord
<1>5. n \in Nat
  BY <1>3, <1>4 DEF StoreTyped
<1> HIDE DEF n
<1>6. x \in RunId /\ x.round = n /\ x.kind = "preval" /\ x \notin {BuildGen, MergeRun, PrOpen}
  BY <1>5 DEF EvalRun, RunId, BuildGen, MergeRun, PrOpen
<1>7. pass' = [Move("stay") EXCEPT !.patch = q, !.create = x]
  BY <1>1 DEF n
<1> HIDE DEF x
<1>8. PatchOK(q)
  BY <1>5, <1>6, FieldsType
<1>9. Same(Merge(worker, q)) /\ Merge(worker, q).buildgen = worker.buildgen
  BY <1>2, MergeFields DEF Same
<1> HIDE DEF q
<1>10. pass' = p
  BY <1>7, FormCreate
<1>11. p.to = "stay" /\ p.create = x /\ p.child = NoChild /\ p.clear = NoNotes
  BY Fields
<1> HIDE DEF p
<1>12. Chosen(p, Merge(worker, q))
  BY <1>2, <1>6, <1>9, <1>11 DEF Chosen, Watches
<1> QED
  BY <1>6, <1>8, <1>9, <1>10, <1>12, SoundIf DEF p

\* and of one that has failed.
LEMMA FailedSound ==
  ASSUME StoreTyped, OnRecord, SeenTyped, seen # NoCycle, DecideFailed
  PROVE  Sound(pass')
<1>1. worker \in Worker /\ phase = "failed"
  BY DEF StoreTyped, DecideFailed
<1>2. CASE (worker.mergeError \/ worker.merge # NoRun) /\ pass' = Consuming(RetryMerge)
  <2>1. PICK q : RetriesBy(q)
    BY RetryRetries
  <2> DEFINE p == Decision("awaiting-feature-merge", q, NoRun, NoRun, NoChild, seen.notes)
  <2>2. pass' = p
    BY <2>1, <1>2, FormConsuming DEF RetriesBy
  <2>3. p.child = NoChild /\ p.clear = seen.notes
    BY Fields
  <2>4. Retries(p, Merge(worker, q))
    BY <2>1 DEF RetriesBy
  <2> HIDE DEF p
  <2>5. Chosen(p, Merge(worker, q))
    BY <1>1, <1>2, <2>3, <2>4 DEF Chosen, Recovers
  <2> QED
    BY <2>1, <2>2, <2>5, SoundIf DEF RetriesBy, TaskPhase, p
<1>3. CASE /\ ~(worker.mergeError \/ worker.merge # NoRun)
           /\ pass' = Consuming(Move("awaiting-human"))
  <2> DEFINE p == Decision("awaiting-human", NoPatch, NoRun, NoRun, NoChild, seen.notes)
  <2>1. pass' = p
    BY <1>3, FormMove, FormConsuming
  <2>2. p.to = "awaiting-human" /\ p.create = NoRun /\ p.child = NoChild /\ p.clear = seen.notes
    BY Fields
  <2> HIDE DEF p
  <2>3. PatchOK(NoPatch) /\ Same(Merge(worker, NoPatch))
        /\ Merge(worker, NoPatch).buildgen = worker.buildgen
    BY <1>1, NoPatchSame
  <2>4. Chosen(p, Merge(worker, NoPatch))
    BY <1>1, <1>3, <2>2, <2>3 DEF Chosen, Recovers
  <2> QED
    BY <2>1, <2>3, <2>4, SoundIf DEF TaskPhase, p
<1> QED
  BY <1>2, <1>3 DEF DecideFailed

\* Every decision of a cycle is sound.
LEMMA DecideSound ==
  ASSUME StoreTyped, OnRecord, SeenTyped, seen # NoCycle, Decide
  PROVE  Sound(pass')
BY AwaitingHumanSound, GeneratingSound, AwaitingChildrenSound, IntegrationRunSound,
   IntegrationOutcomeSound, PrClosedSound, EvaluationSound, ScopeChangeSound,
   CommentsSound, FailedSound DEF Decide

-----------------------------------------------------------------------------
(* The steps: what each comes to. *)

\* The run x becomes r, the others stay as they are.
Turned(x, r) ==
  /\ runs[x].phase \notin Terminal
  /\ r \in Run /\ r.covers = runs[x].covers
  /\ DOMAIN runs' = DOMAIN runs /\ runs'[x] = r
  /\ \A y \in DOMAIN runs \ {x} : runs'[y] = runs[y]

\* Without an end, or ended without a verdict.
GoesOn(x, r) ==
  /\ Turned(x, r)
  /\ r.verdict = "none" /\ r.pr = runs[x].pr
  /\ UNCHANGED <<prs, landed>>

Succeeds(x, r) ==
  /\ Turned(x, r)
  /\ r.phase = "Succeeded" /\ r.pr = runs[x].pr /\ r.verdict \in Verdicts(x.kind) \ {"opened"}
  /\ landed' = IF r.verdict = "landed" THEN landed \cup runs[x].covers ELSE landed
  /\ UNCHANGED prs

Opens(x, r) ==
  /\ Turned(x, r) /\ x.kind = "pr"
  /\ r.phase = "Succeeded" /\ r.verdict = "opened"
  /\ r.pr # 0
  /\ \/ r.pr = runs[x].pr /\ r.pr \notin OpenPRs /\ UNCHANGED prs
     \/ r.pr \in OpenPRs /\ Publish(r.pr, r.covers)
     \/ /\ OpenPRs = {} /\ r.pr = Cardinality(DOMAIN prs) + 1
        /\ Publish(r.pr, r.covers)
  /\ UNCHANGED landed

\* A run is gone.
Leaves(x) ==
  /\ runs[x].phase \in Terminal /\ runs' = Without(x)
  /\ UNCHANGED <<prs, landed>>

\* The record of a run once its phase, its verdict and its pull request are set.
LEMMA RunSet ==
  ASSUME StoreTyped, NEW x \in DOMAIN runs, NEW p \in RunPhase,
         NEW v \in {"none", "landed", "opened", "retryable", "conflict", "approve", "changes"},
         NEW n \in Nat, runs[x].phase \notin Terminal,
         \/ runs' = [runs EXCEPT ![x].phase = p, ![x].verdict = v] /\ n = runs[x].pr
         \/ runs' = [runs EXCEPT ![x].phase = p, ![x].verdict = v, ![x].pr = n]
  PROVE  Turned(x, [phase |-> p, verdict |-> v, pr |-> n, covers |-> runs[x].covers])
<1> DEFINE r == [phase |-> p, verdict |-> v, pr |-> n, covers |-> runs[x].covers]
<1>1. runs[x] \in Run
  BY DEF StoreTyped
<1>2. runs[x] = [phase |-> runs[x].phase, verdict |-> runs[x].verdict, pr |-> runs[x].pr,
                 covers |-> runs[x].covers]
  BY <1>1 DEF Run
<1>3. r \in Run /\ r.covers = runs[x].covers
  BY <1>1 DEF Run
<1>4. CASE runs' = [runs EXCEPT ![x].phase = p, ![x].verdict = v] /\ n = runs[x].pr
  <2>1. DOMAIN runs' = DOMAIN runs /\ \A y \in DOMAIN runs \ {x} : runs'[y] = runs[y]
    BY <1>4
  <2>2. runs'[x] = [[runs[x] EXCEPT !.phase = p] EXCEPT !.verdict = v]
    BY <1>4
  <2>3. runs'[x] = r
    BY <2>2, <1>2, <1>4
  <2> QED
    BY <1>3, <2>1, <2>3 DEF Turned
<1>5. CASE runs' = [runs EXCEPT ![x].phase = p, ![x].verdict = v, ![x].pr = n]
  <2>1. DOMAIN runs' = DOMAIN runs /\ \A y \in DOMAIN runs \ {x} : runs'[y] = runs[y]
    BY <1>5
  <2>2. runs'[x] = [[[runs[x] EXCEPT !.phase = p] EXCEPT !.verdict = v] EXCEPT !.pr = n]
    BY <1>5
  <2>3. runs'[x] = r
    BY <2>2, <1>2
  <2> QED
    BY <1>3, <2>1, <2>3 DEF Turned
<1> QED
  BY <1>4, <1>5

\* The verdicts are those of Run.
LEMMA VerdictNames ==
  ASSUME NEW x \in RunId, NEW v \in Verdicts(x.kind)
  PROVE  v \in {"none", "landed", "opened", "retryable", "conflict", "approve", "changes"}
BY DEF RunId, Verdicts

\* The steps of a run.
LEMMA RunMoves ==
  ASSUME StoreTyped, OnRecord, NEW x \in DOMAIN runs, RunSteps(x)
  PROVE  /\ UNCHANGED <<plan, notes, children, posted, seen, pass, asked, lapsed>>
         /\ \/ Leaves(x)
            \/ \E r : GoesOn(x, r) \/ Succeeds(x, r) \/ Opens(x, r)
<1>1. x \in RunId /\ runs[x].pr \in Nat /\ runs[x].pr \in {0} \cup DOMAIN prs
  BY NamesType DEF StoreTyped, OnRecord
<1>2. ASSUME NEW from \in SUBSET (RunPhase \ Terminal), NEW to \in RunPhase,
             RunTurns(x, from, to, "none"), Quiet
      PROVE  /\ UNCHANGED <<plan, notes, children, posted, seen, pass, asked, lapsed>>
             /\ \E r : GoesOn(x, r)
  <2> DEFINE r == [phase |-> to, verdict |-> "none", pr |-> runs[x].pr, covers |-> runs[x].covers]
  <2>1. Turned(x, r)
    BY <1>1, <1>2, RunSet DEF RunTurns
  <2>2. r.verdict = "none" /\ r.pr = runs[x].pr
    OBVIOUS
  <2> HIDE DEF r
  <2>3. GoesOn(x, r)
    BY <1>2, <2>1, <2>2 DEF GoesOn, Quiet, github, history
  <2> QED
    BY <1>2, <2>3 DEF Quiet, github, history
<1>3. CASE RunStarts(x) \/ RunStalls(x) \/ RunFails(x)
  BY <1>2, <1>3 DEF RunStarts, RunStalls, RunFails, RunPhase, Terminal
<1>4. CASE RunSucceeds(x)
  <2>1. PICK v \in Verdicts(x.kind) \ {"opened"} :
          /\ RunTurns(x, {"Running", "Stale"}, "Succeeded", v)
          /\ landed' = IF v = "landed" THEN landed \cup runs[x].covers ELSE landed
          /\ UNCHANGED <<plan, notes, children, github, seen, pass, asked, lapsed>>
    BY <1>4 DEF RunSucceeds
  <2> DEFINE r == [phase |-> "Succeeded", verdict |-> v, pr |-> runs[x].pr, covers |-> runs[x].covers]
  <2>2. Turned(x, r)
    BY <1>1, <2>1, VerdictNames, RunSet DEF RunTurns, RunPhase, Terminal
  <2>3. r.phase = "Succeeded" /\ r.verdict = v /\ r.pr = runs[x].pr
    OBVIOUS
  <2> HIDE DEF r
  <2>4. Succeeds(x, r)
    BY <2>1, <2>2, <2>3 DEF Succeeds, github
  <2> QED
    BY <2>1, <2>4 DEF github
<1>5. ASSUME NEW n \in Nat \ {0}, Reports(x, n), x.kind = "pr",
             \/ n = runs[x].pr /\ n \notin OpenPRs /\ UNCHANGED prs
             \/ /\ n \in OpenPRs \/ (OpenPRs = {} /\ n = Cardinality(DOMAIN prs) + 1)
                /\ Publish(n, runs[x].covers)
      PROVE  /\ UNCHANGED <<plan, notes, children, posted, seen, pass, asked, lapsed>>
             /\ \E r : Opens(x, r)
  <2> DEFINE r == [phase |-> "Succeeded", verdict |-> "opened", pr |-> n, covers |-> runs[x].covers]
  <2>1. Turned(x, r)
    BY <1>5, RunSet DEF Reports, RunPhase, Terminal
  <2>2. r.phase = "Succeeded" /\ r.verdict = "opened" /\ r.pr = n /\ r.covers = runs[x].covers
    OBVIOUS
  <2> HIDE DEF r
  <2>3. Opens(x, r)
    BY <1>5, <2>1, <2>2 DEF Opens, Reports, history
  <2> QED
    BY <1>5, <2>3 DEF Reports, history
<1>6. CASE PrUpdated(x)
  BY <1>1, <1>5, <1>6 DEF PrUpdated
<1>7. CASE PrOpened(x)
  <2> DEFINE n == IF OpenPRs = {} THEN Cardinality(DOMAIN prs) + 1 ELSE Latest(OpenPRs)
  <2>1. CASE OpenPRs = {}
    <3>1. Cardinality(DOMAIN prs) + 1 \in Nat \ {0}
      BY NextNumber DEF OnRecord
    <3> QED
      BY <3>1, <2>1, <1>5, <1>7 DEF PrOpened
  <2>2. CASE OpenPRs # {}
    <3>1. OpenPRs \in SUBSET DOMAIN prs
      BY DEF OpenPRs
    <3>2. Latest(OpenPRs) \in OpenPRs
      BY <2>2, <3>1, LatestIsOne DEF OnRecord
    <3>3. Latest(OpenPRs) \in Nat \ {0}
      BY <3>1, <3>2 DEF OnRecord, Numbered
    <3> QED
      BY <3>2, <3>3, <2>2, <1>5, <1>7 DEF PrOpened
  <2> QED
    BY <2>1, <2>2
<1>8. CASE RunDeleted(x)
  BY <1>8 DEF RunDeleted, Leaves, Quiet, github, history
<1> QED
  BY <1>3, <1>4, <1>6, <1>7, <1>8 DEF RunSteps

\* The stage of a decision is set.
LEMMA StageSet ==
  ASSUME PassTyped, pass # NoPass, NEW s \in {"effects", "patch", "clear"},
         pass' = [pass EXCEPT !.stage = s]
  PROVE  /\ pass' \in Pass(pass'.patch) /\ pass'.stage = s
         /\ pass'.from = pass.from /\ pass'.to = pass.to /\ pass'.patch = pass.patch
         /\ pass'.create = pass.create /\ pass'.discard = pass.discard
         /\ pass'.child = pass.child /\ pass'.clear = pass.clear
BY DEF PassTyped, Pass

\* A child is put on record.
LEMMA ChildPut ==
  ASSUME NEW c
  PROVE  /\ DOMAIN WithChild(c) = DOMAIN children \cup {c}
         /\ \A d \in DOMAIN children : WithChild(c)[d] = children[d]
         /\ c \notin DOMAIN children => WithChild(c)[c] = "open"
         /\ c \in DOMAIN children => WithChild(c) = children
BY DEF WithChild, Put

\* Effects, as they come to: the runs and the children.
Launched(x) == 
  /\ x # NoRun /\ (x \in DOMAIN runs => Replaceable(x))
  /\ DOMAIN runs' = DOMAIN runs \cup {x}
  /\ runs'[x] = [phase |-> "Pending", verdict |-> "none", pr |-> worker.pr, covers |-> MergedChildren]
  /\ \A y \in DOMAIN runs \ {x} : runs'[y] = runs[y]

\* The effects are the runs and the child, launched or left.
LEMMA RunEffectsTo ==
  ASSUME PassTyped, RunEffects
  PROVE  /\ pass # NoPass /\ pass.stage = "effects"
         /\ pass' = [pass EXCEPT !.stage = "patch"]
         /\ UNCHANGED <<flow, phase, worker, notes, prs, posted, seen, asked, lapsed, landed>>
         /\ \/ Launched(pass.create) /\ handed' = handed \cup Told(pass.create)
            \/ runs' = Without(pass.discard)
                 /\ (pass.create = NoRun \/ (pass.create \in DOMAIN runs /\ ~Replaceable(pass.create)))
            \/ runs' = runs /\ pass.create \in Unread
         /\ children' = IF pass.child = NoChild THEN children ELSE WithChild(pass.child)
<1>1. \A x : DOMAIN With(x) = DOMAIN runs \cup {x}
        /\ With(x)[x] = [phase |-> "Pending", verdict |-> "none", pr |-> worker.pr,
                         covers |-> MergedChildren]
        /\ \A y \in DOMAIN runs \ {x} : With(x)[y] = runs[y]
  BY DEF With, Put
<1> QED
  BY <1>1 DEF RunEffects, InStage, Launched, plan, github, history

-----------------------------------------------------------------------------
(* Types hold, and what is on record exists. *)

Base == Typed /\ OnRecord

\* At first there is nothing on record.
LEMMA InitBase == Init => Base
<1> SUFFICES ASSUME Init PROVE Base
  OBVIOUS
<1>1. NewWorker \in Worker /\ NoNotes \in Notes /\ "awaiting-human" \in TaskPhase
  BY DEF NewWorker, Worker, NoNotes, Notes, TaskPhase
<1>2. DOMAIN children = {} /\ DOMAIN runs = {} /\ DOMAIN prs = {} /\ DOMAIN posted = {}
  BY DEF Init
<1>3. StoreTyped
  BY <1>1, <1>2 DEF Init, StoreTyped
<1>4. 1..0 = {}
  OBVIOUS
<1>5. Numbered({})
  BY <1>4 DEF Numbered
<1>6. IsFiniteSet({})
  BY FS_EmptySet
<1>7. worker.refs = {} /\ worker.pr = 0
  BY DEF Init, NewWorker
<1>8. seen = NoCycle /\ pass = NoPass
  BY DEF Init
<1> QED
  BY <1>2, <1>3, <1>5, <1>6, <1>7, <1>8 DEF Base, Typed, SeenTyped, PassTyped, OnRecord, Deciding

\* A new decision refers to what there is.
LEMMA VisitBase ==
  ASSUME Base, Visit
  PROVE  Base'
<1>1. Sound(pass') /\ seen' = NoCycle /\ seen # NoCycle
      /\ UNCHANGED <<flow, phase, worker, notes, children, runs, prs, posted, asked, lapsed, landed>>
  BY DecideSound DEF Base, Typed, Visit, plan, github, history
<1>2. StoreTyped'
  BY <1>1 DEF Base, Typed, StoreTyped
<1>3. SeenTyped' /\ PassTyped'
  BY <1>1 DEF SeenTyped, PassTyped, Sound
<1> DEFINE v == Merge(worker, pass'.patch)
<1>4. Chosen(pass', v) /\ pass'.from = phase /\ pass'.stage = "effects"
  BY <1>1 DEF Sound
<1>5. After' = v
  BY <1>1 DEF After
<1> HIDE DEF v
<1>6. /\ worker.refs \subseteq DOMAIN children /\ DOMAIN seen.children \subseteq DOMAIN children
      /\ worker.pr \in {0} \cup DOMAIN prs
      /\ \A x \in DOMAIN runs : runs[x].pr \in {0} \cup DOMAIN prs
  BY <1>1 DEF Base, OnRecord
<1>7. v.refs \subseteq DOMAIN children \cup ({pass'.child} \ {NoChild})
  <2>1. \/ v.refs = worker.refs \/ v.refs = DOMAIN seen.children
        \/ v.refs = worker.refs \cup {pass'.child} /\ pass'.child \in Child
    BY <1>4 DEF Chosen, AnswersHuman, Generates, Gates, Schedules, Concludes, Closes, Watches,
                FollowsUp, Recovers, Integrates, Launches, Retries, Same
  <2> QED
    BY <2>1, <1>6, NamesAssumption
<1>8. v.pr \in {0} \cup DOMAIN prs
  <2>1. \/ v.pr = worker.pr \/ v.pr = 0
        \/ worker.merge \in DOMAIN runs /\ v.pr = runs[worker.merge].pr
    BY <1>4 DEF Chosen, AnswersHuman, Generates, Gates, Schedules, Concludes, Closes, Watches,
                FollowsUp, Recovers, Integrates, Launches, Retries, Same
  <2> QED
    BY <2>1, <1>6
<1>9. OnRecord'
  BY <1>1, <1>4, <1>5, <1>7, <1>8 DEF Base, OnRecord
<1> QED
  BY <1>2, <1>3, <1>9 DEF Base, Typed

\* So do the effects.
LEMMA EffectsBase ==
  ASSUME Base, RunEffects
  PROVE  Base'
<1>1. /\ pass # NoPass /\ pass.stage = "effects" /\ pass' = [pass EXCEPT !.stage = "patch"]
      /\ UNCHANGED <<flow, phase, worker, notes, prs, posted, seen, asked, lapsed, landed>>
      /\ \/ Launched(pass.create) \/ runs' = Without(pass.discard) \/ runs' = runs
      /\ children' = IF pass.child = NoChild THEN children ELSE WithChild(pass.child)
  BY RunEffectsTo DEF Base, Typed
<1>2. /\ pass' \in Pass(pass'.patch) /\ pass'.stage = "patch" /\ pass'.from = pass.from
      /\ pass'.patch = pass.patch /\ pass'.child = pass.child
  BY <1>1, StageSet DEF Base, Typed
<1>3. pass.create \in RunId \cup {NoRun} /\ pass.child \in Child \cup {NoChild}
  BY <1>1 DEF Base, Typed, PassTyped, Pass
<1>4. /\ DOMAIN children' = DOMAIN children \cup ({pass.child} \ {NoChild})
      /\ DOMAIN children' \subseteq Child
      /\ \A c \in DOMAIN children' : children'[c] \in ChildState
  <2>1. DOMAIN children \subseteq Child /\ \A c \in DOMAIN children : children[c] \in ChildState
    BY DEF Base, Typed, StoreTyped
  <2>2. CASE pass.child = NoChild
    BY <1>1, <2>1, <2>2
  <2>3. CASE pass.child # NoChild
    <3> DEFINE c == pass.child
    <3>1. c \in Child /\ children' = WithChild(c)
      BY <1>1, <1>3, <2>3
    <3>2. /\ DOMAIN children' = DOMAIN children \cup {c}
          /\ \A d \in DOMAIN children : children'[d] = children[d]
          /\ c \notin DOMAIN children => children'[c] = "open"
      BY <3>1, ChildPut
    <3> QED
      BY <2>1, <2>3, <3>1, <3>2 DEF ChildState
  <2> QED
    BY <2>2, <2>3
<1>5. IsFiniteSet(DOMAIN children')
  <2>1. IsFiniteSet(DOMAIN children)
    BY DEF Base, OnRecord
  <2>2. IsFiniteSet({pass.child}) /\ IsFiniteSet({pass.child} \ {NoChild})
    BY FS_Singleton, FS_Subset
  <2> QED
    BY <1>4, <2>1, <2>2, FS_Union
<1>6. /\ worker.pr \in Nat /\ worker.pr \in {0} \cup DOMAIN prs
      /\ MergedChildren \subseteq Child
  BY DEF Base, Typed, OnRecord, StoreTyped, Worker, MergedChildren
<1>7. /\ DOMAIN runs' \subseteq RunId /\ \A x \in DOMAIN runs' : runs'[x] \in Run
      /\ \A x \in DOMAIN runs' : runs'[x].pr \in {0} \cup DOMAIN prs
  <2>1. /\ DOMAIN runs \subseteq RunId /\ \A x \in DOMAIN runs : runs[x] \in Run
        /\ \A x \in DOMAIN runs : runs[x].pr \in {0} \cup DOMAIN prs
    BY DEF Base, Typed, OnRecord, StoreTyped
  <2>2. CASE Launched(pass.create)
    <3> DEFINE r == [phase |-> "Pending", verdict |-> "none", pr |-> worker.pr, covers |-> MergedChildren]
    <3>1. r \in Run /\ r.pr = worker.pr
      BY <1>6 DEF Run, RunPhase
    <3>2. /\ pass.create \in RunId /\ DOMAIN runs' = DOMAIN runs \cup {pass.create}
          /\ runs'[pass.create] = r /\ \A y \in DOMAIN runs \ {pass.create} : runs'[y] = runs[y]
      BY <1>3, <2>2 DEF Launched
    <3> HIDE DEF r
    <3> QED
      BY <1>6, <2>1, <3>1, <3>2
  <2>3. CASE runs' = Without(pass.discard)
    BY <2>1, <2>3 DEF Without
  <2> QED
    BY <1>1, <2>1, <2>2, <2>3
<1>8. StoreTyped'
  BY <1>1, <1>4, <1>7 DEF Base, Typed, StoreTyped
<1>9. SeenTyped' /\ PassTyped'
  BY <1>1, <1>2 DEF Base, Typed, SeenTyped, PassTyped
<1>10. /\ pass.from = phase
       /\ After.refs \subseteq DOMAIN children \cup ({pass.child} \ {NoChild})
       /\ After.pr \in {0} \cup DOMAIN prs /\ seen = NoCycle
       /\ worker.refs \subseteq DOMAIN children /\ Numbered(DOMAIN prs) /\ Numbered(DOMAIN posted)
  BY <1>1 DEF Base, OnRecord, Deciding
<1>11. After' = After
  BY <1>1, <1>2 DEF After
<1>12. OnRecord'
  BY <1>1, <1>2, <1>4, <1>5, <1>6, <1>7, <1>10, <1>11 DEF OnRecord, Deciding
<1> QED
  BY <1>8, <1>9, <1>12 DEF Base, Typed

\* Writing the status.
LEMMA WriteBase ==
  ASSUME Base, PatchStatus \/ PatchUnanswered
  PROVE  Base'
<1>1. /\ pass # NoPass /\ pass.stage = "patch" /\ phase' = To /\ worker' = After
      /\ UNCHANGED <<flow, notes, children, runs, prs, posted, seen, asked, landed>>
      /\ pass' \in {NoPass, [pass EXCEPT !.stage = "clear"]}
      /\ lapsed' \in {lapsed, lapsed \cup ({pass.clear.changes} \ {0})}
  BY DEF PatchStatus, PatchUnanswered, WriteStatus, InStage, To, After, Lapse, github
<1>2. pass \in Pass(pass.patch) /\ PatchOK(pass.patch) /\ worker \in Worker /\ phase \in TaskPhase
      /\ lapsed \subseteq Nat
  BY <1>1 DEF Base, Typed, PassTyped, StoreTyped
<1>3. After \in Worker
  BY <1>2, MergeType DEF After
<1>4. To \in TaskPhase
  BY <1>2 DEF To, Pass
<1>5. pass.clear \in Notes /\ pass.clear.changes \in Nat
  BY <1>2 DEF Pass, Notes
<1>6. lapsed' \subseteq Nat
  BY <1>1, <1>2, <1>5
<1>7. StoreTyped'
  BY <1>1, <1>3, <1>4, <1>6 DEF Base, Typed, StoreTyped
<1>8. pass' # NoPass => pass' \in Pass(pass'.patch) /\ pass'.stage = "clear" /\ pass'.patch = pass.patch
  BY <1>1, StageSet DEF Base, Typed
<1>9. SeenTyped' /\ PassTyped'
  BY <1>1, <1>2, <1>8 DEF Base, Typed, SeenTyped, PassTyped
<1>10. After.refs \subseteq DOMAIN children /\ After.pr \in {0} \cup DOMAIN prs /\ seen = NoCycle
  BY <1>1 DEF Base, OnRecord, Deciding
<1>11. ~Deciding'
  BY <1>8 DEF Deciding
<1>12. OnRecord'
  BY <1>1, <1>10, <1>11 DEF Base, OnRecord
<1> QED
  BY <1>7, <1>9, <1>12 DEF Base, Typed

\* The decision in hand and the cycle stay, or are over.
LEMMA KeepsPass ==
  ASSUME Base, UNCHANGED <<worker, phase>>, pass' = pass \/ pass' = NoPass,
         seen' = seen, DOMAIN children \subseteq DOMAIN children', Numbered(DOMAIN prs'),
         Numbered(DOMAIN posted'),
         IsFiniteSet(DOMAIN children'), DOMAIN prs \subseteq DOMAIN prs',
         \A x \in DOMAIN runs' : runs'[x].pr \in {0} \cup DOMAIN prs'
  PROVE  OnRecord'
<1>1. ASSUME Deciding'
      PROVE  Deciding /\ pass' = pass /\ After' = After
  BY <1>1 DEF Deciding, After
<1> QED
  BY <1>1 DEF Base, OnRecord

\* The steps of the manager keep it.
LEMMA ManagerBase ==
  ASSUME Base, Manager
  PROVE  Base'
<1>0. /\ IsFiniteSet(DOMAIN children) /\ Numbered(DOMAIN prs) /\ Numbered(DOMAIN posted)
      /\ \A x \in DOMAIN runs : runs[x].pr \in {0} \cup DOMAIN prs
  BY DEF Base, OnRecord
<1>1. CASE StartCycle
  <2>1. /\ seen = NoCycle /\ pass = NoPass /\ seen' = [notes |-> notes, children |-> children]
        /\ UNCHANGED <<flow, phase, worker, notes, children, runs, prs, posted, pass, asked, lapsed, landed>>
    BY <1>1 DEF StartCycle, plan, github, history
  <2>2. Typed'
    BY <2>1 DEF Base, Typed, StoreTyped, SeenTyped, PassTyped
  <2>3. OnRecord'
    BY <2>1 DEF Base, OnRecord, Deciding
  <2> QED
    BY <2>2, <2>3 DEF Base
<1>2. CASE Visit
  BY <1>2, VisitBase
<1>3. CASE PassOver
  <2>1. /\ seen' = NoCycle
        /\ UNCHANGED <<flow, phase, worker, notes, children, runs, prs, posted, pass, asked, lapsed, landed>>
    BY <1>3 DEF PassOver, plan, github, history
  <2>2. Typed'
    BY <2>1 DEF Base, Typed, StoreTyped, SeenTyped, PassTyped
  <2>3. OnRecord'
    BY <2>1 DEF Base, OnRecord, Deciding, After
  <2> QED
    BY <2>2, <2>3 DEF Base
<1>4. CASE RunEffects
  BY <1>4, EffectsBase
<1>5. CASE FailReplacing
  <2>1. /\ pass' = NoPass /\ runs' = Without(pass.create)
        /\ UNCHANGED <<flow, phase, worker, notes, children, prs, posted, seen, asked, lapsed, landed>>
    BY <1>5 DEF FailReplacing, plan, github, history
  <2>2. DOMAIN runs' \subseteq DOMAIN runs /\ \A y \in DOMAIN runs' : runs'[y] = runs[y]
    BY <2>1 DEF Without
  <2>3. Typed'
    BY <2>1, <2>2 DEF Base, Typed, StoreTyped, SeenTyped, PassTyped
  <2>4. OnRecord'
    BY <1>0, <2>1, <2>2, KeepsPass
  <2> QED
    BY <2>3, <2>4 DEF Base
<1>6. CASE PatchStatus \/ PatchUnanswered
  BY <1>6, WriteBase
<1>7. CASE ClearTaskAnnotations
  <2>1. /\ pass # NoPass /\ pass' = NoPass
        /\ notes' = [k \in DOMAIN notes |-> IF pass.clear[k] # NoNotes[k] THEN NoNotes[k] ELSE notes[k]]
        /\ UNCHANGED <<flow, phase, worker, children, runs, prs, posted, seen, asked, lapsed, landed>>
    BY <1>7 DEF ClearTaskAnnotations, InStage, plan, github, history
  <2>2. notes \in Notes
    BY DEF Base, Typed, StoreTyped
  <2>3. notes' = [approved |-> notes'.approved, abandon |-> notes'.abandon, changes |-> notes'.changes]
    BY <2>1, <2>2 DEF Notes
  <2>4. \A k \in {"approved", "abandon", "changes"} : notes'[k] = NoNotes[k] \/ notes'[k] = notes[k]
    BY <2>1, <2>2 DEF Notes
  <2>a. /\ notes'.approved = NoNotes.approved \/ notes'.approved = notes.approved
        /\ notes'.abandon = NoNotes.abandon \/ notes'.abandon = notes.abandon
        /\ notes'.changes = NoNotes.changes \/ notes'.changes = notes.changes
    BY <2>4
  <2>b. NoNotes \in Notes
    BY DEF Notes, NoNotes
  <2>c. notes'.approved \in BOOLEAN /\ notes'.abandon \in BOOLEAN /\ notes'.changes \in Nat
    BY <2>2, <2>a, <2>b DEF Notes
  <2>5. notes' \in Notes
    BY <2>3, <2>c DEF Notes
  <2>6. Typed'
    BY <2>1, <2>5 DEF Base, Typed, StoreTyped, SeenTyped, PassTyped
  <2>7. OnRecord'
    BY <1>0, <2>1, KeepsPass
  <2> QED
    BY <2>6, <2>7 DEF Base
<1>8. CASE Abort
  <2>1. /\ pass # NoPass /\ pass' = NoPass
        /\ lapsed' \in {lapsed, lapsed \cup ({pass.clear.changes} \ {0})}
        /\ UNCHANGED <<flow, phase, worker, notes, children, runs, prs, posted, seen, asked, landed>>
    BY <1>8 DEF Abort, Lapse, plan, github
  <2>2. pass.clear.changes \in Nat
    BY <2>1 DEF Base, Typed, PassTyped, Pass, Notes
  <2>3. Typed'
    BY <2>1, <2>2 DEF Base, Typed, StoreTyped, SeenTyped, PassTyped
  <2>4. OnRecord'
    BY <1>0, <2>1, KeepsPass
  <2> QED
    BY <2>3, <2>4 DEF Base
<1> QED
  BY <1>1, <1>2, <1>3, <1>4, <1>5, <1>6, <1>7, <1>8 DEF Manager

\* What the human's annotations come to.
LEMMA HumanMoves ==
  ASSUME Base, Human
  PROVE  /\ notes' \in Notes /\ asked' \in {asked, asked + 1}
         /\ \/ notes'.changes = notes.changes /\ asked' = asked
            \/ notes'.changes = 0 /\ asked' = asked
            \/ notes'.changes = asked + 1 /\ asked' = asked + 1
         /\ \/ pass' = pass /\ lapsed' = lapsed /\ ~InStage("clear")
            \/ /\ InStage("clear") /\ pass' = NoPass
               /\ lapsed' = lapsed \cup ({pass.clear.changes} \ {0})
         /\ UNCHANGED <<flow, phase, worker, children, runs, prs, posted, seen, landed>>
<1>1. notes \in Notes /\ asked \in Nat
  BY DEF Base, Typed, StoreTyped
<1>2. ASSUME NEW new, Annotate(new)
      PROVE  /\ notes' = new
             /\ \/ pass' = pass /\ lapsed' = lapsed /\ ~InStage("clear")
                \/ /\ InStage("clear") /\ pass' = NoPass
                   /\ lapsed' = lapsed \cup ({pass.clear.changes} \ {0})
             /\ UNCHANGED <<flow, phase, worker, children, runs, prs, posted, seen, landed>>
  BY <1>2 DEF Annotate, Lapse, plan, github
<1>3. CASE Approve
  <2>1. /\ Annotate([notes EXCEPT !.approved = TRUE, !.changes = 0]) /\ asked' = asked
    BY <1>3 DEF Approve
  <2>2. [notes EXCEPT !.approved = TRUE, !.changes = 0] \in Notes
        /\ [notes EXCEPT !.approved = TRUE, !.changes = 0].changes = 0
    BY <1>1 DEF Notes
  <2> QED
    BY <1>2, <2>1, <2>2
<1>4. CASE RequestChanges
  <2>1. /\ Annotate([notes EXCEPT !.changes = asked + 1]) /\ asked' = asked + 1
    BY <1>4 DEF RequestChanges
  <2>2. [notes EXCEPT !.changes = asked + 1] \in Notes
        /\ [notes EXCEPT !.changes = asked + 1].changes = asked + 1
    BY <1>1 DEF Notes
  <2> QED
    BY <1>2, <2>1, <2>2
<1>5. CASE Abandon
  <2>1. /\ Annotate([notes EXCEPT !.abandon = TRUE]) /\ asked' = asked
    BY <1>5 DEF Abandon
  <2>2. [notes EXCEPT !.abandon = TRUE] \in Notes
        /\ [notes EXCEPT !.abandon = TRUE].changes = notes.changes
    BY <1>1 DEF Notes
  <2> QED
    BY <1>2, <2>1, <2>2
<1> QED
  BY <1>3, <1>4, <1>5 DEF Human

\* What the runs, the children and GitHub do.
LEMMA OutsideBase ==
  ASSUME Base,
         \/ Human \/ PlanningRound \/ BuildTaskCreated \/ GitHub
         \/ \E x \in DOMAIN runs : RunSteps(x)
         \/ \E c \in DOMAIN children : ChildEnds(c)
  PROVE  Base'
<1>0. /\ IsFiniteSet(DOMAIN children) /\ Numbered(DOMAIN prs) /\ Numbered(DOMAIN posted)
      /\ \A x \in DOMAIN runs : runs[x].pr \in {0} \cup DOMAIN prs
      /\ DOMAIN children \subseteq Child /\ \A c \in DOMAIN children : children[c] \in ChildState
      /\ DOMAIN runs \subseteq RunId /\ \A x \in DOMAIN runs : runs[x] \in Run
      /\ DOMAIN prs \subseteq Nat /\ \A n \in DOMAIN prs : prs[n] \in PR
      /\ landed \subseteq Child
  BY DEF Base, OnRecord, Typed, StoreTyped
<1>1. CASE Human
  <2>1. /\ notes' \in Notes /\ asked' \in Nat
        /\ pass' = pass \/ pass' = NoPass
        /\ UNCHANGED <<flow, phase, worker, children, runs, prs, posted, seen, landed>>
    BY <1>1, HumanMoves DEF Base, Typed, StoreTyped
  <2>2. lapsed' \subseteq Nat
    <3>1. ASSUME pass # NoPass
          PROVE  pass.clear.changes \in Nat
      BY <3>1 DEF Base, Typed, PassTyped, Pass, Notes
    <3> QED
      BY <1>1, <3>1, HumanMoves DEF Base, Typed, StoreTyped, InStage
  <2>3. Typed'
    BY <2>1, <2>2 DEF Base, Typed, StoreTyped, SeenTyped, PassTyped
  <2>4. OnRecord'
    BY <1>0, <2>1, KeepsPass
  <2> QED
    BY <2>3, <2>4 DEF Base
<1>2. CASE PlanningRound
  <2>1. /\ phase' \in TaskPhase /\ pass = NoPass
        /\ UNCHANGED <<flow, worker, notes, children, runs, prs, posted, seen, pass, asked, lapsed, landed>>
    BY <1>2 DEF PlanningRound, TaskPhase, github, history
  <2>2. Typed'
    BY <2>1 DEF Base, Typed, StoreTyped, SeenTyped, PassTyped
  <2>3. OnRecord'
    BY <2>1 DEF Base, OnRecord, Deciding
  <2> QED
    BY <2>2, <2>3 DEF Base
<1>3. CASE BuildTaskCreated
  <2> DEFINE c == BuildOf(Cardinality(Built) + 1)
  <2>1. /\ children' = WithChild(c)
        /\ UNCHANGED <<flow, phase, worker, notes, runs, prs, posted, seen, pass, asked, lapsed, landed>>
    BY <1>3 DEF BuildTaskCreated, plan, github, history
  <2>2. IsFiniteSet(Built)
    BY <1>0, FS_Subset DEF Built
  <2>3. Cardinality(Built) + 1 \in Nat
    BY <2>2, FS_CardinalityType
  <2>4. c \in Child
    BY <2>3 DEF BuildOf, Child
  <2> HIDE DEF c
  <2>5. /\ DOMAIN children' = DOMAIN children \cup {c}
        /\ \A d \in DOMAIN children : children'[d] = children[d]
        /\ c \notin DOMAIN children => children'[c] = "open"
    BY <2>1, ChildPut
  <2>6. DOMAIN children' \subseteq Child /\ \A d \in DOMAIN children' : children'[d] \in ChildState
    BY <1>0, <2>4, <2>5 DEF ChildState
  <2>7. IsFiniteSet(DOMAIN children')
    BY <1>0, <2>5, FS_AddElement
  <2>8. Typed'
    BY <2>1, <2>6 DEF Base, Typed, StoreTyped, SeenTyped, PassTyped
  <2>9. OnRecord'
    BY <1>0, <2>1, <2>5, <2>7, KeepsPass
  <2> QED
    BY <2>8, <2>9 DEF Base
<1>4. ASSUME NEW x \in DOMAIN runs, RunSteps(x)
      PROVE  Base'
  <2>1. /\ UNCHANGED <<flow, phase, worker, notes, children, posted, seen, pass, asked, lapsed>>
        /\ \/ Leaves(x)
           \/ \E r : GoesOn(x, r) \/ Succeeds(x, r) \/ Opens(x, r)
    BY <1>4, RunMoves DEF Base, Typed, plan
  <2>2. ASSUME DOMAIN runs' \subseteq RunId, \A y \in DOMAIN runs' : runs'[y] \in Run,
               \A y \in DOMAIN runs' : runs'[y].pr \in {0} \cup DOMAIN prs',
               DOMAIN prs \subseteq DOMAIN prs', Numbered(DOMAIN prs'),
               DOMAIN prs' \subseteq Nat, \A n \in DOMAIN prs' : prs'[n] \in PR,
               landed' \subseteq Child
        PROVE  Base'
    <3>1. \A c \in DOMAIN posted : posted[c] \in DOMAIN prs'
      BY <2>2 DEF Base, Typed, StoreTyped
    <3>2. Typed'
      BY <2>1, <2>2, <3>1 DEF Base, Typed, StoreTyped, SeenTyped, PassTyped
    <3>3. OnRecord'
      BY <1>0, <2>1, <2>2, KeepsPass
    <3> QED
      BY <3>2, <3>3 DEF Base
  <2>3. CASE Leaves(x)
    BY <1>0, <2>2, <2>3 DEF Leaves, Without
  <2>4. ASSUME NEW r, Turned(x, r)
        PROVE  /\ DOMAIN runs' \subseteq RunId /\ \A y \in DOMAIN runs' : runs'[y] \in Run
               /\ \A y \in DOMAIN runs' : runs'[y].pr \in {0, r.pr} \cup DOMAIN prs
               /\ r.covers \subseteq Child
    <3>1. r.covers \subseteq Child
      BY <2>4 DEF Turned, Run
    <3> QED
      BY <1>0, <2>4, <3>1 DEF Turned
  <2>5. ASSUME NEW r, GoesOn(x, r)
        PROVE  Base'
    <3>1. r.pr \in {0} \cup DOMAIN prs /\ Turned(x, r) /\ prs' = prs /\ landed' = landed
      BY <1>0, <2>5 DEF GoesOn
    <3> QED
      BY <1>0, <2>2, <2>4, <3>1
  <2>6. ASSUME NEW r, Succeeds(x, r)
        PROVE  Base'
    <3>1. r.pr \in {0} \cup DOMAIN prs /\ Turned(x, r) /\ prs' = prs
          /\ landed' \subseteq landed \cup r.covers
      BY <1>0, <2>6 DEF Succeeds, Turned
    <3>2. landed' \subseteq Child
      BY <1>0, <2>4, <3>1
    <3> QED
      BY <1>0, <2>2, <2>4, <3>1, <3>2
  <2>7. ASSUME NEW r, Opens(x, r)
        PROVE  Base'
    <3>1. Turned(x, r) /\ landed' = landed
      BY <2>7 DEF Opens
    <3>2. CASE r.pr = runs[x].pr /\ UNCHANGED prs
      BY <1>0, <2>2, <2>4, <3>1, <3>2
    <3>3. CASE /\ r.pr \in OpenPRs \/ r.pr = Cardinality(DOMAIN prs) + 1
               /\ Publish(r.pr, r.covers)
      <4> DEFINE e == [state |-> "open", head |-> r.covers]
      <4>1. e \in PR
        BY <2>4, <3>1 DEF PR
      <4>2. prs' = Put(prs, r.pr, e)
        BY <3>3 DEF Publish
      <4> HIDE DEF e
      <4>3. DOMAIN prs' = DOMAIN prs \cup {r.pr} /\ prs'[r.pr] = e
            /\ \A n \in DOMAIN prs \ {r.pr} : prs'[n] = prs[n]
        BY <4>2 DEF Put
      <4>4. r.pr \in Nat /\ Numbered(DOMAIN prs')
        <5>1. CASE r.pr \in OpenPRs
          BY <1>0, <4>3, <5>1 DEF OpenPRs
        <5>2. CASE r.pr = Cardinality(DOMAIN prs) + 1
          BY <1>0, <4>3, <5>2, NextNumber
        <5> QED
          BY <3>3, <5>1, <5>2
      <4> QED
        BY <1>0, <2>2, <2>4, <3>1, <4>1, <4>3, <4>4
    <3> QED
      BY <2>7, <3>2, <3>3 DEF Opens
  <2> QED
    BY <2>1, <2>3, <2>5, <2>6, <2>7
<1>5. CASE GitHub
  <2>1. PICK n \in DOMAIN prs : PrMerged(n) \/ PrClosed(n) \/ Comment(n)
    BY <1>5 DEF GitHub
  <2>2. ASSUME NEW how \in {"merged", "closed"}, PrEnds(n, how),
               landed' \in {landed, landed \cup prs[n].head}
        PROVE  Base'
    <3>1. /\ prs' = [prs EXCEPT ![n].state = how]
          /\ UNCHANGED <<flow, phase, worker, notes, children, runs, posted, seen, pass, asked, lapsed>>
      BY <2>2 DEF PrEnds, plan
    <3>2. prs[n] \in PR /\ prs[n].head \subseteq Child
      BY <1>0 DEF PR
    <3>3. DOMAIN prs' = DOMAIN prs /\ \A m \in DOMAIN prs' : prs'[m] \in PR
      BY <1>0, <3>1 DEF PR
    <3>4. landed' \subseteq Child
      BY <1>0, <2>2, <3>2
    <3>5. Typed'
      BY <3>1, <3>3, <3>4 DEF Base, Typed, StoreTyped, SeenTyped, PassTyped
    <3>6. OnRecord'
      BY <1>0, <3>1, <3>3, KeepsPass
    <3> QED
      BY <3>5, <3>6 DEF Base
  <2>3. CASE PrMerged(n)
    BY <2>2, <2>3 DEF PrMerged
  <2>4. CASE PrClosed(n)
    BY <2>2, <2>4 DEF PrClosed
  <2>5. CASE Comment(n)
    <3> DEFINE k == Cardinality(DOMAIN posted) + 1
    <3>1. /\ posted' = Put(posted, k, n)
          /\ UNCHANGED <<flow, phase, worker, notes, children, runs, prs, seen, pass, asked, lapsed, landed>>
      BY <2>5 DEF Comment, plan, history
    <3>2. k \in Nat /\ Numbered(DOMAIN posted \cup {k})
      BY <1>0, NextNumber
    <3> HIDE DEF k
    <3>3. DOMAIN posted' = DOMAIN posted \cup {k} /\ posted'[k] = n
          /\ \A c \in DOMAIN posted \ {k} : posted'[c] = posted[c]
      BY <3>1 DEF Put
    <3>4. Typed'
      BY <3>1, <3>2, <3>3 DEF Base, Typed, StoreTyped, SeenTyped, PassTyped
    <3>5. OnRecord'
      BY <1>0, <3>1, <3>2, <3>3, KeepsPass
    <3> QED
      BY <3>4, <3>5 DEF Base
  <2> QED
    BY <2>1, <2>3, <2>4, <2>5
<1>6. ASSUME NEW c \in DOMAIN children, ChildEnds(c)
      PROVE  Base'
  <2>1. PICK how \in ChildState \ {"open"} : children' = [children EXCEPT ![c] = how]
    BY <1>6 DEF ChildEnds
  <2>2. UNCHANGED <<flow, phase, worker, notes, runs, prs, posted, seen, pass, asked, lapsed, landed>>
    BY <1>6 DEF ChildEnds, plan, github, history
  <2>3. DOMAIN children' = DOMAIN children /\ \A d \in DOMAIN children' : children'[d] \in ChildState
    BY <1>0, <2>1
  <2>4. Typed'
    BY <1>0, <2>2, <2>3 DEF Base, Typed, StoreTyped, SeenTyped, PassTyped
  <2>5. OnRecord'
    BY <1>0, <2>2, <2>3, KeepsPass
  <2> QED
    BY <2>4, <2>5 DEF Base
<1> QED
  BY <1>1, <1>2, <1>3, <1>4, <1>5, <1>6

\* Every step keeps it.
LEMMA StepBase == Base /\ [Next]_vars => Base'
<1>1. ASSUME Base, UNCHANGED vars
      PROVE  Base'
  <2>1. UNCHANGED <<flow, phase, worker, notes, children, runs, prs, posted, seen, pass, asked, lapsed, landed>>
    BY <1>1 DEF vars
  <2>2. Typed'
    BY <1>1, <2>1 DEF Base, Typed, StoreTyped, SeenTyped, PassTyped
  <2>3. OnRecord'
    BY <1>1, <2>1 DEF Base, OnRecord, Deciding, After
  <2> QED
    BY <2>2, <2>3 DEF Base
<1> QED
  BY <1>1, ManagerBase, OutsideBase DEF Next

\* What becomes of the comments.
HandedPosted == handed \subseteq DOMAIN posted

\* They are posted, and handed to evaluations that are launched.
LEMMA CommentSteps ==
  ASSUME [Next]_vars
  PROVE  /\ posted' = posted \/ \E n \in DOMAIN prs : Comment(n)
         /\ handed' = handed \/ (RunEffects /\ handed' = handed \cup Told(pass.create))
<1>1. CASE Manager
  BY <1>1 DEF Manager, StartCycle, Visit, PassOver, RunEffects, FailReplacing, PatchStatus,
              PatchUnanswered, WriteStatus, ClearTaskAnnotations, Abort, github, history
<1>2. CASE Human \/ PlanningRound \/ BuildTaskCreated
  BY <1>2 DEF Human, Approve, RequestChanges, Abandon, Annotate, PlanningRound, BuildTaskCreated,
              github, history
<1>3. CASE GitHub
  BY <1>3 DEF GitHub, PrMerged, PrClosed, PrEnds, Comment, history
<1>4. ASSUME NEW x \in DOMAIN runs, RunSteps(x)
      PROVE  posted' = posted /\ handed' = handed
  BY <1>4 DEF RunSteps, RunStarts, RunStalls, RunFails, RunSucceeds, PrUpdated, PrOpened,
              RunDeleted, Reports, Quiet, github, history
<1>5. ASSUME NEW c \in DOMAIN children, ChildEnds(c)
      PROVE  posted' = posted /\ handed' = handed
  BY <1>5 DEF ChildEnds, github, history
<1>6. CASE UNCHANGED vars
  BY <1>6 DEF vars
<1> QED
  BY <1>1, <1>2, <1>3, <1>4, <1>5, <1>6 DEF Next

\* A comment leaves the earlier ones as they are.
LEMMA Commented ==
  ASSUME Base, NEW n \in DOMAIN prs, Comment(n)
  PROVE  LET k == Cardinality(DOMAIN posted) + 1 IN
         /\ n \in OpenPRs /\ k \in Nat /\ \A c \in DOMAIN posted : c < k
         /\ DOMAIN posted' = DOMAIN posted \cup {k} /\ posted'[k] = n
         /\ \A c \in DOMAIN posted : posted'[c] = posted[c]
<1> DEFINE k == Cardinality(DOMAIN posted) + 1
<1>1. PICK m \in Nat : DOMAIN posted = 1..m
  BY DEF Base, OnRecord, Numbered
<1>2. k = m + 1
  <2>1. Cardinality(1..m) = m
    BY FS_Interval
  <2> QED
    BY <1>1, <2>1
<1>3. posted' = Put(posted, k, n) /\ n \in OpenPRs
  BY DEF Comment
<1>4. k \in Nat /\ k \notin DOMAIN posted /\ \A c \in DOMAIN posted : c < k
  BY <1>1, <1>2
<1> HIDE DEF k
<1>5. /\ DOMAIN posted' = DOMAIN posted \cup {k} /\ posted'[k] = n
      /\ \A c \in DOMAIN posted : posted'[c] = posted[c]
  BY <1>3, <1>4 DEF Put
<1> QED
  BY <1>3, <1>4, <1>5 DEF k

\* Every step keeps them.
LEMMA StepHanded == Base /\ HandedPosted /\ [Next]_vars => HandedPosted'
<1> SUFFICES ASSUME Base, HandedPosted, [Next]_vars
             PROVE  HandedPosted'
  OBVIOUS
<1>1. DOMAIN posted \subseteq DOMAIN posted'
  BY CommentSteps, Commented
<1>2. Told(pass.create) \subseteq DOMAIN posted
  BY DEF Told, CommentsOn
<1> QED
  BY <1>1, <1>2, CommentSteps DEF HandedPosted

\* The types are as stated: in every state of the PLAN task, its runs, its
\* children and its pull requests (PlanTask's TypeOK).
THEOREM TypeCorrect == Spec => []TypeOK
<1>1. Base /\ HandedPosted => TypeOK
  BY TypedIsType DEF Base, HandedPosted
<1>2. Init => HandedPosted
  BY DEF Init, HandedPosted
<1> QED
  BY <1>1, <1>2, InitBase, StepBase, StepHanded, PTL DEF Spec

-----------------------------------------------------------------------------
(* The kinds of steps. *)

Starts ==
  /\ pass = NoPass /\ seen' = [notes |-> notes, children |-> children]
  /\ UNCHANGED <<flow, phase, worker, notes, children, runs, prs, posted, pass, asked, lapsed, landed>>

Visits ==
  /\ pass = NoPass /\ seen # NoCycle /\ seen' = NoCycle /\ Decide /\ Sound(pass')
  /\ UNCHANGED <<flow, phase, worker, notes, children, runs, prs, posted, asked, lapsed, landed>>

Acts ==
  /\ Deciding /\ pass.stage = "effects" /\ pass'.stage = "patch"
  /\ pass'.from = pass.from /\ pass'.to = pass.to /\ pass'.patch = pass.patch
  /\ pass'.create = pass.create /\ pass'.child = pass.child /\ pass'.clear = pass.clear
  /\ After' = After
  /\ UNCHANGED <<flow, phase, worker, notes, prs, posted, seen, asked, lapsed, landed>>
  /\ \/ Launched(pass.create) /\ handed' = handed \cup Told(pass.create)
     \/ runs' = Without(pass.discard)
          /\ (pass.create = NoRun \/ (pass.create \in DOMAIN runs /\ ~Replaceable(pass.create)))
     \/ runs' = runs /\ pass.create \in Unread
  /\ children' = IF pass.child = NoChild THEN children ELSE WithChild(pass.child)

Writes ==
  /\ Deciding /\ pass.stage = "patch" /\ phase' = To /\ worker' = After /\ ~Deciding'
  /\ UNCHANGED <<flow, notes, children, runs, prs, posted, seen, asked, landed>>
  /\ lapsed \subseteq lapsed'
  /\ \/ pass' = NoPass /\ pass.clear.changes \in {0} \cup lapsed'
     \/ pass' # NoPass /\ pass'.stage = "clear" /\ pass'.clear = pass.clear

\* The request for changes is left, withdrawn, cleared, replaced by the next,
\* or lapses.
RequestGoes ==
  /\ lapsed \subseteq lapsed'
  /\ InStage("clear") /\ pass' = NoPass =>
       pass.clear.changes \in {0} \cup lapsed' \/ notes'.changes = 0
  /\ \/ notes'.changes \in {0, notes.changes} /\ asked' = asked
     \/ notes'.changes = asked + 1 /\ asked' = asked + 1

\* Nothing is decided, written or begun; something may end.
Idles ==
  /\ RequestGoes
  /\ pass' = pass \/ pass' = NoPass
  /\ seen' = seen \/ seen' = NoCycle
  /\ DOMAIN runs' \subseteq DOMAIN runs /\ \A y \in DOMAIN runs' : runs'[y] = runs[y]
  /\ DOMAIN prs' = DOMAIN prs
  /\ \A n \in DOMAIN prs : prs'[n].head = prs[n].head
                             /\ (prs'[n].state = "open" => prs[n].state = "open")
  /\ landed \subseteq landed'
  /\ UNCHANGED <<flow, phase, worker, children>>

Plans ==
  /\ phase = "rework-requested" /\ phase' \in {"awaiting-human", "failed"}
  /\ seen = NoCycle /\ pass = NoPass
  /\ UNCHANGED <<flow, worker, notes, children, runs, prs, posted, seen, pass, asked, lapsed, landed>>

Builds(c) ==
  /\ Observed(BuildGen) \in {"Running", "Stale"} /\ c.by = "buildgen"
  /\ children' = WithChild(c)
  /\ UNCHANGED <<flow, phase, worker, notes, runs, prs, posted, seen, pass, asked, lapsed, landed>>

Turns(x, r) ==
  /\ x \in DOMAIN runs /\ Turned(x, r)
  /\ GoesOn(x, r) \/ Succeeds(x, r) \/ Opens(x, r)
  /\ landed \subseteq landed'
  /\ UNCHANGED <<flow, phase, worker, notes, children, posted, seen, pass, asked, lapsed>>

Ends(c) ==
  /\ c \in DOMAIN children /\ children[c] = "open"
  /\ DOMAIN children' = DOMAIN children /\ children'[c] # "open"
  /\ \A d \in DOMAIN children \ {c} : children'[d] = children[d]
  /\ UNCHANGED <<flow, phase, worker, notes, runs, prs, posted, seen, pass, asked, lapsed, landed>>

\* A request nobody touches.
LEMMA StillThere ==
  ASSUME Base, UNCHANGED <<notes, pass, asked, lapsed>>
  PROVE  RequestGoes
<1>1. pass' = NoPass => ~InStage("clear")
  BY DEF InStage
<1> QED
  BY <1>1 DEF RequestGoes

\* What is consumed is cleared.
LEMMA ClearingTo ==
  ASSUME Base, ClearTaskAnnotations
  PROVE  /\ pass.clear.changes # 0 => notes'.changes = 0
         /\ pass.clear.changes = 0 => notes'.changes = notes.changes
<1>1. pass # NoPass /\ "changes" \in DOMAIN notes /\ NoNotes["changes"] = 0
  BY DEF ClearTaskAnnotations, InStage, Base, Typed, StoreTyped, Notes, NoNotes
<1> QED
  BY <1>1 DEF ClearTaskAnnotations

\* Every step is of one of them.
LEMMA Kinds ==
  ASSUME Base, [Next]_vars
  PROVE  \/ Starts \/ Visits \/ Acts \/ Writes \/ Idles \/ Plans
         \/ \E c : Builds(c)
         \/ \E x, r : Turns(x, r)
         \/ \E c : Ends(c)
<1>1. CASE StartCycle
  BY <1>1 DEF StartCycle, Starts, plan, github, history
<1>2. CASE Visit
  <2>1. Sound(pass')
    BY <1>2, DecideSound DEF Base, Typed, Visit
  <2>2. pass = NoPass
    BY <1>2 DEF Base, OnRecord, Visit
  <2> QED
    BY <1>2, <2>1, <2>2 DEF Visit, Visits, plan, github, history
<1>3. CASE RunEffects
  <2>1. /\ pass # NoPass /\ pass.stage = "effects" /\ pass' = [pass EXCEPT !.stage = "patch"]
        /\ UNCHANGED <<flow, phase, worker, notes, prs, posted, seen, asked, lapsed, landed>>
        /\ \/ Launched(pass.create) /\ handed' = handed \cup Told(pass.create)
           \/ runs' = Without(pass.discard)
                /\ (pass.create = NoRun \/ (pass.create \in DOMAIN runs /\ ~Replaceable(pass.create)))
           \/ runs' = runs /\ pass.create \in Unread
        /\ children' = IF pass.child = NoChild THEN children ELSE WithChild(pass.child)
    BY <1>3, RunEffectsTo DEF Base, Typed
  <2>2. /\ pass'.stage = "patch" /\ pass'.from = pass.from /\ pass'.to = pass.to
        /\ pass'.patch = pass.patch /\ pass'.create = pass.create
        /\ pass'.child = pass.child /\ pass'.clear = pass.clear
    BY <2>1, StageSet DEF Base, Typed
  <2>3. After' = After
    BY <2>1, <2>2 DEF After
  <2>4. Deciding
    BY <2>1 DEF Deciding
  <2> QED
    BY <2>1, <2>2, <2>3, <2>4 DEF Acts
<1>4. CASE PatchStatus \/ PatchUnanswered
  <2>1. /\ pass # NoPass /\ pass.stage = "patch" /\ phase' = To /\ worker' = After
        /\ UNCHANGED <<flow, notes, children, runs, prs, posted, seen, asked, landed>>
        /\ \/ pass' = NoPass /\ pass.clear = NoNotes /\ lapsed' = lapsed
           \/ pass' = NoPass /\ lapsed' = lapsed \cup ({pass.clear.changes} \ {0})
           \/ pass' = [pass EXCEPT !.stage = "clear"] /\ lapsed' = lapsed
    BY <1>4 DEF PatchStatus, PatchUnanswered, WriteStatus, InStage, To, After, Lapse, github
  <2>2. \/ pass' = NoPass /\ pass.clear.changes \in {0} \cup lapsed'
        \/ pass' # NoPass /\ pass'.stage = "clear" /\ pass'.clear = pass.clear
    <3>1. CASE pass' = NoPass
      <4>1. NoNotes.changes = 0
        BY DEF NoNotes
      <4>2. pass' # [pass EXCEPT !.stage = "clear"]
        BY <2>1, <3>1, StageSet DEF Base, Typed, NoPass
      <4>3. \/ pass.clear = NoNotes
            \/ lapsed' = lapsed \cup ({pass.clear.changes} \ {0})
        BY <2>1, <4>2
      <4> QED
        BY <3>1, <4>1, <4>3
    <3>2. CASE pass' # NoPass
      BY <2>1, <3>2, StageSet DEF Base, Typed
    <3> QED
      BY <3>1, <3>2
  <2>3. Deciding /\ ~Deciding'
    BY <2>1, <2>2 DEF Deciding
  <2> QED
    BY <2>1, <2>2, <2>3 DEF Writes
<1>5. CASE PassOver \/ FailReplacing \/ ClearTaskAnnotations \/ Abort
  <2>1. RequestGoes
    <3>1. CASE PassOver \/ FailReplacing
      BY <3>1 DEF PassOver, FailReplacing, RequestGoes, InStage, history, OnRecord, Base
    <3>2. CASE ClearTaskAnnotations
      BY <3>2, ClearingTo DEF RequestGoes, ClearTaskAnnotations, history
    <3>3. CASE Abort
      BY <3>3 DEF Abort, Lapse, RequestGoes
    <3> QED
      BY <1>5, <3>1, <3>2, <3>3
  <2> QED
    BY <1>5, <2>1 DEF PassOver, FailReplacing, ClearTaskAnnotations, Abort, Without, Idles,
                      plan, github, history
<1>6. CASE Human
  <2>1. RequestGoes
    BY <1>6, HumanMoves DEF RequestGoes
  <2> QED
    BY <1>6, <2>1, HumanMoves DEF Idles
<1>7. CASE PlanningRound
  BY <1>7 DEF PlanningRound, Plans, github, history
<1>8. CASE BuildTaskCreated
  <2>1. Builds(BuildOf(Cardinality(Built) + 1))
    BY <1>8 DEF BuildTaskCreated, Builds, BuildOf, plan, github, history
  <2> QED
    BY <2>1
<1>9. CASE GitHub
  <2>1. PICK n \in DOMAIN prs : PrMerged(n) \/ PrClosed(n) \/ Comment(n)
    BY <1>9 DEF GitHub
  <2>2. ASSUME NEW how \in {"merged", "closed"}, PrEnds(n, how), landed \subseteq landed'
        PROVE  Idles
    <3>1. /\ prs' = [prs EXCEPT ![n].state = how]
          /\ UNCHANGED <<flow, phase, worker, notes, children, runs, posted, seen, pass, asked, lapsed>>
      BY <2>2 DEF PrEnds, plan
    <3>2. prs[n] \in PR
      BY DEF Base, Typed, StoreTyped
    <3>3. DOMAIN prs' = DOMAIN prs /\ \A m \in DOMAIN prs \ {n} : prs'[m] = prs[m]
      BY <3>1
    <3>4. prs'[n].head = prs[n].head /\ prs'[n].state # "open"
      BY <3>1, <3>2 DEF PR
    <3> QED
      BY <2>2, <3>1, <3>3, <3>4, StillThere DEF Idles
  <2>3. CASE PrMerged(n)
    BY <2>2, <2>3 DEF PrMerged
  <2>4. CASE PrClosed(n)
    BY <2>2, <2>4 DEF PrClosed
  <2>5. CASE Comment(n)
    BY <2>5, StillThere DEF Comment, Idles, plan, history
  <2> QED
    BY <2>1, <2>3, <2>4, <2>5
<1>10. ASSUME NEW x \in DOMAIN runs, RunSteps(x)
       PROVE  Idles \/ \E r : Turns(x, r)
  <2>1. /\ UNCHANGED <<flow, phase, worker, notes, children, posted, seen, pass, asked, lapsed>>
        /\ \/ Leaves(x)
           \/ \E r : GoesOn(x, r) \/ Succeeds(x, r) \/ Opens(x, r)
    BY <1>10, RunMoves DEF Base, Typed, plan
  <2>2. CASE Leaves(x)
    BY <2>1, <2>2, StillThere DEF Leaves, Without, Idles
  <2>3. ASSUME NEW r, GoesOn(x, r) \/ Succeeds(x, r) \/ Opens(x, r)
        PROVE  Turns(x, r)
    <3>1. Turned(x, r) /\ landed \subseteq landed'
      BY <2>3 DEF GoesOn, Succeeds, Opens
    <3> QED
      BY <2>1, <2>3, <3>1 DEF Turns
  <2> QED
    BY <2>1, <2>2, <2>3
<1>11. ASSUME NEW c \in DOMAIN children, ChildEnds(c)
       PROVE  Ends(c)
  BY <1>11 DEF ChildEnds, Ends, plan, github, history
<1>12. CASE UNCHANGED vars
  BY <1>12, StillThere DEF vars, Idles
<1> QED
  BY <1>1, <1>2, <1>3, <1>4, <1>5, <1>6, <1>7, <1>8, <1>9, <1>10, <1>11, <1>12 DEF Next, Manager

-----------------------------------------------------------------------------
(* The generation is at work only while the task waits for it. *)

Generating == Observed(BuildGen) \in {"Pending", "Running", "Stale"}

GenerationInPlace ==
  /\ worker.buildgen \in {NoRun, BuildGen}
  /\ Deciding => After.buildgen \in {NoRun, BuildGen}
  /\ Generating => phase = "generating-builds" /\ (Deciding => pass.to = "stay")
  /\ Deciding /\ pass.create = BuildGen => phase = "generating-builds" /\ pass.to = "stay"

\* It does not begin without a decision.
LEMMA GenerationBegins ==
  ASSUME Base, Starts \/ Visits \/ Acts \/ Writes \/ Idles \/ Plans
                \/ (\E c : Builds(c)) \/ (\E x, r : Turns(x, r)) \/ (\E c : Ends(c)),
         Generating'
  PROVE  Generating \/ (Acts /\ pass.create = BuildGen)
<1>1. BuildGen \in DOMAIN runs' /\ runs'[BuildGen].phase \in {"Pending", "Running", "Stale"}
  BY DEF Generating, Observed
<1>2. ASSUME BuildGen \in DOMAIN runs, runs[BuildGen].phase \notin Terminal
      PROVE  Generating
  <2>1. runs[BuildGen] \in Run
    BY <1>2 DEF Base, Typed, StoreTyped
  <2> QED
    BY <1>2, <2>1 DEF Generating, Observed, Run, RunPhase, Terminal
<1>3. CASE Starts \/ Visits \/ Writes \/ Plans \/ (\E c : Builds(c)) \/ (\E c : Ends(c))
  BY <1>3 DEF Starts, Visits, Writes, Plans, Builds, Ends, Generating, Observed
<1>4. CASE Idles
  BY <1>1, <1>4 DEF Idles, Generating, Observed
<1>5. ASSUME NEW x, NEW r, Turns(x, r)
      PROVE  Generating
  BY <1>1, <1>2, <1>5 DEF Turns, Turned, Generating, Observed
<1>6. CASE Acts
  BY <1>1, <1>6 DEF Acts, Launched, Without, Generating, Observed
<1> QED
  BY <1>3, <1>4, <1>5, <1>6

\* Every step keeps the generation in its phase.
LEMMA StepGeneration ==
  ASSUME Base, [Next]_vars, GenerationInPlace
  PROVE  GenerationInPlace'
<1>0. BuildGen \in RunId /\ BuildGen # NoRun /\ Integration # BuildGen /\ NoRun \notin DOMAIN runs
  BY NamesType, NamesAssumption DEF Base, Typed, StoreTyped, Integration, BuildGen, MergeRun, PrOpen
<1>1. CASE Starts
  BY <1>1 DEF Starts, GenerationInPlace, Deciding, After, Generating, Observed
<1>2. CASE Visits
  <2> DEFINE v == Merge(worker, pass'.patch)
  <2>1. /\ Chosen(pass', v) /\ v.buildgen \in {worker.buildgen, NoRun, BuildGen}
        /\ UNCHANGED <<phase, worker, runs>>
    BY <1>2 DEF Visits, Sound
  <2>2. After' = v
    BY <2>1 DEF After
  <2> HIDE DEF v
  <2>3. Generating' = Generating
    BY <2>1 DEF Generating, Observed
  <2>4. ASSUME Generating
        PROVE  phase = "generating-builds" /\ pass'.to = "stay"
    <3>1. phase = "generating-builds"
      BY <2>4 DEF GenerationInPlace
    <3>2. Generates(pass', v)
      BY <2>1, <3>1 DEF Chosen, AnswersHuman, Gates, Schedules, Concludes, Closes, Watches,
                        FollowsUp, Recovers, Polls
    <3>3. Observed(worker.buildgen) \notin Terminal
      BY <1>0, <2>4 DEF GenerationInPlace, Observed, Generating, Terminal
    <3> QED
      BY <3>1, <3>2, <3>3 DEF Generates
  <2>5. ASSUME pass'.create = BuildGen
        PROVE  phase = "generating-builds" /\ pass'.to = "stay"
    BY <1>0, <2>1, <2>5 DEF Chosen, AnswersHuman, Generates, Gates, Schedules, Concludes, Closes,
                Watches, FollowsUp, Recovers, Integrates, Launches, Retries
  <2> QED
    BY <2>1, <2>2, <2>3, <2>4, <2>5 DEF GenerationInPlace
<1>3. CASE Acts
  <2>1. Generating' => Generating \/ pass.create = BuildGen
    BY <1>3, GenerationBegins
  <2>2. Deciding /\ UNCHANGED <<phase, worker>> /\ After' = After
        /\ pass'.to = pass.to /\ pass'.create = pass.create
    BY <1>3 DEF Acts
  <2> QED
    BY <2>1, <2>2 DEF GenerationInPlace
<1>4. CASE Writes
  <2>1. Generating' => Generating
    BY <1>4 DEF Writes, Generating, Observed
  <2> QED
    BY <1>4, <2>1 DEF Writes, GenerationInPlace, To
<1>5. ASSUME UNCHANGED <<phase, worker>>, pass' = pass \/ pass' = NoPass, Generating' => Generating
      PROVE  GenerationInPlace'
  BY <1>5 DEF GenerationInPlace, Deciding, After
<1>6. CASE Idles
  <2>1. Generating' => Generating
    BY <1>6 DEF Idles, Generating, Observed
  <2> QED
    BY <1>5, <1>6, <2>1 DEF Idles
<1>7. CASE Plans
  <2>1. ~Generating'
    BY <1>7 DEF Plans, GenerationInPlace, Generating, Observed
  <2> QED
    BY <1>7, <2>1 DEF Plans, GenerationInPlace, Deciding
<1>8. ASSUME NEW c, Builds(c)
      PROVE  GenerationInPlace'
  BY <1>5, <1>8 DEF Builds, Generating, Observed
<1>9. ASSUME NEW x, NEW r, Turns(x, r)
      PROVE  GenerationInPlace'
  <2>1. Generating' => Generating
    <3> SUFFICES ASSUME Generating' PROVE Generating
      OBVIOUS
    <3>1. BuildGen \in DOMAIN runs
      BY <1>9 DEF Turns, Turned, Generating, Observed
    <3>2. runs[BuildGen] \in Run
      BY <3>1 DEF Base, Typed, StoreTyped
    <3>3. runs[BuildGen].phase \notin Terminal
      BY <1>9, <3>1 DEF Turns, Turned, Generating, Observed, Terminal
    <3> QED
      BY <3>1, <3>2, <3>3 DEF Generating, Observed, Run, RunPhase, Terminal
  <2> QED
    BY <1>5, <1>9, <2>1 DEF Turns
<1>10. ASSUME NEW c, Ends(c)
       PROVE  GenerationInPlace'
  BY <1>5, <1>10 DEF Ends, Generating, Observed
<1> QED
  BY <1>1, <1>2, <1>3, <1>4, <1>6, <1>7, <1>8, <1>9, <1>10, Kinds

\* A cycle's list of the children is out of date in this only: more of them may
\* be done, and while the generation is waited for there may be more.
SeenOutOfDate ==
  seen # NoCycle =>
    /\ DOMAIN seen.children \subseteq DOMAIN children
    /\ phase # "generating-builds" => DOMAIN seen.children = DOMAIN children
    /\ \A c \in DOMAIN seen.children : seen.children[c] # "open" => children[c] # "open"

\* Every step leaves the list out of date in no more than this.
LEMMA StepSeen ==
  ASSUME Base, Base', [Next]_vars, GenerationInPlace, SeenOutOfDate
  PROVE  SeenOutOfDate'
<1>0. seen = NoCycle \/ pass = NoPass
  BY DEF Base, OnRecord
<1>1. CASE Starts
  BY <1>1 DEF Starts, SeenOutOfDate
<1>2. CASE Visits
  BY <1>2 DEF Visits, SeenOutOfDate
<1>3. CASE Acts \/ Writes
  <2>1. Deciding /\ seen' = seen
    BY <1>3 DEF Acts, Writes
  <2>2. seen = NoCycle
    BY <1>0, <2>1 DEF Deciding
  <2> QED
    BY <2>1, <2>2 DEF SeenOutOfDate
<1>5. CASE Idles
  BY <1>5 DEF Idles, SeenOutOfDate
<1>6. CASE Plans
  BY <1>6 DEF Plans, SeenOutOfDate
<1>7. ASSUME NEW c, Builds(c)
      PROVE  SeenOutOfDate'
  <2>1. phase = "generating-builds"
    BY <1>7 DEF Builds, GenerationInPlace, Generating
  <2>2. DOMAIN children' = DOMAIN children \cup {c} /\ \A d \in DOMAIN children : children'[d] = children[d]
    BY <1>7, ChildPut DEF Builds
  <2> QED
    BY <1>7, <2>1, <2>2 DEF Builds, SeenOutOfDate
<1>8. ASSUME NEW x, NEW r, Turns(x, r)
      PROVE  SeenOutOfDate'
  BY <1>8 DEF Turns, SeenOutOfDate
<1>9. ASSUME NEW c, Ends(c)
      PROVE  SeenOutOfDate'
  BY <1>9 DEF Ends, SeenOutOfDate
<1> QED
  BY <1>1, <1>2, <1>3, <1>5, <1>6, <1>7, <1>8, <1>9, Kinds

-----------------------------------------------------------------------------
(* How far the PLAN task has come, and the children with it. *)

NoneOpen(S) == \A c \in S \cap DOMAIN children : children[c] # "open"
IntegratedAs(p, w) == p = "done" /\ ~w.abandoned /\ flow # "plan-only"

\* In the phase p with the worker status w.
Course(p, w) ==
  /\ (\/ w.refs # {} \/ w.merge # NoRun \/ w.mergeError
      \/ p \in {"awaiting-children", "awaiting-feature-merge"})
       => w.created
  /\ p = "generating-builds" => ~w.created
  /\ p \in {"awaiting-children", "awaiting-feature-merge"} => ~w.mergeError
  /\ w.merge # NoRun => w.mergeError \/ p \in {"awaiting-feature-merge", "done"}
  /\ p \in {"awaiting-human", "rework-requested", "failed"} /\ w.created /\ ~w.mergeError
       => Done(children)
  /\ w.mergeError \/ p = "awaiting-feature-merge" \/ IntegratedAs(p, w)
       => NoneOpen(w.refs \cup Built)

\* As it is, and as it will be once the decision in hand is written.
CourseKept ==
  /\ Course(phase, worker)
  /\ worker.created => DOMAIN children # {}
  /\ seen # NoCycle /\ phase = "awaiting-human" /\ worker.created /\ ~worker.mergeError
       => Done(seen.children)
  /\ Deciding =>
       /\ Course(To, After)
       /\ worker.created => After.created
       /\ After.created => DOMAIN children # {}
       /\ To = "generating-builds" => After.refs = worker.refs
       /\ pass.child # NoChild => Polls /\ pass.to = "awaiting-children" /\ pass.child.by # "buildgen"

\* What a decision p comes to, with the worker status v.
Pursues(p, v) ==
  LET to == IF p.to = "stay" THEN phase ELSE p.to IN
  /\ Course(to, v)
  /\ worker.created => v.created
  /\ v.created => DOMAIN children # {}
  /\ to = "generating-builds" => v.refs = worker.refs
  /\ p.child # NoChild => Polls /\ p.to = "awaiting-children" /\ p.child.by # "buildgen"

\* An integration once the children are done stays on course.
LEMMA IntegrationPursues ==
  ASSUME NEW p, NEW v, Integrates(p, v), Done(children), Course(phase, worker), p.child = NoChild,
         worker.created, ~worker.mergeError, worker.merge = NoRun, worker.created => DOMAIN children # {}
  PROVE  Pursues(p, v)
<1>1. NoneOpen(v.refs \cup Built)
  BY DEF Done, NoneOpen
<1> QED
  BY <1>1 DEF Integrates, Launches, Same, Pursues, Course

\* So does every decision.
LEMMA DecisionPursues ==
  ASSUME Base, SeenOutOfDate, CourseKept, seen # NoCycle, NEW p, NEW v, Chosen(p, v)
  PROVE  Pursues(p, v)
<1>1. Course(phase, worker) /\ (worker.created => DOMAIN children # {})
  BY DEF CourseKept
<1>2. DOMAIN seen.children \subseteq DOMAIN children
      /\ (phase # "generating-builds" => DOMAIN seen.children = DOMAIN children)
  BY DEF SeenOutOfDate
<1>3. phase # "generating-builds" /\ Done(seen.children) => Done(children)
  BY DEF SeenOutOfDate, Done
<1>4. CASE AnswersHuman(p, v)
  <2>1. phase = "awaiting-human" /\ p.child = NoChild
    BY <1>4 DEF AnswersHuman
  <2>2. CASE p.to = "done" /\ p.create = NoRun /\ Same(v) /\ v.abandoned
    BY <1>1, <2>1, <2>2 DEF Pursues, Course, IntegratedAs, Same
  <2>3. CASE p.to = "rework-requested" /\ p.create = NoRun /\ Same(v)
    BY <1>1, <2>1, <2>3 DEF Pursues, Course, IntegratedAs, Same
  <2>4. CASE worker.mergeError /\ Retries(p, v)
    BY <1>1, <2>1, <2>4 DEF Pursues, Course, Retries
  <2>5. CASE ~worker.mergeError /\ Resumes /\ Integrates(p, v)
    <3>1. worker.created /\ Done(children) /\ worker.merge = NoRun
      BY <1>1, <1>3, <2>1, <2>5 DEF Resumes, Course
    <3> QED
      BY <1>1, <2>1, <2>5, <3>1, IntegrationPursues
  <2>6. CASE ~worker.mergeError /\ flow = "plan-only" /\ p.to = "done" /\ Same(v)
    BY <1>1, <2>1, <2>6 DEF Pursues, Course, IntegratedAs, Same
  <2>7. CASE ~worker.mergeError /\ ~Resumes /\ p.to = "generating-builds" /\ Same(v)
    <3>1. ~worker.created
      <4> SUFFICES ASSUME worker.created PROVE FALSE
        OBVIOUS
      <4>1. Done(children) /\ DOMAIN seen.children = DOMAIN children
        BY <1>1, <1>2, <2>1, <2>7 DEF Course
      <4>2. ~Done(seen.children)
        BY <1>1, <2>7, <4>1 DEF Resumes
      <4>3. Done(seen.children)
        BY <2>1, <2>7 DEF CourseKept
      <4> QED
        BY <4>2, <4>3
    <3> QED
      BY <1>1, <2>1, <2>7, <3>1 DEF Pursues, Course, IntegratedAs, Same
  <2> QED
    BY <1>4, <2>2, <2>3, <2>4, <2>5, <2>6, <2>7 DEF AnswersHuman
<1>5. CASE Generates(p, v)
  BY <1>1, <1>2, <1>5 DEF Generates, Pursues, Course, IntegratedAs, Same
<1>6. CASE Gates(p, v)
  <2>1. phase = "awaiting-children" /\ p.child = NoChild /\ worker.created
        /\ worker.merge = NoRun /\ ~worker.mergeError /\ DOMAIN seen.children = DOMAIN children
    BY <1>1, <1>2, <1>6 DEF Gates, Course
  <2>2. Done(children)
    BY <1>1, <1>3, <1>6, <2>1 DEF Gates, Integrates
  <2>3. CASE Integrates(p, v)
    BY <1>1, <2>1, <2>2, <2>3, IntegrationPursues
  <2>4. CASE p.to = "awaiting-human" /\ Same(v)
    BY <1>1, <2>1, <2>2, <2>4 DEF Pursues, Course, IntegratedAs, Same
  <2> QED
    BY <1>6, <2>3, <2>4 DEF Gates
<1>7. CASE Schedules(p, v)
  BY <1>1, <1>7 DEF Schedules, Launches, Pursues, Course, IntegratedAs
<1>8. CASE Concludes(p, v)
  BY <1>1, <1>8 DEF Concludes, Pursues, Course, IntegratedAs, Same
<1>9. CASE Closes(p, v)
  BY <1>1, <1>9 DEF Closes, Polls, Pursues, Course, IntegratedAs, Same
<1>10. CASE Watches(p, v)
  BY <1>1, <1>10 DEF Watches, Polls, Pursues, Course, IntegratedAs, Same
<1>11. CASE FollowsUp(p, v)
  BY <1>1, <1>11 DEF FollowsUp, Polls, Pursues, Course, IntegratedAs, Built
<1>12. CASE Recovers(p, v)
  <2>1. phase = "failed" /\ p.child = NoChild
    BY <1>12 DEF Recovers
  <2>2. CASE (worker.mergeError \/ worker.merge # NoRun) /\ Retries(p, v)
    <3>1. worker.mergeError /\ worker.created /\ NoneOpen(worker.refs \cup Built)
      BY <1>1, <2>1, <2>2 DEF Course
    <3> QED
      BY <1>1, <2>1, <2>2, <3>1 DEF Pursues, Course, Retries
  <2>3. CASE p.to = "awaiting-human" /\ Same(v)
    BY <1>1, <2>1, <2>3 DEF Pursues, Course, IntegratedAs, Same
  <2> QED
    BY <1>12, <2>2, <2>3 DEF Recovers
<1> QED
  BY <1>4, <1>5, <1>6, <1>7, <1>8, <1>9, <1>10, <1>11, <1>12 DEF Chosen

\* Every step keeps the course.
LEMMA StepCourse ==
  ASSUME Base, Base', [Next]_vars, GenerationInPlace, SeenOutOfDate, CourseKept
  PROVE  CourseKept'
<1>1. CASE Starts
  BY <1>1 DEF Starts, CourseKept, Course, Done, NoneOpen, Built, IntegratedAs, Deciding, To, After, Polls
<1>2. CASE Visits
  <2> DEFINE v == Merge(worker, pass'.patch)
  <2>1. /\ Chosen(pass', v)
        /\ UNCHANGED <<flow, phase, worker, children>>
    BY <1>2 DEF Visits, Sound
  <2>2. After' = v
    BY <2>1 DEF After
  <2> HIDE DEF v
  <2>3. Pursues(pass', v)
    BY <1>2, <2>1, DecisionPursues DEF Visits
  <2>4. seen' = NoCycle
    BY <1>2 DEF Visits
  <2> QED
    BY <2>1, <2>2, <2>3, <2>4 DEF Pursues, CourseKept, Course, Done, NoneOpen, Built, IntegratedAs, To, Polls
<1>3. CASE Acts
  <2>0. seen = NoCycle \/ pass = NoPass
    BY DEF Base, OnRecord
  <2>1. /\ Deciding /\ pass'.to = pass.to /\ pass'.child = pass.child /\ After' = After
        /\ UNCHANGED <<flow, phase, worker>> /\ seen' = NoCycle
    BY <1>3, <2>0 DEF Acts, Deciding
  <2>2. CASE pass.child = NoChild
    <3>1. children' = children
      BY <1>3, <2>2 DEF Acts
    <3> QED
      BY <2>1, <2>2, <3>1 DEF CourseKept, Course, Done, NoneOpen, Built, IntegratedAs, To
  <2>3. CASE pass.child # NoChild
    <3>1. Polls /\ pass.to = "awaiting-children" /\ pass.child.by # "buildgen"
      BY <2>1, <2>3 DEF CourseKept
    <3>2. /\ DOMAIN children' = DOMAIN children \cup {pass.child}
          /\ \A d \in DOMAIN children : children'[d] = children[d]
          /\ pass.child \in DOMAIN children => children' = children
      BY <1>3, <2>3, ChildPut DEF Acts
    <3>3. worker.refs \subseteq DOMAIN children
      BY DEF Base, OnRecord
    <3>4. CASE pass.child \in DOMAIN children
      BY <2>1, <3>2, <3>4 DEF CourseKept, Course, Done, NoneOpen, Built, IntegratedAs, To, Polls
    <3>5. CASE pass.child \notin DOMAIN children
      <4>1. phase = "awaiting-feature-merge" /\ Course(phase, worker) /\ ~worker.mergeError
        BY <3>1 DEF CourseKept, Course, Polls
      <4>2. Built' = Built
        BY <3>1, <3>2 DEF Built
      <4>3. NoneOpen(worker.refs \cup Built)'
        <5>1. NoneOpen(worker.refs \cup Built)
          BY <4>1 DEF Course
        <5>2. pass.child \notin worker.refs \cup Built
          BY <3>3, <3>5 DEF Built
        <5> QED
          BY <2>1, <3>2, <4>2, <5>1, <5>2 DEF NoneOpen
      <4>4. Course(phase, worker)'
        BY <2>1, <4>1, <4>3 DEF Course
      <4>5. To = "awaiting-children" /\ To' = To /\ Course(To, After)
        BY <2>1, <3>1 DEF To, CourseKept
      <4>6. Course(To, After)'
        BY <2>1, <4>5 DEF Course, IntegratedAs
      <4>7. Polls'
        BY <2>1, <3>1 DEF Polls
      <4> QED
        BY <2>1, <3>1, <3>2, <4>4, <4>5, <4>6, <4>7 DEF CourseKept
    <3> QED
      BY <3>4, <3>5
  <2> QED
    BY <2>2, <2>3
<1>4. CASE Writes
  <2>0. seen = NoCycle \/ pass = NoPass
    BY DEF Base, OnRecord
  <2>1. phase' = To /\ worker' = After /\ ~Deciding' /\ Deciding /\ UNCHANGED <<flow, children, seen>>
    BY <1>4 DEF Writes
  <2>2. seen' = NoCycle
    BY <2>0, <2>1 DEF Deciding
  <2> HIDE DEF To, After
  <2> QED
    BY <2>1, <2>2 DEF CourseKept, Course, Done, NoneOpen, Built, IntegratedAs
<1>5. CASE Idles
  BY <1>5 DEF Idles, CourseKept, Course, Done, NoneOpen, Built, IntegratedAs, Deciding, To, After, Polls
<1>6. CASE Plans
  BY <1>6 DEF Plans, CourseKept, Course, Done, NoneOpen, Built, IntegratedAs, Deciding
<1>7. ASSUME NEW c, Builds(c)
      PROVE  CourseKept'
  <2>1. phase = "generating-builds" /\ (Deciding => To = "generating-builds" /\ pass.to = "stay")
    BY <1>7 DEF Builds, GenerationInPlace, Generating, To
  <2>2. DOMAIN children' = DOMAIN children \cup {c} /\ UNCHANGED <<flow, phase, worker, pass, seen>>
    BY <1>7, ChildPut DEF Builds
  <2>3. Course(phase, worker) /\ (Deciding => Course(To, After))
    BY DEF CourseKept
  <2>4. ~worker.created /\ ~worker.mergeError
    BY <2>1, <2>3 DEF Course
  <2>5. Deciding => ~After.created /\ ~After.mergeError
    BY <2>1, <2>3 DEF Course
  <2>6. Deciding => pass.child = NoChild
    BY <2>1 DEF CourseKept
  <2>7. Course(phase, worker)'
    BY <2>1, <2>2, <2>3, <2>4 DEF Course, IntegratedAs
  <2>8. Deciding' = Deciding /\ To' = To /\ After' = After /\ pass'.child = pass.child
    BY <2>2 DEF Deciding, To, After
  <2>9. Deciding => Course(To, After)'
    BY <2>1, <2>2, <2>3, <2>5, <2>8 DEF Course, IntegratedAs
  <2> QED
    BY <2>2, <2>3, <2>4, <2>5, <2>6, <2>7, <2>8, <2>9 DEF CourseKept
<1>8. ASSUME NEW x, NEW r, Turns(x, r)
      PROVE  CourseKept'
  BY <1>8 DEF Turns, CourseKept, Course, Done, NoneOpen, Built, IntegratedAs, Deciding, To, After, Polls
<1>9. ASSUME NEW c, Ends(c)
      PROVE  CourseKept'
  <2>1. /\ UNCHANGED <<flow, phase, worker, pass, seen>> /\ DOMAIN children' = DOMAIN children
        /\ \A d \in DOMAIN children : children'[d] = "open" => children[d] = "open"
    BY <1>9 DEF Ends
  <2>2. (Done(children) => Done(children)') /\ Built' = Built
    BY <2>1 DEF Done, Built
  <2>3. \A S : NoneOpen(S) => NoneOpen(S)'
    BY <2>1 DEF NoneOpen
  <2> QED
    BY <2>1, <2>2, <2>3 DEF CourseKept, Course, IntegratedAs, Deciding, To, After, Polls, Done
<1> QED
  BY <1>1, <1>2, <1>3, <1>4, <1>5, <1>6, <1>7, <1>8, <1>9, Kinds

InCourse == Base /\ GenerationInPlace /\ SeenOutOfDate /\ CourseKept

\* The invariant so far holds at first,
LEMMA InitCourse == Init => InCourse
<1> SUFFICES ASSUME Init PROVE InCourse
  OBVIOUS
<1>1. /\ phase = "awaiting-human" /\ worker.refs = {} /\ worker.merge = NoRun /\ ~worker.mergeError
      /\ worker.buildgen = NoRun /\ ~worker.created
      /\ seen = NoCycle /\ pass = NoPass /\ DOMAIN runs = {}
  BY DEF Init, NewWorker
<1>2. GenerationInPlace
  BY <1>1 DEF GenerationInPlace, Generating, Observed, Deciding
<1>3. SeenOutOfDate
  BY <1>1 DEF SeenOutOfDate
<1>4. CourseKept
  BY <1>1 DEF CourseKept, Course, IntegratedAs, Deciding
<1> QED
  BY <1>2, <1>3, <1>4, InitBase DEF InCourse

\* and every step keeps it.
LEMMA StepInCourse == InCourse /\ [Next]_vars => InCourse'
BY StepBase, StepGeneration, StepSeen, StepCourse DEF InCourse

\* A PLAN task that is done, not abandoned and built has no child open, of
\* those on its record and of the generation (PlanTask's DoneMeansBuilt):
\* decideChildrenCompleteNext and the integration come after the last child.
THEOREM BuiltWhenDone == Spec => []DoneMeansBuilt
<1>1. ASSUME InCourse
      PROVE  DoneMeansBuilt
  <2>1. Integrated => NoneOpen(worker.refs \cup Built)
    BY <1>1 DEF InCourse, CourseKept, Course, Integrated, IntegratedAs
  <2> QED
    BY <2>1 DEF DoneMeansBuilt, NoneOpen
<1> QED
  BY <1>1, InitCourse, StepInCourse, PTL DEF Spec

\* No approval has the BUILD tasks generated again while there are children on
\* record (PlanTask's GeneratedOnce): the record is empty when it is decided.
THEOREM Generated == Spec => GeneratedOnce
<1>1. ASSUME InCourse, PatchStatus, phase' = "generating-builds"
      PROVE  worker.refs \cap DOMAIN children = {}
  <2>1. Deciding /\ phase' = To
    BY <1>1 DEF PatchStatus, WriteStatus, InStage, Deciding, To
  <2>2. Course(To, After) /\ After.refs = worker.refs
    BY <1>1, <2>1 DEF InCourse, CourseKept
  <2>3. After.refs = {}
    BY <1>1, <2>1, <2>2 DEF Course
  <2> QED
    BY <2>2, <2>3
<1>2. InCourse /\ [Next]_vars
        => [PatchStatus /\ phase' = "generating-builds" => worker.refs \cap DOMAIN children = {}]_vars
  BY <1>1
<1> QED
  BY <1>2, InitCourse, StepInCourse, PTL DEF Spec, GeneratedOnce

-----------------------------------------------------------------------------
(* The integration: its run covers what was merged. *)

\* What the runs report is so.
VerdictsHold ==
  \A x \in DOMAIN runs :
    /\ runs[x].verdict # "none" => runs[x].phase = "Succeeded" /\ runs[x].verdict \in Verdicts(x.kind)
    /\ runs[x].verdict = "landed" => runs[x].covers \subseteq landed
    /\ runs[x].verdict = "opened" => runs[x].pr # 0

\* Every step keeps the verdicts true.
LEMMA StepVerdicts ==
  ASSUME Base, [Next]_vars, VerdictsHold
  PROVE  VerdictsHold'
<1>1. ASSUME landed \subseteq landed', DOMAIN runs' \subseteq DOMAIN runs,
             \A y \in DOMAIN runs' : runs'[y] = runs[y]
      PROVE  VerdictsHold'
  BY <1>1 DEF VerdictsHold
<1>2. CASE Starts \/ Visits \/ Writes \/ Plans \/ Idles
  BY <1>1, <1>2 DEF Starts, Visits, Writes, Plans, Idles
<1>3. CASE Acts
  <2>1. CASE Launched(pass.create)
    BY <1>3, <2>1 DEF Acts, Launched, VerdictsHold
  <2>2. CASE runs' = runs \/ runs' = Without(pass.discard)
    BY <1>1, <1>3, <2>2 DEF Acts, Without
  <2> QED
    BY <1>3, <2>1, <2>2 DEF Acts
<1>4. ASSUME NEW c, Builds(c) \/ Ends(c)
      PROVE  VerdictsHold'
  BY <1>1, <1>4 DEF Builds, Ends
<1>5. ASSUME NEW x, NEW r, Turns(x, r)
      PROVE  VerdictsHold'
  <2>1. /\ DOMAIN runs' = DOMAIN runs /\ runs'[x] = r /\ r.covers = runs[x].covers
        /\ \A y \in DOMAIN runs \ {x} : runs'[y] = runs[y]
        /\ landed \subseteq landed'
    BY <1>5 DEF Turns, Turned
  <2>2. /\ r.verdict # "none" => r.phase = "Succeeded" /\ r.verdict \in Verdicts(x.kind)
        /\ r.verdict = "landed" => r.covers \subseteq landed'
        /\ r.verdict = "opened" => r.pr # 0
    <3>1. CASE GoesOn(x, r)
      BY <3>1 DEF GoesOn
    <3>2. CASE Succeeds(x, r)
      BY <2>1, <3>2 DEF Succeeds
    <3>3. CASE Opens(x, r)
      BY <3>3 DEF Opens, Verdicts
    <3> QED
      BY <1>5, <3>1, <3>2, <3>3 DEF Turns
  <2> QED
    BY <2>1, <2>2 DEF VerdictsHold
<1> QED
  BY <1>2, <1>3, <1>4, <1>5, Kinds

\* The integration of a PLAN task is by one kind of run, and only a flow with
\* pull requests has any, and follow-ups of them.
PrsOfTheFlow ==
  /\ worker.merge \in {NoRun, Integration}
  /\ Deciding => After.merge \in {NoRun, Integration}
  /\ Deciding /\ pass.create \in {MergeRun, PrOpen} => pass.create = Integration
  /\ flow # "pr" =>
       /\ worker.pr = 0 /\ DOMAIN children = Built
       /\ Deciding => After.pr = 0

\* The decisions keep to it.
LEMMA DecisionOfTheFlow ==
  ASSUME Base, VerdictsHold, PrsOfTheFlow, seen # NoCycle, NEW p, NEW v, Chosen(p, v)
  PROVE  /\ v.merge \in {NoRun, Integration}
         /\ p.create \in {MergeRun, PrOpen} => p.create = Integration
         /\ flow # "pr" => v.pr = 0
<1>0. /\ NoRun \notin {BuildGen, MergeRun, PrOpen} /\ BuildGen \notin {MergeRun, PrOpen}
      /\ MergeRun # PrOpen
  BY NamesType, NamesAssumption DEF Base, Typed, BuildGen, MergeRun, PrOpen
<1>1. v.merge \in {NoRun, Integration, worker.merge}
  BY DEF Chosen, AnswersHuman, Generates, Gates, Schedules, Concludes, Closes, Watches,
         FollowsUp, Recovers, Integrates, Launches, Retries, Same
<1>2. p.create \in {NoRun, Integration, BuildGen} \/ p.create \notin {BuildGen, MergeRun, PrOpen}
  BY DEF Chosen, AnswersHuman, Generates, Gates, Schedules, Concludes, Closes, Watches,
         FollowsUp, Recovers, Integrates, Launches, Retries
<1>3. \/ v.pr \in {0, worker.pr}
      \/ worker.merge # NoRun /\ worker.merge \in DOMAIN runs /\ runs[worker.merge].verdict = "opened"
  BY DEF Chosen, AnswersHuman, Generates, Gates, Schedules, Concludes, Closes, Watches,
         FollowsUp, Recovers, Integrates, Launches, Retries, Same
<1>4. ASSUME flow # "pr", worker.merge # NoRun, worker.merge \in DOMAIN runs,
             runs[worker.merge].verdict = "opened"
      PROVE  FALSE
  <2>1. worker.merge = MergeRun
    BY <1>4 DEF PrsOfTheFlow, Integration
  <2>2. "opened" \in Verdicts("merge")
    BY <1>4, <2>1 DEF VerdictsHold, MergeRun
  <2> QED
    BY <2>2 DEF Verdicts
<1> QED
  BY <1>0, <1>1, <1>2, <1>3, <1>4 DEF PrsOfTheFlow

\* Every step keeps pull requests and follow-ups to their flow.
LEMMA StepPrs ==
  ASSUME Base, [Next]_vars, InCourse, VerdictsHold, PrsOfTheFlow
  PROVE  PrsOfTheFlow'
<1>1. ASSUME UNCHANGED <<flow, worker, pass>>, Built' = DOMAIN children' \/ flow = "pr"
      PROVE  PrsOfTheFlow'
  BY <1>1 DEF PrsOfTheFlow, Deciding, After, Integration
<1>2. ASSUME UNCHANGED children
      PROVE  Built' = DOMAIN children' \/ flow = "pr"
  BY <1>2 DEF PrsOfTheFlow, Built
<1>3. CASE Starts \/ Plans
  BY <1>1, <1>2, <1>3 DEF Starts, Plans
<1>4. CASE Visits
  <2> DEFINE v == Merge(worker, pass'.patch)
  <2>1. /\ Chosen(pass', v) /\ seen # NoCycle
        /\ UNCHANGED <<flow, worker, children>>
    BY <1>4 DEF Visits, Sound
  <2>2. After' = v /\ Integration' = Integration /\ Built' = Built
    BY <2>1 DEF After, Integration, Built
  <2> HIDE DEF v
  <2>3. /\ v.merge \in {NoRun, Integration}
        /\ pass'.create \in {MergeRun, PrOpen} => pass'.create = Integration
        /\ flow # "pr" => v.pr = 0
    BY <2>1, DecisionOfTheFlow
  <2> QED
    BY <2>1, <2>2, <2>3 DEF PrsOfTheFlow
<1>5. CASE Acts
  <2>1. /\ Deciding /\ After' = After /\ pass'.create = pass.create /\ UNCHANGED <<flow, worker>>
    BY <1>5 DEF Acts
  <2>2. flow # "pr" => children' = children
    <3>1. flow # "pr" => pass.child = NoChild
      BY <2>1 DEF InCourse, CourseKept, PrsOfTheFlow, Polls
    <3> QED
      BY <1>5, <3>1 DEF Acts
  <2>3. Integration' = Integration
    BY <2>1 DEF Integration
  <2> QED
    BY <2>1, <2>2, <2>3 DEF PrsOfTheFlow, Built
<1>6. CASE Writes
  <2>1. /\ Deciding /\ worker' = After /\ ~Deciding' /\ UNCHANGED <<flow, children>>
    BY <1>6 DEF Writes
  <2>2. Integration' = Integration /\ Built' = Built
    BY <2>1 DEF Integration, Built
  <2> HIDE DEF After
  <2> QED
    BY <2>1, <2>2 DEF PrsOfTheFlow
<1>7. CASE Idles
  <2>1. UNCHANGED <<flow, worker, children>> /\ pass' \in {pass, NoPass}
    BY <1>7 DEF Idles
  <2> QED
    BY <2>1 DEF PrsOfTheFlow, Deciding, After, Integration, Built
<1>8. ASSUME NEW c, Builds(c)
      PROVE  PrsOfTheFlow'
  <2>1. DOMAIN children' = DOMAIN children \cup {c} /\ c.by = "buildgen"
    BY <1>8, ChildPut DEF Builds
  <2> QED
    BY <1>1, <1>8, <2>1 DEF Builds, Built, PrsOfTheFlow
<1>9. ASSUME NEW x, NEW r, Turns(x, r)
      PROVE  PrsOfTheFlow'
  BY <1>1, <1>2, <1>9 DEF Turns
<1>10. ASSUME NEW c, Ends(c)
       PROVE  PrsOfTheFlow'
  BY <1>1, <1>10 DEF Ends, Built, PrsOfTheFlow
<1> QED
  BY <1>3, <1>4, <1>5, <1>6, <1>7, <1>8, <1>9, <1>10, Kinds

\* An integration is begun once the work is done.
IntegratesDone ==
  Deciding /\ pass.create = Integration =>
    /\ worker.created /\ NoneOpen(worker.refs \cup Built) /\ ~Polls
    /\ pass.child = NoChild /\ After.refs = worker.refs /\ After.merge = Integration
    /\ To = "awaiting-feature-merge"

\* Every step keeps integrations behind the work.
LEMMA StepIntegrates ==
  ASSUME Base, [Next]_vars, InCourse, IntegratesDone
  PROVE  IntegratesDone'
<1>0. Integration \in {MergeRun, PrOpen} /\ Integration # NoRun /\ Integration # BuildGen
  BY NamesType, NamesAssumption DEF Base, Typed, Integration, BuildGen, MergeRun, PrOpen
<1>1. CASE Starts
  BY <1>1 DEF Starts, Deciding, IntegratesDone
<1>2. CASE Visits
  <2> DEFINE v == Merge(worker, pass'.patch)
             p == pass'
  <2>1. /\ Chosen(p, v) /\ seen # NoCycle
        /\ UNCHANGED <<flow, phase, worker, children>>
    BY <1>2 DEF Visits, Sound
  <2>2. After' = v
    BY <2>1 DEF After
  <2> HIDE DEF v
  <2>3. /\ Course(phase, worker)
        /\ seen # NoCycle /\ phase = "awaiting-human" /\ worker.created /\ ~worker.mergeError
             => Done(children)
        /\ phase # "generating-builds" /\ Done(seen.children) => Done(children)
    BY <2>1 DEF InCourse, CourseKept, Course, SeenOutOfDate, Done
  <2>4. \A S : Done(children) => NoneOpen(S)
    BY DEF Done, NoneOpen
  <2>5. ASSUME p.create = Integration
        PROVE  /\ worker.created /\ NoneOpen(worker.refs \cup Built) /\ ~Polls
               /\ p.child = NoChild /\ v.refs = worker.refs /\ v.merge = Integration
               /\ (IF p.to = "stay" THEN phase ELSE p.to) = "awaiting-feature-merge"
    <3>1. \/ AnswersHuman(p, v) /\ Resumes /\ Integrates(p, v) /\ ~worker.mergeError
          \/ Gates(p, v) /\ Done(seen.children) /\ Integrates(p, v)
          \/ Schedules(p, v)
      BY <1>0, <2>1, <2>5 DEF Chosen, AnswersHuman, Generates, Gates, Concludes, Closes,
                  Watches, FollowsUp, Recovers, Retries
    <3>2. CASE AnswersHuman(p, v) /\ Resumes /\ Integrates(p, v) /\ ~worker.mergeError
      BY <1>0, <2>1, <2>3, <2>4, <2>5, <3>2 DEF AnswersHuman, Resumes, Integrates, Launches, Polls
    <3>3. CASE Gates(p, v) /\ Done(seen.children) /\ Integrates(p, v)
      <4>1. phase = "awaiting-children" /\ p.child = NoChild /\ worker.created /\ Done(children)
        BY <2>3, <3>3 DEF Gates, Course
      <4> QED
        BY <1>0, <2>4, <2>5, <3>3, <4>1 DEF Integrates, Launches, Polls
    <3>4. CASE Schedules(p, v)
      <4>1. worker.created /\ NoneOpen(worker.refs \cup Built)
        BY <2>3, <3>4 DEF Schedules, Course
      <4> QED
        BY <3>4, <4>1 DEF Schedules, Launches, Polls
    <3> QED
      BY <3>1, <3>2, <3>3, <3>4
  <2>6. /\ Integration' = Integration /\ NoneOpen(worker.refs \cup Built)' = NoneOpen(worker.refs \cup Built)
        /\ Polls' = Polls /\ To' = IF p.to = "stay" THEN phase ELSE p.to
    BY <2>1 DEF Integration, NoneOpen, Built, Polls, To
  <2> HIDE DEF p
  <2> QED
    BY <2>1, <2>2, <2>5, <2>6 DEF IntegratesDone, p
<1>3. CASE Acts
  <2>1. /\ Deciding /\ After' = After /\ pass'.create = pass.create /\ pass'.child = pass.child
        /\ pass'.to = pass.to /\ UNCHANGED <<flow, phase, worker>>
        /\ pass.child = NoChild => children' = children
    BY <1>3 DEF Acts
  <2> QED
    BY <2>1 DEF IntegratesDone, Integration, NoneOpen, Built, Polls, To
<1>4. CASE Writes
  BY <1>4 DEF Writes, IntegratesDone
<1>5. ASSUME UNCHANGED <<flow, phase, worker>>, pass' \in {pass, NoPass},
             Deciding /\ pass.create = Integration /\ IntegratesDone
               => NoneOpen(worker.refs \cup Built)'
      PROVE  IntegratesDone'
  <2>1. ASSUME Deciding', pass'.create = Integration'
        PROVE  /\ Deciding /\ pass.create = Integration /\ pass' = pass /\ After' = After /\ To' = To
               /\ Integration' = Integration /\ Polls' = Polls
    BY <1>5, <2>1 DEF Deciding, After, To, Integration, Polls
  <2> QED
    BY <1>5, <2>1 DEF IntegratesDone
<1>6. CASE Idles
  BY <1>5, <1>6 DEF Idles, IntegratesDone, NoneOpen, Built
<1>7. CASE Plans
  BY <1>7 DEF Plans, Deciding, IntegratesDone
<1>8. ASSUME NEW c, Builds(c)
      PROVE  IntegratesDone'
  <2>1. ~worker.created
    BY <1>8 DEF Builds, InCourse, GenerationInPlace, Generating, CourseKept, Course
  <2> QED
    BY <1>5, <1>8, <2>1 DEF Builds, IntegratesDone
<1>9. ASSUME NEW x, NEW r, Turns(x, r)
      PROVE  IntegratesDone'
  BY <1>5, <1>9 DEF Turns, IntegratesDone, NoneOpen, Built
<1>10. ASSUME NEW c, Ends(c)
       PROVE  IntegratesDone'
  <2>1. /\ DOMAIN children' = DOMAIN children /\ UNCHANGED <<flow, phase, worker, pass>>
        /\ \A d \in DOMAIN children : children'[d] = "open" => children[d] = "open"
    BY <1>10 DEF Ends
  <2>2. NoneOpen(worker.refs \cup Built) => NoneOpen(worker.refs \cup Built)'
    BY <2>1 DEF NoneOpen, Built
  <2> QED
    BY <1>5, <2>1, <2>2 DEF IntegratesDone
<1> QED
  BY <1>1, <1>2, <1>3, <1>4, <1>6, <1>7, <1>8, <1>9, <1>10, Kinds

\* With auto-merge the merge run covers all that was merged, and what it
\* landed is all there is once the task is done.
MergeCoversAll ==
  flow = "auto-merge" =>
    /\ MergeRun \in DOMAIN runs =>
         worker.created /\ Done(children) /\ runs[MergeRun].covers = MergedChildren
    /\ IntegratedAs(phase, worker) => MergedChildren \subseteq landed
    /\ Deciding /\ IntegratedAs(To, After) => MergedChildren \subseteq landed

InIntegration == InCourse /\ VerdictsHold /\ PrsOfTheFlow /\ IntegratesDone

\* The invariant of the integration holds at first,
LEMMA InitIntegration == Init => InIntegration /\ MergeCoversAll
<1> SUFFICES ASSUME Init PROVE InIntegration /\ MergeCoversAll
  OBVIOUS
<1>1. /\ phase = "awaiting-human" /\ worker.merge = NoRun /\ worker.pr = 0
      /\ pass = NoPass /\ DOMAIN runs = {} /\ DOMAIN children = {}
  BY DEF Init, NewWorker
<1>2. VerdictsHold /\ PrsOfTheFlow /\ IntegratesDone
  BY <1>1 DEF VerdictsHold, PrsOfTheFlow, IntegratesDone, Deciding, Built
<1>3. MergeCoversAll
  BY <1>1 DEF MergeCoversAll, IntegratedAs, Deciding
<1> QED
  BY <1>2, <1>3, InitCourse DEF InIntegration

\* and every step keeps it.
LEMMA StepIntegration == InIntegration /\ [Next]_vars => InIntegration'
BY StepInCourse, StepVerdicts, StepPrs, StepIntegrates DEF InIntegration, InCourse

\* A decision that ends in an integrated task was told that all has landed.
LEMMA DecisionLanded ==
  ASSUME Base, InIntegration, MergeCoversAll, flow = "auto-merge", seen # NoCycle,
         NEW p, NEW v, Chosen(p, v),
         IntegratedAs(IF p.to = "stay" THEN phase ELSE p.to, v)
  PROVE  MergedChildren \subseteq landed
<1>1. Integration = MergeRun /\ worker.merge \in {NoRun, MergeRun} /\ worker.pr = 0
  BY DEF InIntegration, PrsOfTheFlow, Integration
<1>2. MergeRun \in DOMAIN runs /\ runs[MergeRun].verdict = "landed" => MergedChildren \subseteq landed
  BY DEF InIntegration, VerdictsHold, MergeCoversAll
<1>3. phase # "done"
  BY <1>1 DEF Chosen, AnswersHuman, Generates, Gates, Schedules, Concludes, Closes, Watches,
              FollowsUp, Recovers, Polls
<1>4. p.to = "done" /\ ~v.abandoned
  BY <1>3 DEF IntegratedAs
<1>5. ~Polls
  BY <1>1 DEF Polls
<1>6. Concludes(p, v)
  BY <1>4, <1>5 DEF Chosen, AnswersHuman, Generates, Gates, Schedules, Closes, Watches,
                    FollowsUp, Recovers, Integrates, Retries
<1>7. worker.merge = MergeRun /\ MergeRun \in DOMAIN runs /\ runs[MergeRun].verdict = "landed"
  BY <1>1, <1>4, <1>6 DEF Concludes
<1> QED
  BY <1>2, <1>7

\* The merge run still covers all that was merged after every step.
LEMMA StepCovers ==
  ASSUME Base, [Next]_vars, InIntegration, MergeCoversAll
  PROVE  MergeCoversAll'
<1>0. flow' = flow
  BY Kinds DEF Starts, Visits, Acts, Writes, Idles, Plans, Builds, Turns, Ends
<1> SUFFICES ASSUME flow = "auto-merge" PROVE MergeCoversAll'
  BY <1>0 DEF MergeCoversAll
<1>a. /\ MergeRun \in DOMAIN runs =>
           worker.created /\ Done(children) /\ runs[MergeRun].covers = MergedChildren
      /\ IntegratedAs(phase, worker) => MergedChildren \subseteq landed
      /\ Deciding /\ IntegratedAs(To, After) => MergedChildren \subseteq landed
  BY DEF MergeCoversAll
<1>b. /\ Integration = MergeRun /\ worker.pr = 0 /\ DOMAIN children = Built
      /\ ~Polls
  BY DEF InIntegration, PrsOfTheFlow, Integration, Polls
<1>c. Deciding => pass.child = NoChild
  BY <1>b DEF InIntegration, InCourse, CourseKept
<1>1. CASE Starts
  BY <1>1, <1>a DEF Starts, MergeCoversAll, MergedChildren, IntegratedAs, Deciding
<1>2. CASE Visits
  <2> DEFINE v == Merge(worker, pass'.patch)
             p == pass'
  <2>1. /\ Chosen(p, v) /\ seen # NoCycle
        /\ UNCHANGED <<flow, phase, worker, children, runs, landed>>
    BY <1>2 DEF Visits, Sound
  <2>2. After' = v /\ To' = (IF p.to = "stay" THEN phase ELSE p.to)
    BY <2>1 DEF After, To
  <2> HIDE DEF v, p
  <2>3. IntegratedAs(To', v) => MergedChildren \subseteq landed
    BY <2>1, <2>2, DecisionLanded
  <2>4. IntegratedAs(To, After)' = IntegratedAs(To', v)
    BY <2>1, <2>2 DEF IntegratedAs
  <2>5. MergedChildren' = MergedChildren /\ IntegratedAs(phase, worker)' = IntegratedAs(phase, worker)
        /\ Done(children)' = Done(children)
    BY <2>1 DEF MergedChildren, IntegratedAs, Done
  <2> QED
    BY <1>a, <2>1, <2>3, <2>4, <2>5 DEF MergeCoversAll
<1>3. CASE Acts
  <2>1. /\ Deciding /\ After' = After /\ To' = To /\ children' = children
        /\ UNCHANGED <<flow, phase, worker, landed>>
    BY <1>3, <1>c DEF Acts, To
  <2>2. MergedChildren' = MergedChildren
    BY <2>1 DEF MergedChildren
  <2>3. ASSUME MergeRun \in DOMAIN runs'
        PROVE  worker.created /\ Done(children) /\ runs'[MergeRun].covers = MergedChildren
    <3>1. CASE Launched(pass.create) /\ pass.create = MergeRun
      <4>1. worker.created /\ NoneOpen(Built)
        BY <1>b, <2>1, <3>1 DEF InIntegration, IntegratesDone, NoneOpen
      <4>2. Done(children)
        BY <1>b, <4>1 DEF NoneOpen, Done
      <4> QED
        BY <3>1, <4>1, <4>2 DEF Launched
    <3>2. CASE ~(Launched(pass.create) /\ pass.create = MergeRun)
      <4>1. MergeRun \in DOMAIN runs /\ runs'[MergeRun] = runs[MergeRun]
        BY <1>3, <2>3, <3>2 DEF Acts, Launched, Without
      <4> QED
        BY <1>a, <4>1
    <3> QED
      BY <3>1, <3>2
  <2>4. IntegratedAs(phase, worker)' = IntegratedAs(phase, worker)
        /\ IntegratedAs(To, After)' = IntegratedAs(To, After)
        /\ Done(children)' = Done(children)
    BY <2>1 DEF IntegratedAs, Done
  <2> QED
    BY <1>a, <2>1, <2>2, <2>3, <2>4 DEF MergeCoversAll
<1>4. CASE Writes
  <2>1. /\ Deciding /\ phase' = To /\ worker' = After /\ ~Deciding'
        /\ UNCHANGED <<flow, children, runs, landed>>
    BY <1>4 DEF Writes
  <2>2. worker.created => worker'.created
    BY <2>1 DEF InIntegration, InCourse, CourseKept
  <2>3. MergedChildren' = MergedChildren /\ Done(children)' = Done(children)
        /\ IntegratedAs(phase, worker)' = IntegratedAs(To, After)
    BY <2>1 DEF MergedChildren, Done, IntegratedAs
  <2> QED
    BY <1>a, <2>1, <2>2, <2>3 DEF MergeCoversAll
<1>5. ASSUME UNCHANGED <<flow, phase, worker>>, pass' \in {pass, NoPass}, landed \subseteq landed',
             DOMAIN runs' \subseteq DOMAIN runs, \A y \in DOMAIN runs' : runs'[y].covers = runs[y].covers,
             \/ MergedChildren' = MergedChildren /\ (Done(children) => Done(children)')
             \/ ~worker.created /\ ~IntegratedAs(phase, worker) /\ (Deciding => ~IntegratedAs(To, After))
      PROVE  MergeCoversAll'
  <2>1. Deciding' => Deciding /\ To' = To /\ After' = After
    BY <1>5 DEF Deciding, To, After
  <2>2. IntegratedAs(phase, worker)' = IntegratedAs(phase, worker)
        /\ (Deciding' => IntegratedAs(To, After)' = IntegratedAs(To, After))
    BY <1>5, <2>1 DEF IntegratedAs
  <2> QED
    BY <1>5, <1>a, <2>1, <2>2 DEF MergeCoversAll
<1>6. CASE Idles
  BY <1>5, <1>6 DEF Idles, MergedChildren, Done
<1>7. CASE Plans
  <2>1. UNCHANGED <<flow, worker, children, runs, landed>> /\ ~Deciding' /\ phase' # "done"
    BY <1>7 DEF Plans, Deciding
  <2> QED
    BY <1>a, <2>1 DEF MergeCoversAll, MergedChildren, Done, IntegratedAs
<1>8. ASSUME NEW c, Builds(c)
      PROVE  MergeCoversAll'
  <2>1. phase = "generating-builds" /\ (Deciding => pass.to = "stay")
    BY <1>8 DEF Builds, InIntegration, InCourse, GenerationInPlace, Generating
  <2>2. ~worker.created
    BY <2>1 DEF InIntegration, InCourse, CourseKept, Course
  <2>3. ~IntegratedAs(phase, worker) /\ (Deciding => ~IntegratedAs(To, After))
    BY <2>1 DEF IntegratedAs, To
  <2> QED
    BY <1>5, <1>8, <2>2, <2>3 DEF Builds
<1>9. ASSUME NEW x, NEW r, Turns(x, r)
      PROVE  MergeCoversAll'
  <2>1. /\ DOMAIN runs' = DOMAIN runs /\ \A y \in DOMAIN runs' : runs'[y].covers = runs[y].covers
    BY <1>9 DEF Turns, Turned
  <2> QED
    BY <1>5, <1>9, <2>1 DEF Turns, MergedChildren, Done
<1>10. ASSUME NEW c, Ends(c)
       PROVE  MergeCoversAll'
  <2>1. ~Done(children)
    BY <1>10 DEF Ends, Done
  <2>2. MergeRun \notin DOMAIN runs
    BY <1>a, <2>1
  <2>3. ~IntegratedAs(phase, worker) /\ (Deciding => ~IntegratedAs(To, After))
    <3>1. \A S : ~NoneOpen(S \cup Built)
      BY <1>b, <2>1 DEF NoneOpen, Done
    <3> QED
      BY <3>1 DEF InIntegration, InCourse, CourseKept, Course
  <2>4. UNCHANGED <<flow, phase, worker, runs, pass>>
    BY <1>10 DEF Ends
  <2>5. ~IntegratedAs(phase, worker)' /\ ~(Deciding /\ IntegratedAs(To, After))'
    BY <2>3, <2>4 DEF IntegratedAs, Deciding, To, After
  <2> QED
    BY <2>2, <2>4, <2>5 DEF MergeCoversAll
<1> QED
  BY <1>1, <1>2, <1>3, <1>4, <1>6, <1>7, <1>8, <1>9, <1>10, Kinds

\* With auto-merge, a PLAN task is done only when all that was merged into its
\* feature branch is on the target branch (PlanTask's DoneMeansLanded), though
\* the name of the merge run is used again after a failure.
THEOREM LandedWhenDone == Spec => []DoneMeansLanded
<1>1. MergeCoversAll => DoneMeansLanded
  BY DEF MergeCoversAll, DoneMeansLanded, Integrated, IntegratedAs
<1>2. InIntegration /\ MergeCoversAll /\ [Next]_vars => (InIntegration /\ MergeCoversAll)'
  BY StepIntegration, StepCovers DEF InIntegration, InCourse
<1> QED
  BY <1>1, <1>2, InitIntegration, PTL DEF Spec

-----------------------------------------------------------------------------
(* The pull request: it shows what was merged. *)

\* One run opens the pull requests.
OnePrRun ==
  /\ \A x \in DOMAIN runs : x.kind = "pr" => x = PrOpen
  /\ Deciding /\ pass.create # NoRun /\ pass.create.kind = "pr" => pass.create = PrOpen

\* Every step keeps it the only one.
LEMMA StepOnePrRun ==
  ASSUME Base, [Next]_vars, OnePrRun
  PROVE  OnePrRun'
<1>1. ASSUME DOMAIN runs' \subseteq DOMAIN runs, pass' \in {pass, NoPass}
      PROVE  OnePrRun'
  BY <1>1 DEF OnePrRun, Deciding
<1>2. CASE Starts \/ Plans \/ Idles
  BY <1>1, <1>2 DEF Starts, Plans, Idles
<1>3. CASE Visits
  <2> DEFINE v == Merge(worker, pass'.patch)
             p == pass'
  <2>1. Chosen(p, v) /\ UNCHANGED runs
    BY <1>3 DEF Visits, Sound
  <2> HIDE DEF v
  <2>2. p.create \in {NoRun, Integration, BuildGen} \/ (p.create # NoRun => p.create.kind = "preval")
    BY <2>1 DEF Chosen, AnswersHuman, Generates, Gates, Schedules, Concludes, Closes, Watches,
           FollowsUp, Recovers, Integrates, Launches, Retries
  <2>3. p.create # NoRun /\ p.create.kind = "pr" => p.create = PrOpen
    BY <2>2 DEF Integration, BuildGen, MergeRun, PrOpen
  <2> QED
    BY <2>1, <2>3 DEF OnePrRun
<1>4. CASE Acts
  <2>1. Deciding /\ pass'.create = pass.create
    BY <1>4 DEF Acts
  <2>2. \A x \in DOMAIN runs' : x \in DOMAIN runs \/ (x = pass.create /\ pass.create # NoRun)
    BY <1>4 DEF Acts, Launched, Without
  <2> QED
    BY <2>1, <2>2 DEF OnePrRun
<1>5. CASE Writes
  BY <1>5 DEF Writes, OnePrRun
<1>6. ASSUME NEW c, Builds(c) \/ Ends(c)
      PROVE  OnePrRun'
  BY <1>1, <1>6 DEF Builds, Ends
<1>7. ASSUME NEW x, NEW r, Turns(x, r)
      PROVE  OnePrRun'
  BY <1>1, <1>7 DEF Turns, Turned
<1> QED
  BY <1>2, <1>3, <1>4, <1>5, <1>6, <1>7, Kinds

Shows(n, refs) ==
  prs[n].state = "open" => refs \cap MergedChildren \subseteq prs[n].head
PollsAs(p, w) == p = "awaiting-feature-merge" /\ w.merge = NoRun /\ w.pr # 0
PrActive == PrOpen \in DOMAIN runs /\ runs[PrOpen].phase \notin Terminal
PrReported == PrOpen \in DOMAIN runs /\ runs[PrOpen].verdict = "opened"

\* The run at work covers the work on record, and nothing is added to it.
ActiveCovers ==
  PrActive =>
    /\ worker.created /\ NoneOpen(worker.refs) /\ ~Polls
    /\ worker.refs \cap MergedChildren \subseteq runs[PrOpen].covers
    /\ Deciding => ~PollsAs(To, After) /\ After.refs = worker.refs

\* Its report is awaited, or about to be.
Awaited ==
  \/ phase = "awaiting-feature-merge" /\ worker.merge = PrOpen
  \/ pass # NoPass /\ pass.stage = "patch" /\ pass.create = PrOpen

\* What is reported, polled, and about to be polled, shows the work on record.
PrCoversAll ==
  flow = "pr" =>
    /\ ActiveCovers
    /\ Awaited /\ PrReported => Shows(runs[PrOpen].pr, worker.refs)
    /\ Polls => Shows(worker.pr, worker.refs)
    /\ Deciding /\ PollsAs(To, After) => Shows(After.pr, After.refs)
    /\ Deciding /\ To = "awaiting-feature-merge" /\ After.merge = PrOpen => pass.create = PrOpen

\* A decision adds nothing while the run is at work, and turns to a pull
\* request that shows the work.
LEMMA DecisionShows ==
  ASSUME Base, InIntegration, PrCoversAll, flow = "pr", seen # NoCycle, NEW p, NEW v, Chosen(p, v),
         NEW to, to = IF p.to = "stay" THEN phase ELSE p.to
  PROVE  /\ PrActive => ~PollsAs(to, v) /\ v.refs = worker.refs
         /\ PollsAs(to, v) => Shows(v.pr, v.refs)
         /\ to = "awaiting-feature-merge" /\ v.merge = PrOpen => p.create = PrOpen
<1>0. /\ Integration = PrOpen /\ PrOpen # NoRun /\ worker.merge \in {NoRun, PrOpen}
      /\ phase = "generating-builds" => ~worker.created
      /\ PrActive => worker.created /\ ~Polls
      /\ Awaited /\ PrReported => Shows(runs[PrOpen].pr, worker.refs)
      /\ Polls => Shows(worker.pr, worker.refs)
      /\ PrReported => ~PrActive
  BY NamesType, NamesAssumption
     DEF Base, Typed, InIntegration, InCourse, CourseKept, Course, PrsOfTheFlow, PrCoversAll,
         Integration, ActiveCovers, VerdictsHold, PrReported, PrActive, Terminal
<1>1. CASE AnswersHuman(p, v)
  BY <1>0, <1>1 DEF AnswersHuman, Integrates, Launches, Retries, Same, PollsAs
<1>2. CASE Generates(p, v)
  BY <1>0, <1>2 DEF Generates, Same, PollsAs
<1>3. CASE Gates(p, v)
  BY <1>0, <1>3 DEF Gates, Integrates, Launches, Same, PollsAs
<1>4. CASE Schedules(p, v)
  BY <1>0, <1>4 DEF Schedules, Launches, PollsAs
<1>5. CASE Concludes(p, v)
  <2>1. worker.merge = PrOpen /\ phase = "awaiting-feature-merge"
    BY <1>0, <1>5 DEF Concludes
  <2>2. CASE p.to # "stay"
    BY <1>5, <2>1, <2>2 DEF Concludes, Same, PollsAs
  <2>3. CASE p.to = "stay"
    <3>1. PrReported /\ v.pr = runs[PrOpen].pr /\ v.refs = worker.refs /\ v.merge = NoRun
      BY <1>5, <2>1, <2>3 DEF Concludes, PrReported
    <3> QED
      BY <1>0, <2>1, <3>1 DEF Awaited
  <2> QED
    BY <2>2, <2>3
<1>6. CASE Closes(p, v) \/ Watches(p, v) \/ FollowsUp(p, v)
  BY <1>0, <1>6 DEF Closes, Watches, FollowsUp, Same, PollsAs, Polls, Shows
<1>7. CASE Recovers(p, v)
  BY <1>0, <1>7 DEF Recovers, Retries, Same, PollsAs
<1> QED
  BY <1>1, <1>2, <1>3, <1>4, <1>5, <1>6, <1>7 DEF Chosen

\* Nothing but the end of a child, or a pull request that closes.
LEMMA ShowsStill ==
  ASSUME NEW n \in DOMAIN prs, NEW refs, Shows(n, refs),
         refs \cap MergedChildren' \subseteq refs \cap MergedChildren,
         prs'[n].head = prs[n].head, prs'[n].state = "open" => prs[n].state = "open"
  PROVE  Shows(n, refs)'
BY DEF Shows

\* The steps that leave the plan and the decision alone.
LEMMA PrStays ==
  ASSUME Base, InIntegration, PrCoversAll, flow = "pr",
         UNCHANGED <<flow, phase, worker>>, pass' \in {pass, NoPass},
         \A y \in DOMAIN runs' \cap {PrOpen} : y \in DOMAIN runs /\ runs'[y] = runs[y],
         DOMAIN prs \subseteq DOMAIN prs',
         \A n \in DOMAIN prs : prs'[n].head = prs[n].head
                                 /\ (prs'[n].state = "open" => prs[n].state = "open"),
         \A c \in MergedChildren' \ MergedChildren : c \in DOMAIN children /\ children[c] = "open",
         \A c \in worker.refs \cap DOMAIN children' :
           c \in DOMAIN children /\ (children'[c] = "open" => children[c] = "open")
  PROVE  PrCoversAll'
<1>1. /\ Deciding' => Deciding /\ After' = After /\ To' = To /\ pass' = pass
      /\ PrReported' => PrReported /\ runs'[PrOpen] = runs[PrOpen]
      /\ Polls' = Polls
      /\ PrActive' => runs'[PrOpen] = runs[PrOpen]
  BY DEF Deciding, After, To, PrActive, PrReported, Polls
<1>2. \A refs : NoneOpen(refs) => refs \cap MergedChildren' \subseteq refs \cap MergedChildren
  BY DEF NoneOpen
<1>a. PrActive' => PrActive
  BY DEF PrActive
<1>b. Awaited' => Awaited
  BY DEF Awaited
<1>3. /\ ActiveCovers
      /\ Awaited /\ PrReported => Shows(runs[PrOpen].pr, worker.refs)
      /\ Polls => Shows(worker.pr, worker.refs)
      /\ Deciding /\ PollsAs(To, After) => Shows(After.pr, After.refs)
      /\ Deciding /\ To = "awaiting-feature-merge" /\ After.merge = PrOpen => pass.create = PrOpen
  BY DEF PrCoversAll
<1>4. /\ Awaited => NoneOpen(worker.refs)
      /\ Polls => NoneOpen(worker.refs)
      /\ Deciding /\ PollsAs(To, After) => NoneOpen(After.refs)
  <2>1. \A S : NoneOpen(S \cup Built) => NoneOpen(S)
    BY DEF NoneOpen
  <2>2. Course(phase, worker) /\ (Deciding => Course(To, After))
    BY DEF InIntegration, InCourse, CourseKept
  <2>3. phase = "awaiting-feature-merge" => NoneOpen(worker.refs)
    BY <2>1, <2>2 DEF Course
  <2>4. Deciding /\ pass.create = PrOpen => NoneOpen(worker.refs)
    BY <2>1 DEF InIntegration, IntegratesDone, Integration
  <2>5. Deciding /\ PollsAs(To, After) => NoneOpen(After.refs)
    BY <2>1, <2>2 DEF Course, PollsAs
  <2> QED
    BY <2>3, <2>4, <2>5 DEF Awaited, Polls, Deciding
<1>5. worker.pr \in {0} \cup DOMAIN prs /\ (Deciding => After.pr \in {0} \cup DOMAIN prs)
      /\ (PrReported => runs[PrOpen].pr \in DOMAIN prs)
  BY DEF Base, OnRecord, InIntegration, VerdictsHold, PrReported
<1>6. ActiveCovers'
  <2> SUFFICES ASSUME PrActive' PROVE
         /\ worker.created /\ NoneOpen(worker.refs)' /\ ~Polls
         /\ worker.refs \cap MergedChildren' \subseteq runs[PrOpen].covers
         /\ Deciding' => ~PollsAs(To, After) /\ After.refs = worker.refs
    BY <1>1 DEF ActiveCovers, PollsAs
  <2>1. /\ worker.created /\ NoneOpen(worker.refs) /\ ~Polls
        /\ worker.refs \cap MergedChildren \subseteq runs[PrOpen].covers
        /\ Deciding => ~PollsAs(To, After) /\ After.refs = worker.refs
    BY <1>a, <1>3 DEF ActiveCovers
  <2>2. NoneOpen(worker.refs)'
    BY <2>1 DEF NoneOpen
  <2> QED
    BY <1>1, <1>2, <2>1, <2>2
<1>7. Awaited' /\ PrReported' => Shows(runs[PrOpen].pr, worker.refs)'
  BY <1>1, <1>b, <1>2, <1>3, <1>4, <1>5, ShowsStill DEF Shows
<1>8. Polls' => Shows(worker.pr, worker.refs)'
  <2>1. Polls => worker.pr \in DOMAIN prs
    BY <1>5 DEF Polls
  <2> QED
    BY <1>1, <1>2, <1>3, <1>4, <2>1, ShowsStill DEF Shows
<1>9. Deciding' /\ PollsAs(To, After)' => Shows(After.pr, After.refs)'
  <2>1. Deciding /\ PollsAs(To, After) => After.pr \in DOMAIN prs
    BY <1>5 DEF PollsAs
  <2>2. Deciding' => PollsAs(To, After)' = PollsAs(To, After)
    BY <1>1 DEF PollsAs
  <2> QED
    BY <1>1, <1>2, <1>3, <1>4, <2>1, <2>2, ShowsStill DEF Shows
<1> QED
  BY <1>1, <1>3, <1>6, <1>7, <1>8, <1>9 DEF PrCoversAll

\* The run still covers, and the pull request still shows, the work on record
\* after every step, where the read of a leftover run does not fail.
LEMMA StepPrCovers ==
  ASSUME <<"pr", "pr", "unread">> \notin Troubles,
         Base, [Next]_vars, InIntegration, OnePrRun, PrCoversAll
  PROVE  PrCoversAll'
<1>0. flow' = flow
  BY Kinds DEF Starts, Visits, Acts, Writes, Idles, Plans, Builds, Turns, Ends
<1> SUFFICES ASSUME flow = "pr" PROVE PrCoversAll'
  BY <1>0 DEF PrCoversAll
<1>a. /\ ActiveCovers
      /\ Awaited /\ PrReported => Shows(runs[PrOpen].pr, worker.refs)
      /\ Polls => Shows(worker.pr, worker.refs)
      /\ Deciding /\ PollsAs(To, After) => Shows(After.pr, After.refs)
      /\ Deciding /\ To = "awaiting-feature-merge" /\ After.merge = PrOpen => pass.create = PrOpen
  BY DEF PrCoversAll
<1>b. /\ Integration = PrOpen /\ PrOpen # NoRun /\ worker.refs \subseteq DOMAIN children
      /\ DOMAIN children \subseteq Child
  BY NamesType, NamesAssumption DEF Base, Typed, StoreTyped, OnRecord, Integration
<1>1. CASE Starts
  BY <1>1, PrStays DEF Starts, MergedChildren
<1>2. CASE Visits
  <2> DEFINE v == Merge(worker, pass'.patch)
             p == pass'
             to == IF p.to = "stay" THEN phase ELSE p.to
  <2>1. /\ Chosen(p, v) /\ seen # NoCycle /\ p.stage = "effects" /\ pass = NoPass
        /\ UNCHANGED <<flow, phase, worker, children, runs, prs>>
    BY <1>2 DEF Visits, Sound
  <2>2. After' = v /\ To' = to
    BY <2>1 DEF After, To
  <2> HIDE DEF v, to
  <2>3. to = IF p.to = "stay" THEN phase ELSE p.to
    BY DEF to
  <2> HIDE DEF p
  <2>4. /\ PrActive => ~PollsAs(to, v) /\ v.refs = worker.refs
        /\ PollsAs(to, v) => Shows(v.pr, v.refs)
        /\ to = "awaiting-feature-merge" /\ v.merge = PrOpen => p.create = PrOpen
    BY <2>1, <2>3, DecisionShows
  <2>5. /\ PrActive' = PrActive /\ PrReported' = PrReported /\ Polls' = Polls
        /\ MergedChildren' = MergedChildren /\ runs'[PrOpen] = runs[PrOpen]
        /\ NoneOpen(worker.refs)' = NoneOpen(worker.refs)
        /\ PollsAs(To, After)' = PollsAs(to, v)
    BY <2>1, <2>2 DEF PrActive, PrReported, Polls, MergedChildren, NoneOpen, PollsAs
  <2>6. Awaited' => Awaited
    BY <2>1 DEF Awaited, p
  <2>7. ActiveCovers'
    BY <1>a, <2>1, <2>2, <2>4, <2>5 DEF ActiveCovers
  <2>8. \A n, refs : Shows(n, refs)' = Shows(n, refs)
    BY <2>1, <2>5 DEF Shows
  <2>9. Awaited' /\ PrReported' => Shows(runs[PrOpen].pr, worker.refs)'
    BY <1>a, <2>1, <2>5, <2>6 DEF Shows
  <2>10. Polls' => Shows(worker.pr, worker.refs)'
    BY <1>a, <2>1, <2>5 DEF Shows
  <2>11. PollsAs(To, After)' => Shows(After.pr, After.refs)'
    BY <2>1, <2>2, <2>4, <2>5 DEF Shows
  <2> QED
    BY <2>2, <2>4, <2>7, <2>9, <2>10, <2>11 DEF PrCoversAll, p
<1>3. CASE Acts
  <2>1. /\ Deciding /\ After' = After /\ To' = To /\ pass'.create = pass.create
        /\ pass' # NoPass => pass'.stage = "patch"
        /\ UNCHANGED <<flow, phase, worker, prs>>
    BY <1>3 DEF Acts, To
  <2>2. /\ DOMAIN children \subseteq DOMAIN children' /\ MergedChildren' = MergedChildren
        /\ \A d \in DOMAIN children : children'[d] = children[d]
    <3>1. CASE pass.child = NoChild
      BY <1>3, <3>1 DEF Acts, MergedChildren
    <3>2. CASE pass.child # NoChild
      <4>1. /\ DOMAIN children' = DOMAIN children \cup {pass.child}
            /\ \A d \in DOMAIN children : children'[d] = children[d]
            /\ pass.child \notin DOMAIN children => children'[pass.child] = "open"
        BY <1>3, <3>2, ChildPut DEF Acts
      <4> QED
        BY <4>1 DEF MergedChildren
    <3> QED
      BY <3>1, <3>2
  <2>3. NoneOpen(worker.refs)' = NoneOpen(worker.refs)
    BY <1>b, <2>1, <2>2 DEF NoneOpen
  <2>4. /\ Polls' = Polls /\ PollsAs(To, After)' = PollsAs(To, After)
        /\ \A n, refs : Shows(n, refs) => (prs'[n].state = "open" => refs \cap MergedChildren' \subseteq prs'[n].head)
    BY <2>1, <2>2 DEF Polls, PollsAs, Shows
  <2>5. CASE Launched(pass.create) /\ pass.create = PrOpen
    <3>1. /\ PrOpen \in DOMAIN runs' /\ runs'[PrOpen].verdict = "none"
          /\ runs'[PrOpen].covers = MergedChildren
      BY <2>5 DEF Launched
    <3>2. /\ worker.created /\ NoneOpen(worker.refs \cup Built) /\ ~Polls
          /\ After.refs = worker.refs /\ After.merge = PrOpen
      BY <1>b, <2>1, <2>5 DEF InIntegration, IntegratesDone
    <3>3. NoneOpen(worker.refs)
      BY <3>2 DEF NoneOpen
    <3>4. ~PollsAs(To, After) /\ ~PrReported'
      BY <1>b, <3>1, <3>2 DEF PollsAs, PrReported
    <3>5. ActiveCovers'
      BY <2>1, <2>2, <2>3, <2>4, <3>1, <3>2, <3>3, <3>4 DEF ActiveCovers
    <3> QED
      BY <1>a, <2>1, <2>4, <2>5, <3>2, <3>4, <3>5 DEF PrCoversAll
  <2>6. CASE ~(Launched(pass.create) /\ pass.create = PrOpen)
    <3>1. PrOpen \in DOMAIN runs' => PrOpen \in DOMAIN runs /\ runs'[PrOpen] = runs[PrOpen]
      BY <1>3, <2>6 DEF Acts, Launched, Without
    <3>2. PrActive' => PrActive /\ runs'[PrOpen] = runs[PrOpen]
      BY <3>1 DEF PrActive
    <3>3. ActiveCovers'
      BY <1>a, <2>1, <2>2, <2>3, <2>4, <3>2 DEF ActiveCovers
    <3>4. PrReported' => PrReported /\ runs'[PrOpen] = runs[PrOpen]
      BY <3>1 DEF PrReported
    <3>5. ASSUME pass.create = PrOpen
          PROVE  ~PrReported'
      <4>1. PrOpen \notin Unread
        BY DEF Unread, Meets, PrOpen
      <4>2. ~Launched(PrOpen)
        BY <2>6, <3>5
      <4>3. PrOpen \in DOMAIN runs /\ ~Replaceable(PrOpen)
        BY <1>3, <1>b, <3>5, <4>1, <4>2 DEF Acts
      <4>4. runs[PrOpen].phase # "Succeeded"
        BY <4>3 DEF Replaceable, Terminal
      <4>5. runs[PrOpen].verdict # "opened"
        BY <4>3, <4>4 DEF InIntegration, VerdictsHold
      <4> QED
        BY <3>4, <4>5 DEF PrReported
    <3>6. ASSUME Awaited', PrReported'
          PROVE  Awaited
      BY <2>1, <3>5, <3>6 DEF Awaited
    <3>7. Awaited' /\ PrReported' => Shows(runs[PrOpen].pr, worker.refs)'
      BY <1>a, <2>1, <2>2, <3>4, <3>6 DEF Shows
    <3>8. Polls' => Shows(worker.pr, worker.refs)'
      BY <1>a, <2>1, <2>2, <2>4 DEF Shows
    <3>9. PollsAs(To, After)' => Shows(After.pr, After.refs)'
      BY <1>a, <2>1, <2>2, <2>4 DEF Shows
    <3> QED
      BY <1>a, <2>1, <3>3, <3>7, <3>8, <3>9 DEF PrCoversAll
  <2> QED
    BY <2>5, <2>6
<1>4. CASE Writes
  <2>1. /\ Deciding /\ phase' = To /\ worker' = After /\ ~Deciding' /\ pass.stage = "patch"
        /\ pass' # NoPass => pass'.stage = "clear"
        /\ UNCHANGED <<flow, children, runs, prs>>
    BY <1>4 DEF Writes
  <2>2. /\ PrActive' = PrActive /\ PrReported' = PrReported /\ MergedChildren' = MergedChildren
        /\ Polls' = PollsAs(To, After)
    BY <2>1 DEF PrActive, PrReported, MergedChildren, Polls, PollsAs
  <2>3. worker.created => After.created
    BY <2>1 DEF InIntegration, InCourse, CourseKept
  <2>4. ActiveCovers'
    <3>1. PrActive => /\ worker.created /\ NoneOpen(worker.refs) /\ After.refs = worker.refs
                      /\ worker.refs \cap MergedChildren \subseteq runs[PrOpen].covers
                      /\ ~PollsAs(To, After)
      BY <1>a, <2>1 DEF ActiveCovers
    <3>2. After.refs = worker.refs => NoneOpen(worker.refs)' = NoneOpen(worker.refs)
      BY <2>1 DEF NoneOpen
    <3> QED
      BY <2>1, <2>2, <2>3, <3>1, <3>2 DEF ActiveCovers
  <2>5. ASSUME Awaited'
        PROVE  Awaited /\ After.refs = worker.refs
    <3>1. To = "awaiting-feature-merge" /\ After.merge = PrOpen
      BY <2>1, <2>5 DEF Awaited
    <3>2. pass.create = PrOpen
      BY <1>a, <2>1, <3>1
    <3> QED
      BY <1>b, <2>1, <3>2 DEF Awaited, Deciding, InIntegration, IntegratesDone
  <2>6. Awaited' /\ PrReported' => Shows(runs[PrOpen].pr, worker.refs)'
    BY <1>a, <2>1, <2>2, <2>5 DEF Shows
  <2>7. Polls' => Shows(worker.pr, worker.refs)'
    BY <1>a, <2>1, <2>2 DEF Shows
  <2> QED
    BY <2>1, <2>4, <2>6, <2>7 DEF PrCoversAll
<1>5. CASE Idles
  BY <1>5, PrStays DEF Idles, MergedChildren
<1>6. CASE Plans
  <2>1. /\ phase = "rework-requested" /\ phase' # "awaiting-feature-merge" /\ pass = NoPass
        /\ UNCHANGED <<flow, worker, children, runs, prs, pass>>
    BY <1>6 DEF Plans
  <2>2. ~Deciding' /\ ~Polls' /\ ~Awaited'
    BY <2>1 DEF Deciding, Polls, Awaited
  <2>3. ActiveCovers'
    BY <1>a, <2>1, <2>2 DEF ActiveCovers, PrActive, NoneOpen, MergedChildren
  <2> QED
    BY <2>2, <2>3 DEF PrCoversAll
<1>7. ASSUME NEW c, Builds(c)
      PROVE  PrCoversAll'
  <2>1. phase = "generating-builds" /\ (Deciding => To = "generating-builds")
    BY <1>7 DEF Builds, InIntegration, InCourse, GenerationInPlace, Generating, To
  <2>2. ~worker.created
    BY <2>1 DEF InIntegration, InCourse, CourseKept, Course
  <2>3. /\ UNCHANGED <<flow, phase, worker, runs, prs, pass>>
    BY <1>7 DEF Builds
  <2>4. ~PrActive /\ ~Polls /\ ~(Deciding /\ pass.create = PrOpen)
    BY <1>a, <1>b, <2>1, <2>2 DEF ActiveCovers, Polls, InIntegration, IntegratesDone
  <2>5. ~PrActive' /\ ~Polls' /\ Deciding' = Deciding /\ To' = To /\ After' = After
    BY <2>3, <2>4 DEF PrActive, Polls, Deciding, To, After
  <2>6. ~Awaited'
    BY <2>1, <2>3, <2>4 DEF Awaited, Deciding
  <2> QED
    BY <1>a, <2>1, <2>3, <2>5, <2>6 DEF PrCoversAll, PollsAs, ActiveCovers
<1>8. ASSUME NEW x, NEW r, Turns(x, r), x # PrOpen
      PROVE  PrCoversAll'
  <2>1. prs' = prs
    <3>1. x.kind # "pr"
      BY <1>8 DEF OnePrRun, Turns
    <3> QED
      BY <1>8, <3>1 DEF Turns, GoesOn, Succeeds, Opens
  <2> QED
    BY <1>8, <2>1, PrStays DEF Turns, Turned, MergedChildren
<1>9. ASSUME NEW r, Turns(PrOpen, r)
      PROVE  PrCoversAll'
  <2>1. /\ PrActive /\ DOMAIN runs' = DOMAIN runs /\ runs'[PrOpen] = r /\ r.covers = runs[PrOpen].covers
        /\ UNCHANGED <<flow, phase, worker, children, pass>>
    BY <1>9 DEF Turns, Turned, PrActive
  <2>2. /\ worker.created /\ NoneOpen(worker.refs) /\ ~Polls
        /\ worker.refs \cap MergedChildren \subseteq runs[PrOpen].covers
        /\ Deciding => ~PollsAs(To, After) /\ After.refs = worker.refs
    BY <1>a, <2>1 DEF ActiveCovers
  <2>3. /\ Deciding' = Deciding /\ To' = To /\ After' = After /\ Polls' = Polls
        /\ MergedChildren' = MergedChildren /\ NoneOpen(worker.refs)' = NoneOpen(worker.refs)
        /\ PollsAs(To, After)' = PollsAs(To, After)
    BY <2>1 DEF Deciding, To, After, Polls, MergedChildren, NoneOpen, PollsAs
  <2>4. ActiveCovers'
    BY <2>1, <2>2, <2>3 DEF ActiveCovers
  <2>5. ASSUME PrReported'
        PROVE  Shows(runs[PrOpen].pr, worker.refs)'
    <3>1. r.verdict = "opened"
      BY <2>1, <2>5 DEF PrReported
    <3>2. Opens(PrOpen, r)
      BY <1>9, <3>1 DEF Turns, GoesOn, Succeeds
    <3>3. CASE r.pr \notin OpenPRs /\ r.pr = runs[PrOpen].pr /\ UNCHANGED prs
      <4>1. runs[PrOpen].pr \in {0} \cup DOMAIN prs
        BY <2>1 DEF Base, OnRecord, PrActive
      <4>2. r.pr # 0
        BY <3>2 DEF Opens
      <4>3. r.pr \in DOMAIN prs
        BY <3>3, <4>1, <4>2
      <4> QED
        BY <2>1, <3>3, <4>3 DEF OpenPRs, Shows
    <3>4. CASE Publish(r.pr, r.covers)
      <4>1. prs'[r.pr].head = r.covers
        BY <3>4 DEF Publish, Put
      <4> QED
        BY <2>1, <2>2, <2>3, <4>1 DEF Shows
    <3> QED
      BY <3>2, <3>3, <3>4 DEF Opens
  <2> QED
    BY <1>a, <2>1, <2>2, <2>3, <2>4, <2>5 DEF PrCoversAll
<1>10. ASSUME NEW c, Ends(c)
       PROVE  PrCoversAll'
  <2>1. /\ c \in DOMAIN children /\ children[c] = "open" /\ DOMAIN children' = DOMAIN children
        /\ children'[c] # "open" /\ \A d \in DOMAIN children \ {c} : children'[d] = children[d]
        /\ UNCHANGED <<flow, phase, worker, runs, prs, pass>>
    BY <1>10 DEF Ends
  <2>2. \A d \in MergedChildren' \ MergedChildren : d \in DOMAIN children /\ children[d] = "open"
    BY <2>1 DEF MergedChildren
  <2>3. \A d \in worker.refs \cap DOMAIN children' :
           d \in DOMAIN children /\ (children'[d] = "open" => children[d] = "open")
    BY <2>1
  <2> QED
    BY <2>1, <2>2, <2>3, PrStays
<1> QED
  BY <1>1, <1>2, <1>3, <1>4, <1>5, <1>6, <1>7, <1>8, <1>9, <1>10, Kinds

\* While the reconciler polls a pull request that is open, it shows the merged
\* work of every child on record (PlanTask's PrShowsTheWork).  Where the read
\* of a leftover run of its name may fail, what is adopted is an earlier report
\* and this does not hold.
THEOREM PrShows ==
  ASSUME <<"pr", "pr", "unread">> \notin Troubles
  PROVE  Spec => []PrShowsTheWork
<1>1. ASSUME InIntegration, PrCoversAll
      PROVE  PrShowsTheWork
  <2>1. Polls => flow = "pr"
    BY <1>1 DEF InIntegration, PrsOfTheFlow, Polls
  <2> QED
    BY <1>1, <2>1 DEF PrCoversAll, Shows, PrShowsTheWork
<1> DEFINE Inv == InIntegration /\ OnePrRun /\ PrCoversAll
<1>2. Init => Inv
  <2> SUFFICES ASSUME Init PROVE Inv
    OBVIOUS
  <2>1. DOMAIN runs = {} /\ pass = NoPass /\ phase = "awaiting-human"
    BY DEF Init
  <2>2. OnePrRun /\ PrCoversAll
    BY <2>1 DEF OnePrRun, PrCoversAll, ActiveCovers, PrActive, PrReported, Polls, Deciding
  <2> QED
    BY <2>2, InitIntegration
<1>3. Inv /\ [Next]_vars => Inv'
  BY StepIntegration, StepOnePrRun, StepPrCovers DEF InIntegration, InCourse
<1>4. Inv => PrShowsTheWork
  BY <1>1
<1> HIDE DEF Inv
<1> QED
  BY <1>2, <1>3, <1>4, PTL DEF Spec

-----------------------------------------------------------------------------
(* A request for changes makes one follow-up: it is acted on again only     *)
(* where its follow-up would have the same name.                            *)

\* The numbers of the requests.
RequestsNumbered ==
  /\ notes.changes <= asked
  /\ seen # NoCycle => seen.notes.changes <= asked
  /\ pass # NoPass => pass.clear.changes <= asked
  /\ \A c \in DOMAIN children : c.by = "request" => c.text \in 1..asked
  /\ Deciding /\ pass.child # NoChild /\ pass.child.by = "request" =>
       /\ Polls /\ pass.clear.changes # 0
       /\ pass.child = FollowUpOfRequest(worker, pass.clear.changes)

\* The follow-ups of the requests that did not lapse.
FollowUpsMade == {c \in DOMAIN children : c.by = "request" /\ c.text \notin lapsed}

\* A PLAN in the phase p with the worker status w makes c again, or makes none.
Stands(c, p, w) ==
  \/ PollsAs(p, w) /\ c.pr = w.pr /\ c.round = Cardinality(w.refs)
  \/ p \in {"awaiting-human", "done"}

Clearing(k) == InStage("clear") /\ pass.clear.changes = k

\* A request whose follow-up c is made: it is on the task, it was seen there, it
\* is being acted on.
PendingStands(c) ==
  notes.changes = c.text =>
    /\ ~Clearing(c.text) => Stands(c, phase, worker)
    /\ seen # NoCycle => seen.notes.changes = c.text
    /\ Deciding /\ pass.clear.changes # c.text => Stands(c, To, After)
SeenStands(c) == seen # NoCycle /\ seen.notes.changes = c.text => Stands(c, phase, worker)
ActedOnStands(c) == Deciding /\ pass.clear.changes = c.text => Stands(c, phase, worker)

ActedOnOnce ==
  \A c \in FollowUpsMade :
    /\ \A d \in FollowUpsMade : d.text = c.text => d = c
    /\ PendingStands(c) /\ SeenStands(c) /\ ActedOnStands(c)

\* The requests stay numbered.
LEMMA StepNumbered ==
  ASSUME Base, [Next]_vars, RequestsNumbered
  PROVE  RequestsNumbered'
<1>0. /\ asked \in Nat /\ notes \in Notes /\ DOMAIN children \subseteq Child
      /\ notes.changes \in Nat
      /\ seen # NoCycle => seen.notes.changes \in Nat
      /\ pass # NoPass => pass.clear.changes \in Nat
      /\ seen = NoCycle \/ pass = NoPass
      /\ NoNotes.changes = 0
  BY DEF Base, Typed, StoreTyped, SeenTyped, PassTyped, OnRecord, Notes, Pass, NoNotes
<1>1. CASE Starts
  BY <1>0, <1>1 DEF Starts, RequestsNumbered, Deciding, Polls, FollowUpOfRequest
<1>2. CASE Visits
  <2> DEFINE p == pass'
  <2>1. /\ Chosen(p, Merge(worker, p.patch)) /\ p.clear \in {NoNotes, seen.notes}
        /\ seen # NoCycle /\ seen' = NoCycle
        /\ UNCHANGED <<phase, worker, notes, children, asked>>
    BY <1>2 DEF Visits, Sound
  <2> HIDE DEF p
  <2>2. p.child # NoChild /\ p.child.by = "request" =>
          /\ Polls /\ p.clear.changes # 0
          /\ p.child = FollowUpOfRequest(worker, p.clear.changes)
    BY <2>1 DEF Chosen, AnswersHuman, Generates, Gates, Schedules, Concludes, Closes, Watches,
                FollowsUp, Recovers
  <2>3. p.clear.changes <= asked
    BY <1>0, <2>1 DEF RequestsNumbered
  <2> QED
    BY <2>1, <2>2, <2>3 DEF RequestsNumbered, Deciding, Polls, FollowUpOfRequest, p
<1>3. CASE Acts
  <2>1. /\ pass'.child = pass.child /\ pass'.clear = pass.clear /\ pass # NoPass
        /\ Deciding /\ seen = NoCycle
        /\ UNCHANGED <<phase, worker, notes, seen, asked>>
    BY <1>0, <1>3 DEF Acts, Deciding
  <2>2. \A c \in DOMAIN children' : c \in DOMAIN children \/ (c = pass.child /\ pass.child # NoChild)
    <3>1. DOMAIN WithChild(pass.child) = DOMAIN children \cup {pass.child}
      BY ChildPut
    <3> QED
      BY <1>3, <3>1 DEF Acts
  <2>3. pass.child # NoChild /\ pass.child.by = "request" => pass.child.text \in 1..asked
    BY <1>0, <2>1 DEF RequestsNumbered, FollowUpOfRequest
  <2>4. \A c \in DOMAIN children' : c.by = "request" => c.text \in 1..asked
    BY <2>2, <2>3 DEF RequestsNumbered
  <2> QED
    BY <2>1, <2>4 DEF RequestsNumbered, Polls, FollowUpOfRequest
<1>4. CASE Writes
  BY <1>0, <1>4 DEF Writes, RequestsNumbered, Deciding
<1>5. CASE Idles
  <2>1. /\ UNCHANGED <<phase, worker, children>>
        /\ pass' \in {pass, NoPass} /\ seen' \in {seen, NoCycle}
        /\ notes'.changes <= asked' /\ asked' \in Nat /\ asked <= asked'
    BY <1>0, <1>5 DEF Idles, RequestGoes, RequestsNumbered
  <2>2. 1..asked \subseteq 1..asked'
    BY <1>0, <2>1
  <2>3. \A k \in Nat : k <= asked => k <= asked'
    BY <1>0, <2>1
  <2>4. /\ seen' # NoCycle => seen'.notes.changes <= asked'
        /\ pass' # NoPass => pass'.clear.changes <= asked'
    BY <1>0, <2>1, <2>3 DEF RequestsNumbered
  <2> QED
    BY <2>1, <2>2, <2>4 DEF RequestsNumbered, Deciding, Polls, FollowUpOfRequest
<1>6. CASE Plans
  BY <1>6 DEF Plans, RequestsNumbered, Deciding
<1>7. ASSUME NEW c, Builds(c)
      PROVE  RequestsNumbered'
  <2>1. \A d \in DOMAIN children' : d.by = "request" => d \in DOMAIN children
    <3>1. DOMAIN WithChild(c) = DOMAIN children \cup {c}
      BY ChildPut
    <3> QED
      BY <1>7, <3>1 DEF Builds
  <2> QED
    BY <1>7, <2>1 DEF Builds, RequestsNumbered, Deciding, Polls, FollowUpOfRequest
<1>8. ASSUME NEW x, NEW r, Turns(x, r)
      PROVE  RequestsNumbered'
  BY <1>8 DEF Turns, RequestsNumbered, Deciding, Polls, FollowUpOfRequest
<1>9. ASSUME NEW c, Ends(c)
      PROVE  RequestsNumbered'
  BY <1>9 DEF Ends, RequestsNumbered, Deciding, Polls, FollowUpOfRequest
<1> QED
  BY <1>1, <1>2, <1>3, <1>4, <1>5, <1>6, <1>7, <1>8, <1>9, Kinds

\* What they say of a follow-up does not change while nothing they mention does.
LEMMA StandsStill ==
  ASSUME NEW c, UNCHANGED <<phase, worker, seen, pass>>, notes'.changes = notes.changes
  PROVE  /\ PendingStands(c)' = PendingStands(c)
         /\ SeenStands(c)' = SeenStands(c) /\ ActedOnStands(c)' = ActedOnStands(c)
BY DEF PendingStands, SeenStands, ActedOnStands, Clearing, InStage, Deciding, To, After

\* A decision in view of a follow-up already made.
LEMMA DecisionStands ==
  ASSUME NEW p, NEW v, NEW to, Chosen(p, v), to = IF p.to = "stay" THEN phase ELSE p.to,
         NEW c, Stands(c, phase, worker),
         seen.notes.changes = c.text, p.clear.changes # c.text
  PROVE  Stands(c, to, v)
<1>1. \/ Generates(p, v) \/ Gates(p, v) \/ Schedules(p, v) \/ Concludes(p, v)
      \/ Closes(p, v) \/ Watches(p, v)
  BY DEF Chosen, AnswersHuman, FollowsUp, Recovers
<1>2. CASE Closes(p, v)
  BY <1>2 DEF Closes, Stands
<1>3. CASE Watches(p, v)
  BY <1>3 DEF Watches, Stands, PollsAs, Polls, Same
<1>4. CASE Generates(p, v) \/ Gates(p, v) \/ Schedules(p, v) \/ Concludes(p, v)
  BY <1>4 DEF Generates, Gates, Schedules, Concludes, Stands, PollsAs
<1> QED
  BY <1>1, <1>2, <1>3, <1>4

\* Two follow-ups of one request that stand while it is polled are one.
LEMMA StandsAlone ==
  ASSUME Base, Polls, NEW k \in Nat, NEW c \in Child, c.by = "request", c.text = k,
         Stands(c, phase, worker)
  PROVE  c = FollowUpOfRequest(worker, k)
<1>1. c = [by |-> c.by, pr |-> c.pr, round |-> c.round, text |-> c.text]
  BY DEF Child
<1>2. c.pr = worker.pr /\ c.round = Cardinality(worker.refs)
  BY DEF Stands, Polls
<1> QED
  BY <1>1, <1>2 DEF FollowUpOfRequest

\* A request is acted on once.
LEMMA StepOnce ==
  ASSUME Base, [Next]_vars, RequestsNumbered, ActedOnOnce
  PROVE  ActedOnOnce'
<1>0. /\ asked \in Nat /\ lapsed \subseteq Nat /\ DOMAIN children \subseteq Child
      /\ notes.changes \in Nat
      /\ seen = NoCycle \/ pass = NoPass
      /\ NoNotes.changes = 0
      /\ \A c \in DOMAIN children : c.by = "request" => c.text \in 1..asked
  BY DEF Base, Typed, StoreTyped, OnRecord, Notes, NoNotes, RequestsNumbered
<1>a. \A c \in FollowUpsMade :
        /\ c.text \in Nat \ {0} /\ c.text <= asked
        /\ \A d \in FollowUpsMade : d.text = c.text => d = c
        /\ PendingStands(c) /\ SeenStands(c) /\ ActedOnStands(c)
  BY <1>0 DEF ActedOnOnce, FollowUpsMade
<1>1. CASE Starts
  <2>1. FollowUpsMade' = FollowUpsMade /\ seen' = [notes |-> notes, children |-> children]
        /\ pass' = pass /\ pass = NoPass /\ UNCHANGED <<phase, worker, notes>>
    BY <1>1 DEF Starts, FollowUpsMade
  <2>2. \A c \in FollowUpsMade : PendingStands(c)' /\ SeenStands(c)' /\ ActedOnStands(c)'
    BY <1>a, <2>1 DEF PendingStands, SeenStands, ActedOnStands, Clearing, InStage, Deciding
  <2> QED
    BY <1>a, <2>1, <2>2 DEF ActedOnOnce
<1>2. CASE Visits
  <2> DEFINE p == pass'
             v == Merge(worker, p.patch)
             to == IF p.to = "stay" THEN phase ELSE p.to
  <2>1. /\ Chosen(p, v) /\ p.clear \in {NoNotes, seen.notes} /\ p.stage = "effects"
        /\ seen # NoCycle /\ seen' = NoCycle /\ pass = NoPass
        /\ UNCHANGED <<phase, worker, notes, children, lapsed>>
    BY <1>2 DEF Visits, Sound
  <2>2. To' = to /\ After' = v
    BY <2>1 DEF To, After
  <2> HIDE DEF v
  <2>3. FollowUpsMade' = FollowUpsMade
    BY <2>1 DEF FollowUpsMade
  <2>4. \A c \in FollowUpsMade : seen.notes.changes = c.text => Stands(c, phase, worker)
    BY <1>a, <2>1 DEF SeenStands
  <2>5. \A c \in FollowUpsMade : notes.changes = c.text => seen.notes.changes = c.text
    BY <1>a, <2>1 DEF PendingStands
  <2>6. \A c \in FollowUpsMade : ActedOnStands(c)' /\ SeenStands(c)'
    BY <1>0, <1>a, <2>1, <2>4 DEF ActedOnStands, SeenStands
  <2> HIDE DEF p
  <2>7. \A c \in FollowUpsMade :
           notes.changes = c.text /\ p.clear.changes # c.text => Stands(c, to, v)
    BY <2>1, <2>4, <2>5, DecisionStands
  <2>8. \A c \in FollowUpsMade : PendingStands(c)'
    BY <2>1, <2>2, <2>4, <2>5, <2>7 DEF PendingStands, p
  <2> QED
    BY <1>a, <2>3, <2>6, <2>8 DEF ActedOnOnce
<1>3. CASE Acts
  <2>1. /\ pass'.clear = pass.clear /\ To' = To /\ After' = After /\ Deciding
        /\ pass.stage = "effects" /\ pass'.stage = "patch" /\ seen' = NoCycle
        /\ UNCHANGED <<phase, worker, notes, lapsed>>
    BY <1>0, <1>3 DEF Acts, Deciding, To
  <2>2. FollowUpsMade \subseteq FollowUpsMade'
        /\ \A c \in FollowUpsMade' \ FollowUpsMade :
             c = pass.child /\ pass.child # NoChild /\ c.by = "request"
    <3>1. DOMAIN WithChild(pass.child) = DOMAIN children \cup {pass.child}
      BY ChildPut
    <3> QED
      BY <1>3, <3>1 DEF Acts, FollowUpsMade
  <2>3. \A c : Stands(c, phase, worker)' = Stands(c, phase, worker)
               /\ Stands(c, To, After)' = Stands(c, To, After)
    BY <2>1
  <2>4. \A c \in FollowUpsMade : PendingStands(c)' /\ SeenStands(c)' /\ ActedOnStands(c)'
    BY <1>a, <2>1, <2>3 DEF PendingStands, SeenStands, ActedOnStands, Clearing, InStage, Deciding
  <2>5. ASSUME NEW c \in FollowUpsMade' \ FollowUpsMade
        PROVE  /\ PendingStands(c)' /\ SeenStands(c)' /\ ActedOnStands(c)'
               /\ \A d \in FollowUpsMade : d.text # c.text
    <3>1. /\ Polls /\ c = FollowUpOfRequest(worker, pass.clear.changes)
          /\ c.by = "request"
      BY <2>1, <2>2 DEF RequestsNumbered
    <3>2. c.text = pass.clear.changes /\ Stands(c, phase, worker)
      BY <3>1 DEF FollowUpOfRequest, Stands, Polls, PollsAs
    <3>3. ASSUME NEW d \in FollowUpsMade, d.text = c.text
          PROVE  FALSE
      <4>1. Stands(d, phase, worker)
        BY <1>a, <2>1, <3>2, <3>3 DEF ActedOnStands
      <4>2. d \in Child /\ d.by = "request" /\ d.text \in Nat
        BY <1>0, <1>a DEF FollowUpsMade
      <4>3. d = c
        BY <3>1, <3>2, <3>3, <4>1, <4>2, StandsAlone
      <4> QED
        BY <4>3
    <3>4. PendingStands(c)' /\ SeenStands(c)' /\ ActedOnStands(c)'
      BY <2>1, <2>3, <3>2 DEF PendingStands, SeenStands, ActedOnStands
    <3> QED
      BY <3>3, <3>4
  <2>6. \A c, d \in FollowUpsMade' : d.text = c.text => d = c
    BY <1>a, <2>2, <2>5
  <2> QED
    BY <2>4, <2>5, <2>6 DEF ActedOnOnce
<1>4. CASE Writes
  <2>1. /\ phase' = To /\ worker' = After /\ ~Deciding' /\ Deciding /\ seen' = NoCycle
        /\ UNCHANGED <<notes, children>> /\ lapsed \subseteq lapsed'
        /\ \/ pass' = NoPass /\ pass.clear.changes \in {0} \cup lapsed'
           \/ pass' # NoPass /\ pass'.stage = "clear" /\ pass'.clear = pass.clear
    BY <1>0, <1>4 DEF Writes, Deciding
  <2>2. FollowUpsMade' \subseteq FollowUpsMade /\ \A c \in FollowUpsMade' : c.text \notin lapsed'
    BY <2>1 DEF FollowUpsMade
  <2>3. \A c \in FollowUpsMade' : SeenStands(c)' /\ ActedOnStands(c)'
    BY <2>1 DEF SeenStands, ActedOnStands
  <2>4. ASSUME NEW c \in FollowUpsMade', notes.changes = c.text, ~Clearing(c.text)'
        PROVE  Stands(c, phase', worker')
    <3>1. c \in FollowUpsMade /\ c.text \in Nat \ {0}
      BY <1>a, <2>2
    <3>2. pass.clear.changes # c.text
      BY <2>1, <2>2, <2>4, <3>1 DEF Clearing, InStage
    <3>3. Stands(c, To, After)
      BY <1>a, <2>1, <2>4, <3>1, <3>2 DEF PendingStands
    <3> QED
      BY <2>1, <3>3
  <2>5. \A c \in FollowUpsMade' : PendingStands(c)'
    BY <2>1, <2>4 DEF PendingStands
  <2> QED
    BY <1>a, <2>2, <2>3, <2>5 DEF ActedOnOnce
<1>5. CASE Idles
  <2>1. /\ UNCHANGED <<phase, worker, children>>
        /\ pass' \in {pass, NoPass} /\ seen' \in {seen, NoCycle}
        /\ lapsed \subseteq lapsed'
        /\ InStage("clear") /\ pass' = NoPass =>
             pass.clear.changes \in {0} \cup lapsed' \/ notes'.changes = 0
        /\ notes'.changes \in {0, notes.changes, asked + 1}
    BY <1>5 DEF Idles, RequestGoes
  <2>2. FollowUpsMade' \subseteq FollowUpsMade /\ \A c \in FollowUpsMade' : c.text \notin lapsed'
    BY <2>1 DEF FollowUpsMade
  <2>3. \A c \in FollowUpsMade' : SeenStands(c)' /\ ActedOnStands(c)'
    BY <1>a, <2>1, <2>2 DEF SeenStands, ActedOnStands, Deciding
  <2>4. ASSUME NEW c \in FollowUpsMade', notes'.changes = c.text
        PROVE  PendingStands(c)'
    <3>1. c \in FollowUpsMade /\ c.text \in Nat \ {0} /\ c.text <= asked /\ c.text # asked + 1
      BY <1>0, <1>a, <2>2
    <3>2. notes.changes = c.text
      BY <2>1, <2>4, <3>1
    <3>3. ~Clearing(c.text)' => ~Clearing(c.text)
      BY <2>1, <2>2, <2>4, <3>1 DEF Clearing, InStage
    <3>4. Deciding' => Deciding /\ pass' = pass /\ To' = To /\ After' = After
      BY <2>1 DEF Deciding, To, After
    <3>5. /\ ~Clearing(c.text) => Stands(c, phase, worker)
          /\ seen # NoCycle => seen.notes.changes = c.text
          /\ Deciding /\ pass.clear.changes # c.text => Stands(c, To, After)
      BY <1>a, <3>1, <3>2 DEF PendingStands
    <3> QED
      BY <2>1, <3>3, <3>4, <3>5 DEF PendingStands
  <2>5. \A c \in FollowUpsMade' : PendingStands(c)'
    BY <2>4 DEF PendingStands
  <2> QED
    BY <1>a, <2>2, <2>3, <2>5 DEF ActedOnOnce
<1>6. CASE Plans
  <2>1. /\ phase = "rework-requested" /\ pass = NoPass /\ pass' = pass
        /\ seen' = seen /\ seen = NoCycle
        /\ FollowUpsMade' = FollowUpsMade /\ UNCHANGED <<notes, worker>>
    BY <1>6 DEF Plans, FollowUpsMade
  <2>2. \A c : ~Stands(c, phase, worker) /\ ~Clearing(c.text)
    BY <2>1 DEF Stands, PollsAs, Clearing, InStage
  <2>3. \A c \in FollowUpsMade : notes.changes # c.text
    BY <1>a, <2>2 DEF PendingStands
  <2>4. \A c \in FollowUpsMade : PendingStands(c)' /\ SeenStands(c)' /\ ActedOnStands(c)'
    BY <2>1, <2>3 DEF PendingStands, SeenStands, ActedOnStands, Deciding
  <2> QED
    BY <1>a, <2>1, <2>4 DEF ActedOnOnce
<1>7. ASSUME FollowUpsMade' = FollowUpsMade, UNCHANGED <<phase, worker, notes, seen, pass>>
      PROVE  ActedOnOnce'
  BY <1>a, <1>7, StandsStill DEF ActedOnOnce
<1>8. ASSUME NEW c, Builds(c)
      PROVE  FollowUpsMade' = FollowUpsMade /\ UNCHANGED <<phase, worker, notes, seen, pass>>
  <2>1. DOMAIN WithChild(c) = DOMAIN children \cup {c}
    BY ChildPut
  <2> QED
    BY <1>8, <2>1 DEF Builds, FollowUpsMade
<1>9. ASSUME NEW x, NEW r, Turns(x, r)
      PROVE  FollowUpsMade' = FollowUpsMade /\ UNCHANGED <<phase, worker, notes, seen, pass>>
  BY <1>9 DEF Turns, FollowUpsMade
<1>10. ASSUME NEW c, Ends(c)
       PROVE  FollowUpsMade' = FollowUpsMade /\ UNCHANGED <<phase, worker, notes, seen, pass>>
  BY <1>10 DEF Ends, FollowUpsMade
<1> QED
  BY <1>1, <1>2, <1>3, <1>4, <1>5, <1>6, <1>7, <1>8, <1>9, <1>10, Kinds

\* A request for changes makes one follow-up, unless its annotation could not
\* be cleared (PlanTask's OneFollowUpPerRequest), however its decision is
\* interrupted and taken again.
THEOREM OneFollowUp == Spec => []OneFollowUpPerRequest
<1> DEFINE Inv == Base /\ RequestsNumbered /\ ActedOnOnce
<1>1. Init => Inv
  <2> SUFFICES ASSUME Init PROVE Inv
    OBVIOUS
  <2>1. /\ Base /\ DOMAIN children = {} /\ notes.changes = 0 /\ asked = 0
        /\ seen = NoCycle /\ pass = NoPass
    BY InitBase DEF Init, NoNotes
  <2> QED
    BY <2>1 DEF RequestsNumbered, ActedOnOnce, FollowUpsMade, Deciding
<1>2. Inv /\ [Next]_vars => Inv'
  BY StepBase, StepNumbered, StepOnce
<1>3. Inv => OneFollowUpPerRequest
  <2> SUFFICES ASSUME Inv, NEW k \in 1..asked \ lapsed
               PROVE  Cardinality({c \in DOMAIN children : c.by = "request" /\ c.text = k}) <= 1
    BY DEF OneFollowUpPerRequest
  <2> DEFINE S == {c \in DOMAIN children : c.by = "request" /\ c.text = k}
  <2>1. S \subseteq FollowUpsMade
    BY DEF FollowUpsMade
  <2>2. \A c, d \in S : c = d
    BY <2>1 DEF ActedOnOnce
  <2> HIDE DEF S
  <2>3. CASE S = {}
    <3>1. Cardinality(S) = 0
      BY <2>3, FS_EmptySet
    <3> QED
      BY <3>1 DEF S
  <2>4. CASE S # {}
    <3>1. PICK c : c \in S
      BY <2>4
    <3>2. S = {c}
      BY <2>2, <3>1
    <3>3. Cardinality({c}) = 1
      BY FS_Singleton
    <3>4. Cardinality(S) <= 1
      BY <3>2, <3>3
    <3> QED
      BY <3>4 DEF S
  <2> QED
    BY <2>3, <2>4
<1> HIDE DEF Inv
<1> QED
  BY <1>1, <1>2, <1>3, PTL DEF Spec
-----------------------------------------------------------------------------
(* The comments: the watermark passes none that no evaluation was told of.  *)

\* A decision that is not about comments.
Unmarked(p) ==
  "watermark" \notin DOMAIN p.patch /\ (p.create = NoRun \/ p.create.kind # "preval")

\* Consuming annotations makes no difference to that.
LEMMA UnmarkedStill ==
  ASSUME NEW p, "patch" \in DOMAIN p, "create" \in DOMAIN p, Unmarked(p)
  PROVE  Unmarked(Consuming(p))
BY DEF Unmarked, Consuming

\* Nor is the start of an integration about them.
LEMMA CompleteUnmarked ==
  ASSUME flow \in {"disabled", "plan-only", "manual", "pr", "auto-merge"}
  PROVE  /\ Unmarked(ChildrenComplete)
         /\ "patch" \in DOMAIN ChildrenComplete /\ "create" \in DOMAIN ChildrenComplete
<1>1. CASE flow \in {"disabled", "plan-only"}
  BY <1>1 DEF ChildrenComplete, Move, NoPatch, Unmarked
<1>2. CASE flow = "manual"
  BY <1>2 DEF ChildrenComplete, Move, NoPatch, Unmarked
<1>3. CASE flow = "pr"
  BY <1>3 DEF ChildrenComplete, Move, PrOpen, Unmarked
<1>4. CASE flow = "auto-merge"
  BY <1>4 DEF ChildrenComplete, Move, MergeRun, Unmarked
<1> QED
  BY <1>1, <1>2, <1>3, <1>4

\* A decision that is not about comments moves no watermark.
LEMMA DecisionMarks ==
  ASSUME Base, Decide
  PROVE  Unmarked(pass') \/ DecideComments
<1>0. flow \in {"disabled", "plan-only", "manual", "pr", "auto-merge"}
  BY BoundsAssumption DEF Base, Typed, StoreTyped
<1>1. \A to : /\ Unmarked(Move(to)) /\ "patch" \in DOMAIN Move(to)
              /\ "create" \in DOMAIN Move(to)
  BY DEF Move, NoPatch, Unmarked
<1>2. Unmarked(RetryMerge) /\ "patch" \in DOMAIN RetryMerge /\ "create" \in DOMAIN RetryMerge
  BY DEF RetryMerge, Move, Unmarked
<1>3. CASE DecideAwaitingHuman
  <2>1. LET p == [Move("done") EXCEPT !.patch = [abandoned |-> TRUE]] IN
        Unmarked(p) /\ "patch" \in DOMAIN p /\ "create" \in DOMAIN p
    BY DEF Move, Unmarked
  <2> QED
    BY <1>0, <1>1, <1>2, <1>3, <2>1, CompleteUnmarked, UnmarkedStill DEF DecideAwaitingHuman
<1>4. CASE DecideGeneratingBuilds
  <2>1. Unmarked([Move("stay") EXCEPT !.patch = [buildgen |-> BuildGen], !.create = BuildGen])
    BY DEF Move, BuildGen, Unmarked
  <2>2. Unmarked([Move("awaiting-human") EXCEPT !.patch = [buildgen |-> NoRun]])
    BY DEF Move, Unmarked
  <2>3. \A built :
          Unmarked([Move("awaiting-children") EXCEPT !.patch = [created |-> TRUE, refs |-> built]])
    BY DEF Move, Unmarked
  <2> QED
    BY <1>4, <2>1, <2>2, <2>3 DEF DecideGeneratingBuilds
<1>5. CASE DecideAwaitingChildren
  BY <1>0, <1>1, <1>5, CompleteUnmarked DEF DecideAwaitingChildren
<1>6. CASE DecideIntegrationRun
  BY <1>6 DEF DecideIntegrationRun, Move, MergeRun, PrOpen, Unmarked
<1>7. CASE DecideIntegrationOutcome
  <2> DEFINE failure == [Move("failed") EXCEPT !.patch = [mergeError |-> TRUE]]
  <2>1. /\ Unmarked(failure) /\ Unmarked([failure EXCEPT !.to = "awaiting-human"])
        /\ Unmarked([failure EXCEPT !.discard = worker.merge])
    BY DEF Move, Unmarked
  <2>2. \A n : Unmarked([Move("stay") EXCEPT !.patch = [pr |-> n, merge |-> NoRun]])
    BY DEF Move, Unmarked
  <2>3. Unmarked([Move("done") EXCEPT !.patch = [merged |-> TRUE]])
    BY DEF Move, Unmarked
  <2> QED
    BY <1>7, <2>1, <2>2, <2>3 DEF DecideIntegrationOutcome
<1>8. CASE DecidePrClosed
  <2> DEFINE move(to) == [Move(to) EXCEPT !.discard = worker.eval]
  <2>1. Unmarked([move("done") EXCEPT !.patch = [merged |-> TRUE, eval |-> NoRun]])
    BY DEF Move, Unmarked
  <2>2. Unmarked([move("awaiting-human") EXCEPT
                    !.patch = [mergeError |-> TRUE, pr |-> 0, eval |-> NoRun]])
    BY DEF Move, Unmarked
  <2> QED
    BY <1>8, <2>1, <2>2 DEF DecidePrClosed
<1>9. ASSUME NEW c
      PROVE  /\ Unmarked(FollowUp(c))
             /\ Unmarked([FollowUp(c) EXCEPT !.patch = [refs |-> @.refs, eval |-> NoRun]])
             /\ LET p == [FollowUp(c) EXCEPT !.patch = [refs |-> @.refs, eval |-> NoRun]] IN
                "patch" \in DOMAIN p /\ "create" \in DOMAIN p
             /\ "patch" \in DOMAIN FollowUp(c) /\ "create" \in DOMAIN FollowUp(c)
  BY DEF FollowUp, Move, Unmarked
<1>10. CASE DecideEvaluation
  <2>1. LET p == [Move("stay") EXCEPT !.patch = [eval |-> NoRun]] IN
        Unmarked(p) /\ Unmarked([p EXCEPT !.discard = worker.eval])
    BY DEF Move, Unmarked
  <2> QED
    BY <1>9, <1>10, <2>1, UnmarkedStill DEF DecideEvaluation
<1>11. CASE DecideScopeChange
  BY <1>9, <1>11, UnmarkedStill DEF DecideScopeChange
<1>12. CASE DecideFailed
  BY <1>1, <1>2, <1>12, UnmarkedStill DEF DecideFailed
<1> QED
  BY <1>3, <1>4, <1>5, <1>6, <1>7, <1>8, <1>10, <1>11, <1>12 DEF Decide

\* The watermark a merge patch leaves.
LEMMA MergeWatermark ==
  ASSUME NEW w \in Worker, NEW p
  PROVE  Merge(w, p).watermark =
           IF "watermark" \in DOMAIN p THEN p["watermark"] ELSE w.watermark
<1>1. "watermark" \in DOMAIN w
  BY DEF Worker
<1> QED
  BY <1>1 DEF Merge

\* Everything up to the comment m on an open pull request was handed over.
Noted(m) ==
  /\ m \in {0} \cup DOMAIN posted
  /\ \A c \in DOMAIN posted : c <= m /\ prs[posted[c]].state = "open" => c \in handed

\* The pull requests follow each other: only the last may be open, and a later
\* comment is on no earlier one.
LastOpen == \A n \in OpenPRs, m \in DOMAIN prs : m <= n
InOrder == \A c, d \in DOMAIN posted : c <= d => posted[c] <= posted[d]

\* The watermark moves to a comment on the pull request, with an evaluation
\* named for it.
Keeps(p, v) ==
  v.watermark = worker.watermark /\ (p.create = NoRun \/ p.create.kind # "preval")
Advances(p, v) ==
  /\ v.watermark \in DOMAIN posted /\ posted[v.watermark] = worker.pr
  /\ p.create = EvalRun(v.watermark)
Marks == Deciding => Keeps(pass, After) \/ Advances(pass, After)

HandedOver ==
  /\ Noted(worker.watermark)
  /\ Deciding /\ pass.stage = "patch" => Noted(After.watermark)
  /\ \A x \in DOMAIN runs : x.kind = "preval" => Noted(x.round)

\* The pull requests keep their order.
LEMMA StepOrder ==
  ASSUME Base, LastOpen, InOrder, [Next]_vars
  PROVE  LastOpen' /\ InOrder'
<1>1. PICK n \in Nat : DOMAIN prs = 1..n
  BY DEF Base, OnRecord, Numbered
<1>2. /\ DOMAIN posted \subseteq Nat /\ \A c \in DOMAIN posted : posted[c] \in DOMAIN prs
  BY DEF Base, Typed, StoreTyped
<1>3. ASSUME DOMAIN prs' = DOMAIN prs,
             \A m \in DOMAIN prs : prs'[m].state = "open" => prs[m].state = "open"
      PROVE  LastOpen'
  BY <1>3 DEF LastOpen, OpenPRs
<1>4. LastOpen'
  <2>1. CASE UNCHANGED prs
    BY <1>3, <2>1
  <2>2. CASE Idles
    BY <1>3, <2>2 DEF Idles
  <2>3. ASSUME NEW x, NEW r, Opens(x, r)
        PROVE  LastOpen'
    <3>1. CASE r.pr \in OpenPRs /\ Publish(r.pr, r.covers)
      <4>1. r.pr \in DOMAIN prs /\ prs[r.pr].state = "open"
        BY <3>1 DEF OpenPRs
      <4>2. DOMAIN prs' = DOMAIN prs /\ \A m \in DOMAIN prs \ {r.pr} : prs'[m] = prs[m]
        BY <3>1, <4>1 DEF Publish, Put
      <4> QED
        BY <1>3, <4>1, <4>2
    <3>2. CASE /\ OpenPRs = {} /\ r.pr = Cardinality(DOMAIN prs) + 1
               /\ Publish(r.pr, r.covers)
      <4>1. Cardinality(1..n) = n
        BY FS_Interval
      <4>2. r.pr = n + 1
        BY <1>1, <3>2, <4>1
      <4>3. DOMAIN prs' = 1..(n + 1) /\ \A m \in DOMAIN prs : prs'[m] = prs[m]
        BY <1>1, <3>2, <4>2 DEF Publish, Put
      <4>4. \A m \in DOMAIN prs : prs'[m].state # "open"
        BY <3>2, <4>3 DEF OpenPRs
      <4> QED
        BY <1>1, <4>3, <4>4 DEF LastOpen, OpenPRs
    <3>3. CASE UNCHANGED prs
      BY <1>3, <3>3
    <3> QED
      BY <2>3, <3>1, <3>2, <3>3 DEF Opens
  <2>4. ASSUME NEW x, NEW r, Turns(x, r)
        PROVE  LastOpen'
    BY <1>3, <2>3, <2>4 DEF Turns, GoesOn, Succeeds
  <2> QED
    BY <2>1, <2>2, <2>4, Kinds DEF Starts, Visits, Acts, Writes, Plans, Builds, Ends
<1>5. InOrder'
  <2>1. CASE posted' = posted
    BY <2>1 DEF InOrder
  <2>2. ASSUME NEW m \in DOMAIN prs, Comment(m)
        PROVE  InOrder'
    <3> DEFINE k == Cardinality(DOMAIN posted) + 1
    <3>1. /\ m \in OpenPRs /\ k \in Nat /\ \A c \in DOMAIN posted : c < k
          /\ DOMAIN posted' = DOMAIN posted \cup {k} /\ posted'[k] = m
          /\ \A c \in DOMAIN posted : posted'[c] = posted[c]
      BY <2>2, Commented
    <3> HIDE DEF k
    <3>2. \A c \in DOMAIN posted : posted[c] <= m
      BY <1>2, <3>1 DEF LastOpen
    <3>3. m \in Nat
      BY <1>1
    <3>4. ASSUME NEW c \in DOMAIN posted', NEW d \in DOMAIN posted', c <= d
          PROVE  posted'[c] <= posted'[d]
      <4>1. CASE d = k
        BY <3>1, <3>2, <3>3, <4>1
      <4>2. CASE d # k
        <5>1. d \in DOMAIN posted /\ d < k /\ c # k
          BY <1>2, <3>1, <3>4, <4>2
        <5>2. c \in DOMAIN posted
          BY <3>1, <5>1
        <5> QED
          BY <3>1, <3>4, <5>1, <5>2 DEF InOrder
      <4> QED
        BY <4>1, <4>2
    <3> QED
      BY <3>4 DEF InOrder
  <2> QED
    BY <2>1, <2>2, CommentSteps
<1> QED
  BY <1>4, <1>5

\* What was handed over stays so, and a later comment takes nothing from it.
LEMMA StepNoted ==
  ASSUME Base, [Next]_vars, NEW m, Noted(m)
  PROVE  Noted(m)'
<1>1. handed \subseteq handed' /\ DOMAIN posted \subseteq Nat
      /\ \A c \in DOMAIN posted : posted[c] \in DOMAIN prs
  BY CommentSteps DEF Base, Typed, StoreTyped
<1>2. \A n \in DOMAIN prs : prs'[n].state = "open" => prs[n].state = "open"
  <2>1. CASE UNCHANGED prs
    BY <2>1
  <2>2. CASE Idles
    BY <2>2 DEF Idles
  <2>3. ASSUME NEW x, NEW r, Opens(x, r), NEW n \in DOMAIN prs, prs'[n].state = "open"
        PROVE  prs[n].state = "open"
    <3>1. CASE r.pr \in OpenPRs /\ Publish(r.pr, r.covers)
      BY <2>3, <3>1 DEF OpenPRs, Publish, Put
    <3>2. CASE /\ OpenPRs = {} /\ r.pr = Cardinality(DOMAIN prs) + 1
               /\ Publish(r.pr, r.covers)
      <4>1. r.pr \notin DOMAIN prs
        <5>1. PICK k \in Nat : DOMAIN prs = 1..k
          BY DEF Base, OnRecord, Numbered
        <5>2. Cardinality(1..k) = k
          BY FS_Interval
        <5> QED
          BY <3>2, <5>1, <5>2
      <4> QED
        BY <2>3, <3>2, <4>1 DEF Publish, Put
    <3> QED
      BY <2>3, <3>1, <3>2 DEF Opens
  <2>4. ASSUME NEW x, NEW r, Turns(x, r)
        PROVE  \A n \in DOMAIN prs : prs'[n].state = "open" => prs[n].state = "open"
    BY <2>3, <2>4 DEF Turns, GoesOn, Succeeds
  <2> QED
    BY <2>1, <2>2, <2>4, Kinds DEF Starts, Visits, Acts, Writes, Plans, Builds, Ends
<1>3. CASE posted' = posted
  BY <1>1, <1>2, <1>3 DEF Noted
<1>4. ASSUME NEW n \in DOMAIN prs, Comment(n)
      PROVE  Noted(m)'
  <2> DEFINE k == Cardinality(DOMAIN posted) + 1
  <2>1. /\ k \in Nat /\ \A c \in DOMAIN posted : c < k
        /\ DOMAIN posted' = DOMAIN posted \cup {k}
        /\ \A c \in DOMAIN posted : posted'[c] = posted[c]
    BY <1>4, Commented
  <2>2. k > 0
    <3>1. k \in Nat \ {0}
      BY NextNumber DEF Base, OnRecord
    <3> QED
      BY <3>1
  <2> HIDE DEF k
  <2>3. m \in {0} \cup DOMAIN posted
    BY DEF Noted
  <2>4. m < k /\ m \in Nat
    BY <1>1, <2>1, <2>2, <2>3
  <2> QED
    BY <1>1, <1>2, <2>1, <2>3, <2>4 DEF Noted
<1> QED
  BY <1>3, <1>4, CommentSteps

\* A decision about comments names the newest that the poll returned.
LEMMA CommentsAdvance ==
  ASSUME Base, DecideComments
  PROVE  Advances(pass', Merge(worker, pass'.patch))
<1>1. PICK S \in SUBSET CommentsOn(worker.pr) :
        LET x == EvalRun(Latest(Newer(S))) IN
        /\ Newer(S) # {}
        /\ pass' = [Move("stay") EXCEPT
                      !.patch = [eval |-> x, watermark |-> x.round], !.create = x]
  BY DEF DecideComments
<1> DEFINE n == Latest(Newer(S))
           x == EvalRun(n)
           q == [eval |-> x, watermark |-> x.round]
<1>2. Newer(S) \in SUBSET DOMAIN posted
  BY DEF Newer, CommentsOn
<1>3. n \in Newer(S)
  BY <1>1, <1>2, LatestIsOne DEF Base, OnRecord
<1>4. n \in DOMAIN posted /\ posted[n] = worker.pr
  BY <1>3 DEF Newer, CommentsOn
<1>5. pass' = [Move("stay") EXCEPT !.patch = q, !.create = x]
  BY <1>1
<1> HIDE DEF n
<1>6. x.round = n
  BY DEF EvalRun
<1> HIDE DEF x
<1>7. q["watermark"] = n /\ "watermark" \in DOMAIN q
  BY <1>6
<1> HIDE DEF q
<1>8. pass'.patch = q /\ pass'.create = x
  BY <1>5 DEF Move
<1>9. Merge(worker, q).watermark = n
  BY <1>7, MergeWatermark DEF Base, Typed, StoreTyped
<1> QED
  BY <1>4, <1>8, <1>9 DEF Advances, x

\* The decision in hand keeps the watermark or moves it so.
LEMMA StepMarks ==
  ASSUME Base, [Next]_vars, Marks
  PROVE  Marks'
<1>1. \A c \in DOMAIN posted : c \in DOMAIN posted' /\ posted'[c] = posted[c]
  <2>1. CASE posted' = posted
    BY <2>1
  <2>2. ASSUME NEW n \in DOMAIN prs, Comment(n)
        PROVE  \A c \in DOMAIN posted : c \in DOMAIN posted' /\ posted'[c] = posted[c]
    BY <2>2, Commented
  <2> QED
    BY <2>1, <2>2, CommentSteps
<1>2. ASSUME pass' \in {pass, NoPass}, worker' = worker
      PROVE  Marks'
  <2>1. CASE pass' = pass
    BY <1>1, <1>2, <2>1 DEF Marks, Deciding, After, Keeps, Advances
  <2>2. CASE pass' = NoPass
    BY <2>2 DEF Marks, Deciding
  <2> QED
    BY <1>2, <2>1, <2>2
<1>3. CASE Starts \/ Idles \/ Plans
  BY <1>2, <1>3 DEF Starts, Idles, Plans
<1>4. CASE Visits
  <2>1. worker' = worker /\ posted' = posted /\ worker \in Worker
    BY <1>4 DEF Visits, Base, Typed, StoreTyped
  <2>2. ASSUME Unmarked(pass')
        PROVE  Keeps(pass', After')
    BY <2>1, <2>2, MergeWatermark DEF Unmarked, Keeps, After
  <2>3. CASE DecideComments
    BY <2>1, <2>3, CommentsAdvance DEF After, Marks, Advances
  <2>4. CASE Unmarked(pass')
    BY <2>1, <2>2, <2>4 DEF Marks, Keeps
  <2> QED
    BY <1>4, <2>3, <2>4, DecisionMarks DEF Visits
<1>5. CASE Acts
  BY <1>5 DEF Acts, Marks, Keeps, Advances
<1>6. CASE Writes
  BY <1>6 DEF Writes, Marks
<1>7. ASSUME NEW c, Builds(c) \/ Ends(c)
      PROVE  Marks'
  BY <1>2, <1>7 DEF Builds, Ends
<1>8. ASSUME NEW x, NEW r, Turns(x, r)
      PROVE  Marks'
  BY <1>2, <1>8 DEF Turns
<1> QED
  BY <1>3, <1>4, <1>5, <1>6, <1>7, <1>8, Kinds

\* An evaluation is told of every comment its round covers.
LEMMA LaunchNotes ==
  ASSUME Base, [Next]_vars, Acts, HandedOver, LastOpen, InOrder, Advances(pass, After),
         handed' = handed \cup Told(pass.create)
  PROVE  Noted(After.watermark)'
<1> DEFINE m == After.watermark
<1>1. /\ m \in DOMAIN posted /\ posted[m] = worker.pr /\ pass.create.kind = "preval"
      /\ UNCHANGED <<posted, prs>> /\ After' = After
  BY DEF Advances, Acts, EvalRun
<1>2. /\ DOMAIN posted \subseteq Nat /\ \A c \in DOMAIN posted : posted[c] \in DOMAIN prs
      /\ DOMAIN prs \subseteq Nat /\ worker.watermark \in Nat
  BY DEF Base, Typed, StoreTyped, Worker
<1> HIDE DEF m
<1>3. ASSUME NEW c \in DOMAIN posted, c <= m, prs[posted[c]].state = "open"
      PROVE  c \in handed'
  <2>1. CASE c <= worker.watermark
    BY <1>3, <2>1 DEF HandedOver, Noted
  <2>2. CASE c > worker.watermark
    <3>1. posted[c] <= worker.pr
      BY <1>1, <1>3 DEF InOrder
    <3>2. posted[c] \in OpenPRs /\ worker.pr \in DOMAIN prs
      BY <1>1, <1>2, <1>3 DEF OpenPRs
    <3>3. worker.pr <= posted[c]
      BY <3>2 DEF LastOpen
    <3>4. posted[c] = worker.pr
      BY <1>2, <3>1, <3>2, <3>3
    <3>5. c \in Told(pass.create)
      BY <1>1, <2>2, <3>4 DEF Told, CommentsOn
    <3> QED
      BY <3>5
  <2> QED
    BY <1>2, <2>1, <2>2
<1>4. Noted(m)'
  BY <1>1, <1>3 DEF Noted, m
<1> QED
  BY <1>4 DEF m

\* Every step keeps what was handed over in order.
LEMMA StepHandedOver ==
  ASSUME Base, LastOpen, InOrder, Marks, HandedOver, [Next]_vars
  PROVE  HandedOver'
<1>1. \A m : Noted(m) => Noted(m)'
  BY StepNoted
<1>2. ASSUME worker' = worker, pass' \in {pass, NoPass}, DOMAIN runs' \subseteq DOMAIN runs
      PROVE  HandedOver'
  <2>1. Noted(worker.watermark)'
    BY <1>1, <1>2 DEF HandedOver
  <2>2. ASSUME (Deciding /\ pass.stage = "patch")'
        PROVE  Noted(After.watermark)'
    <3>1. pass' = pass /\ Deciding /\ pass.stage = "patch"
      BY <1>2, <2>2 DEF Deciding
    <3>2. After' = After
      BY <1>2, <3>1 DEF After
    <3> QED
      BY <1>1, <3>1, <3>2 DEF HandedOver
  <2>3. \A x \in DOMAIN runs' : x.kind = "preval" => Noted(x.round)'
    BY <1>1, <1>2 DEF HandedOver
  <2> QED
    BY <2>1, <2>2, <2>3 DEF HandedOver
<1>3. CASE Starts \/ Idles \/ Plans
  BY <1>2, <1>3 DEF Starts, Idles, Plans
<1>4. CASE Visits
  <2>1. worker' = worker /\ runs' = runs /\ pass'.stage = "effects"
    BY <1>4 DEF Visits, Sound
  <2> QED
    BY <1>1, <2>1 DEF HandedOver
<1>5. CASE Acts
  <2>1. /\ Deciding /\ worker' = worker /\ After' = After
        /\ \/ Launched(pass.create) /\ handed' = handed \cup Told(pass.create)
           \/ runs' = Without(pass.discard)
                /\ (pass.create = NoRun \/ (pass.create \in DOMAIN runs /\ ~Replaceable(pass.create)))
           \/ runs' = runs /\ pass.create \in Unread
    BY <1>5 DEF Acts
  <2>2. Noted(worker.watermark)'
    BY <1>1, <2>1 DEF HandedOver
  <2>3. Noted(After.watermark)'
    <3>1. CASE Keeps(pass, After)
      BY <2>1, <2>2, <3>1 DEF Keeps
    <3>2. CASE Advances(pass, After) /\ handed' = handed \cup Told(pass.create)
      BY <1>5, <3>2, LaunchNotes
    <3>3. CASE Advances(pass, After) /\ pass.create \in DOMAIN runs
      <4>1. pass.create.kind = "preval" /\ pass.create.round = After.watermark
        BY <3>3 DEF Advances, EvalRun
      <4>2. Noted(After.watermark)
        BY <3>3, <4>1 DEF HandedOver
      <4> QED
        BY <1>1, <2>1, <4>2
    <3>4. Advances(pass, After) => pass.create # NoRun
      <4>1. \A n \in Nat : EvalRun(n) # NoRun
        BY NamesAssumption DEF EvalRun, RunId
      <4> QED
        BY <4>1 DEF Advances, Base, Typed, StoreTyped
    <3> QED
      BY <2>1, <3>1, <3>2, <3>3, <3>4 DEF Marks, Unread
  <2>4. ASSUME NEW x \in DOMAIN runs', x.kind = "preval"
        PROVE  Noted(x.round)'
    <3>1. CASE x \in DOMAIN runs
      BY <1>1, <2>4, <3>1 DEF HandedOver
    <3>2. CASE x = pass.create /\ pass.create # NoRun
      <4>1. x.round = After.watermark
        BY <2>1, <2>4, <3>2 DEF Marks, Keeps, Advances, EvalRun
      <4> QED
        BY <2>1, <2>3, <4>1
    <3> QED
      BY <2>1, <3>1, <3>2 DEF Launched, Without
  <2> QED
    BY <2>2, <2>3, <2>4 DEF HandedOver
<1>6. CASE Writes
  <2>1. Deciding /\ pass.stage = "patch" /\ worker' = After /\ ~Deciding' /\ runs' = runs
    BY <1>6 DEF Writes
  <2>2. Noted(worker.watermark)'
    BY <1>1, <2>1 DEF HandedOver
  <2> QED
    BY <1>1, <2>1, <2>2 DEF HandedOver
<1>7. ASSUME NEW c, Builds(c) \/ Ends(c)
      PROVE  HandedOver'
  BY <1>2, <1>7 DEF Builds, Ends
<1>8. ASSUME NEW x, NEW r, Turns(x, r)
      PROVE  HandedOver'
  BY <1>2, <1>8 DEF Turns, Turned
<1> QED
  BY <1>3, <1>4, <1>5, <1>6, <1>7, <1>8, Kinds

\* No comment on an open pull request is passed by the watermark without an
\* evaluation that was told to read it (PlanTask's NoCommentSkipped), whatever
\* the polls miss and however often a decision is interrupted and taken again.
THEOREM CommentsHanded == Spec => []NoCommentSkipped
<1> DEFINE Inv == Base /\ LastOpen /\ InOrder /\ Marks /\ HandedOver
<1>1. Init => Inv
  <2> SUFFICES ASSUME Init PROVE Inv
    OBVIOUS
  <2>1. /\ Base /\ DOMAIN runs = {} /\ DOMAIN prs = {} /\ DOMAIN posted = {}
        /\ pass = NoPass /\ worker.watermark = 0
    BY InitBase DEF Init, NewWorker
  <2> QED
    BY <2>1 DEF LastOpen, OpenPRs, InOrder, Marks, Deciding, HandedOver, Noted
<1>2. Inv /\ [Next]_vars => Inv'
  BY StepBase, StepOrder, StepMarks, StepHandedOver
<1>3. Inv => NoCommentSkipped
  BY DEF HandedOver, Noted, NoCommentSkipped
<1> HIDE DEF Inv
<1> QED
  BY <1>1, <1>2, <1>3, PTL DEF Spec

=============================================================================
