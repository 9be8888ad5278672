---------------------- MODULE FindingsIngestionProofs ----------------------
(***************************************************************************)
(* Proofs about FindingsIngestion, for any reports, keys, snippets, memory *)
(* and number of tool calls: there is one record per issue, and every      *)
(* report is counted in one.                                               *)
(***************************************************************************)
EXTENDS FindingsIngestion, FiniteSetTheorems, TLAPS

-----------------------------------------------------------------------------
(* The inductive invariant. *)

\* No two of the clusters S are of the same issue.
Distinct(S) ==
  \A c, d \in S : c # d => /\ Key[c] # Key[d]
                           /\ Snippet[c] = NoSnippet \/ Snippet[c] # Snippet[d]

IngestShape(i) ==
  i = [stage |-> i.stage, todo |-> i.todo, read |-> i.read, map |-> i.map,
       patched |-> i.patched, gone |-> i.gone]

CallShape(x) ==
  x = [stage |-> x.stage, c |-> x.c, read |-> x.read, record |-> x.record]

\* The ingestion knows all there is on record, though it read it long ago:
\* nobody else adds a record.
IngestKnowsAll ==
  ingest # NoIngest =>
    /\ IngestShape(ingest)
    /\ Distinct(DOMAIN ingest.map)
    /\ ingest.patched \subseteq DOMAIN ingest.map
    /\ DOMAIN triaged \subseteq DOMAIN ingest.map

\* The tools change records that are there.
CallsOnRecord ==
  /\ DOMAIN call = Calls
  /\ \A k \in Calls : InProgress(k) => CallShape(call[k]) /\ call[k].c \in DOMAIN triaged

OneRecordEach == Distinct(DOMAIN triaged) /\ IngestKnowsAll /\ CallsOnRecord

-----------------------------------------------------------------------------
(* It is inductive. *)

\* At first there are no records.
LEMMA InitOneRecord == Init => OneRecordEach
BY DEF Init, OneRecordEach, Distinct, IngestKnowsAll, CallsOnRecord, InProgress

\* A finding that matches no record read so far can be added to them.
LEMMA NewIsDistinct ==
  ASSUME NEW f, Exact(f) = {}, Distinct(DOMAIN ingest.map)
  PROVE  Distinct(DOMAIN ingest.map \cup {f})
<1>1. \A c \in DOMAIN ingest.map :
        Key[c] # Key[f] /\ (Snippet[f] = NoSnippet \/ Snippet[c] # Snippet[f])
  BY DEF Exact
<1> QED
  BY <1>1 DEF Distinct

\* Every step keeps it.
LEMMA StepOneRecord ==
  ASSUME OneRecordEach, [Next]_vars
  PROVE  OneRecordEach'
<1> USE DEF configMap
<1>a. Distinct(DOMAIN triaged) /\ IngestKnowsAll /\ CallsOnRecord
  BY DEF OneRecordEach
<1>b. triaged' = triaged => Distinct(DOMAIN triaged)'
  BY <1>a DEF Distinct
<1>c. (ingest' = NoIngest \/ ingest' = ingest) /\ DOMAIN triaged' = DOMAIN triaged
        => IngestKnowsAll'
  BY <1>a DEF IngestKnowsAll, IngestShape, Distinct
<1>d. call' = call /\ DOMAIN triaged \subseteq DOMAIN triaged' => CallsOnRecord'
  BY <1>a DEF CallsOnRecord, InProgress, CallShape
<1>e. UNCHANGED <<triaged, call>> /\ (ingest' = NoIngest \/ ingest' = ingest)
        => OneRecordEach'
  BY <1>b, <1>c, <1>d DEF OneRecordEach
<1>1. ASSUME NEW f \in Reports, Report(f)
      PROVE  OneRecordEach'
  BY <1>1, <1>e DEF Report, PatchMisses, PatchAppends, Creates, CreateConflicts, ReportFails
<1>2. CASE StartIngest
  <2>1. UNCHANGED <<triaged, call>>
        /\ ingest' = [stage |-> "folding", todo |-> inbox, read |-> triaged, map |-> triaged,
                      patched |-> {}, gone |-> {}]
    BY <1>2 DEF StartIngest
  <2>2. IngestKnowsAll'
    BY <2>1, <1>a DEF IngestKnowsAll, IngestShape, Distinct
  <2> QED
    BY <2>1, <2>2, <1>b, <1>d DEF OneRecordEach
<1>3. ASSUME NEW f \in Reports, FoldDuplicate(f)
      PROVE  OneRecordEach'
  <2>1. PICK c \in Canonical(f) :
          ingest' = [ingest EXCEPT !.todo = @ \ {f}, !.gone = @ \cup {f},
                                   !.patched = @ \cup {c}, !.map[c].n = @ + 1]
    BY <1>3 DEF FoldDuplicate
  <2>2. ingest # NoIngest /\ UNCHANGED <<triaged, call>>
    BY <1>3 DEF FoldDuplicate, IsTurn, InStage
  <2>3. c \in DOMAIN ingest.map
    BY DEF Canonical, Exact
  <2>4. /\ IngestShape(ingest')
        /\ DOMAIN ingest'.map = DOMAIN ingest.map
        /\ ingest'.patched = ingest.patched \cup {c}
    BY <2>1, <2>2, <1>a DEF IngestKnowsAll, IngestShape
  <2>5. IngestKnowsAll'
    BY <2>2, <2>3, <2>4, <1>a DEF IngestKnowsAll
  <2> QED
    BY <2>2, <2>5, <1>b, <1>d DEF OneRecordEach
<1>4. ASSUME NEW f \in Reports, FoldNew(f)
      PROVE  OneRecordEach'
  <2>1. PICK link \in Link :
          ingest' = [ingest EXCEPT !.todo = @ \ {f}, !.gone = @ \cup {f},
                                   !.patched = @ \cup {f},
                                   !.map = [d \in DOMAIN @ \cup {f} |->
                                              IF d = f THEN NewRecord(link) ELSE @[d]]]
    BY <1>4 DEF FoldNew
  <2>2. ingest # NoIngest /\ Exact(f) = {} /\ UNCHANGED <<triaged, call>>
    BY <1>4 DEF FoldNew, IsTurn, InStage
  <2>3. /\ IngestShape(ingest')
        /\ DOMAIN ingest'.map = DOMAIN ingest.map \cup {f}
        /\ ingest'.patched = ingest.patched \cup {f}
    BY <2>1, <2>2, <1>a DEF IngestKnowsAll, IngestShape
  <2>4. Distinct(DOMAIN ingest.map \cup {f})
    BY <2>2, <1>a, NewIsDistinct DEF IngestKnowsAll
  <2>5. IngestKnowsAll'
    BY <2>2, <2>3, <2>4, <1>a DEF IngestKnowsAll
  <2> QED
    BY <2>2, <2>5, <1>b, <1>d DEF OneRecordEach
<1>5. CASE LandPatch
  <2>1. ingest # NoIngest /\ call' = call /\ ingest' = [ingest EXCEPT !.stage = "board"]
        /\ DOMAIN triaged' = DOMAIN triaged \cup ingest.patched
    BY <1>5 DEF LandPatch, InStage, Writes
  <2>2. /\ IngestShape(ingest')
        /\ ingest'.map = ingest.map /\ ingest'.patched = ingest.patched
    BY <2>1, <1>a DEF IngestKnowsAll, IngestShape
  <2>3. DOMAIN triaged' \subseteq DOMAIN ingest.map
    BY <2>1, <1>a DEF IngestKnowsAll
  <2>4. Distinct(DOMAIN triaged)' /\ IngestKnowsAll'
    BY <2>1, <2>2, <2>3, <1>a DEF IngestKnowsAll, Distinct
  <2> QED
    BY <2>1, <2>4, <1>d DEF OneRecordEach
<1>6. CASE WriteBoard \/ AbortIngest
  BY <1>6, <1>e DEF WriteBoard, AbortIngest
<1>7. ASSUME NEW k \in Calls, Tool(k)
      PROVE  OneRecordEach'
  <2>1. ingest' = ingest /\ DOMAIN triaged' = DOMAIN triaged
    <3>1. CASE CallWrites(k)
      <4>1. call[k].c \in DOMAIN triaged
        BY <3>1, <1>a DEF CallWrites, CallIn, CallsOnRecord
      <4> QED
        BY <3>1, <4>1 DEF CallWrites, Writes
    <3> QED
      BY <3>1, <1>7 DEF Tool, CallUpdate, CallPromote, CallCreates, CallSkips, CallBoard,
                        CallFails
  <2>2. CallsOnRecord'
    <3>1. ASSUME NEW c \in DOMAIN triaged, NEW s, NEW m, NEW r,
                 call' = [call EXCEPT ![k] = [stage |-> s, c |-> c, read |-> m, record |-> r]]
          PROVE  CallsOnRecord'
      BY <3>1, <2>1, <1>a DEF CallsOnRecord, InProgress, CallShape
    <3>2. ASSUME NEW s, InProgress(k), call' = [call EXCEPT ![k].stage = s]
          PROVE  CallsOnRecord'
      <4> DEFINE x == call[k]
      <4>1. CallShape(x) /\ x.c \in DOMAIN triaged
        BY <3>2, <1>a DEF CallsOnRecord
      <4>2. [x EXCEPT !.stage = s] = [stage |-> s, c |-> x.c, read |-> x.read, record |-> x.record]
        BY <4>1 DEF CallShape
      <4>3. call' = [call EXCEPT ![k] = [x EXCEPT !.stage = s]]
        BY <3>2
      <4>4. call' = [call EXCEPT ![k] = [stage |-> s, c |-> x.c, read |-> x.read,
                                         record |-> x.record]]
        BY <4>2, <4>3
      <4> HIDE DEF x
      <4> QED
        BY <4>1, <4>4, <3>1
    <3>3. call' = [call EXCEPT ![k] = Over] => CallsOnRecord'
      BY <2>1, <1>a DEF CallsOnRecord, InProgress, CallShape
    <3>4. CASE CallUpdate(k)
      BY <3>1, <3>4 DEF CallUpdate
    <3>5. CASE CallPromote(k)
      BY <3>1, <3>5 DEF CallPromote
    <3> QED
      BY <3>2, <3>3, <3>4, <3>5, <1>7
      DEF Tool, CallCreates, CallWrites, CallSkips, CallBoard, CallFails, CallIn
  <2>3. Distinct(DOMAIN triaged)'
    BY <2>1, <1>a DEF Distinct
  <2> QED
    BY <2>1, <2>2, <2>3, <1>c DEF OneRecordEach
<1>8. CASE ManagerCrash
  <2>1. ingest' = NoIngest /\ UNCHANGED triaged
        /\ call' = [k \in Calls |-> IF InProgress(k) THEN Over ELSE call[k]]
    BY <1>8 DEF ManagerCrash
  <2>2. CallsOnRecord'
    BY <2>1, <1>a DEF CallsOnRecord, InProgress
  <2> QED
    BY <2>1, <2>2, <1>b, <1>c DEF OneRecordEach
<1>9. CASE UNCHANGED vars
  BY <1>9, <1>e DEF vars
<1> QED
  BY <1>1, <1>2, <1>3, <1>4, <1>5, <1>6, <1>7, <1>8, <1>9 DEF Next, Fold

-----------------------------------------------------------------------------
(* Types. *)

\* The fields of an ingestion in progress.
IngestTyped(i) ==
  /\ IngestShape(i) /\ i.stage \in {"folding", "board"}
  /\ i.todo \subseteq Reports /\ i.gone \subseteq Reports
  /\ DOMAIN i.map \subseteq Reports /\ i.map \in Records(DOMAIN i.map)
  /\ DOMAIN i.read \subseteq DOMAIN i.map /\ i.read \in Records(DOMAIN i.read)
  /\ i.patched \subseteq DOMAIN i.map

\* An ingestion has these fields and no others.
LEMMA IngestType ==
  ASSUME NEW i
  PROVE  (\E S, T \in SUBSET Reports : S \subseteq T /\ i \in Ingest(S, T)) <=> IngestTyped(i)
<1>1. ASSUME NEW S \in SUBSET Reports, NEW T \in SUBSET Reports, S \subseteq T, i \in Ingest(S, T)
      PROVE  IngestTyped(i)
  <2>1. DOMAIN i.map = T /\ DOMAIN i.read = S
    BY <1>1 DEF Ingest, Records
  <2> QED
    BY <1>1, <2>1 DEF Ingest, IngestTyped, IngestShape
<1>2. ASSUME IngestTyped(i)
      PROVE  \E S, T \in SUBSET Reports : S \subseteq T /\ i \in Ingest(S, T)
  <2>1. i \in Ingest(DOMAIN i.read, DOMAIN i.map)
    BY <1>2 DEF IngestTyped, IngestShape, Ingest
  <2>2. DOMAIN i.read \in SUBSET Reports /\ DOMAIN i.map \in SUBSET Reports
        /\ DOMAIN i.read \subseteq DOMAIN i.map
    BY <1>2 DEF IngestTyped
  <2> QED
    BY <2>1, <2>2
<1> QED
  BY <1>1, <1>2

\* The fields of a tool call in progress.
CallTyped(x) ==
  /\ CallShape(x) /\ x.stage \in {"create", "write", "board"}
  /\ x.read \in Records(DOMAIN x.read) /\ x.c \in DOMAIN x.read /\ x.record \in Record

\* A tool call has these fields and no others.
LEMMA CallType ==
  ASSUME NEW x, NEW D
  PROVE  (\E S \in SUBSET D : x \in Call(S)) <=> CallTyped(x) /\ DOMAIN x.read \subseteq D
<1>1. ASSUME NEW S \in SUBSET D, x \in Call(S)
      PROVE  CallTyped(x) /\ DOMAIN x.read \subseteq D
  <2>1. DOMAIN x.read = S
    BY <1>1 DEF Call, Records
  <2> QED
    BY <1>1, <2>1 DEF Call, CallTyped, CallShape
<1>2. ASSUME CallTyped(x), DOMAIN x.read \subseteq D
      PROVE  \E S \in SUBSET D : x \in Call(S)
  <2>1. x \in Call(DOMAIN x.read)
    BY <1>2 DEF CallTyped, CallShape, Call
  <2> QED
    BY <2>1, <1>2
<1> QED
  BY <1>1, <1>2

\* The types of the ingestion and of the calls, by their fields.
ActorsTyped ==
  /\ ingest # NoIngest => IngestTyped(ingest)
  /\ \A k \in Calls : InProgress(k) => CallTyped(call[k]) /\ DOMAIN call[k].read \subseteq DOMAIN triaged

\* The rest of the types.
StoreTyped ==
  /\ exists \in BOOLEAN
  /\ sending \in [Reports -> {"idle", "creating", "sent", "failed"}]
  /\ inbox \subseteq Reports
  /\ DOMAIN triaged \subseteq Reports /\ triaged \in Records(DOMAIN triaged)
  /\ DOMAIN board \subseteq Reports /\ board \in Records(DOMAIN board)
  /\ tasks \subseteq {"auto", "tool"} \X Reports
  /\ memory \subseteq Reports
  /\ raced \in BOOLEAN

\* The type invariant is the two of them.
LEMMA TypeParts == TypeOK <=> StoreTyped /\ ActorsTyped
BY IngestType, CallType DEF TypeOK, StoreTyped, ActorsTyped, InProgress

\* Writing records into the ConfigMap.
LEMMA WritesType ==
  ASSUME StoreTyped, NEW new, NEW old, NEW S \in SUBSET Reports,
         \A c \in S : new[c] \in Record, Writes(old, new, S)
  PROVE  /\ DOMAIN triaged' = DOMAIN triaged \cup S
         /\ DOMAIN triaged' \subseteq Reports /\ triaged' \in Records(DOMAIN triaged')
         /\ raced' \in BOOLEAN
<1>1. triaged' = [c \in DOMAIN triaged \cup S |-> IF c \in S THEN new[c] ELSE triaged[c]]
  BY DEF Writes
<1>2. DOMAIN triaged' = DOMAIN triaged \cup S
  BY <1>1
<1>3. \A c \in DOMAIN triaged : triaged[c] \in Record
  BY DEF StoreTyped, Records
<1>4. triaged' \in Records(DOMAIN triaged')
  BY <1>1, <1>2, <1>3 DEF Records
<1>5. raced' \in BOOLEAN
  BY DEF Writes, StoreTyped
<1> QED
  BY <1>2, <1>4, <1>5 DEF StoreTyped

\* What folding the finding f does: the record of c counts one more.
FoldsTo(f, c, m) ==
  /\ ingest' = [stage |-> ingest.stage, todo |-> ingest.todo \ {f}, read |-> ingest.read,
                map |-> m, patched |-> ingest.patched \cup {c}, gone |-> ingest.gone \cup {f}]
  /\ c \in Reports /\ DOMAIN m = DOMAIN ingest.map \cup {c} /\ m \in Records(DOMAIN m)
  /\ \A d \in DOMAIN ingest.map \ {c} : m[d] = ingest.map[d]
  /\ m[c].n = IF c \in DOMAIN ingest.map THEN ingest.map[c].n + 1 ELSE 1

\* Folding a duplicate.
LEMMA DuplicateFolds ==
  ASSUME ActorsTyped, NEW f \in Reports, FoldDuplicate(f)
  PROVE  \E c, m : FoldsTo(f, c, m)
<1>1. PICK c \in Canonical(f) :
        ingest' = [ingest EXCEPT !.todo = @ \ {f}, !.gone = @ \cup {f},
                                 !.patched = @ \cup {c}, !.map[c].n = @ + 1]
  BY DEF FoldDuplicate
<1>2. IngestTyped(ingest) /\ c \in DOMAIN ingest.map
  BY DEF FoldDuplicate, IsTurn, InStage, ActorsTyped, Canonical, Exact
<1> DEFINE r == [ingest.map[c] EXCEPT !.n = ingest.map[c].n + 1]
           m == [ingest.map EXCEPT ![c] = r]
<1>3. ingest.map[c] \in Record
  BY <1>2 DEF IngestTyped, Records
<1>4. r \in Record /\ r.n = ingest.map[c].n + 1
  BY <1>3 DEF Record
<1>a. /\ IngestShape(ingest')
      /\ ingest'.stage = ingest.stage /\ ingest'.read = ingest.read
      /\ ingest'.todo = ingest.todo \ {f} /\ ingest'.gone = ingest.gone \cup {f}
      /\ ingest'.patched = ingest.patched \cup {c}
  BY <1>1, <1>2 DEF IngestTyped, IngestShape
<1>b. ingest'.map = [ingest.map EXCEPT ![c].n = @ + 1]
  BY <1>1, <1>2 DEF IngestTyped, IngestShape
<1>c. ingest'.map = m
  BY <1>b, <1>2
<1>5. ingest' = [stage |-> ingest.stage, todo |-> ingest.todo \ {f}, read |-> ingest.read,
                 map |-> m, patched |-> ingest.patched \cup {c}, gone |-> ingest.gone \cup {f}]
  BY <1>a, <1>c DEF IngestShape
<1> HIDE DEF r
<1>6. /\ DOMAIN m = DOMAIN ingest.map \cup {c} /\ m \in Records(DOMAIN m)
      /\ \A d \in DOMAIN ingest.map \ {c} : m[d] = ingest.map[d]
      /\ m[c] = r
  BY <1>2, <1>4 DEF IngestTyped, Records
<1> HIDE DEF m
<1>7. FoldsTo(f, c, m)
  BY <1>2, <1>4, <1>5, <1>6 DEF FoldsTo, IngestTyped
<1> QED
  BY <1>7

\* Folding a finding that is new.
LEMMA NewFolds ==
  ASSUME ActorsTyped, NEW f \in Reports, FoldNew(f)
  PROVE  \E c, m : FoldsTo(f, c, m)
<1>1. PICK link \in Link :
        ingest' = [ingest EXCEPT !.todo = @ \ {f}, !.gone = @ \cup {f},
                                 !.patched = @ \cup {f},
                                 !.map = [d \in DOMAIN @ \cup {f} |->
                                            IF d = f THEN NewRecord(link) ELSE @[d]]]
  BY DEF FoldNew
<1>2. IngestTyped(ingest) /\ Exact(f) = {}
  BY DEF FoldNew, IsTurn, InStage, ActorsTyped
<1>3. f \notin DOMAIN ingest.map
  BY <1>2 DEF Exact
<1> DEFINE m == [d \in DOMAIN ingest.map \cup {f} |->
                   IF d = f THEN NewRecord(link) ELSE ingest.map[d]]
<1>4. NewRecord(link) \in Record /\ NewRecord(link).n = 1
  BY DEF NewRecord, Record
<1>a. /\ IngestShape(ingest')
      /\ ingest'.stage = ingest.stage /\ ingest'.read = ingest.read
      /\ ingest'.todo = ingest.todo \ {f} /\ ingest'.gone = ingest.gone \cup {f}
      /\ ingest'.patched = ingest.patched \cup {f}
  BY <1>1, <1>2 DEF IngestTyped, IngestShape
<1>b. ingest'.map = m
  BY <1>1, <1>2 DEF IngestTyped, IngestShape
<1>5. ingest' = [stage |-> ingest.stage, todo |-> ingest.todo \ {f}, read |-> ingest.read,
                 map |-> m, patched |-> ingest.patched \cup {f}, gone |-> ingest.gone \cup {f}]
  BY <1>a, <1>b DEF IngestShape
<1>6. /\ DOMAIN m = DOMAIN ingest.map \cup {f} /\ m \in Records(DOMAIN m)
      /\ \A d \in DOMAIN ingest.map \ {f} : m[d] = ingest.map[d]
      /\ m[f] = NewRecord(link)
  BY <1>2, <1>4 DEF IngestTyped, Records
<1> HIDE DEF m
<1>7. FoldsTo(f, f, m)
  BY <1>3, <1>4, <1>5, <1>6 DEF FoldsTo
<1> QED
  BY <1>7

\* Every step keeps the types.
LEMMA StepTypes ==
  ASSUME StoreTyped, ActorsTyped, CallsOnRecord, [Next]_vars
  PROVE  StoreTyped' /\ ActorsTyped'
<1> USE DEF configMap
<1>b. (ingest' = NoIngest \/ ingest' = ingest) /\ call' = call
        /\ DOMAIN triaged \subseteq DOMAIN triaged'
        => ActorsTyped'
  BY DEF ActorsTyped, InProgress, IngestTyped, IngestShape, CallTyped, CallShape
<1>c. UNCHANGED <<exists, sending, inbox, triaged, board, tasks, memory, raced>> => StoreTyped'
  BY DEF StoreTyped
<1>1. ASSUME NEW f \in Reports, Report(f)
      PROVE  StoreTyped' /\ ActorsTyped'
  <2>1. UNCHANGED <<triaged, board, tasks, memory, ingest, call, raced>>
    BY <1>1 DEF Report, PatchMisses, PatchAppends, Creates, CreateConflicts, ReportFails
  <2>2. sending' \in [Reports -> {"idle", "creating", "sent", "failed"}]
    BY <1>1 DEF Report, PatchMisses, PatchAppends, Creates, CreateConflicts, ReportFails, Sends, StoreTyped
  <2>3. exists' \in BOOLEAN /\ inbox' \subseteq Reports
    BY <1>1 DEF Report, PatchMisses, PatchAppends, Creates, CreateConflicts, ReportFails, StoreTyped
  <2> QED
    BY <2>1, <2>2, <2>3, <1>b DEF StoreTyped
<1>2. CASE StartIngest
  <2>1. ingest' = [stage |-> "folding", todo |-> inbox, read |-> triaged, map |-> triaged,
                   patched |-> {}, gone |-> {}]
        /\ UNCHANGED <<exists, sending, inbox, triaged, board, tasks, memory, raced, call>>
    BY <1>2 DEF StartIngest
  <2>2. IngestTyped(ingest')
    BY <2>1 DEF IngestTyped, IngestShape, StoreTyped
  <2>3. ActorsTyped'
    BY <2>1, <2>2 DEF ActorsTyped, InProgress, IngestTyped, IngestShape, CallTyped, CallShape
  <2> QED
    BY <2>1, <2>3, <1>c
<1>3. ASSUME NEW f \in Reports, Fold(f)
      PROVE  StoreTyped' /\ ActorsTyped'
  <2>1. PICK c, m : FoldsTo(f, c, m)
    BY <1>3, DuplicateFolds, NewFolds DEF Fold
  <2>2. ingest # NoIngest /\ UNCHANGED <<exists, sending, inbox, triaged, board, raced, call>>
    BY <1>3 DEF Fold, FoldDuplicate, FoldNew, IsTurn, InStage
  <2>3. IngestTyped(ingest)
    BY <2>2 DEF ActorsTyped
  <2>4. /\ ingest'.stage = ingest.stage /\ ingest'.todo = ingest.todo \ {f}
        /\ ingest'.read = ingest.read /\ ingest'.map = m
        /\ ingest'.patched = ingest.patched \cup {c} /\ ingest'.gone = ingest.gone \cup {f}
        /\ IngestShape(ingest')
    BY <2>1 DEF FoldsTo, IngestShape
  <2>5. /\ c \in Reports /\ DOMAIN m = DOMAIN ingest.map \cup {c} /\ m \in Records(DOMAIN m)
    BY <2>1 DEF FoldsTo
  <2>6. IngestTyped(ingest')
    BY <2>3, <2>4, <2>5 DEF IngestTyped
  <2>7. ActorsTyped'
    BY <2>2, <2>6 DEF ActorsTyped, InProgress, IngestTyped, IngestShape, CallTyped, CallShape
  <2>8. tasks' \subseteq {"auto", "tool"} \X Reports
    <3>1. CASE FoldDuplicate(f)
      BY <3>1 DEF FoldDuplicate, StoreTyped
    <3>2. CASE FoldNew(f)
      <4>1. PICK link \in Link : AutoTask(f, link)
        BY <3>2 DEF FoldNew
      <4>2. tasks' = tasks \/ tasks' = tasks \cup {<<"auto", f>>}
        BY <4>1 DEF AutoTask
      <4> QED
        BY <4>2 DEF StoreTyped
    <3> QED
      BY <1>3, <3>1, <3>2 DEF Fold
  <2>9. memory' \subseteq Reports
    BY <1>3 DEF Fold, FoldDuplicate, FoldNew, StoreTyped
  <2> QED
    BY <2>2, <2>7, <2>8, <2>9 DEF StoreTyped
<1>6. CASE LandPatch
  <2>1. ingest # NoIngest /\ IngestTyped(ingest)
    BY <1>6 DEF LandPatch, InStage, ActorsTyped
  <2>2. /\ Writes(ingest.read, ingest.map, ingest.patched) /\ inbox' = Remaining
        /\ ingest' = [ingest EXCEPT !.stage = "board"]
        /\ UNCHANGED <<exists, sending, board, tasks, memory, call>>
    BY <1>6 DEF LandPatch
  <2>3. ingest.patched \in SUBSET Reports /\ \A c \in ingest.patched : ingest.map[c] \in Record
    BY <2>1 DEF IngestTyped, Records
  <2>4. /\ DOMAIN triaged' = DOMAIN triaged \cup ingest.patched
        /\ DOMAIN triaged' \subseteq Reports /\ triaged' \in Records(DOMAIN triaged')
        /\ raced' \in BOOLEAN
    BY <2>2, <2>3, WritesType
  <2>5. StoreTyped'
    BY <2>2, <2>4 DEF StoreTyped, Remaining
  <2>6. ingest' = [stage |-> "board", todo |-> ingest.todo, read |-> ingest.read,
                   map |-> ingest.map, patched |-> ingest.patched, gone |-> ingest.gone]
    BY <2>1, <2>2 DEF IngestTyped, IngestShape
  <2>7. IngestTyped(ingest')
    BY <2>1, <2>6 DEF IngestTyped, IngestShape
  <2>8. ActorsTyped'
    BY <2>2, <2>4, <2>7 DEF ActorsTyped, InProgress, IngestTyped, IngestShape, CallTyped, CallShape
  <2> QED
    BY <2>5, <2>8
<1>7. CASE WriteBoard
  <2>1. /\ ingest # NoIngest /\ IngestTyped(ingest) /\ ingest' = NoIngest /\ board' = ingest.map
        /\ UNCHANGED <<exists, sending, inbox, triaged, tasks, memory, call, raced>>
    BY <1>7 DEF WriteBoard, InStage, ActorsTyped
  <2> QED
    BY <2>1, <1>b DEF StoreTyped, IngestTyped
<1>8. CASE AbortIngest
  BY <1>8, <1>b, <1>c DEF AbortIngest
<1>9. ASSUME NEW k \in Calls, NEW x, call' = [call EXCEPT ![k] = x],
             x \in {NoCall, Over} \/ (CallTyped(x) /\ DOMAIN x.read \subseteq DOMAIN triaged),
             DOMAIN triaged \subseteq DOMAIN triaged', ingest' = ingest
      PROVE  ActorsTyped'
  <2>1. \A j \in Calls : call'[j] = IF j = k THEN x ELSE call[j]
    BY <1>9 DEF CallsOnRecord
  <2>2. ASSUME NEW j \in Calls, InProgress(j)'
        PROVE  CallTyped(call'[j]) /\ DOMAIN call'[j].read \subseteq DOMAIN triaged'
    <3>1. CASE j = k
      BY <2>1, <2>2, <3>1, <1>9 DEF InProgress
    <3>2. CASE j # k
      <4>1. call'[j] = call[j] /\ InProgress(j)
        BY <2>1, <2>2, <3>2 DEF InProgress
      <4>2. CallTyped(call[j]) /\ DOMAIN call[j].read \subseteq DOMAIN triaged
        BY <4>1 DEF ActorsTyped
      <4> QED
        BY <4>1, <4>2, <1>9
    <3> QED
      BY <3>1, <3>2
  <2>3. (ingest # NoIngest => IngestTyped(ingest))'
    BY <1>9 DEF ActorsTyped, IngestTyped, IngestShape
  <2> QED
    BY <2>2, <2>3 DEF ActorsTyped, CallTyped, CallShape
<1>10. ASSUME NEW k \in Calls, InProgress(k), NEW s \in {"create", "write", "board"}
       PROVE  CallTyped([call[k] EXCEPT !.stage = s])
              /\ [call[k] EXCEPT !.stage = s].read = call[k].read
  <2>1. CallTyped(call[k])
    BY <1>10 DEF ActorsTyped
  <2>2. [call[k] EXCEPT !.stage = s]
          = [stage |-> s, c |-> call[k].c, read |-> call[k].read, record |-> call[k].record]
    BY <2>1 DEF CallTyped, CallShape
  <2> QED
    BY <2>1, <2>2, <1>10 DEF CallTyped, CallShape
<1>11. ASSUME NEW k \in Calls, Tool(k)
       PROVE  StoreTyped' /\ ActorsTyped'
  <2>1. \A c \in DOMAIN triaged : triaged[c] \in Record
    BY DEF StoreTyped, Records
  <2>2. ASSUME NEW c \in DOMAIN triaged, NEW r \in Record, NEW s \in {"create", "write", "board"}
        PROVE  LET x == [stage |-> s, c |-> c, read |-> triaged, record |-> r] IN
               CallTyped(x) /\ DOMAIN x.read \subseteq DOMAIN triaged
    BY DEF StoreTyped, CallTyped, CallShape
  <2>3. CASE CallUpdate(k)
    <3>1. PICK c \in DOMAIN triaged, shut \in BOOLEAN :
            call' = [call EXCEPT ![k] = [stage |-> "write", c |-> c, read |-> triaged,
                                         record |-> [triaged[c] EXCEPT !.closed = shut]]]
      BY <2>3 DEF CallUpdate
    <3>2. [triaged[c] EXCEPT !.closed = shut] \in Record
      BY <2>1 DEF Record
    <3>3. UNCHANGED <<exists, sending, inbox, triaged, board, tasks, memory, ingest, raced>>
      BY <2>3 DEF CallUpdate
    <3> DEFINE x == [stage |-> "write", c |-> c, read |-> triaged,
                     record |-> [triaged[c] EXCEPT !.closed = shut]]
    <3>4. CallTyped(x) /\ DOMAIN x.read \subseteq DOMAIN triaged
      BY <2>2, <3>2
    <3> HIDE DEF x
    <3>5. ActorsTyped'
      BY <3>1, <3>3, <3>4, <1>9 DEF x
    <3> QED
      BY <3>3, <3>5, <1>c
  <2>4. CASE CallPromote(k)
    <3>1. PICK c \in DOMAIN triaged :
            call' = [call EXCEPT ![k] =
                       [stage |-> "create", c |-> c, read |-> triaged,
                        record |-> [triaged[c] EXCEPT !.closed = FALSE, !.task = "tool"]]]
      BY <2>4 DEF CallPromote
    <3>2. [triaged[c] EXCEPT !.closed = FALSE, !.task = "tool"] \in Record
      BY <2>1 DEF Record, Link
    <3>3. UNCHANGED <<exists, sending, inbox, triaged, board, tasks, memory, ingest, raced>>
      BY <2>4 DEF CallPromote
    <3> DEFINE x == [stage |-> "create", c |-> c, read |-> triaged,
                     record |-> [triaged[c] EXCEPT !.closed = FALSE, !.task = "tool"]]
    <3>4. CallTyped(x) /\ DOMAIN x.read \subseteq DOMAIN triaged
      BY <2>2, <3>2
    <3> HIDE DEF x
    <3>5. ActorsTyped'
      BY <3>1, <3>3, <3>4, <1>9 DEF x
    <3> QED
      BY <3>3, <3>5, <1>c
  <2>5. ASSUME InProgress(k), NEW s \in {"create", "write", "board"},
               call' = [call EXCEPT ![k].stage = s],
               DOMAIN triaged \subseteq DOMAIN triaged', ingest' = ingest
        PROVE  ActorsTyped'
    <3> DEFINE x == [call[k] EXCEPT !.stage = s]
    <3>1. call' = [call EXCEPT ![k] = x]
      BY <2>5
    <3>2. CallTyped(x) /\ x.read = call[k].read
      BY <2>5, <1>10
    <3>3. DOMAIN call[k].read \subseteq DOMAIN triaged
      BY <2>5 DEF ActorsTyped
    <3> HIDE DEF x
    <3> QED
      BY <3>1, <3>2, <3>3, <2>5, <1>9
  <2>6. call' = [call EXCEPT ![k] = Over] /\ DOMAIN triaged \subseteq DOMAIN triaged'
          /\ ingest' = ingest => ActorsTyped'
    BY <1>9
  <2>7. CASE CallCreates(k)
    <3>1. InProgress(k) /\ call[k].c \in Reports
      BY <2>7 DEF CallCreates, CallIn, ActorsTyped, CallTyped, StoreTyped
    <3>2. tasks' \subseteq {"auto", "tool"} \X Reports
      BY <2>7, <3>1 DEF CallCreates, StoreTyped
    <3>3. UNCHANGED <<exists, sending, inbox, triaged, board, memory, ingest, raced>>
      BY <2>7 DEF CallCreates
    <3>4. ActorsTyped'
      BY <2>5, <2>6, <2>7, <3>1, <3>3 DEF CallCreates
    <3> QED
      BY <3>2, <3>3, <3>4 DEF StoreTyped
  <2>8. CASE CallWrites(k)
    <3> DEFINE c == call[k].c
               new == [d \in {c} |-> call[k].record]
    <3>1. InProgress(k) /\ CallTyped(call[k]) /\ c \in Reports
      BY <2>8 DEF CallWrites, CallIn, ActorsTyped, CallTyped, StoreTyped
    <3>2. /\ Writes(call[k].read, new, {c}) /\ call' = [call EXCEPT ![k].stage = "board"]
          /\ UNCHANGED <<exists, inbox, sending, board, tasks, memory, ingest>>
      BY <2>8 DEF CallWrites
    <3>3. {c} \in SUBSET Reports /\ \A d \in {c} : new[d] \in Record
      BY <3>1 DEF CallTyped
    <3> HIDE DEF new
    <3>4. /\ DOMAIN triaged' = DOMAIN triaged \cup {c}
          /\ DOMAIN triaged' \subseteq Reports /\ triaged' \in Records(DOMAIN triaged')
          /\ raced' \in BOOLEAN
      BY <3>1, <3>2, <3>3, WritesType
    <3>5. ActorsTyped'
      BY <3>1, <3>2, <3>4, <2>5
    <3> QED
      BY <3>2, <3>4, <3>5 DEF StoreTyped
  <2>9. CASE CallSkips(k)
    BY <2>5, <2>9, <1>c DEF CallSkips, CallIn
  <2>10. CASE CallBoard(k)
    <3>1. InProgress(k) /\ CallTyped(call[k]) /\ DOMAIN call[k].read \subseteq Reports
      BY <2>10 DEF CallBoard, CallIn, ActorsTyped, StoreTyped
    <3>2. /\ board' = [call[k].read EXCEPT ![call[k].c] = call[k].record]
          /\ call' = [call EXCEPT ![k] = Over]
          /\ UNCHANGED <<exists, sending, inbox, triaged, tasks, memory, ingest, raced>>
      BY <2>10 DEF CallBoard
    <3>3. DOMAIN board' \subseteq Reports /\ board' \in Records(DOMAIN board')
      BY <3>1, <3>2 DEF CallTyped, Records
    <3>4. ActorsTyped'
      BY <3>2, <2>6
    <3> QED
      BY <3>2, <3>3, <3>4 DEF StoreTyped
  <2>11. CASE CallFails(k)
    BY <2>6, <2>11, <1>c DEF CallFails
  <2> QED
    BY <2>3, <2>4, <2>7, <2>8, <2>9, <2>10, <2>11, <1>11 DEF Tool
<1>12. CASE ManagerCrash
  <2>1. /\ ingest' = NoIngest /\ call' = [k \in Calls |-> IF InProgress(k) THEN Over ELSE call[k]]
        /\ UNCHANGED <<exists, sending, inbox, triaged, board, tasks, memory, raced>>
    BY <1>12 DEF ManagerCrash
  <2>2. \A k \in Calls : ~InProgress(k)'
    BY <2>1 DEF InProgress
  <2>3. ActorsTyped'
    BY <2>1, <2>2 DEF ActorsTyped
  <2> QED
    BY <2>1, <2>3, <1>c
<1>13. CASE UNCHANGED vars
  BY <1>13, <1>b, <1>c DEF vars
<1> QED
  BY <1>1, <1>2, <1>3, <1>6, <1>7, <1>8, <1>11, <1>12, <1>13 DEF Next

\* At first there is nothing.
LEMMA InitTypes == Init => StoreTyped /\ ActorsTyped
BY DEF Init, StoreTyped, ActorsTyped, Records, InProgress

-----------------------------------------------------------------------------
(* Counting. *)

\* What the records of the clusters S count.
Pairs(records, S) == UNION {{c} \X (1 .. records[c].n) : c \in S}

\* What a pair of the tally is.
LEMMA PairIn ==
  ASSUME NEW m, NEW S, NEW x
  PROVE  x \in Pairs(m, S) <=> \E c \in S, i \in Int : i \in 1 .. m[c].n /\ x = <<c, i>>
BY DEF Pairs

\* Records that count the same have the same pairs.
LEMMA SamePairs ==
  ASSUME NEW m1, NEW m2, NEW S, \A c \in S : m1[c].n = m2[c].n
  PROVE  Pairs(m1, S) = Pairs(m2, S)
<1>1. \A x : x \in Pairs(m1, S) <=> x \in Pairs(m2, S)
  BY PairIn
<1> QED
  BY <1>1

\* Different clusters have different pairs.
LEMMA PairsSplit ==
  ASSUME NEW m, NEW S, NEW T, S \cap T = {}
  PROVE  /\ Pairs(m, S \cup T) = Pairs(m, S) \cup Pairs(m, T)
         /\ Pairs(m, S) \cap Pairs(m, T) = {}
<1>1. \A x : x \in Pairs(m, S \cup T) <=> x \in Pairs(m, S) \/ x \in Pairs(m, T)
  BY PairIn
<1>2. ASSUME NEW x \in Pairs(m, S), x \in Pairs(m, T)
      PROVE  FALSE
  <2>1. PICK c \in S, i \in Int : i \in 1 .. m[c].n /\ x = <<c, i>>
    BY <1>2, PairIn
  <2>2. PICK d \in T, j \in Int : j \in 1 .. m[d].n /\ x = <<d, j>>
    BY <1>2, PairIn
  <2> QED
    BY <2>1, <2>2
<1> QED
  BY <1>1, <1>2

\* So their numbers add up.
LEMMA PairsAdd ==
  ASSUME NEW m, NEW S, NEW T, S \cap T = {}, IsFiniteSet(Pairs(m, S \cup T))
  PROVE  /\ IsFiniteSet(Pairs(m, S)) /\ IsFiniteSet(Pairs(m, T))
         /\ Cardinality(Pairs(m, S)) \in Nat /\ Cardinality(Pairs(m, T)) \in Nat
         /\ Cardinality(Pairs(m, S \cup T))
              = Cardinality(Pairs(m, S)) + Cardinality(Pairs(m, T))
<1> DEFINE A == Pairs(m, S)
           B == Pairs(m, T)
           C == Pairs(m, S \cup T)
<1>1. C = A \cup B /\ A \cap B = {}
  BY PairsSplit
<1>2. A \in SUBSET C /\ B \in SUBSET C /\ IsFiniteSet(C)
  BY <1>1
<1> HIDE DEF A, B, C
<1>3. IsFiniteSet(A) /\ IsFiniteSet(B)
  BY <1>2, FS_Subset
<1>4. Cardinality(A) \in Nat /\ Cardinality(B) \in Nat
  BY <1>3, FS_CardinalityType
<1>5. Cardinality(A \cup B) = Cardinality(A) + Cardinality(B) - Cardinality(A \cap B)
  BY <1>3, FS_Union
<1>6. Cardinality(A \cap B) = 0
  BY <1>1, FS_EmptySet
<1>7. Cardinality(C) = Cardinality(A) + Cardinality(B)
  BY <1>1, <1>4, <1>5, <1>6
<1> QED
  BY <1>3, <1>4, <1>7 DEF A, B, C

\* One more report of a cluster is one more pair.
LEMMA TallyGrows ==
  ASSUME NEW m, NEW m2, NEW c, m \in Records(DOMAIN m), m2 \in Records(DOMAIN m2),
         DOMAIN m2 = DOMAIN m \cup {c},
         \A d \in DOMAIN m \ {c} : m2[d] = m[d],
         m2[c].n = IF c \in DOMAIN m THEN m[c].n + 1 ELSE 1,
         IsFiniteSet(Tally(m))
  PROVE  /\ IsFiniteSet(Tally(m2))
         /\ Cardinality(Tally(m2)) = Cardinality(Tally(m)) + 1
<1> DEFINE x == <<c, m2[c].n>>
<1>1. Tally(m) = Pairs(m, DOMAIN m) /\ Tally(m2) = Pairs(m2, DOMAIN m2)
  BY DEF Tally, Pairs
<1>2. \A d \in DOMAIN m : m[d].n \in Nat
  BY DEF Records, Record
<1>3. m2[c].n \in Nat
  BY DEF Records, Record
<1>4. x \notin Tally(m)
  <2>1. SUFFICES ASSUME x \in Tally(m)
                 PROVE  FALSE
    OBVIOUS
  <2>2. PICK d \in DOMAIN m, i \in Int : i \in 1 .. m[d].n /\ x = <<d, i>>
    BY <2>1, <1>1, PairIn
  <2>3. d = c /\ i = m2[c].n
    BY <2>2
  <2> QED
    BY <2>2, <2>3, <1>2
<1>5. \A y : y \in Tally(m2) <=> y \in Tally(m) \/ y = x
  <2>1. ASSUME NEW y \in Tally(m2)
        PROVE  y \in Tally(m) \/ y = x
    <3>1. PICK d \in DOMAIN m2, i \in Int : i \in 1 .. m2[d].n /\ y = <<d, i>>
      BY <2>1, <1>1, PairIn
    <3>2. CASE d # c
      <4>1. d \in DOMAIN m /\ i \in 1 .. m[d].n
        BY <3>1, <3>2
      <4> QED
        BY <4>1, <3>1, <1>1, PairIn
    <3>3. CASE d = c /\ i = m2[c].n
      BY <3>1, <3>3
    <3>4. CASE d = c /\ i # m2[c].n
      <4>1. i \in 1 .. m2[c].n /\ i # m2[c].n
        BY <3>1, <3>4
      <4>2. c \in DOMAIN m /\ i \in 1 .. m[c].n
        BY <4>1, <1>2, <1>3
      <4> QED
        BY <4>2, <3>1, <3>4, <1>1, PairIn
    <3> QED
      BY <3>2, <3>3, <3>4
  <2>2. ASSUME NEW y \in Tally(m)
        PROVE  y \in Tally(m2)
    <3>1. PICK d \in DOMAIN m, i \in Int : i \in 1 .. m[d].n /\ y = <<d, i>>
      BY <2>2, <1>1, PairIn
    <3>2. d \in DOMAIN m2
      BY <3>1
    <3>3. CASE d # c
      <4>1. i \in 1 .. m2[d].n
        BY <3>1, <3>3
      <4> QED
        BY <4>1, <3>1, <3>2, <1>1, PairIn
    <3>4. CASE d = c
      <4>1. i \in 1 .. m2[c].n
        BY <3>1, <3>4, <1>2
      <4> QED
        BY <4>1, <3>1, <3>2, <3>4, <1>1, PairIn
    <3> QED
      BY <3>3, <3>4
  <2>3. x \in Tally(m2)
    <3>1. m2[c].n \in 1 .. m2[c].n /\ c \in DOMAIN m2
      BY <1>2
    <3> QED
      BY <3>1, <1>1, PairIn
  <2> QED
    BY <2>1, <2>2, <2>3
<1> HIDE DEF x
<1>6. Tally(m2) = Tally(m) \cup {x}
  BY <1>5
<1> QED
  BY <1>4, <1>6, FS_AddElement

-----------------------------------------------------------------------------
(* Every report is counted. *)

\* What is in the inbox was sent, and finitely much was sent and counted.
InboxSent == inbox \subseteq Sent /\ IsFiniteSet(Sent) /\ IsFiniteSet(Tally(triaged))

\* An ingestion has counted the findings it will take out of the inbox, each
\* once, on top of the counts it has read; what it does not write is as read.
FoldedOnce ==
  InStage("folding") =>
    /\ DOMAIN ingest.read = DOMAIN triaged
    /\ ingest.todo \cup ingest.gone \subseteq inbox /\ ingest.todo \cap ingest.gone = {}
    /\ \A c \in DOMAIN ingest.map \ ingest.patched :
         c \in DOMAIN ingest.read /\ ingest.map[c] = ingest.read[c]
    /\ IsFiniteSet(Tally(ingest.map)) /\ IsFiniteSet(Tally(ingest.read))
    /\ Cardinality(Tally(ingest.map))
         = Cardinality(Tally(ingest.read)) + Cardinality(ingest.gone)

\* A tool leaves the count of its record as it has read it.
CallsKeepCounts ==
  \A k \in Calls : InProgress(k) => call[k].record.n = call[k].read[call[k].c].n

EachCounted == InboxSent /\ FoldedOnce /\ CallsKeepCounts /\ EveryReportCounted

\* At first nothing is sent and nothing counted.
LEMMA InitCounted == Init => EachCounted
<1> SUFFICES ASSUME Init
             PROVE  EachCounted
  OBVIOUS
<1>1. inbox = {} /\ Sent = {} /\ DOMAIN triaged = {} /\ ingest = NoIngest
  BY DEF Init, Sent
<1>2. Tally(triaged) = {}
  BY <1>1 DEF Tally
<1>3. InboxSent /\ EveryReportCounted
  BY <1>1, <1>2, FS_EmptySet DEF InboxSent, EveryReportCounted, Counted
<1>4. FoldedOnce
  BY <1>1 DEF FoldedOnce, InStage
<1>5. CallsKeepCounts
  BY DEF Init, CallsKeepCounts, InProgress
<1> QED
  BY <1>3, <1>4, <1>5 DEF EachCounted

\* Reporting puts a finding into the inbox as it is sent.
LEMMA ReportCounted ==
  ASSUME StoreTyped, EachCounted, NEW f \in Reports, Report(f)
  PROVE  InboxSent' /\ EveryReportCounted' /\ inbox \subseteq inbox'
<1> USE DEF configMap
<1>1. UNCHANGED <<triaged, raced>>
  BY DEF Report, PatchMisses, PatchAppends, Creates, CreateConflicts, ReportFails
<1>2. inbox \subseteq Sent /\ IsFiniteSet(Sent) /\ IsFiniteSet(Tally(triaged))
      /\ EveryReportCounted
  BY DEF EachCounted, InboxSent
<1>3. CASE PatchMisses(f) \/ CreateConflicts(f) \/ ReportFails(f)
  <2>1. inbox' = inbox /\ Sent' = Sent
    BY <1>3 DEF PatchMisses, CreateConflicts, ReportFails, Sends, Sent, StoreTyped
  <2> QED
    BY <2>1, <1>1, <1>2 DEF InboxSent, EveryReportCounted, Counted, Tally
<1>4. CASE PatchAppends(f) \/ Creates(f)
  <2>1. inbox' = inbox \cup {f} /\ Sent' = Sent \cup {f} /\ f \notin Sent
    BY <1>4 DEF PatchAppends, Creates, Sends, Sent, StoreTyped
  <2>2. IsFiniteSet(inbox) /\ f \notin inbox
    BY <2>1, <1>2, FS_Subset
  <2>3. /\ Cardinality(inbox') = Cardinality(inbox) + 1
        /\ Cardinality(Sent') = Cardinality(Sent) + 1 /\ IsFiniteSet(Sent')
    BY <2>1, <2>2, <1>2, FS_AddElement
  <2>4. Cardinality(inbox) \in Nat /\ Cardinality(Sent) \in Nat
        /\ Cardinality(Tally(triaged)) \in Nat
    BY <2>2, <1>2, FS_CardinalityType
  <2>5. Tally(triaged)' = Tally(triaged)
    BY <1>1 DEF Tally
  <2>6. EveryReportCounted'
    BY <2>3, <2>4, <2>5, <1>1, <1>2 DEF EveryReportCounted, Counted
  <2> QED
    BY <2>1, <2>3, <2>5, <2>6, <1>2 DEF InboxSent
<1> QED
  BY <1>3, <1>4 DEF Report

\* Folding counts the finding it takes.
LEMMA FoldCounted ==
  ASSUME ActorsTyped, EachCounted, NEW f \in Reports, Fold(f)
  PROVE  FoldedOnce'
<1> USE DEF configMap
<1>1. PICK c, m : FoldsTo(f, c, m)
  BY DuplicateFolds, NewFolds DEF Fold
<1>2. InStage("folding") /\ f \in ingest.todo /\ UNCHANGED <<inbox, triaged>>
  BY DEF Fold, FoldDuplicate, FoldNew, IsTurn
<1>3. IngestTyped(ingest) /\ FoldedOnce
  BY <1>2 DEF InStage, ActorsTyped, EachCounted
<1>4. /\ ingest'.todo = ingest.todo \ {f} /\ ingest'.read = ingest.read /\ ingest'.map = m
      /\ ingest'.patched = ingest.patched \cup {c} /\ ingest'.gone = ingest.gone \cup {f}
  BY <1>1 DEF FoldsTo
<1>5. /\ DOMAIN m = DOMAIN ingest.map \cup {c} /\ m \in Records(DOMAIN m)
      /\ \A d \in DOMAIN ingest.map \ {c} : m[d] = ingest.map[d]
      /\ m[c].n = IF c \in DOMAIN ingest.map THEN ingest.map[c].n + 1 ELSE 1
  BY <1>1 DEF FoldsTo
<1>6. IsFiniteSet(Tally(m)) /\ Cardinality(Tally(m)) = Cardinality(Tally(ingest.map)) + 1
  BY <1>2, <1>3, <1>5, TallyGrows DEF FoldedOnce, IngestTyped
<1>7. IsFiniteSet(ingest.gone) /\ f \notin ingest.gone
  <2>1. ingest.gone \in SUBSET Sent /\ IsFiniteSet(Sent)
    BY <1>2, <1>3 DEF FoldedOnce, EachCounted, InboxSent
  <2> QED
    BY <2>1, <1>2, <1>3, FS_Subset DEF FoldedOnce
<1>8. Cardinality(ingest'.gone) = Cardinality(ingest.gone) + 1
  BY <1>4, <1>7, FS_AddElement
<1>9. Cardinality(ingest.gone) \in Nat /\ Cardinality(Tally(ingest.read)) \in Nat
  BY <1>2, <1>3, <1>7, FS_CardinalityType DEF FoldedOnce
<1>10. Tally(ingest'.read) = Tally(ingest.read) /\ Tally(ingest'.map) = Tally(m)
  BY <1>4
<1>11. Cardinality(Tally(ingest'.map))
         = Cardinality(Tally(ingest'.read)) + Cardinality(ingest'.gone)
  BY <1>2, <1>3, <1>6, <1>8, <1>9, <1>10 DEF FoldedOnce
<1>12. \A d \in DOMAIN m \ (ingest.patched \cup {c}) : d \in DOMAIN ingest.read /\ m[d] = ingest.read[d]
  BY <1>2, <1>3, <1>5 DEF FoldedOnce
<1>13. /\ ingest.todo \cup ingest.gone \subseteq inbox /\ ingest.todo \cap ingest.gone = {}
       /\ DOMAIN ingest.read = DOMAIN triaged /\ IsFiniteSet(Tally(ingest.read))
  BY <1>2, <1>3 DEF FoldedOnce
<1> QED
  BY <1>2, <1>4, <1>6, <1>10, <1>11, <1>12, <1>13 DEF FoldedOnce

\* The patch that takes findings out of the inbox adds their counts, if no tool
\* wrote one of its records meanwhile.
LEMMA LandCounted ==
  ASSUME StoreTyped, ActorsTyped, EachCounted, LandPatch
  PROVE  InboxSent' /\ EveryReportCounted'
<1> DEFINE P == ingest.patched
           D == DOMAIN triaged
           W == triaged'
           map == ingest.map
           read == ingest.read
           gone == ingest.gone
<1>1. InStage("folding") /\ IngestTyped(ingest)
      /\ Writes(read, map, P) /\ inbox' = inbox \ gone /\ sending' = sending
  BY DEF LandPatch, InStage, ActorsTyped, Remaining
<1>2. /\ DOMAIN read = D /\ gone \subseteq inbox
      /\ \A c \in DOMAIN map \ P : c \in D /\ map[c] = read[c]
      /\ IsFiniteSet(Tally(map)) /\ IsFiniteSet(Tally(read))
      /\ Cardinality(Tally(map)) = Cardinality(Tally(read)) + Cardinality(gone)
  BY <1>1 DEF FoldedOnce, EachCounted
<1>3. P \subseteq DOMAIN map /\ D \subseteq DOMAIN map
  BY <1>1, <1>2 DEF IngestTyped
<1>4. W = [c \in D \cup P |-> IF c \in P THEN map[c] ELSE triaged[c]]
  BY <1>1 DEF Writes
<1>5. DOMAIN map = P \cup (D \ P) /\ D = (D \cap P) \cup (D \ P) /\ DOMAIN W = P \cup (D \ P)
  BY <1>2, <1>3, <1>4
<1>6. /\ Tally(map) = Pairs(map, P \cup (D \ P))
      /\ Tally(read) = Pairs(read, (D \cap P) \cup (D \ P))
      /\ Tally(triaged) = Pairs(triaged, (D \cap P) \cup (D \ P))
      /\ Tally(W) = Pairs(W, P \cup (D \ P))
  BY <1>2, <1>5 DEF Tally, Pairs
<1>7. IsFiniteSet(Sent) /\ inbox \subseteq Sent /\ IsFiniteSet(Tally(triaged)) /\ EveryReportCounted
  BY DEF EachCounted, InboxSent
<1>8. /\ Pairs(W, P) = Pairs(map, P)
      /\ Pairs(W, D \ P) = Pairs(triaged, D \ P)
      /\ Pairs(map, D \ P) = Pairs(read, D \ P)
  <2>1. \A c \in P : W[c].n = map[c].n
    BY <1>4
  <2>2. \A c \in D \ P : W[c].n = triaged[c].n /\ map[c].n = read[c].n
    BY <1>2, <1>3, <1>4
  <2> HIDE DEF W, P, D, map, read
  <2> QED
    BY <2>1, <2>2, SamePairs
<1> HIDE DEF P, D, W, map, read, gone
<1>9. P \cap (D \ P) = {} /\ (D \cap P) \cap (D \ P) = {}
  OBVIOUS
<1>10. /\ IsFiniteSet(Pairs(map, P)) /\ Cardinality(Pairs(map, P)) \in Nat
       /\ Cardinality(Pairs(map, D \ P)) \in Nat
       /\ Cardinality(Tally(map)) = Cardinality(Pairs(map, P)) + Cardinality(Pairs(map, D \ P))
  <2>1. IsFiniteSet(Pairs(map, P \cup (D \ P))) /\ P \cap (D \ P) = {}
    BY <1>2, <1>6
  <2>2. /\ IsFiniteSet(Pairs(map, P)) /\ Cardinality(Pairs(map, P)) \in Nat
        /\ Cardinality(Pairs(map, D \ P)) \in Nat
        /\ Cardinality(Pairs(map, P \cup (D \ P)))
             = Cardinality(Pairs(map, P)) + Cardinality(Pairs(map, D \ P))
    BY <2>1, PairsAdd
  <2> QED
    BY <2>2, <1>6
<1>11. /\ Cardinality(Pairs(read, D \cap P)) \in Nat
       /\ Cardinality(Tally(read))
            = Cardinality(Pairs(read, D \cap P)) + Cardinality(Pairs(read, D \ P))
  <2>1. IsFiniteSet(Pairs(read, (D \cap P) \cup (D \ P)))
    BY <1>2, <1>6
  <2> QED
    BY <2>1, <1>6, <1>9, PairsAdd
<1>12. /\ IsFiniteSet(Pairs(triaged, D \ P)) /\ Cardinality(Pairs(triaged, D \ P)) \in Nat
       /\ Cardinality(Tally(triaged))
            = Cardinality(Pairs(triaged, D \cap P)) + Cardinality(Pairs(triaged, D \ P))
  <2>1. IsFiniteSet(Pairs(triaged, (D \cap P) \cup (D \ P)))
    BY <1>6, <1>7
  <2> QED
    BY <2>1, <1>6, <1>9, PairsAdd
<1>13. IsFiniteSet(Tally(W))
  <2>1. Tally(W) = Pairs(map, P) \cup Pairs(triaged, D \ P)
    BY <1>6, <1>8, <1>9, PairsSplit
  <2> QED
    BY <2>1, <1>10, <1>12, FS_Union
<1>14. Cardinality(Tally(W)) = Cardinality(Pairs(map, P)) + Cardinality(Pairs(triaged, D \ P))
  BY <1>6, <1>8, <1>9, <1>13, PairsAdd
<1>15. IsFiniteSet(inbox) /\ IsFiniteSet(gone) /\ Cardinality(inbox) \in Nat
       /\ Cardinality(gone) \in Nat
  <2>1. inbox \in SUBSET Sent /\ gone \in SUBSET Sent
    BY <1>2, <1>7
  <2>2. IsFiniteSet(inbox) /\ IsFiniteSet(gone)
    BY <2>1, <1>7, FS_Subset
  <2> QED
    BY <2>2, FS_CardinalityType
<1>16. Cardinality(inbox \ gone) = Cardinality(inbox) - Cardinality(gone)
  <2>1. inbox \cap gone = gone
    BY <1>2
  <2> QED
    BY <2>1, <1>15, FS_Difference
<1>17. ASSUME ~raced'
       PROVE  ~raced /\ Pairs(triaged, D \cap P) = Pairs(read, D \cap P)
  <2>1. ~raced /\ \A c \in P \cap D : triaged[c] = read[c]
    BY <1>1, <1>17 DEF Writes, D
  <2>2. \A c \in D \cap P : triaged[c].n = read[c].n
    BY <2>1
  <2> QED
    BY <2>1, <2>2, SamePairs
<1>18. Sent' = Sent /\ Tally(triaged)' = Tally(W)
  BY <1>1 DEF Sent, Tally, W
<1>19. Cardinality(Sent) \in Nat
  BY <1>7, FS_CardinalityType
<1>20. ASSUME ~raced'
       PROVE  Cardinality(Tally(W)) + Cardinality(inbox \ gone) = Cardinality(Sent)
  <2>1. Cardinality(Tally(triaged)) + Cardinality(inbox) = Cardinality(Sent)
    BY <1>7, <1>17, <1>20 DEF EveryReportCounted, Counted
  <2>2. Pairs(triaged, D \cap P) = Pairs(read, D \cap P)
    BY <1>17, <1>20
  <2> QED
    BY <2>1, <2>2, <1>2, <1>8, <1>10, <1>11, <1>12, <1>14, <1>15, <1>16, <1>19
<1>21. EveryReportCounted'
  BY <1>1, <1>18, <1>20 DEF EveryReportCounted, Counted
<1> QED
  BY <1>1, <1>7, <1>13, <1>18, <1>21 DEF InboxSent

\* The write of a tool leaves the count of its record, if no ingestion wrote it
\* meanwhile.
LEMMA ToolCounted ==
  ASSUME StoreTyped, ActorsTyped, CallsOnRecord, EachCounted, NEW k \in Calls, CallWrites(k)
  PROVE  InboxSent' /\ EveryReportCounted' /\ DOMAIN triaged' = DOMAIN triaged
<1> DEFINE c == call[k].c
           r == call[k].record
           read == call[k].read
<1>1. /\ Writes(read, [d \in {c} |-> r], {c}) /\ inbox' = inbox /\ sending' = sending
      /\ InProgress(k) /\ c \in DOMAIN triaged
      /\ CallTyped(call[k]) /\ r.n = read[c].n
  BY DEF CallWrites, CallIn, ActorsTyped, CallsOnRecord, EachCounted, CallsKeepCounts
<1>2. r.n \in Nat
  BY <1>1 DEF CallTyped, Record
<1> HIDE DEF c, r, read
<1>3. triaged' = [d \in DOMAIN triaged |-> IF d = c THEN r ELSE triaged[d]]
  BY <1>1 DEF Writes
<1>4. DOMAIN triaged' = DOMAIN triaged
  BY <1>3
<1>5. IsFiniteSet(Sent) /\ inbox \subseteq Sent /\ IsFiniteSet(Tally(triaged)) /\ EveryReportCounted
  BY DEF EachCounted, InboxSent
<1>6. Sent' = Sent
  BY <1>1 DEF Sent
<1>7. IsFiniteSet(Tally(triaged'))
  <2>1. IsFiniteSet({c} \X (1 .. r.n))
    <3>1. IsFiniteSet(1 .. r.n)
      BY <1>2, FS_Interval
    <3>2. IsFiniteSet({c})
      BY FS_Singleton
    <3> QED
      BY <3>1, <3>2, FS_Product
  <2>2. Tally(triaged') \subseteq Tally(triaged) \cup ({c} \X (1 .. r.n))
    BY <1>3 DEF Tally
  <2>3. IsFiniteSet(Tally(triaged) \cup ({c} \X (1 .. r.n)))
    BY <2>1, <1>5, FS_Union
  <2> QED
    BY <2>2, <2>3, FS_Subset
<1>8. ASSUME ~raced'
      PROVE  ~raced /\ Tally(triaged') = Tally(triaged)
  <2>1. ~raced /\ triaged[c] = read[c]
    BY <1>1, <1>8 DEF Writes
  <2>2. \A d \in DOMAIN triaged : triaged'[d].n = triaged[d].n
    BY <2>1, <1>1, <1>3
  <2>3. Pairs(triaged', DOMAIN triaged) = Pairs(triaged, DOMAIN triaged)
    BY <2>2, SamePairs
  <2> QED
    BY <2>1, <2>3, <1>4 DEF Tally, Pairs
<1>9. Tally(triaged)' = Tally(triaged')
  BY DEF Tally
<1> QED
  BY <1>1, <1>4, <1>5, <1>6, <1>7, <1>8, <1>9 DEF InboxSent, EveryReportCounted, Counted

\* What a tool does to its call keeps the count it has read.
LEMMA ToolKeepsCount ==
  ASSUME StoreTyped, ActorsTyped, CallsOnRecord, CallsKeepCounts, NEW k \in Calls, Tool(k)
  PROVE  CallsKeepCounts'
<1>1. ASSUME NEW x, call' = [call EXCEPT ![k] = x],
             x \in {NoCall, Over} \/ x.record.n = x.read[x.c].n
      PROVE  CallsKeepCounts'
  <2>1. \A j \in Calls : call'[j] = IF j = k THEN x ELSE call[j]
    BY <1>1 DEF CallsOnRecord
  <2>2. ASSUME NEW j \in Calls, InProgress(j)'
        PROVE  call'[j].record.n = call'[j].read[call'[j].c].n
    <3>1. CASE j = k
      BY <2>1, <2>2, <3>1, <1>1 DEF InProgress
    <3>2. CASE j # k
      BY <2>1, <2>2, <3>2 DEF InProgress, CallsKeepCounts
    <3> QED
      BY <3>1, <3>2
  <2> QED
    BY <2>2 DEF CallsKeepCounts
<1>2. ASSUME NEW s, InProgress(k), call' = [call EXCEPT ![k].stage = s]
      PROVE  CallsKeepCounts'
  <2> DEFINE x == [stage |-> s, c |-> call[k].c, read |-> call[k].read, record |-> call[k].record]
  <2>1. call[k] = [stage |-> call[k].stage, c |-> call[k].c, read |-> call[k].read,
                   record |-> call[k].record]
    BY <1>2 DEF ActorsTyped, CallTyped, CallShape
  <2>2. [call[k] EXCEPT !.stage = s] = x
    BY <2>1
  <2>3. call' = [call EXCEPT ![k] = [call[k] EXCEPT !.stage = s]]
    BY <1>2
  <2>4. call' = [call EXCEPT ![k] = x]
    BY <2>2, <2>3
  <2>5. x.record.n = x.read[x.c].n
    BY <1>2 DEF CallsKeepCounts
  <2> HIDE DEF x
  <2> QED
    BY <2>4, <2>5, <1>1
<1>3. \A c \in DOMAIN triaged : triaged[c] \in Record
  BY DEF StoreTyped, Records
<1>4. CASE CallUpdate(k)
  <2>1. PICK c \in DOMAIN triaged, shut \in BOOLEAN :
          call' = [call EXCEPT ![k] = [stage |-> "write", c |-> c, read |-> triaged,
                                       record |-> [triaged[c] EXCEPT !.closed = shut]]]
    BY <1>4 DEF CallUpdate
  <2>2. [triaged[c] EXCEPT !.closed = shut].n = triaged[c].n
    BY <1>3 DEF Record
  <2> DEFINE x == [stage |-> "write", c |-> c, read |-> triaged,
                   record |-> [triaged[c] EXCEPT !.closed = shut]]
  <2>3. x.record.n = x.read[x.c].n
    BY <2>2
  <2>4. call' = [call EXCEPT ![k] = x]
    BY <2>1
  <2> HIDE DEF x
  <2> QED
    BY <2>3, <2>4, <1>1
<1>5. CASE CallPromote(k)
  <2>1. PICK c \in DOMAIN triaged :
          call' = [call EXCEPT ![k] =
                     [stage |-> "create", c |-> c, read |-> triaged,
                      record |-> [triaged[c] EXCEPT !.closed = FALSE, !.task = "tool"]]]
    BY <1>5 DEF CallPromote
  <2>2. [triaged[c] EXCEPT !.closed = FALSE, !.task = "tool"].n = triaged[c].n
    BY <1>3 DEF Record
  <2> DEFINE x == [stage |-> "create", c |-> c, read |-> triaged,
                   record |-> [triaged[c] EXCEPT !.closed = FALSE, !.task = "tool"]]
  <2>3. x.record.n = x.read[x.c].n
    BY <2>2
  <2>4. call' = [call EXCEPT ![k] = x]
    BY <2>1
  <2> HIDE DEF x
  <2> QED
    BY <2>3, <2>4, <1>1
<1>6. call' = [call EXCEPT ![k] = Over] => CallsKeepCounts'
  BY <1>1
<1> QED
  BY <1>2, <1>4, <1>5, <1>6
  DEF Tool, CallCreates, CallWrites, CallSkips, CallBoard, CallFails, CallIn

\* Every step keeps it.
LEMMA StepCounted ==
  ASSUME StoreTyped, ActorsTyped, OneRecordEach, EachCounted, [Next]_vars
  PROVE  EachCounted'
<1> USE DEF configMap
<1>0. CallsOnRecord /\ InboxSent /\ FoldedOnce /\ CallsKeepCounts /\ EveryReportCounted
  BY DEF OneRecordEach, EachCounted
<1>a. UNCHANGED <<sending, inbox, triaged, raced>> => InboxSent' /\ EveryReportCounted'
  BY <1>0 DEF InboxSent, EveryReportCounted, Sent, Counted, Tally
<1>b. ingest' = NoIngest
        \/ (ingest' = ingest /\ DOMAIN triaged' = DOMAIN triaged /\ inbox \subseteq inbox')
        => FoldedOnce'
  BY <1>0 DEF FoldedOnce, InStage, Tally
<1>c. call' = call => CallsKeepCounts'
  BY <1>0 DEF CallsKeepCounts, InProgress
<1>1. ASSUME NEW f \in Reports, Report(f)
      PROVE  EachCounted'
  <2>1. UNCHANGED <<triaged, ingest, call>>
    BY <1>1 DEF Report, PatchMisses, PatchAppends, Creates, CreateConflicts, ReportFails
  <2> QED
    BY <2>1, <1>1, <1>b, <1>c, ReportCounted DEF EachCounted
<1>2. CASE StartIngest
  <2>1. /\ ingest' = [stage |-> "folding", todo |-> inbox, read |-> triaged, map |-> triaged,
                      patched |-> {}, gone |-> {}]
        /\ UNCHANGED <<sending, inbox, triaged, raced, call>>
    BY <1>2 DEF StartIngest
  <2>2. Cardinality(Tally(triaged)) \in Nat /\ IsFiniteSet(Tally(triaged)) /\ Cardinality({}) = 0
    BY <1>0, FS_CardinalityType, FS_EmptySet DEF InboxSent
  <2>3. FoldedOnce'
    BY <2>1, <2>2 DEF FoldedOnce
  <2> QED
    BY <2>1, <2>3, <1>a, <1>c DEF EachCounted
<1>3. ASSUME NEW f \in Reports, Fold(f)
      PROVE  EachCounted'
  <2>1. UNCHANGED <<sending, inbox, triaged, raced, call>>
    BY <1>3 DEF Fold, FoldDuplicate, FoldNew
  <2> QED
    BY <2>1, <1>3, <1>a, <1>c, FoldCounted DEF EachCounted
<1>4. CASE LandPatch
  <2>1. IngestTyped(ingest) /\ ingest' = [ingest EXCEPT !.stage = "board"] /\ call' = call
    BY <1>4 DEF LandPatch, InStage, ActorsTyped
  <2>2. ingest'.stage = "board"
    BY <2>1 DEF IngestTyped, IngestShape
  <2>3. FoldedOnce'
    BY <2>2 DEF FoldedOnce, InStage
  <2> QED
    BY <2>1, <2>3, <1>4, <1>c, LandCounted DEF EachCounted
<1>5. CASE WriteBoard \/ AbortIngest
  <2>1. ingest' = NoIngest /\ UNCHANGED <<sending, inbox, triaged, raced, call>>
    BY <1>5 DEF WriteBoard, AbortIngest
  <2> QED
    BY <2>1, <1>a, <1>b, <1>c DEF EachCounted
<1>6. ASSUME NEW k \in Calls, Tool(k)
      PROVE  EachCounted'
  <2>1. CallsKeepCounts'
    BY <1>0, <1>6, ToolKeepsCount
  <2>2. CASE CallWrites(k)
    <3>1. InboxSent' /\ EveryReportCounted' /\ DOMAIN triaged' = DOMAIN triaged
      BY <2>2, <1>0, ToolCounted
    <3>2. ingest' = ingest /\ inbox' = inbox
      BY <2>2 DEF CallWrites
    <3> QED
      BY <2>1, <3>1, <3>2, <1>b DEF EachCounted
  <2>3. CASE ~CallWrites(k)
    <3>1. UNCHANGED <<sending, inbox, triaged, raced, ingest>>
      BY <2>3, <1>6 DEF Tool, CallUpdate, CallPromote, CallCreates, CallSkips, CallBoard, CallFails
    <3> QED
      BY <2>1, <3>1, <1>a, <1>b DEF EachCounted
  <2> QED
    BY <2>2, <2>3
<1>7. CASE ManagerCrash
  <2>1. /\ ingest' = NoIngest /\ call' = [k \in Calls |-> IF InProgress(k) THEN Over ELSE call[k]]
        /\ UNCHANGED <<sending, inbox, triaged, raced>>
    BY <1>7 DEF ManagerCrash
  <2>2. CallsKeepCounts'
    BY <2>1 DEF CallsKeepCounts, InProgress
  <2> QED
    BY <2>1, <2>2, <1>a, <1>b DEF EachCounted
<1>8. CASE UNCHANGED vars
  BY <1>8, <1>a, <1>b, <1>c DEF vars, EachCounted
<1> QED
  BY <1>1, <1>2, <1>3, <1>4, <1>5, <1>6, <1>7, <1>8 DEF Next

-----------------------------------------------------------------------------
(* The theorems. *)

\* However the ingestions, the tools, the failures and the crashes fall, no
\* issue comes to have two records.
THEOREM OneRecord == Spec => []OneRecordPerIssue
<1>1. OneRecordEach => OneRecordPerIssue
  BY DEF OneRecordEach, Distinct, OneRecordPerIssue
<1> QED
  BY <1>1, InitOneRecord, StepOneRecord, PTL DEF Spec

\* What is stored, read and written has its types; the records an ingestion or
\* a tool goes on from are among those that are there.
THEOREM TypeCorrect == Spec => []TypeOK
<1> DEFINE Inductive == StoreTyped /\ ActorsTyped /\ OneRecordEach
<1>1. Init => Inductive
  BY InitTypes, InitOneRecord
<1>2. Inductive /\ [Next]_vars => Inductive'
  <2>1. OneRecordEach => CallsOnRecord
    BY DEF OneRecordEach
  <2> QED
    BY <2>1, StepTypes, StepOneRecord
<1>3. Inductive => TypeOK
  BY TypeParts
<1> QED
  BY <1>1, <1>2, <1>3, PTL DEF Spec

\* Every report that was answered is in the inbox or counted once in a record,
\* however often its ingestion failed or crashed and was begun again, and
\* whatever was reported meanwhile; as long as no ingestion and no tool has
\* overwritten a record it did not read.
THEOREM ReportsCounted == Spec => []EveryReportCounted
<1> DEFINE Inductive == StoreTyped /\ ActorsTyped /\ OneRecordEach /\ EachCounted
<1>1. Init => Inductive
  BY InitTypes, InitOneRecord, InitCounted
<1>2. Inductive /\ [Next]_vars => Inductive'
  <2>1. OneRecordEach => CallsOnRecord
    BY DEF OneRecordEach
  <2> QED
    BY <2>1, StepTypes, StepOneRecord, StepCounted
<1>3. Inductive => EveryReportCounted
  BY DEF EachCounted
<1> QED
  BY <1>1, <1>2, <1>3, PTL DEF Spec

=============================================================================
