------------------------- MODULE FindingsIngestion -------------------------
(***************************************************************************)
(* Findings: agents report issues into the inbox of a ConfigMap            *)
(* (kube/src/index.ts, appendFindingToConfigMap); at the end of every      *)
(* reconcile cycle the manager folds the inbox into triaged records, one   *)
(* per issue (reconciler/findings-ingestion.ts); and the tools of the same *)
(* manager process, called by its agent and by the board, reclassify a     *)
(* record or make a task of it (agent/tools.ts).  All of them read the     *)
(* whole ConfigMap, go on from what they read, and write whole records     *)
(* with no condition on their version.                                     *)
(*                                                                         *)
(* Left out: severity and category as the tools change them, the events,   *)
(* the texts, the cap of 100 findings on the board, and what the new tasks *)
(* then go through (BuildTask).                                            *)
(***************************************************************************)
EXTENDS Integers, FiniteSets

CONSTANTS
  Reports,     \* the findings agents may report, numbered by createdAt
  Key,         \* dedupKey of each
  Snippet,     \* filePath and hash of the snippet of each, or NoSnippet
  NoSnippet,
  Near,        \* the pairs within SEMANTIC_DUP_MAX_DISTANCE
  Serious,     \* high or critical bugs and security issues
  Embedding,   \* spec.embedding.enabled
  Calls,       \* the tool calls that are made: a bound, the code has none
  NoIngest, NoCall, Over

ASSUME ReportsAssumption ==
  /\ Reports \subseteq Nat
  /\ Serious \subseteq Reports

VARIABLES
  exists,   \* the findings ConfigMap exists
  sending,  \* sending[f]: how far appendFindingToConfigMap has come
  inbox,    \* data["inbox.*"]
  triaged,  \* data["triaged.*"]: records by cluster, the id of the first report
  board,    \* status.board.findings of the Project
  tasks,    \* the tasks made of findings, by name
  memory,   \* the clusters stored in the vector memory
  ingest,   \* the ingestion in progress
  call,     \* call[k]: the tool call: NoCall before it, Over after it
  raced     \* history: a record was written from a read that was out of date

configMap == <<exists, inbox, triaged>>
vars == <<exists, sending, inbox, triaged, board, tasks, memory, ingest, call, raced>>

\* taskRef: none, the task of the ingestion, or the task of the tool.  The two
\* make different names: "...-build-<hash>" and "...-build-find-<hash>".
Link == {"none", "auto", "tool"}

\* closed: the status is resolved, duplicate or wontfix.
Record == [n : Nat, closed : BOOLEAN, task : Link]

Init ==
  /\ exists = FALSE
  /\ sending = [f \in Reports |-> "idle"]
  /\ inbox = {}
  /\ triaged = [c \in {} |-> NoSnippet]
  /\ board = [c \in {} |-> NoSnippet]
  /\ tasks = {}
  /\ memory = {}
  /\ ingest = NoIngest
  /\ call = [k \in Calls |-> NoCall]
  /\ raced = FALSE

-----------------------------------------------------------------------------
(* Reporting.  An agent is answered when its finding is in the inbox; the  *)
(* answer may be lost, and if it reports again that is another finding.    *)

Sends(f, from, to) == sending[f] = from /\ sending' = [sending EXCEPT ![f] = to]

\* The patch finds no ConfigMap.
PatchMisses(f) ==
  /\ ~exists /\ Sends(f, "idle", "creating")
  /\ UNCHANGED <<configMap, board, tasks, memory, ingest, call, raced>>

PatchAppends(f) ==
  /\ exists /\ Sends(f, "idle", "sent")
  /\ inbox' = inbox \cup {f}
  /\ UNCHANGED <<exists, triaged, board, tasks, memory, ingest, call, raced>>

\* The one that creates the ConfigMap puts its finding in it.
Creates(f) ==
  /\ ~exists /\ Sends(f, "creating", "sent")
  /\ exists' = TRUE /\ inbox' = inbox \cup {f}
  /\ UNCHANGED <<triaged, board, tasks, memory, ingest, call, raced>>

\* Another was first: back to the patch.
CreateConflicts(f) ==
  /\ exists /\ Sends(f, "creating", "idle")
  /\ UNCHANGED <<configMap, board, tasks, memory, ingest, call, raced>>

\* The patch or the creation fails, and the agent is told so.  (The code tries
\* three times; the ConfigMap is never deleted, so the second patch finds it.)
ReportFails(f) ==
  /\ Sends(f, "idle", "failed") \/ Sends(f, "creating", "failed")
  /\ UNCHANGED <<configMap, board, tasks, memory, ingest, call, raced>>

Report(f) ==
  \/ PatchMisses(f) \/ PatchAppends(f) \/ Creates(f) \/ CreateConflicts(f)
  \/ ReportFails(f)

-----------------------------------------------------------------------------
(* Ingestion: read, fold each finding of the inbox, oldest first, into the *)
(* records read, write what changed in one patch, then the board.          *)

StartIngest ==
  /\ ingest = NoIngest /\ exists /\ inbox # {}
  /\ ingest' = [stage |-> "folding", todo |-> inbox, read |-> triaged, map |-> triaged,
                patched |-> {}, gone |-> {}]
  /\ UNCHANGED <<configMap, sending, board, tasks, memory, call, raced>>

InStage(s) == ingest # NoIngest /\ ingest.stage = s

\* The record a finding is a duplicate of by key or, failing that, by snippet.
Exact_AsRead(f) == {c \in DOMAIN ingest.read : Key[c] = Key[f]}
Exact(f) ==
  LET SameKey == {c \in DOMAIN ingest.map : Key[c] = Key[f]}
      SameSnippet == {c \in DOMAIN ingest.map :
                        Snippet[f] # NoSnippet /\ Snippet[c] = Snippet[f]} IN
  IF SameKey # {} THEN SameKey ELSE SameSnippet

\* What the memory may recall as nearest.  It may also fail to answer.
Recalled(f) == {c \in memory : Embedding /\ (c = f \/ {c, f} \in Near)}

IsTurn(f) ==
  InStage("folding") /\ f \in ingest.todo /\ \A g \in ingest.todo : f <= g

\* A cluster recalled counts only if it is on record: the finding itself may
\* have been stored by an ingestion that did not come to its patch.
Canonical_Trusting(f) == IF Exact(f) # {} THEN Exact(f) ELSE Recalled(f)
Canonical(f) ==
  IF Exact(f) # {} THEN Exact(f) ELSE Recalled(f) \cap DOMAIN ingest.map

\* The duplicate is counted and leaves the inbox.
FoldDuplicate_Skipped(f) ==
  /\ IsTurn(f)
  /\ Canonical(f) # {} /\ ingest' = [ingest EXCEPT !.todo = @ \ {f}]
  /\ UNCHANGED <<configMap, sending, board, tasks, memory, call, raced>>
FoldDuplicate(f) ==
  /\ IsTurn(f)
  /\ \E c \in Canonical(f) :
       ingest' = [ingest EXCEPT !.todo = @ \ {f}, !.gone = @ \cup {f}, !.patched = @ \cup {c},
                                   !.map[c].n = @ + 1]
  /\ UNCHANGED <<configMap, sending, board, tasks, memory, call, raced>>

NewRecord(link) == [n |-> 1, closed |-> FALSE, task |-> link]

\* How the creation of the task ends: a task of that name, left by an
\* ingestion that did not come to its patch, is an error like any other.
AutoTask(f, link) ==
  \/ f \notin Serious /\ link = "none" /\ UNCHANGED tasks
  \/ /\ f \in Serious /\ <<"auto", f>> \notin tasks
     /\ tasks' = tasks \cup {<<"auto", f>>} /\ link \in {"auto", "none"}
  \/ f \in Serious /\ link = "none" /\ UNCHANGED tasks

FoldNew(f) ==
  /\ IsTurn(f) /\ Exact(f) = {}
  /\ \E link \in Link :
       /\ AutoTask(f, link)
       /\ ingest' = [ingest EXCEPT !.todo = @ \ {f}, !.gone = @ \cup {f},
                                   !.patched = @ \cup {f},
                                   !.map = [d \in DOMAIN @ \cup {f} |->
                                              IF d = f THEN NewRecord(link) ELSE @[d]]]
  /\ memory' \in {memory} \cup (IF Embedding THEN {memory \cup {f}} ELSE {})
  /\ UNCHANGED <<configMap, sending, board, call, raced>>

Fold(f) == FoldDuplicate(f) \/ FoldNew(f)

\* Writing the records new[c], c \in S, that were read as old.
Writes(old, new, S) ==
  /\ triaged' = [c \in DOMAIN triaged \cup S |-> IF c \in S THEN new[c] ELSE triaged[c]]
  /\ raced' = (raced \/ \E c \in S \cap DOMAIN triaged :
                           c \notin DOMAIN old \/ triaged[c] # old[c])

\* The inbox as it is, not as it was read.
Remaining_None == {}
Remaining == inbox \ ingest.gone

LandPatch ==
  /\ InStage("folding") /\ ingest.todo = {}
  /\ Writes(ingest.read, ingest.map, ingest.patched)
  /\ inbox' = Remaining
  /\ ingest' = [ingest EXCEPT !.stage = "board"]
  /\ UNCHANGED <<exists, sending, board, tasks, memory, call>>

WriteBoard ==
  /\ InStage("board")
  /\ board' = ingest.map
  /\ ingest' = NoIngest
  /\ UNCHANGED <<configMap, sending, tasks, memory, call, raced>>

\* The read, the patch or the write of the board fails.
AbortIngest ==
  /\ ingest # NoIngest /\ ingest' = NoIngest
  /\ UNCHANGED <<configMap, sending, board, tasks, memory, call, raced>>

-----------------------------------------------------------------------------
(* Tools.                                                                  *)

\* update_finding reads the record it is to change.
CallUpdate(k) ==
  /\ call[k] = NoCall
  /\ \E c \in DOMAIN triaged, shut \in BOOLEAN :
       call' = [call EXCEPT ![k] =
                  [stage |-> "write", c |-> c, read |-> triaged,
                   record |-> [triaged[c] EXCEPT !.closed = shut]]]
  /\ UNCHANGED <<configMap, sending, board, tasks, memory, ingest, raced>>

\* create_task_from_finding, for any record, whether it has a task or not.
CallPromote(k) ==
  /\ call[k] = NoCall
  /\ \E c \in DOMAIN triaged :
       call' = [call EXCEPT ![k] =
                  [stage |-> "create", c |-> c, read |-> triaged,
                   record |-> [triaged[c] EXCEPT !.closed = FALSE, !.task = "tool"]]]
  /\ UNCHANGED <<configMap, sending, board, tasks, memory, ingest, raced>>

InProgress(k) == call[k] \notin {NoCall, Over}
CallIn(k, s) == InProgress(k) /\ call[k].stage = s

\* The task may be created and the answer lost.
CallCreates(k) ==
  /\ CallIn(k, "create") /\ <<"tool", call[k].c>> \notin tasks
  /\ tasks' = tasks \cup {<<"tool", call[k].c>>}
  /\ \/ call' = [call EXCEPT ![k].stage = "write"]
     \/ call' = [call EXCEPT ![k] = Over]
  /\ UNCHANGED <<configMap, sending, board, memory, ingest, raced>>

CallWrites(k) ==
  /\ CallIn(k, "write")
  /\ Writes(call[k].read, [c \in {call[k].c} |-> call[k].record], {call[k].c})
  /\ call' = [call EXCEPT ![k].stage = "board"]
  /\ UNCHANGED <<exists, inbox, sending, board, tasks, memory, ingest>>

\* A promotion goes on to the board though its write has failed.
CallSkips(k) ==
  /\ CallIn(k, "write") /\ call[k].record.task = "tool"
  /\ call' = [call EXCEPT ![k].stage = "board"]
  /\ UNCHANGED <<configMap, sending, board, tasks, memory, ingest, raced>>

CallBoard(k) ==
  /\ CallIn(k, "board")
  /\ board' = [call[k].read EXCEPT ![call[k].c] = call[k].record]
  /\ call' = [call EXCEPT ![k] = Over]
  /\ UNCHANGED <<configMap, sending, tasks, memory, ingest, raced>>

CallFails(k) ==
  /\ InProgress(k)
  /\ call' = [call EXCEPT ![k] = Over]
  /\ UNCHANGED <<configMap, sending, board, tasks, memory, ingest, raced>>

Tool(k) ==
  \/ CallUpdate(k) \/ CallPromote(k) \/ CallCreates(k)
  \/ CallWrites(k) \/ CallSkips(k) \/ CallBoard(k) \/ CallFails(k)

ManagerCrash ==
  /\ ingest' = NoIngest /\ call' = [k \in Calls |-> IF InProgress(k) THEN Over ELSE call[k]]
  /\ UNCHANGED <<configMap, sending, board, tasks, memory, raced>>

Next ==
  \/ \E f \in Reports : Report(f) \/ Fold(f)
  \/ StartIngest \/ LandPatch \/ WriteBoard \/ AbortIngest
  \/ \E k \in Calls : Tool(k)
  \/ ManagerCrash

Spec == Init /\ [][Next]_vars

-----------------------------------------------------------------------------
(* What it guarantees. *)

Records(S) == [S -> Record]
Ingest(S, T) == [stage : {"folding", "board"}, todo : SUBSET Reports,
                 read : Records(S), map : Records(T),
                 patched : SUBSET T, gone : SUBSET Reports]
Call(S) == [stage : {"create", "write", "board"}, c : S, read : Records(S), record : Record]

TypeOK ==
  /\ exists \in BOOLEAN
  /\ sending \in [Reports -> {"idle", "creating", "sent", "failed"}]
  /\ inbox \subseteq Reports
  /\ DOMAIN triaged \subseteq Reports /\ triaged \in Records(DOMAIN triaged)
  /\ DOMAIN board \subseteq Reports /\ board \in Records(DOMAIN board)
  /\ tasks \subseteq {"auto", "tool"} \X Reports
  /\ memory \subseteq Reports
  /\ ingest = NoIngest
       \/ \E S, T \in SUBSET Reports : S \subseteq T /\ ingest \in Ingest(S, T)
  /\ \A k \in Calls :
       call[k] \in {NoCall, Over} \/ \E S \in SUBSET DOMAIN triaged : call[k] \in Call(S)
  /\ raced \in BOOLEAN

Sent == {f \in Reports : sending[f] = "sent"}

\* One pair for each report that the records count.
Tally(records) == UNION {{c} \X (1 .. records[c].n) : c \in DOMAIN records}
Counted == Cardinality(Tally(triaged))

\* Every finding whose report was written is in the inbox or has been counted
\* in a record, once, however often its ingestion was begun: unless an
\* ingestion and a tool have overwritten each other's record.
EveryReportCounted == ~raced => Counted + Cardinality(inbox) = Cardinality(Sent)

\* There is one record per issue: none shares a key or a snippet with another.
OneRecordPerIssue ==
  \A c, d \in DOMAIN triaged :
    c # d => /\ Key[c] # Key[d]
             /\ Snippet[c] = NoSnippet \/ Snippet[c] # Snippet[d]

\* Every ingestion comes to its end again and again: it keeps being started by
\* the cycles, and no step of it fails or crashes every time.
Fairness ==
  /\ SF_vars(StartIngest) /\ SF_vars(LandPatch) /\ WF_vars(WriteBoard)
  /\ \A f \in Reports : SF_vars(Fold(f))

FairSpec == Spec /\ Fairness

\* Every finding in the inbox is triaged.
InboxDrains == \A f \in Reports : f \in inbox ~> f \notin inbox

=============================================================================
