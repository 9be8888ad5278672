--------------------------- MODULE ManagerLoopProofs ---------------------------
(***************************************************************************)
(* Proofs about ManagerLoop, for any finite set of projects, any habits,   *)
(* troubles and bounds: the types, that no delivered change is lost, that  *)
(* a pause on record holds, and that a request is cleared when it was      *)
(* served.                                                                 *)
(***************************************************************************)
EXTENDS ManagerLoop, SequenceTheorems, FiniteSetTheorems, TLAPS

-----------------------------------------------------------------------------
(* The queue. *)

QueueOK(q) == q \in Seq(Projects) /\ IsInjective(q)

\* The empty queue holds no key.
LEMMA EmptyQueue == QueueOK(<<>>) /\ ToSet(<<>>) = {}
BY DEF QueueOK, IsInjective, ToSet

\* A key that is added is in the queue, once, after what was there before.
LEMMA AddedKey ==
  ASSUME NEW q, QueueOK(q), NEW p \in Projects
  PROVE  QueueOK(Added(q, p)) /\ ToSet(Added(q, p)) = ToSet(q) \cup {p}
<1>0. q \in Seq(Projects) /\ IsInjective(q)
  BY DEF QueueOK
<1>1. CASE Contains(q, p)
  BY <1>0, <1>1 DEF Added, Contains, ToSet, QueueOK
<1>2. CASE ~Contains(q, p)
  <2> DEFINE r == Append(q, p)
  <2>1. Added(q, p) = r
    BY <1>2 DEF Added
  <2>2. /\ r \in Seq(Projects) /\ Len(r) = Len(q) + 1 /\ Len(q) \in Nat
        /\ DOMAIN r = 1..Len(r) /\ DOMAIN q = 1..Len(q)
        /\ \A i \in 1..Len(q) : r[i] = q[i]
        /\ r[Len(r)] = p
    BY <1>0
  <2>3. \A i \in 1..Len(q) : q[i] # p
    BY <1>2 DEF Contains
  <2> HIDE DEF r
  <2>4. IsInjective(r)
    BY <1>0, <2>2, <2>3 DEF IsInjective
  <2>5. ToSet(r) = ToSet(q) \cup {p}
    BY <2>2 DEF ToSet
  <2> QED
    BY <2>1, <2>2, <2>4, <2>5 DEF QueueOK
<1> QED
  BY <1>1, <1>2

\* A key that is taken out is in the queue no more; all others are.
LEMMA RemovedKey ==
  ASSUME NEW q, QueueOK(q), NEW p
  PROVE  QueueOK(Removed(q, p)) /\ ToSet(Removed(q, p)) = ToSet(q) \ {p}
<1>0. q \in Seq(Projects) /\ IsInjective(q)
  BY DEF QueueOK
<1>1. CASE ~Contains(q, p)
  BY <1>0, <1>1 DEF Removed, Contains, ToSet, QueueOK
<1>2. CASE Contains(q, p)
  <2> DEFINE i == CHOOSE j \in DOMAIN q : q[j] = p
             a == SubSeq(q, 1, i - 1)
             b == SubSeq(q, i + 1, Len(q))
             r == a \o b
  <2>1. i \in 1..Len(q) /\ q[i] = p /\ Len(q) \in Nat /\ DOMAIN q = 1..Len(q)
    BY <1>0, <1>2 DEF Contains
  <2>2. Removed(q, p) = r
    BY <1>2 DEF Removed, RemoveAt
  <2> HIDE DEF i
  <2>3. /\ a \in Seq(Projects) /\ Len(a) = i - 1
        /\ \A j \in 1..(i - 1) : a[j] = q[j]
    BY <1>0, <2>1
  <2>4. /\ b \in Seq(Projects) /\ Len(b) = Len(q) - i
        /\ \A j \in 1..(Len(q) - i) : b[j] = q[j + i]
    <3>1. i + 1 \in Int /\ Len(q) \in Int /\ \A j \in (i + 1)..Len(q) : q[j] \in Projects
      BY <1>0, <2>1
    <3>2. /\ b \in Seq(Projects)
          /\ Len(b) = IF i + 1 <= Len(q) THEN Len(q) - (i + 1) + 1 ELSE 0
          /\ \A j \in 1..(Len(q) - (i + 1) + 1) : b[j] = q[(i + 1) + j - 1]
      BY <3>1, SubSeqProperties
    <3> HIDE DEF b
    <3>3. \A j \in 1..(Len(q) - i) :
            j \in 1..(Len(q) - (i + 1) + 1) /\ (i + 1) + j - 1 = j + i
      BY <2>1
    <3>4. \A j \in 1..(Len(q) - i) : b[j] = q[j + i]
      <4> TAKE j \in 1..(Len(q) - i)
      <4>1. b[j] = q[(i + 1) + j - 1] /\ (i + 1) + j - 1 = j + i
        BY <3>2, <3>3
      <4> QED
        BY <4>1
    <3>5. Len(b) = Len(q) - i
      <4>1. Len(b) = IF i + 1 <= Len(q) THEN Len(q) - (i + 1) + 1 ELSE 0
        BY <3>2
      <4>2. i \in Int /\ Len(q) \in Int /\ i <= Len(q)
        BY <2>1
      <4> QED
        BY <4>1, <4>2
    <3> QED
      BY <3>2, <3>4, <3>5
  <2> HIDE DEF a, b
  <2>5. /\ r \in Seq(Projects) /\ Len(r) = Len(q) - 1 /\ DOMAIN r = 1..(Len(q) - 1)
        /\ \A j \in 1..(Len(q) - 1) : r[j] = IF j < i THEN q[j] ELSE q[j + 1]
    <3>1. r \in Seq(Projects) /\ Len(r) = Len(a) + Len(b)
          /\ \A j \in 1..(Len(a) + Len(b)) : r[j] = IF j <= Len(a) THEN a[j] ELSE b[j - Len(a)]
      BY <2>3, <2>4, ConcatProperties
    <3>2. DOMAIN r = 1..Len(r)
      BY <3>1
    <3> HIDE DEF r
    <3>3. Len(a) + Len(b) = Len(q) - 1 /\ Len(a) = i - 1
      BY <2>1, <2>3, <2>4
    <3>4. ASSUME NEW j \in 1..(Len(q) - 1)
          PROVE  r[j] = IF j < i THEN q[j] ELSE q[j + 1]
      <4>1. r[j] = IF j <= i - 1 THEN a[j] ELSE b[j - (i - 1)]
        BY <3>1, <3>3
      <4>2. CASE j < i
        BY <4>1, <4>2, <2>1, <2>3
      <4>3. CASE ~(j < i)
        <5>1. j - (i - 1) \in 1..(Len(q) - i) /\ j - (i - 1) + i = j + 1
          BY <4>3, <2>1
        <5>2. b[j - (i - 1)] = q[j + 1]
          BY <5>1, <2>4
        <5> QED
          BY <4>1, <4>3, <5>2, <2>1
      <4> QED
        BY <4>2, <4>3
    <3> QED
      BY <3>1, <3>2, <3>3, <3>4
  <2> HIDE DEF r
  <2>6. IsInjective(r)
    <3> SUFFICES ASSUME NEW j \in 1..(Len(q) - 1), NEW k \in 1..(Len(q) - 1), r[j] = r[k]
                 PROVE  j = k
      BY <2>5 DEF IsInjective
    <3>1. r[j] = q[IF j < i THEN j ELSE j + 1] /\ r[k] = q[IF k < i THEN k ELSE k + 1]
      BY <2>5
    <3> DEFINE x == IF j < i THEN j ELSE j + 1
               y == IF k < i THEN k ELSE k + 1
    <3>2. x \in DOMAIN q /\ y \in DOMAIN q
      BY <2>1
    <3>3. q[x] = q[y]
      BY <3>1
    <3> HIDE DEF x, y
    <3>4. x = y
      BY <3>2, <3>3, <1>0 DEF IsInjective
    <3> QED
      BY <3>4, <2>1 DEF x, y
  <2>7. ToSet(r) \subseteq ToSet(q) \ {p}
    <3> SUFFICES ASSUME NEW j \in 1..(Len(q) - 1)
                 PROVE  r[j] \in ToSet(q) \ {p}
      BY <2>5 DEF ToSet
    <3> DEFINE k == IF j < i THEN j ELSE j + 1
    <3>1. r[j] = q[k] /\ k \in 1..Len(q) /\ k # i
      BY <2>5, <2>1
    <3> QED
      BY <3>1, <2>1, <1>0 DEF IsInjective, ToSet
  <2>8. ToSet(q) \ {p} \subseteq ToSet(r)
    <3> SUFFICES ASSUME NEW k \in 1..Len(q), q[k] # p
                 PROVE  q[k] \in ToSet(r)
      BY <2>1 DEF ToSet
    <3> DEFINE j == IF k < i THEN k ELSE k - 1
    <3>1. j \in 1..(Len(q) - 1) /\ r[j] = q[k]
      BY <2>5, <2>1
    <3> QED
      BY <3>1, <2>5 DEF ToSet
  <2> QED
    BY <2>2, <2>5, <2>6, <2>7, <2>8 DEF QueueOK
<1> QED
  BY <1>1, <1>2

\* The worker takes the oldest key out.
LEMMA TakenKey ==
  ASSUME NEW q, QueueOK(q), q # <<>>
  PROVE  /\ QueueOK(Tail(q)) /\ Head(q) \in Projects
         /\ ToSet(q) = ToSet(Tail(q)) \cup {Head(q)}
<1>0. q \in Seq(Projects) /\ IsInjective(q)
  BY DEF QueueOK
<1> DEFINE t == Tail(q)
<1>1. /\ Head(q) \in Projects /\ t \in Seq(Projects) /\ Len(t) = Len(q) - 1
      /\ Len(q) \in Nat /\ Len(q) > 0 /\ DOMAIN q = 1..Len(q) /\ DOMAIN t = 1..Len(t)
      /\ \A i \in 1..Len(t) : t[i] = q[i + 1]
      /\ Head(q) = q[1]
  BY <1>0
<1> HIDE DEF t
<1>2. IsInjective(t)
  <2> SUFFICES ASSUME NEW i \in 1..Len(t), NEW j \in 1..Len(t), t[i] = t[j]
               PROVE  i = j
    BY <1>1 DEF IsInjective
  <2>1. i + 1 \in DOMAIN q /\ j + 1 \in DOMAIN q /\ q[i + 1] = q[j + 1]
    BY <1>1
  <2> QED
    BY <2>1, <1>0 DEF IsInjective
<1>3. ToSet(t) \cup {Head(q)} \subseteq ToSet(q)
  BY <1>1 DEF ToSet
<1>4. ToSet(q) \subseteq ToSet(t) \cup {Head(q)}
  <2> SUFFICES ASSUME NEW i \in 1..Len(q), i # 1
               PROVE  q[i] \in ToSet(t)
    BY <1>1 DEF ToSet
  <2>1. i - 1 \in 1..Len(t) /\ t[i - 1] = q[i]
    BY <1>1
  <2> QED
    BY <2>1, <1>1 DEF ToSet
<1> QED
  BY <1>1, <1>2, <1>3, <1>4 DEF QueueOK, t

\* The resync adds each key of S once, when none is there yet.
LEMMA ResyncedKeys ==
  ASSUME NEW q, QueueOK(q), NEW S \in SUBSET Projects, S \cap ToSet(q) = {},
         NEW s \in SetToSeqs(S)
  PROVE  QueueOK(q \o s) /\ ToSet(q \o s) = ToSet(q) \cup S
<1>0. q \in Seq(Projects) /\ IsInjective(q) /\ Len(q) \in Nat /\ DOMAIN q = 1..Len(q)
  BY DEF QueueOK
<1>1. IsFiniteSet(S) /\ Cardinality(S) \in Nat
  BY ProjectsAssumption, FS_Subset, FS_CardinalityType
<1> DEFINE n == Cardinality(S)
           r == q \o s
<1>2. s \in [1..n -> S] /\ \A i, j \in 1..n : i # j => s[i] # s[j]
  BY DEF SetToSeqs
<1>3. s \in Surjection(1..n, S)
  <2>1. s \in Injection(1..n, S)
    BY <1>2 DEF Injection, IsInjective
  <2>2. IsFiniteSet(1..n) /\ Cardinality(1..n) = n
    BY <1>1, FS_Interval
  <2> QED
    BY <2>1, <2>2, <1>1, FS_Injection
<1>4. \A p \in S : \E i \in 1..n : s[i] = p
  BY <1>3 DEF Surjection
<1>5. s \in Seq(Projects) /\ Len(s) = n
  BY <1>1, <1>2
<1> HIDE DEF n
<1>6. /\ r \in Seq(Projects) /\ Len(r) = Len(q) + n /\ DOMAIN r = 1..(Len(q) + n)
      /\ \A i \in 1..(Len(q) + n) : r[i] = IF i <= Len(q) THEN q[i] ELSE s[i - Len(q)]
  BY <1>0, <1>5
<1> HIDE DEF r
<1>7. \A i \in 1..Len(q) : q[i] \notin S
  BY <1>0 DEF ToSet
<1>8. IsInjective(r)
  <2> SUFFICES ASSUME NEW i \in 1..(Len(q) + n), NEW j \in 1..(Len(q) + n), r[i] = r[j]
               PROVE  i = j
    BY <1>6 DEF IsInjective
  <2>0. \A k \in 1..(Len(q) + n) :
          IF k <= Len(q) THEN k \in 1..Len(q) /\ r[k] = q[k]
          ELSE k - Len(q) \in 1..n /\ r[k] = s[k - Len(q)] /\ r[k] \in S
    BY <1>0, <1>1, <1>2, <1>6 DEF n
  <2>1. CASE i <= Len(q) /\ j <= Len(q)
    BY <2>0, <2>1, <1>0 DEF IsInjective
  <2>2. CASE i <= Len(q) <=> ~(j <= Len(q))
    BY <2>0, <2>2, <1>7
  <2>3. CASE ~(i <= Len(q)) /\ ~(j <= Len(q))
    <3>1. i - Len(q) \in 1..n /\ j - Len(q) \in 1..n /\ s[i - Len(q)] = s[j - Len(q)]
      BY <2>3, <1>0, <1>1, <1>6 DEF n
    <3>2. i - Len(q) = j - Len(q)
      BY <3>1, <1>2
    <3> QED
      BY <3>2, <1>0, <1>1 DEF n
  <2> QED
    BY <2>1, <2>2, <2>3
<1>9. ToSet(r) = ToSet(q) \cup S
  <2>1. ToSet(r) \subseteq ToSet(q) \cup S
    <3> SUFFICES ASSUME NEW k \in 1..(Len(q) + n)
                 PROVE  r[k] \in ToSet(q) \cup S
      BY <1>6 DEF ToSet
    <3>1. CASE k <= Len(q)
      BY <3>1, <1>0, <1>1, <1>6 DEF ToSet, n
    <3>2. CASE ~(k <= Len(q))
      <4>1. k - Len(q) \in 1..n /\ r[k] = s[k - Len(q)]
        BY <3>2, <1>0, <1>1, <1>6 DEF n
      <4> QED
        BY <4>1, <1>2
    <3> QED
      BY <3>1, <3>2
  <2>2. ASSUME NEW i \in 1..Len(q)
        PROVE  q[i] \in ToSet(r)
    BY <1>0, <1>1, <1>6 DEF ToSet, n
  <2>3. ASSUME NEW p \in S
        PROVE  p \in ToSet(r)
    <3>1. PICK i \in 1..n : s[i] = p
      BY <1>4
    <3>2. Len(q) + i \in DOMAIN r /\ r[Len(q) + i] = p
      BY <3>1, <1>0, <1>1, <1>6 DEF n
    <3> QED
      BY <3>2 DEF ToSet
  <2> QED
    BY <2>1, <2>2, <2>3, <1>0 DEF ToSet
<1> QED
  BY <1>6, <1>8, <1>9 DEF QueueOK, r


-----------------------------------------------------------------------------
(* The types. *)

Workers ==
  [at : {"idle", "read", "check", "list", "requests", "clear", "rest"},
   project : Projects \cup {NoProject}, noted : BOOLEAN, request : Nat, over : BOOLEAN]

\* The worker has a project except between two keys; a tool that is called, too.
ActorsOK ==
  /\ worker \in Workers /\ (worker.at # "idle" => worker.project \in Projects)
  /\ call \in [does : {"nothing", "on", "none"}, project : Projects \cup {NoProject}]
  /\ call # NoCall => call.project \in Projects /\ call.does # "nothing"

ProjectsOK ==
  /\ alive \subseteq Projects /\ touched \subseteq Projects
  /\ news \in [Projects -> Seq({"change", "delete"})]
  /\ memory \in [Projects -> {"none", "on", "lapsed"}]
  /\ noted \subseteq alive /\ unseen \subseteq alive
  /\ held \subseteq noted /\ letgo \subseteq Projects
  /\ call.does = "none" => call.project \notin held

\* A Run is only made for a request that was written, and the worker has read it.
RequestsOK ==
  /\ request \in [Projects -> Nat] /\ asked \in [Projects -> 0..MaxRequests]
  /\ made \in [Projects -> SUBSET Nat] /\ over \subseteq Projects
  /\ \A p \in Projects : request[p] \in {0, asked[p]} /\ made[p] \subseteq 1..asked[p]
  /\ worker.project \in Projects => worker.request <= asked[worker.project]

CountsOK == pauses \in 0..MaxPauses /\ troubled \in 0..MaxTroubles

Types == QueueOK(queue) /\ ActorsOK /\ ProjectsOK /\ RequestsOK /\ CountsOK

\* At first they hold.
LEMMA InitTypes == Init => Types
<1> SUFFICES ASSUME Init
             PROVE  Types
  OBVIOUS
<1>1. QueueOK(queue)
  BY EmptyQueue DEF Init
<1>2. ActorsOK /\ ProjectsOK /\ RequestsOK /\ CountsOK
  BY BoundsAssumption DEF Init, ActorsOK, ProjectsOK, RequestsOK, CountsOK, Workers, Idle, NoCall
<1> QED
  BY <1>1, <1>2 DEF Types

\* Where the worker comes to.
LEMMA WorkerMoves ==
  ASSUME worker \in Workers
  PROVE  /\ TakeKey => worker'.at = "read"
         /\ ReadProject => worker'.at \in {"idle", "check"}
         /\ CheckPause => worker'.at \in {"idle", "list"}
         /\ ListTasks => worker'.at \in {"idle", "requests"}
         /\ ServeRequest => worker'.at \in {"clear", "rest"}
         /\ clearAnnotation => worker'.at = "rest"
         /\ EndCycle \/ Restart => worker'.at = "idle"
<1>1. Idle.at = "idle"
  BY DEF Idle
<1>2. \A at : Busy(at) => worker'.at = at
  BY DEF Busy, Workers
<1>3. ReadProject => worker'.at \in {"idle", "check"}
  <2>1. \A b : [worker EXCEPT !.at = "check", !.noted = b].at = "check"
    BY DEF Workers
  <2> QED
    BY <1>1, <2>1 DEF ReadProject, LetGo, ItemFails
<1>4. ListTasks => worker'.at \in {"idle", "requests"}
  <2>1. \A n, b : [worker EXCEPT !.at = "requests", !.request = n, !.over = b].at = "requests"
    BY DEF Workers
  <2> QED
    BY <1>1, <2>1 DEF ListTasks, ItemFails
<1>5. TakeKey => worker'.at = "read"
  BY DEF TakeKey, Idle
<1> QED
  BY <1>1, <1>2, <1>3, <1>4, <1>5
  DEF CheckPause, ServeRequest, clearAnnotation, EndCycle, ItemDone, Restart, LetGo, RunMissing

\* The queue takes projects only.
LEMMA StepQueue ==
  ASSUME Types, [Next]_vars
  PROVE  QueueOK(queue)'
<1>0. QueueOK(queue) /\ ActorsOK /\ ProjectsOK
  BY DEF Types
<1>1. ASSUME NEW p \in Projects, enqueue(p)
      PROVE  QueueOK(queue)'
  BY <1>0, <1>1, AddedKey DEF enqueue
<1>2. ASSUME NEW p \in Projects, dequeue(p)
      PROVE  QueueOK(queue)'
  BY <1>0, <1>2, RemovedKey DEF dequeue
<1>3. CASE TakeKey
  BY <1>0, <1>3, TakenKey DEF TakeKey
<1>4. CASE PeriodicResync
  <2>1. PICK s \in SetToSeqs(alive \ ToSet(queue)) : queue' = queue \o s
    BY <1>4 DEF PeriodicResync
  <2> QED
    BY <1>0, <2>1, ResyncedKeys DEF ProjectsOK
<1>5. CASE Restart
  BY <1>5, EmptyQueue DEF Restart
<1>6. CASE ReadProject \/ CheckPause \/ ListTasks
  <2>1. worker.project \in Projects
    BY <1>0, <1>6 DEF ActorsOK, ReadProject, CheckPause, ListTasks, At
  <2> QED
    BY <1>0, <1>1, <1>6, <2>1 DEF ReadProject, CheckPause, ListTasks, ItemFails, LetGo
<1>7. ASSUME NEW p \in Projects, ProjectInformer(p) \/ TaskInformer(p)
      PROVE  QueueOK(queue)'
  BY <1>1, <1>2, <1>7 DEF ProjectInformer, TaskInformer
<1>8. CASE UNCHANGED queue
  BY <1>0, <1>8
<1> QED
  BY <1>3, <1>4, <1>5, <1>6, <1>7, <1>8
  DEF Next, Worker, Informers, Tools, Others, ServeRequest, clearAnnotation, EndCycle, ItemDone,
      Pause, Resume, AnnotatePause, PauseLapses, Change, RequestRun, TaskEnds, TaskResumes, DeleteProject,
      CreateProject, vars

\* The worker and the tools.
LEMMA StepActors ==
  ASSUME Types, [Next]_vars
  PROVE  ActorsOK'
<1>0. QueueOK(queue) /\ ActorsOK /\ ProjectsOK /\ RequestsOK
  BY DEF Types
<1>1. CASE UNCHANGED <<worker, call>>
  BY <1>0, <1>1 DEF ActorsOK
<1>2. worker' = Idle /\ (call' = call \/ call' = NoCall) => ActorsOK'
  BY <1>0 DEF ActorsOK, Workers, Idle, NoCall
<1>3. ASSUME worker' \in Workers, worker'.project \in Projects, UNCHANGED call
      PROVE  ActorsOK'
  BY <1>0, <1>3 DEF ActorsOK
<1>4. CASE TakeKey
  <2>1. Head(queue) \in Projects
    BY <1>0, <1>4, TakenKey DEF TakeKey
  <2> QED
    BY <1>3, <1>4, <2>1 DEF TakeKey, Idle, Workers, pausing
<1>5. CASE ReadProject \/ CheckPause \/ ListTasks \/ ServeRequest \/ clearAnnotation \/ EndCycle
  <2>1. worker \in Workers /\ worker.project \in Projects
    BY <1>0, <1>5 DEF ActorsOK, ReadProject, CheckPause, ListTasks, ServeRequest, clearAnnotation,
                      EndCycle, At
  <2>2. request[worker.project] \in Nat
    BY <2>1, <1>0 DEF RequestsOK
  <2>3. UNCHANGED call
    BY <1>5 DEF ReadProject, CheckPause, ListTasks, ServeRequest, clearAnnotation, EndCycle, pausing
  <2>4. ASSUME NEW at \in {"check", "list", "requests", "clear", "rest"}, Busy(at)
        PROVE  ActorsOK'
    BY <1>3, <2>1, <2>3, <2>4 DEF Busy, Workers
  <2>5. CASE ReadProject
    <3>1. ASSUME NEW b \in BOOLEAN, worker' = [worker EXCEPT !.at = "check", !.noted = b]
          PROVE  ActorsOK'
      BY <1>3, <2>1, <2>3, <3>1 DEF Workers
    <3>2. (worker.project \in noted) \in BOOLEAN
      OBVIOUS
    <3> QED
      BY <1>2, <2>3, <2>5, <3>1, <3>2 DEF ReadProject, LetGo, ItemFails
  <2>6. CASE ListTasks
    <3>1. ASSUME NEW b \in BOOLEAN, NEW n \in Nat,
                 worker' = [worker EXCEPT !.at = "requests", !.request = n, !.over = b]
          PROVE  ActorsOK'
      BY <1>3, <2>1, <2>3, <3>1 DEF Workers
    <3>2. (worker.project \in over) \in BOOLEAN
      OBVIOUS
    <3> QED
      BY <1>2, <2>2, <2>3, <2>6, <3>1, <3>2 DEF ListTasks, ItemFails
  <2>7. CASE CheckPause
    BY <1>2, <2>3, <2>4, <2>7 DEF CheckPause, LetGo
  <2>8. CASE ServeRequest \/ clearAnnotation
    BY <2>4, <2>8 DEF ServeRequest, clearAnnotation, RunMissing
  <2>9. CASE EndCycle
    BY <1>2, <2>3, <2>9 DEF EndCycle, ItemDone
  <2> QED
    BY <1>5, <2>5, <2>6, <2>7, <2>8, <2>9
<1>6. CASE Restart
  BY <1>2, <1>6 DEF Restart
<1>7. ASSUME NEW p \in Projects, Pause(p) \/ Resume(p)
      PROVE  ActorsOK'
  BY <1>0, <1>7 DEF Pause, Resume, ActorsOK, NoCall
<1>8. CASE AnnotatePause
  BY <1>0, <1>8 DEF AnnotatePause, ActorsOK, NoCall
<1>9. ASSUME NEW p \in Projects, PauseLapses(p)
      PROVE  ActorsOK'
  BY <1>0, <1>9 DEF PauseLapses, ActorsOK, Workers
<1> QED
  BY <1>1, <1>4, <1>5, <1>6, <1>7, <1>8, <1>9
  DEF Next, Worker, Informers, Tools, Others, ProjectInformer, TaskInformer, PeriodicResync,
      Change, RequestRun, TaskEnds, TaskResumes, DeleteProject, CreateProject, pausing, vars


\* An informer's news of a project.
LEMMA ToldNews ==
  ASSUME NEW s \in Seq({"change", "delete"})
  PROVE  /\ Told(s) \in Seq({"change", "delete"})
         /\ Told(s) # <<>> /\ Last(Told(s)) = "change"
<1>1. CASE s # <<>> /\ Last(s) = "change"
  BY <1>1 DEF Told
<1>2. CASE ~(s # <<>> /\ Last(s) = "change")
  <2>1. Told(s) = Append(s, "change")
    BY <1>2 DEF Told
  <2>2. /\ Append(s, "change") \in Seq({"change", "delete"})
        /\ Len(Append(s, "change")) = Len(s) + 1 /\ Append(s, "change")[Len(s) + 1] = "change"
        /\ Append(s, "change") # <<>>
    BY AppendProperties
  <2> QED
    BY <2>1, <2>2 DEF Last
<1> QED
  BY <1>1, <1>2

\* What is kept of the projects.
LEMMA StepProjects ==
  ASSUME Types, [Next]_vars
  PROVE  ProjectsOK'
<1>0. QueueOK(queue) /\ ActorsOK /\ ProjectsOK
  BY DEF Types
<1>1. CASE UNCHANGED <<alive, news, memory, noted, held, call>>
           /\ touched' \subseteq Projects /\ unseen' \subseteq alive /\ letgo' \subseteq Projects
  BY <1>0, <1>1 DEF ProjectsOK
<1>2. ASSUME NEW p, p \in Projects, Changed(p)
      PROVE  touched' \subseteq Projects /\ unseen' \subseteq alive
  BY <1>0, <1>2 DEF Changed, ProjectsOK
<1>3. CASE TakeKey \/ EndCycle
  BY <1>0, <1>1, <1>3 DEF TakeKey, EndCycle, ItemDone, pausing, ProjectsOK
<1>4. CASE ReadProject \/ CheckPause \/ ListTasks
  <2>1. worker.project \in Projects
    BY <1>0, <1>4 DEF ActorsOK, ReadProject, CheckPause, ListTasks, At
  <2>2. touched' \subseteq Projects /\ unseen' \subseteq alive /\ letgo' \subseteq Projects
        /\ UNCHANGED <<alive, news, memory, noted, held, call>>
    BY <1>0, <1>4, <2>1 DEF ReadProject, CheckPause, ListTasks, pausing, ItemFails, LetGo, enqueue,
                            ProjectsOK
  <2> QED
    BY <1>1, <2>2
<1>5. CASE ServeRequest \/ clearAnnotation
  <2>1. worker.project \in Projects
    BY <1>0, <1>5 DEF ActorsOK, ServeRequest, clearAnnotation, At
  <2>2. Changed(worker.project) \/ UNCHANGED <<touched, unseen>>
    BY <1>5 DEF ServeRequest, clearAnnotation, Unchanged
  <2>3. touched' \subseteq Projects /\ unseen' \subseteq alive
    BY <1>0, <1>2, <2>1, <2>2 DEF ProjectsOK
  <2>4. UNCHANGED <<alive, news, memory, noted, held, call, letgo>>
    BY <1>5 DEF ServeRequest, clearAnnotation, pausing
  <2> QED
    BY <1>0, <1>1, <2>3, <2>4 DEF ProjectsOK
<1>6. ASSUME NEW p \in Projects, ProjectInformer(p)
      PROVE  ProjectsOK'
  BY <1>0, <1>6 DEF ProjectInformer, enqueue, dequeue, pausing, ProjectsOK
<1>7. ASSUME NEW p \in Projects, TaskInformer(p)
      PROVE  ProjectsOK'
  BY <1>0, <1>7 DEF TaskInformer, enqueue, pausing, ProjectsOK
<1>8. CASE PeriodicResync
  BY <1>0, <1>8 DEF PeriodicResync, pausing, ProjectsOK
<1>9. CASE Restart
  BY <1>0, <1>9 DEF Restart, NoCall, ProjectsOK
<1>10. ASSUME NEW p \in Projects, Pause(p) \/ Resume(p)
       PROVE  ProjectsOK'
  BY <1>0, <1>10 DEF Pause, Resume, ProjectsOK, NoCall
<1>11. CASE AnnotatePause
  <2> DEFINE p == call.project
  <2>1. p \in Projects /\ call' = NoCall /\ UNCHANGED <<alive, touched, memory, unseen, letgo>>
    BY <1>0, <1>11 DEF AnnotatePause, ActorsOK
  <2>2. CASE UNCHANGED <<noted, news, held>>
    BY <1>0, <2>1, <2>2 DEF ProjectsOK, NoCall
  <2>3. CASE /\ p \in alive /\ noted' = IF call.does = "on" THEN noted \cup {p} ELSE noted \ {p}
             /\ news' = [news EXCEPT ![p] = Told(@)]
             /\ held' = IF call.does = "on" /\ memory[p] = "on" THEN held \cup {p} ELSE held
    <3>1. news' \in [Projects -> Seq({"change", "delete"})]
      BY <1>0, <2>1, <2>3, ToldNews DEF ProjectsOK
    <3>2. call.does \in {"on", "none"}
      BY <1>0, <1>11 DEF AnnotatePause, ActorsOK, NoCall
    <3>3. noted' \subseteq alive /\ held' \subseteq noted'
      BY <1>0, <2>3, <3>2 DEF ProjectsOK
    <3> QED
      BY <1>0, <2>1, <3>1, <3>3 DEF ProjectsOK, NoCall
  <2> QED
    BY <1>11, <2>2, <2>3 DEF AnnotatePause
<1>12. ASSUME NEW p \in Projects, PauseLapses(p)
       PROVE  ProjectsOK'
  BY <1>0, <1>12 DEF PauseLapses, ProjectsOK
<1>13. ASSUME NEW p \in Projects, Change(p) \/ RequestRun(p) \/ TaskEnds(p) \/ TaskResumes(p)
       PROVE  ProjectsOK'
  BY <1>0, <1>1, <1>2, <1>13 DEF Change, RequestRun, TaskEnds, TaskResumes, pausing, ProjectsOK
<1>14. ASSUME NEW p \in Projects, DeleteProject(p)
       PROVE  ProjectsOK'
  BY <1>0, <1>14 DEF DeleteProject, ProjectsOK
<1>15. ASSUME NEW p \in Projects, CreateProject(p)
       PROVE  ProjectsOK'
  BY <1>0, <1>15, ToldNews DEF CreateProject, pausing, ProjectsOK
<1>16. CASE UNCHANGED vars
  BY <1>0, <1>16 DEF vars, ProjectsOK
<1> QED
  BY <1>3, <1>4, <1>5, <1>6, <1>7, <1>8, <1>9, <1>10, <1>11, <1>12, <1>13, <1>14, <1>15, <1>16
  DEF Next, Worker, Informers, Tools, Others

\* The requests.
LEMMA StepRequests ==
  ASSUME Types, [Next]_vars
  PROVE  RequestsOK'
<1>0. ActorsOK /\ ProjectsOK /\ RequestsOK
  BY DEF Types
<1>1. ASSUME UNCHANGED tasks,
             \/ worker'.project = NoProject /\ worker'.request = 0
             \/ worker'.project \in Projects /\ worker'.request = 0
             \/ worker'.project = worker.project /\ worker'.request = worker.request
      PROVE  RequestsOK'
  <2>1. \A p \in Projects : asked[p] \in Nat
    BY <1>0, BoundsAssumption DEF RequestsOK
  <2> QED
    BY <1>0, <1>1, <2>1 DEF RequestsOK, tasks
<1>2. worker' = Idle /\ UNCHANGED tasks => RequestsOK'
  BY <1>1 DEF Idle
<1>3. CASE TakeKey
  <2>1. Head(queue) \in Projects
    BY <1>3, TakenKey DEF TakeKey, Types
  <2> QED
    BY <1>1, <1>3, <2>1 DEF TakeKey, Idle
<1>4. CASE ReadProject \/ CheckPause
  <2>1. worker \in Workers
    BY <1>0 DEF ActorsOK
  <2> QED
    BY <1>1, <1>2, <1>4, <2>1 DEF ReadProject, CheckPause, Busy, LetGo, ItemFails, Workers
<1>5. CASE ListTasks
  <2> DEFINE p == worker.project
  <2>1. p \in Projects /\ worker \in Workers /\ UNCHANGED tasks
    BY <1>0, <1>5 DEF ListTasks, At, ActorsOK
  <2>2. CASE ItemFails
    BY <1>2, <2>1, <2>2 DEF ItemFails
  <2>3. CASE worker' = [worker EXCEPT !.at = "requests", !.request = request[p],
                                      !.over = p \in over]
    <3>1. worker'.project = p /\ worker'.request = request[p]
      BY <2>1, <2>3 DEF Workers
    <3>2. request[p] \in {0, asked[p]} /\ asked[p] \in Nat
      BY <1>0, <2>1, BoundsAssumption DEF RequestsOK
    <3> QED
      BY <1>0, <2>1, <3>1, <3>2 DEF RequestsOK, tasks
  <2> QED
    BY <1>5, <2>2, <2>3 DEF ListTasks
<1>6. CASE ServeRequest
  <2> DEFINE p == worker.project
  <2>1. p \in Projects /\ worker \in Workers
    BY <1>0, <1>6 DEF ServeRequest, At, ActorsOK
  <2>2. UNCHANGED <<request, asked, over>> /\ worker'.project = p /\ worker'.request = worker.request
    BY <1>6, <2>1 DEF ServeRequest, Busy, Workers
  <2>3. made' = made \/ (worker.request # 0 /\ made' = [made EXCEPT ![p] = @ \cup {worker.request}])
    BY <1>6 DEF ServeRequest
  <2>4. worker.request \in Nat /\ asked[p] \in Nat /\ worker.request <= asked[p]
    BY <1>0, <2>1 DEF RequestsOK, Workers
  <2>5. made' \in [Projects -> SUBSET Nat] /\ \A q \in Projects : made'[q] \subseteq 1..asked[q]
    BY <1>0, <2>1, <2>3, <2>4 DEF RequestsOK
  <2> QED
    BY <1>0, <2>2, <2>5 DEF RequestsOK
<1>7. CASE clearAnnotation
  <2>1. worker \in Workers
    BY <1>0 DEF ActorsOK
  <2>2. worker'.project = worker.project /\ worker'.request = worker.request
        /\ UNCHANGED <<asked, over, made>>
    BY <1>7, <2>1 DEF clearAnnotation, Busy, Workers
  <2>3. request' = request \/ request' = [request EXCEPT ![worker.project] = 0]
    BY <1>7 DEF clearAnnotation
  <2> QED
    BY <1>0, <2>2, <2>3 DEF RequestsOK
<1>8. ASSUME NEW p \in Projects, RequestRun(p)
      PROVE  RequestsOK'
  <2>1. asked[p] \in Nat /\ asked[p] < MaxRequests /\ MaxRequests \in Nat
        /\ asked' = [asked EXCEPT ![p] = asked[p] + 1]
        /\ request' = [request EXCEPT ![p] = asked'[p]]
        /\ UNCHANGED <<worker, made, over>>
    BY <1>0, <1>8, BoundsAssumption DEF RequestRun, RequestsOK
  <2>2. \A q \in Projects : asked'[q] \in 0..MaxRequests /\ asked[q] <= asked'[q]
    BY <1>0, <2>1 DEF RequestsOK
  <2>3. worker.request \in Nat
    BY <1>0 DEF ActorsOK, Workers
  <2>4. worker.project \in Projects => worker.request <= asked'[worker.project]
    BY <1>0, <2>1, <2>2, <2>3 DEF RequestsOK
  <2>5. \A q \in Projects : request'[q] \in {0, asked'[q]} /\ made[q] \subseteq 1..asked'[q]
    BY <1>0, <2>1, <2>2 DEF RequestsOK
  <2>6. asked' \in [Projects -> 0..MaxRequests] /\ request' \in [Projects -> Nat]
    BY <1>0, <2>1, <2>2 DEF RequestsOK
  <2> QED
    BY <1>0, <2>1, <2>4, <2>5, <2>6 DEF RequestsOK
<1>9. ASSUME NEW p \in Projects, TaskEnds(p) \/ TaskResumes(p) \/ DeleteProject(p) \/ CreateProject(p)
      PROVE  RequestsOK'
  <2>1. UNCHANGED <<worker, asked, made>> /\ over' \subseteq Projects
        /\ (request' = request \/ request' = [request EXCEPT ![p] = 0])
    BY <1>0, <1>9 DEF TaskEnds, TaskResumes, DeleteProject, CreateProject, RequestsOK
  <2> QED
    BY <1>0, <2>1 DEF RequestsOK
<1>10. ASSUME NEW p \in Projects, PauseLapses(p)
       PROVE  RequestsOK'
  <2>1. worker \in Workers
    BY <1>0 DEF ActorsOK
  <2>2. UNCHANGED tasks /\ worker'.project = worker.project /\ worker'.request = worker.request
    BY <1>10, <2>1 DEF PauseLapses, Workers
  <2> QED
    BY <1>1, <2>2
<1>11. CASE UNCHANGED <<worker, tasks>>
  BY <1>1, <1>11
<1>12. CASE EndCycle \/ Restart
  BY <1>2, <1>12 DEF EndCycle, ItemDone, Restart
<1> QED
  BY <1>3, <1>4, <1>5, <1>6, <1>7, <1>8, <1>9, <1>10, <1>11, <1>12
  DEF Next, Worker, Informers, Tools, Others, ProjectInformer, TaskInformer, PeriodicResync,
      Pause, Resume, AnnotatePause, Change, vars, tasks

\* The counts stay within their bounds.
LEMMA StepCounts ==
  ASSUME Types, [Next]_vars
  PROVE  CountsOK'
<1>1. pauses' = pauses \/ (pauses < MaxPauses /\ pauses' = pauses + 1)
  BY DEF Next, Worker, Informers, Tools, Others, TakeKey, ReadProject, CheckPause, ListTasks,
         ServeRequest, clearAnnotation, EndCycle, ProjectInformer, TaskInformer, PeriodicResync,
         Restart, Pause, Resume, AnnotatePause, PauseLapses, Change, RequestRun, TaskEnds, TaskResumes,
         DeleteProject, CreateProject, pausing, vars
<1>2. troubled' = troubled \/ (troubled < MaxTroubles /\ troubled' = troubled + 1)
  BY DEF Next, Worker, Informers, Tools, Others, TakeKey, ReadProject, CheckPause, ListTasks,
         ServeRequest, clearAnnotation, EndCycle, ProjectInformer, TaskInformer, PeriodicResync,
         Restart, Pause, Resume, AnnotatePause, PauseLapses, Change, RequestRun, TaskEnds, TaskResumes,
         DeleteProject, CreateProject, Trouble, vars
<1>3. CountsOK
  BY DEF Types
<1> QED
  BY <1>1, <1>2, <1>3, BoundsAssumption DEF CountsOK

\* Every step keeps them.
LEMMA StepTypes ==
  ASSUME Types, [Next]_vars
  PROVE  Types'
BY StepQueue, StepActors, StepProjects, StepRequests, StepCounts DEF Types


-----------------------------------------------------------------------------
(* No change is lost. *)

\* The news of a project that exists end with a change: after a deletion comes
\* the creation that made it anew.
NewsInOrder == \A p \in alive : news[p] # <<>> => Last(news[p]) = "change"

\* Every step keeps a project's news in that order.
LEMMA StepNews ==
  ASSUME Types, NewsInOrder, [Next]_vars
  PROVE  NewsInOrder'
<1>0. ProjectsOK /\ ActorsOK
  BY DEF Types
<1>1. CASE UNCHANGED <<alive, news>>
  BY <1>1 DEF NewsInOrder
<1>2. ASSUME NEW p \in Projects, ProjectInformer(p)
      PROVE  NewsInOrder'
  <2>1. news' = [news EXCEPT ![p] = Tail(news[p])] /\ alive' = alive /\ news[p] # <<>>
    BY <1>2 DEF ProjectInformer
  <2>2. ASSUME p \in alive, Tail(news[p]) # <<>>
        PROVE  Last(Tail(news[p])) = "change"
    <3> DEFINE s == news[p]
               t == Tail(s)
    <3>1. /\ s \in Seq({"change", "delete"}) /\ t \in Seq({"change", "delete"})
          /\ Len(t) = Len(s) - 1 /\ Len(s) \in Nat /\ Len(t) # 0
          /\ \A i \in 1..Len(t) : t[i] = s[i + 1]
      BY <2>1, <2>2, <1>0 DEF ProjectsOK
    <3>2. s[Len(s)] = "change"
      BY <2>1, <2>2 DEF NewsInOrder, Last
    <3> HIDE DEF s, t
    <3>3. t[Len(t)] = s[Len(s)]
      BY <3>1
    <3> QED
      BY <3>2, <3>3 DEF Last, t, s
  <2>3. \A q \in alive : q \in Projects
    BY <1>0 DEF ProjectsOK
  <2>4. news'[p] = Tail(news[p]) /\ \A q \in Projects \ {p} : news'[q] = news[q]
    BY <2>1, <1>0 DEF ProjectsOK
  <2> QED
    BY <2>1, <2>2, <2>3, <2>4 DEF NewsInOrder
<1>3. ASSUME NEW p \in Projects,
             \/ news' = [news EXCEPT ![p] = Told(@)] /\ alive' \subseteq alive \cup {p}
             \/ alive' = alive \ {p} /\ news' = [news EXCEPT ![p] = Append(@, "delete")]
      PROVE  NewsInOrder'
  <2>1. alive' \subseteq Projects
    BY <1>0, <1>3 DEF ProjectsOK
  <2>2. \A q \in Projects \ {p} : news'[q] = news[q]
    BY <1>0, <1>3 DEF ProjectsOK
  <2>3. p \in alive' => Last(news'[p]) = "change"
    BY <1>0, <1>3, ToldNews DEF ProjectsOK
  <2>4. \A q \in alive' \ {p} : q \in alive
    BY <1>3
  <2> QED
    BY <2>1, <2>2, <2>3, <2>4 DEF NewsInOrder
<1>4. CASE AnnotatePause
  <2>1. call.project \in Projects /\ alive' = alive
    BY <1>0, <1>4 DEF AnnotatePause, ActorsOK
  <2>2. news' = news \/ news' = [news EXCEPT ![call.project] = Told(@)]
    BY <1>4 DEF AnnotatePause
  <2> QED
    BY <1>1, <1>3, <2>1, <2>2
<1>5. ASSUME NEW p \in Projects, DeleteProject(p) \/ CreateProject(p)
      PROVE  NewsInOrder'
  BY <1>3, <1>5 DEF DeleteProject, CreateProject
<1>6. CASE Restart
  BY <1>0, <1>6 DEF Restart, NewsInOrder, ProjectsOK
<1> QED
  BY <1>1, <1>2, <1>4, <1>5, <1>6
  DEF Next, Worker, Informers, Tools, Others, TakeKey, ReadProject, CheckPause, ListTasks,
      ServeRequest, clearAnnotation, EndCycle, TaskInformer, PeriodicResync, Pause, Resume,
      PauseLapses, Change, RequestRun, TaskEnds, TaskResumes, vars

\* What is on its way to be seen.
Coming(p) ==
  \/ p \in touched \cup ToSet(queue) \cup letgo \/ news[p] # <<>>
  \/ worker.project = p /\ worker.at \in {"read", "check", "list"}

\* A step that leaves no new change behind keeps those that come in coming.
LEMMA StepWakeUp ==
  ASSUME Types, NewsInOrder, NoWakeUpLost, [Next]_vars
  PROVE  NoWakeUpLost'
<1>0. QueueOK(queue) /\ ProjectsOK /\ ActorsOK /\ alive \subseteq Projects /\ unseen \subseteq alive
  BY DEF Types, ProjectsOK
<1>a. \A p \in unseen : p \in Projects /\ Coming(p)
  BY <1>0 DEF NoWakeUpLost, Coming
<1>b. ASSUME \A p \in unseen : p \in unseen' => Coming(p)',
             \A p \in unseen' \ unseen : p \in touched'
      PROVE  NoWakeUpLost'
  BY <1>b DEF NoWakeUpLost, Coming
<1>c. ASSUME NEW p, Changed(p)
      PROVE  touched \subseteq touched' /\ unseen' \subseteq unseen \cup touched'
  BY <1>c DEF Changed
<1>d. ASSUME NEW p \in Projects, enqueue(p)
      PROVE  ToSet(queue') = ToSet(queue) \cup {p} /\ letgo' = letgo \ {p}
  BY <1>0, <1>d, AddedKey DEF enqueue
<1>1. CASE TakeKey
  <2>1. ToSet(queue) = ToSet(queue') \cup {Head(queue)}
    BY <1>0, <1>1, TakenKey DEF TakeKey
  <2>2. worker'.project = Head(queue) /\ worker'.at = "read"
    BY <1>1 DEF TakeKey, Idle
  <2>3. UNCHANGED <<unseen, touched, news, letgo>> /\ worker.at = "idle"
    BY <1>1 DEF TakeKey, At
  <2> QED
    BY <1>a, <1>b, <2>1, <2>2, <2>3 DEF Coming
<1>2. CASE ReadProject \/ CheckPause \/ ListTasks
  <2> DEFINE p == worker.project
  <2>1. p \in Projects /\ UNCHANGED <<touched, news>>
    BY <1>0, <1>2 DEF ActorsOK, ReadProject, CheckPause, ListTasks, At
  <2>2. CASE ItemFails /\ UNCHANGED unseen
    BY <1>a, <1>b, <1>d, <2>1, <2>2 DEF ItemFails, Coming
  <2>3. CASE LetGo /\ UNCHANGED unseen
    BY <1>a, <1>b, <2>1, <2>3 DEF LetGo, Coming
  <2>4. CASE unseen' = unseen \ {p} /\ UNCHANGED <<queue, letgo>>
    BY <1>a, <1>b, <2>1, <2>4 DEF Coming
  <2>5. CASE UNCHANGED <<queue, letgo, unseen>> /\ worker'.project = p
             /\ worker'.at \in {"check", "list"}
    BY <1>a, <1>b, <2>1, <2>5 DEF Coming
  <2>6. worker \in Workers
    BY <1>0 DEF ActorsOK
  <2> QED
    BY <1>2, <2>2, <2>3, <2>4, <2>5, <2>6 DEF ReadProject, CheckPause, ListTasks, Busy, Workers
<1>3. CASE ServeRequest \/ clearAnnotation
  <2>1. worker.at \notin {"read", "check", "list"} /\ UNCHANGED <<queue, news, letgo>>
    BY <1>3 DEF ServeRequest, clearAnnotation, At
  <2>2. touched \subseteq touched' /\ unseen' \subseteq unseen \cup touched'
    BY <1>3, <1>c DEF ServeRequest, clearAnnotation, Unchanged
  <2> QED
    BY <1>a, <1>b, <2>1, <2>2 DEF Coming
<1>4. CASE EndCycle
  BY <1>4, <1>a, <1>b DEF EndCycle, At, ItemDone, Coming
<1>5. ASSUME NEW p \in Projects, ProjectInformer(p)
      PROVE  NoWakeUpLost'
  <2>1. UNCHANGED <<unseen, touched, worker>> /\ news[p] # <<>>
        /\ news' = [news EXCEPT ![p] = Tail(news[p])]
    BY <1>5 DEF ProjectInformer
  <2>2. news'[p] = Tail(news[p]) /\ \A q \in Projects \ {p} : news'[q] = news[q]
    BY <2>1, <1>0 DEF ProjectsOK
  <2>3. CASE Head(news[p]) = "change"
    <3>1. ToSet(queue') = ToSet(queue) \cup {p} /\ letgo' = letgo \ {p}
      BY <1>5, <1>d, <2>3 DEF ProjectInformer
    <3> QED
      BY <1>a, <1>b, <2>1, <2>2, <3>1 DEF Coming
  <2>4. CASE Head(news[p]) # "change"
    <3>1. ToSet(queue') = ToSet(queue) \ {p} /\ letgo' = letgo
      BY <1>0, <1>5, <2>4, RemovedKey DEF ProjectInformer, dequeue
    <3>2. p \in alive => Tail(news[p]) # <<>>
      <4> SUFFICES ASSUME p \in alive, Tail(news[p]) = <<>>
                   PROVE  FALSE
        OBVIOUS
      <4> DEFINE n == news[p]
      <4>1. n \in Seq({"change", "delete"}) /\ n # <<>> /\ Tail(n) = <<>>
        BY <1>0, <2>1 DEF ProjectsOK
      <4>2. Last(n) = "change" /\ Head(n) # "change"
        BY <2>1, <2>4 DEF NewsInOrder
      <4> HIDE DEF n
      <4>3. Len(Tail(n)) = Len(n) - 1 /\ Len(n) \in Nat /\ Head(n) = n[1]
        BY <4>1
      <4>4. Len(Tail(n)) = 0
        <5>1. Len(<<>>) = 0
          OBVIOUS
        <5> QED
          BY <4>1, <5>1, Zenon
      <4>5. Len(n) = 1
        BY <4>3, <4>4
      <4> QED
        BY <4>2, <4>3, <4>5 DEF Last
    <3> QED
      BY <1>0, <1>a, <1>b, <2>1, <2>2, <3>1, <3>2 DEF Coming
  <2> QED
    BY <2>3, <2>4
<1>6. ASSUME NEW p \in Projects, TaskInformer(p)
      PROVE  NoWakeUpLost'
  BY <1>6, <1>a, <1>b, <1>d DEF TaskInformer, Coming
<1>7. CASE PeriodicResync
  <2>1. PICK s \in SetToSeqs(alive \ ToSet(queue)) : queue' = queue \o s
    BY <1>7 DEF PeriodicResync
  <2>2. ToSet(queue') = ToSet(queue) \cup (alive \ ToSet(queue))
    BY <1>0, <2>1, ResyncedKeys
  <2> QED
    BY <1>0, <1>7, <1>b, <2>2 DEF PeriodicResync, Coming
<1>8. CASE Restart
  BY <1>0, <1>8, <1>b DEF Restart, Coming
<1>9. ASSUME NEW p \in Projects, Pause(p) \/ Resume(p)
      PROVE  NoWakeUpLost'
  BY <1>9, <1>a, <1>b DEF Pause, Resume, Coming
<1>10. CASE AnnotatePause
  <2>1. UNCHANGED <<unseen, touched, queue, letgo, worker>>
    BY <1>10 DEF AnnotatePause
  <2>2. news' = news \/ (call.project \in alive
                         /\ news' = [news EXCEPT ![call.project] = Told(news[call.project])])
    BY <1>10 DEF AnnotatePause
  <2>3. \A q \in Projects : news[q] # <<>> => news'[q] # <<>>
    BY <1>0, <2>2, ToldNews DEF ProjectsOK
  <2> QED
    BY <1>a, <1>b, <2>1, <2>3 DEF Coming
<1>11. ASSUME NEW p \in Projects, PauseLapses(p)
       PROVE  NoWakeUpLost'
  <2>1. worker \in Workers
    BY <1>0 DEF ActorsOK
  <2>2. worker'.project = worker.project /\ worker'.at = worker.at
    BY <1>11, <2>1 DEF PauseLapses, Workers
  <2> QED
    BY <1>11, <1>a, <1>b, <2>2 DEF PauseLapses, Coming
<1>12. ASSUME NEW p \in Projects, Change(p) \/ RequestRun(p) \/ TaskEnds(p) \/ TaskResumes(p)
       PROVE  NoWakeUpLost'
  <2>1. touched \subseteq touched' /\ unseen' \subseteq unseen \cup touched'
    BY <1>12, <1>c DEF Change, RequestRun, TaskEnds, TaskResumes
  <2> QED
    BY <1>12, <1>a, <1>b, <2>1 DEF Change, RequestRun, TaskEnds, TaskResumes, Coming
<1>13. ASSUME NEW p \in Projects, DeleteProject(p)
       PROVE  NoWakeUpLost'
  <2>1. unseen' = unseen \ {p} /\ touched' = touched \cup {p} /\ UNCHANGED <<queue, worker, letgo>>
    BY <1>13 DEF DeleteProject
  <2>2. \A q \in Projects \ {p} : news'[q] = news[q]
    BY <1>0, <1>13 DEF DeleteProject, ProjectsOK
  <2> QED
    BY <1>a, <1>b, <2>1, <2>2 DEF Coming
<1>14. ASSUME NEW p \in Projects, CreateProject(p)
       PROVE  NoWakeUpLost'
  <2>1. unseen' = unseen \cup {p} /\ touched' = touched \cup {p} /\ UNCHANGED <<queue, worker, letgo>>
    BY <1>14 DEF CreateProject
  <2>2. \A q \in Projects \ {p} : news'[q] = news[q]
    BY <1>0, <1>14 DEF CreateProject, ProjectsOK
  <2> QED
    BY <1>a, <1>b, <2>1, <2>2 DEF Coming
<1>15. CASE UNCHANGED vars
  BY <1>15, <1>a, <1>b DEF vars, Coming
<1> QED
  BY <1>1, <1>2, <1>3, <1>4, <1>5, <1>6, <1>7, <1>8, <1>9, <1>10, <1>11, <1>12, <1>13, <1>14, <1>15
  DEF Next, Worker, Informers, Tools, Others


-----------------------------------------------------------------------------
(* A pause on record holds, and a request is cleared when it was served. *)

\* The memory knows of the pause or, after a restart, the annotations tell the
\* worker of it, whose reading is not older than the restart.
PauseKnown ==
  \A p \in held :
    \/ memory[p] = "on"
    \/ memory[p] = "none" /\ (worker.at = "check" /\ worker.project = p => worker.noted)

\* Every step keeps the pause known.
LEMMA StepPause ==
  ASSUME Types, PauseKnown, [Next]_vars
  PROVE  PauseKnown'
<1>0. ProjectsOK /\ ActorsOK /\ worker \in Workers
  BY DEF Types, ActorsOK
<1>1. ASSUME held' \subseteq held, memory' = memory,
             \/ worker' = worker \/ worker'.at # "check"
      PROVE  PauseKnown'
  BY <1>1 DEF PauseKnown
<1>2. CASE TakeKey \/ CheckPause \/ ListTasks \/ ServeRequest \/ clearAnnotation \/ EndCycle
  <2>1. held' = held /\ memory' = memory
    BY <1>2 DEF TakeKey, CheckPause, ListTasks, ServeRequest, clearAnnotation, EndCycle, pausing
  <2>2. worker'.at # "check"
    BY <1>0, <1>2, WorkerMoves
  <2> QED
    BY <1>1, <2>1, <2>2
<1>3. CASE ReadProject
  <2>1. held' = held /\ memory' = memory
    BY <1>3 DEF ReadProject, pausing
  <2>2. CASE worker' = [worker EXCEPT !.at = "check", !.noted = worker.project \in noted]
    <3>1. worker'.project = worker.project /\ worker'.noted = (worker.project \in noted)
      BY <1>0, <2>2 DEF Workers
    <3> QED
      BY <1>0, <2>1, <3>1 DEF PauseKnown, ProjectsOK
  <2>3. CASE worker' = Idle
    BY <1>1, <2>1, <2>3 DEF Idle
  <2> QED
    BY <1>3, <2>2, <2>3 DEF ReadProject, LetGo, ItemFails
<1>4. CASE Restart
  BY <1>0, <1>4 DEF Restart, Idle, PauseKnown, ProjectsOK
<1>5. ASSUME NEW p \in Projects, Pause(p)
      PROVE  PauseKnown'
  BY <1>0, <1>5 DEF Pause, PauseKnown, ProjectsOK
<1>6. ASSUME NEW p \in Projects, Resume(p)
      PROVE  PauseKnown'
  BY <1>0, <1>6 DEF Resume, PauseKnown, ProjectsOK
<1>7. CASE AnnotatePause
  BY <1>7 DEF AnnotatePause, PauseKnown
<1>8. ASSUME NEW p \in Projects, PauseLapses(p)
      PROVE  PauseKnown'
  <2>1. held' = held \ {p} /\ \A q \in held' : memory'[q] = memory[q]
    BY <1>0, <1>8 DEF PauseLapses, ProjectsOK
  <2>2. \A q \in held' : worker'.at = "check" /\ worker'.project = q
                           => worker.at = "check" /\ worker.project = q /\ worker'.noted = worker.noted
    BY <1>0, <1>8, <2>1 DEF PauseLapses, Workers
  <2> QED
    BY <2>1, <2>2 DEF PauseKnown
<1>9. ASSUME NEW p \in Projects, DeleteProject(p)
      PROVE  PauseKnown'
  BY <1>1, <1>9 DEF DeleteProject
<1> QED
  BY <1>1, <1>2, <1>3, <1>4, <1>5, <1>6, <1>7, <1>8, <1>9
  DEF Next, Worker, Informers, Tools, Others, ProjectInformer, TaskInformer, PeriodicResync,
      Change, RequestRun, TaskEnds, TaskResumes, CreateProject, pausing, vars

\* A request that is about to be cleared was served, or its task is over.
ServedOrOver ==
  worker.at = "clear" => worker.over \/ worker.request \in made[worker.project]

\* Every step keeps it so.
LEMMA StepServed ==
  ASSUME Types, ServedOrOver, [Next]_vars
  PROVE  ServedOrOver'
<1>0. RequestsOK /\ ActorsOK /\ worker \in Workers
  BY DEF Types, ActorsOK
<1>1. CASE worker'.at # "clear" \/ UNCHANGED <<worker, made>>
  BY <1>1 DEF ServedOrOver
<1>2. CASE TakeKey \/ ReadProject \/ CheckPause \/ ListTasks \/ clearAnnotation \/ EndCycle \/ Restart
  BY <1>0, <1>1, <1>2, WorkerMoves
<1>3. CASE ServeRequest
  <2> DEFINE p == worker.project
  <2>1. p \in Projects
    BY <1>0, <1>3 DEF ServeRequest, At, ActorsOK
  <2>2. CASE Busy("rest")
    BY <1>0, <1>1, <2>2 DEF Busy, Workers
  <2>3. CASE Busy("clear") /\ (worker.over
               \/ made' = [made EXCEPT ![p] = @ \cup {worker.request}])
    BY <1>0, <2>1, <2>3 DEF Busy, Workers, ServedOrOver, RequestsOK
  <2> QED
    BY <1>3, <2>2, <2>3 DEF ServeRequest, RunMissing
<1>4. ASSUME NEW p \in Projects, PauseLapses(p)
      PROVE  ServedOrOver'
  BY <1>0, <1>4 DEF PauseLapses, tasks, Workers, ServedOrOver
<1> QED
  BY <1>1, <1>2, <1>3, <1>4
  DEF Next, Worker, Informers, Tools, Others, ProjectInformer, TaskInformer, PeriodicResync,
      Pause, Resume, AnnotatePause, Change, RequestRun, TaskEnds, TaskResumes, DeleteProject, CreateProject,
      tasks, vars

-----------------------------------------------------------------------------
(* The theorems. *)

\* At first there are no news, no pauses and no requests.
LEMMA InitRest == Init => NewsInOrder /\ NoWakeUpLost /\ PauseKnown /\ ServedOrOver
BY DEF Init, NewsInOrder, NoWakeUpLost, PauseKnown, ServedOrOver, Idle

\* The variables have their types, no project is in the queue twice, and no Run
\* is made for a request that nobody wrote.
THEOREM TypeCorrect == Spec => []TypeOK
<1>1. Types => TypeOK
  BY DEF Types, QueueOK, ActorsOK, ProjectsOK, RequestsOK, CountsOK, TypeOK, Workers, ToSet
<1> QED
  BY <1>1, InitTypes, StepTypes, PTL DEF Spec

\* However the informers, the worker, the resync, failures, restarts, pauses and
\* deletions interleave, a delivered change is not lost.
THEOREM WakeUpsKept == Spec => []NoWakeUpLost
BY InitTypes, InitRest, StepTypes, StepNews, StepWakeUp, PTL DEF Spec

\* No cycle of a project begins while its pause on record runs.
THEOREM PausesHold == Spec => PauseHolds
<1> DEFINE A == \A p \in held : ~(CheckPause /\ worker.project = p /\ worker'.at = "list")
<1>1. Types /\ PauseKnown /\ [Next]_vars => [A]_vars
  <2> SUFFICES ASSUME Types, PauseKnown, NEW p \in held, CheckPause, worker.project = p,
                      worker'.at = "list"
               PROVE  FALSE
    OBVIOUS
  <2>1. worker.at = "check"
    BY DEF CheckPause, At
  <2>2. effectivePauseState(p, worker.noted) = "on"
    BY <2>1 DEF PauseKnown, effectivePauseState
  <2> QED
    BY <2>2 DEF CheckPause, LetGo, Idle
<1>2. Init => PauseKnown
  BY InitRest
<1> QED
  BY <1>1, <1>2, InitTypes, StepTypes, StepPause, PTL DEF Spec, PauseHolds

\* The request that a cycle listed leaves the annotation only when it was served,
\* replaced, or its task is over.
THEOREM RequestsServed == Spec => ClearedWhenServed
<1> DEFINE A == \A p \in alive :
                  clearAnnotation /\ worker.project = p /\ request[p] # request'[p]
                    => request[p] \in made[p] \/ request[p] # worker.request \/ worker.over
<1>1. ServedOrOver => A
  BY DEF ServedOrOver, clearAnnotation, At
<1>2. Init => ServedOrOver
  BY InitRest
<1> QED
  BY <1>1, <1>2, InitTypes, StepTypes, StepServed, PTL DEF Spec, ClearedWhenServed

=============================================================================
