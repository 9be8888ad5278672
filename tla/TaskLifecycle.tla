--------------------------- MODULE TaskLifecycle ---------------------------
(***************************************************************************)
(* What the board promises about a task, with no word on how it is done:   *)
(* a task moves along the transition table, it starts over only with a     *)
(* larger attempt, and it launches a worker run only under an attempt      *)
(* larger than every attempt it launched before.                           *)
(*                                                                         *)
(* An attempt is the pair <<retryCount, aiReworkCount>> of the task's      *)
(* worker status, ordered lexicographically.  workerRunName hashes it into *)
(* the name of the worker run ("Both counters must be included to ensure   *)
(* each attempt gets a unique name", worker-builder.ts), and a run whose   *)
(* name is taken is adopted, not created; so the promise is that no launch *)
(* adopts the run of an earlier attempt.                                   *)
(***************************************************************************)
EXTENDS Integers, TaskPhases

CONSTANT Tasks

VARIABLES phase,     \* status.phase of the Task CR
          attempt,   \* <<status.worker.retryCount, status.worker.aiReworkCount>>
          launched   \* the attempt of status.worker.runName

vars == <<phase, attempt, launched>>

Attempt == Nat \X Nat

\* What a task that never launched a worker run has launched.
Nothing == <<-1, 0>>

Before(x, y) == x[1] < y[1] \/ (x[1] = y[1] /\ x[2] < y[2])

Init == /\ phase \in [Tasks -> {"idea", "pending"}]
        /\ attempt = [t \in Tasks |-> <<0, 0>>]
        /\ launched = [t \in Tasks |-> Nothing]

\* The task's attempt grows, the others' stay.
Raise(t) ==
  /\ attempt'[t] \in Attempt /\ Before(attempt[t], attempt'[t])
  /\ attempt' = [attempt EXCEPT ![t] = attempt'[t]]

\* The task goes back to work: a rework, or an automatic retry.
StartOver(t) ==
  /\ phase[t] # "idea"
  /\ \E p \in {"pending", "rework-requested"} :
       IsValidTransition(phase[t], p) /\ phase' = [phase EXCEPT ![t] = p]
  /\ Raise(t)
  /\ UNCHANGED launched

\* A reviewer has asked for changes once too often: the count of the rounds
\* grows though nothing is launched.
Escalate(t) ==
  /\ phase[t] = "reviewing"
  /\ phase' = [phase EXCEPT ![t] = "awaiting-human"]
  /\ Raise(t)
  /\ UNCHANGED launched

Launch(t) ==
  /\ phase[t] = "scheduled"
  /\ Before(launched[t], attempt[t])
  /\ phase' = [phase EXCEPT ![t] = "initializing"]
  /\ launched' = [launched EXCEPT ![t] = attempt[t]]
  /\ UNCHANGED attempt

Advance(t) ==
  /\ \E p \in TaskPhase \ {"initializing", "rework-requested"} :
       /\ IsValidTransition(phase[t], p)
       /\ p = "pending" => phase[t] = "idea"
       /\ phase' = [phase EXCEPT ![t] = p]
  /\ UNCHANGED <<attempt, launched>>

Next == \E t \in Tasks : StartOver(t) \/ Escalate(t) \/ Launch(t) \/ Advance(t)

Spec == Init /\ [][Next]_vars

=============================================================================
