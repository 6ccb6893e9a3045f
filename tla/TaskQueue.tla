------------------------------ MODULE TaskQueue ------------------------------
(***************************************************************************)
(* What the fleet's task queue promises to those who submit work: a task   *)
(* waits until everything it needs is done, is owned while somebody works  *)
(* on it, may come back to the queue a bounded number of times, and ends   *)
(* once.  Who owns it and how a lost owner is noticed are not said here.   *)
(***************************************************************************)
EXTENDS Naturals

CONSTANTS
  Tasks,       \* the tasks
  MaxAttempts  \* how often a task may begin

VARIABLES
  needs,       \* the tasks that must be done before a task begins
  state,       \* of each task
  attempts     \* how often each task began

queueVars == <<needs, state, attempts>>

Ended == {"done", "failed", "cancelled"}
States == Ended \cup {"new", "waiting", "owned"}

QueueInit ==
  /\ needs \in [Tasks -> SUBSET Tasks]
  /\ state = [t \in Tasks |-> "new"]
  /\ attempts = [t \in Tasks |-> 0]

\* The states after the tasks of S went to st.
Moved(S, st) == [t \in Tasks |-> IF t \in S THEN st ELSE state[t]]

\* What a task needs is settled before it is submitted.
Plan ==
  /\ needs' \in [Tasks -> SUBSET Tasks]
  /\ \A t \in Tasks : needs'[t] # needs[t] => state[t] = "new"
  /\ UNCHANGED <<state, attempts>>

Submit(S) ==
  /\ \A t \in S : state[t] = "new"
  /\ state' = Moved(S, "waiting")
  /\ UNCHANGED <<needs, attempts>>

Begin(t) ==
  /\ state[t] = "waiting" /\ attempts[t] < MaxAttempts
  /\ \A n \in needs[t] : state[n] = "done"
  /\ state' = Moved({t}, "owned")
  /\ attempts' = [attempts EXCEPT ![t] = @ + 1]
  /\ UNCHANGED needs

End(t, outcome) ==
  /\ state[t] = "owned"
  /\ state' = Moved({t}, outcome)
  /\ UNCHANGED <<needs, attempts>>

\* Owners were lost: a task goes back to the queue while it may begin once
\* more, and fails otherwise.
Recover(S) ==
  /\ \A t \in S : state[t] = "owned"
  /\ state' = [t \in Tasks |-> IF t \notin S THEN state[t]
                               ELSE IF attempts[t] < MaxAttempts THEN "waiting"
                               ELSE "failed"]
  /\ UNCHANGED <<needs, attempts>>

Withdraw(S) ==
  /\ \A t \in S : state[t] \in {"waiting", "owned"}
  /\ state' = Moved(S, "cancelled")
  /\ UNCHANGED <<needs, attempts>>

QueueNext ==
  \/ Plan
  \/ \E S \in SUBSET Tasks : Submit(S) \/ Recover(S) \/ Withdraw(S)
  \/ \E t \in Tasks : Begin(t) \/ End(t, "done") \/ End(t, "failed")

\* The safety of the queue, and with it that nothing stays owned for ever.
QueueSafe == QueueInit /\ [][QueueNext]_queueVars
OwnedEnds == \A t \in Tasks : (state[t] = "owned") ~> (state[t] # "owned")
QueueSpec == QueueSafe /\ OwnedEnds
=============================================================================
