---------------------------- MODULE DeferredQueue ----------------------------
(***************************************************************************)
(* The deferred task queue: the rows of fleet_tasks with task_class        *)
(* 'deferred' and the statements of ff-db/queries.rs on them, the worker   *)
(* loop every daemon runs (ff-agent/defer_worker.rs), the leader's         *)
(* scheduler pass, and the two recovery loops, the reaper of main.rs and   *)
(* the sweeper of ff-agent/job_sweeper.rs.                                 *)
(*                                                                         *)
(* Every SQL statement is one step.  An execution lies between the claim   *)
(* and the finish statement of a worker, and the sweeper's pass between    *)
(* its SELECT and its last UPDATE, with anything else in between.          *)
(*                                                                         *)
(* Times are relative to NOW(): not_before is kept as the time left until  *)
(* it, claimed_at as its age, both saturating beyond what is compared.     *)
(* claimed_by is never read by a statement and is left out.                *)
(***************************************************************************)
EXTENDS Integers, FiniteSets

CONSTANTS
  Tasks,         \* ids, generated by INSERT and never reused
  Workers,       \* daemons running the worker loop
  None,          \* SQL NULL as a node name
  Trigger,       \* trigger_type: "node_online", "at_time", "immediate"
  Target,        \* trigger_spec.node of a node_online task
  At,            \* time from enqueue to trigger_spec.at of an at_time task
  PreferredNode, \* preferred_node of a task, or None
  MaxAttempts,   \* max_attempts of a task
  Delays,        \* values of delay_secs a task may be enqueued with
  Permits,       \* max_concurrent of the worker's semaphore
  Capped,        \* tasks whose kind has a time limit: shell, upgrade, http
  Cap,           \* longest time between claim and finish of a capped execution
  StealAfter,    \* the 2 minutes after which another node's task is taken
  StaleAfter,    \* FORGEFLEET_TASK_REAP_SECS, on the clock of Postgres
  SweepAfter,    \* deferred_stale_after, on the clock of the leader's host
  SweepDelay,    \* the sweeper's new not_before
  MaxPower,      \* largest n for which POWER(5, n)::int does not overflow
  BackoffOf,     \* LEAST(240 min, POWER(5, n) min) for n in 1 .. MaxPower
  Crashable,     \* workers that may stop
  MaxClaims,     \* bound: claims per task
  CommandKinds,  \* the operator commands and faults of this instance
  MaxCommands    \* bound on their number

ASSUME TasksAssumption ==
  /\ None \notin Workers
  /\ Target \in [Tasks -> Workers]
  /\ PreferredNode \in [Tasks -> Workers \cup {None}]
  /\ Crashable \subseteq Workers
ASSUME TriggerAssumption == Trigger \in [Tasks -> {"node_online", "at_time", "immediate"}]
ASSUME TimesAssumption ==
  /\ At \in [Tasks -> Nat]
  /\ Delays \in [Tasks -> SUBSET Nat]
  /\ Capped \subseteq Tasks /\ Cap \in [Tasks -> Nat]
  /\ StealAfter \in Nat /\ SweepDelay \in Nat
  /\ StaleAfter \in Nat /\ SweepAfter \in Nat
ASSUME BackoffAssumption ==
  /\ MaxPower \in Nat
  /\ BackoffOf \in [1 .. MaxPower -> Nat]
ASSUME CountsAssumption ==
  /\ MaxAttempts \in [Tasks -> Int]
  /\ Permits \in [Workers -> Nat]
  /\ MaxClaims \in Nat /\ MaxCommands \in Nat

VARIABLES
  task,     \* the row of each task
  execs,    \* executions in progress
  sweep,    \* the sweeper's pass: the stuck rows of its SELECT still to write
  up,       \* workers whose loop runs
  commands, \* commands and faults so far
  claims,   \* history: claims of each task so far
  hold,     \* history: time left of the last promised delay or backoff
  wait      \* history: time since the task became dispatchable

vars == <<task, execs, sweep, up, commands, claims, hold, wait>>

Terminal == {"completed", "failed", "cancelled"}
Statuses == {"none", "pending", "dispatchable", "running", "gone"} \cup Terminal
NotClaimed == -1

\* due: not_before - NOW(), 0 also for NULL; age: NOW() - claimed_at;
\* at: time left until trigger_spec.at.
Row == [status : Statuses, attempts : Nat, due : Int, age : Int, at : Nat]
\* An execution is named by its task and the number of the claim.
Exec == [t : Tasks, k : Nat, w : Workers, age : Nat]
\* A row of the sweeper's SELECT: the attempts are the ones it read, k (which
\* no statement reads) is the claim that was running then.
Stuck == [t : Tasks, attempts : Nat, k : Nat]
NoPass == [on |-> FALSE, rows |-> {}]

NewRow == [status |-> "none", attempts |-> 0, due |-> 0, age |-> NotClaimed, at |-> 0]

Init ==
  /\ task = [t \in Tasks |-> NewRow]
  /\ execs = {} /\ sweep = NoPass /\ up = Workers /\ commands = 0
  /\ claims = [t \in Tasks |-> 0]
  /\ hold = [t \in Tasks |-> 0]
  /\ wait = [t \in Tasks |-> 0]

\* GREATEST and LEAST of the statements.
Greatest(a, b) == IF a > b THEN a ELSE b
Least(a, b) == IF a < b THEN a ELSE b

\* One more command or fault, if this instance has the kind.
Command(kind) ==
  kind \in CommandKinds /\ commands < MaxCommands /\ commands' = commands + 1

Has(t, statuses) == task[t].status \in statuses

-----------------------------------------------------------------------------
\* Enqueue and trigger.

\* pg_enqueue_deferred_delayed; a delay of 0 leaves not_before NULL.
Enqueue(t, delay) ==
  /\ Has(t, {"none"})
  /\ task' = [task EXCEPT ![t] =
                [NewRow EXCEPT !.status = "pending", !.due = delay, !.at = At[t]]]
  /\ hold' = [hold EXCEPT ![t] = delay]
  /\ UNCHANGED <<execs, sweep, up, commands, claims, wait>>

\* Mutant: the immediate triggers fire whatever the backoff.
FiresEagerly(t, online, stmts) ==
  /\ Has(t, {"pending"})
  /\ \/ Trigger[t] = "node_online" /\ stmts >= 1 /\ Target[t] \in online
     \/ Trigger[t] = "at_time" /\ stmts >= 2 /\ task[t].at = 0
     \/ Trigger[t] = "immediate" /\ stmts >= 3

\* The tasks promoted by the first stmts statements of a scheduler pass.
Fires(t, online, stmts) ==
  /\ Has(t, {"pending"})
  /\ \/ Trigger[t] = "node_online" /\ stmts >= 1 /\ Target[t] \in online
     \/ Trigger[t] = "at_time" /\ stmts >= 2 /\ task[t].at = 0
     \/ Trigger[t] = "immediate" /\ stmts >= 3 /\ task[t].due <= 0

\* Mutant: node_online keeps a not_before that has passed.
NewDueKept(t) == IF Trigger[t] = "node_online" THEN task[t].due ELSE 0

\* not_before = GREATEST(NOW(), not_before) for node_online, NOW() for the rest.
NewDue(t) == IF Trigger[t] = "node_online" THEN Greatest(task[t].due, 0) ELSE 0

Dispatchable(r, due) == [r EXCEPT !.status = "dispatchable", !.due = due]

\* The leader's pg_scheduler_pass.  An error ends it after stmts of its three
\* statements; they touch disjoint rows, so steps between them change nothing.
SchedulerPass(online, stmts) ==
  /\ \E t \in Tasks : Fires(t, online, stmts)
  /\ task' = [t \in Tasks |->
                IF Fires(t, online, stmts)
                THEN Dispatchable(task[t], NewDue(t))
                ELSE task[t]]
  /\ wait' = [t \in Tasks |-> IF Fires(t, online, stmts) THEN 0 ELSE wait[t]]
  /\ UNCHANGED <<execs, sweep, up, commands, claims, hold>>

\* pg_promote_deferred: the dashboard's "apply now".
Promote(t) ==
  /\ Command("promote") /\ Has(t, {"pending"})
  /\ task' = [task EXCEPT ![t] = Dispatchable(@, 0)]
  /\ hold' = [hold EXCEPT ![t] = 0]
  /\ wait' = [wait EXCEPT ![t] = 0]
  /\ UNCHANGED <<execs, sweep, up, claims>>

-----------------------------------------------------------------------------
\* The worker loop.

\* Mutant: a preferred node is binding for ever.
ClaimableAtHome(w, t) ==
  Has(t, {"dispatchable"}) /\ task[t].due <= 0 /\ PreferredNode[t] \in {None, w}

Claimable(w, t) ==
  /\ Has(t, {"dispatchable"})
  /\ task[t].due <= 0
  /\ PreferredNode[t] \in {None, w} \/ task[t].due <= -StealAfter

\* ORDER BY of pg_claim_deferred, up to the tie-break on created_at.
Precedence(w, t) ==
  IF PreferredNode[t] = w THEN 1 ELSE IF PreferredNode[t] = None THEN 2 ELSE 3

\* Mutant: the permit is dropped before the execution is spawned.
FreePermitDropped(w) == Permits[w] > 0

\* The executions of a worker hold its permits until they have finished.
FreePermit(w) == Cardinality({e \in execs : e.w = w}) < Permits[w]

\* drain_queue with a free permit: pg_claim_deferred takes the first claimable
\* row not locked by another transaction (FOR UPDATE SKIP LOCKED).
Claim(w, t) ==
  /\ w \in up /\ FreePermit(w)
  /\ Claimable(w, t) /\ claims[t] < MaxClaims
  /\ \E locked \in SUBSET (Tasks \ {t}) :
       /\ Cardinality(locked) < Cardinality(Workers)
       /\ \A u \in Tasks \ locked :
            Claimable(w, u) => Precedence(w, t) <= Precedence(w, u)
  /\ task' = [task EXCEPT ![t] = [@ EXCEPT !.status = "running", !.age = 0]]
  /\ claims' = [claims EXCEPT ![t] = @ + 1]
  /\ execs' = execs \cup {[t |-> t, k |-> claims[t] + 1, w |-> w, age |-> 0]}
  /\ UNCHANGED <<sweep, up, commands, hold, wait>>

\* The row without its claim and with a new status; claimed_at is read only of
\* running rows and set by every claim, so its age is kept only while running.
Unclaimed(r, status) == [r EXCEPT !.status = status, !.age = NotClaimed]

\* The row after one more failed attempt, with the given not_before.
AttemptSpent(t, due) ==
  [Unclaimed(task[t], IF task[t].attempts + 1 >= MaxAttempts[t] THEN "failed" ELSE "pending")
     EXCEPT !.attempts = @ + 1, !.due = due]

\* The execution succeeds and pg_finish_deferred records it.  The statement is
\* not conditional on the status; it only misses a deleted row.
FinishSuccess(e) ==
  /\ task' = IF Has(e.t, {"gone"}) THEN task
             ELSE [task EXCEPT ![e.t] = Unclaimed(@, "completed")]
  /\ execs' = execs \ {e}
  /\ UNCHANGED <<sweep, up, commands, claims, hold, wait>>

\* The execution fails (an error, an exit code, the wall-clock cap) and
\* pg_finish_deferred records it with the backoff.
FinishFailure(e) ==
  LET n == task[e.t].attempts + 1 IN
  /\ ~ Has(e.t, {"gone"})
  /\ n <= MaxPower
  /\ task' = [task EXCEPT ![e.t] = AttemptSpent(e.t, BackoffOf[n])]
  /\ hold' = [hold EXCEPT ![e.t] = BackoffOf[n]]
  /\ execs' = execs \ {e}
  /\ UNCHANGED <<sweep, up, commands, claims, wait>>

\* pg_finish_deferred changes nothing: the row is deleted, POWER overflows or
\* Postgres is away.  The worker logs it and frees the permit.
FinishLost(e) ==
  /\ \/ (Has(e.t, {"gone"}) \/ task[e.t].attempts + 1 > MaxPower) /\ UNCHANGED commands
     \/ Command("statement lost")
  /\ execs' = execs \ {e}
  /\ UNCHANGED <<task, sweep, up, claims, hold, wait>>

Finish(e) == FinishSuccess(e) \/ FinishFailure(e) \/ FinishLost(e)

\* The daemon crashes, is killed or shuts down: its executions go with it.
Stop(w) ==
  /\ Command("stop") /\ w \in up \cap Crashable
  /\ up' = up \ {w}
  /\ execs' = {e \in execs : e.w # w}
  /\ UNCHANGED <<task, sweep, claims, hold, wait>>

\* The daemon starts again, with an empty semaphore.
Start(w) ==
  /\ w \notin up
  /\ up' = up \cup {w}
  /\ UNCHANGED <<task, execs, sweep, commands, claims, hold, wait>>

-----------------------------------------------------------------------------
\* Recovery of rows left running.

\* Mutant: a claim of exactly the cut-off age is stale.
StaleInclusive(t, after) == Has(t, {"running"}) /\ task[t].age >= after

Stale(t, after) == Has(t, {"running"}) /\ task[t].age > after

\* pg_reap_stale_running, from the 10 minute tick of any daemon.
Reap ==
  LET stale == {t \in Tasks : Stale(t, StaleAfter)} IN
  /\ stale # {}
  /\ task' = [t \in Tasks |-> IF t \in stale THEN AttemptSpent(t, 0) ELSE task[t]]
  /\ hold' = [t \in Tasks |-> IF t \in stale THEN 0 ELSE hold[t]]
  /\ UNCHANGED <<execs, sweep, up, commands, claims, wait>>

\* The SELECT of sweep_stale, from the 5 minute tick of the leader, which
\* compares claimed_at with its own clock.
SweepRead ==
  /\ ~ sweep.on
  /\ sweep' = [on |-> TRUE,
               rows |-> {[t |-> t, attempts |-> task[t].attempts, k |-> claims[t]] :
                           t \in {u \in Tasks : Stale(u, SweepAfter)}}]
  /\ UNCHANGED <<task, execs, up, commands, claims, hold, wait>>

\* Mutant: the sweeper counts the attempt, as the reaper does, without
\* recording it.
SweptStatusCounting(s) == IF s.attempts + 1 >= MaxAttempts[s.t] THEN "failed" ELSE "pending"

\* The status the sweeper writes, from the attempts it read.
SweptStatus(s) == IF s.attempts >= MaxAttempts[s.t] THEN "failed" ELSE "pending"

\* One UPDATE of sweep_stale: by id only, whatever the row has become.
SweepWrite(s) ==
  /\ task' = IF Has(s.t, {"gone"}) THEN task
             ELSE [task EXCEPT ![s.t] = [Unclaimed(@, SweptStatus(s)) EXCEPT !.due = SweepDelay]]
  /\ hold' = IF Has(s.t, {"gone"}) THEN hold ELSE [hold EXCEPT ![s.t] = SweepDelay]
  /\ sweep' = [sweep EXCEPT !.rows = @ \ {s}]
  /\ UNCHANGED <<execs, up, commands, claims, wait>>

\* The UPDATE fails; the sweeper logs it and goes on with the next row.
SweepWriteLost(s) ==
  /\ Command("statement lost")
  /\ sweep' = [sweep EXCEPT !.rows = @ \ {s}]
  /\ UNCHANGED <<task, execs, up, claims, hold, wait>>

Delete(ts) == task' = [t \in Tasks |-> IF t \in ts THEN [NewRow EXCEPT !.status = "gone"] ELSE task[t]]

\* The end of the pass: terminal rows past the retention window are deleted.
SweepPrune ==
  /\ sweep.on /\ sweep.rows = {}
  /\ sweep' = NoPass
  /\ \/ UNCHANGED <<task, commands>>
     \/ Command("retention") /\ \E t \in Tasks : Has(t, Terminal) /\ Delete({t})
  /\ UNCHANGED <<execs, up, claims, hold, wait>>

\* The leader's daemon stops in the middle of the pass.
SweepStop ==
  /\ Command("stop") /\ sweep.on
  /\ sweep' = NoPass
  /\ UNCHANGED <<task, execs, up, claims, hold, wait>>

-----------------------------------------------------------------------------
\* Operator commands.

\* pg_cancel_deferred (from), pg_force_cancel_deferred (with running).
CancelFrom(t, from) ==
  /\ Has(t, from)
  /\ task' = [task EXCEPT ![t] = Unclaimed(@, "cancelled")]
  /\ UNCHANGED <<execs, sweep, up, claims, hold, wait>>
Cancel(t) == Command("cancel") /\ CancelFrom(t, {"pending", "dispatchable", "failed"})
ForceCancel(t) ==
  Command("force-cancel") /\ CancelFrom(t, {"pending", "dispatchable", "failed", "running"})

\* pg_retry_deferred: attempts stay what they were.
Retry(t) ==
  /\ Command("retry") /\ Has(t, {"failed", "cancelled"})
  /\ task' = [task EXCEPT ![t] = [Unclaimed(@, "pending") EXCEPT !.due = 0]]
  /\ hold' = [hold EXCEPT ![t] = 0]
  /\ UNCHANGED <<execs, sweep, up, claims, wait>>

\* pg_purge_deferred of one terminal status; old: the rows past the age gate.
Purge(status, old) ==
  /\ Command("purge") /\ status \in Terminal
  /\ \E t \in old : Has(t, {status})
  /\ Delete({t \in old : Has(t, {status})})
  /\ UNCHANGED <<execs, sweep, up, claims, hold, wait>>

-----------------------------------------------------------------------------
\* The row when a unit of time has passed.
Later(r) == [r EXCEPT
  !.due = Greatest(@ - 1, -StealAfter),
  !.age = IF @ = NotClaimed THEN @ ELSE Least(@ + 1, Greatest(StaleAfter, SweepAfter) + 1),
  !.at  = Greatest(@ - 1, 0)]

\* One unit of time.  No execution of a capped task outlives its cap; the age of
\* the others is kept up to the value of Cap.
Advance ==
  /\ \A e \in execs : e.t \in Capped => e.age < Cap[e.t]
  /\ task' = [t \in Tasks |-> Later(task[t])]
  /\ execs' = {[e EXCEPT !.age = Least(@ + 1, Cap[e.t])] : e \in execs}
  /\ hold' = [t \in Tasks |-> Greatest(hold[t] - 1, 0)]
  /\ wait' = [t \in Tasks |-> Least(wait[t] + 1, StealAfter)]
  /\ UNCHANGED <<sweep, up, commands, claims>>

Worker(w) == Stop(w) \/ Start(w) \/ \E t \in Tasks : Claim(w, t)
Sweeper ==
  \/ SweepRead
  \/ \E s \in sweep.rows : SweepWrite(s) \/ SweepWriteLost(s)
  \/ SweepPrune \/ SweepStop
Operator(t) == Promote(t) \/ Cancel(t) \/ ForceCancel(t) \/ Retry(t)

Next ==
  \/ \E t \in Tasks : Operator(t) \/ \E delay \in Delays[t] : Enqueue(t, delay)
  \/ \E online \in SUBSET Workers, stmts \in 1 .. 3 : SchedulerPass(online, stmts)
  \/ \E w \in Workers : Worker(w)
  \/ \E e \in execs : Finish(e)
  \/ Reap \/ Sweeper
  \/ \E status \in Terminal, old \in SUBSET Tasks : Purge(status, old)
  \/ Advance

Spec == Init /\ [][Next]_vars

\* The loops run for ever on the daemons that are up: the leader's pass over the
\* nodes that beat, each worker's drain, both recovery ticks; an execution ends.
Fairness ==
  /\ WF_vars(Advance)
  /\ WF_vars(SchedulerPass(up, 3))
  /\ \A w \in Workers, t \in Tasks : WF_vars(Claim(w, t))
  /\ \A t \in Tasks, k \in 1 .. MaxClaims :
       WF_vars(\E e \in execs : e.t = t /\ e.k = k /\ Finish(e))
  /\ WF_vars(Reap)
  /\ WF_vars(SweepRead) /\ WF_vars(\E s \in sweep.rows : SweepWrite(s)) /\ WF_vars(SweepPrune)

FairSpec == Spec /\ Fairness

-----------------------------------------------------------------------------
\* Every variable has its type; an execution carries a claim number that was
\* handed out, runs on a daemon that is up, and no daemon runs more of them than
\* its semaphore has permits.
TypeOK ==
  /\ task \in [Tasks -> Row]
  /\ execs \subseteq Exec
  /\ sweep \in [on : BOOLEAN, rows : SUBSET Stuck]
  /\ up \subseteq Workers
  /\ commands \in Nat
  /\ claims \in [Tasks -> Nat]
  /\ hold \in [Tasks -> Nat]
  /\ wait \in [Tasks -> Nat]
  /\ \A e \in execs : e.k <= claims[e.t] /\ e.w \in up
  /\ \A w \in Workers : Cardinality({e \in execs : e.w = w}) <= Permits[w]

\* A task is failed only once its attempts are used up, although finish, reaper
\* and sweeper each decide it by a test of their own and the sweeper from
\* attempts it read earlier.
FailedMeansExhausted ==
  \A t \in Tasks : Has(t, {"failed"}) => task[t].attempts >= MaxAttempts[t]

\* The executions a step starts.
NewClaims == {e \in execs' : e.k > claims[e.t]}

\* pg_claim_deferred takes another node's task only once it has been
\* dispatchable for the two minutes its comment speaks of, whatever wrote
\* not_before on the way there.
StealWaits ==
  [][\A e \in NewClaims : PreferredNode[e.t] \in {None, e.w} \/ wait[e.t] >= StealAfter]_vars

\* A task enqueued with a delay, backing off after a failure or put back by
\* the sweeper is not claimed before that time is over, however often the
\* scheduler passes, for the triggers other than at_time.
HoldHonoured ==
  [][\A e \in NewClaims : Trigger[e.t] = "at_time" \/ hold[e.t] = 0]_vars

\* A task whose executions end before either recovery loop calls them stale:
\* http (60 s) and any payload.max_duration_secs well below the two hours.  The
\* default cap, counted from the spawn of the child, ends just after them.
Short(t) == t \in Capped /\ Cap[t] <= StaleAfter /\ Cap[t] <= SweepAfter

\* The executions that go on through a step.
GoesOn(e) == \E f \in execs' : f.t = e.t /\ f.k = e.k

\* While a short task executes under its latest claim its row stays claimed: no
\* staleness test ever gives it to a second worker.  What does take the row away
\* is an operator's forced cancel, a sweeper that writes a row it read under an
\* earlier claim, and the finish of an execution of an earlier claim.
TakenBackForCause ==
  [][\A e \in execs :
       Short(e.t) /\ e.k = claims[e.t] /\ Has(e.t, {"running"}) /\ GoesOn(e) =>
         \/ task'[e.t].status = "running"
         \/ commands' = commands + 1 /\ task'[e.t].status = "cancelled"
         \/ \E s \in sweep.rows \ sweep'.rows : s.t = e.t /\ s.k < e.k
         \/ \E f \in execs \ execs' : f.t = e.t /\ f.k < e.k]_vars

\* An enqueued task ends, or waits for a node that is not there.
Settled(t) ==
  \/ Has(t, Terminal \cup {"none", "gone"})
  \/ Has(t, {"pending"}) /\ Trigger[t] = "node_online" /\ Target[t] \notin up
\* Crashed workers, lost finish statements, a backoff that overflows after
\* retries, a preferred node that is down, both recovery loops and the sweeper's
\* late writes: a short task still comes to a terminal status in the end.
EveryTaskSettles == \A t \in Tasks : Short(t) => <>[]Settled(t)

-----------------------------------------------------------------------------
\* What comments of the code say and the code does not do.

\* job_sweeper.rs: a terminal task "is done and will never run again"; for
\* completed there is not even an operator command that revives it.
CompletedIsFinal ==
  [][\A t \in Tasks : Has(t, {"completed"}) => task'[t].status \in {"completed", "gone"}]_vars
=============================================================================
