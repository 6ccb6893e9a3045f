----------------------------- MODULE FleetTasks -----------------------------
(***************************************************************************)
(* The fleet_tasks queue (ff-agent/task_runner.rs): every daemon claims,   *)
(* runs and finishes tasks, every daemon hands off the tasks of workers    *)
(* that went quiet, and the leader's wave reaper (ff-agent/wave_reaper.rs) *)
(* rolls up the parents of upgrade waves.                                  *)
(*                                                                         *)
(* A statement is one step, except the claim: its subqueries read a        *)
(* snapshot and its row is locked until it commits, so that two claims can *)
(* overlap.  Time advances in units of HEARTBEAT_EVERY.                    *)
(*                                                                         *)
(* Left out: what a task's command does (a restart task restarts its       *)
(* target's daemon), priorities and routing, which choose between tasks    *)
(* that can be claimed, and the load gate, which skips a tick.             *)
(***************************************************************************)
EXTENDS Integers, FiniteSets

CONSTANTS
  Tasks,          \* rows of fleet_tasks
  Computers,      \* computers running the daemon
  None,           \* SQL NULL
  Kind,           \* "compound", "shell", "review", "build" or "restart"
  Eligible,       \* computers a task's preference, capabilities, routing mode
                  \* and the arbiter's reservations allow
  Excludes,       \* excludes_computer_ids: the target of a wave task
  Parent,         \* parent_task_id
  DependsOn,      \* depends_on_task_id
  Software,       \* what a wave task upgrades; the daemon's own software is one
                  \* family
  Barrier,        \* tasks with wait_for_siblings
  Batches,        \* sets of tasks inserted in one transaction
  FairShareMax,   \* FF_FAIR_SHARE_MAX_RUNNING, 6
  STUCK_AFTER,    \* STUCK_AFTER_SECS in heartbeats, 4
  MAX_HANDOFFS,   \* 3
  MAX_ITERATIONS, \* ticks of a runner, 100
  EventKinds,     \* the faults and commands of this instance
  MaxEvents       \* bound on their number

Runnable == {t \in Tasks : Kind[t] # "compound"}
Wave == {t \in Tasks : Kind[t] \in {"build", "restart"}}

ASSUME RowsAssumption ==
  /\ Kind \in [Tasks -> {"compound", "shell", "review", "build", "restart"}]
  /\ Eligible \in [Tasks -> SUBSET Computers] /\ Excludes \in [Tasks -> SUBSET Computers]
  /\ Parent \in [Tasks -> (Tasks \ Runnable) \cup {None}]
  /\ DependsOn \in [Tasks -> Runnable \cup {None}]
  /\ \A t \in Tasks : Kind[t] = "review" => DependsOn[t] = None
  /\ Barrier \subseteq Tasks /\ Batches \subseteq SUBSET Tasks
  /\ None \notin Tasks /\ None \notin Computers
\* The rows of a wave: the parent with all its children, in one transaction.
ASSUME FamiliesAssumption ==
  \A t \in Tasks : Parent[t] # None =>
    t \in Runnable /\ \A B \in Batches : t \in B <=> Parent[t] \in B
ASSUME LimitsAssumption ==
  /\ STUCK_AFTER \in Nat \ {0} /\ MAX_HANDOFFS \in Nat /\ MAX_ITERATIONS \in Nat
  /\ FairShareMax \in Nat /\ MaxEvents \in Nat

VARIABLES
  status,    \* of each row; "none" before it is inserted
  claimer,   \* claimed_by_computer_id
  age,       \* heartbeats since last_heartbeat_at, up to STUCK_AFTER + 1
  handoffs,  \* handoff_count
  claims,    \* how often a row was claimed (history)
  pick,      \* the row a computer's claim statement has locked
  doing,     \* the task a computer's runner executes
  due,       \* computers whose heartbeat loop has to beat before time goes on
  lost,      \* computers whose heartbeat loop returned StaleCancellation
  missed,    \* computers that missed a heartbeat of their task (history)
  ticks,     \* iterations of a computer's runner
  reaping,   \* parents the wave reaper read as drained
  up,        \* computers whose daemon runs
  cut,       \* computers that cannot reach Postgres
  events     \* faults and commands so far

rowVars == <<status, claimer, age, handoffs, claims>>
runVars == <<pick, doing, due, lost, missed, ticks>>
envVars == <<up, cut, events>>
vars == <<rowVars, runVars, reaping, envVars>>

Terminal == {"completed", "failed", "cancelled"}
Open == {"pending", "running"}

Init ==
  /\ status = [t \in Tasks |-> "none"]
  /\ claimer = [t \in Tasks |-> None]
  /\ age = [t \in Tasks |-> 0]
  /\ handoffs = [t \in Tasks |-> 0]
  /\ claims = [t \in Tasks |-> 0]
  /\ pick = [w \in Computers |-> None]
  /\ doing = [w \in Computers |-> None]
  /\ due = {} /\ lost = {} /\ missed = {}
  /\ reaping = {}
  /\ ticks = [w \in Computers |-> 0]
  /\ up = Computers /\ cut = {} /\ events = 0

\* One more fault or command, if this instance has the kind.
Event(kind) == kind \in EventKinds /\ events < MaxEvents /\ events' = events + 1

Connected(w) == w \in up \ cut
Locked(t) == \E w \in Computers : pick[w] = t

\* The statuses after the rows of S went to st.
Put(S, st) == [t \in Tasks |-> IF t \in S THEN st ELSE status[t]]

-----------------------------------------------------------------------------
\* Inserting rows.

\* pg_enqueue_shell_task and its variants, and compose_fleet_upgrade_wave,
\* whose advisory lock makes the check for a wave of the same software in
\* flight and the whole graph of parent, builds and restarts one step.
Enqueue(B) ==
  /\ \A t \in B : status[t] = "none"
  /\ \A t \in B \cap Wave, s \in Wave : Software[s] = Software[t] => status[s] \notin Open
  /\ status' = Put(B, "pending")
  /\ UNCHANGED <<claimer, age, handoffs, claims, runVars, reaping, envVars>>

-----------------------------------------------------------------------------
\* A tick of a runner: claim, run, finish.

\* The target of a wave task that runs claims nothing.
Quarantined(w) == \E q \in Wave : status[q] = "running" /\ w \in Excludes[q]

SiblingsDrained(t) ==
  t \in Barrier /\ Parent[t] # None =>
    ~ \E s \in Tasks \ {t} : Parent[s] = Parent[t] /\ s \notin Barrier /\ status[s] \in Open

\* Mutant: any terminal status of the build lets the restart go.
DependencyEnded(t) == DependsOn[t] # None => status[DependsOn[t]] \in Terminal

DependencyMet(t) == DependsOn[t] # None => status[DependsOn[t]] = "completed"

\* A restart waits until its target builds nothing for somebody else.
TargetBuildsNothing(t) ==
  Kind[t] = "restart" =>
    ~ \E b \in Tasks : Kind[b] = "build" /\ status[b] = "running" /\ claimer[b] \in Excludes[t]

Caller(t) == IF Parent[t] = None THEN t ELSE Parent[t]
FairShare(t) ==
  \/ Parent[t] = None \/ t \in Wave
  \/ Cardinality({s \in Tasks : Parent[s] = Parent[t] /\ status[s] = "running"}) < FairShareMax
  \/ ~ \E o \in Tasks : /\ status[o] = "pending" /\ Kind[o] \notin {"compound", "review"}
                        /\ Caller(o) # Caller(t)

\* What the claims of shell and of review tasks have in common.
Admits(t, w) == status[t] = "pending" /\ w \in Eligible[t] \ Excludes[t]

ShellClaimable(t, w) ==
  /\ Kind[t] \in {"shell", "build", "restart"} /\ Admits(t, w)
  /\ ~ Quarantined(w) /\ SiblingsDrained(t) /\ DependencyMet(t)
  /\ TargetBuildsNothing(t) /\ FairShare(t)

\* claim_review_task: only when there is no shell task, one at a time.
ReviewClaimable(t, w) ==
  /\ Kind[t] = "review" /\ Admits(t, w)
  /\ ~ \E s \in Tasks : ShellClaimable(s, w) /\ ~ Locked(s)
  /\ ~ \E r \in Tasks : Kind[r] = "review" /\ status[r] = "running" /\ claimer[r] = w

Idle(w) == Connected(w) /\ doing[w] = None /\ pick[w] = None /\ ticks[w] < MAX_ITERATIONS

\* The claim's subquery: it locks the row it found and skips locked ones.
Pick(w, t) ==
  /\ Idle(w) /\ ~ Locked(t)
  /\ ShellClaimable(t, w) \/ ReviewClaimable(t, w)
  /\ pick' = [pick EXCEPT ![w] = t]
  /\ UNCHANGED <<rowVars, doing, due, lost, missed, ticks, reaping, envVars>>

\* The claim commits; the heartbeat loop starts.
Claim(w, t) ==
  /\ pick[w] = t
  /\ status' = Put({t}, "running")
  /\ claimer' = [claimer EXCEPT ![t] = w]
  /\ age' = [age EXCEPT ![t] = 0]
  /\ claims' = [claims EXCEPT ![t] = @ + 1]
  /\ pick' = [pick EXCEPT ![w] = None]
  /\ doing' = [doing EXCEPT ![w] = t]
  /\ UNCHANGED <<handoffs, due, lost, missed, ticks, reaping, envVars>>

\* A tick that claims nothing: no work, or the load gate.
IdleTick(w) ==
  /\ Idle(w)
  /\ ticks' = [ticks EXCEPT ![w] = @ + 1]
  /\ UNCHANGED <<rowVars, pick, doing, due, lost, missed, reaping, envVars>>

\* Mutant: the heartbeat does not ask who holds the row.
HoldsByStatus(w, t) == status[t] = "running"

Holds(w, t) == status[t] = "running" /\ claimer[t] = w

\* One pass of the heartbeat loop that reached Postgres.
Heartbeat(w) ==
  /\ Connected(w) /\ w \in due
  /\ due' = due \ {w} /\ missed' = missed \ {w}
  /\ IF Holds(w, doing[w])
     THEN age' = [age EXCEPT ![doing[w]] = 0] /\ UNCHANGED lost
     ELSE lost' = lost \cup {w} /\ UNCHANGED age
  /\ UNCHANGED <<status, claimer, handoffs, claims, pick, doing, ticks, reaping, envVars>>

\* The runner leaves its task: the loop of heartbeats stops, the tick ends.
Leave(w) ==
  /\ doing' = [doing EXCEPT ![w] = None]
  /\ due' = due \ {w} /\ lost' = lost \ {w} /\ missed' = missed \ {w}
  /\ ticks' = [ticks EXCEPT ![w] = @ + 1]
  /\ UNCHANGED pick

\* Mutant: the completion statement is not gated on the status.
FinishUngated(w, outcome) ==
  /\ Connected(w) /\ doing[w] # None
  /\ Leave(w)
  /\ status' = IF w \notin lost THEN Put({doing[w]}, outcome) ELSE status
  /\ UNCHANGED <<claimer, age, handoffs, claims, reaping, envVars>>

\* The command ended or ran into its time-out.  The result is discarded if
\* the heartbeat loop says so, and otherwise stored in a running row, whoever
\* holds it by now.
Finish(w, outcome) ==
  /\ Connected(w) /\ doing[w] # None
  /\ Leave(w)
  /\ status' = IF w \notin lost /\ status[doing[w]] = "running"
               THEN Put({doing[w]}, outcome) ELSE status
  /\ UNCHANGED <<claimer, age, handoffs, claims, reaping, envVars>>

\* The statement that stores the result fails.
FinishUnstored(w) ==
  /\ w \in up \cap cut /\ doing[w] # None
  /\ Leave(w)
  /\ UNCHANGED <<rowVars, reaping, envVars>>

-----------------------------------------------------------------------------
\* handoff_stuck_tasks, by every runner's tick and every daemon's watchdog.

\* Mutant: a row is stale after as many heartbeats as a healthy worker may need.
StaleEarly(t) == status[t] = "running" /\ age[t] >= STUCK_AFTER

Stale(t) == status[t] = "running" /\ age[t] > STUCK_AFTER

\* Mutant: handing off does not count.
SweepUncounted ==
  LET stale == {t \in Tasks : Stale(t)}
  IN /\ stale # {} /\ \E w \in Computers : Connected(w)
     /\ status' = Put(stale, "pending")
     /\ claimer' = [t \in Tasks |-> IF t \in stale THEN None ELSE claimer[t]]
     /\ age' = [t \in Tasks |-> IF t \in stale THEN 0 ELSE age[t]]
     /\ UNCHANGED <<handoffs, claims, runVars, reaping, envVars>>

\* Mutant: rows that were handed off too often are left alone.
SweepAgain ==
  LET again == {t \in Tasks : Stale(t) /\ handoffs[t] < MAX_HANDOFFS}
  IN /\ again # {} /\ \E w \in Computers : Connected(w)
     /\ status' = Put(again, "pending")
     /\ claimer' = [t \in Tasks |-> IF t \in again THEN None ELSE claimer[t]]
     /\ age' = [t \in Tasks |-> IF t \in again THEN 0 ELSE age[t]]
     /\ handoffs' = [t \in Tasks |-> IF t \in again THEN handoffs[t] + 1 ELSE handoffs[t]]
     /\ UNCHANGED <<claims, runVars, reaping, envVars>>

\* Its two statements touch disjoint rows: a stale row goes back to the queue,
\* or fails once it was handed off MAX_HANDOFFS times.
Sweep ==
  LET stale == {t \in Tasks : Stale(t)}
      again == {t \in stale : handoffs[t] < MAX_HANDOFFS}
  IN /\ stale # {} /\ \E w \in Computers : Connected(w)
     /\ status' = [t \in Tasks |-> CASE t \in again -> "pending"
                                     [] t \in stale \ again -> "failed"
                                     [] OTHER -> status[t]]
     /\ claimer' = [t \in Tasks |-> IF t \in again THEN None ELSE claimer[t]]
     /\ age' = [t \in Tasks |-> IF t \in again THEN 0 ELSE age[t]]
     /\ handoffs' = [t \in Tasks |-> IF t \in again THEN handoffs[t] + 1 ELSE handoffs[t]]
     /\ UNCHANGED <<claims, runVars, reaping, envVars>>

\* Time: every connected worker beats once in a unit, claims are short.
Tick ==
  /\ \A w \in Computers : pick[w] = None /\ (Connected(w) => w \notin due)
  /\ age' = [t \in Tasks |-> IF status[t] = "running" /\ age[t] <= STUCK_AFTER
                             THEN age[t] + 1 ELSE age[t]]
  /\ due' = {w \in Computers : doing[w] # None /\ w \notin lost}
  /\ missed' = missed \cup due
  /\ UNCHANGED <<status, claimer, handoffs, claims, pick, doing, lost, ticks, reaping, envVars>>

-----------------------------------------------------------------------------
\* The wave reaper and the operator.

Children(p) == {t \in Tasks : Parent[t] = p /\ status[t] # "none"}
Orphaned(t) ==
  /\ status[t] = "pending" /\ Kind[t] = "restart" /\ DependsOn[t] # None
  /\ status[DependsOn[t]] \in {"failed", "cancelled"}

\* A pass of reap_pending_parents first cancels the restarts whose build did
\* not succeed.
CancelOrphans ==
  LET orphans == {t \in Tasks : Orphaned(t) /\ ~ Locked(t)}
  IN /\ reaping = {} /\ orphans # {}
     /\ status' = Put(orphans, "cancelled")
     /\ UNCHANGED <<claimer, age, handoffs, claims, runVars, reaping, envVars>>

\* Its SELECT of the parents whose children have all ended, by then; restarts
\* that were orphaned after the UPDATE are left to the next pass.
ReapRead ==
  LET drained == {p \in Tasks : /\ status[p] = "pending" /\ Children(p) # {}
                                /\ \A c \in Children(p) : status[c] \in Terminal}
  IN /\ reaping = {} /\ drained # {}
     /\ reaping' = drained
     /\ UNCHANGED <<rowVars, runVars, envVars>>

\* Mutant: one completed child is enough.
VerdictAny(p) ==
  LET ended == {status[c] : c \in Children(p)}
  IN IF "completed" \in ended THEN "completed" ELSE "failed"

\* The verdict over a parent's children.
Verdict(p) ==
  LET ended == {status[c] : c \in Children(p)}
  IN IF "failed" \notin ended /\ "completed" \in ended THEN "completed" ELSE "failed"

\* Its UPDATE of one parent, which does not ask for the status again.
ReapWrite(p) ==
  /\ p \in reaping
  /\ status' = Put({p}, Verdict(p))
  /\ reaping' = reaping \ {p}
  /\ UNCHANGED <<claimer, age, handoffs, claims, runVars, envVars>>

\* The leader stops in the middle of a pass.
ReapStop ==
  /\ reaping # {} /\ Event("leader stop")
  /\ reaping' = {}
  /\ UNCHANGED <<rowVars, runVars, up, cut>>

\* pg_cancel_task; the statement waits for a claim that holds the row.
Cancel(t) ==
  /\ status[t] \in Open /\ ~ Locked(t)
  /\ Event("cancel")
  /\ status' = Put({t}, "cancelled")
  /\ UNCHANGED <<claimer, age, handoffs, claims, runVars, reaping, up, cut>>

-----------------------------------------------------------------------------
\* Faults.

\* A daemon ends and with it its runner; an open claim is rolled back.
Halted(w) ==
  /\ pick' = [pick EXCEPT ![w] = None]
  /\ doing' = [doing EXCEPT ![w] = None]
  /\ due' = due \ {w} /\ lost' = lost \ {w} /\ missed' = missed \ {w}
  /\ ticks' = [ticks EXCEPT ![w] = 0]

Stop(w) ==
  /\ w \in up /\ Event("stop")
  /\ Halted(w) /\ up' = up \ {w}
  /\ UNCHANGED <<rowVars, reaping, cut>>

Start(w) ==
  /\ w \notin up
  /\ up' = up \cup {w}
  /\ UNCHANGED <<rowVars, runVars, reaping, cut, events>>

\* The command of a restart task restarts the daemon of its target.
RestartTarget(w, x) ==
  /\ w \in up /\ doing[w] # None
  /\ Kind[doing[w]] = "restart" /\ x \in Excludes[doing[w]] /\ x # w
  /\ Halted(x) /\ up' = up \cup {x}
  /\ UNCHANGED <<rowVars, reaping, cut, events>>

\* Postgres becomes unreachable for a computer, and reachable again.
Cut(w) ==
  /\ w \notin cut /\ Event("cut")
  /\ cut' = cut \cup {w} /\ pick' = [pick EXCEPT ![w] = None]
  /\ UNCHANGED <<rowVars, doing, due, lost, missed, ticks, reaping, up>>

Heal(w) ==
  /\ w \in cut
  /\ cut' = cut \ {w}
  /\ UNCHANGED <<rowVars, runVars, reaping, up, events>>

Next ==
  \/ \E B \in Batches : Enqueue(B)
  \/ \E w \in Computers :
       \/ \E t \in Tasks : Pick(w, t) \/ Claim(w, t)
       \/ IdleTick(w) \/ Heartbeat(w)
       \/ Finish(w, "completed") \/ Finish(w, "failed") \/ FinishUnstored(w)
       \/ Stop(w) \/ Start(w) \/ Cut(w) \/ Heal(w)
       \/ \E x \in Computers : RestartTarget(w, x)
  \/ Sweep \/ Tick
  \/ CancelOrphans \/ ReapRead \/ ReapStop
  \/ \E t \in Tasks : ReapWrite(t) \/ Cancel(t)

Spec == Init /\ [][Next]_vars

\* What the loops of a running daemon do again and again, that the service
\* unit restarts it, that connections come back, and that MAX_TASK_DURATION
\* ends every command.
Fairness ==
  /\ WF_vars(Tick) /\ WF_vars(Sweep)
  /\ \A w \in Computers :
       /\ WF_vars(\E t \in Tasks : Claim(w, t))
       /\ WF_vars(Heartbeat(w))
       /\ WF_vars(Finish(w, "completed") \/ Finish(w, "failed") \/ FinishUnstored(w))
       /\ WF_vars(Start(w)) /\ WF_vars(Heal(w))

FairSpec == Spec /\ Fairness

-----------------------------------------------------------------------------
\* Properties.

\* Rows, runners and the reaper stay in their domains; a claim holds a pending
\* row, heartbeats belong to tasks that run.
TypeOK ==
  /\ status \in [Tasks -> Open \cup Terminal \cup {"none"}]
  /\ claimer \in [Tasks -> Computers \cup {None}]
  /\ age \in [Tasks -> 0 .. STUCK_AFTER + 1]
  /\ handoffs \in [Tasks -> 0 .. MAX_HANDOFFS]
  /\ claims \in [Tasks -> 0 .. MAX_HANDOFFS + 1]
  /\ pick \in [Computers -> Runnable \cup {None}]
  /\ doing \in [Computers -> Runnable \cup {None}]
  /\ due \subseteq Computers /\ lost \subseteq Computers /\ missed \subseteq Computers
  /\ ticks \in [Computers -> 0 .. MAX_ITERATIONS]
  /\ reaping \subseteq Tasks
  /\ up \subseteq Computers /\ cut \subseteq Computers
  /\ events \in 0 .. MaxEvents

\* The command of a task that was handed off runs on beside that of the next
\* claimer, for up to max_duration, and the statement with its result asks for
\* status = 'running' only.  A running row is nevertheless ended by its holder,
\* or by a runner that missed a heartbeat and has sent none since: one that
\* could reach Postgres again was told of its loss before its command ended.
ResultOfHolder ==
  [][\A w \in Computers :
       LET t == doing[w]
       IN t # None /\ doing'[w] = None /\ status[t] = "running" /\ status'[t] # "running" =>
            claimer[t] = w \/ w \in missed]_vars

\* handoff_stuck_tasks takes a task only from a worker that stopped or was
\* restarted under its task, that lost the statement with its result, or that
\* could not send a heartbeat: never from one that executes the task and beats.
HandoffForCause ==
  [][\A t \in Tasks : status[t] = "running" /\ status'[t] = "pending" =>
       \A w \in Computers : claimer[t] = w /\ doing[w] = t => w \in missed]_vars

\* A wave whose parent was rolled up as completed has no failed child and no
\* child that could still fail.
RollUpHonest ==
  \A p \in Tasks : Kind[p] = "compound" /\ status[p] = "completed" =>
    /\ \A c \in Children(p) : status[c] \in {"completed", "cancelled"}
    /\ \E c \in Children(p) : status[c] = "completed"

\* The rows a runner can claim, seen as the tasks of a queue.
Seen(st) == CASE st = "none" -> "new"
              [] st = "pending" -> "waiting"
              [] st = "running" -> "owned"
              [] st = "completed" -> "done"
              [] OTHER -> st
NeedsOf(t) == IF DependsOn[t] = None THEN {} ELSE {DependsOn[t]}

Queue == INSTANCE TaskQueue WITH
  Tasks <- Runnable,
  MaxAttempts <- MAX_HANDOFFS + 1,
  needs <- [t \in Runnable |-> NeedsOf(t)],
  state <- [t \in Runnable |-> Seen(status[t])],
  attempts <- [t \in Runnable |-> claims[t]]

\* The queue that workers, watchdogs, wave reaper and operators implement
\* together is TaskQueue: a restart begins after its build is done, a task
\* begins at most MAX_HANDOFFS + 1 times, and what has ended stays ended,
\* late results and handoffs notwithstanding.
RefinesQueue == Queue!QueueSafe

\* No task stays running for ever: its worker finishes it or the watchdogs of
\* the others take it away.
ClaimEnds == Queue!OwnedEnds
=============================================================================
