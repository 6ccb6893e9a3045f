---------------------------- MODULE StagedRollout ----------------------------
(***************************************************************************)
(* Staged upgrades (ff-agent/upgrade_rollout.rs) over the fleet's task     *)
(* queue.  A rollout upgrades a canary stage first and the other targets   *)
(* after it; the leader's tick looks at the tasks of the current stage and *)
(* waits, halts the rollout, or composes the next stage.                   *)
(*                                                                         *)
(* The tasks of a wave, a build and a restart per target, follow TaskQueue,*)
(* which FleetTasks implements.  Creating a rollout and evaluating it are  *)
(* sequences of statements: looking for leases of the targets, composing a *)
(* wave, tagging its rows with the rollout and advancing the rollout are   *)
(* separate steps, and a process may stop between them.                    *)
(***************************************************************************)
EXTENDS Integers, FiniteSets

CONSTANTS
  Targets,       \* the computers to upgrade
  Arch,          \* architecture of each target
  Automatic,     \* started by the leader's drift check, or by an operator
  CanarySize,    \* --canary of an operator's rollout
  FailurePct,    \* failure_threshold_pct, 0 for an automatic rollout
  Leaders,       \* daemons whose leader cache says they lead
  Creator,       \* the process that creates the rollout
  MaxWaves,      \* bound: waves composed
  EventKinds,    \* the faults of this instance
  MaxEvents      \* bound on their number

Agents == Leaders \cup {Creator}
Waves == 1 .. MaxWaves
WaveTasks == Waves \X Targets \X {"build", "restart"}

ASSUME TargetsAssumption ==
  /\ Targets # {} /\ IsFiniteSet(Targets) /\ DOMAIN Arch = Targets
  /\ Automatic \in BOOLEAN /\ CanarySize \in Nat /\ FailurePct \in Nat
  /\ Automatic => FailurePct = 0
  /\ MaxWaves \in Nat /\ MaxEvents \in Nat /\ Creator \notin Leaders

VARIABLES
  rollout,   \* status, current_stage and canary_bake_started_at of the row
  wave,      \* the waves composed: stage, tagged with the rollout, parent's status
  state,     \* the tasks of the waves, see TaskQueue
  attempts,
  agent,     \* where a process is in its sequence of statements
  busy,      \* "leases" if targets hold leases on work items, "maintenance" if
             \* the leadership maintenance lease defers upgrades, else "free"
  fit,       \* the canaries completed work since the bake began
  events     \* faults so far

Q == INSTANCE TaskQueue WITH
  Tasks <- WaveTasks,
  needs <- [t \in WaveTasks |-> IF t[3] = "restart" THEN {<<t[1], t[2], "build">>} ELSE {}],
  MaxAttempts <- 1

taskVars == <<state, attempts>>
envVars == <<busy, fit, events>>
vars == <<rollout, wave, taskVars, agent, envVars>>

Idle == [at |-> "idle", stage |-> 0, from |-> 0, wave |-> 0, goal |-> "none"]
NoWave == [stage |-> 0, tagged |-> FALSE, parent |-> "none"]

Event(kind) == kind \in EventKinds /\ events < MaxEvents /\ events' = events + 1

\* The canary stage: plan_stages takes CanarySize of the targets, at least
\* one; an automatic rollout takes one target of each architecture.
Canaries ==
  IF Automatic
  THEN CHOOSE C \in SUBSET Targets :
         \A n \in Targets : Cardinality({d \in C : Arch[d] = Arch[n]}) = 1
  ELSE CHOOSE C \in SUBSET Targets :
         \/ Cardinality(C) = CanarySize /\ C # {}
         \/ Cardinality(C) = 1 /\ CanarySize = 0
         \/ C = Targets /\ CanarySize > Cardinality(Targets)

\* The stages 0 and 1 of a rollout; the second may be empty.
Stage(s) == IF s = 0 THEN Canaries ELSE Targets \ Canaries

\* Mutant: the number of stages is compared with the current one, not the next.
HasMoreOff(s) == s <= 1 /\ Stage(1) # {}

HasMore(s) == s = 0 /\ Stage(1) # {}

Init ==
  /\ rollout = [status |-> "none", stage |-> 0, bake |-> "unset"]
  /\ wave = [k \in Waves |-> NoWave]
  /\ Q!QueueInit
  /\ agent = [a \in Agents |-> Idle]
  /\ busy = "free" /\ fit = FALSE /\ events = 0

At(a, step) == agent[a].at = step
Goto(a, rec) == agent' = [agent EXCEPT ![a] = rec]
StepOf(step, s, from, k, goal) == [at |-> step, stage |-> s, from |-> from, wave |-> k, goal |-> goal]

-----------------------------------------------------------------------------
\* compose_stage: the waves.

TasksOf(k) == {t \in {k} \X Targets \X {"build", "restart"} : state[t] # "new"}
Live == {t \in WaveTasks : state[t] \in {"waiting", "owned"}}
InFlight == Live # {}
Composed == {k \in Waves : wave[k].parent # "none"}

\* The targets' leases are looked up; with any, nothing is composed.
CheckLeases(a) ==
  /\ At(a, "compose")
  /\ Goto(a, IF busy = "leases" THEN Idle
             ELSE StepOf("wave", agent[a].stage, agent[a].from, 0, agent[a].goal))
  /\ UNCHANGED <<rollout, wave, taskVars, envVars>>

\* compose_fleet_upgrade_wave_filtered refuses: because of the maintenance
\* lease, a wave in flight, or because no target but the leader is left.
Refused(a) == busy = "maintenance" \/ InFlight \/ Stage(agent[a].stage) \ {a} = {}
ComposeFails(a) ==
  /\ At(a, "wave") /\ Refused(a)
  /\ Goto(a, Idle)
  /\ UNCHANGED <<rollout, wave, taskVars, envVars>>

\* Or it inserts parent, builds and restarts at once.
ComposeWave(a) ==
  /\ At(a, "wave") /\ ~ Refused(a)
  /\ \E k \in Waves :
       /\ k = Cardinality(Composed) + 1
       /\ Q!Submit({t \in WaveTasks : t[1] = k /\ t[2] \in Stage(agent[a].stage) \ {a}})
       /\ wave' = [wave EXCEPT ![k] = [stage |-> agent[a].stage, tagged |-> FALSE,
                                        parent |-> "pending"]]
       /\ Goto(a, StepOf("tag", agent[a].stage, agent[a].from, k, agent[a].goal))
  /\ UNCHANGED <<rollout, envVars>>

\* The rows of the wave are tagged with the rollout and its stage.
Tag(a) ==
  /\ At(a, "tag")
  /\ wave' = [wave EXCEPT ![agent[a].wave].tagged = TRUE]
  /\ Goto(a, IF agent[a].goal = "advance"
             THEN StepOf("advance", agent[a].stage, agent[a].from, 0, "none") ELSE Idle)
  /\ UNCHANGED <<rollout, taskVars, envVars>>

\* create_staged_rollout and maybe_start_continuous_rollout: the row, and then
\* the canary stage.
Create ==
  /\ At(Creator, "idle") /\ rollout.status = "none"
  /\ rollout' = [rollout EXCEPT !.status = "in_progress"]
  /\ Goto(Creator, StepOf("compose", 0, 0, 0, "fill"))
  /\ UNCHANGED <<wave, taskVars, envVars>>

-----------------------------------------------------------------------------
\* run_once, the leader's tick.

Tagged(s) == {k \in Waves : wave[k].tagged /\ wave[k].stage = s}

\* tally_stage: the tasks and the parents of the tagged waves of a stage.
Count(s, tasks, parents) ==
  LET tagged == Tagged(s)
  IN Cardinality({t \in tagged \X Targets \X {"build", "restart"} : state[t] \in tasks})
       + Cardinality({k \in tagged : wave[k].parent \in parents})
Tally(s) ==
  [completed |-> Count(s, {"done"}, {"completed"}),
   failed |-> Count(s, {"failed", "cancelled"}, {"failed"}),
   running |-> Count(s, {"waiting", "owned"}, {"pending"})]

\* Mutant: a stage is judged although some of its tasks have not ended.
DecideEarly(tally, s) ==
  IF tally.failed > 0 THEN "halt" ELSE IF HasMore(s) THEN "advance" ELSE "complete"

\* Mutant: the canary is judged by the threshold on all tasks of its wave.
DecideLenient(tally, s) ==
  LET total == tally.completed + tally.failed
  IN IF tally.running > 0 THEN "wait"
     ELSE IF total > 0 /\ tally.failed > 0 /\ tally.completed = 0 THEN "halt"
     ELSE IF HasMore(s) THEN "advance" ELSE "complete"

\* decide_stage.
Decide(tally, s) ==
  LET total == tally.completed + tally.failed
      breach == IF s = 0 THEN tally.failed >= 1 ELSE tally.failed * 100 > total * FailurePct
  IN IF tally.running > 0 THEN "wait"
     ELSE IF total > 0 /\ breach THEN "halt"
     ELSE IF HasMore(s) THEN "advance" ELSE "complete"

\* load_in_progress.
Load(a) ==
  /\ At(a, "idle") /\ rollout.status = "in_progress"
  /\ Goto(a, StepOf("judge", rollout.stage, rollout.stage, 0, rollout.bake))
  /\ UNCHANGED <<rollout, wave, taskVars, envVars>>


\* An automatic rollout without tasks in its stage composes them, also again.
Refill(a) ==
  LET s == agent[a].stage
  IN /\ At(a, "judge") /\ Automatic /\ Tagged(s) = {}
     /\ Goto(a, StepOf("compose", s, s, 0, "fill"))
     /\ UNCHANGED <<rollout, wave, taskVars, envVars>>

\* canary_bake_passed with the bake's begin as the tick read it.
BakePassed(a) == agent[a].goal # "unset" /\ rollout.bake = "over" /\ fit

\* The decision, and for a canary that passed the bake.
Judge(a) ==
  LET s == agent[a].stage
      decision == Decide(Tally(s), s)
  IN /\ At(a, "judge")
     /\ Automatic => Tagged(s) # {}
     /\ \/ decision = "wait" /\ Goto(a, Idle) /\ UNCHANGED rollout
        \/ decision = "halt" /\ Goto(a, StepOf("halt", s, s, 0, "none")) /\ UNCHANGED rollout
        \/ /\ decision \in {"advance", "complete"} /\ s = 0 /\ ~ BakePassed(a)
           /\ Goto(a, Idle)
           /\ rollout' = [rollout EXCEPT !.bake = IF @ = "unset" THEN "running" ELSE @]
        \/ /\ decision = "complete" /\ (s = 0 => BakePassed(a))
           /\ Goto(a, StepOf("complete", s, s, 0, "none")) /\ UNCHANGED rollout
        \/ /\ decision = "advance" /\ (s = 0 => BakePassed(a))
           /\ Goto(a, StepOf("compose", s + 1, s, 0, "advance")) /\ UNCHANGED rollout
     /\ UNCHANGED <<wave, taskVars, envVars>>

\* The statements that end the rollout or move it on.
Settle(a, step, st) ==
  /\ At(a, step)
  /\ rollout' = IF rollout.status = "in_progress" THEN [rollout EXCEPT !.status = st] ELSE rollout
  /\ Goto(a, Idle)
  /\ UNCHANGED <<wave, taskVars, envVars>>
Halt(a) == Settle(a, "halt", "halted")
Complete(a) == Settle(a, "complete", "completed")

Advance(a) ==
  /\ At(a, "advance")
  /\ rollout' = IF rollout.status = "in_progress" /\ rollout.stage = agent[a].from
                THEN [rollout EXCEPT !.stage = agent[a].stage] ELSE rollout
  /\ Goto(a, Idle)
  /\ UNCHANGED <<wave, taskVars, envVars>>

\* A process stops between two statements; the next tick starts afresh.
StopAgent(a) ==
  /\ ~ At(a, "idle") /\ Event("stop")
  /\ Goto(a, Idle)
  /\ UNCHANGED <<rollout, wave, taskVars, busy, fit>>

-----------------------------------------------------------------------------
\* The tasks, the wave reaper and the targets.

RunTasks ==
  /\ \E t \in Live : Q!Begin(t) \/ Q!End(t, "done") \/ Q!End(t, "failed")
  /\ UNCHANGED <<rollout, wave, agent, envVars>>

\* An operator cancels a task.
CancelTask ==
  /\ Event("cancel")
  /\ \E t \in Live : Q!Withdraw({t})
  /\ UNCHANGED <<rollout, wave, agent, busy, fit>>

\* reap_pending_parents, as FleetTasks has it: orphaned restarts are cancelled
\* and a drained wave's parent gets its verdict.
CancelOrphans ==
  LET orphans == {t \in Live : /\ t[3] = "restart" /\ state[t] = "waiting"
                               /\ state[<<t[1], t[2], "build">>] \in {"failed", "cancelled"}}
  IN /\ orphans # {} /\ Q!Withdraw(orphans)
     /\ UNCHANGED <<rollout, wave, agent, envVars>>

RollUp(k) ==
  LET ended == {state[t] : t \in TasksOf(k)}
  IN /\ wave[k].parent = "pending" /\ ended \subseteq Q!Ended
     /\ wave' = [wave EXCEPT ![k].parent =
                   IF "failed" \notin ended /\ "done" \in ended THEN "completed" ELSE "failed"]
     /\ UNCHANGED <<rollout, taskVars, agent, envVars>>

\* Targets take work items or an operator hands the leadership over; they
\* finish.
GetBusy(reason) ==
  /\ busy = "free" /\ Event(reason)
  /\ busy' = reason
  /\ UNCHANGED <<rollout, wave, taskVars, agent, fit>>
GetFree ==
  /\ busy # "free" /\ busy' = "free"
  /\ UNCHANGED <<rollout, wave, taskVars, agent, fit, events>>

\* CANARY_BAKE_SECS pass; the canaries are seen and complete a work item.
BakeEnds ==
  /\ rollout.bake = "running"
  /\ rollout' = [rollout EXCEPT !.bake = "over"]
  /\ UNCHANGED <<wave, taskVars, agent, envVars>>
CanaryWorks ==
  /\ rollout.bake # "unset" /\ ~ fit
  /\ fit' = TRUE
  /\ UNCHANGED <<rollout, wave, taskVars, agent, busy, events>>

LeaderStep(a) ==
  \/ Load(a) \/ Refill(a) \/ Judge(a)
  \/ Halt(a) \/ Complete(a) \/ Advance(a)
AgentStep(a) == CheckLeases(a) \/ ComposeFails(a) \/ ComposeWave(a) \/ Tag(a)

Next ==
  \/ Create
  \/ \E a \in Leaders : LeaderStep(a)
  \/ \E a \in Agents : AgentStep(a) \/ StopAgent(a)
  \/ RunTasks \/ CancelTask \/ CancelOrphans
  \/ \E k \in Waves : RollUp(k)
  \/ GetBusy("leases") \/ GetBusy("maintenance") \/ GetFree \/ BakeEnds \/ CanaryWorks

Spec == Init /\ [][Next]_vars

\* The leader ticks, the queue ends its tasks (OwnedEnds of TaskQueue), the
\* reaper runs and the bake's time passes.  Nothing makes targets free or lets
\* canaries work.
Fairness ==
  /\ WF_vars(RunTasks) /\ WF_vars(CancelOrphans)
  /\ \A k \in Waves : WF_vars(RollUp(k))
  /\ \A a \in Agents : WF_vars(AgentStep(a))
  /\ \A a \in Leaders : WF_vars(LeaderStep(a))
  /\ WF_vars(BakeEnds)
FairSpec == Spec /\ Fairness

-----------------------------------------------------------------------------
\* Properties.

Rollout == [status : {"none", "in_progress", "halted", "completed"}, stage : {0, 1},
            bake : {"unset", "running", "over"}]
Wave == [stage : {0, 1}, tagged : BOOLEAN, parent : {"none", "pending", "completed", "failed"}]
Agent == [at : {"idle", "compose", "wave", "tag", "judge", "halt", "complete", "advance"},
          stage : {0, 1}, from : {0, 1}, wave : 0 .. MaxWaves,
          goal : {"none", "fill", "advance", "unset", "running", "over"}]

\* The row, the waves and the processes stay in their domains.
TypeOK ==
  /\ rollout \in Rollout
  /\ wave \in [Waves -> Wave]
  /\ state \in [WaveTasks -> Q!States]
  /\ attempts \in [WaveTasks -> {0, 1}]
  /\ agent \in [Agents -> Agent]
  /\ busy \in {"free", "leases", "maintenance"} /\ fit \in BOOLEAN /\ events \in 0 .. MaxEvents

Upgraded(n) == \E k \in Waves : wave[k].tagged /\ state[<<k, n, "restart">>] = "done"

\* Every canary was built and restarted by a wave of the rollout.  The machines
\* that compose the waves are left out of them.
CanaryPassed == \A n \in Stage(0) \ Agents : Upgraded(n)

\* A later stage is composed only after the canary stage was upgraded: a bad
\* build never passes the canary.
LaterStageWaits == (\E k \in Composed : wave[k].stage > 0) => CanaryPassed

\* For an automatic rollout, with a creator and a leader that overlap and may
\* stop half-way: neither a later stage nor the bake, whose evidence counts
\* from its begin, precedes the upgrade of every canary.
CanaryGates == Automatic => LaterStageWaits /\ (rollout.bake # "unset" => CanaryPassed)

\* An automatic rollout that says completed has upgraded every target but the
\* machines that compose its waves.
CompletedCovers ==
  Automatic /\ rollout.status = "completed" => \A n \in Targets \ Agents : Upgraded(n)

\* A canary that completes no work after the bake began, and a stage in which
\* nobody but a leader is left.
CanaryUnproven == rollout.bake = "over" /\ ~ fit
LeaderAlone == \E a \in Leaders, s \in {0, 1} : Stage(s) = {a}

=============================================================================
