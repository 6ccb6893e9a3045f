-------------------------- MODULE PipelineExecutor --------------------------
(***************************************************************************)
(* Pipelines (ff-pipeline): a graph of steps is built (graph.rs) and then  *)
(* executed (executor.rs).  The executor skips what depends on a failure,  *)
(* launches what is ready as tasks of their own, and waits for results;    *)
(* the tasks share a semaphore, try a step again when it fails, and send   *)
(* one result each.                                                        *)
(*                                                                         *)
(* The channel of results is a set: the executor takes them one by one and *)
(* nothing depends on their order.  The results map is left out, a step    *)
(* has a result when its status is terminal.  What a step computes and how *)
(* long retry_delay lasts are left out.                                    *)
(***************************************************************************)
EXTENDS Integers, FiniteSets

CONSTANTS
  Steps,           \* step ids
  AllowFailure,    \* steps with allow_failure
  Retries,         \* retries of each step
  MayPanic,        \* steps whose function may panic
  Shell,           \* steps of kind Shell: each attempt starts a process
  max_parallelism, \* permits of the semaphore
  DONE_CAP,        \* capacity of the channel of results
  EVENT_CAP        \* capacity of the event channel; its reader waits for the
                   \* end of the pipeline (fleet_crew in ff-mcp)

ASSUME StepsAssumption ==
  /\ IsFiniteSet(Steps) /\ AllowFailure \subseteq Steps
  /\ MayPanic \subseteq Steps \ Shell /\ Shell \subseteq Steps
  /\ Retries \in [Steps -> Nat]
ASSUME CapacityAssumption ==
  /\ max_parallelism \in Nat \ {0} /\ DONE_CAP \in Nat \ {0} /\ EVENT_CAP \in Nat

VARIABLES
  present,       \* steps of the graph
  dependencies,  \* reverse edges: what a step depends on
  dependents,    \* forward edges
  phase,         \* where the executor is
  todo,          \* steps left of the list the executor computed for this phase
  statuses,      \* as the executor knows them
  in_flight,     \* results the executor waits for
  task,          \* where the spawned task of a step is
  tries,         \* attempts of a step
  outcome,       \* last_result of a step's task
  processes,     \* steps whose command (sh -c) runs
  done,          \* results in the channel
  queued         \* events in the channel

graphVars == <<present, dependencies, dependents>>
mainVars == <<phase, todo, statuses, in_flight>>
taskVars == <<task, tries, outcome, processes, done>>
vars == <<graphVars, mainVars, taskVars, queued>>

Broken == {"failed", "timed_out", "skipped"}
Terminal == Broken \cup {"succeeded"}

Init ==
  /\ present = {}
  /\ dependencies = [s \in Steps |-> {}]
  /\ dependents = [s \in Steps |-> {}]
  /\ phase = "build" /\ todo = {} /\ in_flight = 0
  /\ statuses = [s \in Steps |-> "pending"]
  /\ task = [s \in Steps |-> "none"]
  /\ tries = [s \in Steps |-> 0]
  /\ outcome = [s \in Steps |-> "none"]
  /\ processes = {} /\ done = {} /\ queued = 0

-----------------------------------------------------------------------------
\* The graph.

\* has_cycle: along the edges E, some steps lead from each of them to one of them.
HasCycle(E) == \E C \in SUBSET Steps : C # {} /\ \A s \in C : E[s] \cap C # {}

\* topological_sort puts every step of P in order unless some are stuck: their
\* in-degrees, the numbers of their dependencies, are not counted down to zero
\* along the forward edges of all the others.
Stuck(C, P, rev, fwd) ==
  \A s \in C : Cardinality({n \in P \ C : s \in fwd[n]}) < Cardinality(rev[s])
Sortable(P, rev, fwd) == \A C \in SUBSET P : C # {} => ~ Stuck(C, P, rev, fwd)

AddStep(s) ==
  /\ phase = "build" /\ s \notin present
  /\ present' = present \cup {s}
  /\ UNCHANGED <<dependencies, dependents, mainVars, taskVars, queued>>

RemoveStep(s) ==
  /\ phase = "build" /\ s \in present
  /\ present' = present \ {s}
  /\ dependencies' = [n \in Steps |-> IF n = s THEN {} ELSE dependencies[n] \ {s}]
  /\ dependents' = [n \in Steps |-> IF n = s THEN {} ELSE dependents[n] \ {s}]
  /\ UNCHANGED <<mainVars, taskVars, queued>>

With(edges, from, to) == [edges EXCEPT ![from] = @ \cup {to}]
Without(edges, from, to) == [edges EXCEPT ![from] = @ \ {to}]

\* Mutant: the roll-back forgets what the step depends on.
AddDependencyHalfBack(dependent, dependency) ==
  LET forward == With(dependents, dependency, dependent)
      reverse == With(dependencies, dependent, dependency)
  IN /\ phase = "build" /\ {dependent, dependency} \subseteq present
     /\ dependent # dependency
     /\ dependents' =
          IF HasCycle(forward) THEN Without(forward, dependency, dependent) ELSE forward
     /\ dependencies' = reverse
     /\ UNCHANGED <<present, mainVars, taskVars, queued>>

\* Both maps get the edge, then the cycle is looked for, and an edge that
\* closes one is rolled back.
AddDependency(dependent, dependency) ==
  LET forward == With(dependents, dependency, dependent)
      reverse == With(dependencies, dependent, dependency)
  IN /\ phase = "build" /\ {dependent, dependency} \subseteq present
     /\ dependent # dependency
     /\ IF HasCycle(forward)
        THEN /\ dependents' = Without(forward, dependency, dependent)
             /\ dependencies' = Without(reverse, dependent, dependency)
        ELSE dependents' = forward /\ dependencies' = reverse
     /\ UNCHANGED <<present, mainVars, taskVars, queued>>

-----------------------------------------------------------------------------
\* execute, the loop.

Pending == {s \in present : statuses[s] = "pending"}

\* skippable_steps.
SkippableSteps ==
  {s \in Pending : \E d \in dependencies[s] : statuses[d] \in Broken /\ d \notin AllowFailure}

\* Mutant: what failed was skipped before, so any end of a dependency will do.
ReadyAfterAnyEnd ==
  {s \in Pending : \A d \in dependencies[s] : statuses[d] \in Terminal}

\* ready_steps.
ReadySteps ==
  {s \in Pending : \A d \in dependencies[s] :
     statuses[d] = "succeeded" \/ (d \in AllowFailure /\ statuses[d] \in Terminal)}

\* The top of the loop, after the result and its event were dealt with.
ToTop == phase' = "skip" /\ todo' = SkippableSteps

\* An empty graph, or one that cannot be sorted, is refused.
Execute ==
  /\ phase = "build"
  /\ IF present # {} /\ Sortable(present, dependencies, dependents)
     THEN ToTop ELSE phase' = "refused" /\ UNCHANGED todo
  /\ UNCHANGED <<graphVars, statuses, in_flight, taskVars, queued>>

\* send waits for room in the event channel, try_send does not.
SendEvent == queued < EVENT_CAP /\ queued' = queued + 1
TrySendEvent == queued' = IF queued < EVENT_CAP THEN queued + 1 ELSE queued

Skip(s) ==
  /\ phase = "skip" /\ s \in todo
  /\ statuses' = [statuses EXCEPT ![s] = "skipped"]
  /\ todo' = todo \ {s}
  /\ SendEvent
  /\ UNCHANGED <<graphVars, phase, in_flight, taskVars>>

EndSkip ==
  /\ phase = "skip" /\ todo = {}
  /\ phase' = "launch" /\ todo' = ReadySteps
  /\ UNCHANGED <<graphVars, statuses, in_flight, taskVars, queued>>

\* Mutant: the executor counts a pass of launches, not the launches.
LaunchUncounted(s) ==
  /\ phase = "launch" /\ s \in todo
  /\ statuses' = [statuses EXCEPT ![s] = "running"]
  /\ todo' = todo \ {s}
  /\ in_flight' = IF todo = {s} THEN in_flight + 1 ELSE in_flight
  /\ task' = [task EXCEPT ![s] = "queued"]
  /\ UNCHANGED <<graphVars, phase, tries, outcome, processes, done, queued>>

Launch(s) ==
  /\ phase = "launch" /\ s \in todo
  /\ statuses' = [statuses EXCEPT ![s] = "running"]
  /\ todo' = todo \ {s}
  /\ in_flight' = in_flight + 1
  /\ task' = [task EXCEPT ![s] = "queued"]
  /\ UNCHANGED <<graphVars, phase, tries, outcome, processes, done, queued>>

\* Mutant: the loop ends when no step is pending.
EndLaunchAll ==
  /\ phase = "launch" /\ todo = {}
  /\ phase' = IF in_flight = 0 /\ Pending = {} THEN "finish" ELSE "wait"
  /\ UNCHANGED <<graphVars, todo, statuses, in_flight, taskVars, queued>>

\* The loop ends when nothing is in flight.
EndLaunch ==
  /\ phase = "launch" /\ todo = {}
  /\ phase' = IF in_flight = 0 THEN "finish" ELSE "wait"
  /\ UNCHANGED <<graphVars, todo, statuses, in_flight, taskVars, queued>>

Receive(s) ==
  /\ phase = "wait" /\ s \in done
  /\ done' = done \ {s}
  /\ in_flight' = in_flight - 1
  /\ statuses' = [statuses EXCEPT ![s] = outcome[s]]
  /\ phase' = "report"
  /\ UNCHANGED <<graphVars, todo, task, tries, outcome, processes, queued>>

Report ==
  /\ phase = "report" /\ SendEvent
  /\ ToTop
  /\ UNCHANGED <<graphVars, statuses, in_flight, taskVars>>

\* Mutant: only time-outs count as failures.
SucceededUnlessTimedOut == \A s \in present : statuses[s] # "timed_out"

\* success, over the statuses the executor has.
Succeeded == \A s \in present : statuses[s] \notin {"failed", "timed_out"}

Return ==
  /\ phase = "finish" /\ SendEvent
  /\ phase' = IF Succeeded THEN "success" ELSE "failure"
  /\ UNCHANGED <<graphVars, todo, statuses, in_flight, taskVars>>

-----------------------------------------------------------------------------
\* The task of a step.

Holding == {s \in Steps : task[s] \in {"trying", "resting"}}

\* An attempt of a step of kind Shell starts a process.
Starts(s) == processes' = processes \cup ({s} \cap Shell)

\* The permit is acquired, and the first attempt begins.
Acquire(s) ==
  /\ task[s] = "queued" /\ Cardinality(Holding) < max_parallelism
  /\ task' = [task EXCEPT ![s] = "trying"]
  /\ tries' = [tries EXCEPT ![s] = 1]
  /\ Starts(s) /\ TrySendEvent
  /\ UNCHANGED <<graphVars, mainVars, outcome, done>>

Ends(s, result, next) ==
  /\ task[s] = "trying"
  /\ outcome' = [outcome EXCEPT ![s] = result]
  /\ task' = [task EXCEPT ![s] = next]
  /\ UNCHANGED <<graphVars, mainVars, tries, done, queued>>

\* The command was waited for.
Exits(s) == processes' = processes \ {s}

\* Mutant: one attempt too many.
TryOnceMore(s) ==
  \/ Ends(s, "succeeded", "sending") /\ Exits(s)
  \/ Ends(s, "timed_out", "sending") /\ UNCHANGED processes
  \/ Ends(s, "failed", IF tries[s] <= Retries[s] + 1 THEN "resting" ELSE "sending") /\ Exits(s)

\* Success and time-out end the task, a failure while attempts are left does
\* not.  The permit is dropped before the result is sent.  A time-out drops the
\* attempt and leaves the process it waited for to itself.
Try(s) ==
  \/ Ends(s, "succeeded", "sending") /\ Exits(s)
  \/ Ends(s, "timed_out", "sending") /\ UNCHANGED processes
  \/ Ends(s, "failed", IF tries[s] < Retries[s] + 1 THEN "resting" ELSE "sending") /\ Exits(s)

\* A process that nobody waits for ends.
StrayExits(s) ==
  /\ s \in processes /\ task[s] # "trying"
  /\ Exits(s)
  /\ UNCHANGED <<graphVars, mainVars, task, tries, outcome, done, queued>>

\* retry_delay is over.
Retry(s) ==
  /\ task[s] = "resting"
  /\ task' = [task EXCEPT ![s] = "trying"]
  /\ tries' = [tries EXCEPT ![s] = @ + 1]
  /\ Starts(s) /\ TrySendEvent
  /\ UNCHANGED <<graphVars, mainVars, outcome, done>>

Send(s) ==
  /\ task[s] = "sending" /\ Cardinality(done) < DONE_CAP
  /\ done' = done \cup {s}
  /\ task' = [task EXCEPT ![s] = "ended"]
  /\ UNCHANGED <<graphVars, mainVars, tries, outcome, processes, queued>>

\* The step's function panics: the task unwinds and sends nothing.
Panic(s) ==
  /\ task[s] = "trying" /\ s \in MayPanic
  /\ task' = [task EXCEPT ![s] = "panicked"]
  /\ UNCHANGED <<graphVars, mainVars, tries, outcome, processes, done, queued>>

Build ==
  \/ \E s \in Steps : AddStep(s) \/ RemoveStep(s)
  \/ \E s, d \in Steps : AddDependency(s, d)
Main ==
  \/ EndSkip \/ EndLaunch \/ Report \/ Return
  \/ \E s \in Steps : Skip(s) \/ Launch(s) \/ Receive(s)
TaskStep(s) == Acquire(s) \/ Try(s) \/ Retry(s) \/ Send(s)

Next ==
  \/ Build \/ Execute \/ Main
  \/ \E s \in Steps : TaskStep(s) \/ Panic(s) \/ StrayExits(s)

Spec == Init /\ [][Next]_vars

\* The runtime runs the executor and every spawned task; timeout bounds an
\* attempt, and the semaphore is fair.
Fairness == WF_vars(Main) /\ \A s \in Steps : WF_vars(TaskStep(s)) /\ SF_vars(Acquire(s))
FairSpec == Spec /\ Fairness

-----------------------------------------------------------------------------
\* Properties.

Phases == {"build", "refused", "skip", "launch", "wait", "report", "finish", "success", "failure"}

\* Graph, executor and tasks stay in their domains; a step is tried at most
\* once more than its retries, and the channels keep to their capacities.
TypeOK ==
  /\ present \subseteq Steps /\ todo \subseteq Steps /\ done \subseteq Steps
  /\ processes \subseteq Shell
  /\ dependencies \in [Steps -> SUBSET Steps]
  /\ dependents \in [Steps -> SUBSET Steps]
  /\ phase \in Phases
  /\ statuses \in [Steps -> Terminal \cup {"pending", "running"}]
  /\ in_flight \in 0 .. Cardinality(Steps)
  /\ task \in [Steps -> {"none", "queued", "trying", "resting", "sending", "ended", "panicked"}]
  /\ tries \in [Steps -> Nat] /\ \A s \in Steps : tries[s] <= Retries[s] + 1
  /\ outcome \in [Steps -> {"none", "succeeded", "failed", "timed_out"}]
  /\ queued \in 0 .. EVENT_CAP /\ Cardinality(done) <= DONE_CAP
  /\ Cardinality(Holding) <= max_parallelism

\* A graph built by these operations can always be sorted: cycle check,
\* roll-back and the removal of steps keep the two edge maps in step.
BuiltGraphRuns == phase = "refused" => present = {}

\* When execute returns, every task it spawned has sent its result and was
\* received.  What may still be at work is a command that timed out, and only
\* that: every other process was waited for, over all attempts.
NothingLeftRunning ==
  phase \in {"finish", "success", "failure"} =>
    /\ \A s \in Steps : task[s] \in {"none", "ended"}
    /\ \A s \in processes : statuses[s] = "timed_out"

\* A pipeline that reports success has succeeded in every step: nothing failed,
\* was skipped or was never reached.
SuccessIsTotal == phase = "success" => \A s \in present : statuses[s] = "succeeded"

\* Every step of a pipeline that returned has an end: it ran, or it was skipped
\* because of a failure before it, however far before.
EveryStepSettles ==
  phase \in {"success", "failure"} => \A s \in present : statuses[s] \in Terminal

\* The executor waits for ever only when a step's function panicked.
ExecuteReturns ==
  (phase = "skip") ~> (phase \in {"success", "failure"} \/ \E s \in Steps : task[s] = "panicked")

Seen(s) ==
  IF phase \in {"build", "refused"} \/ s \notin present THEN "new"
  ELSE CASE statuses[s] = "pending" -> "waiting"
         [] statuses[s] = "running" -> "owned"
         [] statuses[s] = "succeeded" -> "done"
         [] statuses[s] = "skipped" -> "cancelled"
         [] OTHER -> "failed"

Queue == INSTANCE TaskQueue WITH
  Tasks <- Steps,
  MaxAttempts <- 1,
  needs <- [s \in Steps |-> dependencies[s] \ AllowFailure],
  state <- [s \in Steps |-> Seen(s)],
  attempts <- [s \in Steps |-> IF task[s] = "none" THEN 0 ELSE 1]

\* A pipeline is a TaskQueue too: a step begins once, after all it needs
\* succeeded, its retries are attempts of one execution, and it ends once.
RefinesQueue == Queue!QueueSafe
=============================================================================
