----------------------- MODULE PipelineExecutorProofs -----------------------
(***************************************************************************)
(* Theorems about pipelines for any steps, graphs, retries and capacities: *)
(* types, built graphs that can be sorted, nothing left running, success   *)
(* that is total, and that the executor implements TaskQueue.              *)
(***************************************************************************)
EXTENDS PipelineExecutor, FiniteSetTheorems, TLAPS

Running == {s \in Steps : statuses[s] = "running"}
Returned == {"finish", "success", "failure"}

\* The edge maps are each other's converse, lead between steps of the graph,
\* and have no cycle.
GraphInv ==
  /\ \A s, d \in Steps : d \in dependencies[s] <=> s \in dependents[d]
  /\ \A s, d \in Steps : d \in dependencies[s] => s \in present /\ d \in present
  /\ ~ HasCycle(dependents)

\* What the executor knows of a step and where its task is.
TaskInv ==
  \A s \in Steps :
    /\ statuses[s] # "pending" => s \in present
    /\ task[s] = "none" <=> statuses[s] \in {"pending", "skipped"}
    /\ task[s] \in {"queued", "trying", "resting", "sending", "panicked"} => statuses[s] = "running"
    /\ task[s] = "ended" => (s \in done <=> statuses[s] = "running")
    /\ s \in done => task[s] = "ended"
    /\ task[s] \in {"sending", "ended"} => outcome[s] # "none"
    /\ task[s] = "resting" => tries[s] <= Retries[s]
    /\ task[s] = "ended" /\ s \notin done => statuses[s] = outcome[s]
    /\ s \in processes =>
         task[s] = "trying" \/ (task[s] \in {"sending", "ended"} /\ outcome[s] = "timed_out")

\* The results in flight are the running steps; the loop ends without any.
CountInv ==
  /\ in_flight = Cardinality(Running)
  /\ phase \in Returned => Running = {}

\* The lists the executor works on are still what it computed, and when the
\* loop ends no step is ready.
PassInv ==
  /\ phase \in {"build", "refused"} => \A s \in Steps : statuses[s] = "pending"
  /\ phase = "skip" => todo \subseteq SkippableSteps
  /\ phase = "launch" => todo = ReadySteps
  /\ phase \in Returned => ReadySteps = {}

\* A skipped step has a dependency that failed or was skipped.
SkipInv ==
  \A s \in Steps : statuses[s] = "skipped" => \E d \in dependencies[s] : statuses[d] \in Broken

\* What the verdicts say.
VerdictInv ==
  /\ phase = "refused" => present = {}
  /\ phase = "success" => \A s \in present : statuses[s] = "succeeded"

Inv == TypeOK /\ GraphInv /\ TaskInv /\ CountInv /\ PassInv /\ SkipInv /\ VerdictInv

-----------------------------------------------------------------------------
\* Graphs.

\* In a finite graph without a cycle along the forward edges there is none
\* along the reverse edges: a smallest set of steps that each depend on one of
\* the set also leads forward, or the step that does not could be left out.
LEMMA SomeStepIsFree ==
  ASSUME GraphInv, TypeOK, NEW C \in SUBSET Steps, C # {}
  PROVE  \E s \in C : dependencies[s] \cap C = {}
<1> DEFINE Knot(D) == D # {} /\ \A s \in D : dependencies[s] \cap D # {}
           Knots == {D \in SUBSET Steps : Knot(D)}
           Less == StrictSubsetOrdering(Steps)
<1>1. SUFFICES ASSUME Knot(C) PROVE FALSE
  OBVIOUS
<1>2. PICK D \in Knots : \A E \in Knots : ~ (<<E, D>> \in Less)
  <2>1. IsWellFoundedOn(Less, SUBSET Steps)
    BY FS_StrictSubsetOrderingWellFounded, FS_FiniteSubsetsOfFinite, StepsAssumption
  <2>2. Knots \subseteq SUBSET Steps /\ Knots # {}
    BY <1>1
  <2> HIDE DEF Knots, Less
  <2> QED
    BY <2>1, <2>2, WFMin
<1>3. PICK s \in D : dependents[s] \cap D = {}
  BY <1>2 DEF GraphInv, HasCycle
<1>4. Knot(D \ {s})
  <2>1. \A t \in D : s \notin dependencies[t]
    BY <1>3 DEF GraphInv
  <2>2. PICK d \in dependencies[s] : d \in D
    BY <1>2
  <2> QED
    BY <1>2, <2>1, <2>2
<1>5. <<D \ {s}, D>> \in Less
  BY <1>2, <1>3 DEF StrictSubsetOrdering
<1> QED
  BY <1>2, <1>4, <1>5

\* A graph in which some step of every set of steps is free can be sorted.
LEMMA GraphSorts ==
  ASSUME GraphInv, TypeOK
  PROVE  Sortable(present, dependencies, dependents)
<1> SUFFICES ASSUME NEW C \in SUBSET present, C # {}, Stuck(C, present, dependencies, dependents)
             PROVE  FALSE
  BY DEF Sortable
<1>1. PICK s \in C : dependencies[s] \cap C = {}
  BY SomeStepIsFree DEF TypeOK
<1>2. {n \in present \ C : s \in dependents[n]} = dependencies[s]
  BY <1>1 DEF GraphInv, TypeOK
<1>3. Cardinality(dependencies[s]) < Cardinality(dependencies[s])
  BY <1>1, <1>2 DEF Stuck
<1>4. Cardinality(dependencies[s]) \in Nat
  BY FS_Subset, FS_CardinalityType, StepsAssumption DEF TypeOK
<1> QED
  BY <1>3, <1>4

-----------------------------------------------------------------------------
\* What leaves the parts of the invariant alone.

\* The steps of the executor leave the graph alone.
LEMMA GraphKept == ASSUME Inv, UNCHANGED graphVars PROVE GraphInv'
BY DEF Inv, GraphInv, HasCycle, graphVars

\* The steps of the tasks leave all that the executor knows alone.
LEMMA MainKept ==
  ASSUME Inv, UNCHANGED <<graphVars, mainVars>>
  PROVE  GraphInv' /\ CountInv' /\ PassInv' /\ SkipInv' /\ VerdictInv'
<1>1. GraphInv'
  BY GraphKept
<1>2. Running' = Running
  BY DEF Running, mainVars
<1>3. Pending' = Pending /\ SkippableSteps' = SkippableSteps /\ ReadySteps' = ReadySteps
  BY DEF Pending, SkippableSteps, ReadySteps, graphVars, mainVars
<1>4. CountInv' /\ PassInv'
  BY <1>2, <1>3 DEF Inv, CountInv, PassInv, mainVars
<1>5. SkipInv' /\ VerdictInv'
  BY DEF Inv, SkipInv, VerdictInv, graphVars, mainVars
<1> QED
  BY <1>1, <1>4, <1>5

\* A step of the executor that changes no status.
LEMMA StatusesKept ==
  ASSUME Inv, UNCHANGED <<graphVars, statuses, in_flight, taskVars>>
  PROVE  /\ GraphInv' /\ TaskInv' /\ SkipInv' /\ Running' = Running /\ Holding' = Holding
         /\ Pending' = Pending /\ SkippableSteps' = SkippableSteps /\ ReadySteps' = ReadySteps
<1>1. GraphInv'
  BY GraphKept
<1>2. TaskInv'
  BY DEF Inv, TaskInv, graphVars, taskVars
<1>3. SkipInv'
  BY DEF Inv, SkipInv, graphVars
<1>4. Running' = Running /\ Holding' = Holding
  BY DEF Running, Holding, taskVars
<1>5. Pending' = Pending /\ SkippableSteps' = SkippableSteps /\ ReadySteps' = ReadySteps
  BY DEF Pending, SkippableSteps, ReadySteps, graphVars
<1> QED
  BY <1>1, <1>2, <1>3, <1>4, <1>5

\* Sets of steps are finite, and so is what is counted.
LEMMA Finite ==
  ASSUME NEW S \in SUBSET Steps
  PROVE  /\ IsFiniteSet(S) /\ Cardinality(S) \in Nat
         /\ Cardinality(S) <= Cardinality(Steps) /\ Cardinality(Steps) \in Nat
BY FS_Subset, FS_CardinalityType, StepsAssumption

-----------------------------------------------------------------------------
\* Building.

\* The graph is empty, and every step pending.
LEMMA InitInv == Init => Inv
<1> SUFFICES ASSUME Init PROVE Inv
  OBVIOUS
<1>1. Holding = {} /\ Running = {}
  BY DEF Init, Holding, Running
<1>2. Cardinality({}) = 0 /\ Cardinality(Steps) \in Nat
  BY FS_EmptySet, FS_CardinalityType, StepsAssumption
<1>3. TypeOK
  BY <1>1, <1>2, StepsAssumption, CapacityAssumption DEF Init, TypeOK, Phases, Terminal
<1>4. GraphInv
  BY DEF Init, GraphInv, HasCycle
<1>5. TaskInv /\ SkipInv
  BY DEF Init, TaskInv, SkipInv
<1>6. CountInv /\ PassInv /\ VerdictInv
  BY <1>1, <1>2 DEF Init, CountInv, PassInv, VerdictInv, Returned
<1> QED
  BY <1>3, <1>4, <1>5, <1>6 DEF Inv

\* While the graph is built nothing runs: only the graph's part is at stake.
LEMMA BuildInv ==
  ASSUME Inv, phase = "build", UNCHANGED <<mainVars, taskVars, queued>>, GraphInv',
         present' \in SUBSET Steps,
         dependencies' \in [Steps -> SUBSET Steps], dependents' \in [Steps -> SUBSET Steps]
  PROVE  Inv'
<1> USE DEF mainVars, taskVars
<1>1. Holding' = Holding /\ Running' = Running
  BY DEF Holding, Running
<1>2. \A s \in Steps : statuses[s] = "pending"
  BY DEF Inv, PassInv
<1>3. TypeOK'
  BY <1>1 DEF Inv, TypeOK
<1>4. TaskInv' /\ SkipInv'
  BY <1>2 DEF Inv, TaskInv, SkipInv
<1>5. CountInv' /\ PassInv' /\ VerdictInv'
  BY <1>1, <1>2 DEF Inv, CountInv, PassInv, VerdictInv, Returned
<1> QED
  BY <1>3, <1>4, <1>5 DEF Inv

\* A new step has no edges.
LEMMA AddStepInv == ASSUME NEW s \in Steps, Inv, AddStep(s) PROVE Inv'
<1>1. GraphInv'
  BY DEF Inv, GraphInv, HasCycle, AddStep
<1> QED
  BY <1>1, BuildInv DEF AddStep, Inv, TypeOK

\* Removing a step removes its edges from both maps; fewer edges close no cycle.
LEMMA RemoveStepInv == ASSUME NEW s \in Steps, Inv, RemoveStep(s) PROVE Inv'
<1> USE DEF RemoveStep
<1>1. /\ dependencies' \in [Steps -> SUBSET Steps] /\ dependents' \in [Steps -> SUBSET Steps]
      /\ \A n, d \in Steps : d \in dependencies'[n] <=> d \in dependencies[n] /\ s \notin {n, d}
      /\ \A n, d \in Steps : d \in dependents'[n] <=> d \in dependents[n] /\ s \notin {n, d}
  BY DEF Inv, TypeOK
<1>2. ~ HasCycle(dependents')
  <2> SUFFICES ASSUME NEW C \in SUBSET Steps, C # {}, \A n \in C : dependents'[n] \cap C # {}
               PROVE  FALSE
    BY DEF HasCycle
  <2>1. \A n \in C : dependents[n] \cap C # {}
    BY <1>1
  <2> QED
    BY <2>1 DEF Inv, GraphInv, HasCycle
<1>3. GraphInv'
  BY <1>1, <1>2 DEF Inv, GraphInv
<1> QED
  BY <1>1, <1>3, BuildInv DEF Inv, TypeOK

\* An edge is added to both maps, or taken back from both: fewer edges close
\* no cycle.
LEMMA AddDependencyInv ==
  ASSUME NEW s \in Steps, NEW d \in Steps, Inv, AddDependency(s, d)
  PROVE  Inv'
<1> DEFINE forward == With(dependents, d, s)
<1> USE DEF AddDependency, With, Without
<1>0. /\ dependencies' \in [Steps -> SUBSET Steps] /\ dependents' \in [Steps -> SUBSET Steps]
  BY DEF Inv, TypeOK
<1>1. CASE ~ HasCycle(forward)
  <2>1. /\ dependents' = forward
        /\ \A n, e \in Steps :
             e \in dependencies'[n] <=> e \in dependencies[n] \/ (n = s /\ e = d)
        /\ \A n, e \in Steps :
             e \in dependents'[n] <=> e \in dependents[n] \/ (n = d /\ e = s)
    BY <1>1 DEF Inv, TypeOK
  <2>2. GraphInv'
    BY <1>1, <2>1 DEF Inv, GraphInv
  <2> QED
    BY <1>0, <2>2, BuildInv DEF Inv, TypeOK
<1>2. CASE HasCycle(forward)
  <2>1. /\ \A n, e \in Steps :
             e \in dependencies'[n] <=> e \in dependencies[n] /\ ~ (n = s /\ e = d)
        /\ \A n, e \in Steps :
             e \in dependents'[n] <=> e \in dependents[n] /\ ~ (n = d /\ e = s)
    BY <1>2 DEF Inv, TypeOK
  <2>2. ~ HasCycle(dependents')
    <3> SUFFICES ASSUME NEW C \in SUBSET Steps, C # {}, \A n \in C : dependents'[n] \cap C # {}
                 PROVE  FALSE
      BY DEF HasCycle
    <3>1. \A n \in C : dependents[n] \cap C # {}
      BY <2>1
    <3> QED
      BY <3>1 DEF Inv, GraphInv, HasCycle
  <2>3. GraphInv'
    BY <2>1, <2>2 DEF Inv, GraphInv
  <2> QED
    BY <1>0, <2>3, BuildInv DEF Inv, TypeOK
<1> QED
  BY <1>1, <1>2

-----------------------------------------------------------------------------
\* The executor.

\* A graph with steps can be sorted, so only an empty one is refused.
LEMMA ExecuteInv == ASSUME Inv, Execute PROVE Inv'
<1> USE DEF Execute
<1>1. /\ GraphInv' /\ TaskInv' /\ SkipInv' /\ Running' = Running /\ Holding' = Holding
      /\ SkippableSteps' = SkippableSteps
  BY StatusesKept
<1>2. Sortable(present, dependencies, dependents)
  BY GraphSorts DEF Inv
<1>3. \/ phase' = "skip" /\ todo' = SkippableSteps
      \/ phase' = "refused" /\ todo' = todo /\ present = {}
  <2>1. CASE present = {}
    BY <2>1
  <2>2. CASE present # {}
    <3>1. ToTop
      BY <1>2, <2>2
    <3> QED
      BY <3>1 DEF ToTop
  <2> QED
    BY <2>1, <2>2
<1>4. TypeOK'
  BY <1>1, <1>3 DEF Inv, TypeOK, graphVars, taskVars, Phases, SkippableSteps, Pending
<1>5. CountInv' /\ PassInv' /\ VerdictInv'
  BY <1>1, <1>3 DEF Inv, CountInv, PassInv, VerdictInv, Returned, graphVars
<1> QED
  BY <1>1, <1>4, <1>5 DEF Inv

\* A step that is skipped has no task; what else is to be skipped stays so.
LEMMA SkipsInv == ASSUME NEW s \in Steps, Inv, Skip(s) PROVE Inv'
<1> USE DEF Skip
<1>1. statuses[s] = "pending" /\ s \in present /\ \E d \in dependencies[s] : statuses[d] \in Broken
  BY DEF Inv, PassInv, SkippableSteps, Pending
<1>2. statuses' \in [Steps -> Terminal \cup {"pending", "running"}]
  BY DEF Inv, TypeOK, Terminal, Broken
<1>3. Running' = Running /\ Holding' = Holding
  BY <1>1 DEF Running, Holding, taskVars, Inv, TypeOK
<1>4. \A d \in Steps : statuses[d] \in Broken => statuses'[d] \in Broken
  BY DEF Inv, TypeOK, Broken
<1>5. TypeOK'
  BY <1>2, <1>3, CapacityAssumption DEF Inv, TypeOK, graphVars, taskVars, SendEvent
<1>6. GraphInv'
  BY GraphKept
<1>7. TaskInv'
  BY <1>1 DEF Inv, TypeOK, TaskInv, graphVars, taskVars
<1>8. CountInv'
  BY <1>3 DEF Inv, CountInv, Returned
<1>9. PassInv'
  <2>1. todo' \subseteq SkippableSteps'
    BY <1>1, <1>4 DEF Inv, TypeOK, PassInv, SkippableSteps, Pending, graphVars
  <2> QED
    BY <2>1 DEF PassInv, Returned
<1>10. SkipInv'
  BY <1>1, <1>4 DEF Inv, TypeOK, SkipInv, graphVars
<1>11. VerdictInv'
  BY DEF Inv, VerdictInv
<1> QED
  BY <1>5, <1>6, <1>7, <1>8, <1>9, <1>10, <1>11 DEF Inv

\* The ready steps are listed.
LEMMA EndSkipInv == ASSUME Inv, EndSkip PROVE Inv'
<1> USE DEF EndSkip
<1>1. /\ GraphInv' /\ TaskInv' /\ SkipInv' /\ Running' = Running /\ Holding' = Holding
      /\ ReadySteps' = ReadySteps
  BY StatusesKept
<1>2. TypeOK'
  BY <1>1 DEF Inv, TypeOK, graphVars, taskVars, Phases, ReadySteps, Pending
<1>3. CountInv' /\ PassInv' /\ VerdictInv'
  BY <1>1 DEF Inv, CountInv, PassInv, VerdictInv, Returned
<1> QED
  BY <1>1, <1>2, <1>3 DEF Inv

\* A step is launched once; one more runs, and the others stay ready.
LEMMA LaunchInv == ASSUME NEW s \in Steps, Inv, Launch(s) PROVE Inv'
<1> USE DEF Launch
<1>1. statuses[s] = "pending" /\ s \in present /\ task[s] = "none"
  BY DEF Inv, PassInv, ReadySteps, Pending, TaskInv
<1>2. statuses' \in [Steps -> Terminal \cup {"pending", "running"}]
  BY DEF Inv, TypeOK
<1>3. Running' = Running \cup {s} /\ s \notin Running /\ Holding' = Holding
  BY <1>1 DEF Running, Holding, Inv, TypeOK
<1>4. /\ in_flight' = Cardinality(Running') /\ in_flight' \in 0 .. Cardinality(Steps)
  <2>1. Running \in SUBSET Steps /\ Running' \in SUBSET Steps
    BY DEF Running
  <2>2. Cardinality(Running') = Cardinality(Running) + 1
    BY <1>3, <2>1, Finite, FS_AddElement
  <2> QED
    BY <2>1, <2>2, Finite DEF Inv, CountInv
<1>5. TypeOK'
  BY <1>2, <1>3, <1>4 DEF Inv, TypeOK, graphVars
<1>6. GraphInv'
  BY GraphKept
<1>7. TaskInv'
  BY <1>1 DEF Inv, TypeOK, TaskInv, graphVars
<1>8. CountInv'
  BY <1>4 DEF CountInv, Returned
<1>9. PassInv'
  <2>1. ReadySteps' = ReadySteps \ {s}
    BY <1>1 DEF Inv, TypeOK, ReadySteps, Pending, Terminal, Broken, graphVars
  <2> QED
    BY <2>1 DEF Inv, PassInv, Returned
<1>10. SkipInv' /\ VerdictInv'
  BY <1>1 DEF Inv, TypeOK, SkipInv, VerdictInv, Broken, graphVars
<1> QED
  BY <1>5, <1>6, <1>7, <1>8, <1>9, <1>10 DEF Inv

\* Without a step in flight none was launched, so none was ready.
LEMMA EndLaunchInv == ASSUME Inv, EndLaunch PROVE Inv'
<1> USE DEF EndLaunch
<1>1. /\ GraphInv' /\ TaskInv' /\ SkipInv' /\ Running' = Running /\ Holding' = Holding
      /\ ReadySteps' = ReadySteps
  BY StatusesKept
<1>2. TypeOK'
  BY <1>1 DEF Inv, TypeOK, graphVars, taskVars, Phases
<1>3. in_flight = 0 => Running = {}
  <2>1. IsFiniteSet(Running)
    BY Finite DEF Running
  <2> QED
    BY <2>1, FS_EmptySet DEF Inv, CountInv
<1>4. CountInv' /\ PassInv' /\ VerdictInv'
  BY <1>1, <1>3 DEF Inv, CountInv, PassInv, VerdictInv, Returned
<1> QED
  BY <1>1, <1>2, <1>4 DEF Inv

\* A result ends the run of its step, with what the task made of it.
LEMMA ReceiveInv == ASSUME NEW s \in Steps, Inv, Receive(s) PROVE Inv'
<1> USE DEF Receive
<1>1. /\ task[s] = "ended" /\ statuses[s] = "running" /\ s \in present
      /\ outcome[s] \in {"succeeded", "failed", "timed_out"}
  BY DEF Inv, TypeOK, TaskInv
<1>2. statuses' \in [Steps -> Terminal \cup {"pending", "running"}]
  BY <1>1 DEF Inv, TypeOK, Terminal, Broken
<1>3. Running' = Running \ {s} /\ s \in Running /\ Holding' = Holding
  BY <1>1 DEF Running, Holding, Inv, TypeOK
<1>4. in_flight' = Cardinality(Running') /\ in_flight' \in 0 .. Cardinality(Steps)
  <2>1. Running \in SUBSET Steps /\ Running' \in SUBSET Steps
    BY DEF Running
  <2>2. Cardinality(Running') = Cardinality(Running) - 1
    BY <1>3, <2>1, Finite, FS_RemoveElement
  <2> QED
    BY <2>1, <2>2, Finite DEF Inv, CountInv
<1>5. Cardinality(done') <= DONE_CAP
  <2>1. done \in SUBSET Steps /\ done' \in SUBSET done
    BY DEF Inv, TypeOK
  <2>2. Cardinality(done') <= Cardinality(done) /\ Cardinality(done') \in Nat /\ Cardinality(done) \in Nat
    BY <2>1, Finite, FS_Subset
  <2> QED
    BY <2>2, CapacityAssumption DEF Inv, TypeOK
<1>6. TypeOK'
  BY <1>2, <1>3, <1>4, <1>5 DEF Inv, TypeOK, graphVars, Phases
<1>7. GraphInv'
  BY GraphKept
<1>8. TaskInv'
  BY <1>1 DEF Inv, TypeOK, TaskInv, graphVars
<1>9. CountInv' /\ PassInv' /\ VerdictInv'
  BY <1>4 DEF CountInv, PassInv, VerdictInv, Returned
<1>10. SkipInv'
  BY <1>1 DEF Inv, TypeOK, SkipInv, Broken, graphVars
<1> QED
  BY <1>6, <1>7, <1>8, <1>9, <1>10 DEF Inv

\* What is to be skipped is listed again.
LEMMA ReportInv == ASSUME Inv, Report PROVE Inv'
<1> USE DEF Report
<1>1. /\ GraphInv' /\ TaskInv' /\ SkipInv' /\ Running' = Running /\ Holding' = Holding
      /\ SkippableSteps' = SkippableSteps
  BY StatusesKept
<1>2. TypeOK'
  BY <1>1, CapacityAssumption
  DEF Inv, TypeOK, graphVars, taskVars, Phases, ToTop, SendEvent, SkippableSteps, Pending
<1>3. CountInv' /\ PassInv' /\ VerdictInv'
  BY <1>1 DEF Inv, CountInv, PassInv, VerdictInv, Returned, ToTop
<1> QED
  BY <1>1, <1>2, <1>3 DEF Inv

\* Without a failure every step succeeded: otherwise each of the others is
\* pending behind one of them or was skipped because of one of them.
LEMMA NoFailureIsSuccess ==
  ASSUME Inv, phase = "finish", Succeeded
  PROVE  \A s \in present : statuses[s] = "succeeded"
<1> DEFINE C == {s \in present : statuses[s] \in {"pending", "skipped"}}
<1>1. \A s \in present : s \in Steps /\ statuses[s] # "running"
  BY DEF Inv, TypeOK, CountInv, Returned, Running
<1>2. \A s \in present : s \notin C => statuses[s] = "succeeded"
  BY <1>1 DEF Inv, TypeOK, Succeeded, Terminal, Broken
<1>3. \A s \in C : \A d \in dependencies[s] : d \in present
  BY <1>1 DEF Inv, GraphInv, TypeOK
<1>4. ASSUME NEW s \in C PROVE dependencies[s] \cap C # {}
  <2>1. CASE statuses[s] = "skipped"
    BY <1>1, <1>2, <1>3, <2>1 DEF Inv, SkipInv, Broken
  <2>2. CASE statuses[s] = "pending"
    <3>1. s \notin ReadySteps
      BY DEF Inv, PassInv, Returned
    <3>2. \E d \in dependencies[s] : statuses[d] # "succeeded"
      BY <2>2, <3>1 DEF ReadySteps, Pending
    <3> QED
      BY <1>2, <1>3, <3>2
  <2> QED
    BY <2>1, <2>2
<1>5. C = {}
  BY <1>1, <1>4, SomeStepIsFree DEF Inv
<1> QED
  BY <1>2, <1>5

LEMMA ReturnInv == ASSUME Inv, Return PROVE Inv'
<1> USE DEF Return
<1>1. /\ GraphInv' /\ TaskInv' /\ SkipInv' /\ Running' = Running /\ Holding' = Holding
      /\ ReadySteps' = ReadySteps
  BY StatusesKept
<1>2. TypeOK'
  BY <1>1, CapacityAssumption DEF Inv, TypeOK, graphVars, taskVars, Phases, SendEvent
<1>3. CountInv' /\ PassInv'
  BY <1>1 DEF Inv, CountInv, PassInv, Returned
<1>4. VerdictInv'
  BY NoFailureIsSuccess DEF VerdictInv, graphVars
<1> QED
  BY <1>1, <1>2, <1>3, <1>4 DEF Inv

-----------------------------------------------------------------------------
\* The tasks.

\* A step of a task that gives no permit to another one and sends nothing.
LEMMA TaskKept ==
  ASSUME Inv, UNCHANGED <<graphVars, mainVars>>,
         TaskInv', task' \in [Steps -> {"none", "queued", "trying", "resting", "sending",
                                        "ended", "panicked"}],
         tries' \in [Steps -> Nat], \A n \in Steps : tries'[n] <= Retries[n] + 1,
         outcome' \in [Steps -> {"none", "succeeded", "failed", "timed_out"}],
         queued' \in 0 .. EVENT_CAP, done' \in SUBSET Steps, Cardinality(done') <= DONE_CAP,
         processes' \in SUBSET Shell,
         Cardinality(Holding') <= max_parallelism
  PROVE  Inv'
<1>1. TypeOK'
  BY DEF Inv, TypeOK, graphVars, mainVars
<1> QED
  BY <1>1, MainKept DEF Inv

\* Fewer tasks that hold a permit are not too many.
LEMMA HoldingKept ==
  ASSUME Inv, Holding' \subseteq Holding PROVE Cardinality(Holding') <= max_parallelism
<1>1. Holding \in SUBSET Steps /\ Holding' \in SUBSET Holding
  BY DEF Holding
<1>2. /\ Cardinality(Holding') <= Cardinality(Holding)
      /\ Cardinality(Holding') \in Nat /\ Cardinality(Holding) \in Nat
  BY <1>1, Finite, FS_Subset
<1> QED
  BY <1>2, CapacityAssumption DEF Inv, TypeOK

\* A permit is acquired only while one is left.
LEMMA AcquireInv == ASSUME NEW s \in Steps, Inv, Acquire(s) PROVE Inv'
<1> USE DEF Acquire, Starts, TrySendEvent
<1>1. Holding' = Holding \cup {s} /\ Holding \in SUBSET Steps
  BY DEF Inv, TypeOK, Holding
<1>2. Cardinality(Holding') <= max_parallelism
  BY <1>1, Finite, FS_AddElement, CapacityAssumption
<1>3. TaskInv'
  BY DEF Inv, TypeOK, TaskInv, graphVars, mainVars
<1>4. queued' \in 0 .. EVENT_CAP
  BY CapacityAssumption DEF Inv, TypeOK
<1>5. tries' \in [Steps -> Nat] /\ \A n \in Steps : tries'[n] <= Retries[n] + 1
  <2>1. \A n \in Steps : Retries[n] \in Nat /\ tries'[n] = IF n = s THEN 1 ELSE tries[n]
    BY StepsAssumption DEF Inv, TypeOK
  <2>2. \A n \in Steps : Retries[n] \in Nat => 1 <= Retries[n] + 1
    OBVIOUS
  <2> QED
    BY <2>1, <2>2 DEF Inv, TypeOK
<1> QED
  BY <1>2, <1>3, <1>4, <1>5, TaskKept DEF Inv, TypeOK

\* An attempt ends; the task rests only while it has attempts left.
LEMMA TryInv == ASSUME NEW s \in Steps, Inv, Try(s) PROVE Inv'
<1>1. PICK result \in {"succeeded", "failed", "timed_out"}, next \in {"resting", "sending"} :
        /\ Ends(s, result, next) /\ (next = "resting" => tries[s] < Retries[s] + 1)
        /\ \/ Exits(s)
           \/ result = "timed_out" /\ next = "sending" /\ UNCHANGED processes
  BY DEF Try
<1> USE <1>1 DEF Ends, Exits
<1>2. Holding' \subseteq Holding
  BY DEF Inv, TypeOK, Holding
<1>3. next = "resting" => tries[s] <= Retries[s]
  <2>1. tries[s] \in Nat /\ Retries[s] \in Nat
    BY StepsAssumption DEF Inv, TypeOK
  <2> QED
    BY <2>1
<1>4. TaskInv'
  BY <1>3 DEF Inv, TypeOK, TaskInv, graphVars, mainVars
<1> QED
  BY <1>2, <1>4, HoldingKept, TaskKept DEF Inv, TypeOK

\* A retry keeps its permit and is counted.
LEMMA RetryInv == ASSUME NEW s \in Steps, Inv, Retry(s) PROVE Inv'
<1> USE DEF Retry, Starts, TrySendEvent
<1>1. Holding' \subseteq Holding
  BY DEF Inv, TypeOK, Holding
<1>2. tries[s] + 1 <= Retries[s] + 1 /\ tries[s] \in Nat
  <2>1. tries[s] \in Nat /\ Retries[s] \in Nat
    BY StepsAssumption DEF Inv, TypeOK
  <2>2. tries[s] <= Retries[s]
    BY DEF Inv, TaskInv
  <2> QED
    BY <2>1, <2>2
<1>3. TaskInv'
  BY DEF Inv, TypeOK, TaskInv, graphVars, mainVars
<1> QED
  BY <1>1, <1>2, <1>3, HoldingKept, TaskKept, CapacityAssumption DEF Inv, TypeOK

\* A result is sent once, and only when the channel has room.
LEMMA SendInv == ASSUME NEW s \in Steps, Inv, Send(s) PROVE Inv'
<1> USE DEF Send
<1>1. Holding' \subseteq Holding
  BY DEF Inv, TypeOK, Holding
<1>2. done \in SUBSET Steps /\ done' \in SUBSET Steps
  BY DEF Inv, TypeOK
<1>3. Cardinality(done') <= DONE_CAP
  BY <1>2, Finite, FS_AddElement, CapacityAssumption
<1>4. TaskInv'
  BY DEF Inv, TypeOK, TaskInv, graphVars, mainVars
<1> QED
  BY <1>1, <1>2, <1>3, <1>4, HoldingKept, TaskKept DEF Inv, TypeOK

\* A task that panics drops its permit and stays in flight.
LEMMA PanicInv == ASSUME NEW s \in Steps, Inv, Panic(s) PROVE Inv'
<1> USE DEF Panic
<1>1. Holding' \subseteq Holding
  BY DEF Inv, TypeOK, Holding
<1>2. TaskInv'
  <2>1. s \notin processes
    BY StepsAssumption DEF Inv, TypeOK
  <2> QED
    BY <2>1 DEF Inv, TypeOK, TaskInv, graphVars, mainVars
<1> QED
  BY <1>1, <1>2, HoldingKept, TaskKept DEF Inv, TypeOK

\* The end of a process that nobody waits for changes nothing else.
LEMMA StrayExitsInv == ASSUME NEW s \in Steps, Inv, StrayExits(s) PROVE Inv'
<1> USE DEF StrayExits, Exits
<1>1. Holding' \subseteq Holding
  BY DEF Holding
<1>2. TaskInv'
  BY DEF Inv, TaskInv, graphVars, mainVars
<1> QED
  BY <1>1, <1>2, HoldingKept, TaskKept DEF Inv, TypeOK

-----------------------------------------------------------------------------

\* A step that changes nothing.
LEMMA StutterInv == ASSUME Inv, UNCHANGED vars PROVE Inv'
<1>1. UNCHANGED <<graphVars, mainVars>> /\ UNCHANGED <<taskVars, queued>>
  BY DEF vars
<1>2. TaskInv' /\ TypeOK'
  BY <1>1 DEF Inv, TypeOK, TaskInv, Holding, graphVars, mainVars, taskVars
<1> QED
  BY <1>1, <1>2, MainKept DEF Inv

\* Every step of the system keeps the invariant.
LEMMA NextInv == ASSUME Inv, [Next]_vars PROVE Inv'
<1>1. CASE Build
  BY <1>1, AddStepInv, RemoveStepInv, AddDependencyInv DEF Build
<1>2. CASE Execute
  BY <1>2, ExecuteInv
<1>3. CASE Main
  BY <1>3, EndSkipInv, EndLaunchInv, ReportInv, ReturnInv, SkipsInv, LaunchInv, ReceiveInv DEF Main
<1>4. CASE \E s \in Steps : TaskStep(s) \/ Panic(s) \/ StrayExits(s)
  BY <1>4, AcquireInv, TryInv, RetryInv, SendInv, PanicInv, StrayExitsInv DEF TaskStep
<1>5. CASE UNCHANGED vars
  BY <1>5, StutterInv
<1> QED
  BY <1>1, <1>2, <1>3, <1>4, <1>5 DEF Next

\* The invariant holds in every state of every behaviour.
LEMMA Invariance == Spec => []Inv
BY InitInv, NextInv, PTL DEF Spec

\* Graph, executor, tasks and channels stay in their domains and within their
\* capacities, and a step is tried at most once more than its retries.
THEOREM TypeCorrect == Spec => []TypeOK
<1>1. Inv => TypeOK
  BY DEF Inv
<1> QED
  BY <1>1, Invariance, PTL

\* Whatever sequence of add_step, remove_step and add_dependency built a graph,
\* execute can sort it: only an empty graph is refused.
THEOREM BuiltGraphsRun == Spec => []BuiltGraphRuns
<1>1. Inv => BuiltGraphRuns
  BY DEF Inv, VerdictInv, BuiltGraphRuns
<1> QED
  BY <1>1, Invariance, PTL

\* When execute returns, every task it spawned has sent its result and was
\* received, and only the commands of steps that timed out still run.
THEOREM NothingIsLeftRunning == Spec => []NothingLeftRunning
<1>1. ASSUME Inv, phase \in Returned, NEW s \in Steps PROVE statuses[s] # "running"
  BY <1>1 DEF Inv, CountInv, Running
<1>2. ASSUME Inv, phase \in Returned, NEW s \in Steps PROVE task[s] \in {"none", "ended"}
  BY <1>1, <1>2 DEF Inv, TypeOK, TaskInv
<1>3. ASSUME Inv, phase \in Returned, NEW s \in processes PROVE statuses[s] = "timed_out"
  <2>1. s \in Steps
    BY <1>3, StepsAssumption DEF Inv, TypeOK
  <2> QED
    BY <1>1, <1>2, <1>3, <2>1 DEF Inv, TaskInv
<1>4. Inv => NothingLeftRunning
  BY <1>2, <1>3 DEF NothingLeftRunning, Returned
<1> QED
  BY <1>4, Invariance, PTL

\* A pipeline that reports success has succeeded in every step of its graph.
THEOREM SuccessIsAlwaysTotal == Spec => []SuccessIsTotal
<1>1. Inv => SuccessIsTotal
  BY DEF Inv, VerdictInv, SuccessIsTotal
<1> QED
  BY <1>1, Invariance, PTL

-----------------------------------------------------------------------------
\* The executor implements TaskQueue.

\* needs, state and attempts of the queue, as the instance maps them.
NeedsOf == [s \in Steps |-> dependencies[s] \ AllowFailure]
StateOf == [s \in Steps |-> Seen(s)]
AttemptsOf == [s \in Steps |-> IF task[s] = "none" THEN 0 ELSE 1]
Started == phase \notin {"build", "refused"}

\* The queue's variables change only with what they are made of.
LEMMA QueueKept ==
  ASSUME NeedsOf' = NeedsOf, StateOf' = StateOf, AttemptsOf' = AttemptsOf
  PROVE  UNCHANGED Queue!queueVars
BY DEF Queue!queueVars, NeedsOf, StateOf, AttemptsOf

\* The mapped functions, step by step.
LEMMA Mapped ==
  ASSUME NEW s \in Steps
  PROVE  /\ NeedsOf[s] = dependencies[s] \ AllowFailure /\ StateOf[s] = Seen(s)
         /\ AttemptsOf[s] = IF task[s] = "none" THEN 0 ELSE 1
BY DEF NeedsOf, StateOf, AttemptsOf

\* Initially nothing was submitted.
LEMMA QueueStarts == Init => Queue!QueueInit
<1> SUFFICES ASSUME Init PROVE Queue!QueueInit
  OBVIOUS
<1>1. NeedsOf \in [Steps -> SUBSET Steps]
  BY DEF Init, NeedsOf
<1>2. StateOf = [s \in Steps |-> "new"]
  BY DEF Init, StateOf, Seen
<1>3. AttemptsOf = [s \in Steps |-> 0]
  BY DEF Init, AttemptsOf
<1> QED
  BY <1>1, <1>2, <1>3 DEF Queue!QueueInit, NeedsOf, StateOf, AttemptsOf

\* Building plans: nothing is submitted yet.
LEMMA BuildPlans ==
  ASSUME Inv, Inv', phase = "build", UNCHANGED <<mainVars, taskVars>>
  PROVE  Queue!QueueNext
<1>1. NeedsOf' \in [Steps -> SUBSET Steps]
  BY DEF Inv, TypeOK, NeedsOf
<1>2. StateOf' = StateOf /\ \A s \in Steps : StateOf[s] = "new"
  BY DEF StateOf, Seen, mainVars
<1>3. AttemptsOf' = AttemptsOf
  BY DEF AttemptsOf, taskVars
<1>4. Queue!Plan
  BY <1>1, <1>2, <1>3 DEF Queue!Plan, NeedsOf, StateOf, AttemptsOf
<1> QED
  BY <1>4 DEF Queue!QueueNext

\* Execute submits the steps of the graph.
LEMMA ExecuteSubmits ==
  ASSUME Inv, Execute PROVE Queue!QueueNext \/ UNCHANGED Queue!queueVars
<1> USE DEF Execute, graphVars, taskVars
<1>1. NeedsOf' = NeedsOf /\ AttemptsOf' = AttemptsOf
  BY DEF NeedsOf, AttemptsOf
<1>2. \A s \in Steps : statuses[s] = "pending" /\ Seen(s) = "new"
  BY DEF Inv, PassInv, Seen
<1>3. CASE phase' = "refused"
  <2>1. StateOf' = StateOf
    BY <1>3 DEF StateOf, Seen
  <2> QED
    BY <1>1, <2>1, QueueKept
<1>4. CASE phase' = "skip"
  <2>1. StateOf' = [s \in Steps |-> IF s \in present THEN "waiting" ELSE StateOf[s]]
    BY <1>2, <1>4 DEF StateOf, Seen
  <2>2. Queue!Submit(present)
    BY <1>1, <1>2, <2>1 DEF Queue!Submit, Queue!Moved, NeedsOf, StateOf, AttemptsOf, Inv, TypeOK
  <2> QED
    BY <2>2 DEF Queue!QueueNext, Inv, TypeOK
<1> QED
  BY <1>3, <1>4 DEF ToTop

\* A step of the graph that has a new status moves alone.
LEMMA Moves ==
  ASSUME Inv, NEW s \in Steps, NEW st, Started, Started', s \in present,
         UNCHANGED graphVars, statuses' = [statuses EXCEPT ![s] = st]
  PROVE  /\ NeedsOf' = NeedsOf
         /\ StateOf' = [n \in Steps |-> IF n \in {s} THEN Seen(s)' ELSE StateOf[n]]
<1>1. NeedsOf' = NeedsOf
  BY DEF NeedsOf, graphVars
<1>2. \A n \in Steps : n # s => statuses'[n] = statuses[n]
  BY DEF Inv, TypeOK
<1>3. \A n \in Steps : n # s => Seen(n)' = Seen(n)
  BY <1>2 DEF Seen, Started, graphVars
<1>4. \A n \in Steps : (IF n \in {s} THEN Seen(s)' ELSE StateOf[n]) = Seen(n)'
  BY <1>3, Mapped
<1> QED
  BY <1>1, <1>4 DEF StateOf

\* A skipped step is withdrawn.
LEMMA SkipWithdraws == ASSUME NEW s \in Steps, Inv, Skip(s) PROVE Queue!QueueNext
<1> USE DEF Skip
<1>1. s \in present /\ statuses[s] = "pending"
  BY DEF Inv, PassInv, SkippableSteps, Pending
<1>2. /\ NeedsOf' = NeedsOf
      /\ StateOf' = [n \in Steps |-> IF n \in {s} THEN Seen(s)' ELSE StateOf[n]]
  BY <1>1, Moves DEF Started
<1>3. Seen(s) = "waiting" /\ Seen(s)' = "cancelled"
  BY <1>1 DEF Seen, Inv, TypeOK, graphVars
<1>4. AttemptsOf' = AttemptsOf
  BY DEF AttemptsOf, taskVars
<1>5. Queue!Withdraw({s})
  BY <1>2, <1>3, <1>4 DEF Queue!Withdraw, Queue!Moved, NeedsOf, StateOf, AttemptsOf
<1> QED
  BY <1>5 DEF Queue!QueueNext

\* A launched step begins, for the first time, after what it needs succeeded.
LEMMA LaunchBegins == ASSUME NEW s \in Steps, Inv, Launch(s) PROVE Queue!QueueNext
<1> USE DEF Launch
<1>1. s \in ReadySteps /\ s \in present /\ statuses[s] = "pending" /\ task[s] = "none"
  BY DEF Inv, PassInv, TaskInv, ReadySteps, Pending
<1>2. /\ NeedsOf' = NeedsOf
      /\ StateOf' = [n \in Steps |-> IF n \in {s} THEN Seen(s)' ELSE StateOf[n]]
  BY <1>1, Moves DEF Started
<1>3. Seen(s) = "waiting" /\ Seen(s)' = "owned"
  BY <1>1 DEF Seen, Inv, TypeOK, graphVars
<1>4. AttemptsOf[s] = 0 /\ AttemptsOf' = [AttemptsOf EXCEPT ![s] = AttemptsOf[s] + 1]
  <2>1. AttemptsOf[s] = 0
    BY <1>1, Mapped
  <2>2. \A n \in Steps : (IF task'[n] = "none" THEN 0 ELSE 1) = IF n = s THEN 1 ELSE AttemptsOf[n]
    BY Mapped DEF Inv, TypeOK
  <2>3. AttemptsOf' = [n \in Steps |-> IF n = s THEN 1 ELSE AttemptsOf[n]]
    BY <2>2 DEF AttemptsOf
  <2>4. AttemptsOf = [n \in Steps |-> AttemptsOf[n]]
    BY DEF AttemptsOf
  <2> HIDE DEF AttemptsOf
  <2> QED
    BY <2>1, <2>3, <2>4
<1>5. \A d \in NeedsOf[s] : StateOf[d] = "done"
  <2>1. ASSUME NEW d \in dependencies[s], d \notin AllowFailure
        PROVE  d \in Steps /\ d \in present /\ statuses[d] = "succeeded"
    BY <1>1, <2>1 DEF Inv, TypeOK, GraphInv, ReadySteps
  <2> QED
    BY <2>1, Mapped DEF Seen
<1>6. Queue!Begin(s)
  BY <1>2, <1>3, <1>4, <1>5 DEF Queue!Begin, Queue!Moved, NeedsOf, StateOf, AttemptsOf
<1> QED
  BY <1>6 DEF Queue!QueueNext

\* A result ends its step.
LEMMA ReceiveEnds == ASSUME NEW s \in Steps, Inv, Receive(s) PROVE Queue!QueueNext
<1> USE DEF Receive
<1>1. /\ s \in present /\ statuses[s] = "running"
      /\ outcome[s] \in {"succeeded", "failed", "timed_out"}
  BY DEF Inv, TypeOK, TaskInv
<1>2. /\ NeedsOf' = NeedsOf
      /\ StateOf' = [n \in Steps |-> IF n \in {s} THEN Seen(s)' ELSE StateOf[n]]
  BY <1>1, Moves DEF Started
<1>3. Seen(s) = "owned" /\ Seen(s)' \in {"done", "failed"}
  BY <1>1 DEF Seen, Inv, TypeOK, graphVars
<1>4. AttemptsOf' = AttemptsOf
  BY DEF AttemptsOf
<1>5. Queue!End(s, Seen(s)')
  BY <1>2, <1>3, <1>4 DEF Queue!End, Queue!Moved, NeedsOf, StateOf, AttemptsOf
<1> QED
  BY <1>3, <1>5 DEF Queue!QueueNext

\* Everything else the queue does not see.
LEMMA OthersStutter ==
  ASSUME Inv, UNCHANGED <<graphVars, statuses>>, Started <=> Started',
         \A s \in Steps : task'[s] = "none" <=> task[s] = "none"
  PROVE  UNCHANGED Queue!queueVars
<1>1. NeedsOf' = NeedsOf /\ StateOf' = StateOf /\ AttemptsOf' = AttemptsOf
  BY DEF NeedsOf, StateOf, AttemptsOf, Seen, Started, graphVars
<1> QED
  BY <1>1, QueueKept

\* Every step is a step of the queue or leaves it alone.
LEMMA QueueSteps == Inv /\ Inv' /\ [Next]_vars => [Queue!QueueNext]_(Queue!queueVars)
<1> SUFFICES ASSUME Inv, Inv', [Next]_vars
             PROVE  Queue!QueueNext \/ UNCHANGED Queue!queueVars
  OBVIOUS
<1>1. CASE Build
  BY <1>1, BuildPlans DEF Build, AddStep, RemoveStep, AddDependency
<1>2. CASE Execute
  BY <1>2, ExecuteSubmits
<1>3. CASE EndSkip \/ EndLaunch \/ Report \/ Return
  BY <1>3, OthersStutter DEF EndSkip, EndLaunch, Report, Return, ToTop, Started, taskVars
<1>4. CASE \E s \in Steps : Skip(s) \/ Launch(s) \/ Receive(s)
  BY <1>4, SkipWithdraws, LaunchBegins, ReceiveEnds
<1>5. ASSUME NEW s \in Steps, TaskStep(s) \/ Panic(s) \/ StrayExits(s) PROVE UNCHANGED Queue!queueVars
  <2>1. UNCHANGED <<graphVars, mainVars>>
    BY <1>5 DEF TaskStep, Acquire, Try, Ends, Retry, Send, Panic, StrayExits
  <2>2. \A n \in Steps : task'[n] = "none" <=> task[n] = "none"
    BY <1>5 DEF TaskStep, Acquire, Try, Ends, Retry, Send, Panic, StrayExits, Inv, TypeOK
  <2> QED
    BY <2>1, <2>2, OthersStutter DEF mainVars, Started
<1>6. CASE UNCHANGED vars
  BY <1>6, OthersStutter DEF vars, mainVars, taskVars, Started
<1> QED
  BY <1>1, <1>2, <1>3, <1>4, <1>5, <1>6 DEF Next, Main

\* A pipeline is a TaskQueue: a step begins once, after all it needs succeeded,
\* however its attempts go, and it ends once.
THEOREM ImplementsQueue == Spec => RefinesQueue
<1> QED
  BY QueueStarts, QueueSteps, Invariance, PTL DEF Spec, RefinesQueue, Queue!QueueSafe

\* What the queue promises: a task that was begun, and not withdrawn, has all
\* it needs done.
Begun == {"owned", "done", "failed"}
NeedsDone == \A s \in Steps : StateOf[s] \in Begun => \A n \in NeedsOf[s] : StateOf[n] = "done"

\* A step of the queue takes back no end, begins only what is ready and plans
\* only what is new.
LEMMA NeedsKept ==
  ASSUME NeedsOf \in [Steps -> SUBSET Steps], NeedsDone,
         Queue!QueueNext \/ UNCHANGED Queue!queueVars
  PROVE  NeedsDone'
<1> SUFFICES ASSUME NEW s \in Steps, StateOf'[s] \in Begun, NEW n \in NeedsOf'[s]
             PROVE  StateOf'[n] = "done"
  BY DEF NeedsDone
<1> USE DEF NeedsDone, Begun
<1>1. CASE Queue!Plan \/ UNCHANGED Queue!queueVars
  <2>1. StateOf' = StateOf /\ NeedsOf'[s] = NeedsOf[s]
    BY <1>1 DEF Queue!Plan, Queue!queueVars, NeedsOf, StateOf
  <2> QED
    BY <2>1
<1>2. ASSUME NeedsOf' = NeedsOf,
             \A r \in Steps : StateOf[r] = "done" => StateOf'[r] = "done",
             StateOf[s] \in Begun \/ \A d \in NeedsOf[s] : StateOf[d] = "done"
      PROVE  StateOf'[n] = "done"
  BY <1>2
<1>3. ASSUME NEW R \in SUBSET Steps, Queue!Submit(R) \/ Queue!Recover(R) \/ Queue!Withdraw(R)
      PROVE  StateOf'[n] = "done"
  <2>1. NeedsOf' = NeedsOf
    BY <1>3 DEF Queue!Submit, Queue!Recover, Queue!Withdraw, NeedsOf
  <2>2. \A r \in Steps : StateOf[r] = "done" => StateOf'[r] = "done"
    BY <1>3 DEF Queue!Submit, Queue!Recover, Queue!Withdraw, Queue!Moved, StateOf
  <2>3. StateOf[s] \in Begun
    BY <1>3 DEF Queue!Submit, Queue!Recover, Queue!Withdraw, Queue!Moved, StateOf
  <2> QED
    BY <1>2, <2>1, <2>2, <2>3
<1>4. ASSUME NEW r \in Steps, Queue!Begin(r) \/ Queue!End(r, "done") \/ Queue!End(r, "failed")
      PROVE  StateOf'[n] = "done"
  <2>1. NeedsOf' = NeedsOf
    BY <1>4 DEF Queue!Begin, Queue!End, NeedsOf
  <2>2. \A t \in Steps : StateOf[t] = "done" => StateOf'[t] = "done"
    BY <1>4 DEF Queue!Begin, Queue!End, Queue!Moved, StateOf
  <2>3. StateOf[s] \in Begun \/ \A d \in NeedsOf[s] : StateOf[d] = "done"
    BY <1>4 DEF Queue!Begin, Queue!End, Queue!Moved, StateOf, NeedsOf
  <2> QED
    BY <1>2, <2>1, <2>2, <2>3
<1> QED
  BY <1>1, <1>3, <1>4 DEF Queue!QueueNext

\* A step that was launched had its dependencies succeed, but those whose
\* failure it may tolerate.
NeedsSucceeded ==
  \A s \in Steps : task[s] # "none" =>
    \A d \in dependencies[s] \ AllowFailure : statuses[d] = "succeeded"

\* The promise, said of the executor.
LEMMA NeedsSeen == ASSUME Inv, NeedsDone PROVE NeedsSucceeded
<1> SUFFICES ASSUME NEW s \in Steps, task[s] # "none", NEW d \in dependencies[s] \ AllowFailure
             PROVE  statuses[d] = "succeeded"
  BY DEF NeedsSucceeded
<1>1. statuses[s] \in {"running", "succeeded", "failed", "timed_out"} /\ s \in present
  <2>1. statuses[s] \notin {"pending", "skipped"}
    BY DEF Inv, TaskInv
  <2>2. s \in present
    BY <2>1 DEF Inv, TaskInv
  <2> QED
    BY <2>1, <2>2 DEF Inv, TypeOK, Terminal, Broken
<1>2. phase \notin {"build", "refused"}
  BY <1>1 DEF Inv, PassInv
<1>3. StateOf[s] \in Begun
  BY <1>1, <1>2, Mapped DEF Seen, Begun
<1>4. d \in Steps /\ d \in NeedsOf[s]
  BY Mapped DEF Inv, TypeOK
<1>5. StateOf[d] = "done"
  BY <1>3, <1>4 DEF NeedsDone
<1> QED
  BY <1>4, <1>5, Mapped DEF Seen, Inv, TypeOK, Terminal, Broken

\* For any graph, retries and capacities: a task exists only for a step whose
\* dependencies succeeded or may fail, and they are never taken back.  Follows
\* from the abstract queue.
THEOREM NothingRunsAhead == Spec => []NeedsSucceeded
<1>1. Init => NeedsDone
  BY Mapped DEF Init, NeedsDone, Seen, Begun
<1>2. Inv /\ Inv' /\ NeedsDone /\ [Next]_vars => NeedsDone'
  <2>1. Inv => NeedsOf \in [Steps -> SUBSET Steps]
    BY DEF Inv, TypeOK, NeedsOf
  <2> QED
    BY <2>1, QueueSteps, NeedsKept
<1> QED
  BY <1>1, <1>2, NeedsSeen, Invariance, PTL DEF Spec
=============================================================================
