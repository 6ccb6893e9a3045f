------------------------ MODULE StagedRolloutProofs ------------------------
(***************************************************************************)
(* Theorems about staged upgrades for any targets, architectures, leaders  *)
(* and number of waves: types, the canary gate of an automatic rollout and *)
(* that its completion covers every target.                                *)
(***************************************************************************)
EXTENDS StagedRollout, FiniteSetTheorems, TLAPS

Kinds == {"build", "restart"}

\* Every target of a stage, but the machines that compose, was upgraded.
StageDone(s) == \A n \in (Stage(s) \cap Targets) \ Agents : Upgraded(n)

\* The waves are numbered without gaps; a composed wave has tasks for every
\* target of its stage that composes none, and only a composed wave is tagged.
WaveInv ==
  /\ \E c \in 0 .. MaxWaves : Composed = 1 .. c
  /\ \A k \in Composed : \A n \in (Stage(wave[k].stage) \cap Targets) \ Agents : \A x \in Kinds :
       state[<<k, n, x>>] # "new"
  /\ \A k \in Waves : wave[k].tagged => k \in Composed

\* A process about to tag holds a wave that was composed.
AgentInv == \A a \in Agents : agent[a].at = "tag" => agent[a].wave \in Composed

\* Whoever works on the second stage of an automatic rollout, the row, the
\* bake and the waves: the canaries were upgraded before.
GateInv ==
  Automatic =>
    /\ \A a \in Agents : agent[a].stage = 1 => StageDone(0)
    /\ rollout.stage = 1 => StageDone(0)
    /\ rollout.bake # "unset" => StageDone(0)
    /\ \A k \in Composed : wave[k].stage = 1 => StageDone(0)

\* Whoever is about to complete it: every stage was upgraded.
CoverInv ==
  Automatic =>
    /\ \A a \in Agents : agent[a].at = "complete" => StageDone(0) /\ StageDone(1)
    /\ rollout.status = "completed" => StageDone(0) /\ StageDone(1)

Inv == TypeOK /\ WaveInv /\ AgentInv /\ GateInv /\ CoverInv

-----------------------------------------------------------------------------
\* Finite sets of tasks.

\* The tasks of finitely many waves are finitely many.
LEMMA TasksFinite ==
  ASSUME NEW W, IsFiniteSet(W) PROVE IsFiniteSet(W \X Targets \X Kinds)
<1> DEFINE P == (W \X Targets) \X Kinds
           T == W \X Targets \X Kinds
           f == [p \in P |-> <<p[1][1], p[1][2], p[2]>>]
<1>1. IsFiniteSet(Kinds)
  <2>1. Kinds = {"build"} \cup {"restart"}
    BY DEF Kinds
  <2> QED
    BY <2>1, FS_Singleton, FS_AddElement
<1>2. IsFiniteSet(P)
  BY <1>1, FS_Product, TargetsAssumption
<1>3. f \in [P -> T]
  OBVIOUS
<1>4. ASSUME NEW t \in T PROVE \E p \in P : f[p] = t
  <2> DEFINE q == <<<<t[1], t[2]>>, t[3]>>
  <2>1. q \in P /\ f[q] = t
    OBVIOUS
  <2> QED
    BY <2>1
<1>5. f \in Surjection(P, T)
  BY <1>3, <1>4 DEF Surjection
<1> QED
  BY <1>2, <1>5, FS_Surjection

\* A count is a number, and zero only if there is nothing to count.
LEMMA CountZero ==
  ASSUME NEW s, NEW tasks, NEW parents
  PROVE  /\ Count(s, tasks, parents) \in Nat
         /\ Count(s, tasks, parents) = 0 =>
              \A k \in Tagged(s), n \in Targets, x \in Kinds : state[<<k, n, x>>] \notin tasks
<1> DEFINE A == {t \in Tagged(s) \X Targets \X Kinds : state[t] \in tasks}
           B == {k \in Tagged(s) : wave[k].parent \in parents}
<1>1. IsFiniteSet(Tagged(s))
  BY FS_Interval, FS_Subset, TargetsAssumption DEF Tagged, Waves
<1>2. IsFiniteSet(A) /\ Cardinality(A) \in Nat
  <2>1. IsFiniteSet(Tagged(s) \X Targets \X Kinds)
    BY <1>1, TasksFinite
  <2>2. A \in SUBSET (Tagged(s) \X Targets \X Kinds)
    OBVIOUS
  <2> HIDE DEF A
  <2> QED
    BY <2>1, <2>2, FS_Subset, FS_CardinalityType
<1>3. Cardinality(B) \in Nat
  BY <1>1, FS_Subset, FS_CardinalityType
<1>4. Count(s, tasks, parents) = Cardinality(A) + Cardinality(B)
  BY DEF Count, Kinds
<1>5. ASSUME Count(s, tasks, parents) = 0,
             NEW k \in Tagged(s), NEW n \in Targets, NEW x \in Kinds
      PROVE  state[<<k, n, x>>] \notin tasks
  <2>1. A = {}
    BY <1>2, <1>3, <1>4, <1>5, FS_EmptySet
  <2>2. <<k, n, x>> \in Tagged(s) \X Targets \X Kinds
    OBVIOUS
  <2> QED
    BY <2>1, <2>2
<1> HIDE DEF A, B
<1> QED
  BY <1>2, <1>3, <1>4, <1>5

-----------------------------------------------------------------------------
\* What leaves the parts of the invariant alone.

\* Upgrades are never undone: tasks that are done and tags stay.
LEMMA DoneKept ==
  ASSUME NEW s, StageDone(s),
         \A k \in Waves : wave[k].tagged => wave'[k].tagged,
         \A t \in WaveTasks : state[t] = "done" => state'[t] = "done"
  PROVE  StageDone(s)'
<1> SUFFICES ASSUME NEW n \in (Stage(s) \cap Targets) \ Agents PROVE Upgraded(n)'
  BY DEF StageDone, Stage, Canaries, Agents
<1>1. PICK k \in Waves : wave[k].tagged /\ state[<<k, n, "restart">>] = "done"
  BY DEF StageDone, Upgraded
<1>2. <<k, n, "restart">> \in WaveTasks
  BY DEF WaveTasks
<1> QED
  BY <1>1, <1>2 DEF Upgraded

\* A step in which only a process and the row move on.
LEMMA AgentKept ==
  ASSUME Inv, NEW a \in Agents, NEW r \in Agent, Goto(a, r),
         UNCHANGED <<wave, taskVars, busy, fit>>, events' \in 0 .. MaxEvents, rollout' \in Rollout,
         r.at = "tag" => r.wave \in Composed,
         Automatic => (r.stage = 1 \/ rollout'.stage = 1 \/ rollout'.bake # "unset" => StageDone(0)),
         Automatic => (r.at = "complete" \/ rollout'.status = "completed" =>
                         StageDone(0) /\ StageDone(1))
  PROVE  Inv'
<1> USE DEF Goto, taskVars
<1>1. Composed' = Composed
  BY DEF Composed
<1>2. /\ agent' \in [Agents -> Agent] /\ agent'[a] = r
      /\ \A b \in Agents : b # a => agent'[b] = agent[b]
  BY DEF Inv, TypeOK
<1>3. TypeOK'
  BY <1>2 DEF Inv, TypeOK
<1>4. WaveInv'
  BY <1>1 DEF Inv, WaveInv
<1>5. AgentInv'
  BY <1>1, <1>2 DEF Inv, AgentInv
<1>6. (StageDone(0) => StageDone(0)') /\ (StageDone(1) => StageDone(1)')
  BY DEF StageDone, Upgraded
<1>7. GateInv'
  BY <1>1, <1>2, <1>6 DEF Inv, GateInv
<1>8. CoverInv'
  BY <1>2, <1>6 DEF Inv, CoverInv
<1> QED
  BY <1>3, <1>4, <1>5, <1>7, <1>8 DEF Inv

\* A step in which only tasks move on, none of them back to new or from done.
LEMMA TasksKept ==
  ASSUME Inv, UNCHANGED <<rollout, wave, agent, busy, fit>>, events' \in 0 .. MaxEvents,
         state' \in [WaveTasks -> Q!States], attempts' \in [WaveTasks -> {0, 1}],
         \A t \in WaveTasks : /\ state[t] # "new" => state'[t] # "new"
                              /\ state[t] = "done" => state'[t] = "done"
  PROVE  Inv'
<1>1. Composed' = Composed
  BY DEF Composed
<1>2. TypeOK'
  BY DEF Inv, TypeOK
<1>3. WaveInv'
  <2>1. \A k \in Composed, n \in Targets, x \in Kinds : <<k, n, x>> \in WaveTasks
    BY DEF Composed, WaveTasks, Kinds
  <2> QED
    BY <1>1, <2>1 DEF Inv, WaveInv
<1>4. AgentInv'
  BY <1>1 DEF Inv, AgentInv
<1>5. (StageDone(0) => StageDone(0)') /\ (StageDone(1) => StageDone(1)')
  BY DoneKept
<1>6. GateInv' /\ CoverInv'
  BY <1>1, <1>5 DEF Inv, GateInv, CoverInv
<1> QED
  BY <1>2, <1>3, <1>4, <1>6 DEF Inv

\* Processes that stand still are at no stage.
LEMMA IdleTyped == Idle \in Agent /\ Idle.at = "idle" /\ Idle.stage = 0
BY TargetsAssumption DEF Idle, Agent

\* The record of a step of a process.
LEMMA StepTyped ==
  ASSUME NEW at \in {"compose", "wave", "tag", "judge", "halt", "complete", "advance"},
         NEW st \in {0, 1}, NEW from \in {0, 1}, NEW k \in 0 .. MaxWaves,
         NEW goal \in {"none", "fill", "advance", "unset", "running", "over"}
  PROVE  /\ StepOf(at, st, from, k, goal) \in Agent
         /\ StepOf(at, st, from, k, goal).at = at /\ StepOf(at, st, from, k, goal).stage = st
         /\ StepOf(at, st, from, k, goal).wave = k
BY DEF StepOf, Agent

-----------------------------------------------------------------------------
\* The gate.

\* A stage with a tagged wave that is judged to have passed was upgraded: none
\* of its tasks is waiting, at work, failed or cancelled.
LEMMA PassedIsDone ==
  ASSUME Inv, Automatic, NEW s \in {0, 1}, Tagged(s) # {},
         Decide(Tally(s), s) \in {"advance", "complete"}
  PROVE  StageDone(s)
<1> DEFINE running == Count(s, {"waiting", "owned"}, {"pending"})
           failed == Count(s, {"failed", "cancelled"}, {"failed"})
           completed == Count(s, {"done"}, {"completed"})
<1>1. running \in Nat /\ failed \in Nat /\ completed \in Nat
  BY CountZero
<1>2. Tally(s) = [completed |-> completed, failed |-> failed, running |-> running]
  BY DEF Tally
<1>3. FailurePct = 0
  BY TargetsAssumption
<1> HIDE DEF running, failed, completed
<1>4. /\ Tally(s).running = running /\ Tally(s).failed = failed /\ Tally(s).completed = completed
  BY <1>2
<1>5. running = 0
  BY <1>1, <1>4 DEF Decide
<1>6. failed = 0
  <2>1. completed + failed > 0 => ~ (IF s = 0 THEN failed >= 1 ELSE failed * 100 > (completed + failed) * 0)
    BY <1>1, <1>3, <1>4, <1>5 DEF Decide
  <2>2. CASE s = 0
    BY <1>1, <2>1, <2>2
  <2>3. CASE s = 1
    <3>1. completed + failed > 0 => ~ (failed * 100 > 0)
      BY <1>1, <2>1, <2>3
    <3> QED
      BY <1>1, <3>1
  <2> QED
    BY <2>2, <2>3
<1>7. PICK k \in Tagged(s) : TRUE
  OBVIOUS
<1>8. k \in Waves /\ wave[k].tagged /\ wave[k].stage = s /\ k \in Composed
  BY DEF Tagged, Inv, WaveInv
<1>9. ASSUME NEW n \in (Stage(s) \cap Targets) \ Agents PROVE Upgraded(n)
  <2>1. "restart" \in Kinds
    BY DEF Kinds
  <2>2. state[<<k, n, "restart">>] \notin {"waiting", "owned"} \cup {"failed", "cancelled"}
    BY <1>5, <1>6, <2>1, CountZero DEF running, failed
  <2>3. state[<<k, n, "restart">>] # "new"
    BY <1>8, <2>1 DEF Inv, WaveInv
  <2>4. <<k, n, "restart">> \in WaveTasks
    BY <1>8 DEF WaveTasks
  <2>5. state[<<k, n, "restart">>] = "done"
    BY <2>2, <2>3, <2>4 DEF Inv, TypeOK, Q!States, Q!Ended
  <2> QED
    BY <1>8, <2>5 DEF Upgraded
<1> QED
  BY <1>9 DEF StageDone

\* The canaries of an automatic rollout are targets, one of each architecture.
LEMMA CanariesAreTargets == ASSUME Automatic PROVE Canaries \subseteq Targets
<1> DEFINE One(n) == CHOOSE d \in Targets : Arch[d] = Arch[n]
           C == {One(n) : n \in Targets}
<1>1. \A n \in Targets : One(n) \in Targets /\ Arch[One(n)] = Arch[n]
  OBVIOUS
<1>2. \A n, m \in Targets : Arch[n] = Arch[m] => One(n) = One(m)
  OBVIOUS
<1>3. C \in SUBSET Targets
  BY <1>1
<1>4. ASSUME NEW n \in Targets PROVE Cardinality({d \in C : Arch[d] = Arch[n]}) = 1
  <2> HIDE DEF One
  <2>1. {d \in C : Arch[d] = Arch[n]} = {One(n)}
    BY <1>1, <1>2
  <2> QED
    BY <2>1, FS_Singleton
<1> HIDE DEF C
<1> QED
  BY <1>3, <1>4 DEF Canaries

-----------------------------------------------------------------------------

\* No rollout, no waves.
LEMMA InitInv == Init => Inv
<1> SUFFICES ASSUME Init PROVE Inv
  OBVIOUS
<1> USE DEF Init, Idle, NoWave
<1>1. TypeOK
  <2>1. rollout \in Rollout
    BY DEF Rollout
  <2>2. wave \in [Waves -> Wave]
    BY DEF Wave
  <2>3. state \in [WaveTasks -> Q!States] /\ attempts \in [WaveTasks -> {0, 1}]
    BY DEF Q!QueueInit, Q!States
  <2>4. agent \in [Agents -> Agent]
    BY IdleTyped
  <2>5. busy \in {"free", "leases", "maintenance"} /\ fit \in BOOLEAN
    BY Zenon
  <2>6. 0 \in 0 .. MaxEvents
    BY TargetsAssumption
  <2> QED
    BY <2>1, <2>2, <2>3, <2>4, <2>5, <2>6 DEF TypeOK
<1>2. Composed = {} /\ 1 .. 0 = {} /\ 0 \in 0 .. MaxWaves
  BY TargetsAssumption DEF Composed
<1>3. WaveInv
  BY <1>2 DEF WaveInv
<1>4. AgentInv /\ GateInv /\ CoverInv
  BY <1>2 DEF AgentInv, GateInv, CoverInv
<1> QED
  BY <1>1, <1>3, <1>4 DEF Inv

\* compose_stage that composes nothing, and a process that stops.
LEMMA CheckLeasesInv == ASSUME NEW a \in Agents, Inv, CheckLeases(a) PROVE Inv'
<1> DEFINE r == StepOf("wave", agent[a].stage, agent[a].from, 0, agent[a].goal)
<1>1. /\ agent[a].stage \in {0, 1} /\ agent[a].from \in {0, 1}
      /\ agent[a].goal \in {"none", "fill", "advance", "unset", "running", "over"}
      /\ 0 \in 0 .. MaxWaves
  BY TargetsAssumption DEF Inv, TypeOK, Agent
<1>2. r \in Agent /\ r.at = "wave" /\ r.stage = agent[a].stage
  BY <1>1, StepTyped
<1>3. (Goto(a, Idle) \/ Goto(a, r)) /\ UNCHANGED <<rollout, wave, taskVars, busy, fit, events>>
  BY DEF CheckLeases, envVars
<1> HIDE DEF r
<1>4. CASE Goto(a, r)
  BY <1>2, <1>3, <1>4, AgentKept DEF Inv, TypeOK, GateInv, CoverInv
<1>5. CASE Goto(a, Idle)
  BY <1>3, <1>5, IdleTyped, AgentKept DEF Inv, TypeOK, GateInv, CoverInv
<1> QED
  BY <1>3, <1>4, <1>5

LEMMA ComposeFailsInv == ASSUME NEW a \in Agents, Inv, ComposeFails(a) PROVE Inv'
BY IdleTyped, AgentKept DEF ComposeFails, envVars, Inv, TypeOK, GateInv, CoverInv

LEMMA StopAgentInv == ASSUME NEW a \in Agents, Inv, StopAgent(a) PROVE Inv'
<1>1. events' \in 0 .. MaxEvents
  BY TargetsAssumption DEF StopAgent, Event, Inv, TypeOK
<1> QED
  BY <1>1, IdleTyped, AgentKept DEF StopAgent, Inv, TypeOK, GateInv, CoverInv

\* A new wave has the next number, and tasks for the targets of its stage.
LEMMA ComposeWaveInv == ASSUME NEW a \in Agents, Inv, ComposeWave(a) PROVE Inv'
<1> DEFINE s == agent[a].stage
           T(k) == {t \in WaveTasks : t[1] = k /\ t[2] \in Stage(s) \ {a}}
<1>1. PICK k \in Waves :
        /\ k = Cardinality(Composed) + 1
        /\ Q!Submit(T(k))
        /\ wave' = [wave EXCEPT ![k] = [stage |-> s, tagged |-> FALSE, parent |-> "pending"]]
        /\ Goto(a, StepOf("tag", s, agent[a].from, k, agent[a].goal))
  BY DEF ComposeWave
<1>2. UNCHANGED <<rollout, busy, fit, events>>
  BY DEF ComposeWave, envVars
<1>3. agent[a] \in Agent /\ s \in {0, 1} /\ k \in 0 .. MaxWaves
  BY TargetsAssumption DEF Inv, TypeOK, Agent, Waves
<1>4. PICK c \in 0 .. MaxWaves : Composed = 1 .. c
  BY DEF Inv, WaveInv
<1>5. k = c + 1 /\ k \notin Composed
  <2>1. c \in Nat /\ 1 \in Int /\ c \in Int
    BY TargetsAssumption
  <2>2. Cardinality(1 .. c) = IF 1 > c THEN 0 ELSE c - 1 + 1
    BY <2>1, FS_Interval
  <2>3. Cardinality(1 .. c) = c
    BY <2>1, <2>2
  <2>4. k = c + 1
    BY <1>1, <1>4, <2>3
  <2> QED
    BY <1>4, <2>1, <2>4
<1>6. /\ wave' \in [Waves -> Wave] /\ wave'[k].stage = s /\ ~ wave'[k].tagged
      /\ wave'[k].parent = "pending"
      /\ \A j \in Waves : j # k => wave'[j] = wave[j]
  BY <1>1, <1>3 DEF Inv, TypeOK, Wave
<1>7. Composed' = Composed \cup {k}
  BY <1>6 DEF Composed
<1>8. /\ state' \in [WaveTasks -> Q!States] /\ attempts' = attempts
      /\ \A t \in WaveTasks : state'[t] = IF t \in T(k) THEN "waiting" ELSE state[t]
      /\ \A t \in T(k) : state[t] = "new"
  BY <1>1 DEF Inv, TypeOK, Q!Submit, Q!Moved, Q!States
<1>9. /\ agent'[a].at = "tag" /\ agent'[a].stage = s /\ agent'[a].wave = k
      /\ agent' \in [Agents -> Agent]
      /\ \A b \in Agents : b # a => agent'[b] = agent[b]
  <2> DEFINE r == StepOf("tag", s, agent[a].from, k, agent[a].goal)
  <2>1. /\ agent[a].from \in {0, 1}
        /\ agent[a].goal \in {"none", "fill", "advance", "unset", "running", "over"}
    BY <1>3 DEF Agent
  <2>2. r \in Agent /\ r.at = "tag" /\ r.stage = s /\ r.wave = k
    BY <1>3, <2>1, StepTyped, SMTT(60)
  <2>3. agent' = [agent EXCEPT ![a] = r]
    BY <1>1 DEF Goto
  <2> HIDE DEF r, s
  <2> QED
    BY <2>2, <2>3 DEF Inv, TypeOK
<1>10. TypeOK'
  BY <1>2, <1>6, <1>8, <1>9 DEF Inv, TypeOK
<1>11. WaveInv'
  <2>1. Composed' = 1 .. (c + 1) /\ c + 1 \in 0 .. MaxWaves
    BY <1>1, <1>4, <1>5, <1>7 DEF Waves
  <2>2. ASSUME NEW j \in Composed', NEW n \in (Stage(wave'[j].stage) \cap Targets) \ Agents,
               NEW x \in Kinds
        PROVE  state'[<<j, n, x>>] # "new"
    <3>1. <<j, n, x>> \in WaveTasks /\ n # a /\ j \in Waves
      BY DEF WaveTasks, Kinds, Composed
    <3>2. CASE j = k
      <4>1. <<j, n, x>> \in T(k)
        BY <1>6, <3>1, <3>2
      <4> QED
        BY <1>8, <3>1, <4>1
    <3>3. CASE j # k
      <4>1. j \in Composed /\ wave'[j] = wave[j]
        BY <1>6, <1>7, <3>1, <3>3
      <4>2. state[<<j, n, x>>] # "new"
        BY <4>1 DEF Inv, WaveInv
      <4> QED
        BY <1>8, <3>1, <4>2
    <3> QED
      BY <3>2, <3>3
  <2>3. \A j \in Waves : wave'[j].tagged => j \in Composed'
    BY <1>6, <1>7 DEF Inv, WaveInv
  <2>4. \A j, t : Stage(t)' = Stage(t)
    BY DEF Stage, Canaries
  <2> QED
    BY <2>1, <2>2, <2>3, <2>4 DEF WaveInv, Agents
<1>12. AgentInv'
  BY <1>7, <1>9 DEF Inv, AgentInv
<1>13. (StageDone(0) => StageDone(0)') /\ (StageDone(1) => StageDone(1)')
  <2>1. \A j \in Waves : wave[j].tagged => wave'[j].tagged
    BY <1>5, <1>6 DEF Inv, WaveInv
  <2>2. \A t \in WaveTasks : state[t] = "done" => state'[t] = "done"
    BY <1>8
  <2> QED
    BY <2>1, <2>2, DoneKept
<1>14. GateInv'
  BY <1>2, <1>6, <1>7, <1>9, <1>13 DEF Inv, GateInv, Composed
<1>15. CoverInv'
  BY <1>2, <1>9, <1>13 DEF Inv, CoverInv
<1> QED
  BY <1>10, <1>11, <1>12, <1>14, <1>15 DEF Inv

\* Tagging, and the reaper's verdict, change a wave that was composed.
LEMMA WavesKept ==
  ASSUME Inv, NEW k \in Composed, NEW w \in Wave, wave' = [wave EXCEPT ![k] = w],
         w.stage = wave[k].stage, w.parent # "none", wave[k].tagged => w.tagged,
         UNCHANGED <<rollout, taskVars, envVars>>,
         agent' \in [Agents -> Agent],
         \A b \in Agents :
           \/ agent'[b] = agent[b]
           \/ agent'[b].at \notin {"tag", "complete"} /\ (agent'[b].stage = 1 => agent[b].stage = 1)
  PROVE  Inv'
<1> USE DEF taskVars, envVars
<1>1. /\ k \in Waves /\ wave' \in [Waves -> Wave] /\ wave'[k] = w
      /\ \A j \in Waves : j # k => wave'[j] = wave[j]
  BY DEF Inv, TypeOK, Composed
<1>2. Composed' = Composed
  BY <1>1 DEF Composed
<1>3. TypeOK'
  BY <1>1 DEF Inv, TypeOK
<1>4. \A j \in Waves : wave'[j].stage = wave[j].stage
  BY <1>1
<1>5. WaveInv'
  <2>1. \A t : Stage(t)' = Stage(t)
    BY DEF Stage, Canaries
  <2>2. \A j \in Composed : j \in Waves
    BY DEF Composed
  <2> QED
    BY <1>1, <1>2, <1>4, <2>1, <2>2 DEF Inv, WaveInv, Agents
<1>6. AgentInv'
  BY <1>2 DEF Inv, AgentInv
<1>7. (StageDone(0) => StageDone(0)') /\ (StageDone(1) => StageDone(1)')
  BY <1>1, DoneKept
<1>8. GateInv'
  BY <1>2, <1>4, <1>7 DEF Inv, GateInv, Composed
<1>9. CoverInv'
  BY <1>7 DEF Inv, CoverInv
<1> QED
  BY <1>3, <1>5, <1>6, <1>8, <1>9 DEF Inv

LEMMA TagInv == ASSUME NEW a \in Agents, Inv, Tag(a) PROVE Inv'
<1> USE DEF Tag, At
<1> DEFINE k == agent[a].wave
           w == [wave[k] EXCEPT !.tagged = TRUE]
           r == IF agent[a].goal = "advance"
                THEN StepOf("advance", agent[a].stage, agent[a].from, 0, "none") ELSE Idle
<1>1. k \in Composed /\ k \in Waves /\ wave[k].parent # "none"
  BY DEF Inv, AgentInv, Composed
<1>2. w \in Wave /\ w.stage = wave[k].stage /\ w.parent # "none" /\ w.tagged
  BY <1>1 DEF Inv, TypeOK, Wave
<1>3. wave' = [wave EXCEPT ![k] = w]
  BY <1>1 DEF Inv, TypeOK
<1>4. r \in Agent /\ r.at \notin {"tag", "complete"} /\ (r.stage = 1 => agent[a].stage = 1)
  <2>1. agent[a] \in Agent /\ 0 \in 0 .. MaxWaves
    BY TargetsAssumption DEF Inv, TypeOK
  <2>2. agent[a].stage \in {0, 1} /\ agent[a].from \in {0, 1}
    BY <2>1 DEF Agent
  <2> QED
    BY <2>1, <2>2, StepTyped, IdleTyped
<1>5. agent' = [agent EXCEPT ![a] = r]
  BY DEF Goto
<1> HIDE DEF r, w, k
<1>6. /\ agent' \in [Agents -> Agent]
      /\ \A b \in Agents : agent'[b] = IF b = a THEN r ELSE agent[b]
  BY <1>4, <1>5 DEF Inv, TypeOK
<1>7. UNCHANGED <<rollout, taskVars, envVars>>
  OBVIOUS
<1>8. \A b \in Agents :
        \/ agent'[b] = agent[b]
        \/ agent'[b].at \notin {"tag", "complete"} /\ (agent'[b].stage = 1 => agent[b].stage = 1)
  BY <1>4, <1>6
<1> QED
  BY <1>1, <1>2, <1>3, <1>6, <1>7, <1>8, WavesKept

LEMMA RollUpInv == ASSUME NEW k \in Waves, Inv, RollUp(k) PROVE Inv'
<1> DEFINE ended == {state[t] : t \in TasksOf(k)}
           verdict == IF "failed" \notin ended /\ "done" \in ended THEN "completed" ELSE "failed"
           w == [wave[k] EXCEPT !.parent = verdict]
<1>1. k \in Composed
  BY DEF RollUp, Composed
<1>2. wave' = [wave EXCEPT ![k].parent = verdict]
  BY DEF RollUp
<1>3. verdict \in {"completed", "failed"}
  OBVIOUS
<1> HIDE DEF verdict
<1>4. w \in Wave /\ w.stage = wave[k].stage /\ w.parent # "none" /\ (wave[k].tagged => w.tagged)
  BY <1>3 DEF Inv, TypeOK, Wave
<1>5. wave' = [wave EXCEPT ![k] = w]
  BY <1>2 DEF Inv, TypeOK
<1>6. UNCHANGED <<rollout, taskVars, envVars>> /\ agent' = agent
  BY DEF RollUp
<1> HIDE DEF w
<1>7. agent' \in [Agents -> Agent] /\ \A b \in Agents : agent'[b] = agent[b]
  BY <1>6 DEF Inv, TypeOK
<1> QED
  BY <1>1, <1>4, <1>5, <1>6, <1>7, WavesKept

-----------------------------------------------------------------------------
\* The creator and the leaders.

LEMMA CreateInv == ASSUME Inv, Create PROVE Inv'
<1> DEFINE r == StepOf("compose", 0, 0, 0, "fill")
<1>1. r \in Agent /\ r.at = "compose" /\ r.stage = 0
  BY StepTyped, TargetsAssumption
<1>2. /\ rollout' \in Rollout /\ rollout'.stage = rollout.stage
      /\ rollout'.bake = rollout.bake /\ rollout'.status = "in_progress"
  BY DEF Create, Inv, TypeOK, Rollout
<1>3. Goto(Creator, r) /\ UNCHANGED <<wave, taskVars, busy, fit, events>>
  BY DEF Create, envVars
<1>4. Creator \in Agents /\ events' \in 0 .. MaxEvents
  BY <1>3 DEF Agents, Inv, TypeOK
<1> HIDE DEF r
<1>5. Automatic => (r.stage = 1 \/ rollout'.stage = 1 \/ rollout'.bake # "unset" => StageDone(0))
  BY <1>1, <1>2 DEF Inv, GateInv
<1> QED
  BY <1>1, <1>2, <1>3, <1>4, <1>5, AgentKept

\* load_in_progress and a refill take over the stage they found.
LEMMA LoadInv == ASSUME NEW a \in Leaders, Inv, Load(a) PROVE Inv'
<1> DEFINE r == StepOf("judge", rollout.stage, rollout.stage, 0, rollout.bake)
<1>1. rollout.stage \in {0, 1} /\ rollout.bake \in {"unset", "running", "over"} /\ 0 \in 0 .. MaxWaves
  BY TargetsAssumption DEF Inv, TypeOK, Rollout
<1>2. r \in Agent /\ r.at = "judge" /\ r.stage = rollout.stage
  BY <1>1, StepTyped
<1>3. Goto(a, r) /\ UNCHANGED <<rollout, wave, taskVars, busy, fit, events>> /\ a \in Agents
  BY DEF Load, envVars, Agents
<1> HIDE DEF r
<1> QED
  BY <1>2, <1>3, AgentKept DEF Inv, TypeOK, GateInv, CoverInv

LEMMA RefillInv == ASSUME NEW a \in Leaders, Inv, Refill(a) PROVE Inv'
<1> DEFINE s == agent[a].stage
           r == StepOf("compose", s, s, 0, "fill")
<1>1. a \in Agents /\ s \in {0, 1} /\ 0 \in 0 .. MaxWaves
  BY TargetsAssumption DEF Inv, TypeOK, Agents, Agent
<1>2. r \in Agent /\ r.at = "compose" /\ r.stage = s
  BY <1>1, StepTyped
<1>3. Goto(a, r) /\ UNCHANGED <<rollout, wave, taskVars, busy, fit, events>>
  BY DEF Refill, envVars
<1> HIDE DEF r
<1> QED
  BY <1>1, <1>2, <1>3, AgentKept DEF Inv, TypeOK, GateInv, CoverInv

\* Of an automatic rollout, a stage passes only if it was upgraded; the bake
\* begins after it, and the last stage to pass completes it.
LEMMA JudgeInv == ASSUME NEW a \in Leaders, Inv, Judge(a) PROVE Inv'
<1> DEFINE s == agent[a].stage
           decision == Decide(Tally(s), s)
<1>1. a \in Agents /\ s \in {0, 1} /\ 0 \in 0 .. MaxWaves
  BY TargetsAssumption DEF Inv, TypeOK, Agents, Agent
<1>2. /\ UNCHANGED <<wave, taskVars, busy, fit, events>> /\ events' \in 0 .. MaxEvents
      /\ Automatic => Tagged(s) # {}
  BY DEF Judge, envVars, Inv, TypeOK
<1>3. Automatic /\ s = 1 => StageDone(0)
  BY <1>1 DEF Inv, GateInv
<1>4. Automatic /\ decision \in {"advance", "complete"} => StageDone(s)
  BY <1>1, <1>2, PassedIsDone
<1>5. /\ decision = "advance" => s = 0
      /\ decision = "complete" /\ s = 0 => Stage(1) = {}
  <2>1. decision = "advance" => HasMore(s)
    BY DEF Decide
  <2>2. decision = "complete" => ~ HasMore(s)
    BY DEF Decide
  <2> QED
    BY <2>1, <2>2 DEF HasMore
<1>6. CASE UNCHANGED rollout /\ Goto(a, Idle)
  BY <1>1, <1>2, <1>6, IdleTyped, AgentKept DEF Inv, TypeOK, GateInv, CoverInv
<1>7. CASE UNCHANGED rollout /\ Goto(a, StepOf("halt", s, s, 0, "none"))
  <2> DEFINE r == StepOf("halt", s, s, 0, "none")
  <2>1. r \in Agent /\ r.at = "halt" /\ r.stage = s
    BY <1>1, StepTyped
  <2> HIDE DEF r
  <2> QED
    BY <1>1, <1>2, <1>3, <1>7, <2>1, AgentKept DEF Inv, TypeOK, GateInv, CoverInv, r
<1>8. CASE /\ decision \in {"advance", "complete"} /\ s = 0 /\ Goto(a, Idle)
           /\ rollout' = [rollout EXCEPT !.bake = IF @ = "unset" THEN "running" ELSE @]
  <2>1. /\ rollout' \in Rollout /\ rollout'.stage = rollout.stage /\ rollout'.status = rollout.status
    BY <1>8 DEF Inv, TypeOK, Rollout
  <2> QED
    BY <1>1, <1>2, <1>4, <1>8, <2>1, IdleTyped, AgentKept DEF Inv, GateInv, CoverInv
<1>9. CASE decision = "complete" /\ UNCHANGED rollout /\ Goto(a, StepOf("complete", s, s, 0, "none"))
  <2> DEFINE r == StepOf("complete", s, s, 0, "none")
  <2>1. r \in Agent /\ r.at = "complete" /\ r.stage = s
    BY <1>1, StepTyped
  <2>2. Automatic => StageDone(0) /\ StageDone(1)
    BY <1>1, <1>3, <1>4, <1>5, <1>9 DEF StageDone
  <2> HIDE DEF r
  <2> QED
    BY <1>1, <1>2, <1>9, <2>1, <2>2, AgentKept DEF Inv, TypeOK, GateInv, CoverInv, r
<1>10. CASE decision = "advance" /\ UNCHANGED rollout
            /\ Goto(a, StepOf("compose", s + 1, s, 0, "advance"))
  <2> DEFINE r == StepOf("compose", s + 1, s, 0, "advance")
  <2>1. s = 0 /\ s + 1 = 1
    BY <1>5, <1>10
  <2>2. r \in Agent /\ r.at = "compose"
    BY <1>1, <2>1, StepTyped
  <2>3. Automatic => StageDone(0)
    BY <1>4, <1>10, <2>1
  <2> HIDE DEF r
  <2> QED
    BY <1>1, <1>2, <1>10, <2>2, <2>3, AgentKept DEF Inv, TypeOK, GateInv, CoverInv, r
<1> HIDE DEF s, decision
<1> QED
  BY <1>6, <1>7, <1>8, <1>9, <1>10 DEF Judge, s, decision

\* The row is halted, completed or advanced only while it is in progress.
LEMMA SettleInv ==
  ASSUME NEW a \in Leaders, Inv, Halt(a) \/ Complete(a) PROVE Inv'
<1>1. PICK step \in {"halt", "complete"}, st \in {"halted", "completed"} :
        Settle(a, step, st) /\ (st = "completed" => step = "complete")
  BY DEF Halt, Complete
<1>2. a \in Agents /\ UNCHANGED <<wave, taskVars, busy, fit, events>> /\ Goto(a, Idle)
  BY <1>1 DEF Settle, envVars, Agents
<1>3. /\ rollout' \in Rollout /\ rollout'.stage = rollout.stage /\ rollout'.bake = rollout.bake
      /\ rollout'.status \in {rollout.status, st}
  BY <1>1 DEF Settle, Inv, TypeOK, Rollout
<1>4. Automatic /\ st = "completed" => StageDone(0) /\ StageDone(1)
  BY <1>1, <1>2 DEF Settle, At, Inv, CoverInv
<1> QED
  BY <1>2, <1>3, <1>4, IdleTyped, AgentKept DEF Inv, TypeOK, GateInv, CoverInv

LEMMA AdvanceInv == ASSUME NEW a \in Leaders, Inv, Advance(a) PROVE Inv'
<1> USE DEF Advance
<1>1. a \in Agents /\ UNCHANGED <<wave, taskVars, busy, fit, events>> /\ Goto(a, Idle)
  BY DEF envVars, Agents
<1>2. agent[a].stage \in {0, 1}
  BY <1>1 DEF Inv, TypeOK, Agent
<1>3. /\ rollout' \in Rollout /\ rollout'.status = rollout.status /\ rollout'.bake = rollout.bake
      /\ rollout'.stage \in {rollout.stage, agent[a].stage}
  BY <1>2 DEF Inv, TypeOK, Rollout
<1> QED
  BY <1>1, <1>3, IdleTyped, AgentKept DEF Inv, TypeOK, GateInv, CoverInv

-----------------------------------------------------------------------------
\* The tasks and the targets.

LEMMA RunTasksInv == ASSUME Inv, RunTasks PROVE Inv'
<1>1. PICK t \in Live : Q!Begin(t) \/ Q!End(t, "done") \/ Q!End(t, "failed")
  BY DEF RunTasks
<1>2. t \in WaveTasks
  BY DEF Live
<1>3. /\ state' \in [WaveTasks -> Q!States]
      /\ \A u \in WaveTasks : /\ state[u] # "new" => state'[u] # "new"
                              /\ state[u] = "done" => state'[u] = "done"
  BY <1>1, <1>2 DEF Q!Begin, Q!End, Q!Moved, Q!States, Q!Ended, Inv, TypeOK
<1>4. attempts' \in [WaveTasks -> {0, 1}]
  BY <1>1, <1>2 DEF Q!Begin, Q!End, Inv, TypeOK
<1>5. UNCHANGED <<rollout, wave, agent, busy, fit, events>>
  BY DEF RunTasks, envVars
<1> QED
  BY <1>3, <1>4, <1>5, TasksKept DEF Inv, TypeOK

\* Withdrawn tasks were waiting or at work.
LEMMA WithdrawInv ==
  ASSUME Inv, NEW S \in SUBSET WaveTasks, Q!Withdraw(S), events' \in 0 .. MaxEvents,
         UNCHANGED <<rollout, wave, agent, busy, fit>>
  PROVE  Inv'
<1>1. /\ state' \in [WaveTasks -> Q!States] /\ attempts' = attempts
      /\ \A u \in WaveTasks : /\ state[u] # "new" => state'[u] # "new"
                              /\ state[u] = "done" => state'[u] = "done"
  BY DEF Q!Withdraw, Q!Moved, Q!States, Q!Ended, Inv, TypeOK
<1> QED
  BY <1>1, TasksKept DEF Inv, TypeOK

LEMMA CancelTaskInv == ASSUME Inv, CancelTask PROVE Inv'
<1>1. PICK t \in Live : Q!Withdraw({t})
  BY DEF CancelTask
<1>2. {t} \in SUBSET WaveTasks
  BY DEF Live
<1>3. events' \in 0 .. MaxEvents
  BY TargetsAssumption DEF CancelTask, Event, Inv, TypeOK
<1> QED
  BY <1>1, <1>2, <1>3, WithdrawInv DEF CancelTask

LEMMA CancelOrphansInv == ASSUME Inv, CancelOrphans PROVE Inv'
<1>1. PICK S \in SUBSET WaveTasks : Q!Withdraw(S)
  BY DEF CancelOrphans, Live
<1> QED
  BY <1>1, WithdrawInv DEF CancelOrphans, envVars, Inv, TypeOK

\* Targets that get busy or free, the bake's end and the canaries' work.
LEMMA EnvInv ==
  ASSUME Inv, (\E reason \in {"leases", "maintenance"} : GetBusy(reason)) \/ GetFree \/ BakeEnds \/ CanaryWorks \/ UNCHANGED vars PROVE Inv'
<1>1. /\ UNCHANGED <<wave, agent, state, attempts>> /\ busy' \in {"free", "leases", "maintenance"} /\ fit' \in BOOLEAN
      /\ events' \in 0 .. MaxEvents
  <2>1. UNCHANGED <<wave, agent, state, attempts>>
    BY DEF GetBusy, GetFree, BakeEnds, CanaryWorks, vars, taskVars
  <2>2. busy' \in {"free", "leases", "maintenance", busy} /\ fit' \in {TRUE, fit}
    BY DEF GetBusy, GetFree, BakeEnds, CanaryWorks, vars, envVars
  <2>3. events' = events \/ (events < MaxEvents /\ events' = events + 1)
    <3>1. CASE \E reason \in {"leases", "maintenance"} : GetBusy(reason)
      BY <3>1, Zenon DEF GetBusy, Event
    <3>2. CASE GetFree \/ BakeEnds \/ CanaryWorks \/ UNCHANGED vars
      BY <3>2 DEF GetFree, BakeEnds, CanaryWorks, vars, envVars
    <3> QED
      BY <3>1, <3>2
  <2>4. events' \in 0 .. MaxEvents
    BY <2>3, TargetsAssumption DEF Inv, TypeOK
  <2>5. busy' \in {"free", "leases", "maintenance"} /\ fit' \in BOOLEAN
    BY <2>2, Zenon DEF Inv, TypeOK
  <2> QED
    BY <2>1, <2>4, <2>5
<1>2. /\ rollout' \in Rollout /\ rollout'.stage = rollout.stage
      /\ rollout'.status = rollout.status
      /\ rollout'.bake # "unset" => rollout.bake # "unset"
  BY DEF GetBusy, GetFree, BakeEnds, CanaryWorks, vars, envVars, Inv, TypeOK, Rollout
<1>3. Composed' = Composed
  BY <1>1 DEF Composed
<1>4. (StageDone(0) => StageDone(0)') /\ (StageDone(1) => StageDone(1)')
  BY <1>1 DEF StageDone, Upgraded
<1>5. TypeOK'
  BY <1>1, <1>2 DEF Inv, TypeOK
<1>6. WaveInv' /\ AgentInv'
  BY <1>1, <1>3 DEF Inv, WaveInv, AgentInv
<1>7. GateInv' /\ CoverInv'
  BY <1>1, <1>2, <1>3, <1>4 DEF Inv, GateInv, CoverInv
<1> QED
  BY <1>5, <1>6, <1>7 DEF Inv

-----------------------------------------------------------------------------

\* Every step of the system keeps the invariant.
LEMMA NextInv == ASSUME Inv, [Next]_vars PROVE Inv'
<1>1. CASE Create
  BY <1>1, CreateInv
<1>2. CASE \E a \in Leaders : LeaderStep(a)
  BY <1>2, LoadInv, RefillInv, JudgeInv, SettleInv, AdvanceInv DEF LeaderStep
<1>3. CASE \E a \in Agents : AgentStep(a) \/ StopAgent(a)
  BY <1>3, CheckLeasesInv, ComposeFailsInv, ComposeWaveInv, TagInv, StopAgentInv DEF AgentStep
<1>4. CASE RunTasks \/ CancelTask \/ CancelOrphans
  BY <1>4, RunTasksInv, CancelTaskInv, CancelOrphansInv
<1>5. CASE \E k \in Waves : RollUp(k)
  BY <1>5, RollUpInv
<1>6. CASE (\E reason \in {"leases", "maintenance"} : GetBusy(reason)) \/ GetFree \/ BakeEnds \/ CanaryWorks \/ UNCHANGED vars
  BY <1>6, EnvInv
<1> QED
  BY <1>1, <1>2, <1>3, <1>4, <1>5, <1>6 DEF Next

\* The invariant holds in every state of every behaviour.
LEMMA Invariance == Spec => []Inv
BY InitInv, NextInv, PTL DEF Spec

\* The row, the waves, their tasks and the processes stay in their domains.
THEOREM TypeCorrect == Spec => []TypeOK
<1>1. Inv => TypeOK
  BY DEF Inv
<1> QED
  BY <1>1, Invariance, PTL

\* However many leaders judge, compose and stop half-way, an automatic rollout
\* begins its bake and composes a later stage only after every canary that is
\* not itself composing was upgraded.
THEOREM CanaryAlwaysGates == Spec => []CanaryGates
<1>1. Inv => CanaryGates
  <2> SUFFICES ASSUME Inv, Automatic
               PROVE  LaterStageWaits /\ (rollout.bake # "unset" => CanaryPassed)
    BY DEF CanaryGates
  <2>1. StageDone(0) => CanaryPassed
    BY CanariesAreTargets DEF StageDone, CanaryPassed, Stage
  <2>2. \A k \in Composed : wave[k].stage > 0 => wave[k].stage = 1
    BY DEF Inv, TypeOK, Wave, Composed
  <2> QED
    BY <2>1, <2>2 DEF Inv, GateInv, LaterStageWaits
<1> QED
  BY <1>1, Invariance, PTL

\* An automatic rollout that says completed has upgraded every target that did
\* not compose a wave itself.
THEOREM CompletionCovers == Spec => []CompletedCovers
<1>1. Inv => CompletedCovers
  BY DEF Inv, CoverInv, CompletedCovers, StageDone, Stage
<1> QED
  BY <1>1, Invariance, PTL

-----------------------------------------------------------------------------
\* What counts as upgraded was also built.

\* A restart runs only after its build, whose end is final.
Started == {"owned", "done", "failed"}
BuiltFirst ==
  \A k \in Waves, n \in Targets :
    state[<<k, n, "restart">>] \in Started => state[<<k, n, "build">>] = "done"

\* The steps of the queue start nothing but a task that Begin finds ready.
LEMMA BuiltFirstKept ==
  ASSUME Inv, BuiltFirst, [Next]_vars
  PROVE  BuiltFirst'
<1> SUFFICES ASSUME NEW k \in Waves, NEW n \in Targets,
                    state'[<<k, n, "restart">>] \in Started
             PROVE  state'[<<k, n, "build">>] = "done"
  BY DEF BuiltFirst
<1> DEFINE b == <<k, n, "build">>
           r == <<k, n, "restart">>
<1>1. b \in WaveTasks /\ r \in WaveTasks /\ r[3] = "restart" /\ r[1] = k /\ r[2] = n
  BY DEF WaveTasks
<1>2. state[r] \in Started => state[b] = "done"
  BY DEF BuiltFirst
<1>3. ASSUME NEW S \in SUBSET WaveTasks, Q!Submit(S) \/ Q!Withdraw(S) PROVE state'[b] = "done"
  BY <1>1, <1>2, <1>3 DEF Q!Submit, Q!Withdraw, Q!Moved, Started
<1>4. ASSUME NEW t \in WaveTasks, Q!Begin(t) \/ Q!End(t, "done") \/ Q!End(t, "failed")
      PROVE  state'[b] = "done"
  <2>1. CASE Q!Begin(t) /\ t = r
    BY <1>1, <2>1 DEF Q!Begin, Q!Moved
  <2>2. CASE Q!Begin(t) /\ t # r
    BY <1>1, <1>2, <2>2 DEF Q!Begin, Q!Moved, Started
  <2>3. CASE Q!End(t, "done") \/ Q!End(t, "failed")
    BY <1>1, <1>2, <2>3 DEF Q!End, Q!Moved, Started
  <2> QED
    BY <1>4, <2>1, <2>2, <2>3
<1>5. CASE state' = state
  BY <1>2, <1>5
<1>6. CASE RunTasks \/ CancelTask \/ CancelOrphans
  <2>1. \/ \E t \in WaveTasks : Q!Begin(t) \/ Q!End(t, "done") \/ Q!End(t, "failed")
        \/ \E S \in SUBSET WaveTasks : Q!Withdraw(S)
    BY <1>6 DEF RunTasks, CancelTask, CancelOrphans, Live
  <2> QED
    BY <1>3, <1>4, <2>1
<1>7. CASE \E a \in Agents : ComposeWave(a)
  <2>1. \E S \in SUBSET WaveTasks : Q!Submit(S)
    BY <1>7 DEF ComposeWave
  <2> QED
    BY <1>3, <2>1
<1>8. state' = state \/ (\E a \in Agents : ComposeWave(a)) \/ RunTasks \/ CancelTask \/ CancelOrphans
  <2>1. CASE Create \/ \E a \in Leaders : LeaderStep(a)
    <3>1. Create => state' = state
      BY DEF Create, taskVars
    <3>2. ASSUME NEW a \in Leaders, Load(a) \/ Refill(a) PROVE state' = state
      BY <3>2 DEF Load, Refill, taskVars
    <3>3. ASSUME NEW a \in Leaders, Judge(a) PROVE state' = state
      BY <3>3, Zenon DEF Judge, taskVars
    <3>4. ASSUME NEW a \in Leaders, Halt(a) \/ Complete(a) \/ Advance(a) PROVE state' = state
      BY <3>4 DEF Halt, Complete, Settle, Advance, taskVars
    <3> QED
      BY <2>1, <3>1, <3>2, <3>3, <3>4 DEF LeaderStep
  <2>2. CASE \E a \in Agents : AgentStep(a) \/ StopAgent(a)
    BY <2>2 DEF AgentStep, CheckLeases, ComposeFails, Tag, StopAgent, taskVars
  <2>3. CASE \E j \in Waves : RollUp(j)
    BY <2>3 DEF RollUp, taskVars
  <2>4. CASE (\E reason \in {"leases", "maintenance"} : GetBusy(reason)) \/ GetFree \/ BakeEnds \/ CanaryWorks \/ UNCHANGED vars
    BY <2>4 DEF GetBusy, GetFree, BakeEnds, CanaryWorks, vars, taskVars
  <2> QED
    BY <2>1, <2>2, <2>3, <2>4 DEF Next
<1> QED
  BY <1>5, <1>6, <1>7, <1>8

\* For any fleet: a target that a rollout counts as upgraded was restarted by a
\* counted wave that had built it before, so the gate and the completion say
\* that the new build runs there.
THEOREM UpgradedIsBuilt ==
  Spec => [](\A n \in Targets : Upgraded(n) =>
               \E k \in Waves : /\ wave[k].tagged
                                /\ state[<<k, n, "build">>] = "done"
                                /\ state[<<k, n, "restart">>] = "done")
<1>1. Init => BuiltFirst
  BY DEF Init, Q!QueueInit, BuiltFirst, Started, WaveTasks
<1>2. Inv /\ BuiltFirst /\ [Next]_vars => BuiltFirst'
  BY BuiltFirstKept
<1>3. BuiltFirst => \A n \in Targets : Upgraded(n) =>
               \E k \in Waves : /\ wave[k].tagged
                                /\ state[<<k, n, "build">>] = "done"
                                /\ state[<<k, n, "restart">>] = "done"
  BY DEF BuiltFirst, Upgraded, Started
<1> QED
  BY <1>1, <1>2, <1>3, Invariance, PTL DEF Spec
=============================================================================
