------------------------ MODULE LeaderElectionProofs ------------------------
(***************************************************************************)
(* Proofs about LeaderElection, for every fleet, every rank, every clock   *)
(* skew and every bound.                                                   *)
(***************************************************************************)
EXTENDS LeaderElection, TLAPS

\* Statements that propose an epoch, and statements of the row's owner.
Claims == {"claim", "takeover", "silent"}
Holds  == {"refresh", "solo", "yield"}

\* A tick in progress has a statement.
OpTyped == \A n \in Nodes : pc[n] \in {"sql", "done"} => op[n] \in Op

\* A tick that has looked has a view.
ViewTyped == \A n \in Nodes : pc[n] = "row" => view[n] \in View

-----------------------------------------------------------------------------
\* The helpers return what their callers store.

LEMMA Max2Type == \A a, b \in Int : /\ Max2(a, b) \in Int
                                    /\ Max2(a, b) >= a
                                    /\ Max2(a, b) >= b
BY DEF Max2

LEMMA NextEpochType ==
  ASSUME TypeOK, NEW n \in Nodes, NEW seen \in Nat
  PROVE  NextEpoch(n, seen) \in Nat /\ NextEpoch(n, seen) > epoch[n]
BY DEF TypeOK, NextEpoch, Max2

LEMMA PickBestType ==
  ASSUME NEW v \in View
  PROVE  PickBest(v) \in OptNode
BY NodesAssumption DEF PickBest, Preferred, Eligible, OptNode

LEMMA ViewType ==
  ASSUME TypeOK, NEW n \in Nodes, NEW failed \in SUBSET Reads
  PROVE  ViewOf(n, failed) \in View
BY DEF TypeOK, ViewOf, View, OptNode

LEMMA OwnerType == TypeOK => /\ Owner \in OptNode
                             /\ Owner # None => row \in Row /\ row.member = Owner
BY DEF TypeOK, Owner, OptNode, Row

LEMMA ObservedType ==
  ASSUME TypeOK, NEW n \in Nodes, NEW v \in View, NEW l \in Nodes
  PROVE  Observed(n, v, l) \in Tracker \cup {None}
BY TimingAssumption DEF TypeOK, Observed, Tracker, View

\* What choosing a statement leaves in the tick's variables.
LEMMA ChooseType ==
  ASSUME TypeOK, OpTyped, NEW n \in Nodes, NEW v \in View, NEW kind \in Kinds,
         NEW old \in Nodes, NEW e \in Nat, Choose(n, v, kind, old, e)
  PROVE  /\ pc' \in [Nodes -> {"idle", "row", "sql", "done"}]
         /\ view' \in [Nodes -> View \cup {None}]
         /\ op' \in [Nodes -> Op \cup {None}]
         /\ res' \in [Nodes -> BOOLEAN]
         /\ cache' \in [Nodes -> Cache]
         /\ ticked' \subseteq Nodes
         /\ OpTyped'
<1>. DEFINE s == [kind |-> kind, old |-> old, epoch |-> e, best |-> PickBest(v)]
<1>1. s \in Op
  BY PickBestType DEF Op
<1>2. pc' = [pc EXCEPT ![n] = "sql"] /\ op' = [op EXCEPT ![n] = s]
  BY DEF Choose
<1>. HIDE DEF s
<1>3. OpTyped'
  BY <1>1, <1>2 DEF TypeOK, OpTyped
<1>. QED
  BY <1>1, <1>2, <1>3 DEF Choose, TypeOK

LEMMA TickOverType ==
  ASSUME TypeOK, OpTyped, NEW n \in Nodes, TickOver(n)
  PROVE  /\ pc' \in [Nodes -> {"idle", "row", "sql", "done"}]
         /\ view' \in [Nodes -> View \cup {None}]
         /\ op' \in [Nodes -> Op \cup {None}]
         /\ res' \in [Nodes -> BOOLEAN]
         /\ ticked' \subseteq Nodes
         /\ OpTyped'
BY DEF TypeOK, OpTyped, TickOver

-----------------------------------------------------------------------------
\* Type correctness.

LEMMA InitType == Init => TypeOK /\ OpTyped
<1>. SUFFICES ASSUME Init PROVE TypeOK /\ OpTyped
  OBVIOUS
<1>1. /\ row \in Row \cup {None}
      /\ yieldReq \in OptNode /\ lease \in OptNode /\ roleLeader \in OptNode
      /\ beat \in [Nodes -> {"absent", "healthy", "offline"}]
      /\ beatYield \subseteq Nodes
      /\ up \subseteq Nodes /\ hung \subseteq Nodes /\ ticked \subseteq Nodes
  BY DEF Init, OptNode
<1>2. faults \in 0 .. MaxFaults
  BY BoundAssumption DEF Init
<1>3. /\ epoch \in [Nodes -> Nat]
      /\ flag \in [Nodes -> BOOLEAN]
      /\ silent \in [Nodes -> Tracker \cup {None}]
      /\ leaderless \in [Nodes -> Nat \cup {-1}]
  BY DEF Init
<1>4. cache \in [Nodes -> Cache]
  BY DEF Init, Cache, NotLeader
<1>5. /\ pc \in [Nodes -> {"idle", "row", "sql", "done"}]
      /\ view \in [Nodes -> View \cup {None}]
      /\ op \in [Nodes -> Op \cup {None}]
      /\ res \in [Nodes -> BOOLEAN]
      /\ OpTyped
  BY DEF Init, OpTyped
<1>. QED
  BY <1>1, <1>2, <1>3, <1>4, <1>5 DEF TypeOK

\* The part of the state a tick's decision writes.
DecidedOK ==
  /\ epoch \in [Nodes -> Nat]
  /\ silent \in [Nodes -> Tracker \cup {None}]
  /\ leaderless \in [Nodes -> Nat \cup {-1}]
  /\ cache \in [Nodes -> Cache]
  /\ pc \in [Nodes -> {"idle", "row", "sql", "done"}]
  /\ view \in [Nodes -> View \cup {None}]
  /\ op \in [Nodes -> Op \cup {None}]
  /\ res \in [Nodes -> BOOLEAN]
  /\ ticked \subseteq Nodes

LEMMA NoOpType ==
  ASSUME TypeOK, OpTyped, NEW n \in Nodes, NoOp(n)
  PROVE  /\ epoch' \in [Nodes -> Nat]
         /\ cache' \in [Nodes -> Cache]
         /\ pc' \in [Nodes -> {"idle", "row", "sql", "done"}]
         /\ view' \in [Nodes -> View \cup {None}]
         /\ op' \in [Nodes -> Op \cup {None}]
         /\ res' \in [Nodes -> BOOLEAN]
         /\ ticked' \subseteq Nodes
         /\ OpTyped'
<1>1. TickOver(n) /\ epoch' = epoch /\ cache' = [cache EXCEPT ![n] = NotLeader]
  BY DEF NoOp
<1>. QED
  BY <1>1, TickOverType DEF TypeOK, Cache, NotLeader

LEMMA ProposeType ==
  ASSUME TypeOK, OpTyped, NEW n \in Nodes, NEW v \in View, NEW kind \in Kinds,
         NEW old \in Nodes, NEW seen \in Nat, Propose(n, v, kind, old, seen)
  PROVE  /\ epoch' \in [Nodes -> Nat]
         /\ cache' \in [Nodes -> Cache]
         /\ pc' \in [Nodes -> {"idle", "row", "sql", "done"}]
         /\ view' \in [Nodes -> View \cup {None}]
         /\ op' \in [Nodes -> Op \cup {None}]
         /\ res' \in [Nodes -> BOOLEAN]
         /\ ticked' \subseteq Nodes
         /\ OpTyped'
<1>1. NextEpoch(n, seen) \in Nat
  BY NextEpochType
<1>2. /\ Choose(n, v, kind, old, NextEpoch(n, seen))
      /\ epoch' = [epoch EXCEPT ![n] = NextEpoch(n, seen)]
  BY DEF Propose
<1>. QED
  BY <1>1, <1>2, ChooseType DEF TypeOK

LEMMA DecideEmptyType ==
  ASSUME TypeOK, OpTyped, NEW n \in Nodes, NEW v \in View, DecideEmpty(n, v)
  PROVE  DecidedOK' /\ OpTyped'
<1>1. silent' = silent
  BY DEF DecideEmpty
<1>2. leaderless' \in [Nodes -> Nat \cup {-1}]
  BY DEF DecideEmpty, TypeOK, Max2
<1>3. NoOp(n) \/ Propose(n, v, "claim", n, 0)
  BY DEF DecideEmpty
<1>4. CASE NoOp(n)
  BY <1>1, <1>2, <1>4, NoOpType DEF DecidedOK, TypeOK
<1>5. CASE Propose(n, v, "claim", n, 0)
  BY <1>1, <1>2, <1>5, ProposeType DEF DecidedOK, TypeOK, Kinds
<1>. QED
  BY <1>3, <1>4, <1>5

LEMMA DecideOwnType ==
  ASSUME TypeOK, OpTyped, NEW n \in Nodes, NEW v \in View, DecideOwn(n, v)
  PROVE  DecidedOK' /\ OpTyped'
<1>1. row \in Row
  BY OwnerType, NodesAssumption DEF DecideOwn
<1>2. PICK kind \in Kinds : Choose(n, v, kind, n, row.epoch)
  BY DEF DecideOwn, Kinds
<1>3. /\ silent' = silent /\ epoch' = epoch
      /\ leaderless' \in [Nodes -> Nat \cup {-1}]
  BY DEF DecideOwn, TypeOK
<1>4. row.epoch \in Nat
  BY <1>1 DEF Row
<1>. QED
  BY <1>2, <1>3, <1>4, ChooseType DEF DecidedOK, TypeOK

LEMMA DecideOtherType ==
  ASSUME TypeOK, OpTyped, NEW n \in Nodes, NEW v \in View, DecideOther(n, v)
  PROVE  DecidedOK' /\ OpTyped'
<1>1. Owner \in Nodes /\ row \in Row
  BY OwnerType DEF DecideOther, OptNode
<1>2. row.epoch \in Nat
  BY <1>1 DEF Row
<1>3. leaderless' \in [Nodes -> Nat \cup {-1}]
  BY DEF DecideOther, TypeOK
<1>4. silent' \in [Nodes -> Tracker \cup {None}]
  <2>1. silent' = silent \/ silent' = [silent EXCEPT ![n] = Observed(n, v, Owner)]
    BY DEF DecideOther
  <2>. QED
    BY <2>1, <1>1, ObservedType DEF TypeOK
<1>5. NoOp(n) \/ \E kind \in {"takeover", "silent"} : Propose(n, v, kind, Owner, row.epoch)
  BY DEF DecideOther
<1>6. CASE NoOp(n)
  BY <1>3, <1>4, <1>6, NoOpType DEF DecidedOK, TypeOK
<1>7. ASSUME NEW kind \in {"takeover", "silent"}, Propose(n, v, kind, Owner, row.epoch)
      PROVE  DecidedOK' /\ OpTyped'
  <2>1. kind \in Kinds
    BY DEF Kinds
  <2>. QED
    BY <2>1, <1>1, <1>2, <1>3, <1>4, <1>7, ProposeType DEF DecidedOK, TypeOK
<1>. QED
  BY <1>5, <1>6, <1>7

LEMMA FaultType ==
  ASSUME TypeOK, NEW kind, Fault(kind)
  PROVE  faults' \in 0 .. MaxFaults
BY BoundAssumption DEF TypeOK, Fault

\* What could not be read is at most one fault.
LEMMA OutageType ==
  ASSUME TypeOK, NEW n \in Nodes, NEW failed \in SUBSET Reads, Outage(n, failed)
  PROVE  faults' \in 0 .. MaxFaults
<1>1. faults' = faults \/ \E kind \in FaultKinds : Fault(kind)
  BY DEF Outage, Fault
<1>. QED
  BY <1>1, FaultType DEF TypeOK

LEMMA BeginType ==
  ASSUME TypeOK, NEW n \in Nodes, NEW failed \in SUBSET Reads, Begin(n, failed)
  PROVE  /\ faults' \in 0 .. MaxFaults /\ flag' \in [Nodes -> BOOLEAN]
         /\ UNCHANGED <<dbVars, pulseVars, up, hung>>
BY OutageType DEF Begin, TypeOK

LEMMA LookType ==
  ASSUME TypeOK, OpTyped, NEW n \in Nodes, NEW failed \in SUBSET Reads, Look(n, failed)
  PROVE  TypeOK' /\ OpTyped'
<1>1. /\ view' \in [Nodes -> View \cup {None}]
      /\ pc' = [pc EXCEPT ![n] = "row"]
      /\ UNCHANGED <<epoch, silent, leaderless, cache, op, res, ticked>>
  BY ViewType DEF Look, TypeOK
<1>2. OpTyped'
  BY <1>1 DEF OpTyped, TypeOK
<1>. QED
  BY <1>1, <1>2, BeginType DEF Look, TypeOK, dbVars, pulseVars

LEMMA DecisionType ==
  ASSUME TypeOK, OpTyped, NEW n \in Nodes, NEW v \in View, Decision(n, v)
  PROVE  DecidedOK' /\ OpTyped'
BY DecideEmptyType, DecideOwnType, DecideOtherType DEF Decision

LEMMA DecideType ==
  ASSUME TypeOK, OpTyped, ViewTyped, NEW n \in Nodes, Decide(n)
  PROVE  TypeOK' /\ OpTyped'
<1>1. view[n] \in View
  BY DEF Decide, ViewTyped
<1>2. DecidedOK' /\ OpTyped'
  BY <1>1, DecisionType DEF Decide
<1>3. UNCHANGED <<dbVars, pulseVars, flag, envVars>>
  BY DEF Decide
<1>. QED
  BY <1>2, <1>3 DEF TypeOK, DecidedOK, dbVars, pulseVars, envVars

LEMMA LookAndDecideType ==
  ASSUME TypeOK, OpTyped, NEW n \in Nodes, NEW failed \in SUBSET Reads, LookAndDecide(n, failed)
  PROVE  TypeOK' /\ OpTyped'
<1>1. DecidedOK' /\ OpTyped'
  BY ViewType, DecisionType DEF LookAndDecide
<1>. QED
  BY <1>1, BeginType DEF LookAndDecide, TypeOK, DecidedOK, dbVars, pulseVars

LEMMA ExecuteType ==
  ASSUME TypeOK, OpTyped, NEW n \in Nodes, Execute(n)
  PROVE  TypeOK' /\ OpTyped'
<1>1. op[n] \in Op
  BY DEF Execute, OpTyped
<1>2. row' \in Row \cup {None}
  <2>1. CASE ~Matches(op[n], n)
    BY <2>1 DEF Execute, TypeOK
  <2>2. CASE Matches(op[n], n) /\ op[n].kind \in {"refresh", "solo"}
    <3>1. Owner = n
      BY <2>2 DEF Matches
    <3>2. row \in Row
      BY <3>1, OwnerType, NodesAssumption
    <3>3. row' = [row EXCEPT !.age = 0]
      BY <2>2 DEF Execute, Written
    <3>. QED
      BY <3>2, <3>3, TimingAssumption DEF Row, MaxAge
  <2>3. CASE Matches(op[n], n) /\ op[n].kind \notin {"refresh", "solo"}
    <3>1. row' = None \/ row' = [member |-> n, epoch |-> op[n].epoch, age |-> 0]
      BY <2>3 DEF Execute, Written
    <3>. QED
      BY <3>1, <1>1, TimingAssumption DEF Row, Op, MaxAge
  <2>. QED
    BY <2>1, <2>2, <2>3
<1>3. /\ pc' = [pc EXCEPT ![n] = "done"]
      /\ res' \in [Nodes -> BOOLEAN]
      /\ UNCHANGED <<yieldReq, lease, roleLeader, pulseVars, procVars, view, op, envVars, ticked>>
  <2>1. Matches(op[n], n) \in BOOLEAN
    BY DEF Matches
  <2>. QED
    BY <2>1 DEF Execute, TypeOK
<1>4. OpTyped'
  BY <1>1, <1>3 DEF OpTyped, TypeOK
<1>. QED
  BY <1>2, <1>3, <1>4 DEF TypeOK, pulseVars, procVars, envVars

LEMMA FinishType ==
  ASSUME TypeOK, OpTyped, NEW n \in Nodes, Finish(n)
  PROVE  TypeOK' /\ OpTyped'
<1>1. op[n] \in Op
  BY DEF Finish, OpTyped
<1>2. epoch' \in [Nodes -> Nat]
  BY <1>1 DEF Finish, EpochAfter, TypeOK, Op, Max2
<1>3. roleLeader' \in OptNode
  BY DEF Finish, PublishRole, RoleAfter, TypeOK, OptNode
<1>4. silent' \in [Nodes -> Tracker \cup {None}]
  BY DEF Finish, TypeOK
<1>5. cache' \in [Nodes -> Cache]
  <2>1. CacheAfter(n) \in Cache
    BY <1>1 DEF CacheAfter, Cache, NotLeader, LeaderAt, Op
  <2>. QED
    BY <2>1 DEF Finish, TypeOK
<1>6. /\ TickOver(n)
      /\ UNCHANGED <<row, yieldReq, lease, pulseVars, flag, leaderless, up, hung>>
  BY DEF Finish
<1>7. faults' \in 0 .. MaxFaults
  <2>1. faults' = faults \/ Fault("postgres")
    BY DEF Finish, PublishRole
  <2>. QED
    BY <2>1, FaultType DEF TypeOK
<1>. QED
  BY <1>2, <1>3, <1>4, <1>5, <1>6, <1>7, TickOverType DEF TypeOK, pulseVars

LEMMA TickErrorType ==
  ASSUME TypeOK, OpTyped, NEW n \in Nodes, TickError(n)
  PROVE  TypeOK' /\ OpTyped'
<1>1. /\ TickOver(n) /\ Fault("postgres")
      /\ cache' = [cache EXCEPT ![n] = NotLeader]
      /\ UNCHANGED <<dbVars, pulseVars, epoch, silent, leaderless, up, hung>>
  BY DEF TickError
<1>2. cache' \in [Nodes -> Cache]
  BY <1>1 DEF TypeOK, Cache, NotLeader
<1>3. flag' \in [Nodes -> BOOLEAN]
  BY DEF TickError, TypeOK
<1>. QED
  BY <1>1, <1>2, <1>3, TickOverType, FaultType DEF TypeOK, dbVars, pulseVars

\* Pulse, the publisher and the operator touch neither the row nor the ticks.
LEMMA PulseType ==
  ASSUME TypeOK, OpTyped, NEW n \in Nodes,
         PublishBeat(n) \/ BeatExpires(n) \/ PublisherHangs(n) \/ PublisherRecovers(n)
  PROVE  TypeOK' /\ OpTyped'
<1>1. UNCHANGED <<dbVars, procVars, tickVars, up, ticked>>
  BY DEF PublishBeat, BeatExpires, PublisherHangs, PublisherRecovers, envVars
<1>2. /\ beat' \in [Nodes -> {"absent", "healthy", "offline"}]
      /\ beatYield' \subseteq Nodes
  BY DEF PublishBeat, BeatExpires, PublisherHangs, PublisherRecovers, pulseVars, TypeOK
<1>3. hung' \subseteq Nodes
  BY DEF PublishBeat, BeatExpires, PublisherHangs, PublisherRecovers, envVars, TypeOK
<1>4. faults' \in 0 .. MaxFaults
  <2>1. faults' = faults \/ Fault("publisher")
    BY DEF PublishBeat, BeatExpires, PublisherHangs, PublisherRecovers, envVars
  <2>. QED
    BY <2>1, FaultType DEF TypeOK
<1>. QED
  BY <1>1, <1>2, <1>3, <1>4 DEF TypeOK, OpTyped, dbVars, procVars, tickVars

LEMMA StoppedType ==
  ASSUME TypeOK, OpTyped, NEW n \in Nodes, Crash(n) \/ Shutdown(n)
  PROVE  TypeOK' /\ OpTyped'
<1>1. Stopped(n)
  BY DEF Crash, Shutdown
<1>2. /\ beat' \in [Nodes -> {"absent", "healthy", "offline"}]
      /\ beatYield' \subseteq Nodes
  BY DEF Crash, Shutdown, pulseVars, TypeOK
<1>3. faults' \in 0 .. MaxFaults
  BY <1>1, FaultType DEF Stopped
<1>4. cache' \in [Nodes -> Cache]
  BY <1>1 DEF Stopped, TypeOK, Cache, NotLeader
<1>5. OpTyped'
  BY <1>1 DEF Stopped, OpTyped, TypeOK
<1>6. /\ epoch' \in [Nodes -> Nat]
      /\ flag' \in [Nodes -> BOOLEAN]
      /\ silent' \in [Nodes -> Tracker \cup {None}]
      /\ leaderless' \in [Nodes -> Nat \cup {-1}]
  BY <1>1 DEF Stopped, TypeOK
<1>7. /\ pc' \in [Nodes -> {"idle", "row", "sql", "done"}]
      /\ view' \in [Nodes -> View \cup {None}]
      /\ op' \in [Nodes -> Op \cup {None}]
      /\ res' \in [Nodes -> BOOLEAN]
  BY <1>1 DEF Stopped, TypeOK
<1>8. up' \subseteq Nodes /\ hung' \subseteq Nodes /\ UNCHANGED <<dbVars, ticked>>
  BY <1>1 DEF Stopped, TypeOK
<1>. QED
  BY <1>2, <1>3, <1>4, <1>5, <1>6, <1>7, <1>8 DEF TypeOK, dbVars

LEMMA RestartType ==
  ASSUME TypeOK, OpTyped, NEW n \in Nodes, Restart(n)
  PROVE  TypeOK' /\ OpTyped'
BY DEF Restart, TypeOK, OpTyped, dbVars, pulseVars, procVars, tickVars

LEMMA OperatorType ==
  ASSUME TypeOK, OpTyped, Operator \/ YieldExpires \/ LeaseExpires
  PROVE  TypeOK' /\ OpTyped'
<1>1. UNCHANGED <<row, roleLeader, pulseVars, procVars, tickVars, up, hung, ticked>>
  BY DEF Operator, StepDown, ClearStepDown, YieldExpires, LeaseExpires, envVars
<1>2. yieldReq' \in OptNode /\ lease' \in OptNode
  BY DEF Operator, StepDown, ClearStepDown, YieldExpires, LeaseExpires, OptNode, TypeOK
<1>3. faults' \in 0 .. MaxFaults
  <2>1. faults' = faults \/ Fault("step-down")
    BY DEF Operator, StepDown, ClearStepDown, YieldExpires, LeaseExpires, envVars
  <2>. QED
    BY <2>1, FaultType DEF TypeOK
<1>. QED
  BY <1>1, <1>2, <1>3 DEF TypeOK, OpTyped, pulseVars, procVars, tickVars

LEMMA AdvanceType ==
  ASSUME TypeOK, OpTyped, Advance
  PROVE  TypeOK' /\ OpTyped'
<1>1. row' \in Row \cup {None}
  BY TimingAssumption DEF Advance, TypeOK, Row, Cap, MaxAge
<1>2. silent' \in [Nodes -> Tracker \cup {None}]
  BY TimingAssumption DEF Advance, TypeOK, Tracker, Cap
<1>3. leaderless' \in [Nodes -> Nat \cup {-1}]
  BY TimingAssumption DEF Advance, TypeOK, Cap
<1>4. /\ ticked' = {}
      /\ UNCHANGED <<yieldReq, lease, roleLeader, pulseVars, epoch, flag, cache, tickVars, envVars>>
  BY DEF Advance
<1>. QED
  BY <1>1, <1>2, <1>3, <1>4 DEF TypeOK, OpTyped, pulseVars, tickVars, envVars

LEMMA StutterType ==
  ASSUME TypeOK, OpTyped, UNCHANGED vars
  PROVE  TypeOK' /\ OpTyped'
BY DEF TypeOK, OpTyped, vars, dbVars, pulseVars, procVars, tickVars, envVars

\* A view is there from Look until the tick decides.
LEMMA NextView == TypeOK /\ ViewTyped /\ [Next]_vars => ViewTyped'
<1>. SUFFICES ASSUME TypeOK, ViewTyped, [Next]_vars PROVE ViewTyped'
  OBVIOUS
<1>1. ASSUME NEW n \in Nodes, pc'[n] # "row",
             \A m \in Nodes \ {n} : pc'[m] = pc[m] /\ view'[m] = view[m]
      PROVE  ViewTyped'
  BY <1>1 DEF ViewTyped
<1>2. ASSUME NEW n \in Nodes, TickOver(n) PROVE ViewTyped'
  BY <1>1, <1>2 DEF TickOver, TypeOK
<1>3. ASSUME NEW n \in Nodes, NEW v, Decision(n, v) PROVE ViewTyped'
  <2>1. NoOp(n) \/ \E kind, old, e : Choose(n, v, kind, old, e)
    BY <1>3 DEF Decision, DecideEmpty, DecideOwn, DecideOther, Propose
  <2>2. ASSUME NEW kind, NEW old, NEW e, Choose(n, v, kind, old, e) PROVE ViewTyped'
    BY <2>2, <1>1 DEF Choose, TypeOK
  <2>. QED
    BY <2>1, <2>2, <1>2 DEF NoOp
<1>4. ASSUME NEW n \in Nodes, NEW failed \in SUBSET Reads, Look(n, failed) PROVE ViewTyped'
  <2>1. ViewOf(n, failed) \in View
    BY ViewType
  <2>. QED
    BY <1>4, <2>1 DEF Look, ViewTyped, TypeOK
<1>5. ASSUME NEW n \in Nodes, Node(n) PROVE ViewTyped'
  <2>1. CASE Tick(n)
    <3>1. CASE Execute(n)
      BY <3>1, <1>1 DEF Execute, TypeOK
    <3>2. CASE ~Execute(n)
      BY <2>1, <3>2, <1>2, <1>3, <1>4 DEF Tick, Decide, LookAndDecide, Finish
    <3>. QED
      BY <3>1, <3>2
  <2>2. CASE TickError(n) \/ Crash(n) \/ Shutdown(n)
    BY <2>2, <1>1, <1>2 DEF TickError, Crash, Shutdown, Stopped, TypeOK
  <2>3. CASE UNCHANGED tickVars
    BY <2>3 DEF ViewTyped, tickVars
  <2>. QED
    BY <1>5, <2>1, <2>2, <2>3
    DEF Node, PublishBeat, BeatExpires, PublisherHangs, PublisherRecovers, Restart
<1>6. CASE UNCHANGED tickVars
  BY <1>6 DEF ViewTyped, tickVars
<1>. QED
  BY <1>5, <1>6
  DEF Next, vars, Operator, StepDown, ClearStepDown, YieldExpires, LeaseExpires, Advance

LEMMA InitView == Init => ViewTyped
BY DEF Init, ViewTyped

LEMMA NextType == TypeOK /\ OpTyped /\ ViewTyped /\ [Next]_vars => TypeOK' /\ OpTyped'
<1>. SUFFICES ASSUME TypeOK, OpTyped, ViewTyped, [Next]_vars PROVE TypeOK' /\ OpTyped'
  OBVIOUS
<1>1. ASSUME NEW n \in Nodes, Node(n) PROVE TypeOK' /\ OpTyped'
  <2>1. CASE Tick(n)
    BY <2>1, LookType, DecideType, LookAndDecideType, ExecuteType, FinishType DEF Tick
  <2>2. CASE ~Tick(n)
    BY <1>1, <2>2, TickErrorType, PulseType, StoppedType, RestartType DEF Node
  <2>. QED
    BY <2>1, <2>2
<1>2. CASE Operator \/ YieldExpires \/ LeaseExpires
  BY <1>2, OperatorType
<1>3. CASE Advance
  BY <1>3, AdvanceType
<1>4. CASE UNCHANGED vars
  BY <1>4, StutterType
<1>. QED
  BY <1>1, <1>2, <1>3, <1>4 DEF Next

LEMMA TypesAlways == Spec => [](TypeOK /\ OpTyped /\ ViewTyped)
BY InitType, InitView, NextType, NextView, PTL DEF Spec

\* Every reachable state is well typed: the row, the in-memory state of each
\* daemon and the statement in flight have the types the code gives them.
THEOREM TypeCorrect == Spec => []TypeOK
BY TypesAlways, PTL

-----------------------------------------------------------------------------
\* A cached leader knows its epoch.  The invariant the property needs says what
\* a statement in flight knows about the row: nobody but n makes n the owner,
\* so a row n still owns is the row n read, or the row n has just written.

StatementKnowsRow ==
  \A n \in Nodes :
    /\ pc[n] \in {"sql", "done"} /\ op[n].kind \in Claims => epoch[n] >= op[n].epoch
    /\ pc[n] = "sql" /\ Owner = n => op[n].kind \in Holds /\ op[n].epoch = row.epoch
    /\ pc[n] = "done" /\ Owner = n =>
         res[n] /\ op[n].kind # "yield" /\ op[n].epoch = row.epoch

EpochInv == StatementKnowsRow /\ CachedLeaderKnowsEpoch

\* The same two facts for one node.
StatementKnows(n) ==
    /\ pc[n] \in {"sql", "done"} /\ op[n].kind \in Claims => epoch[n] >= op[n].epoch
    /\ pc[n] = "sql" /\ Owner = n => op[n].kind \in Holds /\ op[n].epoch = row.epoch
    /\ pc[n] = "done" /\ Owner = n =>
         res[n] /\ op[n].kind # "yield" /\ op[n].epoch = row.epoch

LeaderKnows(n) ==
  cache[n].leader /\ Owner = n /\ pc[n] # "done" =>
    cache[n].epoch = row.epoch /\ epoch[n] >= row.epoch

LEMMA EpochInvByNode == EpochInv <=> \A n \in Nodes : StatementKnows(n) /\ LeaderKnows(n)
BY DEF EpochInv, StatementKnowsRow, CachedLeaderKnowsEpoch, StatementKnows, LeaderKnows

\* A node is untouched by a step that leaves its memory alone and either keeps
\* the owner and epoch of the row or does not make it the owner.
LEMMA Untouched ==
  ASSUME NEW n \in Nodes, StatementKnows(n), LeaderKnows(n),
         pc'[n] = pc[n], op'[n] = op[n], res'[n] = res[n],
         epoch'[n] = epoch[n], cache'[n] = cache[n],
         Owner' = n => Owner = n /\ row'.epoch = row.epoch
  PROVE  StatementKnows(n)' /\ LeaderKnows(n)'
BY DEF StatementKnows, LeaderKnows

\* A node whose tick is over and whose cache is cleared knows nothing wrong.
LEMMA Cleared ==
  ASSUME NEW n \in Nodes, pc'[n] = "idle", cache'[n] = NotLeader
  PROVE  StatementKnows(n)' /\ LeaderKnows(n)'
BY DEF StatementKnows, LeaderKnows, NotLeader

\* A step of node n alone, with the row unchanged.
LEMMA OthersUntouched ==
  ASSUME EpochInv, NEW n \in Nodes, row' = row,
         \A m \in Nodes \ {n} :
            /\ pc'[m] = pc[m] /\ op'[m] = op[m] /\ res'[m] = res[m]
            /\ epoch'[m] = epoch[m] /\ cache'[m] = cache[m],
         StatementKnows(n)' /\ LeaderKnows(n)'
  PROVE  EpochInv'
<1>1. Owner' = Owner
  BY DEF Owner
<1>2. ASSUME NEW m \in Nodes, m # n PROVE StatementKnows(m)' /\ LeaderKnows(m)'
  BY <1>1, <1>2, EpochInvByNode, Untouched
<1>. QED
  BY <1>2 DEF EpochInv, StatementKnowsRow, CachedLeaderKnowsEpoch,
     StatementKnows, LeaderKnows

LEMMA LookEpoch ==
  ASSUME TypeOK, EpochInv, NEW n \in Nodes, NEW failed \in SUBSET Reads, Look(n, failed)
  PROVE  EpochInv'
<1>1. /\ row' = row /\ pc[n] = "idle" /\ pc'[n] = "row"
      /\ UNCHANGED <<op, res, epoch, cache>>
      /\ \A m \in Nodes \ {n} : pc'[m] = pc[m]
  BY DEF Look, Begin, dbVars, TypeOK
<1>2. Owner' = Owner
  BY <1>1 DEF Owner
<1>3. StatementKnows(n)' /\ LeaderKnows(n)'
  BY <1>1, <1>2, EpochInvByNode DEF StatementKnows, LeaderKnows
<1>. QED
  BY <1>1, <1>3, OthersUntouched

LEMMA DecisionEpoch ==
  ASSUME TypeOK, OpTyped, EpochInv, NEW n \in Nodes, NEW v \in View, Decision(n, v),
         pc[n] \in {"idle", "row"}, row' = row
  PROVE  EpochInv'
<1>1. row' = row /\ pc[n] # "done"
  OBVIOUS
<1>2. Owner' = Owner
  BY <1>1 DEF Owner
<1>3. LeaderKnows(n)
  BY EpochInvByNode
<1>4. CASE NoOp(n)
  <2>1. pc'[n] = "idle" /\ cache'[n] = NotLeader
    BY <1>4 DEF NoOp, TickOver, TypeOK
  <2>2. \A m \in Nodes \ {n} :
            /\ pc'[m] = pc[m] /\ op'[m] = op[m] /\ res'[m] = res[m]
            /\ epoch'[m] = epoch[m] /\ cache'[m] = cache[m]
    BY <1>4 DEF NoOp, TickOver, TypeOK
  <2>. QED
    BY <2>1, <2>2, <1>1, Cleared, OthersUntouched
<1>5. CASE DecideOwn(n, v)
  <2>1. PICK kind \in Holds : Choose(n, v, kind, n, row.epoch)
    BY <1>5 DEF DecideOwn, Holds
  <2>2. /\ pc'[n] = "sql" /\ op'[n].kind = kind /\ op'[n].epoch = row.epoch
        /\ epoch' = epoch /\ cache' = cache
    BY <2>1, <1>5 DEF Choose, DecideOwn, TypeOK
  <2>3. \A m \in Nodes \ {n} : pc'[m] = pc[m] /\ op'[m] = op[m] /\ res'[m] = res[m]
    BY <2>1 DEF Choose, TypeOK
  <2>4. kind \notin Claims
    BY DEF Holds, Claims
  <2>5. StatementKnows(n)' /\ LeaderKnows(n)'
    BY <2>2, <2>4, <1>1, <1>2, <1>3 DEF StatementKnows, LeaderKnows
  <2>. QED
    BY <2>2, <2>3, <2>5, <1>1, OthersUntouched
<1>6. ASSUME NEW kind \in Claims, NEW old \in Nodes, NEW seen \in Nat,
             Propose(n, v, kind, old, seen), Owner # n
      PROVE  EpochInv'
  <2>1. NextEpoch(n, seen) \in Nat
    BY NextEpochType
  <2>2. /\ pc'[n] = "sql" /\ op'[n].epoch = NextEpoch(n, seen)
        /\ epoch' = [epoch EXCEPT ![n] = NextEpoch(n, seen)] /\ cache' = cache
    BY <1>6 DEF Propose, Choose, TypeOK
  <2>3. \A m \in Nodes \ {n} : pc'[m] = pc[m] /\ op'[m] = op[m] /\ res'[m] = res[m]
    BY <1>6 DEF Propose, Choose, TypeOK
  <2>4. epoch'[n] = NextEpoch(n, seen) /\ \A m \in Nodes \ {n} : epoch'[m] = epoch[m]
    BY <2>2 DEF TypeOK
  <2>5. StatementKnows(n)' /\ LeaderKnows(n)'
    BY <2>1, <2>2, <2>4, <1>2, <1>6 DEF StatementKnows, LeaderKnows
  <2>. QED
    BY <2>2, <2>3, <2>4, <2>5, <1>1, OthersUntouched
<1>7. CASE DecideEmpty(n, v)
  <2>1. Owner # n
    BY <1>7, NodesAssumption DEF DecideEmpty, Owner
  <2>2. NoOp(n) \/ Propose(n, v, "claim", n, 0)
    BY <1>7 DEF DecideEmpty
  <2>. QED
    BY <2>1, <2>2, <1>4, <1>6 DEF Claims
<1>8. CASE DecideOther(n, v)
  <2>1. Owner \in Nodes /\ row.epoch \in Nat /\ Owner # n
    BY <1>8, OwnerType DEF DecideOther, OptNode, Row
  <2>2. NoOp(n) \/ \E kind \in {"takeover", "silent"} : Propose(n, v, kind, Owner, row.epoch)
    BY <1>8 DEF DecideOther
  <2>. QED
    BY <2>1, <2>2, <1>4, <1>6 DEF Claims
<1>. QED
  BY <1>5, <1>7, <1>8 DEF Decision

LEMMA ExecuteEpoch ==
  ASSUME TypeOK, OpTyped, EpochInv, NEW n \in Nodes, Execute(n)
  PROVE  EpochInv'
<1>1. op[n] \in Op /\ pc[n] = "sql"
  BY DEF Execute, OpTyped
<1>2. /\ pc'[n] = "done" /\ res'[n] = Matches(op[n], n)
      /\ op' = op /\ epoch' = epoch /\ cache' = cache
      /\ \A m \in Nodes \ {n} : pc'[m] = pc[m] /\ res'[m] = res[m]
  BY DEF Execute, TypeOK, procVars
<1>3. StatementKnows(n) /\ LeaderKnows(n)
  BY EpochInvByNode
<1>4. ASSUME NEW m \in Nodes, m # n
      PROVE  Owner' = m => Owner = m /\ row'.epoch = row.epoch
  <2>1. CASE ~Matches(op[n], n)
    BY <2>1 DEF Execute, Owner
  <2>2. CASE Matches(op[n], n) /\ op[n].kind \in {"refresh", "solo"}
    <3>1. Owner = n /\ row \in Row
      BY <2>2, OwnerType, NodesAssumption DEF Matches
    <3>2. row' = [row EXCEPT !.age = 0]
      BY <2>2 DEF Execute, Written
    <3>3. row'.member = n
      BY <3>1, <3>2, OwnerType, NodesAssumption DEF Row
    <3>. QED
      BY <3>3, <1>4, NodesAssumption DEF Owner
  <2>3. CASE Matches(op[n], n) /\ op[n].kind \notin {"refresh", "solo"}
    <3>1. row' = None \/ row' = [member |-> n, epoch |-> op[n].epoch, age |-> 0]
      BY <2>3 DEF Execute, Written
    <3>. QED
      BY <3>1, <1>4, NodesAssumption DEF Owner
  <2>. QED
    BY <2>1, <2>2, <2>3
<1>5. Owner' = n => res'[n] /\ op[n].kind # "yield" /\ op[n].epoch = row'.epoch
  <2>. SUFFICES ASSUME Owner' = n
                PROVE  res'[n] /\ op[n].kind # "yield" /\ op[n].epoch = row'.epoch
    OBVIOUS
  <2>1. row' # None
    BY NodesAssumption DEF Owner
  <2>2. CASE ~Matches(op[n], n)
    <3>1. Owner = n
      BY <2>2 DEF Execute, Owner
    <3>2. op[n].kind \in Holds
      BY <3>1, <1>1, <1>3 DEF StatementKnows
    <3>. QED
      BY <3>1, <3>2, <2>2 DEF Matches, Holds
  <2>3. CASE Matches(op[n], n) /\ op[n].kind \in {"refresh", "solo"}
    <3>1. Owner = n /\ row \in Row
      BY <2>3, OwnerType, NodesAssumption DEF Matches
    <3>2. row' = [row EXCEPT !.age = 0]
      BY <2>3 DEF Execute, Written
    <3>3. op[n].epoch = row.epoch
      BY <3>1, <1>1, <1>3 DEF StatementKnows
    <3>4. row'.epoch = row.epoch
      BY <3>1, <3>2 DEF Row
    <3>. QED
      BY <2>3, <3>3, <3>4, <1>2
  <2>4. CASE Matches(op[n], n) /\ op[n].kind \notin {"refresh", "solo"}
    <3>1. row' = IF op[n].kind = "yield" THEN None
                 ELSE [member |-> n, epoch |-> op[n].epoch, age |-> 0]
      BY <2>4 DEF Execute, Written
    <3>. QED
      BY <3>1, <2>1, <2>4, <1>2
  <2>. QED
    BY <2>2, <2>3, <2>4
<1>6. StatementKnows(n)' /\ LeaderKnows(n)'
  BY <1>1, <1>2, <1>3, <1>5 DEF StatementKnows, LeaderKnows
<1>7. ASSUME NEW m \in Nodes, m # n PROVE StatementKnows(m)' /\ LeaderKnows(m)'
  BY <1>2, <1>4, <1>7, EpochInvByNode, Untouched
<1>. QED
  BY <1>6, <1>7 DEF EpochInv, StatementKnowsRow, CachedLeaderKnowsEpoch,
     StatementKnows, LeaderKnows

LEMMA FinishEpoch ==
  ASSUME TypeOK, OpTyped, EpochInv, NEW n \in Nodes, Finish(n)
  PROVE  EpochInv'
<1>1. op[n] \in Op /\ pc[n] = "done" /\ row' = row
  BY DEF Finish, OpTyped
<1>2. Owner' = Owner
  BY <1>1 DEF Owner
<1>3. /\ pc'[n] = "idle" /\ cache'[n] = CacheAfter(n) /\ epoch' = EpochAfter(n)
      /\ \A m \in Nodes \ {n} : /\ pc'[m] = pc[m] /\ op'[m] = op[m] /\ res'[m] = res[m]
                                /\ cache'[m] = cache[m]
  BY DEF Finish, TickOver, TypeOK
<1>4. \A m \in Nodes \ {n} : epoch'[m] = epoch[m]
  BY <1>3 DEF EpochAfter, TypeOK
<1>5. StatementKnows(n)
  BY EpochInvByNode
<1>6. LeaderKnows(n)'
  <2>. SUFFICES ASSUME Owner = n PROVE cache'[n].epoch = row.epoch /\ epoch'[n] >= row.epoch
    BY <1>1, <1>2 DEF LeaderKnows
  <2>1. res[n] /\ op[n].kind # "yield" /\ op[n].epoch = row.epoch
    BY <1>1, <1>5 DEF StatementKnows
  <2>2. cache'[n].epoch = row.epoch
    BY <2>1, <1>3 DEF CacheAfter, LeaderAt
  <2>3. CASE op[n].kind \in Claims
    <3>1. epoch' = epoch
      BY <2>3, <1>3 DEF EpochAfter, Claims
    <3>. QED
      BY <3>1, <2>1, <2>2, <2>3, <1>1, <1>5 DEF StatementKnows
  <2>4. CASE op[n].kind \in {"refresh", "solo"}
    <3>1. epoch'[n] = Max2(epoch[n], op[n].epoch)
      BY <2>1, <2>4, <1>3 DEF EpochAfter, TypeOK
    <3>. QED
      BY <3>1, <2>1, <2>2, <1>1 DEF Max2, TypeOK, Op
  <2>. QED
    BY <2>1, <2>3, <2>4, <1>1 DEF Op, Kinds, Claims
<1>7. StatementKnows(n)'
  BY <1>3 DEF StatementKnows
<1>. QED
  BY <1>1, <1>3, <1>4, <1>6, <1>7, OthersUntouched

LEMMA ClearedEpoch ==
  ASSUME TypeOK, EpochInv, NEW n \in Nodes, TickError(n) \/ Crash(n) \/ Shutdown(n)
  PROVE  EpochInv'
<1>1. row' = row /\ pc'[n] = "idle" /\ cache'[n] = NotLeader
  BY DEF TickError, TickOver, Crash, Shutdown, Stopped, dbVars, TypeOK
<1>2. \A m \in Nodes \ {n} :
        /\ pc'[m] = pc[m] /\ op'[m] = op[m] /\ res'[m] = res[m]
        /\ epoch'[m] = epoch[m] /\ cache'[m] = cache[m]
  BY DEF TickError, TickOver, Crash, Shutdown, Stopped, TypeOK
<1>. QED
  BY <1>1, <1>2, Cleared, OthersUntouched

\* Every other step leaves ticks, counters and caches alone and at most ages
\* the row.
LEMMA AgeEpoch ==
  ASSUME TypeOK, EpochInv, UNCHANGED <<pc, op, res, epoch, cache>>,
         row' = row \/ Advance
  PROVE  EpochInv'
<1>1. ASSUME NEW m \in Nodes, Owner' = m PROVE Owner = m /\ row'.epoch = row.epoch
  <2>1. row' # None
    BY <1>1, NodesAssumption DEF Owner
  <2>2. CASE row' = row
    BY <2>2, <1>1 DEF Owner
  <2>3. CASE Advance
    <3>1. row \in Row /\ row' = [row EXCEPT !.age = Cap(@ + 1, MaxAge)]
      BY <2>1, <2>3 DEF Advance, TypeOK
    <3>2. row'.member = row.member /\ row'.epoch = row.epoch
      BY <3>1 DEF Row
    <3>3. row # None
      BY <2>1, <2>3 DEF Advance
    <3>. QED
      BY <3>2, <3>3, <2>1, <1>1 DEF Owner
  <2>. QED
    BY <2>2, <2>3
<1>2. ASSUME NEW m \in Nodes PROVE StatementKnows(m)' /\ LeaderKnows(m)'
  BY <1>1, EpochInvByNode, Untouched
<1>. QED
  BY <1>2 DEF EpochInv, StatementKnowsRow, CachedLeaderKnowsEpoch,
     StatementKnows, LeaderKnows

LEMMA InitEpoch == Init => EpochInv
BY NodesAssumption DEF Init, EpochInv, StatementKnowsRow, CachedLeaderKnowsEpoch, NotLeader

LEMMA NextEpochInv == TypeOK /\ OpTyped /\ ViewTyped /\ EpochInv /\ [Next]_vars => EpochInv'
<1>. SUFFICES ASSUME TypeOK, OpTyped, ViewTyped, EpochInv, [Next]_vars PROVE EpochInv'
  OBVIOUS
<1>1. ASSUME NEW n \in Nodes, Node(n) PROVE EpochInv'
  <2>1. CASE Tick(n)
    <3>1. ASSUME NEW failed \in SUBSET Reads, LookAndDecide(n, failed) PROVE EpochInv'
      BY <3>1, ViewType, DecisionEpoch DEF LookAndDecide, Begin, dbVars
    <3>2. CASE Decide(n)
      BY <3>2, DecisionEpoch DEF Decide, ViewTyped, dbVars
    <3>. QED
      BY <2>1, <3>1, <3>2, LookEpoch, ExecuteEpoch, FinishEpoch DEF Tick
  <2>2. CASE TickError(n) \/ Crash(n) \/ Shutdown(n)
    BY <2>2, ClearedEpoch
  <2>3. CASE \/ PublishBeat(n) \/ BeatExpires(n) \/ PublisherHangs(n)
             \/ PublisherRecovers(n) \/ Restart(n)
    <3>1. UNCHANGED <<dbVars, procVars, tickVars>>
      BY <2>3 DEF PublishBeat, BeatExpires, PublisherHangs, PublisherRecovers, Restart
    <3>. QED
      BY <3>1, AgeEpoch DEF dbVars, procVars, tickVars
  <2>. QED
    BY <1>1, <2>1, <2>2, <2>3 DEF Node
<1>2. CASE Operator \/ YieldExpires \/ LeaseExpires
  <2>1. UNCHANGED <<row, procVars, tickVars>>
    BY <1>2 DEF Operator, StepDown, ClearStepDown, YieldExpires, LeaseExpires
  <2>. QED
    BY <2>1, AgeEpoch DEF procVars, tickVars
<1>3. CASE Advance
  <2>1. UNCHANGED <<epoch, cache, tickVars>>
    BY <1>3 DEF Advance
  <2>. QED
    BY <1>3, <2>1, AgeEpoch DEF tickVars
<1>4. CASE UNCHANGED vars
  BY <1>4, AgeEpoch DEF vars, dbVars, procVars, tickVars
<1>. QED
  BY <1>1, <1>2, <1>3, <1>4 DEF Next

\* Whatever crashes, errors, skewed clocks and late results happen, the epoch in
\* a leader's cache is the epoch of the row it owns and its in-memory counter is
\* at least that, so LeaderInfo.epoch can be trusted while the row is ours.
THEOREM CachedLeaderKnowsEpochAlways == Spec => []CachedLeaderKnowsEpoch
<1>1. Spec => [](TypeOK /\ OpTyped /\ EpochInv)
  BY TypesAlways, InitEpoch, NextEpochInv, PTL DEF Spec
<1>2. EpochInv => CachedLeaderKnowsEpoch
  BY DEF EpochInv
<1>. QED
  BY <1>1, <1>2, PTL

-----------------------------------------------------------------------------
\* Displacements and yields have their causes.  A statement runs some time after
\* it was chosen; what its tick saw then must still be known when it runs.  Only
\* n's own tick forgets a silence that n has tracked, and time only adds to it.

SilenceTracked(n) ==
  pc[n] = "sql" /\ op[n].kind = "silent" =>
    /\ silent[n] # None
    /\ silent[n].name = op[n].old
    /\ silent[n].len >= MIN_PULSE_SILENT

SuccessorSeen(n) ==
  pc[n] = "sql" /\ op[n].kind = "yield" => op[n].best \in Candidates \ {n}

CauseInv == \A n \in Nodes : SilenceTracked(n) /\ SuccessorSeen(n)

\* A view's best candidate is a candidate, if there is one.
LEMMA PickBestCandidate ==
  ASSUME NEW v \in View, PickBest(v) # None
  PROVE  PickBest(v) \in Candidates
BY DEF PickBest, Preferred, Eligible

\* A step of node n alone, after which n has no unfounded statement.
LEMMA OthersKeepCause ==
  ASSUME CauseInv, NEW n \in Nodes,
         \A m \in Nodes \ {n} : pc'[m] = pc[m] /\ op'[m] = op[m] /\ silent'[m] = silent[m],
         SilenceTracked(n)' /\ SuccessorSeen(n)'
  PROVE  CauseInv'
BY DEF CauseInv, SilenceTracked, SuccessorSeen

\* A step after which the tick of n is not about to run a statement.
LEMMA NoStatementCause ==
  ASSUME CauseInv, NEW n \in Nodes, pc'[n] # "sql",
         \A m \in Nodes \ {n} : pc'[m] = pc[m] /\ op'[m] = op[m] /\ silent'[m] = silent[m]
  PROVE  CauseInv'
BY OthersKeepCause DEF SilenceTracked, SuccessorSeen

LEMMA DecisionCause ==
  ASSUME TypeOK, CauseInv, NEW n \in Nodes, NEW v \in View, Decision(n, v)
  PROVE  CauseInv'
<1>1. v \in View
  OBVIOUS
<1>2. ASSUME NEW kind, NEW old, NEW e, Choose(n, v, kind, old, e)
      PROVE  /\ pc'[n] = "sql" /\ op'[n].kind = kind /\ op'[n].old = old
             /\ op'[n].best = PickBest(v)
             /\ \A m \in Nodes \ {n} : pc'[m] = pc[m] /\ op'[m] = op[m]
  BY <1>2 DEF Choose, TypeOK
<1>3. ASSUME NoOp(n), \A m \in Nodes \ {n} : silent'[m] = silent[m]
      PROVE  CauseInv'
  <2>1. pc'[n] = "idle" /\ \A m \in Nodes \ {n} : pc'[m] = pc[m] /\ op'[m] = op[m]
    BY <1>3 DEF NoOp, TickOver, TypeOK
  <2>. QED
    BY <2>1, <1>3, NoStatementCause
<1>4. CASE DecideEmpty(n, v)
  <2>1. silent' = silent
    BY <1>4 DEF DecideEmpty
  <2>2. CASE NoOp(n)
    BY <2>1, <2>2, <1>3
  <2>3. CASE Propose(n, v, "claim", n, 0)
    <3>1. Choose(n, v, "claim", n, NextEpoch(n, 0))
      BY <2>3 DEF Propose
    <3>2. SilenceTracked(n)' /\ SuccessorSeen(n)'
      BY <3>1, <1>2 DEF SilenceTracked, SuccessorSeen
    <3>. QED
      BY <3>1, <3>2, <2>1, <1>2, OthersKeepCause
  <2>. QED
    BY <2>2, <2>3, <1>4 DEF DecideEmpty
<1>5. CASE DecideOwn(n, v)
  <2>1. silent' = silent
    BY <1>5 DEF DecideOwn
  <2>2. PICK kind : /\ Choose(n, v, kind, n, row.epoch)
                    /\ kind # "silent"
                    /\ kind = "yield" => PickBest(v) # None /\ ShouldYield(v, n)
    BY <1>5 DEF DecideOwn
  <2>3. kind = "yield" => PickBest(v) \in Candidates \ {n}
    BY <2>2, <1>1, PickBestCandidate DEF ShouldYield
  <2>4. SilenceTracked(n)' /\ SuccessorSeen(n)'
    BY <2>2, <2>3, <1>2 DEF SilenceTracked, SuccessorSeen
  <2>. QED
    BY <2>1, <2>2, <2>4, <1>2, OthersKeepCause
<1>6. CASE DecideOther(n, v)
  <2>. DEFINE s == Observed(n, v, Owner)
  <2>1. Owner \in Nodes
    BY <1>6, OwnerType DEF DecideOther, OptNode
  <2>2. CASE NoOp(n)
    <3>1. \A m \in Nodes \ {n} : silent'[m] = silent[m]
      BY <1>6 DEF DecideOther, TypeOK
    <3>. QED
      BY <2>2, <3>1, <1>3
  <2>3. CASE ~NoOp(n)
    <3>1. /\ silent' = [silent EXCEPT ![n] = s]
          /\ \/ Propose(n, v, "takeover", Owner, row.epoch)
             \/ /\ s # None /\ s.len >= MIN_PULSE_SILENT
                /\ Propose(n, v, "silent", Owner, row.epoch)
      BY <1>6, <2>3 DEF DecideOther
    <3>2. silent'[n] = s /\ \A m \in Nodes \ {n} : silent'[m] = silent[m]
      BY <3>1 DEF TypeOK
    <3>3. s # None => s.name = Owner
      BY DEF Observed
    <3>4. PICK kind \in {"takeover", "silent"} :
             /\ Choose(n, v, kind, Owner, NextEpoch(n, row.epoch))
             /\ kind = "silent" => s # None /\ s.len >= MIN_PULSE_SILENT
      BY <3>1 DEF Propose
    <3>. HIDE DEF s
    <3>5. SilenceTracked(n)' /\ SuccessorSeen(n)'
      BY <3>2, <3>3, <3>4, <1>2 DEF SilenceTracked, SuccessorSeen
    <3>. QED
      BY <3>2, <3>4, <3>5, <1>2, OthersKeepCause
  <2>. QED
    BY <2>2, <2>3
<1>. QED
  BY <1>4, <1>5, <1>6 DEF Decision

LEMMA LookCause ==
  ASSUME TypeOK, CauseInv, NEW n \in Nodes, NEW failed \in SUBSET Reads, Look(n, failed)
  PROVE  CauseInv'
<1>1. pc'[n] = "row" /\ \A m \in Nodes \ {n} : pc'[m] = pc[m]
  BY DEF Look, TypeOK
<1>. QED
  BY <1>1, NoStatementCause DEF Look

LEMMA TickCause ==
  ASSUME TypeOK, CauseInv, NEW n \in Nodes,
         Execute(n) \/ Finish(n) \/ TickError(n) \/ Crash(n) \/ Shutdown(n)
  PROVE  CauseInv'
<1>1. pc'[n] # "sql" /\ \A m \in Nodes \ {n} : pc'[m] = pc[m] /\ op'[m] = op[m]
  BY DEF Execute, Finish, TickError, TickOver, Crash, Shutdown, Stopped, TypeOK
<1>2. \A m \in Nodes \ {n} : silent'[m] = silent[m]
  BY DEF Execute, Finish, TickError, Crash, Shutdown, Stopped, procVars, TypeOK
<1>. QED
  BY <1>1, <1>2, NoStatementCause

LEMMA AdvanceCause ==
  ASSUME TypeOK, CauseInv, Advance
  PROVE  CauseInv'
<1>1. UNCHANGED <<pc, op>>
  BY DEF Advance, tickVars
<1>2. ASSUME NEW n \in Nodes, silent[n] # None
      PROVE  /\ silent'[n] # None /\ silent'[n].name = silent[n].name
             /\ silent[n].len >= MIN_PULSE_SILENT => silent'[n].len >= MIN_PULSE_SILENT
  <2>1. silent[n] \in Tracker
    BY <1>2 DEF TypeOK
  <2>2. silent'[n] = [silent[n] EXCEPT !.len = Cap(@ + 1, MIN_PULSE_SILENT)]
    BY <1>2 DEF Advance
  <2>3. silent'[n] = [name |-> silent[n].name, len |-> Cap(silent[n].len + 1, MIN_PULSE_SILENT)]
    BY <2>1, <2>2 DEF Tracker
  <2>4. Cap(silent[n].len + 1, MIN_PULSE_SILENT) \in 0 .. MIN_PULSE_SILENT
    BY <2>1, TimingAssumption DEF Tracker, Cap
  <2>5. silent'[n] \in Tracker
    BY <2>1, <2>3, <2>4 DEF Tracker
  <2>6. silent'[n] # None
    BY <2>5, NoneAssumption
  <2>. QED
    BY <2>1, <2>3, <2>6, TimingAssumption DEF Tracker, Cap
<1>. QED
  BY <1>1, <1>2 DEF CauseInv, SilenceTracked, SuccessorSeen

LEMMA InitCause == Init => CauseInv
BY DEF Init, CauseInv, SilenceTracked, SuccessorSeen

LEMMA UnchangedCause ==
  ASSUME CauseInv, UNCHANGED <<pc, op, silent>>
  PROVE  CauseInv'
BY DEF CauseInv, SilenceTracked, SuccessorSeen

LEMMA NextCause == TypeOK /\ ViewTyped /\ CauseInv /\ [Next]_vars => CauseInv'
<1>. SUFFICES ASSUME TypeOK, ViewTyped, CauseInv, [Next]_vars PROVE CauseInv'
  OBVIOUS
<1>1. ASSUME NEW n \in Nodes, Node(n) PROVE CauseInv'
  <2>1. ASSUME NEW failed \in SUBSET Reads, Look(n, failed) \/ LookAndDecide(n, failed) \/ Decide(n)
        PROVE  CauseInv'
    BY <2>1, LookCause, ViewType, DecisionCause DEF LookAndDecide, Decide, ViewTyped
  <2>2. CASE Execute(n) \/ Finish(n) \/ TickError(n) \/ Crash(n) \/ Shutdown(n)
    BY <2>2, TickCause
  <2>3. CASE \/ PublishBeat(n) \/ BeatExpires(n) \/ PublisherHangs(n)
             \/ PublisherRecovers(n) \/ Restart(n)
    <3>1. UNCHANGED <<procVars, tickVars>>
      BY <2>3 DEF PublishBeat, BeatExpires, PublisherHangs, PublisherRecovers, Restart
    <3>. QED
      BY <3>1, UnchangedCause DEF procVars, tickVars
  <2>. QED
    BY <1>1, <2>1, <2>2, <2>3 DEF Node, Tick
<1>2. CASE Operator \/ YieldExpires \/ LeaseExpires
  <2>1. UNCHANGED <<procVars, tickVars>>
    BY <1>2 DEF Operator, StepDown, ClearStepDown, YieldExpires, LeaseExpires
  <2>. QED
    BY <2>1, UnchangedCause DEF procVars, tickVars
<1>3. CASE Advance
  BY <1>3, AdvanceCause
<1>4. CASE UNCHANGED vars
  BY <1>4, UnchangedCause DEF vars, procVars, tickVars
<1>. QED
  BY <1>1, <1>2, <1>3, <1>4 DEF Next

LEMMA CauseAlways == Spec => [](TypeOK /\ OpTyped /\ CauseInv)
BY TypesAlways, InitCause, NextCause, PTL DEF Spec

\* The row changes hands only in Execute; everything else keeps it or ages it.
LEMMA RowSteps ==
  ASSUME [Next]_vars
  PROVE  \/ row' = row
         \/ Advance
         \/ \E n \in Nodes : Execute(n)
<1>1. ASSUME NEW n \in Nodes, Node(n), ~Execute(n) PROVE row' = row
  BY <1>1 DEF Node, Tick, Begin, Look, LookAndDecide, Decide, Finish, TickError, PublishBeat, BeatExpires, PublisherHangs,
     PublisherRecovers, Crash, Shutdown, Stopped, Restart, dbVars
<1>2. ASSUME Operator \/ YieldExpires \/ LeaseExpires PROVE row' = row
  BY <1>2 DEF Operator, StepDown, ClearStepDown, YieldExpires, LeaseExpires
<1>. QED
  BY <1>1, <1>2 DEF Next, vars, dbVars

\* Time keeps the member of the row, and the row.
LEMMA AdvanceKeepsMember ==
  ASSUME TypeOK, Advance, row # None
  PROVE  row'.member = row.member /\ row'.epoch = row.epoch
BY DEF Advance, TypeOK, Row

LEMMA DisplacedStep ==
  ASSUME TypeOK, OpTyped, CauseInv, [Next]_vars, NEW n \in Nodes,
         row # None, row' # None, row.member # n, row'.member = n
  PROVE  /\ row'.epoch > row.epoch
         /\ \/ row.age > STALE_THRESHOLD
            \/ /\ silent[n] # None
               /\ silent[n].name = row.member
               /\ silent[n].len >= MIN_PULSE_SILENT
<1>1. row \in Row
  BY DEF TypeOK
<1>2. PICK m \in Nodes : Execute(m)
  BY RowSteps, AdvanceKeepsMember
<1>3. op[m] \in Op /\ pc[m] = "sql" /\ Matches(op[m], m) /\ row' = Written(op[m], m)
  BY <1>2 DEF Execute, OpTyped
<1>4. op[m].kind \notin {"refresh", "solo"}
  <2>. SUFFICES ASSUME op[m].kind \in {"refresh", "solo"} PROVE FALSE
    OBVIOUS
  <2>1. row' = [row EXCEPT !.age = 0]
    BY <1>3 DEF Written
  <2>. QED
    BY <2>1, <1>1 DEF Row
<1>5. op[m].kind # "yield" /\ op[m].kind # "claim"
  BY <1>3 DEF Written, Matches
<1>6. op[m].kind \in {"takeover", "silent"}
  BY <1>3, <1>4, <1>5 DEF Op, Kinds
<1>7. row' = [member |-> m, epoch |-> op[m].epoch, age |-> 0]
  BY <1>3, <1>6 DEF Written
<1>8. m = n /\ row'.epoch = op[n].epoch
  BY <1>7
<1>9. /\ Owner = op[n].old /\ row.epoch < op[n].epoch
      /\ op[n].kind = "takeover" => row.age > STALE_THRESHOLD
  BY <1>3, <1>6, <1>8 DEF Matches
<1>10. op[n].old = row.member
  BY <1>9 DEF Owner
<1>11. SilenceTracked(n)
  BY DEF CauseInv
<1>12. row'.epoch > row.epoch
  BY <1>1, <1>3, <1>8, <1>9 DEF Row, Op
<1>. QED
  BY <1>3, <1>6, <1>8, <1>9, <1>10, <1>11, <1>12 DEF SilenceTracked

\* For every fleet, rank and clock skew: the member of the row changes only to a
\* node with a higher epoch whose statement found the heartbeat stale by
\* Postgres' clock, or that has tracked this very leader silent for the minimum
\* time, however long ago its tick decided to challenge.
THEOREM DisplacedForCauseAlways == Spec => DisplacedForCause
<1>1. TypeOK /\ OpTyped /\ CauseInv /\ [Next]_vars =>
        [\A n \in Nodes :
           row # None /\ row' # None /\ row.member # n /\ row'.member = n =>
             /\ row'.epoch > row.epoch
             /\ \/ row.age > STALE_THRESHOLD
                \/ /\ silent[n] # None
                   /\ silent[n].name = row.member
                   /\ silent[n].len >= MIN_PULSE_SILENT]_vars
  BY DisplacedStep
<1>2. Spec => [](TypeOK /\ OpTyped /\ CauseInv) /\ [][Next]_vars
  BY CauseAlways, PTL DEF Spec
<1>. QED
  BY <1>1, <1>2, PTL DEF DisplacedForCause

LEMMA YieldStep ==
  ASSUME TypeOK, OpTyped, CauseInv, [Next]_vars, NEW n \in Nodes, Owner = n, row' = None
  PROVE  op[n].best \in Candidates \ {n}
<1>1. row # None /\ row \in Row
  BY NodesAssumption, OwnerType DEF Owner
<1>2. ~Advance
  <2>1. [row EXCEPT !.age = Cap(@ + 1, MaxAge)] \in Row
    BY <1>1, TimingAssumption DEF Row, Cap, MaxAge
  <2>. QED
    BY <2>1, <1>1, NoneAssumption DEF Advance
<1>3. PICK m \in Nodes : Execute(m)
  BY <1>1, <1>2, RowSteps
<1>4. op[m] \in Op /\ pc[m] = "sql" /\ Matches(op[m], m) /\ Written(op[m], m) = None
  BY <1>1, <1>3 DEF Execute, OpTyped
<1>5. op[m].kind \notin {"refresh", "solo"}
  <2>1. [row EXCEPT !.age = 0] \in Row
    BY <1>1, TimingAssumption DEF Row, MaxAge
  <2>. QED
    BY <2>1, <1>4, NoneAssumption DEF Written
<1>6. op[m].kind = "yield"
  <2>1. [member |-> m, epoch |-> op[m].epoch, age |-> 0] \in Row
    BY <1>4, TimingAssumption DEF Row, Op, MaxAge
  <2>. QED
    BY <2>1, <1>4, <1>5, NoneAssumption DEF Written
<1>7. m = n
  BY <1>4, <1>6 DEF Matches
<1>. QED
  BY <1>4, <1>6, <1>7 DEF CauseInv, SuccessorSeen

\* For every fleet and every view: the row is deleted only by its owner, and only
\* when the tick that chose the DELETE saw another eligible candidate.
THEOREM YieldHasSuccessorAlways == Spec => YieldHasSuccessor
<1>1. TypeOK /\ OpTyped /\ CauseInv /\ [Next]_vars =>
        [\A n \in Nodes : Owner = n /\ row' = None => op[n].best \in Candidates \ {n}]_vars
  BY YieldStep
<1>2. Spec => [](TypeOK /\ OpTyped /\ CauseInv) /\ [][Next]_vars
  BY CauseAlways, PTL DEF Spec
<1>. QED
  BY <1>1, <1>2, PTL DEF YieldHasSuccessor
=============================================================================
