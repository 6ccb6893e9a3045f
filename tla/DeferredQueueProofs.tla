------------------------- MODULE DeferredQueueProofs -------------------------
(***************************************************************************)
(* Proofs about DeferredQueue, for any tasks, workers, times and bounds.   *)
(***************************************************************************)
EXTENDS DeferredQueue, FiniteSetTheorems, TLAPS

\* What the row r of task t owes to its own history: h is the time left of the
\* last promised delay, w the time since the task became dispatchable.
RowOK(t, r, h, w) ==
  /\ r.status = "none" => r.attempts = 0
  /\ r.status = "failed" => r.attempts >= MaxAttempts[t]
  /\ r.status = "dispatchable" => r.due >= -w
  /\ r.status \in {"pending", "dispatchable"} /\ Trigger[t] # "at_time" => h = 0 \/ h <= r.due

\* Attempts never go down, so what the sweeper read is never too high.
SnapshotOK(s) == task[s.t].status = "gone" \/ s.attempts <= task[s.t].attempts

IInv ==
  /\ TypeOK /\ IsFiniteSet(execs)
  /\ \A t \in Tasks : RowOK(t, task[t], hold[t], wait[t])
  /\ \A s \in sweep.rows : SnapshotOK(s)

-----------------------------------------------------------------------------
\* Helpers.

LEMMA SetStatus ==
  ASSUME NEW r \in Row, NEW x \in Statuses
  PROVE  LET q == [r EXCEPT !.status = x] IN
         /\ q \in Row /\ q.status = x
         /\ q.attempts = r.attempts /\ q.due = r.due /\ q.age = r.age /\ q.at = r.at
BY DEF Row

LEMMA SetAttempts ==
  ASSUME NEW r \in Row, NEW x \in Nat
  PROVE  LET q == [r EXCEPT !.attempts = x] IN
         /\ q \in Row /\ q.attempts = x /\ q.status = r.status /\ q.due = r.due
BY DEF Row

LEMMA SetDue ==
  ASSUME NEW r \in Row, NEW x \in Int
  PROVE  LET q == [r EXCEPT !.due = x] IN
         /\ q \in Row /\ q.due = x
         /\ q.status = r.status /\ q.attempts = r.attempts /\ q.age = r.age /\ q.at = r.at
BY DEF Row

LEMMA SetAge ==
  ASSUME NEW r \in Row, NEW x \in Int
  PROVE  LET q == [r EXCEPT !.age = x] IN
         /\ q \in Row /\ q.age = x
         /\ q.status = r.status /\ q.attempts = r.attempts /\ q.due = r.due /\ q.at = r.at
BY DEF Row

LEMMA SetAt ==
  ASSUME NEW r \in Row, NEW x \in Nat
  PROVE  LET q == [r EXCEPT !.at = x] IN
         /\ q \in Row
         /\ q.status = r.status /\ q.attempts = r.attempts /\ q.due = r.due /\ q.age = r.age
BY DEF Row

LEMMA UnclaimedType ==
  ASSUME NEW r \in Row, NEW x \in Statuses
  PROVE  /\ Unclaimed(r, x) \in Row
         /\ Unclaimed(r, x).status = x
         /\ Unclaimed(r, x).attempts = r.attempts
         /\ Unclaimed(r, x).due = r.due
<1>. DEFINE q == [r EXCEPT !.status = x]
<1>1. q \in Row /\ q.status = x /\ q.attempts = r.attempts /\ q.due = r.due
  BY SetStatus
<1>. HIDE DEF q
<1>2. LET u == [q EXCEPT !.age = -1] IN
      u \in Row /\ u.status = x /\ u.attempts = r.attempts /\ u.due = r.due
  BY <1>1, SetAge
<1>3. Unclaimed(r, x) = [q EXCEPT !.age = -1]
  BY DEF Unclaimed, NotClaimed, q
<1>. QED  BY <1>2, <1>3

LEMMA NewRowType ==
  ASSUME NEW x \in Statuses
  PROVE  LET q == [NewRow EXCEPT !.status = x] IN
         NewRow \in Row /\ q \in Row /\ q.status = x /\ q.attempts = 0
<1>1. NewRow \in Row /\ NewRow.attempts = 0
  BY DEF NewRow, Row, Statuses, NotClaimed
<1>. QED  BY <1>1, SetStatus

LEMMA DispatchableType ==
  ASSUME NEW r \in Row, NEW x \in Int
  PROVE  LET q == Dispatchable(r, x) IN
         q \in Row /\ q.status = "dispatchable" /\ q.due = x /\ q.attempts = r.attempts
<1>. DEFINE p == [r EXCEPT !.status = "dispatchable"]
<1>1. p \in Row /\ p.status = "dispatchable" /\ p.attempts = r.attempts
  BY SetStatus DEF Statuses
<1>. HIDE DEF p
<1>2. LET u == [p EXCEPT !.due = x] IN
      u \in Row /\ u.status = "dispatchable" /\ u.due = x /\ u.attempts = r.attempts
  BY <1>1, SetDue
<1>3. Dispatchable(r, x) = [p EXCEPT !.due = x]
  BY DEF Dispatchable, p
<1>. QED  BY <1>2, <1>3

\* A unit of time leaves status and attempts alone.
LEMMA LaterType ==
  ASSUME NEW r \in Row
  PROVE  LET q == Later(r) IN
         /\ q \in Row /\ q.status = r.status /\ q.attempts = r.attempts
         /\ q.due >= r.due - 1 /\ q.due >= -StealAfter
         /\ q.age = IF r.age = NotClaimed THEN r.age
                    ELSE Least(r.age + 1, Greatest(StaleAfter, SweepAfter) + 1)
<1>. DEFINE d == Greatest(r.due - 1, -StealAfter)
            a == IF r.age = NotClaimed THEN r.age
                 ELSE Least(r.age + 1, Greatest(StaleAfter, SweepAfter) + 1)
            c == Greatest(r.at - 1, 0)
            p == [r EXCEPT !.due = d]
            q == [p EXCEPT !.age = a]
<1>1. d \in Int /\ d >= r.due - 1 /\ d >= -StealAfter /\ a \in Int /\ c \in Nat
  BY TimesAssumption DEF Row, Greatest, Least, NotClaimed
<1>. HIDE DEF d, a, c
<1>2. p \in Row /\ p.due = d /\ p.status = r.status /\ p.attempts = r.attempts /\ p.age = r.age /\ p.at = r.at
  BY <1>1, SetDue
<1>. HIDE DEF p
<1>3. /\ q \in Row /\ q.due = d /\ q.status = r.status /\ q.attempts = r.attempts
      /\ q.at = r.at /\ q.age = a
  BY <1>1, <1>2, SetAge
<1>. HIDE DEF q
<1>4. LET u == [q EXCEPT !.at = c] IN
      u \in Row /\ u.due = d /\ u.status = r.status /\ u.attempts = r.attempts /\ u.age = a
  BY <1>1, <1>3, SetAt
<1>5. Later(r) = [q EXCEPT !.at = c]
  BY DEF Later, d, a, c, p, q
<1>. QED  BY <1>1, <1>4, <1>5 DEF a

\* A failed attempt is counted, and makes the row failed only at the limit.
LEMMA AttemptSpentType ==
  ASSUME TypeOK, NEW t \in Tasks, NEW x \in Int
  PROVE  LET q == AttemptSpent(t, x) IN
         /\ q \in Row
         /\ q.attempts = task[t].attempts + 1
         /\ q.status \in {"failed", "pending"}
         /\ q.status = "failed" => q.attempts >= MaxAttempts[t]
         /\ q.due = x
<1>. DEFINE st == IF task[t].attempts + 1 >= MaxAttempts[t] THEN "failed" ELSE "pending"
            u == Unclaimed(task[t], st)
            v == [u EXCEPT !.attempts = task[t].attempts + 1]
<1>1. /\ task[t] \in Row /\ st \in Statuses /\ st \in {"failed", "pending"}
      /\ st = "failed" => task[t].attempts + 1 >= MaxAttempts[t]
      /\ task[t].attempts + 1 \in Nat
  BY DEF TypeOK, Statuses, Terminal, Row
<1>. HIDE DEF st
<1>2. u \in Row /\ u.status = st /\ u.attempts = task[t].attempts
  BY <1>1, UnclaimedType
<1>3. v \in Row /\ v.status = st /\ v.attempts = task[t].attempts + 1
  <2>. HIDE DEF u
  <2>. QED  BY <1>1, <1>2, SetAttempts
<1>4. AttemptSpent(t, x) = [v EXCEPT !.due = x]
  <2>1. AttemptSpent(t, x) = [u EXCEPT !.attempts = @ + 1, !.due = x]
    BY DEF AttemptSpent, st
  <2>. HIDE DEF u
  <2>. QED  BY <1>2, <2>1
<1>. HIDE DEF v
<1>. QED
  BY <1>1, <1>3, <1>4, SetDue

-----------------------------------------------------------------------------
\* The two halves of the invariant after a step.

\* The rows are sound, given what the step did to each of them.
RowsKept ==
  /\ task' \in [Tasks -> Row] /\ hold' \in [Tasks -> Nat] /\ wait' \in [Tasks -> Nat]
  /\ \A u \in Tasks : RowOK(u, task'[u], hold'[u], wait'[u])
  /\ \A u \in Tasks : /\ task[u].status = "gone" => task'[u].status = "gone"
                      /\ task'[u].status = "gone" \/ task'[u].attempts >= task[u].attempts

\* The processes are sound.
RestKept ==
  /\ execs' \subseteq Exec
  /\ sweep' \in [on : BOOLEAN, rows : SUBSET Stuck]
  /\ up' \subseteq Workers /\ commands' \in Nat
  /\ claims' \in [Tasks -> Nat]
  /\ \A e \in execs' : e.k <= claims'[e.t] /\ e.w \in up'
  /\ IsFiniteSet(execs')
  /\ \A w \in Workers : Cardinality({e \in execs' : e.w = w}) <= Permits[w]

LEMMA Kept ==
  ASSUME IInv, RowsKept, RestKept, sweep'.rows \subseteq sweep.rows
  PROVE  IInv'
<1>1. TypeOK' /\ IsFiniteSet(execs')
  BY DEF RowsKept, RestKept, TypeOK
<1>2. \A t \in Tasks : RowOK(t, task'[t], hold'[t], wait'[t])
  BY DEF RowsKept
<1>3. ASSUME NEW s \in sweep'.rows
      PROVE  task'[s.t].status = "gone" \/ s.attempts <= task'[s.t].attempts
  <2>1. s \in Stuck /\ (task[s.t].status = "gone" \/ s.attempts <= task[s.t].attempts)
    BY DEF IInv, SnapshotOK, TypeOK
  <2>2. /\ s.t \in Tasks /\ s.attempts \in Nat
        /\ task[s.t].attempts \in Nat /\ task'[s.t].attempts \in Nat
    BY <2>1 DEF Stuck, Row, IInv, TypeOK, RowsKept
  <2>. QED  BY <2>1, <2>2 DEF RowsKept
<1>. QED  BY <1>1, <1>2, <1>3 DEF IInv, SnapshotOK, RowOK

\* A step that rewrites the row of one task.
LEMMA OneRow ==
  ASSUME IInv, NEW t \in Tasks, NEW r \in Row, NEW h \in Nat, NEW w \in Nat,
         task' = [task EXCEPT ![t] = r],
         hold' = [hold EXCEPT ![t] = h],
         wait' = [wait EXCEPT ![t] = w],
         RowOK(t, r, h, w),
         r.attempts >= task[t].attempts,
         task[t].status # "gone"
  PROVE  RowsKept
<1>1. task \in [Tasks -> Row] /\ hold \in [Tasks -> Nat] /\ wait \in [Tasks -> Nat]
  BY DEF IInv, TypeOK
<1>2. task' \in [Tasks -> Row] /\ hold' \in [Tasks -> Nat] /\ wait' \in [Tasks -> Nat]
  BY <1>1
<1>3. ASSUME NEW u \in Tasks
      PROVE  /\ RowOK(u, task'[u], hold'[u], wait'[u])
             /\ task[u].status = "gone" => task'[u].status = "gone"
             /\ task'[u].attempts >= task[u].attempts
  <2>1. RowOK(u, task[u], hold[u], wait[u]) /\ task[u].attempts \in Nat
    BY <1>1 DEF IInv, Row
  <2>2. CASE u = t
    BY <1>1, <2>2
  <2>3. CASE u # t
    BY <1>1, <2>1, <2>3
  <2>. QED  BY <2>2, <2>3
<1>. QED  BY <1>2, <1>3 DEF RowsKept

\* A step that rewrites no row.
LEMMA NoRow ==
  ASSUME IInv, UNCHANGED <<task, hold, wait>>
  PROVE  RowsKept
<1>1. \A u \in Tasks : RowOK(u, task[u], hold[u], wait[u]) /\ task[u].attempts \in Nat
  BY DEF IInv, TypeOK, Row
<1>. QED  BY <1>1 DEF IInv, TypeOK, RowsKept

\* The executions of a worker can be counted.
LEMMA HowMany ==
  ASSUME NEW S, IsFiniteSet(S), NEW w
  PROVE  Cardinality({e \in S : e.w = w}) \in Nat
<1>1. IsFiniteSet({e \in S : e.w = w})
  BY FS_Subset
<1>. QED  BY <1>1, FS_CardinalityType

\* The executions of a worker among some of a finite set.
LEMMA OfWorker ==
  ASSUME NEW S, IsFiniteSet(S), NEW T \in SUBSET S, NEW w
  PROVE  /\ IsFiniteSet(T) /\ IsFiniteSet({e \in T : e.w = w})
         /\ Cardinality({e \in T : e.w = w}) \in Nat
         /\ Cardinality({e \in T : e.w = w}) <= Cardinality({e \in S : e.w = w})
<1>1. IsFiniteSet(T) /\ IsFiniteSet({e \in S : e.w = w}) /\ IsFiniteSet({e \in T : e.w = w})
  BY FS_Subset
<1>2. {e \in T : e.w = w} \subseteq {e \in S : e.w = w}
  OBVIOUS
<1>. QED  BY <1>1, <1>2, FS_Subset, FS_CardinalityType

\* A step of no process: only rows, commands and executions that end.
LEMMA FewerExecs ==
  ASSUME TypeOK, IsFiniteSet(execs), execs' \subseteq execs, UNCHANGED <<claims, sweep>>,
         commands' = commands \/ commands' = commands + 1, up' \subseteq Workers,
         \A e \in execs' : e.w \in up => e.w \in up'
  PROVE  RestKept /\ sweep'.rows \subseteq sweep.rows
<1>1. IsFiniteSet(execs') /\ \A w \in Workers : Cardinality({e \in execs' : e.w = w}) <= Permits[w]
  <2>1. ASSUME NEW w \in Workers
        PROVE  IsFiniteSet(execs') /\ Cardinality({e \in execs' : e.w = w}) <= Permits[w]
    <3>1. Permits[w] \in Nat /\ Cardinality({e \in execs : e.w = w}) \in Nat
      BY HowMany, CountsAssumption
    <3>2. /\ IsFiniteSet(execs') /\ Cardinality({e \in execs' : e.w = w}) \in Nat
          /\ Cardinality({e \in execs' : e.w = w}) <= Cardinality({e \in execs : e.w = w})
      BY OfWorker
    <3>3. Cardinality({e \in execs : e.w = w}) <= Permits[w]
      BY DEF TypeOK
    <3>. QED  BY <3>1, <3>2, <3>3
  <2>2. IsFiniteSet(execs')
    BY FS_Subset
  <2>. QED  BY <2>1, <2>2
<1>2. \A e \in execs' : e.k <= claims'[e.t] /\ e.w \in up'
  BY DEF TypeOK
<1>. QED  BY <1>1, <1>2 DEF TypeOK, RestKept

\* What is known of the row of a task.
LEMMA RowKnown ==
  ASSUME IInv, NEW t \in Tasks
  PROVE  /\ task[t] \in Row /\ task[t].attempts \in Nat /\ task[t].due \in Int
         /\ hold[t] \in Nat /\ wait[t] \in Nat
         /\ RowOK(t, task[t], hold[t], wait[t])
BY DEF IInv, TypeOK, Row
-----------------------------------------------------------------------------
\* One lemma per action.

LEMMA EnqueueStep ==
  ASSUME IInv, NEW t \in Tasks, NEW d \in Delays[t], Enqueue(t, d)
  PROVE  IInv'
<1>. DEFINE p == [NewRow EXCEPT !.status = "pending"]
            q == [p EXCEPT !.due = d]
            r == [q EXCEPT !.at = At[t]]
<1>1. d \in Nat /\ At[t] \in Nat
  BY TimesAssumption
<1>2. p \in Row /\ p.status = "pending" /\ p.attempts = 0
  BY NewRowType DEF Statuses
<1>3. q \in Row /\ q.status = "pending" /\ q.attempts = 0 /\ q.due = d
  <2>. HIDE DEF p
  <2>. QED  BY <1>1, <1>2, SetDue
<1>4. r \in Row /\ r.status = "pending" /\ r.attempts = 0 /\ r.due = d
  <2>. HIDE DEF q
  <2>. QED  BY <1>1, <1>3, SetAt
<1>5. task' = [task EXCEPT ![t] = r]
  BY DEF Enqueue
<1>6. hold' = [hold EXCEPT ![t] = d] /\ wait' = [wait EXCEPT ![t] = wait[t]]
  BY DEF Enqueue, IInv, TypeOK
<1>7. task[t].status = "none" /\ task[t].attempts = 0
  BY RowKnown DEF Enqueue, Has, RowOK
<1>8. RowsKept
  <2>. HIDE DEF r
  <2>1. RowOK(t, r, d, wait[t])
    BY <1>1, <1>4 DEF RowOK
  <2>2. r.attempts >= task[t].attempts /\ wait[t] \in Nat /\ task[t].status # "gone"
    BY <1>4, <1>7, RowKnown
  <2>. QED  BY <1>1, <1>4, <1>5, <1>6, <2>1, <2>2, OneRow
<1>9. RestKept /\ sweep'.rows \subseteq sweep.rows
  BY FewerExecs DEF Enqueue, IInv, TypeOK
<1>. QED  BY <1>8, <1>9, Kept

LEMMA SchedulerPassStep ==
  ASSUME IInv, NEW online, NEW stmts, SchedulerPass(online, stmts)
  PROVE  IInv'
<1>1. ASSUME NEW u \in Tasks
      PROVE  /\ task'[u] \in Row /\ wait'[u] \in Nat /\ hold'[u] \in Nat
             /\ RowOK(u, task'[u], hold'[u], wait'[u])
             /\ task[u].status = "gone" => task'[u].status = "gone"
             /\ task'[u].attempts >= task[u].attempts
  <2>1. CASE Fires(u, online, stmts)
    <3>1. task'[u] = Dispatchable(task[u], NewDue(u)) /\ wait'[u] = 0 /\ hold'[u] = hold[u]
      BY <2>1 DEF SchedulerPass
    <3>2. NewDue(u) \in Int /\ NewDue(u) >= 0
      BY RowKnown DEF NewDue, Greatest
    <3>3. /\ task'[u] \in Row /\ task'[u].status = "dispatchable"
          /\ task'[u].due = NewDue(u) /\ task'[u].attempts = task[u].attempts
      <4>1. task[u] \in Row
        BY RowKnown
      <4>. QED  BY <3>1, <3>2, <4>1, DispatchableType
    <3>4. Trigger[u] # "at_time" => hold[u] = 0 \/ hold[u] <= NewDue(u)
      <4>1. task[u].status = "pending"
        BY <2>1 DEF Fires, Has
      <4>2. CASE Trigger[u] = "node_online"
        BY <4>1, <4>2, RowKnown DEF RowOK, NewDue, Greatest
      <4>3. CASE Trigger[u] = "immediate"
        BY <2>1, <4>1, <4>3, RowKnown DEF RowOK, Fires
      <4>. QED  BY <4>2, <4>3, TriggerAssumption
    <3>5. task[u].status = "pending"
      BY <2>1 DEF Fires, Has
    <3>. QED
      BY <3>1, <3>2, <3>3, <3>4, <3>5, RowKnown DEF RowOK
  <2>2. CASE ~ Fires(u, online, stmts)
    <3>1. task'[u] = task[u] /\ wait'[u] = wait[u] /\ hold'[u] = hold[u]
      BY <2>2 DEF SchedulerPass
    <3>. QED  BY <3>1, RowKnown
  <2>. QED  BY <2>1, <2>2
<1>2. RowsKept
  <2>1. task' \in [Tasks -> Row] /\ wait' \in [Tasks -> Nat] /\ hold' \in [Tasks -> Nat]
    BY <1>1 DEF SchedulerPass, IInv, TypeOK
  <2>. QED  BY <1>1, <2>1 DEF RowsKept
<1>3. RestKept /\ sweep'.rows \subseteq sweep.rows
  BY FewerExecs DEF SchedulerPass, IInv, TypeOK
<1>. QED  BY <1>2, <1>3, Kept

LEMMA PromoteStep ==
  ASSUME IInv, NEW t \in Tasks, Promote(t)
  PROVE  IInv'
<1>. DEFINE r == Dispatchable(task[t], 0)
<1>1. r \in Row /\ r.status = "dispatchable" /\ r.due = 0 /\ r.attempts = task[t].attempts
  BY RowKnown, DispatchableType
<1>2. /\ task' = [task EXCEPT ![t] = r]
      /\ hold' = [hold EXCEPT ![t] = 0] /\ wait' = [wait EXCEPT ![t] = 0]
      /\ task[t].status # "gone"
  BY DEF Promote, Has
<1>3. RowsKept
  <2>. HIDE DEF r
  <2>1. RowOK(t, r, 0, 0)
    BY <1>1 DEF RowOK
  <2>2. r \in Row /\ 0 \in Nat /\ r.attempts >= task[t].attempts
    BY <1>1, RowKnown
  <2>3. \A h, w \in Nat :
          /\ hold' = [hold EXCEPT ![t] = h]
          /\ wait' = [wait EXCEPT ![t] = w]
          /\ RowOK(t, r, h, w)
          => RowsKept
    <3>. SUFFICES ASSUME NEW h \in Nat, NEW w \in Nat,
                         hold' = [hold EXCEPT ![t] = h], wait' = [wait EXCEPT ![t] = w],
                         RowOK(t, r, h, w)
                  PROVE  RowsKept
      OBVIOUS
    <3>. QED  BY <1>2, <2>2, OneRow
  <2>. QED  BY <1>2, <2>1, <2>2, <2>3
<1>4. RestKept /\ sweep'.rows \subseteq sweep.rows
  BY FewerExecs DEF Promote, Command, IInv, TypeOK
<1>. QED  BY <1>3, <1>4, Kept

LEMMA ClaimStep ==
  ASSUME IInv, NEW w \in Workers, NEW t \in Tasks, Claim(w, t)
  PROVE  IInv'
<1>. DEFINE p == [task[t] EXCEPT !.status = "running"]
            r == [p EXCEPT !.age = 0]
<1>1. p \in Row /\ p.status = "running" /\ p.attempts = task[t].attempts
  BY RowKnown, SetStatus DEF Statuses
<1>2. r \in Row /\ r.status = "running" /\ r.attempts = task[t].attempts
  <2>. HIDE DEF p
  <2>. QED  BY <1>1, SetAge
<1>3. task' = [task EXCEPT ![t] = r] /\ task[t].status # "gone"
  BY DEF Claim, Claimable, Has
<1>4. hold' = [hold EXCEPT ![t] = hold[t]] /\ wait' = [wait EXCEPT ![t] = wait[t]]
  BY DEF Claim, IInv, TypeOK
<1>5. RowsKept
  <2>. HIDE DEF r
  <2>1. RowOK(t, r, hold[t], wait[t])
    BY <1>2 DEF RowOK
  <2>2. r.attempts >= task[t].attempts /\ hold[t] \in Nat /\ wait[t] \in Nat
    BY <1>2, RowKnown
  <2>. QED  BY <1>2, <1>3, <1>4, <2>1, <2>2, OneRow
<1>6. RestKept
  <2>. DEFINE e0 == [t |-> t, k |-> claims[t] + 1, w |-> w, age |-> 0]
  <2>1. claims \in [Tasks -> Nat] /\ claims' = [claims EXCEPT ![t] = claims[t] + 1]
    BY DEF Claim, IInv, TypeOK
  <2>2. e0 \in Exec /\ e0.k <= claims'[e0.t] /\ execs' = execs \cup {e0}
    BY <2>1 DEF Exec, Claim
  <2>3. ASSUME NEW e \in execs  PROVE e \in Exec /\ e.k <= claims'[e.t] /\ e.w \in up
    BY <2>1 DEF IInv, TypeOK, Exec
  <2>4. e0.w = w /\ w \in up
    BY DEF Claim
  <2>. HIDE DEF e0
  <2>5. execs' \subseteq Exec /\ \A e \in execs' : e.k <= claims'[e.t] /\ e.w \in up
    BY <2>2, <2>3, <2>4
  <2>6. IsFiniteSet(execs')
    BY <2>2, FS_AddElement DEF IInv
  <2>7. ASSUME NEW v \in Workers
        PROVE  Cardinality({e \in execs' : e.w = v}) <= Permits[v]
    <3>. DEFINE old == {e \in execs : e.w = v}
    <3>1. IsFiniteSet(old) /\ Cardinality(old) \in Nat /\ Permits[v] \in Nat
      BY HowMany, OfWorker, CountsAssumption DEF IInv
    <3>2. Cardinality(old) <= Permits[v]
      BY DEF IInv, TypeOK
    <3>3. CASE v = w
      <4>. DEFINE new == {e \in execs' : e.w = v}
      <4>1. new = old \cup {e0}
        BY <2>2, <2>4, <3>3
      <4>2. Cardinality(old) < Permits[v]
        BY <3>3 DEF Claim, FreePermit
      <4>3. Cardinality(new) <= Permits[v]
        <5>. HIDE DEF old, new
        <5>1. Cardinality(old \cup {e0}) \in {Cardinality(old), Cardinality(old) + 1}
          BY <3>1, FS_AddElement
        <5>. QED  BY <3>1, <4>1, <4>2, <5>1
      <4>. QED  BY <4>3
    <3>4. CASE v # w
      <4>1. {e \in execs' : e.w = v} = old
        BY <2>2, <2>4, <3>4
      <4>. QED  BY <3>2, <4>1
    <3>. QED  BY <3>3, <3>4
  <2>8. UNCHANGED <<sweep, up, commands>>
    BY DEF Claim
  <2>. QED  BY <2>1, <2>5, <2>6, <2>7, <2>8 DEF RestKept, IInv, TypeOK
<1>. QED  BY <1>5, <1>6, Kept DEF Claim, IInv, TypeOK

LEMMA FinishStep ==
  ASSUME IInv, NEW e \in execs, Finish(e)
  PROVE  IInv'
<1>1. e \in Exec /\ e.t \in Tasks
  BY DEF IInv, TypeOK, Exec
<1>2. RestKept /\ sweep'.rows \subseteq sweep.rows
  BY FewerExecs DEF Finish, FinishSuccess, FinishFailure, FinishLost, Command, IInv, TypeOK
<1>3. CASE FinishSuccess(e)
  <2>1. CASE Has(e.t, {"gone"})
    BY <1>2, <1>3, <2>1, NoRow, Kept DEF FinishSuccess
  <2>2. CASE ~ Has(e.t, {"gone"})
    <3>. DEFINE r == Unclaimed(task[e.t], "completed")
    <3>1. r \in Row /\ r.status = "completed" /\ r.attempts = task[e.t].attempts
      BY <1>1, RowKnown, UnclaimedType DEF Statuses, Terminal
    <3>2. /\ task' = [task EXCEPT ![e.t] = r]
          /\ hold' = [hold EXCEPT ![e.t] = hold[e.t]] /\ wait' = [wait EXCEPT ![e.t] = wait[e.t]]
          /\ task[e.t].status # "gone"
      BY <1>3, <2>2 DEF FinishSuccess, Has, IInv, TypeOK
    <3>. HIDE DEF r
    <3>3. RowOK(e.t, r, hold[e.t], wait[e.t])
      BY <3>1 DEF RowOK
    <3>4. r.attempts >= task[e.t].attempts /\ hold[e.t] \in Nat /\ wait[e.t] \in Nat
      BY <1>1, <3>1, RowKnown
    <3>. QED  BY <1>1, <1>2, <3>1, <3>2, <3>3, <3>4, OneRow, Kept
  <2>. QED  BY <2>1, <2>2
<1>4. CASE FinishFailure(e)
  <2>. DEFINE b == BackoffOf[task[e.t].attempts + 1]
              r == AttemptSpent(e.t, b)
  <2>1. b \in Nat
    BY <1>1, <1>4, RowKnown, BackoffAssumption DEF FinishFailure
  <2>2. /\ task' = [task EXCEPT ![e.t] = r] /\ hold' = [hold EXCEPT ![e.t] = b]
        /\ wait' = [wait EXCEPT ![e.t] = wait[e.t]] /\ task[e.t].status # "gone"
    BY <1>4 DEF FinishFailure, Has, IInv, TypeOK
  <2>. HIDE DEF b
  <2>3. /\ r \in Row /\ r.attempts = task[e.t].attempts + 1 /\ r.due = b
        /\ r.status \in {"failed", "pending"}
        /\ r.status = "failed" => r.attempts >= MaxAttempts[e.t]
    BY <1>1, <2>1, AttemptSpentType DEF IInv
  <2>. HIDE DEF r
  <2>4. RowOK(e.t, r, b, wait[e.t])
    BY <2>1, <2>3 DEF RowOK
  <2>5. r.attempts >= task[e.t].attempts
    BY <1>1, <2>3, RowKnown
  <2>. QED  BY <1>1, <1>2, <2>1, <2>2, <2>3, <2>4, <2>5, OneRow, RowKnown, Kept
<1>5. CASE FinishLost(e)
  BY <1>2, <1>5, NoRow, Kept DEF FinishLost
<1>. QED  BY <1>3, <1>4, <1>5 DEF Finish

LEMMA ReapStep ==
  ASSUME IInv, Reap
  PROVE  IInv'
<1>1. ASSUME NEW u \in Tasks
      PROVE  /\ task'[u] \in Row /\ hold'[u] \in Nat /\ wait'[u] \in Nat
             /\ RowOK(u, task'[u], hold'[u], wait'[u])
             /\ task[u].status = "gone" => task'[u].status = "gone"
             /\ task'[u].attempts >= task[u].attempts
  <2>1. CASE Stale(u, StaleAfter)
    <3>1. task'[u] = AttemptSpent(u, 0) /\ hold'[u] = 0 /\ wait'[u] = wait[u]
      BY <2>1 DEF Reap
    <3>2. /\ task'[u] \in Row /\ task'[u].attempts = task[u].attempts + 1
          /\ task'[u].status \in {"failed", "pending"}
          /\ task'[u].status = "failed" => task'[u].attempts >= MaxAttempts[u]
      BY <3>1, AttemptSpentType DEF IInv
    <3>3. task[u].status # "gone"
      BY <2>1 DEF Stale, Has
    <3>4. wait[u] \in Nat /\ task[u].attempts \in Nat
      BY RowKnown
    <3>. QED  BY <3>1, <3>2, <3>3, <3>4 DEF RowOK
  <2>2. CASE ~ Stale(u, StaleAfter)
    <3>1. task'[u] = task[u] /\ wait'[u] = wait[u] /\ hold'[u] = hold[u]
      BY <2>2 DEF Reap
    <3>. QED  BY <3>1, RowKnown
  <2>. QED  BY <2>1, <2>2
<1>2. RowsKept
  <2>1. task' \in [Tasks -> Row] /\ wait' \in [Tasks -> Nat] /\ hold' \in [Tasks -> Nat]
    BY <1>1 DEF Reap, IInv, TypeOK
  <2>. QED  BY <1>1, <2>1 DEF RowsKept
<1>3. RestKept /\ sweep'.rows \subseteq sweep.rows
  BY FewerExecs DEF Reap, IInv, TypeOK
<1>. QED  BY <1>2, <1>3, Kept

\* The snapshot holds the current attempts.
LEMMA SweepReadStep ==
  ASSUME IInv, SweepRead
  PROVE  IInv'
<1>1. \A s \in sweep'.rows : \E u \in Tasks :
        s = [t |-> u, attempts |-> task[u].attempts, k |-> claims[u]]
  BY DEF SweepRead
<1>2. \A s \in sweep'.rows : s \in Stuck /\ s.attempts <= task[s.t].attempts
  BY <1>1, RowKnown DEF Stuck, IInv, TypeOK
<1>3. sweep' \in [on : BOOLEAN, rows : SUBSET Stuck]
  BY <1>2 DEF SweepRead
<1>4. TypeOK'
  BY <1>3 DEF SweepRead, IInv, TypeOK
<1>5. \A t \in Tasks : RowOK(t, task[t], hold[t], wait[t])
  BY DEF IInv
<1>. QED  BY <1>2, <1>4, <1>5 DEF IInv, SnapshotOK, SweepRead, RowOK

\* The sweeper writes failed only on attempts that are used up by now.
LEMMA SweepWriteStep ==
  ASSUME IInv, NEW s \in sweep.rows, SweepWrite(s)
  PROVE  IInv'
<1>1. s \in Stuck /\ s.t \in Tasks /\ s.attempts \in Nat
  BY DEF IInv, TypeOK, Stuck
<1>2. RestKept /\ sweep'.rows \subseteq sweep.rows
  BY DEF SweepWrite, RestKept, IInv, TypeOK
<1>3. CASE Has(s.t, {"gone"})
  BY <1>2, <1>3, NoRow, Kept DEF SweepWrite
<1>4. CASE ~ Has(s.t, {"gone"})
  <2>. DEFINE u == Unclaimed(task[s.t], SweptStatus(s))
              r == [u EXCEPT !.due = SweepDelay]
  <2>1. /\ SweptStatus(s) \in Statuses /\ SweptStatus(s) \in {"failed", "pending"}
        /\ SweptStatus(s) = "failed" => s.attempts >= MaxAttempts[s.t]
    BY DEF SweptStatus, Statuses, Terminal
  <2>2. s.attempts <= task[s.t].attempts
    BY <1>4 DEF IInv, SnapshotOK, Has
  <2>3. SweepDelay \in Nat /\ MaxAttempts[s.t] \in Int
    BY <1>1, TimesAssumption, CountsAssumption
  <2>4. task[s.t] \in Row /\ task[s.t].attempts \in Nat
    BY <1>1, RowKnown
  <2>5. u \in Row /\ u.status = SweptStatus(s) /\ u.attempts = task[s.t].attempts
    BY <2>1, <2>4, UnclaimedType
  <2>6. /\ task' = [task EXCEPT ![s.t] = r] /\ hold' = [hold EXCEPT ![s.t] = SweepDelay]
        /\ wait' = [wait EXCEPT ![s.t] = wait[s.t]] /\ task[s.t].status # "gone"
    BY <1>4 DEF SweepWrite, Has, IInv, TypeOK
  <2>. HIDE DEF u
  <2>7. /\ r \in Row /\ r.status = SweptStatus(s) /\ r.attempts = task[s.t].attempts
        /\ r.due = SweepDelay
    BY <2>3, <2>5, SetDue
  <2>. HIDE DEF r
  <2>8. RowOK(s.t, r, SweepDelay, wait[s.t])
    BY <1>1, <2>1, <2>2, <2>3, <2>4, <2>7 DEF RowOK
  <2>9. r.attempts >= task[s.t].attempts /\ wait[s.t] \in Nat
    BY <1>1, <2>4, <2>7, RowKnown
  <2>. QED  BY <1>1, <1>2, <2>3, <2>6, <2>7, <2>8, <2>9, OneRow, Kept
<1>. QED  BY <1>3, <1>4

LEMMA SweepWriteLostStep ==
  ASSUME IInv, NEW s \in sweep.rows, SweepWriteLost(s)
  PROVE  IInv'
<1>1. commands' = commands + 1 /\ UNCHANGED <<task, execs, up, claims, hold, wait>>
  BY DEF SweepWriteLost, Command
<1>2. sweep' \in [on : BOOLEAN, rows : SUBSET Stuck] /\ sweep'.rows \subseteq sweep.rows
  BY DEF SweepWriteLost, IInv, TypeOK
<1>3. RestKept
  BY <1>1, <1>2 DEF RestKept, IInv, TypeOK
<1>. QED  BY <1>1, <1>2, <1>3, NoRow, Kept

LEMMA DeleteRows ==
  ASSUME IInv, NEW ts, Delete(ts), UNCHANGED <<hold, wait>>
  PROVE  RowsKept
<1>1. ASSUME NEW u \in Tasks
      PROVE  /\ task'[u] \in Row
             /\ RowOK(u, task'[u], hold'[u], wait'[u])
             /\ task[u].status = "gone" => task'[u].status = "gone"
             /\ task'[u].status = "gone" \/ task'[u].attempts >= task[u].attempts
  <2>1. CASE u \in ts
    <3>1. task'[u] = [NewRow EXCEPT !.status = "gone"]
      BY <2>1 DEF Delete
    <3>2. task'[u] \in Row /\ task'[u].status = "gone"
      BY <3>1, NewRowType DEF Statuses
    <3>. QED  BY <3>2 DEF RowOK
  <2>2. CASE u \notin ts
    <3>1. task'[u] = task[u]
      BY <2>2 DEF Delete
    <3>. QED  BY <3>1, RowKnown
  <2>. QED  BY <2>1, <2>2
<1>2. task' \in [Tasks -> Row]
  BY <1>1 DEF Delete
<1>. QED  BY <1>1, <1>2 DEF RowsKept, IInv, TypeOK

LEMMA SweepEndStep ==
  ASSUME IInv, SweepPrune \/ SweepStop
  PROVE  IInv'
<1>1. /\ UNCHANGED <<execs, up, claims, hold, wait>> /\ sweep' = NoPass
      /\ commands' = commands \/ commands' = commands + 1
      /\ UNCHANGED task \/ \E t \in Tasks : Delete({t})
  BY DEF SweepPrune, SweepStop, Command
<1>2. sweep' \in [on : BOOLEAN, rows : SUBSET Stuck] /\ sweep'.rows \subseteq sweep.rows
  BY <1>1 DEF NoPass
<1>3. RestKept
  BY <1>1, <1>2 DEF RestKept, IInv, TypeOK
<1>4. CASE UNCHANGED task
  BY <1>1, <1>2, <1>3, <1>4, NoRow, Kept
<1>5. CASE \E t \in Tasks : Delete({t})
  BY <1>1, <1>2, <1>3, <1>5, DeleteRows, Kept
<1>. QED  BY <1>1, <1>4, <1>5

LEMMA OperatorStep ==
  ASSUME IInv, NEW t \in Tasks, Cancel(t) \/ ForceCancel(t) \/ Retry(t)
  PROVE  IInv'
<1>1. RestKept /\ sweep'.rows \subseteq sweep.rows
  <2>1. /\ UNCHANGED <<execs, sweep, up, claims>>
        /\ commands' = commands + 1
    BY DEF Cancel, ForceCancel, CancelFrom, Retry, Command
  <2>. QED  BY <2>1, FewerExecs DEF IInv, TypeOK
<1>2. task[t] \in Row /\ hold[t] \in Nat /\ wait[t] \in Nat /\ task[t].attempts \in Nat
  BY RowKnown
<1>3. CASE Cancel(t) \/ ForceCancel(t)
  <2>. DEFINE r == Unclaimed(task[t], "cancelled")
  <2>1. r \in Row /\ r.status = "cancelled" /\ r.attempts = task[t].attempts
    BY <1>2, UnclaimedType DEF Statuses, Terminal
  <2>2. /\ task' = [task EXCEPT ![t] = r] /\ task[t].status # "gone"
        /\ hold' = [hold EXCEPT ![t] = hold[t]] /\ wait' = [wait EXCEPT ![t] = wait[t]]
    BY <1>3 DEF Cancel, ForceCancel, CancelFrom, Has, IInv, TypeOK
  <2>. HIDE DEF r
  <2>3. RowOK(t, r, hold[t], wait[t]) /\ r.attempts >= task[t].attempts
    BY <1>2, <2>1 DEF RowOK
  <2>. QED  BY <1>1, <1>2, <2>1, <2>2, <2>3, OneRow, Kept
<1>4. CASE Retry(t)
  <2>. DEFINE u == Unclaimed(task[t], "pending")
              r == [u EXCEPT !.due = 0]
              h == 0
  <2>1. u \in Row /\ u.status = "pending" /\ u.attempts = task[t].attempts
    BY <1>2, UnclaimedType DEF Statuses
  <2>2. /\ task' = [task EXCEPT ![t] = r] /\ task[t].status # "gone"
        /\ hold' = [hold EXCEPT ![t] = h] /\ wait' = [wait EXCEPT ![t] = wait[t]]
    BY <1>4 DEF Retry, Has, IInv, TypeOK
  <2>. HIDE DEF u
  <2>3. r \in Row /\ r.status = "pending" /\ r.attempts = task[t].attempts /\ r.due = 0
    BY <2>1, SetDue
  <2>. HIDE DEF r
  <2>4. h \in Nat /\ RowOK(t, r, h, wait[t]) /\ r.attempts >= task[t].attempts
    BY <1>2, <2>3 DEF RowOK
  <2>. HIDE DEF h
  <2>. QED  BY <1>1, <1>2, <2>2, <2>3, <2>4, OneRow, Kept
<1>. QED  BY <1>3, <1>4

LEMMA PurgeStep ==
  ASSUME IInv, NEW status, NEW old, Purge(status, old)
  PROVE  IInv'
<1>1. /\ UNCHANGED <<execs, sweep, up, claims, hold, wait>>
      /\ commands' = commands + 1
      /\ Delete({t \in old : Has(t, {status})})
  BY DEF Purge, Command
<1>2. RestKept /\ sweep'.rows \subseteq sweep.rows
  BY <1>1, FewerExecs DEF IInv, TypeOK
<1>3. RowsKept
  BY <1>1, DeleteRows
<1>. QED  BY <1>2, <1>3, Kept

LEMMA WorkerLoopStep ==
  ASSUME IInv, NEW w \in Workers, Stop(w) \/ Start(w)
  PROVE  IInv'
<1>1. /\ execs' \subseteq execs /\ UNCHANGED <<task, sweep, claims, hold, wait>>
      /\ commands' = commands \/ commands' = commands + 1
      /\ up' \subseteq Workers /\ \A e \in execs' : e.w \in up => e.w \in up'
  BY DEF Stop, Start, Command, IInv, TypeOK
<1>2. RestKept /\ sweep'.rows \subseteq sweep.rows
  BY <1>1, FewerExecs DEF IInv
<1>. QED  BY <1>1, <1>2, NoRow, Kept

\* not_before and both histories move together.
LEMMA AdvanceStep ==
  ASSUME IInv, Advance
  PROVE  IInv'
<1>1. ASSUME NEW u \in Tasks
      PROVE  /\ task'[u] \in Row /\ hold'[u] \in Nat /\ wait'[u] \in Nat
             /\ RowOK(u, task'[u], hold'[u], wait'[u])
             /\ task[u].status = "gone" => task'[u].status = "gone"
             /\ task'[u].attempts >= task[u].attempts
  <2>1. /\ task'[u] = Later(task[u])
        /\ hold'[u] = Greatest(hold[u] - 1, 0) /\ wait'[u] = Least(wait[u] + 1, StealAfter)
    BY DEF Advance
  <2>2. /\ task[u] \in Row /\ hold[u] \in Nat /\ wait[u] \in Nat
        /\ task[u].due \in Int /\ task[u].attempts \in Nat
        /\ RowOK(u, task[u], hold[u], wait[u])
    BY RowKnown
  <2>3. /\ task'[u] \in Row /\ task'[u].status = task[u].status
        /\ task'[u].attempts = task[u].attempts
        /\ task'[u].due >= task[u].due - 1 /\ task'[u].due >= -StealAfter
    BY <2>1, <2>2, LaterType
  <2>4. task'[u].due \in Int
    BY <2>3 DEF Row
  <2>5. /\ hold'[u] \in Nat /\ (hold'[u] = 0 \/ hold'[u] = hold[u] - 1)
        /\ wait'[u] \in Nat /\ (wait'[u] = wait[u] + 1 \/ wait'[u] = StealAfter)
    BY <2>1, <2>2, TimesAssumption DEF Greatest, Least
  <2>. QED  BY <2>2, <2>3, <2>4, <2>5, TimesAssumption DEF RowOK
<1>2. RowsKept
  <2>1. task' \in [Tasks -> Row] /\ wait' \in [Tasks -> Nat] /\ hold' \in [Tasks -> Nat]
    BY <1>1 DEF Advance
  <2>. QED  BY <1>1, <2>1 DEF RowsKept
<1>3. RestKept
  <2>. DEFINE Older(e) == [e EXCEPT !.age = Least(@ + 1, Cap[e.t])]
  <2>1. execs' = {Older(e) : e \in execs} /\ UNCHANGED <<sweep, up, commands, claims>>
    BY DEF Advance
  <2>2. ASSUME NEW e \in execs
        PROVE  /\ Older(e) \in Exec /\ Older(e).w = e.w
               /\ Older(e).k <= claims[Older(e).t] /\ Older(e).w \in up
    <3>1. e \in Exec /\ e.k <= claims[e.t] /\ e.w \in up /\ Cap[e.t] \in Nat
      BY TimesAssumption DEF IInv, TypeOK, Exec
    <3>2. Least(e.age + 1, Cap[e.t]) \in Nat
      BY <3>1 DEF Exec, Least
    <3>. QED  BY <3>1, <3>2 DEF Exec
  <2>. HIDE DEF Older
  <2>3. ASSUME NEW S \in SUBSET execs
        PROVE  /\ IsFiniteSet({Older(e) : e \in S})
               /\ Cardinality({Older(e) : e \in S}) <= Cardinality(S)
    <3>1. [e \in S |-> Older(e)] \in Surjection(S, {Older(e) : e \in S})
      BY DEF Surjection
    <3>2. IsFiniteSet(S)
      BY FS_Subset DEF IInv
    <3>. QED  BY <3>1, <3>2, FS_Surjection
  <2>4. ASSUME NEW w \in Workers
        PROVE  Cardinality({e \in execs' : e.w = w}) <= Permits[w]
    <3>. DEFINE S == {e \in execs : e.w = w}
    <3>1. {e \in execs' : e.w = w} = {Older(e) : e \in S}
      BY <2>1, <2>2
    <3>2. /\ IsFiniteSet({Older(e) : e \in S})
          /\ Cardinality({Older(e) : e \in S}) <= Cardinality(S)
      <4>1. S \in SUBSET execs
        OBVIOUS
      <4>. HIDE DEF S
      <4>. QED  BY <2>3, <4>1
    <3>3. Cardinality(S) \in Nat /\ Permits[w] \in Nat /\ Cardinality(S) <= Permits[w]
      BY HowMany, CountsAssumption DEF IInv, TypeOK
    <3>4. Cardinality({Older(e) : e \in S}) \in Nat
      BY <3>2, FS_CardinalityType
    <3>. HIDE DEF S
    <3>. QED  BY <3>1, <3>2, <3>3, <3>4
  <2>5. IsFiniteSet(execs')
    BY <2>1, <2>3
  <2>6. execs' \subseteq Exec /\ \A e \in execs' : e.k <= claims'[e.t] /\ e.w \in up'
    BY <2>1, <2>2
  <2>. QED  BY <2>1, <2>4, <2>5, <2>6 DEF RestKept, IInv, TypeOK
<1>. QED  BY <1>2, <1>3, Kept DEF Advance

-----------------------------------------------------------------------------
\* The invariant is inductive.

LEMMA InitIInv == Init => IInv
<1>. SUFFICES ASSUME Init  PROVE IInv
  OBVIOUS
<1>1. NewRow \in Row /\ NewRow.status = "none" /\ NewRow.attempts = 0
  BY DEF NewRow, Row, Statuses, NotClaimed
<1>2. TypeOK /\ IsFiniteSet(execs)
  <2>1. execs = {} /\ IsFiniteSet(execs)
    BY FS_EmptySet DEF Init
  <2>2. ASSUME NEW w \in Workers
        PROVE  Cardinality({e \in execs : e.w = w}) <= Permits[w]
    <3>1. {e \in execs : e.w = w} = {} /\ Permits[w] \in Nat
      BY <2>1, CountsAssumption
    <3>. QED  BY <3>1, FS_EmptySet
  <2>. QED  BY <1>1, <2>1, <2>2 DEF Init, TypeOK, NoPass
<1>3. \A t \in Tasks : RowOK(t, task[t], hold[t], wait[t])
  BY <1>1 DEF Init, RowOK
<1>. QED  BY <1>2, <1>3 DEF IInv, Init, NoPass

LEMMA NextIInv == IInv /\ [Next]_vars => IInv'
<1>. SUFFICES ASSUME IInv, [Next]_vars  PROVE IInv'
  OBVIOUS
<1>1. CASE UNCHANGED vars
  <2>1. RestKept /\ sweep'.rows \subseteq sweep.rows
    BY <1>1 DEF vars, RestKept, IInv, TypeOK
  <2>. QED  BY <1>1, <2>1, NoRow, Kept DEF vars
<1>2. CASE \E t \in Tasks : Operator(t) \/ \E d \in Delays[t] : Enqueue(t, d)
  BY <1>2, PromoteStep, OperatorStep, EnqueueStep DEF Operator
<1>3. CASE \E online \in SUBSET Workers, stmts \in 1 .. 3 : SchedulerPass(online, stmts)
  BY <1>3, SchedulerPassStep
<1>4. CASE \E w \in Workers : Worker(w)
  BY <1>4, WorkerLoopStep, ClaimStep DEF Worker
<1>5. CASE \E e \in execs : Finish(e)
  BY <1>5, FinishStep
<1>6. CASE Reap
  BY <1>6, ReapStep
<1>7. CASE Sweeper
  BY <1>7, SweepReadStep, SweepWriteStep, SweepWriteLostStep, SweepEndStep DEF Sweeper
<1>8. CASE \E status \in Terminal, old \in SUBSET Tasks : Purge(status, old)
  BY <1>8, PurgeStep
<1>9. CASE Advance
  BY <1>9, AdvanceStep
<1>. QED
  BY <1>1, <1>2, <1>3, <1>4, <1>5, <1>6, <1>7, <1>8, <1>9 DEF Next

LEMMA IInvAlways == Spec => []IInv
BY InitIInv, NextIInv, PTL DEF Spec
-----------------------------------------------------------------------------
\* Only a claim starts an execution.
LEMMA NewClaimIsClaim ==
  ASSUME IInv, [Next]_vars, NEW e \in NewClaims
  PROVE  \E w \in Workers, t \in Tasks :
           Claim(w, t) /\ e.t = t /\ e.w = w
<1>1. e \in execs' /\ e.k > claims[e.t]
  BY DEF NewClaims
<1>2. \A f \in execs : f \in Exec /\ ~ (f.k > claims[f.t])
  BY DEF IInv, TypeOK, Exec
<1>3. CASE execs' \subseteq execs
  BY <1>1, <1>2, <1>3
<1>4. CASE Advance
  <2>1. PICK f \in execs : e = [f EXCEPT !.age = Least(@ + 1, Cap[f.t])]
    BY <1>1, <1>4 DEF Advance
  <2>2. e.k = f.k /\ e.t = f.t
    BY <1>2, <2>1 DEF Exec
  <2>. QED  BY <1>1, <1>2, <2>2
<1>5. CASE \E w \in Workers, t \in Tasks : Claim(w, t)
  <2>1. PICK w \in Workers, t \in Tasks : Claim(w, t)
    BY <1>5
  <2>2. e \in execs \/ e = [t |-> t, k |-> claims[t] + 1, w |-> w, age |-> 0]
    BY <1>1, <2>1 DEF Claim
  <2>3. e.t = t /\ e.w = w
    BY <1>1, <1>2, <2>2
  <2>. QED  BY <2>1, <2>3
<1>. QED
  BY <1>3, <1>4, <1>5
     DEF Next, vars, Operator, Promote, Cancel, ForceCancel, CancelFrom, Retry, Enqueue,
         SchedulerPass, Worker, Stop, Start, Finish, FinishSuccess, FinishFailure, FinishLost,
         Reap, Sweeper, SweepRead, SweepWrite, SweepWriteLost, SweepPrune, SweepStop, Purge

LEMMA ClaimAfterWait ==
  IInv /\ [Next]_vars =>
    \A e \in NewClaims : PreferredNode[e.t] \in {None, e.w} \/ wait[e.t] >= StealAfter
<1>. SUFFICES ASSUME IInv, [Next]_vars, NEW e \in NewClaims
              PROVE  PreferredNode[e.t] \in {None, e.w} \/ wait[e.t] >= StealAfter
  OBVIOUS
<1>1. PICK w \in Workers, t \in Tasks : Claim(w, t) /\ e.t = t /\ e.w = w
  BY NewClaimIsClaim
<1>2. /\ task[t].status = "dispatchable"
      /\ PreferredNode[t] \in {None, w} \/ task[t].due <= -StealAfter
  BY <1>1 DEF Claim, Claimable, Has
<1>3. task[t].due >= -wait[t] /\ task[t].due \in Int /\ wait[t] \in Nat
  BY <1>2, RowKnown DEF RowOK
<1>. QED  BY <1>1, <1>2, <1>3, TimesAssumption

LEMMA ClaimAfterHold ==
  IInv /\ [Next]_vars => \A e \in NewClaims : Trigger[e.t] = "at_time" \/ hold[e.t] = 0
<1>. SUFFICES ASSUME IInv, [Next]_vars, NEW e \in NewClaims
              PROVE  Trigger[e.t] = "at_time" \/ hold[e.t] = 0
  OBVIOUS
<1>1. PICK w \in Workers, t \in Tasks : Claim(w, t) /\ e.t = t /\ e.w = w
  BY NewClaimIsClaim
<1>2. task[t].status = "dispatchable" /\ task[t].due <= 0
  BY <1>1 DEF Claim, Claimable, Has
<1>3. /\ Trigger[t] # "at_time" => hold[t] = 0 \/ hold[t] <= task[t].due
      /\ task[t].due \in Int /\ hold[t] \in Nat
  BY <1>2, RowKnown DEF RowOK
<1>. QED  BY <1>1, <1>2, <1>3

-----------------------------------------------------------------------------
\* Type correctness of the queue.
THEOREM QueueTypeCorrect == Spec => []TypeOK
BY IInvAlways, PTL DEF IInv

\* A task is failed only once its attempts are used up, with any number of
\* workers, recovery passes and operator commands interleaved.
THEOREM FailedMeansExhaustedAlways == Spec => []FailedMeansExhausted
<1>1. IInv => FailedMeansExhausted
  BY DEF IInv, RowOK, FailedMeansExhausted, Has
<1>. QED  BY <1>1, IInvAlways, PTL

\* Another node's task is taken only after it was dispatchable for StealAfter.
THEOREM StealWaitsAlways == Spec => StealWaits
BY IInvAlways, ClaimAfterWait, PTL DEF Spec, StealWaits

\* A promised delay or backoff is over when the task is claimed.
THEOREM HoldHonouredAlways == Spec => HoldHonoured
BY IInvAlways, ClaimAfterHold, PTL DEF Spec, HoldHonoured

-----------------------------------------------------------------------------
\* Why no loop takes a short task from the worker that executes it.

\* An execution is as old as the claim of its row, while that claim stands.
AgeInv ==
  /\ \A e, f \in execs : e.t = f.t /\ e.k = f.k => e = f
  /\ \A e \in execs : Short(e.t) /\ e.k = claims[e.t] /\ task[e.t].status = "running" =>
       task[e.t].age = e.age
  /\ \A e \in execs : Short(e.t) => e.age <= Cap[e.t]

\* What the sweeper has read was stale, so the claim it was read under is not
\* one that a short task still executes.
SnapInv ==
  \A s \in sweep.rows :
    /\ s.k <= claims[s.t]
    /\ \A e \in execs : Short(e.t) /\ e.t = s.t => e.k # s.k

\* A step that starts neither an execution nor a pass nor a claim.
LEMMA QuietStep ==
  ASSUME AgeInv, SnapInv, execs' \subseteq execs, sweep'.rows \subseteq sweep.rows,
         claims' = claims,
         \A e \in execs : task'[e.t].status = "running" =>
           task[e.t].status = "running" /\ task'[e.t].age = task[e.t].age
  PROVE  AgeInv' /\ SnapInv'
<1>1. AgeInv'
  BY DEF AgeInv, Short
<1>2. SnapInv'
  BY DEF SnapInv, Short
<1>. QED  BY <1>1, <1>2

\* The rows of the statements that end a claim or write a row nobody claimed.
LEMMA NotRunning ==
  ASSUME TypeOK, NEW t \in Tasks, NEW x \in Statuses, NEW n \in Int
  PROVE  /\ Unclaimed(task[t], x).status = x
         /\ AttemptSpent(t, n).status # "running"
         /\ [Unclaimed(task[t], x) EXCEPT !.due = n].status = x
<1>1. task[t] \in Row
  BY DEF TypeOK
<1>. QED  BY <1>1, UnclaimedType, AttemptSpentType, SetDue

LEMMA CommandQuiet ==
  ASSUME TypeOK, AgeInv, SnapInv, NEW t \in Tasks,
         Operator(t) \/ \E delay \in Delays[t] : Enqueue(t, delay)
  PROVE  AgeInv' /\ SnapInv'
<1>1. UNCHANGED <<execs, sweep, claims>>
  BY DEF Operator, Promote, Cancel, ForceCancel, CancelFrom, Retry, Enqueue
<1>2. \A u \in Tasks : u # t => task'[u] = task[u]
  BY DEF Operator, Promote, Cancel, ForceCancel, CancelFrom, Retry, Enqueue, TypeOK
<1>3. task'[t].status # "running"
  <2>1. task[t] \in Row /\ NewRow \in Row
    BY NewRowType DEF TypeOK, Statuses
  <2>2. CASE Promote(t)
    <3>1. task'[t] = Dispatchable(task[t], 0)
      BY <2>2 DEF Promote, TypeOK
    <3>. QED  BY <2>1, <3>1, DispatchableType
  <2>3. CASE Cancel(t) \/ ForceCancel(t)
    <3>1. task'[t] = Unclaimed(task[t], "cancelled")
      BY <2>3 DEF Cancel, ForceCancel, CancelFrom, TypeOK
    <3>. QED  BY <3>1, NotRunning DEF Statuses, Terminal
  <2>4. CASE Retry(t)
    <3>1. task'[t] = [Unclaimed(task[t], "pending") EXCEPT !.due = 0]
      BY <2>4 DEF Retry, TypeOK
    <3>. QED  BY <3>1, NotRunning DEF Statuses
  <2>5. CASE \E delay \in Delays[t] : Enqueue(t, delay)
    <3>1. PICK delay \in Delays[t] :
            task'[t] = [NewRow EXCEPT !.status = "pending", !.due = delay, !.at = At[t]]
      BY <2>5 DEF Enqueue, TypeOK
    <3>. QED  BY <3>1 DEF NewRow
  <2>. QED  BY <2>2, <2>3, <2>4, <2>5 DEF Operator
<1>. QED  BY <1>1, <1>2, <1>3, QuietStep DEF TypeOK, Exec

LEMMA SchedulerPassQuiet ==
  ASSUME TypeOK, AgeInv, SnapInv, NEW online, NEW stmts, SchedulerPass(online, stmts)
  PROVE  AgeInv' /\ SnapInv'
<1>1. ASSUME NEW t \in Tasks
      PROVE  task'[t] = task[t] \/ task'[t].status # "running"
  <2>1. task'[t] = task[t] \/ task'[t] = Dispatchable(task[t], NewDue(t))
    BY DEF SchedulerPass
  <2>2. task[t] \in Row /\ NewDue(t) \in Int
    BY DEF TypeOK, Row, NewDue, Greatest
  <2>. QED  BY <2>1, <2>2, DispatchableType
<1>. QED  BY <1>1, QuietStep DEF SchedulerPass, TypeOK, Exec

LEMMA DeleteQuiet ==
  ASSUME TypeOK, AgeInv, SnapInv, NEW ts, Delete(ts),
         UNCHANGED <<execs, claims>>, sweep'.rows \subseteq sweep.rows
  PROVE  AgeInv' /\ SnapInv'
<1>1. \A t \in Tasks : task'[t] = task[t] \/ task'[t].status # "running"
  BY DEF Delete, NewRow
<1>. QED  BY <1>1, QuietStep DEF TypeOK, Exec

\* The new execution has a claim number of its own.
LEMMA ClaimAges ==
  ASSUME TypeOK, AgeInv, SnapInv, NEW w \in Workers, NEW t \in Tasks, Claim(w, t)
  PROVE  AgeInv' /\ SnapInv'
<1>. DEFINE n == [t |-> t, k |-> claims[t] + 1, w |-> w, age |-> 0]
<1>1. /\ execs' = execs \cup {n} /\ sweep' = sweep
      /\ n.t = t /\ n.k = claims[t] + 1 /\ n.age = 0
  BY DEF Claim
<1>2. /\ task'[t].age = 0
      /\ \A u \in Tasks : u # t => task'[u] = task[u]
  BY DEF Claim, TypeOK, Row
<1>3. /\ claims[t] \in Nat /\ claims'[t] = claims[t] + 1
      /\ \A u \in Tasks : claims[u] \in Nat /\ (u # t => claims'[u] = claims[u])
  BY DEF Claim, TypeOK
<1>4. \A e \in execs : e.t \in Tasks /\ e.k \in Nat /\ e.k <= claims[e.t]
  BY DEF TypeOK, Exec
<1>5. \A s \in sweep.rows : s.t \in Tasks /\ s.k \in Nat /\ s.k <= claims[s.t]
  BY DEF SnapInv, TypeOK, Stuck
<1>6. Cap[t] \in Nat
  BY TimesAssumption
<1>. HIDE DEF n
<1>7. \A e, f \in execs' : e.t = f.t /\ e.k = f.k => e = f
  BY <1>1, <1>3, <1>4 DEF AgeInv
<1>8. ASSUME NEW e \in execs', Short(e.t), e.k = claims'[e.t], task'[e.t].status = "running"
      PROVE  task'[e.t].age = e.age
  <2>1. CASE e = n
    BY <1>1, <1>2, <2>1
  <2>2. CASE e \in execs /\ e.t # t
    BY <1>2, <1>3, <1>4, <1>8, <2>2 DEF AgeInv
  <2>3. CASE e \in execs /\ e.t = t
    BY <1>3, <1>4, <1>8, <2>3
  <2>. QED  BY <1>1, <2>1, <2>2, <2>3
<1>9. \A e \in execs' : Short(e.t) => e.age <= Cap[e.t]
  BY <1>1, <1>6 DEF AgeInv
<1>10. SnapInv'
  BY <1>1, <1>3, <1>4, <1>5 DEF SnapInv, Short
<1>. QED  BY <1>7, <1>8, <1>9, <1>10 DEF AgeInv, Short

LEMMA FinishQuiet ==
  ASSUME TypeOK, AgeInv, SnapInv, NEW e \in execs, Finish(e)
  PROVE  AgeInv' /\ SnapInv'
<1>1. execs' = execs \ {e} /\ sweep' = sweep /\ claims' = claims
  BY DEF Finish, FinishSuccess, FinishFailure, FinishLost
<1>2. e.t \in Tasks
  BY DEF TypeOK, Exec
<1>3. \A u \in Tasks : u # e.t => task'[u] = task[u]
  BY DEF Finish, FinishSuccess, FinishFailure, FinishLost, TypeOK
<1>4. task'[e.t] = task[e.t] \/ task'[e.t].status # "running"
  <2>1. CASE FinishSuccess(e)
    <3>1. task'[e.t] = task[e.t] \/ task'[e.t] = Unclaimed(task[e.t], "completed")
      BY <1>2, <2>1 DEF FinishSuccess, TypeOK
    <3>. QED  BY <1>2, <3>1, NotRunning DEF Statuses, Terminal
  <2>2. CASE FinishFailure(e)
    <3>1. task'[e.t] = AttemptSpent(e.t, BackoffOf[task[e.t].attempts + 1])
      BY <1>2, <2>2 DEF FinishFailure, TypeOK
    <3>2. BackoffOf[task[e.t].attempts + 1] \in Int
      BY <1>2, <2>2, BackoffAssumption DEF FinishFailure, TypeOK, Row
    <3>. QED  BY <1>2, <3>1, <3>2, NotRunning DEF Statuses
  <2>3. CASE FinishLost(e)
    BY <2>3 DEF FinishLost
  <2>. QED  BY <2>1, <2>2, <2>3 DEF Finish
<1>. QED  BY <1>1, <1>3, <1>4, QuietStep DEF TypeOK, Exec

LEMMA ReapQuiet ==
  ASSUME TypeOK, AgeInv, SnapInv, Reap
  PROVE  AgeInv' /\ SnapInv'
<1>1. ASSUME NEW t \in Tasks
      PROVE  task'[t] = task[t] \/ task'[t].status # "running"
  <2>1. task'[t] = task[t] \/ task'[t] = AttemptSpent(t, 0)
    BY DEF Reap
  <2>. QED  BY <2>1, NotRunning DEF Statuses
<1>. QED  BY <1>1, QuietStep DEF Reap, TypeOK, Exec

\* Whatever executes a stale row under its latest claim is not short.
LEMMA StaleIdle ==
  ASSUME TypeOK, AgeInv, NEW t \in Tasks, NEW after \in {StaleAfter, SweepAfter},
         Stale(t, after), NEW e \in execs, e.t = t, Short(t)
  PROVE  e.k # claims[t]
<1>. SUFFICES ASSUME e.k = claims[t] PROVE FALSE
  OBVIOUS
<1>1. task[t].age = e.age /\ e.age <= Cap[t] /\ e.age \in Nat
  BY DEF AgeInv, TypeOK, Exec, Stale, Has
<1>2. Cap[t] \in Nat /\ after \in Nat /\ Cap[t] <= after
  BY TimesAssumption DEF Short
<1>. QED  BY <1>1, <1>2 DEF Stale

LEMMA SweepReadSnap ==
  ASSUME TypeOK, AgeInv, SnapInv, SweepRead
  PROVE  AgeInv' /\ SnapInv'
<1>1. UNCHANGED <<task, execs, claims>>
  BY DEF SweepRead
<1>2. \A s \in sweep'.rows : \E u \in Tasks :
        Stale(u, SweepAfter) /\ s = [t |-> u, attempts |-> task[u].attempts, k |-> claims[u]]
  BY DEF SweepRead
<1>3. ASSUME NEW s \in sweep'.rows
      PROVE  /\ s.k <= claims[s.t]
             /\ \A e \in execs : Short(e.t) /\ e.t = s.t => e.k # s.k
  <2>1. PICK u \in Tasks :
          Stale(u, SweepAfter) /\ s = [t |-> u, attempts |-> task[u].attempts, k |-> claims[u]]
    BY <1>2
  <2>2. s.t = u /\ s.k = claims[u] /\ claims[u] \in Nat
    BY <2>1 DEF TypeOK
  <2>. QED  BY <2>1, <2>2, StaleIdle
<1>4. AgeInv'
  BY <1>1 DEF AgeInv, Short
<1>5. SnapInv'
  BY <1>1, <1>3 DEF SnapInv, Short
<1>. QED  BY <1>4, <1>5

LEMMA SweepWriteQuiet ==
  ASSUME TypeOK, AgeInv, SnapInv, NEW s \in sweep.rows, SweepWrite(s) \/ SweepWriteLost(s)
  PROVE  AgeInv' /\ SnapInv'
<1>1. UNCHANGED <<execs, claims>> /\ sweep'.rows \subseteq sweep.rows
  BY DEF SweepWrite, SweepWriteLost, TypeOK
<1>2. s.t \in Tasks
  BY DEF TypeOK, Stuck
<1>3. \A u \in Tasks : u # s.t => task'[u] = task[u]
  BY DEF SweepWrite, SweepWriteLost, TypeOK
<1>4. task'[s.t] = task[s.t] \/ task'[s.t].status # "running"
  <2>1. \/ task'[s.t] = task[s.t]
        \/ task'[s.t] = [Unclaimed(task[s.t], SweptStatus(s)) EXCEPT !.due = SweepDelay]
    BY <1>2 DEF SweepWrite, SweepWriteLost, TypeOK
  <2>2. SweptStatus(s) \in Statuses /\ SweptStatus(s) # "running" /\ SweepDelay \in Int
    BY TimesAssumption DEF SweptStatus, Statuses, Terminal
  <2>. DEFINE q == [Unclaimed(task[s.t], SweptStatus(s)) EXCEPT !.due = SweepDelay]
  <2>3. q.status = SweptStatus(s)
    BY <1>2, <2>2, NotRunning
  <2>4. task'[s.t] = task[s.t] \/ task'[s.t] = q
    BY <2>1
  <2>. HIDE DEF q
  <2>. QED  BY <2>2, <2>3, <2>4
<1>. QED  BY <1>1, <1>3, <1>4, QuietStep DEF TypeOK, Exec

\* Row and execution grow old together.
LEMMA AdvanceAges ==
  ASSUME TypeOK, AgeInv, SnapInv, Advance
  PROVE  AgeInv' /\ SnapInv'
<1>. DEFINE Older(e) == [e EXCEPT !.age = Least(@ + 1, Cap[e.t])]
<1>1. \A f \in execs' : \E e \in execs : f = Older(e)
  BY DEF Advance
<1>2. ASSUME NEW e \in execs
      PROVE  /\ Older(e).t = e.t /\ Older(e).k = e.k /\ Older(e).w = e.w
             /\ Older(e).age = Least(e.age + 1, Cap[e.t])
  BY DEF TypeOK, Exec
<1>. HIDE DEF Older
<1>3. \A t \in Tasks : task'[t] = Later(task[t]) /\ task[t] \in Row
  BY DEF Advance, TypeOK
<1>4. \A t \in Tasks : task'[t].status = task[t].status
  BY <1>3, LaterType
<1>5. UNCHANGED <<sweep, claims>>
  BY DEF Advance
<1>6. ASSUME NEW e \in execs, Short(e.t)
      PROVE  /\ Least(e.age + 1, Cap[e.t]) = e.age + 1 /\ e.age + 1 <= Cap[e.t]
             /\ e.k = claims[e.t] /\ task[e.t].status = "running" => task'[e.t].age = e.age + 1
  <2>1. e.t \in Tasks /\ e.age \in Nat /\ e.age < Cap[e.t]
    BY <1>6 DEF TypeOK, Exec, Advance, Short
  <2>2. /\ Cap[e.t] \in Nat /\ StaleAfter \in Nat /\ SweepAfter \in Nat
        /\ Cap[e.t] <= StaleAfter
    BY <1>6, <2>1, TimesAssumption DEF Short
  <2>3. ASSUME e.k = claims[e.t], task[e.t].status = "running"
        PROVE  task'[e.t].age = e.age + 1
    <3>1. task[e.t].age = e.age
      BY <1>6, <2>3 DEF AgeInv
    <3>2. task'[e.t].age = IF e.age = NotClaimed THEN e.age
                           ELSE Least(e.age + 1, Greatest(StaleAfter, SweepAfter) + 1)
      BY <1>3, <2>1, <3>1, LaterType
    <3>. QED  BY <2>1, <2>2, <3>2 DEF Least, Greatest, NotClaimed
  <2>. QED  BY <2>1, <2>2, <2>3 DEF Least
<1>7. AgeInv'
  <2>1. ASSUME NEW f \in execs', NEW g \in execs', f.t = g.t, f.k = g.k PROVE f = g
    <3>1. PICK e \in execs : f = Older(e)
      BY <1>1
    <3>2. PICK d \in execs : g = Older(d)
      BY <1>1
    <3>3. e = d
      BY <1>2, <2>1, <3>1, <3>2 DEF AgeInv
    <3>. QED  BY <3>1, <3>2, <3>3
  <2>2. ASSUME NEW f \in execs', Short(f.t)
        PROVE  /\ f.age <= Cap[f.t]
               /\ f.k = claims[f.t] /\ task'[f.t].status = "running" => task'[f.t].age = f.age
    <3>1. PICK e \in execs : f = Older(e)
      BY <1>1
    <3>2. f.t = e.t /\ f.k = e.k /\ f.age = Least(e.age + 1, Cap[e.t]) /\ e.t \in Tasks
      BY <1>2, <3>1 DEF TypeOK, Exec
    <3>. QED  BY <1>4, <1>6, <2>2, <3>2
  <2>. QED  BY <1>5, <2>1, <2>2 DEF AgeInv, Short
<1>8. SnapInv'
  <2>1. \A f \in execs' : \E e \in execs : f.t = e.t /\ f.k = e.k
    BY <1>1, <1>2
  <2>. QED  BY <1>5, <2>1 DEF SnapInv, Short
<1>. QED  BY <1>7, <1>8

LEMMA NextAges ==
  ASSUME TypeOK, AgeInv, SnapInv, [Next]_vars
  PROVE  AgeInv' /\ SnapInv'
<1>1. CASE UNCHANGED vars
  BY <1>1, QuietStep DEF vars
<1>2. CASE \E t \in Tasks : Operator(t) \/ \E delay \in Delays[t] : Enqueue(t, delay)
  BY <1>2, CommandQuiet
<1>3. CASE \E online \in SUBSET Workers, stmts \in 1 .. 3 : SchedulerPass(online, stmts)
  BY <1>3, SchedulerPassQuiet
<1>4. CASE \E w \in Workers : Worker(w)
  <2>1. ASSUME NEW w \in Workers, Stop(w) \/ Start(w) PROVE AgeInv' /\ SnapInv'
    BY <2>1, QuietStep DEF Stop, Start
  <2>. QED  BY <1>4, <2>1, ClaimAges DEF Worker
<1>5. CASE \E e \in execs : Finish(e)
  BY <1>5, FinishQuiet
<1>6. CASE Reap
  BY <1>6, ReapQuiet
<1>7. CASE Sweeper
  <2>1. CASE SweepPrune \/ SweepStop
    <3>1. UNCHANGED <<execs, claims>> /\ sweep'.rows \subseteq sweep.rows
      BY <2>1 DEF SweepPrune, SweepStop, NoPass
    <3>2. CASE UNCHANGED task
      BY <3>1, <3>2, QuietStep
    <3>3. CASE \E t \in Tasks : Delete({t})
      BY <3>1, <3>3, DeleteQuiet
    <3>. QED  BY <2>1, <3>2, <3>3 DEF SweepPrune, SweepStop
  <2>. QED  BY <1>7, <2>1, SweepReadSnap, SweepWriteQuiet DEF Sweeper
<1>8. CASE \E status \in Terminal, old \in SUBSET Tasks : Purge(status, old)
  BY <1>8, DeleteQuiet DEF Purge
<1>9. CASE Advance
  BY <1>9, AdvanceAges
<1>. QED
  BY <1>1, <1>2, <1>3, <1>4, <1>5, <1>6, <1>7, <1>8, <1>9 DEF Next

\* What may take the row of e away from it.
Cause(e) ==
  \/ task'[e.t].status = "running"
  \/ commands' = commands + 1 /\ task'[e.t].status = "cancelled"
  \/ \E s \in sweep.rows \ sweep'.rows : s.t = e.t /\ s.k < e.k
  \/ \E f \in execs \ execs' : f.t = e.t /\ f.k < e.k

\* One case per statement that writes a running row.
LEMMA TakenBackStep ==
  ASSUME TypeOK, AgeInv, SnapInv, [Next]_vars, NEW e \in execs,
         Short(e.t), e.k = claims[e.t], Has(e.t, {"running"}), GoesOn(e)
  PROVE  Cause(e)
<1>1. e.t \in Tasks /\ e.k \in Nat /\ task[e.t].status = "running"
  BY DEF TypeOK, Exec, Has
<1>2. CASE task'[e.t] = task[e.t]
  BY <1>1, <1>2 DEF Cause
<1>3. CASE \E t \in Tasks : Operator(t) \/ \E delay \in Delays[t] : Enqueue(t, delay)
  <2>1. PICK t \in Tasks : Operator(t) \/ \E delay \in Delays[t] : Enqueue(t, delay)
    BY <1>3
  <2>2. CASE t # e.t
    <3>1. task'[e.t] = task[e.t]
      BY <1>1, <2>1, <2>2
         DEF Operator, Promote, Cancel, ForceCancel, CancelFrom, Retry, Enqueue, TypeOK
    <3>. QED  BY <1>2, <3>1
  <2>3. CASE t = e.t
    <3>1. ForceCancel(e.t)
      BY <1>1, <2>1, <2>3 DEF Operator, Promote, Cancel, CancelFrom, Retry, Enqueue, Has
    <3>2. task'[e.t] = Unclaimed(task[e.t], "cancelled") /\ commands' = commands + 1
      BY <1>1, <3>1 DEF ForceCancel, CancelFrom, Command, TypeOK
    <3>3. task'[e.t].status = "cancelled"
      BY <1>1, <3>2, NotRunning DEF Statuses, Terminal
    <3>. QED  BY <3>2, <3>3 DEF Cause
  <2>. QED  BY <2>2, <2>3
<1>4. CASE \E online \in SUBSET Workers, stmts \in 1 .. 3 : SchedulerPass(online, stmts)
  BY <1>1, <1>2, <1>4 DEF SchedulerPass, Fires, Has
<1>5. CASE \E w \in Workers : Worker(w)
  BY <1>1, <1>2, <1>5 DEF Worker, Stop, Start, Claim, Claimable, Has, TypeOK
<1>6. CASE \E f \in execs : Finish(f)
  <2>1. PICK f \in execs : Finish(f)
    BY <1>6
  <2>2. execs' = execs \ {f} /\ \A u \in Tasks : u # f.t => task'[u] = task[u]
    BY <2>1 DEF Finish, FinishSuccess, FinishFailure, FinishLost, TypeOK
  <2>3. f # e
    BY <2>2 DEF GoesOn, AgeInv
  <2>4. CASE f.t = e.t
    <3>1. f.k # e.k /\ f.k \in Nat /\ f.k <= e.k
      BY <2>3, <2>4 DEF AgeInv, TypeOK, Exec
    <3>. QED  BY <1>1, <2>2, <2>4, <3>1 DEF Cause
  <2>5. CASE f.t # e.t
    BY <1>1, <1>2, <2>2, <2>5
  <2>. QED  BY <2>4, <2>5
<1>7. CASE Reap
  <2>1. ~ Stale(e.t, StaleAfter)
    BY <1>1, StaleIdle
  <2>. QED  BY <1>1, <1>2, <1>7, <2>1 DEF Reap
<1>8. CASE \E s \in sweep.rows : SweepWrite(s)
  <2>1. PICK s \in sweep.rows : SweepWrite(s)
    BY <1>8
  <2>2. CASE s.t # e.t
    <3>1. task'[e.t] = task[e.t]
      BY <1>1, <2>1, <2>2 DEF SweepWrite, TypeOK
    <3>. QED  BY <1>2, <3>1
  <2>3. CASE s.t = e.t
    <3>1. s.k \in Nat /\ s.k <= e.k /\ s.k # e.k
      BY <2>3 DEF SnapInv, TypeOK, Stuck
    <3>2. s \in sweep.rows \ sweep'.rows
      BY <2>1 DEF SweepWrite, TypeOK
    <3>. QED  BY <1>1, <2>3, <3>1, <3>2 DEF Cause
  <2>. QED  BY <2>2, <2>3
<1>9. CASE SweepRead \/ SweepPrune \/ SweepStop \/ \E s \in sweep.rows : SweepWriteLost(s)
  BY <1>1, <1>2, <1>9
     DEF SweepRead, SweepPrune, SweepStop, SweepWriteLost, Delete, Has, Terminal
<1>10. CASE \E status \in Terminal, old \in SUBSET Tasks : Purge(status, old)
  <2>1. PICK status \in Terminal, old \in SUBSET Tasks :
          Delete({t \in old : Has(t, {status})})
    BY <1>10 DEF Purge
  <2>2. ~ Has(e.t, {status})
    BY <1>1 DEF Has, Terminal
  <2>. QED  BY <1>1, <1>2, <2>1, <2>2 DEF Delete
<1>11. CASE Advance
  <2>1. task'[e.t] = Later(task[e.t]) /\ task[e.t] \in Row
    BY <1>1, <1>11 DEF Advance, TypeOK
  <2>. QED  BY <1>1, <2>1, LaterType DEF Cause
<1>12. CASE UNCHANGED vars
  BY <1>2, <1>12 DEF vars
<1>. QED
  BY <1>3, <1>4, <1>5, <1>6, <1>7, <1>8, <1>9, <1>10, <1>11, <1>12 DEF Next, Sweeper

\* With both recovery loops, crashes, lost statements and every command: the row
\* of a short task leaves its latest execution only for the named causes.
THEOREM TakenBackForCauseAlways == Spec => TakenBackForCause
<1>1. Init => AgeInv /\ SnapInv
  BY DEF Init, AgeInv, SnapInv, NoPass
<1>2. TypeOK /\ AgeInv /\ SnapInv /\ [Next]_vars => AgeInv' /\ SnapInv'
  BY NextAges
<1>3. TypeOK /\ AgeInv /\ SnapInv /\ [Next]_vars =>
        \A e \in execs :
          Short(e.t) /\ e.k = claims[e.t] /\ Has(e.t, {"running"}) /\ GoesOn(e) => Cause(e)
  BY TakenBackStep
<1>. QED
  BY <1>1, <1>2, <1>3, QueueTypeCorrect, PTL DEF Spec, TakenBackForCause, Cause
=============================================================================
