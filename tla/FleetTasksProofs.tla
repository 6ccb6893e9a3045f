-------------------------- MODULE FleetTasksProofs --------------------------
(***************************************************************************)
(* Theorems about the fleet's task runner for any tasks, computers, waves  *)
(* and limits: types, the bound on claims, whose results count, handoffs   *)
(* for cause, honest roll-ups, and that the runner implements TaskQueue.   *)
(***************************************************************************)
EXTENDS FleetTasks, TLAPS

\* A claim statement holds a pending row whose dependency is completed, no two
\* statements hold the same row, and a runner that claims executes nothing.
LockInv ==
  /\ \A w \in Computers : pick[w] # None =>
       status[pick[w]] = "pending" /\ DependencyMet(pick[w]) /\ doing[w] = None
  /\ \A w, v \in Computers : pick[w] # None /\ pick[w] = pick[v] => w = v

\* A row was claimed once more than it was handed off while it runs, and as
\* often while it waits.
CountInv ==
  \A t \in Tasks :
    /\ status[t] \in {"none", "pending"} => claims[t] = handoffs[t]
    /\ status[t] = "running" => claims[t] = handoffs[t] + 1

\* A runner that claims or executes has iterations left; the reaper holds no
\* row that a runner could claim.
LoopInv ==
  /\ \A w \in Computers : pick[w] # None \/ doing[w] # None => ticks[w] < MAX_ITERATIONS
  /\ reaping \cap Runnable = {}

\* What the heartbeats tell: a runner that was told its task is lost does not
\* hold it; one that owes no heartbeat holds a fresh row or one that has ended;
\* one that missed none holds a row at most as old as the beat it owes.
BeatInv ==
  /\ due \cap lost = {}
  /\ \A w \in due \cup lost : doing[w] # None
  /\ \A w \in lost : ~ Holds(w, doing[w])
  /\ \A w \in Computers : doing[w] # None /\ w \notin due \cup lost =>
       /\ claimer[doing[w]] = w /\ status[doing[w]] \notin {"none", "pending"}
       /\ status[doing[w]] = "running" => age[doing[w]] = 0
  /\ \A w \in Computers : doing[w] # None /\ Holds(w, doing[w]) /\ w \notin missed =>
       age[doing[w]] <= IF w \in due THEN 1 ELSE 0

\* A parent that the reaper read or rolled up has only children that ended,
\* and a verdict that they justify.
RollInv ==
  \A p \in Tasks \ Runnable :
    /\ p \in reaping \/ status[p] = "completed" =>
         status[p] # "none" /\ \A c \in Children(p) : status[c] \in Terminal
    /\ status[p] = "completed" =>
         /\ \A c \in Children(p) : status[c] # "failed"
         /\ \E c \in Children(p) : status[c] = "completed"

Inv == TypeOK /\ LockInv /\ CountInv /\ LoopInv /\ BeatInv /\ RollInv

Statuses == Open \cup Terminal \cup {"none"}

-----------------------------------------------------------------------------
\* What leaves the parts of the invariant alone.

\* Parents are no runnable rows, dependencies are; None is no row.
LEMMA Rows ==
  /\ Runnable \subseteq Tasks /\ None \notin Tasks
  /\ \A t \in Tasks : Parent[t] # None => t \in Runnable /\ Parent[t] \in Tasks \ Runnable
  /\ \A t \in Tasks : DependsOn[t] # None => DependsOn[t] \in Runnable
BY RowsAssumption, FamiliesAssumption DEF Runnable

\* A step keeps the locks that changes no locked and no completed row.
LEMMA LockKept ==
  ASSUME Inv,
         \A t \in Tasks : status'[t] # status[t] =>
           ~ Locked(t) /\ ~ (t \in Runnable /\ status[t] = "completed"),
         \A w \in Computers : pick'[w] \in {pick[w], None} /\ doing'[w] \in {doing[w], None}
  PROVE  LockInv'
<1>1. ASSUME NEW w \in Computers, pick'[w] # None
      PROVE  /\ pick'[w] = pick[w] /\ status'[pick[w]] = "pending"
             /\ DependencyMet(pick[w])' /\ doing'[w] = None
  <2>1. pick'[w] = pick[w] /\ pick[w] \in Tasks /\ pick[w] # None
    BY <1>1, Rows DEF Inv, TypeOK
  <2>2. status[pick[w]] = "pending" /\ DependencyMet(pick[w]) /\ doing[w] = None
    BY <2>1 DEF Inv, LockInv
  <2>3. status'[pick[w]] = "pending"
    BY <2>1, <2>2 DEF Locked
  <2>4. DependencyMet(pick[w])'
    BY <2>1, <2>2, Rows DEF DependencyMet
  <2> QED
    BY <2>1, <2>2, <2>3, <2>4
<1> QED
  BY <1>1 DEF LockInv, Inv, DependencyMet

\* A step keeps the counts that claims nothing and hands nothing off.
LEMMA CountKept ==
  ASSUME Inv, claims' = claims, handoffs' = handoffs,
         \A t \in Tasks : status'[t] = status[t] \/ status'[t] \in Terminal
                          \/ (status[t] = "none" /\ status'[t] = "pending")
  PROVE  CountInv'
BY DEF Inv, CountInv, Terminal

\* A step keeps what heartbeats tell in which nobody claims, beats or sweeps.
LEMMA BeatKept ==
  ASSUME Inv, claimer' = claimer, age' = age,
         \A t \in Runnable : status'[t] = status[t] \/ status'[t] \in Terminal
                             \/ (status[t] = "none" /\ status'[t] = "pending"),
         \A w \in Computers :
           \/ doing'[w] = None /\ w \notin due' \cup lost'
           \/ /\ doing'[w] = doing[w]
              /\ (w \in due' <=> w \in due) /\ (w \in lost' <=> w \in lost)
              /\ (w \in missed' <=> w \in missed),
         due' \subseteq due, lost' \subseteq lost
  PROVE  BeatInv'
<1>1. due' \cap lost' = {}
  BY DEF Inv, BeatInv
<1>2. ASSUME NEW w \in Computers, doing'[w] # None
      PROVE  /\ doing'[w] = doing[w] /\ doing[w] \in Runnable
             /\ (w \in due' <=> w \in due) /\ (w \in lost' <=> w \in lost)
             /\ (w \in missed' <=> w \in missed)
             /\ Holds(w, doing[w])' => Holds(w, doing[w])
  BY <1>2 DEF Inv, TypeOK, Holds, Terminal
<1>3. \A w \in due' \cup lost' : w \in Computers /\ doing'[w] # None
  BY DEF Inv, TypeOK, BeatInv
<1>4. \A w \in lost' : ~ Holds(w, doing[w])'
  BY <1>2, <1>3 DEF Inv, BeatInv
<1>5. ASSUME NEW w \in Computers, doing'[w] # None, w \notin due' \cup lost'
      PROVE  /\ claimer'[doing'[w]] = w /\ status'[doing'[w]] \notin {"none", "pending"}
             /\ status'[doing'[w]] = "running" => age'[doing'[w]] = 0
  BY <1>2, <1>5 DEF Inv, BeatInv, Terminal
<1>6. ASSUME NEW w \in Computers, doing'[w] # None, Holds(w, doing[w])', w \notin missed'
      PROVE  age'[doing'[w]] <= IF w \in due' THEN 1 ELSE 0
  BY <1>2, <1>6 DEF Inv, BeatInv
<1> QED
  BY <1>1, <1>3, <1>4, <1>5, <1>6 DEF BeatInv

\* A step keeps the roll-ups that inserts no row, reads and writes no parent
\* and changes no row that has ended.
LEMMA RollKept ==
  ASSUME Inv, reaping' \subseteq reaping,
         \A t \in Tasks : status'[t] = "none" <=> status[t] = "none",
         \A c \in Runnable : status[c] \in Terminal => status'[c] = status[c],
         \A p \in Tasks \ Runnable : status'[p] = "completed" => status[p] = "completed"
  PROVE  RollInv'
<1> SUFFICES ASSUME NEW p \in Tasks \ Runnable, p \in reaping' \/ status'[p] = "completed"
             PROVE  /\ status'[p] # "none" /\ \A c \in Children(p)' : status'[c] \in Terminal
                    /\ status'[p] = "completed" =>
                         /\ \A c \in Children(p)' : status'[c] # "failed"
                         /\ \E c \in Children(p)' : status'[c] = "completed"
  BY DEF RollInv
<1>1. Children(p)' = Children(p)
  BY DEF Children
<1>2. \A c \in Children(p) : c \in Runnable
  BY Rows DEF Children
<1>3. \A c \in Children(p) : status[c] \in Terminal /\ status'[c] = status[c]
  BY <1>2 DEF Inv, RollInv
<1> QED
  BY <1>1, <1>3 DEF Inv, RollInv

-----------------------------------------------------------------------------

\* Every state of Init satisfies the invariant.
LEMMA InitInv == Init => Inv
<1> SUFFICES ASSUME Init PROVE Inv
  OBVIOUS
<1> USE RowsAssumption, LimitsAssumption
<1>1. TypeOK
  BY DEF Init, TypeOK, Open, Terminal
<1>2. LockInv /\ CountInv /\ LoopInv
  BY DEF Init, LockInv, CountInv, LoopInv
<1>3. BeatInv /\ RollInv
  BY DEF Init, BeatInv, RollInv
<1> QED
  BY <1>1, <1>2, <1>3 DEF Inv

\* Inserting rows: they were not there, so nobody holds them, and the parents
\* that are there get no more children.
LEMMA EnqueueInv == ASSUME NEW B \in Batches, Inv, Enqueue(B) PROVE Inv'
<1> USE DEF Enqueue, rowVars, runVars, envVars
<1>1. status' \in [Tasks -> Statuses]
  BY DEF Inv, TypeOK, Put, Open, Terminal, Statuses
<1>2. \A t \in Tasks : /\ t \in B => status[t] = "none" /\ status'[t] = "pending"
                       /\ t \notin B => status'[t] = status[t]
  BY DEF Put
<1>3. TypeOK'
  BY <1>1 DEF Inv, TypeOK, Statuses
<1>4. LockInv'
  <2>1. \A t \in Tasks : status[t] = "none" => ~ Locked(t)
    BY Rows DEF Inv, LockInv, Locked
  <2> QED
    BY <1>2, <2>1, LockKept
<1>9. \A t \in Tasks : status'[t] = status[t] \/ status'[t] \in Terminal
                         \/ (status[t] = "none" /\ status'[t] = "pending")
  BY <1>2
<1>5. CountInv'
  <2>1. claims' = claims /\ handoffs' = handoffs
    OBVIOUS
  <2> QED
    BY ONLY Inv, <1>9, <2>1, CountKept
<1>6. LoopInv'
  BY DEF Inv, LoopInv
<1>7. BeatInv'
  <2>1. UNCHANGED <<claimer, age, doing, due, lost, missed>>
    OBVIOUS
  <2>2. \A t \in Runnable : status'[t] = status[t] \/ status'[t] \in Terminal
                             \/ (status[t] = "none" /\ status'[t] = "pending")
    BY <1>9, Rows
  <2> QED
    BY ONLY Inv, <2>1, <2>2, BeatKept
<1>8. RollInv'
  <2> SUFFICES ASSUME NEW p \in Tasks \ Runnable, p \in reaping' \/ status'[p] = "completed"
               PROVE  /\ status'[p] # "none" /\ \A c \in Children(p)' : status'[c] \in Terminal
                      /\ status'[p] = "completed" =>
                           /\ \A c \in Children(p)' : status'[c] # "failed"
                           /\ \E c \in Children(p)' : status'[c] = "completed"
    BY DEF RollInv
  <2>1. (p \in reaping \/ status[p] = "completed") /\ status[p] # "none" /\ p \notin B
    BY <1>2 DEF Inv, RollInv
  <2>2. \A c \in Tasks : Parent[c] = p => c \notin B
    BY <2>1, Rows, FamiliesAssumption
  <2>3. Children(p)' = Children(p) /\ \A c \in Children(p) : c \in Tasks /\ status'[c] = status[c]
    BY <1>2, <2>2 DEF Children
  <2> QED
    BY <1>2, <2>1, <2>3 DEF Inv, RollInv
<1> QED
  BY <1>3, <1>4, <1>5, <1>6, <1>7, <1>8 DEF Inv

\* A step that leaves the rows, the heartbeats and the reaper alone, and in
\* which no claim begins, keeps all but the types.
LEMMA RowsKept ==
  ASSUME Inv, UNCHANGED rowVars, reaping' \subseteq reaping,
         \A w \in Computers : pick'[w] \in {pick[w], None},
         \A w \in Computers :
           \/ doing'[w] = None /\ w \notin due' \cup lost'
           \/ /\ doing'[w] = doing[w] /\ ticks'[w] = ticks[w]
              /\ (w \in due' <=> w \in due) /\ (w \in lost' <=> w \in lost)
              /\ (w \in missed' <=> w \in missed),
         \A w \in Computers : pick'[w] # None => ticks'[w] = ticks[w],
         due' \subseteq due, lost' \subseteq lost
  PROVE  LockInv' /\ CountInv' /\ LoopInv' /\ BeatInv' /\ RollInv'
<1>1. status' = status /\ claimer' = claimer /\ age' = age /\ handoffs' = handoffs
      /\ claims' = claims
  BY DEF rowVars
<1>2. LockInv'
  <2>1. \A w \in Computers : pick'[w] \in {pick[w], None} /\ doing'[w] \in {doing[w], None}
    OBVIOUS
  <2>2. \A t \in Tasks : status'[t] = status[t]
    BY <1>1
  <2> QED
    BY ONLY Inv, <2>1, <2>2, LockKept
<1>3. CountInv'
  BY <1>1, CountKept
<1>4. LoopInv'
  BY <1>1 DEF Inv, LoopInv
<1>5. BeatInv'
  <2>1. \A t \in Runnable : status'[t] = status[t]
    BY <1>1
  <2>2. \A w \in Computers :
           \/ doing'[w] = None /\ w \notin due' \cup lost'
           \/ /\ doing'[w] = doing[w]
              /\ (w \in due' <=> w \in due) /\ (w \in lost' <=> w \in lost)
              /\ (w \in missed' <=> w \in missed)
    OBVIOUS
  <2> QED
    BY <1>1, <2>1, <2>2, BeatKept
<1>6. RollInv'
  BY <1>1, RollKept
<1> QED
  BY <1>2, <1>3, <1>4, <1>5, <1>6

\* A claim's subquery locks a pending row that nobody else holds and whose
\* dependency is met.
LEMMA PickInv ==
  ASSUME NEW w \in Computers, NEW t \in Tasks, Inv, Pick(w, t) PROVE Inv'
<1> USE DEF Pick
<1>1. status[t] = "pending" /\ Kind[t] # "compound" /\ t \in Runnable /\ t # None
  BY RowsAssumption DEF ShellClaimable, ReviewClaimable, Admits, Runnable
<1>2. DependencyMet(t)
  BY RowsAssumption DEF ShellClaimable, ReviewClaimable, DependencyMet
<1>3. doing[w] = None /\ ticks[w] < MAX_ITERATIONS
  BY DEF Idle
<1>4. UNCHANGED <<status, claimer, age, handoffs, claims, doing, due, lost, missed, ticks,
                  reaping, up, cut, events>>
  BY DEF rowVars, envVars
<1>5. /\ pick' \in [Computers -> Runnable \cup {None}] /\ pick'[w] = t
      /\ \A v \in Computers \ {w} : pick'[v] = pick[v] /\ pick[v] # t
  BY <1>1 DEF Inv, TypeOK, Locked
<1>6. TypeOK'
  BY <1>4, <1>5 DEF Inv, TypeOK
<1>7. LockInv'
  <2>1. ASSUME NEW v \in Computers, pick'[v] # None
        PROVE  status[pick'[v]] = "pending" /\ DependencyMet(pick'[v]) /\ doing[v] = None
    BY <1>1, <1>2, <1>3, <1>5, <2>1 DEF Inv, LockInv
  <2>2. \A v, u \in Computers : pick'[v] # None /\ pick'[v] = pick'[u] => v = u
    BY <1>5 DEF Inv, LockInv
  <2> QED
    BY <1>4, <2>1, <2>2 DEF LockInv, DependencyMet
<1>8. LoopInv'
  BY <1>3, <1>4, <1>5 DEF Inv, LoopInv
<1>9. CountInv' /\ BeatInv' /\ RollInv'
  BY <1>4 DEF Inv, CountInv, BeatInv, RollInv, Holds, Children
<1> QED
  BY <1>6, <1>7, <1>8, <1>9 DEF Inv

\* The claim commits: the row gets an owner and a fresh heartbeat.
LEMMA ClaimInv ==
  ASSUME NEW w \in Computers, NEW t \in Tasks, Inv, Claim(w, t) PROVE Inv'
<1> USE DEF Claim
<1>1. t # None /\ t \in Runnable /\ pick[w] = t
  BY Rows DEF Inv, TypeOK
<1>2. /\ status[t] = "pending" /\ doing[w] = None /\ w \notin lost
      /\ \A v \in Computers \ {w} : pick[v] # t
  BY <1>1 DEF Inv, LockInv, BeatInv
<1>3. UNCHANGED <<handoffs, due, lost, missed, ticks, reaping, up, cut, events>>
  BY DEF envVars
<1>4. /\ status' \in [Tasks -> Statuses] /\ status'[t] = "running"
      /\ \A s \in Tasks \ {t} : status'[s] = status[s]
  BY DEF Inv, TypeOK, Put, Statuses, Open
<1>5. /\ claimer' \in [Tasks -> Computers \cup {None}] /\ claimer'[t] = w
      /\ \A s \in Tasks \ {t} : claimer'[s] = claimer[s]
  BY DEF Inv, TypeOK
<1>6. /\ age' \in [Tasks -> 0 .. STUCK_AFTER + 1] /\ age'[t] = 0
      /\ \A s \in Tasks \ {t} : age'[s] = age[s]
  BY LimitsAssumption DEF Inv, TypeOK
<1>7. /\ claims' \in [Tasks -> 0 .. MAX_HANDOFFS + 1] /\ claims'[t] = handoffs[t] + 1
      /\ \A s \in Tasks \ {t} : claims'[s] = claims[s]
  BY <1>2, LimitsAssumption DEF Inv, TypeOK, CountInv
<1>8. /\ pick' \in [Computers -> Runnable \cup {None}] /\ pick'[w] = None
      /\ \A v \in Computers \ {w} : pick'[v] = pick[v]
  BY DEF Inv, TypeOK
<1>9. /\ doing' \in [Computers -> Runnable \cup {None}] /\ doing'[w] = t
      /\ \A v \in Computers \ {w} : doing'[v] = doing[v]
  BY <1>1 DEF Inv, TypeOK
<1> HIDE DEF Claim
<1>10. TypeOK'
  BY <1>3, <1>4, <1>5, <1>6, <1>7, <1>8, <1>9 DEF Inv, TypeOK, Statuses
<1>11. LockInv'
  <2>1. ASSUME NEW v \in Computers, pick'[v] # None
        PROVE  /\ v # w /\ pick'[v] = pick[v]
               /\ status'[pick'[v]] = "pending" /\ DependencyMet(pick[v])' /\ doing'[v] = None
    <3>1. v # w /\ pick'[v] = pick[v] /\ pick[v] \in Tasks \ {t} /\ pick[v] # None
      BY <1>2, <1>8, <2>1, Rows DEF Inv, TypeOK
    <3>2. status'[pick[v]] = "pending" /\ doing'[v] = None
      BY <1>4, <1>9, <3>1 DEF Inv, LockInv
    <3>3. DependencyMet(pick[v])'
      BY <1>2, <1>4, <3>1, Rows DEF Inv, LockInv, DependencyMet
    <3> QED
      BY <3>1, <3>2, <3>3
  <2> QED
    BY <2>1 DEF LockInv, Inv, DependencyMet
<1>12. CountInv'
  BY <1>3, <1>4, <1>7 DEF Inv, CountInv
<1>13. LoopInv'
  BY <1>1, <1>3, <1>8, <1>9 DEF Inv, LoopInv
<1>14. BeatInv'
  <2>1. ASSUME NEW v \in Computers, doing'[v] # None, v # w
        PROVE  /\ doing'[v] = doing[v] /\ doing[v] \in Tasks
               /\ doing[v] = t => claimer'[t] # v
               /\ doing[v] # t => /\ status'[doing[v]] = status[doing[v]]
                                  /\ claimer'[doing[v]] = claimer[doing[v]]
                                  /\ age'[doing[v]] = age[doing[v]]
    BY <1>4, <1>5, <1>6, <1>9, <2>1, Rows DEF Inv, TypeOK
  <2>5. \A v \in due' \cup lost' : doing'[v] # None
    BY <1>1, <1>3, <1>9 DEF Inv, BeatInv, TypeOK
  <2>2. \A v \in lost' : ~ Holds(v, doing[v])'
    BY <1>2, <1>3, <1>9, <2>1, <2>5 DEF Inv, BeatInv, Holds, TypeOK
  <2>3. ASSUME NEW v \in Computers, doing'[v] # None, v \notin due' \cup lost'
        PROVE  /\ claimer'[doing'[v]] = v /\ status'[doing'[v]] \notin {"none", "pending"}
               /\ status'[doing'[v]] = "running" => age'[doing'[v]] = 0
    BY <1>2, <1>3, <1>4, <1>5, <1>6, <1>9, <2>1, <2>3 DEF Inv, BeatInv
  <2>4. ASSUME NEW v \in Computers, doing'[v] # None, Holds(v, doing[v])', v \notin missed'
        PROVE  age'[doing'[v]] <= IF v \in due' THEN 1 ELSE 0
    BY <1>2, <1>3, <1>4, <1>5, <1>6, <1>9, <2>1, <2>4 DEF Inv, BeatInv, Holds
  <2> QED
    BY <1>3, <2>2, <2>3, <2>4, <2>5 DEF Inv, BeatInv
<1>15. RollInv'
  <2>1. \A s \in Tasks : status'[s] = "none" <=> status[s] = "none"
    BY <1>2, <1>4
  <2>2. \A c \in Runnable : status[c] \in Terminal => status'[c] = status[c]
    BY <1>2, <1>4, Rows DEF Terminal
  <2>3. \A p \in Tasks \ Runnable : status'[p] = "completed" => status[p] = "completed"
    BY <1>1, <1>4
  <2> QED
    BY <1>3, <2>1, <2>2, <2>3, RollKept
<1> QED
  BY <1>10, <1>11, <1>12, <1>13, <1>14, <1>15 DEF Inv

\* A runner that executes claims nothing, and one that does nothing was told
\* nothing.
LEMMA OneThing ==
  ASSUME Inv, NEW w \in Computers
  PROVE  /\ doing[w] # None => pick[w] = None
         /\ doing[w] = None => w \notin due \cup lost
BY DEF Inv, LockInv, BeatInv

\* A tick that claims nothing.
LEMMA IdleTickInv == ASSUME NEW w \in Computers, Inv, IdleTick(w) PROVE Inv'
<1> USE DEF IdleTick
<1>1. UNCHANGED <<rowVars, pick, doing, due, lost, missed, reaping, up, cut, events>>
  BY DEF envVars
<1>2. doing[w] = None /\ pick[w] = None /\ ticks[w] < MAX_ITERATIONS
  BY DEF Idle
<1>3. /\ ticks' \in [Computers -> 0 .. MAX_ITERATIONS]
      /\ \A v \in Computers \ {w} : ticks'[v] = ticks[v]
  BY <1>2, LimitsAssumption DEF Inv, TypeOK
<1>4. TypeOK'
  BY <1>1, <1>3 DEF Inv, TypeOK, rowVars
<1>5. LockInv' /\ CountInv' /\ LoopInv' /\ BeatInv' /\ RollInv'
  <2> HIDE DEF IdleTick
  <2> QED
    BY <1>1, <1>2, <1>3, OneThing, RowsKept
<1> QED
  BY <1>4, <1>5 DEF Inv

\* A runner that leaves its task has nothing to beat for.
LEMMA LeaveFacts ==
  ASSUME NEW w \in Computers, Inv, doing[w] # None, Leave(w)
  PROVE  /\ pick' = pick /\ pick[w] = None
         /\ doing' \in [Computers -> Runnable \cup {None}] /\ doing'[w] = None
         /\ \A v \in Computers \ {w} : doing'[v] = doing[v] /\ ticks'[v] = ticks[v]
         /\ ticks' \in [Computers -> 0 .. MAX_ITERATIONS]
         /\ due' = due \ {w} /\ lost' = lost \ {w} /\ missed' = missed \ {w}
<1>1. ticks[w] < MAX_ITERATIONS
  BY DEF Inv, LoopInv
<1> QED
  BY <1>1, OneThing, LimitsAssumption DEF Leave, Inv, TypeOK

\* A result that could not be stored.
LEMMA FinishUnstoredInv == ASSUME NEW w \in Computers, Inv, FinishUnstored(w) PROVE Inv'
<1>1. UNCHANGED <<rowVars, reaping, up, cut, events>> /\ doing[w] # None /\ Leave(w)
  BY DEF FinishUnstored, envVars
<1>2. /\ pick' = pick /\ pick[w] = None
      /\ doing' \in [Computers -> Runnable \cup {None}] /\ doing'[w] = None
      /\ \A v \in Computers \ {w} : doing'[v] = doing[v] /\ ticks'[v] = ticks[v]
      /\ ticks' \in [Computers -> 0 .. MAX_ITERATIONS]
      /\ due' = due \ {w} /\ lost' = lost \ {w} /\ missed' = missed \ {w}
  BY <1>1, LeaveFacts
<1>3. TypeOK'
  BY <1>1, <1>2 DEF Inv, TypeOK, rowVars
<1>4. LockInv' /\ CountInv' /\ LoopInv' /\ BeatInv' /\ RollInv'
  BY <1>1, <1>2, RowsKept
<1> QED
  BY <1>3, <1>4 DEF Inv

\* A result that is stored, or discarded: only a running row changes.
LEMMA FinishInv ==
  ASSUME NEW w \in Computers, NEW outcome \in {"completed", "failed"}, Inv, Finish(w, outcome)
  PROVE  Inv'
<1>1. /\ UNCHANGED <<claimer, age, handoffs, claims, reaping, up, cut, events>>
      /\ doing[w] # None /\ Leave(w)
  BY DEF Finish, envVars
<1>2. /\ pick' = pick /\ pick[w] = None
      /\ doing' \in [Computers -> Runnable \cup {None}] /\ doing'[w] = None
      /\ \A v \in Computers \ {w} : doing'[v] = doing[v] /\ ticks'[v] = ticks[v]
      /\ ticks' \in [Computers -> 0 .. MAX_ITERATIONS]
      /\ due' = due \ {w} /\ lost' = lost \ {w} /\ missed' = missed \ {w}
  BY <1>1, LeaveFacts
<1>3. status' \in [Tasks -> Statuses]
  BY DEF Finish, Put, Inv, TypeOK, Statuses, Terminal
<1>4. \A t \in Tasks : status'[t] # status[t] =>
        t \in Runnable /\ status[t] = "running" /\ status'[t] = outcome
  BY <1>1 DEF Finish, Put, Inv, TypeOK
<1>5. TypeOK'
  BY <1>1, <1>2, <1>3 DEF Inv, TypeOK, Statuses
<1>6. LockInv'
  <2>1. \A t \in Tasks : status[t] = "running" => ~ Locked(t)
    BY Rows DEF Inv, LockInv, Locked
  <2>2. \A t \in Tasks : status'[t] # status[t] =>
          ~ Locked(t) /\ ~ (t \in Runnable /\ status[t] = "completed")
    BY <1>4, <2>1
  <2> QED
    BY <1>2, <2>2, LockKept
<1>7. \A t \in Tasks : status'[t] = status[t] \/ status'[t] \in Terminal
  BY <1>4 DEF Terminal
<1>8. CountInv'
  BY <1>1, <1>7, CountKept
<1>9. LoopInv'
  BY <1>1, <1>2 DEF Inv, LoopInv
<1>10. BeatInv'
  <2>1. \A t \in Runnable : status'[t] = status[t] \/ status'[t] \in Terminal
    BY <1>7, Rows
  <2> QED
    BY <1>1, <1>2, <2>1, BeatKept
<1>11. RollInv'
  <2>1. \A t \in Tasks : status'[t] = "none" <=> status[t] = "none"
    BY <1>4
  <2>2. \A c \in Runnable : status[c] \in Terminal => status'[c] = status[c]
    BY <1>4, Rows DEF Terminal
  <2>3. \A p \in Tasks \ Runnable : status'[p] = "completed" => status[p] = "completed"
    BY <1>4
  <2> QED
    BY <1>1, <2>1, <2>2, <2>3, RollKept
<1> QED
  BY <1>5, <1>6, <1>8, <1>9, <1>10, <1>11 DEF Inv

\* The leader stops in the middle of a pass.
LEMMA ReapStopInv == ASSUME Inv, ReapStop PROVE Inv'
<1>1. UNCHANGED <<rowVars, pick, doing, due, lost, missed, ticks, up, cut>> /\ reaping' = {}
  BY DEF ReapStop, runVars
<1>2. events' \in 0 .. MaxEvents
  <2>1. events < MaxEvents /\ events' = events + 1
    BY Zenon DEF ReapStop, Event
  <2> QED
    BY <2>1, LimitsAssumption DEF Inv, TypeOK
<1>3. TypeOK'
  BY <1>1, <1>2 DEF Inv, TypeOK, rowVars
<1>4. LockInv' /\ CountInv' /\ LoopInv' /\ BeatInv' /\ RollInv'
  <2>1. reaping' \subseteq reaping
    BY <1>1
  <2> QED
    BY <1>1, <2>1, RowsKept
<1> QED
  BY <1>3, <1>4 DEF Inv

\* A daemon that ends takes its claim and its heartbeats along.
LEMMA HaltedInv ==
  ASSUME NEW w \in Computers, Inv, Halted(w), UNCHANGED <<rowVars, reaping, cut>>,
         up' \subseteq Computers, events' \in 0 .. MaxEvents
  PROVE  Inv'
<1>1. /\ pick' \in [Computers -> Runnable \cup {None}] /\ pick'[w] = None
      /\ doing' \in [Computers -> Runnable \cup {None}] /\ doing'[w] = None
      /\ ticks' \in [Computers -> 0 .. MAX_ITERATIONS]
      /\ \A v \in Computers \ {w} : pick'[v] = pick[v] /\ doing'[v] = doing[v] /\ ticks'[v] = ticks[v]
      /\ due' = due \ {w} /\ lost' = lost \ {w} /\ missed' = missed \ {w}
  BY LimitsAssumption DEF Halted, Inv, TypeOK
<1>2. TypeOK'
  BY <1>1 DEF Inv, TypeOK, rowVars
<1>3. LockInv' /\ CountInv' /\ LoopInv' /\ BeatInv' /\ RollInv'
  BY <1>1, RowsKept
<1> QED
  BY <1>2, <1>3 DEF Inv

\* Stops, starts, restarts, and Postgres out of reach and back.
LEMMA FaultInv ==
  ASSUME NEW w \in Computers, Inv,
         \/ Stop(w) \/ Start(w) \/ Cut(w) \/ Heal(w)
         \/ \E x \in Computers : RestartTarget(w, x)
  PROVE  Inv'
<1>1. CASE Stop(w)
  <2>1. events' \in 0 .. MaxEvents /\ up' \subseteq Computers
    BY <1>1, LimitsAssumption DEF Stop, Event, Inv, TypeOK
  <2> QED
    BY <1>1, <2>1, HaltedInv DEF Stop
<1>2. CASE \E x \in Computers : RestartTarget(w, x)
  <2>1. PICK x \in Computers : RestartTarget(w, x)
    BY <1>2
  <2>2. events' \in 0 .. MaxEvents /\ up' \subseteq Computers
    BY <2>1 DEF RestartTarget, Inv, TypeOK
  <2> QED
    BY <2>1, <2>2, HaltedInv DEF RestartTarget
<1>3. CASE Start(w) \/ Heal(w)
  <2>1. /\ UNCHANGED <<rowVars, pick, doing, due, lost, missed, ticks, reaping, events>>
        /\ up' \subseteq Computers /\ cut' \subseteq Computers
    BY <1>3 DEF Start, Heal, runVars, Inv, TypeOK
  <2>2. TypeOK'
    BY <2>1 DEF Inv, TypeOK, rowVars
  <2>3. LockInv' /\ CountInv' /\ LoopInv' /\ BeatInv' /\ RollInv'
    BY <2>1, RowsKept
  <2> QED
    BY <2>2, <2>3 DEF Inv
<1>4. CASE Cut(w)
  <2>1. /\ UNCHANGED <<rowVars, doing, due, lost, missed, ticks, reaping, up>>
        /\ cut' \subseteq Computers /\ events' \in 0 .. MaxEvents
        /\ pick' \in [Computers -> Runnable \cup {None}]
        /\ \A v \in Computers : pick'[v] \in {pick[v], None}
    BY <1>4, LimitsAssumption DEF Cut, Event, Inv, TypeOK
  <2>2. TypeOK'
    BY <2>1 DEF Inv, TypeOK, rowVars
  <2>3. LockInv' /\ CountInv' /\ LoopInv' /\ BeatInv' /\ RollInv'
    BY <2>1, RowsKept
  <2> QED
    BY <2>2, <2>3 DEF Inv
<1> QED
  BY <1>1, <1>2, <1>3, <1>4

\* A heartbeat that reached Postgres refreshes the row or tells the runner that
\* the row is no longer its own.
LEMMA HeartbeatInv == ASSUME NEW w \in Computers, Inv, Heartbeat(w) PROVE Inv'
<1>1. /\ UNCHANGED <<status, claimer, handoffs, claims, pick, doing, ticks, reaping, up, cut, events>>
      /\ w \in due /\ due' = due \ {w} /\ missed' = missed \ {w}
  BY DEF Heartbeat, envVars
<1>2. \/ Holds(w, doing[w]) /\ age' = [age EXCEPT ![doing[w]] = 0] /\ lost' = lost
      \/ ~ Holds(w, doing[w]) /\ lost' = lost \cup {w} /\ age' = age
  BY DEF Heartbeat
<1>3. age' \in [Tasks -> 0 .. STUCK_AFTER + 1] /\ \A t \in Tasks : age'[t] \in {0, age[t]}
  BY <1>2, LimitsAssumption DEF Inv, TypeOK
<1>4. TypeOK'
  BY <1>1, <1>2, <1>3 DEF Inv, TypeOK
<1>5. LockInv' /\ CountInv' /\ LoopInv' /\ RollInv'
  BY <1>1 DEF Inv, LockInv, CountInv, LoopInv, RollInv, DependencyMet, Children
<1>6. doing[w] # None => doing[w] \in Tasks
  BY Rows DEF Inv, TypeOK
<1>7. \A v \in Computers : doing[v] # None => doing[v] \in Tasks
  BY Rows DEF Inv, TypeOK
<1>8. w \notin lost /\ (doing[w] # None /\ Holds(w, doing[w]) => age'[doing[w]] = 0)
  BY <1>1, <1>2, <1>6 DEF Inv, BeatInv, TypeOK
<1>9. \A v \in Computers : Holds(v, doing[v])' <=> Holds(v, doing[v])
  BY <1>1 DEF Holds
<1>10. BeatInv'
  <2>1. due' \cap lost' = {}
    BY <1>1, <1>2 DEF Inv, BeatInv
  <2>2. doing[w] # None
    BY <1>1 DEF Inv, BeatInv
  <2>6. \A v \in due' \cup lost' : doing'[v] # None
    BY <1>1, <1>2, <2>2 DEF Inv, BeatInv
  <2>3. \A v \in lost' : ~ Holds(v, doing[v])'
    BY <1>1, <1>2, <1>9, <2>2 DEF Inv, BeatInv, TypeOK
  <2>4. ASSUME NEW v \in Computers, doing'[v] # None, v \notin due' \cup lost'
        PROVE  /\ claimer'[doing'[v]] = v /\ status'[doing'[v]] \notin {"none", "pending"}
               /\ status'[doing'[v]] = "running" => age'[doing'[v]] = 0
    BY <1>1, <1>2, <1>3, <1>7, <1>8, <2>4 DEF Inv, BeatInv, Holds
  <2>5. ASSUME NEW v \in Computers, doing'[v] # None, Holds(v, doing[v])', v \notin missed'
        PROVE  age'[doing'[v]] <= IF v \in due' THEN 1 ELSE 0
    BY <1>1, <1>2, <1>3, <1>7, <1>8, <1>9, <2>5 DEF Inv, BeatInv
  <2> QED
    BY <2>1, <2>3, <2>4, <2>5, <2>6 DEF BeatInv
<1> QED
  BY <1>4, <1>5, <1>10 DEF Inv

\* Time: who runs a task and was not told otherwise owes a heartbeat.
LEMMA TickInv == ASSUME Inv, Tick PROVE Inv'
<1>1. UNCHANGED <<status, claimer, handoffs, claims, pick, doing, lost, ticks, reaping, up, cut, events>>
  BY DEF Tick, envVars
<1>2. /\ age' \in [Tasks -> 0 .. STUCK_AFTER + 1]
      /\ \A t \in Tasks : status[t] = "running" => age'[t] <= age[t] + 1
  BY LimitsAssumption DEF Tick, Inv, TypeOK
<1>3. due' = {w \in Computers : doing[w] # None /\ w \notin lost} /\ missed' = missed \cup due
  BY DEF Tick
<1>4. TypeOK'
  BY <1>1, <1>2, <1>3 DEF Inv, TypeOK
<1>5. LockInv' /\ CountInv' /\ LoopInv' /\ RollInv'
  BY <1>1 DEF Inv, LockInv, CountInv, LoopInv, RollInv, DependencyMet, Children
<1>6. \A v \in Computers : doing[v] # None => doing[v] \in Tasks
  BY Rows DEF Inv, TypeOK
<1>7. BeatInv'
  <2>1. ASSUME NEW v \in Computers, doing'[v] # None, Holds(v, doing[v])', v \notin missed'
        PROVE  age'[doing'[v]] <= IF v \in due' THEN 1 ELSE 0
    <3>1. doing'[v] = doing[v] /\ doing[v] \in Tasks /\ Holds(v, doing[v])
      BY <1>1, <1>6, <2>1 DEF Holds
    <3>2. v \notin missed /\ v \notin due /\ v \notin lost /\ v \in due'
      BY <1>3, <2>1, <3>1 DEF Inv, BeatInv
    <3>3. age[doing[v]] <= 0 /\ age[doing[v]] \in Int /\ age'[doing[v]] \in Int
      BY <1>2, <2>1, <3>1, <3>2, LimitsAssumption DEF Inv, BeatInv, TypeOK
    <3> QED
      BY <1>2, <3>1, <3>2, <3>3 DEF Holds
  <2>2. /\ due' \cap lost' = {} /\ \A v \in due' \cup lost' : doing'[v] # None
        /\ \A v \in lost' : ~ Holds(v, doing[v])'
    BY <1>1, <1>3 DEF Inv, BeatInv, Holds
  <2>3. \A v \in Computers : doing'[v] # None => v \in due' \cup lost'
    BY <1>1, <1>3
  <2> QED
    BY <2>1, <2>2, <2>3 DEF BeatInv
<1> QED
  BY <1>4, <1>5, <1>7 DEF Inv

\* A handoff takes rows whose runner missed a heartbeat.
LEMMA SweepTakes ==
  ASSUME Inv, NEW t \in Tasks, Stale(t), NEW w \in Computers, doing[w] = t, claimer[t] = w
  PROVE  w \in missed /\ w \in due
<1>1. t # None /\ Holds(w, doing[w]) /\ w \notin lost /\ age[t] \in Int /\ age[t] > 1
  BY Rows, LimitsAssumption DEF Stale, Holds, Inv, BeatInv, TypeOK
<1> QED
  BY <1>1 DEF Inv, BeatInv, Holds

LEMMA SweepInv == ASSUME Inv, Sweep PROVE Inv'
<1> DEFINE again == {t \in Tasks : Stale(t) /\ handoffs[t] < MAX_HANDOFFS}
<1>1. UNCHANGED <<claims, pick, doing, due, lost, missed, ticks, reaping, up, cut, events>>
  BY DEF Sweep, runVars, envVars
<1>2. /\ status' \in [Tasks -> Statuses]
      /\ \A t \in Tasks : /\ t \in again => status'[t] = "pending"
                          /\ Stale(t) /\ t \notin again => status'[t] = "failed"
                          /\ ~ Stale(t) => status'[t] = status[t]
  BY DEF Sweep, Inv, TypeOK, Statuses, Open, Terminal
<1>3. /\ claimer' \in [Tasks -> Computers \cup {None}]
      /\ \A t \in Tasks : (t \in again => claimer'[t] = None) /\ (t \notin again => claimer'[t] = claimer[t])
  BY DEF Sweep, Inv, TypeOK
<1>4. /\ age' \in [Tasks -> 0 .. STUCK_AFTER + 1]
      /\ \A t \in Tasks : t \notin again => age'[t] = age[t]
  BY LimitsAssumption DEF Sweep, Inv, TypeOK
<1>5. /\ handoffs' \in [Tasks -> 0 .. MAX_HANDOFFS]
      /\ \A t \in Tasks : /\ t \in again => handoffs'[t] = handoffs[t] + 1
                          /\ t \notin again => handoffs'[t] = handoffs[t]
  BY LimitsAssumption DEF Sweep, Inv, TypeOK
<1>6. \A t \in Tasks : /\ t \in again => Stale(t)
                       /\ Stale(t) => status[t] = "running"
  BY DEF Stale
<1> HIDE DEF again
<1>7. TypeOK'
  BY <1>1, <1>2, <1>3, <1>4, <1>5 DEF Inv, TypeOK, Statuses
<1>8. LockInv'
  <2>1. \A t \in Tasks : status[t] = "running" => ~ Locked(t)
    BY Rows DEF Inv, LockInv, Locked
  <2>2. \A t \in Tasks : status'[t] # status[t] =>
          ~ Locked(t) /\ ~ (t \in Runnable /\ status[t] = "completed")
    BY <1>2, <1>6, <2>1
  <2> QED
    BY <1>1, <2>2, LockKept
<1>9. CountInv'
  BY <1>1, <1>2, <1>5, <1>6, LimitsAssumption DEF Inv, TypeOK, CountInv
<1>10. LoopInv'
  BY <1>1 DEF Inv, LoopInv
<1>11. BeatInv'
  <2>1. \A v \in Computers : doing[v] # None => doing[v] \in Tasks
    BY Rows DEF Inv, TypeOK
  <2>2. ASSUME NEW v \in Computers, doing[v] # None, v \notin due \cup lost
        PROVE  ~ Stale(doing[v])
    BY <2>1, <2>2, SweepTakes DEF Inv, BeatInv
  <2>3. ASSUME NEW v \in Computers, doing[v] # None, Holds(v, doing[v])'
        PROVE  ~ Stale(doing[v]) /\ Holds(v, doing[v])
    BY <1>1, <1>2, <1>3, <1>6, <2>1, <2>3 DEF Holds
  <2>4. /\ \A v \in due' \cup lost' : doing'[v] # None
        /\ \A v \in lost' : ~ Holds(v, doing[v])'
    BY <1>1, <2>3 DEF Inv, BeatInv, TypeOK
  <2>5. \A v \in Computers : doing'[v] # None /\ v \notin due' \cup lost' =>
          /\ claimer'[doing'[v]] = v /\ status'[doing'[v]] \notin {"none", "pending"}
          /\ status'[doing'[v]] = "running" => age'[doing'[v]] = 0
    BY <1>1, <1>2, <1>3, <1>4, <1>6, <2>1, <2>2 DEF Inv, BeatInv
  <2>6. ASSUME NEW v \in Computers, doing'[v] # None, Holds(v, doing[v])', v \notin missed'
        PROVE  age'[doing'[v]] <= IF v \in due' THEN 1 ELSE 0
    BY <1>1, <1>4, <1>6, <2>1, <2>3, <2>6 DEF Inv, BeatInv
  <2> QED
    BY <1>1, <2>4, <2>5, <2>6 DEF Inv, BeatInv
<1>12. RollInv'
  <2>1. \A t \in Tasks : status'[t] = "none" <=> status[t] = "none"
    BY <1>2, <1>6
  <2>2. \A c \in Runnable : status[c] \in Terminal => status'[c] = status[c]
    BY <1>2, <1>6, Rows DEF Terminal
  <2>3. \A p \in Tasks \ Runnable : status'[p] = "completed" => status[p] = "completed"
    BY <1>2, <1>6
  <2> QED
    BY <1>1, <2>1, <2>2, <2>3, RollKept
<1> QED
  BY <1>7, <1>8, <1>9, <1>10, <1>11, <1>12 DEF Inv

\* A row that goes from pending to cancelled, or an open one that an operator
\* cancels, is not locked.
LEMMA CancelledInv ==
  ASSUME NEW S \in SUBSET Tasks, Inv,
         \A t \in S : status[t] \in Open /\ ~ Locked(t),
         status' = Put(S, "cancelled"),
         UNCHANGED <<claimer, age, handoffs, claims, pick, doing, due, lost, missed, ticks>>
  PROVE  /\ status' \in [Tasks -> Statuses]
         /\ LockInv' /\ CountInv' /\ BeatInv'
         /\ \A t \in Tasks : /\ t \in S => status'[t] = "cancelled"
                             /\ t \notin S => status'[t] = status[t]
<1>1. \A t \in Tasks : /\ t \in S => status'[t] = "cancelled"
                       /\ t \notin S => status'[t] = status[t]
  BY DEF Put
<1>2. status' \in [Tasks -> Statuses]
  BY DEF Put, Inv, TypeOK, Statuses, Terminal
<1>3. \A t \in Tasks : status'[t] # status[t] =>
        ~ Locked(t) /\ ~ (t \in Runnable /\ status[t] = "completed")
  BY <1>1 DEF Open
<1>4. \A t \in Tasks : status'[t] = status[t] \/ status'[t] \in Terminal
  BY <1>1 DEF Terminal
<1>5. LockInv'
  BY ONLY Inv, <1>3, UNCHANGED <<pick, doing>>, LockKept
<1>6. CountInv'
  BY ONLY Inv, <1>4, UNCHANGED <<claims, handoffs>>, CountKept
<1>7. BeatInv'
  <2>1. \A t \in Runnable : status'[t] = status[t] \/ status'[t] \in Terminal
    BY <1>4, Rows
  <2> QED
    BY ONLY Inv, <2>1, UNCHANGED <<claimer, age, doing, due, lost, missed>>, BeatKept
<1> QED
  BY <1>1, <1>2, <1>5, <1>6, <1>7

\* pg_cancel_task.
LEMMA CancelInv == ASSUME NEW t \in Tasks, Inv, Cancel(t) PROVE Inv'
<1>1. /\ status[t] \in Open /\ ~ Locked(t) /\ status' = Put({t}, "cancelled")
      /\ UNCHANGED <<claimer, age, handoffs, claims, pick, doing, due, lost, missed, ticks>>
      /\ UNCHANGED <<reaping, up, cut>>
  BY DEF Cancel, runVars
<1>2. events' \in 0 .. MaxEvents
  BY LimitsAssumption DEF Cancel, Event, Inv, TypeOK
<1> DEFINE S == {t}
<1>3. S \in SUBSET Tasks /\ \A s \in S : status[s] \in Open /\ ~ Locked(s)
  BY <1>1
<1>4. status' = Put(S, "cancelled")
  BY <1>1
<1>5. \A s \in Tasks : s # t => s \notin S
  OBVIOUS
<1>6. t \in S
  OBVIOUS
<1> HIDE DEF S
<1>7. /\ status' \in [Tasks -> Statuses]
      /\ LockInv' /\ CountInv' /\ BeatInv'
      /\ \A s \in Tasks : /\ s \in S => status'[s] = "cancelled"
                          /\ s \notin S => status'[s] = status[s]
  BY ONLY Inv, <1>1, <1>3, <1>4, CancelledInv
<1>8. TypeOK'
  BY <1>1, <1>2, <1>7 DEF Inv, TypeOK, Statuses
<1>9. LoopInv'
  BY <1>1 DEF Inv, LoopInv
<1>10. RollInv'
  <2>1. \A s \in Tasks : status'[s] = "none" <=> status[s] = "none"
    BY <1>3, <1>7 DEF Open
  <2>2. \A c \in Runnable : status[c] \in Terminal => status'[c] = status[c]
    BY <1>3, <1>7, Rows DEF Terminal, Open
  <2>3. \A p \in Tasks \ Runnable : status'[p] = "completed" => status[p] = "completed"
    BY <1>7
  <2> QED
    BY <1>1, <2>1, <2>2, <2>3, RollKept
<1> QED
  BY <1>7, <1>8, <1>9, <1>10 DEF Inv

\* The reaper cancels restarts, which are no parents, while it holds none.
LEMMA CancelOrphansInv == ASSUME Inv, CancelOrphans PROVE Inv'
<1> DEFINE S == {t \in Tasks : Orphaned(t) /\ ~ Locked(t)}
<1>1. /\ status' = Put(S, "cancelled")
      /\ UNCHANGED <<claimer, age, handoffs, claims, pick, doing, due, lost, missed, ticks>>
      /\ UNCHANGED <<reaping, up, cut, events>>
  BY DEF CancelOrphans, runVars, envVars
<1>2. S \in SUBSET Tasks /\ \A s \in S : status[s] \in Open /\ ~ Locked(s)
  BY DEF Orphaned, Open
<1> HIDE DEF S
<1>3. /\ status' \in [Tasks -> Statuses]
      /\ LockInv' /\ CountInv' /\ BeatInv'
      /\ \A s \in Tasks : /\ s \in S => status'[s] = "cancelled"
                          /\ s \notin S => status'[s] = status[s]
  BY ONLY Inv, <1>1, <1>2, CancelledInv
<1>4. TypeOK'
  BY <1>1, <1>3 DEF Inv, TypeOK, Statuses
<1>5. LoopInv'
  BY <1>1 DEF Inv, LoopInv
<1>6. RollInv'
  <2>1. \A s \in Tasks : status'[s] = "none" <=> status[s] = "none"
    BY <1>2, <1>3 DEF Open
  <2>2. \A c \in Runnable : status[c] \in Terminal => status'[c] = status[c]
    BY <1>2, <1>3, Rows DEF Terminal, Open
  <2>3. \A p \in Tasks \ Runnable : status'[p] = "completed" => status[p] = "completed"
    BY <1>3
  <2> QED
    BY <1>1, <2>1, <2>2, <2>3, RollKept
<1> QED
  BY <1>3, <1>4, <1>5, <1>6 DEF Inv

\* The reaper reads parents whose inserted children have all ended.
LEMMA ReapReadInv == ASSUME Inv, ReapRead PROVE Inv'
<1> DEFINE D == {p \in Tasks : /\ status[p] = "pending" /\ Children(p) # {}
                               /\ \A c \in Children(p) : status[c] \in Terminal}
<1>1. /\ UNCHANGED <<status, claimer, age, handoffs, claims, pick, doing, due, lost, missed, ticks>>
      /\ UNCHANGED <<up, cut, events>> /\ reaping' = D
  BY DEF ReapRead, rowVars, runVars, envVars
<1>2. D \subseteq Tasks \ Runnable
  BY Rows DEF Children
<1>3. \A p \in D : status[p] = "pending" /\ \A c \in Children(p) : status[c] \in Terminal
  OBVIOUS
<1> HIDE DEF D
<1>4. TypeOK'
  BY <1>1, <1>2 DEF Inv, TypeOK
<1>5. LockInv' /\ CountInv' /\ BeatInv'
  BY <1>1 DEF Inv, LockInv, CountInv, BeatInv, DependencyMet, Holds
<1>6. LoopInv'
  BY <1>1, <1>2 DEF Inv, LoopInv
<1>7. RollInv'
  BY <1>1, <1>3 DEF Inv, RollInv, Children
<1> QED
  BY <1>4, <1>5, <1>6, <1>7 DEF Inv

\* The reaper's UPDATE of a parent, whatever the parent's status is by then.
LEMMA ReapWriteInv == ASSUME NEW q \in Tasks, Inv, ReapWrite(q) PROVE Inv'
<1>1. /\ q \in reaping /\ q \notin Runnable /\ reaping' = reaping \ {q}
      /\ UNCHANGED <<claimer, age, handoffs, claims, pick, doing, due, lost, missed, ticks>>
      /\ UNCHANGED <<up, cut, events>>
  BY DEF ReapWrite, runVars, envVars, Inv, LoopInv
<1>2. Verdict(q) \in {"completed", "failed"}
  BY DEF Verdict
<1>3. /\ status' \in [Tasks -> Statuses] /\ status'[q] = Verdict(q)
      /\ \A t \in Tasks \ {q} : status'[t] = status[t]
  BY <1>2 DEF ReapWrite, Put, Inv, TypeOK, Statuses, Terminal
<1>4. TypeOK'
  BY <1>1, <1>3 DEF Inv, TypeOK, Statuses
<1>5. LockInv'
  <2>1. ~ Locked(q)
    BY <1>1, Rows DEF Inv, TypeOK, Locked
  <2>2. \A t \in Tasks : status'[t] # status[t] =>
          ~ Locked(t) /\ ~ (t \in Runnable /\ status[t] = "completed")
    BY <1>1, <1>3, <2>1
  <2> QED
    BY <1>1, <2>2, LockKept
<1>6. CountInv'
  <2>1. \A t \in Tasks : status'[t] = status[t] \/ status'[t] \in Terminal
    BY <1>2, <1>3 DEF Terminal
  <2> QED
    BY <1>1, <2>1, CountKept
<1>7. LoopInv'
  BY <1>1 DEF Inv, LoopInv
<1>8. BeatInv'
  <2>1. \A t \in Runnable : status'[t] = status[t]
    BY <1>1, <1>3, Rows
  <2> QED
    BY <1>1, <2>1, BeatKept
<1>9. RollInv'
  <2>1. /\ status[q] # "none" /\ status'[q] # "none"
        /\ \A c \in Children(q) : status[c] \in Terminal
    BY <1>1, <1>2, <1>3 DEF Inv, RollInv
  <2>2. \A p \in Tasks : /\ Children(p)' = Children(p)
                         /\ \A c \in Children(p) : c \in Tasks \ {q} /\ status'[c] = status[c]
    BY <1>1, <1>3, <2>1, Rows DEF Children
  <2>3. Verdict(q) = "completed" =>
          /\ \A c \in Children(q) : status[c] # "failed"
          /\ \E c \in Children(q) : status[c] = "completed"
    BY DEF Verdict
  <2>4. ASSUME NEW p \in Tasks \ Runnable, p # q
        PROVE  (p \in reaping' <=> p \in reaping) /\ status'[p] = status[p]
    BY <1>1, <1>3, <2>4
  <2> QED
    BY <1>1, <1>3, <2>1, <2>2, <2>3, <2>4 DEF Inv, RollInv
<1> QED
  BY <1>4, <1>5, <1>6, <1>7, <1>8, <1>9 DEF Inv

-----------------------------------------------------------------------------

\* Every step keeps the invariant.
LEMMA NextInv == Inv /\ [Next]_vars => Inv'
<1> SUFFICES ASSUME Inv, [Next]_vars PROVE Inv'
  OBVIOUS
<1>1. CASE \E B \in Batches : Enqueue(B)
  BY <1>1, EnqueueInv
<1>2. CASE \E w \in Computers : \E t \in Tasks : Pick(w, t) \/ Claim(w, t)
  BY <1>2, PickInv, ClaimInv
<1>3. CASE \E w \in Computers : IdleTick(w) \/ Heartbeat(w) \/ FinishUnstored(w)
  BY <1>3, IdleTickInv, HeartbeatInv, FinishUnstoredInv
<1>4. CASE \E w \in Computers : Finish(w, "completed") \/ Finish(w, "failed")
  BY <1>4, FinishInv
<1>5. CASE \E w \in Computers : \/ Stop(w) \/ Start(w) \/ Cut(w) \/ Heal(w)
                                \/ \E x \in Computers : RestartTarget(w, x)
  BY <1>5, FaultInv
<1>6. CASE Sweep \/ Tick \/ CancelOrphans \/ ReapRead \/ ReapStop
  BY <1>6, SweepInv, TickInv, CancelOrphansInv, ReapReadInv, ReapStopInv
<1>7. CASE \E t \in Tasks : ReapWrite(t) \/ Cancel(t)
  BY <1>7, ReapWriteInv, CancelInv
<1>8. CASE UNCHANGED vars
  BY <1>8 DEF vars, rowVars, runVars, envVars, Inv, TypeOK, LockInv, CountInv, LoopInv,
              BeatInv, RollInv, DependencyMet, Holds, Children
<1> QED
  BY <1>1, <1>2, <1>3, <1>4, <1>5, <1>6, <1>7, <1>8 DEF Next

\* The invariant holds throughout.
LEMMA Invariant == Spec => []Inv
<1> QED
  BY InitInv, NextInv, PTL DEF Spec

\* Types of rows, runners and reaper: no row is claimed more than
\* MAX_HANDOFFS + 1 times and no runner exceeds its iterations.
THEOREM TypeCorrect == Spec => []TypeOK
<1>1. Inv => TypeOK
  BY DEF Inv
<1> QED
  BY <1>1, Invariant, PTL

\* A wave is rolled up as completed only if no child failed, none can fail any
\* more, and one completed.
THEOREM RollUpsHonest == Spec => []RollUpHonest
<1>1. ASSUME Inv PROVE RollUpHonest
  <2> SUFFICES ASSUME NEW p \in Tasks, Kind[p] = "compound", status[p] = "completed"
               PROVE  /\ \A c \in Children(p) : status[c] \in {"completed", "cancelled"}
                      /\ \E c \in Children(p) : status[c] = "completed"
    BY DEF RollUpHonest
  <2>1. p \in Tasks \ Runnable
    BY DEF Runnable
  <2> QED
    BY <1>1, <2>1 DEF Inv, RollInv, Terminal
<1> QED
  BY <1>1, Invariant, PTL

-----------------------------------------------------------------------------

\* Only a handoff takes a running row back to the queue.
LEMMA BackToQueue ==
  ASSUME Inv, Next, NEW t \in Tasks, status[t] = "running", status'[t] = "pending"
  PROVE  Stale(t)
<1> USE DEF Put
<1>1. ASSUME NEW B \in Batches, Enqueue(B) PROVE FALSE
  BY <1>1 DEF Enqueue
<1>2. ASSUME NEW w \in Computers, NEW s \in Tasks, Pick(w, s) \/ Claim(w, s) PROVE FALSE
  BY <1>2 DEF Pick, Claim, rowVars
<1>3. ASSUME NEW w \in Computers, IdleTick(w) \/ Heartbeat(w) \/ FinishUnstored(w) PROVE FALSE
  BY <1>3 DEF IdleTick, Heartbeat, FinishUnstored, rowVars
<1>4. ASSUME NEW w \in Computers, Finish(w, "completed") \/ Finish(w, "failed") PROVE FALSE
  BY <1>4 DEF Finish
<1>5. ASSUME NEW w \in Computers, \/ Stop(w) \/ Start(w) \/ Cut(w) \/ Heal(w)
                                  \/ \E x \in Computers : RestartTarget(w, x)
      PROVE  FALSE
  BY <1>5 DEF Stop, Start, Cut, Heal, RestartTarget, rowVars
<1>6. ASSUME Tick \/ CancelOrphans \/ ReapRead PROVE FALSE
  BY <1>6 DEF Tick, CancelOrphans, ReapRead, rowVars
<1>7. ASSUME ReapStop PROVE FALSE
  <2>1. UNCHANGED rowVars
    BY Zenon, <1>7 DEF ReapStop
  <2> QED
    BY <2>1 DEF rowVars
<1>8. ASSUME NEW p \in Tasks, ReapWrite(p) \/ Cancel(p) PROVE FALSE
  BY <1>8 DEF ReapWrite, Cancel, Verdict
<1>9. CASE Sweep
  BY <1>9 DEF Sweep
<1> QED
  BY <1>1, <1>2, <1>3, <1>4, <1>5, <1>6, <1>7, <1>8, <1>9 DEF Next

\* A task is handed off only from a worker that no longer executes it or that
\* missed a heartbeat.
THEOREM HandoffsForCause == Spec => HandoffForCause
<1> DEFINE A == \A t \in Tasks : status[t] = "running" /\ status'[t] = "pending" =>
                  \A w \in Computers : claimer[t] = w /\ doing[w] = t => w \in missed
<1>1. Inv /\ [Next]_vars => [A]_vars
  BY BackToQueue, SweepTakes
<1>2. [][A]_vars <=> HandoffForCause
  BY PTL DEF A, HandoffForCause
<1> QED
  BY <1>1, <1>2, Invariant, PTL DEF Spec

-----------------------------------------------------------------------------
\* Whose results are stored.

\* A runner that missed no heartbeat, or has sent one since, and was not told
\* that its task is lost holds it.
OwnInv ==
  \A w \in Computers : doing[w] # None /\ w \notin missed \cup lost =>
    claimer[doing[w]] = w /\ status[doing[w]] \notin {"none", "pending"}

\* A step keeps that in which nobody claims, beats, is late or sweeps.
LEMMA OwnKept ==
  ASSUME Inv, OwnInv, claimer' = claimer,
         \A t \in Runnable : status'[t] = status[t] \/ status'[t] \in Terminal
                             \/ (status[t] = "none" /\ status'[t] = "pending"),
         \A w \in Computers :
           \/ doing'[w] = None
           \/ /\ doing'[w] = doing[w]
              /\ (w \in missed => w \in missed') /\ (w \in lost => w \in lost')
  PROVE  OwnInv'
<1> SUFFICES ASSUME NEW w \in Computers, doing'[w] # None, w \notin missed' \cup lost'
             PROVE  claimer'[doing'[w]] = w /\ status'[doing'[w]] \notin {"none", "pending"}
  BY DEF OwnInv
<1>1. doing'[w] = doing[w] /\ doing[w] \in Runnable /\ w \notin missed \cup lost
  BY DEF Inv, TypeOK
<1> QED
  BY <1>1 DEF OwnInv, Terminal

LEMMA OwnNext == ASSUME Inv, OwnInv, [Next]_vars PROVE OwnInv'
<1> USE DEF Put
<1>1. ASSUME NEW B \in Batches, Enqueue(B) PROVE OwnInv'
  <2>1. /\ UNCHANGED <<claimer, doing, lost, missed>>
        /\ \A t \in Runnable : status'[t] = status[t] \/ (status[t] = "none" /\ status'[t] = "pending")
    BY <1>1, Rows DEF Enqueue, runVars
  <2> QED
    BY <2>1, OwnKept
<1>2. ASSUME NEW w \in Computers, NEW t \in Tasks, Claim(w, t) PROVE OwnInv'
  <2>1. t # None /\ t \in Runnable /\ status[t] = "pending"
    BY <1>2, Rows DEF Claim, Inv, TypeOK, LockInv
  <2>2. /\ status'[t] = "running" /\ claimer'[t] = w /\ doing'[w] = t
        /\ \A s \in Tasks \ {t} : status'[s] = status[s] /\ claimer'[s] = claimer[s]
        /\ \A v \in Computers \ {w} : doing'[v] = doing[v]
        /\ lost' = lost /\ missed' = missed
    BY <1>2 DEF Claim, Inv, TypeOK
  <2>3. ASSUME NEW v \in Computers \ {w}, doing'[v] # None, v \notin missed' \cup lost'
        PROVE  claimer'[doing'[v]] = v /\ status'[doing'[v]] \notin {"none", "pending"}
    <3>1. doing'[v] = doing[v] /\ doing[v] \in Tasks /\ v \notin missed \cup lost
      BY <2>2, <2>3, Rows DEF Inv, TypeOK
    <3>2. claimer[doing[v]] = v /\ status[doing[v]] \notin {"none", "pending"}
      BY <2>3, <3>1 DEF OwnInv
    <3> QED
      BY <2>1, <2>2, <3>1, <3>2
  <2> QED
    BY <2>1, <2>2, <2>3 DEF OwnInv
<1>3. ASSUME NEW w \in Computers, Heartbeat(w) PROVE OwnInv'
  <2>1. /\ UNCHANGED <<status, claimer, doing>> /\ missed' = missed \ {w} /\ lost \subseteq lost'
        /\ Holds(w, doing[w]) \/ w \in lost'
    BY <1>3 DEF Heartbeat
  <2> QED
    BY <2>1 DEF OwnInv, Holds
<1>4. ASSUME NEW w \in Computers, NEW outcome \in {"completed", "failed"}, Finish(w, outcome)
      PROVE  OwnInv'
  <2>1. /\ claimer' = claimer
        /\ \A t \in Runnable : status'[t] = status[t] \/ status'[t] \in Terminal
        /\ doing'[w] = None /\ lost' = lost \ {w} /\ missed' = missed \ {w}
        /\ \A v \in Computers \ {w} : doing'[v] = doing[v]
    BY <1>4, Rows DEF Finish, Leave, Terminal, Inv, TypeOK
  <2> QED
    BY <2>1, OwnKept
<1>5. ASSUME NEW w \in Computers, \/ FinishUnstored(w) \/ Stop(w)
                                  \/ \E x \in Computers : RestartTarget(x, w)
      PROVE  OwnInv'
  <2>1. /\ UNCHANGED <<status, claimer>>
        /\ doing'[w] = None /\ lost' = lost \ {w} /\ missed' = missed \ {w}
        /\ \A v \in Computers \ {w} : doing'[v] = doing[v]
    BY <1>5 DEF FinishUnstored, Stop, RestartTarget, Leave, Halted, rowVars, Inv, TypeOK
  <2> QED
    BY <2>1, OwnKept
<1>6. CASE Sweep
  <2>1. UNCHANGED <<doing, lost, missed>>
    BY <1>6 DEF Sweep, runVars
  <2>2. ASSUME NEW w \in Computers, doing[w] # None, w \notin missed \cup lost
        PROVE  claimer'[doing[w]] = w /\ status'[doing[w]] = status[doing[w]]
    <3>1. doing[w] \in Tasks /\ claimer[doing[w]] = w
      BY <2>2, Rows DEF OwnInv, Inv, TypeOK
    <3>2. ~ Stale(doing[w])
      BY <2>2, <3>1, SweepTakes
    <3> QED
      BY <1>6, <3>1, <3>2 DEF Sweep
  <2> QED
    BY <2>1, <2>2 DEF OwnInv
<1>7. CASE Tick
  BY <1>7 DEF Tick, OwnInv
<1>8. ASSUME NEW w \in Computers, \/ \E t \in Tasks : Pick(w, t)
                                  \/ IdleTick(w) \/ Start(w) \/ Cut(w) \/ Heal(w)
      PROVE  OwnInv'
  BY <1>8 DEF Pick, IdleTick, Start, Cut, Heal, rowVars, runVars, OwnInv
<1>9. CASE CancelOrphans \/ \E t \in Tasks : Cancel(t) \/ ReapWrite(t)
  <2>1. /\ UNCHANGED <<claimer, doing, lost, missed>>
        /\ \A t \in Runnable : status'[t] = status[t] \/ status'[t] \in Terminal
    BY <1>9, Rows DEF CancelOrphans, Cancel, ReapWrite, Verdict, Terminal, runVars
  <2> QED
    BY <2>1, OwnKept
<1>10. CASE ReapRead \/ UNCHANGED vars
  BY <1>10 DEF ReapRead, vars, rowVars, runVars, OwnInv
<1>11. CASE ReapStop
  <2>1. UNCHANGED rowVars /\ UNCHANGED runVars
    BY Zenon, <1>11 DEF ReapStop
  <2> QED
    BY <2>1 DEF rowVars, runVars, OwnInv
<1> QED
  BY <1>1, <1>2, <1>3, <1>4, <1>5, <1>6, <1>7, <1>8, <1>9, <1>10, <1>11 DEF Next

\* A runner that was told its task is lost ends no running row.
LEMMA LostEndsNothing ==
  ASSUME Inv, Next, NEW w \in Computers, w \in lost, doing[w] # None, doing'[w] = None
  PROVE  status' = status
<1>1. ASSUME NEW v \in Computers,
             \/ \E t \in Tasks : Pick(v, t)
             \/ IdleTick(v) \/ Heartbeat(v) \/ FinishUnstored(v)
             \/ Stop(v) \/ Start(v) \/ Cut(v) \/ Heal(v)
             \/ \E x \in Computers : RestartTarget(v, x)
      PROVE  status' = status
  BY <1>1 DEF Pick, IdleTick, Heartbeat, FinishUnstored, Stop, Start, Cut, Heal, RestartTarget, rowVars
<1>2. ASSUME NEW v \in Computers, NEW outcome \in {"completed", "failed"}, Finish(v, outcome)
      PROVE  status' = status
  BY <1>2 DEF Finish, Leave, Inv, TypeOK
<1>3. ASSUME NEW v \in Computers, NEW t \in Tasks, Claim(v, t) PROVE FALSE
  BY <1>3, Rows DEF Claim, Inv, TypeOK
<1>4. CASE \/ \E B \in Batches : Enqueue(B)
           \/ Sweep \/ Tick \/ CancelOrphans \/ ReapRead
           \/ \E t \in Tasks : ReapWrite(t) \/ Cancel(t)
  BY <1>4 DEF Enqueue, Sweep, Tick, CancelOrphans, ReapRead, ReapWrite, Cancel, rowVars, runVars
<1>5. CASE ReapStop
  <2>1. UNCHANGED rowVars
    BY Zenon, <1>5 DEF ReapStop
  <2> QED
    BY <2>1 DEF rowVars
<1> QED
  BY <1>1, <1>2, <1>3, <1>4, <1>5 DEF Next

\* A running row is ended by its holder, or by a runner that missed a heartbeat
\* and has sent none since, whatever was handed off while commands ran on.
THEOREM ResultsOfHolders == Spec => ResultOfHolder
<1> DEFINE A == \A w \in Computers :
                  LET t == doing[w]
                  IN t # None /\ doing'[w] = None /\ status[t] = "running" /\ status'[t] # "running" =>
                       claimer[t] = w \/ w \in missed
<1>1. Init => OwnInv
  BY DEF Init, OwnInv
<1>2. ASSUME Inv, OwnInv, Next, NEW w \in Computers, doing[w] # None, doing'[w] = None,
             status[doing[w]] = "running", status'[doing[w]] # "running"
      PROVE  claimer[doing[w]] = w \/ w \in missed
  BY <1>2, LostEndsNothing DEF OwnInv
<1>3. Inv /\ OwnInv /\ [Next]_vars => [A]_vars
  BY <1>2
<1>4. [][A]_vars <=> ResultOfHolder
  BY PTL DEF A, ResultOfHolder
<1> QED
  BY <1>1, <1>3, <1>4, OwnNext, Invariant, PTL DEF Spec

-----------------------------------------------------------------------------
\* The runner implements the queue.

\* A step that leaves the runnable rows and their claims alone stutters.
LEMMA QueueStutters ==
  ASSUME \A t \in Runnable : status'[t] = status[t] /\ claims'[t] = claims[t]
  PROVE  UNCHANGED Queue!queueVars
BY DEF Queue!queueVars, NeedsOf

\* Every initial state is one of the queue.
LEMMA QueueStarts == Init => Queue!QueueInit
<1> SUFFICES ASSUME Init PROVE Queue!QueueInit
  OBVIOUS
<1>1. [t \in Runnable |-> NeedsOf(t)] \in [Runnable -> SUBSET Runnable]
  BY Rows DEF NeedsOf
<1>2. [t \in Runnable |-> Seen(status[t])] = [t \in Runnable |-> "new"]
  BY Rows DEF Init, Seen
<1>3. [t \in Runnable |-> claims[t]] = [t \in Runnable |-> 0]
  BY Rows DEF Init
<1> QED
  BY <1>1, <1>2, <1>3 DEF Queue!QueueInit

\* Rows that are withdrawn.
LEMMA QueueWithdraws ==
  ASSUME NEW S \in SUBSET Tasks, \A t \in S : status[t] \in Open,
         status' = Put(S, "cancelled"), claims' = claims
  PROVE  Queue!QueueNext
<1> DEFINE R == S \cap Runnable
<1>1. R \in SUBSET Runnable /\ \A t \in R : Seen(status[t]) \in {"waiting", "owned"}
  BY DEF Seen, Open
<1>2. [t \in Runnable |-> Seen(status'[t])]
        = [t \in Runnable |-> IF t \in R THEN "cancelled" ELSE Seen(status[t])]
  BY Rows DEF Put, Seen
<1>3. Queue!Withdraw(R)
  BY <1>1, <1>2 DEF Queue!Withdraw, Queue!Moved, NeedsOf
<1> QED
  BY <1>1, <1>3 DEF Queue!QueueNext

\* Every step of the runner is a step of the queue or leaves it alone.
LEMMA QueueSteps == Inv /\ Inv' /\ [Next]_vars => [Queue!QueueNext]_(Queue!queueVars)
<1> SUFFICES ASSUME Inv, Inv', [Next]_vars
             PROVE  Queue!QueueNext \/ UNCHANGED Queue!queueVars
  OBVIOUS
<1>1. ASSUME NEW B \in Batches, Enqueue(B) PROVE Queue!QueueNext
  <2> DEFINE R == B \cap Runnable
  <2>1. R \in SUBSET Runnable /\ \A t \in R : Seen(status[t]) = "new"
    BY <1>1 DEF Enqueue, Seen
  <2>2. /\ [t \in Runnable |-> Seen(status'[t])]
             = [t \in Runnable |-> IF t \in R THEN "waiting" ELSE Seen(status[t])]
        /\ claims' = claims
    BY <1>1, Rows DEF Enqueue, Put, Seen
  <2>3. Queue!Submit(R)
    BY <2>1, <2>2 DEF Queue!Submit, Queue!Moved, NeedsOf
  <2> QED
    BY <2>1, <2>3 DEF Queue!QueueNext
<1>2. ASSUME NEW w \in Computers, NEW t \in Tasks, Claim(w, t) PROVE Queue!QueueNext
  <2>1. /\ t \in Runnable /\ t # None /\ status[t] = "pending" /\ DependencyMet(t)
        /\ claims[t] \in Nat /\ claims[t] < MAX_HANDOFFS + 1
    <3>1. t \in Runnable /\ t # None /\ pick[w] = t
      BY <1>2, Rows DEF Claim, Inv, TypeOK
    <3>2. status[t] = "pending" /\ DependencyMet(t)
      BY <3>1 DEF Inv, LockInv
    <3> QED
      BY <3>1, <3>2, LimitsAssumption DEF Inv, CountInv, TypeOK
  <2>2. /\ [s \in Runnable |-> Seen(status'[s])]
             = [s \in Runnable |-> IF s \in {t} THEN "owned" ELSE Seen(status[s])]
        /\ [s \in Runnable |-> claims'[s]]
             = [[s \in Runnable |-> claims[s]] EXCEPT ![t] = @ + 1]
    BY <1>2, <2>1, Rows DEF Claim, Put, Seen, Inv, TypeOK
  <2>3. Seen(status[t]) = "waiting" /\ \A n \in NeedsOf(t) : n \in Runnable /\ Seen(status[n]) = "done"
    BY <2>1, Rows DEF NeedsOf, DependencyMet, Seen
  <2>4. Queue!Begin(t)
    BY <2>1, <2>2, <2>3 DEF Queue!Begin, Queue!Moved, NeedsOf
  <2> QED
    BY <2>1, <2>4 DEF Queue!QueueNext
<1>3. ASSUME NEW w \in Computers, NEW outcome \in {"completed", "failed"}, Finish(w, outcome)
      PROVE  Queue!QueueNext \/ UNCHANGED Queue!queueVars
  <2>1. claims' = claims
    BY <1>3 DEF Finish
  <2>2. CASE ~ (w \notin lost /\ status[doing[w]] = "running")
    <3>1. status' = status
      BY <1>3, <2>2 DEF Finish
    <3> QED
      BY <2>1, <3>1, QueueStutters
  <2>3. CASE w \notin lost /\ status[doing[w]] = "running"
    <3>1. doing[w] \in Runnable /\ status' = Put({doing[w]}, outcome)
      BY <1>3, <2>3 DEF Finish, Inv, TypeOK
    <3>2. Seen(status[doing[w]]) = "owned" /\ Seen(outcome) \in {"done", "failed"}
      BY <2>3 DEF Seen
    <3>3. [t \in Runnable |-> Seen(status'[t])]
            = [t \in Runnable |-> IF t \in {doing[w]} THEN Seen(outcome) ELSE Seen(status[t])]
      BY <3>1, Rows DEF Put, Seen
    <3>4. Queue!End(doing[w], Seen(outcome))
      BY <2>1, <3>1, <3>2, <3>3 DEF Queue!End, Queue!Moved, NeedsOf
    <3> QED
      BY <3>1, <3>2, <3>4 DEF Queue!QueueNext
  <2> QED
    BY <2>2, <2>3
<1>4. CASE Sweep
  <2> DEFINE R == {t \in Runnable : Stale(t)}
  <2>1. /\ claims' = claims /\ R \in SUBSET Runnable /\ \A t \in R : Seen(status[t]) = "owned"
    BY <1>4 DEF Sweep, Stale, Seen
  <2>2. ASSUME NEW t \in Runnable
        PROVE  /\ t \notin R => status'[t] = status[t]
               /\ t \in R /\ claims[t] < MAX_HANDOFFS + 1 => status'[t] = "pending"
               /\ t \in R /\ ~ (claims[t] < MAX_HANDOFFS + 1) => status'[t] = "failed"
    <3>1. t \in Tasks /\ handoffs[t] \in Nat /\ (Stale(t) => claims[t] = handoffs[t] + 1)
      BY Rows, LimitsAssumption DEF Inv, TypeOK, CountInv, Stale
    <3> QED
      BY <1>4, <3>1, LimitsAssumption DEF Sweep
  <2>5. Seen("pending") = "waiting" /\ Seen("failed") = "failed"
    BY DEF Seen
  <2> HIDE DEF R
  <2>3. [t \in Runnable |-> Seen(status'[t])]
          = [t \in Runnable |-> IF t \notin R THEN Seen(status[t])
                               ELSE IF claims[t] < MAX_HANDOFFS + 1 THEN "waiting"
                               ELSE "failed"]
    BY <2>2, <2>5
  <2>4. Queue!Recover(R)
    BY <2>1, <2>3 DEF Queue!Recover, NeedsOf
  <2> QED
    BY <2>1, <2>4 DEF Queue!QueueNext
<1>5. CASE CancelOrphans
  <2> DEFINE S == {t \in Tasks : Orphaned(t) /\ ~ Locked(t)}
  <2>1. /\ S \in SUBSET Tasks /\ \A t \in S : status[t] \in Open
        /\ status' = Put(S, "cancelled") /\ claims' = claims
    BY <1>5 DEF CancelOrphans, Orphaned, Open
  <2> HIDE DEF S
  <2> QED
    BY <2>1, QueueWithdraws
<1>6. ASSUME NEW t \in Tasks, Cancel(t) PROVE Queue!QueueNext
  <2> DEFINE S == {t}
  <2>1. /\ S \in SUBSET Tasks /\ \A s \in S : status[s] \in Open
        /\ status' = Put(S, "cancelled") /\ claims' = claims
    BY <1>6 DEF Cancel
  <2> HIDE DEF S
  <2> QED
    BY <2>1, QueueWithdraws
<1>7. ASSUME NEW p \in Tasks, ReapWrite(p) PROVE UNCHANGED Queue!queueVars
  <2>1. p \notin Runnable /\ claims' = claims /\ status' = Put({p}, Verdict(p))
    BY <1>7 DEF ReapWrite, Inv, LoopInv
  <2>2. \A t \in Runnable : status'[t] = status[t] /\ claims'[t] = claims[t]
    BY <2>1, Rows DEF Put
  <2> QED
    BY <2>2, QueueStutters
<1>8. ASSUME UNCHANGED <<status, claims>> PROVE UNCHANGED Queue!queueVars
  BY <1>8, QueueStutters
<1>9. ASSUME NEW w \in Computers,
             \/ \E t \in Tasks : Pick(w, t)
             \/ IdleTick(w) \/ Heartbeat(w) \/ FinishUnstored(w)
             \/ Stop(w) \/ Start(w) \/ Cut(w) \/ Heal(w)
             \/ \E x \in Computers : RestartTarget(w, x)
      PROVE  UNCHANGED <<status, claims>>
  BY <1>9 DEF Pick, IdleTick, Heartbeat, FinishUnstored, Stop, Start, Cut, Heal, RestartTarget, rowVars
<1>10. CASE Tick \/ ReapRead \/ UNCHANGED vars
  BY <1>8, <1>10 DEF Tick, ReapRead, vars, rowVars
<1>11. CASE ReapStop
  <2>1. UNCHANGED rowVars
    BY Zenon, <1>11 DEF ReapStop
  <2> QED
    BY <1>8, <2>1 DEF rowVars
<1> QED
  BY <1>1, <1>2, <1>3, <1>4, <1>5, <1>6, <1>7, <1>8, <1>9, <1>10, <1>11 DEF Next

\* Runners, watchdogs, wave reaper and operators together implement the
\* abstract queue of tasks.
THEOREM ImplementsQueue == Spec => RefinesQueue
<1> QED
  BY QueueStarts, QueueSteps, Invariant, PTL DEF Spec, RefinesQueue, Queue!QueueSafe

\* What the queue promises holds of the rows: a row that was claimed had its
\* dependency completed, and a completed row stays completed.
Begun == {"running", "completed", "failed"}
DependenciesDone ==
  \A t \in Runnable : status[t] \in Begun /\ DependsOn[t] # None =>
    status[DependsOn[t]] = "completed"

\* The states of the queue and of the rows correspond.
LEMMA SeenStates ==
  ASSUME NEW st \in Open \cup Terminal \cup {"none"}
  PROVE  /\ Seen(st) = "done" <=> st = "completed"
         /\ Seen(st) \in {"owned", "done", "failed"} <=> st \in Begun
BY DEF Seen, Open, Terminal, Begun

\* A step of the queue takes back no end, and lets a task begin only after all
\* it needs.
LEMMA QueueKeeps ==
  ASSUME Queue!QueueNext \/ UNCHANGED Queue!queueVars, NEW t \in Runnable
  PROVE  /\ Seen(status[t]) = "done" => Seen(status'[t]) = "done"
         /\ Seen(status'[t]) \in {"owned", "done", "failed"} =>
              \/ Seen(status[t]) \in {"owned", "done", "failed"}
              \/ \A n \in NeedsOf(t) : Seen(status[n]) = "done"
<1> DEFINE S == [r \in Runnable |-> Seen(status[r])]
           N == [r \in Runnable |-> NeedsOf(r)]
<1>1. S[t] = Seen(status[t]) /\ S'[t] = Seen(status'[t])
  OBVIOUS
<1>2. /\ S[t] = "done" => S'[t] = "done"
      /\ S'[t] \in {"owned", "done", "failed"} =>
           S[t] \in {"owned", "done", "failed"} \/ \A n \in N[t] : S[n] = "done"
  <2>1. CASE Queue!Plan \/ UNCHANGED Queue!queueVars
    BY <2>1 DEF Queue!Plan, Queue!queueVars
  <2>2. ASSUME NEW R \in SUBSET Runnable, Queue!Submit(R) \/ Queue!Recover(R) \/ Queue!Withdraw(R)
        PROVE  /\ S[t] = "done" => S'[t] = "done"
               /\ S'[t] \in {"owned", "done", "failed"} => S[t] \in {"owned", "done", "failed"}
    BY <2>2 DEF Queue!Submit, Queue!Recover, Queue!Withdraw, Queue!Moved
  <2>3. ASSUME NEW r \in Runnable, Queue!Begin(r) \/ Queue!End(r, "done") \/ Queue!End(r, "failed")
        PROVE  /\ S[t] = "done" => S'[t] = "done"
               /\ S'[t] \in {"owned", "done", "failed"} =>
                    S[t] \in {"owned", "done", "failed"} \/ \A n \in N[t] : S[n] = "done"
    BY <2>3 DEF Queue!Begin, Queue!End, Queue!Moved
  <2> QED
    BY <2>1, <2>2, <2>3 DEF Queue!QueueNext
<1>3. \A n \in NeedsOf(t) : n \in Runnable
  BY Rows DEF NeedsOf
<1> QED
  BY <1>1, <1>2, <1>3

LEMMA DependenciesKept ==
  ASSUME TypeOK, TypeOK', DependenciesDone, Queue!QueueNext \/ UNCHANGED Queue!queueVars
  PROVE  DependenciesDone'
<1> SUFFICES ASSUME NEW t \in Runnable, status'[t] \in Begun, DependsOn[t] # None
             PROVE  status'[DependsOn[t]] = "completed"
  BY DEF DependenciesDone
<1> DEFINE d == DependsOn[t]
<1>1. d \in Runnable /\ NeedsOf(t) = {d}
  BY Rows DEF NeedsOf
<1>2. \A r \in Runnable : /\ status[r] \in Open \cup Terminal \cup {"none"}
                          /\ status'[r] \in Open \cup Terminal \cup {"none"}
  BY Rows DEF TypeOK
<1>3. status[t] \in Begun \/ status[d] = "completed"
  BY <1>1, <1>2, SeenStates, QueueKeeps
<1>4. status[d] = "completed"
  BY <1>3 DEF DependenciesDone
<1> QED
  BY <1>1, <1>2, <1>4, SeenStates, QueueKeeps

\* For any tasks and dependencies: whatever was handed off, cancelled or rolled
\* up, a row that runs or has ended by running had its dependency completed, and
\* that is still so.  Follows from the abstract queue.
THEOREM NothingRunsAhead == Spec => []DependenciesDone
<1>1. Init => DependenciesDone
  BY Rows DEF Init, DependenciesDone, Begun
<1>2. (Inv => TypeOK) /\ (Inv' => TypeOK')
  BY DEF Inv
<1>3. Inv /\ Inv' /\ DependenciesDone /\ [Next]_vars => DependenciesDone'
  BY <1>2, QueueSteps, DependenciesKept
<1> QED
  BY <1>1, <1>3, Invariant, PTL DEF Spec
=============================================================================
