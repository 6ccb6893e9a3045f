--------------------------- MODULE LeaderElection ---------------------------
(***************************************************************************)
(* Fleet leadership: the fleet_leader_state singleton row in Postgres, the *)
(* election tick every daemon runs against it (ff-agent/leader_tick.rs),   *)
(* the process-local leader cache the other subsystems gate on, the Pulse  *)
(* beats in Redis and the operator's step-down and maintenance lease.      *)
(*                                                                         *)
(* A tick is four steps with awaits between them: Look (read Pulse, the    *)
(* yield request and the lease), Decide (read the row, choose a            *)
(* statement), Execute (the one conditional SQL statement) and Finish (use *)
(* its result).  Steps of other nodes, time and faults fall between them.  *)
(*                                                                         *)
(* Time is counted in election periods of 15 s.  Ages are kept instead of  *)
(* a clock and stop growing once past the threshold they are compared      *)
(* with, which loses no comparison.                                        *)
(***************************************************************************)
EXTENDS Integers, FiniteSets

CONSTANTS
  Nodes,            \* member names of fleet_workers
  Candidates,       \* the ones with enough RAM to lead (load_candidates)
  Rank,             \* position in the total order of pick_best_candidate
  Isolated,         \* nodes that can never read the leader's Redis
  Skew,             \* how far a node's wall clock is ahead of Postgres'
  None,             \* no row, no name
  STALE_THRESHOLD,  \* STALE_THRESHOLD_SECS, in periods
  MIN_PULSE_SILENT, \* MIN_PULSE_SILENT_SECS, in periods
  LeaderlessWait,   \* leaderless_wait of each node, in periods
  Lockstep,         \* TRUE: every running node ticks once per period, and a
                    \* tick's reads are one step
  MaxEpoch,         \* bound: no epoch above this is proposed
  FaultKinds,       \* the faults and commands of this instance
  Commands,         \* its step-down commands: target member and standby, or None
  MaxFaults         \* bound on their number

ASSUME NodesAssumption ==
  /\ Candidates \subseteq Nodes
  /\ Isolated \subseteq Nodes
  /\ None \notin Nodes
ASSUME RankAssumption ==
  /\ Rank \in [Nodes -> Nat]
  /\ \A m, n \in Nodes : Rank[m] = Rank[n] => m = n
ASSUME TimingAssumption ==
  /\ STALE_THRESHOLD \in Nat
  /\ MIN_PULSE_SILENT \in Nat
  /\ LeaderlessWait \in [Nodes -> Nat]
  /\ Skew \in [Nodes -> Int]
  /\ Lockstep \in BOOLEAN
ASSUME BoundAssumption == MaxEpoch \in Nat /\ MaxFaults \in Nat
ASSUME FaultKindsAssumption ==
  FaultKinds \subseteq {"pulse read", "postgres", "publisher", "stop", "step-down"}
ASSUME CommandsAssumption == Commands \subseteq Nodes \X (Nodes \cup {None})

VARIABLES
  row,        \* the singleton row: member, epoch, age of heartbeat_at; or None
  yieldReq,   \* member named by an unexpired leader_yield_request, or None
  lease,      \* standby of the active maintenance lease, or None
  roleLeader, \* the fleet_workers row with role = 'leader', or None
  beat,       \* Pulse beat of each node: "absent", "healthy", "offline"
  beatYield,  \* nodes whose beat carries is_yielding
  up,         \* running daemons
  hung,       \* nodes whose Pulse publisher is hung or lost Redis
  epoch,      \* LeaderTick.epoch, in memory
  flag,       \* HeartbeatV2 is_yielding flag, in memory
  silent,     \* leader_pulse_silent_since: name and elapsed periods, or None
  leaderless, \* elapsed periods of leaderless_since, or -1
  cache,      \* LeaderCache: is_current_leader and the epoch of its info
  pc,         \* step of the tick in progress
  view,       \* what Look read
  op,         \* the SQL statement Decide chose
  res,        \* rows_affected() = 1
  ticked,     \* nodes that ticked in this period (used when Lockstep)
  faults      \* faults and commands so far

dbVars    == <<row, yieldReq, lease, roleLeader>>
pulseVars == <<beat, beatYield>>
procVars  == <<epoch, flag, silent, leaderless, cache>>
tickVars  == <<pc, view, op, res>>
envVars   == <<up, hung, faults>>
vars == <<dbVars, pulseVars, procVars, tickVars, envVars, ticked>>

OptNode == Nodes \cup {None}
MaxAge == STALE_THRESHOLD + 1
Row == [member : Nodes, epoch : Nat, age : 0 .. MaxAge]
Tracker == [name : Nodes, len : 0 .. MIN_PULSE_SILENT]
ASSUME NoneAssumption == None \notin Row /\ None \notin Tracker
Cache == [leader : BOOLEAN, epoch : Nat]
View == [alive : SUBSET Nodes, yielding : SUBSET Nodes, prefer : OptNode]
Kinds == {"claim", "yield", "refresh", "solo", "takeover", "silent"}
Op == [kind : Kinds, old : Nodes, epoch : Nat, best : OptNode]

NotLeader == [leader |-> FALSE, epoch |-> 0]
LeaderAt(e) == [leader |-> TRUE, epoch |-> e]

Owner == IF row = None THEN None ELSE row.member

Max2(a, b) == IF a > b THEN a ELSE b
Cap(a, b)  == IF a > b THEN b ELSE a

-----------------------------------------------------------------------------
\* The pure rules of the election.

\* Alive according to the view and not stepping down.
Eligible(v) == {c \in Candidates : c \in v.alive /\ c \notin v.yielding}

\* The best ranked eligible candidate, if there is one.
Preferred(v) == {c \in Eligible(v) : \A d \in Eligible(v) : Rank[c] <= Rank[d]}

\* The standby of an active lease if it is eligible, else the best ranked.
PickBest(v) ==
  IF v.prefer \in Eligible(v) THEN v.prefer
  ELSE IF Preferred(v) = {} THEN None ELSE CHOOSE c \in Preferred(v) : TRUE

\* Mutant: yields even to itself.
ShouldYieldToSelf(v, n) == v.prefer # None \/ n \in v.yielding

ShouldYield(v, n) == PickBest(v) # n /\ (v.prefer # None \/ n \in v.yielding)

\* The node compares its own wall clock with the row's Postgres timestamp.
LooksStale(n) == row.age + Skew[n] > STALE_THRESHOLD

\* Mutant: the bump has the wrong sign.
NextEpochBackwards(n, seen) == Max2(epoch[n], seen) - 1

NextEpoch(n, seen) == Max2(Max2(epoch[n], seen) + 1, 1)

\* observe_leader_pulse_silence: the tracker after seeing leader l (not) alive.
Observed(n, v, l) ==
  IF l \in v.alive THEN None
  ELSE IF silent[n] # None /\ silent[n].name = l THEN silent[n]
  ELSE [name |-> l, len |-> 0]

-----------------------------------------------------------------------------
Init ==
  /\ row = None /\ yieldReq = None /\ lease = None /\ roleLeader = None
  /\ beat = [n \in Nodes |-> "absent"] /\ beatYield = {}
  /\ up = Nodes /\ hung = {} /\ faults = 0
  /\ epoch = [n \in Nodes |-> 0]
  /\ flag = [n \in Nodes |-> FALSE]
  /\ silent = [n \in Nodes |-> None]
  /\ leaderless = [n \in Nodes |-> -1]
  /\ cache = [n \in Nodes |-> NotLeader]
  /\ pc = [n \in Nodes |-> "idle"]
  /\ view = [n \in Nodes |-> None]
  /\ op = [n \in Nodes |-> None]
  /\ res = [n \in Nodes |-> FALSE]
  /\ ticked = {}

\* One more fault or command, if this instance has the kind.
Fault(kind) == kind \in FaultKinds /\ faults < MaxFaults /\ faults' = faults + 1

-----------------------------------------------------------------------------
\* The election tick.

Reads == {"pulse", "yield request", "lease"}

\* Steps 1, 1b and 2b: Pulse health, own yield request, maintenance lease.  A
\* read that failed is an empty answer.  The node itself defaults to alive.
ViewOf(n, failed) ==
  LET seen == IF "pulse" \in failed THEN {} ELSE {m \in Nodes : beat[m] # "absent"}
  IN [alive    |-> {m \in seen : beat[m] = "healthy"} \cup ({n} \ seen),
      yielding |-> (beatYield \cap seen) \cup
                   {m \in {n} : yieldReq = m /\ "yield request" \notin failed},
      prefer   |-> IF "lease" \in failed THEN None ELSE lease]

\* The tick is over: no step in progress, one tick done in this period.
TickOver(n) ==
  /\ pc' = [pc EXCEPT ![n] = "idle"]
  /\ view' = [view EXCEPT ![n] = None]
  /\ op' = [op EXCEPT ![n] = None]
  /\ res' = [res EXCEPT ![n] = FALSE]
  /\ ticked' = IF Lockstep THEN ticked \cup {n} ELSE ticked

\* The tick goes on to execute a statement.
Choose(n, v, kind, old, e) ==
  /\ pc' = [pc EXCEPT ![n] = "sql"]
  /\ view' = [view EXCEPT ![n] = None]
  /\ op' = [op EXCEPT ![n] =
       [kind |-> kind, old |-> old, epoch |-> e, best |-> PickBest(v)]]
  /\ UNCHANGED <<res, ticked, cache>>

\* Propose an epoch: next_epoch also stores it, whether the claim wins or not.
Propose(n, v, kind, old, seen) ==
  /\ NextEpoch(n, seen) <= MaxEpoch
  /\ epoch' = [epoch EXCEPT ![n] = NextEpoch(n, seen)]
  /\ Choose(n, v, kind, old, NextEpoch(n, seen))

\* Mutant: the cache is left alone.
NoOpKeepsCache(n) == TickOver(n) /\ UNCHANGED <<cache, epoch>>

\* Nothing to do: not the leader.
NoOp(n) ==
  /\ cache' = [cache EXCEPT ![n] = NotLeader]
  /\ TickOver(n)
  /\ UNCHANGED epoch

\* should_wait_for_leaderless_grace, negated: the lease designates this node.
GraceWaived(n, v) == v.prefer = n

\* (None, _): claim the empty row when best, after the leaderless grace period
\* unless the active lease designates this node.
DecideEmpty(n, v) ==
  /\ row = None
  /\ LET best   == PickBest(v)
         waited == Max2(leaderless[n], 0)
     IN IF best = n
        THEN /\ leaderless' = [leaderless EXCEPT ![n] = waited]
             /\ IF ~GraceWaived(n, v) /\ waited < LeaderlessWait[n]
                THEN NoOp(n)
                ELSE Propose(n, v, "claim", n, 0)
        ELSE NoOp(n) /\ UNCHANGED leaderless
  /\ UNCHANGED silent

\* The row is ours: yield to the best candidate, or refresh the heartbeat.
DecideOwn(n, v) ==
  /\ Owner = n
  /\ leaderless' = [leaderless EXCEPT ![n] = -1]
  /\ LET best == PickBest(v)
     IN Choose(n, v, IF best = None THEN "solo"
                     ELSE IF ShouldYield(v, n) THEN "yield" ELSE "refresh", n, row.epoch)
  /\ UNCHANGED <<silent, epoch>>

\* The row is another node's: challenge it if stale or long silent on Pulse.
DecideOther(n, v) ==
  /\ Owner \notin {None, n}
  /\ leaderless' = [leaderless EXCEPT ![n] = -1]
  /\ IF PickBest(v) = None
     THEN NoOp(n) /\ UNCHANGED silent
     ELSE LET s == Observed(n, v, Owner)
              best == PickBest(v) = n
              long == s # None /\ s.len >= MIN_PULSE_SILENT
          IN /\ silent' = [silent EXCEPT ![n] = s]
             /\ \/ best /\ LooksStale(n) /\ Propose(n, v, "takeover", Owner, row.epoch)
                \/ best /\ ~LooksStale(n) /\ long /\ Propose(n, v, "silent", Owner, row.epoch)
                \/ ~(best /\ (LooksStale(n) \/ long)) /\ NoOp(n)

\* What an unreadable source counts as: an isolated node never reads Pulse.
Outage(n, failed) ==
  LET new == IF n \in Isolated THEN failed \ {"pulse"} ELSE failed
  IN IF new = {} THEN faults' = faults
     ELSE \A r \in new : Fault(IF r = "pulse" THEN "pulse read" ELSE "postgres")

\* A tick reads Pulse, the yield request and the lease, and goes on without what
\* it could not read.  The flag for the next beat is set.
Begin(n, failed) ==
  /\ n \in up /\ pc[n] = "idle" /\ (Lockstep => n \notin ticked)
  /\ n \in Isolated => "pulse" \in failed
  /\ Outage(n, failed)
  /\ flag' = [flag EXCEPT ![n] = (yieldReq = n /\ "yield request" \notin failed)]
  /\ UNCHANGED <<dbVars, pulseVars, up, hung>>

Look(n, failed) ==
  /\ ~Lockstep /\ Begin(n, failed)
  /\ view' = [view EXCEPT ![n] = ViewOf(n, failed)]
  /\ pc' = [pc EXCEPT ![n] = "row"]
  /\ UNCHANGED <<epoch, silent, leaderless, cache, op, res, ticked>>

\* The row is read, and with the view it decides.
Decision(n, v) == DecideEmpty(n, v) \/ DecideOwn(n, v) \/ DecideOther(n, v)

Decide(n) ==
  /\ n \in up /\ pc[n] = "row"
  /\ Decision(n, view[n])
  /\ UNCHANGED <<dbVars, pulseVars, flag, envVars>>

LookAndDecide(n, failed) == Lockstep /\ Begin(n, failed) /\ Decision(n, ViewOf(n, failed))

\* Mutant: takeover does not check the heartbeat again in SQL.
MatchesAnyAge(s, n) ==
  \/ s.kind = "claim" /\ row = None
  \/ s.kind \in {"yield", "refresh", "solo"} /\ Owner = n
  \/ s.kind \in {"takeover", "silent"} /\ Owner = s.old /\ row.epoch < s.epoch

\* The WHERE clause of each statement.
Matches(s, n) ==
  \/ s.kind = "claim" /\ row = None
  \/ s.kind \in {"yield", "refresh", "solo"} /\ Owner = n
  \/ /\ s.kind \in {"takeover", "silent"}
     /\ Owner = s.old /\ row.epoch < s.epoch
     /\ s.kind = "takeover" => row.age > STALE_THRESHOLD

\* What the statement leaves in the row.
Written(s, n) ==
  IF s.kind = "yield" THEN None
  ELSE IF s.kind \in {"refresh", "solo"} THEN [row EXCEPT !.age = 0]
  ELSE [member |-> n, epoch |-> s.epoch, age |-> 0]

\* The statement runs in Postgres, atomically.
Execute(n) ==
  /\ n \in up /\ pc[n] = "sql"
  /\ res' = [res EXCEPT ![n] = Matches(op[n], n)]
  /\ row' = IF Matches(op[n], n) THEN Written(op[n], n) ELSE row
  /\ pc' = [pc EXCEPT ![n] = "done"]
  /\ UNCHANGED <<yieldReq, lease, roleLeader, pulseVars, procVars, view, op,
                 envVars, ticked>>

\* The cache after the statement: leader iff it took effect, except that a
\* yield that deletes nothing also reports leadership.
CacheAfter(n) ==
  IF op[n].kind = "yield"
  THEN IF res[n] THEN NotLeader ELSE LeaderAt(op[n].epoch)
  ELSE IF res[n] THEN LeaderAt(op[n].epoch) ELSE NotLeader

\* Mutants: the row's epoch is not observed; the role is not published.
EpochNotObserved(n) == epoch
RoleNotPublished(n) == roleLeader

\* observe_epoch after a refresh only raises the stored value.
EpochAfter(n) ==
  IF op[n].kind \in {"refresh", "solo"} /\ res[n]
  THEN [epoch EXCEPT ![n] = Max2(@, op[n].epoch)] ELSE epoch

\* A refresh with a candidate alive also makes n the one with role = 'leader'.
RoleAfter(n) == IF op[n].kind = "refresh" /\ res[n] THEN n ELSE roleLeader

\* That update is best effort: its error is dropped.
PublishRole(n) ==
  \/ roleLeader' = RoleAfter(n) /\ faults' = faults
  \/ roleLeader # RoleAfter(n) /\ roleLeader' = roleLeader /\ Fault("postgres")

\* The result arrives: align the epoch, publish the role, update the cache; a
\* won pulse-silent challenge restarts the tracker.
Finish(n) ==
  /\ n \in up /\ pc[n] = "done"
  /\ epoch' = EpochAfter(n)
  /\ PublishRole(n)
  /\ silent' = IF op[n].kind = "silent" /\ res[n]
               THEN [silent EXCEPT ![n] = None] ELSE silent
  /\ cache' = [cache EXCEPT ![n] = CacheAfter(n)]
  /\ TickOver(n)
  /\ UNCHANGED <<row, yieldReq, lease, pulseVars, flag, leaderless, up, hung>>

\* A Postgres error ends the tick, in its reads (after the yield flag was set, if
\* the request could be read) or with a statement in flight, which may or may
\* not have taken effect.
TickError(n) ==
  /\ n \in up /\ (Lockstep => n \notin ticked)
  /\ Fault("postgres")
  /\ \E asked \in {yieldReq = n, FALSE} :
       flag' = IF pc[n] = "idle" THEN [flag EXCEPT ![n] = asked] ELSE flag
  /\ cache' = [cache EXCEPT ![n] = NotLeader]
  /\ TickOver(n)
  /\ UNCHANGED <<dbVars, pulseVars, epoch, silent, leaderless, up, hung>>

-----------------------------------------------------------------------------
\* Pulse: beats with a TTL in Redis.

\* The publisher writes the node's beat with the current flag.
PublishBeat(n) ==
  /\ n \in up \ hung
  /\ beat' = [beat EXCEPT ![n] = "healthy"]
  /\ beatYield' = IF flag[n] THEN beatYield \cup {n} ELSE beatYield \ {n}
  /\ <<beat', beatYield'>> # <<beat, beatYield>>
  /\ UNCHANGED <<dbVars, procVars, tickVars, envVars, ticked>>

\* The TTL of a beat nobody renews runs out.
BeatExpires(n) ==
  /\ n \notin up \ hung /\ beat[n] # "absent"
  /\ beat' = [beat EXCEPT ![n] = "absent"]
  /\ beatYield' = beatYield \ {n}
  /\ UNCHANGED <<dbVars, procVars, tickVars, envVars, ticked>>

\* The publisher hangs while the daemon keeps running.
PublisherHangs(n) ==
  /\ n \in up \ hung
  /\ Fault("publisher")
  /\ hung' = hung \cup {n}
  /\ UNCHANGED <<dbVars, pulseVars, procVars, tickVars, up, ticked>>

\* The publisher reconnects.
PublisherRecovers(n) ==
  /\ n \in hung
  /\ hung' = hung \ {n}
  /\ UNCHANGED <<dbVars, pulseVars, procVars, tickVars, up, faults, ticked>>

-----------------------------------------------------------------------------
\* Daemons stop and start; a fresh process has an empty memory.

Stopped(n) ==
  /\ n \in up
  /\ Fault("stop")
  /\ up' = up \ {n}
  /\ hung' = hung \ {n}
  /\ epoch' = [epoch EXCEPT ![n] = 0]
  /\ flag' = [flag EXCEPT ![n] = FALSE]
  /\ silent' = [silent EXCEPT ![n] = None]
  /\ leaderless' = [leaderless EXCEPT ![n] = -1]
  /\ cache' = [cache EXCEPT ![n] = NotLeader]
  /\ pc' = [pc EXCEPT ![n] = "idle"]
  /\ view' = [view EXCEPT ![n] = None]
  /\ op' = [op EXCEPT ![n] = None]
  /\ res' = [res EXCEPT ![n] = FALSE]
  /\ UNCHANGED <<dbVars, ticked>>

Crash(n) == Stopped(n) /\ UNCHANGED pulseVars

\* A clean shutdown publishes a last beat marked going_offline.
Shutdown(n) ==
  /\ n \notin hung
  /\ Stopped(n)
  /\ beat' = [beat EXCEPT ![n] = "offline"]
  /\ beatYield' = IF flag[n] THEN beatYield \cup {n} ELSE beatYield \ {n}

Restart(n) ==
  /\ n \notin up
  /\ up' = up \cup {n}
  /\ UNCHANGED <<dbVars, pulseVars, procVars, tickVars, hung, faults, ticked>>

-----------------------------------------------------------------------------
\* The operator: step down with or without a standby, clear; deadlines.

\* ff fleet leader step-down: member m (the leader by default) is asked to
\* yield; with --to s a maintenance lease designates s.
StepDown(m, s) ==
  /\ Fault("step-down")
  /\ yieldReq' = m
  /\ lease' = IF s = None THEN lease ELSE s
  /\ UNCHANGED <<row, roleLeader, pulseVars, procVars, tickVars, up, hung, ticked>>

\* step-down --clear deletes both; either also ends at its deadline.
ClearStepDown ==
  /\ <<yieldReq, lease>> # <<None, None>>
  /\ yieldReq' = None /\ lease' = None
  /\ UNCHANGED <<row, roleLeader, pulseVars, procVars, tickVars, envVars, ticked>>

YieldExpires ==
  /\ yieldReq # None
  /\ yieldReq' = None
  /\ UNCHANGED <<row, lease, roleLeader, pulseVars, procVars, tickVars, envVars, ticked>>

LeaseExpires ==
  /\ lease # None
  /\ lease' = None
  /\ UNCHANGED <<row, yieldReq, roleLeader, pulseVars, procVars, tickVars, envVars, ticked>>

-----------------------------------------------------------------------------
BeatCurrent(n) == beat[n] = "healthy" /\ (n \in beatYield <=> flag[n])

\* One period passes.
Advance ==
  /\ Lockstep => up \subseteq ticked /\ \A n \in up \ hung : BeatCurrent(n)
  /\ row' = IF row = None THEN None ELSE [row EXCEPT !.age = Cap(@ + 1, MaxAge)]
  /\ silent' = [n \in Nodes |->
       IF silent[n] = None THEN None
       ELSE [silent[n] EXCEPT !.len = Cap(@ + 1, MIN_PULSE_SILENT)]]
  /\ leaderless' = [n \in Nodes |->
       IF leaderless[n] = -1 THEN -1 ELSE Cap(leaderless[n] + 1, LeaderlessWait[n])]
  /\ ticked' = {}
  /\ UNCHANGED <<yieldReq, lease, roleLeader, pulseVars, epoch, flag, cache,
                 tickVars, envVars>>

Tick(n) ==
  \/ \E failed \in SUBSET Reads : Look(n, failed) \/ LookAndDecide(n, failed)
  \/ Decide(n) \/ Execute(n) \/ Finish(n)

Node(n) ==
  \/ Tick(n) \/ TickError(n)
  \/ PublishBeat(n) \/ BeatExpires(n) \/ PublisherHangs(n) \/ PublisherRecovers(n)
  \/ Crash(n) \/ Shutdown(n) \/ Restart(n)

Operator ==
  \/ \E m \in Nodes, s \in OptNode : <<m, s>> \in Commands /\ StepDown(m, s)
  \/ ClearStepDown

Next == (\E n \in Nodes : Node(n)) \/ Operator \/ YieldExpires \/ LeaseExpires \/ Advance

Spec == Init /\ [][Next]_vars

\* The ticker of a running daemon fires every period, its publisher beats every
\* period, Redis expires keys, deadlines and time pass.  Nothing makes a fault,
\* a command, a recovery or a restart happen.
Fairness ==
  /\ \A n \in Nodes : WF_vars(Tick(n)) /\ WF_vars(PublishBeat(n)) /\ WF_vars(BeatExpires(n))
  /\ WF_vars(YieldExpires) /\ WF_vars(LeaseExpires) /\ WF_vars(Advance)

FairSpec == Spec /\ Fairness

-----------------------------------------------------------------------------
\* Properties.

\* Every variable keeps the type of the struct field, column or key it models.
TypeOK ==
  /\ row \in Row \cup {None}
  /\ yieldReq \in OptNode /\ lease \in OptNode /\ roleLeader \in OptNode
  /\ beat \in [Nodes -> {"absent", "healthy", "offline"}]
  /\ beatYield \subseteq Nodes
  /\ up \subseteq Nodes /\ hung \subseteq Nodes /\ faults \in 0 .. MaxFaults
  /\ epoch \in [Nodes -> Nat]
  /\ flag \in [Nodes -> BOOLEAN]
  /\ silent \in [Nodes -> Tracker \cup {None}]
  /\ leaderless \in [Nodes -> Nat \cup {-1}]
  /\ cache \in [Nodes -> Cache]
  /\ pc \in [Nodes -> {"idle", "row", "sql", "done"}]
  /\ view \in [Nodes -> View \cup {None}]
  /\ op \in [Nodes -> Op \cup {None}]
  /\ res \in [Nodes -> BOOLEAN]
  /\ ticked \subseteq Nodes

\* The epoch a cached leader publishes to its subsystems (LeaderInfo.epoch) is
\* the epoch of the row it owns, and its in-memory counter has caught up with
\* that row, so whatever it claims next carries a higher epoch.  Only while a
\* statement's result is on its way may the row be ahead of the cache.
CachedLeaderKnowsEpoch ==
  \A n \in Nodes :
    cache[n].leader /\ Owner = n /\ pc[n] # "done" =>
      cache[n].epoch = row.epoch /\ epoch[n] >= row.epoch

\* A leader is displaced only with a higher epoch and for cause: its heartbeat
\* is stale by Postgres' clock at that moment, or the challenger itself has
\* tracked this very leader silent on Pulse for the minimum time.
DisplacedForCause ==
  [][\A n \in Nodes :
       row # None /\ row' # None /\ row.member # n /\ row'.member = n =>
         /\ row'.epoch > row.epoch
         /\ \/ row.age > STALE_THRESHOLD
            \/ /\ silent[n] # None
               /\ silent[n].name = row.member
               /\ silent[n].len >= MIN_PULSE_SILENT]_vars

\* A leader deletes the row only after seeing, in the same tick, another
\* candidate that is alive and not stepping down itself: a yield with no
\* eligible successor leaves the leader in place.
YieldHasSuccessor ==
  [][\A n \in Nodes :
       Owner = n /\ row' = None => op[n].best \in Candidates \ {n}]_vars

\* A node whose cache says leader after the row moved on finds out: its
\* leader-gated subsystems do not run beside the new leader's forever.
DisplacedStandsDown ==
  \A n \in Nodes : []<>(cache[n].leader => Owner = n)

\* When daemons tick every period, some candidate stays up and at most one Pulse
\* publisher stays hung, leadership settles after the last fault: one running
\* node owns the row for good, its cache says so and fleet_workers.role names it.
\* (With two publishers hung the two nodes challenge each other forever.)
LeadershipSettles ==
  <>[](up \cap Candidates # {} /\ Cardinality(hung) <= 1) =>
    \E n \in Nodes : <>[](n \in up /\ Owner = n /\ cache[n].leader /\ roleLeader = n)
=============================================================================
