---------------------------- MODULE WorkItemLease ----------------------------
(***************************************************************************)
(* Work items and the leases that hand them to slots: the scheduler pass   *)
(* of the leader (ff-agent/work_item_scheduler.rs), the dispatch loop and  *)
(* the builds of every host (ff-agent/work_item_dispatch.rs), the merge    *)
(* drain (ff-agent/work_item_merge_drain.rs), the recovery statements of   *)
(* ff-db/queries.rs, and the operator's `ff pm` commands.                  *)
(*                                                                         *)
(* A transaction or a single statement is one step.  Everything between    *)
(* two of them can interleave: a scheduler pass works on the lists it      *)
(* read, a build holds a lease it took many minutes ago, the merge drain   *)
(* and the worktree reaper act on rows read before calls to GitHub and     *)
(* git.                                                                    *)
(*                                                                         *)
(* Left out: kinds other than task and the relations between parents and   *)
(* children, disabled slots, priorities, fair share and the per-host       *)
(* dispatch capacity (they choose between assignments that are possible),  *)
(* parked items, and slots in status error, which are idle here.           *)
(***************************************************************************)
EXTENDS Integers, FiniteSets

CONSTANTS
  Items,        \* work items of kind task
  Hosts,        \* computers running the daemon
  Slots,        \* rows of sub_agents
  HostOf,       \* computer of a slot
  None,         \* SQL NULL
  Blockers,     \* items whose merge an item waits for
  Schedulers,   \* daemons whose leader cache says they lead
  MaxAttempts,  \* MAX_DISPATCH_ATTEMPTS and MAX_BUILD_ATTEMPTS, both 5
  MaxRetries,   \* MAX_FAILED_RETRIES and MAX_SELF_HEAL_RETRIES, both 3
  LocalTries,   \* LOCAL_LANE_MAX_TRIES, 3
  LaneCap,      \* the 2 of attempts = LEAST(attempts, 2)
  PullRequest,  \* what GitHub may answer about a pull request
  Expires,      \* a lease may expire before the reaper calls it stale
  MaxLeases,    \* bound: leases granted
  MaxSpawn,     \* bound: dispatch tasks of a lease waiting to start
  EventKinds,   \* the faults and commands of this instance
  MaxEvents     \* bound on their number

LeaseIds == 1 .. MaxLeases

ASSUME SlotsAssumption ==
  /\ HostOf \in [Slots -> Hosts]
  /\ None \notin Items /\ None \notin Hosts /\ None \notin Slots
  /\ Blockers \in [Items -> SUBSET Items]
ASSUME CountsAssumption ==
  /\ MaxAttempts \in Nat /\ MaxRetries \in Nat /\ LocalTries \in Nat /\ LaneCap \in Nat
  /\ MaxLeases \in Nat /\ MaxSpawn \in Nat /\ MaxEvents \in Nat
ASSUME EnvironmentAssumption ==
  /\ PullRequest \subseteq {"merged", "closed", "mergeable", "failed", "conflict", "semantic", "rerun"}
  /\ Expires \in BOOLEAN

VARIABLES
  item,      \* status, attempts and assigned_computer of each item
  completed, \* items whose completed_at is set
  retries,   \* retry_count of each item
  deployed,  \* items with a diagnosis whose remediation_status is 'deployed'
  slot,      \* current_work_item_id of each slot; a slot is busy iff it is set
  claim,     \* who took a slot: "lease", "cli" (`ff agent dispatch`, without a
             \* lease), or "cleanup" (status cleanup_pending)
  cli,       \* slots that a running `ff agent dispatch` is going to release
  lease,     \* the rows of work_item_leases, in the order of their grant
  beating,   \* leases with a running heartbeat loop
  spawned,   \* dispatch tasks of a lease that have not started
  stage,     \* how far the build under a lease has come
  worktree,  \* computer of an item's uncleaned worktree row
  stale,     \* items whose worktree row has status 'stale'
  cleaning,  \* the worktree reaper's pass on each host: rows still to clean
  merge,     \* status and merge_attempts of an item's merge queue row
  drain,     \* the merge drain's pass
  pool,      \* each scheduler's pass: the lists it read
  up,        \* hosts whose daemon runs
  events     \* faults and commands so far

buildVars == <<beating, spawned, stage>>
mergeVars == <<merge, drain>>
cleanVars == <<worktree, stale, cleaning>>
budgetVars == <<retries, deployed>>
retryVars == <<completed, budgetVars>>
slotVars == <<slot, claim, cli>>
vars == <<item, slotVars, lease, buildVars, mergeVars, cleanVars, retryVars, pool, up, events>>

Terminal == {"merged", "done", "failed", "cancelled"}
Statuses == Terminal \cup {"ready", "claimed", "building", "in_review"}
Held == {"claimed", "building", "reviewing"}    \* lease_state with released_at NULL

\* The ways a lease can be overdue: its heartbeat or its host's dispatch tick
\* is stale, it is older than MAX_LEASE_DURATION_SECS, or it has expired.
Overdue == {"beat", "tick", "age", "expiry"}

Item(st, n, h) == [status |-> st, attempts |-> n, pin |-> h]
Lease(i, s, st, late) == [item |-> i, slot |-> s, state |-> st, late |-> late]
Merge(st, n) == [status |-> st, attempts |-> n]
NoPass == [step |-> "idle", items |-> {}, slots |-> {}, live |-> {}]
Idle == [item |-> None, step |-> "idle"]

Init ==
  /\ item = [i \in Items |-> Item("ready", 0, None)]
  /\ completed = {} /\ retries = [i \in Items |-> 0] /\ deployed = {}
  /\ slot = [s \in Slots |-> None] /\ claim = [s \in Slots |-> "lease"] /\ cli = {}
  /\ lease = [l \in LeaseIds |-> Lease(None, None, "none", {})]
  /\ beating = {}
  /\ spawned = [l \in LeaseIds |-> 0]
  /\ stage = [l \in LeaseIds |-> "none"]
  /\ worktree = [i \in Items |-> None]
  /\ stale = {} /\ cleaning = [h \in Hosts |-> {}]
  /\ merge = [i \in Items |-> Merge("none", 0)]
  /\ drain = Idle
  /\ pool = [x \in Schedulers |-> NoPass]
  /\ up = Hosts /\ events = 0

\* One more fault or command, if this instance has the kind.
Event(kind) == kind \in EventKinds /\ events < MaxEvents /\ events' = events + 1

Least(a, b) == IF a < b THEN a ELSE b
Greatest(a, b) == IF a > b THEN a ELSE b

Active(l) == lease[l].state \in Held
LeasesOf(i) == {l \in LeaseIds : Active(l) /\ lease[l].item = i}
LeasesOn(s) == {l \in LeaseIds : Active(l) /\ lease[l].slot = s}
LeasesAt(h) == {l \in LeaseIds : Active(l) /\ HostOf[lease[l].slot] = h}

\* The leases L released, and the slots that still name the leased item.
Released(L) ==
  [l \in LeaseIds |-> IF l \in L
                      THEN Lease(lease[l].item, lease[l].slot, "released", {})
                      ELSE lease[l]]
SlotsHeld(L) == {s \in Slots : \E l \in L : lease[l].slot = s /\ slot[s] = lease[l].item}
Freed(S) == [s \in Slots |-> IF s \in S THEN None ELSE slot[s]]

\* The slots are written; one that changes hands is idle, or busy for a lease.
Write(f) ==
  /\ slot' = f
  /\ claim' = [s \in Slots |-> IF f[s] = slot[s] THEN claim[s] ELSE "lease"]
  /\ UNCHANGED cli

Status(i, st) == [item EXCEPT ![i] = Item(st, item[i].attempts, item[i].pin)]

-----------------------------------------------------------------------------
\* The scheduler pass, evaluate_work_items.

\* pg_ready_work_items, and again in the INSERT of pg_assign_work_item.
Schedulable(i) ==
  /\ item[i].status = "ready"
  /\ LeasesOf(i) = {}
  /\ \A b \in Blockers[i] : item[b].status = "merged"

\* Mutant: a slot is free as soon as its row says so.
FreeByRow(s) == slot[s] = None

\* pg_free_slots.
FreeSlot(s) == slot[s] = None /\ LeasesOn(s) = {}

Pass(x, step, items, slots, live) ==
  pool' = [pool EXCEPT ![x] = [step |-> step, items |-> items, slots |-> slots, live |-> live]]
PassLeaves == UNCHANGED <<item, slotVars, lease, buildVars, mergeVars, cleanVars, retryVars, up, events>>

\* The ready items of a pass; without any it ends at once.
ReadReady(x) ==
  LET items == {[i |-> i, pin |-> item[i].pin] : i \in {j \in Items : Schedulable(j)}} IN
  /\ pool[x].step = "idle" /\ items # {}
  /\ Pass(x, "ready", items, {}, {}) /\ PassLeaves

\* A later query, the free slots on live hosts: those whose dispatch tick looks
\* fresh, which lags behind the hosts that run.
ReadSlots(x, live) ==
  LET slots == {s \in Slots : FreeSlot(s) /\ HostOf[s] \in live} IN
  /\ pool[x].step = "ready" /\ slots # {}
  /\ Pass(x, "assign", pool[x].items, slots, live) /\ PassLeaves

\* The slots try_assign_item may take: a pinned item's are looked up again.
SlotsFor(x, p) ==
  IF p.pin = None THEN pool[x].slots
  ELSE {s \in Slots : FreeSlot(s) /\ HostOf[s] = p.pin /\ p.pin \in pool[x].live}

\* The item and the slot leave the lists, assigned or not.
Consume(x, p, s) ==
  Pass(x, "assign", pool[x].items \ {p}, pool[x].slots \ {s}, pool[x].live)

\* pg_assign_work_item succeeds: the slot is idle and the item still ready.  The
\* lease l is the next row, and the scheduler's process starts its heartbeat.
Assign(x, p, s, l) ==
  /\ pool[x].step = "assign" /\ p \in pool[x].items /\ s \in SlotsFor(x, p)
  /\ slot[s] = None /\ Schedulable(p.i)
  /\ lease[l].state = "none" /\ \A m \in LeaseIds : m < l => lease[m].state # "none"
  /\ lease' = [lease EXCEPT ![l] = Lease(p.i, s, "claimed", {})]
  /\ Write([slot EXCEPT ![s] = p.i])
  /\ item' = [item EXCEPT ![p.i] = Item("claimed", item[p.i].attempts, HostOf[s])]
  /\ beating' = beating \cup {l}
  /\ Consume(x, p, s)
  /\ UNCHANGED <<spawned, stage, mergeVars, cleanVars, retryVars, up, events>>

\* The row changed since it was read: pg_assign_work_item returns false.
AssignLost(x, p, s) ==
  /\ pool[x].step = "assign" /\ p \in pool[x].items /\ s \in SlotsFor(x, p)
  /\ slot[s] # None \/ ~ Schedulable(p.i)
  /\ Consume(x, p, s) /\ PassLeaves

\* No slot is found, or none is left for any item, or the process stops.
EndPass(x) ==
  /\ pool[x].step # "idle"
  /\ \/ (pool[x].step = "assign" => \A p \in pool[x].items : SlotsFor(x, p) = {}) /\ UNCHANGED events
     \/ Event("leader stop")
  /\ pool' = [pool EXCEPT ![x] = NoPass]
  /\ UNCHANGED <<item, slotVars, lease, buildVars, mergeVars, cleanVars, retryVars, up>>

-----------------------------------------------------------------------------
\* The dispatch loop of a host and the builds it spawns.

\* assigned_work_items: claimed items of the busy slots, with their lease.
Assigned(h) ==
  {l \in LeasesAt(h) : /\ slot[lease[l].slot] = lease[l].item
                       /\ item[lease[l].item].status = "claimed"
                       /\ spawned[l] < MaxSpawn}

\* evaluate_work_item_dispatch: the tick of every active lease of the host is
\* renewed and dispatch tasks are spawned, one here, more by further ticks.  A
\* second tick may find an item whose first task has not started yet.
DispatchTick(h, L) ==
  /\ h \in up
  /\ L \subseteq Assigned(h) /\ Cardinality(L) <= 1 /\ (L = {} => Assigned(h) = {})
  /\ L # {} \/ \E l \in LeasesAt(h) : "tick" \in lease[l].late
  /\ lease' = [l \in LeaseIds |->
                 IF l \in LeasesAt(h)
                 THEN Lease(lease[l].item, lease[l].slot, lease[l].state, lease[l].late \ {"tick"})
                 ELSE lease[l]]
  /\ spawned' = [l \in LeaseIds |-> IF l \in L THEN spawned[l] + 1 ELSE spawned[l]]
  /\ UNCHANGED <<item, slotVars, beating, stage, mergeVars, cleanVars, retryVars, pool, up, events>>

Starts(l) == spawned[l] > 0 /\ spawned' = [spawned EXCEPT ![l] = @ - 1]

\* mark_building: item and lease turn to building together, the heartbeat is
\* fresh, the grant renewed, and the build's own heartbeat loop takes over.
MarkBuilding(l) ==
  LET i == lease[l].item IN
  /\ Starts(l)
  /\ item[i].status = "claimed"
  /\ lease[l].state = "claimed" /\ "expiry" \notin lease[l].late
  /\ item' = Status(i, "building")
  /\ lease' = [lease EXCEPT ![l] = Lease(i, lease[l].slot, "building",
                                         lease[l].late \ {"beat", "expiry"})]
  /\ beating' = beating \cup {l}
  /\ stage' = [stage EXCEPT ![l] = "started"]
  /\ UNCHANGED <<slotVars, mergeVars, cleanVars, retryVars, pool, up, events>>

\* The item is not claimed any more: another task took it.
SkipBuilding(l) ==
  /\ Starts(l) /\ item[lease[l].item].status # "claimed"
  /\ UNCHANGED <<item, slotVars, lease, beating, stage, mergeVars, cleanVars, retryVars, pool, up, events>>

\* Mutant: the slot is forgotten.
ReleaseLeaseOnly(l) ==
  lease' = Released({m \in {l} : Active(m)}) /\ UNCHANGED slotVars

\* release_slot_and_lease_tx: this lease if it is active, and its slot if the
\* slot still names the item.
ReleaseOwn(l) ==
  LET L == {m \in {l} : Active(m)} IN
  lease' = Released(L) /\ Write(Freed(SlotsHeld(L)))

\* The item is claimed but not under this lease, or the lease expired: the task
\* bails out, and requeue_or_fail, which wants the item building, only releases.
BailBuilding(l) ==
  /\ Starts(l) /\ item[lease[l].item].status = "claimed"
  /\ lease[l].state # "claimed" \/ "expiry" \in lease[l].late
  /\ ReleaseOwn(l)
  /\ UNCHANGED <<item, beating, stage, mergeVars, cleanVars, retryVars, pool, up, events>>

\* Mutant: the statement looks at the item only.
AuthorityOfItem(l) == item[lease[l].item].status = "building"

\* What every statement that ends a build asks for: the item is building, this
\* very lease is active and not expired, and the slot names the item.
Authority(l) ==
  /\ item[lease[l].item].status = "building"
  /\ Active(l) /\ "expiry" \notin lease[l].late
  /\ slot[lease[l].slot] = lease[l].item

\* The task of the lease ends, and with it its heartbeat loop.
Ends(l) == stage' = [stage EXCEPT ![l] = "none"] /\ beating' = beating \ {l}

\* The pre-build gate: the acceptance check passes already.
AcceptedAlready(l) ==
  /\ stage[l] = "started" /\ Authority(l)
  /\ item' = Status(lease[l].item, "done")
  /\ completed' = completed \cup {lease[l].item}
  /\ ReleaseOwn(l) /\ Ends(l)
  /\ UNCHANGED <<spawned, mergeVars, cleanVars, budgetVars, pool, up, events>>

\* create_worktree_for_item: the row is keyed by the task branch, which is a
\* function of the item; whoever comes last owns it.
CreateWorktree(l) ==
  /\ stage[l] = "started"
  /\ worktree' = [worktree EXCEPT ![lease[l].item] = HostOf[lease[l].slot]]
  /\ stale' = stale \ {lease[l].item}
  /\ stage' = [stage EXCEPT ![l] = "checkout"]
  /\ UNCHANGED <<item, slotVars, lease, beating, spawned, mergeVars, cleaning, retryVars, pool, up, events>>

\* Lane 1 verifies that the work is done already: the item is closed in a
\* statement of its own, then the task bails out.
AlreadyDone(l) ==
  /\ stage[l] = "checkout" /\ Authority(l)
  /\ item' = Status(lease[l].item, "done")
  /\ completed' = completed \cup {lease[l].item}
  /\ stage' = [stage EXCEPT ![l] = "bailed"]
  /\ UNCHANGED <<slotVars, lease, beating, spawned, mergeVars, cleanVars, budgetVars, pool, up, events>>

\* requeue_or_fail and mark_failed_and_release on the item.
Spent(i) ==
  IF item[i].attempts + 1 >= MaxAttempts THEN Item("failed", item[i].attempts, item[i].pin)
  ELSE Item("ready", item[i].attempts + 1, item[i].pin)

\* An error, a timeout, no diff, a rejected review: requeue_or_fail.
Fail(l) ==
  /\ stage[l] # "none"
  /\ item' = IF Authority(l) THEN [item EXCEPT ![lease[l].item] = Spent(lease[l].item)] ELSE item
  /\ ReleaseOwn(l) /\ Ends(l)
  /\ UNCHANGED <<spawned, mergeVars, cleanVars, retryVars, pool, up, events>>

\* The build is pushed, approved and enqueued; the lease keeps the slot.
MarkReadyForReview(l) ==
  LET i == lease[l].item IN
  /\ stage[l] = "checkout" /\ Authority(l)
  /\ item' = Status(i, "in_review")
  /\ merge' = [merge EXCEPT ![i] = Merge("queued", merge[i].attempts)]
  /\ lease' = [lease EXCEPT ![l] = Lease(i, lease[l].slot, "reviewing", {})]
  /\ Ends(l)
  /\ UNCHANGED <<slotVars, spawned, drain, cleanVars, retryVars, pool, up, events>>

\* mark_ready_for_review finds the item or the lease changed: the result is
\* ignored and nothing released.
IgnoreStaleResult(l) ==
  /\ stage[l] = "checkout" /\ ~ Authority(l)
  /\ Ends(l)
  /\ UNCHANGED <<item, slotVars, lease, spawned, mergeVars, cleanVars, retryVars, pool, up, events>>

-----------------------------------------------------------------------------
\* Hosts, heartbeats and time.

\* The daemon of a host stops: its tasks, their heartbeats and the worktree
\* reaper's pass go with it.
HostStop(h) ==
  LET here == {l \in LeaseIds : stage[l] # "none" /\ HostOf[lease[l].slot] = h} IN
  /\ Event("stop") /\ h \in up
  /\ up' = up \ {h}
  /\ beating' = beating \ here
  /\ stage' = [l \in LeaseIds |-> IF l \in here THEN "none" ELSE stage[l]]
  /\ spawned' = [l \in LeaseIds |->
       IF spawned[l] > 0 /\ HostOf[lease[l].slot] = h THEN 0 ELSE spawned[l]]
  /\ cleaning' = [cleaning EXCEPT ![h] = {}]
  /\ UNCHANGED <<item, slotVars, lease, mergeVars, worktree, stale, retryVars, pool>>

\* It starts again: pg_reset_busy_slots_on_startup idles all its slots.
HostStart(h) ==
  /\ h \notin up
  /\ up' = up \cup {h}
  /\ Write(Freed({s \in Slots : HostOf[s] = h /\ claim[s] # "cleanup"}))
  /\ UNCHANGED <<item, lease, buildVars, mergeVars, cleanVars, retryVars, pool, events>>

\* pg_heartbeat_work_item_lease would find its row.
BeatLands(l) ==
  /\ lease[l].state \in {"claimed", "building"} /\ "expiry" \notin lease[l].late
  /\ item[lease[l].item].status = lease[l].state
  /\ slot[lease[l].slot] = lease[l].item

\* A heartbeat loop ends for good: fenced out, after three errors in a row, or
\* with the leader's process, where the loops of claimed leases run.
HeartbeatEnds(l) ==
  /\ l \in beating
  /\ \/ ~ BeatLands(l) /\ UNCHANGED events
     \/ Event("heartbeat lost")
  /\ beating' = beating \ {l}
  /\ UNCHANGED <<item, slotVars, lease, spawned, stage, mergeVars, cleanVars, retryVars, pool, up>>

\* Time passes without a heartbeat, without a tick of the host, or until the
\* age cap, which a build of 40 minutes under a lease that waited can reach.
PassesDue(l, why) ==
  /\ lease[l].state \in {"claimed", "building"} /\ why \notin lease[l].late
  /\ \/ why = "beat" /\ l \notin beating /\ UNCHANGED events
     \/ why = "expiry" /\ l \notin beating /\ Expires /\ UNCHANGED events
     \/ why = "tick" /\ HostOf[lease[l].slot] \notin up /\ UNCHANGED events
     \/ why = "age" /\ Event("age")
  /\ lease' = [lease EXCEPT ![l] =
                 Lease(lease[l].item, lease[l].slot, lease[l].state, lease[l].late \cup {why})]
  /\ UNCHANGED <<item, slotVars, buildVars, mergeVars, cleanVars, retryVars, pool, up>>

-----------------------------------------------------------------------------
\* Recovery.

\* Mutant: only the dispatch tick of the host counts.
StaleByTick(l) == lease[l].state \in {"claimed", "building"} /\ "tick" \in lease[l].late

\* The predicate of pg_reap_stale_work_item_leases.
Stale(l) ==
  lease[l].state \in {"claimed", "building"} /\ lease[l].late \cap {"beat", "tick", "age"} # {}

\* Mutants: every status an operator did not set is rewritten; a claimed item
\* is forgotten.
RecoverableAny(i) == item[i].status # "cancelled"
RecoverableBuilding(i) == item[i].status = "building"

\* stale_lease_status_is_recoverable: the statuses the lease owns.
Recoverable(i) == item[i].status \in {"claimed", "building"}

\* Mutant: the item gets the state of the lease.
ReapedStale(i) ==
  Item(IF item[i].attempts + 1 >= MaxAttempts THEN "failed" ELSE "stale",
       item[i].attempts + 1, None)

\* stale_lease_attempt_decision.
Reaped(i) ==
  Item(IF item[i].attempts + 1 >= MaxAttempts THEN "failed" ELSE "ready",
       item[i].attempts + 1, None)

\* One transaction of the reaper; a slot with another lease is left alone.
Reap(l) ==
  LET i == lease[l].item
      s == lease[l].slot
  IN
  /\ Stale(l)
  /\ lease' = Released({l})
  /\ Write(IF slot[s] \in {i, None} /\ LeasesOn(s) = {l} THEN Freed({s}) ELSE slot)
  /\ item' = IF Recoverable(i) THEN [item EXCEPT ![i] = Reaped(i)] ELSE item
  /\ UNCHANGED <<buildVars, mergeVars, cleanVars, retryVars, pool, up, events>>

\* What pg_reconcile_sub_agent_slots makes of a slot: its newest active lease,
\* or free where the lease it names was released.
Reconciled(s) ==
  IF LeasesOn(s) # {}
  THEN lease[CHOOSE l \in LeasesOn(s) : \A m \in LeasesOn(s) : m <= l].item
  ELSE IF claim[s] # "cleanup" /\
          \E l \in LeaseIds : lease[l].state = "released" /\ lease[l].slot = s /\ lease[l].item = slot[s]
  THEN None ELSE slot[s]
ReconcileSlots ==
  /\ Write([s \in Slots |-> Reconciled(s)])
  /\ slot' # slot
  /\ UNCHANGED <<item, lease, buildVars, mergeVars, cleanVars, retryVars, pool, up, events>>

\* A failed item returns to the pool, after the cool-down of completed_at.
Requeued(i) == [item EXCEPT ![i] = Item("ready", Greatest(item[i].attempts, LocalTries), None)]
RetryDue(i) ==
  /\ item[i].status = "failed" /\ i \in completed /\ retries[i] < MaxRetries
  /\ item' = Requeued(i)
  /\ retries' = [retries EXCEPT ![i] = @ + 1] /\ UNCHANGED deployed
  /\ completed' = completed \ {i}
  /\ UNCHANGED <<buildVars, mergeVars, cleanVars, pool, up, events>>
\* auto_requeue_failed_work_items.
AutoRequeue(i) ==
  /\ RetryDue(i) /\ LeasesOf(i) = {}
  /\ UNCHANGED <<lease, slotVars>>
\* requeue_transient_failures: the item's leases and slots are released too.
SelfHeal(i) ==
  /\ RetryDue(i)
  /\ lease' = Released(LeasesOf(i))
  /\ Write(Freed({s \in Slots : slot[s] = i}))

\* RECONCILE_DEPLOY_PENDING_LOCAL_FAILURES_SQL: the remedy that a cloud build
\* of the item asked for, before it was enqueued, has reached the local lane.
DeployRemedy(i) ==
  /\ Event("remedy") /\ merge[i].status # "none"
  /\ deployed' = deployed \cup {i}
  /\ UNCHANGED <<item, slotVars, lease, buildVars, mergeVars, cleanVars, completed, retries, pool, up>>

\* REQUEUE_DEPLOYED_LOCAL_RETESTS_SQL: the item is built again to try it.
RequeueLocalRetest(i) ==
  /\ i \in deployed /\ item[i].status \in {"done", "failed", "merged"} /\ LeasesOf(i) = {}
  /\ deployed' = deployed \ {i}
  /\ item' = [item EXCEPT ![i] = Item("ready", 0, None)]
  /\ completed' = completed \ {i}
  /\ UNCHANGED <<slotVars, lease, buildVars, mergeVars, cleanVars, retries, pool, up, events>>

\* Busy without a lease for an hour, which a running `ff agent dispatch` never
\* is: its calls time out after two minutes.
Abandoned(s) == slot[s] # None /\ claim[s] # "cleanup" /\ s \notin cli /\ LeasesOn(s) = {}

\* SubAgentReaper.run_once.
ResetStuckSlot(s) ==
  /\ Abandoned(s) /\ Write(Freed({s}))
  /\ UNCHANGED <<item, lease, buildVars, mergeVars, cleanVars, retryVars, pool, up, events>>

\* The statuses in which the next two statements leave an item.
Closed == {"done", "failed", "cancelled"}
BackToReady(i) ==
  IF item[i].status \in Closed THEN item
  ELSE [item EXCEPT ![i] = Item("ready", item[i].attempts, None)]

\* reap_stale_busy_slots: a slot whose item has a worktree waits for its
\* clean-up, another is idle and its item ready at once.
ReapBusySlot(s) ==
  LET i == slot[s] IN
  /\ Abandoned(s)
  /\ IF worktree[i] # None
     THEN /\ stale' = stale \cup {i} /\ claim' = [claim EXCEPT ![s] = "cleanup"]
          /\ UNCHANGED <<item, slot, cli>>
     ELSE item' = BackToReady(i) /\ Write(Freed({s})) /\ UNCHANGED stale
  /\ UNCHANGED <<lease, buildVars, mergeVars, worktree, cleaning, retryVars, pool, up, events>>

\* pg_reapable_worktrees: the worktrees of terminal items on this host, and
\* those that are stale.
WorktreeScan(h) ==
  LET found == {i \in Items : worktree[i] = h /\ (item[i].status \in Terminal \/ i \in stale)} IN
  /\ h \in up /\ cleaning[h] = {} /\ found # {}
  /\ cleaning' = [cleaning EXCEPT ![h] = {[item |-> i, stale |-> i \in stale] : i \in found}]
  /\ UNCHANGED <<item, slotVars, lease, buildVars, mergeVars, worktree, stale, retryVars, pool, up, events>>

\* After the work on disk, the transaction that closes the row and releases
\* every lease and slot of the item, whatever became of it since the scan; for
\* a row that was stale the slots in cleanup_pending only, and the item is ready.
CleanWorktree(h, c) ==
  /\ c \in cleaning[h]
  /\ cleaning' = [cleaning EXCEPT ![h] = @ \ {c}]
  /\ worktree' = [worktree EXCEPT ![c.item] = None] /\ stale' = stale \ {c.item}
  /\ lease' = Released(LeasesOf(c.item))
  /\ Write(Freed({s \in Slots : slot[s] = c.item /\ (c.stale => claim[s] = "cleanup")}))
  /\ item' = IF c.stale THEN BackToReady(c.item) ELSE item
  /\ UNCHANGED <<buildVars, mergeVars, retryVars, pool, up, events>>

-----------------------------------------------------------------------------
\* The merge drain of the leader, evaluate_merge_queue.

\* pg_next_merge_queue_item; rotation makes any row the next one.  Calls to
\* GitHub follow: the state of the pull request and whether it can be merged.
MergePick(i) ==
  /\ drain.step = "idle" /\ merge[i].status = "queued"
  /\ drain' = [item |-> i, step |-> "github"]
  /\ UNCHANGED <<item, slotVars, lease, buildVars, merge, cleanVars, retryVars, pool, up, events>>

\* pg_mark_merge_ci_running, by id whatever the row has become: it is active
\* again ("queued" stands for queued, ci_running and mergeable).  The checks of
\* the pull request, and its merge, follow.
MergeWatch ==
  /\ drain.step = "github" /\ item[drain.item].status # "merged"
  /\ merge' = [merge EXCEPT ![drain.item] = Merge("queued", merge[drain.item].attempts)]
  /\ drain' = [item |-> drain.item, step |-> "checks"]
  /\ UNCHANGED <<item, slotVars, lease, buildVars, cleanVars, retryVars, pool, up, events>>

\* The answer of this pass: GitHub says so and the drain is at one of the steps.
\* A pull request that is merged, by hand too, is never anything else again.
Answers(answer, steps) ==
  /\ drain.step \in steps /\ answer \in PullRequest
  /\ item[drain.item].status = "merged" => answer = "merged"

MergeRow(i, st, n) == merge' = [merge EXCEPT ![i] = Merge(st, n)]
MergeLeaves == UNCHANGED <<slotVars, lease, buildVars, cleanVars, budgetVars, pool, up, events>>

\* pg_mark_merge_merged, after the squash merge or a merge found at GitHub.
MergeMerged ==
  LET i == drain.item IN
  /\ Answers("merged", {"github", "checks"})
  /\ item' = Status(i, "merged") /\ completed' = completed \cup {i}
  /\ MergeRow(i, "merged", merge[i].attempts)
  /\ drain' = Idle /\ MergeLeaves

\* FailClosed: the pull request was closed without a merge.
MergeClosed ==
  LET i == drain.item
      open == item[i].status \in {"in_review", "ready", "building"}
  IN
  /\ Answers("closed", {"github"})
  /\ item' = IF open THEN Status(i, "cancelled") ELSE item
  /\ completed' = IF open THEN completed \cup {i} ELSE completed
  /\ MergeRow(i, "failed", merge[i].attempts)
  /\ drain' = Idle /\ MergeLeaves

\* pg_mark_merge_mergeable: the checks passed, merging is left to the operator.
MergeMergeable ==
  LET i == drain.item IN
  /\ Answers("mergeable", {"checks"})
  /\ MergeRow(i, "queued", merge[i].attempts)
  /\ drain' = Idle /\ UNCHANGED <<item, completed>> /\ MergeLeaves

\* pg_mark_merge_failed; merge_attempts matter up to 2.
MergeFails(i) ==
  /\ item' = Status(i, "failed") /\ UNCHANGED completed
  /\ MergeRow(i, "failed", Least(merge[i].attempts + 1, 2))
MergeFailed ==
  /\ Answers("failed", {"checks"}) /\ MergeFails(drain.item)
  /\ drain' = Idle /\ MergeLeaves

\* The pull request conflicts, before or at the merge: pg_mark_merge_failed ...
MergeConflict ==
  /\ Answers("conflict", {"github", "checks"}) /\ MergeFails(drain.item)
  /\ drain' = [item |-> drain.item, step |-> "reset"] /\ MergeLeaves

ConflictRebuild(i) == Item("ready", Least(item[i].attempts, LaneCap), None)

\* ... then a statement that puts the item back for a rebuild.
ConflictReset ==
  /\ drain.step = "reset"
  /\ item' = [item EXCEPT ![drain.item] = ConflictRebuild(drain.item)]
  /\ drain' = Idle /\ UNCHANGED <<merge, completed>> /\ MergeLeaves

\* reset_semantic_merge_failure_once.
SemanticReset ==
  LET i == drain.item IN
  /\ Answers("semantic", {"checks"}) /\ merge[i].attempts < 2
  /\ item' = [item EXCEPT ![i] = Item("ready", 0, None)]
  /\ MergeRow(i, "failed", 2)
  /\ drain' = Idle /\ UNCHANGED completed /\ MergeLeaves

\* claim_ci_rerun.
CiRerun ==
  LET i == drain.item IN
  /\ Answers("rerun", {"checks"}) /\ merge[i].attempts = 0
  /\ MergeRow(i, merge[i].status, 1)
  /\ drain' = Idle /\ UNCHANGED <<item, completed>> /\ MergeLeaves

\* The checks are pending, GitHub does not know yet, the branch is updated first,
\* a call failed.
MergeWait ==
  /\ drain.step \in {"github", "checks"}
  /\ drain' = Idle
  /\ UNCHANGED <<item, slotVars, lease, buildVars, merge, cleanVars, retryVars, pool, up, events>>

\* reconcile_orphaned_reviews: the pull request of an item in review was merged
\* or closed by hand.  The loop of the drain does this between its passes.
ReconcileReview(i, st) ==
  /\ drain = Idle /\ item[i].status = "in_review"
  /\ \/ st = "merged" /\ "merged" \in PullRequest
     \/ st = "cancelled" /\ "closed" \in PullRequest
  /\ item' = Status(i, st) /\ completed' = completed \cup {i}
  /\ UNCHANGED mergeVars /\ MergeLeaves

\* The process stops between two statements of the pass.
MergeStop ==
  /\ Event("leader stop") /\ drain.step # "idle"
  /\ drain' = Idle
  /\ UNCHANGED <<item, slotVars, lease, buildVars, merge, cleanVars, retryVars, pool, up>>

-----------------------------------------------------------------------------
\* Commands.

\* drain_work_item_leases before a deploy: every active lease of the host.
DrainHost(h) ==
  LET drained == {lease[l].item : l \in LeasesAt(h)} IN
  /\ Event("drain") /\ LeasesAt(h) # {}
  /\ lease' = Released(LeasesAt(h))
  /\ Write(Freed(SlotsHeld(LeasesAt(h))))
  /\ item' = [i \in Items |->
                IF i \in drained /\ item[i].status \in {"claimed", "building"}
                THEN Item("ready", item[i].attempts, None) ELSE item[i]]
  /\ UNCHANGED <<buildVars, mergeVars, cleanVars, retryVars, pool, up>>

\* `ff pm cancel`: a building item keeps lease and slot until its worker has
\* ended the backend; a second cancel, of an item that is cancelled, does not.
Cancel(i) ==
  LET L == IF item[i].status = "building" THEN {} ELSE LeasesOf(i) IN
  /\ Event("cancel") /\ item[i].status \notin {"done", "merged"}
  /\ item' = Status(i, "cancelled")
  /\ lease' = Released(L) /\ Write(Freed(SlotsHeld(L)))
  /\ IF merge[i].status \in {"none", "merged"} THEN UNCHANGED merge
     ELSE MergeRow(i, "failed", merge[i].attempts)
  /\ UNCHANGED <<buildVars, drain, cleanVars, retryVars, pool, up>>

\* `ff pm retry`, `ff pm ready`, with a host to pin to or none.
PinTo(i, on) == IF on = None THEN item[i].pin ELSE on
Retry(i, on) ==
  /\ Event("retry") /\ item[i].status \in {"failed", "cancelled"}
  /\ LeasesOf(i) = {} /\ \A s \in Slots : slot[s] # i
  /\ item' = [item EXCEPT ![i] = Item("ready", 0, PinTo(i, on))]
  /\ UNCHANGED <<slotVars, lease, buildVars, mergeVars, cleanVars, retryVars, pool, up>>
Ready(i, on) ==
  /\ Event("ready")
  /\ item' = [item EXCEPT ![i] = Item("ready", item[i].attempts, PinTo(i, on))]
  /\ UNCHANGED <<slotVars, lease, buildVars, mergeVars, cleanVars, retryVars, pool, up>>

\* `ff agent dispatch --work-item-id` takes an idle slot for one prompt about an
\* item, whatever its status, and without a lease.
AgentDispatch(s, i) ==
  /\ Event("agent dispatch") /\ slot[s] = None /\ s \notin cli
  /\ slot' = [slot EXCEPT ![s] = i] /\ claim' = [claim EXCEPT ![s] = "cli"]
  /\ cli' = cli \cup {s}
  /\ UNCHANGED <<item, lease, buildVars, mergeVars, cleanVars, retryVars, pool, up>>

\* It releases the slot by its id, whoever has it now, or it was killed.
AgentEnds(s, killed) ==
  /\ s \in cli /\ cli' = cli \ {s}
  /\ IF killed THEN UNCHANGED <<slot, claim>>
     ELSE slot' = Freed({s}) /\ claim' = [claim EXCEPT ![s] = "lease"]
  /\ UNCHANGED <<item, lease, buildVars, mergeVars, cleanVars, retryVars, pool, up, events>>

-----------------------------------------------------------------------------
Scheduler(x) ==
  \/ ReadReady(x) \/ \E live \in SUBSET Hosts : ReadSlots(x, live)
  \/ \E p \in pool[x].items, s \in Slots, l \in LeaseIds : Assign(x, p, s, l)
  \/ \E p \in pool[x].items, s \in Slots : AssignLost(x, p, s)
  \/ EndPass(x)
Build(l) ==
  \/ AcceptedAlready(l) \/ CreateWorktree(l) \/ AlreadyDone(l)
  \/ Fail(l) \/ MarkReadyForReview(l) \/ IgnoreStaleResult(l)
Begin(l) == MarkBuilding(l) \/ SkipBuilding(l) \/ BailBuilding(l)
Host(h) ==
  \/ \E L \in SUBSET LeaseIds : DispatchTick(h, L)
  \/ WorktreeScan(h) \/ \E c \in cleaning[h] : CleanWorktree(h, c)
  \/ HostStop(h) \/ HostStart(h) \/ DrainHost(h)
SlotReaper(s) == ResetStuckSlot(s) \/ ReapBusySlot(s)
Agent(s) == \/ \E i \in Items : AgentDispatch(s, i)
            \/ \E killed \in BOOLEAN : AgentEnds(s, killed)
MergeDrain ==
  \/ \E i \in Items : MergePick(i) \/ \E st \in Terminal : ReconcileReview(i, st)
  \/ MergeWatch \/ MergeMerged \/ MergeClosed \/ MergeMergeable \/ MergeFailed \/ MergeConflict \/ ConflictReset
  \/ SemanticReset \/ CiRerun \/ MergeWait \/ MergeStop
Operator(i) == Cancel(i) \/ \E on \in Hosts \cup {None} : Retry(i, on) \/ Ready(i, on)

Next ==
  \/ \E x \in Schedulers : Scheduler(x)
  \/ \E l \in LeaseIds : Begin(l) \/ Build(l) \/ HeartbeatEnds(l) \/ Reap(l)
  \/ \E l \in LeaseIds, why \in Overdue : PassesDue(l, why)
  \/ \E h \in Hosts : Host(h)
  \/ \E i \in Items : AutoRequeue(i) \/ SelfHeal(i) \/ DeployRemedy(i) \/ RequeueLocalRetest(i) \/ Operator(i)
  \/ \E s \in Slots : SlotReaper(s) \/ Agent(s)
  \/ ReconcileSlots \/ MergeDrain

Spec == Init /\ [][Next]_vars

\* The loops run for ever on the hosts that are up, the service manager starts
\* a stopped daemon again, builds end (they have a timeout) and time passes.
\* Passes see the running hosts' ticks fresh again and again (SF).  Faults,
\* commands and what GitHub answers are under no obligation.
Fairness ==
  /\ \A x \in Schedulers :
       /\ WF_vars(ReadReady(x)) /\ SF_vars(ReadSlots(x, up))
       /\ WF_vars(\E p \in pool[x].items, s \in Slots :
            AssignLost(x, p, s) \/ \E l \in LeaseIds : Assign(x, p, s, l))
       /\ WF_vars(EndPass(x) /\ UNCHANGED events)
  /\ \A l \in LeaseIds :
       /\ WF_vars(Begin(l)) /\ WF_vars(Build(l)) /\ WF_vars(Reap(l))
       /\ WF_vars(HeartbeatEnds(l) /\ UNCHANGED events) /\ WF_vars(PassesDue(l, "beat"))
  /\ \A h \in Hosts :
       /\ WF_vars(\E L \in SUBSET LeaseIds : DispatchTick(h, L))
       /\ WF_vars(WorktreeScan(h)) /\ WF_vars(\E c \in cleaning[h] : CleanWorktree(h, c))
       /\ WF_vars(HostStart(h))
  /\ \A i \in Items : WF_vars(AutoRequeue(i)) /\ WF_vars(SelfHeal(i)) /\ WF_vars(MergePick(i))
  /\ \A i \in Items : WF_vars(RequeueLocalRetest(i))
  /\ \A s \in Slots : WF_vars(SlotReaper(s)) /\ WF_vars(\E killed \in BOOLEAN : AgentEnds(s, killed))
  /\ WF_vars(ReconcileSlots) /\ WF_vars(ConflictReset)

FairSpec == Spec /\ Fairness

-----------------------------------------------------------------------------
\* Every variable has its type; a lease that was granted names an item and a
\* slot, and only granted leases have builds.
TypeOK ==
  /\ item \in [Items -> [status : Statuses, attempts : Nat, pin : Hosts \cup {None}]]
  /\ completed \subseteq Items /\ retries \in [Items -> Nat] /\ deployed \subseteq Items
  /\ slot \in [Slots -> Items \cup {None}]
  /\ claim \in [Slots -> {"lease", "cli", "cleanup"}] /\ cli \subseteq Slots
  /\ lease \in [LeaseIds -> [item : Items \cup {None}, slot : Slots \cup {None},
                             state : Held \cup {"none", "released"}, late : SUBSET Overdue]]
  /\ \A l \in LeaseIds : lease[l].state # "none" => lease[l].item \in Items /\ lease[l].slot \in Slots
  /\ beating \subseteq LeaseIds
  /\ spawned \in [LeaseIds -> Nat]
  /\ stage \in [LeaseIds -> {"none", "started", "checkout", "bailed"}]
  /\ \A l \in LeaseIds :
       l \in beating \/ spawned[l] > 0 \/ stage[l] # "none" => lease[l].state # "none"
  /\ worktree \in [Items -> Hosts \cup {None}]
  /\ stale \subseteq Items /\ cleaning \in [Hosts -> SUBSET [item : Items, stale : BOOLEAN]]
  /\ merge \in [Items -> [status : {"none", "queued", "failed", "merged"}, attempts : Nat]]
  /\ drain \in [item : Items \cup {None}, step : {"idle", "github", "checks", "reset"}]
  /\ drain.step # "idle" => drain.item \in Items
  /\ pool \in [Schedulers -> [step : {"idle", "ready", "assign"}, items : SUBSET [i : Items, pin : Hosts \cup {None}],
                               slots : SUBSET Slots, live : SUBSET Hosts]]
  /\ up \subseteq Hosts /\ events \in Nat

\* With one scheduler a slot has at most one active lease, although a restart
\* idles the slots of leases that are still active and pg_assign_work_item
\* looks at the slot's row only.
SlotExclusive == \A s \in Slots : \A l, m \in LeasesOn(s) : l = m

\* A busy slot names an item that holds an active lease on it, whichever of
\* the nine statements that release leases ran: no slot is busy for nothing, as
\* long as nobody takes slots without a lease by `ff agent dispatch`.
BusyHasLease ==
  \A s \in Slots : slot[s] # None => \E l \in LeasesOn(s) : lease[l].item = slot[s]

\* A newer lease of the item is active.
Superseded(l) == \E m \in LeasesOf(lease[l].item) : m > l

\* A build that outlived its lease ends without touching the item, the slot or
\* the lease of the build that replaced it, however it ends.
ZombieHarmless ==
  [][\A l \in LeaseIds :
       stage[l] # "none" /\ stage'[l] = "none" /\ Superseded(l) => UNCHANGED <<item, slot, lease>>]_vars

\* A slot is busy with the item without a lease, or the worktree reaper is about
\* to clean up after such a slot; BusyHasLease says that only an
\* `ff agent dispatch` for the item leaves one behind.
LeftBehind(i) ==
  \/ \E s \in Slots : slot[s] = i /\ Abandoned(s)
  \/ \E h \in Hosts : [item |-> i, stale |-> TRUE] \in cleaning[h]

\* Finished work is not taken up again by the recovery of leases, slots and
\* failures: an item leaves done and merged only by an operator's command, by a
\* pass of the merge drain, to retest a deployed remedy, or by the reapers of a
\* slot that was left behind.
FinishedStays ==
  [][\A i \in Items :
       /\ item[i].status \in {"done", "merged"} /\ item'[i].status \notin {"done", "merged"}
       => events' # events \/ drain' # drain \/ i \in deployed \/ LeftBehind(i)]_vars

\* An item in flight without a lease: no loop of the code looks for it.
InFlight(i) == item[i].status \in {"claimed", "building"}
Stranded(i) == InFlight(i) /\ LeasesOf(i) = {}

\* Why a statement may take the last lease of an item in flight and leave its
\* status: the build had no authority over it any more, as its grant had run out
\* or its slot had been taken away, or the worktree reaper saw it terminal once.
Cause(i) ==
  \/ \E l \in LeasesOf(i) : "expiry" \in lease[l].late \/ slot[lease[l].slot] # i
  \/ \E h \in Hosts : \E c \in cleaning[h] : c.item = i

\* No item gets stranded for another reason: not by the reaper, a drain, a
\* cancel, a retry, a restart or the end of another build of the item.
StrandedForCause ==
  [][\A i \in Items : InFlight(i) /\ ~ Stranded(i) /\ Stranded(i)' => Cause(i)]_vars

\* A slot is kept by an item in review, or it waits in cleanup_pending for a
\* clean-up that will not come: a build that outlived its lease made the
\* worktree row its own, and the row is not stale any more.
Kept(s) ==
  \/ \E l \in LeasesOn(s) : lease[l].state = "reviewing"
  \/ claim[s] = "cleanup" /\ slot[s] \notin stale

\* An item is at rest: terminal with its lease released, in review with its
\* pull request open, ready but waiting for an item that is not merged or for
\* slots that are all kept, or stranded.
AtRest(i) ==
  \/ item[i].status \in Terminal /\ LeasesOf(i) = {}
  \/ item[i].status = "in_review"
  \/ /\ item[i].status = "ready"
     /\ \/ \E b \in Blockers[i] : item[b].status # "merged"
        \/ \A s \in Slots : Kept(s)
  \/ Stranded(i)
\* Through stops, lost heartbeats, grants that run out before the reaper acts,
\* and pull requests that are merged, closed or checked again, by hand too,
\* every item comes to rest: none is handed out for ever, and none waits for
\* ever for a slot that nobody uses.
EveryItemSettles == \A i \in Items : <>[]AtRest(i)

-----------------------------------------------------------------------------
\* What comments of the code say and the code does not do.

\* work_item_dispatch.rs: a failed dispatch "always releases the slot/lease so
\* the scheduler can re-dispatch": no item is left in flight without a lease.
InFlightHasLease == \A i \in Items : ~ Stranded(i)

\* work_item_merge_drain.rs: a conflicting pull request makes the drain "reset
\* the item for a fresh rebuild against current main".
ConflictRebuilds ==
  \A i \in Items : (drain = [item |-> i, step |-> "reset"]) ~> (item[i].status = "claimed")

\* work_item_scheduler.rs: terminally failed items "are buildable once the
\* condition clears - return a batch to the ready pool".
FailedRetried ==
  \A i \in Items : (item[i].status = "failed" /\ retries[i] < MaxRetries) ~> (item[i].status # "failed")
=============================================================================
