------------------------- MODULE WorkItemLeaseProofs -------------------------
(***************************************************************************)
(* Proofs about WorkItemLease, for any items, hosts, slots and bounds.     *)
(***************************************************************************)
EXTENDS WorkItemLease, WellFoundedInduction, TLAPS

ItemRow == [status : Statuses, attempts : Nat, pin : Hosts \cup {None}]
LeaseRow == [item : Items \cup {None}, slot : Slots \cup {None},
             state : Held \cup {"none", "released"}, late : SUBSET Overdue]
PassRow == [step : {"idle", "ready", "assign"}, items : SUBSET [i : Items, pin : Hosts \cup {None}],
            slots : SUBSET Slots, live : SUBSET Hosts]
CleanRow == [item : Items, stale : BOOLEAN]
Granted(l) == lease[l].state # "none"

\* The parts of the type invariant, by the rows they are about.
ItemsOK ==
  /\ item \in [Items -> ItemRow]
  /\ completed \subseteq Items /\ retries \in [Items -> Nat] /\ deployed \subseteq Items
LeasesOK ==
  /\ lease \in [LeaseIds -> LeaseRow]
  /\ \A l \in LeaseIds : Granted(l) => lease[l].item \in Items /\ lease[l].slot \in Slots
SlotsOK ==
  /\ slot \in [Slots -> Items \cup {None}]
  /\ claim \in [Slots -> {"lease", "cli", "cleanup"}] /\ cli \subseteq Slots
BuildsOK ==
  /\ beating \subseteq LeaseIds
  /\ spawned \in [LeaseIds -> Nat]
  /\ stage \in [LeaseIds -> {"none", "started", "checkout", "bailed"}]
  /\ \A l \in LeaseIds : l \in beating \/ spawned[l] > 0 \/ stage[l] # "none" => Granted(l)
CleanOK ==
  /\ worktree \in [Items -> Hosts \cup {None}]
  /\ stale \subseteq Items /\ cleaning \in [Hosts -> SUBSET CleanRow]
MergeOK ==
  /\ merge \in [Items -> [status : {"none", "queued", "failed", "merged"}, attempts : Nat]]
  /\ drain \in [item : Items \cup {None}, step : {"idle", "github", "checks", "reset"}]
  /\ drain.step # "idle" => drain.item \in Items
PoolOK == pool \in [Schedulers -> PassRow]
RestOK == up \subseteq Hosts /\ events \in Nat

LEMMA Parts ==
  TypeOK <=> ItemsOK /\ LeasesOK /\ SlotsOK /\ BuildsOK /\ CleanOK /\ MergeOK /\ PoolOK /\ RestOK
BY DEF TypeOK, ItemsOK, LeasesOK, SlotsOK, BuildsOK, CleanOK, MergeOK, PoolOK, RestOK,
       ItemRow, LeaseRow, PassRow, CleanRow, Granted

LEMMA PartsNext ==
  ASSUME ItemsOK', LeasesOK', SlotsOK', BuildsOK', CleanOK', MergeOK', PoolOK', RestOK'
  PROVE  TypeOK'
BY DEF TypeOK, ItemsOK, LeasesOK, SlotsOK, BuildsOK, CleanOK, MergeOK, PoolOK, RestOK,
       ItemRow, LeaseRow, PassRow, CleanRow, Granted

-----------------------------------------------------------------------------
\* Helpers: what the statements write.

LEMMA ItemType ==
  ASSUME NEW st \in Statuses, NEW n \in Nat, NEW h \in Hosts \cup {None}
  PROVE  Item(st, n, h) \in ItemRow
BY DEF Item, ItemRow

LEMMA ReadItem ==
  ASSUME ItemsOK, NEW i \in Items
  PROVE  /\ item[i].status \in Statuses /\ item[i].attempts \in Nat
         /\ item[i].pin \in Hosts \cup {None}
BY DEF ItemsOK, ItemRow

\* One item row is rewritten.
LEMMA PutItem ==
  ASSUME ItemsOK, NEW i \in Items, NEW r \in ItemRow, item' = [item EXCEPT ![i] = r],
         completed' \subseteq Items, retries' \in [Items -> Nat], deployed' \subseteq Items
  PROVE  ItemsOK'
BY DEF ItemsOK

LEMMA StatusRow ==
  ASSUME ItemsOK, NEW i \in Items, NEW st \in Statuses
  PROVE  Item(st, item[i].attempts, item[i].pin) \in ItemRow
BY ReadItem, ItemType

LEMMA PutStatus ==
  ASSUME ItemsOK, NEW i \in Items, NEW st \in Statuses, item' = Status(i, st),
         completed' \subseteq Items, UNCHANGED budgetVars
  PROVE  ItemsOK'
<1>1. retries' \in [Items -> Nat] /\ deployed' \subseteq Items  BY DEF ItemsOK, budgetVars
<1>. QED  BY <1>1, StatusRow, PutItem DEF Status

\* Leases keep their item and slot once granted, and stay granted.
LeasesStay ==
  \A l \in LeaseIds : /\ Granted(l) => Granted(l)'
                      /\ lease'[l].item = lease[l].item /\ lease'[l].slot = lease[l].slot
                      /\ Granted(l)' => Granted(l)

LEMMA LeaseType ==
  ASSUME NEW i \in Items, NEW s \in Slots, NEW st \in Held \cup {"released"}, NEW late \in SUBSET Overdue
  PROVE  LET r == Lease(i, s, st, late) IN
         /\ r \in LeaseRow /\ r.item = i /\ r.slot = s /\ r.state = st /\ r.late = late
         /\ r.state # "none"
BY DEF Lease, LeaseRow, Held

LEMMA ReadLease ==
  ASSUME LeasesOK, NEW l \in LeaseIds, Granted(l)
  PROVE  /\ lease[l].item \in Items /\ lease[l].slot \in Slots /\ lease[l].late \in SUBSET Overdue
         /\ lease[l].state \in Held \cup {"released"}
BY DEF LeasesOK, LeaseRow, Granted

LEMMA ActiveGranted == \A l \in LeaseIds : Active(l) => Granted(l)
BY DEF Active, Granted, Held

\* Some granted leases are rewritten, with the item and slot they have.
LEMMA PutLeases ==
  ASSUME LeasesOK, NEW L \in SUBSET LeaseIds, \A l \in L : Granted(l),
         lease' \in [LeaseIds -> LeaseRow],
         \A l \in LeaseIds \ L : lease'[l] = lease[l],
         \A l \in L : /\ lease'[l].item = lease[l].item /\ lease'[l].slot = lease[l].slot
                      /\ lease'[l].state # "none"
  PROVE  LeasesOK' /\ LeasesStay
BY DEF LeasesOK, LeasesStay, Granted

LEMMA PutLease ==
  ASSUME LeasesOK, NEW l \in LeaseIds, Granted(l), NEW st \in Held \cup {"released"},
         NEW late \in SUBSET Overdue,
         lease' = [lease EXCEPT ![l] = Lease(lease[l].item, lease[l].slot, st, late)]
  PROVE  LeasesOK' /\ LeasesStay
<1>. DEFINE r == Lease(lease[l].item, lease[l].slot, st, late)
<1>1. r \in LeaseRow /\ r.item = lease[l].item /\ r.slot = lease[l].slot /\ r.state # "none"
  BY ReadLease, LeaseType
<1>. HIDE DEF r
<1>2. lease' \in [LeaseIds -> LeaseRow] /\ lease'[l] = r /\ \A m \in LeaseIds \ {l} : lease'[m] = lease[m]
  BY <1>1 DEF LeasesOK, r
<1>. DEFINE L == {l}
<1>3. /\ L \in SUBSET LeaseIds /\ \A m \in LeaseIds \ L : lease'[m] = lease[m]
      /\ \A m \in L : /\ Granted(m) /\ lease'[m].item = lease[m].item
                       /\ lease'[m].slot = lease[m].slot /\ lease'[m].state # "none"
  BY <1>1, <1>2
<1>. HIDE DEF L
<1>. QED  BY <1>2, <1>3, PutLeases

\* Released(L) for active leases L.
LEMMA ReleasedType ==
  ASSUME LeasesOK, NEW L \in SUBSET LeaseIds, \A l \in L : Granted(l), lease' = Released(L)
  PROVE  /\ LeasesOK' /\ LeasesStay
         /\ \A l \in LeaseIds \ L : lease'[l] = lease[l]
         /\ \A l \in L : lease'[l].state = "released" /\ lease'[l].item = lease[l].item
                         /\ lease'[l].slot = lease[l].slot
<1>1. \A l \in LeaseIds \ L : lease'[l] = lease[l]
  BY DEF Released
<1>2. \A l \in L : lease'[l] = Lease(lease[l].item, lease[l].slot, "released", {})
  BY DEF Released
<1>3. \A l \in L : /\ lease'[l] \in LeaseRow /\ lease'[l].item = lease[l].item
                   /\ lease'[l].slot = lease[l].slot /\ lease'[l].state = "released"
  <2>. TAKE l \in L
  <2>1. l \in LeaseIds /\ Granted(l)  OBVIOUS
  <2>2. lease[l].item \in Items /\ lease[l].slot \in Slots  BY <2>1, ReadLease
  <2>3. lease'[l] = Lease(lease[l].item, lease[l].slot, "released", {})  BY <1>2
  <2>4. lease'[l] = [item |-> lease[l].item, slot |-> lease[l].slot, state |-> "released", late |-> {}]
    BY <2>3 DEF Lease
  <2>. QED  BY <2>2, <2>4 DEF LeaseRow
<1>4. lease' \in [LeaseIds -> LeaseRow]
  <2>1. \A l \in LeaseIds : lease'[l] \in LeaseRow
    BY <1>1, <1>3 DEF LeasesOK
  <2>. QED  BY <2>1 DEF Released
<1>. QED  BY <1>1, <1>3, <1>4, PutLeases

LEMMA WriteType ==
  ASSUME SlotsOK, NEW f \in [Slots -> Items \cup {None}], Write(f)
  PROVE  SlotsOK' /\ slot' = f
BY DEF SlotsOK, Write

LEMMA FreedType ==
  ASSUME SlotsOK, NEW S, Write(Freed(S))
  PROVE  /\ SlotsOK' /\ slot' = Freed(S)
         /\ \A s \in Slots : slot'[s] = IF s \in S THEN None ELSE slot[s]
<1>1. Freed(S) \in [Slots -> Items \cup {None}]
  BY DEF SlotsOK, Freed
<1>. QED  BY <1>1, WriteType DEF Freed

\* Builds only end.
LEMMA BuildsLeft ==
  ASSUME BuildsOK, LeasesStay, beating' \subseteq beating, spawned' = spawned,
         stage' \in [LeaseIds -> {"none", "started", "checkout", "bailed"}],
         \A l \in LeaseIds : stage'[l] # "none" => stage[l] # "none"
  PROVE  BuildsOK'
BY DEF BuildsOK, LeasesStay

LEMMA LeasesKept == lease' = lease => LeasesStay
BY DEF LeasesStay, Granted
LEMMA BuildsKept == BuildsOK /\ LeasesStay /\ UNCHANGED buildVars => BuildsOK'
BY DEF BuildsOK, LeasesStay, buildVars

-----------------------------------------------------------------------------
\* Type correctness, one lemma per action.

LEMMA InitType == Init => TypeOK
<1>. SUFFICES ASSUME Init PROVE TypeOK  OBVIOUS
<1>1. LeasesOK /\ BuildsOK
  BY DEF Init, LeasesOK, BuildsOK, LeaseRow, Lease, Granted
<1>2. ItemsOK /\ MergeOK /\ PoolOK
  BY DEF Init, ItemsOK, MergeOK, PoolOK, ItemRow, Item, Statuses, Terminal, Merge, Idle, NoPass, PassRow
<1>3. SlotsOK /\ CleanOK /\ RestOK
  BY DEF Init, SlotsOK, CleanOK, RestOK, slotVars
<1>. QED  BY <1>1, <1>2, <1>3, Parts

\* The lists of a pass are written.
LEMMA PassType ==
  ASSUME PoolOK, NEW x \in Schedulers, NEW step \in {"ready", "assign"},
         NEW items \in SUBSET [i : Items, pin : Hosts \cup {None}],
         NEW slots \in SUBSET Slots, NEW live \in SUBSET Hosts, Pass(x, step, items, slots, live)
  PROVE  PoolOK'
BY DEF PoolOK, PassRow, Pass

\* ... and nothing else is.
LEMMA PassLeavesType ==
  ASSUME TypeOK, PoolOK', PassLeaves
  PROVE  TypeOK'
BY DEF PassLeaves, TypeOK, PoolOK, PassRow, buildVars, mergeVars, cleanVars, retryVars, budgetVars, slotVars

LEMMA ReadReadyType ==
  ASSUME TypeOK, NEW x \in Schedulers, ReadReady(x)
  PROVE  TypeOK'
<1>. DEFINE items == {[i |-> i, pin |-> item[i].pin] : i \in {j \in Items : Schedulable(j)}}
<1>1. items \in SUBSET [i : Items, pin : Hosts \cup {None}]
  BY Parts DEF ItemsOK, ItemRow
<1>2. Pass(x, "ready", items, {}, {}) /\ PassLeaves
  BY DEF ReadReady
<1>. HIDE DEF items
<1>3. PoolOK'
  BY <1>1, <1>2, Parts, PassType
<1>. QED  BY <1>2, <1>3, PassLeavesType

LEMMA ReadSlotsType ==
  ASSUME TypeOK, NEW x \in Schedulers, NEW live \in SUBSET Hosts, ReadSlots(x, live)
  PROVE  TypeOK'
<1>. DEFINE slots == {s \in Slots : FreeSlot(s) /\ HostOf[s] \in live}
<1>1. pool[x].items \in SUBSET [i : Items, pin : Hosts \cup {None}] /\ slots \in SUBSET Slots
  BY Parts DEF PoolOK, PassRow
<1>2. Pass(x, "assign", pool[x].items, slots, live) /\ PassLeaves
  BY DEF ReadSlots
<1>. HIDE DEF slots
<1>3. PoolOK'
  BY <1>1, <1>2, Parts, PassType
<1>. QED  BY <1>2, <1>3, PassLeavesType

LEMMA ConsumeType ==
  ASSUME PoolOK, NEW x \in Schedulers, NEW p, NEW s, Consume(x, p, s)
  PROVE  PoolOK'
<1>1. /\ pool[x].items \ {p} \in SUBSET [i : Items, pin : Hosts \cup {None}]
      /\ pool[x].slots \ {s} \in SUBSET Slots /\ pool[x].live \in SUBSET Hosts
  BY DEF PoolOK, PassRow
<1>. QED  BY <1>1, PassType DEF Consume

LEMMA AssignType ==
  ASSUME TypeOK, NEW x \in Schedulers, NEW p \in pool[x].items, NEW s \in Slots,
         NEW l \in LeaseIds, Assign(x, p, s, l)
  PROVE  TypeOK'
<1>1. p.i \in Items /\ HostOf[s] \in Hosts
  BY Parts, SlotsAssumption DEF PoolOK, PassRow
<1>2. PoolOK'
  BY Parts, ConsumeType DEF Assign
<1>3. ItemsOK'
  <2>1. Item("claimed", item[p.i].attempts, HostOf[s]) \in ItemRow
    BY <1>1, Parts, ReadItem, ItemType DEF Statuses
  <2>. QED  BY <1>1, <2>1, Parts, PutItem DEF Assign, retryVars, ItemsOK, budgetVars
<1>4. LeasesOK' /\ (\A m \in LeaseIds : Granted(m) => Granted(m)') /\ Granted(l)'
  <2>. DEFINE r == Lease(p.i, s, "claimed", {})
  <2>1. r \in LeaseRow /\ r.item = p.i /\ r.slot = s /\ r.state # "none"
    BY <1>1 DEF Lease, LeaseRow, Held
  <2>2. lease' = [lease EXCEPT ![l] = r]
    BY DEF Assign
  <2>. HIDE DEF r
  <2>. QED  BY <1>1, <2>1, <2>2, Parts DEF LeasesOK, Granted
<1>5. BuildsOK'
  BY <1>4, Parts DEF Assign, BuildsOK
<1>6. SlotsOK'
  <2>1. [slot EXCEPT ![s] = p.i] \in [Slots -> Items \cup {None}]
    BY <1>1, Parts DEF SlotsOK
  <2>. QED  BY <2>1, Parts, WriteType DEF Assign
<1>7. CleanOK' /\ MergeOK' /\ RestOK'
  BY Parts DEF Assign, CleanOK, MergeOK, RestOK, mergeVars, cleanVars
<1>. QED  BY <1>2, <1>3, <1>4, <1>5, <1>6, <1>7, PartsNext

LEMMA AssignLostType ==
  ASSUME TypeOK, NEW x \in Schedulers, NEW p, NEW s, AssignLost(x, p, s)
  PROVE  TypeOK'
BY Parts, ConsumeType, PassLeavesType DEF AssignLost

LEMMA EventType == ASSUME RestOK, NEW k, Event(k) PROVE events' \in Nat
BY DEF RestOK, Event

LEMMA EndPassType ==
  ASSUME TypeOK, NEW x \in Schedulers, EndPass(x)
  PROVE  TypeOK'
<1>1. PoolOK'
  BY Parts DEF EndPass, PoolOK, PassRow, NoPass
<1>2. events' \in Nat
  BY Parts, EventType DEF EndPass, RestOK
<1>. QED
  BY <1>1, <1>2 DEF EndPass, TypeOK, PoolOK, PassRow, buildVars, mergeVars, cleanVars, retryVars, budgetVars, slotVars

LEMMA DispatchTickType ==
  ASSUME TypeOK, NEW h \in Hosts, NEW L \in SUBSET LeaseIds, DispatchTick(h, L)
  PROVE  TypeOK'
<1>1. LeasesAt(h) \in SUBSET LeaseIds /\ \A l \in LeasesAt(h) : Granted(l)
  BY ActiveGranted DEF LeasesAt
<1>2. \A l \in L : Granted(l)
  BY <1>1 DEF DispatchTick, Assigned
<1>3. LeasesOK' /\ LeasesStay
  <2>1. \A l \in LeaseIds \ LeasesAt(h) : lease'[l] = lease[l]
    BY DEF DispatchTick
  <2>2. \A l \in LeasesAt(h) :
          /\ lease'[l] \in LeaseRow /\ lease'[l].item = lease[l].item
          /\ lease'[l].slot = lease[l].slot /\ lease'[l].state # "none"
    <3>. TAKE l \in LeasesAt(h)
    <3>1. lease'[l] = [item |-> lease[l].item, slot |-> lease[l].slot,
                       state |-> lease[l].state, late |-> lease[l].late \ {"tick"}]
      BY <1>1 DEF DispatchTick, Lease
    <3>2. lease[l] \in LeaseRow /\ lease[l].state # "none"
      BY <1>1, Parts DEF LeasesOK, Granted
    <3>. QED  BY <3>1, <3>2 DEF LeaseRow
  <2>3. lease' \in [LeaseIds -> LeaseRow]
    <3>1. \A l \in LeaseIds : lease'[l] \in LeaseRow
      BY <2>1, <2>2, Parts DEF LeasesOK
    <3>. QED  BY <3>1 DEF DispatchTick
  <2>. QED  BY <1>1, <2>1, <2>2, <2>3, Parts, PutLeases
<1>4. BuildsOK'
  <2>1. beating' = beating /\ stage' = stage
    BY DEF DispatchTick
  <2>2. spawned' = [l \in LeaseIds |-> IF l \in L THEN spawned[l] + 1 ELSE spawned[l]]
    BY DEF DispatchTick
  <2>3. /\ spawned' \in [LeaseIds -> Nat]
        /\ \A l \in LeaseIds : spawned'[l] > 0 => Granted(l)
    BY <1>2, <2>2, Parts DEF BuildsOK
  <2>. QED  BY <1>3, <2>1, <2>3, Parts DEF BuildsOK, LeasesStay
<1>5. ItemsOK' /\ SlotsOK' /\ CleanOK' /\ MergeOK' /\ PoolOK' /\ RestOK'
  BY Parts DEF DispatchTick, ItemsOK, SlotsOK, CleanOK, MergeOK, PoolOK, RestOK,
               mergeVars, cleanVars, retryVars, budgetVars, slotVars
<1>. QED  BY <1>3, <1>4, <1>5, PartsNext

\* A dispatch task starts.
LEMMA StartsType ==
  ASSUME BuildsOK, NEW l \in LeaseIds, Starts(l)
  PROVE  /\ Granted(l) /\ spawned' \in [LeaseIds -> Nat]
         /\ \A m \in LeaseIds : spawned'[m] > 0 => spawned[m] > 0
BY DEF BuildsOK, Starts

LEMMA MarkBuildingType ==
  ASSUME TypeOK, NEW l \in LeaseIds, MarkBuilding(l)
  PROVE  TypeOK'
<1>1. /\ Granted(l) /\ spawned' \in [LeaseIds -> Nat]
      /\ \A m \in LeaseIds : spawned'[m] > 0 => spawned[m] > 0
  BY Parts, StartsType DEF MarkBuilding
<1>2. lease[l].item \in Items /\ lease[l].late \in SUBSET Overdue
  BY <1>1, Parts, ReadLease
<1>3. ItemsOK'
  BY <1>2, Parts, PutStatus DEF MarkBuilding, ItemsOK, Statuses, retryVars, budgetVars
<1>4. LeasesOK' /\ LeasesStay
  <2>1. lease[l].late \ {"beat", "expiry"} \in SUBSET Overdue
    BY <1>2
  <2>2. lease' = [lease EXCEPT ![l] = Lease(lease[l].item, lease[l].slot, "building",
                                            lease[l].late \ {"beat", "expiry"})]
    BY DEF MarkBuilding
  <2>. QED  BY <1>1, <2>1, <2>2, Parts, PutLease DEF Held
<1>5. BuildsOK'
  BY <1>1, <1>4, Parts DEF MarkBuilding, BuildsOK, LeasesStay
<1>6. SlotsOK' /\ CleanOK' /\ MergeOK' /\ PoolOK' /\ RestOK'
  BY Parts DEF MarkBuilding, SlotsOK, CleanOK, MergeOK, PoolOK, RestOK, mergeVars, cleanVars, slotVars
<1>. QED  BY <1>3, <1>4, <1>5, <1>6, PartsNext

LEMMA SkipBuildingType ==
  ASSUME TypeOK, NEW l \in LeaseIds, SkipBuilding(l)
  PROVE  TypeOK'
<1>1. /\ spawned' \in [LeaseIds -> Nat]
      /\ \A m \in LeaseIds : spawned'[m] > 0 => spawned[m] > 0
  BY Parts, StartsType DEF SkipBuilding
<1>. QED
  BY <1>1 DEF SkipBuilding, TypeOK, mergeVars, cleanVars, retryVars, budgetVars, slotVars

LEMMA ReleaseOwnType ==
  ASSUME LeasesOK, SlotsOK, NEW l \in LeaseIds, ReleaseOwn(l)
  PROVE  LeasesOK' /\ SlotsOK' /\ LeasesStay
<1>. DEFINE L == {m \in {l} : Active(m)}
<1>1. L \in SUBSET LeaseIds /\ \A m \in L : Granted(m)
  BY ActiveGranted
<1>2. lease' = Released(L) /\ Write(Freed(SlotsHeld(L)))
  BY DEF ReleaseOwn
<1>. HIDE DEF L
<1>. QED  BY <1>1, <1>2, ReleasedType, FreedType

LEMMA BailBuildingType ==
  ASSUME TypeOK, NEW l \in LeaseIds, BailBuilding(l)
  PROVE  TypeOK'
<1>1. /\ spawned' \in [LeaseIds -> Nat]
      /\ \A m \in LeaseIds : spawned'[m] > 0 => spawned[m] > 0
  BY Parts, StartsType DEF BailBuilding
<1>2. LeasesOK' /\ SlotsOK' /\ LeasesStay
  BY Parts, ReleaseOwnType DEF BailBuilding
<1>3. BuildsOK'
  BY <1>1, <1>2, Parts DEF BailBuilding, BuildsOK, LeasesStay
<1>4. ItemsOK' /\ CleanOK' /\ MergeOK' /\ PoolOK' /\ RestOK'
  BY Parts DEF BailBuilding, ItemsOK, CleanOK, MergeOK, PoolOK, RestOK, mergeVars, cleanVars, retryVars, budgetVars
<1>. QED  BY <1>2, <1>3, <1>4, PartsNext

\* A build has a granted lease; it ends.
LEMMA BuildGranted ==
  ASSUME TypeOK, NEW l \in LeaseIds, stage[l] # "none"
  PROVE  Granted(l) /\ lease[l].item \in Items /\ lease[l].slot \in Slots
<1>1. Granted(l)  BY Parts DEF BuildsOK
<1>. QED  BY <1>1, Parts, ReadLease

LEMMA EndsType ==
  ASSUME BuildsOK, NEW l \in LeaseIds, LeasesStay, Ends(l), spawned' = spawned
  PROVE  BuildsOK'
<1>1. /\ stage' \in [LeaseIds -> {"none", "started", "checkout", "bailed"}]
      /\ \A m \in LeaseIds : stage'[m] # "none" => stage[m] # "none"
      /\ beating' \subseteq beating
  BY DEF Ends, BuildsOK
<1>. QED  BY <1>1, BuildsLeft

LEMMA AcceptedAlreadyType ==
  ASSUME TypeOK, NEW l \in LeaseIds, AcceptedAlready(l)
  PROVE  TypeOK'
<1>1. lease[l].item \in Items
  BY BuildGranted DEF AcceptedAlready
<1>2. LeasesOK' /\ SlotsOK' /\ LeasesStay
  BY Parts, ReleaseOwnType DEF AcceptedAlready
<1>3. BuildsOK'
  BY <1>2, Parts, EndsType DEF AcceptedAlready
<1>4. ItemsOK'
  BY <1>1, Parts, PutStatus DEF AcceptedAlready, ItemsOK, Statuses, Terminal
<1>5. CleanOK' /\ MergeOK' /\ PoolOK' /\ RestOK'
  BY Parts DEF AcceptedAlready, CleanOK, MergeOK, PoolOK, RestOK, mergeVars, cleanVars
<1>. QED  BY <1>2, <1>3, <1>4, <1>5, PartsNext

\* The step of a build changes.
LEMMA StageType ==
  ASSUME BuildsOK, NEW l \in LeaseIds, stage[l] # "none", lease' = lease, NEW st \in {"checkout", "bailed"},
         stage' = [stage EXCEPT ![l] = st], UNCHANGED <<beating, spawned>>
  PROVE  BuildsOK'
BY DEF BuildsOK, Granted

LEMMA CreateWorktreeType ==
  ASSUME TypeOK, NEW l \in LeaseIds, CreateWorktree(l)
  PROVE  TypeOK'
<1>1. HostOf[lease[l].slot] \in Hosts
  BY BuildGranted, SlotsAssumption DEF CreateWorktree
<1>2. BuildsOK'
  BY Parts, StageType DEF CreateWorktree
<1>3. CleanOK'
  BY <1>1, Parts DEF CreateWorktree, CleanOK
<1>4. ItemsOK' /\ LeasesOK' /\ SlotsOK' /\ MergeOK' /\ PoolOK' /\ RestOK'
  BY Parts DEF CreateWorktree, ItemsOK, LeasesOK, Granted, SlotsOK, MergeOK, PoolOK, RestOK, mergeVars, retryVars, budgetVars, slotVars
<1>. QED  BY <1>2, <1>3, <1>4, PartsNext

LEMMA AlreadyDoneType ==
  ASSUME TypeOK, NEW l \in LeaseIds, AlreadyDone(l)
  PROVE  TypeOK'
<1>1. lease[l].item \in Items
  BY BuildGranted DEF AlreadyDone
<1>2. BuildsOK'
  BY Parts, StageType DEF AlreadyDone
<1>3. ItemsOK'
  BY <1>1, Parts, PutStatus DEF AlreadyDone, ItemsOK, Statuses, Terminal
<1>4. LeasesOK' /\ SlotsOK' /\ CleanOK' /\ MergeOK' /\ PoolOK' /\ RestOK'
  BY Parts DEF AlreadyDone, LeasesOK, Granted, SlotsOK, CleanOK, MergeOK, PoolOK, RestOK, mergeVars, cleanVars, slotVars
<1>. QED  BY <1>2, <1>3, <1>4, PartsNext

LEMMA SpentType == ASSUME ItemsOK, NEW i \in Items PROVE Spent(i) \in ItemRow
<1>1. "failed" \in Statuses /\ "ready" \in Statuses /\ item[i].attempts + 1 \in Nat
  BY ReadItem DEF Statuses, Terminal
<1>. QED  BY <1>1, ReadItem, ItemType DEF Spent

LEMMA FailType ==
  ASSUME TypeOK, NEW l \in LeaseIds, Fail(l)
  PROVE  TypeOK'
<1>1. lease[l].item \in Items
  BY BuildGranted DEF Fail
<1>2. LeasesOK' /\ SlotsOK' /\ LeasesStay
  BY Parts, ReleaseOwnType DEF Fail
<1>3. BuildsOK'
  BY <1>2, Parts, EndsType DEF Fail
<1>4. ItemsOK'
  <2>1. CASE item' = item
    BY <2>1, Parts DEF Fail, ItemsOK, retryVars, budgetVars
  <2>2. CASE item' = [item EXCEPT ![lease[l].item] = Spent(lease[l].item)]
    BY <1>1, <2>2, Parts, SpentType, PutItem DEF Fail, ItemsOK, retryVars, budgetVars
  <2>. QED  BY <2>1, <2>2 DEF Fail
<1>5. CleanOK' /\ MergeOK' /\ PoolOK' /\ RestOK'
  BY Parts DEF Fail, CleanOK, MergeOK, PoolOK, RestOK, mergeVars, cleanVars
<1>. QED  BY <1>2, <1>3, <1>4, <1>5, PartsNext

\* A row of the merge queue is written.
LEMMA PutMerge ==
  ASSUME MergeOK, NEW i \in Items, NEW st \in {"none", "queued", "failed", "merged"}, NEW n \in Nat,
         MergeRow(i, st, n)
  PROVE  merge' \in [Items -> [status : {"none", "queued", "failed", "merged"}, attempts : Nat]]
BY DEF MergeOK, MergeRow, Merge

LEMMA ReadMerge ==
  ASSUME MergeOK, NEW i \in Items
  PROVE  merge[i].attempts \in Nat /\ merge[i].status \in {"none", "queued", "failed", "merged"}
BY DEF MergeOK

LEMMA MarkReadyForReviewType ==
  ASSUME TypeOK, NEW l \in LeaseIds, MarkReadyForReview(l)
  PROVE  TypeOK'
<1>1. Granted(l) /\ lease[l].item \in Items
  BY BuildGranted DEF MarkReadyForReview
<1>2. LeasesOK' /\ LeasesStay
  <2>1. lease' = [lease EXCEPT ![l] = Lease(lease[l].item, lease[l].slot, "reviewing", {})]
    BY DEF MarkReadyForReview
  <2>2. "reviewing" \in Held \cup {"released"} /\ {} \in SUBSET Overdue
    BY DEF Held
  <2>. QED  BY <1>1, <2>1, <2>2, Parts, PutLease
<1>3. BuildsOK'
  BY <1>2, Parts, EndsType DEF MarkReadyForReview
<1>4. ItemsOK'
  BY <1>1, Parts, PutStatus DEF MarkReadyForReview, ItemsOK, Statuses, retryVars, budgetVars
<1>5. MergeOK'
  <2>1. MergeRow(lease[l].item, "queued", merge[lease[l].item].attempts)
    BY DEF MarkReadyForReview, MergeRow
  <2>2. merge' \in [Items -> [status : {"none", "queued", "failed", "merged"}, attempts : Nat]]
    BY <1>1, <2>1, Parts, ReadMerge, PutMerge
  <2>. QED  BY <2>2, Parts DEF MarkReadyForReview, MergeOK
<1>6. SlotsOK' /\ CleanOK' /\ PoolOK' /\ RestOK'
  BY Parts DEF MarkReadyForReview, SlotsOK, CleanOK, PoolOK, RestOK, cleanVars, slotVars
<1>. QED  BY <1>2, <1>3, <1>4, <1>5, <1>6, PartsNext

LEMMA IgnoreStaleResultType ==
  ASSUME TypeOK, NEW l \in LeaseIds, IgnoreStaleResult(l)
  PROVE  TypeOK'
<1>1. BuildsOK'
  BY Parts, LeasesKept, EndsType DEF IgnoreStaleResult
<1>2. ItemsOK' /\ LeasesOK' /\ SlotsOK' /\ CleanOK' /\ MergeOK' /\ PoolOK' /\ RestOK'
  BY Parts DEF IgnoreStaleResult, ItemsOK, LeasesOK, Granted, SlotsOK, CleanOK, MergeOK, PoolOK, RestOK,
               mergeVars, cleanVars, retryVars, budgetVars, slotVars
<1>. QED  BY <1>1, <1>2, PartsNext

-----------------------------------------------------------------------------

LEMMA HostStopType ==
  ASSUME TypeOK, NEW h \in Hosts, HostStop(h)
  PROVE  TypeOK'
<1>1. BuildsOK'
  <2>1. beating' \subseteq beating /\ lease' = lease
    BY DEF HostStop
  <2>2. /\ stage' \in [LeaseIds -> {"none", "started", "checkout", "bailed"}]
        /\ \A l \in LeaseIds : stage'[l] # "none" => stage[l] # "none"
    BY Parts DEF HostStop, BuildsOK
  <2>3. /\ spawned' \in [LeaseIds -> Nat]
        /\ \A l \in LeaseIds : spawned'[l] > 0 => spawned[l] > 0
    BY Parts DEF HostStop, BuildsOK
  <2>. QED  BY <2>1, <2>2, <2>3, Parts DEF BuildsOK, Granted
<1>2. CleanOK' /\ RestOK'
  BY Parts, EventType DEF HostStop, CleanOK, RestOK
<1>3. ItemsOK' /\ LeasesOK' /\ SlotsOK' /\ MergeOK' /\ PoolOK'
  BY Parts DEF HostStop, ItemsOK, LeasesOK, Granted, SlotsOK, MergeOK, PoolOK, mergeVars, retryVars, budgetVars, slotVars
<1>. QED  BY <1>1, <1>2, <1>3, PartsNext

LEMMA HostStartType ==
  ASSUME TypeOK, NEW h \in Hosts, HostStart(h)
  PROVE  TypeOK'
<1>1. SlotsOK'
  BY Parts, FreedType DEF HostStart
<1>2. BuildsOK'
  BY Parts, LeasesKept, BuildsKept DEF HostStart
<1>3. ItemsOK' /\ LeasesOK' /\ CleanOK' /\ MergeOK' /\ PoolOK' /\ RestOK'
  BY Parts DEF HostStart, ItemsOK, LeasesOK, Granted, CleanOK, MergeOK, PoolOK, RestOK,
               mergeVars, cleanVars, retryVars, budgetVars
<1>. QED  BY <1>1, <1>2, <1>3, PartsNext

LEMMA HeartbeatEndsType ==
  ASSUME TypeOK, NEW l \in LeaseIds, HeartbeatEnds(l)
  PROVE  TypeOK'
<1>1. events' \in Nat
  BY Parts, EventType DEF HeartbeatEnds, RestOK
<1>. QED
  BY <1>1 DEF HeartbeatEnds, TypeOK, mergeVars, cleanVars, retryVars, budgetVars, slotVars

LEMMA PassesDueType ==
  ASSUME TypeOK, NEW l \in LeaseIds, NEW why \in Overdue, PassesDue(l, why)
  PROVE  TypeOK'
<1>1. events' \in Nat
  BY Parts, EventType DEF PassesDue, RestOK
<1>2. Granted(l)
  BY DEF PassesDue, Granted
<1>3. /\ lease[l].late \cup {why} \in SUBSET Overdue
      /\ lease[l].state \in Held \cup {"released"}
  BY <1>2, Parts, ReadLease
<1>4. LeasesOK' /\ LeasesStay
  <2>1. lease' = [lease EXCEPT ![l] =
                    Lease(lease[l].item, lease[l].slot, lease[l].state, lease[l].late \cup {why})]
    BY DEF PassesDue
  <2>. QED  BY <1>2, <1>3, <2>1, Parts, PutLease
<1>5. BuildsOK'
  BY <1>4, Parts, BuildsKept DEF PassesDue
<1>6. ItemsOK' /\ SlotsOK' /\ CleanOK' /\ MergeOK' /\ PoolOK' /\ RestOK'
  BY <1>1, Parts DEF PassesDue, ItemsOK, SlotsOK, CleanOK, MergeOK, PoolOK, RestOK,
                     mergeVars, cleanVars, retryVars, budgetVars, slotVars
<1>. QED  BY <1>4, <1>5, <1>6, PartsNext

LEMMA ReapType ==
  ASSUME TypeOK, NEW l \in LeaseIds, Reap(l)
  PROVE  TypeOK'
<1>1. Granted(l)
  BY DEF Reap, Stale, Granted
<1>2. lease[l].item \in Items
  BY <1>1, Parts, ReadLease
<1>3. LeasesOK' /\ LeasesStay
  <2>. DEFINE L == {l}
  <2>1. L \in SUBSET LeaseIds /\ (\A m \in L : Granted(m)) /\ lease' = Released(L)
    BY <1>1 DEF Reap
  <2>. HIDE DEF L
  <2>. QED  BY <2>1, Parts, ReleasedType
<1>4. BuildsOK'
  BY <1>3, Parts, BuildsKept DEF Reap
<1>5. ItemsOK'
  <2>1. CASE item' = item
    BY <2>1, Parts DEF Reap, ItemsOK, retryVars, budgetVars
  <2>2. CASE item' = [item EXCEPT ![lease[l].item] = Reaped(lease[l].item)]
    <3>1. Reaped(lease[l].item) \in ItemRow
      <4>1. "failed" \in Statuses /\ "ready" \in Statuses /\ item[lease[l].item].attempts + 1 \in Nat
        BY <1>2, Parts, ReadItem DEF Statuses, Terminal
      <4>. QED  BY <4>1, ItemType DEF Reaped
    <3>. QED  BY <1>2, <2>2, <3>1, Parts, PutItem DEF Reap, ItemsOK, retryVars, budgetVars
  <2>. QED  BY <2>1, <2>2 DEF Reap
<1>6. SlotsOK'
  <2>1. CASE Write(slot)
    BY <2>1, Parts, WriteType DEF SlotsOK
  <2>2. CASE Write(Freed({lease[l].slot}))
    BY <2>2, Parts, FreedType
  <2>. QED  BY <2>1, <2>2 DEF Reap
<1>7. CleanOK' /\ MergeOK' /\ PoolOK' /\ RestOK'
  BY Parts DEF Reap, CleanOK, MergeOK, PoolOK, RestOK, mergeVars, cleanVars
<1>. QED  BY <1>3, <1>4, <1>5, <1>6, <1>7, PartsNext

\* A slot's newest lease: leases are numbered in the order of their grant.
LEMMA Newest ==
  ASSUME NEW L \in SUBSET LeaseIds, L # {}
  PROVE  \E l \in L : \A m \in L : m <= l
<1>. DEFINE T == {MaxLeases - l : l \in L}
            R == OpToRel(<, Nat)
<1>1. L \in SUBSET Nat /\ \A l \in L : MaxLeases - l \in Nat
  BY CountsAssumption DEF LeaseIds
<1>2. T \subseteq Nat /\ T # {}
  BY <1>1
<1>. HIDE DEF T
<1>3. \E x \in T : \A y \in T : ~ (<<y, x>> \in R)
  BY <1>2, NatLessThanWellFounded, WFMin, Zenon
<1>4. PICK x \in T : \A y \in T : ~ (<<y, x>> \in R)
  BY <1>3
<1>5. \A y \in T : ~ (y < x)
  BY <1>2, <1>4 DEF OpToRel
<1>6. PICK l \in L : x = MaxLeases - l
  BY <1>4 DEF T
<1>7. \A m \in L : MaxLeases - m \in T
  BY DEF T
<1>8. \A m \in L : m <= l
  BY <1>1, <1>5, <1>6, <1>7, CountsAssumption
<1>. QED  BY <1>8

LEMMA ReconciledType ==
  ASSUME TypeOK, NEW s \in Slots
  PROVE  Reconciled(s) \in Items \cup {None}
<1>1. CASE LeasesOn(s) # {}
  <2>. DEFINE n == CHOOSE l \in LeasesOn(s) : \A m \in LeasesOn(s) : m <= l
  <2>1. LeasesOn(s) \in SUBSET LeaseIds
    BY DEF LeasesOn
  <2>2. n \in LeasesOn(s)
    BY <1>1, <2>1, Newest
  <2>. HIDE DEF n
  <2>3. lease[n].item \in Items
    BY <2>1, <2>2, Parts, ActiveGranted DEF LeasesOn, LeasesOK
  <2>. QED  BY <1>1, <2>3 DEF Reconciled, n
<1>2. CASE LeasesOn(s) = {}
  BY <1>2, Parts DEF Reconciled, SlotsOK, slotVars
<1>. QED  BY <1>1, <1>2

LEMMA ReconcileSlotsType ==
  ASSUME TypeOK, ReconcileSlots
  PROVE  TypeOK'
<1>1. SlotsOK'
  <2>1. [s \in Slots |-> Reconciled(s)] \in [Slots -> Items \cup {None}]
    BY ReconciledType
  <2>. QED  BY <2>1, Parts, WriteType DEF ReconcileSlots
<1>2. BuildsOK'
  BY Parts, LeasesKept, BuildsKept DEF ReconcileSlots
<1>3. ItemsOK' /\ LeasesOK' /\ CleanOK' /\ MergeOK' /\ PoolOK' /\ RestOK'
  BY Parts DEF ReconcileSlots, ItemsOK, LeasesOK, Granted, CleanOK, MergeOK, PoolOK, RestOK,
               mergeVars, cleanVars, retryVars, budgetVars
<1>. QED  BY <1>1, <1>2, <1>3, PartsNext

LEMMA RetryDueType ==
  ASSUME TypeOK, NEW i \in Items, RetryDue(i)
  PROVE  ItemsOK' /\ CleanOK' /\ MergeOK' /\ PoolOK' /\ RestOK'
<1>1. Item("ready", Greatest(item[i].attempts, LocalTries), None) \in ItemRow
  BY Parts, ReadItem, ItemType, CountsAssumption DEF Greatest, Statuses
<1>2. completed' \subseteq Items /\ retries' \in [Items -> Nat] /\ deployed' \subseteq Items
  BY Parts DEF RetryDue, ItemsOK
<1>3. ItemsOK'
  BY <1>1, <1>2, Parts, PutItem DEF RetryDue, Requeued
<1>. QED
  BY <1>3, Parts DEF RetryDue, CleanOK, MergeOK, PoolOK, RestOK, mergeVars, cleanVars

LEMMA AutoRequeueType ==
  ASSUME TypeOK, NEW i \in Items, AutoRequeue(i)
  PROVE  TypeOK'
<1>1. ItemsOK' /\ CleanOK' /\ MergeOK' /\ PoolOK' /\ RestOK'
  BY RetryDueType DEF AutoRequeue
<1>2. LeasesOK' /\ SlotsOK'
  BY Parts DEF AutoRequeue, LeasesOK, Granted, SlotsOK, slotVars
<1>3. BuildsOK'
  BY Parts, LeasesKept, BuildsKept DEF AutoRequeue, RetryDue
<1>. QED  BY <1>1, <1>2, <1>3, PartsNext

\* Every active lease of an item is released, and slots.
LEMMA ReleaseItemType ==
  ASSUME LeasesOK, SlotsOK, NEW i, NEW S, lease' = Released(LeasesOf(i)), Write(Freed(S))
  PROVE  LeasesOK' /\ SlotsOK' /\ LeasesStay
<1>1. LeasesOf(i) \in SUBSET LeaseIds /\ \A l \in LeasesOf(i) : Granted(l)
  BY ActiveGranted DEF LeasesOf
<1>. QED  BY <1>1, ReleasedType, FreedType

LEMMA SelfHealType ==
  ASSUME TypeOK, NEW i \in Items, SelfHeal(i)
  PROVE  TypeOK'
<1>1. ItemsOK' /\ CleanOK' /\ MergeOK' /\ PoolOK' /\ RestOK'
  BY RetryDueType DEF SelfHeal
<1>2. LeasesOK' /\ SlotsOK' /\ LeasesStay
  BY Parts, ReleaseItemType DEF SelfHeal
<1>3. BuildsOK'
  BY <1>2, Parts, BuildsKept DEF SelfHeal, RetryDue
<1>. QED  BY <1>1, <1>2, <1>3, PartsNext

\* The items change, and nothing else but the remedies and what completed.
LEMMA ItemsOnlyType ==
  ASSUME TypeOK, ItemsOK', RestOK',
         UNCHANGED <<slotVars, lease, buildVars, mergeVars, cleanVars, pool>>
  PROVE  TypeOK'
<1>1. BuildsOK'
  BY Parts, LeasesKept, BuildsKept
<1>2. LeasesOK' /\ SlotsOK' /\ CleanOK' /\ MergeOK' /\ PoolOK'
  BY Parts DEF LeasesOK, Granted, SlotsOK, CleanOK, MergeOK, PoolOK, mergeVars, cleanVars, slotVars
<1>. QED  BY <1>1, <1>2, PartsNext

LEMMA RemedyType ==
  ASSUME TypeOK, NEW i \in Items, DeployRemedy(i) \/ RequeueLocalRetest(i)
  PROVE  TypeOK'
<1>1. ItemsOK'
  <2>1. CASE DeployRemedy(i)
    BY <2>1, Parts DEF DeployRemedy, ItemsOK
  <2>2. CASE RequeueLocalRetest(i)
    <3>1. /\ Item("ready", 0, None) \in ItemRow
          /\ completed' \subseteq Items /\ retries' \in [Items -> Nat] /\ deployed' \subseteq Items
      BY <2>2, Parts, ItemType DEF RequeueLocalRetest, ItemsOK, Statuses
    <3>. QED  BY <2>2, <3>1, Parts, PutItem DEF RequeueLocalRetest
  <2>. QED  BY <2>1, <2>2
<1>2. RestOK'
  BY Parts, EventType DEF DeployRemedy, RequeueLocalRetest, RestOK
<1>. QED  BY <1>1, <1>2, ItemsOnlyType DEF DeployRemedy, RequeueLocalRetest

\* Slots change, and nothing else but the events.
LEMMA SlotsOnlyType ==
  ASSUME TypeOK, SlotsOK', RestOK',
         UNCHANGED <<item, lease, buildVars, mergeVars, cleanVars, retryVars, pool>>
  PROVE  TypeOK'
<1>1. BuildsOK'
  BY Parts, LeasesKept, BuildsKept
<1>2. ItemsOK' /\ LeasesOK' /\ CleanOK' /\ MergeOK' /\ PoolOK'
  BY Parts DEF ItemsOK, LeasesOK, Granted, CleanOK, MergeOK, PoolOK, mergeVars, cleanVars, retryVars, budgetVars
<1>. QED  BY <1>1, <1>2, PartsNext

LEMMA ResetStuckSlotType ==
  ASSUME TypeOK, NEW s \in Slots, ResetStuckSlot(s)
  PROVE  TypeOK'
<1>1. SlotsOK'
  BY Parts, FreedType DEF ResetStuckSlot
<1>2. RestOK'
  BY Parts DEF ResetStuckSlot, RestOK
<1>. QED  BY <1>1, <1>2, SlotsOnlyType DEF ResetStuckSlot

LEMMA AgentType ==
  ASSUME TypeOK, NEW s \in Slots, Agent(s)
  PROVE  TypeOK'
<1>1. CASE \E i \in Items : AgentDispatch(s, i)
  <2>1. SlotsOK'
    BY <1>1, Parts DEF AgentDispatch, SlotsOK
  <2>2. RestOK'
    BY <1>1, Parts, EventType DEF AgentDispatch, RestOK
  <2>. QED  BY <1>1, <2>1, <2>2, SlotsOnlyType DEF AgentDispatch
<1>2. CASE \E killed \in BOOLEAN : AgentEnds(s, killed)
  <2>1. SlotsOK'
    BY <1>2, Parts DEF AgentEnds, SlotsOK, Freed
  <2>2. RestOK'
    BY <1>2, Parts DEF AgentEnds, RestOK
  <2>. QED  BY <1>2, <2>1, <2>2, SlotsOnlyType DEF AgentEnds
<1>. QED  BY <1>1, <1>2 DEF Agent

LEMMA BackToReadyType ==
  ASSUME ItemsOK, NEW i \in Items, item' = BackToReady(i), UNCHANGED retryVars
  PROVE  ItemsOK'
<1>1. Item("ready", item[i].attempts, None) \in ItemRow
  BY ReadItem, ItemType DEF Statuses
<1>2. CASE item' = item
  BY <1>2 DEF ItemsOK, retryVars, budgetVars
<1>3. CASE item' = [item EXCEPT ![i] = Item("ready", item[i].attempts, None)]
  BY <1>1, <1>3, PutItem DEF ItemsOK, retryVars, budgetVars
<1>. QED  BY <1>2, <1>3 DEF BackToReady

LEMMA ReapBusySlotType ==
  ASSUME TypeOK, NEW s \in Slots, ReapBusySlot(s)
  PROVE  TypeOK'
<1>1. slot[s] \in Items
  BY Parts DEF ReapBusySlot, Abandoned, SlotsOK
<1>2. ItemsOK' /\ SlotsOK' /\ stale' \subseteq Items
  <2>1. CASE worktree[slot[s]] # None
    BY <1>1, <2>1, Parts DEF ReapBusySlot, ItemsOK, SlotsOK, CleanOK, retryVars, budgetVars
  <2>2. CASE worktree[slot[s]] = None
    <3>1. item' = BackToReady(slot[s]) /\ Write(Freed({s})) /\ stale' = stale /\ UNCHANGED retryVars
      BY <2>2 DEF ReapBusySlot
    <3>2. ItemsOK'
      BY <1>1, <3>1, Parts, BackToReadyType
    <3>3. SlotsOK'
      BY <3>1, Parts, FreedType
    <3>. QED  BY <3>1, <3>2, <3>3, Parts DEF CleanOK
  <2>. QED  BY <2>1, <2>2
<1>3. BuildsOK'
  BY Parts, LeasesKept, BuildsKept DEF ReapBusySlot
<1>4. LeasesOK' /\ CleanOK' /\ MergeOK' /\ PoolOK' /\ RestOK'
  BY <1>2, Parts DEF ReapBusySlot, LeasesOK, Granted, CleanOK, MergeOK, PoolOK, RestOK, mergeVars
<1>. QED  BY <1>2, <1>3, <1>4, PartsNext

LEMMA WorktreeScanType ==
  ASSUME TypeOK, NEW h \in Hosts, WorktreeScan(h)
  PROVE  TypeOK'
<1>1. CleanOK'
  <2>. DEFINE found == {i \in Items : worktree[i] = h /\ (item[i].status \in Terminal \/ i \in stale)}
              rows == {[item |-> i, stale |-> i \in stale] : i \in found}
  <2>1. \A i \in Items : [item |-> i, stale |-> i \in stale] \in CleanRow
    BY DEF CleanRow
  <2>2. rows \in SUBSET CleanRow
    BY <2>1
  <2>3. cleaning' = [cleaning EXCEPT ![h] = rows] /\ UNCHANGED <<worktree, stale>>
    BY DEF WorktreeScan
  <2>. HIDE DEF rows
  <2>. QED  BY <2>2, <2>3, Parts DEF CleanOK
<1>2. BuildsOK'
  BY Parts, LeasesKept, BuildsKept DEF WorktreeScan
<1>3. ItemsOK' /\ LeasesOK' /\ SlotsOK' /\ MergeOK' /\ PoolOK' /\ RestOK'
  BY Parts DEF WorktreeScan, ItemsOK, LeasesOK, Granted, SlotsOK, MergeOK, PoolOK, RestOK,
               mergeVars, retryVars, budgetVars, slotVars
<1>. QED  BY <1>1, <1>2, <1>3, PartsNext

LEMMA CleanWorktreeType ==
  ASSUME TypeOK, NEW h \in Hosts, NEW c \in cleaning[h], CleanWorktree(h, c)
  PROVE  TypeOK'
<1>1. c.item \in Items
  BY Parts DEF CleanOK, CleanRow
<1>2. CleanOK'
  BY <1>1, Parts DEF CleanWorktree, CleanOK
<1>3. LeasesOK' /\ SlotsOK' /\ LeasesStay
  BY Parts, ReleaseItemType DEF CleanWorktree
<1>4. BuildsOK'
  BY <1>3, Parts, BuildsKept DEF CleanWorktree
<1>5. ItemsOK'
  <2>1. CASE item' = item
    BY <2>1, Parts DEF CleanWorktree, ItemsOK, retryVars, budgetVars
  <2>2. CASE item' = BackToReady(c.item)
    BY <1>1, <2>2, Parts, BackToReadyType DEF CleanWorktree
  <2>. QED  BY <2>1, <2>2 DEF CleanWorktree
<1>6. MergeOK' /\ PoolOK' /\ RestOK'
  BY Parts DEF CleanWorktree, MergeOK, PoolOK, RestOK, mergeVars
<1>. QED  BY <1>2, <1>3, <1>4, <1>5, <1>6, PartsNext

-----------------------------------------------------------------------------
\* The drain leaves leases, slots, builds, worktrees and passes alone.
DrainOnly == UNCHANGED <<slotVars, lease, buildVars, cleanVars, pool, up>> /\ events' \in Nat

LEMMA DrainType ==
  ASSUME TypeOK, DrainOnly, ItemsOK', MergeOK'
  PROVE  TypeOK'
<1>1. BuildsOK'
  BY Parts, LeasesKept, BuildsKept DEF DrainOnly
<1>2. LeasesOK' /\ SlotsOK' /\ CleanOK' /\ PoolOK' /\ RestOK'
  BY Parts DEF DrainOnly, LeasesOK, Granted, SlotsOK, CleanOK, PoolOK, RestOK, cleanVars, slotVars
<1>. QED  BY <1>1, <1>2, PartsNext

LEMMA MergeLeavesType == TypeOK /\ MergeLeaves => DrainOnly
BY DEF MergeLeaves, DrainOnly, TypeOK, slotVars

LEMMA IdleType == Idle \in [item : Items \cup {None}, step : {"idle", "github", "checks", "reset"}]
                  /\ Idle.step = "idle"
BY DEF Idle

\* The answer is about an item.
LEMMA AnswersType == ASSUME TypeOK, NEW a, NEW S, Answers(a, S), "idle" \notin S PROVE drain.item \in Items
BY DEF TypeOK, Answers, slotVars

\* A pass ends with its row written.
LEMMA RowWritten ==
  ASSUME MergeOK, NEW i \in Items, NEW st \in {"none", "queued", "failed", "merged"}, NEW n \in Nat,
         MergeRow(i, st, n), drain' = Idle \/ drain' = [item |-> i, step |-> "reset"]
  PROVE  MergeOK'
<1>1. merge' \in [Items -> [status : {"none", "queued", "failed", "merged"}, attempts : Nat]]
  BY PutMerge
<1>. QED  BY <1>1, IdleType DEF MergeOK

LEMMA MergePassType ==
  ASSUME TypeOK, \/ \E i \in Items : MergePick(i)
                 \/ MergeWatch \/ MergeWait \/ MergeStop
  PROVE  TypeOK'
<1>1. DrainOnly
  BY Parts, EventType DEF MergePick, MergeWatch, MergeWait, MergeStop, DrainOnly, RestOK
<1>2. ItemsOK'
  BY Parts DEF MergePick, MergeWatch, MergeWait, MergeStop, ItemsOK, retryVars, budgetVars
<1>3. MergeOK'
  <2>1. CASE \E i \in Items : MergePick(i)
    BY <2>1, Parts DEF MergePick, MergeOK
  <2>2. CASE MergeWatch
    <3>1. drain.item \in Items
      BY <2>2, Parts DEF MergeWatch, MergeOK
    <3>2. merge' \in [Items -> [status : {"none", "queued", "failed", "merged"}, attempts : Nat]]
      <4>1. MergeRow(drain.item, "queued", merge[drain.item].attempts)
        BY <2>2 DEF MergeWatch, MergeRow
      <4>. QED  BY <3>1, <4>1, Parts, ReadMerge, PutMerge
    <3>. QED  BY <2>2, <3>1, <3>2 DEF MergeWatch, MergeOK
  <2>3. CASE MergeWait \/ MergeStop
    BY <2>3, Parts, IdleType DEF MergeWait, MergeStop, MergeOK
  <2>. QED  BY <2>1, <2>2, <2>3
<1>. QED  BY <1>1, <1>2, <1>3, DrainType

LEMMA MergeMergedType == ASSUME TypeOK, MergeMerged PROVE TypeOK'
<1>1. drain.item \in Items
  BY AnswersType DEF MergeMerged
<1>2. ItemsOK'
  BY <1>1, Parts, PutStatus DEF MergeMerged, MergeLeaves, ItemsOK, Statuses, Terminal, budgetVars
<1>3. MergeOK'
  BY <1>1, Parts, ReadMerge, RowWritten DEF MergeMerged
<1>. QED  BY <1>2, <1>3, MergeLeavesType, DrainType DEF MergeMerged

LEMMA MergeClosedType == ASSUME TypeOK, MergeClosed PROVE TypeOK'
<1>1. drain.item \in Items
  BY AnswersType DEF MergeClosed
<1>2. ItemsOK'
  <2>1. completed' \subseteq Items /\ UNCHANGED budgetVars
    BY <1>1, Parts DEF MergeClosed, MergeLeaves, ItemsOK, budgetVars
  <2>2. CASE item' = item
    BY <2>1, <2>2, Parts DEF ItemsOK, budgetVars
  <2>3. CASE item' = Status(drain.item, "cancelled")
    BY <1>1, <2>1, <2>3, Parts, PutStatus DEF Statuses, Terminal
  <2>. QED  BY <2>2, <2>3 DEF MergeClosed
<1>3. MergeOK'
  BY <1>1, Parts, ReadMerge, RowWritten DEF MergeClosed
<1>. QED  BY <1>2, <1>3, MergeLeavesType, DrainType DEF MergeClosed

LEMMA MergeMergeableType == ASSUME TypeOK, MergeMergeable PROVE TypeOK'
<1>1. drain.item \in Items
  BY AnswersType DEF MergeMergeable
<1>2. ItemsOK'
  BY Parts DEF MergeMergeable, MergeLeaves, ItemsOK, budgetVars
<1>3. MergeOK'
  BY <1>1, Parts, ReadMerge, RowWritten DEF MergeMergeable
<1>. QED  BY <1>2, <1>3, MergeLeavesType, DrainType DEF MergeMergeable

LEMMA MergeFailsType ==
  ASSUME TypeOK, NEW i \in Items, MergeFails(i), UNCHANGED budgetVars,
         drain' = Idle \/ drain' = [item |-> i, step |-> "reset"]
  PROVE  ItemsOK' /\ MergeOK'
<1>1. ItemsOK'
  BY Parts, PutStatus DEF MergeFails, ItemsOK, Statuses, Terminal
<1>2. Least(merge[i].attempts + 1, 2) \in Nat
  BY Parts, ReadMerge DEF Least
<1>. QED  BY <1>1, <1>2, Parts, RowWritten DEF MergeFails

LEMMA MergeFailedType == ASSUME TypeOK, MergeFailed \/ MergeConflict PROVE TypeOK'
<1>1. drain.item \in Items
  BY AnswersType DEF MergeFailed, MergeConflict
<1>2. ItemsOK' /\ MergeOK'
  BY <1>1, MergeFailsType DEF MergeFailed, MergeConflict, MergeLeaves
<1>. QED  BY <1>2, MergeLeavesType, DrainType DEF MergeFailed, MergeConflict

LEMMA ConflictResetType == ASSUME TypeOK, ConflictReset PROVE TypeOK'
<1>1. drain.item \in Items
  BY Parts DEF ConflictReset, MergeOK
<1>2. ItemsOK'
  <2>1. ConflictRebuild(drain.item) \in ItemRow
    BY <1>1, Parts, ReadItem, ItemType, CountsAssumption DEF ConflictRebuild, Least, Statuses
  <2>. QED  BY <1>1, <2>1, Parts, PutItem DEF ConflictReset, MergeLeaves, ItemsOK, budgetVars
<1>3. MergeOK'
  BY Parts, IdleType DEF ConflictReset, MergeOK
<1>. QED  BY <1>2, <1>3, MergeLeavesType, DrainType DEF ConflictReset

LEMMA SemanticResetType == ASSUME TypeOK, SemanticReset PROVE TypeOK'
<1>1. drain.item \in Items
  BY AnswersType DEF SemanticReset
<1>2. ItemsOK'
  <2>1. Item("ready", 0, None) \in ItemRow
    BY ItemType DEF Statuses
  <2>. QED  BY <1>1, <2>1, Parts, PutItem DEF SemanticReset, MergeLeaves, ItemsOK, budgetVars
<1>3. MergeOK'
  BY <1>1, Parts, RowWritten DEF SemanticReset
<1>. QED  BY <1>2, <1>3, MergeLeavesType, DrainType DEF SemanticReset

LEMMA CiRerunType == ASSUME TypeOK, CiRerun PROVE TypeOK'
<1>1. drain.item \in Items
  BY AnswersType DEF CiRerun
<1>2. ItemsOK'
  BY Parts DEF CiRerun, MergeLeaves, ItemsOK, budgetVars
<1>3. MergeOK'
  BY <1>1, Parts, ReadMerge, RowWritten DEF CiRerun
<1>. QED  BY <1>2, <1>3, MergeLeavesType, DrainType DEF CiRerun

LEMMA ReconcileReviewType ==
  ASSUME TypeOK, NEW i \in Items, NEW st \in Terminal, ReconcileReview(i, st)
  PROVE  TypeOK'
<1>1. ItemsOK'
  BY Parts, PutStatus DEF ReconcileReview, MergeLeaves, ItemsOK, Statuses, budgetVars
<1>2. MergeOK'
  BY Parts DEF ReconcileReview, MergeOK, mergeVars
<1>. QED  BY <1>1, <1>2, MergeLeavesType, DrainType DEF ReconcileReview

LEMMA MergeDrainType == TypeOK /\ MergeDrain => TypeOK'
BY MergePassType, MergeMergedType, MergeClosedType, MergeMergeableType, MergeFailedType,
   ConflictResetType, SemanticResetType, CiRerunType, ReconcileReviewType DEF MergeDrain

-----------------------------------------------------------------------------

\* Leases are released with the slots that still name their item.
LEMMA ReleaseHeldType ==
  ASSUME LeasesOK, SlotsOK, NEW L \in SUBSET LeaseIds, \A l \in L : Active(l),
         lease' = Released(L), Write(Freed(SlotsHeld(L)))
  PROVE  LeasesOK' /\ SlotsOK' /\ LeasesStay
<1>1. \A l \in L : Granted(l)
  BY ActiveGranted
<1>. QED  BY <1>1, ReleasedType, FreedType

LEMMA DrainHostType ==
  ASSUME TypeOK, NEW h \in Hosts, DrainHost(h)
  PROVE  TypeOK'
<1>1. LeasesOK' /\ SlotsOK' /\ LeasesStay
  <2>1. LeasesAt(h) \in SUBSET LeaseIds /\ \A l \in LeasesAt(h) : Active(l)
    BY DEF LeasesAt
  <2>. QED  BY <2>1, Parts, ReleaseHeldType DEF DrainHost
<1>2. BuildsOK'
  BY <1>1, Parts, BuildsKept DEF DrainHost
<1>3. ItemsOK'
  <2>1. \A i \in Items : item[i] \in ItemRow /\ Item("ready", item[i].attempts, None) \in ItemRow
    BY Parts, ReadItem, ItemType DEF ItemsOK, Statuses
  <2>. QED  BY <2>1, Parts DEF DrainHost, ItemsOK, retryVars, budgetVars
<1>4. CleanOK' /\ MergeOK' /\ PoolOK' /\ RestOK'
  BY Parts, EventType DEF DrainHost, CleanOK, MergeOK, PoolOK, RestOK, mergeVars, cleanVars
<1>. QED  BY <1>1, <1>2, <1>3, <1>4, PartsNext

LEMMA CancelType ==
  ASSUME TypeOK, NEW i \in Items, Cancel(i)
  PROVE  TypeOK'
<1>1. LeasesOK' /\ SlotsOK' /\ LeasesStay
  <2>. DEFINE L == IF item[i].status = "building" THEN {} ELSE LeasesOf(i)
  <2>1. L \in SUBSET LeaseIds /\ \A l \in L : Active(l)
    BY DEF LeasesOf
  <2>2. lease' = Released(L) /\ Write(Freed(SlotsHeld(L)))
    BY DEF Cancel
  <2>. HIDE DEF L
  <2>. QED  BY <2>1, <2>2, Parts, ReleaseHeldType
<1>2. BuildsOK'
  BY <1>1, Parts, BuildsKept DEF Cancel
<1>3. ItemsOK'
  BY Parts, PutStatus DEF Cancel, ItemsOK, Statuses, Terminal, retryVars, budgetVars
<1>4. MergeOK'
  <2>1. CASE UNCHANGED merge
    BY <2>1, Parts DEF Cancel, MergeOK
  <2>2. CASE MergeRow(i, "failed", merge[i].attempts)
    BY <2>2, Parts, ReadMerge, PutMerge DEF Cancel, MergeOK
  <2>. QED  BY <2>1, <2>2 DEF Cancel
<1>5. CleanOK' /\ PoolOK' /\ RestOK'
  BY Parts, EventType DEF Cancel, CleanOK, PoolOK, RestOK, cleanVars
<1>. QED  BY <1>1, <1>2, <1>3, <1>4, <1>5, PartsNext

LEMMA RetryType ==
  ASSUME TypeOK, NEW i \in Items, NEW on \in Hosts \cup {None}, Retry(i, on) \/ Ready(i, on)
  PROVE  TypeOK'
<1>1. PinTo(i, on) \in Hosts \cup {None}
  BY Parts, ReadItem DEF PinTo
<1>2. /\ Item("ready", 0, PinTo(i, on)) \in ItemRow
      /\ Item("ready", item[i].attempts, PinTo(i, on)) \in ItemRow
  BY <1>1, Parts, ReadItem, ItemType DEF Statuses
<1>3. ItemsOK'
  BY <1>2, Parts, PutItem DEF Retry, Ready, ItemsOK, retryVars, budgetVars
<1>4. BuildsOK'
  BY Parts, LeasesKept, BuildsKept DEF Retry, Ready
<1>5. LeasesOK' /\ SlotsOK' /\ CleanOK' /\ MergeOK' /\ PoolOK' /\ RestOK'
  BY Parts, EventType DEF Retry, Ready, LeasesOK, Granted, SlotsOK, CleanOK, MergeOK, PoolOK, RestOK,
                          mergeVars, cleanVars, slotVars
<1>. QED  BY <1>3, <1>4, <1>5, PartsNext

LEMMA StutterType == TypeOK /\ UNCHANGED vars => TypeOK'
BY DEF TypeOK, vars, buildVars, mergeVars, cleanVars, retryVars, budgetVars, slotVars

LEMMA NextType == TypeOK /\ [Next]_vars => TypeOK'
<1>. SUFFICES ASSUME TypeOK, [Next]_vars PROVE TypeOK'  OBVIOUS
<1>1. ASSUME NEW x \in Schedulers, Scheduler(x) PROVE TypeOK'
  BY <1>1, ReadReadyType, ReadSlotsType, AssignType, AssignLostType, EndPassType DEF Scheduler
<1>2. ASSUME NEW l \in LeaseIds, Begin(l) PROVE TypeOK'
  BY <1>2, MarkBuildingType, SkipBuildingType, BailBuildingType DEF Begin
<1>3. ASSUME NEW l \in LeaseIds, Build(l) PROVE TypeOK'
  BY <1>3, AcceptedAlreadyType, CreateWorktreeType, AlreadyDoneType, FailType,
     MarkReadyForReviewType, IgnoreStaleResultType DEF Build
<1>4. ASSUME NEW h \in Hosts, Host(h) PROVE TypeOK'
  BY <1>4, DispatchTickType, WorktreeScanType, CleanWorktreeType, HostStopType,
     HostStartType, DrainHostType DEF Host
<1>5. ASSUME NEW i \in Items, Operator(i) PROVE TypeOK'
  BY <1>5, CancelType, RetryType DEF Operator
<1>6. ASSUME NEW s \in Slots, SlotReaper(s) \/ Agent(s) PROVE TypeOK'
  BY <1>6, ResetStuckSlotType, ReapBusySlotType, AgentType DEF SlotReaper
<1>. QED
  BY <1>1, <1>2, <1>3, <1>4, <1>5, <1>6, RemedyType, HeartbeatEndsType, ReapType, PassesDueType, AutoRequeueType,
     SelfHealType, ReconcileSlotsType, MergeDrainType, StutterType DEF Next

\* Every reachable state is well typed: a lease that was granted names an item
\* and a slot for good, and heartbeats, dispatch tasks and builds run only under
\* leases that were granted.
THEOREM WorkTypeCorrect == Spec => []TypeOK
BY InitType, NextType, PTL DEF Spec

-----------------------------------------------------------------------------
\* One lease per item and per slot.  Only pg_assign_work_item grants leases; a
\* pass assigns from slots it has read as free, and takes from its list every
\* slot it assigns.

\* One daemon believes that it leads.
OneScheduler == \A x, y \in Schedulers : x = y

ItemExclusive == \A l, m \in LeaseIds : Active(l) /\ Active(m) /\ lease[l].item = lease[m].item => l = m

PoolFree == \A x \in Schedulers : \A s \in pool[x].slots : LeasesOn(s) = {}

\* A step grants nothing.
NoGrant ==
  \A l \in LeaseIds : Active(l)' => /\ Active(l) /\ lease'[l].item = lease[l].item
                                    /\ lease'[l].slot = lease[l].slot

\* Every step but an assignment grants nothing.
LEMMA ReleasedGrants ==
  ASSUME LeasesOK, NEW L \in SUBSET LeaseIds, \A l \in L : Active(l), lease' = Released(L)
  PROVE  NoGrant
<1>1. \A l \in L : Granted(l)
  BY ActiveGranted
<1>2. /\ \A l \in LeaseIds \ L : lease'[l] = lease[l]
      /\ \A l \in L : lease'[l].state = "released"
  BY <1>1, ReleasedType
<1>. QED  BY <1>2 DEF NoGrant, Active, Held

LEMMA ReleaseOwnGrants ==
  ASSUME LeasesOK, NEW l \in LeaseIds, ReleaseOwn(l)
  PROVE  NoGrant
<1>. DEFINE L == {m \in {l} : Active(m)}
<1>1. L \in SUBSET LeaseIds /\ (\A m \in L : Active(m)) /\ lease' = Released(L)
  BY DEF ReleaseOwn
<1>. HIDE DEF L
<1>. QED  BY <1>1, ReleasedGrants

LEMMA SameLeases == lease' = lease => NoGrant
BY DEF NoGrant, Active

\* A lease is rewritten without being granted.
LEMMA PutGrants ==
  ASSUME LeasesOK, NEW l \in LeaseIds, Active(l), NEW st, NEW late,
         lease' = [lease EXCEPT ![l] = Lease(lease[l].item, lease[l].slot, st, late)]
  PROVE  NoGrant
<1>. DEFINE r == Lease(lease[l].item, lease[l].slot, st, late)
<1>1. r.item = lease[l].item /\ r.slot = lease[l].slot
  BY DEF Lease
<1>2. lease'[l] = r /\ \A m \in LeaseIds : m # l => lease'[m] = lease[m]
  BY DEF LeasesOK
<1>. HIDE DEF r
<1>. QED  BY <1>1, <1>2 DEF NoGrant, Active

LEMMA BuildGrants ==
  ASSUME TypeOK, NEW l \in LeaseIds, Begin(l) \/ Build(l) \/ HeartbeatEnds(l) \/ Reap(l)
  PROVE  NoGrant /\ pool' = pool
<1>1. pool' = pool
  BY DEF Begin, Build, HeartbeatEnds, Reap, MarkBuilding, SkipBuilding, BailBuilding, AcceptedAlready,
         CreateWorktree, AlreadyDone, Fail, MarkReadyForReview, IgnoreStaleResult
<1>2. CASE ReleaseOwn(l)
  BY <1>1, <1>2, Parts, ReleaseOwnGrants
<1>3. CASE lease' = lease
  BY <1>1, <1>3, SameLeases
<1>4. CASE MarkBuilding(l)
  <2>1. Active(l) /\ lease' = [lease EXCEPT ![l] = Lease(lease[l].item, lease[l].slot, "building",
                                                        lease[l].late \ {"beat", "expiry"})]
    BY <1>4 DEF MarkBuilding, Active, Held
  <2>. QED  BY <1>1, <2>1, Parts, PutGrants
<1>5. CASE MarkReadyForReview(l)
  <2>1. Active(l) /\ lease' = [lease EXCEPT ![l] = Lease(lease[l].item, lease[l].slot, "reviewing", {})]
    BY <1>5 DEF MarkReadyForReview, Authority
  <2>. QED  BY <1>1, <2>1, Parts, PutGrants
<1>6. CASE Reap(l)
  <2>. DEFINE L == {l}
  <2>1. L \in SUBSET LeaseIds /\ (\A m \in L : Active(m)) /\ lease' = Released(L)
    BY <1>6 DEF Reap, Stale, Active, Held
  <2>. HIDE DEF L
  <2>. QED  BY <1>1, <2>1, Parts, ReleasedGrants
<1>7. ReleaseOwn(l) \/ lease' = lease \/ MarkBuilding(l) \/ MarkReadyForReview(l) \/ Reap(l)
  BY DEF Begin, Build, HeartbeatEnds, SkipBuilding, BailBuilding, AcceptedAlready,
         CreateWorktree, AlreadyDone, Fail, IgnoreStaleResult
<1>. QED  BY <1>2, <1>3, <1>4, <1>5, <1>6, <1>7

LEMMA PassesDueGrants ==
  ASSUME TypeOK, NEW l \in LeaseIds, NEW why \in Overdue, PassesDue(l, why)
  PROVE  NoGrant /\ pool' = pool
<1>1. Active(l) /\ lease' = [lease EXCEPT ![l] =
        Lease(lease[l].item, lease[l].slot, lease[l].state, lease[l].late \cup {why})]
  BY DEF PassesDue, Active, Held
<1>. QED  BY <1>1, Parts, PutGrants DEF PassesDue

LEMMA HostGrants ==
  ASSUME TypeOK, NEW h \in Hosts, Host(h)
  PROVE  NoGrant /\ pool' = pool
<1>1. ASSUME NEW L \in SUBSET LeaseIds, DispatchTick(h, L) PROVE NoGrant /\ pool' = pool
  <2>1. \A l \in LeaseIds : /\ lease'[l].item = lease[l].item /\ lease'[l].slot = lease[l].slot
                            /\ lease'[l].state = lease[l].state
    BY <1>1 DEF DispatchTick, Lease
  <2>. QED  BY <1>1, <2>1 DEF NoGrant, Active, DispatchTick
<1>2. ASSUME NEW c \in cleaning[h], CleanWorktree(h, c) PROVE NoGrant /\ pool' = pool
  <2>1. LeasesOf(c.item) \in SUBSET LeaseIds /\ \A l \in LeasesOf(c.item) : Active(l)
    BY DEF LeasesOf
  <2>. QED  BY <1>2, <2>1, Parts, ReleasedGrants DEF CleanWorktree
<1>3. CASE DrainHost(h)
  <2>1. LeasesAt(h) \in SUBSET LeaseIds /\ \A l \in LeasesAt(h) : Active(l)
    BY DEF LeasesAt
  <2>. QED  BY <1>3, <2>1, Parts, ReleasedGrants DEF DrainHost
<1>4. CASE WorktreeScan(h) \/ HostStop(h) \/ HostStart(h)
  BY <1>4, SameLeases DEF WorktreeScan, HostStop, HostStart
<1>. QED  BY <1>1, <1>2, <1>3, <1>4 DEF Host

LEMMA ItemGrants ==
  ASSUME TypeOK, NEW i \in Items,
         AutoRequeue(i) \/ SelfHeal(i) \/ DeployRemedy(i) \/ RequeueLocalRetest(i) \/ Operator(i)
  PROVE  NoGrant /\ pool' = pool
<1>1. CASE SelfHeal(i)
  <2>1. LeasesOf(i) \in SUBSET LeaseIds /\ \A l \in LeasesOf(i) : Active(l)
    BY DEF LeasesOf
  <2>. QED  BY <1>1, <2>1, Parts, ReleasedGrants DEF SelfHeal, RetryDue
<1>2. CASE Cancel(i)
  <2>. DEFINE L == IF item[i].status = "building" THEN {} ELSE LeasesOf(i)
  <2>1. L \in SUBSET LeaseIds /\ (\A l \in L : Active(l)) /\ lease' = Released(L)
    BY <1>2 DEF LeasesOf, Cancel
  <2>. HIDE DEF L
  <2>. QED  BY <1>2, <2>1, Parts, ReleasedGrants DEF Cancel
<1>3. CASE AutoRequeue(i)
  BY <1>3, SameLeases DEF AutoRequeue, RetryDue
<1>4. ASSUME NEW on \in Hosts \cup {None}, Retry(i, on) \/ Ready(i, on) PROVE NoGrant /\ pool' = pool
  BY <1>4, SameLeases DEF Retry, Ready
<1>5. CASE DeployRemedy(i) \/ RequeueLocalRetest(i)
  BY <1>5, SameLeases DEF DeployRemedy, RequeueLocalRetest
<1>. QED  BY <1>1, <1>2, <1>3, <1>4, <1>5 DEF Operator

LEMMA SlotGrants ==
  ASSUME NEW s \in Slots, SlotReaper(s) \/ Agent(s)
  PROVE  NoGrant /\ pool' = pool
BY SameLeases DEF SlotReaper, Agent, ResetStuckSlot, ReapBusySlot, AgentDispatch, AgentEnds

LEMMA DrainGrants == MergeDrain \/ ReconcileSlots \/ UNCHANGED vars => NoGrant /\ pool' = pool
<1>1. MergeDrain => lease' = lease /\ pool' = pool
  BY DEF MergeDrain, MergePick, ReconcileReview, MergeWatch, MergeMerged, MergeClosed, MergeMergeable,
         MergeFailed, MergeConflict, ConflictReset, SemanticReset, CiRerun, MergeWait, MergeStop, MergeLeaves
<1>2. ReconcileSlots \/ UNCHANGED vars => lease' = lease /\ pool' = pool
  BY DEF ReconcileSlots, vars
<1>. QED  BY <1>1, <1>2, SameLeases

\* Every step is an assignment, another step of a pass, or grants nothing.
LEMMA WhatGrants ==
  ASSUME TypeOK, [Next]_vars
  PROVE  (NoGrant /\ pool' = pool) \/ \E x \in Schedulers : Scheduler(x)
BY BuildGrants, PassesDueGrants, HostGrants, ItemGrants, SlotGrants, DrainGrants DEF Next

\* What a step of a pass does to the leases.
LEMMA AssignGrants ==
  ASSUME TypeOK, NEW x \in Schedulers, NEW p \in pool[x].items, NEW s \in Slots,
         NEW l \in LeaseIds, Assign(x, p, s, l)
  PROVE  /\ ~ Active(l) /\ lease'[l].item = p.i /\ lease'[l].slot = s /\ Active(l)'
         /\ \A m \in LeaseIds : m # l => lease'[m] = lease[m]
         /\ pool'[x].slots = pool[x].slots \ {s}
<1>. DEFINE r == Lease(p.i, s, "claimed", {})
<1>1. r.item = p.i /\ r.slot = s /\ r.state = "claimed"
  BY DEF Lease
<1>2. lease' = [lease EXCEPT ![l] = r]
  BY DEF Assign
<1>. HIDE DEF r
<1>3. lease'[l] = r /\ \A m \in LeaseIds : m # l => lease'[m] = lease[m]
  BY <1>2, Parts DEF LeasesOK
<1>4. ~ Active(l) /\ lease'[l].state \in Held
  BY <1>1, <1>3 DEF Assign, Active, Held
<1>5. pool'[x].slots = pool[x].slots \ {s}
  BY Parts DEF Assign, Consume, Pass, PoolOK
<1>. QED  BY <1>1, <1>3, <1>4, <1>5 DEF Active

LEMMA PassLeases ==
  ASSUME NEW x \in Schedulers, Scheduler(x)
  PROVE  \/ lease' = lease
         \/ \E p \in pool[x].items, s \in Slots, l \in LeaseIds : Assign(x, p, s, l)
BY DEF Scheduler, ReadReady, ReadSlots, AssignLost, EndPass, PassLeaves

LEMMA NextItemExclusive == TypeOK /\ ItemExclusive /\ [Next]_vars => ItemExclusive'
<1>. SUFFICES ASSUME TypeOK, ItemExclusive, [Next]_vars PROVE ItemExclusive'  OBVIOUS
<1>1. CASE NoGrant
  BY <1>1 DEF NoGrant, ItemExclusive
<1>2. ASSUME NEW x \in Schedulers, NEW p \in pool[x].items, NEW s \in Slots, NEW l \in LeaseIds,
             Assign(x, p, s, l)
      PROVE  ItemExclusive'
  <2>1. /\ lease'[l].item = p.i
        /\ \A m \in LeaseIds : m # l => lease'[m] = lease[m]
    BY <1>2, AssignGrants
  <2>2. \A m \in LeaseIds : Active(m) => lease[m].item # p.i
    BY <1>2 DEF Assign, Schedulable, LeasesOf
  <2>. QED  BY <2>1, <2>2 DEF ItemExclusive, Active
<1>. QED  BY <1>1, <1>2, WhatGrants, PassLeases, SameLeases

\* A slot in the list of a pass has no lease, and no slot has two.
LEMMA NextSlotExclusive ==
  ASSUME OneScheduler
  PROVE  TypeOK /\ PoolFree /\ SlotExclusive /\ [Next]_vars => PoolFree' /\ SlotExclusive'
<1>. SUFFICES ASSUME TypeOK, PoolFree, SlotExclusive, [Next]_vars PROVE PoolFree' /\ SlotExclusive'
  OBVIOUS
<1>1. ASSUME NoGrant PROVE SlotExclusive' /\ \A s \in Slots : LeasesOn(s) = {} => LeasesOn(s)' = {}
  BY <1>1 DEF NoGrant, SlotExclusive, LeasesOn
<1>2. \A x \in Schedulers : pool[x].slots \subseteq Slots
  BY Parts DEF PoolOK, PassRow
<1>3. CASE NoGrant /\ pool' = pool
  BY <1>1, <1>2, <1>3 DEF PoolFree
<1>4. ASSUME NEW x \in Schedulers, Scheduler(x) PROVE PoolFree' /\ SlotExclusive'
  <2>1. Schedulers = {x}
    BY DEF OneScheduler
  <2>2. ASSUME ReadReady(x) \/ \E live \in SUBSET Hosts : ReadSlots(x, live)
        PROVE  PoolFree' /\ SlotExclusive'
    <3>1. lease' = lease /\ \A s \in pool'[x].slots : s \in Slots /\ LeasesOn(s) = {}
      BY <2>2, Parts DEF ReadReady, ReadSlots, Pass, PassLeaves, PoolOK, FreeSlot
    <3>. QED  BY <1>1, <2>1, <3>1, SameLeases DEF PoolFree
  <2>3. ASSUME NEW p \in pool[x].items, NEW s \in Slots, NEW l \in LeaseIds, Assign(x, p, s, l)
        PROVE  PoolFree' /\ SlotExclusive'
    <3>1. LeasesOn(s) = {}
      BY <2>3 DEF Assign, SlotsFor, FreeSlot, PoolFree
    <3>2. /\ lease'[l].slot = s
          /\ \A m \in LeaseIds : m # l => lease'[m] = lease[m]
          /\ pool'[x].slots = pool[x].slots \ {s}
      BY <2>3, AssignGrants
    <3>3. \A t \in Slots : t # s => LeasesOn(t)' \subseteq LeasesOn(t)
      BY <3>2 DEF LeasesOn, Active
    <3>4. LeasesOn(s)' \subseteq {l}
      BY <3>1, <3>2 DEF LeasesOn, Active
    <3>5. PoolFree'
      BY <1>2, <2>1, <3>2, <3>3 DEF PoolFree
    <3>6. SlotExclusive'
      <4>1. ASSUME NEW t \in Slots, NEW a \in LeasesOn(t)', NEW b \in LeasesOn(t)' PROVE a = b
        BY <3>3, <3>4, <4>1 DEF SlotExclusive
      <4>. QED  BY <4>1 DEF SlotExclusive
    <3>. QED  BY <3>5, <3>6
  <2>4. CASE EndPass(x) \/ \E p \in pool[x].items, s \in Slots : AssignLost(x, p, s)
    <3>1. lease' = lease /\ pool'[x].slots \subseteq pool[x].slots
      <4>1. CASE EndPass(x)
        BY <4>1, Parts DEF EndPass, NoPass, PoolOK
      <4>2. ASSUME NEW p \in pool[x].items, NEW s \in Slots, AssignLost(x, p, s)
            PROVE  lease' = lease /\ pool'[x].slots \subseteq pool[x].slots
        BY <4>2, Parts DEF AssignLost, Consume, Pass, PassLeaves, PoolOK
      <4>. QED  BY <2>4, <4>1, <4>2
    <3>. QED  BY <1>1, <1>2, <2>1, <3>1, SameLeases DEF PoolFree
  <2>. QED  BY <1>4, <2>2, <2>3, <2>4 DEF Scheduler
<1>. QED  BY <1>3, <1>4, WhatGrants

LEMMA InitExclusive == Init => ItemExclusive /\ PoolFree /\ SlotExclusive /\ BusyHasLease
BY DEF Init, ItemExclusive, PoolFree, SlotExclusive, BusyHasLease, LeasesOn, Active, Held, Lease, NoPass

\* Where one daemon leads, a slot has at most one active lease, in spite of
\* restarts that idle slots whose leases are active.
THEOREM SlotExclusiveAlways == ASSUME OneScheduler PROVE Spec => []SlotExclusive
<1>1. Init => TypeOK /\ PoolFree /\ SlotExclusive
  BY InitType, InitExclusive
<1>2. TypeOK /\ PoolFree /\ SlotExclusive /\ [Next]_vars => (TypeOK /\ PoolFree /\ SlotExclusive)'
  BY NextType, NextSlotExclusive
<1>. QED  BY <1>1, <1>2, PTL DEF Spec

-----------------------------------------------------------------------------
\* A busy slot has a lease.  Every statement that releases a lease frees the
\* slot the lease accounts for.

\* Slots keep their item only while the leases behind it go on.
SlotsFollow ==
  \A s \in Slots : slot'[s] # None =>
    /\ slot'[s] = slot[s]
    /\ \A l \in LeasesOn(s) : lease[l].item = slot[s] =>
         Active(l)' /\ lease'[l].item = lease[l].item /\ lease'[l].slot = lease[l].slot

LEMMA FollowBusy == BusyHasLease /\ SlotsFollow => BusyHasLease'
<1>. SUFFICES ASSUME BusyHasLease, SlotsFollow, NEW s \in Slots, slot'[s] # None
              PROVE  \E l \in LeasesOn(s)' : lease'[l].item = slot'[s]
  BY DEF BusyHasLease
<1>1. slot'[s] = slot[s]
  BY DEF SlotsFollow
<1>2. PICK l \in LeasesOn(s) : lease[l].item = slot[s]
  BY <1>1 DEF BusyHasLease
<1>3. Active(l)' /\ lease'[l].item = lease[l].item /\ lease'[l].slot = lease[l].slot
  BY <1>2 DEF SlotsFollow
<1>. QED  BY <1>1, <1>2, <1>3 DEF LeasesOn

\* No lease is released.
LeasesGoOn ==
  \A l \in LeaseIds : Active(l) => /\ Active(l)' /\ lease'[l].item = lease[l].item
                                   /\ lease'[l].slot = lease[l].slot

LEMMA GoOnFollow == slot' = slot /\ LeasesGoOn => SlotsFollow
BY DEF SlotsFollow, LeasesGoOn, LeasesOn

LEMMA SameFollow == lease' = lease => LeasesGoOn
BY DEF LeasesGoOn, Active

\* A lease is rewritten and stays active.
LEMMA PutFollow ==
  ASSUME LeasesOK, NEW l \in LeaseIds, NEW st \in Held, NEW late,
         lease' = [lease EXCEPT ![l] = Lease(lease[l].item, lease[l].slot, st, late)]
  PROVE  LeasesGoOn
<1>. DEFINE r == Lease(lease[l].item, lease[l].slot, st, late)
<1>1. r.item = lease[l].item /\ r.slot = lease[l].slot /\ r.state = st
  BY DEF Lease
<1>2. lease'[l] = r /\ \A m \in LeaseIds : m # l => lease'[m] = lease[m]
  BY DEF LeasesOK
<1>. HIDE DEF r
<1>. QED  BY <1>1, <1>2 DEF LeasesGoOn, Active

\* Leases are released with the slots that still name their item ...
LEMMA HeldFollow ==
  ASSUME LeasesOK, SlotsOK, NEW L \in SUBSET LeaseIds, \A l \in L : Active(l),
         lease' = Released(L), Write(Freed(SlotsHeld(L)))
  PROVE  SlotsFollow
<1>1. \A l \in L : Granted(l)
  BY ActiveGranted
<1>2. \A l \in LeaseIds \ L : lease'[l] = lease[l]
  BY <1>1, ReleasedType
<1>3. \A s \in Slots : slot'[s] = IF s \in SlotsHeld(L) THEN None ELSE slot[s]
  BY FreedType
<1>. SUFFICES ASSUME NEW s \in Slots, slot'[s] # None
              PROVE  /\ slot'[s] = slot[s]
                     /\ \A l \in LeasesOn(s) : lease[l].item = slot[s] =>
                          Active(l)' /\ lease'[l].item = lease[l].item /\ lease'[l].slot = lease[l].slot
  BY DEF SlotsFollow
<1>4. slot'[s] = slot[s] /\ s \notin SlotsHeld(L)
  BY <1>3
<1>5. \A l \in LeasesOn(s) : lease[l].item = slot[s] => l \in LeaseIds \ L /\ Active(l)
  BY <1>4 DEF SlotsHeld, LeasesOn
<1>. QED  BY <1>2, <1>4, <1>5 DEF Active

\* ... or all leases of an item with all slots that name it.
LEMMA ItemFollow ==
  ASSUME LeasesOK, SlotsOK, NEW i, lease' = Released(LeasesOf(i)),
         Write(Freed({s \in Slots : slot[s] = i}))
  PROVE  SlotsFollow
<1>1. LeasesOf(i) \in SUBSET LeaseIds /\ \A l \in LeasesOf(i) : Granted(l) /\ lease[l].item = i
  BY ActiveGranted DEF LeasesOf
<1>2. \A l \in LeaseIds \ LeasesOf(i) : lease'[l] = lease[l]
  BY <1>1, ReleasedType
<1>3. \A s \in Slots : slot'[s] = IF slot[s] = i THEN None ELSE slot[s]
  BY FreedType
<1>. QED  BY <1>1, <1>2, <1>3 DEF SlotsFollow, LeasesOn, Active

LEMMA ReleaseOwnFollow ==
  ASSUME LeasesOK, SlotsOK, NEW l \in LeaseIds, ReleaseOwn(l)
  PROVE  SlotsFollow
<1>. DEFINE L == {m \in {l} : Active(m)}
<1>1. /\ L \in SUBSET LeaseIds /\ \A m \in L : Active(m)
      /\ lease' = Released(L) /\ Write(Freed(SlotsHeld(L)))
  BY DEF ReleaseOwn
<1>. HIDE DEF L
<1>. QED  BY <1>1, HeldFollow

\* The reaper frees the slot, which has no other lease.
LEMMA ReapFollow ==
  ASSUME TypeOK, SlotExclusive, NEW l \in LeaseIds, Reap(l)
  PROVE  SlotsFollow
<1>. DEFINE L == {l}
            s == lease[l].slot
<1>1. L \in SUBSET LeaseIds /\ Active(l) /\ (\A m \in L : Granted(m)) /\ lease' = Released(L)
  BY DEF Reap, Stale, Active, Granted, Held
<1>2. \A m \in LeaseIds : m # l => lease'[m] = lease[m]
  <2>1. \A m \in LeaseIds : m # l => m \in LeaseIds \ L
    OBVIOUS
  <2>. HIDE DEF L
  <2>. QED  BY <1>1, <2>1, Parts, ReleasedType
<1>3. s \in Slots /\ LeasesOn(s) = {l}
  BY <1>1, Parts DEF LeasesOK, SlotExclusive, LeasesOn
<1>4. slot' = IF slot[s] \in {lease[l].item, None} THEN Freed({s}) ELSE slot
  BY <1>3 DEF Reap, Write
<1>5. \A t \in Slots : slot'[t] # None => slot'[t] = slot[t] /\ (t = s => slot[t] # lease[l].item)
  BY <1>4, Parts DEF Freed, SlotsOK, slotVars
<1>6. ASSUME NEW t \in Slots, slot'[t] # None, NEW m \in LeasesOn(t), lease[m].item = slot[t]
      PROVE  m \in LeaseIds /\ m # l /\ Active(m)
  BY <1>5, <1>6 DEF LeasesOn
<1>. HIDE DEF s
<1>. QED  BY <1>2, <1>5, <1>6 DEF SlotsFollow, Active

\* Reconciliation names the item of the slot's lease.
LEMMA ReconcileBusy ==
  ASSUME TypeOK, SlotExclusive, BusyHasLease, ReconcileSlots
  PROVE  BusyHasLease'
<1>. SUFFICES ASSUME NEW s \in Slots, slot'[s] # None
              PROVE  \E l \in LeasesOn(s)' : lease'[l].item = slot'[s]
  BY DEF BusyHasLease
<1>1. lease' = lease /\ slot'[s] = Reconciled(s)
  BY DEF ReconcileSlots, Write
<1>2. LeasesOn(s)' = LeasesOn(s)
  BY <1>1 DEF LeasesOn, Active
<1>3. LeasesOn(s) # {}
  BY <1>1 DEF Reconciled, BusyHasLease
<1>. DEFINE n == CHOOSE l \in LeasesOn(s) : \A m \in LeasesOn(s) : m <= l
<1>4. n \in LeasesOn(s)
  BY <1>3, Newest DEF LeasesOn
<1>. HIDE DEF n
<1>5. Reconciled(s) = lease[n].item
  BY <1>3 DEF Reconciled, n
<1>. QED  BY <1>1, <1>2, <1>4, <1>5

LEMMA AssignBusy ==
  ASSUME TypeOK, BusyHasLease, NEW x \in Schedulers, NEW p \in pool[x].items, NEW s \in Slots,
         NEW l \in LeaseIds, Assign(x, p, s, l)
  PROVE  BusyHasLease'
<1>1. /\ ~ Active(l) /\ lease'[l].item = p.i /\ lease'[l].slot = s /\ Active(l)'
      /\ \A m \in LeaseIds : m # l => lease'[m] = lease[m]
  BY AssignGrants
<1>2. slot'[s] = p.i /\ \A t \in Slots : t # s => slot'[t] = slot[t]
  BY Parts DEF Assign, Write, SlotsOK
<1>3. l \in LeasesOn(s)' /\ \A t \in Slots : LeasesOn(t) \subseteq LeasesOn(t)'
  BY <1>1 DEF LeasesOn, Active
<1>4. \A t \in Slots : \A m \in LeasesOn(t) : lease'[m] = lease[m]
  BY <1>1 DEF LeasesOn
<1>. QED  BY <1>1, <1>2, <1>3, <1>4 DEF BusyHasLease

LEMMA BuildFollow ==
  ASSUME TypeOK, SlotExclusive, NEW l \in LeaseIds, Begin(l) \/ Build(l) \/ HeartbeatEnds(l) \/ Reap(l)
  PROVE  SlotsFollow
<1>1. CASE MarkBuilding(l)
  <2>1. slot' = slot /\ lease' = [lease EXCEPT ![l] =
          Lease(lease[l].item, lease[l].slot, "building", lease[l].late \ {"beat", "expiry"})]
    BY <1>1 DEF MarkBuilding, slotVars
  <2>. QED  BY <2>1, Parts, PutFollow, GoOnFollow DEF Held
<1>2. CASE MarkReadyForReview(l)
  <2>1. slot' = slot /\ lease' = [lease EXCEPT ![l] = Lease(lease[l].item, lease[l].slot, "reviewing", {})]
    BY <1>2 DEF MarkReadyForReview, slotVars
  <2>. QED  BY <2>1, Parts, PutFollow, GoOnFollow DEF Held
<1>3. CASE ReleaseOwn(l)
  BY <1>3, Parts, ReleaseOwnFollow
<1>4. CASE lease' = lease /\ slot' = slot
  BY <1>4, SameFollow, GoOnFollow
<1>5. CASE Reap(l)
  BY <1>5, ReapFollow
<1>6. \/ ReleaseOwn(l) \/ (lease' = lease /\ slot' = slot)
      \/ MarkBuilding(l) \/ MarkReadyForReview(l) \/ Reap(l)
  BY DEF Begin, Build, HeartbeatEnds, SkipBuilding, BailBuilding, AcceptedAlready,
         CreateWorktree, AlreadyDone, Fail, IgnoreStaleResult, slotVars
<1>. QED  BY <1>1, <1>2, <1>3, <1>4, <1>5, <1>6

LEMMA PassesDueFollow ==
  ASSUME TypeOK, NEW l \in LeaseIds, NEW why \in Overdue, PassesDue(l, why)
  PROVE  SlotsFollow
<1>1. /\ slot' = slot /\ lease[l].state \in Held
      /\ lease' = [lease EXCEPT ![l] =
           Lease(lease[l].item, lease[l].slot, lease[l].state, lease[l].late \cup {why})]
  BY DEF PassesDue, Held, slotVars
<1>. QED  BY <1>1, Parts, PutFollow, GoOnFollow

\* Nobody takes slots by `ff agent dispatch` ...
NoAgents == "agent dispatch" \notin EventKinds

\* ... so nothing is left behind for the slot reapers and their clean-up.
NothingLeft == cli = {} /\ stale = {} /\ \A h \in Hosts : \A c \in cleaning[h] : ~ c.stale

LEMMA HostFollow ==
  ASSUME TypeOK, NothingLeft, NEW h \in Hosts, Host(h)
  PROVE  SlotsFollow
<1>1. ASSUME NEW L \in SUBSET LeaseIds, DispatchTick(h, L) PROVE SlotsFollow
  <2>1. \A l \in LeaseIds : /\ lease'[l].item = lease[l].item /\ lease'[l].slot = lease[l].slot
                            /\ lease'[l].state = lease[l].state
    BY <1>1 DEF DispatchTick, Lease
  <2>2. LeasesGoOn
    BY <2>1 DEF LeasesGoOn, Active
  <2>. QED  BY <1>1, <2>2, GoOnFollow DEF DispatchTick, slotVars
<1>2. ASSUME NEW c \in cleaning[h], CleanWorktree(h, c) PROVE SlotsFollow
  <2>1. ~ c.stale
    BY DEF NothingLeft
  <2>2. {s \in Slots : slot[s] = c.item /\ (c.stale => claim[s] = "cleanup")} = {s \in Slots : slot[s] = c.item}
    BY <2>1
  <2>3. lease' = Released(LeasesOf(c.item)) /\ Write(Freed({s \in Slots : slot[s] = c.item}))
    BY <1>2, <2>2 DEF CleanWorktree
  <2>. QED  BY <2>3, Parts, ItemFollow
<1>3. CASE DrainHost(h)
  <2>1. LeasesAt(h) \in SUBSET LeaseIds /\ \A l \in LeasesAt(h) : Active(l)
    BY DEF LeasesAt
  <2>. QED  BY <1>3, <2>1, Parts, HeldFollow DEF DrainHost
<1>4. CASE WorktreeScan(h) \/ HostStop(h)
  BY <1>4, SameFollow, GoOnFollow DEF WorktreeScan, HostStop, slotVars
<1>5. CASE HostStart(h)
  <2>1. lease' = lease /\ \A s \in Slots : slot'[s] # None => slot'[s] = slot[s]
    BY <1>5, Parts, FreedType DEF HostStart
  <2>. QED  BY <2>1 DEF SlotsFollow, LeasesOn, Active
<1>. QED  BY <1>1, <1>2, <1>3, <1>4, <1>5 DEF Host

LEMMA ItemsFollow ==
  ASSUME TypeOK, NEW i \in Items,
         AutoRequeue(i) \/ SelfHeal(i) \/ DeployRemedy(i) \/ RequeueLocalRetest(i) \/ Operator(i)
  PROVE  SlotsFollow
<1>1. CASE SelfHeal(i)
  BY <1>1, Parts, ItemFollow DEF SelfHeal
<1>2. CASE Cancel(i)
  <2>. DEFINE L == IF item[i].status = "building" THEN {} ELSE LeasesOf(i)
  <2>1. /\ L \in SUBSET LeaseIds /\ \A l \in L : Active(l)
        /\ lease' = Released(L) /\ Write(Freed(SlotsHeld(L)))
    BY <1>2 DEF LeasesOf, Cancel
  <2>. HIDE DEF L
  <2>. QED  BY <2>1, Parts, HeldFollow
<1>3. CASE AutoRequeue(i)
  BY <1>3, SameFollow, GoOnFollow DEF AutoRequeue, slotVars
<1>4. ASSUME NEW on \in Hosts \cup {None}, Retry(i, on) \/ Ready(i, on) PROVE SlotsFollow
  BY <1>4, SameFollow, GoOnFollow DEF Retry, Ready, slotVars
<1>5. CASE DeployRemedy(i) \/ RequeueLocalRetest(i)
  BY <1>5, SameFollow, GoOnFollow DEF DeployRemedy, RequeueLocalRetest, slotVars
<1>. QED  BY <1>1, <1>2, <1>3, <1>4, <1>5 DEF Operator

LEMMA DrainFollow == MergeDrain \/ UNCHANGED vars => SlotsFollow
<1>1. MergeDrain => lease' = lease /\ slot' = slot
  BY DEF MergeDrain, MergePick, ReconcileReview, MergeWatch, MergeMerged, MergeClosed, MergeMergeable,
         MergeFailed, MergeConflict, ConflictReset, SemanticReset, CiRerun, MergeWait, MergeStop, MergeLeaves, slotVars
<1>2. UNCHANGED vars => lease' = lease /\ slot' = slot
  BY DEF vars, slotVars
<1>. QED  BY <1>1, <1>2, SameFollow, GoOnFollow

LEMMA SchedulerBusy ==
  ASSUME TypeOK, BusyHasLease, NEW x \in Schedulers, Scheduler(x)
  PROVE  BusyHasLease'
<1>1. \/ lease' = lease /\ slot' = slot
      \/ \E p \in pool[x].items, s \in Slots, l \in LeaseIds : Assign(x, p, s, l)
  BY DEF Scheduler, ReadReady, ReadSlots, AssignLost, EndPass, PassLeaves, slotVars
<1>2. CASE lease' = lease /\ slot' = slot
  BY <1>2, SameFollow, GoOnFollow, FollowBusy
<1>. QED  BY <1>1, <1>2, AssignBusy

\* Neither the slot reapers nor `ff agent dispatch` have anything to do.
LEMMA NobodyElse ==
  ASSUME NoAgents, BusyHasLease, NothingLeft, NEW s \in Slots
  PROVE  ~ SlotReaper(s) /\ ~ Agent(s)
<1>1. ~ Abandoned(s)
  BY DEF BusyHasLease, Abandoned
<1>2. ~ SlotReaper(s)
  BY <1>1 DEF SlotReaper, ResetStuckSlot, ReapBusySlot
<1>3. ~ Agent(s)
  BY DEF Agent, AgentDispatch, AgentEnds, Event, NoAgents, NothingLeft
<1>. QED  BY <1>2, <1>3

LEMMA NextBusy ==
  ASSUME NoAgents
  PROVE  TypeOK /\ SlotExclusive /\ NothingLeft /\ BusyHasLease /\ [Next]_vars => BusyHasLease'
<1>. SUFFICES ASSUME TypeOK, SlotExclusive, NothingLeft, BusyHasLease, [Next]_vars PROVE BusyHasLease'
  OBVIOUS
<1>1. SlotsFollow \/ ReconcileSlots \/ \E x \in Schedulers : Scheduler(x)
  BY BuildFollow, PassesDueFollow, HostFollow, ItemsFollow, DrainFollow, NobodyElse DEF Next
<1>. QED  BY <1>1, FollowBusy, ReconcileBusy, SchedulerBusy

\* Who touches cli, stale and the passes of the worktree reaper.
LEMMA NextLeft ==
  ASSUME NoAgents
  PROVE  TypeOK /\ BusyHasLease /\ NothingLeft /\ [Next]_vars => NothingLeft'
<1>. SUFFICES ASSUME TypeOK, BusyHasLease, NothingLeft, [Next]_vars PROVE NothingLeft'
  OBVIOUS
<1>1. ASSUME UNCHANGED <<cli, cleanVars>> PROVE NothingLeft'
  BY <1>1 DEF NothingLeft, cleanVars
<1>2. ASSUME NEW x \in Schedulers, Scheduler(x) PROVE NothingLeft'
  BY <1>1, <1>2 DEF Scheduler, ReadReady, ReadSlots, Assign, AssignLost, EndPass, PassLeaves, Write, slotVars
<1>3. ASSUME NEW l \in LeaseIds, Begin(l) \/ Build(l) \/ HeartbeatEnds(l) \/ Reap(l) PROVE NothingLeft'
  <2>1. CASE CreateWorktree(l)
    BY <2>1 DEF CreateWorktree, NothingLeft, slotVars
  <2>2. ASSUME ~ CreateWorktree(l) PROVE NothingLeft'
    BY <1>1, <1>3, <2>2 DEF Begin, Build, HeartbeatEnds, Reap, MarkBuilding, SkipBuilding, BailBuilding,
       AcceptedAlready, AlreadyDone, Fail, MarkReadyForReview, IgnoreStaleResult, ReleaseOwn, Write, slotVars
  <2>. QED  BY <2>1, <2>2
<1>4. ASSUME NEW h \in Hosts, Host(h) PROVE NothingLeft'
  <2>1. CASE WorktreeScan(h)
    <3>. DEFINE found == {i \in Items : worktree[i] = h /\ (item[i].status \in Terminal \/ i \in stale)}
                rows == {[item |-> i, stale |-> i \in stale] : i \in found}
    <3>1. \A i \in Items : [item |-> i, stale |-> i \in stale].stale = (i \in stale)
      OBVIOUS
    <3>3. \A c \in rows : ~ c.stale
      BY <3>1 DEF NothingLeft
    <3>2. cleaning' = [cleaning EXCEPT ![h] = rows] /\ UNCHANGED <<cli, stale>>
      BY <2>1 DEF WorktreeScan, slotVars
    <3>. HIDE DEF rows
    <3>. QED  BY <3>2, <3>3, Parts DEF NothingLeft, CleanOK
  <2>2. ASSUME NEW c \in cleaning[h], CleanWorktree(h, c) PROVE NothingLeft'
    BY <2>2, Parts DEF CleanWorktree, NothingLeft, CleanOK, Write
  <2>3. CASE HostStop(h)
    BY <2>3, Parts DEF HostStop, NothingLeft, CleanOK, slotVars
  <2>4. CASE HostStart(h) \/ DrainHost(h) \/ \E L \in SUBSET LeaseIds : DispatchTick(h, L)
    BY <1>1, <2>4 DEF HostStart, DrainHost, DispatchTick, Write, slotVars
  <2>. QED  BY <1>4, <2>1, <2>2, <2>3, <2>4 DEF Host
<1>5. ASSUME NEW i \in Items,
             AutoRequeue(i) \/ SelfHeal(i) \/ DeployRemedy(i) \/ RequeueLocalRetest(i) \/ Operator(i)
      PROVE  NothingLeft'
  BY <1>1, <1>5 DEF AutoRequeue, SelfHeal, RetryDue, DeployRemedy, RequeueLocalRetest, Operator, Cancel, Retry,
     Ready, Write, slotVars
<1>6. ASSUME MergeDrain \/ ReconcileSlots \/ UNCHANGED vars PROVE NothingLeft'
  BY <1>1, <1>6 DEF MergeDrain, MergePick, ReconcileReview, MergeWatch, MergeMerged, MergeClosed, MergeMergeable,
     MergeFailed, MergeConflict, ConflictReset, SemanticReset, CiRerun, MergeWait, MergeStop, MergeLeaves,
     ReconcileSlots, Write, vars, slotVars
<1>7. ASSUME NEW l \in LeaseIds, NEW why \in Overdue, PassesDue(l, why) PROVE NothingLeft'
  BY <1>1, <1>7 DEF PassesDue, slotVars
<1>. QED  BY <1>2, <1>3, <1>4, <1>5, <1>6, <1>7, NobodyElse DEF Next

\* Where one daemon leads and slots are taken by leases only, no slot is busy for
\* nothing: the item a busy slot names has an active lease on that slot,
\* whichever statement released leases.
THEOREM BusyHasLeaseAlways == ASSUME OneScheduler, NoAgents PROVE Spec => []BusyHasLease
<1>. DEFINE I == TypeOK /\ PoolFree /\ SlotExclusive /\ NothingLeft /\ BusyHasLease
<1>1. Init => I
  BY InitType, InitExclusive DEF Init, NothingLeft
<1>2. I /\ [Next]_vars => I'
  BY NextType, NextSlotExclusive, NextLeft, NextBusy
<1>. QED  BY <1>1, <1>2, PTL DEF Spec

-----------------------------------------------------------------------------
\* A build that outlived its lease.  An item has one active lease, so the lease
\* of a superseded build is not active and its statements match no row.

LEMMA ReleaseNothing ==
  ASSUME LeasesOK, SlotsOK, NEW l \in LeaseIds, ~ Active(l), ReleaseOwn(l)
  PROVE  lease' = lease /\ slot' = slot
<1>1. {m \in {l} : Active(m)} = {}
  OBVIOUS
<1>2. lease' = Released({}) /\ Write(Freed(SlotsHeld({})))
  BY <1>1 DEF ReleaseOwn
<1>3. lease' = lease
  BY <1>2 DEF Released, LeasesOK
<1>4. SlotsHeld({}) = {}
  BY DEF SlotsHeld
<1>. QED  BY <1>2, <1>3, <1>4 DEF Freed, Write, SlotsOK

Zombie ==
  \A l \in LeaseIds :
    stage[l] # "none" /\ stage'[l] = "none" /\ Superseded(l) => UNCHANGED <<item, slot, lease>>

\* What the end of a build is a step of.
LEMMA WhoEnds ==
  ASSUME TypeOK, [Next]_vars, NEW l \in LeaseIds, stage[l] # "none", stage'[l] = "none"
  PROVE  \/ AcceptedAlready(l) \/ Fail(l) \/ MarkReadyForReview(l) \/ IgnoreStaleResult(l)
         \/ \E h \in Hosts : HostStop(h)
<1>1. stage' # stage
  OBVIOUS
<1>2. ASSUME NEW k \in LeaseIds, Begin(k) \/ Build(k) \/ HeartbeatEnds(k) \/ Reap(k)
      PROVE  AcceptedAlready(l) \/ Fail(l) \/ MarkReadyForReview(l) \/ IgnoreStaleResult(l)
  <2>1. MarkBuilding(k) \/ CreateWorktree(k) \/ AlreadyDone(k) => FALSE
    BY Parts DEF MarkBuilding, CreateWorktree, AlreadyDone, BuildsOK
  <2>2. AcceptedAlready(k) \/ Fail(k) \/ MarkReadyForReview(k) \/ IgnoreStaleResult(k) => k = l
    BY Parts DEF AcceptedAlready, Fail, MarkReadyForReview, IgnoreStaleResult, Ends, BuildsOK
  <2>3. SkipBuilding(k) \/ BailBuilding(k) \/ HeartbeatEnds(k) \/ Reap(k) => stage' = stage
    BY DEF SkipBuilding, BailBuilding, HeartbeatEnds, Reap, buildVars
  <2>. QED  BY <1>1, <1>2, <2>1, <2>2, <2>3 DEF Begin, Build
<1>3. ASSUME NEW x \in Schedulers, Scheduler(x) PROVE FALSE
  BY <1>1, <1>3 DEF Scheduler, ReadReady, ReadSlots, Assign, AssignLost, EndPass, PassLeaves, buildVars
<1>4. ASSUME NEW h \in Hosts, Host(h) PROVE HostStop(h)
  BY <1>1, <1>4 DEF Host, DispatchTick, WorktreeScan, CleanWorktree, HostStart, DrainHost, buildVars
<1>5. ASSUME NEW i \in Items,
             AutoRequeue(i) \/ SelfHeal(i) \/ DeployRemedy(i) \/ RequeueLocalRetest(i) \/ Operator(i)
      PROVE  FALSE
  BY <1>1, <1>5 DEF AutoRequeue, SelfHeal, RetryDue, DeployRemedy, RequeueLocalRetest, Operator, Cancel, Retry, Ready, buildVars
<1>6. ASSUME MergeDrain \/ ReconcileSlots \/ UNCHANGED vars PROVE FALSE
  BY <1>1, <1>6 DEF MergeDrain, MergePick, ReconcileReview, MergeWatch, MergeMerged, MergeClosed, MergeMergeable,
         MergeFailed, MergeConflict, ConflictReset, SemanticReset, CiRerun, MergeWait, MergeStop, MergeLeaves,
         ReconcileSlots, vars, buildVars
<1>7. ASSUME NEW k \in LeaseIds, NEW why \in Overdue, PassesDue(k, why) PROVE FALSE
  BY <1>1, <1>7 DEF PassesDue, buildVars
<1>8. ASSUME NEW s \in Slots, SlotReaper(s) \/ Agent(s) PROVE FALSE
  BY <1>1, <1>8 DEF SlotReaper, Agent, ResetStuckSlot, ReapBusySlot, AgentDispatch, AgentEnds, buildVars
<1>. QED  BY <1>2, <1>3, <1>4, <1>5, <1>6, <1>7, <1>8 DEF Next

LEMMA NextZombie == TypeOK /\ ItemExclusive /\ [Next]_vars => Zombie
<1>. SUFFICES ASSUME TypeOK, ItemExclusive, [Next]_vars, NEW l \in LeaseIds,
                     stage[l] # "none", stage'[l] = "none", Superseded(l)
              PROVE  UNCHANGED <<item, slot, lease>>
  BY DEF Zombie
<1>1. ~ Active(l)
  <2>1. PICK m \in LeasesOf(lease[l].item) : m > l
    BY DEF Superseded
  <2>2. m \in LeaseIds /\ Active(m) /\ lease[m].item = lease[l].item /\ m # l
    BY <2>1, CountsAssumption DEF LeasesOf, LeaseIds
  <2>. QED  BY <2>2 DEF ItemExclusive
<1>2. ~ Authority(l)
  BY <1>1 DEF Authority
<1>3. CASE Fail(l)
  <2>1. lease' = lease /\ slot' = slot
    BY <1>1, <1>3, Parts, ReleaseNothing DEF Fail
  <2>. QED  BY <1>2, <1>3, <2>1 DEF Fail
<1>4. CASE AcceptedAlready(l) \/ MarkReadyForReview(l)
  BY <1>2, <1>4 DEF AcceptedAlready, MarkReadyForReview
<1>5. CASE IgnoreStaleResult(l)
  BY <1>5 DEF IgnoreStaleResult, slotVars
<1>6. ASSUME NEW h \in Hosts, HostStop(h) PROVE UNCHANGED <<item, slot, lease>>
  BY <1>6 DEF HostStop, slotVars
<1>. QED  BY <1>3, <1>4, <1>5, <1>6, WhoEnds

\* However a superseded build ends, it leaves the item, the slot and the lease
\* of the build that replaced it alone; for any number of schedulers.
THEOREM ZombieHarmlessAlways == Spec => ZombieHarmless
<1>1. Init => TypeOK /\ ItemExclusive
  BY InitType, InitExclusive
<1>2. TypeOK /\ ItemExclusive /\ [Next]_vars => (TypeOK /\ ItemExclusive)'
  BY NextType, NextItemExclusive
<1>3. TypeOK /\ ItemExclusive /\ [Next]_vars => [Zombie]_vars
  BY NextZombie
<1>4. [][Zombie]_vars <=> ZombieHarmless
  BY PTL DEF Zombie, ZombieHarmless
<1>. QED  BY <1>1, <1>2, <1>3, <1>4, PTL DEF Spec

-----------------------------------------------------------------------------
\* Finished work.  A statement that rewrites an item asks for a status that is
\* not final, writes a final one, belongs to a command or to the merge drain,
\* retests a remedy, or reaps a slot that was left behind.

Finished(st) == st \in {"done", "merged"}

Stays ==
  \A i \in Items :
    /\ item[i].status \in {"done", "merged"} /\ item'[i].status \notin {"done", "merged"}
    => events' # events \/ drain' # drain \/ i \in deployed \/ LeftBehind(i)

\* One item is rewritten.
LEMMA OneItem ==
  ASSUME ItemsOK, NEW j \in Items, NEW st, NEW n, NEW h,
         item' = [item EXCEPT ![j] = Item(st, n, h)],
         ~ Finished(item[j].status) \/ Finished(st)
  PROVE  Stays
<1>1. Item(st, n, h).status = st
  BY DEF Item
<1>2. item'[j].status = st /\ \A i \in Items : i # j => item'[i] = item[i]
  BY <1>1 DEF ItemsOK
<1>. QED  BY <1>2 DEF Stays, Finished

LEMMA SameItems == item' = item => Stays
BY DEF Stays

LEMMA EventStays == ASSUME TypeOK, NEW k, Event(k) PROVE Stays
BY DEF Event, TypeOK, Stays

LEMMA BuildStays ==
  ASSUME TypeOK, NEW l \in LeaseIds, Begin(l) \/ Build(l) \/ HeartbeatEnds(l) \/ Reap(l)
  PROVE  Stays
<1>. DEFINE i == lease[l].item
<1>1. CASE MarkBuilding(l)
  <2>1. i \in Items
    BY <1>1, Parts, ReadLease DEF MarkBuilding, Granted
  <2>. QED  BY <1>1, <2>1, Parts, OneItem DEF MarkBuilding, Status, Finished
<1>2. CASE AcceptedAlready(l) \/ AlreadyDone(l)
  <2>1. i \in Items
    BY <1>2, BuildGranted DEF AcceptedAlready, AlreadyDone
  <2>. QED  BY <1>2, <2>1, Parts, OneItem DEF AcceptedAlready, AlreadyDone, Status, Finished
<1>3. CASE MarkReadyForReview(l)
  <2>1. i \in Items
    BY <1>3, BuildGranted DEF MarkReadyForReview
  <2>. QED  BY <1>3, <2>1, Parts, OneItem DEF MarkReadyForReview, Authority, Status, Finished
<1>4. CASE Fail(l) /\ Authority(l)
  <2>1. i \in Items
    BY <1>4, BuildGranted DEF Fail
  <2>2. item' = [item EXCEPT ![i] = Spent(i)] /\ ~ Finished(item[i].status)
    BY <1>4 DEF Fail, Authority, Finished
  <2>3. CASE item[i].attempts + 1 >= MaxAttempts
    BY <2>1, <2>2, <2>3, Parts, OneItem DEF Spent
  <2>4. CASE ~ (item[i].attempts + 1 >= MaxAttempts)
    BY <2>1, <2>2, <2>4, Parts, OneItem DEF Spent
  <2>. QED  BY <2>3, <2>4
<1>5. CASE Reap(l) /\ Recoverable(i)
  <2>1. i \in Items
    BY <1>5, Parts, ReadLease DEF Reap, Stale, Granted
  <2>2. item' = [item EXCEPT ![i] = Reaped(i)] /\ ~ Finished(item[i].status)
    BY <1>5 DEF Reap, Recoverable, Finished
  <2>. QED  BY <2>1, <2>2, Parts, OneItem DEF Reaped
<1>6. \/ MarkBuilding(l) \/ AcceptedAlready(l) \/ AlreadyDone(l) \/ MarkReadyForReview(l)
      \/ (Fail(l) /\ Authority(l)) \/ (Reap(l) /\ Recoverable(i)) \/ item' = item
  BY DEF Begin, Build, HeartbeatEnds, Reap, SkipBuilding, BailBuilding, CreateWorktree, Fail, IgnoreStaleResult
<1>. QED  BY <1>1, <1>2, <1>3, <1>4, <1>5, <1>6, SameItems

LEMMA RetryStays ==
  ASSUME TypeOK, NEW i \in Items,
         AutoRequeue(i) \/ SelfHeal(i) \/ DeployRemedy(i) \/ RequeueLocalRetest(i) \/ Operator(i)
  PROVE  Stays
<1>1. CASE RetryDue(i)
  BY <1>1, Parts, OneItem DEF RetryDue, Requeued, Finished
<1>2. CASE Operator(i)
  BY <1>2, EventStays DEF Operator, Cancel, Retry, Ready
<1>3. CASE DeployRemedy(i)
  BY <1>3, EventStays DEF DeployRemedy
<1>4. CASE RequeueLocalRetest(i)
  BY <1>4, Parts DEF RequeueLocalRetest, ItemsOK, Stays
<1>. QED  BY <1>1, <1>2, <1>3, <1>4 DEF AutoRequeue, SelfHeal

\* The item may be taken back, and no other is.
LEMMA BackStays ==
  ASSUME ItemsOK, NEW j \in Items, item' = BackToReady(j), LeftBehind(j)
  PROVE  Stays
BY DEF BackToReady, ItemsOK, Stays

LEMMA SlotStays ==
  ASSUME TypeOK, NEW s \in Slots, SlotReaper(s) \/ Agent(s)
  PROVE  Stays
<1>1. CASE item' = item
  BY <1>1, SameItems
<1>2. CASE ReapBusySlot(s) /\ item' = BackToReady(slot[s])
  <2>1. slot[s] \in Items /\ LeftBehind(slot[s])
    BY <1>2, Parts DEF ReapBusySlot, Abandoned, LeftBehind, SlotsOK
  <2>. QED  BY <1>2, <2>1, Parts, BackStays
<1>. QED  BY <1>1, <1>2 DEF SlotReaper, Agent, ResetStuckSlot, ReapBusySlot, AgentDispatch, AgentEnds

\* A pass of the drain that reaches a decision ends, or goes on to the reset.
LEMMA DrainStays == ASSUME TypeOK, MergeDrain PROVE Stays
<1>1. ASSUME NEW i \in Items, NEW st \in Terminal, ReconcileReview(i, st) PROVE Stays
  BY <1>1, Parts, OneItem DEF ReconcileReview, Status, Finished
<1>2. CASE MergeMerged \/ MergeClosed \/ MergeMergeable \/ MergeFailed \/ SemanticReset \/ CiRerun
  <2>1. drain.step # "idle" /\ drain' = Idle
    BY <1>2 DEF MergeMerged, MergeClosed, MergeMergeable, MergeFailed, SemanticReset, CiRerun, Answers
  <2>. QED  BY <2>1 DEF Stays, Idle
<1>3. CASE MergeConflict
  <2>1. drain.step # "reset" /\ drain' = [item |-> drain.item, step |-> "reset"]
    BY <1>3 DEF MergeConflict, Answers
  <2>. QED  BY <2>1 DEF Stays
<1>4. CASE ConflictReset
  BY <1>4 DEF ConflictReset, Idle, Stays
<1>5. ASSUME (\E i \in Items : MergePick(i)) \/ MergeWatch \/ MergeWait \/ MergeStop PROVE Stays
  BY <1>5, SameItems DEF MergePick, MergeWatch, MergeWait, MergeStop
<1>. QED  BY <1>1, <1>2, <1>3, <1>4, <1>5 DEF MergeDrain

LEMMA NextStays == TypeOK /\ [Next]_vars => Stays
<1>. SUFFICES ASSUME TypeOK, [Next]_vars PROVE Stays  OBVIOUS
<1>1. ASSUME NEW x \in Schedulers, Scheduler(x) PROVE Stays
  <2>1. ASSUME NEW p \in pool[x].items, NEW s \in Slots, NEW l \in LeaseIds, Assign(x, p, s, l) PROVE Stays
    <3>1. p.i \in Items
      BY Parts DEF PoolOK, PassRow
    <3>. QED  BY <2>1, <3>1, Parts, OneItem DEF Assign, Schedulable, Finished
  <2>. QED  BY <1>1, <2>1, SameItems DEF Scheduler, ReadReady, ReadSlots, AssignLost, EndPass, PassLeaves
<1>2. ASSUME NEW h \in Hosts, Host(h) PROVE Stays
  <2>1. ASSUME NEW c \in cleaning[h], CleanWorktree(h, c) PROVE Stays
    <3>1. CASE c.stale
      <4>1. c.item \in Items /\ c = [item |-> c.item, stale |-> TRUE]
        BY <3>1, Parts DEF CleanOK, CleanRow
      <4>2. LeftBehind(c.item)
        BY <4>1 DEF LeftBehind
      <4>. QED  BY <2>1, <3>1, <4>1, <4>2, Parts, BackStays DEF CleanWorktree
    <3>2. CASE ~ c.stale
      BY <2>1, <3>2, SameItems DEF CleanWorktree
    <3>. QED  BY <3>1, <3>2
  <2>. QED
    BY <1>2, <2>1, SameItems, EventStays
       DEF Host, DispatchTick, WorktreeScan, HostStop, HostStart, DrainHost
<1>3. ASSUME NEW l \in LeaseIds, NEW why \in Overdue, PassesDue(l, why) PROVE Stays
  BY <1>3, SameItems DEF PassesDue
<1>4. ASSUME ReconcileSlots \/ UNCHANGED vars PROVE Stays
  BY <1>4, SameItems DEF ReconcileSlots, vars
<1>. QED  BY <1>1, <1>2, <1>3, <1>4, BuildStays, RetryStays, SlotStays, DrainStays DEF Next

\* An item leaves done and merged only by a command, by a pass of the merge
\* drain, to retest a deployed remedy, or by the reapers of a slot that was left
\* busy with it without a lease: no lease recovery, late build or retry of a
\* failure takes finished work up again.
THEOREM FinishedStaysAlways == Spec => FinishedStays
<1>1. TypeOK /\ [Next]_vars => [Stays]_vars
  BY NextStays
<1>2. [][Stays]_vars <=> FinishedStays
  BY PTL DEF Stays, FinishedStays
<1>. QED  BY <1>1, <1>2, InitType, NextType, PTL DEF Spec

-----------------------------------------------------------------------------
\* Stranded items.  An item in flight keeps a lease unless a build without
\* authority bails out of it or a clean-up that was decided earlier takes it.

\* A build runs under a lease in state building, unless the lease is gone; an
\* item that is still claimed has no lease but in state claimed.
Phases ==
  \A l \in LeaseIds : Active(l) =>
    /\ stage[l] # "none" => lease[l].state = "building"
    /\ item[lease[l].item].status = "claimed" => lease[l].state = "claimed"

\* The steps that neither grant a lease nor start or hand over a build.
LeasesQuiet ==
  \A l \in LeaseIds : Active(l)' =>
    Active(l) /\ lease'[l].item = lease[l].item /\ lease'[l].state = lease[l].state
StagesQuiet == \A l \in LeaseIds : stage'[l] # "none" => stage[l] # "none"
ItemsQuiet == \A i \in Items : item'[i].status = "claimed" => item[i].status = "claimed"
Quiet == LeasesQuiet /\ StagesQuiet /\ ItemsQuiet

LEMMA QuietPhases ==
  ASSUME TypeOK, Phases, Quiet
  PROVE  Phases'
<1>. SUFFICES ASSUME NEW l \in LeaseIds, Active(l)'
              PROVE  /\ stage'[l] # "none" => lease'[l].state = "building"
                     /\ item'[lease'[l].item].status = "claimed" => lease'[l].state = "claimed"
  BY DEF Phases
<1>1. Active(l) /\ lease'[l].item = lease[l].item /\ lease'[l].state = lease[l].state
  BY DEF Quiet, LeasesQuiet
<1>2. lease[l].item \in Items
  BY <1>1, Parts, ActiveGranted, ReadLease
<1>. QED  BY <1>1, <1>2 DEF Phases, Quiet, StagesQuiet, ItemsQuiet

LEMMA SameQuiet == lease' = lease => LeasesQuiet
BY DEF LeasesQuiet, Active
LEMMA StageQuiet == stage' = stage => StagesQuiet
BY DEF StagesQuiet
LEMMA ItemQuiet ==
  ASSUME ItemsOK, NEW j, NEW st, NEW n, NEW h, st # "claimed", item' = [item EXCEPT ![j] = Item(st, n, h)]
  PROVE  ItemsQuiet
<1>1. Item(st, n, h).status = st
  BY DEF Item
<1>2. \A i \in Items : item'[i] = item[i] \/ item'[i] = Item(st, n, h)
  BY DEF ItemsOK
<1>. QED  BY <1>1, <1>2 DEF ItemsQuiet
LEMMA ItemsSame == item' = item => ItemsQuiet
BY DEF ItemsQuiet
LEMMA StatusQuiet ==
  ASSUME ItemsOK, NEW j, NEW st, st # "claimed", item' = Status(j, st)
  PROVE  ItemsQuiet
BY ItemQuiet DEF Status

\* Released leases are not active.
LEMMA ReleasedQuiet ==
  ASSUME LeasesOK, NEW L \in SUBSET LeaseIds, \A l \in L : Active(l), lease' = Released(L)
  PROVE  LeasesQuiet
<1>1. \A l \in L : Granted(l)
  BY ActiveGranted
<1>2. /\ \A l \in LeaseIds \ L : lease'[l] = lease[l]
      /\ \A l \in L : lease'[l].state = "released"
  BY <1>1, ReleasedType
<1>. QED  BY <1>2 DEF LeasesQuiet, Active, Held

LEMMA EndsQuiet ==
  ASSUME BuildsOK, NEW l \in LeaseIds, Ends(l)
  PROVE  StagesQuiet
BY DEF BuildsOK, Ends, StagesQuiet

LEMMA BuildQuiet ==
  ASSUME TypeOK, NEW l \in LeaseIds,
         SkipBuilding(l) \/ BailBuilding(l) \/ AcceptedAlready(l) \/ CreateWorktree(l) \/ AlreadyDone(l)
         \/ Fail(l) \/ IgnoreStaleResult(l) \/ HeartbeatEnds(l) \/ Reap(l)
  PROVE  Quiet
<1>1. LeasesQuiet
  <2>1. CASE ReleaseOwn(l)
    <3>. DEFINE L == {m \in {l} : Active(m)}
    <3>1. L \in SUBSET LeaseIds /\ (\A m \in L : Active(m)) /\ lease' = Released(L)
      BY <2>1 DEF ReleaseOwn
    <3>. HIDE DEF L
    <3>. QED  BY <3>1, Parts, ReleasedQuiet
  <2>2. CASE Reap(l)
    <3>. DEFINE L == {l}
    <3>1. L \in SUBSET LeaseIds /\ (\A m \in L : Active(m)) /\ lease' = Released(L)
      BY <2>2 DEF Reap, Stale, Active, Held
    <3>. HIDE DEF L
    <3>. QED  BY <3>1, Parts, ReleasedQuiet
  <2>3. CASE lease' = lease
    BY <2>3, SameQuiet
  <2>. QED
    BY <2>1, <2>2, <2>3 DEF SkipBuilding, BailBuilding, AcceptedAlready, CreateWorktree, AlreadyDone, Fail,
       IgnoreStaleResult, HeartbeatEnds
<1>2. StagesQuiet
  <2>1. CASE CreateWorktree(l) \/ AlreadyDone(l)
    BY <2>1, Parts DEF CreateWorktree, AlreadyDone, BuildsOK, StagesQuiet
  <2>2. CASE Ends(l)
    BY <2>2, Parts, EndsQuiet
  <2>3. CASE stage' = stage
    BY <2>3, StageQuiet
  <2>. QED
    BY <2>1, <2>2, <2>3 DEF SkipBuilding, BailBuilding, AcceptedAlready, Fail, IgnoreStaleResult, HeartbeatEnds,
       Reap, buildVars
<1>3. ItemsQuiet
  <2>1. CASE AcceptedAlready(l) \/ AlreadyDone(l)
    BY <2>1, Parts, StatusQuiet DEF AcceptedAlready, AlreadyDone
  <2>2. CASE item' = [item EXCEPT ![lease[l].item] = Spent(lease[l].item)]
    <3>1. CASE item[lease[l].item].attempts + 1 >= MaxAttempts
      BY <2>2, <3>1, Parts, ItemQuiet DEF Spent
    <3>2. CASE ~ (item[lease[l].item].attempts + 1 >= MaxAttempts)
      BY <2>2, <3>2, Parts, ItemQuiet DEF Spent
    <3>. QED  BY <3>1, <3>2
  <2>3. CASE item' = [item EXCEPT ![lease[l].item] = Reaped(lease[l].item)]
    <3>. DEFINE st == IF item[lease[l].item].attempts + 1 >= MaxAttempts THEN "failed" ELSE "ready"
    <3>1. st # "claimed"
      OBVIOUS
    <3>2. item' = [item EXCEPT ![lease[l].item] = Item(st, item[lease[l].item].attempts + 1, None)]
      BY <2>3 DEF Reaped
    <3>. HIDE DEF st
    <3>. QED  BY <3>1, <3>2, Parts, ItemQuiet
  <2>4. CASE item' = item
    BY <2>4, ItemsSame
  <2>. QED
    BY <2>1, <2>2, <2>3, <2>4 DEF SkipBuilding, BailBuilding, CreateWorktree, Fail, IgnoreStaleResult,
       HeartbeatEnds, Reap
<1>. QED  BY <1>1, <1>2, <1>3 DEF Quiet

LEMMA PassesDueQuiet ==
  ASSUME TypeOK, NEW l \in LeaseIds, NEW why \in Overdue, PassesDue(l, why)
  PROVE  Quiet
<1>. DEFINE r == Lease(lease[l].item, lease[l].slot, lease[l].state, lease[l].late \cup {why})
<1>1. r.item = lease[l].item /\ r.state = lease[l].state
  BY DEF Lease
<1>2. lease' = [lease EXCEPT ![l] = r] /\ stage' = stage /\ item' = item
  BY DEF PassesDue, buildVars
<1>. HIDE DEF r
<1>3. LeasesQuiet
  BY <1>1, <1>2, Parts DEF LeasesOK, LeasesQuiet, Active
<1>. QED  BY <1>2, <1>3, StageQuiet, ItemsSame DEF Quiet

LEMMA BackQuiet ==
  ASSUME ItemsOK, NEW j, item' = BackToReady(j)
  PROVE  ItemsQuiet
<1>1. CASE item' = item
  BY <1>1, ItemsSame
<1>2. CASE item' = [item EXCEPT ![j] = Item("ready", item[j].attempts, None)]
  <2>. DEFINE row == Item("ready", item[j].attempts, None)
  <2>1. row.status = "ready"
    BY DEF Item
  <2>2. item' = [item EXCEPT ![j] = row]
    BY <1>2
  <2>. HIDE DEF row
  <2>3. \A i \in Items : item'[i] = item[i] \/ item'[i] = row
    BY <2>2 DEF ItemsOK
  <2>. QED  BY <2>1, <2>3 DEF ItemsQuiet
<1>. QED  BY <1>1, <1>2 DEF BackToReady

LEMMA HostQuiet ==
  ASSUME TypeOK, NEW h \in Hosts, Host(h)
  PROVE  Quiet
<1>1. ASSUME NEW L \in SUBSET LeaseIds, DispatchTick(h, L) PROVE Quiet
  <2>1. \A l \in LeaseIds : /\ lease'[l].item = lease[l].item /\ lease'[l].state = lease[l].state
    BY <1>1 DEF DispatchTick, Lease
  <2>. QED  BY <1>1, <2>1, StageQuiet, ItemsSame DEF Quiet, LeasesQuiet, Active, DispatchTick
<1>2. ASSUME NEW c \in cleaning[h], CleanWorktree(h, c) PROVE Quiet
  <2>1. LeasesOf(c.item) \in SUBSET LeaseIds /\ \A l \in LeasesOf(c.item) : Active(l)
    BY DEF LeasesOf
  <2>2. LeasesQuiet
    BY <1>2, <2>1, Parts, ReleasedQuiet DEF CleanWorktree
  <2>3. ItemsQuiet
    BY <1>2, Parts, BackQuiet, ItemsSame DEF CleanWorktree
  <2>. QED  BY <1>2, <2>2, <2>3, StageQuiet DEF Quiet, CleanWorktree, buildVars
<1>3. CASE DrainHost(h)
  <2>1. LeasesAt(h) \in SUBSET LeaseIds /\ \A l \in LeasesAt(h) : Active(l)
    BY DEF LeasesAt
  <2>2. LeasesQuiet
    BY <1>3, <2>1, Parts, ReleasedQuiet DEF DrainHost
  <2>3. ItemsQuiet
    BY <1>3 DEF DrainHost, ItemsQuiet, Item
  <2>. QED  BY <1>3, <2>2, <2>3, StageQuiet DEF Quiet, DrainHost, buildVars
<1>4. CASE HostStop(h)
  <2>1. StagesQuiet
    BY <1>4 DEF HostStop, StagesQuiet
  <2>. QED  BY <1>4, <2>1, SameQuiet, ItemsSame DEF HostStop, Quiet
<1>5. CASE WorktreeScan(h) \/ HostStart(h)
  BY <1>5, SameQuiet, StageQuiet, ItemsSame DEF WorktreeScan, HostStart, Quiet, buildVars
<1>. QED  BY <1>1, <1>2, <1>3, <1>4, <1>5 DEF Host

LEMMA ItemCommandQuiet ==
  ASSUME TypeOK, NEW i \in Items,
         AutoRequeue(i) \/ SelfHeal(i) \/ DeployRemedy(i) \/ RequeueLocalRetest(i) \/ Operator(i)
  PROVE  Quiet
<1>1. StagesQuiet
  BY StageQuiet DEF AutoRequeue, SelfHeal, RetryDue, DeployRemedy, RequeueLocalRetest, Operator, Cancel, Retry,
     Ready, buildVars
<1>2. LeasesQuiet
  <2>1. CASE SelfHeal(i)
    <3>1. LeasesOf(i) \in SUBSET LeaseIds /\ \A l \in LeasesOf(i) : Active(l)
      BY DEF LeasesOf
    <3>. QED  BY <2>1, <3>1, Parts, ReleasedQuiet DEF SelfHeal
  <2>2. CASE Cancel(i)
    <3>. DEFINE L == IF item[i].status = "building" THEN {} ELSE LeasesOf(i)
    <3>1. L \in SUBSET LeaseIds /\ (\A l \in L : Active(l)) /\ lease' = Released(L)
      BY <2>2 DEF LeasesOf, Cancel
    <3>. HIDE DEF L
    <3>. QED  BY <3>1, Parts, ReleasedQuiet
  <2>3. CASE lease' = lease
    BY <2>3, SameQuiet
  <2>. QED
    BY <2>1, <2>2, <2>3 DEF AutoRequeue, DeployRemedy, RequeueLocalRetest, Operator, Retry, Ready
<1>3. ItemsQuiet
  <2>1. CASE RetryDue(i)
    BY <2>1, Parts, ItemQuiet DEF RetryDue, Requeued
  <2>2. CASE DeployRemedy(i) \/ RequeueLocalRetest(i)
    BY <2>2, Parts, ItemQuiet, ItemsSame DEF DeployRemedy, RequeueLocalRetest
  <2>3. CASE Cancel(i)
    BY <2>3, Parts, StatusQuiet DEF Cancel
  <2>4. ASSUME NEW on \in Hosts \cup {None}, Retry(i, on) \/ Ready(i, on) PROVE ItemsQuiet
    BY <2>4, Parts, ItemQuiet DEF Retry, Ready
  <2>. QED  BY <2>1, <2>2, <2>3, <2>4 DEF AutoRequeue, SelfHeal, Operator
<1>. QED  BY <1>1, <1>2, <1>3 DEF Quiet

LEMMA DrainQuiet == ASSUME TypeOK, MergeDrain PROVE Quiet
<1>1. lease' = lease /\ stage' = stage
  BY DEF MergeDrain, MergePick, ReconcileReview, MergeWatch, MergeMerged, MergeClosed, MergeMergeable,
         MergeFailed, MergeConflict, ConflictReset, SemanticReset, CiRerun, MergeWait, MergeStop, MergeLeaves,
         buildVars
<1>2. ASSUME MergeMerged \/ MergeClosed PROVE ItemsQuiet
  BY <1>2, Parts, StatusQuiet, ItemsSame DEF MergeMerged, MergeClosed
<1>3. ASSUME MergeFailed \/ MergeConflict PROVE ItemsQuiet
  BY <1>3, Parts, StatusQuiet DEF MergeFailed, MergeConflict, MergeFails
<1>4. ASSUME ConflictReset \/ SemanticReset PROVE ItemsQuiet
  <2>1. ASSUME ConflictReset PROVE ItemsQuiet
    <3>1. item' = [item EXCEPT ![drain.item] =
                     Item("ready", Least(item[drain.item].attempts, LaneCap), None)]
      BY <2>1 DEF ConflictReset, ConflictRebuild
    <3>. QED  BY <3>1, Parts, ItemQuiet
  <2>2. ASSUME SemanticReset PROVE ItemsQuiet
    <3>1. item' = [item EXCEPT ![drain.item] = Item("ready", 0, None)]
      BY <2>2 DEF SemanticReset
    <3>. QED  BY <3>1, Parts, ItemQuiet
  <2>. QED  BY <1>4, <2>1, <2>2
<1>5. ASSUME NEW i \in Items, NEW st \in Terminal, ReconcileReview(i, st) PROVE ItemsQuiet
  BY <1>5, Parts, StatusQuiet DEF ReconcileReview, Terminal
<1>6. ASSUME item' = item PROVE ItemsQuiet
  BY <1>6, ItemsSame
<1>7. ItemsQuiet
  BY <1>2, <1>3, <1>4, <1>5, <1>6 DEF MergeDrain, MergePick, MergeWatch, MergeMergeable, CiRerun, MergeWait, MergeStop
<1>. QED  BY <1>1, <1>7, SameQuiet, StageQuiet DEF Quiet

LEMMA SlotQuiet ==
  ASSUME TypeOK, (\E s \in Slots : SlotReaper(s) \/ Agent(s)) \/ ReconcileSlots \/ UNCHANGED vars
  PROVE  Quiet
<1>1. lease' = lease /\ stage' = stage
  BY DEF SlotReaper, Agent, ResetStuckSlot, ReapBusySlot, AgentDispatch, AgentEnds, ReconcileSlots, vars, buildVars
<1>2. ItemsQuiet
  BY Parts, BackQuiet, ItemsSame DEF SlotReaper, Agent, ResetStuckSlot, ReapBusySlot, AgentDispatch, AgentEnds,
     ReconcileSlots, vars
<1>. QED  BY <1>1, <1>2, SameQuiet, StageQuiet DEF Quiet

\* An item is assigned: its lease is new, and no build has run under it.
LEMMA AssignPhases ==
  ASSUME TypeOK, Phases, NEW x \in Schedulers, NEW p \in pool[x].items, NEW s \in Slots,
         NEW l \in LeaseIds, Assign(x, p, s, l)
  PROVE  Phases'
<1>1. lease'[l] = Lease(p.i, s, "claimed", {}) /\ \A m \in LeaseIds : m # l => lease'[m] = lease[m]
  BY Parts DEF Assign, LeasesOK
<1>2. lease'[l].state = "claimed" /\ lease'[l].item = p.i
  BY <1>1 DEF Lease
<1>3. stage' = stage /\ stage[l] = "none"
  BY Parts DEF Assign, BuildsOK, Granted
<1>4. \A i \in Items : i # p.i => item'[i] = item[i]
  BY Parts DEF Assign, ItemsOK
<1>5. \A m \in LeaseIds : Active(m) => lease[m].item # p.i /\ lease[m].item \in Items
  BY Parts, ActiveGranted, ReadLease DEF Assign, Schedulable, LeasesOf
<1>. QED  BY <1>1, <1>2, <1>3, <1>4, <1>5 DEF Phases, Active

\* A build starts, or hands its item over to review.
LEMMA BuildPhases ==
  ASSUME TypeOK, Phases, NEW l \in LeaseIds, MarkBuilding(l) \/ MarkReadyForReview(l)
  PROVE  Phases'
<1>. DEFINE i == lease[l].item
<1>1. Active(l) /\ i \in Items
  BY Parts, ActiveGranted, ReadLease DEF MarkBuilding, MarkReadyForReview, Authority, Active, Held
<1>2. /\ lease'[l].item = i /\ lease'[l].state = (IF MarkBuilding(l) THEN "building" ELSE "reviewing")
      /\ \A m \in LeaseIds : m # l => lease'[m] = lease[m]
  <2>1. CASE MarkBuilding(l)
    <3>1. lease' = [lease EXCEPT ![l] = Lease(i, lease[l].slot, "building", lease[l].late \ {"beat", "expiry"})]
      BY <2>1 DEF MarkBuilding
    <3>. QED  BY <2>1, <3>1, Parts DEF LeasesOK, Lease
  <2>2. CASE ~ MarkBuilding(l)
    <3>1. lease' = [lease EXCEPT ![l] = Lease(i, lease[l].slot, "reviewing", {})]
      BY <2>2 DEF MarkReadyForReview
    <3>. QED  BY <2>2, <3>1, Parts DEF LeasesOK, Lease
  <2>. QED  BY <2>1, <2>2
<1>3. item'[i].status # "claimed" /\ \A j \in Items : j # i => item'[j] = item[j]
  <2>1. Item("building", item[i].attempts, item[i].pin).status = "building"
    BY DEF Item
  <2>2. Item("in_review", item[i].attempts, item[i].pin).status = "in_review"
    BY DEF Item
  <2>. QED  BY <1>1, <2>1, <2>2, Parts DEF MarkBuilding, MarkReadyForReview, Status, ItemsOK
<1>4. /\ \A m \in LeaseIds : m # l => stage'[m] = stage[m]
      /\ stage'[l] # "none" => MarkBuilding(l)
  BY Parts DEF MarkBuilding, MarkReadyForReview, Ends, BuildsOK
<1>5. \A m \in LeaseIds : Active(m) => lease[m].item \in Items
  BY Parts, ActiveGranted, ReadLease
<1>. HIDE DEF i
<1>. QED  BY <1>2, <1>3, <1>4, <1>5 DEF Phases, Active

LEMMA NextPhases == TypeOK /\ Phases /\ [Next]_vars => Phases'
<1>. SUFFICES ASSUME TypeOK, Phases, [Next]_vars PROVE Phases'  OBVIOUS
<1>1. ASSUME NEW x \in Schedulers, Scheduler(x) PROVE Phases'
  <2>1. CASE UNCHANGED <<lease, stage, item>>
    BY <2>1, SameQuiet, StageQuiet, ItemsSame, QuietPhases DEF Quiet
  <2>2. \/ UNCHANGED <<lease, stage, item>>
        \/ \E p \in pool[x].items, s \in Slots, l \in LeaseIds : Assign(x, p, s, l)
    BY <1>1 DEF Scheduler, ReadReady, ReadSlots, AssignLost, EndPass, PassLeaves, buildVars
  <2>. QED  BY <2>1, <2>2, AssignPhases
<1>2. ASSUME NEW l \in LeaseIds, Begin(l) \/ Build(l) \/ HeartbeatEnds(l) \/ Reap(l) PROVE Phases'
  BY <1>2, BuildQuiet, QuietPhases, BuildPhases DEF Begin, Build
<1>. QED
  BY <1>1, <1>2, PassesDueQuiet, HostQuiet, ItemCommandQuiet, DrainQuiet, SlotQuiet, QuietPhases DEF Next

-----------------------------------------------------------------------------
Strands == \A i \in Items : InFlight(i) /\ ~ Stranded(i) /\ Stranded(i)' => Cause(i)

\* No lease is released ...
LEMMA GoOnStrands == LeasesGoOn => Strands
<1>. SUFFICES ASSUME LeasesGoOn, NEW i \in Items, NEW l \in LeasesOf(i) PROVE l \in LeasesOf(i)'
  BY DEF Strands, Stranded
<1>. QED  BY DEF LeasesGoOn, LeasesOf

\* ... or their items are not in flight, or there is a cause.
LEMMA ReleasedStrands ==
  ASSUME LeasesOK, NEW L \in SUBSET LeaseIds, \A l \in L : Active(l), lease' = Released(L),
         \A i \in Items, l \in L : lease[l].item = i /\ InFlight(i) /\ InFlight(i)' => Cause(i)
  PROVE  Strands
<1>. SUFFICES ASSUME NEW i \in Items, InFlight(i), InFlight(i)', LeasesOf(i) # {}, LeasesOf(i)' = {}
              PROVE  Cause(i)
  BY DEF Strands, Stranded
<1>1. PICK l \in LeaseIds : Active(l) /\ lease[l].item = i
  BY DEF LeasesOf
<1>2. CASE l \in L
  BY <1>1, <1>2
<1>3. CASE l \notin L
  <2>1. lease'[l] = lease[l]
    BY <1>3, ReleasedType, ActiveGranted
  <2>2. l \in LeasesOf(i)'
    BY <1>1, <2>1 DEF LeasesOf, Active
  <2>. QED  BY <2>2
<1>. QED  BY <1>2, <1>3

LEMMA OwnStrands ==
  ASSUME LeasesOK, NEW l \in LeaseIds, ReleaseOwn(l),
         \A i \in Items : Active(l) /\ lease[l].item = i /\ InFlight(i) /\ InFlight(i)' => Cause(i)
  PROVE  Strands
<1>. DEFINE L == {m \in {l} : Active(m)}
<1>1. /\ L \in SUBSET LeaseIds /\ (\A m \in L : Active(m)) /\ lease' = Released(L)
      /\ \A m \in L : m = l
  BY DEF ReleaseOwn
<1>. HIDE DEF L
<1>. QED  BY <1>1, ReleasedStrands

\* A build under an active lease without authority over its item: the grant has
\* run out or the slot names another item.
LEMMA Unauthorised ==
  ASSUME TypeOK, Phases, NEW l \in LeaseIds, Active(l), stage[l] # "none", ~ Authority(l), InFlight(lease[l].item)
  PROVE  Cause(lease[l].item)
<1>1. item[lease[l].item].status = "building"
  BY DEF Phases, InFlight
<1>2. "expiry" \in lease[l].late \/ slot[lease[l].slot] # lease[l].item
  BY <1>1 DEF Authority
<1>. QED  BY <1>2 DEF Cause, LeasesOf

LEMMA BuildStrands ==
  ASSUME TypeOK, Phases, NEW l \in LeaseIds, Begin(l) \/ Build(l) \/ HeartbeatEnds(l) \/ Reap(l)
  PROVE  Strands
<1>. DEFINE i == lease[l].item
<1>1. CASE MarkBuilding(l)
  <2>1. lease' = [lease EXCEPT ![l] =
          Lease(lease[l].item, lease[l].slot, "building", lease[l].late \ {"beat", "expiry"})]
    BY <1>1 DEF MarkBuilding
  <2>. QED  BY <2>1, Parts, PutFollow, GoOnStrands DEF Held
<1>2. CASE MarkReadyForReview(l)
  <2>1. lease' = [lease EXCEPT ![l] = Lease(lease[l].item, lease[l].slot, "reviewing", {})]
    BY <1>2 DEF MarkReadyForReview
  <2>. QED  BY <2>1, Parts, PutFollow, GoOnStrands DEF Held
<1>3. CASE lease' = lease
  BY <1>3, SameFollow, GoOnStrands
<1>4. CASE BailBuilding(l)
  <2>1. Active(l) => "expiry" \in lease[l].late
    BY <1>4 DEF BailBuilding, Phases
  <2>2. ASSUME Active(l), InFlight(i) PROVE Cause(i)
    BY <2>1, <2>2 DEF Cause, LeasesOf
  <2>. QED  BY <1>4, <2>2, Parts, OwnStrands DEF BailBuilding
<1>5. CASE AcceptedAlready(l)
  <2>1. i \in Items
    BY <1>5, BuildGranted DEF AcceptedAlready
  <2>2. item'[i].status = "done"
    <3>1. item' = [item EXCEPT ![i] = Item("done", item[i].attempts, item[i].pin)]
      BY <1>5 DEF AcceptedAlready, Status
    <3>. QED  BY <2>1, <3>1, Parts DEF Item, ItemsOK
  <2>3. \A j \in Items : Active(l) /\ lease[l].item = j /\ InFlight(j) /\ InFlight(j)' => Cause(j)
    BY <2>2 DEF InFlight
  <2>. QED  BY <1>5, <2>3, Parts, OwnStrands DEF AcceptedAlready
<1>6. CASE Fail(l)
  <2>1. i \in Items
    BY <1>6, BuildGranted DEF Fail
  <2>2. Authority(l) => item'[i].status \in {"failed", "ready"}
    <3>1. Spent(i).status \in {"failed", "ready"}
      BY DEF Spent, Item
    <3>2. Authority(l) => item' = [item EXCEPT ![i] = Spent(i)]
      BY <1>6 DEF Fail
    <3>. HIDE DEF i
    <3>. QED  BY <2>1, <3>1, <3>2, Parts DEF ItemsOK
  <2>3. \A j \in Items : Active(l) /\ i = j /\ InFlight(j) /\ InFlight(j)' => Cause(j)
    <3>. SUFFICES ASSUME Active(l), InFlight(i), item'[i].status \in {"claimed", "building"} PROVE Cause(i)
      BY DEF InFlight
    <3>1. ~ Authority(l)
      BY <2>2
    <3>. QED  BY <1>6, <3>1, Unauthorised DEF Fail
  <2>. QED  BY <1>6, <2>3, Parts, OwnStrands DEF Fail
<1>7. CASE Reap(l)
  <2>. DEFINE L == {l}
  <2>1. L \in SUBSET LeaseIds /\ (\A m \in L : Active(m)) /\ lease' = Released(L)
    BY <1>7 DEF Reap, Stale, Active, Held
  <2>2. i \in Items
    BY <1>7, Parts, ReadLease DEF Reap, Stale, Granted
  <2>3. InFlight(i) => item'[i].status \in {"failed", "ready"}
    <3>1. Reaped(i).status \in {"failed", "ready"}
      BY DEF Reaped, Item
    <3>2. InFlight(i) => item' = [item EXCEPT ![i] = Reaped(i)]
      BY <1>7 DEF Reap, Recoverable, InFlight
    <3>. HIDE DEF i
    <3>. QED  BY <2>2, <3>1, <3>2, Parts DEF ItemsOK
  <2>4. \A j \in Items, m \in L : lease[m].item = j /\ InFlight(j) /\ InFlight(j)' => Cause(j)
    BY <2>3 DEF InFlight
  <2>. HIDE DEF L
  <2>. QED  BY <2>1, <2>4, Parts, ReleasedStrands
<1>8. \/ lease' = lease \/ MarkBuilding(l) \/ MarkReadyForReview(l) \/ BailBuilding(l)
      \/ AcceptedAlready(l) \/ Fail(l) \/ Reap(l)
  BY DEF Begin, Build, HeartbeatEnds, SkipBuilding, CreateWorktree, AlreadyDone, IgnoreStaleResult
<1>. QED  BY <1>1, <1>2, <1>3, <1>4, <1>5, <1>6, <1>7, <1>8

LEMMA HostStrands ==
  ASSUME TypeOK, NEW h \in Hosts, Host(h)
  PROVE  Strands
<1>1. ASSUME NEW L \in SUBSET LeaseIds, DispatchTick(h, L) PROVE Strands
  <2>1. \A l \in LeaseIds : /\ lease'[l].item = lease[l].item /\ lease'[l].slot = lease[l].slot
                            /\ lease'[l].state = lease[l].state
    BY <1>1 DEF DispatchTick, Lease
  <2>2. LeasesGoOn
    BY <2>1 DEF LeasesGoOn, Active
  <2>. QED  BY <2>2, GoOnStrands
<1>2. ASSUME NEW c \in cleaning[h], CleanWorktree(h, c) PROVE Strands
  <2>1. Cause(c.item)
    BY DEF Cause
  <2>2. LeasesOf(c.item) \in SUBSET LeaseIds /\ \A l \in LeasesOf(c.item) : Active(l) /\ lease[l].item = c.item
    BY DEF LeasesOf
  <2>. QED  BY <1>2, <2>1, <2>2, Parts, ReleasedStrands DEF CleanWorktree
<1>3. CASE DrainHost(h)
  <2>1. LeasesAt(h) \in SUBSET LeaseIds /\ \A l \in LeasesAt(h) : Active(l)
    BY DEF LeasesAt
  <2>2. \A i \in Items : i \in {lease[l].item : l \in LeasesAt(h)} /\ InFlight(i) => ~ InFlight(i)'
    BY <1>3 DEF DrainHost, InFlight, Item
  <2>3. \A i \in Items, l \in LeasesAt(h) : lease[l].item = i /\ InFlight(i) /\ InFlight(i)' => Cause(i)
    BY <2>2 DEF InFlight
  <2>. QED  BY <1>3, <2>1, <2>3, Parts, ReleasedStrands DEF DrainHost
<1>4. CASE WorktreeScan(h) \/ HostStop(h) \/ HostStart(h)
  BY <1>4, SameFollow, GoOnStrands DEF WorktreeScan, HostStop, HostStart
<1>. QED  BY <1>1, <1>2, <1>3, <1>4 DEF Host

LEMMA ItemStrands ==
  ASSUME TypeOK, NEW i \in Items,
         AutoRequeue(i) \/ SelfHeal(i) \/ DeployRemedy(i) \/ RequeueLocalRetest(i) \/ Operator(i)
  PROVE  Strands
<1>1. CASE SelfHeal(i)
  <2>1. LeasesOf(i) \in SUBSET LeaseIds /\ \A l \in LeasesOf(i) : Active(l) /\ lease[l].item = i
    BY DEF LeasesOf
  <2>2. ~ InFlight(i)
    BY <1>1 DEF SelfHeal, RetryDue, InFlight
  <2>. QED  BY <1>1, <2>1, <2>2, Parts, ReleasedStrands DEF SelfHeal
<1>2. CASE Cancel(i)
  <2>. DEFINE L == IF item[i].status = "building" THEN {} ELSE LeasesOf(i)
  <2>1. /\ L \in SUBSET LeaseIds /\ (\A l \in L : Active(l) /\ lease[l].item = i)
        /\ lease' = Released(L)
    BY <1>2 DEF LeasesOf, Cancel
  <2>2. ~ InFlight(i)'
    BY <1>2, Parts DEF Cancel, Status, Item, ItemsOK, InFlight
  <2>. HIDE DEF L
  <2>3. \A j \in Items, l \in L : lease[l].item = j /\ InFlight(j) /\ InFlight(j)' => Cause(j)
    BY <2>1, <2>2 DEF InFlight
  <2>. QED  BY <2>1, <2>3, Parts, ReleasedStrands
<1>3. CASE lease' = lease
  BY <1>3, SameFollow, GoOnStrands
<1>. QED  BY <1>1, <1>2, <1>3 DEF AutoRequeue, DeployRemedy, RequeueLocalRetest, Operator, Retry, Ready

LEMMA OtherStrands ==
  ASSUME MergeDrain \/ ReconcileSlots \/ UNCHANGED vars \/ \E s \in Slots : SlotReaper(s) \/ Agent(s)
  PROVE  Strands
<1>1. lease' = lease
  BY DEF MergeDrain, MergePick, ReconcileReview, MergeWatch, MergeMerged, MergeClosed, MergeMergeable,
         MergeFailed, MergeConflict, ConflictReset, SemanticReset, CiRerun, MergeWait, MergeStop, MergeLeaves,
         ReconcileSlots, vars, SlotReaper, Agent, ResetStuckSlot, ReapBusySlot, AgentDispatch, AgentEnds
<1>. QED  BY <1>1, SameFollow, GoOnStrands

LEMMA NextStrands == TypeOK /\ Phases /\ [Next]_vars => Strands
<1>. SUFFICES ASSUME TypeOK, Phases, [Next]_vars PROVE Strands  OBVIOUS
<1>1. ASSUME NEW x \in Schedulers, Scheduler(x) PROVE Strands
  <2>1. ASSUME NEW p \in pool[x].items, NEW s \in Slots, NEW l \in LeaseIds, Assign(x, p, s, l) PROVE Strands
    <3>1. ~ Active(l) /\ \A m \in LeaseIds : m # l => lease'[m] = lease[m]
      BY <2>1, AssignGrants
    <3>2. LeasesGoOn
      BY <3>1 DEF LeasesGoOn, Active
    <3>. QED  BY <3>2, GoOnStrands
  <2>. QED  BY <1>1, <2>1, PassLeases, SameFollow, GoOnStrands
<1>2. ASSUME NEW l \in LeaseIds, NEW why \in Overdue, PassesDue(l, why) PROVE Strands
  <2>1. /\ lease[l].state \in Held
        /\ lease' = [lease EXCEPT ![l] =
             Lease(lease[l].item, lease[l].slot, lease[l].state, lease[l].late \cup {why})]
    BY <1>2 DEF PassesDue, Held
  <2>. QED  BY <2>1, Parts, PutFollow, GoOnStrands
<1>. QED  BY <1>1, <1>2, BuildStrands, HostStrands, ItemStrands, OtherStrands DEF Next

\* An item in flight loses its last lease, and stays in flight for no loop to
\* find, only because a build had no authority over it any more - its grant had
\* run out or its slot had been taken away - or by a clean-up decided earlier:
\* for any number of schedulers, and whatever is drained, cancelled or retried.
THEOREM StrandedForCauseAlways == Spec => StrandedForCause
<1>1. Init => TypeOK /\ Phases
  <2>1. Init => Phases
    BY DEF Init, Phases, Active, Held, Lease
  <2>. QED  BY <2>1, InitType
<1>2. TypeOK /\ Phases /\ [Next]_vars => (TypeOK /\ Phases)'
  BY NextType, NextPhases
<1>3. TypeOK /\ Phases /\ [Next]_vars => [Strands]_vars
  BY NextStrands
<1>4. [][Strands]_vars <=> StrandedForCause
  BY PTL DEF Strands, StrandedForCause
<1>. QED  BY <1>1, <1>2, <1>3, <1>4, PTL DEF Spec

=============================================================================
