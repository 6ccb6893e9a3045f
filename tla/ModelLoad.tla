------------------------------ MODULE ModelLoad ------------------------------
(***************************************************************************)
(* Loading, unloading and reconciling model servers on one Linux host      *)
(* (ff-agent/model_runtime.rs, deployment_reconciler.rs, and the           *)
(* reservation and activation statements of ff-db/queries.rs).             *)
(*                                                                         *)
(* A load reserves its port and its library under a token, looks at the    *)
(* deployment row and at the kernel's listeners, starts a server through   *)
(* the systemd unit of the port or as a plain child, waits a bounded time  *)
(* for its health, and activates the deployment row with one conditional   *)
(* statement.  A failure after the start goes through a cleanup that stops *)
(* exactly the incarnation it started, and keeps the reservation until its *)
(* expiry when it cannot confirm that.  Unloads take no reservation.  The  *)
(* reconciler of the daemon compares a snapshot of rows and processes and  *)
(* refreshes, removes or respawns.                                         *)
(*                                                                         *)
(* A member of Procs is one incarnation of a process, the code's PID with  *)
(* its start marker; one that is dead and that nothing names any more may  *)
(* stand for a new incarnation.  The id of a row is the incarnation that   *)
(* the row was inserted with.                                              *)
(***************************************************************************)
EXTENDS Integers

CONSTANTS
  Ports, Libs,
  Calls,           \* tokens of loads that run at the same time
  Procs,           \* incarnations of server processes
  None,
  StartupTimeout,  \* the bounded health wait
  TtlMargin,       \* the 120 s the reservation's expiry adds to it
  Slack,           \* time a load spends outside the health wait
  FaultKinds, MaxFaults,  \* the faults of this instance, and a bound on them
  MaxEvents        \* bound: loads, unloads, retirements, crashes of servers

Resources == Ports \cup Libs

\* The expiry is longer than the health wait by more than all the statements,
\* systemctl calls, the cleanup (20 s) and the release (5 s) take.
ASSUME TimesAssumption ==
  /\ StartupTimeout \in Nat /\ TtlMargin \in Nat /\ Slack \in Nat /\ Slack < TtlMargin
  /\ MaxFaults \in Nat /\ MaxEvents \in Nat

ASSUME NamesAssumption ==
  /\ Ports \cap Libs = {} /\ Ports \cap Procs = {}
  /\ None \notin Ports \cup Libs \cup Calls \cup Procs

VARIABLES
  resv,      \* model_load_reservations: the token that holds a port or a library
  call,      \* the loads
  age,       \* time since a token reserved
  waited,    \* and the part of it spent in the health wait
  proc,      \* server processes: state, port and model
  unit,      \* systemd unit of each port: MainPID, model, restarts on failure
  dep,       \* fleet_model_deployments: the row of each port
  unload,    \* the unload in progress
  rec,       \* the reconciler's pass: snapshot, what is left, the load it awaits
  faults, events

loadVars == <<resv, call, age, waited>>
hostVars == <<proc, unit>>
countVars == <<faults, events>>
vars == <<loadVars, hostVars, dep, unload, rec, countVars>>

NoRow == [id |-> None, lib |-> None, proc |-> None, desired |-> "none"]
IdleCall == [st |-> "idle", port |-> None, lib |-> None, row |-> NoRow,
             proc |-> None, unit |-> FALSE]
NoUnload == [st |-> "idle", port |-> None, row |-> NoRow, target |-> None]
NoPass == [st |-> "idle", rows |-> [p \in Ports |-> NoRow], seen |-> {}, todo |-> {},
           live |-> None, port |-> None, wait |-> None]
DeadProc == [st |-> "dead", port |-> None, lib |-> None]

Init ==
  /\ resv = [r \in Resources |-> None]
  /\ call = [c \in Calls |-> IdleCall]
  /\ age = [c \in Calls |-> 0]
  /\ waited = [c \in Calls |-> 0]
  /\ proc = [i \in Procs |-> DeadProc]
  /\ unit = [p \in Ports |-> [main |-> None, lib |-> None, armed |-> FALSE]]
  /\ dep = [p \in Ports |-> NoRow]
  /\ unload = NoUnload
  /\ rec = NoPass
  /\ faults = 0
  /\ events = 0

-----------------------------------------------------------------------------
(* The host: processes, their listeners, and systemd.                      *)

Alive(i) == i # None /\ proc[i].st # "dead"
Listeners(p) == {i \in Procs : proc[i].st = "listening" /\ proc[i].port = p}

\* systemd_unit_owns_process: i is the MainPID of its port's unit, whose
\* configured model is l.
UnitOwns(p, i, l) == unit[p].main = i /\ unit[p].lib = l

Named(i) ==
  \/ \E c \in Calls : i \in {call[c].proc, call[c].row.id, call[c].row.proc}
  \/ \E p \in Ports : i \in {unit[p].main, dep[p].id, dep[p].proc,
                             rec.rows[p].id, rec.rows[p].proc}
  \/ i \in {unload.target, unload.row.id, unload.row.proc} \cup rec.todo

\* A new incarnation, any: they are interchangeable.
Unused == {i \in Procs : proc[i].st = "dead" /\ ~Named(i)}
Fresh(i) == i \in Unused /\ i = CHOOSE j \in Unused : TRUE

Started(p, l) == [st |-> "loading", port |-> p, lib |-> l]

Event ==
  /\ events < MaxEvents
  /\ events' = events + 1
  /\ UNCHANGED faults

Fault(kind) ==
  /\ kind \in FaultKinds /\ faults < MaxFaults
  /\ faults' = faults + 1
  /\ UNCHANGED events

\* A server that reaches its bind takes the port, or exits when it is taken.
Bind(i) ==
  /\ proc[i].st = "loading"
  /\ proc' = [proc EXCEPT ![i] = IF Listeners(@.port) = {} THEN [@ EXCEPT !.st = "listening"]
                                 ELSE DeadProc]
  /\ UNCHANGED <<loadVars, unit, dep, unload, rec, countVars>>

\* A server crashes: out of memory, bad weights, kill by an operator.
Die(i) ==
  /\ Alive(i) /\ Event
  /\ proc' = [proc EXCEPT ![i] = DeadProc]
  /\ UNCHANGED <<loadVars, unit, dep, unload, rec>>

\* Restart=on-failure of the unit, unless it was stopped.
UnitRestart(p, i) ==
  /\ unit[p].armed /\ ~Alive(unit[p].main) /\ Fresh(i)
  /\ proc' = [proc EXCEPT ![i] = Started(p, unit[p].lib)]
  /\ unit' = [unit EXCEPT ![p].main = i]
  /\ UNCHANGED <<loadVars, dep, unload, rec, countVars>>

\* systemctl --user stop and disable.
Stopped(p) == [unit EXCEPT ![p].main = None, ![p].armed = FALSE]

\* stop_systemd_unit, and the signals for i: whatever the unit of p runs by now
\* is stopped with it.
StopUnit(p, i) ==
  /\ proc' = [j \in Procs |-> IF j \in {i, unit[p].main} THEN DeadProc ELSE proc[j]]
  /\ unit' = Stopped(p)

-----------------------------------------------------------------------------
(* A load.                                                                 *)

InFlight(c) == call[c].st \notin {"idle", "over"}

Free(r) == resv[r] = None

\* Uuid::new_v4.  Any token will do.
NewToken(c) ==
  LET idle == {d \in Calls : call[d].st = "idle"} IN c \in idle /\ c = CHOOSE d \in idle : TRUE

\* pg_reserve_model_load: both rows or neither.  The row is that of the
\* deployment a respawn is for, NoRow for an ordinary load.
Reserve(c, p, l, row) ==
  /\ NewToken(c)
  /\ Free(p) /\ Free(l)
  /\ resv' = [resv EXCEPT ![p] = c, ![l] = c]
  /\ call' = [call EXCEPT ![c] = [IdleCall EXCEPT !.st = "reserved", !.port = p, !.lib = l,
                                                  !.row = row]]
  /\ age' = [age EXCEPT ![c] = 0]
  /\ waited' = [waited EXCEPT ![c] = 0]

\* An operator, the autoscaler or the restart of a hung server loads l on p.
Load(c, p, l) ==
  /\ Event
  /\ Reserve(c, p, l, NoRow)
  /\ UNCHANGED <<hostVars, dep, unload, rec>>

\* The load looks at the row of its port.  An ordinary load wants none; a
\* respawn wants the active row it is for, and remembers its identity.
Inspect(c) ==
  LET row == dep[call[c].port]
      wanted == IF call[c].row = NoRow
                THEN row = NoRow
                ELSE row.id = call[c].row.id /\ row.desired = "active" /\ row.lib = call[c].lib
  IN /\ call[c].st = "reserved"
     /\ call' = [call EXCEPT ![c].st = IF wanted THEN "inspected" ELSE "freeing",
                             ![c].row = IF wanted THEN row ELSE @]
     /\ UNCHANGED <<resv, age, waited, hostVars, dep, unload, rec, countVars>>

\* The kernel's listeners decide whether the port is occupied.
Probe(c) ==
  /\ call[c].st = "inspected"
  /\ call' = [call EXCEPT ![c].st = IF Listeners(call[c].port) = {} THEN "clear" ELSE "freeing"]
  /\ UNCHANGED <<resv, age, waited, hostVars, dep, unload, rec, countVars>>

\* write_systemd_unit: the file of the port's unit is rewritten and enabled,
\* whatever the unit runs.
WriteUnit(c) ==
  /\ call[c].st = "clear"
  /\ unit' = [unit EXCEPT ![call[c].port].lib = call[c].lib]
  /\ call' = [call EXCEPT ![c].st = "written"]
  /\ UNCHANGED <<resv, age, waited, proc, dep, unload, rec, countVars>>

\* systemctl restart replaces what the unit runs by the incarnation i.
Restarted(p, i) ==
  LET old == unit[p].main
  IN /\ Fresh(i)
     /\ proc' = [j \in Procs |-> IF j = i THEN Started(p, unit[p].lib)
                                 ELSE IF j = old THEN DeadProc ELSE proc[j]]
     /\ unit' = [unit EXCEPT ![p].main = i, ![p].armed = TRUE]

\* start_systemd_unit.
Launch(c, i) ==
  /\ call[c].st = "written"
  /\ Restarted(call[c].port, i)
  /\ call' = [call EXCEPT ![c].st = "waiting", ![c].proc = i, ![c].unit = TRUE]
  /\ UNCHANGED <<resv, age, waited, dep, unload, rec, countVars>>

\* The unit could not be written or systemd did not start it, and the server
\* becomes a plain child; or the restart reported no MainPID, and the unit is
\* left to start its own server.
LaunchPlain(c, i) ==
  LET p == call[c].port
      old == unit[p].main
  IN /\ call[c].st \in {"clear", "written"} /\ Fresh(i) /\ Fault("systemd")
     /\ \/ /\ proc' = [proc EXCEPT ![i] = Started(p, call[c].lib)]
           /\ UNCHANGED unit
        \/ /\ call[c].st = "written"
           /\ proc' = [j \in Procs |-> IF j = i THEN Started(p, call[c].lib)
                                       ELSE IF j = old THEN DeadProc ELSE proc[j]]
           /\ unit' = [unit EXCEPT ![p].main = None, ![p].armed = TRUE]
     /\ call' = [call EXCEPT ![c].st = "waiting", ![c].proc = i]
     /\ UNCHANGED <<resv, age, waited, dep, unload, rec>>

\* The server is gone before its start marker is read, and the unit that
\* cleanup_unidentified_launch stops with it; or nothing could be started.
LaunchLost(c) ==
  LET p == call[c].port
  IN /\ call[c].st = "written" /\ Fault("launch")
     /\ StopUnit(p, None) \/ UNCHANGED hostVars
     /\ call' = [call EXCEPT ![c].st = "freeing"]
     /\ UNCHANGED <<resv, age, waited, dep, unload, rec>>

Abandoned(c) == [call EXCEPT ![c].st = "over", ![c].row = NoRow, ![c].proc = None,
                             ![c].unit = FALSE]

\* The caller of the load goes on: the reconciler with its next row.
Return(c) ==
  rec' = IF rec.wait # c THEN rec
         ELSE IF rec.todo = {} THEN NoPass
         ELSE [rec EXCEPT !.wait = None]

\* The start marker appears only after it was missed, and the server outlives
\* both its unit and the signals: cleanup_unidentified_launch keeps the
\* reservation until it expires.
LaunchKept(c, i) ==
  LET p == call[c].port
      old == unit[p].main
  IN /\ call[c].st = "written" /\ Fresh(i) /\ Fault("launch")
     /\ proc' = [j \in Procs |-> IF j = i THEN Started(p, call[c].lib)
                                 ELSE IF j = old THEN DeadProc ELSE proc[j]]
     /\ unit' = Stopped(p)
     /\ call' = Abandoned(c)
     /\ Return(c)
     /\ UNCHANGED <<resv, age, waited, dep, unload>>

\* wait_for_startup_health: the health endpoint answers, and the only listener
\* is the incarnation that was launched.
Healthy(c) ==
  /\ call[c].st = "waiting"
  /\ Listeners(call[c].port) = {call[c].proc}
  /\ call' = [call EXCEPT ![c].st = "ready"]
  /\ UNCHANGED <<resv, age, waited, hostVars, dep, unload, rec, countVars>>

\* The server exited, or another one listens.
StartupFails(c) ==
  /\ call[c].st = "waiting"
  /\ \/ ~Alive(call[c].proc)
     \/ Listeners(call[c].port) \notin {{}, {call[c].proc}}
  /\ call' = [call EXCEPT ![c].st = "cleaning"]
  /\ UNCHANGED <<resv, age, waited, hostVars, dep, unload, rec, countVars>>

\* The deadline passes while the server is still loading or answers with errors.
StartupTimesOut(c) ==
  /\ call[c].st = "waiting" /\ waited[c] >= StartupTimeout
  /\ Fault("slow")
  /\ call' = [call EXCEPT ![c].st = "cleaning"]
  /\ UNCHANGED <<resv, age, waited, hostVars, dep, unload, rec>>

\* pg_activate_deployment_if_vacant or pg_activate_expected_deployment.
Activated(c) ==
  LET p == call[c].port IN
  IF call[c].row = NoRow
  THEN [dep EXCEPT ![p] = [id |-> call[c].proc, lib |-> call[c].lib,
                           proc |-> call[c].proc, desired |-> "active"]]
  ELSE [dep EXCEPT ![p].proc = call[c].proc]

\* The row is still the one that Inspect saw: none, or the same identity.
MayActivate(c) == dep[call[c].port] = call[c].row

Activate(c) ==
  /\ call[c].st = "ready"
  /\ dep' = IF MayActivate(c) THEN Activated(c) ELSE dep
  /\ call' = [call EXCEPT ![c].st = IF MayActivate(c) THEN "active" ELSE "cleaning"]
  /\ UNCHANGED <<resv, age, waited, hostVars, unload, rec, countVars>>

\* The statement fails, before or after it took effect.
ActivateFails(c) ==
  /\ call[c].st = "ready" /\ Fault("statement")
  /\ dep' \in {dep} \cup (IF MayActivate(c) THEN {Activated(c)} ELSE {})
  /\ call' = [call EXCEPT ![c].st = "cleaning"]
  /\ UNCHANGED <<resv, age, waited, hostVars, unload, rec>>

\* cleanup_launched_process: the incarnation is gone already, or it is no unit's
\* and is signalled.
Cleanup(c) ==
  LET i == call[c].proc
  IN /\ call[c].st = "cleaning"
     /\ \/ ~Alive(i) /\ UNCHANGED proc
        \/ Alive(i) /\ ~call[c].unit /\ proc' = [proc EXCEPT ![i] = DeadProc]
     /\ call' = [call EXCEPT ![c].st = "freeing"]
     /\ UNCHANGED <<resv, age, waited, unit, dep, unload, rec, countVars>>

\* systemd_owns_launch: a unit is stopped only if it was seen to run this
\* incarnation; the stop is a call of its own.
CleanupOwns(c) ==
  /\ call[c].st = "cleaning" /\ call[c].unit
  /\ Alive(call[c].proc) /\ unit[call[c].port].main = call[c].proc
  /\ call' = [call EXCEPT ![c].st = "stopping"]
  /\ UNCHANGED <<resv, age, waited, hostVars, dep, unload, rec, countVars>>

CleanupStop(c) ==
  /\ call[c].st = "stopping"
  /\ StopUnit(call[c].port, call[c].proc)
  /\ call' = [call EXCEPT ![c].st = "freeing"]
  /\ UNCHANGED <<resv, age, waited, dep, unload, rec, countVars>>

\* Mutant: the reservation is released although the end was not confirmed.
CleanupFailsFrees(c) ==
  /\ call[c].st \in {"cleaning", "stopping"} /\ Alive(call[c].proc) /\ Fault("kill")
  /\ call' = [call EXCEPT ![c].st = "freeing"]
  /\ UNCHANGED <<resv, age, waited, hostVars, dep, unload, rec>>

\* systemctl does not confirm that the unit runs this incarnation, or the process
\* outlives the signals: the reservation stays until it expires.
CleanupFails(c) ==
  /\ call[c].st \in {"cleaning", "stopping"} /\ Alive(call[c].proc) /\ Fault("kill")
  /\ call' = Abandoned(c)
  /\ Return(c)
  /\ UNCHANGED <<resv, age, waited, hostVars, dep, unload>>

\* pg_release_model_load_reservation: only the rows that still have the token.
Released(c) == [r \in Resources |-> IF resv[r] = c THEN None ELSE resv[r]]

Release(c) ==
  /\ call[c].st \in {"active", "freeing"}
  /\ resv' = Released(c)
  /\ call' = [call EXCEPT ![c] = IdleCall]
  /\ age' = [age EXCEPT ![c] = 0]
  /\ waited' = [waited EXCEPT ![c] = 0]
  /\ Return(c)
  /\ UNCHANGED <<hostVars, dep, unload, countVars>>

\* The release fails, which only warns: the expiry recovers the rows.
ReleaseFails(c) ==
  /\ call[c].st \in {"active", "freeing"} /\ Fault("statement")
  /\ call' = Abandoned(c)
  /\ Return(c)
  /\ UNCHANGED <<resv, age, waited, hostVars, dep, unload>>

\* The future of the load is dropped.  While a launched server is not activated
\* yet, LaunchOwnershipGuard runs the cleanup detached; the caller is gone.  A
\* restart that systemctl was asked for goes on, before there is a guard.
Cancel(c) ==
  /\ InFlight(c) /\ Fault("cancel")
  /\ call' = CASE call[c].st \in {"waiting", "ready"} -> [call EXCEPT ![c].st = "cleaning"]
               [] call[c].st \in {"cleaning", "stopping"} -> call
               [] OTHER -> Abandoned(c)
  /\ rec' = IF rec.wait = c THEN NoPass ELSE rec
  /\ \/ UNCHANGED hostVars
     \/ call[c].st = "written" /\ \E i \in Procs : Restarted(call[c].port, i)
  /\ UNCHANGED <<resv, age, waited, dep, unload>>

\* The process that runs the load stops.
Crash(c) ==
  /\ InFlight(c) /\ Fault("crash")
  /\ call' = Abandoned(c)
  /\ rec' = IF rec.wait = c THEN NoPass ELSE rec
  /\ UNCHANGED <<resv, age, waited, hostVars, dep, unload>>

\* Mutant: the expiry is no longer than the health wait.
TtlBare == StartupTimeout

\* Reservation lifetime: startup_policy.timeout + 120 s.
Ttl == StartupTimeout + TtlMargin

\* Mutant: the health wait has no outer deadline.
WaitingOn(c) == call[c].st = "waiting"

Waiting(c) == call[c].st = "waiting" /\ waited[c] < StartupTimeout

\* Time passes for the loads and for the reservations, whose expired rows the
\* next reservation replaces.
Tick ==
  /\ \E c \in Calls : call[c].st # "idle"
  /\ \A c \in Calls : InFlight(c) => Waiting(c) \/ age[c] - waited[c] < Slack
  /\ LET expired == {c \in Calls : call[c].st # "idle" /\ age[c] + 1 >= Ttl}
         ended == {c \in expired : call[c].st = "over"}
     IN /\ resv' = [r \in Resources |-> IF resv[r] \in expired THEN None ELSE resv[r]]
        /\ call' = [c \in Calls |-> IF c \in ended THEN IdleCall ELSE call[c]]
        /\ age' = [c \in Calls |-> IF call[c].st = "idle" \/ c \in ended THEN 0
                                   ELSE age[c] + 1]
        /\ waited' = [c \in Calls |-> IF c \in ended THEN 0
                                      ELSE IF Waiting(c) THEN waited[c] + 1 ELSE waited[c]]
  /\ UNCHANGED <<hostVars, dep, unload, rec, countVars>>

-----------------------------------------------------------------------------
(* Unloading, which takes no reservation.                                  *)

\* The incarnation an unload of the row may stop: a listener that the row names
\* or that the unit supervises with the row's model, else the recorded one.
Authentic(p, row, i) == proc[i].lib = row.lib /\ (row.proc = i \/ UnitOwns(p, i, row.lib))

UnloadRead(p) ==
  /\ unload = NoUnload /\ dep[p] # NoRow
  /\ Event
  /\ unload' = [st |-> "row", port |-> p, row |-> dep[p], target |-> None]
  /\ UNCHANGED <<loadVars, hostVars, dep, rec>>

UnloadFind ==
  LET p == unload.port
      row == unload.row
  IN /\ unload.st = "row"
     /\ \/ \E i \in Listeners(p) :
             /\ Authentic(p, row, i)
             /\ unload' = [unload EXCEPT !.st = "read", !.target = i]
        \/ /\ Listeners(p) = {}
           /\ unload' = [unload EXCEPT !.st = "read",
                                       !.target = IF Alive(row.proc) THEN row.proc ELSE None]
     /\ UNCHANGED <<loadVars, hostVars, dep, rec, countVars>>

\* The listener is not the row's: nothing is done.
UnloadRefused ==
  LET p == unload.port
  IN /\ unload.st = "row"
     /\ \E i \in Listeners(p) : ~Authentic(p, unload.row, i)
     /\ unload' = NoUnload
     /\ UNCHANGED <<loadVars, hostVars, dep, rec, countVars>>

\* Mutant: the server is killed first and the row deleted later.
UnloadUnretired ==
  /\ unload.st = "read"
  /\ unload' = [unload EXCEPT !.st = "retired"]
  /\ UNCHANGED <<loadVars, hostVars, dep, rec, countVars>>

\* The row is retired before anything is killed, unless its process changed.
UnloadRetire ==
  LET p == unload.port
      same == dep[p].id = unload.row.id /\ dep[p].proc = unload.row.proc
  IN /\ unload.st = "read"
     /\ dep' = IF same
               THEN [dep EXCEPT ![p].desired = "retired",
                                ![p].proc = IF unload.target = None THEN @ ELSE unload.target]
               ELSE dep
     /\ unload' = IF same THEN [unload EXCEPT !.st = "retired"] ELSE NoUnload
     /\ UNCHANGED <<loadVars, hostVars, rec, countVars>>

\* cleanup_launched_process for the target: it is gone already, or the unit of
\* the port was seen to run it, and that unit is stopped by a call of its own.
UnloadGone ==
  /\ unload.st = "retired" /\ ~Alive(unload.target)
  /\ unload' = [unload EXCEPT !.st = "stopped"]
  /\ UNCHANGED <<loadVars, hostVars, dep, rec, countVars>>

UnloadOwns ==
  /\ unload.st = "retired" /\ Alive(unload.target)
  /\ unit[unload.port].main = unload.target
  /\ unload' = [unload EXCEPT !.st = "stopping"]
  /\ UNCHANGED <<loadVars, hostVars, dep, rec, countVars>>

UnloadStop ==
  /\ unload.st = "stopping"
  /\ StopUnit(unload.port, unload.target)
  /\ unload' = [unload EXCEPT !.st = "stopped"]
  /\ UNCHANGED <<loadVars, dep, rec, countVars>>

\* The target is not the process of its unit: the retired row is retained for
\* the operator.
UnloadFails ==
  /\ unload.st = "retired" /\ Alive(unload.target) /\ unit[unload.port].main # unload.target
  /\ unload' = NoUnload
  /\ UNCHANGED <<loadVars, hostVars, dep, rec, countVars>>

\* The process that unloads stops, or its target outlives the signals.
UnloadCrash ==
  /\ unload # NoUnload /\ Fault("crash")
  /\ unload' = NoUnload
  /\ UNCHANGED <<loadVars, hostVars, dep, rec>>

\* pg_delete_deployment, by the id of the row.
Deleted(p, id) == [dep EXCEPT ![p] = IF dep[p].id = id THEN NoRow ELSE @]

UnloadDelete ==
  /\ unload.st = "stopped"
  /\ dep' = Deleted(unload.port, unload.row.id)
  /\ unload' = NoUnload
  /\ UNCHANGED <<loadVars, hostVars, rec, countVars>>

\* `ff model retire`, or evict_deployment_row from another computer.
Retire(p) ==
  /\ dep[p].desired = "active" /\ Event
  /\ dep' = [dep EXCEPT ![p].desired = "retired"]
  /\ UNCHANGED <<loadVars, hostVars, unload, rec>>

-----------------------------------------------------------------------------
(* The reconciler: reconcile_local, every 60 s.                            *)

\* ps first, then the rows: the processes are handled before the rows on whose
\* port ps showed none.
Begin ==
  LET alive == {i \in Procs : Alive(i)}
  IN /\ rec = NoPass
     /\ rec' = [rec EXCEPT !.st = "rows", !.todo = alive, !.seen = {proc[i].port : i \in alive}]
     /\ UNCHANGED <<loadVars, hostVars, dep, unload, countVars>>

ReadRows ==
  LET missing == {p \in Ports \ rec.seen : dep[p] # NoRow}
  IN /\ rec.st = "rows"
     /\ rec' = IF rec.todo \cup missing = {}
               THEN NoPass
               ELSE [NoPass EXCEPT !.st = "pass", !.rows = dep, !.todo = rec.todo \cup missing]
     /\ UNCHANGED <<loadVars, hostVars, dep, unload, countVars>>

\* The pass is over when nothing is left.
Done(x) ==
  LET left == rec.todo \ {x}
  IN IF left = {} /\ rec.wait = None THEN NoPass ELSE [rec EXCEPT !.todo = left, !.live = None, !.port = None]

\* A process is the row's if its identity is the recorded one, or if the unit
\* supervises it with the row's model; the probes of its health are awaited.
Authenticate(i) ==
  LET p == proc[i].port
  IN /\ rec.st = "pass" /\ i \in rec.todo /\ rec.live = None /\ rec.wait = None
     /\ rec' = IF Alive(i) /\ rec.rows[p].desired = "active" /\ Authentic(p, rec.rows[p], i)
               THEN [rec EXCEPT !.live = i, !.port = p]
               ELSE Done(i)
     /\ UNCHANGED <<loadVars, hostVars, dep, unload, countVars>>

\* Mutant: a server that its unit restarted is not the row's.
RefreshRecorded ==
  /\ rec.live # None
  /\ rec' = Done(rec.live)
  /\ UNCHANGED <<loadVars, hostVars, dep, unload, countVars>>

\* It is written to the row if the row's recorded identity is unchanged.
Refresh ==
  LET p == rec.port
      same == dep[p].id = rec.rows[p].id /\ dep[p].proc = rec.rows[p].proc
  IN /\ rec.live # None
     /\ dep' = IF same THEN [dep EXCEPT ![p].proc = rec.live] ELSE dep
     /\ rec' = Done(rec.live)
     /\ UNCHANGED <<loadVars, hostVars, unload, countVars>>

Turn(p) == rec.st = "pass" /\ p \in rec.todo /\ rec.todo \cap Procs = {} /\ rec.wait = None

\* A retired row without a process is deleted.
Remove(p) ==
  /\ Turn(p) /\ rec.rows[p].desired = "retired"
  /\ dep' = Deleted(p, rec.rows[p].id)
  /\ rec' = Done(p)
  /\ UNCHANGED <<loadVars, hostVars, unload, countVars>>

\* An active row without a process is respawned, and the pass waits for it.
Respawn(p, c) ==
  /\ Turn(p) /\ rec.rows[p].desired = "active"
  /\ Reserve(c, p, rec.rows[p].lib, rec.rows[p])
  /\ rec' = [rec EXCEPT !.todo = @ \ {p}, !.wait = c]
  /\ UNCHANGED <<hostVars, dep, unload, countVars>>

\* The port or the library is reserved: the row has to wait for a later pass.
RespawnRefused(p) ==
  /\ Turn(p) /\ rec.rows[p].desired = "active"
  /\ ~(Free(p) /\ Free(rec.rows[p].lib))
  /\ rec' = Done(p)
  /\ UNCHANGED <<loadVars, hostVars, dep, unload, countVars>>

-----------------------------------------------------------------------------

LoadStep(c) ==
  \/ Inspect(c) \/ Probe(c) \/ WriteUnit(c) \/ (\E i \in Procs : Launch(c, i))
  \/ Healthy(c) \/ StartupFails(c) \/ Activate(c)
  \/ Cleanup(c) \/ CleanupOwns(c) \/ CleanupStop(c) \/ Release(c)

LoadFault(c) ==
  \/ (\E i \in Procs : LaunchPlain(c, i) \/ LaunchKept(c, i)) \/ LaunchLost(c)
  \/ StartupTimesOut(c)
  \/ ActivateFails(c) \/ CleanupFails(c) \/ ReleaseFails(c) \/ Cancel(c) \/ Crash(c)

HostStep == \E i \in Procs : Bind(i) \/ Die(i) \/ \E p \in Ports : UnitRestart(p, i)

UnloadStep ==
  \/ UnloadFind \/ UnloadRefused \/ UnloadRetire
  \/ UnloadGone \/ UnloadOwns \/ UnloadStop \/ UnloadFails \/ UnloadDelete

Operator ==
  \E p \in Ports : UnloadRead(p) \/ Retire(p) \/ \E c \in Calls, l \in Libs : Load(c, p, l)

Reconcile ==
  \/ Begin \/ ReadRows \/ Refresh
  \/ \E i \in Procs : Authenticate(i)
  \/ \E p \in Ports : Remove(p) \/ RespawnRefused(p) \/ \E c \in Calls : Respawn(p, c)

Next ==
  \/ \E c \in Calls : LoadStep(c) \/ LoadFault(c)
  \/ HostStep \/ UnloadStep \/ UnloadCrash \/ Operator \/ Reconcile \/ Tick

Spec == Init /\ [][Next]_vars

\* A load, an unload and the pass of a daemon that runs go on; a server that is
\* loading comes to its bind; time passes.  systemd may give a unit up
\* (StartLimitBurst), so UnitRestart is not fair, and nothing forces a fault.
Fairness ==
  /\ \A c \in Calls : WF_vars(LoadStep(c))
  /\ WF_vars(UnloadStep)
  /\ WF_vars(Reconcile)
  /\ \A i \in Procs : WF_vars(Bind(i))
  /\ WF_vars(Tick)

FairSpec == Spec /\ Fairness

-----------------------------------------------------------------------------
(* Properties.                                                             *)

Rows == [id : Procs \cup {None}, lib : Libs \cup {None}, proc : Procs \cup {None},
         desired : {"none", "active", "retired"}]
CallStates == {"idle", "reserved", "inspected", "clear", "written", "waiting", "ready",
               "active", "cleaning", "stopping", "freeing", "over"}
CallRecords == [st : CallStates, port : Ports \cup {None}, lib : Libs \cup {None}, row : Rows,
                proc : Procs \cup {None}, unit : BOOLEAN]
ProcRecords == [st : {"dead", "loading", "listening"}, port : Ports \cup {None},
                lib : Libs \cup {None}]
UnitRecords == [main : Procs \cup {None}, lib : Libs \cup {None}, armed : BOOLEAN]
UnloadRecords == [st : {"idle", "row", "read", "retired", "stopping", "stopped"},
                  port : Ports \cup {None}, row : Rows, target : Procs \cup {None}]
PassRecords == [st : {"idle", "rows", "pass"}, rows : [Ports -> Rows],
                seen : SUBSET (Ports \cup {None}), todo : SUBSET (Procs \cup Ports),
                live : Procs \cup {None}, port : Ports \cup {None},
                wait : Calls \cup {None}]

\* Types; a token is never older than its reservation may be, and a health wait
\* never longer than its bound.
TypeOK ==
  /\ resv \in [Resources -> Calls \cup {None}]
  /\ call \in [Calls -> CallRecords]
  /\ age \in [Calls -> 0 .. StartupTimeout + TtlMargin]
  /\ waited \in [Calls -> 0 .. StartupTimeout]
  /\ proc \in [Procs -> ProcRecords]
  /\ unit \in [Ports -> UnitRecords]
  /\ dep \in [Ports -> Rows]
  /\ unload \in UnloadRecords
  /\ rec \in PassRecords
  /\ faults \in 0 .. MaxFaults
  /\ events \in 0 .. MaxEvents

\* Two loads that are under way, cleanups included, share neither the port nor
\* the library (pg_reserve_model_load), although reservations expire by
\* themselves: the expiry outlives the bounded health wait and what follows it.
LaunchExclusive ==
  \A c, d \in Calls :
    c # d /\ InFlight(c) /\ InFlight(d) => call[c].port # call[d].port /\ call[c].lib # call[d].lib

\* While a load under way has started a server that still runs and that no row
\* has taken over, its port stays reserved: the cleanup releases only after it
\* confirmed the end of the incarnation (finish_fenced_cleanup).
FenceHolds ==
  [][\A c \in Calls, p \in Ports :
       resv[p] = c /\ resv'[p] # c /\ Alive(call[c].proc) => call[c].st = "active"]_vars

\* A stop of p's unit that was decided while the unit ran another incarnation
\* than i (systemd_owns_launch and stop_systemd_unit are two calls).
Overtaken(p, i) ==
  \/ \E c \in Calls : call[c].st = "stopping" /\ call[c].port = p /\ call[c].proc # i
  \/ unload.st = "stopping" /\ unload.port = p /\ unload.target # i

\* A server that listens and that an active row names is not stopped by loads,
\* cleanups, unit restarts, unloads or the reconciler; it may crash, the load
\* that started it may take it back when its activation went unanswered, and a
\* stop that its unit's restart overtook may hit it.
ActiveUntouched ==
  [][\A p \in Ports : LET i == dep[p].proc IN
       /\ dep[p].desired = "active" /\ i # None
       /\ proc[i].st = "listening" /\ proc'[i].st = "dead"
       => \/ Die(i) \/ Overtaken(p, i)
          \/ \E c \in Calls : call[c].proc = i /\ call[c].st \in {"cleaning", "stopping"}]_vars

\* A deployment that is desired is served by the process its row names, again
\* and again, whatever crashed: unless the operator retires it, or a process
\* listens on its port that neither row nor unit vouches for, which the
\* reconciler leaves alone.
DesiredComesBack ==
  \A p \in Ports :
    dep[p].desired = "active" ~>
      \/ dep[p].desired # "active"
      \/ \E i \in Listeners(p) :
           \/ dep[p].proc = i
           \/ ~(unit[p].main = i /\ unit[p].lib = dep[p].lib)
=============================================================================
