------------------------- MODULE ModelServerProofs -------------------------
(***************************************************************************)
(* Theorem about deployed servers, for any ports, libraries, loads and     *)
(* incarnations: nobody stops a server that listens and that an active row *)
(* names.  Extends the proofs about reservations, whose invariant it uses. *)
(***************************************************************************)
EXTENDS ModelLoadProofs
-----------------------------------------------------------------------------
\* Active servers are left alone.  The invariant says what rows, units, loads,
\* the pass and the unload know about the processes they name.

Loading(i) == i # None /\ proc[i].st = "loading"

Early == {"reserved", "inspected", "clear", "written"}
Trying == {"inspected", "clear", "written", "waiting", "ready"}

\* A load that has seen no listener, until its own server is in its row.
Cleared == {"clear", "written", "waiting", "ready"}

\* A row has an identity, and the process it names runs on its port if at all.
RowOK(p) ==
  /\ dep[p] # NoRow => dep[p].id # None
  /\ Alive(dep[p].proc) => proc[dep[p].proc].port = p

\* A row that names a server which has not bound yet was refreshed in a pass that
\* saw the port occupied, so neither the pass nor a respawn takes it for missing.
LoadingOK(p) ==
  Loading(dep[p].proc) =>
    /\ rec.st = "rows" => p \in rec.seen
    /\ rec.st = "pass" => p \notin rec.todo
    /\ \A c \in Calls : call[c].port = p /\ call[c].st \in Early => call[c].row = NoRow

UnitOK(p) == Alive(unit[p].main) => proc[unit[p].main].port = p

\* An ordinary load under way has found no row on its port, and none appears; a
\* respawn is for an active row and the pass waits for it.  When the port is
\* clear, no active row of it names a server that runs.
CallOK(c) ==
  /\ Alive(call[c].proc) => proc[call[c].proc].port = call[c].port
  /\ call[c].st = "ready" => call[c].proc # None /\ ~Loading(call[c].proc)
  /\ call[c].st \in Trying /\ call[c].row = NoRow => dep[call[c].port] = NoRow
  /\ call[c].st \in Trying /\ call[c].row # NoRow => call[c].row.desired = "active"
  /\ call[c].st \in Early /\ call[c].row # NoRow => rec.wait = c /\ rec.st = "pass"
  /\ call[c].st \in {"clear", "written"} /\ dep[call[c].port].desired = "active" =>
       ~Alive(dep[call[c].port].proc)

\* The process that the pass is about to write to a row is one of those it still
\* has, and unless it is the recorded one the unit does not run the recorded one.
LiveOK ==
  rec.live # None =>
    /\ rec.st = "pass" /\ rec.wait = None
    /\ rec.live \in rec.todo /\ rec.port \notin rec.todo
    /\ Alive(rec.live) => proc[rec.live].port = rec.port
    /\ rec.port \in Ports =>
         LET row == rec.rows[rec.port]
         IN /\ row.desired = "active"
            /\ row.proc \in {rec.live, None} \/ unit[rec.port].main # row.proc

\* A process of the pass that still runs was seen on its port, which is
\* therefore not among the rows without a process.
PassOK ==
  /\ \A p \in Ports : rec.rows[p].desired = "active" => rec.rows[p].id # None
  /\ rec.st = "rows" => rec.todo \subseteq Procs
  /\ \A i \in Procs : i \in rec.todo /\ Alive(i) =>
       /\ rec.st = "rows" => proc[i].port \in rec.seen
       /\ rec.st = "pass" => proc[i].port \notin rec.todo
  /\ LiveOK

Unloading == {"row", "read", "retired", "stopping"}

\* While the target of an unload runs under its unit after the row was retired,
\* no row of the port is active, and none is about to be: as long as a server
\* loads its row stays, and a load that finds no row finds its listener.
Withdrawn ==
  unload.st \in {"retired", "stopping"} /\ Alive(unload.target)
      /\ unit[unload.port].main = unload.target =>
    /\ dep[unload.port].desired # "active"
    /\ Loading(unload.target) => dep[unload.port].proc = unload.target
    /\ dep[unload.port] = NoRow =>
         \A c \in Calls : call[c].port = unload.port /\ call[c].row = NoRow =>
           call[c].st \notin Cleared

\* A unit that was seen to run the target runs it as long as the target runs.
UnloadOK ==
  /\ unload.st \in Unloading => unload.port \in Ports
  /\ unload.st \in {"row", "read"} => unload.row.id # None
  /\ unload.st = "row" /\ Alive(unload.row.proc) => proc[unload.row.proc].port = unload.port
  /\ unload.st = "read" /\ Loading(unload.target) => unload.row.proc = unload.target
  /\ unload.st \in {"read", "retired", "stopping"} /\ Alive(unload.target) =>
       proc[unload.target].port = unload.port
  /\ unload.st = "stopping" /\ Alive(unload.target) =>
       unit[unload.port].main = unload.target
  /\ Withdrawn

ServerInv ==
  /\ \A p \in Ports : RowOK(p) /\ LoadingOK(p) /\ UnitOK(p)
  /\ \A c \in Calls : CallOK(c)
  /\ PassOK /\ UnloadOK

-----------------------------------------------------------------------------
\* What every step does to processes and units: a process that something names
\* is never started again, and the unit of a port gets only new ones.

Persists(i) ==
  proc'[i].st # "dead" =>
    /\ proc[i].st # "dead" /\ proc'[i].port = proc[i].port
    /\ proc'[i].st = "loading" => proc[i].st = "loading"

Lives == \A i \in Procs : Named(i) => Persists(i)

UnitFollows(p) ==
  \/ unit'[p].main = unit[p].main
  \/ /\ unit[p].main # None => proc'[unit[p].main].st = "dead"
     /\ \/ unit'[p].main = None
        \/ /\ unit'[p].main \in Procs /\ ~Named(unit'[p].main)
           /\ proc'[unit'[p].main].port = p

UnitsFollow == \A p \in Ports : UnitFollows(p)

LEMMA FreshUnnamed ==
  ASSUME NEW i, Fresh(i)
  PROVE  i \in Procs /\ ~Named(i)
BY DEF Fresh, Unused

LEMMA StillLives ==
  ASSUME UNCHANGED hostVars
  PROVE  Lives /\ UnitsFollow
BY DEF hostVars, Lives, Persists, UnitsFollow, UnitFollows

LEMMA HostLives ==
  ASSUME Inv, HostStep
  PROVE  Lives /\ UnitsFollow
<1>. PICK i \in Procs : Bind(i) \/ Die(i) \/ \E p \in Ports : UnitRestart(p, i)
  BY DEF HostStep
<1>1. proc \in [Procs -> ProcRecords] /\ unit \in [Ports -> UnitRecords]
  BY DEF Inv, TypeOK
<1>2. CASE Bind(i)
  <2>1. unit' = unit /\ \A j \in Procs \ {i} : proc'[j] = proc[j]
    BY <1>1, <1>2 DEF Bind
  <2>2. Persists(i)
    BY <1>1, <1>2 DEF Bind, Persists, DeadProc, ProcRecords
  <2> QED BY <2>1, <2>2 DEF Lives, Persists, UnitsFollow, UnitFollows
<1>3. CASE Die(i)
  <2>1. unit' = unit /\ \A j \in Procs \ {i} : proc'[j] = proc[j]
    BY <1>1, <1>3 DEF Die
  <2>2. Persists(i)
    BY <1>1, <1>3 DEF Die, Persists, DeadProc
  <2> QED BY <2>1, <2>2 DEF Lives, Persists, UnitsFollow, UnitFollows
<1>4. ASSUME NEW p \in Ports, UnitRestart(p, i) PROVE Lives /\ UnitsFollow
  <2>1. ~Named(i)
    BY <1>4, FreshUnnamed DEF UnitRestart
  <2>2. proc'[i].port = p /\ \A j \in Procs \ {i} : proc'[j] = proc[j]
    BY <1>1, <1>4 DEF UnitRestart, Started
  <2>3. unit'[p].main = i /\ \A q \in Ports \ {p} : unit'[q] = unit[q]
    BY <1>1, <1>4 DEF UnitRestart, UnitRecords
  <2>4. unit[p].main # None => proc'[unit[p].main].st = "dead"
    <3>1. unit[p].main # i /\ unit[p].main \in Procs \cup {None}
      BY <1>1, <2>1 DEF Named, UnitRecords
    <3> QED BY <1>4, <2>2, <3>1 DEF UnitRestart, Alive
  <2> QED BY <2>1, <2>2, <2>3, <2>4 DEF Lives, Persists, UnitsFollow, UnitFollows
<1> QED BY <1>2, <1>3, <1>4

\* A launch starts i on p, and may end what the unit of p ran.
LEMMA LaunchLives ==
  ASSUME Inv, NEW i \in Procs, ~Named(i), NEW p \in Ports, proc'[i].port = p,
         \A j \in Procs \ {i} : proc'[j] \in {proc[j], DeadProc},
         \/ unit'[p].main = unit[p].main
         \/ /\ unit'[p].main \in {None, i}
            /\ unit[p].main # None => proc'[unit[p].main].st = "dead",
         \A q \in Ports \ {p} : unit'[q] = unit[q]
  PROVE  Lives /\ UnitsFollow
BY DEF Lives, Persists, UnitsFollow, UnitFollows, DeadProc

\* A step that only stops processes and units.
LEMMA StopLives ==
  ASSUME \A j \in Procs : proc'[j] \in {proc[j], DeadProc},
         \A q \in Ports :
           \/ unit'[q].main = unit[q].main
           \/ /\ unit'[q].main = None
              /\ unit[q].main # None => proc'[unit[q].main].st = "dead"
  PROVE  Lives /\ UnitsFollow
BY DEF Lives, Persists, UnitsFollow, UnitFollows, DeadProc

LEMMA StoppedMain ==
  ASSUME TypeOK, NEW p, NEW q \in Ports
  PROVE  Stopped(p)[q].main \in {unit[q].main, None}
<1>1. unit \in [Ports -> UnitRecords] /\ unit[q] \in UnitRecords
  BY DEF TypeOK
<1>2. CASE q = p
  <2>1. Stopped(p)[q] = [unit[q] EXCEPT !.main = None, !.armed = FALSE]
    BY <1>1, <1>2 DEF Stopped
  <2> QED BY <1>1, <2>1 DEF UnitRecords
<1>3. CASE q # p
  BY <1>1, <1>3 DEF Stopped
<1> QED BY <1>2, <1>3

LEMMA StopUnitLives ==
  ASSUME Inv, NEW p, NEW i, StopUnit(p, i)
  PROVE  Lives /\ UnitsFollow
<1>1. /\ proc \in [Procs -> ProcRecords] /\ unit \in [Ports -> UnitRecords] /\ TypeOK
  BY DEF Inv, TypeOK
<1>2. \A j \in Procs : proc'[j] \in {proc[j], DeadProc}
  BY <1>1 DEF StopUnit
<1>3. ASSUME NEW q \in Ports
      PROVE  \/ unit'[q].main = unit[q].main
             \/ /\ unit'[q].main = None
                /\ unit[q].main # None => proc'[unit[q].main].st = "dead"
  <2>1. CASE q # p
    BY <1>1, <2>1 DEF StopUnit, Stopped
  <2>2. CASE q = p
    <3>1. unit'[q].main \in {unit[q].main, None}
      BY <1>1, StoppedMain DEF StopUnit
    <3>2. unit[q].main \in Procs \cup {None}
      BY <1>1 DEF UnitRecords
    <3> QED BY <2>2, <3>1, <3>2 DEF StopUnit, DeadProc
  <2> QED BY <2>1, <2>2
<1> QED BY <1>2, <1>3, StopLives

LEMMA RestartedLives ==
  ASSUME Inv, NEW p \in Ports, NEW i \in Procs, Restarted(p, i)
  PROVE  Lives /\ UnitsFollow
<1>1. proc \in [Procs -> ProcRecords] /\ unit \in [Ports -> UnitRecords]
  BY DEF Inv, TypeOK
<1>2. ~Named(i)
  BY FreshUnnamed DEF Restarted
<1>3. proc'[i].port = p /\ \A j \in Procs \ {i} : proc'[j] \in {proc[j], DeadProc}
  BY DEF Restarted, Started
<1>4. unit'[p].main = i /\ \A q \in Ports \ {p} : unit'[q] = unit[q]
  BY <1>1 DEF Restarted, UnitRecords
<1>5. unit[p].main # None => proc'[unit[p].main].st = "dead"
  <2>1. unit[p].main # i /\ unit[p].main \in Procs \cup {None}
    BY <1>1, <1>2 DEF Named, UnitRecords
  <2> QED BY <2>1 DEF Restarted, DeadProc
<1> QED BY <1>2, <1>3, <1>4, <1>5, LaunchLives

LEMMA LoadLives ==
  ASSUME Inv, NEW c \in Calls, LoadStep(c) \/ LoadFault(c)
  PROVE  Lives /\ UnitsFollow
<1> DEFINE p == call[c].port
<1>1. proc \in [Procs -> ProcRecords] /\ unit \in [Ports -> UnitRecords] /\ TypeOK
  BY DEF Inv, TypeOK
<1>2. call[c].st \in {"clear", "written"} => p \in Ports
  BY DEF Inv, Holds, InFlight
<1>3. ASSUME NEW i \in Procs, Launch(c, i) PROVE Lives /\ UnitsFollow
  BY <1>2, <1>3, RestartedLives DEF Launch
<1>4. ASSUME NEW i \in Procs, LaunchPlain(c, i) \/ LaunchKept(c, i) PROVE Lives /\ UnitsFollow
  <2>1. ~Named(i) /\ p \in Ports
    BY <1>2, <1>4, FreshUnnamed DEF LaunchPlain, LaunchKept
  <2>2. proc'[i].port = p /\ \A j \in Procs \ {i} : proc'[j] \in {proc[j], DeadProc}
    BY <1>1, <1>4 DEF LaunchPlain, LaunchKept, Started
  <2>3. /\ \/ unit'[p].main = unit[p].main
           \/ /\ unit'[p].main \in {None, i}
              /\ unit[p].main # None => proc'[unit[p].main].st = "dead"
        /\ \A q \in Ports \ {p} : unit'[q] = unit[q]
    <3>1. unit[p].main # i /\ unit[p].main \in Procs \cup {None}
      BY <1>1, <2>1 DEF Named, UnitRecords
    <3>2. CASE LaunchPlain(c, i)
      BY <1>1, <2>1, <3>1, <3>2 DEF LaunchPlain, DeadProc, UnitRecords
    <3>3. CASE LaunchKept(c, i)
      <4>1. unit' = Stopped(p) /\ (unit[p].main # None => proc'[unit[p].main] = DeadProc)
        BY <3>1, <3>3 DEF LaunchKept
      <4>2. unit'[p].main = None /\ \A q \in Ports \ {p} : unit'[q] = unit[q]
        BY <1>1, <2>1, <4>1 DEF Stopped, UnitRecords
      <4> QED BY <4>1, <4>2 DEF DeadProc
    <3> QED BY <1>4, <3>2, <3>3
  <2> QED BY <2>1, <2>2, <2>3, LaunchLives
<1>5. CASE LaunchLost(c)
  BY <1>5, StopUnitLives, StillLives DEF LaunchLost
<1>6. CASE CleanupStop(c)
  BY <1>6, StopUnitLives DEF CleanupStop
<1>7. CASE Cleanup(c)
  <2>1. unit' = unit /\ \A j \in Procs : proc'[j] \in {proc[j], DeadProc}
    BY <1>1, <1>7 DEF Cleanup
  <2> QED BY <2>1, StopLives
<1>8. CASE WriteUnit(c)
  <2>1. proc' = proc /\ \A q \in Ports : unit'[q].main = unit[q].main
    BY <1>1, <1>8 DEF WriteUnit, UnitRecords
  <2> QED BY <2>1, StopLives
<1>9. CASE Cancel(c)
  BY <1>2, <1>9, RestartedLives, StillLives DEF Cancel
<1>10. CASE UNCHANGED hostVars
  BY <1>10, StillLives
<1>11. \/ \E i \in Procs : Launch(c, i) \/ LaunchPlain(c, i) \/ LaunchKept(c, i)
       \/ LaunchLost(c) \/ CleanupStop(c) \/ Cleanup(c) \/ WriteUnit(c) \/ Cancel(c)
       \/ UNCHANGED hostVars
  BY DEF LoadStep, LoadFault, Inspect, Probe, Healthy, StartupFails, Activate, Release,
     StartupTimesOut, ActivateFails, CleanupOwns, CleanupFails, ReleaseFails, Crash
<1> QED BY <1>3, <1>4, <1>5, <1>6, <1>7, <1>8, <1>9, <1>10, <1>11

LEMMA UnloadStopLives ==
  ASSUME Inv, UnloadStop
  PROVE  Lives /\ UnitsFollow
BY StopUnitLives DEF UnloadStop

\* The processes that rows, units, loads, the unload and the pass name.
LEMMA NamedOnes ==
  /\ \A p \in Ports : Named(dep[p].proc) /\ Named(dep[p].id) /\ Named(unit[p].main)
  /\ \A c \in Calls : Named(call[c].proc)
  /\ Named(unload.target) /\ Named(unload.row.proc)
  /\ \A i \in rec.todo : Named(i)
  /\ \A p \in Ports : Named(rec.rows[p].proc)
BY DEF Named

-----------------------------------------------------------------------------
\* Each part of the invariant survives a step that leaves what it is about.

LEMMA RowKept ==
  ASSUME Inv, Lives, NEW p \in Ports, RowOK(p),
         dep'[p] = dep[p] \/ dep'[p] = NoRow
           \/ (dep'[p].id = dep[p].id /\ dep[p] # NoRow /\ dep'[p].proc = dep[p].proc)
  PROVE  RowOK(p)'
<1>1. dep[p].proc \in Procs \cup {None}
  BY DEF Inv, TypeOK, Rows
<1>2. dep[p].proc # None => Persists(dep[p].proc)
  BY <1>1, NamedOnes DEF Lives
<1> QED BY <1>2 DEF RowOK, Alive, NoRow, Persists

LEMMA UnitKept ==
  ASSUME Inv, Lives, NEW p \in Ports, UnitFollows(p), UnitOK(p)
  PROVE  UnitOK(p)'
<1>1. unit[p].main \in Procs \cup {None}
  BY DEF Inv, TypeOK, UnitRecords
<1>2. Named(unit[p].main)
  BY NamedOnes
<1> QED BY <1>1, <1>2 DEF UnitOK, UnitFollows, Alive, Lives, Persists

\* The pass is over, or goes on with what is left of it; the process that it has
\* in hand is written to the row or forgotten.
PassFollows ==
  \/ rec'.st = "idle" /\ rec'.live = None
  \/ /\ rec'.st = rec.st /\ rec'.seen = rec.seen /\ rec'.todo \subseteq rec.todo
     /\ \/ rec'.live = None
        \/ /\ rec'.live = rec.live /\ rec'.port = rec.port /\ rec'.rows = rec.rows
           /\ rec'.todo = rec.todo /\ rec'.wait \in {rec.wait, None}

\* A row that stays, before loads and a pass that have moved on at most.
LEMMA LoadingKept ==
  ASSUME Inv, Lives, NEW p \in Ports, LoadingOK(p),
         dep'[p].proc \in {dep[p].proc, None},
         PassFollows,
         \A c \in Calls : call'[c].port = p /\ call'[c].st \in Early /\ call'[c].row # NoRow =>
           call[c].port = p /\ call[c].st \in Early /\ call[c].row # NoRow
  PROVE  LoadingOK(p)'
<1>1. dep[p].proc \in Procs \cup {None}
  BY DEF Inv, TypeOK, Rows
<1>2. dep[p].proc # None => Persists(dep[p].proc)
  BY <1>1, NamedOnes DEF Lives
<1>3. Loading(dep[p].proc)' => Loading(dep[p].proc)
  BY <1>2 DEF Persists, Loading
<1>4. LoadingOK(p) /\ Loading(dep[p].proc)' =>
        /\ rec'.st = "rows" => p \in rec'.seen
        /\ rec'.st = "pass" => p \notin rec'.todo
        /\ \A c \in Calls : call'[c].port = p /\ call'[c].st \in Early => call'[c].row = NoRow
  BY <1>3 DEF LoadingOK, PassFollows
<1> QED BY <1>4 DEF LoadingOK

\* A load that stays, while its row stays, is retired or removed and the pass
\* that waits for it goes on waiting.
RowFollows(p) ==
  /\ dep[p] = NoRow => dep'[p] = NoRow
  /\ dep'[p].desired = "active" => dep[p].desired = "active" /\ dep'[p].proc = dep[p].proc

StillAwaited(c) == rec.wait = c /\ rec.st = "pass" => rec'.wait = c /\ rec'.st = "pass"

LEMMA CallKept ==
  ASSUME Inv, Lives, NEW c \in Calls, CallOK(c), call'[c] = call[c],
         InFlight(c) => RowFollows(call[c].port),
         InFlight(c) => StillAwaited(c)
  PROVE  CallOK(c)'
<1>1. call[c].proc \in Procs \cup {None}
  BY DEF Inv, TypeOK, CallRecords
<1>2. /\ Alive(call[c].proc)' => Alive(call[c].proc) /\ call'[c].proc = call[c].proc
                                  /\ proc'[call[c].proc].port = proc[call[c].proc].port
      /\ Loading(call[c].proc)' => Loading(call[c].proc)
  BY <1>1, NamedOnes DEF Lives, Persists, Alive, Loading
<1>3. call[c].st \in Early \cup Trying => InFlight(c) /\ call[c].port \in Ports
  BY DEF Early, Trying, InFlight, Inv, Holds
<1>4. InFlight(c) => call[c].port \in Ports
  BY DEF Inv, Holds
<1>5. ASSUME InFlight(c), dep'[call[c].port].desired = "active",
             call[c].st \in {"clear", "written"}
      PROVE  ~Alive(dep[call[c].port].proc)'
  <2>1. dep[call[c].port].proc \in Procs \cup {None}
    BY <1>4, <1>5 DEF Inv, TypeOK, Rows
  <2>2. dep[call[c].port].desired = "active" /\ dep'[call[c].port].proc = dep[call[c].port].proc
    BY <1>5 DEF RowFollows
  <2>3. ~Alive(dep[call[c].port].proc)
    BY <1>5, <2>2 DEF CallOK
  <2> QED BY <1>4, <1>5, <2>1, <2>2, <2>3, NamedOnes DEF Lives, Persists, Alive
<1>6. /\ Alive(call[c].proc)' => proc'[call'[c].proc].port = call'[c].port
      /\ call'[c].st = "ready" => call'[c].proc # None /\ ~Loading(call[c].proc)'
  BY <1>2 DEF CallOK
<1>7. /\ call'[c].st \in Trying /\ call'[c].row = NoRow => dep'[call'[c].port] = NoRow
      /\ call'[c].st \in Trying /\ call'[c].row # NoRow => call'[c].row.desired = "active"
      /\ call'[c].st \in Early /\ call'[c].row # NoRow => rec'.wait = c /\ rec'.st = "pass"
  BY <1>3 DEF CallOK, RowFollows, StillAwaited
<1>8. call'[c].st \in {"clear", "written"} /\ dep'[call'[c].port].desired = "active" =>
       ~Alive(dep[call[c].port].proc)'
  BY <1>3, <1>5 DEF Early
<1> QED BY <1>6, <1>7, <1>8 DEF CallOK

\* A load that has come past its activation, or to its end.
LEMMA CallSettled ==
  ASSUME Inv, Lives, NEW c \in Calls, CallOK(c),
         call'[c].st \notin Early \cup Trying,
         \/ call'[c].proc = None
         \/ call'[c].proc = call[c].proc /\ call'[c].port = call[c].port
  PROVE  CallOK(c)'
<1>1. call[c].proc \in Procs \cup {None}
  BY DEF Inv, TypeOK, CallRecords
<1> QED BY <1>1, NamedOnes DEF CallOK, Lives, Persists, Alive, Early, Trying

LEMMA LiveKept ==
  ASSUME Inv, Lives, UnitsFollow, LiveOK, PassFollows
  PROVE  LiveOK'
<1> SUFFICES ASSUME rec'.live # None PROVE LiveOK'
  BY DEF LiveOK
<1>1. /\ rec'.st = rec.st /\ rec'.live = rec.live /\ rec'.port = rec.port
      /\ rec'.rows = rec.rows /\ rec'.todo = rec.todo /\ rec'.wait \in {rec.wait, None}
  BY DEF PassFollows
<1> DEFINE was == rec.rows[rec.port].proc
<1>2. /\ rec.st = "pass" /\ rec.wait = None /\ rec.live \in rec.todo /\ rec.port \notin rec.todo
      /\ Alive(rec.live) => proc[rec.live].port = rec.port
      /\ rec.port \in Ports => /\ rec.rows[rec.port].desired = "active"
                               /\ was \in {rec.live, None} \/ unit[rec.port].main # was
  BY <1>1 DEF LiveOK
<1>3. rec.live \in Procs
  BY <1>1 DEF Inv, TypeOK, PassRecords
<1>4. Alive(rec.live)' => proc'[rec.live].port = rec.port
  BY <1>1, <1>2, <1>3, NamedOnes DEF Lives, Persists, Alive
<1>5. rec.port \in Ports => was \in {rec.live, None} \/ unit'[rec.port].main # was
  BY <1>2, NamedOnes DEF UnitsFollow, UnitFollows
<1> QED BY <1>1, <1>2, <1>4, <1>5 DEF LiveOK

LEMMA PassKept ==
  ASSUME Inv, Lives, UnitsFollow, PassOK,
         \A p \in Ports : rec'.rows[p] \in {rec.rows[p], NoRow}, PassFollows
  PROVE  PassOK'
<1>1. \A p \in Ports : rec'.rows[p].desired = "active" => rec'.rows[p].id # None
  BY DEF PassOK, NoRow
<1>2. rec'.st = "rows" => rec'.todo \subseteq Procs
  BY DEF PassOK, PassFollows
<1>3. ASSUME NEW i \in Procs, i \in rec'.todo, Alive(i)', rec'.st # "idle"
      PROVE  /\ rec'.st = "rows" => proc'[i].port \in rec'.seen
             /\ rec'.st = "pass" => proc'[i].port \notin rec'.todo
  <2>1. i \in rec.todo
    BY <1>3 DEF PassFollows
  <2>2. Alive(i) /\ proc'[i].port = proc[i].port
    BY <1>3, <2>1, NamedOnes DEF Lives, Persists, Alive
  <2> QED BY <1>3, <2>1, <2>2 DEF PassOK, PassFollows
<1>4. LiveOK'
  BY LiveKept DEF PassOK
<1> QED BY <1>1, <1>2, <1>3, <1>4 DEF PassOK, PassFollows

\* The unload stays or is over, while the row of its port is neither made active
\* nor taken from a server that loads, and no load gets past the listener.
LEMMA UnloadKept ==
  ASSUME Inv, Lives, UnitsFollow, UnloadOK,
         unload' = unload \/ unload'.st \notin Unloading,
         unload.st \in {"retired", "stopping"} /\ Alive(unload.target)
             /\ unit[unload.port].main = unload.target =>
           /\ dep'[unload.port].desired = "active" => dep[unload.port].desired = "active"
           /\ Loading(unload.target) /\ dep[unload.port].proc = unload.target =>
                dep'[unload.port].proc = unload.target
           /\ dep'[unload.port] = NoRow =>
                \A c \in Calls : call'[c].port = unload.port /\ call'[c].row = NoRow =>
                  call'[c].st \notin Cleared
  PROVE  UnloadOK'
<1>1. CASE unload' = unload
  <2>1. unload.target \in Procs \cup {None} /\ unload.row.proc \in Procs \cup {None}
    BY DEF Inv, TypeOK, UnloadRecords, Rows
  <2>2. /\ Alive(unload.target)' => Alive(unload.target)
                                     /\ proc'[unload.target].port = proc[unload.target].port
        /\ Loading(unload.target)' => Loading(unload.target)
        /\ Alive(unload.row.proc)' => Alive(unload.row.proc)
                                /\ proc'[unload.row.proc].port = proc[unload.row.proc].port
    BY <1>1, <2>1, NamedOnes DEF Lives, Persists, Alive, Loading
  <2>3. unload.st \in Unloading => unload.port \in Ports
    BY DEF UnloadOK
  <2>4. ASSUME unload.st \in {"retired", "stopping"}, Alive(unload.target)',
               unit'[unload.port].main = unload.target
        PROVE  unit[unload.port].main = unload.target
    <3>1. UnitFollows(unload.port) /\ unload.target # None
      BY <1>1, <2>3, <2>4 DEF UnitsFollow, Alive, Unloading
    <3> QED BY <2>4, <3>1, NamedOnes DEF UnitFollows
  <2>5. Withdrawn'
    BY <1>1, <2>2, <2>4 DEF Withdrawn, UnloadOK
  <2>6. ASSUME unload.st = "stopping", Alive(unload.target)'
        PROVE  unit'[unload.port].main = unload.target
    <3>1. unit[unload.port].main = unload.target /\ UnitFollows(unload.port)
      BY <2>2, <2>3, <2>6 DEF UnloadOK, UnitsFollow, Unloading
    <3> QED BY <1>1, <2>6, <3>1 DEF UnitFollows, Alive
  <2> QED BY <1>1, <2>2, <2>3, <2>5, <2>6 DEF UnloadOK
<1>2. CASE unload'.st \notin Unloading
  BY <1>2 DEF UnloadOK, Withdrawn, Unloading
<1> QED BY <1>1, <1>2

-----------------------------------------------------------------------------
\* The steps that change no row and advance no load.

Settles(c) ==
  /\ call'[c].st \notin Early \cup Trying
  /\ \/ call'[c].proc = None
     \/ call'[c].proc = call[c].proc /\ call'[c].port = call[c].port

\* All but the unload.
LEMMA CalmRest ==
  ASSUME Inv, ServerInv, Lives, UnitsFollow, dep' = dep,
         \A p \in Ports : rec'.rows[p] \in {rec.rows[p], NoRow}, PassFollows,
         \A c \in Calls : Settles(c) \/ (call'[c] = call[c] /\ StillAwaited(c)),
         UnloadOK'
  PROVE  ServerInv'
<1>1. \A p \in Ports : RowOK(p)'
  BY RowKept DEF ServerInv
<1>2. \A p \in Ports : UnitOK(p)'
  BY UnitKept DEF ServerInv, UnitsFollow
<1>3. \A p \in Ports : LoadingOK(p)'
  BY LoadingKept DEF ServerInv, Settles
<1>4. \A c \in Calls : CallOK(c)'
  BY CallKept, CallSettled DEF ServerInv, Settles, RowFollows
<1>5. PassOK'
  BY PassKept DEF ServerInv
<1> QED BY <1>1, <1>2, <1>3, <1>4, <1>5 DEF ServerInv

LEMMA Calm ==
  ASSUME Inv, ServerInv, Lives, UnitsFollow, dep' = dep,
         unload' = unload \/ unload'.st \notin Unloading,
         \A p \in Ports : rec'.rows[p] \in {rec.rows[p], NoRow}, PassFollows,
         \A c \in Calls : Settles(c) \/ (call'[c] = call[c] /\ StillAwaited(c))
  PROVE  ServerInv'
<1>1. ASSUME unload.st \in {"retired", "stopping"}, Alive(unload.target), unit[unload.port].main = unload.target,
             dep[unload.port] = NoRow, NEW c \in Calls, call'[c].port = unload.port,
             call'[c].row = NoRow
      PROVE  call'[c].st \notin Cleared
  BY <1>1 DEF ServerInv, UnloadOK, Withdrawn, Settles, Trying, Cleared
<1>2. UnloadOK'
  BY <1>1, UnloadKept DEF ServerInv
<1> QED BY <1>2, CalmRest

LEMMA SamePass ==
  ASSUME rec' = rec
  PROVE  PassFollows /\ \A c : StillAwaited(c)
BY DEF PassFollows, StillAwaited

LEMMA NoPassFollows ==
  ASSUME rec' = NoPass
  PROVE  PassFollows /\ \A p \in Ports : rec'.rows[p] = NoRow
BY DEF PassFollows, NoPass

\* A load that returns lets the pass that waited for it go on.
LEMMA ReturnFollows ==
  ASSUME TypeOK, NEW c \in Calls, Return(c)
  PROVE  /\ PassFollows
         /\ \A p \in Ports : rec'.rows[p] \in {rec.rows[p], NoRow}
         /\ \A d \in Calls \ {c} : StillAwaited(d)
<1>1. CASE rec.wait # c
  BY <1>1, SamePass DEF Return
<1>2. CASE rec.wait = c /\ rec' = NoPass
  BY <1>2, NoPassFollows DEF StillAwaited
<1>3. CASE rec.wait = c /\ rec' = [rec EXCEPT !.wait = None]
  BY <1>3 DEF PassFollows, StillAwaited, TypeOK, PassRecords
<1> QED BY <1>1, <1>2, <1>3 DEF Return

LEMMA HostServers ==
  ASSUME Inv, ServerInv, HostStep
  PROVE  ServerInv'
<1>1. UNCHANGED <<loadVars, dep, unload, rec>>
  BY DEF HostStep, Bind, Die, UnitRestart
<1> QED BY <1>1, HostLives, SamePass, Calm DEF loadVars

\* The steps in which a load ends, retreats or loses its server.
LEMMA EndServers ==
  ASSUME Inv, ServerInv, NEW c \in Calls,
         \/ StartupFails(c) \/ StartupTimesOut(c) \/ LaunchLost(c) \/ Cleanup(c)
         \/ CleanupOwns(c) \/ CleanupStop(c) \/ CleanupFails(c) \/ Release(c)
         \/ ReleaseFails(c) \/ Cancel(c) \/ Crash(c) \/ \E i \in Procs : LaunchKept(c, i)
  PROVE  ServerInv'
<1>1. call \in [Calls -> CallRecords] /\ call[c] \in CallRecords /\ TypeOK
  BY DEF Inv, TypeOK
<1>2. dep' = dep /\ unload' = unload
  BY DEF StartupFails, StartupTimesOut, LaunchLost, Cleanup, CleanupOwns, CleanupStop,
     CleanupFails, Release, ReleaseFails, Cancel, Crash, LaunchKept
<1>3. Lives /\ UnitsFollow
  BY LoadLives DEF LoadStep, LoadFault
<1>4. PICK r : /\ call' = [call EXCEPT ![c] = r]
               /\ \/ r = IdleCall
                  \/ r = [call[c] EXCEPT !.st = "cleaning"]
                  \/ r = [call[c] EXCEPT !.st = "stopping"]
                  \/ r = [call[c] EXCEPT !.st = "freeing"]
                  \/ r = call[c] /\ call[c].st \in {"cleaning", "stopping"}
                  \/ r = [call[c] EXCEPT !.st = "over", !.row = NoRow, !.proc = None, !.unit = FALSE]
  <2>1. CASE StartupFails(c) \/ StartupTimesOut(c)
    BY <1>1, <2>1 DEF StartupFails, StartupTimesOut
  <2>2. CASE LaunchLost(c) \/ Cleanup(c) \/ CleanupStop(c)
    BY <1>1, <2>2 DEF LaunchLost, Cleanup, CleanupStop
  <2>3. CASE CleanupOwns(c)
    BY <1>1, <2>3 DEF CleanupOwns
  <2>4. CASE Release(c)
    BY <2>4 DEF Release
  <2>5. CASE CleanupFails(c) \/ ReleaseFails(c) \/ Crash(c) \/ \E i \in Procs : LaunchKept(c, i)
    BY <1>1, <2>5 DEF CleanupFails, ReleaseFails, Crash, LaunchKept, Abandoned
  <2>6. CASE Cancel(c)
    <3>1. \/ call[c].st \in {"waiting", "ready"} /\ call' = [call EXCEPT ![c].st = "cleaning"]
          \/ call[c].st \in {"cleaning", "stopping"} /\ call' = call
          \/ call' = Abandoned(c)
      BY <2>6 DEF Cancel
    <3>2. CASE call' = Abandoned(c)
      BY <1>1, <3>2 DEF Abandoned
    <3>3. CASE call[c].st \in {"cleaning", "stopping"} /\ call' = call
      <4>1. call' = [call EXCEPT ![c] = call[c]]
        BY <1>1, <3>3
      <4> QED BY <3>3, <4>1
    <3>4. CASE call' = [call EXCEPT ![c].st = "cleaning"]
      BY <1>1, <3>4
    <3> QED BY <3>1, <3>2, <3>3, <3>4
  <2> QED BY <2>1, <2>2, <2>3, <2>4, <2>5, <2>6
<1>5. call'[c] = r /\ \A d \in Calls \ {c} : call'[d] = call[d]
  BY <1>1, <1>4
<1>6. Settles(c)
  <2>1. /\ r.st \in {"idle", "cleaning", "stopping", "freeing", "over"}
        /\ r.proc = None \/ (r.proc = call[c].proc /\ r.port = call[c].port)
    <3>1. CASE r = IdleCall
      BY <3>1 DEF IdleCall
    <3>2. CASE r # IdleCall
      BY <1>1, <1>4, <3>2 DEF CallRecords
    <3> QED BY <3>1, <3>2
  <2> QED BY <1>5, <2>1 DEF Settles, Early, Trying
<1>7. /\ PassFollows
      /\ \A p \in Ports : rec'.rows[p] \in {rec.rows[p], NoRow}
      /\ \A d \in Calls \ {c} : StillAwaited(d)
  <2>1. CASE rec' = rec
    BY <2>1, SamePass
  <2>2. CASE Return(c)
    BY <1>1, <2>2, ReturnFollows
  <2>3. CASE rec.wait = c /\ rec' = NoPass
    BY <2>3, NoPassFollows DEF StillAwaited
  <2> QED BY <2>1, <2>2, <2>3 DEF StartupFails, StartupTimesOut, LaunchLost, Cleanup,
         CleanupOwns, CleanupStop, CleanupFails, Release, ReleaseFails, Cancel, Crash, LaunchKept
<1> QED BY <1>2, <1>3, <1>5, <1>6, <1>7, Calm

LEMMA TickServers ==
  ASSUME Inv, ServerInv, Tick
  PROVE  ServerInv'
<1>1. UNCHANGED <<hostVars, dep, unload, rec>>
  BY DEF Tick
<1>2. \A c \in Calls : call'[c] = call[c] \/ call'[c] = IdleCall
  BY DEF Tick
<1>3. \A c \in Calls : call'[c] = call[c] \/ Settles(c)
  BY <1>2 DEF Settles, IdleCall, Early, Trying
<1> QED BY <1>1, <1>3, StillLives, SamePass, Calm

\* The unload is refused, finds its target gone, stops it, gives up or is
\* interrupted.
LEMMA UnloadEndServers ==
  ASSUME Inv, ServerInv,
         UnloadRefused \/ UnloadGone \/ UnloadStop \/ UnloadFails \/ UnloadCrash
  PROVE  ServerInv'
<1>1. UNCHANGED <<loadVars, dep, rec>>
  BY DEF UnloadRefused, UnloadGone, UnloadStop, UnloadFails, UnloadCrash
<1>2. unload'.st \notin Unloading
  BY DEF UnloadRefused, UnloadGone, UnloadStop, UnloadFails, UnloadCrash, NoUnload, Inv, TypeOK,
     UnloadRecords, Unloading
<1>3. Lives /\ UnitsFollow
  BY UnloadStopLives, StillLives DEF UnloadRefused, UnloadGone, UnloadFails, UnloadCrash
<1> QED BY <1>1, <1>2, <1>3, SamePass, Calm DEF loadVars

-----------------------------------------------------------------------------
\* The steps that advance a load: it moves to record r, everything else that the
\* invariant is about follows.

LEMMA Advances ==
  ASSUME Inv, ServerInv, Lives, UnitsFollow, UNCHANGED <<dep, unload, rec>>,
         NEW c \in Calls, NEW r, call' = [call EXCEPT ![c] = r], CallOK(c)',
         r.st \in Early /\ r.row # NoRow =>
           call[c].st \in Early /\ call[c].row # NoRow /\ r.port = call[c].port,
         Withdrawn /\ unload.st \in {"retired", "stopping"} /\ Alive(unload.target)
             /\ unit[unload.port].main = unload.target
             /\ dep[unload.port] = NoRow /\ r.port = unload.port /\ r.row = NoRow =>
           r.st \notin Cleared
  PROVE  ServerInv'
<1>1. call'[c] = r /\ \A d \in Calls \ {c} : call'[d] = call[d]
  BY DEF Inv, TypeOK
<1>2. \A p \in Ports : RowOK(p)' /\ UnitOK(p)'
  BY RowKept, UnitKept DEF ServerInv, UnitsFollow
<1>3. \A p \in Ports : LoadingOK(p)'
  BY <1>1, SamePass, LoadingKept DEF ServerInv
<1>4. \A d \in Calls : CallOK(d)'
  <2>1. ASSUME NEW d \in Calls \ {c} PROVE CallOK(d)'
    BY <1>1, SamePass, CallKept DEF ServerInv, RowFollows
  <2> QED BY <2>1
<1>5. PassOK'
  BY PassKept, SamePass DEF ServerInv
<1>6. UnloadOK'
  <2>1. ASSUME unload.st \in {"retired", "stopping"}, Alive(unload.target), unit[unload.port].main = unload.target,
               dep[unload.port] = NoRow, NEW d \in Calls, call'[d].port = unload.port,
               call'[d].row = NoRow
        PROVE  call'[d].st \notin Cleared
    BY <1>1, <2>1 DEF ServerInv, UnloadOK, Withdrawn
  <2> QED BY <2>1, UnloadKept DEF ServerInv
<1> QED BY <1>2, <1>3, <1>4, <1>5, <1>6 DEF ServerInv

LEMMA ReservedOK ==
  ASSUME NEW c \in Calls, NEW p, NEW l, NEW row, TypeOK,
         call' = [call EXCEPT ![c] = [IdleCall EXCEPT !.st = "reserved", !.port = p, !.lib = l,
                                                      !.row = row]]
  PROVE  /\ call'[c].st = "reserved" /\ call'[c].port = p /\ call'[c].row = row
         /\ call'[c].proc = None
         /\ \A d \in Calls \ {c} : call'[d] = call[d]
BY DEF TypeOK, IdleCall

LEMMA LoadServers ==
  ASSUME Inv, ServerInv, NEW c \in Calls, NEW p \in Ports, NEW l \in Libs, Load(c, p, l)
  PROVE  ServerInv'
<1> DEFINE r == [IdleCall EXCEPT !.st = "reserved", !.port = p, !.lib = l, !.row = NoRow]
<1>1. call' = [call EXCEPT ![c] = r] /\ UNCHANGED <<hostVars, dep, unload, rec>>
  BY DEF Load, Reserve
<1>2. r.st = "reserved" /\ r.row = NoRow /\ r.proc = None
  BY DEF IdleCall
<1>3. call'[c] = r
  BY <1>1 DEF Inv, TypeOK
<1> HIDE DEF r
<1>4. CallOK(c)'
  BY <1>2, <1>3 DEF CallOK, Alive, Trying
<1> QED BY <1>1, <1>2, <1>4, StillLives, Advances DEF Cleared

LEMMA InspectServers ==
  ASSUME Inv, ServerInv, NEW c \in Calls, Inspect(c)
  PROVE  ServerInv'
<1> DEFINE p == call[c].port
           row == dep[p]
           wanted == IF call[c].row = NoRow
                     THEN row = NoRow
                     ELSE row.id = call[c].row.id /\ row.desired = "active"
                            /\ row.lib = call[c].lib
           r == [call[c] EXCEPT !.st = IF wanted THEN "inspected" ELSE "freeing",
                                !.row = IF wanted THEN row ELSE @]
<1>1. call \in [Calls -> CallRecords] /\ call[c] \in CallRecords
  BY DEF Inv, TypeOK
<1>2. UNCHANGED <<hostVars, dep, unload, rec>> /\ call[c].st = "reserved"
  BY DEF Inspect
<1>3. call' = [call EXCEPT ![c] = r]
  BY <1>1 DEF Inspect
<1>4. /\ r.st = (IF wanted THEN "inspected" ELSE "freeing")
      /\ r.row = (IF wanted THEN row ELSE call[c].row)
      /\ r.proc = call[c].proc /\ r.port = p
  BY <1>1 DEF CallRecords
<1>5. call'[c] = r /\ call[c].proc = None
  BY <1>1, <1>2, <1>3 DEF Inv, Ends, Unserved
<1>6. wanted => /\ r.row = NoRow => row = NoRow
                /\ r.row # NoRow => r.row.desired = "active" /\ call[c].row # NoRow
  BY <1>4 DEF NoRow
<1> HIDE DEF r, wanted
<1>7. CASE wanted
  <2>1. CallOK(c)
    BY DEF ServerInv
  <2>2. CallOK(c)'
    BY <1>2, <1>4, <1>5, <1>6, <1>7, <2>1 DEF CallOK, Alive, Trying, Early
  <2> QED BY <1>2, <1>3, <1>4, <1>6, <1>7, <2>2, StillLives, Advances DEF Early, Cleared
<1>8. CASE ~wanted
  <2>1. CallOK(c)'
    BY <1>4, <1>5, <1>8 DEF CallOK, Alive, Trying, Early
  <2> QED BY <1>2, <1>3, <1>4, <1>8, <2>1, StillLives, Advances DEF Early, Cleared
<1> QED BY <1>7, <1>8

\* A port without a listener: its row, if active, names no server that runs.
LEMMA ProbeServers ==
  ASSUME Inv, ServerInv, NEW c \in Calls, Probe(c)
  PROVE  ServerInv'
<1> DEFINE p == call[c].port
           free == Listeners(p) = {}
           r == [call[c] EXCEPT !.st = IF free THEN "clear" ELSE "freeing"]
<1>1. call \in [Calls -> CallRecords] /\ call[c] \in CallRecords
  BY DEF Inv, TypeOK
<1>2. UNCHANGED <<hostVars, dep, unload, rec>> /\ call[c].st = "inspected"
  BY DEF Probe
<1>3. call' = [call EXCEPT ![c] = r]
  BY <1>1 DEF Probe
<1>4. /\ r.st = (IF free THEN "clear" ELSE "freeing") /\ r.row = call[c].row
      /\ r.proc = call[c].proc /\ r.port = p
  BY <1>1 DEF CallRecords
<1>5. call'[c] = r /\ call[c].proc = None /\ p \in Ports
  BY <1>1, <1>2, <1>3 DEF Inv, Ends, Unserved, Holds, InFlight
<1> HIDE DEF r
<1>6. proc \in [Procs -> ProcRecords] /\ dep[p].proc \in Procs \cup {None}
  BY <1>5 DEF Inv, TypeOK, Rows
<1>7. CallOK(c) /\ RowOK(p) /\ LoadingOK(p)
  BY <1>5 DEF ServerInv
<1>8. free /\ dep[p].desired = "active" => ~Alive(dep[p].proc)
  <2> SUFFICES ASSUME free, dep[p].desired = "active", Alive(dep[p].proc) PROVE FALSE
    OBVIOUS
  <2>1. dep[p].proc \in Procs /\ proc[dep[p].proc].port = p
    BY <1>6, <1>7 DEF RowOK, Alive
  <2>2. proc[dep[p].proc].st # "listening"
    BY <2>1 DEF Listeners
  <2>3. Loading(dep[p].proc)
    BY <1>6, <2>1, <2>2 DEF Alive, Loading, ProcRecords
  <2>4. call[c].row = NoRow
    BY <1>2, <1>7, <2>3 DEF LoadingOK, Early
  <2>5. dep[p] = NoRow
    BY <1>2, <1>7, <2>4 DEF CallOK, Trying
  <2> QED BY <2>5 DEF NoRow
<1>9. CallOK(c)'
  <2>1. CASE free
    <3>1. r.st = "clear" BY <1>4, <2>1
    <3>2. ~(dep'[r.port].desired = "active" /\ Alive(dep[p].proc))
      BY <1>2, <1>4, <1>8, <2>1
    <3>3. Alive(dep[p].proc)' => Alive(dep[p].proc)
      BY <1>2, <1>3, <1>4, <1>5 DEF Alive, hostVars
    <3> QED BY <1>2, <1>4, <1>5, <1>7, <3>1, <3>2, <3>3 DEF CallOK, Alive, Trying, Early, hostVars
  <2>2. CASE ~free
    BY <1>4, <1>5, <2>2 DEF CallOK, Alive, Trying, Early
  <2> QED BY <2>1, <2>2
<1>10. ASSUME Withdrawn, unload.st \in {"retired", "stopping"}, Alive(unload.target),
              unit[unload.port].main = unload.target,
              dep[unload.port] = NoRow, r.port = unload.port
       PROVE  r.st \notin Cleared
  <2>1. unload.port = p /\ ~Loading(unload.target)
    BY <1>4, <1>10 DEF Withdrawn, NoRow, Loading
  <2>2. unload.target \in Procs /\ proc[unload.target].port = p
    BY <1>5, <1>10, <2>1 DEF Inv, TypeOK, UnloadRecords, Alive, ServerInv, UnitOK
  <2>3. proc[unload.target].st = "listening"
    BY <1>6, <1>10, <2>1, <2>2 DEF Alive, Loading, ProcRecords
  <2>4. ~free
    BY <2>2, <2>3 DEF Listeners
  <2> QED BY <1>4, <2>4 DEF Cleared
<1> QED BY <1>2, <1>3, <1>4, <1>9, <1>10, StillLives, Advances DEF Early

LEMMA WriteUnitServers ==
  ASSUME Inv, ServerInv, NEW c \in Calls, WriteUnit(c)
  PROVE  ServerInv'
<1> DEFINE r == [call[c] EXCEPT !.st = "written"]
<1>1. call \in [Calls -> CallRecords] /\ call[c] \in CallRecords
  BY DEF Inv, TypeOK
<1>2. /\ UNCHANGED <<proc, dep, unload, rec>> /\ call[c].st = "clear"
      /\ call' = [call EXCEPT ![c] = r]
  BY <1>1 DEF WriteUnit
<1>3. r.st = "written" /\ r.row = call[c].row /\ r.proc = call[c].proc /\ r.port = call[c].port
  BY <1>1 DEF CallRecords
<1>4. CallOK(c) /\ call'[c] = r
  BY <1>1, <1>2 DEF ServerInv
<1> HIDE DEF r
<1>5. Lives /\ UnitsFollow
  BY LoadLives DEF LoadStep
<1>6. CallOK(c)'
  BY <1>2, <1>3, <1>4 DEF CallOK, Alive, Loading, Trying, Early
<1> QED BY <1>2, <1>3, <1>5, <1>6, Advances DEF Early, Withdrawn, Cleared

\* A launch gives the load a new server on its port.
LEMMA LaunchServers ==
  ASSUME Inv, ServerInv, NEW c \in Calls, NEW i \in Procs, Launch(c, i) \/ LaunchPlain(c, i)
  PROVE  ServerInv'
<1>1. call \in [Calls -> CallRecords] /\ call[c] \in CallRecords
  BY DEF Inv, TypeOK
<1>2. UNCHANGED <<dep, unload, rec>> /\ call[c].st \in {"clear", "written"}
  BY DEF Launch, LaunchPlain
<1>3. PICK r : /\ call' = [call EXCEPT ![c] = r]
               /\ r.st = "waiting" /\ r.row = call[c].row /\ r.proc = i /\ r.port = call[c].port
  <2>1. CASE Launch(c, i)
    <3> DEFINE r == [call[c] EXCEPT !.st = "waiting", !.proc = i, !.unit = TRUE]
    <3>1. call' = [call EXCEPT ![c] = r]
      BY <1>1, <2>1 DEF Launch
    <3>2. r.st = "waiting" /\ r.row = call[c].row /\ r.proc = i /\ r.port = call[c].port
      BY <1>1 DEF CallRecords
    <3> QED BY <3>1, <3>2
  <2>2. CASE LaunchPlain(c, i)
    <3> DEFINE r == [call[c] EXCEPT !.st = "waiting", !.proc = i]
    <3>1. call' = [call EXCEPT ![c] = r]
      BY <1>1, <2>2 DEF LaunchPlain
    <3>2. r.st = "waiting" /\ r.row = call[c].row /\ r.proc = i /\ r.port = call[c].port
      BY <1>1 DEF CallRecords
    <3> QED BY <3>1, <3>2
  <2> QED BY <2>1, <2>2
<1>4. proc'[i].port = call[c].port
  <2>1. CASE Launch(c, i)
    BY <2>1 DEF Launch, Restarted, Started
  <2>2. CASE LaunchPlain(c, i)
    BY <2>2 DEF LaunchPlain, Started, Inv, TypeOK
  <2> QED BY <2>1, <2>2
<1>5. Lives /\ UnitsFollow
  BY LoadLives DEF LoadStep, LoadFault
<1>6. CallOK(c) /\ call'[c] = r
  BY <1>1, <1>3 DEF ServerInv
<1>7. CallOK(c)'
  BY <1>2, <1>3, <1>4, <1>6 DEF CallOK, Alive, Trying, Early
<1> QED BY <1>2, <1>3, <1>5, <1>7, Advances DEF Early, Withdrawn, Cleared

LEMMA HealthyServers ==
  ASSUME Inv, ServerInv, NEW c \in Calls, Healthy(c)
  PROVE  ServerInv'
<1> DEFINE r == [call[c] EXCEPT !.st = "ready"]
<1>1. call \in [Calls -> CallRecords] /\ call[c] \in CallRecords
  BY DEF Inv, TypeOK
<1>2. /\ UNCHANGED <<hostVars, dep, unload, rec>> /\ call[c].st = "waiting"
      /\ call' = [call EXCEPT ![c] = r]
  BY <1>1 DEF Healthy
<1>3. r.st = "ready" /\ r.row = call[c].row /\ r.proc = call[c].proc /\ r.port = call[c].port
  BY <1>1 DEF CallRecords
<1>4. CallOK(c) /\ call'[c] = r
  BY <1>1, <1>2 DEF ServerInv
<1> HIDE DEF r
<1>5. call[c].proc \in Procs /\ proc[call[c].proc].st = "listening"
  BY DEF Healthy, Listeners
<1>6. CallOK(c)'
  BY <1>2, <1>3, <1>4, <1>5, NamesAssumption
  DEF CallOK, Alive, Loading, Trying, Early, hostVars
<1> QED BY <1>2, <1>3, <1>6, StillLives, Advances DEF Early, Withdrawn, Cleared

-----------------------------------------------------------------------------
\* The steps that change rows.

LEMMA ActivationServers ==
  ASSUME Inv, ServerInv, NEW c \in Calls, call[c].st = "ready",
         dep' = dep \/ (MayActivate(c) /\ dep' = Activated(c)),
         NEW s \in {"active", "cleaning"}, call' = [call EXCEPT ![c].st = s],
         UNCHANGED <<hostVars, unload, rec>>
  PROVE  ServerInv'
<1> DEFINE p == call[c].port
<1>1. /\ call \in [Calls -> CallRecords] /\ call[c] \in CallRecords /\ dep \in [Ports -> Rows]
      /\ p \in Ports /\ InFlight(c)
  BY DEF Inv, TypeOK, Holds, InFlight
<1>2. /\ call'[c].st = s /\ call'[c].proc = call[c].proc /\ call'[c].port = p
      /\ \A d \in Calls \ {c} : call'[d] = call[d]
  BY <1>1 DEF CallRecords
<1>3. Settles(c)
  BY <1>2 DEF Settles, Early, Trying
<1>4. CASE dep' = dep
  BY <1>2, <1>3, <1>4, StillLives, SamePass, Calm
<1>5. CASE MayActivate(c) /\ dep' = Activated(c)
  <2>1. CallOK(c) /\ RowOK(p)
    BY <1>1 DEF ServerInv
  <2>2. /\ dep'[p].id # None /\ dep'[p].proc = call[c].proc
        /\ \A q \in Ports \ {p} : dep'[q] = dep[q]
        /\ (dep[p] = NoRow /\ call[c].row = NoRow) \/ dep[p].desired = "active"
    <3>1. CASE call[c].row = NoRow
      BY <1>1, <1>5, <2>1, <3>1 DEF Activated, MayActivate, CallOK
    <3>2. CASE call[c].row # NoRow
      <4>1. dep[p] = call[c].row /\ dep[p].desired = "active" /\ dep[p].id # None
        BY <1>5, <2>1, <3>2 DEF MayActivate, CallOK, Trying, RowOK
      <4>2. dep' = [dep EXCEPT ![p].proc = call[c].proc]
        BY <1>5, <3>2 DEF Activated
      <4>3. dep'[p] = [dep[p] EXCEPT !.proc = call[c].proc] /\ dep[p] \in Rows
        BY <1>1, <4>2
      <4>4. dep'[p].id = dep[p].id /\ dep'[p].proc = call[c].proc
        BY <4>3 DEF Rows
      <4> QED BY <1>1, <4>1, <4>2, <4>4
    <3> QED BY <3>1, <3>2
  <2>3. Lives /\ UnitsFollow
    BY StillLives
  <2>4. \A q \in Ports : RowOK(q)' /\ UnitOK(q)'
    <3>1. RowOK(p)'
      BY <2>1, <2>2 DEF RowOK, CallOK, Alive, hostVars
    <3>2. \A q \in Ports \ {p} : RowOK(q)'
      BY <2>2, <2>3, RowKept DEF ServerInv
    <3> QED BY <2>3, <3>1, <3>2, UnitKept DEF ServerInv, UnitsFollow
  <2>5. \A q \in Ports : LoadingOK(q)'
    <3>1. LoadingOK(p)'
      BY <2>1, <2>2 DEF LoadingOK, CallOK, Loading, hostVars
    <3>2. \A q \in Ports \ {p} : LoadingOK(q)'
      BY <1>2, <1>3, <2>2, <2>3, SamePass, LoadingKept DEF ServerInv, Settles
    <3> QED BY <3>1, <3>2
  <2>6. \A d \in Calls : CallOK(d)'
    <3>1. ASSUME NEW d \in Calls \ {c} PROVE CallOK(d)'
      <4>1. InFlight(d) => call[d].port \in Ports \ {p}
        BY <1>1 DEF Inv, Holds
      <4>2. InFlight(d) => RowFollows(call[d].port)
        BY <2>2, <4>1 DEF RowFollows
      <4> QED BY <1>2, <2>3, <4>2, SamePass, CallKept DEF ServerInv
    <3> QED BY <1>3, <2>3, <3>1, CallSettled DEF ServerInv, Settles
  <2>7. PassOK'
    BY <2>3, SamePass, PassKept DEF ServerInv
  <2>8. UnloadOK'
    <3>1. ASSUME unload.st \in {"retired", "stopping"}, Alive(unload.target),
                 unit[unload.port].main = unload.target
          PROVE  /\ unload.port \in Ports \ {p}
                 /\ dep[unload.port] = NoRow =>
                      \A d \in Calls : call'[d].port = unload.port /\ call'[d].row = NoRow =>
                        call'[d].st \notin Cleared
      <4>1. UnloadOK /\ Withdrawn
        BY DEF ServerInv, UnloadOK
      <4>2. unload.port # p
        BY <2>2, <3>1, <4>1 DEF Withdrawn, Cleared
      <4>3. call'[c].st \notin Cleared
        BY <1>2 DEF Cleared
      <4>4. ASSUME NEW d \in Calls, dep[unload.port] = NoRow, call'[d].port = unload.port,
                   call'[d].row = NoRow
            PROVE  call'[d].st \notin Cleared
        BY <1>2, <3>1, <4>1, <4>3, <4>4 DEF Withdrawn
      <4>5. unload.port \in Ports
        BY <3>1, <4>1 DEF UnloadOK, Unloading
      <4> QED BY <4>2, <4>4, <4>5
    <3> QED BY <2>2, <2>3, <3>1, UnloadKept DEF ServerInv
  <2> QED BY <2>4, <2>5, <2>6, <2>7, <2>8 DEF ServerInv
<1> QED BY <1>4, <1>5

LEMMA ActivateServers ==
  ASSUME Inv, ServerInv, NEW c \in Calls, Activate(c) \/ ActivateFails(c)
  PROVE  ServerInv'
<1>1. PICK s \in {"active", "cleaning"} : call' = [call EXCEPT ![c].st = s]
  BY DEF Activate, ActivateFails
<1>2. /\ call[c].st = "ready" /\ UNCHANGED <<hostVars, unload, rec>>
      /\ dep' = dep \/ (MayActivate(c) /\ dep' = Activated(c))
  <2>1. CASE Activate(c)
    BY <2>1 DEF Activate
  <2>2. CASE ActivateFails(c)
    <3>1. dep' \in {dep} \cup (IF MayActivate(c) THEN {Activated(c)} ELSE {})
      BY <2>2 DEF ActivateFails
    <3>2. dep' = dep \/ (MayActivate(c) /\ dep' = Activated(c))
      BY <3>1
    <3> QED BY <2>2, <3>2 DEF ActivateFails
  <2> QED BY <2>1, <2>2
<1> QED BY <1>1, <1>2, ActivationServers

\* Rows that are removed or retired, while the row of a server that is being
\* unloaded and still loads stays.
LEMMA TableServers ==
  ASSUME Inv, ServerInv, UNCHANGED <<loadVars, hostVars>>,
         \A q \in Ports :
           \/ dep'[q] = dep[q]
           \/ dep'[q] = NoRow
           \/ /\ dep[q] # NoRow /\ dep'[q].desired = "retired"
              /\ dep'[q].id = dep[q].id /\ dep'[q].proc = dep[q].proc,
         unload' = unload \/ unload'.st \notin Unloading,
         \A q \in Ports : rec'.rows[q] \in {rec.rows[q], NoRow}, PassFollows,
         \A c \in Calls : StillAwaited(c),
         unload.st \in {"retired", "stopping"} /\ Loading(unload.target)
             /\ dep[unload.port].proc = unload.target =>
           dep'[unload.port].proc = unload.target
  PROVE  ServerInv'
<1>1. Lives /\ UnitsFollow /\ call' = call
  BY StillLives DEF loadVars
<1>2. \A q \in Ports : RowOK(q)' /\ UnitOK(q)'
  BY <1>1, RowKept, UnitKept DEF ServerInv, UnitsFollow
<1>3. \A q \in Ports : LoadingOK(q)'
  <2>1. \A q \in Ports : dep'[q].proc \in {dep[q].proc, None}
    BY DEF NoRow
  <2> QED BY <1>1, <2>1, LoadingKept DEF ServerInv
<1>4. \A c \in Calls : CallOK(c)'
  <2>1. ASSUME NEW c \in Calls, InFlight(c) PROVE RowFollows(call[c].port)
    <3>1. call[c].port \in Ports
      BY <2>1 DEF Inv, Holds
    <3> QED BY <3>1 DEF RowFollows, NoRow
  <2> QED BY <1>1, <2>1, CallKept DEF ServerInv
<1>5. PassOK'
  BY <1>1, PassKept DEF ServerInv
<1>6. UnloadOK'
  <2>1. ASSUME unload.st \in {"retired", "stopping"}, Alive(unload.target),
               unit[unload.port].main = unload.target
        PROVE  /\ dep'[unload.port].desired = "active" => dep[unload.port].desired = "active"
               /\ dep'[unload.port] = NoRow =>
                    \A c \in Calls : call'[c].port = unload.port /\ call'[c].row = NoRow =>
                      call'[c].st \notin Cleared
    <3>1. UnloadOK /\ Withdrawn /\ unload.port \in Ports
      BY <2>1 DEF ServerInv, UnloadOK, Unloading
    <3>2. dep[unload.port] # NoRow =>
            \A c \in Calls : call[c].port = unload.port /\ call[c].row = NoRow =>
              call[c].st \notin Cleared
      BY <3>1 DEF ServerInv, CallOK, Trying, Cleared
    <3> QED BY <1>1, <2>1, <3>1, <3>2 DEF Withdrawn, NoRow
  <2> QED BY <1>1, <2>1, UnloadKept DEF ServerInv
<1> QED BY <1>2, <1>3, <1>4, <1>5, <1>6 DEF ServerInv

LEMMA RetireServers ==
  ASSUME Inv, ServerInv, NEW p \in Ports, Retire(p)
  PROVE  ServerInv'
<1>1. UNCHANGED <<loadVars, hostVars, unload, rec>>
  BY DEF Retire
<1>2. dep \in [Ports -> Rows] /\ dep[p] \in Rows
  BY DEF Inv, TypeOK
<1>3. dep' = [dep EXCEPT ![p].desired = "retired"] /\ dep[p] # NoRow
  BY DEF Retire, NoRow
<1>4. /\ dep'[p].desired = "retired" /\ dep'[p].id = dep[p].id /\ dep'[p].proc = dep[p].proc
      /\ \A q \in Ports \ {p} : dep'[q] = dep[q]
  BY <1>2, <1>3 DEF Rows
<1>5. unload.st \in {"retired", "stopping"} => unload.port \in Ports
  BY DEF ServerInv, UnloadOK, Unloading
<1> QED BY <1>1, <1>3, <1>4, <1>5, SamePass, TableServers

LEMMA DeletedRow ==
  ASSUME TypeOK, NEW p, NEW id, dep' = Deleted(p, id)
  PROVE  \A q \in Ports : dep'[q] = dep[q] \/ (q = p /\ dep'[q] = NoRow)
BY DEF TypeOK, Deleted

LEMMA UnloadDeleteServers ==
  ASSUME Inv, ServerInv, UnloadDelete
  PROVE  ServerInv'
<1>1. /\ UNCHANGED <<loadVars, hostVars, rec>> /\ unload.st = "stopped"
      /\ unload'.st \notin Unloading /\ dep' = Deleted(unload.port, unload.row.id)
  BY DEF UnloadDelete, NoUnload, Unloading
<1>2. \A q \in Ports : dep'[q] = dep[q] \/ dep'[q] = NoRow
  BY <1>1, DeletedRow DEF Inv
<1> QED BY <1>1, <1>2, SamePass, TableServers

\* A pass with one row or process less, or none left.
LEMMA DoneFollows ==
  ASSUME TypeOK, NEW x, rec' = Done(x), rec.wait = None
  PROVE  /\ PassFollows
         /\ \A q \in Ports : rec'.rows[q] \in {rec.rows[q], NoRow}
         /\ \A c \in Calls : StillAwaited(c)
<1>1. \A c \in Calls : StillAwaited(c)
  BY NamesAssumption DEF StillAwaited
<1>2. CASE rec' = NoPass
  BY <1>1, <1>2, NoPassFollows
<1>3. CASE rec' = [rec EXCEPT !.todo = rec.todo \ {x}, !.live = None, !.port = None]
  BY <1>1, <1>3 DEF PassFollows, TypeOK, PassRecords
<1> QED BY <1>2, <1>3 DEF Done

\* A row is removed only in a pass that saw no process on its port, so never that
\* of a server that loads.
LEMMA RemoveServers ==
  ASSUME Inv, ServerInv, NEW p \in Ports, Remove(p)
  PROVE  ServerInv'
<1>1. /\ UNCHANGED <<loadVars, hostVars, unload>> /\ rec' = Done(p)
      /\ dep' = Deleted(p, rec.rows[p].id)
      /\ rec.st = "pass" /\ p \in rec.todo /\ rec.wait = None
  BY DEF Remove, Turn
<1>2. \A q \in Ports : dep'[q] = dep[q] \/ (q = p /\ dep'[q] = NoRow)
  BY <1>1, DeletedRow DEF Inv
<1>3. /\ PassFollows
      /\ \A q \in Ports : rec'.rows[q] \in {rec.rows[q], NoRow}
      /\ \A c \in Calls : StillAwaited(c)
  BY <1>1, DoneFollows DEF Inv
<1>4. ASSUME unload.st \in {"retired", "stopping"}, Loading(unload.target), dep[unload.port].proc = unload.target
      PROVE  dep'[unload.port].proc = unload.target
  <2>1. unload.port \in Ports /\ LoadingOK(p)
    BY <1>4 DEF ServerInv, UnloadOK, Unloading
  <2>2. unload.port # p
    BY <1>1, <1>4, <2>1 DEF LoadingOK
  <2> QED BY <1>2, <1>4, <2>1, <2>2
<1> QED BY <1>1, <1>2, <1>3, <1>4, TableServers

LEMMA RespawnRefusedServers ==
  ASSUME Inv, ServerInv, NEW p \in Ports, RespawnRefused(p)
  PROVE  ServerInv'
<1>1. /\ UNCHANGED <<loadVars, hostVars, dep, unload>> /\ rec' = Done(p) /\ rec.wait = None
  BY DEF RespawnRefused, Turn
<1>2. /\ PassFollows
      /\ \A q \in Ports : rec'.rows[q] \in {rec.rows[q], NoRow}
      /\ \A c \in Calls : StillAwaited(c)
  BY <1>1, DoneFollows DEF Inv
<1> QED BY <1>1, <1>2, StillLives, Calm DEF loadVars

LEMMA UnloadReadServers ==
  ASSUME Inv, ServerInv, NEW p \in Ports, UnloadRead(p)
  PROVE  ServerInv'
<1>1. UNCHANGED <<loadVars, hostVars, dep, rec>> /\ dep[p] # NoRow
  BY DEF UnloadRead
<1>2. RowOK(p)
  BY DEF ServerInv
<1>3. unload' = [st |-> "row", port |-> p, row |-> dep[p], target |-> None]
  BY DEF UnloadRead
<1>4. /\ unload'.st = "row" /\ unload'.port = p /\ unload'.row = dep[p]
  BY <1>3
<1>5. UnloadOK'
  BY <1>1, <1>2, <1>4 DEF UnloadOK, Withdrawn, RowOK, Alive, hostVars, Unloading
<1> QED BY <1>1, <1>5, StillLives, SamePass, CalmRest DEF loadVars

\* The target is a listener of the port, or the process of the row.
LEMMA UnloadFindServers ==
  ASSUME Inv, ServerInv, UnloadFind
  PROVE  ServerInv'
<1> DEFINE p == unload.port
<1>1. UNCHANGED <<loadVars, hostVars, dep, rec>> /\ unload.st = "row"
  BY DEF UnloadFind
<1>2. /\ p \in Ports /\ unload.row.id # None
      /\ Alive(unload.row.proc) => proc[unload.row.proc].port = p
  BY <1>1 DEF ServerInv, UnloadOK, Unloading
<1>3. PICK i : /\ unload' = [unload EXCEPT !.st = "read", !.target = i]
               /\ \/ i \in Listeners(p)
                  \/ i = unload.row.proc
                  \/ i = None
  <2>1. CASE \E i \in Listeners(p) : unload' = [unload EXCEPT !.st = "read", !.target = i]
    BY <2>1
  <2>2. CASE unload' = [unload EXCEPT !.st = "read",
                          !.target = IF Alive(unload.row.proc) THEN unload.row.proc ELSE None]
    BY <2>2
  <2> QED BY <2>1, <2>2 DEF UnloadFind
<1>4. /\ Loading(i) => unload.row.proc = i
      /\ Alive(i) => proc[i].port = p
  BY <1>2, <1>3 DEF Listeners, Loading, Alive
<1>5. unload'.st = "read" /\ unload'.port = p /\ unload'.row = unload.row /\ unload'.target = i
  BY <1>3 DEF Inv, TypeOK, UnloadRecords
<1>6. UnloadOK'
  BY <1>1, <1>2, <1>4, <1>5 DEF UnloadOK, Withdrawn, Loading, Alive, hostVars, Unloading
<1> QED BY <1>1, <1>6, StillLives, SamePass, CalmRest DEF loadVars

\* The unit was seen to run the target: nothing is changed by it.
LEMMA UnloadOwnsServers ==
  ASSUME Inv, ServerInv, UnloadOwns
  PROVE  ServerInv'
<1>1. /\ UNCHANGED <<loadVars, hostVars, dep, rec>> /\ unload.st = "retired"
      /\ Alive(unload.target) /\ unit[unload.port].main = unload.target
      /\ unload' = [unload EXCEPT !.st = "stopping"]
  BY DEF UnloadOwns
<1>2. unload'.st = "stopping" /\ unload'.port = unload.port /\ unload'.target = unload.target
  BY <1>1 DEF Inv, TypeOK, UnloadRecords
<1>3. UnloadOK /\ call' = call /\ proc' = proc /\ unit' = unit
  BY <1>1 DEF ServerInv, loadVars, hostVars
<1>4. Withdrawn'
  BY <1>1, <1>2, <1>3 DEF UnloadOK, Withdrawn, Alive, Loading
<1>5. UnloadOK'
  BY <1>1, <1>2, <1>3, <1>4 DEF UnloadOK, Alive, Unloading
<1> QED BY <1>1, <1>5, StillLives, SamePass, CalmRest DEF loadVars

\* The row is retired before its server is stopped: from here on no row of the
\* port is active while the target runs.
LEMMA UnloadRetireServers ==
  ASSUME Inv, ServerInv, UnloadRetire
  PROVE  ServerInv'
<1>0. PICK p, i : p = unload.port /\ i = unload.target
  OBVIOUS
<1>1. UNCHANGED <<loadVars, hostVars, rec>> /\ unload.st = "read"
  BY DEF UnloadRetire
<1>2. /\ p \in Ports /\ unload.row.id # None
      /\ Loading(i) => unload.row.proc = i
      /\ Alive(i) => proc[i].port = p
  BY <1>0, <1>1 DEF ServerInv, UnloadOK, Unloading
<1>3. /\ dep \in [Ports -> Rows] /\ dep[p] \in Rows /\ unload \in UnloadRecords
      /\ i \in Procs \cup {None}
  BY <1>0, <1>2 DEF Inv, TypeOK, UnloadRecords
<1>4. CASE unload' = NoUnload /\ dep' = dep
  BY <1>1, <1>4, StillLives, SamePass, Calm DEF loadVars, NoUnload, Unloading
<1>5. CASE /\ dep[p].id = unload.row.id /\ dep[p].proc = unload.row.proc
           /\ dep' = [dep EXCEPT ![p].desired = "retired",
                                 ![p].proc = IF i = None THEN @ ELSE i]
           /\ unload' = [unload EXCEPT !.st = "retired"]
  <2>1. dep'[p] = [dep[p] EXCEPT !.desired = "retired", !.proc = IF i = None THEN @ ELSE i]
    BY <1>2, <1>3, <1>5
  <2>2. /\ dep'[p].id = dep[p].id /\ dep'[p].desired = "retired"
        /\ dep'[p].proc = IF i = None THEN dep[p].proc ELSE i
    BY <1>3, <2>1 DEF Rows
  <2>3. \A q \in Ports \ {p} : dep'[q] = dep[q]
    BY <1>2, <1>3, <1>5
  <2>4. dep[p].id # None /\ dep[p] # NoRow /\ RowOK(p) /\ LoadingOK(p)
    BY <1>2, <1>5 DEF NoRow, ServerInv
  <2>5. /\ unload'.st = "retired" /\ unload'.port = p /\ unload'.target = i
    BY <1>0, <1>3, <1>5 DEF UnloadRecords
  <2>6. Lives /\ UnitsFollow /\ call' = call /\ proc' = proc /\ unit' = unit /\ rec' = rec
    BY <1>1, StillLives DEF loadVars, hostVars
  <2>7. \A q \in Ports : RowOK(q)' /\ UnitOK(q)'
    <3>1. RowOK(p)'
      BY <1>2, <2>2, <2>4, <2>6 DEF RowOK, Alive
    <3>2. \A q \in Ports \ {p} : RowOK(q)'
      BY <2>3, <2>6, RowKept DEF ServerInv
    <3> QED BY <2>6, <3>1, <3>2, UnitKept DEF ServerInv, UnitsFollow
  <2>8. \A q \in Ports : LoadingOK(q)'
    <3>1. LoadingOK(p)'
      <4>1. Loading(i) => dep[p].proc = i
        BY <1>2, <1>5
      <4>2. dep'[p].proc # None /\ proc[dep'[p].proc].st = "loading" => Loading(dep[p].proc)
        BY <2>2, <4>1 DEF Loading
      <4> QED BY <2>4, <2>6, <4>2 DEF LoadingOK, Loading
    <3>2. \A q \in Ports \ {p} : LoadingOK(q)'
      BY <2>3, <2>6, SamePass, LoadingKept DEF ServerInv
    <3> QED BY <3>1, <3>2
  <2>9. \A c \in Calls : CallOK(c)'
    <3>1. ASSUME NEW c \in Calls, InFlight(c) PROVE RowFollows(call[c].port)
      <4>1. call[c].port \in Ports
        BY <3>1 DEF Inv, Holds
      <4> QED BY <2>2, <2>3, <2>4, <4>1 DEF RowFollows
    <3> QED BY <2>6, <3>1, SamePass, CallKept DEF ServerInv
  <2>10. PassOK'
    BY <2>6, SamePass, PassKept DEF ServerInv
  <2>11. UnloadOK'
    <3>1. Withdrawn'
      <4>1. dep'[p] # NoRow
        BY <2>2 DEF NoRow
      <4>2. i # None => dep'[p].proc = i
        BY <2>2
      <4> QED BY <2>2, <2>5, <4>1, <4>2 DEF Withdrawn, Loading
    <3> QED BY <1>2, <2>5, <2>6, <3>1 DEF UnloadOK, Alive, Unloading
  <2> QED BY <2>7, <2>8, <2>9, <2>10, <2>11 DEF ServerInv
<1> QED BY <1>0, <1>4, <1>5 DEF UnloadRetire

-----------------------------------------------------------------------------
\* The pass of the reconciler.

\* A pass takes the place of one that nobody waits in, and the row of a server
\* that loads is none of those it will take for missing.
LEMMA PassServers ==
  ASSUME Inv, ServerInv, UNCHANGED <<loadVars, hostVars, dep, unload>>,
         \A c \in Calls : StillAwaited(c), PassOK',
         \A p \in Ports : Loading(dep[p].proc) =>
           (rec'.st = "rows" => p \in rec'.seen) /\ (rec'.st = "pass" => p \notin rec'.todo)
  PROVE  ServerInv'
<1>1. Lives /\ UnitsFollow /\ call' = call /\ proc' = proc
  BY StillLives DEF loadVars, hostVars
<1>2. \A p \in Ports : RowOK(p)' /\ UnitOK(p)'
  BY <1>1, RowKept, UnitKept DEF ServerInv, UnitsFollow
<1>3. \A p \in Ports : LoadingOK(p)'
  BY <1>1 DEF ServerInv, LoadingOK, Loading
<1>4. \A c \in Calls : CallOK(c)'
  BY <1>1, CallKept DEF ServerInv, RowFollows
<1>5. UnloadOK'
  BY <1>1, UnloadKept DEF ServerInv, UnloadOK, Withdrawn
<1> QED BY <1>2, <1>3, <1>4, <1>5 DEF ServerInv

LEMMA BeginServers ==
  ASSUME Inv, ServerInv, Begin
  PROVE  ServerInv'
<1> DEFINE alive == {i \in Procs : Alive(i)}
           seen == {proc[i].port : i \in alive}
<1>1. /\ rec = NoPass /\ rec' = [rec EXCEPT !.st = "rows", !.todo = alive, !.seen = seen]
      /\ UNCHANGED <<loadVars, hostVars, dep, unload>>
  BY DEF Begin
<1>2. /\ rec'.st = "rows" /\ rec'.todo = alive /\ rec'.seen = seen /\ rec'.rows = rec.rows
      /\ rec.wait = None /\ rec'.live = None
  BY <1>1 DEF NoPass
<1>3. \A c \in Calls : StillAwaited(c)
  BY <1>2, NamesAssumption DEF StillAwaited
<1>4. PassOK'
  <2>1. \A p \in Ports : rec'.rows[p].desired = "active" => rec'.rows[p].id # None
    BY <1>2 DEF ServerInv, PassOK
  <2>2. \A i \in Procs : i \in rec'.todo => proc'[i].port \in rec'.seen
    BY <1>1, <1>2 DEF hostVars
  <2> QED BY <1>2, <2>1, <2>2 DEF PassOK, LiveOK
<1>5. ASSUME NEW p \in Ports, Loading(dep[p].proc) PROVE p \in seen
  <2>1. dep[p].proc \in Procs
    BY <1>5 DEF Loading, Inv, TypeOK, Rows
  <2>2. Alive(dep[p].proc) /\ proc[dep[p].proc].port = p
    BY <1>5 DEF Loading, Alive, ServerInv, RowOK
  <2> QED BY <2>1, <2>2
<1> QED BY <1>1, <1>2, <1>3, <1>4, <1>5, PassServers

LEMMA ReadRowsServers ==
  ASSUME Inv, ServerInv, ReadRows
  PROVE  ServerInv'
<1> DEFINE missing == {p \in Ports \ rec.seen : dep[p] # NoRow}
<1>1. rec.st = "rows" /\ UNCHANGED <<loadVars, hostVars, dep, unload>>
  BY DEF ReadRows
<1>2. \A c \in Calls : StillAwaited(c)
  BY <1>1 DEF StillAwaited
<1>3. CASE rec' = NoPass
  BY <1>1, <1>2, <1>3, StillLives, NoPassFollows, Calm DEF loadVars
<1>4. CASE rec' = [NoPass EXCEPT !.st = "pass", !.rows = dep, !.todo = rec.todo \cup missing]
  <2>1. rec'.st = "pass" /\ rec'.rows = dep /\ rec'.todo = rec.todo \cup missing /\ rec'.live = None
    BY <1>4 DEF NoPass
  <2>2. /\ rec.todo \subseteq Procs
        /\ \A i \in Procs : i \in rec.todo /\ Alive(i) => proc[i].port \in rec.seen
    BY <1>1 DEF ServerInv, PassOK
  <2>3. PassOK'
    <3>1. \A p \in Ports : rec'.rows[p].desired = "active" => rec'.rows[p].id # None
      BY <2>1 DEF ServerInv, RowOK, NoRow
    <3>2. ASSUME NEW i \in Procs, i \in rec'.todo, Alive(i)
          PROVE  proc[i].port \notin rec'.todo
      <4>1. i \in rec.todo
        BY <2>1, <3>2, NamesAssumption
      <4>2. proc[i].port \in rec.seen /\ proc[i].port \in Ports \cup {None}
        BY <2>2, <3>2, <4>1 DEF Inv, TypeOK, ProcRecords
      <4> QED BY <2>1, <2>2, <4>2, NamesAssumption
    <3> QED BY <1>1, <2>1, <3>1, <3>2 DEF PassOK, LiveOK, Alive, hostVars
  <2>4. ASSUME NEW p \in Ports, Loading(dep[p].proc) PROVE p \notin rec'.todo
    <3>1. p \in rec.seen
      BY <1>1, <2>4 DEF ServerInv, LoadingOK
    <3> QED BY <2>1, <2>2, <3>1, NamesAssumption
  <2> QED BY <1>1, <1>2, <2>1, <2>3, <2>4, PassServers
<1> QED BY <1>3, <1>4 DEF ReadRows

\* A process that is the row's is taken in hand, one that is not is left alone.
LEMMA AuthenticateServers ==
  ASSUME Inv, ServerInv, NEW i \in Procs, Authenticate(i)
  PROVE  ServerInv'
<1> DEFINE p == proc[i].port
           row == rec.rows[p]
<1>1. /\ UNCHANGED <<loadVars, hostVars, dep, unload>>
      /\ rec.st = "pass" /\ i \in rec.todo /\ rec.wait = None
  BY DEF Authenticate
<1>2. CASE rec' = Done(i)
  BY <1>1, <1>2, DoneFollows, StillLives, Calm DEF loadVars, Inv
<1>3. CASE /\ Alive(i) /\ row.desired = "active" /\ Authentic(p, row, i)
           /\ rec' = [rec EXCEPT !.live = i, !.port = p]
  <2>1. /\ rec'.live = i /\ rec'.port = p /\ rec'.rows = rec.rows /\ rec'.st = "pass"
        /\ rec'.todo = rec.todo /\ rec'.wait = None /\ rec'.seen = rec.seen
    BY <1>1, <1>3 DEF Inv, TypeOK, PassRecords
  <2>2. PassOK /\ p \notin rec.todo
    BY <1>1, <1>3 DEF ServerInv, PassOK
  <2>3. row.proc = i \/ unit[p].main = i
    BY <1>3 DEF Authentic, UnitOwns
  <2>4. LiveOK'
    BY <1>1, <1>3, <2>1, <2>2, <2>3 DEF LiveOK, Alive, hostVars
  <2>5. PassOK'
    BY <1>1, <2>1, <2>2, <2>4 DEF PassOK, Alive, hostVars
  <2>6. \A c \in Calls : StillAwaited(c)
    BY <1>1, NamesAssumption DEF StillAwaited
  <2>7. \A q \in Ports : Loading(dep[q].proc) => q \notin rec'.todo
    BY <1>1, <2>1 DEF ServerInv, LoadingOK
  <2> QED BY <1>1, <2>1, <2>5, <2>6, <2>7, PassServers
<1> QED BY <1>2, <1>3 DEF Authenticate

\* A row that the pass read is given the process that the pass has in hand.
LEMMA RefreshServers ==
  ASSUME Inv, ServerInv, Refresh
  PROVE  ServerInv'
<1>0. PICK p, i : p = rec.port /\ i = rec.live
  OBVIOUS
<1> DEFINE row == rec.rows[p]
<1>1. /\ UNCHANGED <<loadVars, hostVars, unload>> /\ rec' = Done(i) /\ i # None
      /\ rec.st = "pass" /\ i \in rec.todo /\ rec.wait = None
      /\ p \notin rec.todo /\ (Alive(i) => proc[i].port = p)
      /\ p \in Ports => /\ row.desired = "active"
                        /\ row.proc \in {i, None} \/ unit[p].main # row.proc
  BY <1>0 DEF Refresh, ServerInv, PassOK, LiveOK
<1>2. /\ PassFollows
      /\ \A q \in Ports : rec'.rows[q] \in {rec.rows[q], NoRow}
      /\ \A c \in Calls : StillAwaited(c)
  BY <1>1, DoneFollows DEF Inv
<1>3. Lives /\ UnitsFollow /\ call' = call /\ proc' = proc
  BY <1>1, StillLives DEF loadVars, hostVars
<1>4. CASE dep' = dep
  BY <1>1, <1>2, <1>3, <1>4, Calm
<1>5. CASE dep' # dep
  <2>1. /\ dep[p].id = row.id /\ dep[p].proc = row.proc
        /\ dep' = [dep EXCEPT ![p].proc = i]
    BY <1>0, <1>5 DEF Refresh
  <2>2. dep \in [Ports -> Rows]
    BY DEF Inv, TypeOK
  <2>3. p \in Ports
    BY <1>5, <2>1, <2>2
  <2>4. dep'[p] = [dep[p] EXCEPT !.proc = i] /\ dep[p] \in Rows
    BY <2>1, <2>2, <2>3
  <2>5. /\ dep'[p].id = dep[p].id /\ dep'[p].desired = dep[p].desired /\ dep'[p].proc = i
        /\ \A q \in Ports \ {p} : dep'[q] = dep[q]
    BY <2>1, <2>2, <2>4 DEF Rows
  <2>6. dep[p].id # None /\ dep[p] # NoRow /\ dep'[p] # NoRow
    BY <1>1, <2>1, <2>3, <2>5 DEF ServerInv, PassOK, NoRow
  <2>7. \A q \in Ports : RowOK(q)' /\ UnitOK(q)'
    <3>1. RowOK(p)'
      BY <1>1, <1>3, <2>5, <2>6 DEF RowOK, Alive
    <3>2. \A q \in Ports \ {p} : RowOK(q)'
      BY <1>3, <2>5, RowKept DEF ServerInv
    <3> QED BY <1>3, <3>1, <3>2, UnitKept DEF ServerInv, UnitsFollow
  <2>8. \A c \in Calls : call[c].st \in Early => call[c].row = NoRow
    BY <1>1, NamesAssumption DEF ServerInv, CallOK
  <2>9. \A q \in Ports : LoadingOK(q)'
    <3>1. LoadingOK(p)'
      <4>1. rec'.st # "rows" /\ (rec'.st = "pass" => p \notin rec'.todo)
        BY <1>1, <1>2 DEF PassFollows
      <4> QED BY <1>3, <2>8, <4>1 DEF LoadingOK
    <3>2. \A q \in Ports \ {p} : LoadingOK(q)'
      BY <1>2, <1>3, <2>5, LoadingKept DEF ServerInv
    <3> QED BY <3>1, <3>2
  <2>10. \A c \in Calls : CallOK(c)'
    <3> SUFFICES ASSUME NEW c \in Calls PROVE CallOK(c)'
      OBVIOUS
    <3>1. CASE ~InFlight(c) \/ call[c].port # p
      <4>1. InFlight(c) => RowFollows(call[c].port)
        BY <2>5, <3>1 DEF RowFollows, Inv, Holds
      <4> QED BY <1>2, <1>3, <4>1, CallKept DEF ServerInv
    <3>2. CASE InFlight(c) /\ call[c].port = p
      <4>1. CallOK(c)
        BY DEF ServerInv
      <4>2. call[c].st \in Trying => call[c].row # NoRow
        BY <2>6, <3>2, <4>1 DEF CallOK
      <4>3. call[c].st \notin {"inspected", "clear", "written"}
        BY <2>8, <4>2 DEF Early, Trying
      <4> QED BY <1>3, <2>8, <4>1, <4>2, <4>3 DEF CallOK, Alive, Loading, Early, Trying
    <3> QED BY <3>1, <3>2
  <2>11. PassOK'
    BY <1>2, <1>3, PassKept DEF ServerInv
  <2>12. UnloadOK'
    <3>1. ASSUME unload.st \in {"retired", "stopping"}, Alive(unload.target),
                 unit[unload.port].main = unload.target
          PROVE  /\ dep'[unload.port].desired = "active" => dep[unload.port].desired = "active"
                 /\ dep[unload.port].proc = unload.target =>
                      dep'[unload.port].proc = unload.target
                 /\ dep'[unload.port] = NoRow =>
                      \A c \in Calls : call'[c].port = unload.port /\ call'[c].row = NoRow =>
                        call'[c].st \notin Cleared
      <4>1. UnloadOK /\ Withdrawn /\ unload.port \in Ports
        BY <3>1 DEF ServerInv, UnloadOK, Unloading
      <4>2. CASE unload.port # p
        BY <1>3, <2>5, <3>1, <4>1, <4>2 DEF Withdrawn
      <4>3. CASE unload.port = p
        <5>1. dep[p].proc = unload.target => i = unload.target
          BY <1>1, <2>1, <2>3, <3>1, <4>3 DEF Alive
        <5> QED BY <2>5, <2>6, <4>3, <5>1
      <4> QED BY <4>2, <4>3
    <3> QED BY <1>1, <1>3, <3>1, UnloadKept DEF ServerInv
  <2> QED BY <2>7, <2>9, <2>10, <2>11, <2>12 DEF ServerInv
<1> QED BY <1>4, <1>5

\* The pass waits for the load of the row that it respawns.
LEMMA RespawnServers ==
  ASSUME Inv, ServerInv, NEW p \in Ports, NEW c \in Calls, Respawn(p, c)
  PROVE  ServerInv'
<1>1. /\ UNCHANGED <<hostVars, dep, unload>> /\ rec.st = "pass" /\ p \in rec.todo
      /\ rec.wait = None /\ rec' = [rec EXCEPT !.todo = rec.todo \ {p}, !.wait = c]
  BY DEF Respawn, Turn
<1>2. /\ rec'.st = "pass" /\ rec'.wait = c /\ rec'.todo = rec.todo \ {p}
      /\ rec'.rows = rec.rows /\ rec'.seen = rec.seen
  BY <1>1 DEF Inv, TypeOK, PassRecords
<1>3. /\ call'[c].st = "reserved" /\ call'[c].port = p /\ call'[c].proc = None
      /\ \A d \in Calls \ {c} : call'[d] = call[d]
  BY ReservedOK DEF Respawn, Reserve, Inv
<1>4. Lives /\ UnitsFollow /\ PassFollows /\ \A d \in Calls \ {c} : StillAwaited(d)
  <2>1. rec.live = None
    BY DEF Respawn, Turn, ServerInv, PassOK, LiveOK, Inv, TypeOK, PassRecords
  <2>2. rec'.live = None
    BY <1>1, <2>1 DEF Inv, TypeOK, PassRecords
  <2> QED BY <1>1, <1>2, <2>2, StillLives, NamesAssumption DEF PassFollows, StillAwaited
<1>5. \A q \in Ports : RowOK(q)' /\ UnitOK(q)'
  BY <1>1, <1>4, RowKept, UnitKept DEF ServerInv, UnitsFollow
<1>6. \A q \in Ports : LoadingOK(q)'
  <2>1. LoadingOK(p)'
    <3>1. ~Loading(dep[p].proc)
      BY <1>1 DEF ServerInv, LoadingOK
    <3> QED BY <1>1, <3>1 DEF LoadingOK, Loading, hostVars
  <2>2. \A q \in Ports \ {p} : LoadingOK(q)'
    BY <1>1, <1>3, <1>4, LoadingKept DEF ServerInv
  <2> QED BY <2>1, <2>2
<1>7. \A d \in Calls : CallOK(d)'
  <2>1. CallOK(c)'
    BY <1>2, <1>3 DEF CallOK, Alive, Trying
  <2>2. \A d \in Calls \ {c} : CallOK(d)'
    BY <1>1, <1>3, <1>4, CallKept DEF ServerInv, RowFollows
  <2> QED BY <2>1, <2>2
<1>8. PassOK'
  BY <1>2, <1>4, PassKept DEF ServerInv
<1>9. UnloadOK'
  BY <1>1, <1>3, <1>4, UnloadKept DEF ServerInv, UnloadOK, Withdrawn, Cleared
<1> QED BY <1>5, <1>6, <1>7, <1>8, <1>9 DEF ServerInv

-----------------------------------------------------------------------------
\* The invariant, and the theorem.

LEMMA ServerInit == Init => ServerInv
<1> SUFFICES ASSUME Init PROVE ServerInv
  OBVIOUS
<1>1. \A p \in Ports : RowOK(p) /\ LoadingOK(p) /\ UnitOK(p)
  BY DEF Init, RowOK, LoadingOK, UnitOK, Alive, Loading, NoRow
<1>2. \A c \in Calls : CallOK(c)
  BY DEF Init, CallOK, Alive, IdleCall, Early, Trying
<1>3. PassOK
  BY DEF Init, PassOK, LiveOK, NoPass, NoRow
<1>4. UnloadOK
  BY DEF Init, UnloadOK, Withdrawn, NoUnload, Unloading
<1> QED BY <1>1, <1>2, <1>3, <1>4 DEF ServerInv

LEMMA ServerNext == Inv /\ ServerInv /\ [Next]_vars => ServerInv'
<1> SUFFICES ASSUME Inv, ServerInv, [Next]_vars PROVE ServerInv'
  OBVIOUS
<1>1. ASSUME NEW c \in Calls, LoadStep(c) \/ LoadFault(c) PROVE ServerInv'
  BY <1>1, InspectServers, ProbeServers, WriteUnitServers, LaunchServers, HealthyServers,
     ActivateServers, EndServers DEF LoadStep, LoadFault
<1>2. CASE HostStep
  BY <1>2, HostServers
<1>3. CASE UnloadStep \/ UnloadCrash
  BY <1>3, UnloadFindServers, UnloadRetireServers, UnloadOwnsServers, UnloadEndServers,
     UnloadDeleteServers DEF UnloadStep
<1>4. CASE Operator
  BY <1>4, UnloadReadServers, RetireServers, LoadServers DEF Operator
<1>5. CASE Reconcile
  BY <1>5, BeginServers, ReadRowsServers, AuthenticateServers, RefreshServers,
     RemoveServers, RespawnRefusedServers, RespawnServers DEF Reconcile
<1>6. CASE Tick
  BY <1>6, TickServers
<1>7. CASE UNCHANGED vars
  BY <1>7, StillLives, SamePass, Calm DEF vars, loadVars
<1> QED BY <1>1, <1>2, <1>3, <1>4, <1>5, <1>6, <1>7 DEF Next

\* Who ends a server that listens and that an active row names.
LEMMA ActiveStep ==
  ASSUME Inv, ServerInv, Next, NEW p \in Ports, dep[p].desired = "active", dep[p].proc # None,
         proc[dep[p].proc].st = "listening", proc'[dep[p].proc].st = "dead"
  PROVE  \/ Die(dep[p].proc) \/ Overtaken(p, dep[p].proc)
         \/ \E c \in Calls : call[c].proc = dep[p].proc /\ call[c].st \in {"cleaning", "stopping"}
<1>0. PICK i : i = dep[p].proc
  OBVIOUS
<1>1. /\ i \in Procs /\ proc \in [Procs -> ProcRecords] /\ proc[i].port = p
      /\ proc[i].st = "listening" /\ proc'[i].st = "dead" /\ Alive(i)
  BY <1>0 DEF Inv, TypeOK, Rows, ServerInv, RowOK, Alive
<1>2. CASE HostStep
  <2>1. PICK j \in Procs : Bind(j) \/ Die(j) \/ \E q \in Ports : UnitRestart(q, j)
    BY <1>2 DEF HostStep
  <2>2. ~Bind(j)
    BY <1>1 DEF Bind, DeadProc
  <2>3. ASSUME NEW q \in Ports PROVE ~UnitRestart(q, j)
    BY <1>1 DEF UnitRestart, Started
  <2>4. Die(j) /\ j = i
    BY <1>1, <2>1, <2>2, <2>3 DEF Die
  <2> QED BY <1>0, <2>4
<1>3. \A q \in Ports : unit[q].main = i => q = p
  BY <1>1 DEF ServerInv, UnitOK
<1>4. ASSUME NEW c \in Calls, LoadStep(c) \/ LoadFault(c)
      PROVE  Overtaken(p, i) \/ (call[c].proc = i /\ call[c].st \in {"cleaning", "stopping"})
  <2>1. InFlight(c) => call[c].port \in Ports
    BY DEF Inv, Holds
  <2>2. ASSUME call[c].st \in {"clear", "written"}, unit[call[c].port].main = i PROVE FALSE
    <3>1. call[c].port = p
      BY <1>3, <2>1, <2>2 DEF InFlight
    <3> QED BY <1>0, <1>1, <2>2, <3>1 DEF ServerInv, CallOK
  <2>3. ASSUME NEW j \in Procs, Launch(c, j) PROVE FALSE
    BY <1>1, <2>2, <2>3 DEF Launch, Restarted, Started
  <2>4. ASSUME NEW j \in Procs, LaunchPlain(c, j) \/ LaunchKept(c, j) PROVE FALSE
    BY <1>1, <2>2, <2>4 DEF LaunchPlain, LaunchKept, Started
  <2>5. ~LaunchLost(c)
    BY <1>1, <2>2, NamesAssumption DEF LaunchLost, StopUnit, hostVars
  <2>6. ~Cancel(c)
    <3>1. ASSUME NEW j \in Procs, call[c].st = "written", Restarted(call[c].port, j) PROVE FALSE
      BY <1>1, <2>2, <3>1 DEF Restarted, Started
    <3> QED BY <1>1, <3>1 DEF Cancel, hostVars
  <2>7. CASE Cleanup(c)
    BY <1>1, <2>7 DEF Cleanup
  <2>8. CASE CleanupStop(c)
    <3>1. call[c].st = "stopping" /\ i \in {call[c].proc, unit[call[c].port].main}
      BY <1>1, <2>8 DEF CleanupStop, StopUnit
    <3>2. CASE call[c].proc # i
      <4>1. call[c].port = p
        BY <1>3, <2>1, <3>1, <3>2 DEF InFlight
      <4> QED BY <3>1, <3>2, <4>1 DEF Overtaken
    <3> QED BY <3>1, <3>2
  <2>9. proc' # proc
    BY <1>1
  <2>10. Cleanup(c) \/ CleanupStop(c)
    BY <1>4, <2>3, <2>4, <2>5, <2>6, <2>9 DEF LoadStep, LoadFault, Inspect, Probe, WriteUnit,
       Healthy, StartupFails, Activate, CleanupOwns, Release, StartupTimesOut, ActivateFails,
       CleanupFails, ReleaseFails, Crash, hostVars
  <2> QED BY <2>7, <2>8, <2>10
<1>5. ASSUME UnloadStop PROVE Overtaken(p, i)
  <2>1. unload.st = "stopping" /\ i \in {unload.target, unit[unload.port].main}
    BY <1>1, <1>5 DEF UnloadStop, StopUnit
  <2>2. UnloadOK /\ Withdrawn /\ unload.port \in Ports
    BY <2>1 DEF ServerInv, UnloadOK, Unloading
  <2>3. CASE unload.target = i
    <3>1. unload.port = p /\ unit[unload.port].main = i
      BY <1>1, <2>1, <2>2, <2>3 DEF UnloadOK
    <3> QED BY <1>0, <1>1, <2>1, <2>2, <2>3, <3>1 DEF Withdrawn
  <2>4. CASE unload.target # i
    <3>1. unload.port = p
      BY <1>3, <2>1, <2>2, <2>4
    <3> QED BY <2>1, <2>4, <3>1 DEF Overtaken
  <2> QED BY <2>3, <2>4
<1>6. CASE (UnloadStep /\ ~UnloadStop) \/ UnloadCrash \/ Operator \/ Reconcile \/ Tick
  <2>1. UNCHANGED hostVars
    BY <1>6 DEF UnloadStep, UnloadFind, UnloadRefused, UnloadRetire, UnloadGone, UnloadOwns,
       UnloadFails, UnloadDelete, UnloadCrash, Operator, UnloadRead, Retire, Load, Reconcile,
       Begin, ReadRows, Authenticate, Refresh, Remove, RespawnRefused, Respawn, Tick
  <2> QED BY <1>1, <2>1 DEF hostVars
<1> QED BY <1>0, <1>2, <1>4, <1>5, <1>6 DEF Next

\* For any ports, libraries, loads and incarnations: no load, unit restart, unload
\* or pass of the reconciler stops a server that listens and that an active row
\* names, however old the lists and rows are that it acts on.
THEOREM ActiveServersUntouched == Spec => ActiveUntouched
<1>1. Spec => []ServerInv
  BY ServerInit, ServerNext, InvHolds, PTL DEF Spec
<1>2. Inv /\ ServerInv /\ [Next]_vars =>
        [\A p \in Ports : LET i == dep[p].proc IN
           /\ dep[p].desired = "active" /\ i # None
           /\ proc[i].st = "listening" /\ proc'[i].st = "dead"
           => \/ Die(i) \/ Overtaken(p, i)
              \/ \E c \in Calls : call[c].proc = i /\ call[c].st \in {"cleaning", "stopping"}]_vars
  BY ActiveStep
<1> QED BY <1>1, <1>2, InvHolds, PTL DEF Spec, ActiveUntouched
=============================================================================
