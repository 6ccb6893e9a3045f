--------------------------- MODULE ModelLoadProofs ---------------------------
(***************************************************************************)
(* Theorems about model loads for any ports, libraries, tokens and         *)
(* incarnations, any health wait and any margin larger than the time a     *)
(* load spends outside it: types and clocks, no two loads on one port or   *)
(* of one library, and the fence around a server that was started.         *)
(***************************************************************************)
EXTENDS ModelLoad, TLAPS

\* Outside its health wait a load that is under way has spent at most Slack.
Times == \A c \in Calls : InFlight(c) => age[c] - waited[c] \in 0 .. Slack

\* A load that is under way holds the reservations of its port and library.
Holds ==
  \A c \in Calls : InFlight(c) =>
    /\ call[c].port \in Ports /\ resv[call[c].port] = c
    /\ call[c].lib \in Libs /\ resv[call[c].lib] = c

\* A desired row has a library, so a respawn reserves one.
RowsWhole ==
  \A p \in Ports :
    /\ dep[p].desired = "active" => dep[p].lib \in Libs
    /\ rec.rows[p].desired = "active" => rec.rows[p].lib \in Libs

\* A load that has not launched yet or has ended names no server, and one that
\* is about to release its reservations names none that runs.
Unserved == {"idle", "reserved", "inspected", "clear", "written", "over"}

Ends ==
  \A c \in Calls :
    /\ call[c].st \in Unserved => call[c].proc = None
    /\ call[c].st = "freeing" => ~Alive(call[c].proc)

Inv == TypeOK /\ Times /\ Holds /\ RowsWhole /\ Ends

-----------------------------------------------------------------------------
\* What leaves the parts of the invariant alone.

\* Clocks and holdings survive a step that leaves the reservations and clocks
\* alone and starts no load.
LEMMA LoadsKept ==
  ASSUME Times, Holds, UNCHANGED <<resv, age, waited>>,
         \A c \in Calls : InFlight(c)' =>
           InFlight(c) /\ call'[c].port = call[c].port /\ call'[c].lib = call[c].lib
  PROVE  Times' /\ Holds'
<1>1. Times' BY DEF Times
<1>2. Holds' BY DEF Holds
<1> QED BY <1>1, <1>2

\* The ends survive a step that leaves the loads alone and revives no process
\* that a load names.
LEMMA EndsKept ==
  ASSUME Ends, UNCHANGED call,
         \A c \in Calls : Alive(call[c].proc)' => Alive(call[c].proc)
  PROVE  Ends'
BY DEF Ends

LEMMA RowsKept ==
  ASSUME RowsWhole, UNCHANGED <<dep, rec>>
  PROVE  RowsWhole'
BY DEF RowsWhole

\* A new incarnation is one of Procs that no load names.
LEMMA FreshIsUnnamed ==
  ASSUME NEW i, Fresh(i)
  PROVE  i \in Procs /\ \A c \in Calls : call[c].proc # i
BY DEF Fresh, Unused, Named

\* The empty records have their types.
LEMMA EmptyTypes ==
  /\ NoRow \in Rows /\ IdleCall \in CallRecords /\ NoUnload \in UnloadRecords
  /\ NoPass \in PassRecords /\ DeadProc \in ProcRecords
<1>1. NoRow \in Rows BY DEF NoRow, Rows
<1>2. IdleCall \in CallRecords BY <1>1 DEF IdleCall, CallRecords, CallStates
<1>3. NoUnload \in UnloadRecords BY <1>1 DEF NoUnload, UnloadRecords
<1>4. NoPass \in PassRecords BY <1>1 DEF NoPass, PassRecords
<1>5. DeadProc \in ProcRecords BY DEF DeadProc, ProcRecords
<1> QED BY <1>1, <1>2, <1>3, <1>4, <1>5

\* After a row of the pass was handled the pass has its type, and the rows it
\* read are unchanged or gone.
LEMMA DoneType ==
  ASSUME TypeOK, NEW x
  PROVE  /\ Done(x) \in PassRecords
         /\ Done(x).rows \in {rec.rows, [p \in Ports |-> NoRow]}
<1>1. CASE rec.todo \ {x} = {} /\ rec.wait = None
  BY <1>1, EmptyTypes DEF Done, NoPass
<1>2. CASE ~(rec.todo \ {x} = {} /\ rec.wait = None)
  BY <1>2 DEF Done, TypeOK, PassRecords
<1> QED BY <1>1, <1>2

\* The same after a load returned to the pass.
LEMMA ReturnType ==
  ASSUME TypeOK, NEW c, Return(c)
  PROVE  rec' \in PassRecords /\ rec'.rows \in {rec.rows, [p \in Ports |-> NoRow]}
<1>1. CASE rec' = NoPass
  BY <1>1, EmptyTypes DEF NoPass
<1>2. CASE rec' # NoPass
  BY <1>2 DEF Return, TypeOK, PassRecords
<1> QED BY <1>1, <1>2

\* Rows survive a step that leaves the table alone and the pass's rows alone or
\* forgotten.
LEMMA PassRowsKept ==
  ASSUME RowsWhole, UNCHANGED dep,
         rec'.rows \in {rec.rows, [p \in Ports |-> NoRow]}
  PROVE  RowsWhole'
<1>1. \A p \in Ports : rec'.rows[p] = rec.rows[p] \/ rec'.rows[p] = NoRow
  OBVIOUS
<1> QED BY <1>1 DEF RowsWhole, NoRow


-----------------------------------------------------------------------------
\* The host.

LEMMA BindKeeps ==
  ASSUME Inv, NEW i \in Procs, Bind(i)
  PROVE  Inv'
<1> USE DEF Inv, Bind
<1>1. proc' \in [Procs -> ProcRecords]
  BY EmptyTypes DEF TypeOK, ProcRecords
<1>2. TypeOK'
  BY <1>1 DEF TypeOK, loadVars, countVars
<1>3. Times' /\ Holds'
  BY LoadsKept DEF loadVars, InFlight
<1>4. RowsWhole'
  BY RowsKept
<1>5. \A j \in Procs : proc'[j].st # "dead" => proc[j].st # "dead"
  BY DEF TypeOK, ProcRecords
<1>6. Ends'
  BY <1>5, EndsKept DEF loadVars, Alive, TypeOK, CallRecords
<1> QED BY <1>2, <1>3, <1>4, <1>6

LEMMA DieKeeps ==
  ASSUME Inv, NEW i \in Procs, Die(i)
  PROVE  Inv'
<1> USE DEF Inv, Die
<1>1. proc' \in [Procs -> ProcRecords]
  BY EmptyTypes DEF TypeOK
<1>2. TypeOK'
  BY <1>1, TimesAssumption DEF TypeOK, loadVars, Event
<1>3. Times' /\ Holds'
  BY LoadsKept DEF loadVars, InFlight
<1>4. RowsWhole'
  BY RowsKept
<1>5. \A j \in Procs : proc'[j].st # "dead" => proc[j].st # "dead"
  BY DEF TypeOK, DeadProc
<1>6. Ends'
  BY <1>5, EndsKept DEF loadVars, Alive, TypeOK, CallRecords
<1> QED BY <1>2, <1>3, <1>4, <1>6

LEMMA UnitRestartKeeps ==
  ASSUME Inv, NEW p \in Ports, NEW i \in Procs, UnitRestart(p, i)
  PROVE  Inv'
<1> USE DEF Inv, UnitRestart
<1>1. proc' \in [Procs -> ProcRecords]
  BY DEF TypeOK, UnitRecords, ProcRecords, Started
<1>2. unit' \in [Ports -> UnitRecords]
  BY DEF TypeOK, UnitRecords
<1>3. TypeOK'
  BY <1>1, <1>2 DEF TypeOK, loadVars, countVars
<1>4. Times' /\ Holds'
  BY LoadsKept DEF loadVars, InFlight
<1>5. RowsWhole'
  BY RowsKept
<1>6. \A j \in Procs \ {i} : proc'[j] = proc[j]
  BY DEF TypeOK
<1>7. Ends'
  BY <1>6, FreshIsUnnamed, EndsKept DEF loadVars, Alive, TypeOK, CallRecords
<1> QED BY <1>3, <1>4, <1>5, <1>7

-----------------------------------------------------------------------------
\* Loads.

\* A reservation starts a load that holds what it reserved.
LEMMA ReserveKeeps ==
  ASSUME TypeOK, Times, Holds, Ends,
         NEW c \in Calls, NEW p \in Ports, NEW l \in Libs, NEW row \in Rows,
         Reserve(c, p, l, row), UNCHANGED proc
  PROVE  /\ resv' \in [Resources -> Calls \cup {None}] /\ call' \in [Calls -> CallRecords]
         /\ age' \in [Calls -> 0 .. StartupTimeout + TtlMargin]
         /\ waited' \in [Calls -> 0 .. StartupTimeout]
         /\ Times' /\ Holds' /\ Ends'
<1> DEFINE new == [IdleCall EXCEPT !.st = "reserved", !.port = p, !.lib = l, !.row = row]
<1> USE DEF Reserve
<1>1. /\ new \in CallRecords
      /\ new.st = "reserved" /\ new.port = p /\ new.lib = l /\ new.proc = None
  BY EmptyTypes DEF IdleCall, CallRecords, CallStates
<1>2. call' = [call EXCEPT ![c] = new]
  OBVIOUS
<1> HIDE DEF new
<1>3. resv' \in [Resources -> Calls \cup {None}]
  BY DEF TypeOK
<1>4. call' \in [Calls -> CallRecords]
  BY <1>1, <1>2 DEF TypeOK
<1>5. age' \in [Calls -> 0 .. StartupTimeout + TtlMargin]
  BY TimesAssumption DEF TypeOK
<1>6. waited' \in [Calls -> 0 .. StartupTimeout]
  BY TimesAssumption DEF TypeOK
<1>7. call'[c] = new /\ \A d \in Calls \ {c} : call'[d] = call[d]
  BY <1>2 DEF TypeOK
<1>8. Times'
  BY <1>7, TimesAssumption DEF Times, InFlight, TypeOK
<1>9. /\ resv'[p] = c /\ resv'[l] = c
      /\ \A r \in Resources : resv[r] # None => resv'[r] = resv[r]
  BY DEF TypeOK, Free, Resources
<1>10. ASSUME NEW d \in Calls \ {c}, InFlight(d)
       PROVE  /\ call'[d].port \in Ports /\ resv'[call'[d].port] = d
              /\ call'[d].lib \in Libs /\ resv'[call'[d].lib] = d
  <2>1. /\ call[d].port \in Ports /\ resv[call[d].port] = d
        /\ call[d].lib \in Libs /\ resv[call[d].lib] = d
    BY <1>10 DEF Holds
  <2>2. resv[call[d].port] # None /\ resv[call[d].lib] # None
    BY <2>1, NamesAssumption
  <2> QED BY <1>7, <1>9, <2>1, <2>2 DEF Resources
<1>11. ASSUME NEW d \in Calls, InFlight(d)'
       PROVE  /\ call'[d].port \in Ports /\ resv'[call'[d].port] = d
              /\ call'[d].lib \in Libs /\ resv'[call'[d].lib] = d
  <2>1. CASE d = c BY <2>1, <1>1, <1>7, <1>9
  <2>2. CASE d # c BY <2>2, <1>7, <1>10, <1>11 DEF InFlight
  <2> QED BY <2>1, <2>2
<1>12. Holds'
  BY <1>11 DEF Holds
<1>13. Ends'
  BY <1>1, <1>7 DEF Ends, Unserved, Alive
<1> QED BY <1>3, <1>4, <1>5, <1>6, <1>8, <1>12, <1>13

LEMMA LoadKeeps ==
  ASSUME Inv, NEW c \in Calls, NEW p \in Ports, NEW l \in Libs, Load(c, p, l)
  PROVE  Inv'
<1> USE DEF Inv, Load
<1>1. /\ resv' \in [Resources -> Calls \cup {None}] /\ call' \in [Calls -> CallRecords]
      /\ age' \in [Calls -> 0 .. StartupTimeout + TtlMargin]
      /\ waited' \in [Calls -> 0 .. StartupTimeout]
      /\ Times' /\ Holds' /\ Ends'
  BY ReserveKeeps, EmptyTypes DEF hostVars
<1>2. TypeOK'
  BY <1>1, TimesAssumption DEF TypeOK, hostVars, Event
<1>3. RowsWhole'
  BY RowsKept
<1> QED BY <1>1, <1>2, <1>3

\* A step of a load under way that changes no reservation and no clock, keeps
\* its port and library, and gives it the record r.
LEMMA CallMoves ==
  ASSUME Inv, NEW c \in Calls, InFlight(c), NEW r \in CallRecords,
         call' = [call EXCEPT ![c] = r], UNCHANGED <<resv, age, waited>>,
         r.port = call[c].port, r.lib = call[c].lib,
         r.st \in Unserved => r.proc = None,
         r.st = "freeing" => r.proc = None \/ proc'[r.proc].st = "dead",
         \A d \in Calls \ {c} :
           Alive(call[d].proc) \/ call[d].proc = None \/ proc'[call[d].proc].st = "dead"
  PROVE  call' \in [Calls -> CallRecords] /\ Times' /\ Holds' /\ Ends'
<1>1. call' \in [Calls -> CallRecords]
  BY DEF Inv, TypeOK
<1>2. call'[c] = r /\ \A d \in Calls \ {c} : call'[d] = call[d]
  BY DEF Inv, TypeOK
<1>3. Times' /\ Holds'
  BY <1>2, LoadsKept DEF Inv, InFlight
<1>4. Ends'
  BY <1>2 DEF Inv, Ends, Alive
<1> QED BY <1>1, <1>3, <1>4

LEMMA FaultTypes ==
  ASSUME TypeOK, NEW kind, Fault(kind)
  PROVE  faults' \in 0 .. MaxFaults /\ events' \in 0 .. MaxEvents
BY TimesAssumption DEF TypeOK, Fault

LEMMA InspectKeeps ==
  ASSUME Inv, NEW c \in Calls, Inspect(c)
  PROVE  Inv'
<1>1. PICK s \in {"inspected", "freeing"}, row \in {dep[call[c].port], call[c].row} :
        /\ call' = [call EXCEPT ![c].st = s, ![c].row = row]
        /\ s = "freeing" => row = call[c].row
  BY DEF Inspect
<1> DEFINE r == [call[c] EXCEPT !.st = s, !.row = row]
<1>2. InFlight(c) /\ call[c] \in CallRecords /\ call[c].proc = None
  BY DEF Inv, TypeOK, Inspect, InFlight, Ends, Unserved
<1>3. row \in Rows
  BY <1>2 DEF Inv, TypeOK, Holds, CallRecords
<1>4. /\ r \in CallRecords /\ call' = [call EXCEPT ![c] = r]
      /\ r.port = call[c].port /\ r.lib = call[c].lib /\ r.proc = None
  BY <1>1, <1>2, <1>3 DEF Inv, TypeOK, CallRecords, CallStates
<1> HIDE DEF r
<1>5. call' \in [Calls -> CallRecords] /\ Times' /\ Holds' /\ Ends'
  BY <1>2, <1>4, CallMoves DEF Inspect, hostVars, Alive
<1>6. TypeOK'
  BY <1>5 DEF Inv, TypeOK, Inspect, hostVars, countVars
<1>7. RowsWhole'
  BY RowsKept DEF Inv, Inspect
<1> QED BY <1>5, <1>6, <1>7 DEF Inv

LEMMA ProbeKeeps ==
  ASSUME Inv, NEW c \in Calls, Probe(c)
  PROVE  Inv'
<1> DEFINE r == [call[c] EXCEPT !.st = IF Listeners(call[c].port) = {} THEN "clear" ELSE "freeing"]
<1> USE DEF Probe
<1>1. /\ InFlight(c) /\ r \in CallRecords /\ call' = [call EXCEPT ![c] = r]
      /\ r.port = call[c].port /\ r.lib = call[c].lib
  BY DEF Inv, TypeOK, InFlight, CallRecords, CallStates
<1>2. /\ r.st \in Unserved => r.proc = None
      /\ r.st = "freeing" => r.proc = None
  BY DEF Inv, TypeOK, Ends, Unserved, CallRecords
<1> HIDE DEF r
<1>3. call' \in [Calls -> CallRecords] /\ Times' /\ Holds' /\ Ends'
  BY <1>1, <1>2, CallMoves DEF hostVars, Alive
<1>4. TypeOK'
  BY <1>3 DEF Inv, TypeOK, hostVars, countVars
<1>5. RowsWhole'
  BY RowsKept DEF Inv
<1> QED BY <1>3, <1>4, <1>5 DEF Inv

LEMMA HealthyKeeps ==
  ASSUME Inv, NEW c \in Calls, Healthy(c)
  PROVE  Inv'
<1> DEFINE r == [call[c] EXCEPT !.st = "ready"]
<1> USE DEF Healthy
<1>1. /\ InFlight(c) /\ r \in CallRecords /\ call' = [call EXCEPT ![c] = r]
      /\ r.port = call[c].port /\ r.lib = call[c].lib
  BY DEF Inv, TypeOK, InFlight, CallRecords, CallStates
<1>2. /\ r.st \in Unserved => r.proc = None
      /\ r.st = "freeing" => r.proc = None
  BY DEF Inv, TypeOK, Ends, Unserved, CallRecords
<1> HIDE DEF r
<1>3. call' \in [Calls -> CallRecords] /\ Times' /\ Holds' /\ Ends'
  BY <1>1, <1>2, CallMoves DEF hostVars, Alive
<1>4. TypeOK'
  BY <1>3 DEF Inv, TypeOK, hostVars, countVars
<1>5. RowsWhole'
  BY RowsKept DEF Inv
<1> QED BY <1>3, <1>4, <1>5 DEF Inv

LEMMA StartupFailsKeeps ==
  ASSUME Inv, NEW c \in Calls, StartupFails(c)
  PROVE  Inv'
<1> DEFINE r == [call[c] EXCEPT !.st = "cleaning"]
<1> USE DEF StartupFails
<1>1. /\ InFlight(c) /\ r \in CallRecords /\ call' = [call EXCEPT ![c] = r]
      /\ r.port = call[c].port /\ r.lib = call[c].lib
  BY DEF Inv, TypeOK, InFlight, CallRecords, CallStates
<1>2. /\ r.st \in Unserved => r.proc = None
      /\ r.st = "freeing" => r.proc = None
  BY DEF Inv, TypeOK, Ends, Unserved, CallRecords
<1> HIDE DEF r
<1>3. call' \in [Calls -> CallRecords] /\ Times' /\ Holds' /\ Ends'
  BY <1>1, <1>2, CallMoves DEF hostVars, Alive
<1>4. TypeOK'
  BY <1>3 DEF Inv, TypeOK, hostVars, countVars
<1>5. RowsWhole'
  BY RowsKept DEF Inv
<1> QED BY <1>3, <1>4, <1>5 DEF Inv

LEMMA StartupTimesOutKeeps ==
  ASSUME Inv, NEW c \in Calls, StartupTimesOut(c)
  PROVE  Inv'
<1> DEFINE r == [call[c] EXCEPT !.st = "cleaning"]
<1> USE DEF StartupTimesOut
<1>1. /\ InFlight(c) /\ r \in CallRecords /\ call' = [call EXCEPT ![c] = r]
      /\ r.port = call[c].port /\ r.lib = call[c].lib
  BY DEF Inv, TypeOK, InFlight, CallRecords, CallStates
<1>2. /\ r.st \in Unserved => r.proc = None
      /\ r.st = "freeing" => r.proc = None
  BY DEF Inv, TypeOK, Ends, Unserved, CallRecords
<1> HIDE DEF r
<1>3. call' \in [Calls -> CallRecords] /\ Times' /\ Holds' /\ Ends'
  BY <1>1, <1>2, CallMoves DEF hostVars, Alive
<1>4. TypeOK'
  BY <1>3, FaultTypes DEF Inv, TypeOK, hostVars
<1>5. RowsWhole'
  BY RowsKept DEF Inv
<1> QED BY <1>3, <1>4, <1>5 DEF Inv

\* No load's server is revived when every process but a new one stays what it
\* is or ends.
LEMMA NoRevival ==
  ASSUME TypeOK,
         \A j \in Procs : proc'[j] \in {proc[j], DeadProc} \/ Fresh(j)
  PROVE  \A d \in Calls :
           Alive(call[d].proc) \/ call[d].proc = None \/ proc'[call[d].proc].st = "dead"
<1> SUFFICES ASSUME NEW d \in Calls, call[d].proc # None
             PROVE  Alive(call[d].proc) \/ proc'[call[d].proc].st = "dead"
  OBVIOUS
<1>1. call[d].proc \in Procs
  BY DEF TypeOK, CallRecords
<1>2. ~Fresh(call[d].proc)
  BY FreshIsUnnamed
<1> QED BY <1>1, <1>2 DEF Alive, DeadProc

\* What a restart of a unit makes of the host.
LEMMA RestartedHost ==
  ASSUME TypeOK, NEW p \in Ports, NEW i \in Procs, Restarted(p, i)
  PROVE  /\ proc' \in [Procs -> ProcRecords] /\ unit' \in [Ports -> UnitRecords]
         /\ \A j \in Procs \ {i} : proc'[j] \in {proc[j], DeadProc}
<1>1. unit \in [Ports -> UnitRecords] /\ unit[p].lib \in Libs \cup {None}
  BY DEF TypeOK, UnitRecords
<1>2. Started(p, unit[p].lib) \in ProcRecords
  BY <1>1 DEF ProcRecords, Started
<1>3. unit' \in [Ports -> UnitRecords]
  BY <1>1 DEF Restarted, UnitRecords
<1> QED BY <1>2, <1>3, EmptyTypes DEF Restarted, TypeOK

LEMMA WriteUnitKeeps ==
  ASSUME Inv, NEW c \in Calls, WriteUnit(c)
  PROVE  Inv'
<1> DEFINE r == [call[c] EXCEPT !.st = "written"]
<1>1. /\ InFlight(c) /\ r \in CallRecords /\ call' = [call EXCEPT ![c] = r]
      /\ r.port = call[c].port /\ r.lib = call[c].lib
  BY DEF WriteUnit, Inv, TypeOK, InFlight, CallRecords, CallStates
<1>2. r.proc = None /\ r.st = "written"
  BY DEF WriteUnit, Inv, TypeOK, CallRecords, Ends, Unserved
<1> HIDE DEF r
<1>3. call' \in [Calls -> CallRecords] /\ Times' /\ Holds' /\ Ends'
  BY <1>1, <1>2, CallMoves DEF WriteUnit, Alive
<1>4. unit' \in [Ports -> UnitRecords]
  <2>1. call[c].lib \in Libs \cup {None} /\ unit \in [Ports -> UnitRecords]
    BY DEF Inv, TypeOK, CallRecords
  <2> QED BY <2>1 DEF WriteUnit, UnitRecords
<1>5. TypeOK'
  BY <1>3, <1>4 DEF WriteUnit, Inv, TypeOK, countVars
<1>6. RowsWhole'
  BY RowsKept DEF WriteUnit, Inv
<1> QED BY <1>3, <1>5, <1>6 DEF Inv

LEMMA LaunchKeeps ==
  ASSUME Inv, NEW c \in Calls, NEW i \in Procs, Launch(c, i)
  PROVE  Inv'
<1> DEFINE r == [call[c] EXCEPT !.st = "waiting", !.proc = i, !.unit = TRUE]
<1>1. /\ InFlight(c) /\ r \in CallRecords /\ call' = [call EXCEPT ![c] = r]
      /\ r.port = call[c].port /\ r.lib = call[c].lib /\ r.st = "waiting"
  BY DEF Launch, Inv, TypeOK, InFlight, CallRecords, CallStates
<1> HIDE DEF r
<1>2. call[c].port \in Ports
  BY <1>1 DEF Inv, Holds
<1>3. /\ proc' \in [Procs -> ProcRecords] /\ unit' \in [Ports -> UnitRecords]
      /\ \A j \in Procs \ {i} : proc'[j] \in {proc[j], DeadProc}
  BY <1>2, RestartedHost DEF Launch, Inv
<1>4. call' \in [Calls -> CallRecords] /\ Times' /\ Holds' /\ Ends'
  <2>1. \A d \in Calls :
          Alive(call[d].proc) \/ call[d].proc = None \/ proc'[call[d].proc].st = "dead"
    BY <1>3, NoRevival DEF Launch, Restarted, Inv
  <2>2. UNCHANGED <<resv, age, waited>>
    BY DEF Launch
  <2> QED BY <1>1, <2>1, <2>2, CallMoves DEF Unserved
<1>5. TypeOK'
  BY <1>3, <1>4 DEF Launch, Inv, TypeOK, countVars
<1>6. RowsWhole'
  BY RowsKept DEF Launch, Inv
<1> QED BY <1>4, <1>5, <1>6 DEF Inv

LEMMA LaunchPlainKeeps ==
  ASSUME Inv, NEW c \in Calls, NEW i \in Procs, LaunchPlain(c, i)
  PROVE  Inv'
<1> DEFINE r == [call[c] EXCEPT !.st = "waiting", !.proc = i]
<1>1. /\ InFlight(c) /\ r \in CallRecords /\ call' = [call EXCEPT ![c] = r]
      /\ r.port = call[c].port /\ r.lib = call[c].lib /\ r.st = "waiting"
  <2>1. call[c].st \in {"clear", "written"}
        /\ call' = [call EXCEPT ![c].st = "waiting", ![c].proc = i]
    BY DEF LaunchPlain
  <2>2. call \in [Calls -> CallRecords] /\ call[c] \in CallRecords
    BY DEF Inv, TypeOK
  <2> QED BY <2>1, <2>2 DEF InFlight, CallRecords, CallStates
<1> HIDE DEF r
<1>2. /\ proc' \in [Procs -> ProcRecords]
      /\ \A j \in Procs \ {i} : proc'[j] \in {proc[j], DeadProc}
  <2>1. Started(call[c].port, call[c].lib) \in ProcRecords
    BY DEF Inv, TypeOK, CallRecords, ProcRecords, Started
  <2> QED BY <2>1, EmptyTypes DEF LaunchPlain, Inv, TypeOK
<1>3. call' \in [Calls -> CallRecords] /\ Times' /\ Holds' /\ Ends'
  <2>1. \A d \in Calls :
          Alive(call[d].proc) \/ call[d].proc = None \/ proc'[call[d].proc].st = "dead"
    BY <1>2, NoRevival DEF LaunchPlain, Inv
  <2>2. UNCHANGED <<resv, age, waited>>
    BY DEF LaunchPlain
  <2> QED BY <1>1, <2>1, <2>2, CallMoves DEF Unserved
<1>5. unit' \in [Ports -> UnitRecords]
  BY DEF LaunchPlain, Inv, TypeOK, UnitRecords
<1>6. TypeOK'
  BY <1>2, <1>3, <1>5, FaultTypes DEF LaunchPlain, Inv, TypeOK
<1>7. RowsWhole'
  BY RowsKept DEF LaunchPlain, Inv
<1> QED BY <1>3, <1>6, <1>7 DEF Inv

LEMMA StoppedType ==
  ASSUME TypeOK, NEW p
  PROVE  Stopped(p) \in [Ports -> UnitRecords]
BY DEF TypeOK, Stopped, UnitRecords

\* A stop ends processes and units only.
LEMMA StopHost ==
  ASSUME TypeOK, NEW p, NEW i, StopUnit(p, i)
  PROVE  /\ proc' \in [Procs -> ProcRecords] /\ unit' \in [Ports -> UnitRecords]
         /\ \A j \in Procs : proc'[j] \in {proc[j], DeadProc}
         /\ i \in Procs => proc'[i] = DeadProc
BY StoppedType, EmptyTypes DEF StopUnit, TypeOK

LEMMA LaunchLostKeeps ==
  ASSUME Inv, NEW c \in Calls, LaunchLost(c)
  PROVE  Inv'
<1> DEFINE r == [call[c] EXCEPT !.st = "freeing"]
<1>1. /\ InFlight(c) /\ r \in CallRecords /\ call' = [call EXCEPT ![c] = r]
      /\ r.port = call[c].port /\ r.lib = call[c].lib
  BY DEF LaunchLost, Inv, TypeOK, InFlight, CallRecords, CallStates
<1>2. r.proc = None /\ r.st = "freeing"
  BY DEF LaunchLost, Inv, TypeOK, CallRecords, Ends, Unserved
<1> HIDE DEF r
<1>3. /\ proc' \in [Procs -> ProcRecords] /\ unit' \in [Ports -> UnitRecords]
      /\ \A j \in Procs : proc'[j] \in {proc[j], DeadProc}
  BY StopHost DEF LaunchLost, Inv, TypeOK, hostVars
<1>4. \A d \in Calls :
        Alive(call[d].proc) \/ call[d].proc = None \/ proc'[call[d].proc].st = "dead"
  BY <1>3, NoRevival DEF Inv
<1>5. call' \in [Calls -> CallRecords] /\ Times' /\ Holds' /\ Ends'
  <2>1. UNCHANGED <<resv, age, waited>>
    BY DEF LaunchLost
  <2> QED BY <1>1, <1>2, <1>4, <2>1, CallMoves DEF Unserved
<1>7. TypeOK'
  BY <1>3, <1>5, FaultTypes DEF LaunchLost, Inv, TypeOK
<1>8. RowsWhole'
  BY RowsKept DEF LaunchLost, Inv
<1> QED BY <1>5, <1>7, <1>8 DEF Inv

\* What an activation makes of the table.
LEMMA ActivatedRows ==
  ASSUME Inv, NEW c \in Calls, call[c].st = "ready"
  PROVE  /\ Activated(c) \in [Ports -> Rows]
         /\ \A p \in Ports : Activated(c)[p].desired = "active" => Activated(c)[p].lib \in Libs
<1> DEFINE p == call[c].port
           row == [id |-> call[c].proc, lib |-> call[c].lib, proc |-> call[c].proc,
                   desired |-> "active"]
<1>1. p \in Ports /\ call[c].lib \in Libs /\ call[c].proc \in Procs \cup {None}
  BY DEF Inv, TypeOK, Holds, InFlight, CallRecords
<1>2. CASE call[c].row = NoRow
  <2>1. row \in Rows /\ row.lib \in Libs BY <1>1 DEF Rows
  <2>2. Activated(c) = [dep EXCEPT ![p] = row] BY <1>2 DEF Activated
  <2> HIDE DEF row, p
  <2> QED BY <2>1, <2>2 DEF Inv, TypeOK, RowsWhole
<1>3. CASE call[c].row # NoRow
  <2>1. Activated(c) = [dep EXCEPT ![p].proc = call[c].proc] BY <1>3 DEF Activated
  <2> QED BY <1>1, <2>1 DEF Inv, TypeOK, RowsWhole, Rows
<1> QED BY <1>2, <1>3

LEMMA ActivationKeeps ==
  ASSUME Inv, NEW c \in Calls, call[c].st = "ready",
         dep' \in {dep, Activated(c)},
         NEW s \in {"active", "cleaning"}, call' = [call EXCEPT ![c].st = s],
         UNCHANGED <<resv, age, waited, hostVars, unload, rec>>,
         faults' \in 0 .. MaxFaults /\ events' \in 0 .. MaxEvents
  PROVE  Inv'
<1> DEFINE r == [call[c] EXCEPT !.st = s]
<1>1. /\ InFlight(c) /\ r \in CallRecords /\ call' = [call EXCEPT ![c] = r]
      /\ r.port = call[c].port /\ r.lib = call[c].lib /\ r.st = s
  BY DEF Inv, TypeOK, InFlight, CallRecords, CallStates
<1> HIDE DEF r
<1>2. call' \in [Calls -> CallRecords] /\ Times' /\ Holds' /\ Ends'
  BY <1>1, CallMoves DEF Unserved, Alive, hostVars
<1>3. dep' \in [Ports -> Rows]
  BY ActivatedRows DEF Inv, TypeOK
<1>4. TypeOK'
  BY <1>2, <1>3 DEF Inv, TypeOK, hostVars
<1>5. RowsWhole'
  BY ActivatedRows DEF Inv, RowsWhole
<1> QED BY <1>2, <1>4, <1>5 DEF Inv

LEMMA ActivateKeeps ==
  ASSUME Inv, NEW c \in Calls, Activate(c)
  PROVE  Inv'
<1>1. PICK s \in {"active", "cleaning"} : call' = [call EXCEPT ![c].st = s]
  BY DEF Activate
<1>2. faults' \in 0 .. MaxFaults /\ events' \in 0 .. MaxEvents
  BY DEF Inv, TypeOK, Activate, countVars
<1> QED BY <1>1, <1>2, ActivationKeeps DEF Activate

LEMMA ActivateFailsKeeps ==
  ASSUME Inv, NEW c \in Calls, ActivateFails(c)
  PROVE  Inv'
<1>1. call' = [call EXCEPT ![c].st = "cleaning"] /\ dep' \in {dep, Activated(c)}
  BY DEF ActivateFails
<1>2. faults' \in 0 .. MaxFaults /\ events' \in 0 .. MaxEvents
  BY FaultTypes DEF Inv, ActivateFails
<1> QED BY <1>1, <1>2, ActivationKeeps DEF ActivateFails

\* A load whose server has ended is about to release.
LEMMA CleanedKeeps ==
  ASSUME Inv, NEW c \in Calls, call[c].st \in {"cleaning", "stopping"},
         call' = [call EXCEPT ![c].st = "freeing"],
         proc' \in [Procs -> ProcRecords], unit' \in [Ports -> UnitRecords],
         \A j \in Procs : proc'[j] \in {proc[j], DeadProc},
         call[c].proc \in Procs => proc'[call[c].proc].st = "dead",
         UNCHANGED <<resv, age, waited, dep, unload, rec, countVars>>
  PROVE  Inv'
<1> DEFINE r == [call[c] EXCEPT !.st = "freeing"]
<1>1. /\ InFlight(c) /\ r \in CallRecords /\ call' = [call EXCEPT ![c] = r]
      /\ r.port = call[c].port /\ r.lib = call[c].lib /\ r.st = "freeing"
      /\ r.proc = call[c].proc
  BY DEF Inv, TypeOK, InFlight, CallRecords, CallStates
<1> HIDE DEF r
<1>2. call[c].proc = None \/ call[c].proc \in Procs
  BY DEF Inv, TypeOK, CallRecords
<1>3. call' \in [Calls -> CallRecords] /\ Times' /\ Holds' /\ Ends'
  <2>1. \A d \in Calls :
          Alive(call[d].proc) \/ call[d].proc = None \/ proc'[call[d].proc].st = "dead"
    BY NoRevival DEF Inv
  <2>2. r.st = "freeing" => r.proc = None \/ proc'[r.proc].st = "dead"
    BY <1>1, <1>2
  <2>3. UNCHANGED <<resv, age, waited>>
    OBVIOUS
  <2> QED BY <1>1, <2>1, <2>2, <2>3, CallMoves DEF Unserved
<1>4. TypeOK'
  BY <1>3 DEF Inv, TypeOK, countVars
<1>5. RowsWhole'
  BY RowsKept DEF Inv
<1> QED BY <1>3, <1>4, <1>5 DEF Inv

LEMMA CleanupKeeps ==
  ASSUME Inv, NEW c \in Calls, Cleanup(c)
  PROVE  Inv'
<1>1. /\ proc' \in [Procs -> ProcRecords]
      /\ \A j \in Procs : proc'[j] \in {proc[j], DeadProc}
      /\ call[c].proc \in Procs => proc'[call[c].proc].st = "dead"
  <2>1. proc \in [Procs -> ProcRecords] /\ (call[c].proc \in Procs => call[c].proc # None)
    BY NamesAssumption DEF Inv, TypeOK
  <2> QED BY <2>1, EmptyTypes DEF Cleanup, Alive, DeadProc
<1>2. unit' \in [Ports -> UnitRecords]
  BY DEF Cleanup, Inv, TypeOK
<1> QED BY <1>1, <1>2, CleanedKeeps DEF Cleanup

LEMMA CleanupOwnsKeeps ==
  ASSUME Inv, NEW c \in Calls, CleanupOwns(c)
  PROVE  Inv'
<1> DEFINE r == [call[c] EXCEPT !.st = "stopping"]
<1>1. /\ InFlight(c) /\ r \in CallRecords /\ call' = [call EXCEPT ![c] = r]
      /\ r.port = call[c].port /\ r.lib = call[c].lib /\ r.st = "stopping"
  BY DEF CleanupOwns, Inv, TypeOK, InFlight, CallRecords, CallStates
<1> HIDE DEF r
<1>2. call' \in [Calls -> CallRecords] /\ Times' /\ Holds' /\ Ends'
  BY <1>1, CallMoves DEF CleanupOwns, hostVars, Alive, Unserved
<1>3. TypeOK'
  BY <1>2 DEF CleanupOwns, Inv, TypeOK, hostVars, countVars
<1>4. RowsWhole'
  BY RowsKept DEF CleanupOwns, Inv
<1> QED BY <1>2, <1>3, <1>4 DEF Inv

LEMMA CleanupStopKeeps ==
  ASSUME Inv, NEW c \in Calls, CleanupStop(c)
  PROVE  Inv'
<1>1. /\ proc' \in [Procs -> ProcRecords] /\ unit' \in [Ports -> UnitRecords]
      /\ \A j \in Procs : proc'[j] \in {proc[j], DeadProc}
      /\ call[c].proc \in Procs => proc'[call[c].proc].st = "dead"
  BY StopHost DEF CleanupStop, DeadProc, Inv
<1> QED BY <1>1, CleanedKeeps DEF CleanupStop

\* An abandoned load is over and names no server; a caller may have gone on, and
\* a restart that was asked for may still start one.
LEMMA AbandonedKeeps ==
  ASSUME Inv, NEW c \in Calls, InFlight(c), call' = Abandoned(c),
         UNCHANGED <<resv, age, waited, dep, unload>>,
         proc' \in [Procs -> ProcRecords], unit' \in [Ports -> UnitRecords],
         \A j \in Procs : proc'[j] \in {proc[j], DeadProc} \/ Fresh(j),
         rec' \in PassRecords, rec'.rows \in {rec.rows, [p \in Ports |-> NoRow]},
         faults' \in 0 .. MaxFaults /\ events' \in 0 .. MaxEvents
  PROVE  Inv'
<1> DEFINE r == [call[c] EXCEPT !.st = "over", !.row = NoRow, !.proc = None, !.unit = FALSE]
<1>1. /\ r \in CallRecords /\ call' = [call EXCEPT ![c] = r] /\ r.st = "over"
      /\ r.port = call[c].port /\ r.lib = call[c].lib /\ r.proc = None
  <2>1. call \in [Calls -> CallRecords] /\ call[c] \in CallRecords
    BY DEF Inv, TypeOK
  <2> QED BY <2>1, EmptyTypes DEF Abandoned, CallRecords, CallStates
<1> HIDE DEF r
<1>2. call' \in [Calls -> CallRecords] /\ Times' /\ Holds' /\ Ends'
  <2>1. \A d \in Calls :
          Alive(call[d].proc) \/ call[d].proc = None \/ proc'[call[d].proc].st = "dead"
    BY NoRevival DEF Inv
  <2> QED BY <1>1, <2>1, CallMoves
<1>3. TypeOK'
  BY <1>2 DEF Inv, TypeOK
<1>4. RowsWhole'
  BY PassRowsKept DEF Inv
<1> QED BY <1>2, <1>3, <1>4 DEF Inv

LEMMA SameHost ==
  ASSUME TypeOK, UNCHANGED hostVars
  PROVE  /\ proc' \in [Procs -> ProcRecords] /\ unit' \in [Ports -> UnitRecords]
         /\ \A j \in Procs : proc'[j] \in {proc[j], DeadProc} \/ Fresh(j)
BY DEF TypeOK, hostVars

LEMMA LaunchKeptKeeps ==
  ASSUME Inv, NEW c \in Calls, NEW i \in Procs, LaunchKept(c, i)
  PROVE  Inv'
<1>1. InFlight(c)
  BY DEF LaunchKept, InFlight
<1>2. rec' \in PassRecords /\ rec'.rows \in {rec.rows, [p \in Ports |-> NoRow]}
  BY ReturnType DEF LaunchKept, Inv
<1>3. faults' \in 0 .. MaxFaults /\ events' \in 0 .. MaxEvents
  BY FaultTypes DEF LaunchKept, Inv
<1>4. unit' \in [Ports -> UnitRecords]
  BY StoppedType DEF LaunchKept, Inv
<1>5. /\ proc' \in [Procs -> ProcRecords]
      /\ \A j \in Procs : proc'[j] \in {proc[j], DeadProc} \/ Fresh(j)
  <2>1. Started(call[c].port, call[c].lib) \in ProcRecords
    BY DEF Inv, TypeOK, CallRecords, ProcRecords, Started
  <2> QED BY <2>1, EmptyTypes DEF LaunchKept, Inv, TypeOK
<1> QED BY <1>1, <1>2, <1>3, <1>4, <1>5, AbandonedKeeps DEF LaunchKept

LEMMA CleanupFailsKeeps ==
  ASSUME Inv, NEW c \in Calls, CleanupFails(c)
  PROVE  Inv'
<1>1. InFlight(c)
  BY DEF CleanupFails, InFlight
<1>2. rec' \in PassRecords /\ rec'.rows \in {rec.rows, [p \in Ports |-> NoRow]}
  BY ReturnType DEF CleanupFails, Inv
<1>3. faults' \in 0 .. MaxFaults /\ events' \in 0 .. MaxEvents
  BY FaultTypes DEF CleanupFails, Inv
<1> QED BY <1>1, <1>2, <1>3, SameHost, AbandonedKeeps DEF CleanupFails, Inv

LEMMA ReleaseFailsKeeps ==
  ASSUME Inv, NEW c \in Calls, ReleaseFails(c)
  PROVE  Inv'
<1>1. InFlight(c)
  BY DEF ReleaseFails, InFlight
<1>2. rec' \in PassRecords /\ rec'.rows \in {rec.rows, [p \in Ports |-> NoRow]}
  BY ReturnType DEF ReleaseFails, Inv
<1>3. faults' \in 0 .. MaxFaults /\ events' \in 0 .. MaxEvents
  BY FaultTypes DEF ReleaseFails, Inv
<1> QED BY <1>1, <1>2, <1>3, SameHost, AbandonedKeeps DEF ReleaseFails, Inv

\* The pass of a caller that is gone is forgotten.
LEMMA CallerGone ==
  ASSUME TypeOK, rec' \in {rec, NoPass}
  PROVE  rec' \in PassRecords /\ rec'.rows \in {rec.rows, [p \in Ports |-> NoRow]}
<1>1. NoPass.rows = [p \in Ports |-> NoRow]
  BY DEF NoPass
<1> QED BY <1>1, EmptyTypes DEF TypeOK

LEMMA CrashKeeps ==
  ASSUME Inv, NEW c \in Calls, Crash(c)
  PROVE  Inv'
<1>1. rec' \in PassRecords /\ rec'.rows \in {rec.rows, [p \in Ports |-> NoRow]}
  BY CallerGone DEF Crash, Inv
<1>2. faults' \in 0 .. MaxFaults /\ events' \in 0 .. MaxEvents
  BY FaultTypes DEF Crash, Inv
<1> QED BY <1>1, <1>2, SameHost, AbandonedKeeps DEF Crash, Inv

LEMMA CancelKeeps ==
  ASSUME Inv, NEW c \in Calls, Cancel(c)
  PROVE  Inv'
<1>1. rec' \in PassRecords /\ rec'.rows \in {rec.rows, [p \in Ports |-> NoRow]}
  BY CallerGone DEF Cancel, Inv
<1>2. faults' \in 0 .. MaxFaults /\ events' \in 0 .. MaxEvents
  BY FaultTypes DEF Cancel, Inv
<1>3. ASSUME call[c].st \notin {"waiting", "ready", "cleaning", "stopping"} PROVE Inv'
  <2>1. call' = Abandoned(c) /\ InFlight(c) /\ call[c].port \in Ports
    BY <1>3 DEF Cancel, Inv, Holds
  <2>2. CASE UNCHANGED hostVars
    BY <1>1, <1>2, <2>1, <2>2, SameHost, AbandonedKeeps DEF Cancel, Inv
  <2>3. ASSUME NEW i \in Procs, Restarted(call[c].port, i) PROVE Inv'
    <3>1. /\ proc' \in [Procs -> ProcRecords] /\ unit' \in [Ports -> UnitRecords]
          /\ \A j \in Procs : proc'[j] \in {proc[j], DeadProc} \/ Fresh(j)
      BY <2>1, <2>3, RestartedHost DEF Inv, Restarted
    <3> QED BY <1>1, <1>2, <2>1, <3>1, AbandonedKeeps DEF Cancel
  <2> QED BY <2>2, <2>3 DEF Cancel
<1>4. ASSUME call[c].st \in {"waiting", "ready", "cleaning", "stopping"} PROVE Inv'
  <2> DEFINE s == IF call[c].st = "stopping" THEN "stopping" ELSE "cleaning"
             r == [call[c] EXCEPT !.st = s]
  <2>1. /\ InFlight(c) /\ r \in CallRecords /\ call' = [call EXCEPT ![c] = r]
        /\ r.port = call[c].port /\ r.lib = call[c].lib /\ r.st \in {"cleaning", "stopping"}
    <3>1. call \in [Calls -> CallRecords] /\ call[c] \in CallRecords /\ InFlight(c)
      BY DEF Cancel, Inv, TypeOK
    <3>2. call' = [call EXCEPT ![c].st = s]
      <4>1. CASE call[c].st \in {"waiting", "ready"}
        BY <4>1 DEF Cancel
      <4>2. CASE call[c].st \in {"cleaning", "stopping"}
        BY <3>1, <4>2 DEF Cancel, CallRecords
      <4> QED BY <1>4, <4>1, <4>2
    <3> QED BY <3>1, <3>2 DEF CallRecords, CallStates
  <2> HIDE DEF r
  <2>2. UNCHANGED hostVars /\ UNCHANGED <<resv, age, waited, dep, unload>>
    BY <1>4 DEF Cancel
  <2>3. call' \in [Calls -> CallRecords] /\ Times' /\ Holds' /\ Ends'
    BY <2>1, <2>2, CallMoves DEF hostVars, Alive, Unserved
  <2>4. TypeOK'
    BY <1>1, <1>2, <2>2, <2>3 DEF Inv, TypeOK, hostVars
  <2>5. RowsWhole'
    BY <1>1, <2>2, PassRowsKept DEF Inv
  <2> QED BY <2>3, <2>4, <2>5 DEF Inv
<1> QED BY <1>3, <1>4

\* A release frees the rows of its token only.
LEMMA ReleaseKeeps ==
  ASSUME Inv, NEW c \in Calls, Release(c)
  PROVE  Inv'
<1>1. call' \in [Calls -> CallRecords] /\ call'[c] = IdleCall
      /\ \A d \in Calls \ {c} : call'[d] = call[d]
  BY EmptyTypes DEF Release, Inv, TypeOK
<1>2. resv' \in [Resources -> Calls \cup {None}]
      /\ \A r \in Resources : resv[r] # c => resv'[r] = resv[r]
  BY DEF Release, Released, Inv, TypeOK
<1>3. /\ age' \in [Calls -> 0 .. StartupTimeout + TtlMargin]
      /\ waited' \in [Calls -> 0 .. StartupTimeout]
      /\ \A d \in Calls \ {c} : age'[d] = age[d] /\ waited'[d] = waited[d]
  BY TimesAssumption DEF Release, Inv, TypeOK
<1>4. rec' \in PassRecords /\ rec'.rows \in {rec.rows, [p \in Ports |-> NoRow]}
  BY ReturnType DEF Release, Inv
<1>5. TypeOK'
  BY <1>1, <1>2, <1>3, <1>4 DEF Release, Inv, TypeOK, hostVars, countVars
<1>6. ~InFlight(c)' /\ call'[c].proc = None
  BY <1>1 DEF InFlight, IdleCall
<1>7. Times'
  BY <1>1, <1>3, <1>6 DEF Inv, Times, InFlight
<1>8. Holds'
  BY <1>1, <1>2, <1>6 DEF Inv, Holds, InFlight, Resources
<1>9. RowsWhole'
  BY <1>4, PassRowsKept DEF Release, Inv
<1>10. Ends'
  BY <1>1, <1>6 DEF Release, Inv, Ends, Alive, hostVars
<1> QED BY <1>5, <1>7, <1>8, <1>9, <1>10 DEF Inv

-----------------------------------------------------------------------------
\* Time.

\* While a load is under way its reservation does not expire: this is what the
\* margin is for.
LEMMA ExpiryWaits ==
  ASSUME Inv, Tick, NEW c \in Calls, InFlight(c)
  PROVE  age[c] + 1 < Ttl
<1>1. /\ age[c] \in Nat /\ waited[c] \in 0 .. StartupTimeout
      /\ age[c] - waited[c] \in 0 .. Slack
  BY TimesAssumption DEF Inv, TypeOK, Times
<1>2. Waiting(c) \/ age[c] - waited[c] < Slack
  BY DEF Tick
<1> QED BY <1>1, <1>2, TimesAssumption DEF Waiting, Ttl

LEMMA TickKeeps ==
  ASSUME Inv, Tick
  PROVE  Inv'
<1> DEFINE expired == {c \in Calls : call[c].st # "idle" /\ age[c] + 1 >= Ttl}
           ended == {c \in expired : call[c].st = "over"}
<1>1. /\ resv' = [r \in Resources |-> IF resv[r] \in expired THEN None ELSE resv[r]]
      /\ call' = [c \in Calls |-> IF c \in ended THEN IdleCall ELSE call[c]]
      /\ age' = [c \in Calls |-> IF call[c].st = "idle" \/ c \in ended THEN 0 ELSE age[c] + 1]
      /\ waited' = [c \in Calls |-> IF c \in ended THEN 0
                                    ELSE IF Waiting(c) THEN waited[c] + 1 ELSE waited[c]]
      /\ UNCHANGED <<hostVars, dep, unload, rec, countVars>>
  BY DEF Tick
<1>2. \A c \in Calls : InFlight(c) => c \notin expired /\ age[c] + 1 < Ttl
  <2>1. \A c \in Calls : InFlight(c) => age[c] + 1 < Ttl BY ExpiryWaits
  <2>2. \A c \in Calls : age[c] \in Nat BY TimesAssumption DEF Inv, TypeOK
  <2>3. Ttl \in Nat BY TimesAssumption DEF Ttl
  <2> QED BY <2>1, <2>2, <2>3
<1>3. \A c \in Calls : call'[c] = call[c] \/ (c \in ended /\ call'[c] = IdleCall)
  BY <1>1
<1>4. call' \in [Calls -> CallRecords]
  BY <1>1, EmptyTypes DEF Inv, TypeOK
<1>5. resv' \in [Resources -> Calls \cup {None}]
  BY <1>1 DEF Inv, TypeOK
<1>6. age' \in [Calls -> 0 .. StartupTimeout + TtlMargin]
  <2> SUFFICES ASSUME NEW c \in Calls
               PROVE  (IF call[c].st = "idle" \/ c \in ended THEN 0 ELSE age[c] + 1)
                        \in 0 .. StartupTimeout + TtlMargin
    BY <1>1
  <2>1. age[c] \in Nat BY TimesAssumption DEF Inv, TypeOK
  <2>2. CASE call[c].st = "idle" \/ c \in ended BY <2>2, TimesAssumption
  <2>3. CASE InFlight(c) BY <1>2, <2>1, <2>3, TimesAssumption DEF Ttl
  <2>4. CASE call[c].st = "over" /\ c \notin ended BY <2>1, <2>4, TimesAssumption DEF Ttl
  <2> QED BY <2>2, <2>3, <2>4 DEF InFlight
<1>7. waited' \in [Calls -> 0 .. StartupTimeout]
  BY <1>1, TimesAssumption DEF Inv, TypeOK, Waiting
<1>8. TypeOK'
  BY <1>1, <1>4, <1>5, <1>6, <1>7 DEF Inv, TypeOK, hostVars, countVars
<1>9. \A c \in Calls : InFlight(c)' => InFlight(c) /\ call'[c] = call[c] /\ c \notin ended
  BY <1>2, <1>3 DEF InFlight, IdleCall
<1>10. Times'
  <2> SUFFICES ASSUME NEW c \in Calls, InFlight(c)'
               PROVE  age'[c] - waited'[c] \in 0 .. Slack
    BY DEF Times
  <2>1. /\ age[c] \in Nat /\ waited[c] \in Nat /\ age[c] - waited[c] \in 0 .. Slack
    BY <1>9, TimesAssumption DEF Inv, TypeOK, Times
  <2>2. /\ age'[c] = age[c] + 1
        /\ waited'[c] = IF Waiting(c) THEN waited[c] + 1 ELSE waited[c]
    BY <1>1, <1>9 DEF InFlight
  <2>3. Waiting(c) \/ age[c] - waited[c] < Slack
    BY <1>9 DEF Tick
  <2> QED BY <2>1, <2>2, <2>3, TimesAssumption
<1>11. Holds'
  <2> SUFFICES ASSUME NEW c \in Calls, InFlight(c)'
               PROVE  /\ call'[c].port \in Ports /\ resv'[call'[c].port] = c
                      /\ call'[c].lib \in Libs /\ resv'[call'[c].lib] = c
    BY DEF Holds
  <2>1. /\ call[c].port \in Ports /\ resv[call[c].port] = c
        /\ call[c].lib \in Libs /\ resv[call[c].lib] = c
    BY <1>9 DEF Inv, Holds
  <2>2. c \notin expired BY <1>2, <1>9
  <2> QED BY <1>1, <1>9, <2>1, <2>2 DEF Resources
<1>12. RowsWhole'
  BY <1>1, RowsKept DEF Inv
<1>13. Ends'
  BY <1>1, <1>3 DEF Inv, Ends, Alive, Unserved, IdleCall, hostVars
<1> QED BY <1>8, <1>10, <1>11, <1>12, <1>13 DEF Inv

-----------------------------------------------------------------------------
\* Unloads, the operator and the reconciler: they leave the loads alone and
\* start no process.

LEMMA OutsideKeeps ==
  ASSUME Inv, UNCHANGED loadVars,
         \A j \in Procs : proc'[j] \in {proc[j], DeadProc}
  PROVE  Times' /\ Holds' /\ Ends'
<1>1. Times' /\ Holds'
  BY LoadsKept DEF Inv, loadVars, InFlight
<1>2. \A c \in Calls :
        Alive(call[c].proc) \/ call[c].proc = None \/ proc'[call[c].proc].st = "dead"
  BY NoRevival DEF Inv
<1>3. Ends'
  BY <1>2, EndsKept DEF Inv, loadVars, Alive
<1> QED BY <1>1, <1>3

\* A step of the unload alone.
LEMMA UnloadMoves ==
  ASSUME Inv, unload' \in UnloadRecords, UNCHANGED <<loadVars, hostVars, dep, rec>>,
         faults' \in 0 .. MaxFaults, events' \in 0 .. MaxEvents
  PROVE  Inv'
<1>1. TypeOK'
  BY DEF Inv, TypeOK, loadVars, hostVars
<1>2. Times' /\ Holds' /\ Ends'
  BY OutsideKeeps DEF hostVars
<1>3. RowsWhole'
  BY RowsKept DEF Inv
<1> QED BY <1>1, <1>2, <1>3 DEF Inv

LEMMA UnloadReadKeeps ==
  ASSUME Inv, NEW p \in Ports, UnloadRead(p)
  PROVE  Inv'
<1>1. unload' \in UnloadRecords
  BY DEF UnloadRead, Inv, TypeOK, UnloadRecords
<1>2. events' \in 0 .. MaxEvents /\ faults' \in 0 .. MaxFaults
  BY TimesAssumption DEF UnloadRead, Event, Inv, TypeOK
<1> QED BY <1>1, <1>2, UnloadMoves DEF UnloadRead

\* The unload has its type after a step that only moves it on.
LEMMA UnloadType ==
  ASSUME TypeOK, NEW s \in {"retired", "stopping", "stopped"},
         unload' \in {NoUnload, [unload EXCEPT !.st = s]}
  PROVE  unload' \in UnloadRecords
<1>1. [unload EXCEPT !.st = s] \in UnloadRecords
  BY DEF TypeOK, UnloadRecords
<1> QED BY <1>1, EmptyTypes

LEMMA UnloadFindKeeps ==
  ASSUME Inv, UnloadFind
  PROVE  Inv'
<1>1. unload.row.proc \in Procs \cup {None} /\ unload \in UnloadRecords
  BY DEF Inv, TypeOK, UnloadRecords, Rows
<1>2. PICK i \in Procs \cup {None} : unload' = [unload EXCEPT !.st = "read", !.target = i]
  BY <1>1 DEF UnloadFind, Listeners
<1>3. unload' \in UnloadRecords
  BY <1>1, <1>2 DEF UnloadRecords
<1>4. faults' \in 0 .. MaxFaults /\ events' \in 0 .. MaxEvents
  BY DEF UnloadFind, Inv, TypeOK, countVars
<1> QED BY <1>3, <1>4, UnloadMoves DEF UnloadFind

LEMMA UnloadTurnsKeep ==
  ASSUME Inv, UnloadRefused \/ UnloadGone \/ UnloadOwns
  PROVE  Inv'
<1>1. unload' \in UnloadRecords
  BY UnloadType DEF UnloadRefused, UnloadGone, UnloadOwns, Inv
<1>2. faults' \in 0 .. MaxFaults /\ events' \in 0 .. MaxEvents
  BY DEF UnloadRefused, UnloadGone, UnloadOwns, Inv, TypeOK, countVars
<1> QED BY <1>1, <1>2, UnloadMoves DEF UnloadRefused, UnloadGone, UnloadOwns

\* A table whose rows are unchanged, gone or no longer desired, and otherwise
\* name another process at most, stays whole.
LEMMA TableKeeps ==
  ASSUME Inv, dep' \in [Ports -> Rows], UNCHANGED <<loadVars, hostVars>>,
         \A p \in Ports : dep'[p].desired = "active" =>
           dep[p].desired = "active" /\ dep'[p].lib = dep[p].lib,
         rec' \in PassRecords, rec'.rows \in {rec.rows, [p \in Ports |-> NoRow]},
         unload' \in UnloadRecords,
         faults' \in 0 .. MaxFaults, events' \in 0 .. MaxEvents
  PROVE  Inv'
<1>1. TypeOK'
  BY DEF Inv, TypeOK, loadVars, hostVars
<1>2. Times' /\ Holds' /\ Ends'
  BY OutsideKeeps DEF hostVars
<1>3. \A p \in Ports : rec'.rows[p] = rec.rows[p] \/ rec'.rows[p] = NoRow
  OBVIOUS
<1>4. RowsWhole'
  BY <1>3 DEF Inv, RowsWhole, NoRow
<1> QED BY <1>1, <1>2, <1>4 DEF Inv

LEMMA UnloadRetireKeeps ==
  ASSUME Inv, UnloadRetire
  PROVE  Inv'
<1> DEFINE p == unload.port
           i == IF unload.target = None THEN dep[p].proc ELSE unload.target
<1>1. unload' \in UnloadRecords
  BY UnloadType DEF UnloadRetire, Inv
<1>2. dep' \in {dep, [dep EXCEPT ![p].desired = "retired", ![p].proc = i]}
  BY DEF UnloadRetire
<1>3. dep \in [Ports -> Rows] /\ unload.target \in Procs \cup {None}
  BY DEF Inv, TypeOK, UnloadRecords
<1>4. p \in Ports => i \in Procs \cup {None}
  BY <1>3 DEF Rows
<1> HIDE DEF i, p
<1>5. dep' \in [Ports -> Rows]
  BY <1>2, <1>3, <1>4 DEF Rows
<1>6. \A q \in Ports : dep'[q].desired = "active" => dep'[q] = dep[q]
  BY <1>2, <1>3 DEF Rows
<1>7. /\ rec' \in PassRecords /\ rec'.rows \in {rec.rows, [q \in Ports |-> NoRow]}
      /\ faults' \in 0 .. MaxFaults /\ events' \in 0 .. MaxEvents
  BY DEF UnloadRetire, Inv, TypeOK, countVars
<1>8. UNCHANGED <<loadVars, hostVars>>
  BY DEF UnloadRetire
<1> QED BY <1>1, <1>5, <1>6, <1>7, <1>8, TableKeeps

LEMMA UnloadStopKeeps ==
  ASSUME Inv, UnloadStop
  PROVE  Inv'
<1>1. unload' \in UnloadRecords
  BY UnloadType DEF UnloadStop, Inv
<1>2. /\ proc' \in [Procs -> ProcRecords] /\ unit' \in [Ports -> UnitRecords]
      /\ \A j \in Procs : proc'[j] \in {proc[j], DeadProc}
  BY StopHost DEF UnloadStop, Inv
<1>4. TypeOK'
  BY <1>1, <1>2 DEF UnloadStop, Inv, TypeOK, loadVars, countVars
<1>5. Times' /\ Holds' /\ Ends'
  BY <1>2, OutsideKeeps DEF UnloadStop
<1>6. RowsWhole'
  BY RowsKept DEF UnloadStop, Inv
<1> QED BY <1>4, <1>5, <1>6 DEF Inv

LEMMA UnloadFailsKeeps ==
  ASSUME Inv, UnloadFails \/ UnloadCrash
  PROVE  Inv'
<1>1. unload' \in UnloadRecords
  BY EmptyTypes DEF UnloadFails, UnloadCrash
<1>2. faults' \in 0 .. MaxFaults /\ events' \in 0 .. MaxEvents
  BY FaultTypes DEF UnloadFails, UnloadCrash, Inv, TypeOK, countVars
<1> QED BY <1>1, <1>2, UnloadMoves DEF UnloadFails, UnloadCrash

\* A deletion removes a row or nothing.
LEMMA DeletedRows ==
  ASSUME TypeOK, NEW p, NEW id, dep' = Deleted(p, id)
  PROVE  /\ dep' \in [Ports -> Rows]
         /\ \A q \in Ports : dep'[q].desired = "active" =>
              dep[q].desired = "active" /\ dep'[q].lib = dep[q].lib
<1>1. dep' \in [Ports -> Rows]
  BY EmptyTypes DEF TypeOK, Deleted
<1>2. \A q \in Ports : dep'[q] = dep[q] \/ dep'[q] = NoRow
  BY DEF TypeOK, Deleted
<1> QED BY <1>1, <1>2 DEF NoRow

LEMMA UnloadDeleteKeeps ==
  ASSUME Inv, UnloadDelete
  PROVE  Inv'
<1>1. /\ dep' \in [Ports -> Rows]
      /\ \A q \in Ports : dep'[q].desired = "active" =>
           dep[q].desired = "active" /\ dep'[q].lib = dep[q].lib
  BY DeletedRows DEF UnloadDelete, Inv
<1>2. /\ rec' \in PassRecords /\ rec'.rows \in {rec.rows, [q \in Ports |-> NoRow]}
      /\ faults' \in 0 .. MaxFaults /\ events' \in 0 .. MaxEvents
  BY DEF UnloadDelete, Inv, TypeOK, countVars
<1>3. unload' \in UnloadRecords
  BY EmptyTypes DEF UnloadDelete
<1> QED BY <1>1, <1>2, <1>3, TableKeeps DEF UnloadDelete

LEMMA RetireKeeps ==
  ASSUME Inv, NEW p \in Ports, Retire(p)
  PROVE  Inv'
<1>1. dep' \in [Ports -> Rows] /\ dep'[p].desired = "retired"
      /\ \A q \in Ports \ {p} : dep'[q] = dep[q]
  BY DEF Retire, Inv, TypeOK, Rows
<1>2. /\ rec' \in PassRecords /\ rec'.rows \in {rec.rows, [q \in Ports |-> NoRow]}
      /\ unload' \in UnloadRecords
  BY DEF Retire, Inv, TypeOK
<1>3. faults' \in 0 .. MaxFaults /\ events' \in 0 .. MaxEvents
  BY TimesAssumption DEF Retire, Event, Inv, TypeOK
<1>4. \A q \in Ports : dep'[q].desired = "active" =>
        dep[q].desired = "active" /\ dep'[q].lib = dep[q].lib
  BY <1>1
<1> QED BY <1>1, <1>2, <1>3, <1>4, TableKeeps DEF Retire

\* A pass that reads the table has rows as whole as the table's.
LEMMA PassKeeps ==
  ASSUME Inv, rec' \in PassRecords, UNCHANGED <<loadVars, hostVars, dep, unload, countVars>>,
         rec'.rows \in {rec.rows, dep, [p \in Ports |-> NoRow]}
  PROVE  Inv'
<1>1. TypeOK'
  BY DEF Inv, TypeOK, loadVars, hostVars, countVars
<1>2. Times' /\ Holds' /\ Ends'
  BY OutsideKeeps DEF hostVars
<1>3. \A p \in Ports : rec'.rows[p] \in {rec.rows[p], dep[p], NoRow}
  OBVIOUS
<1>4. RowsWhole'
  BY <1>3 DEF Inv, RowsWhole, NoRow
<1> QED BY <1>1, <1>2, <1>4 DEF Inv

LEMMA BeginKeeps ==
  ASSUME Inv, Begin
  PROVE  Inv'
<1> DEFINE alive == {i \in Procs : Alive(i)}
           seen == {proc[i].port : i \in alive}
<1>1. seen \in SUBSET (Ports \cup {None})
  BY DEF Inv, TypeOK, ProcRecords
<1>2. alive \in SUBSET (Procs \cup Ports)
  OBVIOUS
<1>3. rec' = [rec EXCEPT !.st = "rows", !.todo = alive, !.seen = seen]
  BY DEF Begin
<1> HIDE DEF alive, seen
<1>4. rec' \in PassRecords /\ rec'.rows = rec.rows
  BY <1>1, <1>2, <1>3 DEF Inv, TypeOK, PassRecords
<1> QED BY <1>4, PassKeeps DEF Begin

LEMMA ReadRowsKeeps ==
  ASSUME Inv, ReadRows
  PROVE  Inv'
<1> DEFINE todo == rec.todo \cup {p \in Ports \ rec.seen : dep[p] # NoRow}
<1>1. CASE rec' = NoPass
  <2>1. rec' \in PassRecords /\ rec'.rows = [p \in Ports |-> NoRow]
    BY <1>1, EmptyTypes DEF NoPass
  <2> QED BY <2>1, PassKeeps DEF ReadRows
<1>2. CASE rec' = [NoPass EXCEPT !.st = "pass", !.rows = dep, !.todo = todo]
  <2>1. todo \in SUBSET (Procs \cup Ports) /\ dep \in [Ports -> Rows]
    BY DEF Inv, TypeOK, PassRecords
  <2> HIDE DEF todo
  <2>2. rec' \in PassRecords /\ rec'.rows = dep
    BY <1>2, <2>1, EmptyTypes DEF NoPass, PassRecords
  <2> QED BY <2>2, PassKeeps DEF ReadRows
<1> QED BY <1>1, <1>2 DEF ReadRows

LEMMA AuthenticateKeeps ==
  ASSUME Inv, NEW i \in Procs, Authenticate(i)
  PROVE  Inv'
<1>1. CASE rec' = Done(i)
  <2>1. rec' \in PassRecords /\ rec'.rows \in {rec.rows, [p \in Ports |-> NoRow]}
    BY <1>1, DoneType DEF Inv
  <2> QED BY <2>1, PassKeeps DEF Authenticate
<1>2. CASE rec' = [rec EXCEPT !.live = i, !.port = proc[i].port]
  <2>1. rec' \in PassRecords /\ rec'.rows = rec.rows
    BY <1>2 DEF Inv, TypeOK, PassRecords, ProcRecords
  <2> QED BY <2>1, PassKeeps DEF Authenticate
<1> QED BY <1>1, <1>2 DEF Authenticate

LEMMA RefreshKeeps ==
  ASSUME Inv, Refresh
  PROVE  Inv'
<1>0. PICK i \in Procs : i = rec.live
  BY DEF Refresh, Inv, TypeOK, PassRecords
<1>1. PICK p : dep' \in {dep, [dep EXCEPT ![p].proc = i]}
  BY <1>0 DEF Refresh
<1>2. /\ dep' \in [Ports -> Rows]
      /\ \A q \in Ports : dep'[q].desired = "active" =>
           dep[q].desired = "active" /\ dep'[q].lib = dep[q].lib
  <2>1. dep \in [Ports -> Rows]
    BY DEF Inv, TypeOK
  <2>2. CASE dep' = [dep EXCEPT ![p].proc = i]
    BY <2>1, <2>2 DEF Rows
  <2> QED BY <1>1, <2>1, <2>2
<1>3. rec' \in PassRecords /\ rec'.rows \in {rec.rows, [q \in Ports |-> NoRow]}
  BY DoneType DEF Refresh, Inv
<1>4. /\ faults' \in 0 .. MaxFaults /\ events' \in 0 .. MaxEvents
      /\ unload' \in UnloadRecords
  BY DEF Refresh, Inv, TypeOK, countVars
<1>5. UNCHANGED <<loadVars, hostVars>>
  BY DEF Refresh
<1> QED BY <1>2, <1>3, <1>4, <1>5, TableKeeps

LEMMA RemoveKeeps ==
  ASSUME Inv, NEW p \in Ports, Remove(p)
  PROVE  Inv'
<1>1. /\ dep' \in [Ports -> Rows]
      /\ \A q \in Ports : dep'[q].desired = "active" =>
           dep[q].desired = "active" /\ dep'[q].lib = dep[q].lib
  BY DeletedRows DEF Remove, Inv
<1>2. rec' \in PassRecords /\ rec'.rows \in {rec.rows, [q \in Ports |-> NoRow]}
  BY DoneType DEF Remove, Inv
<1>3. /\ faults' \in 0 .. MaxFaults /\ events' \in 0 .. MaxEvents
      /\ unload' \in UnloadRecords
  BY DEF Remove, Inv, TypeOK, countVars
<1> QED BY <1>1, <1>2, <1>3, TableKeeps DEF Remove

\* A respawn reserves the library that the row of an active deployment has.
LEMMA RespawnKeeps ==
  ASSUME Inv, NEW p \in Ports, NEW c \in Calls, Respawn(p, c)
  PROVE  Inv'
<1>1. rec.rows[p] \in Rows /\ rec.rows[p].lib \in Libs
  BY DEF Respawn, Inv, TypeOK, PassRecords, RowsWhole
<1>2. Reserve(c, p, rec.rows[p].lib, rec.rows[p]) /\ UNCHANGED proc
  BY DEF Respawn, hostVars
<1>3. /\ resv' \in [Resources -> Calls \cup {None}] /\ call' \in [Calls -> CallRecords]
      /\ age' \in [Calls -> 0 .. StartupTimeout + TtlMargin]
      /\ waited' \in [Calls -> 0 .. StartupTimeout]
      /\ Times' /\ Holds' /\ Ends'
  BY <1>1, <1>2, ReserveKeeps DEF Inv
<1>4. rec' \in PassRecords /\ rec'.rows = rec.rows
  <2>1. rec' = [rec EXCEPT !.todo = rec.todo \ {p}, !.wait = c]
    BY DEF Respawn
  <2> QED BY <2>1 DEF Inv, TypeOK, PassRecords
<1>5. TypeOK'
  BY <1>3, <1>4 DEF Respawn, Inv, TypeOK, hostVars, countVars
<1>6. RowsWhole'
  BY <1>4, PassRowsKept DEF Respawn, Inv
<1> QED BY <1>3, <1>5, <1>6 DEF Inv

LEMMA RespawnRefusedKeeps ==
  ASSUME Inv, NEW p \in Ports, RespawnRefused(p)
  PROVE  Inv'
<1>1. rec' \in PassRecords /\ rec'.rows \in {rec.rows, [q \in Ports |-> NoRow]}
  BY DoneType DEF RespawnRefused, Inv
<1> QED BY <1>1, PassKeeps DEF RespawnRefused

-----------------------------------------------------------------------------
\* The theorems.

LEMMA InvInit == Init => Inv
<1> SUFFICES ASSUME Init PROVE Inv
  OBVIOUS
<1>1. /\ call \in [Calls -> CallRecords] /\ proc \in [Procs -> ProcRecords]
      /\ dep \in [Ports -> Rows] /\ unload \in UnloadRecords /\ rec \in PassRecords
  BY EmptyTypes DEF Init
<1>2. unit \in [Ports -> UnitRecords]
  BY DEF Init, UnitRecords
<1>3. TypeOK
  <2>1. resv \in [Resources -> Calls \cup {None}]
    BY DEF Init
  <2>2. /\ age \in [Calls -> 0 .. StartupTimeout + TtlMargin]
        /\ waited \in [Calls -> 0 .. StartupTimeout]
        /\ faults \in 0 .. MaxFaults /\ events \in 0 .. MaxEvents
    BY TimesAssumption DEF Init
  <2> QED BY <1>1, <1>2, <2>1, <2>2 DEF TypeOK
<1>4. \A c \in Calls : ~InFlight(c) /\ call[c].proc = None /\ call[c].st = "idle"
  BY DEF Init, InFlight, IdleCall
<1>5. Times /\ Holds /\ Ends
  BY <1>4 DEF Times, Holds, Ends
<1>6. RowsWhole
  BY DEF Init, RowsWhole, NoRow, NoPass
<1> QED BY <1>3, <1>5, <1>6 DEF Inv

LEMMA LoadStepKeeps ==
  ASSUME Inv, NEW c \in Calls, LoadStep(c)
  PROVE  Inv'
BY InspectKeeps, ProbeKeeps, WriteUnitKeeps, LaunchKeeps, HealthyKeeps, StartupFailsKeeps,
   ActivateKeeps, CleanupKeeps, CleanupOwnsKeeps, CleanupStopKeeps, ReleaseKeeps DEF LoadStep

LEMMA LoadFaultKeeps ==
  ASSUME Inv, NEW c \in Calls, LoadFault(c)
  PROVE  Inv'
BY LaunchPlainKeeps, LaunchKeptKeeps, LaunchLostKeeps, StartupTimesOutKeeps, ActivateFailsKeeps,
   CleanupFailsKeeps, ReleaseFailsKeeps, CancelKeeps, CrashKeeps DEF LoadFault

LEMMA InvNext == Inv /\ [Next]_vars => Inv'
<1> SUFFICES ASSUME Inv, [Next]_vars PROVE Inv'
  OBVIOUS
<1>1. CASE \E c \in Calls : LoadStep(c) \/ LoadFault(c)
  BY <1>1, LoadStepKeeps, LoadFaultKeeps
<1>2. CASE HostStep
  BY <1>2, BindKeeps, DieKeeps, UnitRestartKeeps DEF HostStep
<1>3. CASE UnloadStep \/ UnloadCrash
  BY <1>3, UnloadFindKeeps, UnloadTurnsKeep, UnloadRetireKeeps, UnloadStopKeeps,
     UnloadFailsKeeps, UnloadDeleteKeeps
  DEF UnloadStep
<1>4. CASE Operator
  BY <1>4, UnloadReadKeeps, RetireKeeps, LoadKeeps DEF Operator
<1>5. CASE Reconcile
  BY <1>5, BeginKeeps, ReadRowsKeeps, AuthenticateKeeps, RefreshKeeps, RemoveKeeps, RespawnRefusedKeeps,
     RespawnKeeps DEF Reconcile
<1>6. CASE Tick
  BY <1>6, TickKeeps
<1>7. CASE UNCHANGED vars
  <2>1. UNCHANGED <<loadVars, hostVars, dep, unload, rec, countVars>>
    BY <1>7 DEF vars
  <2> QED BY <2>1, PassKeeps DEF Inv, TypeOK
<1> QED BY <1>1, <1>2, <1>3, <1>4, <1>5, <1>6, <1>7 DEF Next

LEMMA InvHolds == Spec => []Inv
BY InvInit, InvNext, PTL DEF Spec

\* Types and clocks: no reservation grows older than its lifetime, no health
\* wait longer than its bound.
THEOREM TypeCorrect == Spec => []TypeOK
<1>1. Inv => TypeOK BY DEF Inv
<1> QED BY <1>1, InvHolds, PTL

\* Two loads that are under way share neither port nor library, for every
\* margin larger than what a load spends outside its health wait.
THEOREM LaunchesExclusive == Spec => []LaunchExclusive
<1>1. Inv => LaunchExclusive BY DEF Inv, Holds, LaunchExclusive
<1> QED BY <1>1, InvHolds, PTL

\* What a step may free: the rows of a load that ends its reservation, when it
\* is about to release, and of one that is over.
LEMMA FenceStep ==
  ASSUME Inv, Next, NEW c \in Calls, NEW p \in Ports, resv[p] = c, resv'[p] # c
  PROVE  call[c].st \in {"active", "freeing", "over"}
<1>1. p \in Resources /\ resv \in [Resources -> Calls \cup {None}] /\ c # None
  BY NamesAssumption DEF Inv, TypeOK, Resources
<1>2. ASSUME NEW d, NEW q, NEW l, NEW row, Reserve(d, q, l, row) PROVE FALSE
  <2>1. Free(q) /\ Free(l) /\ resv' = [resv EXCEPT ![q] = d, ![l] = d]
    BY <1>2 DEF Reserve
  <2>2. p # q /\ p # l BY <1>1, <2>1 DEF Free
  <2> QED BY <1>1, <2>1, <2>2
<1>3. ASSUME NEW d \in Calls, Release(d) PROVE call[c].st \in {"active", "freeing"}
  BY <1>1, <1>3 DEF Release, Released
<1>4. ASSUME Tick PROVE call[c].st = "over"
  <2>1. age[c] + 1 >= Ttl /\ call[c].st # "idle"
    BY <1>1, <1>4 DEF Tick
  <2>2. InFlight(c) => age[c] + 1 < Ttl BY <1>4, ExpiryWaits
  <2>3. age[c] \in Nat /\ Ttl \in Nat BY TimesAssumption DEF Inv, TypeOK, Ttl
  <2> QED BY <2>1, <2>2, <2>3 DEF InFlight
<1>5. CASE \E d \in Calls : LoadStep(d) \/ LoadFault(d)
  <2> PICK d \in Calls : LoadStep(d) \/ LoadFault(d) BY <1>5
  <2>1. resv' # resv OBVIOUS
  <2>2. Release(d)
    BY <2>1 DEF LoadStep, LoadFault, Inspect, Probe, WriteUnit, Launch, Healthy, StartupFails,
       Activate, Cleanup, CleanupOwns, CleanupStop, LaunchPlain, LaunchKept, LaunchLost, StartupTimesOut, ActivateFails, CleanupFails,
       ReleaseFails, Cancel, Crash
  <2> QED BY <2>2, <1>3
<1>6. CASE HostStep \/ UnloadStep \/ UnloadCrash
  BY <1>6 DEF HostStep, UnloadStep, Bind, Die, UnitRestart, UnloadFind, UnloadRefused,
     UnloadRetire, UnloadGone, UnloadOwns, UnloadStop, UnloadFails, UnloadCrash, UnloadDelete,
     loadVars
<1>7. CASE Operator
  BY <1>7, <1>2 DEF Operator, UnloadRead, Retire, Load, loadVars
<1>8. CASE Reconcile
  BY <1>8, <1>2 DEF Reconcile, Begin, ReadRows, Authenticate, Refresh, Remove, RespawnRefused,
     Respawn, loadVars
<1> QED BY <1>4, <1>5, <1>6, <1>7, <1>8 DEF Next

\* The fence: as long as a load under way has a server that runs and no row has
\* taken over, no step, expiry included, frees its port.
THEOREM FenceKept == Spec => FenceHolds
<1>1. ASSUME Inv, [Next]_vars, NEW c \in Calls, NEW p \in Ports,
             resv[p] = c, resv'[p] # c, Alive(call[c].proc)
      PROVE  call[c].st = "active"
  <2>1. Next
    BY <1>1 DEF vars, loadVars
  <2>2. call[c].st \in {"active", "freeing", "over"}
    BY <1>1, <2>1, FenceStep
  <2> QED BY <1>1, <2>2 DEF Inv, Ends, Unserved, Alive
<1>2. Inv /\ [Next]_vars =>
        [\A c \in Calls, p \in Ports :
           resv[p] = c /\ resv'[p] # c /\ Alive(call[c].proc) => call[c].st = "active"]_vars
  BY <1>1
<1> QED BY <1>2, InvHolds, PTL DEF Spec, FenceHolds

=============================================================================
