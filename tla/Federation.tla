----------------------------- MODULE Federation -----------------------------
(***************************************************************************)
(* The fleet channel between a controller and one sensor                   *)
(* (internal/federation, its three handlers in internal/server and         *)
(* HandleCommand of cmd/netprobe): the operator queues commands, the loop  *)
(* of the sensor sends a snapshot, polls the commands that wait, executes  *)
(* them and reports each one.                                              *)
(*                                                                         *)
(* A request that is not applied while the sensor waits for the answer is  *)
(* lost, or arrives after the sensor has given up (its client times out    *)
(* after 10 seconds).  The hub is saved whole after every change, and the  *)
(* errors of the save are ignored.  Sensors share nothing but that file.   *)
(***************************************************************************)
EXTENDS Naturals, Sequences, FiniteSets, SequencesExt

CONSTANTS QueueLimit,      \* commands kept per sensor (200)
          Timed,           \* may commands have a TTL
          MaxCommands, MaxSnapshots, MaxRuns,   \* bounds
          MaxFaults        \* bound on losses, restarts and failed saves together

ASSUME FederationAssumption ==
         /\ QueueLimit \in Nat \ {0} /\ Timed \in BOOLEAN
         /\ {MaxCommands, MaxSnapshots, MaxRuns, MaxFaults} \subseteq Nat

VARIABLES hub,       \* the commands and the last snapshot of the sensor
          disk,      \* fleet.json
          issued,    \* commands queued so far (fleetSeq)
          expired,   \* commands whose ExpiresAt has passed
          sensor,    \* the loop of the client
          snaps,     \* snapshots taken so far
          late,      \* requests that arrive after their sender gave up
          runs,      \* what the sensor has executed (history)
          spent      \* losses, crashes, restarts and failures so far

controller == <<hub, disk, issued, expired>>
vars == <<controller, sensor, snaps, late, runs, spent>>

Ids == 1..MaxCommands
Outcomes == {"completed", "failed"}
Acks == [type : {"ack"}, id : Ids, state : Outcomes]
Snapshots == [type : {"ingest"}, time : 1..MaxSnapshots]
Commands == [id : Ids, timed : BOOLEAN, state : Outcomes \cup {"queued"}]

NewHub == [commands |-> <<>>, snapshot |-> 0]
Idle == [at |-> "send", batch |-> <<>>, outcome |-> "completed"]

Init ==
  /\ hub = NewHub /\ disk = NewHub /\ issued = 0 /\ expired = {}
  /\ sensor = Idle /\ snaps = 0 /\ late = {} /\ runs = <<>>
  /\ spent = [losses |-> 0, crashes |-> 0, restarts |-> 0, failures |-> 0]

Faults == spent.losses + spent.crashes + spent.restarts + spent.failures
Pay(what) == Faults < MaxFaults /\ spent' = [spent EXCEPT ![what] = @ + 1]

-----------------------------------------------------------------------------
(* The hub *)

\* persistLocked; whether it writes the file or fails, the caller goes on.
Saved(h) ==
  /\ hub' = h
  /\ \/ disk' = h /\ UNCHANGED spent
     \/ UNCHANGED disk /\ Pay("failures")

\* The list keeps the last 200 commands, whatever their state.
QueueCommand(timed) ==
  /\ issued < MaxCommands /\ issued' = issued + 1 /\ (timed => Timed)
  /\ LET all == Append(hub.commands, [id |-> issued', timed |-> timed, state |-> "queued"])
         first == IF Len(all) > QueueLimit THEN Len(all) - QueueLimit + 1 ELSE 1
     IN Saved([hub EXCEPT !.commands = SubSeq(all, first, Len(all))])
  /\ UNCHANGED <<expired, sensor, snaps, late, runs>>

\* The TTL of a command passes.
Expire(c) ==
  /\ c.timed /\ c.id \notin expired
  /\ expired' = expired \cup {c.id}
  /\ UNCHANGED <<hub, disk, issued, sensor, snaps, late, runs, spent>>

Position(id) == {n \in 1..Len(hub.commands) : hub.commands[n].id = id}

\* Mutant: the acknowledgement goes to the first command that waits.
AckedFirst(m) ==
  LET waiting == {n \in 1..Len(hub.commands) : hub.commands[n].state = "queued"} IN
  IF waiting = {} THEN hub
  ELSE [hub EXCEPT !.commands[CHOOSE n \in waiting : \A k \in waiting : n <= k].state = m.state]

\* AckCommand changes the command whatever its state was; an unknown id is
\* answered with 404.
Acked(m) ==
  IF Position(m.id) = {} THEN hub
  ELSE [hub EXCEPT !.commands[CHOOSE n \in Position(m.id) : TRUE].state = m.state]

\* Ingest replaces the snapshot, by an older one too.
Ingested(m) == [hub EXCEPT !.snapshot = m.time]

\* A request is applied and the hub saved, except after a 404.
Applied(m) ==
  IF m.type = "ingest" THEN Saved(Ingested(m))
  ELSE IF Position(m.id) # {} THEN Saved(Acked(m))
       ELSE UNCHANGED <<hub, disk, spent>>

\* The controller starts again and reads its file.
RestartHub ==
  /\ Pay("restarts")
  /\ hub' = disk
  /\ UNCHANGED <<disk, issued, expired, sensor, snaps, late, runs>>

-----------------------------------------------------------------------------
(* The sensor *)

\* A request with its three fates.  The sensor ignores which one it was.
Transmit(m) ==
  \/ Applied(m) /\ UNCHANGED late
  \/ /\ Pay("losses")
     /\ late' \in {late, late \cup {m}}
     /\ UNCHANGED <<hub, disk>>

LateArrives(m) ==
  /\ m \in late /\ late' = late \ {m}
  /\ Applied(m)
  /\ UNCHANGED <<issued, expired, sensor, snaps, runs>>

SendSnapshot ==
  /\ sensor.at = "send" /\ snaps < MaxSnapshots /\ snaps' = snaps + 1
  /\ Transmit([type |-> "ingest", time |-> snaps'])
  /\ sensor' = [sensor EXCEPT !.at = "fetch"]
  /\ UNCHANGED <<issued, expired, runs>>

\* Beyond the bound on the snapshots, the loop goes on without them.
SkipSnapshot ==
  /\ sensor.at = "send" /\ snaps = MaxSnapshots
  /\ sensor' = [sensor EXCEPT !.at = "fetch"]
  /\ UNCHANGED <<controller, snaps, late, runs, spent>>

\* The commands that wait, and a set of positions in the order of the list.
Waits(c) == c.id \notin expired /\ c.state = "queued"
Increasing(s) == \A i, j \in 1..Len(s) : i < j => s[i] < s[j]
InOrder(P) == CHOOSE s \in [1..Cardinality(P) -> P] : Increasing(s) /\ ToSet(s) = P
IdsAt(P) == LET s == InOrder(P) IN [n \in 1..Cardinality(P) |-> hub.commands[s[n]].id]

\* Mutant: a command is handed out once, whatever becomes of its report.
PendingOnce ==
  IdsAt({n \in 1..Len(hub.commands) :
          Waits(hub.commands[n]) /\ hub.commands[n].id \notin {x.id : x \in ToSet(runs)}})

\* Commands(sensorID, true)
Pending == IdsAt({n \in 1..Len(hub.commands) : Waits(hub.commands[n])})

FetchCommands ==
  /\ sensor.at = "fetch"
  /\ sensor' = [sensor EXCEPT !.batch = Pending, !.at = IF Pending = <<>> THEN "send" ELSE "handle"]
  /\ UNCHANGED <<controller, snaps, late, runs, spent>>

\* The poll fails and processCommands returns.
FetchFails ==
  /\ sensor.at = "fetch" /\ Pay("losses")
  /\ sensor' = [sensor EXCEPT !.at = "send"]
  /\ UNCHANGED <<controller, snaps, late, runs>>

\* The next command of the batch is executed, whatever became of it meanwhile.
HandleCommand ==
  /\ sensor.at = "handle" /\ Len(runs) < MaxRuns
  /\ \E outcome \in Outcomes :
       /\ runs' = Append(runs, [id |-> Head(sensor.batch), state |-> outcome])
       /\ sensor' = [sensor EXCEPT !.at = "ack", !.outcome = outcome]
  /\ UNCHANGED <<controller, snaps, late, spent>>

Ack == [type |-> "ack", id |-> Head(sensor.batch), state |-> sensor.outcome]
Reported ==
  sensor' = [sensor EXCEPT !.batch = Tail(@),
                           !.at = IF Len(sensor.batch) = 1 THEN "send" ELSE "handle"]

\* The command is reported; the error of the report is ignored.
AckCommand ==
  /\ sensor.at = "ack"
  /\ Transmit(Ack) /\ Reported
  /\ UNCHANGED <<issued, expired, snaps, runs>>

\* The daemon of the sensor stops and starts again.
RestartSensor ==
  /\ Pay("crashes")
  /\ sensor' = Idle
  /\ UNCHANGED <<controller, snaps, late, runs>>

Loop == SendSnapshot \/ SkipSnapshot \/ FetchCommands \/ HandleCommand \/ AckCommand

Next ==
  \/ \E timed \in BOOLEAN : QueueCommand(timed)
  \/ \E c \in ToSet(hub.commands) : Expire(c)
  \/ RestartHub
  \/ \E m \in late : LateArrives(m)
  \/ Loop \/ FetchFails \/ RestartSensor

Spec == Init /\ [][Next]_vars

\* The loop of the sensor goes on; nothing else has to happen.
FairSpec == Spec /\ WF_vars(Loop)

-----------------------------------------------------------------------------
\* The types; the list is bounded and in the order of issue.
TypeOK ==
  /\ \A h \in {hub, disk} : /\ h \in [commands : Seq(Commands), snapshot : 0..snaps]
                            /\ Len(h.commands) <= QueueLimit
                            /\ \A i, j \in 1..Len(h.commands) :
                                 i < j => h.commands[i].id < h.commands[j].id
  /\ issued \in 0..MaxCommands /\ expired \subseteq 1..issued
  /\ sensor \in [at : {"send", "fetch", "handle", "ack"}, batch : Seq(1..issued),
                 outcome : Outcomes]
  /\ sensor.at \in {"handle", "ack"} <=> sensor.batch # <<>>
  /\ snaps \in 0..MaxSnapshots /\ late \subseteq Acks \cup Snapshots
  /\ runs \in Seq([id : 1..issued, state : Outcomes]) /\ Len(runs) <= MaxRuns
  /\ spent \in [losses : Nat, crashes : Nat, restarts : Nat, failures : Nat]

\* What the controller shows of the fleet is true.  The outcome of a command is
\* that of an execution of this command ("the sensor decides how to apply them
\* and reports completion", comment of FleetCommand), through late reports,
\* lost saves and restarts.  Unless a save fails, a command the operator was
\* told is queued is there until 200 newer ones follow it; unless a request is
\* lost as well, the snapshot, whose age is the sensor's health, is the last one.
FleetTruthful ==
  /\ \A c \in ToSet(hub.commands) :
       c.state # "queued" => [id |-> c.id, state |-> c.state] \in ToSet(runs)
  /\ spent.failures = 0 =>
       {c.id : c \in ToSet(hub.commands)} = {i \in 1..issued : i + QueueLimit > issued}
  /\ spent.failures = 0 /\ spent.losses = 0 => hub.snapshot = snaps

\* While no report is lost, no save fails and the sensor does not restart,
\* commands are executed in the order in which they were queued and none twice,
\* whenever the controller restarts.
OrderKept ==
  spent.losses = 0 /\ spent.failures = 0 /\ spent.crashes = 0 =>
    \A i, j \in 1..Len(runs) : i < j => runs[i].id < runs[j].id

\* The fleet follows its operator, who sees what it does.
FleetFollows == TypeOK /\ FleetTruthful /\ OrderKept

\* A command without TTL is executed and reported, or dropped for newer ones,
\* when only finitely many requests are lost.  (A timed one whose report is lost
\* stays queued for ever once its TTL has passed.)
CommandsSettle ==
  \A i \in Ids :
    []((\E c \in ToSet(hub.commands) : c.id = i /\ c.state = "queued" /\ ~c.timed)
         => <>(\A c \in ToSet(hub.commands) : c.id = i => c.state # "queued"))
=============================================================================
