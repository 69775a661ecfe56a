------------------------------ MODULE PacketPath ------------------------------
(***************************************************************************)
(* What one captured frame does to the shared state of the engine          *)
(* (internal/pipeline/pipeline.go: processFrame, recordPacket,             *)
(* publishTelemetry, maintenance, VisiblePackets; internal/flow/store.go). *)
(* Frames come from the processor goroutine ("live") and from an operator  *)
(* who replays a file ("replay", ReplayFile runs on an HTTP goroutine of   *)
(* the same engine); the maintenance goroutine forgets idle flows, first   *)
(* in the flow store and then, one by one, in the protocol inspector.      *)
(*                                                                         *)
(* Every call that takes a lock of its own is a step.  What a flow is made *)
(* of is left out, except what the steps decide by: when it was last seen, *)
(* whether it is the sensor's own traffic, and its risk.                   *)
(***************************************************************************)
EXTENDS Integers, Sequences, FiniteSets

CONSTANTS Conns,         \* connections: the keys of flows
          ConsoleConns,  \* those of the sensor's own console
          FlowIdle,      \* idle time after which a flow is collected
          PacketHistory, \* packetHistoryLimit
          LastTick,      \* bound on the clock
          MaxPathFrames      \* bound on the frames of both sources together

ASSUME PacketPathAssumption ==
  /\ Conns # {} /\ ConsoleConns \subseteq Conns
  /\ {FlowIdle, PacketHistory, LastTick, MaxPathFrames} \subseteq Nat
  /\ PacketHistory > 0

FrameSources == {"live", "replay"}
Scores == 0..1
NoFlow == [seen |-> -1, sensor |-> FALSE, risk |-> 0]

VARIABLES flowStore,   \* Store.flows
          inspected,   \* the keys of DPI.states
          step,        \* where each source is, and what it holds
          packets,     \* Engine.packets
          counted,     \* connections whose packets the telemetry has counted
          collecting,  \* flows the store has dropped and DPI has still to
          tick,        \* the clock
          frames,      \* frames taken
          \* of every flow that is stored (history)
          told         \* [live: a live frame reached it; finding: one was raised]
pathVars == <<flowStore, inspected, step, packets, counted, collecting, tick, frames, told>>

NothingTold == [live |-> FALSE, finding |-> FALSE]
Waiting == [at |-> "wait", conn |-> CHOOSE c \in Conns : TRUE, time |-> 0, own |-> FALSE,
            score |-> 0]

PathInit ==
  /\ flowStore = [c \in Conns |-> NoFlow] /\ inspected = {}
  /\ step = [s \in FrameSources |-> Waiting]
  /\ packets = <<>> /\ counted = {} /\ collecting = {}
  /\ tick = 0 /\ frames = 0
  /\ told = [c \in Conns |-> NothingTold]

Stored(c) == flowStore[c] # NoFlow
Is(s, where) == step[s].at = where
Goto(s, next) == step' = [step EXCEPT ![s] = next]

\* isConsoleTraffic, or the process table knows the connection as our own:
\* only asked of live frames.
SensorTraffic(s, c) == s = "live" /\ c \in ConsoleConns

\* A frame that cannot be decoded is only counted; a live one carries the time
\* it was captured at, a replayed one any earlier time.
TakeFrame(s, c, at) ==
  /\ Is(s, "wait") /\ frames < MaxPathFrames
  /\ s = "live" => at = tick
  /\ at <= tick
  /\ frames' = frames + 1
  /\ Goto(s, [Waiting EXCEPT !.at = "inspect", !.conn = c, !.time = at,
                             !.own = SensorTraffic(s, c)])
  /\ UNCHANGED <<flowStore, inspected, packets, counted, collecting, tick, told>>

\* DPI.InspectObserved makes the inspection state of the connection.
Inspect(s) ==
  /\ Is(s, "inspect")
  /\ inspected' = inspected \union {step[s].conn}
  /\ Goto(s, [step[s] EXCEPT !.at = "observe"])
  /\ UNCHANGED <<flowStore, packets, counted, collecting, tick, frames, told>>

\* Store.Observe: the flow is made or brought up to date, and a copy returned.
ObserveFlow(s) ==
  LET c == step[s].conn IN
  /\ Is(s, "observe")
  /\ flowStore' = [flowStore EXCEPT ![c].seen = step[s].time]
  /\ Goto(s, [step[s] EXCEPT !.at = "mark", !.own = @ \/ flowStore[c].sensor])
  /\ told' = [told EXCEPT ![c] = [live    |-> (@.live /\ Stored(c)) \/ s = "live",
                                  finding |-> @.finding /\ Stored(c)]]
  /\ UNCHANGED <<inspected, packets, counted, collecting, tick, frames>>

\* The sensor's own traffic is marked in the store, whoever made the flow.
MarkCopyOnly(c) == flowStore  \* a plausible bug: only the copy of the flow is marked
MarkSensorTraffic(c) == [flowStore EXCEPT ![c].sensor = @ \/ Stored(c)]
MarkIfOwn(s) == IF step[s].own THEN MarkSensorTraffic(step[s].conn) ELSE flowStore
MarkThenInspect(s) ==  \* a plausible bug: inspected after the flow is made
  /\ Is(s, "mark")
  /\ flowStore' = MarkIfOwn(s) /\ inspected' = inspected \union {step[s].conn}
  /\ Goto(s, [step[s] EXCEPT !.at = "record"])
  /\ UNCHANGED <<packets, counted, collecting, tick, frames, told>>
MarkOwn(s) ==
  /\ Is(s, "mark")
  /\ flowStore' = MarkIfOwn(s)
  /\ Goto(s, [step[s] EXCEPT !.at = "record"])
  /\ UNCHANGED <<inspected, packets, counted, collecting, tick, frames, told>>

\* recordPacket: the oldest summary makes room for the new one.
Kept(ring, p) ==
  Append(IF Len(ring) >= PacketHistory
         THEN SubSeq(ring, Len(ring) - PacketHistory + 2, Len(ring)) ELSE ring, p)
RecordPacket(s) ==
  /\ Is(s, "record")
  /\ packets' = Kept(packets, [conn |-> step[s].conn, source |-> s, sensor |-> step[s].own])
  /\ Goto(s, [step[s] EXCEPT !.at = "judge"])
  /\ UNCHANGED <<flowStore, inspected, counted, collecting, tick, frames, told>>

\* The detectors run on the copy of the flow; findings are added to the store of
\* findings and announced before the score reaches the flow.
Judge(s, score) ==
  LET c == step[s].conn IN
  /\ Is(s, "judge")
  /\ Goto(s, [step[s] EXCEPT !.at = "risk", !.score = score])
  /\ told' = [told EXCEPT ![c].finding = @ \/ (score > 0 /\ Stored(c))]
  /\ UNCHANGED <<flowStore, inspected, packets, counted, collecting, tick, frames>>

\* SetRisk, only of a frame that raised something.
SetRisk(c, score) ==
  IF score > 0 /\ Stored(c) THEN [flowStore EXCEPT ![c].risk = score] ELSE flowStore
Score(s) ==
  /\ Is(s, "risk")
  /\ flowStore' = SetRisk(step[s].conn, step[s].score)
  /\ Goto(s, [step[s] EXCEPT !.at = "publish"])
  /\ UNCHANGED <<inspected, packets, counted, collecting, tick, frames, told>>

\* publishTelemetry, and the live counters of traffic that is not our own.
Counts(s) == s = "live" /\ ~step[s].own
Publish(s) ==
  /\ Is(s, "publish")
  /\ counted' = counted \union {c \in {step[s].conn} : Counts(s)}
  /\ Goto(s, Waiting)
  /\ UNCHANGED <<flowStore, inspected, packets, collecting, tick, frames, told>>

\* maintenance: Store.GC under its lock, then DPI.Forget of each flow it dropped.
Expired(c) == Stored(c) /\ tick - flowStore[c].seen > FlowIdle
CollectFlows ==
  /\ collecting = {}
  /\ collecting' = {c \in Conns : Expired(c)} /\ collecting' # {}
  /\ flowStore' = [c \in Conns |-> IF Expired(c) THEN NoFlow ELSE flowStore[c]]
  /\ UNCHANGED <<inspected, step, packets, counted, tick, frames, told>>
Forget(c) ==
  /\ c \in collecting
  /\ collecting' = collecting \ {c} /\ inspected' = inspected \ {c}
  /\ UNCHANGED <<flowStore, step, packets, counted, tick, frames, told>>

PathTick ==
  /\ tick < LastTick /\ tick' = tick + 1
  /\ UNCHANGED <<flowStore, inspected, step, packets, counted, collecting, frames, told>>

PathNext ==
  \/ \E s \in FrameSources :
       \/ \E c \in Conns, at \in 0..LastTick : TakeFrame(s, c, at)
       \/ Inspect(s) \/ ObserveFlow(s) \/ MarkOwn(s) \/ RecordPacket(s)
       \/ \E score \in Scores : Judge(s, score)
       \/ Score(s) \/ Publish(s)
  \/ CollectFlows
  \/ \E c \in Conns : Forget(c)
  \/ PathTick

PathSpec == PathInit /\ [][PathNext]_pathVars

-----------------------------------------------------------------------------
\* VisibleFlows and VisiblePackets, what the live views show.
VisibleFlows == {c \in Conns : Stored(c) /\ ~flowStore[c].sensor}
VisiblePackets == {packets[i] : i \in {j \in 1..Len(packets) : ~packets[j].sensor}}

Quiet == collecting = {} /\ \A s \in FrameSources : Is(s, "wait")

\* The console's traffic stays out of the live views: none of its live packets
\* is shown or counted, and once no frame is half way through, a flow of the
\* console that a live frame has reached is not shown, whatever a replay of the
\* same connection and the collector did in between.
OwnTrafficHidden ==
  /\ \A p \in VisiblePackets : p.source = "live" => p.conn \notin ConsoleConns
  /\ counted \cap ConsoleConns = {}
  /\ Quiet => \A c \in VisibleFlows \cap ConsoleConns : ~told[c].live

\* The inspector keeps no state of a connection the store has forgotten: the
\* frame is inspected before its flow is made and forgotten after it is dropped.
InspectionIsForgotten == Quiet => \A c \in inspected : Stored(c)
=============================================================================
