----------------------------- MODULE FlowProofs -----------------------------
(***************************************************************************)
(* Proofs about what becomes of the packets: about PacketPath, for any     *)
(* connections, those of the console among them, any length of the packet  *)
(* history and any idle time; about FlowExport, for any flows, any size of *)
(* the queue and any number of packets, failures and edits of the          *)
(* collector; and about Recorder, for any interfaces, size of the channel, *)
(* of a segment and of the disk budget, any number of callers of Protect   *)
(* and of prunes at work, and any number of file errors.                   *)
(***************************************************************************)
EXTENDS PacketPath, FlowExport, Recorder, SequenceTheorems, FiniteSetTheorems,
        WellFoundedInduction, TLAPS

-----------------------------------------------------------------------------
StepNames == {"wait", "inspect", "observe", "mark", "record", "judge", "risk", "publish"}
Flow == [seen : Int, sensor : BOOLEAN, risk : Scores]
Step == [at : StepNames, conn : Conns, time : Nat, own : BOOLEAN, score : Scores]
Packet == [conn : Conns, source : FrameSources, sensor : BOOLEAN]

\* The types of the state; a flow that is stored has been seen at some time.
PathTypeOK ==
  /\ flowStore \in [Conns -> Flow]
  /\ \A c \in Conns : Stored(c) => flowStore[c].seen # -1
  /\ step \in [FrameSources -> Step]
  /\ packets \in Seq(Packet)
  /\ {inspected, counted, collecting} \subseteq SUBSET Conns
  /\ tick \in Nat
  /\ told \in [Conns -> [live : BOOLEAN, finding : BOOLEAN]]

\* What the inspector knows is stored, or about to be: between Inspect and
\* ObserveFlow the frame holds it, between CollectFlows and Forget the collector.
AboutToStore(c) == \E s \in FrameSources : Is(s, "observe") /\ step[s].conn = c
Remembered == \A c \in inspected : Stored(c) \/ c \in collecting \/ AboutToStore(c)

\* A live frame of the console is known for the sensor's own from the start to
\* the end, and so are its packets; its flow is marked one step after it is made.
OwnFrame ==
  ~Is("live", "wait") /\ step["live"].conn \in ConsoleConns => step["live"].own
OwnPackets ==
  \A i \in 1..Len(packets) :
    packets[i].source = "live" /\ packets[i].conn \in ConsoleConns => packets[i].sensor
AboutToMark(c) == Is("live", "mark") /\ step["live"].conn = c
OwnFlows ==
  \A c \in ConsoleConns :
    Stored(c) /\ told[c].live => flowStore[c].sensor \/ AboutToMark(c)
OwnHidden == OwnFrame /\ OwnPackets /\ counted \cap ConsoleConns = {} /\ OwnFlows

PathInv == PathTypeOK /\ Remembered /\ OwnHidden

-----------------------------------------------------------------------------
LEMMA WaitingType == Waiting \in Step /\ NoFlow \in Flow
  BY PacketPathAssumption DEF Waiting, NoFlow, Step, StepNames, Flow, Scores

\* A source goes to another place and the other stays where it is.
LEMMA GotoStep ==
  ASSUME PathTypeOK, NEW s \in FrameSources, NEW next \in Step, Goto(s, next)
  PROVE  /\ step' \in [FrameSources -> Step] /\ step'[s] = next
         /\ \A q \in FrameSources \ {s} : step'[q] = step[q]
  BY DEF PathTypeOK, Goto

\* recordPacket keeps what holds of every packet in the ring and of the new one.
LEMMA KeptPackets ==
  ASSUME NEW ring \in Seq(Packet), NEW p \in Packet
  PROVE  /\ Kept(ring, p) \in Seq(Packet)
         /\ \A i \in 1..Len(Kept(ring, p)) :
              Kept(ring, p)[i] = p \/ \E j \in 1..Len(ring) : Kept(ring, p)[i] = ring[j]
<1> DEFINE n == Len(ring)
           old == IF n >= PacketHistory THEN SubSeq(ring, n - PacketHistory + 2, n) ELSE ring
<1>1. n \in Nat /\ PacketHistory \in Nat \ {0}
  BY PacketPathAssumption
<1>2. /\ old \in Seq(Packet)
      /\ \A i \in 1..Len(old) : \E j \in 1..n : old[i] = ring[j]
  <2>1. CASE n >= PacketHistory
    <3> DEFINE m == n - PacketHistory + 2
    <3>1. m \in 1..(n + 1) /\ old = SubSeq(ring, m, n)
      BY <1>1, <2>1
    <3> HIDE DEF old, m
    <3>2. /\ old \in Seq(Packet) /\ Len(old) = n - m + 1
          /\ \A i \in 1..(n - m + 1) : old[i] = ring[m + i - 1]
      BY <1>1, <3>1, SubSeqProperties
    <3>3. \A i \in 1..(n - m + 1) : m + i - 1 \in 1..n
      BY <1>1, <3>1
    <3> QED BY <3>2, <3>3
  <2>2. CASE ~(n >= PacketHistory)
    BY <2>2
  <2> QED BY <2>1, <2>2
<1>3. Kept(ring, p) = Append(old, p)
  BY DEF Kept
<1> HIDE DEF old
<1>4. /\ Append(old, p) \in Seq(Packet) /\ Len(Append(old, p)) = Len(old) + 1
      /\ \A i \in 1..Len(old) : Append(old, p)[i] = old[i]
      /\ Append(old, p)[Len(old) + 1] = p
  BY <1>2, AppendProperties
<1>5. Len(old) \in Nat
  BY <1>2
<1>6. \A i \in 1..(Len(old) + 1) : i = Len(old) + 1 \/ i \in 1..Len(old)
  BY <1>5
<1> QED BY <1>2, <1>3, <1>4, <1>6

LEMMA PathInitInv == PathInit => PathInv
<1> SUFFICES ASSUME PathInit PROVE PathInv
  OBVIOUS
<1>1. PathTypeOK
  BY WaitingType DEF PathInit, PathTypeOK, Stored, NothingTold
<1>2. OwnHidden
  <2>1. OwnFrame
    BY DEF PathInit, OwnFrame, Is, Waiting, FrameSources
  <2>2. OwnPackets
    BY DEF PathInit, OwnPackets
  <2>3. OwnFlows
    BY PacketPathAssumption DEF PathInit, OwnFlows, Stored
  <2> QED BY <2>1, <2>2, <2>3 DEF PathInit, OwnHidden
<1> QED BY <1>1, <1>2 DEF PathInit, PathInv, Remembered

\* A step of a frame that leaves the flows, the packets and the connections known
\* to the inspector alone, and is not one that the invariant waits for.
LEMMA FrameMoves ==
  ASSUME PathInv, NEW s \in FrameSources, NEW next \in Step, Goto(s, next),
         ~Is(s, "wait"), ~Is(s, "observe"), ~Is(s, "mark"), next.at \notin {"observe", "mark"},
         next.at # "wait" => next.conn = step[s].conn /\ next.own = step[s].own,
         UNCHANGED <<flowStore, inspected, packets, counted, collecting, tick>>,
         told' \in [Conns -> [live : BOOLEAN, finding : BOOLEAN]],
         \A c \in Conns : told'[c].live = told[c].live
  PROVE  PathInv'
<1>1. /\ step' \in [FrameSources -> Step] /\ step'[s] = next
      /\ \A q \in FrameSources \ {s} : step'[q] = step[q]
  BY GotoStep DEF PathInv
<1>2. PathTypeOK'
  BY <1>1 DEF PathInv, PathTypeOK, Stored
<1>3. \A c : AboutToStore(c) => AboutToStore(c)'
  BY <1>1 DEF AboutToStore, Is
<1>4. Remembered'
  BY <1>3 DEF PathInv, Remembered, Stored
<1>5. "live" \in FrameSources
  BY DEF FrameSources
<1>6. \A c : AboutToMark(c) => AboutToMark(c)'
  BY <1>1, <1>5 DEF AboutToMark, Is
<1>7. OwnFrame'
  BY <1>1, <1>5 DEF PathInv, OwnHidden, OwnFrame, Is
<1>8. OwnFlows'
  BY <1>6, PacketPathAssumption DEF PathInv, OwnHidden, OwnFlows, Stored
<1>9. OwnPackets' /\ counted' \cap ConsoleConns = {}
  BY DEF PathInv, OwnHidden, OwnPackets
<1> QED BY <1>2, <1>4, <1>7, <1>8, <1>9 DEF PathInv, OwnHidden

LEMMA TakeFrameInv ==
  ASSUME PathInv, NEW s \in FrameSources, NEW c \in Conns, NEW at \in 0..LastTick,
         TakeFrame(s, c, at)
  PROVE  PathInv'
<1> DEFINE next == [Waiting EXCEPT !.at = "inspect", !.conn = c, !.time = at,
                                   !.own = SensorTraffic(s, c)]
<1>1. next \in Step /\ next.at = "inspect" /\ next.conn = c /\ next.own = SensorTraffic(s, c)
  <2>1. SensorTraffic(s, c) \in BOOLEAN
    BY DEF SensorTraffic
  <2>2. at \in Nat
    BY PacketPathAssumption
  <2> QED BY <2>1, <2>2, WaitingType DEF Step, StepNames
<1>2. Goto(s, next) /\ Is(s, "wait")
      /\ UNCHANGED <<flowStore, inspected, packets, counted, collecting, tick, told>>
  BY DEF TakeFrame
<1> HIDE DEF next
<1>3. /\ step' \in [FrameSources -> Step] /\ step'[s] = next
      /\ \A q \in FrameSources \ {s} : step'[q] = step[q]
  BY <1>1, <1>2, GotoStep DEF PathInv
<1>4. PathTypeOK'
  BY <1>2, <1>3 DEF PathInv, PathTypeOK, Stored
<1>5. \A d : AboutToStore(d) => AboutToStore(d)'
  BY <1>2, <1>3 DEF AboutToStore, Is
<1>6. Remembered'
  BY <1>2, <1>5 DEF PathInv, Remembered, Stored
<1>7. "live" \in FrameSources
  BY DEF FrameSources
<1>8. OwnFrame'
  BY <1>1, <1>3, <1>7 DEF PathInv, OwnHidden, OwnFrame, Is, SensorTraffic
<1>9. \A d : AboutToMark(d) => AboutToMark(d)'
  BY <1>2, <1>3, <1>7 DEF AboutToMark, Is
<1>10. OwnFlows' /\ OwnPackets' /\ counted' \cap ConsoleConns = {}
  BY <1>2, <1>9 DEF PathInv, OwnHidden, OwnFlows, OwnPackets, Stored
<1> QED BY <1>4, <1>6, <1>8, <1>10 DEF PathInv, OwnHidden

LEMMA InspectInv ==
  ASSUME PathInv, NEW s \in FrameSources, Inspect(s)
  PROVE  PathInv'
<1> DEFINE next == [step[s] EXCEPT !.at = "observe"]
<1>0. step[s] \in Step
  BY DEF PathInv, PathTypeOK
<1>1. next \in Step /\ next.at = "observe" /\ next.conn = step[s].conn /\ next.own = step[s].own
  BY <1>0 DEF Step, StepNames
<1>2. Goto(s, next) /\ Is(s, "inspect") /\ inspected' = inspected \union {step[s].conn}
      /\ UNCHANGED <<flowStore, packets, counted, collecting, tick, told>>
  BY DEF Inspect
<1> HIDE DEF next
<1>3. /\ step' \in [FrameSources -> Step] /\ step'[s] = next
      /\ \A q \in FrameSources \ {s} : step'[q] = step[q]
  BY <1>1, <1>2, GotoStep DEF PathInv
<1>4. PathTypeOK'
  <2>1. inspected' \in SUBSET Conns
    BY <1>0, <1>2 DEF PathInv, PathTypeOK, Step
  <2> QED BY <1>2, <1>3, <2>1 DEF PathInv, PathTypeOK, Stored
<1>5. \A d : AboutToStore(d) => AboutToStore(d)'
  BY <1>2, <1>3 DEF AboutToStore, Is
<1>6. \E q \in FrameSources : step'[q].at = "observe" /\ step'[q].conn = step[s].conn
  BY <1>1, <1>3
<1>7. Remembered'
  BY <1>2, <1>5, <1>6 DEF PathInv, Remembered, Stored, AboutToStore, Is
<1>8. "live" \in FrameSources
  BY DEF FrameSources
<1>9. OwnFrame'
  BY <1>1, <1>2, <1>3, <1>8 DEF PathInv, OwnHidden, OwnFrame, Is
<1>10. \A d : AboutToMark(d) => AboutToMark(d)'
  BY <1>2, <1>3, <1>8 DEF AboutToMark, Is
<1>11. OwnFlows' /\ OwnPackets' /\ counted' \cap ConsoleConns = {}
  BY <1>2, <1>10 DEF PathInv, OwnHidden, OwnFlows, OwnPackets, Stored
<1> QED BY <1>4, <1>7, <1>9, <1>11 DEF PathInv, OwnHidden

LEMMA ObserveFlowInv ==
  ASSUME PathInv, NEW s \in FrameSources, ObserveFlow(s)
  PROVE  PathInv'
<1>0. PICK c \in Conns : c = step[s].conn
  BY DEF PathInv, PathTypeOK, Step
<1> DEFINE next == [step[s] EXCEPT !.at = "mark", !.own = @ \/ flowStore[c].sensor]
<1>1. /\ step[s] \in Step /\ flowStore[c] \in Flow /\ told[c] \in [live : BOOLEAN, finding : BOOLEAN]
      /\ NoFlow \in Flow
  BY WaitingType DEF PathInv, PathTypeOK
<1>2. /\ next \in Step /\ next.at = "mark" /\ next.conn = c
      /\ next.own = (step[s].own \/ flowStore[c].sensor)
  BY <1>0, <1>1 DEF Step, StepNames, Flow
<1>3. /\ Goto(s, next) /\ Is(s, "observe")
      /\ flowStore' = [flowStore EXCEPT ![c].seen = step[s].time]
      /\ told' = [told EXCEPT ![c] = [live    |-> (@.live /\ Stored(c)) \/ s = "live",
                                      finding |-> @.finding /\ Stored(c)]]
      /\ UNCHANGED <<inspected, packets, counted, collecting, tick>>
  BY <1>0 DEF ObserveFlow
<1> HIDE DEF next
<1>4. /\ step' \in [FrameSources -> Step] /\ step'[s] = next
      /\ \A q \in FrameSources \ {s} : step'[q] = step[q]
  BY <1>2, <1>3, GotoStep DEF PathInv
<1>5. /\ flowStore' \in [Conns -> Flow]
      /\ flowStore'[c].seen = step[s].time /\ flowStore'[c].sensor = flowStore[c].sensor
      /\ \A d \in Conns \ {c} : flowStore'[d] = flowStore[d]
  <2> DEFINE f == [flowStore[c] EXCEPT !.seen = step[s].time]
  <2>1. f \in Flow /\ f.seen = step[s].time /\ f.sensor = flowStore[c].sensor
    BY <1>1 DEF Flow, Step
  <2>2. flowStore' = [flowStore EXCEPT ![c] = f]
    BY <1>3
  <2> HIDE DEF f
  <2> QED BY <2>1, <2>2 DEF PathInv, PathTypeOK
<1>6. step[s].time # -1 /\ NoFlow.seen = -1 /\ ~NoFlow.sensor
  BY <1>1 DEF Step, NoFlow
<1>7. /\ told' \in [Conns -> [live : BOOLEAN, finding : BOOLEAN]]
      /\ told'[c].live = ((told[c].live /\ Stored(c)) \/ s = "live")
      /\ \A d \in Conns \ {c} : told'[d] = told[d]
  BY <1>1, <1>3 DEF PathInv, PathTypeOK, Stored
<1>8. flowStore'[c] # NoFlow
  BY <1>5, <1>6
<1>9. PathTypeOK'
  <2>1. \A d \in Conns : flowStore'[d] # NoFlow => flowStore'[d].seen # -1
    BY <1>5, <1>6 DEF PathInv, PathTypeOK, Stored
  <2> QED BY <1>3, <1>4, <1>5, <1>7, <2>1 DEF PathInv, PathTypeOK, Stored
<1>10. Remembered'
  <2> SUFFICES ASSUME NEW d \in inspected
               PROVE  flowStore'[d] # NoFlow \/ d \in collecting \/ AboutToStore(d)'
    BY <1>3 DEF Remembered, Stored
  <2>1. CASE d = c
    BY <1>8, <2>1
  <2>2. CASE d # c
    <3>1. d \in Conns
      BY DEF PathInv, PathTypeOK
    <3>2. AboutToStore(d) => AboutToStore(d)'
      BY <1>0, <1>4, <2>2 DEF AboutToStore, Is
    <3> QED BY <1>5, <2>2, <3>1, <3>2 DEF PathInv, Remembered, Stored
  <2> QED BY <2>1, <2>2
<1>11. "live" \in FrameSources
  BY DEF FrameSources
<1>12. OwnFrame'
  BY <1>0, <1>2, <1>3, <1>4, <1>11 DEF PathInv, OwnHidden, OwnFrame, Is
<1>13. OwnFlows'
  <2> SUFFICES ASSUME NEW d \in ConsoleConns, flowStore'[d] # NoFlow, told'[d].live
               PROVE  flowStore'[d].sensor \/ (step'["live"].at = "mark" /\ step'["live"].conn = d)
    BY DEF OwnFlows, Stored, AboutToMark, Is
  <2>0. d \in Conns
    BY PacketPathAssumption
  <2>1. CASE d = c /\ s = "live"
    BY <1>2, <1>4, <2>1
  <2>2. CASE d = c /\ s # "live"
    <3>1. told[d].live /\ Stored(d) /\ step'["live"] = step["live"]
      BY <1>4, <1>7, <1>11, <2>2
    <3> QED BY <1>5, <2>2, <3>1 DEF PathInv, OwnHidden, OwnFlows, AboutToMark, Is
  <2>3. CASE d # c
    <3>1. flowStore'[d] = flowStore[d] /\ told'[d] = told[d]
      BY <1>5, <1>7, <2>0, <2>3
    <3>2. AboutToMark(d) => step'["live"] = step["live"]
      BY <1>3, <1>4, <1>11 DEF AboutToMark, Is
    <3> QED BY <3>1, <3>2 DEF PathInv, OwnHidden, OwnFlows, Stored, AboutToMark, Is
  <2> QED BY <2>1, <2>2, <2>3
<1>14. OwnPackets' /\ counted' \cap ConsoleConns = {}
  BY <1>3 DEF PathInv, OwnHidden, OwnPackets
<1> QED BY <1>9, <1>10, <1>12, <1>13, <1>14 DEF PathInv, OwnHidden

LEMMA MarkOwnInv ==
  ASSUME PathInv, NEW s \in FrameSources, MarkOwn(s)
  PROVE  PathInv'
<1>0. PICK c \in Conns : c = step[s].conn
  BY DEF PathInv, PathTypeOK, Step
<1> DEFINE next == [step[s] EXCEPT !.at = "record"]
<1>1. step[s] \in Step /\ flowStore[c] \in Flow /\ NoFlow \in Flow /\ ~NoFlow.sensor
  BY WaitingType DEF PathInv, PathTypeOK, NoFlow
<1>2. next \in Step /\ next.at = "record" /\ next.conn = c /\ next.own = step[s].own
  BY <1>0, <1>1 DEF Step, StepNames
<1>3. /\ Goto(s, next) /\ Is(s, "mark") /\ flowStore' = MarkIfOwn(s)
      /\ UNCHANGED <<inspected, packets, counted, collecting, tick, told>>
  BY DEF MarkOwn
<1> HIDE DEF next
<1>4. /\ step' \in [FrameSources -> Step] /\ step'[s] = next
      /\ \A q \in FrameSources \ {s} : step'[q] = step[q]
  BY <1>2, <1>3, GotoStep DEF PathInv
<1>5. /\ flowStore' \in [Conns -> Flow]
      /\ \A d \in Conns : flowStore'[d].seen = flowStore[d].seen
      /\ \A d \in Conns \ {c} : flowStore'[d] = flowStore[d]
      /\ flowStore[c].sensor => flowStore'[c].sensor
      /\ step[s].own /\ Stored(c) => flowStore'[c].sensor
      /\ ~Stored(c) => flowStore'[c] = flowStore[c]
  <2>1. CASE ~step[s].own
    BY <1>3, <2>1 DEF MarkIfOwn, PathInv, PathTypeOK
  <2>2. CASE step[s].own
    <3>1. flowStore' = [flowStore EXCEPT ![c].sensor = @ \/ Stored(c)]
      BY <1>0, <1>3, <2>2 DEF MarkIfOwn, MarkSensorTraffic
    <3>2. Stored(c) \in BOOLEAN /\ (~Stored(c) => flowStore[c] = NoFlow)
      BY DEF Stored
    <3>3. /\ flowStore' \in [Conns -> Flow]
          /\ \A d \in Conns : flowStore'[d].seen = flowStore[d].seen
          /\ \A d \in Conns \ {c} : flowStore'[d] = flowStore[d]
          /\ flowStore'[c].sensor = (flowStore[c].sensor \/ Stored(c))
          /\ flowStore'[c].risk = flowStore[c].risk
      BY <1>1, <3>1, <3>2 DEF PathInv, PathTypeOK, Flow
    <3>4. ~Stored(c) => flowStore'[c] = flowStore[c]
      BY <1>1, <3>2, <3>3 DEF Flow
    <3> QED BY <3>3, <3>4
  <2> QED BY <2>1, <2>2 DEF PathInv, PathTypeOK, Step
<1>6. \A d \in Conns : flowStore'[d] # NoFlow <=> flowStore[d] # NoFlow
  <2>1. Stored(c) => flowStore'[c].seen # -1
    BY <1>5 DEF PathInv, PathTypeOK
  <2>2. NoFlow.seen = -1
    BY DEF NoFlow
  <2> QED BY <1>5, <2>1, <2>2 DEF Stored
<1>7. PathTypeOK'
  BY <1>3, <1>4, <1>5, <1>6 DEF PathInv, PathTypeOK, Stored
<1>8. Remembered'
  <2>1. \A d : AboutToStore(d) => AboutToStore(d)'
    BY <1>3, <1>4 DEF AboutToStore, Is
  <2>2. inspected \subseteq Conns
    BY DEF PathInv, PathTypeOK
  <2> QED BY <1>3, <1>6, <2>1, <2>2 DEF PathInv, Remembered, Stored
<1>9. "live" \in FrameSources
  BY DEF FrameSources
<1>10. OwnFrame'
  BY <1>0, <1>2, <1>3, <1>4, <1>9 DEF PathInv, OwnHidden, OwnFrame, Is
<1>11. OwnFlows'
  <2> SUFFICES ASSUME NEW d \in ConsoleConns, flowStore'[d] # NoFlow, told[d].live
               PROVE  flowStore'[d].sensor \/ (step'["live"].at = "mark" /\ step'["live"].conn = d)
    BY <1>3 DEF OwnFlows, Stored, AboutToMark, Is
  <2>1. d \in Conns /\ Stored(d)
    BY <1>6, PacketPathAssumption DEF Stored
  <2>2. flowStore[d].sensor => flowStore'[d].sensor
    BY <1>5, <2>1
  <2>3. CASE AboutToMark(d)
    <3>1. CASE s = "live"
      <4>1. d = c /\ step[s].own
        BY <1>0, <2>3, <3>1 DEF AboutToMark, PathInv, OwnHidden, OwnFrame, Is
      <4> QED BY <1>5, <2>1, <4>1
    <3>2. CASE s # "live"
      BY <1>4, <1>9, <2>3, <3>2 DEF AboutToMark, Is
    <3> QED BY <3>1, <3>2
  <2> QED BY <2>1, <2>2, <2>3 DEF PathInv, OwnHidden, OwnFlows
<1>12. OwnPackets' /\ counted' \cap ConsoleConns = {}
  BY <1>3 DEF PathInv, OwnHidden, OwnPackets
<1> QED BY <1>7, <1>8, <1>10, <1>11, <1>12 DEF PathInv, OwnHidden

LEMMA RecordPacketInv ==
  ASSUME PathInv, NEW s \in FrameSources, RecordPacket(s)
  PROVE  PathInv'
<1> DEFINE next == [step[s] EXCEPT !.at = "judge"]
           p == [conn |-> step[s].conn, source |-> s, sensor |-> step[s].own]
<1>0. step[s] \in Step /\ packets \in Seq(Packet)
  BY DEF PathInv, PathTypeOK
<1>1. /\ next \in Step /\ next.at = "judge" /\ next.conn = step[s].conn /\ next.own = step[s].own
      /\ p \in Packet /\ p.source = s /\ p.conn = step[s].conn /\ p.sensor = step[s].own
  BY <1>0 DEF Step, StepNames, Packet
<1>2. /\ Goto(s, next) /\ Is(s, "record") /\ packets' = Kept(packets, p)
      /\ UNCHANGED <<flowStore, inspected, counted, collecting, tick, told>>
  BY DEF RecordPacket
<1> HIDE DEF next, p
<1>3. /\ step' \in [FrameSources -> Step] /\ step'[s] = next
      /\ \A q \in FrameSources \ {s} : step'[q] = step[q]
  BY <1>1, <1>2, GotoStep DEF PathInv
<1>4. /\ packets' \in Seq(Packet)
      /\ \A i \in 1..Len(packets') :
           packets'[i] = p \/ \E j \in 1..Len(packets) : packets'[i] = packets[j]
  BY <1>0, <1>1, <1>2, KeptPackets
<1>5. PathTypeOK'
  BY <1>2, <1>3, <1>4 DEF PathInv, PathTypeOK, Stored
<1>6. Remembered'
  <2>1. \A d : AboutToStore(d) => AboutToStore(d)'
    BY <1>2, <1>3 DEF AboutToStore, Is
  <2> QED BY <1>2, <2>1 DEF PathInv, Remembered, Stored
<1>7. "live" \in FrameSources
  BY DEF FrameSources
<1>8. OwnFrame'
  BY <1>1, <1>2, <1>3, <1>7 DEF PathInv, OwnHidden, OwnFrame, Is
<1>9. OwnPackets'
  <2>1. p.source = "live" /\ p.conn \in ConsoleConns => p.sensor
    BY <1>1, <1>2 DEF PathInv, OwnHidden, OwnFrame, Is
  <2> QED BY <1>4, <2>1 DEF PathInv, OwnHidden, OwnPackets
<1>10. OwnFlows' /\ counted' \cap ConsoleConns = {}
  <2>1. \A d : AboutToMark(d) => AboutToMark(d)'
    BY <1>2, <1>3, <1>7 DEF AboutToMark, Is
  <2> QED BY <1>2, <2>1 DEF PathInv, OwnHidden, OwnFlows, Stored
<1> QED BY <1>5, <1>6, <1>8, <1>9, <1>10 DEF PathInv, OwnHidden

LEMMA JudgeInv ==
  ASSUME PathInv, NEW s \in FrameSources, NEW score \in Scores, Judge(s, score)
  PROVE  PathInv'
<1>0. PICK c \in Conns : c = step[s].conn
  BY DEF PathInv, PathTypeOK, Step
<1> DEFINE next == [step[s] EXCEPT !.at = "risk", !.score = score]
<1>1. step[s] \in Step /\ told[c] \in [live : BOOLEAN, finding : BOOLEAN]
  BY DEF PathInv, PathTypeOK
<1>2. next \in Step /\ next.at = "risk" /\ next.conn = step[s].conn /\ next.own = step[s].own
  BY <1>1 DEF Step, StepNames
<1>3. /\ Goto(s, next) /\ Is(s, "judge")
      /\ told' = [told EXCEPT ![c].finding = @ \/ (score > 0 /\ Stored(c))]
      /\ UNCHANGED <<flowStore, inspected, packets, counted, collecting, tick>>
  BY <1>0 DEF Judge
<1> HIDE DEF next
<1>4. /\ told' \in [Conns -> [live : BOOLEAN, finding : BOOLEAN]]
      /\ \A d \in Conns : told'[d].live = told[d].live
  BY <1>1, <1>3 DEF PathInv, PathTypeOK, Stored
<1> QED BY <1>2, <1>3, <1>4, FrameMoves DEF Is

LEMMA ScoreInv ==
  ASSUME PathInv, NEW s \in FrameSources, Score(s)
  PROVE  PathInv'
<1>0. PICK c \in Conns : c = step[s].conn
  BY DEF PathInv, PathTypeOK, Step
<1> DEFINE next == [step[s] EXCEPT !.at = "publish"]
<1>1. step[s] \in Step /\ flowStore[c] \in Flow
  BY DEF PathInv, PathTypeOK
<1>2. next \in Step /\ next.at = "publish" /\ next.conn = step[s].conn /\ next.own = step[s].own
  BY <1>1 DEF Step, StepNames
<1>3. /\ Goto(s, next) /\ Is(s, "risk") /\ flowStore' = SetRisk(c, step[s].score)
      /\ UNCHANGED <<inspected, packets, counted, collecting, tick, told>>
  BY <1>0 DEF Score
<1> HIDE DEF next
<1>4. /\ step' \in [FrameSources -> Step] /\ step'[s] = next
      /\ \A q \in FrameSources \ {s} : step'[q] = step[q]
  BY <1>2, <1>3, GotoStep DEF PathInv
<1>5. /\ flowStore' \in [Conns -> Flow]
      /\ \A d \in Conns : /\ flowStore'[d].seen = flowStore[d].seen
                          /\ flowStore'[d].sensor = flowStore[d].sensor
                          /\ flowStore'[d] # NoFlow <=> flowStore[d] # NoFlow
  <2>1. CASE step[s].score > 0 /\ Stored(c)
    <3> DEFINE f == [flowStore[c] EXCEPT !.risk = step[s].score]
    <3>1. f \in Flow /\ f.seen = flowStore[c].seen /\ f.sensor = flowStore[c].sensor
      BY <1>1 DEF Flow, Step
    <3>2. flowStore' = [flowStore EXCEPT ![c] = f]
      BY <1>3, <2>1 DEF SetRisk
    <3>3. f.seen # -1 /\ NoFlow.seen = -1
      BY <2>1, <3>1 DEF PathInv, PathTypeOK, NoFlow
    <3> HIDE DEF f
    <3>4. f # NoFlow /\ flowStore[c] # NoFlow
      BY <2>1, <3>3 DEF Stored
    <3> QED BY <3>1, <3>2, <3>4 DEF PathInv, PathTypeOK
  <2>2. CASE ~(step[s].score > 0 /\ Stored(c))
    BY <1>3, <2>2 DEF SetRisk, PathInv, PathTypeOK
  <2> QED BY <2>1, <2>2
<1>6. PathTypeOK'
  BY <1>3, <1>4, <1>5 DEF PathInv, PathTypeOK, Stored
<1>7. Remembered'
  <2>1. \A d : AboutToStore(d) => AboutToStore(d)'
    BY <1>3, <1>4 DEF AboutToStore, Is
  <2>2. inspected \subseteq Conns
    BY DEF PathInv, PathTypeOK
  <2> QED BY <1>3, <1>5, <2>1, <2>2 DEF PathInv, Remembered, Stored
<1>8. "live" \in FrameSources
  BY DEF FrameSources
<1>9. OwnFrame'
  BY <1>2, <1>3, <1>4, <1>8 DEF PathInv, OwnHidden, OwnFrame, Is
<1>10. OwnFlows'
  <2>1. \A d : AboutToMark(d) => AboutToMark(d)'
    BY <1>3, <1>4, <1>8 DEF AboutToMark, Is
  <2> QED BY <1>3, <1>5, <2>1, PacketPathAssumption DEF PathInv, OwnHidden, OwnFlows, Stored
<1>11. OwnPackets' /\ counted' \cap ConsoleConns = {}
  BY <1>3 DEF PathInv, OwnHidden, OwnPackets
<1> QED BY <1>6, <1>7, <1>9, <1>10, <1>11 DEF PathInv, OwnHidden

LEMMA PublishInv ==
  ASSUME PathInv, NEW s \in FrameSources, Publish(s)
  PROVE  PathInv'
<1>1. /\ Goto(s, Waiting) /\ Is(s, "publish") /\ Waiting \in Step /\ Waiting.at = "wait"
      /\ counted' = counted \union {c \in {step[s].conn} : Counts(s)}
      /\ UNCHANGED <<flowStore, inspected, packets, collecting, tick, told>>
  BY WaitingType DEF Publish, Waiting
<1>2. /\ step' \in [FrameSources -> Step] /\ step'[s] = Waiting
      /\ \A q \in FrameSources \ {s} : step'[q] = step[q]
  BY <1>1, GotoStep DEF PathInv
<1>3. step[s] \in Step /\ "live" \in FrameSources
  BY DEF PathInv, PathTypeOK, FrameSources
<1>4. counted' \in SUBSET Conns /\ counted' \cap ConsoleConns = {}
  <2>1. Counts(s) => step[s].conn \notin ConsoleConns
    BY <1>1 DEF Counts, PathInv, OwnHidden, OwnFrame, Is
  <2> QED BY <1>1, <1>3, <2>1 DEF PathInv, PathTypeOK, OwnHidden, Step
<1>5. PathTypeOK'
  BY <1>1, <1>2, <1>4 DEF PathInv, PathTypeOK, Stored
<1>6. Remembered'
  <2>1. \A d : AboutToStore(d) => AboutToStore(d)'
    BY <1>1, <1>2 DEF AboutToStore, Is
  <2> QED BY <1>1, <2>1 DEF PathInv, Remembered, Stored
<1>7. OwnFrame'
  BY <1>1, <1>2, <1>3 DEF PathInv, OwnHidden, OwnFrame, Is
<1>8. OwnFlows' /\ OwnPackets'
  <2>1. \A d : AboutToMark(d) => AboutToMark(d)'
    BY <1>1, <1>2, <1>3 DEF AboutToMark, Is
  <2> QED BY <1>1, <2>1 DEF PathInv, OwnHidden, OwnFlows, OwnPackets, Stored
<1> QED BY <1>4, <1>5, <1>6, <1>7, <1>8 DEF PathInv, OwnHidden

LEMMA CollectFlowsInv == ASSUME PathInv, CollectFlows PROVE PathInv'
<1>1. /\ collecting' = {c \in Conns : Expired(c)}
      /\ flowStore' = [c \in Conns |-> IF Expired(c) THEN NoFlow ELSE flowStore[c]]
      /\ collecting = {} /\ UNCHANGED <<inspected, step, packets, counted, tick, told>>
  BY DEF CollectFlows
<1>2. PathTypeOK'
  <2>1. flowStore' \in [Conns -> Flow]
    BY <1>1, WaitingType DEF PathInv, PathTypeOK
  <2>2. \A c \in Conns : flowStore'[c] # NoFlow => flowStore'[c].seen # -1
    BY <1>1 DEF PathInv, PathTypeOK, Stored
  <2> QED BY <1>1, <2>1, <2>2 DEF PathInv, PathTypeOK, Stored
<1>3. \A d : (AboutToStore(d)' <=> AboutToStore(d)) /\ (AboutToMark(d)' <=> AboutToMark(d))
  BY <1>1 DEF AboutToStore, AboutToMark, Is
<1>4. Remembered'
  BY <1>1, <1>3 DEF PathInv, PathTypeOK, Remembered, Stored
<1>5. OwnHidden'
  <2>1. OwnFlows'
    BY <1>1, <1>3, PacketPathAssumption DEF PathInv, OwnHidden, OwnFlows, Stored
  <2> QED BY <1>1, <2>1 DEF PathInv, OwnHidden, OwnFrame, OwnPackets, Is
<1> QED BY <1>2, <1>4, <1>5 DEF PathInv

LEMMA ForgetOrTickInv ==
  ASSUME PathInv, (\E c \in Conns : Forget(c)) \/ PathTick
  PROVE  PathInv'
<1>1. /\ UNCHANGED <<flowStore, step, packets, counted, told>>
      /\ tick' \in Nat
      /\ \/ UNCHANGED <<inspected, collecting>>
         \/ \E c \in Conns : inspected' = inspected \ {c} /\ collecting' = collecting \ {c}
  BY DEF Forget, PathTick, PathInv, PathTypeOK
<1>2. PathTypeOK'
  BY <1>1 DEF PathInv, PathTypeOK, Stored
<1>3. \A d : (AboutToStore(d)' <=> AboutToStore(d)) /\ (AboutToMark(d)' <=> AboutToMark(d))
  BY <1>1 DEF AboutToStore, AboutToMark, Is
<1>4. Remembered'
  BY <1>1, <1>3 DEF PathInv, Remembered, Stored
<1>5. OwnHidden'
  BY <1>1, <1>3 DEF PathInv, OwnHidden, OwnFrame, OwnPackets, OwnFlows, Is, Stored
<1> QED BY <1>2, <1>4, <1>5 DEF PathInv

LEMMA PathNextInv == PathInv /\ [PathNext]_pathVars => PathInv'
<1> SUFFICES ASSUME PathInv, [PathNext]_pathVars PROVE PathInv'
  OBVIOUS
<1>1. ASSUME NEW s \in FrameSources, NEW c \in Conns, NEW at \in 0..LastTick, TakeFrame(s, c, at)
      PROVE  PathInv'
  BY <1>1, TakeFrameInv
<1>2. ASSUME NEW s \in FrameSources,
             Inspect(s) \/ ObserveFlow(s) \/ MarkOwn(s) \/ RecordPacket(s) \/ Score(s) \/ Publish(s)
      PROVE  PathInv'
  BY <1>2, InspectInv, ObserveFlowInv, MarkOwnInv, RecordPacketInv, ScoreInv, PublishInv
<1>3. ASSUME NEW s \in FrameSources, NEW score \in Scores, Judge(s, score) PROVE PathInv'
  BY <1>3, JudgeInv
<1>4. CASE CollectFlows
  BY <1>4, CollectFlowsInv
<1>5. ASSUME (\E c \in Conns : Forget(c)) \/ PathTick PROVE PathInv'
  BY <1>5, ForgetOrTickInv
<1>6. CASE UNCHANGED pathVars
  BY <1>6 DEF pathVars, PathInv, PathTypeOK, Remembered, AboutToStore, OwnHidden, OwnFrame,
              OwnPackets, OwnFlows, AboutToMark, Is, Stored
<1> QED BY <1>1, <1>2, <1>3, <1>4, <1>5, <1>6 DEF PathNext

THEOREM PathInvariance == PathSpec => []PathInv
  BY PathInitInv, PathNextInv, PTL DEF PathSpec

\* The console's traffic stays out of the live views, for any connections and
\* frames of both sources in any interleaving with the collector.
THEOREM OwnTrafficHiddenCorrect == PathSpec => []OwnTrafficHidden
<1>1. PathInv => OwnTrafficHidden
  <2> SUFFICES ASSUME PathInv PROVE OwnTrafficHidden
    OBVIOUS
  <2>1. \A p \in VisiblePackets : p.source = "live" => p.conn \notin ConsoleConns
    BY DEF VisiblePackets, PathInv, OwnHidden, OwnPackets
  <2>2. ASSUME Quiet, NEW c \in VisibleFlows \cap ConsoleConns PROVE ~told[c].live
    <3>1. ~AboutToMark(c)
      BY <2>2 DEF Quiet, AboutToMark, Is, FrameSources
    <3>2. Stored(c) /\ ~flowStore[c].sensor
      BY DEF VisibleFlows
    <3> QED BY <3>1, <3>2 DEF PathInv, OwnHidden, OwnFlows
  <2> QED BY <2>1, <2>2 DEF OwnTrafficHidden, PathInv, OwnHidden
<1> QED BY <1>1, PathInvariance, PTL

\* The inspector keeps nothing of a flow that the store has let go, however the
\* frames of both sources interleave with the collector.
THEOREM InspectionIsForgottenCorrect == PathSpec => []InspectionIsForgotten
<1>1. PathInv => InspectionIsForgotten
  BY DEF PathInv, Remembered, InspectionIsForgotten, Quiet, AboutToStore, Is
<1> QED BY <1>1, PathInvariance, PTL

-----------------------------------------------------------------------------
(***************************************************************************)
(* FlowExport.  Counters of a flow only grow until it starts again from    *)
(* zero, so what was observed when the worker's copy was made (seen)       *)
(* bounds what the copy can still add to what was exported of the flow.    *)
(* The copies of a flow, the worker's, the queued ones and the store's,    *)
(* are in that order (InTurnAll); the collector has what is credited       *)
(* (Credited) and, until a write fails, no more than each of these copies  *)
(* can go on from (ExactSoFar).                                            *)
(***************************************************************************)
\* A copy q of a flow, published when T had been observed, was made later than
\* counters a of which A had been observed at most: it goes on with them, or the
\* flow has started again in between.
Follows(a, A, q, T) ==
  \/ \A d \in Dirs : a[d] <= q[d] /\ A[d] + q[d] <= T[d] + a[d]
  \/ \A d \in Dirs : A[d] + q[d] <= T[d]

\* What the worker holds of a flow, what is queued of it and what is stored
\* (q, when T had been observed) were made in this order.
CopyOK(c, q, T) == Leq(c.snap, c.seen) /\ Leq(c.seen, T) /\ Follows(c.snap, c.seen, q, T)
InTurn(c, k) == c.flow = k.flow => Follows(c.snap, c.seen, k.snap, k.seen)
InTurnAll ==
  /\ \A f \in Flows : Leq(store[f], total[f])
  /\ \A i \in DOMAIN queue : CopyOK(queue[i], store[queue[i].flow], total[queue[i].flow])
  /\ \A i, j \in DOMAIN queue : i < j => InTurn(queue[i], queue[j])
  /\ \A s \in active : /\ CopyOK(s, store[s.flow], total[s.flow])
                       /\ \A i \in DOMAIN queue : InTurn(s, queue[i])

\* The collector has what a state has exported.
Credited == \A s \in active : Leq(Plus(s.base, s.exported), collector[s.flow])

\* The collector has c of a state's flow: the state's copy, the store and each
\* queued copy go on with what was exported.
Exported(s, c, q, T, Q) ==
  /\ Follows(s.exported, c, s.snap, s.seen)
  /\ Follows(s.exported, c, q, T)
  /\ \A i \in DOMAIN Q : Q[i].flow = s.flow => Follows(s.exported, c, Q[i].snap, Q[i].seen)

\* Until a write fails, what the collector has of a flow's first state was
\* observed, and each later copy goes on with what was exported.
ExactSoFar ==
  /\ \A f \in Flows : epochs[f] = 0 => collector[f] = Zero
  /\ \A f \in Flows : epochs[f] <= 1 => Leq(collector[f], total[f])
  /\ \A s \in active :
       /\ epochs[s.flow] # 0
       /\ epochs[s.flow] <= 1 =>
            Exported(s, collector[s.flow], store[s.flow], total[s.flow], queue)

ExporterInv == TypeOK /\ InTurnAll /\ Credited /\ (failures = 0 => ExactSoFar)

-----------------------------------------------------------------------------
LEMMA ExportBounds ==
  /\ QueueSize \in Nat /\ QueueSize > 0 /\ MaxPackets \in Nat /\ MaxFailures \in Nat
  /\ MaxReconfigs \in Nat /\ Unencodable \subseteq Flows
  BY ExportAssumption

LEMMA ZeroFacts == Zero \in Counters /\ \A d \in Dirs : Zero[d] = 0
  BY DEF Zero, Counters

LEMMA PlusFacts ==
  ASSUME NEW a \in Counters, NEW b \in Counters
  PROVE  Plus(a, b) \in Counters /\ \A d \in Dirs : Plus(a, b)[d] = a[d] + b[d]
  BY DEF Plus, Counters

LEMMA CopyIsCopy == \A s \in FlowState : /\ s.flow \in Flows /\ s.snap \in Counters
                                         /\ s.seen \in Counters /\ s.exported \in Counters
                                         /\ s.base \in Counters
  BY DEF FlowState

\* There is one state for an active flow.
LEMMA StateFacts ==
  ASSUME TypeOK, NEW f \in ActiveFlows
  PROVE  /\ State(f) \in active /\ State(f) \in FlowState /\ State(f).flow = f /\ f \in Flows
         /\ \A s \in active : s.flow = f => s = State(f)
<1>1. \E s \in active : s.flow = f
  BY DEF ActiveFlows
<1>2. State(f) \in active /\ State(f).flow = f
  BY <1>1 DEF State
<1> QED BY <1>2, CopyIsCopy DEF TypeOK

\* The state of a flow is replaced.
LEMMA ReplaceFacts ==
  ASSUME TypeOK, NEW s \in FlowState
  PROVE  /\ Replace(s.flow, s) \subseteq FlowState /\ s \in Replace(s.flow, s)
         /\ \A t \in Replace(s.flow, s) : t = s \/ (t \in active /\ t.flow # s.flow)
         /\ \A t, u \in Replace(s.flow, s) : t.flow = u.flow => t = u
         /\ {t.flow : t \in Replace(s.flow, s)} = ActiveFlows \cup {s.flow}
  BY DEF TypeOK, Replace, ActiveFlows

-----------------------------------------------------------------------------
\* Copies in order, and exports that go on with each other.
LEMMA FollowsLess ==
  ASSUME NEW a \in Counters, NEW A \in Counters, NEW B \in Counters,
         NEW q \in Counters, NEW T \in Counters,
         Follows(a, A, q, T), Leq(B, A)
  PROVE  Follows(a, B, q, T)
<1>1. \A d \in Dirs : /\ a[d] \in Nat /\ A[d] \in Nat /\ B[d] \in Nat /\ q[d] \in Nat
                      /\ T[d] \in Nat /\ B[d] <= A[d]
  BY DEF Counters, Leq
<1>2. CASE \A d \in Dirs : a[d] <= q[d] /\ A[d] + q[d] <= T[d] + a[d]
  <2>1. \A d \in Dirs : a[d] <= q[d] /\ B[d] + q[d] <= T[d] + a[d]
    BY <1>1, <1>2
  <2> QED BY <2>1 DEF Follows
<1>3. CASE \A d \in Dirs : A[d] + q[d] <= T[d]
  <2>1. \A d \in Dirs : B[d] + q[d] <= T[d]
    BY <1>1, <1>3
  <2> QED BY <2>1 DEF Follows
<1> QED BY <1>2, <1>3 DEF Follows

LEMMA FollowsItself ==
  ASSUME NEW q \in Counters, NEW A \in Counters, NEW T \in Counters, Leq(A, T)
  PROVE  Follows(q, A, q, T)
<1>1. \A d \in Dirs : q[d] \in Nat /\ A[d] \in Nat /\ T[d] \in Nat /\ A[d] <= T[d]
  BY DEF Counters, Leq
<1>2. \A d \in Dirs : q[d] <= q[d] /\ A[d] + q[d] <= T[d] + q[d]
  BY <1>1
<1> QED BY <1>2 DEF Follows

\* Counters that start from zero follow whatever was observed before.
LEMMA FollowsFresh ==
  ASSUME NEW a \in Counters, NEW A \in Counters, NEW T \in Counters, Leq(A, T)
  PROVE  Follows(a, A, Zero, T)
<1>1. \A d \in Dirs : A[d] \in Nat /\ T[d] \in Nat /\ A[d] <= T[d] /\ Zero[d] = 0
  BY ZeroFacts DEF Counters, Leq
<1>2. \A d \in Dirs : A[d] + Zero[d] <= T[d]
  BY <1>1
<1> QED BY <1>2 DEF Follows

LEMMA ZeroFollowed ==
  ASSUME NEW q \in Counters, NEW T \in Counters, Leq(q, T)
  PROVE  Follows(Zero, Zero, q, T)
<1>1. \A d \in Dirs : q[d] \in Nat /\ T[d] \in Nat /\ q[d] <= T[d] /\ Zero[d] = 0
  BY ZeroFacts DEF Counters, Leq
<1>2. \A d \in Dirs : Zero[d] + q[d] <= T[d]
  BY <1>1
<1> QED BY <1>2 DEF Follows

\* A packet raises the counters and what was observed alike.
Alike(q, T, p, U) ==
  \A d \in Dirs : \/ p[d] = q[d] /\ U[d] = T[d]
                  \/ p[d] = q[d] + 1 /\ U[d] = T[d] + 1

LEMMA FollowsPacket ==
  ASSUME NEW a \in Counters, NEW A \in Counters, NEW q \in Counters, NEW T \in Counters,
         NEW p \in Counters, NEW U \in Counters, Follows(a, A, q, T), Alike(q, T, p, U)
  PROVE  Follows(a, A, p, U)
<1>1. \A e \in Dirs : /\ a[e] \in Nat /\ A[e] \in Nat /\ q[e] \in Nat /\ T[e] \in Nat
                      /\ \/ p[e] = q[e] /\ U[e] = T[e]
                         \/ p[e] = q[e] + 1 /\ U[e] = T[e] + 1
  BY DEF Counters, Alike
<1>2. CASE \A e \in Dirs : a[e] <= q[e] /\ A[e] + q[e] <= T[e] + a[e]
  <2>1. \A e \in Dirs : a[e] <= p[e] /\ A[e] + p[e] <= U[e] + a[e]
    BY <1>1, <1>2
  <2> QED BY <2>1 DEF Follows
<1>3. CASE \A e \in Dirs : A[e] + q[e] <= T[e]
  <2>1. \A e \in Dirs : A[e] + p[e] <= U[e]
    BY <1>1, <1>3
  <2> QED BY <2>1 DEF Follows
<1> QED BY <1>2, <1>3 DEF Follows

\* deltaFlow never exceeds what is left to export, in either case.
LEMMA DeltaFacts ==
  ASSUME NEW s \in FlowState
  PROVE  /\ Credit(s) \in Counters /\ Delta(s) \in Counters
         /\ \A d \in Dirs : Delta(s)[d] + Credit(s)[d] = s.snap[d]
         /\ Restarted(s) => Credit(s) = Zero
         /\ ~Restarted(s) => Credit(s) = s.exported /\ \A d \in Dirs : s.exported[d] <= s.snap[d]
<1>1. \A d \in Dirs : s.snap[d] \in Nat /\ s.exported[d] \in Nat
  BY CopyIsCopy DEF Counters
<1>2. Credit(s) \in Counters
  BY CopyIsCopy, ZeroFacts DEF Credit
<1>3. ~Restarted(s) => \A d \in Dirs : s.exported[d] <= s.snap[d]
  BY <1>1 DEF Restarted
<1>4. \A d \in Dirs : Credit(s)[d] \in Nat /\ Credit(s)[d] <= s.snap[d]
  BY <1>1, <1>3, ZeroFacts DEF Credit
<1>5. \A d \in Dirs : s.snap[d] - Credit(s)[d] \in Nat
  BY <1>1, <1>4
<1>6. Delta(s) \in Counters /\ \A d \in Dirs : Delta(s)[d] = s.snap[d] - Credit(s)[d]
  BY <1>5 DEF Delta, Counters
<1> QED BY <1>1, <1>2, <1>3, <1>4, <1>6 DEF Credit

LEMMA DeltaWasObserved ==
  ASSUME NEW s \in FlowState, NEW c \in Counters, Follows(s.exported, c, s.snap, s.seen)
  PROVE  Leq(Plus(c, Delta(s)), s.seen)
<1>1. \A d \in Dirs : /\ s.snap[d] \in Nat /\ s.exported[d] \in Nat /\ s.seen[d] \in Nat
                      /\ c[d] \in Nat /\ Delta(s)[d] \in Nat /\ Credit(s)[d] \in Nat
                      /\ Delta(s)[d] + Credit(s)[d] = s.snap[d]
                      /\ Plus(c, Delta(s))[d] = c[d] + Delta(s)[d]
  BY CopyIsCopy, DeltaFacts, PlusFacts DEF Counters
<1>2. CASE Restarted(s)
  <2>1. \A d \in Dirs : c[d] + s.snap[d] <= s.seen[d]
    BY <1>1, <1>2 DEF Follows, Restarted
  <2>2. \A d \in Dirs : Plus(c, Delta(s))[d] <= s.seen[d]
    BY <1>1, <2>1
  <2> QED BY <2>2 DEF Leq
<1>3. CASE ~Restarted(s)
  <2>1. \A d \in Dirs : Credit(s)[d] = s.exported[d]
    BY <1>3, DeltaFacts
  <2>2. \A d \in Dirs : c[d] + s.snap[d] <= s.seen[d] + s.exported[d]
    BY <1>1 DEF Follows
  <2>3. \A d \in Dirs : Plus(c, Delta(s))[d] <= s.seen[d]
    BY <1>1, <2>1, <2>2
  <2> QED BY <2>3 DEF Leq
<1> QED BY <1>2, <1>3

\* A failed export of a flow that has started again forgets what was exported.
LEMMA CreditFollowed ==
  ASSUME NEW s \in FlowState, NEW c \in Counters, NEW q \in Counters, NEW T \in Counters,
         Follows(s.exported, c, s.snap, s.seen), Follows(s.exported, c, q, T),
         Follows(s.snap, s.seen, q, T)
  PROVE  Follows(Credit(s), c, q, T)
<1>1. CASE ~Restarted(s)
  BY <1>1, DeltaFacts
<1>2. CASE Restarted(s)
  <2>1. \A d \in Dirs : /\ s.snap[d] \in Nat /\ s.exported[d] \in Nat /\ s.seen[d] \in Nat
                        /\ c[d] \in Nat /\ q[d] \in Nat /\ T[d] \in Nat
    BY CopyIsCopy DEF Counters
  <2>2. \A d \in Dirs : c[d] + s.snap[d] <= s.seen[d]
    BY <1>2, <2>1 DEF Follows, Restarted
  <2>3. \A d \in Dirs : s.seen[d] + q[d] <= T[d] + s.snap[d]
    BY <2>1 DEF Follows
  <2>4. \A d \in Dirs : c[d] + q[d] <= T[d]
    BY <2>1, <2>2, <2>3
  <2> QED BY <2>4 DEF Follows
<1> QED BY <1>1, <1>2

LEMMA LeqAll ==
  /\ \A a \in Counters : Leq(a, a)
  /\ \A a, b, c \in Counters : Leq(a, b) /\ Leq(b, c) => Leq(a, c)
  /\ \A a \in Counters : Leq(Zero, a)
  BY ZeroFacts DEF Leq, Counters

-----------------------------------------------------------------------------
LEMMA ExporterInitInv == Init => ExporterInv
<1> SUFFICES ASSUME Init PROVE ExporterInv
  OBVIOUS
<1>1. 0 \in 0..MaxFailures /\ 0 \in 0..MaxReconfigs /\ 0 <= QueueSize
  BY ExportBounds
<1>2. /\ <<>> \in Seq(FlowCopy) /\ Len(<<>>) = 0 /\ DOMAIN <<>> = {}
  BY EmptySeq
<1>3. TypeOK
  BY <1>1, <1>2, ZeroFacts DEF Init, TypeOK, ActiveFlows
<1>4. InTurnAll /\ Credited
  BY <1>2, ZeroFacts, LeqAll DEF Init, InTurnAll, Credited
<1>5. ExactSoFar
  BY ZeroFacts, LeqAll DEF Init, ExactSoFar
<1> QED BY <1>3, <1>4, <1>5 DEF ExporterInv

\* A packet: one more copy at the end of the queue, or none.
LEMMA ObserveKeeps ==
  ASSUME ExporterInv, NEW f \in Flows, NEW d \in Dirs, Observe(f, d)
  PROVE  ExporterInv'
<1>0. store[f] \in Counters /\ total[f] \in Counters
  BY DEF ExporterInv, TypeOK
<1>a. \A e \in Counters : [e EXCEPT ![d] = @ + 1] \in Counters
  BY DEF Counters
<1> PICK q \in Counters, T \in Counters : q = [store[f] EXCEPT ![d] = @ + 1]
                                          /\ T = [total[f] EXCEPT ![d] = @ + 1]
  BY <1>0, <1>a
<1>b. \A e \in Dirs : \/ q[e] = store[f][e] /\ T[e] = total[f][e]
                      \/ q[e] = store[f][e] + 1 /\ T[e] = total[f][e] + 1
  BY DEF ExporterInv, TypeOK, Counters
<1>c. Alike(store[f], total[f], q, T)
  BY <1>b DEF Alike
<1> PICK c \in FlowCopy : c.flow = f /\ c.snap = q /\ c.seen = T
                          /\ c = [flow |-> f, snap |-> q, seen |-> T]
  BY DEF FlowCopy
<1>1. /\ store' \in [Flows -> Counters] /\ store'[f] = q
      /\ total' \in [Flows -> Counters] /\ total'[f] = T
      /\ \A g \in Flows \ {f} : store'[g] = store[g] /\ total'[g] = total[g]
  BY DEF Observe, ExporterInv, TypeOK
<1>2. UNCHANGED <<active, conn, pending, collector, epochs, failures, reconfigs>>
  BY DEF Observe
<1>3. queue \in Seq(FlowCopy) /\ Len(queue) \in Nat /\ Len(queue) <= QueueSize
  BY LenProperties DEF ExporterInv, TypeOK
<1> PICK Q \in Seq(FlowCopy) :
      /\ queue' = Q /\ Len(Q) <= QueueSize
      /\ \A i \in DOMAIN Q : \/ i \in DOMAIN queue /\ Q[i] = queue[i]
                             \/ Q[i] = c /\ \A j \in DOMAIN queue : j < i
      /\ \A i \in DOMAIN Q, j \in DOMAIN Q : i < j => i \in DOMAIN queue /\ Q[i] = queue[i]
  <2>1. CASE Len(queue) < QueueSize
    <3>1. queue' = Append(queue, c)
      BY <1>1, <2>1 DEF Observe
    <3>2. /\ Append(queue, c) \in Seq(FlowCopy) /\ Len(Append(queue, c)) = Len(queue) + 1
          /\ DOMAIN Append(queue, c) = 1..(Len(queue) + 1) /\ DOMAIN queue = 1..Len(queue)
          /\ \A i \in 1..Len(queue) : Append(queue, c)[i] = queue[i]
          /\ Append(queue, c)[Len(queue) + 1] = c
      BY <1>3, AppendProperties, LenProperties
    <3>3. Len(queue) + 1 <= QueueSize
      BY <1>3, <2>1, ExportBounds
    <3>4. \A i \in 1..(Len(queue) + 1) : i \in 1..Len(queue) \/ i = Len(queue) + 1
      BY <1>3
    <3>5. \A j \in 1..Len(queue) : j < Len(queue) + 1
      BY <1>3
    <3>6. \A i, j \in 1..(Len(queue) + 1) : i < j => i \in 1..Len(queue)
      BY <1>3
    <3> DEFINE Q == Append(queue, c)
    <3>7. /\ Q \in Seq(FlowCopy) /\ queue' = Q /\ Len(Q) <= QueueSize
          /\ \A i \in DOMAIN Q : \/ i \in DOMAIN queue /\ Q[i] = queue[i]
                                 \/ Q[i] = c /\ \A j \in DOMAIN queue : j < i
          /\ \A i \in DOMAIN Q, j \in DOMAIN Q : i < j => i \in DOMAIN queue /\ Q[i] = queue[i]
      BY <3>1, <3>2, <3>3, <3>4, <3>5, <3>6
    <3> QED BY <3>7
  <2>2. CASE ~(Len(queue) < QueueSize)
    BY <1>3, <2>2 DEF Observe
  <2> QED BY <2>1, <2>2
<1>4. TypeOK'
  BY <1>1, <1>2 DEF ExporterInv, TypeOK, ActiveFlows
<1>5. Leq(q, T) /\ Leq(T, T) /\ \A g \in Flows : Leq(total[g], total'[g])
  <2>1. \A e \in Dirs : /\ store[f][e] \in Nat /\ total[f][e] \in Nat
                        /\ store[f][e] <= total[f][e]
    BY DEF ExporterInv, TypeOK, InTurnAll, Leq, Counters
  <2>3. \A e \in Dirs : q[e] <= T[e] /\ total[f][e] <= T[e]
    BY <1>b, <2>1
  <2>4. Leq(q, T) /\ Leq(total[f], T)
    BY <2>3 DEF Leq
  <2> QED BY <1>1, <2>4, LeqAll DEF ExporterInv, TypeOK
\* What the store has now still follows what it followed.
<1>6. ASSUME NEW a \in Counters, NEW A \in Counters, NEW g \in Flows,
             Follows(a, A, store[g], total[g])
      PROVE  Follows(a, A, store'[g], total'[g])
  <2>1. CASE g = f
    <3>0. Follows(a, A, store[f], total[f])
      BY <1>6, <2>1
    <3>1. Follows(a, A, q, T)
      BY <1>0, <1>c, <3>0, FollowsPacket
    <3> QED BY <1>1, <2>1, <3>1
  <2>2. CASE g # f
    BY <1>1, <1>6, <2>2
  <2> QED BY <2>1, <2>2
<1>7. ASSUME NEW k, k.flow \in Flows, k.snap \in Counters, k.seen \in Counters,
             CopyOK(k, store[k.flow], total[k.flow])
      PROVE  CopyOK(k, store'[k.flow], total'[k.flow]) /\ InTurn(k, c)
  <2>1. Follows(k.snap, k.seen, store'[k.flow], total'[k.flow])
    BY <1>6, <1>7 DEF CopyOK
  <2>2. total[k.flow] \in Counters /\ total'[k.flow] \in Counters
    BY <1>1, <1>7 DEF ExporterInv, TypeOK
  <2>3. Leq(k.seen, total'[k.flow])
    BY <1>5, <1>7, <2>2, LeqAll DEF CopyOK
  <2>4. InTurn(k, c)
    BY <1>1, <2>1 DEF InTurn
  <2> QED BY <1>7, <2>1, <2>3, <2>4 DEF CopyOK
<1>8. CopyOK(c, store'[c.flow], total'[c.flow])
  BY <1>1, <1>5, FollowsItself DEF CopyOK
<1>9. \A i \in DOMAIN queue : queue[i] \in FlowCopy
  BY <1>3
<1>10. InTurnAll'
  <2>1. \A g \in Flows : Leq(store'[g], total'[g])
    <3>1. ASSUME NEW g \in Flows, g # f PROVE Leq(store'[g], total'[g])
      BY <1>1, <3>1 DEF ExporterInv, InTurnAll
    <3>2. Leq(store'[f], total'[f])
      BY <1>1, <1>5
    <3> QED BY <3>1, <3>2
  <2>2. \A i \in DOMAIN queue : /\ CopyOK(queue[i], store'[queue[i].flow], total'[queue[i].flow])
                                /\ InTurn(queue[i], c)
    BY <1>7, <1>9 DEF FlowCopy, ExporterInv, InTurnAll
  <2>3. \A s \in active : CopyOK(s, store'[s.flow], total'[s.flow]) /\ InTurn(s, c)
    BY <1>7, CopyIsCopy DEF ExporterInv, InTurnAll, TypeOK
  <2>4. \A i \in DOMAIN Q : CopyOK(Q[i], store'[Q[i].flow], total'[Q[i].flow])
    BY <1>8, <2>2
  <2>5. \A i, j \in DOMAIN Q : i < j => InTurn(Q[i], Q[j])
    <3> SUFFICES ASSUME NEW i \in DOMAIN Q, NEW j \in DOMAIN Q, i < j
                 PROVE  InTurn(Q[i], Q[j])
      OBVIOUS
    <3>1. i \in DOMAIN queue /\ Q[i] = queue[i]
      OBVIOUS
    <3>2. CASE j \in DOMAIN queue /\ Q[j] = queue[j]
      BY <3>1, <3>2 DEF ExporterInv, InTurnAll
    <3>3. CASE Q[j] = c
      BY <2>2, <3>1, <3>3
    <3> QED BY <3>2, <3>3
  <2>6. \A s \in active, i \in DOMAIN Q : InTurn(s, Q[i])
    BY <2>3 DEF ExporterInv, InTurnAll
  <2> QED BY <1>2, <2>1, <2>3, <2>4, <2>5, <2>6 DEF InTurnAll
<1>11. Credited'
  BY <1>2 DEF ExporterInv, Credited
<1>12. ASSUME failures = 0 PROVE ExactSoFar'
  <2>1. ASSUME NEW g \in Flows, epochs[g] <= 1 PROVE Leq(collector[g], total'[g])
    <3>1. collector[g] \in Counters /\ total[g] \in Counters /\ total'[g] \in Counters
      BY <1>1 DEF ExporterInv, TypeOK
    <3> QED BY <1>5, <1>12, <2>1, <3>1, LeqAll DEF ExporterInv, ExactSoFar
  <2>2. ASSUME NEW s \in active, epochs[s.flow] <= 1
        PROVE  Exported(s, collector[s.flow], store'[s.flow], total'[s.flow], Q)
    <3>1. s.flow \in Flows /\ s.exported \in Counters /\ collector[s.flow] \in Counters
      BY CopyIsCopy DEF ExporterInv, TypeOK
    <3>2. Exported(s, collector[s.flow], store[s.flow], total[s.flow], queue)
      BY <1>12, <2>2 DEF ExporterInv, ExactSoFar
    <3>3. Follows(s.exported, collector[s.flow], store'[s.flow], total'[s.flow])
      BY <1>6, <3>1, <3>2 DEF Exported
    <3>4. c.flow = s.flow => Follows(s.exported, collector[s.flow], c.snap, c.seen)
      BY <1>1, <3>3
    <3> QED BY <3>2, <3>3, <3>4 DEF Exported
  <2> QED BY <1>2, <1>12, <2>1, <2>2 DEF ExporterInv, ExactSoFar
<1> QED BY <1>2, <1>4, <1>10, <1>11, <1>12 DEF ExporterInv

\* The packets of a flow that is dropped from the store were observed.
LEMMA GCKeeps ==
  ASSUME ExporterInv, NEW f \in Flows, GC(f)
  PROVE  ExporterInv'
<1>1. /\ store' \in [Flows -> Counters] /\ store'[f] = Zero
      /\ \A g \in Flows \ {f} : store'[g] = store[g]
  BY ZeroFacts DEF GC, ExporterInv, TypeOK
<1>2. UNCHANGED <<total, queue, active, conn, pending, collector, epochs, failures, reconfigs>>
  BY DEF GC
<1>3. TypeOK'
  BY <1>1, <1>2 DEF ExporterInv, TypeOK, ActiveFlows
<1>4. total[f] \in Counters
  BY DEF ExporterInv, TypeOK
<1>5. ASSUME NEW a \in Counters, NEW A \in Counters, NEW g \in Flows,
             Follows(a, A, store[g], total[g]), Leq(A, total[g])
      PROVE  Follows(a, A, store'[g], total[g])
  <2>1. CASE g = f
    BY <1>1, <1>4, <1>5, <2>1, FollowsFresh
  <2>2. CASE g # f
    BY <1>1, <1>5, <2>2
  <2> QED BY <2>1, <2>2
<1>6. ASSUME NEW k, k.flow \in Flows, k.snap \in Counters, k.seen \in Counters,
             CopyOK(k, store[k.flow], total[k.flow])
      PROVE  CopyOK(k, store'[k.flow], total[k.flow])
  BY <1>5, <1>6 DEF CopyOK
<1>7. \A i \in DOMAIN queue : queue[i] \in FlowCopy
  BY LenProperties DEF ExporterInv, TypeOK
<1>8. InTurnAll'
  <2>1. \A g \in Flows : Leq(store'[g], total[g])
    BY <1>1, <1>4, LeqAll DEF ExporterInv, InTurnAll
  <2>2. \A i \in DOMAIN queue : CopyOK(queue[i], store'[queue[i].flow], total[queue[i].flow])
    BY <1>6, <1>7 DEF FlowCopy, ExporterInv, InTurnAll
  <2>3. \A s \in active : CopyOK(s, store'[s.flow], total[s.flow])
    BY <1>6, CopyIsCopy DEF ExporterInv, InTurnAll, TypeOK
  <2> QED BY <1>2, <2>1, <2>2, <2>3 DEF ExporterInv, InTurnAll
<1>9. ASSUME failures = 0 PROVE ExactSoFar'
  <2>1. ASSUME NEW s \in active, epochs[s.flow] <= 1
        PROVE  Exported(s, collector[s.flow], store'[s.flow], total[s.flow], queue)
    <3>1. s.flow \in Flows /\ s.exported \in Counters /\ collector[s.flow] \in Counters
      BY CopyIsCopy DEF ExporterInv, TypeOK
    <3>2. /\ Exported(s, collector[s.flow], store[s.flow], total[s.flow], queue)
          /\ Leq(collector[s.flow], total[s.flow])
      BY <1>9, <2>1, <3>1 DEF ExporterInv, ExactSoFar
    <3>3. Follows(s.exported, collector[s.flow], store'[s.flow], total[s.flow])
      BY <1>5, <3>1, <3>2 DEF Exported
    <3> QED BY <3>2, <3>3 DEF Exported
  <2> QED BY <1>2, <1>9, <2>1 DEF ExporterInv, ExactSoFar
<1> QED BY <1>2, <1>3, <1>8, <1>9 DEF ExporterInv, Credited

-----------------------------------------------------------------------------
\* The worker takes n copies from the front of its queue; each state it changes
\* is in order with what is left.
LEMMA TurnsGoOn ==
  ASSUME TypeOK, InTurnAll, UNCHANGED <<store, total>>, NEW n \in Nat, NEW Q,
         queue' = Q, DOMAIN Q \subseteq Nat, DOMAIN queue \subseteq Nat,
         \A i \in DOMAIN Q : i + n \in DOMAIN queue /\ Q[i] = queue[i + n],
         \A t \in active' \ active : /\ CopyOK(t, store[t.flow], total[t.flow])
                                     /\ \A i \in DOMAIN Q : InTurn(t, Q[i])
  PROVE  InTurnAll'
<1>1. \A i, j \in DOMAIN Q : i < j => InTurn(Q[i], Q[j])
  <2> SUFFICES ASSUME NEW i \in DOMAIN Q, NEW j \in DOMAIN Q, i < j PROVE InTurn(Q[i], Q[j])
    OBVIOUS
  <2>1. i + n < j + n
    OBVIOUS
  <2> QED BY <2>1 DEF InTurnAll
<1>2. \A i \in DOMAIN Q : CopyOK(Q[i], store[Q[i].flow], total[Q[i].flow])
  BY DEF InTurnAll
<1>3. \A t \in active' : /\ CopyOK(t, store[t.flow], total[t.flow])
                         /\ \A i \in DOMAIN Q : InTurn(t, Q[i])
  BY DEF InTurnAll
<1>4. \A f \in Flows : Leq(store[f], total[f])
  BY DEF InTurnAll
<1> QED BY <1>1, <1>2, <1>3, <1>4 DEF InTurnAll

\* The collector gets c of a flow in all, and the flow's state is in order with it.
LEMMA ExactGoesOn ==
  ASSUME TypeOK, ExactSoFar, UNCHANGED <<store, total, queue, epochs>>,
         NEW f \in Flows, NEW c, collector' = [collector EXCEPT ![f] = c],
         epochs[f] # 0, epochs[f] <= 1 => Leq(c, total[f]),
         \A t \in active' : \/ t \in active /\ t.flow # f
                            \/ t.flow = f /\ (epochs[f] <= 1 =>
                                 Exported(t, c, store[f], total[f], queue))
  PROVE  ExactSoFar'
<1>1. collector'[f] = c /\ \A g \in Flows \ {f} : collector'[g] = collector[g]
  BY DEF TypeOK
<1>2. \A t \in active : t.flow \in Flows
  BY CopyIsCopy DEF TypeOK
<1>3. \A g \in Flows : epochs[g] = 0 => collector'[g] = Zero
  BY <1>1 DEF ExactSoFar
<1>4. \A g \in Flows : epochs[g] <= 1 => Leq(collector'[g], total[g])
  BY <1>1 DEF ExactSoFar
<1>5. \A t \in active' :
        /\ epochs[t.flow] # 0
        /\ epochs[t.flow] <= 1 =>
             Exported(t, collector'[t.flow], store[t.flow], total[t.flow], queue)
  BY <1>1, <1>2 DEF ExactSoFar
<1> QED BY <1>3, <1>4, <1>5 DEF ExactSoFar

\* The states in order with what was observed, the queue and the store.
LEMMA StateInTurn ==
  ASSUME ExporterInv, NEW s \in active
  PROVE  /\ s \in FlowState /\ s.flow \in Flows
         /\ CopyOK(s, store[s.flow], total[s.flow])
         /\ \A i \in DOMAIN queue : InTurn(s, queue[i])
         /\ store[s.flow] \in Counters /\ total[s.flow] \in Counters
         /\ collector[s.flow] \in Counters
         /\ Leq(Plus(s.base, s.exported), collector[s.flow])
  BY CopyIsCopy DEF ExporterInv, TypeOK, InTurnAll, Credited

LEMMA QueueFacts ==
  ASSUME TypeOK
  PROVE  /\ Len(queue) \in Nat /\ DOMAIN queue = 1..Len(queue) /\ DOMAIN queue \subseteq Nat
         /\ \A i \in DOMAIN queue : i + 0 = i /\ queue[i] \in FlowCopy
                                    /\ queue[i].flow \in Flows /\ queue[i].snap \in Counters
                                    /\ queue[i].seen \in Counters
<1>1. queue \in Seq(FlowCopy)
  BY DEF TypeOK
<1>2. Len(queue) \in Nat /\ DOMAIN queue = 1..Len(queue)
  BY <1>1, LenProperties
<1>3. \A i \in DOMAIN queue : queue[i] \in FlowCopy
  BY <1>1, <1>2
<1> QED BY <1>2, <1>3 DEF FlowCopy

\* A flag of a state is raised.
LEMMA FlagKeeps ==
  ASSUME ExporterInv, NEW f \in ActiveFlows, NEW s \in FlowState,
         s.flow = f, s.snap = State(f).snap, s.seen = State(f).seen,
         s.exported = State(f).exported, s.base = State(f).base,
         active' = Replace(f, s), pending = {},
         UNCHANGED <<store, total, queue, conn, pending, collector, epochs, failures, reconfigs>>
  PROVE  ExporterInv'
<1>1. /\ State(f) \in active /\ State(f).flow = f /\ f \in Flows
      /\ \A t \in active : t.flow = f => t = State(f)
  BY StateFacts DEF ExporterInv
<1>2. /\ active' \subseteq FlowState
      /\ \A t \in active' : t = s \/ (t \in active /\ t.flow # f)
      /\ \A t, u \in active' : t.flow = u.flow => t = u
  BY ReplaceFacts DEF ExporterInv
<1>3. TypeOK'
  BY <1>2 DEF ExporterInv, TypeOK, ActiveFlows
<1>4. /\ CopyOK(s, store[f], total[f]) /\ \A i \in DOMAIN queue : InTurn(s, queue[i])
  BY <1>1, StateInTurn DEF CopyOK, InTurn
<1>5. InTurnAll'
  <2>1. \A t \in active' \ active : /\ CopyOK(t, store[t.flow], total[t.flow])
                                    /\ \A i \in DOMAIN queue : InTurn(t, queue[i])
    BY <1>2, <1>4
  <2>2. 0 \in Nat /\ DOMAIN queue \subseteq Nat
        /\ \A i \in DOMAIN queue : i + 0 \in DOMAIN queue /\ queue[i] = queue[i + 0]
    BY QueueFacts DEF ExporterInv
  <2> QED BY <2>1, <2>2, TurnsGoOn DEF ExporterInv
<1>6. Credited'
  BY <1>1, <1>2 DEF ExporterInv, Credited
<1>7. ASSUME failures = 0 PROVE ExactSoFar'
  <2>1. /\ epochs[f] # 0 /\ (epochs[f] <= 1 => Leq(collector[f], total[f]))
        /\ epochs[f] <= 1 => Exported(State(f), collector[f], store[f], total[f], queue)
    BY <1>1, <1>7 DEF ExporterInv, ExactSoFar
  <2>2. epochs[f] <= 1 => Exported(s, collector[f], store[f], total[f], queue)
    BY <1>1, <2>1 DEF Exported
  <2>3. collector' = [collector EXCEPT ![f] = collector[f]]
    BY DEF ExporterInv, TypeOK
  <2>4. \A t \in active' : \/ t \in active /\ t.flow # f
                           \/ t.flow = f /\ (epochs[f] <= 1 =>
                                Exported(t, collector[f], store[f], total[f], queue))
    BY <1>2, <2>2
  <2> QED BY <1>1, <1>7, <2>1, <2>3, <2>4, ExactGoesOn DEF ExporterInv
<1> QED BY <1>3, <1>5, <1>6, <1>7 DEF ExporterInv

\* A copy is taken from the queue, for the flow's state or a new one.
LEMMA ReceiveKeeps ==
  ASSUME ExporterInv, Receive
  PROVE  ExporterInv'
<1>1. /\ pending = {} /\ queue # <<>> /\ queue' = Tail(queue)
      /\ UNCHANGED <<store, total, conn, pending, collector, failures, reconfigs>>
  BY DEF Receive
<1>2. queue \in Seq(FlowCopy) /\ Len(queue) \in Nat /\ Len(queue) <= QueueSize
      /\ DOMAIN queue = 1..Len(queue) /\ QueueSize \in Nat
  BY LenProperties, ExportBounds DEF ExporterInv, TypeOK
<1>3. /\ Len(queue) > 0 /\ Head(queue) = queue[1] /\ Head(queue) \in FlowCopy
      /\ Tail(queue) \in Seq(FlowCopy) /\ Len(Tail(queue)) = Len(queue) - 1
      /\ \A i \in 1..(Len(queue) - 1) : Tail(queue)[i] = queue[i + 1]
  <2>1. Len(queue) > 0
    BY <1>1, <1>2, EmptySeq
  <2> QED BY <1>1, <1>2, <2>1, HeadTailProperties
<1> PICK j \in FlowCopy, Q \in Seq(FlowCopy) :
      /\ j = Head(queue) /\ j = queue[1] /\ 1 \in DOMAIN queue
      /\ Q = Tail(queue) /\ queue' = Q /\ DOMAIN Q \subseteq Nat /\ Len(Q) <= QueueSize
      /\ \A i \in DOMAIN Q : /\ i + 1 \in DOMAIN queue /\ Q[i] = queue[i + 1]
                             /\ 1 < i + 1
  <2>1. DOMAIN Tail(queue) = 1..(Len(queue) - 1)
    BY <1>2, <1>3, LenProperties
  <2>2. \A i \in 1..(Len(queue) - 1) : i \in Nat /\ i + 1 \in 1..Len(queue) /\ 1 < i + 1
    BY <1>2
  <2>3. 1 \in 1..Len(queue) /\ Len(queue) - 1 <= QueueSize
    BY <1>2, <1>3
  <2> QED BY <1>1, <1>2, <1>3, <2>1, <2>2, <2>3
<1> DEFINE f == j.flow
           old == f \in ActiveFlows
           r == IF old THEN State(f)
                ELSE [flow |-> f, snap |-> Zero, seen |-> Zero, exported |-> Zero,
                      idle |-> FALSE, aged |-> FALSE, base |-> collector[f]]
           s == [r EXCEPT !.snap = j.snap, !.seen = j.seen, !.idle = FALSE]
<1>4. f \in Flows /\ j.snap \in Counters /\ j.seen \in Counters
  BY DEF FlowCopy
<1>5. r \in FlowState /\ r.flow = f /\ (old => r = State(f) /\ r \in active)
      /\ (~old => r.exported = Zero /\ r.base = collector[f])
  <2>1. CASE old
    BY <2>1, StateFacts DEF ExporterInv
  <2>2. CASE ~old
    BY <1>4, <2>2, ZeroFacts DEF ExporterInv, TypeOK, FlowState
  <2> QED BY <2>1, <2>2
<1>6. /\ s \in FlowState /\ s.flow = f /\ s.snap = j.snap /\ s.seen = j.seen
      /\ s.exported = r.exported /\ s.base = r.base
  <2> HIDE DEF r
  <2> QED BY <1>4, <1>5 DEF FlowState
<1>7. /\ active' = Replace(f, s)
      /\ epochs' = IF old THEN epochs ELSE [epochs EXCEPT ![f] = @ + 1]
  BY DEF Receive
<1> HIDE DEF r, s
<1>8. /\ active' \subseteq FlowState
      /\ \A t \in active' : t = s \/ (t \in active /\ t.flow # f)
      /\ \A t, u \in active' : t.flow = u.flow => t = u
  BY <1>6, <1>7, ReplaceFacts DEF ExporterInv
<1>9. /\ epochs' \in [Flows -> Nat] /\ (old => epochs' = epochs)
      /\ ~old => epochs'[f] = epochs[f] + 1
      /\ \A g \in Flows \ {f} : epochs'[g] = epochs[g]
  BY <1>4, <1>7 DEF ExporterInv, TypeOK
<1>10. TypeOK'
  BY <1>1, <1>8, <1>9 DEF ExporterInv, TypeOK, ActiveFlows
<1>11. /\ CopyOK(j, store[f], total[f]) /\ \A i \in DOMAIN Q : InTurn(j, Q[i])
  <2>1. \A i \in DOMAIN Q : InTurn(queue[1], queue[i + 1])
    BY <1>2 DEF ExporterInv, InTurnAll
  <2> QED BY <2>1 DEF ExporterInv, InTurnAll
<1>12. CopyOK(s, store[f], total[f]) /\ \A i \in DOMAIN Q : InTurn(s, Q[i])
  BY <1>6, <1>11 DEF CopyOK, InTurn
<1>13. InTurnAll'
  <2>1. \A t \in active' \ active : /\ CopyOK(t, store[t.flow], total[t.flow])
                                    /\ \A i \in DOMAIN Q : InTurn(t, Q[i])
    BY <1>6, <1>8, <1>12
  <2>2. 1 \in Nat /\ DOMAIN queue \subseteq Nat
    BY <1>2
  <2>3. \A i \in DOMAIN Q : i + 1 \in DOMAIN queue /\ Q[i] = queue[i + 1]
    OBVIOUS
  <2> QED BY <1>1, <2>1, <2>2, <2>3, TurnsGoOn DEF ExporterInv
<1>14. Credited'
  <2>1. Leq(Plus(s.base, s.exported), collector[f])
    <3>1. CASE old
      BY <1>5, <1>6, <3>1 DEF ExporterInv, Credited
    <3>2. CASE ~old
      <4>1. collector[f] \in Counters
        BY <1>4 DEF ExporterInv, TypeOK
      <4>2. \A d \in Dirs : Plus(collector[f], Zero)[d] = collector[f][d] + 0
                            /\ collector[f][d] \in Nat
        <5>1. \A d \in Dirs : Zero[d] = 0 /\ Zero \in Counters /\ collector[f][d] \in Nat
          BY <4>1, ZeroFacts DEF Counters
        <5> QED BY <4>1, <5>1, PlusFacts
      <4>3. Leq(Plus(collector[f], Zero), collector[f])
        BY <4>2 DEF Leq
      <4> QED BY <1>5, <1>6, <3>2, <4>3
    <3> QED BY <3>1, <3>2
  <2> QED BY <1>1, <1>6, <1>8, <2>1 DEF ExporterInv, Credited
<1>15. ASSUME failures = 0 PROVE ExactSoFar'
  <2>1. epochs'[f] # 0 /\ epochs[f] \in Nat
    <3>1. CASE old
      BY <1>4, <1>5, <1>9, <1>15, <3>1 DEF ExporterInv, ExactSoFar, TypeOK
    <3>2. CASE ~old
      BY <1>4, <1>9, <3>2 DEF ExporterInv, TypeOK
    <3> QED BY <3>1, <3>2
  <2>2. ASSUME epochs'[f] <= 1
        PROVE  Exported(s, collector[f], store[f], total[f], Q)
    <3>1. CASE old
      <4>1. Exported(r, collector[f], store[f], total[f], queue)
        BY <1>5, <1>9, <1>15, <2>2, <3>1 DEF ExporterInv, ExactSoFar
      <4>2. Follows(r.exported, collector[f], j.snap, j.seen)
        BY <1>5, <4>1 DEF Exported
      <4>3. \A i \in DOMAIN Q : Q[i].flow = f => Follows(r.exported, collector[f], Q[i].snap, Q[i].seen)
        BY <1>5, <4>1 DEF Exported
      <4> QED BY <1>5, <1>6, <4>1, <4>2, <4>3 DEF Exported
    <3>2. CASE ~old
      <4>1. epochs[f] = 0
        BY <1>9, <2>1, <2>2, <3>2
      <4>2. collector[f] = Zero /\ s.exported = Zero
        BY <1>4, <1>5, <1>6, <1>15, <3>2, <4>1 DEF ExporterInv, ExactSoFar
      <4>3. Follows(Zero, Zero, j.snap, j.seen)
        BY <1>4, <1>11, ZeroFollowed DEF CopyOK
      <4>4. Follows(Zero, Zero, store[f], total[f])
        BY <1>4, ZeroFollowed DEF ExporterInv, InTurnAll, TypeOK
      <4>5. \A i \in DOMAIN Q : Follows(Zero, Zero, Q[i].snap, Q[i].seen)
        <5> SUFFICES ASSUME NEW i \in DOMAIN Q PROVE Follows(Zero, Zero, Q[i].snap, Q[i].seen)
          OBVIOUS
        <5>1. Q[i] \in FlowCopy /\ Leq(Q[i].snap, Q[i].seen)
          BY QueueFacts DEF ExporterInv, InTurnAll, CopyOK
        <5>2. Q[i].snap \in Counters /\ Q[i].seen \in Counters
          BY <5>1 DEF FlowCopy
        <5> QED BY <5>1, <5>2, ZeroFollowed
      <4> QED BY <1>6, <4>2, <4>3, <4>4, <4>5 DEF Exported
    <3> QED BY <3>1, <3>2
  <2>3. ASSUME NEW g \in Flows, epochs'[g] <= 1 PROVE epochs[g] <= 1
    BY <1>9, <2>1, <2>3 DEF ExporterInv, TypeOK
  <2>4. \A g \in Flows : epochs'[g] = 0 => epochs[g] = 0
    BY <1>9, <2>1
  <2>5. \A t \in active' :
          /\ epochs'[t.flow] # 0
          /\ epochs'[t.flow] <= 1 =>
               Exported(t, collector[t.flow], store[t.flow], total[t.flow], Q)
    <3> SUFFICES ASSUME NEW t \in active'
                 PROVE  /\ epochs'[t.flow] # 0
                        /\ epochs'[t.flow] <= 1 =>
                             Exported(t, collector[t.flow], store[t.flow], total[t.flow], Q)
      OBVIOUS
    <3>1. CASE t = s
      BY <1>6, <2>1, <2>2, <3>1
    <3>2. CASE t \in active /\ t.flow # f
      <4>1. t.flow \in Flows /\ epochs'[t.flow] = epochs[t.flow]
        BY <1>8, <1>9, <3>2, CopyIsCopy
      <4>2. /\ epochs[t.flow] # 0
            /\ epochs[t.flow] <= 1 =>
                 Exported(t, collector[t.flow], store[t.flow], total[t.flow], queue)
        BY <1>15, <3>2 DEF ExporterInv, ExactSoFar
      <4> QED BY <4>1, <4>2 DEF Exported
    <3> QED BY <1>8, <3>1, <3>2
  <2> QED BY <1>1, <1>15, <2>3, <2>4, <2>5 DEF ExporterInv, ExactSoFar
<1> QED BY <1>1, <1>10, <1>13, <1>14, <1>15 DEF ExporterInv

\* Nothing but the connection and the loop moves.
LEMMA LoopKeeps ==
  ASSUME ExporterInv, UNCHANGED <<store, total, queue, active, collector, epochs, reconfigs>>,
         conn' \in BOOLEAN, pending' \subseteq ActiveFlows, failures' \in 0..MaxFailures,
         failures' = 0 => failures = 0
  PROVE  ExporterInv'
<1>1. TypeOK'
  BY DEF ExporterInv, TypeOK, ActiveFlows
<1>2. InTurnAll' /\ Credited' /\ (failures' = 0 => ExactSoFar')
  BY DEF ExporterInv, InTurnAll, Credited, ExactSoFar
<1> QED BY <1>1, <1>2 DEF ExporterInv

\* What a tick writes of a state: the collector's counters grow by part of the
\* difference, and the state is retired, credited or left as it was.
LEMMA FlushKeeps ==
  ASSUME ExporterInv, NEW f \in ActiveFlows, NEW c \in Counters, NEW s \in FlowState,
         s.flow = f, s.snap = State(f).snap, s.seen = State(f).seen, s.base = State(f).base,
         UNCHANGED <<store, total, queue, epochs, reconfigs>>,
         collector' = [collector EXCEPT ![f] = c],
         active' = active \ {State(f)} \/ active' = Replace(f, s),
         conn' \in BOOLEAN, pending' \subseteq {t.flow : t \in active'},
         failures' \in 0..MaxFailures, failures' = 0 => failures = 0,
         Leq(Plus(s.base, s.exported), c),
         failures' = 0 /\ epochs[f] <= 1 =>
           /\ Leq(c, total[f])
           /\ Exported(s, c, store[f], total[f], queue)
  PROVE  ExporterInv'
<1>1. /\ State(f) \in active /\ State(f).flow = f /\ f \in Flows
      /\ \A t \in active : t.flow = f => t = State(f)
  BY StateFacts DEF ExporterInv
<1>2. /\ active' \subseteq FlowState
      /\ \A t \in active' : t = s \/ (t \in active /\ t.flow # f)
      /\ \A t, u \in active' : t.flow = u.flow => t = u
  <2>1. CASE active' = active \ {State(f)}
    BY <1>1, <2>1 DEF ExporterInv, TypeOK
  <2>2. CASE active' = Replace(f, s)
    BY <2>2, ReplaceFacts DEF ExporterInv
  <2> QED BY <2>1, <2>2
<1>3. /\ collector' \in [Flows -> Counters] /\ collector'[f] = c
      /\ \A g \in Flows \ {f} : collector'[g] = collector[g]
  BY <1>1 DEF ExporterInv, TypeOK
<1>4. TypeOK'
  BY <1>2, <1>3 DEF ExporterInv, TypeOK, ActiveFlows
<1>5. /\ CopyOK(s, store[f], total[f]) /\ \A i \in DOMAIN queue : InTurn(s, queue[i])
  BY <1>1, StateInTurn DEF CopyOK, InTurn
<1>6. InTurnAll'
  <2>1. \A t \in active' \ active : /\ CopyOK(t, store[t.flow], total[t.flow])
                                    /\ \A i \in DOMAIN queue : InTurn(t, queue[i])
    BY <1>2, <1>5
  <2>2. 0 \in Nat /\ DOMAIN queue \subseteq Nat
        /\ \A i \in DOMAIN queue : i + 0 \in DOMAIN queue /\ queue[i] = queue[i + 0]
    BY QueueFacts DEF ExporterInv
  <2> QED BY <2>1, <2>2, TurnsGoOn DEF ExporterInv
<1>7. Credited'
  <2> SUFFICES ASSUME NEW t \in active' PROVE Leq(Plus(t.base, t.exported), collector'[t.flow])
    BY DEF Credited
  <2>1. CASE t = s
    BY <1>3, <2>1
  <2>2. CASE t \in active /\ t.flow # f
    BY <1>3, <2>2, CopyIsCopy DEF ExporterInv, TypeOK, Credited
  <2> QED BY <1>2, <2>1, <2>2
<1>8. ASSUME failures' = 0 PROVE ExactSoFar'
  <2>1. epochs[f] # 0
    BY <1>1, <1>8 DEF ExporterInv, ExactSoFar
  <2>2. \A t \in active' : \/ t \in active /\ t.flow # f
                           \/ t.flow = f /\ (epochs[f] <= 1 =>
                                Exported(t, c, store[f], total[f], queue))
    BY <1>2, <1>8
  <2> QED BY <1>1, <1>8, <2>1, <2>2, ExactGoesOn DEF ExporterInv
<1> QED BY <1>4, <1>6, <1>7, <1>8 DEF ExporterInv

\* What a state has exported and its difference add up to its copy.
LEMMA ExportSendsAll ==
  ASSUME NEW r \in FlowState, NEW k \in Counters, Leq(Plus(r.base, r.exported), k)
  PROVE  Leq(Plus(r.base, r.snap), Plus(k, Delta(r)))
<1>1. r.snap \in Counters /\ r.exported \in Counters /\ r.base \in Counters
  BY CopyIsCopy
<1>2. \A d \in Dirs : /\ r.base[d] \in Nat /\ r.exported[d] \in Nat /\ r.snap[d] \in Nat
                      /\ k[d] \in Nat /\ r.base[d] + r.exported[d] <= k[d]
  <2>1. \A d \in Dirs : Plus(r.base, r.exported)[d] = r.base[d] + r.exported[d]
    BY <1>1, PlusFacts
  <2> QED BY <1>1, <2>1 DEF Leq, Counters
<1>3. \A d \in Dirs : /\ Plus(r.base, r.snap)[d] = r.base[d] + r.snap[d]
                      /\ Plus(k, Delta(r))[d] = k[d] + Delta(r)[d]
  BY <1>1, PlusFacts, DeltaFacts
<1>4. \A d \in Dirs : /\ Delta(r)[d] \in Nat /\ Credit(r)[d] \in Nat
                      /\ Delta(r)[d] + Credit(r)[d] = r.snap[d]
                      /\ Credit(r)[d] = 0 \/ Credit(r)[d] = r.exported[d]
  BY DeltaFacts, ZeroFacts DEF Counters
<1>5. \A d \in Dirs : Plus(r.base, r.snap)[d] <= Plus(k, Delta(r))[d]
  BY <1>2, <1>3, <1>4
<1> QED BY <1>5 DEF Leq

\* The whole difference is exported, and credited.
LEMMA FlushExportKeeps ==
  ASSUME ExporterInv, NEW f \in Flows, FlushExport(f)
  PROVE  ExporterInv'
<1>1. f \in ActiveFlows
  BY DEF FlushExport, ExporterInv, TypeOK
<1>2. /\ State(f) \in active /\ State(f) \in FlowState /\ State(f).flow = f
  BY <1>1, StateFacts DEF ExporterInv
<1> PICK r \in FlowState : r = State(f)
  BY <1>2
<1> PICK s \in FlowState : /\ s = [r EXCEPT !.exported = r.snap, !.aged = FALSE]
                           /\ s.flow = r.flow /\ s.snap = r.snap /\ s.seen = r.seen
                           /\ s.base = r.base /\ s.exported = r.snap
  <2> DEFINE s == [r EXCEPT !.exported = r.snap, !.aged = FALSE]
  <2>1. /\ s \in FlowState /\ s.flow = r.flow /\ s.snap = r.snap /\ s.seen = r.seen
        /\ s.base = r.base /\ s.exported = r.snap
    BY DEF FlowState
  <2> QED BY <2>1
<1> PICK c \in Counters : c = Plus(collector[f], Delta(r))
  BY DeltaFacts, PlusFacts DEF ExporterInv, TypeOK
<1>3. /\ collector' = [collector EXCEPT ![f] = c]
      /\ active' = IF r.idle THEN active \ {r} ELSE Replace(f, s)
      /\ pending' = pending \ {f} /\ UNCHANGED <<store, total, queue, conn, epochs, failures, reconfigs>>
  BY DEF FlushExport
<1>4. /\ CopyOK(r, store[f], total[f]) /\ \A i \in DOMAIN queue : InTurn(r, queue[i])
      /\ store[f] \in Counters /\ total[f] \in Counters /\ collector[f] \in Counters
      /\ Leq(Plus(r.base, r.exported), collector[f])
  BY <1>2, StateInTurn
<1>5. r.flow = f /\ r.snap \in Counters /\ r.seen \in Counters /\ r.exported \in Counters
      /\ r.base \in Counters
  BY <1>2, CopyIsCopy
<1>6. Leq(Plus(r.base, r.snap), c)
  BY <1>4, ExportSendsAll
<1>7. ASSUME failures = 0, epochs[f] <= 1
      PROVE  Leq(c, total[f]) /\ Exported(s, c, store[f], total[f], queue)
  <2>1. Exported(r, collector[f], store[f], total[f], queue)
    BY <1>2, <1>7 DEF ExporterInv, ExactSoFar
  <2>2. Leq(c, r.seen)
    BY <1>4, <2>1, DeltaWasObserved DEF Exported
  <2>3. Leq(c, total[f])
    BY <1>4, <1>5, <2>2, LeqAll DEF CopyOK
  <2>4. Follows(r.snap, c, r.snap, r.seen)
    BY <1>5, <2>2, FollowsItself
  <2>5. Follows(r.snap, c, store[f], total[f])
    BY <1>4, <1>5, <2>2, FollowsLess DEF CopyOK
  <2>6. ASSUME NEW i \in DOMAIN queue, queue[i].flow = f
        PROVE  Follows(r.snap, c, queue[i].snap, queue[i].seen)
    <3>1. queue[i].snap \in Counters /\ queue[i].seen \in Counters
      BY QueueFacts DEF ExporterInv
    <3>2. Follows(r.snap, r.seen, queue[i].snap, queue[i].seen)
      BY <1>4, <1>5, <2>6 DEF InTurn
    <3> QED BY <1>5, <2>2, <3>1, <3>2, FollowsLess
  <2> QED BY <1>5, <2>3, <2>4, <2>5, <2>6 DEF Exported
<1>8. pending' \subseteq {t.flow : t \in active'}
  <2>1. CASE r.idle
    BY <1>2, <1>3, <2>1 DEF ExporterInv, TypeOK, ActiveFlows
  <2>2. CASE ~r.idle
    <3>1. {t.flow : t \in Replace(f, s)} = ActiveFlows \cup {f}
      BY <1>5, ReplaceFacts DEF ExporterInv
    <3> QED BY <1>3, <2>2, <3>1 DEF ExporterInv, TypeOK
  <2> QED BY <2>1, <2>2
<1>9. conn' \in BOOLEAN /\ failures' \in 0..MaxFailures
  BY <1>3 DEF ExporterInv, TypeOK
<1> QED BY <1>1, <1>3, <1>5, <1>6, <1>7, <1>8, <1>9, FlushKeeps

\* A write fails: what was written before it is not credited.
LEMMA FlushFailsKeeps ==
  ASSUME ExporterInv, NEW f \in Flows, FlushFails(f)
  PROVE  ExporterInv'
<1>1. f \in ActiveFlows
  BY DEF FlushFails, ExporterInv, TypeOK
<1>2. /\ State(f) \in active /\ State(f) \in FlowState /\ State(f).flow = f
  BY <1>1, StateFacts DEF ExporterInv
<1> PICK r \in FlowState : r = State(f)
  BY <1>2
<1>3. r.flow = f /\ r.snap \in Counters /\ r.seen \in Counters /\ r.exported \in Counters
      /\ r.base \in Counters /\ Credit(r) \in Counters /\ Delta(r) \in Counters
  BY <1>2, CopyIsCopy, DeltaFacts
<1> PICK s \in FlowState : /\ s = [r EXCEPT !.exported = Credit(r)]
                           /\ s.flow = r.flow /\ s.snap = r.snap /\ s.seen = r.seen
                           /\ s.base = r.base /\ s.exported = Credit(r)
  <2> DEFINE s == [r EXCEPT !.exported = Credit(r)]
  <2>1. /\ s \in FlowState /\ s.flow = r.flow /\ s.snap = r.snap /\ s.seen = r.seen
        /\ s.base = r.base /\ s.exported = Credit(r)
    BY <1>3 DEF FlowState
  <2> QED BY <2>1
<1> PICK k \in 0..(Len(Records(Delta(r))) - 1) :
      /\ \/ f \in Unencodable /\ k = 0 /\ UNCHANGED failures
         \/ /\ f \notin Unencodable
            /\ failures < MaxFailures /\ failures' = failures + 1
      /\ collector' = [collector EXCEPT ![f] = Plus(@, FirstRecords(Delta(r), k))]
  BY DEF FlushFails
<1>4. /\ FirstRecords(Delta(r), k) \in Counters
      /\ k = 0 => \A d \in Dirs : FirstRecords(Delta(r), k)[d] = 0
  <2>1. \A d \in Dirs : Delta(r)[d] \in Nat
    BY <1>3 DEF Counters
  <2>2. FirstRecords(Delta(r), k) \in Counters
    BY <2>1 DEF FirstRecords, Counters
  <2>3. ASSUME k = 0 PROVE \A d \in Dirs : FirstRecords(Delta(r), k)[d] = 0
    <3>1. 1..k = {}
      BY <2>3
    <3> QED BY <3>1 DEF FirstRecords
  <2> QED BY <2>2, <2>3
<1>5. collector[f] \in Counters
  BY DEF ExporterInv, TypeOK
<1> PICK c \in Counters : /\ c = Plus(collector[f], FirstRecords(Delta(r), k))
                          /\ collector' = [collector EXCEPT ![f] = c]
  BY <1>4, <1>5, PlusFacts
<1>6. \A d \in Dirs : /\ collector[f][d] \in Nat /\ FirstRecords(Delta(r), k)[d] \in Nat
                      /\ c[d] = collector[f][d] + FirstRecords(Delta(r), k)[d]
  <2>1. \A d \in Dirs : c[d] = collector[f][d] + FirstRecords(Delta(r), k)[d]
    BY <1>4, <1>5, PlusFacts
  <2> QED BY <1>4, <1>5, <2>1 DEF Counters
<1>7. k = 0 => c = collector[f]
  BY <1>4, <1>5, <1>6 DEF Counters
<1>8. /\ CopyOK(r, store[f], total[f]) /\ \A i \in DOMAIN queue : InTurn(r, queue[i])
      /\ store[f] \in Counters /\ total[f] \in Counters
      /\ Leq(Plus(r.base, r.exported), collector[f])
  BY <1>2, StateInTurn
<1>9. Leq(Plus(r.base, Credit(r)), c)
  <2>1. \A d \in Dirs : /\ r.base[d] \in Nat /\ r.exported[d] \in Nat
                        /\ r.base[d] + r.exported[d] <= collector[f][d]
    <3>1. \A d \in Dirs : Plus(r.base, r.exported)[d] = r.base[d] + r.exported[d]
      BY <1>3, PlusFacts
    <3> QED BY <1>3, <1>8, <3>1 DEF Leq, Counters
  <2>2. \A d \in Dirs : /\ Plus(r.base, Credit(r))[d] = r.base[d] + Credit(r)[d]
                        /\ Credit(r)[d] = 0 \/ Credit(r)[d] = r.exported[d]
    BY <1>3, PlusFacts, DeltaFacts, ZeroFacts
  <2>3. \A d \in Dirs : Plus(r.base, Credit(r))[d] <= c[d]
    BY <1>6, <2>1, <2>2
  <2> QED BY <2>3 DEF Leq
<1>10. /\ failures' \in 0..MaxFailures
       /\ failures' = 0 => failures = 0 /\ k = 0
  BY ExportBounds DEF ExporterInv, TypeOK
<1>11. ASSUME failures' = 0, epochs[f] <= 1
       PROVE  Leq(c, total[f]) /\ Exported(s, c, store[f], total[f], queue)
  <2>1. c = collector[f]
    BY <1>7, <1>10, <1>11
  <2>2. /\ Exported(r, c, store[f], total[f], queue) /\ Leq(c, total[f])
    BY <1>2, <1>10, <1>11, <2>1 DEF ExporterInv, ExactSoFar
  <2>3. Follows(r.snap, r.seen, r.snap, r.seen)
    BY <1>3, FollowsItself, LeqAll
  <2>4. Follows(Credit(r), c, r.snap, r.seen)
    BY <1>3, <2>2, <2>3, CreditFollowed DEF Exported
  <2>5. Follows(Credit(r), c, store[f], total[f])
    BY <1>8, <2>2, CreditFollowed DEF CopyOK, Exported
  <2>6. ASSUME NEW i \in DOMAIN queue, queue[i].flow = f
        PROVE  Follows(Credit(r), c, queue[i].snap, queue[i].seen)
    <3>1. queue[i].snap \in Counters /\ queue[i].seen \in Counters
      BY QueueFacts DEF ExporterInv
    <3>2. Follows(r.snap, r.seen, queue[i].snap, queue[i].seen)
      BY <1>3, <1>8, <2>6 DEF InTurn
    <3>3. /\ Follows(r.exported, c, queue[i].snap, queue[i].seen)
          /\ Follows(r.exported, c, r.snap, r.seen)
      BY <1>3, <2>2, <2>6 DEF Exported
    <3> QED BY <3>1, <3>2, <3>3, CreditFollowed
  <2> QED BY <1>3, <2>2, <2>4, <2>5, <2>6 DEF Exported
<1>12. active' = Replace(f, s) /\ conn' = FALSE /\ pending' = {}
       /\ UNCHANGED <<store, total, queue, epochs, reconfigs>>
  BY DEF FlushFails
<1>13. conn' \in BOOLEAN /\ pending' \subseteq {t.flow : t \in active'}
  BY <1>12
<1>14. Leq(Plus(s.base, s.exported), c) /\ s.flow = f
  BY <1>3, <1>9
<1> QED BY <1>1, <1>10, <1>11, <1>12, <1>13, <1>14, FlushKeeps

\* An edit of the collector: a new worker knows nothing.
LEMMA ReconfigureKeeps ==
  ASSUME ExporterInv, Reconfigure
  PROVE  ExporterInv'
<1>1. /\ reconfigs' \in 0..MaxReconfigs
      /\ UNCHANGED <<store, total, pending, collector, epochs, failures>>
      /\ pending = {} /\ queue' = <<>> /\ active' = {} /\ conn' = FALSE
  BY ExportBounds DEF Reconfigure, ExporterInv, TypeOK
<1>2. /\ <<>> \in Seq(FlowCopy) /\ Len(<<>>) = 0 /\ DOMAIN <<>> = {} /\ 0 <= QueueSize
  BY EmptySeq, ExportBounds
<1>3. TypeOK'
  BY <1>1, <1>2 DEF ExporterInv, TypeOK, ActiveFlows
<1>4. InTurnAll' /\ Credited' /\ (failures' = 0 => ExactSoFar')
  BY <1>1, <1>2 DEF ExporterInv, InTurnAll, Credited, ExactSoFar
<1> QED BY <1>3, <1>4 DEF ExporterInv

LEMMA ExporterNextKeeps == ExporterInv /\ [Next]_vars => ExporterInv'
<1> SUFFICES ASSUME ExporterInv, [Next]_vars PROVE ExporterInv'
  OBVIOUS
<1>1. CASE UNCHANGED vars
  BY <1>1, LoopKeeps DEF vars, ExporterInv, TypeOK
<1>2. CASE \E f \in Flows, d \in Dirs : Observe(f, d)
  BY <1>2, ObserveKeeps
<1>3. CASE \E f \in Flows : GC(f)
  BY <1>3, GCKeeps
<1>4. ASSUME NEW f \in Flows, InactiveElapses(f) PROVE ExporterInv'
  <2>1. f \in ActiveFlows /\ State(f) \in FlowState /\ State(f).flow = f
    BY <1>4, StateFacts DEF InactiveElapses, ExporterInv
  <2> DEFINE s == [State(f) EXCEPT !.idle = TRUE]
  <2>2. /\ s \in FlowState /\ s.flow = State(f).flow /\ s.snap = State(f).snap
        /\ s.seen = State(f).seen /\ s.exported = State(f).exported /\ s.base = State(f).base
    BY <2>1 DEF FlowState
  <2>3. active' = Replace(f, s) /\ pending = {}
        /\ UNCHANGED <<store, total, queue, conn, pending, collector, epochs, failures, reconfigs>>
    BY <1>4 DEF InactiveElapses
  <2> HIDE DEF s
  <2> QED BY <2>1, <2>2, <2>3, FlagKeeps
<1>5. ASSUME NEW f \in Flows, ActiveElapses(f) PROVE ExporterInv'
  <2>1. f \in ActiveFlows /\ State(f) \in FlowState /\ State(f).flow = f
    BY <1>5, StateFacts DEF ActiveElapses, ExporterInv
  <2> DEFINE s == [State(f) EXCEPT !.aged = TRUE]
  <2>2. /\ s \in FlowState /\ s.flow = State(f).flow /\ s.snap = State(f).snap
        /\ s.seen = State(f).seen /\ s.exported = State(f).exported /\ s.base = State(f).base
    BY <2>1 DEF FlowState
  <2>3. active' = Replace(f, s) /\ pending = {}
        /\ UNCHANGED <<store, total, queue, conn, pending, collector, epochs, failures, reconfigs>>
    BY <1>5 DEF ActiveElapses
  <2> HIDE DEF s
  <2> QED BY <2>1, <2>2, <2>3, FlagKeeps
<1>6. CASE \E f \in Flows : FlushSkip(f)
  BY <1>6, LoopKeeps DEF FlushSkip, ExporterInv, TypeOK
<1>7. CASE \E f \in Flows : FlushExport(f)
  BY <1>7, FlushExportKeeps
<1>8. CASE \E f \in Flows : FlushFails(f)
  BY <1>8, FlushFailsKeeps
<1>9. CASE Receive
  BY <1>9, ReceiveKeeps
<1>10. CASE TickDialFails
  <2>1. failures' \in 0..MaxFailures /\ failures' # 0
    BY <1>10, ExportBounds DEF TickDialFails, ExporterInv, TypeOK
  <2> QED BY <1>10, <2>1, LoopKeeps DEF TickDialFails, ExporterInv, TypeOK
<1>11. CASE Tick
  BY <1>11, LoopKeeps DEF Tick, ExporterInv, TypeOK
<1>12. CASE Reconfigure
  BY <1>12, ReconfigureKeeps
<1> QED
  BY <1>1, <1>2, <1>3, <1>4, <1>5, <1>6, <1>7, <1>8, <1>9, <1>10, <1>11, <1>12
     DEF Next, Flush

LEMMA ExporterInvariance == Spec => []ExporterInv
BY ExporterInitInv, ExporterNextKeeps, PTL DEF Spec

\* The exports of a flow's first state, whatever the queue dropped and however
\* often the flow started again, never add up to more than what was observed
\* (internal/flowexport/manager.go), as long as no write has failed.
THEOREM ExportsExactCorrect == Spec => []ExportsExact
<1>1. ExporterInv => ExportsExact
  BY DEF ExporterInv, ExactSoFar, ExportsExact, FirstStateExact
<1> QED BY <1>1, ExporterInvariance, PTL

\* A flow's state is forgotten only once all of its last copy was sent.
LEMMA RetiredIsSent ==
  ASSUME ExporterInv, [Next]_vars, NEW s \in active,
         s.flow \notin {t.flow : t \in active'}, reconfigs' = reconfigs
  PROVE  Leq(Plus(s.base, s.snap), collector'[s.flow])
<1>1. ASSUME UNCHANGED active PROVE FALSE
  BY <1>1
<1>2. ASSUME NEW f \in Flows, NEW t, t.flow = f, active' = Replace(f, t) PROVE FALSE
  BY <1>2 DEF Replace
<1>3. ASSUME NEW f \in Flows, InactiveElapses(f) PROVE FALSE
  <2>1. f \in ActiveFlows /\ State(f) \in FlowState /\ State(f).flow = f
    BY <1>3, StateFacts DEF InactiveElapses, ExporterInv
  <2>2. [State(f) EXCEPT !.idle = TRUE].flow = f
    BY <2>1 DEF FlowState
  <2> QED BY <1>2, <1>3, <2>2 DEF InactiveElapses
<1>4. ASSUME NEW f \in Flows, ActiveElapses(f) PROVE FALSE
  <2>1. f \in ActiveFlows /\ State(f) \in FlowState /\ State(f).flow = f
    BY <1>4, StateFacts DEF ActiveElapses, ExporterInv
  <2>2. [State(f) EXCEPT !.aged = TRUE].flow = f
    BY <2>1 DEF FlowState
  <2> QED BY <1>2, <1>4, <2>2 DEF ActiveElapses
<1>5. ASSUME NEW f \in Flows, FlushFails(f) PROVE FALSE
  <2>1. f \in ActiveFlows
    BY <1>5 DEF FlushFails, ExporterInv, TypeOK
  <2>2. State(f) \in FlowState /\ State(f).flow = f
    BY <2>1, StateFacts DEF ExporterInv
  <2>3. [State(f) EXCEPT !.exported = Credit(State(f))].flow = f
    BY <2>2 DEF FlowState
  <2> QED BY <1>2, <1>5, <2>3 DEF FlushFails
<1>6. ASSUME NEW f \in Flows, FlushExport(f)
      PROVE  Leq(Plus(s.base, s.snap), collector'[s.flow])
  <2>1. f \in ActiveFlows
    BY <1>6 DEF FlushExport, ExporterInv, TypeOK
  <2>2. /\ State(f) \in active /\ State(f) \in FlowState /\ State(f).flow = f
    BY <2>1, StateFacts DEF ExporterInv
  <2>3. [State(f) EXCEPT !.exported = State(f).snap, !.aged = FALSE].flow = f
    BY <2>2 DEF FlowState
  <2>4. CASE ~State(f).idle
    BY <1>2, <1>6, <2>3, <2>4 DEF FlushExport
  <2>5. CASE State(f).idle
    <3>1. active' = active \ {State(f)}
      BY <1>6, <2>5 DEF FlushExport
    <3>2. s = State(f)
      BY <3>1
    <3>3. collector'[f] = Plus(collector[f], Delta(s))
      BY <1>6, <3>2 DEF FlushExport, ExporterInv, TypeOK
    <3>4. collector[f] \in Counters /\ Leq(Plus(s.base, s.exported), collector[f]) /\ s \in FlowState
      BY <2>2, <3>2, StateInTurn
    <3> QED BY <2>2, <3>2, <3>3, <3>4, ExportSendsAll
  <2> QED BY <2>4, <2>5
<1>7. ASSUME Receive PROVE FALSE
  <2>1. queue # <<>> /\ queue \in Seq(FlowCopy)
    BY <1>7 DEF Receive, ExporterInv, TypeOK
  <2> PICK j \in FlowCopy : j = Head(queue)
    BY <2>1, HeadTailProperties
  <2> DEFINE r == IF j.flow \in ActiveFlows THEN State(j.flow)
                  ELSE [flow |-> j.flow, snap |-> Zero, seen |-> Zero, exported |-> Zero,
                        idle |-> FALSE, aged |-> FALSE, base |-> collector[j.flow]]
             t == [r EXCEPT !.snap = j.snap, !.seen = j.seen, !.idle = FALSE]
  <2>2. j.flow \in Flows
    BY DEF FlowCopy
  <2>3. r \in FlowState /\ r.flow = j.flow
    BY <2>2, StateFacts, ZeroFacts DEF ExporterInv, TypeOK, FlowState
  <2>4. active' = Replace(j.flow, t)
    BY <1>7 DEF Receive
  <2> HIDE DEF r
  <2>5. t.flow = j.flow
    BY <2>3 DEF FlowState
  <2> QED BY <1>2, <2>2, <2>4, <2>5
<1>8. ASSUME Reconfigure PROVE FALSE
  BY <1>8, ExportBounds DEF Reconfigure, ExporterInv, TypeOK
<1>9. CASE \/ UNCHANGED vars \/ TickDialFails \/ Tick
           \/ \E f \in Flows : FlushSkip(f) \/ GC(f) \/ \E d \in Dirs : Observe(f, d)
  BY <1>1, <1>9 DEF vars, TickDialFails, Tick, FlushSkip, GC, Observe
<1> QED BY <1>3, <1>4, <1>5, <1>6, <1>7, <1>8, <1>9 DEF Next, Flush

\* A state leaves the worker only once the collector has all of its last copy,
\* beyond what it had when the state was made (flushDue), also after failed
\* writes.
THEOREM RetireSendsEverythingCorrect == Spec => RetireSendsEverything
<1>1. ASSUME ExporterInv, [Next]_vars
      PROVE  [\A s \in active :
                s.flow \notin {t.flow : t \in active'} /\ reconfigs' = reconfigs
                  => Leq(Plus(s.base, s.snap), collector'[s.flow])]_vars
  BY <1>1, RetiredIsSent
<1> QED BY <1>1, ExporterInvariance, PTL DEF Spec, RetireSendsEverything

-----------------------------------------------------------------------------
\* The flight recorder.  Only the open segment grows: it is the current one, and its
\* interface blocks are those the writer knows.
Rising(list) == \A i, j \in 1..Len(list) : i < j => list[i] < list[j]
Writer(r) ==
  /\ r \in RecordType /\ r.current = Len(r.segs) /\ r.current <= MaxSegments
  /\ Len(r.recent) <= 4 /\ \A i \in 1..Len(r.recent) : r.recent[i] <= r.current
  /\ \A s \in 1..Len(r.segs) : r.segs[s].state = "open" <=> r.handle = "open" /\ s = r.current
  /\ r.handle = "none" <=> r.current = 0
  /\ r.handle = "open" => r.ifaces = r.segs[r.current].names
  /\ \A i \in 1..Len(r.recent) : r.segs[r.recent[i]].state # "open"
  /\ \A s \in 1..Len(r.segs) : \A i \in 1..Len(r.segs[s].packets) :
       LET x == r.segs[s].packets[i] IN
       x.id <= Len(r.segs[s].names) /\ r.segs[s].names[x.id] = x.iface
Shape ==
  /\ Writer(rec) /\ (loop = "running" => rec.handle # "none")
  /\ ChannelTypeOK /\ PrunesTypeOK /\ CopiesTypeOK

\* Until a file fails the loop has an open segment, every other segment is complete,
\* and the list of recent segments goes up and ends before the current one.
Clean(r) ==
  /\ \A s \in 1..Len(r.segs) : r.segs[s].state # "cut"
  /\ Rising(r.recent) /\ \A i \in 1..Len(r.recent) : r.recent[i] < r.current
NoFileFailed ==
  fileErrors = 0 => Clean(rec) /\ (loop # "exited" => rec.handle # "closed")

\* The frames of the segments, then those in the channel, go up and are all that
\* were not dropped.
Has(r, m) ==
  \E s \in 1..Len(r.segs) : \E i \in 1..Len(r.segs[s].packets) : r.segs[s].packets[i].n = m
Frames(r, q, all) ==
  /\ \A m : m \in all <=> Has(r, m) \/ \E i \in 1..Len(q) : q[i].n = m
  /\ InOrder(q)
  /\ \A m : Has(r, m) => \A i \in 1..Len(q) : m < q[i].n
  /\ \A s \in 1..Len(r.segs) : InOrder(r.segs[s].packets)
  /\ \A s, t \in 1..Len(r.segs) : s < t =>
       \A i \in 1..Len(r.segs[s].packets), j \in 1..Len(r.segs[t].packets) :
         r.segs[s].packets[i].n < r.segs[t].packets[j].n
FramesOK == fileErrors = 0 => Frames(rec, buffered, (1..offered) \ dropped)

\* A call has its own tag, and until a file fails it copies every segment once.
CallsApart ==
  /\ \A p \in Protectors : \A d \in protector[p].out : d[1] = protector[p].tag
  /\ ~SameTag =>
       /\ \A p \in Protectors : protector[p].at # "idle" =>
            /\ protector[p].tag \in 1..calls
            /\ \A q \in Protectors : q # p /\ protector[q].at # "idle" =>
                 protector[p].tag # protector[q].tag
            /\ \A d \in protected : d[1] # protector[p].tag
       /\ \A d \in protected : d[1] \in 1..calls
CopiesOnce ==
  fileErrors = 0 => \A p \in Protectors :
    /\ Rising(protector[p].files)
    /\ \A d \in protector[p].out, i \in 1..Len(protector[p].files) :
         d[2] < protector[p].files[i]

\* What has been copied is there, from a segment that was closed; and it is done,
\* unless the same call has begun to write it again.
Rewriting(p, d) == protector[p].at = "writing" /\ d = Target(p)
CallOK(p) ==
  /\ protector[p].at = "idle" => protector[p].out = {}
  /\ protector[p].at = "writing" => protector[p].files # <<>>
  /\ \A i \in 1..Len(protector[p].files) : rec.segs[protector[p].files[i]].state # "open"
  /\ protector[p].at = "writing" =>
       /\ incidents[Target(p)].state # "none"
       /\ ~SameTag => incidents[Target(p)].by = p
  /\ \A d \in protector[p].out :
       /\ incidents[d].state # "none"
       /\ ~SameTag /\ fileErrors <= 1 => incidents[d].done \/ Rewriting(p, d)
CallsOK == \A p \in Protectors : CallOK(p)
CopiesOK ==
  /\ fileErrors = 0 => \A d \in Tags \X Segments : incidents[d].state \in {"none", "complete"}
  /\ \A d \in protected : /\ incidents[d].state # "none"
                          /\ ~SameTag /\ fileErrors <= 1 => incidents[d].done

\* What a call has seen is in a segment that it will copy or has copied.
AtHand(p, s) ==
  \/ \E i \in 1..Len(protector[p].files) : protector[p].files[i] = s
  \/ <<protector[p].tag, s>> \in protector[p].out
  \/ rec.segs[s].state = "pruned"
SeenAtHand ==
  fileErrors = 0 => \A p \in Protectors :
    /\ \A m \in protector[p].saw : Has(rec, m)
    /\ \A s \in 1..Len(rec.segs) : \A i \in 1..Len(rec.segs[s].packets) :
         rec.segs[s].packets[i].n \in protector[p].saw => AtHand(p, s)

\* Sizes only grow after a listing; while the closed segments exceed the budget, a
\* prune has still to list them, or has them all before it and counts them.
ListsOK ==
  \A k \in 1..MaxPrunes : prunes[k].at = "listed" =>
    \A s \in prunes[k].files : prunes[k].size[s] <= Size(s)
Covers(k) ==
  /\ prunes[k].at = "listed" /\ ClosedOnDisk \subseteq prunes[k].files
  /\ prunes[k].total >= DiskUse
BudgetOK ==
  fileErrors = 0 /\ loop # "exited" =>
    \/ DiskUse <= MaxDisk
    \/ \E k \in 1..MaxPrunes : prunes[k].at = "started" \/ Covers(k)

RecorderInv ==
  /\ Shape /\ NoFileFailed /\ FramesOK /\ CallsApart /\ CopiesOnce /\ CallsOK /\ CopiesOK
  /\ SeenAtHand /\ ListsOK /\ BudgetOK

-----------------------------------------------------------------------------
\* The oldest of some files: a set of numbers that is not empty has a least one.
LEMMA LeastPosition ==
  ASSUME NEW S, S \subseteq Nat, S # {}
  PROVE  \E s \in S : \A t \in S : s <= t
<1>1. IsWellFoundedOn(OpToRel(<, Nat), Nat)
  BY NatLessThanWellFounded
<1>2. PICK s \in S : \A t \in S : ~ (<<t, s>> \in OpToRel(<, Nat))
  BY <1>1, WFMin
<1>3. ASSUME NEW t \in S PROVE s <= t
  <2>1. s \in Nat /\ t \in Nat
    OBVIOUS
  <2>2. t < s => <<t, s>> \in OpToRel(<, Nat)
    BY <2>1 DEF OpToRel
  <2>3. ~(t < s)
    BY <1>2, <2>2
  <2> QED BY <2>1, <2>3
<1> QED BY <1>3

\* The blocks of finitely many files are finitely many: how totals compare.
Blocks(files, size) == UNION {{s} \X (1..size[s]) : s \in files}
LEMMA BlocksFinite ==
  ASSUME NEW n \in Nat, NEW files, files \subseteq 1..n, NEW size,
         \A s \in files : size[s] \in Nat
  PROVE  IsFiniteSet(Blocks(files, size)) /\ Total(files, size) \in Nat
         /\ Total(files, size) = Cardinality(Blocks(files, size))
<1>1. IsFiniteSet(files)
  <2>1. IsFiniteSet(1..n) /\ files \in SUBSET (1..n)
    BY FS_Interval
  <2> QED BY <2>1, FS_Subset
<1>2. \A s \in files : IsFiniteSet({s} \X (1..size[s]))
  <2> TAKE s \in files
  <2>1. IsFiniteSet({s})
    BY FS_Singleton
  <2>2. IsFiniteSet(1..size[s])
    <3>1. size[s] \in Int
      OBVIOUS
    <3> QED BY <3>1, FS_Interval
  <2> QED BY <2>1, <2>2, FS_Product
<1>3. IsFiniteSet({{s} \X (1..size[s]) : s \in files})
  <2> DEFINE T == {{s} \X (1..size[s]) : s \in files}
             f == [s \in files |-> {s} \X (1..size[s])]
  <2>1. f \in Surjection(files, T)
    BY DEF Surjection
  <2> HIDE DEF f, T
  <2>2. IsFiniteSet(T)
    BY <1>1, <2>1, FS_Surjection
  <2> QED BY <2>2 DEF T
<1>4. IsFiniteSet(Blocks(files, size))
  BY <1>2, <1>3, FS_UNION DEF Blocks
<1> QED BY <1>4, FS_CardinalityType DEF Total, Blocks

\* More files, of sizes that are no smaller, have no smaller total.
LEMMA TotalGrows ==
  ASSUME NEW n \in Nat, NEW some, NEW all, some \subseteq all, all \subseteq 1..n,
         NEW small, NEW large, \A s \in all : large[s] \in Nat,
         \A s \in some : small[s] \in Nat /\ small[s] <= large[s]
  PROVE  Total(some, small) <= Total(all, large)
<1>1. Blocks(some, small) \subseteq Blocks(all, large)
  <2> SUFFICES ASSUME NEW s \in some, NEW b \in {s} \X (1..small[s])
               PROVE  b \in {s} \X (1..large[s])
    BY DEF Blocks
  <2>1. 1..small[s] \subseteq 1..large[s]
    OBVIOUS
  <2> QED BY <2>1
<1>2. /\ IsFiniteSet(Blocks(all, large))
      /\ Total(all, large) = Cardinality(Blocks(all, large))
      /\ Total(some, small) = Cardinality(Blocks(some, small))
  BY BlocksFinite
<1> QED BY <1>1, <1>2, FS_Subset

\* Without one of the files the total is less by its size.
LEMMA TotalWithout ==
  ASSUME NEW n \in Nat, NEW files, files \subseteq 1..n, NEW size, NEW f \in files,
         \A s \in files : size[s] \in Nat
  PROVE  Total(files, size) = Total(files \ {f}, size) + size[f]
<1> DEFINE B == {f} \X (1..size[f])
           rest == Blocks(files \ {f}, size)
<1>1. Blocks(files, size) = rest \cup B /\ rest \cap B = {}
  <2>1. \A z : z \in rest <=> \E s \in files \ {f} : z \in {s} \X (1..size[s])
    BY DEF Blocks
  <2>2. \A z : z \in Blocks(files, size) <=> \E s \in files : z \in {s} \X (1..size[s])
    BY DEF Blocks
  <2>3. \A s : \A z \in {s} \X (1..size[s]) : z[1] = s
    OBVIOUS
  <2> HIDE DEF rest
  <2>4. rest \cap B = {}
    BY <2>1, <2>3
  <2>5. \A z : z \in Blocks(files, size) <=> z \in rest \/ z \in B
    BY <2>1, <2>2
  <2> QED BY <2>4, <2>5
<1>2. IsFiniteSet(rest) /\ Total(files \ {f}, size) = Cardinality(rest)
      /\ Total(files, size) = Cardinality(Blocks(files, size))
  BY BlocksFinite
<1>3. IsFiniteSet(B) /\ Cardinality(B) = size[f]
  <2>1. IsFiniteSet({f}) /\ Cardinality({f}) = 1
    BY FS_Singleton
  <2>2. IsFiniteSet(1..size[f]) /\ Cardinality(1..size[f]) = size[f]
    <3> DEFINE k == size[f]
    <3>1. k \in Nat /\ k \in Int
      OBVIOUS
    <3> HIDE DEF k
    <3>2. IsFiniteSet(1..k) /\ Cardinality(1..k) = k
      BY <3>1, FS_Interval
    <3> QED BY <3>2 DEF k
  <2>3. IsFiniteSet(B) /\ Cardinality(B) = Cardinality({f}) * Cardinality(1..size[f])
    BY <2>1, <2>2, FS_Product
  <2> QED BY <2>1, <2>2, <2>3
<1>4. Cardinality(rest \cup B) = Cardinality(rest) + Cardinality(B) - Cardinality(rest \cap B)
  BY <1>2, <1>3, FS_Union
<1>5. Cardinality(rest \cap B) = 0 /\ Cardinality(rest) \in Nat /\ Cardinality(B) \in Nat
  BY <1>1, <1>2, <1>3, FS_EmptySet, FS_CardinalityType
<1> HIDE DEF B, rest
<1> QED BY <1>1, <1>2, <1>3, <1>4, <1>5

-----------------------------------------------------------------------------
LEMMA RecorderBounds ==
  /\ ChannelSize \in Nat \ {0} /\ SegmentFrames \in Nat \ {0} /\ MaxPrunes \in Nat \ {0}
  /\ MaxDisk \in Nat /\ MaxFrames \in Nat /\ MaxSegments \in Nat /\ MaxCalls \in Nat
  /\ MaxFileErrors \in Nat /\ SameTag \in BOOLEAN
BY RecorderAssumption

\* The numbers of a sequence, read by position.
LEMMA NumbersFacts ==
  ASSUME NEW T, NEW b \in Seq(T)
  PROVE  \A m : m \in Numbers(b) <=> \E i \in 1..Len(b) : b[i].n = m
BY LenProperties DEF Numbers, ToSet

\* The last elements of a list, in their order, with its last among them.
LEMMA LastSteps ==
  ASSUME NEW T, NEW list \in Seq(T), NEW n \in Nat \ {0}, Len(list) > n
  PROVE  /\ LastN(list, n) \in Seq(T) /\ Len(LastN(list, n)) = n
         /\ \A i \in 1..n : /\ LastN(list, n)[i] = list[Len(list) - n + i]
                            /\ Len(list) - n + i \in 1..Len(list)
<1>1. Len(list) \in Nat
  BY LenProperties
<1> DEFINE k == Len(list) - n + 1
<1>2. k \in 1..Len(list) + 1 /\ Len(list) \in k - 1..Len(list)
  BY <1>1
<1>3. /\ SubSeq(list, k, Len(list)) \in Seq(T)
      /\ Len(SubSeq(list, k, Len(list))) = n
      /\ \A i \in 1..n : SubSeq(list, k, Len(list))[i] = list[k + i - 1]
  BY <1>1, <1>2, SubSeqProperties
<1>4. LastN(list, n) = SubSeq(list, k, Len(list))
  BY <1>1 DEF LastN
<1>5. \A i \in 1..n : k + i - 1 = Len(list) - n + i /\ Len(list) - n + i \in 1..Len(list)
  BY <1>1
<1> HIDE DEF k
<1> QED BY <1>3, <1>4, <1>5

LEMMA LastFacts ==
  ASSUME NEW T, NEW list \in Seq(T), NEW n \in Nat \ {0}
  PROVE  /\ LastN(list, n) \in Seq(T) /\ Len(LastN(list, n)) <= n
         /\ \A i \in 1..Len(LastN(list, n)) :
              \E j \in 1..Len(list) : LastN(list, n)[i] = list[j]
<1>1. Len(list) \in Nat
  BY LenProperties
<1>2. CASE Len(list) <= n
  BY <1>1, <1>2 DEF LastN
<1>3. CASE Len(list) > n
  <2>1. /\ LastN(list, n) \in Seq(T) /\ Len(LastN(list, n)) = n
        /\ \A i \in 1..n : /\ LastN(list, n)[i] = list[Len(list) - n + i]
                           /\ Len(list) - n + i \in 1..Len(list)
    BY <1>3, LastSteps
  <2> QED BY <2>1
<1> QED BY <1>1, <1>2, <1>3

LEMMA LastIsLast ==
  ASSUME NEW T, NEW list \in Seq(T), NEW n \in Nat \ {0}, list # <<>>
  PROVE  /\ LastN(list, n) # <<>>
         /\ Len(LastN(list, n)) \in 1..Len(LastN(list, n))
         /\ LastN(list, n)[Len(LastN(list, n))] = list[Len(list)]
<1>1. Len(list) \in Nat \ {0}
  BY LenProperties, EmptySeq
<1>2. CASE Len(list) <= n
  BY <1>1, <1>2 DEF LastN
<1>3. CASE Len(list) > n
  <2>1. /\ LastN(list, n) \in Seq(T) /\ Len(LastN(list, n)) = n
        /\ \A i \in 1..n : LastN(list, n)[i] = list[Len(list) - n + i]
    BY <1>3, LastSteps
  <2>2. n \in 1..n /\ Len(list) - n + n = Len(list)
    BY <1>1
  <2>3. LastN(list, n)[n] = list[Len(list)]
    BY <2>1, <2>2
  <2>4. LastN(list, n) # <<>>
    BY <2>1, EmptySeq
  <2> QED BY <2>1, <2>2, <2>3, <2>4
<1> QED BY <1>1, <1>2, <1>3

LEMMA LastRises ==
  ASSUME NEW list \in Seq(Int), NEW n \in Nat \ {0}, Rising(list)
  PROVE  Rising(LastN(list, n))
<1>1. Len(list) \in Nat
  BY LenProperties
<1>2. CASE Len(list) <= n
  BY <1>2 DEF LastN
<1>3. CASE Len(list) > n
  <2> DEFINE last == LastN(list, n)
  <2>1. /\ Len(last) = n
        /\ \A i \in 1..n : /\ last[i] = list[Len(list) - n + i]
                           /\ Len(list) - n + i \in 1..Len(list)
    BY <1>3, LastSteps
  <2> HIDE DEF last
  <2>2. \A i, j \in 1..n : i < j => Len(list) - n + i < Len(list) - n + j
    BY <1>1
  <2>3. Rising(last)
    BY <2>1, <2>2 DEF Rising
  <2> QED BY <2>3 DEF last
<1> QED BY <1>1, <1>2, <1>3

LEMMA WriterFields ==
  ASSUME NEW r, Writer(r)
  PROVE  /\ r.segs \in Seq(SegmentType) /\ Len(r.segs) \in Nat /\ r.current \in Nat
         /\ r.handle \in {"none", "open", "closed"} /\ r.written \in Nat
         /\ r.ifaces \in Seq(Interfaces) /\ r.recent \in Seq(Segments)
         /\ Len(r.recent) \in Nat
         /\ \A s \in 1..Len(r.segs) :
              /\ r.segs[s] \in SegmentType /\ r.segs[s].names \in Seq(Interfaces)
              /\ r.segs[s].packets \in Seq(PacketBlock) /\ r.segs[s].state \in Outcomes
              /\ Len(r.segs[s].packets) \in Nat /\ Len(r.segs[s].names) \in Nat
<1>1. /\ r.segs \in Seq(SegmentType) /\ r.current \in Nat
      /\ r.handle \in {"none", "open", "closed"} /\ r.written \in Nat
      /\ r.ifaces \in Seq(Interfaces) /\ r.recent \in Seq(Segments)
  BY DEF Writer, RecordType
<1>2. Len(r.segs) \in Nat /\ Len(r.recent) \in Nat
  BY <1>1, LenProperties
<1>3. ASSUME NEW s \in 1..Len(r.segs)
      PROVE  /\ r.segs[s] \in SegmentType /\ r.segs[s].names \in Seq(Interfaces)
             /\ r.segs[s].packets \in Seq(PacketBlock) /\ r.segs[s].state \in Outcomes
             /\ Len(r.segs[s].packets) \in Nat /\ Len(r.segs[s].names) \in Nat
  <2>1. r.segs[s] \in SegmentType
    BY <1>1, ElementOfSeq
  <2>2. r.segs[s].names \in Seq(Interfaces) /\ r.segs[s].packets \in Seq(PacketBlock)
    BY <2>1 DEF SegmentType
  <2> QED BY <2>1, <2>2, LenProperties DEF SegmentType
<1> QED BY <1>1, <1>2, <1>3

LEMMA WriterIsInv ==
  ASSUME Writer(rec)
  PROVE  InterfaceResolves
<1> SUFFICES ASSUME NEW s \in 1..Len(rec.segs), NEW x \in ToSet(rec.segs[s].packets)
             PROVE  x.id <= Len(rec.segs[s].names) /\ rec.segs[s].names[x.id] = x.iface
  BY DEF InterfaceResolves
<1>1. rec.segs[s].packets \in Seq(PacketBlock)
  BY WriterFields
<1>2. PICK i \in 1..Len(rec.segs[s].packets) : rec.segs[s].packets[i] = x
  BY <1>1, LenProperties DEF ToSet
<1> QED BY <1>2 DEF Writer

\* Closing the open segment decides its outcome, and changes nothing else.
LEMMA ClosedFacts ==
  ASSUME NEW r, Writer(r), NEW flushed \in BOOLEAN
  PROVE  LET c == Closed(r, flushed)
             outcome == IF flushed THEN "complete" ELSE "cut" IN
         /\ Writer(c) /\ c.current = r.current /\ c.recent = r.recent
         /\ c.written = r.written /\ c.ifaces = r.ifaces /\ Len(c.segs) = Len(r.segs)
         /\ c.handle = IF r.handle = "none" THEN "none" ELSE "closed"
         /\ \A s \in 1..Len(r.segs) :
              /\ c.segs[s].packets = r.segs[s].packets
              /\ c.segs[s].state = IF r.segs[s].state = "open" THEN outcome ELSE r.segs[s].state
         /\ Clean(r) /\ (flushed \/ r.handle # "open") => Clean(c)
<1> DEFINE outcome == IF flushed THEN "complete" ELSE "cut"
           cur == r.current
           seg == [r.segs[cur] EXCEPT !.state = outcome]
           segs == [r.segs EXCEPT ![cur] = seg]
<1>1. CASE r.handle # "open"
  BY <1>1, WriterFields DEF Writer, Closed
<1>2. CASE r.handle = "open"
  <2>1. cur \in 1..Len(r.segs) /\ r.segs[cur] \in SegmentType
    BY <1>2, WriterFields DEF Writer
  <2>2. /\ seg \in SegmentType /\ seg.packets = r.segs[cur].packets
        /\ seg.names = r.segs[cur].names /\ seg.state = outcome
    BY <2>1 DEF SegmentType, Outcomes
  <2>3. /\ segs \in Seq(SegmentType) /\ Len(segs) = Len(r.segs)
        /\ \A s \in 1..Len(r.segs) : segs[s] = IF s = cur THEN seg ELSE r.segs[s]
    BY <2>1, <2>2, WriterFields, ExceptSeq
  <2> DEFINE c == [r EXCEPT !.segs = segs, !.handle = "closed"]
  <2>4. Closed(r, flushed) = c
    BY <1>2 DEF Closed, Writer, RecordType
  <2>5. /\ c \in RecordType /\ c.segs = segs /\ c.handle = "closed" /\ c.current = cur
        /\ c.recent = r.recent /\ c.written = r.written /\ c.ifaces = r.ifaces
    BY <2>3 DEF Writer, RecordType
  <2> HIDE DEF c, segs, seg
  <2>6. \A s \in 1..Len(r.segs) :
          /\ c.segs[s].packets = r.segs[s].packets /\ c.segs[s].names = r.segs[s].names
          /\ c.segs[s].state = IF s = cur THEN outcome ELSE r.segs[s].state
    BY <2>2, <2>3, <2>5
  <2>7. \A s \in 1..Len(r.segs) : r.segs[s].state = "open" <=> s = cur
    BY <1>2 DEF Writer
  <2>8. \A i \in 1..Len(r.recent) : r.recent[i] \in 1..Len(r.segs) /\ r.recent[i] # cur
    <3>1. \A i \in 1..Len(r.recent) : r.recent[i] \in Segments /\ r.recent[i] <= Len(r.segs)
      BY WriterFields, ElementOfSeq DEF Writer
    <3>2. \A i \in 1..Len(r.recent) : r.segs[r.recent[i]].state # "open"
      BY DEF Writer
    <3>3. Len(r.segs) \in Nat
      BY WriterFields
    <3>4. \A i \in 1..Len(r.recent) : r.recent[i] \in 1..Len(r.segs)
      BY <3>1, <3>3, RecorderBounds DEF Segments
    <3> QED BY <2>1, <2>7, <3>2, <3>4
  <2>9. Writer(c)
    <3>1. /\ c.current = Len(c.segs) /\ c.current <= MaxSegments /\ c.current # 0
          /\ Len(c.recent) <= 4 /\ \A i \in 1..Len(c.recent) : c.recent[i] <= c.current
      BY <1>2, <2>1, <2>3, <2>5 DEF Writer
    <3>2. outcome # "open"
      OBVIOUS
    <3>3. \A s \in 1..Len(c.segs) : c.segs[s].state # "open"
      BY <2>3, <2>5, <2>6, <2>7, <3>2
    <3>4. \A i \in 1..Len(c.recent) : c.segs[c.recent[i]].state # "open"
      BY <2>3, <2>5, <2>8, <3>3
    <3>5. ASSUME NEW s \in 1..Len(c.segs), NEW i \in 1..Len(c.segs[s].packets)
          PROVE  LET x == c.segs[s].packets[i] IN
                 x.id <= Len(c.segs[s].names) /\ c.segs[s].names[x.id] = x.iface
      <4>1. s \in 1..Len(r.segs)
        BY <2>3, <2>5
      <4>2. c.segs[s].packets = r.segs[s].packets /\ c.segs[s].names = r.segs[s].names
        BY <2>6, <4>1
      <4> QED BY <4>1, <4>2 DEF Writer
    <3> QED BY <2>5, <3>1, <3>3, <3>4, <3>5 DEF Writer
  <2>10. Clean(r) /\ flushed => Clean(c)
    BY <2>3, <2>5, <2>6 DEF Clean
  <2> QED BY <1>2, <2>3, <2>4, <2>5, <2>6, <2>7, <2>9, <2>10
<1> QED BY <1>1, <1>2

LEMMA BlockAppended ==
  ASSUME NEW blocks \in Seq(PacketBlock), NEW b \in PacketBlock
  PROVE  /\ Append(blocks, b) \in Seq(PacketBlock) /\ Len(blocks) \in Nat
         /\ Len(Append(blocks, b)) = Len(blocks) + 1
         /\ \A i \in 1..Len(blocks) : Append(blocks, b)[i] = blocks[i]
         /\ Append(blocks, b)[Len(blocks) + 1] = b
BY AppendProperties, LenProperties

\* A rotation: the segments there were keep their packets, the open one is closed
\* and remembered, and the new one, if it could be opened, is empty.
LEMMA RotatedFacts ==
  ASSUME NEW r, Writer(r), NEW flushed \in BOOLEAN, NEW opened \in BOOLEAN,
         opened => r.current < MaxSegments
  PROVE  LET n == Rotated(r, flushed, opened)
             outcome == IF flushed THEN "complete" ELSE "cut" IN
         /\ Writer(n)
         /\ opened => /\ n.current = r.current + 1 /\ n.handle = "open"
                      /\ n.segs[n.current] = EmptySegment
         /\ ~opened => /\ n.current = r.current
                       /\ n.handle = IF r.handle = "none" THEN "none" ELSE "closed"
         /\ \A s \in 1..Len(r.segs) :
              /\ n.segs[s].packets = r.segs[s].packets
              /\ n.segs[s].state = IF r.segs[s].state = "open" THEN outcome ELSE r.segs[s].state
         /\ n.recent = IF r.handle = "none" THEN r.recent
                       ELSE LastN(Append(r.recent, r.current), 4)
         /\ Clean(r) /\ flushed /\ opened => Clean(n)
<1> DEFINE c == Closed(r, flushed)
           recent == IF r.handle = "none" THEN r.recent
                     ELSE LastN(Append(r.recent, r.current), 4)
           pushed == [c EXCEPT !.recent = recent]
           outcome == IF flushed THEN "complete" ELSE "cut"
<1>1. /\ Writer(c) /\ c.current = r.current /\ c.recent = r.recent
      /\ Len(c.segs) = Len(r.segs)
      /\ c.handle = IF r.handle = "none" THEN "none" ELSE "closed"
      /\ \A s \in 1..Len(r.segs) :
           /\ c.segs[s].packets = r.segs[s].packets
           /\ c.segs[s].state = IF r.segs[s].state = "open" THEN outcome ELSE r.segs[s].state
      /\ Clean(r) /\ flushed => Clean(c)
  BY ClosedFacts
<1> HIDE DEF c
<1>2. /\ c \in RecordType /\ c.segs \in Seq(SegmentType) /\ r.recent \in Seq(Segments)
      /\ r.current \in Nat /\ Len(r.segs) \in Nat /\ Len(r.segs) = r.current
      /\ r.handle \in {"none", "open", "closed"} /\ (r.handle = "none" <=> r.current = 0)
      /\ r.current <= MaxSegments
  BY <1>1, WriterFields DEF Writer
<1>3. /\ recent \in Seq(Segments) /\ Len(recent) <= 4
      /\ \A i \in 1..Len(recent) : /\ recent[i] \in 1..r.current
                                   /\ c.segs[recent[i]].state # "open"
      /\ Clean(r) => Rising(recent)
  <2>1. CASE r.handle = "none"
    <3>1. recent = c.recent
      BY <1>1, <2>1
    <3>2. \A i \in 1..Len(c.recent) : c.recent[i] \in Segments
      BY <1>1, <1>2, ElementOfSeq
    <3> QED BY <1>1, <1>2, <2>1, <3>1, <3>2, RecorderBounds DEF Writer, Clean, Segments
  <2>2. CASE r.handle # "none"
    <3> DEFINE long == Append(r.recent, r.current)
    <3>1. r.current \in Segments
      BY <1>2, <2>2, RecorderBounds DEF Segments
    <3>2. /\ long \in Seq(Segments) /\ Len(long) = Len(r.recent) + 1
          /\ \A i \in 1..Len(r.recent) : long[i] = r.recent[i]
          /\ long[Len(r.recent) + 1] = r.current /\ Len(r.recent) \in Nat
      BY <1>2, <3>1, AppendProperties, LenProperties
    <3>3. \A i \in 1..Len(c.recent) : c.recent[i] \in Segments
      BY <1>1, <1>2, ElementOfSeq
    <3>4. c.segs[r.current].state # "open" /\ r.current \in 1..r.current
      BY <1>1, <1>2, <2>2 DEF Writer
    <3>7. recent = LastN(long, 4)
      BY <2>2
    <3> HIDE DEF long, recent
    <3>5. ASSUME NEW i \in 1..Len(long)
          PROVE  long[i] \in 1..r.current /\ c.segs[long[i]].state # "open"
      <4>1. CASE i = Len(r.recent) + 1
        BY <3>2, <3>4, <4>1
      <4>2. CASE i \in 1..Len(c.recent)
        <5>1. long[i] = c.recent[i]
          BY <1>1, <3>2, <4>2
        <5>2. c.recent[i] \in Segments /\ c.recent[i] <= r.current
          BY <1>1, <3>3, <4>2 DEF Writer
        <5>3. c.segs[c.recent[i]].state # "open"
          BY <4>2, <1>1 DEF Writer
        <5> QED BY <1>2, <5>1, <5>2, <5>3, RecorderBounds DEF Segments
      <4> QED BY <1>1, <3>2, <4>1, <4>2
    <3>6. Clean(r) => Rising(long)
      <4> SUFFICES ASSUME Clean(r), NEW i \in 1..Len(long), NEW j \in 1..Len(long), i < j
                   PROVE  long[i] < long[j]
        BY DEF Rising
      <4>1. i \in 1..Len(r.recent) /\ long[i] = r.recent[i] /\ r.recent[i] < r.current
        BY <3>2 DEF Clean
      <4>2. CASE j \in 1..Len(r.recent)
        BY <3>2, <4>1, <4>2 DEF Clean, Rising
      <4> QED BY <3>2, <4>1, <4>2
    <3>8. long \in Seq(Int)
      <4>1. Segments \subseteq Int
        BY RecorderBounds DEF Segments
      <4> QED BY <3>2, <4>1, SeqMonotonic
    <3>9. /\ recent \in Seq(Segments) /\ Len(recent) <= 4
          /\ \A i \in 1..Len(recent) : \E j \in 1..Len(long) : recent[i] = long[j]
      BY <3>2, <3>7, LastFacts
    <3>10. Clean(r) => Rising(recent)
      BY <3>6, <3>7, <3>8, LastRises
    <3> QED BY <3>5, <3>9, <3>10
  <2> QED BY <2>1, <2>2
<1> HIDE DEF recent
<1>4. /\ pushed \in RecordType /\ pushed.segs = c.segs /\ pushed.handle = c.handle
      /\ pushed.current = c.current /\ pushed.recent = recent
      /\ pushed.written = c.written /\ pushed.ifaces = c.ifaces
  BY <1>2, <1>3 DEF RecordType
<1>5. Writer(pushed)
  <2>1. /\ pushed \in RecordType /\ pushed.current = Len(pushed.segs) /\ pushed.current <= MaxSegments
        /\ pushed.handle = "none" <=> pushed.current = 0
    BY <1>1, <1>4 DEF Writer
  <2>2. Len(pushed.recent) <= 4 /\ \A i \in 1..Len(pushed.recent) :
          pushed.recent[i] <= pushed.current /\ pushed.segs[pushed.recent[i]].state # "open"
    BY <1>1, <1>3, <1>4 DEF Writer
  <2>3. \A s \in 1..Len(pushed.segs) :
          pushed.segs[s].state = "open" <=> pushed.handle = "open" /\ s = pushed.current
    BY <1>1, <1>4 DEF Writer
  <2>4. pushed.handle = "open" => pushed.ifaces = pushed.segs[pushed.current].names
    BY <1>1, <1>4 DEF Writer
  <2>5. \A s \in 1..Len(pushed.segs) : \A i \in 1..Len(pushed.segs[s].packets) :
          /\ pushed.segs[s].packets[i].id <= Len(pushed.segs[s].names)
          /\ pushed.segs[s].names[pushed.segs[s].packets[i].id] = pushed.segs[s].packets[i].iface
    BY <1>1, <1>4 DEF Writer
  <2> QED BY <2>1, <2>2, <2>3, <2>4, <2>5, Zenon DEF Writer
<1>6. Clean(r) /\ flushed /\ opened =>
        /\ \A s \in 1..Len(c.segs) : c.segs[s].state # "cut"
        /\ Rising(recent)
  BY <1>1, <1>3 DEF Clean
<1>7. pushed = IF r.handle = "none" THEN c ELSE [c EXCEPT !.recent = LastN(Append(@, r.current), 4)]
  BY <1>1, <1>2 DEF recent, RecordType
<1>8. CASE ~opened
  <2>1. Rotated(r, flushed, opened) = pushed
    BY <1>7, <1>8 DEF Rotated, c
  <2> HIDE DEF pushed
  <2> QED BY <1>1, <1>4, <1>5, <1>8, <2>1 DEF recent
<1>9. CASE opened
  <2> DEFINE segs == Append(c.segs, EmptySegment)
             n == [pushed EXCEPT !.segs = segs, !.current = Len(r.segs) + 1, !.handle = "open",
                                 !.written = 0, !.ifaces = <<>>]
  <2>1. Rotated(r, flushed, opened) = n
    BY <1>4, <1>7, <1>9 DEF Rotated, c
  <2>2. EmptySegment \in SegmentType
    BY EmptySeq DEF EmptySegment, SegmentType, Outcomes
  <2>3. /\ segs \in Seq(SegmentType) /\ Len(segs) = Len(r.segs) + 1
        /\ \A s \in 1..Len(r.segs) : segs[s] = c.segs[s]
        /\ segs[Len(r.segs) + 1] = EmptySegment
    BY <1>1, <1>2, <2>2, AppendProperties
  <2> HIDE DEF segs, pushed
  <2>4. /\ n \in RecordType /\ n.segs = segs /\ n.handle = "open"
        /\ n.current = r.current + 1 /\ n.recent = recent /\ n.written = 0 /\ n.ifaces = <<>>
    <3>1. n = [pushed EXCEPT !.segs = segs, !.current = Len(r.segs) + 1, !.handle = "open",
                             !.written = 0, !.ifaces = <<>>]
      OBVIOUS
    <3>2. Len(r.segs) + 1 \in Nat
      BY <1>2
    <3> HIDE DEF n
    <3>4. pushed \in RecordType /\ segs \in Seq(SegmentType) /\ <<>> \in Seq(Interfaces)
      BY <1>4, <2>3, EmptySeq
    <3>3. /\ n \in RecordType /\ n.segs = segs /\ n.ifaces = <<>>
          /\ n.current = Len(r.segs) + 1
          /\ n.handle = "open" /\ n.recent = pushed.recent /\ n.written = 0
      BY <3>1, <3>2, <3>4 DEF RecordType
    <3> QED BY <1>2, <1>4, <3>3
  <2> HIDE DEF n
  <2>5. \A s \in 1..Len(r.segs) : c.segs[s].state # "open"
    BY <1>1, <1>2 DEF Writer
  <2>6. \A s \in 1..Len(n.segs) : n.segs[s].state = "open" <=> s = n.current
    BY <1>2, <2>3, <2>4, <2>5 DEF EmptySegment
  <2>7. \A i \in 1..Len(n.recent) : n.recent[i] < n.current /\ n.segs[n.recent[i]].state # "open"
    <3> TAKE i \in 1..Len(n.recent)
    <3>1. n.recent[i] \in 1..r.current /\ c.segs[n.recent[i]].state # "open"
      BY <1>3, <2>4
    <3>2. n.segs[n.recent[i]] = c.segs[n.recent[i]]
      BY <1>2, <2>3, <2>4, <3>1
    <3> QED BY <1>2, <2>4, <3>1, <3>2
  <2>8. n.segs[n.current].names = <<>> /\ n.segs[n.current] = EmptySegment
    BY <1>2, <2>3, <2>4 DEF EmptySegment
  <2>9. ASSUME NEW s \in 1..Len(n.segs), NEW i \in 1..Len(n.segs[s].packets)
        PROVE  LET x == n.segs[s].packets[i] IN
               x.id <= Len(n.segs[s].names) /\ n.segs[s].names[x.id] = x.iface
    <3>1. CASE s = Len(r.segs) + 1
      BY <2>3, <2>4, <3>1, EmptySeq DEF EmptySegment
    <3>2. CASE s \in 1..Len(r.segs)
      <4>1. n.segs[s] = c.segs[s] /\ s \in 1..Len(c.segs)
        BY <1>1, <2>3, <2>4, <3>2
      <4> QED BY <1>1, <4>1 DEF Writer
    <3> QED BY <1>2, <2>3, <2>4, <3>1, <3>2
  <2>10. Writer(n)
    <3>1. \A i \in 1..Len(n.recent) : n.recent[i] <= n.current
      BY <1>2, <1>3, <2>4
    <3>2. n.current = Len(n.segs) /\ n.current <= MaxSegments /\ n.current # 0
      BY <1>2, <1>9, <2>3, <2>4, RecorderBounds
    <3> QED BY <1>3, <2>4, <2>6, <2>7, <2>8, <2>9, <3>1, <3>2 DEF Writer
  <2>11. Clean(r) /\ flushed /\ opened => Clean(n)
    <3> HAVE Clean(r) /\ flushed /\ opened
    <3>1. \A s \in 1..Len(n.segs) : n.segs[s].state # "cut"
      <4> TAKE s \in 1..Len(n.segs)
      <4>1. CASE s \in 1..Len(r.segs)
        BY <1>1, <1>6, <2>3, <2>4, <4>1
      <4>2. CASE s = Len(r.segs) + 1
        BY <2>3, <2>4, <4>2 DEF EmptySegment
      <4> QED BY <1>2, <2>3, <2>4, <4>1, <4>2
    <3> QED BY <1>6, <2>4, <2>7, <3>1 DEF Clean
  <2>12. \A s \in 1..Len(r.segs) : n.segs[s] = c.segs[s]
    BY <2>3, <2>4
  <2>13. \A s \in 1..Len(r.segs) :
           /\ n.segs[s].packets = r.segs[s].packets
           /\ n.segs[s].state = IF r.segs[s].state = "open" THEN outcome ELSE r.segs[s].state
    BY <1>1, <2>12
  <2>14. n.recent = IF r.handle = "none" THEN r.recent ELSE LastN(Append(r.recent, r.current), 4)
    BY <2>4 DEF recent
  <2> QED BY <1>9, <2>1, <2>4, <2>8, <2>10, <2>11, <2>13, <2>14
<1> QED BY <1>8, <1>9

\* A frame is the last block of the open segment, whose interface blocks are those
\* the writer knows; what is written to a closed file is lost.
LEMMA AddedFacts ==
  ASSUME NEW r, Writer(r), r.handle # "none",
         NEW fr \in [n : 1..MaxFrames, iface : Interfaces]
  PROVE  LET n == Added(r, fr) IN
         /\ Writer(n) /\ n.current = r.current /\ n.handle = r.handle /\ n.recent = r.recent
         /\ Len(n.segs) = Len(r.segs)
         /\ \A s \in 1..Len(r.segs) :
              /\ n.segs[s].state = r.segs[s].state
              /\ r.segs[s].state # "open" => n.segs[s].packets = r.segs[s].packets
              /\ r.segs[s].state = "open" =>
                   \E b \in PacketBlock :
                     b.n = fr.n /\ n.segs[s].packets = Append(r.segs[s].packets, b)
         /\ Clean(r) => Clean(n)
<1> DEFINE cur == r.current
           ifaces == IF fr.iface \in ToSet(r.ifaces) THEN r.ifaces
                     ELSE Append(r.ifaces, fr.iface)
           id == CHOOSE i \in 1..Len(ifaces) : ifaces[i] = fr.iface
           b == [n |-> fr.n, iface |-> fr.iface, id |-> id]
           seg == r.segs[cur]
           grown == [seg EXCEPT !.packets = Append(@, b),
                                !.names = IF ifaces = r.ifaces THEN @ ELSE Append(@, fr.iface)]
           new == IF r.handle = "open" THEN grown ELSE seg
           segs == [r.segs EXCEPT ![cur] = new]
           n == [r EXCEPT !.ifaces = ifaces, !.written = @ + 1, !.segs = segs]
<1>1. Added(r, fr) = n
  BY DEF Added, Writer, RecordType
<1>2. /\ r.segs \in Seq(SegmentType) /\ cur \in 1..Len(r.segs) /\ seg \in SegmentType
      /\ r.ifaces \in Seq(Interfaces) /\ seg.names \in Seq(Interfaces)
      /\ seg.packets \in Seq(PacketBlock) /\ Len(r.ifaces) \in Nat /\ Len(seg.packets) \in Nat
      /\ fr.n \in 1..MaxFrames /\ fr.iface \in Interfaces
  <2>1. cur \in 1..Len(r.segs)
    BY WriterFields DEF Writer
  <2>2. /\ seg \in SegmentType /\ seg.names \in Seq(Interfaces)
        /\ seg.packets \in Seq(PacketBlock) /\ Len(seg.packets) \in Nat
    BY <2>1, WriterFields
  <2>3. r.segs \in Seq(SegmentType) /\ r.ifaces \in Seq(Interfaces)
    BY WriterFields
  <2>4. Len(r.ifaces) \in Nat
    BY <2>3, LenProperties
  <2> QED BY <2>1, <2>2, <2>3, <2>4
<1>3. /\ ifaces \in Seq(Interfaces) /\ Len(ifaces) \in Nat /\ Len(r.ifaces) <= Len(ifaces)
      /\ \A i \in 1..Len(r.ifaces) : ifaces[i] = r.ifaces[i]
      /\ \E i \in 1..Len(ifaces) : ifaces[i] = fr.iface
      /\ ifaces = r.ifaces \/ (ifaces = Append(r.ifaces, fr.iface) /\ ifaces # r.ifaces)
  <2>1. CASE fr.iface \in ToSet(r.ifaces)
    <3>1. DOMAIN r.ifaces = 1..Len(r.ifaces)
      BY <1>2, LenProperties
    <3>2. \E i \in 1..Len(r.ifaces) : r.ifaces[i] = fr.iface
      BY <2>1, <3>1 DEF ToSet
    <3>3. ifaces = r.ifaces
      BY <2>1
    <3> QED BY <1>2, <3>2, <3>3
  <2>2. CASE fr.iface \notin ToSet(r.ifaces)
    <3>1. /\ Append(r.ifaces, fr.iface) \in Seq(Interfaces)
          /\ Len(Append(r.ifaces, fr.iface)) = Len(r.ifaces) + 1
          /\ \A i \in 1..Len(r.ifaces) : Append(r.ifaces, fr.iface)[i] = r.ifaces[i]
          /\ Append(r.ifaces, fr.iface)[Len(r.ifaces) + 1] = fr.iface
      BY <1>2, AppendProperties
    <3>2. ifaces = Append(r.ifaces, fr.iface)
      BY <2>2
    <3> HIDE DEF ifaces
    <3>3. ifaces # r.ifaces
      <4>1. Len(ifaces) # Len(r.ifaces)
        BY <1>2, <3>1, <3>2
      <4> QED BY <4>1
    <3> QED BY <1>2, <3>1, <3>2, <3>3
  <2> QED BY <2>1, <2>2
<1> HIDE DEF ifaces
<1>4. id \in 1..Len(ifaces) /\ ifaces[id] = fr.iface
  BY <1>3
<1> HIDE DEF id
<1>5. b \in PacketBlock /\ b.n = fr.n /\ b.iface = fr.iface /\ b.id = id
  BY <1>2, <1>3, <1>4 DEF PacketBlock
<1> HIDE DEF b
<1>6. r.handle = "open" =>
        /\ grown \in SegmentType /\ grown.packets = Append(seg.packets, b)
        /\ grown.names = ifaces /\ grown.state = seg.state
  <2>1. ASSUME r.handle = "open" PROVE r.ifaces = seg.names
    BY <2>1 DEF Writer
  <2> DEFINE names == IF ifaces = r.ifaces THEN seg.names ELSE Append(seg.names, fr.iface)
  <2>2. Append(seg.packets, b) \in Seq(PacketBlock)
    BY <1>2, <1>5, BlockAppended
  <2>3. grown = [seg EXCEPT !.packets = Append(seg.packets, b), !.names = names]
    BY <1>2 DEF SegmentType
  <2>4. r.handle = "open" => names = ifaces
    BY <1>3, <2>1
  <2> HIDE DEF grown, names
  <2>5. r.handle = "open" => names \in Seq(Interfaces)
    BY <1>3, <2>4
  <2>6. seg \in SegmentType
    BY <1>2
  <2>7. r.handle = "open" =>
          /\ grown \in SegmentType /\ grown.packets = Append(seg.packets, b)
          /\ grown.names = names /\ grown.state = seg.state
    BY <2>2, <2>3, <2>5, <2>6 DEF SegmentType
  <2> QED BY <2>4, <2>7
<1> HIDE DEF grown
<1>7. /\ new \in SegmentType /\ new.state = seg.state
      /\ r.handle = "open" => new = grown
      /\ r.handle # "open" => new = seg
  BY <1>2, <1>6
<1> HIDE DEF new
<1>8. /\ segs \in Seq(SegmentType) /\ Len(segs) = Len(r.segs)
      /\ \A s \in 1..Len(r.segs) : segs[s] = IF s = cur THEN new ELSE r.segs[s]
  BY <1>2, <1>7, ExceptSeq
<1> HIDE DEF segs
<1>9. /\ n \in RecordType /\ n.segs = segs /\ n.ifaces = ifaces /\ n.current = cur
      /\ n.handle = r.handle /\ n.recent = r.recent
  <2>1. r \in RecordType /\ r.written + 1 \in Nat
    BY WriterFields DEF Writer
  <2>2. n = [r EXCEPT !.ifaces = ifaces, !.written = r.written + 1, !.segs = segs]
    BY <2>1 DEF RecordType
  <2> HIDE DEF n
  <2>3. segs \in Seq(SegmentType) /\ ifaces \in Seq(Interfaces)
    BY <1>3, <1>8
  <2> QED BY <2>1, <2>2, <2>3 DEF RecordType
<1> HIDE DEF n
<1>10. \A s \in 1..Len(r.segs) : r.segs[s].state = "open" <=> r.handle = "open" /\ s = cur
  BY DEF Writer
<1>11. \A s \in 1..Len(r.segs) :
         /\ n.segs[s].state = r.segs[s].state
         /\ r.segs[s].state # "open" => n.segs[s] = r.segs[s]
         /\ r.segs[s].state = "open" => n.segs[s].packets = Append(r.segs[s].packets, b)
  BY <1>6, <1>7, <1>8, <1>9, <1>10
<1>12. ASSUME NEW s \in 1..Len(n.segs), NEW i \in 1..Len(n.segs[s].packets)
       PROVE  LET x == n.segs[s].packets[i] IN
              x.id <= Len(n.segs[s].names) /\ n.segs[s].names[x.id] = x.iface
  <2>1. CASE r.segs[s].state # "open"
    BY <1>8, <1>9, <1>11, <2>1 DEF Writer
  <2>2. CASE r.segs[s].state = "open"
    <3>1. s = cur /\ r.handle = "open"
      BY <1>8, <1>9, <1>10, <2>2
    <3>2. n.segs[s].packets = Append(seg.packets, b) /\ n.segs[s].names = ifaces
      BY <1>2, <1>6, <1>7, <1>8, <1>9, <3>1
    <3>3. /\ Len(Append(seg.packets, b)) = Len(seg.packets) + 1
          /\ \A j \in 1..Len(seg.packets) : Append(seg.packets, b)[j] = seg.packets[j]
          /\ Append(seg.packets, b)[Len(seg.packets) + 1] = b
      BY <1>2, <1>5, BlockAppended
    <3>4. CASE i = Len(seg.packets) + 1
      <4>1. n.segs[s].packets[i] = b
        BY <3>2, <3>3, <3>4
      <4>2. b.id <= Len(ifaces) /\ ifaces[b.id] = b.iface
        BY <1>3, <1>4, <1>5
      <4> QED BY <3>2, <4>1, <4>2
    <3>5. CASE i \in 1..Len(seg.packets)
      <4>1. LET x == seg.packets[i] IN x.id <= Len(seg.names) /\ seg.names[x.id] = x.iface
        BY <1>2, <3>5 DEF Writer
      <4>2. seg.packets[i].id \in Nat \ {0}
        <5>1. seg.packets[i] \in PacketBlock
          BY <1>2, <3>5, ElementOfSeq
        <5> QED BY <5>1 DEF PacketBlock
      <4>3. r.ifaces = seg.names
        BY <3>1 DEF Writer
      <4>4. n.segs[s].packets[i] = seg.packets[i]
        BY <3>2, <3>3, <3>5
      <4>5. seg.packets[i].id \in 1..Len(r.ifaces)
        BY <1>2, <4>1, <4>2, <4>3
      <4>6. /\ seg.packets[i].id <= Len(ifaces)
            /\ ifaces[seg.packets[i].id] = seg.packets[i].iface
        <5> PICK j \in 1..Len(r.ifaces) : j = seg.packets[i].id
          BY <4>5
        <5>1. ifaces[j] = r.ifaces[j] /\ j <= Len(ifaces)
          <6>1. ifaces[j] = r.ifaces[j]
            BY <1>3
          <6>2. Len(r.ifaces) \in Nat /\ Len(ifaces) \in Nat /\ Len(r.ifaces) <= Len(ifaces)
            BY <1>2, <1>3
          <6> QED BY <6>1, <6>2
        <5>2. r.ifaces[j] = seg.packets[i].iface
          BY <4>1, <4>3
        <5> QED BY <5>1, <5>2
      <4> QED BY <3>2, <4>4, <4>6
    <3>6. i \in 1..Len(seg.packets) + 1
      BY <3>2, <3>3
    <3>7. Len(seg.packets) \in Nat
      BY <1>2
    <3>8. i = Len(seg.packets) + 1 \/ i \in 1..Len(seg.packets)
      BY <3>6, <3>7
    <3> QED BY <3>4, <3>5, <3>8
  <2> QED BY <2>1, <2>2
<1>13. Writer(n)
  <2>1. \A i \in 1..Len(n.recent) : n.recent[i] \in 1..Len(r.segs)
    <3>1. \A i \in 1..Len(r.recent) : r.recent[i] \in Segments
      BY WriterFields, ElementOfSeq
    <3> QED BY <1>2, <1>9, <3>1, RecorderBounds DEF Writer, Segments
  <2>2. \A i \in 1..Len(n.recent) : n.segs[n.recent[i]].state # "open"
    BY <1>9, <1>11, <2>1 DEF Writer
  <2>3. n.handle = "open" => n.ifaces = n.segs[n.current].names
    BY <1>2, <1>6, <1>7, <1>8, <1>9
  <2>4. \A s \in 1..Len(n.segs) : n.segs[s].state = "open" <=> n.handle = "open" /\ s = n.current
    BY <1>8, <1>9, <1>10, <1>11
  <2> QED BY <1>8, <1>9, <1>12, <2>2, <2>3, <2>4 DEF Writer
<1>14. Clean(r) => Clean(n)
  BY <1>8, <1>9, <1>11 DEF Clean
<1> QED BY <1>1, <1>5, <1>8, <1>9, <1>11, <1>13, <1>14

-----------------------------------------------------------------------------
LEMMA ShapeTypes == Shape => RecorderTypeOK /\ InterfaceResolves
BY WriterIsInv DEF Shape, RecorderTypeOK, WriterTypeOK, Writer

\* What a step leaves of the segments: none goes away or shrinks, and one that was
\* closed keeps its packets and is at most removed.
Grows(old, new) ==
  /\ Writer(new) /\ Len(old.segs) <= Len(new.segs)
  /\ \A s \in 1..Len(old.segs) :
       /\ Len(old.segs[s].packets) <= Len(new.segs[s].packets)
       /\ old.segs[s].state # "open" =>
            /\ new.segs[s].packets = old.segs[s].packets
            /\ new.segs[s].state \in {old.segs[s].state, "pruned"}

\* The same, where no packet is added and no file removed; the outcome is that of
\* the segment that was open.
Turns(old, new, outcome) ==
  /\ Writer(new) /\ Len(old.segs) <= Len(new.segs)
  /\ \A s \in 1..Len(old.segs) :
       /\ new.segs[s].packets = old.segs[s].packets
       /\ new.segs[s].state = IF old.segs[s].state = "open" THEN outcome ELSE old.segs[s].state
  /\ \A s \in 1..Len(new.segs) : s > Len(old.segs) => new.segs[s] = EmptySegment

LEMMA TurnsGrow ==
  ASSUME NEW old, NEW new, NEW outcome, Writer(old), Turns(old, new, outcome)
  PROVE  Grows(old, new)
BY WriterFields DEF Turns, Grows

LEMMA ClosedTurns ==
  ASSUME NEW r, Writer(r), NEW flushed \in BOOLEAN
  PROVE  Turns(r, Closed(r, flushed), IF flushed THEN "complete" ELSE "cut")
<1>1. Len(r.segs) \in Nat
  BY WriterFields
<1> QED BY <1>1, ClosedFacts DEF Turns

LEMMA RotatedTurns ==
  ASSUME NEW r, Writer(r), NEW flushed \in BOOLEAN, NEW opened \in BOOLEAN,
         opened => r.current < MaxSegments
  PROVE  Turns(r, Rotated(r, flushed, opened), IF flushed THEN "complete" ELSE "cut")
<1> DEFINE n == Rotated(r, flushed, opened)
           outcome == IF flushed THEN "complete" ELSE "cut"
<1>1. /\ Writer(n)
      /\ opened => n.current = r.current + 1 /\ n.segs[n.current] = EmptySegment
      /\ ~opened => n.current = r.current
      /\ \A s \in 1..Len(r.segs) :
           /\ n.segs[s].packets = r.segs[s].packets
           /\ n.segs[s].state = IF r.segs[s].state = "open" THEN outcome ELSE r.segs[s].state
  BY RotatedFacts
<1> HIDE DEF n
<1>2. n.current = Len(n.segs) /\ r.current = Len(r.segs) /\ r.current \in Nat
  BY <1>1, WriterFields DEF Writer
<1> QED BY <1>1, <1>2 DEF Turns, n

LEMMA AddedGrows ==
  ASSUME NEW r, Writer(r), r.handle # "none", NEW fr \in [n : 1..MaxFrames, iface : Interfaces]
  PROVE  Grows(r, Added(r, fr))
<1> DEFINE n == Added(r, fr)
<1>1. /\ Writer(n) /\ Len(n.segs) = Len(r.segs)
      /\ \A s \in 1..Len(r.segs) :
           /\ n.segs[s].state = r.segs[s].state
           /\ r.segs[s].state # "open" => n.segs[s].packets = r.segs[s].packets
           /\ r.segs[s].state = "open" =>
                \E b \in PacketBlock : n.segs[s].packets = Append(r.segs[s].packets, b)
  BY AddedFacts
<1> HIDE DEF n
<1>2. ASSUME NEW s \in 1..Len(r.segs)
      PROVE  Len(r.segs[s].packets) <= Len(n.segs[s].packets)
  <2>1. r.segs[s].packets \in Seq(PacketBlock) /\ Len(r.segs[s].packets) \in Nat
    BY WriterFields
  <2>2. CASE r.segs[s].state # "open"
    BY <1>1, <2>1, <2>2
  <2>3. CASE r.segs[s].state = "open"
    <3> PICK b \in PacketBlock : n.segs[s].packets = Append(r.segs[s].packets, b)
      BY <1>1, <2>3
    <3> QED BY <2>1, BlockAppended
  <2> QED BY <2>2, <2>3
<1>3. Len(r.segs) \in Nat
  BY WriterFields
<1> QED BY <1>1, <1>2, <1>3 DEF Grows, n

LEMMA GrowsOn ==
  ASSUME NEW r, NEW m, NEW n, Writer(r), Grows(r, m), Grows(m, n)
  PROVE  Grows(r, n)
<1>1. /\ Len(r.segs) \in Nat /\ Len(m.segs) \in Nat /\ Len(n.segs) \in Nat
      /\ \A s \in 1..Len(r.segs) : Len(r.segs[s].packets) \in Nat
      /\ \A s \in 1..Len(m.segs) : Len(m.segs[s].packets) \in Nat
      /\ \A s \in 1..Len(n.segs) : Len(n.segs[s].packets) \in Nat
  BY WriterFields DEF Grows
<1>2. ASSUME NEW s \in 1..Len(r.segs)
      PROVE  /\ Len(r.segs[s].packets) <= Len(n.segs[s].packets)
             /\ r.segs[s].state # "open" =>
                  /\ n.segs[s].packets = r.segs[s].packets
                  /\ n.segs[s].state \in {r.segs[s].state, "pruned"}
  <2>1. s \in 1..Len(m.segs) /\ s \in 1..Len(n.segs)
    BY <1>1 DEF Grows
  <2>2. Len(r.segs[s].packets) <= Len(n.segs[s].packets)
    <3> DEFINE a == Len(r.segs[s].packets)
               b == Len(m.segs[s].packets)
               c == Len(n.segs[s].packets)
    <3>1. a \in Nat /\ b \in Nat /\ c \in Nat
      BY <1>1, <2>1
    <3>2. a <= b
      BY DEF Grows
    <3>3. b <= c
      BY <2>1 DEF Grows
    <3> HIDE DEF a, b, c
    <3>4. a <= c
      BY <3>1, <3>2, <3>3
    <3> QED BY <3>4 DEF a, c
  <2>3. r.segs[s].state # "open" =>
          /\ m.segs[s].packets = r.segs[s].packets
          /\ m.segs[s].state \in {r.segs[s].state, "pruned"}
    BY DEF Grows
  <2>4. m.segs[s].state # "open" =>
          /\ n.segs[s].packets = m.segs[s].packets
          /\ n.segs[s].state \in {m.segs[s].state, "pruned"}
    BY <2>1 DEF Grows
  <2> QED BY <2>2, <2>3, <2>4
<1>3. Writer(n) /\ Len(r.segs) <= Len(m.segs) /\ Len(m.segs) <= Len(n.segs)
  BY DEF Grows
<1>4. Len(r.segs) <= Len(n.segs)
  BY <1>1, <1>3
<1> QED BY <1>2, <1>3, <1>4 DEF Grows

\* A file that is removed keeps its place and its packets.
Removed(r, f) == [r EXCEPT !.segs[f].state = "pruned"]
LEMMA RemovedFacts ==
  ASSUME NEW r, Writer(r), NEW f \in 1..Len(r.segs), r.segs[f].state # "open"
  PROVE  LET n == Removed(r, f) IN
         /\ Writer(n) /\ Len(n.segs) = Len(r.segs) /\ n.current = r.current
         /\ n.handle = r.handle /\ n.recent = r.recent
         /\ \A s \in 1..Len(r.segs) :
              /\ n.segs[s].packets = r.segs[s].packets
              /\ n.segs[s].state = IF s = f THEN "pruned" ELSE r.segs[s].state
         /\ Clean(r) => Clean(n)
<1> DEFINE seg == [r.segs[f] EXCEPT !.state = "pruned"]
           segs == [r.segs EXCEPT ![f] = seg]
           n == [r EXCEPT !.segs = segs]
<1>1. Removed(r, f) = n
  BY DEF Removed, Writer, RecordType
<1>2. r.segs[f] \in SegmentType /\ r.segs \in Seq(SegmentType) /\ Len(r.segs) \in Nat
  BY WriterFields
<1>3. /\ seg \in SegmentType /\ seg.packets = r.segs[f].packets
      /\ seg.names = r.segs[f].names /\ seg.state = "pruned"
  BY <1>2 DEF SegmentType, Outcomes
<1> HIDE DEF seg
<1>4. /\ segs \in Seq(SegmentType) /\ Len(segs) = Len(r.segs)
      /\ \A s \in 1..Len(r.segs) : segs[s] = IF s = f THEN seg ELSE r.segs[s]
  BY <1>2, <1>3, ExceptSeq
<1> HIDE DEF segs
<1>5. /\ n \in RecordType /\ n.segs = segs /\ n.handle = r.handle /\ n.current = r.current
      /\ n.recent = r.recent /\ n.written = r.written /\ n.ifaces = r.ifaces
  BY <1>4 DEF Writer, RecordType
<1> HIDE DEF n
<1>6. \A s \in 1..Len(r.segs) :
        /\ n.segs[s].packets = r.segs[s].packets /\ n.segs[s].names = r.segs[s].names
        /\ n.segs[s].state = IF s = f THEN "pruned" ELSE r.segs[s].state
  BY <1>3, <1>4, <1>5
<1>7. \A s \in 1..Len(n.segs) : n.segs[s].state = "open" <=> n.handle = "open" /\ s = n.current
  <2> TAKE s \in 1..Len(n.segs)
  <2>1. s \in 1..Len(r.segs) /\ (r.segs[s].state = "open" <=> r.handle = "open" /\ s = r.current)
    BY <1>4, <1>5 DEF Writer
  <2>2. r.segs[f].state = "open" <=> r.handle = "open" /\ f = r.current
    BY DEF Writer
  <2> QED BY <1>5, <1>6, <2>1, <2>2
<1>8. \A i \in 1..Len(r.recent) : r.recent[i] \in 1..Len(r.segs)
  <2>1. \A i \in 1..Len(r.recent) : r.recent[i] \in Segments
    BY WriterFields, ElementOfSeq
  <2> QED BY <1>2, <2>1, RecorderBounds DEF Writer, Segments
<1>9. \A i \in 1..Len(n.recent) : n.segs[n.recent[i]].state # "open"
  BY <1>5, <1>6, <1>8 DEF Writer
<1>10. n.handle = "open" => n.ifaces = n.segs[n.current].names
  <2>1. r.handle = "open" => r.current \in 1..Len(r.segs)
    BY WriterFields DEF Writer
  <2> QED BY <1>5, <1>6, <2>1 DEF Writer
<1>11. ASSUME NEW s \in 1..Len(n.segs), NEW i \in 1..Len(n.segs[s].packets)
       PROVE  LET x == n.segs[s].packets[i] IN
              x.id <= Len(n.segs[s].names) /\ n.segs[s].names[x.id] = x.iface
  <2>1. s \in 1..Len(r.segs)
    BY <1>4, <1>5
  <2>2. n.segs[s].packets = r.segs[s].packets /\ n.segs[s].names = r.segs[s].names
    BY <1>6, <2>1
  <2> QED BY <2>1, <2>2 DEF Writer
<1>12. Writer(n)
  <2>1. n.current = Len(n.segs) /\ n.current <= MaxSegments
    BY <1>4, <1>5 DEF Writer
  <2> QED BY <1>5, <1>7, <1>9, <1>10, <1>11, <2>1 DEF Writer
<1>13. Clean(r) => Clean(n)
  BY <1>4, <1>5, <1>6 DEF Clean
<1> QED BY <1>1, <1>4, <1>5, <1>6, <1>12, <1>13

LEMMA RemovedGrows ==
  ASSUME NEW r, Writer(r), NEW f \in 1..Len(r.segs), r.segs[f].state # "open"
  PROVE  Grows(r, Removed(r, f))
<1>1. Len(r.segs) \in Nat /\ \A s \in 1..Len(r.segs) : Len(r.segs[s].packets) \in Nat
  BY WriterFields
<1> QED BY <1>1, RemovedFacts DEF Grows

\* What each step does to the record.
LEMMA RotationFacts ==
  ASSUME Shape, NEW flushed \in BOOLEAN, NEW opened \in BOOLEAN, Rotation(flushed, opened),
         NEW new, new = Rotated(rec, flushed, opened)
  PROVE  /\ Turns(rec, new, IF flushed THEN "complete" ELSE "cut") /\ Grows(rec, new)
         /\ opened => /\ new.current = rec.current + 1 /\ new.handle = "open"
                      /\ new.segs[new.current] = EmptySegment
         /\ ~opened => /\ new.current = rec.current
                       /\ new.handle = IF rec.handle = "none" THEN "none" ELSE "closed"
         /\ new.recent = IF rec.handle = "none" THEN rec.recent
                         ELSE LastN(Append(rec.recent, rec.current), 4)
         /\ fileErrors' \in 0..MaxFileErrors /\ fileErrors' >= fileErrors
         /\ fileErrors' = 0 => /\ fileErrors = 0 /\ flushed /\ opened
                               /\ Clean(rec) => Clean(new)
<1>1. fileErrors \in Nat /\ MaxFileErrors \in Nat
  BY RecorderBounds DEF Shape, ChannelTypeOK
<1>2. /\ fileErrors' = fileErrors + Cost(flushed) + Cost(opened)
      /\ fileErrors' <= MaxFileErrors
      /\ opened => CanOpen
  BY <1>1 DEF Rotation, Pay, Cost
<1>3. /\ fileErrors' \in 0..MaxFileErrors /\ fileErrors' >= fileErrors
      /\ fileErrors' = 0 => fileErrors = 0 /\ flushed /\ opened
  BY <1>1, <1>2 DEF Cost
<1>4. Writer(rec) /\ (opened => rec.current < MaxSegments)
  BY <1>2 DEF Shape, CanOpen, Writer
<1>5. Turns(rec, new, IF flushed THEN "complete" ELSE "cut") /\ Grows(rec, new)
  BY <1>4, RotatedTurns, TurnsGrow
<1> QED BY <1>3, <1>4, <1>5, RotatedFacts

LEMMA HeadFrame ==
  ASSUME Shape, buffered # <<>>
  PROVE  /\ Head(buffered) \in [n : 1..MaxFrames, iface : Interfaces]
         /\ Tail(buffered) \in Seq([n : 1..MaxFrames, iface : Interfaces])
         /\ Len(Tail(buffered)) = Len(buffered) - 1 /\ Len(buffered) \in Nat \ {0}
         /\ \A i \in 1..Len(Tail(buffered)) : Tail(buffered)[i] = buffered[i + 1]
         /\ Head(buffered) = buffered[1]
<1> DEFINE F == [n : 1..MaxFrames, iface : Interfaces]
<1>1. buffered \in Seq(F)
  BY DEF Shape, ChannelTypeOK
<1> HIDE DEF F
<1>2. /\ Head(buffered) \in F /\ Tail(buffered) \in Seq(F)
      /\ Len(Tail(buffered)) = Len(buffered) - 1
      /\ \A i \in 1..Len(Tail(buffered)) : Tail(buffered)[i] = buffered[i + 1]
  BY <1>1, HeadTailProperties
<1>3. Len(buffered) \in Nat \ {0}
  BY <1>1, EmptySeq
<1>4. Head(buffered) = buffered[1]
  BY <1>1
<1> QED BY <1>2, <1>3, <1>4 DEF F

\* The record into which a frame is written: this one, or the one after a rotation.
WritesTo(r, flushed) ==
  IF Full(rec) THEN Rotation(flushed, TRUE) /\ r = Rotated(rec, flushed, TRUE)
               ELSE r = rec /\ UNCHANGED <<prunes, fileErrors>>
LEMMA WriteFrameFacts ==
  ASSUME Shape, WriteFrame
  PROVE  \E flushed \in BOOLEAN : \E r :
           /\ WritesTo(r, flushed) /\ rec' = Added(r, Head(buffered))
           /\ Writer(r) /\ r.handle # "none" /\ Grows(rec, r) /\ Grows(r, rec')
           /\ Writer(rec') /\ rec'.handle = r.handle /\ rec'.current = r.current
           /\ fileErrors' \in 0..MaxFileErrors /\ fileErrors' >= fileErrors
<1>1. Writer(rec) /\ rec.handle # "none" /\ fileErrors \in 0..MaxFileErrors
  BY DEF Shape, WriteFrame, ChannelTypeOK
<1>2. Head(buffered) \in [n : 1..MaxFrames, iface : Interfaces]
  BY HeadFrame DEF WriteFrame
<1>3. CASE ~Full(rec)
  <2>1. rec' = Added(rec, Head(buffered)) /\ UNCHANGED <<prunes, fileErrors>>
    BY <1>3 DEF WriteFrame
  <2>2. Grows(rec, rec)
    BY <1>1, WriterFields DEF Grows
  <2>3. Grows(rec, rec') /\ Writer(rec') /\ rec'.handle = rec.handle /\ rec'.current = rec.current
    BY <1>1, <1>2, <2>1, AddedGrows, AddedFacts
  <2>4. WritesTo(rec, TRUE)
    BY <1>3, <2>1 DEF WritesTo
  <2>5. fileErrors' \in 0..MaxFileErrors /\ fileErrors' >= fileErrors
    BY <1>1, <2>1, RecorderBounds
  <2> QED BY <1>1, <2>1, <2>2, <2>3, <2>4, <2>5
<1>4. CASE Full(rec)
  <2>1. PICK flushed \in BOOLEAN :
          Rotation(flushed, TRUE) /\ rec' = Added(Rotated(rec, flushed, TRUE), Head(buffered))
    BY <1>4 DEF WriteFrame
  <2> DEFINE r == Rotated(rec, flushed, TRUE)
  <2>2. /\ Grows(rec, r) /\ Writer(r) /\ r.handle = "open"
        /\ fileErrors' \in 0..MaxFileErrors /\ fileErrors' >= fileErrors
    BY <2>1, RotationFacts DEF Grows
  <2>3. WritesTo(r, flushed) /\ rec' = Added(r, Head(buffered))
    BY <1>4, <2>1 DEF WritesTo
  <2> HIDE DEF r
  <2>4. Grows(r, rec') /\ Writer(rec') /\ rec'.handle = r.handle /\ rec'.current = r.current
    BY <1>2, <2>2, <2>3, AddedGrows, AddedFacts
  <2> QED BY <2>2, <2>3, <2>4
<1> QED BY <1>3, <1>4

LEMMA PruneFacts ==
  ASSUME Shape, NEW k \in 1..MaxPrunes, PruneStep(k)
  PROVE  /\ Pruned(k, prunes'[k])
         /\ \/ /\ prunes[k].files = {} \/ prunes[k].total <= MaxDisk
               /\ prunes'[k] = IdlePrune /\ rec' = rec
            \/ \E f \in prunes[k].files :
                 /\ f \in 1..Len(rec.segs) /\ prunes[k].total > MaxDisk
                 /\ prunes'[k].at = "listed" /\ prunes'[k].size = prunes[k].size
                 /\ prunes'[k].files = prunes[k].files \ {f} /\ prunes'[k] \in PruneType
                 /\ \/ /\ f = rec.current \/ rec.segs[f].state = "pruned"
                       /\ prunes'[k].total = prunes[k].total /\ rec' = rec
                    \/ /\ f # rec.current /\ rec.segs[f].state \notin {"pruned", "open"}
                       /\ prunes'[k].total = prunes[k].total - prunes[k].size[f]
                       /\ rec' = Removed(rec, f)
<1> DEFINE g == prunes[k]
           f == Oldest(g.files)
           rest == [g EXCEPT !.files = @ \ {f}]
<1>1. /\ g \in PruneType /\ g.at = "listed" /\ g.files \subseteq 1..Len(rec.segs)
      /\ prunes \in [1..MaxPrunes -> PruneType]
  BY DEF Shape, PrunesTypeOK, PruneStep, Prune
<1>2. CASE g.files = {} \/ g.total <= MaxDisk
  <2>1. Pruned(k, IdlePrune) /\ rec' = rec
    BY <1>2 DEF PruneStep, Prune
  <2>2. prunes'[k] = IdlePrune
    BY <1>1, <2>1 DEF Pruned
  <2> QED BY <1>2, <2>1, <2>2
<1>3. CASE g.files # {} /\ ~(g.total <= MaxDisk)
  <2>1. f \in g.files
    <3>1. \E s \in g.files : \A t \in g.files : s <= t
      BY <1>1, <1>3, LeastPosition
    <3> QED BY <3>1 DEF Oldest
  <2>2. f \in 1..Len(rec.segs) /\ g.total > MaxDisk /\ f \in Segments
    BY <1>1, <1>3, <2>1, RecorderBounds DEF PruneType
  <2>3. rec.segs[f].state = "open" => f = rec.current
    BY <2>2 DEF Shape, Writer
  <2>4. CASE f = rec.current \/ rec.segs[f].state = "pruned"
    <3>1. Pruned(k, rest) /\ rec' = rec
      BY <1>3, <2>4 DEF PruneStep, Prune
    <3>2. /\ rest \in PruneType /\ rest.at = "listed" /\ rest.size = g.size
          /\ rest.files = g.files \ {f} /\ rest.total = g.total
      BY <1>1 DEF PruneType
    <3> HIDE DEF rest, f
    <3>3. prunes'[k] = rest
      BY <1>1, <3>1 DEF Pruned
    <3> QED BY <2>1, <2>2, <2>4, <3>1, <3>2, <3>3
  <2>5. CASE ~(f = rec.current \/ rec.segs[f].state = "pruned")
    <3> DEFINE next == [rest EXCEPT !.total = @ - g.size[f]]
    <3>1. Pruned(k, next) /\ rec' = Removed(rec, f)
      BY <1>3, <2>5 DEF PruneStep, Prune, Removed
    <3>2. g.total - g.size[f] \in Int
      BY <1>1, <2>2 DEF PruneType
    <3>3. /\ next \in PruneType /\ next.at = "listed" /\ next.size = g.size
          /\ next.files = g.files \ {f} /\ next.total = g.total - g.size[f]
      BY <1>1, <3>2 DEF PruneType
    <3> HIDE DEF next, rest, f
    <3>4. prunes'[k] = next
      BY <1>1, <3>1 DEF Pruned
    <3> QED BY <2>1, <2>2, <2>3, <2>5, <3>1, <3>3, <3>4
  <2> QED BY <2>4, <2>5
<1> QED BY <1>2, <1>3

LEMMA PayFacts ==
  ASSUME Shape, NEW n \in Nat, Pay(n)
  PROVE  /\ fileErrors' \in 0..MaxFileErrors /\ fileErrors' >= fileErrors
         /\ fileErrors' = fileErrors + n
BY RecorderBounds DEF Shape, ChannelTypeOK, Pay

\* A step that changes no segment.
LEMMA StaysGrows == Shape => Grows(rec, rec)
BY WriterFields DEF Shape, Grows

\* The steps of the writer and of the prunes, as one relation.
LEMMA RecordMoves ==
  ASSUME Shape, [RecorderNext]_recorderVars
  PROVE  /\ Grows(rec, rec') /\ (loop' = "running" => rec'.handle # "none")
         /\ fileErrors' \in 0..MaxFileErrors /\ fileErrors' >= fileErrors
<1>1. /\ Writer(rec) /\ fileErrors \in 0..MaxFileErrors /\ fileErrors <= fileErrors
      /\ loop = "running" => rec.handle # "none"
  BY RecorderBounds DEF Shape, ChannelTypeOK
<1>2. ASSUME UNCHANGED <<rec, loop>>,
             fileErrors' = fileErrors \/ \E n \in Nat : Pay(n)
      PROVE  /\ Grows(rec, rec') /\ (loop' = "running" => rec'.handle # "none")
             /\ fileErrors' \in 0..MaxFileErrors /\ fileErrors' >= fileErrors
  BY <1>1, <1>2, StaysGrows, PayFacts
<1>3. CASE \/ \E i \in Interfaces : Record(i)
           \/ \E p \in Protectors : CopyBegin(p) \/ CopySkips(p) \/ CopyEnd(p) \/ Return(p)
           \/ \E k \in 1..MaxPrunes : PruneLists(k)
           \/ UNCHANGED recorderVars
  BY <1>2, <1>3 DEF Record, CopyBegin, CopySkips, CopyEnd, Return, PruneLists, Pruned,
                    recorderVars
<1>4. CASE StartRun
  <2> PICK flushed \in BOOLEAN, opened \in BOOLEAN :
        /\ Rotation(flushed, opened) /\ rec' = Rotated(rec, flushed, opened)
        /\ loop' = IF opened THEN "running" ELSE "exited"
    BY <1>4 DEF StartRun
  <2> QED BY RotationFacts
<1>5. CASE WriteFrame
  <2> PICK r :
        /\ Writer(r) /\ r.handle # "none" /\ Grows(rec, r) /\ Grows(r, rec')
        /\ rec'.handle = r.handle
        /\ fileErrors' \in 0..MaxFileErrors /\ fileErrors' >= fileErrors
    BY <1>5, WriteFrameFacts
  <2> QED BY <1>1, GrowsOn
<1>6. CASE WriteFrameFails
  <2>1. loop' = "exited"
    BY <1>6 DEF WriteFrameFails
  <2>2. CASE Full(rec)
    <3> PICK flushed \in BOOLEAN : /\ Rotation(flushed, FALSE)
                                   /\ rec' = Rotated(rec, flushed, FALSE)
      BY <1>6, <2>2 DEF WriteFrameFails
    <3> QED BY <2>1, RotationFacts
  <2>3. CASE ~Full(rec)
    <3>1. Pay(1) /\ rec' = Closed(rec, FALSE)
      BY <1>6, <2>3 DEF WriteFrameFails
    <3>2. Grows(rec, rec')
      BY <1>1, <3>1, ClosedTurns, TurnsGrow
    <3> QED BY <2>1, <3>1, <3>2, PayFacts
  <2> QED BY <2>2, <2>3
<1>7. CASE StopRun
  <2> PICK flushed \in BOOLEAN : Pay(Cost(flushed)) /\ rec' = Closed(rec, flushed)
    BY <1>7 DEF StopRun
  <2>1. Grows(rec, rec')
    BY <1>1, ClosedTurns, TurnsGrow
  <2>2. Cost(flushed) \in Nat
    BY DEF Cost
  <2> QED BY <1>7, <2>1, <2>2, PayFacts DEF StopRun
<1>8. CASE \E p \in Protectors : Protect(p)
  <2> PICK flushed \in BOOLEAN, opened \in BOOLEAN :
        Rotation(flushed, opened) /\ rec' = Rotated(rec, flushed, opened) /\ loop' = loop
    BY <1>8 DEF Protect, Called
  <2> QED BY <1>1, RotationFacts
<1>9. CASE \E k \in 1..MaxPrunes : PruneStep(k)
  <2> PICK k \in 1..MaxPrunes : PruneStep(k)
    BY <1>9
  <2>1. UNCHANGED <<loop, fileErrors>>
    BY PruneFacts DEF Pruned
  <2>2. CASE rec' = rec
    BY <1>2, <2>1, <2>2
  <2>3. CASE \E f \in 1..Len(rec.segs) : rec.segs[f].state # "open" /\ rec' = Removed(rec, f)
    <3> PICK f \in 1..Len(rec.segs) : rec.segs[f].state # "open" /\ rec' = Removed(rec, f)
      BY <2>3
    <3>1. Grows(rec, rec') /\ rec'.handle = rec.handle
      BY <1>1, RemovedGrows, RemovedFacts
    <3> QED BY <1>1, <2>1, <3>1
  <2> QED BY <2>2, <2>3, PruneFacts
<1> QED BY <1>3, <1>4, <1>5, <1>6, <1>7, <1>8, <1>9 DEF RecorderNext

LEMMA RecordTypesKept ==
  ASSUME Shape, [RecorderNext]_recorderVars
  PROVE  ChannelTypeOK'
<1> DEFINE F == [n : 1..MaxFrames, iface : Interfaces]
<1>1. fileErrors' \in 0..MaxFileErrors
  BY RecordMoves
<1>2. ChannelTypeOK
  BY DEF Shape
<1>3. CASE UNCHANGED <<loop, channel>>
  BY <1>1, <1>2, <1>3 DEF ChannelTypeOK, channel
<1>4. CASE \E i \in Interfaces : Record(i)
  <2> PICK i \in Interfaces : Record(i)
    BY <1>4
  <2>1. /\ offered \in Nat /\ offered' = offered + 1 /\ offered' \in 1..MaxFrames
        /\ dropped \subseteq 1..offered'
    BY <1>2, RecorderBounds DEF Record, ChannelTypeOK
  <2>2. CASE Len(buffered) < ChannelSize
    <3> DEFINE fr == [n |-> offered', iface |-> i]
    <3>1. fr \in F /\ buffered \in Seq(F)
      BY <1>2, <2>1 DEF ChannelTypeOK
    <3>2. buffered' = Append(buffered, fr) /\ UNCHANGED <<loop, dropped>>
      BY <2>2 DEF Record
    <3> HIDE DEF fr, F
    <3>3. buffered' \in Seq(F) /\ Len(buffered') = Len(buffered) + 1 /\ Len(buffered) \in Nat
      BY <3>1, <3>2, AppendProperties, LenProperties
    <3>4. Len(buffered') <= ChannelSize
      BY <2>2, <3>3, RecorderBounds
    <3> QED BY <1>1, <1>2, <2>1, <3>2, <3>3, <3>4, RecorderBounds DEF ChannelTypeOK, F
  <2>3. CASE ~(Len(buffered) < ChannelSize)
    <3>1. dropped' = dropped \cup {offered'} /\ UNCHANGED <<loop, buffered>>
      BY <2>3 DEF Record
    <3>2. offered' \in 1..offered'
      BY <2>1
    <3>3. dropped' \subseteq 1..offered'
      BY <2>1, <3>1, <3>2
    <3> QED BY <1>1, <1>2, <2>1, <3>1, <3>3, RecorderBounds DEF ChannelTypeOK
  <2> QED BY <2>2, <2>3
<1>5. CASE StartRun
  BY <1>1, <1>2, <1>5 DEF StartRun, channel, ChannelTypeOK
<1>6. CASE WriteFrame \/ WriteFrameFails
  <2>1. /\ buffered # <<>> /\ buffered' = Tail(buffered) /\ UNCHANGED <<offered, dropped>>
        /\ loop' \in {loop, "exited"}
    BY <1>6 DEF WriteFrame, WriteFrameFails
  <2>2. buffered' \in Seq(F) /\ Len(buffered') <= ChannelSize
    BY <1>2, <2>1, HeadFrame, RecorderBounds DEF ChannelTypeOK
  <2> QED BY <1>1, <1>2, <2>1, <2>2 DEF ChannelTypeOK
<1>7. CASE StopRun
  BY <1>1, <1>2, <1>7 DEF StopRun, channel, ChannelTypeOK
<1> QED BY <1>3, <1>4, <1>5, <1>6, <1>7 DEF RecorderNext, Protect, Called, CopyBegin, CopySkips,
       CopyEnd, Return, PruneLists, PruneStep, Prune, Pruned, recorderVars

\* A prune that starts was idle, and the others are left alone.
LEMMA StartedFacts ==
  ASSUME Shape, CanOpen, PruneStarted
  PROVE  /\ prunes' \in [1..MaxPrunes -> PruneType]
         /\ \A k \in 1..MaxPrunes : prunes'[k].files = prunes[k].files
         /\ \E k \in 1..MaxPrunes :
              /\ prunes[k].at = "idle" /\ prunes'[k].at = "started"
              /\ \A j \in 1..MaxPrunes : j # k => prunes'[j] = prunes[j]
<1> DEFINE k == CHOOSE j \in 1..MaxPrunes : prunes[j].at = "idle"
<1>1. k \in 1..MaxPrunes /\ prunes[k].at = "idle"
  BY DEF CanOpen
<1>2. prunes' = [prunes EXCEPT ![k].at = "started"]
  BY DEF PruneStarted
<1> HIDE DEF k
<1>3. prunes \in [1..MaxPrunes -> PruneType]
  BY DEF Shape, PrunesTypeOK
<1>4. /\ prunes'[k] \in PruneType /\ prunes'[k].at = "started"
      /\ prunes'[k].files = prunes[k].files
      /\ \A j \in 1..MaxPrunes : j # k => prunes'[j] = prunes[j]
  BY <1>1, <1>2, <1>3 DEF PruneType
<1> QED BY <1>1, <1>2, <1>3, <1>4

LEMMA PrunesTypesKept ==
  ASSUME Shape, [RecorderNext]_recorderVars
  PROVE  PrunesTypeOK'
<1>1. /\ prunes \in [1..MaxPrunes -> PruneType]
      /\ \A k \in 1..MaxPrunes : prunes[k].files \subseteq 1..Len(rec.segs)
  BY DEF Shape, PrunesTypeOK
<1>2. 1..Len(rec.segs) \subseteq 1..Len(rec'.segs) /\ Len(rec.segs) \in Nat
  <2>1. Len(rec.segs) <= Len(rec'.segs) /\ Writer(rec) /\ Writer(rec')
    BY RecordMoves DEF Grows, Shape
  <2>2. Len(rec.segs) \in Nat /\ Len(rec'.segs) \in Nat
    BY <2>1, WriterFields
  <2> QED BY <2>1, <2>2
<1>3. ASSUME prunes' \in [1..MaxPrunes -> PruneType],
             \A k \in 1..MaxPrunes : prunes'[k].files \subseteq 1..Len(rec.segs)
      PROVE  PrunesTypeOK'
  BY <1>2, <1>3 DEF PrunesTypeOK
<1>4. CASE UNCHANGED prunes
  BY <1>1, <1>3, <1>4
<1>5. CASE CanOpen /\ PruneStarted
  BY <1>1, <1>3, <1>5, StartedFacts
<1>6. ASSUME NEW k \in 1..MaxPrunes, NEW g \in PruneType, Pruned(k, g),
             g.files \subseteq 1..Len(rec.segs)
      PROVE  PrunesTypeOK'
  <2>1. prunes' = [prunes EXCEPT ![k] = g]
    BY <1>6 DEF Pruned
  <2>2. prunes' \in [1..MaxPrunes -> PruneType]
    BY <1>1, <2>1
  <2>3. \A j \in 1..MaxPrunes : prunes'[j].files \subseteq 1..Len(rec.segs)
    BY <1>1, <1>6, <2>1
  <2> QED BY <1>3, <2>2, <2>3
<1>7. ASSUME NEW k \in 1..MaxPrunes, PruneLists(k) PROVE PrunesTypeOK'
  <2> PICK flushed \in 0..SegmentFrames : LET
        size == [s \in Segments |-> IF s \notin OnDisk THEN 0
                                    ELSE IF rec.segs[s].state = "open" THEN flushed
                                    ELSE Size(s)] IN
        Pruned(k, [at |-> "listed", files |-> OnDisk, size |-> size,
                   total |-> Total(OnDisk, size)])
    BY <1>7 DEF PruneLists
  <2> DEFINE size == [s \in Segments |-> IF s \notin OnDisk THEN 0
                                         ELSE IF rec.segs[s].state = "open" THEN flushed
                                         ELSE Size(s)]
             g == [at |-> "listed", files |-> OnDisk, size |-> size,
                   total |-> Total(OnDisk, size)]
  <2>1. OnDisk \subseteq 1..Len(rec.segs) /\ OnDisk \subseteq Segments
    BY <1>2, RecorderBounds DEF OnDisk, Segments, Shape, Writer
  <2>2. size \in [Segments -> Nat]
    <3>1. \A s \in OnDisk : Size(s) \in Nat
      BY <2>1, WriterFields DEF Size, Shape
    <3>2. flushed \in Nat
      BY RecorderBounds
    <3> QED BY <3>1, <3>2
  <2>3. Total(OnDisk, size) \in Int
    <3> HIDE DEF size
    <3>1. \A s \in OnDisk : size[s] \in Nat
      BY <2>1, <2>2
    <3>2. Total(OnDisk, size) \in Nat
      BY <1>2, <2>1, <3>1, BlocksFinite
    <3> QED BY <3>2
  <2> HIDE DEF size
  <2>4. g \in PruneType /\ g.files = OnDisk
    BY <2>1, <2>2, <2>3 DEF PruneType
  <2>5. Pruned(k, g)
    BY DEF size
  <2> HIDE DEF g
  <2> QED BY <1>6, <2>1, <2>4, <2>5
<1>8. ASSUME NEW k \in 1..MaxPrunes, PruneStep(k) PROVE PrunesTypeOK'
  <2>1. IdlePrune \in PruneType /\ IdlePrune.files = {}
    BY DEF IdlePrune, PruneType
  <2>2. Pruned(k, prunes'[k])
    BY <1>8, PruneFacts
  <2>3. prunes'[k] \in PruneType /\ prunes'[k].files \subseteq prunes[k].files
    BY <1>8, <2>1, PruneFacts
  <2> QED BY <1>1, <1>6, <2>2, <2>3
<1>9. CASE \E flushed, opened \in BOOLEAN : Rotation(flushed, opened)
  BY <1>4, <1>5, <1>9 DEF Rotation
<1> QED BY <1>4, <1>7, <1>8, <1>9 DEF RecorderNext, Record, StartRun, WriteFrame, WriteFrameFails,
       StopRun, Protect, CopyBegin, CopySkips, CopyEnd, Return, recorderVars

\* The files a call copies: the last segments that were closed, with the one that
\* was open among them.
Asks(p, flushed, opened, files, saw) ==
  /\ Rotation(flushed, opened) /\ rec' = Rotated(rec, flushed, opened)
  /\ protector[p].at = "idle" /\ calls < MaxCalls /\ calls' = calls + 1
  /\ files = LastN(rec'.recent, 2)
  /\ \A i \in 1..Len(files) :
       /\ files[i] \in 1..Len(rec'.segs) /\ rec'.segs[files[i]].state # "open"
       /\ \E j \in 1..Len(rec'.recent) : files[i] = rec'.recent[j]
  /\ rec.handle = "open" => \E i \in 1..Len(files) : files[i] = rec.current
  /\ rec.handle # "open" => saw = {}
  /\ rec.handle = "open" =>
       /\ rec.current \in 1..Len(rec.segs)
       /\ \A m : m \in saw <=> \E i \in 1..Len(rec.segs[rec.current].packets) :
                                 rec.segs[rec.current].packets[i].n = m
  /\ protector' = [protector EXCEPT ![p] =
       [at |-> "copying", files |-> files,
        tag |-> IF SameTag THEN 0 ELSE calls', out |-> {}, saw |-> saw]]
  /\ UNCHANGED <<loop, channel, incidents, protected>>
LEMMA ProtectFacts ==
  ASSUME Shape, NEW p \in Protectors, Protect(p)
  PROVE  \E flushed \in BOOLEAN, opened \in BOOLEAN, files \in Seq(Segments),
            saw \in SUBSET (1..MaxFrames) : Asks(p, flushed, opened, files, saw)
<1> PICK flushed \in BOOLEAN, opened \in BOOLEAN :
      /\ Rotation(flushed, opened) /\ rec' = Rotated(rec, flushed, opened)
      /\ Called(p, LastN(rec'.recent, 2))
  BY DEF Protect
<1> DEFINE files == LastN(rec'.recent, 2)
           saw == IF rec.handle # "open" THEN {} ELSE Numbers(rec.segs[rec.current].packets)
<1>1. Writer(rec) /\ Writer(rec') /\ rec'.recent \in Seq(Segments)
  BY RotationFacts, WriterFields DEF Turns, Shape
<1>2. /\ files \in Seq(Segments)
      /\ \A i \in 1..Len(files) : \E j \in 1..Len(rec'.recent) : files[i] = rec'.recent[j]
      /\ rec'.recent # <<>> =>
           \E i \in 1..Len(files) : files[i] = rec'.recent[Len(rec'.recent)]
  <2> PICK recent \in Seq(Segments) : recent = rec'.recent
    BY <1>1
  <2> DEFINE last == LastN(recent, 2)
  <2>1. 2 \in Nat \ {0}
    OBVIOUS
  <2>2. /\ last \in Seq(Segments)
        /\ \A i \in 1..Len(last) : \E j \in 1..Len(recent) : last[i] = recent[j]
    <3>1. last \in Seq(Segments)
      BY <2>1, LastFacts
    <3>2. \A i \in 1..Len(last) : \E j \in 1..Len(recent) : last[i] = recent[j]
      BY <2>1, LastFacts
    <3> QED BY <3>1, <3>2
  <2>3. recent # <<>> => /\ Len(last) \in 1..Len(last)
                         /\ last[Len(last)] = recent[Len(recent)]
    BY <2>1, LastIsLast, Zenon
  <2> HIDE DEF last
  <2>4. /\ last \in Seq(Segments)
        /\ \A i \in 1..Len(last) : \E j \in 1..Len(recent) : last[i] = recent[j]
        /\ recent # <<>> => \E i \in 1..Len(last) : last[i] = recent[Len(recent)]
    BY <2>2, <2>3
  <2>5. files = last
    BY DEF last
  <2> HIDE DEF files
  <2> QED BY <2>4, <2>5
<1>3. \A j \in 1..Len(rec'.recent) :
        /\ rec'.recent[j] \in 1..Len(rec'.segs) /\ rec'.segs[rec'.recent[j]].state # "open"
  <2>1. \A j \in 1..Len(rec'.recent) : rec'.recent[j] \in Segments
    BY <1>1, ElementOfSeq
  <2> QED BY <1>1, <2>1, RecorderBounds DEF Writer, Segments
<1>4. rec.handle = "open" =>
        /\ rec.current \in 1..Len(rec.segs)
        /\ rec'.recent # <<>> /\ rec'.recent[Len(rec'.recent)] = rec.current
  <2> HAVE rec.handle = "open"
  <2> DEFINE long == Append(rec.recent, rec.current)
  <2>1. rec'.recent = LastN(long, 4)
    BY RotationFacts
  <2>2. rec.current \in 1..Len(rec.segs) /\ rec.current \in Segments
    BY <1>1, WriterFields, RecorderBounds DEF Writer, Segments
  <2>3. /\ long \in Seq(Segments) /\ Len(long) = Len(rec.recent) + 1
        /\ long[Len(rec.recent) + 1] = rec.current /\ Len(rec.recent) \in Nat
    BY <1>1, <2>2, WriterFields, AppendProperties
  <2> HIDE DEF long
  <2>4. LastN(long, 4) # <<>> /\ LastN(long, 4)[Len(LastN(long, 4))] = rec.current
    BY <2>3, LastIsLast
  <2> QED BY <2>1, <2>2, <2>4
<1>5. /\ rec.handle = "open" =>
           \A m : m \in saw <=> \E i \in 1..Len(rec.segs[rec.current].packets) :
                                  rec.segs[rec.current].packets[i].n = m
      /\ saw \in SUBSET (1..MaxFrames)
  <2>1. CASE rec.handle # "open"
    BY <2>1
  <2>2. CASE rec.handle = "open"
    <3>1. rec.segs[rec.current].packets \in Seq(PacketBlock)
      BY <1>1, <1>4, <2>2, WriterFields
    <3>2. \A m : m \in saw <=> \E i \in 1..Len(rec.segs[rec.current].packets) :
                                 rec.segs[rec.current].packets[i].n = m
      BY <2>2, <3>1, NumbersFacts
    <3>3. \A i \in 1..Len(rec.segs[rec.current].packets) :
            rec.segs[rec.current].packets[i].n \in 1..MaxFrames
      <4>1. \A i \in 1..Len(rec.segs[rec.current].packets) :
              rec.segs[rec.current].packets[i] \in PacketBlock
        BY <3>1, ElementOfSeq
      <4> QED BY <4>1 DEF PacketBlock
    <3> HIDE DEF saw
    <3>4. saw \subseteq 1..MaxFrames
      BY <3>2, <3>3
    <3> QED BY <3>2, <3>4
  <2> QED BY <2>1, <2>2
<1>6. protector' = [protector EXCEPT ![p] =
        [at |-> "copying", files |-> files,
         tag |-> IF SameTag THEN 0 ELSE calls', out |-> {}, saw |-> saw]]
  BY DEF Called
<1>7. rec.handle # "open" => saw = {}
  OBVIOUS
<1> HIDE DEF files, saw
<1>8. /\ \A i \in 1..Len(files) :
           /\ files[i] \in 1..Len(rec'.segs) /\ rec'.segs[files[i]].state # "open"
           /\ \E j \in 1..Len(rec'.recent) : files[i] = rec'.recent[j]
      /\ rec.handle = "open" => \E i \in 1..Len(files) : files[i] = rec.current
  BY <1>2, <1>3, <1>4
<1>9. /\ protector[p].at = "idle" /\ calls < MaxCalls /\ calls' = calls + 1
      /\ files = LastN(rec'.recent, 2) /\ UNCHANGED <<loop, channel, incidents, protected>>
  BY DEF Called, files
<1>10. files \in Seq(Segments) /\ saw \in SUBSET (1..MaxFrames)
  BY <1>2, <1>5
<1>11. rec.handle = "open" => rec.current \in 1..Len(rec.segs)
  BY <1>4
<1>12. rec.handle = "open" =>
         \A m : m \in saw <=> \E i \in 1..Len(rec.segs[rec.current].packets) :
                                rec.segs[rec.current].packets[i].n = m
  BY <1>5
<1>13. Asks(p, flushed, opened, files, saw)
  BY <1>6, <1>7, <1>8, <1>9, <1>11, <1>12, Zenon DEF Asks
<1> QED BY <1>10, <1>13

\* The steps of a copy: what the caller has left to do, and what it takes off.
LEMMA CopyFacts ==
  ASSUME Shape, NEW p \in Protectors, protector[p].files # <<>>
  PROVE  LET files == protector[p].files IN
         /\ Source(p) \in 1..Len(rec.segs) /\ Source(p) = files[1]
         /\ Target(p) \in Tags \X Segments /\ Target(p)[2] = Source(p)
         /\ Target(p)[1] = protector[p].tag
         /\ Tail(files) \in Seq(Segments) /\ Len(Tail(files)) = Len(files) - 1
         /\ Len(files) \in Nat \ {0}
         /\ \A i \in 1..Len(Tail(files)) : Tail(files)[i] = files[i + 1]
         /\ \A i \in 1..Len(files) : files[i] \in 1..Len(rec.segs)
<1> DEFINE files == protector[p].files
<1>1. /\ protector[p] \in ProtectorType /\ files \in Seq(Segments)
      /\ ToSet(files) \subseteq 1..Len(rec.segs)
  BY DEF Shape, CopiesTypeOK, ProtectorType
<1>2. protector[p].tag \in Tags
  BY <1>1 DEF ProtectorType
<1> HIDE DEF files
<1>3. files # <<>>
  BY DEF files
<1>4. /\ Head(files) \in Segments /\ Tail(files) \in Seq(Segments)
      /\ Len(Tail(files)) = Len(files) - 1
      /\ \A i \in 1..Len(Tail(files)) : Tail(files)[i] = files[i + 1]
  BY <1>1, <1>3, HeadTailProperties
<1>5. Len(files) \in Nat \ {0} /\ DOMAIN files = 1..Len(files) /\ Head(files) = files[1]
  BY <1>1, <1>3, EmptySeq, LenProperties
<1>6. \A i \in 1..Len(files) : files[i] \in 1..Len(rec.segs)
  BY <1>1, <1>5 DEF ToSet
<1> QED BY <1>2, <1>4, <1>5, <1>6 DEF files, Source, Target

\* A protector changes only itself.
LEMMA ProtectorSet ==
  ASSUME CopiesTypeOK, NEW p \in Protectors, NEW v \in ProtectorType,
         protector' = [protector EXCEPT ![p] = v]
  PROVE  /\ protector' \in [Protectors -> ProtectorType] /\ protector'[p] = v
         /\ \A q \in Protectors : q # p => protector'[q] = protector[q]
BY DEF CopiesTypeOK

LEMMA CopiesTypesKept ==
  ASSUME Shape, [RecorderNext]_recorderVars
  PROVE  CopiesTypeOK'
<1>1. CopiesTypeOK /\ calls \in Nat
  BY RecorderBounds DEF Shape, CopiesTypeOK
<1>2. 1..Len(rec.segs) \subseteq 1..Len(rec'.segs)
  <2>1. Len(rec.segs) <= Len(rec'.segs) /\ Writer(rec) /\ Writer(rec')
    BY RecordMoves DEF Grows, Shape
  <2>2. Len(rec.segs) \in Nat /\ Len(rec'.segs) \in Nat
    BY <2>1, WriterFields
  <2> QED BY <2>1, <2>2
<1>3. CASE UNCHANGED copies
  BY <1>1, <1>2, <1>3 DEF copies, CopiesTypeOK
<1>4. ASSUME NEW p \in Protectors, NEW v \in ProtectorType,
             protector' = [protector EXCEPT ![p] = v],
             ToSet(v.files) \subseteq 1..Len(rec'.segs),
             calls' \in 0..MaxCalls, incidents' \in [Tags \X Segments -> CopyType],
             protected' \subseteq Tags \X Segments
      PROVE  CopiesTypeOK'
  <2>1. /\ protector' \in [Protectors -> ProtectorType] /\ protector'[p] = v
        /\ \A q \in Protectors : q # p => protector'[q] = protector[q]
    BY <1>1, <1>4, ProtectorSet
  <2>2. \A q \in Protectors : ToSet(protector'[q].files) \subseteq 1..Len(rec'.segs)
    BY <1>1, <1>2, <1>4, <2>1 DEF CopiesTypeOK
  <2> QED BY <1>4, <2>1, <2>2 DEF CopiesTypeOK
<1>5. ASSUME NEW p \in Protectors, Protect(p) PROVE CopiesTypeOK'
  <2> PICK files \in Seq(Segments), saw \in SUBSET (1..MaxFrames) :
        /\ calls < MaxCalls /\ calls' = calls + 1
        /\ \A i \in 1..Len(files) : files[i] \in 1..Len(rec'.segs)
        /\ protector' = [protector EXCEPT ![p] =
             [at |-> "copying", files |-> files,
              tag |-> IF SameTag THEN 0 ELSE calls', out |-> {}, saw |-> saw]]
        /\ UNCHANGED <<incidents, protected>>
    BY <1>5, ProtectFacts DEF Asks
  <2> DEFINE v == [at |-> "copying", files |-> files,
                   tag |-> IF SameTag THEN 0 ELSE calls', out |-> {}, saw |-> saw]
  <2>1. calls' \in 0..MaxCalls
    BY <1>1, RecorderBounds
  <2>2. v \in ProtectorType
    BY <2>1, RecorderBounds DEF ProtectorType, Tags
  <2>3. v.files = files
    OBVIOUS
  <2>4. ToSet(files) \subseteq 1..Len(rec'.segs)
    BY LenProperties DEF ToSet
  <2>5. protector' = [protector EXCEPT ![p] = v]
    OBVIOUS
  <2>6. incidents' \in [Tags \X Segments -> CopyType] /\ protected' \subseteq Tags \X Segments
    BY <1>1 DEF CopiesTypeOK
  <2> HIDE DEF v
  <2> QED BY <1>4, <2>1, <2>2, <2>3, <2>4, <2>5, <2>6
<1>6. ASSUME NEW p \in Protectors, CopyBegin(p) \/ CopySkips(p) \/ CopyEnd(p) PROVE CopiesTypeOK'
  <2> DEFINE files == protector[p].files
  <2>1. /\ files # <<>> /\ UNCHANGED <<protected, calls>>
    BY <1>6 DEF CopyBegin, CopySkips, CopyEnd, Copying
  <2>2. /\ Target(p) \in Tags \X Segments /\ Source(p) \in 1..Len(rec.segs)
        /\ Tail(files) \in Seq(Segments)
        /\ \A i \in 1..Len(Tail(files)) : Tail(files)[i] \in 1..Len(rec.segs)
    <3>1. /\ Target(p) \in Tags \X Segments /\ Source(p) \in 1..Len(rec.segs)
          /\ Tail(files) \in Seq(Segments) /\ Len(Tail(files)) = Len(files) - 1
          /\ Len(files) \in Nat \ {0}
          /\ \A i \in 1..Len(Tail(files)) : Tail(files)[i] = files[i + 1]
          /\ \A i \in 1..Len(files) : files[i] \in 1..Len(rec.segs)
      BY <2>1, CopyFacts
    <3> HIDE DEF files
    <3>2. \A i \in 1..Len(Tail(files)) : i + 1 \in 1..Len(files)
      BY <3>1
    <3> QED BY <3>1, <3>2
  <2>3. incidents' \in [Tags \X Segments -> CopyType]
    <3>1. incidents \in [Tags \X Segments -> CopyType]
      BY <1>1 DEF CopiesTypeOK
    <3>2. CASE CopyBegin(p)
      <4> DEFINE c == [by |-> p, done |-> FALSE, state |-> rec.segs[Source(p)].state]
      <4>1. rec.segs[Source(p)].state \in Outcomes
        BY <2>2, WriterFields DEF Shape
      <4>2. c \in CopyType
        BY <4>1 DEF CopyType
      <4>3. incidents' = [incidents EXCEPT ![Target(p)] = c]
        BY <3>2 DEF CopyBegin
      <4> HIDE DEF c
      <4> QED BY <2>2, <3>1, <4>2, <4>3
    <3>3. CASE CopyEnd(p)
      <4>1. incidents[Target(p)] \in CopyType
        BY <2>2, <3>1
      <4> DEFINE c == [incidents[Target(p)] EXCEPT !.done = @ \/ incidents[Target(p)].by = p]
      <4>2. c \in CopyType
        BY <4>1 DEF CopyType
      <4>3. incidents' = incidents \/ incidents' = [incidents EXCEPT ![Target(p)] = c]
        BY <3>3, <4>1 DEF CopyEnd, CopyType
      <4> HIDE DEF c
      <4> QED BY <2>2, <3>1, <4>2, <4>3
    <3> QED BY <1>6, <3>1, <3>2, <3>3 DEF CopySkips
  <2>4. ToSet(Tail(files)) \subseteq 1..Len(rec.segs) /\ ToSet(files) \subseteq 1..Len(rec.segs)
    BY <1>1, <2>2, LenProperties DEF ToSet, CopiesTypeOK
  <2>5. \E v \in ProtectorType :
          /\ protector' = [protector EXCEPT ![p] = v]
          /\ v.files \in {files, Tail(files)}
    <3>1. protector[p] \in ProtectorType
      BY <1>1 DEF CopiesTypeOK
    <3>2. CASE CopyBegin(p)
      <4> DEFINE v == [protector[p] EXCEPT !.at = "writing"]
      <4>1. v \in ProtectorType /\ v.files = files
        BY <3>1 DEF ProtectorType
      <4>2. protector' = [protector EXCEPT ![p] = v]
        BY <3>2 DEF CopyBegin
      <4> QED BY <4>1, <4>2
    <3>3. CASE \E out \in SUBSET (Tags \X Segments) : NextFile(p, out)
      <4> PICK out \in SUBSET (Tags \X Segments) : NextFile(p, out)
        BY <3>3
      <4> DEFINE v == [protector[p] EXCEPT !.at = "copying", !.files = Tail(@), !.out = out]
      <4>1. v \in ProtectorType /\ v.files = Tail(files)
        BY <2>2, <3>1 DEF ProtectorType
      <4>2. protector' = [protector EXCEPT ![p] = v]
        BY DEF NextFile
      <4> HIDE DEF v
      <4> QED BY <4>1, <4>2
    <3>4. /\ protector[p].out \in SUBSET (Tags \X Segments)
          /\ protector[p].out \cup {Target(p)} \in SUBSET (Tags \X Segments)
      BY <2>2, <3>1 DEF ProtectorType
    <3> QED BY <1>6, <3>2, <3>3, <3>4 DEF CopySkips, CopyEnd
  <2> QED BY <1>1, <1>2, <1>4, <2>1, <2>3, <2>4, <2>5 DEF CopiesTypeOK
<1>7. ASSUME NEW p \in Protectors, Return(p) PROVE CopiesTypeOK'
  <2>1. IdleProtector \in ProtectorType /\ IdleProtector.files = <<>>
    BY EmptySeq, RecorderBounds DEF IdleProtector, ProtectorType, Tags
  <2>2. ToSet(<<>>) = {}
    BY DEF ToSet
  <2>3. protected' \subseteq Tags \X Segments
    BY <1>1, <1>7 DEF Return, CopiesTypeOK, ProtectorType
  <2>4. /\ protector' = [protector EXCEPT ![p] = IdleProtector]
        /\ UNCHANGED <<calls, incidents>>
    BY <1>7 DEF Return
  <2> HIDE DEF IdleProtector
  <2> QED BY <1>1, <1>4, <2>1, <2>2, <2>3, <2>4 DEF CopiesTypeOK
<1> QED BY <1>3, <1>5, <1>6, <1>7 DEF RecorderNext, Record, StartRun, WriteFrame, WriteFrameFails,
       StopRun, PruneLists, PruneStep, Prune, Pruned, recorderVars

LEMMA ShapeKept ==
  ASSUME Shape, [RecorderNext]_recorderVars
  PROVE  Shape'
BY RecordMoves, RecordTypesKept, PrunesTypesKept, CopiesTypesKept DEF Shape, Grows

\* While no packet is added, the recorded frames are those there were.
LEMMA HasSame ==
  ASSUME NEW old, NEW new, NEW outcome, Writer(old), Turns(old, new, outcome)
  PROVE  \A m : Has(new, m) <=> Has(old, m)
<1>1. /\ Len(old.segs) \in Nat /\ Len(new.segs) \in Nat /\ Len(old.segs) <= Len(new.segs)
      /\ \A s \in 1..Len(old.segs) : new.segs[s].packets = old.segs[s].packets
      /\ \A s \in 1..Len(new.segs) : s > Len(old.segs) => new.segs[s].packets = <<>>
  BY WriterFields DEF Turns, EmptySegment
<1>2. Len(<<>>) = 0
  BY EmptySeq
<1>3. ASSUME NEW m, Has(new, m) PROVE Has(old, m)
  <2> PICK s \in 1..Len(new.segs) : \E i \in 1..Len(new.segs[s].packets) : new.segs[s].packets[i].n = m
    BY <1>3 DEF Has
  <2>1. s <= Len(old.segs)
    BY <1>1, <1>2
  <2>2. s \in 1..Len(old.segs)
    BY <1>1, <2>1
  <2> QED BY <1>1, <2>2 DEF Has
<1>4. ASSUME NEW m, Has(old, m) PROVE Has(new, m)
  <2> PICK s \in 1..Len(old.segs) : \E i \in 1..Len(old.segs[s].packets) : old.segs[s].packets[i].n = m
    BY <1>4 DEF Has
  <2>1. s \in 1..Len(new.segs)
    BY <1>1
  <2> QED BY <1>1, <2>1 DEF Has
<1> QED BY <1>3, <1>4

LEMMA FramesTurned ==
  ASSUME NEW old, NEW new, NEW outcome, NEW q, NEW all, Writer(old),
         Turns(old, new, outcome), Frames(old, q, all)
  PROVE  Frames(new, q, all)
<1>1. /\ Len(old.segs) \in Nat /\ Len(new.segs) \in Nat /\ Len(old.segs) <= Len(new.segs)
      /\ \A s \in 1..Len(old.segs) : new.segs[s].packets = old.segs[s].packets
      /\ \A s \in 1..Len(new.segs) : s > Len(old.segs) => new.segs[s].packets = <<>>
  BY WriterFields DEF Turns, EmptySegment
<1>2. Len(<<>>) = 0
  BY EmptySeq
<1>3. \A m : Has(new, m) <=> Has(old, m)
  BY HasSame
<1>4. ASSUME NEW s \in 1..Len(new.segs) PROVE InOrder(new.segs[s].packets)
  <2>1. CASE s <= Len(old.segs)
    BY <1>1, <2>1 DEF Frames
  <2>2. CASE s > Len(old.segs)
    BY <1>1, <1>2, <2>2 DEF InOrder
  <2> QED BY <1>1, <2>1, <2>2
<1>5. ASSUME NEW s \in 1..Len(new.segs), NEW t \in 1..Len(new.segs), s < t,
             NEW i \in 1..Len(new.segs[s].packets), NEW j \in 1..Len(new.segs[t].packets)
      PROVE  new.segs[s].packets[i].n < new.segs[t].packets[j].n
  <2>1. t <= Len(old.segs)
    BY <1>1, <1>2
  <2>2. s \in 1..Len(old.segs) /\ t \in 1..Len(old.segs)
    BY <1>1, <1>5, <2>1
  <2> QED BY <1>1, <1>5, <2>2 DEF Frames
<1> QED BY <1>3, <1>4, <1>5 DEF Frames

LEMMA FramesRemoved ==
  ASSUME NEW r, Writer(r), NEW f \in 1..Len(r.segs), r.segs[f].state # "open",
         NEW q, NEW all, Frames(r, q, all)
  PROVE  Frames(Removed(r, f), q, all)
<1> DEFINE n == Removed(r, f)
<1>1. /\ Len(n.segs) = Len(r.segs)
      /\ \A s \in 1..Len(r.segs) : n.segs[s].packets = r.segs[s].packets
  BY RemovedFacts
<1> HIDE DEF n
<1>2. \A m : Has(n, m) <=> Has(r, m)
  BY <1>1 DEF Has
<1>3. \A s \in 1..Len(n.segs) : InOrder(n.segs[s].packets)
  BY <1>1 DEF Frames
<1>4. \A s, t \in 1..Len(n.segs) : s < t =>
        \A i \in 1..Len(n.segs[s].packets), j \in 1..Len(n.segs[t].packets) :
          n.segs[s].packets[i].n < n.segs[t].packets[j].n
  BY <1>1 DEF Frames
<1>5. Frames(n, q, all)
  BY <1>2, <1>3, <1>4 DEF Frames
<1> QED BY <1>5 DEF n

\* The frame at the head of the channel goes to the end of the open segment.
LEMMA FramesTaken ==
  ASSUME NEW r, Writer(r), r.handle = "open",
         NEW q \in Seq([n : 1..MaxFrames, iface : Interfaces]), q # <<>>,
         NEW all, Frames(r, q, all)
  PROVE  Frames(Added(r, Head(q)), Tail(q), all)
<1> DEFINE new == Added(r, Head(q))
           c == Len(r.segs)
<1>1. /\ Len(q) \in Nat \ {0} /\ Head(q) = q[1] /\ Len(Tail(q)) = Len(q) - 1
      /\ \A i \in 1..Len(Tail(q)) : Tail(q)[i] = q[i + 1]
      /\ Head(q) \in [n : 1..MaxFrames, iface : Interfaces]
  <2> DEFINE T == [n : 1..MaxFrames, iface : Interfaces]
  <2>1. q \in Seq(T) /\ q # <<>>
    OBVIOUS
  <2> HIDE DEF T
  <2>2. /\ Len(q) \in Nat \ {0} /\ Head(q) = q[1] /\ Len(Tail(q)) = Len(q) - 1
        /\ \A i \in 1..Len(Tail(q)) : Tail(q)[i] = q[i + 1]
    BY <2>1, EmptySeq, HeadTailProperties, LenProperties
  <2>3. Head(q) \in T
    BY <2>1, HeadTailProperties
  <2> QED BY <2>2, <2>3 DEF T
<1>2. /\ Len(new.segs) = c
      /\ \A s \in 1..Len(r.segs) :
           /\ r.segs[s].state # "open" => new.segs[s].packets = r.segs[s].packets
           /\ r.segs[s].state = "open" =>
                \E b \in PacketBlock :
                  b.n = Head(q).n /\ new.segs[s].packets = Append(r.segs[s].packets, b)
  <2> PICK fr \in [n : 1..MaxFrames, iface : Interfaces] : fr = Head(q)
    BY <1>1
  <2>1. r.handle # "none"
    OBVIOUS
  <2> QED BY <2>1, AddedFacts
<1>3. /\ c \in Nat /\ c \in 1..c
      /\ \A s \in 1..c : r.segs[s].state = "open" <=> s = c
      /\ \A s \in 1..c : r.segs[s].packets \in Seq(PacketBlock)
  <2>1. /\ Len(r.segs) \in Nat /\ r.current = Len(r.segs) /\ r.current # 0
        /\ \A s \in 1..Len(r.segs) : r.segs[s].packets \in Seq(PacketBlock)
    BY WriterFields DEF Writer
  <2>2. \A s \in 1..Len(r.segs) : r.segs[s].state = "open" <=> s = r.current
    BY DEF Writer
  <2> QED BY <2>1, <2>2
<1> HIDE DEF new
<1> DEFINE old == r.segs[c].packets
           l == Len(old)
<1>4. /\ \A s \in 1..c : s # c => new.segs[s].packets = r.segs[s].packets
      /\ l \in Nat /\ Len(new.segs[c].packets) = l + 1
      /\ \A i \in 1..l : new.segs[c].packets[i] = old[i]
      /\ new.segs[c].packets[l + 1].n = q[1].n
  <2>1. \A s \in 1..c : s # c => new.segs[s].packets = r.segs[s].packets
    BY <1>2, <1>3
  <2>2. PICK b \in PacketBlock : b.n = q[1].n /\ new.segs[c].packets = Append(old, b)
    BY <1>1, <1>2, <1>3
  <2>3. old \in Seq(PacketBlock)
    BY <1>3
  <2>4. /\ l \in Nat /\ Len(Append(old, b)) = l + 1
        /\ \A i \in 1..l : Append(old, b)[i] = old[i]
        /\ Append(old, b)[l + 1] = b
    BY <2>3, BlockAppended
  <2> QED BY <2>1, <2>2, <2>4
<1> HIDE DEF c, old, l
<1> DEFINE x == q[1].n
<1>5. \A m : Has(r, m) => m < x
  BY <1>1 DEF Frames
<1>6. \A i \in 1..Len(q) : i > 1 => x < q[i].n
  BY <1>1 DEF Frames, InOrder
<1>7. \A i \in 1..l : Has(r, old[i].n)
  BY <1>3 DEF Has, old, c, l
<1>8. \A m : Has(new, m) <=> Has(r, m) \/ m = x
  <2>1. ASSUME NEW m, Has(new, m) PROVE Has(r, m) \/ m = x
    <3> PICK s \in 1..c : \E i \in 1..Len(new.segs[s].packets) : new.segs[s].packets[i].n = m
      BY <1>2, <2>1 DEF Has
    <3>1. CASE s # c
      BY <1>4, <3>1 DEF Has, c
    <3>2. CASE s = c
      <4> PICK i \in 1..l+1 : new.segs[c].packets[i].n = m
        BY <1>4, <3>2
      <4>1. CASE i = l + 1
        BY <1>4, <4>1
      <4>2. CASE i \in 1..l
        BY <1>4, <1>7, <4>2
      <4>3. i = l + 1 \/ i \in 1..l
        BY <1>4
      <4> QED BY <4>1, <4>2, <4>3
    <3> QED BY <3>1, <3>2
  <2>2. ASSUME NEW m, Has(r, m) PROVE Has(new, m)
    <3> PICK s \in 1..c : \E i \in 1..Len(r.segs[s].packets) : r.segs[s].packets[i].n = m
      BY <2>2 DEF Has, c
    <3>1. CASE s # c
      BY <1>2, <1>4, <3>1 DEF Has
    <3>2. CASE s = c
      <4> PICK i \in 1..l : old[i].n = m
        BY <3>2 DEF old, l
      <4>1. i \in 1..Len(new.segs[c].packets) /\ new.segs[c].packets[i].n = m
        BY <1>4
      <4> QED BY <1>2, <1>3, <4>1 DEF Has
    <3> QED BY <3>1, <3>2
  <2>3. Has(new, x)
    <3>1. l + 1 \in 1..Len(new.segs[c].packets)
      BY <1>4
    <3> QED BY <1>2, <1>3, <1>4, <3>1 DEF Has
  <2> QED BY <2>1, <2>2, <2>3
<1>9. \A m : (\E i \in 1..Len(q) : q[i].n = m)
               <=> m = x \/ \E i \in 1..Len(Tail(q)) : Tail(q)[i].n = m
  <2>1. \A i \in 1..Len(Tail(q)) : i + 1 \in 1..Len(q) /\ Tail(q)[i] = q[i + 1]
    BY <1>1
  <2>2. \A i \in 1..Len(q) : i = 1 \/ (i - 1 \in 1..Len(Tail(q)) /\ Tail(q)[i - 1] = q[i])
    BY <1>1
  <2>3. 1 \in 1..Len(q)
    BY <1>1
  <2> QED BY <2>1, <2>2, <2>3
<1>10. \A m : m \in all <=> Has(new, m) \/ \E i \in 1..Len(Tail(q)) : Tail(q)[i].n = m
  BY <1>8, <1>9 DEF Frames
<1>11. \A i \in 1..Len(Tail(q)) : i + 1 \in 1..Len(q) /\ Tail(q)[i] = q[i + 1]
  BY <1>1
<1>12. InOrder(Tail(q))
  <2>1. \A i, j \in 1..Len(Tail(q)) : i < j => i + 1 < j + 1
    BY <1>1
  <2> QED BY <1>11, <2>1 DEF InOrder, Frames
<1>13. \A m : Has(new, m) => \A i \in 1..Len(Tail(q)) : m < Tail(q)[i].n
  <2>1. \A i \in 1..Len(Tail(q)) : i + 1 > 1
    BY <1>1
  <2> QED BY <1>6, <1>8, <1>11, <2>1 DEF Frames
<1>14. \A s \in 1..Len(new.segs) : InOrder(new.segs[s].packets)
  <2> SUFFICES ASSUME NEW s \in 1..c PROVE InOrder(new.segs[s].packets)
    BY <1>2
  <2>1. InOrder(r.segs[s].packets)
    BY DEF Frames, c
  <2>2. CASE s # c
    BY <1>4, <2>1, <2>2
  <2>3. CASE s = c
    <3> SUFFICES ASSUME NEW i \in 1..l+1, NEW j \in 1..l+1, i < j
                 PROVE  new.segs[c].packets[i].n < new.segs[c].packets[j].n
      BY <1>4, <2>3 DEF InOrder
    <3>1. i \in 1..l
      BY <1>4
    <3>2. CASE j = l + 1
      BY <1>4, <1>5, <1>7, <3>1, <3>2
    <3>3. CASE j # l + 1
      <4>1. j \in 1..l
        BY <1>4, <3>3
      <4>2. old[i].n < old[j].n
        BY <2>1, <2>3, <3>1, <4>1 DEF InOrder, old, l
      <4> QED BY <1>4, <3>1, <4>1, <4>2
    <3> QED BY <3>2, <3>3
  <2> QED BY <2>2, <2>3
<1>15. ASSUME NEW s \in 1..c, NEW t \in 1..c, s < t,
              NEW i \in 1..Len(new.segs[s].packets), NEW j \in 1..Len(new.segs[t].packets)
       PROVE  new.segs[s].packets[i].n < new.segs[t].packets[j].n
  <2>1. s # c
    BY <1>3, <1>15
  <2>2. new.segs[s].packets = r.segs[s].packets
    BY <1>4, <2>1
  <2>3. Has(r, new.segs[s].packets[i].n)
    BY <2>2 DEF Has, c
  <2>4. CASE t # c
    BY <1>4, <1>15, <2>2, <2>4 DEF Frames, c
  <2>5. CASE t = c
    <3>1. j \in 1..l+1
      BY <1>4, <2>5
    <3>2. CASE j = l + 1
      BY <1>4, <1>5, <2>3, <2>5, <3>2
    <3>3. CASE j # l + 1
      <4>1. j \in 1..l
        BY <1>4, <3>1, <3>3
      <4> QED BY <1>4, <1>15, <2>2, <2>5, <4>1 DEF Frames, c, old, l
    <3> QED BY <3>2, <3>3
  <2> QED BY <2>4, <2>5
<1>16. Frames(new, Tail(q), all)
  BY <1>2, <1>10, <1>12, <1>13, <1>14, <1>15 DEF Frames
<1> QED BY <1>16 DEF new

\* What a step is while no file fails: the record is left alone, takes a frame from
\* the channel, is rotated or closed whole, or loses a closed segment.
Turned ==
  /\ UNCHANGED channel /\ Turns(rec, rec', "complete") /\ Clean(rec')
  /\ \/ rec'.handle = "open" /\ CanOpen /\ PruneStarted
     \/ loop' = "exited" /\ UNCHANGED prunes
Written(r) ==
  /\ Writer(r) /\ r.handle = "open" /\ Clean(r)
  /\ buffered # <<>> /\ buffered' = Tail(buffered) /\ rec' = Added(r, Head(buffered))
  /\ UNCHANGED <<loop, offered, dropped, copies>>
  /\ \/ r = rec /\ UNCHANGED prunes
     \/ Turns(rec, r, "complete") /\ CanOpen /\ PruneStarted
Loses(f) ==
  /\ rec.segs[f].state # "open" /\ rec' = Removed(rec, f)
  /\ UNCHANGED <<loop, channel, copies>>
Stays == rec' = rec /\ UNCHANGED <<loop, channel>>
Moves ==
  \/ Stays \/ Turned
  \/ \E i \in Interfaces : Record(i)
  \/ \E r : Written(r)
  \/ \E f \in 1..Len(rec.segs) : Loses(f)

LEMMA StepMoves ==
  ASSUME Shape, NoFileFailed, [RecorderNext]_recorderVars, fileErrors' = 0
  PROVE  fileErrors = 0 /\ Moves
<1>1. /\ fileErrors = 0 /\ fileErrors \in Nat
  BY RecordMoves DEF Shape, ChannelTypeOK
<1>2. /\ Writer(rec) /\ Clean(rec) /\ (loop # "exited" => rec.handle # "closed")
  BY <1>1 DEF NoFileFailed, Shape
<1>3. CASE UNCHANGED <<rec, loop, channel>>
  BY <1>1, <1>3 DEF Moves, Stays
<1>4. CASE \E i \in Interfaces : Record(i)
  BY <1>1, <1>4 DEF Moves
<1>5. ASSUME NEW flushed \in BOOLEAN, NEW opened \in BOOLEAN,
             Rotation(flushed, opened), rec' = Rotated(rec, flushed, opened), UNCHANGED channel
      PROVE  Turned
  <2>1. flushed /\ opened /\ Clean(rec') /\ rec'.handle = "open"
    BY <1>2, <1>5, RotationFacts
  <2>2. Turns(rec, rec', "complete")
    BY <1>5, <2>1, RotationFacts
  <2>3. CanOpen /\ PruneStarted
    BY <1>5, <2>1 DEF Rotation
  <2> QED BY <1>5, <2>1, <2>2, <2>3 DEF Turned
<1>6. CASE StartRun \/ \E p \in Protectors : Protect(p)
  <2> PICK flushed \in BOOLEAN, opened \in BOOLEAN :
        /\ Rotation(flushed, opened) /\ rec' = Rotated(rec, flushed, opened) /\ UNCHANGED channel
    BY <1>6 DEF StartRun, Protect, Called
  <2> QED BY <1>1, <1>5 DEF Moves
<1>7. CASE StopRun
  <2> PICK flushed \in BOOLEAN : Pay(Cost(flushed)) /\ rec' = Closed(rec, flushed)
    BY <1>7 DEF StopRun
  <2>1. Cost(flushed) \in Nat
    BY DEF Cost
  <2>2. flushed
    BY <1>1, <2>1, PayFacts DEF Cost
  <2>3. Turns(rec, rec', "complete") /\ Clean(rec')
    BY <1>2, <2>2, ClosedTurns, ClosedFacts
  <2>4. loop' = "exited" /\ UNCHANGED <<channel, prunes>>
    BY <1>7 DEF StopRun
  <2> QED BY <1>1, <2>3, <2>4 DEF Moves, Turned
<1>8. CASE WriteFrame
  <2> PICK flushed \in BOOLEAN : \E r :
        /\ WritesTo(r, flushed) /\ rec' = Added(r, Head(buffered))
        /\ Writer(r) /\ r.handle # "none"
    BY <1>8, WriteFrameFacts
  <2> PICK r : /\ WritesTo(r, flushed) /\ rec' = Added(r, Head(buffered))
               /\ Writer(r) /\ r.handle # "none"
    OBVIOUS
  <2>1. /\ buffered # <<>> /\ buffered' = Tail(buffered) /\ loop = "running"
        /\ UNCHANGED <<loop, offered, dropped, copies>>
    BY <1>8 DEF WriteFrame
  <2>2. CASE ~Full(rec)
    <3>1. r = rec /\ UNCHANGED prunes
      BY <2>2 DEF WritesTo
    <3>2. r.handle = "open" /\ Clean(r)
      BY <1>2, <2>1, <3>1, WriterFields
    <3> QED BY <1>1, <2>1, <3>1, <3>2 DEF Moves, Written
  <2>3. CASE Full(rec)
    <3>1. Rotation(flushed, TRUE) /\ r = Rotated(rec, flushed, TRUE)
      BY <2>3 DEF WritesTo
    <3>2. flushed /\ Clean(r) /\ r.handle = "open"
      BY <1>2, <3>1, RotationFacts
    <3>3. Turns(rec, r, "complete")
      BY <3>1, <3>2, RotationFacts
    <3>4. CanOpen /\ PruneStarted
      BY <3>1 DEF Rotation
    <3> QED BY <1>1, <2>1, <3>2, <3>3, <3>4 DEF Moves, Written
  <2> QED BY <2>2, <2>3
<1>9. CASE WriteFrameFails
  <2>1. CASE ~Full(rec)
    <3>1. Pay(1)
      BY <1>9, <2>1 DEF WriteFrameFails
    <3> QED BY <1>1, <3>1, PayFacts
  <2>2. CASE Full(rec)
    <3>1. \E flushed \in BOOLEAN : Rotation(flushed, FALSE)
      BY <1>9, <2>2 DEF WriteFrameFails
    <3> QED BY <3>1, RotationFacts
  <2> QED BY <2>1, <2>2
<1>10. CASE \E k \in 1..MaxPrunes : PruneStep(k)
  <2> PICK k \in 1..MaxPrunes : PruneStep(k)
    BY <1>10
  <2>1. UNCHANGED <<loop, channel, copies>>
    BY PruneFacts DEF Pruned
  <2>2. CASE rec' = rec
    BY <1>1, <2>1, <2>2 DEF Moves, Stays
  <2>3. CASE \E f \in 1..Len(rec.segs) : rec.segs[f].state # "open" /\ rec' = Removed(rec, f)
    BY <1>1, <2>1, <2>3 DEF Moves, Loses
  <2> QED BY <2>2, <2>3, PruneFacts
<1> QED BY <1>3, <1>4, <1>6, <1>7, <1>8, <1>9, <1>10 DEF RecorderNext, CopyBegin, CopySkips,
       CopyEnd, Return, PruneLists, Pruned, recorderVars

LEMMA NoFileFailedKept ==
  ASSUME Shape, NoFileFailed, [RecorderNext]_recorderVars
  PROVE  NoFileFailed'
<1> SUFFICES ASSUME fileErrors' = 0
             PROVE  Clean(rec') /\ (loop' # "exited" => rec'.handle # "closed")
  BY DEF NoFileFailed
<1>1. fileErrors = 0 /\ Moves
  BY StepMoves
<1>2. Writer(rec) /\ Clean(rec) /\ (loop # "exited" => rec.handle # "closed")
  BY <1>1 DEF NoFileFailed, Shape
<1>3. CASE Stays \/ \E i \in Interfaces : Record(i)
  BY <1>2, <1>3 DEF Stays, Record
<1>4. CASE Turned
  BY <1>4 DEF Turned
<1>5. CASE \E r : Written(r)
  <2> PICK r : Written(r)
    BY <1>5
  <2>1. Head(buffered) \in [n : 1..MaxFrames, iface : Interfaces]
    BY HeadFrame DEF Written
  <2> PICK fr \in [n : 1..MaxFrames, iface : Interfaces] : fr = Head(buffered)
    BY <2>1
  <2>2. Writer(r) /\ r.handle = "open" /\ Clean(r) /\ rec' = Added(r, fr)
    BY DEF Written
  <2>3. Clean(rec') /\ rec'.handle = r.handle
    BY <2>2, AddedFacts
  <2> QED BY <2>2, <2>3
<1>6. CASE \E f \in 1..Len(rec.segs) : Loses(f)
  <2> PICK f \in 1..Len(rec.segs) : Loses(f)
    BY <1>6
  <2>1. Clean(rec') /\ rec'.handle = rec.handle
    BY <1>2, RemovedFacts DEF Loses
  <2> QED BY <1>2, <2>1 DEF Loses
<1> QED BY <1>1, <1>3, <1>4, <1>5, <1>6 DEF Moves

LEMMA FramesOffered ==
  ASSUME NEW r, NEW T, NEW q \in Seq(T), NEW x \in T, NEW all, Frames(r, q, all),
         \A m \in all : m < x.n
  PROVE  Frames(r, Append(q, x), all \cup {x.n})
<1> DEFINE a == Append(q, x)
           l == Len(q)
<1>1. /\ l \in Nat /\ Len(a) = l + 1 /\ a[l + 1] = x
      /\ \A i \in 1..l : a[i] = q[i]
  BY AppendProperties, LenProperties
<1>2. \A i \in 1..l + 1 : i \in 1..l \/ i = l + 1
  BY <1>1
<1>3. \A i \in 1..l : i \in 1..l + 1
  BY <1>1
<1>4. l + 1 \in 1..l + 1
  BY <1>1
<1> HIDE DEF a
<1>5. \A m : (\E i \in 1..l + 1 : a[i].n = m) <=> m = x.n \/ \E i \in 1..l : q[i].n = m
  BY <1>1, <1>2, <1>3, <1>4
<1>6. \A m : m \in all \cup {x.n} <=> Has(r, m) \/ \E i \in 1..Len(a) : a[i].n = m
  BY <1>1, <1>5 DEF Frames
<1>7. InOrder(a)
  <2> SUFFICES ASSUME NEW i \in 1..l + 1, NEW j \in 1..l + 1, i < j PROVE a[i].n < a[j].n
    BY <1>1 DEF InOrder
  <2>1. i \in 1..l
    BY <1>1
  <2>2. q[i].n \in all
    BY <2>1 DEF Frames
  <2>3. CASE j = l + 1
    BY <1>1, <2>1, <2>2, <2>3
  <2>4. CASE j \in 1..l
    BY <1>1, <2>1, <2>4 DEF Frames, InOrder
  <2> QED BY <1>2, <2>3, <2>4
<1>8. \A m : Has(r, m) => \A i \in 1..Len(a) : m < a[i].n
  <2> SUFFICES ASSUME NEW m, Has(r, m), NEW i \in 1..l + 1 PROVE m < a[i].n
    BY <1>1
  <2>1. m \in all
    BY DEF Frames
  <2>2. CASE i = l + 1
    BY <1>1, <2>1, <2>2
  <2>3. CASE i \in 1..l
    BY <1>1, <2>3 DEF Frames
  <2> QED BY <1>2, <2>2, <2>3
<1>9. Frames(r, a, all \cup {x.n})
  BY <1>6, <1>7, <1>8 DEF Frames
<1> QED BY <1>9 DEF a

\* A step records the next frame, drops or queues a new one, or leaves them as they were.
LEMMA FramesKept ==
  ASSUME Shape, NoFileFailed, FramesOK, [RecorderNext]_recorderVars
  PROVE  FramesOK'
<1> SUFFICES ASSUME fileErrors' = 0
             PROVE  Frames(rec', buffered', (1..offered') \ dropped')
  BY DEF FramesOK
<1> DEFINE F == [n : 1..MaxFrames, iface : Interfaces]
           all == (1..offered) \ dropped
<1>1. fileErrors = 0 /\ Moves
  BY StepMoves
<1>2. /\ Writer(rec) /\ Frames(rec, buffered, all) /\ buffered \in Seq(F)
      /\ offered \in Nat /\ dropped \subseteq 1..offered
  BY <1>1, RecorderBounds DEF FramesOK, Shape, ChannelTypeOK
<1>3. CASE Stays
  BY <1>2, <1>3 DEF Stays, channel
<1>4. CASE Turned
  <2>1. Turns(rec, rec', "complete") /\ UNCHANGED <<buffered, offered, dropped>>
    BY <1>4 DEF Turned, channel
  <2> HIDE DEF all
  <2>2. Frames(rec', buffered, all)
    BY <1>2, <2>1, FramesTurned
  <2> QED BY <2>1, <2>2 DEF all
<1>5. CASE \E i \in Interfaces : Record(i)
  <2> PICK i \in Interfaces : Record(i)
    BY <1>5
  <2>1. offered' = offered + 1 /\ offered' \in 1..MaxFrames /\ rec' = rec
    BY <1>2, RecorderBounds DEF Record
  <2>2. CASE Len(buffered) < ChannelSize
    <3> DEFINE x == [n |-> offered', iface |-> i]
    <3>1. buffered' = Append(buffered, x) /\ dropped' = dropped
      BY <2>2 DEF Record
    <3>2. x \in F /\ x.n = offered + 1
      BY <2>1
    <3>3. \A m \in all : m < offered + 1
      BY <1>2
    <3>4. (1..offered') \ dropped' = all \cup {offered + 1}
      BY <1>2, <2>1, <3>1
    <3> HIDE DEF x, F, all
    <3>5. Frames(rec, Append(buffered, x), all \cup {x.n})
      BY <1>2, <3>2, <3>3, FramesOffered
    <3> QED BY <2>1, <3>1, <3>2, <3>4, <3>5
  <2>3. CASE ~(Len(buffered) < ChannelSize)
    <3>1. dropped' = dropped \cup {offered'} /\ buffered' = buffered
      BY <2>3 DEF Record
    <3>2. (1..offered') \ dropped' = all
      BY <1>2, <2>1, <3>1
    <3> QED BY <1>2, <2>1, <3>1, <3>2
  <2> QED BY <2>2, <2>3
<1>6. CASE \E r : Written(r)
  <2> PICK r : Written(r)
    BY <1>6
  <2>1. /\ Writer(r) /\ r.handle = "open" /\ buffered # <<>> /\ buffered' = Tail(buffered)
        /\ rec' = Added(r, Head(buffered)) /\ UNCHANGED <<offered, dropped>>
    BY DEF Written
  <2> HIDE DEF all
  <2>2. Frames(r, buffered, all)
    BY <1>2, FramesTurned DEF Written
  <2>3. Frames(Added(r, Head(buffered)), Tail(buffered), all)
    BY <1>2, <2>1, <2>2, FramesTaken
  <2> QED BY <2>1, <2>3 DEF all
<1>7. CASE \E f \in 1..Len(rec.segs) : Loses(f)
  <2> PICK f \in 1..Len(rec.segs) : Loses(f)
    BY <1>7
  <2>1. /\ rec.segs[f].state # "open" /\ rec' = Removed(rec, f)
        /\ UNCHANGED <<buffered, offered, dropped>>
    BY DEF Loses, channel
  <2> HIDE DEF all
  <2>2. Frames(Removed(rec, f), buffered, all)
    BY <1>2, <2>1, FramesRemoved
  <2> QED BY <2>1, <2>2 DEF all
<1> QED BY <1>1, <1>3, <1>4, <1>5, <1>6, <1>7 DEF Moves

\* What each step of a call does to it, and to the incident directory.
Alone(p) == /\ protector' \in [Protectors -> ProtectorType]
            /\ \A q \in Protectors : q # p => protector'[q] = protector[q]
Asked(p, files, saw) ==
  /\ Alone(p) /\ calls' \in Tags /\ calls' = calls + 1 /\ calls \in Nat
  /\ protector[p].at = "idle" /\ protector'[p].at = "copying"
  /\ protector'[p].files = files /\ protector'[p].saw = saw /\ protector'[p].out = {}
  /\ protector'[p].tag = IF SameTag THEN 0 ELSE calls'
  /\ incidents' = incidents /\ protected' = protected
LEMMA AskFacts ==
  ASSUME Shape, NEW p \in Protectors, NEW flushed, NEW opened, NEW files \in Seq(Segments),
         NEW saw \in SUBSET (1..MaxFrames), Asks(p, flushed, opened, files, saw)
  PROVE  Asked(p, files, saw)
<1> DEFINE v == [at |-> "copying", files |-> files,
                 tag |-> IF SameTag THEN 0 ELSE calls', out |-> {}, saw |-> saw]
<1>1. CopiesTypeOK /\ calls \in Nat
  BY RecorderBounds DEF Shape, CopiesTypeOK
<1>2. calls' \in Tags /\ calls' = calls + 1 /\ protector[p].at = "idle"
  BY <1>1, RecorderBounds DEF Asks, Tags
<1>3. v \in ProtectorType
  BY <1>2, RecorderBounds DEF ProtectorType, Tags
<1>4. protector' = [protector EXCEPT ![p] = v]
  BY DEF Asks
<1>5. /\ v.at = "copying" /\ v.files = files /\ v.saw = saw /\ v.out = {}
      /\ v.tag = IF SameTag THEN 0 ELSE calls'
  OBVIOUS
<1> HIDE DEF v
<1>6. Alone(p) /\ protector'[p] = v
  BY <1>1, <1>3, <1>4, ProtectorSet DEF Alone
<1> QED BY <1>1, <1>2, <1>5, <1>6 DEF Asks, Asked

LEMMA BeginFacts ==
  ASSUME Shape, NEW p \in Protectors, CopyBegin(p)
  PROVE  /\ Alone(p) /\ protector[p].at = "copying" /\ protector[p].files # <<>>
         /\ protector'[p].at = "writing" /\ protector'[p].files = protector[p].files
         /\ protector'[p].saw = protector[p].saw /\ protector'[p].out = protector[p].out
         /\ protector'[p].tag = protector[p].tag
         /\ rec.segs[Source(p)].state # "pruned"
         /\ incidents'[Target(p)].by = p /\ ~incidents'[Target(p)].done
         /\ incidents'[Target(p)].state = rec.segs[Source(p)].state
         /\ incidents'[Target(p)].state \in Outcomes
         /\ \A d \in Tags \X Segments : d # Target(p) => incidents'[d] = incidents[d]
         /\ UNCHANGED <<loop, channel, rec, prunes, protected, calls, fileErrors>>
<1> DEFINE v == [protector[p] EXCEPT !.at = "writing"]
           c == [by |-> p, done |-> FALSE, state |-> rec.segs[Source(p)].state]
<1>1. CopiesTypeOK /\ protector[p] \in ProtectorType /\ incidents \in [Tags \X Segments -> CopyType]
  BY DEF Shape, CopiesTypeOK
<1>2. /\ protector[p].at = "copying" /\ protector[p].files # <<>>
      /\ rec.segs[Source(p)].state # "pruned"
      /\ UNCHANGED <<loop, channel, rec, prunes, protected, calls, fileErrors>>
  BY DEF CopyBegin, Copying
<1>3. /\ v \in ProtectorType /\ v.at = "writing" /\ v.files = protector[p].files
      /\ v.saw = protector[p].saw /\ v.out = protector[p].out /\ v.tag = protector[p].tag
  BY <1>1 DEF ProtectorType
<1>4. protector' = [protector EXCEPT ![p] = v] /\ incidents' = [incidents EXCEPT ![Target(p)] = c]
  BY DEF CopyBegin
<1>5. Target(p) \in Tags \X Segments /\ Source(p) \in 1..Len(rec.segs)
  BY <1>2, CopyFacts
<1>6. rec.segs[Source(p)].state \in Outcomes
  BY <1>5, WriterFields DEF Shape
<1>7. /\ incidents'[Target(p)] = c
      /\ \A d \in Tags \X Segments : d # Target(p) => incidents'[d] = incidents[d]
  BY <1>1, <1>4, <1>5
<1>8. c.by = p /\ ~c.done /\ c.state = rec.segs[Source(p)].state
  OBVIOUS
<1> HIDE DEF v, c
<1>9. Alone(p) /\ protector'[p] = v
  BY <1>1, <1>3, <1>4, ProtectorSet DEF Alone
<1> QED BY <1>2, <1>3, <1>6, <1>7, <1>8, <1>9

LEMMA ContinuesFacts ==
  ASSUME Shape, NEW p \in Protectors, NEW out \in SUBSET (Tags \X Segments),
         protector[p].files # <<>>, NextFile(p, out)
  PROVE  /\ Alone(p) /\ protector'[p].at = "copying"
         /\ protector'[p].files = Tail(protector[p].files)
         /\ protector'[p].saw = protector[p].saw /\ protector'[p].out = out
         /\ protector'[p].tag = protector[p].tag
<1> DEFINE v == [protector[p] EXCEPT !.at = "copying", !.files = Tail(@), !.out = out]
<1>1. CopiesTypeOK /\ protector[p] \in ProtectorType
  BY DEF Shape, CopiesTypeOK
<1>2. Tail(protector[p].files) \in Seq(Segments)
  BY CopyFacts
<1>3. /\ v \in ProtectorType /\ v.at = "copying" /\ v.files = Tail(protector[p].files)
      /\ v.saw = protector[p].saw /\ v.out = out /\ v.tag = protector[p].tag
  BY <1>1, <1>2 DEF ProtectorType
<1>4. protector' = [protector EXCEPT ![p] = v]
  BY DEF NextFile
<1> HIDE DEF v
<1>5. Alone(p) /\ protector'[p] = v
  BY <1>1, <1>3, <1>4, ProtectorSet DEF Alone
<1> QED BY <1>3, <1>5

LEMMA SkipFacts ==
  ASSUME Shape, NEW p \in Protectors, CopySkips(p)
  PROVE  /\ Alone(p) /\ protector[p].at = "copying" /\ protector[p].files # <<>>
         /\ protector'[p].at = "copying" /\ protector'[p].files = Tail(protector[p].files)
         /\ protector'[p].saw = protector[p].saw /\ protector'[p].out = protector[p].out
         /\ protector'[p].tag = protector[p].tag
         /\ fileErrors' = 0 => rec.segs[Source(p)].state = "pruned"
         /\ UNCHANGED <<loop, channel, rec, prunes, incidents, protected, calls>>
<1>1. /\ protector[p].at = "copying" /\ protector[p].files # <<>>
      /\ NextFile(p, protector[p].out)
      /\ UNCHANGED <<loop, channel, rec, prunes, incidents, protected, calls>>
      /\ rec.segs[Source(p)].state # "pruned" => Pay(1)
  BY DEF CopySkips, Copying
<1>2. protector[p].out \in SUBSET (Tags \X Segments)
  BY DEF Shape, CopiesTypeOK, ProtectorType
<1>3. fileErrors \in Nat
  BY DEF Shape, ChannelTypeOK
<1>4. fileErrors' = 0 => rec.segs[Source(p)].state = "pruned"
  BY <1>1, <1>3 DEF Pay
<1> QED BY <1>1, <1>2, <1>4, ContinuesFacts

LEMMA EndFacts ==
  ASSUME Shape, NEW p \in Protectors, CopyEnd(p)
  PROVE  /\ Alone(p) /\ protector[p].at = "writing" /\ protector[p].files # <<>>
         /\ protector'[p].at = "copying" /\ protector'[p].files = Tail(protector[p].files)
         /\ protector'[p].saw = protector[p].saw /\ protector'[p].tag = protector[p].tag
         /\ \A d \in Tags \X Segments :
              /\ incidents'[d].state = incidents[d].state /\ incidents'[d].by = incidents[d].by
              /\ incidents[d].done => incidents'[d].done
         /\ \/ /\ protector'[p].out = protector[p].out \cup {Target(p)}
               /\ fileErrors' = fileErrors
               /\ incidents[Target(p)].by = p => incidents'[Target(p)].done
            \/ protector'[p].out = protector[p].out /\ fileErrors' = fileErrors + 1
         /\ UNCHANGED <<loop, channel, rec, prunes, protected, calls>>
<1>1. /\ protector[p].at = "writing" /\ protector[p].files # <<>>
      /\ UNCHANGED <<loop, channel, rec, prunes, protected, calls>>
  BY DEF CopyEnd, Copying
<1>2. /\ protector[p].out \in SUBSET (Tags \X Segments)
      /\ incidents \in [Tags \X Segments -> CopyType]
  BY DEF Shape, CopiesTypeOK, ProtectorType
<1>3. Target(p) \in Tags \X Segments
  BY <1>1, CopyFacts
<1>4. ASSUME NextFile(p, protector[p].out \cup {Target(p)}), fileErrors' = fileErrors,
             incidents' = [incidents EXCEPT ![Target(p)].done = @ \/ incidents[Target(p)].by = p]
      PROVE  /\ Alone(p) /\ protector'[p].at = "copying"
             /\ protector'[p].files = Tail(protector[p].files)
             /\ protector'[p].saw = protector[p].saw /\ protector'[p].tag = protector[p].tag
             /\ \A d \in Tags \X Segments :
                  /\ incidents'[d].state = incidents[d].state /\ incidents'[d].by = incidents[d].by
                  /\ incidents[d].done => incidents'[d].done
             /\ protector'[p].out = protector[p].out \cup {Target(p)}
             /\ incidents[Target(p)].by = p => incidents'[Target(p)].done
  <2>1. protector[p].out \cup {Target(p)} \in SUBSET (Tags \X Segments)
    BY <1>2, <1>3
  <2>2. \A d \in Tags \X Segments : incidents[d] \in CopyType
    BY <1>2
  <2>3. /\ \A d \in Tags \X Segments : d # Target(p) => incidents'[d] = incidents[d]
        /\ incidents'[Target(p)] = [incidents[Target(p)] EXCEPT
                                      !.done = incidents[Target(p)].done \/ incidents[Target(p)].by = p]
    BY <1>2, <1>3, <1>4
  <2>4. /\ incidents'[Target(p)].state = incidents[Target(p)].state
        /\ incidents'[Target(p)].by = incidents[Target(p)].by
        /\ incidents'[Target(p)].done = (incidents[Target(p)].done \/ incidents[Target(p)].by = p)
    BY <1>3, <2>2, <2>3 DEF CopyType
  <2> QED BY <1>1, <1>4, <2>1, <2>3, <2>4, ContinuesFacts
<1>5. ASSUME NextFile(p, protector[p].out), Pay(1), incidents' = incidents
      PROVE  /\ Alone(p) /\ protector'[p].at = "copying"
             /\ protector'[p].files = Tail(protector[p].files)
             /\ protector'[p].saw = protector[p].saw /\ protector'[p].tag = protector[p].tag
             /\ protector'[p].out = protector[p].out /\ fileErrors' = fileErrors + 1
  BY <1>1, <1>2, <1>5, ContinuesFacts DEF Pay
<1>6. \/ /\ NextFile(p, protector[p].out \cup {Target(p)}) /\ fileErrors' = fileErrors
         /\ incidents' = [incidents EXCEPT ![Target(p)].done = @ \/ incidents[Target(p)].by = p]
      \/ NextFile(p, protector[p].out) /\ Pay(1) /\ incidents' = incidents
  BY Zenon DEF CopyEnd
<1> QED BY <1>1, <1>4, <1>5, <1>6

LEMMA ReturnFacts ==
  ASSUME Shape, NEW p \in Protectors, Return(p)
  PROVE  /\ Alone(p) /\ protector[p].at = "copying" /\ protector[p].files = <<>>
         /\ protector'[p] = IdleProtector /\ protected' = protected \cup protector[p].out
         /\ UNCHANGED <<loop, channel, rec, prunes, incidents, calls, fileErrors>>
<1>1. IdleProtector \in ProtectorType
  BY EmptySeq, RecorderBounds DEF IdleProtector, ProtectorType, Tags
<1>2. CopiesTypeOK /\ protector' = [protector EXCEPT ![p] = IdleProtector]
  BY DEF Shape, Return
<1> QED BY <1>1, <1>2, ProtectorSet DEF Return, Alone

\* Every step is one of these, or leaves the calls and the incidents alone.
LEMMA CallSteps ==
  ASSUME Shape, [RecorderNext]_recorderVars
  PROVE  \/ UNCHANGED copies
         \/ \E p \in Protectors :
              \/ CopyBegin(p) \/ CopySkips(p) \/ CopyEnd(p) \/ Return(p)
              \/ \E flushed \in BOOLEAN, opened \in BOOLEAN, files \in Seq(Segments),
                    saw \in SUBSET (1..MaxFrames) : Asks(p, flushed, opened, files, saw)
<1>1. CASE \E p \in Protectors : Protect(p)
  BY <1>1, ProtectFacts
<1> QED BY <1>1 DEF RecorderNext, Record, StartRun, WriteFrame, WriteFrameFails, StopRun,
       PruneLists, PruneStep, Prune, Pruned, recorderVars

\* A call keeps its tag to itself, from the first file to the last.
LEMMA CallsApartKept ==
  ASSUME Shape, CallsApart, [RecorderNext]_recorderVars
  PROVE  CallsApart'
<1>0. /\ calls \in Nat /\ protector \in [Protectors -> ProtectorType]
      /\ protected \subseteq Tags \X Segments
  BY RecorderBounds DEF Shape, CopiesTypeOK
<1>1. CASE UNCHANGED copies
  BY <1>1 DEF copies, CallsApart
<1>2. ASSUME NEW p \in Protectors, Alone(p), protector'[p].tag = protector[p].tag,
             protector[p].at # "idle", UNCHANGED <<protected, calls>>,
             \A d \in protector'[p].out : d[1] = protector[p].tag
      PROVE  CallsApart'
  <2>1. \A q \in Protectors : /\ protector'[q].tag = protector[q].tag
                              /\ protector'[q].at # "idle" => protector[q].at # "idle"
                              /\ q # p => protector'[q] = protector[q]
    BY <1>2 DEF Alone
  <2>2. \A q \in Protectors : \A d \in protector'[q].out : d[1] = protector'[q].tag
    BY <1>2, <2>1 DEF CallsApart
  <2>3. ASSUME ~SameTag, NEW q \in Protectors, protector'[q].at # "idle"
        PROVE  /\ protector'[q].tag \in 1..calls'
               /\ \A r \in Protectors : r # q /\ protector'[r].at # "idle" =>
                    protector'[q].tag # protector'[r].tag
               /\ \A d \in protected' : d[1] # protector'[q].tag
    BY <1>2, <2>1, <2>3 DEF CallsApart
  <2>4. ~SameTag => \A d \in protected' : d[1] \in 1..calls'
    BY <1>2 DEF CallsApart
  <2> QED BY <2>2, <2>3, <2>4 DEF CallsApart
<1>3. ASSUME NEW p \in Protectors, CopyBegin(p) PROVE CallsApart'
  <2>1. /\ Alone(p) /\ protector'[p].tag = protector[p].tag /\ protector[p].at # "idle"
        /\ protector'[p].out = protector[p].out /\ UNCHANGED <<protected, calls>>
    BY <1>3, BeginFacts
  <2> QED BY <1>2, <2>1 DEF CallsApart
<1>4. ASSUME NEW p \in Protectors, CopySkips(p) PROVE CallsApart'
  <2>1. /\ Alone(p) /\ protector'[p].tag = protector[p].tag /\ protector[p].at # "idle"
        /\ protector'[p].out = protector[p].out /\ UNCHANGED <<protected, calls>>
    BY <1>4, SkipFacts
  <2> QED BY <1>2, <2>1 DEF CallsApart
<1>5. ASSUME NEW p \in Protectors, CopyEnd(p) PROVE CallsApart'
  <2>1. /\ Alone(p) /\ protector'[p].tag = protector[p].tag /\ protector[p].at # "idle"
        /\ UNCHANGED <<protected, calls>> /\ protector[p].files # <<>>
        /\ protector'[p].out \in {protector[p].out, protector[p].out \cup {Target(p)}}
    BY <1>5, EndFacts
  <2>2. Target(p)[1] = protector[p].tag
    BY <2>1, CopyFacts
  <2>3. \A d \in protector'[p].out : d[1] = protector[p].tag
    BY <2>1, <2>2 DEF CallsApart
  <2> QED BY <1>2, <2>1, <2>3
<1>6. ASSUME NEW p \in Protectors, Return(p) PROVE CallsApart'
  <2>1. /\ Alone(p) /\ protector[p].at # "idle" /\ protector'[p] = IdleProtector
        /\ protected' = protected \cup protector[p].out /\ calls' = calls
    BY <1>6, ReturnFacts
  <2>2. IdleProtector.at = "idle" /\ IdleProtector.out = {}
    BY DEF IdleProtector
  <2>3. \A q \in Protectors : q # p => protector'[q] = protector[q]
    BY <2>1 DEF Alone
  <2>4. \A q \in Protectors : \A d \in protector'[q].out : d[1] = protector'[q].tag
    BY <2>1, <2>2, <2>3 DEF CallsApart
  <2>5. ASSUME ~SameTag, NEW q \in Protectors, protector'[q].at # "idle"
        PROVE  /\ protector'[q].tag \in 1..calls'
               /\ \A r \in Protectors : r # q /\ protector'[r].at # "idle" =>
                    protector'[q].tag # protector'[r].tag
               /\ \A d \in protected' : d[1] # protector'[q].tag
    <3>1. q # p /\ protector'[q] = protector[q] /\ protector[q].at # "idle"
      BY <2>1, <2>2, <2>3, <2>5
    <3>2. /\ protector[q].tag \in 1..calls /\ protector[q].tag # protector[p].tag
          /\ \A d \in protected : d[1] # protector[q].tag
      BY <2>1, <2>5, <3>1 DEF CallsApart
    <3>3. \A d \in protector[p].out : d[1] = protector[p].tag
      BY DEF CallsApart
    <3>4. \A d \in protected' : d[1] # protector[q].tag
      BY <2>1, <3>2, <3>3
    <3>5. \A r \in Protectors : r # q /\ protector'[r].at # "idle" =>
            protector[q].tag # protector'[r].tag
      BY <2>1, <2>2, <2>3, <2>5, <3>1 DEF CallsApart
    <3> QED BY <2>1, <3>1, <3>2, <3>4, <3>5
  <2>6. ~SameTag => \A d \in protected' : d[1] \in 1..calls'
    <3> HAVE ~SameTag
    <3>1. protector[p].tag \in 1..calls /\ \A d \in protected : d[1] \in 1..calls
      BY <2>1 DEF CallsApart
    <3>2. \A d \in protector[p].out : d[1] = protector[p].tag
      BY DEF CallsApart
    <3> QED BY <2>1, <3>1, <3>2
  <2> QED BY <2>4, <2>5, <2>6 DEF CallsApart
<1>7. ASSUME NEW p \in Protectors, NEW flushed \in BOOLEAN, NEW opened \in BOOLEAN,
             NEW files \in Seq(Segments), NEW saw \in SUBSET (1..MaxFrames),
             Asks(p, flushed, opened, files, saw)
      PROVE  CallsApart'
  <2>1. /\ Alone(p) /\ calls' = calls + 1 /\ protector'[p].out = {}
        /\ protector'[p].tag = (IF SameTag THEN 0 ELSE calls') /\ protected' = protected
    <3>1. Asked(p, files, saw)
      BY <1>7, AskFacts
    <3> QED BY <3>1 DEF Asked
  <2>2. \A q \in Protectors : q # p => protector'[q] = protector[q]
    BY <2>1 DEF Alone
  <2>3. \A q \in Protectors : \A d \in protector'[q].out : d[1] = protector'[q].tag
    BY <2>1, <2>2 DEF CallsApart
  <2>4. ASSUME ~SameTag, NEW q \in Protectors, protector'[q].at # "idle"
        PROVE  /\ protector'[q].tag \in 1..calls'
               /\ \A r \in Protectors : r # q /\ protector'[r].at # "idle" =>
                    protector'[q].tag # protector'[r].tag
               /\ \A d \in protected' : d[1] # protector'[q].tag
    <3>1. /\ \A d \in protected : d[1] \in 1..calls
          /\ \A r \in Protectors : protector[r].at # "idle" =>
               /\ protector[r].tag \in 1..calls
               /\ \A d \in protected : d[1] # protector[r].tag
               /\ \A o \in Protectors : o # r /\ protector[o].at # "idle" =>
                    protector[r].tag # protector[o].tag
      BY <2>4 DEF CallsApart
    <3>2. calls' \in 1..calls' /\ calls' \notin 1..calls /\ 1..calls \subseteq 1..calls'
      BY <1>0, <2>1
    <3>3. protector'[p].tag = calls'
      BY <2>1, <2>4
    <3>4. CASE q = p
      <4>1. \A r \in Protectors : r # q /\ protector'[r].at # "idle" =>
              protector'[q].tag # protector'[r].tag
        BY <2>2, <3>1, <3>2, <3>3, <3>4
      <4> QED BY <2>1, <3>1, <3>2, <3>3, <3>4, <4>1
    <3>5. CASE q # p
      <4>1. protector'[q] = protector[q] /\ protector[q].at # "idle"
        BY <2>2, <2>4, <3>5
      <4>2. protector[q].tag \in 1..calls
        BY <3>1, <4>1
      <4>3. \A r \in Protectors : r # q /\ protector'[r].at # "idle" =>
              protector'[q].tag # protector'[r].tag
        BY <2>2, <3>1, <3>2, <3>3, <4>1, <4>2
      <4> QED BY <2>1, <3>1, <3>2, <4>1, <4>2, <4>3
    <3> QED BY <3>4, <3>5
  <2>5. ~SameTag => \A d \in protected' : d[1] \in 1..calls'
    BY <1>0, <2>1 DEF CallsApart
  <2> QED BY <2>3, <2>4, <2>5 DEF CallsApart
<1> QED BY <1>1, <1>3, <1>4, <1>5, <1>6, <1>7, CallSteps

LEMMA TailRises ==
  ASSUME NEW list \in Seq(Segments), list # <<>>, Rising(list)
  PROVE  Rising(Tail(list)) /\ \A i \in 1..Len(Tail(list)) : list[1] < Tail(list)[i]
<1>1. /\ Len(Tail(list)) = Len(list) - 1 /\ Len(list) \in Nat \ {0}
      /\ \A i \in 1..Len(Tail(list)) : Tail(list)[i] = list[i + 1]
  BY EmptySeq, HeadTailProperties, LenProperties
<1>2. \A i \in 1..Len(Tail(list)) : i + 1 \in 1..Len(list) /\ 1 < i + 1
  BY <1>1
<1>3. 1 \in 1..Len(list)
  BY <1>1
<1>4. \A i \in 1..Len(Tail(list)) : list[1] < Tail(list)[i]
  BY <1>1, <1>2, <1>3 DEF Rising
<1>5. \A i, j \in 1..Len(Tail(list)) : i < j => i + 1 < j + 1
  BY <1>1
<1>6. Rising(Tail(list))
  BY <1>1, <1>2, <1>5 DEF Rising
<1> QED BY <1>4, <1>6

\* Until a file fails a call copies each of its segments once, oldest first.
LEMMA CopiesOnceKept ==
  ASSUME Shape, NoFileFailed, CopiesOnce, [RecorderNext]_recorderVars
  PROVE  CopiesOnce'
<1> SUFFICES ASSUME fileErrors' = 0, NEW q \in Protectors
             PROVE  /\ Rising(protector'[q].files)
                    /\ \A d \in protector'[q].out, i \in 1..Len(protector'[q].files) :
                         d[2] < protector'[q].files[i]
  BY DEF CopiesOnce
<1>0. fileErrors = 0 /\ Clean(rec')
  BY NoFileFailedKept, StepMoves DEF NoFileFailed
<1> DEFINE Once(c) == /\ Rising(c.files)
                      /\ \A d \in c.out, i \in 1..Len(c.files) : d[2] < c.files[i]
<1>1. \A p \in Protectors : Once(protector[p])
  BY <1>0 DEF CopiesOnce
<1>2. CASE UNCHANGED copies
  BY <1>1, <1>2 DEF copies
<1>3. ASSUME NEW p \in Protectors, Alone(p), Once(protector'[p]) PROVE Once(protector'[q])
  BY <1>1, <1>3 DEF Alone
<1>4. ASSUME NEW p \in Protectors, CopyBegin(p) PROVE Once(protector'[q])
  BY <1>1, <1>3, <1>4, BeginFacts
<1>5. ASSUME NEW p \in Protectors, protector[p].files # <<>>
      PROVE  /\ Rising(Tail(protector[p].files))
             /\ \A d \in protector[p].out, i \in 1..Len(Tail(protector[p].files)) :
                  d[2] < Tail(protector[p].files)[i]
             /\ \A i \in 1..Len(Tail(protector[p].files)) :
                  Target(p)[2] < Tail(protector[p].files)[i]
  <2> PICK files \in Seq(Segments) : files = protector[p].files
    BY DEF Shape, CopiesTypeOK, ProtectorType
  <2>1. /\ Len(Tail(files)) = Len(files) - 1 /\ Len(files) \in Nat \ {0}
        /\ \A i \in 1..Len(Tail(files)) : Tail(files)[i] = files[i + 1]
        /\ Target(p)[2] = files[1]
    BY <1>5, CopyFacts
  <2>2. Rising(Tail(files)) /\ \A i \in 1..Len(Tail(files)) : files[1] < Tail(files)[i]
    BY <1>1, <1>5, TailRises
  <2>3. \A i \in 1..Len(Tail(files)) : i + 1 \in 1..Len(files)
    BY <2>1
  <2>4. \A d \in protector[p].out, i \in 1..Len(Tail(files)) : d[2] < Tail(files)[i]
    BY <1>1, <2>1, <2>3
  <2> QED BY <2>1, <2>2, <2>4
<1>6. ASSUME NEW p \in Protectors, CopySkips(p) PROVE Once(protector'[q])
  <2>1. /\ Alone(p) /\ protector[p].files # <<>> /\ protector'[p].out = protector[p].out
        /\ protector'[p].files = Tail(protector[p].files)
    BY <1>6, SkipFacts
  <2>2. Once(protector'[p])
    BY <1>5, <2>1
  <2> QED BY <1>3, <2>1, <2>2
<1>7. ASSUME NEW p \in Protectors, CopyEnd(p) PROVE Once(protector'[q])
  <2>1. /\ Alone(p) /\ protector[p].files # <<>>
        /\ protector'[p].out \subseteq protector[p].out \cup {Target(p)}
        /\ protector'[p].files = Tail(protector[p].files)
    BY <1>7, EndFacts
  <2>2. Once(protector'[p])
    BY <1>5, <2>1
  <2> QED BY <1>3, <2>1, <2>2
<1>8. ASSUME NEW p \in Protectors, Return(p) PROVE Once(protector'[q])
  <2>1. Alone(p) /\ protector'[p] = IdleProtector
    BY <1>8, ReturnFacts
  <2>2. Len(<<>>) = 0
    BY EmptySeq
  <2>3. Once(protector'[p])
    BY <2>1, <2>2 DEF IdleProtector, Rising
  <2> QED BY <1>3, <2>1, <2>3
<1>9. ASSUME NEW p \in Protectors, NEW flushed \in BOOLEAN, NEW opened \in BOOLEAN,
             NEW files \in Seq(Segments), NEW saw \in SUBSET (1..MaxFrames),
             Asks(p, flushed, opened, files, saw)
      PROVE  Once(protector'[q])
  <2>1. Alone(p) /\ protector'[p].files = files /\ protector'[p].out = {}
    <3>1. Asked(p, files, saw)
      BY <1>9, AskFacts
    <3> QED BY <3>1 DEF Asked
  <2>2. Rising(files)
    <3> PICK recent \in Seq(Segments) : recent = rec'.recent
      BY ShapeKept, WriterFields DEF Shape
    <3>1. Rising(recent) /\ files = LastN(recent, 2)
      BY <1>0, <1>9 DEF Clean, Asks
    <3>2. Segments \subseteq Int
      BY RecorderBounds DEF Segments
    <3>3. recent \in Seq(Int)
      BY <3>2, SeqMonotonic
    <3>4. 2 \in Nat \ {0}
      OBVIOUS
    <3> QED BY <3>1, <3>3, <3>4, LastRises
  <2>3. Once(protector'[p])
    BY <2>1, <2>2
  <2> QED BY <1>3, <2>1, <2>3
<1> QED BY <1>2, <1>4, <1>6, <1>7, <1>8, <1>9, CallSteps

LEMMA StillClosed ==
  ASSUME Shape, [RecorderNext]_recorderVars, NEW s \in 1..Len(rec.segs), rec.segs[s].state # "open"
  PROVE  /\ s \in 1..Len(rec'.segs) /\ rec'.segs[s].state # "open"
         /\ rec.segs[s].state = "pruned" => rec'.segs[s].state = "pruned"
<1>1. Grows(rec, rec') /\ Writer(rec) /\ Writer(rec')
  BY RecordMoves DEF Grows, Shape
<1>2. Len(rec.segs) \in Nat /\ Len(rec'.segs) \in Nat /\ Len(rec.segs) <= Len(rec'.segs)
  BY <1>1, WriterFields DEF Grows
<1> QED BY <1>1, <1>2 DEF Grows

\* The types of a call, and the segments it names.
LEMMA CallTypes ==
  ASSUME Shape, NEW p \in Protectors
  PROVE  /\ protector[p] \in ProtectorType /\ protector[p].files \in Seq(Segments)
         /\ protector[p].out \subseteq Tags \X Segments
         /\ \A i \in 1..Len(protector[p].files) : protector[p].files[i] \in 1..Len(rec.segs)
<1>1. /\ protector[p] \in ProtectorType /\ protector[p].files \in Seq(Segments)
      /\ protector[p].out \subseteq Tags \X Segments
      /\ ToSet(protector[p].files) \subseteq 1..Len(rec.segs)
  BY DEF Shape, CopiesTypeOK, ProtectorType
<1>2. DOMAIN protector[p].files = 1..Len(protector[p].files)
  BY <1>1, LenProperties
<1> QED BY <1>1, <1>2 DEF ToSet

LEMMA FewErrors ==
  ASSUME Shape, [RecorderNext]_recorderVars
  PROVE  /\ fileErrors \in Nat /\ fileErrors' \in Nat /\ fileErrors' >= fileErrors
         /\ fileErrors' <= 1 => fileErrors <= 1
BY RecordMoves, RecorderBounds DEF Shape, ChannelTypeOK

\* A call that does not move keeps its files and copies while those that move write
\* the copies of other tags.
LEMMA OthersKept ==
  ASSUME Shape, CallsApart, CallsOK, [RecorderNext]_recorderVars, NEW q \in Protectors,
         protector'[q] = protector[q],
         \A d \in Tags \X Segments : incidents[d].state # "none" => incidents'[d].state # "none",
         ~SameTag /\ protector[q].at # "idle" =>
           \A d \in Tags \X Segments : d[1] = protector[q].tag =>
             /\ incidents'[d].by = incidents[d].by
             /\ incidents[d].done => incidents'[d].done
  PROVE  CallOK(q)'
<1>1. CallOK(q)
  BY DEF CallsOK
<1>2. /\ protector[q].out \subseteq Tags \X Segments
      /\ \A i \in 1..Len(protector[q].files) : protector[q].files[i] \in 1..Len(rec.segs)
  BY CallTypes
<1>3. \A i \in 1..Len(protector[q].files) : rec'.segs[protector[q].files[i]].state # "open"
  BY <1>1, <1>2, StillClosed DEF CallOK
<1>4. Target(q)' = Target(q)
  BY DEF Target, Source
<1>5. protector[q].at = "writing" =>
        /\ protector[q].files # <<>> /\ Target(q) \in Tags \X Segments
        /\ Target(q)[1] = protector[q].tag
  BY <1>1, CopyFacts DEF CallOK
<1>6. protector[q].at = "writing" =>
        /\ incidents'[Target(q)].state # "none"
        /\ ~SameTag => incidents'[Target(q)].by = q
  BY <1>1, <1>5 DEF CallOK
<1>7. protector[q].at = "idle" => protector[q].out = {}
  BY <1>1 DEF CallOK
<1>8. ASSUME NEW d \in protector[q].out
      PROVE  /\ incidents'[d].state # "none"
             /\ ~SameTag /\ fileErrors' <= 1 => incidents'[d].done \/ Rewriting(q, d)
  <2>1. d \in Tags \X Segments /\ d[1] = protector[q].tag /\ protector[q].at # "idle"
    BY <1>2, <1>7 DEF CallsApart
  <2>2. /\ incidents[d].state # "none"
        /\ ~SameTag /\ fileErrors' <= 1 => incidents[d].done \/ Rewriting(q, d)
    BY <1>1, FewErrors DEF CallOK
  <2> QED BY <2>1, <2>2
<1>9. \A d : Rewriting(q, d)' <=> Rewriting(q, d)
  BY <1>4 DEF Rewriting
<1> QED BY <1>1, <1>3, <1>4, <1>5, <1>6, <1>7, <1>8, <1>9 DEF CallOK

LEMMA CallsOKKept ==
  ASSUME Shape, NoFileFailed, CallsApart, CopiesOnce, CallsOK, [RecorderNext]_recorderVars
  PROVE  CallsOK'
<1> SUFFICES ASSUME NEW q \in Protectors PROVE CallOK(q)'
  BY DEF CallsOK
<1>1. CASE UNCHANGED copies
  BY <1>1, OthersKept DEF copies
<1>2. ASSUME NEW p \in Protectors, Alone(p), incidents' = incidents, CallOK(p)' PROVE CallOK(q)'
  BY <1>2, OthersKept DEF Alone
<1>3. \A p \in Protectors : CallOK(p)
  BY DEF CallsOK
<1>4. ASSUME NEW p \in Protectors, protector[p].files # <<>>
      PROVE  /\ Len(Tail(protector[p].files)) \in Nat
             /\ \A i \in 1..Len(Tail(protector[p].files)) :
                  rec'.segs[Tail(protector[p].files)[i]].state # "open"
  <2> PICK files \in Seq(Segments) : files = protector[p].files
    BY CallTypes
  <2>1. /\ Len(Tail(files)) = Len(files) - 1 /\ Len(files) \in Nat \ {0}
        /\ \A i \in 1..Len(Tail(files)) : Tail(files)[i] = files[i + 1]
        /\ \A i \in 1..Len(files) : files[i] \in 1..Len(rec.segs)
    BY <1>4, CopyFacts
  <2>2. \A i \in 1..Len(Tail(files)) : i + 1 \in 1..Len(files)
    BY <2>1
  <2>3. \A i \in 1..Len(files) : rec'.segs[files[i]].state # "open"
    BY <1>3, <2>1, StillClosed DEF CallOK
  <2> QED BY <2>1, <2>2, <2>3
<1>5. ASSUME NEW p \in Protectors, CopyBegin(p) PROVE CallOK(q)'
  <2>1. /\ Alone(p) /\ protector[p].at = "copying" /\ protector[p].files # <<>>
        /\ protector'[p].at = "writing" /\ protector'[p].files = protector[p].files
        /\ protector'[p].out = protector[p].out /\ protector'[p].tag = protector[p].tag
        /\ incidents'[Target(p)].by = p /\ incidents'[Target(p)].state \in Outcomes
        /\ \A d \in Tags \X Segments : d # Target(p) => incidents'[d] = incidents[d]
        /\ rec' = rec /\ fileErrors' = fileErrors
    BY <1>5, BeginFacts
  <2>2. Target(p) \in Tags \X Segments /\ Target(p)[1] = protector[p].tag
    BY <2>1, CopyFacts
  <2>3. incidents'[Target(p)].state # "none"
    BY <2>1 DEF Outcomes
  <2>4. CASE q # p
    <3>1. protector'[q] = protector[q]
      BY <2>1, <2>4 DEF Alone
    <3>2. \A d \in Tags \X Segments : incidents[d].state # "none" => incidents'[d].state # "none"
      BY <2>1, <2>3
    <3>3. ~SameTag /\ protector[q].at # "idle" => protector[q].tag # protector[p].tag
      BY <2>1, <2>4 DEF CallsApart
    <3>4. ~SameTag /\ protector[q].at # "idle" =>
            \A d \in Tags \X Segments : d[1] = protector[q].tag => incidents'[d] = incidents[d]
      BY <2>1, <2>2, <3>3
    <3> QED BY <3>1, <3>2, <3>4, OthersKept
  <2>5. CASE q = p
    <3>1. Target(p)' = Target(p)
      BY <2>1 DEF Target, Source
    <3>2. CallOK(p) /\ protector[p].out \subseteq Tags \X Segments
      BY <1>3, CallTypes
    <3>3. ASSUME NEW d \in protector[p].out
          PROVE  /\ incidents'[d].state # "none"
                 /\ ~SameTag /\ fileErrors' <= 1 => incidents'[d].done \/ Rewriting(p, d)'
      <4>1. CASE d = Target(p)
        BY <2>1, <2>3, <3>1, <4>1 DEF Rewriting
      <4>2. CASE d # Target(p)
        BY <2>1, <3>2, <4>2 DEF CallOK, Rewriting
      <4> QED BY <4>1, <4>2
    <3>4. /\ protector'[p].at = "writing" /\ protector'[p].files # <<>>
          /\ \A i \in 1..Len(protector'[p].files) : rec'.segs[protector'[p].files[i]].state # "open"
          /\ incidents'[Target(p)'].state # "none" /\ incidents'[Target(p)'].by = p
          /\ protector'[p].out = protector[p].out
      BY <2>1, <2>3, <3>1, <3>2 DEF CallOK
    <3> QED BY <2>5, <3>3, <3>4 DEF CallOK
  <2> QED BY <2>4, <2>5
<1>6. ASSUME NEW p \in Protectors, CopySkips(p) PROVE CallOK(q)'
  <2>1. /\ Alone(p) /\ protector[p].at = "copying" /\ protector[p].files # <<>>
        /\ protector'[p].at = "copying" /\ protector'[p].files = Tail(protector[p].files)
        /\ protector'[p].out = protector[p].out /\ incidents' = incidents
    BY <1>6, SkipFacts
  <2>2. \A d \in protector[p].out :
          /\ incidents[d].state # "none"
          /\ ~SameTag /\ fileErrors' <= 1 => incidents[d].done
    BY <1>3, <2>1, FewErrors DEF CallOK, Rewriting
  <2>3. CallOK(p)'
    BY <1>4, <2>1, <2>2 DEF CallOK
  <2> QED BY <1>2, <2>1, <2>3
<1>7. ASSUME NEW p \in Protectors, CopyEnd(p) PROVE CallOK(q)'
  <2>1. /\ Alone(p) /\ protector[p].at = "writing" /\ protector[p].files # <<>>
        /\ protector'[p].at = "copying" /\ protector'[p].files = Tail(protector[p].files)
        /\ \A d \in Tags \X Segments :
             /\ incidents'[d].state = incidents[d].state /\ incidents'[d].by = incidents[d].by
             /\ incidents[d].done => incidents'[d].done
        /\ \/ /\ protector'[p].out = protector[p].out \cup {Target(p)}
              /\ fileErrors' = fileErrors
              /\ incidents[Target(p)].by = p => incidents'[Target(p)].done
           \/ protector'[p].out = protector[p].out /\ fileErrors' = fileErrors + 1
    BY <1>7, EndFacts
  <2>2. /\ Target(p) \in Tags \X Segments /\ Target(p)[2] = protector[p].files[1]
        /\ protector[p].out \subseteq Tags \X Segments
        /\ Len(protector[p].files) \in Nat \ {0} /\ protector[p].files[1] \in 1..Len(rec.segs)
    BY <2>1, CopyFacts, CallTypes
  <2>3. CASE q # p
    BY <2>1, <2>3, OthersKept DEF Alone
  <2>4. ASSUME NEW d \in protector'[p].out
        PROVE  /\ incidents'[d].state # "none"
               /\ ~SameTag /\ fileErrors' <= 1 => incidents'[d].done
    <3>1. incidents[Target(p)].state # "none" /\ (~SameTag => incidents[Target(p)].by = p)
      BY <1>3, <2>1 DEF CallOK
    <3>2. CASE d # Target(p)
      <4>1. d \in protector[p].out /\ ~Rewriting(p, d)
        BY <2>1, <2>4, <3>2 DEF Rewriting
      <4>2. /\ incidents[d].state # "none"
            /\ ~SameTag /\ fileErrors' <= 1 => incidents[d].done
        BY <1>3, <4>1, FewErrors DEF CallOK
      <4> QED BY <2>1, <2>2, <4>1, <4>2
    <3>3. CASE d = Target(p) /\ d \notin protector[p].out
      BY <2>1, <2>2, <2>4, <3>1, <3>3
    <3>4. CASE d = Target(p) /\ d \in protector[p].out
      <4>1. 1 \in 1..Len(protector[p].files)
        BY <2>2
      <4>2. fileErrors = 0 => d[2] < protector[p].files[1]
        BY <3>4, <4>1 DEF CopiesOnce
      <4>3. fileErrors # 0
        BY <2>2, <3>4, <4>2
      <4>4. fileErrors' = fileErrors + 1 => ~(fileErrors' <= 1)
        BY <4>3, FewErrors
      <4> QED BY <2>1, <2>2, <3>1, <3>4, <4>4
    <3> QED BY <3>2, <3>3, <3>4
  <2>5. CallOK(p)'
    BY <1>4, <2>1, <2>4 DEF CallOK
  <2> QED BY <2>3, <2>5
<1>8. ASSUME NEW p \in Protectors, Return(p) PROVE CallOK(q)'
  <2>1. Alone(p) /\ protector'[p] = IdleProtector /\ incidents' = incidents
    BY <1>8, ReturnFacts
  <2>2. /\ IdleProtector.at = "idle" /\ IdleProtector.out = {} /\ IdleProtector.files = <<>>
        /\ Len(<<>>) = 0
    BY EmptySeq DEF IdleProtector
  <2>3. CallOK(p)'
    BY <2>1, <2>2 DEF CallOK
  <2> QED BY <1>2, <2>1, <2>3
<1>9. ASSUME NEW p \in Protectors, NEW flushed \in BOOLEAN, NEW opened \in BOOLEAN,
             NEW files \in Seq(Segments), NEW saw \in SUBSET (1..MaxFrames),
             Asks(p, flushed, opened, files, saw)
      PROVE  CallOK(q)'
  <2>1. Asked(p, files, saw)
    BY <1>9, AskFacts
  <2>2. \A i \in 1..Len(files) : rec'.segs[files[i]].state # "open"
    BY <1>9 DEF Asks
  <2>3. CallOK(p)'
    BY <2>1, <2>2 DEF CallOK, Asked
  <2> QED BY <1>2, <2>1, <2>3 DEF Asked
<1> QED BY <1>1, <1>5, <1>6, <1>7, <1>8, <1>9, CallSteps

\* What is copied is whole, and what a call has returned is not written again.
LEMMA CopiesOKKept ==
  ASSUME Shape, NoFileFailed, CallsApart, CallsOK, CopiesOK, [RecorderNext]_recorderVars
  PROVE  CopiesOK'
<1>1. /\ fileErrors' = 0 => fileErrors = 0
      /\ fileErrors' <= 1 => fileErrors <= 1
  BY FewErrors
<1>2. protected \subseteq Tags \X Segments
  BY DEF Shape, CopiesTypeOK
<1>3. CASE UNCHANGED <<incidents, protected>>
  BY <1>1, <1>3 DEF CopiesOK
<1>4. ASSUME NEW p \in Protectors, CopyBegin(p) PROVE CopiesOK'
  <2>1. /\ protector[p].at = "copying" /\ protector[p].files # <<>>
        /\ rec.segs[Source(p)].state # "pruned"
        /\ incidents'[Target(p)].state = rec.segs[Source(p)].state
        /\ incidents'[Target(p)].state \in Outcomes
        /\ \A d \in Tags \X Segments : d # Target(p) => incidents'[d] = incidents[d]
        /\ protected' = protected
    BY <1>4, BeginFacts
  <2>2. /\ Target(p)[1] = protector[p].tag /\ Source(p) = protector[p].files[1]
        /\ Source(p) \in 1..Len(rec.segs) /\ Len(protector[p].files) \in Nat \ {0}
    BY <2>1, CopyFacts
  <2>3. rec.segs[Source(p)].state # "open"
    <3>1. CallOK(p) /\ 1 \in 1..Len(protector[p].files)
      BY <2>2 DEF CallsOK
    <3> QED BY <2>2, <3>1 DEF CallOK
  <2>4. fileErrors = 0 => incidents'[Target(p)].state = "complete"
    <3>1. fileErrors = 0 => rec.segs[Source(p)].state # "cut"
      BY <2>2 DEF NoFileFailed, Clean
    <3> QED BY <2>1, <2>3, <3>1 DEF Outcomes
  <2>5. fileErrors' = 0 => \A d \in Tags \X Segments : incidents'[d].state \in {"none", "complete"}
    BY <1>1, <2>1, <2>4 DEF CopiesOK
  <2>6. ~SameTag => \A d \in protected : d # Target(p)
    BY <2>1, <2>2 DEF CallsApart
  <2>7. \A d \in protected : /\ incidents'[d].state # "none"
                             /\ ~SameTag /\ fileErrors' <= 1 => incidents'[d].done
    BY <1>1, <1>2, <2>1, <2>6 DEF CopiesOK, Outcomes
  <2> QED BY <2>1, <2>5, <2>7 DEF CopiesOK
<1>5. ASSUME NEW p \in Protectors, CopyEnd(p) PROVE CopiesOK'
  <2>1. /\ \A d \in Tags \X Segments :
             /\ incidents'[d].state = incidents[d].state
             /\ incidents[d].done => incidents'[d].done
        /\ protected' = protected
    BY <1>5, EndFacts
  <2> QED BY <1>1, <1>2, <2>1 DEF CopiesOK
<1>6. ASSUME NEW p \in Protectors, Return(p) PROVE CopiesOK'
  <2>1. /\ protector[p].at = "copying" /\ protected' = protected \cup protector[p].out
        /\ incidents' = incidents
    BY <1>6, ReturnFacts
  <2>2. \A d \in protector[p].out :
          /\ incidents[d].state # "none"
          /\ ~SameTag /\ fileErrors' <= 1 => incidents[d].done
    BY <1>1, <2>1 DEF CallsOK, CallOK, Rewriting
  <2> QED BY <1>1, <2>1, <2>2 DEF CopiesOK
<1>7. ASSUME NEW p \in Protectors, NEW flushed \in BOOLEAN, NEW opened \in BOOLEAN,
             NEW files \in Seq(Segments), NEW saw \in SUBSET (1..MaxFrames),
             Asks(p, flushed, opened, files, saw)
      PROVE  CopiesOK'
  <2>1. Asked(p, files, saw)
    BY <1>7, AskFacts
  <2> QED BY <1>3, <2>1 DEF Asked
<1>8. ASSUME NEW p \in Protectors, CopySkips(p) PROVE CopiesOK'
  BY <1>3, <1>8, SkipFacts
<1> QED BY <1>3, <1>4, <1>5, <1>6, <1>7, <1>8, CallSteps DEF copies

\* The frames that are recorded stay in their segments, and no other segment gets them.
Keeps(old, new) ==
  /\ \A m : Has(old, m) => Has(new, m)
  /\ \A s \in 1..Len(new.segs) : \A i \in 1..Len(new.segs[s].packets) :
       Has(old, new.segs[s].packets[i].n) =>
         /\ s \in 1..Len(old.segs)
         /\ \E j \in 1..Len(old.segs[s].packets) :
              old.segs[s].packets[j].n = new.segs[s].packets[i].n

LEMMA TurnsKeep ==
  ASSUME NEW old, NEW new, NEW outcome, Writer(old), Turns(old, new, outcome)
  PROVE  Keeps(old, new)
<1>1. /\ Len(old.segs) \in Nat /\ Len(new.segs) \in Nat /\ Len(old.segs) <= Len(new.segs)
      /\ \A s \in 1..Len(old.segs) : new.segs[s].packets = old.segs[s].packets
      /\ \A s \in 1..Len(new.segs) : s > Len(old.segs) => new.segs[s].packets = <<>>
  BY WriterFields DEF Turns, EmptySegment
<1>2. Len(<<>>) = 0
  BY EmptySeq
<1>3. \A m : Has(new, m) <=> Has(old, m)
  BY HasSame
<1>4. ASSUME NEW s \in 1..Len(new.segs), NEW i \in 1..Len(new.segs[s].packets)
      PROVE  s \in 1..Len(old.segs)
  BY <1>1, <1>2
<1> QED BY <1>1, <1>3, <1>4 DEF Keeps

LEMMA RemovedKeeps ==
  ASSUME NEW r, Writer(r), NEW f \in 1..Len(r.segs), r.segs[f].state # "open"
  PROVE  Keeps(r, Removed(r, f))
<1> DEFINE n == Removed(r, f)
<1>1. /\ Len(n.segs) = Len(r.segs)
      /\ \A s \in 1..Len(r.segs) : n.segs[s].packets = r.segs[s].packets
  BY RemovedFacts
<1> HIDE DEF n
<1>2. \A m : Has(n, m) <=> Has(r, m)
  BY <1>1 DEF Has
<1>3. Keeps(r, n)
  BY <1>1, <1>2 DEF Keeps
<1> QED BY <1>3 DEF n

LEMMA AddedKeeps ==
  ASSUME NEW r, Writer(r), r.handle # "none", NEW fr \in [n : 1..MaxFrames, iface : Interfaces],
         ~Has(r, fr.n)
  PROVE  Keeps(r, Added(r, fr))
<1> DEFINE new == Added(r, fr)
<1>1. /\ Len(new.segs) = Len(r.segs)
      /\ \A s \in 1..Len(r.segs) :
           /\ r.segs[s].state # "open" => new.segs[s].packets = r.segs[s].packets
           /\ r.segs[s].state = "open" =>
                \E b \in PacketBlock :
                  b.n = fr.n /\ new.segs[s].packets = Append(r.segs[s].packets, b)
  BY AddedFacts
<1> HIDE DEF new
<1>2. ASSUME NEW s \in 1..Len(r.segs)
      PROVE  /\ \A j \in 1..Len(r.segs[s].packets) :
                  \E i \in 1..Len(new.segs[s].packets) :
                    new.segs[s].packets[i].n = r.segs[s].packets[j].n
             /\ \A i \in 1..Len(new.segs[s].packets) :
                  \/ new.segs[s].packets[i].n = fr.n
                  \/ \E j \in 1..Len(r.segs[s].packets) :
                       r.segs[s].packets[j].n = new.segs[s].packets[i].n
  <2>1. CASE r.segs[s].state # "open"
    BY <1>1, <2>1
  <2>2. CASE r.segs[s].state = "open"
    <3> DEFINE old == r.segs[s].packets
    <3>1. PICK b \in PacketBlock : b.n = fr.n /\ new.segs[s].packets = Append(old, b)
      BY <1>1, <2>2
    <3>2. old \in Seq(PacketBlock)
      BY WriterFields
    <3> HIDE DEF old
    <3>3. /\ Len(old) \in Nat /\ Len(new.segs[s].packets) = Len(old) + 1
          /\ \A i \in 1..Len(old) : new.segs[s].packets[i] = old[i]
          /\ new.segs[s].packets[Len(old) + 1] = b
      BY <3>1, <3>2, BlockAppended
    <3>4. \A j \in 1..Len(old) : \E i \in 1..Len(new.segs[s].packets) :
            new.segs[s].packets[i].n = old[j].n
      <4>1. \A j \in 1..Len(old) : j \in 1..Len(new.segs[s].packets)
        BY <3>3
      <4> QED BY <3>3, <4>1
    <3>5. \A i \in 1..Len(new.segs[s].packets) : i \in 1..Len(old) \/ i = Len(old) + 1
      BY <3>3
    <3>6. \A i \in 1..Len(new.segs[s].packets) :
            \/ new.segs[s].packets[i].n = fr.n
            \/ \E j \in 1..Len(old) : old[j].n = new.segs[s].packets[i].n
      BY <3>1, <3>3, <3>5
    <3> QED BY <3>4, <3>6 DEF old
  <2> QED BY <2>1, <2>2
<1>3. ASSUME NEW m, Has(r, m) PROVE Has(new, m)
  <2> PICK s \in 1..Len(r.segs) : \E j \in 1..Len(r.segs[s].packets) : r.segs[s].packets[j].n = m
    BY <1>3 DEF Has
  <2>1. \E i \in 1..Len(new.segs[s].packets) : new.segs[s].packets[i].n = m
    <3> PICK j \in 1..Len(r.segs[s].packets) : r.segs[s].packets[j].n = m
      OBVIOUS
    <3>1. \E i \in 1..Len(new.segs[s].packets) :
            new.segs[s].packets[i].n = r.segs[s].packets[j].n
      BY <1>2
    <3> QED BY <3>1
  <2> QED BY <1>1, <2>1 DEF Has
<1>4. \A s \in 1..Len(new.segs) : \A i \in 1..Len(new.segs[s].packets) :
        Has(r, new.segs[s].packets[i].n) =>
          /\ s \in 1..Len(r.segs)
          /\ \E j \in 1..Len(r.segs[s].packets) :
               r.segs[s].packets[j].n = new.segs[s].packets[i].n
  BY <1>1, <1>2
<1>5. Keeps(r, new)
  BY <1>3, <1>4 DEF Keeps
<1> QED BY <1>5 DEF new

LEMMA KeepsOn ==
  ASSUME NEW a, NEW b, NEW c, Keeps(a, b), Keeps(b, c)
  PROVE  Keeps(a, c)
<1>1. ASSUME NEW s \in 1..Len(c.segs), NEW i \in 1..Len(c.segs[s].packets),
             Has(a, c.segs[s].packets[i].n)
      PROVE  /\ s \in 1..Len(a.segs)
             /\ \E j \in 1..Len(a.segs[s].packets) :
                  a.segs[s].packets[j].n = c.segs[s].packets[i].n
  <2>1. Has(b, c.segs[s].packets[i].n)
    BY <1>1 DEF Keeps
  <2>2. PICK j \in 1..Len(b.segs[s].packets) :
          s \in 1..Len(b.segs) /\ b.segs[s].packets[j].n = c.segs[s].packets[i].n
    BY <1>1, <2>1 DEF Keeps
  <2> QED BY <1>1, <2>2 DEF Keeps
<1> QED BY <1>1 DEF Keeps

LEMMA MovesKeep ==
  ASSUME Shape, NoFileFailed, FramesOK, [RecorderNext]_recorderVars, fileErrors' = 0
  PROVE  Keeps(rec, rec')
<1>1. fileErrors = 0 /\ Moves
  BY StepMoves
<1>2. Writer(rec) /\ Frames(rec, buffered, (1..offered) \ dropped)
  BY <1>1 DEF FramesOK, Shape
<1>3. CASE rec' = rec
  BY <1>3 DEF Keeps, Has
<1>4. CASE Turned
  BY <1>2, <1>4, TurnsKeep DEF Turned
<1>5. CASE \E r : Written(r)
  <2> PICK r : Written(r)
    BY <1>5
  <2>1. Head(buffered) \in [n : 1..MaxFrames, iface : Interfaces]
    BY HeadFrame DEF Written
  <2> PICK fr \in [n : 1..MaxFrames, iface : Interfaces] : fr = Head(buffered)
    BY <2>1
  <2>2. /\ Writer(r) /\ r.handle # "none" /\ rec' = Added(r, fr) /\ buffered # <<>>
        /\ r = rec \/ Turns(rec, r, "complete")
    BY DEF Written
  <2>3. \A m : Has(r, m) <=> Has(rec, m)
    BY <1>2, <2>2, HasSame
  <2>4. ~Has(rec, fr.n)
    <3>1. fr = buffered[1] /\ 1 \in 1..Len(buffered)
      BY <2>2, HeadFrame
    <3>2. Has(rec, fr.n) => fr.n < fr.n
      BY <1>2, <3>1 DEF Frames
    <3>3. fr.n \in Int
      OBVIOUS
    <3> QED BY <3>2, <3>3
  <2>5. Keeps(r, rec')
    BY <2>2, <2>3, <2>4, AddedKeeps
  <2>6. CASE r = rec
    BY <2>5, <2>6
  <2>7. CASE Turns(rec, r, "complete")
    BY <1>2, <2>5, <2>7, TurnsKeep, KeepsOn
  <2> QED BY <2>2, <2>6, <2>7
<1>6. CASE \E f \in 1..Len(rec.segs) : Loses(f)
  BY <1>2, <1>6, RemovedKeeps DEF Loses
<1> QED BY <1>1, <1>3, <1>4, <1>5, <1>6 DEF Moves, Stays, Record

\* A call that begins has seen the frames of one segment, which it is to copy; it
\* takes a segment off its list when it has copied it or finds it removed.
LEMMA SeenAtHandKept ==
  ASSUME Shape, NoFileFailed, FramesOK, CallsOK, SeenAtHand, [RecorderNext]_recorderVars
  PROVE  SeenAtHand'
<1> SUFFICES ASSUME fileErrors' = 0, NEW q \in Protectors
             PROVE  /\ \A m \in protector'[q].saw : Has(rec', m)
                    /\ \A s \in 1..Len(rec'.segs) : \A i \in 1..Len(rec'.segs[s].packets) :
                         rec'.segs[s].packets[i].n \in protector'[q].saw => AtHand(q, s)'
  BY DEF SeenAtHand
<1>1. /\ fileErrors = 0 /\ Keeps(rec, rec') /\ Writer(rec)
      /\ Frames(rec, buffered, (1..offered) \ dropped)
  BY StepMoves, MovesKeep DEF FramesOK, Shape
<1>2. \A p \in Protectors :
        /\ \A m \in protector[p].saw : Has(rec, m)
        /\ \A s \in 1..Len(rec.segs) : \A i \in 1..Len(rec.segs[s].packets) :
             rec.segs[s].packets[i].n \in protector[p].saw => AtHand(p, s)
  BY <1>1 DEF SeenAtHand
<1>3. ASSUME protector'[q].saw \subseteq protector[q].saw,
             \A s \in 1..Len(rec.segs) : AtHand(q, s) => AtHand(q, s)'
      PROVE  /\ \A m \in protector'[q].saw : Has(rec', m)
             /\ \A s \in 1..Len(rec'.segs) : \A i \in 1..Len(rec'.segs[s].packets) :
                  rec'.segs[s].packets[i].n \in protector'[q].saw => AtHand(q, s)'
  <2>1. \A m \in protector'[q].saw : Has(rec, m)
    BY <1>2, <1>3
  <2>2. ASSUME NEW s \in 1..Len(rec'.segs), NEW i \in 1..Len(rec'.segs[s].packets),
               rec'.segs[s].packets[i].n \in protector'[q].saw
        PROVE  AtHand(q, s)'
    <3>1. PICK j \in 1..Len(rec.segs[s].packets) :
            s \in 1..Len(rec.segs) /\ rec.segs[s].packets[j].n = rec'.segs[s].packets[i].n
      BY <1>1, <2>1, <2>2 DEF Keeps
    <3>2. AtHand(q, s)
      BY <1>2, <1>3, <2>2, <3>1
    <3> QED BY <1>3, <3>1, <3>2
  <2> QED BY <1>1, <2>1, <2>2 DEF Keeps
<1>4. \A s \in 1..Len(rec.segs) : rec.segs[s].state = "pruned" => rec'.segs[s].state = "pruned"
  BY StillClosed
<1>5. CASE protector'[q] = protector[q]
  <2>1. \A s \in 1..Len(rec.segs) : AtHand(q, s) => AtHand(q, s)'
    BY <1>4, <1>5 DEF AtHand
  <2> QED BY <1>3, <1>5, <2>1
<1>6. ASSUME NEW p \in Protectors, CopyBegin(p), q = p
      PROVE  /\ protector'[q].saw \subseteq protector[q].saw
             /\ \A s \in 1..Len(rec.segs) : AtHand(q, s) => AtHand(q, s)'
  <2>1. /\ protector'[p].files = protector[p].files /\ protector'[p].saw = protector[p].saw
        /\ protector'[p].out = protector[p].out /\ protector'[p].tag = protector[p].tag
    BY <1>6, BeginFacts
  <2> QED BY <1>4, <1>6, <2>1 DEF AtHand
<1>7. ASSUME NEW p \in Protectors, CopySkips(p) \/ CopyEnd(p), q = p
      PROVE  /\ protector'[q].saw \subseteq protector[q].saw
             /\ \A s \in 1..Len(rec.segs) : AtHand(q, s) => AtHand(q, s)'
  <2> PICK files \in Seq(Segments) : files = protector[p].files
    BY CallTypes
  <2>1. /\ files # <<>> /\ protector'[p].files = Tail(files)
        /\ protector'[p].saw = protector[p].saw /\ protector'[p].tag = protector[p].tag
        /\ protector[p].out \subseteq protector'[p].out
        /\ rec.segs[Source(p)].state = "pruned" \/ Target(p) \in protector'[p].out
    <3>1. CASE CopySkips(p)
      BY <3>1, SkipFacts
    <3>2. CASE CopyEnd(p)
      <4>1. fileErrors' # fileErrors + 1
        BY <1>1
      <4> QED BY <3>2, <4>1, EndFacts
    <3> QED BY <1>7, <3>1, <3>2
  <2>2. /\ Source(p) = files[1] /\ Len(files) \in Nat \ {0}
        /\ Len(Tail(files)) = Len(files) - 1
        /\ \A i \in 1..Len(Tail(files)) : Tail(files)[i] = files[i + 1]
    BY <2>1, CopyFacts
  <2>3. ASSUME NEW i \in 1..Len(files), i # 1
        PROVE  \E j \in 1..Len(Tail(files)) : Tail(files)[j] = files[i]
    <3>1. i - 1 \in 1..Len(Tail(files)) /\ (i - 1) + 1 = i
      BY <2>2, <2>3
    <3> QED BY <2>2, <3>1
  <2>4. ASSUME NEW s \in 1..Len(rec.segs), AtHand(p, s) PROVE AtHand(p, s)'
    <3>1. CASE \E i \in 1..Len(files) : i # 1 /\ files[i] = s
      <4> PICK i \in 1..Len(files) : i # 1 /\ files[i] = s
        BY <3>1
      <4>1. \E j \in 1..Len(Tail(files)) : Tail(files)[j] = s
        BY <2>3
      <4>2. \E j \in 1..Len(protector'[p].files) : protector'[p].files[j] = s
        BY <2>1, <4>1
      <4> QED BY <4>2 DEF AtHand
    <3>2. CASE s = Source(p)
      BY <1>4, <2>1, <2>4, <3>2 DEF AtHand, Target
    <3>3. CASE <<protector[p].tag, s>> \in protector[p].out
      BY <2>1, <3>3 DEF AtHand
    <3>4. CASE rec.segs[s].state = "pruned"
      BY <1>4, <2>4, <3>4 DEF AtHand
    <3> QED BY <2>2, <2>4, <3>1, <3>2, <3>3, <3>4 DEF AtHand
  <2> QED BY <1>7, <2>1, <2>4
<1>8. ASSUME NEW p \in Protectors, Return(p), q = p
      PROVE  protector'[q].saw = {}
  BY <1>8, ReturnFacts DEF IdleProtector
<1>9. ASSUME NEW p \in Protectors, NEW flushed \in BOOLEAN, NEW opened \in BOOLEAN,
             NEW files \in Seq(Segments), NEW saw \in SUBSET (1..MaxFrames),
             Asks(p, flushed, opened, files, saw), q = p
      PROVE  /\ \A m \in protector'[q].saw : Has(rec', m)
             /\ \A s \in 1..Len(rec'.segs) : \A i \in 1..Len(rec'.segs[s].packets) :
                  rec'.segs[s].packets[i].n \in protector'[q].saw => AtHand(q, s)'
  <2>1. /\ protector'[p].files = files /\ protector'[p].saw = saw
    <3>1. Asked(p, files, saw)
      BY <1>9, AskFacts
    <3> QED BY <3>1 DEF Asked
  <2>2. CASE rec.handle # "open"
    BY <1>9, <2>1, <2>2 DEF Asks
  <2>3. CASE rec.handle = "open"
    <3> DEFINE c == rec.current
    <3>1. /\ c \in 1..Len(rec.segs)
          /\ \E i \in 1..Len(files) : files[i] = c
          /\ \A m : m \in saw <=> \E i \in 1..Len(rec.segs[c].packets) : rec.segs[c].packets[i].n = m
      BY <1>9, <2>3 DEF Asks
    <3> HIDE DEF c
    <3>2. \A m \in saw : Has(rec, m)
      BY <3>1 DEF Has
    <3>3. ASSUME NEW s \in 1..Len(rec'.segs), NEW i \in 1..Len(rec'.segs[s].packets),
                 rec'.segs[s].packets[i].n \in saw
          PROVE  s = c
      <4>1. PICK j \in 1..Len(rec.segs[s].packets) :
              s \in 1..Len(rec.segs) /\ rec.segs[s].packets[j].n = rec'.segs[s].packets[i].n
        BY <1>1, <3>2, <3>3 DEF Keeps
      <4>2. PICK k \in 1..Len(rec.segs[c].packets) :
              rec.segs[c].packets[k].n = rec.segs[s].packets[j].n
        BY <3>1, <3>3, <4>1
      <4>3. ~(s < c) /\ ~(c < s)
        <5>1. rec.segs[c].packets[k].n \in Int
          <6>1. rec.segs[c].packets \in Seq(PacketBlock)
            BY <1>1, <3>1, WriterFields
          <6>2. rec.segs[c].packets[k] \in PacketBlock
            BY <6>1, ElementOfSeq
          <6> QED BY <6>2 DEF PacketBlock
        <5>2. ~(rec.segs[c].packets[k].n < rec.segs[c].packets[k].n)
          BY <5>1
        <5>3. \A a, b \in 1..Len(rec.segs) : a < b =>
                \A x \in 1..Len(rec.segs[a].packets), y \in 1..Len(rec.segs[b].packets) :
                  rec.segs[a].packets[x].n < rec.segs[b].packets[y].n
          BY <1>1 DEF Frames
        <5>4. CASE s < c
          <6>1. rec.segs[s].packets[j].n < rec.segs[c].packets[k].n
            BY <3>1, <4>1, <5>3, <5>4
          <6> QED BY <4>2, <5>2, <6>1
        <5>5. CASE c < s
          <6>1. rec.segs[c].packets[k].n < rec.segs[s].packets[j].n
            BY <3>1, <4>1, <5>3, <5>5
          <6> QED BY <4>2, <5>2, <6>1
        <5> QED BY <5>4, <5>5
      <4> QED BY <3>1, <4>1, <4>3
    <3>4. \E i \in 1..Len(protector'[p].files) : protector'[p].files[i] = c
      BY <2>1, <3>1
    <3> QED BY <1>1, <1>9, <2>1, <3>2, <3>3, <3>4 DEF AtHand, Keeps
  <2> QED BY <2>2, <2>3
<1>10. CASE \E p \in Protectors : Alone(p) /\ q # p
  BY <1>5, <1>10 DEF Alone
<1>11. ASSUME NEW p \in Protectors, NEW flushed \in BOOLEAN, NEW opened \in BOOLEAN,
              NEW files \in Seq(Segments), NEW saw \in SUBSET (1..MaxFrames),
              Asks(p, flushed, opened, files, saw)
       PROVE  Alone(p)
  <2>1. Asked(p, files, saw)
    BY <1>11, AskFacts
  <2> QED BY <2>1 DEF Asked
<1>12. \A p \in Protectors : CopyBegin(p) \/ CopySkips(p) \/ CopyEnd(p) \/ Return(p) => Alone(p)
  BY BeginFacts, SkipFacts, EndFacts, ReturnFacts
<1>13. CASE UNCHANGED copies
  BY <1>5, <1>13 DEF copies
<1> QED BY <1>3, <1>6, <1>7, <1>8, <1>9, <1>10, <1>11, <1>12, <1>13, CallSteps

\* A listing of the directory, and what it knows of each file.
Listing(k, size) ==
  /\ prunes'[k].at = "listed" /\ prunes'[k].files = OnDisk /\ prunes'[k].size = size
  /\ prunes'[k].total = Total(OnDisk, size)
  /\ \A s \in OnDisk : size[s] <= Size(s) /\ (rec.segs[s].state # "open" => size[s] = Size(s))
  /\ \A j \in 1..MaxPrunes : j # k => prunes'[j] = prunes[j]
  /\ OnDisk \subseteq 1..Len(rec.segs) /\ OnDisk \subseteq Segments
  /\ UNCHANGED <<loop, rec, fileErrors>>
LEMMA ListingFacts ==
  ASSUME Shape, NEW k \in 1..MaxPrunes, PruneLists(k)
  PROVE  \E size \in [Segments -> Nat] : Listing(k, size)
<1> PICK flushed \in 0..SegmentFrames : LET
      size == [s \in Segments |-> IF s \notin OnDisk THEN 0
                                  ELSE IF rec.segs[s].state = "open" THEN flushed
                                  ELSE Size(s)] IN
      /\ \A s \in OnDisk : size[s] <= Size(s)
      /\ Pruned(k, [at |-> "listed", files |-> OnDisk, size |-> size,
                    total |-> Total(OnDisk, size)])
  BY DEF PruneLists
<1> DEFINE size == [s \in Segments |-> IF s \notin OnDisk THEN 0
                                       ELSE IF rec.segs[s].state = "open" THEN flushed
                                       ELSE Size(s)]
           g == [at |-> "listed", files |-> OnDisk, size |-> size,
                 total |-> Total(OnDisk, size)]
<1>1. OnDisk \subseteq 1..Len(rec.segs) /\ OnDisk \subseteq Segments
  BY WriterFields, RecorderBounds DEF OnDisk, Segments, Shape, Writer
<1>2. size \in [Segments -> Nat]
  <2>1. \A s \in OnDisk : Size(s) \in Nat
    BY <1>1, WriterFields DEF Size, Shape
  <2>2. flushed \in Nat
    BY RecorderBounds
  <2> QED BY <2>1, <2>2
<1>3. \A s \in OnDisk : size[s] <= Size(s) /\ (rec.segs[s].state # "open" => size[s] = Size(s))
  BY <1>1
<1>4. Pruned(k, g) /\ UNCHANGED rec
  BY DEF PruneLists
<1> HIDE DEF size
<1>5. g.at = "listed" /\ g.files = OnDisk /\ g.size = size /\ g.total = Total(OnDisk, size)
  OBVIOUS
<1> HIDE DEF g
<1>6. /\ prunes'[k] = g /\ \A j \in 1..MaxPrunes : j # k => prunes'[j] = prunes[j]
      /\ UNCHANGED <<loop, fileErrors>>
  BY <1>4 DEF Pruned, Shape, PrunesTypeOK
<1>7. Listing(k, size)
  BY <1>1, <1>3, <1>4, <1>5, <1>6 DEF Listing
<1> QED BY <1>2, <1>7

\* Every step starts a prune, is one of a prune, or leaves the prunes alone.
LEMMA PruneSteps ==
  ASSUME Shape, [RecorderNext]_recorderVars
  PROVE  \/ UNCHANGED prunes
         \/ CanOpen /\ PruneStarted
         \/ \E k \in 1..MaxPrunes : PruneLists(k) \/ PruneStep(k)
<1>1. CASE \E flushed, opened \in BOOLEAN : Rotation(flushed, opened)
  <2> PICK flushed \in BOOLEAN, opened \in BOOLEAN : Rotation(flushed, opened)
    BY <1>1
  <2>1. IF opened THEN CanOpen /\ PruneStarted ELSE UNCHANGED prunes
    BY DEF Rotation
  <2> QED BY <2>1
<1>2. CASE UNCHANGED prunes
  BY <1>2
<1>3. CASE \E k \in 1..MaxPrunes : PruneLists(k) \/ PruneStep(k)
  BY <1>3
<1> QED BY <1>1, <1>2, <1>3 DEF RecorderNext, Record, StartRun, WriteFrame, WriteFrameFails,
       StopRun, Protect, CopyBegin, CopySkips, CopyEnd, Return, recorderVars

\* A segment never gets smaller than it was listed.
LEMMA ListsKept ==
  ASSUME Shape, ListsOK, [RecorderNext]_recorderVars
  PROVE  ListsOK'
<1> SUFFICES ASSUME NEW k \in 1..MaxPrunes, prunes'[k].at = "listed", NEW s \in prunes'[k].files
             PROVE  prunes'[k].size[s] <= Size(s)'
  BY DEF ListsOK
<1>1. /\ Writer(rec) /\ Grows(rec, rec') /\ prunes \in [1..MaxPrunes -> PruneType]
      /\ prunes[k].files \subseteq 1..Len(rec.segs)
  BY RecordMoves DEF Shape, PrunesTypeOK
<1>2. ASSUME prunes[k].at = "listed", prunes'[k].size = prunes[k].size, s \in prunes[k].files
      PROVE  prunes'[k].size[s] <= Size(s)'
  <2>1. s \in 1..Len(rec.segs)
    BY <1>1, <1>2
  <2>2. prunes[k].size[s] <= Len(rec.segs[s].packets)
    BY <1>2 DEF ListsOK, Size
  <2>3. /\ Len(rec.segs[s].packets) <= Len(rec'.segs[s].packets)
        /\ Len(rec.segs[s].packets) \in Nat
    BY <1>1, <2>1, WriterFields DEF Grows
  <2>4. s \in 1..Len(rec'.segs) /\ Writer(rec')
    <3>1. /\ Len(rec.segs) \in Nat /\ Len(rec'.segs) \in Nat
          /\ Len(rec.segs) <= Len(rec'.segs) /\ Writer(rec')
      BY <1>1, WriterFields DEF Grows
    <3> QED BY <2>1, <3>1
  <2>5. Len(rec'.segs[s].packets) \in Nat
    BY <2>4, WriterFields
  <2>6. prunes[k].size[s] \in Nat
    <3>1. prunes[k].size \in [Segments -> Nat] /\ s \in Segments
      BY <1>1, <1>2 DEF PruneType
    <3> QED BY <3>1
  <2>7. prunes[k].size[s] <= Len(rec'.segs[s].packets)
    <3> DEFINE a == prunes[k].size[s]
               b == Len(rec.segs[s].packets)
               c == Len(rec'.segs[s].packets)
    <3>1. a \in Nat /\ b \in Nat /\ c \in Nat /\ a <= b /\ b <= c
      BY <2>2, <2>3, <2>5, <2>6
    <3> HIDE DEF a, b, c
    <3>2. a <= c
      BY <3>1
    <3> QED BY <3>2 DEF a, c
  <2> QED BY <1>2, <2>7 DEF Size
<1>3. CASE prunes'[k] = prunes[k]
  BY <1>2, <1>3
<1>4. CASE CanOpen /\ PruneStarted
  BY <1>3, <1>4, StartedFacts
<1>5. ASSUME NEW j \in 1..MaxPrunes, PruneLists(j) PROVE prunes'[k].size[s] <= Size(s)'
  <2> PICK size \in [Segments -> Nat] : Listing(j, size)
    BY <1>5, ListingFacts
  <2>1. CASE j # k
    BY <1>3, <2>1 DEF Listing
  <2>2. CASE j = k
    BY <2>2 DEF Listing, Size
  <2> QED BY <2>1, <2>2
<1>6. ASSUME NEW j \in 1..MaxPrunes, PruneStep(j) PROVE prunes'[k].size[s] <= Size(s)'
  <2>1. Pruned(j, prunes'[j]) /\ prunes[j].at = "listed"
    BY <1>6, PruneFacts DEF PruneStep, Prune
  <2>2. CASE j # k
    BY <1>1, <1>3, <2>1, <2>2 DEF Pruned
  <2>3. CASE j = k
    <3>1. prunes'[k] # IdlePrune
      BY DEF IdlePrune
    <3>2. prunes'[k].size = prunes[k].size /\ prunes'[k].files \subseteq prunes[k].files
      BY <1>6, <2>3, <3>1, PruneFacts
    <3> QED BY <1>2, <2>1, <2>3, <3>2
  <2> QED BY <2>2, <2>3
<1> QED BY <1>3, <1>4, <1>5, <1>6, PruneSteps

\* The closed segments of a record, and the frames they hold.
Remaining(r) == {s \in 1..Len(r.segs) : r.segs[s].state \notin {"pruned", "open"}}
Held(r) == [s \in Remaining(r) |-> Len(r.segs[s].packets)]
Use(r) == Total(Remaining(r), Held(r))
LEMMA DiskUseIs ==
  /\ ClosedOnDisk = Remaining(rec) /\ ClosedOnDisk' = Remaining(rec')
  /\ DiskUse = Use(rec) /\ DiskUse' = Use(rec')
<1>1. ClosedOnDisk = Remaining(rec) /\ ClosedOnDisk' = Remaining(rec')
  BY DEF ClosedOnDisk, OnDisk, Remaining
<1> QED BY <1>1 DEF DiskUse, Use, Held, Size

LEMMA UseFalls ==
  ASSUME NEW old, NEW new, Writer(old), Writer(new), Remaining(new) \subseteq Remaining(old),
         \A s \in Remaining(new) : new.segs[s].packets = old.segs[s].packets
  PROVE  Use(old) \in Nat /\ Use(new) \in Nat /\ Use(new) <= Use(old)
<1>1. /\ Len(old.segs) \in Nat /\ Len(new.segs) \in Nat
      /\ Remaining(old) \subseteq 1..Len(old.segs) /\ Remaining(new) \subseteq 1..Len(new.segs)
  BY WriterFields DEF Remaining
<1>2. /\ \A s \in Remaining(old) : Held(old)[s] = Len(old.segs[s].packets) /\ Held(old)[s] \in Nat
      /\ \A s \in Remaining(new) : Held(new)[s] = Len(new.segs[s].packets) /\ Held(new)[s] \in Nat
  BY <1>1, WriterFields DEF Held
<1>3. \A s \in Remaining(new) : Held(new)[s] = Held(old)[s]
  BY <1>2
<1>4. \A s \in Remaining(new) : Held(new)[s] \in Nat /\ Held(new)[s] <= Held(old)[s]
  BY <1>2, <1>3
<1>5. Use(old) \in Nat /\ Use(new) \in Nat
  BY <1>1, <1>2, BlocksFinite DEF Use
<1>6. Use(new) <= Use(old)
  BY <1>1, <1>2, <1>4, TotalGrows DEF Use
<1> QED BY <1>5, <1>6

\* A rotation starts a prune; a listing has every closed segment before it, at least
\* as many frames as they hold, and removes the oldest until they fit.
LEMMA BudgetKept ==
  ASSUME Shape, NoFileFailed, ListsOK, BudgetOK, [RecorderNext]_recorderVars
  PROVE  BudgetOK'
<1> SUFFICES ASSUME fileErrors' = 0, loop' # "exited"
             PROVE  \/ Use(rec') <= MaxDisk
                    \/ \E k \in 1..MaxPrunes : prunes'[k].at = "started" \/ Covers(k)'
  BY DiskUseIs DEF BudgetOK
<1>1. /\ fileErrors = 0 /\ Writer(rec) /\ Writer(rec')
      /\ prunes \in [1..MaxPrunes -> PruneType]
      /\ \A k \in 1..MaxPrunes : prunes[k].files \subseteq 1..Len(rec.segs)
  BY StepMoves, RecordMoves DEF Shape, PrunesTypeOK, Grows
<1>2. loop # "exited"
  <2>1. CASE UNCHANGED loop
    BY <2>1
  <2>2. CASE StartRun
    BY <2>2 DEF StartRun
  <2> QED BY <2>1, <2>2 DEF RecorderNext, Record, WriteFrame, WriteFrameFails, StopRun, Protect,
             Called, CopyBegin, CopySkips, CopyEnd, Return, PruneLists, PruneStep, Prune, Pruned,
             recorderVars
<1>3. rec.handle # "closed" /\ (Use(rec) <= MaxDisk
        \/ \E k \in 1..MaxPrunes : prunes[k].at = "started" \/ Covers(k))
  BY <1>1, <1>2, DiskUseIs DEF NoFileFailed, BudgetOK
<1>4. ASSUME CanOpen, PruneStarted
      PROVE  \E k \in 1..MaxPrunes : prunes'[k].at = "started"
  BY <1>4, StartedFacts
<1>5. ASSUME Remaining(rec') \subseteq Remaining(rec),
             \A s \in Remaining(rec') : rec'.segs[s].packets = rec.segs[s].packets
      PROVE  /\ Use(rec) \in Nat /\ Use(rec') \in Nat /\ Use(rec') <= Use(rec)
             /\ Use(rec) <= MaxDisk => Use(rec') <= MaxDisk
             /\ \A k \in 1..MaxPrunes : prunes'[k] = prunes[k] /\ Covers(k) => Covers(k)'
  <2>1. Use(rec) \in Nat /\ Use(rec') \in Nat /\ Use(rec') <= Use(rec)
    BY <1>1, <1>5, UseFalls
  <2>2. Use(rec) <= MaxDisk => Use(rec') <= MaxDisk
    BY <2>1, RecorderBounds
  <2>3. ASSUME NEW k \in 1..MaxPrunes, prunes'[k] = prunes[k], Covers(k) PROVE Covers(k)'
    <3>1. /\ prunes[k].at = "listed" /\ Remaining(rec) \subseteq prunes[k].files
          /\ prunes[k].total >= Use(rec)
      BY <2>3, DiskUseIs DEF Covers
    <3>2. prunes[k].total \in Int
      BY <1>1 DEF PruneType
    <3>3. prunes[k].total >= Use(rec')
      BY <2>1, <3>1, <3>2
    <3> QED BY <1>5, <2>3, <3>1, <3>3, DiskUseIs DEF Covers
  <2> QED BY <2>1, <2>2, <2>3
<1>6. CASE UNCHANGED <<rec, prunes>>
  <2>1. Remaining(rec') = Remaining(rec) /\ \A s \in Remaining(rec') : rec'.segs[s].packets = rec.segs[s].packets
    BY <1>6
  <2> QED BY <1>3, <1>5, <1>6, <2>1
<1>7. CASE \E flushed, opened \in BOOLEAN :
             Rotation(flushed, opened) /\ rec' = Rotated(rec, flushed, opened)
  <2> PICK flushed \in BOOLEAN, opened \in BOOLEAN :
        Rotation(flushed, opened) /\ rec' = Rotated(rec, flushed, opened)
    BY <1>7
  <2>1. opened
    BY RotationFacts
  <2>2. CanOpen /\ PruneStarted
    BY <2>1 DEF Rotation
  <2> QED BY <1>4, <2>2
<1>8. CASE WriteFrame
  <2> PICK flushed \in BOOLEAN : \E r : WritesTo(r, flushed) /\ rec' = Added(r, Head(buffered))
    BY <1>8, WriteFrameFacts
  <2> PICK r : WritesTo(r, flushed) /\ rec' = Added(r, Head(buffered))
    OBVIOUS
  <2>1. CASE Full(rec)
    <3>1. CanOpen /\ PruneStarted
      BY <2>1 DEF WritesTo, Rotation
    <3> QED BY <1>4, <3>1
  <2>2. CASE ~Full(rec)
    <3>1. r = rec /\ UNCHANGED prunes /\ rec.handle # "none"
      BY <1>8, <2>2 DEF WritesTo, WriteFrame, Shape
    <3>2. Head(buffered) \in [n : 1..MaxFrames, iface : Interfaces]
      BY <1>8, HeadFrame DEF WriteFrame
    <3> PICK fr \in [n : 1..MaxFrames, iface : Interfaces] : fr = Head(buffered)
      BY <3>2
    <3>3. /\ Len(rec'.segs) = Len(rec.segs)
          /\ \A s \in 1..Len(rec.segs) :
               /\ rec'.segs[s].state = rec.segs[s].state
               /\ rec.segs[s].state # "open" => rec'.segs[s].packets = rec.segs[s].packets
      BY <1>1, <3>1, AddedFacts
    <3>4. /\ Remaining(rec') \subseteq Remaining(rec)
          /\ \A s \in Remaining(rec') : rec'.segs[s].packets = rec.segs[s].packets
      BY <3>3 DEF Remaining
    <3>5. \A k \in 1..MaxPrunes : prunes'[k] = prunes[k]
      BY <3>1
    <3> QED BY <1>3, <1>5, <3>4, <3>5
  <2> QED BY <2>1, <2>2
<1>9. CASE WriteFrameFails \/ StopRun
  BY <1>9 DEF WriteFrameFails, StopRun
<1>10. ASSUME NEW k \in 1..MaxPrunes, PruneLists(k)
       PROVE  \/ Use(rec') <= MaxDisk
              \/ \E j \in 1..MaxPrunes : prunes'[j].at = "started" \/ Covers(j)'
  <2> PICK size \in [Segments -> Nat] : Listing(k, size)
    BY <1>10, ListingFacts
  <2>1. /\ rec' = rec /\ OnDisk \subseteq 1..Len(rec.segs) /\ OnDisk \subseteq Segments
        /\ Remaining(rec) = {s \in OnDisk : rec.segs[s].state # "open"}
    BY DiskUseIs DEF Listing, ClosedOnDisk
  <2>2. \A s \in OnDisk : size[s] \in Nat
    BY <2>1
  <2>3. \A s \in Remaining(rec) : Held(rec)[s] = size[s]
    BY <2>1 DEF Listing, Held, Size
  <2>4. Use(rec) <= Total(OnDisk, size)
    <3>1. Len(rec.segs) \in Nat
      BY <1>1, WriterFields
    <3>2. Remaining(rec) \subseteq OnDisk
      BY <2>1
    <3>3. \A s \in Remaining(rec) : Held(rec)[s] \in Nat /\ Held(rec)[s] <= size[s]
      BY <2>2, <2>3, <3>2
    <3> QED BY <2>1, <2>2, <3>1, <3>2, <3>3, TotalGrows DEF Use
  <2>5. Use(rec) \in Nat /\ Total(OnDisk, size) \in Nat
    <3>1. Len(rec.segs) \in Nat
      BY <1>1, WriterFields
    <3>2. Use(rec) \in Nat
      BY <1>1, UseFalls
    <3> QED BY <2>1, <2>2, <3>1, <3>2, BlocksFinite
  <2>6. /\ prunes'[k].at = "listed" /\ Remaining(rec') \subseteq prunes'[k].files
        /\ prunes'[k].total = Total(OnDisk, size) /\ Use(rec') = Use(rec)
    BY <2>1 DEF Listing
  <2>7. prunes'[k].total >= Use(rec')
    BY <2>4, <2>5, <2>6
  <2>8. Covers(k)'
    BY <2>6, <2>7, DiskUseIs DEF Covers
  <2> QED BY <2>8
<1>11. ASSUME NEW k \in 1..MaxPrunes, PruneStep(k)
       PROVE  \/ Use(rec') <= MaxDisk
              \/ \E j \in 1..MaxPrunes : prunes'[j].at = "started" \/ Covers(j)'
  <2>1. /\ Pruned(k, prunes'[k]) /\ prunes[k].at = "listed" /\ prunes[k] \in PruneType
        /\ prunes[k].total \in Int /\ prunes[k].files \subseteq 1..Len(rec.segs)
    BY <1>1, <1>11, PruneFacts DEF PruneStep, Prune, PruneType
  <2>2. \A j \in 1..MaxPrunes : j # k => prunes'[j] = prunes[j]
    BY <1>1, <2>1 DEF Pruned
  <2>3. /\ Remaining(rec') \subseteq Remaining(rec)
        /\ \A s \in Remaining(rec') : rec'.segs[s].packets = rec.segs[s].packets
    <3>1. CASE rec' = rec
      BY <3>1
    <3>2. CASE \E f \in 1..Len(rec.segs) : rec.segs[f].state # "open" /\ rec' = Removed(rec, f)
      <4> PICK f \in 1..Len(rec.segs) : rec.segs[f].state # "open" /\ rec' = Removed(rec, f)
        BY <3>2
      <4>1. /\ Len(rec'.segs) = Len(rec.segs)
            /\ \A s \in 1..Len(rec.segs) :
                 /\ rec'.segs[s].packets = rec.segs[s].packets
                 /\ rec'.segs[s].state = IF s = f THEN "pruned" ELSE rec.segs[s].state
        BY <1>1, RemovedFacts
      <4> QED BY <4>1 DEF Remaining
    <3> QED BY <1>11, <3>1, <3>2, PruneFacts
  <2>4. CASE Use(rec) <= MaxDisk
    BY <1>5, <2>3, <2>4
  <2>5. CASE \E j \in 1..MaxPrunes : j # k /\ (prunes[j].at = "started" \/ Covers(j))
    BY <1>5, <2>2, <2>3, <2>5
  <2>6. CASE Covers(k)
    <3>1. /\ Remaining(rec) \subseteq prunes[k].files /\ prunes[k].total >= Use(rec)
          /\ Use(rec) \in Nat /\ Use(rec') \in Nat /\ Use(rec') <= Use(rec)
      BY <1>5, <2>3, <2>6, DiskUseIs DEF Covers
    <3>2. CASE (prunes[k].files = {} \/ prunes[k].total <= MaxDisk) /\ rec' = rec
      <4>1. CASE prunes[k].total <= MaxDisk
        BY <2>1, <3>1, <3>2, <4>1, RecorderBounds
      <4>2. CASE prunes[k].files = {}
        <5>1. Remaining(rec) = {}
          BY <3>1, <4>2
        <5>2. Use(rec) = Cardinality({})
          BY <5>1 DEF Use, Total
        <5>3. Use(rec) = 0
          BY <5>2, FS_EmptySet
        <5> QED BY <3>2, <5>3, RecorderBounds
      <4> QED BY <3>2, <4>1, <4>2
    <3>3. ASSUME NEW f \in prunes[k].files, f \in 1..Len(rec.segs),
                 prunes'[k].at = "listed", prunes'[k].files = prunes[k].files \ {f},
                 \/ /\ f = rec.current \/ rec.segs[f].state = "pruned"
                    /\ prunes'[k].total = prunes[k].total /\ rec' = rec
                 \/ /\ f # rec.current /\ rec.segs[f].state \notin {"pruned", "open"}
                    /\ prunes'[k].total = prunes[k].total - prunes[k].size[f]
                    /\ rec' = Removed(rec, f)
          PROVE  Covers(k)'
      <4>1. CASE (f = rec.current \/ rec.segs[f].state = "pruned")
                 /\ prunes'[k].total = prunes[k].total /\ rec' = rec
        <5>1. f \notin Remaining(rec)
          <6>1. rec.current # 0 => rec.handle = "open"
            BY <1>1, <1>3, WriterFields DEF Writer
          <6>2. f = rec.current => rec.segs[f].state = "open"
            BY <1>1, <3>3, <6>1 DEF Writer
          <6> QED BY <4>1, <6>2 DEF Remaining
        <5>2. Remaining(rec') \subseteq prunes'[k].files /\ prunes'[k].total >= Use(rec')
          BY <3>1, <3>3, <4>1, <5>1
        <5> QED BY <3>3, <5>2, DiskUseIs DEF Covers
      <4>2. CASE /\ f # rec.current /\ rec.segs[f].state \notin {"pruned", "open"}
                 /\ prunes'[k].total = prunes[k].total - prunes[k].size[f]
                 /\ rec' = Removed(rec, f)
        <5>1. /\ Len(rec'.segs) = Len(rec.segs) /\ Len(rec.segs) \in Nat
              /\ \A s \in 1..Len(rec.segs) :
                   /\ rec'.segs[s].packets = rec.segs[s].packets
                   /\ rec'.segs[s].state = IF s = f THEN "pruned" ELSE rec.segs[s].state
          BY <1>1, <3>3, <4>2, RemovedFacts, WriterFields
        <5>2. Remaining(rec') = Remaining(rec) \ {f} /\ f \in Remaining(rec) /\ Remaining(rec) \subseteq 1..Len(rec.segs)
          BY <3>3, <4>2, <5>1 DEF Remaining
        <5>3. /\ \A s \in Remaining(rec) : Held(rec)[s] = Len(rec.segs[s].packets) /\ Held(rec)[s] \in Nat
              /\ \A s \in Remaining(rec') : Held(rec')[s] = Held(rec)[s]
          BY <1>1, <5>1, <5>2, WriterFields DEF Held
        <5>4. Use(rec) = Total(Remaining(rec) \ {f}, Held(rec)) + Held(rec)[f]
          <6>1. /\ Len(rec.segs) \in Nat /\ Remaining(rec) \subseteq 1..Len(rec.segs) /\ f \in Remaining(rec)
                /\ \A s \in Remaining(rec) : Held(rec)[s] \in Nat
            BY <5>1, <5>2, <5>3
          <6>2. Total(Remaining(rec), Held(rec)) = Total(Remaining(rec) \ {f}, Held(rec)) + Held(rec)[f]
            BY <6>1, TotalWithout, Zenon
          <6> QED BY <6>2 DEF Use
        <5>5. Use(rec') = Total(Remaining(rec) \ {f}, Held(rec))
          BY <5>2, <5>3 DEF Use, Total
        <5>6. prunes[k].size[f] <= Held(rec)[f] /\ prunes[k].size[f] \in Nat
          <6>1. prunes[k].size[f] <= Size(f)
            BY <2>1 DEF ListsOK
          <6>2. prunes[k].size \in [Segments -> Nat] /\ f \in Segments
            BY <2>1, <3>3 DEF PruneType
          <6> QED BY <5>2, <5>3, <6>1, <6>2 DEF Size
        <5>7. prunes'[k].total >= Use(rec')
          <6> DEFINE t == prunes[k].total
                     z == prunes[k].size[f]
                     h == Held(rec)[f]
                     u == Use(rec)
                     v == Use(rec')
          <6>1. /\ t \in Int /\ z \in Nat /\ h \in Nat /\ u \in Nat /\ v \in Nat
                /\ t >= u /\ z <= h /\ u = v + h
            BY <2>1, <3>1, <5>2, <5>3, <5>4, <5>5, <5>6
          <6>2. prunes'[k].total = t - z
            BY <4>2
          <6> HIDE DEF t, z, h, u, v
          <6>3. t - z >= v
            BY <6>1
          <6> QED BY <6>2, <6>3 DEF v
        <5> QED BY <3>1, <3>3, <5>2, <5>7, DiskUseIs DEF Covers
      <4> QED BY <3>3, <4>1, <4>2
    <3> QED BY <1>11, <3>2, <3>3, PruneFacts
  <2>7. prunes[k].at # "started"
    BY <2>1
  <2> QED BY <1>3, <2>4, <2>5, <2>6, <2>7
<1>12. CASE StartRun \/ \E p \in Protectors : Protect(p)
  BY <1>7, <1>12 DEF StartRun, Protect
<1> QED BY <1>6, <1>8, <1>9, <1>10, <1>11, <1>12 DEF RecorderNext, Record, CopyBegin, CopySkips,
       CopyEnd, Return, recorderVars

\* The invariant of the recorder, and what it promises.
LEMMA RecorderStarts ==
  ASSUME RecorderInit
  PROVE  RecorderInv
<1>1. /\ <<>> \in Seq(SegmentType) /\ <<>> \in Seq(Interfaces) /\ <<>> \in Seq(Segments)
      /\ <<>> \in Seq([n : 1..MaxFrames, iface : Interfaces]) /\ Len(<<>>) = 0
  BY EmptySeq
<1>2. /\ rec.segs = <<>> /\ rec.current = 0 /\ rec.handle = "none" /\ rec.written = 0
      /\ rec.ifaces = <<>> /\ rec.recent = <<>>
      /\ loop = "none" /\ buffered = <<>> /\ offered = 0 /\ dropped = {}
      /\ protected = {} /\ calls = 0 /\ fileErrors = 0
  BY DEF RecorderInit
<1>3. /\ \A k \in 1..MaxPrunes : prunes[k] = IdlePrune
      /\ \A p \in Protectors : protector[p] = IdleProtector
      /\ \A d \in Tags \X Segments : incidents[d] = NoCopy
  BY DEF RecorderInit
<1>4. Writer(rec)
  <2>1. rec \in RecordType
    BY <1>1 DEF RecorderInit, RecordType
  <2> QED BY <1>1, <1>2, <2>1, RecorderBounds DEF Writer
<1>5. ChannelTypeOK
  BY <1>1, <1>2, RecorderBounds DEF ChannelTypeOK
<1>6. PrunesTypeOK
  <2>1. IdlePrune \in PruneType /\ IdlePrune.files = {}
    BY DEF IdlePrune, PruneType
  <2>2. prunes = [k \in 1..MaxPrunes |-> IdlePrune]
    BY DEF RecorderInit
  <2> QED BY <2>1, <2>2 DEF PrunesTypeOK
<1>7. CopiesTypeOK
  <2>1. IdleProtector \in ProtectorType /\ IdleProtector.files = <<>>
    BY <1>1, RecorderBounds DEF IdleProtector, ProtectorType, Tags
  <2>2. ToSet(<<>>) = {}
    BY DEF ToSet
  <2>3. NoCopy \in CopyType
    BY DEF NoCopy, CopyType
  <2>4. /\ protector = [p \in Protectors |-> IdleProtector]
        /\ incidents = [d \in Tags \X Segments |-> NoCopy]
    BY DEF RecorderInit
  <2> HIDE DEF IdleProtector, NoCopy
  <2> QED BY <1>2, <2>1, <2>2, <2>3, <2>4, RecorderBounds DEF CopiesTypeOK
<1>8. Shape
  BY <1>2, <1>4, <1>5, <1>6, <1>7 DEF Shape
<1>9. NoFileFailed
  BY <1>1, <1>2 DEF NoFileFailed, Clean, Rising
<1>10. FramesOK
  <2>1. \A m : ~Has(rec, m)
    BY <1>1, <1>2 DEF Has
  <2>2. (1..offered) \ dropped = {}
    BY <1>2
  <2> QED BY <1>1, <1>2, <2>1, <2>2 DEF FramesOK, Frames, InOrder
<1>11. CallsApart /\ CopiesOnce /\ CallsOK /\ CopiesOK
  BY <1>1, <1>2, <1>3 DEF CallsApart, CopiesOnce, CallsOK, CallOK, CopiesOK, IdleProtector, NoCopy,
     Rising
<1>12. SeenAtHand /\ ListsOK
  BY <1>1, <1>2, <1>3 DEF SeenAtHand, ListsOK, IdleProtector, IdlePrune
<1>13. BudgetOK
  <2>1. Remaining(rec) = {}
    BY <1>1, <1>2 DEF Remaining
  <2>2. Use(rec) = 0
    BY <2>1, FS_EmptySet DEF Use, Total
  <2> QED BY <2>2, DiskUseIs, RecorderBounds DEF BudgetOK
<1> QED BY <1>8, <1>9, <1>10, <1>11, <1>12, <1>13 DEF RecorderInv

LEMMA RecorderInvKept ==
  ASSUME RecorderInv, [RecorderNext]_recorderVars
  PROVE  RecorderInv'
<1>1. /\ Shape /\ NoFileFailed /\ FramesOK /\ CallsApart /\ CopiesOnce /\ CallsOK /\ CopiesOK
      /\ SeenAtHand /\ ListsOK /\ BudgetOK
  BY DEF RecorderInv
<1>2. /\ Shape' /\ NoFileFailed' /\ FramesOK' /\ CallsApart' /\ CopiesOnce' /\ CallsOK'
      /\ CopiesOK' /\ SeenAtHand' /\ ListsOK' /\ BudgetOK'
  BY <1>1, ShapeKept, NoFileFailedKept, FramesKept, CallsApartKept, CopiesOnceKept, CallsOKKept,
     CopiesOKKept, SeenAtHandKept, ListsKept, BudgetKept
<1> QED BY <1>2 DEF RecorderInv

LEMMA RecorderInvMeans ==
  ASSUME RecorderInv
  PROVE  RecordingWhole
<1>1. /\ Shape /\ NoFileFailed /\ FramesOK /\ CallsOK /\ CopiesOK /\ SeenAtHand /\ BudgetOK
  BY DEF RecorderInv
<1>2. /\ Writer(rec) /\ \A s \in 1..Len(rec.segs) : rec.segs[s].packets \in Seq(PacketBlock)
      /\ buffered \in Seq([n : 1..MaxFrames, iface : Interfaces])
  BY <1>1, WriterFields DEF Shape, ChannelTypeOK
<1>3. /\ \A s \in 1..Len(rec.segs) : \A m :
           m \in Numbers(rec.segs[s].packets) <=>
             \E i \in 1..Len(rec.segs[s].packets) : rec.segs[s].packets[i].n = m
      /\ \A m : m \in Numbers(buffered) <=> \E i \in 1..Len(buffered) : buffered[i].n = m
  BY <1>2, NumbersFacts
<1>4. \A m : m \in Recorded <=> Has(rec, m)
  <2>1. \A m : m \in Recorded <=> \E s \in 1..Len(rec.segs) : m \in Numbers(rec.segs[s].packets)
    BY DEF Recorded
  <2>2. ASSUME NEW m
        PROVE  (\E s \in 1..Len(rec.segs) : m \in Numbers(rec.segs[s].packets)) <=> Has(rec, m)
    <3>1. \A s \in 1..Len(rec.segs) :
            m \in Numbers(rec.segs[s].packets) <=>
              \E i \in 1..Len(rec.segs[s].packets) : rec.segs[s].packets[i].n = m
      BY <1>3
    <3> QED BY <3>1 DEF Has
  <2> QED BY <2>1, <2>2
<1>5. FramesRecordedOnce
  <2>1. InterfaceResolves
    BY <1>2, WriterIsInv
  <2> SUFFICES ASSUME fileErrors = 0
               PROVE  /\ Recorded \cup Numbers(buffered) = (1..offered) \ dropped
                      /\ InOrder(buffered) /\ Before(Recorded, Numbers(buffered))
                      /\ \A s \in 1..Len(rec.segs) :
                           /\ InOrder(rec.segs[s].packets)
                           /\ \A t \in 1..Len(rec.segs) :
                                s < t => Before(Numbers(rec.segs[s].packets),
                                                Numbers(rec.segs[t].packets))
    BY <2>1 DEF FramesRecordedOnce
  <2> DEFINE all == (1..offered) \ dropped
  <2>2. Frames(rec, buffered, all)
    BY <1>1 DEF FramesOK
  <2> HIDE DEF all
  <2>3. Recorded \cup Numbers(buffered) = all
    BY <1>3, <1>4, <2>2 DEF Frames
  <2>4. InOrder(buffered) /\ Before(Recorded, Numbers(buffered))
    BY <1>3, <1>4, <2>2 DEF Frames, Before
  <2>5. \A s \in 1..Len(rec.segs) : InOrder(rec.segs[s].packets)
    BY <2>2 DEF Frames
  <2>6. ASSUME NEW s \in 1..Len(rec.segs), NEW t \in 1..Len(rec.segs), s < t
        PROVE  Before(Numbers(rec.segs[s].packets), Numbers(rec.segs[t].packets))
    <3>1. \A i \in 1..Len(rec.segs[s].packets), j \in 1..Len(rec.segs[t].packets) :
            rec.segs[s].packets[i].n < rec.segs[t].packets[j].n
      BY <2>2, <2>6 DEF Frames
    <3> SUFFICES ASSUME NEW m \in Numbers(rec.segs[s].packets),
                        NEW n \in Numbers(rec.segs[t].packets)
                 PROVE  m < n
      BY DEF Before
    <3>2. PICK i \in 1..Len(rec.segs[s].packets) : rec.segs[s].packets[i].n = m
      BY <1>3
    <3>3. PICK j \in 1..Len(rec.segs[t].packets) : rec.segs[t].packets[j].n = n
      BY <1>3
    <3> QED BY <3>1, <3>2, <3>3
  <2> QED BY <2>3, <2>4, <2>5, <2>6 DEF all
<1>6. ProtectedWhole
  <2>1. protected \subseteq Tags \X Segments
    BY <1>1 DEF Shape, CopiesTypeOK
  <2>2. \A d \in protected :
          /\ incidents[d].state # "none"
          /\ ~SameTag /\ fileErrors <= 1 => incidents[d].done
          /\ fileErrors = 0 => incidents[d].state \in {"none", "complete"}
    BY <1>1, <2>1 DEF CopiesOK
  <2> QED BY <2>2 DEF ProtectedWhole
<1>7. AlertSegmentCopied
  <2> SUFFICES ASSUME NEW p \in Protectors, protector[p].files = <<>>, fileErrors = 0,
                      NEW s \in 1..Len(rec.segs),
                      Numbers(rec.segs[s].packets) \cap protector[p].saw # {}
               PROVE  <<protector[p].tag, s>> \in protector[p].out \/ rec.segs[s].state = "pruned"
    BY DEF AlertSegmentCopied
  <2>1. \E i \in 1..Len(rec.segs[s].packets) : rec.segs[s].packets[i].n \in protector[p].saw
    <3> PICK m \in Numbers(rec.segs[s].packets) : m \in protector[p].saw
      OBVIOUS
    <3>1. \E i \in 1..Len(rec.segs[s].packets) : rec.segs[s].packets[i].n = m
      BY <1>3
    <3> QED BY <3>1
  <2>2. AtHand(p, s)
    BY <1>1, <2>1 DEF SeenAtHand
  <2>3. Len(<<>>) = 0
    BY EmptySeq
  <2> QED BY <2>2, <2>3 DEF AtHand
<1>8. BudgetHeld
  <2> SUFFICES ASSUME fileErrors = 0, loop = "running", \A k \in 1..MaxPrunes : prunes[k].at = "idle"
               PROVE  DiskUse <= MaxDisk
    BY DEF BudgetHeld
  <2>1. DiskUse <= MaxDisk \/ \E k \in 1..MaxPrunes : prunes[k].at = "started" \/ Covers(k)
    BY <1>1 DEF BudgetOK
  <2> QED BY <2>1 DEF Covers
<1> QED BY <1>5, <1>6, <1>7, <1>8 DEF RecordingWhole, EvidenceWhole

\* The flight recorder: without file errors every accepted frame is recorded once and
\* in order, in segments that can each be read alone; a path that Protect returned
\* holds a whole copy of a closed segment; a call copies what was in the segment that
\* was open when it was made; and the closed segments fit in the disk budget when no
\* prune is running.
THEOREM RecordingWholeCorrect == RecorderSpec => []RecordingWhole
<1>1. RecorderInit => RecorderInv
  BY RecorderStarts
<1>2. RecorderInv /\ [RecorderNext]_recorderVars => RecorderInv'
  BY RecorderInvKept
<1>3. RecorderInv => RecordingWhole
  BY RecorderInvMeans
<1> QED BY <1>1, <1>2, <1>3, PTL DEF RecorderSpec
=============================================================================
