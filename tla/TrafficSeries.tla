----------------------------- MODULE TrafficSeries -----------------------------
(***************************************************************************)
(* The series behind the traffic graphs (internal/trafficseries/store.go): *)
(* a goroutine that takes packet events from its subscription of the bus,  *)
(* counts them into the current second, and turns that into a point when   *)
(* the ticker fires; the graphs are read while it runs.  Packets carry the *)
(* time they were captured at, which for a replayed file lies in the past. *)
(*                                                                         *)
(* A packet counts one byte; of its directions "both" is a forwarded one.  *)
(***************************************************************************)
EXTENDS Integers, Sequences, FiniteSets, FiniteSetsExt, SequencesExt

CONSTANTS SeriesFlows,     \* flows of the packets
          SeriesQueue,     \* 4096: events the subscription holds
          MaxPoints,       \* 90000: points kept
          SeenFor,         \* 2 h: how long a flow is known after its first packet
          MaxSeriesPackets, LastSecond   \* bounds: packets, the clock

ASSUME TrafficSeriesAssumption ==
  /\ {SeriesQueue, MaxPoints} \subseteq Nat \ {0}
  /\ {SeenFor, MaxSeriesPackets, LastSecond} \subseteq Nat

VARIABLES queued,      \* events in the subscription
          seriesDrops, \* its drop counter
          second,      \* the clock
          point,       \* s.current
          past,        \* s.points
          seenFlows,   \* s.seen: flow -> time of the event that brought it, or -1
          seriesState, \* "running", "stopping" (Close has closed s.stop), "closed"
          published,   \* packets so far
          taken,       \* those of others that were consumed, by direction (history)
          pruned,      \* what the points hold that were let go (history)
          lateFlows    \* was a flow ever let go (history)
seriesVars == <<queued, seriesDrops, second, point, past, seenFlows, seriesState, published, taken,
                pruned, lateFlows>>

Ways == {"in", "out", "both"}
Nothing == [in |-> 0, out |-> 0, flows |-> 0, time |-> 0]
Plus(a, b) == [a EXCEPT !.in = @ + b.in, !.out = @ + b.out, !.flows = @ + b.flows]
Sum3(set) == FoldLeft(Plus, Nothing, set)

SeriesInit ==
  /\ queued = <<>> /\ seriesDrops = 0 /\ second = 1 /\ point = Nothing /\ past = <<>>
  /\ seenFlows = [f \in SeriesFlows |-> -1] /\ seriesState = "running"
  /\ published = 0 /\ taken = [w \in Ways |-> 0] /\ pruned = Nothing /\ lateFlows = FALSE

\* Publish never waits: an event for which there is no room is counted and lost.
PublishPacket ==
  /\ seriesState # "closed" /\ published < MaxSeriesPackets
  /\ published' = published + 1
  /\ \E f \in SeriesFlows, way \in Ways, at \in {0, second}, own \in BOOLEAN :
       IF Len(queued) < SeriesQueue
       THEN /\ queued' = Append(queued, [flow |-> f, way |-> way, time |-> at, sensor |-> own])
            /\ UNCHANGED seriesDrops
       ELSE seriesDrops' = seriesDrops + 1 /\ UNCHANGED queued
  /\ UNCHANGED <<second, point, past, seenFlows, seriesState, taken, pruned, lateFlows>>

\* Mutant: a forwarded packet counts as sent only.
ContributionOnce(e, new) ==
  [Nothing EXCEPT !.in = IF e.way = "in" THEN 1 ELSE 0,
                  !.out = IF e.way \in {"out", "both"} THEN 1 ELSE 0,
                  !.flows = IF new THEN 1 ELSE 0]
\* consume: a forwarded packet counts on both sides, the sensor's on none.
Contribution(e, new) ==
  [Nothing EXCEPT !.in = IF e.way \in {"in", "both"} THEN 1 ELSE 0,
                  !.out = IF e.way \in {"out", "both"} THEN 1 ELSE 0,
                  !.flows = IF new THEN 1 ELSE 0]
Consume ==
  /\ seriesState # "closed" /\ queued # <<>>
  /\ queued' = Tail(queued)
  /\ LET e == Head(queued)
         new == seenFlows[e.flow] = -1 IN
     IF e.sensor THEN UNCHANGED <<point, seenFlows, taken>>
     ELSE /\ point' = Plus(point, Contribution(e, new))
          /\ taken' = [taken EXCEPT ![e.way] = @ + 1]
          /\ seenFlows' = IF new THEN [seenFlows EXCEPT ![e.flow] = e.time] ELSE seenFlows
  /\ UNCHANGED <<seriesDrops, second, past, seriesState, published, pruned, lateFlows>>

\* flush: the oldest points and the flows first seen long ago are let go.
Flush ==
  /\ seriesState # "closed"
  /\ LET all == Append(past, [point EXCEPT !.time = second])
         over == IF Len(all) > MaxPoints THEN Len(all) - MaxPoints ELSE 0
         old == {f \in SeriesFlows : seenFlows[f] # -1 /\ seenFlows[f] < second - SeenFor} IN
     /\ past' = SubSeq(all, over + 1, Len(all))
     /\ pruned' = Plus(pruned, Sum3(SubSeq(all, 1, over)))
     /\ point' = Nothing
     /\ seenFlows' = [f \in SeriesFlows |-> IF f \in old THEN -1 ELSE seenFlows[f]]
     /\ lateFlows' = (lateFlows \/ old # {})
  /\ second < LastSecond /\ second' = second + 1
  /\ UNCHANGED <<queued, seriesDrops, seriesState, published, taken>>

\* Close: run returns as soon as the select takes the stop, and what is queued
\* then is lost.
CloseSeries ==
  /\ seriesState = "running" /\ seriesState' = "stopping"
  /\ UNCHANGED <<queued, seriesDrops, second, point, past, seenFlows, published, taken, pruned,
                 lateFlows>>
RunReturns ==
  /\ seriesState = "stopping" /\ seriesState' = "closed"
  /\ UNCHANGED <<queued, seriesDrops, second, point, past, seenFlows, published, taken, pruned,
                 lateFlows>>

SeriesNext == PublishPacket \/ Consume \/ Flush \/ CloseSeries \/ RunReturns

-----------------------------------------------------------------------------
\* History: the points of a range and the current second, summed up in steps.
Sources == past \o (IF point = Nothing THEN <<>> ELSE <<[point EXCEPT !.time = second]>>)
InRange(range) == SelectSeq(Sources, LAMBDA p : p.time >= second - range /\ p.time <= second + 1)
Buckets(range, width) == {p.time \div width : p \in ToSet(InRange(range))}
History(range, width) ==
  [k \in Buckets(range, width) |->
     Sum3(SelectSeq(InRange(range), LAMBDA p : p.time \div width = k))]
Shown(h) == FoldSet(LAMBDA k, sum : Plus(sum, h[k]), Nothing, DOMAIN h)

\* The graphs are truthful: a packet that was not dropped is in exactly one
\* second and, in whatever steps the graph is drawn, in one of its points until
\* that is let go; the sensor's own packets are in none; and a flow counts once
\* as long as no flow first seen SeenFor ago has been let go.
SeriesTruthful ==
  \A width \in 1..3 : LET shown == Shown(History(LastSecond, width)) IN
       /\ shown.in + pruned.in = taken["in"] + taken["both"]
       /\ shown.out + pruned.out = taken["out"] + taken["both"]
       /\ ~lateFlows => shown.flows + pruned.flows = Cardinality({f \in SeriesFlows : seenFlows[f] # -1})
=============================================================================
