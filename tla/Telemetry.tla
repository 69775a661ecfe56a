------------------------------- MODULE Telemetry -------------------------------
(***************************************************************************)
(* The live counters (internal/telemetry/store.go): packets counted for    *)
(* all interfaces together and for each one, by direction and in groups,   *)
(* the conversations, and the points made of them every second and minute. *)
(* Everything runs under the store's lock; packets and ticks interleave,   *)
(* and the clock of ticks may stand still or go back.                      *)
(*                                                                         *)
(* A packet counts one byte; of the groups that are counted alike one is   *)
(* modelled (sources).  A conversation is known by its source.             *)
(***************************************************************************)
EXTENDS Integers, Sequences, FiniteSets, SequencesExt

CONSTANTS Ifaces, Addresses, Directions, \* of packets
          MaxScopes,                   \* maxScopes, the scope of all interfaces included
          MaxKeys, MaxTrackedKeys,     \* of one group, of all groups
          MaxFlows, MaxTrackedFlows,   \* of one scope, of all scopes
          Seconds, Minutes,            \* points kept: 900, 1440
          SecondsPerMinute, IdleTime,
          MaxKernel,                   \* bound of the kernel's counters
          MaxLivePackets, MaxMeasures  \* bounds: packets, ticks of the clock

ASSUME TelemetryAssumption ==
  /\ {MaxScopes, MaxKeys, MaxTrackedKeys, MaxFlows, MaxTrackedFlows, Seconds, Minutes,
      SecondsPerMinute, IdleTime, MaxKernel, MaxLivePackets, MaxMeasures} \subseteq Nat
  /\ Seconds > 0 /\ Minutes > 0 /\ SecondsPerMinute > 0

All == "all"        \* the scope of all interfaces
Other == "other"    \* the key of what exceeds a limit
Scopes == {All} \union Ifaces

VARIABLES scopes,       \* scope -> its counters, or NoScope
          trackedFlows, trackedKeys,
          limitedScopes,\* Store.limited
          wall,         \* the time of the last packet or tick
          lastTickAt,   \* Store.last
          shownByKernel,       \* the counters the kernel showed last, per interface
          live, measures, \* packets and ticks so far
          perIface,     \* packets of each interface (history)
          kernelTotal   \* what the kernel counted, resets included (history)
telemetryVars == <<scopes, trackedFlows, trackedKeys, limitedScopes, wall, lastTickAt, shownByKernel,
                   live, measures, perIface, kernelTotal>>

Zero == [d \in Directions |-> 0]
NoPoint == [packets |-> Zero, seconds |-> 0, flows |-> 0, connections |-> 0, rx |-> 0, minute |-> -1]
NewScope == [exists |-> TRUE, packets |-> 0, flows |-> 0, directions |-> Zero, current |-> NoPoint,
             seconds |-> <<>>, minutes |-> <<>>, minute |-> NoPoint,
             sources |-> <<>>, conversations |-> <<>>, lastKernel |-> -1, trimmed |-> 0]
NoScope == [NewScope EXCEPT !.exists = FALSE]

TelemetryInit ==
  /\ scopes = [n \in Scopes |-> IF n = All THEN NewScope ELSE NoScope]
  /\ trackedFlows = 0 /\ trackedKeys = 0 /\ limitedScopes = FALSE
  /\ wall = 0 /\ lastTickAt = 0
  /\ shownByKernel = [i \in Ifaces |-> 0] /\ live = 0 /\ measures = 0
  /\ perIface = [i \in Ifaces |-> 0] /\ kernelTotal = [i \in Ifaces |-> 0]

\* ensure
HasScope(n) == scopes[n].exists
Room == Cardinality({n \in Scopes : HasScope(n)}) < MaxScopes
Ensured(n) == HasScope(n) \/ Room

-----------------------------------------------------------------------------
\* group: a key beyond the limits is counted under Other; keys counts those of all
\* groups.
KeysFull(group, keys) == Cardinality(DOMAIN group) >= MaxKeys \/ keys >= MaxTrackedKeys
KeyFor(group, key, keys) == IF key \notin DOMAIN group /\ KeysFull(group, keys) THEN Other ELSE key
Counted(group, key) ==
  [k \in DOMAIN group \union {key} |-> IF k \in DOMAIN group THEN group[k] + (IF k = key THEN 1 ELSE 0)
                                       ELSE 1]
\* The conversation the packet continues: not one that has been idle, nor a
\* closed one when the packet opens a new connection.
Stale(f, p) == p.time - f.last > IdleTime \/ (f.closed /\ p.flag = "syn")
Continues(x, p) == p.source \in DOMAIN x.conversations /\ ~Stale(x.conversations[p.source], p)
Ended(x, p) == p.source \in DOMAIN x.conversations /\ ~Continues(x, p)
WithoutStale(x, p) ==
  [k \in {k \in DOMAIN x.conversations : k # p.source \/ Continues(x, p)} |-> x.conversations[k]]
NewConversation(p) == [last |-> p.time, packets |-> 0, initiated |-> FALSE, closed |-> FALSE]
Opens(f, p) == p.flag = "syn" /\ (~f.initiated \/ f.closed)
Advance(f, p) ==
  [last |-> IF p.time > f.last THEN p.time ELSE f.last, packets |-> f.packets + 1,
   initiated |-> f.initiated \/ Opens(f, p),
   closed |-> (f.closed /\ ~Opens(f, p)) \/ p.flag = "fin"]

\* observe: the scope and the two store-wide counts after the packet.
CountPacket(x, p) ==
  [x EXCEPT !.packets = @ + 1, !.directions[p.dir] = @ + 1, !.current.packets[p.dir] = @ + 1]
FlowsLeft(x, p, tracked) == tracked - (IF Ended(x, p) THEN 1 ELSE 0)
Refused(x, p, tracked) ==
  ~Continues(x, p) /\ (Cardinality(DOMAIN WithoutStale(x, p)) >= MaxFlows
                        \/ FlowsLeft(x, p, tracked) >= MaxTrackedFlows)
CountConversation(x, p, tracked) ==
  LET kept == WithoutStale(x, p)
      f == IF Continues(x, p) THEN x.conversations[p.source] ELSE NewConversation(p)
      begun == IF Continues(x, p) THEN 0 ELSE 1
  IN IF Refused(x, p, tracked) THEN [x EXCEPT !.conversations = kept]
     ELSE [x EXCEPT !.conversations = [k \in DOMAIN kept \union {p.source} |->
                                         IF k = p.source THEN Advance(f, p) ELSE kept[k]],
                    !.flows = @ + begun, !.current.flows = @ + begun,
                    !.current.connections = @ + (IF Opens(f, p) THEN 1 ELSE 0)]
TrackedAfter(x, p, tracked) ==
  FlowsLeft(x, p, tracked) + (IF Continues(x, p) \/ Refused(x, p, tracked) THEN 0 ELSE 1)
ObserveScope(x, p, keys, tracked) ==
  LET key == KeyFor(x.sources, p.source, keys) IN
  [scope |-> CountConversation([CountPacket(x, p) EXCEPT !.sources = Counted(@, key)], p, tracked),
   keys |-> keys + (IF key \in DOMAIN x.sources THEN 0 ELSE 1),
   tracked |-> TrackedAfter(x, p, tracked)]

\* Observe: the scope of all interfaces, then the interface's own if it may be made.
ObserveLive(p) ==
  LET all == ObserveScope(scopes[All], p, trackedKeys, trackedFlows)
      own == IF HasScope(p.iface) THEN scopes[p.iface] ELSE NewScope
      one == ObserveScope(own, p, all.keys, all.tracked)
  IN
  /\ live < MaxLivePackets /\ live' = live + 1
  /\ IF Ensured(p.iface)
     THEN /\ scopes' = [scopes EXCEPT ![All] = all.scope, ![p.iface] = one.scope]
          /\ trackedKeys' = one.keys /\ trackedFlows' = one.tracked
          /\ UNCHANGED limitedScopes
     ELSE /\ scopes' = [scopes EXCEPT ![All] = all.scope]
          /\ trackedKeys' = all.keys /\ trackedFlows' = all.tracked
          /\ limitedScopes' = TRUE
  /\ perIface' = [perIface EXCEPT ![p.iface] = @ + 1]
  /\ UNCHANGED <<wall, lastTickAt, shownByKernel, measures, kernelTotal>>
LivePackets == [iface : Ifaces, dir : Directions, source : Addresses, time : {wall},
            flag : {"none", "syn", "fin"}]

-----------------------------------------------------------------------------
\* Tick: every scope closes its current second; the kernel's counters are read
\* before (ReadInterfaces).
Bounded(points, p, max) == IF Len(points) = max THEN Append(Tail(points), p) ELSE Append(points, p)
AddPoint(a, b) ==
  [packets |-> [d \in Directions |-> a.packets[d] + b.packets[d]], seconds |-> a.seconds + b.seconds,
   flows |-> a.flows + b.flows, connections |-> a.connections + b.connections, rx |-> a.rx + b.rx,
   minute |-> b.minute]
\* A counter that went back is a gap, not a rate.
Delta(x, shown) == IF x.lastKernel >= 0 /\ shown >= x.lastKernel THEN shown - x.lastKernel ELSE 0
Second(n, x, now, shown) ==
  [x.current EXCEPT !.seconds = now - lastTickAt, !.minute = now \div SecondsPerMinute,
                    !.rx = IF n = All THEN 0 ELSE Delta(x, shown[n])]
RollsOver(x, p) == x.minute.minute # -1 /\ x.minute.minute # p.minute
TickScope(n, x, now, shown) ==
  LET p == Second(n, x, now, shown)
      minute == IF RollsOver(x, p) THEN NoPoint ELSE x.minute
  IN [x EXCEPT !.current = NoPoint, !.seconds = Bounded(@, p, Seconds),
               !.minutes = IF RollsOver(x, p) THEN Bounded(@, x.minute, Minutes) ELSE @,
               !.trimmed = @ + (IF RollsOver(x, p) /\ Len(x.minutes) = Minutes THEN 1 ELSE 0),
               !.minute = AddPoint(minute, p),
               !.lastKernel = IF n = All THEN -1 ELSE shown[n],
               !.conversations = [k \in {k \in DOMAIN @ : now - @[k].last <= IdleTime} |-> @[k]]]
\* The kernel shows every interface, so every one gets a scope while there is room.
Measured(kept) == [n \in Scopes |-> IF n \in kept /\ ~HasScope(n) THEN NewScope ELSE scopes[n]]
AsManyAsFit ==
  {kept \in SUBSET Scopes :
     /\ {n \in Scopes : HasScope(n)} \subseteq kept
     /\ IF Cardinality(Scopes) <= MaxScopes THEN kept = Scopes ELSE Cardinality(kept) = MaxScopes}
TrackedIn(all) == {<<n, k>> \in Scopes \X Addresses : all[n].exists /\ k \in DOMAIN all[n].conversations}
Measure(now, shown) ==
  /\ measures < MaxMeasures /\ measures' = measures + 1
  /\ wall' = now
  \* a counter that is less than before was reset
  /\ shownByKernel' = shown
  /\ kernelTotal' = [i \in Ifaces |-> kernelTotal[i] + shown[i]
                                       - (IF shown[i] >= shownByKernel[i] THEN shownByKernel[i] ELSE 0)]
  /\ IF now > lastTickAt
     THEN \E kept \in AsManyAsFit :
            LET ensured == Measured(kept) IN
            /\ scopes' = [n \in Scopes |-> IF n \in kept THEN TickScope(n, ensured[n], now, shown) ELSE NoScope]
            /\ trackedFlows' = trackedFlows - Cardinality(TrackedIn(scopes) \ TrackedIn(scopes'))
            /\ limitedScopes' = (limitedScopes \/ kept # Scopes)
            /\ lastTickAt' = now
     ELSE UNCHANGED <<scopes, trackedFlows, limitedScopes, lastTickAt>>
  /\ UNCHANGED <<trackedKeys, live, perIface>>

TelemetryNext ==
  \/ \E p \in LivePackets : ObserveLive(p)
  \/ \E now \in {wall - 1, wall + 1} \cap Nat, shown \in [Ifaces -> 0..MaxKernel] : Measure(now, shown)

-----------------------------------------------------------------------------
TotalOf(f) == FoldFunction(LAMBDA a, b : a + b, 0, f)
Existing == {n \in Scopes : HasScope(n)}
PacketsOf(points) == FoldLeft(LAMBDA a, b : a + TotalOf(b.packets), 0, points)
RxOf(points) == FoldLeft(LAMBDA a, b : a + b.rx, 0, points)

\* Nothing that was counted is lost or counted twice between the views of a scope:
\* its directions, its groups (what exceeds a limit stays in them) and, while no
\* minute is dropped for newer ones, its history and the second that is open.
ViewsAgree ==
  \A n \in Existing :
    LET x == scopes[n] IN
    /\ x.packets = TotalOf(x.directions) /\ x.packets = TotalOf(x.sources)
    /\ x.trimmed = 0
         => x.packets = PacketsOf(Append(Append(x.minutes, x.minute), x.current))
    /\ x.packets >= PacketsOf(x.seconds) + TotalOf(x.current.packets)
    /\ n # All => x.packets <= perIface[n]
\* ... and the interfaces are the parts of the whole, unless one had no room.
PartsOfWhole ==
  /\ scopes[All].packets = live
  /\ ~limitedScopes => \A i \in Ifaces : scopes[i].packets = perIface[i]
\* The limits on memory hold, and the counts they are enforced by are true.
LimitsHold ==
  /\ Cardinality(Existing) <= MaxScopes
  /\ trackedFlows = Cardinality(TrackedIn(scopes)) /\ trackedFlows <= MaxTrackedFlows
  /\ trackedKeys = TotalOf([n \in Existing |-> Cardinality(DOMAIN scopes[n].sources)])
  /\ \A n \in Existing : Cardinality(DOMAIN scopes[n].sources) <= MaxKeys + 1
\* A counter of the kernel that is reset is never a negative rate, nor more than
\* the kernel counted.
KernelRates ==
  \A i \in Ifaces :
    /\ RxOf(Append(scopes[i].minutes, scopes[i].minute)) <= kernelTotal[i]
    /\ \A j \in 1..Len(scopes[i].seconds) : scopes[i].seconds[j].rx >= 0

CountersTruthful == ViewsAgree /\ PartsOfWhole /\ LimitsHold /\ KernelRates
=============================================================================
