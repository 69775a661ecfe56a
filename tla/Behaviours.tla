----------------------------- MODULE Behaviours -----------------------------
(***************************************************************************)
(* What the behaviour of processes gives away: the anomaly engine          *)
(* (internal/anomaly/engine.go) and the lateral movement engine            *)
(* (internal/lateral/engine.go).  Both keep the flows created within a     *)
(* window and count the hosts that one actor reached; the first also       *)
(* looks for bursts, for regular intervals and for volume, and mutes an    *)
(* alert of the same rule and flow.  All times are times of packets: a     *)
(* capture that is replayed next to the live one takes them back.          *)
(*                                                                         *)
(* Scores, entropy and the tolerated jitter are left out: intervals are    *)
(* regular when they are equal.  Users, for the lateral engine, and        *)
(* processes, for the other, are one set of actors.                        *)
(***************************************************************************)
EXTENDS Integers, Sequences, FiniteSets

CONSTANTS Programs, RemoteHosts,
          FanOutHosts, LateralHosts, BurstFlows, RegularSamples, \* thresholds
          KeptSamples,     \* intervals are told from at most 12 flows
          EventWindow,     \* 60 s
          BurstWindow,     \* 10 s
          LateralWindow, AlertMute, \* 2 min each
          MaxAlerts,       \* alerts kept, 5000
          LastPacketTime, MaxCreated, MaxVolumePackets \* bounds

ASSUME BehavioursAssumption ==
  /\ {FanOutHosts, LateralHosts, BurstFlows, RegularSamples, KeptSamples, EventWindow,
      BurstWindow, LateralWindow, AlertMute, MaxAlerts, LastPacketTime, MaxCreated,
      MaxVolumePackets} \subseteq Nat
  /\ RegularSamples >= 2 /\ LateralWindow > 0

VARIABLES newFlows,   \* every flow created, in order (history)
          windowed,   \* anomaly: events
          reached,    \* lateral: events
          samples,    \* beacons: times of an actor's flows to a host
          alerts,     \* anomaly: alerts
          alertedAt,  \* anomaly: seen, time of the last alert of a rule and a flow
          everAlerted,\* all alerts (history)
          lateral,    \* findings of the last flow
          volume      \* packets so far of flows that exceed the volume (bound)
behaviourVars == <<newFlows, windowed, reached, samples, alerts, alertedAt, everAlerted,
                   lateral, volume>>

Pairs == Programs \X RemoteHosts
BehavioursInit ==
  /\ newFlows = <<>> /\ windowed = {} /\ reached = {} /\ samples = [q \in Pairs |-> <<>>]
  /\ alerts = <<>> /\ alertedAt = <<>> /\ everAlerted = {} /\ lateral = {} /\ volume = 0

-----------------------------------------------------------------------------
\* Events later than now stay: they are after the cut, too.
AfterEdge(t, now, length) == t >= now - length \* a plausible bug
After(t, now, length) == t > now - length
InWindow(t, now, length) == After(t, now, length)
Compacted(flows, now, length) == {f \in flows : InWindow(f.time, now, length)}
HostsReached(flows, actor) == {f.remote : f \in {g \in flows : g.actor = actor}}

LastSamples(ts) == SubSeq(ts, IF Len(ts) > KeptSamples THEN Len(ts) - KeptSamples + 1 ELSE 1, Len(ts))
Regular(ts) ==
  /\ Len(ts) >= RegularSamples /\ ts[2] > ts[1]
  /\ \A i \in 1..(Len(ts) - 1) : ts[i + 1] - ts[i] = ts[2] - ts[1]

\* alert, for each rule that applies: unless it is muted for the flow.
IsMuted(rule, n, now) ==
  <<rule, n>> \in DOMAIN alertedAt /\ now - alertedAt[<<rule, n>>] < AlertMute
NewestAlerts(list) ==
  SubSeq(list, IF Len(list) > MaxAlerts THEN Len(list) - MaxAlerts + 1 ELSE 1, Len(list))
Alert(rule, n, now) == [rule |-> rule, flow |-> n, time |-> now]
AlertIf(applies, rule, n, now) ==
  IF applies /\ ~IsMuted(rule, n, now) THEN <<Alert(rule, n, now)>> ELSE <<>>
Raised(rules, n, now) == \* in the order of the code
  LET raise(rule) == AlertIf(rule \in rules, rule, n, now)
  IN  raise("exfil-volume") \o raise("fanout") \o raise("connection-burst") \o raise("beacon")
AlertsFor(rules, n, now) ==
  LET raised == Raised(rules, n, now)
      keys   == {<<raised[i].rule, n>> : i \in DOMAIN raised}
  IN  /\ alertedAt' = [k \in DOMAIN alertedAt \union keys |-> IF k \in keys THEN now ELSE alertedAt[k]]
      /\ alerts' = NewestAlerts(alerts \o raised)
      /\ everAlerted' = everAlerted \union {raised[i] : i \in DOMAIN raised}

\* Observe of the anomaly engine, for a flow that was just created.
FlowRules(events, f, ts) ==
  (IF Cardinality(HostsReached(events, f.actor)) >= FanOutHosts THEN {"fanout"} ELSE {})
  \union (IF Cardinality({g \in events : g.actor = f.actor /\ InWindow(g.time, f.time, BurstWindow)})
             >= BurstFlows THEN {"connection-burst"} ELSE {})
  \union (IF Regular(ts) THEN {"beacon"} ELSE {})
ObserveAnomaly(f) ==
  LET pair == <<f.actor, f.remote>> IN
  /\ windowed' = Compacted(windowed \union {f}, f.time, EventWindow)
  /\ samples' = [samples EXCEPT ![pair] = LastSamples(Append(@, f.time))]
  /\ AlertsFor(FlowRules(windowed', f, samples'[pair]), f.n, f.time)

\* Observe of the lateral engine: only flows to a service of remote access; the
\* event is added after the others are compacted.
ObserveLateral(f) ==
  /\ reached' = IF f.service THEN Compacted(reached, f.time, LateralWindow) \union {f} ELSE reached
  /\ lateral' = IF f.service /\ Cardinality(HostsReached(reached', f.actor)) >= LateralHosts
                THEN {[flow |-> f.n, hosts |-> HostsReached(reached', f.actor)]} ELSE {}

FlowCreated(actor, remote, service, time) ==
  LET f == [actor |-> actor, remote |-> remote, service |-> service, time |-> time,
            n |-> Len(newFlows) + 1]
  IN  /\ Len(newFlows) < MaxCreated /\ newFlows' = Append(newFlows, f)
      /\ ObserveAnomaly(f) /\ ObserveLateral(f)
      /\ UNCHANGED volume

\* A later packet of flow n, whose bytes exceed the threshold.
VolumePacket(n, time) ==
  /\ volume < MaxVolumePackets /\ volume' = volume + 1
  /\ AlertsFor({"exfil-volume"}, n, time)
  /\ UNCHANGED <<newFlows, windowed, reached, samples, lateral>>

BehavioursNext ==
  \/ \E a \in Programs, r \in RemoteHosts, s \in BOOLEAN, t \in 0..LastPacketTime :
       FlowCreated(a, r, s, t)
  \/ \E n \in DOMAIN newFlows, t \in 0..LastPacketTime : VolumePacket(n, t)
BehavioursSpec == BehavioursInit /\ [][BehavioursNext]_behaviourVars

-----------------------------------------------------------------------------
FlowsBefore(n) == {newFlows[i] : i \in 1..n}
Monotonic(n) == \A i, j \in 1..n : i <= j => newFlows[i].time <= newFlows[j].time
FanOutFlows(n) ==
  {f \in FlowsBefore(n) : f.actor = newFlows[n].actor /\ f.time > newFlows[n].time - EventWindow}
LateralFlows(n) ==
  {f \in FlowsBefore(n) : /\ f.actor = newFlows[n].actor /\ f.service
                          /\ f.time > newFlows[n].time - LateralWindow}

\* Whatever the times, an alert about many hosts, a burst or an interval, and a
\* finding of lateral movement, rests on flows of that actor that are younger than the
\* window reaches back; while packets come in the order of their times there is an
\* alert exactly when the flows of the window call for one.  Two alerts of one rule and
\* flow are at least the mute time apart, and the list holds the newest.
FanOutTold(n) == \E a \in everAlerted : a.rule = "fanout" /\ a.flow = n
BehavioursTold ==
  /\ \A n \in DOMAIN newFlows :
       LET hosts == {f.remote : f \in FanOutFlows(n)} IN
       /\ FanOutTold(n) => Cardinality(hosts) >= FanOutHosts
       /\ Monotonic(n) => (FanOutTold(n) <=> Cardinality(hosts) >= FanOutHosts)
  /\ newFlows # <<>> => LET n == Len(newFlows) IN
       /\ \A x \in lateral : x.hosts \subseteq {f.remote : f \in LateralFlows(n)}
       /\ Monotonic(n) /\ newFlows[n].service =>
            (lateral # {} <=> Cardinality({f.remote : f \in LateralFlows(n)}) >= LateralHosts)
  /\ \A a, b \in everAlerted :
       a.rule = b.rule /\ a.flow = b.flow /\ a # b => a.time - b.time >= AlertMute \/ b.time - a.time >= AlertMute
  /\ Len(alerts) <= MaxAlerts /\ {alerts[i] : i \in DOMAIN alerts} \subseteq everAlerted
  /\ Cardinality(everAlerted) >= MaxAlerts => Len(alerts) = MaxAlerts
=============================================================================
