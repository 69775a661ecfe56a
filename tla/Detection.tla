------------------------------- MODULE Detection -------------------------------
(***************************************************************************)
(* The intrusion detection engine (internal/ids/engine.go) and the         *)
(* findings it shares with the other detectors                             *)
(* (internal/pipeline/pipeline.go: onFinding, Findings, consumeFileUpdates,*)
(* addRuntimeEvent, startWASM).                                            *)
(*                                                                         *)
(* A packet says whom it is from, the host and port it is for, whether it  *)
(* began a flow, whether it is of a name query, answered with NXDOMAIN or  *)
(* not, and which signatures, indicators and custom rules it matches: what *)
(* the payload must look like for that is left out.  Each Observe runs     *)
(* under the engine's lock.  Times are those of the packets, and a         *)
(* replayed file brings times that lie in the past.                        *)
(***************************************************************************)
EXTENDS Integers, Sequences, FiniteSets, SequencesExt

CONSTANTS Actors, Hosts, Services, \* who contacts which host on which port
          RulesFile,           \* rules_file: a sequence of [id, enabled, status, complete]
          RuleLabMode, SignatureValid, MaxRules, \* settings, and the limit on rules
          PortScanPorts, HostSweepHosts, NXDomains, \* thresholds
          DetectionWindow,     \* WindowSeconds
          Mute,                \* two minutes: the same alert is not repeated
          SeenLife,            \* ten minutes: compactSeen drops older entries
          MaxSeen,             \* entries of the table before it is compacted
          MaxStateEvents,      \* maxIDSStateEvents
          MaxFindings, RecentFindings, \* kept; searched by AddFinding
          LastTime, MaxPackets, MaxOthers \* bounds

ASSUME DetectionAssumption ==
  /\ {PortScanPorts, HostSweepHosts, NXDomains, DetectionWindow, Mute, SeenLife, MaxSeen,
      MaxStateEvents, MaxFindings, RecentFindings, LastTime, MaxPackets, MaxOthers} \subseteq Nat
  /\ MaxFindings > 0 /\ MaxStateEvents > 0 /\ Mute > 0 /\ MaxRules \in Nat

VARIABLES findings,    \* e.findings, oldest first
          muted,       \* e.seen: the alert -> when it was last raised
          conns, names,\* e.conns, e.dns: the windows of the stateful detectors,
                       \* sets of events in the order of their numbers
          packetTime,  \* the time of the newest packet so far
          observed,    \* packets so far (bound)
          others,      \* findings other detectors have added (bound)
          contacts,    \* every connection and name query ever observed (history)
          raised,      \* every alert the engine ever raised (history)
          lastPacket,  \* the packet observed last (history)
          announced,   \* the newest findings handed to onFinding (history)
          inOrder      \* has no packet been older than one before (history)
detectionVars == <<findings, muted, conns, names, packetTime, observed, others, contacts, raised,
                   lastPacket, announced, inOrder>>

NoOne == CHOOSE a \in Actors : TRUE
Plain(t) == [time |-> t, actor |-> NoOne, host |-> CHOOSE h \in Hosts : TRUE,
             port |-> CHOOSE p \in Services : TRUE, created |-> FALSE, asks |-> FALSE, nx |-> FALSE,
             signs |-> {}]

DetectionInit ==
  /\ findings = <<>> /\ muted = <<>> /\ conns = {} /\ names = {}
  /\ packetTime = 0 /\ observed = 0 /\ others = 0
  /\ contacts = {} /\ raised = {} /\ announced = <<>> /\ inOrder = TRUE
  /\ lastPacket = Plain(0)

\* loadRules: no rule of a file whose signature is required and does not hold; of
\* the first MaxRules those that are enabled (drafts only in the rule lab) and
\* say what to match.
Loaded(r) ==
  r.enabled /\ r.complete
  /\ (r.status = "enabled" \/ (RuleLabMode /\ r.status \in {"draft", "test"}))
Rules ==
  IF ~SignatureValid THEN {}
  ELSE {RulesFile[i].id : i \in {j \in 1..Len(RulesFile) : j <= MaxRules /\ Loaded(RulesFile[j])}}

\* A packet of the small instance begins a flow, is of a name query (that failed,
\* or not) or matches a signature, one of these at a time.
Opening(t, a, h, s) == [Plain(t) EXCEPT !.created = TRUE, !.actor = a, !.host = h, !.port = s]
Asking(t, a, failed) == [Plain(t) EXCEPT !.asks = TRUE, !.nx = failed, !.actor = a]
Matching(t, x) == [Plain(t) EXCEPT !.signs = {x}]
PacketsAt(t) ==
  {Opening(t, a, h, s) : a \in Actors, h \in Hosts, s \in Services}
  \union {Asking(t, a, failed) : a \in Actors, failed \in BOOLEAN}
  \union {Matching(t, x) : x \in Rules}

Newest(seq, n) == IF Len(seq) > n THEN SubSeq(seq, Len(seq) - n + 1, Len(seq)) ELSE seq

\* compactSeen: entries older than SeenLife go, and if that is not enough any
\* others, until the table is within its limit.
Fresh(now) == {k \in DOMAIN muted : muted[k] >= now - SeenLife}
SeenTables(now) ==
  IF Cardinality(DOMAIN muted) <= MaxSeen THEN {muted}
  ELSE {[k \in keep |-> muted[k]] :
          keep \in {s \in SUBSET Fresh(now) :
                      \/ Cardinality(Fresh(now)) <= MaxSeen /\ s = Fresh(now)
                      \/ Cardinality(s) = MaxSeen}}

\* compactConns, compactDNS and the limit on both: what is too old for the packet
\* at hand goes, wherever it stands, and then the oldest entries.
Sighted(p) == [time |-> p.time, actor |-> p.actor, host |-> p.host, port |-> p.port, asks |-> p.asks,
               nx |-> p.nx, n |-> observed + 1]
LastOf(events) == {e \in events : Cardinality({x \in events : x.n > e.n}) < MaxStateEvents}
StrictWindow(events, now) ==  \* a plausible bug: the edge of the window is cut off
  LastOf({e \in events : e.time > now - DetectionWindow})
Window(events, now) == LastOf({e \in events : e.time >= now - DetectionWindow})
ConnsAfter(p) == IF p.created THEN Window(conns \union {Sighted(p)}, p.time) ELSE conns
NamesAfter(p) == IF p.asks THEN Window(names \union {Sighted(p)}, p.time) ELSE names

\* The two dimensions of a scan are counted apart: ports of one host, hosts of
\* one port.
PortsOn(events, actor, host) ==
  {e.port : e \in {e \in events : e.actor = actor /\ e.host = host}}
HostsOf(events, actor, port) ==
  {e.host : e \in {e \in events : e.actor = actor /\ e.port = port}}
ScanAlerts(events, p) ==
  {<<"ports", p.actor, p.host>> : x \in {y \in {p} : Cardinality(PortsOn(events, p.actor, p.host)) >= PortScanPorts}}
  \union {<<"hosts", p.actor, p.port>> :
            x \in {y \in {p} : Cardinality(HostsOf(events, p.actor, p.port)) >= HostSweepHosts}}
StatefulAlerts(p) ==
  (IF p.created THEN ScanAlerts(ConnsAfter(p), p) ELSE {})
  \union {<<"nxdomain", p.actor>> :
            x \in {y \in {p} : p.asks
              /\ Cardinality({e \in NamesAfter(p) : e.actor = p.actor /\ e.nx}) >= NXDomains}}
Alerts(p) == {<<"sign", s>> : s \in p.signs} \union StatefulAlerts(p)

\* add: an alert raised less than Mute ago is not raised again, and does not
\* count as raised.
Muted(table, k, now) == k \in DOMAIN table /\ now - table[k] < Mute
Raises(table, p) == {k \in Alerts(p) : ~Muted(table, k, p.time)}
Raise(table, keys, now) ==
  [k \in DOMAIN table \union keys |-> IF k \in keys THEN now ELSE table[k]]

\* The identity of a finding: the alert, the packet and the time of it.
Ids(keys, t) == {[key |-> k, time |-> t, n |-> observed + 1] : k \in keys}

ObservePacket(p) ==
  /\ observed < MaxPackets /\ observed' = observed + 1
  /\ \E table \in SeenTables(p.time) :
       LET new == Raises(table, p) IN
       /\ muted' = Raise(table, new, p.time)
       /\ findings' = Newest(findings \o SetToSeq(Ids(new, p.time)), MaxFindings)
       /\ announced' = Newest(announced \o SetToSeq(Ids(new, p.time)), MaxFindings)
       /\ raised' = {r \in raised : r.key \in DOMAIN table}
                      \union {[key |-> k, time |-> p.time] : k \in new}
  /\ conns' = ConnsAfter(p) /\ names' = NamesAfter(p)
  /\ contacts' = contacts \union {e \in {Sighted(p)} : p.created \/ p.asks}
  /\ inOrder' = (inOrder /\ p.time >= packetTime)
  /\ packetTime' = (IF p.time > packetTime THEN p.time ELSE packetTime)
  /\ lastPacket' = p
  /\ UNCHANGED others

\* AddFinding: what other detectors raise; one that is among the last
\* RecentFindings is not stored twice, but it is announced again.
IsRecent(id) == \E i \in 1..Len(findings) : i > Len(findings) - RecentFindings /\ findings[i] = id
AddFinding(id) ==
  /\ others < MaxOthers /\ others' = others + 1
  /\ findings' = (IF IsRecent(id) THEN findings ELSE Newest(Append(findings, id), MaxFindings))
  /\ announced' = Newest(Append(announced, id), MaxFindings)
  /\ UNCHANGED <<muted, conns, names, packetTime, observed, contacts, raised, lastPacket, inOrder>>

DetectionNext ==
  \/ \E t \in 0..LastTime : \E p \in PacketsAt(t) : ObservePacket(p)
  \/ \E k \in 1..2 : AddFinding([key |-> <<"other">>, time |-> 0, n |-> k])

-----------------------------------------------------------------------------
\* What the last packet completed, told from everything ever observed.
Recent(asks) ==
  {c \in contacts : c.asks = asks /\ c.time >= lastPacket.time - DetectionWindow
                      /\ c.time <= lastPacket.time}
ShouldBeRaised ==
  (IF lastPacket.created THEN ScanAlerts(Recent(FALSE), lastPacket) ELSE {})
  \union (IF lastPacket.asks
             /\ Cardinality({c \in Recent(TRUE) : c.actor = lastPacket.actor /\ c.nx}) >= NXDomains
          THEN {<<"nxdomain", lastPacket.actor>>} ELSE {})

\* A scan, a sweep or a run of failed names that is complete within the window is
\* raised by the packet that completes it, or was raised less than Mute before:
\* packets in order of time, and no more events in the window than it may hold.
ScansAreRaised ==
  (inOrder /\ \A asks \in BOOLEAN : Cardinality(Recent(asks)) <= MaxStateEvents)
    => \A k \in ShouldBeRaised :
         \E r \in raised : r.key = k /\ lastPacket.time - r.time < Mute

\* An alert is not raised twice within Mute, as long as the table remembers it,
\* not even when a replayed file brings back times that are over.
RaisedOncePerMute ==
  \A r, q \in raised : r.key = q.key /\ r.time < q.time => q.time - r.time >= Mute

AlertsInTime == ScansAreRaised /\ RaisedOncePerMute

\* What was announced can be looked up: the newest announcements, as many as the
\* store holds less those a repeated one may have been answered from, are in it.
AnnouncedIsListed ==
  \A i \in 1..Len(announced) :
    i > Len(announced) - (MaxFindings - RecentFindings + 1)
      => \E j \in 1..Len(findings) : findings[j] = announced[i]

\* An alert is told in time, once, and can be looked up.
AlertsTold == AlertsInTime /\ AnnouncedIsListed
=============================================================================
