----------------------------- MODULE Attribution -----------------------------
(***************************************************************************)
(* Which process a packet belongs to (internal/procmap/procmap_linux.go).  *)
(* The tracker knows sockets from two sources: a snapshot of /proc, read   *)
(* every so often and after a miss, and events of the kernel, which the    *)
(* probe in internal/ebpfattr delivers late or not at all.  Meanwhile      *)
(* sockets close, and their ports are used again by other processes.       *)
(*                                                                         *)
(* Ends[f] lists the local ends of flow f (two on loopback, none when it   *)
(* is forwarded): the socket with exactly its addresses, those bound to    *)
(* its local address and port, and those bound to its port on any address. *)
(***************************************************************************)
EXTENDS Integers, Sequences, FiniteSets

CONSTANTS TrackedFlows, Sockets, Ends, Pids, Nobody,
          SensorPid,      \* the daemon itself
          KernelLife,     \* age at which a kernel event says nothing, 10 min
          KernelKeep, MaxKernelEntries, \* 2 min and 32768: pruning
          MissAge,        \* a miss reads a snapshot older than that, 200 ms
          OwnLife,        \* age of a snapshot that can hide traffic, 5 s
          LastInstant, MaxOpens, MaxLostEvents \* bounds

ASSUME AttributionAssumption ==
  /\ SensorPid \in Pids /\ Nobody \notin Pids
  /\ Ends \in [TrackedFlows -> Seq([exact : SUBSET Sockets, bound : SUBSET Sockets,
                                    any : SUBSET Sockets])]
  /\ {KernelLife, KernelKeep, MaxKernelEntries, MissAge, OwnLife, LastInstant, MaxOpens,
      MaxLostEvents} \subseteq Nat

Never == -1
VARIABLES instant,
          owner,     \* process that has the socket open
          inode,     \* number of the socket's opening
          opens,     \* openings so far
          heldAt,    \* heldAt[s][p]: when p last had s open (history)
          kernelEvents,    \* events of the kernel on their way
          lost,      \* sockets of events that were lost (history)
          kernelEntry,    \* kernelExact: process and time, for each socket
          snapshot,  \* the process of each socket in the last snapshot
          lastRefresh,
          reading    \* /proc/net as a refresh read it, inodes; 0 when closed
trackerVars == <<instant, owner, inode, opens, heldAt, kernelEvents, lost, kernelEntry, snapshot,
                 lastRefresh, reading>>

NoEntry == [pid |-> Nobody, time |-> Never]
NotReading == [s \in Sockets |-> Never]
AttributionInit ==
  /\ instant = 0 /\ opens = 0 /\ kernelEvents = <<>> /\ lost = {} /\ lastRefresh = Never
  /\ owner = [s \in Sockets |-> Nobody] /\ inode = [s \in Sockets |-> 0]
  /\ heldAt = [s \in Sockets |-> [p \in Pids |-> Never]]
  /\ kernelEntry = [s \in Sockets |-> NoEntry]
  /\ snapshot = [s \in Sockets |-> Nobody] /\ reading = NotReading

-----------------------------------------------------------------------------
\* Lookup.
Within(time, life) == time # Never /\ instant - time < life
ProcessesOf(ss) == {snapshot[s] : s \in ss} \ {Nobody}
Offer(source, pids) == [source |-> source, pids |-> pids]
KernelOffer(end) ==
  Offer("ebpf-socket", {kernelEntry[s].pid : s \in {s \in end.exact : Within(kernelEntry[s].time, KernelLife)}})
\* Of several sockets bound alike the order of /proc/net decides.
SnapshotOffers(end) ==
  << Offer("exact-socket", ProcessesOf(end.exact)),
     Offer("local-socket", ProcessesOf(end.bound)),
     Offer("wildcard-listener", ProcessesOf(end.any)) >>
Earliest(numbers) == CHOOSE i \in numbers : \A j \in numbers : i <= j
KernelKnows(f) == {i \in DOMAIN Ends[f] : KernelOffer(Ends[f][i]).pids # {}}
Matches(end) == {j \in 1..3 : SnapshotOffers(end)[j].pids # {}}
Mapped(f) == {i \in DOMAIN Ends[f] : Matches(Ends[f][i]) # {}}
\* The kernel's word for the first end that has one, else the closest match of
\* the first end that has any.
Lookup(f) ==
  IF KernelKnows(f) # {} THEN KernelOffer(Ends[f][Earliest(KernelKnows(f))])
  ELSE IF Mapped(f) # {} THEN LET end == Ends[f][Earliest(Mapped(f))]
                              IN  SnapshotOffers(end)[Earliest(Matches(end))]
  ELSE Offer(IF Ends[f] = <<>> THEN "forwarded" ELSE "socket-not-mapped", {})

\* OwnsConnection: is it the sensor's own traffic?
OwnsConnection(f) ==
  \E i \in DOMAIN Ends[f] : LET end == Ends[f][i] IN
    \/ \E s \in end.exact : kernelEntry[s].pid = SensorPid /\ Within(kernelEntry[s].time, KernelLife)
    \/ /\ Within(lastRefresh, OwnLife)
       /\ \E s \in end.exact \union end.bound \union end.any : snapshot[s] = SensorPid

-----------------------------------------------------------------------------
\* Processes open and close sockets.  The probe sees a connection being opened; an
\* opening it does not see (an accepted connection) is one whose event is lost.
Open(s, p) ==
  /\ opens < MaxOpens /\ owner[s] = Nobody /\ opens' = opens + 1
  /\ owner' = [owner EXCEPT ![s] = p] /\ inode' = [inode EXCEPT ![s] = opens']
  /\ heldAt' = [heldAt EXCEPT ![s][p] = instant]
  /\ kernelEvents' = Append(kernelEvents, [socket |-> s, pid |-> p])
  /\ UNCHANGED <<instant, lost, kernelEntry, snapshot, lastRefresh, reading>>
Close(s) ==
  /\ owner[s] # Nobody
  /\ owner' = [owner EXCEPT ![s] = Nobody] /\ inode' = [inode EXCEPT ![s] = 0]
  /\ UNCHANGED <<instant, opens, heldAt, kernelEvents, lost, kernelEntry, snapshot, lastRefresh, reading>>
Pass ==
  /\ instant < LastInstant /\ instant' = instant + 1
  /\ heldAt' = [s \in Sockets |-> [p \in Pids |-> IF owner[s] = p THEN instant' ELSE heldAt[s][p]]]
  /\ UNCHANGED <<owner, inode, opens, kernelEvents, lost, kernelEntry, snapshot, lastRefresh, reading>>

\* AddKernelEvent: first prunes what is old when there are too many.  The time of
\* an event is the time it arrives (ParseLine).
KernelEntries == {s \in Sockets : kernelEntry[s] # NoEntry}
PrunedEntries ==
  [s \in Sockets |-> IF Cardinality(KernelEntries) > MaxKernelEntries
                        /\ kernelEntry[s].time < instant - KernelKeep THEN NoEntry ELSE kernelEntry[s]]
AddKernelEvent ==
  /\ kernelEvents # <<>> /\ kernelEvents' = Tail(kernelEvents)
  /\ kernelEntry' = [PrunedEntries EXCEPT ![Head(kernelEvents).socket] =
                  [pid |-> Head(kernelEvents).pid, time |-> instant]]
  /\ UNCHANGED <<instant, owner, inode, opens, heldAt, lost, snapshot, lastRefresh, reading>>
LoseKernelEvent ==
  /\ kernelEvents # <<>> /\ kernelEvents' = Tail(kernelEvents)
  /\ Cardinality(lost) < MaxLostEvents /\ lost' = lost \union {Head(kernelEvents).socket}
  /\ UNCHANGED <<instant, owner, inode, opens, heldAt, kernelEntry, snapshot, lastRefresh, reading>>

\* Refresh, one at a time: /proc/net first, then the descriptors of every
\* process, by inode.  The ticker of Run calls it, and LookupFresh after a miss.
RefreshDue == instant > lastRefresh
Missed(f) ==
  /\ Lookup(f).source = "socket-not-mapped"
  /\ lastRefresh # Never /\ instant - lastRefresh > MissAge
RefreshBegin ==
  /\ reading = NotReading /\ (RefreshDue \/ \E f \in TrackedFlows : Missed(f))
  /\ reading' = inode
  /\ UNCHANGED <<instant, owner, inode, opens, heldAt, kernelEvents, lost, kernelEntry, snapshot, lastRefresh>>
ScannedOrKnown(s) == \* a plausible bug: what was known is not dropped
  IF reading[s] # 0 /\ inode[s] = reading[s] THEN owner[s] ELSE snapshot[s]
Scanned(s) == IF reading[s] # 0 /\ inode[s] = reading[s] THEN owner[s] ELSE Nobody
RefreshEnd ==
  /\ reading # NotReading /\ reading' = NotReading
  /\ snapshot' = [s \in Sockets |-> Scanned(s)] /\ lastRefresh' = instant
  /\ UNCHANGED <<instant, owner, inode, opens, heldAt, kernelEvents, lost, kernelEntry>>

AttributionNext ==
  \/ \E s \in Sockets, p \in Pids : Open(s, p)
  \/ \E s \in Sockets : Close(s)
  \/ Pass \/ AddKernelEvent \/ LoseKernelEvent \/ RefreshBegin \/ RefreshEnd
AttributionSpec == AttributionInit /\ [][AttributionNext]_trackerVars

-----------------------------------------------------------------------------
SocketsAt(f) ==
  UNION {Ends[f][i].exact \union Ends[f][i].bound \union Ends[f][i].any : i \in DOMAIN Ends[f]}
HeldSince(s, p, time) == heldAt[s][p] # Never /\ heldAt[s][p] >= time
LastHolder(s, p) == \A q \in Pids : heldAt[s][q] <= heldAt[s][p]
AllArrived(s) == s \notin lost /\ \A i \in DOMAIN kernelEvents : kernelEvents[i].socket # s

\* A process is named for a flow only if it held a socket of that flow: by the
\* snapshot, when the snapshot was taken; by a kernel event, the flow's very socket,
\* and unless an event of that socket was lost or is on its way, no other process has
\* held it since.  Traffic is hidden as the sensor's own only on the same evidence.
SocketsAttributed ==
  \A f \in TrackedFlows : LET found == Lookup(f) IN
    /\ \A p \in found.pids :
         IF found.source = "ebpf-socket"
         THEN \E i \in DOMAIN Ends[f] : \E s \in Ends[f][i].exact :
                HeldSince(s, p, 0) /\ (AllArrived(s) => LastHolder(s, p))
         ELSE \E s \in SocketsAt(f) : HeldSince(s, p, lastRefresh)
    /\ OwnsConnection(f) => \E s \in SocketsAt(f) :
         \/ HeldSince(s, SensorPid, instant - OwnLife + 1)
         \/ HeldSince(s, SensorPid, 0) /\ (AllArrived(s) => LastHolder(s, SensorPid))
=============================================================================
