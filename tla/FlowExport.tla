----------------------------- MODULE FlowExport -----------------------------
(***************************************************************************)
(* One NetFlow/IPFIX collector worker (internal/flowexport/manager.go) fed *)
(* by the flow store (internal/flow/store.go).                             *)
(*                                                                         *)
(* Every observed packet raises the cumulative counters of its flow and    *)
(* publishes a copy of the flow; the copy is queued for the worker or, at  *)
(* the queue's limit, dropped.  The worker keeps the last copy and what it *)
(* has exported of it, and at a tick exports the difference of every flow  *)
(* that is due.  Packets and bytes grow together, so one counter stands    *)
(* for both; a clock comparison is a flag that the passing of time raises; *)
(* the delays between two dials are left out.  A datagram whose write      *)
(* succeeds reaches the collector.                                         *)
(***************************************************************************)
EXTENDS Naturals, Sequences, FiniteSets, Functions

CONSTANTS Flows,         \* flow identifiers (hashes of the 5-tuple)
          Unencodable,   \* the flows encode rejects (IPv6 for netflow5)
          QueueSize,     \* capacity of the worker's queue
          MaxPackets,    \* bound on the packets of all flows
          MaxFailures,   \* bound on failed dials and failed writes
          MaxReconfigs   \* bound on edits of the collector

ASSUME ExportAssumption ==
         /\ Unencodable \subseteq Flows
         /\ QueueSize \in Nat \ {0}
         /\ {MaxPackets, MaxFailures, MaxReconfigs} \subseteq Nat

VARIABLES store,      \* counters of the flow store; zero when it has no entry
          total,      \* packets observed since the start (history)
          queue,      \* the worker's queue of flow copies
          active,     \* w.active: a set of flow states, at most one per flow
          conn,       \* is the UDP connection open
          pending,    \* flows the current flushDue has still to visit
          collector,  \* what the collector has received
          epochs,     \* flow states created for each flow (history)
          failures, reconfigs

vars == <<store, total, queue, active, conn, pending, collector, epochs,
          failures, reconfigs>>

Dirs == {"tx", "rx"}
Counters == [Dirs -> Nat]
Zero == [d \in Dirs |-> 0]
Plus(a, b) == [d \in Dirs |-> a[d] + b[d]]
Leq(a, b) == \A d \in Dirs : a[d] <= b[d]

\* idle: now - updated >= inactive timeout; aged: now - lastExport >= active
\* timeout.  base is what the collector had when the state was created, seen
\* what had been observed when the copy was published (history).
FlowCopy == [flow : Flows, snap : Counters, seen : Counters]
FlowState == [flow : Flows, snap : Counters, seen : Counters, exported : Counters,
              idle : BOOLEAN, aged : BOOLEAN, base : Counters]
ActiveFlows == {s.flow : s \in active}
State(f) == CHOOSE s \in active : s.flow = f
Replace(f, s) == {t \in active : t.flow # f} \cup {s}

Init ==
  /\ store = [f \in Flows |-> Zero] /\ total = [f \in Flows |-> Zero]
  /\ queue = <<>> /\ active = {} /\ conn = FALSE /\ pending = {}
  /\ collector = [f \in Flows |-> Zero]
  /\ epochs = [f \in Flows |-> 0]
  /\ failures = 0 /\ reconfigs = 0

-----------------------------------------------------------------------------
Packets == FoldFunctionOnSet(+, 0, [f \in Flows |-> total[f]["tx"] + total[f]["rx"]], Flows)

\* flow.Store.Observe, the flow event, and the worker's bounded queue.
Observe(f, d) ==
  /\ Packets < MaxPackets
  /\ store' = [store EXCEPT ![f][d] = @ + 1]
  /\ total' = [total EXCEPT ![f][d] = @ + 1]
  /\ queue' = IF Len(queue) < QueueSize
                THEN Append(queue, [flow |-> f, snap |-> store'[f], seen |-> total'[f]])
                ELSE queue
  /\ UNCHANGED <<active, conn, pending, collector, epochs, failures, reconfigs>>

\* flow.Store.GC drops an entry; the same 5-tuple later starts again from zero.
GC(f) ==
  /\ store[f] # Zero
  /\ store' = [store EXCEPT ![f] = Zero]
  /\ UNCHANGED <<total, queue, active, conn, pending, collector, epochs,
                 failures, reconfigs>>

\* The flow branch of worker.run.
Receive ==
  /\ pending = {} /\ queue # <<>>
  /\ LET j == Head(queue)
         s == IF j.flow \in ActiveFlows THEN State(j.flow)
              ELSE [flow |-> j.flow, snap |-> Zero, seen |-> Zero, exported |-> Zero,
                    idle |-> FALSE, aged |-> FALSE, base |-> collector[j.flow]]
     IN /\ active' = Replace(j.flow, [s EXCEPT !.snap = j.snap, !.seen = j.seen,
                                                 !.idle = FALSE])
        /\ epochs' = IF j.flow \in ActiveFlows THEN epochs
                     ELSE [epochs EXCEPT ![j.flow] = @ + 1]
  /\ queue' = Tail(queue)
  /\ UNCHANGED <<store, total, conn, pending, collector, failures, reconfigs>>

\* Time passes until a flow reaches its inactive or its active timeout.  The
\* "now" of a tick is fixed, so the flags do not move while it is handled.
InactiveElapses(f) ==
  /\ pending = {} /\ f \in ActiveFlows /\ ~State(f).idle
  /\ active' = Replace(f, [State(f) EXCEPT !.idle = TRUE])
  /\ UNCHANGED <<store, total, queue, conn, pending, collector, epochs,
                 failures, reconfigs>>

ActiveElapses(f) ==
  /\ pending = {} /\ f \in ActiveFlows /\ ~State(f).aged
  /\ active' = Replace(f, [State(f) EXCEPT !.aged = TRUE])
  /\ UNCHANGED <<store, total, queue, conn, pending, collector, epochs,
                 failures, reconfigs>>

-----------------------------------------------------------------------------
\* The tick branch: dial when there is no connection, then start flushDue.
TickDialFails ==
  /\ pending = {} /\ active # {} /\ ~conn
  /\ failures < MaxFailures /\ failures' = failures + 1
  /\ UNCHANGED <<store, total, queue, active, conn, pending, collector, epochs,
                 reconfigs>>

Due(s) == s.idle \/ s.aged

\* A tick at which no flow is due changes nothing but the connection.
Tick ==
  /\ pending = {} /\ active # {}
  /\ conn' = TRUE
  /\ pending' = IF \E s \in active : Due(s) THEN ActiveFlows ELSE {}
  /\ UNCHANGED <<store, total, queue, active, collector, epochs, failures,
                 reconfigs>>

\* deltaFlow: the exported counters restart from zero when the flow's did.
Restarted(s) == \E d \in Dirs : s.snap[d] < s.exported[d]
Credit(s) == IF Restarted(s) THEN Zero ELSE s.exported
Delta(s) == [d \in Dirs |-> s.snap[d] - Credit(s)[d]]

\* directionalFlows: the outbound record, then the inbound one.
Records(delta) == SelectSeq(<<"tx", "rx">>, LAMBDA d : delta[d] > 0)
FirstRecords(delta, k) ==
  [d \in Dirs |-> IF \E i \in 1..k : Records(delta)[i] = d THEN delta[d] ELSE 0]

\* The loop of flushDue visits the map in any order.
FlushSkip(f) ==
  /\ f \in pending /\ ~Due(State(f))
  /\ pending' = pending \ {f}
  /\ UNCHANGED <<store, total, queue, active, conn, collector, epochs, failures,
                 reconfigs>>

\* Mutant: the exported counters are not advanced.
FlushExportForgetsCredit(f) ==
  /\ f \in pending /\ Due(State(f))
  /\ LET s == State(f) IN
     /\ f \in Unencodable => Delta(s) = Zero
     /\ collector' = [collector EXCEPT ![f] = Plus(@, Delta(s))]
     /\ active' = IF s.idle THEN active \ {s}
                  ELSE Replace(f, [s EXCEPT !.exported = Credit(s), !.aged = FALSE])
  /\ pending' = pending \ {f}
  /\ UNCHANGED <<store, total, queue, conn, epochs, failures, reconfigs>>

\* Mutant: a flow is retired only when it had something to export.
FlushExportKeepsUnchanged(f) ==
  /\ f \in pending /\ Due(State(f))
  /\ LET s == State(f) IN
     /\ f \in Unencodable => Delta(s) = Zero
     /\ collector' = [collector EXCEPT ![f] = Plus(@, Delta(s))]
     /\ active' = IF s.idle /\ Delta(s) # Zero THEN active \ {s}
                  ELSE Replace(f, [s EXCEPT !.exported = s.snap, !.aged = FALSE])
  /\ pending' = pending \ {f}
  /\ UNCHANGED <<store, total, queue, conn, epochs, failures, reconfigs>>

\* Every record of the difference is written: credit it, restart the active
\* timeout, and retire the state of an idle flow.
FlushExport(f) ==
  /\ f \in pending /\ Due(State(f))
  /\ LET s == State(f) IN
     /\ f \in Unencodable => Delta(s) = Zero
     /\ collector' = [collector EXCEPT ![f] = Plus(@, Delta(s))]
     /\ active' = IF s.idle THEN active \ {s}
                  ELSE Replace(f, [s EXCEPT !.exported = s.snap, !.aged = FALSE])
  /\ pending' = pending \ {f}
  /\ UNCHANGED <<store, total, queue, conn, epochs, failures, reconfigs>>

\* Mutant: an idle state is deleted although its last export failed.
FlushFailsRetires(f) ==
  /\ f \in pending /\ Due(State(f)) /\ Delta(State(f)) # Zero
  /\ failures < MaxFailures /\ failures' = failures + 1
  /\ active' = IF State(f).idle THEN active \ {State(f)} ELSE active
  /\ conn' = FALSE /\ pending' = {}
  /\ UNCHANGED <<store, total, queue, collector, epochs, reconfigs>>

\* encode or a write fails after k records: nothing is credited, the rest of
\* the loop is abandoned and the connection is closed.
FlushFails(f) ==
  /\ f \in pending /\ Due(State(f))
  /\ LET s == State(f) IN
     /\ Delta(s) # Zero
     /\ \E k \in 0..(Len(Records(Delta(s))) - 1) :
          /\ \/ f \in Unencodable /\ k = 0 /\ UNCHANGED failures
             \/ /\ f \notin Unencodable
                /\ failures < MaxFailures /\ failures' = failures + 1
          /\ collector' =
               [collector EXCEPT ![f] = Plus(@, FirstRecords(Delta(s), k))]
     /\ active' = Replace(f, [s EXCEPT !.exported = Credit(s)])
  /\ conn' = FALSE /\ pending' = {}
  /\ UNCHANGED <<store, total, queue, epochs, reconfigs>>

\* Upsert, or Enable off and on: a new worker with empty state.  The cancelled
\* one shares nothing with it, so letting it end its loop first loses nothing.
Reconfigure ==
  /\ pending = {}
  /\ reconfigs < MaxReconfigs /\ reconfigs' = reconfigs + 1
  /\ queue' = <<>> /\ active' = {} /\ conn' = FALSE
  /\ UNCHANGED <<store, total, pending, collector, epochs, failures>>

-----------------------------------------------------------------------------
Flush(f) == FlushSkip(f) \/ FlushExport(f) \/ FlushFails(f)

Next ==
  \/ \E f \in Flows : \/ \E d \in Dirs : Observe(f, d)
                      \/ GC(f)
                      \/ InactiveElapses(f) \/ ActiveElapses(f)
                      \/ Flush(f)
  \/ Receive \/ TickDialFails \/ Tick \/ Reconfigure

Spec == Init /\ [][Next]_vars

\* The worker's select serves its queue and its ticker, and time passes
\* whatever the worker does in between.
FairSpec ==
  /\ Spec
  /\ WF_vars(Receive) /\ WF_vars(\E f \in Flows : Flush(f))
  /\ SF_vars(Tick)
  /\ \A f \in Flows : SF_vars(InactiveElapses(f))

-----------------------------------------------------------------------------
\* The types of the store, the queue, the flow states and the collector.
TypeOK ==
  /\ store \in [Flows -> Counters] /\ total \in [Flows -> Counters]
  /\ queue \in Seq(FlowCopy) /\ Len(queue) <= QueueSize
  /\ active \subseteq FlowState
  /\ \A s, t \in active : s.flow = t.flow => s = t
  /\ conn \in BOOLEAN /\ pending \subseteq ActiveFlows
  /\ collector \in [Flows -> Counters] /\ epochs \in [Flows -> Nat]
  /\ failures \in 0..MaxFailures /\ reconfigs \in 0..MaxReconfigs

\* A state is retired only after all of its last copy has been sent ("Inactive
\* timeout exports only the remaining delta and retires the exporter state",
\* docs/EXPORT_SYSLOG_FLOW.md:148), also when earlier writes failed.
RetireSendsEverything ==
  [][\A s \in active :
       s.flow \notin {t.flow : t \in active'} /\ reconfigs' = reconfigs
         => Leq(Plus(s.base, s.snap), collector'[s.flow])]_vars

\* "delta counters across active-timeout exports to prevent collector
\* double-counting" (README.md:255): the periodic exports of a flow's first
\* exporter state never add up to more than what was observed, also across
\* queue drops and restarts of the flow's counters.  It holds until a write
\* fails: when the second record of a flow is refused nothing is credited and
\* the first is sent again.  Nor does it hold for a later state of the flow,
\* which exports again what the store still counts.
FirstStateExact ==
  failures = 0 =>
    \A f \in Flows : epochs[f] <= 1 => Leq(collector[f], total[f])
ExportsExact == TypeOK /\ FirstStateExact

\* Every flow the worker learns of is eventually retired, with everything
\* sent (RetireSendsEverything), once the collector stays reachable and unless
\* the worker holds a flow that encode rejects: that flow fails every tick.
EveryFlowRetires ==
  \A f \in Flows : f \in ActiveFlows ~>
    f \notin ActiveFlows \/ ActiveFlows \cap Unencodable # {}
=============================================================================
