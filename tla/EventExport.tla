----------------------------- MODULE EventExport -----------------------------
(***************************************************************************)
(* The path of a telemetry event from the event bus                        *)
(* (internal/eventbus/bus.go) to the remote syslog destinations            *)
(* (internal/syslogexport/manager.go): the manager's bounded subscription, *)
(* its dispatch goroutine, one worker with a bounded queue for every       *)
(* enabled destination, and the calls that change destinations while       *)
(* events flow.                                                            *)
(*                                                                         *)
(* An event is its number; only its category matters.  The dispatcher      *)
(* takes an event before it locks the manager, so a call may come in       *)
(* between.  A worker that was cancelled may still handle events until its *)
(* select picks the closed context.                                        *)
(***************************************************************************)
EXTENDS Naturals, Sequences, FiniteSets, SequencesExt

CONSTANTS Dests,            \* identifiers of destinations
          Categories,       \* categories of events
          Wants,            \* the categories each destination subscribes to
          BusSize,          \* capacity of the subscription
          QueueSize,        \* capacity of a worker's queue
          MaxBackoff,       \* the longest wait before a dial, in seconds (30)
          MaxEvents,        \* bound on the events published
          MaxWorkers,       \* bound on the workers started
          MaxFailures       \* bound on failed dials, writes and saves together

ASSUME EventExportAssumption ==
         /\ IsFiniteSet(Dests) /\ Wants \in [Dests -> SUBSET Categories]
         /\ {BusSize, QueueSize, MaxBackoff} \subseteq Nat \ {0}
         /\ {MaxEvents, MaxWorkers, MaxFailures} \subseteq Nat

VARIABLES published,   \* the categories of the events published (history)
          bus,         \* sub.C, empty and unused before Start
          busDropped,  \* events the subscription dropped
          started,     \* has Start run
          hand,        \* events the dispatcher holds: none or one
          cfg,         \* m.cfg: "absent", "off" or "on"
          worker,      \* m.workers: the worker of a destination, 0 for none
          workers,     \* every worker started, in order
          netFailures, saveFailures

vars == <<published, bus, busDropped, started, hand, cfg, worker, workers,
          netFailures, saveFailures>>

Events == 1..MaxEvents
Backoffs == 0..MaxBackoff
CanFail == netFailures + saveFailures < MaxFailures

Init ==
  /\ published = <<>> /\ bus = <<>> /\ busDropped = {} /\ hand = {}
  /\ started = FALSE
  /\ cfg \in [Dests -> {"absent", "off", "on"}]    \* load
  /\ worker = [d \in Dests |-> 0] /\ workers = <<>>
  /\ netFailures = 0 /\ saveFailures = 0

\* startWorkerLocked for a set of destinations; born is the number of events
\* published before the worker existed.
NewWorker(d) == [dest |-> d, born |-> Len(published), live |-> TRUE, phase |-> "select",
                 q |-> <<>>, conn |-> FALSE, backoff |-> 0,
                 sent |-> <<>>, failed |-> {}, dropped |-> {}]

CancelWorker(d) ==
  IF worker[d] = 0 THEN workers ELSE [workers EXCEPT ![worker[d]].live = FALSE]

\* Start: subscribe and start the enabled destinations in any order.
Start ==
  /\ ~started /\ started' = TRUE
  /\ \E order \in SetToSeqs({d \in Dests : cfg[d] = "on"}) :
       /\ Len(order) <= MaxWorkers
       /\ workers' = [i \in 1..Len(order) |-> NewWorker(order[i])]
       /\ worker' = [d \in Dests |->
                       IF cfg[d] # "on" THEN 0
                       ELSE CHOOSE i \in 1..Len(order) : order[i] = d]
  /\ UNCHANGED <<published, bus, busDropped, hand, cfg, netFailures, saveFailures>>

-----------------------------------------------------------------------------
\* Bus.Publish never waits: a full subscription drops its copy.
Publish(c) ==
  /\ Len(published) < MaxEvents
  /\ published' = Append(published, c)
  /\ LET e == Len(published') IN
     IF ~started THEN UNCHANGED <<bus, busDropped>>
     ELSE IF Len(bus) < BusSize THEN bus' = Append(bus, e) /\ UNCHANGED busDropped
     ELSE busDropped' = busDropped \cup {e} /\ UNCHANGED bus
  /\ UNCHANGED <<started, hand, cfg, worker, workers, netFailures, saveFailures>>

Take ==
  /\ hand = {} /\ bus # <<>>
  /\ hand' = {Head(bus)} /\ bus' = Tail(bus)
  /\ UNCHANGED <<published, busDropped, started, cfg, worker, workers,
                 netFailures, saveFailures>>

Offered(w, e) ==
  IF published[e] \notin Wants[w.dest] THEN w
  ELSE IF Len(w.q) < QueueSize THEN [w EXCEPT !.q = Append(@, e)]
  ELSE [w EXCEPT !.dropped = @ \cup {e}]

\* Mutant: a full queue ends the round, later workers do not get the event.
OfferUntilFull ==
  /\ \E e \in hand :
       workers' = [i \in 1..Len(workers) |->
                     IF /\ worker[workers[i].dest] = i
                        /\ \A j \in 1..(i - 1) : Len(workers[j].q) < QueueSize
                       THEN Offered(workers[i], e) ELSE workers[i]]
  /\ hand' = {}
  /\ UNCHANGED <<published, bus, busDropped, started, cfg, worker,
                 netFailures, saveFailures>>

\* The region of dispatch under the manager's read lock.
Offer ==
  /\ \E e \in hand :
       workers' = [i \in 1..Len(workers) |->
                     IF worker[workers[i].dest] = i THEN Offered(workers[i], e)
                     ELSE workers[i]]
  /\ hand' = {}
  /\ UNCHANGED <<published, bus, busDropped, started, cfg, worker,
                 netFailures, saveFailures>>

-----------------------------------------------------------------------------
\* Mutant: the running worker is replaced without being cancelled.
ReconfigureKeepsOld(d, value) ==
  /\ cfg' = [cfg EXCEPT ![d] = value]
  /\ IF value = "on" /\ started
       THEN /\ Len(workers) < MaxWorkers
            /\ workers' = Append(workers, NewWorker(d))
            /\ worker' = [worker EXCEPT ![d] = Len(workers')]
       ELSE workers' = workers /\ worker' = [worker EXCEPT ![d] = 0]
  /\ UNCHANGED <<published, bus, busDropped, started, hand, netFailures, saveFailures>>

\* Mutant: the new worker takes over a copy of the queue of the old one.
ReconfigureInherits(d, value) ==
  /\ cfg' = [cfg EXCEPT ![d] = value]
  /\ IF value = "on" /\ started
       THEN /\ Len(workers) < MaxWorkers
            /\ workers' = Append(CancelWorker(d),
                 [NewWorker(d) EXCEPT !.q = IF worker[d] = 0 THEN <<>>
                                            ELSE workers[worker[d]].q])
            /\ worker' = [worker EXCEPT ![d] = Len(workers')]
       ELSE workers' = CancelWorker(d) /\ worker' = [worker EXCEPT ![d] = 0]
  /\ UNCHANGED <<published, bus, busDropped, started, hand, netFailures, saveFailures>>

\* Upsert and Enable: the old worker is cancelled, the configuration saved, and
\* a new worker started.  A failed save returns before the new worker.
Reconfigure(d, value) ==
  /\ cfg' = [cfg EXCEPT ![d] = value]
  /\ \/ /\ value = "on" /\ started
        /\ Len(workers) < MaxWorkers
        /\ workers' = Append(CancelWorker(d), NewWorker(d))
        /\ worker' = [worker EXCEPT ![d] = Len(workers')]
        /\ UNCHANGED saveFailures
     \/ /\ value # "on" \/ ~started
        /\ workers' = CancelWorker(d) /\ worker' = [worker EXCEPT ![d] = 0]
        /\ UNCHANGED saveFailures
     \/ /\ CanFail /\ saveFailures' = saveFailures + 1
        /\ workers' = CancelWorker(d) /\ worker' = [worker EXCEPT ![d] = 0]
  /\ UNCHANGED <<published, bus, busDropped, started, hand, netFailures>>

Upsert(d) == \E value \in {"on", "off"} : Reconfigure(d, value)
Enable(d) == cfg[d] # "absent" /\ Upsert(d)
Delete(d) == cfg[d] # "absent" /\ Reconfigure(d, "absent")

-----------------------------------------------------------------------------
\* worker.run.  A worker handles the event at the head of its queue.
Ready(i) == workers[i].phase = "select" /\ workers[i].q # <<>>
Became(i, w) ==
  /\ workers' = [workers EXCEPT ![i] = w]
  /\ UNCHANGED <<published, bus, busDropped, started, hand, cfg, worker, saveFailures>>
NetFailure == CanFail /\ netFailures' = netFailures + 1

\* The connection is open or can be dialled, and the write succeeds.
Send(i) ==
  /\ Ready(i)
  /\ LET w == workers[i] IN
     Became(i, [w EXCEPT !.q = Tail(@), !.sent = Append(@, Head(w.q)), !.conn = TRUE,
                         !.backoff = IF w.conn THEN @ ELSE 0])
  /\ UNCHANGED netFailures

\* 1, 2, 4, ... up to the cap.
NextBackoff(b) == IF b = 0 THEN 1 ELSE IF 2 * b > MaxBackoff THEN MaxBackoff ELSE 2 * b

\* The dial fails: the event is counted as failed and the worker waits.
DialFails(i) ==
  /\ Ready(i) /\ ~workers[i].conn /\ NetFailure
  /\ LET w == workers[i] IN
     Became(i, [w EXCEPT !.q = Tail(@), !.failed = @ \cup {Head(w.q)},
                         !.backoff = NextBackoff(@), !.phase = "backoff"])

\* The write fails: the event is lost, and the next one dials again at once.
WriteFails(i) ==
  /\ Ready(i) /\ NetFailure
  /\ LET w == workers[i] IN
     Became(i, [w EXCEPT !.q = Tail(@), !.failed = @ \cup {Head(w.q)}, !.conn = FALSE,
                         !.backoff = IF w.conn THEN @ ELSE 0])

BackoffEnds(i) ==
  /\ workers[i].phase = "backoff"
  /\ Became(i, [workers[i] EXCEPT !.phase = "select"])
  /\ UNCHANGED netFailures

Exit(i) ==
  /\ ~workers[i].live /\ workers[i].phase # "exited"
  /\ Became(i, [workers[i] EXCEPT !.phase = "exited", !.conn = FALSE])
  /\ UNCHANGED netFailures

Work(i) == Send(i) \/ DialFails(i) \/ WriteFails(i) \/ BackoffEnds(i) \/ Exit(i)

Next ==
  \/ Start \/ Take \/ Offer
  \/ \E c \in Categories : Publish(c)
  \/ \E d \in Dests : Upsert(d) \/ Enable(d) \/ Delete(d)
  \/ \E i \in 1..Len(workers) : Work(i)

Spec == Init /\ [][Next]_vars

Progress == Take \/ Offer \/ \E i \in 1..Len(workers) : Work(i)

\* The dispatcher and the workers keep running and their waits end; nothing else
\* has to happen, and the network may fail MaxFailures times.  Events and
\* failures being bounded, no goroutine can keep another from its turn for ever.
FairSpec == Spec /\ WF_vars(Progress)

-----------------------------------------------------------------------------
Worker == [dest : Dests, born : 0..MaxEvents, live : BOOLEAN,
           phase : {"select", "backoff", "exited"}, q : Seq(Events), conn : BOOLEAN,
           backoff : Backoffs, sent : Seq(Events), failed : SUBSET Events,
           dropped : SUBSET Events]

\* The types, the capacity of the queues and the bounded backoff ("bounded
\* exponential backoff up to 30 seconds", docs/EXPORT_SYSLOG_FLOW.md:91).
TypeOK ==
  /\ published \in Seq(Categories) /\ Len(published) <= MaxEvents
  /\ bus \in Seq(Events) /\ Len(bus) <= BusSize
  /\ busDropped \subseteq Events /\ started \in BOOLEAN
  /\ hand \subseteq Events
  /\ cfg \in [Dests -> {"absent", "off", "on"}]
  /\ worker \in [Dests -> 0..Len(workers)]
  /\ workers \in Seq(Worker) /\ \A i \in 1..Len(workers) : Len(workers[i].q) <= QueueSize
  /\ {netFailures, saveFailures} \subseteq 0..MaxFailures

\* No call leaves a worker behind that keeps sending to a disabled, deleted or
\* re-addressed collector with nobody to cancel it: exactly one live worker
\* serves a destination that has one, only an enabled destination has one, and
\* an enabled one has.  A failed save is the exception to the last part: the
\* destination then shows as enabled and nothing is sent.
NoStrayWorker ==
  /\ \A i \in 1..Len(workers) : workers[i].live <=> worker[workers[i].dest] = i
  /\ \A d \in Dests : worker[d] # 0 => cfg[d] = "on"
  /\ started /\ saveFailures = 0 => \A d \in Dests : cfg[d] = "on" => worker[d] # 0

\* A worker sends in the order of publication, and no event reaches a
\* destination twice, also when its worker is replaced while events wait.
SentOnceInOrder ==
  \A i, j \in 1..Len(workers) : LET v == workers[i].sent  w == workers[j].sent IN
    /\ \A m, n \in 1..Len(v) : m < n => v[m] < v[n]
    /\ i # j /\ workers[i].dest = workers[j].dest => ToSet(v) \cap ToSet(w) = {}

\* Where an event is, for a worker; "torn" when it is due and nowhere, or twice.
Waiting(w, e) == e \in hand \/ Contains(bus, e) \/ Contains(w.q, e)
Ends(w, e) == {end \in {"sent", "failed", "dropped"} :
                 CASE end = "sent" -> Contains(w.sent, e) [] end = "failed" -> e \in w.failed
                   [] OTHER -> e \in w.dropped \cup busDropped}
Twice(w, e) == Contains(w.q, e) /\ (e \in hand \/ Contains(bus, e))

PlaceOf(i, e) ==
  IF i > Len(workers) \/ e > Len(published) THEN "new"
  ELSE LET w == workers[i]  ends == Ends(w, e)  waits == Waiting(w, e) IN
       IF e <= w.born \/ published[e] \notin Wants[w.dest]
         THEN IF ends \in {{}, {"dropped"}} THEN "new" ELSE CHOOSE end \in ends : TRUE
       ELSE IF Cardinality(ends) = 1 /\ ~(w.live /\ waits) THEN CHOOSE end \in ends : TRUE
       ELSE IF ends # {} \/ (w.live /\ Twice(w, e)) THEN "torn"
       ELSE IF Contains(w.q, e) \/ (w.live /\ waits) THEN "waiting"
       ELSE IF w.live THEN "torn" ELSE "forgotten"

Cancelled == {i \in 1..Len(workers) : ~workers[i].live}

Promise == INSTANCE Outlet WITH
  Outlets <- 1..MaxWorkers, Items <- Events, closed <- Cancelled,
  place <- [i \in 1..MaxWorkers |-> [e \in Events |-> PlaceOf(i, e)]]

\* "When queues fill, new exporter events are dropped and counted"
\* (docs/EXPORT_SYSLOG_FLOW.md:91): every worker implements the abstract
\* outlet.  An event its destination wants, published while it lives, waits in
\* one queue or is counted once as sent, failed or dropped, whatever fails and
\* whatever happens to other destinations; a publisher never waits, and what
\* waits is settled in the end or its worker has been cancelled.
WorkersAreOutlets == Promise!Spec
=============================================================================
