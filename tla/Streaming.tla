------------------------------ MODULE Streaming ------------------------------
(***************************************************************************)
(* The streaming targets (internal/streaming/manager.go): one subscription *)
(* to the event bus, a dispatcher, and for every enabled target a worker   *)
(* with a bounded queue of its own.  A target's kind decides what an       *)
(* attempt to send can end in.  There is no retry and no reconfiguration;  *)
(* the context of the process ends all goroutines.                         *)
(***************************************************************************)
EXTENDS Naturals, Sequences, FiniteSets, SequencesExt

CONSTANTS Targets,      \* the targets of the configuration
          Kinds,        \* the kinds a target may have
          StreamBus,    \* capacity of the subscription (4096)
          StreamQueue,  \* capacity of a target's queue (1024)
          MaxStreamed   \* bound on the events published

ASSUME StreamingAssumption ==
         /\ {StreamBus, StreamQueue} \subseteq Nat \ {0}
         /\ MaxStreamed \in Nat
         /\ Kinds \subseteq {"otlp", "nats", "kafka", "clickhouse", "other"}

VARIABLES targets,     \* m.workers: the kind of every enabled target
          streamed,    \* the events published since Start (history)
          feed,        \* m.sub.C
          feedDropped, \* the events the subscription dropped
          held,        \* what the dispatcher holds: the event and the targets left
          lane,        \* w.ch
          sending,     \* the event each worker is sending, 0 for none
          tally,       \* w.sent, w.failed and w.dropped, as sets of events
          health,      \* w.state
          running      \* the goroutines whose select did not see the end
streamVars == <<targets, streamed, feed, feedDropped, held, lane, sending, tally, health,
                running>>

StreamEvents == 1..MaxStreamed
On == DOMAIN targets
Dispatcher == "dispatcher"
NoneHeld == [event |-> 0, left |-> {}]

\* New and Start: a worker for every enabled target.
StreamInit ==
  /\ \E enabled \in SUBSET Targets : targets \in [enabled -> Kinds]
  /\ streamed = 0 /\ feed = <<>> /\ feedDropped = {} /\ held = NoneHeld
  /\ lane = [t \in On |-> <<>>] /\ sending = [t \in On |-> 0]
  /\ tally = [t \in On |-> [sent |-> {}, failed |-> {}, dropped |-> {}]]
  /\ health = [t \in On |-> "configured"]
  /\ running = On \cup {Dispatcher, "context"}

\* Bus.Publish, for this subscription.
StreamPublish ==
  /\ streamed < MaxStreamed /\ streamed' = streamed + 1
  /\ IF Len(feed) < StreamBus
       THEN feed' = Append(feed, streamed') /\ UNCHANGED feedDropped
       ELSE feedDropped' = feedDropped \cup {streamed'} /\ UNCHANGED feed
  /\ UNCHANGED <<targets, held, lane, sending, tally, health, running>>

Dispatch ==
  /\ Dispatcher \in running /\ held.left = {} /\ feed # <<>>
  /\ held' = [event |-> Head(feed), left |-> On] /\ feed' = Tail(feed)
  /\ UNCHANGED <<targets, streamed, feedDropped, lane, sending, tally, health, running>>

\* The event is offered to each target in turn; a full queue drops it there.
HandOver(t) ==
  /\ t \in held.left
  /\ held' = [held EXCEPT !.left = @ \ {t}]
  /\ IF Len(lane[t]) < StreamQueue
       THEN lane' = [lane EXCEPT ![t] = Append(@, held.event)] /\ UNCHANGED tally
       ELSE /\ tally' = [tally EXCEPT ![t].dropped = @ \cup {held.event}]
            /\ UNCHANGED lane
  /\ UNCHANGED <<targets, streamed, feed, feedDropped, sending, health, running>>

\* runWorker takes an event whatever became of the one before.
TakeEvent(t) ==
  /\ t \in running /\ sending[t] = 0 /\ lane[t] # <<>>
  /\ sending' = [sending EXCEPT ![t] = Head(lane[t])]
  /\ lane' = [lane EXCEPT ![t] = Tail(@)]
  /\ UNCHANGED <<targets, streamed, feed, feedDropped, held, tally, health, running>>

\* send: a type the program does not know fails at once; the others depend on
\* the server, or on the kcat program.
SendEnds(kind) == IF kind = "other" THEN {"failed"} ELSE {"sent", "failed"}

\* Mutant: a failed event goes back to the queue and is also counted.
SentRequeues(t) ==
  /\ sending[t] # 0
  /\ \E end \in SendEnds(targets[t]) :
       /\ tally' = [tally EXCEPT ![t][end] = @ \cup {sending[t]}]
       /\ lane' = IF end = "failed" /\ Len(lane[t]) < StreamQueue
                    THEN [lane EXCEPT ![t] = Append(@, sending[t])] ELSE lane
       /\ health' = [health EXCEPT ![t] = IF end = "sent" THEN "healthy" ELSE "degraded"]
  /\ sending' = [sending EXCEPT ![t] = 0]
  /\ UNCHANGED <<targets, streamed, feed, feedDropped, held, running>>

Sent(t) ==
  /\ sending[t] # 0
  /\ \E end \in SendEnds(targets[t]) :
       /\ tally' = [tally EXCEPT ![t][end] = @ \cup {sending[t]}]
       /\ health' = [health EXCEPT ![t] = IF end = "sent" THEN "healthy" ELSE "degraded"]
  /\ sending' = [sending EXCEPT ![t] = 0]
  /\ UNCHANGED <<targets, streamed, feed, feedDropped, held, lane, running>>

\* The context ends; a goroutine sees it in a select, between two events.
StreamStop ==
  /\ "context" \in running /\ running' = running \ {"context"}
  /\ UNCHANGED <<targets, streamed, feed, feedDropped, held, lane, sending, tally, health>>

StreamExit(g) ==
  /\ g \in running /\ "context" \notin running
  /\ IF g = Dispatcher THEN held.left = {} ELSE sending[g] = 0
  /\ running' = running \ {g}
  /\ UNCHANGED <<targets, streamed, feed, feedDropped, held, lane, sending, tally, health>>

StreamWork(t) == t \in On /\ (TakeEvent(t) \/ Sent(t) \/ StreamExit(t))
DispatcherWork == Dispatch \/ (\E t \in On : HandOver(t)) \/ StreamExit(Dispatcher)

StreamNext ==
  \/ StreamPublish \/ StreamStop \/ DispatcherWork
  \/ \E t \in On : StreamWork(t)

-----------------------------------------------------------------------------
StreamTypeOK ==
  /\ On \subseteq Targets /\ \A t \in On : targets[t] \in Kinds
  /\ streamed \in 0..MaxStreamed /\ feedDropped \subseteq StreamEvents
  /\ feed \in Seq(StreamEvents) /\ Len(feed) <= StreamBus
  /\ held.event \in 0..MaxStreamed /\ held.left \subseteq On
  /\ lane \in [On -> Seq(StreamEvents)] /\ \A t \in On : Len(lane[t]) <= StreamQueue
  /\ sending \in [On -> 0..MaxStreamed]
  /\ tally \in [On -> [sent : SUBSET StreamEvents, failed : SUBSET StreamEvents,
                       dropped : SUBSET StreamEvents]]
  /\ health \in [On -> {"configured", "healthy", "degraded"}]
  /\ running \subseteq On \cup {Dispatcher, "context"}

\* Where an event is, for a target; "torn" when it is nowhere or twice.
StreamPlace(t, e) ==
  LET in == (IF e \in ToSet(feed) THEN {"feed"} ELSE {})
            \cup (IF e = held.event /\ t \in held.left THEN {"held"} ELSE {})
            \cup (IF e \in ToSet(lane[t]) THEN {"lane"} ELSE {})
            \cup (IF e = sending[t] THEN {"sending"} ELSE {})
            \cup (IF e \in feedDropped \cup tally[t].dropped THEN {"dropped"} ELSE {})
            \cup {end \in {"sent", "failed"} : e \in tally[t][end]}
  IN IF e > streamed \/ t \notin On THEN "new"
     ELSE IF Cardinality(in) # 1 THEN "torn"
     ELSE IF in \subseteq {"sent", "failed", "dropped"} THEN CHOOSE p \in in : TRUE
     ELSE "waiting"

=============================================================================
