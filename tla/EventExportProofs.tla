--------------------------- MODULE EventExportProofs ---------------------------
(***************************************************************************)
(* Proofs about EventExport, for any finite set of destinations, any       *)
(* categories, sizes of queues, and numbers of events, workers and         *)
(* failures.                                                               *)
(***************************************************************************)
EXTENDS EventExport, SequenceTheorems, FiniteSetTheorems, TLAPS

-----------------------------------------------------------------------------
\* A sequence that goes up holds nothing twice.
Up(s) == \A m, n \in 1..Len(s) : m < n => s[m] < s[n]

\* Events on their way to the dispatcher's offer, and those a worker was offered.
Pipe == hand \cup ToSet(bus)
Mine(w) == ToSet(w.q) \cup ToSet(w.sent) \cup w.failed \cup w.dropped

\* Before Start there is no subscription and no worker.
Quiet == ~started => /\ bus = <<>> /\ hand = {} /\ busDropped = {}
                     /\ worker = [d \in Dests |-> 0] /\ workers = <<>>

\* The table names a destination's worker.
Table == \A d \in Dests : worker[d] # 0 => workers[worker[d]].dest = d

\* Events reach the dispatcher in order, and those that were dropped do not.
Ordered ==
  /\ Up(bus) /\ \A a \in hand, b \in hand \cup ToSet(bus) : a = b \/ a < b
  /\ hand \cap ToSet(bus) = {} /\ \A a, b \in hand : a = b
  /\ Pipe \cup busDropped \subseteq 1..Len(published) /\ Pipe \cap busDropped = {}

\* A worker's events, each in one place, were offered before those in the pipe.
Apart(w) ==
  /\ Up(w.q) /\ Up(w.sent) /\ \A a \in ToSet(w.sent), b \in ToSet(w.q) : a < b
  /\ w.failed \cap (ToSet(w.q) \cup ToSet(w.sent) \cup w.dropped) = {}
  /\ w.dropped \cap (ToSet(w.q) \cup ToSet(w.sent)) = {}
Behind(w) ==
  /\ Mine(w) \subseteq 1..Len(published) /\ Mine(w) \cap busDropped = {}
  /\ \A a \in Mine(w), b \in Pipe : a < b

\* What a live worker's destination wants is somewhere.
Accounted(w) ==
  /\ w.born <= Len(published)
  /\ w.live => \A e \in 1..Len(published) :
       w.born < e /\ published[e] \in Wants[w.dest] => e \in Mine(w) \cup Pipe \cup busDropped

Kept == \A i \in 1..Len(workers) :
          Apart(workers[i]) /\ Behind(workers[i]) /\ Accounted(workers[i])

\* Successive workers of a destination share no event.
Shared == \A i, j \in 1..Len(workers) :
  i # j /\ workers[i].dest = workers[j].dest => Mine(workers[i]) \cap Mine(workers[j]) = {}

Inv == TypeOK /\ Quiet /\ Table /\ NoStrayWorker /\ Ordered /\ Kept /\ Shared

-----------------------------------------------------------------------------
\* Facts about sequences of events.
LEMMA EmptyFacts == ToSet(<<>>) = {} /\ Up(<<>>) /\ \A e : ~Contains(<<>>, e)
  BY DEF ToSet, Up, Contains

LEMMA ElementsOf ==
  ASSUME NEW s \in Seq(Nat)
  PROVE  /\ \A e : e \in ToSet(s) <=> \E k \in 1..Len(s) : s[k] = e
         /\ ToSet(s) \subseteq Nat
  BY DEF ToSet

LEMMA AppendFacts ==
  ASSUME NEW s \in Seq(Nat), NEW e \in Nat
  PROVE  /\ Append(s, e) \in Seq(Nat) /\ Len(Append(s, e)) = Len(s) + 1
         /\ ToSet(Append(s, e)) = ToSet(s) \cup {e}
         /\ Up(s) /\ (\A a \in ToSet(s) : a < e) => Up(Append(s, e))
<1>1. /\ Append(s, e) \in Seq(Nat) /\ Len(Append(s, e)) = Len(s) + 1
      /\ \A k \in 1..Len(s) : Append(s, e)[k] = s[k]
      /\ Append(s, e)[Len(s) + 1] = e
  OBVIOUS
<1>2. ToSet(Append(s, e)) = ToSet(s) \cup {e}
  BY <1>1 DEF ToSet
<1>3. ASSUME Up(s), \A a \in ToSet(s) : a < e
      PROVE  Up(Append(s, e))
  BY <1>1, <1>3 DEF Up, ToSet
<1> QED BY <1>1, <1>2, <1>3

LEMMA TailFacts ==
  ASSUME NEW s \in Seq(Nat), s # <<>>, Up(s)
  PROVE  /\ Tail(s) \in Seq(Nat) /\ Len(Tail(s)) = Len(s) - 1 /\ Up(Tail(s))
         /\ Head(s) \in ToSet(s) /\ ToSet(Tail(s)) = ToSet(s) \ {Head(s)}
         /\ \A a \in ToSet(Tail(s)) : Head(s) < a
<1>1. /\ Tail(s) \in Seq(Nat) /\ Len(Tail(s)) = Len(s) - 1 /\ Len(s) \in Nat \ {0}
      /\ Head(s) = s[1] /\ \A k \in 1..Len(Tail(s)) : Tail(s)[k] = s[k + 1]
  OBVIOUS
<1>2. Up(Tail(s))
  BY <1>1 DEF Up
<1>3. \A a \in ToSet(Tail(s)) : a \in ToSet(s) /\ Head(s) < a
  BY <1>1 DEF ToSet, Up
<1>4. \A a \in ToSet(s) : a = Head(s) \/ a \in ToSet(Tail(s))
  <2> SUFFICES ASSUME NEW k \in 1..Len(s) PROVE s[k] = Head(s) \/ s[k] \in ToSet(Tail(s))
    BY ElementsOf
  <2>1. CASE k = 1
    BY <2>1, <1>1
  <2>2. CASE k # 1
    <3>1. k - 1 \in 1..Len(Tail(s)) /\ Tail(s)[k - 1] = s[k]
      BY <1>1, <2>2
    <3> QED BY <3>1, <1>1, ElementsOf
  <2> QED BY <2>1, <2>2
<1>5. Head(s) \in ToSet(s)
  BY <1>1 DEF ToSet
<1>6. \A a \in ToSet(Tail(s)) : a # Head(s)
  <2>1. ToSet(s) \subseteq Nat
    BY DEF ToSet
  <2> QED BY <1>3, <2>1, <1>5
<1> QED BY <1>1, <1>2, <1>3, <1>4, <1>5, <1>6

LEMMA ContainsFacts ==
  ASSUME NEW s \in Seq(Nat)
  PROVE  /\ ToSet(s) \subseteq Nat /\ \A e : Contains(s, e) <=> e \in ToSet(s)
         /\ s # <<>> <=> ToSet(s) # {}
<1>1. s # <<>> => 1 \in 1..Len(s)
  OBVIOUS
<1>2. s = <<>> => ToSet(s) = {}
  BY EmptyFacts
<1> QED BY <1>1, <1>2, ElementsOf DEF Contains

LEMMA EventsAreNumbers ==
  /\ MaxEvents \in Nat /\ Events \subseteq Nat /\ Seq(Events) \subseteq Seq(Nat)
  /\ \A s \in Seq(Events) : ToSet(s) \subseteq Events
<1>1. MaxEvents \in Nat /\ Events \subseteq Nat
  BY EventExportAssumption DEF Events
<1>2. Seq(Events) \subseteq Seq(Nat)
  BY <1>1, SeqMonotonic
<1>3. \A s \in Seq(Events) : ToSet(s) \subseteq Events
  BY DEF ToSet
<1> QED BY <1>1, <1>2, <1>3

LEMMA InitInv == Init => Inv
<1> SUFFICES ASSUME Init PROVE Inv
  OBVIOUS
<1>1. TypeOK
  <2>1. /\ MaxEvents \in Nat /\ MaxFailures \in Nat /\ BusSize \in Nat
        /\ published = <<>> /\ bus = <<>> /\ workers = <<>>
    BY EventExportAssumption DEF Init
  <2>2. /\ published \in Seq(Categories) /\ bus \in Seq(Events) /\ workers \in Seq(Worker)
        /\ Len(published) = 0 /\ Len(bus) = 0 /\ Len(workers) = 0
    BY <2>1
  <2>3. worker \in [Dests -> 0..Len(workers)]
    BY <2>2 DEF Init
  <2>5. started \in BOOLEAN /\ cfg \in [Dests -> {"absent", "off", "on"}]
    BY DEF Init
  <2>4. hand \subseteq Events /\ busDropped \subseteq Events
        /\ {netFailures, saveFailures} \subseteq 0..MaxFailures
    BY <2>1 DEF Init
  <2> QED BY <2>1, <2>2, <2>3, <2>4, <2>5 DEF TypeOK
<1>2. Quiet /\ Table /\ NoStrayWorker /\ Kept /\ Shared
  BY DEF Init, Quiet, Table, NoStrayWorker, Kept, Shared
<1>3. Ordered
  BY EmptyFacts DEF Init, Ordered, Pipe
<1> QED BY <1>1, <1>2, <1>3 DEF Inv

\* What the type invariant says of one worker.
LEMMA WorkerFacts ==
  ASSUME TypeOK, NEW i \in 1..Len(workers)
  PROVE  /\ workers[i] \in Worker /\ workers[i].dest \in Dests
         /\ workers[i].q \in Seq(Nat) /\ workers[i].sent \in Seq(Nat)
         /\ Mine(workers[i]) \subseteq Events
<1>1. workers[i] \in Worker
  BY ElementOfSeq DEF TypeOK
<1>2. ToSet(workers[i].q) \subseteq Events /\ ToSet(workers[i].sent) \subseteq Events
  BY <1>1, EventsAreNumbers DEF Worker
<1> QED BY <1>1, <1>2, EventsAreNumbers DEF Worker, Mine

LEMMA LengthFacts ==
  ASSUME TypeOK
  PROVE  Len(workers) \in Nat /\ Len(published) \in Nat /\ bus \in Seq(Nat)
  BY EventsAreNumbers DEF TypeOK

\* A step that publishes and offers nothing and leaves every worker its events,
\* or makes a worker that has none.
LEMMA WorkersKept ==
  ASSUME Inv, UNCHANGED <<published, bus, busDropped, hand>>,
         \A i \in 1..Len(workers') : Apart(workers'[i]) /\
            \/ /\ i \in 1..Len(workers) /\ Mine(workers'[i]) = Mine(workers[i])
               /\ workers'[i].dest = workers[i].dest /\ workers'[i].born = workers[i].born
               /\ workers'[i].live => workers[i].live
            \/ Mine(workers'[i]) = {} /\ workers'[i].born = Len(published)
  PROVE  Kept' /\ Shared'
<1>1. Pipe' = Pipe
  BY DEF Pipe
<1>2. Kept'
  <2> SUFFICES ASSUME NEW i \in 1..Len(workers')
               PROVE  Behind(workers[i])' /\ Accounted(workers[i])'
    BY DEF Kept
  <2>1. CASE /\ i \in 1..Len(workers) /\ Mine(workers'[i]) = Mine(workers[i])
             /\ workers'[i].dest = workers[i].dest /\ workers'[i].born = workers[i].born
             /\ workers'[i].live => workers[i].live
    BY <1>1, <2>1 DEF Inv, Kept, Behind, Accounted
  <2>2. CASE Mine(workers'[i]) = {} /\ workers'[i].born = Len(published)
    <3>1. \A e \in 1..Len(published) : ~(Len(published) < e)
      BY LengthFacts DEF Inv
    <3> QED BY <1>1, <2>2, <3>1, LengthFacts DEF Inv, Behind, Accounted
  <2> QED BY <2>1, <2>2
<1>3. Shared'
  BY DEF Inv, Shared
<1> QED BY <1>2, <1>3

-----------------------------------------------------------------------------
LEMMA PublishInv ==
  ASSUME Inv, NEW c \in Categories, Publish(c)
  PROVE  Inv'
<1> DEFINE e == Len(published')
<1>1. /\ published' = Append(published, c) /\ Len(published) < MaxEvents
      /\ UNCHANGED <<started, hand, cfg, worker, workers, netFailures, saveFailures>>
  BY DEF Publish
<1>2. /\ published' \in Seq(Categories) /\ e = Len(published) + 1 /\ e \in Events
      /\ \A k \in 1..Len(published) : published'[k] = published[k]
      /\ Len(published') <= MaxEvents /\ e \in Nat
  BY <1>1, EventsAreNumbers, LengthFacts DEF Inv, TypeOK, Events
<1>3. \A a \in Pipe \cup busDropped : a < e
  BY <1>2, LengthFacts DEF Inv, Ordered
<1> HIDE DEF e
<1>4. \/ ~started /\ UNCHANGED <<bus, busDropped>>
      \/ started /\ Len(bus) < BusSize /\ bus' = Append(bus, e) /\ UNCHANGED busDropped
      \/ started /\ busDropped' = busDropped \cup {e} /\ UNCHANGED bus
  BY DEF Publish, e
<1>5. /\ bus' \in Seq(Events) /\ Len(bus') <= BusSize /\ Up(bus')
      /\ busDropped' \subseteq busDropped \cup {e}
      /\ ToSet(bus') \subseteq ToSet(bus) \cup {e} /\ Pipe \subseteq Pipe'
      /\ ~(e \in busDropped' /\ e \in Pipe') /\ busDropped \subseteq busDropped'
      /\ started => e \in Pipe' \cup busDropped'
  <2>1. CASE ~started /\ UNCHANGED <<bus, busDropped>>
    BY <1>1, <1>2, <1>3, <2>1, LengthFacts DEF Inv, TypeOK, Pipe, Ordered
  <2>2. CASE started /\ Len(bus) < BusSize /\ bus' = Append(bus, e) /\ UNCHANGED busDropped
    <3>1. ToSet(bus') = ToSet(bus) \cup {e} /\ Len(bus') = Len(bus) + 1 /\ Up(bus')
      BY <1>2, <1>3, <2>2, AppendFacts, LengthFacts DEF Inv, Ordered, Pipe
    <3>2. bus' \in Seq(Events)
      BY <1>2, <2>2 DEF Inv, TypeOK
    <3>3. Len(bus') <= BusSize
      BY <2>2, <3>1, EventExportAssumption DEF Inv, TypeOK
    <3>4. e \notin busDropped
      BY <1>2, <1>3
    <3> QED BY <1>1, <2>2, <3>1, <3>2, <3>3, <3>4 DEF Pipe
  <2>3. CASE started /\ busDropped' = busDropped \cup {e} /\ UNCHANGED bus
    <3>1. e \notin Pipe
      BY <1>2, <1>3
    <3> QED BY <1>1, <2>3, <3>1 DEF Inv, TypeOK, Pipe, Ordered
  <2> QED BY <1>4, <2>1, <2>2, <2>3
<1>6. TypeOK'
  BY <1>1, <1>2, <1>5 DEF Inv, TypeOK
<1>7. Quiet' /\ Table' /\ NoStrayWorker'
  <2>1. Table' /\ NoStrayWorker'
    BY <1>1 DEF Inv, Table, NoStrayWorker
  <2>2. Quiet'
    BY <1>1, <1>4 DEF Inv, Quiet
  <2> QED BY <2>1, <2>2
<1>8. Ordered'
  <2>1. Pipe' \cup busDropped' \subseteq 1..Len(published')
    <3>1. Pipe' \cup busDropped' \subseteq Pipe \cup busDropped \cup {e}
      BY <1>1, <1>5 DEF Pipe
    <3>2. Pipe \cup busDropped \subseteq 1..Len(published)
      BY DEF Inv, Ordered
    <3> QED BY <1>2, <3>1, <3>2, LengthFacts DEF Inv, e
  <2>2. Pipe' \cap busDropped' = {}
    BY <1>1, <1>5 DEF Inv, Ordered, Pipe
  <2>3. hand' \cap ToSet(bus') = {}
    BY <1>1, <1>2, <1>3, <1>5 DEF Inv, Ordered, Pipe
  <2>4. \A a \in hand', b \in hand' \cup ToSet(bus') : a = b \/ a < b
    BY <1>1, <1>3, <1>5 DEF Inv, Ordered, Pipe
  <2> QED BY <1>1, <1>5, <2>1, <2>2, <2>3, <2>4 DEF Inv, Ordered
<1>9. Kept'
  <2> SUFFICES ASSUME NEW i \in 1..Len(workers) PROVE (Behind(workers[i]) /\ Accounted(workers[i]))'
    BY <1>1 DEF Inv, Kept
  <2>1. started
    BY DEF Inv, Quiet
  <2>2. Behind(workers[i]) /\ Accounted(workers[i])
    BY DEF Inv, Kept
  <2>3. \A a \in Mine(workers[i]) : a < e /\ a \in 1..Len(published) /\ a \in 1..Len(published')
    BY <1>2, <2>2, LengthFacts DEF Inv, Behind, e
  <2>4. Behind(workers[i])'
    <3>1. Pipe' \subseteq Pipe \cup {e} /\ busDropped' \subseteq busDropped \cup {e}
      BY <1>1, <1>5 DEF Pipe
    <3>2. e \notin Mine(workers[i])
      BY <1>2, <2>3
    <3> QED BY <1>1, <2>2, <2>3, <3>1, <3>2 DEF Behind
  <2>5. Accounted(workers[i])'
    <3> SUFFICES ASSUME workers[i].live, NEW k \in 1..Len(published'), workers[i].born < k,
                        published'[k] \in Wants[workers[i].dest]
                 PROVE  k \in Mine(workers[i]) \cup Pipe' \cup busDropped'
      BY <1>1, <1>2, <2>2, LengthFacts, WorkerFacts DEF Inv, Accounted, Worker
    <3>1. CASE k = e
      BY <1>5, <2>1, <3>1
    <3>2. CASE k # e
      <4>1. k \in 1..Len(published)
        BY <1>2, <3>2, LengthFacts DEF Inv, e
      <4> QED BY <1>2, <1>5, <2>2, <4>1 DEF Accounted
    <3> QED BY <3>1, <3>2
  <2> QED BY <2>4, <2>5
<1>10. Shared'
  BY <1>1 DEF Inv, Shared
<1> QED BY <1>6, <1>7, <1>8, <1>9, <1>10 DEF Inv

LEMMA TakeInv ==
  ASSUME Inv, Take
  PROVE  Inv'
<1>1. /\ hand = {} /\ bus # <<>> /\ hand' = {Head(bus)} /\ bus' = Tail(bus)
      /\ UNCHANGED <<published, busDropped, started, cfg, worker, workers,
                     netFailures, saveFailures>>
  BY DEF Take
<1>2. bus \in Seq(Nat) /\ Up(bus) /\ Len(bus) \in Nat /\ BusSize \in Nat
  BY LengthFacts, EventExportAssumption DEF Inv, Ordered
<1>3. /\ Len(bus') = Len(bus) - 1 /\ Up(bus')
      /\ Head(bus) \in ToSet(bus) /\ ToSet(bus') = ToSet(bus) \ {Head(bus)}
      /\ \A a \in ToSet(bus') : Head(bus) < a
  BY <1>1, <1>2, TailFacts
<1>4. Pipe' = Pipe
  BY <1>1, <1>3 DEF Pipe
<1>5. TypeOK'
  <2>1. bus' \in Seq(Events) /\ Head(bus) \in Events
    BY <1>1, HeadTailProperties DEF Inv, TypeOK
  <2> QED BY <1>1, <1>2, <1>3, <2>1 DEF Inv, TypeOK
<1>6. Quiet' /\ Table' /\ NoStrayWorker'
  BY <1>1 DEF Inv, Quiet, Table, NoStrayWorker
<1>7. Ordered'
  BY <1>1, <1>3, <1>4 DEF Inv, Ordered
<1>8. Kept' /\ Shared'
  BY <1>1, <1>4 DEF Inv, Kept, Behind, Accounted, Shared
<1> QED BY <1>5, <1>6, <1>7, <1>8 DEF Inv

\* What an offer does to one worker.
TakesOffer(w, v, e) ==
  /\ v.dest = w.dest /\ v.born = w.born /\ v.live = w.live
  /\ v.sent = w.sent /\ v.failed = w.failed
  /\ ToSet(v.q) \ {e} = ToSet(w.q) \ {e} /\ v.dropped \ {e} = w.dropped \ {e}
  /\ Mine(v) = IF published[e] \in Wants[w.dest] THEN Mine(w) \cup {e} ELSE Mine(w)

LEMMA OfferedFacts ==
  ASSUME TypeOK, NEW w \in Worker, Len(w.q) <= QueueSize, Apart(w), NEW e \in Events,
         \A a \in Mine(w) : a < e, NEW v, v = Offered(w, e)
  PROVE  v \in Worker /\ Len(v.q) <= QueueSize /\ Apart(v) /\ TakesOffer(w, v, e)
<1>1. /\ w.q \in Seq(Nat) /\ w.q \in Seq(Events) /\ w.sent \in Seq(Nat) /\ e \in Nat
      /\ e \notin Mine(w) /\ QueueSize \in Nat /\ w.dropped \subseteq Events
  BY EventsAreNumbers, EventExportAssumption DEF Worker
<1>2. CASE published[e] \notin Wants[w.dest]
  BY <1>2 DEF Offered, TakesOffer
<1>3. CASE published[e] \in Wants[w.dest] /\ Len(w.q) < QueueSize
  <2>1. v = [w EXCEPT !.q = Append(@, e)]
    BY <1>3 DEF Offered
  <2>2. /\ v.q = Append(w.q, e) /\ v.dest = w.dest /\ v.born = w.born /\ v.live = w.live
        /\ v.sent = w.sent /\ v.failed = w.failed /\ v.dropped = w.dropped
    BY <2>1 DEF Worker
  <2>3. v \in Worker
    <3>1. Append(w.q, e) \in Seq(Events)
      BY <1>1
    <3> QED BY <2>1, <3>1 DEF Worker
  <2>4. /\ ToSet(v.q) = ToSet(w.q) \cup {e} /\ Len(v.q) = Len(w.q) + 1 /\ Up(v.q)
    BY <1>1, <2>2, AppendFacts DEF Apart, Mine
  <2>5. Mine(v) = Mine(w) \cup {e}
    BY <2>2, <2>4 DEF Mine
  <2>6. Apart(v)
    BY <1>1, <2>2, <2>4 DEF Apart, Mine
  <2>7. Len(v.q) <= QueueSize
    BY <1>1, <1>3, <2>4
  <2> QED BY <1>3, <2>2, <2>3, <2>4, <2>5, <2>6, <2>7 DEF TakesOffer
<1>4. CASE published[e] \in Wants[w.dest] /\ ~(Len(w.q) < QueueSize)
  <2>1. v = [w EXCEPT !.dropped = @ \cup {e}]
    BY <1>4 DEF Offered
  <2>2. /\ v.q = w.q /\ v.dest = w.dest /\ v.born = w.born /\ v.live = w.live
        /\ v.sent = w.sent /\ v.failed = w.failed /\ v.dropped = w.dropped \cup {e}
    BY <2>1 DEF Worker
  <2>3. v \in Worker
    <3>1. w.dropped \cup {e} \in SUBSET Events
      BY <1>1
    <3> QED BY <2>1, <3>1 DEF Worker
  <2>4. Mine(v) = Mine(w) \cup {e}
    BY <2>2 DEF Mine
  <2>5. Apart(v)
    BY <1>1, <2>2 DEF Apart, Mine
  <2> QED BY <1>4, <2>2, <2>3, <2>4, <2>5 DEF TakesOffer
<1> QED BY <1>2, <1>3, <1>4

\* The effect of the offer of e, for every worker.
LEMMA OfferEffect ==
  ASSUME Inv, Offer
  PROVE  \E e \in Events :
           /\ hand = {e} /\ hand' = {} /\ e \in 1..Len(published)
           /\ UNCHANGED <<published, bus, busDropped, started, cfg, worker,
                          netFailures, saveFailures>>
           /\ workers' \in Seq(Worker) /\ Len(workers') = Len(workers)
           /\ Pipe = Pipe' \cup {e} /\ e \notin Pipe'
           /\ \A i \in 1..Len(workers) : LET w == workers[i]  v == workers'[i] IN
                /\ Len(v.q) <= QueueSize /\ Apart(v)
                /\ v.dest = w.dest /\ v.born = w.born /\ v.live = w.live
                /\ v.sent = w.sent /\ v.failed = w.failed
                /\ ~(w.live /\ published[e] \in Wants[w.dest]) => Mine(v) = Mine(w)
                /\ w.live /\ published[e] \in Wants[w.dest] => Mine(v) = Mine(w) \cup {e}
                /\ ~w.live => v = w
                /\ ToSet(v.q) \ {e} = ToSet(w.q) \ {e} /\ v.dropped \ {e} = w.dropped \ {e}
                /\ e \notin Mine(w)
<1>1. PICK e \in hand :
        workers' = [i \in 1..Len(workers) |->
                      IF worker[workers[i].dest] = i THEN Offered(workers[i], e)
                      ELSE workers[i]]
  BY DEF Offer
<1>2. /\ hand' = {}
      /\ UNCHANGED <<published, bus, busDropped, started, cfg, worker,
                     netFailures, saveFailures>>
  BY DEF Offer
<1>3. hand = {e} /\ e \in Pipe /\ e \in 1..Len(published) /\ e \in Events
  BY DEF Inv, Ordered, Pipe, TypeOK
<1>4. Pipe = Pipe' \cup {e} /\ e \notin Pipe'
  BY <1>2, <1>3 DEF Pipe, Inv, Ordered
<1>5. Len(workers) \in Nat /\ \A i \in 1..Len(workers) : workers[i] \in Worker
  BY LengthFacts, WorkerFacts DEF Inv
<1>6. ASSUME NEW i \in 1..Len(workers)
      PROVE  LET w == workers[i]  v == workers'[i] IN
                /\ v \in Worker /\ Len(v.q) <= QueueSize /\ Apart(v)
                /\ v.dest = w.dest /\ v.born = w.born /\ v.live = w.live
                /\ v.sent = w.sent /\ v.failed = w.failed
                /\ ~(w.live /\ published[e] \in Wants[w.dest]) => Mine(v) = Mine(w)
                /\ w.live /\ published[e] \in Wants[w.dest] => Mine(v) = Mine(w) \cup {e}
                /\ ~w.live => v = w
                /\ ToSet(v.q) \ {e} = ToSet(w.q) \ {e} /\ v.dropped \ {e} = w.dropped \ {e}
                /\ e \notin Mine(w)
  <2>1. \A a \in Mine(workers[i]) : a < e
    BY <1>3 DEF Inv, Kept, Behind
  <2>2. e \notin Mine(workers[i])
    <3>1. Mine(workers[i]) \subseteq Nat
      BY WorkerFacts, EventsAreNumbers DEF Inv
    <3> QED BY <2>1, <3>1
  <2>3. Apart(workers[i]) /\ Len(workers[i].q) <= QueueSize
    BY DEF Inv, Kept, TypeOK
  <2>4. worker[workers[i].dest] = i <=> workers[i].live
    BY DEF Inv, NoStrayWorker
  <2>5. CASE workers[i].live
    <3>1. workers'[i] = Offered(workers[i], e)
      BY <1>1, <2>4, <2>5
    <3>2. TypeOK /\ workers[i] \in Worker
      BY <1>5 DEF Inv
    <3> DEFINE w == workers[i]
               v == workers'[i]
    <3> HIDE DEF w, v
    <3>3. v \in Worker /\ Len(v.q) <= QueueSize /\ Apart(v) /\ TakesOffer(w, v, e)
      <4>1. /\ w \in Worker /\ Len(w.q) <= QueueSize /\ Apart(w) /\ v = Offered(w, e)
            /\ \A a \in Mine(w) : a < e
        BY <2>1, <2>3, <3>1, <3>2 DEF w, v
      <4>2. e \in Events /\ TypeOK
        BY <1>3, <3>2
      <4> QED BY <4>1, <4>2, OfferedFacts
    <3>4. w.live /\ e \notin Mine(w)
      BY <2>2, <2>5 DEF w
    <3> QED BY <3>3, <3>4 DEF TakesOffer, w, v
  <2>6. CASE ~workers[i].live
    <3>1. workers'[i] = workers[i]
      BY <1>1, <2>4, <2>6
    <3> QED BY <1>5, <2>2, <2>3, <2>6, <3>1
  <2> QED BY <2>5, <2>6
<1>7. workers' \in Seq(Worker) /\ Len(workers') = Len(workers)
  BY <1>1, <1>5, <1>6
<1> QED BY <1>2, <1>3, <1>4, <1>6, <1>7

LEMMA OfferInv ==
  ASSUME Inv, Offer
  PROVE  Inv'
<1>1. PICK e \in Events :
           /\ hand = {e} /\ hand' = {} /\ e \in 1..Len(published)
           /\ UNCHANGED <<published, bus, busDropped, started, cfg, worker,
                          netFailures, saveFailures>>
           /\ workers' \in Seq(Worker) /\ Len(workers') = Len(workers)
           /\ Pipe = Pipe' \cup {e} /\ e \notin Pipe'
           /\ \A i \in 1..Len(workers) : LET w == workers[i]  v == workers'[i] IN
                /\ Len(v.q) <= QueueSize /\ Apart(v)
                /\ v.dest = w.dest /\ v.born = w.born /\ v.live = w.live
                /\ ~(w.live /\ published[e] \in Wants[w.dest]) => Mine(v) = Mine(w)
                /\ w.live /\ published[e] \in Wants[w.dest] => Mine(v) = Mine(w) \cup {e}
                /\ e \notin Mine(w)
  BY OfferEffect
<1>2. TypeOK'
  BY <1>1 DEF Inv, TypeOK
<1>3. Quiet' /\ Table' /\ NoStrayWorker'
  <2>1. Quiet'
    BY <1>1 DEF Inv, Quiet
  <2>2. \A d \in Dests : worker[d] # 0 => worker[d] \in 1..Len(workers)
    BY LengthFacts DEF Inv, TypeOK
  <2>3. Table'
    BY <1>1, <2>2 DEF Inv, Table
  <2>4. NoStrayWorker'
    BY <1>1 DEF Inv, NoStrayWorker
  <2> QED BY <2>1, <2>3, <2>4
<1>4. Ordered'
  BY <1>1 DEF Inv, Ordered, Pipe
<1>5. Kept'
  <2> SUFFICES ASSUME NEW i \in 1..Len(workers)
               PROVE  Behind(workers[i])' /\ Accounted(workers[i])'
    BY <1>1 DEF Kept
  <2> DEFINE w == workers[i]
             v == workers'[i]
  <2>1. Behind(w) /\ Accounted(w)
    BY DEF Inv, Kept
  <2>2. \A a \in Mine(v) : a \in Mine(w) \/ a = e
    <3>1. Mine(v) = Mine(w) \/ Mine(v) = Mine(w) \cup {e}
      BY <1>1
    <3> HIDE DEF w, v
    <3> QED BY <3>1
  <2>3. \A b \in Pipe' : e < b
    BY <1>1 DEF Inv, Ordered, Pipe
  <2>4. e \notin busDropped
    BY <1>1 DEF Inv, Ordered
  <2>5. Behind(workers[i])'
    BY <1>1, <2>1, <2>2, <2>3, <2>4 DEF Behind
  <2>6. Accounted(workers[i])'
    <3> SUFFICES ASSUME v.live, NEW k \in 1..Len(published), v.born < k,
                        published[k] \in Wants[v.dest]
                 PROVE  k \in Mine(v) \cup Pipe' \cup busDropped
      BY <1>1, <2>1 DEF Accounted
    <3>1. w.live /\ k \in Mine(w) \cup Pipe \cup busDropped
      BY <1>1, <2>1 DEF Accounted
    <3> QED BY <1>1, <3>1
  <2> QED BY <2>5, <2>6
<1>6. Shared'
  <2> SUFFICES ASSUME NEW i \in 1..Len(workers), NEW j \in 1..Len(workers), i # j,
                      workers[i].dest = workers[j].dest
               PROVE  Mine(workers'[i]) \cap Mine(workers'[j]) = {}
    BY <1>1 DEF Shared
  <2>1. Mine(workers[i]) \cap Mine(workers[j]) = {}
    BY DEF Inv, Shared
  <2>2. ~workers[i].live \/ ~workers[j].live
    BY DEF Inv, NoStrayWorker
  <2> QED BY <1>1, <2>1, <2>2
<1> QED BY <1>2, <1>3, <1>4, <1>5, <1>6 DEF Inv

-----------------------------------------------------------------------------
\* What a step of a worker does to it: it handles the head of its queue, or
\* goes on as it is.
Handles(w, v) ==
  \/ v.q = w.q /\ v.sent = w.sent /\ v.failed = w.failed
  \/ \E e \in ToSet(w.q) :
       /\ ToSet(v.q) = ToSet(w.q) \ {e}
       /\ \/ ToSet(v.sent) = ToSet(w.sent) \cup {e} /\ v.failed = w.failed
          \/ v.sent = w.sent /\ v.failed = w.failed \cup {e}

LEMMA HandleFacts ==
  ASSUME TypeOK, NEW w \in Worker, Apart(w), Len(w.q) <= QueueSize, w.q # <<>>, NEW v \in Worker,
         v.q = Tail(w.q), v.dropped = w.dropped,
         \/ v.sent = Append(w.sent, Head(w.q)) /\ v.failed = w.failed
         \/ v.sent = w.sent /\ v.failed = w.failed \cup {Head(w.q)}
  PROVE  Apart(v) /\ Mine(v) = Mine(w) /\ Len(v.q) <= QueueSize /\ Handles(w, v)
<1> DEFINE e == Head(w.q)
<1>1. w.q \in Seq(Nat) /\ w.sent \in Seq(Nat) /\ QueueSize \in Nat /\ Len(w.q) \in Nat
  BY EventsAreNumbers, EventExportAssumption DEF Worker
<1>2. /\ Len(v.q) = Len(w.q) - 1 /\ Up(v.q) /\ e \in ToSet(w.q) /\ e \in Nat
      /\ ToSet(v.q) = ToSet(w.q) \ {e} /\ \A a \in ToSet(v.q) : e < a
  BY <1>1, TailFacts, ElementsOf DEF Apart
<1> HIDE DEF e
<1>3. CASE v.sent = Append(w.sent, e) /\ v.failed = w.failed
  <2>1. ToSet(v.sent) = ToSet(w.sent) \cup {e} /\ Up(v.sent)
    BY <1>1, <1>2, <1>3, AppendFacts DEF Apart
  <2> QED BY <1>1, <1>2, <1>3, <2>1 DEF Apart, Mine, Handles
<1>4. CASE v.sent = w.sent /\ v.failed = w.failed \cup {e}
  <2>1. e \notin ToSet(w.sent)
    <3>1. \A a \in ToSet(w.sent) : a < e
      BY <1>2 DEF Apart
    <3> QED BY <1>2, <3>1
  <2> QED BY <1>1, <1>2, <1>4, <2>1 DEF Apart, Mine, Handles
<1> QED BY <1>3, <1>4 DEF e

LEMMA WorkEffect ==
  ASSUME Inv, NEW i \in 1..Len(workers), Work(i)
  PROVE  \E v \in Worker : LET w == workers[i] IN
           /\ workers' = [workers EXCEPT ![i] = v] /\ netFailures' \in 0..MaxFailures
           /\ UNCHANGED <<published, bus, busDropped, started, hand, cfg, worker, saveFailures>>
           /\ v.dest = w.dest /\ v.born = w.born /\ v.live = w.live /\ v.dropped = w.dropped
           /\ Apart(v) /\ Mine(v) = Mine(w) /\ Len(v.q) <= QueueSize /\ Handles(w, v)
<1> DEFINE w == workers[i]
<1>1. /\ w \in Worker /\ Apart(w) /\ Len(w.q) <= QueueSize /\ TypeOK
      /\ w.q \in Seq(Events) /\ w.sent \in Seq(Events) /\ w.failed \in SUBSET Events
  BY WorkerFacts DEF Inv, Kept, TypeOK, Worker
<1>2. /\ netFailures \in 0..MaxFailures /\ saveFailures \in 0..MaxFailures
      /\ MaxFailures \in Nat /\ MaxBackoff \in Nat \ {0}
      /\ NetFailure => netFailures' \in 0..MaxFailures
  BY EventExportAssumption DEF Inv, TypeOK, NetFailure, CanFail
<1>3. NextBackoff(w.backoff) \in Backoffs /\ 0 \in Backoffs
  BY <1>1, <1>2 DEF Worker, NextBackoff, Backoffs
<1>4. CASE Send(i)
  <2> DEFINE v == [w EXCEPT !.q = Tail(@), !.sent = Append(@, Head(w.q)), !.conn = TRUE,
                            !.backoff = IF w.conn THEN @ ELSE 0]
  <2>1. /\ w.q # <<>> /\ workers' = [workers EXCEPT ![i] = v] /\ UNCHANGED netFailures
        /\ UNCHANGED <<published, bus, busDropped, started, hand, cfg, worker, saveFailures>>
    BY <1>4 DEF Send, Ready, Became
  <2>2. Tail(w.q) \in Seq(Events) /\ Append(w.sent, Head(w.q)) \in Seq(Events)
    BY <1>1, <2>1
  <2>3. v \in Worker
    BY <1>1, <1>3, <2>2 DEF Worker
  <2>4. /\ v.dest = w.dest /\ v.born = w.born /\ v.live = w.live /\ v.dropped = w.dropped
        /\ v.q = Tail(w.q) /\ v.sent = Append(w.sent, Head(w.q)) /\ v.failed = w.failed
    BY <1>1 DEF Worker
  <2> HIDE DEF v
  <2>5. Apart(v) /\ Mine(v) = Mine(w) /\ Len(v.q) <= QueueSize /\ Handles(w, v)
    BY <1>1, <2>1, <2>3, <2>4, HandleFacts
  <2> QED BY <1>2, <2>1, <2>3, <2>4, <2>5
<1>5. CASE DialFails(i)
  <2> DEFINE v == [w EXCEPT !.q = Tail(@), !.failed = @ \cup {Head(w.q)},
                            !.backoff = NextBackoff(@), !.phase = "backoff"]
  <2>1. /\ w.q # <<>> /\ workers' = [workers EXCEPT ![i] = v] /\ NetFailure
        /\ UNCHANGED <<published, bus, busDropped, started, hand, cfg, worker, saveFailures>>
    BY <1>5 DEF DialFails, Ready, Became
  <2>2. Tail(w.q) \in Seq(Events) /\ w.failed \cup {Head(w.q)} \in SUBSET Events
    BY <1>1, <2>1
  <2>3. v \in Worker
    BY <1>1, <1>3, <2>2 DEF Worker
  <2>4. /\ v.dest = w.dest /\ v.born = w.born /\ v.live = w.live /\ v.dropped = w.dropped
        /\ v.q = Tail(w.q) /\ v.sent = w.sent /\ v.failed = w.failed \cup {Head(w.q)}
    BY <1>1 DEF Worker
  <2> HIDE DEF v
  <2>5. Apart(v) /\ Mine(v) = Mine(w) /\ Len(v.q) <= QueueSize /\ Handles(w, v)
    BY <1>1, <2>1, <2>3, <2>4, HandleFacts
  <2> QED BY <1>2, <2>1, <2>3, <2>4, <2>5
<1>6. CASE WriteFails(i)
  <2> DEFINE v == [w EXCEPT !.q = Tail(@), !.failed = @ \cup {Head(w.q)}, !.conn = FALSE,
                            !.backoff = IF w.conn THEN @ ELSE 0]
  <2>1. /\ w.q # <<>> /\ workers' = [workers EXCEPT ![i] = v] /\ NetFailure
        /\ UNCHANGED <<published, bus, busDropped, started, hand, cfg, worker, saveFailures>>
    BY <1>6 DEF WriteFails, Ready, Became
  <2>2. Tail(w.q) \in Seq(Events) /\ w.failed \cup {Head(w.q)} \in SUBSET Events
    BY <1>1, <2>1
  <2>3. v \in Worker
    BY <1>1, <1>3, <2>2 DEF Worker
  <2>4. /\ v.dest = w.dest /\ v.born = w.born /\ v.live = w.live /\ v.dropped = w.dropped
        /\ v.q = Tail(w.q) /\ v.sent = w.sent /\ v.failed = w.failed \cup {Head(w.q)}
    BY <1>1 DEF Worker
  <2> HIDE DEF v
  <2>5. Apart(v) /\ Mine(v) = Mine(w) /\ Len(v.q) <= QueueSize /\ Handles(w, v)
    BY <1>1, <2>1, <2>3, <2>4, HandleFacts
  <2> QED BY <1>2, <2>1, <2>3, <2>4, <2>5
<1>7. CASE BackoffEnds(i) \/ Exit(i)
  <2>1. \E v \in Worker :
        /\ workers' = [workers EXCEPT ![i] = v] /\ UNCHANGED netFailures
        /\ UNCHANGED <<published, bus, busDropped, started, hand, cfg, worker, saveFailures>>
        /\ v.dest = w.dest /\ v.born = w.born /\ v.live = w.live /\ v.dropped = w.dropped
        /\ v.q = w.q /\ v.sent = w.sent /\ v.failed = w.failed
    <3>1. CASE BackoffEnds(i)
      <4>1. [w EXCEPT !.phase = "select"] \in Worker
        BY <1>1 DEF Worker
      <4> QED BY <1>1, <3>1, <4>1 DEF BackoffEnds, Became, Worker
    <3>2. CASE Exit(i)
      <4>1. [w EXCEPT !.phase = "exited", !.conn = FALSE] \in Worker
        BY <1>1 DEF Worker
      <4> QED BY <1>1, <3>2, <4>1 DEF Exit, Became, Worker
    <3> QED BY <1>7, <3>1, <3>2
  <2> QED BY <1>1, <1>2, <2>1 DEF Apart, Mine, Handles
<1> QED BY <1>4, <1>5, <1>6, <1>7 DEF Work

LEMMA WorkInv ==
  ASSUME Inv, NEW i \in 1..Len(workers), Work(i)
  PROVE  Inv'
<1>1. PICK v \in Worker : LET w == workers[i] IN
           /\ workers' = [workers EXCEPT ![i] = v] /\ netFailures' \in 0..MaxFailures
           /\ UNCHANGED <<published, bus, busDropped, started, hand, cfg, worker, saveFailures>>
           /\ v.dest = w.dest /\ v.born = w.born /\ v.live = w.live /\ v.dropped = w.dropped
           /\ Apart(v) /\ Mine(v) = Mine(w) /\ Len(v.q) <= QueueSize /\ Handles(w, v)
  BY WorkEffect
<1>2. /\ workers' \in Seq(Worker) /\ Len(workers') = Len(workers) /\ workers'[i] = v
      /\ \A j \in 1..Len(workers) : j # i => workers'[j] = workers[j]
  BY <1>1, ExceptSeq DEF Inv, TypeOK
<1>3. \A j \in 1..Len(workers) :
        /\ workers'[j].dest = workers[j].dest /\ workers'[j].born = workers[j].born
        /\ workers'[j].live = workers[j].live /\ Mine(workers'[j]) = Mine(workers[j])
        /\ Apart(workers'[j]) /\ Len(workers'[j].q) <= QueueSize
  BY <1>1, <1>2 DEF Inv, TypeOK, Kept
<1>4. TypeOK'
  BY <1>1, <1>2, <1>3 DEF Inv, TypeOK
<1>5. Table' /\ NoStrayWorker'
  <2>1. \A d \in Dests : worker[d] # 0 => worker[d] \in 1..Len(workers)
    BY LengthFacts DEF Inv, TypeOK
  <2>2. Table'
    BY <1>1, <1>3, <2>1 DEF Inv, Table
  <2>3. NoStrayWorker'
    BY <1>1, <1>2, <1>3 DEF Inv, NoStrayWorker
  <2> QED BY <2>2, <2>3
<1>6. Quiet'
  <2>1. started
    BY DEF Inv, Quiet
  <2> QED BY <1>1, <2>1 DEF Quiet
<1>7. Ordered'
  BY <1>1 DEF Inv, Ordered, Pipe
<1>8. Kept' /\ Shared'
  BY <1>1, <1>2, <1>3, WorkersKept
<1> QED BY <1>4, <1>5, <1>6, <1>7, <1>8 DEF Inv

-----------------------------------------------------------------------------
LEMMA NewWorkerFacts ==
  ASSUME TypeOK, NEW d \in Dests
  PROVE  LET w == NewWorker(d) IN
         /\ w \in Worker /\ Apart(w) /\ Mine(w) = {} /\ Len(w.q) <= QueueSize
         /\ w.dest = d /\ w.born = Len(published) /\ w.live
<1>1. /\ Len(published) \in 0..MaxEvents /\ 0 \in Backoffs /\ QueueSize \in Nat
      /\ <<>> \in Seq(Events) /\ Len(<<>>) = 0
  BY LengthFacts, EventExportAssumption DEF TypeOK, Backoffs
<1>2. NewWorker(d) \in Worker
  BY <1>1 DEF NewWorker, Worker
<1> QED BY <1>1, <1>2, EmptyFacts DEF NewWorker, Apart, Mine

\* Cancelling the worker of d takes its life and nothing else.
LEMMA CancelFacts ==
  ASSUME Inv, NEW d \in Dests, NEW c, c = CancelWorker(d)
  PROVE  /\ c \in Seq(Worker) /\ Len(c) = Len(workers)
         /\ \A i \in 1..Len(workers) :
              /\ c[i].dest = workers[i].dest /\ c[i].born = workers[i].born
              /\ c[i].q = workers[i].q /\ c[i].sent = workers[i].sent
              /\ c[i].failed = workers[i].failed /\ c[i].dropped = workers[i].dropped
              /\ c[i].live => workers[i].live
              /\ workers[i].dest = d => ~c[i].live
              /\ workers[i].dest # d => c[i] = workers[i]
<1>1. \A i \in 1..Len(workers) : workers[i] \in Worker
  BY WorkerFacts DEF Inv
<1>2. worker[d] # 0 => worker[d] \in 1..Len(workers) /\ workers[worker[d]].dest = d
  BY LengthFacts DEF Inv, TypeOK, Table
<1>3. \A i \in 1..Len(workers) : workers[i].live <=> worker[workers[i].dest] = i
  BY DEF Inv, NoStrayWorker
<1>4. CASE worker[d] = 0
  <2>1. \A i \in 1..Len(workers) : workers[i].dest = d => ~workers[i].live
    BY <1>3, <1>4
  <2> QED BY <1>4, <2>1 DEF CancelWorker, Inv, TypeOK
<1>5. CASE worker[d] # 0
  <2> DEFINE k == worker[d]
             v == [workers[k] EXCEPT !.live = FALSE]
  <2>1. c = [workers EXCEPT ![k] = v]
    BY <1>5 DEF CancelWorker
  <2>2. /\ v \in Worker /\ v.dest = d /\ v.born = workers[k].born /\ v.q = workers[k].q
        /\ v.sent = workers[k].sent /\ v.failed = workers[k].failed
        /\ v.dropped = workers[k].dropped /\ v.live = FALSE
    <3>1. workers[k] \in Worker
      BY <1>1, <1>2, <1>5
    <3>2. v \in Worker
      BY <3>1 DEF Worker
    <3>3. v.live = FALSE
      BY <3>1 DEF Worker
    <3>4. /\ v.dest = workers[k].dest /\ v.born = workers[k].born /\ v.q = workers[k].q
          /\ v.sent = workers[k].sent /\ v.failed = workers[k].failed
          /\ v.dropped = workers[k].dropped
      BY <3>1 DEF Worker
    <3> QED BY <1>2, <1>5, <3>2, <3>3, <3>4
  <2> HIDE DEF v
  <2>3. /\ c \in Seq(Worker) /\ Len(c) = Len(workers) /\ c[k] = v
        /\ \A i \in 1..Len(workers) : i # k => c[i] = workers[i]
    BY <1>2, <1>5, <2>1, <2>2, ExceptSeq DEF Inv, TypeOK
  <2>4. \A i \in 1..Len(workers) : i # k /\ workers[i].dest = d => ~workers[i].live
    BY <1>3
  <2>5. ASSUME NEW i \in 1..Len(workers)
        PROVE  /\ c[i].dest = workers[i].dest /\ c[i].born = workers[i].born
               /\ c[i].q = workers[i].q /\ c[i].sent = workers[i].sent
               /\ c[i].failed = workers[i].failed /\ c[i].dropped = workers[i].dropped
               /\ c[i].live => workers[i].live
               /\ workers[i].dest = d => ~c[i].live
               /\ workers[i].dest # d => c[i] = workers[i]
    <3>1. CASE i = k
      BY <1>2, <1>5, <2>2, <2>3, <3>1
    <3>2. CASE i # k
      BY <2>3, <2>4, <3>2
    <3> QED BY <3>1, <3>2
  <2> QED BY <2>3, <2>5
<1> QED BY <1>4, <1>5

\* The two outcomes of a reconfiguration: the destination has a new worker, or
\* none.
LEMMA ReconfigureEffect ==
  ASSUME Inv, NEW d \in Dests, NEW value \in {"on", "off", "absent"}, Reconfigure(d, value)
  PROVE  \E c \in Seq(Worker) :
           /\ c = CancelWorker(d) /\ cfg' = [cfg EXCEPT ![d] = value]
           /\ UNCHANGED <<published, bus, busDropped, started, hand, netFailures>>
           /\ saveFailures' \in 0..MaxFailures /\ (saveFailures' = 0 => saveFailures = 0)
           /\ \/ /\ value = "on" /\ started /\ Len(workers) < MaxWorkers
                 /\ workers' = Append(c, NewWorker(d))
                 /\ worker' = [worker EXCEPT ![d] = Len(workers) + 1]
              \/ /\ value # "on" \/ ~started \/ saveFailures' # 0
                 /\ workers' = c /\ worker' = [worker EXCEPT ![d] = 0]
<1> DEFINE c == CancelWorker(d)
<1>1. c \in Seq(Worker) /\ Len(c) = Len(workers)
  BY CancelFacts
<1>2. NewWorker(d) \in Worker
  BY NewWorkerFacts DEF Inv
<1>3. Len(Append(c, NewWorker(d))) = Len(workers) + 1
  BY <1>1, <1>2
<1>4. /\ saveFailures \in 0..MaxFailures /\ netFailures \in 0..MaxFailures /\ MaxFailures \in Nat
      /\ CanFail => saveFailures + 1 \in 1..MaxFailures
  BY EventExportAssumption DEF Inv, TypeOK, CanFail
<1> QED BY <1>1, <1>3, <1>4 DEF Reconfigure

LEMMA ReconfigureInv ==
  ASSUME Inv, NEW d \in Dests, NEW value \in {"on", "off", "absent"}, Reconfigure(d, value)
  PROVE  Inv'
<1>1. PICK c \in Seq(Worker) :
           /\ c = CancelWorker(d) /\ cfg' = [cfg EXCEPT ![d] = value]
           /\ UNCHANGED <<published, bus, busDropped, started, hand, netFailures>>
           /\ saveFailures' \in 0..MaxFailures /\ (saveFailures' = 0 => saveFailures = 0)
           /\ \/ /\ value = "on" /\ started /\ Len(workers) < MaxWorkers
                 /\ workers' = Append(c, NewWorker(d))
                 /\ worker' = [worker EXCEPT ![d] = Len(workers) + 1]
              \/ /\ value # "on" \/ ~started \/ saveFailures' # 0
                 /\ workers' = c /\ worker' = [worker EXCEPT ![d] = 0]
  BY ReconfigureEffect
<1> DEFINE n == Len(workers)
<1>2. /\ Len(c) = n /\ n \in Nat
      /\ \A i \in 1..n : /\ c[i].dest = workers[i].dest /\ c[i].born = workers[i].born
                        /\ Mine(c[i]) = Mine(workers[i])
                        /\ Apart(c[i]) /\ Len(c[i].q) <= QueueSize
  <2>1. Len(c) = n /\ n \in Nat
    BY <1>1, CancelFacts, LengthFacts DEF Inv
  <2> SUFFICES ASSUME NEW i \in 1..n
               PROVE  /\ c[i].dest = workers[i].dest /\ c[i].born = workers[i].born
                      /\ Mine(c[i]) = Mine(workers[i])
                      /\ Apart(c[i]) /\ Len(c[i].q) <= QueueSize
    BY <2>1
  <2>2. /\ c[i].dest = workers[i].dest /\ c[i].born = workers[i].born
        /\ c[i].q = workers[i].q /\ c[i].sent = workers[i].sent
        /\ c[i].failed = workers[i].failed /\ c[i].dropped = workers[i].dropped
    BY <1>1, CancelFacts
  <2>3. Apart(workers[i]) /\ Len(workers[i].q) <= QueueSize
    BY DEF Inv, Kept, TypeOK
  <2> QED BY <2>2, <2>3 DEF Mine, Apart
<1>10. \A i \in 1..n : /\ c[i].live => workers[i].live
                       /\ workers[i].dest = d => ~c[i].live
                       /\ workers[i].dest # d => c[i] = workers[i]
  BY <1>1, CancelFacts
<1>3. LET w == NewWorker(d) IN
         /\ w \in Worker /\ Apart(w) /\ Mine(w) = {} /\ Len(w.q) <= QueueSize
         /\ w.dest = d /\ w.born = Len(published) /\ w.live
  BY NewWorkerFacts DEF Inv
<1>4. \A i \in 1..n : workers[i].live <=> worker[workers[i].dest] = i
  BY DEF Inv, NoStrayWorker
<1>5. /\ \A e \in Dests : worker[e] # 0 => worker[e] \in 1..n /\ workers[worker[e]].dest = e
      /\ worker \in [Dests -> 0..n] /\ \A i \in 1..n : workers[i].dest \in Dests
      /\ \A e \in Dests : worker[e] # 0 => cfg[e] = "on"
      /\ started /\ saveFailures = 0 => \A e \in Dests : cfg[e] = "on" => worker[e] # 0
  BY LengthFacts, WorkerFacts DEF Inv, TypeOK, Table, NoStrayWorker
<1>6. /\ cfg' \in [Dests -> {"absent", "off", "on"}] /\ cfg'[d] = value
      /\ \A e \in Dests : e # d => cfg'[e] = cfg[e]
  BY <1>1 DEF Inv, TypeOK
<1>7. Ordered'
  BY <1>1 DEF Inv, Ordered, Pipe
<1>8. CASE /\ value = "on" /\ started /\ workers' = Append(c, NewWorker(d))
           /\ worker' = [worker EXCEPT ![d] = n + 1]
  <2>1. /\ workers' \in Seq(Worker) /\ Len(workers') = n + 1 /\ workers'[n + 1] = NewWorker(d)
        /\ \A i \in 1..n : workers'[i] = c[i]
    BY <1>2, <1>3, <1>8
  <2>2. /\ worker' \in [Dests -> 0..(n + 1)] /\ worker'[d] = n + 1
        /\ \A e \in Dests : e # d => worker'[e] = worker[e]
    BY <1>2, <1>5, <1>8
  <2>3. \A i \in 1..(n + 1) : i \in 1..n \/ i = n + 1
    BY <1>2
  <2>4. TypeOK'
    <3>1. \A i \in 1..Len(workers') : Len(workers'[i].q) <= QueueSize
      BY <1>2, <1>3, <2>1, <2>3
    <3> QED BY <1>1, <1>6, <2>1, <2>2, <3>1 DEF Inv, TypeOK
  <2>5. Quiet'
    BY <1>1, <1>8 DEF Quiet
  <2>6. Table'
    <3>1. \A e \in Dests : e # d /\ worker[e] # 0 => workers'[worker'[e]].dest = e
      BY <1>2, <1>5, <2>1, <2>2
    <3> QED BY <1>3, <2>1, <2>2, <3>1 DEF Table
  <2>7. NoStrayWorker'
    <3>1. \A i \in 1..Len(workers') : workers'[i].live <=> worker'[workers'[i].dest] = i
      <4> SUFFICES ASSUME NEW i \in 1..(n + 1)
                   PROVE  workers'[i].live <=> worker'[workers'[i].dest] = i
        BY <2>1
      <4>1. CASE i = n + 1
        BY <1>3, <2>1, <2>2, <4>1
      <4>2. CASE i \in 1..n /\ workers[i].dest = d
        <5>1. workers'[i] = c[i] /\ c[i].dest = d /\ worker'[d] # i
          BY <1>2, <2>1, <2>2, <4>2
        <5>2. ~c[i].live
          BY <1>10, <4>2
        <5> QED BY <5>1, <5>2
      <4>3. CASE i \in 1..n /\ workers[i].dest # d
        <5>1. workers'[i] = workers[i]
          BY <1>10, <2>1, <4>3
        <5>2. worker'[workers[i].dest] = worker[workers[i].dest]
          BY <1>5, <2>2, <4>3
        <5> QED BY <1>4, <4>3, <5>1, <5>2
      <4> QED BY <2>3, <4>1, <4>2, <4>3
    <3>2. \A e \in Dests : worker'[e] # 0 => cfg'[e] = "on"
      BY <1>5, <1>6, <1>8, <2>2
    <3>3. started' /\ saveFailures' = 0 => \A e \in Dests : cfg'[e] = "on" => worker'[e] # 0
      BY <1>1, <1>2, <1>5, <1>6, <2>2
    <3> QED BY <3>1, <3>2, <3>3 DEF NoStrayWorker
  <2>8. Kept' /\ Shared'
    <3>1. ASSUME NEW i \in 1..n
          PROVE  /\ Apart(workers'[i]) /\ Mine(workers'[i]) = Mine(workers[i])
                 /\ workers'[i].dest = workers[i].dest /\ workers'[i].born = workers[i].born
                 /\ workers'[i].live => workers[i].live
      BY <1>2, <1>10, <2>1
    <3>2. /\ Apart(workers'[n + 1]) /\ Mine(workers'[n + 1]) = {}
          /\ workers'[n + 1].born = Len(published)
      BY <1>3, <2>1
    <3> QED BY <1>1, <2>1, <2>3, <3>1, <3>2, WorkersKept
  <2> QED BY <1>7, <2>4, <2>5, <2>6, <2>7, <2>8 DEF Inv
<1>9. CASE /\ value # "on" \/ ~started \/ saveFailures' # 0
           /\ workers' = c /\ worker' = [worker EXCEPT ![d] = 0]
  <2>1. /\ worker' \in [Dests -> 0..n] /\ worker'[d] = 0
        /\ \A e \in Dests : e # d => worker'[e] = worker[e]
    BY <1>2, <1>5, <1>9
  <2>2. TypeOK'
    BY <1>1, <1>2, <1>6, <1>9, <2>1 DEF Inv, TypeOK
  <2>3. Quiet'
    <3> SUFFICES ASSUME ~started
                 PROVE  /\ bus = <<>> /\ hand = {} /\ busDropped = {}
                        /\ worker' = [e \in Dests |-> 0] /\ workers' = <<>>
      BY <1>1 DEF Quiet
    <3>1. /\ bus = <<>> /\ hand = {} /\ busDropped = {}
          /\ worker = [e \in Dests |-> 0] /\ workers = <<>>
      BY DEF Inv, Quiet
    <3>2. c = <<>>
      BY <1>1, <3>1 DEF CancelWorker
    <3> QED BY <1>9, <3>1, <3>2
  <2>4. Table'
    BY <1>2, <1>5, <1>9, <2>1 DEF Table
  <2>5. NoStrayWorker'
    <3>1. \A i \in 1..Len(workers') : workers'[i].live <=> worker'[workers'[i].dest] = i
      <4> SUFFICES ASSUME NEW i \in 1..n
                   PROVE  c[i].live <=> worker'[workers[i].dest] = i
        BY <1>2, <1>9
      <4>1. CASE workers[i].dest = d
        <5>1. worker'[d] # i
          BY <2>1
        <5>2. ~c[i].live
          BY <1>10, <4>1
        <5> QED BY <4>1, <5>1, <5>2
      <4>2. CASE workers[i].dest # d
        <5>1. c[i] = workers[i]
          BY <1>10, <4>2
        <5>2. worker'[workers[i].dest] = worker[workers[i].dest]
          BY <1>5, <2>1, <4>2
        <5> QED BY <1>4, <5>1, <5>2
      <4> QED BY <4>1, <4>2
    <3>2. \A e \in Dests : worker'[e] # 0 => cfg'[e] = "on"
      BY <1>5, <1>6, <2>1
    <3>3. started' /\ saveFailures' = 0 => \A e \in Dests : cfg'[e] = "on" => worker'[e] # 0
      BY <1>1, <1>5, <1>6, <1>9, <2>1
    <3> QED BY <3>1, <3>2, <3>3 DEF NoStrayWorker
  <2>6. Kept' /\ Shared'
    BY <1>1, <1>2, <1>9, <1>10, WorkersKept
  <2> QED BY <1>7, <2>2, <2>3, <2>4, <2>5, <2>6 DEF Inv
<1> QED BY <1>1, <1>8, <1>9

\* The workers of Start: one for every enabled destination.
LEMMA StartEffect ==
  ASSUME Inv, Start
  PROVE  /\ ~started /\ started' /\ workers = <<>>
         /\ UNCHANGED <<published, bus, busDropped, hand, cfg, netFailures, saveFailures>>
         /\ workers' \in Seq(Worker) /\ worker' \in [Dests -> 0..Len(workers')]
         /\ \A i \in 1..Len(workers') :
              /\ workers'[i].dest \in Dests /\ workers'[i] = NewWorker(workers'[i].dest)
              /\ worker'[workers'[i].dest] = i
         /\ \A d \in Dests : IF cfg[d] = "on"
                             THEN /\ worker'[d] \in 1..Len(workers')
                                  /\ workers'[worker'[d]].dest = d
                             ELSE worker'[d] = 0
<1> DEFINE E == {d \in Dests : cfg[d] = "on"}
           n == Cardinality(E)
<1>1. PICK order \in SetToSeqs(E) :
        /\ workers' = [i \in 1..Len(order) |-> NewWorker(order[i])]
        /\ worker' = [d \in Dests |-> IF cfg[d] # "on" THEN 0
                                      ELSE CHOOSE i \in 1..Len(order) : order[i] = d]
  BY DEF Start
<1>2. /\ ~started /\ started'
      /\ UNCHANGED <<published, bus, busDropped, hand, cfg, netFailures, saveFailures>>
  BY DEF Start
<1>3. workers = <<>>
  BY <1>2 DEF Inv, Quiet
<1>4. IsFiniteSet(E) /\ n \in Nat
  BY EventExportAssumption, FS_Subset, FS_CardinalityType
<1>5. order \in [1..n -> E] /\ \A i, j \in 1..n : i # j => order[i] # order[j]
  BY DEF SetToSeqs
<1>6. Len(order) = n
  BY <1>4, <1>5
<1>7. \A d \in E : \E i \in 1..n : order[i] = d
  <2>1. order \in Injection(1..n, E)
    BY <1>5 DEF Injection, IsInjective
  <2>2. Cardinality(1..n) = n
    BY <1>4, FS_Interval
  <2>3. order \in Surjection(1..n, E)
    BY <1>4, <2>1, <2>2, FS_Injection
  <2> QED BY <2>3 DEF Surjection
<1> HIDE DEF n
<1>8. \A i \in 1..n : /\ order[i] \in Dests /\ cfg[order[i]] = "on"
                      /\ NewWorker(order[i]) \in Worker /\ NewWorker(order[i]).dest = order[i]
  BY <1>5, NewWorkerFacts DEF Inv
<1>9. /\ workers' \in Seq(Worker) /\ Len(workers') = n
      /\ \A i \in 1..n : workers'[i] = NewWorker(order[i])
  BY <1>1, <1>4, <1>6, <1>8
<1>10. \A d \in Dests : IF cfg[d] = "on" THEN worker'[d] \in 1..n /\ order[worker'[d]] = d
                        ELSE worker'[d] = 0
  BY <1>1, <1>6, <1>7
<1>11. \A i \in 1..n : worker'[order[i]] = i
  BY <1>5, <1>8, <1>10
<1>12. worker' \in [Dests -> 0..n]
  <2>1. worker' = [d \in Dests |-> worker'[d]]
    BY <1>1
  <2>2. \A d \in Dests : worker'[d] \in 0..n
    BY <1>4, <1>10
  <2> QED BY <2>1, <2>2
<1> QED BY <1>2, <1>3, <1>8, <1>9, <1>10, <1>11, <1>12

LEMMA StartInv ==
  ASSUME Inv, Start
  PROVE  Inv'
<1>1. /\ ~started /\ started' /\ workers = <<>>
      /\ UNCHANGED <<published, bus, busDropped, hand, cfg, netFailures, saveFailures>>
      /\ workers' \in Seq(Worker) /\ worker' \in [Dests -> 0..Len(workers')]
      /\ \A i \in 1..Len(workers') :
           /\ workers'[i].dest \in Dests /\ workers'[i] = NewWorker(workers'[i].dest)
           /\ worker'[workers'[i].dest] = i
      /\ \A d \in Dests : IF cfg[d] = "on"
                          THEN /\ worker'[d] \in 1..Len(workers')
                               /\ workers'[worker'[d]].dest = d
                          ELSE worker'[d] = 0
  BY StartEffect
<1>2. \A i \in 1..Len(workers') :
        /\ Apart(workers'[i]) /\ Mine(workers'[i]) = {} /\ Len(workers'[i].q) <= QueueSize
        /\ workers'[i].born = Len(published) /\ workers'[i].live
  BY <1>1, NewWorkerFacts DEF Inv
<1>3. TypeOK'
  BY <1>1, <1>2 DEF Inv, TypeOK
<1>4. Quiet' /\ Table'
  BY <1>1 DEF Quiet, Table
<1>5. NoStrayWorker'
  BY <1>1, <1>2 DEF NoStrayWorker
<1>6. Ordered'
  BY <1>1 DEF Inv, Ordered, Pipe
<1>7. Kept' /\ Shared'
  BY <1>1, <1>2, WorkersKept
<1> QED BY <1>3, <1>4, <1>5, <1>6, <1>7 DEF Inv

LEMMA NextInv == Inv /\ [Next]_vars => Inv'
<1> SUFFICES ASSUME Inv, [Next]_vars PROVE Inv'
  OBVIOUS
<1>1. ASSUME NEW d \in Dests, Upsert(d) \/ Enable(d) \/ Delete(d)
      PROVE  Inv'
  BY <1>1, ReconfigureInv DEF Upsert, Enable, Delete
<1>2. CASE Next
  BY <1>1, <1>2, StartInv, TakeInv, OfferInv, PublishInv, WorkInv DEF Next
<1>3. CASE UNCHANGED vars
  BY <1>3 DEF vars, Inv, TypeOK, Quiet, Table, NoStrayWorker, Ordered, Pipe, Kept, Behind,
     Accounted, Shared
<1> QED BY <1>2, <1>3

LEMMA Invariance == Spec => []Inv
  BY InitInv, NextInv, PTL DEF Spec

-----------------------------------------------------------------------------
\* Queues, backoffs and failures keep their types and bounds, whatever the
\* collectors and the operators do.
THEOREM ExportTypeCorrect == Spec => []TypeOK
<1>1. Inv => TypeOK
  BY DEF Inv
<1> QED BY <1>1, Invariance, PTL

\* No worker is left behind by Start, Upsert, Enable and Delete, in any order and
\* with failing saves: a destination has exactly one live worker, or none.
THEOREM NoStrayWorkerCorrect == Spec => []NoStrayWorker
<1>1. Inv => NoStrayWorker
  BY DEF Inv
<1> QED BY <1>1, Invariance, PTL

\* A worker sends in the order of publication, and the workers that serve a
\* destination one after the other never send one event twice.
THEOREM SentOnceInOrderCorrect == Spec => []SentOnceInOrder
<1>1. Inv => SentOnceInOrder
  BY DEF Inv, Kept, Shared, Apart, Up, Mine, SentOnceInOrder
<1> QED BY <1>1, Invariance, PTL

-----------------------------------------------------------------------------
(* The refinement of the abstract outlet. *)

\* PlaceOf, as it is while the invariant holds.
Due(i, e) == workers[i].born < e /\ published[e] \in Wants[workers[i].dest]
Form(i, e) ==
  IF i > Len(workers) \/ e > Len(published) THEN "new"
  ELSE IF e \in ToSet(workers[i].sent) THEN "sent"
  ELSE IF e \in workers[i].failed THEN "failed"
  ELSE IF ~Due(i, e) THEN "new"
  ELSE IF e \in workers[i].dropped \cup busDropped THEN "dropped"
  ELSE IF e \in ToSet(workers[i].q) \/ (workers[i].live /\ e \in Pipe) THEN "waiting"
  ELSE "forgotten"
FormOK == \A i \in 1..MaxWorkers, e \in Events : PlaceOf(i, e) = Form(i, e)

LEMMA FormCorrect == Inv => FormOK
<1> SUFFICES ASSUME Inv, NEW i \in 1..MaxWorkers, NEW e \in Events
             PROVE  PlaceOf(i, e) = Form(i, e)
  BY DEF FormOK
<1>1. MaxWorkers \in Nat /\ Len(workers) \in Nat /\ Len(published) \in Nat /\ e \in Nat /\ i \in Nat
  BY EventExportAssumption, EventsAreNumbers, LengthFacts DEF Inv
<1>2. CASE i > Len(workers) \/ e > Len(published)
  BY <1>2 DEF PlaceOf, Form
<1>3. CASE ~(i > Len(workers) \/ e > Len(published))
  <2> DEFINE w == workers[i]
  <2>1. i \in 1..Len(workers) /\ e \in 1..Len(published)
    BY <1>1, <1>3 DEF Events
  <2>2. /\ Apart(w) /\ Behind(w) /\ Accounted(w) /\ w.q \in Seq(Nat) /\ w.sent \in Seq(Nat)
        /\ bus \in Seq(Nat) /\ w \in Worker
    BY <2>1, WorkerFacts, LengthFacts DEF Inv, Kept
  <2>3. /\ Contains(w.q, e) <=> e \in ToSet(w.q)
        /\ Contains(w.sent, e) <=> e \in ToSet(w.sent)
        /\ Contains(bus, e) <=> e \in ToSet(bus)
    BY <2>2, ContainsFacts
  <2>4. /\ ~(e \in Mine(w) /\ e \in Pipe) /\ ~(e \in Mine(w) /\ e \in busDropped)
        /\ ~(e \in Pipe /\ e \in busDropped)
    BY <1>1, <2>2 DEF Behind, Inv, Ordered
  <2>5. /\ ~(e \in ToSet(w.q) /\ e \in ToSet(w.sent)) /\ ~(e \in w.failed /\ e \in ToSet(w.q))
        /\ ~(e \in w.failed /\ e \in ToSet(w.sent)) /\ ~(e \in w.failed /\ e \in w.dropped)
        /\ ~(e \in w.dropped /\ e \in ToSet(w.q)) /\ ~(e \in w.dropped /\ e \in ToSet(w.sent))
    BY <1>1, <2>2 DEF Apart
  <2>6. /\ Waiting(w, e) <=> e \in Pipe \cup ToSet(w.q)
        /\ ~Twice(w, e)
    BY <2>3, <2>4 DEF Waiting, Twice, Pipe, Mine
  <2>7. /\ "sent" \in Ends(w, e) <=> e \in ToSet(w.sent)
        /\ "failed" \in Ends(w, e) <=> e \in w.failed
        /\ "dropped" \in Ends(w, e) <=> e \in w.dropped \cup busDropped
        /\ Ends(w, e) \subseteq {"sent", "failed", "dropped"}
    BY <2>3 DEF Ends
  <2>8. /\ \A x : Cardinality({x}) = 1 /\ (CHOOSE end \in {x} : TRUE) = x
        /\ Cardinality({}) = 0
    BY FS_Singleton, FS_EmptySet
  <2>9. PlaceOf(i, e) =
          LET ends == Ends(w, e)  waits == Waiting(w, e) IN
          IF ~Due(i, e)
            THEN IF ends \in {{}, {"dropped"}} THEN "new" ELSE CHOOSE end \in ends : TRUE
          ELSE IF Cardinality(ends) = 1 /\ ~(w.live /\ waits) THEN CHOOSE end \in ends : TRUE
          ELSE IF ends # {} \/ (w.live /\ Twice(w, e)) THEN "torn"
          ELSE IF Contains(w.q, e) \/ (w.live /\ waits) THEN "waiting"
          ELSE IF w.live THEN "torn" ELSE "forgotten"
    <3>1. e <= w.born \/ published[e] \notin Wants[w.dest] <=> ~Due(i, e)
      <4>1. w.born \in Nat
        BY <2>2, EventExportAssumption DEF Worker
      <4> QED BY <1>1, <4>1 DEF Due
    <3> QED BY <1>3, <3>1 DEF PlaceOf
  <2> HIDE DEF w
  <2>10. Form(i, e) =
           IF e \in ToSet(w.sent) THEN "sent"
           ELSE IF e \in w.failed THEN "failed"
           ELSE IF ~Due(i, e) THEN "new"
           ELSE IF e \in w.dropped \cup busDropped THEN "dropped"
           ELSE IF e \in ToSet(w.q) \/ (w.live /\ e \in Pipe) THEN "waiting"
           ELSE "forgotten"
    BY <1>3 DEF Form, w
  <2>11. CASE e \in ToSet(w.sent)
    <3>1. Ends(w, e) = {"sent"}
      BY <2>4, <2>5, <2>7, <2>11 DEF Mine
    <3>2. ~Waiting(w, e)
      BY <2>4, <2>5, <2>6, <2>11 DEF Mine
    <3> QED BY <2>8, <2>9, <2>10, <2>11, <3>1, <3>2
  <2>12. CASE e \in w.failed
    <3>1. Ends(w, e) = {"failed"} /\ e \notin ToSet(w.sent)
      BY <2>4, <2>5, <2>7, <2>12 DEF Mine
    <3>2. ~Waiting(w, e)
      BY <2>4, <2>5, <2>6, <2>12 DEF Mine
    <3> QED BY <2>8, <2>9, <2>10, <2>12, <3>1, <3>2
  <2>13. CASE e \in w.dropped \cup busDropped
    <3>1. Ends(w, e) = {"dropped"} /\ e \notin ToSet(w.sent) /\ e \notin w.failed
      BY <2>4, <2>5, <2>7, <2>13 DEF Mine
    <3>2. ~Waiting(w, e)
      BY <2>4, <2>5, <2>6, <2>13 DEF Mine
    <3> QED BY <2>8, <2>9, <2>10, <2>13, <3>1, <3>2
  <2>14. CASE e \notin ToSet(w.sent) \cup w.failed \cup w.dropped \cup busDropped
    <3>1. Ends(w, e) = {}
      BY <2>7, <2>14
    <3>2. Due(i, e) /\ w.live => e \in ToSet(w.q) \cup Pipe
      BY <2>1, <2>2, <2>14 DEF Accounted, Due, Mine, w
    <3> QED BY <2>3, <2>6, <2>8, <2>9, <2>10, <2>14, <3>1, <3>2
  <2> QED BY <2>11, <2>12, <2>13, <2>14
<1> QED BY <1>2, <1>3

LEMMA FormCorrectNext == Inv' => FormOK'
  BY FormCorrect, PTL

\* What a step may do to the places of one worker's events: x is the one event
\* that is taken or settled.
Still(o, e) == Form(o, e)' = Form(o, e)
Forgets(o, e) == Form(o, e)' = "forgotten" /\ o \in Cancelled' /\ Form(o, e) \in {"new", "waiting"}
Settles(o, e) ==
  \/ Form(o, e) = "new" /\ Form(o, e)' \in {"waiting", "sent", "failed", "dropped"}
  \/ Form(o, e) = "waiting" /\ Form(o, e)' \in {"sent", "failed", "dropped"}
Moves(o, x) == \A e \in Events : Still(o, e) \/ Forgets(o, e) \/ (e = x /\ Settles(o, e))

\* The facts about numbers the cases below need.
LEMMA Numbers ==
  ASSUME TypeOK
  PROVE  /\ MaxWorkers \in Nat /\ MaxEvents \in Nat /\ Len(workers) \in Nat
         /\ Len(published) \in Nat /\ Events \subseteq Nat
         /\ \A i \in 1..MaxWorkers : i <= Len(workers) => i \in 1..Len(workers)
         /\ \A e \in Events : e <= Len(published) => e \in 1..Len(published)
  BY EventExportAssumption, EventsAreNumbers, LengthFacts DEF Events

LEMMA PublishMoves ==
  ASSUME Inv, Inv', NEW c \in Categories, Publish(c), NEW o \in 1..MaxWorkers
  PROVE  Moves(o, Len(published'))
<1> DEFINE x == Len(published')
<1>1. /\ published' = Append(published, c) /\ UNCHANGED <<started, hand, worker, workers>>
      /\ \/ ~started /\ UNCHANGED <<bus, busDropped>>
         \/ bus' = Append(bus, x) /\ UNCHANGED busDropped
         \/ busDropped' = busDropped \cup {x} /\ UNCHANGED bus
  BY DEF Publish
<1>2. /\ x = Len(published) + 1 /\ x \in Nat
      /\ \A k \in 1..Len(published) : published'[k] = published[k]
  BY <1>1, LengthFacts DEF Inv, TypeOK
<1>3. \A k : k # x => (k \in Pipe' <=> k \in Pipe) /\ (k \in busDropped' <=> k \in busDropped)
  <2>1. bus' = Append(bus, x) => ToSet(bus') = ToSet(bus) \cup {x}
    BY <1>2, AppendFacts, LengthFacts DEF Inv
  <2> QED BY <1>1, <2>1 DEF Pipe
<1> HIDE DEF x
<1> SUFFICES ASSUME NEW e \in Events PROVE Still(o, e) \/ Forgets(o, e) \/ (e = x /\ Settles(o, e))
  BY DEF Moves, x
<1>4. CASE o > Len(workers)
  BY <1>1, <1>4 DEF Still, Form
<1>5. CASE o <= Len(workers) /\ e > x
  <2>1. e > Len(published) /\ e > Len(published')
    BY <1>2, <1>5, Numbers DEF x, Inv
  <2> QED BY <2>1 DEF Still, Form
<1>6. CASE o <= Len(workers) /\ e < x
  <2>1. e \in 1..Len(published) /\ ~(e > Len(published)) /\ ~(e > Len(published')) /\ e # x
    BY <1>2, <1>6, Numbers DEF x, Inv
  <2>2. Due(o, e)' <=> Due(o, e)
    BY <1>1, <1>2, <2>1 DEF Due
  <2> QED BY <1>1, <1>3, <2>1, <2>2 DEF Still, Form
<1>7. CASE o <= Len(workers) /\ e = x
  <2>1. Form(o, e) = "new"
    BY <1>2, <1>7, Numbers DEF Form, Inv
  <2>2. o \in 1..Len(workers) /\ ~(o > Len(workers)) /\ Len(workers') = Len(workers)
        /\ e \in 1..Len(published') /\ ~(e > Len(published'))
    BY <1>1, <1>2, <1>7, Numbers DEF Inv, x
  <2>3. Form(o, e)' \in {"new", "sent", "failed", "dropped", "waiting", "forgotten"}
    BY DEF Form
  <2>4. CASE Form(o, e)' # "forgotten"
    BY <1>7, <2>1, <2>3, <2>4 DEF Settles, Still
  <2>5. CASE Form(o, e)' = "forgotten"
    <3>1. ~workers[o].live
      <4>1. /\ Due(o, e)' /\ (e \notin Pipe' \/ ~workers[o].live)
            /\ e \notin ToSet(workers'[o].sent) \cup workers'[o].failed \cup workers'[o].dropped
            /\ e \notin ToSet(workers'[o].q) \cup busDropped'
        BY <1>1, <2>2, <2>5 DEF Form
      <4>2. Accounted(workers[o])'
        BY <1>1, <2>2 DEF Inv, Kept
      <4> QED BY <1>1, <2>2, <4>1, <4>2 DEF Accounted, Mine, Due
    <3>2. o \in Cancelled'
      BY <1>1, <2>2, <3>1 DEF Cancelled
    <3> QED BY <2>1, <2>5, <3>2 DEF Forgets
  <2> QED BY <2>4, <2>5
<1> QED BY <1>2, <1>4, <1>5, <1>6, <1>7, Numbers DEF Inv

LEMMA TakeMoves ==
  ASSUME Inv, Take, NEW o \in 1..MaxWorkers
  PROVE  Moves(o, 0)
<1>1. /\ hand = {} /\ bus # <<>> /\ hand' = {Head(bus)} /\ bus' = Tail(bus)
      /\ UNCHANGED <<published, busDropped, workers>>
  BY DEF Take
<1>2. Pipe' = Pipe
  BY <1>1, TailFacts, LengthFacts DEF Inv, Ordered, Pipe
<1> QED BY <1>1, <1>2 DEF Moves, Still, Form, Due

LEMMA OfferMoves ==
  ASSUME Inv, Offer, NEW o \in 1..MaxWorkers
  PROVE  \E x : Moves(o, x)
<1>1. PICK x \in Events :
           /\ hand = {x} /\ hand' = {} /\ x \in 1..Len(published)
           /\ UNCHANGED <<published, bus, busDropped, started, cfg, worker,
                          netFailures, saveFailures>>
           /\ workers' \in Seq(Worker) /\ Len(workers') = Len(workers)
           /\ Pipe = Pipe' \cup {x} /\ x \notin Pipe'
           /\ \A i \in 1..Len(workers) : LET w == workers[i]  v == workers'[i] IN
                /\ v.dest = w.dest /\ v.born = w.born /\ v.live = w.live
                /\ v.sent = w.sent /\ v.failed = w.failed
                /\ w.live /\ published[x] \in Wants[w.dest] => Mine(v) = Mine(w) \cup {x}
                /\ ~w.live => v = w
                /\ ToSet(v.q) \ {x} = ToSet(w.q) \ {x} /\ v.dropped \ {x} = w.dropped \ {x}
                /\ x \notin Mine(w)
  BY OfferEffect
<1> SUFFICES ASSUME NEW e \in Events PROVE Still(o, e) \/ Forgets(o, e) \/ (e = x /\ Settles(o, e))
  BY DEF Moves
<1>2. CASE o > Len(workers)
  BY <1>1, <1>2 DEF Still, Form
<1>3. CASE e > Len(published)
  BY <1>1, <1>3 DEF Still, Form
<1>4. CASE ~(o > Len(workers)) /\ ~(e > Len(published))
  <2> DEFINE w == workers[o]
             v == workers'[o]
  <2>1. o \in 1..Len(workers) /\ e \in 1..Len(published)
    BY <1>4, Numbers DEF Inv
  <2>2. /\ v.dest = w.dest /\ v.born = w.born /\ v.live = w.live
        /\ v.sent = w.sent /\ v.failed = w.failed
        /\ w.live /\ published[x] \in Wants[w.dest] => Mine(v) = Mine(w) \cup {x}
        /\ ~w.live => v = w
        /\ ToSet(v.q) \ {x} = ToSet(w.q) \ {x} /\ v.dropped \ {x} = w.dropped \ {x}
        /\ x \notin Mine(w)
    BY <1>1, <2>1
  <2>3. Due(o, e)' <=> Due(o, e)
    BY <1>1, <2>2 DEF Due
  <2>4. /\ Form(o, e) = IF e \in ToSet(w.sent) THEN "sent"
                        ELSE IF e \in w.failed THEN "failed"
                        ELSE IF ~Due(o, e) THEN "new"
                        ELSE IF e \in w.dropped \cup busDropped THEN "dropped"
                        ELSE IF e \in ToSet(w.q) \/ (w.live /\ e \in Pipe) THEN "waiting"
                        ELSE "forgotten"
        /\ Form(o, e)' = IF e \in ToSet(v.sent) THEN "sent"
                         ELSE IF e \in v.failed THEN "failed"
                         ELSE IF ~Due(o, e) THEN "new"
                         ELSE IF e \in v.dropped \cup busDropped THEN "dropped"
                         ELSE IF e \in ToSet(v.q) \/ (v.live /\ e \in Pipe') THEN "waiting"
                         ELSE "forgotten"
    BY <1>1, <1>4, <2>3 DEF Form
  <2> HIDE DEF v, w
  <2>5. CASE e # x
    <3>1. /\ e \in ToSet(v.q) <=> e \in ToSet(w.q)
          /\ e \in v.dropped <=> e \in w.dropped
          /\ e \in Pipe' <=> e \in Pipe
      BY <1>1, <2>2, <2>5
    <3> QED BY <2>2, <2>4, <3>1 DEF Still
  <2>6. CASE e = x /\ ~w.live
    BY <2>2, <2>4, <2>6 DEF Still
  <2>7. CASE e = x /\ w.live
    <3>1. x \in Pipe /\ x \notin busDropped
      BY <1>1 DEF Inv, Ordered
    <3>2. /\ x \notin ToSet(w.sent) /\ x \notin w.failed /\ x \notin w.dropped
      BY <2>2 DEF Mine
    <3>3. CASE ~Due(o, e)
      BY <2>2, <2>4, <2>7, <3>2, <3>3 DEF Still
    <3>4. CASE Due(o, e)
      <4>1. Form(o, e) = "waiting"
        BY <2>4, <2>7, <3>1, <3>2, <3>4
      <4>2. x \in ToSet(v.q) \cup v.dropped
        <5>1. Mine(v) = Mine(w) \cup {x}
          BY <2>2, <2>7, <3>4 DEF Due, w
        <5> QED BY <2>2, <3>2, <5>1 DEF Mine
      <4>3. Form(o, e)' \in {"waiting", "dropped"}
        BY <2>2, <2>4, <2>7, <3>2, <3>4, <4>2
      <4> QED BY <2>7, <4>1, <4>3 DEF Still, Settles
    <3> QED BY <3>3, <3>4
  <2> QED BY <2>5, <2>6, <2>7
<1> QED BY <1>2, <1>3, <1>4
\* A worker settles the event it handles.
LEMMA WorkMoves ==
  ASSUME Inv, NEW i \in 1..Len(workers), Work(i), NEW o \in 1..MaxWorkers
  PROVE  \E x : Moves(o, x)
<1>1. PICK v \in Worker : LET w == workers[i] IN
           /\ workers' = [workers EXCEPT ![i] = v] /\ netFailures' \in 0..MaxFailures
           /\ UNCHANGED <<published, bus, busDropped, started, hand, cfg, worker, saveFailures>>
           /\ v.dest = w.dest /\ v.born = w.born /\ v.live = w.live /\ v.dropped = w.dropped
           /\ Apart(v) /\ Mine(v) = Mine(w) /\ Len(v.q) <= QueueSize /\ Handles(w, v)
  BY WorkEffect
<1>2. /\ Len(workers') = Len(workers) /\ workers'[i] = v /\ Pipe' = Pipe
      /\ \A j \in 1..Len(workers) : j # i => workers'[j] = workers[j]
  BY <1>1, ExceptSeq DEF Inv, TypeOK, Pipe
<1>3. CASE o > Len(workers)
  BY <1>2, <1>3 DEF Moves, Still, Form
<1>4. CASE ~(o > Len(workers)) /\ o # i
  <2>1. workers'[o] = workers[o]
    BY <1>2, <1>4, Numbers DEF Inv
  <2> QED BY <1>1, <1>2, <2>1 DEF Moves, Still, Form, Due
<1>5. CASE o = i
  <2> DEFINE w == workers[i]
  <2>1. /\ v.dest = w.dest /\ v.born = w.born /\ v.live = w.live /\ v.dropped = w.dropped
        /\ Handles(w, v) /\ workers'[o] = v /\ workers[o] = w /\ Apart(w) /\ Behind(w)
    BY <1>1, <1>2, <1>5 DEF Inv, Kept
  <2>2. \A e \in Events : Due(o, e)' <=> Due(o, e)
    BY <1>1, <2>1 DEF Due
  <2>3. \A e \in Events : ~(o > Len(workers')) /\ ~(o > Len(workers))
    BY <1>2, <1>5, Numbers DEF Inv
  <2>4. ASSUME NEW e \in Events, ~(e > Len(published))
        PROVE  /\ Form(o, e) = IF e \in ToSet(w.sent) THEN "sent"
                               ELSE IF e \in w.failed THEN "failed"
                               ELSE IF ~Due(o, e) THEN "new"
                               ELSE IF e \in w.dropped \cup busDropped THEN "dropped"
                               ELSE IF e \in ToSet(w.q) \/ (w.live /\ e \in Pipe) THEN "waiting"
                               ELSE "forgotten"
               /\ Form(o, e)' = IF e \in ToSet(v.sent) THEN "sent"
                                ELSE IF e \in v.failed THEN "failed"
                                ELSE IF ~Due(o, e) THEN "new"
                                ELSE IF e \in v.dropped \cup busDropped THEN "dropped"
                                ELSE IF e \in ToSet(v.q) \/ (v.live /\ e \in Pipe) THEN "waiting"
                                ELSE "forgotten"
    BY <1>1, <1>2, <2>1, <2>2, <2>3, <2>4 DEF Form
  <2>5. ASSUME NEW e \in Events, e > Len(published)
        PROVE  Still(o, e)
    BY <1>1, <2>5 DEF Still, Form
  <2> HIDE DEF w
  <2>6. CASE v.q = w.q /\ v.sent = w.sent /\ v.failed = w.failed
    <3>1. \A e \in Events : Still(o, e)
      BY <2>1, <2>4, <2>5, <2>6 DEF Still
    <3> QED BY <3>1 DEF Moves
  <2>7. ASSUME NEW x \in ToSet(w.q), ToSet(v.q) = ToSet(w.q) \ {x},
               \/ ToSet(v.sent) = ToSet(w.sent) \cup {x} /\ v.failed = w.failed
               \/ v.sent = w.sent /\ v.failed = w.failed \cup {x}
        PROVE  Moves(o, x)
    <3>1. /\ x \notin ToSet(w.sent) /\ x \notin w.failed /\ x \notin w.dropped
          /\ x \notin busDropped /\ x \in 1..Len(published)
      <4>1. x \in Mine(w) /\ x \in Nat
        <5>1. Mine(w) \subseteq Nat /\ x \in Mine(w)
          BY <2>1 DEF Mine, Behind
        <5> QED BY <5>1
      <4>2. ~(x < x)
        BY <4>1
      <4>3. x \notin ToSet(w.sent) /\ x \notin w.failed /\ x \notin w.dropped
        BY <2>1, <4>2 DEF Apart
      <4> QED BY <2>1, <4>1, <4>3 DEF Behind
    <3>2. ASSUME NEW e \in Events, e # x, ~(e > Len(published))
          PROVE  Still(o, e)
      BY <2>1, <2>4, <2>7, <3>2 DEF Still
    <3>3. ASSUME x \in Events PROVE Settles(o, x)
      <4>1. ~(x > Len(published))
        BY <3>1, Numbers DEF Inv
      <4>2. Form(o, x) \in {"new", "waiting"}
        BY <2>4, <3>1, <3>3, <4>1
      <4>3. Form(o, x)' \in {"sent", "failed"}
        BY <2>4, <2>7, <3>1, <3>3, <4>1
      <4> QED BY <4>2, <4>3 DEF Settles
    <3> QED BY <2>5, <3>2, <3>3 DEF Moves
  <2> QED BY <2>1, <2>6, <2>7 DEF Handles
<1> QED BY <1>3, <1>4, <1>5

\* A reconfiguration cancels the worker of a destination, and may start one.
LEMMA ReconfigureKeeps ==
  ASSUME Inv, NEW d \in Dests, NEW value \in {"on", "off", "absent"}, Reconfigure(d, value)
  PROVE  /\ published' = published /\ busDropped' = busDropped /\ Pipe' = Pipe
         /\ Len(workers') \in {Len(workers), Len(workers) + 1}
         /\ Len(workers') = Len(workers) + 1 => workers'[Len(workers) + 1] = NewWorker(d)
         /\ \A i \in 1..Len(workers) :
              /\ workers'[i].dest = workers[i].dest /\ workers'[i].born = workers[i].born
              /\ workers'[i].q = workers[i].q /\ workers'[i].sent = workers[i].sent
              /\ workers'[i].failed = workers[i].failed
              /\ workers'[i].dropped = workers[i].dropped
              /\ workers'[i].live => workers[i].live
              /\ workers'[i].live \in BOOLEAN /\ workers[i].live \in BOOLEAN
         /\ Cancelled \subseteq Cancelled'
<1>1. PICK c \in Seq(Worker) :
           /\ c = CancelWorker(d) /\ cfg' = [cfg EXCEPT ![d] = value]
           /\ UNCHANGED <<published, bus, busDropped, started, hand, netFailures>>
           /\ saveFailures' \in 0..MaxFailures /\ (saveFailures' = 0 => saveFailures = 0)
           /\ \/ /\ value = "on" /\ started /\ Len(workers) < MaxWorkers
                 /\ workers' = Append(c, NewWorker(d))
                 /\ worker' = [worker EXCEPT ![d] = Len(workers) + 1]
              \/ /\ value # "on" \/ ~started \/ saveFailures' # 0
                 /\ workers' = c /\ worker' = [worker EXCEPT ![d] = 0]
  BY ReconfigureEffect
<1> DEFINE n == Len(workers)
<1>2. Len(c) = n /\ n \in Nat /\ Pipe' = Pipe
  BY <1>1, CancelFacts, LengthFacts DEF Inv, Pipe
<1>3. NewWorker(d) \in Worker /\ Mine(NewWorker(d)) = {} /\ NewWorker(d).born = Len(published)
  BY NewWorkerFacts DEF Inv
<1>4. /\ Len(workers') \in {n, n + 1} /\ \A i \in 1..n : workers'[i] = c[i]
      /\ Len(workers') = n + 1 => workers'[n + 1] = NewWorker(d)
  <2>1. CASE workers' = c
    <3>1. n + 1 # n
      BY <1>2
    <3> QED BY <1>2, <2>1, <3>1
  <2>2. CASE workers' = Append(c, NewWorker(d))
    BY <1>2, <1>3, <2>2
  <2> QED BY <1>1, <2>1, <2>2
<1>5. ASSUME NEW i \in 1..n
      PROVE  /\ workers'[i].dest = workers[i].dest /\ workers'[i].born = workers[i].born
             /\ workers'[i].q = workers[i].q /\ workers'[i].sent = workers[i].sent
             /\ workers'[i].failed = workers[i].failed /\ workers'[i].dropped = workers[i].dropped
             /\ workers'[i].live => workers[i].live
             /\ workers'[i].live \in BOOLEAN /\ workers[i].live \in BOOLEAN
  <2>1. /\ c[i].dest = workers[i].dest /\ c[i].born = workers[i].born
        /\ c[i].q = workers[i].q /\ c[i].sent = workers[i].sent
        /\ c[i].failed = workers[i].failed /\ c[i].dropped = workers[i].dropped
        /\ c[i].live => workers[i].live
    BY <1>1, CancelFacts
  <2>2. c[i] \in Worker /\ workers[i] \in Worker
    BY <1>1, <1>2, WorkerFacts DEF Inv
  <2>3. c[i].live \in BOOLEAN /\ workers[i].live \in BOOLEAN
    BY <2>2 DEF Worker
  <2> QED BY <1>4, <2>1, <2>3
<1>6. Cancelled \subseteq Cancelled'
  <2>1. 1..n \subseteq 1..Len(workers')
    BY <1>2, <1>4
  <2> QED BY <1>5, <2>1 DEF Cancelled
<1> QED BY <1>1, <1>2, <1>4, <1>5, <1>6

\* A cancelled worker may forget what the dispatcher would have offered it.
LEMMA ReconfigureMoves ==
  ASSUME Inv, NEW d \in Dests, NEW value \in {"on", "off", "absent"}, Reconfigure(d, value),
         NEW o \in 1..MaxWorkers
  PROVE  Moves(o, 0)
<1> DEFINE n == Len(workers)
<1>1. published' = published /\ busDropped' = busDropped /\ Pipe' = Pipe
  BY ReconfigureKeeps
<1>2. n \in Nat
  BY Numbers DEF Inv
<1>3. NewWorker(d) \in Worker /\ Mine(NewWorker(d)) = {} /\ NewWorker(d).born = Len(published)
  BY NewWorkerFacts DEF Inv
<1>4. /\ Len(workers') \in {n, n + 1}
      /\ Len(workers') = n + 1 => workers'[n + 1] = NewWorker(d)
  BY ReconfigureKeeps
<1>5. ASSUME NEW i \in 1..n
      PROVE  /\ workers'[i].dest = workers[i].dest /\ workers'[i].born = workers[i].born
             /\ workers'[i].q = workers[i].q /\ workers'[i].sent = workers[i].sent
             /\ workers'[i].failed = workers[i].failed /\ workers'[i].dropped = workers[i].dropped
             /\ workers'[i].live => workers[i].live
             /\ workers'[i].live \in BOOLEAN /\ workers[i].live \in BOOLEAN
  BY ReconfigureKeeps
<1>7. Moves(o, 0)
  <2> SUFFICES ASSUME NEW e \in Events PROVE Still(o, e) \/ Forgets(o, e)
    BY DEF Moves
  <2>1. CASE e > Len(published)
    BY <1>1, <2>1 DEF Still, Form
  <2>2. CASE ~(e > Len(published)) /\ ~(o > n)
    <3>1. o \in 1..n /\ ~(o > Len(workers'))
      BY <1>2, <1>4, <2>2, Numbers DEF Inv
    <3>2. Due(o, e)' <=> Due(o, e)
      BY <1>1, <1>5, <3>1 DEF Due
    <3> DEFINE w == workers[o]
               v == workers'[o]
    <3>3. /\ Form(o, e) = IF e \in ToSet(w.sent) THEN "sent"
                          ELSE IF e \in w.failed THEN "failed"
                          ELSE IF ~Due(o, e) THEN "new"
                          ELSE IF e \in w.dropped \cup busDropped THEN "dropped"
                          ELSE IF e \in ToSet(w.q) \/ (w.live /\ e \in Pipe) THEN "waiting"
                          ELSE "forgotten"
          /\ Form(o, e)' = IF e \in ToSet(w.sent) THEN "sent"
                           ELSE IF e \in w.failed THEN "failed"
                           ELSE IF ~Due(o, e) THEN "new"
                           ELSE IF e \in w.dropped \cup busDropped THEN "dropped"
                           ELSE IF e \in ToSet(w.q) \/ (v.live /\ e \in Pipe) THEN "waiting"
                           ELSE "forgotten"
      BY <1>1, <1>2, <1>5, <2>2, <3>1, <3>2 DEF Form
    <3>4. v.live => w.live
      BY <1>5, <3>1
    <3>5. ~v.live => o \in Cancelled'
      BY <1>2, <1>4, <3>1 DEF Cancelled
    <3> HIDE DEF v, w
    <3>6. CASE v.live
      BY <3>3, <3>4, <3>6 DEF Still
    <3>7. CASE ~v.live /\ e \notin ToSet(w.sent) \cup w.failed \cup w.dropped \cup busDropped
      BY <3>3, <3>5, <3>7 DEF Still, Forgets
    <3>8. CASE ~v.live /\ e \in ToSet(w.sent) \cup w.failed \cup w.dropped \cup busDropped
      BY <3>3, <3>8 DEF Still
    <3> QED BY <3>6, <3>7, <3>8
  <2>3. CASE ~(e > Len(published)) /\ o > n
    <3>1. Form(o, e) = "new"
      BY <2>3 DEF Form
    <3>2. CASE o > Len(workers')
      BY <3>1, <3>2 DEF Still, Form
    <3>3. CASE ~(o > Len(workers'))
      <4>1. o \in Nat /\ e \in Nat /\ Len(published) \in Nat
        BY Numbers DEF Inv
      <4>2. workers'[o] = NewWorker(d)
        BY <1>2, <1>4, <2>3, <3>3, <4>1
      <4>3. /\ e \notin ToSet(workers'[o].sent) /\ e \notin workers'[o].failed
            /\ workers'[o].born = Len(published)
        BY <1>3, <4>2 DEF Mine
      <4>4. ~(Due(o, e)')
        BY <2>3, <4>1, <4>3 DEF Due
      <4>5. Form(o, e)' = "new"
        BY <1>1, <2>3, <3>3, <4>3, <4>4 DEF Form
      <4> QED BY <3>1, <4>5 DEF Still
    <3> QED BY <3>2, <3>3
  <2> QED BY <2>1, <2>2, <2>3
<1> QED BY <1>7

LEMMA StartMoves ==
  ASSUME Inv, Start, NEW o \in 1..MaxWorkers
  PROVE  Moves(o, 0)
<1>1. /\ workers = <<>> /\ published' = published /\ workers' \in Seq(Worker)
      /\ \A i \in 1..Len(workers') :
           workers'[i].dest \in Dests /\ workers'[i] = NewWorker(workers'[i].dest)
  BY StartEffect
<1>2. \A i \in 1..Len(workers') : Mine(workers'[i]) = {} /\ workers'[i].born = Len(published)
  BY <1>1, NewWorkerFacts DEF Inv
<1>3. Len(workers) = 0 /\ Len(workers') \in Nat /\ o \in Nat /\ o > 0
  BY <1>1, Numbers DEF Inv
<1> SUFFICES ASSUME NEW e \in Events PROVE Still(o, e)
  BY <1>3 DEF Moves
<1>4. Form(o, e) = "new"
  BY <1>3 DEF Form
<1>5. CASE o > Len(workers') \/ e > Len(published)
  BY <1>1, <1>4, <1>5 DEF Still, Form
<1>6. CASE ~(o > Len(workers') \/ e > Len(published))
  <2>1. o \in 1..Len(workers') /\ e \in Nat /\ Len(published) \in Nat
    BY <1>3, <1>6, Numbers DEF Inv
  <2>2. /\ e \notin ToSet(workers'[o].sent) /\ e \notin workers'[o].failed
        /\ workers'[o].born = Len(published)
    BY <1>2, <2>1 DEF Mine
  <2>3. ~(Due(o, e)')
    BY <1>6, <2>1, <2>2 DEF Due
  <2>4. Form(o, e)' = "new"
    BY <1>1, <1>6, <2>2, <2>3 DEF Form
  <2> QED BY <1>4, <2>4 DEF Still
<1> QED BY <1>5, <1>6
-----------------------------------------------------------------------------
\* Every step moves one event of a worker, or none, and cancels for good.
Step == /\ Cancelled \subseteq Cancelled'
        /\ \A o \in 1..MaxWorkers : \E x : Moves(o, x)

LEMMA EveryStep == Inv /\ Inv' /\ [Next]_vars => Step
<1> SUFFICES ASSUME Inv, Inv', [Next]_vars PROVE Step
  OBVIOUS
<1>1. CASE UNCHANGED vars
  BY <1>1 DEF vars, Step, Cancelled, Moves, Still, Form, Due, Pipe
<1>2. CASE Start
  <2>1. Cancelled = {}
    BY <1>2, StartEffect DEF Cancelled
  <2> QED BY <1>2, <2>1, StartMoves DEF Step
<1>3. CASE Take
  <2>1. workers' = workers
    BY <1>3 DEF Take
  <2> QED BY <1>3, <2>1, TakeMoves DEF Step, Cancelled
<1>4. CASE Offer
  <2>1. Cancelled \subseteq Cancelled'
    BY <1>4, OfferEffect DEF Cancelled
  <2> QED BY <1>4, <2>1, OfferMoves DEF Step
<1>5. ASSUME NEW c \in Categories, Publish(c)
      PROVE  Step
  <2>1. workers' = workers
    BY <1>5 DEF Publish
  <2> QED BY <1>5, <2>1, PublishMoves DEF Step, Cancelled
<1>6. ASSUME NEW d \in Dests, Upsert(d) \/ Enable(d) \/ Delete(d)
      PROVE  Step
  <2>1. PICK value \in {"on", "off", "absent"} : Reconfigure(d, value)
    BY <1>6 DEF Upsert, Enable, Delete
  <2> QED BY <2>1, ReconfigureMoves, ReconfigureKeeps DEF Step
<1>7. ASSUME NEW i \in 1..Len(workers), Work(i)
      PROVE  Step
  <2>1. Cancelled \subseteq Cancelled'
    <3>1. PICK v \in Worker : workers' = [workers EXCEPT ![i] = v] /\ v.live = workers[i].live
      BY <1>7, WorkEffect
    <3>2. /\ Len(workers') = Len(workers) /\ workers'[i] = v
          /\ \A j \in 1..Len(workers) : j # i => workers'[j] = workers[j]
      BY <3>1, ExceptSeq DEF Inv, TypeOK
    <3>3. \A j \in 1..Len(workers) : workers'[j].live = workers[j].live
      BY <3>1, <3>2
    <3> QED BY <3>2, <3>3 DEF Cancelled
  <2> QED BY <1>7, <2>1, WorkMoves DEF Step
<1> QED BY <1>1, <1>2, <1>3, <1>4, <1>5, <1>6, <1>7 DEF Next

\* A step of the workers is a step of the outlets.
LEMMA StepIsPromise ==
  ASSUME FormOK, FormOK', Step
  PROVE  Promise!Next
<1> DEFINE place == [i \in 1..MaxWorkers |-> [e \in Events |-> PlaceOf(i, e)]]
<1>1. ASSUME NEW o \in 1..MaxWorkers, NEW e \in Events
      PROVE  place[o][e] = Form(o, e) /\ place'[o][e] = Form(o, e)'
  BY DEF FormOK
<1> HIDE DEF place
<1>2. ASSUME NEW o \in 1..MaxWorkers
      PROVE  LET moved == {i \in Events : place'[o][i] # place[o][i]} IN
             /\ \A e \in moved :
                  \/ <<place[o][e], place'[o][e]>> \in Promise!Moves
                  \/ /\ place'[o][e] = "forgotten" /\ o \in Cancelled'
                     /\ place[o][e] \in {"new", "waiting"}
             /\ Cardinality({e \in moved : place'[o][e] # "forgotten"}) <= 1
  <2> DEFINE moved == {i \in Events : place'[o][i] # place[o][i]}
             M == {e \in moved : place'[o][e] # "forgotten"}
  <2>1. PICK x : Moves(o, x)
    BY DEF Step
  <2>2. ASSUME NEW e \in moved
        PROVE  Forgets(o, e) \/ (e = x /\ Settles(o, e))
    BY <1>1, <2>1 DEF Moves, Still
  <2>3. ASSUME NEW e \in moved
        PROVE  \/ <<place[o][e], place'[o][e]>> \in Promise!Moves
               \/ /\ place'[o][e] = "forgotten" /\ o \in Cancelled'
                  /\ place[o][e] \in {"new", "waiting"}
    <3>1. CASE Forgets(o, e)
      BY <1>1, <3>1 DEF Forgets
    <3>2. CASE Settles(o, e)
      BY <1>1, <3>2 DEF Settles, Promise!Moves, Promise!Settled
    <3> QED BY <2>2, <3>1, <3>2
  <2>4. M \subseteq {x}
    BY <1>1, <2>2 DEF Forgets
  <2>5. Cardinality(M) <= 1
    <3>1. M = {} \/ M = {x}
      BY <2>4
    <3> QED BY <3>1, FS_EmptySet, FS_Singleton
  <2> QED BY <2>3, <2>5
<1>3. Cancelled \subseteq Cancelled'
  BY DEF Step
<1>4. \A S : Promise!Cardinality(S) = Cardinality(S)
  BY DEF Promise!Cardinality, Cardinality
<1> QED BY <1>2, <1>3, <1>4 DEF Promise!Next, Promise!MayMove, Promise!Forgotten, place

\* The workers implement the safety part of Outlet: an event is taken or refused
\* at once, settled once, and forgotten by a cancelled worker only; a step moves
\* one event of a worker, so a slow collector holds up no other.  That what waits
\* is settled in the end (Promise!Live) is left to the model checker.
THEOREM WorkersImplementOutlet == Spec => Promise!Init /\ [][Promise!Next]_(Promise!outletVars)
<1>1. Init => Promise!Init
  <2> SUFFICES ASSUME Init PROVE Promise!Init
    OBVIOUS
  <2>1. workers = <<>>
    BY DEF Init
  <2>2. Cancelled = {}
    BY <2>1 DEF Cancelled
  <2>3. \A i \in 1..MaxWorkers, e \in Events : PlaceOf(i, e) = "new"
    <3>1. \A i \in 1..MaxWorkers : i > Len(workers)
      BY <2>1, EventExportAssumption
    <3> QED BY <3>1 DEF PlaceOf
  <2> QED BY <2>2, <2>3 DEF Promise!Init
<1>2. Inv /\ Inv' /\ FormOK /\ FormOK' /\ [Next]_vars => [Promise!Next]_(Promise!outletVars)
  BY EveryStep, StepIsPromise
<1>3. Inv => FormOK
  BY FormCorrect
<1> QED BY <1>1, <1>2, <1>3, Invariance, PTL DEF Spec
=============================================================================
