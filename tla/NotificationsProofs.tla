------------------------- MODULE NotificationsProofs -------------------------
(***************************************************************************)
(* Proofs about Notifications, Streaming and Integrations, for any keys,   *)
(* producers, routings, targets and webhooks, any capacities, and any      *)
(* number of findings, events and retries.                                 *)
(***************************************************************************)
EXTENDS MCNotifications, SequenceTheorems, FiniteSetTheorems, TLAPS

-----------------------------------------------------------------------------
\* What was notified and is not over keeps the key muted: an entry that lasts.
StillMuted ==
  \A n \in Accepted : n \notin over => dedup[findings[n].key] = "fresh"

\* A worker that sends, or waits to, has a job.
HasJob == delivery.phase \in {"sending", "waiting"} => delivery.job \in Jobs

NotificationsInv ==
  TypeOK /\ IsFiniteSet(Entries) /\ StillMuted /\ OncePerCooldown /\ HasJob

\* The dispatcher holds an event while it has targets left.
StreamInv ==
  /\ StreamTypeOK
  /\ targets \in [On -> Kinds]
  /\ held \in [event : 0..MaxStreamed, left : SUBSET On]
  /\ held.left # {} => held.event \in StreamEvents

-----------------------------------------------------------------------------
LEMMA NotificationBounds ==
  /\ QueueSize \in Nat /\ QueueSize > 0 /\ DedupCap \in Nat /\ DedupCap > 0
  /\ Retries \in Nat /\ MaxFindings \in Nat
  /\ \A r \in Routings : r \subseteq {"email", "telegram"}
  BY NotificationsAssumption

LEMMA ChannelFacts == ToSet(Channels) = {"email", "telegram"}
<1>1. DOMAIN Channels = 1..2 /\ Channels[1] = "email" /\ Channels[2] = "telegram"
  BY DEF Channels
<1>2. \A i \in 1..2 : i = 1 \/ i = 2
  OBVIOUS
<1>3. 1 \in 1..2 /\ 2 \in 1..2
  OBVIOUS
<1> QED BY <1>1, <1>2, <1>3 DEF ToSet

\* A finding is routed to the enabled channels.
LEMMA RoutedFacts ==
  ASSUME TypeOK, NEW n \in 1..MaxFindings
  PROVE  /\ Routed(n) \in Seq(Jobs)
         /\ ToSet(Routed(n)) = {<<n, c>> : c \in settings}
<1>1. settings \subseteq {"email", "telegram"}
  BY NotificationBounds DEF TypeOK
<1>2. <<n, "email">> \in Jobs /\ <<n, "telegram">> \in Jobs
  BY ChannelFacts DEF Jobs
<1>3. CASE "email" \in settings /\ "telegram" \in settings
  <2> DEFINE first == <<<<n, "email">>>>
             second == <<<<n, "telegram">>>>
  <2>1. Routed(n) = first \o second
    BY <1>3 DEF Routed, JobFor
  <2>2. settings = {"email", "telegram"}
    BY <1>1, <1>3
  <2>3. /\ first \in Seq(Jobs) /\ Len(first) = 1 /\ first[1] = <<n, "email">>
        /\ second \in Seq(Jobs) /\ Len(second) = 1 /\ second[1] = <<n, "telegram">>
    BY <1>2
  <2> HIDE DEF first, second
  <2>4. /\ first \o second \in Seq(Jobs) /\ Len(first \o second) = 2
        /\ \A i \in 1..2 : (first \o second)[i] = IF i <= 1 THEN first[i] ELSE second[i - 1]
    BY <2>3, ConcatProperties
  <2>5. (first \o second)[1] = <<n, "email">> /\ (first \o second)[2] = <<n, "telegram">>
    BY <2>3, <2>4
  <2>6. DOMAIN (first \o second) = 1..2 /\ 1 \in 1..2 /\ 2 \in 1..2
        /\ \A i \in 1..2 : i = 1 \/ i = 2
    BY <2>4, LenProperties
  <2>7. ToSet(first \o second) = {<<n, "email">>, <<n, "telegram">>}
    BY <2>5, <2>6 DEF ToSet
  <2> QED BY <2>1, <2>2, <2>4, <2>7
<1>4. CASE "email" \in settings /\ "telegram" \notin settings
  <2>1. Routed(n) = <<<<n, "email">>>>
    BY <1>4 DEF Routed, JobFor
  <2>2. settings = {"email"}
    BY <1>1, <1>4
  <2> QED BY <1>2, <2>1, <2>2 DEF ToSet
<1>5. CASE "email" \notin settings /\ "telegram" \in settings
  <2>1. Routed(n) = <<<<n, "telegram">>>>
    BY <1>5 DEF Routed, JobFor
  <2>2. settings = {"telegram"}
    BY <1>1, <1>5
  <2> QED BY <1>2, <2>1, <2>2 DEF ToSet
<1>6. CASE "email" \notin settings /\ "telegram" \notin settings
  <2>1. Routed(n) = <<>>
    BY <1>6 DEF Routed, JobFor
  <2>2. settings = {}
    BY <1>1, <1>6
  <2> QED BY <2>1, <2>2 DEF ToSet
<1> QED BY <1>3, <1>4, <1>5, <1>6

\* What pruning keeps was there, and is at most the cap.
LEMMA PrunedFacts ==
  ASSUME TypeOK, IsFiniteSet(Entries), NEW kept \in Pruned
  PROVE  kept \subseteq Entries /\ IsFiniteSet(kept) /\ Cardinality(kept) \in Nat
         /\ Cardinality(kept) <= DedupCap
<1>1. CASE Cardinality(Entries) <= DedupCap
  BY <1>1, FS_CardinalityType DEF Pruned
<1>2. CASE ~(Cardinality(Entries) <= DedupCap)
  <2>1. kept \subseteq Entries /\ Cardinality(kept) <= DedupCap
    <3> DEFINE live == Entries \ Expired
    <3>1. CASE Cardinality(live) <= DedupCap
      BY <1>2, <3>1 DEF Pruned
    <3>2. CASE ~(Cardinality(live) <= DedupCap)
      <4>1. kept \subseteq live /\ Cardinality(kept) = DedupCap
        BY <1>2, <3>2 DEF Pruned
      <4> QED BY <4>1, NotificationBounds
    <3> QED BY <3>1, <3>2
  <2> QED BY <2>1, FS_Subset, FS_CardinalityType
<1> QED BY <1>1, <1>2

-----------------------------------------------------------------------------
LEMMA NotificationsInitInv == Init => NotificationsInv
<1> SUFFICES ASSUME Init PROVE NotificationsInv
  OBVIOUS
<1>1. Entries = {} /\ IsFiniteSet(Entries) /\ Cardinality(Entries) = 0
  BY FS_EmptySet DEF Init, Entries
<1>2. findings = <<>> /\ Len(findings) = 0 /\ 1..Len(findings) = {} /\ <<>> \in Seq(Findings)
      /\ <<>> \in Seq(Jobs) /\ Len(<<>>) = 0
  BY EmptySeq DEF Init
<1>3. delivery \in [phase : {"select", "sending", "waiting", "exited"},
                    job : Jobs \cup {<<0, "none">>}, tries : 0..(Retries + 1)]
  <2>1. 0 \in 0..(Retries + 1)
    BY NotificationBounds
  <2> QED BY <2>1 DEF Init, IdleWorker
<1>4. 0 <= QueueSize /\ 0 <= DedupCap + 1
  BY NotificationBounds
<1>5. TypeOK
  BY <1>1, <1>2, <1>3, <1>4 DEF Init, TypeOK
<1>6. Accepted = {}
  BY <1>2 DEF Accepted
<1>7. HasJob
  BY DEF Init, HasJob, IdleWorker
<1> QED BY <1>1, <1>5, <1>6, <1>7 DEF NotificationsInv, StillMuted, OncePerCooldown

\* A finding is reported: it is suppressed, or the key's entry is no longer in
\* its cooldown, or was pruned.
LEMMA EnqueueKeeps ==
  ASSUME NotificationsInv, NEW p \in Producers, NEW k \in Keys, Enqueue(p, k)
  PROVE  NotificationsInv'
<1> PICK kept \in Pruned :
       /\ over' = over \cup Of({j \in Keys \ kept : dedup[j] = "fresh"})
       /\ IF k \in kept /\ dedup[k] = "fresh"
            THEN /\ dedup' = [j \in Keys |-> IF j \in kept THEN dedup[j] ELSE "none"]
                 /\ suppressed' = suppressed \cup ToSet(Routed(Len(findings')))
                 /\ UNCHANGED offering
            ELSE /\ dedup' = [j \in Keys |-> IF j = k THEN "fresh"
                                             ELSE IF j \in kept THEN dedup[j] ELSE "none"]
                 /\ offering' = [offering EXCEPT ![p] = Routed(Len(findings'))]
                 /\ UNCHANGED suppressed
  BY DEF Enqueue
<1> DEFINE fresh == k \in kept /\ dedup[k] = "fresh"
           N == Len(findings) + 1
           new == [key |-> k, routes |-> settings]
<1>1. /\ UNCHANGED <<dropped, settings, queue, delivery, stop, sent, failed>>
      /\ findings' = Append(findings, new) /\ Len(findings) < MaxFindings
  BY DEF Enqueue, Reported, delivering
<1>2. /\ findings \in Seq(Findings) /\ Len(findings) \in Nat /\ new \in Findings
      /\ DOMAIN findings = 1..Len(findings)
  BY LenProperties DEF NotificationsInv, TypeOK, Findings
<1>3. /\ findings' \in Seq(Findings) /\ Len(findings') = N /\ findings'[N] = new
      /\ \A n \in 1..Len(findings) : findings'[n] = findings[n]
  BY <1>1, <1>2, AppendProperties
<1>4. N \in 1..MaxFindings /\ N \in 1..N /\ N \notin 1..Len(findings)
      /\ \A n \in 1..N : n = N \/ n \in 1..Len(findings)
  BY <1>1, <1>2, NotificationBounds
<1>5. /\ Routed(N) \in Seq(Jobs) /\ ToSet(Routed(N)) = {<<N, c>> : c \in settings}
  BY <1>4, RoutedFacts DEF NotificationsInv
<1>6. kept \subseteq Entries /\ IsFiniteSet(kept) /\ Cardinality(kept) \in Nat
      /\ Cardinality(kept) <= DedupCap
  BY PrunedFacts DEF NotificationsInv
<1>7. /\ dedup' \in [Keys -> {"none", "fresh", "expired"}]
      /\ IsFiniteSet(Entries') /\ Cardinality(Entries') <= DedupCap + 1
  <2>1. kept \subseteq Keys /\ \A j \in kept : dedup[j] # "none"
    BY <1>6 DEF Entries
  <2>2. CASE fresh
    <3>1. Entries' = kept
      BY <2>1, <2>2 DEF Entries
    <3> QED BY <1>6, <2>1, <2>2, <3>1, NotificationBounds DEF NotificationsInv, TypeOK
  <2>3. CASE ~fresh
    <3>1. Entries' = kept \cup {k}
      BY <2>1, <2>3 DEF Entries
    <3>2. IsFiniteSet(kept \cup {k}) /\ Cardinality(kept \cup {k}) <= DedupCap + 1
      <4>1. /\ IsFiniteSet(kept \cup {k})
            /\ Cardinality(kept \cup {k}) =
                 IF k \in kept THEN Cardinality(kept) ELSE Cardinality(kept) + 1
        BY <1>6, FS_AddElement
      <4> QED BY <1>6, <4>1, NotificationBounds
    <3> QED BY <2>1, <2>3, <3>1, <3>2 DEF NotificationsInv, TypeOK
  <2> QED BY <2>2, <2>3
<1>8. over' \subseteq 1..Len(findings')
  <2>1. \A n \in 1..Len(findings) : n \in 1..N
    BY <1>2
  <2>2. over \subseteq 1..Len(findings)
    BY DEF NotificationsInv, TypeOK
  <2>3. Of({j \in Keys \ kept : dedup[j] = "fresh"}) \subseteq 1..Len(findings)
    BY DEF Of
  <2> QED BY <1>3, <2>1, <2>2, <2>3
<1>9. /\ offering' \in [Producers -> Seq(Jobs)] /\ suppressed' \subseteq Jobs
  <2>1. ToSet(Routed(N)) \subseteq Jobs
    <3>1. settings \subseteq {"email", "telegram"}
      BY NotificationBounds DEF NotificationsInv, TypeOK
    <3> QED BY <1>4, <1>5, <3>1, ChannelFacts DEF Jobs
  <2>2. CASE fresh
    BY <1>3, <2>1, <2>2 DEF NotificationsInv, TypeOK
  <2>3. CASE ~fresh
    <3>1. offering' = [offering EXCEPT ![p] = Routed(N)] /\ suppressed' = suppressed
      BY <1>3, <2>3
    <3>2. offering \in [Producers -> Seq(Jobs)] /\ suppressed \subseteq Jobs
      BY DEF NotificationsInv, TypeOK
    <3> QED BY <1>5, <3>1, <3>2
  <2> QED BY <2>2, <2>3
<1>10. TypeOK'
  BY <1>1, <1>3, <1>7, <1>8, <1>9 DEF NotificationsInv, TypeOK
\* Of the older findings, no more are accepted, and none is whose entry went.
<1>11. suppressed \subseteq suppressed' /\ over \subseteq over'
  OBVIOUS
<1>12. \A n \in Accepted' : n = N \/ n \in Accepted
  BY <1>3, <1>4, <1>11 DEF Accepted
<1>13. N \in Accepted' => ~fresh
  <2> SUFFICES ASSUME fresh PROVE N \notin Accepted'
    OBVIOUS
  <2>1. \A c \in settings : <<N, c>> \in suppressed'
    BY <1>3, <1>5
  <2>2. findings'[N].routes = settings
    BY <1>3
  <2> QED BY <2>1, <2>2 DEF Accepted
<1>14. ASSUME NEW n \in Accepted, n \notin over'
       PROVE  /\ findings[n].key \in kept /\ dedup[findings[n].key] = "fresh"
              /\ dedup'[findings[n].key] = "fresh"
  <2>1. n \in 1..Len(findings) /\ findings[n].key \in Keys
    <3>1. n \in 1..Len(findings)
      BY DEF Accepted
    <3>2. findings[n] \in Findings
      BY <1>2, <3>1
    <3> QED BY <3>1, <3>2 DEF Findings
  <2>2. dedup[findings[n].key] = "fresh"
    BY <1>11, <1>14 DEF NotificationsInv, StillMuted
  <2>3. findings[n].key \in kept
    BY <1>14, <2>1, <2>2 DEF Of
  <2> QED BY <2>1, <2>2, <2>3
<1>15. StillMuted'
  <2> SUFFICES ASSUME NEW n \in Accepted', n \notin over'
               PROVE  dedup'[findings'[n].key] = "fresh"
    BY DEF StillMuted
  <2>1. CASE n = N
    BY <1>3, <1>13, <2>1
  <2>2. CASE n \in Accepted
    <3>1. n \in 1..Len(findings)
      BY <2>2 DEF Accepted
    <3> QED BY <1>3, <1>14, <2>2, <3>1
  <2> QED BY <1>12, <2>1, <2>2
<1>16. OncePerCooldown'
  <2> SUFFICES ASSUME NEW m \in Accepted', NEW n \in Accepted', m < n,
                      findings'[m].key = findings'[n].key
               PROVE  m \in over'
    BY DEF OncePerCooldown
  <2>1. m \in 1..N /\ n \in 1..N
    BY <1>3 DEF Accepted
  <2>2. m \in 1..Len(findings) /\ m \in Accepted /\ findings'[m] = findings[m]
    <3>1. m # N
      BY <1>2, <2>1
    <3> QED BY <1>3, <1>4, <1>12, <2>1, <3>1
  <2>3. CASE n = N
    <3>1. findings[m].key = k /\ ~fresh
      BY <1>3, <1>13, <2>2, <2>3
    <3> QED BY <1>14, <2>2, <3>1
  <2>4. CASE n \in Accepted
    <3>1. findings'[n] = findings[n]
      BY <1>3, <2>4 DEF Accepted
    <3> QED BY <1>11, <2>2, <2>4, <3>1 DEF NotificationsInv, OncePerCooldown
  <2> QED BY <1>12, <2>3, <2>4
<1>17. HasJob'
  BY <1>1 DEF NotificationsInv, HasJob
<1> QED BY <1>7, <1>10, <1>15, <1>16, <1>17 DEF NotificationsInv

\* The steps that report nothing leave the findings and their outcomes alone.
LEMMA NoReportKeeps ==
  ASSUME NotificationsInv, TypeOK', HasJob', UNCHANGED <<findings, suppressed>>,
         over \subseteq over', IsFiniteSet(Entries'),
         \A k \in Keys : dedup[k] = "fresh" =>
            \/ dedup'[k] = "fresh"
            \/ \A n \in 1..Len(findings) : findings[n].key = k => n \in over'
  PROVE  NotificationsInv'
<1>1. Accepted' = Accepted
  BY DEF Accepted
<1>2. \A n \in Accepted : n \in 1..Len(findings) /\ findings[n].key \in Keys
  <2> TAKE n \in Accepted
  <2>1. findings \in Seq(Findings) /\ n \in 1..Len(findings)
    BY DEF NotificationsInv, TypeOK, Accepted
  <2>2. findings[n] \in Findings
    BY <2>1, ElementOfSeq, LenProperties
  <2> QED BY <2>1, <2>2 DEF Findings
<1>3. StillMuted'
  BY <1>1, <1>2 DEF NotificationsInv, StillMuted
<1>4. OncePerCooldown'
  BY <1>1 DEF NotificationsInv, OncePerCooldown
<1> QED BY <1>3, <1>4 DEF NotificationsInv

LEMMA EntriesStay ==
  ASSUME NotificationsInv, dedup' = dedup
  PROVE  /\ IsFiniteSet(Entries') /\ Cardinality(Entries') <= DedupCap + 1
         /\ \A k \in Keys : dedup[k] = "fresh" => dedup'[k] = "fresh"
<1>1. Entries' = Entries
  BY DEF Entries
<1> QED BY <1>1 DEF NotificationsInv, TypeOK

LEMMA CooldownEndsKeeps ==
  ASSUME NotificationsInv, NEW k \in Keys, CooldownEnds(k)
  PROVE  NotificationsInv'
<1>1. /\ dedup[k] = "fresh" /\ dedup' = [dedup EXCEPT ![k] = "expired"]
      /\ over' = over \cup Of({k})
      /\ UNCHANGED <<findings, offering, dropped, suppressed, settings, queue, delivery, stop,
                     sent, failed>>
  BY DEF CooldownEnds, delivering
<1>2. Entries' = Entries
  BY <1>1 DEF Entries, NotificationsInv, TypeOK
<1>3. over' \subseteq 1..Len(findings)
  BY <1>1 DEF NotificationsInv, TypeOK, Of
<1>4. TypeOK'
  BY <1>1, <1>2, <1>3 DEF NotificationsInv, TypeOK
<1>5. HasJob'
  BY <1>1 DEF NotificationsInv, HasJob
<1>6. \A j \in Keys : dedup[j] = "fresh" =>
        \/ dedup'[j] = "fresh"
        \/ \A n \in 1..Len(findings) : findings[n].key = j => n \in over'
  BY <1>1 DEF Of, NotificationsInv, TypeOK
<1> QED BY <1>1, <1>2, <1>4, <1>5, <1>6, NoReportKeeps DEF NotificationsInv

LEMMA UpdateKeeps ==
  ASSUME NotificationsInv, Update
  PROVE  NotificationsInv'
<1> PICK back \in SUBSET Expired :
      dedup' = [k \in Keys |-> IF k \in back THEN "fresh" ELSE dedup[k]]
  BY DEF Update
<1>1. /\ settings' \in Routings
      /\ UNCHANGED <<findings, over, offering, dropped, suppressed, queue, delivery, stop,
                     sent, failed>>
  BY DEF Update, delivering
<1>2. back \subseteq Keys /\ \A k \in back : dedup[k] = "expired"
  BY DEF Expired
<1>3. Entries' = Entries
  BY <1>2 DEF Entries, NotificationsInv, TypeOK
<1>4. dedup' \in [Keys -> {"none", "fresh", "expired"}]
  BY DEF NotificationsInv, TypeOK
<1>5. TypeOK'
  BY <1>1, <1>3, <1>4 DEF NotificationsInv, TypeOK
<1>6. HasJob'
  BY <1>1 DEF NotificationsInv, HasJob
<1>7. \A k \in Keys : dedup[k] = "fresh" => dedup'[k] = "fresh"
  OBVIOUS
<1> QED BY <1>1, <1>3, <1>5, <1>6, <1>7, NoReportKeeps DEF NotificationsInv

LEMMA OfferKeeps ==
  ASSUME NotificationsInv, NEW p \in Producers, Offer(p)
  PROVE  NotificationsInv'
<1>1. /\ offering[p] # <<>> /\ offering[p] \in Seq(Jobs) /\ queue \in Seq(Jobs)
      /\ Len(queue) \in Nat /\ Len(queue) <= QueueSize
      /\ UNCHANGED <<dedup, findings, over, suppressed, delivery, stop, sent, failed, settings>>
      /\ offering' = [offering EXCEPT ![p] = Tail(@)]
  BY LenProperties DEF Offer, NotificationsInv, TypeOK
<1>2. Head(offering[p]) \in Jobs /\ Tail(offering[p]) \in Seq(Jobs)
  BY <1>1, HeadTailProperties
<1>3. offering' \in [Producers -> Seq(Jobs)]
  BY <1>1, <1>2 DEF NotificationsInv, TypeOK
<1>4. queue' \in Seq(Jobs) /\ Len(queue') <= QueueSize /\ dropped' \subseteq Jobs
  <2>1. dropped \subseteq Jobs
    BY DEF NotificationsInv, TypeOK
  <2>2. CASE Len(queue) < QueueSize
    <3>1. queue' = Append(queue, Head(offering[p])) /\ dropped' = dropped
      BY <2>2 DEF Offer
    <3>2. queue' \in Seq(Jobs) /\ Len(queue') = Len(queue) + 1
      BY <1>1, <1>2, <3>1, AppendProperties
    <3> QED BY <1>1, <2>1, <2>2, <3>1, <3>2, NotificationBounds
  <2>3. CASE ~(Len(queue) < QueueSize)
    BY <1>1, <1>2, <2>1, <2>3 DEF Offer
  <2> QED BY <2>2, <2>3
<1>5. TypeOK'
  BY <1>1, <1>3, <1>4, EntriesStay DEF NotificationsInv, TypeOK
<1>6. HasJob'
  BY <1>1 DEF NotificationsInv, HasJob
<1> QED BY <1>1, <1>5, <1>6, EntriesStay, NoReportKeeps

\* The worker's part of the type invariant.
DeliverGood ==
  /\ queue \in Seq(Jobs) /\ Len(queue) <= QueueSize
  /\ delivery \in [phase : {"select", "sending", "waiting", "exited"},
                   job : Jobs \cup {<<0, "none">>}, tries : 0..(Retries + 1)]
  /\ stop \in BOOLEAN /\ sent \subseteq Jobs /\ failed \subseteq Jobs
  /\ HasJob

LEMMA DeliverKeeps ==
  ASSUME NotificationsInv, Deliver \/ Close \/ UNCHANGED vars
  PROVE  NotificationsInv'
<1>1. UNCHANGED <<settings, dedup, findings, over, offering, dropped, suppressed>>
  BY DEF Deliver, Take, SendSucceeds, SendFails, WaitEnds, WorkerStops, Close, counting, vars
<1> DEFINE Phases == {"select", "sending", "waiting", "exited"}
           Held == Jobs \cup {<<0, "none">>}
           DeliveryType == [phase : Phases, job : Held, tries : 0..(Retries + 1)]
<1>2. /\ queue \in Seq(Jobs) /\ Len(queue) <= QueueSize /\ Len(queue) \in Nat
      /\ delivery \in DeliveryType /\ stop \in BOOLEAN
      /\ sent \subseteq Jobs /\ failed \subseteq Jobs /\ Retries \in Nat /\ QueueSize \in Nat
      /\ delivery.phase \in {"sending", "waiting"} => delivery.job \in Jobs
  BY NotificationBounds, LenProperties DEF NotificationsInv, TypeOK, HasJob
<1>3. IdleWorker \in DeliveryType /\ IdleWorker.phase = "select"
      /\ [IdleWorker EXCEPT !.phase = "exited"] \in DeliveryType
      /\ [IdleWorker EXCEPT !.phase = "exited"].phase = "exited"
  <2>1. 0 \in 0..(Retries + 1)
    BY <1>2
  <2> QED BY <2>1 DEF IdleWorker
<1> HIDE DEF DeliveryType
<1>4. ASSUME Take PROVE DeliverGood'
  <2>1. /\ queue # <<>> /\ queue' = Tail(queue)
        /\ delivery' = [phase |-> "sending", job |-> Head(queue), tries |-> Retries + 1]
        /\ UNCHANGED <<stop, sent, failed>>
    BY <1>4 DEF Take
  <2>2. Head(queue) \in Jobs /\ Tail(queue) \in Seq(Jobs) /\ Len(Tail(queue)) = Len(queue) - 1
    BY <1>2, <2>1, HeadTailProperties
  <2>3. Retries + 1 \in 0..(Retries + 1) /\ Len(Tail(queue)) <= QueueSize
    BY <1>2, <2>2
  <2>4. delivery' \in DeliveryType /\ delivery'.job \in Jobs
    BY <2>1, <2>2, <2>3 DEF DeliveryType
  <2>5. queue' \in Seq(Jobs) /\ Len(queue') <= QueueSize
    BY <2>1, <2>2, <2>3
  <2> QED BY <1>2, <2>1, <2>4, <2>5 DEF DeliverGood, HasJob, DeliveryType
<1>5. ASSUME SendSucceeds PROVE DeliverGood'
  <2>1. /\ delivery.job \in Jobs /\ delivery' = IdleWorker
        /\ sent' = sent \cup {delivery.job} /\ UNCHANGED <<queue, stop, failed>>
    BY <1>2, <1>5 DEF SendSucceeds
  <2>2. delivery' \in DeliveryType /\ delivery'.phase = "select"
    BY <1>3, <2>1
  <2> QED BY <1>2, <2>1, <2>2 DEF DeliverGood, HasJob, DeliveryType
<1>6. ASSUME SendFails PROVE DeliverGood'
  <2>1. delivery.phase = "sending" /\ delivery.job \in Jobs /\ UNCHANGED <<queue, stop, sent>>
    BY <1>2, <1>6 DEF SendFails
  <2>2. CASE delivery.tries > 1
    <3>1. delivery' = [delivery EXCEPT !.phase = "waiting", !.tries = @ - 1] /\ failed' = failed
      BY <1>6, <2>2 DEF SendFails
    <3>2. delivery.tries - 1 \in 0..(Retries + 1)
      BY <1>2, <2>2 DEF DeliveryType
    <3>3. delivery' \in DeliveryType /\ delivery'.job \in Jobs
      BY <1>2, <2>1, <3>1, <3>2 DEF DeliveryType
    <3> QED BY <1>2, <2>1, <3>1, <3>3 DEF DeliverGood, HasJob, DeliveryType
  <2>3. CASE ~(delivery.tries > 1)
    <3>1. failed' = failed \cup {delivery.job} /\ delivery' = IdleWorker
      BY <1>6, <2>3 DEF SendFails
    <3>2. delivery' \in DeliveryType /\ delivery'.phase = "select"
      BY <1>3, <3>1
    <3> QED BY <1>2, <2>1, <3>1, <3>2 DEF DeliverGood, HasJob, DeliveryType
  <2> QED BY <2>2, <2>3
<1>7. ASSUME WaitEnds PROVE DeliverGood'
  <2>1. /\ delivery.phase = "waiting" /\ delivery.job \in Jobs
        /\ delivery' = [delivery EXCEPT !.phase = "sending"]
        /\ UNCHANGED <<queue, stop, sent, failed>>
    BY <1>2, <1>7 DEF WaitEnds
  <2>2. delivery' \in DeliveryType /\ delivery'.job \in Jobs
    BY <1>2, <2>1 DEF DeliveryType
  <2> QED BY <1>2, <2>1, <2>2 DEF DeliverGood, HasJob, DeliveryType
<1>8. ASSUME WorkerStops PROVE DeliverGood'
  <2>1. /\ delivery' = IdleWorker \/ delivery' = [IdleWorker EXCEPT !.phase = "exited"]
        /\ UNCHANGED <<queue, stop, sent, failed>>
    BY <1>8 DEF WorkerStops
  <2>2. delivery' \in DeliveryType /\ delivery'.phase \notin {"sending", "waiting"}
    BY <1>3, <2>1
  <2> QED BY <1>2, <2>1, <2>2 DEF DeliverGood, HasJob, DeliveryType
<1>9. ASSUME Close \/ UNCHANGED vars PROVE DeliverGood'
  <2>1. UNCHANGED <<queue, delivery, sent, failed>> /\ stop' \in BOOLEAN
    BY <1>2, <1>9 DEF Close, vars, delivering
  <2> QED BY <1>2, <2>1 DEF DeliverGood, HasJob, DeliveryType
<1>10. DeliverGood'
  BY <1>4, <1>5, <1>6, <1>7, <1>8, <1>9 DEF Deliver
<1>11. TypeOK'
  BY <1>1, <1>10, EntriesStay DEF NotificationsInv, TypeOK, DeliverGood
<1>12. HasJob'
  BY <1>10 DEF HasJob, DeliverGood
<1> QED BY <1>1, <1>11, <1>12, EntriesStay, NoReportKeeps

LEMMA NotificationsInvariance == Spec => []NotificationsInv
<1>1. NotificationsInv /\ [Next]_vars => NotificationsInv'
  BY EnqueueKeeps, CooldownEndsKeeps, UpdateKeeps, OfferKeeps, DeliverKeeps DEF Next
<1> QED BY <1>1, NotificationsInitInv, PTL DEF Spec

-----------------------------------------------------------------------------
LEMMA StreamBounds ==
  StreamBus \in Nat /\ StreamQueue \in Nat /\ MaxStreamed \in Nat /\ StreamBus > 0 /\ StreamQueue > 0
  BY StreamingAssumption

LEMMA StreamInitInv == StreamInit => StreamInv
<1> SUFFICES ASSUME StreamInit PROVE StreamInv
  OBVIOUS
<1>1. PICK enabled \in SUBSET Targets : targets \in [enabled -> Kinds]
  BY DEF StreamInit
<1>2. On = enabled /\ targets \in [On -> Kinds]
  BY <1>1 DEF On
<1>3. <<>> \in Seq(StreamEvents) /\ Len(<<>>) = 0 /\ 0 <= StreamBus /\ 0 <= StreamQueue
      /\ 0 \in 0..MaxStreamed
  BY EmptySeq, StreamBounds
<1>4. /\ held \in [event : 0..MaxStreamed, left : SUBSET On] /\ held.left = {}
  BY <1>3 DEF StreamInit, NoneHeld
<1>5. StreamTypeOK
  BY <1>1, <1>2, <1>3, <1>4 DEF StreamInit, StreamTypeOK
<1> QED BY <1>2, <1>4, <1>5 DEF StreamInv

LEMMA StreamKeeps == StreamInv /\ [StreamNext]_streamVars => StreamInv'
<1> SUFFICES ASSUME StreamInv, [StreamNext]_streamVars PROVE StreamInv'
  OBVIOUS
<1> DEFINE TallyType == [sent : SUBSET StreamEvents, failed : SUBSET StreamEvents,
                         dropped : SUBSET StreamEvents]
<1>1. /\ feed \in Seq(StreamEvents) /\ Len(feed) \in Nat /\ Len(feed) <= StreamBus
      /\ \A t \in On : /\ lane[t] \in Seq(StreamEvents) /\ Len(lane[t]) \in Nat
                       /\ Len(lane[t]) <= StreamQueue
      /\ tally \in [On -> TallyType]
  BY LenProperties DEF StreamInv, StreamTypeOK
<1>2. \A e \in 1..MaxStreamed : e \in StreamEvents /\ e \in 0..MaxStreamed
  BY StreamBounds DEF StreamEvents
<1>3. CASE UNCHANGED streamVars
  BY <1>3 DEF streamVars, StreamInv, StreamTypeOK, On
<1>4. CASE StreamPublish
  <2>1. /\ streamed' = streamed + 1 /\ streamed < MaxStreamed
        /\ UNCHANGED <<targets, held, lane, sending, tally, health, running>>
    BY <1>4 DEF StreamPublish
  <2>2. streamed' \in StreamEvents /\ streamed' \in 0..MaxStreamed
    BY <2>1, StreamBounds DEF StreamInv, StreamTypeOK, StreamEvents
  <2>3. feed' \in Seq(StreamEvents) /\ Len(feed') <= StreamBus /\ feedDropped' \subseteq StreamEvents
    <3>1. CASE Len(feed) < StreamBus
      <4>1. feed' = Append(feed, streamed') /\ feedDropped' = feedDropped
        BY <1>4, <3>1 DEF StreamPublish
      <4>2. feed' \in Seq(StreamEvents) /\ Len(feed') = Len(feed) + 1
        BY <1>1, <2>2, <4>1, AppendProperties
      <4> QED BY <1>1, <3>1, <4>1, <4>2, StreamBounds DEF StreamInv, StreamTypeOK
    <3>2. CASE ~(Len(feed) < StreamBus)
      BY <1>1, <1>4, <2>2, <3>2 DEF StreamPublish, StreamInv, StreamTypeOK
    <3> QED BY <3>1, <3>2
  <2> QED BY <2>1, <2>2, <2>3 DEF StreamInv, StreamTypeOK, On
<1>5. CASE Dispatch
  <2>1. /\ feed # <<>> /\ held' = [event |-> Head(feed), left |-> On] /\ feed' = Tail(feed)
        /\ UNCHANGED <<targets, streamed, feedDropped, lane, sending, tally, health, running>>
    BY <1>5 DEF Dispatch
  <2>2. Head(feed) \in StreamEvents /\ feed' \in Seq(StreamEvents) /\ Len(feed') = Len(feed) - 1
    BY <1>1, <2>1, HeadTailProperties
  <2>3. Len(feed') <= StreamBus /\ Head(feed) \in 0..MaxStreamed
    BY <1>1, <1>2, <2>2, StreamBounds DEF StreamEvents
  <2> QED BY <2>1, <2>2, <2>3 DEF StreamInv, StreamTypeOK, On
<1>6. ASSUME NEW t \in On, HandOver(t) PROVE StreamInv'
  <2>1. /\ t \in held.left /\ held' = [held EXCEPT !.left = @ \ {t}]
        /\ UNCHANGED <<targets, streamed, feed, feedDropped, sending, health, running>>
    BY <1>6 DEF HandOver
  <2>2. held.event \in StreamEvents
    BY <2>1 DEF StreamInv
  <2>3. held' \in [event : 0..MaxStreamed, left : SUBSET On] /\ held'.event = held.event
    BY <2>1 DEF StreamInv
  <2>4. /\ lane' \in [On -> Seq(StreamEvents)] /\ \A u \in On : Len(lane'[u]) <= StreamQueue
        /\ tally' \in [On -> TallyType]
    <3>1. CASE Len(lane[t]) < StreamQueue
      <4>1. lane' = [lane EXCEPT ![t] = Append(lane[t], held.event)] /\ tally' = tally
        BY <1>6, <3>1 DEF HandOver
      <4>2. /\ Append(lane[t], held.event) \in Seq(StreamEvents)
            /\ Len(Append(lane[t], held.event)) = Len(lane[t]) + 1
        BY <1>1, <2>2, AppendProperties
      <4>3. Len(lane[t]) + 1 <= StreamQueue
        BY <1>1, <3>1, StreamBounds
      <4> QED BY <1>1, <4>1, <4>2, <4>3 DEF StreamInv, StreamTypeOK
    <3>2. CASE ~(Len(lane[t]) < StreamQueue)
      <4>1. /\ tally' = [tally EXCEPT ![t].dropped = @ \cup {held.event}] /\ lane' = lane
        BY <1>6, <3>2 DEF HandOver
      <4> QED BY <1>1, <2>2, <4>1 DEF StreamInv, StreamTypeOK
    <3> QED BY <3>1, <3>2
  <2> QED BY <2>1, <2>2, <2>3, <2>4 DEF StreamInv, StreamTypeOK, On
<1>7. ASSUME NEW t \in On, TakeEvent(t) PROVE StreamInv'
  <2>1. /\ lane[t] # <<>> /\ sending' = [sending EXCEPT ![t] = Head(lane[t])]
        /\ lane' = [lane EXCEPT ![t] = Tail(@)]
        /\ UNCHANGED <<targets, streamed, feed, feedDropped, held, tally, health, running>>
    BY <1>7 DEF TakeEvent
  <2>2. /\ Head(lane[t]) \in StreamEvents /\ Tail(lane[t]) \in Seq(StreamEvents)
        /\ Len(Tail(lane[t])) = Len(lane[t]) - 1
    BY <1>1, <2>1, HeadTailProperties
  <2>3. Len(Tail(lane[t])) <= StreamQueue /\ Head(lane[t]) \in 0..MaxStreamed
    BY <1>1, <1>2, <2>2, StreamBounds DEF StreamEvents
  <2>4. /\ lane' \in [On -> Seq(StreamEvents)] /\ \A u \in On : Len(lane'[u]) <= StreamQueue
        /\ sending' \in [On -> 0..MaxStreamed]
    BY <1>1, <2>1, <2>2, <2>3 DEF StreamInv, StreamTypeOK
  <2> QED BY <2>1, <2>4 DEF StreamInv, StreamTypeOK, On
<1>8. ASSUME NEW t \in On, Sent(t) PROVE StreamInv'
  <2> PICK end \in SendEnds(targets[t]) :
        /\ tally' = [tally EXCEPT ![t][end] = @ \cup {sending[t]}]
        /\ health' = [health EXCEPT ![t] = IF end = "sent" THEN "healthy" ELSE "degraded"]
    BY <1>8 DEF Sent
  <2>1. /\ sending[t] # 0 /\ sending' = [sending EXCEPT ![t] = 0]
        /\ UNCHANGED <<targets, streamed, feed, feedDropped, held, lane, running>>
    BY <1>8 DEF Sent
  <2>2. end \in {"sent", "failed"}
    BY DEF SendEnds
  <2>3. sending[t] \in StreamEvents /\ 0 \in 0..MaxStreamed
    BY <2>1, StreamBounds DEF StreamInv, StreamTypeOK, StreamEvents
  <2>4. tally' \in [On -> TallyType]
    <3>1. [tally[t] EXCEPT ![end] = @ \cup {sending[t]}] \in TallyType
      BY <1>1, <2>2, <2>3
    <3>2. tally' = [tally EXCEPT ![t] = [tally[t] EXCEPT ![end] = @ \cup {sending[t]}]]
      BY <1>1
    <3> QED BY <1>1, <3>1, <3>2
  <2> QED BY <2>1, <2>3, <2>4 DEF StreamInv, StreamTypeOK, On
<1>9. CASE StreamStop \/ \E g \in On \cup {Dispatcher} : StreamExit(g)
  <2>1. /\ UNCHANGED <<targets, streamed, feed, feedDropped, held, lane, sending, tally, health>>
        /\ running' \subseteq running
    BY <1>9 DEF StreamStop, StreamExit
  <2> QED BY <2>1 DEF StreamInv, StreamTypeOK, On
<1> QED BY <1>3, <1>4, <1>5, <1>6, <1>7, <1>8, <1>9 DEF StreamNext, DispatcherWork, StreamWork

-----------------------------------------------------------------------------
LEMMA HooksInitType == HooksInit => HooksTypeOK
<1> SUFFICES ASSUME HooksInit PROVE HooksTypeOK
  OBVIOUS
<1>1. PICK enabled \in SUBSET Hooks : minimum \in [enabled -> Ranks]
  BY DEF HooksInit
<1>2. DOMAIN minimum \subseteq Hooks /\ \A h \in DOMAIN minimum : minimum[h] \in Ranks
  BY <1>1
<1>3. <<>> \in Seq(Ranks) /\ <<>> \in Seq(Records) /\ Len(<<>>) = 0 /\ 0 <= LogSize
  BY EmptySeq, IntegrationsAssumption
<1> QED BY <1>2, <1>3 DEF HooksInit, HooksTypeOK

\* The log keeps the last attempts.
LEMMA HooksKeepType == HooksTypeOK /\ [HooksNext]_hookVars => HooksTypeOK'
<1> SUFFICES ASSUME HooksTypeOK, [HooksNext]_hookVars PROVE HooksTypeOK'
  OBVIOUS
<1>1. LogSize \in Nat /\ LogSize > 0 /\ MaxPublished \in Nat
  BY IntegrationsAssumption
<1>2. /\ ranks \in Seq(Ranks) /\ Len(ranks) \in Nat
      /\ log \in Seq(Records) /\ Len(log) \in Nat /\ Len(log) <= LogSize
  BY LenProperties DEF HooksTypeOK
<1>3. CASE UNCHANGED hookVars
  BY <1>3 DEF hookVars, HooksTypeOK
<1>4. ASSUME NEW r \in Ranks, PublishFinding(r) PROVE HooksTypeOK'
  <2>1. /\ Len(ranks) < MaxPublished /\ ranks' = Append(ranks, r)
        /\ flying' = flying \cup
             {<<h, Len(ranks')>> : h \in {g \in DOMAIN minimum : r >= minimum[g]}}
        /\ UNCHANGED <<minimum, log, forgot>>
    BY <1>4 DEF PublishFinding
  <2>2. ranks' \in Seq(Ranks) /\ Len(ranks') = Len(ranks) + 1
    BY <1>2, <2>1, AppendProperties
  <2>3. Len(ranks') \in 1..MaxPublished
    BY <1>1, <1>2, <2>1, <2>2
  <2>4. flying' \subseteq Attempts
    BY <2>1, <2>3 DEF HooksTypeOK, Attempts
  <2> QED BY <2>1, <2>2, <2>4 DEF HooksTypeOK
<1>5. ASSUME NEW a \in Attempts, Attempted(a) PROVE HooksTypeOK'
  <2> PICK success \in BOOLEAN :
        LET all == Append(log, [attempt |-> a, success |-> success]) IN
        IF Len(all) > LogSize
          THEN log' = Tail(all) /\ forgot' = forgot \cup {all[1]}
          ELSE log' = all /\ UNCHANGED forgot
    BY <1>5 DEF Attempted
  <2> PICK x \in Records : x = [attempt |-> a, success |-> success]
    BY DEF Records
  <2>1. /\ Append(log, x) \in Seq(Records) /\ Len(Append(log, x)) = Len(log) + 1
    BY <1>2, AppendProperties
  <2> PICK all \in Seq(Records) : all = Append(log, x) /\ Len(all) = Len(log) + 1
    BY <2>1
  <2>2. /\ all # <<>> /\ Tail(all) \in Seq(Records) /\ Len(Tail(all)) = Len(log)
        /\ all[1] \in Records
    <3>1. all # <<>>
      BY <1>2, EmptySeq
    <3>2. Head(all) = all[1] /\ Head(all) \in Records /\ Tail(all) \in Seq(Records)
          /\ Len(Tail(all)) = Len(all) - 1
      BY <3>1, HeadTailProperties
    <3> QED BY <1>2, <3>1, <3>2
  <2>3. log' \in Seq(Records) /\ Len(log') <= LogSize /\ forgot' \subseteq Records
    <3>1. CASE Len(all) > LogSize
      BY <1>2, <2>2, <3>1 DEF HooksTypeOK
    <3>2. CASE ~(Len(all) > LogSize)
      <4>1. log' = all /\ forgot' = forgot
        BY <3>2
      <4>2. Len(all) <= LogSize
        BY <1>1, <1>2, <3>2
      <4> QED BY <4>1, <4>2 DEF HooksTypeOK
    <3> QED BY <3>1, <3>2
  <2>4. flying' \subseteq Attempts /\ UNCHANGED <<minimum, ranks>>
    BY <1>5 DEF Attempted, HooksTypeOK
  <2> QED BY <2>3, <2>4 DEF HooksTypeOK
<1> QED BY <1>3, <1>4, <1>5 DEF HooksNext

-----------------------------------------------------------------------------
\* A key is notified once per cooldown, also when several producers report it at
\* once, the table is pruned and the settings change (Manager.Enqueue and
\* Manager.Update), and every queue and table keeps its capacity.
THEOREM NotifiedOnceCorrect == PartSpec => []NotifiedOnce
<1> DEFINE Inv == NotificationsInv /\ StreamInv /\ HooksTypeOK
<1>1. PartInit => Inv
  BY NotificationsInitInv, StreamInitInv, HooksInitType DEF PartInit
<1>2. Inv /\ [PartNext]_allVars => Inv'
  <2> SUFFICES ASSUME Inv, [PartNext]_allVars PROVE Inv'
    OBVIOUS
  <2>1. [Next]_vars /\ [StreamNext]_streamVars /\ [HooksNext]_hookVars
    BY DEF PartNext, allVars, NotificationsPart, StreamingPart, IntegrationsPart
  <2>2. NotificationsInv /\ [Next]_vars => NotificationsInv'
    BY EnqueueKeeps, CooldownEndsKeeps, UpdateKeeps, OfferKeeps, DeliverKeeps DEF Next
  <2> QED BY <2>1, <2>2, StreamKeeps, HooksKeepType
<1>3. Inv => NotifiedOnce
  BY DEF NotificationsInv, StreamInv, NotifiedOnce
<1> QED BY <1>1, <1>2, <1>3, PTL DEF PartSpec

-----------------------------------------------------------------------------
\* A queue no item is in twice gains an item at its end, and loses its first.
LEMMA AppendedFacts ==
  ASSUME NEW S, NEW s \in Seq(S), NEW x \in S
  PROVE  /\ ToSet(Append(s, x)) = ToSet(s) \cup {x}
         /\ IsInjective(s) /\ x \notin ToSet(s) => IsInjective(Append(s, x))
<1> DEFINE a == Append(s, x)
<1>1. /\ a \in Seq(S) /\ Len(a) = Len(s) + 1 /\ a[Len(s) + 1] = x /\ Len(s) \in Nat
      /\ \A i \in 1..Len(s) : a[i] = s[i]
  BY AppendProperties, LenProperties
<1>2. DOMAIN s = 1..Len(s) /\ DOMAIN a = 1..(Len(s) + 1)
  BY <1>1, LenProperties
<1> HIDE DEF a
<1>3. \A i \in 1..(Len(s) + 1) : i = Len(s) + 1 \/ i \in 1..Len(s)
  BY <1>1
<1>4. \A i \in 1..Len(s) : i \in 1..(Len(s) + 1) /\ i # Len(s) + 1
  BY <1>1
<1>5. Len(s) + 1 \in 1..(Len(s) + 1)
  BY <1>1
<1>6. ToSet(a) = ToSet(s) \cup {x}
  BY <1>1, <1>2, <1>3, <1>4, <1>5 DEF ToSet
<1>7. ASSUME IsInjective(s), x \notin ToSet(s) PROVE IsInjective(a)
  <2> SUFFICES ASSUME NEW i \in 1..(Len(s) + 1), NEW j \in 1..(Len(s) + 1), a[i] = a[j]
               PROVE  i = j
    BY <1>2 DEF IsInjective
  <2>1. \A k \in 1..Len(s) : s[k] # x
    BY <1>2, <1>7 DEF ToSet
  <2> QED BY <1>1, <1>2, <1>3, <1>7, <2>1 DEF IsInjective
<1> QED BY <1>6, <1>7 DEF a

LEMMA TakenFacts ==
  ASSUME NEW S, NEW s \in Seq(S), s # <<>>
  PROVE  /\ ToSet(s) = ToSet(Tail(s)) \cup {Head(s)} /\ Head(s) \in S
         /\ IsInjective(s) => IsInjective(Tail(s)) /\ Head(s) \notin ToSet(Tail(s))
<1> DEFINE t == Tail(s)
<1>1. /\ t \in Seq(S) /\ Len(t) = Len(s) - 1 /\ Head(s) = s[1] /\ Len(s) \in Nat /\ Len(s) > 0
      /\ Head(s) \in S /\ \A i \in 1..Len(t) : t[i] = s[i + 1]
  BY HeadTailProperties, LenProperties, EmptySeq
<1>2. DOMAIN s = 1..Len(s) /\ DOMAIN t = 1..(Len(s) - 1)
  BY <1>1, LenProperties
<1> HIDE DEF t
<1>3. \A i \in 1..Len(s) : i = 1 \/ (i - 1 \in 1..(Len(s) - 1) /\ t[i - 1] = s[i])
  BY <1>1
<1>4. \A i \in 1..(Len(s) - 1) : i + 1 \in 1..Len(s) /\ i + 1 # 1 /\ t[i] = s[i + 1]
  BY <1>1
<1>5. 1 \in 1..Len(s)
  BY <1>1
<1>6. ToSet(s) \subseteq ToSet(t) \cup {Head(s)}
  BY <1>1, <1>2, <1>3 DEF ToSet
<1>7. ToSet(t) \cup {Head(s)} \subseteq ToSet(s)
  <2>1. Head(s) \in ToSet(s)
    BY <1>1, <1>2, <1>5 DEF ToSet
  <2>2. ASSUME NEW y \in ToSet(t) PROVE y \in ToSet(s)
    <3>1. PICK i \in 1..(Len(s) - 1) : y = t[i]
      BY <1>2 DEF ToSet
    <3> QED BY <1>2, <1>4, <3>1 DEF ToSet
  <2> QED BY <2>1, <2>2
<1>8. ASSUME IsInjective(s) PROVE IsInjective(t) /\ Head(s) \notin ToSet(t)
  <2>1. \A i \in 1..(Len(s) - 1) : t[i] # Head(s)
    BY <1>1, <1>2, <1>4, <1>5, <1>8 DEF IsInjective
  <2>2. ASSUME NEW i \in 1..(Len(s) - 1), NEW j \in 1..(Len(s) - 1), t[i] = t[j] PROVE i = j
    <3>1. i + 1 = j + 1
      BY <1>2, <1>4, <1>8, <2>2 DEF IsInjective
    <3> QED BY <3>1
  <2> QED BY <1>2, <2>1, <2>2 DEF IsInjective, ToSet
<1> QED BY <1>1, <1>6, <1>7, <1>8 DEF t

LEMMA NoneIn == ToSet(<<>>) = {} /\ IsInjective(<<>>)
  BY DEF ToSet, IsInjective

-----------------------------------------------------------------------------
\* Where an event can be, for a target of Streaming.
StreamSpots == {"feed", "held", "lane", "sending", "dropped", "sent", "failed"}
StreamAt(l, t, e) ==
  \/ l = "feed" /\ e \in ToSet(feed)
  \/ l = "held" /\ e = held.event /\ t \in held.left
  \/ l = "lane" /\ e \in ToSet(lane[t])
  \/ l = "sending" /\ e = sending[t]
  \/ l = "dropped" /\ e \in feedDropped \cup tally[t].dropped
  \/ l = "sent" /\ e \in tally[t].sent
  \/ l = "failed" /\ e \in tally[t].failed

StreamOnly(l, t, e) == \A k \in StreamSpots : StreamAt(k, t, e) <=> k = l

\* An event that was published is in exactly one place, and once.
StreamOnce ==
  /\ \A t \in On : \A e \in 1..streamed : \E l \in StreamSpots : StreamOnly(l, t, e)
  /\ \A t \in On : \A e \in StreamEvents : e > streamed =>
       /\ \A k \in StreamSpots : ~StreamAt(k, t, e)
       /\ e # held.event
  /\ \A e \in StreamEvents : e > streamed => e \notin ToSet(feed)
  /\ IsInjective(feed) /\ \A t \in On : IsInjective(lane[t])

\* What a step does to an event of a target: nothing, or it comes from one
\* place, or is new, and goes to another.
StreamKept(t, e) == \A k \in StreamSpots : StreamAt(k, t, e)' <=> StreamAt(k, t, e)
StreamRoutes ==
  {<<"new", "feed">>, <<"new", "dropped">>, <<"feed", "held">>, <<"held", "lane">>,
   <<"held", "dropped">>, <<"lane", "sending">>, <<"sending", "sent">>,
   <<"sending", "failed">>}
StreamGoes(t, e) ==
  \E r \in StreamRoutes :
    /\ IF r[1] = "new" THEN e > streamed
       ELSE e <= streamed /\ StreamOnly(r[1], t, e)
    /\ StreamOnly(r[2], t, e)'
StreamMove(x) ==
  \A t \in On : \A e \in 1..streamed' :
    \/ StreamKept(t, e) /\ e <= streamed
    \/ StreamGoes(t, e) /\ e = x

LEMMA StreamInitOnce == StreamInit => StreamOnce
<1> SUFFICES ASSUME StreamInit PROVE StreamOnce
  OBVIOUS
<1>1. /\ streamed = 0 /\ feed = <<>> /\ feedDropped = {} /\ held.event = 0 /\ held.left = {}
      /\ \A t \in On : /\ lane[t] = <<>> /\ sending[t] = 0 /\ tally[t].sent = {}
                       /\ tally[t].failed = {} /\ tally[t].dropped = {}
  BY DEF StreamInit, NoneHeld
<1>2. 1..streamed = {} /\ \A e \in StreamEvents : e # 0
  BY <1>1, StreamBounds DEF StreamEvents
<1> QED BY <1>1, <1>2, NoneIn DEF StreamOnce, StreamAt

LEMMA StreamTypes ==
  ASSUME StreamInv
  PROVE  /\ streamed \in Nat /\ streamed <= MaxStreamed /\ feed \in Seq(StreamEvents)
         /\ lane \in [On -> Seq(StreamEvents)] /\ sending \in [On -> 0..MaxStreamed]
         /\ tally \in [On -> [sent : SUBSET StreamEvents, failed : SUBSET StreamEvents,
                              dropped : SUBSET StreamEvents]]
         /\ \A e \in 1..streamed : e \in StreamEvents
         /\ \A e \in StreamEvents : e \in Nat /\ e > 0
         /\ held \in [event : 0..MaxStreamed, left : SUBSET On]
  BY StreamBounds DEF StreamInv, StreamTypeOK, StreamEvents

LEMMA PublishMove ==
  ASSUME StreamInv, StreamOnce, StreamPublish
  PROVE  StreamOnce' /\ \E x : StreamMove(x)
<1>0. streamed + 1 \in StreamEvents
  BY StreamTypes, StreamBounds DEF StreamPublish, StreamEvents
<1> PICK x \in StreamEvents : x = streamed + 1
  BY <1>0
<1>1. /\ streamed' = x /\ x \in StreamEvents /\ On' = On
      /\ UNCHANGED <<held, lane, sending, tally>>
      /\ \/ feed' = Append(feed, x) /\ feedDropped' = feedDropped
         \/ feedDropped' = feedDropped \cup {x} /\ feed' = feed
  BY StreamTypes, StreamBounds DEF StreamPublish, On, StreamEvents
<1>2. /\ x > streamed /\ \A e \in StreamEvents : e > x => e > streamed /\ e # x
      /\ \A e \in 1..x : e = x \/ (e \in 1..streamed /\ e # x)
      /\ \A e \in 1..streamed : e <= streamed
  BY StreamTypes
<1>3. ToSet(Append(feed, x)) = ToSet(feed) \cup {x} /\ IsInjective(feed')
  <2>1. x \notin ToSet(feed) /\ IsInjective(feed)
    BY <1>1, <1>2 DEF StreamOnce
  <2>2. feed \in Seq(StreamEvents)
    BY StreamTypes
  <2>3. ToSet(Append(feed, x)) = ToSet(feed) \cup {x} /\ IsInjective(Append(feed, x))
    BY <1>1, <2>1, <2>2, AppendedFacts
  <2> QED BY <1>1, <2>1, <2>3
<1>4. ASSUME NEW t \in On, NEW e \in StreamEvents, e # x PROVE StreamKept(t, e)
  <2>1. e \in ToSet(feed') <=> e \in ToSet(feed)
    BY <1>1, <1>3, <1>4
  <2>2. e \in feedDropped' <=> e \in feedDropped
    BY <1>1, <1>4
  <2> QED BY <1>1, <2>1, <2>2 DEF StreamKept, StreamAt
<1>5. ASSUME NEW t \in On PROVE StreamGoes(t, x)
  <2>1. /\ x \notin ToSet(feed) /\ ~(x = held.event /\ t \in held.left) /\ x \notin ToSet(lane[t])
        /\ x # sending[t] /\ x \notin feedDropped /\ x \notin tally[t].dropped
        /\ x \notin tally[t].sent /\ x \notin tally[t].failed
    BY <1>1, <1>2 DEF StreamOnce, StreamAt, StreamSpots
  <2>2. CASE feed' = Append(feed, x) /\ feedDropped' = feedDropped
    <3>1. x \in ToSet(feed')
      BY <1>3, <2>2
    <3>2. \A k \in StreamSpots : StreamAt(k, t, x)' <=> k = "feed"
      BY <1>1, <2>1, <2>2, <3>1 DEF StreamAt, StreamSpots
    <3>3. StreamOnly("feed", t, x)'
      BY <3>2 DEF StreamOnly
    <3> QED BY <1>2, <3>3 DEF StreamGoes, StreamRoutes
  <2>3. CASE feedDropped' = feedDropped \cup {x} /\ feed' = feed
    <3>1. x \in feedDropped'
      BY <2>3
    <3>2. \A k \in StreamSpots : StreamAt(k, t, x)' <=> k = "dropped"
      BY <1>1, <2>1, <2>3, <3>1 DEF StreamAt, StreamSpots
    <3>3. StreamOnly("dropped", t, x)'
      BY <3>2 DEF StreamOnly
    <3> QED BY <1>2, <3>3 DEF StreamGoes, StreamRoutes
  <2> QED BY <1>1, <2>2, <2>3
<1>6. StreamMove(x)
  <2> SUFFICES ASSUME NEW t \in On, NEW e \in 1..x
               PROVE  \/ StreamKept(t, e) /\ e <= streamed
                      \/ StreamGoes(t, e) /\ e = x
    BY <1>1 DEF StreamMove
  <2> QED BY <1>2, <1>4, <1>5, StreamTypes
<1>7. StreamOnce'
  <2>1. ASSUME NEW t \in On, NEW e \in 1..x
        PROVE  \E l \in StreamSpots : StreamOnly(l, t, e)'
    <3>1. CASE e = x
      <4>1. PICK r \in StreamRoutes : StreamOnly(r[2], t, x)'
        BY <1>5 DEF StreamGoes
      <4>2. r[2] \in StreamSpots
        BY <4>1 DEF StreamRoutes, StreamSpots
      <4> QED BY <3>1, <4>1, <4>2
    <3>2. CASE e \in 1..streamed /\ e # x
      <4>1. PICK l \in StreamSpots : StreamOnly(l, t, e)
        BY <3>2 DEF StreamOnce
      <4>2. StreamKept(t, e)
        BY <1>4, <3>2, StreamTypes
      <4> QED BY <4>1, <4>2 DEF StreamKept, StreamOnly
    <3> QED BY <1>2, <3>1, <3>2
  <2>2. ASSUME NEW t \in On, NEW e \in StreamEvents, e > x
        PROVE  (\A k \in StreamSpots : ~(StreamAt(k, t, e)')) /\ e # held'.event
    BY <1>1, <1>2, <1>4, <2>2 DEF StreamOnce, StreamKept
  <2>3. ASSUME NEW e \in StreamEvents, e > x PROVE e \notin ToSet(feed')
    BY <1>1, <1>2, <1>3, <2>3 DEF StreamOnce
  <2> QED BY <1>1, <1>3, <2>1, <2>2, <2>3 DEF StreamOnce
<1> QED BY <1>6, <1>7

\* The other steps publish nothing: what they keep or move stays in one place.
LEMMA StreamOnceKept ==
  ASSUME StreamInv, StreamOnce, NEW x, StreamMove(x), UNCHANGED <<streamed, targets>>,
         \A t \in On : \A e \in StreamEvents : e > streamed =>
            StreamKept(t, e) /\ e # held'.event,
         \A e \in ToSet(feed') : e \in ToSet(feed),
         IsInjective(feed'), \A t \in On : IsInjective(lane'[t])
  PROVE  StreamOnce'
<1>1. On' = On
  BY DEF On
<1>2. ASSUME NEW t \in On, NEW e \in 1..streamed
      PROVE  \E l \in StreamSpots : StreamOnly(l, t, e)'
  <2>1. StreamKept(t, e) \/ StreamGoes(t, e)
    BY DEF StreamMove
  <2>2. CASE StreamKept(t, e)
    BY <2>2 DEF StreamOnce, StreamKept, StreamOnly
  <2>3. CASE StreamGoes(t, e)
    <3>1. PICK r \in StreamRoutes : StreamOnly(r[2], t, e)'
      BY <2>3 DEF StreamGoes
    <3> QED BY <3>1 DEF StreamRoutes, StreamSpots
  <2> QED BY <2>1, <2>2, <2>3
<1>3. \A t \in On : \A e \in StreamEvents : e > streamed =>
        \A k \in StreamSpots : ~(StreamAt(k, t, e)')
  BY DEF StreamOnce, StreamKept
<1>4. \A e \in StreamEvents : e > streamed => e \notin ToSet(feed')
  BY DEF StreamOnce
<1> QED BY <1>1, <1>2, <1>3, <1>4 DEF StreamOnce

LEMMA StreamAtRight ==
  ASSUME StreamInv, StreamOnce, NEW t \in On, NEW e \in StreamEvents, NEW l \in StreamSpots,
         StreamAt(l, t, e)
  PROVE  e <= streamed /\ StreamOnly(l, t, e)
<1>1. e <= streamed
  <2> SUFFICES ASSUME e > streamed PROVE FALSE
    BY StreamTypes
  <2> QED BY DEF StreamOnce
<1>2. e \in 1..streamed
  BY <1>1, StreamTypes
<1>3. PICK k \in StreamSpots : StreamOnly(k, t, e)
  BY <1>2 DEF StreamOnce
<1> QED BY <1>1, <1>3 DEF StreamOnly

LEMMA DispatchMove ==
  ASSUME StreamInv, StreamOnce, Dispatch
  PROVE  StreamOnce' /\ \E x : StreamMove(x)
<1>0. feed # <<>> /\ Head(feed) \in StreamEvents /\ Head(feed) \in ToSet(feed)
  BY StreamTypes, TakenFacts DEF Dispatch
<1> PICK x \in StreamEvents : x = Head(feed)
  BY <1>0
<1>1. /\ held.left = {} /\ held'.event = x /\ held'.left = On /\ feed' = Tail(feed) /\ On' = On
      /\ UNCHANGED <<targets, streamed, feedDropped, lane, sending, tally>>
  BY DEF Dispatch, On
<1>2. ToSet(feed) = ToSet(feed') \cup {x} /\ IsInjective(feed') /\ x \notin ToSet(feed')
  <2>1. IsInjective(feed) /\ feed \in Seq(StreamEvents)
    BY StreamTypes DEF StreamOnce
  <2> QED BY <1>0, <1>1, <2>1, TakenFacts
<1>3. ASSUME NEW t \in On, NEW e \in StreamEvents, e # x PROVE StreamKept(t, e)
  BY <1>1, <1>2, <1>3 DEF StreamKept, StreamAt
<1>4. x <= streamed
  <2> SUFFICES ASSUME x > streamed PROVE FALSE
    BY StreamTypes
  <2> QED BY <1>0 DEF StreamOnce
<1>5. ASSUME NEW t \in On PROVE StreamGoes(t, x)
  <2>1. StreamAt("feed", t, x) /\ "feed" \in StreamSpots
    BY <1>0 DEF StreamAt, StreamSpots
  <2>2. StreamOnly("feed", t, x)
    BY <2>1, StreamAtRight
  <2>3. \A k \in StreamSpots : StreamAt(k, t, x)' <=> k = "held"
    BY <1>1, <1>2, <2>2 DEF StreamAt, StreamSpots, StreamOnly
  <2>4. StreamOnly("held", t, x)'
    BY <2>3 DEF StreamOnly
  <2> QED BY <1>4, <2>2, <2>4 DEF StreamGoes, StreamRoutes
<1>6. StreamMove(x)
  <2> SUFFICES ASSUME NEW t \in On, NEW e \in 1..streamed
               PROVE  \/ StreamKept(t, e) /\ e <= streamed
                      \/ StreamGoes(t, e) /\ e = x
    BY <1>1 DEF StreamMove
  <2>1. e \in StreamEvents /\ e <= streamed
    BY StreamTypes
  <2> QED BY <1>3, <1>5, <2>1
<1>7. \A t \in On : \A e \in StreamEvents : e > streamed => StreamKept(t, e) /\ e # held'.event
  BY <1>1, <1>3, <1>4, StreamTypes
<1>8. \A t \in On : IsInjective(lane'[t])
  BY <1>1 DEF StreamOnce
<1>9. \A e \in ToSet(feed') : e \in ToSet(feed)
  BY <1>2
<1> QED BY <1>1, <1>2, <1>6, <1>7, <1>8, <1>9, StreamOnceKept

\* A step of one target leaves the events of the others where they are.
LEMMA TargetMove ==
  ASSUME StreamInv, StreamOnce, NEW t \in On, NEW x \in StreamEvents,
         UNCHANGED <<targets, streamed, feed, feedDropped>>, held'.event = held.event,
         \A u \in On : u # t =>
            /\ u \in held'.left <=> u \in held.left
            /\ lane'[u] = lane[u] /\ sending'[u] = sending[u] /\ tally'[u] = tally[u],
         \A e \in StreamEvents : e # x => StreamKept(t, e),
         x <= streamed, StreamGoes(t, x), IsInjective(lane'[t])
  PROVE  StreamOnce' /\ \E y : StreamMove(y)
<1>1. \A u \in On : \A e \in StreamEvents : u # t => StreamKept(u, e)
  BY DEF StreamKept, StreamAt
<1>2. StreamMove(x)
  <2> SUFFICES ASSUME NEW u \in On, NEW e \in 1..streamed
               PROVE  \/ StreamKept(u, e) /\ e <= streamed
                      \/ StreamGoes(u, e) /\ e = x
    BY DEF StreamMove, On
  <2>1. e \in StreamEvents /\ e <= streamed
    BY StreamTypes
  <2> QED BY <1>1, <2>1
<1>3. \A u \in On : \A e \in StreamEvents : e > streamed => StreamKept(u, e) /\ e # held'.event
  <2>1. \A e \in StreamEvents : e > streamed => e # x
    BY StreamTypes
  <2> QED BY <1>1, <2>1 DEF StreamOnce
<1>4. \A u \in On : IsInjective(lane'[u])
  BY DEF StreamOnce
<1>5. IsInjective(feed') /\ \A e \in ToSet(feed') : e \in ToSet(feed)
  BY DEF StreamOnce
<1> QED BY <1>2, <1>3, <1>4, <1>5, StreamOnceKept

LEMMA HandOverMove ==
  ASSUME StreamInv, StreamOnce, NEW t \in On, HandOver(t)
  PROVE  StreamOnce' /\ \E x : StreamMove(x)
<1>0. held.event \in StreamEvents
  BY DEF HandOver, StreamInv
<1> PICK x \in StreamEvents : x = held.event
  BY <1>0
<1>1. /\ t \in held.left /\ held'.event = held.event /\ held'.left = held.left \ {t}
      /\ UNCHANGED <<targets, streamed, feed, feedDropped, sending>>
  BY StreamTypes DEF HandOver
<1>2. \/ /\ lane' = [lane EXCEPT ![t] = Append(lane[t], x)] /\ tally' = tally
      \/ /\ tally' = [tally EXCEPT ![t] = [tally[t] EXCEPT !.dropped = tally[t].dropped \cup {x}]]
         /\ lane' = lane
  BY DEF HandOver
<1>3. "held" \in StreamSpots /\ StreamAt("held", t, x)
  BY <1>1 DEF StreamAt, StreamSpots
<1>4. x <= streamed /\ StreamOnly("held", t, x)
  BY <1>3, StreamAtRight
<1>5. x \notin ToSet(lane[t]) /\ lane[t] \in Seq(StreamEvents) /\ IsInjective(lane[t])
  BY <1>4, StreamTypes DEF StreamOnly, StreamAt, StreamSpots, StreamOnce
<1>6. ToSet(Append(lane[t], x)) = ToSet(lane[t]) \cup {x} /\ IsInjective(Append(lane[t], x))
  BY <1>5, AppendedFacts
<1>7. tally[t] \in [sent : SUBSET StreamEvents, failed : SUBSET StreamEvents,
                   dropped : SUBSET StreamEvents] /\ t \in DOMAIN tally /\ t \in DOMAIN lane
  BY StreamTypes
<1>8. CASE lane' = [lane EXCEPT ![t] = Append(lane[t], x)] /\ tally' = tally
  <2>1. lane'[t] = Append(lane[t], x)
    BY <1>7, <1>8
  <2>2. \A e \in StreamEvents : e # x => StreamKept(t, e)
    BY <1>1, <1>6, <1>8, <2>1 DEF StreamKept, StreamAt
  <2>3. \A k \in StreamSpots : StreamAt(k, t, x)' <=> k = "lane"
    BY <1>1, <1>4, <1>6, <1>8, <2>1 DEF StreamAt, StreamSpots, StreamOnly
  <2>4. StreamGoes(t, x)
    BY <1>4, <2>3 DEF StreamGoes, StreamRoutes, StreamOnly
  <2>5. IsInjective(lane'[t]) /\ \A u \in On : u # t => lane'[u] = lane[u]
    BY <1>6, <1>8, <2>1, StreamTypes
  <2> QED BY <1>1, <1>4, <1>8, <2>2, <2>4, <2>5, TargetMove
<1>9. CASE /\ tally' = [tally EXCEPT ![t] = [tally[t] EXCEPT !.dropped = tally[t].dropped \cup {x}]]
           /\ lane' = lane
  <2>1. /\ tally'[t].dropped = tally[t].dropped \cup {x} /\ tally'[t].sent = tally[t].sent
        /\ tally'[t].failed = tally[t].failed
    BY <1>7, <1>9
  <2>2. \A e \in StreamEvents : e # x => StreamKept(t, e)
    BY <1>1, <1>9, <2>1 DEF StreamKept, StreamAt
  <2>3. \A k \in StreamSpots : StreamAt(k, t, x)' <=> k = "dropped"
    BY <1>1, <1>4, <1>9, <2>1 DEF StreamAt, StreamSpots, StreamOnly
  <2>4. StreamGoes(t, x)
    BY <1>4, <2>3 DEF StreamGoes, StreamRoutes, StreamOnly
  <2>5. IsInjective(lane'[t]) /\ \A u \in On : u # t => tally'[u] = tally[u]
    BY <1>5, <1>9, StreamTypes
  <2> QED BY <1>1, <1>4, <1>9, <2>2, <2>4, <2>5, TargetMove
<1> QED BY <1>2, <1>8, <1>9

LEMMA TakeEventMove ==
  ASSUME StreamInv, StreamOnce, NEW t \in On, TakeEvent(t)
  PROVE  StreamOnce' /\ \E x : StreamMove(x)
<1>0. /\ lane[t] # <<>> /\ lane[t] \in Seq(StreamEvents) /\ IsInjective(lane[t])
      /\ Head(lane[t]) \in StreamEvents
  BY StreamTypes, TakenFacts DEF TakeEvent, StreamOnce
<1> PICK x \in StreamEvents : x = Head(lane[t])
  BY <1>0
<1>1. /\ sending[t] = 0 /\ sending' = [sending EXCEPT ![t] = x]
      /\ lane' = [lane EXCEPT ![t] = Tail(lane[t])]
      /\ UNCHANGED <<targets, streamed, feed, feedDropped, held, tally>>
  BY DEF TakeEvent
<1>2. lane'[t] = Tail(lane[t]) /\ sending'[t] = x
      /\ \A u \in On : u # t => lane'[u] = lane[u] /\ sending'[u] = sending[u]
  BY <1>1, StreamTypes
<1>3. /\ ToSet(lane[t]) = ToSet(lane'[t]) \cup {x} /\ IsInjective(lane'[t])
      /\ x \notin ToSet(lane'[t])
  BY <1>0, <1>2, TakenFacts
<1>4. "lane" \in StreamSpots /\ StreamAt("lane", t, x)
  BY <1>3 DEF StreamAt, StreamSpots
<1>5. x <= streamed /\ StreamOnly("lane", t, x)
  BY <1>4, StreamAtRight
<1>6. \A e \in StreamEvents : e # 0
  BY StreamTypes
<1>7. \A e \in StreamEvents : e # x => StreamKept(t, e)
  BY <1>1, <1>2, <1>3, <1>6 DEF StreamKept, StreamAt
<1>8. \A k \in StreamSpots : StreamAt(k, t, x)' <=> k = "sending"
  BY <1>1, <1>2, <1>3, <1>5 DEF StreamAt, StreamSpots, StreamOnly
<1>9. StreamGoes(t, x)
  BY <1>5, <1>8 DEF StreamGoes, StreamRoutes, StreamOnly
<1> QED BY <1>1, <1>2, <1>3, <1>5, <1>7, <1>9, TargetMove

LEMMA SentMove ==
  ASSUME StreamInv, StreamOnce, NEW t \in On, Sent(t)
  PROVE  StreamOnce' /\ \E x : StreamMove(x)
<1> PICK end \in SendEnds(targets[t]) :
      tally' = [tally EXCEPT ![t][end] = @ \cup {sending[t]}]
  BY DEF Sent
<1>0. sending[t] \in StreamEvents
  BY StreamTypes, StreamBounds DEF Sent, StreamEvents
<1> PICK x \in StreamEvents : x = sending[t]
  BY <1>0
<1>1. /\ sending' = [sending EXCEPT ![t] = 0] /\ end \in {"sent", "failed"}
      /\ UNCHANGED <<targets, streamed, feed, feedDropped, held, lane>>
  BY DEF Sent, SendEnds
<1>2. /\ sending'[t] = 0 /\ tally'[t] = [tally[t] EXCEPT ![end] = @ \cup {x}]
      /\ \A u \in On : u # t => sending'[u] = sending[u] /\ tally'[u] = tally[u]
  BY <1>1, StreamTypes
<1>3. /\ tally'[t].dropped = tally[t].dropped
      /\ tally'[t].sent = IF end = "sent" THEN tally[t].sent \cup {x} ELSE tally[t].sent
      /\ tally'[t].failed = IF end = "failed" THEN tally[t].failed \cup {x} ELSE tally[t].failed
  <2>1. tally[t] \in [sent : SUBSET StreamEvents, failed : SUBSET StreamEvents,
                     dropped : SUBSET StreamEvents]
    BY StreamTypes
  <2>2. CASE end = "sent"
    BY <1>2, <2>1, <2>2
  <2>3. CASE end = "failed"
    BY <1>2, <2>1, <2>3
  <2> QED BY <1>1, <2>2, <2>3
<1>4. "sending" \in StreamSpots /\ StreamAt("sending", t, x)
  BY DEF StreamAt, StreamSpots
<1>5. x <= streamed /\ StreamOnly("sending", t, x)
  BY <1>4, StreamAtRight
<1>6. \A e \in StreamEvents : e # 0
  BY StreamTypes
<1>7. \A e \in StreamEvents : e # x => StreamKept(t, e)
  BY <1>1, <1>2, <1>3, <1>6 DEF StreamKept, StreamAt
<1>8. \A k \in StreamSpots : StreamAt(k, t, x)' <=> k = end
  BY <1>1, <1>2, <1>3, <1>5, <1>6 DEF StreamAt, StreamSpots, StreamOnly
<1>9. StreamGoes(t, x)
  BY <1>1, <1>5, <1>8 DEF StreamGoes, StreamRoutes, StreamOnly
<1>10. IsInjective(lane'[t])
  BY <1>1 DEF StreamOnce
<1> QED BY <1>1, <1>2, <1>5, <1>7, <1>9, <1>10, TargetMove

LEMMA StreamStays ==
  ASSUME StreamInv, StreamOnce,
         UNCHANGED <<targets, streamed, feed, feedDropped, held, lane, sending, tally>>
  PROVE  StreamOnce' /\ \E x : StreamMove(x)
<1>1. On' = On
  BY DEF On
<1>2. \A t \in On : \A e \in StreamEvents : StreamKept(t, e)
  BY DEF StreamKept, StreamAt
<1>3. StreamMove(0)
  BY <1>2, StreamTypes DEF StreamMove
<1>4. StreamOnce'
  BY <1>1 DEF StreamOnce, StreamAt, StreamOnly
<1> QED BY <1>3, <1>4

LEMMA StreamMoves ==
  StreamInv /\ StreamOnce /\ [StreamNext]_streamVars => StreamOnce' /\ \E x : StreamMove(x)
<1> SUFFICES ASSUME StreamInv, StreamOnce, [StreamNext]_streamVars
             PROVE  StreamOnce' /\ \E x : StreamMove(x)
  OBVIOUS
<1>1. CASE StreamPublish
  BY <1>1, PublishMove
<1>2. CASE Dispatch
  BY <1>2, DispatchMove
<1>3. CASE \E t \in On : HandOver(t)
  BY <1>3, HandOverMove
<1>4. CASE \E t \in On : TakeEvent(t)
  BY <1>4, TakeEventMove
<1>5. CASE \E t \in On : Sent(t)
  BY <1>5, SentMove
<1>6. CASE StreamStop \/ (\E g \in On \cup {Dispatcher} : StreamExit(g)) \/ UNCHANGED streamVars
  BY <1>6, StreamStays DEF StreamStop, StreamExit, streamVars
<1> QED BY <1>1, <1>2, <1>3, <1>4, <1>5, <1>6 DEF StreamNext, DispatcherWork, StreamWork

\* What an outlet sees of a place.
StreamForm(l) == IF l \in {"sent", "failed", "dropped"} THEN l ELSE "waiting"

LEMMA StreamPlaceIs ==
  ASSUME StreamInv, NEW t \in On, NEW e \in 1..streamed, NEW l \in StreamSpots, StreamOnly(l, t, e)
  PROVE  StreamPlace(t, e) = StreamForm(l)
<1> DEFINE in == (IF e \in ToSet(feed) THEN {"feed"} ELSE {})
            \cup (IF e = held.event /\ t \in held.left THEN {"held"} ELSE {})
            \cup (IF e \in ToSet(lane[t]) THEN {"lane"} ELSE {})
            \cup (IF e = sending[t] THEN {"sending"} ELSE {})
            \cup (IF e \in feedDropped \cup tally[t].dropped THEN {"dropped"} ELSE {})
            \cup {end \in {"sent", "failed"} : e \in tally[t][end]}
<1>1. in = {k \in StreamSpots : StreamAt(k, t, e)}
  BY DEF StreamSpots, StreamAt
<1>2. StreamPlace(t, e) =
        IF e > streamed \/ t \notin On THEN "new"
        ELSE IF Cardinality(in) # 1 THEN "torn"
        ELSE IF in \subseteq {"sent", "failed", "dropped"} THEN CHOOSE p \in in : TRUE
        ELSE "waiting"
  BY DEF StreamPlace
<1> HIDE DEF in
<1>3. in = {l}
  BY <1>1 DEF StreamOnly
<1>4. Cardinality(in) = 1 /\ (CHOOSE p \in in : TRUE) = l
  <2>1. Cardinality({l}) = 1
    BY FS_Singleton
  <2> QED BY <1>3, <2>1
<1>5. ~(e > streamed)
  BY StreamTypes
<1> QED BY <1>2, <1>3, <1>4, <1>5 DEF StreamForm

\* A place is what the step lemmas say it is, before a step and after it.
StreamPlaces ==
  /\ streamed \in Nat
  /\ \A t \in On : \A e \in 1..streamed : \E l \in StreamSpots : StreamOnly(l, t, e)
  /\ \A t \in On : \A e \in 1..streamed : \A l \in StreamSpots :
       StreamOnly(l, t, e) => StreamPlace(t, e) = StreamForm(l)

LEMMA StreamPlacesHold == StreamInv /\ StreamOnce => StreamPlaces
  BY StreamPlaceIs, StreamTypes DEF StreamPlaces, StreamOnce

LEMMA StreamPlaceMoves ==
  ASSUME StreamPlaces, StreamPlaces', targets' = targets, streamed <= streamed',
         NEW x, StreamMove(x), NEW t, NEW e \in Nat \ {0}
  PROVE  \/ StreamPlace(t, e)' = StreamPlace(t, e)
         \/ e = x /\ <<StreamPlace(t, e), StreamPlace(t, e)'>> \in Promise!Moves
<1>1. On' = On /\ streamed \in Nat /\ streamed' \in Nat
  BY DEF On, StreamPlaces
<1>2. CASE t \notin On
  BY <1>1, <1>2 DEF StreamPlace
<1>3. CASE t \in On /\ e > streamed'
  <2>1. e > streamed
    BY <1>1, <1>3
  <2> QED BY <1>1, <1>3, <2>1 DEF StreamPlace
<1>4. CASE t \in On /\ e \in 1..streamed'
  <2>1. CASE StreamKept(t, e) /\ e <= streamed
    <3>0. e \in 1..streamed
      BY <1>1, <2>1
    <3>1. PICK l \in StreamSpots : StreamOnly(l, t, e)
      BY <1>4, <3>0 DEF StreamPlaces
    <3>2. StreamOnly(l, t, e)'
      BY <2>1, <3>1 DEF StreamKept, StreamOnly
    <3>3. StreamPlace(t, e) = StreamForm(l)
      BY <1>4, <3>0, <3>1 DEF StreamPlaces
    <3>4. StreamPlace(t, e)' = StreamForm(l)
      BY <1>1, <1>4, <3>2 DEF StreamPlaces
    <3> QED BY <3>3, <3>4
  <2>2. CASE StreamGoes(t, e) /\ e = x
    <3> PICK r \in StreamRoutes :
          /\ IF r[1] = "new" THEN e > streamed ELSE e <= streamed /\ StreamOnly(r[1], t, e)
          /\ StreamOnly(r[2], t, e)'
      BY <2>2 DEF StreamGoes
    <3>0. r[2] \in StreamSpots /\ (r[1] = "new" \/ r[1] \in StreamSpots)
      BY DEF StreamRoutes, StreamSpots
    <3>1. StreamPlace(t, e)' = StreamForm(r[2])
      BY <1>1, <1>4, <3>0 DEF StreamPlaces
    <3>2. CASE r[1] = "new"
      <4>1. StreamPlace(t, e) = "new"
        BY <3>2 DEF StreamPlace
      <4>2. r[2] \in {"feed", "dropped"}
        BY <3>2 DEF StreamRoutes
      <4> QED BY <2>2, <3>1, <4>1, <4>2 DEF StreamForm, Promise!Moves, Promise!Settled
    <3>3. CASE r[1] # "new"
      <4>1. e \in 1..streamed
        BY <1>1, <3>3
      <4>2. StreamPlace(t, e) = StreamForm(r[1])
        BY <1>4, <3>0, <3>3, <4>1 DEF StreamPlaces
      <4>3. /\ StreamForm(r[1]) = "waiting"
            /\ StreamForm(r[2]) \in {"waiting", "sent", "failed", "dropped"}
        BY <3>3 DEF StreamRoutes, StreamForm
      <4> QED BY <2>2, <3>1, <4>2, <4>3 DEF Promise!Moves, Promise!Settled
    <3> QED BY <3>2, <3>3
  <2> QED BY <1>4, <2>1, <2>2 DEF StreamMove
<1> QED BY <1>1, <1>2, <1>3, <1>4

-----------------------------------------------------------------------------
\* A finding is due to a webhook that is enabled for its severity; an attempt
\* that has ended is in the log, or was trimmed from it.
HookDue(h, n) ==
  n \in 1..Len(ranks) /\ h \in DOMAIN minimum /\ ranks[n] >= minimum[h]
Ended == ToSet(log) \cup forgot

HooksOnce ==
  /\ IsInjective(log) /\ ToSet(log) \cap forgot = {}
  /\ \A r, s \in Ended : r.attempt = s.attempt => r = s
  /\ \A r \in Ended : r.attempt \notin flying
  /\ \A h, n : HookDue(h, n) <=>
       <<h, n>> \in flying \/ \E r \in Ended : r.attempt = <<h, n>>

HookForm(h, n) ==
  IF ~HookDue(h, n) THEN "new"
  ELSE IF <<h, n>> \in flying THEN "waiting"
  ELSE IF \E r \in Ended : r.attempt = <<h, n>> /\ r.success THEN "sent" ELSE "failed"

HookMove(x) ==
  \A h : \A n \in Nat \ {0} :
    \/ HookForm(h, n)' = HookForm(h, n)
    \/ n = x /\ <<HookForm(h, n), HookForm(h, n)'>> \in Promise!Moves

LEMMA HookTypes ==
  ASSUME HooksTypeOK
  PROVE  /\ ranks \in Seq(Ranks) /\ Len(ranks) \in Nat /\ log \in Seq(Records)
         /\ Len(log) \in Nat /\ DOMAIN log = 1..Len(log) /\ ToSet(log) \subseteq Records
         /\ Ended \subseteq Records
         /\ \A i \in 1..Len(log) : log[i] \in ToSet(log)
         /\ \A r \in ToSet(log) : \E i \in 1..Len(log) : log[i] = r
  BY LenProperties DEF HooksTypeOK, ToSet, Ended

LEMMA HookPlaceIs ==
  ASSUME HooksTypeOK, HooksOnce, NEW h, NEW n \in Nat \ {0}
  PROVE  HookPlace(h, n) = HookForm(h, n)
<1> DEFINE kept == {i \in 1..Len(log) : log[i].attempt = <<h, n>>}
           gone == {r \in forgot : r.attempt = <<h, n>>}
           due == n <= Len(ranks) /\ h \in DOMAIN minimum /\ ranks[n] >= minimum[h]
           times == Cardinality(kept) + Cardinality(gone)
                    + (IF <<h, n>> \in flying THEN 1 ELSE 0)
           won == (\E i \in kept : log[i].success) \/ (\E r \in gone : r.success)
<1>1. HookPlace(h, n) =
        IF n > Len(ranks) \/ (~due /\ times = 0) THEN "new"
        ELSE IF ~due \/ times # 1 THEN "torn"
        ELSE IF <<h, n>> \in flying THEN "waiting"
        ELSE IF won THEN "sent" ELSE "failed"
  BY DEF HookPlace
<1>2. due <=> HookDue(h, n)
  BY HookTypes DEF HookDue
<1>3. Cardinality({}) = 0
  BY FS_EmptySet
<1>4. won <=> \E r \in Ended : r.attempt = <<h, n>> /\ r.success
  BY HookTypes DEF Ended
<1>5. CASE ~HookDue(h, n)
  <2>1. <<h, n>> \notin flying /\ \A r \in Ended : r.attempt # <<h, n>>
    BY <1>5 DEF HooksOnce
  <2>2. kept = {} /\ gone = {}
    BY <2>1, HookTypes DEF Ended
  <2> HIDE DEF kept, gone
  <2>3. times = 0
    BY <1>3, <2>1, <2>2
  <2> QED BY <1>1, <1>2, <1>5, <2>3 DEF HookForm
<1>6. CASE HookDue(h, n) /\ <<h, n>> \in flying
  <2>1. \A r \in Ended : r.attempt # <<h, n>>
    BY <1>6 DEF HooksOnce
  <2>2. kept = {} /\ gone = {}
    BY <2>1, HookTypes DEF Ended
  <2> HIDE DEF kept, gone
  <2>3. times = 1
    BY <1>3, <1>6, <2>2
  <2>4. ~(n > Len(ranks))
    BY <1>6, HookTypes DEF HookDue
  <2> QED BY <1>1, <1>2, <1>6, <2>3, <2>4 DEF HookForm
<1>7. CASE HookDue(h, n) /\ <<h, n>> \notin flying
  <2> PICK r \in Ended : r.attempt = <<h, n>>
    BY <1>7 DEF HooksOnce
  <2>1. \A s \in Ended : s.attempt = <<h, n>> => s = r
    BY DEF HooksOnce
  <2>2. Cardinality(kept) + Cardinality(gone) = 1
    <3>1. CASE r \in ToSet(log)
      <4> PICK i \in 1..Len(log) : log[i] = r
        BY <3>1, HookTypes
      <4>1. gone = {}
        BY <2>1, <3>1 DEF HooksOnce, Ended
      <4>2. kept = {i}
        BY <2>1, HookTypes DEF HooksOnce, Ended, IsInjective
      <4>3. Cardinality({i}) = 1
        BY FS_Singleton
      <4> HIDE DEF kept, gone
      <4> QED BY <1>3, <4>1, <4>2, <4>3
    <3>2. CASE r \in forgot
      <4>1. kept = {}
        BY <2>1, <3>2, HookTypes DEF HooksOnce, Ended
      <4>2. gone = {r}
        BY <2>1, <3>2 DEF Ended
      <4>3. Cardinality({r}) = 1
        BY FS_Singleton
      <4> HIDE DEF kept, gone
      <4> QED BY <1>3, <4>1, <4>2, <4>3
    <3> QED BY <3>1, <3>2 DEF Ended
  <2>3. times = 1
    BY <1>7, <2>2
  <2>4. ~(n > Len(ranks))
    BY <1>7, HookTypes DEF HookDue
  <2> HIDE DEF times, won, due
  <2> QED BY <1>1, <1>2, <1>4, <1>7, <2>3, <2>4 DEF HookForm
<1> QED BY <1>5, <1>6, <1>7

LEMMA HooksInitOnce == HooksInit => HooksOnce
<1> SUFFICES ASSUME HooksInit PROVE HooksOnce
  OBVIOUS
<1>1. ranks = <<>> /\ Len(ranks) = 0 /\ 1..Len(ranks) = {} /\ flying = {} /\ log = <<>> /\ forgot = {}
  BY EmptySeq DEF HooksInit
<1>2. Ended = {}
  BY <1>1, NoneIn DEF Ended
<1> QED BY <1>1, <1>2, NoneIn DEF HooksOnce, HookDue

LEMMA PublishFindingMove ==
  ASSUME HooksTypeOK, HooksOnce, NEW r \in Ranks, PublishFinding(r)
  PROVE  HooksOnce' /\ \E x : HookMove(x)
<1>0. Len(ranks) + 1 \in Nat
  BY HookTypes
<1> PICK x \in Nat : x = Len(ranks) + 1
  BY <1>0
<1> DEFINE fresh == {<<h, x>> : h \in {g \in DOMAIN minimum : r >= minimum[g]}}
<1>1. /\ ranks' = Append(ranks, r) /\ UNCHANGED <<minimum, log, forgot>> /\ Ended' = Ended
      /\ Len(ranks') = x /\ ranks'[x] = r /\ \A n \in 1..Len(ranks) : ranks'[n] = ranks[n]
      /\ flying' = flying \cup fresh
  BY HookTypes, AppendProperties DEF PublishFinding, Ended
<1>2. /\ \A n \in 1..x : n = x \/ n \in 1..Len(ranks)
      /\ \A n \in 1..Len(ranks) : n \in 1..x /\ n # x
      /\ x \in 1..x /\ x \notin 1..Len(ranks)
  BY HookTypes
<1>3. \A h : ~HookDue(h, x) /\ (HookDue(h, x)' <=> <<h, x>> \in fresh)
  BY <1>1, <1>2 DEF HookDue
<1>4. \A h, n : n # x => (HookDue(h, n)' <=> HookDue(h, n)) /\ <<h, n>> \notin fresh
  BY <1>1, <1>2 DEF HookDue
<1>5. \A h : <<h, x>> \notin flying /\ \A s \in Ended : s.attempt # <<h, x>>
  BY <1>3 DEF HooksOnce
<1> HIDE DEF fresh
<1>6. HookMove(x)
  <2> SUFFICES ASSUME NEW h, NEW n \in Nat \ {0}
               PROVE  \/ HookForm(h, n)' = HookForm(h, n)
                      \/ n = x /\ <<HookForm(h, n), HookForm(h, n)'>> \in Promise!Moves
    BY DEF HookMove
  <2>1. CASE n = x
    <3>1. HookForm(h, x) = "new"
      BY <1>3 DEF HookForm
    <3>2. HookForm(h, x)' \in {"new", "waiting"}
      BY <1>1, <1>3 DEF HookForm
    <3> QED BY <2>1, <3>1, <3>2 DEF Promise!Moves
  <2>2. CASE n # x
    BY <1>1, <1>4, <2>2 DEF HookForm
  <2> QED BY <2>1, <2>2
<1>7. HooksOnce'
  <2>1. \A s \in Ended : s.attempt \notin flying'
    BY <1>1, <1>5 DEF HooksOnce, fresh
  <2>2. \A h, n : HookDue(h, n)' <=>
          <<h, n>> \in flying' \/ \E s \in Ended : s.attempt = <<h, n>>
    <3> TAKE h, n
    <3>1. CASE n = x
      BY <1>1, <1>3, <1>5, <3>1
    <3>2. CASE n # x
      BY <1>1, <1>4, <3>2 DEF HooksOnce
    <3> QED BY <3>1, <3>2
  <2> QED BY <1>1, <2>1, <2>2 DEF HooksOnce
<1> QED BY <1>6, <1>7

LEMMA AttemptedMove ==
  ASSUME HooksTypeOK, HooksOnce, NEW a \in Attempts, Attempted(a)
  PROVE  HooksOnce' /\ \E x : HookMove(x)
<1> PICK success \in BOOLEAN :
      LET all == Append(log, [attempt |-> a, success |-> success]) IN
      IF Len(all) > LogSize
        THEN log' = Tail(all) /\ forgot' = forgot \cup {all[1]}
        ELSE log' = all /\ UNCHANGED forgot
  BY DEF Attempted
<1> PICK r \in Records : r = [attempt |-> a, success |-> success]
  BY DEF Records
<1>1. /\ a \in flying /\ flying' = flying \ {a} /\ UNCHANGED <<minimum, ranks>>
      /\ r.attempt = a
  BY DEF Attempted
<1>2. r \notin Ended
  BY <1>1 DEF HooksOnce
<1> PICK all \in Seq(Records) : all = Append(log, r)
  BY HookTypes, AppendProperties
<1>3. ToSet(all) = ToSet(log) \cup {r} /\ IsInjective(all)
  BY <1>2, HookTypes, AppendedFacts DEF HooksOnce, Ended
<1>4. all # <<>> /\ Head(all) = all[1]
  BY <1>3, NoneIn
<1>5. /\ ToSet(all) = ToSet(Tail(all)) \cup {all[1]} /\ IsInjective(Tail(all))
      /\ all[1] \notin ToSet(Tail(all))
  <2>1. /\ ToSet(all) = ToSet(Tail(all)) \cup {Head(all)} /\ IsInjective(Tail(all))
        /\ Head(all) \notin ToSet(Tail(all))
    BY <1>3, <1>4, TakenFacts
  <2> QED BY <1>4, <2>1
<1>6. ToSet(all) \cap forgot = {}
  BY <1>2, <1>3 DEF HooksOnce, Ended
<1>7. \/ log' = Tail(all) /\ forgot' = forgot \cup {all[1]}
      \/ log' = all /\ forgot' = forgot
  OBVIOUS
<1>8. Ended' = Ended \cup {r} /\ IsInjective(log') /\ ToSet(log') \cap forgot' = {}
  BY <1>3, <1>5, <1>6, <1>7 DEF Ended
<1>9. \A h, n : HookDue(h, n)' <=> HookDue(h, n)
  BY <1>1 DEF HookDue
<1>10. HooksOnce'
  <2>1. \A s, u \in Ended' : s.attempt = u.attempt => s = u
    BY <1>1, <1>8 DEF HooksOnce
  <2>2. \A s \in Ended' : s.attempt \notin flying'
    BY <1>1, <1>8 DEF HooksOnce
  <2>3. \A h, n : HookDue(h, n)' <=>
          <<h, n>> \in flying' \/ \E s \in Ended' : s.attempt = <<h, n>>
    BY <1>1, <1>8, <1>9 DEF HooksOnce
  <2> QED BY <1>8, <2>1, <2>2, <2>3 DEF HooksOnce
<1>11. PICK g, x : a = <<g, x>>
  BY DEF Attempts
<1>12. HookMove(x)
  <2> SUFFICES ASSUME NEW h, NEW n \in Nat \ {0}
               PROVE  \/ HookForm(h, n)' = HookForm(h, n)
                      \/ n = x /\ <<HookForm(h, n), HookForm(h, n)'>> \in Promise!Moves
    BY DEF HookMove
  <2>1. CASE <<h, n>> = a
    <3>1. HookDue(h, n)
      BY <1>1, <2>1 DEF HooksOnce
    <3>2. HookForm(h, n) = "waiting"
      BY <1>1, <2>1, <3>1 DEF HookForm
    <3>3. HookForm(h, n)' \in {"sent", "failed"}
      BY <1>1, <1>9, <2>1, <3>1 DEF HookForm
    <3> QED BY <1>11, <2>1, <3>2, <3>3 DEF Promise!Moves, Promise!Settled
  <2>2. CASE <<h, n>> # a
    BY <1>1, <1>8, <1>9, <2>2 DEF HookForm
  <2> QED BY <2>1, <2>2
<1> QED BY <1>10, <1>12

LEMMA HookMoves ==
  HooksTypeOK /\ HooksOnce /\ [HooksNext]_hookVars => HooksOnce' /\ \E x : HookMove(x)
<1> SUFFICES ASSUME HooksTypeOK, HooksOnce, [HooksNext]_hookVars
             PROVE  HooksOnce' /\ \E x : HookMove(x)
  OBVIOUS
<1>1. CASE UNCHANGED hookVars
  <2>1. HookMove(0)
    BY <1>1 DEF HookMove, HookForm, HookDue, Ended, hookVars
  <2>2. HooksOnce'
    BY <1>1 DEF HooksOnce, HookDue, Ended, hookVars
  <2> QED BY <2>1, <2>2
<1> QED BY <1>1, PublishFindingMove, AttemptedMove DEF HooksNext

-----------------------------------------------------------------------------
\* Where a job can be, for a channel of Notifications.
JobSpots == {"offering", "queue", "delivery", "sent", "failed", "dropped", "suppressed"}
JobAt(l, j) ==
  \/ l = "offering" /\ \E p \in Producers : j \in ToSet(offering[p])
  \/ l = "queue" /\ j \in ToSet(queue)
  \/ l = "delivery" /\ j = delivery.job
  \/ l = "sent" /\ j \in sent
  \/ l = "failed" /\ j \in failed
  \/ l = "dropped" /\ j \in dropped
  \/ l = "suppressed" /\ j \in suppressed
JobOnly(l, j) == \A k \in JobSpots : JobAt(k, j) <=> k = l
JobNowhere(j) == \A k \in JobSpots : ~JobAt(k, j)

\* A job of a finding that was reported is in one place, and once, or it was
\* lost when the manager was closed.
JobsOnce ==
  /\ Len(findings) <= MaxFindings
  /\ \A j \in Jobs : JobNowhere(j) \/ \E l \in JobSpots : JobOnly(l, j)
  /\ \A j \in Jobs : j[1] > Len(findings) => JobNowhere(j)
  /\ \A n \in 1..Len(findings) : \A c \in findings[n].routes : JobNowhere(<<n, c>>) => stop
  /\ IsInjective(queue) /\ \A p \in Producers : IsInjective(offering[p])
  /\ \A p, q \in Producers : p # q => ToSet(offering[p]) \cap ToSet(offering[q]) = {}
  /\ delivery.phase \notin {"sending", "waiting"} => delivery.job \notin Jobs

\* What a step does to a job: nothing, or it goes from one place to another, or
\* the closed manager's worker loses it.
JobKept(j) == \A k \in JobSpots : JobAt(k, j)' <=> JobAt(k, j)
JobRoutes ==
  {<<"new", "offering">>, <<"new", "suppressed">>, <<"offering", "queue">>,
   <<"offering", "dropped">>, <<"queue", "delivery">>, <<"delivery", "sent">>,
   <<"delivery", "failed">>}
JobGoes(j) ==
  \E r \in JobRoutes :
    /\ IF r[1] = "new" THEN j[1] > Len(findings) ELSE JobOnly(r[1], j)
    /\ JobOnly(r[2], j)'
JobLost(j) == stop' /\ JobOnly("delivery", j) /\ JobNowhere(j)'
JobMove(x) == \A j \in Jobs : JobKept(j) \/ (j[1] = x /\ (JobGoes(j) \/ JobLost(j)))

LEMMA JobTypes ==
  ASSUME NotificationsInv, Len(findings) <= MaxFindings
  PROVE  /\ findings \in Seq(Findings) /\ Len(findings) \in Nat
         /\ offering \in [Producers -> Seq(Jobs)] /\ queue \in Seq(Jobs)
         /\ sent \subseteq Jobs /\ failed \subseteq Jobs /\ dropped \subseteq Jobs
         /\ suppressed \subseteq Jobs
         /\ \A j \in Jobs : j[1] \in Nat /\ j[1] # 0 /\ j = <<j[1], j[2]>> /\ j # <<0, "none">>
         /\ \A n \in 1..Len(findings) : \A c \in findings[n].routes : <<n, c>> \in Jobs
         /\ <<0, "none">> \notin Jobs
         /\ delivery.phase \in {"sending", "waiting"} => delivery.job \in Jobs
<1>1. \A j \in Jobs : j[1] \in Nat /\ j[1] # 0 /\ j = <<j[1], j[2]>> /\ j # <<0, "none">>
  BY NotificationBounds DEF Jobs
<1>2. findings \in Seq(Findings) /\ Len(findings) \in Nat
  BY LenProperties DEF NotificationsInv, TypeOK
<1>3. \A n \in 1..Len(findings) : \A c \in findings[n].routes : <<n, c>> \in Jobs
  <2> TAKE n \in 1..Len(findings)
  <2>0. findings[n] \in Findings
    BY <1>2, ElementOfSeq
  <2>1. findings[n].routes \in Routings
    BY <2>0 DEF Findings
  <2>2. n \in 1..MaxFindings
    BY <1>2, NotificationBounds
  <2> QED BY <2>1, <2>2, NotificationBounds, ChannelFacts DEF Jobs
<1> QED BY <1>1, <1>2, <1>3 DEF NotificationsInv, TypeOK, HasJob

LEMMA RoutedOnce ==
  ASSUME TypeOK, NEW n \in 1..MaxFindings
  PROVE  IsInjective(Routed(n))
<1> DEFINE first == <<n, "email">>
           second == <<n, "telegram">>
<1>1. first # second /\ first \in Jobs /\ second \in Jobs /\ <<>> \in Seq(Jobs)
  BY ChannelFacts DEF Jobs
<1> HIDE DEF first, second
<1>2. ASSUME NEW j \in Jobs
      PROVE  <<j>> \in Seq(Jobs) /\ IsInjective(<<j>>) /\ ToSet(<<j>>) = {j}
  BY DEF IsInjective, ToSet
<1>3. /\ Append(<<first>>, second) = <<first>> \o <<second>>
      /\ IsInjective(Append(<<first>>, second))
  <2>1. second \notin ToSet(<<first>>)
    BY <1>1, <1>2
  <2>2. IsInjective(Append(<<first>>, second))
    BY <1>1, <1>2, <2>1, AppendedFacts
  <2> QED BY <1>1, <1>2, <2>2, AppendIsConcat
<1>4. /\ JobFor(n, "email") = IF "email" \in settings THEN <<first>> ELSE <<>>
      /\ JobFor(n, "telegram") = IF "telegram" \in settings THEN <<second>> ELSE <<>>
  BY DEF JobFor, first, second
<1>5. /\ <<first>> \o <<>> = <<first>> /\ <<>> \o <<second>> = <<second>>
      /\ <<>> \o <<>> = <<>>
  BY <1>1, <1>2, ConcatEmptySeq
<1> QED BY <1>1, <1>2, <1>3, <1>4, <1>5, NoneIn DEF Routed

LEMMA JobsInitOnce == Init => JobsOnce
<1> SUFFICES ASSUME Init PROVE JobsOnce
  OBVIOUS
<1>1. /\ findings = <<>> /\ Len(findings) = 0 /\ 1..Len(findings) = {}
      /\ \A p \in Producers : offering[p] = <<>> /\ queue = <<>>
      /\ delivery.job = <<0, "none">> /\ sent = {} /\ failed = {} /\ dropped = {}
      /\ suppressed = {}
  BY EmptySeq DEF Init, IdleWorker
<1>2. queue = <<>>
  BY DEF Init
<1>3. \A j \in Jobs : j # <<0, "none">>
  BY NotificationBounds DEF Jobs
<1>4. \A j \in Jobs : JobNowhere(j)
  BY <1>1, <1>2, <1>3, NoneIn DEF JobNowhere, JobAt
<1> QED BY <1>1, <1>2, <1>3, <1>4, NoneIn, NotificationBounds DEF JobsOnce

LEMMA JobAtRight ==
  ASSUME NotificationsInv, JobsOnce, NEW j \in Jobs, NEW l \in JobSpots, JobAt(l, j)
  PROVE  JobOnly(l, j) /\ ~(j[1] > Len(findings))
<1>1. ~JobNowhere(j)
  BY DEF JobNowhere
<1>2. PICK k \in JobSpots : JobOnly(k, j)
  BY <1>1 DEF JobsOnce
<1> QED BY <1>1, <1>2 DEF JobsOnce, JobOnly

\* A step that reports nothing keeps every job in one place.
LEMMA JobsOnceKept ==
  ASSUME NotificationsInv, JobsOnce, NEW x, JobMove(x), findings' = findings, stop => stop',
         \A j \in Jobs : j[1] > Len(findings) => JobKept(j),
         IsInjective(queue'), \A p \in Producers : IsInjective(offering'[p]),
         \A p, q \in Producers : p # q => ToSet(offering'[p]) \cap ToSet(offering'[q]) = {},
         delivery'.phase \notin {"sending", "waiting"} => delivery'.job \notin Jobs
  PROVE  JobsOnce'
<1>1. ASSUME NEW j \in Jobs
      PROVE  /\ JobNowhere(j)' \/ \E l \in JobSpots : JobOnly(l, j)'
             /\ JobNowhere(j)' => stop' \/ JobNowhere(j)
  <2>1. CASE JobKept(j)
    BY <2>1 DEF JobsOnce, JobKept, JobOnly, JobNowhere
  <2>2. CASE JobGoes(j)
    <3>1. PICK r \in JobRoutes : JobOnly(r[2], j)'
      BY <2>2 DEF JobGoes
    <3>2. r[2] \in JobSpots
      BY DEF JobRoutes, JobSpots
    <3> QED BY <3>1, <3>2 DEF JobOnly, JobNowhere
  <2>3. CASE JobLost(j)
    BY <2>3 DEF JobLost
  <2> QED BY <2>1, <2>2, <2>3 DEF JobMove
<1>2. \A j \in Jobs : j[1] > Len(findings) => JobNowhere(j)'
  BY DEF JobsOnce, JobKept, JobNowhere
<1>3. \A n \in 1..Len(findings) : \A c \in findings[n].routes : <<n, c>> \in Jobs
  BY JobTypes DEF JobsOnce
<1>4. \A n \in 1..Len(findings) : \A c \in findings[n].routes : JobNowhere(<<n, c>>)' => stop'
  BY <1>1, <1>3 DEF JobsOnce
<1> QED BY <1>1, <1>2, <1>4 DEF JobsOnce

LEMMA EnqueueMove ==
  ASSUME NotificationsInv, JobsOnce, NEW p \in Producers, NEW k \in Keys, Enqueue(p, k)
  PROVE  JobsOnce' /\ \E x : JobMove(x)
<1>0. Len(findings) + 1 \in 1..MaxFindings
  BY JobTypes, NotificationBounds DEF Enqueue, Reported, JobsOnce
<1> PICK N \in 1..MaxFindings : N = Len(findings) + 1
  BY <1>0
<1> PICK new \in Findings : new = [key |-> k, routes |-> settings]
  BY DEF Findings, NotificationsInv, TypeOK
<1> DEFINE fresh == {<<N, c>> : c \in settings}
<1>1. /\ findings' = Append(findings, new) /\ Len(findings') = N /\ findings'[N].routes = settings
      /\ \A n \in 1..Len(findings) : findings'[n] = findings[n]
      /\ UNCHANGED <<queue, delivery, stop, sent, failed, dropped>>
  BY JobTypes, AppendProperties DEF Enqueue, Reported, delivering, JobsOnce
<1>2. /\ ToSet(Routed(N)) = fresh /\ Routed(N) \in Seq(Jobs) /\ IsInjective(Routed(N))
      /\ offering[p] = <<>> /\ fresh \subseteq Jobs
  <2>1. settings \subseteq {"email", "telegram"}
    BY NotificationBounds DEF NotificationsInv, TypeOK
  <2> QED BY <2>1, RoutedFacts, RoutedOnce, ChannelFacts DEF NotificationsInv, Enqueue, Jobs
<1>3. \/ suppressed' = suppressed \cup fresh /\ offering' = offering
      \/ offering' = [offering EXCEPT ![p] = Routed(N)] /\ suppressed' = suppressed
  BY <1>1, <1>2 DEF Enqueue
<1>4. \A j \in fresh : j[1] = N /\ j[1] > Len(findings) /\ JobNowhere(j)
  BY <1>2, JobTypes DEF JobsOnce
<1>5. \A q \in Producers : ToSet(offering[q]) \cap fresh = {}
  BY <1>2, <1>4 DEF JobNowhere, JobAt, JobSpots
<1>6. /\ \A q \in Producers : q # p => offering'[q] = offering[q]
      /\ offering'[p] = offering[p] \/ offering'[p] = Routed(N)
  BY <1>3, JobTypes DEF JobsOnce
<1> HIDE DEF fresh
<1>7. ASSUME NEW j \in Jobs, j \notin fresh PROVE JobKept(j)
  <2>1. (\E q \in Producers : j \in ToSet(offering'[q]))
          <=> \E q \in Producers : j \in ToSet(offering[q])
    BY <1>2, <1>3, <1>6, <1>7, NoneIn
  <2>2. j \in suppressed' <=> j \in suppressed
    BY <1>3, <1>7
  <2> QED BY <1>1, <2>1, <2>2 DEF JobKept, JobAt
<1>8. ASSUME NEW j \in fresh PROVE JobGoes(j)
  <2>1. /\ \A q \in Producers : j \notin ToSet(offering[q])
        /\ j \notin ToSet(queue) /\ j # delivery.job /\ j \notin sent /\ j \notin failed
        /\ j \notin dropped /\ j \notin suppressed
    BY <1>4 DEF JobNowhere, JobAt, JobSpots
  <2>2. CASE suppressed' = suppressed \cup fresh /\ offering' = offering
    <3>1. \A l \in JobSpots : JobAt(l, j)' <=> l = "suppressed"
      BY <1>1, <2>1, <2>2 DEF JobAt, JobSpots
    <3>2. JobOnly("suppressed", j)'
      BY <3>1 DEF JobOnly
    <3> QED BY <1>4, <3>2 DEF JobGoes, JobRoutes
  <2>3. CASE offering' = [offering EXCEPT ![p] = Routed(N)] /\ suppressed' = suppressed
    <3>1. j \in ToSet(offering'[p])
      BY <1>2, <2>3, JobTypes DEF JobsOnce
    <3>2. \A l \in JobSpots : JobAt(l, j)' <=> l = "offering"
      BY <1>1, <2>1, <2>3, <3>1 DEF JobAt, JobSpots
    <3>3. JobOnly("offering", j)'
      BY <3>2 DEF JobOnly
    <3> QED BY <1>4, <3>3 DEF JobGoes, JobRoutes
  <2> QED BY <1>3, <2>2, <2>3
<1>9. JobMove(N)
  BY <1>4, <1>7, <1>8 DEF JobMove
<1>10. JobsOnce'
  <2>1. ASSUME NEW j \in Jobs PROVE JobNowhere(j)' \/ \E l \in JobSpots : JobOnly(l, j)'
    <3>1. CASE j \in fresh
      <4>1. PICK r \in JobRoutes : JobOnly(r[2], j)'
        BY <1>8, <3>1 DEF JobGoes
      <4>2. r[2] \in JobSpots
        BY DEF JobRoutes, JobSpots
      <4> QED BY <4>1, <4>2
    <3>2. CASE j \notin fresh
      BY <1>7, <3>2 DEF JobsOnce, JobKept, JobOnly, JobNowhere
    <3> QED BY <3>1, <3>2
  <2>2. ASSUME NEW j \in Jobs, j[1] > Len(findings') PROVE JobNowhere(j)'
    <3>1. j \notin fresh /\ j[1] > Len(findings)
      BY <1>1, <1>4, <2>2, JobTypes DEF JobsOnce
    <3> QED BY <1>7, <3>1 DEF JobsOnce, JobKept, JobNowhere
  <2>3. ASSUME NEW n \in 1..Len(findings'), NEW c \in findings'[n].routes, JobNowhere(<<n, c>>)'
        PROVE  stop'
    <3>1. CASE n = N
      <4>1. <<n, c>> \in fresh
        BY <1>1, <3>1 DEF fresh
      <4>2. PICK r \in JobRoutes : JobOnly(r[2], <<n, c>>)'
        BY <1>8, <4>1 DEF JobGoes
      <4>3. r[2] \in JobSpots
        BY DEF JobRoutes, JobSpots
      <4> QED BY <2>3, <4>2, <4>3 DEF JobOnly, JobNowhere
    <3>2. CASE n # N
      <4>1. n \in 1..Len(findings) /\ c \in findings[n].routes
        BY <1>1, <3>2, JobTypes DEF JobsOnce
      <4>2. <<n, c>> \in Jobs /\ <<n, c>> \notin fresh
        BY <1>4, <3>2, <4>1, JobTypes DEF JobsOnce
      <4> QED BY <1>1, <1>7, <2>3, <4>1, <4>2 DEF JobsOnce, JobKept, JobNowhere
    <3> QED BY <3>1, <3>2
  <2>4. \A q \in Producers : IsInjective(offering'[q])
    BY <1>2, <1>6 DEF JobsOnce
  <2>5. \A q, u \in Producers : q # u => ToSet(offering'[q]) \cap ToSet(offering'[u]) = {}
    BY <1>2, <1>5, <1>6 DEF JobsOnce
  <2>6. Len(findings') <= MaxFindings
    BY <1>1, NotificationBounds
  <2> QED BY <1>1, <2>1, <2>2, <2>3, <2>4, <2>5, <2>6 DEF JobsOnce
<1> QED BY <1>9, <1>10

LEMMA OfferMove ==
  ASSUME NotificationsInv, JobsOnce, NEW p \in Producers, Offer(p)
  PROVE  JobsOnce' /\ \E x : JobMove(x)
<1>0. /\ offering[p] # <<>> /\ offering[p] \in Seq(Jobs) /\ IsInjective(offering[p])
      /\ Head(offering[p]) \in Jobs /\ queue \in Seq(Jobs) /\ IsInjective(queue)
  BY JobTypes, TakenFacts DEF Offer, JobsOnce
<1> PICK j \in Jobs : j = Head(offering[p])
  BY <1>0
<1>1. /\ UNCHANGED <<findings, suppressed, delivery, stop, sent, failed>>
      /\ offering' = [offering EXCEPT ![p] = Tail(offering[p])]
      /\ \/ queue' = Append(queue, j) /\ dropped' = dropped
         \/ dropped' = dropped \cup {j} /\ queue' = queue
  BY DEF Offer
<1>2. offering'[p] = Tail(offering[p]) /\ \A q \in Producers : q # p => offering'[q] = offering[q]
  BY <1>1, JobTypes DEF JobsOnce
<1>3. /\ ToSet(offering[p]) = ToSet(offering'[p]) \cup {j} /\ IsInjective(offering'[p])
      /\ j \notin ToSet(offering'[p])
  BY <1>0, <1>2, TakenFacts
<1>4. "offering" \in JobSpots /\ JobAt("offering", j)
  BY <1>3 DEF JobAt, JobSpots
<1>5. JobOnly("offering", j) /\ ~(j[1] > Len(findings))
  BY <1>4, JobAtRight
<1>6. /\ j \notin ToSet(queue) /\ j # delivery.job /\ j \notin sent /\ j \notin failed
      /\ j \notin dropped /\ j \notin suppressed
  BY <1>5 DEF JobOnly, JobAt, JobSpots
<1>7. ToSet(Append(queue, j)) = ToSet(queue) \cup {j} /\ IsInjective(queue')
  <2>1. ToSet(Append(queue, j)) = ToSet(queue) \cup {j} /\ IsInjective(Append(queue, j))
    BY <1>0, <1>6, AppendedFacts
  <2> QED BY <1>0, <1>1, <2>1
<1>8. \A q \in Producers : j \notin ToSet(offering'[q])
  BY <1>2, <1>3 DEF JobsOnce
<1>9. ASSUME NEW i \in Jobs, i # j PROVE JobKept(i)
  <2>1. \A q \in Producers : i \in ToSet(offering'[q]) <=> i \in ToSet(offering[q])
    BY <1>2, <1>3, <1>9
  <2>2. (i \in ToSet(queue') <=> i \in ToSet(queue)) /\ (i \in dropped' <=> i \in dropped)
    BY <1>1, <1>7, <1>9
  <2> QED BY <1>1, <2>1, <2>2 DEF JobKept, JobAt
<1>10. JobGoes(j)
  <2>1. CASE queue' = Append(queue, j) /\ dropped' = dropped
    <3>1. \A l \in JobSpots : JobAt(l, j)' <=> l = "queue"
      BY <1>1, <1>6, <1>7, <1>8, <2>1 DEF JobAt, JobSpots
    <3>2. JobOnly("queue", j)'
      BY <3>1 DEF JobOnly
    <3> QED BY <1>5, <3>2 DEF JobGoes, JobRoutes
  <2>2. CASE dropped' = dropped \cup {j} /\ queue' = queue
    <3>1. \A l \in JobSpots : JobAt(l, j)' <=> l = "dropped"
      BY <1>1, <1>6, <1>8, <2>2 DEF JobAt, JobSpots
    <3>2. JobOnly("dropped", j)'
      BY <3>1 DEF JobOnly
    <3> QED BY <1>5, <3>2 DEF JobGoes, JobRoutes
  <2> QED BY <1>1, <2>1, <2>2
<1>11. JobMove(j[1])
  BY <1>9, <1>10 DEF JobMove
<1>12. \A i \in Jobs : i[1] > Len(findings) => JobKept(i)
  BY <1>5, <1>9
<1>13. \A q \in Producers : IsInjective(offering'[q])
  BY <1>2, <1>3 DEF JobsOnce
<1>14. \A q, u \in Producers : q # u => ToSet(offering'[q]) \cap ToSet(offering'[u]) = {}
  BY <1>2, <1>3 DEF JobsOnce
<1>15. (stop => stop') /\ (delivery'.phase \notin {"sending", "waiting"} => delivery'.job \notin Jobs)
  BY <1>1 DEF JobsOnce
<1> QED BY <1>1, <1>7, <1>11, <1>12, <1>13, <1>14, <1>15, JobsOnceKept

\* The worker's steps, and those of the others, leave what is offered alone.
LEMMA DeliveryMove ==
  ASSUME NotificationsInv, JobsOnce, UNCHANGED <<findings, offering, dropped, suppressed>>,
         stop => stop', NEW j \in Jobs, \A i \in Jobs : i # j => JobKept(i),
         JobKept(j) \/ ((JobGoes(j) \/ JobLost(j)) /\ ~(j[1] > Len(findings))),
         IsInjective(queue'), delivery'.phase \notin {"sending", "waiting"} => delivery'.job \notin Jobs
  PROVE  JobsOnce' /\ \E x : JobMove(x)
<1>1. JobMove(j[1])
  BY DEF JobMove
<1>2. \A i \in Jobs : i[1] > Len(findings) => JobKept(i)
  OBVIOUS
<1>3. /\ \A q \in Producers : IsInjective(offering'[q])
      /\ \A q, u \in Producers : q # u => ToSet(offering'[q]) \cap ToSet(offering'[u]) = {}
  BY DEF JobsOnce
<1> QED BY <1>1, <1>2, <1>3, JobsOnceKept

LEMMA JobsStay ==
  ASSUME NotificationsInv, JobsOnce, stop => stop',
         UNCHANGED <<findings, offering, queue, delivery, sent, failed, dropped, suppressed>>
         \/ WaitEnds
  PROVE  JobsOnce' /\ \E x : JobMove(x)
<1>1. /\ UNCHANGED <<findings, offering, queue, sent, failed, dropped, suppressed>>
      /\ delivery'.job = delivery.job
      /\ delivery'.phase \notin {"sending", "waiting"} => delivery'.job \notin Jobs
  BY DEF WaitEnds, counting, JobsOnce, NotificationsInv, TypeOK
<1>2. \A j \in Jobs : JobKept(j)
  BY <1>1 DEF JobKept, JobAt
<1>3. JobMove(0)
  BY <1>2 DEF JobMove
<1>4. /\ IsInjective(queue') /\ \A q \in Producers : IsInjective(offering'[q])
      /\ \A q, u \in Producers : q # u => ToSet(offering'[q]) \cap ToSet(offering'[u]) = {}
  BY <1>1 DEF JobsOnce
<1> QED BY <1>1, <1>2, <1>3, <1>4, JobsOnceKept

LEMMA TakeMove ==
  ASSUME NotificationsInv, JobsOnce, Take
  PROVE  JobsOnce' /\ \E x : JobMove(x)
<1>0. /\ queue # <<>> /\ queue \in Seq(Jobs) /\ IsInjective(queue) /\ Head(queue) \in Jobs
      /\ delivery.job \notin Jobs
  BY JobTypes, TakenFacts DEF Take, JobsOnce
<1> PICK j \in Jobs : j = Head(queue)
  BY <1>0
<1>1. /\ UNCHANGED <<findings, offering, dropped, suppressed, stop, sent, failed>>
      /\ queue' = Tail(queue) /\ delivery'.job = j /\ delivery'.phase = "sending"
  BY DEF Take, counting
<1>2. ToSet(queue) = ToSet(queue') \cup {j} /\ IsInjective(queue') /\ j \notin ToSet(queue')
  BY <1>0, <1>1, TakenFacts
<1>3. "queue" \in JobSpots /\ JobAt("queue", j)
  BY <1>2 DEF JobAt, JobSpots
<1>4. JobOnly("queue", j) /\ ~(j[1] > Len(findings))
  BY <1>3, JobAtRight
<1>5. \A i \in Jobs : i # j => JobKept(i)
  BY <1>0, <1>1, <1>2 DEF JobKept, JobAt
<1>6. \A l \in JobSpots : JobAt(l, j)' <=> l = "delivery"
  BY <1>1, <1>2, <1>4 DEF JobAt, JobSpots, JobOnly
<1>7. JobOnly("delivery", j)'
  BY <1>6 DEF JobOnly
<1>8. JobGoes(j)
  BY <1>4, <1>7 DEF JobGoes, JobRoutes
<1> QED BY <1>1, <1>2, <1>4, <1>5, <1>8, DeliveryMove

\* The worker is done with its job: it sent it, gave up, or returned to its loop.
LEMMA DoneMove ==
  ASSUME NotificationsInv, JobsOnce, NEW j \in Jobs, delivery.job = j,
         UNCHANGED <<findings, offering, dropped, suppressed, stop, queue>>,
         delivery' = IdleWorker,
         \/ sent' = sent \cup {j} /\ failed' = failed
         \/ failed' = failed \cup {j} /\ sent' = sent
         \/ sent' = sent /\ failed' = failed /\ stop
  PROVE  JobsOnce' /\ \E x : JobMove(x)
<1>1. delivery'.job = <<0, "none">> /\ delivery'.job \notin Jobs /\ IsInjective(queue')
  BY JobTypes DEF IdleWorker, JobsOnce
<1>2. "delivery" \in JobSpots /\ JobAt("delivery", j)
  BY DEF JobAt, JobSpots
<1>3. JobOnly("delivery", j) /\ ~(j[1] > Len(findings))
  BY <1>2, JobAtRight
<1>4. ASSUME NEW i \in Jobs, i # j PROVE JobKept(i)
  <2>1. i # delivery'.job /\ i # delivery.job
    BY <1>1, <1>4
  <2>2. (i \in sent' <=> i \in sent) /\ (i \in failed' <=> i \in failed)
    BY <1>4
  <2> QED BY <2>1, <2>2 DEF JobKept, JobAt
<1>5. j # delivery'.job
  BY <1>1
<1>6. CASE sent' = sent \cup {j} /\ failed' = failed
  <2>1. \A l \in JobSpots : JobAt(l, j)' <=> l = "sent"
    BY <1>3, <1>5, <1>6 DEF JobAt, JobSpots, JobOnly
  <2>2. JobOnly("sent", j)'
    BY <2>1 DEF JobOnly
  <2>3. JobGoes(j)
    BY <1>3, <2>2 DEF JobGoes, JobRoutes
  <2> QED BY <1>1, <1>3, <1>4, <2>3, DeliveryMove
<1>7. CASE failed' = failed \cup {j} /\ sent' = sent
  <2>1. \A l \in JobSpots : JobAt(l, j)' <=> l = "failed"
    BY <1>3, <1>5, <1>7 DEF JobAt, JobSpots, JobOnly
  <2>2. JobOnly("failed", j)'
    BY <2>1 DEF JobOnly
  <2>3. JobGoes(j)
    BY <1>3, <2>2 DEF JobGoes, JobRoutes
  <2> QED BY <1>1, <1>3, <1>4, <2>3, DeliveryMove
<1>8. CASE sent' = sent /\ failed' = failed /\ stop
  <2>1. \A l \in JobSpots : ~(JobAt(l, j)')
    BY <1>3, <1>5, <1>8 DEF JobAt, JobSpots, JobOnly
  <2>2. JobLost(j)
    BY <1>3, <1>8, <2>1 DEF JobLost, JobNowhere
  <2> QED BY <1>1, <1>3, <1>4, <2>2, DeliveryMove
<1> QED BY <1>6, <1>7, <1>8

LEMMA JobMoves ==
  NotificationsInv /\ JobsOnce /\ [Next]_vars => JobsOnce' /\ \E x : JobMove(x)
<1> SUFFICES ASSUME NotificationsInv, JobsOnce, [Next]_vars
             PROVE  JobsOnce' /\ \E x : JobMove(x)
  OBVIOUS
<1>1. ASSUME delivery.phase \in {"sending", "waiting"} PROVE delivery.job \in Jobs
  BY <1>1, JobTypes DEF JobsOnce
<1>2. CASE Close \/ Update \/ (\E k \in Keys : CooldownEnds(k)) \/ WaitEnds \/ UNCHANGED vars
  <2>1. CASE WaitEnds
    BY <2>1, JobsStay DEF WaitEnds
  <2>2. CASE Close \/ Update \/ (\E k \in Keys : CooldownEnds(k)) \/ UNCHANGED vars
    <3>1. /\ UNCHANGED <<findings, offering, queue, delivery, sent, failed, dropped, suppressed>>
          /\ stop => stop'
      <4>1. CASE Close
        BY <4>1 DEF Close, counting
      <4>2. CASE Update
        BY <4>2 DEF Update, delivering
      <4>3. CASE \E k \in Keys : CooldownEnds(k)
        BY <4>3 DEF CooldownEnds, delivering
      <4>4. CASE UNCHANGED vars
        BY <4>4 DEF vars, counting, delivering
      <4> QED BY <2>2, <4>1, <4>2, <4>3, <4>4
    <3> QED BY <3>1, JobsStay
  <2> QED BY <1>2, <2>1, <2>2
<1>3. CASE SendSucceeds
  BY <1>1, <1>3, DoneMove DEF SendSucceeds, counting
<1>4. CASE SendFails
  <2>1. CASE delivery.tries > 1
    <3>1. /\ UNCHANGED <<findings, offering, queue, sent, failed, dropped, suppressed, stop>>
          /\ delivery'.job = delivery.job /\ delivery'.phase = "waiting"
      BY <1>4, <2>1 DEF SendFails, counting, NotificationsInv, TypeOK
    <3>2. \A j \in Jobs : JobKept(j)
      BY <3>1 DEF JobKept, JobAt
    <3>3. delivery.job \in Jobs
      BY <1>1, <1>4 DEF SendFails
    <3>4. IsInjective(queue')
      BY <3>1 DEF JobsOnce
    <3> QED BY <3>1, <3>2, <3>3, <3>4, DeliveryMove
  <2>2. CASE ~(delivery.tries > 1)
    BY <1>1, <1>4, <2>2, DoneMove DEF SendFails, counting
  <2> QED BY <2>1, <2>2
<1>5. CASE WorkerStops
  <2>1. CASE delivery.phase = "waiting" /\ delivery' = IdleWorker
    BY <1>1, <1>5, <2>1, DoneMove DEF WorkerStops, counting
  <2>2. CASE delivery.phase = "select" /\ delivery' = [IdleWorker EXCEPT !.phase = "exited"]
    <3>1. /\ UNCHANGED <<findings, offering, queue, sent, failed, dropped, suppressed, stop>>
          /\ delivery'.job = <<0, "none">> /\ delivery'.phase = "exited"
      BY <1>5, <2>2 DEF WorkerStops, counting, IdleWorker
    <3>2. delivery.job \notin Jobs /\ delivery'.job \notin Jobs
      BY <2>2, <3>1, JobTypes DEF JobsOnce
    <3>3. \A j \in Jobs : JobKept(j)
      BY <3>1, <3>2 DEF JobKept, JobAt
    <3>4. /\ IsInjective(queue') /\ \A q \in Producers : IsInjective(offering'[q])
          /\ \A q, u \in Producers : q # u => ToSet(offering'[q]) \cap ToSet(offering'[u]) = {}
      BY <3>1 DEF JobsOnce
    <3>5. JobMove(0)
      BY <3>3 DEF JobMove
    <3> QED BY <3>1, <3>2, <3>3, <3>4, <3>5, JobsOnceKept
  <2> QED BY <1>5, <2>1, <2>2 DEF WorkerStops
<1> QED BY <1>2, <1>3, <1>4, <1>5, TakeMove, OfferMove, EnqueueMove DEF Next, Deliver

\* What an outlet sees of a job.
JobForm(l) == IF l \in {"sent", "failed", "dropped", "suppressed"} THEN l ELSE "waiting"
Reports(n, c) == n \in 1..Len(findings) /\ c \in findings[n].routes

\* A place is what the step lemmas say it is, before a step and after it.
JobPlaces ==
  /\ \A j \in Jobs : j[1] > Len(findings) => JobNowhere(j)
  /\ \A c : \A n \in Nat \ {0} : ~Reports(n, c) => PlaceOf(c, n) = "new"
  /\ \A c : \A n \in Nat \ {0} : Reports(n, c) =>
       /\ <<n, c>> \in Jobs
       /\ \/ \E l \in JobSpots : JobOnly(l, <<n, c>>) /\ PlaceOf(c, n) = JobForm(l)
          \/ stop /\ JobNowhere(<<n, c>>) /\ PlaceOf(c, n) = "forgotten"

LEMMA ContainsFacts ==
  ASSUME NEW S, NEW s \in Seq(S), NEW x
  PROVE  Contains(s, x) <=> x \in ToSet(s)
  BY LenProperties DEF Contains, ToSet

LEMMA JobPlacesHold == NotificationsInv /\ JobsOnce => JobPlaces
<1> SUFFICES ASSUME NotificationsInv, JobsOnce PROVE JobPlaces
  OBVIOUS
<1>1. ASSUME NEW c, NEW n \in Nat \ {0}, ~Reports(n, c) PROVE PlaceOf(c, n) = "new"
  <2>1. n > Len(findings) \/ c \notin findings[n].routes
    BY <1>1, JobTypes DEF Reports, JobsOnce
  <2> QED BY <2>1 DEF PlaceOf
<1>2. ASSUME NEW c, NEW n \in Nat \ {0}, Reports(n, c)
      PROVE  /\ <<n, c>> \in Jobs
             /\ \/ \E l \in JobSpots : JobOnly(l, <<n, c>>) /\ PlaceOf(c, n) = JobForm(l)
                \/ stop /\ JobNowhere(<<n, c>>) /\ PlaceOf(c, n) = "forgotten"
  <2>1. <<n, c>> \in Jobs /\ ~(n > Len(findings) \/ c \notin findings[n].routes)
    BY <1>2, JobTypes DEF Reports, JobsOnce
  <2> PICK j \in Jobs : j = <<n, c>>
    BY <2>1
  <2>2. PlaceOf(c, n) =
          IF OnItsWay(j) THEN IF Ends(j) = {} THEN "waiting" ELSE "torn"
          ELSE IF Cardinality(Ends(j)) = 1 THEN CHOOSE end \in Ends(j) : TRUE
          ELSE IF Ends(j) = {} /\ stop THEN "forgotten" ELSE "torn"
    BY <2>1 DEF PlaceOf
  <2>3. OnItsWay(j) <=> JobAt("offering", j) \/ JobAt("queue", j) \/ JobAt("delivery", j)
    <3>1. \A p \in Producers : Contains(offering[p], j) <=> j \in ToSet(offering[p])
      BY ContainsFacts, JobTypes DEF JobsOnce
    <3>2. Contains(queue, j) <=> j \in ToSet(queue)
      BY ContainsFacts, JobTypes DEF JobsOnce
    <3> QED BY <3>1, <3>2 DEF OnItsWay, JobAt
  <2>4. Ends(j) = {l \in {"sent", "failed", "dropped", "suppressed"} : JobAt(l, j)}
    BY DEF Ends, JobAt
  <2>5. CASE JobNowhere(j)
    <3>1. stop
      BY <1>2, <2>5 DEF JobsOnce, Reports
    <3>2. ~OnItsWay(j) /\ Ends(j) = {}
      BY <2>3, <2>4, <2>5 DEF JobNowhere, JobSpots
    <3>3. Cardinality(Ends(j)) # 1
      BY <3>2, FS_EmptySet
    <3> QED BY <2>1, <2>2, <2>5, <3>1, <3>2, <3>3
  <2>6. ASSUME NEW l \in JobSpots, JobOnly(l, j) PROVE PlaceOf(c, n) = JobForm(l)
    <3>1. CASE l \in {"offering", "queue", "delivery"}
      <4>1. OnItsWay(j) /\ Ends(j) = {}
        BY <2>3, <2>4, <2>6, <3>1 DEF JobOnly, JobSpots
      <4> QED BY <2>2, <3>1, <4>1 DEF JobForm
    <3>2. CASE l \notin {"offering", "queue", "delivery"}
      <4>1. ~OnItsWay(j) /\ Ends(j) = {l}
        BY <2>3, <2>4, <2>6, <3>2 DEF JobOnly, JobSpots
      <4>2. Cardinality(Ends(j)) = 1 /\ (CHOOSE end \in Ends(j) : TRUE) = l
        <5>1. Cardinality({l}) = 1
          BY FS_Singleton
        <5> QED BY <4>1, <5>1
      <4> QED BY <2>2, <3>2, <4>1, <4>2 DEF JobForm, JobSpots
    <3> QED BY <3>1, <3>2
  <2> QED BY <2>5, <2>6 DEF JobsOnce
<1> QED BY <1>1, <1>2 DEF JobPlaces, JobsOnce

\* The findings reported stay as they are.
Grows ==
  /\ Len(findings) \in Nat /\ Len(findings') \in Nat /\ Len(findings) <= Len(findings')
  /\ \A n \in 1..Len(findings) : findings'[n] = findings[n]
  /\ stop => stop'

LEMMA NotificationsGrow == NotificationsInv /\ [Next]_vars => Grows
<1> SUFFICES ASSUME NotificationsInv, [Next]_vars PROVE Grows
  OBVIOUS
<1>1. findings \in Seq(Findings) /\ Len(findings) \in Nat
  BY LenProperties DEF NotificationsInv, TypeOK
<1>2. stop => stop'
  BY DEF Next, Offer, Enqueue, CooldownEnds, Deliver, Take, SendSucceeds, SendFails, WaitEnds,
         WorkerStops, Close, Update, vars, counting, delivering
<1>3. CASE findings' = findings
  BY <1>1, <1>2, <1>3 DEF Grows
<1>4. CASE \E p \in Producers, k \in Keys : Enqueue(p, k)
  <2> PICK k \in Keys : findings' = Append(findings, [key |-> k, routes |-> settings])
    BY <1>4 DEF Enqueue, Reported
  <2>1. [key |-> k, routes |-> settings] \in Findings
    BY DEF Findings, NotificationsInv, TypeOK
  <2> QED BY <1>1, <1>2, <2>1, AppendProperties DEF Grows
<1>5. findings' = findings \/ \E p \in Producers, k \in Keys : Enqueue(p, k)
  BY DEF Next, Offer, CooldownEnds, Deliver, Take, SendSucceeds, SendFails, WaitEnds,
         WorkerStops, Close, Update, vars, counting, delivering
<1> QED BY <1>3, <1>4, <1>5

LEMMA JobPlaceMoves ==
  ASSUME JobPlaces, JobPlaces', Grows, NEW x, JobMove(x), NEW c, NEW n \in Nat \ {0}
  PROVE  \/ PlaceOf(c, n)' = PlaceOf(c, n)
         \/ n = x /\ <<PlaceOf(c, n), PlaceOf(c, n)'>> \in Promise!Moves
         \/ PlaceOf(c, n)' = "forgotten" /\ stop' /\ PlaceOf(c, n) \in {"new", "waiting"}
<1>1. Reports(n, c) => Reports(n, c)'
  BY DEF Reports, Grows
<1>2. CASE ~(Reports(n, c)')
  BY <1>1, <1>2 DEF JobPlaces
<1>3. CASE Reports(n, c)'
  <2>1. <<n, c>> \in Jobs
    BY <1>3 DEF JobPlaces
  <2> PICK j \in Jobs : j = <<n, c>>
    BY <2>1
  <2>2. \/ \E l \in JobSpots : JobOnly(l, j)' /\ PlaceOf(c, n)' = JobForm(l)
        \/ stop' /\ JobNowhere(j)' /\ PlaceOf(c, n)' = "forgotten"
    BY <1>3 DEF JobPlaces
  <2>3. CASE ~Reports(n, c)
    <3>1. PlaceOf(c, n) = "new"
      BY <2>3 DEF JobPlaces
    <3>2. j[1] > Len(findings) /\ JobNowhere(j)
      <4>1. n > Len(findings)
        BY <1>3, <2>3 DEF Reports, Grows
      <4> QED BY <4>1 DEF JobPlaces
    <3>3. ASSUME NEW l \in JobSpots, JobOnly(l, j)'
          PROVE  n = x /\ l \in {"offering", "suppressed"}
      <4>1. ~JobKept(j) /\ ~JobLost(j)
        BY <3>2, <3>3 DEF JobKept, JobLost, JobOnly, JobNowhere, JobSpots
      <4>2. JobGoes(j) /\ n = x
        BY <4>1 DEF JobMove
      <4>3. PICK r \in JobRoutes : /\ IF r[1] = "new" THEN j[1] > Len(findings) ELSE JobOnly(r[1], j)
                                 /\ JobOnly(r[2], j)'
        BY <4>2 DEF JobGoes
      <4>4. r[2] \in JobSpots /\ (r[1] = "new" \/ r[1] \in JobSpots)
        BY DEF JobRoutes, JobSpots
      <4>5. r[1] = "new" /\ l = r[2]
        BY <3>2, <3>3, <4>3, <4>4 DEF JobOnly, JobNowhere
      <4> QED BY <4>2, <4>5 DEF JobRoutes
    <3> QED BY <2>2, <3>1, <3>3 DEF JobForm, Promise!Moves, Promise!Settled
  <2>4. CASE Reports(n, c)
    <3>1. \/ \E l \in JobSpots : JobOnly(l, j) /\ PlaceOf(c, n) = JobForm(l)
          \/ stop /\ JobNowhere(j) /\ PlaceOf(c, n) = "forgotten"
      BY <2>4 DEF JobPlaces
    <3>2. CASE JobKept(j)
      <4>1. JobNowhere(j) => JobNowhere(j)'
        BY <3>2 DEF JobKept, JobNowhere
      <4>2. \A l \in JobSpots : JobOnly(l, j) => JobOnly(l, j)'
        BY <3>2 DEF JobKept, JobOnly
      <4>3. \A l, k \in JobSpots : JobOnly(l, j)' /\ JobOnly(k, j)' => l = k
        BY DEF JobOnly
      <4>4. \A l \in JobSpots : ~(JobOnly(l, j)' /\ JobNowhere(j)')
        BY DEF JobOnly, JobNowhere
      <4> QED BY <2>2, <3>1, <4>1, <4>2, <4>3, <4>4
    <3>3. CASE JobGoes(j) /\ n = x
      <4> PICK r \in JobRoutes : /\ IF r[1] = "new" THEN j[1] > Len(findings) ELSE JobOnly(r[1], j)
                               /\ JobOnly(r[2], j)'
        BY <3>3 DEF JobGoes
      <4>1. r[1] # "new"
        BY <2>4 DEF Reports, Grows
      <4>2. /\ r[2] \in JobSpots /\ r[1] \in JobSpots /\ JobForm(r[1]) = "waiting"
            /\ JobForm(r[2]) \in {"waiting", "sent", "failed", "dropped"}
        BY <4>1 DEF JobRoutes, JobSpots, JobForm
      <4>3. PlaceOf(c, n) = "waiting"
        BY <3>1, <4>1, <4>2 DEF JobOnly, JobNowhere
      <4>4. PlaceOf(c, n)' = JobForm(r[2])
        BY <2>2, <4>2 DEF JobOnly, JobNowhere
      <4> QED BY <3>3, <4>2, <4>3, <4>4 DEF Promise!Moves, Promise!Settled
    <3>4. CASE JobLost(j)
      <4>1. "delivery" \in JobSpots /\ JobForm("delivery") = "waiting"
        BY DEF JobSpots, JobForm
      <4>2. PlaceOf(c, n) = "waiting"
        BY <3>1, <3>4, <4>1 DEF JobLost, JobOnly, JobNowhere
      <4>3. PlaceOf(c, n)' = "forgotten" /\ stop'
        BY <2>2, <3>4 DEF JobLost, JobOnly, JobNowhere
      <4> QED BY <4>2, <4>3
    <3> QED BY <3>2, <3>3, <3>4 DEF JobMove
  <2> QED BY <2>3, <2>4
<1> QED BY <1>2, <1>3

-----------------------------------------------------------------------------
Closed == IF stop \/ "context" \notin running THEN 1..2 ELSE {}

\* Every step moves one item of an outlet, or none, and closes for good.
Step ==
  /\ Closed \subseteq Closed'
  /\ \A o \in 1..2 : \E x : \A i \in 1..MaxFindings :
       \/ PlaceIn(o, i)' = PlaceIn(o, i)
       \/ i = x /\ <<PlaceIn(o, i), PlaceIn(o, i)'>> \in Promise!Moves
       \/ /\ PlaceIn(o, i)' = "forgotten" /\ o \in Closed'
          /\ PlaceIn(o, i) \in {"new", "waiting"}

\* A step of the parts is a step of the outlets.
LEMMA StepIsPromise ==
  ASSUME Step
  PROVE  Promise!Next
<1> DEFINE place == [o \in 1..2 |-> [i \in 1..MaxFindings |-> PlaceIn(o, i)]]
<1>1. ASSUME NEW o \in 1..2, NEW i \in 1..MaxFindings
      PROVE  place[o][i] = PlaceIn(o, i) /\ place'[o][i] = PlaceIn(o, i)'
  OBVIOUS
<1> HIDE DEF place
<1>2. ASSUME NEW o \in 1..2
      PROVE  LET moved == {i \in 1..MaxFindings : place'[o][i] # place[o][i]} IN
             /\ \A i \in moved :
                  \/ <<place[o][i], place'[o][i]>> \in Promise!Moves
                  \/ /\ place'[o][i] = "forgotten" /\ o \in Closed'
                     /\ place[o][i] \in {"new", "waiting"}
             /\ Cardinality({i \in moved : ~(place'[o][i] = "forgotten")}) <= 1
  <2> DEFINE moved == {i \in 1..MaxFindings : place'[o][i] # place[o][i]}
             M == {i \in moved : ~(place'[o][i] = "forgotten")}
  <2>1. PICK x : \A i \in 1..MaxFindings :
          \/ PlaceIn(o, i)' = PlaceIn(o, i)
          \/ i = x /\ <<PlaceIn(o, i), PlaceIn(o, i)'>> \in Promise!Moves
          \/ /\ PlaceIn(o, i)' = "forgotten" /\ o \in Closed'
             /\ PlaceIn(o, i) \in {"new", "waiting"}
    BY DEF Step
  <2>2. ASSUME NEW i \in moved
        PROVE  \/ i = x /\ <<place[o][i], place'[o][i]>> \in Promise!Moves
               \/ /\ place'[o][i] = "forgotten" /\ o \in Closed'
                  /\ place[o][i] \in {"new", "waiting"}
    BY <1>1, <2>1
  <2>3. M \subseteq {x}
    BY <2>2
  <2>4. Cardinality(M) <= 1
    <3>1. M = {} \/ M = {x}
      BY <2>3
    <3>2. Cardinality({}) = 0 /\ Cardinality({x}) = 1
      BY FS_EmptySet, FS_Singleton
    <3> HIDE DEF M
    <3> QED BY <3>1, <3>2
  <2> QED BY <2>2, <2>4
<1>3. Closed \subseteq Closed'
  BY DEF Step
<1>4. \A S : Promise!Cardinality(S) = Cardinality(S)
  BY DEF Promise!Cardinality, Cardinality
<1> QED BY <1>2, <1>3, <1>4 DEF Promise!Next, Promise!MayMove, Promise!Forgotten, place, Closed

\* The invariant of the three parts, and what it says of the places.
OutletsInv ==
  /\ part \in {"notifications", "streaming", "integrations"}
  /\ NotificationsInv /\ JobsOnce /\ StreamInv /\ StreamOnce /\ HooksTypeOK /\ HooksOnce
OutletsForm ==
  /\ JobPlaces /\ StreamPlaces
  /\ \A h : \A n \in Nat \ {0} : HookPlace(h, n) = HookForm(h, n)

LEMMA OutletsFormHolds == OutletsInv => OutletsForm
  BY JobPlacesHold, StreamPlacesHold, HookPlaceIs DEF OutletsInv, OutletsForm

LEMMA OutletsInvariance == PartSpec => []OutletsInv
<1>1. PartInit => OutletsInv
  BY NotificationsInitInv, JobsInitOnce, StreamInitInv, StreamInitOnce, HooksInitType, HooksInitOnce
     DEF PartInit, OutletsInv
<1>2. OutletsInv /\ [PartNext]_allVars => OutletsInv'
  <2> SUFFICES ASSUME OutletsInv, [PartNext]_allVars PROVE OutletsInv'
    OBVIOUS
  <2>1. [Next]_vars /\ [StreamNext]_streamVars /\ [HooksNext]_hookVars /\ part' = part
    BY DEF PartNext, allVars, NotificationsPart, StreamingPart, IntegrationsPart
  <2>2. NotificationsInv'
    BY <2>1, EnqueueKeeps, CooldownEndsKeeps, UpdateKeeps, OfferKeeps, DeliverKeeps DEF Next, OutletsInv
  <2> QED BY <2>1, <2>2, JobMoves, StreamKeeps, StreamMoves, HooksKeepType, HookMoves DEF OutletsInv
<1> QED BY <1>1, <1>2, PTL DEF PartSpec

LEMMA EveryStep ==
  OutletsInv /\ OutletsInv' /\ OutletsForm /\ OutletsForm' /\ [PartNext]_allVars => Step
<1> SUFFICES ASSUME OutletsInv, OutletsInv', OutletsForm, OutletsForm', [PartNext]_allVars
             PROVE  Step
  OBVIOUS
<1>1. [Next]_vars /\ [StreamNext]_streamVars /\ [HooksNext]_hookVars /\ part' = part
  BY DEF PartNext, allVars, NotificationsPart, StreamingPart, IntegrationsPart
<1>2. Grows
  BY <1>1, NotificationsGrow DEF OutletsInv
<1>3. targets' = targets /\ streamed <= streamed' /\ running' \subseteq running
  <2>1. streamed \in Nat
    BY StreamTypes DEF OutletsInv
  <2> QED BY <1>1, <2>1 DEF StreamNext, StreamPublish, StreamStop, DispatcherWork, Dispatch, HandOver,
         StreamExit, StreamWork, TakeEvent, Sent, streamVars
<1>4. Closed \subseteq Closed'
  BY <1>2, <1>3 DEF Closed, Grows
<1>5. \A i \in 1..MaxFindings : i \in Nat \ {0}
  BY NotificationBounds
<1>6. ASSUME NEW o \in 1..2
      PROVE  \E x : \A i \in 1..MaxFindings :
               \/ PlaceIn(o, i)' = PlaceIn(o, i)
               \/ i = x /\ <<PlaceIn(o, i), PlaceIn(o, i)'>> \in Promise!Moves
               \/ /\ PlaceIn(o, i)' = "forgotten" /\ o \in Closed'
                  /\ PlaceIn(o, i) \in {"new", "waiting"}
  <2>1. CASE part = "notifications"
    <3>1. PICK x : JobMove(x)
      BY <1>1, JobMoves DEF OutletsInv
    <3>2. OutletOf["notifications"] = Channels
      BY DEF OutletOf
    <3> PICK c : c = Channels[o]
      OBVIOUS
    <3>3. \A i : PlaceIn(o, i) = PlaceOf(c, i) /\ PlaceIn(o, i)' = PlaceOf(c, i)'
      BY <1>1, <2>1, <3>2 DEF PlaceIn, Channels
    <3>4. stop' => o \in Closed'
      BY DEF Closed
    <3> QED BY <1>2, <1>5, <3>1, <3>3, <3>4, JobPlaceMoves DEF OutletsForm
  <2>2. CASE part = "streaming"
    <3>1. PICK x : StreamMove(x)
      BY <1>1, StreamMoves DEF OutletsInv
    <3> PICK t : t = <<"t1", "t2">>[o]
      OBVIOUS
    <3>2. \A i : PlaceIn(o, i) = StreamPlace(t, i) /\ PlaceIn(o, i)' = StreamPlace(t, i)'
      BY <1>1, <2>2 DEF PlaceIn, OutletOf
    <3> QED BY <1>3, <1>5, <3>1, <3>2, StreamPlaceMoves DEF OutletsForm
  <2>3. CASE part = "integrations"
    <3>1. PICK x : HookMove(x)
      BY <1>1, HookMoves DEF OutletsInv
    <3> PICK h : h = <<"webhook", "syslog">>[o]
      OBVIOUS
    <3>2. \A i : PlaceIn(o, i) = HookPlace(h, i) /\ PlaceIn(o, i)' = HookPlace(h, i)'
      BY <1>1, <2>3 DEF PlaceIn, OutletOf
    <3>3. \A i \in 1..MaxFindings : /\ PlaceIn(o, i) = HookForm(h, i)
                                   /\ PlaceIn(o, i)' = HookForm(h, i)'
      BY <1>5, <3>2 DEF OutletsForm
    <3> QED BY <1>5, <3>1, <3>3 DEF HookMove
  <2> QED BY <2>1, <2>2, <2>3 DEF OutletsInv
<1> QED BY <1>4, <1>6 DEF Step

\* The channels of Notifications, the targets of Streaming and the webhooks
\* implement the safety part of OutletsKept: an item is taken or refused at once,
\* settled once, counted once, and forgotten only by an outlet that is closed; a
\* step moves one item of an outlet.  That what waits is settled in the end
\* (Promise!Live) is left to the model checker.
THEOREM OutletsImplementOutlet == PartSpec => Promise!Init /\ [][Promise!Next]_(Promise!outletVars)
<1>1. PartInit => Promise!Init
  <2> SUFFICES ASSUME PartInit PROVE Promise!Init
    OBVIOUS
  <2>1. findings = <<>> /\ Len(findings) = 0 /\ stop = FALSE /\ "context" \in running
    BY EmptySeq DEF PartInit, Init, StreamInit
  <2>2. streamed = 0 /\ ranks = <<>> /\ Len(ranks) = 0
    BY EmptySeq DEF PartInit, StreamInit, HooksInit
  <2>3. \A i \in 1..MaxFindings : i > 0
    BY NotificationBounds
  <2>4. ASSUME NEW o \in 1..2, NEW i \in 1..MaxFindings PROVE PlaceIn(o, i) = "new"
    <3>1. \A c : PlaceOf(c, i) = "new"
      BY <2>1, <2>3 DEF PlaceOf
    <3>2. \A t : StreamPlace(t, i) = "new"
      BY <2>2, <2>3 DEF StreamPlace
    <3>3. \A h : HookPlace(h, i) = "new"
      BY <2>2, <2>3 DEF HookPlace
    <3> QED BY <3>1, <3>2, <3>3 DEF PlaceIn, PartInit
  <2> QED BY <2>1, <2>4 DEF Promise!Init
<1>2. OutletsInv /\ OutletsInv' /\ OutletsForm /\ OutletsForm' /\ [PartNext]_allVars
        => [Promise!Next]_(Promise!outletVars)
  BY EveryStep, StepIsPromise
<1>3. OutletsInv => OutletsForm
  BY OutletsFormHolds
<1> QED BY <1>1, <1>2, <1>3, OutletsInvariance, PTL DEF PartSpec
=============================================================================
