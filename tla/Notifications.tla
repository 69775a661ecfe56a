---------------------------- MODULE Notifications ----------------------------
(***************************************************************************)
(* The notification manager (internal/notifications/manager.go): Enqueue,  *)
(* called by the goroutines that report findings, the worker that delivers *)
(* over e-mail and Telegram, Update, and Close.                            *)
(*                                                                         *)
(* A finding is its number, its deduplication key and the channels the     *)
(* settings route it to when it is reported.  Enqueue decides under the    *)
(* mutex and offers the jobs to the bounded queue afterwards.  Whether an  *)
(* entry of the deduplication table is still inside the cooldown is a flag *)
(* that the passing of time clears and a longer cooldown sets again.  Of   *)
(* the settings, the routed channels are modelled; NotificationSettings    *)
(* models the files Update saves them to.                                  *)
(***************************************************************************)
EXTENDS Naturals, Sequences, FiniteSets, SequencesExt

CONSTANTS Keys,         \* deduplication keys: rule, addresses, process, severity
          Producers,    \* goroutines that report findings
          Routings,     \* the sets of channels they route findings to
          QueueSize,    \* capacity of the queue (256)
          DedupCap,     \* size at which the table is pruned (4096)
          Retries,      \* max_retries
          MaxFindings   \* bound on the findings reported

ASSUME NotificationsAssumption ==
         /\ Routings \subseteq SUBSET {"email", "telegram"}
         /\ {QueueSize, DedupCap} \subseteq Nat \ {0}
         /\ {Retries, MaxFindings} \subseteq Nat

VARIABLES settings,    \* m.settings: the channels findings are routed to
          dedup,       \* m.dedup: "none", "fresh" or "expired"
          findings,    \* the findings reported (history)
          over,        \* the findings after which the cooldown of the key
                       \* ended or its entry was pruned (history)
          offering,    \* the jobs each producer has still to offer
          queue,       \* m.q
          delivery,    \* the worker: its phase, job and attempts left
          stop,        \* is m.stop closed
          sent, failed, dropped, suppressed    \* jobs counted by channel

delivering == <<queue, delivery, stop, sent, failed>>
counting == <<dedup, findings, over, offering, dropped, suppressed>>
vars == <<settings, delivering, counting>>

Channels == <<"email", "telegram">>
Findings == [key : Keys, routes : Routings]
Jobs == (1..MaxFindings) \X ToSet(Channels)
IdleWorker == [phase |-> "select", job |-> <<0, "none">>, tries |-> 0]

Init ==
  /\ settings \in Routings    \* load
  /\ dedup = [k \in Keys |-> "none"]
  /\ findings = <<>> /\ over = {}
  /\ offering = [p \in Producers |-> <<>>]
  /\ queue = <<>> /\ delivery = IdleWorker /\ stop = FALSE
  /\ sent = {} /\ failed = {} /\ dropped = {} /\ suppressed = {}

\* A job for each enabled channel, e-mail first.
JobFor(n, c) == IF c \in settings THEN <<<<n, c>>>> ELSE <<>>
Routed(n) == JobFor(n, "email") \o JobFor(n, "telegram")
Entries == {k \in Keys : dedup[k] # "none"}
Expired == {k \in Keys : dedup[k] = "expired"}

\* Above the cap the expired entries go first, then any others down to the cap.
Pruned ==
  IF Cardinality(Entries) <= DedupCap THEN {Entries}
  ELSE LET live == Entries \ Expired IN
       IF Cardinality(live) <= DedupCap THEN {live}
       ELSE {S \in SUBSET live : Cardinality(S) = DedupCap}

Of(S) == {n \in 1..Len(findings) : findings[n].key \in S}

Reported(k) ==
  /\ Len(findings) < MaxFindings
  /\ findings' = Append(findings, [key |-> k, routes |-> settings])

\* Mutant: the entry is written by a later step, so two producers both pass.
EnqueueUnmarked(p, k) ==
  /\ offering[p] = <<>>
  /\ Reported(k)
  /\ IF dedup[k] = "fresh"
       THEN /\ suppressed' = suppressed \cup ToSet(Routed(Len(findings')))
            /\ UNCHANGED <<dedup, offering>>
       ELSE /\ dedup' = [dedup EXCEPT ![k] =
                           IF \E q \in Producers : offering[q] # <<>> THEN "fresh" ELSE @]
            /\ offering' = [offering EXCEPT ![p] = Routed(Len(findings'))]
            /\ UNCHANGED suppressed
  /\ UNCHANGED <<over, dropped, settings, delivering>>

\* The region of Enqueue under the mutex.
Enqueue(p, k) ==
  /\ offering[p] = <<>>
  /\ Reported(k)
  /\ \E kept \in Pruned :
       /\ over' = over \cup Of({j \in Keys \ kept : dedup[j] = "fresh"})
       /\ IF k \in kept /\ dedup[k] = "fresh"
            THEN /\ dedup' = [j \in Keys |-> IF j \in kept THEN dedup[j] ELSE "none"]
                 /\ suppressed' = suppressed \cup ToSet(Routed(Len(findings')))
                 /\ UNCHANGED offering
            ELSE /\ dedup' = [j \in Keys |-> IF j = k THEN "fresh"
                                             ELSE IF j \in kept THEN dedup[j] ELSE "none"]
                 /\ offering' = [offering EXCEPT ![p] = Routed(Len(findings'))]
                 /\ UNCHANGED suppressed
  /\ UNCHANGED <<dropped, settings, delivering>>

CooldownEnds(k) ==
  /\ dedup[k] = "fresh"
  /\ dedup' = [dedup EXCEPT ![k] = "expired"]
  /\ over' = over \cup Of({k})
  /\ UNCHANGED <<findings, offering, dropped, suppressed, settings, delivering>>

\* Each job is queued, or dropped and counted; the producer never waits.
Offer(p) ==
  /\ offering[p] # <<>>
  /\ LET j == Head(offering[p]) IN
     IF Len(queue) < QueueSize
       THEN queue' = Append(queue, j) /\ UNCHANGED dropped
       ELSE dropped' = dropped \cup {j} /\ UNCHANGED queue
  /\ offering' = [offering EXCEPT ![p] = Tail(@)]
  /\ UNCHANGED <<dedup, findings, over, suppressed, delivery, stop, sent, failed,
                 settings>>

-----------------------------------------------------------------------------
Take ==
  /\ delivery.phase = "select" /\ queue # <<>>
  /\ delivery' = [phase |-> "sending", job |-> Head(queue), tries |-> Retries + 1]
  /\ queue' = Tail(queue)
  /\ UNCHANGED <<stop, sent, failed, settings, counting>>

SendSucceeds ==
  /\ delivery.phase = "sending"
  /\ sent' = sent \cup {delivery.job} /\ delivery' = IdleWorker
  /\ UNCHANGED <<queue, stop, failed, settings, counting>>

\* An attempt fails: wait before the next one, or count the failure.
SendFails ==
  /\ delivery.phase = "sending"
  /\ IF delivery.tries > 1
       THEN /\ delivery' = [delivery EXCEPT !.phase = "waiting", !.tries = @ - 1]
            /\ UNCHANGED failed
       ELSE failed' = failed \cup {delivery.job} /\ delivery' = IdleWorker
  /\ UNCHANGED <<queue, stop, sent, settings, counting>>

WaitEnds ==
  /\ delivery.phase = "waiting"
  /\ delivery' = [delivery EXCEPT !.phase = "sending"]
  /\ UNCHANGED <<queue, stop, sent, failed, settings, counting>>

\* Close, called once when the root context is done.
Close ==
  /\ ~stop /\ stop' = TRUE
  /\ UNCHANGED <<queue, delivery, sent, failed, settings, counting>>

\* Mutant: a break that leaves the select and not the worker's loop.
WorkerBreaks ==
  /\ stop /\ delivery.phase = "waiting" /\ delivery' = IdleWorker
  /\ UNCHANGED <<queue, stop, sent, failed, settings, counting>>

\* The select of the worker, or of the wait after a failed attempt, picks the
\* closed channel.  From the wait it returns to the worker's loop, with nothing
\* counted for the job.
WorkerStops ==
  /\ stop
  /\ \/ /\ delivery.phase = "select"
        /\ delivery' = [IdleWorker EXCEPT !.phase = "exited"]
     \/ delivery.phase = "waiting" /\ delivery' = IdleWorker
  /\ UNCHANGED <<queue, stop, sent, failed, settings, counting>>

-----------------------------------------------------------------------------
\* Update sets the settings under the mutex.  A longer cooldown makes entries
\* fresh again; a shorter one is a CooldownEnds that follows.
Update ==
  /\ settings' \in Routings
  /\ \E back \in SUBSET Expired :
       dedup' = [k \in Keys |-> IF k \in back THEN "fresh" ELSE dedup[k]]
  /\ UNCHANGED <<findings, over, offering, dropped, suppressed, delivering>>

Deliver == Take \/ SendSucceeds \/ SendFails \/ WaitEnds \/ WorkerStops

Next ==
  \/ \E p \in Producers : Offer(p) \/ \E k \in Keys : Enqueue(p, k)
  \/ \E k \in Keys : CooldownEnds(k)
  \/ Deliver \/ Close \/ Update

Spec == Init /\ [][Next]_vars

OfferAny == \E p \in Producers : Offer(p)

\* The worker's goroutine runs, its waits end and its attempts time out, and a
\* producer, which never waits, offers all its jobs.  A select that finds stop
\* closed and the queue not empty picks either branch, and stop in the long run.
FairSpec == Spec /\ WF_vars(Deliver) /\ WF_vars(OfferAny) /\ SF_vars(WorkerStops)

-----------------------------------------------------------------------------
\* The types, the capacity of the queue and the bounded deduplication state
\* ("bounded deduplication state", docs/ADVANCED_V10.md:129).
TypeOK ==
  /\ settings \in Routings
  /\ dedup \in [Keys -> {"none", "fresh", "expired"}]
  /\ Cardinality(Entries) <= DedupCap + 1
  /\ findings \in Seq(Findings) /\ over \subseteq 1..Len(findings)
  /\ offering \in [Producers -> Seq(Jobs)]
  /\ queue \in Seq(Jobs) /\ Len(queue) <= QueueSize
  /\ delivery \in [phase : {"select", "sending", "waiting", "exited"},
                   job : Jobs \cup {<<0, "none">>}, tries : 0..(Retries + 1)]
  /\ stop \in BOOLEAN
  /\ sent \cup failed \cup dropped \cup suppressed \subseteq Jobs

\* Where a job is: on its way, settled, or both.
OnItsWay(j) == \/ \E p \in Producers : Contains(offering[p], j)
            \/ Contains(queue, j) \/ delivery.job = j
Ends(j) == {end \in {"sent", "failed", "dropped", "suppressed"} :
                 CASE end = "sent" -> j \in sent [] end = "failed" -> j \in failed
                   [] end = "dropped" -> j \in dropped [] OTHER -> j \in suppressed}

\* Where a finding is, for a channel; "torn" when it is routed and nowhere, or twice.
PlaceOf(c, n) ==
  IF n > Len(findings) \/ c \notin findings[n].routes THEN "new"
  ELSE LET ends == Ends(<<n, c>>) IN
       IF OnItsWay(<<n, c>>) THEN IF ends = {} THEN "waiting" ELSE "torn"
       ELSE IF Cardinality(ends) = 1 THEN CHOOSE end \in ends : TRUE
       ELSE IF ends = {} /\ stop THEN "forgotten" ELSE "torn"

Accepted == {n \in 1..Len(findings) :
               \E c \in findings[n].routes : <<n, c>> \notin suppressed}

\* One notification per key and cooldown: a key is notified again only after
\* its cooldown ended or its entry was pruned, also when several producers
\* report it at once and the settings change in between.
OncePerCooldown ==
  \A m, n \in Accepted :
    m < n /\ findings[m].key = findings[n].key => m \in over

\* Close, and so the shutdown of the engine, returns: the worker leaves its
\* loop, from a wait between two attempts as well.
WorkerReturns == stop ~> delivery.phase = "exited"
=============================================================================
