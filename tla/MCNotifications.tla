--------------------------- MODULE MCNotifications ---------------------------
(* Small instances of Notifications, Streaming and Integrations, which     *)
(* share no state: the first state chooses the one that makes the steps.   *)
(* Each of them implements Outlet.                                         *)
EXTENDS Notifications, Streaming, Integrations

VARIABLE part

allVars == <<part, vars, streamVars, hookVars>>

PartInit ==
  /\ part \in {"notifications", "streaming", "integrations"}
  /\ Init /\ StreamInit /\ HooksInit
  /\ part # "notifications" => settings = {}
  /\ part # "streaming" => targets = <<>>
  /\ part # "integrations" => minimum = <<>>

NotificationsPart == part = "notifications" /\ UNCHANGED <<part, streamVars, hookVars>>
StreamingPart == part = "streaming" /\ UNCHANGED <<part, vars, hookVars>>
IntegrationsPart == part = "integrations" /\ UNCHANGED <<part, vars, streamVars>>

PartNext ==
  \/ Next /\ NotificationsPart
  \/ StreamNext /\ StreamingPart
  \/ HooksNext /\ IntegrationsPart

Progress ==
  \/ (Deliver \/ OfferAny) /\ NotificationsPart
  \/ (DispatcherWork \/ \E t \in Targets : StreamWork(t)) /\ StreamingPart
  \/ (\E a \in Attempts : Attempted(a)) /\ IntegrationsPart

\* The workers, the dispatcher and the attempts go on, since every wait and
\* every network call has a time limit; as the items are bounded, none of them
\* can keep another from its turn for ever.
PartSpec ==
  /\ PartInit /\ [][PartNext]_allVars
  /\ WF_allVars(Progress) /\ SF_allVars(WorkerStops /\ NotificationsPart)

-----------------------------------------------------------------------------
\* "bounded deduplication state" (docs/ADVANCED_V10.md:129): a key is notified once
\* per cooldown, and queues and tables keep their capacities in every part.
NotifiedOnce == TypeOK /\ StreamTypeOK /\ HooksTypeOK /\ OncePerCooldown

\* Each part has two outlets.
OutletOf == [notifications |-> Channels, streaming |-> <<"t1", "t2">>,
             integrations |-> <<"webhook", "syslog">>]
PlaceIn(o, i) ==
  CASE part = "notifications" -> PlaceOf(OutletOf[part][o], i)
    [] part = "streaming"     -> StreamPlace(OutletOf[part][o], i)
    [] part = "integrations"  -> HookPlace(OutletOf[part][o], i)

Promise == INSTANCE Outlet WITH
  Outlets <- 1..2, Items <- 1..MaxFindings,
  place   <- [o \in 1..2 |-> [i \in 1..MaxFindings |-> PlaceIn(o, i)]],
  closed  <- IF stop \/ "context" \notin running THEN 1..2 ELSE {}

\* The notification channels, the streaming targets and the webhooks implement
\* the abstract outlet: "sent/failed/dropped/deduplicated statistics"
\* each item once, at a full queue, in the middle of retries, and whatever the
\* settings are changed to or the slowest target does; nothing waits for ever.
OutletsKept == Promise!Spec
=============================================================================
