---------------------------- MODULE Integrations ----------------------------
(***************************************************************************)
(* The webhooks and the syslog line of the older integration manager       *)
(* (internal/integrations/manager.go): Publish starts a goroutine for      *)
(* every enabled target whose minimum severity a finding reaches, each     *)
(* makes one attempt, and record keeps the last attempts.  "syslog" is the *)
(* syslog target; the others are webhooks.                                 *)
(***************************************************************************)
EXTENDS Naturals, Sequences, FiniteSets, SequencesExt

CONSTANTS Hooks,         \* the targets of the configuration
          Ranks,         \* rank of a severity: 0 (none or unknown) to 5 (critical)
          LogSize,       \* attempts kept (500)
          MaxPublished   \* bound on the findings published

ASSUME IntegrationsAssumption ==
         Ranks \subseteq 0..5 /\ LogSize \in Nat \ {0} /\ MaxPublished \in Nat

VARIABLES minimum,   \* m.cfg: the minimum rank of every enabled target
          ranks,     \* the ranks of the findings published (history)
          flying,    \* the attempts under way: target and finding
          log,       \* m.deliveries
          forgot     \* the attempts record trimmed (history)
hookVars == <<minimum, ranks, flying, log, forgot>>

Attempts == Hooks \X (1..MaxPublished)

HooksInit ==
  /\ \E enabled \in SUBSET Hooks : minimum \in [enabled -> Ranks]
  /\ ranks = <<>> /\ flying = {} /\ log = <<>> /\ forgot = {}

\* Publish: the caller never waits, and the goroutines are not bounded.
PublishFinding(r) ==
  /\ Len(ranks) < MaxPublished /\ ranks' = Append(ranks, r)
  /\ flying' = flying \cup {<<h, Len(ranks')>> : h \in {g \in DOMAIN minimum : r >= minimum[g]}}
  /\ UNCHANGED <<minimum, log, forgot>>

\* webhook and syslog, ending in record; the client and the dial time out.
Attempted(a) ==
  /\ a \in flying /\ flying' = flying \ {a}
  /\ \E success \in BOOLEAN :
       LET all == Append(log, [attempt |-> a, success |-> success]) IN
       IF Len(all) > LogSize
         THEN log' = Tail(all) /\ forgot' = forgot \cup {all[1]}
         ELSE log' = all /\ UNCHANGED forgot
  /\ UNCHANGED <<minimum, ranks>>

HooksNext ==
  \/ \E r \in Ranks : PublishFinding(r)
  \/ \E a \in Attempts : Attempted(a)

-----------------------------------------------------------------------------
Records == [attempt : Attempts, success : BOOLEAN]
HooksTypeOK ==
  /\ DOMAIN minimum \subseteq Hooks /\ \A h \in DOMAIN minimum : minimum[h] \in Ranks
  /\ ranks \in Seq(Ranks) /\ flying \subseteq Attempts
  /\ log \in Seq(Records) /\ Len(log) <= LogSize /\ forgot \subseteq Records

\* Where a finding is, for a target; "torn" when it is due and nowhere, or twice.
HookPlace(h, n) ==
  LET kept  == {i \in 1..Len(log) : log[i].attempt = <<h, n>>}
      gone  == {r \in forgot : r.attempt = <<h, n>>}
      due   == n <= Len(ranks) /\ h \in DOMAIN minimum /\ ranks[n] >= minimum[h]
      times == Cardinality(kept) + Cardinality(gone) + (IF <<h, n>> \in flying THEN 1 ELSE 0)
  IN IF n > Len(ranks) \/ (~due /\ times = 0) THEN "new"
     ELSE IF ~due \/ times # 1 THEN "torn"
     ELSE IF <<h, n>> \in flying THEN "waiting"
     ELSE IF (\E i \in kept : log[i].success) \/ (\E r \in gone : r.success) THEN "sent"
     ELSE "failed"
=============================================================================
