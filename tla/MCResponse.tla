------------------------------ MODULE MCResponse ------------------------------
(* Small instances of ResponseApproval, ResponseRollback and               *)
(* GuardedResponse: the first state chooses which of them makes the steps. *)
EXTENDS ResponseApproval, ResponseRollback, Sequences, TLC

CONSTANTS Users, Automation, Admin, Ids, Drafts, Findings, Actions, Configs,
          MaxLostSaves, MaxOps    \* those of GuardedResponse
VARIABLES part, playbooks, file, reported, runs, matched, tried, lostSaves,
          config, ops, asked, cause

\* The parts agree on who creates requests and how often the daemon restarts;
\* Upsert refuses other modes; an action names an address in some form.
ASSUME GuardedAssumption ==
  /\ Creators = Users \cup {Automation} /\ MaxCrashes = MaxRestarts /\ MaxOps \in Nat
  /\ \A p \in Drafts : /\ p.mode \in {"dry_run", "approval_required", "automatic"}
                       /\ p.actions \in Seq([type : STRING, ttl : BOOLEAN])
  /\ \A q \in Actions : q.form \in Forms
  /\ \A f \in Findings : f.target \in Forms

G == INSTANCE GuardedResponse

TheAddress(f) == "10.0.0.1"
Draft(mode, enabled, actions) ==
  [mode |-> mode, enabled |-> enabled, minSeverity |-> 4, minConfidence |-> 50,
   verdicts |-> {"ioc"}, categories |-> {}, tags |-> {"c2"}, requireYARA |-> FALSE,
   requireKEV |-> TRUE, actions |-> actions]
TimedBlock == [type |-> "block_ip", ttl |-> TRUE]
Do(type) == [type |-> type, ttl |-> FALSE]
TheDrafts == {Draft("automatic", TRUE, <<Do("kill_process"), TimedBlock>>),
              Draft("automatic", FALSE, <<TimedBlock>>),
              Draft("approval_required", TRUE, <<Do("create_case"), TimedBlock>>),
              Draft("automatic", TRUE, <<Do("unblock_ip"), Do("create_case")>>),
              Draft("dry_run", TRUE, <<TimedBlock>>)}
Finding(severity, kev) ==
  [severity |-> severity, confidence |-> 50, verdict |-> "ioc", category |-> "dns",
   tags |-> {"c2", "dga"}, yara |-> "absent", kev |-> kev, target |-> "plain"]
TheFindings == {Finding(5, "yes"), Finding(3, "yes"), Finding(4, "emptyText")}
Ask(type, ttl) == [type |-> type, form |-> "padded", ttl |-> ttl]
TheActions == {Ask("block_ip", FALSE), Ask("unblock_ip", FALSE)}
Setting(enabled, dryRun, allowed, allowlist) ==
  [enabled |-> enabled, dryRun |-> dryRun, allowed |-> allowed, allowlist |-> allowlist]
TheConfigs == {Setting(TRUE, FALSE, {"block_ip", "kill_process"}, {}),
               Setting(TRUE, FALSE, {"block_ip", "unblock_ip"}, {"10.0.0.1"}),
               Setting(TRUE, TRUE, {"block_ip"}, {}),
               Setting(FALSE, FALSE, {"block_ip"}, {})}

guardedOnly == <<playbooks, file, reported, runs, matched, tried, lostSaves,
                 config, ops, asked, cause>>
PartInit ==
  \/ part = "guarded" /\ G!Init
  \/ /\ part \in {"approval", "rollback"}
     /\ Init /\ RollbackInit /\ G!PlaybooksInit
     /\ config = 0 /\ ops = 0 /\ asked = 0 /\ cause = 0

\* A bound of the composed part.
AtMostOneFault == (failures + saveFailures + lostSaves + restarts)' <= 1

PartNext ==
  /\ UNCHANGED part
  /\ \/ part = "guarded" /\ G!Next /\ AtMostOneFault
     \/ part = "approval" /\ Next /\ UNCHANGED <<rollbackVars, guardedOnly>>
     \/ part = "rollback" /\ RollbackNext /\ UNCHANGED <<vars, guardedOnly>>

\* Fairness is that of RollbackFairSpec, in its part.
Alone(t) == part = "rollback" /\ t /\ UNCHANGED <<part, vars, guardedOnly>>
all == <<part, vars, rollbackVars, guardedOnly>>
PartSpec ==
  /\ PartInit /\ [][PartNext]_all
  /\ \A c \in Callers : WF_all(Alone(Arm(c)))
  /\ \A t \in TimerIds : /\ WF_all(Alone(Fire(t))) /\ WF_all(Alone(Rollback(t)))
                         /\ WF_all(Alone(Forget(t)))

-----------------------------------------------------------------------------
\* A playbook does what it says, all of it, and nothing the guardrails forbid.
PlaybooksObey == part = "guarded" => G!TypeOK /\ G!Guardrails /\ G!EveryActionTried
\* TimedBlockEnds of the part that arms the timers.
TimedBlocksEnd == part = "rollback" => TimedBlockEnds
=============================================================================
