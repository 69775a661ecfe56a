--------------------------- MODULE GuardedResponse ---------------------------
(***************************************************************************)
(* Active response as a whole: the playbooks of module Playbooks, the      *)
(* approvals of ResponseApproval and the timed blocks of ResponseRollback, *)
(* joined by Manager.Execute (internal/response/manager.go).               *)
(*                                                                         *)
(* Execute is reached by three ways: an approver's handler, the goroutine  *)
(* of an automatic playbook, and the handler activeResponse for direct     *)
(* requests.  Every step here is a step of one of the three modules, or of *)
(* two at once; a restart of the daemon is a step of all of them.          *)
(***************************************************************************)
EXTENDS Playbooks

CONSTANTS Requests, Users, Approvers, Nobody, Automation, Admin,
          Forms, Address(_), Actions, Configs,
          MaxTimers, MaxFailures, MaxSaveFailures, MaxRestarts,
          MaxOps   \* bound on requests, direct actions, edits and findings

VARIABLES items, disk, handler, requester, applied, executors, audited,
          saveFailures, crashes,                      \* ResponseApproval
          blocked, lasting, orphaned, timers, table, arming,
          failures, restarts,                         \* ResponseRollback
          config,   \* Manager.cfg, fixed when the daemon starts
          asked,    \* the action of each request, Request.Action
          ops,
          cause     \* why each blocked address was added last (history)

Approval == INSTANCE ResponseApproval WITH
  Creators <- Users \cup {Automation}, MaxCrashes <- MaxRestarts
Rollback == INSTANCE ResponseRollback WITH
  Callers <- Approvers \cup {Admin} \cup (Ids \X Findings)

approvalVars == <<items, disk, handler, requester, applied, executors, audited,
                  saveFailures, crashes>>
rollbackVars == <<blocked, lasting, orphaned, timers, table, arming, failures, restarts>>
vars == <<playbookVars, approvalVars, rollbackVars, config, ops, asked, cause>>

NoAction == [type |-> "none"]
NoCause == [by |-> "none"]

Init ==
  /\ PlaybooksInit /\ Approval!Init /\ Rollback!RollbackInit
  /\ config \in Configs /\ ops = 0
  /\ asked = [id \in Requests |-> NoAction]
  /\ cause = [a \in {Address(f) : f \in Forms} |-> NoCause]

-----------------------------------------------------------------------------
\* validTargetIP refuses what the allowlist holds, and the addresses that are no
\* target anywhere (loopback, multicast, IPv6), which stand in the same list.
Refused(form) == Address(form) \in config.allowlist

\* The checks of Execute, with "APPLY" as the confirmation: disabled, not an
\* allowed action, a target that is refused or on the allowlist, an action the
\* manager does not know; then the dry run.
Verdict(q) ==
  IF \/ ~config.enabled \/ q.type \notin config.allowed
     \/ q.type \in {"block_ip", "unblock_ip"} /\ Refused(q.form)
     \/ q.type \notin {"block_ip", "unblock_ip", "kill_process"}
    THEN "refused"
  ELSE IF config.dryRun THEN "dryRun" ELSE "live"

\* The command of a live action by caller c takes effect.
Apply(c, q, why) ==
  \/ /\ q.type = "block_ip"
     /\ IF q.ttl THEN Rollback!Block(c, q.form) ELSE Rollback!BlockForGood(c, q.form)
     /\ cause' = [cause EXCEPT ![Address(q.form)] = why]
  \/ q.type = "unblock_ip" /\ Rollback!Unblock(c, q.form) /\ UNCHANGED cause
  \/ q.type = "kill_process" /\ UNCHANGED <<rollbackVars, cause>>

\* Execute: TRUE when it returns no error.
Execute(c, q, why, ok) ==
  \/ Verdict(q) = "live" /\ ok /\ Apply(c, q, why)
  \/ /\ ok = (Verdict(q) = "dryRun")
     /\ UNCHANGED rollbackVars /\ UNCHANGED cause

\* An operation that the bound counts.
Operation == ops < MaxOps /\ ops' = ops + 1

Idle(c) == arming[c] = Rollback!NoForm

-----------------------------------------------------------------------------
UserRequests(u, id, q) ==
  /\ Operation
  /\ Approval!Create(u, id)
  /\ asked' = [asked EXCEPT ![id] = q]
  /\ UNCHANGED <<playbookVars, rollbackVars, config, cause>>

ApproverExecutes(u) ==
  LET id == handler[u].id IN
  /\ Approval!Execute(u)
  /\ Execute(u, asked[id], [by |-> "request", user |-> u, id |-> id], handler'[u].ok)
  /\ UNCHANGED <<playbookVars, config, ops, asked>>

\* The other steps of the approving handlers; the decision is recorded after
\* Execute has armed the timer.
ApproverSteps(u) ==
  /\ \/ \E id \in Requests : Approval!Check(u, id)
     \/ Idle(u) /\ (Approval!Record(u) \/ Approval!RecordRefused(u))
     \/ Approval!AuditExecution(u)
  /\ UNCHANGED <<playbookVars, rollbackVars, config, ops, asked, cause>>

\* activeResponse.
Direct(q) ==
  /\ Operation /\ Idle(Admin)
  /\ \E ok \in BOOLEAN : Execute(Admin, q, [by |-> "direct"], ok)
  /\ UNCHANGED <<playbookVars, approvalVars, config, asked>>

\* What a playbook's action asks for: the target comes from the finding.
Request(g) == [type |-> Head(g.todo).type, ttl |-> Head(g.todo).ttl,
               form |-> g.match.finding.target]

\* One turn of the loop of executeAutomaticPlaybook.  It knows block_ip and
\* kill_process, and two actions that do not reach the response manager.
AutomaticAction(g) ==
  /\ g.kind = "execute" /\ g.todo # <<>>
  /\ LET c == <<g.match.id, g.match.finding>>
         type == Head(g.todo).type
     IN
     /\ Idle(c)
     /\ \E ok \in BOOLEAN :
          /\ Advance(g, IF ok THEN "done" ELSE "error")
          /\ \/ /\ type \in {"block_ip", "kill_process"}
                /\ Execute(c, Request(g), [by |-> "playbook", match |-> g.match], ok)
             \/ type \in {"protect_pcap", "create_case"} /\ UNCHANGED <<rollbackVars, cause>>
             \/ /\ type \in {"unblock_ip", "other"} /\ ~ok
                /\ UNCHANGED <<rollbackVars, cause>>
  /\ UNCHANGED <<approvalVars, config, ops, asked>>

\* One turn of the loop of PlaybookApproval: a request for each action a human
\* can approve, the others are skipped.
RequestAction(g) ==
  /\ g.kind = "request" /\ g.todo # <<>>
  /\ Advance(g, "asked")
  /\ \/ /\ Head(g.todo).type \in {"block_ip", "unblock_ip", "kill_process"}
        /\ \E id \in Requests :
             /\ Approval!Create(Automation, id)
             /\ asked' = [asked EXCEPT ![id] = Request(g)]
     \/ /\ Head(g.todo).type \notin {"block_ip", "unblock_ip", "kill_process"}
        /\ UNCHANGED <<approvalVars, asked>>
  /\ UNCHANGED <<rollbackVars, config, ops, cause>>

PlaybookSteps ==
  /\ \/ /\ Operation
        /\ \/ \E i \in Ids : Delete(i) \/ \E p \in Drafts : Upsert(i, p)
           \/ \E f \in Findings : Report(f)
     \/ UNCHANGED ops /\ \E g \in runs : Return(g)
  /\ UNCHANGED <<approvalVars, rollbackVars, config, asked, cause>>

Timers ==
  /\ \/ \E c \in DOMAIN arming : Rollback!Arm(c)
     \/ \E t \in 1..MaxTimers : Rollback!Fire(t) \/ Rollback!Rollback(t) \/ Rollback!Forget(t)
  /\ UNCHANGED <<playbookVars, approvalVars, config, ops, asked, cause>>

Restart ==
  /\ Approval!Restart /\ Rollback!LoseTimers /\ Reopen
  /\ UNCHANGED <<config, ops, asked, cause>>

Next ==
  \/ PlaybookSteps \/ Timers \/ Restart
  \/ \E u \in Users, id \in Requests, q \in Actions : UserRequests(u, id, q)
  \/ \E u \in Approvers : ApproverExecutes(u) \/ ApproverSteps(u)
  \/ \E q \in Actions : Direct(q)
  \/ \E g \in runs : AutomaticAction(g) \/ RequestAction(g)

Spec == Init /\ [][Next]_vars

-----------------------------------------------------------------------------
\* The types of what this module adds to the three it composes.
TypeOK ==
  /\ config \in Configs /\ ops \in 0..MaxOps
  /\ asked \in [Requests -> Actions \cup {NoAction} \cup
        {[type |-> a.type, ttl |-> a.ttl, form |-> f.target] :
           a \in UNION {{p.actions[n] : n \in DOMAIN p.actions} : p \in Drafts},
           f \in Findings}]
  /\ \A m \in matched : m.playbook \in Drafts /\ m.finding \in reported
  /\ \A g \in runs : g.match \in matched

\* "there is no bypass around response allowlists or the global Active Response
\* enable/dry-run setting", and automatic means "explicitly marked automatic"
\* (docs/ADVANCED_V09.md:80-82): whatever is edited, restarted or rolled back
\* meanwhile, an address in the firewall set passed the guards of the manager,
\* and was put there by a direct request, by an approver of somebody else's
\* request for it, or by a playbook that was enabled, automatic and matching a
\* finding about this address when it was reported.
Guardrails ==
  \A a \in blocked :
    LET why == cause[a] IN
    /\ config.enabled /\ ~config.dryRun
    /\ "block_ip" \in config.allowed /\ a \notin config.allowlist
    /\ \/ why.by = "direct"
       \/ /\ why.by = "request"
          /\ why.user \in executors[why.id] /\ why.user # requester[why.id]
          /\ asked[why.id].type = "block_ip" /\ Address(asked[why.id].form) = a
       \/ /\ why.by = "playbook"
          /\ why.match.playbook.enabled /\ why.match.playbook.mode = "automatic"
          /\ Matches(why.match.playbook, why.match.finding)
          /\ Address(why.match.finding.target) = a

\* Every action of a playbook that matched is carried out in order, once, also
\* when the one before it failed: what a goroutine has tried and what it has
\* still to do are the whole list, until a restart ends it.  An approval playbook asks a human
\* and does nothing else.
EveryActionTried ==
  crashes = 0 => \A m \in matched :
    LET done == {t \in tried : t[1] = m}
        left == {g \in runs : g.match = m}
    IN
    /\ m.playbook.mode = "dry_run" => done = {} /\ left = {}
    /\ m.playbook.mode # "dry_run" =>
         /\ {t[2] : t \in done} \cup UNION {Current(g)..Len(m.playbook.actions) : g \in left}
              = 1..Len(m.playbook.actions)
         /\ \A s, t \in done : s[2] = t[2] => s = t
         /\ \A t \in done : (t[3] = "asked") = (m.playbook.mode = "approval_required")
=============================================================================
