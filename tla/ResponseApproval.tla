-------------------------- MODULE ResponseApproval --------------------------
(***************************************************************************)
(* Two-person approval of response actions: the HTTP handlers              *)
(* approvalListCreate and approvalAction (internal/server/security_v05.go) *)
(* over the approvals store (internal/approvals/store.go).                 *)
(*                                                                         *)
(* The approving handler takes the store's mutex twice, once in Get and    *)
(* once in Approve, and executes the action in between; each of the three  *)
(* is a step, and so is the audit record that follows.  A request's action *)
(* is not modelled, only whether the response manager applied it (see      *)
(* ResponseRollback for what it does).                                     *)
(***************************************************************************)
EXTENDS Naturals, FiniteSets

CONSTANTS Requests,         \* request identifiers (random, never reused)
          Creators,         \* who creates requests: users, or a playbook
          Approvers,        \* users with response:execute, one handler each
          Nobody,
          MaxSaveFailures,  \* bound on failed writes of approvals.json
          MaxCrashes        \* bound on restarts of the daemon

ASSUME ApprovalAssumption ==
         /\ Nobody \notin Creators \cup Approvers
         /\ {MaxSaveFailures, MaxCrashes} \subseteq Nat

VARIABLES items,      \* Store.items, "none" for a request that is not there
          disk,       \* the content of approvals.json
          handler,    \* what each approver's handler is doing
          requester,  \* who created each request (history)
          applied,    \* times the action of each request was applied (history)
          executors,  \* who had the action of each request applied (history)
          audited,    \* audit records of executions: <<request, user>>
          saveFailures, crashes

vars == <<items, disk, handler, requester, applied, executors, audited,
          saveFailures, crashes>>
history == <<requester, applied, executors>>

Item == [status : {"none", "pending", "approved", "failed"},
         by : Creators \cup {Nobody}, approvedBy : Approvers \cup {Nobody}]
Absent == [status |-> "none", by |-> Nobody, approvedBy |-> Nobody]
Phases == {"idle", "checked", "executed", "recorded"}
Idle == [at |-> "idle", id |-> Nobody, ok |-> FALSE]

Init ==
  /\ items = [id \in Requests |-> Absent] /\ disk = items
  /\ handler = [u \in Approvers |-> Idle]
  /\ requester = [id \in Requests |-> Nobody]
  /\ applied = [id \in Requests |-> 0]
  /\ executors = [id \in Requests |-> {}]
  /\ audited = {}
  /\ saveFailures = 0 /\ crashes = 0

\* saveLocked writes a temporary file and renames it: the file holds all the
\* items, or is left as it was and the caller gets the error.
SaveOK == disk' = items' /\ UNCHANGED saveFailures
SaveFails ==
  /\ saveFailures < MaxSaveFailures /\ saveFailures' = saveFailures + 1
  /\ UNCHANGED disk

\* Store.Create; the item stays in memory also when the save fails.
Create(c, id) ==
  /\ requester[id] = Nobody
  /\ items' = [items EXCEPT ![id] = [Absent EXCEPT !.status = "pending", !.by = c]]
  /\ requester' = [requester EXCEPT ![id] = c]
  /\ SaveOK \/ SaveFails
  /\ UNCHANGED <<handler, applied, executors, audited, crashes>>

\* Mutant: the check for a different user is missing.
CheckAnyone(u, id) ==
  /\ handler[u] = Idle
  /\ items[id].status = "pending"
  /\ handler' = [handler EXCEPT ![u] = [at |-> "checked", id |-> id, ok |-> FALSE]]
  /\ UNCHANGED <<items, disk, history, audited, saveFailures, crashes>>

\* approvalAction reads the request with Get and checks the copy.
Check(u, id) ==
  /\ handler[u] = Idle
  /\ items[id].status = "pending"
  /\ items[id].by # u
  /\ handler' = [handler EXCEPT ![u] = [at |-> "checked", id |-> id, ok |-> FALSE]]
  /\ UNCHANGED <<items, disk, history, audited, saveFailures, crashes>>

\* Response.Execute: the action is applied, or refused or failed.
Execute(u) ==
  /\ handler[u].at = "checked"
  /\ \E ok \in BOOLEAN :
       LET id == handler[u].id IN
       /\ handler' = [handler EXCEPT ![u] = [@ EXCEPT !.at = "executed", !.ok = ok]]
       /\ applied' = IF ok THEN [applied EXCEPT ![id] = @ + 1] ELSE applied
       /\ executors' = IF ok THEN [executors EXCEPT ![id] = @ \cup {u}] ELSE executors
  /\ UNCHANGED <<items, disk, requester, audited, saveFailures, crashes>>

Decided(u) == [items[handler[u].id] EXCEPT !.approvedBy = u,
                 !.status = IF handler[u].ok THEN "approved" ELSE "failed"]

\* Store.Approve writes the outcome into a request that is still pending; a
\* failed save is an error although the item in memory has changed.
Record(u) ==
  /\ handler[u].at = "executed"
  /\ items[handler[u].id].status = "pending"
  /\ items[handler[u].id].by # u
  /\ items' = [items EXCEPT ![handler[u].id] = Decided(u)]
  /\ \/ SaveOK /\ handler' = [handler EXCEPT ![u] = [@ EXCEPT !.at = "recorded"]]
     \/ SaveFails /\ handler' = [handler EXCEPT ![u] = Idle]
  /\ UNCHANGED <<history, audited, crashes>>

\* Store.Approve finds the request decided: the handler replies with an error
\* and writes no audit record.
RecordRefused(u) ==
  /\ handler[u].at = "executed"
  /\ items[handler[u].id].status # "pending"
  /\ handler' = [handler EXCEPT ![u] = Idle]
  /\ UNCHANGED <<items, disk, history, audited, saveFailures, crashes>>

\* Mutant: only failures are audited.
AuditFailures(u) ==
  /\ handler[u].at = "recorded"
  /\ audited' = IF handler[u].ok THEN audited ELSE audited \cup {<<handler[u].id, u>>}
  /\ handler' = [handler EXCEPT ![u] = Idle]
  /\ UNCHANGED <<items, disk, history, saveFailures, crashes>>

AuditExecution(u) ==
  /\ handler[u].at = "recorded"
  /\ audited' = audited \cup {<<handler[u].id, u>>}
  /\ handler' = [handler EXCEPT ![u] = Idle]
  /\ UNCHANGED <<items, disk, history, saveFailures, crashes>>

\* The daemon restarts: New reads approvals.json.
Restart ==
  /\ crashes < MaxCrashes /\ crashes' = crashes + 1
  /\ items' = disk
  /\ handler' = [u \in Approvers |-> Idle]
  /\ UNCHANGED <<disk, history, audited, saveFailures>>

Next ==
  \/ \E c \in Creators, id \in Requests : Create(c, id)
  \/ \E u \in Approvers : \/ \E id \in Requests : Check(u, id)
                          \/ Execute(u) \/ Record(u) \/ RecordRefused(u)
                          \/ AuditExecution(u)
  \/ Restart

Spec == Init /\ [][Next]_vars

-----------------------------------------------------------------------------
\* The types of the store, its file and the handlers.
TypeOK ==
  /\ items \in [Requests -> Item] /\ disk \in [Requests -> Item]
  /\ handler \in [Approvers -> [at : Phases, id : Requests \cup {Nobody}, ok : BOOLEAN]]
  /\ requester \in [Requests -> Creators \cup {Nobody}]
  /\ applied \in [Requests -> Nat]
  /\ executors \in [Requests -> SUBSET Approvers]
  /\ audited \subseteq Requests \X Approvers
  /\ saveFailures \in 0..MaxSaveFailures /\ crashes \in 0..MaxCrashes

\* "A requester cannot approve their own pending action"
\* (docs/AUTH_SECURITY.md:83): nobody gets an action applied that he asked for,
\* and a request stored as approved names a user who did have it applied, in
\* memory and in the file, whatever handlers race for it, saves fail and
\* restarts bring back an older file.
TwoPerson ==
  \A id \in Requests :
    /\ requester[id] \notin executors[id]
    /\ \A x \in {items[id], disk[id]} :
         x.status = "approved" => x.approvedBy \in executors[id]

\* The requests that a single user may approve, in a daemon that has not
\* restarted: two approvers can both execute a request (ExecutesPending), and a
\* restart between the action and the save makes it pending again.
OneApprover ==
  {id \in Requests :
     crashes = 0 /\ \E u \in Approvers : Approvers \ {requester[id]} = {u}}

\* One request causes one action, also when saves fail in between, and its
\* stored outcome is what happened: "failed" means that nothing was applied.
AppliedOnce ==
  \A id \in OneApprover :
    /\ applied[id] <= 1
    /\ items[id].status = "approved" => applied[id] > 0
    /\ items[id].status = "failed" => applied[id] = 0

\* "Security-sensitive actions are written to a tamper-evident ... audit log"
\* (docs/AUTH_SECURITY.md:79): when no handler is at work on a request, every
\* user who had it applied has an audit record.  It needs a decision that could
\* be saved: when Approve returns an error the handler ends before auditEvent.
\* A record names the user stored as the approver, so the second of two racing
\* approvers neither overwrites the decision nor is audited for it, until a
\* restart brings back an older file.
AuditedTruly ==
  /\ saveFailures = 0 => \A id \in OneApprover : \A u \in executors[id] :
       <<id, u>> \in audited \/ (handler[u].id = id /\ handler[u].at # "idle")
  /\ crashes = 0 => \A x \in audited : items[x[1]].approvedBy = x[2]

\* What approvals did can be told from what they left: see the two above.
ExecutionAudited == AppliedOnce /\ AuditedTruly

\* "Identity and approval state are validated before the action executes"
\* (docs/AUTH_SECURITY.md:83): an action starts only while it is pending.
ExecutesPending ==
  [][\A u \in Approvers :
       handler[u].at = "checked" /\ handler'[u].at = "executed"
         => items[handler[u].id].status = "pending"]_vars
=============================================================================
