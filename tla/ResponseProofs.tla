---------------------------- MODULE ResponseProofs ----------------------------
(***************************************************************************)
(* Proofs about ResponseApproval, for any set of requests and of users and *)
(* any number of failed saves and restarts; about ResponseRollback, for    *)
(* any forms of addresses, any finite set of callers, and any number of    *)
(* timers, failed rollbacks and restarts; and about GuardedResponse, for   *)
(* any playbooks, findings, requests and configurations.                   *)
(***************************************************************************)
EXTENDS MCResponse, FiniteSetTheorems, SequenceTheorems, TLAPS

-----------------------------------------------------------------------------
\* A handler at work holds a request somebody else created.
HandlersApart ==
  \A u \in Approvers : handler[u].at # "idle" =>
    /\ handler[u].id \in Requests
    /\ requester[handler[u].id] \notin {u, Nobody}

\* What is stored of a request, in memory or in the file, names its creator.
CreatorsKept ==
  \A id \in Requests : \A x \in {items[id], disk[id]} :
    x.status # "none" => x.by = requester[id] /\ requester[id] # Nobody

\* A handler whose action was applied is among the executors.
ExecutorsKnown ==
  \A u \in Approvers :
    handler[u].at \in {"executed", "recorded"} /\ handler[u].ok => u \in executors[handler[u].id]

\* Nobody executes before a request is created.
NoEarlyExecutor == \A id \in Requests : requester[id] = Nobody => executors[id] = {}

\* TwoPerson and what it rests on, which every step preserves.
Inv == TypeOK /\ HandlersApart /\ CreatorsKept /\ ExecutorsKnown /\ NoEarlyExecutor /\ TwoPerson

-----------------------------------------------------------------------------
\* A user who may approve is not the one nobody created a request for.
LEMMA ApproverIsSomebody ==
  ASSUME NEW u \in Approvers
  PROVE  u # Nobody
  BY ApprovalAssumption

LEMMA InitInv == Init => Inv
<1> SUFFICES ASSUME Init PROVE Inv
  OBVIOUS
<1>1. TypeOK
  BY ApprovalAssumption DEF Init, TypeOK, Item, Absent, Idle, Phases
<1>2. HandlersApart /\ ExecutorsKnown
  BY DEF Init, HandlersApart, ExecutorsKnown, Idle
<1>3. CreatorsKept /\ NoEarlyExecutor
  BY DEF Init, CreatorsKept, NoEarlyExecutor, Absent
<1>4. TwoPerson
  BY DEF Init, TwoPerson, Absent
<1> QED BY <1>1, <1>2, <1>3, <1>4 DEF Inv

\* Whatever a save does, the file holds the old items or the new ones.
LEMMA SavedType ==
  ASSUME TypeOK, items' \in [Requests -> Item], SaveOK \/ SaveFails
  PROVE  /\ disk' \in {disk, items'}
         /\ disk' \in [Requests -> Item] /\ saveFailures' \in 0..MaxSaveFailures
<1>1. CASE SaveOK
  BY <1>1 DEF SaveOK, TypeOK
<1>2. CASE SaveFails
  BY <1>2, ApprovalAssumption DEF SaveFails, TypeOK
<1> QED BY <1>1, <1>2

LEMMA CreateInv ==
  ASSUME Inv, NEW c \in Creators, NEW id \in Requests, Create(c, id)
  PROVE  Inv'
<1> DEFINE new == [Absent EXCEPT !.status = "pending", !.by = c]
<1>1. /\ items' = [items EXCEPT ![id] = new]
      /\ requester' = [requester EXCEPT ![id] = c]
      /\ requester[id] = Nobody /\ c # Nobody
      /\ UNCHANGED <<handler, applied, executors, audited, crashes>>
  BY ApprovalAssumption DEF Create
<1>2. new \in Item /\ new.status = "pending" /\ new.by = c
  BY DEF Item, Absent
<1> HIDE DEF new
<1>3. items' \in [Requests -> Item]
  BY <1>1, <1>2 DEF Inv, TypeOK
<1>4. disk' \in {disk, items'} /\ disk' \in [Requests -> Item] /\ saveFailures' \in 0..MaxSaveFailures
  BY <1>3, SavedType DEF Inv, Create
<1>5. TypeOK'
  BY <1>1, <1>3, <1>4 DEF Inv, TypeOK
<1>6. HandlersApart' /\ ExecutorsKnown' /\ NoEarlyExecutor'
  BY <1>1 DEF Inv, TypeOK, HandlersApart, ExecutorsKnown, NoEarlyExecutor
<1>7. /\ \A r \in Requests : r # id => items'[r] = items[r] /\ disk'[r] \in {disk[r], items[r]}
      /\ items'[id] = new /\ disk'[id] \in {disk[id], new}
      /\ disk[id].status = "none"
  BY <1>1, <1>4 DEF Inv, TypeOK, CreatorsKept
<1>8. CreatorsKept'
  BY <1>1, <1>2, <1>7 DEF Inv, TypeOK, CreatorsKept
<1>9. TwoPerson'
  <2>1. executors[id] = {}
    BY <1>1 DEF Inv, NoEarlyExecutor
  <2>2. \A r \in Requests : r # id => requester'[r] = requester[r]
    BY <1>1 DEF Inv, TypeOK
  <2> QED BY <1>1, <1>2, <1>7, <2>1, <2>2 DEF Inv, TwoPerson
<1> QED BY <1>5, <1>6, <1>8, <1>9 DEF Inv

LEMMA CheckInv ==
  ASSUME Inv, NEW u \in Approvers, NEW id \in Requests, Check(u, id)
  PROVE  Inv'
<1>1. /\ handler' = [handler EXCEPT ![u] = [at |-> "checked", id |-> id, ok |-> FALSE]]
      /\ UNCHANGED <<items, disk, requester, applied, executors, audited, saveFailures, crashes>>
  BY DEF Check, history
<1>2. requester[id] \notin {u, Nobody}
  BY DEF Check, Inv, CreatorsKept
<1>3. TypeOK'
  BY <1>1 DEF Inv, TypeOK, Phases
<1>4. HandlersApart'
  BY <1>1, <1>2 DEF Inv, TypeOK, HandlersApart
<1>5. ExecutorsKnown'
  BY <1>1 DEF Inv, TypeOK, ExecutorsKnown
<1>6. CreatorsKept' /\ NoEarlyExecutor' /\ TwoPerson'
  BY <1>1 DEF Inv, CreatorsKept, NoEarlyExecutor, TwoPerson
<1> QED BY <1>3, <1>4, <1>5, <1>6 DEF Inv

LEMMA ExecuteInv ==
  ASSUME Inv, NEW u \in Approvers, Execute(u)
  PROVE  Inv'
<1> DEFINE id == handler[u].id
<1>1. PICK ok \in BOOLEAN :
        /\ handler' = [handler EXCEPT ![u] = [@ EXCEPT !.at = "executed", !.ok = ok]]
        /\ applied' = IF ok THEN [applied EXCEPT ![id] = @ + 1] ELSE applied
        /\ executors' = IF ok THEN [executors EXCEPT ![id] = @ \cup {u}] ELSE executors
  BY DEF Execute
<1>2. UNCHANGED <<items, disk, requester, audited, saveFailures, crashes>> /\ handler[u].at = "checked"
  BY DEF Execute
<1>3. id \in Requests /\ requester[id] \notin {u, Nobody}
  BY <1>2 DEF Inv, HandlersApart
<1>4. /\ handler'[u] = [at |-> "executed", id |-> id, ok |-> ok]
      /\ \A v \in Approvers : v # u => handler'[v] = handler[v]
  BY <1>1 DEF Inv, TypeOK
<1>5. /\ \A r \in Requests : executors[r] \subseteq executors'[r]
      /\ \A r \in Requests : r # id => executors'[r] = executors[r]
      /\ executors'[id] \subseteq executors[id] \cup {u}
      /\ ok => u \in executors'[id]
  BY <1>1, <1>3 DEF Inv, TypeOK
<1>6. TypeOK'
  <2>1. handler' \in [Approvers -> [at : Phases, id : Requests \cup {Nobody}, ok : BOOLEAN]]
    BY <1>1, <1>3, <1>4 DEF Inv, TypeOK, Phases
  <2>2. applied' \in [Requests -> Nat] /\ executors' \in [Requests -> SUBSET Approvers]
    BY <1>1, <1>3 DEF Inv, TypeOK
  <2> QED BY <1>2, <2>1, <2>2 DEF Inv, TypeOK
<1>7. HandlersApart'
  BY <1>2, <1>3, <1>4 DEF Inv, HandlersApart
<1>8. ExecutorsKnown'
  <2> SUFFICES ASSUME NEW v \in Approvers,
                      handler'[v].at \in {"executed", "recorded"}, handler'[v].ok
               PROVE  v \in executors'[handler'[v].id]
    BY DEF ExecutorsKnown
  <2>1. CASE v = u
    BY <1>4, <1>5, <2>1
  <2>2. CASE v # u
    <3>1. v \in executors[handler[v].id] /\ handler[v].id \in Requests
      BY <1>4, <2>2 DEF Inv, ExecutorsKnown, HandlersApart
    <3> QED BY <1>4, <1>5, <2>2, <3>1
  <2> QED BY <2>1, <2>2
<1>9. NoEarlyExecutor' /\ CreatorsKept'
  BY <1>2, <1>3, <1>5 DEF Inv, NoEarlyExecutor, CreatorsKept
<1>10. TwoPerson'
  BY <1>2, <1>3, <1>5 DEF Inv, TwoPerson
<1> QED BY <1>6, <1>7, <1>8, <1>9, <1>10 DEF Inv

LEMMA RecordInv ==
  ASSUME Inv, NEW u \in Approvers, Record(u)
  PROVE  Inv'
<1> DEFINE id == handler[u].id
           new == Decided(u)
<1>1. /\ handler[u].at = "executed" /\ items[id].status = "pending"
      /\ items' = [items EXCEPT ![id] = new]
      /\ UNCHANGED <<requester, applied, executors, audited, crashes>>
      /\ SaveOK \/ SaveFails
  BY DEF Record, history
<1>2. id \in Requests /\ requester[id] \notin {u, Nobody}
  BY <1>1 DEF Inv, HandlersApart
<1>3. /\ new.by = items[id].by /\ new.approvedBy = u
      /\ new.status = (IF handler[u].ok THEN "approved" ELSE "failed")
      /\ new \in Item
  <2>1. items[id] \in Item
    BY <1>2 DEF Inv, TypeOK
  <2>2. new = [items[id] EXCEPT !.approvedBy = u,
                               !.status = IF handler[u].ok THEN "approved" ELSE "failed"]
    BY DEF Decided
  <2> QED BY <2>1, <2>2 DEF Item
<1>4. items' \in [Requests -> Item]
  BY <1>1, <1>3 DEF Inv, TypeOK
<1>5. disk' \in {disk, items'} /\ disk' \in [Requests -> Item] /\ saveFailures' \in 0..MaxSaveFailures
  BY <1>1, <1>4, SavedType DEF Inv
<1>6. handler' = [handler EXCEPT ![u] = [@ EXCEPT !.at = "recorded"]] \/ handler' = [handler EXCEPT ![u] = Idle]
  BY DEF Record
<1>7. /\ handler'[u] \in {[at |-> "recorded", id |-> id, ok |-> handler[u].ok], Idle}
      /\ \A v \in Approvers : v # u => handler'[v] = handler[v]
  BY <1>6 DEF Inv, TypeOK
<1>8. TypeOK'
  <2>1. handler[u] \in [at : Phases, id : Requests \cup {Nobody}, ok : BOOLEAN]
    BY DEF Inv, TypeOK
  <2>2. /\ [handler[u] EXCEPT !.at = "recorded"] \in [at : Phases, id : Requests \cup {Nobody}, ok : BOOLEAN]
        /\ Idle \in [at : Phases, id : Requests \cup {Nobody}, ok : BOOLEAN]
    BY <2>1 DEF Phases, Idle
  <2>3. handler' \in [Approvers -> [at : Phases, id : Requests \cup {Nobody}, ok : BOOLEAN]]
    BY <1>6, <2>2 DEF Inv, TypeOK
  <2> QED BY <1>1, <1>4, <1>5, <2>3 DEF Inv, TypeOK
<1>9. HandlersApart'
  BY <1>1, <1>2, <1>7 DEF Inv, HandlersApart, Idle
<1>10. ExecutorsKnown'
  BY <1>1, <1>7 DEF Inv, ExecutorsKnown, Idle
<1>11. /\ \A r \in Requests : r # id => items'[r] = items[r] /\ disk'[r] \in {disk[r], items[r]}
       /\ items'[id] = new /\ disk'[id] \in {disk[id], new}
  BY <1>1, <1>2, <1>5 DEF Inv, TypeOK
<1>12. CreatorsKept' /\ NoEarlyExecutor'
  BY <1>1, <1>2, <1>3, <1>11 DEF Inv, CreatorsKept, NoEarlyExecutor
<1>13. TwoPerson'
  <2>1. new.status = "approved" => new.approvedBy \in executors[id]
    BY <1>1, <1>3 DEF Inv, ExecutorsKnown
  <2> QED BY <1>1, <1>11, <2>1 DEF Inv, TwoPerson
<1> QED BY <1>8, <1>9, <1>10, <1>12, <1>13 DEF Inv

\* A handler that ends disturbs nothing but itself and the audit records.
LEMMA HandlerEndsInv ==
  ASSUME Inv, NEW u \in Approvers, RecordRefused(u) \/ AuditExecution(u)
  PROVE  Inv'
<1>1. /\ handler' = [handler EXCEPT ![u] = Idle] /\ handler[u].at # "idle"
      /\ audited' \in {audited, audited \cup {<<handler[u].id, u>>}}
      /\ UNCHANGED <<items, disk, requester, applied, executors, saveFailures, crashes>>
  BY DEF RecordRefused, AuditExecution, history
<1>2. handler[u].id \in Requests
  BY <1>1 DEF Inv, HandlersApart
<1>3. TypeOK'
  BY <1>1, <1>2 DEF Inv, TypeOK, Idle, Phases
<1>4. HandlersApart' /\ ExecutorsKnown'
  BY <1>1 DEF Inv, TypeOK, HandlersApart, ExecutorsKnown, Idle
<1>5. CreatorsKept' /\ NoEarlyExecutor' /\ TwoPerson'
  BY <1>1 DEF Inv, CreatorsKept, NoEarlyExecutor, TwoPerson
<1> QED BY <1>3, <1>4, <1>5 DEF Inv

LEMMA RestartInv == ASSUME Inv, Restart PROVE Inv'
<1>1. /\ items' = disk /\ disk' = disk /\ handler' = [u \in Approvers |-> Idle]
      /\ crashes' \in 0..MaxCrashes
      /\ UNCHANGED <<requester, applied, executors, audited, saveFailures>>
  BY ApprovalAssumption DEF Restart, history, Inv, TypeOK
<1>2. TypeOK'
  BY <1>1 DEF Inv, TypeOK, Idle, Phases
<1>3. HandlersApart' /\ ExecutorsKnown'
  BY <1>1 DEF HandlersApart, ExecutorsKnown, Idle
<1>4. CreatorsKept' /\ NoEarlyExecutor' /\ TwoPerson'
  BY <1>1 DEF Inv, CreatorsKept, NoEarlyExecutor, TwoPerson
<1> QED BY <1>2, <1>3, <1>4 DEF Inv

LEMMA NextInv == Inv /\ [Next]_vars => Inv'
<1> SUFFICES ASSUME Inv, [Next]_vars PROVE Inv'
  OBVIOUS
<1>1. ASSUME NEW c \in Creators, NEW id \in Requests, Create(c, id) PROVE Inv'
  BY <1>1, CreateInv
<1>2. ASSUME NEW u \in Approvers, NEW id \in Requests, Check(u, id) PROVE Inv'
  BY <1>2, CheckInv
<1>3. ASSUME NEW u \in Approvers, Execute(u) PROVE Inv'
  BY <1>3, ExecuteInv
<1>4. ASSUME NEW u \in Approvers, Record(u) PROVE Inv'
  BY <1>4, RecordInv
<1>5. ASSUME NEW u \in Approvers, RecordRefused(u) \/ AuditExecution(u) PROVE Inv'
  BY <1>5, HandlerEndsInv
<1>6. CASE Restart
  BY <1>6, RestartInv
<1>7. CASE UNCHANGED vars
  BY <1>7 DEF vars, Inv, TypeOK, HandlersApart, CreatorsKept, ExecutorsKnown, NoEarlyExecutor, TwoPerson
<1> QED BY <1>1, <1>2, <1>3, <1>4, <1>5, <1>6, <1>7 DEF Next

\* "A requester cannot approve their own pending action"
\* (docs/AUTH_SECURITY.md:83): for any requests and users, nobody gets an action
\* applied that he asked for, and a stored approval names one who did.
THEOREM TwoPersonCorrect == Spec => []TwoPerson
<1>1. Inv => TwoPerson
  BY DEF Inv
<1> QED BY <1>1, InitInv, NextInv, PTL DEF Spec

\* The store, its file and the handlers keep their types.
THEOREM ApprovalTypeCorrect == Spec => []TypeOK
<1>1. Inv => TypeOK
  BY DEF Inv
<1> QED BY <1>1, InitInv, NextInv, PTL DEF Spec

-----------------------------------------------------------------------------
\* What makes an execution told truly.  A handler is on a request from the check
\* to the audit record; until the daemon restarts, a request that nobody created
\* is untouched, and who holds a recorded decision or its audit record is the
\* user stored with it.
On(u, id) == handler[u].at # "idle" /\ handler[u].id = id
Undone(id) == applied[id] = 0 /\ executors[id] = {}
Untouched ==
  \A id \in Requests : requester[id] = Nobody => items[id].status = "none" /\ Undone(id)
DecidedBy(id, u) ==
  items[id].status \in {"approved", "failed"} /\ items[id].approvedBy = u
Credited ==
  /\ \A u \in Approvers : handler[u].at = "recorded" => DecidedBy(handler[u].id, u)
  /\ \A x \in audited : DecidedBy(x[1], x[2])

\* The course of a request: nothing was applied until its handler has executed
\* it, and after that applied and the executors are what the handler and then
\* the stored decision say; an executor is audited or on the way to it.
Course(id) ==
  /\ \A u \in Approvers : On(u, id) =>
       /\ handler[u].at \in {"checked", "executed"} => items[id].status = "pending"
       /\ handler[u].at = "executed" =>
            IF handler[u].ok THEN applied[id] = 1 /\ executors[id] = {u} ELSE Undone(id)
  /\ items[id].status \in {"none", "pending"}
       => Undone(id) \/ \E u \in Approvers : On(u, id) /\ handler[u].at = "executed"
  /\ items[id].status = "approved" => applied[id] = 1
  /\ items[id].status = "failed" => Undone(id)
  /\ saveFailures = 0 => \A u \in executors[id] : <<id, u>> \in audited \/ On(u, id)

ToldTruly ==
  crashes = 0 => Untouched /\ Credited /\ \A id \in OneApprover : Course(id)

\* The users who may approve a request of OneApprover are one.
LEMMA OnlyApprover ==
  ASSUME NEW id \in OneApprover, NEW u \in Approvers, NEW v \in Approvers,
         requester[id] \notin {u, v}
  PROVE  u = v
  BY DEF OneApprover

\* While the handler of a user is on a request of OneApprover, no other is.
LEMMA OnlyHandler ==
  ASSUME Inv, NEW id \in OneApprover, NEW u \in Approvers, NEW v \in Approvers,
         requester[id] # u, On(v, id)
  PROVE  u = v
<1>1. requester[id] # v
  BY DEF Inv, HandlersApart, On
<1> QED BY <1>1, OnlyApprover

\* A step that leaves a request and the handlers on it alone keeps its course.
LEMMA CourseFrame ==
  ASSUME NEW id \in Requests, Course(id),
         items'[id] = items[id], applied'[id] = applied[id], executors'[id] = executors[id],
         \A u \in Approvers : handler'[u] = handler[u] \/ (~On(u, id) /\ ~On(u, id)'),
         audited \subseteq audited', saveFailures' = 0 => saveFailures = 0,
         executors[id] \subseteq Approvers
  PROVE  Course(id)'
  BY DEF Course, On, Undone

\* Every step keeps the course of the requests it is not about.
LEMMA OthersKeepCourse ==
  ASSUME Inv, ToldTruly, crashes = 0, crashes' = 0, NEW id \in Requests,
         \A r \in Requests \ {id} : /\ requester'[r] = requester[r]
                                   /\ items'[r] = items[r] /\ applied'[r] = applied[r]
                                   /\ executors'[r] = executors[r]
         , \A u \in Approvers : \/ handler'[u] = handler[u]
                               \/ /\ handler[u].at = "idle" \/ handler[u].id = id
                                  /\ handler'[u].at = "idle" \/ handler'[u].id = id,
         audited \subseteq audited', saveFailures' = 0 => saveFailures = 0
  PROVE  \A r \in OneApprover' : r # id => Course(r)'
<1> SUFFICES ASSUME NEW r \in OneApprover', r # id PROVE Course(r)'
  OBVIOUS
<1>1. r \in Requests /\ r \in OneApprover
  BY DEF OneApprover
<1>2. Course(r) /\ executors[r] \subseteq Approvers
  BY <1>1 DEF ToldTruly, Inv, TypeOK
<1>3. \A u \in Approvers : handler'[u] = handler[u] \/ (~On(u, r) /\ ~On(u, r)')
  BY DEF On
<1> QED BY <1>1, <1>2, <1>3, CourseFrame

LEMMA CreateTold ==
  ASSUME Inv, ToldTruly, NEW c \in Creators, NEW id \in Requests, Create(c, id), crashes' = 0
  PROVE  ToldTruly'
<1> DEFINE new == [Absent EXCEPT !.status = "pending", !.by = c]
<1>1. /\ items' = [items EXCEPT ![id] = new]
      /\ requester' = [requester EXCEPT ![id] = c]
      /\ requester[id] = Nobody /\ c # Nobody
      /\ UNCHANGED <<handler, applied, executors, audited, crashes>>
  BY ApprovalAssumption DEF Create
<1>2. /\ items'[id] = new /\ requester'[id] = c
      /\ \A r \in Requests \ {id} : items'[r] = items[r] /\ requester'[r] = requester[r]
  BY <1>1 DEF Inv, TypeOK
<1>3. new.status = "pending"
  BY DEF Absent
<1> HIDE DEF new
<1>4. items[id].status = "none" /\ Undone(id) /\ crashes = 0
  BY <1>1 DEF ToldTruly, Untouched
<1>5. \A u \in Approvers : ~On(u, id)
  BY <1>1 DEF Inv, HandlersApart, On
<1>6. saveFailures' = 0 => saveFailures = 0
  BY DEF Create, SaveOK, SaveFails, Inv, TypeOK
<1>7. Untouched'
  BY <1>1, <1>2, <1>4 DEF ToldTruly, Untouched, Undone
<1>8. Credited'
  <2>1. \A u \in Approvers : handler[u].at # "idle" => handler[u].id \in Requests \ {id}
    BY <1>5 DEF On, Inv, HandlersApart
  <2>2. \A x \in audited : x[1] \in Requests \ {id}
    BY <1>4 DEF ToldTruly, Credited, DecidedBy, Inv, TypeOK
  <2> QED BY <1>1, <1>2, <1>4, <2>1, <2>2 DEF ToldTruly, Credited, DecidedBy
<1>9. Course(id)'
  BY <1>1, <1>2, <1>3, <1>4, <1>5 DEF Course, On, Undone
<1>10. \A r \in OneApprover' : r # id => Course(r)'
  BY <1>1, <1>2, <1>4, <1>6, OthersKeepCourse
<1> QED BY <1>7, <1>8, <1>9, <1>10 DEF ToldTruly

LEMMA CheckTold ==
  ASSUME Inv, ToldTruly, NEW u \in Approvers, NEW id \in Requests, Check(u, id), crashes' = 0
  PROVE  ToldTruly'
<1>1. /\ handler' = [handler EXCEPT ![u] = [at |-> "checked", id |-> id, ok |-> FALSE]]
      /\ handler[u] = Idle /\ items[id].status = "pending" /\ requester[id] # u
      /\ UNCHANGED <<items, disk, requester, applied, executors, audited, saveFailures, crashes>>
  BY DEF Check, history, Inv, CreatorsKept
<1>2. /\ handler'[u] = [at |-> "checked", id |-> id, ok |-> FALSE]
      /\ \A v \in Approvers \ {u} : handler'[v] = handler[v]
  BY <1>1 DEF Inv, TypeOK
<1>3. Untouched' /\ Credited'
  BY <1>1, <1>2 DEF ToldTruly, Untouched, Undone, Credited, DecidedBy
<1>4. \A r \in OneApprover' : r # id => Course(r)'
  BY <1>1, <1>2, OthersKeepCourse DEF Idle
<1>5. ASSUME id \in OneApprover' PROVE Course(id)'
  <2>1. id \in OneApprover /\ Course(id)
    BY <1>1, <1>5 DEF OneApprover, ToldTruly
  <2>2. \A v \in Approvers : ~On(v, id)
    BY <1>1, <2>1, OnlyHandler DEF On, Idle
  <2>3. Undone(id)
    BY <1>1, <2>1, <2>2 DEF Course
  <2> QED BY <1>1, <1>2, <2>2, <2>3 DEF Course, On, Undone
<1> QED BY <1>3, <1>4, <1>5 DEF ToldTruly

LEMMA ExecuteTold ==
  ASSUME Inv, ToldTruly, NEW u \in Approvers, Execute(u), crashes' = 0
  PROVE  ToldTruly'
<1>0. PICK id : id = handler[u].id
  OBVIOUS
<1>1. PICK ok \in BOOLEAN :
        /\ handler' = [handler EXCEPT ![u] = [@ EXCEPT !.at = "executed", !.ok = ok]]
        /\ applied' = IF ok THEN [applied EXCEPT ![id] = @ + 1] ELSE applied
        /\ executors' = IF ok THEN [executors EXCEPT ![id] = @ \cup {u}] ELSE executors
  BY <1>0 DEF Execute
<1>2. UNCHANGED <<items, disk, requester, audited, saveFailures, crashes>> /\ handler[u].at = "checked"
  BY DEF Execute
<1>3. id \in Requests /\ requester[id] \notin {u, Nobody} /\ On(u, id)
  BY <1>0, <1>2 DEF Inv, HandlersApart, On
<1>4. /\ handler'[u] = [at |-> "executed", id |-> id, ok |-> ok]
      /\ \A v \in Approvers \ {u} : handler'[v] = handler[v]
      /\ \A r \in Requests \ {id} : executors'[r] = executors[r] /\ applied'[r] = applied[r]
      /\ ok => executors'[id] = executors[id] \cup {u} /\ applied'[id] = applied[id] + 1
      /\ ~ok => executors'[id] = executors[id] /\ applied'[id] = applied[id]
  BY <1>0, <1>1, <1>2, <1>3 DEF Inv, TypeOK
<1>5. Untouched'
  BY <1>2, <1>3, <1>4 DEF ToldTruly, Untouched, Undone
<1>6. Credited'
  BY <1>2, <1>4 DEF ToldTruly, Credited, DecidedBy
<1>7. \A r \in OneApprover' : r # id => Course(r)'
  BY <1>2, <1>3, <1>4, <1>0, OthersKeepCourse
<1>8. ASSUME id \in OneApprover' PROVE Course(id)'
  <2>1. id \in OneApprover /\ Course(id)
    BY <1>2, <1>8 DEF OneApprover, ToldTruly
  <2>2. \A v \in Approvers : On(v, id) => v = u
    BY <1>3, <2>1, OnlyHandler
  <2>3. items[id].status = "pending" /\ Undone(id)
    BY <1>2, <1>3, <2>1, <2>2 DEF Course
  <2>4. \A v \in Approvers : On(v, id)' => v = u
    BY <1>4, <2>2 DEF On
  <2> QED BY <1>2, <1>4, <2>3, <2>4 DEF Course, On, Undone
<1> QED BY <1>2, <1>5, <1>6, <1>7, <1>8 DEF ToldTruly

LEMMA RecordTold ==
  ASSUME Inv, ToldTruly, NEW u \in Approvers, Record(u), crashes' = 0
  PROVE  ToldTruly'
<1>0. PICK id : id = handler[u].id
  OBVIOUS
<1> DEFINE new == Decided(u)
<1>1. /\ handler[u].at = "executed" /\ items[id].status = "pending"
      /\ items' = [items EXCEPT ![id] = new]
      /\ UNCHANGED <<requester, applied, executors, audited, crashes>>
  BY <1>0 DEF Record, history
<1>2. id \in Requests /\ requester[id] \notin {u, Nobody} /\ On(u, id)
  BY <1>0, <1>1 DEF Inv, HandlersApart, On
<1>3. /\ new.approvedBy = u
      /\ new.status = (IF handler[u].ok THEN "approved" ELSE "failed")
  <2>1. items[id] \in Item
    BY <1>2 DEF Inv, TypeOK
  <2>2. new = [items[id] EXCEPT !.approvedBy = u,
                               !.status = IF handler[u].ok THEN "approved" ELSE "failed"]
    BY <1>0 DEF Decided
  <2> QED BY <2>1, <2>2 DEF Item
<1>4. /\ \/ saveFailures' = saveFailures /\ handler'[u].at = "recorded" /\ handler'[u].id = id
         \/ saveFailures' # 0 /\ handler'[u].at = "idle"
      /\ \A v \in Approvers \ {u} : handler'[v] = handler[v]
  <2>1. /\ handler[u] \in [at : Phases, id : Requests \cup {Nobody}, ok : BOOLEAN]
        /\ saveFailures \in Nat
    BY DEF Inv, TypeOK
  <2>2. CASE SaveOK /\ handler' = [handler EXCEPT ![u] = [@ EXCEPT !.at = "recorded"]]
    BY <1>0, <2>1, <2>2 DEF SaveOK, Inv, TypeOK
  <2>3. CASE SaveFails /\ handler' = [handler EXCEPT ![u] = Idle]
    BY <2>1, <2>3 DEF SaveFails, Inv, TypeOK, Idle
  <2> QED BY <2>2, <2>3 DEF Record
<1>5. items'[id] = new /\ \A r \in Requests \ {id} : items'[r] = items[r]
  BY <1>1, <1>2 DEF Inv, TypeOK
<1> HIDE DEF new
<1>6. Untouched'
  BY <1>1, <1>2, <1>5 DEF ToldTruly, Untouched, Undone
<1>7. Credited'
  <2>1. DecidedBy(id, u)'
    BY <1>3, <1>5 DEF DecidedBy
  <2>2. ASSUME NEW r \in Requests, NEW v, DecidedBy(r, v) PROVE DecidedBy(r, v)'
    <3>1. r # id
      BY <1>1, <2>2 DEF DecidedBy
    <3> QED BY <1>5, <2>2, <3>1 DEF DecidedBy
  <2>3. ASSUME NEW v \in Approvers, handler'[v].at = "recorded"
        PROVE  /\ items'[handler'[v].id].status \in {"approved", "failed"}
               /\ items'[handler'[v].id].approvedBy = v
    <3>1. CASE v = u
      BY <1>4, <2>1, <2>3, <3>1 DEF DecidedBy
    <3>2. CASE v # u
      <4>1. DecidedBy(handler[v].id, v) /\ handler[v].id \in Requests /\ handler'[v] = handler[v]
        BY <1>1, <1>4, <2>3, <3>2 DEF ToldTruly, Credited, Inv, HandlersApart
      <4> QED BY <2>2, <4>1 DEF DecidedBy
    <3> QED BY <3>1, <3>2
  <2>4. ASSUME NEW x \in audited PROVE DecidedBy(x[1], x[2])'
    <3>1. DecidedBy(x[1], x[2]) /\ x[1] \in Requests
      BY <1>1 DEF ToldTruly, Credited, Inv, TypeOK
    <3> QED BY <2>2, <3>1 DEF DecidedBy
  <2> QED BY <1>1, <2>3, <2>4 DEF Credited, DecidedBy
<1>8. \A r \in OneApprover' : r # id => Course(r)'
  BY <1>1, <1>2, <1>4, <1>5, <1>0, OthersKeepCourse
<1>9. ASSUME id \in OneApprover' PROVE Course(id)'
  <2>1. id \in OneApprover /\ Course(id)
    BY <1>1, <1>9 DEF OneApprover, ToldTruly
  <2>2. \A v \in Approvers : On(v, id) => v = u
    BY <1>2, <2>1, OnlyHandler
  <2>3. IF handler[u].ok THEN applied[id] = 1 /\ executors[id] = {u} ELSE Undone(id)
    BY <1>1, <1>2, <2>1 DEF Course
  <2>4. \A v \in Approvers : On(v, id)' => v = u
    BY <1>4, <2>2 DEF On
  <2> QED BY <1>1, <1>3, <1>4, <1>5, <2>3, <2>4 DEF Course, On, Undone
<1> QED BY <1>1, <1>6, <1>7, <1>8, <1>9 DEF ToldTruly

LEMMA HandlerEndsTold ==
  ASSUME Inv, ToldTruly, NEW u \in Approvers, RecordRefused(u) \/ AuditExecution(u),
         crashes' = 0
  PROVE  ToldTruly'
<1>0. PICK id : id = handler[u].id
  OBVIOUS
<1>1. /\ handler' = [handler EXCEPT ![u] = Idle] /\ handler[u].at # "idle"
      /\ UNCHANGED <<items, disk, requester, applied, executors, saveFailures, crashes>>
      /\ \/ handler[u].at = "executed" /\ items[id].status # "pending" /\ audited' = audited
         \/ handler[u].at = "recorded" /\ audited' = audited \cup {<<id, u>>}
  BY <1>0 DEF RecordRefused, AuditExecution, history
<1>2. id \in Requests /\ requester[id] # u /\ On(u, id)
  BY <1>0, <1>1 DEF Inv, HandlersApart, On
<1>3. handler'[u].at = "idle" /\ \A v \in Approvers \ {u} : handler'[v] = handler[v]
  BY <1>1 DEF Inv, TypeOK, Idle
<1>4. handler[u].at = "recorded" => DecidedBy(id, u)
  BY <1>0, <1>1 DEF ToldTruly, Credited
<1>5. Untouched' /\ Credited'
  BY <1>1, <1>3, <1>4 DEF ToldTruly, Untouched, Undone, Credited, DecidedBy
<1>6. \A r \in OneApprover' : r # id => Course(r)'
  BY <1>1, <1>2, <1>3, <1>0, OthersKeepCourse
<1>7. ASSUME id \in OneApprover' PROVE Course(id)'
  <2>1. id \in OneApprover /\ Course(id)
    BY <1>1, <1>7 DEF OneApprover, ToldTruly
  <2>2. handler[u].at = "recorded" /\ audited' = audited \cup {<<id, u>>}
    BY <1>1, <1>2, <2>1 DEF Course
  <2>3. DecidedBy(id, u)
    BY <1>4, <2>2
  <2>4. \A v \in Approvers : v # u => (On(v, id)' <=> On(v, id))
    BY <1>3 DEF On
  <2>5. executors[id] \subseteq Approvers
    BY <1>2 DEF Inv, TypeOK
  <2>6. \A v \in Approvers : ~On(v, id)'
    BY <1>2, <1>3, <2>1, <2>4, OnlyHandler DEF On
  <2> QED BY <1>1, <2>1, <2>2, <2>3, <2>4, <2>5, <2>6 DEF Course, Undone, DecidedBy
<1> QED BY <1>1, <1>5, <1>6, <1>7 DEF ToldTruly

LEMMA ToldStep == Inv /\ ToldTruly /\ [Next]_vars => ToldTruly'
<1> SUFFICES ASSUME Inv, ToldTruly, [Next]_vars, crashes' = 0 PROVE ToldTruly'
  BY DEF ToldTruly
<1>1. ASSUME NEW c \in Creators, NEW id \in Requests, Create(c, id) PROVE ToldTruly'
  BY <1>1, CreateTold
<1>2. ASSUME NEW u \in Approvers, NEW id \in Requests, Check(u, id) PROVE ToldTruly'
  BY <1>2, CheckTold
<1>3. ASSUME NEW u \in Approvers, Execute(u) PROVE ToldTruly'
  BY <1>3, ExecuteTold
<1>4. ASSUME NEW u \in Approvers, Record(u) PROVE ToldTruly'
  BY <1>4, RecordTold
<1>5. ASSUME NEW u \in Approvers, RecordRefused(u) \/ AuditExecution(u) PROVE ToldTruly'
  BY <1>5, HandlerEndsTold
<1>6. CASE Restart
  BY <1>6 DEF Restart, Inv, TypeOK
<1>7. CASE UNCHANGED vars
  BY <1>7 DEF vars, ToldTruly, Untouched, Undone, Credited, DecidedBy, OneApprover, Course, On
<1> QED BY <1>1, <1>2, <1>3, <1>4, <1>5, <1>6, <1>7 DEF Next

LEMMA ToldInit == Init => ToldTruly
  BY DEF Init, ToldTruly, Untouched, Undone, Credited, Course, On, Idle, Absent, OneApprover

\* For any requests and users, and any failed saves: a request that one user may
\* approve is applied once at most and its stored outcome is what happened; each
\* who had one applied is audited, and an audit record names the user stored with
\* the decision.
THEOREM ExecutionAuditedCorrect == Spec => []ExecutionAudited
<1>1. Inv /\ ToldTruly => ExecutionAudited
  <2> SUFFICES ASSUME Inv, ToldTruly PROVE ExecutionAudited
    OBVIOUS
  <2>1. ASSUME NEW id \in OneApprover PROVE Course(id) /\ crashes = 0
    BY DEF ToldTruly, OneApprover
  <2>2. AppliedOnce
    <3> SUFFICES ASSUME NEW id \in OneApprover
                 PROVE  /\ applied[id] <= 1
                        /\ items[id].status = "approved" => applied[id] > 0
                        /\ items[id].status = "failed" => applied[id] = 0
      BY DEF AppliedOnce
    <3>1. items[id].status \in {"none", "pending", "approved", "failed"}
      BY DEF Inv, TypeOK, Item, OneApprover
    <3>2. applied[id] \in {0, 1}
      BY <2>1, <3>1 DEF Course, Undone
    <3> QED BY <2>1, <3>2 DEF Course, Undone
  <2>3. AuditedTruly
    <3>1. ASSUME saveFailures = 0, NEW id \in OneApprover, NEW u \in executors[id]
          PROVE  <<id, u>> \in audited \/ (handler[u].id = id /\ handler[u].at # "idle")
      BY <2>1, <3>1 DEF Course, On
    <3>2. crashes = 0 => \A x \in audited : items[x[1]].approvedBy = x[2]
      BY DEF ToldTruly, Credited, DecidedBy
    <3> QED BY <3>1, <3>2 DEF AuditedTruly
  <2> QED BY <2>2, <2>3 DEF ExecutionAudited
<1> QED BY <1>1, InitInv, NextInv, ToldInit, ToldStep, PTL DEF Spec

-----------------------------------------------------------------------------
Arming == {c \in Callers : arming[c] # NoForm}

\* A timer that was never created is blank, one that was has a form for a key.
Blank == \A t \in TimerIds : /\ timers[t].state = "unused" => timers[t] = Unused
                             /\ timers[t].state # "unused" => timers[t].key \in Forms

\* Every caller that has blocked finds a timer to arm: the guard of Block.
Room == Cardinality(Arming) <= Cardinality(Free)

TimersInv == TimersTypeOK /\ Blank /\ Room /\ TimedBlockHasTimer

-----------------------------------------------------------------------------
LEMMA TimersFinite == IsFiniteSet(Arming) /\ IsFiniteSet(Free)
<1>1. IsFiniteSet(TimerIds)
  BY FS_Interval, RollbackAssumption DEF TimerIds
<1> QED BY <1>1, FS_Subset, RollbackAssumption DEF Arming, Free

LEMMA TimersFiniteNext == IsFiniteSet(Arming') /\ IsFiniteSet(Free')
<1>1. IsFiniteSet(TimerIds)
  BY FS_Interval, RollbackAssumption DEF TimerIds
<1>2. Arming' \in SUBSET Callers /\ Free' \in SUBSET TimerIds
  BY DEF Arming, Free
<1> QED BY <1>1, <1>2, FS_Subset, RollbackAssumption

\* A caller at work takes one unused timer, which is blank.
LEMMA SomeFree ==
  ASSUME TimersInv, NEW c \in Callers, arming[c] # NoForm
  PROVE  \E t \in TimerIds : t \in Free
<1>1. Cardinality(Arming) # 0
  BY TimersFinite, FS_EmptySet DEF Arming
<1>2. Cardinality(Arming) \in Nat /\ Cardinality(Free) \in Nat
  BY TimersFinite, FS_CardinalityType
<1>3. Cardinality(Free) # 0
  BY <1>1, <1>2 DEF TimersInv, Room
<1> QED BY <1>3, TimersFinite, FS_EmptySet DEF Free

LEMMA TimersInitInv == RollbackInit => TimersInv
<1> SUFFICES ASSUME RollbackInit PROVE TimersInv
  OBVIOUS
<1>1. TimersTypeOK
  BY RollbackAssumption DEF RollbackInit, TimersTypeOK, Unused, States
<1>2. Blank /\ TimedBlockHasTimer
  BY DEF RollbackInit, Blank, Unused, TimedBlockHasTimer
<1>3. Room
  <2>1. Arming = {}
    BY DEF RollbackInit, Arming
  <2> QED BY <2>1, TimersFinite, FS_EmptySet, FS_CardinalityType DEF Room
<1> QED BY <1>1, <1>2, <1>3 DEF TimersInv

LEMMA BlockInv ==
  ASSUME TimersInv, NEW c \in Callers, NEW f \in Forms, Block(c, f)
  PROVE  TimersInv'
<1>1. /\ blocked' = blocked \cup {Address(f)} /\ orphaned' = orphaned \ {Address(f)}
      /\ lasting' = lasting \ {Address(f)} /\ arming' = [arming EXCEPT ![c] = f]
      /\ arming[c] = NoForm /\ f # NoForm
      /\ UNCHANGED <<timers, table, failures, restarts>>
  BY RollbackAssumption DEF Block, Add
<1>2. TimersTypeOK'
  BY <1>1 DEF TimersInv, TimersTypeOK, Addresses
<1>3. Blank'
  BY <1>1 DEF TimersInv, Blank
<1>4. Room'
  <2>1. Arming' = Arming \cup {c} /\ c \notin Arming /\ Free' = Free
    BY <1>1 DEF TimersInv, TimersTypeOK, Arming, Free
  <2>2. Cardinality(Free) > Cardinality(Arming)
    BY DEF Block, Arming
  <2>3. Cardinality(Arming') = Cardinality(Arming) + 1
    BY <2>1, TimersFinite, FS_AddElement
  <2> QED BY <2>1, <2>2, <2>3, TimersFinite, FS_CardinalityType DEF Room
<1>5. TimedBlockHasTimer'
  BY <1>1 DEF TimersInv, TimersTypeOK, TimedBlockHasTimer, WillUnblock
<1> QED BY <1>2, <1>3, <1>4, <1>5 DEF TimersInv

\* What leaves the timers, their table and the callers as they are, takes
\* addresses away and adds none but lasting ones, preserves the invariant.
LEMMA ElementsInv ==
  ASSUME TimersInv, UNCHANGED <<timers, table, arming, failures, restarts>>,
         blocked' \subseteq Addresses, lasting' \cup orphaned' \subseteq blocked',
         blocked' \ (lasting' \cup orphaned') \subseteq blocked \ (lasting \cup orphaned)
  PROVE  TimersInv'
<1>1. TimersTypeOK' /\ Blank'
  BY DEF TimersInv, TimersTypeOK, Blank
<1>2. Arming' = Arming /\ Free' = Free
  BY DEF Arming, Free
<1>3. Room'
  BY <1>2 DEF TimersInv, Room
<1>4. TimedBlockHasTimer'
  BY DEF TimersInv, TimedBlockHasTimer, WillUnblock
<1> QED BY <1>1, <1>3, <1>4 DEF TimersInv

LEMMA BlockForGoodInv ==
  ASSUME TimersInv, NEW c \in Callers, NEW f \in Forms, BlockForGood(c, f)
  PROVE  TimersInv'
  BY ElementsInv DEF BlockForGood, Add, TimersInv, TimersTypeOK, Addresses

LEMMA UnblockInv ==
  ASSUME TimersInv, NEW c \in Callers, NEW f \in Forms, Unblock(c, f)
  PROVE  TimersInv'
  BY ElementsInv DEF Unblock, Remove, TimersInv, TimersTypeOK, Addresses

LEMMA ArmInv ==
  ASSUME TimersInv, NEW c \in Callers, Arm(c)
  PROVE  TimersInv'
<1> DEFINE f == arming[c]
           t == CHOOSE u \in Free : TRUE
           stopped == IF table[f] # 0 /\ timers[table[f]].state = "armed"
                        THEN Set(table[f], "stopped") ELSE timers
<1>1. /\ timers' = [stopped EXCEPT ![t] = [key |-> f, state |-> "armed"]]
      /\ table' = [table EXCEPT ![f] = t] /\ arming' = [arming EXCEPT ![c] = NoForm]
      /\ f # NoForm
      /\ UNCHANGED <<blocked, lasting, orphaned, failures, restarts>>
  BY DEF Arm, elements
<1>2. f \in Forms
  BY <1>1 DEF TimersInv, TimersTypeOK
<1>3. t \in Free /\ t \in TimerIds /\ timers[t] = Unused
  BY <1>1, SomeFree DEF Free, TimersInv, Blank
<1>4. table[f] # 0 => table[f] \in TimerIds /\ timers[table[f]].key = f /\ table[f] # t
  <2>1. /\ table[f] \in TimerIds \cup {0}
        /\ table[f] # 0 => timers[table[f]].key = f
    BY <1>2 DEF TimersInv, TimersTypeOK
  <2>2. timers[t].key = NoForm
    BY <1>3 DEF Unused
  <2> QED BY <1>1, <2>1, <2>2
<1> HIDE DEF t, f
<1>5. /\ stopped \in [TimerIds -> [key : Forms \cup {NoForm}, state : States]]
      /\ \A u \in TimerIds : stopped[u].key = timers[u].key
      /\ \A u \in TimerIds : u # table[f] => stopped[u] = timers[u]
      /\ table[f] # 0 => stopped[table[f]].state \in {timers[table[f]].state, "stopped"}
      /\ table[f] # 0 => (stopped[table[f]].state = "unused" <=> timers[table[f]].state = "unused")
  <2>1. CASE table[f] # 0 /\ timers[table[f]].state = "armed"
    BY <2>1, <1>4 DEF TimersInv, TimersTypeOK, Set, States
  <2>2. CASE ~(table[f] # 0 /\ timers[table[f]].state = "armed")
    BY <2>2, <1>4 DEF TimersInv, TimersTypeOK
  <2> QED BY <2>1, <2>2
<1> HIDE DEF stopped
<1>6. /\ timers' \in [TimerIds -> [key : Forms \cup {NoForm}, state : States]]
      /\ timers'[t] = [key |-> f, state |-> "armed"]
      /\ \A u \in TimerIds : u # t => timers'[u] = stopped[u]
  BY <1>1, <1>2, <1>3, <1>5 DEF States
<1>7. /\ table' \in [Forms -> TimerIds \cup {0}] /\ table'[f] = t
      /\ \A g \in Forms : g # f => table'[g] = table[g]
  BY <1>1, <1>2, <1>3 DEF TimersInv, TimersTypeOK
<1>8. \A g \in Forms : g # f /\ table[g] # 0 =>
        table[g] \in TimerIds /\ table[g] # t /\ table[g] # table[f]
  BY <1>2, <1>3, <1>4, RollbackAssumption DEF TimersInv, TimersTypeOK, Unused
<1>9. TimersTypeOK'
  <2>1. \A g \in Forms : table'[g] # 0 => timers'[table'[g]].key = g
                                          /\ timers'[table'[g]].state # "done"
    BY <1>5, <1>6, <1>7, <1>8 DEF TimersInv, TimersTypeOK
  <2> QED BY <1>1, <1>6, <1>7, <2>1 DEF TimersInv, TimersTypeOK
<1>10. Blank'
  <2> SUFFICES ASSUME NEW u \in TimerIds
               PROVE  /\ timers'[u].state = "unused" => timers'[u] = Unused
                      /\ timers'[u].state # "unused" => timers'[u].key \in Forms
    BY DEF Blank
  <2>1. CASE u = t
    BY <1>2, <1>6, <2>1
  <2>2. CASE u # t /\ u = table[f]
    <3>1. table[f] # 0 /\ timers'[u] = stopped[u] /\ stopped[u].key = f
      BY <1>4, <1>5, <1>6, <2>2 DEF TimerIds
    <3>2. timers[u].state # "unused"
      BY <1>1, <1>4, <2>2, <3>1 DEF TimersInv, Blank, Unused
    <3> QED BY <1>2, <1>5, <2>2, <3>1, <3>2
  <2>3. CASE u # t /\ u # table[f]
    BY <1>5, <1>6, <2>3 DEF TimersInv, Blank
  <2> QED BY <2>1, <2>2, <2>3
<1>11. Room'
  <2>1. Arming' = Arming \ {c} /\ c \in Arming
    BY <1>1 DEF TimersInv, TimersTypeOK, Arming, f
  <2>2. Free' = Free \ {t}
    <3>1. \A u \in TimerIds : u # t => (timers'[u].state = "unused" <=> timers[u].state = "unused")
      <4> SUFFICES ASSUME NEW u \in TimerIds, u # t
                   PROVE  timers'[u].state = "unused" <=> timers[u].state = "unused"
        OBVIOUS
      <4>1. timers'[u] = stopped[u]
        BY <1>6
      <4>2. CASE u = table[f]
        <5>1. table[f] # 0
          BY <4>2, RollbackAssumption DEF TimerIds
        <5> QED BY <1>5, <4>1, <4>2, <5>1
      <4>3. CASE u # table[f]
        BY <1>5, <4>1, <4>3
      <4> QED BY <4>2, <4>3
    <3> QED BY <1>3, <1>6, <3>1 DEF Free
  <2>3. /\ Cardinality(Arming') = Cardinality(Arming) - 1
        /\ Cardinality(Free') = Cardinality(Free) - 1
    BY <1>3, <2>1, <2>2, TimersFinite, FS_RemoveElement
  <2> QED BY <2>3, TimersFinite, FS_CardinalityType DEF TimersInv, Room
<1>12. TimedBlockHasTimer'
  <2> SUFFICES ASSUME NEW a \in blocked \ (lasting \cup orphaned) PROVE WillUnblock(a)'
    BY <1>1 DEF TimedBlockHasTimer
  <2>1. CASE Address(f) = a
    BY <2>1, <1>3, <1>6 DEF WillUnblock
  <2>2. CASE Address(f) # a
    <3>1. WillUnblock(a)
      BY DEF TimersInv, TimedBlockHasTimer
    <3>2. CASE \E d \in DOMAIN arming : arming[d] # NoForm /\ Address(arming[d]) = a
      <4>1. PICK d \in DOMAIN arming : arming[d] # NoForm /\ Address(arming[d]) = a
        BY <3>2
      <4>2. d # c /\ arming'[d] = arming[d] /\ d \in DOMAIN arming'
        BY <1>1, <2>2, <4>1 DEF f, TimersInv, TimersTypeOK
      <4> QED BY <4>1, <4>2 DEF WillUnblock
    <3>3. CASE \E u \in TimerIds : timers[u].state \in {"armed", "fired"}
                                   /\ Address(timers[u].key) = a
      <4>1. PICK u \in TimerIds : timers[u].state \in {"armed", "fired"}
                                  /\ Address(timers[u].key) = a
        BY <3>3
      <4>2. u # t
        BY <1>3, <4>1 DEF Unused
      <4>3. u # table[f]
        BY <1>4, <2>2, <4>1, RollbackAssumption DEF TimerIds
      <4>4. timers'[u] = timers[u]
        BY <1>5, <1>6, <4>2, <4>3
      <4> QED BY <4>1, <4>4 DEF WillUnblock
    <3> QED BY <3>1, <3>2, <3>3 DEF WillUnblock
  <2> QED BY <2>1, <2>2
<1> QED BY <1>9, <1>10, <1>11, <1>12 DEF TimersInv

-----------------------------------------------------------------------------
\* A step of one timer that was created: it keeps its key, and goes on.
LEMMA StepInv ==
  ASSUME TimersInv, NEW t \in TimerIds, NEW s \in States \ {"unused"}, timers[t].state # "unused",
         timers' = Set(t, s), arming' = arming, UNCHANGED restarts,
         failures' \in 0..MaxFailures,
         \/ table' = table /\ s # "done"
         \/ table' = [table EXCEPT ![timers[t].key] = 0],
         blocked' \subseteq blocked, lasting' \cup orphaned' \subseteq blocked',
         \A a \in blocked' \ (lasting' \cup orphaned') :
            /\ a \in blocked \ (lasting \cup orphaned)
            /\ timers[t].state \in {"armed", "fired"} /\ Address(timers[t].key) = a
                 => s \in {"armed", "fired"}
  PROVE  TimersInv'
<1>1. /\ timers' \in [TimerIds -> [key : Forms \cup {NoForm}, state : States]]
      /\ timers'[t].key = timers[t].key /\ timers'[t].state = s
      /\ \A u \in TimerIds : u # t => timers'[u] = timers[u]
  BY DEF TimersInv, TimersTypeOK, Set
<1>2. timers[t].key \in Forms
  BY DEF TimersInv, Blank
<1>3. TimersTypeOK'
  <2>1. table' \in [Forms -> TimerIds \cup {0}]
    BY <1>2 DEF TimersInv, TimersTypeOK
  <2>2. \A g \in Forms : table'[g] # 0 => /\ table'[g] = table[g]
                                          /\ s = "done" => table[g] # t
    BY <1>2 DEF TimersInv, TimersTypeOK
  <2>3. \A g \in Forms : table'[g] # 0 => timers'[table'[g]].key = g
                                          /\ timers'[table'[g]].state # "done"
    BY <1>1, <2>1, <2>2 DEF TimersInv, TimersTypeOK
  <2> QED BY <1>1, <2>1, <2>3 DEF TimersInv, TimersTypeOK
<1>4. Blank'
  BY <1>1, <1>2 DEF TimersInv, Blank, Unused
<1>5. Room'
  <2>1. Free' = Free /\ Arming' = Arming
    BY <1>1 DEF Free, Arming
  <2> QED BY <2>1 DEF TimersInv, Room
<1>6. TimedBlockHasTimer'
  BY <1>1 DEF TimersInv, TimedBlockHasTimer, WillUnblock
<1> QED BY <1>3, <1>4, <1>5, <1>6 DEF TimersInv

LEMMA FireInv ==
  ASSUME TimersInv, NEW t \in TimerIds, Fire(t)
  PROVE  TimersInv'
  BY StepInv DEF Fire, elements, States, TimersInv, TimersTypeOK

LEMMA RollbackInv ==
  ASSUME TimersInv, NEW t \in TimerIds, Rollback(t)
  PROVE  TimersInv'
<1>1. /\ timers[t].state = "fired" /\ timers' = Set(t, "rolledBack")
      /\ UNCHANGED <<table, arming, restarts>>
  BY DEF Rollback
<1>2. CASE Remove(Address(timers[t].key)) /\ UNCHANGED failures
  BY <1>1, <1>2, StepInv DEF Remove, States, TimersInv, TimersTypeOK
<1>3. CASE /\ failures < MaxFailures /\ failures' = failures + 1
           /\ orphaned' = orphaned \cup (blocked \cap {Address(timers[t].key)})
           /\ UNCHANGED <<blocked, lasting>>
  <2>1. failures' \in 0..MaxFailures
    BY <1>3, RollbackAssumption DEF TimersInv, TimersTypeOK
  <2> QED BY <1>1, <1>3, <2>1, StepInv DEF States, TimersInv, TimersTypeOK
<1> QED BY <1>2, <1>3 DEF Rollback

LEMMA ForgetInv ==
  ASSUME TimersInv, NEW t \in TimerIds, Forget(t)
  PROVE  TimersInv'
  BY StepInv DEF Forget, elements, States, TimersInv, TimersTypeOK

\* A restart orphans every block that is in place.
LEMMA LoseTimersInv ==
  ASSUME TimersInv, LoseTimers
  PROVE  TimersInv'
<1>1. /\ timers' = [t \in TimerIds |-> IF timers[t] = Unused THEN Unused
                                       ELSE [timers[t] EXCEPT !.state = "done"]]
      /\ table' = [f \in Forms |-> 0] /\ arming' = [c \in Callers |-> NoForm]
      /\ orphaned' = blocked /\ UNCHANGED <<blocked, lasting, failures>>
      /\ restarts' \in 0..MaxRestarts
  BY RollbackAssumption DEF LoseTimers, TimersInv, TimersTypeOK
<1>2. TimersTypeOK'
  BY <1>1 DEF TimersInv, TimersTypeOK, Unused, States
<1>3. Blank'
  BY <1>1 DEF TimersInv, TimersTypeOK, Blank, Unused
<1>4. Room'
  <2>1. Arming' = {}
    BY <1>1 DEF Arming
  <2> QED BY <2>1, TimersFiniteNext, FS_EmptySet, FS_CardinalityType DEF Room
<1>5. TimedBlockHasTimer'
  BY <1>1 DEF TimedBlockHasTimer
<1> QED BY <1>2, <1>3, <1>4, <1>5 DEF TimersInv

LEMMA TimersNextInv == TimersInv /\ [RollbackNext]_rollbackVars => TimersInv'
<1> SUFFICES ASSUME TimersInv, [RollbackNext]_rollbackVars PROVE TimersInv'
  OBVIOUS
<1>1. CASE RollbackNext
  BY <1>1, BlockInv, BlockForGoodInv, UnblockInv, ArmInv, FireInv, RollbackInv, ForgetInv,
     LoseTimersInv DEF RollbackNext
<1>2. CASE UNCHANGED rollbackVars
  BY <1>2, ElementsInv DEF rollbackVars, elements, TimersInv, TimersTypeOK
<1> QED BY <1>1, <1>2

-----------------------------------------------------------------------------
\* The timers, their table and the callers are well typed, and the table holds
\* no timer whose callback has returned.
THEOREM TimersTypeCorrect == RollbackSpec => []TimersTypeOK
<1>1. TimersInv => TimersTypeOK
  BY DEF TimersInv
<1> QED BY <1>1, TimersInitInv, TimersNextInv, PTL DEF RollbackSpec

\* As long as a block with a TTL is in place somebody will remove it, for any
\* number of callers, addresses and timers, unless its rollback failed or the
\* daemon was restarted (Execute and the callback of its timer).
THEOREM TimedBlockCorrect == RollbackSpec => []TimedBlockHasTimer
<1>1. TimersInv => TimedBlockHasTimer
  BY DEF TimersInv
<1> QED BY <1>1, TimersInitInv, TimersNextInv, PTL DEF RollbackSpec

-----------------------------------------------------------------------------
\* What a match has to do, and a goroutine that is doing it.
Todo(m) == {m.playbook.actions[n] : n \in DOMAIN m.playbook.actions}
Steps(m) == 1..Len(m.playbook.actions)
Worker(g) ==
  /\ g = [kind |-> G!Kind(g.match.playbook.mode), match |-> g.match, todo |-> g.todo]
  /\ g.match \in matched /\ g.match.playbook.mode # "dry_run"
  /\ g.todo \in Seq(Todo(g.match)) /\ Len(g.todo) <= Len(g.match.playbook.actions)

\* A match copied a playbook that was stored, enabled, and matched its finding.
MatchesTrue ==
  \A m \in matched : /\ m.playbook \in Drafts /\ m.finding \in reported
                     /\ m.playbook.enabled /\ G!Matches(m.playbook, m.finding)

\* Each match has one goroutine at most.
WorkersOK == /\ \A g \in runs : Worker(g)
             /\ \A g, h \in runs : g.match = h.match => g = h

\* What was tried was tried once, by the kind of goroutine its mode asks for,
\* and is behind its goroutine.
Outcomes(m) == IF m.playbook.mode = "approval_required" THEN {"asked"} ELSE {"done", "error"}
TriedOK ==
  /\ \A t \in tried : \E m \in matched : \E n \in Steps(m) : \E o \in Outcomes(m) :
       t = <<m, n, o>> /\ m.playbook.mode # "dry_run"
  /\ \A s, t \in tried : s[1] = t[1] /\ s[2] = t[2] => s = t
  /\ \A g \in runs : \A t \in tried : t[1] = g.match => t[2] < G!Current(g)

\* Until a restart, what was not tried is before its goroutine.
NothingSkipped ==
  crashes = 0 => \A m \in matched : m.playbook.mode # "dry_run" => \A n \in Steps(m) :
    \/ \E t \in tried : t[1] = m /\ t[2] = n
    \/ \E g \in runs : g.match = m /\ G!Current(g) <= n

PlayInv ==
  /\ playbooks \in [Ids -> Drafts \cup {G!Absent}] /\ file \in [Ids -> Drafts \cup {G!Absent}]
  /\ reported \subseteq Findings /\ crashes \in Nat
  /\ MatchesTrue /\ WorkersOK /\ TriedOK /\ NothingSkipped

-----------------------------------------------------------------------------
LEMMA DraftFacts ==
  ASSUME NEW p \in Drafts
  PROVE  /\ p.mode \in {"dry_run", "approval_required", "automatic"}
         /\ Len(p.actions) \in Nat /\ DOMAIN p.actions = 1..Len(p.actions)
         /\ p.actions \in Seq({p.actions[n] : n \in DOMAIN p.actions})
<1>1. p.mode \in {"dry_run", "approval_required", "automatic"}
      /\ p.actions \in Seq([type : STRING, ttl : BOOLEAN])
  BY GuardedAssumption
<1> DEFINE acts == p.actions
           S == {acts[n] : n \in DOMAIN acts}
<1>2. Len(acts) \in Nat /\ DOMAIN acts = 1..Len(acts) /\ acts = [n \in 1..Len(acts) |-> acts[n]]
  BY <1>1, LenProperties
<1>3. acts \in [1..Len(acts) -> S]
  BY <1>2
<1>4. acts \in Seq(S)
  BY <1>2, <1>3, SeqDef
<1> QED BY <1>1, <1>2, <1>4

LEMMA KindFacts ==
  /\ G!Kind("dry_run") = "none" /\ G!Kind("automatic") = "execute"
  /\ G!Kind("approval_required") = "request"
  BY DEF G!Kind

LEMMA CountDown ==
  ASSUME NEW a \in Nat, NEW b \in Nat, b <= a
  PROVE  a - b + 1 \in 1..(a + 1)
  OBVIOUS

LEMMA OneLeft ==
  ASSUME NEW a \in Nat, NEW b \in Nat, b <= a, b # 0
  PROVE  a - b + 1 \in 1..a /\ a - b + 1 \in Nat /\ a - (b - 1) + 1 = a - b + 1 + 1
  OBVIOUS

LEMMA ChangeTodo ==
  ASSUME NEW k, NEW m, NEW w, NEW v, NEW g, g = [kind |-> k, match |-> m, todo |-> w]
  PROVE  [g EXCEPT !.todo = v] = [kind |-> k, match |-> m, todo |-> v]
  OBVIOUS

\* Where a goroutine is in its list.
LEMMA CurrentFacts ==
  ASSUME PlayInv, NEW g \in runs
  PROVE  /\ Len(g.todo) \in Nat /\ Len(g.match.playbook.actions) \in Nat
         /\ g.match.playbook \in Drafts
         /\ G!Current(g) = Len(g.match.playbook.actions) - Len(g.todo) + 1
         /\ G!Current(g) \in 1..(Len(g.match.playbook.actions) + 1)
<1>1. /\ g.match.playbook \in Drafts /\ g.todo \in Seq(Todo(g.match))
      /\ Len(g.todo) <= Len(g.match.playbook.actions)
  BY DEF PlayInv, WorkersOK, Worker, MatchesTrue
<1>2. Len(g.todo) \in Nat /\ Len(g.match.playbook.actions) \in Nat
  BY <1>1, LenProperties, DraftFacts
<1>3. G!Current(g) = Len(g.match.playbook.actions) - Len(g.todo) + 1
  BY DEF G!Current
<1>4. Len(g.match.playbook.actions) - Len(g.todo) + 1 \in 1..(Len(g.match.playbook.actions) + 1)
  BY <1>1, <1>2, CountDown
<1> QED BY <1>1, <1>2, <1>3, <1>4

LEMMA PlayInit == G!PlaybooksInit /\ crashes = 0 => PlayInv
<1> SUFFICES ASSUME G!PlaybooksInit, crashes = 0 PROVE PlayInv
  OBVIOUS
<1>1. /\ playbooks = [i \in Ids |-> G!Absent] /\ file = playbooks
      /\ reported = {} /\ runs = {} /\ matched = {} /\ tried = {}
  BY DEF G!PlaybooksInit
<1> QED BY <1>1 DEF PlayInv, MatchesTrue, WorkersOK, TriedOK, NothingSkipped

\* The steps that leave the goroutines alone.
LEMMA StoreKeepsPlay ==
  ASSUME PlayInv, UNCHANGED <<reported, runs, matched, tried, crashes>>,
         playbooks' \in [Ids -> Drafts \cup {G!Absent}],
         file' \in [Ids -> Drafts \cup {G!Absent}]
  PROVE  PlayInv'
<1>1. /\ reported' = reported /\ runs' = runs /\ matched' = matched /\ tried' = tried
      /\ crashes' = crashes
  OBVIOUS
<1>2. MatchesTrue'
  BY <1>1 DEF PlayInv, MatchesTrue
<1>3. WorkersOK'
  BY <1>1 DEF PlayInv, WorkersOK, Worker
<1>4. TriedOK'
  BY <1>1 DEF PlayInv, TriedOK
<1>5. NothingSkipped'
  BY <1>1 DEF PlayInv, NothingSkipped
<1> QED BY <1>1, <1>2, <1>3, <1>4, <1>5 DEF PlayInv

LEMMA EditPlay ==
  ASSUME PlayInv, crashes' = crashes,
         NEW i \in Ids, G!Delete(i) \/ \E p \in Drafts : G!Upsert(i, p)
  PROVE  PlayInv'
<1>1. PICK p \in Drafts \cup {G!Absent} : playbooks' = [playbooks EXCEPT ![i] = p]
  BY DEF G!Delete, G!Upsert
<1>2. UNCHANGED <<reported, runs, matched, tried>> /\ G!Saved
  BY DEF G!Delete, G!Upsert
<1>3. playbooks' \in [Ids -> Drafts \cup {G!Absent}]
  BY <1>1 DEF PlayInv
<1>4. file' = playbooks' \/ file' = file
  BY <1>2 DEF G!Saved
<1> QED BY <1>2, <1>3, <1>4, StoreKeepsPlay DEF PlayInv

\* A finding is new, so its matches are, and each gets its goroutine.
LEMMA ReportPlay ==
  ASSUME PlayInv, crashes' = crashes, NEW f \in Findings, G!Report(f)
  PROVE  PlayInv'
<1> DEFINE news == G!Evaluate(f)
           fresh == UNION {G!Goroutines(m) : m \in news}
<1>1. /\ f \notin reported /\ reported' = reported \cup {f} /\ matched' = matched \cup news
      /\ runs' = runs \cup fresh /\ UNCHANGED <<playbooks, file, tried>>
  BY DEF G!Report, G!storeVars
<1>2. \A m \in news : /\ m.playbook \in Drafts /\ m.finding = f
                      /\ m.playbook.enabled /\ G!Matches(m.playbook, m.finding)
  BY DEF G!Evaluate, PlayInv
<1>3. \A m \in news : m \notin matched
  BY <1>1, <1>2 DEF PlayInv, MatchesTrue
<1>4. \A g \in fresh : \E m \in news :
        /\ g = [kind |-> G!Kind(m.playbook.mode), match |-> m, todo |-> m.playbook.actions]
        /\ m.playbook.mode # "dry_run"
  BY KindFacts DEF G!Goroutines
<1>5. \A m \in news : m.playbook.mode # "dry_run" =>
        [kind |-> G!Kind(m.playbook.mode), match |-> m, todo |-> m.playbook.actions] \in fresh
  <2> SUFFICES ASSUME NEW m \in news, m.playbook.mode # "dry_run"
               PROVE  [kind |-> G!Kind(m.playbook.mode), match |-> m,
                       todo |-> m.playbook.actions] \in G!Goroutines(m)
    OBVIOUS
  <2>1. m.playbook.mode \in {"approval_required", "automatic"}
    BY <1>2, DraftFacts
  <2>2. G!Kind(m.playbook.mode) # "none"
    BY <2>1, KindFacts
  <2> QED BY <2>2 DEF G!Goroutines
<1> HIDE DEF news, fresh
<1>6. MatchesTrue'
  BY <1>1, <1>2 DEF PlayInv, MatchesTrue
<1>7. \A g \in fresh : /\ g.match \in news /\ g.match.playbook.mode # "dry_run"
                       /\ g.todo = g.match.playbook.actions
                       /\ g = [kind |-> G!Kind(g.match.playbook.mode), match |-> g.match,
                               todo |-> g.match.playbook.actions]
  BY <1>4
<1>8. \A g \in runs : g.match \in matched
  BY DEF PlayInv, WorkersOK, Worker
<1>9. WorkersOK'
  <2>1. \A g \in runs : Worker(g)'
    BY <1>1 DEF PlayInv, WorkersOK, Worker
  <2>2. \A g \in fresh : Worker(g)'
    <3> TAKE g \in fresh
    <3>1. g.match.playbook \in Drafts
      BY <1>2, <1>7
    <3>2. g.todo \in Seq(Todo(g.match)) /\ Len(g.todo) <= Len(g.match.playbook.actions)
      BY <1>7, <3>1, DraftFacts DEF Todo
    <3> QED BY <1>1, <1>7, <3>2 DEF Worker
  <2>3. \A g, h \in runs \cup fresh : g.match = h.match => g = h
    BY <1>3, <1>7, <1>8 DEF PlayInv, WorkersOK
  <2> QED BY <1>1, <2>1, <2>2, <2>3 DEF WorkersOK
<1>10. \A t \in tried : t[1] \in matched
  BY DEF PlayInv, TriedOK
<1>11. TriedOK'
  <2>1. \A g \in fresh : \A t \in tried : t[1] # g.match
    BY <1>3, <1>7, <1>10
  <2> QED BY <1>1, <2>1 DEF PlayInv, TriedOK
<1>12. NothingSkipped'
  <2> SUFFICES ASSUME crashes = 0, NEW m \in matched', m.playbook.mode # "dry_run", NEW n \in Steps(m)
               PROVE  \/ \E t \in tried' : t[1] = m /\ t[2] = n
                      \/ \E g \in runs' : g.match = m /\ G!Current(g) <= n
    BY DEF NothingSkipped
  <2>1. CASE m \in matched
    BY <1>1, <2>1 DEF PlayInv, NothingSkipped
  <2>2. CASE m \in news
    <3> DEFINE g == [kind |-> G!Kind(m.playbook.mode), match |-> m, todo |-> m.playbook.actions]
    <3>1. g \in fresh /\ g.match = m /\ g.todo = m.playbook.actions
      BY <1>5, <2>2
    <3>2. Len(m.playbook.actions) \in Nat /\ n >= 1
      BY <1>2, <2>2, DraftFacts DEF Steps
    <3> HIDE DEF g
    <3>3. G!Current(g) = 1
      BY <3>1, <3>2 DEF G!Current
    <3> QED BY <1>1, <3>1, <3>2, <3>3
  <2> QED BY <1>1, <2>1, <2>2
<1> QED BY <1>1, <1>6, <1>9, <1>11, <1>12 DEF PlayInv

\* A goroutine ends one action: what is left gets shorter by it.
LEMMA AdvancePlay ==
  ASSUME PlayInv, crashes' = crashes, NEW g \in runs, g.todo # <<>>,
         NEW o \in Outcomes(g.match), G!Advance(g, o)
  PROVE  PlayInv'
<1> DEFINE next == [g EXCEPT !.todo = Tail(@)]
           now == G!Current(g)
<1>1. /\ runs' = (runs \ {g}) \cup {next} /\ tried' = tried \cup {<<g.match, now, o>>}
      /\ UNCHANGED <<playbooks, file, reported, matched>>
  BY DEF G!Advance, G!storeVars
<1>2. /\ g = [kind |-> G!Kind(g.match.playbook.mode), match |-> g.match, todo |-> g.todo]
      /\ g.match \in matched /\ g.match.playbook.mode # "dry_run"
      /\ g.todo \in Seq(Todo(g.match)) /\ Len(g.todo) <= Len(g.match.playbook.actions)
  BY DEF PlayInv, WorkersOK, Worker
<1>3. /\ Tail(g.todo) \in Seq(Todo(g.match)) /\ Len(Tail(g.todo)) = Len(g.todo) - 1
      /\ Len(g.todo) \in Nat /\ Len(g.todo) # 0
  BY <1>2, HeadTailProperties, LenProperties, EmptySeq
<1>4. next = [kind |-> G!Kind(g.match.playbook.mode), match |-> g.match, todo |-> Tail(g.todo)]
  BY <1>2, ChangeTodo
<1>5. next.match = g.match /\ next.todo = Tail(g.todo)
  BY <1>4
<1>6. /\ now \in Steps(g.match) /\ now \in Nat /\ G!Current(next) = now + 1
      /\ Len(g.match.playbook.actions) \in Nat
  <2>1. /\ now = Len(g.match.playbook.actions) - Len(g.todo) + 1
        /\ Len(g.match.playbook.actions) \in Nat
    BY CurrentFacts
  <2>2. G!Current(next) = Len(g.match.playbook.actions) - Len(Tail(g.todo)) + 1
    BY <1>5 DEF G!Current
  <2> HIDE DEF now, next
  <2> PICK a \in Nat : a = Len(g.match.playbook.actions)
    BY <2>1
  <2> PICK b \in Nat : b = Len(g.todo)
    BY <1>3
  <2>3. now = a - b + 1 /\ G!Current(next) = a - (b - 1) + 1 /\ b # 0 /\ b <= a
    BY <1>2, <1>3, <2>1, <2>2
  <2>4. a - b + 1 \in 1..a /\ a - b + 1 \in Nat /\ a - (b - 1) + 1 = a - b + 1 + 1
    BY <2>3, OneLeft
  <2> QED BY <2>1, <2>3, <2>4 DEF Steps
<1> HIDE DEF next, now
<1>7. WorkersOK'
  <2>1. Worker(next)'
    BY <1>1, <1>2, <1>3, <1>4, <1>5, <1>6 DEF Worker
  <2>2. \A h \in runs : Worker(h)'
    BY <1>1 DEF PlayInv, WorkersOK, Worker
  <2>3. \A h \in runs \ {g} : h.match # next.match
    BY <1>5 DEF PlayInv, WorkersOK
  <2>4. \A h, k \in runs' : h.match = k.match => h = k
    BY <1>1, <2>3 DEF PlayInv, WorkersOK
  <2> QED BY <1>1, <2>1, <2>2, <2>4 DEF WorkersOK
<1>8. \A h \in runs' : h = next \/ (h \in runs /\ h # g /\ h.match # g.match)
  BY <1>1, <1>5 DEF PlayInv, WorkersOK
<1>9. TriedOK'
  <2>1. \A t \in tried' : \E m \in matched' : \E n \in Steps(m) : \E x \in Outcomes(m) :
          t = <<m, n, x>> /\ m.playbook.mode # "dry_run"
    BY <1>1, <1>2, <1>6 DEF PlayInv, TriedOK
  <2>2. \A t \in tried : t[1] = g.match => t[2] < now
    BY DEF PlayInv, TriedOK, now
  <2>3. \A t \in tried : t[2] \in Nat
    <3> TAKE t \in tried
    <3> PICK m \in matched : \E n \in Steps(m) : \E x \in Outcomes(m) : t = <<m, n, x>>
      BY DEF PlayInv, TriedOK
    <3> QED BY DEF Steps
  <2>4. \A t \in tried : t[1] = g.match => t[2] # now /\ t[2] < now + 1
    BY <1>6, <2>2, <2>3
  <2>5. \A s, t \in tried' : s[1] = t[1] /\ s[2] = t[2] => s = t
    BY <1>1, <2>4 DEF PlayInv, TriedOK
  <2>6. now < now + 1
    BY <1>6
  <2>7. \A h \in runs' : \A t \in tried' : t[1] = h.match => t[2] < G!Current(h)
    <3> TAKE h \in runs'
    <3> TAKE t \in tried'
    <3>1. CASE h = next
      BY <1>1, <1>5, <1>6, <2>4, <2>6, <3>1
    <3>2. CASE h \in runs /\ h # g /\ h.match # g.match
      BY <1>1, <3>2 DEF PlayInv, TriedOK
    <3> QED BY <1>8, <3>1, <3>2
  <2> QED BY <2>1, <2>5, <2>7 DEF TriedOK
<1>10. NothingSkipped'
  <2> SUFFICES ASSUME crashes = 0, NEW m \in matched, m.playbook.mode # "dry_run", NEW n \in Steps(m)
               PROVE  \/ \E t \in tried' : t[1] = m /\ t[2] = n
                      \/ \E h \in runs' : h.match = m /\ G!Current(h) <= n
    BY <1>1 DEF NothingSkipped
  <2>1. CASE \E t \in tried : t[1] = m /\ t[2] = n
    BY <1>1, <2>1
  <2>2. CASE \E h \in runs : h.match = m /\ G!Current(h) <= n
    <3> PICK h \in runs : h.match = m /\ G!Current(h) <= n
      BY <2>2
    <3>1. CASE h # g
      BY <1>1, <3>1
    <3>2. CASE h = g /\ n = now
      <4>1. <<g.match, now, o>> \in tried'
        BY <1>1
      <4>2. <<g.match, now, o>>[1] = m /\ <<g.match, now, o>>[2] = n
        BY <3>2
      <4> QED BY <4>1, <4>2
    <3>3. CASE h = g /\ n # now
      <4>1. now <= n /\ n \in Nat
        BY <3>3 DEF now, Steps
      <4>2. now + 1 <= n
        BY <1>6, <3>3, <4>1
      <4> QED BY <1>1, <1>5, <1>6, <3>3, <4>2
    <3> QED BY <3>1, <3>2, <3>3
  <2> QED BY <2>1, <2>2 DEF PlayInv, NothingSkipped
<1>11. MatchesTrue'
  BY <1>1 DEF PlayInv, MatchesTrue
<1> QED BY <1>1, <1>7, <1>9, <1>10, <1>11 DEF PlayInv

\* A goroutine that returns has nothing left.
LEMMA ReturnPlay ==
  ASSUME PlayInv, crashes' = crashes, NEW g \in runs, G!Return(g)
  PROVE  PlayInv'
<1>1. /\ g.todo = <<>> /\ runs' = runs \ {g}
      /\ UNCHANGED <<playbooks, file, reported, matched, tried>>
  BY DEF G!Return, G!storeVars
<1>2. MatchesTrue'
  BY <1>1 DEF PlayInv, MatchesTrue
<1>3. WorkersOK'
  BY <1>1 DEF PlayInv, WorkersOK, Worker
<1>4. TriedOK'
  BY <1>1 DEF PlayInv, TriedOK
<1>5. \A n \in Steps(g.match) : ~(G!Current(g) <= n)
  <2>1. Len(g.todo) = 0
    BY <1>1
  <2> PICK a \in Nat : a = Len(g.match.playbook.actions) /\ G!Current(g) = a - Len(g.todo) + 1
    BY CurrentFacts
  <2>2. G!Current(g) = a + 1
    BY <2>1
  <2>3. \A n \in 1..a : ~(a + 1 <= n)
    OBVIOUS
  <2> QED BY <2>2, <2>3 DEF Steps
<1>6. NothingSkipped'
  BY <1>1, <1>5 DEF PlayInv, NothingSkipped
<1> QED BY <1>1, <1>2, <1>3, <1>4, <1>6 DEF PlayInv

LEMMA ReopenPlay ==
  ASSUME PlayInv, G!Reopen, crashes' = crashes + 1
  PROVE  PlayInv'
<1>1. /\ playbooks' = file /\ runs' = {} /\ UNCHANGED <<file, reported, matched, tried>>
  BY DEF G!Reopen
<1>2. crashes' \in Nat /\ crashes' # 0
  BY DEF PlayInv
<1>3. MatchesTrue'
  BY <1>1 DEF PlayInv, MatchesTrue
<1>4. TriedOK'
  BY <1>1 DEF PlayInv, TriedOK
<1>5. NothingSkipped' /\ WorkersOK'
  BY <1>1, <1>2 DEF NothingSkipped, WorkersOK
<1> QED BY <1>1, <1>2, <1>3, <1>4, <1>5 DEF PlayInv

\* Every action of a playbook that matched is tried, once.
LEMMA PlayTried == PlayInv => G!EveryActionTried
<1> SUFFICES ASSUME PlayInv, crashes = 0, NEW m \in matched
             PROVE  LET done == {t \in tried : t[1] = m}
                        left == {g \in runs : g.match = m}
                    IN
                    /\ m.playbook.mode = "dry_run" => done = {} /\ left = {}
                    /\ m.playbook.mode # "dry_run" =>
                         /\ {t[2] : t \in done} \cup
                              UNION {G!Current(g)..Len(m.playbook.actions) : g \in left}
                              = 1..Len(m.playbook.actions)
                         /\ \A s, t \in done : s[2] = t[2] => s = t
                         /\ \A t \in done :
                              (t[3] = "asked") = (m.playbook.mode = "approval_required")
  BY DEF G!EveryActionTried
<1> DEFINE done == {t \in tried : t[1] = m}
           left == {g \in runs : g.match = m}
           places == {t[2] : t \in done}
<1>1. \A t \in done : /\ t[2] \in Steps(m) /\ t[3] \in Outcomes(m)
                      /\ m.playbook.mode # "dry_run"
  <2> TAKE t \in done
  <2> PICK k \in matched : \E n \in Steps(k) : \E o \in Outcomes(k) :
             t = <<k, n, o>> /\ k.playbook.mode # "dry_run"
    BY DEF PlayInv, TriedOK
  <2>1. k = m
    OBVIOUS
  <2> QED BY <2>1
<1>2. \A g \in left : g.match = m /\ g.match.playbook.mode # "dry_run"
  BY DEF PlayInv, WorkersOK, Worker
<1>3. m.playbook.mode = "dry_run" => done = {} /\ left = {}
  BY <1>1, <1>2
<1>4. \A t \in done : (t[3] = "asked") = (m.playbook.mode = "approval_required")
  BY <1>1 DEF Outcomes
<1>5. ASSUME m.playbook.mode # "dry_run"
      PROVE  places \cup UNION {G!Current(g)..Len(m.playbook.actions) : g \in left} = Steps(m)
  <2>1. \A n \in Steps(m) : n \in places \/ \E g \in left : G!Current(g) <= n
    BY <1>5 DEF PlayInv, NothingSkipped
  <2>2. \A g \in left : /\ G!Current(g) \in Nat /\ G!Current(g) >= 1
                        /\ Len(m.playbook.actions) \in Nat
    <3> TAKE g \in left
    <3>1. G!Current(g) \in 1..(Len(m.playbook.actions) + 1) /\ Len(m.playbook.actions) \in Nat
      BY <1>2, CurrentFacts
    <3> QED BY <3>1
  <2>3. \A g \in left : G!Current(g)..Len(m.playbook.actions) \subseteq Steps(m)
    BY <2>2 DEF Steps
  <2>4. \A n \in Steps(m), g \in left :
          G!Current(g) <= n => n \in G!Current(g)..Len(m.playbook.actions)
    BY <2>2 DEF Steps
  <2> QED BY <1>1, <2>1, <2>3, <2>4
<1>6. \A s, t \in done : s[2] = t[2] => s = t
  BY DEF PlayInv, TriedOK
<1> QED BY <1>3, <1>4, <1>5, <1>6 DEF Steps

-----------------------------------------------------------------------------
\* What a request may ask for.
DraftActions == UNION {{p.actions[n] : n \in DOMAIN p.actions} : p \in Drafts}
Askable ==
  Actions \cup {G!NoAction} \cup
    {[type |-> a.type, ttl |-> a.ttl, form |-> f.target] : a \in DraftActions, f \in Findings}

\* A reason to block an address, once given, stays true.
Justified(why, a) ==
  \/ why.by = "direct"
  \/ /\ why.by = "request" /\ why.id \in Requests
     /\ why.user \in executors[why.id] /\ why.user # requester[why.id]
     /\ asked[why.id].type = "block_ip" /\ Address(asked[why.id].form) = a
  \/ /\ why.by = "playbook"
     /\ why.match.playbook.enabled /\ why.match.playbook.mode = "automatic"
     /\ G!Matches(why.match.playbook, why.match.finding)
     /\ Address(why.match.finding.target) = a
Permitted(a) ==
  /\ config.enabled /\ ~config.dryRun
  /\ "block_ip" \in config.allowed /\ a \notin config.allowlist

AskedOK == config \in Configs /\ ops \in 0..MaxOps /\ asked \in [Requests -> Askable]
BlocksOK ==
  /\ blocked \subseteq Addresses /\ cause = [a \in Addresses |-> cause[a]]
  /\ \A a \in blocked : Permitted(a) /\ Justified(cause[a], a)

\* What every step of the composition preserves.
GuardedInv == Inv /\ PlayInv /\ AskedOK /\ BlocksOK

\* What was executed, by whom and for whom is never rewritten.
HistoryKept ==
  \A id \in Requests :
    /\ executors[id] \subseteq executors'[id]
    /\ executors[id] # {} => requester'[id] = requester[id] /\ asked'[id] = asked[id]

-----------------------------------------------------------------------------
\* The approvals of the composition are those of module ResponseApproval.
LEMMA SameCreate ==
  ASSUME NEW c \in Users \cup {Automation}, NEW id \in Requests, G!Approval!Create(c, id)
  PROVE  Create(c, id) /\ c \in Creators
  BY GuardedAssumption DEF G!Approval!Create, Create, G!Approval!Absent, Absent,
     G!Approval!SaveOK, SaveOK, G!Approval!SaveFails, SaveFails

LEMMA SameHandler ==
  ASSUME NEW u \in Approvers
  PROVE  /\ \A id \in Requests : G!Approval!Check(u, id) => Check(u, id)
         /\ G!Approval!Execute(u) => Execute(u)
         /\ G!Approval!Record(u) => Record(u)
         /\ G!Approval!RecordRefused(u) => RecordRefused(u)
         /\ G!Approval!AuditExecution(u) => AuditExecution(u)
<1>1. \A id \in Requests : G!Approval!Check(u, id) => Check(u, id)
  BY DEF G!Approval!Check, Check, G!Approval!Idle, Idle, G!Approval!history, history
<1>2. G!Approval!Execute(u) => Execute(u)
  BY DEF G!Approval!Execute, Execute
<1>3. G!Approval!Record(u) => Record(u)
  BY DEF G!Approval!Record, Record, G!Approval!Decided, Decided, G!Approval!SaveOK, SaveOK,
     G!Approval!SaveFails, SaveFails, G!Approval!Idle, Idle, G!Approval!history, history
<1>4. G!Approval!RecordRefused(u) => RecordRefused(u)
  BY DEF G!Approval!RecordRefused, RecordRefused, G!Approval!Idle, Idle,
     G!Approval!history, history
<1>5. G!Approval!AuditExecution(u) => AuditExecution(u)
  BY DEF G!Approval!AuditExecution, AuditExecution, G!Approval!Idle, Idle,
     G!Approval!history, history
<1> QED BY <1>1, <1>2, <1>3, <1>4, <1>5

LEMMA SameRestart == G!Approval!Restart => Restart
  BY GuardedAssumption DEF G!Approval!Restart, Restart, G!Approval!Idle, Idle,
     G!Approval!history, history

\* What the commands do to the set.
LEMMA CommandFacts ==
  ASSUME NEW c, NEW f
  PROVE  /\ G!Rollback!Block(c, f) => blocked' = blocked \cup {Address(f)}
         /\ G!Rollback!BlockForGood(c, f) => blocked' = blocked \cup {Address(f)}
         /\ G!Rollback!Unblock(c, f) => blocked' \subseteq blocked
  BY DEF G!Rollback!Block, G!Rollback!BlockForGood, G!Rollback!Unblock, G!Rollback!Add,
     G!Rollback!Remove

LEMMA TimerFacts ==
  /\ \A c : G!Rollback!Arm(c) => blocked' = blocked
  /\ \A t : G!Rollback!Fire(t) => blocked' = blocked
  /\ \A t : G!Rollback!Rollback(t) => blocked' \subseteq blocked
  /\ \A t : G!Rollback!Forget(t) => blocked' = blocked
  /\ G!Rollback!LoseTimers => blocked' = blocked
  BY DEF G!Rollback!Arm, G!Rollback!Fire, G!Rollback!Rollback, G!Rollback!Forget,
     G!Rollback!LoseTimers, G!Rollback!Remove, G!Rollback!elements

-----------------------------------------------------------------------------
LEMMA JustifiedStays ==
  ASSUME HistoryKept, NEW why, NEW a, Justified(why, a)
  PROVE  Justified(why, a)'
  BY DEF HistoryKept, Justified

\* Nothing is added to the set.
LEMMA NoBlock ==
  ASSUME BlocksOK, HistoryKept, config' = config, blocked' \subseteq blocked, cause' = cause
  PROVE  BlocksOK'
<1>1. ASSUME NEW a \in blocked' PROVE Permitted(a)' /\ Justified(cause[a], a)'
  <2> PICK x : x = cause[a] /\ x = cause'[a]
    OBVIOUS
  <2>1. Permitted(a) /\ Justified(x, a)
    BY DEF BlocksOK
  <2>2. Justified(x, a)'
    BY <2>1, JustifiedStays
  <2>3. Justified(cause[a], a)'
    BY <2>2 DEF Justified
  <2> QED BY <2>1, <2>3 DEF Permitted
<1> QED BY <1>1 DEF BlocksOK, Addresses

\* Execute adds an address that the guards permit, for the reason it is given.
LEMMA ExecuteGuarded ==
  ASSUME BlocksOK, HistoryKept, config' = config, NEW c, NEW q, NEW why, NEW ok \in BOOLEAN,
         G!Execute(c, q, why, ok),
         q.type = "block_ip" => q.form \in Forms,
         q.type = "block_ip" /\ ok => Justified(why, Address(q.form))'
  PROVE  BlocksOK'
<1>1. CASE G!Verdict(q) = "live" /\ ok /\ G!Apply(c, q, why)
  <2>1. CASE q.type = "block_ip"
    <3>1. blocked' = blocked \cup {Address(q.form)}
          /\ cause' = [cause EXCEPT ![Address(q.form)] = why]
      BY <1>1, <2>1, CommandFacts DEF G!Apply
    <3>2. Permitted(Address(q.form))
      BY <1>1, <2>1 DEF G!Verdict, G!Refused, Permitted
    <3>3. Address(q.form) \in Addresses
      BY <2>1 DEF Addresses
    <3>4. /\ cause' = [a \in Addresses |-> cause'[a]]
          /\ cause'[Address(q.form)] = why
          /\ \A a \in Addresses : a # Address(q.form) => cause'[a] = cause[a]
      BY <3>1, <3>3 DEF BlocksOK
    <3>5. blocked' \subseteq Addresses
      BY <3>1, <3>3 DEF BlocksOK
    <3>6. ASSUME NEW a \in blocked' PROVE Permitted(a)' /\ Justified(cause[a], a)'
      <4>1. CASE a = Address(q.form)
        <5>1. Justified(why, a)' /\ cause'[a] = why
          BY <1>1, <2>1, <3>4, <4>1
        <5>2. Justified(cause[a], a)'
          BY <5>1 DEF Justified
        <5> QED BY <3>2, <4>1, <5>2 DEF Permitted
      <4>2. CASE a # Address(q.form)
        <5>1. a \in blocked /\ a \in Addresses /\ cause'[a] = cause[a]
          BY <3>1, <3>4, <3>5, <4>2
        <5> PICK x : x = cause[a] /\ x = cause'[a]
          BY <5>1
        <5>2. Justified(x, a) /\ Permitted(a)
          BY <5>1 DEF BlocksOK
        <5>3. Justified(x, a)'
          BY <5>2, JustifiedStays
        <5>4. Justified(cause[a], a)'
          BY <5>3 DEF Justified
        <5> QED BY <5>2, <5>4 DEF Permitted
      <4> QED BY <4>1, <4>2
    <3> QED BY <3>4, <3>5, <3>6 DEF BlocksOK, Addresses
  <2>2. CASE q.type = "unblock_ip"
    <3>1. blocked' \subseteq blocked /\ cause' = cause
      BY <1>1, <2>2, CommandFacts DEF G!Apply
    <3> QED BY <3>1, NoBlock
  <2>3. CASE q.type = "kill_process"
    <3>1. blocked' = blocked /\ cause' = cause
      BY <1>1, <2>3 DEF G!Apply, G!rollbackVars
    <3> QED BY <3>1, NoBlock
  <2> QED BY <1>1, <2>1, <2>2, <2>3 DEF G!Apply
<1>2. CASE UNCHANGED G!rollbackVars /\ UNCHANGED cause
  BY <1>2, NoBlock DEF G!rollbackVars
<1> QED BY <1>1, <1>2 DEF G!Execute

LEMMA HistoryOfStep ==
  ASSUME Inv, [Next]_vars, asked' = asked
  PROVE  HistoryKept
<1>1. CASE UNCHANGED vars
  BY <1>1 DEF vars, HistoryKept
<1>2. ASSUME NEW c \in Creators, NEW id \in Requests, Create(c, id) PROVE HistoryKept
  BY <1>2 DEF Create, HistoryKept, Inv, TypeOK, NoEarlyExecutor
<1>3. ASSUME NEW u \in Approvers, Execute(u) PROVE HistoryKept
  BY <1>3 DEF Execute, HistoryKept, Inv, TypeOK
<1>4. ASSUME NEW u \in Approvers,
             \/ \E id \in Requests : Check(u, id)
             \/ Record(u) \/ RecordRefused(u) \/ AuditExecution(u)
      PROVE  HistoryKept
  BY <1>4 DEF Check, Record, RecordRefused, AuditExecution, history, HistoryKept
<1>5. CASE Restart
  BY <1>5 DEF Restart, history, HistoryKept
<1> QED BY <1>1, <1>2, <1>3, <1>4, <1>5 DEF Next

LEMMA HistoryOfCreate ==
  ASSUME Inv, NEW c \in Creators, NEW id \in Requests, Create(c, id),
         NEW q, asked' = [asked EXCEPT ![id] = q], asked \in [Requests -> Askable]
  PROVE  HistoryKept
<1>1. executors[id] = {} /\ executors' = executors
  BY DEF Create, Inv, NoEarlyExecutor
<1>2. \A r \in Requests : r # id => requester'[r] = requester[r] /\ asked'[r] = asked[r]
  BY DEF Create, Inv, TypeOK
<1> QED BY <1>1, <1>2 DEF HistoryKept

\* Of PlayInv, the composition's other steps change nothing.
LEMMA PlayFrame ==
  ASSUME PlayInv, UNCHANGED <<playbooks, file, reported, runs, matched, tried, crashes>>
  PROVE  PlayInv'
  BY StoreKeepsPlay DEF PlayInv

LEMMA OpsBound ==
  ASSUME AskedOK, G!Operation \/ ops' = ops
  PROVE  ops' \in 0..MaxOps
  BY GuardedAssumption DEF AskedOK, G!Operation

LEMMA ApprovalSame ==
  ASSUME UNCHANGED G!approvalVars
  PROVE  UNCHANGED vars /\ crashes' = crashes
  BY DEF G!approvalVars, vars

-----------------------------------------------------------------------------
LEMMA PlaybookStepsGuarded ==
  ASSUME GuardedInv, G!PlaybookSteps
  PROVE  GuardedInv'
<1>1. UNCHANGED <<vars, blocked, config, asked, cause>> /\ crashes' = crashes
  BY ApprovalSame DEF G!PlaybookSteps, G!rollbackVars
<1>2. Inv'
  BY <1>1, NextInv DEF GuardedInv
<1>3. HistoryKept
  BY <1>1, HistoryOfStep DEF GuardedInv
<1>4. AskedOK'
  <2>1. G!Operation \/ ops' = ops
    BY DEF G!PlaybookSteps
  <2> QED BY <1>1, <2>1, OpsBound DEF GuardedInv, AskedOK, Askable
<1>5. BlocksOK'
  BY <1>1, <1>3, NoBlock DEF GuardedInv
<1>6. PlayInv'
  BY <1>1, EditPlay, ReportPlay, ReturnPlay DEF G!PlaybookSteps, GuardedInv
<1> QED BY <1>2, <1>4, <1>5, <1>6 DEF GuardedInv

LEMMA TimersGuarded ==
  ASSUME GuardedInv, G!Timers
  PROVE  GuardedInv'
<1>1. UNCHANGED <<vars, config, ops, asked, cause>> /\ crashes' = crashes
      /\ UNCHANGED <<playbooks, file, reported, runs, matched, tried>>
  BY ApprovalSame DEF G!Timers, G!playbookVars
<1>2. Inv'
  BY <1>1, NextInv DEF GuardedInv
<1>3. HistoryKept
  BY <1>1, HistoryOfStep DEF GuardedInv
<1>4. AskedOK'
  BY <1>1 DEF GuardedInv, AskedOK, Askable
<1>5. blocked' \subseteq blocked
  BY TimerFacts DEF G!Timers
<1>6. BlocksOK'
  BY <1>1, <1>3, <1>5, NoBlock DEF GuardedInv
<1>7. PlayInv'
  BY <1>1, PlayFrame DEF GuardedInv
<1> QED BY <1>2, <1>4, <1>6, <1>7 DEF GuardedInv

LEMMA RestartGuarded ==
  ASSUME GuardedInv, G!Restart
  PROVE  GuardedInv'
<1>1. Restart /\ UNCHANGED <<config, ops, asked, cause>>
  BY SameRestart DEF G!Restart
<1>2. Inv'
  BY <1>1, NextInv DEF GuardedInv, Next
<1>3. HistoryKept
  BY <1>1, HistoryOfStep DEF GuardedInv, Next
<1>4. AskedOK'
  BY <1>1 DEF GuardedInv, AskedOK, Askable
<1>5. blocked' \subseteq blocked
  BY TimerFacts DEF G!Restart
<1>6. BlocksOK'
  BY <1>1, <1>3, <1>5, NoBlock DEF GuardedInv
<1>7. PlayInv'
  BY <1>1, ReopenPlay DEF GuardedInv, G!Restart, Restart
<1> QED BY <1>2, <1>4, <1>6, <1>7 DEF GuardedInv

LEMMA UserRequestsGuarded ==
  ASSUME GuardedInv, NEW u \in Users, NEW id \in Requests, NEW q \in Actions,
         G!UserRequests(u, id, q)
  PROVE  GuardedInv'
<1>1. /\ Create(u, id) /\ u \in Creators /\ G!Operation
      /\ asked' = [asked EXCEPT ![id] = q]
      /\ UNCHANGED <<playbooks, file, reported, runs, matched, tried, blocked, config, cause>>
  BY SameCreate DEF G!UserRequests, G!playbookVars, G!rollbackVars
<1>2. Inv' /\ crashes' = crashes
  BY <1>1, NextInv DEF GuardedInv, Next, Create
<1>3. HistoryKept
  BY <1>1, HistoryOfCreate DEF GuardedInv, AskedOK
<1>4. AskedOK'
  BY <1>1, OpsBound DEF GuardedInv, AskedOK, Askable
<1>5. BlocksOK'
  BY <1>1, <1>3, NoBlock DEF GuardedInv
<1>6. PlayInv'
  BY <1>1, <1>2, PlayFrame DEF GuardedInv
<1> QED BY <1>2, <1>4, <1>5, <1>6 DEF GuardedInv

LEMMA ApproverStepsGuarded ==
  ASSUME GuardedInv, NEW u \in Approvers, G!ApproverSteps(u)
  PROVE  GuardedInv'
<1>1. /\ (\E id \in Requests : Check(u, id)) \/ Record(u) \/ RecordRefused(u) \/ AuditExecution(u)
      /\ UNCHANGED <<playbooks, file, reported, runs, matched, tried, blocked, config, ops,
                     asked, cause>>
  BY SameHandler DEF G!ApproverSteps, G!playbookVars, G!rollbackVars
<1>2. Next /\ crashes' = crashes
  BY <1>1 DEF Next, Check, Record, RecordRefused, AuditExecution
<1>3. Inv' /\ HistoryKept
  BY <1>1, <1>2, NextInv, HistoryOfStep DEF GuardedInv
<1>4. AskedOK'
  BY <1>1 DEF GuardedInv, AskedOK, Askable
<1>5. BlocksOK'
  BY <1>1, <1>3, NoBlock DEF GuardedInv
<1>6. PlayInv'
  BY <1>1, <1>2, PlayFrame DEF GuardedInv
<1> QED BY <1>3, <1>4, <1>5, <1>6 DEF GuardedInv

\* What may be asked for names an address in some form, if it is a block.
LEMMA AskableForm ==
  ASSUME NEW q \in Askable, q.type = "block_ip"
  PROVE  q.form \in Forms
<1>1. CASE q \in Actions
  BY <1>1, GuardedAssumption
<1>2. CASE q = G!NoAction
  BY <1>2 DEF G!NoAction
<1>3. CASE q \notin Actions /\ q # G!NoAction
  BY <1>3, GuardedAssumption DEF Askable
<1> QED BY <1>1, <1>2, <1>3

LEMMA ApproverExecutesGuarded ==
  ASSUME GuardedInv, NEW u \in Approvers, G!ApproverExecutes(u)
  PROVE  GuardedInv'
<1> DEFINE id == handler[u].id
           q == asked[id]
           ok == handler'[u].ok
           why == [by |-> "request", user |-> u, id |-> id]
<1>1. /\ Execute(u) /\ G!Execute(u, q, why, ok)
      /\ UNCHANGED <<playbooks, file, reported, runs, matched, tried, config, ops, asked>>
  BY SameHandler DEF G!ApproverExecutes, G!playbookVars
<1>2. Next /\ crashes' = crashes
  BY <1>1 DEF Next, Execute
<1>3. Inv' /\ HistoryKept
  BY <1>1, <1>2, NextInv, HistoryOfStep DEF GuardedInv
<1>4. /\ id \in Requests /\ requester[id] # u /\ requester' = requester
      /\ ok \in BOOLEAN /\ (ok => u \in executors'[id])
  <2>1. id \in Requests /\ requester[id] # u
    BY <1>1 DEF Execute, GuardedInv, Inv, HandlersApart
  <2>2. PICK x \in BOOLEAN :
          /\ handler' = [handler EXCEPT ![u] = [@ EXCEPT !.at = "executed", !.ok = x]]
          /\ executors' = IF x THEN [executors EXCEPT ![id] = @ \cup {u}] ELSE executors
    BY <1>1 DEF Execute
  <2>3. ok = x
    BY <2>2 DEF GuardedInv, Inv, TypeOK
  <2>4. x => u \in executors'[id]
    BY <2>1, <2>2 DEF GuardedInv, Inv, TypeOK
  <2> QED BY <1>1, <2>1, <2>3, <2>4 DEF Execute
<1>5. q \in Askable /\ asked' = asked
  BY <1>1, <1>4 DEF GuardedInv, AskedOK
<1>6. BlocksOK'
  <2> PICK b \in BOOLEAN : b = ok
    BY <1>4
  <2> PICK i \in Requests : i = id
    BY <1>4
  <2> PICK a \in Askable : a = q /\ a = asked[i]
    BY <1>5
  <2>1. G!Execute(u, a, [by |-> "request", user |-> u, id |-> i], b)
    BY <1>1
  <2>2. a.type = "block_ip" => a.form \in Forms
    BY AskableForm
  <2>3. a.type = "block_ip" /\ b => Justified([by |-> "request", user |-> u, id |-> i], Address(a.form))'
    BY <1>4, <1>5 DEF Justified
  <2> HIDE DEF id, q, ok, why
  <2> QED BY <1>1, <1>3, <2>1, <2>2, <2>3, ExecuteGuarded DEF GuardedInv
<1>7. AskedOK'
  BY <1>1 DEF GuardedInv, AskedOK, Askable
<1>8. PlayInv'
  BY <1>1, <1>2, PlayFrame DEF GuardedInv
<1> QED BY <1>3, <1>6, <1>7, <1>8 DEF GuardedInv

LEMMA DirectGuarded ==
  ASSUME GuardedInv, NEW q \in Actions, G!Direct(q)
  PROVE  GuardedInv'
<1>1. /\ G!Operation /\ UNCHANGED vars /\ crashes' = crashes
      /\ UNCHANGED <<playbooks, file, reported, runs, matched, tried, config, asked>>
  BY ApprovalSame DEF G!Direct, G!playbookVars
<1>2. PICK ok \in BOOLEAN : G!Execute(Admin, q, [by |-> "direct"], ok)
  BY DEF G!Direct
<1>3. Inv' /\ HistoryKept
  BY <1>1, NextInv, HistoryOfStep DEF GuardedInv
<1>4. q.type = "block_ip" /\ ok => Justified([by |-> "direct"], Address(q.form))'
  BY DEF Justified
<1>5. BlocksOK'
  BY <1>1, <1>2, <1>3, <1>4, ExecuteGuarded, GuardedAssumption DEF GuardedInv
<1>6. AskedOK'
  BY <1>1, OpsBound DEF GuardedInv, AskedOK, Askable
<1>7. PlayInv'
  BY <1>1, PlayFrame DEF GuardedInv
<1> QED BY <1>3, <1>5, <1>6, <1>7 DEF GuardedInv

\* What a goroutine works on.
LEMMA WorkerFacts ==
  ASSUME PlayInv, NEW g \in runs, g.todo # <<>>
  PROVE  /\ g.match \in matched /\ g.match.playbook \in Drafts
         /\ g.match.playbook.enabled /\ G!Matches(g.match.playbook, g.match.finding)
         /\ g.match.finding \in Findings /\ g.match.finding.target \in Forms
         /\ Head(g.todo) \in Todo(g.match)
         /\ g.kind = "execute" => /\ g.match.playbook.mode = "automatic"
                                  /\ Outcomes(g.match) = {"done", "error"}
         /\ g.kind = "request" => Outcomes(g.match) = {"asked"}
<1>1. /\ g.match \in matched /\ g.match.playbook.mode # "dry_run"
      /\ g.kind = G!Kind(g.match.playbook.mode) /\ g.todo \in Seq(Todo(g.match))
  <2>1. Worker(g)
    BY DEF PlayInv, WorkersOK
  <2>2. g = [kind |-> G!Kind(g.match.playbook.mode), match |-> g.match, todo |-> g.todo]
    BY <2>1 DEF Worker
  <2>3. g.kind = G!Kind(g.match.playbook.mode)
    BY <2>2
  <2> QED BY <2>1, <2>3 DEF Worker
<1>2. /\ g.match.playbook \in Drafts /\ g.match.finding \in Findings
      /\ g.match.playbook.enabled /\ G!Matches(g.match.playbook, g.match.finding)
  BY <1>1 DEF PlayInv, MatchesTrue
<1>3. Head(g.todo) \in Todo(g.match)
  BY <1>1, HeadTailProperties
<1>4. g.match.playbook.mode \in {"approval_required", "automatic"}
  BY <1>1, <1>2, DraftFacts
<1>5. /\ g.kind = "execute" => g.match.playbook.mode = "automatic"
      /\ g.kind = "request" => g.match.playbook.mode = "approval_required"
  BY <1>1, <1>4, KindFacts
<1>6. g.match.finding.target \in Forms
  BY <1>2, GuardedAssumption
<1> QED BY <1>1, <1>2, <1>3, <1>5, <1>6 DEF Outcomes

LEMMA AutomaticGuarded ==
  ASSUME GuardedInv, NEW g \in runs, G!AutomaticAction(g)
  PROVE  GuardedInv'
<1>1. /\ g.kind = "execute" /\ g.todo # <<>> /\ UNCHANGED vars /\ crashes' = crashes
      /\ UNCHANGED <<config, ops, asked>>
  BY ApprovalSame DEF G!AutomaticAction
<1> PICK c : c = <<g.match.id, g.match.finding>>
  OBVIOUS
<1> PICK why : why = [by |-> "playbook", match |-> g.match]
  OBVIOUS
<1> PICK q : q = G!Request(g)
  OBVIOUS
<1>2. PICK ok \in BOOLEAN :
        /\ G!Advance(g, IF ok THEN "done" ELSE "error")
        /\ \/ G!Execute(c, q, why, ok)
           \/ UNCHANGED <<G!rollbackVars, cause>>
  BY DEF G!AutomaticAction
<1>3. Inv' /\ HistoryKept
  BY <1>1, NextInv, HistoryOfStep DEF GuardedInv
<1>4. PlayInv'
  <2>1. (IF ok THEN "done" ELSE "error") \in Outcomes(g.match)
    BY <1>1, WorkerFacts DEF GuardedInv
  <2> QED BY <1>1, <1>2, <2>1, AdvancePlay DEF GuardedInv
<1>5. BlocksOK'
  <2>1. q.form = g.match.finding.target /\ q.form \in Forms
    BY <1>1, WorkerFacts DEF G!Request, GuardedInv
  <2>2. Justified(why, Address(q.form))'
    BY <1>1, <2>1, WorkerFacts DEF Justified, GuardedInv
  <2>3. CASE G!Execute(c, q, why, ok)
    BY <1>1, <1>3, <2>1, <2>2, <2>3, ExecuteGuarded DEF GuardedInv
  <2>4. CASE UNCHANGED <<G!rollbackVars, cause>>
    BY <1>1, <1>3, <2>4, NoBlock DEF GuardedInv, G!rollbackVars
  <2> QED BY <1>2, <2>3, <2>4
<1>6. AskedOK'
  BY <1>1 DEF GuardedInv, AskedOK, Askable
<1> QED BY <1>3, <1>4, <1>5, <1>6 DEF GuardedInv

LEMMA RequestGuarded ==
  ASSUME GuardedInv, NEW g \in runs, G!RequestAction(g)
  PROVE  GuardedInv'
<1>1. /\ g.kind = "request" /\ g.todo # <<>> /\ G!Advance(g, "asked")
      /\ UNCHANGED <<blocked, config, ops, cause>>
  BY DEF G!RequestAction, G!rollbackVars
<1>2. /\ Inv' /\ HistoryKept /\ crashes' = crashes /\ asked' \in [Requests -> Askable]
  <2>1. CASE UNCHANGED <<G!approvalVars, asked>>
    <3>1. UNCHANGED vars /\ crashes' = crashes /\ asked' = asked
      BY <2>1, ApprovalSame
    <3> QED BY <3>1, NextInv, HistoryOfStep DEF GuardedInv, AskedOK
  <2>2. ASSUME NEW id \in Requests, G!Approval!Create(Automation, id),
               asked' = [asked EXCEPT ![id] = G!Request(g)]
        PROVE  Inv' /\ HistoryKept /\ crashes' = crashes /\ asked' \in [Requests -> Askable]
    <3>1. Create(Automation, id) /\ Automation \in Creators
      BY <2>2, SameCreate
    <3>2. Inv' /\ crashes' = crashes
      BY <3>1, NextInv DEF GuardedInv, Next, Create
    <3>3. HistoryKept
      BY <2>2, <3>1, HistoryOfCreate DEF GuardedInv, AskedOK
    <3>4. G!Request(g) \in Askable
      <4>1. /\ Head(g.todo) \in DraftActions /\ g.match.finding \in Findings
        BY <1>1, WorkerFacts DEF Todo, DraftActions, GuardedInv
      <4> PICK a \in DraftActions : a = Head(g.todo)
        BY <4>1
      <4> PICK f \in Findings : f = g.match.finding
        BY <4>1
      <4>2. G!Request(g) = [type |-> a.type, ttl |-> a.ttl, form |-> f.target]
        BY DEF G!Request
      <4> QED BY <4>1, <4>2 DEF Askable
    <3> QED BY <2>2, <3>2, <3>3, <3>4 DEF GuardedInv, AskedOK
  <2> QED BY <2>1, <2>2 DEF G!RequestAction
<1>3. PlayInv'
  <2>1. "asked" \in Outcomes(g.match)
    BY <1>1, WorkerFacts DEF GuardedInv
  <2> QED BY <1>1, <1>2, <2>1, AdvancePlay DEF GuardedInv
<1>4. BlocksOK'
  BY <1>1, <1>2, NoBlock DEF GuardedInv
<1>5. AskedOK'
  BY <1>1, <1>2 DEF GuardedInv, AskedOK, Askable
<1> QED BY <1>2, <1>3, <1>4, <1>5 DEF GuardedInv

LEMMA GuardedNext == GuardedInv /\ G!Next => GuardedInv'
  BY PlaybookStepsGuarded, TimersGuarded, RestartGuarded, UserRequestsGuarded,
     ApproverExecutesGuarded, ApproverStepsGuarded, DirectGuarded, AutomaticGuarded,
     RequestGuarded DEF G!Next

LEMMA GuardedInit == G!Init => GuardedInv
<1> SUFFICES ASSUME G!Init PROVE GuardedInv
  OBVIOUS
<1>1. Init
  BY GuardedAssumption DEF G!Init, G!Approval!Init, Init, G!Approval!Absent, Absent,
     G!Approval!Idle, Idle
<1>2. Inv /\ crashes = 0
  BY <1>1, InitInv DEF Init
<1>3. PlayInv
  BY <1>2, PlayInit DEF G!Init
<1>4. AskedOK
  BY GuardedAssumption DEF G!Init, AskedOK, Askable
<1>5. BlocksOK
  <2>1. blocked = {}
    BY DEF G!Init, G!Rollback!RollbackInit
  <2>2. cause = [a \in Addresses |-> G!NoCause]
    BY DEF G!Init, Addresses
  <2> QED BY <2>1, <2>2 DEF BlocksOK
<1> QED BY <1>2, <1>3, <1>4, <1>5 DEF GuardedInv

LEMMA GuardedObeys == GuardedInv => G!TypeOK /\ G!Guardrails /\ G!EveryActionTried
<1> SUFFICES ASSUME GuardedInv PROVE G!TypeOK /\ G!Guardrails /\ G!EveryActionTried
  OBVIOUS
<1>1. \A m \in matched : m.playbook \in Drafts /\ m.finding \in reported
  BY DEF GuardedInv, PlayInv, MatchesTrue
<1>2. \A g \in runs : g.match \in matched
  BY DEF GuardedInv, PlayInv, WorkersOK, Worker
<1>3. G!TypeOK
  BY <1>1, <1>2 DEF G!TypeOK, GuardedInv, AskedOK, Askable, DraftActions
<1>4. G!Guardrails
  BY DEF G!Guardrails, GuardedInv, BlocksOK, Permitted, Justified
<1> QED BY <1>3, <1>4, PlayTried DEF GuardedInv

-----------------------------------------------------------------------------
\* Whatever is edited, restarted and rolled back meanwhile, an address in the
\* firewall set passed the guards of Manager.Execute and was put there by a
\* direct request, by an approver of somebody else's request for it, or by an
\* enabled, automatic playbook that matched a finding about it; and a matched
\* playbook's actions are all carried out, once (Engine.onFinding and
\* executeAutomaticPlaybook).
THEOREM PlaybooksObeyCorrect == PartSpec => []PlaybooksObey
<1> DEFINE Obeying == part = "guarded" => GuardedInv
<1>1. PartInit => Obeying
  BY GuardedInit DEF PartInit
<1>2. Obeying /\ [PartNext]_all => Obeying'
  <2> SUFFICES ASSUME Obeying, [PartNext]_all, part' = "guarded" PROVE GuardedInv'
    OBVIOUS
  <2>1. part = "guarded"
    BY DEF PartNext, all
  <2>2. CASE G!Next
    BY <2>1, <2>2, GuardedNext
  <2>3. CASE UNCHANGED all
    <3>1. UNCHANGED <<vars, blocked, config, ops, asked, cause>> /\ crashes' = crashes
          /\ UNCHANGED <<playbooks, file, reported, runs, matched, tried>>
      BY <2>3 DEF all, guardedOnly, rollbackVars, elements, vars
    <3>2. Inv' /\ HistoryKept
      BY <2>1, <3>1, NextInv, HistoryOfStep DEF GuardedInv
    <3>3. AskedOK' /\ BlocksOK'
      BY <2>1, <3>1, <3>2, NoBlock DEF GuardedInv, AskedOK, Askable
    <3>4. PlayInv'
      BY <2>1, <3>1, PlayFrame DEF GuardedInv
    <3> QED BY <3>2, <3>3, <3>4 DEF GuardedInv
  <2> QED BY <2>1, <2>2, <2>3 DEF PartNext
<1>3. Obeying => PlaybooksObey
  BY GuardedObeys DEF PlaybooksObey
<1>4. PartSpec => PartInit /\ [][PartNext]_all
  BY PTL DEF PartSpec
<1> QED BY <1>1, <1>2, <1>3, <1>4, PTL
=============================================================================
