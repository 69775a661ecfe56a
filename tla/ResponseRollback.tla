-------------------------- MODULE ResponseRollback --------------------------
(***************************************************************************)
(* Timed blocks of the response manager (internal/response/manager.go):    *)
(* Execute of block_ip and unblock_ip, and the timer that rolls a block    *)
(* back.                                                                   *)
(*                                                                         *)
(* A block adds the address to an nftables set with no lock held, and then *)
(* arms a timer under the mutex.  The table of timers is keyed by the      *)
(* address as the caller wrote it, the rollback uses its canonical form;   *)
(* a Form is a way to write an address.  A timer that fires first rolls    *)
(* back and then, in a second step, deletes its key from the table.  An    *)
(* nft command takes effect or fails; dry runs and refused requests change *)
(* nothing and are left out.  A restart of the daemon loses the timers and *)
(* leaves the nftables set as it is.                                       *)
(***************************************************************************)
EXTENDS Naturals, FiniteSets

CONSTANTS Forms,        \* the ways callers write addresses
          Address(_),   \* the canonical form
          Callers,      \* HTTP handlers and automatic playbooks
          MaxTimers,    \* bound on the timers created
          MaxFailures,  \* bound on rollback commands that fail
          MaxRestarts   \* bound on restarts of the daemon

NoForm == "none"
ASSUME RollbackAssumption ==
  /\ {MaxTimers, MaxFailures, MaxRestarts} \subseteq Nat
  /\ NoForm \notin Forms /\ IsFiniteSet(Callers)

VARIABLES blocked,   \* the elements of the nftables set blocked_ips
          lasting,   \* the blocked addresses last added without a TTL (history)
          orphaned,  \* the blocked addresses whose rollback failed, or whose
                     \* timers a restart lost, since they were added (history)
          timers,    \* the state of every timer created
          table,     \* m.timers: the timer stored under each key, 0 for none
          arming,    \* the form a caller has blocked and must arm a timer for
          failures, restarts

elements == <<blocked, lasting, orphaned>>
rollbackVars == <<elements, timers, table, arming, failures, restarts>>

Addresses == {Address(f) : f \in Forms}
TimerIds == 1..MaxTimers
Unused == [key |-> NoForm, state |-> "unused"]
States == {"unused", "armed", "stopped", "fired", "rolledBack", "done"}
RollbackInit ==
  /\ blocked = {} /\ lasting = {} /\ orphaned = {}
  /\ timers = [t \in TimerIds |-> Unused]
  /\ table = [f \in Forms |-> 0]
  /\ arming = [c \in Callers |-> NoForm]
  /\ failures = 0 /\ restarts = 0

Free == {t \in TimerIds : timers[t].state = "unused"}
Set(t, s) == [timers EXCEPT ![t].state = s]

\* The nft commands.
Add(a) == blocked' = blocked \cup {a} /\ orphaned' = orphaned \ {a}
Remove(a) ==
  /\ blocked' = blocked \ {a} /\ lasting' = lasting \ {a}
  /\ orphaned' = orphaned \ {a}

\* block_ip with a TTL: the element is added (adding it twice is no error).
Block(c, f) ==
  /\ arming[c] = NoForm
  /\ Cardinality(Free) > Cardinality({d \in Callers : arming[d] # NoForm})
  /\ Add(Address(f)) /\ lasting' = lasting \ {Address(f)}
  /\ arming' = [arming EXCEPT ![c] = f]
  /\ UNCHANGED <<timers, table, failures, restarts>>

\* block_ip without a TTL arms no timer and stops none.
BlockForGood(c, f) ==
  /\ arming[c] = NoForm
  /\ Add(Address(f)) /\ lasting' = lasting \cup {Address(f)}
  /\ UNCHANGED <<timers, table, arming, failures, restarts>>

\* Mutant: a key that has a timer keeps it.
ArmOnce(c) ==
  /\ arming[c] # NoForm
  /\ LET f == arming[c]
         t == CHOOSE u \in Free : TRUE
     IN IF table[f] # 0 THEN UNCHANGED <<timers, table>>
        ELSE /\ timers' = [timers EXCEPT ![t] = [key |-> f, state |-> "armed"]]
             /\ table' = [table EXCEPT ![f] = t]
  /\ arming' = [arming EXCEPT ![c] = NoForm]
  /\ UNCHANGED <<elements, failures, restarts>>

\* The region under the mutex: the timer stored under the key is stopped,
\* which has no effect once it fired, and a new one takes its place.
Arm(c) ==
  /\ arming[c] # NoForm
  /\ LET f == arming[c]
         t == CHOOSE u \in Free : TRUE
         stopped == IF table[f] # 0 /\ timers[table[f]].state = "armed"
                      THEN Set(table[f], "stopped") ELSE timers
     IN /\ timers' = [stopped EXCEPT ![t] = [key |-> f, state |-> "armed"]]
        /\ table' = [table EXCEPT ![f] = t]
  /\ arming' = [arming EXCEPT ![c] = NoForm]
  /\ UNCHANGED <<elements, failures, restarts>>

\* unblock_ip deletes the element, and leaves the timers alone.
Unblock(c, f) ==
  /\ arming[c] = NoForm
  /\ Address(f) \in blocked
  /\ Remove(Address(f))
  /\ UNCHANGED <<timers, table, arming, failures, restarts>>

Fire(t) ==
  /\ timers[t].state = "armed"
  /\ timers' = Set(t, "fired")
  /\ UNCHANGED <<elements, table, arming, failures, restarts>>

\* The rollback; its error is ignored.
Rollback(t) ==
  /\ timers[t].state = "fired"
  /\ \/ Remove(Address(timers[t].key)) /\ UNCHANGED failures
     \/ /\ failures < MaxFailures /\ failures' = failures + 1
        /\ orphaned' = orphaned \cup (blocked \cap {Address(timers[t].key)})
        /\ UNCHANGED <<blocked, lasting>>
  /\ timers' = Set(t, "rolledBack")
  /\ UNCHANGED <<table, arming, restarts>>

\* The callback deletes the key, whichever timer is stored under it by now.
Forget(t) ==
  /\ timers[t].state = "rolledBack"
  /\ timers' = Set(t, "done")
  /\ table' = [table EXCEPT ![timers[t].key] = 0]
  /\ UNCHANGED <<elements, arming, failures, restarts>>

\* New starts with an empty table; the set is not read back.
LoseTimers ==
  /\ restarts < MaxRestarts /\ restarts' = restarts + 1
  /\ timers' = [t \in TimerIds |-> IF timers[t] = Unused THEN Unused
                                   ELSE [timers[t] EXCEPT !.state = "done"]]
  /\ table' = [f \in Forms |-> 0]
  /\ arming' = [c \in Callers |-> NoForm]
  /\ orphaned' = blocked
  /\ UNCHANGED <<blocked, lasting, failures>>

RollbackNext ==
  \/ \E c \in Callers : \/ Arm(c)
                        \/ \E f \in Forms : \/ Block(c, f) \/ BlockForGood(c, f)
                                            \/ Unblock(c, f)
  \/ \E t \in TimerIds : Fire(t) \/ Rollback(t) \/ Forget(t)
  \/ LoseTimers

RollbackSpec == RollbackInit /\ [][RollbackNext]_rollbackVars

-----------------------------------------------------------------------------
\* The types of the timers, their table and the callers; the table holds no
\* timer whose callback has returned, so it does not grow with every block.
TimersTypeOK ==
  /\ blocked \subseteq Addresses /\ lasting \cup orphaned \subseteq blocked
  /\ timers \in [TimerIds -> [key : Forms \cup {NoForm}, state : States]]
  /\ table \in [Forms -> TimerIds \cup {0}]
  /\ \A f \in Forms : table[f] # 0 => /\ timers[table[f]].key = f
                                      /\ timers[table[f]].state # "done"
  /\ arming \in [Callers -> Forms \cup {NoForm}]
  /\ failures \in 0..MaxFailures /\ restarts \in 0..MaxRestarts

WillUnblock(a) ==
  \/ \E t \in TimerIds : timers[t].state \in {"armed", "fired"} /\ Address(timers[t].key) = a
  \/ \E c \in DOMAIN arming : arming[c] # NoForm /\ Address(arming[c]) = a

\* "TTL rollback" (README.md:298): as long as a block with a TTL is in place,
\* a timer that will remove it is armed or running, or the handler is about to
\* arm one, however blocks, unblocks, stopped and late timers interleave.  Only
\* a rollback command that fails, which the callback ignores, and a restart of
\* the daemon leave a timed block without one.
TimedBlockHasTimer ==
  \A a \in blocked \ (lasting \cup orphaned) : WillUnblock(a)

\* A block with a TTL never becomes permanent by itself: the address leaves the
\* set, or somebody blocks it for good, or it is orphaned.
TimedBlockEnds ==
  \A a \in Addresses :
    a \in blocked \ lasting ~> a \notin blocked \/ a \in lasting \cup orphaned
=============================================================================
