------------------------------- MODULE Outlet -------------------------------
(***************************************************************************)
(* What every exporter of the program promises (docs/EXPORT_SYSLOG_FLOW.md *)
(* and docs/ADVANCED_V10.md): it never makes the packet path wait, and     *)
(* every item an outlet is offered is delivered or counted, exactly once.  *)
(* EventExport, Notifications, Streaming and Integrations implement it.    *)
(***************************************************************************)
EXTENDS Naturals, FiniteSets

CONSTANTS Outlets,   \* destinations, channels or targets
          Items      \* events or findings

VARIABLES place,     \* where an item is, for every outlet
          closed     \* outlets that were cancelled

outletVars == <<place, closed>>

Init ==
  /\ place = [o \in Outlets |-> [i \in Items |-> "new"]]
  /\ closed = {}

\* Suppressed: a duplicate that is counted and not delivered.
Settled == {"sent", "failed", "dropped", "suppressed"}

\* An item is taken or refused at once; what is taken is settled once.
Moves == ({"new"} \X ({"waiting"} \cup Settled)) \cup ({"waiting"} \X Settled)

Forgotten(o, i) == place'[o][i] = "forgotten"

\* A cancelled outlet may forget what waits, and nothing else.
MayMove(o, i) ==
  \/ <<place[o][i], place'[o][i]>> \in Moves
  \/ Forgotten(o, i) /\ o \in closed' /\ place[o][i] \in {"new", "waiting"}

\* Every outlet moves one item, or none: a slow one holds up no other.
Next ==
  /\ closed \subseteq closed'
  /\ \A o \in Outlets : LET moved == {i \in Items : place'[o][i] # place[o][i]} IN
       /\ \A i \in moved : MayMove(o, i)
       /\ Cardinality({i \in moved : ~Forgotten(o, i)}) <= 1

\* Nothing waits for ever at an outlet that is not cancelled: the items being
\* finitely many, again and again nothing waits.
Live == []<>(\A o \in Outlets \ closed : \A i \in Items : place[o][i] # "waiting")

Spec == Init /\ [][Next]_outletVars /\ Live
=============================================================================
