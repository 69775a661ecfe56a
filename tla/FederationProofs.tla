--------------------------- MODULE FederationProofs ---------------------------
(***************************************************************************)
(* Proofs about Federation, for any size of the list, any numbers of       *)
(* commands, snapshots and executions, and any number of faults.           *)
(***************************************************************************)
EXTENDS Federation, SequenceTheorems, FiniteSetTheorems, WellFoundedInduction, TLAPS

-----------------------------------------------------------------------------
\* A hub of types, whose list is in the order of issue, with nothing numbered
\* beyond the n commands issued and the k snapshots taken, and whose outcomes are
\* those of the executions R.
HubOK(h, n, k, R) ==
  /\ h \in [commands : Seq(Commands), snapshot : 0..k]
  /\ Len(h.commands) <= QueueLimit
  /\ \A i, j \in 1..Len(h.commands) : i < j => h.commands[i].id < h.commands[j].id
  /\ \A i \in 1..Len(h.commands) :
       LET c == h.commands[i] IN
       c.id <= n /\ (c.state # "queued" => [id |-> c.id, state |-> c.state] \in R)
HubsOK == \A h \in {hub, disk} : HubOK(h, issued, snaps, ToSet(runs))

\* A request reports an execution of R, or one of the k snapshots.
RequestOK(m, k, R) ==
  /\ m \in Acks \cup Snapshots
  /\ m.type = "ack" => [id |-> m.id, state |-> m.state] \in R
  /\ m.type = "ingest" => m.time <= k
LateOK == \A m \in late : RequestOK(m, snaps, ToSet(runs))

Counts == [losses : Nat, crashes : Nat, restarts : Nat, failures : Nat]
LoopOK ==
  /\ issued \in 0..MaxCommands /\ expired \subseteq 1..issued /\ snaps \in 0..MaxSnapshots
  /\ sensor \in [at : {"send", "fetch", "handle", "ack"}, batch : Seq(1..issued),
                 outcome : Outcomes]
  /\ sensor.at \in {"handle", "ack"} <=> sensor.batch # <<>>
  /\ runs \in Seq([id : 1..issued, state : Outcomes]) /\ Len(runs) <= MaxRuns
  /\ spent \in Counts
  /\ sensor.at = "ack" =>
       [id |-> Head(sensor.batch), state |-> sensor.outcome] \in ToSet(runs)

\* Until a save fails the file is what the controller has, and the list holds
\* the commands issued last.
Full(h, n) ==
  /\ Len(h.commands) = IF n <= QueueLimit THEN n ELSE QueueLimit
  /\ \A i \in 1..Len(h.commands) : h.commands[i].id = n - Len(h.commands) + i
Durable ==
  /\ spent.failures = 0 => disk = hub /\ Full(hub, issued)
  /\ spent.losses = 0 => late = {}
  /\ spent.failures = 0 /\ spent.losses = 0 => hub.snapshot = snaps

\* Of the commands that wait, those the sensor holds come first, and what it has
\* executed comes before them all.
Calm == spent.losses = 0 /\ spent.failures = 0 /\ spent.crashes = 0
Done == {r.id : r \in ToSet(runs)}
Current == IF sensor.at = "ack" THEN {Head(sensor.batch)} ELSE {}
Lined ==
  /\ Increasing(sensor.batch)
  /\ \A i \in Done, b \in ToSet(sensor.batch) : i < b \/ (i = b /\ b \in Current)
  /\ \A n \in 1..Len(hub.commands) :
       LET c == hub.commands[n] IN
       Waits(c) => /\ c.id \in ToSet(sensor.batch) \/ \A b \in ToSet(sensor.batch) : b < c.id
                   /\ c.id \in Current \/ \A i \in Done : i < c.id
InLine == Calm => Lined /\ OrderKept

\* What every step preserves.
Inv == HubsOK /\ LateOK /\ LoopOK /\ Durable /\ InLine

-----------------------------------------------------------------------------
\* Facts about sequences.
LEMMA SeqFacts ==
  ASSUME NEW S, NEW s \in Seq(S)
  PROVE  /\ Len(s) \in Nat /\ DOMAIN s = 1..Len(s) /\ \A n \in 1..Len(s) : s[n] \in S
         /\ ToSet(s) = {s[n] : n \in 1..Len(s)} /\ ToSet(s) \subseteq S
         /\ s = <<>> <=> Len(s) = 0
  BY LenProperties, ElementOfSeq, EmptySeq DEF ToSet

LEMMA EmptyFacts == Len(<<>>) = 0 /\ 1..0 = {} /\ ToSet(<<>>) = {}
<1>1. <<>> \in Seq({}) /\ Len(<<>>) = 0 /\ 1..0 = {}
  BY EmptySeq
<1> QED BY <1>1, SeqFacts

LEMMA AppendFacts ==
  ASSUME NEW S, NEW s \in Seq(S), NEW e \in S
  PROVE  /\ Append(s, e) \in Seq(S) /\ Len(Append(s, e)) = Len(s) + 1
         /\ \A n \in 1..Len(s) : Append(s, e)[n] = s[n]
         /\ Append(s, e)[Len(s) + 1] = e
         /\ ToSet(Append(s, e)) = ToSet(s) \cup {e}
<1> DEFINE t == Append(s, e)
<1>1. /\ t \in Seq(S) /\ Len(t) = Len(s) + 1 /\ t[Len(s) + 1] = e
      /\ \A n \in 1..Len(s) : t[n] = s[n]
  BY AppendProperties
<1>2. Len(s) \in Nat /\ ToSet(s) = {s[n] : n \in 1..Len(s)}
  BY SeqFacts
<1> HIDE DEF t
<1>3. ToSet(t) = {t[n] : n \in 1..Len(t)}
  BY <1>1, SeqFacts
<1>4. 1..Len(t) = 1..Len(s) \cup {Len(s) + 1}
  BY <1>1, <1>2
<1>5. ToSet(t) = ToSet(s) \cup {e}
  BY <1>1, <1>2, <1>3, <1>4
<1> QED BY <1>1, <1>5 DEF t

LEMMA TailFacts ==
  ASSUME NEW S, NEW s \in Seq(S), s # <<>>
  PROVE  /\ Tail(s) \in Seq(S) /\ Len(s) \in Nat \ {0} /\ Len(Tail(s)) = Len(s) - 1
         /\ Head(s) = s[1] /\ Head(s) \in S
         /\ \A n \in 1..Len(Tail(s)) : Tail(s)[n] = s[n + 1]
         /\ ToSet(s) = {Head(s)} \cup ToSet(Tail(s))
<1> DEFINE t == Tail(s)
<1>1. /\ t \in Seq(S) /\ Len(s) \in Nat \ {0} /\ Len(t) = Len(s) - 1
      /\ Head(s) = s[1] /\ \A n \in 1..Len(t) : t[n] = s[n + 1]
  BY HeadTailProperties, EmptySeq
<1>2. Head(s) \in S /\ ToSet(s) = {s[n] : n \in 1..Len(s)}
  BY <1>1, SeqFacts
<1> HIDE DEF t
<1>3. ToSet(t) = {t[n] : n \in 1..Len(t)}
  BY <1>1, SeqFacts
<1>4. ToSet(s) = {Head(s)} \cup ToSet(t)
  <2>1. ASSUME NEW n \in 1..Len(s) PROVE s[n] \in {Head(s)} \cup ToSet(t)
    <3>1. CASE n = 1
      BY <1>1, <3>1
    <3>2. CASE n # 1
      <4>1. n - 1 \in 1..Len(t) /\ t[n - 1] = s[n]
        BY <1>1, <3>2
      <4> QED BY <1>3, <4>1
    <3> QED BY <3>1, <3>2
  <2>2. ASSUME NEW n \in 1..Len(t) PROVE t[n] \in ToSet(s)
    BY <1>1, <1>2
  <2>3. Head(s) \in ToSet(s)
    BY <1>1, <1>2
  <2> QED BY <1>2, <1>3, <2>1, <2>2, <2>3
<1> QED BY <1>1, <1>2, <1>4 DEF t

LEMMA IncreasingFacts ==
  ASSUME NEW s \in Seq(Nat), s # <<>>, Increasing(s)
  PROVE  Increasing(Tail(s)) /\ \A b \in ToSet(Tail(s)) : Head(s) < b
<1>1. /\ Len(s) \in Nat \ {0} /\ Len(Tail(s)) = Len(s) - 1 /\ Head(s) = s[1]
      /\ Tail(s) \in Seq(Nat) /\ \A n \in 1..Len(Tail(s)) : Tail(s)[n] = s[n + 1]
  BY TailFacts
<1>2. ToSet(Tail(s)) = {Tail(s)[n] : n \in 1..Len(Tail(s))}
  BY <1>1, SeqFacts
<1>3. \A n \in 1..Len(Tail(s)) : n + 1 \in 1..Len(s) /\ 1 < n + 1 /\ 1 \in 1..Len(s)
  BY <1>1
<1>4. \A n \in 1..Len(Tail(s)) : s[1] < s[n + 1]
  BY <1>3 DEF Increasing
<1>5. Increasing(Tail(s))
  BY <1>1, <1>3 DEF Increasing
<1> QED BY <1>1, <1>2, <1>4, <1>5
\* A set of numbers that is not empty has a least one.
LEMMA LeastNumber ==
  ASSUME NEW T, T \subseteq Nat, T # {}
  PROVE  \E x \in T : \A y \in T : x <= y
<1>1. IsWellFoundedOn(OpToRel(<, Nat), Nat)
  BY NatLessThanWellFounded
<1>2. PICK x \in T : \A y \in T : ~ (<<y, x>> \in OpToRel(<, Nat))
  BY <1>1, WFMin
<1>3. ASSUME NEW y \in T PROVE x <= y
  <2>1. x \in Nat /\ y \in Nat
    OBVIOUS
  <2>2. y < x => <<y, x>> \in OpToRel(<, Nat)
    BY <2>1 DEF OpToRel
  <2>3. ~(y < x)
    BY <1>2, <2>2
  <2> QED BY <2>1, <2>3
<1> QED BY <1>3

\* A set of positions can be put in order: otherwise take the shortest range of
\* positions with a set that cannot; its last position is in the set, the others
\* can be put in order, and it goes to the end.
Sortable(P) ==
  \E s \in [1..Cardinality(P) -> P] : Increasing(s) /\ ToSet(s) = P

LEMMA EmptySortable == Sortable({})
<1>1. Cardinality({}) = 0 /\ 1..0 = {}
  BY FS_EmptySet
<1>2. <<>> \in [1..0 -> {}] /\ Len(<<>>) = 0 /\ <<>> \in Seq({})
  BY <1>1, EmptySeq
<1>3. Increasing(<<>>) /\ ToSet(<<>>) = {}
  BY <1>1, <1>2, SeqFacts DEF Increasing
<1> QED BY <1>1, <1>2, <1>3 DEF Sortable

LEMMA AddLastSortable ==
  ASSUME NEW n \in Nat \ {0}, NEW P, P \subseteq 1..n, n \in P, Sortable(P \ {n})
  PROVE  Sortable(P)
<1> DEFINE Q == P \ {n}
           k == Cardinality(Q)
<1>1. IsFiniteSet(P) /\ IsFiniteSet(Q)
  <2>1. IsFiniteSet(1..n) /\ P \in SUBSET (1..n) /\ Q \in SUBSET (1..n)
    BY FS_Interval
  <2> HIDE DEF Q
  <2> QED BY <2>1, FS_Subset
<1>2. k \in Nat /\ Cardinality(P) = k + 1
  <2>1. k \in Nat /\ Cardinality(P) \in Nat /\ k = Cardinality(P) - 1
    BY <1>1, FS_RemoveElement, FS_CardinalityType
  <2> QED BY <2>1
<1>3. PICK s \in [1..k -> Q] : Increasing(s) /\ ToSet(s) = Q
  BY DEF Sortable
<1> HIDE DEF k
<1>4. s \in Seq(Q) /\ Len(s) = k /\ s \in Seq(P)
  <2>1. s \in Seq(Q)
    BY <1>2, <1>3, SeqDef
  <2> QED BY <1>2, <1>3, <2>1, LenProperties, SeqMonotonic
<1> DEFINE t == Append(s, n)
<1>5. /\ t \in Seq(P) /\ Len(t) = k + 1 /\ ToSet(t) = Q \cup {n}
      /\ \A i \in 1..k : t[i] = s[i]
      /\ t[k + 1] = n
  BY <1>3, <1>4, AppendFacts
<1> HIDE DEF t
<1>6. t \in [1..(k + 1) -> P]
  BY <1>5, LenProperties
<1>7. Increasing(t)
  <2> SUFFICES ASSUME NEW i \in 1..(k + 1), NEW j \in 1..(k + 1), i < j
               PROVE  t[i] < t[j]
    BY <1>5 DEF Increasing
  <2>1. CASE j \in 1..k
    <3>1. i \in 1..k
      BY <1>2, <2>1
    <3> QED BY <1>3, <1>4, <1>5, <2>1, <3>1 DEF Increasing
  <2>2. CASE j = k + 1
    <3>1. i \in 1..k /\ s[i] \in Q
      BY <1>2, <1>3, <2>2
    <3>2. s[i] \in 1..n /\ s[i] # n
      BY <3>1
    <3>3. t[i] = s[i] /\ t[j] = n
      BY <1>5, <2>2, <3>1
    <3> QED BY <3>2, <3>3
  <2> QED BY <1>2, <2>1, <2>2
<1>8. ToSet(t) = P
  BY <1>5
<1> QED BY <1>2, <1>6, <1>7, <1>8 DEF Sortable

LEMMA PositionsSortable ==
  ASSUME NEW n \in Nat, NEW P, P \subseteq 1..n
  PROVE  Sortable(P)
<1> DEFINE T == {m \in Nat : \E R \in SUBSET (1..m) : ~Sortable(R)}
<1> SUFFICES ASSUME T # {} PROVE FALSE
  OBVIOUS
<1>1. T \subseteq Nat
  OBVIOUS
<1>2. PICK m \in T : \A y \in T : m <= y
  <2> HIDE DEF T
  <2> QED BY <1>1, LeastNumber
<1>3. PICK R \in SUBSET (1..m) : ~Sortable(R)
  BY <1>2
<1>4. m # 0
  <2> SUFFICES ASSUME m = 0 PROVE FALSE
    OBVIOUS
  <2>1. R = {}
    OBVIOUS
  <2> QED BY <1>3, <2>1, EmptySortable
<1>5. \A Q \in SUBSET (1..(m - 1)) : Sortable(Q)
  <2>1. m - 1 \in Nat /\ ~(m <= m - 1)
    BY <1>2, <1>4
  <2>2. m - 1 \notin T
    BY <1>2, <2>1
  <2> QED BY <2>1, <2>2
<1>6. R \ {m} \in SUBSET (1..(m - 1))
  BY <1>3, <1>4
<1>7. m \in R
  BY <1>3, <1>5, <1>6
<1> QED BY <1>3, <1>4, <1>5, <1>6, <1>7, AddLastSortable

LEMMA InOrderFacts ==
  ASSUME NEW n \in Nat, NEW P, P \subseteq 1..n
  PROVE  /\ Cardinality(P) \in Nat /\ InOrder(P) \in [1..Cardinality(P) -> P]
         /\ InOrder(P) \in Seq(P) /\ Len(InOrder(P)) = Cardinality(P)
         /\ Increasing(InOrder(P)) /\ ToSet(InOrder(P)) = P
<1>1. Cardinality(P) \in Nat
  <2>1. IsFiniteSet(1..n) /\ P \in SUBSET (1..n)
    BY FS_Interval
  <2>2. IsFiniteSet(P)
    BY <2>1, FS_Subset
  <2> QED BY <2>2, FS_CardinalityType
<1>2. \E s \in [1..Cardinality(P) -> P] : Increasing(s) /\ ToSet(s) = P
  BY PositionsSortable DEF Sortable
<1>3. /\ InOrder(P) \in [1..Cardinality(P) -> P]
      /\ Increasing(InOrder(P)) /\ ToSet(InOrder(P)) = P
  BY <1>2 DEF InOrder
<1>4. InOrder(P) \in Seq(P)
  BY <1>1, <1>3, SeqDef
<1> QED BY <1>1, <1>3, <1>4, LenProperties
-----------------------------------------------------------------------------
(* The hub *)

\* What is true of a hub stays true as more is issued, taken and executed.
LEMMA HubGrows ==
  ASSUME NEW h, NEW n \in Nat, NEW k \in Nat, NEW R, HubOK(h, n, k, R),
         NEW n2 \in Nat, NEW k2 \in Nat, NEW R2, n <= n2, k <= k2, R \subseteq R2
  PROVE  HubOK(h, n2, k2, R2)
<1>1. h \in [commands : Seq(Commands), snapshot : 0..k2]
  BY DEF HubOK
<1>2. Len(h.commands) \in Nat /\ \A i \in 1..Len(h.commands) : h.commands[i] \in Commands
  BY <1>1, SeqFacts
<1>3. \A i \in 1..Len(h.commands) : h.commands[i].id \in Nat
  BY <1>2 DEF Commands, Ids
<1> QED BY <1>1, <1>3 DEF HubOK

\* What a counted fault does to the counts.
LEMMA PayFacts ==
  ASSUME spent \in Counts
  PROVE  /\ Pay("losses") => /\ spent' \in Counts /\ spent'.losses # 0
                             /\ spent'.failures = spent.failures /\ spent'.crashes = spent.crashes
         /\ Pay("failures") => /\ spent' \in Counts /\ spent'.failures # 0
                               /\ spent'.losses = spent.losses /\ spent'.crashes = spent.crashes
         /\ Pay("crashes") => /\ spent' \in Counts /\ spent'.crashes # 0
                              /\ spent'.losses = spent.losses /\ spent'.failures = spent.failures
         /\ Pay("restarts") => /\ spent' \in Counts /\ spent'.crashes = spent.crashes
                               /\ spent'.losses = spent.losses /\ spent'.failures = spent.failures
  BY DEF Pay, Counts

\* A hub that is saved, or not, is in memory.
LEMMA SavedFacts ==
  ASSUME LoopOK, HubsOK, NEW h, Saved(h), HubOK(h, issued', snaps', ToSet(runs')),
         issued' \in Nat, snaps' \in Nat, issued <= issued', snaps <= snaps',
         ToSet(runs) \subseteq ToSet(runs')
  PROVE  /\ HubsOK' /\ hub' = h /\ spent' \in Counts
         /\ spent'.losses = spent.losses /\ spent'.crashes = spent.crashes
         /\ spent'.failures = 0 => spent.failures = 0 /\ disk' = h
<1>1. HubOK(disk, issued', snaps', ToSet(runs'))
  BY HubGrows, FederationAssumption DEF LoopOK, HubsOK
<1>2. hub' = h /\ (disk' = h \/ disk' = disk)
  BY DEF Saved
<1>3. HubsOK'
  BY <1>1, <1>2 DEF HubsOK
<1>4. CASE disk' = h /\ UNCHANGED spent
  BY <1>2, <1>3, <1>4 DEF LoopOK
<1>5. CASE UNCHANGED disk /\ Pay("failures")
  BY <1>2, <1>3, <1>5, PayFacts DEF LoopOK
<1> QED BY <1>4, <1>5 DEF Saved

\* The list after a report: only the state of the command it names is other.
LEMMA AckedFacts ==
  ASSUME LoopOK, HubsOK, NEW m \in Acks, Position(m.id) # {}
  PROVE  /\ Acked(m) \in [commands : Seq(Commands), snapshot : 0..snaps]
         /\ Acked(m).snapshot = hub.snapshot
         /\ Len(Acked(m).commands) = Len(hub.commands)
         /\ \A i \in 1..Len(hub.commands) :
              Acked(m).commands[i] =
                IF hub.commands[i].id = m.id THEN [hub.commands[i] EXCEPT !.state = m.state]
                ELSE hub.commands[i]
<1>1. /\ hub \in [commands : Seq(Commands), snapshot : 0..snaps]
      /\ \A i, j \in 1..Len(hub.commands) : i < j => hub.commands[i].id < hub.commands[j].id
  BY DEF HubsOK, HubOK
<1>2. /\ Len(hub.commands) \in Nat /\ DOMAIN hub.commands = 1..Len(hub.commands)
      /\ \A i \in 1..Len(hub.commands) : hub.commands[i] \in Commands
  BY <1>1, SeqFacts
<1>3. PICK p \in Position(m.id) :
        Acked(m) = [hub EXCEPT !.commands[p].state = m.state]
  BY DEF Acked
<1>4. p \in 1..Len(hub.commands) /\ hub.commands[p].id = m.id
  BY DEF Position
<1> DEFINE c == [hub.commands[p] EXCEPT !.state = m.state]
           l == [hub.commands EXCEPT ![p] = c]
<1>5. c \in Commands
  BY <1>2, <1>4 DEF Commands, Acks
<1>6. /\ l \in Seq(Commands) /\ Len(l) = Len(hub.commands)
      /\ \A i \in 1..Len(hub.commands) : l[i] = IF i = p THEN c ELSE hub.commands[i]
  BY <1>1, <1>4, <1>5, ExceptSeq
<1>7. Acked(m) = [commands |-> l, snapshot |-> hub.snapshot]
  BY <1>1, <1>3
<1>8. \A i \in 1..Len(hub.commands) : hub.commands[i].id = m.id => i = p
  <2>1. \A i \in 1..Len(hub.commands) : hub.commands[i].id \in Nat
    BY <1>2 DEF Commands, Ids
  <2> QED BY <1>1, <1>2, <1>4, <2>1
<1> HIDE DEF l
<1>9. \A i \in 1..Len(hub.commands) :
        l[i] = IF hub.commands[i].id = m.id THEN [hub.commands[i] EXCEPT !.state = m.state]
               ELSE hub.commands[i]
  BY <1>4, <1>6, <1>8
<1> QED BY <1>1, <1>6, <1>7, <1>9

\* A request that is applied leaves the list of commands as it is, but for the
\* state of the one it reports.
Reports(m) ==
  /\ Len(hub'.commands) = Len(hub.commands)
  /\ \A i \in 1..Len(hub.commands) :
       /\ hub'.commands[i].id = hub.commands[i].id
       /\ hub'.commands[i] = hub.commands[i] \/ hub'.commands[i].state # "queued"
       /\ m.type = "ack" /\ hub.commands[i].id = m.id => hub'.commands[i].state # "queued"
  /\ hub'.snapshot = IF m.type = "ingest" THEN m.time ELSE hub.snapshot

LEMMA AppliedFacts ==
  ASSUME LoopOK, HubsOK, NEW m, Applied(m), RequestOK(m, snaps', ToSet(runs)),
         UNCHANGED <<issued, runs>>, snaps' \in Nat, snaps <= snaps'
  PROVE  /\ HubsOK' /\ Reports(m) /\ spent' \in Counts
         /\ spent'.losses = spent.losses /\ spent'.crashes = spent.crashes
         /\ spent'.failures = 0 => spent.failures = 0 /\ (disk = hub => disk' = hub')
<1>1. /\ hub \in [commands : Seq(Commands), snapshot : 0..snaps]
      /\ issued \in Nat /\ snaps \in Nat /\ issued' = issued /\ runs' = runs /\ spent \in Counts
  BY FederationAssumption DEF HubsOK, HubOK, LoopOK
<1>2. /\ Len(hub.commands) \in Nat
      /\ \A i \in 1..Len(hub.commands) : hub.commands[i] \in Commands
  BY <1>1, SeqFacts
<1>3. HubOK(hub, issued, snaps, ToSet(runs)) /\ HubOK(disk, issued, snaps, ToSet(runs))
  BY DEF HubsOK
<1>4. /\ HubOK(hub, issued', snaps', ToSet(runs'))
      /\ HubOK(disk, issued', snaps', ToSet(runs'))
  BY <1>1, <1>3, HubGrows
<1>5. CASE m.type = "ingest"
  <2>1. Ingested(m) = [commands |-> hub.commands, snapshot |-> m.time]
    BY <1>1 DEF Ingested
  <2>2. m.time \in 0..snaps'
    BY <1>5 DEF RequestOK, Acks, Snapshots
  <2>3. HubOK(Ingested(m), issued', snaps', ToSet(runs'))
    BY <1>1, <1>4, <2>1, <2>2 DEF HubOK
  <2>4. Saved(Ingested(m))
    BY <1>5 DEF Applied
  <2>5. /\ HubsOK' /\ hub' = Ingested(m) /\ spent' \in Counts
        /\ spent'.losses = spent.losses /\ spent'.crashes = spent.crashes
        /\ spent'.failures = 0 => spent.failures = 0 /\ disk' = hub'
    BY <1>1, <2>3, <2>4, SavedFacts
  <2>6. Reports(m)
    BY <1>5, <2>1, <2>5 DEF Reports
  <2> QED BY <2>5, <2>6
<1>6. CASE m.type # "ingest" /\ Position(m.id) # {}
  <2>1. m \in Acks /\ m.type = "ack" /\ m.state # "queued"
        /\ [id |-> m.id, state |-> m.state] \in ToSet(runs)
    BY <1>6 DEF RequestOK, Acks, Snapshots, Outcomes
  <2>2. /\ Acked(m) \in [commands : Seq(Commands), snapshot : 0..snaps]
        /\ Acked(m).snapshot = hub.snapshot
        /\ Len(Acked(m).commands) = Len(hub.commands)
        /\ \A i \in 1..Len(hub.commands) :
             Acked(m).commands[i] =
               IF hub.commands[i].id = m.id THEN [hub.commands[i] EXCEPT !.state = m.state]
               ELSE hub.commands[i]
    BY <1>6, <2>1, AckedFacts
  <2>3. \A i \in 1..Len(hub.commands) :
          /\ Acked(m).commands[i].id = hub.commands[i].id
          /\ \/ Acked(m).commands[i] = hub.commands[i] /\ hub.commands[i].id # m.id
             \/ Acked(m).commands[i].state = m.state /\ hub.commands[i].id = m.id
    BY <1>2, <2>2 DEF Commands
  <2>4. HubOK(Acked(m), issued, snaps, ToSet(runs))
    <3>1. \A i, j \in 1..Len(hub.commands) :
            i < j => Acked(m).commands[i].id < Acked(m).commands[j].id
      BY <1>3, <2>3 DEF HubOK
    <3>2. \A i \in 1..Len(hub.commands) :
            LET c == Acked(m).commands[i] IN
            c.id <= issued /\ (c.state # "queued" => [id |-> c.id, state |-> c.state] \in ToSet(runs))
      BY <1>3, <2>1, <2>3 DEF HubOK
    <3>3. Len(hub.commands) <= QueueLimit
      BY <1>3 DEF HubOK
    <3> QED BY <2>2, <3>1, <3>2, <3>3 DEF HubOK
  <2>5. HubOK(Acked(m), issued', snaps', ToSet(runs'))
    BY <1>1, <2>4, HubGrows
  <2>6. Saved(Acked(m))
    BY <1>6 DEF Applied
  <2>7. /\ HubsOK' /\ hub' = Acked(m) /\ spent' \in Counts
        /\ spent'.losses = spent.losses /\ spent'.crashes = spent.crashes
        /\ spent'.failures = 0 => spent.failures = 0 /\ disk' = hub'
    BY <1>1, <2>5, <2>6, SavedFacts
  <2>8. Reports(m)
    BY <1>6, <2>1, <2>2, <2>3, <2>7 DEF Reports
  <2> QED BY <2>7, <2>8
<1>7. CASE m.type # "ingest" /\ Position(m.id) = {}
  <2>1. UNCHANGED <<hub, disk, spent>>
    BY <1>7 DEF Applied
  <2>2. HubsOK'
    BY <1>4, <2>1 DEF HubsOK
  <2>3. Reports(m)
    BY <1>7, <2>1 DEF Reports, Position
  <2> QED BY <1>1, <2>1, <2>2, <2>3
<1> QED BY <1>5, <1>6, <1>7
\* What is known when a request was sent, whatever its fate, or arrived late.
Sent(m) ==
  /\ HubsOK' /\ LateOK' /\ spent' \in Counts /\ spent'.crashes = spent.crashes
  /\ spent'.failures = 0 => spent.failures = 0 /\ (disk = hub => disk' = hub')
  /\ Len(hub'.commands) = Len(hub.commands)
  /\ \A i \in 1..Len(hub.commands) : hub'.commands[i].id = hub.commands[i].id
  /\ spent'.losses = 0 => spent.losses = 0 /\ late' \subseteq late /\ Reports(m)

LEMMA TransmitFacts ==
  ASSUME LoopOK, HubsOK, LateOK, NEW m, Transmit(m), RequestOK(m, snaps', ToSet(runs)),
         UNCHANGED <<issued, runs>>, snaps' \in Nat, snaps <= snaps'
  PROVE  Sent(m)
<1>1. snaps \in Nat /\ issued \in Nat /\ spent \in Counts /\ runs' = runs /\ issued' = issued
  BY FederationAssumption DEF LoopOK
<1>2. ASSUME NEW x \in late PROVE RequestOK(x, snaps', ToSet(runs'))
  <2>1. RequestOK(x, snaps, ToSet(runs))
    BY DEF LateOK
  <2>2. x.type = "ingest" => x.time \in Nat
    BY <2>1 DEF RequestOK, Acks, Snapshots
  <2> QED BY <1>1, <2>1, <2>2 DEF RequestOK
<1>3. CASE Applied(m) /\ UNCHANGED late
  <2>1. /\ HubsOK' /\ Reports(m) /\ spent' \in Counts
        /\ spent'.losses = spent.losses /\ spent'.crashes = spent.crashes
        /\ spent'.failures = 0 => spent.failures = 0 /\ (disk = hub => disk' = hub')
    BY <1>3, AppliedFacts
  <2>2. LateOK'
    BY <1>2, <1>3 DEF LateOK
  <2>3. /\ Len(hub'.commands) = Len(hub.commands)
        /\ \A i \in 1..Len(hub.commands) : hub'.commands[i].id = hub.commands[i].id
    BY <2>1 DEF Reports
  <2> QED BY <1>3, <2>1, <2>2, <2>3 DEF Sent
<1>4. CASE Pay("losses") /\ late' \in {late, late \cup {m}} /\ UNCHANGED <<hub, disk>>
  <2>1. /\ spent' \in Counts /\ spent'.losses # 0
        /\ spent'.failures = spent.failures /\ spent'.crashes = spent.crashes
    BY <1>1, <1>4, PayFacts
  <2>2. LateOK'
    BY <1>1, <1>2, <1>4 DEF LateOK
  <2>3. HubsOK'
    <3>1. \A h \in {hub, disk} : HubOK(h, issued', snaps', ToSet(runs'))
      BY <1>1, HubGrows DEF HubsOK
    <3> QED BY <1>4, <3>1 DEF HubsOK
  <2> QED BY <1>4, <2>1, <2>2, <2>3 DEF Sent
<1> QED BY <1>3, <1>4 DEF Transmit

\* A list that was that of the commands issued last still is, after a request.
LEMMA FullStays ==
  ASSUME Durable, NEW m, Sent(m), issued' = issued, spent.losses = 0 => late = {},
         spent'.failures = 0 /\ spent'.losses = 0 => hub'.snapshot = snaps',
         late' \subseteq late \/ spent'.losses # 0
  PROVE  Durable'
<1>1. spent'.failures = 0 => disk' = hub' /\ Full(hub', issued')
  BY DEF Durable, Sent, Full
<1>2. spent'.losses = 0 => late' = {}
  BY DEF Durable, Sent
<1> QED BY <1>1, <1>2 DEF Durable

\* While all is calm, a request leaves what waits in line, when the sensor goes
\* on from the batch b with the current command c to what it holds now.
LEMMA StillLined ==
  ASSUME HubsOK, NEW m, Sent(m), UNCHANGED <<expired, runs>>, Calm', Lined,
         Increasing(sensor'.batch), Current' = {},
         ToSet(sensor'.batch) \subseteq ToSet(sensor.batch) \ Current,
         \A b \in ToSet(sensor.batch) : b \in ToSet(sensor'.batch) \cup Current,
         \A i \in Current : m.type = "ack" /\ m.id = i
  PROVE  Lined'
<1>1. Reports(m)
  BY DEF Sent, Calm
<1>2. Done' = Done
  BY DEF Done
<1>3. \A i \in Done', b \in ToSet(sensor'.batch) : i < b
  BY <1>2 DEF Lined
<1>4. ASSUME NEW n \in 1..Len(hub'.commands), Waits(hub.commands[n])'
      PROVE  LET c == hub'.commands[n] IN
             /\ c.id \in ToSet(sensor'.batch) \/ \A b \in ToSet(sensor'.batch) : b < c.id
             /\ \A i \in Done' : i < c.id
  <2>1. n \in 1..Len(hub.commands) /\ hub'.commands[n] = hub.commands[n]
        /\ (m.type = "ack" => hub.commands[n].id # m.id)
    BY <1>1, <1>4 DEF Reports, Waits
  <2>2. Waits(hub.commands[n]) /\ hub.commands[n].id \notin Current
    BY <1>4, <2>1 DEF Waits
  <2> QED BY <1>2, <2>1, <2>2 DEF Lined
<1> QED BY <1>3, <1>4 DEF Lined
-----------------------------------------------------------------------------
(* The steps *)

LEMMA InitInv == Init => Inv
<1> SUFFICES ASSUME Init PROVE Inv
  OBVIOUS
<1> USE FederationAssumption
<1>1. /\ <<>> \in Seq(Commands) /\ <<>> \in Seq(1..issued) /\ Len(<<>>) = 0
      /\ <<>> \in Seq([id : 1..issued, state : Outcomes]) /\ 1..0 = {} /\ ToSet(<<>>) = {}
  BY EmptySeq, EmptyFacts
<1>2. HubsOK
  <2>1. NewHub.commands = <<>> /\ Len(NewHub.commands) = 0
        /\ NewHub \in [commands : Seq(Commands), snapshot : 0..snaps]
    BY <1>1 DEF Init, NewHub
  <2> HIDE DEF NewHub
  <2> QED BY <1>1, <2>1 DEF Init, HubsOK, HubOK
<1>3. LateOK
  BY DEF Init, LateOK
<1>4. LoopOK
  BY <1>1 DEF Init, Idle, LoopOK, Counts, Outcomes
<1>5. Durable
  BY <1>1 DEF Init, NewHub, Durable, Full
<1>6. InLine
  <2>1. Increasing(sensor.batch) /\ Current = {}
    BY <1>1 DEF Init, Idle, Increasing, Current
  <2>2. Done = {} /\ Len(runs) = 0 /\ Len(hub.commands) = 0
    BY <1>1 DEF Init, NewHub, Done
  <2> QED BY <1>1, <2>1, <2>2 DEF InLine, Lined, OrderKept
<1> QED BY <1>2, <1>3, <1>4, <1>5, <1>6 DEF Inv

\* The list with a new command at its end, without the oldest when it is full.
LEMMA QueueFacts ==
  ASSUME HubsOK, LoopOK, NEW timed \in BOOLEAN, QueueCommand(timed)
  PROVE  \E h :
           /\ Saved(h) /\ h \in [commands : Seq(Commands), snapshot : 0..snaps]
           /\ h.snapshot = hub.snapshot
           /\ \E d \in {0, 1} :
                /\ Len(h.commands) = Len(hub.commands) + 1 - d
                /\ d = 0 <=> Len(hub.commands) < QueueLimit
                /\ Len(hub.commands) <= QueueLimit
                /\ \A i \in 1..(Len(h.commands) - 1) :
                     i + d \in 1..Len(hub.commands) /\ h.commands[i] = hub.commands[i + d]
                /\ h.commands[Len(h.commands)].id = issued + 1
                /\ h.commands[Len(h.commands)].state = "queued"
<1> DEFINE new == [id |-> issued + 1, timed |-> timed, state |-> "queued"]
           all == Append(hub.commands, new)
           first == IF Len(all) > QueueLimit THEN Len(all) - QueueLimit + 1 ELSE 1
           l == SubSeq(all, first, Len(all))
           h == [hub EXCEPT !.commands = l]
<1>1. Saved(h)
  BY DEF QueueCommand
<1>2. /\ hub \in [commands : Seq(Commands), snapshot : 0..snaps]
      /\ Len(hub.commands) <= QueueLimit
  BY DEF HubsOK, HubOK
<1> HIDE DEF h, l
<1>3. h = [commands |-> l, snapshot |-> hub.snapshot]
  BY <1>2 DEF h
<1>4. issued \in Nat /\ issued + 1 \in 1..MaxCommands
  BY FederationAssumption DEF QueueCommand, LoopOK
<1>5. new \in Commands /\ new.id = issued + 1 /\ new.state = "queued"
  BY <1>4 DEF Commands, Ids
<1> HIDE DEF new
<1>6. /\ Len(hub.commands) \in Nat /\ all \in Seq(Commands) /\ Len(all) = Len(hub.commands) + 1
      /\ \A i \in 1..Len(hub.commands) : all[i] = hub.commands[i]
      /\ all[Len(hub.commands) + 1] = new
  BY <1>2, <1>5, SeqFacts, AppendFacts
<1> DEFINE d == first - 1
<1>7. QueueLimit \in Nat \ {0}
  BY FederationAssumption
<1> HIDE DEF all
<1>8. d \in {0, 1} /\ (d = 0 <=> Len(hub.commands) < QueueLimit) /\ first = d + 1
  BY <1>2, <1>6, <1>7
<1> HIDE DEF first, d
<1>9. /\ l \in Seq(Commands) /\ Len(l) = Len(hub.commands) + 1 - d
      /\ \A i \in 1..Len(l) : l[i] = all[i + d]
  <2>1. \A i \in first..Len(all) : all[i] \in Commands
    BY <1>6, <1>8, SeqFacts
  <2>2. /\ l \in Seq(Commands)
        /\ Len(l) = IF first <= Len(all) THEN Len(all) - first + 1 ELSE 0
        /\ \A i \in 1..(Len(all) - first + 1) : l[i] = all[first + i - 1]
    BY <1>6, <1>8, <2>1, SubSeqProperties DEF l
  <2>3. Len(l) = Len(hub.commands) + 1 - d /\ Len(l) = Len(all) - first + 1
    BY <1>6, <1>7, <1>8, <2>2
  <2>4. \A i \in 1..Len(l) : first + i - 1 = i + d
    BY <1>6, <1>8, <2>3
  <2> QED BY <2>2, <2>3, <2>4
<1>10. \A i \in 1..(Len(l) - 1) : i + d \in 1..Len(hub.commands) /\ l[i] = hub.commands[i + d]
  BY <1>6, <1>8, <1>9
<1>11. l[Len(l)] = new
  <2>1. Len(l) \in 1..Len(l) /\ Len(l) + d = Len(hub.commands) + 1
    BY <1>2, <1>6, <1>7, <1>8, <1>9
  <2> QED BY <1>6, <1>9, <2>1
<1>12. /\ h \in [commands : Seq(Commands), snapshot : 0..snaps] /\ h.snapshot = hub.snapshot
       /\ h.commands = l
  BY <1>2, <1>9, <1>3
<1> QED BY <1>1, <1>2, <1>5, <1>8, <1>9, <1>10, <1>11, <1>12
LEMMA QueueInv ==
  ASSUME Inv, NEW timed \in BOOLEAN, QueueCommand(timed)
  PROVE  Inv'
<1>1. /\ issued \in Nat /\ issued' = issued + 1 /\ issued' \in 0..MaxCommands /\ snaps \in Nat
      /\ UNCHANGED <<expired, sensor, snaps, late, runs>>
      /\ QueueLimit \in Nat \ {0} /\ spent \in Counts
  BY FederationAssumption DEF QueueCommand, Inv, LoopOK
<1>2. PICK h :
        /\ Saved(h) /\ h \in [commands : Seq(Commands), snapshot : 0..snaps]
        /\ h.snapshot = hub.snapshot
        /\ \E d \in {0, 1} :
             /\ Len(h.commands) = Len(hub.commands) + 1 - d
             /\ d = 0 <=> Len(hub.commands) < QueueLimit
             /\ Len(hub.commands) <= QueueLimit
             /\ \A i \in 1..(Len(h.commands) - 1) :
                  i + d \in 1..Len(hub.commands) /\ h.commands[i] = hub.commands[i + d]
             /\ h.commands[Len(h.commands)].id = issued + 1
             /\ h.commands[Len(h.commands)].state = "queued"
  BY QueueFacts DEF Inv
<1>3. PICK d \in {0, 1} :
        /\ Len(h.commands) = Len(hub.commands) + 1 - d
        /\ d = 0 <=> Len(hub.commands) < QueueLimit
        /\ Len(hub.commands) <= QueueLimit
        /\ \A i \in 1..(Len(h.commands) - 1) :
             i + d \in 1..Len(hub.commands) /\ h.commands[i] = hub.commands[i + d]
        /\ h.commands[Len(h.commands)].id = issued + 1
        /\ h.commands[Len(h.commands)].state = "queued"
  BY <1>2
<1> DEFINE n == Len(h.commands)
<1>4. /\ n \in Nat \ {0} /\ Len(hub.commands) \in Nat
      /\ \A i \in 1..Len(hub.commands) : hub.commands[i].id \in Nat /\ hub.commands[i].id <= issued
      /\ \A i, j \in 1..Len(hub.commands) : i < j => hub.commands[i].id < hub.commands[j].id
  <2>1. hub.commands \in Seq(Commands)
    BY DEF Inv, HubsOK, HubOK
  <2>2. /\ Len(hub.commands) \in Nat
        /\ \A i \in 1..Len(hub.commands) : hub.commands[i] \in Commands
    BY <2>1, SeqFacts
  <2>3. \A i \in 1..Len(hub.commands) : hub.commands[i].id \in Nat
    BY <2>2 DEF Commands, Ids
  <2>4. /\ \A i \in 1..Len(hub.commands) : hub.commands[i].id <= issued
        /\ \A i, j \in 1..Len(hub.commands) : i < j => hub.commands[i].id < hub.commands[j].id
    BY DEF Inv, HubsOK, HubOK
  <2>5. n \in Nat \ {0}
    BY <1>1, <1>3, <2>2
  <2> QED BY <2>2, <2>3, <2>4, <2>5
<1>5. /\ n = Len(hub.commands) + 1 - d /\ (d = 0 <=> Len(hub.commands) < QueueLimit)
      /\ Len(hub.commands) <= QueueLimit
      /\ h.commands[n].id = issued + 1 /\ h.commands[n].state = "queued"
  BY <1>3
<1>6. ASSUME NEW i \in 1..n
      PROVE  i = n \/ /\ i \in 1..(n - 1) /\ i + d \in 1..Len(hub.commands)
                      /\ h.commands[i] = hub.commands[i + d]
  BY <1>3, <1>4
<1> HIDE DEF n
<1>7. HubOK(h, issued', snaps', ToSet(runs'))
  <2>1. ASSUME NEW i \in 1..n, NEW j \in 1..n, i < j
        PROVE  h.commands[i].id < h.commands[j].id
    <3>0. i # n
      BY <1>4, <2>1
    <3>1. i + d \in 1..Len(hub.commands) /\ h.commands[i] = hub.commands[i + d]
      BY <1>6, <3>0
    <3>2. CASE j = n
      <4>1. hub.commands[i + d].id < issued + 1
        BY <1>1, <1>4, <3>1
      <4> QED BY <1>5, <3>1, <3>2, <4>1
    <3>3. CASE j # n
      <4>1. j + d \in 1..Len(hub.commands) /\ h.commands[j] = hub.commands[j + d]
        BY <1>6, <3>3
      <4>2. i + d < j + d
        BY <1>4, <2>1
      <4> QED BY <1>4, <3>1, <4>1, <4>2
    <3> QED BY <3>2, <3>3
  <2>2. ASSUME NEW i \in 1..n
        PROVE  LET c == h.commands[i] IN
               /\ c.id <= issued'
               /\ c.state # "queued" => [id |-> c.id, state |-> c.state] \in ToSet(runs')
    <3>1. CASE i = n
      BY <1>1, <1>5, <3>1
    <3>2. CASE i # n
      <4>1. i + d \in 1..Len(hub.commands) /\ h.commands[i] = hub.commands[i + d]
        BY <1>6, <3>2
      <4>2. hub.commands[i + d].id <= issued'
        BY <1>1, <1>4, <4>1
      <4> QED BY <1>1, <4>1, <4>2 DEF Inv, HubsOK, HubOK
    <3> QED BY <3>1, <3>2
  <2>3. n <= QueueLimit
    BY <1>1, <1>4, <1>5
  <2> QED BY <1>1, <1>2, <2>1, <2>2, <2>3 DEF HubOK, n
<1>8. /\ HubsOK' /\ hub' = h /\ spent' \in Counts
      /\ spent'.losses = spent.losses /\ spent'.crashes = spent.crashes
      /\ spent'.failures = 0 => spent.failures = 0 /\ disk' = h
  BY <1>1, <1>2, <1>7, SavedFacts DEF Inv
<1>9. LateOK'
  BY <1>1 DEF Inv, LateOK
<1>10. LoopOK'
  <2>1. 1..issued \subseteq 1..issued'
        /\ [id : 1..issued, state : Outcomes] \subseteq [id : 1..issued', state : Outcomes]
    BY <1>1
  <2>2. sensor.batch \in Seq(1..issued')
    BY <2>1, SeqMonotonic DEF Inv, LoopOK
  <2>3. runs \in Seq([id : 1..issued', state : Outcomes])
    BY <2>1, SeqMonotonic DEF Inv, LoopOK
  <2>4. sensor' \in [at : {"send", "fetch", "handle", "ack"}, batch : Seq(1..issued'),
                     outcome : Outcomes]
    BY <1>1, <2>2 DEF Inv, LoopOK
  <2> QED BY <1>1, <1>8, <2>1, <2>3, <2>4 DEF Inv, LoopOK
<1>11. Durable'
  <2>1. ASSUME Full(hub, issued) PROVE Full(h, issued + 1)
    <3>1. n = IF issued + 1 <= QueueLimit THEN issued + 1 ELSE QueueLimit
      BY <1>1, <1>4, <1>5, <2>1 DEF Full
    <3>2. ASSUME NEW i \in 1..n PROVE h.commands[i].id = (issued + 1) - n + i
      <4>1. CASE i = n
        <5>1. (issued + 1) - n + n = issued + 1
          BY <1>1, <1>4
        <5> QED BY <1>5, <4>1, <5>1
      <4>2. CASE i # n
        <5>1. i + d \in 1..Len(hub.commands) /\ h.commands[i] = hub.commands[i + d]
          BY <1>6, <4>2
        <5>2. hub.commands[i + d].id = issued - Len(hub.commands) + (i + d)
          BY <2>1, <5>1 DEF Full
        <5>3. issued - Len(hub.commands) + (i + d) = (issued + 1) - n + i
          BY <1>1, <1>4, <1>5
        <5> QED BY <5>1, <5>2, <5>3
      <4> QED BY <4>1, <4>2
    <3>3. Len(h.commands) = n
      BY DEF n
    <3>4. Len(h.commands) = IF issued + 1 <= QueueLimit THEN issued + 1 ELSE QueueLimit
      BY <3>1, <3>3
    <3>5. \A i \in 1..Len(h.commands) :
            h.commands[i].id = (issued + 1) - Len(h.commands) + i
      BY <3>2 DEF n
    <3> QED BY <3>4, <3>5 DEF Full
  <2> QED BY <1>1, <1>2, <1>8, <2>1 DEF Inv, Durable
<1>12. InLine'
  <2> SUFFICES ASSUME Calm, Lined, OrderKept PROVE Lined' /\ OrderKept'
    BY <1>8 DEF Inv, InLine, Calm
  <2>1. OrderKept'
    BY <1>1 DEF OrderKept, Calm
  <2>2. /\ \A b \in ToSet(sensor.batch) : b \in Nat /\ b <= issued
        /\ \A i \in Done : i \in Nat /\ i <= issued
    <3>1. ToSet(sensor.batch) \subseteq 1..issued
      BY SeqFacts DEF Inv, LoopOK
    <3>2. ToSet(runs) \subseteq [id : 1..issued, state : Outcomes]
      BY SeqFacts DEF Inv, LoopOK
    <3> QED BY <1>1, <3>1, <3>2 DEF Done
  <2>3. Done' = Done /\ Current' = Current
    BY <1>1 DEF Done, Current
  <2>4. ASSUME NEW i \in 1..n, Waits(h.commands[i])'
        PROVE  LET c == h.commands[i] IN
               /\ c.id \in ToSet(sensor.batch) \/ \A b \in ToSet(sensor.batch) : b < c.id
               /\ c.id \in Current \/ \A x \in Done : x < c.id
    <3>1. CASE i = n
      <4>1. \A b \in ToSet(sensor.batch) : b < issued + 1
        BY <1>1, <2>2
      <4>2. \A x \in Done : x < issued + 1
        BY <1>1, <2>2
      <4> QED BY <1>5, <3>1, <4>1, <4>2
    <3>2. CASE i # n
      <4>1. i + d \in 1..Len(hub.commands) /\ h.commands[i] = hub.commands[i + d]
        BY <1>6, <3>2
      <4>2. Waits(hub.commands[i + d])
        BY <1>1, <2>4, <4>1 DEF Waits
      <4> QED BY <4>1, <4>2 DEF Lined
    <3> QED BY <3>1, <3>2
  <2>5. Lined'
    BY <1>1, <1>8, <2>3, <2>4 DEF Lined, n
  <2> QED BY <2>1, <2>5
<1> QED BY <1>8, <1>9, <1>10, <1>11, <1>12 DEF Inv

LEMMA ExpireInv ==
  ASSUME Inv, NEW c \in ToSet(hub.commands), Expire(c)
  PROVE  Inv'
<1>1. /\ expired' = expired \cup {c.id}
      /\ UNCHANGED <<hub, disk, issued, sensor, snaps, late, runs, spent>>
  BY DEF Expire
<1>2. c.id \in 1..issued
  <2>1. /\ hub.commands \in Seq(Commands)
        /\ \A i \in 1..Len(hub.commands) : hub.commands[i].id <= issued
    BY DEF Inv, HubsOK, HubOK
  <2>2. PICK i \in 1..Len(hub.commands) : c = hub.commands[i]
    BY <2>1, SeqFacts
  <2>3. c \in Commands /\ c.id <= issued /\ issued \in Nat
    BY <2>1, <2>2, SeqFacts, FederationAssumption DEF Inv, LoopOK
  <2> QED BY <2>3 DEF Commands, Ids
<1>3. HubsOK' /\ LateOK' /\ Durable'
  BY <1>1 DEF Inv, HubsOK, LateOK, Durable
<1>4. LoopOK'
  BY <1>1, <1>2 DEF Inv, LoopOK
<1>5. InLine'
  <2> SUFFICES ASSUME Calm, Lined, OrderKept PROVE Lined' /\ OrderKept'
    BY <1>1 DEF Inv, InLine, Calm
  <2>1. OrderKept'
    BY <1>1 DEF OrderKept
  <2>2. Done' = Done /\ Current' = Current
    BY <1>1 DEF Done, Current
  <2>3. \A n \in 1..Len(hub.commands) : Waits(hub.commands[n])' => Waits(hub.commands[n])
    BY <1>1 DEF Waits
  <2>4. Lined'
    BY <1>1, <2>2, <2>3 DEF Lined
  <2> QED BY <2>1, <2>4
<1> QED BY <1>3, <1>4, <1>5 DEF Inv

LEMMA RestartHubInv ==
  ASSUME Inv, RestartHub
  PROVE  Inv'
<1>1. /\ hub' = disk /\ UNCHANGED <<disk, issued, expired, sensor, snaps, late, runs>>
      /\ spent' \in Counts /\ spent'.losses = spent.losses
      /\ spent'.failures = spent.failures /\ spent'.crashes = spent.crashes
  BY PayFacts DEF RestartHub, Inv, LoopOK
<1>2. HubsOK' /\ LateOK'
  BY <1>1 DEF Inv, HubsOK, LateOK
<1>3. LoopOK'
  BY <1>1 DEF Inv, LoopOK
<1>4. spent.failures = 0 => hub' = hub
  BY <1>1 DEF Inv, Durable
<1>5. Durable'
  BY <1>1, <1>4 DEF Inv, Durable
<1>6. InLine'
  <2> SUFFICES ASSUME Calm, Lined, OrderKept PROVE Lined' /\ OrderKept'
    BY <1>1 DEF Inv, InLine, Calm
  <2>1. OrderKept'
    BY <1>1 DEF OrderKept
  <2>2. Done' = Done /\ Current' = Current /\ hub' = hub
    BY <1>1, <1>4 DEF Done, Current, Calm
  <2>3. \A n \in 1..Len(hub.commands) : Waits(hub.commands[n])' => Waits(hub.commands[n])
    BY <1>1, <2>2 DEF Waits
  <2>4. Lined'
    BY <1>1, <2>2, <2>3 DEF Lined
  <2> QED BY <2>1, <2>4
<1> QED BY <1>2, <1>3, <1>5, <1>6 DEF Inv

LEMMA LateInv ==
  ASSUME Inv, NEW m \in late, LateArrives(m)
  PROVE  Inv'
<1>1. /\ Applied(m) /\ late' = late \ {m} /\ UNCHANGED <<issued, expired, sensor, snaps, runs>>
      /\ snaps \in Nat /\ snaps' = snaps
  BY FederationAssumption DEF LateArrives, Inv, LoopOK
<1>2. RequestOK(m, snaps', ToSet(runs))
  BY <1>1 DEF Inv, LateOK
<1>3. /\ HubsOK' /\ Reports(m) /\ spent' \in Counts
      /\ spent'.losses = spent.losses /\ spent'.crashes = spent.crashes
      /\ spent'.failures = 0 => spent.failures = 0 /\ (disk = hub => disk' = hub')
  BY <1>1, <1>2, AppliedFacts DEF Inv
<1>4. LateOK'
  BY <1>1 DEF Inv, LateOK
<1>5. Sent(m)
  <2>1. /\ Len(hub'.commands) = Len(hub.commands)
        /\ \A i \in 1..Len(hub.commands) : hub'.commands[i].id = hub.commands[i].id
    BY <1>3 DEF Reports
  <2> QED BY <1>1, <1>3, <1>4, <2>1 DEF Sent
<1>6. LoopOK'
  BY <1>1, <1>3 DEF Inv, LoopOK
<1>7. spent'.losses # 0
  BY <1>3 DEF Inv, Durable
<1>8. Durable'
  BY <1>1, <1>5, <1>7, FullStays DEF Inv, Durable
<1>9. InLine'
  BY <1>7 DEF InLine, Calm
<1> QED BY <1>3, <1>4, <1>6, <1>8, <1>9 DEF Inv

LEMMA SendSnapshotInv ==
  ASSUME Inv, SendSnapshot
  PROVE  Inv'
<1> DEFINE m == [type |-> "ingest", time |-> snaps']
<1>1. /\ snaps \in Nat /\ snaps' = snaps + 1 /\ snaps' \in 1..MaxSnapshots
      /\ sensor.at = "send" /\ sensor' = [sensor EXCEPT !.at = "fetch"]
      /\ Transmit(m) /\ UNCHANGED <<issued, expired, runs>>
  BY FederationAssumption DEF SendSnapshot, Inv, LoopOK
<1>2. m \in Snapshots /\ m.type = "ingest" /\ m.time = snaps'
  BY <1>1 DEF Snapshots
<1> HIDE DEF m
<1>3. RequestOK(m, snaps', ToSet(runs))
  BY <1>1, <1>2 DEF RequestOK
<1>4. Sent(m)
  BY <1>1, <1>3, TransmitFacts DEF Inv
<1>5. /\ sensor' \in [at : {"send", "fetch", "handle", "ack"}, batch : Seq(1..issued),
                      outcome : Outcomes]
      /\ sensor'.at = "fetch" /\ sensor'.batch = sensor.batch /\ sensor.batch = <<>>
  BY <1>1 DEF Inv, LoopOK
<1>6. LoopOK'
  BY <1>1, <1>4, <1>5 DEF Inv, LoopOK, Sent
<1>7. spent'.losses = 0 => hub'.snapshot = snaps' /\ late' \subseteq late
  BY <1>2, <1>4 DEF Sent, Reports
<1>8. Durable'
  BY <1>1, <1>4, <1>7, FullStays DEF Inv, Durable
<1>9. InLine'
  <2> SUFFICES ASSUME Calm' PROVE Lined' /\ OrderKept'
    BY DEF InLine
  <2>1. Lined /\ OrderKept /\ Calm
    BY <1>4 DEF Inv, InLine, Sent, Calm
  <2>2. OrderKept'
    BY <1>1, <2>1 DEF OrderKept, Calm
  <2>3. Current = {} /\ Current' = {}
    BY <1>1, <1>5 DEF Current
  <2>4. Increasing(sensor'.batch)
    BY <1>5, <2>1 DEF Lined
  <2>5. Lined'
    BY <1>1, <1>4, <1>5, <2>1, <2>3, <2>4, StillLined DEF Inv
  <2> QED BY <2>2, <2>5
<1> QED BY <1>4, <1>6, <1>8, <1>9 DEF Inv, Sent

\* A step of the loop that changes nothing but where it is, with nothing in hand.
LEMMA GoesOn ==
  ASSUME Inv, NEW a \in {"send", "fetch"}, sensor.at \in {"send", "fetch"},
         sensor' = [sensor EXCEPT !.at = a], UNCHANGED <<controller, snaps, late, runs>>,
         spent' \in Counts, spent'.failures = spent.failures, spent'.crashes = spent.crashes,
         spent'.losses = 0 => spent.losses = 0
  PROVE  Inv'
<1>1. UNCHANGED <<hub, disk, issued, expired, snaps, late, runs>>
  BY DEF controller
<1>2. /\ sensor' \in [at : {"send", "fetch", "handle", "ack"}, batch : Seq(1..issued),
                      outcome : Outcomes]
      /\ sensor'.at = a /\ sensor'.batch = sensor.batch /\ sensor.batch = <<>>
  BY DEF Inv, LoopOK
<1>3. HubsOK' /\ LateOK'
  BY <1>1 DEF Inv, HubsOK, LateOK
<1>4. LoopOK'
  BY <1>1, <1>2 DEF Inv, LoopOK
<1>5. Durable'
  BY <1>1 DEF Inv, Durable
<1>6. InLine'
  <2> SUFFICES ASSUME Calm' PROVE Lined' /\ OrderKept'
    BY DEF InLine
  <2>1. Lined /\ OrderKept /\ Calm
    BY DEF Inv, InLine, Calm
  <2>2. OrderKept'
    BY <1>1, <2>1 DEF OrderKept, Calm
  <2>3. Done' = Done /\ Current' = Current
    BY <1>1, <1>2 DEF Done, Current
  <2>4. \A n \in 1..Len(hub.commands) : Waits(hub.commands[n])' => Waits(hub.commands[n])
    BY <1>1 DEF Waits
  <2>5. Lined'
    BY <1>1, <1>2, <2>1, <2>3, <2>4 DEF Lined
  <2> QED BY <2>2, <2>5
<1> QED BY <1>3, <1>4, <1>5, <1>6 DEF Inv

\* The poll answers the commands that wait, in the order of issue.
LEMMA PendingFacts ==
  ASSUME HubsOK, LoopOK
  PROVE  /\ Pending \in Seq(1..issued) /\ Increasing(Pending)
         /\ ToSet(Pending) = {hub.commands[n].id :
                                n \in {k \in 1..Len(hub.commands) : Waits(hub.commands[k])}}
<1> DEFINE P == {n \in 1..Len(hub.commands) : Waits(hub.commands[n])}
           s == InOrder(P)
           k == Cardinality(P)
<1>1. /\ hub.commands \in Seq(Commands)
      /\ \A i \in 1..Len(hub.commands) : hub.commands[i].id <= issued
      /\ \A i, j \in 1..Len(hub.commands) : i < j => hub.commands[i].id < hub.commands[j].id
  BY DEF HubsOK, HubOK
<1>2. Len(hub.commands) \in Nat /\ \A i \in 1..Len(hub.commands) : hub.commands[i] \in Commands
  BY <1>1, SeqFacts
<1>3. \A i \in 1..Len(hub.commands) : hub.commands[i].id \in 1..issued
  <2>1. issued \in Nat
    BY FederationAssumption DEF LoopOK
  <2>2. \A i \in 1..Len(hub.commands) :
          /\ hub.commands[i].id \in 1..MaxCommands
          /\ hub.commands[i].id <= issued
    BY <1>1, <1>2 DEF Commands, Ids
  <2> QED BY <2>1, <2>2, FederationAssumption
<1>4. P \subseteq 1..Len(hub.commands)
  OBVIOUS
<1>5. Pending = [n \in 1..k |-> hub.commands[s[n]].id]
  BY DEF Pending, IdsAt
<1> HIDE DEF P
<1>6. /\ k \in Nat /\ s \in [1..k -> P] /\ Len(s) = k /\ Increasing(s)
      /\ ToSet(s) = P /\ s \in Seq(P)
  BY <1>2, <1>4, InOrderFacts
<1> HIDE DEF k, s
<1>7. Pending \in [1..k -> 1..issued]
  BY <1>3, <1>4, <1>5, <1>6
<1>8. Pending \in Seq(1..issued)
  <2> DEFINE S == 1..issued
  <2>1. Pending \in [1..k -> S] /\ k \in Nat
    BY <1>6, <1>7
  <2> HIDE DEF S
  <2>2. Pending \in Seq(S)
    BY <2>1, SeqDef
  <2> QED BY <2>2 DEF S
<1>9. Len(Pending) = k
  BY <1>6, <1>7, <1>8, LenProperties
<1>10. Increasing(Pending)
  <2> SUFFICES ASSUME NEW i \in 1..k, NEW j \in 1..k, i < j PROVE Pending[i] < Pending[j]
    BY <1>9 DEF Increasing
  <2>1. s[i] < s[j] /\ s[i] \in 1..Len(hub.commands) /\ s[j] \in 1..Len(hub.commands)
    BY <1>4, <1>6 DEF Increasing
  <2> QED BY <1>1, <1>5, <2>1
<1>11. ToSet(Pending) = {hub.commands[n].id : n \in P}
  <2>1. ToSet(Pending) = {Pending[n] : n \in 1..k}
    BY <1>8, <1>9, SeqFacts
  <2>2. P = {s[n] : n \in 1..k}
    BY <1>6, SeqFacts
  <2> QED BY <1>5, <2>1, <2>2
<1> QED BY <1>8, <1>10, <1>11 DEF P

LEMMA FetchInv ==
  ASSUME Inv, FetchCommands
  PROVE  Inv'
<1>1. /\ sensor.at = "fetch" /\ UNCHANGED <<hub, disk, issued, expired, snaps, late, runs, spent>>
      /\ sensor' = [sensor EXCEPT !.batch = Pending,
                                  !.at = IF Pending = <<>> THEN "send" ELSE "handle"]
  BY DEF FetchCommands, controller
<1>2. /\ Pending \in Seq(1..issued) /\ Increasing(Pending)
      /\ ToSet(Pending) = {hub.commands[n].id :
                             n \in {k \in 1..Len(hub.commands) : Waits(hub.commands[k])}}
  BY PendingFacts DEF Inv
<1>3. /\ sensor' \in [at : {"send", "fetch", "handle", "ack"}, batch : Seq(1..issued),
                      outcome : Outcomes]
      /\ sensor'.at = (IF Pending = <<>> THEN "send" ELSE "handle") /\ sensor'.batch = Pending
  BY <1>1, <1>2 DEF Inv, LoopOK
<1>4. HubsOK' /\ LateOK' /\ Durable'
  BY <1>1 DEF Inv, HubsOK, LateOK, Durable
<1>5. LoopOK'
  BY <1>1, <1>3 DEF Inv, LoopOK
<1>6. InLine'
  <2> SUFFICES ASSUME Calm, Lined, OrderKept PROVE Lined' /\ OrderKept'
    BY <1>1 DEF Inv, InLine, Calm
  <2>1. OrderKept'
    BY <1>1 DEF OrderKept
  <2>2. Done' = Done /\ Current' = {} /\ Current = {}
    BY <1>1, <1>3 DEF Done, Current
  <2>3. \A n \in 1..Len(hub.commands) :
          Waits(hub.commands[n]) => \A i \in Done : i < hub.commands[n].id
    BY <2>2 DEF Lined
  <2>4. \A n \in 1..Len(hub.commands) : Waits(hub.commands[n])' => Waits(hub.commands[n])
    BY <1>1 DEF Waits
  <2>5. \A i \in Done, b \in ToSet(Pending) : i < b
    BY <1>2, <2>3
  <2>6. \A n \in 1..Len(hub.commands) :
          Waits(hub.commands[n])' => hub.commands[n].id \in ToSet(Pending)
    BY <1>2, <2>4
  <2>7. Lined'
    BY <1>1, <1>2, <1>3, <2>2, <2>3, <2>4, <2>5, <2>6 DEF Lined
  <2> QED BY <2>1, <2>7
<1> QED BY <1>4, <1>5, <1>6 DEF Inv

LEMMA HandleInv ==
  ASSUME Inv, HandleCommand
  PROVE  Inv'
<1>1. /\ sensor.at = "handle" /\ Len(runs) < MaxRuns
      /\ UNCHANGED <<hub, disk, issued, expired, snaps, late, spent>>
      /\ issued \in Nat /\ snaps \in Nat /\ issued' \in Nat /\ snaps' \in Nat
  BY FederationAssumption DEF HandleCommand, controller, Inv, LoopOK
<1>2. PICK o \in Outcomes : /\ runs' = Append(runs, [id |-> Head(sensor.batch), state |-> o])
                            /\ sensor' = [sensor EXCEPT !.at = "ack", !.outcome = o]
  BY DEF HandleCommand
<1> DEFINE b1 == Head(sensor.batch)
           r == [id |-> b1, state |-> o]
           Runs == [id : 1..issued, state : Outcomes]
<1>3. sensor.batch # <<>> /\ sensor.batch \in Seq(1..issued) /\ b1 \in 1..issued
  BY <1>1, TailFacts DEF Inv, LoopOK
<1>4. r \in Runs /\ r.id = b1 /\ r.state = o
  BY <1>3
<1>5. /\ runs \in Seq(Runs) /\ runs' \in Seq(Runs) /\ Len(runs') = Len(runs) + 1
      /\ \A n \in 1..Len(runs) : runs'[n] = runs[n]
      /\ runs'[Len(runs) + 1] = r
      /\ ToSet(runs') = ToSet(runs) \cup {r} /\ Len(runs) \in Nat
  <2>1. runs \in Seq(Runs) /\ runs' = Append(runs, r)
    BY <1>2 DEF Inv, LoopOK
  <2> HIDE DEF r, Runs
  <2>2. Len(runs) \in Nat
    BY <2>1, SeqFacts
  <2> QED BY <1>4, <2>1, <2>2, AppendFacts
<1>6. /\ sensor' \in [at : {"send", "fetch", "handle", "ack"}, batch : Seq(1..issued),
                      outcome : Outcomes]
      /\ sensor'.at = "ack" /\ sensor'.batch = sensor.batch /\ sensor'.outcome = o
  BY <1>2 DEF Inv, LoopOK
<1>7. HubsOK'
  <2>1. \A h \in {hub, disk} : HubOK(h, issued', snaps', ToSet(runs'))
    BY <1>1, <1>5, HubGrows DEF Inv, HubsOK
  <2> QED BY <1>1, <2>1 DEF HubsOK
<1>8. LateOK'
  BY <1>1, <1>5 DEF Inv, LateOK, RequestOK
<1>9. LoopOK'
  <2>1. [id |-> Head(sensor'.batch), state |-> sensor'.outcome] \in ToSet(runs')
    BY <1>5, <1>6
  <2>2. Len(runs') <= MaxRuns
    BY <1>1, <1>5, FederationAssumption
  <2>3. sensor'.batch # <<>> /\ sensor'.at = "ack"
    BY <1>3, <1>6
  <2>4. runs' \in Seq([id : 1..issued', state : Outcomes])
    BY <1>1, <1>5
  <2>5. sensor' \in [at : {"send", "fetch", "handle", "ack"}, batch : Seq(1..issued'),
                     outcome : Outcomes]
    BY <1>1, <1>6
  <2> HIDE DEF r, Runs, b1
  <2> QED BY <1>1, <2>1, <2>2, <2>3, <2>4, <2>5 DEF Inv, LoopOK
<1>10. Durable'
  BY <1>1 DEF Inv, Durable
<1>11. InLine'
  <2> SUFFICES ASSUME Calm, Lined, OrderKept PROVE Lined' /\ OrderKept'
    BY <1>1 DEF Inv, InLine, Calm
  <2>1. Done' = Done \cup {b1} /\ Current = {} /\ Current' = {b1}
    BY <1>1, <1>4, <1>5, <1>6 DEF Done, Current
  <2>2. \A i \in Done, b \in ToSet(sensor.batch) : i < b
    BY <2>1 DEF Lined
  <2>3. /\ b1 \in ToSet(sensor.batch) /\ Increasing(sensor.batch)
        /\ \A b \in ToSet(sensor.batch) : b = b1 \/ b1 < b
    <3>1. Increasing(sensor.batch)
      BY DEF Lined
    <3>2. sensor.batch \in Seq(Nat)
      BY <1>3, <1>1, SeqMonotonic
    <3> QED BY <1>3, <3>1, <3>2, TailFacts, IncreasingFacts
  <2> HIDE DEF b1
  <2>4. \A n \in 1..Len(hub.commands) : Waits(hub.commands[n])' => Waits(hub.commands[n])
    BY <1>1 DEF Waits
  <2>5. \A n \in 1..Len(hub.commands) :
          LET c == hub.commands[n] IN
          Waits(c) => /\ c.id \in ToSet(sensor.batch) \/ \A b \in ToSet(sensor.batch) : b < c.id
                      /\ \A i \in Done : i < c.id
    BY <2>1 DEF Lined
  <2>6. \A n \in 1..Len(hub.commands) :
          LET c == hub.commands[n] IN
          Waits(c) => c.id = b1 \/ \A i \in Done \cup {b1} : i < c.id
    BY <2>3, <2>5
  <2>7. \A i \in Done \cup {b1}, b \in ToSet(sensor.batch) : i < b \/ (i = b /\ b \in {b1})
    BY <2>2, <2>3
  <2>8. Lined'
    BY <1>1, <1>6, <2>1, <2>3, <2>4, <2>5, <2>6, <2>7 DEF Lined
  <2>9. OrderKept'
    <3>1. \A n \in 1..Len(runs) : runs[n].id < b1
      <4>1. \A n \in 1..Len(runs) : runs[n].id \in Done
        <5>1. \A n \in 1..Len(runs) : runs[n] \in ToSet(runs)
          BY <1>5, SeqFacts
        <5> QED BY <5>1 DEF Done
      <4> QED BY <2>2, <2>3, <4>1
    <3>2. \A i, j \in 1..Len(runs) : i < j => runs[i].id < runs[j].id
      BY DEF OrderKept, Calm
    <3> SUFFICES ASSUME NEW i \in 1..Len(runs'), NEW j \in 1..Len(runs'), i < j
                 PROVE  runs'[i].id < runs'[j].id
      BY DEF OrderKept
    <3>3. i \in 1..Len(runs)
      BY <1>5
    <3>4. CASE j = Len(runs) + 1
      BY <1>4, <1>5, <3>1, <3>3, <3>4
    <3>5. CASE j # Len(runs) + 1
      <4>1. j \in 1..Len(runs)
        BY <1>5, <3>5
      <4> QED BY <1>5, <3>2, <3>3, <4>1
    <3> QED BY <3>4, <3>5
  <2> QED BY <2>8, <2>9
<1> QED BY <1>7, <1>8, <1>9, <1>10, <1>11 DEF Inv

LEMMA AckInv ==
  ASSUME Inv, AckCommand
  PROVE  Inv'
<1>1. /\ sensor.at = "ack" /\ Transmit(Ack) /\ UNCHANGED <<issued, expired, snaps, runs>>
      /\ sensor' = [sensor EXCEPT !.batch = Tail(@),
                                  !.at = IF Len(sensor.batch) = 1 THEN "send" ELSE "handle"]
      /\ issued \in 0..MaxCommands /\ issued \in Nat /\ snaps \in Nat /\ snaps' = snaps
  BY FederationAssumption DEF AckCommand, Reported, Inv, LoopOK
<1> DEFINE b1 == Head(sensor.batch)
           rest == Tail(sensor.batch)
<1>2. /\ sensor.batch # <<>> /\ sensor.batch \in Seq(1..issued) /\ sensor.outcome \in Outcomes
      /\ [id |-> b1, state |-> sensor.outcome] \in ToSet(runs)
  BY <1>1 DEF Inv, LoopOK
<1>3. /\ b1 \in 1..issued /\ rest \in Seq(1..issued) /\ Len(sensor.batch) \in Nat \ {0}
      /\ Len(rest) = Len(sensor.batch) - 1 /\ ToSet(sensor.batch) = {b1} \cup ToSet(rest)
  BY <1>2, TailFacts
<1>4. Ack \in Acks /\ Ack.type = "ack" /\ Ack.id = b1 /\ Ack.state = sensor.outcome
  <2>1. b1 \in Ids
    BY <1>1, <1>3, FederationAssumption DEF Ids
  <2> QED BY <1>2, <2>1 DEF Ack, Acks
<1>5. RequestOK(Ack, snaps', ToSet(runs))
  BY <1>2, <1>4 DEF RequestOK
<1>6. Sent(Ack)
  BY <1>1, <1>5, TransmitFacts DEF Inv
<1>7. /\ sensor' \in [at : {"send", "fetch", "handle", "ack"}, batch : Seq(1..issued),
                      outcome : Outcomes]
      /\ sensor'.batch = rest
      /\ sensor'.at = IF Len(sensor.batch) = 1 THEN "send" ELSE "handle"
  BY <1>1, <1>3 DEF Inv, LoopOK
<1>8. rest = <<>> <=> Len(sensor.batch) = 1
  <2>1. Len(rest) = 0 <=> rest = <<>>
    BY <1>3, SeqFacts
  <2> HIDE DEF rest
  <2> QED BY <1>3, <2>1
<1> HIDE DEF b1, rest
<1>9. LoopOK'
  <2>1. sensor'.at \in {"handle", "ack"} <=> sensor'.batch # <<>>
    BY <1>7, <1>8
  <2>2. sensor'.at # "ack" /\ spent' \in Counts
    BY <1>6, <1>7 DEF Sent
  <2> QED BY <1>1, <1>7, <2>1, <2>2 DEF Inv, LoopOK
<1>10. spent'.losses = 0 => hub'.snapshot = hub.snapshot /\ late' \subseteq late
  BY <1>4, <1>6 DEF Sent, Reports
<1>11. Durable'
  <2>1. /\ spent'.failures = 0 => spent.failures = 0
        /\ spent'.losses = 0 => spent.losses = 0
    BY <1>6 DEF Sent
  <2> QED BY <1>1, <1>6, <1>10, <2>1, FullStays DEF Inv, Durable
<1>12. InLine'
  <2> SUFFICES ASSUME Calm' PROVE Lined' /\ OrderKept'
    BY DEF InLine
  <2>1. Lined /\ OrderKept /\ Calm
    BY <1>6 DEF Inv, InLine, Sent, Calm
  <2>2. OrderKept'
    BY <1>1, <2>1 DEF OrderKept, Calm
  <2>3. Current = {b1} /\ Current' = {}
    BY <1>1, <1>7 DEF Current, b1
  <2>4. Increasing(rest) /\ \A b \in ToSet(rest) : b1 < b
    <3>1. Increasing(sensor.batch)
      BY <2>1 DEF Lined
    <3>2. sensor.batch \in Seq(Nat)
      BY <1>1, <1>2, SeqMonotonic
    <3> QED BY <1>2, <3>1, <3>2, IncreasingFacts DEF b1, rest
  <2>5. ToSet(rest) \subseteq ToSet(sensor.batch) \ {b1}
    BY <1>1, <1>3, <2>4
  <2>6. Lined'
    BY <1>1, <1>3, <1>4, <1>6, <1>7, <2>1, <2>3, <2>4, <2>5, StillLined DEF Inv
  <2> QED BY <2>2, <2>6
<1> QED BY <1>6, <1>9, <1>11, <1>12 DEF Inv, Sent

LEMMA RestartSensorInv ==
  ASSUME Inv, RestartSensor
  PROVE  Inv'
<1>1. /\ sensor' = Idle /\ UNCHANGED <<hub, disk, issued, expired, snaps, late, runs>>
      /\ spent' \in Counts /\ spent'.losses = spent.losses
      /\ spent'.failures = spent.failures /\ spent'.crashes # 0
  BY PayFacts DEF RestartSensor, controller, Inv, LoopOK
<1>2. HubsOK' /\ LateOK' /\ Durable'
  BY <1>1 DEF Inv, HubsOK, LateOK, Durable
<1>3. LoopOK'
  <2>1. <<>> \in Seq(1..issued')
    BY EmptySeq
  <2> QED BY <1>1, <2>1 DEF Inv, LoopOK, Idle, Outcomes
<1>4. InLine'
  BY <1>1 DEF InLine, Calm
<1> QED BY <1>2, <1>3, <1>4 DEF Inv

LEMMA StepInv == Inv /\ [Next]_vars => Inv'
<1> SUFFICES ASSUME Inv, [Next]_vars PROVE Inv'
  OBVIOUS
<1>1. ASSUME NEW timed \in BOOLEAN, QueueCommand(timed) PROVE Inv'
  BY <1>1, QueueInv
<1>2. ASSUME NEW c \in ToSet(hub.commands), Expire(c) PROVE Inv'
  BY <1>2, ExpireInv
<1>3. ASSUME NEW m \in late, LateArrives(m) PROVE Inv'
  BY <1>3, LateInv
<1>4. CASE SkipSnapshot
  <2>1. UNCHANGED spent /\ spent' \in Counts
    BY <1>4 DEF SkipSnapshot, Inv, LoopOK
  <2> QED BY <1>4, <2>1, GoesOn DEF SkipSnapshot
<1>5. CASE FetchFails
  <2>1. /\ spent' \in Counts /\ spent'.failures = spent.failures
        /\ spent'.crashes = spent.crashes /\ spent'.losses # 0
    BY <1>5, PayFacts DEF FetchFails, Inv, LoopOK
  <2> QED BY <1>5, <2>1, GoesOn DEF FetchFails
<1>6. CASE UNCHANGED vars
  <2>1. UNCHANGED <<hub, disk, issued, expired, sensor, snaps, late, runs, spent>>
    BY <1>6 DEF vars, controller
  <2>2. HubsOK' /\ LateOK' /\ LoopOK' /\ Durable'
    BY <2>1 DEF Inv, HubsOK, LateOK, LoopOK, Durable
  <2>3. InLine'
    <3>1. Done' = Done /\ Current' = Current /\ (Calm' <=> Calm)
      BY <2>1 DEF Done, Current, Calm
    <3>2. \A n \in 1..Len(hub.commands) : Waits(hub.commands[n])' => Waits(hub.commands[n])
      BY <2>1 DEF Waits
    <3>3. Lined => Lined'
      BY <2>1, <3>1, <3>2 DEF Lined
    <3> QED BY <2>1, <3>1, <3>3 DEF Inv, InLine, OrderKept
  <2> QED BY <2>2, <2>3 DEF Inv
<1> QED BY <1>1, <1>2, <1>3, <1>4, <1>5, <1>6, RestartHubInv, SendSnapshotInv, FetchInv,
           HandleInv, AckInv, RestartSensorInv DEF Next, Loop

-----------------------------------------------------------------------------
\* Inv holds in every state.
THEOREM Invariance == Spec => []Inv
<1>1. Init => Inv
  BY InitInv
<1>2. Inv /\ [Next]_vars => Inv'
  BY StepInv
<1> QED BY <1>1, <1>2, PTL DEF Spec

\* What the invariant says of the fleet.
LEMMA InvFollows == Inv => FleetFollows
<1> SUFFICES ASSUME Inv PROVE FleetFollows
  OBVIOUS
<1>1. TypeOK
  <2>1. \A h \in {hub, disk} :
          /\ h \in [commands : Seq(Commands), snapshot : 0..snaps]
          /\ Len(h.commands) <= QueueLimit
          /\ \A i, j \in 1..Len(h.commands) : i < j => h.commands[i].id < h.commands[j].id
    BY DEF Inv, HubsOK, HubOK
  <2>2. late \subseteq Acks \cup Snapshots
    BY DEF Inv, LateOK, RequestOK
  <2> QED BY <2>1, <2>2 DEF TypeOK, Inv, LoopOK, Counts
<1>2. /\ hub.commands \in Seq(Commands) /\ Len(hub.commands) \in Nat
      /\ ToSet(hub.commands) = {hub.commands[n] : n \in 1..Len(hub.commands)}
  BY SeqFacts DEF Inv, HubsOK, HubOK
<1>3. \A c \in ToSet(hub.commands) :
        c.state # "queued" => [id |-> c.id, state |-> c.state] \in ToSet(runs)
  BY <1>2 DEF Inv, HubsOK, HubOK
<1>4. ASSUME spent.failures = 0
      PROVE  {c.id : c \in ToSet(hub.commands)} = {i \in 1..issued : i + QueueLimit > issued}
  <2> DEFINE n == Len(hub.commands)
  <2>1. /\ n = IF issued <= QueueLimit THEN issued ELSE QueueLimit
        /\ \A i \in 1..n : hub.commands[i].id = issued - n + i
    BY <1>4 DEF Inv, Durable, Full
  <2>2. {c.id : c \in ToSet(hub.commands)} = {hub.commands[i].id : i \in 1..n}
    BY <1>2
  <2>3. issued \in Nat /\ QueueLimit \in Nat \ {0} /\ n \in Nat
    BY <1>2, FederationAssumption DEF Inv, LoopOK
  <2> HIDE DEF n
  <2>4. ASSUME NEW i \in 1..n
        PROVE  issued - n + i \in {k \in 1..issued : k + QueueLimit > issued}
    BY <2>1, <2>3
  <2>5. ASSUME NEW k \in 1..issued, k + QueueLimit > issued
        PROVE  \E i \in 1..n : k = issued - n + i
    <3>1. k - (issued - n) \in 1..n /\ k = issued - n + (k - (issued - n))
      BY <2>1, <2>3, <2>5
    <3> QED BY <3>1
  <2> QED BY <2>1, <2>2, <2>4, <2>5
<1>5. FleetTruthful
  BY <1>3, <1>4 DEF FleetTruthful, Inv, Durable
<1>6. OrderKept
  <2>1. Calm => OrderKept
    BY DEF Inv, InLine
  <2> QED BY <2>1 DEF Calm, OrderKept
<1> QED BY <1>1, <1>5, <1>6 DEF FleetFollows

\* The fleet follows its operator: its lists are bounded and in the order of issue,
\* what the controller shows of a command is what an execution of it gave, a
\* command queued is there until QueueLimit newer ones follow it, and while nothing
\* is lost commands are executed in order and none twice (Hub.EnqueueCommand,
\* Commands and AckCommand, Client.processCommands).
THEOREM FleetFollowsCorrect == Spec => []FleetFollows
<1>1. Inv => FleetFollows
  BY InvFollows
<1> QED BY <1>1, Invariance, PTL
=============================================================================
