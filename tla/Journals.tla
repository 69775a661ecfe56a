------------------------------- MODULE Journals -------------------------------
(***************************************************************************)
(* The files in which the engine remembers what it has seen, over failed   *)
(* and torn writes and restarts.                                           *)
(*                                                                         *)
(* A journal is a file of JSON lines, opened, appended to and closed for   *)
(* every record: the analytics events (internal/analytics/store.go), the   *)
(* events of the network baseline (internal/netbaseline/store.go) and the  *)
(* snapshots of the timeline (internal/timeline/store.go).  The first two  *)
(* are read back for every question, the timeline only when it starts.  A  *)
(* write can end anywhere in the line, and what is appended next continues *)
(* that line; a line that is not one JSON object is skipped by readers.    *)
(*                                                                         *)
(* A document is written whole to a temporary file and renamed: the        *)
(* suppressions (internal/tuning/store.go) and the quality runs            *)
(* (internal/detectionquality/store.go).  Memory is changed first and      *)
(* stays changed when the save fails.                                      *)
(*                                                                         *)
(* Every operation runs under its store's lock, so lists and files keep    *)
(* records in the order of their numbers, and a list is the set of what is *)
(* in it.  One store is explored at a time (journal).                        *)
(***************************************************************************)
EXTENDS Integers, Sequences, FiniteSets

CONSTANTS JournalMax,      \* records the timeline and the quality runs keep
          Recently,        \* Compare: the recent window
          Historically,    \* Compare: the historical window
          LastMoment,      \* bound: times of records are 0..LastMoment
          MaxRecords, MaxJournalFaults, MaxReloads \* bounds

ASSUME JournalsAssumption ==
  /\ {JournalMax, Recently, Historically, LastMoment, MaxRecords, MaxJournalFaults,
      MaxReloads} \subseteq Nat
  /\ JournalMax > 0 /\ Recently < Historically

JournalStores == {"analytics", "network", "timeline"}
DocumentStores == {"tuning", "quality"}

VARIABLES journal,    \* the store at work
          entries,    \* the journal: a sequence of [recs, whole, closed]
          remembered, \* the snapshots, suppressions or runs in memory
          document,   \* the file of a document
          tries,      \* records and rules tried so far; the last one's number
          ackd,       \* those whose operation returned no error (history)
          gone,       \* suppressions deleted without error (history)
          deletions,  \* suppressions someone tried to delete (history)
          faultsLeft, reloads
journalVars == <<journal, entries, remembered, document, tries, ackd, gone, deletions, faultsLeft, reloads>>

JournalsInit ==
  /\ journal \in JournalStores \union DocumentStores
  /\ entries = <<>> /\ remembered = {} /\ document = {}
  /\ tries = 0 /\ ackd = {} /\ gone = {} /\ deletions = {}
  /\ faultsLeft = MaxJournalFaults /\ reloads = 0

Records == [n : 1..MaxRecords, time : 0..LastMoment]
Numbers(records) == {r.n : r \in records}
\* The end of a list, at most limit long.
Latest(numbers, limit) == {n \in numbers : Cardinality({m \in numbers : m > n}) < limit}
LatestRecords(records, limit) == {r \in records : r.n \in Latest(Numbers(records), limit)}

\* What one write leaves of the record: all of the line, all but its newline, a
\* part of it, or nothing.  Only the first returns no error.
Outcomes == {"written", "unclosed", "cut", "nothing"}
Line(r, outcome) == [recs |-> <<r>>, whole |-> outcome # "cut", closed |-> outcome = "written"]
Appended(r, outcome) ==
  IF outcome = "nothing" THEN entries
  ELSE IF entries # <<>> /\ ~entries[Len(entries)].closed
  THEN [entries EXCEPT ![Len(entries)].recs = Append(@, r), ![Len(entries)].closed = outcome = "written"]
  ELSE Append(entries, Line(r, outcome))

\* Scanning the file: json.Unmarshal of every line, the unreadable ones skipped.
Readable(l) == Len(l.recs) = 1 /\ l.whole
Scan == {entries[i].recs[1] : i \in {j \in DOMAIN entries : Readable(entries[j])}}

FaultOf(outcome) ==
  IF outcome = "written" THEN UNCHANGED faultsLeft
  ELSE faultsLeft > 0 /\ faultsLeft' = faultsLeft - 1
AckAnything(outcome, n) == ackd' = ackd \union {n}  \* a plausible bug: the error of Write is dropped
Acknowledge(outcome, n) == ackd' = ackd \union {k \in {n} : outcome = "written"}
Try(n) == tries < MaxRecords /\ n = tries + 1 /\ tries' = n

\* analytics Append and netbaseline Observe.
AppendObservation(r, outcome) ==
  /\ journal \in {"analytics", "network"} /\ Try(r.n) /\ FaultOf(outcome) /\ Acknowledge(outcome, r.n)
  /\ entries' = Appended(r, outcome)
  /\ UNCHANGED <<journal, remembered, document, gone, deletions, reloads>>

\* timeline Add: memory first, and the snapshot stays there when the write fails.
AddSnapshot(r, outcome) ==
  /\ journal = "timeline" /\ Try(r.n) /\ FaultOf(outcome) /\ Acknowledge(outcome, r.n)
  /\ remembered' = LatestRecords(remembered \union {r}, JournalMax)
  /\ entries' = Appended(r, outcome)
  /\ UNCHANGED <<journal, document, gone, deletions, reloads>>

\* saveLocked and persistLocked: the file is replaced, or not.
Save(contents, outcome) == document' = (IF outcome = "written" THEN contents ELSE document)
SaveOutcomes == {"written", "nothing"}

\* tuning Add and Delete, with saveLocked.
AddRule(n, outcome) ==
  /\ journal = "tuning" /\ Try(n) /\ FaultOf(outcome) /\ Acknowledge(outcome, n)
  /\ remembered' = remembered \union {n} /\ Save(remembered', outcome)
  /\ UNCHANGED <<journal, entries, gone, deletions, reloads>>
DeleteRule(n, outcome) ==
  /\ journal = "tuning" /\ n \in remembered /\ FaultOf(outcome)
  /\ remembered' = remembered \ {n} /\ Save(remembered', outcome)
  /\ deletions' = deletions \union {n}
  /\ gone' = gone \union {k \in {n} : outcome = "written"}
  /\ UNCHANGED <<journal, entries, tries, ackd, reloads>>

\* detectionquality Record: the newest runs are kept.
RecordRun(n, outcome) ==
  /\ journal = "quality" /\ Try(n) /\ FaultOf(outcome) /\ Acknowledge(outcome, n)
  /\ remembered' = Latest(remembered \union {n}, JournalMax) /\ Save(remembered', outcome)
  /\ UNCHANGED <<journal, entries, gone, deletions, reloads>>

\* The process ends, in the middle of a save too, and New reads the files again.
Reread ==
  CASE journal = "timeline" -> LatestRecords(Scan, JournalMax)
    [] journal \in DocumentStores -> document
    [] OTHER -> {}
Reload ==
  /\ reloads < MaxReloads /\ reloads' = reloads + 1
  /\ remembered' = Reread
  /\ UNCHANGED <<journal, entries, document, tries, ackd, gone, deletions, faultsLeft>>

JournalsNext ==
  \/ \E r \in Records, outcome \in Outcomes : AppendObservation(r, outcome) \/ AddSnapshot(r, outcome)
  \/ \E n \in 1..MaxRecords, outcome \in SaveOutcomes :
       AddRule(n, outcome) \/ DeleteRule(n, outcome) \/ RecordRun(n, outcome)
  \/ Reload

JournalsSpec == JournalsInit /\ [][JournalsNext]_journalVars

-----------------------------------------------------------------------------
\* analytics Query: the events within [from, to], all counted, the last limit of
\* the file returned.
QueryEvents(from, to, limit) ==
  LET within == {r \in Scan : r.time >= from /\ r.time <= to}
  IN [count |-> Cardinality(within), events |-> LatestRecords(within, limit)]
\* netbaseline Compare: of the events of the two windows before at, what is only
\* in the recent one is new.
Compare(at) ==
  LET seen == {r \in Scan : r.time >= at - Historically /\ r.time <= at}
      recent == {r \in seen : r.time >= at - Recently}
  IN [recent |-> recent, historical |-> seen \ recent]
\* timeline Range and Nearest: of snapshots as near, the first.
SnapshotRange(from, to) == {r \in remembered : r.time >= from /\ r.time <= to}
Distance(a, b) == IF a > b THEN a - b ELSE b - a
Nearest(at) ==
  CHOOSE r \in remembered : \A q \in remembered :
    \/ Distance(r.time, at) < Distance(q.time, at)
    \/ Distance(r.time, at) = Distance(q.time, at) /\ r.n <= q.n

\* The numbers a reader of the store sees, whatever it asks for.
Visible ==
  CASE journal = "analytics" -> Numbers(QueryEvents(0, LastMoment, MaxRecords).events)
    [] journal = "network" -> UNION {Numbers(Compare(at).recent \union Compare(at).historical) :
                                     at \in 0..LastMoment}
    [] journal = "timeline" -> Numbers(SnapshotRange(0, LastMoment))
                              \union {Nearest(at).n : at \in {t \in 0..LastMoment : remembered # {}}}
    [] OTHER -> remembered
\* ... and those a bounded store has dropped for newer ones.
Dropped(n) ==
  /\ journal \in {"timeline", "quality"} /\ Cardinality(remembered) = JournalMax
  /\ \A m \in Visible : m > n

\* A record that was acknowledged can be read back, now and after any restart,
\* unless newer ones took its place: a torn write costs no other record than the
\* one that follows it, which it has spoiled.
AcknowledgedKept ==
  journal # "tuning" =>
    \A n \in ackd : (journal \in JournalStores => n = 1 \/ n - 1 \in ackd) => n \in Visible \/ Dropped(n)

\* A suppression that was acknowledged is in force until someone deletes it, one
\* whose deletion was acknowledged never comes back, in memory or in the file,
\* whatever saves failed before or after.
SuppressionsKept ==
  journal = "tuning" =>
    /\ \A n \in ackd \ deletions : n \in Visible /\ n \in document
    /\ \A n \in gone : n \notin Visible /\ n \notin document

StoresKeepTheirWord == AcknowledgedKept /\ SuppressionsKept
=============================================================================
