------------------------------ MODULE AuditLog ------------------------------
(***************************************************************************)
(* The hash-chained audit log (internal/audit/log.go) and what backup and  *)
(* restore (internal/backup/backup.go, backupAPI of internal/server) do to *)
(* its file while the daemon runs.                                         *)
(*                                                                         *)
(* The file is a sequence of lines.  A line is a record, which carries the *)
(* number of its event and the number of the event it is chained to (the   *)
(* HMAC is ideal: it binds both), or it is Garbage that does not parse.  A *)
(* write that fails may leave a part of its line, or all of it but the     *)
(* newline; the file then ends inside a line and the next write continues  *)
(* that line.  Log keeps the hash of the last event in memory.             *)
(***************************************************************************)
EXTENDS Naturals, Sequences, SequencesExt

CONSTANTS MaxEvents,    \* bound on the calls of Append
          MaxTorn,      \* bound on writes that fail
          MaxRestarts,  \* bound on restarts of the daemon
          MaxRestores   \* bound on backups restored

ASSUME AuditAssumption ==
         {MaxEvents, MaxTorn, MaxRestarts, MaxRestores} \subseteq Nat

VARIABLES file,     \* the lines of audit.jsonl
          ragged,   \* does the last line lack its newline
          last,     \* l.last: the event whose hash is chained next, 0 for ""
          events,   \* calls of Append so far
          acked,    \* events whose Append returned nil (history)
          backup,   \* the last backup's copy of the file
          torn, restarts, restores

vars == <<file, ragged, last, events, acked, backup, torn, restarts, restores>>

Garbage == [id |-> 0, prev |-> 0]
Record(id, prev) == [id |-> id, prev |-> prev]
NoBackup == [lines |-> <<>>, ragged |-> FALSE, made |-> FALSE]

Init ==
  /\ file = <<>> /\ ragged = FALSE /\ last = 0
  /\ events = 0 /\ acked = {} /\ backup = NoBackup
  /\ torn = 0 /\ restarts = 0 /\ restores = 0

\* readLocked: the records, or an error at the first line that does not parse.
Parses(f) == \A i \in 1..Len(f) : f[i] # Garbage

\* Verify: every line parses and is chained to the line before it.
Verify(f) ==
  /\ Parses(f)
  /\ \A i \in 1..Len(f) : f[i].prev = IF i = 1 THEN 0 ELSE f[i - 1].id

\* List: nothing at all when a line does not parse.
List(f) == IF Parses(f) THEN {f[i].id : i \in 1..Len(f)} ELSE {}

\* The file after a write of the line r: a line that had no newline is
\* continued, and the two together do not parse.
Written(r) ==
  IF ragged THEN [file EXCEPT ![Len(file)] = Garbage] ELSE Append(file, r)

-----------------------------------------------------------------------------
\* Mutant: the record is chained to the previous call, written or not.
AppendEventAnyway ==
  /\ events < MaxEvents /\ events' = events + 1
  /\ \/ /\ file' = Written(Record(events', events))
        /\ ragged' = FALSE /\ last' = events'
        /\ acked' = acked \cup {events'}
     \/ /\ UNCHANGED <<file, ragged, acked>> /\ last' = events'
  /\ UNCHANGED <<backup, torn, restarts, restores>>

\* Log.Append when the write succeeds.
AppendEvent ==
  /\ events < MaxEvents /\ events' = events + 1
  /\ file' = Written(Record(events', last))
  /\ ragged' = FALSE
  /\ last' = events'
  /\ acked' = acked \cup {events'}
  /\ UNCHANGED <<backup, torn, restarts, restores>>

\* Log.Append when the file cannot be opened or the write fails at once.
AppendRefused ==
  /\ events < MaxEvents /\ events' = events + 1
  /\ UNCHANGED <<file, ragged, last, acked, backup, torn, restarts, restores>>

\* Log.Append when the write stops inside the line, or before its newline.
\* The daemon may then go on, or be dead: see Restart.
AppendTorn ==
  /\ events < MaxEvents /\ events' = events + 1
  /\ torn < MaxTorn /\ torn' = torn + 1
  /\ \E r \in {Garbage, Record(events', last)} : file' = Written(r)
  /\ ragged' = TRUE
  /\ UNCHANGED <<last, acked, backup, restarts, restores>>

\* New reads the file; the error of a line that does not parse is dropped, and
\* the chain starts again from the empty hash.
Restart ==
  /\ restarts < MaxRestarts /\ restarts' = restarts + 1
  /\ last' = IF Parses(file) /\ file # <<>> THEN file[Len(file)].id ELSE 0
  /\ UNCHANGED <<file, ragged, events, acked, backup, torn, restores>>

\* backup.Create copies the file; its own audit record is a later Append.
Backup ==
  /\ restores < MaxRestores
  /\ backup' = [lines |-> file, ragged |-> ragged, made |-> TRUE]
  /\ UNCHANGED <<file, ragged, last, events, acked, torn, restarts, restores>>

\* backup.Restore renames the copy over the file; the Log is not told.
Restore ==
  /\ backup.made
  /\ restores < MaxRestores /\ restores' = restores + 1
  /\ file' = backup.lines /\ ragged' = backup.ragged
  /\ UNCHANGED <<last, events, acked, backup, torn, restarts>>

Next ==
  \/ AppendEvent \/ AppendRefused \/ AppendTorn
  \/ Restart \/ Backup \/ Restore

Spec == Init /\ [][Next]_vars

-----------------------------------------------------------------------------
Lines == [id : 0..MaxEvents, prev : 0..MaxEvents]

\* The types of the file, the memory of the log and the backup.
TypeOK ==
  /\ file \in Seq(Lines) /\ ragged \in BOOLEAN
  /\ last \in 0..MaxEvents /\ events \in 0..MaxEvents
  /\ acked \subseteq 1..MaxEvents
  /\ backup \in [lines : Seq(Lines), ragged : BOOLEAN, made : BOOLEAN]
  /\ ragged => file # <<>>
  /\ torn \in 0..MaxTorn /\ restarts \in 0..MaxRestarts
  /\ restores \in 0..MaxRestores

Untouched == torn = 0 /\ restores = 0

\* An untouched log verifies ("The Operations page can verify the chain",
\* docs/AUTH_SECURITY.md:79), across refused writes and restarts, and the chain
\* detects every change but a cut at the end: of all the sequences of records
\* of the log, in another order, with one removed or one repeated, exactly the
\* prefixes of the file verify.  It does not hold after a restore: the Log
\* keeps the last hash of the file before.
ExactlyPrefixesVerify ==
  Untouched => \A n \in 1..Len(file) : \A g \in [1..n -> ToSet(file)] :
                 Verify(g) <=> IsPrefix(g, file)

\* An event that was acknowledged is never lost silently: it is in the file and
\* can be listed, or Verify reports an error, whatever writes were torn and
\* whenever the daemon restarted.  (A restore drops what came after the backup;
\* a torn line hides every event of the log, but not silently.)
NoSilentLoss ==
  restores = 0 => \A e \in acked : e \in List(file) \/ ~Verify(file)

\* The chain shows what happened to the log, and nothing is lost unseen.
AuditSound == TypeOK /\ ExactlyPrefixesVerify /\ NoSilentLoss
=============================================================================
