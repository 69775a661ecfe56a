------------------------------- MODULE Backups -------------------------------
(***************************************************************************)
(* Encrypted backups (internal/backup/backup.go) as backupAPI              *)
(* (internal/server/security_v05.go) makes and restores them, while the    *)
(* daemon goes on writing the files they hold.                             *)
(*                                                                         *)
(* A file of the data directory has a version, which a write increases (it *)
(* is renamed into place, so a copy never sees half a version).  An        *)
(* archive is a sequence of entries and a manifest of their contents; the  *)
(* envelope around it is authenticated with the passphrase, ideally.  A    *)
(* handler copies and restores one file per step.                          *)
(***************************************************************************)
EXTENDS Naturals, Sequences, FiniteSets, SequencesExt

CONSTANTS Paths,          \* the files below the backed-up directories, in the
                          \* order in which they are walked
          Directory(_),   \* the backed-up directory a file is in
          Passphrases,    \* those of 12 characters and more
          MaxWrites,      \* bound on the writes of the daemon
          MaxBackups,     \* bound on the calls of create and restore
          MaxFaults       \* bound on read errors, damage and crashes

\* Walk comes to every file once.
ASSUME BackupAssumption ==
         /\ {MaxWrites, MaxBackups, MaxFaults} \subseteq Nat
         /\ Paths \in Seq(ToSet(Paths)) /\ IsInjective(Paths)

VARIABLES data,      \* the version of each file, 0 when there is none
          job,       \* what the handler is doing
          archives,  \* the archives in data/backups
          restored,  \* the version a restore that returned no error left in each
                     \* file, 0 after a later write (history)
          writes, calls, faults,
          readErrors \* did a copy stop half way through a file (history)

backupVars == <<data, job, archives, restored, writes, calls, faults, readErrors>>

Files == ToSet(Paths)
Torn == MaxWrites + 2    \* the content of a file that was copied in part
NoJob == [op |-> "none"]
Nothing == [p \in Files |-> 0]

BackupInit ==
  /\ data \in [Files -> 0..1] /\ job = NoJob /\ archives = {}
  /\ restored = Nothing
  /\ writes = 0 /\ calls = 0 /\ faults = 0 /\ readErrors = FALSE

Fault == faults < MaxFaults /\ faults' = faults + 1
Call == calls < MaxBackups /\ calls' = calls + 1

\* The daemon replaces a file, with a new version.
Replace(p) ==
  /\ writes < MaxWrites /\ writes' = writes + 1
  /\ data' = [data EXCEPT ![p] = writes' + 1]
  /\ restored' = [restored EXCEPT ![p] = 0]
  /\ job' = CASE job.op = "copy" -> [job EXCEPT !.seen[p] = @ \cup {data'[p]}]
              [] job.op = "restore" -> [job EXCEPT !.put[p] = 0]
              [] OTHER -> job
  /\ UNCHANGED <<archives, calls, faults, readErrors>>

-----------------------------------------------------------------------------
\* Create: the places in the walk that are left, the entries copied so far,
\* those the manifest lists, and the versions each file has had since the start
\* (history).
CreateBegin(pass) ==
  /\ Call /\ job = NoJob
  /\ job' = [op |-> "copy", left |-> DOMAIN Paths, entries |-> <<>>, manifest |-> {},
              seen |-> [p \in Files |-> {data[p]}], pass |-> pass, skipped |-> {}]
  /\ UNCHANGED <<data, archives, restored, writes, faults, readErrors>>

\* Walk takes the next file: it is gone, it is copied and listed in the
\* manifest, it cannot be opened and is passed over, or the copy ends in an
\* error, which stays in the archive unlisted and ends the walk of its directory.
CopyFile ==
  /\ job.op = "copy"
  /\ \E n \in job.left :
     LET p == Paths[n]
         rest == job.left \ {n}
     IN
     /\ \A m \in rest : n < m
     /\ \/ /\ data[p] = 0
           /\ job' = [job EXCEPT !.left = rest]
           /\ UNCHANGED <<faults, readErrors>>
        \/ /\ data[p] # 0
           /\ job' = [job EXCEPT !.left = rest, !.entries = Append(@, <<p, data[p]>>),
                                 !.manifest = @ \cup {<<p, data[p]>>}]
           /\ UNCHANGED <<faults, readErrors>>
        \/ /\ data[p] # 0 /\ Fault
           /\ job' = [job EXCEPT !.left = rest, !.skipped = @ \cup {p}]
           /\ UNCHANGED readErrors
        \/ /\ data[p] # 0 /\ Fault /\ readErrors' = TRUE
           /\ job' = [job EXCEPT !.entries = Append(@, <<p, Torn>>),
                !.left = {m \in rest : Directory(Paths[m]) # Directory(p)}]
  /\ UNCHANGED <<data, archives, restored, writes, calls>>

Archive(encrypted, damaged) ==
  [entries |-> job.entries, manifest |-> job.manifest, seen |-> job.seen,
   skipped |-> job.skipped, pass |-> job.pass, encrypted |-> encrypted, damaged |-> damaged]

\* encryptFile writes the envelope and its MAC, and the plain archive is
\* removed; or it fails and removes both.
Encrypt ==
  /\ job.op = "copy" /\ job.left = {}
  /\ \/ archives' = archives \cup {Archive(TRUE, FALSE)} /\ UNCHANGED faults
     \/ Fault /\ UNCHANGED archives
  /\ job' = NoJob
  /\ UNCHANGED <<data, restored, writes, calls, readErrors>>

\* The daemon dies: a restore stays where it is; a backup leaves the plain
\* archive, which opens only when it was complete, and an envelope without MAC.
Crash ==
  /\ Fault /\ job # NoJob
  /\ archives' = IF job.op # "copy" THEN archives
                 ELSE archives \cup {Archive(FALSE, job.left # {})} \cup
                        (IF job.left = {} THEN {Archive(TRUE, TRUE)} ELSE {})
  /\ job' = NoJob
  /\ UNCHANGED <<data, restored, writes, calls, readErrors>>

\* The storage changes a byte of an archive: an entry is different, and an
\* envelope no longer authenticates.
Damage(a) ==
  /\ Fault
  /\ \E i \in DOMAIN a.entries :
       archives' = (archives \ {a}) \cup
         {[a EXCEPT !.entries[i] = <<@[1], Torn>>, !.damaged = @ \/ a.encrypted]}
  /\ UNCHANGED <<data, job, restored, writes, calls, readErrors>>

\* decryptFile: nothing is decrypted before the MAC of the whole envelope has
\* been compared; a plain archive needs no passphrase.
Authentic(a, pass) == ~a.damaged /\ (a.encrypted => a.pass = pass)

\* Verify: every file of the manifest is there, unchanged.
Intact(a) == a.manifest \subseteq ToSet(a.entries)

VerifyArchive(a, pass) == Authentic(a, pass) /\ Intact(a)

\* Restore changes nothing before the whole archive has been verified.
RestoreBegin(a, pass) ==
  /\ Call /\ job = NoJob
  /\ VerifyArchive(a, pass)
  /\ job' = [op |-> "restore", todo |-> a.entries, put |-> Nothing]
  /\ UNCHANGED <<data, archives, restored, writes, faults, readErrors>>

\* Every entry of the archive, listed or not, is written aside and renamed over
\* the file; an error ends the restore, and the files before it stay replaced.
RestoreFile ==
  /\ job.op = "restore" /\ job.todo # <<>>
  /\ \/ LET e == Head(job.todo) IN
        /\ data' = [data EXCEPT ![e[1]] = e[2]]
        /\ restored' = [restored EXCEPT ![e[1]] = 0]
        /\ job' = [job EXCEPT !.todo = Tail(@), !.put[e[1]] = e[2]]
        /\ UNCHANGED faults
     \/ Fault /\ job' = NoJob /\ UNCHANGED <<data, restored>>
  /\ UNCHANGED <<archives, writes, calls, readErrors>>

RestoreEnd ==
  /\ job.op = "restore" /\ job.todo = <<>>
  /\ restored' = [p \in Files |-> IF job.put[p] # 0 THEN job.put[p] ELSE restored[p]]
  /\ job' = NoJob
  /\ UNCHANGED <<data, archives, writes, calls, faults, readErrors>>

BackupNext ==
  \/ \E p \in Files : Replace(p)
  \/ \E pass \in Passphrases : \/ CreateBegin(pass)
                               \/ \E a \in archives : RestoreBegin(a, pass)
  \/ CopyFile \/ Encrypt \/ RestoreFile \/ RestoreEnd \/ Crash
  \/ \E a \in archives : Damage(a)

BackupSpec == BackupInit /\ [][BackupNext]_backupVars

-----------------------------------------------------------------------------
\* The types of the files and the archives.
BackupTypeOK ==
  /\ data \in [Files -> 0..Torn] /\ restored \in [Files -> 0..Torn]
  /\ job.op \in {"none", "copy", "restore"}
  /\ \A a \in archives : ToSet(a.entries) \subseteq Files \X (1..Torn)
  /\ writes \in 0..MaxWrites /\ calls \in 0..MaxBackups /\ faults \in 0..MaxFaults

\* "authenticated encrypted backup/restore" and its integrity check: an archive
\* that verifies holds, of every file that was there all the time and could be
\* opened, a version the file had while the backup was made, and nothing else;
\* no file is ever replaced from an archive that was cut, changed or left by a
\* crash; and a restore that reports success has put back all it held, but for
\* what the daemon wrote since.  A copy that fails half way breaks this: its
\* part of the file is in the archive, the manifest does not list it, and a
\* restore writes it.
BackupExact ==
  /\ \A p \in Files : restored[p] # 0 => data[p] = restored[p]
  /\ ~readErrors =>
       /\ \A p \in Files : data[p] # Torn
       /\ \A a \in archives : VerifyArchive(a, a.pass) =>
            /\ \A e \in ToSet(a.entries) : e[2] \in a.seen[e[1]]
            /\ \A p \in Files : 0 \in a.seen[p] \/ p \in a.skipped
                                 \/ \E e \in ToSet(a.entries) : e[1] = p
=============================================================================
