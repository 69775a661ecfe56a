-------------------------------- MODULE Cases --------------------------------
(***************************************************************************)
(* Incident cases (internal/cases/store.go), the engine's operations on    *)
(* them (internal/pipeline/pipeline.go) and the signed export              *)
(* (internal/evidence/signer.go).                                          *)
(*                                                                         *)
(* The file of a case is its only state: every update reads it, changes it *)
(* and renames a new file over it under the mutex, and is one step.  Host  *)
(* triage collects for seconds between two such steps.  An export works on *)
(* a copy of the case in a directory of its own, then writes one archive   *)
(* per case with no lock held, and the handler serves that file.           *)
(*                                                                         *)
(* A note or snapshot is counted; a captured file is its name.  Hashes and *)
(* signatures are ideal.                                                   *)
(***************************************************************************)
EXTENDS Naturals, FiniteSets

CONSTANTS CaseIds,         \* identifiers of cases (random, never reused)
          Analysts,        \* handlers of users with case:write
          Pcaps,           \* evidence files of the recorder
          MaxSnapshots,    \* triage.MaxSnapshotsPerCase (8)
          MaxUpdates,      \* bound on the successful updates of cases
          MaxExports,      \* bound on the exports
          MaxCaseFailures  \* bound on failed writes

ASSUME CasesAssumption ==
         {MaxSnapshots, MaxUpdates, MaxExports, MaxCaseFailures} \subseteq Nat

VARIABLES store,      \* the files of the cases
          pcaps,      \* the evidence files that exist
          immutable,  \* the forensic_immutable setting
          task,       \* what each handler does between two steps
          archive,    \* the archive of each case, and who writes it
          confirmed,      \* updates of each case that returned no error (history)
          exports, caseFailures

caseVars == <<store, pcaps, immutable, task, archive, confirmed, exports, caseFailures>>

NoCase == [notes |-> 0, snapshots |-> 0, pcaps |-> {}, locked |-> FALSE, exists |-> FALSE]
Idle == [at |-> "idle"]
NoArchive == [writers |-> {}, mixed |-> FALSE, files |-> {}, manifest |-> {}]

CasesInit ==
  /\ store = [id \in CaseIds |-> NoCase]
  /\ pcaps = Pcaps
  /\ immutable \in BOOLEAN
  /\ task = [a \in Analysts |-> Idle]
  /\ archive = [id \in CaseIds |-> NoArchive]
  /\ confirmed = [id \in CaseIds |-> 0]
  /\ exports = 0 /\ caseFailures = 0

Updates(c) == c.notes + c.snapshots + (IF c.locked THEN 1 ELSE 0)

\* writeLocked: the new file takes the place of the old one, or the write or
\* the rename fails and the old one stays.
Write(id, c) ==
  \/ /\ store' = [store EXCEPT ![id] = c]
     /\ confirmed' = [confirmed EXCEPT ![id] = Updates(c)]
     /\ UNCHANGED caseFailures
  \/ /\ caseFailures < MaxCaseFailures /\ caseFailures' = caseFailures + 1
     /\ UNCHANGED <<store, confirmed>>

\* Store.Create: in immutable mode a case is locked from the start.
NewCase(files) ==
  [notes |-> 0, snapshots |-> 0, pcaps |-> files, locked |-> immutable, exists |-> TRUE]

\* CreateCaseFromFinding, and create_case of a playbook, which lists no files.
Create(id) ==
  /\ ~store[id].exists
  /\ \E files \in {{}, pcaps} : Write(id, NewCase(files))
  /\ UNCHANGED <<pcaps, immutable, task, archive, exports>>

\* Mutant: the lock is not looked at.
UpdatableLocked(id) == store[id].exists /\ Updates(store[id]) < MaxUpdates

\* What Store.Update accepts.
Updatable(id) ==
  store[id].exists /\ ~store[id].locked /\ Updates(store[id]) < MaxUpdates

AddNote(id) ==
  /\ Updatable(id)
  /\ Write(id, [store[id] EXCEPT !.notes = @ + 1])
  /\ UNCHANGED <<pcaps, immutable, task, archive, exports>>

\* Store.Lock; a case that is locked stays as it is.
Lock(id) ==
  /\ store[id].exists /\ ~store[id].locked
  /\ Write(id, [store[id] EXCEPT !.locked = TRUE])
  /\ UNCHANGED <<pcaps, immutable, task, archive, exports>>

\* CaptureCaseTriage checks a copy of the case before it collects.
TriageBegin(a, id) ==
  /\ task[a] = Idle
  /\ store[id].exists /\ ~store[id].locked /\ store[id].snapshots < MaxSnapshots
  /\ task' = [task EXCEPT ![a] = [at |-> "collecting", id |-> id]]
  /\ UNCHANGED <<store, pcaps, immutable, archive, confirmed, exports, caseFailures>>

\* The collection fails (the process is gone, its PID reused, the time over),
\* or AddTriage checks the lock and the limit once more.
TriageEnd(a) ==
  /\ task[a].at = "collecting"
  /\ task' = [task EXCEPT ![a] = Idle]
  /\ LET id == task[a].id IN
     \/ UNCHANGED <<store, confirmed, caseFailures>>
     \/ /\ Updatable(id) /\ store[id].snapshots < MaxSnapshots
        /\ Write(id, [store[id] EXCEPT !.snapshots = @ + 1])
  /\ UNCHANGED <<pcaps, immutable, archive, exports>>

-----------------------------------------------------------------------------
\* Store.Export reads the case and collects its files in a directory of its
\* own, by name and content; a capture that is gone is left out.
Documents(c) ==
  {<<"case.json", Updates(c)>>} \cup {<<"triage", n>> : n \in 1..c.snapshots}
Collect(c) == Documents(c) \cup {<<"pcap", p>> : p \in c.pcaps \cap pcaps}

\* Mutant: the manifest is built before the captures are added.
BuildWithoutPcaps(c) == Documents(c)

\* Signer.Build hashes and signs the files collected.
Build(c) == Collect(c)

ExportBegin(a, id) ==
  /\ task[a] = Idle /\ store[id].exists
  /\ exports < MaxExports /\ exports' = exports + 1
  /\ task' = [task EXCEPT ![a] =
       [at |-> "built", id |-> id, since |-> Updates(store[id]),
        files |-> Collect(store[id]), manifest |-> Build(store[id]), alone |-> TRUE]]
  /\ UNCHANGED <<store, pcaps, immutable, archive, confirmed, caseFailures>>

\* The analysts whose export of the case is under way in the shared file.
Sharing(id) == {a \in Analysts : task[a].at \in {"writing", "serving"} /\ task[a].id = id}

\* OpenFile truncates the archive, whoever is writing it.
ExportOpen(a) ==
  /\ task[a].at = "built"
  /\ LET id == task[a].id
         others == Sharing(id)
         writing == archive[id].writers # {}
     IN
     /\ archive' = [archive EXCEPT ![id] =
          [writers |-> @.writers \cup {a}, mixed |-> writing,
           files |-> task[a].files, manifest |-> task[a].manifest]]
     /\ task' = [b \in Analysts |->
          IF b = a THEN [task[a] EXCEPT !.at = "writing", !.alone = ~writing]
          ELSE IF b \in others THEN [task[b] EXCEPT !.alone = FALSE]
          ELSE task[b]]
  /\ UNCHANGED <<store, pcaps, immutable, confirmed, exports, caseFailures>>

\* The last file is written and the archive closed; or a write fails, and the
\* archive stays as far as it got.
ExportClose(a) ==
  /\ task[a].at = "writing"
  /\ LET id == task[a].id IN
     \/ /\ archive' = [archive EXCEPT ![id].writers = @ \ {a}]
        /\ task' = [task EXCEPT ![a].at = "serving"]
        /\ UNCHANGED caseFailures
     \/ /\ caseFailures < MaxCaseFailures /\ caseFailures' = caseFailures + 1
        /\ archive' = [archive EXCEPT ![id].writers = @ \ {a}, ![id].mixed = TRUE]
        /\ task' = [task EXCEPT ![a] = Idle]
  /\ UNCHANGED <<store, pcaps, immutable, confirmed, exports>>

\* http.ServeFile sends the file there is; a file that is being written, or was
\* written by two, does not open as an archive.
ExportServe(a) ==
  /\ task[a].at = "serving"
  /\ LET z == archive[task[a].id] IN
     task' = [task EXCEPT ![a] =
       [at |-> "served", id |-> @.id, since |-> @.since, alone |-> @.alone,
        whole |-> z.writers = {} /\ ~z.mixed, files |-> z.files, manifest |-> z.manifest]]
  /\ UNCHANGED <<store, pcaps, immutable, archive, confirmed, exports, caseFailures>>

ExportDone(a) ==
  /\ task[a].at = "served"
  /\ task' = [task EXCEPT ![a] = Idle]
  /\ UNCHANGED <<store, pcaps, immutable, archive, confirmed, exports, caseFailures>>

\* The recorder's pruning, or an administrator, removes an evidence file.
PcapGone(p) ==
  /\ pcaps' = pcaps \ {p}
  /\ UNCHANGED <<store, immutable, task, archive, confirmed, exports, caseFailures>>

\* The daemon restarts; what was being written stays as far as it got.
CasesRestart ==
  /\ task' = [a \in Analysts |-> Idle]
  /\ archive' = [id \in CaseIds |->
       [archive[id] EXCEPT !.writers = {}, !.mixed = @ \/ archive[id].writers # {}]]
  /\ UNCHANGED <<store, pcaps, immutable, confirmed, exports, caseFailures>>

CasesNext ==
  \/ \E id \in CaseIds : Create(id) \/ AddNote(id) \/ Lock(id)
  \/ \E a \in Analysts : \/ \E id \in CaseIds : TriageBegin(a, id) \/ ExportBegin(a, id)
                         \/ TriageEnd(a) \/ ExportOpen(a) \/ ExportClose(a)
                         \/ ExportServe(a) \/ ExportDone(a)
  \/ \E p \in pcaps : PcapGone(p)
  \/ CasesRestart

CasesSpec == CasesInit /\ [][CasesNext]_caseVars

-----------------------------------------------------------------------------
\* The types of the cases and of what the handlers hold.
CasesTypeOK ==
  /\ store \in [CaseIds -> [notes : 0..MaxUpdates, snapshots : 0..MaxUpdates,
                            pcaps : SUBSET Pcaps, locked : BOOLEAN, exists : BOOLEAN]]
  /\ pcaps \subseteq Pcaps /\ immutable \in BOOLEAN
  /\ \A a \in Analysts : task[a].at \in
       {"idle", "collecting", "built", "writing", "serving", "served"}
  /\ \A id \in CaseIds : archive[id].writers \subseteq Analysts
  /\ exports \in 0..MaxExports /\ caseFailures \in 0..MaxCaseFailures

\* "security.forensic_immutable protects locked case evidence from destructive
\* workflow changes" (docs/AUTH_SECURITY.md:97) and "a case stores at most eight
\* snapshots" (docs/IMPLEMENTATION_STATUS.md:9): a locked case never changes,
\* whatever was begun before it was locked, the snapshots of two collections
\* that passed the same check stay within the limit, and what was reported as
\* stored is in the case.
CaseKept ==
  /\ [][\A id \in CaseIds : store[id].locked => store'[id] = store[id]]_caseVars
  /\ [](\A id \in CaseIds : /\ store[id].snapshots <= MaxSnapshots
                            /\ Updates(store[id]) = confirmed[id])

\* VerifyManifestFiles: the manifest is signed, and every file it lists is there
\* with that content.
Verifies(served) == served.manifest \subseteq served.files

\* "Signed case exports include each snapshot as triage-NNN.json and cover it
\* with the existing evidence manifest" (docs/IMPLEMENTATION_STATUS.md:9): an
\* export that no other export of the case ran into is a whole archive, whose
\* signed manifest verifies and covers every file in it, and shows the case not
\* older than the request.
ExportSound ==
  \A a \in Analysts :
    task[a].at = "served" /\ task[a].alone =>
      /\ task[a].whole /\ Verifies(task[a]) /\ task[a].files \subseteq task[a].manifest
      /\ <<"case.json", task[a].since>> \in task[a].files
=============================================================================
