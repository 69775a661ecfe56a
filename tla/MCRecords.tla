------------------------------ MODULE MCRecords ------------------------------
(* Small instances of AuditLog, Cases, Backups, NotificationSettings,      *)
(* Journals, Baselines and of the two hubs of Intelligence, which share no *)
(* state: the first state chooses the one that makes the steps.            *)
EXTENDS AuditLog, Cases, Backups, NotificationSettings, Journals, Baselines, Intelligence

VARIABLE part

TheOwner == [p \in Programs |-> CHOOSE o \in Owners : TRUE]
TheDirectory(p) == IF p = "auth/users" THEN "auth" ELSE "cases"
\* The packages and the catalog overlap in three names.
TheOverlaps == {<<"nginx", "cve1">>, <<"nginx", "cve2">>, <<"httpd", "cve2">>}
ThePaths == <<"auth/users", "cases/a", "cases/b">>

Parts == {"audit", "cases", "backups", "settings", "journals", "baselines", "indicators",
          "catalog"}
PartInit ==
  /\ part \in Parts
  /\ Init /\ CasesInit /\ BackupInit /\ SettingsInit
  /\ JournalsInit /\ BaselinesInit /\ IntelligenceInit
  /\ part # "indicators" => stixFile = {}
  /\ part # "catalog" => kevFile = {} /\ installed = {}
  /\ part # "journals" => journal = "analytics"
  /\ part # "cases" => ~immutable
  /\ part # "backups" => data = [p \in Files |-> 0]

Still(p) ==
  CASE p = "audit" -> UNCHANGED vars
    [] p = "cases" -> UNCHANGED caseVars
    [] p = "backups" -> UNCHANGED backupVars
    [] p = "settings" -> UNCHANGED fileVars
    [] p = "journals" -> UNCHANGED journalVars
    [] p = "baselines" -> UNCHANGED baselineVars
    [] p \in {"indicators", "catalog"} ->
         part \notin {"indicators", "catalog"} => UNCHANGED intelligenceVars
PartNext ==
  /\ UNCHANGED part
  /\ \/ part = "audit" /\ Next
     \/ part = "cases" /\ CasesNext
     \/ part = "backups" /\ BackupNext
     \/ part = "settings" /\ SettingsNext
     \/ part = "journals" /\ JournalsNext
     \/ part = "baselines" /\ BaselinesNext
     \/ part = "indicators" /\ IndicatorsNext
     \/ part = "catalog" /\ CatalogNext
  /\ \A p \in Parts \ {part} : Still(p)

PartSpec ==
  PartInit /\ [][PartNext]_<<part, vars, caseVars, backupVars, fileVars, journalVars,
                             baselineVars, intelligenceVars>>

-----------------------------------------------------------------------------
\* What leaves the program and is to come back: exports of cases and backups.
ArchivesExact == CasesTypeOK /\ BackupTypeOK /\ ExportSound /\ BackupExact
=============================================================================
