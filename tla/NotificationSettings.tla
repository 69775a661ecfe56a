------------------------- MODULE NotificationSettings -------------------------
(***************************************************************************)
(* The settings of the notification manager and the two files they live in *)
(* (internal/notifications/manager.go: Open, Update, key, save, load): the *)
(* sealed settings, written to one temporary name and renamed, and the key *)
(* they are sealed with, made by the first save.  Update changes the       *)
(* settings under the mutex and saves them after it has let the mutex go.  *)
(*                                                                         *)
(* A file is an inode that a name may stand for: a goroutine that has the  *)
(* temporary file open writes to it whatever it has been renamed to.  A    *)
(* file holds "empty", "torn", or a value.                                 *)
(***************************************************************************)
EXTENDS Integers, FiniteSets

CONSTANTS Savers,       \* requests that may call Update
          Preferences,    \* valid settings
          MaxSaves,   \* bound on the calls
          MaxSaveFaults     \* bound on failed writes and crashes together

\* "empty" and "torn" stand for what is no settings.
ASSUME NotificationSettingsAssumption ==
  /\ {MaxSaves, MaxSaveFaults} \subseteq Nat
  /\ Preferences \cap {"empty", "torn"} = {}

VARIABLES memory,     \* m.settings; "default" before any are saved
          keyFile,    \* settings.key: "none", "empty" or a key
          live, temp, \* inodes of settings.enc and settings.enc.tmp, 0 for none
          inode,      \* what the inodes hold
          saver,      \* what every call is doing
          saved,      \* the settings of the last Update that returned success
          updates, saveFaults,
          overlapped, \* did two calls ever run at once (history)
          opened      \* did the last Open succeed
fileVars == <<memory, keyFile, live, temp, inode, saver, saved, updates, saveFaults, overlapped,
              opened>>

Inodes == 1..MaxSaves
CallAt(here, n) == [at |-> here, document |-> "default", key |-> 0, fd |-> 0, call |-> n]
AtRest == CallAt("idle", 0)
Sealed(c) == [document |-> c.document, key |-> c.key]
Blank == [document |-> "empty", key |-> 0]
Mixed == [document |-> "torn", key |-> 0]
Busy == {c \in Savers : saver[c].at # "idle"}

SettingsInit ==
  /\ memory = "default" /\ keyFile = 0 /\ live = 0 /\ temp = 0
  /\ inode = [i \in Inodes |-> Blank]
  /\ saver = [c \in Savers |-> AtRest] /\ saved = "default"
  /\ updates = 0 /\ saveFaults = 0 /\ overlapped = FALSE /\ opened = TRUE

\* Update, as far as the mutex goes; only a manager that opened has one.
SetSettings(c, d) ==
  /\ opened /\ saver[c].at = "idle" /\ updates < MaxSaves
  /\ memory' = d /\ updates' = updates + 1
  /\ saver' = [saver EXCEPT ![c] = CallAt("marshal", updates')]
  /\ overlapped' = (overlapped \/ Busy # {})
  /\ UNCHANGED <<keyFile, live, temp, inode, saved, saveFaults, opened>>

At(c, here) == saver[c].at = here
Goes(c, next) == saver' = [saver EXCEPT ![c] = next]
CallVars == <<memory, updates, overlapped, opened>>

\* save reads the settings under the read lock; a second Update may have come.
Marshal(c) ==
  /\ At(c, "marshal")
  /\ Goes(c, [saver[c] EXCEPT !.at = "key", !.document = memory])
  /\ UNCHANGED <<CallVars, keyFile, live, temp, inode, saved, saveFaults>>

\* key: a file of 32 bytes is the key, any other is an error, and none is made.
\* The keys are numbers; -1 is a file that has been created and not written.
ReadKey(c) ==
  /\ At(c, "key")
  /\ \/ keyFile > 0 /\ Goes(c, [saver[c] EXCEPT !.at = "open", !.key = keyFile])
     \/ keyFile = -1 /\ Goes(c, AtRest)
     \/ keyFile = 0 /\ Goes(c, [saver[c] EXCEPT !.at = "make key"])
  /\ UNCHANGED <<CallVars, keyFile, live, temp, inode, saved, saveFaults>>

MakeKey(c) ==
  /\ At(c, "make key")
  /\ keyFile' = -1 /\ Goes(c, [saver[c] EXCEPT !.at = "write key"])
  /\ UNCHANGED <<CallVars, live, temp, inode, saved, saveFaults>>

FreshKey(c) == saver[c].call
WriteKey(c) ==
  /\ At(c, "write key")
  /\ keyFile' = FreshKey(c)
  /\ Goes(c, [saver[c] EXCEPT !.at = "open", !.key = FreshKey(c)])
  /\ UNCHANGED <<CallVars, live, temp, inode, saved, saveFaults>>

\* Mutant: the settings are written in place, without a temporary file.
OpenInPlace(c) ==
  /\ At(c, "open")
  /\ \E i \in Inodes :
       /\ IF live # 0 THEN i = live ELSE i \notin {live, temp}
       /\ live' = i /\ temp' = i /\ inode' = [inode EXCEPT ![i] = Blank]
       /\ Goes(c, [saver[c] EXCEPT !.at = "write", !.fd = i])
  /\ UNCHANGED <<CallVars, keyFile, saved, saveFaults>>

\* os.WriteFile creates or truncates the temporary file, and writes it.
OpenTemp(c) ==
  /\ At(c, "open")
  /\ \E i \in Inodes :
       /\ IF temp # 0 THEN i = temp ELSE i \notin {live} \cup {saver[e].fd : e \in Savers}
       /\ temp' = i /\ inode' = [inode EXCEPT ![i] = Blank]
       /\ Goes(c, [saver[c] EXCEPT !.at = "write", !.fd = i])
  /\ UNCHANGED <<CallVars, keyFile, live, saved, saveFaults>>

\* A write over what another call wrote leaves either, or a mixture.
WriteTemp(c) ==
  /\ At(c, "write")
  /\ LET i == saver[c].fd IN
     \E content \in {Sealed(saver[c])} \cup (IF inode[i] = Blank THEN {} ELSE {Mixed}) :
       inode' = [inode EXCEPT ![i] = content]
  /\ Goes(c, [saver[c] EXCEPT !.at = "rename"])
  /\ UNCHANGED <<CallVars, keyFile, live, temp, saved, saveFaults>>

\* The write fails, the disk being full, say: the call returns the error.
WriteFails(c) ==
  /\ At(c, "write") /\ saveFaults < MaxSaveFaults /\ saveFaults' = saveFaults + 1
  /\ inode' = [inode EXCEPT ![saver[c].fd] = Mixed]
  /\ Goes(c, AtRest)
  /\ UNCHANGED <<CallVars, keyFile, live, temp, saved>>

\* The rename fails when another call has renamed the file already.
Rename(c) ==
  /\ At(c, "rename")
  /\ IF temp = 0 THEN UNCHANGED <<live, temp, saved>>
     ELSE live' = temp /\ temp' = 0 /\ saved' = saver[c].document
  /\ Goes(c, AtRest)
  /\ UNCHANGED <<CallVars, keyFile, inode, saveFaults>>

-----------------------------------------------------------------------------
\* What load makes of the file.
Loadable == inode[live].document \notin {"empty", "torn"} /\ inode[live].key = keyFile

\* The process dies and starts again.  An Open that fails leaves the engine
\* without a notification manager.
SettingsRestart ==
  /\ saveFaults < MaxSaveFaults /\ saveFaults' = saveFaults + 1
  /\ saver' = [c \in Savers |-> AtRest]
  /\ opened' = (live # 0 => Loadable)
  /\ memory' = IF live # 0 /\ Loadable THEN inode[live].document ELSE "default"
  /\ saved' = memory'
  /\ UNCHANGED <<keyFile, live, temp, inode, updates, overlapped>>

SaveStep(c) ==
  \/ Marshal(c) \/ ReadKey(c) \/ MakeKey(c) \/ WriteKey(c) \/ OpenTemp(c) \/ WriteTemp(c)
  \/ WriteFails(c) \/ Rename(c)

SettingsNext ==
  \/ \E c \in Savers : SaveStep(c) \/ \E d \in Preferences : SetSettings(c, d)
  \/ SettingsRestart

SettingsSpec == SettingsInit /\ [][SettingsNext]_fileVars

-----------------------------------------------------------------------------
Writings == Preferences \cup {"default"}
Calls == [at : {"idle", "marshal", "key", "make key", "write key", "open", "write", "rename"},
          document : Writings, key : 0..MaxSaves, fd : {0} \cup Inodes, call : 0..MaxSaves]
Contents == [document : Writings \cup {"empty", "torn"}, key : 0..MaxSaves]

SettingsTypeOK ==
  /\ memory \in Writings /\ saved \in Writings
  /\ keyFile \in {-1} \cup 0..MaxSaves
  /\ live \in {0} \cup Inodes /\ temp \in {0} \cup Inodes
  /\ inode \in [Inodes -> Contents] /\ saver \in [Savers -> Calls]
  /\ updates \in 0..MaxSaves /\ saveFaults \in 0..MaxSaveFaults
  /\ overlapped \in BOOLEAN /\ opened \in BOOLEAN

\* The settings survive: whatever write fails and wherever the process dies,
\* also while the first save makes the key, the file opens again and holds the
\* settings of the last Update that reported success.  Two Updates at once may
\* break this (the mutex is released before the save, and they share one
\* temporary name): the invariant is about those that do not overlap.
SettingsReadable ==
  ~overlapped => /\ opened
                 /\ live # 0 => Loadable
                 /\ IF live = 0 THEN saved = "default" ELSE inode[live].document = saved
SettingsSurvive == SettingsTypeOK /\ SettingsReadable
=============================================================================
