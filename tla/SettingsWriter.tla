--------------------------- MODULE SettingsWriter ---------------------------
(***************************************************************************)
(* `optiflow install --statusline` and `optiflow uninstall` over a Claude  *)
(* Code settings.json (install/settings-writer.ts): one command at a time, *)
(* in the steps it takes on the files, while the user and Claude Code      *)
(* rewrite the same file whenever they like and any command may be killed. *)
(*                                                                         *)
(* A file is the version of the user's own keys and whose statusLine it    *)
(* holds.  Version 0 is no key at all, so an empty file, which is read as  *)
(* {}, is the file of version 0 without a statusLine.  A command that      *)
(* answers already-active, refused, missing or nothing to remove, or that  *)
(* throws on its first read, writes nothing and is not a step here.        *)
(***************************************************************************)
EXTENDS Naturals, FiniteSetsExt

CONSTANTS
  NoFile,       \* settings.json, or the backup of that moment, does not exist
  Torn,         \* a file that is not valid JSON
  MaxEdits,     \* bound: versions of the user's own keys
  MaxCommands,  \* bound: commands that get as far as writing
  MayBeKilled,  \* a command may end between any two of its steps
  MayRace       \* the user may write while a command runs

Lines == {"none", "ours", "foreign"}
Contents == [keys : 0..MaxEdits, line : Lines]
Files == Contents \cup {NoFile, Torn}

ASSUME SettingsAssumption ==
  /\ MaxEdits \in Nat \ {0}
  /\ MaxCommands \in Nat
  /\ MayBeKilled \in BOOLEAN
  /\ MayRace \in BOOLEAN
  /\ NoFile # Torn
  /\ {NoFile, Torn} \cap Contents = {}

VARIABLES
  settings,   \* settings.json
  backups,    \* .optiflow-backup-<ms>: a command copies once, at its own ms
  snapshots,  \* .optiflow-prerestore-<ms>
  now,        \* the ms of the running command; commands start in different ms
  cli,        \* the running command
  edits,      \* versions the user has written
  mine,       \* history: the file as the user, or Claude Code, last left it
  raced,      \* history: it was written between a command's copy and rename
  writer,     \* history: who wrote settings.json, or set out to, last
  replaced    \* history: what the install in force replaced, Torn if unknown

vars == <<settings, backups, snapshots, now, cli, edits, mine, raced, writer, replaced>>
history == <<mine, raced, writer, replaced>>

Moments == 0..MaxCommands
Idle == [pc |-> "idle", line |-> "none", data |-> [keys |-> 0, line |-> "none"], from |-> 0]
Commands == [pc : {"idle", "read", "copy", "rename", "snapshot", "restore"},
             line : Lines, data : Contents, from : Moments]

TypeOK ==
  /\ settings \in Files
  /\ backups \in [Moments -> Files]
  /\ snapshots \in [Moments -> Files]
  /\ now \in Moments
  /\ cli \in Commands
  /\ edits \in 1..MaxEdits
  /\ mine \in Files
  /\ raced \in BOOLEAN
  /\ writer \in {"user", "install", "uninstall"}
  /\ replaced \in Files

Init ==
  /\ settings \in {NoFile} \cup [keys : {1}, line : {"none", "foreign"}]
  /\ backups = [t \in Moments |-> NoFile]
  /\ snapshots = [t \in Moments |-> NoFile]
  /\ now = 0
  /\ cli = Idle
  /\ edits = 1
  /\ mine = settings
  /\ raced = FALSE
  /\ writer = "user"
  /\ replaced = Torn

-----------------------------------------------------------------------------
(* The primitives: read, copy, find the newest backup.                     *)

\* readSettingsFile of a file that parses: a missing one is {}.
Read(f) == IF f = NoFile THEN Idle.data ELSE f

\* backupSettingsFile: nothing to copy when the file is missing.
CopyTo(files) == IF settings = NoFile THEN files ELSE [files EXCEPT ![now] = settings]

\* A slip in findLatestBackup: the smallest timestamp instead of the largest.
OldestBackup == Min({t \in Moments : backups[t] # NoFile})

HasBackup == \E t \in Moments : backups[t] # NoFile
LatestBackup == Max({t \in Moments : backups[t] # NoFile})

\* The ms a command starts in: later than that of every earlier command.
Start(command) ==
  /\ cli = Idle
  /\ now < MaxCommands
  /\ now' = now + 1
  /\ cli' = command

-----------------------------------------------------------------------------
(* The commands.                                                           *)

\* setOptiflowStatusLine up to writeSettingsKey.
Install(force) ==
  /\ settings # Torn
  /\ \/ Read(settings).line = "none"
     \/ Read(settings).line = "foreign" /\ force
  /\ Start([Idle EXCEPT !.pc = "read", !.line = "ours"])
  /\ writer' = "install"
  /\ UNCHANGED <<settings, backups, snapshots, edits, mine, raced, replaced>>

\* A slip in uninstallOptiflowStatusLine: the backups are looked at first.
UninstallBackupsFirst(force) ==
  /\ settings \notin {NoFile, Torn}
  /\ \/ settings.line = "ours" \/ force
     \/ settings.line = "none" /\ HasBackup
  /\ Start(IF HasBackup THEN [Idle EXCEPT !.pc = "snapshot", !.from = LatestBackup]
                        ELSE [Idle EXCEPT !.pc = "read"])
  /\ UNCHANGED <<settings, backups, snapshots, edits, history>>

\* uninstallOptiflowStatusLine up to restoreSettingsBackup or removeSettingsKey.
Uninstall(force) ==
  /\ settings \notin {NoFile, Torn}
  /\ settings.line # "none"
  /\ settings.line = "ours" \/ force
  /\ Start(IF HasBackup THEN [Idle EXCEPT !.pc = "snapshot", !.from = LatestBackup]
                        ELSE [Idle EXCEPT !.pc = "read"])
  /\ UNCHANGED <<settings, backups, snapshots, edits, history>>

\* A slip in readSettingsFile: what does not parse is not refused.
ReadAgainUnparsed ==
  /\ cli.pc = "read"
  /\ cli' = IF cli.line = "none" /\ Read(settings) = Idle.data
            THEN Idle ELSE [cli EXCEPT !.pc = "copy", !.data = Read(settings)]
  /\ UNCHANGED <<settings, backups, snapshots, now, edits, history>>

\* writeSettingsKey and removeSettingsKey read the file again; it may not parse
\* any more, or no longer hold the key to remove.
ReadAgain ==
  /\ cli.pc = "read"
  /\ cli' = IF settings = Torn \/ (cli.line = "none" /\ Read(settings).line = "none")
            THEN Idle ELSE [cli EXCEPT !.pc = "copy", !.data = Read(settings)]
  /\ UNCHANGED <<settings, backups, snapshots, now, edits, history>>

\* A slip in writeSettingsKey: no backup before the write.
CopyForgotten ==
  /\ cli.pc = "copy"
  /\ cli' = [cli EXCEPT !.pc = "rename"]
  /\ UNCHANGED <<settings, backups, snapshots, now, edits, history>>

Copy ==
  /\ cli.pc = "copy"
  /\ backups' = CopyTo(backups)
  /\ cli' = [cli EXCEPT !.pc = "rename"]
  /\ UNCHANGED <<settings, snapshots, now, edits, history>>

\* atomicWriteFile of what was read, with the key set or removed.  Only an
\* install whose copy is what it overwrites can be undone to the letter.
Rename ==
  /\ cli.pc = "rename"
  /\ settings' = [cli.data EXCEPT !.line = cli.line]
  /\ cli' = Idle
  /\ writer' = IF cli.line = "ours" THEN "install" ELSE "uninstall"
  /\ replaced' = IF cli.line = "ours" /\ backups[now] = settings /\ settings # NoFile
                 THEN settings ELSE Torn
  /\ UNCHANGED <<backups, snapshots, now, edits, mine, raced>>

\* A slip in restoreSettingsBackup: the snapshot joins the restorable backups.
SnapshotAmongBackups ==
  /\ cli.pc = "snapshot"
  /\ backups' = CopyTo(backups)
  /\ cli' = [cli EXCEPT !.pc = "restore"]
  /\ UNCHANGED <<settings, snapshots, now, edits, history>>

Snapshot ==
  /\ cli.pc = "snapshot"
  /\ snapshots' = CopyTo(snapshots)
  /\ cli' = [cli EXCEPT !.pc = "restore"]
  /\ UNCHANGED <<settings, backups, now, edits, history>>

\* The rest of restoreSettingsBackup: the backup is not looked into.
Restore ==
  /\ cli.pc = "restore"
  /\ settings' = backups[cli.from]
  /\ cli' = Idle
  /\ writer' = "uninstall"
  /\ replaced' = Torn
  /\ UNCHANGED <<backups, snapshots, now, edits, mine, raced>>

-----------------------------------------------------------------------------
(* The surroundings.                                                       *)

\* A process killed in copyFileSync leaves a copy that ends early: it does not
\* parse, or is empty.  A temporary file left behind has a name of its own.
Killed ==
  /\ MayBeKilled
  /\ cli # Idle
  /\ cli' = Idle
  /\ \/ UNCHANGED <<backups, snapshots>>
     \/ \E torn \in {Torn, Idle.data} :
          /\ settings # NoFile
          /\ \/ cli.pc = "copy" /\ backups' = [backups EXCEPT ![now] = torn] /\ UNCHANGED snapshots
             \/ cli.pc = "snapshot" /\ snapshots' = [snapshots EXCEPT ![now] = torn]
                                    /\ UNCHANGED backups
  /\ UNCHANGED <<settings, now, edits, history>>

\* The user, or Claude Code, rewrites the file, sets the statusline by hand
\* (docs/statusline-manual-setup.md), breaks the JSON or deletes the file.
UserWrites ==
  /\ cli = Idle \/ MayRace
  /\ edits < MaxEdits
  /\ edits' = edits + 1
  /\ settings' \in {NoFile, Torn} \cup [keys : {edits + 1}, line : Lines]
  /\ mine' = settings'
  /\ raced' = (cli.pc \in {"rename", "restore"})
  /\ writer' = "user"
  /\ replaced' = Torn
  /\ UNCHANGED <<backups, snapshots, now, cli>>

Next ==
  \/ \E force \in BOOLEAN : Install(force) \/ Uninstall(force)
  \/ ReadAgain \/ Copy \/ Rename \/ Snapshot \/ Restore
  \/ Killed
  \/ UserWrites

Spec == Init /\ [][Next]_vars

-----------------------------------------------------------------------------
(* Properties.                                                             *)

\* Whatever sequence of installs, uninstalls and kills follows, the file the
\* user last left is still somewhere, whole: in settings.json, in a backup or in
\* a pre-restore snapshot (copy before every write).  The exception is a file
\* written in the window between a command's copy and its rename.
LastUserFileKept ==
  \/ raced
  \/ mine = settings
  \/ \E t \in Moments : mine \in {backups[t], snapshots[t]}

\* An uninstall that runs while nobody has written since the install gives back
\* the very file the install replaced, other keys and foreign statusLine
\* included, however many commands were killed in between
\* (uninstallOptiflowStatusLine: "whole-file restore from it").
InstallReversible ==
  [][(writer' = "uninstall" /\ writer # "uninstall" /\ replaced # Torn)
       => settings' = replaced]_vars

\* Uninstalling again, with no write and no install in between, changes nothing
\* (uninstallOptiflowStatusLine: "repeated `uninstall` calls converge").
UninstallSettles ==
  [][(writer = "uninstall" /\ writer' = "uninstall") => settings' = settings]_vars

\* Once an uninstall has finished, and until someone else writes, the statusLine
\* is not optiflow's ("Reverses `setOptiflowStatusLine`").
UninstallRemoves ==
  (writer = "uninstall" /\ settings \notin {NoFile, Torn}) => settings.line # "ours"
=============================================================================
