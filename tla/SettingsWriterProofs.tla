------------------------ MODULE SettingsWriterProofs ------------------------
(***************************************************************************)
(* What the settings writer guarantees for any number of edits and         *)
(* commands, wherever commands are killed and whenever the user writes.    *)
(***************************************************************************)
EXTENDS SettingsWriter, TLAPS

LEMMA BlankContent == Idle.data \in Contents /\ Idle \in Commands
BY SettingsAssumption DEF Idle, Contents, Commands, Lines, Moments

LEMMA ReadContent ==
  ASSUME NEW f \in Files, f # Torn
  PROVE  Read(f) \in Contents
BY BlankContent DEF Read, Files

LEMMA CopyType ==
  ASSUME TypeOK, NEW files \in [Moments -> Files]
  PROVE  CopyTo(files) \in [Moments -> Files]
BY DEF CopyTo, TypeOK

\* The newest backup, named without a choice.
Newest(t) ==
  /\ t \in Moments
  /\ backups[t] # NoFile
  /\ \A u \in Moments : u > t => backups[u] = NoFile

LEMMA NewestIsLatest ==
  ASSUME NEW t, Newest(t)
  PROVE  HasBackup /\ LatestBackup = t
<1> DEFINE S == {u \in Moments : backups[u] # NoFile}
<1>1. t \in S /\ \A u \in S : t >= u
  BY SettingsAssumption DEF Newest, Moments
<1>2. \A x \in S : (\A u \in S : x >= u) => x = t
  BY <1>1, SettingsAssumption DEF Moments
<1>3. Max(S) = t
  BY <1>1, <1>2 DEF Max
<1> QED BY <1>1, <1>3 DEF HasBackup, LatestBackup

-----------------------------------------------------------------------------
(* Every moment is copied to once, and only by the command of that moment. *)

Fresh ==
  /\ \A t \in Moments : t = 0 \/ t > now => backups[t] = NoFile /\ snapshots[t] = NoFile
  /\ cli.pc # "idle" => now > 0
  /\ cli.pc \in {"read", "copy", "snapshot"} => backups[now] = NoFile /\ snapshots[now] = NoFile
  /\ HasBackup => \E t : Newest(t)
  /\ cli.line \in {"none", "ours"}
  /\ cli.pc \in {"snapshot", "restore"} => Newest(cli.from) /\ backups[now] = NoFile

TypedInv == TypeOK /\ Fresh

LEMMA TypedInit == Init => TypedInv
<1> SUFFICES ASSUME Init PROVE TypedInv
  OBVIOUS
<1>1. TypeOK
  <2>1. settings \in Files
    <3>1. [keys : {1}, line : {"none", "foreign"}] \subseteq Contents
      BY SettingsAssumption DEF Contents, Lines
    <3> QED BY <3>1 DEF Init, Files
  <2>2. 0 \in Moments /\ 1 \in 1..MaxEdits
    BY SettingsAssumption DEF Moments
  <2> QED BY <2>1, <2>2, BlankContent DEF Init, TypeOK, Files
<1>2. Fresh
  BY SettingsAssumption DEF Init, Fresh, HasBackup, Moments, Idle
<1> QED BY <1>1, <1>2 DEF TypedInv

LEMMA StartType ==
  ASSUME TypeOK, NEW command \in Commands, Start(command)
  PROVE  now' \in Moments /\ now' = now + 1 /\ cli' = command /\ cli' \in Commands /\ cli = Idle
BY SettingsAssumption DEF Start, TypeOK, Moments

LEMMA TypedInstall ==
  ASSUME TypedInv, NEW force \in BOOLEAN, Install(force)
  PROVE  TypedInv'
<1> DEFINE c == [Idle EXCEPT !.pc = "read", !.line = "ours"]
<1>1. c \in Commands
  BY BlankContent DEF Idle, Commands, Lines
<1>2. now' \in Moments /\ now' = now + 1 /\ cli' = c /\ cli = Idle
  BY <1>1, StartType DEF Install, TypedInv
<1>3. TypeOK'
  BY <1>1, <1>2 DEF Install, TypedInv, TypeOK
<1>4. Fresh'
  BY <1>2, SettingsAssumption DEF Install, TypedInv, TypeOK, Fresh, HasBackup, Newest, Idle, Moments
<1> QED BY <1>3, <1>4 DEF TypedInv

LEMMA UninstallStarts ==
  ASSUME TypedInv, NEW force \in BOOLEAN, Uninstall(force)
  PROVE  /\ now' \in Moments /\ now' = now + 1 /\ cli = Idle /\ cli' \in Commands
         /\ \/ ~HasBackup /\ cli' = [Idle EXCEPT !.pc = "read"]
            \/ /\ HasBackup
               /\ Newest(LatestBackup)
               /\ cli' = [Idle EXCEPT !.pc = "snapshot", !.from = LatestBackup]
<1>1. CASE HasBackup
  <2>1. Newest(LatestBackup)
    BY <1>1, NewestIsLatest DEF TypedInv, Fresh
  <2> DEFINE c == [Idle EXCEPT !.pc = "snapshot", !.from = LatestBackup]
  <2>2. c \in Commands
    BY <2>1, BlankContent DEF Idle, Commands, Newest
  <2>3. Start(c)
    BY <1>1 DEF Uninstall
  <2> QED BY <1>1, <2>1, <2>2, <2>3, StartType DEF TypedInv
<1>2. CASE ~HasBackup
  <2> DEFINE c == [Idle EXCEPT !.pc = "read"]
  <2>1. c \in Commands
    BY BlankContent DEF Idle, Commands
  <2>2. Start(c)
    BY <1>2 DEF Uninstall
  <2> QED BY <1>2, <2>1, <2>2, StartType DEF TypedInv
<1> QED BY <1>1, <1>2

LEMMA TypedUninstall ==
  ASSUME TypedInv, NEW force \in BOOLEAN, Uninstall(force)
  PROVE  TypedInv'
<1>1. TypeOK'
  BY UninstallStarts DEF Uninstall, TypedInv, TypeOK, history
<1>2. Fresh'
  <2>1. UNCHANGED <<backups, snapshots>>
    BY DEF Uninstall
  <2>2. now' > 0 /\ \A t \in Moments : t = 0 \/ t > now' => t = 0 \/ t > now
    BY UninstallStarts, SettingsAssumption DEF TypedInv, TypeOK, Moments
  <2>3. backups[now'] = NoFile /\ snapshots[now'] = NoFile
    BY UninstallStarts, SettingsAssumption DEF TypedInv, TypeOK, Fresh, Moments
  <2>4. cli'.pc \in {"snapshot", "restore"} => Newest(cli'.from)
    BY UninstallStarts DEF Idle
  <2>5. cli'.line = "none"
    BY UninstallStarts DEF Idle
  <2> QED BY <2>1, <2>2, <2>3, <2>4, <2>5 DEF TypedInv, Fresh, HasBackup, Newest
<1> QED BY <1>1, <1>2 DEF TypedInv

LEMMA TypedReadAgain ==
  ASSUME TypedInv, ReadAgain
  PROVE  TypedInv'
<1>1. cli' \in Commands /\ cli'.pc \in {"idle", "copy"} /\ cli'.line \in {"none", cli.line}
  <2>1. CASE cli' = Idle
    BY <2>1, BlankContent DEF Idle
  <2>2. CASE settings # Torn /\ cli' = [cli EXCEPT !.pc = "copy", !.data = Read(settings)]
    BY <2>2, ReadContent DEF TypedInv, TypeOK, Commands
  <2> QED BY <2>1, <2>2 DEF ReadAgain
<1>2. TypeOK'
  BY <1>1 DEF ReadAgain, TypedInv, TypeOK, history
<1>3. Fresh'
  BY <1>1 DEF ReadAgain, TypedInv, Fresh, HasBackup, Newest
<1> QED BY <1>2, <1>3 DEF TypedInv

\* What a copy, whole or torn, leaves in the backups.
LEMMA CopyFresh ==
  ASSUME TypedInv, cli.pc = "copy", NEW f \in Files,
         backups' \in {backups, [backups EXCEPT ![now] = f]}
  PROVE  /\ \A t \in Moments : t # now => backups'[t] = backups[t]
         /\ HasBackup' => \E t : Newest(t)'
<1>1. now \in Moments /\ backups \in [Moments -> Files]
  BY DEF TypedInv, TypeOK
<1>2. CASE backups' = backups
  BY <1>2 DEF TypedInv, Fresh, HasBackup, Newest
<1>3. CASE backups' = [backups EXCEPT ![now] = f] /\ f # NoFile
  <2>1. \A t \in Moments : t # now => backups'[t] = backups[t]
    BY <1>1, <1>3
  <2>2. backups'[now] # NoFile
    BY <1>1, <1>3
  <2>3. \A u \in Moments : u > now => backups'[u] = NoFile
    BY <1>1, <2>1 DEF TypedInv, Fresh, Moments
  <2> QED BY <1>1, <2>1, <2>2, <2>3 DEF Newest
<1>4. CASE backups' = [backups EXCEPT ![now] = NoFile]
  <2>1. backups' = backups
    BY <1>1, <1>4 DEF TypedInv, Fresh
  <2> QED BY <1>2, <2>1
<1> QED BY <1>2, <1>3, <1>4

LEMMA TypedCopy ==
  ASSUME TypedInv, Copy
  PROVE  TypedInv'
<1>1. TypeOK'
  BY CopyType DEF Copy, TypedInv, TypeOK, Commands, history
<1>2. backups' \in {backups, [backups EXCEPT ![now] = settings]} /\ settings \in Files
  BY DEF Copy, CopyTo, TypedInv, TypeOK
<1>3. /\ \A t \in Moments : t # now => backups'[t] = backups[t]
      /\ HasBackup' => \E t : Newest(t)'
  BY <1>2, CopyFresh DEF Copy
<1>4. cli'.pc = "rename" /\ cli'.line = cli.line /\ now' = now /\ snapshots' = snapshots /\ now > 0
  BY DEF Copy, TypedInv, TypeOK, Commands, Fresh
<1>5. \A t \in Moments : t = 0 \/ t > now => t # now
  BY <1>4 DEF TypedInv, TypeOK, Moments
<1> QED BY <1>1, <1>3, <1>4, <1>5 DEF TypedInv, Fresh

LEMMA TypedRename ==
  ASSUME TypedInv, Rename
  PROVE  TypedInv'
<1>1. TypeOK'
  BY BlankContent DEF Rename, TypedInv, TypeOK, Commands, Files, Contents
<1>2. Fresh'
  BY DEF Rename, TypedInv, Fresh, HasBackup, Newest, Idle
<1> QED BY <1>1, <1>2 DEF TypedInv

LEMMA TypedSnapshot ==
  ASSUME TypedInv, Snapshot
  PROVE  TypedInv'
<1>1. TypeOK'
  BY CopyType DEF Snapshot, TypedInv, TypeOK, Commands, history
<1>2. \A t \in Moments : t # now => snapshots'[t] = snapshots[t]
  BY DEF Snapshot, CopyTo, TypedInv, TypeOK
<1>3. cli'.pc = "restore" /\ cli'.from = cli.from /\ now' = now /\ backups' = backups /\ now > 0
  BY DEF Snapshot, TypedInv, TypeOK, Commands, Fresh
<1>4. \A t \in Moments : t = 0 \/ t > now => t # now
  BY <1>3 DEF TypedInv, TypeOK, Moments
<1> QED BY <1>1, <1>2, <1>3, <1>4 DEF TypedInv, Fresh, HasBackup, Newest, Snapshot

LEMMA TypedRestore ==
  ASSUME TypedInv, Restore
  PROVE  TypedInv'
<1>1. TypeOK'
  BY BlankContent DEF Restore, TypedInv, TypeOK, Commands, Files
<1>2. Fresh'
  BY DEF Restore, TypedInv, Fresh, HasBackup, Newest, Idle
<1> QED BY <1>1, <1>2 DEF TypedInv

LEMMA TypedKilled ==
  ASSUME TypedInv, Killed
  PROVE  TypedInv'
<1>1. cli' = Idle /\ UNCHANGED <<settings, now, edits, history>>
  BY DEF Killed
<1>2. PICK torn \in {Torn, Idle.data} :
        \/ UNCHANGED <<backups, snapshots>>
        \/ cli.pc = "copy" /\ backups' = [backups EXCEPT ![now] = torn] /\ UNCHANGED snapshots
        \/ cli.pc = "snapshot" /\ snapshots' = [snapshots EXCEPT ![now] = torn] /\ UNCHANGED backups
  BY DEF Killed
<1>3. torn \in Files
  BY BlankContent DEF Files
<1>4. TypeOK'
  BY <1>1, <1>2, <1>3, BlankContent DEF TypedInv, TypeOK, history
<1>5. HasBackup' => \E t : Newest(t)'
  <2>1. CASE backups' = backups
    BY <2>1 DEF TypedInv, Fresh, HasBackup, Newest
  <2>2. CASE cli.pc = "copy" /\ backups' = [backups EXCEPT ![now] = torn]
    BY <2>2, <1>3, CopyFresh
  <2> QED BY <1>2, <2>1, <2>2
<1>6. \A t \in Moments : t = 0 \/ t > now => backups'[t] = backups[t] /\ snapshots'[t] = snapshots[t]
  <2>1. CASE UNCHANGED <<backups, snapshots>>
    BY <2>1
  <2>2. CASE cli.pc \in {"copy", "snapshot"}
    <3>1. now \in Moments /\ now > 0 /\ \A t \in Moments : t = 0 \/ t > now => t # now
      BY <2>2 DEF TypedInv, TypeOK, Fresh, Moments
    <3> QED BY <1>2, <3>1 DEF TypedInv, TypeOK
  <2> QED BY <1>2, <2>1, <2>2
<1>7. cli'.pc = "idle" /\ cli'.line = "none"
  BY <1>1 DEF Idle
<1>8. Fresh'
  BY <1>1, <1>5, <1>6, <1>7 DEF TypedInv, Fresh
<1> QED BY <1>4, <1>8 DEF TypedInv

LEMMA TypedUser ==
  ASSUME TypedInv, UserWrites
  PROVE  TypedInv'
<1>1. edits' \in 1..MaxEdits
  BY SettingsAssumption DEF UserWrites, TypedInv, TypeOK
<1>2. settings' \in Files
  BY <1>1 DEF UserWrites, Files, Contents
<1>3. TypeOK'
  BY <1>1, <1>2 DEF UserWrites, TypedInv, TypeOK, Files
<1>4. Fresh'
  BY DEF UserWrites, TypedInv, Fresh, HasBackup, Newest
<1> QED BY <1>3, <1>4 DEF TypedInv

LEMMA TypedStep ==
  ASSUME TypedInv, [Next]_vars
  PROVE  TypedInv'
<1>1. CASE UNCHANGED vars
  BY <1>1 DEF vars, TypedInv, TypeOK, Fresh, HasBackup, Newest
<1> QED BY <1>1, TypedInstall, TypedUninstall, TypedReadAgain, TypedCopy, TypedRename,
           TypedSnapshot, TypedRestore, TypedKilled, TypedUser DEF Next

\* Every reachable state has its types.
THEOREM TypeCorrect == Spec => []TypeOK
<1>1. TypedInv => TypeOK
  BY DEF TypedInv
<1> QED BY <1>1, TypedInit, TypedStep, PTL DEF Spec

-----------------------------------------------------------------------------
(* The user's file.                                                        *)

Kept == \E t \in Moments : mine \in {backups[t], snapshots[t]}

KeepInv ==
  /\ raced \/ mine = settings \/ Kept
  /\ cli.pc \in {"rename", "restore"} => raced \/ Kept

\* No step but the user's own write loses a copy.
LEMMA CopiesStay ==
  ASSUME TypedInv, Next, ~UserWrites
  PROVE  \A t \in Moments : /\ backups[t] # NoFile => backups'[t] = backups[t]
                            /\ snapshots[t] # NoFile => snapshots'[t] = snapshots[t]
<1>1. CASE UNCHANGED <<backups, snapshots>>
  BY <1>1
<1>2. CASE Copy
  BY <1>2 DEF Copy, CopyTo, TypedInv, TypeOK, Fresh
<1>3. CASE Snapshot
  BY <1>3 DEF Snapshot, CopyTo, TypedInv, TypeOK, Fresh
<1>4. CASE Killed
  BY <1>4 DEF Killed, TypedInv, TypeOK, Fresh
<1> QED BY <1>1, <1>2, <1>3, <1>4 DEF Next, Install, Uninstall, ReadAgain, Rename, Restore

LEMMA KeptStays ==
  ASSUME TypedInv, Next, ~UserWrites
  PROVE  mine' = mine /\ raced' = raced /\ (Kept => Kept')
<1>1. mine' = mine /\ raced' = raced
  BY DEF Next, Install, Uninstall, ReadAgain, Copy, Rename, Snapshot, Restore, Killed, history
<1>2. TypedInv'
  BY TypedStep
<1>3. ASSUME Kept PROVE Kept'
  <2>1. CASE mine = NoFile
    <3>1. 0 \in Moments /\ backups'[0] = NoFile
      BY <1>2, SettingsAssumption DEF TypedInv, Fresh, Moments
    <3> QED BY <1>1, <2>1, <3>1 DEF Kept
  <2>2. CASE mine # NoFile
    BY <1>1, <1>3, <2>2, CopiesStay DEF Kept
  <2> QED BY <2>1, <2>2
<1> QED BY <1>1, <1>3

\* A copy of the file the user left makes it kept.
LEMMA CopyKeeps ==
  ASSUME TypedInv, Copy \/ Snapshot, mine = settings
  PROVE  Kept'
<1>1. mine' = mine /\ now \in Moments
  BY DEF Copy, Snapshot, history, TypedInv, TypeOK
<1>2. CASE settings = NoFile
  <2>1. TypedInv'
    BY TypedCopy, TypedSnapshot
  <2>2. 0 \in Moments /\ backups'[0] = NoFile
    BY <2>1, SettingsAssumption DEF TypedInv, Fresh, Moments
  <2> QED BY <1>1, <1>2, <2>2 DEF Kept
<1>3. CASE settings # NoFile /\ Copy
  <2>1. backups'[now] = mine'
    BY <1>1, <1>3 DEF Copy, CopyTo, TypedInv, TypeOK
  <2> QED BY <1>1, <2>1 DEF Kept
<1>4. CASE settings # NoFile /\ Snapshot
  <2>1. snapshots'[now] = mine'
    BY <1>1, <1>4 DEF Snapshot, CopyTo, TypedInv, TypeOK
  <2> QED BY <1>1, <2>1 DEF Kept
<1> QED BY <1>2, <1>3, <1>4

LEMMA KeepStep ==
  ASSUME TypedInv, KeepInv, [Next]_vars
  PROVE  KeepInv'
<1>1. CASE UNCHANGED vars
  BY <1>1 DEF vars, KeepInv, Kept
<1>2. CASE UserWrites
  BY <1>2 DEF UserWrites, KeepInv, TypedInv, TypeOK
<1>3. CASE Next /\ ~UserWrites
  <2> USE <1>3, KeptStays
  <2>1. CASE Copy \/ Snapshot
    BY <2>1, CopyKeeps DEF KeepInv, Copy, Snapshot
  <2>2. CASE Rename \/ Restore
    BY <2>2 DEF KeepInv, Rename, Restore, Idle
  <2>3. ASSUME NEW force \in BOOLEAN, Install(force) \/ Uninstall(force) PROVE KeepInv'
    <3>1. settings' = settings /\ cli'.pc \in {"read", "snapshot"}
      BY <2>3, UninstallStarts DEF Install, Uninstall, Start, Idle
    <3> QED BY <3>1 DEF KeepInv
  <2>4. CASE ReadAgain
    <3>1. settings' = settings /\ cli'.pc \in {"idle", "copy"}
      BY <2>4 DEF ReadAgain, Idle, TypedInv, TypeOK, Commands
    <3> QED BY <3>1 DEF KeepInv
  <2>5. CASE Killed
    BY <2>5 DEF KeepInv, Killed, Idle
  <2> QED BY <2>1, <2>2, <2>3, <2>4, <2>5 DEF Next
<1> QED BY <1>1, <1>2, <1>3

\* Whatever is installed, uninstalled or killed, the file the user last left
\* survives whole, unless it was written between a copy and its rename.
THEOREM UserFileSurvives == Spec => []LastUserFileKept
<1>1. Init => KeepInv
  BY DEF Init, KeepInv, Idle
<1>2. KeepInv => LastUserFileKept
  BY DEF KeepInv, Kept, LastUserFileKept
<1> QED BY <1>1, <1>2, KeepStep, TypedInit, TypedStep, PTL DEF Spec

-----------------------------------------------------------------------------
(* Undoing an install.                                                     *)

ReverseInv ==
  replaced # Torn =>
    /\ writer = "install"
    /\ settings \notin {NoFile, Torn} /\ settings.line = "ours"
    /\ cli.pc \in {"idle", "snapshot", "restore"}
    /\ \E t : Newest(t) /\ backups[t] = replaced

SettleInv ==
  writer = "uninstall" =>
    /\ cli.pc \in {"idle", "snapshot", "restore"}
    /\ \/ cli.pc = "idle" /\ settings = Torn
       \/ cli.pc = "idle" /\ settings \in Contents /\ settings.line = "none"
       \/ \E t : Newest(t) /\ settings = backups[t]

LEMMA OneNewest ==
  ASSUME NEW t, NEW u, Newest(t), Newest(u)
  PROVE  t = u
BY NewestIsLatest

\* Restore puts the newest backup back.
LEMMA RestoresNewest ==
  ASSUME TypedInv, Restore, NEW t, Newest(t)
  PROVE  settings' = backups[t]
<1>1. Newest(cli.from)
  BY DEF Restore, TypedInv, Fresh
<1> QED BY <1>1, OneNewest DEF Restore

LEMMA RenameWrites ==
  ASSUME TypedInv, Rename
  PROVE  /\ settings' \in Contents /\ settings' \notin {NoFile, Torn}
         /\ settings'.line = cli.line
         /\ cli'.pc = "idle"
BY SettingsAssumption DEF Rename, TypedInv, TypeOK, Commands, Contents, Idle

LEMMA ReverseStep ==
  ASSUME TypedInv, ReverseInv, [Next]_vars
  PROVE  ReverseInv'
<1>1. CASE UNCHANGED vars
  BY <1>1 DEF vars, ReverseInv, Newest
<1>2. CASE UserWrites
  BY <1>2 DEF UserWrites, ReverseInv
<1>3. CASE Restore
  BY <1>3 DEF Restore, ReverseInv
<1>4. CASE Rename
  <2> SUFFICES ASSUME replaced' # Torn PROVE ReverseInv'
    BY DEF ReverseInv
  <2>1. cli.line = "ours" /\ backups[now] = settings /\ settings # NoFile /\ replaced' = settings
    BY <1>4 DEF Rename
  <2>2. now \in Moments /\ \A u \in Moments : u > now => backups[u] = NoFile
    BY DEF TypedInv, TypeOK, Fresh
  <2>3. \E t : Newest(t)' /\ backups'[t] = replaced'
    BY <1>4, <2>1, <2>2 DEF Newest, Rename
  <2> QED BY <1>4, <2>1, <2>3, RenameWrites DEF ReverseInv, Rename
<1>5. CASE ReadAgain \/ Copy
  BY <1>5 DEF ReadAgain, Copy, ReverseInv, history
<1>6. CASE Snapshot
  BY <1>6 DEF Snapshot, ReverseInv, history, Newest, TypedInv, TypeOK, Commands
<1>7. CASE Killed
  BY <1>7 DEF Killed, ReverseInv, history, Newest, Idle
<1>8. ASSUME NEW force \in BOOLEAN, Install(force) PROVE ReverseInv'
  BY <1>8 DEF Install, ReverseInv, Read
<1>9. ASSUME NEW force \in BOOLEAN, Uninstall(force) PROVE ReverseInv'
  <2>1. HasBackup' = HasBackup /\ \A t : Newest(t)' = Newest(t)
    BY <1>9 DEF Uninstall, HasBackup, Newest
  <2>2. replaced # Torn => cli'.pc = "snapshot"
    BY <1>9, UninstallStarts, NewestIsLatest DEF ReverseInv, Idle
  <2> QED BY <1>9, <2>1, <2>2 DEF Uninstall, ReverseInv, history
<1> QED BY <1>1, <1>2, <1>3, <1>4, <1>5, <1>6, <1>7, <1>8, <1>9 DEF Next

LEMMA SettleStep ==
  ASSUME TypedInv, SettleInv, [Next]_vars
  PROVE  SettleInv'
<1>1. CASE UNCHANGED vars
  BY <1>1 DEF vars, SettleInv, Newest
<1>2. CASE UserWrites
  BY <1>2 DEF UserWrites, SettleInv
<1>3. CASE Restore
  <2>1. Newest(cli.from) /\ UNCHANGED backups
    BY <1>3 DEF Restore, TypedInv, Fresh
  <2>2. cli'.pc = "idle"
    BY <1>3 DEF Restore, Idle
  <2>3. \E t : Newest(t)' /\ settings' = backups'[t]
    BY <1>3, <2>1 DEF Newest, Restore
  <2> QED BY <2>2, <2>3 DEF SettleInv
<1>4. CASE Rename
  <2>1. writer' = "uninstall" => cli.line # "ours"
    BY <1>4 DEF Rename
  <2>2. cli.line \in {"none", "ours"}
    BY DEF TypedInv, Fresh
  <2> QED BY <1>4, <2>1, <2>2, RenameWrites DEF SettleInv
<1>5. CASE ReadAgain \/ Copy
  BY <1>5 DEF ReadAgain, Copy, SettleInv, history
<1>6. CASE Snapshot
  BY <1>6 DEF Snapshot, SettleInv, history, Newest, TypedInv, TypeOK, Commands
<1>7. CASE Killed
  BY <1>7 DEF Killed, SettleInv, history, Newest, Idle
<1>8. ASSUME NEW force \in BOOLEAN, Install(force) PROVE SettleInv'
  BY <1>8 DEF Install, SettleInv
<1>9. ASSUME NEW force \in BOOLEAN, Uninstall(force) PROVE SettleInv'
  <2>1. \A t : Newest(t)' = Newest(t)
    BY <1>9 DEF Uninstall, Newest
  <2>2. writer = "uninstall" => \E t : Newest(t) /\ settings = backups[t]
    BY <1>9 DEF Uninstall, SettleInv
  <2>3. writer = "uninstall" => cli'.pc = "snapshot"
    BY <1>9, <2>2, UninstallStarts, NewestIsLatest DEF Idle
  <2> QED BY <1>9, <2>1, <2>2, <2>3 DEF Uninstall, SettleInv, history
<1> QED BY <1>1, <1>2, <1>3, <1>4, <1>5, <1>6, <1>7, <1>8, <1>9 DEF Next

\* An uninstall gives back the very file that the install in force replaced.
THEOREM UninstallGivesBack == Spec => InstallReversible
<1> DEFINE Reverses == (writer' = "uninstall" /\ writer # "uninstall" /\ replaced # Torn)
                         => settings' = replaced
<1>1. Init => ReverseInv
  BY DEF Init, ReverseInv
<1>2. ASSUME TypedInv, ReverseInv, [Next]_vars PROVE [Reverses]_vars
  <2> SUFFICES ASSUME writer' = "uninstall", writer # "uninstall", replaced # Torn
               PROVE  settings' = replaced
    OBVIOUS
  <2>1. Rename \/ Restore
    BY <1>2 DEF Next, vars, Install, Uninstall, ReadAgain, Copy, Snapshot, Killed, UserWrites, history
  <2>2. Restore /\ \E t : Newest(t) /\ backups[t] = replaced
    BY <1>2, <2>1 DEF ReverseInv, Rename
  <2> QED BY <1>2, <2>2, RestoresNewest
<1> QED BY <1>1, <1>2, ReverseStep, TypedInit, TypedStep, PTL DEF Spec, InstallReversible

\* Repeated uninstalls change nothing.
THEOREM UninstallConverges == Spec => UninstallSettles
<1> DEFINE Settles == (writer = "uninstall" /\ writer' = "uninstall") => settings' = settings
<1>1. Init => SettleInv
  BY DEF Init, SettleInv
<1>2. ASSUME TypedInv, SettleInv, [Next]_vars PROVE [Settles]_vars
  <2> SUFFICES ASSUME writer = "uninstall", writer' = "uninstall" PROVE settings' = settings
    OBVIOUS
  <2>1. ~Rename /\ ~UserWrites
    BY <1>2 DEF SettleInv, Rename, UserWrites
  <2>2. CASE Restore
    <3>1. \E t : Newest(t) /\ settings = backups[t]
      BY <1>2, <2>2 DEF SettleInv, Restore
    <3> QED BY <1>2, <2>2, <3>1, RestoresNewest
  <2>3. CASE ~Restore
    BY <1>2, <2>1, <2>3 DEF Next, vars, Install, Uninstall, ReadAgain, Copy, Snapshot, Killed
  <2> QED BY <2>2, <2>3
<1> QED BY <1>1, <1>2, SettleStep, TypedInit, TypedStep, PTL DEF Spec, UninstallSettles
=============================================================================
