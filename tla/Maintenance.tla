---------------------------- MODULE Maintenance ----------------------------
(***************************************************************************)
(* The state database as files: the main file, the write-ahead log beside  *)
(* it and a backup, and what the commands of internal/db do to them.  The  *)
(* content of a file is the sequence of transactions it holds; a reader    *)
(* sees the main file followed by the log.  Commands that use the database *)
(* open it, commit and close it, or die and leave their log behind, which  *)
(* is how SQLite survives them.                                            *)
(*                                                                         *)
(* Restore replaces the files without opening the database.  What open     *)
(* connections do with files unlinked under them is SQLite's and is left   *)
(* out: the operator is taken to restore while nobody has the database     *)
(* open, the case the command is meant for.                                *)
(***************************************************************************)
EXTENDS Integers, Sequences

CONSTANTS Proc,      \* autogit processes
          MaxTx,     \* bound on the transactions committed
          NoFile     \* no such file

VARIABLES
  main,      \* state.db
  wal,       \* state.db-wal; empty when absent
  backup,    \* the file backup writes and restore reads
  pc, temp,  \* each process: where it is, and its temporary file
  committed  \* history, read by no guard: what the database should hold

vars == <<main, wal, backup, pc, temp, committed>>

Contents == Seq(1 .. MaxTx)
Files == Contents \cup {NoFile}
BackupPcs == {"vacuum", "check", "publish"}
RestorePcs == {"copy", "remove", "rename"}
Connected(p) == pc[p] \in {"open"} \cup BackupPcs
Restoring == \E p \in Proc : pc[p] \in RestorePcs

TypeOK ==
  /\ main \in Contents /\ wal \in Contents /\ committed \in Contents
  /\ backup \in Files /\ temp \in [Proc -> Files]
  /\ pc \in [Proc -> {"idle", "open"} \cup BackupPcs \cup RestorePcs]

Init ==
  /\ main = <<>> /\ wal = <<>> /\ committed = <<>> /\ backup = NoFile
  /\ pc = [p \in Proc |-> "idle"] /\ temp = [p \in Proc |-> NoFile]

Goto(p, l) == pc' = [pc EXCEPT ![p] = l]
\* The command returns; its deferred cleanup removes the temporary file.
Leave(p) == Goto(p, "idle") /\ temp' = [temp EXCEPT ![p] = NoFile]

-----------------------------------------------------------------------------
\* Ordinary commands.

OpenContext(p) ==
  /\ pc[p] = "idle" /\ ~Restoring
  /\ Goto(p, "open")
  /\ UNCHANGED <<main, wal, backup, temp, committed>>

Commit(p) ==
  /\ pc[p] = "open" /\ Len(committed) < MaxTx
  /\ wal' = Append(wal, Len(committed) + 1)
  /\ committed' = Append(committed, Len(committed) + 1)
  /\ UNCHANGED <<main, backup, pc, temp>>

\* PRAGMA wal_checkpoint(TRUNCATE): the log is moved into the main file.
Checkpoint == main' = main \o wal /\ wal' = <<>>

\* Repair, and Retain with compaction, checkpoint what they find; a busy
\* database is left as it is.
Repair(p) ==
  /\ pc[p] = "open" /\ Checkpoint
  /\ UNCHANGED <<backup, pc, temp, committed>>

\* The last connection to close moves the log into the main file.
Disconnect(p) ==
  IF \E q \in Proc \ {p} : Connected(q) THEN UNCHANGED <<main, wal>> ELSE Checkpoint

Close(p) ==
  /\ pc[p] = "open" /\ Leave(p) /\ Disconnect(p)
  /\ UNCHANGED <<backup, committed>>

\* A process dies: the files stay, but for the temporary one, which a later
\* command removes when it is a day old.
Die(p) ==
  /\ pc[p] # "idle" /\ Leave(p)
  /\ UNCHANGED <<main, wal, backup, committed>>

-----------------------------------------------------------------------------
\* Backup.

\* The database is opened, and an existing destination is refused.
Backup(p) ==
  /\ pc[p] = "idle" /\ ~Restoring /\ backup = NoFile
  /\ Goto(p, "vacuum")
  /\ UNCHANGED <<main, wal, backup, temp, committed>>

\* The checkpoint may find the database busy; VACUUM INTO reads a snapshot.
VacuumInto(p) ==
  /\ pc[p] = "vacuum"
  /\ temp' = [temp EXCEPT ![p] = main \o wal]
  /\ Checkpoint \/ UNCHANGED <<main, wal>>
  /\ Goto(p, "check")
  /\ UNCHANGED <<backup, committed>>

\* publishMaintenancePath looks for the destination again, then renames.
CheckDestination(p) ==
  /\ pc[p] = "check"
  /\ IF backup = NoFile
       THEN Goto(p, "publish") /\ UNCHANGED <<main, wal, temp>>
       ELSE Leave(p) /\ Disconnect(p)
  /\ UNCHANGED <<backup, committed>>
PublishBackup(p) ==
  /\ pc[p] = "publish"
  /\ backup' = temp[p] /\ Leave(p) /\ Disconnect(p)
  /\ UNCHANGED committed

-----------------------------------------------------------------------------
\* Restore.

Restore(p) ==
  /\ backup # NoFile /\ \A q \in Proc : pc[q] = "idle"
  /\ Goto(p, "copy")
  /\ UNCHANGED <<main, wal, backup, temp, committed>>

\* The backup is validated, copied beside the database, and the copy too.
CopyBackup(p) ==
  /\ pc[p] = "copy"
  /\ temp' = [temp EXCEPT ![p] = backup]
  /\ Goto(p, "remove")
  /\ UNCHANGED <<main, wal, backup, committed>>

\* replaceMaintenancePath removes the log of the old database ...
RemoveLog(p) ==
  /\ pc[p] = "remove"
  /\ wal' = <<>>
  /\ Goto(p, "rename")
  /\ UNCHANGED <<main, backup, temp, committed>>

\* ... and then puts the copy in its place.
RenameCopy(p) ==
  /\ pc[p] = "rename"
  /\ main' = temp[p] /\ committed' = temp[p]
  /\ Leave(p)
  /\ UNCHANGED <<wal, backup>>

Next ==
  \E p \in Proc :
    \/ OpenContext(p) \/ Commit(p) \/ Repair(p) \/ Close(p) \/ Die(p)
    \/ Backup(p) \/ VacuumInto(p) \/ CheckDestination(p) \/ PublishBackup(p)
    \/ Restore(p) \/ CopyBackup(p) \/ RemoveLog(p) \/ RenameCopy(p)

Spec == Init /\ [][Next]_vars

-----------------------------------------------------------------------------
\* "restore --input PATH atomically replaces the state database"
\* (README.md:179): whatever restore, crash or backup came before, a reader
\* finds either everything committed to the old database or the backup.
RestoreIsAtomic == ~Restoring => main \o wal = committed
=============================================================================
