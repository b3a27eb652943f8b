----------------------------- MODULE BackupFiles -----------------------------
(***************************************************************************)
(* The backup directory as the processes that share it see it, and as a    *)
(* power loss leaves it.  dir holds the listed `.edpb` names and the       *)
(* hidden entries <<d, f>>: file f in the `.edpcli-delete-*` directory of  *)
(* the deletion d has in hand (backup_catalog/delete.rs), or, with None    *)
(* for d, in one that was left; disk is what of dir a power loss leaves.   *)
(* The private candidates of infrastructure/atomic_file.rs belong to the   *)
(* process that writes them: no other one ever looks at them.              *)
(*                                                                         *)
(* Assumed of the file system: a rename between two directories is atomic, *)
(* the changes of one directory reach the disk in order, those of          *)
(* different directories in any order; syncing a directory commits it, and *)
(* any directory may be committed at any time.  A file's bytes are on the  *)
(* disk only once the file itself was synced.                              *)
(***************************************************************************)
EXTENDS Naturals, FiniteSets, Functions

CONSTANTS
  Files,     \* the files that may come to exist; a number, in order of capture
  Copies,    \* the files somebody copies into the directory by hand
  Names,     \* the `.edpb` names
  Deleters,  \* processes that delete or prune backups
  Group,     \* Group[f]: the physical disk a verified f is known to be of
  MaxCrashes, \* bound on deaths and power losses
  None

ASSUME FilesAreNumbered == Files \subseteq Nat /\ Copies \subseteq Files

VARIABLES
  file,      \* file[f]: "Absent", "Part", "Written", "Whole" or "Changed"
  dir,       \* the directory: names and hidden
  disk,      \* what of dir survives a power loss
  created,   \* files whose publication was reported as done
  meddled,   \* number of changes made by other programs
  crashes,   \* number of process deaths and power losses
  sessions   \* number of deletions and listings begun

fileVars  == <<file, dir, disk>>
boundVars == <<meddled, crashes, sessions>>

\* What a reader finds in f: the capture itself, or something else.
Content(f) == IF file[f] \in {"Written", "Whole"} THEN "Whole" ELSE file[f]

\* The SHA-256 of f's bytes, and, as the inode and its change time, the stamp
\* by which the display cache knows a file.
Digest(f) == <<f, Content(f)>>
Digests   == Files \X {"Absent", "Part", "Whole", "Changed"}

ASSUME NoneIsNoFile == None \notin Files /\ None \notin Names /\ None \notin Digests

Listed    == Range(dir.names) \ {None}
Reachable == Listed \union {h[2] : h \in dir.hidden}
SameFiles == UNCHANGED fileVars

\* Entries that the deletions of p leave where they are.
Left(d, p) == [d EXCEPT !.hidden = {IF h[1] \in p THEN <<None, h[2]>> ELSE h : h \in @}]

\* Moves out of the names that are not on the disk yet.
Moving == dir.hidden \ disk.hidden

\* sync_directory of the backup directory; half a move is never committed.
NamesSynced == [names |-> dir.names, hidden |-> disk.hidden \union Moving]

\* Files whose bytes were never synced, which a power loss may take.
Unsynced == {f \in Files : file[f] = "Written"}
-----------------------------------------------------------------------------
\* The file system writes a directory back on its own, which shows only when
\* the power is lost later.
NamesCommit ==
  /\ crashes < MaxCrashes
  /\ dir.names # disk.names \/ Moving # {}
  /\ disk' = NamesSynced
  /\ UNCHANGED <<file, dir, created, boundVars>>

HiddenCommits ==
  /\ crashes < MaxCrashes
  /\ \E h \in disk.hidden \ dir.hidden : disk' = [disk EXCEPT !.hidden = @ \ {h}]
  /\ UNCHANGED <<file, dir, created, boundVars>>
=============================================================================
