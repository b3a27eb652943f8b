---------------------------- MODULE MCBackupStore ----------------------------
(***************************************************************************)
(* Instance of BackupStore: backups 1 and 2 of one disk, 3 of a disk that  *)
(* cannot be identified, 4 a copy of one of the first disk.  Two           *)
(* deletions, a deletion with a backup being made, a deletion with the     *)
(* display, and two backups being made at once.                            *)
(***************************************************************************)
EXTENDS BackupStore

CONSTANTS n1, n2, d1, d2, c1, c2, gA

MCGroup == [f \in Files |-> IF f = 3 THEN None ELSE gA]

MCShelves == {[n \in Names |-> IF n = n1 THEN 1 ELSE f] : f \in {2, None}}

MCCasts == {{d1, d2}, {d1, c1}, {d1, Display}, {c1, c2}}
=============================================================================
