---------------------------- MODULE BackupDeletion ----------------------------
(***************************************************************************)
(* Deleting and pruning backups: application/backup.rs plans over one      *)
(* fresh scan and executes the fixed plan entry by entry,                  *)
(* backup_catalog/delete.rs isolates, verifies and removes one entry.  The *)
(* command line and the interface drive the same session: the interface    *)
(* pins what the user picked from its displayed list (pins), the command   *)
(* line chooses from the session's own scan.                               *)
(***************************************************************************)
EXTENDS BackupFiles

CONSTANTS
  Keeps,     \* the values of `--keep`
  Groups,    \* the physical disks
  MaxSessions \* bound on the deletions and listings begun

VARIABLES
  list,      \* the interface's displayed catalogue: name -> digest or None
  pc,        \* pc[p]: the step a process is at
  pins,      \* pins[d]: picked from the list, name -> digest; None on the command line
  scan,      \* scan[d]: the session's catalogue, name -> digest or None
  unread,    \* unread[d]: names the scan has not come to yet
  plan,      \* plan[d]: entries still to delete, <<name, digest>>
  at,        \* at[d]: the entry in hand
  parcel,    \* parcel[d]: the file isolated for it
  confirmed, \* digests some user confirmed the deletion of
  disturbed  \* disturbed[d]: disks that lost a backup to others since d's scan

sessionVars == <<pins, scan, unread, plan, at, parcel, confirmed, disturbed>>

EmptyCatalogue == [n \in Names |-> None]

\* scan_backup_file_impl: only a regular `.edpb` is an entry; only a verified
\* one carries the identity that groups it with a disk.
Entry(n)    == IF dir.names[n] = None THEN None ELSE Digest(dir.names[n])
GroupOf(e)  == IF e # None /\ e[2] = "Whole" THEN Group[e[1]] ELSE None
Present(c)  == {n \in Names : c[n] # None}
InGroup(c, g) == {n \in Names : GroupOf(c[n]) = g}

\* Wrong variant, to test FloorHoldsUnlessDisturbed: the last one may go.
FloorOffByOne(c, targets) ==
  \A g \in Groups : Cardinality(targets \intersect InGroup(c, g)) <= Cardinality(InGroup(c, g))

\* enforce_retention_floor: no disk may lose all its backups.
RetentionFloor(c, targets) ==
  \A g \in Groups :
    InGroup(c, g) \intersect targets # {} => ~ (InGroup(c, g) \subseteq targets)

\* prune_candidates: of each disk, all but the newest keep, and never the
\* newest; an unidentified entry is never a candidate.
PruneCandidates(c, keep) ==
  LET spared == IF keep = 0 THEN 1 ELSE keep
      newer(n) == {m \in InGroup(c, GroupOf(c[n])) : c[m][1] > c[n][1]}
  IN {n \in Names : GroupOf(c[n]) # None /\ Cardinality(newer(n)) >= spared}
-----------------------------------------------------------------------------
Goto(d, s) == pc' = [pc EXCEPT ![d] = s]
At(d, s)   == pc[d] = s

\* DeleteSession::open: the catalogue is scanned, file by file.
OpenSession(d) ==
  /\ At(d, "Idle") /\ Goto(d, "Scan")
  /\ sessions < MaxSessions /\ sessions' = sessions + 1
  /\ \/ pins' = [pins EXCEPT ![d] = None]
     \/ \E T \in SUBSET Present(list) \ {{}} :
          pins' = [pins EXCEPT ![d] = [n \in T |-> list[n]]]
  /\ scan' = [scan EXCEPT ![d] = EmptyCatalogue]
  /\ unread' = [unread EXCEPT ![d] = Names]
  /\ disturbed' = [disturbed EXCEPT ![d] = {}]
  /\ SameFiles /\ UNCHANGED <<list, created, plan, at, parcel, confirmed, meddled, crashes>>

ScanEntry(d) ==
  /\ At(d, "Scan")
  /\ \E n \in unread[d] :
       /\ scan' = [scan EXCEPT ![d][n] = Entry(n)]
       /\ unread' = [unread EXCEPT ![d] = @ \ {n}]
       /\ Goto(d, IF unread[d] = {n} THEN "Plan" ELSE "Scan")
  /\ SameFiles /\ UNCHANGED <<list, created, pins, plan, at, parcel, confirmed, disturbed, boundVars>>

\* The plan is a snapshot of what the scan has of the targets, and nothing of
\* the scan is used again.  What the user asked for counts as confirmed: asked
\* is what the user was shown of the targets.
Fix(d, targets, asked) ==
  /\ At(d, "Plan") /\ Goto(d, "Next")
  /\ plan' = [plan EXCEPT ![d] = {<<n, scan[d][n]>> : n \in targets}]
  /\ confirmed' = confirmed \union asked
  /\ scan' = [scan EXCEPT ![d] = EmptyCatalogue] /\ pins' = [pins EXCEPT ![d] = None]
  /\ SameFiles /\ UNCHANGED <<list, created, unread, at, parcel, disturbed, boundVars>>

\* Wrong variant, to test OnlyConfirmedContentIsRemoved: the digests pinned on
\* the screen are not compared with the fresh scan.
PlanExactByName(d) ==
  /\ pins[d] # None
  /\ DOMAIN pins[d] \subseteq Present(scan[d])
  /\ RetentionFloor(scan[d], DOMAIN pins[d])
  /\ Fix(d, DOMAIN pins[d], Range(pins[d]))

\* plan_exact, plan_exact_many: every pinned entry is still what was pinned.
PlanExact(d) ==
  /\ pins[d] # None
  /\ \A n \in DOMAIN pins[d] : scan[d][n] = pins[d][n]
  /\ RetentionFloor(scan[d], DOMAIN pins[d])
  /\ Fix(d, DOMAIN pins[d], Range(pins[d]))

\* plan_targets, plan_resolved: numbers and names, resolved in the scan.
PlanTargets(d) ==
  /\ pins[d] = None
  /\ \E T \in SUBSET Present(scan[d]) \ {{}} :
       /\ RetentionFloor(scan[d], T)
       /\ Fix(d, T, {scan[d][n] : n \in T})

PlanPrune(d) ==
  /\ pins[d] = None
  /\ \E keep \in Keeps :
       LET T == PruneCandidates(scan[d], keep)
       IN /\ T # {}
          /\ RetentionFloor(scan[d], T)
          /\ Fix(d, T, {scan[d][n] : n \in T})

\* Vanished, Changed, RetentionFloor, nothing to prune, or the user declines.
DropSession(d) ==
  /\ At(d, "Plan") /\ Goto(d, "Idle")
  /\ scan' = [scan EXCEPT ![d] = EmptyCatalogue] /\ pins' = [pins EXCEPT ![d] = None]
  /\ disturbed' = [disturbed EXCEPT ![d] = {}]
  /\ SameFiles /\ UNCHANGED <<list, created, unread, plan, at, parcel, confirmed, boundVars>>
-----------------------------------------------------------------------------
\* The entry e is done with, whatever became of it: the next one, or the end.
Pass(d, e) ==
  /\ Goto(d, IF plan[d] = {e} THEN "Idle" ELSE "Next")
  /\ plan' = [plan EXCEPT ![d] = @ \ {e}]
  /\ at' = [at EXCEPT ![d] = None]
  /\ parcel' = [parcel EXCEPT ![d] = None]
  /\ disturbed' = [disturbed EXCEPT ![d] = IF plan[d] = {e} THEN {} ELSE @]

NextEntry(d) == Pass(d, at[d])
SameEntry    == UNCHANGED <<plan, at, parcel, disturbed>>

\* The frame of a step of the execution.
Executing(d, s) ==
  /\ At(d, s)
  /\ UNCHANGED <<file, list, created, pins, scan, unread, confirmed, boundVars>>

\* The name of the entry in hand, and what has it now.
Original(d) == at[d][1]
Occupant(d) == dir.names[Original(d)]

\* delete_with_hook: the entry must still be a regular file.
TakeUp(d) ==
  /\ Executing(d, "Next")
  /\ \E e \in plan[d] :
       \/ /\ dir.names[e[1]] # None
          /\ at' = [at EXCEPT ![d] = e] /\ Goto(d, "Isolate")
          /\ UNCHANGED <<plan, parcel, disturbed>>
       \/ dir.names[e[1]] = None /\ Pass(d, e)
  /\ UNCHANGED <<dir, disk>>

\* IsolatedEntry::take: whatever has the name now is moved away from it.
Isolate(d) ==
  /\ Executing(d, "Isolate") /\ Occupant(d) # None /\ Goto(d, "Verify")
  /\ dir' = [names  |-> [dir.names EXCEPT ![Original(d)] = None],
             hidden |-> dir.hidden \union {<<d, Occupant(d)>>}]
  /\ parcel' = [parcel EXCEPT ![d] = Occupant(d)]
  /\ UNCHANGED <<disk, plan, at, disturbed>>

IsolateFails(d) ==
  /\ Executing(d, "Isolate") /\ NextEntry(d)
  /\ UNCHANGED <<dir, disk>>

\* The move is made durable, and the isolated bytes compared with the plan.
Verify(d) ==
  /\ Executing(d, "Verify")
  /\ disk' = NamesSynced
  /\ Goto(d, IF Digest(parcel[d]) = at[d][2] THEN "Remove" ELSE "Relink")
  /\ SameEntry /\ UNCHANGED dir

\* Syncing or reading the isolated entry fails.
VerifyFails(d) ==
  /\ Executing(d, "Verify") /\ Goto(d, "Relink")
  /\ SameEntry /\ UNCHANGED <<dir, disk>>

Parcel(d) == <<d, parcel[d]>>
Unhide(d) == dir' = [dir EXCEPT !.hidden = @ \ {Parcel(d)}]

Remove(d) ==
  /\ Executing(d, "Remove") /\ Goto(d, "Settle")
  /\ Unhide(d)
  /\ disturbed' = [e \in Deleters |-> IF e = d \/ At(e, "Idle") THEN disturbed[e]
                                      ELSE disturbed[e] \union {Group[parcel[d]]}]
  /\ UNCHANGED <<disk, plan, at, parcel>>

RemoveFails(d) ==
  /\ Executing(d, "Remove") /\ Goto(d, "Relink")
  /\ SameEntry /\ UNCHANGED <<dir, disk>>

\* The hidden directory is synced; when that fails the file is gone all the same.
Settle(d) ==
  /\ Executing(d, "Settle") /\ NextEntry(d)
  /\ \/ disk' = [disk EXCEPT !.hidden = @ \ {Parcel(d)}]
     \/ UNCHANGED disk
  /\ UNCHANGED dir
-----------------------------------------------------------------------------
\* Whatever is not restored stays hidden, and the user is told where.
Retain(d) ==
  /\ At(d, "Relink") \/ At(d, "SyncRelink") \/ At(d, "Release")
  /\ Executing(d, pc[d]) /\ NextEntry(d)
  /\ dir' = Left(dir, {d}) /\ disk' = Left(disk, {d})

\* Wrong variant, to test OnlyConfirmedContentIsRemoved: the entry is moved
\* back over whatever has the name now.
RelinkOverwriting(d) ==
  /\ Executing(d, "Relink") /\ Goto(d, "SyncRelink")
  /\ dir' = [dir EXCEPT !.names[Original(d)] = parcel[d]]
  /\ SameEntry /\ UNCHANGED disk

\* IsolatedEntry::restore links the entry back, unless its name is taken.
Relink(d) ==
  /\ Executing(d, "Relink") /\ Goto(d, "SyncRelink")
  /\ Occupant(d) = None
  /\ dir' = [dir EXCEPT !.names[Original(d)] = parcel[d]]
  /\ SameEntry /\ UNCHANGED disk

\* Wrong variant, to test NoBackupIsLost: the private link is released before
\* the recovered name is on the disk.
SyncRelinkSkipped(d) ==
  /\ Executing(d, "SyncRelink") /\ Goto(d, "Release")
  /\ SameEntry /\ UNCHANGED <<dir, disk>>

SyncRelink(d) ==
  /\ Executing(d, "SyncRelink") /\ Goto(d, "Release")
  /\ disk' = NamesSynced
  /\ SameEntry /\ UNCHANGED dir

Release(d) ==
  /\ Executing(d, "Release") /\ NextEntry(d)
  /\ Unhide(d)
  /\ UNCHANGED disk

Execute(d) ==
  \/ TakeUp(d) \/ Isolate(d) \/ IsolateFails(d)
  \/ Verify(d) \/ VerifyFails(d) \/ Remove(d) \/ RemoveFails(d) \/ Settle(d)
  \/ Relink(d) \/ SyncRelink(d) \/ Release(d) \/ Retain(d)

Delete(d) ==
  \/ OpenSession(d) \/ ScanEntry(d)
  \/ PlanExact(d) \/ PlanTargets(d) \/ PlanPrune(d) \/ DropSession(d)
  \/ Execute(d)
=============================================================================
