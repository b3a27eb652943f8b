----------------------------- MODULE BackupStore -----------------------------
(***************************************************************************)
(* The backup directory with everyone who uses it: processes that make     *)
(* backups (infrastructure/backup_store/create.rs, edpb/write.rs,          *)
(* infrastructure/atomic_file.rs), processes that delete or prune them     *)
(* (BackupDeletion), the interface's displayed catalogue and its cache     *)
(* (infrastructure/backup_store/display_catalog.rs), other programs, the   *)
(* death of a process and the loss of power.                               *)
(***************************************************************************)
EXTENDS BackupDeletion

CONSTANTS
  Creators,     \* processes that make a backup
  Display,      \* the interface's scanning thread
  Casts,        \* the sets of processes that may run together
  Shelves,      \* the assignments of files to names there may be at the start
  MaxMeddling   \* bound on the changes made by other programs

ASSUME ProcessesDiffer ==
  /\ Deleters \intersect Creators = {} /\ Display \notin Deleters \union Creators
  /\ None \notin Deleters \union Creators
  /\ Casts \subseteq SUBSET (Deleters \union Creators \union {Display})

ASSUME UnidentifiedIsNoGroup == None \notin Groups

\* A file has one name.
ASSUME ShelvesAssumption ==
  \A s \in Shelves :
    /\ s \in [Names -> Files \union {None}]
    /\ \A m, n \in Names : s[m] = s[n] /\ s[m] # None => m = n

VARIABLES
  cast,      \* the processes of this behaviour
  draft,     \* draft[c]: the file c is writing, as its private candidate
  goal,      \* goal[c]: the name it is to get
  cache,     \* cache[n]: [stamp, digest] of the file last scanned at n, or None
  shelf,     \* the catalogue being listed
  unlisted,  \* names the listing has not come to yet
  probe      \* the entry being scanned: [name, stamp, digest], or None

creatorVars == <<draft, goal>>
displayVars == <<list, cache, shelf, unlisted, probe>>
actorVars   == <<pc, sessionVars, creatorVars, displayVars>>
vars        == <<cast, fileVars, created, boundVars, actorVars>>
-----------------------------------------------------------------------------
(***************************************************************************)
(* Making a backup.  A step that fails drops the candidate.                *)
(***************************************************************************)
Making(c, s, t) ==
  /\ At(c, s) /\ Goto(c, t)
  /\ UNCHANGED <<sessionVars, displayVars, boundVars>>

\* AtomicFile::new, under a name made of the disk's identity and the second.
StartBackup(c) ==
  /\ Making(c, "Idle", "Body")
  /\ \E f \in Files \ Copies, n \in Names :
       /\ file[f] = "Absent"
       /\ file' = [file EXCEPT ![f] = "Part"]
       /\ draft' = [draft EXCEPT ![c] = f]
       /\ goal' = [goal EXCEPT ![c] = n]
  /\ UNCHANGED <<dir, disk, created>>

WriteContainer(c) ==
  /\ Making(c, "Body", "Sync")
  /\ file' = [file EXCEPT ![draft[c]] = "Written"]
  /\ UNCHANGED <<dir, disk, created, creatorVars>>

\* Wrong variant, to test NoBackupIsLost: published as written.
SyncSkipped(c) ==
  /\ Making(c, "Sync", "Publish")
  /\ SameFiles /\ UNCHANGED <<created, creatorVars>>

SyncContainer(c) ==
  /\ Making(c, "Sync", "Publish")
  /\ file' = [file EXCEPT ![draft[c]] = "Whole"]
  /\ UNCHANGED <<dir, disk, created, creatorVars>>

\* AtomicFile::publish(false): the name is taken exclusively.
Publish(c) ==
  /\ Making(c, "Publish", "Tidy")
  /\ dir.names[goal[c]] = None
  /\ dir' = [dir EXCEPT !.names[goal[c]] = draft[c]]
  /\ UNCHANGED <<file, disk, created, creatorVars>>

EndBackup(c) ==
  /\ draft' = [draft EXCEPT ![c] = None]
  /\ goal' = [goal EXCEPT ![c] = None]

\* Writing, syncing, linking, tidying or the last sync fails.
BackupFails(c) ==
  /\ At(c, "Body") \/ At(c, "Sync") \/ At(c, "Publish") \/ At(c, "Tidy")
  /\ Making(c, pc[c], "Idle") /\ EndBackup(c)
  /\ SameFiles /\ UNCHANGED created

\* The candidate's own name is removed and the directory synced: reported.
FinishBackup(c) ==
  /\ Making(c, "Tidy", "Idle") /\ EndBackup(c)
  /\ disk' = NamesSynced
  /\ created' = created \union {draft[c]}
  /\ UNCHANGED <<file, dir>>

MakeBackup(c) ==
  \/ StartBackup(c) \/ WriteContainer(c) \/ SyncContainer(c)
  \/ Publish(c) \/ FinishBackup(c) \/ BackupFails(c)
-----------------------------------------------------------------------------
(***************************************************************************)
(* scan_backup_dir_display: a file is scanned only when its stamp is not   *)
(* the cached one.                                                         *)
(***************************************************************************)
Listing(s, t) ==
  /\ At(Display, s) /\ Goto(Display, t)
  /\ SameFiles /\ UNCHANGED <<created, sessionVars, creatorVars, meddled, crashes>>

StartListing ==
  /\ Listing("Idle", "List")
  /\ sessions < MaxSessions /\ sessions' = sessions + 1
  /\ shelf' = EmptyCatalogue /\ unlisted' = Names
  /\ UNCHANGED <<list, cache, probe>>

Hit(n) == cache[n] # None /\ cache[n].stamp = Entry(n)

\* An entry no longer there is passed over, a cached one taken from the cache.
ListKnown ==
  /\ Listing("List", "List")
  /\ \E n \in unlisted :
       /\ Entry(n) = None \/ Hit(n)
       /\ shelf' = [shelf EXCEPT ![n] = IF Entry(n) = None THEN None ELSE cache[n].digest]
       /\ unlisted' = unlisted \ {n}
  /\ UNCHANGED <<sessions, list, cache, probe>>

ListNew ==
  /\ Listing("List", "Read")
  /\ \E n \in unlisted :
       /\ Entry(n) # None /\ ~ Hit(n)
       /\ probe' = [name |-> n, stamp |-> Entry(n), digest |-> None]
  /\ UNCHANGED <<sessions, list, cache, shelf, unlisted>>

Read ==
  /\ Listing("Read", "Recheck")
  /\ probe' = [probe EXCEPT !.digest = Entry(probe.name)]
  /\ UNCHANGED <<sessions, list, cache, shelf, unlisted>>

Remember(n) ==
  /\ cache' = [cache EXCEPT ![n] = [stamp |-> probe.stamp, digest |-> probe.digest]]
  /\ shelf' = [shelf EXCEPT ![n] = probe.digest]

\* Wrong variant, to test DisplayShowsWhatTheStampMeans: not fingerprinted again.
RecheckSkipped ==
  /\ Listing("Recheck", "List")
  /\ unlisted' = unlisted \ {probe.name} /\ probe' = None /\ UNCHANGED <<sessions, list>>
  /\ IF probe.digest = None THEN UNCHANGED <<cache, shelf>> ELSE Remember(probe.name)

\* The scan found no file, and passes over it; or the stamp is still the same.
Recheck ==
  /\ Listing("Recheck", "List")
  /\ unlisted' = unlisted \ {probe.name} /\ probe' = None /\ UNCHANGED <<sessions, list>>
  /\ \/ probe.digest = None /\ UNCHANGED <<cache, shelf>>
     \/ probe.digest # None /\ Entry(probe.name) = probe.stamp /\ Remember(probe.name)

\* The file changed under the scan: no listing rather than a wrong one.
ListingRefused ==
  /\ Listing("Recheck", "Idle")
  /\ probe.digest # None /\ Entry(probe.name) # probe.stamp
  /\ probe' = None /\ shelf' = EmptyCatalogue /\ unlisted' = {}
  /\ UNCHANGED <<sessions, list, cache>>

FinishListing ==
  /\ Listing("List", "Idle")
  /\ unlisted = {} /\ list' = shelf /\ shelf' = EmptyCatalogue
  /\ UNCHANGED <<sessions, cache, unlisted, probe>>

List ==
  \/ StartListing \/ ListKnown \/ ListNew \/ Read
  \/ Recheck \/ ListingRefused \/ FinishListing
-----------------------------------------------------------------------------
(***************************************************************************)
(* Other programs, deaths of processes, and the loss of power.             *)
(***************************************************************************)
Meddle == meddled < MaxMeddling /\ meddled' = meddled + 1 /\ UNCHANGED <<created, crashes, sessions>>

Disturb(groups) ==
  disturbed' = [d \in Deleters |-> IF At(d, "Idle") THEN disturbed[d]
                                   ELSE disturbed[d] \union groups]

ChangeInPlace ==
  /\ Meddle
  /\ \E f \in Listed :
       /\ file' = [file EXCEPT ![f] = "Changed"]
       /\ Disturb({Group[f]})
  /\ UNCHANGED <<dir, disk, pc, pins, scan, unread, plan, at, parcel, confirmed,
                 creatorVars, displayVars>>

\* A copy appears under a free name.
CopyIn ==
  /\ Meddle
  /\ \E f \in Copies, n \in Names :
       /\ file[f] = "Absent" /\ dir.names[n] = None
       /\ file' = [file EXCEPT ![f] = "Written"]
       /\ dir' = [dir EXCEPT !.names[n] = f]
  /\ UNCHANGED <<disk, actorVars>>

Crash == crashes < MaxCrashes /\ crashes' = crashes + 1 /\ UNCHANGED <<created, meddled, sessions>>

Dead(p) == pc' = [q \in DOMAIN pc |-> IF q \in p THEN "Idle" ELSE pc[q]]

\* What the processes in p knew is gone; what they confirmed was confirmed.
Forget(p) ==
  /\ Dead(p)
  /\ plan'   = [d \in Deleters |-> IF d \in p THEN {} ELSE plan[d]]
  /\ at'     = [d \in Deleters |-> IF d \in p THEN None ELSE at[d]]
  /\ parcel' = [d \in Deleters |-> IF d \in p THEN None ELSE parcel[d]]
  /\ draft'  = [c \in Creators |-> IF c \in p THEN None ELSE draft[c]]
  /\ goal'   = [c \in Creators |-> IF c \in p THEN None ELSE goal[c]]
  /\ pins'   = [d \in Deleters |-> IF d \in p THEN None ELSE pins[d]]
  /\ scan'   = [d \in Deleters |-> IF d \in p THEN EmptyCatalogue ELSE scan[d]]
  /\ unread' = [d \in Deleters |-> IF d \in p THEN {} ELSE unread[d]]
  /\ disturbed' = [d \in Deleters |-> IF d \in p THEN {} ELSE disturbed[d]]
  /\ UNCHANGED confirmed

\* A process is killed in the middle of what it does: no destructor runs.
Kill ==
  /\ Crash
  /\ \E p \in cast \ {Display} :
       /\ ~ At(p, "Idle") /\ Forget({p})
       /\ dir' = Left(dir, {p}) /\ disk' = Left(disk, {p})
  /\ UNCHANGED <<file, displayVars>>

PowerLoss ==
  /\ Crash
  /\ Forget(DOMAIN pc)
  /\ dir' = Left(disk, Deleters) /\ disk' = dir'
  /\ \E lost \in SUBSET Unsynced :
       file' = [f \in Files |-> IF f \in lost THEN "Part" ELSE file[f]]
  /\ list' = EmptyCatalogue /\ cache' = EmptyCatalogue /\ shelf' = EmptyCatalogue
  /\ unlisted' = {} /\ probe' = None
-----------------------------------------------------------------------------
\* Some backups were made before, and the interface has listed them.
Init ==
  /\ cast \in Casts
  /\ dir \in [names: Shelves, hidden: {{}}]
  /\ created = Listed
  /\ file = [f \in Files |-> IF f \in Listed THEN "Whole" ELSE "Absent"]
  /\ list = [n \in Names |-> Entry(n)]
  /\ disk = dir /\ meddled = 0 /\ crashes = 0 /\ sessions = 0
  /\ pc = [p \in Deleters \union Creators \union {Display} |-> "Idle"]
  /\ pins = [d \in Deleters |-> None] /\ scan = [d \in Deleters |-> EmptyCatalogue]
  /\ unread = [d \in Deleters |-> {}] /\ plan = [d \in Deleters |-> {}]
  /\ at = [d \in Deleters |-> None] /\ parcel = [d \in Deleters |-> None]
  /\ confirmed = {} /\ disturbed = [d \in Deleters |-> {}]
  /\ draft = [c \in Creators |-> None] /\ goal = [c \in Creators |-> None]
  /\ cache = EmptyCatalogue /\ shelf = EmptyCatalogue /\ unlisted = {} /\ probe = None

Others == UNCHANGED <<cast, creatorVars, cache, shelf, unlisted, probe>>

Next ==
  \/ \E d \in Deleters \intersect cast : Delete(d) /\ Others
  \/ \E c \in Creators \intersect cast : MakeBackup(c) /\ UNCHANGED cast
  \/ Display \in cast /\ List /\ UNCHANGED cast
  \/ (NamesCommit \/ HiddenCommits) /\ UNCHANGED <<cast, actorVars>>
  \/ (ChangeInPlace \/ CopyIn \/ Kill \/ PowerLoss) /\ UNCHANGED cast

Spec == Init /\ [][Next]_vars
-----------------------------------------------------------------------------
(***************************************************************************)
(* A backup whose making was reported, or that was there before, is under  *)
(* its name or in a deletion's hidden directory, whatever deletions fail,  *)
(* whoever dies and whenever the power goes, unless its deletion was       *)
(* confirmed for just the bytes it has (backup_catalog/delete.rs,          *)
(* infrastructure/atomic_file.rs). And an `.edpb` name the program         *)
(* published never shows half a container, at any moment or after a power  *)
(* loss.                                                                   *)
(***************************************************************************)
NoBackupIsLost ==
  /\ \A f \in created : f \in Reachable \/ Digest(f) \in confirmed
  /\ \A f \in Listed \ Copies : Content(f) \in {"Whole", "Changed"}

(***************************************************************************)
(* No step but a power loss takes a file away, unless somebody confirmed   *)
(* its deletion and saw it with the bytes it has: not when its name, its   *)
(* bytes or the directory changed after the confirmation, nor when a       *)
(* publication or a recovery meets a name that is taken.                   *)
(***************************************************************************)
OnlyConfirmedContentIsRemoved ==
  [][crashes' = crashes => \A f \in Reachable \ Reachable' : Digest(f) \in confirmed]_vars

\* The verified backups of a disk that are somewhere in the directory.
Kept(g) == {f \in Reachable : Group[f] = g /\ Content(f) = "Whole"}

(***************************************************************************)
(* A deletion removes the last backup of a disk only if something else     *)
(* took backups of that disk away after the deletion's scan began: within  *)
(* one session no set of targets, no number to keep and no order of        *)
(* failures empties a disk's group (enforce_retention_floor).              *)
(***************************************************************************)
FloorHoldsUnlessDisturbed ==
  [][\A d \in Deleters, g \in Groups :
       (/\ pc[d] = "Remove" /\ pc'[d] = "Settle"
        /\ Kept(g) # {} /\ Kept(g)' = {}) => g \in disturbed[d]]_vars

(***************************************************************************)
(* A cached entry is what a file with that stamp holds, however the files  *)
(* changed while they were listed: a later hit never shows the digest of   *)
(* other bytes, which the user would then pin for deletion.                *)
(***************************************************************************)
DisplayShowsWhatTheStampMeans ==
  \A n \in Names : cache[n] # None => cache[n].digest = cache[n].stamp

(***************************************************************************)
(* USAGE.md:383, tui/backups/render.rs:472: the floor is checked again as  *)
(* the plan is executed, so a disk with backups always keeps one.  The     *)
(* code checks it while planning only: two confirmed plans may each leave  *)
(* the backup the other one removes.                                       *)
(***************************************************************************)
RetentionFloorAtExecution ==
  \A g \in Groups : (\E f \in created : Group[f] = g) => Kept(g) # {}
=============================================================================
