-------------------------- MODULE BackupStoreProofs --------------------------
(***************************************************************************)
(* The backup directory: whoever deletes, makes, copies or changes backups *)
(* and whenever a process dies or the power goes, no reported backup is    *)
(* lost, and nothing is removed that was not confirmed.                    *)
(*                                                                         *)
(* A file has one firm place: its name, the hidden directory of a deletion *)
(* that has not linked it back yet, or one that was left.  Whatever a      *)
(* deletion that did link it back still holds is an echo of it.  A file    *)
(* that must not be lost has a firm place in the directory, and one on the *)
(* disk that no deletion is about to release.                              *)
(*                                                                         *)
(* Last, the display: with one deletion beside it, what its cache tells of *)
(* a stamp is what was read of the file with that stamp.                   *)
(***************************************************************************)
EXTENDS BackupStore, TLAPS

Steps == {"Idle", "Scan", "Plan", "Next", "Isolate", "Verify", "Remove", "Relink",
          "SyncRelink", "Release", "Settle", "Body", "Sync", "Publish", "Tidy",
          "List", "Read", "Recheck"}

Processes == Deleters \union Creators \union {Display}

Directories ==
  [names  : [Names -> Files \union {None}],
   hidden : SUBSET ((Deleters \union {None}) \X Files)]

Catalogues == [Names -> Digests \union {None}]
Pins       == UNION {[T -> Digests] : T \in SUBSET Names}

\* A deletion has its parcel hidden: before it links it back, and after.
Holding(d) == pc[d] \in {"Verify", "Remove", "Relink"}
Linked(d)  == pc[d] \in {"SyncRelink", "Release"}
InHand(d)  == Holding(d) \/ Linked(d) \/ pc[d] \in {"Isolate", "Settle"}

FilesOK ==
  /\ cast \in Casts /\ created \subseteq Files /\ crashes \in Nat
  /\ file \in [Files -> {"Absent", "Part", "Written", "Whole", "Changed"}]
  /\ dir \in Directories /\ disk \in Directories

ActorsOK ==
  /\ pc \in [Processes -> Steps]
  /\ draft \in [Creators -> Files \union {None}]
  /\ goal \in [Creators -> Names \union {None}]
  /\ \A c \in Creators : pc[c] \in {"Body", "Sync", "Publish", "Tidy"} =>
       draft[c] \in Files \ Copies /\ goal[c] \in Names
  /\ \A c \in Creators : pc[c] \notin {"Body", "Sync", "Publish", "Tidy"} => draft[c] = None
  /\ parcel \in [Deleters -> Files \union {None}]
  /\ \A d \in Deleters : InHand(d) /\ pc[d] # "Isolate" => parcel[d] \in Files
  /\ unread \in [Deleters -> SUBSET Names]
  /\ DOMAIN disturbed = Deleters

PlansOK ==
  /\ list \in Catalogues /\ scan \in [Deleters -> Catalogues]
  /\ pins \in [Deleters -> Pins \union {None}]
  /\ plan \in [Deleters -> SUBSET (Names \X Digests)]
  /\ at \in [Deleters -> (Names \X Digests) \union {None}]
  /\ \A d \in Deleters : InHand(d) => at[d] \in plan[d]
  /\ confirmed \subseteq Digests

DisplayOK ==
  /\ shelf \in Catalogues /\ unlisted \subseteq Names
  /\ cache \in [Names -> [stamp : Digests, digest : Digests] \union {None}]
  /\ pc[Display] \in {"Read", "Recheck"} =>
       probe \in [name : Names, stamp : Digests, digest : Digests \union {None}]
  /\ probe # None => pc[Display] \in {"Read", "Recheck"}

TypeOK == FilesOK /\ ActorsOK /\ PlansOK /\ DisplayOK

Named(f)  == \E n \in Names : dir.names[n] = f
Hidden(f) == \E h \in dir.hidden : h[2] = f

Firm(f) ==
  \/ Named(f)
  \/ \E h \in dir.hidden : h[2] = f /\ (h[1] = None \/ Holding(h[1]))

\* On the disk in a place that no deletion is about to release.
Durable(f) ==
  \/ \E n \in Names : disk.names[n] = f
  \/ \E h \in disk.hidden \intersect dir.hidden :
       h[2] = f /\ (h[1] = None \/ pc[h[1]] # "Release")

OnDisk(f)   == (\E n \in Names : disk.names[n] = f) \/ (\E h \in disk.hidden : h[2] = f)
Promised(f) == f \in created \/ \E c \in Creators : pc[c] = "Tidy" /\ draft[c] = f
Known(f)    == Promised(f) \/ Named(f) \/ Hidden(f) \/ OnDisk(f)

ParcelInv ==
  /\ \A h \in dir.hidden : h[1] = None \/
       ((Holding(h[1]) \/ Linked(h[1])) /\ parcel[h[1]] = h[2])
  /\ \A d \in Deleters : Holding(d) \/ Linked(d) => <<d, parcel[d]>> \in dir.hidden
  /\ \A d \in Deleters : \A e \in plan[d] : e[2] \in confirmed
  /\ \A d \in Deleters : pc[d] = "Remove" => Digest(parcel[d]) = at[d][2]

PlaceInv ==
  /\ \A m, n \in Names : dir.names[m] = dir.names[n] /\ dir.names[m] # None => m = n
  /\ \A m, n \in Names : disk.names[m] = disk.names[n] /\ disk.names[m] # None => m = n
  /\ \A d \in Deleters : Holding(d) => ~ Named(parcel[d])
  /\ \A d, e \in Deleters : Holding(d) /\ Holding(e) /\ parcel[d] = parcel[e] => d = e

DraftInv ==
  /\ \A f \in Files : Known(f) =>
       file[f] # "Absent" /\ (f \notin Copies => file[f] \in {"Whole", "Changed"})
  /\ \A f \in created : file[f] \in {"Whole", "Changed"}
  /\ \A c \in Creators : \A f \in Files :
       pc[c] \in {"Body", "Sync", "Publish"} /\ draft[c] = f =>
         ~ Known(f) /\ \A b \in Creators : draft[b] = f => b = c
  /\ \A c \in Creators : pc[c] \in {"Body", "Sync", "Publish", "Tidy"} => file[draft[c]] # "Absent"
  /\ \A c \in Creators : pc[c] = "Publish" => file[draft[c]] = "Whole"

SafeInv ==
  /\ \A f \in Files : Promised(f) \/ Hidden(f) => Firm(f) \/ Digest(f) \in confirmed
  /\ \A f \in created : Firm(f) => Durable(f)
  /\ \A h \in dir.hidden : Firm(h[2]) \/ h \in disk.hidden
  /\ \A d \in Deleters : pc[d] = "Remove" =>
       \A h \in dir.hidden : h[2] = parcel[d] => h \in disk.hidden

StoreInv == ParcelInv /\ PlaceInv /\ DraftInv /\ SafeInv
\* The name a file has, or had when a scan or a deletion took note of it.
Home(f, n) ==
  \/ dir.names[n] = f
  \/ \E d \in Deleters : (Holding(d) \/ Linked(d)) /\ parcel[d] = f /\ at[d][1] = n
  \/ \E d \in Deleters : scan[d][n] # None /\ scan[d][n][1] = f

Drafting(c, f) == pc[c] \in {"Body", "Sync", "Publish"} /\ draft[c] = f

\* It is always the same one; what is not published yet has none.
HomeInv ==
  /\ \A f \in Files : \A m, n \in Names : Home(f, m) /\ Home(f, n) => m = n
  /\ \A f \in Files : \A n \in Names : Home(f, n) =>
       file[f] # "Absent" /\ \A c \in Creators : ~ Drafting(c, f)

Scanning(d) == pc[d] \in {"Scan", "Plan"}
Executes(d) == pc[d] = "Next" \/ InHand(d)
Sound(f)    == Firm(f) /\ Content(f) = "Whole"
Planned(d, f) == \E e \in plan[d] : e[2][1] = f

\* What d's scan saw whole is still there, and of each disk that its plan takes
\* from, something the plan spares, unless others took from that disk.
ScanSound(d) ==
  Scanning(d) => \A n \in Names :
    scan[d][n] # None /\ scan[d][n][2] = "Whole" /\ Group[scan[d][n][1]] \notin disturbed[d]
      => Sound(scan[d][n][1])

PlanSpares(d) ==
  Executes(d) => \A e \in plan[d] :
    e[2][2] = "Whole" /\ Group[e[2][1]] \in Groups /\ Group[e[2][1]] \notin disturbed[d]
      => \E f \in Files : Group[f] = Group[e[2][1]] /\ Sound(f) /\ ~ Planned(d, f)

FloorInv == \A d \in Deleters : ScanSound(d) /\ PlanSpares(d)

-----------------------------------------------------------------------------
\* What a name may hold.
LEMMA ListedIsNamed ==
  ASSUME FilesOK
  PROVE  Listed \subseteq Files /\ \A f : f \in Listed <=> f # None /\ Named(f)
BY DEF FilesOK, Directories, Listed, Range, Named

\* Leaving entries where they are gives a directory.
LEMMA LeftTyped ==
  ASSUME NEW D \in Directories, NEW p
  PROVE  Left(D, p) \in Directories
<1>1. {IF h[1] \in p THEN <<None, h[2]>> ELSE h : h \in D.hidden} \subseteq (Deleters \union {None}) \X Files
  BY SMT DEF Directories
<1> QED
  BY <1>1, SMT DEF Directories, Left

LEMMA RenamedTyped ==
  ASSUME NEW D \in Directories, NEW n, NEW f \in Files \union {None}
  PROVE  [D EXCEPT !.names[n] = f] \in Directories
BY SMT DEF Directories

\* Every plan is fixed in the same way, from what the session has scanned.
LEMMA FixTyped ==
  ASSUME TypeOK, NEW d \in Deleters, NEW T \in SUBSET Names, NEW A \in SUBSET Digests,
         \A n \in T : scan[d][n] \in Digests, Fix(d, T, A), Others
  PROVE  PlansOK'
<1>1. {<<n, scan[d][n]>> : n \in T} \in SUBSET (Names \X Digests)
  OBVIOUS
<1>2. /\ plan' \in [Deleters -> SUBSET (Names \X Digests)]
      /\ \A e \in Deleters : e # d => plan'[e] = plan[e]
  BY <1>1, SMT DEF TypeOK, PlansOK, Fix
<1> QED
  BY <1>2, ProcessesDiffer, SMT
  DEF TypeOK, PlansOK, ActorsOK, Fix, Goto, At, InHand, Holding, Linked, Catalogues,
      EmptyCatalogue, Processes

\* A hidden entry is a pair of its deletion, or None, and a file.
LEMMA HiddenTyped ==
  ASSUME FilesOK, NEW h \in dir.hidden \union disk.hidden
  PROVE  h[1] \in Deleters \union {None} /\ h[2] \in Files /\ h = <<h[1], h[2]>>
BY SMT DEF FilesOK, Directories

\* What leaving the entries of p where they are does to a directory.
LEMMA HiddenLeft ==
  ASSUME NEW D \in Directories, NEW p
  PROVE  /\ Left(D, p).names = D.names
         /\ \A h \in D.hidden : (IF h[1] \in p THEN <<None, h[2]>> ELSE h) \in Left(D, p).hidden
         /\ \A h \in Left(D, p).hidden : \E x \in D.hidden :
              x[2] = h[2] /\ (IF x[1] \in p THEN h[1] = None ELSE h = x)
<1>1. \A h \in D.hidden : h = <<h[1], h[2]>>
  BY SMT DEF Directories
<1> QED
  BY <1>1, SMT DEF Directories, Left

Leaves(before, after, d) ==
  /\ after.names = before.names
  /\ \A h \in before.hidden : (h[1] # d => h \in after.hidden)
                           /\ (h[1] = d => <<None, h[2]>> \in after.hidden)
  /\ \A h \in after.hidden : \E x \in before.hidden :
       x[2] = h[2] /\ (x[1] = d => h[1] = None) /\ (x[1] # d => h = x)

\* One deletion's entries are left.
LEMMA LeftByOne ==
  ASSUME NEW D \in Directories, NEW d
  PROVE  Leaves(D, Left(D, {d}), d)
BY HiddenLeft, SMT DEF Leaves

\* A deletion that gives up leaves its entry in both directories.
LEMMA RetainLeaves ==
  ASSUME TypeOK, NEW d \in Deleters, Retain(d)
  PROVE  Leaves(dir, dir', d) /\ Leaves(disk, disk', d)
BY LeftByOne, Zenon DEF Retain, TypeOK, FilesOK

\* So does a process that dies.
LEMMA KillLeaves ==
  ASSUME TypeOK, Kill
  PROVE  \E p \in cast \ {Display} :
           Forget({p}) /\ Leaves(dir, dir', p) /\ Leaves(disk, disk', p)
BY LeftByOne, Zenon DEF Kill, TypeOK, FilesOK

\* After a power loss the directory is the disk's, its hidden entries left.
LEMMA PowerLeaves ==
  ASSUME TypeOK, PowerLoss
  PROVE  /\ dir'.names = disk.names
         /\ \A h \in dir'.hidden : h[1] = None /\ \E x \in disk.hidden : x[2] = h[2]
         /\ \A h \in disk.hidden : <<None, h[2]>> \in dir'.hidden
<1>1. \A h \in disk.hidden : h[1] \in Deleters \/ h = <<None, h[2]>>
  BY HiddenTyped, SMT DEF TypeOK
<1>2. disk \in Directories /\ dir' = Left(disk, Deleters)
  BY DEF TypeOK, FilesOK, PowerLoss
<1> QED
  BY <1>1, <1>2, HiddenLeft, SMT

\* A deletion that leaves its entry where it is, or dies.
StepsAside(p) ==
  /\ UNCHANGED <<file, confirmed>>
  /\ p \in Deleters => pc'[p] \in {"Idle", "Next"} /\ plan'[p] \subseteq plan[p]
  /\ \A e \in Deleters : e # p =>
       pc'[e] = pc[e] /\ plan'[e] = plan[e] /\ at'[e] = at[e] /\ parcel'[e] = parcel[e]

\* A deletion that steps aside disturbs nobody's parcel.
LEMMA ParcelLeft ==
  ASSUME TypeOK, ParcelInv, NEW p, Leaves(dir, dir', p), StepsAside(p)
  PROVE  ParcelInv'
<1> USE DEF StepsAside
<1>1. \A h \in dir'.hidden : h[1] = None \/ (h[1] # p /\ h[1] \in Deleters /\ h \in dir.hidden)
  BY HiddenTyped, SMT DEF Leaves, TypeOK
<1>2. \A e \in Deleters : e # p /\ <<e, parcel[e]>> \in dir.hidden => <<e, parcel[e]>> \in dir'.hidden
  BY DEF Leaves
<1>3. \A e \in Deleters : \A x \in plan'[e] : x[2] \in confirmed'
  BY SMT DEF ParcelInv
<1>4. \A e \in Deleters :
        /\ e # p => (Holding(e)' <=> Holding(e)) /\ (Linked(e)' <=> Linked(e))
        /\ e = p => ~ Holding(e)' /\ ~ Linked(e)'
  BY DEF Holding, Linked
<1>5. \A h \in dir'.hidden : h[1] = None \/
        ((Holding(h[1])' \/ Linked(h[1])') /\ parcel'[h[1]] = h[2])
  BY <1>1, <1>4, Zenon DEF ParcelInv
<1>6. \A d \in Deleters : Holding(d)' \/ Linked(d)' => <<d, parcel'[d]>> \in dir'.hidden
  BY <1>2, <1>4, Zenon DEF ParcelInv
<1>7. \A d \in Deleters : pc'[d] = "Remove" => Digest(parcel[d])' = at'[d][2]
  BY SMT DEF ParcelInv, Digest, Content
<1> QED
  BY <1>3, <1>5, <1>6, <1>7, SMT DEF ParcelInv, Holding, Linked, Digest, Content

\* A parcel is a file of the directory, and no draft.
LEMMA ParcelsAreKnown ==
  ASSUME TypeOK, ParcelInv, DraftInv, NEW d \in Deleters, Holding(d) \/ Linked(d)
  PROVE  /\ parcel[d] \in Files /\ Hidden(parcel[d]) /\ file[parcel[d]] # "Absent"
         /\ \A c \in Creators : pc[c] \in {"Body", "Sync", "Publish"} => draft[c] # parcel[d]
<1>1. parcel[d] \in Files
  BY SMT DEF TypeOK, ActorsOK, InHand, Holding, Linked
<1>2. Hidden(parcel[d])
  <2>1. <<d, parcel[d]>> \in dir.hidden /\ <<d, parcel[d]>>[2] = parcel[d]
    BY DEF ParcelInv
  <2> QED
    BY <2>1 DEF Hidden
<1>3. Known(parcel[d])
  BY <1>2 DEF Known
<1> QED
  BY <1>1, <1>2, <1>3, Zenon DEF DraftInv

\* A plan has only what the user confirmed.
LEMMA FixConfirmed ==
  ASSUME TypeOK, ParcelInv, NEW d \in Deleters, NEW T, NEW A, \A n \in T : scan[d][n] \in A,
         Fix(d, T, A), Others
  PROVE  ParcelInv'
<1>1. /\ \A e \in Deleters : pc'[e] = IF e = d THEN "Next" ELSE pc[e]
      /\ pc[d] = "Plan"
      /\ \A e \in Deleters : \A x \in plan'[e] : x[2] \in confirmed'
      /\ UNCHANGED <<file, dir, parcel, at>>
  BY SMT DEF TypeOK, PlansOK, ActorsOK, ParcelInv, Fix, Goto, At, SameFiles, fileVars, Processes
<1>2. \A h \in dir.hidden : h[1] \in Deleters \union {None}
  BY HiddenTyped DEF TypeOK
<1> QED
  BY <1>1, <1>2, SMT DEF ParcelInv, Holding, Linked, Digest, Content

\* Drafts are disturbed by no step that neither writes nor shows a file.
LEMMA DraftSame ==
  ASSUME TypeOK, DraftInv, UNCHANGED <<file, created>>,
         \A c \in Creators : pc'[c] = "Idle" \/ (pc'[c] = pc[c] /\ draft'[c] = draft[c]),
         \A c \in Creators : pc'[c] # "Idle" => \A b \in Creators : draft'[b] \in {draft[b], None},
         \A f \in Files : Named(f)' \/ Hidden(f)' \/ OnDisk(f)' => Known(f)
  PROVE  DraftInv'
<1>1. \A f \in Files : Promised(f)' => Promised(f)
  BY SMT DEF Promised
<1>2. \A f \in Files : Known(f)' => Known(f)
  BY <1>1 DEF Known
<1>3. created \subseteq Files /\ None \notin Files /\ \A c \in Creators :
        pc[c] \in {"Body", "Sync", "Publish", "Tidy"} => draft[c] \in Files
  BY NoneIsNoFile, SMT DEF TypeOK, FilesOK, ActorsOK
<1> HIDE DEF Known
<1> QED
  BY <1>2, <1>3, SMT DEF DraftInv

\* A draft is nowhere in the directory.
LEMMA DraftIsNew ==
  ASSUME TypeOK, ParcelInv, DraftInv, NEW c \in Creators, pc[c] \in {"Body", "Sync", "Publish"}
  PROVE  /\ draft[c] \in Files \ Copies /\ draft[c] \notin created
         /\ ~ Promised(draft[c]) /\ ~ Named(draft[c]) /\ ~ Hidden(draft[c]) /\ ~ OnDisk(draft[c])
         /\ \A d \in Deleters : Holding(d) \/ Linked(d) => parcel[d] # draft[c]
BY ParcelsAreKnown, Zenon DEF TypeOK, ActorsOK, DraftInv, Known, Promised

\* A new draft is a file nobody knows.
LEMMA NewDraft ==
  ASSUME TypeOK, DraftInv, NEW c \in Creators, StartBackup(c)
  PROVE  DraftInv'
<1>1. PICK f \in Files \ Copies :
          file[f] = "Absent" /\ file' = [file EXCEPT ![f] = "Part"] /\ draft' = [draft EXCEPT ![c] = f]
  BY DEF StartBackup
<1>2. /\ UNCHANGED <<dir, disk, created>> /\ pc[c] = "Idle"
      /\ \A b \in Creators : pc'[b] = IF b = c THEN "Body" ELSE pc[b]
  BY SMT DEF StartBackup, Making, At, Goto, TypeOK, ActorsOK, Processes
<1>3. /\ \A b \in Creators : draft'[b] = IF b = c THEN f ELSE draft[b]
      /\ \A x \in Files : file'[x] = IF x = f THEN "Part" ELSE file[x]
  BY <1>1, SMT DEF TypeOK, FilesOK, ActorsOK
<1>4. created \subseteq Files /\ f # None /\ \A b \in Creators :
          IF pc[b] \in {"Body", "Sync", "Publish", "Tidy"} THEN draft[b] \in Files ELSE draft[b] = None
  BY NoneIsNoFile DEF TypeOK, FilesOK, ActorsOK
<1>5. ~ Known(f) /\ \A b \in Creators : draft[b] # f
  BY <1>1, <1>4 DEF DraftInv
<1>6. \A x \in Files : Promised(x)' => Promised(x)
  BY <1>2, <1>3, SMT DEF Promised
<1>7. \A x \in Files : Known(x)' => Known(x)
  BY <1>2, <1>6, SMT DEF Known, Named, Hidden, OnDisk
<1>8. \A x \in Files : Known(x)' => x # f /\ file'[x] = file[x]
  BY <1>3, <1>5, <1>7
<1>9. \A b \in Creators : \A x \in Files :
        pc'[b] \in {"Body", "Sync", "Publish"} /\ draft'[b] = x => ~ Known(x)'
  <2> SUFFICES ASSUME NEW b \in Creators, NEW x \in Files,
                      pc'[b] \in {"Body", "Sync", "Publish"}, draft'[b] = x
               PROVE  ~ Known(x)'
    OBVIOUS
  <2>1. CASE b = c
    BY <2>1, <1>3, <1>8
  <2>2. CASE b # c
    BY <2>2, <1>2, <1>3, <1>7, Zenon DEF DraftInv
  <2> QED
    BY <2>1, <2>2
<1>10. \A x \in Files : Known(x)' =>
         file'[x] # "Absent" /\ (x \notin Copies => file'[x] \in {"Whole", "Changed"})
  BY <1>7, <1>8, Zenon DEF DraftInv
<1>11. \A x \in created' : file'[x] \in {"Whole", "Changed"}
  BY <1>1, <1>2, <1>3, <1>4, SMT DEF DraftInv
<1>12. \A b \in Creators :
          /\ pc'[b] \in {"Body", "Sync", "Publish"} =>
               \A x \in Creators : draft'[x] = draft'[b] => x = b
          /\ pc'[b] \in {"Body", "Sync", "Publish", "Tidy"} => file'[draft'[b]] # "Absent"
          /\ pc'[b] = "Publish" => file'[draft'[b]] = "Whole"
  BY <1>1, <1>2, <1>3, <1>4, <1>5, SMT DEF DraftInv
<1>13. (\A b \in Creators : \A x \in Files :
          pc[b] \in {"Body", "Sync", "Publish"} /\ draft[b] = x =>
            ~ Known(x) /\ \A y \in Creators : draft[y] = x => y = b)'
  BY <1>9, <1>12, Zenon
<1>14. (\A b \in Creators : pc[b] \in {"Body", "Sync", "Publish", "Tidy"} => file[draft[b]] # "Absent")'
  BY <1>12, Zenon
<1>15. (\A b \in Creators : pc[b] = "Publish" => file[draft[b]] = "Whole")'
  BY <1>12, Zenon
<1> QED
  BY <1>10, <1>11, <1>13, <1>14, <1>15, Zenon DEF DraftInv

\* Settling drops nothing but hidden entries of the disk.
LEMMA SettledDisk ==
  ASSUME TypeOK, NEW d \in Deleters, Settle(d)
  PROVE  UNCHANGED dir /\ disk'.names = disk.names /\ disk'.hidden \subseteq disk.hidden
BY SMT DEF Settle, TypeOK, FilesOK, Directories

\* A listed file is changed in place, or a draft is filled by its creator.
Rewrites(f, v) ==
  /\ UNCHANGED <<dir, disk, created, draft>> /\ file' = [file EXCEPT ![f] = v]
  /\ \/ v = "Changed" /\ Named(f) /\ \A c \in Creators : pc'[c] = pc[c]
     \/ /\ v \in {"Written", "Whole"}
        /\ \E c \in Creators :
             /\ draft[c] = f /\ pc[c] \in {"Body", "Sync"} /\ pc'[c] \in {"Sync", "Publish"}
             /\ pc'[c] = "Publish" => v = "Whole"
             /\ \A b \in Creators : b # c => pc'[b] = pc[b]

\* Files that must be whole stay whole under a rewrite.
LEMMA Rewritten ==
  ASSUME TypeOK, DraftInv, NEW f \in Files, NEW v, Rewrites(f, v)
  PROVE  DraftInv'
<1> USE DEF Rewrites
<1>1. \A x \in Files : Known(x)' => Known(x)
  BY SMT DEF Known, Promised, Named, Hidden, OnDisk
<1>2. \A x \in Files : file'[x] = IF x = f THEN v ELSE file[x]
  BY SMT DEF TypeOK, FilesOK
<1>3. v \in {"Written", "Whole", "Changed"} /\ created \subseteq Files /\ \A b \in Creators :
        pc[b] \in {"Body", "Sync", "Publish", "Tidy"} => draft[b] \in Files
  BY DEF TypeOK, FilesOK, ActorsOK
<1>4. v = "Changed" \/ ~ Known(f)
  BY Zenon DEF DraftInv
<1>5. \A x \in Files : Known(x)' =>
        file'[x] # "Absent" /\ (x \notin Copies => file'[x] \in {"Whole", "Changed"})
  BY <1>1, <1>2, <1>3, <1>4, SMT DEF DraftInv
<1>6. \A x \in created : Known(x)
  BY DEF Known, Promised
<1>7. \A x \in created' : file'[x] \in {"Whole", "Changed"}
  BY <1>2, <1>3, <1>4, <1>6, SMT DEF DraftInv
<1>8. (\A c \in Creators : \A x \in Files :
         pc[c] \in {"Body", "Sync", "Publish"} /\ draft[c] = x =>
           ~ Known(x) /\ \A b \in Creators : draft[b] = x => b = c)'
  <2>1. \A c \in Creators : pc'[c] \in {"Body", "Sync", "Publish"} => pc[c] \in {"Body", "Sync", "Publish"}
    BY SMT
  <2>2. draft' = draft
    OBVIOUS
  <2>3. \A b \in Creators : \A x \in Files :
          pc[b] \in {"Body", "Sync", "Publish"} /\ draft[b] = x =>
            ~ Known(x) /\ \A a \in Creators : draft[a] = x => a = b
    BY Zenon DEF DraftInv
  <2> HIDE DEF Rewrites
  <2> QED
    BY <1>1, <2>1, <2>2, <2>3, Zenon
<1>9. (\A c \in Creators : pc[c] \in {"Body", "Sync", "Publish", "Tidy"} => file[draft[c]] # "Absent")'
  BY <1>2, <1>3, SMT DEF DraftInv
<1>10. \A c \in Creators : pc[c] = "Publish" /\ draft[c] = f => v # "Changed"
  BY <1>4, SMT DEF DraftInv, Known
<1>11. (\A c \in Creators : pc[c] = "Publish" => file[draft[c]] = "Whole")'
  BY <1>2, <1>3, <1>10, SMT DEF DraftInv
<1> QED
  BY <1>5, <1>7, <1>8, <1>9, <1>11, Zenon DEF DraftInv

-----------------------------------------------------------------------------
(***************************************************************************)
(* The kinds of steps, as far as the places of files are concerned.        *)
(***************************************************************************)
\* A file with a firm place keeps one.
FirmStays == \A f \in Files : Firm(f) => Firm(f)'

\* Nothing moves; of what the disk has, only what the directory no longer has
\* may go.
Quiet ==
  /\ UNCHANGED <<dir, created>> /\ confirmed \subseteq confirmed'
  /\ disk'.names = disk.names /\ disk.hidden \intersect dir.hidden \subseteq disk'.hidden
  /\ \A f \in Files : Promised(f)' => Promised(f)
  /\ \A f \in Files : Promised(f) \/ Hidden(f) => file'[f] = file[f] \/ Named(f)
  /\ \A d \in Deleters :
       /\ Holding(d)' <=> Holding(d)
       /\ pc'[d] = "Release" => pc[d] = "Release"
       /\ pc'[d] = "Remove" => pc[d] = "Remove" /\ parcel'[d] = parcel[d]

\* A quiet step keeps every firm place, and what of it is on the disk.
LEMMA SafeQuiet ==
  ASSUME TypeOK, SafeInv, Quiet
  PROVE  SafeInv' /\ FirmStays
<1>1. /\ \A h \in dir.hidden : h[1] \in Deleters \union {None} /\ h[2] \in Files
      /\ created \subseteq Files
  BY HiddenTyped DEF TypeOK, FilesOK
<1>2. \A f \in Files : (Named(f)' <=> Named(f)) /\ (Hidden(f)' <=> Hidden(f))
  BY DEF Quiet, Named, Hidden
<1>3. \A f \in Files : Firm(f)' <=> Firm(f)
  BY <1>1, <1>2, SMT DEF Quiet, Firm
<1>4. \A f \in Files : Durable(f) => Durable(f)'
  BY <1>1, SMT DEF Quiet, Durable
<1>5. \A f \in Files : Promised(f) \/ Hidden(f) => Firm(f) \/ Digest(f)' = Digest(f)
  BY Zenon DEF Quiet, Firm, Digest, Content
<1>6. \A f \in Files : (Promised(f) \/ Hidden(f))' => (Firm(f) \/ Digest(f) \in confirmed)'
  BY <1>2, <1>3, <1>5, Zenon DEF SafeInv, Quiet
<1>7. \A f \in created' : Firm(f)' => Durable(f)'
  BY <1>1, <1>3, <1>4, Zenon DEF SafeInv, Quiet
<1>8. \A h \in dir'.hidden : Firm(h[2])' \/ h \in disk'.hidden
  BY <1>1, <1>3, Zenon DEF SafeInv, Quiet
<1>9. \A d \in Deleters : pc'[d] = "Remove" => \A h \in dir'.hidden : h[2] = parcel'[d] => h \in disk'.hidden
  BY Zenon DEF SafeInv, Quiet
<1> QED
  BY <1>3, <1>6, <1>7, <1>8, <1>9, Zenon DEF SafeInv, FirmStays

\* The directory is committed; a deletion may be about to release its parcel.
Synced ==
  /\ UNCHANGED <<file, dir, parcel, confirmed>>
  /\ disk'.names = dir.names /\ dir.hidden \subseteq disk'.hidden
  /\ \A f \in Files : (Promised(f)' => Promised(f)) /\ (f \in created' => Promised(f))
  /\ \A d \in Deleters : Holding(d)' <=> Holding(d)

\* After a commit every firm place is on the disk.
LEMMA SafeSynced ==
  ASSUME TypeOK, TypeOK', SafeInv, Synced
  PROVE  SafeInv' /\ FirmStays
<1>1. /\ \A h \in dir.hidden : h[1] \in Deleters \union {None} /\ h[2] \in Files
      /\ created' \subseteq Files
  BY HiddenTyped DEF TypeOK, FilesOK
<1>2. \A f \in Files : Firm(f)' <=> Firm(f)
  BY <1>1, SMT DEF Synced, Firm, Named
<1>3. \A f \in Files : Digest(f)' = Digest(f) /\ (Hidden(f)' <=> Hidden(f))
  BY DEF Synced, Digest, Content, Hidden
<1>4. \A f \in Files : Firm(f)' => Durable(f)'
  <2>1. \A d \in Deleters : Holding(d)' => pc'[d] # "Release"
    BY DEF Holding
  <2> QED
    BY <1>1, <2>1, SMT DEF Synced, Firm, Named, Durable
<1>5. \A f \in Files : (Promised(f) \/ Hidden(f))' => (Firm(f) \/ Digest(f) \in confirmed)'
  BY <1>2, <1>3, Zenon DEF SafeInv, Synced
<1>6. \A f \in created' : Firm(f)' => Durable(f)'
  BY <1>1, <1>4
<1>7. \A h \in dir'.hidden : h \in disk'.hidden
  BY DEF Synced
<1> QED
  BY <1>2, <1>5, <1>6, <1>7, Zenon DEF SafeInv, FirmStays

\* A file gets a name that was free: a new one, or the parcel of a deletion.
Appears(f) ==
  /\ UNCHANGED <<disk, created, parcel, confirmed>> /\ dir'.hidden = dir.hidden
  /\ \A x \in Files : Named(x)' <=> (Named(x) \/ x = f)
  /\ f \in created => Firm(f)
  /\ \A x \in Files : x # f => (Promised(x)' => Promised(x)) /\ file'[x] = file[x]
  /\ \A d \in Deleters :
       /\ Holding(d)' => Holding(d)
       /\ Holding(d) => Holding(d)' \/ parcel[d] = f
       /\ pc'[d] = "Release" => pc[d] = "Release"
       /\ pc'[d] = "Remove" => pc[d] = "Remove"

\* A new name is a firm place; what had one before keeps it on the disk.
LEMMA SafeAppears ==
  ASSUME TypeOK, ParcelInv, SafeInv, NEW f \in Files, Appears(f)
  PROVE  SafeInv' /\ FirmStays
<1>1. /\ \A h \in dir.hidden : h[1] \in Deleters \union {None} /\ h[2] \in Files
      /\ created \subseteq Files
  BY HiddenTyped DEF TypeOK, FilesOK
<1>2. Firm(f)'
  BY DEF Appears, Firm
<1>3. \A x \in Files : x # f => (Firm(x)' <=> Firm(x))
  BY <1>1, Zenon DEF Appears, Firm, ParcelInv
<1>4. \A x \in Files : Durable(x) => Durable(x)'
  BY <1>1, SMT DEF Appears, Durable
<1>5. \A x \in Files : (Hidden(x)' <=> Hidden(x)) /\ (x # f => Digest(x)' = Digest(x))
  BY DEF Appears, Digest, Content, Hidden
<1>6. \A x \in Files : (Promised(x) \/ Hidden(x))' => (Firm(x) \/ Digest(x) \in confirmed)'
  BY <1>2, <1>3, <1>5, Zenon DEF SafeInv, Appears
<1>7. \A x \in created' : Firm(x)' => Durable(x)'
  BY <1>1, <1>3, <1>4, Zenon DEF SafeInv, Appears
<1>8. \A h \in dir'.hidden : Firm(h[2])' \/ h \in disk'.hidden
  BY <1>1, <1>2, <1>3, Zenon DEF SafeInv, Appears
<1>9. \A d \in Deleters : pc'[d] = "Remove" => \A h \in dir'.hidden : h[2] = parcel'[d] => h \in disk'.hidden
  BY Zenon DEF SafeInv, Appears
<1> QED
  BY <1>2, <1>3, <1>6, <1>7, <1>8, <1>9, Zenon DEF SafeInv, FirmStays

\* Isolating an entry exchanges its name for a hidden entry that is not on the
\* disk yet, while the disk still has the name.
LEMMA SafeIsolate ==
  ASSUME TypeOK, ParcelInv, PlaceInv, SafeInv, NEW d \in Deleters, Isolate(d), Others
  PROVE  SafeInv' /\ FirmStays
<1>0. PICK f \in Files : f = Occupant(d)
  BY SMT DEF Isolate, Executing, TypeOK, FilesOK, ActorsOK, PlansOK, InHand, At, Directories,
             Occupant, Original
<1> DEFINE e == <<d, f>>
<1>1. /\ UNCHANGED <<file, disk, created, draft, confirmed>>
      /\ f # None /\ pc[d] = "Isolate" /\ at[d] \in Names \X Digests
      /\ \A x \in Processes : pc'[x] = IF x = d THEN "Verify" ELSE pc[x]
      /\ \A x \in Deleters : parcel'[x] = IF x = d THEN f ELSE parcel[x]
  BY <1>0, SMT DEF Isolate, Executing, TypeOK, ActorsOK, PlansOK, InHand, Goto, At, Others, creatorVars,
             boundVars, Processes
<1>2. f \in Files /\ Named(f)
  BY <1>0, <1>1 DEF Named, Occupant, Original
<1>3. dir'.hidden = dir.hidden \union {e} /\ \A n \in Names :
        dir'.names[n] = IF n = Original(d) THEN None ELSE dir.names[n]
  BY <1>0, SMT DEF Isolate, TypeOK, FilesOK, Directories
<1>4. /\ \A h \in dir.hidden : h[1] \in Deleters \union {None} /\ h[2] \in Files /\ h[1] # d
      /\ created \subseteq Files /\ e[1] = d /\ e[2] = f
  <2>1. ~ Holding(d) /\ ~ Linked(d) /\ d # None
    BY <1>1, ProcessesDiffer DEF Holding, Linked
  <2> QED
    BY <2>1, HiddenTyped DEF TypeOK, FilesOK, ParcelInv
<1>5. \A x \in Files : Named(x)' => Named(x)
  BY <1>3, NoneIsNoFile, SMT DEF Named
<1>6. \A x \in Files : x # f => (Named(x) => Named(x)')
  BY <1>0, <1>3, SMT DEF Named, Occupant
<1>7. /\ Firm(f) /\ Firm(f)'
      /\ \A h : h \in dir'.hidden <=> h \in dir.hidden \/ h = e
  <2>1. Firm(f)
    BY <1>2 DEF Firm
  <2>2. e \in dir'.hidden /\ \A h : h \in dir'.hidden <=> h \in dir.hidden \/ h = e
    BY <1>3
  <2>3. Holding(e[1])'
    BY <1>1, <1>4 DEF Holding, Processes
  <2>4. Firm(f)'
    BY <1>4, <2>2, <2>3, Zenon DEF Firm
  <2> QED
    BY <2>1, <2>2, <2>4
<1> HIDE DEF e
<1>8. \A x \in Files : x # f => (Firm(x)' <=> Firm(x)) /\ (Hidden(x)' => Hidden(x))
  <2>1. \A c \in Deleters : c # d => (Holding(c)' <=> Holding(c))
    BY <1>1 DEF Holding, Processes
  <2> QED
    BY <1>3, <1>4, <1>5, <1>6, <2>1, Zenon DEF Firm, Hidden
<1>9. \A x \in Files : Durable(x) => Durable(x)'
  BY <1>1, <1>3, <1>4, SMT DEF Durable, Processes
<1>10. \A x \in Files : Digest(x)' = Digest(x) /\ (Promised(x)' => Promised(x))
  BY <1>1, ProcessesDiffer, SMT DEF Digest, Content, Promised, Processes
<1> confirmed' = confirmed /\ disk' = disk /\ created' = created
  BY <1>1
<1>11. \A x \in Files : (Promised(x) \/ Hidden(x))' => (Firm(x) \/ Digest(x) \in confirmed)'
  <2> SUFFICES ASSUME NEW x \in Files, Promised(x)' \/ Hidden(x)'
               PROVE  Firm(x)' \/ Digest(x)' \in confirmed
    OBVIOUS
  <2>1. CASE x = f
    BY <2>1, <1>7
  <2>2. CASE x # f
    BY <2>2, <1>8, <1>10, Zenon DEF SafeInv
  <2> QED
    BY <2>1, <2>2
<1>12. \A x \in created' : Firm(x)' => Durable(x)'
  BY <1>1, <1>4, <1>7, <1>8, <1>9, Zenon DEF SafeInv
<1>13. \A h \in dir'.hidden : Firm(h[2])' \/ h \in disk'.hidden
  <2> SUFFICES ASSUME NEW h \in dir'.hidden, NEW x \in Files, x = h[2] PROVE Firm(x)' \/ h \in disk.hidden
    BY <1>2, <1>4, <1>7
  <2>1. CASE x = f
    BY <2>1, <1>7
  <2>2. CASE x # f
    <3>1. h \in dir.hidden
      BY <2>2, <1>4, <1>7
    <3> QED
      BY <2>2, <3>1, <1>8, Zenon DEF SafeInv
  <2> QED
    BY <2>1, <2>2
<1>14. \A c \in Deleters : pc'[c] = "Remove" => \A h \in dir'.hidden : h[2] = parcel'[c] => h \in disk'.hidden
  <2> SUFFICES ASSUME NEW c \in Deleters, pc'[c] = "Remove", NEW h \in dir'.hidden, h[2] = parcel'[c]
               PROVE  h \in disk'.hidden
    OBVIOUS
  <2>1. c # d /\ pc[c] = "Remove" /\ parcel'[c] = parcel[c]
    BY <1>1, SMT DEF Processes
  <2>2. parcel[c] # f
    BY <2>1, <1>2 DEF PlaceInv, Holding
  <2> QED
    BY <2>1, <2>2, <1>1, <1>3, <1>4, Zenon DEF SafeInv
<1> QED
  BY <1>7, <1>8, <1>11, <1>12, <1>13, <1>14, Zenon DEF SafeInv, FirmStays

\* A deletion drops the hidden entry of its parcel: for good, or because the
\* file has its name again.
Drops(d) ==
  /\ UNCHANGED <<file, disk, created, draft, confirmed>> /\ dir'.names = dir.names
  /\ dir'.hidden = dir.hidden \ {<<d, parcel[d]>>}
  /\ \A x \in Processes : x # d => pc'[x] = pc[x]
  /\ \A x \in Deleters : x # d => parcel'[x] = parcel[x]
  /\ ~ Holding(d)' /\ pc'[d] \notin {"Release", "Tidy"}

\* Dropping a hidden entry takes the place of a file only if it was confirmed.
LEMMA SafeDrops ==
  ASSUME TypeOK, ParcelInv, PlaceInv, SafeInv, NEW d \in Deleters, NEW f \in Files, Drops(d),
         f = parcel[d], pc[d] = "Remove" \/ pc[d] = "Release"
  PROVE  /\ SafeInv'
         /\ \A x \in Files : x # f \/ pc[d] = "Release" => (Firm(x) => Firm(x)')
<1>1. /\ \A h \in dir.hidden : /\ h[1] \in Deleters \union {None} /\ h[2] \in Files
                               /\ h[1] = d => h = <<d, f>> /\ h[2] = f
      /\ created \subseteq Files
  <2>1. \A h \in dir.hidden : /\ h[1] \in Deleters \union {None} /\ h[2] \in Files
                              /\ h = <<h[1], h[2]>>
    BY HiddenTyped DEF TypeOK
  <2> QED
    BY <2>1, ProcessesDiffer DEF TypeOK, FilesOK, ParcelInv
<1>2. /\ \A x \in Deleters : x # d => pc'[x] = pc[x] /\ (Holding(x)' <=> Holding(x))
      /\ \A h : h \in dir'.hidden <=> h \in dir.hidden /\ h[1] # d
      /\ UNCHANGED <<disk, created>> /\ pc'[d] # "Release" /\ ~ Holding(d)' /\ d # None
  <2>1. \A h : h \in dir'.hidden <=> h \in dir.hidden /\ h # <<d, f>>
    BY DEF Drops
  <2> QED
    BY <1>1, <2>1, ProcessesDiffer DEF Drops, Holding, Processes
<1>3. \A x \in Files : /\ Digest(x)' = Digest(x) /\ (Promised(x)' => Promised(x))
                       /\ Named(x)' <=> Named(x)
                       /\ Hidden(x)' => Hidden(x)
  BY ProcessesDiffer, SMT DEF Drops, Digest, Content, Promised, Named, Hidden, Processes
<1>4. \A x \in Files : x # f \/ pc[d] = "Release" => (Firm(x)' <=> Firm(x))
  <2>1. pc[d] = "Release" => ~ Holding(d)
    BY DEF Holding
  <2> QED
    BY <1>1, <1>2, <1>3, <2>1, Zenon DEF Firm
<1>5. \A x \in Files : x # f \/ pc[d] = "Release" => (Durable(x) => Durable(x)')
  <2> SUFFICES ASSUME NEW x \in Files, x # f \/ pc[d] = "Release", Durable(x) PROVE Durable(x)'
    OBVIOUS
  <2>1. CASE \E n \in Names : disk.names[n] = x
    BY <2>1, <1>2 DEF Durable
  <2>2. ASSUME NEW h \in disk.hidden \intersect dir.hidden, h[2] = x, h[1] = None \/ pc[h[1]] # "Release"
        PROVE  Durable(x)'
    <3>1. h[1] # d
      BY <2>2, <1>1, <1>2
    <3>2. h[1] = None \/ pc'[h[1]] # "Release"
      BY <2>2, <3>1, <1>1, <1>2
    <3>3. h \in disk'.hidden \intersect dir'.hidden
      BY <3>1, <1>2
    <3> QED
      BY <2>2, <3>2, <3>3 DEF Durable
  <2> QED
    BY <2>1, <2>2 DEF Durable
<1>6. pc[d] = "Remove" => Digest(f) \in confirmed
  BY SMT DEF ParcelInv, TypeOK, PlansOK, InHand, Holding
<1>7. pc[d] = "Remove" /\ f \in Files /\ Firm(f)' => Durable(f)'
  <2> SUFFICES ASSUME pc[d] = "Remove", f \in Files, Firm(f)' PROVE Durable(f)'
    OBVIOUS
  <2>1. ~ Named(f) /\ \A x \in Deleters : x # d /\ Holding(x) => parcel[x] # f
    BY DEF PlaceInv, Holding
  <2>2. PICK h \in dir'.hidden : h[2] = f /\ (h[1] = None \/ Holding(h[1])')
    <3>1. ~ Named(f)'
      BY <2>1, <1>3
    <3> QED
      BY <3>1, Zenon DEF Firm
  <2>3. h \in dir.hidden /\ h[1] = None
    <3>1. h \in dir.hidden /\ h[1] # d /\ h[1] \in Deleters \union {None}
      BY <1>1, <1>2
    <3>2. CASE Holding(h[1])'
      BY <2>1, <2>2, <3>1, <3>2, <1>2, Zenon DEF ParcelInv
    <3> QED
      BY <2>2, <3>1, <3>2
  <2>4. h \in disk.hidden
    BY <2>2, <2>3 DEF SafeInv
  <2> QED
    BY <2>2, <2>3, <2>4 DEF Durable, Drops
<1>8. \A x \in Files : (Promised(x) \/ Hidden(x))' => (Firm(x) \/ Digest(x) \in confirmed)'
  BY <1>3, <1>4, <1>6, Zenon DEF SafeInv, Drops
<1>9. \A x \in created' : Firm(x)' => Durable(x)'
  <2> SUFFICES ASSUME NEW x \in created, Firm(x)' PROVE Durable(x)'
    BY <1>2
  <2>1. x \in Files
    BY <1>1
  <2>2. CASE x = f /\ pc[d] = "Remove"
    BY <2>1, <2>2, <1>7
  <2>3. CASE x # f \/ pc[d] = "Release"
    BY <2>1, <2>3, <1>4, <1>5, Zenon DEF SafeInv
  <2> QED
    BY <2>2, <2>3
<1>10. \A h \in dir'.hidden : Firm(h[2])' \/ h \in disk'.hidden
  <2> SUFFICES ASSUME NEW h \in dir'.hidden PROVE Firm(h[2])' \/ h \in disk'.hidden
    OBVIOUS
  <2>1. h \in dir.hidden /\ h[2] \in Files /\ disk' = disk
    BY <1>1 DEF Drops
  <2>2. CASE h[2] = f /\ pc[d] = "Remove"
    BY <2>1, <2>2 DEF SafeInv
  <2>3. CASE h[2] # f \/ pc[d] = "Release"
    BY <2>1, <2>3, <1>4, Zenon DEF SafeInv
  <2> QED
    BY <2>2, <2>3
<1>11. \A c \in Deleters : pc'[c] = "Remove" => \A h \in dir'.hidden : h[2] = parcel'[c] => h \in disk'.hidden
  <2>1. pc'[d] # "Remove"
    BY DEF Drops, Holding
  <2> QED
    BY <1>2, <2>1, SMT DEF SafeInv, Drops
<1> QED
  BY <1>4, <1>8, <1>9, <1>10, <1>11, Zenon DEF SafeInv


Aside(p) ==
  /\ StepsAside(p) /\ created' = created
  /\ Leaves(dir, dir', p) /\ Leaves(disk, disk', p)
  /\ \A f \in Files : Promised(f)' => Promised(f)

\* Stepping aside makes every echo of a file a firm place of it, on the disk
\* because the echo was.
LEMMA SafeAside ==
  ASSUME TypeOK, TypeOK', SafeInv, NEW p, Aside(p)
  PROVE  SafeInv' /\ FirmStays
<1> USE DEF Aside
<1>1. /\ \A h \in dir.hidden : h[1] \in Deleters \union {None} /\ h[2] \in Files
      /\ created \subseteq Files /\ \A h \in dir'.hidden : h[2] \in Files /\ h = <<h[1], h[2]>>
  <2>1. \A h \in dir'.hidden : h[2] \in Files /\ h = <<h[1], h[2]>>
    BY SMT DEF TypeOK, FilesOK, Directories
  <2> QED
    BY <2>1, HiddenTyped DEF TypeOK, FilesOK
<1>2. \A f \in Files : /\ Digest(f)' = Digest(f) /\ (Named(f)' <=> Named(f))
                       /\ Hidden(f)' => Hidden(f)
  BY SMT DEF StepsAside, Leaves, Digest, Content, Named, Hidden
<1>3. \A d \in Deleters :
        IF d = p THEN ~ Holding(d)' /\ pc'[d] \notin {"Remove", "Release"}
                 ELSE pc'[d] = pc[d] /\ parcel'[d] = parcel[d] /\ (Holding(d)' <=> Holding(d))
  BY DEF StepsAside, Holding
<1>4. \A x : <<None, x>> \in dir'.hidden => <<None, x>>[1] = None /\ <<None, x>>[2] = x
  OBVIOUS
<1>5. \A f \in Files : Firm(f) => Firm(f)'
  <2> SUFFICES ASSUME NEW f \in Files, Firm(f) PROVE Firm(f)'
    OBVIOUS
  <2>1. CASE Named(f)
    BY <2>1, <1>2 DEF Firm
  <2>2. ASSUME NEW h \in dir.hidden, h[2] = f, h[1] = p PROVE Firm(f)'
    <3>1. <<None, f>> \in dir'.hidden
      BY <2>2 DEF Leaves
    <3> QED
      BY <3>1, <1>4, Zenon DEF Firm
  <2>3. ASSUME NEW h \in dir.hidden, h[2] = f, h[1] # p, h[1] = None \/ Holding(h[1]) PROVE Firm(f)'
    BY <2>3, <1>1, <1>3, Zenon DEF Leaves, Firm
  <2> QED
    BY <2>1, <2>2, <2>3 DEF Firm
<1>6. \A f \in Files : Durable(f) => Durable(f)'
  <2> SUFFICES ASSUME NEW f \in Files, Durable(f) PROVE Durable(f)'
    OBVIOUS
  <2>1. CASE \E n \in Names : disk.names[n] = f
    BY <2>1 DEF Durable, Leaves
  <2>2. ASSUME NEW h \in disk.hidden \intersect dir.hidden, h[2] = f, h[1] = p PROVE Durable(f)'
    <3>1. <<None, f>> \in disk'.hidden \intersect dir'.hidden
      BY <2>2 DEF Leaves
    <3> QED
      BY <3>1, <1>4, Zenon DEF Durable
  <2>3. ASSUME NEW h \in disk.hidden \intersect dir.hidden, h[2] = f, h[1] # p,
               h[1] = None \/ pc[h[1]] # "Release"
        PROVE  Durable(f)'
    <3>1. h \in disk'.hidden \intersect dir'.hidden
      BY <2>3 DEF Leaves
    <3>2. h[1] = None \/ pc'[h[1]] # "Release"
      BY <2>3, <1>1, <1>3
    <3> QED
      BY <2>3, <3>1, <3>2 DEF Durable
  <2> QED
    BY <2>1, <2>2, <2>3, Zenon DEF Durable
<1>7. \A f \in Files : (Promised(f) \/ Hidden(f))' => (Firm(f) \/ Digest(f) \in confirmed)'
  BY <1>2, <1>5, Zenon DEF SafeInv, StepsAside
<1>8. \A f \in created' : Firm(f)' => Durable(f)'
  <2> SUFFICES ASSUME NEW f \in created, Firm(f)' PROVE Durable(f)'
    OBVIOUS
  <2>1. f \in Files
    BY <1>1
  <2>2. CASE Firm(f)
    BY <2>1, <2>2, <1>6 DEF SafeInv
  <2>3. CASE ~ Firm(f)
    <3>1. PICK h \in dir'.hidden : h[2] = f /\ (h[1] = None \/ Holding(h[1])')
      BY <2>1, <2>3, <1>2, Zenon DEF Firm
    <3>2. PICK x \in dir.hidden : x[2] = f /\ (x[1] = p => h[1] = None) /\ (x[1] # p => h = x)
      BY <3>1, Zenon DEF Leaves
    <3>3. x \in disk.hidden
      BY <2>3, <3>2 DEF SafeInv
    <3>4. x[1] = p
      BY <2>1, <2>3, <3>1, <3>2, <1>1, <1>3, Zenon DEF Firm
    <3>5. <<None, f>> \in dir'.hidden \intersect disk'.hidden
      BY <3>2, <3>3, <3>4 DEF Leaves
    <3> QED
      BY <3>5, <1>4, Zenon DEF Durable
  <2> QED
    BY <2>2, <2>3
<1>9. \A h \in dir'.hidden : Firm(h[2])' \/ h \in disk'.hidden
  <2> SUFFICES ASSUME NEW h \in dir'.hidden, NEW f \in Files, f = h[2] PROVE Firm(f)' \/ h \in disk'.hidden
    BY <1>1
  <2>1. PICK x \in dir.hidden : x[2] = f /\ (x[1] = p => h[1] = None) /\ (x[1] # p => h = x)
    BY Zenon DEF Leaves
  <2>2. CASE x[1] = p
    BY <2>1, <2>2 DEF Firm
  <2>3. CASE x[1] # p
    <3>1. Firm(f) \/ x \in disk.hidden
      BY <2>1 DEF SafeInv
    <3> QED
      BY <3>1, <2>1, <2>3, <1>5 DEF Leaves
  <2> QED
    BY <2>2, <2>3
<1>10. \A c \in Deleters : pc'[c] = "Remove" => \A h \in dir'.hidden : h[2] = parcel'[c] => h \in disk'.hidden
  <2> SUFFICES ASSUME NEW c \in Deleters, pc'[c] = "Remove", NEW h \in dir'.hidden, h[2] = parcel'[c]
               PROVE  h \in disk'.hidden
    OBVIOUS
  <2>1. pc[c] = "Remove" /\ parcel'[c] = parcel[c]
    BY <1>3
  <2>2. PICK x \in dir.hidden : x[2] = h[2] /\ (x[1] = p => h[1] = None) /\ (x[1] # p => h = x)
    BY Zenon DEF Leaves
  <2>3. x \in disk.hidden
    BY <2>1, <2>2 DEF SafeInv
  <2>4. CASE x[1] = p
    BY <2>2, <2>3, <2>4, <1>1 DEF Leaves
  <2>5. CASE x[1] # p
    BY <2>2, <2>3, <2>5 DEF Leaves
  <2> QED
    BY <2>4, <2>5
<1> QED
  BY <1>5, <1>7, <1>8, <1>9, <1>10, Zenon DEF SafeInv, FirmStays

\* A power loss makes the disk's places the firm ones.
LEMMA SafePowerLoss ==
  ASSUME TypeOK, DraftInv, SafeInv, PowerLoss
  PROVE  SafeInv'
<1>1. /\ created' = created /\ confirmed' = confirmed /\ disk' = dir' /\ created \subseteq Files
      /\ \A q \in Processes : pc'[q] = "Idle"
      /\ \A f \in Files : file[f] # "Written" => file'[f] = file[f]
  BY SMT DEF PowerLoss, Crash, Forget, Dead, Unsynced, TypeOK, FilesOK, ActorsOK
<1>2. /\ dir'.names = disk.names /\ \A h \in dir'.hidden : h[1] = None
      /\ \A h \in disk.hidden : <<None, h[2]>> \in dir'.hidden
  BY PowerLeaves
<1>3. \A f \in Files : Durable(f) => Firm(f)'
  BY <1>2 DEF Durable, Firm, Named
<1>4. \A f \in Files : /\ Firm(f)' => Durable(f)'
                       /\ Hidden(f)' => Firm(f)'
  BY <1>1, <1>2, Zenon DEF Durable, Firm, Named, Hidden
<1>5. \A f \in created : Digest(f)' = Digest(f)
  BY <1>1, SMT DEF DraftInv, Digest, Content
<1>6. \A f \in Files : Promised(f)' => f \in created
  BY <1>1, SMT DEF Promised, Processes
<1>7. \A f \in created : Firm(f)' \/ Digest(f)' \in confirmed
  <2>1. \A f \in created : Promised(f)
    BY DEF Promised
  <2> QED
    BY <2>1, <1>1, <1>3, <1>5, Zenon DEF SafeInv
<1>8. \A f \in Files : (Promised(f) \/ Hidden(f))' => (Firm(f) \/ Digest(f) \in confirmed)'
  BY <1>1, <1>4, <1>6, <1>7, Zenon
<1>9. \A f \in created' : Firm(f)' => Durable(f)'
  BY <1>1, <1>4
<1>10. \A h \in dir'.hidden : Firm(h[2])' \/ h \in disk'.hidden
  BY <1>1
<1>11. \A c \in Deleters : pc'[c] # "Remove"
  BY <1>1 DEF Processes
<1> QED
  BY <1>8, <1>9, <1>10, <1>11, Zenon DEF SafeInv

Kind ==
  \/ Quiet \/ Synced \/ PowerLoss
  \/ \E f \in Files : Appears(f)
  \/ \E d \in Deleters : Isolate(d) /\ Others
  \/ \E d \in Deleters : Drops(d) /\ (Remove(d) \/ Release(d))
  \/ \E p : Aside(p)

FirmKept ==
  \/ PowerLoss
  \/ \A f \in Files : Firm(f) => Firm(f)' \/ \E d \in Deleters : Remove(d) /\ f = parcel[d]

\* Every kind of step keeps the places of files.
LEMMA SafeKind ==
  ASSUME TypeOK, TypeOK', ParcelInv, PlaceInv, DraftInv, SafeInv, Kind
  PROVE  SafeInv' /\ FirmKept
<1>1. ASSUME NEW d \in Deleters, Drops(d), Remove(d) \/ Release(d) PROVE SafeInv' /\ FirmKept
  <2>1. pc[d] = "Remove" \/ pc[d] = "Release"
    BY <1>1 DEF Remove, Release, Executing, At
  <2>2. parcel[d] \in Files
    BY <2>1, SMT DEF TypeOK, ActorsOK, InHand, Holding, Linked
  <2>3. SafeInv' /\ \A x \in Files : x # parcel[d] \/ pc[d] = "Release" => (Firm(x) => Firm(x)')
    BY <1>1, <2>1, <2>2, SafeDrops
  <2>4. pc[d] = "Remove" => Remove(d)
    BY <1>1 DEF Release, Executing, At
  <2> QED
    BY <2>1, <2>3, <2>4, Zenon DEF FirmKept
<1>2. ASSUME NEW p, Aside(p) PROVE SafeInv' /\ FirmStays
  BY <1>2, SafeAside
<1>3. ASSUME NEW d \in Deleters, Isolate(d), Others PROVE SafeInv' /\ FirmStays
  BY <1>3, SafeIsolate
<1>4. ASSUME NEW f \in Files, Appears(f) PROVE SafeInv' /\ FirmStays
  BY <1>4, SafeAppears
<1>5. FirmStays => FirmKept
  BY DEF FirmStays, FirmKept
<1>6. PowerLoss => SafeInv' /\ FirmKept
  BY SafePowerLoss DEF FirmKept
<1> QED
  BY <1>1, <1>2, <1>3, <1>4, <1>5, <1>6, SafeQuiet, SafeSynced, Zenon DEF Kind

-----------------------------------------------------------------------------
(***************************************************************************)
(* The kinds of steps, as far as names and numbers of backups go.          *)
(***************************************************************************)
\* No file gets another name than it has.
HomesStay ==
  /\ \A f \in Files : \A n \in Names : Home(f, n)' => Home(f, n)
  /\ \A f \in Files : file[f] # "Absent" =>
       file'[f] # "Absent" /\ \A c \in Creators : Drafting(c, f)' => Drafting(c, f)

\* A file without a name gets its name.
NewHome(f, n) ==
  /\ \A m \in Names : ~ Home(f, m)
  /\ \A x \in Files : \A m \in Names : Home(x, m)' => Home(x, m) \/ (x = f /\ m = n)
  /\ file'[f] # "Absent" /\ \A c \in Creators : ~ Drafting(c, f)'
  /\ \A x \in Files : file[x] # "Absent" =>
       file'[x] # "Absent" /\ \A c \in Creators : Drafting(c, x)' => Drafting(c, x)

HomeKind == HomesStay \/ PowerLoss \/ \E f \in Files, n \in Names : NewHome(f, n)

\* A death changes no name.
LEMMA HomesOutlive ==
  ASSUME TypeOK, Kill
  PROVE  HomesStay
<1>1. PICK p \in cast \ {Display} : Forget({p}) /\ Leaves(dir, dir', p)
  BY KillLeaves
<1>2. dir'.names = dir.names /\ file' = file
  BY <1>1 DEF Kill, Leaves
<1>3. \A q \in Processes : IF q = p THEN pc'[q] = "Idle" ELSE pc'[q] = pc[q]
  BY <1>1, SMT DEF Forget, Dead, TypeOK, ActorsOK
<1>4. \A d \in Deleters : (Holding(d) \/ Linked(d))' =>
        (Holding(d) \/ Linked(d)) /\ parcel'[d] = parcel[d] /\ at'[d] = at[d]
  BY <1>1, <1>3, SMT DEF Forget, Holding, Linked, Processes
<1>5. \A d \in Deleters : \A n \in Names : scan'[d][n] # None => scan'[d] = scan[d]
  BY <1>1, SMT DEF Forget, EmptyCatalogue
<1>6. \A c \in Creators : \A f \in Files : Drafting(c, f)' => Drafting(c, f)
  BY <1>1, <1>3, SMT DEF Forget, Drafting, Processes
<1>7. \A f \in Files : \A n \in Names : Home(f, n)' => Home(f, n)
  <2> SUFFICES ASSUME NEW f \in Files, NEW n \in Names, Home(f, n)' PROVE Home(f, n)
    OBVIOUS
  <2>1. CASE dir'.names[n] = f
    BY <2>1, <1>2 DEF Home
  <2>2. ASSUME NEW d \in Deleters, (Holding(d) \/ Linked(d))', parcel'[d] = f, at'[d][1] = n
        PROVE  Home(f, n)
    BY <2>2, <1>4 DEF Home
  <2>3. ASSUME NEW d \in Deleters, scan'[d][n] # None, scan'[d][n][1] = f PROVE Home(f, n)
    BY <2>3, <1>5 DEF Home
  <2> QED
    BY <2>1, <2>2, <2>3 DEF Home
<1> QED
  BY <1>2, <1>6, <1>7 DEF HomesStay

GetsName(f, n) ==
  /\ UNCHANGED <<scan, parcel, at>> /\ \A d \in Deleters : pc'[d] = pc[d]
  /\ \A m \in Names : ~ Home(f, m) /\ dir'.names[m] = IF m = n THEN f ELSE dir.names[m]
  /\ file'[f] # "Absent" /\ \A c \in Creators : ~ Drafting(c, f)'
  /\ \A x \in Files : file[x] # "Absent" =>
       file'[x] # "Absent" /\ \A c \in Creators : Drafting(c, x)' => Drafting(c, x)

\* A nameless file gets its first name.
LEMMA HomeByName ==
  ASSUME NEW f \in Files, NEW n \in Names, GetsName(f, n)
  PROVE  HomeKind
<1> USE DEF GetsName
<1>1. \A x \in Files : \A m \in Names : Home(x, m)' => Home(x, m) \/ (x = f /\ m = n)
  BY SMT DEF Home, Holding, Linked
<1>2. NewHome(f, n)
  BY <1>1 DEF NewHome
<1> QED
  BY <1>2 DEF HomeKind

\* Names stay the only ones.
LEMMA HomeStep ==
  ASSUME TypeOK, TypeOK', PlaceInv', DraftInv', HomeInv, HomeKind
  PROVE  HomeInv'
<1>1. ASSUME HomesStay PROVE HomeInv'
  BY <1>1, Zenon DEF HomesStay, HomeInv
<1>2. ASSUME NEW f \in Files, NEW n \in Names, NewHome(f, n) PROVE HomeInv'
  <2>0. /\ \A m \in Names : ~ Home(f, m)
        /\ \A x \in Files : \A m \in Names : Home(x, m)' => Home(x, m) \/ (x = f /\ m = n)
        /\ \A x \in Files : \A k, m \in Names : Home(x, k) /\ Home(x, m) => k = m
    BY <1>2, Zenon DEF NewHome, HomeInv
  <2>1. ASSUME NEW x \in Files, NEW k \in Names, NEW m \in Names, Home(x, k)', Home(x, m)'
        PROVE  k = m
    <3>1. CASE x = f
      BY <2>0, <2>1, <3>1, Zenon
    <3>2. CASE x # f
      BY <2>0, <2>1, <3>2, Zenon
    <3> QED
      BY <3>1, <3>2
  <2>2. \A x \in Files : \A m \in Names : Home(x, m)' =>
          file'[x] # "Absent" /\ \A c \in Creators : ~ Drafting(c, x)'
    <3> SUFFICES ASSUME NEW x \in Files, NEW m \in Names, Home(x, m)'
                 PROVE  file'[x] # "Absent" /\ \A c \in Creators : ~ Drafting(c, x)'
      OBVIOUS
    <3>1. CASE Home(x, m)
      BY <1>2, <3>1, Zenon DEF NewHome, HomeInv
    <3>2. CASE x = f
      BY <1>2, <3>2, Zenon DEF NewHome
    <3> QED
      BY <1>2, <3>1, <3>2, Zenon DEF NewHome
  <2> QED
    BY <2>1, <2>2, Zenon DEF HomeInv
<1>3. ASSUME PowerLoss PROVE HomeInv'
  <2>1. /\ \A q \in Processes : pc'[q] = "Idle"
        /\ \A d \in Deleters : scan'[d] = EmptyCatalogue
    BY <1>3, SMT DEF PowerLoss, Forget, Dead, TypeOK, ActorsOK, Processes
  <2>2. \A x \in Files : \A m \in Names : Home(x, m)' => dir'.names[m] = x
    BY <2>1, SMT DEF Home, Holding, Linked, EmptyCatalogue, Processes
  <2>3. \A x \in Files : \A m \in Names : dir'.names[m] = x => Known(x)'
    BY DEF Known, Named
  <2>4. \A x \in Files : \A m \in Names : Home(x, m)' => file'[x] # "Absent"
    BY <2>2, <2>3, Zenon DEF DraftInv
  <2>5. \A x \in Files : \A c \in Creators : ~ Drafting(c, x)'
    BY <2>1 DEF Drafting, Processes
  <2>6. \A x \in Files : \A k, m \in Names : Home(x, k)' /\ Home(x, m)' => k = m
    BY <2>2, NoneIsNoFile, SMT DEF PlaceInv
  <2> QED
    BY <2>4, <2>5, <2>6, Zenon DEF HomeInv
<1> QED
  BY <1>1, <1>2, <1>3 DEF HomeKind

Plans(d) == PlanExact(d) \/ PlanTargets(d) \/ PlanPrune(d)

\* The session of d ends, begins, scans one more entry, plans or goes on.
FloorKind(d) ==
  \/ ~ Scanning(d)' /\ ~ Executes(d)'
  \/ pc'[d] = "Scan" /\ scan'[d] = EmptyCatalogue
  \/ ScanEntry(d) \/ Plans(d)
  \/ /\ disturbed[d] \subseteq disturbed'[d]
     /\ Scanning(d)' => Scanning(d) /\ scan'[d] = scan[d]
     /\ Executes(d)' => Executes(d) /\ plan'[d] \subseteq plan[d]

\* Every session that needs f is told, except the one that planned to take it.
Told(f) ==
  \A d \in Deleters : Scanning(d)' \/ Executes(d)' =>
    Group[f] \in disturbed'[d] \/ (Executes(d) /\ Planned(d, f))

ContentKept == \A f \in Files : Firm(f) => file'[f] = file[f] \/ Told(f)

RemoverKind == \A d \in Deleters : pc[d] = "Remove" /\ pc'[d] = "Settle" => Remove(d)

\* What has a place in the directory is no draft.
LEMMA DraftsAreNotFirm ==
  ASSUME DraftInv, NEW f \in Files, Firm(f)
  PROVE  file[f] # "Absent" /\ \A c \in Creators : ~ Drafting(c, f)
<1>1. Known(f)
  BY DEF Firm, Known, Hidden
<1> QED
  BY <1>1, Zenon DEF DraftInv, Drafting

\* enforce_retention_floor leaves a whole backup of every disk out of the plan:
\* another file, because no file was scanned under two names.
LEMMA RetentionFloorSpares ==
  ASSUME TypeOK, HomeInv, NEW d \in Deleters, NEW T \in SUBSET Names,
         RetentionFloor(scan[d], T), NEW n \in T, scan[d][n] # None, scan[d][n][2] = "Whole",
         Group[scan[d][n][1]] \in Groups
  PROVE  \E m \in Names : /\ scan[d][m] # None /\ scan[d][m][2] = "Whole"
                          /\ Group[scan[d][m][1]] = Group[scan[d][n][1]]
                          /\ \A k \in T : scan[d][k] # None => scan[d][k][1] # scan[d][m][1]
<1> DEFINE g == Group[scan[d][n][1]]
<1>1. n \in InGroup(scan[d], g) \intersect T
  BY DEF InGroup, GroupOf
<1>2. PICK m \in InGroup(scan[d], g) : m \notin T
  BY <1>1 DEF RetentionFloor
<1>3. m \in Names /\ scan[d][m] # None /\ scan[d][m][2] = "Whole" /\ Group[scan[d][m][1]] = g
  BY <1>2, UnidentifiedIsNoGroup DEF InGroup, GroupOf
<1>4. \A k \in Names : scan[d][k] # None => scan[d][k][1] \in Files /\ Home(scan[d][k][1], k)
  <2>1. \A k \in Names : scan[d][k] # None => scan[d][k] \in Digests
    BY DEF TypeOK, PlansOK, Catalogues
  <2>2. \A x \in Digests : x[1] \in Files
    BY DEF Digests
  <2> QED
    BY <2>1, <2>2, Zenon DEF Home
<1>5. \A k \in T : scan[d][k] # None => scan[d][k][1] # scan[d][m][1]
  BY <1>2, <1>3, <1>4, Zenon DEF HomeInv
<1> QED
  BY <1>3, <1>5

-----------------------------------------------------------------------------
(***************************************************************************)
(* Every action keeps every part of the invariant, and is of a known kind. *)
(***************************************************************************)
LEMMA FilesStep == TypeOK /\ [Next]_vars => FilesOK'
<1> SUFFICES ASSUME TypeOK, [Next]_vars PROVE FilesOK'
  OBVIOUS
<1> USE ProcessesDiffer, ListedIsNamed
<1> USE DEF TypeOK, FilesOK, ActorsOK, Holding, Linked, InHand, Processes, PlansOK, Directories,
        Goto, At, SameFiles, fileVars, boundVars, sessionVars, creatorVars, displayVars, actorVars,
        Others
<1>1. ASSUME NEW d \in Deleters, OpenSession(d), Others PROVE FilesOK'
  BY <1>1, SMT DEF OpenSession, Present
<1>2. ASSUME NEW d \in Deleters, ScanEntry(d), Others PROVE FilesOK'
  BY <1>2, SMT DEF ScanEntry, Entry
<1>3. ASSUME NEW d \in Deleters, PlanExact(d), Others PROVE FilesOK'
  BY <1>3, SMT DEF PlanExact, Fix
<1>4. ASSUME NEW d \in Deleters, PlanTargets(d), Others PROVE FilesOK'
  BY <1>4, SMT DEF PlanTargets, Fix, Present
<1>5. ASSUME NEW d \in Deleters, PlanPrune(d), Others PROVE FilesOK'
  <2>1. PICK T, A : Fix(d, T, A)
    BY <1>5 DEF PlanPrune
  <2> QED
    BY <1>5, <2>1, SMT DEF Fix
<1>6. ASSUME NEW d \in Deleters, DropSession(d), Others PROVE FilesOK'
  BY <1>6, SMT DEF DropSession
<1>7. ASSUME NEW d \in Deleters, TakeUp(d), Others PROVE FilesOK'
  BY <1>7, SMT DEF TakeUp, Executing, Pass
<1>8. ASSUME NEW d \in Deleters, Isolate(d), Others PROVE FilesOK'
  BY <1>8, SMT DEF Isolate, Executing, Occupant, Original
<1>9. ASSUME NEW d \in Deleters, IsolateFails(d), Others PROVE FilesOK'
  BY <1>9, SMT DEF IsolateFails, Executing, NextEntry, Pass
<1>10. ASSUME NEW d \in Deleters, Verify(d), Others PROVE FilesOK'
  BY <1>10, SMT DEF Verify, Executing, SameEntry, NamesSynced, Moving
<1>11. ASSUME NEW d \in Deleters, VerifyFails(d), Others PROVE FilesOK'
  BY <1>11, SMT DEF VerifyFails, Executing, SameEntry
<1>12. ASSUME NEW d \in Deleters, Remove(d), Others PROVE FilesOK'
  BY <1>12, SMT DEF Remove, Executing, Unhide, Parcel
<1>13. ASSUME NEW d \in Deleters, RemoveFails(d), Others PROVE FilesOK'
  BY <1>13, SMT DEF RemoveFails, Executing, SameEntry
<1>14. ASSUME NEW d \in Deleters, Settle(d), Others PROVE FilesOK'
  BY <1>14, SMT DEF Settle, Executing, NextEntry, Pass, Parcel
<1>15. ASSUME NEW d \in Deleters, Relink(d), Others PROVE FilesOK'
  <2>1. parcel[d] \in Files
    BY <1>15, SMT DEF Relink, Executing
  <2>2. /\ dir' = [dir EXCEPT !.names[Original(d)] = parcel[d]]
        /\ UNCHANGED <<cast, created, file, disk, crashes>>
    BY <1>15 DEF Relink, Executing
  <2>3. dir' \in Directories
    BY <2>1, <2>2, RenamedTyped
  <2> HIDE DEF Directories
  <2> QED
    BY <2>2, <2>3, SMT
<1>16. ASSUME NEW d \in Deleters, SyncRelink(d), Others PROVE FilesOK'
  BY <1>16, SMT DEF SyncRelink, Executing, SameEntry, NamesSynced, Moving
<1>17. ASSUME NEW d \in Deleters, Release(d), Others PROVE FilesOK'
  <2>1. dir' \in Directories
    BY <1>17, SMT DEF Release, Unhide
  <2> QED
    BY <1>17, <2>1, SMT DEF Release, Executing
<1>18. ASSUME NEW d \in Deleters, Retain(d), Others PROVE FilesOK'
  <2>1. dir' = Left(dir, {d}) /\ disk' = Left(disk, {d})
    BY <1>18 DEF Retain
  <2>2. dir' \in Directories /\ disk' \in Directories
    BY <2>1, LeftTyped
  <2>3. UNCHANGED <<cast, created, file, crashes>>
    BY <1>18 DEF Retain, Executing
  <2> HIDE DEF Directories
  <2> QED
    BY <2>2, <2>3, SMT
<1>19. ASSUME NEW c \in Creators, StartBackup(c), UNCHANGED cast PROVE FilesOK'
  BY <1>19, SMT DEF StartBackup, Making
<1>20. ASSUME NEW c \in Creators, WriteContainer(c), UNCHANGED cast PROVE FilesOK'
  BY <1>20, SMT DEF WriteContainer, Making
<1>21. ASSUME NEW c \in Creators, SyncContainer(c), UNCHANGED cast PROVE FilesOK'
  BY <1>21, SMT DEF SyncContainer, Making
<1>22. ASSUME NEW c \in Creators, Publish(c), UNCHANGED cast PROVE FilesOK'
  <2>1. draft[c] \in Files /\ dir' = [dir EXCEPT !.names[goal[c]] = draft[c]]
    BY <1>22, SMT DEF Publish, Making
  <2>2. dir' \in Directories
    BY <2>1, SMT
  <2> QED
    BY <1>22, <2>2 DEF Publish, Making
<1>23. ASSUME NEW c \in Creators, FinishBackup(c), UNCHANGED cast PROVE FilesOK'
  BY <1>23, SMT DEF FinishBackup, Making, EndBackup, NamesSynced, Moving
<1>24. ASSUME NEW c \in Creators, BackupFails(c), UNCHANGED cast PROVE FilesOK'
  BY <1>24, SMT DEF BackupFails, Making, EndBackup
<1>25. CASE StartListing /\ UNCHANGED cast
  BY <1>25, SMT DEF StartListing, Listing
<1>26. CASE ListKnown /\ UNCHANGED cast
  BY <1>26, SMT DEF ListKnown, Listing, Hit, Entry
<1>27. CASE ListNew /\ UNCHANGED cast
  BY <1>27, SMT DEF ListNew, Listing, Entry
<1>28. CASE Read /\ UNCHANGED cast
  BY <1>28, SMT DEF Read, Listing, Entry
<1>29. CASE Recheck /\ UNCHANGED cast
  BY <1>29, SMT DEF Recheck, Listing, Remember
<1>30. CASE ListingRefused /\ UNCHANGED cast
  BY <1>30, SMT DEF ListingRefused, Listing
<1>31. CASE FinishListing /\ UNCHANGED cast
  BY <1>31, SMT DEF FinishListing, Listing
<1>32. CASE NamesCommit /\ UNCHANGED <<cast, actorVars>>
  BY <1>32, SMT DEF NamesCommit, NamesSynced, Moving
<1>33. CASE HiddenCommits /\ UNCHANGED <<cast, actorVars>>
  BY <1>33, SMT DEF HiddenCommits
<1>34. CASE ChangeInPlace /\ UNCHANGED cast
  BY <1>34, SMT DEF ChangeInPlace, Meddle, Disturb
<1>35. CASE CopyIn /\ UNCHANGED cast
  <2> SUFFICES ASSUME CopyIn PROVE FilesOK'
    BY <1>35 DEF TypeOK, FilesOK
  <2>1. PICK f \in Copies, n \in Names :
          /\ file' = [file EXCEPT ![f] = "Written"] /\ dir' = [dir EXCEPT !.names[n] = f]
    BY DEF CopyIn
  <2>2. f \in Files
    BY FilesAreNumbered
  <2>3. file' \in [Files -> {"Absent", "Part", "Written", "Whole", "Changed"}] /\ dir' \in Directories
    BY <2>1, <2>2, SMT
  <2> QED
    BY <1>35, <2>3 DEF CopyIn, Meddle
<1>36. CASE Kill /\ UNCHANGED cast
  <2>1. PICK p : dir' = Left(dir, {p}) /\ disk' = Left(disk, {p})
    BY <1>36 DEF Kill
  <2>2. dir' \in Directories /\ disk' \in Directories
    BY <2>1, LeftTyped DEF TypeOK, FilesOK
  <2>3. crashes' = crashes + 1 /\ UNCHANGED <<cast, created, file>>
    BY <1>36 DEF Kill, Crash
  <2> QED
    BY <2>2, <2>3, SMT
<1>37. CASE PowerLoss /\ UNCHANGED cast
  <2>1. dir' = Left(disk, Deleters) /\ disk' = dir'
    BY <1>37 DEF PowerLoss
  <2>2. dir' \in Directories /\ disk' \in Directories
    BY <2>1, LeftTyped
  <2>3. file' \in [Files -> {"Absent", "Part", "Written", "Whole", "Changed"}]
    BY <1>37, SMT DEF PowerLoss
  <2>4. crashes' = crashes + 1 /\ UNCHANGED <<cast, created>>
    BY <1>37 DEF PowerLoss, Crash
  <2> QED
    BY <1>37, <2>2, <2>3, <2>4, SMT DEF PowerLoss, Crash
<1>38. CASE UNCHANGED vars
  BY <1>38, SMT DEF vars
<1> QED
  BY <1>1, <1>2, <1>3, <1>4, <1>5, <1>6, <1>7, <1>8, <1>9, <1>10, <1>11, <1>12, <1>13, <1>14, <1>15,
     <1>16, <1>17, <1>18, <1>19, <1>20, <1>21, <1>22, <1>23, <1>24, <1>25, <1>26, <1>27, <1>28,
     <1>29, <1>30, <1>31, <1>32, <1>33, <1>34, <1>35, <1>36, <1>37, <1>38 DEF Next, Delete, Execute,
     MakeBackup, List

\* So do the processes,
LEMMA ActorsStep == TypeOK /\ [Next]_vars => ActorsOK'
<1> SUFFICES ASSUME TypeOK, [Next]_vars PROVE ActorsOK'
  OBVIOUS
<1> USE ProcessesDiffer
<1> USE DEF TypeOK, FilesOK, ActorsOK, Holding, Linked, InHand, Processes, PlansOK, Directories,
        Steps, Goto, At, SameFiles, fileVars, boundVars, sessionVars, creatorVars, displayVars,
        actorVars, Others
<1>1. ASSUME NEW d \in Deleters, OpenSession(d), Others PROVE ActorsOK'
  BY <1>1, SMT DEF OpenSession, Present
<1>2. ASSUME NEW d \in Deleters, ScanEntry(d), Others PROVE ActorsOK'
  BY <1>2, SMT DEF ScanEntry, Entry
<1>3. ASSUME NEW d \in Deleters, PlanExact(d), Others PROVE ActorsOK'
  BY <1>3, SMT DEF PlanExact, Fix
<1>4. ASSUME NEW d \in Deleters, PlanTargets(d), Others PROVE ActorsOK'
  BY <1>4, SMT DEF PlanTargets, Fix, Present
<1>5. ASSUME NEW d \in Deleters, PlanPrune(d), Others PROVE ActorsOK'
  <2>1. PICK T, A : Fix(d, T, A)
    BY <1>5 DEF PlanPrune
  <2> QED
    BY <1>5, <2>1, SMT DEF Fix
<1>6. ASSUME NEW d \in Deleters, DropSession(d), Others PROVE ActorsOK'
  BY <1>6, SMT DEF DropSession
<1>7. ASSUME NEW d \in Deleters, TakeUp(d), Others PROVE ActorsOK'
  <2>1. PICK e \in plan[d] :
          \/ at' = [at EXCEPT ![d] = e] /\ Goto(d, "Isolate") /\ UNCHANGED <<plan, parcel, disturbed>>
          \/ Pass(d, e)
    BY <1>7 DEF TakeUp
  <2>2. CASE Goto(d, "Isolate") /\ UNCHANGED <<plan, parcel, disturbed>>
    BY <1>7, <2>2, SMT DEF TakeUp, Executing
  <2>3. CASE Pass(d, e)
    BY <1>7, <2>3, SMT DEF TakeUp, Executing, Pass
  <2> QED
    BY <2>1, <2>2, <2>3
<1>8. ASSUME NEW d \in Deleters, Isolate(d), Others PROVE ActorsOK'
  BY <1>8, SMT DEF Isolate, Executing, Occupant, Original
<1>9. ASSUME NEW d \in Deleters, IsolateFails(d), Others PROVE ActorsOK'
  BY <1>9, SMT DEF IsolateFails, Executing, NextEntry, Pass
<1>10. ASSUME NEW d \in Deleters, Verify(d), Others PROVE ActorsOK'
  BY <1>10, SMT DEF Verify, Executing, SameEntry, NamesSynced, Moving
<1>11. ASSUME NEW d \in Deleters, VerifyFails(d), Others PROVE ActorsOK'
  BY <1>11, SMT DEF VerifyFails, Executing, SameEntry
<1>12. ASSUME NEW d \in Deleters, Remove(d), Others PROVE ActorsOK'
  BY <1>12, SMT DEF Remove, Executing, Unhide, Parcel
<1>13. ASSUME NEW d \in Deleters, RemoveFails(d), Others PROVE ActorsOK'
  BY <1>13, SMT DEF RemoveFails, Executing, SameEntry
<1>14. ASSUME NEW d \in Deleters, Settle(d), Others PROVE ActorsOK'
  BY <1>14, SMT DEF Settle, Executing, NextEntry, Pass, Parcel
<1>15. ASSUME NEW d \in Deleters, Relink(d), Others PROVE ActorsOK'
  BY <1>15, SMT DEF Relink, Executing, SameEntry, Original, Occupant
<1>16. ASSUME NEW d \in Deleters, SyncRelink(d), Others PROVE ActorsOK'
  BY <1>16, SMT DEF SyncRelink, Executing, SameEntry, NamesSynced, Moving
<1>17. ASSUME NEW d \in Deleters, Release(d), Others PROVE ActorsOK'
  BY <1>17, SMT DEF Release, Executing, NextEntry, Pass, Unhide, Parcel
<1>18. ASSUME NEW d \in Deleters, Retain(d), Others PROVE ActorsOK'
  BY <1>18, SMT DEF Retain, Executing, NextEntry, Pass, Left
<1>19. ASSUME NEW c \in Creators, StartBackup(c), UNCHANGED cast PROVE ActorsOK'
  BY <1>19, SMT DEF StartBackup, Making
<1>20. ASSUME NEW c \in Creators, WriteContainer(c), UNCHANGED cast PROVE ActorsOK'
  BY <1>20, SMT DEF WriteContainer, Making
<1>21. ASSUME NEW c \in Creators, SyncContainer(c), UNCHANGED cast PROVE ActorsOK'
  BY <1>21, SMT DEF SyncContainer, Making
<1>22. ASSUME NEW c \in Creators, Publish(c), UNCHANGED cast PROVE ActorsOK'
  BY <1>22, SMT DEF Publish, Making
<1>23. ASSUME NEW c \in Creators, FinishBackup(c), UNCHANGED cast PROVE ActorsOK'
  BY <1>23, SMT DEF FinishBackup, Making, EndBackup, NamesSynced, Moving
<1>24. ASSUME NEW c \in Creators, BackupFails(c), UNCHANGED cast PROVE ActorsOK'
  BY <1>24, SMT DEF BackupFails, Making, EndBackup
<1>25. CASE StartListing /\ UNCHANGED cast
  BY <1>25, SMT DEF StartListing, Listing
<1>26. CASE ListKnown /\ UNCHANGED cast
  BY <1>26, SMT DEF ListKnown, Listing, Hit, Entry
<1>27. CASE ListNew /\ UNCHANGED cast
  BY <1>27, SMT DEF ListNew, Listing, Entry
<1>28. CASE Read /\ UNCHANGED cast
  BY <1>28, SMT DEF Read, Listing, Entry
<1>29. CASE Recheck /\ UNCHANGED cast
  BY <1>29, SMT DEF Recheck, Listing, Remember
<1>30. CASE ListingRefused /\ UNCHANGED cast
  BY <1>30, SMT DEF ListingRefused, Listing
<1>31. CASE FinishListing /\ UNCHANGED cast
  BY <1>31, SMT DEF FinishListing, Listing
<1>32. CASE NamesCommit /\ UNCHANGED <<cast, actorVars>>
  BY <1>32, SMT DEF NamesCommit, NamesSynced, Moving
<1>33. CASE HiddenCommits /\ UNCHANGED <<cast, actorVars>>
  BY <1>33, SMT DEF HiddenCommits
<1>34. CASE ChangeInPlace /\ UNCHANGED cast
  BY <1>34, SMT DEF ChangeInPlace, Meddle, Disturb
<1>35. CASE CopyIn /\ UNCHANGED cast
  BY <1>35, SMT DEF CopyIn, Meddle
<1>36. CASE Kill /\ UNCHANGED cast
  BY <1>36, SMT DEF Kill, Crash, Forget, Dead, Left
<1>37. CASE PowerLoss /\ UNCHANGED cast
  BY <1>37, SMT DEF PowerLoss, Crash, Forget, Dead, Left
<1>38. CASE UNCHANGED vars
  BY <1>38, SMT DEF vars
<1> QED
  BY <1>1, <1>2, <1>3, <1>4, <1>5, <1>6, <1>7, <1>8, <1>9, <1>10, <1>11, <1>12, <1>13, <1>14, <1>15,
     <1>16, <1>17, <1>18, <1>19, <1>20, <1>21, <1>22, <1>23, <1>24, <1>25, <1>26, <1>27, <1>28,
     <1>29, <1>30, <1>31, <1>32, <1>33, <1>34, <1>35, <1>36, <1>37, <1>38 DEF Next, Delete, Execute,
     MakeBackup, List

\* the sessions' scans and plans,
LEMMA PlansStep == TypeOK /\ [Next]_vars => PlansOK'
<1> SUFFICES ASSUME TypeOK, [Next]_vars PROVE PlansOK'
  OBVIOUS
<1> USE ProcessesDiffer
<1> USE DEF TypeOK, FilesOK, ActorsOK, Holding, Linked, InHand, Processes, PlansOK, DisplayOK,
        Catalogues, Pins, EmptyCatalogue, Digest, Content, Digests, Directories, Goto, At,
        SameFiles, fileVars, boundVars, sessionVars, creatorVars, displayVars, actorVars, Others
<1>1. ASSUME NEW d \in Deleters, OpenSession(d), Others PROVE PlansOK'
  <2>1. pins' \in [Deleters -> Pins \union {None}]
    <3>1. CASE pins' = [pins EXCEPT ![d] = None]
      BY <3>1, SMT
    <3>2. ASSUME NEW T \in SUBSET Present(list), pins' = [pins EXCEPT ![d] = [n \in T |-> list[n]]]
          PROVE  pins' \in [Deleters -> Pins \union {None}]
      <4>1. T \in SUBSET Names /\ [n \in T |-> list[n]] \in [T -> Digests]
        BY DEF Present
      <4>2. [n \in T |-> list[n]] \in Pins
        BY <4>1
      <4> QED
        BY <3>2, <4>2, SMT
    <3> QED
      BY <1>1, <3>1, <3>2 DEF OpenSession
  <2> QED
    BY <1>1, <2>1, SMT DEF OpenSession
<1>2. ASSUME NEW d \in Deleters, ScanEntry(d), Others PROVE PlansOK'
  BY <1>2, SMT DEF ScanEntry, Entry
<1>3. ASSUME NEW d \in Deleters, PlanExact(d), Others PROVE PlansOK'
  <2>1. PICK T \in SUBSET Names : pins[d] \in [T -> Digests]
    BY <1>3 DEF PlanExact
  <2>2. DOMAIN pins[d] = T /\ Range(pins[d]) \in SUBSET Digests /\ \A n \in T : scan[d][n] \in Digests
    BY <1>3, <2>1 DEF PlanExact, Range
  <2> QED
    BY <1>3, <2>2, FixTyped DEF PlanExact
<1>4. ASSUME NEW d \in Deleters, PlanTargets(d), Others PROVE PlansOK'
  <2>1. PICK T \in SUBSET Present(scan[d]) : Fix(d, T, {scan[d][n] : n \in T})
    BY <1>4 DEF PlanTargets
  <2>2. T \in SUBSET Names /\ (\A n \in T : scan[d][n] \in Digests)
    BY DEF Present
  <2>3. {scan[d][n] : n \in T} \in SUBSET Digests
    BY <2>2
  <2> QED
    BY <1>4, <2>1, <2>2, <2>3, FixTyped
<1>5. ASSUME NEW d \in Deleters, PlanPrune(d), Others PROVE PlansOK'
  <2>1. PICK keep \in Keeps : LET T == PruneCandidates(scan[d], keep) IN Fix(d, T, {scan[d][n] : n \in T})
    BY <1>5 DEF PlanPrune
  <2> DEFINE T == PruneCandidates(scan[d], keep)
  <2>2. T \in SUBSET Names /\ (\A n \in T : scan[d][n] \in Digests)
    BY DEF PruneCandidates, GroupOf
  <2>3. {scan[d][n] : n \in T} \in SUBSET Digests
    BY <2>2
  <2> HIDE DEF T
  <2> QED
    BY <1>5, <2>1, <2>2, <2>3, FixTyped DEF T
<1>6. ASSUME NEW d \in Deleters, DropSession(d), Others PROVE PlansOK'
  BY <1>6, SMT DEF DropSession
<1>7. ASSUME NEW d \in Deleters, TakeUp(d), Others PROVE PlansOK'
  <2>1. PICK e \in plan[d] :
          \/ at' = [at EXCEPT ![d] = e] /\ Goto(d, "Isolate") /\ UNCHANGED <<plan, parcel, disturbed>>
          \/ Pass(d, e)
    BY <1>7 DEF TakeUp
  <2>2. CASE at' = [at EXCEPT ![d] = e] /\ Goto(d, "Isolate") /\ UNCHANGED <<plan, parcel, disturbed>>
    <3>1. e \in Names \X Digests
      BY SMT
    <3> QED
      BY <1>7, <2>2, <3>1, SMT DEF TakeUp, Executing
  <2>3. CASE Pass(d, e)
    BY <1>7, <2>3, SMT DEF TakeUp, Executing, Pass
  <2> QED
    BY <2>1, <2>2, <2>3
<1>8. ASSUME NEW d \in Deleters, Isolate(d), Others PROVE PlansOK'
  BY <1>8, SMT DEF Isolate, Executing, Occupant, Original
<1>9. ASSUME NEW d \in Deleters, IsolateFails(d), Others PROVE PlansOK'
  BY <1>9, SMT DEF IsolateFails, Executing, NextEntry, Pass
<1>10. ASSUME NEW d \in Deleters, Verify(d), Others PROVE PlansOK'
  BY <1>10, SMT DEF Verify, Executing, SameEntry, NamesSynced, Moving
<1>11. ASSUME NEW d \in Deleters, VerifyFails(d), Others PROVE PlansOK'
  BY <1>11, SMT DEF VerifyFails, Executing, SameEntry
<1>12. ASSUME NEW d \in Deleters, Remove(d), Others PROVE PlansOK'
  BY <1>12, SMT DEF Remove, Executing, Unhide, Parcel
<1>13. ASSUME NEW d \in Deleters, RemoveFails(d), Others PROVE PlansOK'
  BY <1>13, SMT DEF RemoveFails, Executing, SameEntry
<1>14. ASSUME NEW d \in Deleters, Settle(d), Others PROVE PlansOK'
  BY <1>14, SMT DEF Settle, Executing, NextEntry, Pass, Parcel
<1>15. ASSUME NEW d \in Deleters, Relink(d), Others PROVE PlansOK'
  BY <1>15, SMT DEF Relink, Executing, SameEntry, Original, Occupant
<1>16. ASSUME NEW d \in Deleters, SyncRelink(d), Others PROVE PlansOK'
  BY <1>16, SMT DEF SyncRelink, Executing, SameEntry, NamesSynced, Moving
<1>17. ASSUME NEW d \in Deleters, Release(d), Others PROVE PlansOK'
  BY <1>17, SMT DEF Release, Executing, NextEntry, Pass, Unhide, Parcel
<1>18. ASSUME NEW d \in Deleters, Retain(d), Others PROVE PlansOK'
  BY <1>18, SMT DEF Retain, Executing, NextEntry, Pass, Left
<1>19. ASSUME NEW c \in Creators, StartBackup(c), UNCHANGED cast PROVE PlansOK'
  BY <1>19, SMT DEF StartBackup, Making
<1>20. ASSUME NEW c \in Creators, WriteContainer(c), UNCHANGED cast PROVE PlansOK'
  BY <1>20, SMT DEF WriteContainer, Making
<1>21. ASSUME NEW c \in Creators, SyncContainer(c), UNCHANGED cast PROVE PlansOK'
  BY <1>21, SMT DEF SyncContainer, Making
<1>22. ASSUME NEW c \in Creators, Publish(c), UNCHANGED cast PROVE PlansOK'
  BY <1>22, SMT DEF Publish, Making
<1>23. ASSUME NEW c \in Creators, FinishBackup(c), UNCHANGED cast PROVE PlansOK'
  BY <1>23, SMT DEF FinishBackup, Making, EndBackup, NamesSynced, Moving
<1>24. ASSUME NEW c \in Creators, BackupFails(c), UNCHANGED cast PROVE PlansOK'
  BY <1>24, SMT DEF BackupFails, Making, EndBackup
<1>25. CASE StartListing /\ UNCHANGED cast
  BY <1>25, SMT DEF StartListing, Listing
<1>26. CASE ListKnown /\ UNCHANGED cast
  BY <1>26, SMT DEF ListKnown, Listing, Hit, Entry
<1>27. CASE ListNew /\ UNCHANGED cast
  BY <1>27, SMT DEF ListNew, Listing, Entry
<1>28. CASE Read /\ UNCHANGED cast
  BY <1>28, SMT DEF Read, Listing, Entry
<1>29. CASE Recheck /\ UNCHANGED cast
  BY <1>29, SMT DEF Recheck, Listing, Remember
<1>30. CASE ListingRefused /\ UNCHANGED cast
  BY <1>30, SMT DEF ListingRefused, Listing
<1>31. CASE FinishListing /\ UNCHANGED cast
  BY <1>31, SMT DEF FinishListing, Listing
<1>32. CASE NamesCommit /\ UNCHANGED <<cast, actorVars>>
  BY <1>32, SMT DEF NamesCommit, NamesSynced, Moving
<1>33. CASE HiddenCommits /\ UNCHANGED <<cast, actorVars>>
  BY <1>33, SMT DEF HiddenCommits
<1>34. CASE ChangeInPlace /\ UNCHANGED cast
  BY <1>34, SMT DEF ChangeInPlace, Meddle, Disturb
<1>35. CASE CopyIn /\ UNCHANGED cast
  BY <1>35, SMT DEF CopyIn, Meddle
<1>36. CASE Kill /\ UNCHANGED cast
  BY <1>36, SMT DEF Kill, Crash, Forget, Dead, Left
<1>37. CASE PowerLoss /\ UNCHANGED cast
  BY <1>37, SMT DEF PowerLoss, Crash, Forget, Dead, Left
<1>38. CASE UNCHANGED vars
  BY <1>38, SMT DEF vars
<1> QED
  BY <1>1, <1>2, <1>3, <1>4, <1>5, <1>6, <1>7, <1>8, <1>9, <1>10, <1>11, <1>12, <1>13, <1>14, <1>15,
     <1>16, <1>17, <1>18, <1>19, <1>20, <1>21, <1>22, <1>23, <1>24, <1>25, <1>26, <1>27, <1>28,
     <1>29, <1>30, <1>31, <1>32, <1>33, <1>34, <1>35, <1>36, <1>37, <1>38 DEF Next, Delete, Execute,
     MakeBackup, List

\* and the displayed catalogue.
LEMMA DisplayStep == TypeOK /\ [Next]_vars => DisplayOK'
<1> SUFFICES ASSUME TypeOK, [Next]_vars PROVE DisplayOK'
  OBVIOUS
<1> USE ProcessesDiffer, NoneIsNoFile
<1> USE DEF TypeOK, FilesOK, ActorsOK, Holding, Linked, InHand, Processes, DisplayOK, Catalogues,
        EmptyCatalogue, Digest, Content, Digests, Directories, Goto, At, SameFiles, fileVars,
        boundVars, sessionVars, creatorVars, displayVars, actorVars, Others
<1>1. ASSUME NEW d \in Deleters, OpenSession(d), Others PROVE DisplayOK'
  BY <1>1, SMT DEF OpenSession, Present
<1>2. ASSUME NEW d \in Deleters, ScanEntry(d), Others PROVE DisplayOK'
  BY <1>2, SMT DEF ScanEntry, Entry
<1>3. ASSUME NEW d \in Deleters, PlanExact(d), Others PROVE DisplayOK'
  BY <1>3, SMT DEF PlanExact, Fix
<1>4. ASSUME NEW d \in Deleters, PlanTargets(d), Others PROVE DisplayOK'
  BY <1>4, SMT DEF PlanTargets, Fix, Present
<1>5. ASSUME NEW d \in Deleters, PlanPrune(d), Others PROVE DisplayOK'
  <2>1. PICK T, A : Fix(d, T, A)
    BY <1>5 DEF PlanPrune
  <2> QED
    BY <1>5, <2>1, SMT DEF Fix
<1>6. ASSUME NEW d \in Deleters, DropSession(d), Others PROVE DisplayOK'
  BY <1>6, SMT DEF DropSession
<1>7. ASSUME NEW d \in Deleters, TakeUp(d), Others PROVE DisplayOK'
  BY <1>7, SMT DEF TakeUp, Executing, Pass
<1>8. ASSUME NEW d \in Deleters, Isolate(d), Others PROVE DisplayOK'
  BY <1>8, SMT DEF Isolate, Executing, Occupant, Original
<1>9. ASSUME NEW d \in Deleters, IsolateFails(d), Others PROVE DisplayOK'
  BY <1>9, SMT DEF IsolateFails, Executing, NextEntry, Pass
<1>10. ASSUME NEW d \in Deleters, Verify(d), Others PROVE DisplayOK'
  BY <1>10, SMT DEF Verify, Executing, SameEntry, NamesSynced, Moving
<1>11. ASSUME NEW d \in Deleters, VerifyFails(d), Others PROVE DisplayOK'
  BY <1>11, SMT DEF VerifyFails, Executing, SameEntry
<1>12. ASSUME NEW d \in Deleters, Remove(d), Others PROVE DisplayOK'
  BY <1>12, SMT DEF Remove, Executing, Unhide, Parcel
<1>13. ASSUME NEW d \in Deleters, RemoveFails(d), Others PROVE DisplayOK'
  BY <1>13, SMT DEF RemoveFails, Executing, SameEntry
<1>14. ASSUME NEW d \in Deleters, Settle(d), Others PROVE DisplayOK'
  BY <1>14, SMT DEF Settle, Executing, NextEntry, Pass, Parcel
<1>15. ASSUME NEW d \in Deleters, Relink(d), Others PROVE DisplayOK'
  BY <1>15, SMT DEF Relink, Executing, SameEntry, Original, Occupant
<1>16. ASSUME NEW d \in Deleters, SyncRelink(d), Others PROVE DisplayOK'
  BY <1>16, SMT DEF SyncRelink, Executing, SameEntry, NamesSynced, Moving
<1>17. ASSUME NEW d \in Deleters, Release(d), Others PROVE DisplayOK'
  BY <1>17, SMT DEF Release, Executing, NextEntry, Pass, Unhide, Parcel
<1>18. ASSUME NEW d \in Deleters, Retain(d), Others PROVE DisplayOK'
  BY <1>18, SMT DEF Retain, Executing, NextEntry, Pass, Left
<1>19. ASSUME NEW c \in Creators, StartBackup(c), UNCHANGED cast PROVE DisplayOK'
  BY <1>19, SMT DEF StartBackup, Making
<1>20. ASSUME NEW c \in Creators, WriteContainer(c), UNCHANGED cast PROVE DisplayOK'
  BY <1>20, SMT DEF WriteContainer, Making
<1>21. ASSUME NEW c \in Creators, SyncContainer(c), UNCHANGED cast PROVE DisplayOK'
  BY <1>21, SMT DEF SyncContainer, Making
<1>22. ASSUME NEW c \in Creators, Publish(c), UNCHANGED cast PROVE DisplayOK'
  BY <1>22, SMT DEF Publish, Making
<1>23. ASSUME NEW c \in Creators, FinishBackup(c), UNCHANGED cast PROVE DisplayOK'
  BY <1>23, SMT DEF FinishBackup, Making, EndBackup, NamesSynced, Moving
<1>24. ASSUME NEW c \in Creators, BackupFails(c), UNCHANGED cast PROVE DisplayOK'
  BY <1>24, SMT DEF BackupFails, Making, EndBackup
<1>25. CASE StartListing /\ UNCHANGED cast
  BY <1>25, SMT DEF StartListing, Listing
<1>26. CASE ListKnown /\ UNCHANGED cast
  BY <1>26, SMT DEF ListKnown, Listing, Hit, Entry
<1>27. CASE ListNew /\ UNCHANGED cast
  BY <1>27, SMTT(30) DEF ListNew, Listing, Entry
<1>28. CASE Read /\ UNCHANGED cast
  BY <1>28, SMTT(30) DEF Read, Listing, Entry
<1>29. CASE Recheck /\ UNCHANGED cast
  BY <1>29, SMT DEF Recheck, Listing, Remember
<1>30. CASE ListingRefused /\ UNCHANGED cast
  BY <1>30, SMT DEF ListingRefused, Listing
<1>31. CASE FinishListing /\ UNCHANGED cast
  BY <1>31, SMT DEF FinishListing, Listing
<1>32. CASE NamesCommit /\ UNCHANGED <<cast, actorVars>>
  BY <1>32, SMT DEF NamesCommit, NamesSynced, Moving
<1>33. CASE HiddenCommits /\ UNCHANGED <<cast, actorVars>>
  BY <1>33, SMT DEF HiddenCommits
<1>34. CASE ChangeInPlace /\ UNCHANGED cast
  BY <1>34, SMT DEF ChangeInPlace, Meddle, Disturb
<1>35. CASE CopyIn /\ UNCHANGED cast
  BY <1>35, SMT DEF CopyIn, Meddle
<1>36. CASE Kill /\ UNCHANGED cast
  BY <1>36, SMT DEF Kill, Crash, Forget, Dead, Left
<1>37. CASE PowerLoss /\ UNCHANGED cast
  BY <1>37, SMT DEF PowerLoss, Crash, Forget, Dead, Left
<1>38. CASE UNCHANGED vars
  BY <1>38, SMT DEF vars
<1> QED
  BY <1>1, <1>2, <1>3, <1>4, <1>5, <1>6, <1>7, <1>8, <1>9, <1>10, <1>11, <1>12, <1>13, <1>14, <1>15,
     <1>16, <1>17, <1>18, <1>19, <1>20, <1>21, <1>22, <1>23, <1>24, <1>25, <1>26, <1>27, <1>28,
     <1>29, <1>30, <1>31, <1>32, <1>33, <1>34, <1>35, <1>36, <1>37, <1>38 DEF Next, Delete, Execute,
     MakeBackup, List

\* Hidden entries and parcels stay the same thing.
LEMMA ParcelStep == TypeOK /\ ParcelInv /\ PlaceInv /\ DraftInv /\ [Next]_vars => ParcelInv'
<1> SUFFICES ASSUME TypeOK /\ ParcelInv /\ PlaceInv /\ DraftInv, [Next]_vars PROVE ParcelInv'
  OBVIOUS
<1> USE ProcessesDiffer, ListedIsNamed, FilesAreNumbered, NoneIsNoFile
<1> USE DEF TypeOK, FilesOK, ActorsOK, Holding, Linked, InHand, Processes, Named, Hidden, Firm,
        Promised, Known, OnDisk, Directories, PlansOK, ParcelInv, PlaceInv, DraftInv, Digest,
        Content, Goto, At, SameFiles, fileVars, boundVars, sessionVars, creatorVars, displayVars,
        actorVars, Others
<1>1. ASSUME NEW d \in Deleters, OpenSession(d), Others PROVE ParcelInv'
  BY <1>1, SMT DEF OpenSession, Present
<1>2. ASSUME NEW d \in Deleters, ScanEntry(d), Others PROVE ParcelInv'
  BY <1>2, SMT DEF ScanEntry, Entry
<1>3. ASSUME NEW d \in Deleters, PlanExact(d), Others PROVE ParcelInv'
  <2>1. \A n \in DOMAIN pins[d] : scan[d][n] \in Range(pins[d])
    BY <1>3 DEF PlanExact, Range
  <2> QED
    BY <1>3, <2>1, FixConfirmed DEF PlanExact
<1>4. ASSUME NEW d \in Deleters, PlanTargets(d), Others PROVE ParcelInv'
  <2>1. PICK T \in SUBSET Present(scan[d]) : Fix(d, T, {scan[d][n] : n \in T})
    BY <1>4 DEF PlanTargets
  <2> QED
    BY <1>4, <2>1, FixConfirmed
<1>5. ASSUME NEW d \in Deleters, PlanPrune(d), Others PROVE ParcelInv'
  <2>1. PICK keep \in Keeps : LET T == PruneCandidates(scan[d], keep) IN Fix(d, T, {scan[d][n] : n \in T})
    BY <1>5 DEF PlanPrune
  <2> QED
    BY <1>5, <2>1, FixConfirmed
<1>6. ASSUME NEW d \in Deleters, DropSession(d), Others PROVE ParcelInv'
  BY <1>6, SMT DEF DropSession
<1>7. ASSUME NEW d \in Deleters, TakeUp(d), Others PROVE ParcelInv'
  <2>1. PICK e \in plan[d] :
          \/ at' = [at EXCEPT ![d] = e] /\ Goto(d, "Isolate") /\ UNCHANGED <<plan, parcel, disturbed>>
          \/ Pass(d, e)
    BY <1>7 DEF TakeUp
  <2>2. CASE at' = [at EXCEPT ![d] = e] /\ Goto(d, "Isolate") /\ UNCHANGED <<plan, parcel, disturbed>>
    BY <1>7, <2>2, SMT DEF TakeUp, Executing
  <2>3. CASE Pass(d, e)
    BY <1>7, <2>3, SMT DEF TakeUp, Executing, Pass
  <2> QED
    BY <2>1, <2>2, <2>3
<1>8. ASSUME NEW d \in Deleters, Isolate(d), Others PROVE ParcelInv'
  BY <1>8, SMT DEF Isolate, Executing, Occupant, Original
<1>9. ASSUME NEW d \in Deleters, IsolateFails(d), Others PROVE ParcelInv'
  BY <1>9, SMT DEF IsolateFails, Executing, NextEntry, Pass
<1>10. ASSUME NEW d \in Deleters, Verify(d), Others PROVE ParcelInv'
  BY <1>10, SMT DEF Verify, Executing, SameEntry, NamesSynced, Moving
<1>11. ASSUME NEW d \in Deleters, VerifyFails(d), Others PROVE ParcelInv'
  BY <1>11, SMT DEF VerifyFails, Executing, SameEntry
<1>12. ASSUME NEW d \in Deleters, Remove(d), Others PROVE ParcelInv'
  BY <1>12, SMT DEF Remove, Executing, Unhide, Parcel
<1>13. ASSUME NEW d \in Deleters, RemoveFails(d), Others PROVE ParcelInv'
  BY <1>13, SMT DEF RemoveFails, Executing, SameEntry
<1>14. ASSUME NEW d \in Deleters, Settle(d), Others PROVE ParcelInv'
  BY <1>14, SMT DEF Settle, Executing, NextEntry, Pass, Parcel
<1>15. ASSUME NEW d \in Deleters, Relink(d), Others PROVE ParcelInv'
  BY <1>15, SMT DEF Relink, Executing, SameEntry, Original, Occupant
<1>16. ASSUME NEW d \in Deleters, SyncRelink(d), Others PROVE ParcelInv'
  BY <1>16, SMT DEF SyncRelink, Executing, SameEntry, NamesSynced, Moving
<1>17. ASSUME NEW d \in Deleters, Release(d), Others PROVE ParcelInv'
  BY <1>17, SMT DEF Release, Executing, NextEntry, Pass, Unhide, Parcel
<1>18. ASSUME NEW d \in Deleters, Retain(d), Others PROVE ParcelInv'
  <2>1. Leaves(dir, dir', d)
    BY <1>18, RetainLeaves
  <2>2. StepsAside(d)
    BY <1>18, SMT DEF StepsAside, Retain, Executing, NextEntry, Pass
  <2> HIDE DEF TypeOK, ParcelInv
  <2> QED
    BY <2>1, <2>2, ParcelLeft
<1>19. ASSUME NEW c \in Creators, StartBackup(c), UNCHANGED cast PROVE ParcelInv'
  <2>1. PICK f \in Files \ Copies : file[f] = "Absent" /\ file' = [file EXCEPT ![f] = "Part"]
    BY <1>19 DEF StartBackup
  <2>2. \A d \in Deleters : pc[d] = "Remove" => Digest(parcel[d])' = Digest(parcel[d])
    BY <1>19, <2>1, ParcelsAreKnown, SMT DEF StartBackup, Making
  <2> HIDE DEF Digest
  <2> QED
    BY <1>19, <2>2, SMT DEF StartBackup, Making
<1>20. ASSUME NEW c \in Creators, WriteContainer(c), UNCHANGED cast PROVE ParcelInv'
  <2>0. pc[c] = "Body" /\ c \in Creators
    BY <1>20 DEF WriteContainer, Making, At
  <2>1. ASSUME NEW d \in Deleters, pc[d] = "Remove"
        PROVE  parcel[d] # draft[c] /\ file[parcel[d]] # "Absent"
    <3>1. Holding(d)
      BY <2>1 DEF Holding
    <3> QED
      BY <2>0, <3>1, ParcelsAreKnown
  <2>2. \A d \in Deleters : pc[d] = "Remove" => Digest(parcel[d])' = Digest(parcel[d])
    BY <1>20, <2>1, SMT DEF WriteContainer, Making
  <2> HIDE DEF Digest
  <2> QED
    BY <1>20, <2>2, SMT DEF WriteContainer, Making
<1>21. ASSUME NEW c \in Creators, SyncContainer(c), UNCHANGED cast PROVE ParcelInv'
  <2>0. pc[c] = "Sync" /\ c \in Creators
    BY <1>21 DEF SyncContainer, Making, At
  <2>1. ASSUME NEW d \in Deleters, pc[d] = "Remove"
        PROVE  parcel[d] # draft[c] /\ file[parcel[d]] # "Absent"
    <3>1. Holding(d)
      BY <2>1 DEF Holding
    <3> QED
      BY <2>0, <3>1, ParcelsAreKnown
  <2>2. \A d \in Deleters : pc[d] = "Remove" => Digest(parcel[d])' = Digest(parcel[d])
    BY <1>21, <2>1, SMT DEF SyncContainer, Making
  <2> HIDE DEF Digest
  <2> QED
    BY <1>21, <2>2, SMT DEF SyncContainer, Making
<1>22. ASSUME NEW c \in Creators, Publish(c), UNCHANGED cast PROVE ParcelInv'
  BY <1>22, SMT DEF Publish, Making
<1>23. ASSUME NEW c \in Creators, FinishBackup(c), UNCHANGED cast PROVE ParcelInv'
  BY <1>23, SMT DEF FinishBackup, Making, EndBackup, NamesSynced, Moving
<1>24. ASSUME NEW c \in Creators, BackupFails(c), UNCHANGED cast PROVE ParcelInv'
  BY <1>24, SMT DEF BackupFails, Making, EndBackup
<1>25. CASE StartListing /\ UNCHANGED cast
  BY <1>25, SMT DEF StartListing, Listing
<1>26. CASE ListKnown /\ UNCHANGED cast
  BY <1>26, SMT DEF ListKnown, Listing, Hit, Entry
<1>27. CASE ListNew /\ UNCHANGED cast
  BY <1>27, SMT DEF ListNew, Listing, Entry
<1>28. CASE Read /\ UNCHANGED cast
  BY <1>28, SMT DEF Read, Listing, Entry
<1>29. CASE Recheck /\ UNCHANGED cast
  BY <1>29, SMT DEF Recheck, Listing, Remember
<1>30. CASE ListingRefused /\ UNCHANGED cast
  BY <1>30, SMT DEF ListingRefused, Listing
<1>31. CASE FinishListing /\ UNCHANGED cast
  BY <1>31, SMT DEF FinishListing, Listing
<1>32. CASE NamesCommit /\ UNCHANGED <<cast, actorVars>>
  BY <1>32, SMT DEF NamesCommit, NamesSynced, Moving
<1>33. CASE HiddenCommits /\ UNCHANGED <<cast, actorVars>>
  BY <1>33, SMT DEF HiddenCommits
<1>34. CASE ChangeInPlace /\ UNCHANGED cast
  BY <1>34, SMT DEF ChangeInPlace, Meddle, Disturb
<1>35. CASE CopyIn /\ UNCHANGED cast
  <2>1. PICK f \in Copies, n \in Names :
          /\ file[f] = "Absent" /\ dir.names[n] = None
          /\ file' = [file EXCEPT ![f] = "Written"] /\ dir' = [dir EXCEPT !.names[n] = f]
    BY <1>35 DEF CopyIn
  <2>2. \A d \in Deleters : pc[d] = "Remove" => Digest(parcel[d])' = Digest(parcel[d])
    BY <1>35, <2>1, ParcelsAreKnown, SMT DEF CopyIn
  <2>3. dir'.hidden = dir.hidden
    BY <2>1, SMT
  <2> HIDE DEF Digest
  <2> QED
    BY <1>35, <2>2, <2>3, SMT DEF CopyIn
<1>36. CASE Kill /\ UNCHANGED cast
  <2>1. PICK p \in cast \ {Display} : Forget({p}) /\ Leaves(dir, dir', p)
    BY <1>36, KillLeaves
  <2>2. StepsAside(p)
    BY <1>36, <2>1, SMT DEF StepsAside, Kill, Forget, Dead
  <2> HIDE DEF TypeOK, ParcelInv
  <2> QED
    BY <2>1, <2>2, ParcelLeft
<1>37. CASE PowerLoss /\ UNCHANGED cast
  BY <1>37, SMT DEF PowerLoss, Crash, Forget, Dead, Left
<1>38. CASE UNCHANGED vars
  BY <1>38, SMT DEF vars
<1> QED
  BY <1>1, <1>2, <1>3, <1>4, <1>5, <1>6, <1>7, <1>8, <1>9, <1>10, <1>11, <1>12, <1>13, <1>14, <1>15,
     <1>16, <1>17, <1>18, <1>19, <1>20, <1>21, <1>22, <1>23, <1>24, <1>25, <1>26, <1>27, <1>28,
     <1>29, <1>30, <1>31, <1>32, <1>33, <1>34, <1>35, <1>36, <1>37, <1>38 DEF Next, Delete, Execute,
     MakeBackup, List

\* Names and parcels stay exclusive.
LEMMA PlaceStep == TypeOK /\ ParcelInv /\ PlaceInv /\ DraftInv /\ [Next]_vars => PlaceInv'
<1> SUFFICES ASSUME TypeOK /\ ParcelInv /\ PlaceInv /\ DraftInv, [Next]_vars PROVE PlaceInv'
  OBVIOUS
<1> USE ProcessesDiffer, ListedIsNamed, FilesAreNumbered, NoneIsNoFile
<1> USE DEF TypeOK, FilesOK, ActorsOK, Holding, Linked, InHand, Processes, Named, Hidden, Firm,
        Promised, Known, OnDisk, Directories, PlansOK, ParcelInv, PlaceInv, DraftInv, Goto, At,
        SameFiles, fileVars, boundVars, sessionVars, creatorVars, displayVars, actorVars, Others
<1>1. ASSUME NEW d \in Deleters, OpenSession(d), Others PROVE PlaceInv'
  BY <1>1, SMT DEF OpenSession, Present
<1>2. ASSUME NEW d \in Deleters, ScanEntry(d), Others PROVE PlaceInv'
  BY <1>2, SMT DEF ScanEntry, Entry
<1>3. ASSUME NEW d \in Deleters, PlanExact(d), Others PROVE PlaceInv'
  BY <1>3, SMT DEF PlanExact, Fix
<1>4. ASSUME NEW d \in Deleters, PlanTargets(d), Others PROVE PlaceInv'
  BY <1>4, SMT DEF PlanTargets, Fix, Present
<1>5. ASSUME NEW d \in Deleters, PlanPrune(d), Others PROVE PlaceInv'
  <2>1. PICK T, A : Fix(d, T, A)
    BY <1>5 DEF PlanPrune
  <2> QED
    BY <1>5, <2>1, SMT DEF Fix
<1>6. ASSUME NEW d \in Deleters, DropSession(d), Others PROVE PlaceInv'
  BY <1>6, SMT DEF DropSession
<1>7. ASSUME NEW d \in Deleters, TakeUp(d), Others PROVE PlaceInv'
  <2>1. PICK e \in plan[d] :
          \/ at' = [at EXCEPT ![d] = e] /\ Goto(d, "Isolate") /\ UNCHANGED <<plan, parcel, disturbed>>
          \/ Pass(d, e)
    BY <1>7 DEF TakeUp
  <2>2. CASE at' = [at EXCEPT ![d] = e] /\ Goto(d, "Isolate") /\ UNCHANGED <<plan, parcel, disturbed>>
    BY <1>7, <2>2, SMT DEF TakeUp, Executing
  <2>3. CASE Pass(d, e)
    BY <1>7, <2>3, SMT DEF TakeUp, Executing, Pass
  <2> QED
    BY <2>1, <2>2, <2>3
<1>8. ASSUME NEW d \in Deleters, Isolate(d), Others PROVE PlaceInv'
  BY <1>8, SMT DEF Isolate, Executing, Occupant, Original
<1>9. ASSUME NEW d \in Deleters, IsolateFails(d), Others PROVE PlaceInv'
  BY <1>9, SMT DEF IsolateFails, Executing, NextEntry, Pass
<1>10. ASSUME NEW d \in Deleters, Verify(d), Others PROVE PlaceInv'
  BY <1>10, SMT DEF Verify, Executing, SameEntry, NamesSynced, Moving
<1>11. ASSUME NEW d \in Deleters, VerifyFails(d), Others PROVE PlaceInv'
  BY <1>11, SMT DEF VerifyFails, Executing, SameEntry
<1>12. ASSUME NEW d \in Deleters, Remove(d), Others PROVE PlaceInv'
  BY <1>12, SMT DEF Remove, Executing, Unhide, Parcel
<1>13. ASSUME NEW d \in Deleters, RemoveFails(d), Others PROVE PlaceInv'
  BY <1>13, SMT DEF RemoveFails, Executing, SameEntry
<1>14. ASSUME NEW d \in Deleters, Settle(d), Others PROVE PlaceInv'
  BY <1>14, SMT DEF Settle, Executing, NextEntry, Pass, Parcel
<1>15. ASSUME NEW d \in Deleters, Relink(d), Others PROVE PlaceInv'
  BY <1>15, SMT DEF Relink, Executing, SameEntry, Original, Occupant
<1>16. ASSUME NEW d \in Deleters, SyncRelink(d), Others PROVE PlaceInv'
  BY <1>16, SMT DEF SyncRelink, Executing, SameEntry, NamesSynced, Moving
<1>17. ASSUME NEW d \in Deleters, Release(d), Others PROVE PlaceInv'
  BY <1>17, SMT DEF Release, Executing, NextEntry, Pass, Unhide, Parcel
<1>18. ASSUME NEW d \in Deleters, Retain(d), Others PROVE PlaceInv'
  BY <1>18, SMT DEF Retain, Executing, NextEntry, Pass, Left
<1>19. ASSUME NEW c \in Creators, StartBackup(c), UNCHANGED cast PROVE PlaceInv'
  BY <1>19, SMT DEF StartBackup, Making
<1>20. ASSUME NEW c \in Creators, WriteContainer(c), UNCHANGED cast PROVE PlaceInv'
  BY <1>20, SMT DEF WriteContainer, Making
<1>21. ASSUME NEW c \in Creators, SyncContainer(c), UNCHANGED cast PROVE PlaceInv'
  BY <1>21, SMT DEF SyncContainer, Making
<1>22. ASSUME NEW c \in Creators, Publish(c), UNCHANGED cast PROVE PlaceInv'
  <2>1. /\ draft[c] \in Files /\ \A n \in Names : dir.names[n] # draft[c]
        /\ \A d \in Deleters : Holding(d) => parcel[d] # draft[c]
    <3>1. pc[c] = "Publish"
      BY <1>22 DEF Publish, Making
    <3> HIDE DEF ParcelInv, DraftInv, Holding
    <3> QED
      BY <3>1, DraftIsNew
  <2>2. /\ dir' = [dir EXCEPT !.names[goal[c]] = draft[c]] /\ UNCHANGED <<disk, parcel>>
        /\ \A d \in Deleters : pc'[d] = pc[d]
    BY <1>22, SMT DEF Publish, Making
  <2>3. dir'.names = [dir.names EXCEPT ![goal[c]] = draft[c]]
    BY <2>2, SMT
  <2> QED
    BY <2>1, <2>2, <2>3, SMT
<1>23. ASSUME NEW c \in Creators, FinishBackup(c), UNCHANGED cast PROVE PlaceInv'
  BY <1>23, SMT DEF FinishBackup, Making, EndBackup, NamesSynced, Moving
<1>24. ASSUME NEW c \in Creators, BackupFails(c), UNCHANGED cast PROVE PlaceInv'
  BY <1>24, SMT DEF BackupFails, Making, EndBackup
<1>25. CASE StartListing /\ UNCHANGED cast
  BY <1>25, SMT DEF StartListing, Listing
<1>26. CASE ListKnown /\ UNCHANGED cast
  BY <1>26, SMT DEF ListKnown, Listing, Hit, Entry
<1>27. CASE ListNew /\ UNCHANGED cast
  BY <1>27, SMT DEF ListNew, Listing, Entry
<1>28. CASE Read /\ UNCHANGED cast
  BY <1>28, SMT DEF Read, Listing, Entry
<1>29. CASE Recheck /\ UNCHANGED cast
  BY <1>29, SMT DEF Recheck, Listing, Remember
<1>30. CASE ListingRefused /\ UNCHANGED cast
  BY <1>30, SMT DEF ListingRefused, Listing
<1>31. CASE FinishListing /\ UNCHANGED cast
  BY <1>31, SMT DEF FinishListing, Listing
<1>32. CASE NamesCommit /\ UNCHANGED <<cast, actorVars>>
  BY <1>32, SMT DEF NamesCommit, NamesSynced, Moving
<1>33. CASE HiddenCommits /\ UNCHANGED <<cast, actorVars>>
  BY <1>33, SMT DEF HiddenCommits
<1>34. CASE ChangeInPlace /\ UNCHANGED cast
  BY <1>34, SMT DEF ChangeInPlace, Meddle, Disturb
<1>35. CASE CopyIn /\ UNCHANGED cast
  <2>1. PICK f \in Copies, n \in Names :
          /\ file[f] = "Absent" /\ dir.names[n] = None /\ dir' = [dir EXCEPT !.names[n] = f]
    BY <1>35 DEF CopyIn
  <2>2. /\ f \in Files /\ \A m \in Names : dir.names[m] # f
        /\ \A d \in Deleters : Holding(d) => parcel[d] # f
    BY <2>1, ParcelsAreKnown, SMT
  <2>3. /\ dir'.names = [dir.names EXCEPT ![n] = f] /\ UNCHANGED <<disk, parcel, pc>>
    BY <1>35, <2>1, SMT DEF CopyIn
  <2> QED
    BY <2>1, <2>2, <2>3, SMT
<1>36. CASE Kill /\ UNCHANGED cast
  BY <1>36, SMT DEF Kill, Crash, Forget, Dead, Left
<1>37. CASE PowerLoss /\ UNCHANGED cast
  BY <1>37, SMT DEF PowerLoss, Crash, Forget, Dead, Left
<1>38. CASE UNCHANGED vars
  BY <1>38, SMT DEF vars
<1> QED
  BY <1>1, <1>2, <1>3, <1>4, <1>5, <1>6, <1>7, <1>8, <1>9, <1>10, <1>11, <1>12, <1>13, <1>14, <1>15,
     <1>16, <1>17, <1>18, <1>19, <1>20, <1>21, <1>22, <1>23, <1>24, <1>25, <1>26, <1>27, <1>28,
     <1>29, <1>30, <1>31, <1>32, <1>33, <1>34, <1>35, <1>36, <1>37, <1>38 DEF Next, Delete, Execute,
     MakeBackup, List

\* What is shown or promised stays whole, and drafts stay private.
LEMMA DraftStep == TypeOK /\ ParcelInv /\ PlaceInv /\ DraftInv /\ [Next]_vars => DraftInv'
<1> SUFFICES ASSUME TypeOK /\ ParcelInv /\ PlaceInv /\ DraftInv, [Next]_vars PROVE DraftInv'
  OBVIOUS
<1> USE ProcessesDiffer, ListedIsNamed, FilesAreNumbered, NoneIsNoFile
<1> USE DEF TypeOK, FilesOK, ActorsOK, Holding, Linked, InHand, Processes, Named, Hidden, Firm,
        Promised, Known, OnDisk, Directories, PlansOK, ParcelInv, PlaceInv, DraftInv, Goto, At,
        SameFiles, fileVars, boundVars, sessionVars, creatorVars, displayVars, actorVars, Others
<1>1. ASSUME NEW d \in Deleters, OpenSession(d), Others PROVE DraftInv'
  <2>1. /\ UNCHANGED <<file, created, draft>> /\ \A c \in Creators : pc'[c] = pc[c]
        /\ \A f \in Files : Named(f)' \/ Hidden(f)' \/ OnDisk(f)' => Known(f)
    BY <1>1, SMT DEF OpenSession, Present
  <2> HIDE DEF Named, Hidden, OnDisk, Known, DraftInv
  <2> QED
    BY <2>1, DraftSame, SMT
<1>2. ASSUME NEW d \in Deleters, ScanEntry(d), Others PROVE DraftInv'
  <2>1. /\ UNCHANGED <<file, created, draft>> /\ \A c \in Creators : pc'[c] = pc[c]
        /\ \A f \in Files : Named(f)' \/ Hidden(f)' \/ OnDisk(f)' => Known(f)
    BY <1>2, SMT DEF ScanEntry, Entry
  <2> HIDE DEF Named, Hidden, OnDisk, Known, DraftInv
  <2> QED
    BY <2>1, DraftSame, SMT
<1>3. ASSUME NEW d \in Deleters, PlanExact(d), Others PROVE DraftInv'
  <2>1. /\ UNCHANGED <<file, created, draft>> /\ \A c \in Creators : pc'[c] = pc[c]
        /\ \A f \in Files : Named(f)' \/ Hidden(f)' \/ OnDisk(f)' => Known(f)
    BY <1>3, SMT DEF PlanExact, Fix
  <2> HIDE DEF Named, Hidden, OnDisk, Known, DraftInv
  <2> QED
    BY <2>1, DraftSame, SMT
<1>4. ASSUME NEW d \in Deleters, PlanTargets(d), Others PROVE DraftInv'
  <2>1. /\ UNCHANGED <<file, created, draft>> /\ \A c \in Creators : pc'[c] = pc[c]
        /\ \A f \in Files : Named(f)' \/ Hidden(f)' \/ OnDisk(f)' => Known(f)
    BY <1>4, SMT DEF PlanTargets, Fix, Present
  <2> HIDE DEF Named, Hidden, OnDisk, Known, DraftInv
  <2> QED
    BY <2>1, DraftSame, SMT
<1>5. ASSUME NEW d \in Deleters, PlanPrune(d), Others PROVE DraftInv'
  <2>0. PICK T, A : Fix(d, T, A)
    BY <1>5 DEF PlanPrune
  <2>1. /\ UNCHANGED <<file, created, draft>> /\ \A c \in Creators : pc'[c] = pc[c]
        /\ \A f \in Files : Named(f)' \/ Hidden(f)' \/ OnDisk(f)' => Known(f)
    BY <1>5, <2>0, SMT DEF Fix
  <2> HIDE DEF Named, Hidden, OnDisk, Known, DraftInv
  <2> QED
    BY <2>1, DraftSame, SMT
<1>6. ASSUME NEW d \in Deleters, DropSession(d), Others PROVE DraftInv'
  <2>1. /\ UNCHANGED <<file, created, draft>> /\ \A c \in Creators : pc'[c] = pc[c]
        /\ \A f \in Files : Named(f)' \/ Hidden(f)' \/ OnDisk(f)' => Known(f)
    BY <1>6, SMT DEF DropSession
  <2> HIDE DEF Named, Hidden, OnDisk, Known, DraftInv
  <2> QED
    BY <2>1, DraftSame, SMT
<1>7. ASSUME NEW d \in Deleters, TakeUp(d), Others PROVE DraftInv'
  <2>1. /\ UNCHANGED <<file, dir, disk, created, draft>> /\ \A c \in Creators : pc'[c] = pc[c]
    BY <1>7, SMT DEF TakeUp, Executing, Pass
  <2>2. \A f \in Files : Named(f)' \/ Hidden(f)' \/ OnDisk(f)' => Known(f)
    BY <2>1, SMT
  <2> HIDE DEF Named, Hidden, OnDisk, Known, DraftInv
  <2> QED
    BY <2>1, <2>2, DraftSame, SMT
<1>8. ASSUME NEW d \in Deleters, Isolate(d), Others PROVE DraftInv'
  <2>1. /\ UNCHANGED <<file, created, draft>> /\ \A c \in Creators : pc'[c] = pc[c]
        /\ \A f \in Files : Named(f)' \/ Hidden(f)' \/ OnDisk(f)' => Known(f)
    BY <1>8, SMT DEF Isolate, Executing, Occupant, Original
  <2> HIDE DEF Named, Hidden, OnDisk, Known, DraftInv
  <2> QED
    BY <2>1, DraftSame, SMT
<1>9. ASSUME NEW d \in Deleters, IsolateFails(d), Others PROVE DraftInv'
  <2>1. /\ UNCHANGED <<file, created, draft>> /\ \A c \in Creators : pc'[c] = pc[c]
        /\ \A f \in Files : Named(f)' \/ Hidden(f)' \/ OnDisk(f)' => Known(f)
    BY <1>9, SMT DEF IsolateFails, Executing, NextEntry, Pass
  <2> HIDE DEF Named, Hidden, OnDisk, Known, DraftInv
  <2> QED
    BY <2>1, DraftSame, SMT
<1>10. ASSUME NEW d \in Deleters, Verify(d), Others PROVE DraftInv'
  <2>1. /\ UNCHANGED <<file, created, draft>> /\ \A c \in Creators : pc'[c] = pc[c]
        /\ \A f \in Files : Named(f)' \/ Hidden(f)' \/ OnDisk(f)' => Known(f)
    BY <1>10, SMT DEF Verify, Executing, SameEntry, NamesSynced, Moving
  <2> HIDE DEF Named, Hidden, OnDisk, Known, DraftInv
  <2> QED
    BY <2>1, DraftSame, SMT
<1>11. ASSUME NEW d \in Deleters, VerifyFails(d), Others PROVE DraftInv'
  <2>1. /\ UNCHANGED <<file, created, draft>> /\ \A c \in Creators : pc'[c] = pc[c]
        /\ \A f \in Files : Named(f)' \/ Hidden(f)' \/ OnDisk(f)' => Known(f)
    BY <1>11, SMT DEF VerifyFails, Executing, SameEntry
  <2> HIDE DEF Named, Hidden, OnDisk, Known, DraftInv
  <2> QED
    BY <2>1, DraftSame, SMT
<1>12. ASSUME NEW d \in Deleters, Remove(d), Others PROVE DraftInv'
  <2>1. /\ UNCHANGED <<file, created, draft>> /\ \A c \in Creators : pc'[c] = pc[c]
        /\ \A f \in Files : Named(f)' \/ Hidden(f)' \/ OnDisk(f)' => Known(f)
    BY <1>12, SMT DEF Remove, Executing, Unhide, Parcel
  <2> HIDE DEF Named, Hidden, OnDisk, Known, DraftInv
  <2> QED
    BY <2>1, DraftSame, SMT
<1>13. ASSUME NEW d \in Deleters, RemoveFails(d), Others PROVE DraftInv'
  <2>1. /\ UNCHANGED <<file, created, draft>> /\ \A c \in Creators : pc'[c] = pc[c]
        /\ \A f \in Files : Named(f)' \/ Hidden(f)' \/ OnDisk(f)' => Known(f)
    BY <1>13, SMT DEF RemoveFails, Executing, SameEntry
  <2> HIDE DEF Named, Hidden, OnDisk, Known, DraftInv
  <2> QED
    BY <2>1, DraftSame, SMT
<1>14. ASSUME NEW d \in Deleters, Settle(d), Others PROVE DraftInv'
  <2>1. /\ UNCHANGED <<file, created, draft>> /\ \A c \in Creators : pc'[c] = pc[c]
    BY <1>14, SMT DEF Settle, Executing, NextEntry, Pass
  <2>3. \A f \in Files : Named(f)' \/ Hidden(f)' \/ OnDisk(f)' => Known(f)
    BY <1>14, SettledDisk, Zenon
  <2> HIDE DEF Named, Hidden, OnDisk, Known, DraftInv
  <2> QED
    BY <2>1, <2>3, DraftSame, SMT
<1>15. ASSUME NEW d \in Deleters, Relink(d), Others PROVE DraftInv'
  <2>1. /\ UNCHANGED <<file, created, draft>> /\ \A c \in Creators : pc'[c] = pc[c]
        /\ UNCHANGED disk /\ dir' = [dir EXCEPT !.names[Original(d)] = parcel[d]]
    BY <1>15, SMT DEF Relink, Executing, SameEntry
  <2>2. dir'.hidden = dir.hidden /\ \A n \in Names : dir'.names[n] \in {dir.names[n], parcel[d]}
    BY <2>1, SMT
  <2>3. Hidden(parcel[d])
    <3> HIDE DEF ParcelInv, DraftInv, Holding, Hidden
    <3> QED
      BY <1>15, ParcelsAreKnown DEF Relink, Executing, Holding
  <2>4. \A f \in Files : Named(f)' \/ Hidden(f)' \/ OnDisk(f)' => Named(f) \/ Hidden(f) \/ OnDisk(f)
    BY <2>1, <2>2, <2>3
  <2> HIDE DEF Named, Hidden, OnDisk, DraftInv
  <2> QED
    BY <2>1, <2>4, DraftSame, SMT
<1>16. ASSUME NEW d \in Deleters, SyncRelink(d), Others PROVE DraftInv'
  <2>1. /\ UNCHANGED <<file, created, draft>> /\ \A c \in Creators : pc'[c] = pc[c]
        /\ \A f \in Files : Named(f)' \/ Hidden(f)' \/ OnDisk(f)' => Known(f)
    BY <1>16, SMT DEF SyncRelink, Executing, SameEntry, NamesSynced, Moving
  <2> HIDE DEF Named, Hidden, OnDisk, Known, DraftInv
  <2> QED
    BY <2>1, DraftSame, SMT
<1>17. ASSUME NEW d \in Deleters, Release(d), Others PROVE DraftInv'
  <2>1. /\ UNCHANGED <<file, created, draft>> /\ \A c \in Creators : pc'[c] = pc[c]
        /\ \A f \in Files : Named(f)' \/ Hidden(f)' \/ OnDisk(f)' => Known(f)
    BY <1>17, SMT DEF Release, Executing, NextEntry, Pass, Unhide, Parcel
  <2> HIDE DEF Named, Hidden, OnDisk, Known, DraftInv
  <2> QED
    BY <2>1, DraftSame, SMT
<1>18. ASSUME NEW d \in Deleters, Retain(d), Others PROVE DraftInv'
  <2>1. /\ UNCHANGED <<file, created, draft>> /\ \A c \in Creators : pc'[c] = pc[c]
        /\ \A f \in Files : Named(f)' \/ Hidden(f)' \/ OnDisk(f)' => Known(f)
    BY <1>18, SMT DEF Retain, Executing, NextEntry, Pass, Left
  <2> HIDE DEF Named, Hidden, OnDisk, Known, DraftInv
  <2> QED
    BY <2>1, DraftSame, SMT
<1>19. ASSUME NEW c \in Creators, StartBackup(c), UNCHANGED cast PROVE DraftInv'
  <2> HIDE DEF TypeOK, DraftInv
  <2> QED
    BY <1>19, NewDraft
<1>20. ASSUME NEW c \in Creators, WriteContainer(c), UNCHANGED cast PROVE DraftInv'
  <2>1. draft[c] \in Files /\ Rewrites(draft[c], "Written")
    BY <1>20, SMT DEF WriteContainer, Making, Rewrites
  <2> HIDE DEF TypeOK, DraftInv
  <2> QED
    BY <2>1, Rewritten
<1>21. ASSUME NEW c \in Creators, SyncContainer(c), UNCHANGED cast PROVE DraftInv'
  <2>1. draft[c] \in Files /\ Rewrites(draft[c], "Whole")
    BY <1>21, SMT DEF SyncContainer, Making, Rewrites
  <2> HIDE DEF TypeOK, DraftInv
  <2> QED
    BY <2>1, Rewritten
<1>22. ASSUME NEW c \in Creators, Publish(c), UNCHANGED cast PROVE DraftInv'
  BY <1>22, SMT DEF Publish, Making
<1>23. ASSUME NEW c \in Creators, FinishBackup(c), UNCHANGED cast PROVE DraftInv'
  BY <1>23, SMT DEF FinishBackup, Making, EndBackup, NamesSynced, Moving
<1>24. ASSUME NEW c \in Creators, BackupFails(c), UNCHANGED cast PROVE DraftInv'
  BY <1>24, SMT DEF BackupFails, Making, EndBackup
<1>25. CASE StartListing /\ UNCHANGED cast
  BY <1>25, SMT DEF StartListing, Listing
<1>26. CASE ListKnown /\ UNCHANGED cast
  BY <1>26, SMT DEF ListKnown, Listing, Hit, Entry
<1>27. CASE ListNew /\ UNCHANGED cast
  BY <1>27, SMT DEF ListNew, Listing, Entry
<1>28. CASE Read /\ UNCHANGED cast
  BY <1>28, SMT DEF Read, Listing, Entry
<1>29. CASE Recheck /\ UNCHANGED cast
  BY <1>29, SMT DEF Recheck, Listing, Remember
<1>30. CASE ListingRefused /\ UNCHANGED cast
  BY <1>30, SMT DEF ListingRefused, Listing
<1>31. CASE FinishListing /\ UNCHANGED cast
  BY <1>31, SMT DEF FinishListing, Listing
<1>32. CASE NamesCommit /\ UNCHANGED <<cast, actorVars>>
  BY <1>32, SMT DEF NamesCommit, NamesSynced, Moving
<1>33. CASE HiddenCommits /\ UNCHANGED <<cast, actorVars>>
  BY <1>33, SMT DEF HiddenCommits
<1>34. CASE ChangeInPlace /\ UNCHANGED cast
  <2>1. PICK f \in Listed : file' = [file EXCEPT ![f] = "Changed"]
    BY <1>34 DEF ChangeInPlace
  <2>2. UNCHANGED <<dir, disk, created, draft, pc>>
    BY <1>34 DEF ChangeInPlace, Meddle
  <2>3. f \in Files /\ Named(f)
    OBVIOUS
  <2>4. Rewrites(f, "Changed")
    BY <2>1, <2>2, <2>3 DEF Rewrites
  <2> HIDE DEF TypeOK, DraftInv, Named
  <2> QED
    BY <2>3, <2>4, Rewritten
<1>35. CASE CopyIn /\ UNCHANGED cast
  BY <1>35, SMT DEF CopyIn, Meddle
<1>36. CASE Kill /\ UNCHANGED cast
  <2>1. PICK p \in cast \ {Display} :
          Forget({p}) /\ Leaves(dir, dir', p) /\ Leaves(disk, disk', p)
    BY <1>36, KillLeaves
  <2>2. /\ UNCHANGED <<file, created>>
        /\ \A c \in Creators : (c = p => pc'[c] = "Idle" /\ draft'[c] = None)
                             /\ (c # p => pc'[c] = pc[c] /\ draft'[c] = draft[c])
    BY <1>36, <2>1, SMT DEF Kill, Crash, Forget, Dead
  <2>3. \A f \in Files : Named(f)' \/ Hidden(f)' \/ OnDisk(f)' => Named(f) \/ Hidden(f) \/ OnDisk(f)
    BY <2>1, SMT DEF Leaves
  <2> HIDE DEF Named, Hidden, OnDisk, DraftInv
  <2> QED
    BY <2>2, <2>3, DraftSame, SMT
<1>37. CASE PowerLoss /\ UNCHANGED cast
  <2>1. /\ created' = created /\ disk' = dir' /\ \A c \in Creators : pc'[c] = "Idle"
        /\ \A f \in Files : file'[f] = file[f] \/ (file[f] = "Written" /\ file'[f] = "Part")
    BY <1>37, SMT DEF PowerLoss, Crash, Forget, Dead, Unsynced
  <2>2. \A f \in Files : Named(f)' \/ Hidden(f)' => OnDisk(f)
    BY <1>37, PowerLeaves, SMT
  <2>3. \A f \in Files : Known(f)' => Known(f)
    BY <2>1, <2>2, SMT
  <2> HIDE DEF Known
  <2>4. \A f \in Files : Known(f)' =>
         file'[f] # "Absent" /\ (f \notin Copies => file'[f] \in {"Whole", "Changed"})
    BY <2>1, <2>3, SMT
  <2>5. \A f \in created' : file'[f] \in {"Whole", "Changed"}
    BY <2>1, SMT
  <2> QED
    BY <2>1, <2>4, <2>5, SMT
<1>38. CASE UNCHANGED vars
  BY <1>38, SMT DEF vars
<1> QED
  BY <1>1, <1>2, <1>3, <1>4, <1>5, <1>6, <1>7, <1>8, <1>9, <1>10, <1>11, <1>12, <1>13, <1>14, <1>15,
     <1>16, <1>17, <1>18, <1>19, <1>20, <1>21, <1>22, <1>23, <1>24, <1>25, <1>26, <1>27, <1>28,
     <1>29, <1>30, <1>31, <1>32, <1>33, <1>34, <1>35, <1>36, <1>37, <1>38 DEF Next, Delete, Execute,
     MakeBackup, List

\* Every step is of a known kind.
LEMMA KindStep == TypeOK /\ ParcelInv /\ PlaceInv /\ DraftInv /\ [Next]_vars => Kind
<1> SUFFICES ASSUME TypeOK /\ ParcelInv /\ PlaceInv /\ DraftInv, [Next]_vars PROVE Kind
  OBVIOUS
<1> USE ProcessesDiffer, ListedIsNamed, FilesAreNumbered, NoneIsNoFile
<1> USE DEF TypeOK, FilesOK, ActorsOK, Holding, Linked, InHand, Processes, Promised, Directories,
        Goto, At, SameFiles, fileVars, boundVars, sessionVars, creatorVars, displayVars, actorVars,
        Others
<1>1. ASSUME NEW d \in Deleters, OpenSession(d), Others PROVE Kind
  <2>1. Quiet
    BY <1>1, SMT DEF Quiet, OpenSession, Present
  <2> HIDE DEF TypeOK
  <2> QED
    BY <2>1 DEF Kind
<1>2. ASSUME NEW d \in Deleters, ScanEntry(d), Others PROVE Kind
  <2>1. Quiet
    BY <1>2, SMT DEF Quiet, ScanEntry, Entry
  <2> HIDE DEF TypeOK
  <2> QED
    BY <2>1 DEF Kind
<1>3. ASSUME NEW d \in Deleters, PlanExact(d), Others PROVE Kind
  <2>1. Quiet
    BY <1>3, SMT DEF Quiet, PlanExact, Fix
  <2> HIDE DEF TypeOK
  <2> QED
    BY <2>1 DEF Kind
<1>4. ASSUME NEW d \in Deleters, PlanTargets(d), Others PROVE Kind
  <2>1. Quiet
    BY <1>4, SMT DEF Quiet, PlanTargets, Fix, Present
  <2> HIDE DEF TypeOK
  <2> QED
    BY <2>1 DEF Kind
<1>5. ASSUME NEW d \in Deleters, PlanPrune(d), Others PROVE Kind
  <2>1. PICK T, A : Fix(d, T, A)
    BY <1>5 DEF PlanPrune
  <2>2. Quiet
    BY <1>5, <2>1, SMT DEF Quiet, Fix
  <2> HIDE DEF TypeOK
  <2> QED
    BY <2>2 DEF Kind
<1>6. ASSUME NEW d \in Deleters, DropSession(d), Others PROVE Kind
  <2>1. Quiet
    BY <1>6, SMT DEF Quiet, DropSession
  <2> HIDE DEF TypeOK
  <2> QED
    BY <2>1 DEF Kind
<1>7. ASSUME NEW d \in Deleters, TakeUp(d), Others PROVE Kind
  <2>1. Quiet
    <3>1. PICK e \in plan[d] :
            \/ Goto(d, "Isolate") /\ UNCHANGED <<plan, parcel, disturbed>>
            \/ Pass(d, e)
      BY <1>7 DEF TakeUp
    <3>2. /\ \A x \in Processes : x # d => pc'[x] = pc[x]
          /\ \A x \in Deleters : x # d => parcel'[x] = parcel[x]
          /\ pc[d] = "Next" /\ pc'[d] \in {"Isolate", "Next", "Idle"}
      BY <1>7, <3>1, SMT DEF TakeUp, Executing, Pass
    <3> QED
      BY <1>7, <3>2, SMT DEF Quiet, TakeUp, Executing
  <2> HIDE DEF TypeOK
  <2> QED
    BY <2>1 DEF Kind
<1>8. ASSUME NEW d \in Deleters, Isolate(d), Others PROVE Kind
  <2> HIDE DEF TypeOK
  <2> QED
    BY <1>8 DEF Kind
<1>9. ASSUME NEW d \in Deleters, IsolateFails(d), Others PROVE Kind
  <2>1. Quiet
    BY <1>9, SMT DEF Quiet, IsolateFails, Executing, NextEntry, Pass
  <2> HIDE DEF TypeOK
  <2> QED
    BY <2>1 DEF Kind
<1>10. ASSUME NEW d \in Deleters, Verify(d), Others PROVE Kind
  <2>1. Synced
    BY <1>10, SMT DEF Synced, Verify, Executing, SameEntry, NamesSynced, Moving
  <2> HIDE DEF TypeOK
  <2> QED
    BY <2>1 DEF Kind
<1>11. ASSUME NEW d \in Deleters, VerifyFails(d), Others PROVE Kind
  <2>1. Quiet
    BY <1>11, SMT DEF Quiet, VerifyFails, Executing, SameEntry
  <2> HIDE DEF TypeOK
  <2> QED
    BY <2>1 DEF Kind
<1>12. ASSUME NEW d \in Deleters, Remove(d), Others PROVE Kind
  <2>1. PICK f \in Files : f = parcel[d]
    BY <1>12 DEF Remove, Executing
  <2>2. Drops(d) /\ (pc[d] = "Remove" \/ pc[d] = "Release")
    BY <1>12, SMT DEF Drops, Remove, Executing, Unhide, Parcel
  <2> HIDE DEF TypeOK
  <2> QED
    BY <1>12, <2>1, <2>2 DEF Kind
<1>13. ASSUME NEW d \in Deleters, RemoveFails(d), Others PROVE Kind
  <2>1. Quiet
    BY <1>13, SMT DEF Quiet, RemoveFails, Executing, SameEntry
  <2> HIDE DEF TypeOK
  <2> QED
    BY <2>1 DEF Kind
<1>14. ASSUME NEW d \in Deleters, Settle(d), Others PROVE Kind
  <2>1. <<d, parcel[d]>> \notin dir.hidden
    <3>1. <<d, parcel[d]>>[1] = d /\ d # None
      OBVIOUS
    <3> QED
      BY <1>14, <3>1 DEF ParcelInv, Settle, Executing
  <2>2. disk'.names = disk.names /\ disk.hidden \intersect dir.hidden \subseteq disk'.hidden
    BY <1>14, <2>1, SMT DEF Settle, Parcel
  <2>3. Quiet
    BY <1>14, <2>2, SMT DEF Quiet, Settle, Executing, NextEntry, Pass
  <2> HIDE DEF TypeOK
  <2> QED
    BY <2>3 DEF Kind
<1>15. ASSUME NEW d \in Deleters, Relink(d), Others PROVE Kind
  <2>1. PICK f \in Files : f = parcel[d]
    BY <1>15 DEF Relink, Executing
  <2>2. <<d, f>> \in dir.hidden /\ <<d, f>>[2] = f /\ <<d, f>>[1] = d /\ Holding(d)
    BY <1>15, <2>1 DEF Relink, Executing, ParcelInv
  <2>3. f \in created => Firm(f)
    BY <2>2, Zenon DEF Firm
  <2>4. dir'.hidden = dir.hidden /\ \A n \in Names : dir'.names[n] = IF n = at[d][1] THEN f ELSE dir.names[n]
    BY <1>15, <2>1, SMT DEF Relink, Original
  <2>5. \A x \in Files : Named(x)' <=> (Named(x) \/ x = f)
    <3>1. at[d] \in Names \X Digests /\ dir.names[at[d][1]] = None
      BY <1>15, SMT DEF Relink, Executing, Occupant, Original, PlansOK
    <3>2. at[d][1] \in Names
      BY <3>1
    <3> QED
      BY <2>1, <2>4, <3>1, <3>2, SMT DEF Named
  <2> HIDE DEF Firm, Named
  <2>6. Appears(f)
    BY <1>15, <2>1, <2>3, <2>4, <2>5, SMT DEF Appears, Relink, Executing, SameEntry
  <2> HIDE DEF TypeOK
  <2> QED
    BY <2>1, <2>6 DEF Kind
<1>16. ASSUME NEW d \in Deleters, SyncRelink(d), Others PROVE Kind
  <2>1. Synced
    BY <1>16, SMT DEF Synced, SyncRelink, Executing, SameEntry, NamesSynced, Moving
  <2> HIDE DEF TypeOK
  <2> QED
    BY <2>1 DEF Kind
<1>17. ASSUME NEW d \in Deleters, Release(d), Others PROVE Kind
  <2>1. PICK f \in Files : f = parcel[d]
    BY <1>17 DEF Release, Executing
  <2>2. Drops(d) /\ (pc[d] = "Remove" \/ pc[d] = "Release")
    BY <1>17, SMT DEF Drops, Release, Executing, NextEntry, Pass, Unhide, Parcel
  <2> HIDE DEF TypeOK
  <2> QED
    BY <1>17, <2>1, <2>2 DEF Kind
<1>18. ASSUME NEW d \in Deleters, Retain(d), Others PROVE Kind
  <2>1. Leaves(dir, dir', d) /\ Leaves(disk, disk', d)
    BY <1>18, RetainLeaves
  <2>2. StepsAside(d) /\ created' = created /\ \A f \in Files : Promised(f)' => Promised(f)
    BY <1>18, SMT DEF StepsAside, Retain, Executing, NextEntry, Pass
  <2> HIDE DEF TypeOK
  <2> QED
    BY <2>1, <2>2, Zenon DEF Kind, Aside
<1>19. ASSUME NEW c \in Creators, StartBackup(c), UNCHANGED cast PROVE Kind
  <2>1. PICK f \in Files \ Copies : file[f] = "Absent" /\ file' = [file EXCEPT ![f] = "Part"]
                                        /\ draft' = [draft EXCEPT ![c] = f]
    BY <1>19 DEF StartBackup
  <2>2. ~ Promised(f) /\ ~ Hidden(f)
    BY <2>1, Zenon DEF DraftInv, Known
  <2>3. \A x \in Files : Promised(x) \/ Hidden(x) => file'[x] = file[x]
    BY <2>1, <2>2, SMT
  <2>4. Quiet
    BY <1>19, <2>1, <2>3, SMT DEF Quiet, StartBackup, Making
  <2> HIDE DEF TypeOK
  <2> QED
    BY <2>4 DEF Kind
<1>20. ASSUME NEW c \in Creators, WriteContainer(c), UNCHANGED cast PROVE Kind
  <2>1. /\ draft[c] \in Files /\ ~ Promised(draft[c]) /\ ~ Hidden(draft[c])
        /\ file' = [file EXCEPT ![draft[c]] = "Written"]
    <3>1. pc[c] \in {"Body", "Sync"} /\ file' = [file EXCEPT ![draft[c]] = "Written"]
      BY <1>20 DEF WriteContainer, Making
    <3> HIDE DEF TypeOK, Promised, Hidden
    <3> QED
      BY <3>1, DraftIsNew
  <2>2. \A x \in Files : Promised(x) \/ Hidden(x) => file'[x] = file[x]
    BY <2>1, SMT
  <2>3. Quiet
    BY <1>20, <2>2, SMT DEF Quiet, WriteContainer, Making
  <2> HIDE DEF TypeOK
  <2> QED
    BY <2>3 DEF Kind
<1>21. ASSUME NEW c \in Creators, SyncContainer(c), UNCHANGED cast PROVE Kind
  <2>1. /\ draft[c] \in Files /\ ~ Promised(draft[c]) /\ ~ Hidden(draft[c])
        /\ file' = [file EXCEPT ![draft[c]] = "Whole"]
    <3>1. pc[c] \in {"Body", "Sync"} /\ file' = [file EXCEPT ![draft[c]] = "Whole"]
      BY <1>21 DEF SyncContainer, Making
    <3> HIDE DEF TypeOK, Promised, Hidden
    <3> QED
      BY <3>1, DraftIsNew
  <2>2. \A x \in Files : Promised(x) \/ Hidden(x) => file'[x] = file[x]
    BY <2>1, SMT
  <2>3. Quiet
    BY <1>21, <2>2, SMT DEF Quiet, SyncContainer, Making
  <2> HIDE DEF TypeOK
  <2> QED
    BY <2>3 DEF Kind
<1>22. ASSUME NEW c \in Creators, Publish(c), UNCHANGED cast PROVE Kind
  <2>1. PICK f \in Files : /\ f = draft[c] /\ f \notin created /\ pc[c] = "Publish"
    <3>1. pc[c] = "Publish"
      BY <1>22 DEF Publish, Making
    <3> HIDE DEF TypeOK
    <3> QED
      BY <3>1, DraftIsNew
  <2>2. /\ dir'.hidden = dir.hidden /\ goal[c] \in Names /\ dir.names[goal[c]] = None
        /\ \A n \in Names : dir'.names[n] = IF n = goal[c] THEN f ELSE dir.names[n]
    BY <1>22, <2>1, SMT DEF Publish, Making
  <2>3. \A x \in Files : Named(x)' <=> (Named(x) \/ x = f)
    BY <2>2, SMT DEF Named
  <2> HIDE DEF Firm, Named
  <2>4. Appears(f)
    BY <1>22, <2>1, <2>2, <2>3, SMT DEF Appears, Publish, Making
  <2> HIDE DEF TypeOK
  <2> QED
    BY <2>1, <2>4 DEF Kind
<1>23. ASSUME NEW c \in Creators, FinishBackup(c), UNCHANGED cast PROVE Kind
  <2>1. Synced
    BY <1>23, SMT DEF Synced, FinishBackup, Making, EndBackup, NamesSynced, Moving
  <2> HIDE DEF TypeOK
  <2> QED
    BY <2>1 DEF Kind
<1>24. ASSUME NEW c \in Creators, BackupFails(c), UNCHANGED cast PROVE Kind
  <2>1. Quiet
    BY <1>24, SMT DEF Quiet, BackupFails, Making, EndBackup
  <2> HIDE DEF TypeOK
  <2> QED
    BY <2>1 DEF Kind
<1>25. CASE StartListing /\ UNCHANGED cast
  <2>1. Quiet
    BY <1>25, SMT DEF Quiet, StartListing, Listing
  <2> HIDE DEF TypeOK
  <2> QED
    BY <2>1 DEF Kind
<1>26. CASE ListKnown /\ UNCHANGED cast
  <2>1. Quiet
    BY <1>26, SMT DEF Quiet, ListKnown, Listing, Hit, Entry
  <2> HIDE DEF TypeOK
  <2> QED
    BY <2>1 DEF Kind
<1>27. CASE ListNew /\ UNCHANGED cast
  <2>1. Quiet
    BY <1>27, SMT DEF Quiet, ListNew, Listing, Entry
  <2> HIDE DEF TypeOK
  <2> QED
    BY <2>1 DEF Kind
<1>28. CASE Read /\ UNCHANGED cast
  <2>1. Quiet
    BY <1>28, SMT DEF Quiet, Read, Listing, Entry
  <2> HIDE DEF TypeOK
  <2> QED
    BY <2>1 DEF Kind
<1>29. CASE Recheck /\ UNCHANGED cast
  <2>1. Quiet
    BY <1>29, SMT DEF Quiet, Recheck, Listing, Remember
  <2> HIDE DEF TypeOK
  <2> QED
    BY <2>1 DEF Kind
<1>30. CASE ListingRefused /\ UNCHANGED cast
  <2>1. Quiet
    BY <1>30, SMT DEF Quiet, ListingRefused, Listing
  <2> HIDE DEF TypeOK
  <2> QED
    BY <2>1 DEF Kind
<1>31. CASE FinishListing /\ UNCHANGED cast
  <2>1. Quiet
    BY <1>31, SMT DEF Quiet, FinishListing, Listing
  <2> HIDE DEF TypeOK
  <2> QED
    BY <2>1 DEF Kind
<1>32. CASE NamesCommit /\ UNCHANGED <<cast, actorVars>>
  <2>1. Synced
    BY <1>32, SMT DEF Synced, NamesCommit, NamesSynced, Moving
  <2> HIDE DEF TypeOK
  <2> QED
    BY <2>1 DEF Kind
<1>33. CASE HiddenCommits /\ UNCHANGED <<cast, actorVars>>
  <2>1. Quiet
    BY <1>33, SMT DEF Quiet, HiddenCommits
  <2> HIDE DEF TypeOK
  <2> QED
    BY <2>1 DEF Kind
<1>34. CASE ChangeInPlace /\ UNCHANGED cast
  <2>1. PICK f \in Listed : file' = [file EXCEPT ![f] = "Changed"]
    BY <1>34 DEF ChangeInPlace
  <2>2. \A x \in Files : file'[x] = file[x] \/ Named(x)
    <3>1. f \in Files /\ Named(f)
      BY ListedIsNamed
    <3> QED
      BY <2>1, <3>1
  <2>3. Quiet
    BY <1>34, <2>2, SMT DEF Quiet, ChangeInPlace, Meddle
  <2> HIDE DEF TypeOK
  <2> QED
    BY <2>3 DEF Kind
<1>35. CASE CopyIn /\ UNCHANGED cast
  <2>1. PICK f \in Copies, n \in Names :
          /\ file[f] = "Absent" /\ dir.names[n] = None
          /\ file' = [file EXCEPT ![f] = "Written"] /\ dir' = [dir EXCEPT !.names[n] = f]
    BY <1>35 DEF CopyIn
  <2>2. f \in Files /\ f \notin created
    BY <2>1 DEF DraftInv, Known, Promised
  <2>3. /\ dir'.hidden = dir.hidden
        /\ \A m \in Names : dir'.names[m] = IF m = n THEN f ELSE dir.names[m]
    BY <2>1, SMT
  <2>4. \A x \in Files : Named(x)' <=> (Named(x) \/ x = f)
    BY <2>1, <2>2, <2>3, SMT DEF Named
  <2> HIDE DEF Firm, Named
  <2>5. Appears(f)
    BY <1>35, <2>1, <2>2, <2>3, <2>4, SMT DEF Appears, CopyIn, Meddle
  <2> HIDE DEF TypeOK
  <2> QED
    BY <2>2, <2>5 DEF Kind
<1>36. CASE Kill /\ UNCHANGED cast
  <2>1. PICK p \in cast \ {Display} :
          Forget({p}) /\ Leaves(dir, dir', p) /\ Leaves(disk, disk', p)
    BY <1>36, KillLeaves
  <2>2. StepsAside(p) /\ created' = created
    BY <1>36, <2>1, SMT DEF StepsAside, Kill, Crash, Forget, Dead
  <2>3. \A f \in Files : Promised(f)' => Promised(f)
    <3>1. \A c \in Creators : IF c = p THEN pc'[c] = "Idle" ELSE pc'[c] = pc[c] /\ draft'[c] = draft[c]
      BY <2>1, SMT DEF Forget, Dead
    <3> QED
      BY <2>2, <3>1
  <2> HIDE DEF TypeOK
  <2> QED
    BY <2>1, <2>2, <2>3, Zenon DEF Kind, Aside
<1>37. CASE PowerLoss /\ UNCHANGED cast
  <2> HIDE DEF TypeOK
  <2> QED
    BY <1>37 DEF Kind
<1>38. CASE UNCHANGED vars
  <2>1. Quiet
    BY <1>38, SMT DEF Quiet, vars
  <2> HIDE DEF TypeOK
  <2> QED
    BY <2>1 DEF Kind
<1> QED
  BY <1>1, <1>2, <1>3, <1>4, <1>5, <1>6, <1>7, <1>8, <1>9, <1>10, <1>11, <1>12, <1>13, <1>14, <1>15,
     <1>16, <1>17, <1>18, <1>19, <1>20, <1>21, <1>22, <1>23, <1>24, <1>25, <1>26, <1>27, <1>28,
     <1>29, <1>30, <1>31, <1>32, <1>33, <1>34, <1>35, <1>36, <1>37, <1>38 DEF Next, Delete, Execute,
     MakeBackup, List

\* What every action does to the names,
LEMMA HomeKindStep == TypeOK /\ ParcelInv /\ PlaceInv /\ DraftInv /\ HomeInv /\ [Next]_vars => HomeKind
<1> SUFFICES ASSUME TypeOK /\ ParcelInv /\ PlaceInv /\ DraftInv /\ HomeInv, [Next]_vars PROVE HomeKind
  OBVIOUS
<1> USE ProcessesDiffer, ListedIsNamed, FilesAreNumbered, NoneIsNoFile
<1> USE DEF TypeOK, FilesOK, ActorsOK, Holding, Linked, InHand, Processes, HomeKind, HomesStay,
        Home, Drafting, Directories, PlansOK, Digest, Content, EmptyCatalogue, Goto, At, SameFiles,
        fileVars, boundVars, sessionVars, creatorVars, displayVars, actorVars, Others
<1>1. ASSUME NEW d \in Deleters, OpenSession(d), Others PROVE HomeKind
  BY <1>1, SMT DEF OpenSession, Present
<1>2. ASSUME NEW d \in Deleters, ScanEntry(d), Others PROVE HomeKind
  BY <1>2, SMT DEF ScanEntry, Entry
<1>3. ASSUME NEW d \in Deleters, PlanExact(d), Others PROVE HomeKind
  BY <1>3, SMT DEF PlanExact, Fix
<1>4. ASSUME NEW d \in Deleters, PlanTargets(d), Others PROVE HomeKind
  BY <1>4, SMT DEF PlanTargets, Fix, Present
<1>5. ASSUME NEW d \in Deleters, PlanPrune(d), Others PROVE HomeKind
  <2>1. PICK T, A : Fix(d, T, A)
    BY <1>5 DEF PlanPrune
  <2> QED
    BY <1>5, <2>1, SMT DEF Fix
<1>6. ASSUME NEW d \in Deleters, DropSession(d), Others PROVE HomeKind
  BY <1>6, SMT DEF DropSession
<1>7. ASSUME NEW d \in Deleters, TakeUp(d), Others PROVE HomeKind
  <2>1. /\ UNCHANGED <<file, dir, scan, draft>>
        /\ \A x \in Processes : x # d => pc'[x] = pc[x]
    BY <1>7, SMT DEF TakeUp, Executing, Pass
  <2>2. /\ pc'[d] \in {"Isolate", "Next", "Idle"}
        /\ \A x \in Deleters : x # d => at'[x] = at[x] /\ parcel'[x] = parcel[x]
    BY <1>7, SMT DEF TakeUp, Executing, Pass
  <2> HIDE DEF TypeOK, FilesOK, ActorsOK
  <2>3. \A f \in Files : \A n \in Names : Home(f, n)' => Home(f, n)
    BY <2>1, <2>2, SMT DEF Home
  <2>4. \A f \in Files : \A c \in Creators : Drafting(c, f)' => Drafting(c, f)
    BY <2>1, SMT DEF Drafting
  <2> QED
    BY <2>1, <2>3, <2>4, Zenon
<1>8. ASSUME NEW d \in Deleters, Isolate(d), Others PROVE HomeKind
  BY <1>8, SMT DEF Isolate, Executing, Occupant, Original
<1>9. ASSUME NEW d \in Deleters, IsolateFails(d), Others PROVE HomeKind
  BY <1>9, SMT DEF IsolateFails, Executing, NextEntry, Pass
<1>10. ASSUME NEW d \in Deleters, Verify(d), Others PROVE HomeKind
  BY <1>10, SMT DEF Verify, Executing, SameEntry, NamesSynced, Moving
<1>11. ASSUME NEW d \in Deleters, VerifyFails(d), Others PROVE HomeKind
  BY <1>11, SMT DEF VerifyFails, Executing, SameEntry
<1>12. ASSUME NEW d \in Deleters, Remove(d), Others PROVE HomeKind
  BY <1>12, SMT DEF Remove, Executing, Unhide, Parcel
<1>13. ASSUME NEW d \in Deleters, RemoveFails(d), Others PROVE HomeKind
  BY <1>13, SMT DEF RemoveFails, Executing, SameEntry
<1>14. ASSUME NEW d \in Deleters, Settle(d), Others PROVE HomeKind
  BY <1>14, SMT DEF Settle, Executing, NextEntry, Pass, Parcel
<1>15. ASSUME NEW d \in Deleters, Relink(d), Others PROVE HomeKind
  BY <1>15, SMT DEF Relink, Executing, SameEntry, Original, Occupant
<1>16. ASSUME NEW d \in Deleters, SyncRelink(d), Others PROVE HomeKind
  BY <1>16, SMT DEF SyncRelink, Executing, SameEntry, NamesSynced, Moving
<1>17. ASSUME NEW d \in Deleters, Release(d), Others PROVE HomeKind
  BY <1>17, SMT DEF Release, Executing, NextEntry, Pass, Unhide, Parcel
<1>18. ASSUME NEW d \in Deleters, Retain(d), Others PROVE HomeKind
  BY <1>18, SMT DEF Retain, Executing, NextEntry, Pass, Left
<1>19. ASSUME NEW c \in Creators, StartBackup(c), UNCHANGED cast PROVE HomeKind
  BY <1>19, SMT DEF StartBackup, Making
<1>20. ASSUME NEW c \in Creators, WriteContainer(c), UNCHANGED cast PROVE HomeKind
  BY <1>20, SMT DEF WriteContainer, Making
<1>21. ASSUME NEW c \in Creators, SyncContainer(c), UNCHANGED cast PROVE HomeKind
  BY <1>21, SMT DEF SyncContainer, Making
<1>22. ASSUME NEW c \in Creators, Publish(c), UNCHANGED cast PROVE HomeKind
  <2>1. PICK f \in Files, n \in Names : /\ f = draft[c] /\ n = goal[c] /\ pc[c] = "Publish"
                                      /\ dir' = [dir EXCEPT !.names[n] = f]
    BY <1>22 DEF Publish, Making
  <2>2. f \in Files /\ n \in Names
    OBVIOUS
  <2>3. /\ UNCHANGED <<scan, parcel, at>> /\ \A d \in Deleters : pc'[d] = pc[d]
        /\ \A m \in Names : dir'.names[m] = IF m = n THEN f ELSE dir.names[m]
    BY <1>22, <2>1, SMT DEF Publish, Making
  <2>5. /\ \A m \in Names : ~ Home(f, m)
        /\ file'[f] # "Absent" /\ \A b \in Creators : ~ Drafting(b, f)'
        /\ \A x \in Files : file[x] # "Absent" =>
             file'[x] # "Absent" /\ \A b \in Creators : Drafting(b, x)' => Drafting(b, x)
    <3>1. \A m \in Names : ~ Home(f, m)
      BY <2>1, <2>2, Zenon DEF HomeInv
    <3>2. \A b \in Creators : Drafting(b, f) => b = c
      BY <2>1, <2>2, Zenon DEF DraftInv
    <3>3. file' = file /\ draft' = draft /\ \A b \in Creators : pc'[b] = IF b = c THEN "Tidy" ELSE pc[b]
      BY <1>22, SMT DEF Publish, Making
    <3>4. file[f] # "Absent"
      BY <2>1, SMT DEF DraftInv
    <3> HIDE DEF Home
    <3> QED
      BY <2>1, <2>2, <3>1, <3>2, <3>3, <3>4, SMT
  <2> HIDE DEF Home, Drafting, HomesStay, HomeKind, TypeOK
  <2>6. GetsName(f, n)
    BY <2>3, <2>5 DEF GetsName
  <2> QED
    BY <2>2, <2>6, HomeByName
<1>23. ASSUME NEW c \in Creators, FinishBackup(c), UNCHANGED cast PROVE HomeKind
  BY <1>23, SMT DEF FinishBackup, Making, EndBackup, NamesSynced, Moving
<1>24. ASSUME NEW c \in Creators, BackupFails(c), UNCHANGED cast PROVE HomeKind
  BY <1>24, SMT DEF BackupFails, Making, EndBackup
<1>25. CASE StartListing /\ UNCHANGED cast
  BY <1>25, SMT DEF StartListing, Listing
<1>26. CASE ListKnown /\ UNCHANGED cast
  BY <1>26, SMT DEF ListKnown, Listing, Hit, Entry
<1>27. CASE ListNew /\ UNCHANGED cast
  BY <1>27, SMT DEF ListNew, Listing, Entry
<1>28. CASE Read /\ UNCHANGED cast
  BY <1>28, SMT DEF Read, Listing, Entry
<1>29. CASE Recheck /\ UNCHANGED cast
  BY <1>29, SMT DEF Recheck, Listing, Remember
<1>30. CASE ListingRefused /\ UNCHANGED cast
  BY <1>30, SMT DEF ListingRefused, Listing
<1>31. CASE FinishListing /\ UNCHANGED cast
  BY <1>31, SMT DEF FinishListing, Listing
<1>32. CASE NamesCommit /\ UNCHANGED <<cast, actorVars>>
  BY <1>32, SMT DEF NamesCommit, NamesSynced, Moving
<1>33. CASE HiddenCommits /\ UNCHANGED <<cast, actorVars>>
  BY <1>33, SMT DEF HiddenCommits
<1>34. CASE ChangeInPlace /\ UNCHANGED cast
  BY <1>34, SMT DEF ChangeInPlace, Meddle, Disturb
<1>35. CASE CopyIn /\ UNCHANGED cast
  <2>1. PICK f \in Files, n \in Names :
          /\ file[f] = "Absent" /\ dir.names[n] = None
          /\ file' = [file EXCEPT ![f] = "Written"] /\ dir' = [dir EXCEPT !.names[n] = f]
    BY <1>35 DEF CopyIn
  <2>2. f \in Files /\ n \in Names
    OBVIOUS
  <2>3. /\ UNCHANGED <<scan, parcel, at>> /\ \A d \in Deleters : pc'[d] = pc[d]
        /\ \A m \in Names : dir'.names[m] = IF m = n THEN f ELSE dir.names[m]
    BY <1>35, <2>1, SMT DEF CopyIn, Meddle
  <2>5. /\ \A m \in Names : ~ Home(f, m)
        /\ file'[f] # "Absent" /\ \A c \in Creators : ~ Drafting(c, f)'
        /\ \A x \in Files : file[x] # "Absent" =>
             file'[x] # "Absent" /\ \A c \in Creators : Drafting(c, x)' => Drafting(c, x)
    <3>1. \A m \in Names : ~ Home(f, m)
      BY <2>1, <2>2, Zenon DEF HomeInv
    <3>2. UNCHANGED <<pc, draft>> /\ \A c \in Creators : ~ Drafting(c, f)
      BY <1>35, <2>1, <2>2, SMT DEF CopyIn, Meddle, DraftInv
    <3> HIDE DEF Home
    <3> QED
      BY <2>1, <2>2, <3>1, <3>2, SMT
  <2> HIDE DEF Home, Drafting, HomesStay, HomeKind, TypeOK
  <2>6. GetsName(f, n)
    BY <2>3, <2>5 DEF GetsName
  <2> QED
    BY <2>2, <2>6, HomeByName
<1>36. CASE Kill /\ UNCHANGED cast
  BY <1>36, HomesOutlive DEF HomeKind
<1>37. CASE PowerLoss /\ UNCHANGED cast
  BY <1>37 DEF HomeKind
<1>38. CASE UNCHANGED vars
  BY <1>38, SMT DEF vars
<1> QED
  BY <1>1, <1>2, <1>3, <1>4, <1>5, <1>6, <1>7, <1>8, <1>9, <1>10, <1>11, <1>12, <1>13, <1>14, <1>15,
     <1>16, <1>17, <1>18, <1>19, <1>20, <1>21, <1>22, <1>23, <1>24, <1>25, <1>26, <1>27, <1>28,
     <1>29, <1>30, <1>31, <1>32, <1>33, <1>34, <1>35, <1>36, <1>37, <1>38 DEF Next, Delete, Execute,
     MakeBackup, List

\* to the sessions,
LEMMA FloorKindStep == TypeOK /\ [Next]_vars => \A x \in Deleters : FloorKind(x)
<1> SUFFICES ASSUME TypeOK, [Next]_vars PROVE \A x \in Deleters : FloorKind(x)
  OBVIOUS
<1> USE ProcessesDiffer, ListedIsNamed, FilesAreNumbered, NoneIsNoFile
<1> USE DEF TypeOK, FilesOK, ActorsOK, Holding, Linked, InHand, Processes, FloorKind, Plans,
        Scanning, Executes, PlansOK, Goto, At, SameFiles, fileVars, boundVars, sessionVars,
        creatorVars, displayVars, actorVars, Others
<1>1. ASSUME NEW d \in Deleters, OpenSession(d), Others PROVE \A x \in Deleters : FloorKind(x)
  BY <1>1, SMT DEF OpenSession, Present
<1>2. ASSUME NEW d \in Deleters, ScanEntry(d), Others PROVE \A x \in Deleters : FloorKind(x)
  <2>1. ScanEntry(d)
    BY <1>2
  <2>2. \A x \in Deleters : x # d => /\ pc'[x] = pc[x] /\ disturbed'[x] = disturbed[x]
                                    /\ scan'[x] = scan[x] /\ plan'[x] = plan[x]
    BY <2>1, SMT DEF ScanEntry, Fix
  <2>3. \A x \in Deleters : x # d => FloorKind(x)
    BY <2>2, SMT
  <2> QED
    BY <1>2, <2>3, Zenon
<1>3. ASSUME NEW d \in Deleters, PlanExact(d), Others PROVE \A x \in Deleters : FloorKind(x)
  <2>1. PICK T, A : Fix(d, T, A)
    BY <1>3 DEF PlanExact
  <2>2. \A x \in Deleters : x # d => /\ pc'[x] = pc[x] /\ disturbed'[x] = disturbed[x]
                                    /\ scan'[x] = scan[x] /\ plan'[x] = plan[x]
    BY <2>1, SMT DEF ScanEntry, Fix
  <2>3. \A x \in Deleters : x # d => FloorKind(x)
    BY <2>2, SMT
  <2> QED
    BY <1>3, <2>3, Zenon
<1>4. ASSUME NEW d \in Deleters, PlanTargets(d), Others PROVE \A x \in Deleters : FloorKind(x)
  <2>1. PICK T, A : Fix(d, T, A)
    BY <1>4 DEF PlanTargets
  <2>2. \A x \in Deleters : x # d => /\ pc'[x] = pc[x] /\ disturbed'[x] = disturbed[x]
                                    /\ scan'[x] = scan[x] /\ plan'[x] = plan[x]
    BY <2>1, SMT DEF ScanEntry, Fix
  <2>3. \A x \in Deleters : x # d => FloorKind(x)
    BY <2>2, SMT
  <2> QED
    BY <1>4, <2>3, Zenon
<1>5. ASSUME NEW d \in Deleters, PlanPrune(d), Others PROVE \A x \in Deleters : FloorKind(x)
  <2>1. PICK T, A : Fix(d, T, A)
    BY <1>5 DEF PlanPrune
  <2>2. \A x \in Deleters : x # d => /\ pc'[x] = pc[x] /\ disturbed'[x] = disturbed[x]
                                    /\ scan'[x] = scan[x] /\ plan'[x] = plan[x]
    BY <2>1, SMT DEF ScanEntry, Fix
  <2>3. \A x \in Deleters : x # d => FloorKind(x)
    BY <2>2, SMT
  <2> QED
    BY <1>5, <2>3, Zenon
<1>6. ASSUME NEW d \in Deleters, DropSession(d), Others PROVE \A x \in Deleters : FloorKind(x)
  BY <1>6, SMT DEF DropSession
<1>7. ASSUME NEW d \in Deleters, TakeUp(d), Others PROVE \A x \in Deleters : FloorKind(x)
  BY <1>7, SMT DEF TakeUp, Executing, Pass
<1>8. ASSUME NEW d \in Deleters, Isolate(d), Others PROVE \A x \in Deleters : FloorKind(x)
  BY <1>8, SMT DEF Isolate, Executing, Occupant, Original
<1>9. ASSUME NEW d \in Deleters, IsolateFails(d), Others PROVE \A x \in Deleters : FloorKind(x)
  BY <1>9, SMT DEF IsolateFails, Executing, NextEntry, Pass
<1>10. ASSUME NEW d \in Deleters, Verify(d), Others PROVE \A x \in Deleters : FloorKind(x)
  BY <1>10, SMT DEF Verify, Executing, SameEntry, NamesSynced, Moving
<1>11. ASSUME NEW d \in Deleters, VerifyFails(d), Others PROVE \A x \in Deleters : FloorKind(x)
  BY <1>11, SMT DEF VerifyFails, Executing, SameEntry
<1>12. ASSUME NEW d \in Deleters, Remove(d), Others PROVE \A x \in Deleters : FloorKind(x)
  BY <1>12, SMT DEF Remove, Executing, Unhide, Parcel
<1>13. ASSUME NEW d \in Deleters, RemoveFails(d), Others PROVE \A x \in Deleters : FloorKind(x)
  BY <1>13, SMT DEF RemoveFails, Executing, SameEntry
<1>14. ASSUME NEW d \in Deleters, Settle(d), Others PROVE \A x \in Deleters : FloorKind(x)
  BY <1>14, SMT DEF Settle, Executing, NextEntry, Pass, Parcel
<1>15. ASSUME NEW d \in Deleters, Relink(d), Others PROVE \A x \in Deleters : FloorKind(x)
  BY <1>15, SMT DEF Relink, Executing, SameEntry, Original, Occupant
<1>16. ASSUME NEW d \in Deleters, SyncRelink(d), Others PROVE \A x \in Deleters : FloorKind(x)
  BY <1>16, SMT DEF SyncRelink, Executing, SameEntry, NamesSynced, Moving
<1>17. ASSUME NEW d \in Deleters, Release(d), Others PROVE \A x \in Deleters : FloorKind(x)
  BY <1>17, SMT DEF Release, Executing, NextEntry, Pass, Unhide, Parcel
<1>18. ASSUME NEW d \in Deleters, Retain(d), Others PROVE \A x \in Deleters : FloorKind(x)
  BY <1>18, SMT DEF Retain, Executing, NextEntry, Pass, Left
<1>19. ASSUME NEW c \in Creators, StartBackup(c), UNCHANGED cast PROVE \A x \in Deleters : FloorKind(x)
  BY <1>19, SMT DEF StartBackup, Making
<1>20. ASSUME NEW c \in Creators, WriteContainer(c), UNCHANGED cast PROVE \A x \in Deleters : FloorKind(x)
  BY <1>20, SMT DEF WriteContainer, Making
<1>21. ASSUME NEW c \in Creators, SyncContainer(c), UNCHANGED cast PROVE \A x \in Deleters : FloorKind(x)
  BY <1>21, SMT DEF SyncContainer, Making
<1>22. ASSUME NEW c \in Creators, Publish(c), UNCHANGED cast PROVE \A x \in Deleters : FloorKind(x)
  BY <1>22, SMT DEF Publish, Making
<1>23. ASSUME NEW c \in Creators, FinishBackup(c), UNCHANGED cast PROVE \A x \in Deleters : FloorKind(x)
  BY <1>23, SMT DEF FinishBackup, Making, EndBackup, NamesSynced, Moving
<1>24. ASSUME NEW c \in Creators, BackupFails(c), UNCHANGED cast PROVE \A x \in Deleters : FloorKind(x)
  BY <1>24, SMT DEF BackupFails, Making, EndBackup
<1>25. CASE StartListing /\ UNCHANGED cast
  BY <1>25, SMT DEF StartListing, Listing
<1>26. CASE ListKnown /\ UNCHANGED cast
  BY <1>26, SMT DEF ListKnown, Listing, Hit, Entry
<1>27. CASE ListNew /\ UNCHANGED cast
  BY <1>27, SMT DEF ListNew, Listing, Entry
<1>28. CASE Read /\ UNCHANGED cast
  BY <1>28, SMT DEF Read, Listing, Entry
<1>29. CASE Recheck /\ UNCHANGED cast
  BY <1>29, SMT DEF Recheck, Listing, Remember
<1>30. CASE ListingRefused /\ UNCHANGED cast
  BY <1>30, SMT DEF ListingRefused, Listing
<1>31. CASE FinishListing /\ UNCHANGED cast
  BY <1>31, SMT DEF FinishListing, Listing
<1>32. CASE NamesCommit /\ UNCHANGED <<cast, actorVars>>
  BY <1>32, SMT DEF NamesCommit, NamesSynced, Moving
<1>33. CASE HiddenCommits /\ UNCHANGED <<cast, actorVars>>
  BY <1>33, SMT DEF HiddenCommits
<1>34. CASE ChangeInPlace /\ UNCHANGED cast
  BY <1>34, SMT DEF ChangeInPlace, Meddle, Disturb
<1>35. CASE CopyIn /\ UNCHANGED cast
  BY <1>35, SMT DEF CopyIn, Meddle
<1>36. CASE Kill /\ UNCHANGED cast
  BY <1>36, SMT DEF Kill, Crash, Forget, Dead, Left
<1>37. CASE PowerLoss /\ UNCHANGED cast
  BY <1>37, SMT DEF PowerLoss, Crash, Forget, Dead, Left
<1>38. CASE UNCHANGED vars
  BY <1>38, SMT DEF vars
<1> QED
  BY <1>1, <1>2, <1>3, <1>4, <1>5, <1>6, <1>7, <1>8, <1>9, <1>10, <1>11, <1>12, <1>13, <1>14, <1>15,
     <1>16, <1>17, <1>18, <1>19, <1>20, <1>21, <1>22, <1>23, <1>24, <1>25, <1>26, <1>27, <1>28,
     <1>29, <1>30, <1>31, <1>32, <1>33, <1>34, <1>35, <1>36, <1>37, <1>38 DEF Next, Delete, Execute,
     MakeBackup, List

\* and to the bytes of files that have a place.
LEMMA ContentStep == TypeOK /\ StoreInv /\ [Next]_vars => ContentKept
<1> SUFFICES ASSUME TypeOK /\ StoreInv, [Next]_vars PROVE ContentKept
  OBVIOUS
<1> USE ProcessesDiffer, ListedIsNamed, FilesAreNumbered, NoneIsNoFile
<1> USE DEF TypeOK, FilesOK, ActorsOK, Holding, Linked, InHand, Processes, ContentKept, Told,
        Scanning, Executes, Goto, At, SameFiles, fileVars, boundVars, sessionVars, creatorVars,
        displayVars, actorVars, Others
<1>1. ASSUME NEW d \in Deleters, OpenSession(d), Others PROVE ContentKept
  BY <1>1, SMT DEF OpenSession, Present
<1>2. ASSUME NEW d \in Deleters, ScanEntry(d), Others PROVE ContentKept
  BY <1>2, SMT DEF ScanEntry, Entry
<1>3. ASSUME NEW d \in Deleters, PlanExact(d), Others PROVE ContentKept
  BY <1>3, SMT DEF PlanExact, Fix
<1>4. ASSUME NEW d \in Deleters, PlanTargets(d), Others PROVE ContentKept
  BY <1>4, SMT DEF PlanTargets, Fix, Present
<1>5. ASSUME NEW d \in Deleters, PlanPrune(d), Others PROVE ContentKept
  <2>1. PICK T, A : Fix(d, T, A)
    BY <1>5 DEF PlanPrune
  <2> QED
    BY <1>5, <2>1, SMT DEF Fix
<1>6. ASSUME NEW d \in Deleters, DropSession(d), Others PROVE ContentKept
  BY <1>6, SMT DEF DropSession
<1>7. ASSUME NEW d \in Deleters, TakeUp(d), Others PROVE ContentKept
  BY <1>7, SMT DEF TakeUp, Executing, Pass
<1>8. ASSUME NEW d \in Deleters, Isolate(d), Others PROVE ContentKept
  BY <1>8, SMT DEF Isolate, Executing, Occupant, Original
<1>9. ASSUME NEW d \in Deleters, IsolateFails(d), Others PROVE ContentKept
  BY <1>9, SMT DEF IsolateFails, Executing, NextEntry, Pass
<1>10. ASSUME NEW d \in Deleters, Verify(d), Others PROVE ContentKept
  BY <1>10, SMT DEF Verify, Executing, SameEntry, NamesSynced, Moving
<1>11. ASSUME NEW d \in Deleters, VerifyFails(d), Others PROVE ContentKept
  BY <1>11, SMT DEF VerifyFails, Executing, SameEntry
<1>12. ASSUME NEW d \in Deleters, Remove(d), Others PROVE ContentKept
  BY <1>12, SMT DEF Remove, Executing, Unhide, Parcel
<1>13. ASSUME NEW d \in Deleters, RemoveFails(d), Others PROVE ContentKept
  BY <1>13, SMT DEF RemoveFails, Executing, SameEntry
<1>14. ASSUME NEW d \in Deleters, Settle(d), Others PROVE ContentKept
  BY <1>14, SMT DEF Settle, Executing, NextEntry, Pass, Parcel
<1>15. ASSUME NEW d \in Deleters, Relink(d), Others PROVE ContentKept
  BY <1>15, SMT DEF Relink, Executing, SameEntry, Original, Occupant
<1>16. ASSUME NEW d \in Deleters, SyncRelink(d), Others PROVE ContentKept
  BY <1>16, SMT DEF SyncRelink, Executing, SameEntry, NamesSynced, Moving
<1>17. ASSUME NEW d \in Deleters, Release(d), Others PROVE ContentKept
  BY <1>17, SMT DEF Release, Executing, NextEntry, Pass, Unhide, Parcel
<1>18. ASSUME NEW d \in Deleters, Retain(d), Others PROVE ContentKept
  BY <1>18, SMT DEF Retain, Executing, NextEntry, Pass, Left
<1>19. ASSUME NEW c \in Creators, StartBackup(c), UNCHANGED cast PROVE ContentKept
  <2>1. PICK f \in Files \ Copies : file[f] = "Absent" /\ file' = [file EXCEPT ![f] = "Part"]
    BY <1>19 DEF StartBackup
  <2> HIDE DEF Firm
  <2> QED
    BY <2>1, DraftsAreNotFirm, SMT DEF StoreInv
<1>20. ASSUME NEW c \in Creators, WriteContainer(c), UNCHANGED cast PROVE ContentKept
  <2>1. Drafting(c, draft[c]) /\ file' = [file EXCEPT ![draft[c]] = "Written"]
    BY <1>20 DEF WriteContainer, Making, Drafting
  <2> QED
    BY <2>1, DraftsAreNotFirm, SMT DEF StoreInv
<1>21. ASSUME NEW c \in Creators, SyncContainer(c), UNCHANGED cast PROVE ContentKept
  <2>1. Drafting(c, draft[c]) /\ file' = [file EXCEPT ![draft[c]] = "Whole"]
    BY <1>21 DEF SyncContainer, Making, Drafting
  <2> QED
    BY <2>1, DraftsAreNotFirm, SMT DEF StoreInv
<1>22. ASSUME NEW c \in Creators, Publish(c), UNCHANGED cast PROVE ContentKept
  BY <1>22, SMT DEF Publish, Making
<1>23. ASSUME NEW c \in Creators, FinishBackup(c), UNCHANGED cast PROVE ContentKept
  BY <1>23, SMT DEF FinishBackup, Making, EndBackup, NamesSynced, Moving
<1>24. ASSUME NEW c \in Creators, BackupFails(c), UNCHANGED cast PROVE ContentKept
  BY <1>24, SMT DEF BackupFails, Making, EndBackup
<1>25. CASE StartListing /\ UNCHANGED cast
  BY <1>25, SMT DEF StartListing, Listing
<1>26. CASE ListKnown /\ UNCHANGED cast
  BY <1>26, SMT DEF ListKnown, Listing, Hit, Entry
<1>27. CASE ListNew /\ UNCHANGED cast
  BY <1>27, SMT DEF ListNew, Listing, Entry
<1>28. CASE Read /\ UNCHANGED cast
  BY <1>28, SMT DEF Read, Listing, Entry
<1>29. CASE Recheck /\ UNCHANGED cast
  BY <1>29, SMT DEF Recheck, Listing, Remember
<1>30. CASE ListingRefused /\ UNCHANGED cast
  BY <1>30, SMT DEF ListingRefused, Listing
<1>31. CASE FinishListing /\ UNCHANGED cast
  BY <1>31, SMT DEF FinishListing, Listing
<1>32. CASE NamesCommit /\ UNCHANGED <<cast, actorVars>>
  BY <1>32, SMT DEF NamesCommit, NamesSynced, Moving
<1>33. CASE HiddenCommits /\ UNCHANGED <<cast, actorVars>>
  BY <1>33, SMT DEF HiddenCommits
<1>34. CASE ChangeInPlace /\ UNCHANGED cast
  BY <1>34, SMT DEF ChangeInPlace, Meddle, Disturb
<1>35. CASE CopyIn /\ UNCHANGED cast
  <2>1. PICK f \in Copies : file[f] = "Absent" /\ file' = [file EXCEPT ![f] = "Written"]
    BY <1>35 DEF CopyIn
  <2> QED
    BY <2>1, DraftsAreNotFirm, SMT DEF StoreInv
<1>36. CASE Kill /\ UNCHANGED cast
  BY <1>36, SMT DEF Kill, Crash, Forget, Dead, Left
<1>37. CASE PowerLoss /\ UNCHANGED cast
  BY <1>37, SMT DEF PowerLoss, Crash, Forget, Dead, Left
<1>38. CASE UNCHANGED vars
  BY <1>38, SMT DEF vars
<1> QED
  BY <1>1, <1>2, <1>3, <1>4, <1>5, <1>6, <1>7, <1>8, <1>9, <1>10, <1>11, <1>12, <1>13, <1>14, <1>15,
     <1>16, <1>17, <1>18, <1>19, <1>20, <1>21, <1>22, <1>23, <1>24, <1>25, <1>26, <1>27, <1>28,
     <1>29, <1>30, <1>31, <1>32, <1>33, <1>34, <1>35, <1>36, <1>37, <1>38 DEF Next, Delete, Execute,
     MakeBackup, List

\* Only Remove takes a file away.
LEMMA RemoverStep == TypeOK /\ [Next]_vars => RemoverKind
<1> SUFFICES ASSUME TypeOK, [Next]_vars PROVE RemoverKind
  OBVIOUS
<1> USE ProcessesDiffer, ListedIsNamed, FilesAreNumbered, NoneIsNoFile
<1> USE DEF TypeOK, FilesOK, ActorsOK, Holding, Linked, InHand, Processes, RemoverKind, Goto, At,
        SameFiles, fileVars, boundVars, sessionVars, creatorVars, displayVars, actorVars, Others
<1>1. ASSUME NEW d \in Deleters, OpenSession(d), Others PROVE RemoverKind
  BY <1>1, SMT DEF OpenSession, Present
<1>2. ASSUME NEW d \in Deleters, ScanEntry(d), Others PROVE RemoverKind
  BY <1>2, SMT DEF ScanEntry, Entry
<1>3. ASSUME NEW d \in Deleters, PlanExact(d), Others PROVE RemoverKind
  <2>1. PICK T, A : Fix(d, T, A)
    BY <1>3 DEF PlanExact
  <2> QED
    BY <2>1, SMT DEF Fix
<1>4. ASSUME NEW d \in Deleters, PlanTargets(d), Others PROVE RemoverKind
  <2>1. PICK T, A : Fix(d, T, A)
    BY <1>4 DEF PlanTargets
  <2> QED
    BY <2>1, SMT DEF Fix
<1>5. ASSUME NEW d \in Deleters, PlanPrune(d), Others PROVE RemoverKind
  <2>1. PICK T, A : Fix(d, T, A)
    BY <1>5 DEF PlanPrune
  <2> QED
    BY <2>1, SMT DEF Fix
<1>6. ASSUME NEW d \in Deleters, DropSession(d), Others PROVE RemoverKind
  BY <1>6, SMT DEF DropSession
<1>7. ASSUME NEW d \in Deleters, TakeUp(d), Others PROVE RemoverKind
  BY <1>7, SMT DEF TakeUp, Executing, Pass
<1>8. ASSUME NEW d \in Deleters, Isolate(d), Others PROVE RemoverKind
  BY <1>8, SMT DEF Isolate, Executing, Occupant, Original
<1>9. ASSUME NEW d \in Deleters, IsolateFails(d), Others PROVE RemoverKind
  BY <1>9, SMT DEF IsolateFails, Executing, NextEntry, Pass
<1>10. ASSUME NEW d \in Deleters, Verify(d), Others PROVE RemoverKind
  BY <1>10, SMT DEF Verify, Executing, SameEntry, NamesSynced, Moving
<1>11. ASSUME NEW d \in Deleters, VerifyFails(d), Others PROVE RemoverKind
  BY <1>11, SMT DEF VerifyFails, Executing, SameEntry
<1>12. ASSUME NEW d \in Deleters, Remove(d), Others PROVE RemoverKind
  <2>1. \A x \in Deleters : x # d => pc'[x] = pc[x]
    BY <1>12, SMT DEF Remove, Executing
  <2> QED
    BY <1>12, <2>1, Zenon
<1>13. ASSUME NEW d \in Deleters, RemoveFails(d), Others PROVE RemoverKind
  BY <1>13, SMT DEF RemoveFails, Executing, SameEntry
<1>14. ASSUME NEW d \in Deleters, Settle(d), Others PROVE RemoverKind
  BY <1>14, SMT DEF Settle, Executing, NextEntry, Pass, Parcel
<1>15. ASSUME NEW d \in Deleters, Relink(d), Others PROVE RemoverKind
  BY <1>15, SMT DEF Relink, Executing, SameEntry, Original, Occupant
<1>16. ASSUME NEW d \in Deleters, SyncRelink(d), Others PROVE RemoverKind
  BY <1>16, SMT DEF SyncRelink, Executing, SameEntry, NamesSynced, Moving
<1>17. ASSUME NEW d \in Deleters, Release(d), Others PROVE RemoverKind
  BY <1>17, SMT DEF Release, Executing, NextEntry, Pass, Unhide, Parcel
<1>18. ASSUME NEW d \in Deleters, Retain(d), Others PROVE RemoverKind
  BY <1>18, SMT DEF Retain, Executing, NextEntry, Pass, Left
<1>19. ASSUME NEW c \in Creators, StartBackup(c), UNCHANGED cast PROVE RemoverKind
  BY <1>19, SMT DEF StartBackup, Making
<1>20. ASSUME NEW c \in Creators, WriteContainer(c), UNCHANGED cast PROVE RemoverKind
  BY <1>20, SMT DEF WriteContainer, Making
<1>21. ASSUME NEW c \in Creators, SyncContainer(c), UNCHANGED cast PROVE RemoverKind
  BY <1>21, SMT DEF SyncContainer, Making
<1>22. ASSUME NEW c \in Creators, Publish(c), UNCHANGED cast PROVE RemoverKind
  BY <1>22, SMT DEF Publish, Making
<1>23. ASSUME NEW c \in Creators, FinishBackup(c), UNCHANGED cast PROVE RemoverKind
  BY <1>23, SMT DEF FinishBackup, Making, EndBackup, NamesSynced, Moving
<1>24. ASSUME NEW c \in Creators, BackupFails(c), UNCHANGED cast PROVE RemoverKind
  BY <1>24, SMT DEF BackupFails, Making, EndBackup
<1>25. CASE StartListing /\ UNCHANGED cast
  BY <1>25, SMT DEF StartListing, Listing
<1>26. CASE ListKnown /\ UNCHANGED cast
  BY <1>26, SMT DEF ListKnown, Listing, Hit, Entry
<1>27. CASE ListNew /\ UNCHANGED cast
  BY <1>27, SMT DEF ListNew, Listing, Entry
<1>28. CASE Read /\ UNCHANGED cast
  BY <1>28, SMT DEF Read, Listing, Entry
<1>29. CASE Recheck /\ UNCHANGED cast
  BY <1>29, SMT DEF Recheck, Listing, Remember
<1>30. CASE ListingRefused /\ UNCHANGED cast
  BY <1>30, SMT DEF ListingRefused, Listing
<1>31. CASE FinishListing /\ UNCHANGED cast
  BY <1>31, SMT DEF FinishListing, Listing
<1>32. CASE NamesCommit /\ UNCHANGED <<cast, actorVars>>
  BY <1>32, SMT DEF NamesCommit, NamesSynced, Moving
<1>33. CASE HiddenCommits /\ UNCHANGED <<cast, actorVars>>
  BY <1>33, SMT DEF HiddenCommits
<1>34. CASE ChangeInPlace /\ UNCHANGED cast
  BY <1>34, SMT DEF ChangeInPlace, Meddle, Disturb
<1>35. CASE CopyIn /\ UNCHANGED cast
  BY <1>35, SMT DEF CopyIn, Meddle
<1>36. CASE Kill /\ UNCHANGED cast
  BY <1>36, SMT DEF Kill, Crash, Forget, Dead, Left
<1>37. CASE PowerLoss /\ UNCHANGED cast
  BY <1>37, SMT DEF PowerLoss, Crash, Forget, Dead, Left
<1>38. CASE UNCHANGED vars
  BY <1>38, SMT DEF vars
<1> QED
  BY <1>1, <1>2, <1>3, <1>4, <1>5, <1>6, <1>7, <1>8, <1>9, <1>10, <1>11, <1>12, <1>13, <1>14, <1>15,
     <1>16, <1>17, <1>18, <1>19, <1>20, <1>21, <1>22, <1>23, <1>24, <1>25, <1>26, <1>27, <1>28,
     <1>29, <1>30, <1>31, <1>32, <1>33, <1>34, <1>35, <1>36, <1>37, <1>38 DEF Next, Delete, Execute,
     MakeBackup, List

-----------------------------------------------------------------------------
\* At the start every backup has its name, also on the disk.
LEMMA StoreStarts ==
  ASSUME Init
  PROVE  TypeOK /\ StoreInv
<1> USE ProcessesDiffer, ShelvesAssumption, NoneIsNoFile
<1>1. /\ dir \in Directories /\ disk = dir /\ dir.hidden = {} /\ created = Listed /\ confirmed = {}
      /\ pc = [p \in Processes |-> "Idle"] /\ plan = [d \in Deleters |-> {}]
      /\ draft = [c \in Creators |-> None]
      /\ \A m, n \in Names : dir.names[m] = dir.names[n] /\ dir.names[m] # None => m = n
  BY SMT DEF Init, Directories, Processes
<1>2. Listed \subseteq Files /\ \A f : f \in Listed <=> f # None /\ Named(f)
  BY <1>1 DEF Listed, Range, Named, Directories
<1>3. file = [f \in Files |-> IF f \in Listed THEN "Whole" ELSE "Absent"]
  BY DEF Init
<1>4. FilesOK
  BY <1>1, <1>2, <1>3, SMT DEF Init, FilesOK
<1>5. ActorsOK
  BY <1>1, SMT DEF Init, ActorsOK, Steps, Processes, InHand, Holding, Linked
<1>6. PlansOK /\ DisplayOK
  <2>1. list \in Catalogues
    <3>1. \A n \in Names : dir.names[n] # None => Digest(dir.names[n]) \in Digests
      BY <1>1, <1>2, <1>3, SMT DEF Digest, Content, Digests, Directories, Listed, Range
    <3> QED
      BY <3>1 DEF Init, Entry, Catalogues
  <2>2. EmptyCatalogue \in Catalogues
    BY DEF EmptyCatalogue, Catalogues
  <2> QED
    BY <1>1, <2>1, <2>2, SMT
    DEF Init, PlansOK, DisplayOK, Processes, InHand, Holding, Linked, EmptyCatalogue, Catalogues
<1>7. ParcelInv /\ PlaceInv
  BY <1>1, SMT DEF ParcelInv, PlaceInv, Holding, Linked, Processes
<1>8. \A f \in Files : (Known(f) => f \in created) /\ (Promised(f) => f \in created) /\ ~ Hidden(f)
  BY <1>1, <1>2, SMT DEF Known, Promised, Hidden, OnDisk, Named, Processes
<1>9. DraftInv
  BY <1>1, <1>2, <1>3, <1>8, SMT DEF DraftInv, Processes
<1>10. SafeInv
  <2>1. \A f \in created : Firm(f) /\ Durable(f)
    BY <1>1, <1>2 DEF Firm, Durable, Named
  <2> QED
    BY <1>1, <1>8, <2>1, SMT DEF SafeInv, Processes
<1> QED
  BY <1>4, <1>5, <1>6, <1>7, <1>9, <1>10 DEF TypeOK, StoreInv

\* The invariant is inductive.
LEMMA StoreStep == TypeOK /\ StoreInv /\ [Next]_vars => (TypeOK /\ StoreInv)'
<1> SUFFICES ASSUME TypeOK, StoreInv, [Next]_vars PROVE TypeOK' /\ StoreInv'
  OBVIOUS
<1>1. TypeOK'
  BY FilesStep, ActorsStep, PlansStep, DisplayStep DEF TypeOK
<1> QED
  BY <1>1, ParcelStep, PlaceStep, DraftStep, KindStep, SafeKind DEF StoreInv

(***************************************************************************)
(* In every reachable state the directory, its image on the disk, the      *)
(* sessions and the drafts are well formed, and every file that must not   *)
(* be lost has its firm place, also on the disk.                           *)
(***************************************************************************)
THEOREM StoreIsSound == Spec => [](TypeOK /\ StoreInv)
<1>1. Init => TypeOK /\ StoreInv
  BY StoreStarts
<1> QED
  BY <1>1, StoreStep, PTL DEF Spec

\* What NoBackupIsLost calls reachable.
LEMMA ReachableIs ==
  FilesOK => /\ Reachable \subseteq Files
             /\ \A x : x \in Reachable <=> x # None /\ (Named(x) \/ Hidden(x))
<1> SUFFICES ASSUME FilesOK
             PROVE  /\ Reachable \subseteq Files
                    /\ \A x : x \in Reachable <=> x # None /\ (Named(x) \/ Hidden(x))
  OBVIOUS
<1>1. \A h \in dir.hidden : h[2] \in Files /\ h[2] # None
  BY HiddenTyped, NoneIsNoFile
<1> QED
  BY <1>1, ListedIsNamed DEF Reachable, Hidden

(***************************************************************************)
(* A backup whose making was reported, or that was there before, is under  *)
(* its name or in a deletion's hidden directory, unless the deletion of    *)
(* just its bytes was confirmed; and no published name shows half a        *)
(* container.  For any number of processes, names and files, deaths and    *)
(* losses of power.                                                        *)
(***************************************************************************)
THEOREM BackupsAreKept == Spec => []NoBackupIsLost
<1>1. TypeOK /\ StoreInv => NoBackupIsLost
  <2> SUFFICES ASSUME TypeOK, StoreInv PROVE NoBackupIsLost
    OBVIOUS
  <2>1. created \subseteq Files /\ Listed \subseteq Files /\ \A f \in Files : f # None
    BY ListedIsNamed, NoneIsNoFile DEF TypeOK, FilesOK
  <2>2. \A f \in created : f \in Reachable \/ Digest(f) \in confirmed
    <3>1. \A f \in created : Firm(f) \/ Digest(f) \in confirmed
      BY <2>1, Zenon DEF StoreInv, SafeInv, Promised
    <3>2. \A f \in created : Firm(f) => Named(f) \/ Hidden(f)
      BY DEF Firm, Hidden
    <3> QED
      BY <2>1, <3>1, <3>2, ReachableIs DEF TypeOK
  <2>3. \A f \in Listed \ Copies : Content(f) \in {"Whole", "Changed"}
    <3>1. \A f \in Listed : Known(f)
      BY ListedIsNamed DEF Known, TypeOK
    <3> QED
      BY <2>1, <3>1, SMT DEF StoreInv, DraftInv, Content
  <2> QED
    BY <2>2, <2>3 DEF NoBackupIsLost
<1> QED
  BY <1>1, StoreIsSound, PTL

\* The steps that move a name or a hidden entry.
LEMMA Movers ==
  ASSUME Next, crashes' = crashes, crashes \in Nat
  PROVE  \/ UNCHANGED dir
         \/ \E d \in Deleters : Isolate(d) \/ Remove(d) \/ Relink(d) \/ Release(d) \/ Retain(d)
         \/ (\E c \in Creators : Publish(c)) \/ CopyIn
<1> USE DEF SameFiles, fileVars
<1>1. ASSUME NEW d \in Deleters, Delete(d)
      PROVE  UNCHANGED dir \/ Isolate(d) \/ Remove(d) \/ Relink(d) \/ Release(d) \/ Retain(d)
  BY <1>1, Zenon DEF Delete, Execute, OpenSession, ScanEntry, PlanExact, PlanTargets, PlanPrune, Fix,
     DropSession, TakeUp, IsolateFails, Verify, VerifyFails, RemoveFails, Settle, SyncRelink
<1>2. ASSUME NEW c \in Creators, MakeBackup(c)
      PROVE  UNCHANGED dir \/ Publish(c)
  BY <1>2, Zenon DEF MakeBackup, StartBackup, WriteContainer, SyncContainer, FinishBackup, BackupFails
<1>3. List => UNCHANGED dir
  BY Zenon DEF List, Listing, StartListing, ListKnown, ListNew, Read, Recheck, ListingRefused,
     FinishListing
<1>4. NamesCommit \/ HiddenCommits \/ ChangeInPlace => UNCHANGED dir
  BY Zenon DEF NamesCommit, HiddenCommits, ChangeInPlace
<1>5. ~ Kill /\ ~ PowerLoss
  BY SMT DEF Kill, PowerLoss, Crash
<1> QED
  BY <1>1, <1>2, <1>3, <1>4, <1>5, Zenon DEF Next

\* A file that leaves the directory was confirmed.
LEMMA RemovalIsConfirmed ==
  ASSUME TypeOK, StoreInv, [Next]_vars, crashes' = crashes, NEW f \in Files, Named(f) \/ Hidden(f)
  PROVE  (Named(f) \/ Hidden(f))' \/ Digest(f) \in confirmed
<1>1. \A h \in dir.hidden : h[1] \in Deleters \union {None} /\ h = <<h[1], h[2]>>
  BY HiddenTyped DEF TypeOK
<1>2. CASE UNCHANGED dir
  BY <1>2 DEF Named, Hidden
<1>3. ASSUME NEW d \in Deleters, Isolate(d) PROVE (Named(f) \/ Hidden(f))'
  <2>1. /\ \A h \in dir.hidden : h \in dir'.hidden
        /\ <<d, Occupant(d)>> \in dir'.hidden
        /\ \A n \in Names : dir'.names[n] = IF n = Original(d) THEN None ELSE dir.names[n]
    BY <1>3, SMT DEF Isolate, TypeOK, FilesOK, Directories
  <2>2. CASE f = Occupant(d)
    <3>1. <<d, f>> \in dir'.hidden /\ <<d, f>>[2] = f
      BY <2>1, <2>2
    <3> QED
      BY <3>1, Zenon DEF Hidden
  <2>3. CASE f # Occupant(d)
    BY <2>1, <2>3, SMT DEF Named, Hidden, Occupant
  <2> QED
    BY <2>2, <2>3
<1>4. ASSUME NEW d \in Deleters, Remove(d) \/ Release(d)
      PROVE  (Named(f) \/ Hidden(f))' \/ Digest(f) \in confirmed
  <2>1. /\ dir'.names = dir.names
        /\ \A h \in dir.hidden : h = <<d, parcel[d]>> \/ h \in dir'.hidden
    BY <1>4, SMT DEF Remove, Release, Unhide, Parcel, TypeOK, FilesOK, Directories
  <2>2. CASE f # parcel[d] \/ Named(f)
    BY <2>1, <2>2, SMT DEF Named, Hidden
  <2>3. CASE f = parcel[d] /\ ~ Named(f) /\ Remove(d)
    <3>1. Digest(f) = at[d][2] /\ at[d] \in plan[d]
      BY <2>3, SMT DEF Remove, Executing, At, StoreInv, ParcelInv, TypeOK, PlansOK, InHand, Holding
    <3> QED
      BY <3>1 DEF StoreInv, ParcelInv
  <2>4. CASE f = parcel[d] /\ ~ Named(f) /\ Release(d)
    <3>1. Firm(f) \/ Digest(f) \in confirmed
      BY <2>4 DEF StoreInv, SafeInv
    <3>2. ~ Holding(d) /\ d # None
      BY <2>4, ProcessesDiffer DEF Release, Executing, At, Holding
    <3>3. Firm(f) => Hidden(f)'
      BY <2>1, <2>4, <3>2, <1>1, SMT DEF Firm, Hidden
    <3> QED
      BY <3>1, <3>3
  <2> QED
    BY <1>4, <2>2, <2>3, <2>4
<1>5. ASSUME NEW d \in Deleters, Retain(d) PROVE (Named(f) \/ Hidden(f))'
  <2>1. Leaves(dir, dir', d) /\ <<None, f>>[2] = f
    BY <1>5, RetainLeaves
  <2>2. CASE Named(f)
    BY <2>1, <2>2 DEF Leaves, Named
  <2>3. ASSUME NEW h \in dir.hidden, h[2] = f PROVE Hidden(f)'
    BY <2>1, <2>3, Zenon DEF Leaves, Hidden
  <2> QED
    BY <2>2, <2>3 DEF Hidden
<1>6. ASSUME NEW n \in Names, NEW x, dir.names[n] = None, dir' = [dir EXCEPT !.names[n] = x]
      PROVE  (Named(f) \/ Hidden(f))'
  <2>1. dir'.hidden = dir.hidden /\ \A m \in Names : m # n => dir'.names[m] = dir.names[m]
    BY <1>6, SMT DEF TypeOK, FilesOK, Directories
  <2> QED
    BY <1>6, <2>1, NoneIsNoFile DEF Named, Hidden
<1>7. ASSUME NEW d \in Deleters, Relink(d) PROVE (Named(f) \/ Hidden(f))'
  <2>1. at[d][1] \in Names
    <3>1. at[d] \in Names \X Digests
      BY <1>7, SMT DEF Relink, Executing, At, TypeOK, PlansOK, InHand, Holding
    <3> QED
      BY <3>1
  <2> QED
    BY <1>6, <1>7, <2>1, Zenon DEF Relink, Occupant, Original
<1>8. ASSUME NEW c \in Creators, Publish(c) PROVE (Named(f) \/ Hidden(f))'
  BY <1>6, <1>8, Zenon DEF Publish, Making, At, TypeOK, ActorsOK
<1>9. ASSUME CopyIn PROVE (Named(f) \/ Hidden(f))'
  BY <1>6, <1>9, Zenon DEF CopyIn
<1>10. crashes \in Nat
  BY DEF TypeOK, FilesOK
<1>11. CASE Next
  BY <1>2, <1>3, <1>4, <1>5, <1>7, <1>8, <1>9, <1>10, <1>11, Movers, Zenon
<1> QED
  BY <1>2, <1>11 DEF vars, fileVars

(***************************************************************************)
(* No step but a death or a power loss takes a file out of the directory,  *)
(* unless its deletion was confirmed with the bytes it has.                *)
(***************************************************************************)
THEOREM RemovalsAreConfirmed == Spec => OnlyConfirmedContentIsRemoved
<1>1. ASSUME TypeOK, TypeOK', StoreInv, [Next]_vars
      PROVE  [crashes' = crashes => \A f \in Reachable \ Reachable' : Digest(f) \in confirmed]_vars
  <2> SUFFICES ASSUME crashes' = crashes, NEW f \in Reachable, f \notin Reachable'
               PROVE  Digest(f) \in confirmed
    OBVIOUS
  <2>1. f \in Files /\ f # None /\ (Named(f) \/ Hidden(f))
    BY <1>1, ReachableIs, NoneIsNoFile DEF TypeOK
  <2>2. ~ (Named(f) \/ Hidden(f))'
    <3>1. DOMAIN dir'.names = Names
      BY <1>1, SMT DEF TypeOK, FilesOK, Directories
    <3> QED
      BY <2>1, <3>1, Zenon DEF Reachable, Listed, Range, Named, Hidden
  <2> QED
    BY <1>1, <2>1, <2>2, RemovalIsConfirmed
<1> QED
  BY <1>1, StoreIsSound, PTL DEF Spec, OnlyConfirmedContentIsRemoved
-----------------------------------------------------------------------------
(***************************************************************************)
(* The retention floor.                                                    *)
(***************************************************************************)
LEMMA SoundStays ==
  ASSUME TypeOK, ParcelInv, FirmKept, ContentKept, NEW f \in Files, Sound(f)
  PROVE  Sound(f)' \/ Told(f)
<1>1. CASE PowerLoss
  <2>1. \A q \in Processes : pc'[q] = "Idle"
    BY <1>1, SMT DEF PowerLoss, Forget, Dead, TypeOK, ActorsOK, Processes
  <2> QED
    BY <2>1 DEF Told, Scanning, Executes, InHand, Holding, Linked, Processes
<1>2. ASSUME NEW d \in Deleters, Remove(d), f = parcel[d] PROVE Told(f)
  <2>1. /\ \A x \in Deleters : x # d => pc'[x] = pc[x]
        /\ \A x \in Deleters : x # d /\ pc[x] # "Idle" => Group[f] \in disturbed'[x]
        /\ pc[d] = "Remove"
    BY <1>2, SMT DEF Remove, Executing, Goto, At, TypeOK, ActorsOK, Processes
  <2>2. at[d] \in plan[d] /\ at[d][2] = <<f, Content(f)>>
    BY <1>2, <2>1, SMT DEF TypeOK, PlansOK, ParcelInv, InHand, Holding, Digest
  <2>3. Executes(d) /\ Planned(d, f)
    BY <2>1, <2>2 DEF Executes, InHand, Holding, Planned
  <2>4. \A x \in Deleters : x # d /\ (Scanning(x)' \/ Executes(x)') => pc[x] # "Idle"
    BY <2>1 DEF Scanning, Executes, InHand, Holding, Linked
  <2> QED
    BY <2>1, <2>3, <2>4, Zenon DEF Told
<1>3. Firm(f)' => Sound(f)' \/ Told(f)
  BY SMT DEF Sound, Content, ContentKept
<1> QED
  BY <1>1, <1>2, <1>3, Zenon DEF FirmKept, Sound

\* Every session's floor is kept.
LEMMA FloorStep ==
  ASSUME TypeOK, TypeOK', HomeInv, FloorInv, NEW d \in Deleters, FloorKind(d),
         \A f \in Files : Sound(f) => Sound(f)' \/ Told(f)
  PROVE  (ScanSound(d) /\ PlanSpares(d))'
<1>1. \A n \in Names : scan[d][n] # None => scan[d][n][1] \in Files
  BY SMT DEF TypeOK, PlansOK, Catalogues, Digests
<1>2. ~ (Scanning(d) /\ Executes(d))
  BY DEF Scanning, Executes, InHand, Holding, Linked
<1>3. \A f \in Files : Told(f) /\ (Scanning(d)' \/ Executes(d)') =>
        Group[f] \in disturbed'[d] \/ (Executes(d) /\ Planned(d, f))
  BY DEF Told
<1>4. CASE ~ Scanning(d)' /\ ~ Executes(d)'
  BY <1>4, Zenon DEF ScanSound, PlanSpares
<1>5. CASE pc'[d] = "Scan" /\ scan'[d] = EmptyCatalogue
  BY <1>5, SMT DEF ScanSound, PlanSpares, EmptyCatalogue, Scanning, Executes, InHand, Holding, Linked
<1>6. ASSUME disturbed[d] \subseteq disturbed'[d], Scanning(d)' => Scanning(d) /\ scan'[d] = scan[d],
             Executes(d)' => Executes(d) /\ plan'[d] \subseteq plan[d]
      PROVE  (ScanSound(d) /\ PlanSpares(d))'
  <2>1. ScanSound(d)'
    <3> SUFFICES ASSUME Scanning(d)', NEW n \in Names, scan[d][n] # None, scan[d][n][2] = "Whole",
                        Group[scan[d][n][1]] \notin disturbed'[d]
                 PROVE  Sound(scan[d][n][1])'
      BY <1>6, Zenon DEF ScanSound
    <3>1. PICK f \in Files : f = scan[d][n][1]
      BY <1>1
    <3>2. Sound(f)
      BY <1>6, <3>1 DEF FloorInv, ScanSound
    <3>3. Sound(f)'
      BY <1>2, <1>3, <1>6, <3>1, <3>2
    <3>4. scan'[d][n][1] = f
      BY <1>6, <3>1
    <3> QED
      BY <1>6, <3>1, <3>3, <3>4, Zenon
  <2>2. PlanSpares(d)'
    <3> SUFFICES ASSUME Executes(d)', NEW e \in plan'[d], e[2][2] = "Whole",
                        Group[e[2][1]] \in Groups, Group[e[2][1]] \notin disturbed'[d]
                 PROVE  \E f \in Files : Group[f] = Group[e[2][1]] /\ Sound(f)' /\ ~ Planned(d, f)'
      BY Zenon DEF PlanSpares
    <3>1. Executes(d) /\ e \in plan[d] /\ Group[e[2][1]] \notin disturbed[d]
      BY <1>6
    <3>2. PICK f \in Files : Group[f] = Group[e[2][1]] /\ Sound(f) /\ ~ Planned(d, f)
      BY <3>1 DEF FloorInv, PlanSpares
    <3>3. Sound(f)'
      BY <1>3, <3>2, Zenon
    <3>4. ~ Planned(d, f)'
      BY <1>6, <3>2 DEF Planned
    <3> QED
      BY <3>2, <3>3, <3>4
  <2> QED
    BY <2>1, <2>2
<1>7. ASSUME ScanEntry(d) PROVE (ScanSound(d) /\ PlanSpares(d))'
  <2>1. PICK n \in Names : scan'[d] = [scan[d] EXCEPT ![n] = Entry(n)]
    <3>1. PICK n \in unread[d] : scan' = [scan EXCEPT ![d][n] = Entry(n)]
      BY <1>7 DEF ScanEntry
    <3>2. n \in Names /\ d \in DOMAIN scan
      BY DEF TypeOK, ActorsOK, PlansOK
    <3> QED
      BY <3>1, <3>2
  <2>2. /\ pc[d] = "Scan" /\ Scanning(d)' /\ ~ Executes(d)' /\ disturbed'[d] = disturbed[d]
        /\ UNCHANGED <<file, dir>>
    BY <1>7, SMT DEF ScanEntry, At, Goto, SameFiles, fileVars, TypeOK, ActorsOK, Processes,
       Scanning, Executes, InHand, Holding, Linked
  <2>3. \A m \in Names : scan'[d][m] = IF m = n THEN Entry(n) ELSE scan[d][m]
    BY <2>1, SMT DEF TypeOK, PlansOK, Catalogues
  <2>4. ScanSound(d)'
    <3> SUFFICES ASSUME NEW m \in Names, scan'[d][m] # None, scan'[d][m][2] = "Whole",
                        Group[scan'[d][m][1]] \notin disturbed[d]
                 PROVE  Sound(scan[d][m][1])'
      BY <2>2, Zenon DEF ScanSound
    <3>1. PICK f \in Files : f = scan'[d][m][1]
      BY SMT DEF TypeOK, PlansOK, Catalogues, Digests
    <3>2. CASE m = n
      <4>1. dir.names[n] = f /\ Content(f) = "Whole"
        BY <2>3, <3>1, <3>2 DEF Entry, Digest
      <4> QED
        BY <2>2, <3>1, <4>1 DEF Sound, Firm, Named, Content
    <3>3. CASE m # n
      <4>1. Sound(f)
        BY <2>2, <2>3, <3>1, <3>3 DEF FloorInv, ScanSound, Scanning
      <4>2. ~ Executes(d)
        BY <2>2 DEF Executes, InHand, Holding, Linked
      <4>3. Sound(f)'
        BY <1>3, <2>2, <3>1, <4>1, <4>2, Zenon
      <4> QED
        BY <3>1, <4>3
    <3> QED
      BY <3>2, <3>3
  <2>5. PlanSpares(d)'
    BY <2>2 DEF PlanSpares
  <2> QED
    BY <2>4, <2>5
<1>8. ASSUME NEW T \in SUBSET Names, NEW A, RetentionFloor(scan[d], T), Fix(d, T, A)
      PROVE  (ScanSound(d) /\ PlanSpares(d))'
  <2>1. /\ pc[d] = "Plan" /\ pc'[d] = "Next" /\ disturbed'[d] = disturbed[d]
        /\ plan'[d] = {<<n, scan[d][n]>> : n \in T}
    BY <1>8, SMT DEF Fix, At, Goto, TypeOK, ActorsOK, PlansOK, Processes
  <2>2. /\ Executes(d)' /\ ~ Scanning(d)' /\ Scanning(d) /\ ~ Executes(d)
    BY <2>1 DEF Executes, Scanning, InHand, Holding, Linked
  <2>3. PlanSpares(d)'
    <3> SUFFICES ASSUME NEW e \in plan'[d], e[2][2] = "Whole",
                        Group[e[2][1]] \in Groups, Group[e[2][1]] \notin disturbed[d]
                 PROVE  \E f \in Files : Group[f] = Group[e[2][1]] /\ Sound(f)' /\ ~ Planned(d, f)'
      BY <2>1, Zenon DEF PlanSpares
    <3>1. PICK n \in T : e = <<n, scan[d][n]>>
      BY <2>1
    <3>2. \A k \in T : scan[d][k] # None
      <4>1. plan'[d] \subseteq Names \X Digests
        BY SMT DEF TypeOK, PlansOK
      <4>2. \A k \in T : <<k, scan[d][k]>> \in plan'[d]
        BY <2>1
      <4> QED
        BY <4>1, <4>2, NoneIsNoFile
    <3>3. scan[d][n][2] = "Whole" /\ Group[scan[d][n][1]] \in Groups /\ Group[scan[d][n][1]] \notin disturbed[d]
      BY <3>1
    <3>4. PICK m \in Names : /\ scan[d][m] # None /\ scan[d][m][2] = "Whole"
                             /\ Group[scan[d][m][1]] = Group[scan[d][n][1]]
                             /\ \A k \in T : scan[d][k] # None => scan[d][k][1] # scan[d][m][1]
      BY <1>8, <3>2, <3>3, RetentionFloorSpares
    <3>5. PICK f \in Files : f = scan[d][m][1]
      BY <1>1, <3>4
    <3>6. Sound(f)
      BY <2>2, <3>3, <3>4, <3>5 DEF FloorInv, ScanSound
    <3>7. Sound(f)'
      BY <1>3, <2>1, <2>2, <3>3, <3>4, <3>5, <3>6, Zenon
    <3>8. ~ Planned(d, f)'
      BY <2>1, <3>2, <3>4, <3>5 DEF Planned
    <3>9. Group[f] = Group[e[2][1]]
      BY <3>1, <3>4, <3>5
    <3> QED
      BY <3>7, <3>8, <3>9
  <2> QED
    BY <2>2, <2>3 DEF ScanSound
<1>9. ASSUME Plans(d) PROVE \E T \in SUBSET Names : \E A : RetentionFloor(scan[d], T) /\ Fix(d, T, A)
  <2>1. CASE PlanExact(d)
    <3>1. DOMAIN pins[d] \subseteq Names
      BY <2>1, SMT DEF PlanExact, TypeOK, PlansOK, Pins
    <3> QED
      BY <2>1, <3>1 DEF PlanExact
  <2>2. CASE PlanTargets(d)
    BY <2>2 DEF PlanTargets, Present
  <2>3. CASE PlanPrune(d)
    <3>1. \A keep : PruneCandidates(scan[d], keep) \subseteq Names
      BY DEF PruneCandidates
    <3> QED
      BY <2>3, <3>1 DEF PlanPrune
  <2> QED
    BY <1>9, <2>1, <2>2, <2>3 DEF Plans
<1> QED
  BY <1>4, <1>5, <1>6, <1>7, <1>8, <1>9, Zenon DEF FloorKind

\* No session has scanned or planned at the start.
LEMMA FloorStarts ==
  ASSUME Init
  PROVE  HomeInv /\ FloorInv
<1> USE ProcessesDiffer, ShelvesAssumption, NoneIsNoFile
<1>1. /\ dir.names \in Shelves /\ pc = [p \in Processes |-> "Idle"]
      /\ scan = [d \in Deleters |-> EmptyCatalogue]
      /\ file = [f \in Files |-> IF f \in Listed THEN "Whole" ELSE "Absent"]
  BY SMT DEF Init, Processes
<1>2. \A f \in Files : \A n \in Names : Home(f, n) => dir.names[n] = f /\ f \in Listed
  BY <1>1, SMT DEF Home, Holding, Linked, Processes, EmptyCatalogue, Listed, Range
<1>3. HomeInv
  BY <1>1, <1>2, SMT DEF HomeInv, Drafting, Processes
<1>4. FloorInv
  BY <1>1 DEF FloorInv, ScanSound, PlanSpares, Scanning, Executes, InHand, Holding, Linked, Processes
<1> QED
  BY <1>3, <1>4

FullInv == TypeOK /\ StoreInv /\ HomeInv /\ FloorInv

\* The whole invariant is inductive.
LEMMA FullStep == FullInv /\ [Next]_vars => FullInv'
<1> SUFFICES ASSUME TypeOK, StoreInv, HomeInv, FloorInv, [Next]_vars PROVE FullInv'
  BY DEF FullInv
<1>1. TypeOK' /\ StoreInv'
  BY StoreStep
<1>2. HomeInv'
  <2>1. HomeKind
    BY HomeKindStep DEF StoreInv
  <2> QED
    BY <1>1, <2>1, HomeStep DEF StoreInv
<1>3. FirmKept
  BY <1>1, KindStep, SafeKind DEF StoreInv
<1>4. \A f \in Files : Sound(f) => Sound(f)' \/ Told(f)
  BY <1>3, ContentStep, SoundStays DEF StoreInv
<1>5. ASSUME NEW d \in Deleters PROVE (ScanSound(d) /\ PlanSpares(d))'
  BY <1>1, <1>4, FloorKindStep, FloorStep
<1> QED
  BY <1>1, <1>2, <1>5, Zenon DEF FullInv, FloorInv

(***************************************************************************)
(* The invariant of the retention floor, for any number of sessions,       *)
(* backups and disks: of each disk whose backups a confirmed plan takes,   *)
(* one the plan spares is still whole and in its place, unless the session *)
(* was told that somebody else took one.                                   *)
(***************************************************************************)
THEOREM FloorInvariant == Spec => []FullInv
<1>1. Init => FullInv
  BY StoreStarts, FloorStarts DEF FullInv
<1> QED
  BY <1>1, FullStep, PTL DEF Spec

(***************************************************************************)
(* A deletion takes the last whole backup of a disk only if something else *)
(* took backups of that disk after its scan began.                         *)
(***************************************************************************)
THEOREM FloorHolds == Spec => FloorHoldsUnlessDisturbed
<1>1. ASSUME FullInv, TypeOK', [Next]_vars, NEW d \in Deleters, NEW g \in Groups,
             pc[d] = "Remove", pc'[d] = "Settle", NEW k \in Kept(g), Kept(g)' = {}, g \notin disturbed[d]
      PROVE  FALSE
  <2> USE <1>1
  <2> USE DEF FullInv
  <2>1. Remove(d)
    BY RemoverStep DEF RemoverKind
  <2>2. file' = file /\ crashes' = crashes
    BY <2>1 DEF Remove, Executing, boundVars
  <2>3. \A f \in Files : f # None /\ (f \in Reachable <=> Named(f) \/ Hidden(f))
    BY ReachableIs, NoneIsNoFile DEF TypeOK
  <2>4. k \in Files /\ (Named(k) \/ Hidden(k)) /\ Group[k] = g /\ Content(k) = "Whole"
    BY <2>3, ReachableIs DEF Kept, TypeOK
  <2>5. \A f \in Files : Group[f] = g /\ Content(f) = "Whole" => ~ Firm(f)'
    <3> SUFFICES ASSUME NEW f \in Files, Group[f] = g, Content(f) = "Whole", Firm(f)' PROVE FALSE
      OBVIOUS
    <3>1. DOMAIN dir'.names = Names
      BY SMT DEF TypeOK, FilesOK, Directories
    <3>2. (Named(f) \/ Hidden(f))'
      BY DEF Firm, Hidden
    <3>3. f \in Reachable'
      BY <2>3, <3>1, <3>2, Zenon DEF Reachable, Listed, Range, Named, Hidden
    <3>4. Content(f)' = "Whole"
      BY <2>2 DEF Content
    <3> QED
      BY <3>3, <3>4, Zenon DEF Kept
  <2>6. k = parcel[d]
    <3>1. dir'.names = dir.names /\ \A h \in dir.hidden : h = <<d, parcel[d]>> \/ h \in dir'.hidden
      BY <2>1, SMT DEF Remove, Unhide, Parcel, TypeOK, FilesOK, Directories
    <3>2. k # parcel[d] => (Named(k) \/ Hidden(k))'
      BY <2>4, <3>1, SMT DEF Named, Hidden
    <3>3. (Named(k) \/ Hidden(k))' => k \in Reachable'
      <4>1. DOMAIN dir'.names = Names
        BY SMT DEF TypeOK, FilesOK, Directories
      <4> QED
        BY <2>3, <2>4, <4>1, Zenon DEF Reachable, Listed, Range, Named, Hidden
    <3>4. Content(k)' = "Whole"
      BY <2>2, <2>4 DEF Content
    <3> QED
      BY <2>4, <3>2, <3>3, <3>4, Zenon DEF Kept
  <2>7. at[d] \in plan[d] /\ at[d][2] = <<k, "Whole">>
    BY <2>4, <2>6, SMT DEF TypeOK, PlansOK, StoreInv, ParcelInv, InHand, Holding, Digest
  <2>8. PICK f \in Files : Group[f] = g /\ Sound(f) /\ ~ Planned(d, f)
    <3>1. Executes(d)
      BY DEF Executes, InHand, Holding
    <3>2. at[d][2][2] = "Whole" /\ at[d][2][1] = k
      BY <2>7
    <3> QED
      BY <2>4, <2>7, <3>1, <3>2 DEF FloorInv, PlanSpares
  <2>9. f # k
    BY <2>7, <2>8 DEF Planned
  <2>10. Firm(f)'
    <3>1. FirmKept
      BY StoreStep, KindStep, SafeKind DEF StoreInv
    <3>2. \A x \in Deleters : Remove(x) => x = d
      BY SMT DEF Remove, Executing, Goto, At, TypeOK, ActorsOK, Processes
    <3>3. ~ PowerLoss
      BY <2>2, SMT DEF PowerLoss, Crash, TypeOK, FilesOK
    <3> QED
      BY <2>6, <2>8, <2>9, <3>1, <3>2, <3>3, Zenon DEF FirmKept, Sound
  <2> QED
    BY <2>5, <2>8, <2>10, Zenon DEF Sound
<1>2. ASSUME FullInv, TypeOK', [Next]_vars
      PROVE  [\A d \in Deleters, g \in Groups :
                (/\ pc[d] = "Remove" /\ pc'[d] = "Settle"
                 /\ Kept(g) # {} /\ Kept(g)' = {}) => g \in disturbed[d]]_vars
  BY <1>1, <1>2
<1>3. FullInv => TypeOK
  BY DEF FullInv
<1> QED
  BY <1>2, <1>3, FloorInvariant, PTL DEF Spec, FloorHoldsUnlessDisturbed
-----------------------------------------------------------------------------
(***************************************************************************)
(* The display's cache.  A stamp that was read over comes back only if its *)
(* file returns to its name, which takes one deletion that holds the file  *)
(* and another that clears the name for it: with one deletion beside the   *)
(* display, the stamp that is still there vouches for what was read.       *)
(***************************************************************************)
OneDeletionBesideTheDisplay ==
  \A c \in Casts : Display \in c => \A d, e \in Deleters \intersect c : d = e

\* Out in the directory, or once there; no backup in the making.
Settled(f) == file[f] # "Absent" /\ \A c \in Creators : ~ Drafting(c, f)

\* A deletion that may link f back under n.
Returns(d, f, n) == Holding(d) /\ parcel[d] = f /\ at[d][1] = n

\* The stamp f had is not at n, and does not come back to it.
Gone(f, content, n) ==
  \/ Content(f) # content
  \/ dir.names[n] # f /\ \A d \in Deleters : Returns(d, f, n) => dir.names[n] # None

CastInv ==
  /\ \A d \in Deleters \ cast : pc[d] = "Idle"
  /\ Display \notin cast => pc[Display] = "Idle"

Probing == pc[Display] \in {"Read", "Recheck"}

ProbeInv ==
  Probing =>
    /\ Settled(probe.stamp[1])
    /\ Content(probe.stamp[1]) = probe.stamp[2] \/ file[probe.stamp[1]] = "Changed"
    /\ probe.digest \notin {None, probe.stamp} =>
         Gone(probe.stamp[1], probe.stamp[2], probe.name)

CacheInv == CastInv /\ ProbeInv /\ DisplayShowsWhatTheStampMeans

\* What a step may do to a file that is or was in the directory.
SettledStays(f) ==
  Settled(f) =>
    /\ file'[f] \in {file[f], "Changed"}
    /\ Settled(f)'
    /\ \A n \in Names : dir'.names[n] = f /\ dir.names[n] # f =>
         \E d \in Deleters : Returns(d, f, n) /\ dir.names[n] = None

\* Only an isolation clears a name, and only it gives a deletion a file.
NamesClear ==
  /\ \A n \in Names : dir.names[n] # None /\ dir'.names[n] = None =>
       \E d \in Deleters : pc[d] = "Isolate" /\ at[d][1] = n
  /\ \A d \in Deleters : Holding(d)' =>
       /\ at'[d] = at[d]
       /\ \/ Holding(d) /\ parcel'[d] = parcel[d]
          \/ parcel'[d] = dir.names[at[d][1]]

SettledKind == PowerLoss \/ \A f \in Files : SettledStays(f)
NamesKind   == PowerLoss \/ NamesClear

CacheKind == cache' = cache \/ PowerLoss \/ Recheck

ProbeKind ==
  \/ ~ Probing'
  \/ Probing /\ probe' = probe
  \/ /\ UNCHANGED <<file, dir, draft, parcel, at>>
     /\ \A p \in Deleters \union Creators : pc'[p] = pc[p]
     /\ \/ \E n \in Names : /\ Entry(n) # None
                            /\ probe' = [name |-> n, stamp |-> Entry(n), digest |-> None]
        \/ Probing /\ probe' = [probe EXCEPT !.digest = Entry(probe.name)]

\* The processes of a behaviour stay the same.
LEMMA CastStep == TypeOK /\ CastInv /\ [Next]_vars => CastInv'
<1> SUFFICES ASSUME TypeOK /\ CastInv, [Next]_vars PROVE CastInv'
  OBVIOUS
<1> USE ProcessesDiffer, NoneIsNoFile
<1> USE DEF TypeOK, FilesOK, ActorsOK, Holding, Linked, InHand, Processes, CastInv,
        Goto, At, SameFiles, fileVars, boundVars, sessionVars, creatorVars, displayVars, actorVars, Others
<1>1. ASSUME NEW d \in Deleters, d \in cast, OpenSession(d), Others PROVE CastInv'
  BY <1>1, SMT DEF OpenSession, Present
<1>2. ASSUME NEW d \in Deleters, ScanEntry(d), Others PROVE CastInv'
  BY <1>2, SMT DEF ScanEntry, Entry
<1>3. ASSUME NEW d \in Deleters, PlanExact(d), Others PROVE CastInv'
  BY <1>3, SMT DEF PlanExact, Fix
<1>4. ASSUME NEW d \in Deleters, PlanTargets(d), Others PROVE CastInv'
  BY <1>4, SMT DEF PlanTargets, Fix, Present
<1>5. ASSUME NEW d \in Deleters, PlanPrune(d), Others PROVE CastInv'
  <2>1. PICK T, A : Fix(d, T, A)
    BY <1>5 DEF PlanPrune
  <2> QED
    BY <1>5, <2>1, SMT DEF Fix
<1>6. ASSUME NEW d \in Deleters, DropSession(d), Others PROVE CastInv'
  BY <1>6, SMT DEF DropSession
<1>7. ASSUME NEW d \in Deleters, TakeUp(d), Others PROVE CastInv'
  BY <1>7, SMT DEF TakeUp, Executing, Pass
<1>8. ASSUME NEW d \in Deleters, Isolate(d), Others PROVE CastInv'
  BY <1>8, SMT DEF Isolate, Executing, Occupant, Original
<1>9. ASSUME NEW d \in Deleters, IsolateFails(d), Others PROVE CastInv'
  BY <1>9, SMT DEF IsolateFails, Executing, NextEntry, Pass
<1>10. ASSUME NEW d \in Deleters, Verify(d), Others PROVE CastInv'
  BY <1>10, SMT DEF Verify, Executing, SameEntry, NamesSynced, Moving
<1>11. ASSUME NEW d \in Deleters, VerifyFails(d), Others PROVE CastInv'
  BY <1>11, SMT DEF VerifyFails, Executing, SameEntry
<1>12. ASSUME NEW d \in Deleters, Remove(d), Others PROVE CastInv'
  BY <1>12, SMT DEF Remove, Executing, Unhide, Parcel
<1>13. ASSUME NEW d \in Deleters, RemoveFails(d), Others PROVE CastInv'
  BY <1>13, SMT DEF RemoveFails, Executing, SameEntry
<1>14. ASSUME NEW d \in Deleters, Settle(d), Others PROVE CastInv'
  BY <1>14, SMT DEF Settle, Executing, NextEntry, Pass, Parcel
<1>15. ASSUME NEW d \in Deleters, Relink(d), Others PROVE CastInv'
  BY <1>15, SMT DEF Relink, Executing, SameEntry, Original, Occupant
<1>16. ASSUME NEW d \in Deleters, SyncRelink(d), Others PROVE CastInv'
  BY <1>16, SMT DEF SyncRelink, Executing, SameEntry, NamesSynced, Moving
<1>17. ASSUME NEW d \in Deleters, Release(d), Others PROVE CastInv'
  BY <1>17, SMT DEF Release, Executing, NextEntry, Pass, Unhide, Parcel
<1>18. ASSUME NEW d \in Deleters, Retain(d), Others PROVE CastInv'
  BY <1>18, SMT DEF Retain, Executing, NextEntry, Pass, Left
<1>19. ASSUME NEW c \in Creators, StartBackup(c), UNCHANGED cast PROVE CastInv'
  BY <1>19, SMT DEF StartBackup, Making
<1>20. ASSUME NEW c \in Creators, WriteContainer(c), UNCHANGED cast PROVE CastInv'
  BY <1>20, SMT DEF WriteContainer, Making
<1>21. ASSUME NEW c \in Creators, SyncContainer(c), UNCHANGED cast PROVE CastInv'
  BY <1>21, SMT DEF SyncContainer, Making
<1>22. ASSUME NEW c \in Creators, Publish(c), UNCHANGED cast PROVE CastInv'
  BY <1>22, SMT DEF Publish, Making
<1>23. ASSUME NEW c \in Creators, FinishBackup(c), UNCHANGED cast PROVE CastInv'
  BY <1>23, SMT DEF FinishBackup, Making, EndBackup, NamesSynced, Moving
<1>24. ASSUME NEW c \in Creators, BackupFails(c), UNCHANGED cast PROVE CastInv'
  BY <1>24, SMT DEF BackupFails, Making, EndBackup
<1>25. CASE Display \in cast /\ StartListing /\ UNCHANGED cast
  BY <1>25, SMT DEF StartListing, Listing
<1>26. CASE Display \in cast /\ ListKnown /\ UNCHANGED cast
  BY <1>26, SMT DEF ListKnown, Listing, Hit, Entry
<1>27. CASE Display \in cast /\ ListNew /\ UNCHANGED cast
  BY <1>27, SMT DEF ListNew, Listing, Entry
<1>28. CASE Display \in cast /\ Read /\ UNCHANGED cast
  BY <1>28, SMT DEF Read, Listing, Entry
<1>29. CASE Display \in cast /\ Recheck /\ UNCHANGED cast
  BY <1>29, SMT DEF Recheck, Listing, Remember
<1>30. CASE Display \in cast /\ ListingRefused /\ UNCHANGED cast
  BY <1>30, SMT DEF ListingRefused, Listing
<1>31. CASE Display \in cast /\ FinishListing /\ UNCHANGED cast
  BY <1>31, SMT DEF FinishListing, Listing
<1>32. CASE NamesCommit /\ UNCHANGED <<cast, actorVars>>
  BY <1>32, SMT DEF NamesCommit, NamesSynced, Moving
<1>33. CASE HiddenCommits /\ UNCHANGED <<cast, actorVars>>
  BY <1>33, SMT DEF HiddenCommits
<1>34. CASE ChangeInPlace /\ UNCHANGED cast
  BY <1>34, SMT DEF ChangeInPlace, Meddle, Disturb
<1>35. CASE CopyIn /\ UNCHANGED cast
  BY <1>35, SMT DEF CopyIn, Meddle
<1>36. CASE Kill /\ UNCHANGED cast
  BY <1>36, SMT DEF Kill, Crash, Forget, Dead, Left
<1>37. CASE PowerLoss /\ UNCHANGED cast
  BY <1>37, SMT DEF PowerLoss, Crash, Forget, Dead, Left
<1>38. CASE UNCHANGED vars
  BY <1>38, SMT DEF vars
<1> QED
  BY <1>1, <1>2, <1>3, <1>4, <1>5, <1>6, <1>7, <1>8, <1>9, <1>10, <1>11, <1>12, <1>13, <1>14, <1>15,
     <1>16, <1>17, <1>18, <1>19, <1>20, <1>21, <1>22, <1>23, <1>24, <1>25, <1>26, <1>27, <1>28,
     <1>29, <1>30, <1>31, <1>32, <1>33, <1>34, <1>35, <1>36, <1>37, <1>38 DEF Next, Delete, Execute,
     MakeBackup, List


LEMMA SettledStep == TypeOK /\ [Next]_vars => SettledKind
<1> SUFFICES ASSUME TypeOK, [Next]_vars PROVE SettledKind
  OBVIOUS
<1> USE ProcessesDiffer, ListedIsNamed, FilesAreNumbered, NoneIsNoFile
<1> USE DEF TypeOK, FilesOK, ActorsOK, Holding, Linked, InHand, Processes, SettledKind, SettledStays, Settled,
        Drafting, Returns, Directories, PlansOK,
        Goto, At, SameFiles, fileVars, boundVars, sessionVars, creatorVars, displayVars, actorVars, Others
<1>1. ASSUME NEW d \in Deleters, OpenSession(d), Others PROVE SettledKind
  BY <1>1, SMT DEF OpenSession, Present
<1>2. ASSUME NEW d \in Deleters, ScanEntry(d), Others PROVE SettledKind
  BY <1>2, SMT DEF ScanEntry, Entry
<1>3. ASSUME NEW d \in Deleters, PlanExact(d), Others PROVE SettledKind
  BY <1>3, SMT DEF PlanExact, Fix
<1>4. ASSUME NEW d \in Deleters, PlanTargets(d), Others PROVE SettledKind
  BY <1>4, SMT DEF PlanTargets, Fix, Present
<1>5. ASSUME NEW d \in Deleters, PlanPrune(d), Others PROVE SettledKind
  <2>1. PICK T, A : Fix(d, T, A)
    BY <1>5 DEF PlanPrune
  <2> QED
    BY <1>5, <2>1, SMT DEF Fix
<1>6. ASSUME NEW d \in Deleters, DropSession(d), Others PROVE SettledKind
  BY <1>6, SMT DEF DropSession
<1>7. ASSUME NEW d \in Deleters, TakeUp(d), Others PROVE SettledKind
  BY <1>7, SMT DEF TakeUp, Executing, Pass
<1>8. ASSUME NEW d \in Deleters, Isolate(d), Others PROVE SettledKind
  BY <1>8, SMT DEF Isolate, Executing, Occupant, Original
<1>9. ASSUME NEW d \in Deleters, IsolateFails(d), Others PROVE SettledKind
  BY <1>9, SMT DEF IsolateFails, Executing, NextEntry, Pass
<1>10. ASSUME NEW d \in Deleters, Verify(d), Others PROVE SettledKind
  BY <1>10, SMT DEF Verify, Executing, SameEntry, NamesSynced, Moving
<1>11. ASSUME NEW d \in Deleters, VerifyFails(d), Others PROVE SettledKind
  BY <1>11, SMT DEF VerifyFails, Executing, SameEntry
<1>12. ASSUME NEW d \in Deleters, Remove(d), Others PROVE SettledKind
  BY <1>12, SMT DEF Remove, Executing, Unhide, Parcel
<1>13. ASSUME NEW d \in Deleters, RemoveFails(d), Others PROVE SettledKind
  BY <1>13, SMT DEF RemoveFails, Executing, SameEntry
<1>14. ASSUME NEW d \in Deleters, Settle(d), Others PROVE SettledKind
  BY <1>14, SMT DEF Settle, Executing, NextEntry, Pass, Parcel
<1>15. ASSUME NEW d \in Deleters, Relink(d), Others PROVE SettledKind
  BY <1>15, SMT DEF Relink, Executing, SameEntry, Original, Occupant
<1>16. ASSUME NEW d \in Deleters, SyncRelink(d), Others PROVE SettledKind
  BY <1>16, SMT DEF SyncRelink, Executing, SameEntry, NamesSynced, Moving
<1>17. ASSUME NEW d \in Deleters, Release(d), Others PROVE SettledKind
  BY <1>17, SMT DEF Release, Executing, NextEntry, Pass, Unhide, Parcel
<1>18. ASSUME NEW d \in Deleters, Retain(d), Others PROVE SettledKind
  BY <1>18, SMT DEF Retain, Executing, NextEntry, Pass, Left
<1>19. ASSUME NEW c \in Creators, StartBackup(c), UNCHANGED cast PROVE SettledKind
  BY <1>19, SMT DEF StartBackup, Making
<1>20. ASSUME NEW c \in Creators, WriteContainer(c), UNCHANGED cast PROVE SettledKind
  BY <1>20, SMT DEF WriteContainer, Making
<1>21. ASSUME NEW c \in Creators, SyncContainer(c), UNCHANGED cast PROVE SettledKind
  BY <1>21, SMT DEF SyncContainer, Making
<1>22. ASSUME NEW c \in Creators, Publish(c), UNCHANGED cast PROVE SettledKind
  BY <1>22, SMT DEF Publish, Making
<1>23. ASSUME NEW c \in Creators, FinishBackup(c), UNCHANGED cast PROVE SettledKind
  BY <1>23, SMT DEF FinishBackup, Making, EndBackup, NamesSynced, Moving
<1>24. ASSUME NEW c \in Creators, BackupFails(c), UNCHANGED cast PROVE SettledKind
  BY <1>24, SMT DEF BackupFails, Making, EndBackup
<1>25. CASE StartListing /\ UNCHANGED cast
  BY <1>25, SMT DEF StartListing, Listing
<1>26. CASE ListKnown /\ UNCHANGED cast
  BY <1>26, SMT DEF ListKnown, Listing, Hit, Entry
<1>27. CASE ListNew /\ UNCHANGED cast
  BY <1>27, SMT DEF ListNew, Listing, Entry
<1>28. CASE Read /\ UNCHANGED cast
  BY <1>28, SMT DEF Read, Listing, Entry
<1>29. CASE Recheck /\ UNCHANGED cast
  BY <1>29, SMT DEF Recheck, Listing, Remember
<1>30. CASE ListingRefused /\ UNCHANGED cast
  BY <1>30, SMT DEF ListingRefused, Listing
<1>31. CASE FinishListing /\ UNCHANGED cast
  BY <1>31, SMT DEF FinishListing, Listing
<1>32. CASE NamesCommit /\ UNCHANGED <<cast, actorVars>>
  BY <1>32, SMT DEF NamesCommit, NamesSynced, Moving
<1>33. CASE HiddenCommits /\ UNCHANGED <<cast, actorVars>>
  BY <1>33, SMT DEF HiddenCommits
<1>34. CASE ChangeInPlace /\ UNCHANGED cast
  BY <1>34, SMT DEF ChangeInPlace, Meddle, Disturb
<1>35. CASE CopyIn /\ UNCHANGED cast
  BY <1>35, SMT DEF CopyIn, Meddle
<1>36. CASE Kill /\ UNCHANGED cast
  BY <1>36, SMT DEF Kill, Crash, Forget, Dead, Left
<1>37. CASE PowerLoss /\ UNCHANGED cast
  BY <1>37, Zenon
<1>38. CASE UNCHANGED vars
  BY <1>38, SMT DEF vars
<1> QED
  BY <1>1, <1>2, <1>3, <1>4, <1>5, <1>6, <1>7, <1>8, <1>9, <1>10, <1>11, <1>12, <1>13, <1>14, <1>15,
     <1>16, <1>17, <1>18, <1>19, <1>20, <1>21, <1>22, <1>23, <1>24, <1>25, <1>26, <1>27, <1>28,
     <1>29, <1>30, <1>31, <1>32, <1>33, <1>34, <1>35, <1>36, <1>37, <1>38 DEF Next, Delete, Execute,
     MakeBackup, List


LEMMA NamesStep == TypeOK /\ [Next]_vars => NamesKind
<1> SUFFICES ASSUME TypeOK, [Next]_vars PROVE NamesKind
  OBVIOUS
<1> USE ProcessesDiffer, ListedIsNamed, FilesAreNumbered, NoneIsNoFile
<1> USE DEF TypeOK, FilesOK, ActorsOK, Holding, Linked, InHand, Processes, NamesKind, NamesClear, Directories, PlansOK,
        Goto, At, SameFiles, fileVars, boundVars, sessionVars, creatorVars, displayVars, actorVars, Others
<1>1. ASSUME NEW d \in Deleters, OpenSession(d), Others PROVE NamesKind
  BY <1>1, SMT DEF OpenSession, Present
<1>2. ASSUME NEW d \in Deleters, ScanEntry(d), Others PROVE NamesKind
  BY <1>2, SMT DEF ScanEntry, Entry
<1>3. ASSUME NEW d \in Deleters, PlanExact(d), Others PROVE NamesKind
  BY <1>3, SMT DEF PlanExact, Fix
<1>4. ASSUME NEW d \in Deleters, PlanTargets(d), Others PROVE NamesKind
  BY <1>4, SMT DEF PlanTargets, Fix, Present
<1>5. ASSUME NEW d \in Deleters, PlanPrune(d), Others PROVE NamesKind
  <2>1. PICK T, A : Fix(d, T, A)
    BY <1>5 DEF PlanPrune
  <2> QED
    BY <1>5, <2>1, SMT DEF Fix
<1>6. ASSUME NEW d \in Deleters, DropSession(d), Others PROVE NamesKind
  BY <1>6, SMT DEF DropSession
<1>7. ASSUME NEW d \in Deleters, TakeUp(d), Others PROVE NamesKind
  BY <1>7, SMT DEF TakeUp, Executing, Pass
<1>8. ASSUME NEW d \in Deleters, Isolate(d), Others PROVE NamesKind
  BY <1>8, SMT DEF Isolate, Executing, Occupant, Original
<1>9. ASSUME NEW d \in Deleters, IsolateFails(d), Others PROVE NamesKind
  BY <1>9, SMT DEF IsolateFails, Executing, NextEntry, Pass
<1>10. ASSUME NEW d \in Deleters, Verify(d), Others PROVE NamesKind
  BY <1>10, SMT DEF Verify, Executing, SameEntry, NamesSynced, Moving
<1>11. ASSUME NEW d \in Deleters, VerifyFails(d), Others PROVE NamesKind
  BY <1>11, SMT DEF VerifyFails, Executing, SameEntry
<1>12. ASSUME NEW d \in Deleters, Remove(d), Others PROVE NamesKind
  BY <1>12, SMT DEF Remove, Executing, Unhide, Parcel
<1>13. ASSUME NEW d \in Deleters, RemoveFails(d), Others PROVE NamesKind
  BY <1>13, SMT DEF RemoveFails, Executing, SameEntry
<1>14. ASSUME NEW d \in Deleters, Settle(d), Others PROVE NamesKind
  BY <1>14, SMT DEF Settle, Executing, NextEntry, Pass, Parcel
<1>15. ASSUME NEW d \in Deleters, Relink(d), Others PROVE NamesKind
  BY <1>15, SMT DEF Relink, Executing, SameEntry, Original, Occupant
<1>16. ASSUME NEW d \in Deleters, SyncRelink(d), Others PROVE NamesKind
  BY <1>16, SMT DEF SyncRelink, Executing, SameEntry, NamesSynced, Moving
<1>17. ASSUME NEW d \in Deleters, Release(d), Others PROVE NamesKind
  BY <1>17, SMT DEF Release, Executing, NextEntry, Pass, Unhide, Parcel
<1>18. ASSUME NEW d \in Deleters, Retain(d), Others PROVE NamesKind
  BY <1>18, SMT DEF Retain, Executing, NextEntry, Pass, Left
<1>19. ASSUME NEW c \in Creators, StartBackup(c), UNCHANGED cast PROVE NamesKind
  BY <1>19, SMT DEF StartBackup, Making
<1>20. ASSUME NEW c \in Creators, WriteContainer(c), UNCHANGED cast PROVE NamesKind
  BY <1>20, SMT DEF WriteContainer, Making
<1>21. ASSUME NEW c \in Creators, SyncContainer(c), UNCHANGED cast PROVE NamesKind
  BY <1>21, SMT DEF SyncContainer, Making
<1>22. ASSUME NEW c \in Creators, Publish(c), UNCHANGED cast PROVE NamesKind
  BY <1>22, SMT DEF Publish, Making
<1>23. ASSUME NEW c \in Creators, FinishBackup(c), UNCHANGED cast PROVE NamesKind
  BY <1>23, SMT DEF FinishBackup, Making, EndBackup, NamesSynced, Moving
<1>24. ASSUME NEW c \in Creators, BackupFails(c), UNCHANGED cast PROVE NamesKind
  BY <1>24, SMT DEF BackupFails, Making, EndBackup
<1>25. CASE StartListing /\ UNCHANGED cast
  BY <1>25, SMT DEF StartListing, Listing
<1>26. CASE ListKnown /\ UNCHANGED cast
  BY <1>26, SMT DEF ListKnown, Listing, Hit, Entry
<1>27. CASE ListNew /\ UNCHANGED cast
  BY <1>27, SMT DEF ListNew, Listing, Entry
<1>28. CASE Read /\ UNCHANGED cast
  BY <1>28, SMT DEF Read, Listing, Entry
<1>29. CASE Recheck /\ UNCHANGED cast
  BY <1>29, SMT DEF Recheck, Listing, Remember
<1>30. CASE ListingRefused /\ UNCHANGED cast
  BY <1>30, SMT DEF ListingRefused, Listing
<1>31. CASE FinishListing /\ UNCHANGED cast
  BY <1>31, SMT DEF FinishListing, Listing
<1>32. CASE NamesCommit /\ UNCHANGED <<cast, actorVars>>
  BY <1>32, SMT DEF NamesCommit, NamesSynced, Moving
<1>33. CASE HiddenCommits /\ UNCHANGED <<cast, actorVars>>
  BY <1>33, SMT DEF HiddenCommits
<1>34. CASE ChangeInPlace /\ UNCHANGED cast
  BY <1>34, SMT DEF ChangeInPlace, Meddle, Disturb
<1>35. CASE CopyIn /\ UNCHANGED cast
  BY <1>35, SMT DEF CopyIn, Meddle
<1>36. CASE Kill /\ UNCHANGED cast
  BY <1>36, SMT DEF Kill, Crash, Forget, Dead, Left
<1>37. CASE PowerLoss /\ UNCHANGED cast
  BY <1>37, Zenon
<1>38. CASE UNCHANGED vars
  BY <1>38, SMT DEF vars
<1> QED
  BY <1>1, <1>2, <1>3, <1>4, <1>5, <1>6, <1>7, <1>8, <1>9, <1>10, <1>11, <1>12, <1>13, <1>14, <1>15,
     <1>16, <1>17, <1>18, <1>19, <1>20, <1>21, <1>22, <1>23, <1>24, <1>25, <1>26, <1>27, <1>28,
     <1>29, <1>30, <1>31, <1>32, <1>33, <1>34, <1>35, <1>36, <1>37, <1>38 DEF Next, Delete, Execute,
     MakeBackup, List


LEMMA ProbeKindStep == TypeOK /\ [Next]_vars => ProbeKind
<1> SUFFICES ASSUME TypeOK, [Next]_vars PROVE ProbeKind
  OBVIOUS
<1> USE ProcessesDiffer, NoneIsNoFile
<1> USE DEF Probing, TypeOK, FilesOK, ActorsOK, Holding, Linked, InHand, Processes, ProbeKind, DisplayOK,
        Goto, At, SameFiles, fileVars, boundVars, sessionVars, creatorVars, displayVars, actorVars, Others
<1>1. ASSUME NEW d \in Deleters, OpenSession(d), Others PROVE ProbeKind
  BY <1>1, SMT DEF OpenSession, Present
<1>2. ASSUME NEW d \in Deleters, ScanEntry(d), Others PROVE ProbeKind
  BY <1>2, SMT DEF ScanEntry, Entry
<1>3. ASSUME NEW d \in Deleters, PlanExact(d), Others PROVE ProbeKind
  BY <1>3, SMT DEF PlanExact, Fix
<1>4. ASSUME NEW d \in Deleters, PlanTargets(d), Others PROVE ProbeKind
  BY <1>4, SMT DEF PlanTargets, Fix, Present
<1>5. ASSUME NEW d \in Deleters, PlanPrune(d), Others PROVE ProbeKind
  <2>1. PICK T, A : Fix(d, T, A)
    BY <1>5 DEF PlanPrune
  <2> QED
    BY <1>5, <2>1, SMT DEF Fix
<1>6. ASSUME NEW d \in Deleters, DropSession(d), Others PROVE ProbeKind
  BY <1>6, SMT DEF DropSession
<1>7. ASSUME NEW d \in Deleters, TakeUp(d), Others PROVE ProbeKind
  BY <1>7, SMT DEF TakeUp, Executing, Pass
<1>8. ASSUME NEW d \in Deleters, Isolate(d), Others PROVE ProbeKind
  BY <1>8, SMT DEF Isolate, Executing, Occupant, Original
<1>9. ASSUME NEW d \in Deleters, IsolateFails(d), Others PROVE ProbeKind
  BY <1>9, SMT DEF IsolateFails, Executing, NextEntry, Pass
<1>10. ASSUME NEW d \in Deleters, Verify(d), Others PROVE ProbeKind
  BY <1>10, SMT DEF Verify, Executing, SameEntry, NamesSynced, Moving
<1>11. ASSUME NEW d \in Deleters, VerifyFails(d), Others PROVE ProbeKind
  BY <1>11, SMT DEF VerifyFails, Executing, SameEntry
<1>12. ASSUME NEW d \in Deleters, Remove(d), Others PROVE ProbeKind
  BY <1>12, SMT DEF Remove, Executing, Unhide, Parcel
<1>13. ASSUME NEW d \in Deleters, RemoveFails(d), Others PROVE ProbeKind
  BY <1>13, SMT DEF RemoveFails, Executing, SameEntry
<1>14. ASSUME NEW d \in Deleters, Settle(d), Others PROVE ProbeKind
  BY <1>14, SMT DEF Settle, Executing, NextEntry, Pass, Parcel
<1>15. ASSUME NEW d \in Deleters, Relink(d), Others PROVE ProbeKind
  BY <1>15, SMT DEF Relink, Executing, SameEntry, Original, Occupant
<1>16. ASSUME NEW d \in Deleters, SyncRelink(d), Others PROVE ProbeKind
  BY <1>16, SMT DEF SyncRelink, Executing, SameEntry, NamesSynced, Moving
<1>17. ASSUME NEW d \in Deleters, Release(d), Others PROVE ProbeKind
  BY <1>17, SMT DEF Release, Executing, NextEntry, Pass, Unhide, Parcel
<1>18. ASSUME NEW d \in Deleters, Retain(d), Others PROVE ProbeKind
  BY <1>18, SMT DEF Retain, Executing, NextEntry, Pass, Left
<1>19. ASSUME NEW c \in Creators, StartBackup(c), UNCHANGED cast PROVE ProbeKind
  BY <1>19, SMT DEF StartBackup, Making
<1>20. ASSUME NEW c \in Creators, WriteContainer(c), UNCHANGED cast PROVE ProbeKind
  BY <1>20, SMT DEF WriteContainer, Making
<1>21. ASSUME NEW c \in Creators, SyncContainer(c), UNCHANGED cast PROVE ProbeKind
  BY <1>21, SMT DEF SyncContainer, Making
<1>22. ASSUME NEW c \in Creators, Publish(c), UNCHANGED cast PROVE ProbeKind
  BY <1>22, SMT DEF Publish, Making
<1>23. ASSUME NEW c \in Creators, FinishBackup(c), UNCHANGED cast PROVE ProbeKind
  BY <1>23, SMT DEF FinishBackup, Making, EndBackup, NamesSynced, Moving
<1>24. ASSUME NEW c \in Creators, BackupFails(c), UNCHANGED cast PROVE ProbeKind
  BY <1>24, SMT DEF BackupFails, Making, EndBackup
<1>25. CASE StartListing /\ UNCHANGED cast
  BY <1>25, SMT DEF StartListing, Listing
<1>26. CASE ListKnown /\ UNCHANGED cast
  BY <1>26, SMT DEF ListKnown, Listing, Hit, Entry
<1>27. CASE ListNew /\ UNCHANGED cast
  BY <1>27, SMT DEF ListNew, Listing, Entry
<1>28. CASE Read /\ UNCHANGED cast
  BY <1>28, SMT DEF Read, Listing, Entry
<1>29. CASE Recheck /\ UNCHANGED cast
  BY <1>29, SMT DEF Recheck, Listing, Remember
<1>30. CASE ListingRefused /\ UNCHANGED cast
  BY <1>30, SMT DEF ListingRefused, Listing
<1>31. CASE FinishListing /\ UNCHANGED cast
  BY <1>31, SMT DEF FinishListing, Listing
<1>32. CASE NamesCommit /\ UNCHANGED <<cast, actorVars>>
  BY <1>32, SMT DEF NamesCommit, NamesSynced, Moving
<1>33. CASE HiddenCommits /\ UNCHANGED <<cast, actorVars>>
  BY <1>33, SMT DEF HiddenCommits
<1>34. CASE ChangeInPlace /\ UNCHANGED cast
  BY <1>34, SMT DEF ChangeInPlace, Meddle, Disturb
<1>35. CASE CopyIn /\ UNCHANGED cast
  BY <1>35, SMT DEF CopyIn, Meddle
<1>36. CASE Kill /\ UNCHANGED cast
  BY <1>36, SMT DEF Kill, Crash, Forget, Dead, Left
<1>37. CASE PowerLoss /\ UNCHANGED cast
  BY <1>37, SMT DEF PowerLoss, Crash, Forget, Dead, Left
<1>38. CASE UNCHANGED vars
  BY <1>38, SMT DEF vars
<1> QED
  BY <1>1, <1>2, <1>3, <1>4, <1>5, <1>6, <1>7, <1>8, <1>9, <1>10, <1>11, <1>12, <1>13, <1>14, <1>15,
     <1>16, <1>17, <1>18, <1>19, <1>20, <1>21, <1>22, <1>23, <1>24, <1>25, <1>26, <1>27, <1>28,
     <1>29, <1>30, <1>31, <1>32, <1>33, <1>34, <1>35, <1>36, <1>37, <1>38 DEF Next, Delete, Execute,
     MakeBackup, List

LEMMA CacheKindStep == TypeOK /\ [Next]_vars => CacheKind
<1> SUFFICES ASSUME TypeOK, [Next]_vars PROVE CacheKind
  OBVIOUS
<1> USE ProcessesDiffer, NoneIsNoFile
<1> USE DEF TypeOK, FilesOK, ActorsOK, Holding, Linked, InHand, Processes, CacheKind, DisplayOK,
        Goto, At, SameFiles, fileVars, boundVars, sessionVars, creatorVars, displayVars, actorVars, Others
<1>1. ASSUME NEW d \in Deleters, OpenSession(d), Others PROVE CacheKind
  BY <1>1, SMT DEF OpenSession, Present
<1>2. ASSUME NEW d \in Deleters, ScanEntry(d), Others PROVE CacheKind
  BY <1>2, SMT DEF ScanEntry, Entry
<1>3. ASSUME NEW d \in Deleters, PlanExact(d), Others PROVE CacheKind
  BY <1>3, SMT DEF PlanExact, Fix
<1>4. ASSUME NEW d \in Deleters, PlanTargets(d), Others PROVE CacheKind
  BY <1>4, SMT DEF PlanTargets, Fix, Present
<1>5. ASSUME NEW d \in Deleters, PlanPrune(d), Others PROVE CacheKind
  <2>1. PICK T, A : Fix(d, T, A)
    BY <1>5 DEF PlanPrune
  <2> QED
    BY <1>5, <2>1, SMT DEF Fix
<1>6. ASSUME NEW d \in Deleters, DropSession(d), Others PROVE CacheKind
  BY <1>6, SMT DEF DropSession
<1>7. ASSUME NEW d \in Deleters, TakeUp(d), Others PROVE CacheKind
  BY <1>7, SMT DEF TakeUp, Executing, Pass
<1>8. ASSUME NEW d \in Deleters, Isolate(d), Others PROVE CacheKind
  BY <1>8, SMT DEF Isolate, Executing, Occupant, Original
<1>9. ASSUME NEW d \in Deleters, IsolateFails(d), Others PROVE CacheKind
  BY <1>9, SMT DEF IsolateFails, Executing, NextEntry, Pass
<1>10. ASSUME NEW d \in Deleters, Verify(d), Others PROVE CacheKind
  BY <1>10, SMT DEF Verify, Executing, SameEntry, NamesSynced, Moving
<1>11. ASSUME NEW d \in Deleters, VerifyFails(d), Others PROVE CacheKind
  BY <1>11, SMT DEF VerifyFails, Executing, SameEntry
<1>12. ASSUME NEW d \in Deleters, Remove(d), Others PROVE CacheKind
  BY <1>12, SMT DEF Remove, Executing, Unhide, Parcel
<1>13. ASSUME NEW d \in Deleters, RemoveFails(d), Others PROVE CacheKind
  BY <1>13, SMT DEF RemoveFails, Executing, SameEntry
<1>14. ASSUME NEW d \in Deleters, Settle(d), Others PROVE CacheKind
  BY <1>14, SMT DEF Settle, Executing, NextEntry, Pass, Parcel
<1>15. ASSUME NEW d \in Deleters, Relink(d), Others PROVE CacheKind
  BY <1>15, SMT DEF Relink, Executing, SameEntry, Original, Occupant
<1>16. ASSUME NEW d \in Deleters, SyncRelink(d), Others PROVE CacheKind
  BY <1>16, SMT DEF SyncRelink, Executing, SameEntry, NamesSynced, Moving
<1>17. ASSUME NEW d \in Deleters, Release(d), Others PROVE CacheKind
  BY <1>17, SMT DEF Release, Executing, NextEntry, Pass, Unhide, Parcel
<1>18. ASSUME NEW d \in Deleters, Retain(d), Others PROVE CacheKind
  BY <1>18, SMT DEF Retain, Executing, NextEntry, Pass, Left
<1>19. ASSUME NEW c \in Creators, StartBackup(c), UNCHANGED cast PROVE CacheKind
  BY <1>19, SMT DEF StartBackup, Making
<1>20. ASSUME NEW c \in Creators, WriteContainer(c), UNCHANGED cast PROVE CacheKind
  BY <1>20, SMT DEF WriteContainer, Making
<1>21. ASSUME NEW c \in Creators, SyncContainer(c), UNCHANGED cast PROVE CacheKind
  BY <1>21, SMT DEF SyncContainer, Making
<1>22. ASSUME NEW c \in Creators, Publish(c), UNCHANGED cast PROVE CacheKind
  BY <1>22, SMT DEF Publish, Making
<1>23. ASSUME NEW c \in Creators, FinishBackup(c), UNCHANGED cast PROVE CacheKind
  BY <1>23, SMT DEF FinishBackup, Making, EndBackup, NamesSynced, Moving
<1>24. ASSUME NEW c \in Creators, BackupFails(c), UNCHANGED cast PROVE CacheKind
  BY <1>24, SMT DEF BackupFails, Making, EndBackup
<1>25. CASE StartListing /\ UNCHANGED cast
  BY <1>25, SMT DEF StartListing, Listing
<1>26. CASE ListKnown /\ UNCHANGED cast
  BY <1>26, SMT DEF ListKnown, Listing, Hit, Entry
<1>27. CASE ListNew /\ UNCHANGED cast
  BY <1>27, SMT DEF ListNew, Listing, Entry
<1>28. CASE Read /\ UNCHANGED cast
  BY <1>28, SMT DEF Read, Listing, Entry
<1>29. CASE Recheck /\ UNCHANGED cast
  BY <1>29, Zenon
<1>30. CASE ListingRefused /\ UNCHANGED cast
  BY <1>30, SMT DEF ListingRefused, Listing
<1>31. CASE FinishListing /\ UNCHANGED cast
  BY <1>31, SMT DEF FinishListing, Listing
<1>32. CASE NamesCommit /\ UNCHANGED <<cast, actorVars>>
  BY <1>32, SMT DEF NamesCommit, NamesSynced, Moving
<1>33. CASE HiddenCommits /\ UNCHANGED <<cast, actorVars>>
  BY <1>33, SMT DEF HiddenCommits
<1>34. CASE ChangeInPlace /\ UNCHANGED cast
  BY <1>34, SMT DEF ChangeInPlace, Meddle, Disturb
<1>35. CASE CopyIn /\ UNCHANGED cast
  BY <1>35, SMT DEF CopyIn, Meddle
<1>36. CASE Kill /\ UNCHANGED cast
  BY <1>36, SMT DEF Kill, Crash, Forget, Dead, Left
<1>37. CASE PowerLoss /\ UNCHANGED cast
  BY <1>37, Zenon
<1>38. CASE UNCHANGED vars
  BY <1>38, SMT DEF vars
<1> QED
  BY <1>1, <1>2, <1>3, <1>4, <1>5, <1>6, <1>7, <1>8, <1>9, <1>10, <1>11, <1>12, <1>13, <1>14, <1>15,
     <1>16, <1>17, <1>18, <1>19, <1>20, <1>21, <1>22, <1>23, <1>24, <1>25, <1>26, <1>27, <1>28,
     <1>29, <1>30, <1>31, <1>32, <1>33, <1>34, <1>35, <1>36, <1>37, <1>38 DEF Next, Delete, Execute,
     MakeBackup, List

LEMMA ProbeStep ==
  ASSUME OneDeletionBesideTheDisplay, FullInv, CacheInv, [Next]_vars
  PROVE  ProbeInv'
<1> USE DEF FullInv, CacheInv
<1>1. SettledKind /\ NamesKind /\ ProbeKind
  BY SettledStep, NamesStep, ProbeKindStep
<1>2. CASE ~ Probing'
  BY <1>2 DEF ProbeInv
<1>3. CASE PowerLoss
  <2>1. pc'[Display] = "Idle"
    BY <1>3, SMT DEF PowerLoss, Forget, Dead, TypeOK, ActorsOK, Processes
  <2> QED
    BY <1>2, <2>1 DEF Probing
<1>4. CASE Probing /\ probe' = probe /\ ~ PowerLoss
  <2>1. PICK f, content, n : f = probe.stamp[1] /\ content = probe.stamp[2] /\ n = probe.name
    OBVIOUS
  <2>2. f \in Files /\ n \in Names /\ Display \in cast /\ cast \in Casts
    BY <1>4, <2>1, SMT DEF Probing, TypeOK, FilesOK, DisplayOK, Digests, CastInv
  <2>3. Settled(f) /\ (Content(f) = content \/ file[f] = "Changed")
    BY <1>4, <2>1 DEF ProbeInv
  <2>4. /\ file'[f] \in {file[f], "Changed"} /\ Settled(f)'
        /\ dir'.names[n] = f /\ dir.names[n] # f =>
             \E d \in Deleters : Returns(d, f, n) /\ dir.names[n] = None
    BY <1>1, <1>4, <2>2, <2>3 DEF SettledKind, SettledStays
  <2>5. Content(f)' = content \/ file'[f] = "Changed"
    BY <2>3, <2>4 DEF Content
  <2>6. ASSUME Gone(f, content, n)
        PROVE  Gone(f, content, n)'
    <3>1. CASE Content(f) # content
      <4>1. file[f] = "Changed" /\ file'[f] = "Changed"
        BY <2>3, <2>4, <3>1
      <4> QED
        BY <3>1, <4>1 DEF Gone, Content
    <3>2. CASE /\ dir.names[n] # f
               /\ \A d \in Deleters : Returns(d, f, n) => dir.names[n] # None
      <4>1. dir'.names[n] # f
        BY <2>4, <3>2
      <4>2. ASSUME NEW d \in Deleters, Returns(d, f, n)', dir'.names[n] = None
            PROVE  FALSE
        <5>1. /\ Holding(d)' /\ at'[d] = at[d] /\ at[d][1] = n /\ parcel'[d] = f
              /\ \/ Holding(d) /\ parcel'[d] = parcel[d]
                 \/ parcel'[d] = dir.names[n]
          BY <1>1, <1>4, <4>2 DEF NamesKind, NamesClear, Returns
        <5>2. Returns(d, f, n) /\ dir.names[n] # None
          BY <3>2, <5>1 DEF Returns
        <5>3. PICK e \in Deleters : pc[e] = "Isolate"
          BY <1>1, <1>4, <2>2, <4>2, <5>2 DEF NamesKind, NamesClear
        <5>4. d \in cast /\ e \in cast
          BY <5>2, <5>3 DEF CastInv, Returns, Holding
        <5>5. d = e
          BY <2>2, <5>4 DEF OneDeletionBesideTheDisplay
        <5> QED
          BY <5>2, <5>3, <5>5 DEF Returns, Holding
      <4> QED
        BY <4>1, <4>2 DEF Gone
    <3> QED
      BY <2>6, <3>1, <3>2 DEF Gone
  <2>7. probe.digest \notin {None, probe.stamp} => Gone(f, content, n)
    BY <1>4, <2>1 DEF ProbeInv
  <2> QED
    BY <1>4, <2>1, <2>4, <2>5, <2>6, <2>7 DEF ProbeInv
<1>5. CASE /\ UNCHANGED <<file, dir, draft, parcel, at>>
           /\ \A p \in Deleters \union Creators : pc'[p] = pc[p]
           /\ \E n \in Names : /\ Entry(n) # None
                               /\ probe' = [name |-> n, stamp |-> Entry(n), digest |-> None]
  <2>1. PICK n \in Names : /\ Entry(n) # None
                           /\ probe' = [name |-> n, stamp |-> Entry(n), digest |-> None]
    BY <1>5
  <2>2. PICK f \in Files : f = dir.names[n] /\ Entry(n) = Digest(f)
    BY <2>1, SMT DEF Entry, TypeOK, FilesOK, Directories
  <2>3. Known(f)
    BY <2>2 DEF Known, Named
  <2>4. Settled(f)
    BY <2>3 DEF Settled, StoreInv, DraftInv, Drafting
  <2>5. Settled(f)' /\ Content(f)' = Content(f)
    BY <1>5, <2>4 DEF Settled, Drafting, Content
  <2>6. probe'.stamp = <<f, Content(f)>> /\ probe'.digest = None
    BY <2>1, <2>2 DEF Digest
  <2> QED
    BY <2>5, <2>6 DEF ProbeInv
<1>6. CASE /\ UNCHANGED <<file, dir, draft, parcel, at>>
           /\ \A p \in Deleters \union Creators : pc'[p] = pc[p]
           /\ Probing
           /\ probe' = [probe EXCEPT !.digest = Entry(probe.name)]
  <2>1. PICK f, content, n : f = probe.stamp[1] /\ content = probe.stamp[2] /\ n = probe.name
    OBVIOUS
  <2>2. /\ n \in Names /\ probe'.stamp = probe.stamp /\ probe'.name = n
        /\ probe'.digest = Entry(n) /\ probe.stamp = <<f, content>>
    BY <1>6, <2>1, SMT DEF Probing, TypeOK, DisplayOK, Digests
  <2>3. Settled(f) /\ (Content(f) = content \/ file[f] = "Changed")
    BY <1>6, <2>1 DEF ProbeInv
  <2>4. Settled(f)' /\ Content(f)' = Content(f)
    BY <1>6, <2>3 DEF Settled, Drafting, Content
  <2>5. Entry(n) # None /\ Entry(n) # <<f, content>> => Gone(f, content, n)
    BY DEF Gone, Entry, Digest
  <2>6. Gone(f, content, n) => Gone(f, content, n)'
    BY <1>6, <2>4 DEF Gone, Returns, Holding
  <2> QED
    BY <1>6, <2>1, <2>2, <2>3, <2>4, <2>5, <2>6 DEF ProbeInv
<1> QED
  BY <1>1, <1>2, <1>3, <1>4, <1>5, <1>6 DEF ProbeKind

LEMMA RememberedIsRead ==
  ASSUME TypeOK, ProbeInv, DisplayShowsWhatTheStampMeans, Recheck
  PROVE  DisplayShowsWhatTheStampMeans'
<1>1. CASE cache' = cache
  BY <1>1 DEF DisplayShowsWhatTheStampMeans
<1>2. CASE probe.digest # None /\ Entry(probe.name) = probe.stamp /\ Remember(probe.name)
  <2>1. PICK f, content, n : f = probe.stamp[1] /\ content = probe.stamp[2] /\ n = probe.name
    OBVIOUS
  <2>2. Probing
    BY DEF Recheck, Listing, At, Probing
  <2>3. n \in Names /\ probe.stamp = <<f, content>> /\ probe.stamp # None
    BY <2>1, <2>2, NoneIsNoFile, SMT DEF Probing, TypeOK, DisplayOK, Digests
  <2>4. dir.names[n] = f /\ Content(f) = content
    BY <1>2, <2>1, <2>3 DEF Entry, Digest
  <2>5. probe.digest = probe.stamp
    BY <1>2, <2>1, <2>2, <2>4 DEF ProbeInv, Gone
  <2>6. cache' = [cache EXCEPT ![n] = [stamp |-> probe.stamp, digest |-> probe.digest]]
    BY <1>2, <2>1 DEF Remember
  <2>7. cache \in [Names -> [stamp : Digests, digest : Digests] \union {None}]
    BY DEF TypeOK, DisplayOK
  <2>8. ASSUME NEW m \in Names, cache'[m] # None
        PROVE  cache'[m].digest = cache'[m].stamp
    <3>1. CASE m = n
      BY <2>3, <2>5, <2>6, <2>7, <3>1
    <3>2. CASE m # n
      <4>1. cache'[m] = cache[m]
        BY <2>6, <2>7, <3>2
      <4> QED
        BY <2>8, <4>1 DEF DisplayShowsWhatTheStampMeans
    <3> QED
      BY <3>1, <3>2
  <2> QED
    BY <2>8 DEF DisplayShowsWhatTheStampMeans
<1> QED
  BY <1>1, <1>2 DEF Recheck

LEMMA CacheStep ==
  ASSUME OneDeletionBesideTheDisplay, FullInv, CacheInv, [Next]_vars
  PROVE  CacheInv'
<1>1. CastInv' /\ ProbeInv'
  BY CastStep, ProbeStep DEF FullInv, CacheInv
<1>2. DisplayShowsWhatTheStampMeans'
  <2>1. CASE cache' = cache
    BY <2>1 DEF CacheInv, DisplayShowsWhatTheStampMeans
  <2>2. CASE PowerLoss
    <3>1. cache' = EmptyCatalogue
      BY <2>2 DEF PowerLoss
    <3> QED
      BY <3>1 DEF EmptyCatalogue, DisplayShowsWhatTheStampMeans
  <2>3. CASE Recheck
    BY <2>3, RememberedIsRead DEF FullInv, CacheInv
  <2> QED
    BY <2>1, <2>2, <2>3, CacheKindStep DEF FullInv, CacheKind
<1> QED
  BY <1>1, <1>2 DEF CacheInv

LEMMA CacheStarts ==
  ASSUME Init
  PROVE  CacheInv
<1>1. pc = [p \in Processes |-> "Idle"] /\ cache = EmptyCatalogue
  BY SMT DEF Init, Processes
<1> QED
  BY <1>1, SMT DEF CacheInv, CastInv, ProbeInv, Probing, Processes, EmptyCatalogue,
                   DisplayShowsWhatTheStampMeans

(***************************************************************************)
(* Where one deletion runs beside the display, whatever backups are made,  *)
(* copied in or changed meanwhile and whatever dies, a cached entry is     *)
(* what a file with its stamp holds (backup_store/display_catalog.rs).     *)
(***************************************************************************)
THEOREM CachedIsWhatWasStamped ==
  OneDeletionBesideTheDisplay /\ Spec => []DisplayShowsWhatTheStampMeans
<1> SUFFICES ASSUME OneDeletionBesideTheDisplay PROVE Spec => []DisplayShowsWhatTheStampMeans
  OBVIOUS
<1>1. Init => CacheInv
  BY CacheStarts
<1>2. FullInv /\ CacheInv /\ [Next]_vars => CacheInv'
  BY CacheStep
<1>3. CacheInv => DisplayShowsWhatTheStampMeans
  BY DEF CacheInv
<1> QED
  BY <1>1, <1>2, <1>3, FloorInvariant, PTL DEF Spec
=============================================================================
