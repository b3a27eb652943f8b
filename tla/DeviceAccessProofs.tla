------------------------- MODULE DeviceAccessProofs -------------------------
(***************************************************************************)
(* What gets a device out of the way.  The lease: for any disks, volumes,  *)
(* stacks of holders and writers, whatever is mounted meanwhile and        *)
(* whichever step fails, a disk is granted only when nothing that the      *)
(* platform sees on it is mounted, and none on which it sees the system's  *)
(* volume.  The commands that ask the system: an answer is whole, and      *)
(* nothing is left running behind it.                                      *)
(*                                                                         *)
(* The walk up the holders of a disk (Carries) stops after as many rounds  *)
(* as there are volumes; that it then misses nothing of what it is led to  *)
(* (OnDisk) is shown first.  What it is never led to is no part of that,   *)
(* and LinuxSeesPlainStacks says when there is no such thing.              *)
(***************************************************************************)
EXTENDS DiskAccess, ChildProcess, Integers, FiniteSets, FiniteSetTheorems,
        WellFoundedInduction, TLAPS

-----------------------------------------------------------------------------
(***************************************************************************)
(* Induction over the natural numbers for a set instead of a predicate,    *)
(* and what it shows of a function defined by recursion: that it exists,   *)
(* so that its definition may be unfolded.                                 *)
(***************************************************************************)
\* A set with 0 and the successor of each of its numbers has all of them.
LEMMA NatSetInduction ==
  ASSUME NEW S, 0 \in S, \A n \in Nat : n \in S => n + 1 \in S
  PROVE  \A n \in Nat : n \in S
<1> DEFINE Out == {n \in Nat : n \notin S}
           T == {0..n : n \in Out}
           R == StrictSubsetOrdering(Nat)
<1> SUFFICES ASSUME Out # {} PROVE FALSE
  OBVIOUS
<1>1. IsWellFoundedOn(R, FiniteSubsetsOf(Nat))
  BY FS_StrictSubsetOrderingWellFounded
<1>2. T \subseteq FiniteSubsetsOf(Nat) /\ T # {}
  <2>1. ASSUME NEW n \in Nat PROVE IsFiniteSet(0..n) /\ 0..n \subseteq Nat
    BY FS_Interval
  <2>2. QED
    BY <2>1 DEF FiniteSubsetsOf
<1> HIDE DEF R
<1>3. \E x \in T : \A y \in T : ~ (<<y, x>> \in R)
  BY <1>1, <1>2, WFMin
<1>4. PICK n \in Out : \A m \in Out : ~ (<<0..m, 0..n>> \in R)
  BY <1>3
<1>5. n - 1 \in Nat /\ n - 1 \in Out
  <2>1. n \in Nat /\ n \notin S
    OBVIOUS
  <2>2. n - 1 \in Nat /\ (n - 1) + 1 = n
    BY <2>1
  <2>3. n - 1 \notin S
    BY <2>1, <2>2
  <2>4. QED
    BY <2>2, <2>3
<1>6. <<0..(n - 1), 0..n>> \in R
  BY <1>5 DEF R, StrictSubsetOrdering
<1>7. QED
  BY <1>4, <1>5, <1>6

\* Repeating a step N times gives a function of the number of repetitions.
Repeats(f, S, first, step, N) ==
  f \in [0..N -> S] /\ f[0] = first /\ \A n \in 1..N : f[n] = step[f[n - 1]]

LEMMA RepetitionExists ==
  ASSUME NEW S, NEW first \in S, NEW step \in [S -> S], NEW N \in Nat
  PROVE  \E f : Repeats(f, S, first, step, N)
<1> DEFINE Good == {k \in Nat : \E f \in [0..k -> S] :
                       f[0] = first /\ \A n \in 1..k : f[n] = step[f[n - 1]]}
<1>1. 0 \in Good
  <2> DEFINE f == [n \in 0..0 |-> first]
  <2>1. f \in [0..0 -> S] /\ f[0] = first /\ \A n \in 1..0 : f[n] = step[f[n - 1]]
    OBVIOUS
  <2> HIDE DEF f
  <2>2. QED
    BY <2>1
<1>2. ASSUME NEW k \in Nat, k \in Good PROVE k + 1 \in Good
  <2>1. PICK f \in [0..k -> S] : f[0] = first /\ \A n \in 1..k : f[n] = step[f[n - 1]]
    BY <1>2
  <2> DEFINE g == [n \in 0..(k + 1) |-> IF n = k + 1 THEN step[f[k]] ELSE f[n]]
  <2>2. \A n \in 0..k : g[n] = f[n]
    OBVIOUS
  <2>3. g[k + 1] = step[f[k]] /\ step[f[k]] \in S
    OBVIOUS
  <2>4. g \in [0..(k + 1) -> S]
    BY <2>3
  <2>5. \A n \in 1..(k + 1) : g[n] = step[g[n - 1]]
    <3> SUFFICES ASSUME NEW n \in 1..(k + 1) PROVE g[n] = step[g[n - 1]]
      OBVIOUS
    <3> HIDE DEF g
    <3>1. CASE n = k + 1
      BY <2>2, <2>3, <3>1
    <3>2. CASE n \in 1..k
      <4>1. n - 1 \in 0..k /\ n \in 0..k
        BY <3>2
      <4>2. QED
        BY <2>1, <2>2, <3>2, <4>1
    <3>3. QED
      BY <3>1, <3>2
  <2>6. g[0] = first
    BY <2>1, <2>2
  <2> HIDE DEF g
  <2>7. QED
    BY <2>4, <2>5, <2>6
<1> HIDE DEF Good
<1>3. N \in Good
  BY <1>1, <1>2, NatSetInduction
<1>4. QED
  BY <1>3 DEF Good, Repeats

\* The function itself, as a definition gives it.
Repeated(step, first, N) ==
  LET f[n \in 0..N] == IF n = 0 THEN first ELSE step[f[n - 1]] IN f[N]

LEMMA RepeatedUnfolds ==
  ASSUME NEW S, NEW first \in S, NEW step \in [S -> S], NEW N \in Nat
  PROVE  \E f : Repeats(f, S, first, step, N) /\ Repeated(step, first, N) = f[N]
<1> DEFINE P(f) == f = [n \in 0..N |-> IF n = 0 THEN first ELSE step[f[n - 1]]]
           F == CHOOSE f : P(f)
<1>1. Repeated(step, first, N) = F[N]
  BY Zenon DEF Repeated
<1>2. \E f : P(f)
  <2> HIDE DEF P
  <2>1. PICK f : Repeats(f, S, first, step, N)
    BY RepetitionExists
  <2> DEFINE body(n) == IF n = 0 THEN first ELSE step[f[n - 1]]
  <2>2. ASSUME NEW n \in 0..N PROVE f[n] = body(n)
    <3>1. n = 0 \/ n \in 1..N
      OBVIOUS
    <3>2. QED
      BY <2>1, <3>1 DEF Repeats
  <2> HIDE DEF body
  <2>3. f = [n \in 0..N |-> f[n]]
    BY <2>1 DEF Repeats
  <2>4. [n \in 0..N |-> f[n]] = [n \in 0..N |-> body(n)]
    BY <2>2
  <2>5. f = [n \in 0..N |-> body(n)]
    BY <2>3, <2>4
  <2>6. P(f)
    BY <2>5, Zenon DEF P, body
  <2>7. QED
    BY <2>6
<1>3. P(F)
  <2> HIDE DEF P
  <2> QED BY <1>2
<1> HIDE DEF F
<1>4. F[0] = first
  BY <1>3
<1>5. ASSUME NEW n \in 1..N PROVE F[n] = step[F[n - 1]]
  <2>1. n \in 0..N /\ n # 0
    OBVIOUS
  <2>2. QED
    BY <1>3, <2>1
<1>6. \A n \in 0..N : F[n] \in S
  <2> DEFINE T == {n \in Nat : n <= N => F[n] \in S}
  <2>1. 0 \in T
    BY <1>4
  <2>2. ASSUME NEW n \in Nat, n \in T PROVE n + 1 \in T
    <3> SUFFICES ASSUME n + 1 <= N PROVE F[n + 1] \in S
      OBVIOUS
    <3>1. n + 1 \in 1..N /\ (n + 1) - 1 = n /\ n <= N
      OBVIOUS
    <3>2. QED
      BY <1>5, <2>2, <3>1
  <2> HIDE DEF T
  <2>3. \A n \in Nat : n \in T
    BY <2>1, <2>2, NatSetInduction
  <2>4. QED
    BY <2>3 DEF T
<1>7. F = [n \in 0..N |-> F[n]]
  BY <1>3, Zenon
<1> HIDE DEF P
<1>8. Repeats(F, S, first, step, N)
  BY <1>4, <1>5, <1>6, <1>7 DEF Repeats
<1>9. QED
  BY <1>1, <1>8
-----------------------------------------------------------------------------

Locking == {"Volumes", "Verify", "Holds"}

TypeInv ==
  /\ host \in {"windows", "linux", "macos"}
  /\ stack \in Stacks
  /\ mounted \subseteq Volumes
  /\ lockedBy \in [Volumes -> Threads \union {Nobody}]
  /\ leases \subseteq Disks
  /\ at \in [Threads -> {"Idle", "Guard", "Drop", "Release"} \union Locking]
  /\ disk \in [Threads -> Disks \union {Nobody}]
  /\ todo \in [Threads -> SUBSET Volumes]
  /\ skipped \in [Threads -> SUBSET ({"path", "holders"} \X (Disks \union Volumes))]

\* One lease for every writer that is not idle, and one writer for a lease.
LeaseInv ==
  /\ \A t \in Threads : Active(t) <=> disk[t] # Nobody
  /\ leases = {disk[t] : t \in {u \in Threads : Active(u)}}
  /\ \A t, u \in Threads : Active(t) /\ Active(u) /\ t # u => disk[t] # disk[u]

\* What was found of the system's volume when the disk was admitted.
RootInv ==
  /\ Root \in mounted
  /\ \A t \in Threads : at[t] \in Locking =>
       /\ Root \notin Visible(t)
       /\ host = "linux" => Root \notin todo[t]
       /\ host = "windows" => disk[t] \notin Extents(stack, Root)
       /\ host = "macos" => disk[t] \notin WholeDisks(stack, Root)

\* Windows: the volumes seen so far are locked, and a locked one is dismounted.
LockInv ==
  /\ \A v \in Volumes : lockedBy[v] # Nobody =>
       /\ host = "windows" /\ v \notin mounted
       /\ at[lockedBy[v]] \in {"Volumes", "Holds", "Drop"}
  /\ \A t \in Threads : host = "windows" /\ at[t] \in Locking =>
       /\ at[t] # "Verify"
       /\ at[t] = "Holds" => todo[t] = {}
       /\ \A v \in Volumes \ todo[t] : disk[t] \in Extents(stack, v) => lockedBy[v] = t

IInv == TypeInv /\ LeaseInv /\ RootInv /\ LockInv
-----------------------------------------------------------------------------
(***************************************************************************)
(* The walks.                                                              *)
(***************************************************************************)
Rounds == Cardinality(Volumes)

AllStacks == [Volumes -> SUBSET (Disks \union Volumes)]

LEMMA CountOfVolumes == Rounds \in Nat
BY VolumesAssumption, FS_CardinalityType DEF Rounds

\* The rounds of the walk up from d.
IsWalkUp(s, d, up) ==
  /\ up \in [0..Rounds -> SUBSET Volumes]
  /\ up[0] = {v \in Volumes : d \in s[v]}
  /\ \A n \in 1..Rounds :
       up[n] = up[n - 1] \union {v \in Volumes : s[v] \intersect up[n - 1] # {}}

LEMMA CarriesIsAWalk ==
  ASSUME NEW s \in AllStacks, NEW d
  PROVE  \E up : IsWalkUp(s, d, up) /\ Carries(s, d) = up[Rounds]
<1> DEFINE Sets == SUBSET Volumes
           first == {v \in Volumes : d \in s[v]}
           step == [below \in Sets |-> below \union {v \in Volumes : s[v] \intersect below # {}}]
<1>1. Carries(s, d) = Repeated(step, first, Rounds)
  BY Zenon DEF Carries, Repeat, Repeated, Rounds
<1>2. first \in Sets /\ step \in [Sets -> Sets]
  OBVIOUS
<1>3. \A b \in Sets : step[b] = b \union {v \in Volumes : s[v] \intersect b # {}}
  OBVIOUS
<1> HIDE DEF step, Sets, first
<1>4. PICK f : Repeats(f, Sets, first, step, Rounds) /\ Carries(s, d) = f[Rounds]
  BY <1>1, <1>2, CountOfVolumes, RepeatedUnfolds
<1>5. IsWalkUp(s, d, f)
  <2>1. ASSUME NEW n \in 1..Rounds
        PROVE  f[n] = f[n - 1] \union {v \in Volumes : s[v] \intersect f[n - 1] # {}}
    <3>1. n - 1 \in 0..Rounds /\ f[n] = step[f[n - 1]]
      BY <1>4, CountOfVolumes DEF Repeats
    <3>2. f[n - 1] \in Sets
      BY <1>4, <3>1 DEF Repeats
    <3>3. QED
      BY <1>3, <3>1, <3>2
  <2>2. QED
    BY <1>4, <2>1 DEF IsWalkUp, Repeats, Sets, first
<1>6. QED
  BY <1>4, <1>5

\* A walk that a round does not extend is over.
ClosedUp(s, d, on) == \A w \in Volumes : s[w] \intersect ({d} \union on) # {} => w \in on

\* As many rounds as there are volumes are enough.
LEMMA WalkUpEnds ==
  ASSUME NEW s \in AllStacks, NEW d, NEW up, IsWalkUp(s, d, up)
  PROVE  ClosedUp(s, d, up[Rounds])
<1> DEFINE Next(b) == b \union {v \in Volumes : s[v] \intersect b # {}}
           S == {n \in Nat : n <= Rounds =>
                   up[0] \subseteq up[n] /\ (ClosedUp(s, d, up[n]) \/ Cardinality(up[n]) >= n + 1)}
<1>0. /\ \A n \in 0..Rounds : up[n] \in SUBSET Volumes /\ IsFiniteSet(up[n])
      /\ \A n \in 0..Rounds : Cardinality(up[n]) \in Nat /\ Cardinality(up[n]) <= Rounds
  <2> SUFFICES ASSUME NEW n \in 0..Rounds
               PROVE  /\ up[n] \in SUBSET Volumes /\ IsFiniteSet(up[n])
                      /\ Cardinality(up[n]) \in Nat /\ Cardinality(up[n]) <= Rounds
    OBVIOUS
  <2>1. up[n] \in SUBSET Volumes
    BY DEF IsWalkUp
  <2>2. IsFiniteSet(up[n]) /\ Cardinality(up[n]) <= Rounds
    BY <2>1, VolumesAssumption, FS_Subset DEF Rounds
  <2>3. Cardinality(up[n]) \in Nat
    BY <2>2, FS_CardinalityType
  <2>4. QED
    BY <2>1, <2>2, <2>3
<1>1. 0 \in S
  <2>1. 0 \in 0..Rounds
    BY CountOfVolumes
  <2>2. CASE up[0] = {}
    <3>1. ClosedUp(s, d, up[0])
      BY <2>2 DEF ClosedUp, IsWalkUp
    <3>2. QED
      BY <3>1
  <2>3. CASE up[0] # {}
    <3>1. Cardinality(up[0]) # 0
      BY <1>0, <2>1, <2>3, FS_EmptySet
    <3>2. Cardinality(up[0]) >= 0 + 1
      BY <1>0, <2>1, <3>1
    <3>3. QED
      BY <3>2
  <2>4. QED
    BY <2>2, <2>3
<1>2. ASSUME NEW n \in Nat, n \in S PROVE n + 1 \in S
  <2> SUFFICES ASSUME n + 1 <= Rounds
               PROVE  up[0] \subseteq up[n + 1] /\
                      (ClosedUp(s, d, up[n + 1]) \/ Cardinality(up[n + 1]) >= (n + 1) + 1)
    OBVIOUS
  <2>1. n \in 0..Rounds /\ n + 1 \in 0..Rounds /\ n + 1 \in 1..Rounds /\ (n + 1) - 1 = n
    BY CountOfVolumes
  <2>2. up[n + 1] = Next(up[n])
    BY <2>1 DEF IsWalkUp
  <2>3. up[0] \subseteq up[n] /\ (ClosedUp(s, d, up[n]) \/ Cardinality(up[n]) >= n + 1)
    BY <1>2, <2>1
  <2>4. up[0] \subseteq up[n + 1]
    BY <2>2, <2>3
  <2>5. CASE ClosedUp(s, d, up[n])
    <3>1. up[n + 1] = up[n]
      BY <1>0, <2>1, <2>2, <2>5 DEF ClosedUp
    <3>2. QED
      BY <2>4, <2>5, <3>1
  <2>6. CASE ~ ClosedUp(s, d, up[n]) /\ Cardinality(up[n]) >= n + 1
    <3>1. PICK w \in Volumes : s[w] \intersect ({d} \union up[n]) # {} /\ w \notin up[n]
      BY <2>6 DEF ClosedUp
    <3>2. d \notin s[w]
      BY <2>3, <3>1 DEF IsWalkUp
    <3>3. w \in up[n + 1]
      BY <2>2, <3>1, <3>2
    <3>4. up[n] \union {w} \in SUBSET up[n + 1]
      BY <2>2, <3>3
    <3>5. Cardinality(up[n] \union {w}) = Cardinality(up[n]) + 1
      BY <1>0, <2>1, <3>1, FS_AddElement
    <3>6. Cardinality(up[n] \union {w}) <= Cardinality(up[n + 1])
      BY <1>0, <2>1, <3>4, FS_Subset
    <3>7. QED
      BY <1>0, <2>1, <2>4, <2>6, <3>5, <3>6
  <2>7. QED
    BY <2>3, <2>5, <2>6
<1> HIDE DEF S
<1>3. Rounds \in S
  BY <1>1, <1>2, CountOfVolumes, NatSetInduction
<1>4. Rounds \in 0..Rounds
  BY CountOfVolumes
<1>5. QED
  BY <1>0, <1>3, <1>4, CountOfVolumes DEF S

(***************************************************************************)
(* disk_device_numbers goes from holder to holder: what it finds is all    *)
(* that it is led to.                                                      *)
(***************************************************************************)
LEMMA CarriesAll ==
  ASSUME NEW s \in AllStacks, NEW d
  PROVE  OnDisk(s, d) \subseteq Carries(s, d)
<1>1. PICK up : IsWalkUp(s, d, up) /\ Carries(s, d) = up[Rounds]
  BY CarriesIsAWalk
<1>2. up[Rounds] \in SUBSET Volumes
  BY <1>1, CountOfVolumes DEF IsWalkUp
<1>3. ClosedUp(s, d, up[Rounds])
  BY <1>1, WalkUpEnds
<1>4. QED
  BY <1>1, <1>2, <1>3 DEF OnDisk, ClosedUp

\* Asked of each volume alone, what is on a disk is what names the disk.
LEMMA NamedAlone ==
  ASSUME NEW leads \in [Volumes -> SUBSET Disks], NEW d
  PROVE  OnDisk(leads, d) \subseteq {v \in Volumes : d \in leads[v]}
<1> DEFINE on == {v \in Volumes : d \in leads[v]}
<1>1. ASSUME NEW w \in Volumes, leads[w] \intersect ({d} \union on) # {} PROVE w \in on
  <2>1. PICK x \in leads[w] : x \in {d} \union on
    BY <1>1
  <2>2. x \notin Volumes
    BY <2>1, DisksAssumption
  <2>3. x = d
    BY <2>1, <2>2
  <2>4. QED
    BY <2>1, <2>3
<1>2. on \in SUBSET Volumes
  OBVIOUS
<1> HIDE DEF on
<1>3. OnDisk(leads, d) \subseteq on
  BY <1>1, <1>2 DEF OnDisk
<1>4. QED
  BY <1>3 DEF on

(***************************************************************************)
(* What each platform looks at.                                            *)
(***************************************************************************)
LEMMA HolderLeadsType ==
  ASSUME NEW s \in Stacks, NEW d, NEW missed
  PROVE  HolderLeads(s, d, missed) \in AllStacks
<1>1. s.on \in [Volumes -> SUBSET (Disks \union Volumes)]
  BY StacksAssumption
<1>2. ASSUME NEW v \in Volumes
      PROVE  (IF v \in s.partitions
              THEN IF <<"path", v>> \in missed THEN {} ELSE s.on[v] \intersect {d}
              ELSE {w \in s.on[v] : <<"holders", w>> \notin missed}) \in SUBSET (Disks \union Volumes)
  BY <1>1
<1>3. QED
  BY <1>2 DEF HolderLeads, AllStacks

LEMMA WholeDisksType ==
  ASSUME NEW s \in Stacks, NEW v \in Volumes
  PROVE  WholeDisks(s, v) \in SUBSET Disks
<1>1. \A w : WholeDisk(s, w) \in SUBSET Disks
  BY DEF WholeDisk, Extents
<1>2. QED
  BY <1>1 DEF WholeDisks

LEMMA LinuxSees ==
  ASSUME NEW s \in Stacks, NEW d, NEW missed
  PROVE  OnDisk(HolderLeads(s, d, missed), d) \ s.pooled \subseteq Found(s, d, missed)
BY HolderLeadsType, CarriesAll DEF Found

LEMMA WindowsSees ==
  ASSUME NEW s \in Stacks, NEW d, NEW v \in OnDisk([w \in Volumes |-> Extents(s, w)], d)
  PROVE  v \in Volumes /\ d \in Extents(s, v)
<1> DEFINE leads == [w \in Volumes |-> Extents(s, w)]
<1>1. leads \in [Volumes -> SUBSET Disks]
  BY DEF Extents
<1>2. \A w \in Volumes : leads[w] = Extents(s, w)
  OBVIOUS
<1>3. v \in OnDisk(leads, d)
  OBVIOUS
<1> HIDE DEF leads
<1>4. QED
  BY <1>1, <1>2, <1>3, NamedAlone

LEMMA MacSees ==
  ASSUME NEW s \in Stacks, NEW d, NEW v \in OnDisk([w \in Volumes |-> WholeDisks(s, w)], d)
  PROVE  v \in Volumes /\ d \in WholeDisks(s, v)
<1> DEFINE leads == [w \in Volumes |-> WholeDisks(s, w)]
<1>1. leads \in [Volumes -> SUBSET Disks]
  BY WholeDisksType
<1>2. \A w \in Volumes : leads[w] = WholeDisks(s, w)
  OBVIOUS
<1>3. v \in OnDisk(leads, d)
  OBVIOUS
<1> HIDE DEF leads
<1>4. QED
  BY <1>1, <1>2, <1>3, NamedAlone
-----------------------------------------------------------------------------
(***************************************************************************)
(* The invariant.                                                          *)
(***************************************************************************)
LEMMA ActiveDisk ==
  ASSUME TypeInv, LeaseInv, NEW t \in Threads, Active(t)
  PROVE  disk[t] \in Disks
BY DEF TypeInv, LeaseInv

LEMMA InitEstablishes == AccessInit => IInv
<1> SUFFICES ASSUME AccessInit PROVE IInv
  OBVIOUS
<1>1. TypeInv
  BY DEF AccessInit, TypeInv
<1>2. LeaseInv
  BY DEF AccessInit, LeaseInv, Active
<1>3. RootInv
  BY DEF AccessInit, RootInv, Locking
<1>4. LockInv
  BY DEF AccessInit, LockInv, Locking
<1>5. QED
  BY <1>1, <1>2, <1>3, <1>4 DEF IInv

\* A thread sees the same as long as it walks no more and keeps its disk.
LEMMA SightStays ==
  ASSUME NEW t, host' = host, stack' = stack, disk'[t] = disk[t], skipped'[t] = skipped[t]
  PROVE  Visible(t)' = Visible(t)
<1>1. Sight(t)' = Sight(t)
  BY DEF Sight
<1>2. QED
  BY <1>1 DEF Visible

\* What was found at the admission serves a thread that goes on with its disk.
LEMMA StepsKeepRoot ==
  ASSUME IInv, host' = host, stack' = stack, Root \in mounted',
         \A t \in Threads : at'[t] \in Locking =>
            /\ at[t] \in Locking /\ todo'[t] \subseteq todo[t]
            /\ disk'[t] = disk[t] /\ skipped'[t] = skipped[t]
  PROVE  RootInv'
<1> SUFFICES ASSUME NEW t \in Threads, at'[t] \in Locking
             PROVE  /\ Root \notin Visible(t)'
                    /\ host' = "linux" => Root \notin todo'[t]
                    /\ host' = "windows" => disk'[t] \notin Extents(stack', Root)
                    /\ host' = "macos" => disk'[t] \notin WholeDisks(stack', Root)
  BY DEF RootInv, Locking
<1>1. Visible(t)' = Visible(t)
  BY SightStays
<1>2. QED
  BY <1>1 DEF IInv, RootInv

LEMMA ReservePreserves == ASSUME IInv, NEW t \in Threads, NEW d \in Disks, Reserve(t, d) PROVE IInv'
<1> USE NobodyAssumption DEF IInv
<1>1. TypeInv'
  BY DEF Reserve, Move, TypeInv
<1>2. LeaseInv'
  <2>1. \A u \in Threads : /\ at'[u] = IF u = t THEN "Guard" ELSE at[u]
                           /\ disk'[u] = IF u = t THEN d ELSE disk[u]
    BY DEF Reserve, Move, TypeInv
  <2>2. at[t] = "Idle" /\ d \notin leases /\ leases' = leases \union {d}
    BY DEF Reserve, Move
  <2>3. \A u \in Threads : Active(u)' <=> (Active(u) \/ u = t)
    BY <2>1, <2>2 DEF Active
  <2>4. \A u \in Threads : Active(u)' <=> disk'[u] # Nobody
    BY <2>1, <2>2, <2>3 DEF LeaseInv, Active
  <2>5. leases' = {disk'[u] : u \in {w \in Threads : Active(w)'}}
    BY <2>1, <2>2, <2>3 DEF LeaseInv, Active
  <2>6. \A u, w \in Threads : Active(u)' /\ Active(w)' /\ u # w => disk'[u] # disk'[w]
    BY <2>1, <2>2, <2>3 DEF LeaseInv
  <2>7. QED
    BY <2>4, <2>5, <2>6 DEF LeaseInv, Active
<1>3. RootInv'
  <2>1. \A u \in Threads : at'[u] \in Locking => u # t
    BY DEF Reserve, Move, TypeInv, Locking
  <2>2. QED
    BY <2>1, StepsKeepRoot DEF Reserve, Move, TypeInv, RootInv
<1>4. LockInv'
  BY DEF Reserve, Move, TypeInv, LockInv, Locking
<1>5. QED
  BY <1>1, <1>2, <1>3, <1>4

\* A writer that stays active keeps its lease.
LEMMA StepsKeepLeases ==
  ASSUME IInv, NEW t \in Threads, NEW to,
         Active(t), to # "Idle", at' = [at EXCEPT ![t] = to],
         UNCHANGED <<leases, disk>>
  PROVE  LeaseInv'
<1>1. \A u \in Threads : Active(u)' <=> Active(u)
  BY DEF IInv, TypeInv, Active
<1>2. QED
  BY <1>1, Zenon DEF IInv, LeaseInv, Active

\* A disk is admitted only when the platform does not see the root on it.
LEMMA AdmittedWithoutRoot ==
  ASSUME IInv, NEW t \in Threads, AdmitOnWindows(t) \/ AdmitOnLinux(t) \/ AdmitOnMac(t)
  PROVE  Root \notin Visible(t)'
<1> USE DEF IInv
<1>1. host' = host /\ stack' = stack /\ disk' = disk /\ stack \in Stacks
  BY DEF AdmitOnWindows, AdmitOnLinux, AdmitOnMac, List, TypeInv
<1>2. CASE AdmitOnWindows(t)
  <2>1. Sight(t)' = [v \in Volumes |-> Extents(stack, v)]
    BY <1>1, <1>2 DEF AdmitOnWindows, Sight
  <2>2. disk[t] \notin Extents(stack, Root)
    BY <1>2 DEF AdmitOnWindows
  <2>3. QED
    BY <1>1, <2>1, <2>2, WindowsSees DEF Visible
<1>3. CASE AdmitOnLinux(t)
  <2>1. PICK missed \in SUBSET Reads(stack, disk[t]) :
          Root \notin MountPoints(disk[t], missed) /\ skipped' = [skipped EXCEPT ![t] = missed]
    BY <1>3 DEF AdmitOnLinux, List
  <2>2. skipped'[t] = missed
    BY <2>1 DEF TypeInv
  <2>3. Sight(t)' = HolderLeads(stack, disk[t], missed)
    BY <1>1, <1>3, <2>2 DEF AdmitOnLinux, Sight
  <2>4. Root \notin Found(stack, disk[t], missed)
    BY <2>1 DEF MountPoints, RootInv
  <2>5. Visible(t)' = OnDisk(HolderLeads(stack, disk[t], missed), disk[t]) \ stack.pooled
    BY <1>1, <1>3, <2>3 DEF AdmitOnLinux, Visible
  <2>6. QED
    BY <1>1, <2>4, <2>5, LinuxSees
<1>4. CASE AdmitOnMac(t)
  <2>1. Sight(t)' = [v \in Volumes |-> WholeDisks(stack, v)]
    BY <1>1, <1>4 DEF AdmitOnMac, Sight
  <2>2. disk[t] \notin WholeDisks(stack, Root)
    BY <1>4 DEF AdmitOnMac
  <2>3. QED
    BY <1>1, <2>1, <2>2, MacSees DEF Visible
<1>5. QED
  BY <1>2, <1>3, <1>4

LEMMA AdmitPreserves ==
  ASSUME IInv, NEW t \in Threads, AdmitOnWindows(t) \/ AdmitOnLinux(t) \/ AdmitOnMac(t)
  PROVE  IInv'
<1> USE DEF IInv
<1>1. PICK volumes, missed, next :
        /\ at[t] = "Guard" /\ at' = [at EXCEPT ![t] = next]
        /\ todo' = [todo EXCEPT ![t] = volumes] /\ skipped' = [skipped EXCEPT ![t] = missed]
        /\ UNCHANGED <<host, stack, mounted, lockedBy, leases, disk>>
        /\ missed = {} \/ missed \in SUBSET Reads(stack, disk[t])
        /\ \/ host = "windows" /\ volumes = Volumes /\ next = "Volumes"
              /\ disk[t] \notin Extents(stack, Root)
           \/ host = "linux" /\ volumes \in SUBSET Volumes /\ Root \notin volumes /\ next = "Volumes"
           \/ host = "macos" /\ volumes = {} /\ next = "Verify"
              /\ disk[t] \notin WholeDisks(stack, Root)
  <2>1. CASE AdmitOnWindows(t)
    BY <2>1 DEF AdmitOnWindows, List, Move
  <2>2. CASE AdmitOnLinux(t)
    <3>1. PICK missed \in SUBSET Reads(stack, disk[t]) :
            /\ Root \notin MountPoints(disk[t], missed)
            /\ List(t, MountPoints(disk[t], missed), missed, "Volumes")
      BY <2>2 DEF AdmitOnLinux
    <3>2. MountPoints(disk[t], missed) \in SUBSET Volumes
      BY DEF MountPoints, TypeInv
    <3> DEFINE points == MountPoints(disk[t], missed)
    <3> HIDE DEF points
    <3>3. QED
      BY <2>2, <3>1, <3>2 DEF AdmitOnLinux, List, Move, points
  <2>3. CASE AdmitOnMac(t)
    BY <2>3 DEF AdmitOnMac, List, Move
  <2>4. QED
    BY <2>1, <2>2, <2>3
<1>2. volumes \in SUBSET Volumes /\ next \in {"Volumes", "Verify"}
  BY <1>1
<1>3. disk[t] \in Disks
  BY <1>1, ActiveDisk DEF Active
<1>4. missed \in SUBSET ({"path", "holders"} \X (Disks \union Volumes))
  <2>1. stack.partitions \subseteq Volumes
    BY StacksAssumption DEF TypeInv
  <2>2. QED
    BY <1>1, <1>3, <2>1 DEF Reads
<1>5. TypeInv'
  BY <1>1, <1>2, <1>4 DEF TypeInv, Locking
<1>6. LeaseInv'
  BY <1>1, <1>2, StepsKeepLeases DEF Active
<1>7. RootInv'
  <2>1. Root \in mounted'
    BY <1>1 DEF RootInv
  <2>2. ASSUME NEW u \in Threads, at'[u] \in Locking
        PROVE  /\ Root \notin Visible(u)'
               /\ host' = "linux" => Root \notin todo'[u]
               /\ host' = "windows" => disk'[u] \notin Extents(stack', Root)
               /\ host' = "macos" => disk'[u] \notin WholeDisks(stack', Root)
    <3>1. CASE u = t
      <4>1. Root \notin Visible(u)'
        BY <3>1, AdmittedWithoutRoot
      <4>2. todo'[u] = volumes
        BY <1>1, <3>1 DEF TypeInv
      <4>3. QED
        BY <1>1, <3>1, <4>1, <4>2
    <3>2. CASE u # t
      <4>1. at[u] \in Locking /\ todo'[u] = todo[u] /\ skipped'[u] = skipped[u]
        BY <1>1, <2>2, <3>2 DEF TypeInv
      <4>2. Visible(u)' = Visible(u)
        BY <1>1, <4>1, SightStays
      <4>3. QED
        BY <1>1, <4>1, <4>2 DEF RootInv
    <3>3. QED
      BY <3>1, <3>2
  <2>3. QED
    BY <2>1, <2>2 DEF RootInv, Locking
<1>8. LockInv'
  BY <1>1 DEF LockInv, TypeInv, Locking
<1>9. QED
  BY <1>5, <1>6, <1>7, <1>8

LEMMA FailPreserves == ASSUME IInv, NEW t \in Threads, Fail(t) PROVE IInv'
<1> USE DEF IInv
<1>1. /\ at[t] \in {"Guard", "Volumes", "Verify"} /\ at' = [at EXCEPT ![t] = "Drop"]
      /\ todo' = [todo EXCEPT ![t] = {}]
      /\ UNCHANGED <<host, stack, mounted, lockedBy, leases, disk, skipped>>
  BY DEF Fail
<1>2. TypeInv'
  BY <1>1 DEF TypeInv
<1>3. LeaseInv'
  BY <1>1, StepsKeepLeases DEF Active
<1>4. RootInv'
  BY <1>1, StepsKeepRoot DEF RootInv, TypeInv, Locking
<1>5. LockInv'
  BY <1>1 DEF LockInv, TypeInv, Locking
<1>6. QED
  BY <1>2, <1>3, <1>4, <1>5

LEMMA LockVolumePreserves ==
  ASSUME IInv, NEW t \in Threads, NEW v \in Volumes, LockVolume(t, v) PROVE IInv'
<1> USE DEF IInv
<1>1. /\ host = "windows" /\ at[t] = "Volumes"
      /\ todo' = [todo EXCEPT ![t] = @ \ {v}]
      /\ UNCHANGED <<host, stack, leases, at, disk, skipped>>
  BY DEF LockVolume
<1>2. \/ /\ disk[t] \in Extents(stack, v) /\ lockedBy[v] = Nobody
         /\ lockedBy' = [lockedBy EXCEPT ![v] = t] /\ mounted' = mounted \ {v}
      \/ /\ disk[t] \notin Extents(stack, v) /\ UNCHANGED <<lockedBy, mounted>>
  BY DEF LockVolume
<1>3. TypeInv'
  BY <1>1, <1>2 DEF TypeInv
<1>4. LeaseInv'
  BY <1>1, Zenon DEF LeaseInv, Active
<1>5. RootInv'
  <2>1. Root \in mounted'
    BY <1>1, <1>2 DEF RootInv, Locking
  <2>2. QED
    BY <1>1, <2>1, StepsKeepRoot DEF RootInv, TypeInv, Locking
<1>6. LockInv'
  <2>1. \A w \in Volumes : lockedBy'[w] # Nobody =>
          w \notin mounted' /\ at'[lockedBy'[w]] \in {"Volumes", "Holds", "Drop"}
    BY <1>1, <1>2 DEF LockInv, TypeInv
  <2>2. ASSUME NEW u \in Threads, at[u] \in Locking
        PROVE  /\ at[u] # "Verify" /\ (at[u] = "Holds" => todo'[u] = {})
               /\ \A w \in Volumes \ todo'[u] : disk[u] \in Extents(stack, w) => lockedBy'[w] = u
    <3>1. /\ at[u] # "Verify" /\ (at[u] = "Holds" => todo[u] = {})
          /\ \A w \in Volumes \ todo[u] : disk[u] \in Extents(stack, w) => lockedBy[w] = u
      BY <1>1, <2>2 DEF LockInv
    <3>2. \A w \in Volumes : w # v => lockedBy'[w] = lockedBy[w]
      BY <1>2 DEF TypeInv
    <3>3. CASE u = t
      <4>1. todo'[u] = todo[u] \ {v}
        BY <1>1, <3>3 DEF TypeInv
      <4>2. disk[u] \in Extents(stack, v) => lockedBy'[v] = u
        BY <1>2, <3>3 DEF TypeInv
      <4>3. QED
        BY <1>1, <3>1, <3>2, <3>3, <4>1, <4>2
    <3>4. CASE u # t
      <4>1. todo'[u] = todo[u]
        BY <1>1, <3>4 DEF TypeInv
      <4>2. lockedBy[v] = u => lockedBy'[v] = u
        BY <1>2, NobodyAssumption DEF TypeInv
      <4>3. QED
        BY <3>1, <3>2, <4>1, <4>2
    <3>5. QED
      BY <3>3, <3>4
  <2>3. QED
    BY <1>1, <2>1, <2>2 DEF LockInv
<1>7. QED
  BY <1>3, <1>4, <1>5, <1>6

LEMMA UnmountPreserves ==
  ASSUME IInv, NEW t \in Threads, NEW v \in Volumes, Unmount(t, v) PROVE IInv'
<1> USE DEF IInv
<1>1. /\ host = "linux" /\ at[t] = "Volumes" /\ v \in todo[t]
      /\ todo' = [todo EXCEPT ![t] = @ \ {v}] /\ mounted' = mounted \ {v}
      /\ UNCHANGED <<host, stack, lockedBy, leases, at, disk, skipped>>
  BY DEF Unmount
<1>2. TypeInv'
  BY <1>1 DEF TypeInv
<1>3. LeaseInv'
  BY <1>1, Zenon DEF LeaseInv, Active
<1>4. RootInv'
  BY <1>1, StepsKeepRoot DEF RootInv, TypeInv, Locking
<1>5. LockInv'
  BY <1>1 DEF LockInv, TypeInv
<1>6. QED
  BY <1>2, <1>3, <1>4, <1>5

LEMMA GrantPreserves ==
  ASSUME IInv, NEW t \in Threads, AllSeen(t) \/ GrantOnLinux(t) \/ GiveBack(t) PROVE IInv'
<1> USE DEF IInv
<1>1. UNCHANGED <<host, stack, mounted, lockedBy, leases, disk, todo, skipped>>
  BY DEF AllSeen, GrantOnLinux, GiveBack
<1>2. \/ /\ at[t] = "Volumes" /\ todo[t] = {}
         /\ at' = [at EXCEPT ![t] = IF host = "windows" THEN "Holds" ELSE "Verify"]
      \/ host = "linux" /\ at[t] = "Verify" /\ at' = [at EXCEPT ![t] = "Holds"]
      \/ at[t] = "Holds" /\ at' = [at EXCEPT ![t] = "Drop"]
  BY DEF AllSeen, GrantOnLinux, GiveBack, Move
<1>3. TypeInv'
  BY <1>1, <1>2 DEF TypeInv, Locking
<1>4. LeaseInv'
  BY <1>1, <1>2, StepsKeepLeases DEF Active
<1>5. RootInv'
  BY <1>1, <1>2, StepsKeepRoot DEF RootInv, TypeInv, Locking
<1>6. LockInv'
  BY <1>1, <1>2 DEF LockInv, TypeInv, Locking
<1>7. QED
  BY <1>3, <1>4, <1>5, <1>6

LEMMA UnmountDiskPreserves == ASSUME IInv, NEW t \in Threads, UnmountDisk(t) PROVE IInv'
<1> USE DEF IInv
<1>1. /\ host = "macos" /\ at[t] = "Verify" /\ at' = [at EXCEPT ![t] = "Holds"]
      /\ mounted' = mounted \ {v \in Volumes : disk[t] \in WholeDisks(stack, v)}
      /\ UNCHANGED <<host, stack, lockedBy, leases, disk, todo, skipped>>
  BY DEF UnmountDisk, Move
<1>2. TypeInv'
  BY <1>1 DEF TypeInv, Locking
<1>3. LeaseInv'
  BY <1>1, StepsKeepLeases DEF Active
<1>4. RootInv'
  <2>1. Root \in mounted'
    BY <1>1 DEF RootInv, Locking
  <2>2. QED
    BY <1>1, <2>1, StepsKeepRoot DEF RootInv, TypeInv, Locking
<1>5. LockInv'
  BY <1>1 DEF LockInv, TypeInv
<1>6. QED
  BY <1>2, <1>3, <1>4, <1>5

LEMMA UnlockPreserves == ASSUME IInv, NEW t \in Threads, Unlock(t) PROVE IInv'
<1> USE DEF IInv
<1>1. /\ at[t] = "Drop" /\ at' = [at EXCEPT ![t] = "Release"]
      /\ lockedBy' = [v \in Volumes |-> IF lockedBy[v] = t THEN Nobody ELSE lockedBy[v]]
      /\ UNCHANGED <<host, stack, mounted, leases, disk, todo, skipped>>
  BY DEF Unlock, Move
<1>2. TypeInv'
  BY <1>1 DEF TypeInv
<1>3. LeaseInv'
  BY <1>1, StepsKeepLeases DEF Active
<1>4. RootInv'
  BY <1>1, StepsKeepRoot DEF RootInv, TypeInv, Locking
<1>5. LockInv'
  BY <1>1 DEF LockInv, TypeInv, Locking
<1>6. QED
  BY <1>2, <1>3, <1>4, <1>5

LEMMA ReleasePreserves == ASSUME IInv, NEW t \in Threads, Release(t) PROVE IInv'
<1> USE NobodyAssumption DEF IInv
<1>1. /\ at[t] = "Release" /\ at' = [at EXCEPT ![t] = "Idle"]
      /\ leases' = leases \ {disk[t]} /\ disk' = [disk EXCEPT ![t] = Nobody]
      /\ skipped' = [skipped EXCEPT ![t] = {}]
      /\ UNCHANGED <<host, stack, mounted, lockedBy, todo>>
  BY DEF Release, Move
<1>2. TypeInv'
  BY <1>1 DEF TypeInv
<1>3. LeaseInv'
  <2>1. \A u \in Threads : /\ at'[u] = IF u = t THEN "Idle" ELSE at[u]
                           /\ disk'[u] = IF u = t THEN Nobody ELSE disk[u]
    BY <1>1 DEF TypeInv
  <2>2. \A u \in Threads : Active(u)' <=> (Active(u) /\ u # t)
    BY <2>1 DEF Active
  <2>3. \A u \in Threads : Active(u)' <=> disk'[u] # Nobody
    BY <2>1, <2>2 DEF LeaseInv
  <2>4. leases' = {disk'[u] : u \in {w \in Threads : Active(w)'}}
    <3>1. Active(t)
      BY <1>1 DEF Active
    <3>2. \A x : x \in leases' <=> \E u \in Threads : Active(u) /\ u # t /\ x = disk[u]
      BY <1>1, <3>1 DEF LeaseInv
    <3>3. QED
      BY <2>1, <2>2, <3>2
  <2>5. \A u, w \in Threads : Active(u)' /\ Active(w)' /\ u # w => disk'[u] # disk'[w]
    BY <2>1, <2>2 DEF LeaseInv
  <2>6. QED
    BY <2>3, <2>4, <2>5 DEF LeaseInv, Active
<1>4. RootInv'
  BY <1>1, StepsKeepRoot DEF RootInv, TypeInv, Locking
<1>5. LockInv'
  BY <1>1 DEF LockInv, TypeInv, Locking
<1>6. QED
  BY <1>2, <1>3, <1>4, <1>5

LEMMA MountPreserves == ASSUME IInv, NEW v \in Volumes, Mount(v) PROVE IInv'
<1> USE DEF IInv
<1>1. /\ lockedBy[v] = Nobody /\ mounted' = mounted \union {v}
      /\ UNCHANGED <<host, stack, lockedBy, leases, at, disk, todo, skipped>>
  BY DEF Mount
<1>2. TypeInv'
  BY <1>1 DEF TypeInv
<1>3. LeaseInv'
  BY <1>1, Zenon DEF LeaseInv, Active
<1>4. RootInv'
  BY <1>1, StepsKeepRoot DEF RootInv
<1>5. LockInv'
  BY <1>1 DEF LockInv
<1>6. QED
  BY <1>2, <1>3, <1>4, <1>5

LEMMA NextPreserves == IInv /\ [AccessNext]_accessVars => IInv'
<1> SUFFICES ASSUME IInv, [AccessNext]_accessVars PROVE IInv'
  OBVIOUS
<1>1. ASSUME NEW t \in Threads,
             \/ \E d \in Disks : Reserve(t, d)
             \/ AdmitOnWindows(t) \/ AdmitOnLinux(t) \/ AdmitOnMac(t)
             \/ AllSeen(t) \/ GrantOnLinux(t) \/ UnmountDisk(t)
             \/ Fail(t) \/ GiveBack(t) \/ Unlock(t) \/ Release(t)
             \/ \E v \in Volumes : LockVolume(t, v) \/ Unmount(t, v)
      PROVE  IInv'
  BY <1>1, ReservePreserves, AdmitPreserves, GrantPreserves, UnmountDiskPreserves, FailPreserves,
     UnlockPreserves, ReleasePreserves, LockVolumePreserves, UnmountPreserves
<1>2. ASSUME NEW v \in Volumes, Mount(v) PROVE IInv'
  BY <1>2, MountPreserves
<1>3. CASE UNCHANGED accessVars
  <2>1. TypeInv'
    BY <1>3 DEF accessVars, IInv, TypeInv
  <2>2. LeaseInv'
    BY <1>3, Zenon DEF accessVars, IInv, LeaseInv, Active
  <2>3. RootInv'
    BY <1>3, StepsKeepRoot DEF accessVars, IInv, RootInv
  <2>4. LockInv'
    BY <1>3 DEF accessVars, IInv, LockInv
  <2>5. QED
    BY <2>1, <2>2, <2>3, <2>4 DEF IInv
<1>4. QED
  BY <1>1, <1>2, <1>3 DEF AccessNext

LEMMA Invariance == AccessSpec => []IInv
BY InitEstablishes, NextPreserves, PTL DEF AccessSpec
-----------------------------------------------------------------------------
(***************************************************************************)
(* The system's volume stays mounted and no disk is held on which the      *)
(* platform sees it, one writer has a disk, and no lock outlives its       *)
(* writer's lease (the lease of platform/system.rs and prepare_write of    *)
(* the three platforms): for any number of writers, disks and volumes,     *)
(* whichever step fails and whatever reads are passed over.                *)
(***************************************************************************)
THEOREM LeasesAlwaysHold == AccessSpec => []LeasesHold
<1>1. IInv => LeasesHold
  <2> SUFFICES ASSUME IInv PROVE LeasesHold
    OBVIOUS
  <2>1. Root \in mounted /\ \A t \in Threads : at[t] = "Holds" => Root \notin Visible(t)
    BY DEF IInv, RootInv, Locking
  <2>2. \A v \in Volumes : lockedBy[v] # Nobody => Active(lockedBy[v])
    BY DEF IInv, LockInv, Active
  <2>3. QED
    BY <2>1, <2>2, Zenon DEF LeasesHold, IInv, LeaseInv
<1>2. QED
  BY <1>1, Invariance, PTL

LEMMA GrantOutsideWindows ==
  ASSUME IInv, [AccessNext]_accessVars, NEW t \in Threads,
         host # "windows", at[t] # "Holds", at'[t] = "Holds"
  PROVE  GrantOnLinux(t) \/ UnmountDisk(t)
BY DEF IInv, TypeInv, AccessNext, accessVars, Reserve, AdmitOnWindows, AdmitOnLinux,
       AdmitOnMac, List, Move, AllSeen, GrantOnLinux, UnmountDisk, Fail, GiveBack, Unlock,
       Release, LockVolume, Unmount, Mount

\* A grant finds the disk idle, and Windows keeps it so.
LEMMA GrantsAreIdle ==
  ASSUME IInv, IInv', [AccessNext]_accessVars, NEW t \in Threads,
         at'[t] = "Holds", host = "windows" \/ at[t] # "Holds"
  PROVE  Visible(t)' \intersect mounted' = {}
<1>1. stack \in Stacks /\ stack' = stack /\ host' = host
  <2>1. stack' = stack /\ host' = host
    BY DEF AccessNext, accessVars, Reserve, AdmitOnWindows, AdmitOnLinux, AdmitOnMac, List,
           AllSeen, GrantOnLinux, UnmountDisk, Fail, GiveBack, Unlock, Release, LockVolume,
           Unmount, Mount
  <2>2. QED
    BY <2>1 DEF IInv, TypeInv
<1>2. CASE host = "windows"
  <2>1. \A v \in Volumes : disk'[t] \in Extents(stack, v) => v \notin mounted'
    <3>1. todo'[t] = {} /\ \A v \in Volumes : disk'[t] \in Extents(stack, v) => lockedBy'[v] = t
      BY <1>1, <1>2 DEF IInv, LockInv, Locking
    <3>2. \A v \in Volumes : lockedBy'[v] # Nobody => v \notin mounted'
      BY DEF IInv, LockInv
    <3>3. QED
      BY <3>1, <3>2, NobodyAssumption
  <2>2. Sight(t)' = [v \in Volumes |-> Extents(stack, v)]
    BY <1>1, <1>2 DEF Sight
  <2>3. QED
    BY <1>1, <2>1, <2>2, WindowsSees DEF Visible
<1>3. CASE host # "windows" /\ at[t] # "Holds"
  <2>1. GrantOnLinux(t) \/ UnmountDisk(t)
    BY <1>3, GrantOutsideWindows
  <2>2. CASE GrantOnLinux(t)
    <3>1. host' = "linux" /\ disk' = disk /\ skipped' = skipped /\ mounted' = mounted
      BY <1>1, <2>2 DEF GrantOnLinux
    <3>2. Found(stack, disk[t], skipped[t]) \intersect mounted' = {}
      BY <2>2, <3>1 DEF GrantOnLinux, MountPoints
    <3>3. Sight(t)' = HolderLeads(stack, disk[t], skipped[t])
      BY <1>1, <3>1 DEF Sight
    <3>4. Visible(t)' = OnDisk(HolderLeads(stack, disk[t], skipped[t]), disk[t]) \ stack.pooled
      BY <1>1, <3>1, <3>3 DEF Visible
    <3>5. QED
      BY <1>1, <3>2, <3>4, LinuxSees
  <2>3. CASE UnmountDisk(t)
    <3>1. host' = "macos" /\ disk' = disk
      BY <1>1, <2>3 DEF UnmountDisk
    <3>2. \A v \in Volumes : disk'[t] \in WholeDisks(stack, v) => v \notin mounted'
      BY <2>3, <3>1 DEF UnmountDisk
    <3>3. Sight(t)' = [v \in Volumes |-> WholeDisks(stack, v)]
      BY <1>1, <3>1 DEF Sight
    <3>4. QED
      BY <1>1, <3>1, <3>2, <3>3, MacSees DEF Visible
  <2>4. QED
    BY <2>1, <2>2, <2>3
<1>4. QED
  BY <1>2, <1>3

(***************************************************************************)
(* A disk is granted only while nothing that the platform sees on it is    *)
(* mounted, on Windows as long as the lease is held (prepare_write of the  *)
(* three platforms): for every stack, whatever others mount meanwhile.     *)
(***************************************************************************)
THEOREM GrantsFindDisksIdle == AccessSpec => GrantedDisksAreIdle
<1>1. IInv /\ IInv' /\ [AccessNext]_accessVars =>
        [\A t \in Threads :
           at'[t] = "Holds" /\ (host = "windows" \/ at[t] # "Holds")
             => Visible(t)' \intersect mounted' = {}]_accessVars
  BY GrantsAreIdle
<1>2. QED
  BY <1>1, Invariance, PTL DEF AccessSpec, GrantedDisksAreIdle

\* A stack of which a walk that could read everything misses nothing: partitions
\* are those of disks, and every file system is mounted under its device's number.
Plain(s) == s.pooled = {} /\ \A v \in s.partitions : s.on[v] \subseteq Disks

LEMMA PlainStacksAreSeen ==
  ASSUME NEW s \in Stacks, NEW d \in Disks, Plain(s)
  PROVE  OnDisk(s.on, d) \subseteq OnDisk(HolderLeads(s, d, {}), d)
<1> DEFINE leads == HolderLeads(s, d, {})
<1>1. s.on \in [Volumes -> SUBSET (Disks \union Volumes)] /\ s.partitions \subseteq Volumes
  BY StacksAssumption
<1>2. \A w \in Volumes :
        leads[w] = IF w \in s.partitions THEN s.on[w] \intersect {d} ELSE s.on[w]
  BY DEF HolderLeads
<1> HIDE DEF leads
<1>3. ASSUME NEW on \in SUBSET Volumes,
             \A w \in Volumes : leads[w] \intersect ({d} \union on) # {} => w \in on
      PROVE  \A w \in Volumes : s.on[w] \intersect ({d} \union on) # {} => w \in on
  <2> SUFFICES ASSUME NEW w \in Volumes, s.on[w] \intersect ({d} \union on) # {}
               PROVE  w \in on
    OBVIOUS
  <2>1. CASE w \in s.partitions
    <3>1. s.on[w] \intersect on = {}
      BY <1>1, <2>1, DisksAssumption DEF Plain
    <3>2. d \in leads[w]
      BY <1>2, <2>1, <3>1
    <3>3. QED
      BY <1>3, <3>2
  <2>2. CASE w \notin s.partitions
    BY <1>2, <1>3, <2>2
  <2>3. QED
    BY <2>1, <2>2
<1>4. OnDisk(s.on, d) \subseteq OnDisk(leads, d)
  BY <1>3 DEF OnDisk
<1>5. QED
  BY <1>4 DEF leads

(***************************************************************************)
(* When Linux sees everything: of plain stacks, and where the walk passed  *)
(* over no failing read, a disk is granted only while nothing at all that  *)
(* lies on it is mounted, and the system's volume is not among it          *)
(* (disk_device_numbers, prepare_write_for_block_name).                    *)
(***************************************************************************)
THEOREM LinuxSeesPlainStacks ==
  AccessSpec =>
    [][\A t \in Threads :
         /\ host = "linux" /\ Plain(stack) /\ skipped[t] = {}
         /\ at[t] # "Holds" /\ at'[t] = "Holds"
         => /\ OnDisk(stack.on, disk'[t]) \intersect mounted' = {}
            /\ Root \notin OnDisk(stack.on, disk'[t])]_accessVars
<1> DEFINE Whole == \A t \in Threads :
                      /\ host = "linux" /\ Plain(stack) /\ skipped[t] = {}
                      /\ at[t] # "Holds" /\ at'[t] = "Holds"
                      => /\ OnDisk(stack.on, disk'[t]) \intersect mounted' = {}
                         /\ Root \notin OnDisk(stack.on, disk'[t])
<1>1. ASSUME IInv, IInv', [AccessNext]_accessVars PROVE Whole
  <2> SUFFICES ASSUME NEW t \in Threads,
                      host = "linux", Plain(stack), skipped[t] = {},
                      at[t] # "Holds", at'[t] = "Holds"
               PROVE  /\ OnDisk(stack.on, disk'[t]) \intersect mounted' = {}
                      /\ Root \notin OnDisk(stack.on, disk'[t])
    OBVIOUS
  <2>1. GrantOnLinux(t)
    <3>1. GrantOnLinux(t) \/ UnmountDisk(t)
      BY <1>1, GrantOutsideWindows
    <3>2. QED
      BY <3>1 DEF UnmountDisk
  <2>2. UNCHANGED <<host, stack, disk, skipped, mounted>>
    BY <2>1 DEF GrantOnLinux
  <2>3. stack \in Stacks /\ disk[t] \in Disks
    <3>1. Active(t)
      BY <2>1 DEF GrantOnLinux, Move, Active
    <3>2. QED
      BY <1>1, <3>1, ActiveDisk DEF IInv, TypeInv
  <2>4. Visible(t)' \intersect mounted' = {}
    BY <1>1, GrantsAreIdle
  <2>5. Sight(t)' = HolderLeads(stack, disk[t], {})
    BY <2>2 DEF Sight
  <2>6. Visible(t)' = OnDisk(HolderLeads(stack, disk[t], {}), disk[t])
    BY <2>2, <2>5 DEF Visible, Plain, OnDisk
  <2>7. OnDisk(stack.on, disk[t]) \subseteq Visible(t)'
    BY <2>3, <2>6, PlainStacksAreSeen
  <2>8. Root \in mounted'
    BY <1>1 DEF IInv, RootInv
  <2>9. QED
    BY <2>2, <2>4, <2>7, <2>8
<1>2. IInv /\ IInv' /\ [AccessNext]_accessVars => [Whole]_accessVars
  BY <1>1
<1>3. QED
  BY <1>2, Invariance, PTL DEF AccessSpec
-----------------------------------------------------------------------------
(***************************************************************************)
(* One external command, whatever it and its helpers do with their pipes.  *)
(* A stream seen to its end has no writer left and nothing unread, and     *)
(* gains neither; on Windows whatever runs is in the job.                  *)
(***************************************************************************)
Loop == {"Prepare", "Deadline", "out", "err", "Wait", "Sleep"}

PipeInv ==
  /\ holders \in [Streams -> SUBSET Processes]
  /\ written \in [Streams -> Nat] /\ taken \in [Streams -> Nat]
  /\ eof \subseteq Streams
  /\ \A s \in Streams : taken[s] <= written[s]
  /\ \A s \in eof : taken[s] = written[s] /\ holders[s] = {}
  /\ completion = "Exited" => eof = Streams /\ Total <= OutputLimit

GroupInv ==
  /\ process \in [Processes -> {"absent", "suspended", "running", "exited", "reaped"}]
  /\ system \in {"unix", "windows"} /\ grouped \subseteq Processes
  /\ call \in Loop \union {"Spawn", "Assign", "Terminate", "Returned"}
  /\ completion = "Exited" => call \in {"Terminate", "Returned"}
  /\ call = "Spawn" => eof = {} /\ process["child"] = "absent"
  /\ call \in {"Spawn", "Assign"} => process["child"] # "running" /\ process["helper"] = "absent"
  /\ system = "windows" =>
       /\ process["child"] = "running" => "child" \in grouped
       /\ Alive("helper") => "helper" \in grouped
  /\ call = "Returned" =>
       ~Alive("child") /\ (Alive("helper") => system = "unix" /\ "helper" \notin grouped)

CommandInv == PipeInv /\ GroupInv

LEMMA CommandInvInit == ProcessInit => CommandInv
  BY CommandAssumption, SMT DEF ProcessInit, CommandInv, PipeInv, GroupInv, Streams,
     Processes, Loop, Alive, Total

LEMMA GroupPreserves == ASSUME GroupInv, ProcessNext PROVE GroupInv'
<1> USE DEF GroupInv, Processes, Streams, Loop, Alive, Running, callVars
<1>1. CASE SpawnFails
  BY <1>1, SMT DEF SpawnFails, childVars
<1>2. CASE Spawn
  BY <1>2, SMT DEF Spawn
<1>3. CASE AssignAndResume
  BY <1>3, SMT DEF AssignAndResume
<1>4. CASE PreparePipes
  BY <1>4, SMT DEF PreparePipes, childVars
<1>5. CASE CheckDeadline
  BY <1>5, SMT DEF CheckDeadline, childVars
<1>6. ASSUME NEW s \in Streams, Drain(s) PROVE GroupInv'
  BY <1>6, SMT DEF Drain, Read, childVars
<1>7. CASE CheckChild
  BY <1>7, SMT DEF CheckChild, Finished
<1>8. CASE Wake
  BY <1>8, SMT DEF Wake, childVars
<1>9. CASE Terminate
  BY <1>9, SMT DEF Terminate, Doomed
<1>10. CASE Tick
  BY <1>10, SMT DEF Tick, childVars
<1>11. ASSUME NEW p \in Processes, Exit(p) PROVE GroupInv'
  BY <1>11, SMT DEF Exit
<1>12. ASSUME NEW p \in Processes, NEW s \in Streams, Write(p, s) PROVE GroupInv'
  BY <1>12, SMT DEF Write
<1>13. ASSUME NEW p \in Processes, NEW s \in Streams, Close(p, s) PROVE GroupInv'
  BY <1>13, SMT DEF Close
<1>14. CASE Fork
  BY <1>14, SMT DEF Fork
<1>15. CASE LeaveGroup
  BY <1>15, SMT DEF LeaveGroup
<1> QED
  BY <1>1, <1>2, <1>3, <1>4, <1>5, <1>6, <1>7, <1>8, <1>9, <1>10, <1>11, <1>12, <1>13, <1>14, <1>15
  DEF ProcessNext, RunCommand, Command

LEMMA PipePreserves == ASSUME CommandInv, ProcessNext PROVE PipeInv'
<1> USE CommandAssumption DEF CommandInv, PipeInv, GroupInv, Processes, Streams, Loop, Total,
        Running, callVars
<1>1. CASE SpawnFails
  BY <1>1, SMT DEF SpawnFails, childVars
<1>2. CASE Spawn
  BY <1>2, SMT DEF Spawn
<1>3. CASE AssignAndResume
  BY <1>3, SMT DEF AssignAndResume
<1>4. CASE PreparePipes
  BY <1>4, SMT DEF PreparePipes, childVars
<1>5. CASE CheckDeadline
  BY <1>5, SMT DEF CheckDeadline, childVars
<1>6. ASSUME NEW s \in Streams, Drain(s) PROVE PipeInv'
  BY <1>6, SMT DEF Drain, Read, Smaller, childVars
<1>7. CASE CheckChild
  BY <1>7, SMT DEF CheckChild, Finished
<1>8. CASE Wake
  BY <1>8, SMT DEF Wake, childVars
<1>9. CASE Terminate
  BY <1>9, SMT DEF Terminate, Doomed
<1>10. CASE Tick
  BY <1>10, SMT DEF Tick, childVars
<1>11. ASSUME NEW p \in Processes, Exit(p) PROVE PipeInv'
  BY <1>11, SMT DEF Exit
<1>12. ASSUME NEW p \in Processes, NEW s \in Streams, Write(p, s) PROVE PipeInv'
  BY <1>12, SMT DEF Write
<1>13. ASSUME NEW p \in Processes, NEW s \in Streams, Close(p, s) PROVE PipeInv'
  BY <1>13, SMT DEF Close
<1>14. CASE Fork
  BY <1>14, SMT DEF Fork
<1>15. CASE LeaveGroup
  BY <1>15, SMT DEF LeaveGroup
<1> QED
  BY <1>1, <1>2, <1>3, <1>4, <1>5, <1>6, <1>7, <1>8, <1>9, <1>10, <1>11, <1>12, <1>13, <1>14, <1>15
  DEF ProcessNext, RunCommand, Command

LEMMA CommandInvariance == ProcessSpec => []CommandInv
<1>1. CommandInv /\ UNCHANGED processVars => CommandInv'
  BY Zenon DEF CommandInv, PipeInv, GroupInv, Alive, Total, processVars, callVars, childVars
<1>2. CommandInv /\ [ProcessNext]_processVars => CommandInv'
  BY <1>1, GroupPreserves, PipePreserves DEF CommandInv
<1> QED
  BY CommandInvInit, <1>2, PTL DEF ProcessSpec

(***************************************************************************)
(* An exited command's answer is all that its tree ever wrote, and however *)
(* the call returns, nothing that stayed in its group or job still runs.   *)
(***************************************************************************)
THEOREM CommandsAlwaysSettle == ProcessSpec => []CommandsSettle
<1>1. ASSUME CommandInv PROVE CommandsSettle
  <2>1. ASSUME completion = "Exited"
        PROVE  /\ taken = written /\ holders = [s \in Streams |-> {}]
               /\ Kept("out") = written["out"]
    <3>1. \A s \in Streams : taken[s] = written[s] /\ holders[s] = {}
      BY <1>1, <2>1 DEF CommandInv, PipeInv
    <3>2. taken = written /\ holders = [s \in Streams |-> {}]
      BY <1>1, <3>1 DEF CommandInv, PipeInv
    <3>3. taken["out"] \in Nat /\ taken["out"] <= OutputLimit
      BY <1>1, <2>1, CommandAssumption DEF CommandInv, PipeInv, Total, Streams
    <3> QED
      BY <3>2, <3>3, CommandAssumption DEF Kept, Smaller, Limit, Streams
  <2>2. ASSUME call = "Returned", NEW p \in Processes, Alive(p)
        PROVE  system = "unix" /\ p \notin grouped
    BY <1>1, <2>2 DEF CommandInv, GroupInv, Processes
  <2> QED
    BY <2>1, <2>2 DEF CommandsSettle
<1> QED
  BY CommandInvariance, <1>1, PTL
=============================================================================
