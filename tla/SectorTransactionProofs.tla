---------------------- MODULE SectorTransactionProofs ----------------------
(***************************************************************************)
(* For every set of plans, every target and every batch size: the sector   *)
(* transaction is well typed, keeps its promise to the caller (it          *)
(* implements MediaContract) and writes the MBR last in every pass.        *)
(***************************************************************************)
EXTENDS SectorTransaction, TLAPS

\* The mirror holds the old bytes of the sectors read so far, and all of them
\* once a pass has begun.
MirrorInv ==
  /\ Len(mirror) <= Len(plan.readback)
  /\ \A i \in 1..Len(mirror) : mirror[i] = Old[plan.readback[i]]
  /\ pc = "SyncPreflight" => mirror = << >>
  /\ pc = "Mirror" => Len(mirror) = index - 1
  /\ pc \in {"Write", "Sync", "Readback"} => Len(mirror) = Len(plan.readback)

\* Nothing is written before the mirror is complete.
CleanInv == pc \in {"SyncPreflight", "Mirror"} => view = Old /\ medium = Old

UntouchedInv ==
  \A l \in Sectors \ Touched : view[l] = Old[l] /\ medium[l] = Old[l]

\* During the reading back the medium holds what is read, and the sectors
\* behind the index have been compared.
VerifiedInv ==
  pc = "Readback" =>
    /\ view = medium
    /\ \A i \in 1..(index - 1) :
         i <= Len(plan.readback) =>
           view[plan.readback[i]] = Expected(plan.readback[i])

AckedInv == pc = "Write" => \A i \in 1..(index - 1) :
               i <= Len(plan.order) => plan.order[i] \in acked

\* What a verdict says stays true: no sector is dirty after it.
VerdictInv ==
  /\ pc = "Done" <=> result # "Pending"
  /\ result = "Ok" => \A l \in Touched : medium[l] = New[l]
  /\ result \in {"Refused", "RolledBack"} => medium = Old
  /\ result \in {"Ok", "Refused", "RolledBack"} => view = medium

IInv == /\ TypeOK /\ MirrorInv /\ CleanInv /\ UntouchedInv /\ VerifiedInv
        /\ AckedInv /\ VerdictInv
-----------------------------------------------------------------------------
\* What a well-formed plan gives: two sequences of the same sectors.
LEMMA PlanFacts ==
  ASSUME plan \in Plans
  PROVE  /\ plan.order \in Seq(Sectors)
         /\ plan.readback \in Seq(Sectors)
         /\ Len(plan.order) \in Nat
         /\ Len(plan.readback) \in Nat \ {0}
         /\ Touched \subseteq Sectors
         /\ \A i \in 1..Len(plan.order) : plan.order[i] \in Touched
         /\ \A i \in 1..Len(plan.readback) : plan.readback[i] \in Touched
<1>1. IsPlan(plan)
  BY TransactionAssumption
<1>2. plan.order \in Seq(Sectors) /\ plan.readback \in Seq(Sectors)
  BY <1>1 DEF IsPlan
<1>3. Len(plan.order) \in Nat /\ Len(plan.readback) \in Nat \ {0}
  BY <1>1, <1>2 DEF IsPlan
<1>4. \A i \in 1..Len(plan.readback) : plan.readback[i] \in Touched
  BY DEF Touched
<1>5. \A i \in 1..Len(plan.order) : plan.order[i] \in Touched
  BY <1>1, <1>4 DEF IsPlan
<1>6. Touched \subseteq Sectors
  BY <1>2, <1>3 DEF Touched
<1>7. QED
  BY <1>2, <1>3, <1>4, <1>5, <1>6

\* A run of an order lies within it.
LEMMA RunFacts ==
  ASSUME NEW s \in Seq(Sectors), NEW i \in Nat \ {0}, NEW n \in 1..MaxBatch,
         IsRun(s, i, n)
  PROVE  /\ n \in Nat \ {0}
         /\ i + n - 1 <= Len(s)
         /\ Batch(s, i, n) \subseteq Sectors
         /\ Batch(s, i, n) = {s[k] : k \in i..(i + n - 1)}
  BY TransactionAssumption DEF IsRun, Batch

\* A rollback finds the old bytes of every touched sector in the mirror.
LEMMA MirrorOfIsOld ==
  ASSUME TypeOK, MirrorInv, Len(mirror) = Len(plan.readback),
         NEW l \in Touched
  PROVE  MirrorOf(l) = Old[l]
<1>1. PICK j \in 1..Len(plan.readback) : plan.readback[j] = l
  BY DEF Touched
<1> DEFINE i == CHOOSE k \in 1..Len(plan.readback) : plan.readback[k] = l
<1>2. i \in 1..Len(plan.readback) /\ plan.readback[i] = l
  BY <1>1
<1>3. mirror[i] = Old[l]
  BY <1>2 DEF MirrorInv
<1>4. QED
  BY <1>3 DEF MirrorOf

LEMMA ExpectedIsContent ==
  ASSUME TypeOK, MirrorInv, Len(mirror) = Len(plan.readback),
         NEW l \in Touched
  PROVE  Expected(l) \in Content
<1>1. l \in Sectors
  BY PlanFacts DEF TypeOK
<1>2. MirrorOf(l) = Old[l]
  BY MirrorOfIsOld
<1>3. QED
  BY <1>1, <1>2, TransactionAssumption DEF Expected

\* A batch changes nothing but its own sectors.
LEMMA LandsFacts ==
  ASSUME TypeOK, MirrorInv, Len(mirror) = Len(plan.readback),
         NEW batch, batch \subseteq Touched,
         NEW landed \in [batch -> {"kept", "written", "torn"}],
         Lands(batch, landed)
  PROVE  /\ view' \in [Sectors -> Content]
         /\ \A l \in Sectors \ batch : view'[l] = view[l]
<1>1. \A l \in batch : Expected(l) \in Content
  BY ExpectedIsContent
<1>2. QED
  BY <1>1, TransactionAssumption DEF Lands, TypeOK
-----------------------------------------------------------------------------
LEMMA InitEstablishes == Init => IInv
<1> SUFFICES ASSUME Init PROVE IInv
  OBVIOUS
<1> USE DEF Init
<1>1. TypeOK
  BY TransactionAssumption, PlanFacts DEF TypeOK
<1>2. QED
  BY <1>1, PlanFacts, TransactionAssumption
     DEF IInv, MirrorInv, CleanInv, UntouchedInv, VerifiedInv, AckedInv,
         VerdictInv, TypeOK

\* The three ways a failing pass goes on keep the invariant, once the failing
\* step has left a well-typed device and the untouched sectors alone.
LEMMA PassFailsPreserves ==
  ASSUME IInv, PassFails, pc \in {"Write", "Sync", "Readback"},
         UNCHANGED <<plan, mirror, medium>>,
         view' \in [Sectors -> Content],
         \A l \in Sectors \ Touched : view'[l] = view[l]
  PROVE  IInv'
<1> USE DEF PassFails, BeginPass, Finish
<1>1. TypeOK'
  BY DEF IInv, TypeOK, Touched
<1>2. MirrorInv'
  BY PlanFacts DEF IInv, TypeOK, MirrorInv
<1>3. CleanInv' /\ UntouchedInv'
  BY DEF IInv, CleanInv, UntouchedInv, Touched
<1>4. VerifiedInv' /\ AckedInv' /\ VerdictInv'
  BY PlanFacts DEF IInv, TypeOK, VerifiedInv, AckedInv, VerdictInv
<1>5. QED
  BY <1>1, <1>2, <1>3, <1>4 DEF IInv
-----------------------------------------------------------------------------
LEMMA PreflightSyncPreserves == IInv /\ PreflightSync => IInv'
<1> SUFFICES ASSUME IInv, PreflightSync PROVE IInv'
  OBVIOUS
<1> USE DEF PreflightSync
<1>1. TypeOK'
  BY DEF IInv, TypeOK, Touched
<1>2. MirrorInv' /\ CleanInv' /\ UntouchedInv'
  BY DEF IInv, MirrorInv, CleanInv, UntouchedInv, Touched
<1>3. VerifiedInv' /\ AckedInv' /\ VerdictInv'
  BY DEF IInv, VerifiedInv, AckedInv, VerdictInv
<1>4. QED
  BY <1>1, <1>2, <1>3 DEF IInv

\* An error before the first write: the device is as it was.
LEMMA RefusalPreserves ==
  ASSUME IInv, pc \in {"SyncPreflight", "Mirror"}, Finish("Refused"),
         UNCHANGED <<plan, mirror, view, medium>>
  PROVE  IInv'
<1> USE DEF Finish
<1>1. TypeOK'
  BY DEF IInv, TypeOK, Touched
<1>2. MirrorInv' /\ CleanInv' /\ UntouchedInv'
  BY DEF IInv, MirrorInv, CleanInv, UntouchedInv, Touched
<1>3. VerifiedInv' /\ AckedInv' /\ VerdictInv'
  BY DEF IInv, CleanInv, VerifiedInv, AckedInv, VerdictInv
<1>4. QED
  BY <1>1, <1>2, <1>3 DEF IInv

\* A batch of the readback order appends the old bytes of its sectors.
LEMMA MirrorBatchPreserves == IInv /\ MirrorBatch => IInv'
<1> SUFFICES ASSUME IInv, MirrorBatch PROVE IInv'
  OBVIOUS
<1>1. PICK n \in 1..MaxBatch :
        /\ IsRun(plan.readback, index, n)
        /\ mirror' = mirror \o
              [k \in 1..n |-> view[plan.readback[index + k - 1]]]
        /\ IF index + n <= Len(plan.readback)
           THEN /\ index' = index + n
                /\ UNCHANGED <<pc, pass, attempt, acked, result>>
           ELSE BeginPass("Forward", 0)
  BY DEF MirrorBatch
<1>2. /\ plan.readback \in Seq(Sectors)
      /\ Len(plan.readback) \in Nat
      /\ index \in Nat \ {0}
      /\ pc = "Mirror" /\ view = Old /\ mirror \in Seq(Content)
      /\ Len(mirror) = index - 1
      /\ UNCHANGED <<plan, view, medium>>
  BY PlanFacts DEF MirrorBatch, IInv, TypeOK, CleanInv, MirrorInv
<1>3. n \in Nat \ {0} /\ index + n - 1 <= Len(plan.readback)
  BY <1>1, <1>2, RunFacts
<1> DEFINE read == [k \in 1..n |-> view[plan.readback[index + k - 1]]]
<1>4. /\ read \in Seq(Content)
      /\ Len(read) = n
      /\ \A k \in 1..n : read[k] = Old[plan.readback[index + k - 1]]
  <2>1. \A k \in 1..n : index + k - 1 \in 1..Len(plan.readback)
    BY <1>2, <1>3
  <2>2. \A k \in 1..n : plan.readback[index + k - 1] \in Sectors
    BY <1>2, <2>1
  <2>3. \A k \in 1..n : view[plan.readback[index + k - 1]] \in Content
    BY <1>2, <2>2, TransactionAssumption
  <2>4. \A k \in 1..n : read[k] = Old[plan.readback[index + k - 1]]
    BY <1>2
  <2>5. read \in [1..n -> Content]
    BY <2>3
  <2>6. read \in Seq(Content) /\ Len(read) = n
    <3> HIDE DEF read
    <3>1. QED
      BY <1>3, <2>5
  <2>7. QED
    BY <2>4, <2>6
<1>5. /\ mirror' \in Seq(Content)
      /\ Len(mirror') = index - 1 + n
      /\ \A i \in 1..Len(mirror') : mirror'[i] =
            IF i <= Len(mirror) THEN mirror[i] ELSE read[i - Len(mirror)]
  <2> HIDE DEF read
  <2>1. mirror' = mirror \o read
    BY <1>1 DEF read
  <2>2. mirror \in Seq(Content) /\ read \in Seq(Content)
    BY <1>2, <1>4
  <2>3. /\ mirror' \in Seq(Content)
        /\ Len(mirror') = Len(mirror) + Len(read)
        /\ \A i \in 1..Len(mirror') : mirror'[i] =
              IF i <= Len(mirror) THEN mirror[i] ELSE read[i - Len(mirror)]
    BY <2>1, <2>2
  <2>4. Len(mirror) = index - 1 /\ Len(read) = n
    BY <1>2, <1>4
  <2>5. QED
    BY <2>3, <2>4
<1>6. \A i \in 1..Len(mirror') : mirror'[i] = Old[plan.readback[i]]
  <2> SUFFICES ASSUME NEW i \in 1..Len(mirror')
               PROVE  mirror'[i] = Old[plan.readback[i]]
    OBVIOUS
  <2> HIDE DEF read
  <2>1. CASE i <= Len(mirror)
    BY <1>2, <1>5, <2>1 DEF IInv, MirrorInv
  <2>2. CASE i > Len(mirror)
    <3>1. i - Len(mirror) \in 1..n /\ index + (i - Len(mirror)) - 1 = i
      BY <1>2, <1>3, <1>5, <2>2
    <3>2. QED
      BY <1>2, <1>4, <1>5, <2>2, <3>1
  <2>3. QED
    BY <1>2, <1>5, <2>1, <2>2
<1>7. TypeOK'
  BY <1>1, <1>2, <1>3, <1>5 DEF IInv, TypeOK, Touched, BeginPass
<1>8. MirrorInv'
  <2>1. \/ index + n <= Len(plan.readback) /\ pc' = "Mirror" /\ index' = index + n
        \/ index + n > Len(plan.readback) /\ pc' = "Write"
    <3>1. CASE index + n <= Len(plan.readback)
      BY <1>1, <1>2, <3>1
    <3>2. CASE ~(index + n <= Len(plan.readback))
      <4>1. BeginPass("Forward", 0)
        BY <1>1, <3>2
      <4>2. QED
        BY <1>2, <1>3, <3>2, <4>1 DEF BeginPass
    <3>3. QED
      BY <3>1, <3>2
  <2>2. /\ Len(mirror') = index - 1 + n
        /\ Len(mirror') <= Len(plan.readback)
        /\ plan' = plan
    BY <1>2, <1>3, <1>5
  <2>3. pc' = "Mirror" => Len(mirror') = index' - 1
    <3>1. CASE index' = index + n
      BY <1>2, <1>3, <2>2, <3>1
    <3>2. CASE pc' = "Write"
      BY <3>2
    <3>3. QED
      BY <2>1, <3>1, <3>2
  <2>4. pc' \in {"Write", "Sync", "Readback"}
          => Len(mirror') = Len(plan.readback)
    <3>1. CASE pc' = "Mirror"
      BY <3>1
    <3>2. CASE index + n > Len(plan.readback)
      BY <1>2, <1>3, <2>2, <3>2
    <3>3. QED
      BY <2>1, <3>1, <3>2
  <2>5. pc' # "SyncPreflight"
    BY <2>1
  <2>6. QED
    BY <1>6, <2>2, <2>3, <2>4, <2>5 DEF MirrorInv
<1>9. CleanInv' /\ UntouchedInv'
  BY <1>2 DEF IInv, CleanInv, UntouchedInv, Touched
<1>10. VerifiedInv' /\ AckedInv' /\ VerdictInv'
  BY <1>1, <1>2 DEF IInv, VerifiedInv, AckedInv, VerdictInv, BeginPass
<1>11. QED
  BY <1>7, <1>8, <1>9, <1>10 DEF IInv

\* What both write steps know of their batch.
LEMMA WriteFacts ==
  ASSUME IInv, pc = "Write", NEW n \in 1..MaxBatch,
         IsRun(plan.order, index, n),
         \E landed \in [Batch(plan.order, index, n) ->
                          {"kept", "written", "torn"}] :
            Lands(Batch(plan.order, index, n), landed)
  PROVE  /\ n \in Nat \ {0}
         /\ index + n - 1 <= Len(plan.order)
         /\ Batch(plan.order, index, n) \subseteq Touched
         /\ view' \in [Sectors -> Content]
         /\ \A l \in Sectors \ Batch(plan.order, index, n) :
               view'[l] = view[l]
<1>1. /\ n \in Nat \ {0}
      /\ index + n - 1 <= Len(plan.order)
      /\ Batch(plan.order, index, n) = {plan.order[k] : k \in index..(index + n - 1)}
  BY PlanFacts, RunFacts DEF IInv, TypeOK
<1>2. Batch(plan.order, index, n) \subseteq Touched
  <2> SUFFICES ASSUME NEW l \in Batch(plan.order, index, n) PROVE l \in Touched
    OBVIOUS
  <2>1. PICK k \in index..(index + n - 1) : l = plan.order[k]
    BY <1>1
  <2>2. k \in 1..Len(plan.order)
    BY <1>1, PlanFacts DEF IInv, TypeOK
  <2>3. QED
    BY <2>1, <2>2, PlanFacts DEF IInv, TypeOK
<1>3. Len(mirror) = Len(plan.readback)
  BY DEF IInv, MirrorInv
<1>4. QED
  BY <1>1, <1>2, <1>3, LandsFacts DEF IInv

LEMMA WriteBatchPreserves == IInv /\ WriteBatch => IInv'
<1> SUFFICES ASSUME IInv, WriteBatch PROVE IInv'
  OBVIOUS
<1>1. PICK n \in 1..MaxBatch :
        /\ IsRun(plan.order, index, n)
        /\ \E landed \in [Batch(plan.order, index, n) ->
                            {"kept", "written", "torn"}] :
              Lands(Batch(plan.order, index, n), landed)
        /\ acked' = acked \union Batch(plan.order, index, n)
        /\ IF index + n <= Len(plan.order)
           THEN index' = index + n /\ pc' = pc
           ELSE index' = 1 /\ pc' = "Sync"
  BY DEF WriteBatch
<1>2. /\ pc = "Write"
      /\ UNCHANGED <<plan, pass, attempt, mirror, medium, result>>
  BY DEF WriteBatch
<1> DEFINE batch == Batch(plan.order, index, n)
<1>3. /\ n \in Nat \ {0}
      /\ index + n - 1 <= Len(plan.order)
      /\ batch \subseteq Touched
      /\ view' \in [Sectors -> Content]
      /\ \A l \in Sectors \ batch : view'[l] = view[l]
  BY <1>1, <1>2, WriteFacts
<1>4. Len(plan.order) \in Nat /\ index \in Nat \ {0}
  BY PlanFacts DEF IInv, TypeOK
<1>5. TypeOK'
  <2> HIDE DEF batch
  <2>1. acked' \subseteq Touched
    BY <1>1, <1>3 DEF IInv, TypeOK, batch
  <2>2. QED
    BY <1>1, <1>2, <1>3, <1>4, <2>1 DEF IInv, TypeOK, Touched
<1>6. MirrorInv' /\ CleanInv' /\ UntouchedInv'
  <2> HIDE DEF batch
  <2>1. QED
    BY <1>1, <1>2, <1>3 DEF IInv, MirrorInv, CleanInv, UntouchedInv, Touched
<1>7. VerifiedInv' /\ VerdictInv'
  BY <1>1, <1>2 DEF IInv, VerifiedInv, VerdictInv
<1>8. AckedInv'
  <2> SUFFICES ASSUME pc' = "Write", NEW i \in 1..(index' - 1),
                      i <= Len(plan.order)
               PROVE  plan.order[i] \in acked'
    BY <1>2 DEF AckedInv
  <2>1. index' = index + n
    BY <1>1
  <2>2. CASE i < index
    BY <1>1, <1>2, <1>4, <2>2 DEF IInv, AckedInv
  <2>3. CASE i >= index
    <3>1. i \in index..(index + n - 1)
      BY <1>3, <1>4, <2>1, <2>3
    <3>2. plan.order[i] \in batch
      BY <3>1 DEF Batch
    <3>3. QED
      BY <1>1, <3>2
  <2>4. QED
    BY <1>4, <2>2, <2>3
<1>9. QED
  BY <1>5, <1>6, <1>7, <1>8 DEF IInv

LEMMA WriteBatchFailsPreserves == IInv /\ WriteBatchFails => IInv'
<1> SUFFICES ASSUME IInv, WriteBatchFails PROVE IInv'
  OBVIOUS
<1>1. PICK n \in 1..MaxBatch :
        /\ IsRun(plan.order, index, n)
        /\ \E landed \in [Batch(plan.order, index, n) ->
                            {"kept", "written", "torn"}] :
              Lands(Batch(plan.order, index, n), landed)
  BY DEF WriteBatchFails
<1>2. /\ pc = "Write" /\ PassFails
      /\ UNCHANGED <<plan, mirror, medium>>
  BY DEF WriteBatchFails
<1>3. /\ Batch(plan.order, index, n) \subseteq Touched
      /\ view' \in [Sectors -> Content]
      /\ \A l \in Sectors \ Batch(plan.order, index, n) : view'[l] = view[l]
  BY <1>1, <1>2, WriteFacts
<1>4. QED
  BY <1>2, <1>3, PassFailsPreserves

LEMMA SyncPreserves == IInv /\ Sync => IInv'
<1> SUFFICES ASSUME IInv, Sync PROVE IInv'
  OBVIOUS
<1> USE DEF Sync
<1>1. TypeOK'
  BY DEF IInv, TypeOK, Touched
<1>2. MirrorInv' /\ CleanInv' /\ UntouchedInv'
  BY DEF IInv, MirrorInv, CleanInv, UntouchedInv, Touched
<1>3. VerifiedInv' /\ AckedInv' /\ VerdictInv'
  BY DEF IInv, VerifiedInv, AckedInv, VerdictInv
<1>4. QED
  BY <1>1, <1>2, <1>3 DEF IInv

\* The last batch of a reading back decides the verdict: every touched sector
\* has been compared on the medium itself.
LEMMA ReadbackBatchPreserves == IInv /\ ReadbackBatch => IInv'
<1> SUFFICES ASSUME IInv, ReadbackBatch PROVE IInv'
  OBVIOUS
<1>1. PICK n \in 1..MaxBatch :
        /\ IsRun(plan.readback, index, n)
        /\ Matches(Batch(plan.readback, index, n))
        /\ IF index + n <= Len(plan.readback)
           THEN /\ index' = index + n
                /\ UNCHANGED <<pc, pass, attempt, acked, result>>
           ELSE PassSucceeds
  BY DEF ReadbackBatch
<1>2. /\ pc = "Readback" /\ UNCHANGED <<plan, mirror, view, medium>>
      /\ view = medium /\ Len(mirror) = Len(plan.readback)
      /\ result = "Pending"
  BY DEF ReadbackBatch, IInv, VerifiedInv, MirrorInv, VerdictInv
<1>3. /\ plan.readback \in Seq(Sectors)
      /\ Len(plan.readback) \in Nat
      /\ index \in Nat \ {0}
  BY PlanFacts DEF IInv, TypeOK
<1>4. n \in Nat \ {0} /\ index + n - 1 <= Len(plan.readback)
  BY <1>1, <1>3, RunFacts
<1>5. \A i \in 1..(index + n - 1) :
        view[plan.readback[i]] = Expected(plan.readback[i])
  <2> SUFFICES ASSUME NEW i \in 1..(index + n - 1)
               PROVE  view[plan.readback[i]] = Expected(plan.readback[i])
    OBVIOUS
  <2>1. CASE i < index
    BY <1>2, <1>3, <1>4, <2>1 DEF IInv, VerifiedInv
  <2>2. CASE i >= index
    <3>1. plan.readback[i] \in Batch(plan.readback, index, n)
      BY <1>3, <1>4, <2>2 DEF Batch
    <3>2. QED
      BY <1>1, <3>1 DEF Matches
  <2>3. QED
    BY <1>3, <1>4, <2>1, <2>2
<1>6. CASE index + n <= Len(plan.readback)
  <2>1. index' = index + n /\ UNCHANGED <<pc, pass, attempt, acked, result>>
    BY <1>1, <1>6
  <2>2. TypeOK'
    BY <1>2, <1>3, <1>4, <2>1 DEF IInv, TypeOK, Touched
  <2>3. MirrorInv' /\ CleanInv' /\ UntouchedInv'
    BY <1>2, <2>1 DEF IInv, MirrorInv, CleanInv, UntouchedInv, Touched
  <2>4. VerifiedInv'
    <3> DEFINE Same(i) == view[plan.readback[i]] = Expected(plan.readback[i])
    <3>1. UNCHANGED <<plan, pass, mirror, view>>
      BY <1>2, <2>1
    <3>2. \A i \in 1..(index + n - 1) : Same(i)' <=> Same(i)
      BY <3>1 DEF Expected, MirrorOf
    <3>3. \A i \in 1..(index + n - 1) : Same(i)'
      BY <1>5, <3>2
    <3>4. index' - 1 = index + n - 1 /\ view' = medium'
      BY <1>2, <1>3, <1>4, <2>1
    <3>5. QED
      BY <3>3, <3>4 DEF VerifiedInv
  <2>5. AckedInv' /\ VerdictInv'
    BY <1>2, <2>1 DEF IInv, AckedInv, VerdictInv
  <2>6. QED
    BY <2>2, <2>3, <2>4, <2>5 DEF IInv
<1>7. CASE ~(index + n <= Len(plan.readback))
  <2>1. /\ pc' = "Done"
        /\ result' = IF pass = "Rollback" THEN "RolledBack" ELSE "Ok"
        /\ UNCHANGED <<pass, attempt, index, acked>>
    BY <1>1, <1>7 DEF PassSucceeds, Finish
  <2>2. \A l \in Touched : view[l] = Expected(l)
    <3> SUFFICES ASSUME NEW l \in Touched PROVE view[l] = Expected(l)
      OBVIOUS
    <3>1. PICK i \in 1..Len(plan.readback) : plan.readback[i] = l
      BY DEF Touched
    <3>2. i \in 1..(index + n - 1)
      BY <1>3, <1>4, <1>7
    <3>3. QED
      BY <1>5, <3>1, <3>2
  <2>3. pass = "Forward" => \A l \in Touched : medium[l] = New[l]
    BY <1>2, <2>2 DEF Expected
  <2>4. pass = "Rollback" => medium = Old
    <3> SUFFICES ASSUME pass = "Rollback" PROVE medium = Old
      OBVIOUS
    <3>1. \A l \in Touched : medium[l] = Old[l]
      BY <1>2, <2>2, MirrorOfIsOld DEF Expected, IInv
    <3>2. \A l \in Sectors : medium[l] = Old[l]
      BY <3>1 DEF IInv, UntouchedInv
    <3>3. QED
      BY <3>2, TransactionAssumption DEF IInv, TypeOK
  <2>5. TypeOK' /\ Touched' = Touched
    BY <1>2, <2>1 DEF IInv, TypeOK, Touched
  <2>6. MirrorInv' /\ CleanInv' /\ UntouchedInv' /\ VerifiedInv' /\ AckedInv'
    BY <1>2, <2>1, <2>5
       DEF IInv, MirrorInv, CleanInv, UntouchedInv, VerifiedInv, AckedInv
  <2>7. pass \in {"Forward", "Rollback"}
    BY DEF IInv, TypeOK
  <2>8. VerdictInv'
    BY <1>2, <2>1, <2>3, <2>4, <2>5, <2>7 DEF VerdictInv
  <2>9. QED
    BY <2>5, <2>6, <2>8 DEF IInv
<1>8. QED
  BY <1>6, <1>7

\* Only a dirty sector can be evicted, so none after a reading back began.
LEMMA EvictPreserves ==
  ASSUME IInv, NEW e \in Sectors, Evict(e)
  PROVE  IInv'
<1> USE DEF Evict
<1>1. TypeOK'
  BY DEF IInv, TypeOK, Touched
<1>2. e \in Touched
  BY DEF IInv, UntouchedInv
<1>3. MirrorInv' /\ CleanInv' /\ UntouchedInv'
  BY <1>2 DEF IInv, TypeOK, MirrorInv, CleanInv, UntouchedInv, Touched
<1>4. VerifiedInv' /\ AckedInv' /\ VerdictInv'
  BY DEF IInv, VerifiedInv, AckedInv, VerdictInv
<1>5. QED
  BY <1>1, <1>3, <1>4 DEF IInv

LEMMA PowerLossPreserves == IInv /\ PowerLoss => IInv'
<1> SUFFICES ASSUME IInv, PowerLoss PROVE IInv'
  OBVIOUS
<1> USE DEF PowerLoss
<1>1. TypeOK'
  BY DEF IInv, TypeOK, Touched
<1>2. MirrorInv' /\ CleanInv' /\ UntouchedInv'
  BY DEF IInv, MirrorInv, CleanInv, UntouchedInv, Touched
<1>3. VerifiedInv' /\ AckedInv' /\ VerdictInv'
  BY DEF IInv, VerifiedInv, AckedInv, VerdictInv
<1>4. QED
  BY <1>1, <1>2, <1>3 DEF IInv

LEMMA StutterPreserves == IInv /\ UNCHANGED vars => IInv'
<1> SUFFICES ASSUME IInv, UNCHANGED vars PROVE IInv'
  OBVIOUS
<1> USE DEF vars
<1>1. TypeOK'
  BY DEF IInv, TypeOK, Touched
<1>2. MirrorInv' /\ CleanInv' /\ UntouchedInv'
  BY DEF IInv, MirrorInv, CleanInv, UntouchedInv, Touched
<1>3. VerifiedInv'
  BY DEF IInv, VerifiedInv, Expected, MirrorOf
<1>4. AckedInv' /\ VerdictInv'
  BY DEF IInv, AckedInv, VerdictInv, Touched
<1>5. QED
  BY <1>1, <1>2, <1>3, <1>4 DEF IInv

LEMMA NextPreserves == IInv /\ [Next]_vars => IInv'
<1> SUFFICES ASSUME IInv, [Next]_vars PROVE IInv'
  OBVIOUS
<1>1. CASE PreflightSync
  BY <1>1, PreflightSyncPreserves
<1>2. CASE PreflightFails
  BY <1>2, RefusalPreserves DEF PreflightFails
<1>3. CASE MirrorBatch
  BY <1>3, MirrorBatchPreserves
<1>4. CASE MirrorFails
  BY <1>4, RefusalPreserves DEF MirrorFails
<1>5. CASE WriteBatch
  BY <1>5, WriteBatchPreserves
<1>6. CASE WriteBatchFails
  BY <1>6, WriteBatchFailsPreserves
<1>7. CASE Sync
  BY <1>7, SyncPreserves
<1>8. CASE SyncFails \/ ReadbackFails
  BY <1>8, PassFailsPreserves DEF SyncFails, ReadbackFails, IInv, TypeOK
<1>9. CASE ReadbackBatch
  BY <1>9, ReadbackBatchPreserves
<1>10. CASE PowerLoss
  BY <1>10, PowerLossPreserves
<1>11. ASSUME NEW e \in Sectors, Evict(e) PROVE IInv'
  BY <1>11, EvictPreserves
<1>12. CASE UNCHANGED vars
  BY <1>12, StutterPreserves
<1>13. QED
  BY <1>1, <1>2, <1>3, <1>4, <1>5, <1>6, <1>7, <1>8, <1>9, <1>10, <1>11,
     <1>12 DEF Next, Step

\* The invariant that carries everything below: what the mirror, the index
\* and the cache say of the device in every phase.
THEOREM Invariance == Spec => []IInv
<1>1. QED
  BY InitEstablishes, NextPreserves, PTL DEF Spec

\* Type correctness of the executor for every plan, target and batch size.
THEOREM Typing == Spec => []TypeOK
<1>1. IInv => TypeOK
  BY DEF IInv
<1>2. QED
  BY Invariance, <1>1, PTL
-----------------------------------------------------------------------------
(***************************************************************************)
(* The MBR is written last in every pass (execute_sector_transaction and   *)
(* its rollbacks): a batch that changes LBA0 begins with it, because no    *)
(* LBA precedes 0, and LBA0 is the last of the order.                      *)
(***************************************************************************)
LEMMA MbrBatch ==
  ASSUME IInv, pc = "Write", NEW n \in 1..MaxBatch,
         IsRun(plan.order, index, n),
         0 \in Batch(plan.order, index, n)
  PROVE  Touched \ {0} \subseteq acked
<1>1. IsPlan(plan)
  BY TransactionAssumption DEF IInv, TypeOK
<1>2. /\ plan.order \in Seq(Sectors) /\ Len(plan.order) \in Nat
      /\ index \in Nat \ {0} /\ n \in Nat \ {0}
      /\ index + n - 1 <= Len(plan.order)
  BY PlanFacts, RunFacts DEF IInv, TypeOK
<1>3. PICK j \in index..(index + n - 1) : plan.order[j] = 0
  BY DEF Batch
<1>4. j \in 1..Len(plan.order) /\ j = Len(plan.order)
  <2>1. j \in 1..Len(plan.order)
    BY <1>2
  <2>2. QED
    BY <1>1, <1>3, <2>1 DEF IsPlan
<1>5. j = index
  <2> SUFFICES ASSUME j > index PROVE FALSE
    BY <1>2
  <2>1. j - index \in 1..(n - 1)
    BY <1>2
  <2>2. plan.order[index + (j - index)] = plan.order[index + (j - index) - 1] + 1
    BY <2>1 DEF IsRun
  <2>3. index + (j - index) = j /\ index + (j - index) - 1 = j - 1
    BY <1>2
  <2>4. j - 1 \in 1..Len(plan.order)
    BY <1>2, <1>4
  <2>5. plan.order[j - 1] \in Nat
    <3>1. plan.order[j - 1] \in Sectors
      BY <1>2, <2>4
    <3>2. QED
      BY <3>1, TransactionAssumption
  <2>6. plan.order[j] = plan.order[j - 1] + 1
    BY <2>2, <2>3, Zenon
  <2>7. QED
    BY <1>3, <2>5, <2>6
<1>6. \A i \in 1..(Len(plan.order) - 1) : plan.order[i] \in acked
  BY <1>2, <1>4, <1>5 DEF IInv, AckedInv
<1>7. ASSUME NEW l \in Touched \ {0} PROVE l \in acked
  <2>1. PICK i \in 1..Len(plan.readback) : plan.readback[i] = l
    BY DEF Touched
  <2>2. PICK k \in 1..Len(plan.order) : plan.order[k] = l
    BY <1>1, <2>1 DEF IsPlan
  <2>3. k \in 1..(Len(plan.order) - 1)
    BY <1>2, <1>3, <1>4, <2>2
  <2>4. QED
    BY <1>6, <2>2, <2>3
<1>8. QED
  BY <1>7

\* The MBR commits each pass: checked by the run sector_transaction for its
\* plans, proved here for every plan.
THEOREM MbrIsWrittenLast == Spec => MbrLast
<1>1. ASSUME IInv, [Next]_vars, 0 \in Touched, view'[0] # view[0],
             pc' # "Crashed"
      PROVE  Touched \ {0} \subseteq acked
  <2>1. 0 \in Sectors
    BY <1>1, PlanFacts DEF IInv, TypeOK
  <2>2. WriteBatch \/ WriteBatchFails
    BY <1>1 DEF Next, Step, vars, PreflightSync, PreflightFails, MirrorBatch,
       MirrorFails, Sync, SyncFails, ReadbackBatch, ReadbackFails, PowerLoss,
       Evict
  <2>3. pc = "Write"
    BY <2>2 DEF WriteBatch, WriteBatchFails
  <2>4. PICK n \in 1..MaxBatch :
          /\ IsRun(plan.order, index, n)
          /\ \E landed \in [Batch(plan.order, index, n) ->
                              {"kept", "written", "torn"}] :
                Lands(Batch(plan.order, index, n), landed)
    BY <2>2 DEF WriteBatch, WriteBatchFails
  <2>5. \A l \in Sectors \ Batch(plan.order, index, n) : view'[l] = view[l]
    BY <1>1, <2>3, <2>4, WriteFacts
  <2>6. 0 \in Batch(plan.order, index, n)
    BY <1>1, <2>1, <2>5
  <2>7. QED
    BY <1>1, <2>3, <2>4, <2>6, MbrBatch
<1>2. QED
  BY <1>1, Invariance, PTL DEF Spec, MbrLast
-----------------------------------------------------------------------------
(***************************************************************************)
(* The verdict can be relied on: the executor implements MediaContract.    *)
(* The invariant says in every state what the verdict says of the medium;  *)
(* a step then either leaves a pending or an intermediate transaction's    *)
(* untouched sectors alone, or reports a truthful verdict, or, after any   *)
(* other verdict, finds no dirty sector to evict.                          *)
(***************************************************************************)
THEOREM TransactionHonoursContract == Spec => ContractSpec
<1>1. Init => Contract!Init
  <2> SUFFICES ASSUME Init PROVE Contract!Init
    OBVIOUS
  <2>1. Touched \in SUBSET Sectors
    BY PlanFacts DEF Init
  <2>2. QED
    BY <2>1 DEF Init, Contract!Init
<1>2. ASSUME IInv, IInv', [Next]_vars
      PROVE  [Contract!Next]_(Contract!vars)
  <2>1. Touched' = Touched
    BY <1>2 DEF Next, Step, vars, PreflightSync, PreflightFails, MirrorBatch,
       MirrorFails, WriteBatch, WriteBatchFails, Sync, SyncFails,
       ReadbackBatch, ReadbackFails, PowerLoss, Evict, Touched
  <2>2. Contract!OnlyTouchedMayChange
    <3>1. \A l \in Sectors \ Touched : medium'[l] = medium[l]
      BY <1>2, <2>1 DEF IInv, UntouchedInv
    <3>2. medium' \in [Sectors -> Content]
      BY <1>2 DEF IInv, TypeOK
    <3>3. QED
      BY <3>1, <3>2 DEF Contract!OnlyTouchedMayChange
  <2>3. result \in Contract!Verdicts /\ result' \in Contract!Verdicts
    BY <1>2 DEF IInv, TypeOK, Contract!Verdicts
  <2>4. CASE result = "Pending" /\ result' = "Pending"
    BY <2>1, <2>2, <2>4 DEF Contract!Next, Contract!Disturb
  <2>5. CASE result = "Pending" /\ result' # "Pending"
    <3>1. Contract!Truthful(result', medium')
      BY <1>2, <2>1 DEF IInv, VerdictInv, Contract!Truthful
    <3>2. QED
      BY <2>1, <2>2, <2>3, <2>5, <3>1 DEF Contract!Next, Contract!Report
  <2>6. CASE result # "Pending"
    <3>1. pc = "Done"
      BY <1>2, <2>6 DEF IInv, VerdictInv
    <3>2. \/ UNCHANGED vars
          \/ \E e \in Sectors : Evict(e)
      BY <1>2, <3>1 DEF Next, Step, PreflightSync, PreflightFails, MirrorBatch,
         MirrorFails, WriteBatch, WriteBatchFails, Sync, SyncFails,
         ReadbackBatch, ReadbackFails, PowerLoss
    <3>3. result' = result
      BY <3>2 DEF vars, Evict
    <3>4. CASE result = "Intermediate"
      BY <2>1, <2>2, <3>3, <3>4 DEF Contract!Next, Contract!Disturb
    <3>5. CASE result # "Intermediate"
      <4>1. view = medium
        BY <1>2, <2>3, <2>6, <3>5 DEF IInv, VerdictInv, Contract!Verdicts
      <4>2. medium' = medium
        BY <3>2, <4>1 DEF vars, Evict
      <4>3. QED
        BY <2>1, <3>3, <4>2 DEF Contract!vars
    <3>6. QED
      BY <3>4, <3>5
  <2>7. QED
    BY <2>4, <2>5, <2>6
<1>3. QED
  BY <1>1, <1>2, Invariance, PTL DEF Spec, ContractSpec, Contract!Spec
=============================================================================
