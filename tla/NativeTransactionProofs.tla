---------------------- MODULE NativeTransactionProofs ----------------------
(***************************************************************************)
(* For every target, every list of blocks and every budget of the mirror:  *)
(* the native-block transaction keeps its promise to the caller (it        *)
(* implements MediaContract), and the MBR is a commit record even on a     *)
(* device that reorders its cache and loses blocks at a sync.              *)
(***************************************************************************)
EXTENDS NativeTransaction, TLAPS

Steps ==
  {"Validate", "Snapshot", "InitialSync", "Write", "Barrier", "WriteMbr", "Check",
   "FinalSync", "Verify", "Undo", "UndoSync", "UndoVerify", "Done", "Crashed"}

TypeOK ==
  /\ writes \in Plans
  /\ pc \in Steps
  /\ index \in Nat \ {0}
  /\ originals \in Seq(Content)
  /\ undo \in {"clean", "damaged"}
  /\ view \in [Sectors -> Content]
  /\ medium \in [Sectors -> Content]
  /\ result \in {"Pending", "Ok", "Refused", "RolledBack", "Intermediate"}

\* Only a valid plan is carried out; every loop stands within it.
Running == pc \notin {"Validate", "Done", "Crashed"}

PlanInv ==
  /\ Running => Valid(writes) /\ index \in 1..Len(writes)
  /\ pc = "Write" => index < Len(writes)
  /\ pc \in {"Barrier", "WriteMbr"} => index = Len(writes)

\* The mirror holds the old blocks read so far, and all before the first write.
OriginalsInv ==
  /\ \A i \in 1..Len(originals) : originals[i] = Old[writes[i]]
  /\ pc = "Validate" => originals = << >>
  /\ pc = "Snapshot" => Len(originals) = index - 1
  /\ Running /\ pc # "Snapshot" => Len(originals) = Len(writes)

CleanInv ==
  pc \in {"Validate", "Snapshot", "InitialSync"} => view = Old /\ medium = Old

UntouchedInv ==
  \A l \in Sectors \ Touched : view[l] = Old[l] /\ medium[l] = Old[l]

BeforeBarrier ==
  pc \in {"Write", "Barrier"} \/ (pc = "Check" /\ index < Len(writes))
BehindBarrier ==
  pc \in {"WriteMbr", "FinalSync", "Verify"} \/ (pc = "Check" /\ index = Len(writes))

\* Up to the barrier every block was read back as planned before the next one
\* is written, and the MBR is the old one everywhere.  Behind the barrier no
\* other block of the plan is left in the cache.
CommitInv ==
  /\ BeforeBarrier =>
       /\ \A i \in 1..(index - 1) : view[writes[i]] = New[writes[i]]
       /\ view[0] = Old[0] /\ medium[0] = Old[0]
  /\ BehindBarrier =>
       \A l \in Touched \ {0} : view[l] = medium[l] /\ medium[l] \in {New[l], Torn}

\* What was compared so far was compared on the medium itself.
VerifiedInv ==
  /\ pc = "Verify" =>
       /\ view = medium
       /\ \A i \in 1..(index - 1) : view[writes[i]] = New[writes[i]]
  /\ pc = "UndoVerify" /\ undo = "clean" =>
       /\ view = medium
       /\ \A i \in 1..(index - 1) : view[writes[i]] = Old[writes[i]]

VerdictInv ==
  /\ pc = "Done" <=> result # "Pending"
  /\ result = "Ok" => \A l \in Touched : medium[l] = New[l]
  /\ result \in {"Refused", "RolledBack"} => medium = Old
  /\ result \in {"Ok", "Refused", "RolledBack"} => view = medium

IInv == /\ TypeOK /\ PlanInv /\ OriginalsInv /\ CleanInv /\ UntouchedInv
        /\ CommitInv /\ VerifiedInv /\ VerdictInv
-----------------------------------------------------------------------------
LEMMA PlanFacts ==
  ASSUME writes \in Plans
  PROVE  /\ writes \in Seq(Nat) /\ Len(writes) \in Nat
         /\ Touched \subseteq Sectors
         /\ \A i \in 1..Len(writes) : writes[i] \in Nat
  BY NativeAssumption DEF Touched

\* The blocks of a valid plan: MBR last, none twice.
LEMMA ValidFacts ==
  ASSUME writes \in Plans, Valid(writes)
  PROVE  /\ Len(writes) \in Nat \ {0}
         /\ \A i \in 1..Len(writes) : writes[i] \in Touched
         /\ \A l \in Touched : \E i \in 1..Len(writes) : writes[i] = l
         /\ \A i \in 1..Len(writes) : writes[i] = 0 <=> i = Len(writes)
         /\ \A i, j \in 1..Len(writes) : writes[i] = writes[j] => i = j
         /\ 0 \in Touched
<1>1. Len(writes) \in Nat /\ writes \in Seq(Nat)
  BY PlanFacts
<1>2. Len(writes) # 0
  BY <1>1 DEF Valid
<1>3. QED
  BY <1>1, <1>2 DEF Valid, Touched

\* A write leaves every other block alone.
LEMMA LandsFacts ==
  ASSUME TypeOK, NEW l \in Touched, NEW c \in Content, Lands(l, c)
  PROVE  /\ view' \in [Sectors -> Content]
         /\ \A k \in Sectors \ {l} : view'[k] = view[k]
  BY PlanFacts, NativeAssumption DEF TypeOK, Lands

\* A sync leaves nothing in the cache; it damages dirty blocks only.
LEMMA FlushFacts ==
  ASSUME TypeOK, UntouchedInv, Flush
  PROVE  /\ view' = medium'
         /\ medium' \in [Sectors -> Content]
         /\ \A l \in Sectors : view[l] = medium[l] => medium'[l] = medium[l]
         /\ \A l \in Sectors : medium'[l] \in {view[l], Torn}
         /\ \A l \in Sectors \ Touched : medium'[l] = Old[l]
<1>1. PICK lost \in SUBSET {l \in Touched : view[l] # medium[l]} :
        /\ medium' = [l \in Sectors |-> IF l \in lost THEN Torn ELSE view[l]]
        /\ view' = medium'
  BY DEF Flush
<1>2. QED
  BY <1>1, NativeAssumption DEF TypeOK, UntouchedInv
-----------------------------------------------------------------------------
LEMMA InitEstablishes == Init => IInv
<1> SUFFICES ASSUME Init PROVE IInv
  OBVIOUS
<1> USE DEF Init
<1>1. TypeOK
  BY NativeAssumption DEF TypeOK, Steps
<1>2. PlanInv /\ OriginalsInv /\ CleanInv /\ UntouchedInv
  BY DEF PlanInv, Running, OriginalsInv, CleanInv, UntouchedInv
<1>3. CommitInv /\ VerifiedInv /\ VerdictInv
  BY DEF CommitInv, BeforeBarrier, BehindBarrier, VerifiedInv, VerdictInv
<1>4. QED
  BY <1>1, <1>2, <1>3 DEF IInv

LEMMA ValidatePreserves == IInv /\ Validate => IInv'
<1> SUFFICES ASSUME IInv, Validate PROVE IInv'
  OBVIOUS
<1> USE DEF Validate, Goto, Return
<1>1. TypeOK'
  BY DEF IInv, TypeOK, Steps
<1>2. PlanInv'
  BY ValidFacts DEF IInv, TypeOK, PlanInv, Running
<1>3. OriginalsInv' /\ CleanInv' /\ UntouchedInv'
  BY DEF IInv, OriginalsInv, Running, CleanInv, UntouchedInv, Touched
<1>4. CommitInv' /\ VerifiedInv' /\ VerdictInv'
  BY DEF IInv, CleanInv, CommitInv, BeforeBarrier, BehindBarrier, VerifiedInv, VerdictInv
<1>5. QED
  BY <1>1, <1>2, <1>3, <1>4 DEF IInv

LEMMA SnapshotPreserves == IInv /\ Snapshot => IInv'
<1> SUFFICES ASSUME IInv, Snapshot PROVE IInv'
  OBVIOUS
<1> USE DEF Snapshot, Goto
<1>1. /\ Valid(writes) /\ index \in 1..Len(writes) /\ Len(writes) \in Nat
      /\ writes[index] \in Sectors /\ view = Old /\ medium = Old
      /\ originals \in Seq(Content) /\ Len(originals) = index - 1
      /\ view[writes[index]] \in Content
  <2>1. Valid(writes) /\ index \in 1..Len(writes)
    BY DEF IInv, PlanInv, Running
  <2>2. writes[index] \in Sectors /\ Len(writes) \in Nat
    BY <2>1, PlanFacts, ValidFacts DEF IInv, TypeOK
  <2>3. QED
    BY <2>1, <2>2 DEF IInv, TypeOK, OriginalsInv, CleanInv
<1>2. /\ originals' \in Seq(Content) /\ Len(originals') = index
      /\ \A i \in 1..Len(originals') : originals'[i] = Old[writes[i]]
  BY <1>1 DEF IInv, OriginalsInv
<1>3. TypeOK'
  BY <1>1, <1>2 DEF IInv, TypeOK, Steps
<1>4. PlanInv'
  BY <1>1 DEF PlanInv, Running
<1>5. OriginalsInv'
  BY <1>1, <1>2 DEF OriginalsInv, Running
<1>6. CleanInv' /\ UntouchedInv'
  BY DEF IInv, CleanInv, UntouchedInv, Touched
<1>7. CommitInv' /\ VerifiedInv' /\ VerdictInv'
  BY DEF IInv, CommitInv, BeforeBarrier, BehindBarrier, VerifiedInv, VerdictInv
<1>8. QED
  BY <1>3, <1>4, <1>5, <1>6, <1>7 DEF IInv

\* Before the first write the device is as it was.
LEMMA PrecheckFailsPreserves == IInv /\ PrecheckFails => IInv'
<1> SUFFICES ASSUME IInv, PrecheckFails PROVE IInv'
  OBVIOUS
<1> USE DEF PrecheckFails, Return
<1>1. TypeOK'
  BY DEF IInv, TypeOK, Steps
<1>2. PlanInv' /\ OriginalsInv' /\ CleanInv' /\ UntouchedInv'
  BY DEF IInv, PlanInv, Running, OriginalsInv, CleanInv, UntouchedInv, Touched
<1>3. CommitInv' /\ VerifiedInv' /\ VerdictInv'
  BY DEF IInv, CleanInv, CommitInv, BeforeBarrier, BehindBarrier, VerifiedInv, VerdictInv
<1>4. QED
  BY <1>1, <1>2, <1>3 DEF IInv

LEMMA InitialSyncPreserves == IInv /\ InitialSync => IInv'
<1> SUFFICES ASSUME IInv, InitialSync PROVE IInv'
  OBVIOUS
<1> USE DEF InitialSync, SyncThen, Goto, WriteStep
<1>1. /\ Valid(writes) /\ writes \in Plans /\ Len(writes) \in Nat \ {0}
      /\ view = Old /\ medium = Old /\ 0 \in Sectors /\ 0 \in Touched
      /\ medium \in [Sectors -> Content]
  BY PlanFacts, ValidFacts DEF IInv, TypeOK, PlanInv, Running, CleanInv
<1>2. /\ view' = medium' /\ medium' \in [Sectors -> Content]
      /\ \A l \in Sectors : medium'[l] = Old[l]
  BY <1>1, FlushFacts DEF IInv
<1>3. view' = Old /\ medium' = Old
  BY <1>1, <1>2
<1>4. TypeOK'
  BY <1>1, <1>2 DEF IInv, TypeOK, Steps
<1>5. PlanInv' /\ OriginalsInv'
  BY <1>1 DEF IInv, PlanInv, Running, OriginalsInv
<1>6. CleanInv' /\ UntouchedInv'
  BY <1>3 DEF CleanInv, UntouchedInv
<1>7. CommitInv' /\ VerifiedInv' /\ VerdictInv'
  BY <1>3 DEF IInv, CommitInv, BeforeBarrier, BehindBarrier, VerifiedInv, VerdictInv
<1>8. QED
  BY <1>4, <1>5, <1>6, <1>7 DEF IInv

\* The sync before the MBR: whatever it damages, nothing stays in the cache.
LEMMA BarrierPreserves == IInv /\ Barrier => IInv'
<1> SUFFICES ASSUME IInv, Barrier PROVE IInv'
  OBVIOUS
<1> USE DEF Barrier, SyncThen, Goto
<1>1. /\ Valid(writes) /\ writes \in Plans /\ index = Len(writes)
      /\ Len(writes) \in Nat \ {0} /\ Touched \subseteq Sectors
  BY PlanFacts, ValidFacts DEF IInv, TypeOK, PlanInv, Running
<1>2. /\ view' = medium' /\ medium' \in [Sectors -> Content]
      /\ \A l \in Sectors : medium'[l] \in {view[l], Torn}
      /\ \A l \in Sectors \ Touched : medium'[l] = Old[l]
  BY FlushFacts DEF IInv
<1>3. \A l \in Touched \ {0} : view[l] = New[l]
  <2> SUFFICES ASSUME NEW l \in Touched \ {0} PROVE view[l] = New[l]
    OBVIOUS
  <2>1. PICK i \in 1..Len(writes) : writes[i] = l
    BY <1>1, ValidFacts
  <2>2. i \in 1..(index - 1)
    BY <1>1, <2>1, ValidFacts
  <2>3. QED
    BY <2>1, <2>2 DEF IInv, CommitInv, BeforeBarrier
<1>4. TypeOK'
  BY <1>2 DEF IInv, TypeOK, Steps
<1>5. PlanInv' /\ OriginalsInv' /\ CleanInv' /\ UntouchedInv'
  BY <1>1, <1>2 DEF IInv, PlanInv, Running, OriginalsInv, CleanInv, UntouchedInv, Touched
<1>6. CommitInv'
  BY <1>1, <1>2, <1>3 DEF CommitInv, BeforeBarrier, BehindBarrier, Touched
<1>7. VerifiedInv' /\ VerdictInv'
  BY DEF IInv, VerifiedInv, VerdictInv
<1>8. QED
  BY <1>4, <1>5, <1>6, <1>7 DEF IInv

\* Behind the barrier only the MBR can be dirty: the final sync can damage no
\* other block.
LEMMA FinalSyncPreserves == IInv /\ FinalSync => IInv'
<1> SUFFICES ASSUME IInv, FinalSync PROVE IInv'
  OBVIOUS
<1> USE DEF FinalSync, SyncThen, Goto
<1>1. Valid(writes) /\ Len(writes) \in Nat \ {0} /\ Touched \subseteq Sectors
  BY PlanFacts, ValidFacts DEF IInv, TypeOK, PlanInv, Running
<1>2. /\ view' = medium' /\ medium' \in [Sectors -> Content]
      /\ \A l \in Sectors : view[l] = medium[l] => medium'[l] = medium[l]
      /\ \A l \in Sectors \ Touched : medium'[l] = Old[l]
  BY FlushFacts DEF IInv
<1>3. TypeOK'
  BY <1>2 DEF IInv, TypeOK, Steps
<1>4. PlanInv' /\ OriginalsInv' /\ CleanInv' /\ UntouchedInv'
  BY <1>1, <1>2 DEF IInv, PlanInv, Running, OriginalsInv, CleanInv, UntouchedInv, Touched
<1>5. CommitInv'
  BY <1>1, <1>2 DEF IInv, CommitInv, BeforeBarrier, BehindBarrier, Touched
<1>6. VerifiedInv' /\ VerdictInv'
  BY <1>2 DEF IInv, VerifiedInv, VerdictInv
<1>7. QED
  BY <1>3, <1>4, <1>5, <1>6 DEF IInv

\* What both steps that may write a planned block know of it.
LEMMA WriteFacts ==
  ASSUME IInv, pc \in {"Write", "WriteMbr"},
         Lands(writes[index], New[writes[index]])
  PROVE  /\ view' \in [Sectors -> Content]
         /\ writes[index] \in Touched
         /\ \A k \in Sectors \ {writes[index]} : view'[k] = view[k]
<1>1. writes[index] \in Touched /\ writes[index] \in Sectors
  BY PlanFacts, ValidFacts DEF IInv, TypeOK, PlanInv, Running
<1>2. New[writes[index]] \in Content
  BY <1>1, NativeAssumption
<1>3. QED
  BY <1>1, <1>2, LandsFacts DEF IInv

LEMMA WriteBlockPreserves == IInv /\ WriteBlock => IInv'
<1> SUFFICES ASSUME IInv, WriteBlock PROVE IInv'
  OBVIOUS
<1> USE DEF WriteBlock, Goto
<1>1. /\ Valid(writes) /\ writes \in Plans /\ index \in 1..Len(writes)
      /\ Len(writes) \in Nat \ {0} /\ 0 \in Touched /\ Touched \subseteq Sectors
  BY PlanFacts, ValidFacts DEF IInv, TypeOK, PlanInv, Running
<1>2. /\ view' \in [Sectors -> Content]
      /\ writes[index] \in Touched
      /\ \A k \in Sectors \ {writes[index]} : view'[k] = view[k]
  BY WriteFacts
<1>3. TypeOK'
  BY <1>2 DEF IInv, TypeOK, Steps
<1>4. PlanInv' /\ OriginalsInv' /\ CleanInv' /\ UntouchedInv'
  BY <1>2 DEF IInv, PlanInv, Running, OriginalsInv, CleanInv, UntouchedInv, Touched
<1>5. CASE pc = "Write"
  <2>1. index < Len(writes) /\ BeforeBarrier
    BY <1>5 DEF IInv, PlanInv, BeforeBarrier
  <2>2. writes[index] # 0
    BY <1>1, <2>1, ValidFacts
  <2>3. view'[0] = Old[0] /\ medium'[0] = Old[0]
    BY <1>1, <1>2, <2>1, <2>2 DEF IInv, CommitInv
  <2>4. \A i \in 1..(index - 1) : view'[writes[i]] = New[writes[i]]
    <3> SUFFICES ASSUME NEW i \in 1..(index - 1) PROVE view'[writes[i]] = New[writes[i]]
      OBVIOUS
    <3>1. i \in 1..Len(writes) /\ i # index
      BY <1>1
    <3>2. writes[i] \in Sectors \ {writes[index]}
      BY <1>1, <3>1, ValidFacts
    <3>3. QED
      BY <1>2, <2>1, <3>2 DEF IInv, CommitInv
  <2>5. CommitInv'
    BY <1>1, <2>1, <2>3, <2>4 DEF CommitInv, BeforeBarrier, BehindBarrier
  <2>6. VerifiedInv' /\ VerdictInv'
    BY <1>5 DEF IInv, VerifiedInv, VerdictInv
  <2>7. QED
    BY <1>3, <1>4, <2>5, <2>6 DEF IInv
<1>6. CASE pc = "WriteMbr"
  <2>1. index = Len(writes) /\ writes[index] = 0 /\ BehindBarrier
    BY <1>1, <1>6, ValidFacts DEF IInv, PlanInv, BehindBarrier
  <2>2. \A l \in Touched \ {0} : view'[l] = medium'[l] /\ medium'[l] \in {New[l], Torn}
    BY <1>1, <1>2, <2>1 DEF IInv, CommitInv
  <2>3. CommitInv'
    BY <1>1, <2>1, <2>2 DEF CommitInv, BeforeBarrier, BehindBarrier, Touched
  <2>4. VerifiedInv' /\ VerdictInv'
    BY <1>6 DEF IInv, VerifiedInv, VerdictInv
  <2>5. QED
    BY <1>3, <1>4, <2>3, <2>4 DEF IInv
<1>7. QED
  BY <1>5, <1>6

LEMMA CheckBlockPreserves == IInv /\ CheckBlock => IInv'
<1> SUFFICES ASSUME IInv, CheckBlock PROVE IInv'
  OBVIOUS
<1> USE DEF CheckBlock, Goto, WriteStep
<1>1. Valid(writes) /\ index \in 1..Len(writes) /\ Len(writes) \in Nat \ {0}
  BY PlanFacts, ValidFacts DEF IInv, TypeOK, PlanInv, Running
<1>2. TypeOK'
  BY <1>1 DEF IInv, TypeOK, Steps
<1>3. PlanInv'
  BY <1>1 DEF IInv, PlanInv, Running
<1>4. OriginalsInv' /\ CleanInv' /\ UntouchedInv'
  BY DEF IInv, OriginalsInv, Running, CleanInv, UntouchedInv, Touched
<1>5. CommitInv'
  <2>1. CASE index < Len(writes)
    <3>1. /\ BeforeBarrier
          /\ index' = index + 1 /\ pc' \in {"Write", "Barrier"}
          /\ \A i \in 1..(index' - 1) : i = index \/ i \in 1..(index - 1)
      BY <1>1, <2>1 DEF BeforeBarrier
    <3>2. QED
      BY <3>1 DEF IInv, CommitInv, BeforeBarrier, BehindBarrier
  <2>2. CASE index = Len(writes)
    <3>1. BehindBarrier /\ pc' = "FinalSync"
      BY <1>1, <2>2 DEF BehindBarrier
    <3>2. QED
      BY <3>1 DEF IInv, CommitInv, BeforeBarrier, BehindBarrier, Touched
  <2>3. QED
    BY <1>1, <2>1, <2>2
<1>6. VerifiedInv' /\ VerdictInv'
  BY <1>1 DEF IInv, VerifiedInv, VerdictInv
<1>7. QED
  BY <1>2, <1>3, <1>4, <1>5, <1>6 DEF IInv

\* The last comparison decides: every planned block was compared on the medium.
LEMMA VerifyPreserves == IInv /\ Verify => IInv'
<1> SUFFICES ASSUME IInv, Verify PROVE IInv'
  OBVIOUS
<1> USE DEF Verify, Goto, Return
<1>1. /\ Valid(writes) /\ writes \in Plans /\ index \in 1..Len(writes)
      /\ Len(writes) \in Nat \ {0} /\ view = medium /\ result = "Pending"
      /\ \A i \in 1..index : view[writes[i]] = New[writes[i]]
  BY PlanFacts, ValidFacts
     DEF IInv, TypeOK, PlanInv, Running, VerifiedInv, VerdictInv
<1>2. TypeOK'
  BY <1>1 DEF IInv, TypeOK, Steps
<1>3. PlanInv' /\ OriginalsInv' /\ CleanInv' /\ UntouchedInv'
  BY <1>1 DEF IInv, PlanInv, Running, OriginalsInv, CleanInv, UntouchedInv, Touched
<1>4. CommitInv'
  BY <1>1 DEF IInv, CommitInv, BeforeBarrier, BehindBarrier, Touched
<1>5. VerifiedInv'
  BY <1>1 DEF VerifiedInv
<1>6. VerdictInv'
  <2>1. CASE index < Len(writes)
    BY <1>1, <2>1 DEF IInv, VerdictInv
  <2>2. CASE index = Len(writes)
    <3>1. \A l \in Touched : medium[l] = New[l]
      BY <1>1, <2>2, ValidFacts
    <3>2. Touched' = Touched
      BY DEF Touched
    <3>3. QED
      BY <1>1, <2>2, <3>1, <3>2 DEF VerdictInv
  <2>3. QED
    BY <1>1, <2>1, <2>2
<1>7. QED
  BY <1>2, <1>3, <1>4, <1>5, <1>6 DEF IInv

LEMMA ForwardFailsPreserves == IInv /\ ForwardFails => IInv'
<1> SUFFICES ASSUME IInv, ForwardFails PROVE IInv'
  OBVIOUS
<1> USE DEF ForwardFails, Goto
<1>1. Valid(writes) /\ Len(writes) \in Nat \ {0} /\ Touched \subseteq Sectors
  BY PlanFacts, ValidFacts DEF IInv, TypeOK, PlanInv, Running
<1>2. /\ view' \in [Sectors -> Content]
      /\ \A l \in Sectors \ Touched : view'[l] = view[l]
  BY WriteFacts DEF IInv, TypeOK
<1>3. TypeOK'
  BY <1>1, <1>2 DEF IInv, TypeOK, Steps
<1>4. PlanInv' /\ OriginalsInv' /\ CleanInv' /\ UntouchedInv'
  BY <1>1, <1>2 DEF IInv, PlanInv, Running, OriginalsInv, CleanInv, UntouchedInv, Touched
<1>5. CommitInv' /\ VerifiedInv' /\ VerdictInv'
  BY DEF IInv, CommitInv, BeforeBarrier, BehindBarrier, VerifiedInv, VerdictInv
<1>6. QED
  BY <1>3, <1>4, <1>5 DEF IInv
-----------------------------------------------------------------------------
\* What the rollback's loops know: the mirror is complete.
LEMMA UndoFacts ==
  ASSUME IInv, pc \in {"Undo", "UndoSync", "UndoVerify"}
  PROVE  /\ Valid(writes) /\ writes \in Plans /\ index \in 1..Len(writes)
         /\ Len(writes) \in Nat \ {0} /\ Touched \subseteq Sectors
         /\ writes[index] \in Touched
         /\ originals[index] = Old[writes[index]]
         /\ originals[index] \in Content
  BY PlanFacts, ValidFacts, NativeAssumption
     DEF IInv, TypeOK, PlanInv, Running, OriginalsInv

LEMMA UndoBlockPreserves == IInv /\ UndoBlock => IInv'
<1> SUFFICES ASSUME IInv, UndoBlock PROVE IInv'
  OBVIOUS
<1> USE DEF UndoBlock, Goto
<1>1. /\ Valid(writes) /\ index \in 1..Len(writes) /\ Len(writes) \in Nat \ {0}
      /\ Touched \subseteq Sectors /\ writes[index] \in Touched
      /\ view' \in [Sectors -> Content]
      /\ \A k \in Sectors \ {writes[index]} : view'[k] = view[k]
  BY UndoFacts, LandsFacts DEF IInv
<1>2. TypeOK'
  BY <1>1 DEF IInv, TypeOK, Steps
<1>3. PlanInv' /\ OriginalsInv' /\ CleanInv' /\ UntouchedInv'
  BY <1>1 DEF IInv, PlanInv, Running, OriginalsInv, CleanInv, UntouchedInv, Touched
<1>4. CommitInv' /\ VerifiedInv' /\ VerdictInv'
  BY DEF IInv, CommitInv, BeforeBarrier, BehindBarrier, VerifiedInv, VerdictInv
<1>5. QED
  BY <1>2, <1>3, <1>4 DEF IInv

LEMMA UndoSyncPreserves == IInv /\ UndoSync => IInv'
<1> SUFFICES ASSUME IInv, UndoSync PROVE IInv'
  OBVIOUS
<1> USE DEF UndoSync, Goto
<1>1. Valid(writes) /\ Len(writes) \in Nat \ {0} /\ Touched \subseteq Sectors
  BY UndoFacts
<1>2. /\ view' \in [Sectors -> Content] /\ medium' \in [Sectors -> Content]
      /\ \A l \in Sectors \ Touched : view'[l] = Old[l] /\ medium'[l] = Old[l]
      /\ undo' \in {"clean", "damaged"}
      /\ undo' = "clean" => view' = medium'
  <2>1. CASE Flush /\ UNCHANGED undo
    BY <2>1, FlushFacts DEF IInv, TypeOK
  <2>2. CASE undo' = "damaged" /\ UNCHANGED <<view, medium>>
    BY <2>2 DEF IInv, TypeOK, UntouchedInv
  <2>3. QED
    BY <2>1, <2>2
<1>3. TypeOK'
  BY <1>2 DEF IInv, TypeOK, Steps
<1>4. PlanInv' /\ OriginalsInv' /\ CleanInv' /\ UntouchedInv'
  BY <1>1, <1>2 DEF IInv, PlanInv, Running, OriginalsInv, CleanInv, UntouchedInv, Touched
<1>5. CommitInv' /\ VerifiedInv' /\ VerdictInv'
  BY <1>2 DEF IInv, CommitInv, BeforeBarrier, BehindBarrier, VerifiedInv, VerdictInv
<1>6. QED
  BY <1>3, <1>4, <1>5 DEF IInv

\* A clean rollback has found every old block on the medium itself.
LEMMA UndoVerifyPreserves == IInv /\ UndoVerify => IInv'
<1> SUFFICES ASSUME IInv, UndoVerify PROVE IInv'
  OBVIOUS
<1> USE DEF UndoVerify, Goto, Return
<1>1. /\ Valid(writes) /\ writes \in Plans /\ index \in 1..Len(writes)
      /\ Len(writes) \in Nat \ {0} /\ result = "Pending"
      /\ undo \in {"clean", "damaged"} /\ undo' \in {"clean", "damaged"}
  BY UndoFacts DEF IInv, TypeOK, VerdictInv
<1>2. undo' = "clean" =>
        /\ view = medium
        /\ \A i \in 1..index : view[writes[i]] = Old[writes[i]]
  <2> SUFFICES ASSUME undo' = "clean"
               PROVE  /\ view = medium
                      /\ \A i \in 1..index : view[writes[i]] = Old[writes[i]]
    OBVIOUS
  <2>1. undo = "clean" /\ view[writes[index]] = Old[writes[index]]
    BY <1>1, UndoFacts
  <2>2. /\ view = medium
        /\ \A i \in 1..(index - 1) : view[writes[i]] = Old[writes[i]]
    BY <2>1 DEF IInv, VerifiedInv
  <2>3. QED
    BY <1>1, <2>1, <2>2
<1>3. TypeOK'
  BY <1>1 DEF IInv, TypeOK, Steps
<1>4. PlanInv' /\ OriginalsInv' /\ CleanInv' /\ UntouchedInv'
  BY <1>1 DEF IInv, PlanInv, Running, OriginalsInv, CleanInv, UntouchedInv, Touched
<1>5. CommitInv'
  BY DEF IInv, CommitInv, BeforeBarrier, BehindBarrier
<1>6. VerifiedInv'
  BY <1>1, <1>2 DEF VerifiedInv
<1>7. VerdictInv'
  <2>1. CASE index < Len(writes)
    BY <1>1, <2>1 DEF IInv, VerdictInv
  <2>2. CASE index = Len(writes) /\ undo' = "clean"
    <3>1. \A l \in Touched : view[l] = Old[l]
      BY <1>1, <1>2, <2>2, ValidFacts
    <3>2. \A l \in Sectors : view[l] = Old[l]
      BY <3>1 DEF IInv, UntouchedInv
    <3>3. view \in [Sectors -> Content \union {Torn}] /\ Old \in [Sectors -> Content]
      BY NativeAssumption DEF IInv, TypeOK
    <3>4. view = Old
      BY <3>2, <3>3
    <3>5. medium = Old
      BY <1>2, <2>2, <3>4
    <3>6. QED
      BY <1>1, <2>2, <3>4, <3>5 DEF VerdictInv
  <2>3. CASE index = Len(writes) /\ undo' = "damaged"
    BY <1>1, <2>3 DEF VerdictInv
  <2>4. QED
    BY <1>1, <2>1, <2>2, <2>3
<1>8. QED
  BY <1>3, <1>4, <1>5, <1>6, <1>7 DEF IInv
-----------------------------------------------------------------------------
\* Only a dirty block can be evicted: never the MBR before the barrier, nor
\* another block behind it.
LEMMA EvictPreserves ==
  ASSUME IInv, NEW e \in Sectors, Evict(e)
  PROVE  IInv'
<1> USE DEF Evict
<1>1. TypeOK'
  BY DEF IInv, TypeOK
<1>2. e \in Touched
  BY DEF IInv, UntouchedInv
<1>3. PlanInv' /\ OriginalsInv' /\ CleanInv' /\ UntouchedInv'
  BY <1>2 DEF IInv, TypeOK, PlanInv, Running, OriginalsInv, CleanInv, UntouchedInv, Touched
<1>4. CommitInv'
  <2>1. BeforeBarrier => medium'[0] = Old[0]
    BY DEF IInv, TypeOK, CommitInv
  <2>2. BehindBarrier => \A l \in Touched \ {0} : medium'[l] = medium[l]
    BY DEF IInv, TypeOK, CommitInv
  <2>3. QED
    BY <2>1, <2>2 DEF IInv, CommitInv, BeforeBarrier, BehindBarrier, Touched
<1>5. VerifiedInv' /\ VerdictInv'
  BY DEF IInv, VerifiedInv, VerdictInv
<1>6. QED
  BY <1>1, <1>3, <1>4, <1>5 DEF IInv

LEMMA PowerLossPreserves == IInv /\ PowerLoss => IInv'
<1> SUFFICES ASSUME IInv, PowerLoss PROVE IInv'
  OBVIOUS
<1> USE DEF PowerLoss
<1>1. TypeOK'
  BY DEF IInv, TypeOK, Steps
<1>2. PlanInv' /\ OriginalsInv' /\ CleanInv' /\ UntouchedInv'
  BY DEF IInv, PlanInv, Running, OriginalsInv, CleanInv, UntouchedInv, Touched
<1>3. CommitInv' /\ VerifiedInv' /\ VerdictInv'
  BY DEF IInv, CommitInv, BeforeBarrier, BehindBarrier, VerifiedInv, VerdictInv
<1>4. QED
  BY <1>1, <1>2, <1>3 DEF IInv

LEMMA StutterPreserves == IInv /\ UNCHANGED vars => IInv'
<1> SUFFICES ASSUME IInv, UNCHANGED vars PROVE IInv'
  OBVIOUS
<1> USE DEF vars
<1>1. TypeOK' /\ PlanInv' /\ OriginalsInv'
  BY DEF IInv, TypeOK, PlanInv, Running, Valid, OriginalsInv
<1>2. CleanInv' /\ UntouchedInv'
  BY DEF IInv, CleanInv, UntouchedInv, Touched
<1>3. CommitInv' /\ VerifiedInv' /\ VerdictInv'
  BY DEF IInv, CommitInv, BeforeBarrier, BehindBarrier, VerifiedInv, VerdictInv, Touched
<1>4. QED
  BY <1>1, <1>2, <1>3 DEF IInv

LEMMA NextPreserves == IInv /\ [Next]_vars => IInv'
<1> SUFFICES ASSUME IInv, [Next]_vars PROVE IInv'
  OBVIOUS
<1>1. CASE Validate
  BY <1>1, ValidatePreserves
<1>2. CASE Snapshot
  BY <1>2, SnapshotPreserves
<1>3. CASE PrecheckFails
  BY <1>3, PrecheckFailsPreserves
<1>4. CASE InitialSync
  BY <1>4, InitialSyncPreserves
<1>5. CASE Barrier
  BY <1>5, BarrierPreserves
<1>6. CASE WriteBlock
  BY <1>6, WriteBlockPreserves
<1>7. CASE CheckBlock
  BY <1>7, CheckBlockPreserves
<1>8. CASE FinalSync
  BY <1>8, FinalSyncPreserves
<1>9. CASE Verify
  BY <1>9, VerifyPreserves
<1>10. CASE ForwardFails
  BY <1>10, ForwardFailsPreserves
<1>11. CASE UndoBlock
  BY <1>11, UndoBlockPreserves
<1>12. CASE UndoSync
  BY <1>12, UndoSyncPreserves
<1>13. CASE UndoVerify
  BY <1>13, UndoVerifyPreserves
<1>14. CASE PowerLoss
  BY <1>14, PowerLossPreserves
<1>15. ASSUME NEW e \in Sectors, Evict(e) PROVE IInv'
  BY <1>15, EvictPreserves
<1>16. CASE UNCHANGED vars
  BY <1>16, StutterPreserves
<1>17. QED
  BY <1>1, <1>2, <1>3, <1>4, <1>5, <1>6, <1>7, <1>8, <1>9, <1>10, <1>11, <1>12,
     <1>13, <1>14, <1>15, <1>16 DEF Next, Step

\* Where every loop stands, what the mirror holds, what is left in the cache.
THEOREM Invariance == Spec => []IInv
<1>1. QED
  BY InitEstablishes, NextPreserves, PTL DEF Spec

(***************************************************************************)
(* The sync before the last write makes the MBR a commit record: until a   *)
(* rollback begins, whenever a changed MBR is on the medium, every other   *)
(* planned block is there, too (execute_native_transaction's barrier), for *)
(* every plan and every order in which the device empties its cache.       *)
(***************************************************************************)
THEOREM MbrIsCommitRecord == Spec => []MbrCommitsDurableData
<1>1. IInv => MbrCommitsDurableData
  <2> SUFFICES ASSUME IInv, 0 \in Touched,
                      pc \notin {"Undo", "UndoSync", "UndoVerify", "Done", "Crashed"},
                      medium[0] # Old[0]
               PROVE  BehindBarrier
    BY DEF IInv, CommitInv, MbrCommitsDurableData
  <2>1. pc \notin {"Validate", "Snapshot", "InitialSync"}
    BY DEF IInv, CleanInv
  <2>2. ~BeforeBarrier
    BY DEF IInv, CommitInv
  <2>3. QED
    BY <2>1, <2>2, PlanFacts
       DEF IInv, TypeOK, Steps, PlanInv, Running, BeforeBarrier, BehindBarrier
<1>2. QED
  BY <1>1, Invariance, PTL
-----------------------------------------------------------------------------
(***************************************************************************)
(* The verdict can be relied on: rollback_verified means that the medium   *)
(* is what it was, success that every planned block is on it, and no other *)
(* block ever changes: the native transaction implements MediaContract.    *)
(***************************************************************************)
THEOREM NativeHonoursContract == Spec => ContractSpec
<1>1. Init => Contract!Init
  <2> SUFFICES ASSUME Init PROVE Contract!Init
    OBVIOUS
  <2>1. Touched \in SUBSET Sectors
    BY PlanFacts DEF Init
  <2>2. QED
    BY <2>1 DEF Init, Contract!Init
<1>2. ASSUME IInv, IInv', [Next]_vars
      PROVE  [Contract!Next]_(Contract!vars)
  <2>1. Touched' = Touched
    BY <1>2 DEF Next, Step, vars, Validate, Snapshot, PrecheckFails, InitialSync,
       Barrier, FinalSync, SyncThen, WriteBlock, CheckBlock, Verify, ForwardFails,
       UndoBlock, UndoSync, UndoVerify, PowerLoss, Evict, Touched
  <2>2. Contract!OnlyTouchedMayChange
    <3>1. \A l \in Sectors \ Touched : medium'[l] = medium[l]
      BY <1>2, <2>1 DEF IInv, UntouchedInv
    <3>2. medium' \in [Sectors -> Content]
      BY <1>2 DEF IInv, TypeOK
    <3>3. QED
      BY <3>1, <3>2 DEF Contract!OnlyTouchedMayChange
  <2>3. result \in Contract!Verdicts /\ result' \in Contract!Verdicts
    BY <1>2 DEF IInv, TypeOK, Contract!Verdicts
  <2>4. CASE result = "Pending" /\ result' = "Pending"
    BY <2>1, <2>2, <2>4 DEF Contract!Next, Contract!Disturb
  <2>5. CASE result = "Pending" /\ result' # "Pending"
    <3>1. Contract!Truthful(result', medium')
      BY <1>2, <2>1 DEF IInv, VerdictInv, Contract!Truthful
    <3>2. QED
      BY <2>1, <2>2, <2>3, <2>5, <3>1 DEF Contract!Next, Contract!Report
  <2>6. CASE result # "Pending"
    <3>1. pc = "Done"
      BY <1>2, <2>6 DEF IInv, VerdictInv
    <3>2. UNCHANGED vars \/ \E e \in Sectors : Evict(e)
      BY <1>2, <3>1 DEF Next, Step, Validate, Snapshot, PrecheckFails, InitialSync,
         Barrier, FinalSync, SyncThen, WriteBlock, CheckBlock, Verify, ForwardFails,
         UndoBlock, UndoSync, UndoVerify, PowerLoss
    <3>3. result' = result
      BY <3>2 DEF vars, Evict
    <3>4. CASE result = "Intermediate"
      BY <2>1, <2>2, <3>3, <3>4 DEF Contract!Next, Contract!Disturb
    <3>5. CASE result # "Intermediate"
      <4>1. view = medium
        BY <1>2, <2>3, <2>6, <3>5 DEF IInv, VerdictInv, Contract!Verdicts
      <4>2. medium' = medium
        BY <3>2, <4>1 DEF vars, Evict
      <4>3. QED
        BY <2>1, <3>3, <4>2 DEF Contract!vars
    <3>6. QED
      BY <3>4, <3>5
  <2>7. QED
    BY <2>4, <2>5, <2>6
<1>3. QED
  BY <1>1, <1>2, Invariance, PTL DEF Spec, ContractSpec, Contract!Spec
=============================================================================
