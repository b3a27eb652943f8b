------------------------- MODULE NativeTransaction -------------------------
(***************************************************************************)
(* The native-block transaction (src/src/diskio/native_transaction.rs):    *)
(* every block is read back right after its write, a sync separates the    *)
(* last write (the MBR, block 0) from the others, everything is verified   *)
(* again after the final sync, and a failure is answered by one rollback   *)
(* in reverse order that carries on over its own errors.                   *)
(*                                                                         *)
(* The device has a volatile cache, as in SectorTransaction; here a sync   *)
(* may also lose a block it reports as written (deferred corruption).      *)
(***************************************************************************)
EXTENDS Integers, Sequences

CONSTANTS
  Sectors,    \* the blocks of the target
  Content,    \* what a block can hold
  Old,        \* the content of each block before the call
  New,        \* the planned content of each block
  Torn,       \* the content of a damaged block
  Plans,      \* sequences of block numbers, well-formed or not
  MaxMirror   \* the blocks the 128 MiB mirror budget allows

ASSUME NativeAssumption ==
  /\ Sectors \subseteq Nat
  /\ Torn \in Content
  /\ Old \in [Sectors -> Content]
  /\ New \in [Sectors -> Content]
  /\ MaxMirror \in Nat
  /\ Plans \subseteq Seq(Nat)

VARIABLES
  writes,     \* plan.writes
  pc,         \* the step the call is at
  index,      \* where the running loop stands
  originals,  \* the old blocks, parallel to writes
  undo,       \* rollback's `good`: "clean" until one of its steps fails
  view,       \* what a read returns
  medium,     \* what the medium holds
  result      \* the verdict, "Pending" until the call returns

vars == <<writes, pc, index, originals, undo, view, medium, result>>

Touched == {writes[i] : i \in 1..Len(writes)} \cap Sectors

\* The geometry, ownership and budget checks made before any I/O.
Valid(w) ==
  /\ w # << >>
  /\ w[Len(w)] = 0
  /\ \A i \in 1..Len(w) : w[i] \in Sectors
  /\ \A i, j \in 1..Len(w) : w[i] = w[j] => i = j
  /\ Len(w) <= MaxMirror

Goto(step, i) == pc' = step /\ index' = i

Return(verdict) == pc' = "Done" /\ result' = verdict /\ index' = index

\* Wrong variant, to test MbrCommitsDurableData: no sync before the MBR.
WriteStepUnsynced(i) == IF i = Len(writes) THEN "WriteMbr" ELSE "Write"

\* The block that ends the plan is written behind a sync of the others.
WriteStep(i) == IF i = Len(writes) THEN "Barrier" ELSE "Write"
-----------------------------------------------------------------------------
Init ==
  /\ writes \in Plans
  /\ pc = "Validate"
  /\ index = 1
  /\ originals = << >>
  /\ undo = "clean"
  /\ view = Old
  /\ medium = Old
  /\ result = "Pending"

Validate ==
  /\ pc = "Validate"
  /\ \/ Valid(writes) /\ Goto("Snapshot", 1) /\ UNCHANGED result
     \/ ~Valid(writes) /\ Return("Refused")
  /\ UNCHANGED <<writes, originals, undo, view, medium>>

Snapshot ==
  /\ pc = "Snapshot"
  /\ originals' = Append(originals, view[writes[index]])
  /\ IF index < Len(writes) THEN Goto("Snapshot", index + 1)
                            ELSE Goto("InitialSync", 1)
  /\ UNCHANGED <<writes, undo, view, medium, result>>

\* A read or the sync fails before the first write.
PrecheckFails ==
  /\ pc \in {"Snapshot", "InitialSync"}
  /\ Return("Refused")
  /\ UNCHANGED <<writes, originals, undo, view, medium>>

\* A sync writes every cached block, or loses some of the dirty ones: those
\* are damaged from then on.
Flush ==
  \E lost \in SUBSET {l \in Touched : view[l] # medium[l]} :
    /\ medium' = [l \in Sectors |-> IF l \in lost THEN Torn ELSE view[l]]
    /\ view' = medium'

SyncThen(step, next, i) ==
  /\ pc = step
  /\ Flush
  /\ Goto(next, i)
  /\ UNCHANGED <<writes, originals, undo, result>>

InitialSync == SyncThen("InitialSync", WriteStep(1), 1)
Barrier     == SyncThen("Barrier", "WriteMbr", index)
FinalSync   == SyncThen("FinalSync", "Verify", 1)

\* What a write leaves in its block: the old content, the new one, or neither.
Lands(l, content) ==
  \E c \in {view[l], content, Torn} : view' = [view EXCEPT ![l] = c]

WriteBlock ==
  /\ pc \in {"Write", "WriteMbr"}
  /\ Lands(writes[index], New[writes[index]])
  /\ Goto("Check", index)
  /\ UNCHANGED <<writes, originals, undo, medium, result>>

CheckBlock ==
  /\ pc = "Check"
  /\ view[writes[index]] = New[writes[index]]
  /\ IF index < Len(writes) THEN Goto(WriteStep(index + 1), index + 1)
                            ELSE Goto("FinalSync", 1)
  /\ UNCHANGED <<writes, originals, undo, view, medium, result>>

Verify ==
  /\ pc = "Verify"
  /\ view[writes[index]] = New[writes[index]]
  /\ IF index < Len(writes) THEN Goto("Verify", index + 1) /\ UNCHANGED result
                            ELSE Return("Ok")
  /\ UNCHANGED <<writes, originals, undo, view, medium>>

\* Any error of the forward part: a failed sync or read, a difference, or a
\* write that may have changed its block.
ForwardFails ==
  /\ pc \in {"Barrier", "Write", "WriteMbr", "Check", "FinalSync", "Verify"}
  /\ \/ UNCHANGED view
     \/ /\ pc \in {"Write", "WriteMbr"}
        /\ Lands(writes[index], New[writes[index]])
  /\ Goto("Undo", Len(writes))
  /\ UNCHANGED <<writes, originals, undo, medium, result>>
-----------------------------------------------------------------------------
(***************************************************************************)
(* rollback: every block, last to first; an error is noted and passed.     *)
(***************************************************************************)
UndoBlock ==
  /\ pc = "Undo"
  /\ Lands(writes[index], originals[index])
  /\ undo' \in {undo, "damaged"}
  /\ IF index > 1 THEN Goto("Undo", index - 1) ELSE Goto("UndoSync", 1)
  /\ UNCHANGED <<writes, originals, medium, result>>

UndoSync ==
  /\ pc = "UndoSync"
  /\ \/ Flush /\ UNCHANGED undo
     \/ undo' = "damaged" /\ UNCHANGED <<view, medium>>
  /\ Goto("UndoVerify", 1)
  /\ UNCHANGED <<writes, originals, result>>

\* Wrong variant, to test ContractSpec: the last block read back decides
\* alone, whatever the earlier ones were.
UndoVerifyLastWins ==
  /\ pc = "UndoVerify"
  /\ \/ view[writes[index]] = originals[index] /\ undo' = "clean"
     \/ undo' = "damaged"
  /\ IF index < Len(writes)
     THEN Goto("UndoVerify", index + 1) /\ UNCHANGED result
     ELSE Return(IF undo' = "clean" THEN "RolledBack" ELSE "Intermediate")
  /\ UNCHANGED <<writes, originals, view, medium>>

UndoVerify ==
  /\ pc = "UndoVerify"
  /\ \/ view[writes[index]] = originals[index] /\ UNCHANGED undo
     \/ undo' = "damaged"
  /\ IF index < Len(writes)
     THEN Goto("UndoVerify", index + 1) /\ UNCHANGED result
     ELSE Return(IF undo' = "clean" THEN "RolledBack" ELSE "Intermediate")
  /\ UNCHANGED <<writes, originals, view, medium>>
-----------------------------------------------------------------------------
Evict(l) ==
  /\ pc # "Crashed"
  /\ view[l] # medium[l]
  /\ medium' = [medium EXCEPT ![l] = view[l]]
  /\ UNCHANGED <<writes, pc, index, originals, undo, view, result>>

PowerLoss ==
  /\ pc \notin {"Done", "Crashed"}
  /\ pc' = "Crashed"
  /\ view' = medium
  /\ UNCHANGED <<writes, index, originals, undo, medium, result>>

Step ==
  \/ Validate \/ Snapshot \/ PrecheckFails \/ InitialSync \/ Barrier
  \/ WriteBlock \/ CheckBlock \/ FinalSync \/ Verify \/ ForwardFails
  \/ UndoBlock \/ UndoSync \/ UndoVerify

Next == Step \/ PowerLoss \/ \E l \in Sectors : Evict(l)

\* One thread, and every device call returns.
Spec == Init /\ [][Next]_vars /\ WF_vars(Step)
-----------------------------------------------------------------------------
(***************************************************************************)
(* rollback_verified is "RolledBack", a failure without it "Intermediate", *)
(* an error before the first write "Refused": the same promise as the      *)
(* sector transaction's.                                                   *)
(***************************************************************************)
Contract == INSTANCE MediaContract WITH touched <- Touched, verdict <- result

ContractSpec == Contract!Spec

(***************************************************************************)
(* The sync before the last write makes the MBR a commit record even on a  *)
(* device that reorders its cache: until a rollback begins, whenever the   *)
(* medium holds a changed MBR (a power loss would keep it), no other block *)
(* of the plan is still in the cache: each was read back as written, and   *)
(* only the sync itself may have damaged it since.                         *)
(***************************************************************************)
MbrCommitsDurableData ==
  /\ 0 \in Touched
  /\ pc \notin {"Undo", "UndoSync", "UndoVerify", "Done", "Crashed"}
  /\ medium[0] # Old[0]
  => \A l \in Touched \ {0} : view[l] = medium[l] /\ medium[l] \in {New[l], Torn}
=============================================================================
