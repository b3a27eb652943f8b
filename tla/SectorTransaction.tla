------------------------- MODULE SectorTransaction -------------------------
(***************************************************************************)
(* The mirrored sector transaction (src/src/diskio/transaction.rs): sync   *)
(* the target, read every planned sector into a mirror, write the planned  *)
(* sectors in stage order, sync, read all of them back; on any failure     *)
(* write the mirror back the same way, up to three times.                  *)
(*                                                                         *)
(* The device is modelled with a volatile write cache in front of the      *)
(* medium: reads return the cached view, a sync pushes the view to the     *)
(* medium, and at any time the cache may push any one dirty sector.  A     *)
(* write may fail after it changed part of its batch, and a write that     *)
(* reports success may still have been lost or garbled: the reading back   *)
(* is the only evidence the executor has.                                  *)
(***************************************************************************)
EXTENDS Integers, Sequences

CONSTANTS
  Sectors,    \* the LBAs of the target
  Content,    \* what a sector can hold
  Old,        \* the content of each sector before the transaction
  New,        \* the planned content of each sector
  Torn,       \* the content of a half-written sector
  Plans,      \* the (order, readback) pairs the entry points can build
  MaxBatch    \* the device's max_contiguous_sectors, clamped to 1..128

\* A plan as execute_sector_transaction_observed receives it: two orders of
\* the same sectors, the second one strictly increasing, the MBR last in the
\* first one.
IsPlan(p) ==
  /\ p.order \in Seq(Sectors)
  /\ p.readback \in Seq(Sectors)
  /\ \A i \in 1..Len(p.order) :
        \E j \in 1..Len(p.readback) : p.readback[j] = p.order[i]
  /\ \A j \in 1..Len(p.readback) :
        \E i \in 1..Len(p.order) : p.order[i] = p.readback[j]
  /\ \A i, j \in 1..Len(p.readback) : i < j => p.readback[i] < p.readback[j]
  /\ \A i, j \in 1..Len(p.order) : p.order[i] = p.order[j] => i = j
  /\ \A i \in 1..Len(p.order) : p.order[i] = 0 => i = Len(p.order)
  /\ Len(p.readback) > 0

ASSUME TransactionAssumption ==
  /\ Sectors \subseteq Nat
  /\ Torn \in Content
  /\ Old \in [Sectors -> Content]
  /\ New \in [Sectors -> Content]
  /\ MaxBatch \in Nat \ {0}
  /\ \A p \in Plans : IsPlan(p)

VARIABLES
  plan,       \* the plan of this transaction
  pc,         \* the phase, as TransactionActivityPhase
  pass,       \* write_and_verify's flag: the "Forward" or a "Rollback" pass
  attempt,    \* rollback attempts that have failed
  index,      \* where the running loop stands in its order
  mirror,     \* the old bytes, parallel to plan.readback
  acked,      \* the sectors this pass has published as written
  view,       \* what a read of the device returns
  medium,     \* what the medium holds
  result      \* the verdict, "Pending" until the call returns

vars == <<plan, pc, pass, attempt, index, mirror, acked, view, medium,
          result>>

Touched == {plan.readback[i] : i \in 1..Len(plan.readback)}

\* contiguous_run: n sectors of s from i on, consecutive LBAs, and no more
\* of them only because the order, the batch or the LBAs' run ends there.
IsRun(s, i, n) ==
  /\ n \in 1..MaxBatch
  /\ i + n - 1 <= Len(s)
  /\ \A k \in 1..(n - 1) : s[i + k] = s[i + k - 1] + 1
  /\ n < MaxBatch /\ i + n <= Len(s) => s[i + n] # s[i + n - 1] + 1

Batch(s, i, n) == {s[k] : k \in i..(i + n - 1)}

\* The bytes a pass writes to a sector and expects to read back: the plan's
\* on the forward pass, the mirror's (by its place in the readback order) on
\* a rollback.
MirrorOf(l) ==
  mirror[CHOOSE i \in 1..Len(plan.readback) : plan.readback[i] = l]

Expected(l) == IF pass = "Rollback" THEN MirrorOf(l) ELSE New[l]
-----------------------------------------------------------------------------
Init ==
  /\ plan \in Plans
  /\ pc = "SyncPreflight"
  /\ pass = "Forward"
  /\ attempt = 0
  /\ index = 1
  /\ mirror = << >>
  /\ acked = {}
  /\ view = Old
  /\ medium = Old
  /\ result = "Pending"

Finish(verdict) ==
  /\ pc' = "Done"
  /\ result' = verdict
  /\ UNCHANGED <<pass, attempt, index, acked>>

\* write_and_verify starts over from the first sector of the write order.
BeginPass(p, failures) ==
  /\ pc' = "Write"
  /\ pass' = p
  /\ attempt' = failures
  /\ index' = 1
  /\ acked' = {}
  /\ UNCHANGED result

\* Wrong variant, to test Terminates: rollbacks without end.
PassFailsForEver == BeginPass("Rollback", 0)

\* An error of the forward pass starts the first rollback; an error of a
\* rollback starts the next one, but the third one's is final.
PassFails ==
  \/ /\ pass = "Forward"
     /\ BeginPass("Rollback", 0)
  \/ /\ pass = "Rollback"
     /\ attempt < 2
     /\ BeginPass("Rollback", attempt + 1)
  \/ /\ pass = "Rollback"
     /\ attempt = 2
     /\ Finish("Intermediate")

PassSucceeds == Finish(IF pass = "Rollback" THEN "RolledBack" ELSE "Ok")
-----------------------------------------------------------------------------
(***************************************************************************)
(* Before the first write: any error refuses the transaction.              *)
(***************************************************************************)
PreflightSync ==
  /\ pc = "SyncPreflight"
  /\ medium' = view
  /\ pc' = "Mirror"
  /\ index' = 1
  /\ UNCHANGED <<plan, pass, attempt, mirror, acked, view, result>>

\* The sync fails, or the mirror's memory cannot be reserved.
PreflightFails ==
  /\ pc = "SyncPreflight"
  /\ Finish("Refused")
  /\ UNCHANGED <<plan, mirror, view, medium>>

MirrorBatch ==
  /\ pc = "Mirror"
  /\ \E n \in 1..MaxBatch :
        /\ IsRun(plan.readback, index, n)
        /\ mirror' = mirror \o
              [k \in 1..n |-> view[plan.readback[index + k - 1]]]
        /\ IF index + n <= Len(plan.readback)
           THEN /\ index' = index + n
                /\ UNCHANGED <<pc, pass, attempt, acked, result>>
           ELSE BeginPass("Forward", 0)
  /\ UNCHANGED <<plan, view, medium>>

MirrorFails ==
  /\ pc = "Mirror"
  /\ Finish("Refused")
  /\ UNCHANGED <<plan, mirror, view, medium>>
-----------------------------------------------------------------------------
(***************************************************************************)
(* write_and_verify.  What a batch leaves in each of its sectors is the    *)
(* device's choice: the old bytes, the bytes sent, or a torn sector.       *)
(***************************************************************************)
Lands(batch, landed) ==
  view' = [l \in Sectors |->
             IF l \notin batch \/ landed[l] = "kept" THEN view[l]
             ELSE IF landed[l] = "written" THEN Expected(l) ELSE Torn]

\* Wrong variant, to test MbrLast: the writes go in the readback's order.
WriteBatchByLba ==
  /\ pc = "Write"
  /\ \E n \in 1..MaxBatch :
        /\ IsRun(plan.readback, index, n)
        /\ LET batch == Batch(plan.readback, index, n)
           IN  /\ \E landed \in [batch -> {"kept", "written", "torn"}] :
                     Lands(batch, landed)
               /\ acked' = acked \union batch
        /\ IF index + n <= Len(plan.readback)
           THEN index' = index + n /\ pc' = pc
           ELSE index' = 1 /\ pc' = "Sync"
  /\ UNCHANGED <<plan, pass, attempt, mirror, medium, result>>

WriteBatch ==
  /\ pc = "Write"
  /\ \E n \in 1..MaxBatch :
        /\ IsRun(plan.order, index, n)
        /\ LET batch == Batch(plan.order, index, n)
           IN  /\ \E landed \in [batch -> {"kept", "written", "torn"}] :
                     Lands(batch, landed)
               /\ acked' = acked \union batch
        /\ IF index + n <= Len(plan.order)
           THEN index' = index + n /\ pc' = pc
           ELSE index' = 1 /\ pc' = "Sync"
  /\ UNCHANGED <<plan, pass, attempt, mirror, medium, result>>

WriteBatchFails ==
  /\ pc = "Write"
  /\ \E n \in 1..MaxBatch :
        /\ IsRun(plan.order, index, n)
        /\ LET batch == Batch(plan.order, index, n)
           IN  \E landed \in [batch -> {"kept", "written", "torn"}] :
                  Lands(batch, landed)
  /\ PassFails
  /\ UNCHANGED <<plan, mirror, medium>>

Sync ==
  /\ pc = "Sync"
  /\ medium' = view
  /\ pc' = "Readback"
  /\ index' = 1
  /\ UNCHANGED <<plan, pass, attempt, mirror, acked, view, result>>

SyncFails ==
  /\ pc = "Sync"
  /\ PassFails
  /\ UNCHANGED <<plan, mirror, view, medium>>

Matches(batch) == \A l \in batch : view[l] = Expected(l)

\* Wrong variant, to test ContractSpec: the sectors read back by a rollback
\* are not compared.
ReadbackBatchUnchecked ==
  /\ pc = "Readback"
  /\ \E n \in 1..MaxBatch :
        /\ IsRun(plan.readback, index, n)
        /\ pass = "Forward" => Matches(Batch(plan.readback, index, n))
        /\ IF index + n <= Len(plan.readback)
           THEN /\ index' = index + n
                /\ UNCHANGED <<pc, pass, attempt, acked, result>>
           ELSE PassSucceeds
  /\ UNCHANGED <<plan, mirror, view, medium>>

ReadbackBatch ==
  /\ pc = "Readback"
  /\ \E n \in 1..MaxBatch :
        /\ IsRun(plan.readback, index, n)
        /\ Matches(Batch(plan.readback, index, n))
        /\ IF index + n <= Len(plan.readback)
           THEN /\ index' = index + n
                /\ UNCHANGED <<pc, pass, attempt, acked, result>>
           ELSE PassSucceeds
  /\ UNCHANGED <<plan, mirror, view, medium>>

\* A sector differs from what was written, or cannot be read.
ReadbackFails ==
  /\ pc = "Readback"
  /\ PassFails
  /\ UNCHANGED <<plan, mirror, view, medium>>
-----------------------------------------------------------------------------
(***************************************************************************)
(* The device's own steps.                                                 *)
(***************************************************************************)
Evict(l) ==
  /\ pc # "Crashed"
  /\ view[l] # medium[l]
  /\ medium' = [medium EXCEPT ![l] = view[l]]
  /\ UNCHANGED <<plan, pc, pass, attempt, index, mirror, acked, view,
                 result>>

\* The power fails or the disk is pulled: what the cache held is lost, and
\* nothing on the host resumes the transaction.
PowerLoss ==
  /\ pc \notin {"Done", "Crashed"}
  /\ pc' = "Crashed"
  /\ view' = medium
  /\ UNCHANGED <<plan, pass, attempt, index, mirror, acked, medium,
                 result>>

Step ==
  \/ PreflightSync \/ PreflightFails
  \/ MirrorBatch \/ MirrorFails
  \/ WriteBatch \/ WriteBatchFails
  \/ Sync \/ SyncFails
  \/ ReadbackBatch \/ ReadbackFails

Next == Step \/ PowerLoss \/ \E l \in Sectors : Evict(l)

Spec == Init /\ [][Next]_vars

\* The executor runs on one thread and every device call returns.
FairSpec == Spec /\ WF_vars(Step)
-----------------------------------------------------------------------------
TypeOK ==
  /\ plan \in Plans
  /\ pc \in {"SyncPreflight", "Mirror", "Write", "Sync", "Readback", "Done",
             "Crashed"}
  /\ pass \in {"Forward", "Rollback"}
  /\ attempt \in 0..2
  /\ index \in Nat \ {0}
  /\ mirror \in Seq(Content)
  /\ acked \subseteq Touched
  /\ view \in [Sectors -> Content]
  /\ medium \in [Sectors -> Content]
  /\ result \in {"Pending", "Ok", "Refused", "RolledBack", "Intermediate"}

(***************************************************************************)
(* The promise to the caller: Ok means every planned sector is on the      *)
(* medium, RolledBack and Refused mean the medium is what it was, and a    *)
(* sector outside the plan never changes.                                  *)
(***************************************************************************)
Contract == INSTANCE MediaContract WITH touched <- Touched, verdict <- result

ContractSpec == Contract!Spec

(***************************************************************************)
(* The partition table (LBA0) is the last sector of every pass: neither    *)
(* the new MBR of the forward pass nor the old one of a rollback is sent   *)
(* before every other planned sector of that pass was acknowledged.        *)
(***************************************************************************)
MbrLast ==
  [][ /\ 0 \in Touched
      /\ view'[0] # view[0]
      /\ pc' # "Crashed"
      => Touched \ {0} \subseteq acked ]_vars

(***************************************************************************)
(* The call returns: every failing pass leads to a rollback, the rollbacks *)
(* are bounded, and none waits for anything but the device.                *)
(***************************************************************************)
Terminates == <>(pc \in {"Done", "Crashed"})
=============================================================================
