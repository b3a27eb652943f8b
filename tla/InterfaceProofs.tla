--------------------------- MODULE InterfaceProofs ---------------------------
(***************************************************************************)
(* What the interface's loop keeps, whatever the order of keys, worker     *)
(* completions and scans.  The gate: no dialog is stranded, the guard is   *)
(* never up for nothing, and a write on the screen keeps it.  The slots:   *)
(* for any number of requests of either list, any interleaving of their    *)
(* workers and any panic, what a list shows as its answer was read after   *)
(* its last request, and no list displays a cancelled snapshot.            *)
(***************************************************************************)
EXTENDS OperationGate, ScanSlots, TLAPS

(***************************************************************************)
(* Which handler a key meets decides what can be begun: a wizard is alone  *)
(* on the screen, and a running provisioning is the screen of its own.     *)
(***************************************************************************)
ScreensApart ==
  loop = "Running" =>
    /\ WizardDialog => ~ProvisionScreen /\ ~CleanupDialog /\ ~DeletionDialog
    /\ stage = "Running" => focus = "Provision" /\ ~picker

GateInv == DialogsBelongToOperations /\ GuardHasAWorker /\ ScreensApart
-----------------------------------------------------------------------------
LEMMA GateInvInit == Init => GateInv
  BY Zenon DEF Init, GateInv, DialogsBelongToOperations, GuardHasAWorker,
     ScreensApart, WizardDialog, ProvisionScreen, CleanupDialog, DeletionDialog

LEMMA GateInvStep == GateInv /\ [Next]_vars => GateInv'
<1> SUFFICES ASSUME GateInv, [Next]_vars PROVE GateInv'
  OBVIOUS
<1> USE DEF GateInv, DialogsBelongToOperations, GuardHasAWorker, ScreensApart,
        WizardDialog, ProvisionScreen, CleanupDialog, DeletionDialog,
        Stay, Raise, Lower, Flags, Open, form, dialogs, tasks
<1>1. CASE QuitKey
  BY <1>1, Zenon DEF QuitKey
<1>2. CASE SwitchWorkspace
  BY <1>2, Zenon DEF SwitchWorkspace, ShellKeys
<1>3. CASE Refresh
  BY <1>3, Zenon DEF Refresh, Guarded, ShellKeys, ProvisionKeys
<1>4. CASE BeginWizard
  BY <1>4, Zenon DEF BeginWizard, Guarded, ShellKeys
<1>5. CASE ConfirmRestore
  BY <1>5, Zenon DEF ConfirmRestore, Request, Granted, WizardKeys
<1>6. CASE ElevateRestore
  BY <1>6, Zenon DEF ElevateRestore, WizardKeys
<1>7. CASE ConfirmBackupCreate
  BY <1>7, Zenon DEF ConfirmBackupCreate, Request, Granted, WizardKeys
<1>8. CASE ChooseFormat
  BY <1>8, Zenon DEF ChooseFormat, WizardKeys
<1>9. CASE ConfirmFormat
  BY <1>9, Zenon DEF ConfirmFormat, Request, Granted, WizardKeys
<1>10. CASE LeaveWizard
  BY <1>10, Zenon DEF LeaveWizard, Guarded, WizardKeys
<1>11. CASE BeginDelete
  BY <1>11, Zenon DEF BeginDelete, Guarded, ShellKeys
<1>12. CASE ConfirmDelete
  BY <1>12, Zenon DEF ConfirmDelete, Request, Granted, DeletionKeys
<1>13. CASE CancelDelete
  BY <1>13, Zenon DEF CancelDelete, Guarded, DeletionKeys
<1>14. CASE BeginCleanup
  BY <1>14, Zenon DEF BeginCleanup, Guarded, ShellKeys
<1>15. CASE PlanCleanup
  BY <1>15, Zenon DEF PlanCleanup, CleanupKeys
<1>16. CASE ConfirmCleanup
  BY <1>16, Zenon DEF ConfirmCleanup, Request, Granted, CleanupKeys
<1>17. CASE CancelCleanup
  BY <1>17, Zenon DEF CancelCleanup, Guarded, CleanupKeys
<1>18. CASE OpenPicker
  BY <1>18, Zenon DEF OpenPicker, ShellKeys
<1>19. CASE ClosePicker
  BY <1>19, Zenon DEF ClosePicker, Guarded, ProvisionKeys
<1>20. CASE ChooseScheme
  BY <1>20, Zenon DEF ChooseScheme, ProvisionKeys
<1>21. CASE PlanProvision
  BY <1>21, Zenon DEF PlanProvision, Workbench, ProvisionKeys
<1>22. CASE BeginExport
  BY <1>22, Zenon DEF BeginExport, Workbench, ProvisionKeys
<1>23. CASE BeginConfirm
  BY <1>23, Zenon DEF BeginConfirm, Workbench, ProvisionKeys
<1>24. CASE ConfirmExport
  BY <1>24, Zenon DEF ConfirmExport, Workbench, ProvisionKeys
<1>25. CASE CancelExport
  BY <1>25, Zenon DEF CancelExport, Workbench, ProvisionKeys
<1>26. CASE ConfirmProvision
  BY <1>26, Zenon DEF ConfirmProvision, Request, Workbench, Granted,
         ProvisionKeys
<1>27. CASE LeaveConfirm
  BY <1>27, Zenon DEF LeaveConfirm, Workbench, Guarded, ProvisionKeys
<1>28. CASE LeaveReview
  BY <1>28, Zenon DEF LeaveReview, Workbench, Guarded, ProvisionKeys
<1>29. CASE LeaveProvision
  BY <1>29, Zenon DEF LeaveProvision, Guarded, DiscardForm, ProvisionKeys
<1>30. CASE RestoreFinishes
  BY <1>30, Zenon DEF RestoreFinishes, Finishes
<1>31. CASE FormatFinishes
  BY <1>31, Zenon DEF FormatFinishes, Finishes
<1>32. CASE BackupCreateFinishes
  BY <1>32, Zenon DEF BackupCreateFinishes, Finishes
<1>33. CASE DeleteFinishes
  BY <1>33, Zenon DEF DeleteFinishes, Finishes
<1>34. CASE CleanupFinishes
  BY <1>34, Zenon DEF CleanupFinishes, Finishes
<1>35. CASE ProvisionFinishes
  BY <1>35, Zenon DEF ProvisionFinishes, Finishes
<1>36. CASE PlanFinishes
  BY <1>36, Zenon DEF PlanFinishes
<1>37. CASE ExportFinishes
  BY <1>37, Zenon DEF ExportFinishes
<1>38. CASE CleanupPlanFinishes
  BY <1>38, Zenon DEF CleanupPlanFinishes
<1>39. CASE DevicesScanned
  BY <1>39, Zenon DEF DevicesScanned, DiscardForm, TargetLost
<1>40. CASE UNCHANGED vars
  BY <1>40, Zenon DEF vars
<1> QED
  BY <1>1, <1>2, <1>3, <1>4, <1>5, <1>6, <1>7, <1>8, <1>9, <1>10, <1>11,
         <1>12, <1>13, <1>14, <1>15, <1>16, <1>17, <1>18, <1>19, <1>20,
         <1>21, <1>22, <1>23, <1>24, <1>25, <1>26, <1>27, <1>28, <1>29,
         <1>30, <1>31, <1>32, <1>33, <1>34, <1>35, <1>36, <1>37, <1>38,
         <1>39, <1>40, Zenon
  DEF Next, Key, Completion, OperationFinishes

(***************************************************************************)
(* Whatever the hub refuses and whatever else completes: a dialog that     *)
(* shows a running operation, and that no key closes, belongs to the       *)
(* operation that closes it.                                               *)
(***************************************************************************)
THEOREM RunningDialogsClose == Spec => []DialogsBelongToOperations
<1>1. GateInv => DialogsBelongToOperations
  BY DEF GateInv
<1> QED
  BY GateInvInit, GateInvStep, <1>1, PTL DEF Spec

\* The flag is up only while a worker runs whose end lowers it.
THEOREM GuardComesDown == Spec => []GuardHasAWorker
<1>1. GateInv => GuardHasAWorker
  BY DEF GateInv
<1> QED
  BY GateInvInit, GateInvStep, <1>1, PTL DEF Spec
-----------------------------------------------------------------------------
(***************************************************************************)
(* The handlers in front of a running write let no key through that asks   *)
(* for an operation: only such a key, refused, could lower the flag.       *)
(***************************************************************************)
LEMMA WriteKeepsGuard ==
  ASSUME GateInv, Next, WriteOnScreen, critical, ~exporting
  PROVE  active' = "None" \/ (critical' /\ loop' = "Running")
<1>1. Open
  BY Zenon DEF Next, Key, Completion, OperationFinishes, QuitKey,
         SwitchWorkspace, Refresh, BeginWizard, ConfirmRestore,
         ElevateRestore, ConfirmBackupCreate, ChooseFormat, ConfirmFormat,
         LeaveWizard, BeginDelete, ConfirmDelete, CancelDelete, BeginCleanup,
         PlanCleanup, ConfirmCleanup, CancelCleanup, OpenPicker, ClosePicker,
         ChooseScheme, PlanProvision, BeginExport, BeginConfirm,
         ConfirmExport, CancelExport, ConfirmProvision, LeaveConfirm,
         LeaveReview, LeaveProvision, RestoreFinishes, FormatFinishes,
         BackupCreateFinishes, DeleteFinishes, CleanupFinishes,
         ProvisionFinishes, PlanFinishes, ExportFinishes,
         CleanupPlanFinishes, DevicesScanned, CleanupKeys, DeletionKeys,
         Finishes, Open, ProvisionKeys, ShellKeys, WizardKeys, Workbench
<1>2. ASSUME Stay PROVE critical' /\ loop' = "Running"
  BY <1>1, <1>2, Zenon DEF Stay, Open
<1> USE <1>1 DEF GateInv, DialogsBelongToOperations, ScreensApart, WriteOnScreen, Open,
        WizardDialog, ProvisionScreen, CleanupDialog, DeletionDialog
<1>3. CASE QuitKey
  BY <1>3, Zenon DEF QuitKey, Flags, tasks
<1>4. CASE ConfirmRestore
  BY <1>4, Zenon DEF ConfirmRestore, Request, Granted, WizardKeys, Raise,
         Lower, Flags
<1>5. CASE ElevateRestore
  BY <1>5, Zenon DEF ElevateRestore, WizardKeys, tasks
<1>6. CASE ConfirmBackupCreate
  BY <1>6, Zenon DEF ConfirmBackupCreate, Request, Granted, WizardKeys,
         Raise, Lower, Flags
<1>7. CASE ConfirmFormat
  BY <1>7, Zenon DEF ConfirmFormat, Request, Granted, WizardKeys, Raise,
         Lower, Flags
<1>8. CASE ConfirmDelete
  BY <1>8, Zenon DEF ConfirmDelete, Request, Granted, DeletionKeys, Raise,
         Lower, Flags
<1>9. CASE ConfirmCleanup
  BY <1>9, Zenon DEF ConfirmCleanup, Request, Granted, CleanupKeys, Raise,
         Lower, Flags
<1>10. CASE ConfirmExport
  BY <1>10, Zenon DEF ConfirmExport, Workbench, ProvisionKeys, Raise, Lower,
         Flags
<1>11. CASE CancelExport
  BY <1>11, Zenon DEF CancelExport, Workbench, ProvisionKeys, Lower, Flags,
         tasks
<1>12. CASE ConfirmProvision
  BY <1>12, Zenon DEF ConfirmProvision, Request, Workbench, Granted,
         ProvisionKeys, Raise, Lower, Flags
<1>13. CASE RestoreFinishes
  BY <1>13, Zenon DEF RestoreFinishes, Finishes, Lower, Flags
<1>14. CASE FormatFinishes
  BY <1>14, Zenon DEF FormatFinishes, Finishes, Lower, Flags
<1>15. CASE BackupCreateFinishes
  BY <1>15, Zenon DEF BackupCreateFinishes, Finishes, Lower, Flags
<1>16. CASE DeleteFinishes
  BY <1>16, Zenon DEF DeleteFinishes, Finishes, Lower, Flags
<1>17. CASE CleanupFinishes
  BY <1>17, Zenon DEF CleanupFinishes, Finishes, Lower, Flags
<1>18. CASE ProvisionFinishes
  BY <1>18, Zenon DEF ProvisionFinishes, Finishes, Lower, Flags
<1>19. CASE ExportFinishes
  BY <1>19, Zenon DEF ExportFinishes, Lower, Flags
<1> QED
  BY <1>2, <1>3, <1>4, <1>5, <1>6, <1>7, <1>8, <1>9, <1>10, <1>11, <1>12,
         <1>13, <1>14, <1>15, <1>16, <1>17, <1>18, <1>19, Zenon
  DEF Next, Key, Completion, OperationFinishes, SwitchWorkspace, Refresh,
         BeginWizard, ChooseFormat, LeaveWizard, BeginDelete, CancelDelete,
         BeginCleanup, PlanCleanup, CancelCleanup, OpenPicker, ClosePicker,
         ChooseScheme, PlanProvision, BeginExport, BeginConfirm,
         LeaveConfirm, LeaveReview, LeaveProvision, PlanFinishes,
         CleanupPlanFinishes, DevicesScanned

(***************************************************************************)
(* While a transaction on the medium is on the screen only its own report, *)
(* or the end of an export begun before it, lowers the flag, and no key    *)
(* ends the loop.                                                          *)
(***************************************************************************)
THEOREM WriteStaysGuarded == Spec => ShownWriteIsGuarded
<1>1. GateInv /\ [Next]_vars =>
        [WriteOnScreen /\ critical /\ ~exporting
           => active' = "None" \/ (critical' /\ loop' = "Running")]_vars
  BY WriteKeepsGuard, Zenon
<1> QED
  BY GateInvInit, GateInvStep, <1>1, PTL DEF Spec, ShownWriteIsGuarded
-----------------------------------------------------------------------------
\* Snapshots are numbered by the requests made so far.
NumberInv ==
  /\ cancelled \subseteq 1..requests
  /\ \A k \in Kinds : display[k] <= requests /\ asked[k] <= requests
  /\ \A k \in Kinds : pending[k].snapshot <= requests
  /\ \A w \in workers : w.snapshot <= requests

\* A snapshot was loaded after its request, by one worker at a time.
LoadInv ==
  /\ \A n \in 1..MaxRequests : catalog[n].state # "empty" => catalog[n].date >= n
  /\ \A w \in workers : w.at = "Loading" => catalog[w.snapshot].state = "loading"
  /\ \A v, w \in workers :
       v.at = "Loading" /\ w.at = "Loading" /\ v.snapshot = w.snapshot => v = w

\* Whoever works for a list's last generation works for its last request.
FreshInv ==
  /\ \A w \in workers :
       /\ w.generation <= generation[w.kind]
       /\ w.generation = generation[w.kind] =>
            w.date >= asked[w.kind] /\ w.snapshot >= asked[w.kind]
  /\ \A i \in 1..Len(results) :
       /\ results[i].generation <= generation[results[i].kind]
       /\ results[i].generation = generation[results[i].kind] =>
            results[i].date >= asked[results[i].kind]
  /\ \A k \in Kinds : pending[k] # NoRequest =>
       /\ pending[k].snapshot >= 1 /\ pending[k].generation >= 1
       /\ pending[k].generation <= generation[k]
       /\ pending[k].generation = generation[k] => pending[k].snapshot >= asked[k]

AppliedInv == \A k \in Kinds : waiting[k] \/ applied[k] >= asked[k]

ShownInv == \A k \in Kinds : display[k] \notin cancelled

ScanInv == TypeOK /\ NumberInv /\ LoadInv /\ FreshInv /\ AppliedInv /\ ShownInv
-----------------------------------------------------------------------------
LEMMA InitEstablishes == ScanInit => ScanInv
<1> SUFFICES ASSUME ScanInit PROVE ScanInv
  OBVIOUS
<1> USE RequestsAssumption DEF ScanInit
<1>1. TypeOK
  BY DEF TypeOK, Dates, Kinds, NoRequest, Catalog
<1>2. NumberInv /\ LoadInv /\ FreshInv
  BY DEF NumberInv, LoadInv, FreshInv, NoRequest, Catalog
<1>3. AppliedInv /\ ShownInv
  BY DEF AppliedInv, ShownInv
<1>4. QED
  BY <1>1, <1>2, <1>3 DEF ScanInv

\* What the provers have to be told of the fields of a worker and a result.
LEMMA TypedWorkers ==
  ASSUME TypeOK, NEW w \in workers
  PROVE  /\ w.kind \in Kinds /\ w.generation \in Nat \ {0}
         /\ w.snapshot \in 1..MaxRequests /\ w.snapshot \in Nat
         /\ w.at \in {"Start", "Loading"} /\ w.date \in Dates /\ w.date \in Nat
BY RequestsAssumption DEF TypeOK, Dates

LEMMA TypedResults ==
  ASSUME TypeOK, NEW i \in 1..Len(results)
  PROVE  /\ results[i].kind \in Kinds /\ results[i].generation \in Nat \ {0}
         /\ results[i].date \in Dates /\ results[i].date \in Nat
<1> DEFINE Result == [kind : Kinds, generation : Nat \ {0},
                      what : {"rows", "error"}, date : Dates]
<1>1. results \in Seq(Result)
  BY DEF TypeOK
<1>2. results[i] \in Result
  <2> HIDE DEF Result
  <2> QED BY <1>1
<1>3. QED
  BY <1>2, RequestsAssumption DEF Dates

\* A request of the lists K: their next generation, their next snapshot.
LEMMA RefreshPreserves ==
  ASSUME ScanInv, NEW K \in SUBSET Kinds, RefreshLists(K),
         NEW C, cancelled' = cancelled \union C,
         C \subseteq {display[k] : k \in Kinds} \ {0},
         \A k \in Kinds \ K : display[k] \notin C
  PROVE  ScanInv'
<1> DEFINE free == {k \in K : running[k] = 0}
           new == {ScanWorker(k, generation'[k], requests', "Start", requests') : k \in free}
<1>1. /\ requests \in Nat /\ requests' = requests + 1 /\ requests' \in 1..MaxRequests
      /\ display' = [k \in Kinds |-> IF k \in K THEN requests' ELSE display[k]]
      /\ generation' = [k \in Kinds |-> generation[k] + (IF k \in K THEN 1 ELSE 0)]
      /\ running' = [k \in Kinds |-> IF k \in free THEN generation'[k] ELSE running[k]]
      /\ pending' = [k \in Kinds |-> IF k \in K \ free
                       THEN [generation |-> generation'[k], snapshot |-> requests']
                       ELSE pending[k]]
      /\ workers' = workers \union new
      /\ waiting' = [k \in Kinds |-> k \in K \/ waiting[k]]
      /\ asked' = [k \in Kinds |-> IF k \in K THEN requests' ELSE asked[k]]
      /\ UNCHANGED <<catalog, results, applied>>
  BY RequestsAssumption DEF RefreshLists, Enqueue, ScanInv, TypeOK, Dates
<1>2. /\ \A k \in Kinds : generation[k] \in Nat /\ running[k] \in Nat
      /\ \A k \in Kinds : generation'[k] \in Nat
      /\ \A k \in K : generation'[k] = generation[k] + 1
      /\ \A k \in Kinds \ K : generation'[k] = generation[k] /\ asked'[k] = asked[k]
      /\ \A k \in K : asked'[k] = requests'
  BY <1>1 DEF ScanInv, TypeOK
<1>3. \A w \in new : /\ w.kind \in K /\ w.generation = generation'[w.kind]
                     /\ w.snapshot = requests' /\ w.at = "Start" /\ w.date = requests'
  BY DEF ScanWorker
<1>4. new \subseteq [kind : Kinds, generation : Nat \ {0}, snapshot : 1..MaxRequests,
                     at : {"Start", "Loading"}, date : Dates]
  <2> SUFFICES ASSUME NEW w \in new
               PROVE  w \in [kind : Kinds, generation : Nat \ {0}, snapshot : 1..MaxRequests,
                             at : {"Start", "Loading"}, date : Dates]
    OBVIOUS
  <2>1. PICK k \in free : w = ScanWorker(k, generation'[k], requests', "Start", requests')
    OBVIOUS
  <2>2. k \in Kinds /\ generation'[k] \in Nat \ {0}
    BY <1>2
  <2>3. requests' \in Dates /\ requests' \in 1..MaxRequests
    BY <1>1, RequestsAssumption DEF Dates
  <2>4. QED
    BY <2>1, <2>2, <2>3 DEF ScanWorker
<1> HIDE DEF new, free
<1>0. C \subseteq 1..requests /\ C \subseteq 1..MaxRequests
  <2> SUFFICES ASSUME NEW n \in C PROVE n \in 1..requests /\ n \in 1..MaxRequests
    OBVIOUS
  <2>1. PICK k \in Kinds : n = display[k] /\ n # 0
    OBVIOUS
  <2>2. display[k] \in 0..MaxRequests /\ display[k] <= requests
    BY DEF ScanInv, TypeOK, NumberInv, Dates
  <2>3. QED
    BY <1>1, <2>1, <2>2, RequestsAssumption
<1>5. TypeOK'
  <2>1. requests' \in Dates /\ generation' \in [Kinds -> Nat] /\ running' \in [Kinds -> Nat]
    BY <1>1, <1>2 DEF Dates
  <2>2. pending' \in [Kinds -> [generation : Nat, snapshot : Dates]]
    BY <1>1, <1>2 DEF Dates, ScanInv, TypeOK
  <2>3. display' \in [Kinds -> Dates] /\ asked' \in [Kinds -> Dates]
    BY <1>1 DEF Dates, ScanInv, TypeOK
  <2>4. cancelled' \subseteq 1..MaxRequests
    BY <1>0 DEF ScanInv, TypeOK
  <2>5. workers' \subseteq [kind : Kinds, generation : Nat \ {0}, snapshot : 1..MaxRequests,
                            at : {"Start", "Loading"}, date : Dates]
    BY <1>1, <1>4 DEF ScanInv, TypeOK
  <2>6. waiting' \in [Kinds -> BOOLEAN]
    BY <1>1, Zenon DEF ScanInv, TypeOK
  <2>7. QED
    BY <1>1, <2>1, <2>2, <2>3, <2>4, <2>5, <2>6 DEF ScanInv, TypeOK
<1>6. NumberInv'
  <2>1. cancelled' \subseteq 1..requests'
    BY <1>0, <1>1 DEF ScanInv, NumberInv
  <2>2. \A k \in Kinds : display'[k] <= requests' /\ asked'[k] <= requests'
    BY <1>1 DEF ScanInv, NumberInv, TypeOK, Dates
  <2>3. \A k \in Kinds : pending'[k].snapshot <= requests'
    BY <1>1 DEF ScanInv, NumberInv, TypeOK, Dates
  <2>4. ASSUME NEW w \in workers' PROVE w.snapshot <= requests'
    <3>1. CASE w \in new
      BY <1>1, <1>3, <3>1
    <3>2. CASE w \in workers
      <4>1. w.snapshot \in Nat /\ w.snapshot <= requests
        BY <3>2, TypedWorkers DEF ScanInv, NumberInv
      <4>2. QED
        BY <4>1, <1>1
    <3>3. QED
      BY <1>1, <3>1, <3>2
  <2>5. QED
    BY <2>1, <2>2, <2>3, <2>4 DEF NumberInv
<1>7. LoadInv'
  BY <1>1, <1>3 DEF ScanInv, LoadInv
<1>8. FreshInv'
  <2>1. ASSUME NEW w \in workers'
        PROVE  /\ w.generation <= generation'[w.kind]
               /\ w.generation = generation'[w.kind] =>
                    w.date >= asked'[w.kind] /\ w.snapshot >= asked'[w.kind]
    <3>1. CASE w \in new
      BY <1>1, <1>2, <1>3, <3>1
    <3>2. CASE w \in workers
      BY <1>1, <1>2, <3>2 DEF ScanInv, FreshInv, TypeOK
    <3>3. QED
      BY <1>1, <3>1, <3>2
  <2>2. ASSUME NEW i \in 1..Len(results)
        PROVE  /\ results[i].generation <= generation'[results[i].kind]
               /\ results[i].generation = generation'[results[i].kind] =>
                    results[i].date >= asked'[results[i].kind]
    <3>1. results[i].kind \in Kinds /\ results[i].generation \in Nat
      BY TypedResults DEF ScanInv
    <3>2. generation[results[i].kind] \in Nat
      BY <1>2, <3>1
    <3>3. CASE results[i].kind \in K
      BY <1>2, <3>1, <3>2, <3>3 DEF ScanInv, FreshInv
    <3>4. CASE results[i].kind \notin K
      BY <1>2, <3>1, <3>2, <3>4 DEF ScanInv, FreshInv
    <3>5. QED
      BY <3>3, <3>4
  <2>3. ASSUME NEW k \in Kinds, pending'[k] # NoRequest
        PROVE  /\ pending'[k].snapshot >= 1 /\ pending'[k].generation >= 1
               /\ pending'[k].generation <= generation'[k]
               /\ pending'[k].generation = generation'[k] => pending'[k].snapshot >= asked'[k]
    <3>1. CASE k \in K \ free
      BY <1>1, <1>2, <3>1
    <3>2. CASE k \notin K \ free
      BY <1>1, <1>2, <2>3, <3>2 DEF ScanInv, FreshInv, TypeOK
    <3>3. QED
      BY <3>1, <3>2
  <2>4. QED
    BY <1>1, <2>1, <2>2, <2>3 DEF FreshInv
<1>9. AppliedInv'
  BY <1>1, <1>2, Zenon DEF ScanInv, AppliedInv
<1>10. ShownInv'
  BY <1>1 DEF ScanInv, ShownInv, NumberInv, TypeOK, Dates
<1>11. QED
  BY <1>5, <1>6, <1>7, <1>8, <1>9, <1>10 DEF ScanInv

LEMMA WorkspaceScanPreserves == ScanInv /\ RequestWorkspaceScan => ScanInv'
<1> SUFFICES ASSUME ScanInv, RequestWorkspaceScan PROVE ScanInv'
  OBVIOUS
<1> DEFINE C == {display[k] : k \in Kinds} \ {0}
<1>1. cancelled' = cancelled \union C /\ RefreshLists(Kinds)
  BY DEF RequestWorkspaceScan
<1>2. C \subseteq {display[k] : k \in Kinds} \ {0} /\ \A k \in Kinds \ Kinds : display[k] \notin C
  OBVIOUS
<1> HIDE DEF C
<1>3. QED
  BY <1>1, <1>2, RefreshPreserves

LEMMA ListScanPreserves == ASSUME ScanInv, NEW l \in Kinds, RequestScan(l) PROVE ScanInv'
<1> DEFINE C == {display[l]} \ {0, display[OtherList(l)]}
<1>1. cancelled' = cancelled \union C /\ RefreshLists({l})
  BY DEF RequestScan
<1>2. C \subseteq {display[k] : k \in Kinds} \ {0}
  OBVIOUS
<1>3. \A k \in Kinds \ {l} : display[k] \notin C
  BY DEF Kinds, OtherList
<1> HIDE DEF C
<1>4. QED
  BY <1>1, <1>2, <1>3, RefreshPreserves
-----------------------------------------------------------------------------
\* A worker's step leaves the slots, the lists and the snapshots displayed.
WorkerFrame == UNCHANGED <<requests, slots, display, cancelled, lists>>

\* What is left to show when a worker steps.
LEMMA WorkerStep ==
  ASSUME ScanInv, WorkerFrame,
         catalog' \in [1..MaxRequests ->
                         [state : {"empty", "loading", "complete", "error"}, date : Dates]],
         workers' \subseteq [kind : Kinds, generation : Nat \ {0}, snapshot : 1..MaxRequests,
                             at : {"Start", "Loading"}, date : Dates],
         results' \in Seq([kind : Kinds, generation : Nat \ {0},
                           what : {"rows", "error"}, date : Dates]),
         \A v \in workers' : \E w \in workers :
            /\ v.kind = w.kind /\ v.generation = w.generation
            /\ v.snapshot = w.snapshot /\ v.date = w.date,
         LoadInv',
         \A i \in 1..Len(results') :
            /\ results'[i].generation <= generation[results'[i].kind]
            /\ results'[i].generation = generation[results'[i].kind] =>
                 results'[i].date >= asked[results'[i].kind]
  PROVE  ScanInv'
<1>1. TypeOK'
  BY DEF WorkerFrame, slots, lists, ScanInv, TypeOK
<1>2. NumberInv'
  <2>1. \A w \in workers' : w.snapshot <= requests'
    BY DEF WorkerFrame, ScanInv, NumberInv
  <2>2. QED
    BY <2>1 DEF WorkerFrame, slots, lists, ScanInv, NumberInv
<1>3. FreshInv'
  <2>1. /\ requests' = requests /\ generation' = generation /\ asked' = asked
        /\ pending' = pending
    BY DEF WorkerFrame, slots, lists
  <2>2. ASSUME NEW v \in workers'
        PROVE  /\ v.generation <= generation'[v.kind]
               /\ v.generation = generation'[v.kind] =>
                    v.date >= asked'[v.kind] /\ v.snapshot >= asked'[v.kind]
    BY <2>1 DEF ScanInv, FreshInv
  <2>3. QED
    BY <2>1, <2>2 DEF ScanInv, FreshInv
<1>4. AppliedInv' /\ ShownInv'
  BY Zenon DEF WorkerFrame, lists, ScanInv, AppliedInv, ShownInv
<1>5. QED
  BY <1>1, <1>2, <1>3, <1>4 DEF ScanInv

\* A worker that only moves.
LEMMA Moves ==
  ASSUME TypeOK, NEW w \in workers, NEW at \in {"Start", "Loading"}, Becomes(w, at, w.date)
  PROVE  /\ workers' \subseteq [kind : Kinds, generation : Nat \ {0}, snapshot : 1..MaxRequests,
                                at : {"Start", "Loading"}, date : Dates]
         /\ \A v \in workers' : \E u \in workers :
              /\ v.kind = u.kind /\ v.generation = u.generation
              /\ v.snapshot = u.snapshot /\ v.date = u.date
         /\ \A v \in workers' : v \in workers \ {w} \/ (v.snapshot = w.snapshot /\ v.at = at)
         /\ \A v, u \in workers' : v \in workers \ {w} \/ u \in workers \ {w} \/ v = u
<1> DEFINE n == [w EXCEPT !.at = at, !.date = w.date]
<1>1. workers' = (workers \ {w}) \union {n}
  BY DEF Becomes
<1>2. n \in [kind : Kinds, generation : Nat \ {0}, snapshot : 1..MaxRequests,
             at : {"Start", "Loading"}, date : Dates]
  BY DEF TypeOK
<1>3. /\ n.kind = w.kind /\ n.generation = w.generation
      /\ n.snapshot = w.snapshot /\ n.date = w.date /\ n.at = at
  BY DEF TypeOK
<1> HIDE DEF n
<1>4. QED
  BY <1>1, <1>2, <1>3 DEF TypeOK

LEMMA BeginLoadPreserves == ASSUME ScanInv, NEW w \in workers, BeginLoad(w) PROVE ScanInv'
<1>1. /\ catalog' = [catalog EXCEPT ![w.snapshot] = [state |-> "loading", date |-> requests]]
      /\ catalog[w.snapshot].state = "empty" /\ Becomes(w, "Loading", w.date)
      /\ results' = results /\ WorkerFrame
  BY DEF BeginLoad, Catalog, WorkerFrame
<1>2. w.snapshot \in 1..MaxRequests /\ w.snapshot <= requests /\ requests \in Dates
  BY TypedWorkers DEF ScanInv, NumberInv, TypeOK
<1>3. catalog' \in [1..MaxRequests ->
                      [state : {"empty", "loading", "complete", "error"}, date : Dates]]
  BY <1>1, <1>2 DEF ScanInv, TypeOK
<1>4. /\ workers' \subseteq [kind : Kinds, generation : Nat \ {0}, snapshot : 1..MaxRequests,
                             at : {"Start", "Loading"}, date : Dates]
      /\ \A v \in workers' : \E u \in workers :
           /\ v.kind = u.kind /\ v.generation = u.generation
           /\ v.snapshot = u.snapshot /\ v.date = u.date
      /\ \A v \in workers' : v \in workers \ {w} \/ (v.snapshot = w.snapshot /\ v.at = "Loading")
      /\ \A v, u \in workers' : v \in workers \ {w} \/ u \in workers \ {w} \/ v = u
  BY <1>1, Moves DEF ScanInv
<1>5. LoadInv'
  <2>1. \A n \in 1..MaxRequests : catalog'[n] =
           IF n = w.snapshot THEN [state |-> "loading", date |-> requests] ELSE catalog[n]
    BY <1>1, <1>2 DEF ScanInv, TypeOK
  <2>2. \A n \in 1..MaxRequests : catalog'[n].state # "empty" => catalog'[n].date >= n
    BY <1>2, <2>1, RequestsAssumption DEF ScanInv, LoadInv, Dates
  <2>3. ASSUME NEW v \in workers', v.at = "Loading"
        PROVE  v.snapshot \in 1..MaxRequests /\ catalog'[v.snapshot].state = "loading"
    BY <1>2, <1>4, <2>1, <2>3, TypedWorkers DEF ScanInv, LoadInv
  <2>4. ASSUME NEW v \in workers', NEW u \in workers', v.at = "Loading", u.at = "Loading",
               v.snapshot = u.snapshot
        PROVE  v = u
    <3>1. \A x \in workers : x.at = "Loading" => x.snapshot # w.snapshot
      BY <1>1 DEF ScanInv, LoadInv
    <3>2. QED
      BY <1>4, <2>4, <3>1, Zenon DEF ScanInv, LoadInv
  <2>5. QED
    BY <2>2, <2>3, <2>4 DEF LoadInv
<1>6. QED
  BY <1>1, <1>3, <1>4, <1>5, WorkerStep DEF ScanInv, TypeOK, FreshInv

LEMMA EndLoadPreserves == ASSUME ScanInv, NEW w \in workers, EndLoad(w) PROVE ScanInv'
<1>1. PICK state \in {"complete", "error"} :
         catalog' = [catalog EXCEPT ![w.snapshot].state = state]
  BY DEF EndLoad
<1>2. /\ w.at = "Loading" /\ Becomes(w, "Start", w.date) /\ results' = results /\ WorkerFrame
  BY DEF EndLoad, WorkerFrame
<1>3. w.snapshot \in 1..MaxRequests
  BY TypedWorkers DEF ScanInv
<1>4. catalog' \in [1..MaxRequests ->
                      [state : {"empty", "loading", "complete", "error"}, date : Dates]]
  BY <1>1, <1>3 DEF ScanInv, TypeOK
<1>5. /\ workers' \subseteq [kind : Kinds, generation : Nat \ {0}, snapshot : 1..MaxRequests,
                             at : {"Start", "Loading"}, date : Dates]
      /\ \A v \in workers' : \E u \in workers :
           /\ v.kind = u.kind /\ v.generation = u.generation
           /\ v.snapshot = u.snapshot /\ v.date = u.date
      /\ \A v \in workers' : v \in workers \ {w} \/ (v.snapshot = w.snapshot /\ v.at = "Start")
  BY <1>2, Moves DEF ScanInv
<1>6. LoadInv'
  <2>1. \A n \in 1..MaxRequests :
           /\ catalog'[n].date = catalog[n].date
           /\ n # w.snapshot => catalog'[n] = catalog[n]
    BY <1>1, <1>3 DEF ScanInv, TypeOK
  <2>2. catalog[w.snapshot].state = "loading"
    BY <1>2 DEF ScanInv, LoadInv
  <2>3. \A n \in 1..MaxRequests : catalog'[n].state # "empty" => catalog'[n].date >= n
    BY <1>3, <2>1, <2>2 DEF ScanInv, LoadInv
  <2>4. \A v \in workers' : v.at = "Loading" => v \in workers \ {w} /\ v.snapshot # w.snapshot
    BY <1>2, <1>5 DEF ScanInv, LoadInv
  <2>5. \A v \in workers' : v.at = "Loading" => catalog'[v.snapshot].state = "loading"
    BY <2>1, <2>4, TypedWorkers DEF ScanInv, LoadInv
  <2>6. \A v, u \in workers' :
           v.at = "Loading" /\ u.at = "Loading" /\ v.snapshot = u.snapshot => v = u
    BY <2>4, Zenon DEF ScanInv, LoadInv
  <2>7. QED
    BY <2>3, <2>5, <2>6 DEF LoadInv
<1>7. QED
  BY <1>2, <1>4, <1>5, <1>6, WorkerStep DEF ScanInv, TypeOK, FreshInv

\* A worker that answers with rows or an error, dated as it may be.
LEMMA AnswerPreserves ==
  ASSUME ScanInv, NEW w \in workers, NEW what \in {"rows", "error"}, NEW date \in Dates,
         Answer(w, what, date), WorkerFrame,
         w.generation = generation[w.kind] => date >= asked[w.kind],
         catalog' \in [1..MaxRequests ->
                         [state : {"empty", "loading", "complete", "error"}, date : Dates]],
         LoadInv'
  PROVE  ScanInv'
<1> DEFINE m == [kind |-> w.kind, generation |-> w.generation, what |-> what, date |-> date]
           Result == [kind : Kinds, generation : Nat \ {0},
                      what : {"rows", "error"}, date : Dates]
<1>1. results' = Append(results, m) /\ workers' = workers \ {w}
  BY DEF Answer
<1>2. m \in Result
  BY TypedWorkers DEF ScanInv
<1>3. results \in Seq(Result)
  BY DEF ScanInv, TypeOK
<1>4. m.kind = w.kind /\ m.generation = w.generation /\ m.date = date
  OBVIOUS
<1>5. results' \in Seq(Result)
  <2> HIDE DEF m, Result
  <2> QED BY <1>1, <1>2, <1>3
<1>6. ASSUME NEW i \in 1..Len(results')
      PROVE  /\ results'[i].generation <= generation[results'[i].kind]
             /\ results'[i].generation = generation[results'[i].kind] =>
                  results'[i].date >= asked[results'[i].kind]
  <2> HIDE DEF m
  <2>1. Len(results') = Len(results) + 1 /\ Len(results) \in Nat
    BY <1>1, <1>3
  <2>2. CASE i = Len(results) + 1
    <3>1. results'[i] = m
      BY <1>1, <1>3, <2>2
    <3>2. m.generation <= generation[m.kind]
      BY <1>4 DEF ScanInv, FreshInv
    <3>3. m.generation = generation[m.kind] => m.date >= asked[m.kind]
      BY <1>4
    <3>4. QED
      BY <3>1, <3>2, <3>3
  <2>3. CASE i \in 1..Len(results)
    <3>1. results'[i] = results[i]
      BY <1>1, <1>3, <2>3
    <3>2. QED
      BY <2>3, <3>1 DEF ScanInv, FreshInv
  <2>4. QED
    BY <2>1, <2>2, <2>3
<1>7. workers' \subseteq [kind : Kinds, generation : Nat \ {0}, snapshot : 1..MaxRequests,
                          at : {"Start", "Loading"}, date : Dates]
  BY <1>1 DEF ScanInv, TypeOK
<1>8. \A v \in workers' : \E u \in workers :
         /\ v.kind = u.kind /\ v.generation = u.generation
         /\ v.snapshot = u.snapshot /\ v.date = u.date
  BY <1>1
<1> HIDE DEF m
<1>9. QED
  BY <1>5, <1>6, <1>7, <1>8, WorkerStep

LEMMA ReportScanPreserves == ASSUME ScanInv, NEW w \in workers, ReportScan(w) PROVE ScanInv'
<1>1. WorkerFrame /\ catalog' = catalog /\ w.at = "Start"
  BY DEF ReportScan, WorkerFrame
<1>2. /\ w.snapshot \in 1..MaxRequests /\ w.date \in Dates /\ w.date \in Nat
      /\ w.kind \in Kinds
  BY TypedWorkers DEF ScanInv
<1>3. w.generation = generation[w.kind] => w.date >= asked[w.kind] /\ w.snapshot >= asked[w.kind]
  BY DEF ScanInv, FreshInv
<1>4. asked[w.kind] \in Nat
  BY <1>2, RequestsAssumption DEF ScanInv, TypeOK, Dates
<1>5. workers' = workers \ {w} => LoadInv'
  BY <1>1 DEF ScanInv, LoadInv
<1>6. catalog' \in [1..MaxRequests ->
                      [state : {"empty", "loading", "complete", "error"}, date : Dates]]
  BY <1>1 DEF ScanInv, TypeOK
<1>7. CASE /\ catalog[w.snapshot].state \in {"complete", "error"}
           /\ Answer(w, IF /\ w.kind = "backup"
                           /\ catalog[w.snapshot].state = "error"
                        THEN "error" ELSE "rows",
                     Oldest(w, catalog[w.snapshot].date))
  <2> DEFINE what == IF w.kind = "backup" /\ catalog[w.snapshot].state = "error"
                     THEN "error" ELSE "rows"
             date == Oldest(w, catalog[w.snapshot].date)
  <2>1. catalog[w.snapshot].date \in Dates /\ catalog[w.snapshot].date >= w.snapshot
    BY <1>2, <1>7 DEF ScanInv, TypeOK, LoadInv
  <2>2. date \in Dates
    BY <1>2, <2>1 DEF Oldest
  <2>3. w.generation = generation[w.kind] => date >= asked[w.kind]
    BY <1>2, <1>3, <1>4, <2>1, RequestsAssumption DEF Oldest, Dates
  <2>4. what \in {"rows", "error"}
    OBVIOUS
  <2>5. Answer(w, what, date) /\ workers' = workers \ {w}
    BY <1>7 DEF Answer
  <2> HIDE DEF what, date
  <2>6. QED
    BY <1>1, <1>5, <1>6, <2>2, <2>3, <2>4, <2>5, AnswerPreserves
<1>8. CASE w.kind = "device" /\ Answer(w, "rows", w.date)
  <2>1. workers' = workers \ {w}
    BY <1>8 DEF Answer
  <2>2. QED
    BY <1>1, <1>2, <1>3, <1>5, <1>6, <1>8, <2>1, AnswerPreserves
<1>9. QED
  BY <1>7, <1>8 DEF ReportScan

LEMMA PanicPreserves == ASSUME ScanInv, NEW w \in workers, Panic(w) PROVE ScanInv'
<1>1. WorkerFrame /\ Answer(w, "error", w.date) /\ workers' = workers \ {w}
  BY DEF Panic, WorkerFrame, Answer
<1>2. w.snapshot \in 1..MaxRequests /\ w.date \in Dates
  BY TypedWorkers DEF ScanInv
<1>3. \A n \in 1..MaxRequests :
         \/ catalog'[n] = catalog[n]
         \/ n = w.snapshot /\ w.at = "Loading" /\ catalog'[n].state = "empty"
  BY <1>2 DEF Panic, Catalog, ScanInv, TypeOK
<1>4. catalog' \in [1..MaxRequests ->
                      [state : {"empty", "loading", "complete", "error"}, date : Dates]]
  <2>1. catalog \in [1..MaxRequests ->
                      [state : {"empty", "loading", "complete", "error"}, date : Dates]]
    BY DEF ScanInv, TypeOK, Dates
  <2>2. 0 \in Dates
    BY RequestsAssumption DEF Dates
  <2> QED
    BY <1>2, <2>1, <2>2 DEF Panic, Catalog
<1>5. LoadInv'
  <2>1. \A n \in 1..MaxRequests : catalog'[n].state # "empty" => catalog'[n].date >= n
    BY <1>3 DEF ScanInv, LoadInv
  <2>2. \A v \in workers' : v.at = "Loading" => catalog'[v.snapshot].state = "loading"
    BY <1>1, <1>3, TypedWorkers DEF ScanInv, LoadInv
  <2>3. QED
    BY <1>1, <2>1, <2>2 DEF ScanInv, LoadInv
<1>6. w.generation = generation[w.kind] => w.date >= asked[w.kind]
  BY DEF ScanInv, FreshInv
<1>7. QED
  BY <1>1, <1>2, <1>4, <1>5, <1>6, AnswerPreserves
-----------------------------------------------------------------------------
LEMMA PollPreserves == ASSUME ScanInv, Poll PROVE ScanInv'
<1> DEFINE m == Head(results)
           Result == [kind : Kinds, generation : Nat \ {0},
                      what : {"rows", "error"}, date : Dates]
<1>1. results # << >> /\ results' = Tail(results)
      /\ UNCHANGED <<requests, display, cancelled, catalog>>
  BY DEF Poll
<1>2. results \in Seq(Result)
  BY DEF ScanInv, TypeOK
<1>3. /\ results' \in Seq(Result) /\ Len(results) >= 1 /\ m = results[1]
      /\ Len(results') = Len(results) - 1 /\ Len(results) \in Nat
      /\ \A i \in 1..Len(results') : i + 1 \in 1..Len(results) /\ results'[i] = results[i + 1]
  <2> HIDE DEF Result
  <2> QED BY <1>1, <1>2
<1>4. \A i \in 1..Len(results') :
         /\ results'[i].generation <= generation[results'[i].kind]
         /\ results'[i].generation = generation[results'[i].kind] =>
              results'[i].date >= asked[results'[i].kind]
  BY <1>3 DEF ScanInv, FreshInv
<1>5. /\ m.kind \in Kinds /\ m.generation \in Nat \ {0} /\ m.date \in Dates
      /\ m.generation = generation[m.kind] => m.date >= asked[m.kind]
  BY <1>3, TypedResults DEF ScanInv, FreshInv
<1> HIDE DEF m
<1>6. CASE UNCHANGED <<slots, workers, lists>>
  <2>1. TypeOK'
    BY <1>1, <1>3, <1>6 DEF slots, lists, ScanInv, TypeOK
  <2>2. NumberInv' /\ LoadInv'
    BY <1>1, <1>6 DEF slots, lists, ScanInv, NumberInv, LoadInv
  <2>3. FreshInv'
    BY <1>1, <1>4, <1>6 DEF slots, lists, ScanInv, FreshInv
  <2>4. AppliedInv' /\ ShownInv'
    BY <1>1, <1>6, Zenon DEF lists, ScanInv, AppliedInv, ShownInv
  <2>5. QED
    BY <2>1, <2>2, <2>3, <2>4 DEF ScanInv
<1>7. CASE Restart(m.kind, pending[m.kind])
  <2> DEFINE next == pending[m.kind]
             w == ScanWorker(m.kind, next.generation, next.snapshot, "Start", requests)
  <2>1. /\ next # NoRequest
        /\ running' = [running EXCEPT ![m.kind] = next.generation]
        /\ pending' = [pending EXCEPT ![m.kind] = NoRequest]
        /\ workers' = workers \union {w}
        /\ UNCHANGED <<generation, lists>>
    BY <1>7 DEF Restart
  <2>2. /\ next \in [generation : Nat, snapshot : Dates]
        /\ next.generation >= 1 /\ next.snapshot >= 1 /\ next.snapshot <= requests
        /\ next.generation <= generation[m.kind]
        /\ next.generation = generation[m.kind] => next.snapshot >= asked[m.kind]
    BY <1>5, <2>1 DEF ScanInv, TypeOK, FreshInv, NumberInv
  <2>3. /\ w.kind = m.kind /\ w.generation = next.generation /\ w.snapshot = next.snapshot
        /\ w.at = "Start" /\ w.date = requests
    BY DEF ScanWorker
  <2>4. w \in [kind : Kinds, generation : Nat \ {0}, snapshot : 1..MaxRequests,
               at : {"Start", "Loading"}, date : Dates]
    <3>1. next.generation \in Nat \ {0} /\ next.snapshot \in 1..MaxRequests
      BY <2>2, RequestsAssumption DEF Dates
    <3>2. requests \in Dates
      BY DEF ScanInv, TypeOK
    <3>3. QED
      BY <1>5, <3>1, <3>2 DEF ScanWorker
  <2>5. asked[m.kind] <= requests
    BY <1>5 DEF ScanInv, NumberInv
  <2>6. NoRequest \in [generation : Nat, snapshot : Dates] /\ NoRequest.snapshot = 0
    BY RequestsAssumption DEF NoRequest, Dates
  <2> HIDE DEF next, w
  <2>7. /\ \A k \in Kinds : pending'[k] = IF k = m.kind THEN NoRequest ELSE pending[k]
        /\ pending' \in [Kinds -> [generation : Nat, snapshot : Dates]]
        /\ running' \in [Kinds -> Nat]
    BY <1>5, <2>1, <2>2, <2>6 DEF ScanInv, TypeOK
  <2>8. TypeOK'
    BY <1>1, <1>3, <2>1, <2>4, <2>7 DEF lists, ScanInv, TypeOK
  <2>9. NumberInv'
    <3>1. ASSUME NEW k \in Kinds PROVE pending'[k].snapshot <= requests'
      <4>1. requests' = requests /\ requests \in Nat /\ pending[k].snapshot <= requests
        BY <1>1, RequestsAssumption DEF ScanInv, NumberInv, TypeOK, Dates
      <4>2. QED
        BY <2>6, <2>7, <4>1
    <3>2. \A v \in workers' : v.snapshot <= requests'
      BY <1>1, <2>1, <2>2, <2>3 DEF ScanInv, NumberInv
    <3>3. QED
      BY <1>1, <2>1, <3>1, <3>2 DEF lists, ScanInv, NumberInv
  <2>10. LoadInv'
    BY <1>1, <2>1, <2>3 DEF ScanInv, LoadInv
  <2>11. FreshInv'
    <3>1. ASSUME NEW v \in workers'
          PROVE  /\ v.generation <= generation'[v.kind]
                 /\ v.generation = generation'[v.kind] =>
                      v.date >= asked'[v.kind] /\ v.snapshot >= asked'[v.kind]
      <4>1. CASE v = w
        BY <2>1, <2>2, <2>3, <2>5, <4>1 DEF lists
      <4>2. CASE v \in workers
        BY <2>1, <4>2 DEF lists, ScanInv, FreshInv
      <4>3. QED
        BY <2>1, <4>1, <4>2
    <3>2. \A k \in Kinds : pending'[k] # NoRequest => pending'[k] = pending[k]
      BY <2>7
    <3>3. QED
      BY <1>4, <2>1, <3>1, <3>2 DEF lists, ScanInv, FreshInv
  <2>12. AppliedInv' /\ ShownInv'
    BY <1>1, <2>1, Zenon DEF lists, ScanInv, AppliedInv, ShownInv
  <2>13. QED
    BY <2>8, <2>9, <2>10, <2>11, <2>12 DEF ScanInv
<1>8. CASE Deliver(m)
  <2>1. /\ running' = [running EXCEPT ![m.kind] = 0]
        /\ UNCHANGED <<generation, pending, workers, asked>>
    BY <1>8 DEF Deliver
  <2>2. \/ /\ generation[m.kind] = m.generation
           /\ waiting' = [waiting EXCEPT ![m.kind] = FALSE]
           /\ applied' = [applied EXCEPT ![m.kind] = m.date]
        \/ UNCHANGED <<waiting, applied>>
    BY <1>8 DEF Deliver
  <2>3. TypeOK'
    <3>1. waiting' \in [Kinds -> BOOLEAN]
      BY <1>5, <2>2 DEF ScanInv, TypeOK
    <3>2. applied' \in [Kinds -> Dates] /\ running' \in [Kinds -> Nat]
      BY <1>5, <2>1, <2>2 DEF ScanInv, TypeOK
    <3>3. QED
      BY <1>1, <1>3, <2>1, <3>1, <3>2 DEF ScanInv, TypeOK
  <2>4. NumberInv' /\ LoadInv'
    BY <1>1, <2>1 DEF ScanInv, NumberInv, LoadInv
  <2>5. FreshInv'
    BY <1>4, <2>1 DEF ScanInv, FreshInv
  <2>6. AppliedInv'
    <3>1. CASE UNCHANGED <<waiting, applied>>
      BY <2>1, <3>1, Zenon DEF ScanInv, AppliedInv
    <3>2. CASE /\ generation[m.kind] = m.generation
               /\ waiting' = [waiting EXCEPT ![m.kind] = FALSE]
               /\ applied' = [applied EXCEPT ![m.kind] = m.date]
      <4>1. \A k \in Kinds \ {m.kind} : (waiting'[k] <=> waiting[k]) /\ applied'[k] = applied[k]
        BY <3>2, Zenon DEF ScanInv, TypeOK
      <4>2. applied'[m.kind] = m.date
        BY <1>5, <3>2 DEF ScanInv, TypeOK
      <4>3. m.date >= asked[m.kind]
        BY <1>5, <3>2
      <4>4. QED
        BY <2>1, <4>1, <4>2, <4>3, Zenon DEF ScanInv, AppliedInv
    <3>3. QED
      BY <2>2, <3>1, <3>2
  <2>7. ShownInv'
    BY <1>1 DEF ScanInv, ShownInv
  <2>8. QED
    BY <2>3, <2>4, <2>5, <2>6, <2>7 DEF ScanInv
<1>9. QED
  BY <1>6, <1>7, <1>8 DEF Poll, m

LEMMA NextPreserves == ScanInv /\ [ScanNext]_scanVars => ScanInv'
<1> SUFFICES ASSUME ScanInv, [ScanNext]_scanVars PROVE ScanInv'
  OBVIOUS
<1>1. CASE RequestWorkspaceScan
  BY <1>1, WorkspaceScanPreserves
<1>2. CASE \E k \in Kinds : RequestScan(k)
  BY <1>2, ListScanPreserves
<1>3. CASE Scan
  BY <1>3, BeginLoadPreserves, EndLoadPreserves, ReportScanPreserves, PanicPreserves DEF Scan
<1>4. CASE Poll
  BY <1>4, PollPreserves
<1>5. CASE UNCHANGED scanVars
  <2>1. TypeOK' /\ NumberInv' /\ LoadInv' /\ FreshInv'
    BY <1>5 DEF scanVars, ScanInv, TypeOK, NumberInv, LoadInv, FreshInv
  <2>2. AppliedInv' /\ ShownInv'
    BY <1>5, Zenon DEF scanVars, ScanInv, AppliedInv, ShownInv
  <2>3. QED
    BY <2>1, <2>2 DEF ScanInv
<1>6. QED
  BY <1>1, <1>2, <1>3, <1>4, <1>5 DEF ScanNext, RequestScans

LEMMA Invariance == ScanSpec => []ScanInv
BY InitEstablishes, NextPreserves, PTL DEF ScanSpec

(***************************************************************************)
(* Every slot, list, snapshot, worker and queued result keeps its type.    *)
(***************************************************************************)
THEOREM ScansTyped == ScanSpec => []TypeOK
<1>1. ScanInv => TypeOK
  BY DEF ScanInv
<1>2. QED
  BY <1>1, Invariance, PTL

(***************************************************************************)
(* A list that no longer says it is scanning shows what was read after its *)
(* last request (task_gate.rs, task.rs), and refreshing one list never     *)
(* cancels the snapshot the other displays (catalog_snapshot.rs): for any  *)
(* number of requests, whatever panics and however the workers interleave. *)
(***************************************************************************)
THEOREM ListsStayFresh == ScanSpec => []AnswersAreFresh
<1>1. ScanInv => AnswersAreFresh
  BY Zenon DEF ScanInv, AppliedInv, ShownInv, AnswersAreFresh
<1>2. QED
  BY <1>1, Invariance, PTL
=============================================================================
