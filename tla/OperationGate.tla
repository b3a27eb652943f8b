---------------------------- MODULE OperationGate ----------------------------
(***************************************************************************)
(* Which keys may start, hide or abandon a critical operation in the       *)
(* terminal interface: the screens (src/src/tui/state.rs and the states of *)
(* its features), the handlers a key passes in order (runtime_input.rs),   *)
(* the shell's critical flag that every handler relies on, and the hub's   *)
(* operation slot (task.rs) the flag is to mirror.  A key or a completion  *)
(* is one step; the loop looks for a deferred exit after each.             *)
(***************************************************************************)
EXTENDS Naturals

VARIABLES
  focus,       \* the workspace: "Devices", "Backups" or "Provision"
  picker,      \* the provisioning scheme picker is open
  stage,       \* provision.stage
  prepared,    \* provision.prepared: "None", or a plan of "ThisForm" or of a "DiscardedForm"
  wizard,      \* restore.wizard: closed, or its stage
  deletion,    \* backups.delete: closed, or its stage
  cleanup,     \* backups.prune or backups.batch_delete: closed, or its stage
  critical,    \* shell.critical_operation
  exitPending, \* shell.exit_pending
  active,      \* the hub's active_operation, by its kind
  planning,    \* the hub's plan_slot: "None", or for whom it plans
  exporting,   \* the hub's export_slot is taken
  scanning,    \* a scan of the devices is still to be delivered
  loop         \* "Running" until the interface's loop ends

form    == <<focus, picker, stage, prepared>>
dialogs == <<wizard, deletion, cleanup>>
tasks == <<active, planning, exporting, scanning>>

vars == <<form, dialogs, critical, exitPending, tasks, loop>>

MediaWriters == {"Restore", "Format", "Provision"}

\* The handlers of handle_key, in the order a key meets them.
Open            == loop = "Running"
ProvisionScreen == picker \/ focus = "Provision"
CleanupDialog   == cleanup \in {"Input", "Planning", "Confirm"}
DeletionDialog  == deletion = "Confirm"
WizardDialog    == wizard # "Closed"

ProvisionKeys == Open /\ ProvisionScreen
CleanupKeys   == Open /\ ~ProvisionScreen /\ CleanupDialog
DeletionKeys  == Open /\ ~ProvisionScreen /\ ~CleanupDialog /\ DeletionDialog
WizardKeys    == /\ Open /\ ~ProvisionScreen /\ ~CleanupDialog
                 /\ ~DeletionDialog /\ WizardDialog
ShellKeys     == /\ Open /\ ~ProvisionScreen /\ ~CleanupDialog
                 /\ ~DeletionDialog /\ ~WizardDialog

\* guard_critical_command on a command that starts or closes something.
Guarded == ~critical

\* Wrong variant, to test DeferredExitHappens: the deferred exit is only
\* looked at when the key is pressed.
FlagsKeepExit(c, e) == critical' = c /\ exitPending' = e /\ loop' = loop

\* take_deferred_exit, evaluated on the flags a step leaves.
Flags(c, e) ==
  /\ critical' = c
  /\ exitPending' = (e /\ c)
  /\ loop' = IF e /\ ~c THEN "Done" ELSE loop

Lower == Flags(FALSE, exitPending)
Raise == Flags(TRUE, exitPending)
Stay  == UNCHANGED <<critical, exitPending, loop>>

\* A plan still being made belongs to the form it was asked from.
Orphaned(plan) == IF plan = "ThisForm" THEN "DiscardedForm" ELSE plan
-----------------------------------------------------------------------------
\* The interface as it stands once the first scan has been delivered.
Init ==
  /\ focus = "Devices" /\ picker = FALSE /\ stage = "Form" /\ prepared = "None"
  /\ wizard = "Closed" /\ deletion = "Closed" /\ cleanup = "Closed"
  /\ critical = FALSE /\ exitPending = FALSE
  /\ active = "None" /\ planning = "None"
  /\ exporting = FALSE /\ scanning = FALSE
  /\ loop = "Running"

\* Wrong variant of the key below, to test ShownWriteIsGuarded: the screens
\* with a running operation leave at once.
QuitKeyAtOnce ==
  /\ Open
  /\ IF critical /\ wizard # "Running" THEN Flags(TRUE, TRUE)
     ELSE loop' = "Done" /\ UNCHANGED <<critical, exitPending>>
  /\ UNCHANGED <<form, dialogs, tasks>>

(***************************************************************************)
(* q leaves at once, or defers.  Where a dialog swallows the key, the      *)
(* notice details that F2 opens over it pass it on.                        *)
(***************************************************************************)
QuitKey ==
  /\ Open
  /\ IF critical THEN Flags(TRUE, TRUE)
     ELSE loop' = "Done" /\ UNCHANGED <<critical, exitPending>>
  /\ UNCHANGED <<form, dialogs, tasks>>

\* Tab is let through while an operation runs.
SwitchWorkspace ==
  /\ ShellKeys
  /\ focus' = IF focus = "Devices" THEN "Backups" ELSE "Devices"
  /\ Stay
  /\ UNCHANGED <<picker, stage, prepared, dialogs, tasks>>

Refresh ==
  /\ Guarded
  /\ \/ ShellKeys /\ focus = "Devices"
     \/ /\ ProvisionKeys /\ ~picker
        /\ stage \in {"Form", "Review", "Result"}
  /\ scanning' = TRUE
  /\ Stay
  /\ UNCHANGED <<form, dialogs, active, planning, exporting>>
-----------------------------------------------------------------------------
(***************************************************************************)
(* Starting an operation: the state enters its running screen and raises   *)
(* the flag, then the hub is asked; a refusal is applied as the            *)
(* operation's own failure, which lowers the flag.                         *)
(***************************************************************************)
Granted == active = "None"

Request(operation) ==
  /\ active' = IF Granted THEN operation ELSE active
  /\ IF Granted THEN Raise ELSE Lower
  /\ UNCHANGED <<planning, exporting, scanning>>

BeginWizard ==
  /\ ShellKeys
  /\ Guarded
  /\ wizard' \in {"RestoreConfirm", "BackupConfirm"}
  /\ Stay
  /\ UNCHANGED <<form, deletion, cleanup, tasks>>

\* Wrong variant, to test DialogsBelongToOperations: the hub's refusal is not
\* applied to the wizard.
ConfirmRestoreUnanswered ==
  /\ WizardKeys
  /\ wizard = "RestoreConfirm"
  /\ wizard' = "Running"
  /\ Request("Restore")
  /\ UNCHANGED <<form, deletion, cleanup>>

ConfirmRestore ==
  /\ WizardKeys
  /\ wizard = "RestoreConfirm"
  /\ wizard' = IF Granted THEN "Running" ELSE "Result"
  /\ Request("Restore")
  /\ UNCHANGED <<form, deletion, cleanup>>

\* Without the rights to write, the loop ends to start the program again.
ElevateRestore ==
  /\ WizardKeys
  /\ wizard = "RestoreConfirm"
  /\ wizard' = "Running"
  /\ critical' = TRUE
  /\ loop' = "Done"
  /\ UNCHANGED <<form, deletion, cleanup, exitPending, tasks>>

ConfirmBackupCreate ==
  /\ WizardKeys
  /\ wizard = "BackupConfirm"
  /\ wizard' = IF Granted THEN "Running" ELSE "Result"
  /\ Request("BackupCreate")
  /\ UNCHANGED <<form, deletion, cleanup>>

\* The formatting and key rebuilding dialogs of the restored partitions.
ChooseFormat ==
  /\ WizardKeys
  /\ wizard = "PostRestore"
  /\ wizard' = "FormatConfirm"
  /\ Stay
  /\ UNCHANGED <<form, deletion, cleanup, tasks>>

ConfirmFormat ==
  /\ WizardKeys
  /\ wizard = "FormatConfirm"
  /\ wizard' = IF Granted THEN "Running" ELSE "PostRestore"
  /\ Request("Format")
  /\ UNCHANGED <<form, deletion, cleanup>>

LeaveWizard ==
  /\ WizardKeys
  /\ \/ /\ wizard \in {"RestoreConfirm", "BackupConfirm", "PostRestore", "Result"}
        /\ Guarded
        /\ wizard' = "Closed"
     \/ wizard = "FormatConfirm" /\ wizard' = "PostRestore"
  /\ Stay
  /\ UNCHANGED <<form, deletion, cleanup, tasks>>

BeginDelete ==
  /\ ShellKeys
  /\ focus = "Backups"
  /\ Guarded
  /\ deletion' = "Confirm"
  /\ Stay
  /\ UNCHANGED <<form, wizard, cleanup, tasks>>

ConfirmDelete ==
  /\ DeletionKeys
  /\ deletion' = IF Granted THEN "Running" ELSE "Closed"
  /\ Request("Delete")
  /\ UNCHANGED <<form, wizard, cleanup>>

CancelDelete ==
  /\ DeletionKeys
  /\ Guarded
  /\ deletion' = "Closed"
  /\ Stay
  /\ UNCHANGED <<form, wizard, cleanup, tasks>>

\* Pruning asks how many to keep first, the deletion of a selection does not.
BeginCleanup ==
  /\ ShellKeys
  /\ Guarded
  /\ cleanup = "Closed"
  /\ cleanup' \in {"Input", "Planning"}
  /\ focus' = "Backups"
  /\ Stay
  /\ UNCHANGED <<picker, stage, prepared, wizard, deletion, tasks>>

PlanCleanup ==
  /\ CleanupKeys
  /\ cleanup = "Input"
  /\ cleanup' = "Planning"
  /\ Stay
  /\ UNCHANGED <<form, wizard, deletion, tasks>>

ConfirmCleanup ==
  /\ CleanupKeys
  /\ cleanup = "Confirm"
  /\ cleanup' = IF Granted THEN "Running" ELSE "Closed"
  /\ Request("Cleanup")
  /\ UNCHANGED <<form, wizard, deletion>>

CancelCleanup ==
  /\ CleanupKeys
  /\ cleanup \in {"Input", "Confirm"}
  /\ Guarded
  /\ cleanup' = "Closed"
  /\ Stay
  /\ UNCHANGED <<form, wizard, deletion, tasks>>
-----------------------------------------------------------------------------
(***************************************************************************)
(* Provisioning.  The picker and the form do not consult the guard.        *)
(***************************************************************************)
OpenPicker ==
  /\ ShellKeys
  /\ focus = "Devices"
  /\ picker' = TRUE
  /\ stage' = "Form"
  /\ Stay
  /\ UNCHANGED <<focus, prepared, dialogs, tasks>>

ClosePicker ==
  /\ ProvisionKeys
  /\ picker
  /\ stage = "Result" => Guarded
  /\ picker' = FALSE
  /\ Stay
  /\ UNCHANGED <<focus, stage, prepared, dialogs, tasks>>

\* A new form; the plan of an earlier one may still be on its way.
ChooseScheme ==
  /\ ProvisionKeys
  /\ picker
  /\ stage # "Result"
  /\ picker' = FALSE /\ focus' = "Provision" /\ stage' = "Form"
  /\ prepared' = "None"
  /\ planning' = Orphaned(planning)
  /\ Stay
  /\ UNCHANGED <<dialogs, active, exporting, scanning>>

\* A key of the workbench that takes it from one stage to another.
Workbench(from, to) ==
  /\ ProvisionKeys /\ ~picker
  /\ stage = from
  /\ stage' = to
  /\ UNCHANGED <<focus, picker, dialogs>>

\* While an earlier plan is still being made, the request is refused and the
\* refusal is applied as the plan's failure.
PlanProvision ==
  /\ Workbench("Form", IF planning = "None" THEN "Planning" ELSE "Form")
  /\ planning' = IF planning = "None" THEN "ThisForm" ELSE planning
  /\ Stay
  /\ UNCHANGED <<prepared, active, exporting, scanning>>

BeginExport ==
  /\ prepared # "None"
  /\ Workbench("Review", "ExportPath")
  /\ Stay
  /\ UNCHANGED <<prepared, tasks>>

BeginConfirm ==
  /\ prepared # "None"
  /\ Workbench("Review", "Confirm")
  /\ Stay
  /\ UNCHANGED <<prepared, tasks>>

\* provision_take_export; the export is not an operation of the hub's slot.
ConfirmExport ==
  /\ Workbench("ExportPath", IF exporting THEN "Review" ELSE "Exporting")
  /\ exporting' = TRUE
  /\ IF exporting THEN Lower ELSE Raise
  /\ UNCHANGED <<prepared, active, planning, scanning>>

\* provision_transition_return_to_review lowers the flag; Esc in the path's
\* dialog reaches it without the guard.
CancelExport ==
  /\ Workbench("ExportPath", "Review")
  /\ Lower
  /\ UNCHANGED <<prepared, tasks>>

ConfirmProvision ==
  /\ Workbench("Confirm", IF Granted THEN "Running" ELSE "Result")
  /\ prepared' = "None"
  /\ Request("Provision")

LeaveConfirm ==
  /\ Guarded
  /\ Workbench("Confirm", "Review")
  /\ Stay
  /\ UNCHANGED <<prepared, tasks>>

LeaveReview ==
  /\ Guarded
  /\ Workbench("Review", "Form")
  /\ prepared' = "None"
  /\ Stay
  /\ UNCHANGED tasks

\* provision_reset and restore_workspace_frame.
DiscardForm ==
  /\ stage' = "Form" /\ prepared' = "None" /\ picker' = FALSE
  /\ focus' = "Devices"
  /\ planning' = Orphaned(planning)

LeaveProvision ==
  /\ Guarded
  /\ ProvisionKeys /\ ~picker
  /\ stage \in {"Form", "Result"}
  /\ DiscardForm
  /\ Stay
  /\ UNCHANGED <<dialogs, active, exporting, scanning>>
-----------------------------------------------------------------------------
(***************************************************************************)
(* Completions, as the poll applies them.  Each operation's finish lowers  *)
(* the flag; those that may have changed the medium have it scanned.       *)
(***************************************************************************)
Finishes(operation, scans) ==
  /\ Open
  /\ active = operation
  /\ active' = "None"
  /\ scanning' \in {scanning} \union scans
  /\ Lower
  /\ UNCHANGED <<focus, picker, prepared, planning, exporting>>

RestoreFinishes ==
  /\ Finishes("Restore", {TRUE}) /\ scanning'
  /\ wizard' \in {"PostRestore", "Result"}
  /\ UNCHANGED <<stage, deletion, cleanup>>

FormatFinishes ==
  /\ Finishes("Format", {TRUE})
  /\ wizard' = "PostRestore"
  /\ UNCHANGED <<stage, deletion, cleanup>>

BackupCreateFinishes ==
  /\ Finishes("BackupCreate", {})
  /\ wizard' = "Result"
  /\ UNCHANGED <<stage, deletion, cleanup>>

DeleteFinishes ==
  /\ Finishes("Delete", {})
  /\ deletion' = "Closed"
  /\ UNCHANGED <<stage, wizard, cleanup>>

CleanupFinishes ==
  /\ Finishes("Cleanup", {})
  /\ cleanup' = "Closed"
  /\ UNCHANGED <<stage, wizard, deletion>>

ProvisionFinishes ==
  /\ Finishes("Provision", {TRUE})
  /\ stage' = "Result"
  /\ UNCHANGED dialogs

\* provision_finish_plan, wherever the workbench is by then.
PlanFinishes ==
  /\ Open
  /\ planning # "None"
  /\ planning' = "None"
  /\ \/ stage' = "Review" /\ prepared' = planning
     \/ stage' = "Form" /\ UNCHANGED prepared
  /\ Stay
  /\ UNCHANGED <<focus, picker, dialogs, active, exporting, scanning>>

\* Wrong variant, to test GuardHasAWorker: an export whose screen has gone is
\* not applied.
ExportFinishesOnItsScreen ==
  /\ Open
  /\ exporting
  /\ exporting' = FALSE
  /\ IF stage = "Exporting" THEN stage' = "Review" /\ Lower
     ELSE Stay /\ UNCHANGED stage
  /\ UNCHANGED <<focus, picker, prepared, dialogs, active, planning, scanning>>

ExportFinishes ==
  /\ Open
  /\ exporting
  /\ exporting' = FALSE
  /\ stage' = "Review"
  /\ Lower
  /\ UNCHANGED <<focus, picker, prepared, dialogs, active, planning, scanning>>

CleanupPlanFinishes ==
  /\ Open
  /\ cleanup = "Planning"
  /\ cleanup' \in {"Confirm", "Input", "Closed"}
  /\ Stay
  /\ UNCHANGED <<form, wizard, deletion, tasks>>

(***************************************************************************)
(* replace_devices: the target may be as it was, be another device or be   *)
(* gone.  A changed identity spares a running transaction, an absent       *)
(* target does not.                                                        *)
(***************************************************************************)
TargetLost(target) ==
  /\ focus = "Provision"
  /\ \/ target = "Absent" /\ stage # "Result"
     \/ target = "Changed" /\ stage \notin {"Running", "Result"}

DevicesScanned ==
  /\ Open
  /\ scanning
  /\ scanning' = FALSE
  /\ \E target \in {"Same", "Changed", "Absent"} :
       IF TargetLost(target) THEN DiscardForm ELSE UNCHANGED <<form, planning>>
  /\ Stay
  /\ UNCHANGED <<dialogs, active, exporting>>

OperationFinishes ==
  \/ RestoreFinishes \/ FormatFinishes \/ BackupCreateFinishes
  \/ DeleteFinishes \/ CleanupFinishes \/ ProvisionFinishes

Completion ==
  OperationFinishes \/ PlanFinishes \/ ExportFinishes \/ CleanupPlanFinishes
  \/ DevicesScanned

Key ==
  \/ QuitKey \/ SwitchWorkspace \/ Refresh
  \/ BeginWizard \/ ConfirmRestore \/ ElevateRestore \/ ConfirmBackupCreate
  \/ ChooseFormat \/ ConfirmFormat \/ LeaveWizard
  \/ BeginDelete \/ ConfirmDelete \/ CancelDelete
  \/ BeginCleanup \/ PlanCleanup \/ ConfirmCleanup \/ CancelCleanup
  \/ OpenPicker \/ ClosePicker \/ ChooseScheme
  \/ PlanProvision \/ BeginExport \/ BeginConfirm
  \/ ConfirmExport \/ CancelExport \/ ConfirmProvision
  \/ LeaveConfirm \/ LeaveReview \/ LeaveProvision

Next == Key \/ Completion

\* Every worker ends and the loop polls; nobody has to press a key.
Spec ==
  /\ Init /\ [][Next]_vars
  /\ WF_vars(OperationFinishes)
  /\ WF_vars(ExportFinishes)
-----------------------------------------------------------------------------
(***************************************************************************)
(* While a transaction on the medium is on the screen, nothing but its own *)
(* report, or the end of an export begun before it, lowers the flag, and   *)
(* no key ends the loop: leaving would kill the worker between a write and *)
(* its rollback.                                                           *)
(***************************************************************************)
WriteOnScreen ==
  \/ active \in {"Restore", "Format"} /\ wizard = "Running"
  \/ active = "Provision" /\ stage = "Running"

ShownWriteIsGuarded ==
  [][WriteOnScreen /\ critical /\ ~exporting
       => active' = "None" \/ (critical' /\ loop' = "Running")]_vars

(***************************************************************************)
(* A dialog that shows a running operation, and that no key can close,     *)
(* belongs to the operation that will close it, whatever the hub refused   *)
(* and whatever else completed meanwhile.                                  *)
(***************************************************************************)
DialogsBelongToOperations ==
  loop = "Running" =>
    /\ wizard = "Running" <=> active \in {"Restore", "Format", "BackupCreate"}
    /\ deletion = "Running" => active = "Delete"
    /\ cleanup = "Running" => active = "Cleanup"
    /\ stage = "Running" => active = "Provision"

(***************************************************************************)
(* The flag is never up without a worker whose completion lowers it: the   *)
(* interface cannot lock itself for good.                                  *)
(***************************************************************************)
GuardHasAWorker ==
  loop = "Running" /\ critical => active # "None" \/ exporting

(***************************************************************************)
(* A deferred exit is not forgotten: it is taken when the operation ends.  *)
(***************************************************************************)
DeferredExitHappens == exitPending ~> loop = "Done"

(***************************************************************************)
(* "In a critical phase q, Esc and Ctrl-C only register a deferred exit"   *)
(* (docs/ui/TUI.md): no sequence of keys ends the interface, or lowers     *)
(* its guard, while a transaction writes the medium.                       *)
(***************************************************************************)
MediaWriteNotAbandoned ==
  active \in MediaWriters => critical /\ loop = "Running"

(***************************************************************************)
(* "Before execution, refuse to carry an old form, reviewed plan or        *)
(* confirmation onto a newly scanned physical target" (state.rs): the plan *)
(* under review is the one made from the form on the screen.               *)
(***************************************************************************)
PlanBelongsToForm ==
  focus = "Provision" /\ stage \in {"Review", "ExportPath", "Confirm"}
    => prepared # "DiscardedForm"
=============================================================================
