----------------------------- MODULE RestoreFlow -----------------------------
(***************************************************************************)
(* Restoring a backup's metadata to a medium (application/write/restore.rs, *)
(* write/restore_plan.rs) and what the follow-up screen then does to one   *)
(* partition at a time: format it, or rebuild its key domain               *)
(* (application/post_restore/).  The screen works on the outcome of the    *)
(* restore (tui/restore_completion_state.rs): the identity of the restored *)
(* medium, and each partition's assessed state.                            *)
(***************************************************************************)
EXTENDS TargetSession

CONSTANT NewKey   \* the key record a rebuilt key domain gets

Restoring     == op = "Restore"
Formatting    == op = "Format"
Reinitialising == op = "Reinitialise"
FollowingUp   == Formatting \/ Reinitialising

GiveUpRestore ==
  /\ Restoring
  /\ step \in {"Review", "Confirm", "Session", "Bind", "BindProbe", "Plan",
               "Authorise", "Prepare", "Reopen", "Snapshot", "Reverify", "Write"}
  /\ Finish("Error")
  /\ UNCHANGED <<media, environment, files, operations, damage, outcome>>
-----------------------------------------------------------------------------
(***************************************************************************)
(* restore_flow_typed: the target is observed, the backup is opened and    *)
(* verified, the user confirms; the observation and the file's digest are  *)
(* what restore_metadata_on_device is then held to.                        *)
(***************************************************************************)
StartRestore ==
  /\ op = "None" /\ operations < MaxOperations /\ port # None
  /\ \E f \in Files : files[f] # None /\ job' = f
  /\ op' = "Restore" /\ step' = "Review"
  /\ operations' = operations + 1
  /\ handle' = port
  /\ status' = "None" /\ damage' = {} /\ outcome' = None
  /\ UNCHANGED <<media, environment, files, lease, geometry, probe, pin, seen, expect>>

ReviewTarget ==
  /\ Restoring /\ Go("Review", "Confirm")
  /\ Alive
  /\ seen' = image[handle]
  /\ UNCHANGED <<media, environment, files, operations, op, handle, lease,
                 geometry, job, probe, pin, expect, status, damage, outcome>>

ConfirmRestore ==
  /\ Restoring /\ Go("Confirm", "Session")
  /\ port # None /\ files[job] # None
  /\ pin' = [hw |-> Hardware[port], image |-> seen]
  /\ expect' = files[job]
  /\ UNCHANGED <<media, environment, files, operations, op, handle, lease,
                 geometry, job, probe, seen, status, damage, outcome>>

OpenRestore == Restoring /\ Open("Session", "Bind")

\* verify_resume_identity_pin: an observation of its own.
BindImage == Restoring /\ Check("Bind", "BindProbe", Alive /\ image[handle] = pin.image)

BindHardware ==
  Restoring /\ Check("BindProbe", "Plan", port # None /\ PinAcceptsHardware(pin, Hardware[port]))

\* The observation the plan and the authorisation are made from.
ReadTarget ==
  /\ Restoring /\ Go("Plan", "Authorise")
  /\ Alive
  /\ seen' = image[handle]
  /\ UNCHANGED <<media, environment, files, operations, op, handle, lease,
                 geometry, job, probe, pin, expect, status, damage, outcome>>

Protocol(i) == [device |-> IF i.kind = "Edp" THEN i.label ELSE Missing,
                onlyid |-> IF i.kind = "Edp" THEN i.label ELSE Missing]

(***************************************************************************)
(* authorize_restore.  The hardware decides; an EDP backup must moreover   *)
(* carry the identity the target has, unless the target has none.  h is    *)
(* the hardware found now, i the image the plan was made from.             *)
(***************************************************************************)
AuthoriseRestore(b, h, i, g) ==
  /\ Authorize(b.hw, Protocol(b.image), h, Protocol(i),
               [sectors |-> g[1], sectorSize |-> g[2]]) = "Authorized"
  /\ b.image.kind = "Edp" /\ i.label # Missing =>
       i.kind = "Edp" /\ b.image.label = i.label

AuthoriseTarget ==
  /\ Restoring
  /\ Check("Authorise", "Prepare",
       /\ port # None
       /\ files[job] = expect
       /\ AuthoriseRestore(expect, Hardware[port], seen, geometry))

PrepareRestore == Restoring /\ Prepare("Prepare", "Reopen")
ReopenRestore  == Restoring /\ Reopen("Reopen", "Snapshot")

\* verify_reopened_snapshot.
VerifyTarget == Restoring /\ Check("Snapshot", "Reverify", Alive /\ image[handle] = seen)

\* The second observation of the locked medium, and the authorisation again.
Reauthorise ==
  Restoring /\ Check("Reverify", "Write",
    port # None /\ AuthoriseRestore(expect, Hardware[port], seen, geometry))

(***************************************************************************)
(* build_metadata_restore_plan: an EDP backup brings its whole image.  An  *)
(* ordinary one brings the partition table; the rest of the protocol area  *)
(* is cleared where the target held a valid EDP protocol, and only there.  *)
(***************************************************************************)
Restored(b, i) ==
  IF b.image.kind = "Edp" THEN b.image
  ELSE IF i.kind = "Torn" THEN [i EXCEPT !.table = b.image.table, !.key = b.image.key]
  ELSE [kind |-> "Plain", label |-> Missing, table |-> b.image.table, key |-> b.image.key]

WriteRestore ==
  /\ Restoring /\ step = "Write" /\ Alive
  /\ \/ /\ image' = [image EXCEPT ![handle] = Restored(expect, seen)]
        /\ step' = "Observe"
        /\ UNCHANGED <<op, handle, lease, geometry, job, probe, pin, seen,
                       expect, status, damage>>
     \/ /\ Finish("RolledBack")
        /\ UNCHANGED <<media, damage>>
     \/ /\ \E i \in Torn(image[handle], Restored(expect, seen)) :
             image' = [image EXCEPT ![handle] = i]
        /\ damage' = damage \cup {<<handle, ProtocolArea>>}
        /\ Finish("Intermediate")
  /\ UNCHANGED <<parts, environment, files, operations, outcome>>
-----------------------------------------------------------------------------
(***************************************************************************)
(* The report: the restored medium's identity, where it can be observed,   *)
(* and each partition's state, where it can be read.  Nothing here undoes  *)
(* the restore's success.                                                  *)
(***************************************************************************)
Assess(m, p) ==
  IF image[m].key[p] = "Unverifiable" THEN "CryptoMetadataInvalid"
  ELSE IF parts[m][p] = Layout(image[m], p) THEN "Usable"
  ELSE "NeedsFormat"

\* An ordinary backup's partitions are looked for in the partition table only.
Assessable(i, b) == i.table = b.image.table /\ (b.image.kind = "Edp" => i.kind = "Edp")

AllUnsupported == [p \in Partitions |-> "Unsupported"]

ObserveRestored ==
  /\ Restoring /\ Go("Observe", "Repin")
  /\ seen' = IF Alive THEN image[handle] ELSE None
  /\ UNCHANGED <<media, environment, files, operations, op, handle, lease,
                 geometry, job, probe, pin, expect, status, damage, outcome>>

PinRestored ==
  /\ Restoring /\ Go("Repin", "Assess")
  /\ pin' = IF seen # None /\ port # None THEN [hw |-> Hardware[port], image |-> seen] ELSE None
  /\ UNCHANGED <<media, environment, files, operations, op, handle, lease,
                 geometry, job, probe, seen, expect, status, damage, outcome>>

ReportRestore ==
  /\ Restoring /\ step = "Assess"
  /\ outcome' = [pin |-> pin,
                 state |-> IF Alive /\ Assessable(image[handle], expect)
                           THEN [p \in Partitions |-> Assess(handle, p)]
                           ELSE AllUnsupported]
  /\ Finish("Success")
  /\ UNCHANGED <<media, environment, files, operations, damage>>
-----------------------------------------------------------------------------
(***************************************************************************)
(* begin_selected_post_restore_action: the state of the selected partition *)
(* decides what may be asked for.  Both operations need the pin and open a *)
(* handle of their own.                                                    *)
(***************************************************************************)
Offered == [NeedsFormat |-> "Format", CryptoMetadataInvalid |-> "Reinitialise"]

StartFollowUp ==
  /\ op = "None" /\ operations < MaxOperations /\ port # None
  /\ outcome # None
  /\ outcome.pin # None
  /\ \E p \in Partitions :
       /\ outcome.state[p] \in DOMAIN Offered
       /\ job' = p /\ op' = Offered[outcome.state[p]]
  /\ step' = "Session"
  /\ operations' = operations + 1
  /\ handle' = port
  /\ pin' = outcome.pin
  /\ status' = "None"
  /\ UNCHANGED <<media, environment, files, lease, geometry, probe, seen, expect,
                 damage, outcome>>

OpenFollowUp == FollowingUp /\ Open("Session", "Bind")

\* verify_current_target and the fresh assessment, before the confirmation.
\* A key domain may be rebuilt whatever the partition's state.
StillEligible == Formatting => Assess(handle, job) = "NeedsFormat"

BindFollowUpImage ==
  FollowingUp /\ Check("Bind", "BindProbe", Alive /\ image[handle] = pin.image)

\* The new key records are made from the image read here.
BindFollowUpHardware ==
  /\ FollowingUp /\ Go("BindProbe", "Prepare")
  /\ port # None /\ PinAcceptsHardware(pin, Hardware[port])
  /\ Alive /\ StillEligible
  /\ seen' = image[handle]
  /\ UNCHANGED <<media, environment, files, operations, op, handle, lease,
                 geometry, job, probe, pin, expect, status, damage, outcome>>

PrepareFollowUp == FollowingUp /\ Prepare("Prepare", "Reopen")
ReopenFollowUp  == FollowingUp /\ Reopen("Reopen", "Snapshot")

VerifyFollowUpImage ==
  FollowingUp /\ Check("Snapshot", "Reverify", Alive /\ image[handle] = pin.image)

VerifyFollowUpHardware ==
  FollowingUp /\ Check("Reverify", "Write",
    /\ port # None /\ PinAcceptsHardware(pin, Hardware[port])
    /\ Formatting => Alive /\ StillEligible)

\* Wrong variant, to test DamageIsReported: the screen keeps its authority.
QuarantineNot == outcome' = outcome

(***************************************************************************)
(* quarantine_post_restore: after a failure that leaves the medium in      *)
(* between, or unknown, the screen's authority to write is gone.           *)
(***************************************************************************)
Quarantine ==
  outcome' = IF outcome = None THEN None
             ELSE [pin |-> None, state |-> AllUnsupported]

\* LBA7 and LBA12 are written whole: every partition's record.
Rekeyed(i, p) == [i EXCEPT !.key = [seen.key EXCEPT ![p] = NewKey]]

FinishUnsafe(result) == Finish(result) /\ Quarantine

\* One transaction: the partition's data, and for a rebuilt key domain LBA7
\* and LBA12.
WriteFollowUp ==
  /\ FollowingUp /\ step = "Write" /\ Alive
  /\ LET new == IF Formatting THEN image[handle] ELSE Rekeyed(image[handle], job)
     IN \/ /\ image' = [image EXCEPT ![handle] = new]
           /\ parts' = [parts EXCEPT ![handle][job] = Layout(new, job)]
           /\ step' = "Reassess"
           /\ UNCHANGED <<op, handle, lease, geometry, job, probe, pin, seen,
                          expect, status, damage, outcome>>
        \/ /\ Finish("RolledBack")
           /\ UNCHANGED <<media, damage, outcome>>
        \/ /\ parts' = [parts EXCEPT ![handle][job] = Ruined]
           /\ \/ image' = image
              \/ Reinitialising /\ \E i \in Torn(new, new) : image' = [image EXCEPT ![handle] = i]
           /\ damage' = damage \cup {<<handle, job>>}
           /\ FinishUnsafe("Intermediate")
  /\ UNCHANGED <<environment, files, operations>>

(***************************************************************************)
(* The partition must now be usable; the screen then shows it so.  The     *)
(* screen's pin stays the restored medium's, rekeyed or not.               *)
(***************************************************************************)
FinishFollowUp ==
  /\ FollowingUp /\ step = "Reassess"
  /\ Alive /\ Assess(handle, job) = "Usable"
  /\ outcome' = [outcome EXCEPT !.state[job] = "Usable"]
  /\ Finish("Success")
  /\ UNCHANGED <<media, environment, files, operations, damage>>

\* UnverifiedAfterWrite once the transaction has committed, else a plain error.
FailFollowUp ==
  /\ FollowingUp
  /\ \/ /\ step \in {"Session", "Bind", "BindProbe", "Prepare", "Reopen",
                     "Snapshot", "Reverify", "Write"}
        /\ Finish("Error")
        /\ UNCHANGED outcome
     \/ step = "Reassess" /\ FinishUnsafe("Unknown")
  /\ UNCHANGED <<media, environment, files, operations, damage>>

\* Leaving the screen forgets the outcome.
LeaveFollowUp ==
  /\ op = "None" /\ outcome # None
  /\ outcome' = None
  /\ UNCHANGED <<media, environment, files, operations, op, step, handle, lease,
                 geometry, job, probe, pin, seen, expect, status, damage>>

RestoreNext ==
  \/ StartRestore \/ ReviewTarget \/ ConfirmRestore \/ OpenRestore
  \/ BindImage \/ BindHardware \/ ReadTarget \/ AuthoriseTarget
  \/ PrepareRestore \/ ReopenRestore \/ VerifyTarget \/ Reauthorise
  \/ WriteRestore \/ ObserveRestored \/ PinRestored \/ ReportRestore
  \/ GiveUpRestore

FollowUpNext ==
  \/ StartFollowUp \/ OpenFollowUp \/ BindFollowUpImage \/ BindFollowUpHardware
  \/ PrepareFollowUp \/ ReopenFollowUp
  \/ VerifyFollowUpImage \/ VerifyFollowUpHardware
  \/ WriteFollowUp \/ FinishFollowUp \/ FailFollowUp \/ LeaveFollowUp
=============================================================================
