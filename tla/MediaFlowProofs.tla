--------------------------- MODULE MediaFlowProofs ---------------------------
(***************************************************************************)
(* Whatever media are exchanged and whatever other programs write to them: *)
(* each write of the provisioning, of the restore and of the follow-up     *)
(* reaches the medium it was authorised for, and none follows an           *)
(* interrupted one.                                                        *)
(***************************************************************************)
EXTENDS MediaFlow, TLAPS

\* Between the lock of the medium and the end of the session.
Leased == {"Reopen", "Snapshot", "Reverify", "Write", "Readback",
           "FormatCheck", "FormatWrite", "FormatVerify", "Release",
           "Observe", "Repin", "Assess", "Reassess"}

\* A provisioning up to its transaction, and from there on.
Planning == {"Read", "Pin", "Backup", "Store", "Verify", "Commit", "Session",
             "Prepare", "Reopen", "Snapshot", "Reverify", "Write"}
Written  == {"Readback", "FormatCheck", "FormatWrite", "FormatVerify", "Release"}

ShapeInv ==
  /\ DOMAIN image = Media /\ DOMAIN parts = Media
  /\ \A m \in Media : DOMAIN parts[m] = Partitions
  /\ port \in Media \cup {None}
  /\ meddles \in Nat
  /\ op \in {"None", "Provision", "Restore", "Format", "Reinitialise"}
  /\ op = "None" => step = "Idle"

\* A live handle reaches what is plugged in, and is written to under a lease.
SessionInv ==
  /\ Alive => handle = port
  /\ step \in Leased => lease # "Free"

DamageInv ==
  /\ op \in {"Provision", "Restore"} => outcome = None
  /\ damage # {} => /\ op = "None" /\ status = "Intermediate"
                    /\ outcome # None => outcome.pin = None

\* Provisioning works on accepted hardware, on the planned image, and then on
\* its own; what it no longer has to format is formatted.
ProvisionInv ==
  Provisioning =>
    /\ DOMAIN job = {"target", "formats", "left", "backup"}
    /\ job.formats \subseteq Partitions /\ job.left \subseteq job.formats
    /\ step \in Planning => job.left = job.formats
    /\ step = "Release" => job.left = {}
    /\ Alive /\ step \in Written \cup {"Write"} => PinAcceptsHardware(pin, Hardware[handle])
    /\ Alive /\ lease = "Held" =>
         /\ step \in {"Reverify", "Write"} => image[handle] = pin.image
         /\ step \in Written =>
              /\ image[handle] = job.target
              /\ \A p \in job.formats : p \notin job.left =>
                   parts[handle][p] = Layout(job.target, p)
         /\ step = "FormatVerify" => \A p \in job.left : p = First(job.left) =>
              parts[handle][p] = Layout(job.target, p)

RestoreInv ==
  Restoring =>
    /\ Alive /\ step = "Write" => AuthoriseRestore(expect, Hardware[handle], seen, geometry)
    /\ Alive /\ lease = "Held" /\ step \in {"Reverify", "Write"} => image[handle] = seen

FollowUpInv ==
  FollowingUp =>
    /\ pin = outcome.pin
    /\ Alive /\ step = "Write" => PinAcceptsHardware(pin, Hardware[handle])
    /\ Alive /\ lease = "Held" /\ step \in {"Reverify", "Write"} => image[handle] = pin.image

IInv == ShapeInv /\ SessionInv /\ DamageInv /\ ProvisionInv /\ RestoreInv /\ FollowUpInv
-----------------------------------------------------------------------------
(***************************************************************************)
(* One step of each flow at a time.  A step that ends its operation leaves *)
(* only DamageInv to show; a reading that passed adds what it checked; an  *)
(* exchange takes handle and lease away, and with them every claim about   *)
(* what is plugged in.                                                     *)
(***************************************************************************)
LEMMA InitEstablishes == Init => IInv
  BY MediaAssumption, FirstMediaAssumption, SMT
  DEF Init, IInv, ShapeInv, SessionInv, DamageInv, ProvisionInv, RestoreInv,
      FollowUpInv, Provisioning, Restoring, FollowingUp, Formatting,
      Reinitialising, Alive, Leased

LEMMA EnvironmentPreserves ==
  ASSUME IInv, Exchange \/ MeddleWithMedium \/ MeddleWithBackup
  PROVE  IInv'
<1> USE MediaAssumption
    DEF IInv, ShapeInv, SessionInv, DamageInv, ProvisionInv, RestoreInv,
        FollowUpInv, Leased, Planning, Written, Provisioning, Restoring,
        FollowingUp, Formatting, Reinitialising, Alive, Go, Check, Open,
        Prepare, Reopen, Finish, environment, media
<1>1. CASE Exchange
  BY <1>1, SMT DEF Exchange
<1>2. CASE MeddleWithMedium
  BY <1>2, SMT DEF MeddleWithMedium
<1>3. CASE MeddleWithBackup
  BY <1>3, SMT DEF MeddleWithBackup
<1> QED
  BY <1>1, <1>2, <1>3

LEMMA ProvisionPreserves ==
  ASSUME IInv, ProvisionNext
  PROVE  IInv'
<1> USE MediaAssumption
    DEF IInv, ShapeInv, SessionInv, DamageInv, ProvisionInv, RestoreInv,
        FollowUpInv, Leased, Planning, Written, Provisioning, Restoring,
        FollowingUp, Formatting, Reinitialising, Alive, Go, Check, Open,
        Prepare, Reopen, Finish, environment, media
<1>1. CASE StartProvision
  BY <1>1, SMT DEF StartProvision
<1>2. CASE ReadSource
  BY <1>2, SMT DEF ReadSource
<1>3. CASE PinSource
  BY <1>3, SMT DEF PinSource
<1>4. CASE ReadForBackup
  BY <1>4, SMT DEF ReadForBackup
<1>5. CASE StoreBackup
  BY <1>5, SMT DEF StoreBackup
<1>6. CASE VerifyBackup
  BY <1>6, SMT DEF VerifyBackup
<1>7. CASE OpenForCommit
  BY <1>7, SMT DEF OpenForCommit
<1>8. CASE OpenProvision
  BY <1>8, SMT DEF OpenProvision
<1>9. CASE PrepareProvision
  BY <1>9, SMT DEF PrepareProvision
<1>10. CASE ReopenProvision
  BY <1>10, SMT DEF ReopenProvision
<1>11. CASE VerifySnapshot
  BY <1>11, SMT DEF VerifySnapshot
<1>12. CASE VerifyHardware
  BY <1>12, SMT DEF VerifyHardware
<1>13. CASE WriteProvision
  BY <1>13, SMT DEF WriteProvision
<1>14. CASE ReadbackProvision
  BY <1>14, SMT DEF ReadbackProvision
<1>15. CASE CheckFormat
  BY <1>15, SMT DEF CheckFormat
<1>16. CASE WriteFormat
  BY <1>16, SMT DEF WriteFormat
<1>17. CASE VerifyFormat
  BY <1>17, SMT DEF VerifyFormat
<1>18. CASE FailFormat
  BY <1>18, SMT DEF FailFormat
<1>19. CASE ReleaseProvision
  BY <1>19, SMT DEF ReleaseProvision
<1>20. CASE RecordLineage
  BY <1>20, SMT DEF RecordLineage
<1>21. CASE GiveUp
  BY <1>21, SMT DEF GiveUp
<1> QED
  BY <1>1, <1>2, <1>3, <1>4, <1>5, <1>6, <1>7, <1>8, <1>9, <1>10, <1>11,
     <1>12, <1>13, <1>14, <1>15, <1>16, <1>17, <1>18, <1>19, <1>20, <1>21, Zenon DEF ProvisionNext

LEMMA RestorePreserves ==
  ASSUME IInv, RestoreNext
  PROVE  IInv'
<1> USE MediaAssumption
    DEF IInv, ShapeInv, SessionInv, DamageInv, ProvisionInv, RestoreInv,
        FollowUpInv, Leased, Planning, Written, Provisioning, Restoring,
        FollowingUp, Formatting, Reinitialising, Alive, Go, Check, Open,
        Prepare, Reopen, Finish, environment, media
<1>1. CASE StartRestore
  BY <1>1, SMT DEF StartRestore
<1>2. CASE ReviewTarget
  BY <1>2, SMT DEF ReviewTarget
<1>3. CASE ConfirmRestore
  BY <1>3, SMT DEF ConfirmRestore
<1>4. CASE OpenRestore
  BY <1>4, SMT DEF OpenRestore
<1>5. CASE BindImage
  BY <1>5, SMT DEF BindImage
<1>6. CASE BindHardware
  BY <1>6, SMT DEF BindHardware
<1>7. CASE ReadTarget
  BY <1>7, SMT DEF ReadTarget
<1>8. CASE AuthoriseTarget
  BY <1>8, SMT DEF AuthoriseTarget
<1>9. CASE PrepareRestore
  BY <1>9, SMT DEF PrepareRestore
<1>10. CASE ReopenRestore
  BY <1>10, SMT DEF ReopenRestore
<1>11. CASE VerifyTarget
  BY <1>11, SMT DEF VerifyTarget
<1>12. CASE Reauthorise
  BY <1>12, SMT DEF Reauthorise
<1>13. CASE WriteRestore
  BY <1>13, SMT DEF WriteRestore
<1>14. CASE ObserveRestored
  BY <1>14, SMT DEF ObserveRestored
<1>15. CASE PinRestored
  BY <1>15, SMT DEF PinRestored
<1>16. CASE ReportRestore
  BY <1>16, SMT DEF ReportRestore
<1>17. CASE GiveUpRestore
  BY <1>17, SMT DEF GiveUpRestore
<1> QED
  BY <1>1, <1>2, <1>3, <1>4, <1>5, <1>6, <1>7, <1>8, <1>9, <1>10, <1>11,
     <1>12, <1>13, <1>14, <1>15, <1>16, <1>17, Zenon DEF RestoreNext

LEMMA FollowUpPreserves ==
  ASSUME IInv, FollowUpNext
  PROVE  IInv'
<1> USE MediaAssumption
    DEF IInv, ShapeInv, SessionInv, DamageInv, ProvisionInv, RestoreInv,
        FollowUpInv, Leased, Planning, Written, Provisioning, Restoring,
        FollowingUp, Formatting, Reinitialising, Alive, Go, Check, Open,
        Prepare, Reopen, Finish, environment, media
<1>1. CASE StartFollowUp
  BY <1>1, SMT DEF StartFollowUp, Offered
<1>2. CASE OpenFollowUp
  BY <1>2, SMT DEF OpenFollowUp
<1>3. CASE BindFollowUpImage
  BY <1>3, SMT DEF BindFollowUpImage
<1>4. CASE BindFollowUpHardware
  BY <1>4, SMT DEF BindFollowUpHardware
<1>5. CASE PrepareFollowUp
  BY <1>5, SMT DEF PrepareFollowUp
<1>6. CASE ReopenFollowUp
  BY <1>6, SMT DEF ReopenFollowUp
<1>7. CASE VerifyFollowUpImage
  BY <1>7, SMT DEF VerifyFollowUpImage
<1>8. CASE VerifyFollowUpHardware
  BY <1>8, SMT DEF VerifyFollowUpHardware
<1>9. CASE WriteFollowUp
  BY <1>9, SMT DEF WriteFollowUp, FinishUnsafe, Quarantine
<1>10. CASE FinishFollowUp
  BY <1>10, SMT DEF FinishFollowUp
<1>11. CASE FailFollowUp
  BY <1>11, SMT DEF FailFollowUp, FinishUnsafe, Quarantine
<1>12. CASE LeaveFollowUp
  BY <1>12, SMT DEF LeaveFollowUp
<1> QED
  BY <1>1, <1>2, <1>3, <1>4, <1>5, <1>6, <1>7, <1>8, <1>9, <1>10, <1>11,
     <1>12, Zenon DEF FollowUpNext

LEMMA NextPreserves == IInv /\ [Next]_vars => IInv'
<1> SUFFICES ASSUME IInv, [Next]_vars PROVE IInv'
  OBVIOUS
<1>1. CASE Next
  BY <1>1, EnvironmentPreserves, ProvisionPreserves, RestorePreserves,
     FollowUpPreserves DEF Next
<1>2. CASE UNCHANGED vars
  <2> USE <1>2 DEF vars, Alive, Formatting, Reinitialising
  <2>1. ShapeInv' /\ SessionInv' /\ DamageInv'
    BY Zenon DEF IInv, ShapeInv, SessionInv, DamageInv
  <2>2. ProvisionInv'
    BY Zenon DEF IInv, ProvisionInv, Provisioning
  <2>3. RestoreInv'
    BY Zenon DEF IInv, RestoreInv, Restoring
  <2>4. FollowUpInv'
    BY Zenon DEF IInv, FollowUpInv, FollowingUp
  <2> QED
    BY <2>1, <2>2, <2>3, <2>4, Zenon DEF IInv
<1> QED
  BY <1>1, <1>2

\* The invariant of every operation, as long as media and hardware allow.
THEOREM MediaFlowInvariant == Spec => []IInv
  BY InitEstablishes, NextPreserves, PTL DEF Spec

(***************************************************************************)
(* An interrupted write ends as one, and takes the follow-up screen's      *)
(* authority with it.                                                      *)
(***************************************************************************)
THEOREM DamageShows == Spec => []DamageIsReported
<1>1. IInv => DamageIsReported
  BY DEF IInv, DamageInv, DamageIsReported
<1> QED
  BY MediaFlowInvariant, <1>1, PTL
-----------------------------------------------------------------------------
(***************************************************************************)
(* The four transactions, and nothing else the program does, change a      *)
(* medium.                                                                 *)
(***************************************************************************)
LEMMA OnlyTransactionsWrite ==
  ASSUME IInv, Next, NEW m \in Media, Writes(m)
  PROVE  WriteProvision \/ WriteFormat \/ WriteRestore \/ WriteFollowUp
<1>1. ~MeddleWithMedium
  BY SMT DEF MeddleWithMedium, Writes, IInv, ShapeInv
<1>2. ~UNCHANGED media
  BY Zenon DEF Writes, media
<1> QED
  BY <1>1, <1>2, Zenon
  DEF Next, ProvisionNext, RestoreNext, FollowUpNext, Check, Open, Prepare,
      Reopen,
      Exchange, MeddleWithBackup, StartProvision, ReadSource, PinSource,
      ReadForBackup, StoreBackup, VerifyBackup, OpenForCommit,
      OpenProvision, PrepareProvision, ReopenProvision, VerifySnapshot,
      VerifyHardware, ReadbackProvision, CheckFormat, VerifyFormat,
      FailFormat, ReleaseProvision, RecordLineage, GiveUp, StartRestore,
      ReviewTarget, ConfirmRestore, OpenRestore, BindImage, BindHardware,
      ReadTarget, AuthoriseTarget, PrepareRestore, ReopenRestore,
      VerifyTarget, Reauthorise, ObserveRestored, PinRestored,
      ReportRestore, GiveUpRestore, StartFollowUp, OpenFollowUp,
      BindFollowUpImage, BindFollowUpHardware, PrepareFollowUp,
      ReopenFollowUp, VerifyFollowUpImage, VerifyFollowUpHardware,
      FinishFollowUp, FailFollowUp, LeaveFollowUp

\* They run under a lease, on the medium that is plugged in, while nothing is
\* left damaged.
LEMMA TransactionsHitTheHandle ==
  ASSUME IInv, Next, NEW m \in Media, Writes(m)
  PROVE  Alive /\ m = handle /\ m = port /\ lease # "Free" /\ damage = {}
<1> USE DEF IInv, ShapeInv, SessionInv, DamageInv, Leased, Writes, Alive, media,
        FollowingUp, Formatting, Reinitialising, Provisioning, Restoring
<1>1. CASE WriteProvision
  BY <1>1, SMT DEF WriteProvision
<1>2. CASE WriteFormat
  BY <1>2, SMT DEF WriteFormat
<1>3. CASE WriteRestore
  BY <1>3, SMT DEF WriteRestore
<1>4. CASE WriteFollowUp
  BY <1>4, SMT DEF WriteFollowUp
<1> QED
  BY <1>1, <1>2, <1>3, <1>4, OnlyTransactionsWrite

\* No operation writes after an interrupted write, its own or an earlier one's.
THEOREM DamageIsFinal == Spec => NothingIsWrittenOverDamage
<1>1. IInv /\ [Next]_vars => [\A m \in Media : Writes(m) => damage = {}]_vars
  BY TransactionsHitTheHandle, Zenon
<1> QED
  BY MediaFlowInvariant, <1>1, PTL DEF Spec, NothingIsWrittenOverDamage

(***************************************************************************)
(* What an authorisation means: a usable serial on both sides, the same    *)
(* one, and the geometry that the session measured.                        *)
(***************************************************************************)
LEMMA AuthorisedIsTheMedium ==
  ASSUME NEW b, NEW h, NEW i, NEW g, AuthoriseRestore(b, h, i, g)
  PROVE  CompareUsableSerials(b.hw, h) = "Match" /\ b.hw.sectors = h.sectors
<1> DEFINE q == Protocol(b.image)
           r == Protocol(i)
           measured == [sectors |-> g[1], sectorSize |-> g[2]]
<1>1. Authorize(b.hw, q, h, r, measured) = "Authorized"
  BY DEF AuthoriseRestore
<1> HIDE DEF q, r, measured
<1>2. /\ "Serial" \notin Conflicts(b.hw, h)
      /\ FitsGeometry(b.hw, measured) /\ FitsGeometry(h, measured)
      /\ CompareUsableSerials(b.hw, h) # "Missing"
  BY <1>1, Zenon DEF Authorize
<1>3. CompareUsableSerials(b.hw, h) # "Mismatch"
  BY <1>2, SMT DEF Conflicts
<1>4. CompareUsableSerials(b.hw, h) \in {"Missing", "Match", "Mismatch"}
  BY SMT DEF CompareUsableSerials
<1> QED
  BY <1>2, <1>3, <1>4 DEF FitsGeometry

(***************************************************************************)
(* Exchanges and other programs included: a write reaches the medium that  *)
(* is plugged in, on hardware the operation accepted, and under a lease    *)
(* that was not lost the image on it is the one that was looked at.        *)
(***************************************************************************)
THEOREM WritesAreAimed == Spec => WritesHitTheirMedium
<1> DEFINE Aimed(m) ==
      /\ lease # "Free" /\ port = m
      /\ CASE Provisioning -> PinAcceptsHardware(pin, Hardware[m])
           [] Restoring    -> /\ CompareUsableSerials(expect.hw, Hardware[m]) = "Match"
                              /\ expect.hw.sectors = Hardware[m].sectors
           [] FollowingUp  -> PinAcceptsHardware(outcome.pin, Hardware[m])
      /\ lease = "Held" =>
           image[m] = CASE Provisioning -> IF step = "Write" THEN pin.image ELSE job.target
                        [] Restoring    -> seen
                        [] FollowingUp  -> outcome.pin.image
<1>1. ASSUME IInv, Next, NEW m \in Media, op # "None", Writes(m)
      PROVE  Aimed(m)
  <2>1. Alive /\ m = handle /\ m = port /\ lease # "Free"
    BY <1>1, TransactionsHitTheHandle
  <2> USE <1>1, <2>1 DEF IInv, ProvisionInv, RestoreInv, FollowUpInv, Provisioning,
          Restoring, FollowingUp, Formatting, Reinitialising, Written
  <2>2. CASE WriteProvision
    BY <2>2, SMT DEF WriteProvision
  <2>3. CASE WriteFormat
    BY <2>3, SMT DEF WriteFormat
  <2>4. CASE WriteRestore
    <3>1. Restoring /\ step = "Write"
      BY <2>4 DEF WriteRestore
    <3>2. CompareUsableSerials(expect.hw, Hardware[m]) = "Match"
          /\ expect.hw.sectors = Hardware[m].sectors
      BY <3>1, AuthorisedIsTheMedium
    <3> QED
      BY <3>1, <3>2, SMT
  <2>5. CASE WriteFollowUp
    <3>1. FollowingUp /\ ~Provisioning /\ ~Restoring /\ step = "Write"
      BY <2>5 DEF WriteFollowUp
    <3>2. /\ PinAcceptsHardware(outcome.pin, Hardware[m])
          /\ lease = "Held" => image[m] = outcome.pin.image
      BY <3>1
    <3> QED
      BY <2>1, <3>1, <3>2, Zenon
  <2> QED
    BY <1>1, <2>2, <2>3, <2>4, <2>5, OnlyTransactionsWrite
<1>2. IInv /\ [Next]_vars => [\A m \in Media : op # "None" /\ Writes(m) => Aimed(m)]_vars
  <2> HIDE DEF Aimed
  <2> QED
    BY <1>1, Zenon
<1> QED
  BY MediaFlowInvariant, <1>2, PTL DEF Spec, WritesHitTheirMedium

\* A receipt without reservations stands for the whole plan.
THEOREM ReceiptsAreComplete == Spec => SuccessMeansComplete
<1>1. IInv /\ [Next]_vars =>
        [Provisioning /\ step = "Release" /\ Alive /\ lease = "Held" /\ step' = "Lineage" =>
           /\ image[handle] = job.target
           /\ \A p \in job.formats : parts[handle][p] = Layout(job.target, p)]_vars
  BY SMT DEF IInv, ProvisionInv, Written
<1> QED
  BY MediaFlowInvariant, <1>1, PTL DEF Spec, SuccessMeansComplete
-----------------------------------------------------------------------------
(***************************************************************************)
(* The backup.  Every image on a medium or in a file is well formed: the   *)
(* identity tells an EDP disk from an ordinary one.                        *)
(***************************************************************************)
Deciding == {"Session", "Bind", "BindProbe", "Plan", "Authorise", "Prepare",
             "Reopen", "Snapshot", "Reverify", "Write"}

ImagesInv ==
  /\ \A m \in Media : WellFormed(image[m])
  /\ DOMAIN files = Files
  /\ \A f \in Files : files[f] # None => WellFormed(files[f].image)
  /\ Provisioning => job.target \in Targets
  /\ Provisioning /\ step \in {"Pin", "Store"} => WellFormed(seen)
  /\ Restoring => job \in Files
  /\ Restoring /\ step \in Deciding => WellFormed(expect.image)
  /\ Restoring /\ step \in Deciding \ {"Session", "Bind", "BindProbe", "Plan"} => WellFormed(seen)

LEMMA TornIsWellFormed ==
  ASSUME NEW i, NEW j, WellFormed(j), NEW k \in Torn(i, j)
  PROVE  WellFormed(k)
<1>1. PICK l \in {i.label, j.label} : k = [j EXCEPT !.kind = "Torn", !.label = l]
  BY DEF Torn
<1>2. DOMAIN k = DOMAIN j /\ k.kind = "Torn"
  BY <1>1, SMT DEF WellFormed
<1> QED
  BY <1>2, SMT DEF WellFormed

LEMMA RestoredIsWellFormed ==
  ASSUME NEW b, WellFormed(b.image), NEW i, WellFormed(i)
  PROVE  WellFormed(Restored(b, i))
  BY SMT DEF Restored, WellFormed

LEMMA RekeyedIsWellFormed ==
  ASSUME NEW i, WellFormed(i), NEW p PROVE WellFormed(Rekeyed(i, p))
  BY SMT DEF Rekeyed, WellFormed

LEMMA BackupIsWellFormed ==
  ASSUME NEW h, NEW i, WellFormed(i), NEW t
  PROVE  Backup(h, i, t) # None => WellFormed(Backup(h, i, t).image)
  BY SMT DEF Backup, WellFormed


LEMMA EnvironmentKeepsImages ==
  ASSUME IInv, ImagesInv, Exchange \/ MeddleWithMedium \/ MeddleWithBackup
  PROVE  ImagesInv'
<1> USE MediaAssumption, ImagesAssumption
    DEF IInv, ShapeInv, SessionInv, ProvisionInv, ImagesInv, Deciding,
        Provisioning, Restoring, FollowingUp, Formatting, Reinitialising,
        Alive, Go, Check, Open, Prepare, Reopen, Finish, environment, media
<1>1. CASE Exchange
  BY <1>1, SMT DEF Exchange
<1>2. CASE MeddleWithMedium
  BY <1>2, SMT DEF MeddleWithMedium
<1>3. CASE MeddleWithBackup
  BY <1>3, SMT DEF MeddleWithBackup
<1> QED
  BY <1>1, <1>2, <1>3

LEMMA ProvisionKeepsImages ==
  ASSUME IInv, ImagesInv, ProvisionNext
  PROVE  ImagesInv'
<1> USE MediaAssumption, ImagesAssumption
    DEF IInv, ShapeInv, SessionInv, ProvisionInv, ImagesInv, Deciding,
        Provisioning, Restoring, FollowingUp, Formatting, Reinitialising,
        Alive, Go, Check, Open, Prepare, Reopen, Finish, environment, media
<1>1. CASE StartProvision
  BY <1>1, SMT DEF StartProvision
<1>2. CASE ReadSource
  BY <1>2, SMT DEF ReadSource
<1>3. CASE PinSource
  BY <1>3, SMT DEF PinSource
<1>4. CASE ReadForBackup
  BY <1>4, SMT DEF ReadForBackup
<1>5. CASE StoreBackup
  BY <1>5, BackupIsWellFormed, SMT DEF StoreBackup
<1>6. CASE VerifyBackup
  BY <1>6, SMT DEF VerifyBackup
<1>7. CASE OpenForCommit
  BY <1>7, SMT DEF OpenForCommit
<1>8. CASE OpenProvision
  BY <1>8, SMT DEF OpenProvision
<1>9. CASE PrepareProvision
  BY <1>9, SMT DEF PrepareProvision
<1>10. CASE ReopenProvision
  BY <1>10, SMT DEF ReopenProvision
<1>11. CASE VerifySnapshot
  BY <1>11, SMT DEF VerifySnapshot
<1>12. CASE VerifyHardware
  BY <1>12, SMT DEF VerifyHardware
<1>13. CASE WriteProvision
  BY <1>13, TornIsWellFormed, SMT DEF WriteProvision
<1>14. CASE ReadbackProvision
  BY <1>14, SMT DEF ReadbackProvision
<1>15. CASE CheckFormat
  BY <1>15, SMT DEF CheckFormat
<1>16. CASE WriteFormat
  BY <1>16, SMT DEF WriteFormat
<1>17. CASE VerifyFormat
  BY <1>17, SMT DEF VerifyFormat
<1>18. CASE FailFormat
  BY <1>18, SMT DEF FailFormat
<1>19. CASE ReleaseProvision
  BY <1>19, SMT DEF ReleaseProvision
<1>20. CASE RecordLineage
  BY <1>20, SMT DEF RecordLineage
<1>21. CASE GiveUp
  BY <1>21, SMT DEF GiveUp
<1> QED
  BY <1>1, <1>2, <1>3, <1>4, <1>5, <1>6, <1>7, <1>8, <1>9, <1>10, <1>11, <1>12, <1>13, <1>14, <1>15, <1>16, <1>17, <1>18, <1>19, <1>20, <1>21, Zenon DEF ProvisionNext

LEMMA RestoreKeepsImages ==
  ASSUME IInv, ImagesInv, RestoreNext
  PROVE  ImagesInv'
<1> USE MediaAssumption, ImagesAssumption
    DEF IInv, ShapeInv, SessionInv, ProvisionInv, ImagesInv, Deciding,
        Provisioning, Restoring, FollowingUp, Formatting, Reinitialising,
        Alive, Go, Check, Open, Prepare, Reopen, Finish, environment, media
<1>1. CASE StartRestore
  BY <1>1, SMT DEF StartRestore
<1>2. CASE ReviewTarget
  BY <1>2, SMT DEF ReviewTarget
<1>3. CASE ConfirmRestore
  BY <1>3, SMT DEF ConfirmRestore
<1>4. CASE OpenRestore
  BY <1>4, SMT DEF OpenRestore
<1>5. CASE BindImage
  BY <1>5, SMT DEF BindImage
<1>6. CASE BindHardware
  BY <1>6, SMT DEF BindHardware
<1>7. CASE ReadTarget
  BY <1>7, SMT DEF ReadTarget
<1>8. CASE AuthoriseTarget
  BY <1>8, SMT DEF AuthoriseTarget
<1>9. CASE PrepareRestore
  BY <1>9, SMT DEF PrepareRestore
<1>10. CASE ReopenRestore
  BY <1>10, SMT DEF ReopenRestore
<1>11. CASE VerifyTarget
  BY <1>11, SMT DEF VerifyTarget
<1>12. CASE Reauthorise
  BY <1>12, SMT DEF Reauthorise
<1>13. CASE WriteRestore
  BY <1>13, RestoredIsWellFormed, TornIsWellFormed, SMT DEF WriteRestore
<1>14. CASE ObserveRestored
  BY <1>14, SMT DEF ObserveRestored
<1>15. CASE PinRestored
  BY <1>15, SMT DEF PinRestored
<1>16. CASE ReportRestore
  BY <1>16, SMT DEF ReportRestore
<1>17. CASE GiveUpRestore
  BY <1>17, SMT DEF GiveUpRestore
<1> QED
  BY <1>1, <1>2, <1>3, <1>4, <1>5, <1>6, <1>7, <1>8, <1>9, <1>10, <1>11, <1>12, <1>13, <1>14, <1>15, <1>16, <1>17, Zenon DEF RestoreNext

LEMMA FollowUpKeepsImages ==
  ASSUME IInv, ImagesInv, FollowUpNext
  PROVE  ImagesInv'
<1> USE MediaAssumption, ImagesAssumption
    DEF IInv, ShapeInv, SessionInv, ProvisionInv, ImagesInv, Deciding,
        Provisioning, Restoring, FollowingUp, Formatting, Reinitialising,
        Alive, Go, Check, Open, Prepare, Reopen, Finish, environment, media
<1>1. CASE StartFollowUp
  BY <1>1, SMT DEF StartFollowUp, Offered
<1>2. CASE OpenFollowUp
  BY <1>2, SMT DEF OpenFollowUp
<1>3. CASE BindFollowUpImage
  BY <1>3, SMT DEF BindFollowUpImage
<1>4. CASE BindFollowUpHardware
  BY <1>4, SMT DEF BindFollowUpHardware
<1>5. CASE PrepareFollowUp
  BY <1>5, SMT DEF PrepareFollowUp
<1>6. CASE ReopenFollowUp
  BY <1>6, SMT DEF ReopenFollowUp
<1>7. CASE VerifyFollowUpImage
  BY <1>7, SMT DEF VerifyFollowUpImage
<1>8. CASE VerifyFollowUpHardware
  BY <1>8, SMT DEF VerifyFollowUpHardware
<1>9. CASE WriteFollowUp
  BY <1>9, RekeyedIsWellFormed, TornIsWellFormed, SMT DEF WriteFollowUp, FinishUnsafe
<1>10. CASE FinishFollowUp
  BY <1>10, SMT DEF FinishFollowUp
<1>11. CASE FailFollowUp
  BY <1>11, SMT DEF FailFollowUp, FinishUnsafe
<1>12. CASE LeaveFollowUp
  BY <1>12, SMT DEF LeaveFollowUp
<1> QED
  BY <1>1, <1>2, <1>3, <1>4, <1>5, <1>6, <1>7, <1>8, <1>9, <1>10, <1>11, <1>12, Zenon DEF FollowUpNext

(***************************************************************************)
(* The backup was made from a reading that had the planned identity, and   *)
(* agrees with the pin since it was verified: it is the planned image's    *)
(* kind, because the identity gives the kind away.                         *)
(***************************************************************************)
BackedUp == {"Commit", "Session", "Prepare", "Reopen", "Snapshot", "Reverify", "Write"}

BackupInv ==
  Provisioning =>
    /\ step \in {"Backup", "Store", "Verify"} \cup BackedUp =>
         WellFormed(pin.image) /\ pin.image.kind # "Torn"
    /\ step \in {"Store", "Verify"} \cup BackedUp =>
         WellFormed(seen) /\ (Edp(pin.image) => seen.label = pin.image.label)
    /\ step \in {"Verify"} \cup BackedUp => seen.kind # "Torn"
    /\ step \in BackedUp => BackupIsOfPin(expect)

LEMMA ProvisionKeepsBackup ==
  ASSUME IInv, ImagesInv, BackupInv, ProvisionNext
  PROVE  BackupInv'
<1> USE MediaAssumption
    DEF ShapeInv, SessionInv, ImagesInv, BackupInv, BackupIsOfPin, BackedUp,
        Provisioning, Alive, Go, Check, Open, Prepare, Reopen, Finish
<1>1. CASE StartProvision
  BY <1>1, SMT DEF IInv, StartProvision
<1>2. CASE ReadSource
  BY <1>2, SMT DEF IInv, ReadSource
<1>3. CASE PinSource
  BY <1>3, SMT DEF IInv, PinSource
<1>4. CASE ReadForBackup
  BY <1>4, SMT DEF IInv, ReadForBackup
<1>5. CASE StoreBackup
  BY <1>5, SMT DEF IInv, StoreBackup
<1>6. CASE VerifyBackup
  BY <1>6, SMT DEF IInv, VerifyBackup
<1>7. CASE OpenForCommit
  BY <1>7, SMT DEF IInv, OpenForCommit
<1>8. CASE OpenProvision
  BY <1>8, SMT DEF IInv, OpenProvision
<1>9. CASE PrepareProvision
  BY <1>9, SMT DEF IInv, PrepareProvision
<1>10. CASE ReopenProvision
  BY <1>10, SMT DEF IInv, ReopenProvision
<1>11. CASE VerifySnapshot
  BY <1>11, SMT DEF IInv, VerifySnapshot
<1>12. CASE VerifyHardware
  BY <1>12, SMT DEF IInv, VerifyHardware
<1>13. CASE WriteProvision
  BY <1>13, SMT DEF IInv, WriteProvision
<1>14. CASE ReadbackProvision
  BY <1>14, SMT DEF IInv, ReadbackProvision
<1>15. CASE CheckFormat
  BY <1>15, SMT DEF IInv, CheckFormat
<1>16. CASE WriteFormat
  BY <1>16, SMT DEF IInv, WriteFormat
<1>17. CASE VerifyFormat
  BY <1>17, SMT DEF IInv, VerifyFormat
<1>18. CASE FailFormat
  BY <1>18, SMT DEF IInv, FailFormat
<1>19. CASE ReleaseProvision
  BY <1>19, SMT DEF IInv, ReleaseProvision
<1>20. CASE RecordLineage
  BY <1>20, SMT DEF IInv, RecordLineage
<1>21. CASE GiveUp
  BY <1>21, SMT DEF IInv, GiveUp
<1> QED
  BY <1>1, <1>2, <1>3, <1>4, <1>5, <1>6, <1>7, <1>8, <1>9, <1>10, <1>11, <1>12, <1>13, <1>14, <1>15, <1>16, <1>17, <1>18, <1>19, <1>20, <1>21, Zenon DEF ProvisionNext

\* The other operations are never a provisioning, and do not become one.
LEMMA OthersKeepBackup ==
  ASSUME BackupInv, \/ Exchange \/ MeddleWithMedium \/ MeddleWithBackup
                    \/ RestoreNext \/ FollowUpNext
  PROVE  BackupInv'
<1>1. CASE Exchange \/ MeddleWithMedium \/ MeddleWithBackup
  BY <1>1, Zenon DEF Exchange, MeddleWithMedium, MeddleWithBackup, BackupInv,
     BackupIsOfPin, Provisioning
<1>2. CASE RestoreNext \/ FollowUpNext
  <2>1. op' # "Provision"
    BY <1>2, SMT DEF RestoreNext, FollowUpNext, Restoring, FollowingUp, Formatting, Reinitialising,
       Check, Open, Prepare, Reopen, Finish, FinishUnsafe, Offered,
       StartRestore, ReviewTarget, ConfirmRestore, OpenRestore, BindImage,
       BindHardware, ReadTarget, AuthoriseTarget, PrepareRestore,
       ReopenRestore, VerifyTarget, Reauthorise, WriteRestore,
       ObserveRestored, PinRestored, ReportRestore, GiveUpRestore,
       StartFollowUp, OpenFollowUp, BindFollowUpImage,
       BindFollowUpHardware, PrepareFollowUp, ReopenFollowUp,
       VerifyFollowUpImage, VerifyFollowUpHardware, WriteFollowUp,
       FinishFollowUp, FailFollowUp, LeaveFollowUp
  <2> QED
    BY <2>1 DEF BackupInv, Provisioning
<1> QED
  BY <1>1, <1>2

BackupIInv == IInv /\ ImagesInv /\ BackupInv

LEMMA BackupInvariance == Spec => []BackupIInv
<1>1. Init => BackupIInv
  <2>1. Init => IInv
    BY InitEstablishes
  <2>2. Init => ImagesInv
    BY ImagesAssumption, FirstMediaAssumption, BackupIsWellFormed, SMT
    DEF Init, ImagesInv, Provisioning, Restoring
  <2>3. Init => BackupInv
    BY Zenon DEF Init, BackupInv, Provisioning
  <2> QED
    BY <2>1, <2>2, <2>3 DEF BackupIInv
<1>2. BackupIInv /\ [Next]_vars => BackupIInv'
  <2> SUFFICES ASSUME BackupIInv, [Next]_vars PROVE BackupIInv'
    OBVIOUS
  <2>1. IInv'
    BY NextPreserves DEF BackupIInv
  <2>2. CASE Next
    <3>1. ImagesInv'
      BY <2>2, EnvironmentKeepsImages, ProvisionKeepsImages, RestoreKeepsImages,
         FollowUpKeepsImages DEF BackupIInv, Next
    <3>2. BackupInv'
      BY <2>2, ProvisionKeepsBackup, OthersKeepBackup DEF BackupIInv, Next
    <3> QED
      BY <2>1, <3>1, <3>2 DEF BackupIInv
  <2>3. CASE UNCHANGED vars
    BY <2>1, <2>3, Zenon DEF vars, BackupIInv, ImagesInv, BackupInv,
       BackupIsOfPin, Provisioning, Restoring
  <2> QED
    BY <2>2, <2>3
<1> QED
  BY <1>1, <1>2, PTL DEF Spec

(***************************************************************************)
(* When provisioning changes a medium, under a lease that was not lost,    *)
(* what its backup kept is what the medium holds at that moment, whoever   *)
(* changed medium or file since the plan was made.                         *)
(***************************************************************************)
THEOREM BackupIsOfWhatIsOverwritten == Spec => BackupPrecedesProvisioning
<1> DEFINE Kept(m) ==
      /\ PinAcceptsHardware([hw |-> expect.hw], Hardware[m]) \/ ~Usable(pin.hw)
      /\ expect.image.kind = image[m].kind
      /\ expect.image.table = image[m].table
      /\ Edp(image[m]) => expect.image = image[m]
<1>1. ASSUME BackupIInv, Next, NEW m \in Media,
             Provisioning, step = "Write", lease = "Held", Writes(m)
      PROVE  Kept(m)
  <2>1. Alive /\ m = handle
    BY <1>1, TransactionsHitTheHandle DEF BackupIInv
  <2>2. image[m] = pin.image /\ PinAcceptsHardware(pin, Hardware[m])
    BY <1>1, <2>1 DEF BackupIInv, IInv, ProvisionInv
  <2>3. /\ WellFormed(pin.image) /\ pin.image.kind # "Torn"
        /\ WellFormed(seen) /\ seen.kind # "Torn"
        /\ Edp(pin.image) => seen.label = pin.image.label
        /\ BackupIsOfPin(expect)
    BY <1>1 DEF BackupIInv, BackupInv, BackedUp
  <2>4. pin.image.kind = seen.kind
    BY <2>3, SMT DEF BackupIsOfPin, WellFormed, Edp
  <2>5. PinAcceptsHardware([hw |-> expect.hw], Hardware[m]) \/ ~Usable(pin.hw)
    BY <2>2, <2>3, SMT DEF BackupIsOfPin, PinAcceptsHardware
  <2> QED
    BY <2>2, <2>3, <2>4, <2>5, SMT DEF BackupIsOfPin, Edp
<1>2. BackupIInv /\ [Next]_vars =>
        [\A m \in Media : Provisioning /\ step = "Write" /\ lease = "Held" /\ Writes(m)
           => Kept(m)]_vars
  <2> HIDE DEF Kept
  <2> QED
    BY <1>1, Zenon
<1> QED
  BY BackupInvariance, <1>2, PTL DEF Spec, BackupPrecedesProvisioning
=============================================================================
