---------------------------- MODULE ProvisionForm ----------------------------
(***************************************************************************)
(* The life of a provisioning form (tui/provision): its passwords are      *)
(* probed and verified in the background while the user edits, it may be   *)
(* left and entered again, and it is submitted to the planner.  A request  *)
(* that does not come from a form (stage "None") is planned as it is.      *)
(***************************************************************************)
EXTENDS ProvisionPreflight

CONSTANTS
  Forms,      \* the forms as they are opened
  Texts,      \* the passwords a user may type
  Layouts,    \* the geometry edits a user may enter
  MaxInputs   \* bound: the user's inputs to one form

\* A form is opened on a disk the program accepts, whose compatibility extent
\* lies within it (protocol/lba7_compat.rs); sizes are typed as numbers.
ASSUME FormsAssumption ==
  /\ \A f \in Forms :
       /\ f.mode \in DOMAIN Roles /\ f.total \in 1..MaxTotal /\ f.lce \in Nat
       /\ f.lce + LceSectors <= f.total
       /\ IsSource(f.old) /\ IsGeometry(f.edits)
  /\ \A edits \in Layouts : IsGeometry(edits)
  /\ None \notin Texts \union {"Default", Empty} /\ Empty # "Default"

VARIABLES
  form,      \* the form's fields
  stage,     \* ProvisionStage, or "Away" when the form was left
  editing,   \* the domain whose source password is being typed, or None
  probing,   \* a key probe whose answer will be delivered
  checking,  \* by domain, the verification whose answer will be, or None
  inputs     \* the user's inputs so far

formVars == <<form, stage, editing, probing, checking, inputs>>
allVars == <<targetVars, formVars>>

NoChecks == [d \in Domains |-> None]
NoForm == [entry |-> "form"]

\* provision_initialize_password_candidates: a domain the disk has starts with
\* the default password, under verification; a new one gets it as its target.
FreshDomain(f, d) ==
  LET has == HasDomain(f, d) /\ Active(f.mode, d)
      new == ~ HasDomain(f, d) /\ Active(f.mode, d)
  IN [source |-> IF has THEN "Default" ELSE Empty,
      check |-> IF has THEN "Verifying" ELSE "Idle", known |-> FALSE, touched |-> FALSE,
      aim |-> IF new THEN "Explicit" ELSE "Passthrough",
      target |-> IF new THEN "Default" ELSE Empty, drafted |-> FALSE,
      cipher |-> None, opaque |-> FALSE]

Opened(f) ==
  [old |-> f.old, extents |-> f.extents, lce |-> f.lce, total |-> f.total,
   mode |-> f.mode, edits |-> f.edits, format |-> f.format, fs |-> f.fs,
   algorithm |-> "Sm4", chosen |-> FALSE,
   domain |-> [d \in Domains |-> FreshDomain(f, d)]]

\* provision_normalize_target_password_mode
Normalized(f, d) ==
  LET p == f.domain[d]
  IN IF SourceState(f, d) = "NotApplicable" THEN [p EXCEPT !.aim = "Explicit"]
     ELSE IF p.aim = "Explicit" /\ SourceState(f, d) = "Verified" /\ p.source = p.target THEN
            [p EXCEPT !.aim = "Passthrough"]
     ELSE p

\* provision_prepare_target_password_edit
Prepared(f, d) ==
  LET p == f.domain[d]
  IN IF p.aim = "Explicit" THEN p
     ELSE [p EXCEPT !.aim = "Explicit",
             !.target = IF ~ p.drafted /\ SourceState(f, d) = "Verified" THEN p.source
                        ELSE IF p.target = Empty THEN "Default"
                        ELSE p.target]

\* The password of the disk's domain, and how its key is wrapped.
DiskDomain(d) ==
  form.old[CHOOSE role \in DOMAIN form.old : Domain(role) = d]
-----------------------------------------------------------------------------
FormInit ==
  \/ TargetInit /\ stage = "None" /\ form = NoForm /\ probing = FALSE
     /\ editing = None /\ checking = NoChecks /\ inputs = 0
  \/ /\ stage = "Form" /\ request = NoForm
     /\ \E f \in Forms : form = Opened(f) /\ probing = ~ Plain(f)
     /\ answer = [kind |-> "Pending"] /\ left = {}
     /\ prepared = Outcome("Pending", << >>)
     /\ editing = None /\ checking = NoChecks /\ inputs = 0

Set(d, p) == form' = [form EXCEPT !.domain[d] = p]

Input(kinds) ==
  /\ stage = "Form" /\ editing \in kinds
  /\ inputs < MaxInputs /\ inputs' = inputs + 1
  /\ UNCHANGED <<targetVars, stage>>

\* Every key typed into a source password marks it unverified.
EditSource(d) ==
  /\ Input({None}) /\ HasDomain(form, d) /\ Active(form.mode, d)
  /\ \E text \in Texts \ {form.domain[d].source} :
       Set(d, [form.domain[d] EXCEPT !.source = text, !.known = FALSE,
                                     !.touched = TRUE, !.check = "Idle"])
  /\ editing' = d
  /\ checking' = [checking EXCEPT ![d] = IF @ = None THEN None ELSE [@ EXCEPT !.current = FALSE]]
  /\ UNCHANGED probing

\* Leaving the field requests its verification.
EndInsert ==
  /\ stage = "Form" /\ editing # None
  /\ LET p == form.domain[editing]
     IN IF p.source = Empty
        THEN Set(editing, [p EXCEPT !.check = "Failed"]) /\ UNCHANGED checking
        ELSE /\ Set(editing, [p EXCEPT !.check = "Verifying"])
             /\ checking' = [checking EXCEPT ![editing] = [text |-> p.source, current |-> TRUE]]
  /\ editing' = None
  /\ UNCHANGED <<targetVars, stage, probing, inputs>>

\* The target field is normalized again when it is left.
EditTarget(d) ==
  /\ Input({None}) /\ Active(form.mode, d)
  /\ \E text \in Texts :
       LET typed == [Prepared(form, d) EXCEPT !.target = text, !.drafted = TRUE]
       IN Set(d, Normalized([form EXCEPT !.domain[d] = typed], d))
  /\ UNCHANGED <<editing, probing, checking>>

ToggleTarget(d) ==
  /\ Input({None}) /\ HasDomain(form, d) /\ Active(form.mode, d)
  /\ Set(d, IF form.domain[d].aim = "Passthrough" THEN Prepared(form, d)
            ELSE [form.domain[d] EXCEPT !.aim = "Passthrough"])
  /\ UNCHANGED <<editing, probing, checking>>

\* A required format cannot be taken back.
ToggleFormat ==
  /\ Input({None})
  /\ \E p \in FormParts(form) :
       /\ p.role # "CompatibilityReserve" /\ ~ MustRebuild(form, p)
       /\ form' = [form EXCEPT !.format =
            IF Field(p.role) \in @ THEN @ \ {Field(p.role)} ELSE @ \union {Field(p.role)}]
  /\ UNCHANGED <<editing, probing, checking>>

SwitchAlgorithm ==
  /\ Input({None})
  /\ form' = [form EXCEPT !.chosen = TRUE,
                          !.algorithm = IF @ = "Sm4" THEN "A7f0" ELSE "Sm4"]
  /\ UNCHANGED <<editing, probing, checking>>

EditGeometry ==
  /\ Input({None})
  /\ \E edits \in Layouts \ {form.edits} : form' = [form EXCEPT !.edits = edits]
  /\ UNCHANGED <<editing, probing, checking>>
-----------------------------------------------------------------------------
(***************************************************************************)
(* The answers; only a form on the screen hears them.                      *)
(***************************************************************************)
\* The default password is what the probe tried.
Probed(d) ==
  LET p == form.domain[d]
      knows == HasDomain(form, d) /\ DiskDomain(d).pw = "Default"
      facts == [p EXCEPT !.cipher = IF HasDomain(form, d) THEN DiskDomain(d).wrap ELSE None,
                         !.opaque = HasDomain(form, d) /\ DiskDomain(d).wrap = "Sm4"]
  IN IF ~ HasDomain(form, d) THEN [facts EXCEPT !.check = IF p.touched THEN @ ELSE "Idle"]
     ELSE IF p.touched \/ p.source # "Default" THEN facts
     ELSE [facts EXCEPT !.known = knows, !.check = IF knows THEN "Idle" ELSE "Failed"]

\* The algorithm of a source that has only one is the target's, too.
AdoptedAlgorithm ==
  LET ciphers == {DiskDomain(d).wrap : d \in {e \in Domains : HasDomain(form, e)}}
  IN IF ~ form.chosen /\ Cardinality(ciphers) = 1
     THEN CHOOSE c \in ciphers : TRUE ELSE form.algorithm

KeyProbeDone ==
  /\ stage = "Form" /\ probing
  /\ LET f == [form EXCEPT !.domain = [d \in Domains |-> Probed(d)],
                           !.algorithm = AdoptedAlgorithm]
         silent == [d \in Domains |->
                      [form.domain[d] EXCEPT !.check = IF @ = "Verifying" THEN "Idle" ELSE @]]
     IN \/ form' = [f EXCEPT !.domain = [d \in Domains |-> Normalized(f, d)]]
        \/ form' = [form EXCEPT !.domain = silent]
  /\ probing' = FALSE
  /\ UNCHANGED <<targetVars, stage, editing, checking, inputs>>

\* Wrong variant, to test AnswersMatchTheText: the revision is not compared.
VerifyDoneAnyRevision(d) ==
  /\ stage = "Form" /\ checking[d] # None
  /\ LET p == form.domain[d]
         opens == checking[d].text = DiskDomain(d).pw /\ DiskDomain(d).wrap = "Sm4"
         verified == [p EXCEPT !.known = TRUE, !.check = "Idle"]
     IN \/ /\ opens
           /\ Set(d, Normalized([form EXCEPT !.domain[d] = verified], d))
        \/ Set(d, [p EXCEPT !.known = FALSE, !.check = "Failed"])
  /\ checking' = [checking EXCEPT ![d] = None]
  /\ UNCHANGED <<targetVars, stage, editing, probing, inputs>>

\* An answer about a text that has changed since is dropped.
VerifyDone(d) ==
  /\ stage = "Form" /\ checking[d] # None
  /\ LET p == form.domain[d]
         opens == checking[d].text = DiskDomain(d).pw /\ DiskDomain(d).wrap = "Sm4"
         verified == [p EXCEPT !.known = TRUE, !.check = "Idle"]
     IN IF ~ checking[d].current THEN UNCHANGED form
        ELSE \/ /\ opens
                /\ Set(d, Normalized([form EXCEPT !.domain[d] = verified], d))
             \/ Set(d, [p EXCEPT !.known = FALSE, !.check = "Failed"])
  /\ checking' = [checking EXCEPT ![d] = None]
  /\ UNCHANGED <<targetVars, stage, editing, probing, inputs>>
-----------------------------------------------------------------------------
\* retain_provision_context: off the screen, every pending answer is void.
LeaveTo(place) ==
  /\ stage = "Form" /\ editing = None
  /\ stage' = place
  /\ probing' = FALSE /\ checking' = NoChecks
  /\ UNCHANGED <<form, editing, inputs>>

Leave == LeaveTo("Away") /\ UNCHANGED targetVars

\* provision_begin_selected, for the same disk and mode: the form as it was,
\* and a new key probe.
Reenter ==
  /\ stage = "Away" /\ inputs < MaxInputs /\ inputs' = inputs + 1
  /\ stage' = "Form" /\ probing' = ~ Plain(form)
  /\ UNCHANGED <<targetVars, form, editing, checking>>

Submit ==
  /\ LeaveTo("Planning") /\ MaySubmit(form)
  /\ request' = RequestOf(form)
  /\ UNCHANGED <<answer, prepared, left>>

\* provision_finish_plan takes over what the planner found out about the
\* passwords.
Learned(d) ==
  IF d \in {Domain(role) : role \in DOMAIN form.old} \ {None}
     /\ \E i \in DOMAIN prepared'.parts :
          Domain(prepared'.parts[i].role) = d /\ prepared'.parts[i].role \in DOMAIN form.old
  THEN [form.domain[d] EXCEPT !.known =
          VerifiedPassword(request, CHOOSE role \in DOMAIN form.old : Domain(role) = d) # None]
  ELSE form.domain[d]

FinishPlan ==
  /\ stage = "Planning" /\ PrepareTarget
  /\ IF prepared'.kind = "Ready"
     THEN stage' = "Review" /\ form' = [form EXCEPT !.domain = [d \in Domains |-> Learned(d)]]
     ELSE stage' = "Refused" /\ UNCHANGED form
  /\ UNCHANGED <<editing, probing, checking, inputs>>

\* provision_return_review_to_form, provision_transition_plan_failed
ReturnToForm ==
  /\ stage \in {"Review", "Refused"} /\ inputs < MaxInputs /\ inputs' = inputs + 1
  /\ stage' = "Form"
  /\ request' = NoForm /\ prepared' = Outcome("Pending", << >>)
  /\ UNCHANGED <<answer, left, form, editing, probing, checking>>

FormNext ==
  \/ stage = "None" /\ TargetNext /\ UNCHANGED formVars
  \/ \E d \in Domains : EditSource(d) \/ EditTarget(d) \/ ToggleTarget(d) \/ VerifyDone(d)
  \/ EndInsert \/ ToggleFormat \/ SwitchAlgorithm \/ EditGeometry \/ KeyProbeDone
  \/ Leave \/ Reenter \/ Submit \/ FinishPlan \/ ReturnToForm

FormSpec == FormInit /\ [][FormNext]_allVars
-----------------------------------------------------------------------------
(***************************************************************************)
(* The form decides from the scan and the probe, the planner from the disk *)
(* itself, each with its own rules. What the form showed when it was       *)
(* submitted is what the plan does: a partition shown as kept is kept with *)
(* its key, one shown as rewrapped is rewrapped, and nothing is formatted  *)
(* that was not shown as rebuilt. Only where the form takes a password for *)
(* verified that the disk does not have (what it learned from an earlier   *)
(* plan was about the default one) is a rewrapping shown whose target is   *)
(* the password of the disk already: then the key is left as it is. And a  *)
(* submitted form is planned: whatever was edited and verified before, the *)
(* planner refuses it only for what the form cannot see, an unread file    *)
(* system, a legacy record of another password, an older wrap, or such a   *)
(* mistaken password. This is said of the refusals that Prepare models and *)
(* of a disk that stays as the form found it: a read that fails, or        *)
(* another disk behind the form, is refused as well.                       *)
(***************************************************************************)
Fate(p) == IF p.disposition = "Rebuild" THEN "Rebuild"
           ELSE IF p.disposition = "RewrapVerified" THEN "Rewrap"
           ELSE IF Domain(p.role) = None THEN "Preserve"
           ELSE "Passthrough"

Mistaken(f, role) ==
  /\ role \in DOMAIN f.old /\ Domain(role) # None
  /\ SourceState(f, Domain(role)) = "Verified"
  /\ f.domain[Domain(role)].source # f.old[role].pw

Hidden(f, role) ==
  LET p == f.old[role]
  IN \/ p.fs = None
     \/ Domain(role) # None /\ (p.legacy # p.pw \/ p.wrap # "Sm4")
     \/ Mistaken(f, role)

PlanIsAsShown ==
  stage = "Planning" =>
    LET plan == Prepare(request)
    IN /\ \A p \in Range(plan.parts) :
            \/ Shown(form, p).kind = Fate(p)
            \/ /\ Mistaken(form, p.role)
               /\ Shown(form, p).kind = "Rewrap" /\ Fate(p) = "Passthrough"
       /\ (\A role \in DOMAIN form.old : ~ Hidden(form, role)) => plan.kind = "Ready"

(***************************************************************************)
(* An answer is believed only for the text it is about: however keys,      *)
(* probe and verifications interleave, a source password becomes verified  *)
(* on the form only when the text in its field opens the disk.             *)
(***************************************************************************)
AnswersMatchTheText ==
  [][\A d \in Domains :
       stage = "Form" /\ stage' = "Form" /\ ~ form.domain[d].known /\ form'.domain[d].known
       => form'.domain[d].source = DiskDomain(d).pw]_allVars

(***************************************************************************)
(* What preflight_tests.rs says and the code does not keep: "destructive   *)
(* rebuild cannot silently reuse an unverified source password".  A        *)
(* partition formatted with the password it has is submitted only when     *)
(* that password was verified.                                             *)
(***************************************************************************)
RebuildsUseVerifiedPasswords ==
  stage = "Planning" => \A d \in Domains :
    HasDomain(form, d) /\ form.domain[d].aim = "Passthrough" /\ d \in request.format
    => SourceState(form, d) = "Verified"
=============================================================================
