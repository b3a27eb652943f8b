------------------------- MODULE ProvisionPreflight -------------------------
(***************************************************************************)
(* The provisioning form's own forecast (application/provision/preflight.rs *)
(* with decide_password_intent): from what the form knows, not from the    *)
(* disk, what will become of each partition, whether the form may be       *)
(* submitted, and the request it submits.                                  *)
(*                                                                         *)
(* A form f has the scanned disk (old, extents, lce, total), the mode, the *)
(* geometry edits, the fields to format and their fs, the target algorithm, *)
(* and for each key domain                                                 *)
(*   source, target   the passwords in its two fields                      *)
(*   aim              the target password's mode                           *)
(*   known, check     source_knowledge and the verification's state        *)
(*   cipher, opaque   what the key probe reported                          *)
(*   touched, drafted the source, the target was typed into                *)
(***************************************************************************)
EXTENDS TargetPlan, Functions

CONSTANT Empty  \* the text of an empty field

Domains == {"share", "encrypt"}

Plain(f) == DOMAIN f.old = {}
HasDomain(f, d) == \E role \in DOMAIN f.old : Domain(role) = d
Active(mode, d) == \E i \in DOMAIN Roles[mode] : Domain(Roles[mode][i]) = d
SameCipher(f, d) == f.domain[d].cipher = f.algorithm

\* provision_source_password_state
SourceState(f, d) ==
  IF ~ HasDomain(f, d) THEN "NotApplicable"
  ELSE IF f.domain[d].check # "Idle" THEN f.domain[d].check
  ELSE IF f.domain[d].known THEN "Verified"
  ELSE "Unknown"

\* decide_password_intent, for the fields p of a domain.
Decide(p, state, same, formatted) ==
  IF state = "NotApplicable" THEN
         IF p.aim = "Explicit" /\ p.target # Empty THEN "InitializeNew"
         ELSE "NeedsTargetPassword"
  ELSE IF formatted THEN
         IF IF p.aim = "Explicit" THEN p.target # Empty ELSE state = "Verified"
         THEN "Rebuild" ELSE "NeedsTargetPassword"
  ELSE IF state = "Verifying" THEN "Waiting"
  ELSE IF ~ same THEN "NeedsFormat"
  ELSE IF p.aim = "Passthrough" THEN "Passthrough"
  ELSE IF state # "Verified" THEN "NeedsFormat"
  ELSE IF p.target = p.source THEN "Passthrough"
  ELSE "Rewrap"

\* provision_password_intent
Intent(f, d, formatted) ==
  Decide(f.domain[d], SourceState(f, d), SameCipher(f, d), formatted)
-----------------------------------------------------------------------------
\* The compatibility reserve has no fields of its own.
Editable(mode, edits) ==
  IF mode = "WholeDiskEncrypted" THEN [edits EXCEPT !.boot = None, !.bootStart = None]
  ELSE edits

FormLayout(f) ==
  Overridden(Prefill(f.old, f.mode, f.lce), f.old, f.mode, Editable(f.mode, f.edits))

WithRoles(roles, slots) ==
  [i \in DOMAIN slots |-> [role |-> roles[i], start |-> slots[i].start, count |-> slots[i].count]]

FormParts(f) == Range(WithRoles(Roles[f.mode], Slots(f.mode, FormLayout(f))))

\* PreserveAssessment: neither the file system nor the key is looked at.
Candidate(f, p) ==
  /\ p.role \in DOMAIN f.old /\ p.role # "CompatibilityReserve"
  /\ f.old[p.role].start = p.start /\ f.old[p.role].count = p.count

\* provision_plain_extent_candidate
PlainCandidate(f, p) == KeptPlain([f EXCEPT !.format = {}], p.role, p)

Verdict(kind, asks) == [kind |-> kind, asks |-> asks]
RebuildIf(formatted) == IF formatted THEN "Rebuild" ELSE "NeedsFormat"

\* A partition without a key domain.
ForecastPlain(f, p, formatted) ==
  LET kept == IF p.role \in DOMAIN f.old THEN Candidate(f, p)
              ELSE Plain(f) /\ PlainCandidate(f, p)
  IN Verdict(IF p.role = "CompatibilityReserve" THEN "Rebuild"
             ELSE IF kept /\ ~ formatted THEN "Preserve"
             ELSE RebuildIf(formatted), FALSE)

\* A partition of a key domain the disk does not have in this role.
ForecastNew(f, formatted, intent) ==
  IF Plain(f) /\ intent = "NeedsTargetPassword" THEN Verdict(intent, FALSE)
  ELSE Verdict(RebuildIf(formatted), TRUE)

ForecastOld(f, p, formatted, intent) ==
  LET d == Domain(p.role)
  IN IF ~ formatted /\ ~ Candidate(f, p) THEN Verdict("NeedsFormat", FALSE)
     ELSE IF ~ formatted /\ ~ SameCipher(f, d) /\ intent # "Waiting" THEN
            Verdict("NeedsFormat", TRUE)
     ELSE IF intent = "Passthrough" THEN
            Verdict(IF SourceState(f, d) = "Verified" \/ f.domain[d].opaque
                    THEN intent ELSE "NeedsFormat", FALSE)
     ELSE IF intent = "InitializeNew" THEN Verdict("Rebuild", TRUE)
     ELSE Verdict(intent, intent \in {"Rebuild", "Rewrap"})

\* provision_partition_preflight_for_format; asks stands for
\* target_password_requested.
Forecast(f, p, formatted) ==
  IF Domain(p.role) = None THEN ForecastPlain(f, p, formatted)
  ELSE IF p.role \notin DOMAIN f.old THEN
         ForecastNew(f, formatted, Intent(f, Domain(p.role), formatted))
  ELSE ForecastOld(f, p, formatted, Intent(f, Domain(p.role), formatted))

\* What the code calls RequiredRebuild.
MustRebuild(f, p) ==
  LET d == Domain(p.role)
  IN /\ p.role # "CompatibilityReserve"
     /\ \/ IF p.role \in DOMAIN f.old THEN ~ Candidate(f, p)
           ELSE ~ (Plain(f) /\ d = None /\ PlainCandidate(f, p))
        \/ d # None /\ ~ SameCipher(f, d) /\ SourceState(f, d) # "Verifying"
        \/ Forecast(f, p, FALSE).kind \in {"NeedsFormat", "Rebuild"}

\* ProvisionFormatDisposition::selected
Formatted(f, p) ==
  /\ p.role # "CompatibilityReserve"
  /\ MustRebuild(f, p) \/ Field(p.role) \in f.format

\* provision_partition_preflight: what the form shows for p.
Shown(f, p) == Forecast(f, p, Formatted(f, p))
-----------------------------------------------------------------------------
\* Wrong variant, to test PlanIsAsShown: a password is sent even
\* for a key that is passed through.
AsksAlways(f, d) == HasDomain(f, d) /\ Active(f.mode, d)

\* target_password_requested, and the password requested.
Asks(f, d) == \E p \in FormParts(f) : Domain(p.role) = d /\ Shown(f, p).asks

\* Wrong variant, to test PlanIsAsShown: the other field's text.
TextOfSource(f, d) == f.domain[d].source

TargetText(f, d) ==
  IF f.domain[d].aim = "Explicit" THEN f.domain[d].target ELSE f.domain[d].source

\* validate_for_submit, and provision_request's refusals.
MaySubmit(f) ==
  /\ f.algorithm = "Sm4"
  /\ Valid(Slots(f.mode, Prefill(f.old, f.mode, f.lce)), f.lce)
  /\ Valid(Slots(f.mode, FormLayout(f)), f.lce)
  /\ \A p \in FormParts(f) :
       Shown(f, p).kind \notin {"Waiting", "NeedsFormat", "NeedsTargetPassword"}
  /\ \A d \in Domains : Asks(f, d) => TargetText(f, d) # Empty

\* provision_request: every start and capacity is spelt out.
SpeltOut(layout) ==
  LET count(extent) == IF extent = None THEN None ELSE extent.count
      start(extent) == IF extent = None THEN None ELSE extent.start
  IN [boot |-> count(layout.boot), bootStart |-> start(layout.boot),
      share |-> count(layout.share), shareStart |-> start(layout.share),
      encrypt |-> count(layout.encrypt), encryptStart |-> start(layout.encrypt)]

RequestOf(f) ==
  [entry |-> "target", old |-> f.old, extents |-> f.extents, mode |-> f.mode,
   lce |-> f.lce, total |-> f.total, fs |-> f.fs,
   edits |-> Editable(f.mode, SpeltOut(FormLayout(f))),
   format |-> {Field(p.role) : p \in {q \in FormParts(f) : Formatted(f, q)}},
   source |-> [d \in Domains |-> IF f.domain[d].source = Empty THEN None
                                 ELSE f.domain[d].source],
   target |-> [d \in Domains |-> IF Asks(f, d) THEN TargetText(f, d) ELSE None]]
=============================================================================
