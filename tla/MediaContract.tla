--------------------------- MODULE MediaContract ---------------------------
(***************************************************************************)
(* What every mirrored writer of the program promises its caller about the *)
(* medium, whatever it does in between: the verdict it returns tells which *)
(* sectors hold what.  "Ok" is the plain success, "Refused" the error      *)
(* reported before the first write, "RolledBack" and "Intermediate" the    *)
(* two errors after one (MediaState in src/application/error.rs).          *)
(***************************************************************************)
CONSTANTS
  Sectors,   \* the LBAs of the target
  Content,   \* what a sector can hold
  Old,       \* the content of every sector before the call
  New        \* the content the caller asked for

VARIABLES
  touched,   \* the LBAs the caller asked to write
  medium,    \* what the medium holds
  verdict    \* "Pending" until the call returns

vars == <<touched, medium, verdict>>

Verdicts == {"Pending", "Ok", "Refused", "RolledBack", "Intermediate"}

TypeOK ==
  /\ touched \subseteq Sectors
  /\ medium \in [Sectors -> Content]
  /\ verdict \in Verdicts

Init ==
  /\ touched \in SUBSET Sectors
  /\ medium = Old
  /\ verdict = "Pending"

\* A sector the caller did not name keeps what it held.
OnlyTouchedMayChange ==
  /\ medium' \in [Sectors -> Content]
  /\ \A l \in Sectors \ touched : medium'[l] = medium[l]

\* What a verdict says of the medium at the moment it is returned.
Truthful(v, m) ==
  /\ v = "Ok" => \A l \in touched : m[l] = New[l]
  /\ v \in {"Refused", "RolledBack"} => m = Old

Disturb ==
  /\ verdict \in {"Pending", "Intermediate"}
  /\ OnlyTouchedMayChange
  /\ UNCHANGED <<touched, verdict>>

Report ==
  /\ verdict = "Pending"
  /\ verdict' \in Verdicts \ {"Pending"}
  /\ OnlyTouchedMayChange
  /\ Truthful(verdict', medium')
  /\ UNCHANGED touched

Next == Disturb \/ Report

Spec == Init /\ [][Next]_vars
=============================================================================
