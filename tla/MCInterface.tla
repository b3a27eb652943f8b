----------------------------- MODULE MCInterface -----------------------------
(***************************************************************************)
(* The interface's loop between its keys, its background scans and its     *)
(* operations' progress.  The gate knows of a scan only that one is to be  *)
(* delivered and of an operation only that it ends; the slots and the      *)
(* transport know nothing of the gate or of each other.  So a behaviour    *)
(* follows one of the three.                                               *)
(***************************************************************************)
EXTENDS OperationGate, ScanSlots, ProgressTransport

\* No event, one, or any two of which the first waits in the slot, up to the
\* names of the streams; and longer scripts that go past both the poll's limit and
\* the retention budget, one of them with snapshots that replace others after it.
E(s, k) == [stream |-> s, kind |-> k]

MCScripts ==
  { << >> }
  \union {<<E("write", k)>> : k \in {"reliable", "middle", "edge"}}
  \union {<<E("write", "middle"), e>> : e \in Event}
  \union { <<E("write", "edge"), E("write", "middle"), E("write", "middle"),
             E("verify", "reliable"), E("write", "middle"), E("verify", "middle")>>,
           <<E("write", "edge"), E("write", "edge"), E("write", "middle"),
             E("verify", "middle"), E("verify", "middle"), E("write", "middle")>> }
-----------------------------------------------------------------------------
VARIABLE part   \* what a behaviour follows

InterfaceInit ==
  /\ part \in {"gate", "scans", "transport"}
  /\ Init /\ ScanInit /\ TransportInit

InterfaceNext ==
  /\ UNCHANGED part
  /\ \/ part = "gate" /\ Next /\ UNCHANGED <<scanVars, transportVars>>
     \/ part = "scans" /\ ScanNext /\ UNCHANGED <<vars, transportVars>>
     \/ part = "transport" /\ TransportNext /\ UNCHANGED <<vars, scanVars>>

InterfaceSpec ==
  /\ InterfaceInit /\ [][InterfaceNext]_<<vars, scanVars, transportVars, part>>
  /\ WF_vars(OperationFinishes) /\ WF_vars(ExportFinishes)
  /\ WF_scanVars(Scan) /\ WF_scanVars(Poll)
  /\ SF_transportVars(part = "transport" /\ Worker)
  /\ WF_transportVars(part = "transport" /\ Interface)
=============================================================================
