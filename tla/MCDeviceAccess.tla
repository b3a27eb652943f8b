--------------------------- MODULE MCDeviceAccess ---------------------------
(***************************************************************************)
(* What stands between an operation and a device: the commands that ask    *)
(* the system, the lease that gets it out of the way, and the native-block *)
(* transaction.  None of the three knows of another; a behaviour follows   *)
(* one of them.                                                            *)
(*                                                                         *)
(* The transaction: four blocks, of which three or fewer are planned; also *)
(* plans that the checks refuse: no MBR, MBR not last, a duplicate, out of *)
(* range, empty, over the mirror's budget.  The lease: two disks, volumes  *)
(* that lie on one, on both, on another volume, on nothing of ours, some   *)
(* where no walk comes; one failing read of a walk is passed over.         *)
(***************************************************************************)
EXTENDS NativeTransaction, ChildProcess, DiskAccess, TLC

CONSTANTS d1, d2, v1, v2, root

MCDisks == {d1, d2}
MCVolumes == {v1, v2, root}

MCSectors == 0..3
MCOld  == [l \in MCSectors |-> <<l, "old">>]
MCNew  == [l \in MCSectors |-> <<l, "new">>]
MCTorn == <<0, "torn">>
MCContent == {<<l, s>> : l \in MCSectors, s \in {"old", "new", "torn"}}

MCPlans ==
  { <<2, 1, 0>>, <<1, 0>>, <<0>>,
    <<2, 1>>, <<0, 1>>, <<1, 1, 0>>, <<7, 0>>, << >>, <<3, 2, 1, 0>> }

Stack(a, b, r, partitions, pooled) ==
  [on |-> (v1 :> a) @@ (v2 :> b) @@ (root :> r), partitions |-> partitions, pooled |-> pooled]

\* Two partitions; a volume that spans the disks; holders on holders, with the
\* root at the end, on both disks, or apart; a partition of a holder; a pooled
\* root over two partitions.
MCStacks ==
  { Stack({d1}, {d1}, {}, {v1, v2}, {}),
    Stack({d1}, {d1, d2}, {}, {v1}, {}),
    Stack({d1}, {v1}, {v2}, {v1}, {}),
    Stack({d1}, {v1}, {d2}, {v1, root}, {}),
    Stack({d1}, {v1}, {d1, d2}, {}, {}),
    Stack({d1}, {v1}, {d2}, {v2, root}, {v1}),
    Stack({d1}, {d2}, {v1, v2}, {v1, v2}, {root}) }

VARIABLE part    \* what the behaviour follows

DeviceInit ==
  /\ part \in {"transaction", "command", "lease"}
  /\ IF part = "transaction" THEN Init
     ELSE Init /\ writes = << >>
  /\ IF part = "command" THEN ProcessInit ELSE ProcessInit /\ system = "unix"
  /\ IF part = "lease" THEN AccessInit
     ELSE AccessInit /\ host = "linux" /\ stack = Stack({d1}, {d1}, {}, {v1, v2}, {}) /\ mounted = {root}

DeviceNext ==
  \/ part = "transaction" /\ Next /\ UNCHANGED <<part, processVars, accessVars>>
  \/ part = "command" /\ ProcessNext /\ UNCHANGED <<part, vars, accessVars>>
  \/ part = "lease" /\ AccessNext /\ UNCHANGED <<part, vars, processVars>>

\* The calling thread runs and time passes; of the command nothing is assumed.
DeviceSpec ==
  /\ DeviceInit /\ [][DeviceNext]_<<part, vars, processVars, accessVars>>
  /\ WF_processVars(part = "command" /\ RunCommand)
  /\ WF_processVars(part = "command" /\ Tick)
=============================================================================
