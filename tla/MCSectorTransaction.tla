------------------------ MODULE MCSectorTransaction ------------------------
(***************************************************************************)
(* A target of five sectors, one plan of each shape the entry points use.  *)
(***************************************************************************)
EXTENDS SectorTransaction

MCSectors == {0, 3, 7, 63, 64}
MCOld  == [l \in MCSectors |-> <<l, "old">>]
MCNew  == [l \in MCSectors |-> <<l, "new">>]
MCTorn == <<0, "torn">>
MCContent == {MCOld[l] : l \in MCSectors} \union {MCNew[l] : l \in MCSectors}
             \union {MCTorn}

MCPlans ==
  { [order |-> <<63, 64, 7, 0>>, readback |-> <<0, 7, 63, 64>>],
    [order |-> <<63, 64, 7>>, readback |-> <<7, 63, 64>>],
    [order |-> <<63, 64>>, readback |-> <<63, 64>>],
    [order |-> <<7, 0>>, readback |-> <<0, 7>>] }
=============================================================================
