----------------------------- MODULE MCMediaFlow -----------------------------
(***************************************************************************)
(* Media of one model: two with serials of their own, one without.  They   *)
(* start as copies of each other, so that only hardware tells them apart.  *)
(***************************************************************************)
EXTENDS MediaFlow, TLC

MCPartitions == {1, 2}

Evidence(serial) ==
  [serial |-> serial, quality |-> SerialQuality(serial, {}), vid |-> "v", pid |-> "p",
   sectors |-> "n", sectorSize |-> 512]

CONSTANT c

\* A medium stands for its own serial; c has none.
MCHardware == [m \in Media |-> IF m = c THEN Evidence(Missing) ELSE Evidence(m)]

Image(kind, label, table, key) ==
  [kind |-> kind, label |-> label, table |-> table, key |-> [p \in Partitions |-> key]]

Ordinary == Image("Plain", Missing, "t1", "none")
Official == [Image("Edp", "l1", "t1", "k1") EXCEPT !.key[2] = "Unverifiable"]

MCFirstImages == {Ordinary, Official}
MCFirstMedia == {[m \in Media |-> i] : i \in MCFirstImages}
MCTargets == {Image("Plain", Missing, "t2", "none"), Image("Edp", "l1", "t2", "k2")}

Symmetry == Permutations(Files) \cup Permutations(Media \ {c})
=============================================================================
