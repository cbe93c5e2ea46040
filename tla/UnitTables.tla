----------------------------- MODULE UnitTables -----------------------------
(***************************************************************************)
(* How the units of a chip are described.  A configuration is the set of   *)
(* the flags that hold in it.  Every unit has, for a configuration c,      *)
(*   made    the parts its constructor allocates,                          *)
(*   peak    the parts whose statistics computeEnergy(true) sets,          *)
(*   run     for each part whose statistics computeEnergy(false) sets, the *)
(*           counters of *XML it sets them from,                           *)
(*   charge  for each figure (a power_t, power and rt_power), the parts    *)
(*           whose statistics and energies its dynamic energy comes from,  *)
(*           as pairs <<figure, part>>,                                    *)
(*   fixed   those of them whose energy is known from construction and     *)
(*           takes no statistics,                                          *)
(*   sum     for each figure added to the unit's own power (or rt_power),  *)
(*           the parts whose leakage is added with it, as such pairs,      *)
(*   shown   the figures displayEnergy() prints,                           *)
(*   gone    the parts its destructor deletes.                             *)
(* A part that is a unit itself has its statistics set by the call of its  *)
(* own computeEnergy().                                                    *)
(***************************************************************************)
EXTENDS Tables

CoreFlags == {"OOO", "PhysicalRegFile", "RAMbased", "checkpoints",
              "multithreaded", "prediction", "ROB", "loadBuffer", "writeBack",
              "regWindowing", "fpus", "muls", "multiIssue", "Private_L2"}

(* What stands under a condition: a set of parts, or rows of a table.      *)
When(b, S) == IF b THEN S ELSE {}
Rows(b, r) == IF b THEN r ELSE <<>>

(* Parts with a figure of their own, and parts set from the same counters. *)
Own(S) == {<<p, p>> : p \in S}
Each(S, counters) == [p \in S |-> counters]
=============================================================================
