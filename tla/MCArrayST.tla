----------------------------- MODULE MCArrayST ------------------------------
(* Instances of the array optimisation for TLC: every order of every       *)
(* non-empty subset of four organisations.                                 *)
EXTENDS ArrayST

LOCAL INSTANCE SequencesExt

CONSTANTS a, b, c, d

Org(delay, dyn, cyc) ==
  [m \in Metrics |-> CASE m = "delay" -> delay [] m = "dyn" -> dyn
                        [] m = "cyc" -> cyc [] OTHER -> 1]

(* a meets the latency only and is left at a deviation of 40 percent; b    *)
(* meets the throughput only; c meets both; d meets neither and is never   *)
(* left.                                                                   *)
MCFigures == [o \in {a, b, c, d} |->
  CASE o = a -> Org(1, 3, 15)
    [] o = b -> Org(8, 2, 10)
    [] o = c -> Org(3, 4, 12)
    [] o = d -> Org(10, 3, 13)]

MCOrgLists == SetToAllKPermutations({a, b, c, d}) \ {<<>>}
MCLowEfficiency == {a, b, d}

=============================================================================
