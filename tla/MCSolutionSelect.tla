-------------------------- MODULE MCSolutionSelect --------------------------
(* Instances of the selection for TLC: every order of every subset of five *)
(* data arrays, with none, one or both of two tag arrays.                  *)
EXTENDS SolutionSelect

LOCAL INSTANCE SequencesExt

CONSTANTS d1, d2, d3, d4, d5, t1, t2

MCDataIds == {d1, d2, d3, d4, d5}
MCTagIds  == {t1, t2}

(* d1 is fast, d3 frugal, d2 and d4 lie between; d5 dominates all of them. *)
(* t2 is admissible where t1 is, and cheaper.                              *)
MCArray == [i \in MCDataIds \cup MCTagIds |->
  CASE i = d1 -> [delay |-> 2, mux |-> 1, before |-> 1, after |-> 1, dyn |-> 5,
                  leak |-> 1, height |-> 1, width |-> 2, cyc |-> 2]
    [] i = d2 -> [delay |-> 3, mux |-> 1, before |-> 4, after |-> 1, dyn |-> 3,
                  leak |-> 1, height |-> 1, width |-> 1, cyc |-> 1]
    [] i = d3 -> [delay |-> 5, mux |-> 2, before |-> 4, after |-> 1, dyn |-> 2,
                  leak |-> 2, height |-> 1, width |-> 1, cyc |-> 2]
    [] i = d4 -> [delay |-> 4, mux |-> 1, before |-> 3, after |-> 2, dyn |-> 3,
                  leak |-> 1, height |-> 1, width |-> 1, cyc |-> 3]
    [] i = d5 -> [delay |-> 1, mux |-> 1, before |-> 1, after |-> 1, dyn |-> 1,
                  leak |-> 3, height |-> 2, width |-> 2, cyc |-> 1]
    [] i = t1 -> [delay |-> 2, mux |-> 0, before |-> 1, after |-> 1, dyn |-> 1,
                  leak |-> 1, height |-> 1, width |-> 1, cyc |-> 1]
    [] i = t2 -> [delay |-> 1, mux |-> 0, before |-> 1, after |-> 1, dyn |-> 1,
                  leak |-> 1, height |-> 1, width |-> 1, cyc |-> 2]]

(* The lists of the two arrays are filtered independently: the long data   *)
(* lists come with one list of tag arrays, the short ones with all.        *)
MCLists ==
  {l \in SetToAllKPermutations(MCDataIds) \X SetToAllKPermutations(MCTagIds) :
     Len(l[1]) <= 3 \/ l[2] = <<t1, t2>>}

MCRamLists == SetToAllKPermutations(MCDataIds) \X {<<>>}

MCWt == [m \in Metrics |-> CASE m = "delay" -> 10 [] m = "dyn" -> 7 [] OTHER -> 1]

(* The deviations exclude the slowest cycle time and the slowest delay.    *)
MCDev == [m \in Metrics |->
  CASE m = "cyc" -> 120 [] m = "delay" -> 130 [] OTHER -> 1000]

=============================================================================
