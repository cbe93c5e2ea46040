---------------------------- MODULE BasicCircuit ----------------------------
(***************************************************************************)
(* cacti/basic_circuit.cc, the functions every array, decoder and wire is  *)
(* computed with.  Two things are modelled: which device of g_tp, and      *)
(* which of its fields, a function reads for a transistor; and how the     *)
(* leakage of a gate is averaged over the states of its inputs.  A         *)
(* transmission gate leaks as an inverter does; the tri-state gate, a      *)
(* fixed sum, is left out.                                                 *)
(***************************************************************************)
EXTENDS Integers, FiniteSets, FiniteSetsExt

(* A transistor is described by the set of its flags that are true, of     *)
(* "dram", "cell", "wl" and "sleep".                                       *)
Fields(device, names) == {<<device, n>> : n \in names}

(* The device of a capacitance or a resistance ...                         *)
Device(u) ==
  CASE {"dram", "cell"} \subseteq u                    -> "dram_acc"
    [] {"dram", "wl"} \subseteq u /\ "cell" \notin u   -> "dram_wl"
    [] "cell" \in u /\ "dram" \notin u                 -> "sram_cell"
    [] "sleep" \in u /\ "cell" \notin u
         /\ ~ {"dram", "wl"} \subseteq u               -> "sleep_tx"
    [] OTHER                                           -> "peri_global"

(* ... and of a current, which for a DRAM cell is the periphery's.         *)
Source(u) ==
  CASE "cell" \in u /\ "dram" \notin u                 -> "sram_cell"
    [] {"dram", "wl"} \subseteq u                      -> "dram_wl"
    [] "sleep" \in u /\ ~ {"dram", "wl"} \subseteq u
         /\ ("cell" \notin u \/ "dram" \in u)          -> "sleep_tx"
    [] OTHER                                           -> "peri_global"

gate_C(u)      == Fields(Device(u), {"C_g_ideal", "C_overlap", "C_fringe", "l_phy"})
gate_C_pass(u) == Fields(Device(u), {"C_g_ideal", "C_overlap", "C_fringe", "l_phy"})

(* A folded transistor is connected by local wire.                         *)
drain_C_(u) ==
  Fields(Device(u), {"C_junc", "C_junc_sidewall", "C_fringe", "C_overlap"})
    \cup Fields("wire_local", {"C_per_um"})

tr_R_on(u, nchannel) == Fields(Device(u), {IF nchannel THEN "R_nch_on" ELSE "R_pch_on"})
R_to_w(u, nchannel)  == Fields(Device(u), {IF nchannel THEN "R_nch_on" ELSE "R_pch_on"})

pmos_to_nmos_sz_ratio(u) ==
  Fields(Source(u \ {"cell"}), {"n_to_p_eff_curr_drv_ratio"})

cmos_Ileak(u)              == Fields(Source(u), {"I_off_n", "I_off_p"})
simplified_nmos_Isat(u)    == Fields(Source(u), {"I_on_n"})
simplified_pmos_Isat(u)    == Fields(Source(u), {"I_on_n", "n_to_p_eff_curr_drv_ratio"})
simplified_nmos_leakage(u) == Fields(Source(u), {"I_off_n"})
simplified_pmos_leakage(u) == Fields(Source(u), {"I_off_p"})
cmos_Ig_n(u)               == Fields(Source(u), {"I_g_on_n"})
cmos_Ig_p(u)               == Fields(Source(u), {"I_g_on_p"})

-----------------------------------------------------------------------------
(* The leakage of a gate of n inputs.  A network of transistors is the     *)
(* function that gives, for every k, how many transistor leakages the code *)
(* adds for the states with k transistors off (or on).                     *)
factorial(n, m) == m * ProductSet((m + 1) .. n)

combination_Short(n, m) == factorial(n, m) \div factorial(n - m, 1)
combination(n, m) == factorial(n, m + 1) \div factorial(n - m, 1)

num_states(fanin) == 2 ^ fanin

Single(fanin, count) == [k \in 1 .. fanin |-> IF k = 1 THEN count ELSE 0]

(* Whether transistors of this kind are the stack of a gate.               *)
InSeries(kind, gate, fanin, topo) ==
  <<kind, gate>> \in {<<"nmos", "nand">>, <<"pmos", "nor">>}
    \/ (gate = kind /\ fanin > 1 /\ topo = "series")

InParallel(kind, gate, fanin, topo) ==
  <<kind, gate>> \in {<<"nmos", "nor">>, <<"pmos", "nand">>}
    \/ (gate = kind /\ fanin > 1 /\ topo = "parallel")

(* Subthreshold leakage: k transistors of a stack are off - the more, the  *)
(* less each of them leaks - or all those of a parallel network.           *)
Off(kind, gate, fanin, topo) ==
  CASE gate \in {"inv", "tg"} \/ (gate = kind /\ fanin = 1) -> Single(fanin, 1)
    [] InSeries(kind, gate, fanin, topo)   -> [k \in 1 .. fanin |-> combination(fanin, k)]
    [] InParallel(kind, gate, fanin, topo) -> Single(fanin, fanin)
    [] OTHER                              -> Single(fanin, 0)

cmos_Isub_leakage(gate, fanin, topo) ==
  [nmos   |-> Off("nmos", gate, fanin, topo),
   pmos   |-> Off("pmos", gate, fanin, topo),
   states |-> IF gate \in {"inv", "tg"} THEN 2 ELSE num_states(fanin)]

(* Gate leakage, in halves of a transistor's: k transistors are on; in a   *)
(* stack they leak half unless all are.  A parallel network that is not    *)
(* part of a gate is not averaged.                                         *)
On(kind, gate, fanin, topo) ==
  CASE gate \in {"inv", "tg"} \/ (gate = kind /\ fanin = 1) -> Single(fanin, 2)
    [] InSeries(kind, gate, fanin, topo) ->
         [k \in 1 .. fanin |-> IF k = fanin THEN 2 * fanin ELSE combination(fanin, k) * k]
    [] InParallel(kind, gate, fanin, topo) ->
         [k \in 1 .. fanin |-> 2 * combination(fanin, k) * k]
    [] OTHER -> Single(fanin, 0)

cmos_Ig_leakage(gate, fanin, topo) ==
  [nmos   |-> On("nmos", gate, fanin, topo),
   pmos   |-> On("pmos", gate, fanin, topo),
   states |-> CASE gate \in {"inv", "tg"} -> 2
                [] gate \in {"nmos", "pmos"} /\ fanin > 1 /\ topo = "parallel" -> 1
                [] OTHER -> num_states(fanin)]

-----------------------------------------------------------------------------
(* The number of states of the inputs in which k of them are on (or off).  *)
MaxFanin == 5
Inputs(fanin, k) == Cardinality(kSubset(k, 1 .. fanin))

(* The leakage of a gate is the average over all states of its inputs:     *)
(* each number of off (or on) transistors is counted as often as there are *)
(* such states. combination() is n + 1 instead of 1 for the state in which *)
(* all are off, and all that is wrong with the sums follows from that: the *)
(* last term of a stack's subthreshold and of a parallel network's gate    *)
(* leakage.                                                                *)
GateStatesCounted ==
  \A fanin \in 2 .. MaxFanin : \A k \in 1 .. fanin :
    LET off  == cmos_Isub_leakage("nand", fanin, "series")
        on   == cmos_Ig_leakage("nor", fanin, "series")
        seen == Inputs(fanin, k) + IF k = fanin THEN fanin ELSE 0
    IN /\ off.states = Cardinality(SUBSET (1 .. fanin))
       /\ off.nmos[k] = seen
       /\ off.pmos[k] = IF k = 1 THEN fanin * Inputs(fanin, fanin) ELSE 0
       /\ on.pmos[k] = Inputs(fanin, k) * k * IF k = fanin THEN 2 ELSE 1
       /\ on.nmos[k] = 2 * k * seen
       /\ \A topo \in {"series", "parallel"} :
            cmos_Isub_leakage("nmos", fanin, topo).nmos
              = IF topo = "series" THEN off.nmos ELSE off.pmos

=============================================================================
