----------------------------- MODULE TechParams -----------------------------
(***************************************************************************)
(* init_tech_params() of cacti/technology.cc: the global g_tp, filled from *)
(* tables for six process nodes.  A request between two nodes takes two    *)
(* passes, each adding its node's share; the tables are read into local    *)
(* arrays that keep, in the second pass, whatever the first one left.      *)
(* The module says where each field of g_tp comes from, and models the     *)
(* numbers on which a request is accepted or on which circuits rely:       *)
(* voltages in mV, leakage by temperature, the resistance of wires.        *)
(* A technology asked for is a record t: nm, the feature size; ram and     *)
(* peri, the device types; volts, the user's voltages; vccmin, the user's  *)
(* power-gating voltage; proj, the wire projection; main, is_main_mem.     *)
(***************************************************************************)
EXTENDS BasicCircuit, Sequences, Tables

itrs_hp == 0   itrs_lstp == 1   itrs_lop == 2   lp_dram == 3   comm_dram == 4
DeviceTypes == 0 .. 4
Dram == {lp_dram, comm_dram}
dram_cell_tech_flavor == 3

Default == 0      \* no voltage specified

Nodes == <<180, 90, 65, 45, 32, 22>>

(* The nodes of the passes, and their shares of a whole of Whole(nm).      *)
Between(nm) == CHOOSE i \in 1 .. 5 : Nodes[i] > nm /\ nm > Nodes[i + 1]
Exact(nm)   == \E i \in DOMAIN Nodes : Nodes[i] = nm
Passes(nm)  == IF Exact(nm) THEN <<nm>> ELSE <<Nodes[Between(nm)], Nodes[Between(nm) + 1]>>
Whole(nm)   == IF Exact(nm) THEN 1 ELSE Passes(nm)[1] - Passes(nm)[2]
Shares(nm)  == IF Exact(nm) THEN <<1>> ELSE <<nm - Passes(nm)[2], Passes(nm)[1] - nm>>

(* Any other size is invalid, and so is an lp_dram cell at 22 nm.          *)
Supported(t) == t.nm \in 22 .. 180 /\ ~ (t.nm = 22 /\ t.ram = lp_dram)

-----------------------------------------------------------------------------
(* What a node's block assigns for a device type: vdd and v_th; which of   *)
(* the arrays use the user's voltage; I_off_n at 300, 310 .. 400 K in the  *)
(* unit of the device type (hp 1e-12, lstp 1e-14, lop 1e-11 A/um).         *)
Arrays180 == {"vdd_real", "I_on_n"}
Follows   == Arrays180 \cup {"Rnchannelon", "Rpchannelon", "I_off_n"}

Block(vdd, v_th, follows, I_off_n) ==
  [vdd |-> vdd, v_th |-> v_th, follows |-> follows, I_off_n |-> I_off_n]

itrs_180 ==
  itrs_hp :> Block(1500, 441, Arrays180,
    <<700, 826, 974, 1150, 1350, 1600, 1880, 2290, 2700, 3190, 3760>>)

itrs_90 ==
  itrs_hp :> Block(1200, 237, Follows,
    <<32400, 40100, 49000, 59200, 70800, 83800, 98200, 114000, 129000, 143000, 154000>>)
  @@ itrs_lstp :> Block(1300, 482, Follows,
    <<281, 476, 782, 1250, 1940, 2940, 4360, 6320, 8950, 12500, 17000>>)
  @@ itrs_lop :> Block(900, 308, Follows,
    <<214, 290, 387, 507, 654, 8270, 10200, 12000, 1360, 1520, 1730>>)

itrs_65 ==
  itrs_hp :> Block(1100, 195, Follows,
    <<196000, 229000, 266000, 305000, 349000, 395000, 445000, 497000, 548000, 594000, 630000>>)
  @@ itrs_lstp :> Block(1200, 524, Follows,
    <<912, 1490, 2360, 3640, 5480, 8050, 11500, 15900, 21000, 26200, 32100>>)
  @@ itrs_lop :> Block(800, 285, Follows,
    <<490, 649, 845, 1080, 1370, 1710, 2090, 2480, 2840, 3130, 3420>>)

itrs_45 ==
  itrs_hp :> Block(1000, 180, Follows,
    <<280000, 328000, 381000, 439000, 502000, 569000, 642000, 720000, 803000, 891000, 984000>>)
  @@ itrs_lstp :> Block(1100, 502, Follows,
    <<1010, 1650, 2620, 4060, 6120, 9020, 13000, 18300, 25100, 32900, 41000>>)
  @@ itrs_lop :> Block(700, 226, Follows,
    <<403, 502, 618, 751, 904, 1080, 1270, 1470, 1660, 1840, 2030>>)

itrs_32 ==
  itrs_hp :> Block(900, 218, Follows,
    <<152000, 155000, 159000, 168000, 190000, 269000, 532000, 1020000, 1620000, 2730000, 6100000>>)
  @@ itrs_lstp :> Block(1000, 513, Follows,
    <<2060, 3300, 5150, 7830, 11600, 16900, 24000, 33400, 45400, 59600, 74400>>)
  @@ itrs_lop :> Block(600, 242, Follows,
    <<5940, 7230, 8700, 10400, 12200, 14300, 16500, 19000, 21500, 23900, 26300>>)

itrs_22 ==
  itrs_hp :> Block(800, 140, Follows,
    <<121600, 124000, 127200, 134400, 152000, 215200, 425600, 816000, 1296000, 2184000, 4880000>>)
  @@ itrs_lstp :> Block(800, 401, Follows,
    <<2430, 4850, 9680, 19400, 38700, 77300, 35500, 309000, 619000, 1240000, 2480000>>)
  @@ itrs_lop :> Block(600, 232, Follows,
    <<1310, 2600, 5140, 10200, 20200, 39900, 79100, 109000, 209000, 404000, 448000>>)

(* For a DRAM cell: the threshold of its access transistor, the voltage of *)
(* its word line and the leakage of the word line's transistor (lp_dram    *)
(* 1e-13, comm_dram 1e-17 A/um).  At 22 nm the block of lp_dram is empty.  *)
Cell(acc_vth, vpp, I_off_n) == [acc_vth |-> acc_vth, vpp |-> vpp, I_off_n |-> I_off_n]

dram_90 ==
  lp_dram :> Cell(455, 1600, <<142, 225, 346, 518, 758, 1080, 1510, 2020, 2570, 3140, 3850>>)
  @@ comm_dram :> Cell(1000, 3700,
    <<580, 1210, 2420, 4650, 8600, 15400, 26600, 44500, 71700, 111000, 167000>>)

dram_65 ==
  lp_dram :> Cell(438, 1600, <<223, 346, 524, 775, 1120, 1580, 2180, 2880, 3630, 4410, 5360>>)
  @@ comm_dram :> Cell(1000, 3300,
    <<1800, 3640, 7030, 13100, 23500, 40900, 68900, 113000, 178000, 271000, 399000>>)

dram_45 ==
  lp_dram :> Cell(446, 1500, <<254, 394, 595, 879, 1270, 1790, 2470, 3310, 4260, 5270, 6460>>)
  @@ comm_dram :> Cell(1000, 2700,
    <<1310, 2680, 5250, 9880, 17900, 31500, 53600, 88600, 142000, 220000, 329000>>)

dram_32_Empty ==
  lp_dram :> Cell(441, 1500, <<357, 551, 827, 1210, 1740, 2450, 3380, 4530, 5870, 7290, 8870>>)

dram_32 ==
  lp_dram :> Cell(441, 1500, <<357, 551, 827, 1210, 1740, 2450, 3380, 4530, 5870, 7290, 8870>>)
  @@ comm_dram :> Cell(1000, 2600,
    <<3630, 7180, 13600, 24900, 44100, 75500, 126000, 203000, 319000, 487000, 716000>>)

dram_22 ==
  comm_dram :> Cell(1000, 2300,
    <<11000, 21100, 38800, 69000, 119000, 198000, 322000, 509000, 785000, 1180000, 1720000>>)

Itrs(node) ==
  CASE node = 180 -> itrs_180 [] node = 90 -> itrs_90 [] node = 65 -> itrs_65
    [] node = 45  -> itrs_45  [] node = 32 -> itrs_32 [] node = 22 -> itrs_22

DramCell(node) ==
  CASE node = 180 -> << >> [] node = 90 -> dram_90 [] node = 65 -> dram_65
    [] node = 45  -> dram_45 [] node = 32 -> dram_32 [] node = 22 -> dram_22

-----------------------------------------------------------------------------
(* The local arrays.                                                       *)
ItrsArrays ==
  {"vdd", "vdd_real", "v_th", "t_ox", "c_ox", "mobility_eff", "Lphy", "Lelec",
   "c_g_ideal", "c_fringe", "c_junc", "I_on_n", "Rnchannelon", "Rpchannelon",
   "n_to_p_eff_curr_drv_ratio", "I_off_n", "I_g_on_n", "long_channel_leakage_reduction"}

CellScalars == {"curr_vdd_dram_cell", "curr_v_th_dram_access_transistor", "curr_vpp"}

(* A block assigns the device types it has, and the flavor of the DRAM     *)
(* transistors when the cell is of that type.                              *)
Writes(t, node, array, flavor) ==
  \/ flavor \in DOMAIN Itrs(node) /\ array \in ItrsArrays
  \/ /\ flavor = dram_cell_tech_flavor /\ t.ram \in DOMAIN DramCell(node)
     /\ array \in CellScalars \cup (ItrsArrays \ {"vdd", "vdd_real", "I_g_on_n"})

(* The pass that wrote what pass p reads: the last one, 0 if none did.     *)
Writer(t, p, array, flavor) ==
  Max({0} \cup {q \in 1 .. p : Writes(t, Passes(t.nm)[q], array, flavor)})

Undefined(t, array, flavor) ==
  \E p \in DOMAIN Passes(t.nm) : Writer(t, p, array, flavor) = 0

Own(t, array, flavor) ==
  \A p \in DOMAIN Passes(t.nm) : Writer(t, p, array, flavor) = p

FollowsVoltage(t, array, flavor) ==
  t.volts[flavor] # Default /\ array \in Follows =>
    \A p \in DOMAIN Passes(t.nm) : array \in Itrs(Passes(t.nm)[p])[flavor].follows

(* A quantity with a value for each node, added up over the passes:        *)
(* Whole(t.nm) times its value.                                            *)
PassNodes(t) == {Passes(t.nm)[p] : p \in DOMAIN Passes(t.nm)}

Added(t, value) ==
  LET n == Passes(t.nm) IN
    IF Len(n) = 1 THEN value[n[1]] ELSE Shares(t.nm)[1] * value[n[1]] + Shares(t.nm)[2] * value[n[2]]

vdd_real(t, node, flavor) ==
  IF t.volts[flavor] # Default THEN t.volts[flavor] ELSE Itrs(node)[flavor].vdd

-----------------------------------------------------------------------------
(* The fields of g_tp and the local arrays they are added up from.         *)
Local ==
  [Vdd |-> "vdd_real", Vdd_default |-> "vdd", Vth |-> "v_th", t_ox |-> "t_ox",
   C_ox |-> "c_ox", C_g_ideal |-> "c_g_ideal", C_fringe |-> "c_fringe",
   C_junc |-> "c_junc", l_phy |-> "Lphy", l_elec |-> "Lelec", I_on_n |-> "I_on_n",
   R_nch_on |-> "Rnchannelon", R_pch_on |-> "Rpchannelon",
   n_to_p_eff_curr_drv_ratio |-> "n_to_p_eff_curr_drv_ratio",
   long_channel_leakage_reduction |-> "long_channel_leakage_reduction",
   I_off_n |-> "I_off_n", I_off_p |-> "I_off_n", I_g_on_n |-> "I_g_on_n",
   I_g_on_p |-> "I_g_on_n", Mobility_n |-> "mobility_eff"]

Flavor(t, device) ==
  CASE device = "peri_global"               -> t.peri
    [] device = "sleep_tx"                  -> itrs_lstp
    [] device \in {"sram_cell", "cam_cell"} -> t.ram
    [] device \in {"dram_acc", "dram_wl"}   -> dram_cell_tech_flavor

Accumulated(t, device, field) ==
  CASE device = "dram_acc" /\ field = "Vth" -> {"curr_v_th_dram_access_transistor"}
    [] device = "dram_acc" /\ field = "vpp" -> {"curr_vpp"}
    [] field = "C_junc_sidewall"            -> {}
    [] OTHER                                -> {Local[field]}

(* ... or computed from after the passes.                                  *)
From(t, device, field) ==
  CASE field = "C_overlap"                        -> {"c_g_ideal"}
    [] field = "Vcc_min"                          -> IF t.vccmin = 0 THEN {"vdd"} ELSE {}
    [] device = "dram_acc" /\ field = "R_nch_on"  -> {"curr_vdd_dram_cell", "I_on_n"}
    [] OTHER                                      -> Accumulated(t, device, field)

-----------------------------------------------------------------------------
(* The voltages, as Whole(t.nm) times mV.                                  *)
Vdd(t, flavor) == Added(t, [node \in PassNodes(t) |-> vdd_real(t, node, flavor)])
Vdd_default(t, flavor) == Added(t, [node \in PassNodes(t) |-> Itrs(node)[flavor].vdd])
Vth(t, flavor) == Added(t, [node \in PassNodes(t) |-> Itrs(node)[flavor].v_th])

(* Vcc_min_default adds a part of Vdd_default in every pass, as far as it  *)
(* has been added up: between two nodes the first counts twice.            *)
VccBase(t, flavor) ==
  LET n == Passes(t.nm) IN
    IF Len(n) = 1 THEN Vdd_default(t, flavor)
    ELSE Vdd_default(t, flavor) + Shares(t.nm)[1] * Itrs(n[1])[flavor].vdd

(* The comparisons of floating-point sums: of equal values either outcome  *)
(* is possible, and so it is where a value was never assigned.             *)
Less(a, b) == IF a = b THEN BOOLEAN ELSE {a < b}

Outcomes(t, flavor, outcome) ==
  IF Undefined(t, "vdd", flavor) THEN BOOLEAN ELSE outcome

(* 20 times: Vcc_min_default is 0.6 of the cell's and 0.45 of the          *)
(* periphery's base, and a supply must be 0.75 of the default.             *)
TooLow_CellOnly(t) ==
  {Outcomes(t, t.ram, Less(20 * Vdd(t, t.ram), 12 * VccBase(t, t.ram))),
   Outcomes(t, t.ram, Less(20 * Vdd(t, t.ram), 15 * Vdd_default(t, t.ram)))}

TooLow(t) ==
  {Outcomes(t, t.ram, Less(20 * Vdd(t, t.ram), 12 * VccBase(t, t.ram))),
   Outcomes(t, t.peri, Less(20 * Vdd(t, t.peri), 15 * Vdd_default(t, t.peri))),
   Outcomes(t, t.ram, Less(20 * Vdd(t, t.ram), 15 * Vdd_default(t, t.ram)))}

BelowVccMin(t) ==
  LET Least(flavor, part) ==
        IF t.vccmin = 0 THEN part * VccBase(t, flavor) ELSE 20 * t.vccmin * Whole(t.nm)
  IN {Outcomes(t, t.ram, Less(20 * Vdd(t, t.ram), Least(t.ram, 12))),
      Outcomes(t, t.peri, Less(20 * Vdd(t, t.peri), Least(t.peri, 9)))}

Checks(t) == IF t.main THEN {} ELSE TooLow(t) \cup BelowVccMin(t)

MayRefuse(t)  == Supported(t) => \E c \in Checks(t) : TRUE \in c
MayInstall(t) == Supported(t) /\ \A c \in Checks(t) : FALSE \in c

-----------------------------------------------------------------------------
(* The wires of a node for the two projections: the aspect ratios (tenths) *)
(* of types 0, 1, 2; the barrier in nm; the tenths of a global wire lost   *)
(* to dishing; resistivity times alpha_scatter (1e-4 ohm um).  The         *)
(* conservative projection also has type 3, for the cells of comm_dram.    *)
Projection(aspect, barrier, dishing, resistivity, types) ==
  [aspect |-> aspect, barrier |-> barrier, dishing |-> dishing,
   resistivity |-> resistivity, types |-> types]

Aggressive(aspect, barrier, resistivity) == Projection(aspect, barrier, 0, resistivity, 0 .. 2)
Conservative(barrier, resistivity) == Projection(<<20, 20, 22>>, barrier, 1, resistivity, 0 .. 3)

wires_180 == <<Aggressive(<<20, 24, 22>>, 17, 220), Conservative(17, 220)>>
wires_90  == <<Aggressive(<<24, 24, 27>>, 10, 220), Conservative(8, 220)>>
wires_65  == <<Aggressive(<<27, 27, 28>>, 0, 180),  Conservative(6, 220)>>
wires_45  == <<Aggressive(<<30, 30, 30>>, 0, 180),  Conservative(4, 220)>>
wires_32  == <<Aggressive(<<30, 30, 30>>, 0, 180),  Conservative(3, 220)>>
wires_22  == <<Aggressive(<<30, 30, 30>>, 0, 180),  Conservative(3, 231)>>

Wires(node) ==
  CASE node = 180 -> wires_180 [] node = 90 -> wires_90 [] node = 65 -> wires_65
    [] node = 45  -> wires_45  [] node = 32 -> wires_32 [] node = 22 -> wires_22

(* Pitches of 2.5, 4 and 8 feature sizes, half of it the wire.             *)
Width(nm, type) == (nm * <<5, 8, 16>>[type + 1]) \div 4

(* wire_resistance(): the resistivity over the conducting section.         *)
Section(w, nm, type) ==
  LET thickness == (Width(nm, type) * w.aspect[type + 1]) \div 10
      dished    == IF type = 2 THEN (thickness * w.dishing) \div 10 ELSE 0
  IN (thickness - w.barrier - dished) * (Width(nm, type) - 2 * w.barrier)

LocalWire(t) == IF t.ram = comm_dram THEN 3 ELSE 0

LocalWireSet(t) == \A p \in DOMAIN Passes(t.nm) :
  LocalWire(t) \in Wires(Passes(t.nm)[p])[t.proj + 1].types

-----------------------------------------------------------------------------
(* What an array of DRAM, SRAM or CAM cells reads.                         *)
Transistor(u) ==
  gate_C(u) \cup gate_C_pass(u) \cup drain_C_(u) \cup tr_R_on(u, TRUE)

PeripheryReads ==
  Transistor({}) \cup tr_R_on({}, FALSE) \cup R_to_w({}, TRUE) \cup R_to_w({}, FALSE)
    \cup pmos_to_nmos_sz_ratio({}) \cup simplified_nmos_Isat({}) \cup simplified_pmos_Isat({})
    \cup cmos_Ileak({}) \cup simplified_nmos_leakage({}) \cup simplified_pmos_leakage({})
    \cup cmos_Ig_n({}) \cup cmos_Ig_p({})
    \cup Fields("peri_global", {"Vdd", "Vcc_min"})

DramReads ==
  Transistor({"dram", "cell"}) \cup Transistor({"dram", "wl"})
    \cup tr_R_on({"dram", "wl"}, FALSE) \cup pmos_to_nmos_sz_ratio({"dram", "wl"})
    \cup Fields("dram_acc", {"Vth", "vpp"})

SramReads ==
  Transistor({"cell"}) \cup simplified_nmos_Isat({"cell"})
    \cup simplified_nmos_leakage({"cell"}) \cup simplified_pmos_leakage({"cell"})
    \cup cmos_Ig_n({"cell"}) \cup cmos_Ig_p({"cell"})
    \cup Fields("sram_cell", {"Vdd", "Vth", "Vcc_min"}) \cup Fields("cam_cell", {"Vdd"})

SleepReads ==
  pmos_to_nmos_sz_ratio({"sleep"})
    \cup Fields("peri_global", {"Vdd", "Vth"})
    \cup Fields("sleep_tx", {"Vth", "Mobility_n", "C_ox"})

Reads(t, gated) ==
  PeripheryReads \cup (IF t.ram \in Dram THEN DramReads ELSE SramReads)
    \cup (IF gated THEN SleepReads ELSE {})

(* A field has the values of the nodes asked for, and of the voltage.      *)
OwnField(t, device, field) ==
  IF device = "wire_local" THEN LocalWireSet(t)
  ELSE \A array \in From(t, device, field) :
         LET f == Flavor(t, device) IN
           /\ Own(t, array, f)
           /\ f \in DOMAIN t.volts => FollowsVoltage(t, array, f)

(* The fields that have not: above 90 nm those of any device but itrs_hp,  *)
(* which the block of 180 nm leaves out - the sleep transistors, and all   *)
(* types at the 91 nm error_checking() still accepts - and the resistances *)
(* and leakage at a voltage of the user's; a periphery of DRAM             *)
(* transistors; between 32 and 22 nm the cells of lp_dram; the local wires *)
(* of comm_dram under the aggressive projection.                           *)
Excused(t, device, field) ==
  \/ t.nm > 90 /\ device # "wire_local" /\ Flavor(t, device) # itrs_hp
  \/ t.nm > 90 /\ t.volts[itrs_hp] # Default
       /\ field \in {"R_nch_on", "R_pch_on", "I_off_n", "I_off_p"}
  \/ t.peri \in Dram /\ device = "peri_global"
  \/ t.ram = lp_dram /\ t.nm < 32 /\ device \in {"dram_acc", "dram_wl"}
  \/ t.ram = comm_dram /\ t.proj = 0 /\ device = "wire_local"

FieldsOwn(t, gated) ==
  \A r \in Reads(t, gated) : OwnField(t, r[1], r[2]) \/ Excused(t, r[1], r[2])

-----------------------------------------------------------------------------
(* What is expected of the numbers.                                        *)
InEvery(t, Table(_), flavor) ==
  \A p \in DOMAIN Passes(t.nm) : flavor \in DOMAIN Table(Passes(t.nm)[p])

(* Supplies above the thresholds of the transistors they drive; the sleep  *)
(* transistors are of itrs_lstp.  A supply of itrs_lop lowered by a fourth *)
(* may be below their threshold.                                           *)
SuppliesDrive(t, gated) ==
  /\ \A flavor \in {t.ram, t.peri} :
       InEvery(t, Itrs, flavor) => Vdd(t, flavor) > Vth(t, flavor)
  /\ gated /\ InEvery(t, Itrs, t.peri) /\ InEvery(t, Itrs, itrs_lstp) /\ Vdd(t, t.peri) >= Vdd_default(t, t.peri) =>
       Vdd(t, t.peri) > Vth(t, itrs_lstp)
  /\ t.ram \in Dram /\ InEvery(t, DramCell, t.ram) =>
       Added(t, [node \in PassNodes(t) |-> DramCell(node)[t.ram].vpp])
         > Added(t, [node \in PassNodes(t) |-> DramCell(node)[t.ram].acc_vth])

(* At default voltages only a request between two nodes is refused, where  *)
(* the first contributes more than twice what the second does.             *)
RefusalExplained(t) ==
  (Supported(t) /\ MayRefuse(t) /\ t.vccmin = 0 /\ \A f \in DOMAIN t.volts : t.volts[f] = Default) =>
    \E flavor \in {t.ram, t.peri} :
      \/ Undefined(t, "vdd", flavor)
      \/ /\ ~ Exact(t.nm)
         /\ LET n == Passes(t.nm) IN
              Shares(t.nm)[1] * Itrs(n[1])[flavor].vdd >= 2 * Shares(t.nm)[2] * Itrs(n[2])[flavor].vdd

(* Misprints in the tables: itrs_lop at 90 nm leaks ten times too much at  *)
(* 350 to 370 K, itrs_lstp at 22 nm too little at 360 K.                   *)
Misprinted(t, flavor) ==
  \E p \in DOMAIN Passes(t.nm) : <<Passes(t.nm)[p], flavor>> \in {<<90, itrs_lop>>, <<22, itrs_lstp>>}

Grows(t, leakage(_)) ==
  \A i \in 1 .. 10 : Added(t, [node \in PassNodes(t) |-> leakage(node)[i]]) < Added(t, [node \in PassNodes(t) |-> leakage(node)[i + 1]])

HotterLeaksMore(t) ==
  /\ \A flavor \in {t.ram, t.peri} :
       InEvery(t, Itrs, flavor) /\ ~ Misprinted(t, flavor) =>
         Grows(t, LAMBDA node : Itrs(node)[flavor].I_off_n)
  /\ InEvery(t, DramCell, t.ram) => Grows(t, LAMBDA node : DramCell(node)[t.ram].I_off_n)

(* Of two wires of a projection the wider has no more resistance, nor has  *)
(* the aggressive projection's compared with the conservative one's.       *)
LessResistance(w1, type1, w2, type2, nm) ==
  w1.resistivity * Section(w2, nm, type2) <= w2.resistivity * Section(w1, nm, type1)

WiresOrdered(t) == \A p \in DOMAIN Passes(t.nm) :
  LET w == Wires(Passes(t.nm)[p]) IN
    /\ \A proj \in 1 .. 2, i, j \in 0 .. 2 :
         i < j => LessResistance(w[proj], j, w[proj], i, t.nm)
    /\ \A i \in 0 .. 2 : LessResistance(w[1], i, w[2], i, t.nm)

=============================================================================
