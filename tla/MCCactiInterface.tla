-------------------------- MODULE MCCactiInterface --------------------------
(* Instances of the request for TLC: at 90 nm all combinations of the      *)
(* parameters of one request, with two SRAM device types and DRAM; and a   *)
(* sweep over feature sizes at, between and beside the six nodes, with all *)
(* device types, both wire projections and voltages near the limits.  For  *)
(* the wires and NUCA organisations of a request: all short lists.         *)
EXTENDS CactiInterface

MCVoltages == {250, 300, 700, 950, 1000, 1100}

MCDevices == {itrs_hp, itrs_lop, comm_dram}
TypePairs == [cell : MCDevices, peri : MCDevices]
Alike(pairs) == {[a \in Arrays |-> p] : p \in pairs}

Specified(voltages) ==
  [itrs_hp .. itrs_lop -> {Default}]
    \cup {[d \in itrs_hp .. itrs_lop |-> IF d = f THEN v ELSE Default] :
            f \in {itrs_hp, itrs_lop}, v \in voltages}

Requests(entries, kinds, nms, projs, types, volts, vccmins, dvs, gating, nuca) ==
  [entry : entries, kind : kinds, nm : nms, proj : projs, types : types, volts : volts,
   vccmin : vccmins, dvs : dvs, gating : gating, nuca : nuca]

(* McPAT gives one device type to all arrays, no DVS levels and no NUCA.   *)
Levels == {<<>>, <<1100>>, <<1100, 950>>, <<1000, 700>>}

Files ==
  Requests({"file"}, {"cache"}, {90}, {1}, [Arrays -> TypePairs],
           Specified({1000}), {Default}, Levels, BOOLEAN, {FALSE})
    \cup Requests({"file"}, {"cam"}, {90}, {1}, [Arrays -> TypePairs],
                  Specified({}), {Default}, {<<>>}, BOOLEAN, {FALSE})
    \cup Requests({"file"}, {"cache", "ram", "main"}, {90}, {0, 1}, Alike(TypePairs),
                  Specified({1000}), {Default}, Levels, BOOLEAN, BOOLEAN)

Sizes == {200, 180, 170, 135, 91, 90, 89, 80, 70, 65, 58, 50, 45, 41, 35, 32, 31, 27, 24, 22, 21}

Mixed == [cell : DeviceTypes, peri : itrs_hp .. itrs_lop]
           \cup {[cell |-> d, peri |-> d] : d \in DeviceTypes}

Sweep ==
  Requests({"ip"}, {"cache"}, Sizes, {0, 1}, Alike(Mixed),
           Specified({}), {Default}, {<<>>}, BOOLEAN, {FALSE})
    \cup Requests({"ip"}, {"ram"}, Sizes, {1},
                  Alike({[cell |-> c, peri |-> p] : c \in {itrs_hp, itrs_lstp}, p \in {itrs_hp, itrs_lop}}),
                  Specified({300, 1000}), {Default, 250, 1100}, {<<>>}, {TRUE}, {FALSE})
    \cup Requests({"file"}, {"main"}, Sizes, {0, 1}, Alike({[cell |-> d, peri |-> itrs_hp] : d \in Dram}),
                  Specified({1000}), {Default}, {<<>>}, {FALSE}, {FALSE})

MCConfigs == Files \cup Sweep

-----------------------------------------------------------------------------
(* Lists of up to three repeated wires: a faster and a cheaper one for any *)
(* two penalties, in both orders.                                          *)
RepeatedWires3 == [delay : {100, 105, 110, 120, 131}, dyn : {1, 2, 3}, leak : {1, 2}]
MCWireLists ==
  UNION {{<<[delay |-> 100, dyn |-> d, leak |-> 2]>> \o rest : d \in {2, 3}, rest \in [1 .. n -> RepeatedWires3]} :
           n \in 0 .. 2}

(* Interconnects fast enough at once, after one or two widenings, or       *)
(* never.                                                                  *)
Delays == {[w \in Widths |-> IF w = 4 THEN d[3] ELSE d[w]] :
             d \in {<<1, 1, 1>>, <<3, 2, 1>>, <<3, 3, 2>>, <<5, 4, 3>>}}
Units ==
  {[kind |-> "array"], [kind |-> "router"]}
    \cup [kind : {"interconnect"}, delay : Delays, bound : {2}, pipelinable : BOOLEAN, optimise : BOOLEAN]
MCBuilds == UNION {[1 .. n -> Units] : n \in 1 .. 3}

(* Caches around the smallest and the largest numbers of banks, and lists  *)
(* of organisations admissible and not.                                    *)
MCNucaCaches ==
  {q \in [cache_sz : {1, 2, 3, 4, 16, 64, 100, 128, 256, 512}, assoc : {1, 2, 4, 8}, nuca_bank_count : {0, 2, 4, 6, 64, 128}] :
     q.nuca_bank_count <= q.cache_sz}

NucaConfigurations ==
  [bank_count : {1, 2, 4, 6, 16}, ver : {1, 3}, hor : {1, 2}, delay : {4}, cycles : {5, 30}]
MCNucaRuns == {<<first, second>> : first, second \in NucaConfigurations}

Organisations ==
  [delay : {10, 12, 30}, dyn : {5, 6}, leak : {2}, area : {7, 8}, cyc : {1}]
MCNucaPicks ==
  [list : UNION {[1 .. n -> Organisations] : n \in 0 .. 3}, ed : 0 .. 2,
   dev : {[m \in Cost!Metrics |-> d] : d \in {10, 30}},
   wt : {[delay |-> 1, dyn |-> w, leak |-> 0, area |-> 2, cyc |-> 0] : w \in {0, 3}}]

=============================================================================
