------------------------------ MODULE Processor ------------------------------
(***************************************************************************)
(* A Processor of processor.cc: its constructor builds the units of every  *)
(* group, compute() lets each unit compute its peak and its runtime energy *)
(* and adds them to the figures of its group and of the processor.  Cores, *)
(* shared caches, networks and controllers clear, accumulate and re-read   *)
(* their parameters in different ways.  What a unit consumes for a cycle   *)
(* and for an access is a constant; leakage goes the way of the dynamic    *)
(* figures and is left out.                                                *)
(***************************************************************************)
EXTENDS Integers, Sequences, FiniteSets

CONSTANTS
  MaxUnits,    \* bound on the units of a group
  Area, Peak,  \* area and peak energy of one unit
  PerAccess,   \* its energy for one access
  Clock,       \* its clock
  TargetClock, \* target_core_clockrate
  PipeEnergy,  \* the pipelines' energy for one cycle of a core
  LinkArea, LinkEnergy  \* the links of one network

(* The groups in the order the constructor and compute() go through them.  *)
Clearing    == {"core", "l2", "l3", "l1dir", "l2dir"}
Controllers == {"mc", "flash", "niu", "pcie"}
Order == <<"core", "l2", "l3", "l1dir", "l2dir", "mc", "flash", "niu", "pcie",
           "noc">>
Groups == {Order[j] : j \in DOMAIN Order}
Index  == 1 .. MaxUnits

(* num: how many of each there are, 0 for a memory controller or PCIe      *)
(* without channels; homo: homogeneous_cores and its like; router and      *)
(* link: type and has_global_link of each network.                         *)
Config == [num : [Groups -> 0 .. MaxUnits], homo : [Groups -> BOOLEAN],
           privateL2 : BOOLEAN, router : [Index -> BOOLEAN],
           link : [Index -> BOOLEAN]]

(* total_cycles, each core's own cycles and duty cycles, and the accesses  *)
(* (or load) of each unit.                                                 *)
Statistics == [cycles : Nat \ {0}, own : [Index -> Nat], duty : [Index -> Nat],
               acc : [Groups -> [Index -> Nat]]]

(* A ParseXML.                                                             *)
Xml == [cfg : Config, stats : Statistics]

ASSUME ProcessorAssumption ==
  /\ MaxUnits \in Nat \ {0}
  /\ \A f \in {Area, Peak, PerAccess, Clock} : f \in [Groups -> Nat \ {0}]
  /\ TargetClock \in Nat \ {0} /\ PipeEnergy \in Nat
  /\ LinkArea \in Nat \ {0} /\ LinkEnergy \in Nat

VARIABLES
  pc,     \* where the program is
  at,     \* position in Order or in Phases
  xml,    \* *XML
  units,  \* cores, l2array, ..., mc, flashcontroller, niu, pcie, nocs
  tot,    \* core, l2, ..., mcs, ..., noc: the figures of each group
  proc    \* the processor's own area, power and rt_power

chip == <<xml, units, tot, proc>>

-----------------------------------------------------------------------------
Zero == [area |-> 0, power |-> 0, rt |-> 0]
Plus(x, y) == [f \in DOMAIN x |-> x[f] + y[f]]

(* numCore and its like: one unit stands for all of a homogeneous group.   *)
Alike(cfg, g) == g \in Controllers \/ cfg.homo[g]
Number(cfg, g) ==
  IF Alike(cfg, g) /\ cfg.num[g] > 0 THEN 1 ELSE cfg.num[g]
Copies(cfg, g) == IF Alike(cfg, g) THEN cfg.num[g] ELSE 1

(* The units a Processor has: a private L2 is a part of its core.          *)
Built(cfg, g) == IF g = "l2" /\ cfg.privateL2 THEN 0 ELSE Number(cfg, g)
With(cfg, g, f) ==
  f[g] + (IF g = "core" /\ cfg.privateL2 THEN f["l2"] ELSE 0)

(* set_core_param(), set_cache_param(), set_noc_param(), set_mc_param():   *)
(* what a unit copies out of *XML; executionTime is kept as its cycles.    *)
Params(x, i) == [cycles |-> x.stats.cycles, own |-> x.stats.own[i],
                 duty |-> x.stats.duty[i]]

(* A unit.  held: the duty cycles the constructor of a core hands its      *)
(* InstFetchU, LoadStoreU, ... by value; parts: the peak energy of those;  *)
(* len: the chip area the length of a network's links comes from.          *)
NewUnit(x, g, i) ==
  [area |-> With(x.cfg, g, Area), power |-> 0, rt |-> 0, params |-> Params(x, i),
   held |-> x.stats.duty[i], parts |-> 0, len |-> 0]

-----------------------------------------------------------------------------
(* computeEnergy(true): the energy of one cycle at the duty cycles; the    *)
(* pipelines are added at the core's duty cycle.                           *)
PartsEnergy(d) == Peak["core"] * d

PeakEnergy(cfg, g, u, held, duty) ==
  CASE g = "core" -> PartsEnergy(held) + PipeEnergy * duty
                     + (IF cfg.privateL2 THEN Peak["l2"] ELSE 0)
    [] g = "noc" -> Peak[g] + (IF u.len > 0 THEN LinkEnergy ELSE 0)
    [] OTHER -> Peak[g]

(* computeEnergy(false): the energy of all accesses, and of a core's       *)
(* pipelines over all cycles, those of all cores if they are alike.        *)
PipeCycles(x, p) ==
  p.duty * (IF x.cfg.homo["core"] THEN x.stats.cycles * x.cfg.num["core"]
            ELSE p.own)

RunEnergy(x, g, i, u, p) ==
  LET acc(h) == PerAccess[h] * x.stats.acc[h][i] IN
  CASE g = "core" -> acc(g) + PipeEnergy * PipeCycles(x, p)
                     + (IF x.cfg.privateL2 THEN acc("l2") ELSE 0)
    [] g = "noc" -> acc(g) + (IF u.len > 0 THEN LinkEnergy * x.stats.acc[g][i]
                              ELSE 0)
    [] OTHER -> acc(g)

(* Cores and shared caches read their parameters again and clear both      *)
(* figures on each call; a network and the memory controller read them     *)
(* again and clear neither; the other controllers do not read again and    *)
(* overwrite the figure they compute.                                      *)
Refresh_Keep(u, x, i) == u
Refresh(u, x, i) == [u EXCEPT !.params = Params(x, i)]

ComputePeak(u, x, g, i) ==
  LET r == Refresh(u, x, i)
      e == PeakEnergy(x.cfg, g, u, u.held, r.params.duty)
  IN CASE g \in Clearing -> [r EXCEPT !.power = e, !.rt = 0,
                                 !.parts = PartsEnergy(u.held)]
       [] g \in {"noc", "mc"} -> [r EXCEPT !.power = @ + e]
       [] OTHER -> [u EXCEPT !.power = e]

ComputeRun(u, x, g, i) ==
  LET r == Refresh(u, x, i)
      e == RunEnergy(x, g, i, u, r.params)
  IN CASE g \in Clearing -> [r EXCEPT !.power = 0, !.rt = e]
       [] g \in {"noc", "mc"} -> [r EXCEPT !.rt = @ + e]
       [] OTHER -> [u EXCEPT !.rt = e]

Computed(u, x, g, i) == ComputeRun(ComputePeak(u, x, g, i), x, g, i)

(* What a computed unit contributes: peak energy times clock; runtime      *)
(* energy over the execution time, not times the number of units.  NIU and *)
(* PCIe have no statistics of time, a flash controller's figures are       *)
(* watts.                                                                  *)
PowerOf(cfg, g, e) ==
  e * Copies(cfg, g) * (IF g = "flash" THEN 1 ELSE Clock[g])

RuntimeOf(cfg, g, e, cycles) ==
  CASE g = "flash" -> e * Copies(cfg, g)
    [] g \in {"niu", "pcie"} -> e * Copies(cfg, g) * Clock[g]
    [] g = "core" -> (e * Clock[g]) \div cycles
    [] OTHER -> (e * TargetClock) \div cycles

Contribution(cfg, g, u) ==
  [area |-> u.area * Copies(cfg, g), power |-> PowerOf(cfg, g, u.power),
   rt |-> RuntimeOf(cfg, g, u.rt, u.params.cycles)]

Total(cfg, g, us) ==
  LET sum[j \in 0 .. Len(us)] ==
        IF j = 0 THEN Zero ELSE Plus(sum[j - 1], Contribution(cfg, g, us[j]))
  IN sum[Len(us)]

-----------------------------------------------------------------------------
(* The next group, of n.                                                   *)
NextAt_Stay(n) == IF at = n - 1 THEN at ELSE IF at < n THEN at + 1 ELSE 1
NextAt_Past(n) == at + 1
NextAt(n) == IF at < n THEN at + 1 ELSE 1

(* Processor::Processor().                                                 *)
PrivateMatch(cfg) == cfg.privateL2 => Number(cfg, "core") = Number(cfg, "l2")

Exit ==
  /\ pc = "construct" /\ at = 1 /\ ~PrivateMatch(xml.cfg)
  /\ pc' = "ended"
  /\ UNCHANGED <<at, chip>>

(* The processor's own area, which the length of a bus is computed from,   *)
(* is only added up by compute().                                          *)
BusAborts(g) ==
  g = "noc" /\ proc.area = 0
            /\ \E j \in 1 .. Built(xml.cfg, g) : ~xml.cfg.router[j]

Construct ==
  /\ pc = "construct" /\ (at = 1 => PrivateMatch(xml.cfg))
  /\ LET g == Order[at] IN
       /\ ~BusAborts(g)
       /\ units' = [units EXCEPT ![g] =
                      [j \in 1 .. Built(xml.cfg, g) |-> NewUnit(xml, g, j)]]
  /\ at' = NextAt(Len(Order))
  /\ pc' = IF at < Len(Order) THEN pc ELSE "constructed"
  /\ UNCHANGED <<xml, tot, proc>>

(* assert(link_len>0)                                                      *)
Abort ==
  /\ pc = "construct" /\ BusAborts(Order[at])
  /\ pc' = "aborted"
  /\ UNCHANGED <<at, chip>>

-----------------------------------------------------------------------------
(* Processor::compute().                                                   *)
Phases_LinksFirst == SubSeq(Order, 1, 9) \o <<"links", "routers", "networks">>
Phases == SubSeq(Order, 1, 9) \o <<"routers", "links", "networks">>

Computing(ps) ==
  /\ pc = "compute" /\ Phases[at] \in ps
  /\ at' = NextAt(Len(Phases))
  /\ pc' = IF at < Len(Phases) THEN pc ELSE "computed"
  /\ UNCHANGED xml

(* A heterogeneous first level directory's figures reach the processor's   *)
(* total without its clock and its execution time.                         *)
RawSum(us) ==
  LET sum[j \in 0 .. Len(us)] ==
        IF j = 0 THEN Zero
        ELSE Plus(sum[j - 1], [area |-> us[j].area, power |-> us[j].power,
                               rt |-> us[j].rt])
  IN sum[Len(us)]

ToProcessor(cfg, g, us) ==
  IF g = "l1dir" /\ ~cfg.homo[g] THEN RawSum(us) ELSE Total(cfg, g, us)

ComputeUnits ==
  /\ Computing(Clearing)
  /\ LET g  == Phases[at]
         us == [j \in DOMAIN units[g] |-> Computed(units[g][j], xml, g, j)]
     IN /\ units' = [units EXCEPT ![g] = us]
        /\ tot' = [tot EXCEPT ![g] = Plus(@, Total(xml.cfg, g, us))]
        /\ proc' = Plus(proc, ToProcessor(xml.cfg, g, us))

(* A controller is constructed once more; its group's power is assigned,   *)
(* its area added.                                                         *)
ComputeControllers ==
  /\ Computing(Controllers)
  /\ LET g  == Phases[at]
         us == [j \in DOMAIN units[g] |-> Computed(NewUnit(xml, g, j), xml, g, j)]
         t  == Total(xml.cfg, g, us)
     IN /\ units' = [units EXCEPT ![g] = us]
        /\ tot' = [tot EXCEPT ![g] = [t EXCEPT !.area = tot[g].area + @]]
        /\ proc' = Plus(proc, t)

(* The area of all routers first.                                          *)
AddRouters(t, p, a) == <<[t EXCEPT !.area = @ + a], [p EXCEPT !.area = @ + a]>>

ComputeRouters ==
  /\ Computing({"routers"})
  /\ LET sums == AddRouters(tot["noc"], proc, Total(xml.cfg, "noc", units["noc"]).area)
     IN tot' = [tot EXCEPT !["noc"] = sums[1]] /\ proc' = sums[2]
  /\ UNCHANGED units

(* Then the links of each network, whose length is taken from the area of  *)
(* the chip so far: init_link_bus().                                       *)
HasLinks(cfg, j) == cfg.router[j] /\ cfg.link[j]
LinksUpTo(cfg, j) ==
  LinkArea * Copies(cfg, "noc") * Cardinality({k \in 1 .. j : HasLinks(cfg, k)})

ComputeLinks ==
  /\ Computing({"links"})
  /\ LET us == units["noc"]
         a  == LinksUpTo(xml.cfg, Len(us))
     IN /\ units' = [units EXCEPT !["noc"] = [j \in 1 .. Len(us) |->
               IF HasLinks(xml.cfg, j)
               THEN [us[j] EXCEPT !.area = @ + LinkArea,
                                  !.len = proc.area + LinksUpTo(xml.cfg, j - 1)]
               ELSE us[j]]]
        /\ tot' = [tot EXCEPT !["noc"].area = @ + a]
        /\ proc' = [proc EXCEPT !.area = @ + a]

(* Last their energies.                                                    *)
ComputeNetworks ==
  /\ Computing({"networks"})
  /\ LET us == [j \in DOMAIN units["noc"] |->
                  Computed(units["noc"][j], xml, "noc", j)]
         e  == [Total(xml.cfg, "noc", us) EXCEPT !.area = 0]
     IN /\ units' = [units EXCEPT !["noc"] = us]
        /\ tot' = [tot EXCEPT !["noc"] = Plus(@, e)]
        /\ proc' = Plus(proc, e)

Compute == ComputeUnits \/ ComputeControllers \/ ComputeRouters
           \/ ComputeLinks \/ ComputeNetworks

=============================================================================
