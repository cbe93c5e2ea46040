------------------------------ MODULE UnitLife ------------------------------
(***************************************************************************)
(* The life of one unit of a chip, whichever it is: Processor builds it,   *)
(* compute() has it compute its peak and then its runtime energy, its      *)
(* figures are displayed and it is deleted.  The tables of FrontUnits,     *)
(* BackUnits, UncoreUnits and UnitArrays say what each call of each class  *)
(* does; here is what all of them share: parts allocated, read and         *)
(* released, statistics and where they come from, figures and what went    *)
(* into them.                                                              *)
(***************************************************************************)
EXTENDS UnitArrays, Integers, FiniteSets, Sequences

VARIABLES
  unit,    \* its class, "none" before it is built
  cfg,     \* its flags
  next,    \* the position in Calls of the call to come
  live,    \* the parts it has allocated and not deleted
  arrays,  \* what CACTI made of the arrays it asked for
  absent,  \* the parts used that were not there
  lacking, \* per array: what of it was used that it has not got
  stats,   \* per call: the parts whose stats_t it was the last to set
  dyn,     \* per call (is_tdp): what its figures hold, <<figure, part, origin>>
  leak,    \* per call (is_tdp): the leakage in its figures, <<figure, part>>
  saved,   \* the energies a peak call leaves for the runtime call
  printed, \* the figures displayed
  unset    \* the heights read before they were set

lifeVars == <<unit, cfg, next, live, arrays, absent, lacking, stats, dyn, leak, saved,
              printed, unset>>

(* What compute() and the programs call, in this order.                    *)
Calls_RunFirst == <<"construct", "run", "peak", "display", "destroy">>
Calls == <<"construct", "peak", "run", "display", "destroy">>
Call == IF next \in DOMAIN Calls THEN Calls[next] ELSE "over"

Core_classes == {"InstFetchU", "BranchPredictor", "RENAMINGU", "SchedulerU",
                 "LoadStoreU", "MemManU", "RegFU", "FunctionalUnit", "EXECU", "Core"}
Io_classes == {"NIUController", "PCIeController", "FlashController"}
Mc_classes == {"MemoryController", "MCFrontEnd", "MCBackend", "MCPHY"}
Classes == Core_classes \union Io_classes \union Mc_classes
           \union {"SharedCache", "NoC", "inst_decoder"}

(* Which flags a class looks at.                                           *)
Varied(u) ==
  CASE u = "InstFetchU" -> {"prediction"}
    [] u = "BranchPredictor" -> {"multithreaded"}
    [] u = "RENAMINGU" -> {"OOO", "PhysicalRegFile", "RAMbased", "checkpoints", "multiIssue"}
    [] u = "SchedulerU" -> {"OOO", "PhysicalRegFile", "multithreaded", "ROB"}
    [] u = "LoadStoreU" -> {"OOO", "loadBuffer", "writeBack"}
    [] u = "RegFU" -> {"OOO", "regWindowing"}
    [] u = "EXECU" -> {"OOO", "PhysicalRegFile", "multithreaded", "ROB", "fpus", "muls"}
    [] u = "Core" -> {"OOO", "Private_L2"}
    [] u = "NoC" -> {"type", "links"}
    [] u \in {"MemoryController", "PCIeController", "FlashController"} -> {"type0", "withPHY"}
    [] OTHER -> {}

(* The size of a reservation station core's tags is the logarithm of the   *)
(* size of its reorder buffer, which it must have.  Core builds a renaming *)
(* unit for out-of-order cores only.                                       *)
Possible(u, raw) ==
  /\ (u \in {"SchedulerU", "EXECU"} /\ "OOO" \in raw /\ "PhysicalRegFile" \notin raw)
     => "ROB" \in raw
  /\ u = "RENAMINGU" => "OOO" \in raw

Configurations(u) ==
  IF u = "FunctionalUnit" THEN {{t} : t \in FuTypes}
  ELSE IF u = "SharedCache"
       THEN {{l, d} : l \in {"L2", "L3"}, d \in {"SBT", "NonDir"}}
            \union {{l, d} : l \in {"L1Directory", "L2Directory"}, d \in {"ST", "DC", "SBT"}}
       ELSE {CoreDynParam(raw) \intersect Varied(u) :
               raw \in {r \in SUBSET Varied(u) : Possible(u, r)}}

-----------------------------------------------------------------------------
(* The rows of the tables for a class under its flags c.                   *)
Row(mk, pk, rn, ch, fx, sm, sv, sh, gn) ==
  [made |-> mk, peak |-> pk, run |-> rn, charge |-> ch, fixed |-> fx, sum |-> sm,
   saved |-> sv, shown |-> sh, gone |-> gn]

Table(u, c) ==
  CASE u = "InstFetchU" ->
         Row(InstFetchU_made(c), InstFetchU_peak(c), InstFetchU_run(c), InstFetchU_charge(c),
             {}, [t \in BOOLEAN |-> InstFetchU_sum(c, t)], InstFetchU_saved(c),
             InstFetchU_shown(c, TRUE), InstFetchU_gone(c))
    [] u = "BranchPredictor" ->
         Row(BranchPredictor_made(c), BranchPredictor_peak(c), BranchPredictor_run(c),
             BranchPredictor_charge(c), {}, [t \in BOOLEAN |-> BranchPredictor_sum(c, t)], {},
             BranchPredictor_shown(c, TRUE), BranchPredictor_gone(c))
    [] u = "RENAMINGU" ->
         Row(RENAMINGU_made(c), RENAMINGU_peak(c), RENAMINGU_run(c), RENAMINGU_charge(c),
             RENAMINGU_fixed(c), [t \in BOOLEAN |-> RENAMINGU_sum(c, t)], {},
             RENAMINGU_shown(c, TRUE), RENAMINGU_gone(c))
    [] u = "SchedulerU" ->
         Row(SchedulerU_made(c), SchedulerU_peak(c), SchedulerU_run(c), SchedulerU_charge(c),
             SchedulerU_fixed(c), [t \in BOOLEAN |-> SchedulerU_sum(c, t)], {},
             SchedulerU_shown(c, TRUE), SchedulerU_gone(c))
    [] u = "LoadStoreU" ->
         Row(LoadStoreU_made(c), LoadStoreU_peak(c), LoadStoreU_run(c), LoadStoreU_charge(c),
             {}, [t \in BOOLEAN |-> LoadStoreU_sum(c, t)], {}, LoadStoreU_shown(c, TRUE),
             LoadStoreU_gone(c))
    [] u = "MemManU" ->
         Row(MemManU_made(c), MemManU_peak(c), MemManU_run(c), MemManU_charge(c), {},
             [t \in BOOLEAN |-> MemManU_sum(c, t)], {}, MemManU_shown(c, TRUE),
             MemManU_gone(c))
    [] u = "RegFU" ->
         Row(RegFU_made(c), RegFU_peak(c), RegFU_run(c), RegFU_charge(c), {},
             [t \in BOOLEAN |-> RegFU_sum(c, t)], {}, RegFU_shown(c, TRUE), RegFU_gone(c))
    [] u = "FunctionalUnit" ->
         Row({}, FunctionalUnit_peak(c), FunctionalUnit_run(c),
             FunctionalUnit_charge(c), {}, [t \in BOOLEAN |-> FunctionalUnit_sum(c, t)], {},
             FunctionalUnit_shown(c, TRUE), {})
    [] u = "EXECU" ->
         Row(EXECU_made(c), EXECU_peak(c), EXECU_run(c), EXECU_charge(c), {},
             [t \in BOOLEAN |-> EXECU_sum(c, t)], {}, EXECU_shown(c, TRUE), EXECU_gone(c))
    [] u = "Core" ->
         Row(Core_made(c), Core_peak(c), Core_run(c), Core_charge(c), Core_fixed(c),
             [t \in BOOLEAN |-> Core_sum(c, t)], {}, Core_shown(c, TRUE), Core_gone(c))
    [] u = "SharedCache" ->
         Row(SharedCache_made(c), SharedCache_peak(c), SharedCache_run(c),
             SharedCache_charge(c), {}, [t \in BOOLEAN |-> SharedCache_sum(c, t)], {},
             SharedCache_shown(c, TRUE), SharedCache_gone(c))
    [] u = "MemoryController" ->
         Row(MemoryController_made(c), MemoryController_peak(c), MemoryController_run(c),
             MemoryController_charge(c), {}, [t \in BOOLEAN |-> MemoryController_sum(c, t)],
             {}, MemoryController_shown(c, TRUE), MemoryController_gone(c))
    [] u = "MCFrontEnd" ->
         Row(MCFrontEnd_made(c), MCFrontEnd_peak(c), MCFrontEnd_run(c), MCFrontEnd_charge(c),
             {}, [t \in BOOLEAN |-> MCFrontEnd_sum(c, t)], MCFrontEnd_saved(c),
             MCFrontEnd_shown(c, TRUE), MCFrontEnd_gone(c))
    [] u = "MCBackend" ->
         Row({}, MCBackend_peak(c), MCBackend_run(c), MCBackend_charge(c), {},
             [t \in BOOLEAN |-> MCBackend_sum(c, t)], MCBackend_saved(c), {}, {})
    [] u = "MCPHY" ->
         Row({}, MCPHY_peak(c), MCPHY_run(c), MCPHY_charge(c), {},
             [t \in BOOLEAN |-> MCPHY_sum(c, t)], MCPHY_saved(c), {}, {})
    [] u = "NoC" ->
         Row(NoC_made(c), NoC_peak(c), NoC_run(c), NoC_charge(c), {},
             [t \in BOOLEAN |-> NoC_sum(c, t)], NoC_saved(c), NoC_shown(c, TRUE), NoC_gone(c))
    [] u = "NIUController" ->
         Row({}, {}, <<>>, NIUController_charge(c), NIUController_made(c),
             [t \in BOOLEAN |-> NIUController_sum(c, t)], {},
             NIUController_shown(c, TRUE), {})
    [] u = "PCIeController" ->
         Row({}, {}, <<>>, PCIeController_charge(c), PCIeController_made(c),
             [t \in BOOLEAN |-> PCIeController_sum(c, t)], {},
             PCIeController_shown(c, TRUE), {})
    [] u = "FlashController" ->
         Row({}, {}, <<>>, FlashController_charge(c), FlashController_made(c),
             [t \in BOOLEAN |-> FlashController_sum(c, t)], {},
             FlashController_shown(c, TRUE), {})
    [] u = "inst_decoder" ->
         Row(inst_decoder_made(c), {}, <<>>, {}, {}, [t \in BOOLEAN |-> {}], {}, {},
             inst_decoder_gone(c))

(* Parts that are members of the unit and come and go with it.             *)
Members(u, c) ==
  CASE u = "FunctionalUnit" -> FunctionalUnit_made(c)
    [] u = "SharedCache" -> {"homenode", "homenode_rtp"}
    [] u = "MCBackend" -> MCBackend_made(c)
    [] u = "MCPHY" -> MCPHY_made(c)
    [] u = "NIUController" -> NIUController_made(c)
    [] u = "PCIeController" -> PCIeController_made(c)
    [] u = "FlashController" -> FlashController_made(c)
    [] OTHER -> {}

T == Table(unit, cfg)
Union(r) == UNION {r[f] : f \in DOMAIN r}
FiguresOf(pairs) == {fp[1] : fp \in pairs}
PartsOf(pairs) == {fp[2] : fp \in pairs}

-----------------------------------------------------------------------------
InitUnit ==
  /\ unit = "none" /\ cfg = {} /\ next = 1 /\ live = {} /\ absent = {}
  /\ arrays = <<>> /\ lacking = {} /\ saved = {} /\ printed = {} /\ unset = {}
  /\ stats = [call \in {"peak", "run"} |-> {}]
  /\ dyn = [t \in BOOLEAN |-> {}] /\ leak = [t \in BOOLEAN |-> {}]

(* The constructor of a unit u whose flags are c.  An array CACTI refuses  *)
(* ends the program.                                                       *)
Construct(u, c) ==
  /\ Call = "construct"
  /\ unit' = u /\ cfg' = c
  /\ live' = Table(u, c).made \union Members(u, c)
  /\ unset' = IF u = "EXECU" THEN EXECU_crossed(c) \ EXECU_known(c) ELSE {}
  /\ arrays' = ArraysOf(u, c)
  /\ next' = IF \E a \in DOMAIN arrays' : arrays'[a].refused THEN Len(Calls) + 1
             ELSE next + 1
  /\ UNCHANGED <<absent, lacking, stats, dyn, leak, saved, printed>>

(* Where the energy of a part charged for comes from: from its             *)
(* construction, or from the statistics that were last set.                *)
Origin(p, set) ==
  IF p \in T.fixed THEN "construct"
  ELSE IF p \in set["run"] THEN "run" ELSE IF p \in set["peak"] THEN "peak" ELSE "none"

(* computeEnergy(is_tdp): statistics, then figures, then their sum.        *)
ComputeEnergy(is_tdp) ==
  LET call    == IF is_tdp THEN "peak" ELSE "run"
      parts   == IF is_tdp THEN T.peak ELSE DOMAIN T.run
      set     == [k \in DOMAIN stats |-> IF k = call THEN stats[k] \union parts
                                         ELSE stats[k] \ parts]
      needed  == IF is_tdp THEN {} ELSE T.saved \ saved
      touched == Union(set) \union PartsOf(T.charge) \union PartsOf(T.sum[is_tdp])
  IN /\ Call = call
     /\ stats' = set
     /\ dyn' = [dyn EXCEPT ![is_tdp] =
          {<<fp[1], fp[2], IF {fp[1], fp[2]} \intersect needed # {} THEN "none"
                           ELSE Origin(fp[2], set)>> : fp \in T.charge}]
     /\ leak' = [leak EXCEPT ![is_tdp] = T.sum[is_tdp]]
     /\ saved' = IF is_tdp THEN T.saved ELSE saved
     /\ absent' = absent \union (touched \ live)
     /\ lacking' = lacking \union
          {ax \in (DOMAIN arrays) \X Resources :
             ax[2] \in Lacking(arrays[ax[1]], UsesOf(unit, cfg)[ax[1]], is_tdp)}
     /\ next' = next + 1
     /\ UNCHANGED <<unit, cfg, live, arrays, printed, unset>>

ComputePeak == ComputeEnergy(TRUE)
ComputeRun  == ComputeEnergy(FALSE)

DisplayEnergy ==
  /\ Call = "display"
  /\ printed' = T.shown
  /\ next' = next + 1
  /\ UNCHANGED <<unit, cfg, live, arrays, absent, lacking, stats, dyn, leak, saved, unset>>

Destroy ==
  /\ Call = "destroy"
  /\ live' = live \ (T.gone \union Members(unit, cfg))
  /\ next' = next + 1
  /\ UNCHANGED <<unit, cfg, arrays, absent, lacking, stats, dyn, leak, saved, printed, unset>>

-----------------------------------------------------------------------------
Done(call) == \E k \in DOMAIN Calls : Calls[k] = call /\ k < next
Computed(is_tdp) == Done(IF is_tdp THEN "peak" ELSE "run")
Parts == T.made \union Members(unit, cfg)

(* How many figures a part enters.  The pipeline enters those of all units *)
(* of its core, the selection logic those of all windows.  The arbitration *)
(* logic of a memory controller enters none, a decoder is charged by the   *)
(* fetch unit, and home nodes exist in merged directories only.            *)
Entered(p) ==
  IF unit = "inst_decoder" THEN 0
  ELSE CASE p = "corepipe" -> Core_shares(cfg)
         [] p = "instruction_selection" -> Cardinality(Windows(cfg))
         [] p \in {"MC_arb", "homenode_rtp"} -> 0
         [] p = "homenode" -> IF "SBT" \in cfg THEN 1 ELSE 0
         [] OTHER -> 1
Times(S, p) == Cardinality({x \in S : x[2] = p})

NothingAbsent == absent = {}

RequestsAccepted == \A a \in DOMAIN arrays : ~arrays[a].refused

EnergiesThere == lacking = {}

HeightsKnown ==
  unset \subseteq When("OOO" \notin cfg /\ "multithreaded" \notin cfg, {"Iw_height"})
                 \union When("OOO" \in cfg /\ "ROB" \notin cfg, {"ROB_height"})

AllReleased == Done("destroy") => live = {}

(* Nothing a unit uses is missing, and nothing is left over.  No call uses *)
(* a part the constructor did not make for the flags of the unit: the      *)
(* conditions of constructors and calls agree.  CACTI refuses none of the  *)
(* arrays, whatever the array before it has left in the unit's             *)
(* interface_ip.  Each energy charged and each number of ports counted is  *)
(* one the array has: only fully associative arrays with search ports are  *)
(* searched, only arrays with tags and data apart have a tag array to      *)
(* read.  And the height of a unit that bypass wires cross is known when   *)
(* their length is computed, but for the instruction window of a single-   *)
(* threaded in-order core and the reorder buffer of a core without one.    *)
(* What the constructor made is released by the destructor.                *)
NothingMissing ==
  NothingAbsent /\ RequestsAccepted /\ EnergiesThere /\ HeightsKnown /\ AllReleased

EachPartCharged ==
  unit # "none" => \A t \in BOOLEAN : Computed(t) =>
    \A p \in Parts : Times(dyn[t], p) = Entered(p)

(* The parts whose leakage is not counted once.                            *)
Uncounted(is_tdp) ==
     When(unit = "RENAMINGU" /\ "OOO" \in cfg, DCLs)
  \union When(unit = "NIUController", {"SerDer"})
  \union When(~is_tdp /\ unit = "RegFU", RegFiles)
  \union When(~is_tdp /\ unit = "FunctionalUnit", {"fu"})
  \union {"homenode"}
CountedTwice == When(unit = "NIUController", {"frontend"})
LeakageCounted ==
  unit # "none" => \A t \in BOOLEAN : Computed(t) =>
    \A p \in Parts : Times(leak[t], p) =
      (IF p \in Uncounted(t) THEN 0 ELSE IF p \in CountedTwice THEN 2 ELSE Entered(p))

(* Both calls hold the energy and the leakage of each part as often as     *)
(* they should, mostly once, except: the leakage of the check logic of     *)
(* out-of-order renaming units and of the SerDes of the network interface  *)
(* is never counted, that of register files and functional units not in    *)
(* the runtime call, that of the front end of the network interface twice, *)
(* and home nodes have none.                                               *)
ChargedOnce == EachPartCharged /\ LeakageCounted

FiguresOfOwnCall ==
  unit # "none" => \A t \in BOOLEAN : \A x \in dyn[t] :
    x[3] = IF x[2] \in T.fixed THEN "construct"
           ELSE IF t \/ x[2] = "homenode" THEN "peak" ELSE "run"

DisplayComplete ==
  Done("display") =>
    printed = IF unit = "MCFrontEnd" THEN McBuffers
              ELSE FiguresOf(T.charge) \ {"undiffCore", "backend", "phy"}

(* Each figure comes from the statistics of the call that reports it, or   *)
(* from energies known from the construction: the runtime call uses none   *)
(* of the peak call's statistics, nor any energy the peak call did not     *)
(* leave for it.  The home node of a merged directory is charged with the  *)
(* peak call's accesses in both.  And what is displayed of a unit are the  *)
(* figures its calls computed, and all of them, except: the front end of a *)
(* memory controller displays its buffers, whose figures nothing sets, in  *)
(* place of its own; the core its units but not what it adds for           *)
(* undifferentiated logic; and the other parts of a memory controller have *)
(* no display of their own.                                                *)
FiguresRight == FiguresOfOwnCall /\ DisplayComplete
=============================================================================
