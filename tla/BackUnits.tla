------------------------------ MODULE BackUnits ------------------------------
(***************************************************************************)
(* The units of core.cc and logic.cc that load, store and execute:         *)
(* LoadStoreU, MemManU, RegFU, FunctionalUnit, EXECU, and the Core itself, *)
(* whose parts are the units.                                              *)
(***************************************************************************)
EXTENDS FrontUnits

(* LoadStoreU: the data cache with its buffers, the load/store queue and   *)
(* the load queue of an out-of-order core.                                 *)
DCache(c) ==
  {"dcache.caches", "dcache.missb", "dcache.ifb", "dcache.prefetchb"}
  \union When("writeBack" \in c, {"dcache.wbb"})
HasLoadQ(c) == "OOO" \in c /\ "loadBuffer" \in c

LoadStoreU_made(c) ==
  DCache(c) \union {"LSQ"}
  \union When("OOO" \in c /\ "loadBuffer" \in c, {"LoadQ"})

LoadStoreU_peak_AnyQueue(c) ==
  DCache(c) \union {"LSQ"} \union When("OOO" \in c, {"LoadQ"})
LoadStoreU_peak(c) ==
  DCache(c) \union {"LSQ"} \union When(HasLoadQ(c), {"LoadQ"})

(* The buffers of a write-back cache are charged with its write misses,    *)
(* those of a write-through cache with its read misses.                    *)
LoadStoreU_run(c) ==
     ("dcache.caches" :> {"dcache.read_accesses", "dcache.read_misses",
                          "dcache.write_accesses", "dcache.write_misses"})
  @@ Each(DCache(c), IF "writeBack" \in c THEN {"dcache.write_misses"}
                     ELSE {"dcache.read_misses"})
  @@ Each({"LSQ"} \union When(HasLoadQ(c), {"LoadQ"}),
          {"load_instructions", "store_instructions"})

LoadStoreU_charge_NoLoadQ(c) == ({"dcache"} \X DCache(c)) \union Own({"LSQ"})
LoadStoreU_charge(c) ==
  ({"dcache"} \X DCache(c)) \union Own({"LSQ"} \union When(HasLoadQ(c), {"LoadQ"}))
LoadStoreU_sum(c, is_tdp) ==
  ({"dcache"} \X DCache(c)) \union Own({"LSQ"} \union When(HasLoadQ(c), {"LoadQ"}))

(* The figures of the runtime part name the load queue of every            *)
(* out-of-order core.                                                      *)
LoadStoreU_shown(c, is_tdp) ==
  {"dcache", "LSQ"}
  \union When("OOO" \in c /\ (is_tdp => "loadBuffer" \in c), {"LoadQ"})
LoadStoreU_gone(c) == DCache(c) \union {"LSQ", "LoadQ"}

-----------------------------------------------------------------------------
(* MemManU: the translation buffers.                                       *)
TLBs == {"itlb", "dtlb"}
MemManU_made(c) == TLBs
MemManU_peak(c) == TLBs
MemManU_run(c) == [itlb |-> {"itlb.total_accesses", "itlb.total_misses"},
                   dtlb |-> {"dtlb.total_accesses", "dtlb.total_misses"}]
MemManU_charge(c) == Own(TLBs)
MemManU_sum(c, is_tdp) == Own(TLBs)
MemManU_shown(c, is_tdp) == TLBs
MemManU_gone(c) == TLBs

-----------------------------------------------------------------------------
(* RegFU: register files and, with register windows, their spill area,     *)
(* whose traffic the files are charged with too.                           *)
RegFiles == {"IRF", "FRF"}
Windowed(c) == When("regWindowing" \in c, {"RFWIN"})

RegFU_made(c) == RegFiles \union When("regWindowing" \in c, {"RFWIN"})
RegFU_peak(c) == RegFiles \union Windowed(c)
RegFU_run(c) ==
  LET spills == When("regWindowing" \in c, {"function_calls"}) IN
     [IRF |-> {"int_regfile_reads", "int_regfile_writes"} \union spills,
      FRF |-> {"float_regfile_reads", "float_regfile_writes"} \union spills]
  @@ Each(Windowed(c), spills)
RegFU_charge(c) == Own(RegFiles \union Windowed(c))

(* The runtime sum adds power_t, which has no leakage, of the two files.   *)
RegFU_sum(c, is_tdp) == When(is_tdp, Own(RegFiles)) \union Own(Windowed(c))
RegFU_shown(c, is_tdp) == RegFiles \union Windowed(c)
RegFU_gone(c) == RegFiles \union {"RFWIN"}

-----------------------------------------------------------------------------
(* FunctionalUnit: the ALUs, FPUs or multipliers of a core, all in one.    *)
FuTypes == {"ALU", "FPU", "MUL"}

FunctionalUnit_made(c) == {"fu"}
FunctionalUnit_peak(c) == When(c \intersect FuTypes # {}, {"fu"})
FunctionalUnit_run(c) ==
  Each({"fu"}, When("FPU" \in c, {"fpu_accesses"})
               \union When("ALU" \in c, {"ialu_accesses"})
               \union When("MUL" \in c, {"mul_accesses"}))
FunctionalUnit_charge(c) == Own({"fu"})
FunctionalUnit_sum(c, is_tdp) == When(is_tdp, Own({"fu"}))
FunctionalUnit_shown(c, is_tdp) == {"fu"}

-----------------------------------------------------------------------------
(* EXECU: register files, scheduler, functional units and the wires that   *)
(* broadcast results to them.                                              *)
IntBypass == {"int_bypass", "intTagBypass"}
MulBypass(c) == When("muls" \in c, {"int_mul_bypass", "intTag_mul_Bypass"})
FpBypass(c)  == When("fpus" \in c, {"fp_bypass", "fpTagBypass"})
ExecUnits(c) == {"rfu", "scheu", "exeu"}
                \union When("fpus" \in c, {"fp_u"}) \union When("muls" \in c, {"mul"})

EXECU_made(c) == ExecUnits(c) \union IntBypass \union MulBypass(c) \union FpBypass(c)

(* The heights that the lengths of the wires are sums of, and which of     *)
(* them the units built before the wires have set.                         *)
Windowless(c) == {"int_regfile_height", "exeu", "lsq_height"}
EXECU_crossed_inorder(c) ==
  Windowless(c) \union {"Iw_height"}
  \union When("muls" \in c \/ "fpus" \in c, {"fp_regfile_height"})
  \union When("muls" \in c, {"mul"}) \union When("fpus" \in c, {"fp_u"})
EXECU_crossed_ooo(c) ==
  Windowless(c) \union {"Iw_height", "ROB_height"} \union When("muls" \in c, {"mul"})
  \union When("fpus" \in c, {"fp_regfile_height", "fp_u", "fp_Iw_height"})
EXECU_crossed(c) ==
  IF "OOO" \in c THEN EXECU_crossed_ooo(c) ELSE EXECU_crossed_inorder(c)
EXECU_known(c) ==
  {"int_regfile_height", "fp_regfile_height", "lsq_height"}
  \union SchedulerU_heights(c) \union ExecUnits(c)

EXECU_peak(c) == EXECU_made(c)
EXECU_run(c) ==
     Each(ExecUnits(c), {}) @@ Each(IntBypass, {"cdb_alu_accesses"})
  @@ Each(MulBypass(c), {"cdb_mul_accesses"}) @@ Each(FpBypass(c), {"cdb_fpu_accesses"})
EXECU_charge(c) ==
  ({"bypass"} \X (IntBypass \union MulBypass(c) \union FpBypass(c))) \union Own(ExecUnits(c))
EXECU_sum(c, is_tdp) ==
  ({"bypass"} \X (IntBypass \union MulBypass(c) \union FpBypass(c))) \union Own(ExecUnits(c))
EXECU_shown(c, is_tdp) ==
  {"rfu", "scheu", "bypass"} \union When(is_tdp, ExecUnits(c))
EXECU_gone(c) ==
  {"int_bypass", "intTagBypass", "int_mul_bypass", "intTag_mul_Bypass", "fp_bypass",
   "fpTagBypass", "fp_u", "exeu", "mul", "rfu", "scheu"}

-----------------------------------------------------------------------------
(* Core.  Its units' figures each get an equal share of the pipeline's.    *)
CoreUnits(c) ==
  {"ifu", "lsu", "mmu", "exu"} \union When("OOO" \in c, {"rnu"})

Core_made(c) ==
  {"ifu", "lsu", "mmu", "exu", "undiffCore", "corepipe"}
  \union When("Private_L2" \in c, {"l2cache"}) \union When("OOO" \in c, {"rnu"})

Core_peak(c) == CoreUnits(c) \union When("Private_L2" \in c, {"l2cache"})
Core_run(c)  == Each(CoreUnits(c) \union When("Private_L2" \in c, {"l2cache"}), {})

(* num_units                                                               *)
Core_shares(c) == IF "OOO" \in c THEN 5 ELSE 4
Core_fixed(c) == {"corepipe", "undiffCore"}

Core_charge(c) ==
  (CoreUnits(c) \X {"corepipe"}) \union Own(CoreUnits(c)) \union Own({"undiffCore"})
  \union Own(When("Private_L2" \in c, {"l2cache"}))
Core_sum(c, is_tdp) ==
  (CoreUnits(c) \X {"corepipe"}) \union Own(CoreUnits(c)) \union Own({"undiffCore"})
  \union Own(When("Private_L2" \in c, {"l2cache"}))
Core_shown(c, is_tdp) ==
  IF is_tdp THEN CoreUnits(c) \union When("Private_L2" \in c, {"l2cache"})
  ELSE {"ifu", "lsu", "mmu", "exu"}
Core_gone(c) ==
  {"ifu", "lsu", "rnu", "mmu", "exu", "corepipe", "undiffCore", "l2cache"}
=============================================================================
