----------------------------- MODULE FrontUnits -----------------------------
(***************************************************************************)
(* The units of core.cc that fetch, predict, rename and schedule           *)
(* instructions: InstFetchU, BranchPredictor, RENAMINGU and SchedulerU.    *)
(***************************************************************************)
EXTENDS UnitTables

(* Core::set_core_param(): what the units see of the parameters.  A RAM    *)
(* based RAT has as many checkpoints as are asked for, up to four; a CAM   *)
(* based one has at least one.  Only in-order cores have register windows. *)
CoreDynParam(raw) ==
  {f \in raw : f = "regWindowing" => "OOO" \notin raw}
  \union When("RAMbased" \notin raw, {"checkpoints"})

-----------------------------------------------------------------------------
(* InstFetchU: the instruction cache with its three buffers, the branch    *)
(* target buffer and the predictor, the instruction buffer and the three   *)
(* parts of the decoder.                                                   *)
ICache   == {"icache.caches", "icache.missb", "icache.ifb", "icache.prefetchb"}
Decoders == {"ID_inst", "ID_operand", "ID_misc"}

InstFetchU_made(c) ==
  ICache \union {"IB"} \union Decoders
  \union When("prediction" \in c, {"BTB", "BPT"})

InstFetchU_peak(c) ==
  ICache \union {"IB"} \union Decoders
  \union When("prediction" \in c, {"BTB", "BPT"})

InstFetchU_run(c) ==
     ("icache.caches" :> {"icache.read_accesses", "icache.read_misses"})
  @@ Each(ICache, {"icache.read_misses"})
  @@ Each({"IB"} \union Decoders, {"total_instructions"})
  @@ Rows("prediction" \in c, [BTB |-> {"BTB.read_accesses", "BTB.write_accesses"},
                               BPT |-> {}])

InstFetchU_charge(c) ==
  ({"icache"} \X ICache) \union Own({"IB"} \union Decoders)
  \union When("prediction" \in c, Own({"BTB", "BPT"}))

InstFetchU_sum(c, is_tdp) ==
  ({"icache"} \X ICache) \union Own({"IB"} \union Decoders)
  \union When("prediction" \in c, Own({"BTB", "BPT"}))

(* The decoder's energy for one access is only known before the peak call  *)
(* multiplies it: that call keeps it in power_t for the runtime call.      *)
InstFetchU_saved(c) == Decoders

InstFetchU_shown(c, is_tdp) ==
  IF is_tdp
  THEN {"icache", "IB"} \union Decoders \union When("prediction" \in c, {"BTB", "BPT"})
  ELSE {"icache", "IB", "BTB", "BPT"}

InstFetchU_gone(c) ==
  ICache \union {"IB"} \union Decoders
  \union When("prediction" \in c, {"BTB", "BPT"})

-----------------------------------------------------------------------------
(* BranchPredictor: the tournament predictor and the return address stack. *)
Predictors == {"globalBPT", "L1_localBPT", "L2_localBPT", "chooser"}

BranchPredictor_made(c)  == Predictors \union {"RAS"}
BranchPredictor_peak(c)  == Predictors \union {"RAS"}
BranchPredictor_run(c) ==
     Each(Predictors, {"branch_instructions", "branch_mispredictions"})
  @@ [RAS |-> {"function_calls"}]
BranchPredictor_charge(c) == Own(Predictors \union {"RAS"})
BranchPredictor_sum(c, is_tdp) == Own(Predictors \union {"RAS"})
BranchPredictor_shown(c, is_tdp) ==
  (Predictors \union {"RAS"}) \ When(~is_tdp, {"L2_localBPT"})
BranchPredictor_gone(c) == Predictors \union {"RAS", "localBPT"}

-----------------------------------------------------------------------------
(* RENAMINGU: front and retirement register alias tables, free lists and   *)
(* dependency check logic, for integer and floating point registers.  A    *)
(* reservation station core has one free list, in-order cores have the     *)
(* check logic only.                                                       *)
FRATs == {"iFRAT", "fFRAT"}
RRATs == {"iRRAT", "fRRAT"}
DCLs  == {"idcl", "fdcl"}
HasRRAT(c) == "RAMbased" \in c /\ "checkpoints" \notin c
FreeLists(c) == {"ifreeL"} \union When("PhysicalRegFile" \in c, {"ffreeL"})

RENAMINGU_physical(c) ==
  FRATs \union When("RAMbased" \in c /\ "checkpoints" \notin c, RRATs)
  \union {"ifreeL", "ffreeL"} \union DCLs
RENAMINGU_reservation(c) ==
  FRATs \union When("RAMbased" \in c /\ "checkpoints" \notin c, RRATs)
  \union {"ifreeL"} \union DCLs

RENAMINGU_made(c) ==
  IF "OOO" \notin c THEN When("multiIssue" \in c, DCLs)
  ELSE IF "PhysicalRegFile" \in c THEN RENAMINGU_physical(c)
       ELSE RENAMINGU_reservation(c)

RENAMINGU_peak(c) ==
  IF "OOO" \notin c THEN When("multiIssue" \in c, DCLs)
  ELSE FRATs \union When(HasRRAT(c), RRATs) \union FreeLists(c) \union DCLs

IntRename == {"rename_reads", "rename_writes"}
FpRename  == {"fp_rename_reads", "fp_rename_writes"}

RENAMINGU_run(c) ==
  IF "OOO" \notin c
  THEN Rows("multiIssue" \in c, [idcl |-> {"int_instructions"},
                                 fdcl |-> {"fp_instructions"}])
  ELSE [iFRAT |-> IntRename, fFRAT |-> FpRename]
       @@ Rows(HasRRAT(c), [iRRAT |-> {"rename_writes"},
                            fRRAT |-> {"fp_rename_writes"}])
       @@ (IF "PhysicalRegFile" \in c
           THEN [ifreeL |-> IntRename, ffreeL |-> FpRename]
           ELSE [ifreeL |-> IntRename \union FpRename])
       @@ [idcl |-> {"rename_reads"}, fdcl |-> {"fp_rename_writes"}]

(* Each read of a front table is charged with the energy of its check.     *)
RENAMINGU_charge(c) ==
  IF "OOO" \notin c THEN When("multiIssue" \in c, Own(DCLs))
  ELSE Own(FRATs) \union {<<"iFRAT", "idcl">>, <<"fFRAT", "fdcl">>}
       \union When(HasRRAT(c), Own(RRATs)) \union Own(FreeLists(c))

RENAMINGU_fixed(c) == When("OOO" \in c, DCLs)

(* The check logic's own power_t is added as well; an out-of-order core    *)
(* never sets it, so its leakage is not counted.                           *)
RENAMINGU_sum(c, is_tdp) ==
  IF "OOO" \notin c THEN Own(DCLs)
  ELSE Own(FRATs) \union When(HasRRAT(c), Own(RRATs)) \union Own(FreeLists(c))

RENAMINGU_shown(c, is_tdp) ==
  IF "OOO" \notin c THEN DCLs
  ELSE FRATs \union FreeLists(c)
       \union When(HasRRAT(c) /\ (is_tdp \/ "PhysicalRegFile" \in c), RRATs)

RENAMINGU_gone(c) ==
  FRATs \union RRATs \union {"ifreeL", "ffreeL", "RAHT"} \union DCLs

-----------------------------------------------------------------------------
(* SchedulerU: instruction windows, their selection logic and the reorder  *)
(* buffer.  A single-threaded in-order core has none of them.              *)
SchedulerU_inorder(c) ==
  When("multithreaded" \in c, {"int_inst_window", "instruction_selection"})
SchedulerU_ooo(c) ==
  {"int_inst_window", "fp_inst_window", "instruction_selection"}
  \union When("ROB" \in c, {"ROB"})
SchedulerU_made(c) ==
  IF "OOO" \in c THEN SchedulerU_ooo(c) ELSE SchedulerU_inorder(c)

Windows(c) ==
  IF "OOO" \in c THEN {"int_inst_window", "fp_inst_window"}
  ELSE When("multithreaded" \in c, {"int_inst_window"})
Ordered(c) == When("OOO" \in c /\ "ROB" \in c, {"ROB"})

SchedulerU_peak(c) == Windows(c) \union Ordered(c)

SchedulerU_run(c) ==
  IF "OOO" \in c
  THEN [int_inst_window |-> {"inst_window_reads", "inst_window_writes",
                             "inst_window_wakeup_accesses"},
        fp_inst_window |-> {"fp_inst_window_reads", "fp_inst_window_writes",
                            "fp_inst_window_wakeup_accesses"}]
       @@ Rows("ROB" \in c, [ROB |-> {"ROB_reads", "ROB_writes"}])
  ELSE Rows("multithreaded" \in c,
            [int_inst_window |-> {"int_instructions", "fp_instructions"}])

(* Every window is charged with, and leaks, a selection logic.             *)
SchedulerU_charge(c) ==
  (Windows(c) \X {"instruction_selection"}) \union Own(Windows(c) \union Ordered(c))
SchedulerU_fixed(c) == {"instruction_selection"}
SchedulerU_sum(c, is_tdp) ==
  (Windows(c) \X {"instruction_selection"}) \union Own(Windows(c) \union Ordered(c))
SchedulerU_shown(c, is_tdp) == Windows(c) \union Ordered(c)
SchedulerU_gone_NoROB(c) ==
  {"int_inst_window", "fp_inst_window", "instruction_selection"}
SchedulerU_gone(c) ==
  {"int_inst_window", "fp_inst_window", "ROB", "instruction_selection"}

(* The heights the constructor leaves behind, which bypass wires cross.    *)
SchedulerU_heights(c) ==
  IF "OOO" \in c
  THEN {"Iw_height", "fp_Iw_height"} \union When("ROB" \in c, {"ROB_height"})
  ELSE When("multithreaded" \in c, {"Iw_height"})
=============================================================================
