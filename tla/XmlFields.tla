------------------------------ MODULE XmlFields ------------------------------
(***************************************************************************)
(* What ParseXML::parse() stores of a component of the file, and what      *)
(* ParseXML::initialize() put there before.  A component gives values to   *)
(* names; parse() compares each name with the ones it knows and stores the *)
(* value in a field of sys.  The tables are functions from the names to    *)
(* the fields; names and fields of a nested component stand under its      *)
(* name.                                                                   *)
(***************************************************************************)
EXTENDS Integers, Sequences, Tables

(* Names stored in the field of the same name.                             *)
Same(S) == [x \in S |-> x]

system_params == Same(
  {"number_of_cores", "number_of_L1Directories", "number_of_L2Directories",
   "number_of_L2s", "Private_L2", "number_of_L3s", "number_of_NoCs",
   "number_of_dir_levels", "domain_size", "first_level_dir", "homogeneous_cores",
   "core_tech_node", "target_core_clockrate", "target_chip_area", "temperature",
   "number_cache_levels", "L1_property", "L2_property", "homogeneous_L2s",
   "homogeneous_L1Directories", "homogeneous_L2Directories", "L3_property",
   "homogeneous_L3s", "homogeneous_ccs", "homogeneous_NoCs", "Max_area_deviation",
   "Max_power_deviation", "device_type", "longer_channel_device", "power_gating",
   "opt_dynamic_power", "opt_lakage_power", "opt_clockrate", "opt_area", "Embedded",
   "interconnect_projection_type", "machine_bits", "virtual_address_width",
   "physical_address_width", "virtual_memory_page_size", "vdd", "power_gating_vcc"})
system_stats == Same({"total_cycles"})

core_params == Same(
  {"clock_rate", "opt_local", "x86", "machine_bits", "virtual_address_width",
   "physical_address_width", "instruction_length", "opcode_width",
   "micro_opcode_width", "machine_type", "internal_datapath_width",
   "number_hardware_threads", "fetch_width", "number_instruction_fetch_ports",
   "decode_width", "issue_width", "peak_issue_width", "commit_width",
   "fp_issue_width", "prediction_width", "vdd", "power_gating_vcc",
   "pipelines_per_core", "pipeline_depth", "FPU", "divider_multiplier",
   "ALU_per_core", "FPU_per_core", "MUL_per_core", "instruction_buffer_size",
   "decoded_stream_buffer_size", "instruction_window_scheme",
   "instruction_window_size", "fp_instruction_window_size", "ROB_size",
   "archi_Regs_IRF_size", "archi_Regs_FRF_size", "phy_Regs_IRF_size",
   "phy_Regs_FRF_size", "rename_scheme", "checkpoint_depth",
   "register_windows_size", "LSU_order", "store_buffer_size", "load_buffer_size",
   "memory_ports", "Dcache_dual_pump", "RAS_size"})

(* The writes of the physical and the architectural register files go into *)
(* each other's fields.                                                    *)
core_stats ==
     ("phy_int_regfile_writes" :> "archi_int_regfile_writes")
  @@ ("phy_float_regfile_writes" :> "archi_float_regfile_writes")
  @@ ("archi_int_regfile_writes" :> "phy_int_regfile_writes")
  @@ ("archi_float_regfile_writes" :> "phy_float_regfile_writes")
  @@ Same(
  {"total_instructions", "int_instructions", "fp_instructions",
   "branch_instructions", "branch_mispredictions", "committed_instructions",
   "committed_int_instructions", "committed_fp_instructions", "load_instructions",
   "store_instructions", "total_cycles", "idle_cycles", "busy_cycles",
   "instruction_buffer_reads", "instruction_buffer_write", "ROB_reads",
   "ROB_writes", "rename_reads", "rename_writes", "fp_rename_reads",
   "fp_rename_writes", "inst_window_reads", "inst_window_writes",
   "inst_window_wakeup_accesses", "inst_window_selections",
   "fp_inst_window_reads", "fp_inst_window_writes",
   "fp_inst_window_wakeup_accesses", "archi_int_regfile_reads",
   "archi_float_regfile_reads", "phy_int_regfile_reads", "phy_float_regfile_reads",
   "int_regfile_reads", "float_regfile_reads", "int_regfile_writes",
   "float_regfile_writes", "windowed_reg_accesses", "windowed_reg_transports",
   "function_calls", "context_switches", "ialu_accesses", "fpu_accesses",
   "mul_accesses", "cdb_alu_accesses", "cdb_mul_accesses", "cdb_fpu_accesses",
   "load_buffer_reads", "load_buffer_writes", "load_buffer_cams",
   "store_buffer_reads", "store_buffer_writes", "store_buffer_cams",
   "store_buffer_forwards", "main_memory_access", "main_memory_read",
   "main_memory_write", "pipeline_duty_cycle", "IFU_duty_cycle", "BR_duty_cycle",
   "LSU_duty_cycle", "MemManU_I_duty_cycle", "MemManU_D_duty_cycle",
   "ALU_duty_cycle", "MUL_duty_cycle", "FPU_duty_cycle", "ALU_cdb_duty_cycle",
   "MUL_cdb_duty_cycle", "FPU_cdb_duty_cycle"})

-----------------------------------------------------------------------------
(* The nested components of a core: "PBT", "itlb", "icache", "dtlb",       *)
(* "dcache" and "BTB".                                                     *)
PBT == Same(
  {"predictor.prediction_width", "predictor.prediction_scheme",
   "predictor.predictor_size", "predictor.predictor_entries",
   "predictor.local_predictor_size", "predictor.local_predictor_entries",
   "predictor.global_predictor_entries", "predictor.global_predictor_bits",
   "predictor.chooser_predictor_entries", "predictor.chooser_predictor_bits",
   "predictor.predictor_accesses"})

itlb == Same(
  {"itlb.number_entries", "itlb.total_hits", "itlb.total_accesses",
   "itlb.total_misses", "itlb.conflicts"})

icache == Same(
  {"icache.icache_config", "icache.buffer_sizes", "icache.total_accesses",
   "icache.read_accesses", "icache.read_misses", "icache.replacements",
   "icache.read_hits", "icache.total_hits", "icache.total_misses",
   "icache.conflicts", "icache.miss_buffer_access", "icache.fill_buffer_accesses",
   "icache.prefetch_buffer_accesses", "icache.prefetch_buffer_writes",
   "icache.prefetch_buffer_reads", "icache.prefetch_buffer_hits"})

dtlb_NoMisses == Same(
  {"dtlb.number_entries", "dtlb.conflicts", "dtlb.total_accesses",
   "dtlb.read_accesses", "dtlb.write_accesses", "dtlb.total_hits",
   "dtlb.read_hits", "dtlb.write_hits", "dtlb.read_misses", "dtlb.write_misses"})

dtlb == Same(
  {"dtlb.number_entries", "dtlb.conflicts", "dtlb.total_accesses",
   "dtlb.read_accesses", "dtlb.write_accesses", "dtlb.total_hits",
   "dtlb.total_misses", "dtlb.read_hits", "dtlb.write_hits", "dtlb.read_misses",
   "dtlb.write_misses"})

dcache == Same(
  {"dcache.dcache_config", "dcache.buffer_sizes", "dcache.write_backs",
   "dcache.wbb_writes", "dcache.wbb_reads", "dcache.conflicts",
   "dcache.total_accesses", "dcache.read_accesses", "dcache.write_accesses",
   "dcache.total_hits", "dcache.total_misses", "dcache.read_hits",
   "dcache.write_hits", "dcache.read_misses", "dcache.write_misses",
   "dcache.replacements", "dcache.miss_buffer_access",
   "dcache.fill_buffer_accesses", "dcache.prefetch_buffer_accesses",
   "dcache.prefetch_buffer_writes", "dcache.prefetch_buffer_reads",
   "dcache.prefetch_buffer_hits"})

BTB == Same(
  {"BTB.BTB_config", "BTB.total_accesses", "BTB.read_accesses",
   "BTB.write_accesses", "BTB.total_hits", "BTB.total_misses", "BTB.read_hits",
   "BTB.write_hits", "BTB.read_misses", "BTB.write_misses", "BTB.replacements"})

core == core_params @@ core_stats @@ PBT @@ itlb @@ icache @@ dtlb @@ dcache @@ BTB

-----------------------------------------------------------------------------
(* The components outside the cores.                                       *)
L1Directory == ("3D_stack" :> "threeD_stack") @@ Same(
  {"Dir_config", "buffer_sizes", "clockrate", "vdd", "power_gating_vcc", "ports",
   "device_type", "Directory_type", "total_accesses", "read_accesses",
   "write_accesses", "read_misses", "write_misses", "conflicts", "duty_cycle"})

L2Directory == ("3D_stack" :> "threeD_stack") @@ Same(
  {"Dir_config", "buffer_sizes", "clockrate", "vdd", "power_gating_vcc", "ports",
   "device_type", "Directory_type", "total_accesses", "read_accesses",
   "write_accesses", "read_misses", "write_misses", "conflicts", "duty_cycle"})

CacheUse == {"total_accesses", "read_accesses", "write_accesses", "total_hits",
             "total_misses", "read_hits", "write_hits", "read_misses", "write_misses",
             "replacements"}
SharedBufferUse == {"miss_buffer_accesses", "fill_buffer_accesses",
                    "prefetch_buffer_accesses", "prefetch_buffer_writes",
                    "prefetch_buffer_reads", "prefetch_buffer_hits"}

(* homenode_read_accesses is compared with twice, and                      *)
(* homenode_write_accesses never.                                          *)
L2 == Same(
  {"L2_config", "clockrate", "vdd", "power_gating_vcc", "merged_dir", "ports",
   "device_type", "threeD_stack", "buffer_sizes", "write_backs", "wbb_writes",
   "wbb_reads", "conflicts", "duty_cycle", "homenode_read_accesses",
   "homenode_read_hits", "homenode_write_hits", "homenode_read_misses",
   "homenode_write_misses", "dir_duty_cycle"} \union CacheUse \union SharedBufferUse)
L3 == Same(
  {"L3_config", "clockrate", "vdd", "power_gating_vcc", "merged_dir", "ports",
   "device_type", "threeD_stack", "buffer_sizes", "write_backs", "wbb_writes",
   "wbb_reads", "conflicts", "duty_cycle", "homenode_read_accesses",
   "homenode_read_hits", "homenode_write_hits", "homenode_read_misses",
   "homenode_write_misses", "dir_duty_cycle"} \union CacheUse \union SharedBufferUse)

NoC == ("link_routing_over_percentage" :> "route_over_perc") @@ Same(
  {"clockrate", "type", "vdd", "power_gating_vcc", "topology", "horizontal_nodes",
   "vertical_nodes", "has_global_link", "link_throughput", "link_latency",
   "input_ports", "output_ports", "virtual_channel_per_port", "flit_bits",
   "input_buffer_entries_per_vc", "dual_pump", "chip_coverage",
   "ports_of_input_buffer", "number_of_crossbars", "crossbar_type",
   "crosspoint_type", "arbiter_type", "total_accesses", "duty_cycle"})

(* The crossbar nested in a network stores its predictor_accesses, a name  *)
(* it hardly has, in the core of the network's index.                      *)
xbar0 == ("xbar0.predictor_accesses" :> "core[i].predictor.predictor_accesses")
  @@ Same(
  {"xbar0.number_of_inputs_of_crossbars", "xbar0.number_of_outputs_of_crossbars",
   "xbar0.flit_bits", "xbar0.input_buffer_entries_per_port",
   "xbar0.ports_of_input_buffer"})

mc == ("block_size" :> "llc_line_length") @@ Same(
  {"mc_clock", "vdd", "power_gating_vcc", "number_mcs", "memory_channels_per_mc",
   "req_window_size_per_channel", "IO_buffer_size_per_channel", "databus_width",
   "addressbus_width", "peak_transfer_rate", "number_ranks", "LVDS", "type",
   "withPHY", "memory_accesses", "memory_reads", "memory_writes"})

niu == Same({"clockrate", "number_units", "type", "vdd", "power_gating_vcc",
             "duty_cycle", "total_load_perc"})

pcie == Same({"clockrate", "number_units", "num_channels", "type", "vdd",
              "power_gating_vcc", "withPHY", "duty_cycle", "total_load_perc"})

(* Most names of the flash controller are commented out.                   *)
flashc == ("number_flashcs" :> "number_mcs") @@ Same(
  {"vdd", "power_gating_vcc", "peak_transfer_rate", "type", "withPHY", "duty_cycle",
   "total_load_perc"})

Stored(g) ==
  CASE g = "system" -> system_params @@ system_stats
    [] g = "core" -> core
    [] g = "L1Directory" -> L1Directory
    [] g = "L2Directory" -> L2Directory
    [] g = "L2" -> L2
    [] g = "L3" -> L3
    [] g = "NoC" -> NoC @@ xbar0
    [] g = "mc" -> mc
    [] g = "niu" -> niu
    [] g = "pcie" -> pcie
    [] g = "flashc" -> flashc

-----------------------------------------------------------------------------
(* ParseXML::initialize(): the fields it gives a value, per component.     *)
(* ParseXML objects start as zeros, so the others are zero.                *)
Fields(g) == {Stored(g)[a] : a \in DOMAIN Stored(g)}

initialize_system == Fields("system") \
  {"number_of_dir_levels", "domain_size", "first_level_dir", "L1_property",
   "L2_property", "L3_property", "machine_bits", "virtual_address_width",
   "physical_address_width", "virtual_memory_page_size", "total_cycles"}

initialize_core == {"rename_accesses"} \union (DOMAIN core_params \
  {"instruction_length", "machine_type", "instruction_window_scheme",
   "fp_instruction_window_size", "fp_issue_width", "prediction_width",
   "rename_scheme"})
initialize_core_stats == Fields("core") \ (DOMAIN core_params \union
  {"committed_int_instructions", "committed_fp_instructions", "rename_reads",
   "rename_writes", "fp_rename_reads", "fp_rename_writes", "fp_inst_window_reads",
   "fp_inst_window_writes", "fp_inst_window_wakeup_accesses",
   "phy_int_regfile_writes", "phy_float_regfile_writes",
   "archi_int_regfile_writes", "archi_float_regfile_writes", "int_regfile_reads",
   "float_regfile_reads", "int_regfile_writes", "float_regfile_writes",
   "context_switches", "pipeline_duty_cycle", "icache.buffer_sizes",
   "dcache.buffer_sizes", "icache.conflicts", "dcache.conflicts", "itlb.conflicts",
   "dtlb.conflicts"})

initialize_L1directory ==
  Fields("L1Directory") \ {"Directory_type", "read_misses", "write_misses", "conflicts"}
initialize_L2directory ==
  Fields("L2Directory") \ {"Directory_type", "read_misses", "write_misses", "conflicts"}
initialize_L2 == (Fields("L2") \ {"conflicts"}) \union {"homenode_write_accesses"}

(* Among the fields of the third level cache the gating voltage of the     *)
(* second level one is set a second time.                                  *)
initialize_L3 == (Fields("L3") \ {"conflicts", "power_gating_vcc"})
                 \union {"homenode_write_accesses"}
initialize_NoC == (Fields("NoC") \
  {"link_throughput", "link_latency", "dual_pump", "arbiter_type",
   "core[i].predictor.predictor_accesses"}) \union {"xbar0.crossbar_accesses"}
initialize_mc == Fields("mc") \ {"llc_line_length", "withPHY"}
initialize_niu == Fields("niu")
initialize_pcie == Fields("pcie")
initialize_flashc == Fields("flashc") \union
  {"mc_clock", "memory_channels_per_mc", "number_ranks", "req_window_size_per_channel",
   "IO_buffer_size_per_channel", "databus_width", "addressbus_width",
   "memory_accesses", "memory_reads", "memory_writes", "LVDS"}

Initialised(g) ==
  CASE g = "system" -> initialize_system
    [] g = "core" -> initialize_core \union initialize_core_stats
    [] g = "L1Directory" -> initialize_L1directory
    [] g = "L2Directory" -> initialize_L2directory
    [] g = "L2" -> initialize_L2
    [] g = "L3" -> initialize_L3
    [] g = "NoC" -> initialize_NoC
    [] g = "mc" -> initialize_mc
    [] g = "niu" -> initialize_niu
    [] g = "pcie" -> initialize_pcie
    [] g = "flashc" -> initialize_flashc

(* No supply voltage and no gating voltage are zero and -1, a count is one *)
(* as are the shares of time and of load.                                  *)
InitialValue(g, f) ==
  IF f \notin Initialised(g) \/ f = "vdd" THEN 0
  ELSE IF f = "power_gating_vcc" THEN -1 ELSE 1
=============================================================================
