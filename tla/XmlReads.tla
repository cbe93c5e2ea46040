------------------------------- MODULE XmlReads -------------------------------
(***************************************************************************)
(* Which fields of *XML the units take their parameters from: the          *)
(* set_*_param() functions, which the constructors call first.             *)
(***************************************************************************)
EXTENDS XmlFields

set_core_param ==
  {"opt_local", "x86", "machine_type", "rename_scheme", "fetch_width", "decode_width",
   "issue_width", "peak_issue_width", "commit_width", "prediction_width",
   "fp_issue_width", "ALU_per_core", "FPU_per_core", "MUL_per_core", "vdd",
   "power_gating_vcc", "number_hardware_threads", "instruction_length",
   "opcode_width", "micro_opcode_width", "pipelines_per_core", "pipeline_depth",
   "instruction_window_scheme", "archi_Regs_IRF_size", "archi_Regs_FRF_size",
   "phy_Regs_IRF_size", "phy_Regs_FRF_size", "ROB_size", "pipeline_duty_cycle",
   "total_cycles", "busy_cycles", "idle_cycles", "IFU_duty_cycle", "BR_duty_cycle",
   "LSU_duty_cycle", "MemManU_I_duty_cycle", "MemManU_D_duty_cycle",
   "ALU_duty_cycle", "MUL_duty_cycle", "FPU_duty_cycle", "ALU_cdb_duty_cycle",
   "MUL_cdb_duty_cycle", "FPU_cdb_duty_cycle", "checkpoint_depth", "clock_rate",
   "register_windows_size"}

(* set_cache_param(), one part per level.                                  *)
set_cache_param_L2 ==
  {"clockrate", "device_type", "L2_config", "buffer_sizes", "duty_cycle",
   "merged_dir", "dir_duty_cycle", "vdd", "power_gating_vcc"}
set_cache_param_L3 ==
  {"clockrate", "device_type", "L3_config", "buffer_sizes", "duty_cycle", "vdd",
   "power_gating_vcc"}
set_cache_param_L1Directory ==
  {"Directory_type", "clockrate", "device_type", "Dir_config", "buffer_sizes",
   "duty_cycle", "vdd", "power_gating_vcc"}
set_cache_param_L2Directory ==
  {"Directory_type", "clockrate", "device_type", "Dir_config", "buffer_sizes",
   "duty_cycle", "vdd", "power_gating_vcc"}

set_mc_param ==
  {"mc_clock", "llc_line_length", "databus_width", "addressbus_width", "number_mcs",
   "memory_channels_per_mc", "memory_reads", "memory_writes", "peak_transfer_rate",
   "number_ranks", "LVDS", "type", "withPHY", "vdd", "power_gating_vcc"}
set_noc_param ==
  {"type", "clockrate", "flit_bits", "input_ports", "output_ports",
   "virtual_channel_per_port", "input_buffer_entries_per_vc", "horizontal_nodes",
   "vertical_nodes", "duty_cycle", "has_global_link", "link_throughput",
   "link_latency", "chip_coverage", "route_over_perc", "vdd", "power_gating_vcc"}
set_niu_param ==
  {"clockrate", "number_units", "duty_cycle", "total_load_perc", "type", "vdd",
   "power_gating_vcc"}
set_pcie_param ==
  {"clockrate", "number_units", "num_channels", "duty_cycle", "total_load_perc",
   "type", "withPHY", "vdd", "power_gating_vcc"}
set_fc_param ==
  {"peak_transfer_rate", "number_mcs", "duty_cycle", "total_load_perc", "type",
   "withPHY", "vdd", "power_gating_vcc"}

(* The parameters the unit of a component takes from it.                   *)
ParamsOf(g) ==
  CASE g = "core" -> set_core_param
    [] g = "L1Directory" -> set_cache_param_L1Directory
    [] g = "L2Directory" -> set_cache_param_L2Directory
    [] g = "L2" -> set_cache_param_L2
    [] g = "L3" -> set_cache_param_L3
    [] g = "NoC" -> set_noc_param
    [] g = "mc" -> set_mc_param
    [] g = "niu" -> set_niu_param
    [] g = "pcie" -> set_pcie_param
    [] g = "flashc" -> set_fc_param

(* The clock a unit divides by, for which a file need not give a value.    *)
Divisors(g) == ParamsOf(g) \intersect {"clock_rate", "clockrate", "mc_clock"}
=============================================================================
