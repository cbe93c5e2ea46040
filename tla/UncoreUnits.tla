----------------------------- MODULE UncoreUnits -----------------------------
(***************************************************************************)
(* The units outside the cores: SharedCache (second and third level caches *)
(* and directories), the memory controller with its three parts, NoC and   *)
(* the controllers of iocontrollers.cc.                                    *)
(***************************************************************************)
EXTENDS BackUnits

(* SharedCache.  Directories of shadowed tags ("ST") are one associative   *)
(* array; a directory merged into the banks of a cache ("SBT") charges the *)
(* home node's traffic, counted in homenode_stats_t, to the cache.         *)
CacheLevels == {"L2", "L3", "L1Directory", "L2Directory"}
SharedBuffers == {"missb", "ifb", "prefetchb", "wbb"}

(* set_cache_param(): dir_ty                                               *)
DirType(level, raw) ==
  IF level \in {"L2", "L3"} THEN (IF "merged_dir" \in raw THEN "SBT" ELSE "NonDir")
  ELSE CHOOSE d \in {"ST", "DC", "SBT", "NonDir"} : d \in raw

Shadowed(c) == "ST" \in c /\ c \intersect {"L1Directory", "L2Directory"} # {}

SharedCache_made(c) ==
  {"caches"} \union When(~("ST" \in c /\ c \intersect {"L1Directory", "L2Directory"} # {}),
                         SharedBuffers)

SharedCache_peak(c) ==
  {"caches"} \union When(~Shadowed(c), SharedBuffers)
  \union When("SBT" \in c /\ ~Shadowed(c), {"homenode"})

(* The runtime counters of the home node go into homenode_rtp_stats, which *)
(* only the buffers read.                                                  *)
HomeNode(c) == "SBT" \in c /\ c \intersect {"L2", "L3"} # {}
SharedCache_run(c) ==
  LET misses == {"write_misses"} \union When(HomeNode(c), {"homenode_write_misses"})
  IN [caches |-> {"read_accesses", "read_misses", "write_accesses", "write_misses"}]
     @@ Each(When(~Shadowed(c), SharedBuffers), misses)
     @@ Rows(HomeNode(c),
             [homenode_rtp |-> {"homenode_read_accesses", "homenode_read_misses",
                                "homenode_write_accesses", "homenode_write_misses"}])

SharedCache_charge(c) ==
  {"unicache"} \X ({"caches"} \union When(~Shadowed(c), SharedBuffers)
                   \union When("SBT" \in c /\ ~Shadowed(c), {"homenode"}))
SharedCache_sum(c, is_tdp) ==
  {"unicache"} \X ({"caches"} \union When(~Shadowed(c), SharedBuffers))
SharedCache_shown(c, is_tdp) == When(is_tdp, {"unicache"})
SharedCache_gone(c) == {"caches"} \union SharedBuffers

-----------------------------------------------------------------------------
(* MCFrontEnd: request buffer, arbitration, read and write buffers.  The   *)
(* figures of the buffers enter the front end's own; theirs stay unset,    *)
(* and the arbitration logic is never added.                               *)
McBuffers == {"frontendBuffer", "readBuffer", "writeBuffer"}

MCFrontEnd_made(c) == McBuffers \union {"MC_arb"}
MCFrontEnd_peak(c) == McBuffers
MCFrontEnd_run(c) == [frontendBuffer |-> {"memory_reads", "memory_writes"},
                      readBuffer |-> {"memory_reads"},
                      writeBuffer |-> {"memory_writes"}]
MCFrontEnd_charge(c) == {"frontend"} \X McBuffers
MCFrontEnd_sum(c, is_tdp) == {"frontend"} \X McBuffers
MCFrontEnd_shown(c, is_tdp) == McBuffers
MCFrontEnd_gone(c) == McBuffers \union {"MC_arb"}

(* A tenth of the peak power is charged for the whole run.                 *)
MCFrontEnd_saved(c) == {"frontend"}

(* MCBackend and MCPHY: one part each, with energy per access.             *)
MCBackend_made(c) == {"backend"}
MCBackend_peak(c) == {"backend"}
MCBackend_run(c) == [backend |-> {"memory_reads", "memory_writes"}]
MCBackend_charge(c) == Own({"backend"})
MCBackend_sum(c, is_tdp) == Own({"backend"})
MCBackend_saved(c) == {"backend"}

MCPHY_made(c) == {"phy"}
MCPHY_peak(c) == {"phy"}
MCPHY_run(c) == [phy |-> {"memory_reads", "memory_writes"}]
MCPHY_charge(c) == Own({"phy"})
MCPHY_sum(c, is_tdp) == Own({"phy"})
MCPHY_saved(c) == {"phy"}

(* MemoryController: the PHY is built for the high performance type and on *)
(* request for the low power type.                                         *)
HasPHY(c) == "type0" \in c \/ "withPHY" \in c
McParts == {"frontend", "transecEngine"}

MemoryController_made(c) ==
  McParts \union When("type0" \in c \/ ("type0" \notin c /\ "withPHY" \in c), {"PHY"})
MemoryController_peak(c) == McParts \union When(HasPHY(c), {"PHY"})
MemoryController_run(c) == Each(McParts \union When(HasPHY(c), {"PHY"}), {})
MemoryController_charge(c) == Own(McParts \union When(HasPHY(c), {"PHY"}))
MemoryController_sum(c, is_tdp) == Own(McParts \union When(HasPHY(c), {"PHY"}))
MemoryController_shown(c, is_tdp) ==
  When(is_tdp, McParts \union When(HasPHY(c), {"PHY"}))
MemoryController_gone(c) == McParts \union {"PHY", "pipeLogic"}

-----------------------------------------------------------------------------
(* NoC: a router, which gets its links once the chip's area is known, or a *)
(* bus.  The peak call scales the router's own power by the duty cycle,    *)
(* and the runtime call takes the leakage from there.                      *)
NoC_router(c) == {"router"}
NoC_link_bus(c) == {"link_bus"}
NoC_made(c) ==
  IF "type" \in c THEN NoC_router(c) \union When("links" \in c, NoC_link_bus(c))
  ELSE NoC_link_bus(c)
NocParts(c) == When("type" \in c, {"router"})
               \union When("type" \in c => "links" \in c, {"link_bus"})

NoC_peak(c) == NocParts(c)
NoC_run(c) == Each(NocParts(c), {"total_accesses"})
NoC_charge(c) == Own(NocParts(c))
NoC_sum(c, is_tdp) == Own(NocParts(c))
NoC_saved(c) == When("type" \in c, {"router"})
NoC_shown(c, is_tdp) == When(is_tdp, NocParts(c))
NoC_gone(c) == {"router", "link_bus"}

-----------------------------------------------------------------------------
(* NIUController, PCIeController, FlashController: gates whose energy for  *)
(* a cycle is known from construction, scaled by the duty cycle or by the  *)
(* load.  Where the leakage of the network interface means the gates of    *)
(* its SerDes it counts those of its front end again.                      *)
NIUController_made(c) == {"mac", "frontend", "SerDer"}
NIUController_charge(c) == {"niu"} \X {"mac", "frontend", "SerDer"}
NIUController_sum(c, is_tdp) ==
  {<<"mac", "mac">>, <<"frontend", "frontend">>, <<"SerDer", "frontend">>}
NIUController_run(c) == Each({"mac", "frontend", "SerDer"}, {"total_load_perc"})
NIUController_shown(c, is_tdp) == When(is_tdp, {"niu"})

PCIeController_made(c) == {"ctrl"} \union When("withPHY" \in c, {"SerDer"})
PCIeController_charge(c) == {"pcie"} \X ({"ctrl"} \union When("withPHY" \in c, {"SerDer"}))
PCIeController_sum(c, is_tdp) ==
  {"pcie"} \X ({"ctrl"} \union When("withPHY" \in c, {"SerDer"}))
PCIeController_run(c) == Each(PCIeController_made(c), {"total_load_perc"})
PCIeController_shown(c, is_tdp) == When(is_tdp, {"pcie"})

(* A high performance flash controller ends the program instead.           *)
FlashController_supported(c) == "type0" \notin c
FlashController_made(c) == {"ctrl"} \union When("withPHY" \in c, {"SerDer"})
FlashController_charge(c) == {"fc"} \X ({"ctrl"} \union When("withPHY" \in c, {"SerDer"}))
FlashController_sum(c, is_tdp) ==
  {"fc"} \X ({"ctrl"} \union When("withPHY" \in c, {"SerDer"}))
FlashController_run(c) == Each(FlashController_made(c), {"total_load_perc"})
FlashController_shown(c, is_tdp) == When(is_tdp, {"fc"})

-----------------------------------------------------------------------------
(* An inst_decoder owns a decoder and, through its predecoder, two blocks  *)
(* with a driver each.                                                     *)
inst_decoder_made(c) == {"final_dec", "pre_dec", "blk1", "blk2", "drv1", "drv2"}
inst_decoder_gone(c) == {"final_dec", "pre_dec", "blk1", "blk2", "drv1", "drv2"}
=============================================================================
