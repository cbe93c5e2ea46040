--------------------------- MODULE CactiInterface ---------------------------
(***************************************************************************)
(* cacti_interface() of cacti/io.cc: one request to CACTI, from the check  *)
(* of its parameters to the report.  Every evaluation of an array reads    *)
(* three globals: g_ip (the parameters), g_tp (the technology, installed   *)
(* by init_tech_params()) and the static members of Wire (sized by the     *)
(* constructor Wire winit, re-evaluated by wire_dvs_update()).  The module *)
(* says under which of their values each result was computed: the main     *)
(* result, one result for each DVS level and the reference without power   *)
(* gating.  The search inside solve() is in Ucache and SolutionSelect;     *)
(* what the technology holds, and when it refuses, is in TechParams.       *)
(***************************************************************************)
EXTENDS TechParams, RepeatedWires, Nuca

CONSTANTS
  Voltages,    \* supply voltages in mV a user or a DVS level sets
  Configs,     \* the configurations asked for
  NucaBanks,   \* bank sizes sim_nuca() looks at
  Null

Arrays == {"tag", "data"}
Volts  == [itrs_hp .. itrs_lop -> Voltages \cup {Default}]

(* entry: the configuration file or an InputParameter of McPAT; kind: what *)
(* is modelled; nm: the feature size; proj: the interconnect projection;   *)
(* types: cell and peripheral devices; volts: the voltages specified;      *)
(* vccmin: the voltage when power-gated, if specified; dvs: dvs_voltage;   *)
(* gating: power_gating; nuca: nuca == 1.  Only parse_cfg() pushes a DVS   *)
(* level: an InputParameter of McPAT has none.                             *)
Config ==
  [entry : {"file", "ip"}, kind : {"cache", "ram", "cam", "main"}, nm : Nat, proj : {0, 1},
   types : [Arrays -> [cell : DeviceTypes, peri : DeviceTypes]],
   volts : Volts, vccmin : Voltages \cup {Default}, dvs : Seq(Voltages),
   gating : BOOLEAN, nuca : BOOLEAN]

ASSUME InterfaceAssumption ==
  /\ Voltages \subseteq Nat \ {Default}
  /\ \A c \in Configs : c \in Config /\ (c.entry = "ip" => c.dvs = <<>>)
  /\ NucaBanks \in Nat

VARIABLES
  pc,      \* where cacti_interface() is
  cfg,     \* the configuration asked for
  ip,      \* *g_ip: its volts, power_gating and the five gating flags
  g_tp,    \* what init_tech_params() installed, see TechParams
  wires,   \* Wire's statics: sized for, evaluated at, scale
  k,       \* loop index of update_dvs() and sim_nuca()
  main,    \* the arrays of fin_res
  levels,  \* fin_res.uca_q
  ref      \* fin_res.uca_pg_reference

vars == <<pc, cfg, ip, g_tp, wires, k, main, levels, ref>>

-----------------------------------------------------------------------------
NoArrays == [a \in Arrays |-> Null]

(* init_tech_params(F_sz_um, a = "tag") under the parameters p.            *)
Tech(a, p) ==
  [nm |-> cfg.nm, proj |-> cfg.proj, main |-> cfg.kind = "main", vccmin |-> cfg.vccmin,
   ram |-> cfg.types[a].cell, peri |-> cfg.types[a].peri, volts |-> p.volts]

(* Wire winit under technology t; wire_dvs_update() keeps the repeaters.   *)
Sized(t)      == [sized |-> t, at |-> t, scale |-> 1]
DvsUpdate(t)  == [wires EXCEPT !.at = t]

(* What UCA and collect_uca_results() compute an array from.               *)
Evaluated(t, w, p) ==
  [tech |-> t, wires |-> w, gated |-> p.power_gating /\ p.flags]

HasTag == cfg.kind = "cache"

(* error_checking() of the parameters modelled here.                       *)
UsesDram(c) ==
  c.kind = "main" \/ \E a \in Arrays : {c.types[a].cell, c.types[a].peri} \cap Dram # {}

SameArrays(c) == c.types["tag"] = c.types["data"]

SameDevices_Open(c) == TRUE
SameDevices(c) ==
  \A a \in Arrays : c.types[a].cell = c.types[a].peri
                    /\ c.types[a].cell = c.types["data"].cell

Accepted(c) ==
  /\ c.kind = "main" => c.proj = 1
  /\ c.nm \in 1 .. 180
  /\ c.nm > 91 => \A a \in Arrays : {c.types[a].cell, c.types[a].peri} = {itrs_hp}
  /\ c.kind = "cam" => /\ SameArrays(c)
                       /\ c.types["data"].cell \notin Dram
                       /\ ~ c.gating
  /\ c.gating \/ c.dvs # <<>> => ~ UsesDram(c)
  /\ c.dvs # <<>> => SameDevices(c)

-----------------------------------------------------------------------------
Init ==
  /\ pc = "check"
  /\ cfg \in Configs
  /\ ip = [volts |-> cfg.volts, power_gating |-> cfg.gating, flags |-> FALSE]
  /\ g_tp = Null /\ wires = Null
  /\ k = 0
  /\ main = NoArrays /\ levels = <<>> /\ ref = Null

(* error_checking() sets the five flags of power gating together.          *)
ErrorChecking ==
  /\ pc = "check"
  /\ ip' = [ip EXCEPT !.flags = ip.power_gating]
  /\ pc' = IF Accepted(cfg) THEN "init" ELSE "exit"
  /\ UNCHANGED <<cfg, g_tp, wires, k, main, levels, ref>>

(* The technology the next init_tech_params() is called for; it ends the   *)
(* program if a voltage is too low.                                        *)
AtLevel(p) ==
  [p EXCEPT !.volts = [d \in DOMAIN p.volts |-> IF k <= Len(cfg.dvs) THEN cfg.dvs[k] ELSE Default]]

TechAsked ==
  CASE pc = "level"           -> Tech("tag", AtLevel(ip))
    [] pc = "solve" /\ HasTag -> Tech("tag", ip)
    [] OTHER                  -> Tech("data", ip)

Installing == {"init", "banks", "solve", "solve_data", "level"}

TechRefused ==
  /\ pc \in Installing
  /\ MayRefuse(TechAsked)
  /\ pc' = "exit"
  /\ UNCHANGED <<cfg, ip, g_tp, wires, k, main, levels, ref>>

Install == MayInstall(TechAsked) /\ g_tp' = TechAsked

InitWires ==
  /\ pc = "init"
  /\ Install
  /\ wires' = Sized(g_tp')
  /\ pc' = IF cfg.entry = "file" /\ cfg.nuca THEN "routers" ELSE "solve"
  /\ UNCHANGED <<cfg, ip, k, main, levels, ref>>

(* sim_nuca(): each Router's crossbar leaves the wires sized for a width   *)
(* and spacing of four; then solve() is called for every bank size.        *)
NucaRouters ==
  /\ pc = "routers"
  /\ wires' = [Sized(g_tp) EXCEPT !.scale = 4]
  /\ k' = 0
  /\ pc' = "banks"
  /\ UNCHANGED <<cfg, ip, g_tp, main, levels, ref>>

NucaBank ==
  /\ pc = "banks"
  /\ Install
  /\ k' = k + 1
  /\ pc' = IF k + 1 < NucaBanks THEN "banks" ELSE "solve"
  /\ UNCHANGED <<cfg, ip, wires, main, levels, ref>>

(* solve(): the tag array of a cache, then the data array, each under its  *)
(* own technology.                                                         *)
SolveTag_NoInit ==
  /\ pc = "solve"
  /\ IF HasTag
     THEN main' = [main EXCEPT !["tag"] = Evaluated(g_tp, wires, ip)]
     ELSE UNCHANGED main
  /\ g_tp' = g_tp
  /\ pc' = "solve_data"
  /\ UNCHANGED <<cfg, ip, wires, k, levels, ref>>

SolveTag ==
  /\ pc = "solve"
  /\ Install
  /\ IF HasTag
     THEN main' = [main EXCEPT !["tag"] = Evaluated(g_tp', wires, ip)]
     ELSE UNCHANGED main
  /\ pc' = "solve_data"
  /\ UNCHANGED <<cfg, ip, wires, k, levels, ref>>

SolveData ==
  /\ pc = "solve_data"
  /\ Install
  /\ main' = [main EXCEPT !["data"] = Evaluated(g_tp', wires, ip)]
  /\ pc' = IF cfg.dvs # <<>> THEN "dvs" ELSE IF ip.power_gating THEN "pg" ELSE "report"
  /\ UNCHANGED <<cfg, ip, wires, k, levels, ref>>

-----------------------------------------------------------------------------
(* update_dvs(): the wires are sized once, and for every level the voltage *)
(* of every device type is set and both arrays are evaluated under the tag *)
(* array's technology.                                                     *)
DvsBegin ==
  /\ pc = "dvs"
  /\ wires' = Sized(g_tp)
  /\ k' = 1
  /\ pc' = "level"
  /\ UNCHANGED <<cfg, ip, g_tp, main, levels, ref>>

DvsLevel ==
  /\ pc = "level" /\ k <= Len(cfg.dvs)
  /\ ip' = AtLevel(ip)
  /\ Install
  /\ wires' = DvsUpdate(g_tp')
  /\ levels' = Append(levels,
       [a \in Arrays |-> IF main[a] = Null THEN Null
                         ELSE Evaluated(g_tp', wires', ip')])
  /\ k' = k + 1
  /\ UNCHANGED <<pc, cfg, main, ref>>

(* The end of update_dvs(): no voltage is specified any more.              *)
DvsReset ==
  /\ pc = "level" /\ k > Len(cfg.dvs)
  /\ ip' = AtLevel(ip)
  /\ Install
  /\ pc' = IF ip.power_gating THEN "pg" ELSE "report"
  /\ UNCHANGED <<cfg, wires, k, main, levels, ref>>

(* update_pg(): the wires are sized while gating is still on, the flags    *)
(* are cleared, both arrays are evaluated under the technology in place.   *)
Pg ==
  /\ pc = "pg"
  /\ wires' = Sized(g_tp)
  /\ ip' = [ip EXCEPT !.power_gating = FALSE, !.flags = FALSE]
  /\ ref' = [a \in Arrays |-> IF main[a] = Null THEN Null
                              ELSE Evaluated(g_tp, wires', ip')]
  /\ pc' = "pg_reset"
  /\ UNCHANGED <<cfg, g_tp, k, main, levels>>

PgReset_Off ==
  /\ pc = "pg_reset"
  /\ pc' = "report"
  /\ UNCHANGED <<cfg, ip, g_tp, wires, k, main, levels, ref>>

PgReset ==
  /\ pc = "pg_reset"
  /\ ip' = [ip EXCEPT !.power_gating = TRUE, !.flags = TRUE]
  /\ pc' = "report"
  /\ UNCHANGED <<cfg, g_tp, wires, k, main, levels, ref>>

(* From a file the result is printed and the wires are sized again.  From  *)
(* an InputParameter the caller may ask again with the same one.           *)
Report ==
  /\ pc = "report"
  /\ wires' = IF cfg.entry = "file" THEN Sized(g_tp) ELSE wires
  /\ pc' = "done"
  /\ UNCHANGED <<cfg, ip, g_tp, k, main, levels, ref>>

AskAgain ==
  /\ pc = "done" /\ cfg.entry = "ip"
  /\ pc' = "check"
  /\ main' = NoArrays /\ levels' = <<>> /\ ref' = Null
  /\ UNCHANGED <<cfg, ip, g_tp, wires, k>>

Stopped == pc = "exit" \/ (pc = "done" /\ cfg.entry = "file")
Halt == Stopped /\ UNCHANGED vars

Next ==
  \/ ErrorChecking \/ TechRefused \/ InitWires \/ NucaRouters \/ NucaBank
  \/ SolveTag \/ SolveData
  \/ DvsBegin \/ DvsLevel \/ DvsReset
  \/ Pg \/ PgReset
  \/ Report \/ AskAgain \/ Halt

Spec == Init /\ [][Next]_vars

-----------------------------------------------------------------------------
TechType ==
  [nm : Nat, proj : {0, 1}, main : BOOLEAN, vccmin : Voltages \cup {Default},
   ram : DeviceTypes, peri : DeviceTypes, volts : Volts]
WireType == [sized : TechType, at : TechType, scale : {1, 4}]
Result   == [tech : TechType, wires : WireType, gated : BOOLEAN]
ResultPair == [Arrays -> Result \cup {Null}]

ASSUME NullAssumption == Null \notin Result /\ Null \notin ResultPair

TypeOK ==
  /\ pc \in {"check", "init", "routers", "banks", "solve", "solve_data", "dvs",
             "level", "pg", "pg_reset", "report", "done", "exit"}
  /\ cfg \in Configs
  /\ ip \in [volts : Volts, power_gating : BOOLEAN, flags : BOOLEAN]
  /\ g_tp = Null \/ g_tp \in TechType
  /\ wires = Null \/ wires \in WireType
  /\ k \in Nat
  /\ main \in ResultPair /\ levels \in Seq(ResultPair)
  /\ ref = Null \/ ref \in ResultPair

Asked == [volts |-> cfg.volts, power_gating |-> cfg.gating]

OwnWires == Sized(Tech("data", Asked))

(* The main result is that of the configuration asked for: each array      *)
(* under its own devices at the voltages specified, gated as asked, its    *)
(* wires sized for the data array's technology - also when McPAT asks      *)
(* again with parameters an earlier update_pg() has changed and changed    *)
(* back.                                                                   *)
MainAsAsked ==
  ~ cfg.nuca => \A a \in Arrays : main[a] # Null =>
    main[a] = [tech |-> Tech(a, Asked), wires |-> OwnWires, gated |-> cfg.gating]

(* The result of a DVS level is that of its own voltage: both arrays are   *)
(* evaluated under one technology, which is right for both because         *)
(* error_checking() lets DVS pass for equal devices only, and with the     *)
(* repeaters of the original wires at the level's voltage.                 *)
LevelsAsAsked ==
  \A i \in DOMAIN levels : \A a \in Arrays :
    LET r == levels[i][a] IN
    /\ (r = Null) <=> (main[a] = Null)
    /\ r # Null =>
         /\ r.tech = [Tech(a, Asked) EXCEPT !.volts = [d \in DOMAIN cfg.volts |-> cfg.dvs[i]]]
         /\ r.wires.sized = Tech("data", Asked)
         /\ r.wires.at = r.tech

(* ResultsAsAsked: no result is computed under another one's technology,   *)
(* voltages, gating or wires.                                              *)
ResultsAsAsked == MainAsAsked /\ LevelsAsAsked

SameButGating(a) == ref[a] = [main[a] EXCEPT !.gated = FALSE]

VoltsKept == cfg.dvs = <<>> \/ \A d \in DOMAIN cfg.volts : cfg.volts[d] = Default

Complete ==
  pc \in {"report", "done"} =>
    /\ Len(levels) = Len(cfg.dvs)
    /\ (ref # Null) <=> cfg.gating
    /\ ip.power_gating = cfg.gating /\ ip.flags = cfg.gating

ReferenceUngated ==
  ref # Null /\ ~ cfg.nuca /\ VoltsKept =>
    \A a \in Arrays : main[a] # Null /\ (a = "data" \/ SameArrays(cfg))
                        => SameButGating(a)

(* When the request is answered there is one result for each DVS level, a  *)
(* reference exactly if power gating was asked for, and the parameters say *)
(* again what was asked about gating.  The reference is the main result    *)
(* without gating, so that the ratio of the two areas output_UCA() prints  *)
(* is the overhead of the gating alone: without NUCA, without DVS after    *)
(* voltages were specified, and for a tag array only if its devices are    *)
(* the data array's.                                                       *)
Answered == TypeOK /\ Complete /\ ReferenceUngated

Evaluations ==
  (UNION {{pair[a] : a \in Arrays} : pair \in {main} \cup Range(levels)
                                         \cup (IF ref = Null THEN {} ELSE {ref})}) \ {Null}

(* init_tech_params() reads its tables into uninitialised local arrays and *)
(* a pass keeps what the one before left: every field the circuits of a    *)
(* result read comes from the result's own nodes and voltages, whichever   *)
(* device types and DVS levels were installed before it.                   *)
OwnParameters == \A r \in Evaluations : FieldsOwn(r.tech, r.gated)

(* The numbers a result rests on fit one another: its supplies exceed the  *)
(* thresholds of its transistors, whatever voltages the user or a DVS      *)
(* level specified; its leakage grows with the temperature; its wider      *)
(* wires have less resistance.  A request at default voltages is refused   *)
(* only where Vcc_min_default, which counts the larger node twice, comes   *)
(* to exceed the supply.                                                   *)
ParametersFit ==
  /\ \A r \in Evaluations :
       /\ ~ r.tech.main /\ r.tech.peri \notin Dram => SuppliesDrive(r.tech, r.gated)
       /\ HotterLeaksMore(r.tech) /\ WiresOrdered(r.tech)
  /\ pc \in Installing => RefusalExplained(TechAsked)

(* A wire is the one its kind and width call for: the repeater chosen for  *)
(* a penalty is the best one allowed, whatever was chosen before           *)
(* (PenaltyKept); and the units built after the request have wires of      *)
(* their own width, whatever width it has left in the statics of Wire.     *)
WiresRight ==
  /\ PenaltyKept
  /\ OwnWidth[IF wires = Null THEN 0 ELSE wires.scale]

(* What a request that comes to sim_nuca() gets: its cache is divided into *)
(* all its banks, each number of banks has its best grid, and the          *)
(* organisation handed on is the best of those examined.                   *)
NucaRight == pc = "routers" => BanksRight /\ GridsRight /\ PickRight

=============================================================================
