----------------------- MODULE CactiInterface_proofs -----------------------
(***************************************************************************)
(* cacti_interface() proved for every set of configurations, any number of *)
(* DVS levels and any number of requests with the same parameters: whose   *)
(* technology, voltages and wires each result was computed under, and that *)
(* init_tech_params() fills this technology from its own nodes with        *)
(* numbers that fit one another, for every size, device type and voltage.  *)
(***************************************************************************)
EXTENDS CactiInterface, WellFoundedInduction, TLAPS

Unspecified == [d \in itrs_hp .. itrs_lop |-> Default]

(* The states before the first change of the voltages, and after the last. *)
Solving  == {"check", "init", "routers", "banks", "solve", "solve_data", "dvs"}
Finished == {"pg", "pg_reset", "report", "done"}

(* What error_checking() let pass is known until the next request.         *)
Checked == pc \notin {"check", "exit"} => Accepted(cfg)

(* update_dvs() leaves no voltage specified; update_pg() puts its flags    *)
(* back, so that a caller may ask again with the same parameters.          *)
ParametersKept ==
  /\ pc \in Solving \/ (pc \in Finished /\ cfg.dvs = <<>>) => ip.volts = cfg.volts
  /\ pc \in Finished /\ cfg.dvs # <<>> => ip.volts = Unspecified
  /\ pc \notin {"pg_reset", "exit"} => ip.power_gating = cfg.gating
  /\ pc \notin {"check", "pg_reset", "exit"} => ip.flags = cfg.gating
  /\ pc \in {"pg", "pg_reset"} => cfg.gating

(* The technology and the wires the next evaluation reads.                 *)
GlobalsRight ==
  /\ pc \notin {"check", "init", "exit"} => g_tp \in TechType /\ wires \in WireType
  /\ pc = "dvs" => g_tp = Tech("data", Asked)
  /\ pc = "pg" /\ VoltsKept => g_tp = Tech("data", Asked)
  /\ pc \in {"routers", "banks"} => cfg.nuca
  /\ pc \in {"solve", "solve_data"} /\ ~ cfg.nuca => wires = OwnWires
  /\ pc = "level" => wires.sized = Tech("data", Asked)

(* How many of the results there are.                                      *)
ResultsSoFar ==
  /\ pc \in Solving => levels = <<>>
  /\ pc \notin {"pg_reset", "report", "done", "exit"} => ref = Null
  /\ pc = "level" => k = Len(levels) + 1 /\ cfg.dvs # <<>>
  /\ Len(levels) <= Len(cfg.dvs)
  /\ pc = "dvs" => cfg.dvs # <<>>
  /\ pc \in Finished => Len(levels) = Len(cfg.dvs)
  /\ pc = "pg_reset" => ref # Null
  /\ pc \in {"report", "done"} => (ref # Null <=> cfg.gating)

IInv == /\ TypeOK /\ Checked /\ ParametersKept /\ GlobalsRight /\ ResultsSoFar
        /\ MainAsAsked /\ LevelsAsAsked /\ ReferenceUngated

-----------------------------------------------------------------------------
Parameters == [volts : Volts, power_gating : BOOLEAN, flags : BOOLEAN]

(* What a well typed request is.                                           *)
LEMMA ConfigFacts ==
  ASSUME TypeOK
  PROVE  /\ cfg \in Config /\ (cfg.entry = "ip" => cfg.dvs = <<>>)
         /\ cfg.volts \in Volts /\ cfg.dvs \in Seq(Voltages) /\ Len(cfg.dvs) \in Nat
         /\ cfg.gating \in BOOLEAN /\ cfg.nm \in Nat /\ cfg.proj \in {0, 1}
         /\ cfg.vccmin \in Voltages \cup {Default}
         /\ \A a \in Arrays : cfg.types[a].cell \in DeviceTypes
         /\ \A a \in Arrays : cfg.types[a].peri \in DeviceTypes
         /\ ip \in Parameters
<1>1. cfg \in Config /\ (cfg.entry = "ip" => cfg.dvs = <<>>) /\ ip \in Parameters
  BY InterfaceAssumption DEF TypeOK, Parameters
<1>2. /\ cfg.volts \in Volts /\ cfg.dvs \in Seq(Voltages) /\ cfg.gating \in BOOLEAN
      /\ cfg.nm \in Nat /\ cfg.proj \in {0, 1} /\ cfg.vccmin \in Voltages \cup {Default}
      /\ cfg.types \in [Arrays -> [cell : DeviceTypes, peri : DeviceTypes]]
  BY <1>1 DEF Config
<1>3. \A a \in Arrays : cfg.types[a] \in [cell : DeviceTypes, peri : DeviceTypes]
  BY <1>2
<1>4. Len(cfg.dvs) \in Nat
  BY <1>2
<1> QED BY <1>1, <1>2, <1>3, <1>4

(* The technology of an array under some parameters is well typed.         *)
LEMMA TechTyped ==
  ASSUME TypeOK, NEW a \in Arrays, NEW p, p.volts \in Volts
  PROVE  Tech(a, p) \in TechType
<1>1. /\ cfg.nm \in Nat /\ cfg.proj \in {0, 1} /\ cfg.vccmin \in Voltages \cup {Default}
      /\ cfg.types[a].cell \in DeviceTypes /\ cfg.types[a].peri \in DeviceTypes
  BY ConfigFacts
<1>2. (cfg.kind = "main") \in BOOLEAN
  OBVIOUS
<1> QED BY <1>1, <1>2 DEF Tech, TechType

(* There are a tag array and a data array.                                 *)
LEMMA ArraysTwo == "tag" \in Arrays /\ "data" \in Arrays /\ Arrays = {"tag", "data"}
BY DEF Arrays

(* DVS is accepted for equal devices only, see error_checking().           *)
LEMMA SameTech ==
  ASSUME Accepted(cfg), cfg.dvs # <<>>, NEW a \in Arrays, NEW p
  PROVE  Tech(a, p) = Tech("data", p)
<1>1. \A b \in Arrays : cfg.types[b].cell = cfg.types[b].peri
                         /\ cfg.types[b].cell = cfg.types["data"].cell
  BY DEF Accepted, SameDevices
<1>2. /\ cfg.types[a].cell = cfg.types["data"].cell
      /\ cfg.types[a].peri = cfg.types["data"].peri
  BY <1>1, ArraysTwo
<1> QED BY <1>2 DEF Tech

(* A result records the technology and the wires it was computed under.    *)
LEMMA EvaluatedFacts ==
  ASSUME NEW t \in TechType, NEW w \in WireType, NEW p \in Parameters
  PROVE  /\ Evaluated(t, w, p) \in Result /\ Evaluated(t, w, p) # Null
         /\ Evaluated(t, w, p).tech = t /\ Evaluated(t, w, p).wires = w
<1>1. (p.power_gating /\ p.flags) \in BOOLEAN
  OBVIOUS
<1>2. Evaluated(t, w, p) \in Result
  BY <1>1 DEF Evaluated, Result
<1> QED BY <1>2, NullAssumption DEF Evaluated

(* Wires sized under a technology are well typed, at a scale too.          *)
LEMMA SizedTyped ==
  ASSUME NEW t \in TechType
  PROVE  /\ Sized(t) \in WireType /\ Sized(t).sized = t
         /\ [Sized(t) EXCEPT !.scale = 4] \in WireType
BY DEF Sized, WireType

(* What a level of update_dvs() changes of the parameters.                 *)
LevelVolts == IF k <= Len(cfg.dvs) THEN cfg.dvs[k] ELSE Default

(* A DVS level replaces the voltages and no flag of power gating.          *)
LEMMA AtLevelFacts ==
  ASSUME TypeOK, k >= 1
  PROVE  /\ AtLevel(ip) \in Parameters
         /\ AtLevel(ip).volts = [d \in itrs_hp .. itrs_lop |-> LevelVolts]
         /\ AtLevel(ip).volts \in Volts
         /\ AtLevel(ip).power_gating = ip.power_gating
         /\ AtLevel(ip).flags = ip.flags
<1>1. /\ cfg.dvs \in Seq(Voltages) /\ Len(cfg.dvs) \in Nat /\ k \in Nat
      /\ ip \in Parameters
  BY ConfigFacts DEF TypeOK
<1>2. LevelVolts \in Voltages \cup {Default}
  BY <1>1 DEF LevelVolts
<1>3. DOMAIN ip.volts = itrs_hp .. itrs_lop
  BY <1>1 DEF Parameters, Volts
<1> DEFINE v == [d \in itrs_hp .. itrs_lop |-> LevelVolts]
<1>4. v \in Volts
  BY <1>2 DEF Volts
<1>5. AtLevel(ip) = [ip EXCEPT !.volts = v]
  BY <1>3 DEF AtLevel, LevelVolts
<1> HIDE DEF v
<1>6. /\ AtLevel(ip) \in Parameters /\ AtLevel(ip).volts = v
      /\ AtLevel(ip).power_gating = ip.power_gating /\ AtLevel(ip).flags = ip.flags
  BY <1>1, <1>4, <1>5 DEF Parameters
<1> QED BY <1>4, <1>6 DEF v

(* The configuration fixes what is asked.                                  *)
LEMMA AskedKept ==
  ASSUME cfg' = cfg
  PROVE  /\ Asked' = Asked /\ OwnWires' = OwnWires /\ VoltsKept' = VoltsKept
         /\ Accepted(cfg)' = Accepted(cfg)
         /\ \A a : Tech(a, Asked)' = Tech(a, Asked)
BY DEF Asked, OwnWires, Tech, VoltsKept, Accepted, SameDevices, SameArrays, UsesDram, Sized

(* Results stay right as long as none is replaced.                         *)
LEMMA ResultsKept ==
  ASSUME IInv, UNCHANGED <<cfg, main, levels, ref>>
  PROVE  MainAsAsked' /\ LevelsAsAsked' /\ ReferenceUngated'
<1>1. /\ Asked' = Asked /\ OwnWires' = OwnWires /\ VoltsKept' = VoltsKept
      /\ \A a : Tech(a, Asked)' = Tech(a, Asked)
  BY AskedKept
<1>2. MainAsAsked'
  BY <1>1 DEF IInv, MainAsAsked
<1>3. LevelsAsAsked'
  BY <1>1 DEF IInv, LevelsAsAsked
<1>4. ReferenceUngated'
  BY <1>1 DEF IInv, ReferenceUngated, SameButGating, SameArrays
<1> QED BY <1>2, <1>3, <1>4

(* A request starts with no result.                                        *)
LEMMA InitIInv == Init => IInv
<1> SUFFICES ASSUME Init PROVE IInv
  OBVIOUS
<1>1. /\ pc = "check" /\ cfg \in Configs /\ g_tp = Null /\ wires = Null /\ k = 0
      /\ ip = [volts |-> cfg.volts, power_gating |-> cfg.gating, flags |-> FALSE]
      /\ main = NoArrays /\ levels = <<>> /\ ref = Null
  BY DEF Init
<1>2. cfg \in Config /\ cfg.volts \in Volts /\ cfg.gating \in BOOLEAN /\ cfg.dvs \in Seq(Voltages)
  BY <1>1, InterfaceAssumption DEF Config
<1>3. main \in ResultPair /\ \A a \in Arrays : main[a] = Null
  BY <1>1 DEF NoArrays, ResultPair
<1>4. TypeOK
  BY <1>1, <1>2, <1>3 DEF TypeOK
<1>5. Len(levels) = 0 /\ Len(cfg.dvs) \in Nat /\ DOMAIN levels = {}
  BY <1>1, <1>2
<1>6. Checked /\ ParametersKept /\ GlobalsRight
  BY <1>1 DEF Checked, ParametersKept, GlobalsRight, Solving, Finished
<1>7. ResultsSoFar
  BY <1>1, <1>5 DEF ResultsSoFar, Finished
<1>8. MainAsAsked /\ LevelsAsAsked /\ ReferenceUngated
  BY <1>1, <1>3, <1>5 DEF MainAsAsked, LevelsAsAsked, ReferenceUngated
<1> QED BY <1>4, <1>6, <1>7, <1>8 DEF IInv

(* The parts of the invariant, for the steps.                              *)
LEMMA Parts ==
  ASSUME IInv
  PROVE  /\ TypeOK /\ Checked /\ ParametersKept /\ GlobalsRight /\ ResultsSoFar
         /\ MainAsAsked /\ LevelsAsAsked /\ ReferenceUngated
         /\ cfg \in Configs /\ ip \in Parameters /\ k \in Nat
         /\ main \in ResultPair /\ levels \in Seq(ResultPair)
         /\ Len(levels) \in Nat /\ Len(cfg.dvs) \in Nat /\ ip.volts \in Volts
<1>1. TypeOK
  BY DEF IInv
<1>2. ip \in Parameters /\ Len(cfg.dvs) \in Nat
  BY <1>1, ConfigFacts
<1>3. levels \in Seq(ResultPair) /\ main \in ResultPair /\ k \in Nat /\ cfg \in Configs
  BY <1>1 DEF TypeOK
<1>4. Len(levels) \in Nat
  BY <1>3
<1>5. ip.volts \in Volts
  BY <1>2 DEF Parameters
<1> QED BY <1>1, <1>2, <1>3, <1>4, <1>5 DEF IInv

(* A request is refused, or its technology comes next.                     *)
LEMMA ErrorCheckingStep == IInv /\ ErrorChecking => IInv'
<1> SUFFICES ASSUME IInv, ErrorChecking PROVE IInv'
  OBVIOUS
<1>1. /\ pc = "check" /\ ip' = [ip EXCEPT !.flags = ip.power_gating]
      /\ pc' = IF Accepted(cfg) THEN "init" ELSE "exit"
      /\ UNCHANGED <<cfg, g_tp, wires, k, main, levels, ref>>
  BY DEF ErrorChecking
<1>2. /\ TypeOK /\ ParametersKept /\ ResultsSoFar /\ ip \in Parameters
  BY Parts
<1>3. /\ ip' \in Parameters /\ ip'.volts = ip.volts
      /\ ip'.power_gating = ip.power_gating /\ ip'.flags = ip.power_gating
  BY <1>1, <1>2 DEF Parameters
<1>4. TypeOK'
  BY <1>1, <1>2, <1>3 DEF TypeOK, Parameters
<1>5. Checked'
  BY <1>1, AskedKept DEF Checked
<1>6. ParametersKept'
  BY <1>1, <1>2, <1>3 DEF ParametersKept, Solving, Finished
<1>7. GlobalsRight'
  BY <1>1 DEF GlobalsRight
<1>8. ResultsSoFar'
  BY <1>1, <1>2 DEF ResultsSoFar, Solving, Finished
<1> QED BY <1>1, <1>4, <1>5, <1>6, <1>7, <1>8, ResultsKept DEF IInv

(* The program ends, with what it has computed so far.                     *)
LEMMA TechRefusedStep == IInv /\ TechRefused => IInv'
<1> SUFFICES ASSUME IInv, TechRefused PROVE IInv'
  OBVIOUS
<1>1. pc' = "exit" /\ UNCHANGED <<cfg, ip, g_tp, wires, k, main, levels, ref>>
  BY DEF TechRefused
<1>2. /\ TypeOK /\ ResultsSoFar
  BY Parts
<1>3. TypeOK'
  BY <1>1, <1>2 DEF TypeOK
<1>4. Checked' /\ ParametersKept' /\ GlobalsRight'
  BY <1>1 DEF Checked, ParametersKept, GlobalsRight, Solving, Finished
<1>5. ResultsSoFar'
  BY <1>1, <1>2 DEF ResultsSoFar, Solving, Finished
<1> QED BY <1>1, <1>3, <1>4, <1>5, ResultsKept DEF IInv

(* The wires are sized under the technology just installed.                *)
LEMMA InitWiresStep == IInv /\ InitWires => IInv'
<1> SUFFICES ASSUME IInv, InitWires PROVE IInv'
  OBVIOUS
<1>1. /\ pc = "init" /\ g_tp' = TechAsked /\ wires' = Sized(g_tp')
      /\ pc' \in {"routers", "solve"} /\ (pc' = "routers" => cfg.nuca)
      /\ UNCHANGED <<cfg, ip, k, main, levels, ref>>
  BY DEF InitWires, Install
<1>2. /\ TypeOK /\ Checked /\ ParametersKept /\ ResultsSoFar /\ ip.volts \in Volts
  BY Parts
<1>3. g_tp' = Tech("data", ip) /\ ip.volts = cfg.volts
  BY <1>1, <1>2 DEF TechAsked, ParametersKept, Solving
<1>4. g_tp' = Tech("data", Asked) /\ g_tp' \in TechType
  BY <1>2, <1>3, TechTyped, ArraysTwo DEF Tech, Asked
<1>5. wires' \in WireType /\ wires' = OwnWires
  BY <1>1, <1>4, SizedTyped DEF OwnWires
<1>6. TypeOK'
  BY <1>1, <1>2, <1>4, <1>5 DEF TypeOK
<1>7. Checked'
  BY <1>1, <1>2, AskedKept DEF Checked
<1>8. ParametersKept'
  BY <1>1, <1>2 DEF ParametersKept, Solving, Finished
<1>9. GlobalsRight'
  BY <1>1, <1>4, <1>5, AskedKept DEF GlobalsRight
<1>10. ResultsSoFar'
  BY <1>1, <1>2 DEF ResultsSoFar, Solving, Finished
<1> QED BY <1>1, <1>6, <1>7, <1>8, <1>9, <1>10, ResultsKept DEF IInv

(* The routers of a NUCA cache leave their own wires.                      *)
LEMMA NucaRoutersStep == IInv /\ NucaRouters => IInv'
<1> SUFFICES ASSUME IInv, NucaRouters PROVE IInv'
  OBVIOUS
<1>1. /\ pc = "routers" /\ wires' = [Sized(g_tp) EXCEPT !.scale = 4]
      /\ k' = 0 /\ pc' = "banks"
      /\ UNCHANGED <<cfg, ip, g_tp, main, levels, ref>>
  BY DEF NucaRouters
<1>2. /\ TypeOK /\ Checked /\ ParametersKept /\ ResultsSoFar /\ GlobalsRight
  BY Parts
<1>3. g_tp \in TechType /\ wires' \in WireType
  BY <1>1, <1>2, SizedTyped DEF GlobalsRight
<1>4. TypeOK'
  BY <1>1, <1>2, <1>3 DEF TypeOK
<1>5. Checked'
  BY <1>1, <1>2, AskedKept DEF Checked
<1>6. ParametersKept'
  BY <1>1, <1>2 DEF ParametersKept, Solving, Finished
<1>7. GlobalsRight'
  BY <1>1, <1>2, <1>3 DEF GlobalsRight
<1>8. ResultsSoFar'
  BY <1>1, <1>2 DEF ResultsSoFar, Solving, Finished
<1> QED BY <1>1, <1>4, <1>5, <1>6, <1>7, <1>8, ResultsKept DEF IInv

(* Each bank size of a NUCA search installs the technology again.          *)
LEMMA NucaBankStep == IInv /\ NucaBank => IInv'
<1> SUFFICES ASSUME IInv, NucaBank PROVE IInv'
  OBVIOUS
<1>1. /\ pc = "banks" /\ g_tp' = TechAsked /\ k' = k + 1 /\ pc' \in {"banks", "solve"}
      /\ UNCHANGED <<cfg, ip, wires, main, levels, ref>>
  BY DEF NucaBank, Install
<1>2. /\ TypeOK /\ Checked /\ ParametersKept /\ ResultsSoFar /\ GlobalsRight
      /\ ip.volts \in Volts /\ k \in Nat
  BY Parts
<1>3. g_tp' \in TechType
  BY <1>1, <1>2, TechTyped, ArraysTwo DEF TechAsked
<1>4. wires \in WireType /\ cfg.nuca
  BY <1>1, <1>2 DEF GlobalsRight
<1>5. TypeOK'
  BY <1>1, <1>2, <1>3, <1>4 DEF TypeOK
<1>6. Checked'
  BY <1>1, <1>2, AskedKept DEF Checked
<1>7. ParametersKept'
  BY <1>1, <1>2 DEF ParametersKept, Solving, Finished
<1>8. GlobalsRight'
  BY <1>1, <1>3, <1>4 DEF GlobalsRight
<1>9. ResultsSoFar'
  BY <1>1, <1>2 DEF ResultsSoFar, Solving, Finished
<1> QED BY <1>1, <1>5, <1>6, <1>7, <1>8, <1>9, ResultsKept DEF IInv

(* solve() writes one array of the main result; no other result exists.    *)
LEMMA SolvedRight ==
  ASSUME IInv, pc \in {"solve", "solve_data"}, NEW a \in Arrays,
         UNCHANGED <<cfg, levels, ref>>, g_tp' = Tech(a, ip),
         main' = [main EXCEPT ![a] = Evaluated(g_tp', wires, ip)]
  PROVE  /\ g_tp' = Tech(a, Asked) /\ g_tp' \in TechType
         /\ main' \in ResultPair /\ MainAsAsked' /\ LevelsAsAsked' /\ ReferenceUngated'
<1>1. /\ TypeOK /\ ParametersKept /\ ResultsSoFar /\ GlobalsRight /\ MainAsAsked
      /\ ip.volts \in Volts /\ ip \in Parameters /\ main \in ResultPair
  BY Parts
<1>2. /\ ip.volts = cfg.volts /\ ip.power_gating = cfg.gating /\ ip.flags = cfg.gating
      /\ wires \in WireType /\ (~ cfg.nuca => wires = OwnWires)
      /\ levels = <<>> /\ ref = Null
  BY <1>1 DEF ParametersKept, ResultsSoFar, GlobalsRight, Solving
<1>3. g_tp' = Tech(a, Asked) /\ g_tp' \in TechType
  BY <1>1, <1>2, TechTyped DEF Tech, Asked
<1>4. Evaluated(g_tp', wires, ip) \in Result
  BY <1>1, <1>2, <1>3, EvaluatedFacts
<1>5. main' \in ResultPair /\ main'[a] = Evaluated(g_tp', wires, ip)
      /\ \A b \in Arrays : b # a => main'[b] = main[b]
  BY <1>1, <1>4 DEF ResultPair
<1>6. MainAsAsked'
  <2>1. ASSUME ~ cfg.nuca, NEW b \in Arrays, main'[b] # Null
        PROVE  main'[b] = [tech |-> Tech(b, Asked), wires |-> OwnWires,
                           gated |-> cfg.gating]
    <3>1. CASE b = a
      <4>1. (cfg.gating /\ cfg.gating) = cfg.gating
        BY <1>1, ConfigFacts
      <4> QED BY <1>2, <1>3, <1>5, <2>1, <3>1, <4>1 DEF Evaluated
    <3>2. CASE b # a
      BY <1>1, <1>5, <2>1, <3>2 DEF MainAsAsked
    <3> QED BY <3>1, <3>2
  <2> QED BY <2>1, AskedKept DEF MainAsAsked
<1>7. LevelsAsAsked' /\ ReferenceUngated'
  <2>1. levels' = <<>> /\ DOMAIN levels' = {} /\ ref' = Null
    BY <1>2
  <2> QED BY <2>1 DEF LevelsAsAsked, ReferenceUngated
<1> QED BY <1>3, <1>5, <1>6, <1>7

(* The tag array is searched under its own technology.                     *)
LEMMA SolveTagStep == IInv /\ SolveTag => IInv'
<1> SUFFICES ASSUME IInv, SolveTag PROVE IInv'
  OBVIOUS
<1>1. /\ pc = "solve" /\ g_tp' = TechAsked /\ pc' = "solve_data"
      /\ IF HasTag THEN main' = [main EXCEPT !["tag"] = Evaluated(g_tp', wires, ip)]
         ELSE main' = main
      /\ UNCHANGED <<cfg, ip, wires, k, levels, ref>>
  BY DEF SolveTag, Install
<1>2. /\ TypeOK /\ Checked /\ ParametersKept /\ ResultsSoFar /\ GlobalsRight
      /\ ip.volts \in Volts
  BY Parts
<1>3. /\ g_tp' \in TechType /\ main' \in ResultPair
      /\ MainAsAsked' /\ LevelsAsAsked' /\ ReferenceUngated'
  <2>1. CASE HasTag
    <3>1. g_tp' = Tech("tag", ip)
      BY <1>1, <2>1 DEF TechAsked
    <3> QED BY <1>1, <2>1, <3>1, SolvedRight, ArraysTwo
  <2>2. CASE ~ HasTag
    <3>1. g_tp' \in TechType
      BY <1>1, <1>2, <2>2, TechTyped, ArraysTwo DEF TechAsked
    <3> QED BY <1>1, <1>2, <2>2, <3>1, ResultsKept DEF TypeOK
  <2> QED BY <2>1, <2>2
<1>4. wires \in WireType
  BY <1>1, <1>2 DEF GlobalsRight
<1>5. TypeOK'
  BY <1>1, <1>2, <1>3, <1>4 DEF TypeOK
<1>6. Checked'
  BY <1>1, <1>2, AskedKept DEF Checked
<1>7. ParametersKept'
  BY <1>1, <1>2 DEF ParametersKept, Solving, Finished
<1>8. GlobalsRight'
  BY <1>1, <1>2, <1>3, <1>4, AskedKept DEF GlobalsRight
<1>9. ResultsSoFar'
  BY <1>1, <1>2 DEF ResultsSoFar, Solving, Finished
<1> QED BY <1>3, <1>5, <1>6, <1>7, <1>8, <1>9 DEF IInv

(* The data array is searched under its own technology.                    *)
LEMMA SolveDataStep == IInv /\ SolveData => IInv'
<1> SUFFICES ASSUME IInv, SolveData PROVE IInv'
  OBVIOUS
<1>1. /\ pc = "solve_data" /\ g_tp' = TechAsked
      /\ main' = [main EXCEPT !["data"] = Evaluated(g_tp', wires, ip)]
      /\ pc' = IF cfg.dvs # <<>> THEN "dvs" ELSE IF ip.power_gating THEN "pg" ELSE "report"
      /\ UNCHANGED <<cfg, ip, wires, k, levels, ref>>
  BY DEF SolveData, Install
<1>2. /\ TypeOK /\ Checked /\ ParametersKept /\ ResultsSoFar /\ GlobalsRight
      /\ ip.volts \in Volts /\ Len(cfg.dvs) \in Nat
  BY Parts
<1>3. /\ g_tp' = Tech("data", Asked) /\ g_tp' \in TechType /\ main' \in ResultPair
      /\ MainAsAsked' /\ LevelsAsAsked' /\ ReferenceUngated'
  <2>1. g_tp' = Tech("data", ip)
    BY <1>1 DEF TechAsked
  <2> QED BY <1>1, <2>1, SolvedRight, ArraysTwo
<1>4. wires \in WireType /\ ip.power_gating = cfg.gating
  BY <1>1, <1>2 DEF GlobalsRight, ParametersKept
<1>5. TypeOK'
  BY <1>1, <1>2, <1>3, <1>4 DEF TypeOK
<1>6. Checked'
  BY <1>1, <1>2, AskedKept DEF Checked
<1>7. ParametersKept'
  <2>1. CASE cfg.dvs # <<>>
    BY <1>1, <1>2, <2>1 DEF ParametersKept, Solving, Finished
  <2>2. CASE cfg.dvs = <<>>
    BY <1>1, <1>2, <2>2 DEF ParametersKept, Solving, Finished
  <2> QED BY <2>1, <2>2
<1>8. GlobalsRight'
  BY <1>1, <1>3, <1>4, AskedKept DEF GlobalsRight
<1>9. ResultsSoFar'
  <2>1. levels = <<>> /\ ref = Null
    BY <1>1, <1>2 DEF ResultsSoFar, Solving
  <2>2. cfg.dvs = <<>> => Len(cfg.dvs) = Len(levels)
    BY <2>1
  <2> QED BY <1>1, <1>2, <1>4, <2>1, <2>2 DEF ResultsSoFar, Solving, Finished
<1> QED BY <1>3, <1>5, <1>6, <1>7, <1>8, <1>9 DEF IInv

(* update_dvs() sizes the wires under the technology in place.             *)
LEMMA DvsBeginStep == IInv /\ DvsBegin => IInv'
<1> SUFFICES ASSUME IInv, DvsBegin PROVE IInv'
  OBVIOUS
<1>1. /\ pc = "dvs" /\ wires' = Sized(g_tp) /\ k' = 1 /\ pc' = "level"
      /\ UNCHANGED <<cfg, ip, g_tp, main, levels, ref>>
  BY DEF DvsBegin
<1>2. /\ TypeOK /\ Checked /\ ParametersKept /\ ResultsSoFar /\ GlobalsRight
  BY Parts
<1>3. /\ g_tp \in TechType /\ wires' \in WireType /\ wires'.sized = Tech("data", Asked)
  BY <1>1, <1>2, SizedTyped DEF GlobalsRight
<1>4. TypeOK'
  BY <1>1, <1>2, <1>3 DEF TypeOK
<1>5. Checked'
  BY <1>1, <1>2, AskedKept DEF Checked
<1>6. ParametersKept'
  BY <1>1, <1>2 DEF ParametersKept, Solving, Finished
<1>7. GlobalsRight'
  BY <1>1, <1>3, AskedKept DEF GlobalsRight
<1>8. ResultsSoFar'
  <2>1. levels = <<>> /\ Len(levels) = 0
    BY <1>1, <1>2 DEF ResultsSoFar, Solving
  <2> QED BY <1>1, <1>2, <2>1 DEF ResultsSoFar, Solving, Finished
<1> QED BY <1>1, <1>4, <1>5, <1>6, <1>7, <1>8, ResultsKept DEF IInv

(* The result of one level: both arrays under the tag array's technology,  *)
(* which is each one's own, with the repeaters sized before the loop.      *)
LEMMA LevelRight ==
  ASSUME IInv, pc = "level", k <= Len(cfg.dvs), NEW a \in Arrays,
         NEW t, t = Tech("tag", AtLevel(ip)), NEW w, w = DvsUpdate(t),
         NEW r, r = Evaluated(t, w, AtLevel(ip))
  PROVE  /\ r \in Result /\ r # Null
         /\ r.tech = [Tech(a, Asked) EXCEPT !.volts = [d \in DOMAIN cfg.volts |-> cfg.dvs[k]]]
         /\ r.wires.sized = Tech("data", Asked) /\ r.wires.at = r.tech
<1>1. /\ TypeOK /\ Checked /\ GlobalsRight /\ ResultsSoFar /\ Len(levels) \in Nat
  BY Parts
<1>2. /\ k = Len(levels) + 1 /\ cfg.dvs # <<>> /\ Accepted(cfg)
      /\ wires \in WireType /\ wires.sized = Tech("data", Asked)
  BY <1>1 DEF ResultsSoFar, Checked, GlobalsRight
<1>3. k >= 1
  BY <1>1, <1>2
<1>4. /\ AtLevel(ip) \in Parameters /\ AtLevel(ip).volts \in Volts
      /\ AtLevel(ip).volts = [d \in itrs_hp .. itrs_lop |-> LevelVolts]
  BY <1>1, <1>3, AtLevelFacts
<1>5. t \in TechType
  BY <1>1, <1>4, TechTyped, ArraysTwo
<1>6. w \in WireType /\ w.sized = Tech("data", Asked) /\ w.at = t
  BY <1>2, <1>5 DEF DvsUpdate, WireType
<1>7. r \in Result /\ r # Null /\ r.tech = t /\ r.wires = w
  BY <1>4, <1>5, <1>6, EvaluatedFacts
<1>8. t = Tech(a, AtLevel(ip))
  BY <1>2, SameTech, ArraysTwo
<1>9. AtLevel(ip).volts = [d \in DOMAIN cfg.volts |-> cfg.dvs[k]]
  <2>1. DOMAIN cfg.volts = itrs_hp .. itrs_lop
    BY <1>1, ConfigFacts DEF Volts
  <2> QED BY <1>4, <2>1 DEF LevelVolts
<1>10. t = [Tech(a, Asked) EXCEPT !.volts = [d \in DOMAIN cfg.volts |-> cfg.dvs[k]]]
  BY <1>8, <1>9 DEF Tech
<1> QED BY <1>6, <1>7, <1>10

(* A level is computed under its own voltage.                              *)
LEMMA DvsLevelStep == IInv /\ DvsLevel => IInv'
<1> SUFFICES ASSUME IInv, DvsLevel PROVE IInv'
  OBVIOUS
<1> DEFINE t == Tech("tag", AtLevel(ip))
           w == DvsUpdate(t)
           r == Evaluated(t, w, AtLevel(ip))
           pair == [a \in Arrays |-> IF main[a] = Null THEN Null ELSE r]
<1>1. /\ pc = "level" /\ k <= Len(cfg.dvs) /\ ip' = AtLevel(ip) /\ g_tp' = t
      /\ wires' = w /\ levels' = Append(levels, pair) /\ k' = k + 1
      /\ UNCHANGED <<pc, cfg, main, ref>>
  BY DEF DvsLevel, Install, TechAsked, DvsUpdate
<1>2. /\ TypeOK /\ Checked /\ ParametersKept /\ ResultsSoFar /\ GlobalsRight
      /\ LevelsAsAsked /\ MainAsAsked
      /\ levels \in Seq(ResultPair) /\ Len(levels) \in Nat /\ k \in Nat /\ Len(cfg.dvs) \in Nat
  BY Parts
<1>3. k = Len(levels) + 1 /\ k >= 1 /\ cfg.dvs # <<>> /\ ref = Null
  BY <1>1, <1>2 DEF ResultsSoFar
<1>4. /\ ip' \in Parameters /\ ip'.power_gating = ip.power_gating /\ ip'.flags = ip.flags
      /\ t \in TechType
  BY <1>1, <1>2, <1>3, AtLevelFacts, TechTyped, ArraysTwo
<1>5. w \in WireType /\ w.sized = Tech("data", Asked)
  BY <1>1, <1>2, <1>4 DEF GlobalsRight, DvsUpdate, WireType
<1>6. ASSUME NEW a \in Arrays
      PROVE  /\ r \in Result /\ r # Null
             /\ r.tech = [Tech(a, Asked) EXCEPT !.volts = [d \in DOMAIN cfg.volts |-> cfg.dvs[k]]]
             /\ r.wires.sized = Tech("data", Asked) /\ r.wires.at = r.tech
  BY <1>1, LevelRight
<1> HIDE DEF r, w, t
<1>7. pair \in ResultPair
  BY <1>6 DEF ResultPair
<1>8. \A a \in Arrays : pair[a] = IF main[a] = Null THEN Null ELSE r
  OBVIOUS
<1> HIDE DEF pair
<1>9. /\ levels' \in Seq(ResultPair) /\ Len(levels') = k /\ DOMAIN levels' = 1 .. k
      /\ levels'[k] = pair /\ \A i \in 1 .. Len(levels) : levels'[i] = levels[i]
  BY <1>1, <1>2, <1>3, <1>7
<1>10. TypeOK'
  BY <1>1, <1>2, <1>4, <1>5, <1>9 DEF TypeOK, Parameters
<1>11. Checked'
  BY <1>1, <1>2, AskedKept DEF Checked
<1>12. ParametersKept'
  BY <1>1, <1>2, <1>4 DEF ParametersKept, Solving, Finished
<1>13. GlobalsRight'
  BY <1>1, <1>4, <1>5, AskedKept DEF GlobalsRight
<1>14. ResultsSoFar'
  BY <1>1, <1>2, <1>3, <1>9 DEF ResultsSoFar, Solving, Finished
<1>15. MainAsAsked'
  BY <1>1, <1>2, AskedKept DEF MainAsAsked
<1>16. LevelsAsAsked'
  <2>1. ASSUME NEW i \in 1 .. k, NEW a \in Arrays, NEW s, s = levels'[i][a]
        PROVE  /\ (s = Null) <=> (main[a] = Null)
               /\ s # Null =>
                    /\ s.tech = [Tech(a, Asked) EXCEPT
                                   !.volts = [d \in DOMAIN cfg.volts |-> cfg.dvs[i]]]
                    /\ s.wires.sized = Tech("data", Asked)
                    /\ s.wires.at = s.tech
    <3>1. CASE i = k
      BY <1>6, <1>8, <1>9, <2>1, <3>1
    <3>2. CASE i # k
      <4>1. i \in 1 .. Len(levels) /\ i \in DOMAIN levels
        BY <1>2, <1>3, <3>2
      <4>2. s = levels[i][a]
        BY <1>9, <2>1, <4>1
      <4> QED BY <1>2, <4>1, <4>2 DEF LevelsAsAsked
    <3> QED BY <3>1, <3>2
  <2>2. /\ cfg' = cfg /\ main' = main /\ DOMAIN levels' = 1 .. k
        /\ \A a : Tech(a, Asked)' = Tech(a, Asked)
    BY <1>1, <1>9, AskedKept
  <2>3. ASSUME NEW i \in DOMAIN levels', NEW a \in Arrays, NEW s, s = levels'[i][a]
        PROVE  /\ (s = Null) <=> (main'[a] = Null)
               /\ s # Null =>
                    /\ s.tech = [Tech(a, Asked)' EXCEPT
                                   !.volts = [d \in DOMAIN cfg'.volts |-> cfg'.dvs[i]]]
                    /\ s.wires.sized = Tech("data", Asked)'
                    /\ s.wires.at = s.tech
    <3>1. /\ i \in 1 .. k /\ Tech(a, Asked)' = Tech(a, Asked)
          /\ Tech("data", Asked)' = Tech("data", Asked)
      BY <2>2
    <3>2. /\ (s = Null) <=> (main[a] = Null)
          /\ s # Null =>
               /\ s.tech = [Tech(a, Asked) EXCEPT
                              !.volts = [d \in DOMAIN cfg.volts |-> cfg.dvs[i]]]
               /\ s.wires.sized = Tech("data", Asked)
               /\ s.wires.at = s.tech
      BY <2>1, <2>3, <3>1
    <3> QED BY <2>2, <3>1, <3>2
  <2> QED BY <2>3 DEF LevelsAsAsked
<1>17. ReferenceUngated'
  BY <1>1, <1>3 DEF ReferenceUngated
<1> QED BY <1>10, <1>11, <1>12, <1>13, <1>14, <1>15, <1>16, <1>17 DEF IInv

(* After the last level the technology is installed once more.             *)
LEMMA DvsResetStep == IInv /\ DvsReset => IInv'
<1> SUFFICES ASSUME IInv, DvsReset PROVE IInv'
  OBVIOUS
<1>1. /\ pc = "level" /\ k > Len(cfg.dvs) /\ ip' = AtLevel(ip)
      /\ g_tp' = Tech("tag", AtLevel(ip))
      /\ pc' = IF ip.power_gating THEN "pg" ELSE "report"
      /\ UNCHANGED <<cfg, wires, k, main, levels, ref>>
  BY DEF DvsReset, Install, TechAsked
<1>2. /\ TypeOK /\ Checked /\ ParametersKept /\ ResultsSoFar /\ GlobalsRight
      /\ Len(levels) \in Nat /\ k \in Nat /\ Len(cfg.dvs) \in Nat
  BY Parts
<1>3. /\ k = Len(levels) + 1 /\ k >= 1 /\ cfg.dvs # <<>> /\ ref = Null
      /\ Len(levels) = Len(cfg.dvs) /\ Accepted(cfg) /\ ip.power_gating = cfg.gating
      /\ wires \in WireType
  BY <1>1, <1>2 DEF ResultsSoFar, Checked, ParametersKept, GlobalsRight
<1>4. /\ ip' \in Parameters /\ ip'.power_gating = ip.power_gating /\ ip'.flags = ip.flags
      /\ ip'.volts = Unspecified /\ g_tp' \in TechType
  <2>1. LevelVolts = Default
    BY <1>1, <1>2 DEF LevelVolts
  <2> QED BY <1>1, <1>2, <1>3, <2>1, AtLevelFacts, TechTyped, ArraysTwo DEF Unspecified
<1>5. VoltsKept => g_tp' = Tech("data", Asked)
  <2>1. g_tp' = Tech("data", AtLevel(ip))
    BY <1>1, <1>3, SameTech, ArraysTwo
  <2>2. VoltsKept => cfg.volts = Unspecified
    <3>1. cfg.volts \in [itrs_hp .. itrs_lop -> Voltages \cup {Default}]
      BY <1>2, ConfigFacts DEF Volts
    <3> QED BY <1>3, <3>1 DEF VoltsKept, Unspecified
  <2> QED BY <1>1, <1>4, <2>1, <2>2 DEF Tech, Asked
<1>6. TypeOK'
  BY <1>1, <1>2, <1>3, <1>4 DEF TypeOK, Parameters
<1>7. Checked'
  BY <1>1, <1>2, AskedKept DEF Checked
<1>8. ParametersKept'
  BY <1>1, <1>2, <1>3, <1>4 DEF ParametersKept, Solving, Finished
<1>9. GlobalsRight'
  BY <1>1, <1>3, <1>4, <1>5, AskedKept DEF GlobalsRight
<1>10. ResultsSoFar'
  BY <1>1, <1>2, <1>3 DEF ResultsSoFar, Solving, Finished
<1> QED BY <1>1, <1>6, <1>7, <1>8, <1>9, <1>10, ResultsKept DEF IInv

(* A result of which only the gating is replaced.                          *)
LEMMA GatedSet ==
  ASSUME NEW t, NEW w, NEW g, NEW h, NEW r, r = [tech |-> t, wires |-> w, gated |-> g]
  PROVE  [r EXCEPT !.gated = h] = [tech |-> t, wires |-> w, gated |-> h]
OBVIOUS

(* The reference: the technology and wires of the main result, ungated.    *)
LEMMA PgStep == IInv /\ Pg => IInv'
<1> SUFFICES ASSUME IInv, Pg PROVE IInv'
  OBVIOUS
<1> DEFINE w == Sized(g_tp)
           p == [ip EXCEPT !.power_gating = FALSE, !.flags = FALSE]
           r == Evaluated(g_tp, w, p)
<1>1. /\ pc = "pg" /\ wires' = w /\ ip' = p /\ pc' = "pg_reset"
      /\ ref' = [a \in Arrays |-> IF main[a] = Null THEN Null ELSE r]
      /\ UNCHANGED <<cfg, g_tp, k, main, levels>>
  BY DEF Pg
<1>2. /\ TypeOK /\ Checked /\ ParametersKept /\ ResultsSoFar /\ GlobalsRight
      /\ MainAsAsked /\ LevelsAsAsked /\ ip \in Parameters
  BY Parts
<1>3. /\ p \in Parameters /\ p.volts = ip.volts
      /\ p.power_gating = FALSE /\ p.flags = FALSE
  BY <1>2 DEF Parameters
<1>4. g_tp \in TechType /\ w \in WireType
  BY <1>1, <1>2, SizedTyped DEF GlobalsRight
<1>5. r \in Result /\ r # Null
  BY <1>3, <1>4, EvaluatedFacts
<1>6. r = [tech |-> g_tp, wires |-> Sized(g_tp), gated |-> FALSE]
  BY <1>3 DEF Evaluated
<1> HIDE DEF w, p, r
<1>7. /\ ref' \in ResultPair /\ ref' # Null
      /\ \A a \in Arrays : ref'[a] = IF main[a] = Null THEN Null ELSE r
  BY <1>1, <1>5, NullAssumption DEF ResultPair
<1>8. TypeOK'
  BY <1>1, <1>2, <1>3, <1>4, <1>7 DEF TypeOK, Parameters
<1>9. Checked'
  BY <1>1, <1>2, AskedKept DEF Checked
<1>10. ParametersKept'
  BY <1>1, <1>2, <1>3 DEF ParametersKept, Solving, Finished
<1>11. GlobalsRight'
  BY <1>1, <1>4 DEF GlobalsRight
<1>12. ResultsSoFar'
  BY <1>1, <1>2, <1>7 DEF ResultsSoFar, Solving, Finished
<1>13. MainAsAsked'
  BY <1>1, <1>2, AskedKept DEF MainAsAsked
<1>14. LevelsAsAsked'
  BY <1>1, <1>2, AskedKept DEF LevelsAsAsked
<1>15. ReferenceUngated'
  <2>1. ASSUME ~ cfg.nuca, VoltsKept, NEW a \in Arrays, main[a] # Null,
               a = "data" \/ SameArrays(cfg)
        PROVE  ref'[a] = [main[a] EXCEPT !.gated = FALSE]
    <3>1. main[a] = [tech |-> Tech(a, Asked), wires |-> OwnWires, gated |-> cfg.gating]
      BY <1>2, <2>1 DEF MainAsAsked
    <3>2. g_tp = Tech("data", Asked)
      BY <1>1, <1>2, <2>1 DEF GlobalsRight
    <3>3. Tech(a, Asked) = Tech("data", Asked)
      BY <2>1, ArraysTwo DEF Tech, SameArrays
    <3>4. ref'[a] = r
      BY <1>7, <2>1
    <3>5. \A h : [main[a] EXCEPT !.gated = h]
                 = [tech |-> Tech(a, Asked), wires |-> OwnWires, gated |-> h]
      BY <3>1, GatedSet
    <3>6. r = [tech |-> Tech("data", Asked), wires |-> OwnWires, gated |-> FALSE]
      BY <1>6, <3>2 DEF OwnWires
    <3> QED BY <3>3, <3>4, <3>5, <3>6
  <2>2. VoltsKept' = VoltsKept /\ SameArrays(cfg)' = SameArrays(cfg)
    BY <1>1, AskedKept DEF SameArrays
  <2> QED BY <1>1, <2>1, <2>2 DEF ReferenceUngated, SameButGating
<1> QED BY <1>8, <1>9, <1>10, <1>11, <1>12, <1>13, <1>14, <1>15 DEF IInv

(* update_pg() changes the flags back after its reference is computed.     *)
LEMMA PgResetStep == IInv /\ PgReset => IInv'
<1> SUFFICES ASSUME IInv, PgReset PROVE IInv'
  OBVIOUS
<1>1. /\ pc = "pg_reset" /\ pc' = "report"
      /\ ip' = [ip EXCEPT !.power_gating = TRUE, !.flags = TRUE]
      /\ UNCHANGED <<cfg, g_tp, wires, k, main, levels, ref>>
  BY DEF PgReset
<1>2. /\ TypeOK /\ Checked /\ ParametersKept /\ ResultsSoFar /\ GlobalsRight
      /\ ip \in Parameters /\ cfg.gating \in BOOLEAN
  BY Parts, ConfigFacts
<1>3. /\ ip' \in Parameters /\ ip'.volts = ip.volts
      /\ ip'.power_gating = TRUE /\ ip'.flags = TRUE
  BY <1>1, <1>2 DEF Parameters
<1>4. g_tp \in TechType /\ wires \in WireType /\ cfg.gating = TRUE
  BY <1>1, <1>2 DEF GlobalsRight, ParametersKept
<1>5. TypeOK'
  BY <1>1, <1>2, <1>3, <1>4 DEF TypeOK, Parameters
<1>6. Checked'
  BY <1>1, <1>2, AskedKept DEF Checked
<1>7. ParametersKept'
  BY <1>1, <1>2, <1>3, <1>4 DEF ParametersKept, Solving, Finished
<1>8. GlobalsRight'
  BY <1>1, <1>4 DEF GlobalsRight
<1>9. ResultsSoFar'
  BY <1>1, <1>2, <1>4 DEF ResultsSoFar, Solving, Finished
<1> QED BY <1>1, <1>5, <1>6, <1>7, <1>8, <1>9, ResultsKept DEF IInv

(* A request from a file sizes the wires again for its report.             *)
LEMMA ReportStep == IInv /\ Report => IInv'
<1> SUFFICES ASSUME IInv, Report PROVE IInv'
  OBVIOUS
<1>1. /\ pc = "report" /\ pc' = "done"
      /\ wires' = IF cfg.entry = "file" THEN Sized(g_tp) ELSE wires
      /\ UNCHANGED <<cfg, ip, g_tp, k, main, levels, ref>>
  BY DEF Report
<1>2. /\ TypeOK /\ Checked /\ ParametersKept /\ ResultsSoFar /\ GlobalsRight
  BY Parts
<1>3. g_tp \in TechType /\ wires' \in WireType
  BY <1>1, <1>2, SizedTyped DEF GlobalsRight
<1>4. TypeOK'
  BY <1>1, <1>2, <1>3 DEF TypeOK
<1>5. Checked'
  BY <1>1, <1>2, AskedKept DEF Checked
<1>6. ParametersKept'
  BY <1>1, <1>2 DEF ParametersKept, Solving, Finished
<1>7. GlobalsRight'
  BY <1>1, <1>3 DEF GlobalsRight
<1>8. ResultsSoFar'
  BY <1>1, <1>2 DEF ResultsSoFar, Solving, Finished
<1> QED BY <1>1, <1>4, <1>5, <1>6, <1>7, <1>8, ResultsKept DEF IInv

(* The parameters of the next request are those of the first.              *)
LEMMA AskAgainStep == IInv /\ AskAgain => IInv'
<1> SUFFICES ASSUME IInv, AskAgain PROVE IInv'
  OBVIOUS
<1>1. /\ pc = "done" /\ pc' = "check" /\ cfg.entry = "ip"
      /\ main' = NoArrays /\ levels' = <<>> /\ ref' = Null
      /\ UNCHANGED <<cfg, ip, g_tp, wires, k>>
  BY DEF AskAgain
<1>2. /\ TypeOK /\ ParametersKept /\ Len(cfg.dvs) \in Nat /\ cfg.dvs = <<>>
  BY <1>1, Parts, ConfigFacts
<1>3. main' \in ResultPair /\ \A a \in Arrays : main'[a] = Null
  BY <1>1 DEF NoArrays, ResultPair
<1>4. Len(levels') = 0 /\ DOMAIN levels' = {}
  BY <1>1
<1>5. TypeOK'
  BY <1>1, <1>2, <1>3 DEF TypeOK
<1>6. Checked' /\ GlobalsRight'
  BY <1>1 DEF Checked, GlobalsRight
<1>7. ParametersKept'
  BY <1>1, <1>2 DEF ParametersKept, Solving, Finished
<1>8. ResultsSoFar'
  BY <1>1, <1>2, <1>4 DEF ResultsSoFar, Finished
<1>9. MainAsAsked' /\ LevelsAsAsked' /\ ReferenceUngated'
  BY <1>1, <1>3, <1>4 DEF MainAsAsked, LevelsAsAsked, ReferenceUngated
<1> QED BY <1>5, <1>6, <1>7, <1>8, <1>9 DEF IInv

(* A step that changes nothing.                                            *)
LEMMA StutterStep == IInv /\ UNCHANGED vars => IInv'
<1> SUFFICES ASSUME IInv, UNCHANGED vars PROVE IInv'
  OBVIOUS
<1>1. UNCHANGED <<pc, cfg, ip, g_tp, wires, k, main, levels, ref>>
  BY DEF vars
<1>2. TypeOK /\ Checked /\ ParametersKept /\ GlobalsRight /\ ResultsSoFar
  BY Parts
<1>3. TypeOK' /\ ParametersKept'
  BY <1>1, <1>2 DEF TypeOK, ParametersKept
<1>4. Checked' /\ GlobalsRight' /\ ResultsSoFar'
  BY <1>1, <1>2, AskedKept DEF Checked, GlobalsRight, ResultsSoFar
<1> QED BY <1>1, <1>3, <1>4, ResultsKept DEF IInv

(* The inductive invariant of a request, and of the requests after it.     *)
THEOREM Invariance == Spec => []IInv
<1>1. Init => IInv
  BY InitIInv
<1>2. IInv /\ [Next]_vars => IInv'
  BY ErrorCheckingStep, TechRefusedStep, InitWiresStep, NucaRoutersStep, NucaBankStep,
     SolveTagStep, SolveDataStep, DvsBeginStep, DvsLevelStep, DvsResetStep, PgStep,
     PgResetStep, ReportStep, AskAgainStep, StutterStep DEF Next, Halt
<1> QED BY <1>1, <1>2, PTL DEF Spec

(* cacti_interface(), update_dvs(): whatever configuration is asked for,   *)
(* and however often, no result is computed under another one's            *)
(* technology, voltages, gating or wires.                                  *)
THEOREM ResultsAsAskedCorrect == Spec => []ResultsAsAsked
<1>1. IInv => ResultsAsAsked
  BY DEF IInv, ResultsAsAsked
<1> QED BY <1>1, Invariance, PTL

(* update_dvs(), update_pg(): an answered request has all its results, the *)
(* reference without power gating is the main result but for the gating,   *)
(* and the parameters say again what was asked of the gating.              *)
THEOREM AnsweredCorrect == Spec => []Answered
<1>1. ASSUME IInv PROVE Answered
  <2>1. /\ TypeOK /\ ParametersKept /\ ResultsSoFar /\ ReferenceUngated
    BY <1>1, Parts
  <2>2. Complete
    BY <2>1 DEF Complete, ParametersKept, ResultsSoFar, Finished
  <2> QED BY <2>1, <2>2 DEF Answered
<1> QED BY <1>1, Invariance, PTL

-----------------------------------------------------------------------------
(* The nodes of the tables.                                                *)
LEMMA NodesAre ==
  /\ DOMAIN Nodes = 1 .. 6
  /\ Nodes[1] = 180 /\ Nodes[2] = 90 /\ Nodes[3] = 65
  /\ Nodes[4] = 45 /\ Nodes[5] = 32 /\ Nodes[6] = 22
  BY DEF Nodes

OnNode(nm) == nm \in {180, 90, 65, 45, 32, 22} /\ Exact(nm) /\ Passes(nm) = <<nm>>
Amid(nm, a, b) == b < nm /\ nm < a /\ ~ Exact(nm) /\ Passes(nm) = <<a, b>>

(* A size is a node or between two.                                        *)
LEMMA PassesAre ==
  ASSUME NEW nm \in 22 .. 180
  PROVE  \/ OnNode(nm) \/ Amid(nm, 180, 90) \/ Amid(nm, 90, 65)
         \/ Amid(nm, 65, 45) \/ Amid(nm, 45, 32) \/ Amid(nm, 32, 22)
<1>1. CASE nm \in {180, 90, 65, 45, 32, 22}
  <2>1. Exact(nm)
    BY <1>1, NodesAre DEF Exact
  <2> QED BY <1>1, <2>1 DEF Passes, OnNode
<1>2. CASE nm \notin {180, 90, 65, 45, 32, 22}
  <2>1. ~ Exact(nm)
    BY <1>2, NodesAre DEF Exact
  <2>2. \A j \in 1 .. 5 : Nodes[j] > nm /\ nm > Nodes[j + 1] => Between(nm) = j
    <3> TAKE j \in 1 .. 5
    <3> HAVE Nodes[j] > nm /\ nm > Nodes[j + 1]
    <3>1. \A l \in 1 .. 5 : Nodes[l] > nm /\ nm > Nodes[l + 1] => l = j
      BY NodesAre
    <3> QED BY <3>1 DEF Between
  <2>3. Passes(nm) = <<Nodes[Between(nm)], Nodes[Between(nm) + 1]>>
    BY <2>1 DEF Passes
  <2>4. CASE 90 < nm
    <3>1. Between(nm) = 1
      BY <1>2, <2>2, <2>4, NodesAre
    <3> QED BY <1>2, <2>1, <2>3, <2>4, <3>1, NodesAre DEF Amid
  <2>5. CASE 65 < nm /\ nm < 90
    <3>1. Between(nm) = 2
      BY <1>2, <2>2, <2>5, NodesAre
    <3> QED BY <1>2, <2>1, <2>3, <2>5, <3>1, NodesAre DEF Amid
  <2>6. CASE 45 < nm /\ nm < 65
    <3>1. Between(nm) = 3
      BY <1>2, <2>2, <2>6, NodesAre
    <3> QED BY <1>2, <2>1, <2>3, <2>6, <3>1, NodesAre DEF Amid
  <2>7. CASE 32 < nm /\ nm < 45
    <3>1. Between(nm) = 4
      BY <1>2, <2>2, <2>7, NodesAre
    <3> QED BY <1>2, <2>1, <2>3, <2>7, <3>1, NodesAre DEF Amid
  <2>8. CASE nm < 32
    <3>1. Between(nm) = 5
      BY <1>2, <2>2, <2>8, NodesAre
    <3> QED BY <1>2, <2>1, <2>3, <2>8, <3>1, NodesAre DEF Amid
  <2> QED BY <1>2, <2>4, <2>5, <2>6, <2>7, <2>8
<1> QED BY <1>1, <1>2

(* The nodes of a size are those next to it.                               *)
LEMMA PassNode ==
  ASSUME NEW nm \in 22 .. 180, NEW p \in DOMAIN Passes(nm)
  PROVE  /\ p \in {1, 2}
         /\ Passes(nm)[p] \in {180, 90, 65, 45, 32, 22}
         /\ nm > 90 => Passes(nm)[p] \in {180, 90}
         /\ nm <= 90 => Passes(nm)[p] # 180
         /\ nm >= 32 => Passes(nm)[p] # 22
<1>1. CASE OnNode(nm)
  <2>1. p = 1 /\ Passes(nm)[p] = nm
    BY <1>1 DEF OnNode
  <2> QED BY <1>1, <2>1 DEF OnNode
<1>2. CASE Amid(nm, 180, 90)
  <2>1. (p = 1 /\ Passes(nm)[p] = 180) \/ (p = 2 /\ Passes(nm)[p] = 90)
    BY <1>2 DEF Amid
  <2> QED BY <1>2, <2>1 DEF Amid
<1>3. CASE Amid(nm, 90, 65)
  <2>1. (p = 1 /\ Passes(nm)[p] = 90) \/ (p = 2 /\ Passes(nm)[p] = 65)
    BY <1>3 DEF Amid
  <2> QED BY <1>3, <2>1 DEF Amid
<1>4. CASE Amid(nm, 65, 45)
  <2>1. (p = 1 /\ Passes(nm)[p] = 65) \/ (p = 2 /\ Passes(nm)[p] = 45)
    BY <1>4 DEF Amid
  <2> QED BY <1>4, <2>1 DEF Amid
<1>5. CASE Amid(nm, 45, 32)
  <2>1. (p = 1 /\ Passes(nm)[p] = 45) \/ (p = 2 /\ Passes(nm)[p] = 32)
    BY <1>5 DEF Amid
  <2> QED BY <1>5, <2>1 DEF Amid
<1>6. CASE Amid(nm, 32, 22)
  <2>1. (p = 1 /\ Passes(nm)[p] = 32) \/ (p = 2 /\ Passes(nm)[p] = 22)
    BY <1>6 DEF Amid
  <2> QED BY <1>6, <2>1 DEF Amid
<1> QED BY <1>1, <1>2, <1>3, <1>4, <1>5, <1>6, PassesAre

(* What this pass writes it reads.                                         *)
LEMMA WriterIs ==
  ASSUME NEW t, NEW p \in Nat \ {0}, NEW array, NEW f,
         Writes(t, Passes(t.nm)[p], array, f)
  PROVE  Writer(t, p, array, f) = p
<1> DEFINE S == {0} \cup {q \in 1 .. p : Writes(t, Passes(t.nm)[q], array, f)}
<1>1. p \in S /\ \A y \in S : y \in Nat /\ y <= p
  OBVIOUS
<1>2. Writer(t, p, array, f) = Max(S)
  BY DEF Writer
<1> HIDE DEF S
<1>3. \E x \in S : \A y \in S : x >= y
  BY <1>1
<1>4. Max(S) \in S /\ \A y \in S : Max(S) >= y
  BY <1>3 DEF Max
<1>5. Max(S) \in Nat /\ Max(S) <= p /\ Max(S) >= p
  BY <1>1, <1>4
<1> QED BY <1>2, <1>5

(* Which device types a node has, and which of its arrays follow the       *)
(* user's voltage.                                                         *)
LEMMA ItrsRows ==
  /\ DOMAIN Itrs(180) = {0} /\ Itrs(180)[0].follows = Arrays180
  /\ \A node \in {90, 65, 45, 32, 22} :
       DOMAIN Itrs(node) = {0, 1, 2} /\ \A f \in {0, 1, 2} : Itrs(node)[f].follows = Follows
<1>1. DOMAIN Itrs(180) = {0} /\ Itrs(180)[0].follows = Arrays180
  BY DEF Itrs, itrs_180, itrs_hp, Block, :>
<1>2. DOMAIN Itrs(90) = {0, 1, 2} /\ \A f \in {0, 1, 2} : Itrs(90)[f].follows = Follows
  BY DEF Itrs, itrs_90, itrs_hp, itrs_lstp, itrs_lop, Block, @@, :>
<1>3. DOMAIN Itrs(65) = {0, 1, 2} /\ \A f \in {0, 1, 2} : Itrs(65)[f].follows = Follows
  BY DEF Itrs, itrs_65, itrs_hp, itrs_lstp, itrs_lop, Block, @@, :>
<1>4. DOMAIN Itrs(45) = {0, 1, 2} /\ \A f \in {0, 1, 2} : Itrs(45)[f].follows = Follows
  BY DEF Itrs, itrs_45, itrs_hp, itrs_lstp, itrs_lop, Block, @@, :>
<1>5. DOMAIN Itrs(32) = {0, 1, 2} /\ \A f \in {0, 1, 2} : Itrs(32)[f].follows = Follows
  BY DEF Itrs, itrs_32, itrs_hp, itrs_lstp, itrs_lop, Block, @@, :>
<1>6. DOMAIN Itrs(22) = {0, 1, 2} /\ \A f \in {0, 1, 2} : Itrs(22)[f].follows = Follows
  BY DEF Itrs, itrs_22, itrs_hp, itrs_lstp, itrs_lop, Block, @@, :>
<1> QED BY <1>1, <1>2, <1>3, <1>4, <1>5, <1>6

(* Which DRAM cells it has.                                                *)
LEMMA CellRows ==
  /\ \A node \in {90, 65, 45, 32} : DOMAIN DramCell(node) = {3, 4}
  /\ DOMAIN DramCell(22) = {4}
<1>1. DOMAIN DramCell(90) = {3, 4}
  BY DEF DramCell, dram_90, lp_dram, comm_dram, Cell, @@, :>
<1>2. DOMAIN DramCell(65) = {3, 4}
  BY DEF DramCell, dram_65, lp_dram, comm_dram, Cell, @@, :>
<1>3. DOMAIN DramCell(45) = {3, 4}
  BY DEF DramCell, dram_45, lp_dram, comm_dram, Cell, @@, :>
<1>4. DOMAIN DramCell(32) = {3, 4}
  BY DEF DramCell, dram_32, lp_dram, comm_dram, Cell, @@, :>
<1>5. DOMAIN DramCell(22) = {4}
  BY DEF DramCell, dram_22, comm_dram, Cell, :>
<1> QED BY <1>1, <1>2, <1>3, <1>4, <1>5

(* A device type every pass assigns has the values of its own nodes.       *)
LEMMA OwnIf ==
  ASSUME NEW t, t.nm \in 22 .. 180, NEW array, NEW f,
         \A p \in DOMAIN Passes(t.nm) : Writes(t, Passes(t.nm)[p], array, f)
  PROVE  Own(t, array, f)
<1> SUFFICES ASSUME NEW p \in DOMAIN Passes(t.nm) PROVE Writer(t, p, array, f) = p
  BY DEF Own
<1>1. p \in Nat \ {0}
  BY PassNode
<1> QED BY <1>1, WriterIs

(* A device type of the ITRS tables has the values of its own nodes:       *)
(* itrs_hp at every size, the others up to 90 nm.                          *)
LEMMA ItrsOwn ==
  ASSUME NEW t, t.nm \in 22 .. 180, NEW f \in {0, 1, 2}, f = 0 \/ t.nm <= 90,
         NEW array \in ItrsArrays
  PROVE  Own(t, array, f)
<1> SUFFICES ASSUME NEW p \in DOMAIN Passes(t.nm)
             PROVE  Writes(t, Passes(t.nm)[p], array, f)
  BY OwnIf
<1> DEFINE node == Passes(t.nm)[p]
<1>1. node \in {180, 90, 65, 45, 32, 22} /\ (t.nm <= 90 => node # 180)
  BY PassNode
<1> HIDE DEF node
<1>2. f \in DOMAIN Itrs(node)
  BY <1>1, ItrsRows
<1> QED BY <1>2 DEF Writes, node

(* What is computed from a supply is computed from the user's one, which   *)
(* the block of 180 nm does for the voltage and the current only.          *)
LEMMA ItrsFollows ==
  ASSUME NEW t, t.nm \in 22 .. 180, NEW f \in {0, 1, 2}, NEW array,
         \/ t.nm <= 90
         \/ /\ f = 0
            /\ t.volts[0] = Default \/ array \notin {"Rnchannelon", "Rpchannelon", "I_off_n"}
  PROVE  FollowsVoltage(t, array, f)
<1> SUFFICES ASSUME t.volts[f] # Default, array \in Follows, NEW p \in DOMAIN Passes(t.nm)
             PROVE  array \in Itrs(Passes(t.nm)[p])[f].follows
  BY DEF FollowsVoltage
<1> DEFINE node == Passes(t.nm)[p]
<1>1. node \in {180, 90, 65, 45, 32, 22} /\ (t.nm <= 90 => node # 180)
  BY PassNode
<1> HIDE DEF node
<1>2. CASE node # 180
  BY <1>1, <1>2, ItrsRows DEF node
<1>3. CASE node = 180
  <2>1. t.nm \in Int /\ ~ (t.nm <= 90)
    BY <1>1, <1>3
  <2>2. f = 0 /\ array \in Arrays180
    BY <2>1 DEF Follows
  <2> QED BY <1>3, <2>2, ItrsRows DEF node
<1> QED BY <1>2, <1>3

(* A DRAM cell has the values of its own nodes, lp_dram down to 32 nm.     *)
LEMMA CellOwn ==
  ASSUME NEW t, t.nm \in 22 .. 90, t.ram \in Dram, t.ram = lp_dram => t.nm >= 32,
         NEW array \in CellScalars \cup (ItrsArrays \ {"vdd", "vdd_real", "I_g_on_n"})
  PROVE  Own(t, array, dram_cell_tech_flavor)
<1> SUFFICES ASSUME NEW p \in DOMAIN Passes(t.nm)
             PROVE  Writes(t, Passes(t.nm)[p], array, dram_cell_tech_flavor)
  BY OwnIf
<1> DEFINE node == Passes(t.nm)[p]
<1>1. node \in {90, 65, 45, 32, 22} /\ (t.nm >= 32 => node # 22)
  BY PassNode
<1> HIDE DEF node
<1>2. t.ram \in DOMAIN DramCell(node)
  BY <1>1, CellRows DEF Dram, lp_dram, comm_dram
<1> QED BY <1>2 DEF Writes, node

(* The local wires of comm_dram are those of the conservative projection.  *)
LEMMA WiresSet ==
  ASSUME NEW t, t.nm \in 22 .. 180, t.proj \in {0, 1}, t.ram = comm_dram => t.proj = 1
  PROVE  LocalWireSet(t)
<1> SUFFICES ASSUME NEW p \in DOMAIN Passes(t.nm)
             PROVE  LocalWire(t) \in Wires(Passes(t.nm)[p])[t.proj + 1].types
  BY DEF LocalWireSet
<1> DEFINE node == Passes(t.nm)[p]
<1>1. node \in {180, 90, 65, 45, 32, 22}
  BY PassNode
<1> HIDE DEF node
<1>2. Wires(node)[1].types = 0 .. 2 /\ Wires(node)[2].types = 0 .. 3
  BY <1>1 DEF Wires, wires_180, wires_90, wires_65, wires_45, wires_32, wires_22, Aggressive,
     Conservative, Projection
<1> QED BY <1>2 DEF LocalWire, node

-----------------------------------------------------------------------------
(* What the circuits of an array read, by device.                          *)
TransistorFields ==
  {"C_g_ideal", "C_overlap", "C_fringe", "l_phy", "C_junc", "C_junc_sidewall", "R_nch_on",
   "R_pch_on", "n_to_p_eff_curr_drv_ratio"}
CircuitFields ==
  TransistorFields \cup {"I_on_n", "I_off_n", "I_off_p", "I_g_on_n", "I_g_on_p", "Vdd", "Vth",
                        "Vcc_min", "Mobility_n", "C_ox"}

(* Which fields of which device the circuits of an array read.             *)
LEMMA ReadsAre ==
  ASSUME NEW t, NEW gated, NEW r \in Reads(t, gated)
  PROVE  \/ r[1] = "wire_local"
         \/ r[1] \in {"peri_global", "sleep_tx"} /\ r[2] \in CircuitFields
         \/ t.ram \notin Dram /\ r[1] \in {"sram_cell", "cam_cell"} /\ r[2] \in CircuitFields
         \/ t.ram \in Dram /\ r[1] \in {"dram_acc", "dram_wl"} /\ r[2] \in TransistorFields
         \/ t.ram \in Dram /\ r[1] = "dram_acc" /\ r[2] \in {"Vth", "vpp"}
<1>1. CASE r \in PeripheryReads
  BY <1>1 DEF PeripheryReads, Transistor, gate_C, gate_C_pass, drain_C_, tr_R_on, R_to_w,
     pmos_to_nmos_sz_ratio, simplified_nmos_Isat, simplified_pmos_Isat, cmos_Ileak,
     simplified_nmos_leakage, simplified_pmos_leakage, cmos_Ig_n, cmos_Ig_p, Device, Source,
     Fields, CircuitFields, TransistorFields
<1>2. CASE r \in DramReads /\ t.ram \in Dram
  BY <1>2 DEF DramReads, Transistor, gate_C, gate_C_pass, drain_C_, tr_R_on,
     pmos_to_nmos_sz_ratio, Device, Source, Fields, CircuitFields, TransistorFields
<1>3. CASE r \in SramReads /\ t.ram \notin Dram
  BY <1>3 DEF SramReads, Transistor, gate_C, gate_C_pass, drain_C_, tr_R_on,
     simplified_nmos_Isat, simplified_nmos_leakage, simplified_pmos_leakage, cmos_Ig_n,
     cmos_Ig_p, Device, Source, Fields, CircuitFields, TransistorFields
<1>4. CASE r \in SleepReads
  BY <1>4 DEF SleepReads, pmos_to_nmos_sz_ratio, Source, Fields, CircuitFields, TransistorFields
<1> QED BY <1>1, <1>2, <1>3, <1>4 DEF Reads

(* The local arrays behind these fields.                                   *)
LEMMA FromItrs ==
  ASSUME NEW t, NEW device, device \notin {"dram_acc", "dram_wl"}, NEW field \in CircuitFields,
         NEW array \in From(t, device, field)
  PROVE  /\ array \in ItrsArrays
         /\ array \in {"Rnchannelon", "Rpchannelon", "I_off_n"} =>
              field \in {"R_nch_on", "R_pch_on", "I_off_n", "I_off_p"}
  BY DEF From, Accumulated, Local, ItrsArrays, CircuitFields, TransistorFields

(* ... and of the DRAM transistors.                                        *)
LEMMA FromCell ==
  ASSUME NEW t, NEW device \in {"dram_acc", "dram_wl"}, NEW field,
         field \in TransistorFields \/ (device = "dram_acc" /\ field \in {"Vth", "vpp"}),
         NEW array \in From(t, device, field)
  PROVE  array \in CellScalars \cup (ItrsArrays \ {"vdd", "vdd_real", "I_g_on_n"})
  BY DEF From, Accumulated, Local, ItrsArrays, CellScalars, TransistorFields

(* Every field the circuits read is of the technology's own nodes and      *)
(* voltages, whatever is asked for.                                        *)
LEMMA AllFieldsOwn ==
  ASSUME NEW t \in TechType, Supported(t), NEW gated
  PROVE  FieldsOwn(t, gated)
<1> SUFFICES ASSUME NEW r \in Reads(t, gated), ~ Excused(t, r[1], r[2])
             PROVE  OwnField(t, r[1], r[2])
  BY DEF FieldsOwn
<1>1. /\ t.nm \in 22 .. 180 /\ t.proj \in {0, 1} /\ t.ram \in 0 .. 4 /\ t.peri \in 0 .. 4
      /\ DOMAIN t.volts = 0 .. 2
  BY DEF TechType, Supported, DeviceTypes, Volts, itrs_hp, itrs_lop
<1>2. CASE r[1] = "wire_local"
  <2>1. t.ram = comm_dram => t.proj = 1
    BY <1>1, <1>2 DEF Excused
  <2> QED BY <1>1, <1>2, <2>1, WiresSet DEF OwnField
<1>3. ASSUME r[1] \in {"peri_global", "sleep_tx", "sram_cell", "cam_cell"},
             r[2] \in CircuitFields, r[1] \in {"sram_cell", "cam_cell"} => t.ram \notin Dram
      PROVE  OwnField(t, r[1], r[2])
  <2> DEFINE f == Flavor(t, r[1])
  <2>1. f \in {0, 1, 2}
    BY <1>1, <1>3 DEF Flavor, Excused, Dram, lp_dram, comm_dram, itrs_lstp
  <2>2. t.nm > 90 => f = 0
    BY <1>3 DEF Excused, itrs_hp
  <2>3. t.nm > 90 /\ t.volts[0] # Default =>
          r[2] \notin {"R_nch_on", "R_pch_on", "I_off_n", "I_off_p"}
    BY DEF Excused, itrs_hp
  <2> SUFFICES ASSUME NEW array \in From(t, r[1], r[2])
               PROVE  Own(t, array, f) /\ FollowsVoltage(t, array, f)
    BY <1>3 DEF OwnField
  <2> HIDE DEF f
  <2>4. /\ array \in ItrsArrays
        /\ array \in {"Rnchannelon", "Rpchannelon", "I_off_n"} =>
             r[2] \in {"R_nch_on", "R_pch_on", "I_off_n", "I_off_p"}
    BY <1>3, FromItrs
  <2>5. f = 0 \/ t.nm <= 90
    BY <1>1, <2>2
  <2>6. Own(t, array, f)
    BY <1>1, <2>1, <2>4, <2>5, ItrsOwn
  <2>7. FollowsVoltage(t, array, f)
    BY <1>1, <2>1, <2>2, <2>3, <2>4, <2>5, ItrsFollows
  <2> QED BY <2>6, <2>7
<1>4. ASSUME r[1] \in {"dram_acc", "dram_wl"}, t.ram \in Dram,
             r[2] \in TransistorFields \/ (r[1] = "dram_acc" /\ r[2] \in {"Vth", "vpp"})
      PROVE  OwnField(t, r[1], r[2])
  <2>1. Flavor(t, r[1]) = dram_cell_tech_flavor /\ dram_cell_tech_flavor \notin DOMAIN t.volts
    BY <1>1, <1>4 DEF Flavor, dram_cell_tech_flavor
  <2>2. t.nm \in 22 .. 90 /\ (t.ram = lp_dram => t.nm >= 32)
    BY <1>1, <1>4, <2>1 DEF Excused, dram_cell_tech_flavor, itrs_hp
  <2> SUFFICES ASSUME NEW array \in From(t, r[1], r[2])
               PROVE  Own(t, array, dram_cell_tech_flavor)
    BY <1>4, <2>1 DEF OwnField
  <2>3. array \in CellScalars \cup (ItrsArrays \ {"vdd", "vdd_real", "I_g_on_n"})
    BY <1>4, FromCell
  <2> QED BY <1>4, <2>2, <2>3, CellOwn
<1> QED BY <1>2, <1>3, <1>4, ReadsAre

(* Everything evaluated was evaluated under a technology that was asked    *)
(* for and not refused.                                                    *)
Installable == {t \in TechType : MayInstall(t)}

Installed ==
  /\ pc \notin {"check", "init", "exit"} => g_tp \in Installable
  /\ \A a \in Arrays : main[a] # Null => main[a].tech \in Installable
  /\ \A j \in DOMAIN levels, a \in Arrays :
       levels[j][a] # Null => levels[j][a].tech \in Installable
  /\ ref # Null => \A a \in Arrays : ref[a] # Null => ref[a].tech \in Installable

(* What is asked for next is well typed.                                   *)
LEMMA AskedTyped ==
  ASSUME IInv, pc \in Installing
  PROVE  TechAsked \in TechType
<1>1. /\ TypeOK /\ ip.volts \in Volts /\ (pc = "level" => k = Len(levels) + 1)
      /\ Len(levels) \in Nat
  BY Parts DEF ResultsSoFar
<1>2. CASE pc = "level"
  <2>1. AtLevel(ip).volts \in Volts
    BY <1>1, <1>2, AtLevelFacts
  <2> QED BY <1>1, <1>2, <2>1, TechTyped, ArraysTwo DEF TechAsked
<1>3. CASE pc # "level"
  <2>1. Tech("tag", ip) \in TechType /\ Tech("data", ip) \in TechType
    BY <1>1, TechTyped, ArraysTwo
  <2>2. TechAsked \in {Tech("tag", ip), Tech("data", ip)}
    BY <1>3 DEF TechAsked
  <2> QED BY <2>1, <2>2
<1> QED BY <1>2, <1>3

(* What a request installs was asked for and not refused.                  *)
LEMMA InstallRight ==
  ASSUME IInv, pc \in Installing, Install
  PROVE  g_tp' \in Installable
  BY AskedTyped DEF Install, Installable

(* Every step that evaluates an array does it under an installed           *)
(* technology.                                                             *)
LEMMA InstalledStep ==
  ASSUME IInv, Installed, [Next]_vars
  PROVE  Installed'
<1>1. /\ GlobalsRight /\ main \in ResultPair /\ levels \in Seq(ResultPair)
      /\ Len(levels) \in Nat
  BY Parts
<1>2. \A t, w, p : Evaluated(t, w, p).tech = t
  BY DEF Evaluated
<1>3. ASSUME g_tp' \in Installable, UNCHANGED <<main, levels, ref>>
      PROVE  Installed'
  BY <1>3 DEF Installed
<1>4. ASSUME pc \in Installing, Install, UNCHANGED <<main, levels, ref>>
      PROVE  Installed'
  BY <1>3, <1>4, InstallRight
<1>5. ASSUME UNCHANGED <<g_tp, main, levels, ref>>,
             pc' \in {"check", "init", "exit"} \/ pc \notin {"check", "init", "exit"}
      PROVE  Installed'
  BY <1>5 DEF Installed
<1>6. CASE InitWires \/ NucaBank \/ DvsReset
  BY <1>4, <1>6 DEF InitWires, NucaBank, DvsReset, Installing
<1>7. CASE \/ ErrorChecking \/ TechRefused \/ NucaRouters \/ DvsBegin \/ PgReset
           \/ Report \/ UNCHANGED vars
  <2>1. UNCHANGED <<g_tp, main, levels, ref>>
    BY <1>7 DEF ErrorChecking, TechRefused, NucaRouters, DvsBegin, PgReset, Report, vars
  <2>2. pc' \in {"check", "init", "exit"} \/ pc \notin {"check", "init", "exit"}
    BY <1>7 DEF ErrorChecking, TechRefused, NucaRouters, DvsBegin, PgReset, Report, vars
  <2> QED BY <1>5, <2>1, <2>2
<1>8. ASSUME pc \in Installing, Install, UNCHANGED <<levels, ref>>, NEW b \in Arrays,
             main' = [main EXCEPT ![b] = Evaluated(g_tp', wires, ip)]
      PROVE  Installed'
  <2>1. g_tp' \in Installable
    BY <1>8, InstallRight
  <2>2. main'[b].tech = g_tp' /\ \A a \in Arrays : a # b => main'[a] = main[a]
    BY <1>1, <1>2, <1>8 DEF ResultPair
  <2>3. \A a \in Arrays : main'[a] # Null => main'[a].tech \in Installable
    BY <2>1, <2>2 DEF Installed
  <2> QED BY <1>8, <2>1, <2>3 DEF Installed
<1>9. CASE SolveTag
  <2>1. pc \in Installing /\ Install /\ UNCHANGED <<levels, ref>>
    BY <1>9 DEF SolveTag, Installing
  <2>2. CASE HasTag
    <3>1. main' = [main EXCEPT !["tag"] = Evaluated(g_tp', wires, ip)]
      BY <1>9, <2>2 DEF SolveTag
    <3> QED BY <1>8, <2>1, <3>1, ArraysTwo
  <2>3. CASE ~ HasTag
    <3>1. main' = main
      BY <1>9, <2>3 DEF SolveTag
    <3> QED BY <1>4, <2>1, <3>1
  <2> QED BY <2>2, <2>3
<1>10. CASE SolveData
  <2>1. /\ pc \in Installing /\ Install /\ UNCHANGED <<levels, ref>>
        /\ main' = [main EXCEPT !["data"] = Evaluated(g_tp', wires, ip)]
    BY <1>10 DEF SolveData, Installing
  <2> QED BY <1>8, <2>1, ArraysTwo
<1>11. CASE DvsLevel
  <2> DEFINE new == [a \in Arrays |-> IF main[a] = Null THEN Null
                                      ELSE Evaluated(g_tp', wires', ip')]
  <2>1. /\ pc \in Installing /\ Install /\ UNCHANGED <<main, ref>>
        /\ levels' = Append(levels, new)
    BY <1>11 DEF DvsLevel, Installing
  <2>2. g_tp' \in Installable
    BY <2>1, InstallRight
  <2>3. \A a \in Arrays : new[a] # Null => new[a].tech \in Installable
    BY <1>2, <2>2
  <2> HIDE DEF new
  <2>4. /\ DOMAIN levels' = DOMAIN levels \cup {Len(levels) + 1}
        /\ levels'[Len(levels) + 1] = new
        /\ \A j \in DOMAIN levels : levels'[j] = levels[j]
    BY <1>1, <2>1
  <2>5. ASSUME NEW j \in DOMAIN levels', NEW a \in Arrays, levels'[j][a] # Null
        PROVE  levels'[j][a].tech \in Installable
    <3>1. CASE j \in DOMAIN levels
      BY <2>4, <2>5, <3>1 DEF Installed
    <3>2. CASE j = Len(levels) + 1
      BY <2>3, <2>4, <2>5, <3>2
    <3> QED BY <2>4, <2>5, <3>1, <3>2
  <2> QED BY <2>1, <2>2, <2>5 DEF Installed
<1>12. CASE Pg
  <2> DEFINE new == [a \in Arrays |-> IF main[a] = Null THEN Null
                                      ELSE Evaluated(g_tp, wires', ip')]
  <2>1. pc = "pg" /\ UNCHANGED <<g_tp, main, levels>> /\ ref' = new
    BY <1>12 DEF Pg
  <2>2. g_tp \in Installable
    BY <2>1 DEF Installed
  <2>3. \A a \in Arrays : new[a] # Null => new[a].tech \in Installable
    BY <1>2, <2>2
  <2> HIDE DEF new
  <2> QED BY <2>1, <2>2, <2>3 DEF Installed
<1>13. CASE AskAgain
  <2>1. pc' = "check" /\ main' = NoArrays /\ levels' = <<>> /\ ref' = Null
    BY <1>13 DEF AskAgain
  <2>2. DOMAIN levels' = {} /\ \A a \in Arrays : main'[a] = Null
    BY <2>1 DEF NoArrays
  <2> QED BY <2>1, <2>2 DEF Installed
<1> QED BY <1>6, <1>7, <1>9, <1>10, <1>11, <1>12, <1>13 DEF Next, Halt

(* Every technology in place or behind a result was installed.             *)
THEOREM InstalledInvariance == Spec => []Installed
<1>1. Init => Installed
  BY DEF Init, Installed, NoArrays
<1>2. IInv /\ Installed /\ [Next]_vars => Installed'
  BY InstalledStep
<1> QED BY <1>1, <1>2, Invariance, PTL DEF Spec

(* Every evaluation is a result, and of such a technology.                 *)
LEMMA EvaluatedInstalled ==
  ASSUME IInv, Installed, NEW r \in Evaluations
  PROVE  r \in Result /\ r.tech \in Installable
<1>1. /\ main \in ResultPair /\ levels \in Seq(ResultPair)
      /\ (ref = Null \/ ref \in ResultPair)
  BY DEF IInv, TypeOK
<1> DEFINE S == {main} \cup Range(levels) \cup (IF ref = Null THEN {} ELSE {ref})
<1> DEFINE U == UNION {{pair[a] : a \in Arrays} : pair \in S}
<1>6. Evaluations = U \ {Null}
  BY DEF Evaluations
<1>7. ASSUME NEW pair \in S
      PROVE  pair = main \/ pair \in Range(levels) \/ (pair = ref /\ ref # Null)
  OBVIOUS
<1> HIDE DEF S
<1>8. \A v \in U : \E pair \in S, a \in Arrays : v = pair[a]
  OBVIOUS
<1> HIDE DEF U
<1>2. PICK pair \in S, a \in Arrays : r = pair[a] /\ r # Null
  BY <1>6, <1>8
<1>3. CASE pair = main
  BY <1>1, <1>2, <1>3 DEF Installed, ResultPair
<1>4. CASE pair \in Range(levels)
  <2>1. PICK j \in DOMAIN levels : pair = levels[j]
    BY <1>4 DEF Range
  <2>2. pair \in ResultPair
    BY <1>1, <2>1
  <2> QED BY <1>2, <2>1, <2>2 DEF Installed, ResultPair
<1>5. CASE pair = ref /\ ref # Null
  BY <1>1, <1>2, <1>5 DEF Installed, ResultPair
<1> QED BY <1>3, <1>4, <1>5, <1>7

(* init_tech_params(): every field the circuits of a result read has the   *)
(* values of the result's own nodes and voltages, whatever was installed   *)
(* before it and whatever is asked for.                                    *)
THEOREM OwnParametersCorrect == Spec => []OwnParameters
<1>1. ASSUME IInv, Installed PROVE OwnParameters
  <2> SUFFICES ASSUME NEW r \in Evaluations PROVE FieldsOwn(r.tech, r.gated)
    BY DEF OwnParameters
  <2>1. r.tech \in TechType /\ Supported(r.tech)
    BY <1>1, EvaluatedInstalled DEF Installable, MayInstall
  <2> QED BY <2>1, AllFieldsOwn
<1> QED BY <1>1, Invariance, InstalledInvariance, PTL

-----------------------------------------------------------------------------
(* What a node's row says: a supply a fourth of which can be spared, above *)
(* the threshold of the node's sleep transistors too, and leakage that     *)
(* grows with the temperature.                                             *)
Rising(leakage) ==
  /\ \A j \in 1 .. 11 : leakage[j] \in Nat
  /\ \A j \in 1 .. 10 : leakage[j] < leakage[j + 1]

Driving(node, f) ==
  LET b == Itrs(node)[f] IN
  /\ b.vdd \in Nat \ {0} /\ b.v_th \in Nat /\ 4 * b.v_th < 3 * b.vdd
  /\ <<node, f>> \notin {<<90, itrs_lop>>, <<22, itrs_lstp>>} => Rising(b.I_off_n)
  /\ node # 180 => Itrs(node)[itrs_lstp].v_th < b.vdd

(* The row of 180 nm.                                                      *)
LEMMA Driving180 == Driving(180, 0)
<1>1. Driving(180, 0)
  <2>1. Itrs(180) = itrs_180
    BY DEF Itrs
  <2>2. /\ itrs_180[0].vdd \in Nat \ {0} /\ itrs_180[0].v_th \in Nat
        /\ 4 * itrs_180[0].v_th < 3 * itrs_180[0].vdd
    BY DEF itrs_180, Block, itrs_hp, :>
  <2>3. Rising(itrs_180[0].I_off_n)
    BY DEF Rising, itrs_180, Block, itrs_hp, :>
  <2> QED BY <2>1, <2>2, <2>3 DEF Driving
<1> QED BY <1>1

(* The rows of 90 nm; that of itrs_lop is misprinted.                      *)
LEMMA Driving90 == Driving(90, 0) /\ Driving(90, 1) /\ Driving(90, 2)
<1>1. Driving(90, 0)
  <2>1. Itrs(90) = itrs_90
    BY DEF Itrs
  <2>2. /\ itrs_90[0].vdd \in Nat \ {0} /\ itrs_90[0].v_th \in Nat
        /\ 4 * itrs_90[0].v_th < 3 * itrs_90[0].vdd
    BY DEF itrs_90, Block, itrs_hp, itrs_lstp, itrs_lop, @@, :>
  <2>3. Rising(itrs_90[0].I_off_n)
    BY DEF Rising, itrs_90, Block, itrs_hp, itrs_lstp, itrs_lop, @@, :>
  <2>4. itrs_90[itrs_lstp].v_th < itrs_90[0].vdd
    BY DEF itrs_90, Block, itrs_hp, itrs_lstp, itrs_lop, @@, :>
  <2> QED BY <2>1, <2>2, <2>3, <2>4 DEF Driving
<1>2. Driving(90, 1)
  <2>1. Itrs(90) = itrs_90
    BY DEF Itrs
  <2>2. /\ itrs_90[1].vdd \in Nat \ {0} /\ itrs_90[1].v_th \in Nat
        /\ 4 * itrs_90[1].v_th < 3 * itrs_90[1].vdd
    BY DEF itrs_90, Block, itrs_hp, itrs_lstp, itrs_lop, @@, :>
  <2>3. Rising(itrs_90[1].I_off_n)
    BY DEF Rising, itrs_90, Block, itrs_hp, itrs_lstp, itrs_lop, @@, :>
  <2>4. itrs_90[itrs_lstp].v_th < itrs_90[1].vdd
    BY DEF itrs_90, Block, itrs_hp, itrs_lstp, itrs_lop, @@, :>
  <2> QED BY <2>1, <2>2, <2>3, <2>4 DEF Driving
<1>3. Driving(90, 2)
  <2>1. Itrs(90) = itrs_90
    BY DEF Itrs
  <2>2. /\ itrs_90[2].vdd \in Nat \ {0} /\ itrs_90[2].v_th \in Nat
        /\ 4 * itrs_90[2].v_th < 3 * itrs_90[2].vdd
    BY DEF itrs_90, Block, itrs_hp, itrs_lstp, itrs_lop, @@, :>
  <2>3. <<90, 2>> \in {<<90, itrs_lop>>, <<22, itrs_lstp>>}
    BY DEF itrs_lop, itrs_lstp
  <2>4. itrs_90[itrs_lstp].v_th < itrs_90[2].vdd
    BY DEF itrs_90, Block, itrs_hp, itrs_lstp, itrs_lop, @@, :>
  <2> QED BY <2>1, <2>2, <2>3, <2>4 DEF Driving
<1> QED BY <1>1, <1>2, <1>3

(* The rows of 65 nm.                                                      *)
LEMMA Driving65 == Driving(65, 0) /\ Driving(65, 1) /\ Driving(65, 2)
<1>1. Driving(65, 0)
  <2>1. Itrs(65) = itrs_65
    BY DEF Itrs
  <2>2. /\ itrs_65[0].vdd \in Nat \ {0} /\ itrs_65[0].v_th \in Nat
        /\ 4 * itrs_65[0].v_th < 3 * itrs_65[0].vdd
    BY DEF itrs_65, Block, itrs_hp, itrs_lstp, itrs_lop, @@, :>
  <2>3. Rising(itrs_65[0].I_off_n)
    BY DEF Rising, itrs_65, Block, itrs_hp, itrs_lstp, itrs_lop, @@, :>
  <2>4. itrs_65[itrs_lstp].v_th < itrs_65[0].vdd
    BY DEF itrs_65, Block, itrs_hp, itrs_lstp, itrs_lop, @@, :>
  <2> QED BY <2>1, <2>2, <2>3, <2>4 DEF Driving
<1>2. Driving(65, 1)
  <2>1. Itrs(65) = itrs_65
    BY DEF Itrs
  <2>2. /\ itrs_65[1].vdd \in Nat \ {0} /\ itrs_65[1].v_th \in Nat
        /\ 4 * itrs_65[1].v_th < 3 * itrs_65[1].vdd
    BY DEF itrs_65, Block, itrs_hp, itrs_lstp, itrs_lop, @@, :>
  <2>3. Rising(itrs_65[1].I_off_n)
    BY DEF Rising, itrs_65, Block, itrs_hp, itrs_lstp, itrs_lop, @@, :>
  <2>4. itrs_65[itrs_lstp].v_th < itrs_65[1].vdd
    BY DEF itrs_65, Block, itrs_hp, itrs_lstp, itrs_lop, @@, :>
  <2> QED BY <2>1, <2>2, <2>3, <2>4 DEF Driving
<1>3. Driving(65, 2)
  <2>1. Itrs(65) = itrs_65
    BY DEF Itrs
  <2>2. /\ itrs_65[2].vdd \in Nat \ {0} /\ itrs_65[2].v_th \in Nat
        /\ 4 * itrs_65[2].v_th < 3 * itrs_65[2].vdd
    BY DEF itrs_65, Block, itrs_hp, itrs_lstp, itrs_lop, @@, :>
  <2>3. Rising(itrs_65[2].I_off_n)
    BY DEF Rising, itrs_65, Block, itrs_hp, itrs_lstp, itrs_lop, @@, :>
  <2>4. itrs_65[itrs_lstp].v_th < itrs_65[2].vdd
    BY DEF itrs_65, Block, itrs_hp, itrs_lstp, itrs_lop, @@, :>
  <2> QED BY <2>1, <2>2, <2>3, <2>4 DEF Driving
<1> QED BY <1>1, <1>2, <1>3

(* The rows of 45 nm.                                                      *)
LEMMA Driving45 == Driving(45, 0) /\ Driving(45, 1) /\ Driving(45, 2)
<1>1. Driving(45, 0)
  <2>1. Itrs(45) = itrs_45
    BY DEF Itrs
  <2>2. /\ itrs_45[0].vdd \in Nat \ {0} /\ itrs_45[0].v_th \in Nat
        /\ 4 * itrs_45[0].v_th < 3 * itrs_45[0].vdd
    BY DEF itrs_45, Block, itrs_hp, itrs_lstp, itrs_lop, @@, :>
  <2>3. Rising(itrs_45[0].I_off_n)
    BY DEF Rising, itrs_45, Block, itrs_hp, itrs_lstp, itrs_lop, @@, :>
  <2>4. itrs_45[itrs_lstp].v_th < itrs_45[0].vdd
    BY DEF itrs_45, Block, itrs_hp, itrs_lstp, itrs_lop, @@, :>
  <2> QED BY <2>1, <2>2, <2>3, <2>4 DEF Driving
<1>2. Driving(45, 1)
  <2>1. Itrs(45) = itrs_45
    BY DEF Itrs
  <2>2. /\ itrs_45[1].vdd \in Nat \ {0} /\ itrs_45[1].v_th \in Nat
        /\ 4 * itrs_45[1].v_th < 3 * itrs_45[1].vdd
    BY DEF itrs_45, Block, itrs_hp, itrs_lstp, itrs_lop, @@, :>
  <2>3. Rising(itrs_45[1].I_off_n)
    BY DEF Rising, itrs_45, Block, itrs_hp, itrs_lstp, itrs_lop, @@, :>
  <2>4. itrs_45[itrs_lstp].v_th < itrs_45[1].vdd
    BY DEF itrs_45, Block, itrs_hp, itrs_lstp, itrs_lop, @@, :>
  <2> QED BY <2>1, <2>2, <2>3, <2>4 DEF Driving
<1>3. Driving(45, 2)
  <2>1. Itrs(45) = itrs_45
    BY DEF Itrs
  <2>2. /\ itrs_45[2].vdd \in Nat \ {0} /\ itrs_45[2].v_th \in Nat
        /\ 4 * itrs_45[2].v_th < 3 * itrs_45[2].vdd
    BY DEF itrs_45, Block, itrs_hp, itrs_lstp, itrs_lop, @@, :>
  <2>3. Rising(itrs_45[2].I_off_n)
    BY DEF Rising, itrs_45, Block, itrs_hp, itrs_lstp, itrs_lop, @@, :>
  <2>4. itrs_45[itrs_lstp].v_th < itrs_45[2].vdd
    BY DEF itrs_45, Block, itrs_hp, itrs_lstp, itrs_lop, @@, :>
  <2> QED BY <2>1, <2>2, <2>3, <2>4 DEF Driving
<1> QED BY <1>1, <1>2, <1>3

(* The rows of 32 nm.                                                      *)
LEMMA Driving32 == Driving(32, 0) /\ Driving(32, 1) /\ Driving(32, 2)
<1>1. Driving(32, 0)
  <2>1. Itrs(32) = itrs_32
    BY DEF Itrs
  <2>2. /\ itrs_32[0].vdd \in Nat \ {0} /\ itrs_32[0].v_th \in Nat
        /\ 4 * itrs_32[0].v_th < 3 * itrs_32[0].vdd
    BY DEF itrs_32, Block, itrs_hp, itrs_lstp, itrs_lop, @@, :>
  <2>3. Rising(itrs_32[0].I_off_n)
    BY DEF Rising, itrs_32, Block, itrs_hp, itrs_lstp, itrs_lop, @@, :>
  <2>4. itrs_32[itrs_lstp].v_th < itrs_32[0].vdd
    BY DEF itrs_32, Block, itrs_hp, itrs_lstp, itrs_lop, @@, :>
  <2> QED BY <2>1, <2>2, <2>3, <2>4 DEF Driving
<1>2. Driving(32, 1)
  <2>1. Itrs(32) = itrs_32
    BY DEF Itrs
  <2>2. /\ itrs_32[1].vdd \in Nat \ {0} /\ itrs_32[1].v_th \in Nat
        /\ 4 * itrs_32[1].v_th < 3 * itrs_32[1].vdd
    BY DEF itrs_32, Block, itrs_hp, itrs_lstp, itrs_lop, @@, :>
  <2>3. Rising(itrs_32[1].I_off_n)
    BY DEF Rising, itrs_32, Block, itrs_hp, itrs_lstp, itrs_lop, @@, :>
  <2>4. itrs_32[itrs_lstp].v_th < itrs_32[1].vdd
    BY DEF itrs_32, Block, itrs_hp, itrs_lstp, itrs_lop, @@, :>
  <2> QED BY <2>1, <2>2, <2>3, <2>4 DEF Driving
<1>3. Driving(32, 2)
  <2>1. Itrs(32) = itrs_32
    BY DEF Itrs
  <2>2. /\ itrs_32[2].vdd \in Nat \ {0} /\ itrs_32[2].v_th \in Nat
        /\ 4 * itrs_32[2].v_th < 3 * itrs_32[2].vdd
    BY DEF itrs_32, Block, itrs_hp, itrs_lstp, itrs_lop, @@, :>
  <2>3. Rising(itrs_32[2].I_off_n)
    BY DEF Rising, itrs_32, Block, itrs_hp, itrs_lstp, itrs_lop, @@, :>
  <2>4. itrs_32[itrs_lstp].v_th < itrs_32[2].vdd
    BY DEF itrs_32, Block, itrs_hp, itrs_lstp, itrs_lop, @@, :>
  <2> QED BY <2>1, <2>2, <2>3, <2>4 DEF Driving
<1> QED BY <1>1, <1>2, <1>3

(* The rows of 22 nm; that of itrs_lstp is misprinted.                     *)
LEMMA Driving22 == Driving(22, 0) /\ Driving(22, 1) /\ Driving(22, 2)
<1>1. Driving(22, 0)
  <2>1. Itrs(22) = itrs_22
    BY DEF Itrs
  <2>2. /\ itrs_22[0].vdd \in Nat \ {0} /\ itrs_22[0].v_th \in Nat
        /\ 4 * itrs_22[0].v_th < 3 * itrs_22[0].vdd
    BY DEF itrs_22, Block, itrs_hp, itrs_lstp, itrs_lop, @@, :>
  <2>3. Rising(itrs_22[0].I_off_n)
    BY DEF Rising, itrs_22, Block, itrs_hp, itrs_lstp, itrs_lop, @@, :>
  <2>4. itrs_22[itrs_lstp].v_th < itrs_22[0].vdd
    BY DEF itrs_22, Block, itrs_hp, itrs_lstp, itrs_lop, @@, :>
  <2> QED BY <2>1, <2>2, <2>3, <2>4 DEF Driving
<1>2. Driving(22, 1)
  <2>1. Itrs(22) = itrs_22
    BY DEF Itrs
  <2>2. /\ itrs_22[1].vdd \in Nat \ {0} /\ itrs_22[1].v_th \in Nat
        /\ 4 * itrs_22[1].v_th < 3 * itrs_22[1].vdd
    BY DEF itrs_22, Block, itrs_hp, itrs_lstp, itrs_lop, @@, :>
  <2>3. <<22, 1>> \in {<<90, itrs_lop>>, <<22, itrs_lstp>>}
    BY DEF itrs_lop, itrs_lstp
  <2>4. itrs_22[itrs_lstp].v_th < itrs_22[1].vdd
    BY DEF itrs_22, Block, itrs_hp, itrs_lstp, itrs_lop, @@, :>
  <2> QED BY <2>1, <2>2, <2>3, <2>4 DEF Driving
<1>3. Driving(22, 2)
  <2>1. Itrs(22) = itrs_22
    BY DEF Itrs
  <2>2. /\ itrs_22[2].vdd \in Nat \ {0} /\ itrs_22[2].v_th \in Nat
        /\ 4 * itrs_22[2].v_th < 3 * itrs_22[2].vdd
    BY DEF itrs_22, Block, itrs_hp, itrs_lstp, itrs_lop, @@, :>
  <2>3. Rising(itrs_22[2].I_off_n)
    BY DEF Rising, itrs_22, Block, itrs_hp, itrs_lstp, itrs_lop, @@, :>
  <2>4. itrs_22[itrs_lstp].v_th < itrs_22[2].vdd
    BY DEF itrs_22, Block, itrs_hp, itrs_lstp, itrs_lop, @@, :>
  <2> QED BY <2>1, <2>2, <2>3, <2>4 DEF Driving
<1> QED BY <1>1, <1>2, <1>3

(* Every row of the ITRS tables.                                           *)
LEMMA AllDriving ==
  \A node \in {180, 90, 65, 45, 32, 22} : \A f \in DOMAIN Itrs(node) : Driving(node, f)
  BY ItrsRows, Driving180, Driving90, Driving65, Driving45, Driving32, Driving22

Cells(node, f) ==
  LET c == DramCell(node)[f] IN
  c.vpp \in Nat /\ c.acc_vth \in Nat /\ c.acc_vth < c.vpp /\ Rising(c.I_off_n)

(* Every row of the DRAM tables.                                           *)
LEMMA AllCells ==
  \A node \in {90, 65, 45, 32, 22} : \A f \in DOMAIN DramCell(node) : Cells(node, f)
<1>1. Cells(90, 3)
  <2>1. DramCell(90) = dram_90
    BY DEF DramCell
  <2>2. /\ dram_90[3].vpp \in Nat /\ dram_90[3].acc_vth \in Nat
        /\ dram_90[3].acc_vth < dram_90[3].vpp
    BY DEF dram_90, Cell, lp_dram, comm_dram, @@, :>
  <2>3. Rising(dram_90[3].I_off_n)
    BY DEF Rising, dram_90, Cell, lp_dram, comm_dram, @@, :>
  <2> QED BY <2>1, <2>2, <2>3 DEF Cells
<1>2. Cells(90, 4)
  <2>1. DramCell(90) = dram_90
    BY DEF DramCell
  <2>2. /\ dram_90[4].vpp \in Nat /\ dram_90[4].acc_vth \in Nat
        /\ dram_90[4].acc_vth < dram_90[4].vpp
    BY DEF dram_90, Cell, lp_dram, comm_dram, @@, :>
  <2>3. Rising(dram_90[4].I_off_n)
    BY DEF Rising, dram_90, Cell, lp_dram, comm_dram, @@, :>
  <2> QED BY <2>1, <2>2, <2>3 DEF Cells
<1>3. Cells(65, 3)
  <2>1. DramCell(65) = dram_65
    BY DEF DramCell
  <2>2. /\ dram_65[3].vpp \in Nat /\ dram_65[3].acc_vth \in Nat
        /\ dram_65[3].acc_vth < dram_65[3].vpp
    BY DEF dram_65, Cell, lp_dram, comm_dram, @@, :>
  <2>3. Rising(dram_65[3].I_off_n)
    BY DEF Rising, dram_65, Cell, lp_dram, comm_dram, @@, :>
  <2> QED BY <2>1, <2>2, <2>3 DEF Cells
<1>4. Cells(65, 4)
  <2>1. DramCell(65) = dram_65
    BY DEF DramCell
  <2>2. /\ dram_65[4].vpp \in Nat /\ dram_65[4].acc_vth \in Nat
        /\ dram_65[4].acc_vth < dram_65[4].vpp
    BY DEF dram_65, Cell, lp_dram, comm_dram, @@, :>
  <2>3. Rising(dram_65[4].I_off_n)
    BY DEF Rising, dram_65, Cell, lp_dram, comm_dram, @@, :>
  <2> QED BY <2>1, <2>2, <2>3 DEF Cells
<1>5. Cells(45, 3)
  <2>1. DramCell(45) = dram_45
    BY DEF DramCell
  <2>2. /\ dram_45[3].vpp \in Nat /\ dram_45[3].acc_vth \in Nat
        /\ dram_45[3].acc_vth < dram_45[3].vpp
    BY DEF dram_45, Cell, lp_dram, comm_dram, @@, :>
  <2>3. Rising(dram_45[3].I_off_n)
    BY DEF Rising, dram_45, Cell, lp_dram, comm_dram, @@, :>
  <2> QED BY <2>1, <2>2, <2>3 DEF Cells
<1>6. Cells(45, 4)
  <2>1. DramCell(45) = dram_45
    BY DEF DramCell
  <2>2. /\ dram_45[4].vpp \in Nat /\ dram_45[4].acc_vth \in Nat
        /\ dram_45[4].acc_vth < dram_45[4].vpp
    BY DEF dram_45, Cell, lp_dram, comm_dram, @@, :>
  <2>3. Rising(dram_45[4].I_off_n)
    BY DEF Rising, dram_45, Cell, lp_dram, comm_dram, @@, :>
  <2> QED BY <2>1, <2>2, <2>3 DEF Cells
<1>7. Cells(32, 3)
  <2>1. DramCell(32) = dram_32
    BY DEF DramCell
  <2>2. /\ dram_32[3].vpp \in Nat /\ dram_32[3].acc_vth \in Nat
        /\ dram_32[3].acc_vth < dram_32[3].vpp
    BY DEF dram_32, Cell, lp_dram, comm_dram, @@, :>
  <2>3. Rising(dram_32[3].I_off_n)
    BY DEF Rising, dram_32, Cell, lp_dram, comm_dram, @@, :>
  <2> QED BY <2>1, <2>2, <2>3 DEF Cells
<1>8. Cells(32, 4)
  <2>1. DramCell(32) = dram_32
    BY DEF DramCell
  <2>2. /\ dram_32[4].vpp \in Nat /\ dram_32[4].acc_vth \in Nat
        /\ dram_32[4].acc_vth < dram_32[4].vpp
    BY DEF dram_32, Cell, lp_dram, comm_dram, @@, :>
  <2>3. Rising(dram_32[4].I_off_n)
    BY DEF Rising, dram_32, Cell, lp_dram, comm_dram, @@, :>
  <2> QED BY <2>1, <2>2, <2>3 DEF Cells
<1>9. Cells(22, 4)
  <2>1. DramCell(22) = dram_22
    BY DEF DramCell
  <2>2. /\ dram_22[4].vpp \in Nat /\ dram_22[4].acc_vth \in Nat
        /\ dram_22[4].acc_vth < dram_22[4].vpp
    BY DEF dram_22, Cell, comm_dram, :>
  <2>3. Rising(dram_22[4].I_off_n)
    BY DEF Rising, dram_22, Cell, comm_dram, :>
  <2> QED BY <2>1, <2>2, <2>3 DEF Cells
<1> QED BY <1>1, <1>2, <1>3, <1>4, <1>5, <1>6, <1>7, <1>8, <1>9, CellRows

(* A sum over the passes is one of positive shares.                        *)
Share1(t) == IF Exact(t.nm) THEN 1 ELSE Shares(t.nm)[1]
Share2(t) == IF Exact(t.nm) THEN 0 ELSE Shares(t.nm)[2]
Node1(t) == Passes(t.nm)[1]
Node2(t) == IF Exact(t.nm) THEN Passes(t.nm)[1] ELSE Passes(t.nm)[2]

(* A sum is that of the two nodes, the second of which counts nothing at a *)
(* node.                                                                   *)
LEMMA AddedIs ==
  ASSUME NEW t, t.nm \in 22 .. 180
  PROVE  /\ Share1(t) \in Nat \ {0} /\ Share2(t) \in Nat
         /\ Node1(t) \in PassNodes(t) /\ Node2(t) \in PassNodes(t)
         /\ \A v : v[Node1(t)] \in Int /\ v[Node2(t)] \in Int =>
                  Added(t, v) = Share1(t) * v[Node1(t)] + Share2(t) * v[Node2(t)]
<1> DEFINE n == Passes(t.nm)
           Goal == /\ Share1(t) \in Nat \ {0} /\ Share2(t) \in Nat
                   /\ Node1(t) \in PassNodes(t) /\ Node2(t) \in PassNodes(t)
                   /\ \A v : v[Node1(t)] \in Int /\ v[Node2(t)] \in Int =>
                        Added(t, v) = Share1(t) * v[Node1(t)] + Share2(t) * v[Node2(t)]
<1> SUFFICES Goal
  OBVIOUS
<1>1. CASE OnNode(t.nm)
  <2>1. Len(n) = 1 /\ n[1] \in PassNodes(t) /\ Exact(t.nm)
    BY <1>1 DEF OnNode, PassNodes
  <2>2. Share1(t) = 1 /\ Share2(t) = 0 /\ Node1(t) = n[1] /\ Node2(t) = n[1]
    BY <2>1 DEF Share1, Share2, Node1, Node2
  <2>3. \A v : Added(t, v) = v[n[1]]
    BY <2>1 DEF Added
  <2> HIDE DEF n
  <2> QED BY <2>1, <2>2, <2>3
<1>2. ASSUME NEW a \in Nat, NEW b \in Nat, Amid(t.nm, a, b)
      PROVE  Goal
  <2>1. n = <<a, b>> /\ ~ Exact(t.nm) /\ b < t.nm /\ t.nm < a
    BY <1>2 DEF Amid
  <2>2. Len(n) = 2 /\ n[1] = a /\ n[2] = b /\ a \in PassNodes(t) /\ b \in PassNodes(t)
    BY <2>1 DEF PassNodes
  <2>3. Shares(t.nm)[1] = t.nm - b /\ Shares(t.nm)[2] = a - t.nm
    BY <2>1, <2>2 DEF Shares
  <2>4. Share1(t) = t.nm - b /\ Share2(t) = a - t.nm /\ Node1(t) = a /\ Node2(t) = b
    BY <2>1, <2>2, <2>3 DEF Share1, Share2, Node1, Node2
  <2>5. \A v : Added(t, v) = Share1(t) * v[Node1(t)] + Share2(t) * v[Node2(t)]
    BY <2>2, <2>3, <2>4 DEF Added
  <2>6. Share1(t) \in Nat \ {0} /\ Share2(t) \in Nat
    BY <2>1, <2>4
  <2>7. Node1(t) \in PassNodes(t) /\ Node2(t) \in PassNodes(t)
    BY <2>2, <2>4
  <2> QED BY <2>5, <2>6, <2>7
<1> HIDE DEF Goal
<1>3. /\ Amid(t.nm, 180, 90) => Goal
      /\ Amid(t.nm, 90, 65) => Goal
      /\ Amid(t.nm, 65, 45) => Goal
      /\ Amid(t.nm, 45, 32) => Goal
      /\ Amid(t.nm, 32, 22) => Goal
  BY <1>2
<1> QED BY <1>1, <1>3, PassesAre

(* What holds of every node holds of their sum.                            *)
LEMMA AddedLess ==
  ASSUME NEW t, t.nm \in 22 .. 180, NEW c \in Nat, NEW d \in Nat, NEW u, NEW v,
         \A node \in PassNodes(t) :
           u[node] \in Int /\ v[node] \in Int /\ c * u[node] < d * v[node]
  PROVE  Added(t, u) \in Int /\ Added(t, v) \in Int /\ c * Added(t, u) < d * Added(t, v)
<1> DEFINE u1 == u[Node1(t)]  u2 == u[Node2(t)]  v1 == v[Node1(t)]  v2 == v[Node2(t)]
           s1 == Share1(t)  s2 == Share2(t)
<1>1. /\ u1 \in Int /\ u2 \in Int /\ v1 \in Int /\ v2 \in Int
      /\ c * u1 < d * v1 /\ c * u2 < d * v2
  BY AddedIs
<1>2. s1 \in Nat \ {0} /\ s2 \in Nat
  BY AddedIs
<1>3. Added(t, u) = s1 * u1 + s2 * u2 /\ Added(t, v) = s1 * v1 + s2 * v2
  BY <1>1, AddedIs
<1> HIDE DEF u1, u2, v1, v2, s1, s2
<1>4. \A p, q \in Int : p < q => \A z \in Nat : z * p <= z * q /\ (z > 0 => z * p < z * q)
  OBVIOUS
<1> DEFINE p1 == c * u1  p2 == c * u2  q1 == d * v1  q2 == d * v2
<1>5. p1 \in Int /\ p2 \in Int /\ q1 \in Int /\ q2 \in Int /\ p1 < q1 /\ p2 < q2
  BY <1>1
<1>6. /\ c * (s1 * u1 + s2 * u2) = s1 * p1 + s2 * p2
      /\ d * (s1 * v1 + s2 * v2) = s1 * q1 + s2 * q2
  BY <1>1, <1>2
<1> HIDE DEF p1, p2, q1, q2
<1>7. s1 * p1 < s1 * q1 /\ s2 * p2 <= s2 * q2
  BY <1>2, <1>4, <1>5
<1>8. s1 * p1 + s2 * p2 < s1 * q1 + s2 * q2
  BY <1>2, <1>5, <1>7
<1> QED BY <1>1, <1>2, <1>3, <1>6, <1>8

-----------------------------------------------------------------------------
(* The nodes of a size have rows for a device type in all tables or not.   *)
LEMMA EveryNode ==
  ASSUME NEW t, t.nm \in 22 .. 180, NEW node \in PassNodes(t)
  PROVE  node \in {180, 90, 65, 45, 32, 22}
  BY PassNode DEF PassNodes

(* A device type in the tables of all passes is in that of each.           *)
LEMMA EveryItrs ==
  ASSUME NEW t, NEW f, InEvery(t, Itrs, f), NEW node \in PassNodes(t)
  PROVE  f \in DOMAIN Itrs(node)
  BY DEF PassNodes, InEvery

(* A cell in the tables of all passes is in that of each.                  *)
LEMMA EveryCell ==
  ASSUME NEW t, NEW f, InEvery(t, DramCell, f), NEW node \in PassNodes(t)
  PROVE  f \in DOMAIN DramCell(node)
  BY DEF PassNodes, InEvery

(* Its rows are as above.                                                  *)
LEMMA EveryDriving ==
  ASSUME NEW t, t.nm \in 22 .. 180, NEW f, InEvery(t, Itrs, f), NEW node \in PassNodes(t)
  PROVE  Driving(node, f)
<1>1. node \in {180, 90, 65, 45, 32, 22}
  BY EveryNode
<1>2. f \in DOMAIN Itrs(node)
  BY EveryItrs
<1> QED BY <1>1, <1>2, AllDriving

(* Its supply is assigned.                                                 *)
LEMMA VddDefined ==
  ASSUME NEW t, t.nm \in 22 .. 180, NEW f, InEvery(t, Itrs, f)
  PROVE  ~ Undefined(t, "vdd", f)
<1> SUFFICES ASSUME NEW p \in DOMAIN Passes(t.nm) PROVE Writer(t, p, "vdd", f) # 0
  BY DEF Undefined
<1>1. p \in Nat \ {0} /\ "vdd" \in ItrsArrays
  BY PassNode DEF ItrsArrays
<1>2. Writes(t, Passes(t.nm)[p], "vdd", f)
  BY <1>1 DEF Writes, InEvery
<1> QED BY <1>1, <1>2, WriterIs

(* The supplies are positive sums.                                         *)
LEMMA VoltsTyped ==
  ASSUME NEW t \in TechType, Supported(t), NEW f \in 0 .. 4, InEvery(t, Itrs, f)
  PROVE  /\ Vdd(t, f) \in Int /\ Vdd_default(t, f) \in Int /\ Vth(t, f) \in Int
         /\ 4 * Vth(t, f) < 3 * Vdd_default(t, f)
<1>1. t.nm \in 22 .. 180
  BY DEF Supported
<1> DEFINE vd == [node \in PassNodes(t) |-> Itrs(node)[f].vdd]
           vt == [node \in PassNodes(t) |-> Itrs(node)[f].v_th]
           vr == [node \in PassNodes(t) |-> vdd_real(t, node, f)]
<1>2. f \in {0, 1, 2}
  <2>1. Node1(t) \in PassNodes(t)
    BY <1>1, AddedIs
  <2>2. Node1(t) \in {180, 90, 65, 45, 32, 22} /\ f \in DOMAIN Itrs(Node1(t))
    BY <1>1, <2>1, EveryNode, EveryItrs
  <2> QED BY <2>2, ItrsRows
<1>3. t.volts[f] \in Int
  <2>1. t.volts \in [0 .. 2 -> Voltages \cup {Default}]
    BY DEF TechType, Volts, itrs_hp, itrs_lop
  <2>2. t.volts[f] \in Voltages \cup {Default}
    BY <1>2, <2>1
  <2>3. \A v \in Voltages : v \in Nat
    BY InterfaceAssumption
  <2> QED BY <2>2, <2>3 DEF Default
<1>4. \A node \in PassNodes(t) :
        /\ Itrs(node)[f].vdd \in Nat \ {0} /\ Itrs(node)[f].v_th \in Nat
        /\ 4 * Itrs(node)[f].v_th < 3 * Itrs(node)[f].vdd
  BY <1>1, EveryDriving DEF Driving
<1>5. \A node \in PassNodes(t) : vdd_real(t, node, f) \in Int
  BY <1>3, <1>4 DEF vdd_real
<1>6. \A node \in PassNodes(t) :
        /\ vd[node] \in Int /\ vt[node] \in Int /\ vr[node] \in Int
        /\ 4 * vt[node] < 3 * vd[node]
  BY <1>4, <1>5
<1>7. Vdd(t, f) = Added(t, vr) /\ Vdd_default(t, f) = Added(t, vd) /\ Vth(t, f) = Added(t, vt)
  BY DEF Vdd, Vdd_default, Vth
<1> HIDE DEF vd, vt, vr
<1>8. /\ Added(t, vt) \in Int /\ Added(t, vd) \in Int
      /\ 4 * Added(t, vt) < 3 * Added(t, vd)
  BY <1>1, <1>6, AddedLess
<1>9. Added(t, vr) \in Int
  <2>1. Share1(t) \in Int /\ Share2(t) \in Int /\ vr[Node1(t)] \in Int /\ vr[Node2(t)] \in Int
    BY <1>1, <1>6, AddedIs
  <2>2. Added(t, vr) = Share1(t) * vr[Node1(t)] + Share2(t) * vr[Node2(t)]
    BY <1>1, <2>1, AddedIs
  <2> QED BY <2>1, <2>2
<1> QED BY <1>7, <1>8, <1>9

(* A supply that passes the checks is above the threshold.                 *)
LEMMA SupplyDrives ==
  ASSUME NEW t \in TechType, MayInstall(t), ~ t.main, NEW f \in {t.ram, t.peri},
         InEvery(t, Itrs, f)
  PROVE  Vdd(t, f) > Vth(t, f)
<1>1. Supported(t) /\ t.nm \in 22 .. 180 /\ f \in 0 .. 4
  BY DEF MayInstall, Supported, TechType, DeviceTypes
<1>2. Outcomes(t, f, Less(20 * Vdd(t, f), 15 * Vdd_default(t, f))) \in Checks(t)
  BY DEF Checks, TooLow
<1>3. FALSE \in Less(20 * Vdd(t, f), 15 * Vdd_default(t, f))
  BY <1>1, <1>2, VddDefined DEF MayInstall, Outcomes
<1>4. /\ Vdd(t, f) \in Int /\ Vdd_default(t, f) \in Int /\ Vth(t, f) \in Int
      /\ 4 * Vth(t, f) < 3 * Vdd_default(t, f)
  BY <1>1, VoltsTyped
<1> DEFINE a == 20 * Vdd(t, f)
           b == 15 * Vdd_default(t, f)
<1>5. ~ (a < b)
  <2>1. a \in Int /\ b \in Int
    BY <1>4
  <2>2. FALSE \in IF a = b THEN BOOLEAN ELSE {a < b}
    BY <1>3 DEF Less
  <2> HIDE DEF a, b
  <2>3. CASE a = b
    BY <2>1, <2>3
  <2>4. CASE a # b
    <3>1. FALSE \in {a < b}
      BY <2>2, <2>4
    <3> QED BY <3>1
  <2> QED BY <2>3, <2>4
<1> QED BY <1>4, <1>5

(* The supplies of a technology that may be installed drive its circuits.  *)
LEMMA AllSuppliesDrive ==
  ASSUME NEW t \in TechType, MayInstall(t), ~ t.main, t.peri \notin Dram, NEW gated
  PROVE  SuppliesDrive(t, gated)
<1>1. Supported(t) /\ t.nm \in 22 .. 180 /\ t.ram \in 0 .. 4 /\ t.peri \in 0 .. 4
  BY DEF MayInstall, Supported, TechType, DeviceTypes
<1>2. \A f \in {t.ram, t.peri} : InEvery(t, Itrs, f) => Vdd(t, f) > Vth(t, f)
  BY SupplyDrives
<1>3. ASSUME InEvery(t, Itrs, t.peri), InEvery(t, Itrs, itrs_lstp),
             Vdd(t, t.peri) >= Vdd_default(t, t.peri)
      PROVE  Vdd(t, t.peri) > Vth(t, itrs_lstp)
  <2> DEFINE vt == [node \in PassNodes(t) |-> Itrs(node)[itrs_lstp].v_th]
             vd == [node \in PassNodes(t) |-> Itrs(node)[t.peri].vdd]
  <2>1. ASSUME NEW node \in PassNodes(t)
        PROVE  /\ Itrs(node)[itrs_lstp].v_th \in Int /\ Itrs(node)[t.peri].vdd \in Int
               /\ 1 * Itrs(node)[itrs_lstp].v_th < 1 * Itrs(node)[t.peri].vdd
    <3>1. Driving(node, t.peri) /\ Driving(node, itrs_lstp)
      BY <1>1, <1>3, EveryDriving
    <3>2. node # 180
      <4>1. itrs_lstp \in DOMAIN Itrs(node)
        BY <1>3, EveryItrs
      <4> QED BY <4>1, ItrsRows DEF itrs_lstp
    <3> QED BY <3>1, <3>2 DEF Driving
  <2>2. \A node \in PassNodes(t) :
          vt[node] \in Int /\ vd[node] \in Int /\ 1 * vt[node] < 1 * vd[node]
    BY <2>1
  <2>3. Vth(t, itrs_lstp) = Added(t, vt) /\ Vdd_default(t, t.peri) = Added(t, vd)
    BY DEF Vth, Vdd_default
  <2> HIDE DEF vt, vd
  <2>4. Added(t, vt) \in Int /\ Added(t, vd) \in Int /\ 1 * Added(t, vt) < 1 * Added(t, vd)
    BY <1>1, <2>2, AddedLess
  <2>5. Vdd(t, t.peri) \in Int
    BY <1>1, <1>3, VoltsTyped
  <2> QED BY <1>3, <2>3, <2>4, <2>5
<1>4. ASSUME InEvery(t, DramCell, t.ram)
      PROVE  Added(t, [node \in PassNodes(t) |-> DramCell(node)[t.ram].vpp])
               > Added(t, [node \in PassNodes(t) |-> DramCell(node)[t.ram].acc_vth])
  <2> DEFINE va == [node \in PassNodes(t) |-> DramCell(node)[t.ram].acc_vth]
             vp == [node \in PassNodes(t) |-> DramCell(node)[t.ram].vpp]
  <2>1. ASSUME NEW node \in PassNodes(t) PROVE Cells(node, t.ram)
    <3>1. node \in {180, 90, 65, 45, 32, 22}
      BY <1>1, EveryNode
    <3>3. t.ram \in DOMAIN DramCell(node)
      BY <1>4, EveryCell
    <3>2. DOMAIN DramCell(180) = {}
      BY DEF DramCell
    <3> QED BY <3>1, <3>2, <3>3, AllCells
  <2>2. \A node \in PassNodes(t) :
          va[node] \in Int /\ vp[node] \in Int /\ 1 * va[node] < 1 * vp[node]
    BY <2>1 DEF Cells
  <2> HIDE DEF va, vp
  <2>3. Added(t, va) \in Int /\ Added(t, vp) \in Int /\ 1 * Added(t, va) < 1 * Added(t, vp)
    BY <1>1, <2>2, AddedLess
  <2>4. Added(t, vp) > Added(t, va)
    BY <2>3
  <2> QED BY <2>4 DEF va, vp
<1> QED BY <1>2, <1>3, <1>4 DEF SuppliesDrive

-----------------------------------------------------------------------------
(* A sum of less is less.                                                  *)
LEMMA SumLess ==
  ASSUME NEW t, t.nm \in 22 .. 180, NEW u, NEW v,
         \A node \in PassNodes(t) : u[node] \in Int /\ v[node] \in Int /\ u[node] < v[node]
  PROVE  Added(t, u) < Added(t, v)
<1>1. \A node \in PassNodes(t) :
        u[node] \in Int /\ v[node] \in Int /\ 1 * u[node] < 1 * v[node]
  OBVIOUS
<1>2. Added(t, u) \in Int /\ Added(t, v) \in Int /\ 1 * Added(t, u) < 1 * Added(t, v)
  BY <1>1, AddedLess
<1> QED BY <1>2

(* Leakage that grows at every node grows between the nodes.               *)
LEMMA RowsGrow ==
  ASSUME NEW t, t.nm \in 22 .. 180, NEW row,
         \A node \in PassNodes(t) : Rising(row[node]), NEW j \in 1 .. 10
  PROVE  Added(t, [node \in PassNodes(t) |-> row[node][j]])
           < Added(t, [node \in PassNodes(t) |-> row[node][j + 1]])
<1> DEFINE u == [node \in PassNodes(t) |-> row[node][j]]
           v == [node \in PassNodes(t) |-> row[node][j + 1]]
<1>1. \A node \in PassNodes(t) : u[node] \in Int /\ v[node] \in Int /\ u[node] < v[node]
  BY DEF Rising
<1> HIDE DEF u, v
<1>2. Added(t, u) < Added(t, v)
  BY <1>1, SumLess
<1> QED BY <1>2 DEF u, v

(* Leakage grows with the temperature at every size.                       *)
LEMMA AllLeakMore ==
  ASSUME NEW t, t.nm \in 22 .. 180
  PROVE  HotterLeaksMore(t)
<1>1. ASSUME NEW f, InEvery(t, Itrs, f), ~ Misprinted(t, f)
      PROVE  Grows(t, LAMBDA node : Itrs(node)[f].I_off_n)
  <2> DEFINE row == [node \in PassNodes(t) |-> Itrs(node)[f].I_off_n]
  <2>1. ASSUME NEW node \in PassNodes(t) PROVE Rising(row[node])
    <3>1. <<node, f>> \notin {<<90, itrs_lop>>, <<22, itrs_lstp>>}
      BY <1>1 DEF Misprinted, PassNodes
    <3>2. Driving(node, f)
      BY <1>1, EveryDriving
    <3> QED BY <3>1, <3>2 DEF Driving
  <2>2. \A node \in PassNodes(t) : row[node] = Itrs(node)[f].I_off_n
    OBVIOUS
  <2> HIDE DEF row
  <2>3. ASSUME NEW j \in 1 .. 10
        PROVE  Added(t, [node \in PassNodes(t) |-> Itrs(node)[f].I_off_n[j]])
                 < Added(t, [node \in PassNodes(t) |-> Itrs(node)[f].I_off_n[j + 1]])
    <3>1. /\ [node \in PassNodes(t) |-> row[node][j]]
               = [node \in PassNodes(t) |-> Itrs(node)[f].I_off_n[j]]
          /\ [node \in PassNodes(t) |-> row[node][j + 1]]
               = [node \in PassNodes(t) |-> Itrs(node)[f].I_off_n[j + 1]]
      BY <2>2
    <3>2. Added(t, [node \in PassNodes(t) |-> row[node][j]])
            < Added(t, [node \in PassNodes(t) |-> row[node][j + 1]])
      BY <2>1, RowsGrow
    <3> QED BY <3>1, <3>2
  <2> QED BY <2>3 DEF Grows
<1>2. ASSUME InEvery(t, DramCell, t.ram)
      PROVE  Grows(t, LAMBDA node : DramCell(node)[t.ram].I_off_n)
  <2> DEFINE row == [node \in PassNodes(t) |-> DramCell(node)[t.ram].I_off_n]
  <2>1. ASSUME NEW node \in PassNodes(t) PROVE Rising(row[node])
    <3>1. node \in {180, 90, 65, 45, 32, 22}
      BY EveryNode
    <3>2. t.ram \in DOMAIN DramCell(node)
      BY <1>2, EveryCell
    <3>3. DOMAIN DramCell(180) = {}
      BY DEF DramCell
    <3>4. Cells(node, t.ram)
      BY <3>1, <3>2, <3>3, AllCells
    <3> QED BY <3>4 DEF Cells
  <2>2. \A node \in PassNodes(t) : row[node] = DramCell(node)[t.ram].I_off_n
    OBVIOUS
  <2> HIDE DEF row
  <2>3. ASSUME NEW j \in 1 .. 10
        PROVE  Added(t, [node \in PassNodes(t) |-> DramCell(node)[t.ram].I_off_n[j]])
                 < Added(t, [node \in PassNodes(t) |-> DramCell(node)[t.ram].I_off_n[j + 1]])
    <3>1. /\ [node \in PassNodes(t) |-> row[node][j]]
               = [node \in PassNodes(t) |-> DramCell(node)[t.ram].I_off_n[j]]
          /\ [node \in PassNodes(t) |-> row[node][j + 1]]
               = [node \in PassNodes(t) |-> DramCell(node)[t.ram].I_off_n[j + 1]]
      BY <2>2
    <3>2. Added(t, [node \in PassNodes(t) |-> row[node][j]])
            < Added(t, [node \in PassNodes(t) |-> row[node][j + 1]])
      BY <2>1, RowsGrow
    <3> QED BY <3>1, <3>2
  <2> QED BY <2>3 DEF Grows
<1>3. ASSUME NEW f \in {t.ram, t.peri}, InEvery(t, Itrs, f), ~ Misprinted(t, f)
      PROVE  Grows(t, LAMBDA node : Itrs(node)[f].I_off_n)
  BY <1>1, <1>3 DEF Grows
<1> QED BY <1>2, <1>3 DEF HotterLeaksMore, Grows

-----------------------------------------------------------------------------
(* A section is the product of a height and a width.                       *)
Height(w, nm, type) ==
  LET thickness == (Width(nm, type) * w.aspect[type + 1]) \div 10
      dished    == IF type = 2 THEN (thickness * w.dishing) \div 10 ELSE 0
  IN thickness - w.barrier - dished

Breadth(w, nm, type) == Width(nm, type) - 2 * w.barrier

(* The section of wire_resistance() as a product.                          *)
LEMMA SectionIs ==
  ASSUME NEW w, NEW nm, NEW type
  PROVE  Section(w, nm, type) = Height(w, nm, type) * Breadth(w, nm, type)
  BY DEF Section, Height, Breadth

(* The widths of the three types.                                          *)
LEMMA WidthIs ==
  ASSUME NEW nm \in Nat
  PROVE  Width(nm, 0) = (nm * 5) \div 4 /\ Width(nm, 1) = 2 * nm /\ Width(nm, 2) = 4 * nm
  BY DEF Width

(* A width is a number.                                                    *)
LEMMA WidthTyped ==
  ASSUME NEW nm \in Nat, NEW type \in 0 .. 2
  PROVE  Width(nm, type) \in Nat
<1>1. type = 0 \/ type = 1 \/ type = 2
  OBVIOUS
<1>2. (nm * 5) \div 4 \in Nat /\ 2 * nm \in Nat /\ 4 * nm \in Nat
  OBVIOUS
<1> QED BY <1>1, <1>2, WidthIs

(* Products of what is ordered are ordered.                                *)
LEMMA ProductLess ==
  ASSUME NEW a1 \in Nat, NEW a2 \in Nat, NEW b1 \in Nat, NEW b2 \in Nat, a1 <= a2, b1 <= b2
  PROVE  a1 * b1 <= a2 * b2
<1>1. a1 * b1 <= a2 * b1 /\ a2 * b1 <= a2 * b2
  OBVIOUS
<1>2. a1 * b1 \in Nat /\ a2 * b1 \in Nat /\ a2 * b2 \in Nat
  OBVIOUS
<1> QED BY <1>1, <1>2

(* The wires of a projection at a size: wider and higher by type.          *)
Thicker(w, nm) ==
  /\ w.resistivity \in Nat
  /\ \A type \in 0 .. 2 : Height(w, nm, type) \in Nat /\ Breadth(w, nm, type) \in Nat
  /\ Height(w, nm, 0) <= Height(w, nm, 1) /\ Height(w, nm, 1) <= Height(w, nm, 2)
  /\ Breadth(w, nm, 0) <= Breadth(w, nm, 1) /\ Breadth(w, nm, 1) <= Breadth(w, nm, 2)

(* What a projection of the tables is like at a size.                      *)
Fits(w, nm) ==
  /\ w.aspect[1] \in Nat /\ w.aspect[2] \in Nat /\ w.aspect[3] \in Nat
  /\ 20 <= w.aspect[1] /\ w.aspect[1] <= w.aspect[2] /\ 2 * w.aspect[2] <= 3 * w.aspect[3]
  /\ w.dishing \in {0, 1} /\ w.barrier \in Nat /\ w.resistivity \in Nat
  /\ 2 * w.barrier <= Width(nm, 0)

(* The heights of the three types, the third dished.                       *)
LEMMA HeightIs ==
  ASSUME NEW nm \in Nat, NEW w
  PROVE  /\ Height(w, nm, 0) = (Width(nm, 0) * w.aspect[1]) \div 10 - w.barrier - 0
         /\ Height(w, nm, 1) = (Width(nm, 1) * w.aspect[2]) \div 10 - w.barrier - 0
         /\ Height(w, nm, 2) = (Width(nm, 2) * w.aspect[3]) \div 10 - w.barrier
                               - (((Width(nm, 2) * w.aspect[3]) \div 10) * w.dishing) \div 10
  BY DEF Height

(* Wires of such a projection grow by type.                                *)
LEMMA ThickerIs ==
  ASSUME NEW nm \in Nat, NEW w, Fits(w, nm)
  PROVE  Thicker(w, nm)
<1> DEFINE W0 == Width(nm, 0)  W1 == Width(nm, 1)  W2 == Width(nm, 2)
           m0 == W0 * w.aspect[1]  m1 == W1 * w.aspect[2]  m2 == W2 * w.aspect[3]
           bar == w.barrier  dish == w.dishing
<1>1. /\ W0 \in Nat /\ W1 \in Nat /\ W2 \in Nat
      /\ W0 <= W1 /\ W1 <= W2 /\ W2 = 2 * W1
  BY WidthIs
<1>2. /\ bar \in Nat /\ dish \in {0, 1} /\ 2 * bar <= W0
      /\ w.aspect[1] \in Nat /\ w.aspect[2] \in Nat /\ w.aspect[3] \in Nat
      /\ 20 <= w.aspect[1] /\ w.aspect[1] <= w.aspect[2]
      /\ 2 * w.aspect[2] <= 3 * w.aspect[3]
  BY DEF Fits
<1>3. /\ Height(w, nm, 0) = m0 \div 10 - bar - 0
      /\ Height(w, nm, 1) = m1 \div 10 - bar - 0
      /\ Height(w, nm, 2) = m2 \div 10 - bar - ((m2 \div 10) * dish) \div 10
  BY HeightIs
<1>4. /\ Breadth(w, nm, 0) = W0 - 2 * bar /\ Breadth(w, nm, 1) = W1 - 2 * bar
      /\ Breadth(w, nm, 2) = W2 - 2 * bar
  BY DEF Breadth
<1> HIDE DEF W0, W1, W2, bar, dish
<1>5. W0 * 20 <= m0 /\ m0 <= m1
  <2>1. W0 * 20 <= W0 * w.aspect[1]
    BY <1>1, <1>2, ProductLess
  <2>2. W0 * w.aspect[1] <= W1 * w.aspect[2]
    BY <1>1, <1>2, ProductLess
  <2> QED BY <2>1, <2>2
<1>6. 4 * m1 <= 3 * m2
  <2>1. W1 * (2 * w.aspect[2]) <= W1 * (3 * w.aspect[3])
    BY <1>1, <1>2, ProductLess
  <2>2. /\ W2 * w.aspect[3] = 2 * (W1 * w.aspect[3])
        /\ W1 * (2 * w.aspect[2]) = 2 * (W1 * w.aspect[2])
        /\ W1 * (3 * w.aspect[3]) = 3 * (W1 * w.aspect[3])
    BY <1>1, <1>2
  <2>3. W1 * w.aspect[3] \in Nat /\ W1 * w.aspect[2] \in Nat
    BY <1>1, <1>2
  <2> QED BY <2>1, <2>2, <2>3
<1>7. m0 \in Nat /\ m1 \in Nat /\ m2 \in Nat
  BY <1>1, <1>2
<1> HIDE DEF m0, m1, m2
<1> DEFINE t0 == m0 \div 10  t1 == m1 \div 10  t2 == m2 \div 10
<1>8. /\ t0 \in Nat /\ t1 \in Nat /\ t2 \in Nat
      /\ bar <= t0 /\ t0 <= t1 /\ t1 + t2 \div 10 <= t2
  BY <1>1, <1>2, <1>5, <1>6, <1>7
<1> DEFINE lost == (t2 * dish) \div 10
<1>9. lost \in Nat /\ t1 + lost <= t2
  <2> HIDE DEF t1, t2
  <2>1. CASE dish = 0
    BY <1>8, <2>1
  <2>2. CASE dish = 1
    BY <1>8, <2>2
  <2> QED BY <1>2, <2>1, <2>2
<1>10. /\ Height(w, nm, 0) = t0 - bar - 0 /\ Height(w, nm, 1) = t1 - bar - 0
       /\ Height(w, nm, 2) = t2 - bar - lost
  BY <1>3
<1> HIDE DEF t0, t1, t2, lost
<1>11. /\ Height(w, nm, 0) \in Nat /\ Height(w, nm, 1) \in Nat /\ Height(w, nm, 2) \in Nat
       /\ Height(w, nm, 0) <= Height(w, nm, 1) /\ Height(w, nm, 1) <= Height(w, nm, 2)
  BY <1>2, <1>8, <1>9, <1>10
<1>12. /\ Breadth(w, nm, 0) \in Nat /\ Breadth(w, nm, 1) \in Nat /\ Breadth(w, nm, 2) \in Nat
       /\ Breadth(w, nm, 0) <= Breadth(w, nm, 1) /\ Breadth(w, nm, 1) <= Breadth(w, nm, 2)
  BY <1>1, <1>2, <1>4
<1>13. w.resistivity \in Nat
  BY DEF Fits
<1> QED BY <1>11, <1>12, <1>13 DEF Thicker

(* A larger section has less resistance.                                   *)
LEMMA LargerIsLess ==
  ASSUME NEW r1 \in Nat, NEW r2 \in Nat, NEW s1 \in Nat, NEW s2 \in Nat, r1 <= r2, s2 <= s1
  PROVE  r1 * s2 <= r2 * s1
  BY ProductLess

(* The wider of two wires of a projection has less resistance.             *)
LEMMA WiderLess ==
  ASSUME NEW w, NEW nm, Thicker(w, nm), NEW i1 \in 0 .. 2, NEW i2 \in 0 .. 2, i1 < i2
  PROVE  LessResistance(w, i2, w, i1, nm)
<1> DEFINE h1 == Height(w, nm, i1)  h2 == Height(w, nm, i2)
           b1 == Breadth(w, nm, i1)  b2 == Breadth(w, nm, i2)
<1>1. /\ h1 \in Nat /\ h2 \in Nat /\ b1 \in Nat /\ b2 \in Nat /\ w.resistivity \in Nat
  BY DEF Thicker
<1>2. h1 <= h2 /\ b1 <= b2
  <2>1. (i1 = 0 /\ i2 = 1) \/ (i1 = 0 /\ i2 = 2) \/ (i1 = 1 /\ i2 = 2)
    OBVIOUS
  <2>2. /\ Height(w, nm, 0) \in Nat /\ Height(w, nm, 1) \in Nat /\ Height(w, nm, 2) \in Nat
        /\ Breadth(w, nm, 0) \in Nat /\ Breadth(w, nm, 1) \in Nat /\ Breadth(w, nm, 2) \in Nat
    BY DEF Thicker
  <2> QED BY <2>1, <2>2 DEF Thicker
<1>3. Section(w, nm, i1) = h1 * b1 /\ Section(w, nm, i2) = h2 * b2
  BY SectionIs
<1> HIDE DEF h1, h2, b1, b2
<1>4. h1 * b1 <= h2 * b2 /\ h1 * b1 \in Nat /\ h2 * b2 \in Nat
  BY <1>1, <1>2, ProductLess
<1> QED BY <1>1, <1>3, <1>4, LargerIsLess DEF LessResistance

-----------------------------------------------------------------------------
(* Of two projections the one with the higher wires, the thinner barrier   *)
(* and the lower resistivity has less resistance.                          *)
LEMMA HigherLess ==
  ASSUME NEW nm \in Nat, NEW w1, NEW w2, Fits(w1, nm), Fits(w2, nm), NEW type \in 0 .. 2,
         w1.resistivity <= w2.resistivity, w1.barrier <= w2.barrier, w1.dishing = 0,
         w2.aspect[type + 1] <= w1.aspect[type + 1]
  PROVE  LessResistance(w1, type, w2, type, nm)
<1> DEFINE W == Width(nm, type)
           a1 == w1.aspect[type + 1]  a2 == w2.aspect[type + 1]
           h1 == Height(w1, nm, type)  h2 == Height(w2, nm, type)
           b1 == Breadth(w1, nm, type)  b2 == Breadth(w2, nm, type)
           t1 == (W * a1) \div 10  t2 == (W * a2) \div 10
<1>1. Thicker(w1, nm) /\ Thicker(w2, nm)
  BY ThickerIs
<1>2. /\ h1 \in Nat /\ h2 \in Nat /\ b1 \in Nat /\ b2 \in Nat
      /\ w1.resistivity \in Nat /\ w2.resistivity \in Nat
  BY <1>1 DEF Thicker
<1>3. /\ a1 \in Nat /\ a2 \in Nat /\ W \in Nat
      /\ w1.barrier \in Nat /\ w2.barrier \in Nat /\ w2.dishing \in {0, 1}
  <2>1. (type = 0 /\ type + 1 = 1) \/ (type = 1 /\ type + 1 = 2) \/ (type = 2 /\ type + 1 = 3)
    OBVIOUS
  <2>2. a1 \in Nat /\ a2 \in Nat
    BY <2>1 DEF Fits
  <2>3. W \in Nat
    BY WidthTyped
  <2> QED BY <2>2, <2>3 DEF Fits
<1>4. t1 \in Nat /\ t2 \in Nat /\ t2 <= t1
  <2>1. W * a2 <= W * a1 /\ W * a1 \in Nat /\ W * a2 \in Nat
    BY <1>3, ProductLess
  <2> DEFINE m1 == W * a1  m2 == W * a2
  <2> HIDE DEF m1, m2
  <2>2. m2 <= m1 /\ m1 \in Nat /\ m2 \in Nat
    BY <2>1 DEF m1, m2
  <2>3. m1 \div 10 \in Nat /\ m2 \div 10 \in Nat /\ m2 \div 10 <= m1 \div 10
    BY <2>2
  <2> QED BY <2>3 DEF m1, m2
<1>5. h1 = t1 - w1.barrier - 0
  <2>1. CASE type = 2
    <3>1. (t1 * 0) \div 10 = 0
      BY <1>4
    <3> QED BY <2>1, <3>1, HeightIs
  <2>2. CASE type # 2
    BY <2>2, HeightIs
  <2> QED BY <2>1, <2>2
<1>6. h2 <= t2 - w2.barrier
  <2> DEFINE lost == (t2 * w2.dishing) \div 10
  <2>1. lost \in Nat
    <3> HIDE DEF t2
    <3>1. t2 * w2.dishing \in Nat
      BY <1>3, <1>4
    <3> QED BY <3>1
  <2>2. h2 = t2 - w2.barrier - 0 \/ h2 = t2 - w2.barrier - lost
    BY HeightIs
  <2> HIDE DEF lost, t2, h2
  <2> QED BY <1>3, <1>4, <2>1, <2>2
<1>7. b1 = W - 2 * w1.barrier /\ b2 = W - 2 * w2.barrier
  BY DEF Breadth
<1>8. Section(w1, nm, type) = h1 * b1 /\ Section(w2, nm, type) = h2 * b2
  BY SectionIs
<1> HIDE DEF W, a1, a2, h1, h2, b1, b2, t1, t2
<1>9. h2 <= h1 /\ b2 <= b1
  BY <1>2, <1>3, <1>4, <1>5, <1>6, <1>7
<1>10. h2 * b2 <= h1 * b1 /\ h1 * b1 \in Nat /\ h2 * b2 \in Nat
  BY <1>2, <1>9, ProductLess
<1> QED BY <1>2, <1>8, <1>10, LargerIsLess DEF LessResistance

(* At 90 nm the barrier of the aggressive projection is the thicker one;   *)
(* its wires are still the larger ones at every size that uses the node.   *)
LEMMA Less90 ==
  ASSUME NEW nm \in 66 .. 180, NEW type \in 0 .. 2, Fits(wires_90[1], nm), Fits(wires_90[2], nm)
  PROVE  LessResistance(wires_90[1], type, wires_90[2], type, nm)
<1> DEFINE W == Width(nm, type)
           w1 == wires_90[1]  w2 == wires_90[2]
           h1 == Height(w1, nm, type)  h2 == Height(w2, nm, type)
           b1 == Breadth(w1, nm, type)  b2 == Breadth(w2, nm, type)
<1>1. /\ w1.aspect[1] = 24 /\ w1.aspect[2] = 24 /\ w1.aspect[3] = 27
      /\ w1.barrier = 10 /\ w1.dishing = 0 /\ w1.resistivity = 220
      /\ w2.aspect[1] = 20 /\ w2.aspect[2] = 20 /\ w2.aspect[3] = 22
      /\ w2.barrier = 8 /\ w2.dishing = 1 /\ w2.resistivity = 220
  BY DEF wires_90, Conservative, Aggressive, Projection
<1>2. W \in Nat /\ W >= 82
  <2>1. nm \in Nat /\ (type = 0 \/ type = 1 \/ type = 2)
    OBVIOUS
  <2>2. Width(nm, 0) = (nm * 5) \div 4 /\ Width(nm, 1) = 2 * nm /\ Width(nm, 2) = 4 * nm
    BY <2>1, WidthIs
  <2> QED BY <2>1, <2>2
<1>3. h1 \in Nat /\ h2 \in Nat /\ b1 \in Nat /\ b2 \in Nat
  <2>1. Thicker(w1, nm) /\ Thicker(w2, nm)
    BY ThickerIs
  <2> QED BY <2>1 DEF Thicker
<1>4. b1 = W - 2 * 10 /\ b2 = W - 2 * 8
  BY <1>1 DEF Breadth
<1>5. \/ h1 = (W * 24) \div 10 - 10 - 0 /\ h2 = (W * 20) \div 10 - 8 - 0
      \/ /\ h1 = (W * 27) \div 10 - 10 - (((W * 27) \div 10) * 0) \div 10
         /\ h2 = (W * 22) \div 10 - 8 - (((W * 22) \div 10) * 1) \div 10
  BY <1>1, HeightIs
<1>6. Section(w1, nm, type) = h1 * b1 /\ Section(w2, nm, type) = h2 * b2
  BY SectionIs
<1> HIDE DEF W, h1, h2, b1, b2, w1, w2
<1>7. 31 * b2 <= 33 * b1
  BY <1>2, <1>4
<1>8. 33 * h2 <= 31 * h1
  BY <1>2, <1>5
<1>9. h2 * b2 <= h1 * b1 /\ h1 * b1 \in Nat /\ h2 * b2 \in Nat
  <2>1. (33 * h2) * (31 * b2) <= (31 * h1) * (33 * b1)
    BY <1>3, <1>7, <1>8, ProductLess
  <2>2. h1 * b1 \in Nat /\ h2 * b2 \in Nat
    BY <1>3
  <2>3. /\ (33 * h2) * (31 * b2) = 1023 * (h2 * b2)
        /\ (31 * h1) * (33 * b1) = 1023 * (h1 * b1)
    BY <1>3
  <2> QED BY <2>1, <2>2, <2>3
<1>10. w1.resistivity * Section(w2, nm, type) <= w2.resistivity * Section(w1, nm, type)
  BY <1>1, <1>6, <1>9
<1> QED BY <1>10 DEF LessResistance, w1, w2

(* The rows of the tables.                                                 *)
Orderly(w, nm) ==
  /\ \A proj \in 1 .. 2, i1, i2 \in 0 .. 2 :
       i1 < i2 => LessResistance(w[proj], i2, w[proj], i1, nm)
  /\ \A type \in 0 .. 2 : LessResistance(w[1], type, w[2], type, nm)

(* A pair of projections is in order if the aggressive one has less        *)
(* resistance.                                                             *)
LEMMA OrderlyIf ==
  ASSUME NEW nm \in Nat, NEW w, Fits(w[1], nm), Fits(w[2], nm),
         \A type \in 0 .. 2 : LessResistance(w[1], type, w[2], type, nm)
  PROVE  Orderly(w, nm)
<1>1. Thicker(w[1], nm) /\ Thicker(w[2], nm)
  BY ThickerIs
<1>2. ASSUME NEW proj \in 1 .. 2, NEW i1 \in 0 .. 2, NEW i2 \in 0 .. 2, i1 < i2
      PROVE  LessResistance(w[proj], i2, w[proj], i1, nm)
  <2>1. Thicker(w[proj], nm)
    BY <1>1
  <2> QED BY <1>2, <2>1, WiderLess
<1> QED BY <1>2 DEF Orderly

(* The wires of 180 nm.                                                    *)
LEMMA Orderly180 ==
  ASSUME NEW nm \in 91 .. 180
  PROVE  Orderly(wires_180, nm)
<1> DEFINE w1 == wires_180[1]  w2 == wires_180[2]
<1>1. /\ w1.aspect[1] = 20 /\ w1.aspect[2] = 24 /\ w1.aspect[3] = 22
      /\ w1.barrier = 17 /\ w1.dishing = 0 /\ w1.resistivity = 220
      /\ w2.aspect[1] = 20 /\ w2.aspect[2] = 20 /\ w2.aspect[3] = 22
      /\ w2.barrier = 17 /\ w2.dishing = 1 /\ w2.resistivity = 220
  BY DEF wires_180, Conservative, Aggressive, Projection
<1> HIDE DEF w1, w2
<1>2. nm \in Nat /\ Width(nm, 0) = (nm * 5) \div 4
  BY WidthIs
<1>3. Width(nm, 0) \in Nat /\ 34 <= Width(nm, 0)
  BY <1>2
<1>4. Fits(w1, nm) /\ Fits(w2, nm)
  <2>1. Fits(w1, nm)
    BY <1>1, <1>3 DEF Fits
  <2>2. Fits(w2, nm)
    BY <1>1, <1>3 DEF Fits
  <2> QED BY <2>1, <2>2
<1>5. ASSUME NEW type \in 0 .. 2 PROVE LessResistance(w1, type, w2, type, nm)
  <2>1. type + 1 = 1 \/ type + 1 = 2 \/ type + 1 = 3
    OBVIOUS
  <2>2. w2.aspect[type + 1] <= w1.aspect[type + 1]
    BY <1>1, <2>1
  <2>3. /\ w1.resistivity <= w2.resistivity /\ w1.barrier <= w2.barrier
        /\ w1.dishing = 0
    BY <1>1
  <2> QED BY <1>2, <1>4, <2>2, <2>3, HigherLess
<1> QED BY <1>2, <1>4, <1>5, OrderlyIf DEF w1, w2

(* The wires of 90 nm.                                                     *)
LEMMA Orderly90 ==
  ASSUME NEW nm \in 66 .. 180
  PROVE  Orderly(wires_90, nm)
<1> DEFINE w1 == wires_90[1]  w2 == wires_90[2]
<1>1. /\ w1.aspect[1] = 24 /\ w1.aspect[2] = 24 /\ w1.aspect[3] = 27
      /\ w1.barrier = 10 /\ w1.dishing = 0 /\ w1.resistivity = 220
      /\ w2.aspect[1] = 20 /\ w2.aspect[2] = 20 /\ w2.aspect[3] = 22
      /\ w2.barrier = 8 /\ w2.dishing = 1 /\ w2.resistivity = 220
  BY DEF wires_90, Conservative, Aggressive, Projection
<1> HIDE DEF w1, w2
<1>2. nm \in Nat /\ Width(nm, 0) = (nm * 5) \div 4
  BY WidthIs
<1>3. Fits(w1, nm) /\ Fits(w2, nm)
  BY <1>1, <1>2 DEF Fits
<1>4. \A type \in 0 .. 2 : LessResistance(w1, type, w2, type, nm)
  BY <1>3, Less90 DEF w1, w2
<1> QED BY <1>2, <1>3, <1>4, OrderlyIf DEF w1, w2

(* The wires of 65 nm.                                                     *)
LEMMA Orderly65 ==
  ASSUME NEW nm \in 22 .. 180
  PROVE  Orderly(wires_65, nm)
<1> DEFINE w1 == wires_65[1]  w2 == wires_65[2]
<1>1. /\ w1.aspect[1] = 27 /\ w1.aspect[2] = 27 /\ w1.aspect[3] = 28
      /\ w1.barrier = 0 /\ w1.dishing = 0 /\ w1.resistivity = 180
      /\ w2.aspect[1] = 20 /\ w2.aspect[2] = 20 /\ w2.aspect[3] = 22
      /\ w2.barrier = 6 /\ w2.dishing = 1 /\ w2.resistivity = 220
  BY DEF wires_65, Conservative, Aggressive, Projection
<1> HIDE DEF w1, w2
<1>2. nm \in Nat /\ Width(nm, 0) = (nm * 5) \div 4
  BY WidthIs
<1>3. Fits(w1, nm) /\ Fits(w2, nm)
  BY <1>1, <1>2 DEF Fits
<1>4. ASSUME NEW type \in 0 .. 2 PROVE LessResistance(w1, type, w2, type, nm)
  <2>1. type + 1 = 1 \/ type + 1 = 2 \/ type + 1 = 3
    OBVIOUS
  <2>2. w2.aspect[type + 1] <= w1.aspect[type + 1]
    BY <1>1, <2>1
  <2>3. /\ w1.resistivity <= w2.resistivity /\ w1.barrier <= w2.barrier
        /\ w1.dishing = 0
    BY <1>1
  <2> QED BY <1>2, <1>3, <2>2, <2>3, HigherLess
<1> QED BY <1>2, <1>3, <1>4, OrderlyIf DEF w1, w2

(* The wires of 45 nm.                                                     *)
LEMMA Orderly45 ==
  ASSUME NEW nm \in 22 .. 180
  PROVE  Orderly(wires_45, nm)
<1> DEFINE w1 == wires_45[1]  w2 == wires_45[2]
<1>1. /\ w1.aspect[1] = 30 /\ w1.aspect[2] = 30 /\ w1.aspect[3] = 30
      /\ w1.barrier = 0 /\ w1.dishing = 0 /\ w1.resistivity = 180
      /\ w2.aspect[1] = 20 /\ w2.aspect[2] = 20 /\ w2.aspect[3] = 22
      /\ w2.barrier = 4 /\ w2.dishing = 1 /\ w2.resistivity = 220
  BY DEF wires_45, Conservative, Aggressive, Projection
<1> HIDE DEF w1, w2
<1>2. nm \in Nat /\ Width(nm, 0) = (nm * 5) \div 4
  BY WidthIs
<1>3. Fits(w1, nm) /\ Fits(w2, nm)
  BY <1>1, <1>2 DEF Fits
<1>4. ASSUME NEW type \in 0 .. 2 PROVE LessResistance(w1, type, w2, type, nm)
  <2>1. type + 1 = 1 \/ type + 1 = 2 \/ type + 1 = 3
    OBVIOUS
  <2>2. w2.aspect[type + 1] <= w1.aspect[type + 1]
    BY <1>1, <2>1
  <2>3. /\ w1.resistivity <= w2.resistivity /\ w1.barrier <= w2.barrier
        /\ w1.dishing = 0
    BY <1>1
  <2> QED BY <1>2, <1>3, <2>2, <2>3, HigherLess
<1> QED BY <1>2, <1>3, <1>4, OrderlyIf DEF w1, w2

(* The wires of 32 nm.                                                     *)
LEMMA Orderly32 ==
  ASSUME NEW nm \in 22 .. 180
  PROVE  Orderly(wires_32, nm)
<1> DEFINE w1 == wires_32[1]  w2 == wires_32[2]
<1>1. /\ w1.aspect[1] = 30 /\ w1.aspect[2] = 30 /\ w1.aspect[3] = 30
      /\ w1.barrier = 0 /\ w1.dishing = 0 /\ w1.resistivity = 180
      /\ w2.aspect[1] = 20 /\ w2.aspect[2] = 20 /\ w2.aspect[3] = 22
      /\ w2.barrier = 3 /\ w2.dishing = 1 /\ w2.resistivity = 220
  BY DEF wires_32, Conservative, Aggressive, Projection
<1> HIDE DEF w1, w2
<1>2. nm \in Nat /\ Width(nm, 0) = (nm * 5) \div 4
  BY WidthIs
<1>3. Fits(w1, nm) /\ Fits(w2, nm)
  BY <1>1, <1>2 DEF Fits
<1>4. ASSUME NEW type \in 0 .. 2 PROVE LessResistance(w1, type, w2, type, nm)
  <2>1. type + 1 = 1 \/ type + 1 = 2 \/ type + 1 = 3
    OBVIOUS
  <2>2. w2.aspect[type + 1] <= w1.aspect[type + 1]
    BY <1>1, <2>1
  <2>3. /\ w1.resistivity <= w2.resistivity /\ w1.barrier <= w2.barrier
        /\ w1.dishing = 0
    BY <1>1
  <2> QED BY <1>2, <1>3, <2>2, <2>3, HigherLess
<1> QED BY <1>2, <1>3, <1>4, OrderlyIf DEF w1, w2

(* The wires of 22 nm.                                                     *)
LEMMA Orderly22 ==
  ASSUME NEW nm \in 22 .. 180
  PROVE  Orderly(wires_22, nm)
<1> DEFINE w1 == wires_22[1]  w2 == wires_22[2]
<1>1. /\ w1.aspect[1] = 30 /\ w1.aspect[2] = 30 /\ w1.aspect[3] = 30
      /\ w1.barrier = 0 /\ w1.dishing = 0 /\ w1.resistivity = 180
      /\ w2.aspect[1] = 20 /\ w2.aspect[2] = 20 /\ w2.aspect[3] = 22
      /\ w2.barrier = 3 /\ w2.dishing = 1 /\ w2.resistivity = 231
  BY DEF wires_22, Conservative, Aggressive, Projection
<1> HIDE DEF w1, w2
<1>2. nm \in Nat /\ Width(nm, 0) = (nm * 5) \div 4
  BY WidthIs
<1>3. Fits(w1, nm) /\ Fits(w2, nm)
  BY <1>1, <1>2 DEF Fits
<1>4. ASSUME NEW type \in 0 .. 2 PROVE LessResistance(w1, type, w2, type, nm)
  <2>1. type + 1 = 1 \/ type + 1 = 2 \/ type + 1 = 3
    OBVIOUS
  <2>2. w2.aspect[type + 1] <= w1.aspect[type + 1]
    BY <1>1, <2>1
  <2>3. /\ w1.resistivity <= w2.resistivity /\ w1.barrier <= w2.barrier
        /\ w1.dishing = 0
    BY <1>1
  <2> QED BY <1>2, <1>3, <2>2, <2>3, HigherLess
<1> QED BY <1>2, <1>3, <1>4, OrderlyIf DEF w1, w2

(* The node of 90 nm is used above 65 nm only.                             *)
LEMMA Node90 ==
  ASSUME NEW nm \in 22 .. 180, NEW p \in DOMAIN Passes(nm), Passes(nm)[p] = 90
  PROVE  nm > 65
<1>1. CASE OnNode(nm)
  BY <1>1 DEF OnNode
<1>2. CASE Amid(nm, 180, 90) \/ Amid(nm, 90, 65)
  BY <1>2 DEF Amid
<1>3. CASE Amid(nm, 65, 45)
  BY <1>3 DEF Amid
<1>4. CASE Amid(nm, 45, 32)
  BY <1>4 DEF Amid
<1>5. CASE Amid(nm, 32, 22)
  BY <1>5 DEF Amid
<1> QED BY <1>1, <1>2, <1>3, <1>4, <1>5, PassesAre

(* The wires of every size are in order.                                   *)
LEMMA AllWiresOrdered ==
  ASSUME NEW t, t.nm \in 22 .. 180
  PROVE  WiresOrdered(t)
<1> SUFFICES ASSUME NEW p \in DOMAIN Passes(t.nm)
             PROVE  Orderly(Wires(Passes(t.nm)[p]), t.nm)
  BY DEF WiresOrdered, Orderly
<1> DEFINE node == Passes(t.nm)[p]
<1>1. /\ node \in {180, 90, 65, 45, 32, 22}
      /\ (t.nm <= 90 => node # 180) /\ (node = 90 => t.nm > 65)
  BY PassNode, Node90
<1> HIDE DEF node
<1>2. Orderly(Wires(node), t.nm)
  <2>1. CASE node = 180
    <3>1. t.nm \in 91 .. 180
      BY <1>1, <2>1
    <3> QED BY <2>1, <3>1, Orderly180 DEF Wires
  <2>2. CASE node = 90
    <3>1. t.nm \in 66 .. 180
      BY <1>1, <2>2
    <3> QED BY <2>2, <3>1, Orderly90 DEF Wires
  <2>3. CASE node = 65
    BY <2>3, Orderly65 DEF Wires
  <2>4. CASE node = 45
    BY <2>4, Orderly45 DEF Wires
  <2>5. CASE node = 32
    BY <2>5, Orderly32 DEF Wires
  <2>6. CASE node = 22
    BY <2>6, Orderly22 DEF Wires
  <2> QED BY <1>1, <2>1, <2>2, <2>3, <2>4, <2>5, <2>6
<1> QED BY <1>2 DEF node

-----------------------------------------------------------------------------
(* The first pass is that of the larger node.                              *)
LEMMA FirstPass ==
  ASSUME NEW nm \in 22 .. 180
  PROVE  /\ 1 \in DOMAIN Passes(nm)
         /\ \A p \in DOMAIN Passes(nm) : Passes(nm)[p] = 180 => Passes(nm)[1] = 180
         /\ Len(Passes(nm)) = 1 <=> Exact(nm)
<1> DEFINE Goal == /\ 1 \in DOMAIN Passes(nm)
                   /\ \A p \in DOMAIN Passes(nm) : Passes(nm)[p] = 180 => Passes(nm)[1] = 180
                   /\ Len(Passes(nm)) = 1 <=> Exact(nm)
<1>1. CASE OnNode(nm)
  <2>1. Passes(nm) = <<nm>> /\ Exact(nm)
    BY <1>1 DEF OnNode
  <2> QED BY <2>1
<1>2. ASSUME NEW a \in Nat, NEW b \in Nat, Amid(nm, a, b), b < 180
      PROVE  Goal
  <2>1. Passes(nm) = <<a, b>> /\ ~ Exact(nm)
    BY <1>2 DEF Amid
  <2> QED BY <1>2, <2>1
<1> HIDE DEF Goal
<1>3. /\ Amid(nm, 180, 90) => Goal
      /\ Amid(nm, 90, 65) => Goal
      /\ Amid(nm, 65, 45) => Goal
      /\ Amid(nm, 45, 32) => Goal
      /\ Amid(nm, 32, 22) => Goal
  BY <1>2
<1>4. Goal
  BY <1>1, <1>3, PassesAre DEF Goal
<1> QED BY <1>4 DEF Goal

(* A supply the first pass assigns is assigned by both.                    *)
LEMMA DefinedEvery ==
  ASSUME NEW t, t.nm \in 22 .. 180, NEW f, ~ Undefined(t, "vdd", f)
  PROVE  InEvery(t, Itrs, f) /\ f \in {0, 1, 2}
<1> DEFINE first == Passes(t.nm)[1]
<1>1. Writer(t, 1, "vdd", f) # 0
  BY FirstPass DEF Undefined
<1>2. Writes(t, first, "vdd", f)
  <2> SUFFICES ASSUME ~ Writes(t, first, "vdd", f) PROVE Writer(t, 1, "vdd", f) = 0
    BY <1>1
  <2> DEFINE S == {0} \cup {q \in 1 .. 1 : Writes(t, Passes(t.nm)[q], "vdd", f)}
  <2>1. S = {0}
    OBVIOUS
  <2>2. Writer(t, 1, "vdd", f) = Max(S)
    BY DEF Writer
  <2>3. Max({0}) = 0
    BY DEF Max
  <2> QED BY <2>1, <2>2, <2>3
<1> HIDE DEF first
<1>3. f \in DOMAIN Itrs(first)
  <2>1. "vdd" \notin CellScalars \cup (ItrsArrays \ {"vdd", "vdd_real", "I_g_on_n"})
    BY DEF CellScalars
  <2> QED BY <1>2, <2>1 DEF Writes
<1>4. first \in {180, 90, 65, 45, 32, 22}
  BY FirstPass, PassNode DEF first
<1>5. f \in {0, 1, 2} /\ (first = 180 => f = 0)
  BY <1>3, <1>4, ItrsRows
<1>6. ASSUME NEW p \in DOMAIN Passes(t.nm) PROVE f \in DOMAIN Itrs(Passes(t.nm)[p])
  <2> DEFINE node == Passes(t.nm)[p]
  <2>1. node \in {180, 90, 65, 45, 32, 22} /\ (node = 180 => first = 180)
    BY PassNode, FirstPass DEF first
  <2> HIDE DEF node
  <2>2. f \in DOMAIN Itrs(node)
    BY <1>5, <2>1, ItrsRows
  <2> QED BY <2>2 DEF node
<1> QED BY <1>5, <1>6 DEF InEvery

(* A comparison that may come out true.                                    *)
LEMMA TrueLess ==
  ASSUME NEW a \in Int, NEW b \in Int, TRUE \in Less(a, b)
  PROVE  a <= b
<1>1. CASE a = b
  BY <1>1
<1>2. CASE a # b
  <2>1. TRUE \in {a < b}
    BY <1>2 DEF Less
  <2>2. a < b
    BY <2>1, Zenon
  <2> QED BY <2>2
<1> QED BY <1>1, <1>2

(* At default voltages the supply of a size exceeds three quarters of its  *)
(* default, and Vcc_min_default only where it counts the first node too    *)
(* much.                                                                   *)
LEMMA DefaultSupply ==
  ASSUME NEW t \in TechType, t.nm \in 22 .. 180, NEW f, ~ Undefined(t, "vdd", f),
         \A d \in DOMAIN t.volts : t.volts[d] = Default
  PROVE  /\ Vdd(t, f) = Vdd_default(t, f)
         /\ Vdd(t, f) \in Nat \ {0}
         /\ VccBase(t, f) \in Nat
         /\ Exact(t.nm) => VccBase(t, f) = Vdd(t, f)
         /\ ~ Exact(t.nm) /\ 20 * Vdd(t, f) <= 12 * VccBase(t, f) =>
              LET n == Passes(t.nm) IN
              Shares(t.nm)[1] * Itrs(n[1])[f].vdd >= 2 * Shares(t.nm)[2] * Itrs(n[2])[f].vdd
<1> DEFINE n == Passes(t.nm)
           v == [node \in PassNodes(t) |-> Itrs(node)[f].vdd]
           v1 == v[Node1(t)]  v2 == v[Node2(t)]  s1 == Share1(t)  s2 == Share2(t)
<1>1. InEvery(t, Itrs, f) /\ f \in {0, 1, 2}
  BY DefinedEvery
<1>2. t.volts[f] = Default
  <2>1. DOMAIN t.volts = 0 .. 2
    BY DEF TechType, Volts, itrs_hp, itrs_lop
  <2> QED BY <1>1, <2>1
<1>3. Vdd(t, f) = Added(t, v) /\ Vdd_default(t, f) = Added(t, v)
  <2>1. \A node \in PassNodes(t) : vdd_real(t, node, f) = Itrs(node)[f].vdd
    BY <1>2 DEF vdd_real
  <2>2. [node \in PassNodes(t) |-> vdd_real(t, node, f)] = v
    BY <2>1
  <2> QED BY <2>2 DEF Vdd, Vdd_default
<1>4. /\ Node1(t) \in PassNodes(t) /\ Node2(t) \in PassNodes(t)
      /\ s1 \in Nat \ {0} /\ s2 \in Nat
  BY AddedIs
<1>5. \A node \in PassNodes(t) : Itrs(node)[f].vdd \in Nat \ {0}
  BY <1>1, EveryDriving DEF Driving
<1>6. /\ v1 = Itrs(Node1(t))[f].vdd /\ v2 = Itrs(Node2(t))[f].vdd
      /\ v1 \in Nat \ {0} /\ v2 \in Nat \ {0}
  BY <1>4, <1>5
<1>7. Added(t, v) = s1 * v1 + s2 * v2
  BY <1>6, AddedIs
<1>8. Len(n) = 1 <=> Exact(t.nm)
  BY FirstPass
<1>9. ~ Exact(t.nm) => /\ s1 = Shares(t.nm)[1] /\ s2 = Shares(t.nm)[2]
                       /\ Node1(t) = n[1] /\ Node2(t) = n[2]
  BY DEF Share1, Share2, Node1, Node2
<1>10. VccBase(t, f) = IF Exact(t.nm) THEN Added(t, v) ELSE Added(t, v) + s1 * v1
  BY <1>3, <1>6, <1>8, <1>9 DEF VccBase
<1> HIDE DEF v1, v2, s1, s2, n, v
<1>11. s1 * v1 \in Nat \ {0} /\ s2 * v2 \in Nat
  BY <1>4, <1>6
<1>12. ASSUME ~ Exact(t.nm), 20 * Vdd(t, f) <= 12 * VccBase(t, f)
       PROVE  Shares(t.nm)[1] * Itrs(n[1])[f].vdd >= 2 * Shares(t.nm)[2] * Itrs(n[2])[f].vdd
  <2> DEFINE x == s1 * v1  y == s2 * v2
  <2>1. 20 * (x + y) <= 12 * (x + y + x)
    BY <1>3, <1>7, <1>10, <1>12
  <2>2. 2 * s2 * v2 = 2 * y
    BY <1>4, <1>6
  <2>3. x \in Nat /\ y \in Nat
    BY <1>11
  <2> HIDE DEF x, y
  <2>4. x >= 2 * y
    BY <2>1, <2>3
  <2> QED BY <1>6, <1>9, <1>12, <2>2, <2>4 DEF x
<1> DEFINE x == s1 * v1  y == s2 * v2
<1> HIDE DEF x, y
<1>13. x \in Nat \ {0} /\ y \in Nat /\ Added(t, v) = x + y
       /\ VccBase(t, f) = IF Exact(t.nm) THEN Added(t, v) ELSE Added(t, v) + x
  BY <1>7, <1>10, <1>11 DEF x, y
<1>14. Vdd(t, f) \in Nat \ {0} /\ VccBase(t, f) \in Nat
  BY <1>3, <1>13
<1> QED BY <1>3, <1>10, <1>12, <1>14 DEF n

(* Every check is one of two comparisons.                                  *)
LEMMA ChecksAre ==
  ASSUME NEW t, t.vccmin = 0, NEW c \in Checks(t)
  PROVE  \E f \in {t.ram, t.peri} :
           \/ c = Outcomes(t, f, Less(20 * Vdd(t, f), 12 * VccBase(t, f)))
           \/ c = Outcomes(t, f, Less(20 * Vdd(t, f), 9 * VccBase(t, f)))
           \/ c = Outcomes(t, f, Less(20 * Vdd(t, f), 15 * Vdd_default(t, f)))
<1>1. CASE c \in TooLow(t)
  BY <1>1 DEF TooLow
<1>2. CASE c \in BelowVccMin(t)
  BY <1>2 DEF BelowVccMin
<1> QED BY <1>1, <1>2 DEF Checks

(* A refusal at default voltages is explained.                             *)
LEMMA AllRefusalsExplained ==
  ASSUME NEW t \in TechType
  PROVE  RefusalExplained(t)
<1> SUFFICES ASSUME Supported(t), MayRefuse(t), t.vccmin = 0,
                    \A d \in DOMAIN t.volts : t.volts[d] = Default,
                    \A f \in {t.ram, t.peri} : ~ Undefined(t, "vdd", f)
             PROVE  \E f \in {t.ram, t.peri} :
                      /\ ~ Exact(t.nm)
                      /\ LET n == Passes(t.nm) IN
                           Shares(t.nm)[1] * Itrs(n[1])[f].vdd
                             >= 2 * Shares(t.nm)[2] * Itrs(n[2])[f].vdd
  BY DEF RefusalExplained
<1>1. t.nm \in 22 .. 180
  BY DEF Supported
<1>2. PICK c \in Checks(t) : TRUE \in c
  BY DEF MayRefuse
<1>3. PICK f \in {t.ram, t.peri} :
        \/ c = Outcomes(t, f, Less(20 * Vdd(t, f), 12 * VccBase(t, f)))
        \/ c = Outcomes(t, f, Less(20 * Vdd(t, f), 9 * VccBase(t, f)))
        \/ c = Outcomes(t, f, Less(20 * Vdd(t, f), 15 * Vdd_default(t, f)))
  BY ChecksAre
<1>4. ~ Undefined(t, "vdd", f)
  BY <1>3
<1>5. \/ TRUE \in Less(20 * Vdd(t, f), 12 * VccBase(t, f))
      \/ TRUE \in Less(20 * Vdd(t, f), 9 * VccBase(t, f))
      \/ TRUE \in Less(20 * Vdd(t, f), 15 * Vdd_default(t, f))
  BY <1>2, <1>3, <1>4 DEF Outcomes
<1> DEFINE V == Vdd(t, f)  D == Vdd_default(t, f)  B == VccBase(t, f)
<1>6. V = D /\ V \in Nat \ {0} /\ B \in Nat /\ (Exact(t.nm) => B = V)
  BY <1>1, <1>4, DefaultSupply
<1>7. 20 * V <= 12 * B \/ 20 * V <= 9 * B \/ 20 * V <= 15 * D
  <2> HIDE DEF V, D, B
  <2>1. 20 * V \in Int /\ 12 * B \in Int /\ 9 * B \in Int /\ 15 * D \in Int
    BY <1>6
  <2> QED BY <1>5, <2>1, TrueLess DEF V, D, B
<1>8. 20 * V <= 12 * B
  <2> HIDE DEF V, D, B
  <2> QED BY <1>6, <1>7
<1>9. ~ Exact(t.nm)
  <2> HIDE DEF V, D, B
  <2> QED BY <1>6, <1>8
<1> QED BY <1>1, <1>3, <1>4, <1>8, <1>9, DefaultSupply

(* init_tech_params(): the numbers every result rests on fit one another.  *)
THEOREM ParametersFitCorrect == Spec => []ParametersFit
<1>1. ASSUME IInv, Installed PROVE ParametersFit
  <2>1. ASSUME NEW r \in Evaluations
        PROVE  /\ ~ r.tech.main /\ r.tech.peri \notin Dram => SuppliesDrive(r.tech, r.gated)
               /\ HotterLeaksMore(r.tech) /\ WiresOrdered(r.tech)
    <3>1. r.tech \in TechType /\ MayInstall(r.tech) /\ r.tech.nm \in 22 .. 180
      BY <1>1, EvaluatedInstalled DEF Installable, MayInstall, Supported
    <3> QED BY <3>1, AllSuppliesDrive, AllLeakMore, AllWiresOrdered
  <2>2. pc \in Installing => RefusalExplained(TechAsked)
    BY <1>1, AskedTyped, AllRefusalsExplained
  <2> QED BY <2>1, <2>2 DEF ParametersFit
<1> QED BY <1>1, Invariance, InstalledInvariance, PTL

-----------------------------------------------------------------------------
(* The wires of the request and of the units built after it.               *)

(* Every nonempty set of natural numbers has a least member.               *)
NatLess == {ss \in Nat \X Nat : ss[1] < ss[2]}

LEMMA Smallest ==
  ASSUME NEW T, T \subseteq Nat, T # {}
  PROVE  \E x \in T : \A y \in T : x <= y
<1>1. IsWellFoundedOn(NatLess, Nat)
  BY NatLessThanWellFounded DEF OpToRel, NatLess
<1>2. PICK x \in T : \A y \in T : ~ (<<y, x>> \in NatLess)
  BY <1>1, WFMin
<1>3. ASSUME NEW y \in T
      PROVE  x <= y
  <2>1. x \in Nat /\ y \in Nat
    OBVIOUS
  <2>2. ~ (y < x)
    BY <1>2, <2>1 DEF NatLess
  <2> QED BY <2>1, <2>2
<1> QED BY <1>3

(* Costs and delays of a list of wires are numbers.                        *)
LEMMA CostTyped ==
  ASSUME NEW ws \in Seq(RepeatedWire), NEW p \in DOMAIN ws, 1 \in DOMAIN ws
  PROVE  ncost(ws[p], ws[1]) \in Nat /\ ws[p].delay \in Nat
<1>1. ws[p] \in RepeatedWire /\ ws[1] \in RepeatedWire
  OBVIOUS
<1>2. \A x, y, z, v \in Nat : x * y + z * v \in Nat
  <2>1. \A x, y \in Nat : x * y \in Nat
    OBVIOUS
  <2> QED BY <2>1
<1>3. /\ ws[p].dyn \in Nat /\ ws[p].leak \in Nat /\ ws[p].delay \in Nat
      /\ ws[1].dyn \in Nat /\ ws[1].leak \in Nat
  BY <1>1 DEF RepeatedWire
<1> QED BY <1>2, <1>3 DEF ncost

(* What a greater penalty drops a smaller one drops too, so that what is   *)
(* left when the turn of a penalty comes is what this penalty allows.      *)
LEMMA LeftIsAllowed ==
  ASSUME NEW ws \in Seq(RepeatedWire), 1 \in DOMAIN ws, NEW n \in 1 .. 4
  PROVE  Left(ws, n) = {p \in DOMAIN ws : Allowed(ws[p], ws[1], Penalties[n])}
<1>1. ASSUME NEW p \in DOMAIN ws, NEW pass \in 1 .. n,
             Allowed(ws[p], ws[1], Penalties[n])
      PROVE  Allowed(ws[p], ws[1], Penalties[pass])
  <2>1. ws[p].delay \in Nat /\ ws[1].delay \in Nat
    BY CostTyped
  <2>2. Penalties[1] = 30 /\ Penalties[2] = 20 /\ Penalties[3] = 10 /\ Penalties[4] = 5
    BY DEF Penalties
  <2>3. Penalties[n] \in Nat /\ Penalties[pass] \in Nat /\ Penalties[n] <= Penalties[pass]
    BY <2>2
  <2>4. \A d, g, a, b \in Nat :
          a <= b /\ 100 * d <= (100 + a) * g => 100 * d <= (100 + b) * g
    <3>1. \A g, a, b \in Nat : a <= b => (100 + a) * g <= (100 + b) * g
      OBVIOUS
    <3>2. \A g, a \in Nat : (100 + a) * g \in Nat
      OBVIOUS
    <3>3. ASSUME NEW d \in Nat, NEW g \in Nat, NEW a \in Nat, NEW b \in Nat,
                 a <= b, 100 * d <= (100 + a) * g
          PROVE  100 * d <= (100 + b) * g
      <4> DEFINE x == 100 * d
                 y == (100 + a) * g
                 z == (100 + b) * g
      <4>1. x \in Nat /\ y \in Nat /\ z \in Nat /\ x <= y /\ y <= z
        BY <3>1, <3>2, <3>3
      <4> HIDE DEF x, y, z
      <4>2. x <= z
        BY <4>1
      <4> QED BY <4>2 DEF x, z
    <3> QED BY <3>3
  <2> QED BY <1>1, <2>1, <2>3, <2>4 DEF Allowed
<1>2. n \in 1 .. n
  OBVIOUS
<1> QED BY <1>1, <1>2 DEF Left

(* The optimal wire is always among what is left.                          *)
LEMMA OptimalLeft ==
  ASSUME NEW ws \in Seq(RepeatedWire), 1 \in DOMAIN ws, NEW n \in 1 .. 4
  PROVE  1 \in Left(ws, n)
<1>1. ws[1].delay \in Nat
  BY CostTyped
<1>2. \A d, a \in Nat : 100 * d <= (100 + a) * d
  OBVIOUS
<1>3. Penalties[n] \in Nat
  BY DEF Penalties
<1>4. Allowed(ws[1], ws[1], Penalties[n])
  BY <1>1, <1>2, <1>3 DEF Allowed
<1> QED BY <1>4, LeftIsAllowed

(* The first of the cheapest exists, and no other is cheaper.              *)
LEMMA FirstLeastIs ==
  ASSUME NEW ws \in Seq(RepeatedWire), 1 \in DOMAIN ws,
         NEW ps, ps \subseteq DOMAIN ws, ps # {}
  PROVE  /\ FirstLeast(ws, ps) \in ps
         /\ \A q \in ps :
              ncost(ws[FirstLeast(ws, ps)], ws[1]) <= ncost(ws[q], ws[1])
<1> DEFINE Price(p) == ncost(ws[p], ws[1])
           First(p) == \A q \in ps : Price(p) < Price(q) \/ (Price(p) = Price(q) /\ p <= q)
<1>1. \A p \in ps : Price(p) \in Nat /\ p \in Nat
  BY CostTyped
<1>2. PICK c \in {Price(p) : p \in ps} : \A d \in {Price(p) : p \in ps} : c <= d
  BY <1>1, Smallest
<1>3. PICK f \in {p \in ps : Price(p) = c} : \A q \in {p \in ps : Price(p) = c} : f <= q
  BY <1>1, <1>2, Smallest
<1>4. f \in ps /\ Price(f) = c
  BY <1>3
<1>5. ASSUME NEW q \in ps PROVE Price(f) < Price(q) \/ (Price(f) = Price(q) /\ f <= q)
  <2>1. Price(f) <= Price(q)
    BY <1>2, <1>4
  <2>2. Price(f) = Price(q) => f <= q
    BY <1>3, <1>4
  <2>3. Price(f) \in Nat /\ Price(q) \in Nat
    BY <1>1, <1>4
  <2> HIDE DEF Price
  <2> QED BY <2>1, <2>2, <2>3
<1>6. \E p \in ps : First(p)
  BY <1>4, <1>5
<1>7. FirstLeast(ws, ps) = CHOOSE p \in ps : First(p)
  BY DEF FirstLeast
<1> DEFINE l == FirstLeast(ws, ps)
<1>8. l \in ps /\ First(l)
  <2> HIDE DEF First
  <2> QED BY <1>6, <1>7
<1>9. ASSUME NEW q \in ps PROVE Price(l) <= Price(q)
  <2>1. Price(l) \in Nat /\ Price(q) \in Nat
    BY <1>1, <1>8
  <2>2. Price(l) < Price(q) \/ Price(l) = Price(q)
    BY <1>8
  <2> HIDE DEF Price, l
  <2> QED BY <2>1, <2>2
<1> QED BY <1>8, <1>9

(* update_fullswing(): each penalty gets the cheapest of the wires it      *)
(* allows, of a list of any length.                                        *)
LEMMA EachPenaltyKept == PenaltyKept
<1> SUFFICES ASSUME NEW ws \in WireLists, NEW p \in {5, 10, 20, 30}
             PROVE  LET w == update_fullswing(ws)[p] IN
                      /\ Allowed(w, ws[1], p)
                      /\ \A n \in DOMAIN ws :
                           Allowed(ws[n], ws[1], p) => ncost(w, ws[1]) <= ncost(ws[n], ws[1])
  BY DEF PenaltyKept
<1>1. ws \in Seq(RepeatedWire) /\ 1 \in DOMAIN ws
  <2>1. ws \in Seq(RepeatedWire) /\ ws # <<>>
    BY WiresAssumption
  <2> QED BY <2>1
<1> DEFINE pass == CHOOSE n \in 1 .. 4 : Penalties[n] = p
           l == FirstLeast(ws, Left(ws, pass))
<1>2. pass \in 1 .. 4 /\ Penalties[pass] = p
  <2>1. Penalties[1] = 30 /\ Penalties[2] = 20 /\ Penalties[3] = 10 /\ Penalties[4] = 5
    BY DEF Penalties
  <2>2. \E n \in 1 .. 4 : Penalties[n] = p
    BY <2>1
  <2> QED BY <2>2
<1>3. update_fullswing(ws)[p] = ws[l]
  BY DEF update_fullswing
<1> HIDE DEF pass
<1>4. Left(ws, pass) = {n \in DOMAIN ws : Allowed(ws[n], ws[1], p)}
  BY <1>1, <1>2, LeftIsAllowed
<1>5. Left(ws, pass) # {}
  BY <1>1, <1>2, OptimalLeft
<1>6. /\ l \in Left(ws, pass)
      /\ \A q \in Left(ws, pass) : ncost(ws[l], ws[1]) <= ncost(ws[q], ws[1])
  BY <1>1, <1>4, <1>5, FirstLeastIs
<1> HIDE DEF l
<1> QED BY <1>3, <1>4, <1>6

-----------------------------------------------------------------------------
(* Every kind of unit starts from the statics of its plain wires: what it  *)
(* leaves, and what it reads, do not depend on what it has found.          *)
LEMMA FoundNotRead ==
  ASSUME NEW u, NEW s, NEW t
  PROVE  BuildUnit(u, s) = BuildUnit(u, t)
<1>1. init_interface(s) = init_interface(t)
  BY DEF init_interface
<1>2. /\ BuildArray(s) = BuildArray(t) /\ BuildRouter(s) = BuildRouter(t)
      /\ BuildInterconnect(u, s) = BuildInterconnect(u, t)
  BY <1>1 DEF BuildArray, BuildRouter, BuildInterconnect
<1> QED BY <1>2 DEF BuildUnit

(* The units one after the other: what each of them leaves and reads.      *)
LEMMA BuiltOne ==
  ASSUME NEW units, NEW first, NEW n \in DOMAIN units
  PROVE  BuildAll(units, first)[n] = BuildUnit(units[n], 0)
<1> DEFINE Body(b) == [m \in DOMAIN units |->
                         BuildUnit(units[m], IF m = 1 THEN first ELSE b[m - 1].statics)]
           built == CHOOSE b : b = Body(b)
           alone == [m \in DOMAIN units |-> BuildUnit(units[m], 0)]
<1>1. BuildAll(units, first) = built
  BY DEF BuildAll
<1>2. ASSUME NEW b PROVE Body(b) = alone
  BY FoundNotRead
<1>3. \E b : b = Body(b)
  <2>1. Body(alone) = alone
    BY <1>2
  <2> HIDE DEF alone, Body
  <2> QED BY <2>1
<1>4. built = Body(built)
  <2> HIDE DEF Body
  <2> QED BY <1>3
<1>5. built = alone
  BY <1>2, <1>4
<1> HIDE DEF built
<1> QED BY <1>1, <1>5

(* The widening stops at the least width fast enough, if there is one.     *)
LEMMA WidenedLeast ==
  ASSUME NEW u \in WiredUnit, u.kind = "interconnect", u.optimise
  PROVE  /\ WidenUntil(u) \in Widths
         /\ TooSlow(u, WidenUntil(u)) => \A n \in Widths : ~ (u.delay[n] <= u.bound)
         /\ ~ TooSlow(u, WidenUntil(u)) =>
              /\ u.delay[WidenUntil(u)] <= u.bound
              /\ \A n \in Widths : u.delay[n] <= u.bound => WidenUntil(u) <= n
<1>1. u.delay \in [Widths -> Nat] /\ u.bound \in Nat
  BY DEF WiredUnit
<1>2. \A n \in Widths : u.delay[n] \in Nat /\ (TooSlow(u, n) <=> ~ (u.delay[n] <= u.bound))
  BY <1>1 DEF TooSlow
<1>3. WidenUntil(u) = IF ~ TooSlow(u, 1) THEN 1 ELSE IF ~ TooSlow(u, 2) THEN 2 ELSE 4
  BY DEF WidenUntil
<1> QED BY <1>2, <1>3 DEF Widths

(* The stages of a pipelinable interconnect cover its delay.               *)
LEMMA StagesCover ==
  ASSUME NEW d \in Nat, NEW b \in Nat \ {0}
  PROVE  ((d + b - 1) \div b) * b >= d
<1> DEFINE x == d + b - 1
           q == x \div b
           r == x % b
<1>1. x \in Nat /\ b > 0
  OBVIOUS
<1> HIDE DEF x
<1>2. q \in Int /\ r \in 0 .. b - 1 /\ x = b * q + r
  BY <1>1
<1> HIDE DEF q, r
<1>3. b * q \in Int /\ b * q = q * b
  BY <1>2
<1>4. x = d + b - 1
  BY DEF x
<1> DEFINE y == q * b
<1>5. y \in Int /\ x = y + r
  BY <1>2, <1>3
<1> HIDE DEF y
<1>6. y >= d
  BY <1>2, <1>4, <1>5
<1> QED BY <1>6 DEF y, q, x

(* interconnect::interconnect(): an optimised one is as Widened says.      *)
LEMMA WidenedRight ==
  ASSUME NEW u \in WiredUnit, u.kind = "interconnect", u.optimise, NEW s
  PROVE  Widened(u, BuildInterconnect(u, s))
<1> DEFINE b == BuildInterconnect(u, s)
           w == WidenUntil(u)
           met == {n \in Widths : u.delay[n] <= u.bound}
<1>1. /\ u.delay \in [Widths -> Nat] /\ u.bound \in Nat \ {0} /\ u.pipelinable \in BOOLEAN
      /\ u.optimise \in BOOLEAN
  BY DEF WiredUnit
<1>2. /\ b.width = w
      /\ b.latency_overflow = (TooSlow(u, w) /\ ~ u.pipelinable)
      /\ b.num_pipe_stages = IF TooSlow(u, w) /\ u.pipelinable
                             THEN (u.delay[w] + u.bound - 1) \div u.bound ELSE 1
  BY DEF BuildInterconnect
<1>3. /\ w \in Widths
      /\ TooSlow(u, w) => \A n \in Widths : ~ (u.delay[n] <= u.bound)
      /\ ~ TooSlow(u, w) => /\ u.delay[w] <= u.bound
                            /\ \A n \in Widths : u.delay[n] <= u.bound => w <= n
  BY WidenedLeast
<1> HIDE DEF b, w
<1>4. met # {} => b.width \in met /\ \A n \in met : b.width <= n
  BY <1>2, <1>3
<1>5. b.latency_overflow <=> met = {} /\ ~ u.pipelinable
  <2>1. TooSlow(u, w) <=> met = {}
    BY <1>3
  <2> HIDE DEF met
  <2> QED BY <1>2, <2>1, Zenon
<1>6. u.pipelinable => b.num_pipe_stages * u.bound >= u.delay[b.width]
  <2>1. u.delay[w] \in Nat
    BY <1>1, <1>3
  <2>2. CASE TooSlow(u, w) /\ u.pipelinable
    <3>1. b.num_pipe_stages = (u.delay[w] + u.bound - 1) \div u.bound
      BY <1>2, <2>2
    <3>2. ((u.delay[w] + u.bound - 1) \div u.bound) * u.bound >= u.delay[w]
      BY <1>1, <2>1, StagesCover
    <3> QED BY <1>2, <3>1, <3>2
  <2>3. CASE ~ TooSlow(u, w)
    <3>1. b.num_pipe_stages = 1 /\ u.delay[w] <= u.bound
      BY <1>2, <1>3, <2>3
    <3>2. 1 * u.bound >= u.delay[w]
      BY <1>1, <2>1, <3>1
    <3> QED BY <1>2, <3>1, <3>2
  <2> QED BY <2>2, <2>3
<1>7. Widened(u, b)
  <2> HIDE DEF b
  <2> QED BY <1>4, <1>5, <1>6 DEF Widened
<1> QED BY <1>7 DEF b

(* What a unit reads was computed for its own width.                       *)
LEMMA ReadsItsOwn ==
  ASSUME NEW u \in WiredUnit, NEW s, NEW m \in DOMAIN BuildUnit(u, s).read
  PROVE  BuildUnit(u, s).read[m].meant = BuildUnit(u, s).read[m].width
<1>1. u.kind \in {"array", "router", "interconnect"}
  BY DEF WiredUnit
<1>2. CASE u.kind = "array"
  <2>1. BuildUnit(u, s).read = <<[meant |-> 1, width |-> 1]>>
    BY <1>2 DEF BuildUnit, BuildArray, init_interface
  <2> QED BY <2>1
<1>3. CASE u.kind = "router"
  <2>1. BuildUnit(u, s).read = <<[meant |-> 1, width |-> 1], [meant |-> 4, width |-> 4]>>
    BY <1>3 DEF BuildUnit, BuildRouter, init_interface
  <2> QED BY <2>1
<1>4. CASE u.kind = "interconnect"
  <2> DEFINE w == WidenUntil(u)
  <2>1. BuildUnit(u, s) = BuildInterconnect(u, s)
    BY <1>4 DEF BuildUnit
  <2>2. BuildInterconnect(u, s).read = <<[meant |-> w, width |-> IF w = 1 THEN 1 ELSE w]>>
    BY DEF BuildInterconnect, init_interface
  <2>3. (IF w = 1 THEN 1 ELSE w) = w
    OBVIOUS
  <2> HIDE DEF w
  <2> QED BY <2>1, <2>2, <2>3
<1> QED BY <1>1, <1>2, <1>3, <1>4

(* Units built in any order, after a wire of any width or none.            *)
LEMMA EveryOwnWidth ==
  ASSUME NEW first \in {0} \cup Widths
  PROVE  OwnWidth[first]
<1> SUFFICES ASSUME NEW units \in Builds, NEW n \in DOMAIN units
             PROVE  LET built == BuildAll(units, first) IN
                      /\ \A m \in DOMAIN built[n].read :
                           built[n].read[m].meant = built[n].read[m].width
                      /\ units[n].kind = "interconnect" /\ units[n].optimise =>
                           Widened(units[n], built[n])
  BY DEF OwnWidth
<1>1. units[n] \in WiredUnit
  <2>1. units \in Seq(WiredUnit)
    BY WiresAssumption
  <2> QED BY <2>1
<1> DEFINE b == BuildAll(units, first)[n]
<1>2. b = BuildUnit(units[n], 0)
  BY BuiltOne
<1> HIDE DEF b
<1>3. \A m \in DOMAIN b.read : b.read[m].meant = b.read[m].width
  BY <1>1, <1>2, ReadsItsOwn
<1>4. ASSUME units[n].kind = "interconnect", units[n].optimise
      PROVE  Widened(units[n], b)
  <2>1. b = BuildInterconnect(units[n], 0)
    BY <1>2, <1>4 DEF BuildUnit
  <2> QED BY <1>1, <1>4, <2>1, WidenedRight
<1> QED BY <1>3, <1>4 DEF b

(* Wire::update_fullswing(), interconnect.cc: for lists of any length, and *)
(* for units in any number and order, whatever width of wire a request or  *)
(* its routers have left in the statics of Wire.                           *)
THEOREM WiresRightCorrect == Spec => []WiresRight
<1>1. ASSUME IInv PROVE WiresRight
  <2>1. wires = Null \/ wires \in WireType
    BY <1>1, Parts DEF TypeOK
  <2>2. (IF wires = Null THEN 0 ELSE wires.scale) \in {0} \cup Widths
    BY <2>1 DEF WireType, Widths
  <2> QED BY <2>2, EachPenaltyKept, EveryOwnWidth DEF WiresRight
<1> QED BY <1>1, Invariance, PTL

-----------------------------------------------------------------------------
(* The banks of a NUCA cache.                                              *)

(* Induction up to a bound.                                                *)
LEMMA UpTo ==
  ASSUME NEW n \in Nat, NEW T, 0 \in T,
         \A j \in 0 .. n : j \in T /\ j < n => j + 1 \in T
  PROVE  0 .. n \subseteq T
<1> DEFINE Out == (0 .. n) \ T
<1>1. ASSUME Out # {} PROVE FALSE
  <2>1. Out \subseteq Nat
    OBVIOUS
  <2>2. PICK m \in Out : \A h \in Out : m <= h
    BY <1>1, <2>1, Smallest
  <2>3. m \in 0 .. n /\ m \notin T /\ m # 0
    OBVIOUS
  <2>4. m - 1 \in 0 .. n /\ m - 1 < n /\ m - 1 \notin Out
    BY <2>2, <2>3
  <2>5. (m - 1) + 1 \in T
    BY <2>3, <2>4
  <2> QED BY <2>3, <2>5
<1> QED BY <1>1

(* What a loop goes through, from x0 by a step that knows its number.      *)
Looped(s, n, x0, step) ==
  s = [j \in 0 .. n |-> IF j = 0 THEN x0 ELSE step[<<j, s[j - 1]>>]]

(* Every loop has a sequence of states.                                    *)
LEMMA LoopExists ==
  ASSUME NEW n \in Nat, NEW D, NEW x0 \in D, NEW step \in [(1 .. n) \X D -> D]
  PROVE  \E s \in [0 .. n -> D] : Looped(s, n, x0, step)
<1> DEFINE T == {m \in 0 .. n : \E s \in [0 .. m -> D] : Looped(s, m, x0, step)}
<1>1. 0 \in T
  <2> DEFINE z == [j \in 0 .. 0 |-> x0]
  <2>1. z \in [0 .. 0 -> D] /\ Looped(z, 0, x0, step)
    BY DEF Looped
  <2> QED BY <2>1
<1>2. ASSUME NEW m \in 0 .. n, m \in T, m < n PROVE m + 1 \in T
  <2>1. PICK s \in [0 .. m -> D] : Looped(s, m, x0, step)
    BY <1>2
  <2> DEFINE w == [j \in 0 .. m + 1 |-> IF j <= m THEN s[j] ELSE step[<<m + 1, s[m]>>]]
  <2>2. m \in Nat /\ m + 1 \in 1 .. n
    BY <1>2
  <2>3. w \in [0 .. m + 1 -> D]
    <3>1. s[m] \in D
      BY <2>1, <2>2
    <3>2. step[<<m + 1, s[m]>>] \in D
      BY <2>2, <3>1
    <3>3. ASSUME NEW j \in 0 .. m + 1
          PROVE  (IF j <= m THEN s[j] ELSE step[<<m + 1, s[m]>>]) \in D
      BY <2>1, <2>2, <3>2
    <3> QED BY <3>3
  <2>4. ASSUME NEW j \in 0 .. m + 1
        PROVE  w[j] = IF j = 0 THEN x0 ELSE step[<<j, w[j - 1]>>]
    <3>1. CASE j <= m
      <4>1. j \in 0 .. m
        BY <2>2, <3>1
      <4>2. w[j] = s[j] /\ s[j] = IF j = 0 THEN x0 ELSE step[<<j, s[j - 1]>>]
        BY <2>1, <3>1, <4>1 DEF Looped
      <4>3. j # 0 => w[j - 1] = s[j - 1]
        BY <2>2, <4>1
      <4> QED BY <4>2, <4>3
    <3>2. CASE j = m + 1
      <4>1. w[j] = step[<<m + 1, s[m]>>] /\ w[m] = s[m] /\ j - 1 = m /\ j # 0
        BY <2>2, <3>2
      <4> QED BY <3>2, <4>1
    <3> QED BY <2>2, <3>1, <3>2
  <2> HIDE DEF w
  <2>5. w = [j \in 0 .. m + 1 |-> IF j = 0 THEN x0 ELSE step[<<j, w[j - 1]>>]]
    BY <2>3, <2>4
  <2>6. Looped(w, m + 1, x0, step)
    BY <2>5 DEF Looped
  <2>7. m + 1 \in 0 .. n
    BY <1>2
  <2> QED BY <2>3, <2>6, <2>7
<1> HIDE DEF T
<1>3. 0 .. n \subseteq T
  BY <1>1, <1>2, UpTo
<1>4. n \in T
  BY <1>3
<1> QED BY <1>4 DEF T

(* Powers of two: the recursion has an answer, and it doubles.             *)
LEMMA PowerIs ==
  ASSUME NEW n \in Nat
  PROVE  \E s \in [0 .. n -> Nat] :
           /\ s = [h \in 0 .. n |-> IF h = 0 THEN 1 ELSE 2 * s[h - 1]]
           /\ PowerOfTwo(n) = s[n]
<1> DEFINE Body(s) == [h \in 0 .. n |-> IF h = 0 THEN 1 ELSE 2 * s[h - 1]]
           pow == CHOOSE s : s = Body(s)
           step == [x \in (1 .. n) \X Nat |-> 2 * x[2]]
<1>1. PowerOfTwo(n) = pow[n]
  BY DEF PowerOfTwo
<1>2. step \in [(1 .. n) \X Nat -> Nat]
  OBVIOUS
<1>3. PICK s \in [0 .. n -> Nat] : Looped(s, n, 1, step)
  <2> HIDE DEF step
  <2> QED BY <1>2, LoopExists
<1>4. s = Body(s)
  <2>1. ASSUME NEW h \in 0 .. n, h # 0 PROVE step[<<h, s[h - 1]>>] = 2 * s[h - 1]
    <3>1. h \in 1 .. n /\ h - 1 \in 0 .. n
      BY <2>1
    <3>2. <<h, s[h - 1]>> \in (1 .. n) \X Nat
      BY <3>1
    <3> QED BY <3>2
  <2> HIDE DEF step
  <2> QED BY <1>3, <2>1 DEF Looped
<1>5. pow = Body(pow)
  <2> HIDE DEF Body
  <2> QED BY <1>4
<1> DEFINE T == {m \in 0 .. n : pow[m] = s[m]}
<1> HIDE DEF pow, step
<1>6. 0 \in T
  BY <1>4, <1>5
<1>7. ASSUME NEW m \in 0 .. n, m \in T, m < n PROVE m + 1 \in T
  <2>1. m + 1 \in 0 .. n /\ m + 1 # 0 /\ (m + 1) - 1 = m
    BY <1>7
  <2>2. pow[m + 1] = 2 * pow[m] /\ s[m + 1] = 2 * s[m]
    BY <1>4, <1>5, <2>1
  <2> QED BY <1>7, <2>1, <2>2
<1> HIDE DEF T
<1>8. 0 .. n \subseteq T
  BY <1>6, <1>7, UpTo
<1>9. pow[n] = s[n]
  BY <1>8 DEF T
<1> QED BY <1>1, <1>3, <1>4, <1>9

(* Twice a power is the next.                                              *)
LEMMA PowerDoubles ==
  ASSUME NEW n \in Nat
  PROVE  /\ PowerOfTwo(0) = 1
         /\ PowerOfTwo(n) \in Nat
         /\ PowerOfTwo(n + 1) = 2 * PowerOfTwo(n)
<1>1. PowerOfTwo(0) = 1
  <2>1. PICK z \in [0 .. 0 -> Nat] : /\ z = [h \in 0 .. 0 |-> IF h = 0 THEN 1 ELSE 2 * z[h - 1]]
                                     /\ PowerOfTwo(0) = z[0]
    BY PowerIs
  <2> QED BY <2>1
<1>2. PICK s \in [0 .. n -> Nat] : /\ s = [h \in 0 .. n |-> IF h = 0 THEN 1 ELSE 2 * s[h - 1]]
                                   /\ PowerOfTwo(n) = s[n]
  BY PowerIs
<1>3. PICK t \in [0 .. n + 1 -> Nat] :
        /\ t = [h \in 0 .. n + 1 |-> IF h = 0 THEN 1 ELSE 2 * t[h - 1]]
        /\ PowerOfTwo(n + 1) = t[n + 1]
  <2>1. n + 1 \in Nat
    OBVIOUS
  <2> QED BY <2>1, PowerIs
<1> DEFINE T == {m \in 0 .. n : t[m] = s[m]}
<1>4. 0 \in T
  BY <1>2, <1>3
<1>5. ASSUME NEW m \in 0 .. n, m \in T, m < n PROVE m + 1 \in T
  <2>1. m + 1 \in 0 .. n /\ m + 1 \in 0 .. n + 1 /\ m + 1 # 0 /\ (m + 1) - 1 = m
    BY <1>5
  <2>2. t[m + 1] = 2 * t[m] /\ s[m + 1] = 2 * s[m]
    BY <1>2, <1>3, <2>1
  <2> QED BY <1>5, <2>1, <2>2
<1> HIDE DEF T
<1>6. 0 .. n \subseteq T
  BY <1>4, <1>5, UpTo
<1>7. t[n] = s[n]
  BY <1>6 DEF T
<1>8. t[n + 1] = 2 * t[n]
  <2>1. n + 1 \in 0 .. n + 1 /\ n + 1 # 0 /\ (n + 1) - 1 = n
    OBVIOUS
  <2> QED BY <1>3, <2>1
<1> QED BY <1>1, <1>2, <1>3, <1>7, <1>8

(* Powers grow, faster than their exponents.                               *)
LEMMA PowersGrow ==
  ASSUME NEW n \in Nat
  PROVE  \A m \in 0 .. n :
           PowerOfTwo(m) \in Nat /\ m < PowerOfTwo(m) /\ PowerOfTwo(m) <= PowerOfTwo(n)
<1> DEFINE T == {h \in 0 .. n : /\ h < PowerOfTwo(h)
                                /\ \A m \in 0 .. h : PowerOfTwo(m) <= PowerOfTwo(h)}
<1>1. \A m \in Nat : PowerOfTwo(m) \in Nat
  BY PowerDoubles
<1>2. 0 \in T
  <2>1. PowerOfTwo(0) = 1
    BY PowerDoubles
  <2> QED BY <2>1
<1>3. ASSUME NEW h \in 0 .. n, h \in T, h < n PROVE h + 1 \in T
  <2>1. h \in Nat /\ PowerOfTwo(h + 1) = 2 * PowerOfTwo(h)
    BY PowerDoubles
  <2>2. PowerOfTwo(h) \in Nat /\ h < PowerOfTwo(h) /\ PowerOfTwo(h + 1) \in Nat
    BY <1>1, <1>3, <2>1
  <2>3. h + 1 < PowerOfTwo(h + 1) /\ PowerOfTwo(h) <= PowerOfTwo(h + 1)
    BY <2>1, <2>2
  <2>4. ASSUME NEW m \in 0 .. h + 1 PROVE PowerOfTwo(m) <= PowerOfTwo(h + 1)
    <3>1. CASE m = h + 1
      BY <3>1, <2>2
    <3>2. CASE m \in 0 .. h
      <4>1. PowerOfTwo(m) <= PowerOfTwo(h) /\ PowerOfTwo(m) \in Nat
        BY <1>1, <1>3, <3>2
      <4> QED BY <2>2, <2>3, <4>1
    <3> QED BY <2>1, <3>1, <3>2
  <2>5. h + 1 \in 0 .. n
    BY <1>3
  <2> QED BY <2>3, <2>4, <2>5
<1> HIDE DEF T
<1>4. 0 .. n \subseteq T
  BY <1>2, <1>3, UpTo
<1>5. n \in T
  BY <1>4
<1>6. ASSUME NEW m \in 0 .. n PROVE m < PowerOfTwo(m)
  BY <1>4 DEF T
<1> QED BY <1>1, <1>5, <1>6 DEF T

(* logtwo(): the power below and the power above.                          *)
LEMMA LogIs ==
  ASSUME NEW n \in Nat \ {0}
  PROVE  /\ logtwo(n) \in 0 .. n
         /\ PowerOfTwo(logtwo(n)) <= n
         /\ n < PowerOfTwo(logtwo(n) + 1)
<1> DEFINE Above == {h \in Nat : n < PowerOfTwo(h + 1)}
<1>1. \A h \in Nat : PowerOfTwo(h) \in Nat /\ h < PowerOfTwo(h)
  <2>1. ASSUME NEW h \in Nat PROVE PowerOfTwo(h) \in Nat /\ h < PowerOfTwo(h)
    <3>1. h \in 0 .. h
      OBVIOUS
    <3> QED BY <3>1, PowersGrow
  <2> QED BY <2>1
<1>2. n - 1 \in Above
  <2>1. n - 1 \in Nat /\ (n - 1) + 1 = n
    OBVIOUS
  <2> QED BY <1>1, <2>1
<1>3. PICK h \in Above : \A j \in Above : h <= j
  <2>1. Above \subseteq Nat /\ Above # {}
    BY <1>2
  <2> HIDE DEF Above
  <2> QED BY <2>1, Smallest
<1>4. h \in Nat /\ h <= n - 1 /\ n < PowerOfTwo(h + 1)
  BY <1>2, <1>3
<1>5. PowerOfTwo(h) <= n
  <2>1. CASE h = 0
    BY <2>1, PowerDoubles
  <2>2. CASE h # 0
    <3>1. h - 1 \in Nat /\ (h - 1) + 1 = h
      BY <1>4, <2>2
    <3>2. h - 1 \notin Above
      BY <1>3, <3>1
    <3>3. ~ (n < PowerOfTwo(h))
      BY <3>1, <3>2
    <3>4. PowerOfTwo(h) \in Nat
      BY <1>1, <1>4
    <3> QED BY <3>3, <3>4
  <2> QED BY <2>1, <2>2
<1>6. h \in 0 .. n
  BY <1>4
<1>7. \E j \in 0 .. n : PowerOfTwo(j) <= n /\ n < PowerOfTwo(j + 1)
  BY <1>4, <1>5, <1>6
<1> QED BY <1>7 DEF logtwo

(* Products of naturals are naturals, and grow with their factors.         *)
LEMMA ProductsGrow ==
  ASSUME NEW a \in Nat, NEW b \in Nat, NEW d \in Nat
  PROVE  a * d \in Nat /\ (a <= b => a * d <= b * d)
<1>1. a * d \in Nat
  OBVIOUS
<1>2. ASSUME a <= b PROVE a * d <= b * d
  <2> DEFINE e == b - a
  <2>1. e \in Nat /\ b = a + e
    BY <1>2
  <2> HIDE DEF e
  <2>2. b * d = a * d + e * d /\ e * d \in Nat
    BY <2>1
  <2> QED BY <1>1, <2>2
<1> QED BY <1>1, <1>2

(* Division with remainder.                                                *)
LEMMA QuotientIs ==
  ASSUME NEW c \in Nat, NEW d \in Nat \ {0}
  PROVE  /\ c \div d \in Nat /\ c % d \in 0 .. d - 1
         /\ c = (c \div d) * d + (c % d)
         /\ (c \div d) * d \in Nat
<1> DEFINE q == c \div d
           r == c % d
<1>1. q \in Int /\ r \in 0 .. d - 1 /\ c = d * q + r
  OBVIOUS
<1> HIDE DEF q, r
<1>2. d * q = q * d /\ q * d \in Int
  BY <1>1
<1>3. ASSUME ~ (q >= 0) PROVE FALSE
  <2> DEFINE p == (0 - q) - 1
  <2>1. p \in Nat /\ q = (0 - p) - 1
    BY <1>1, <1>3
  <2> HIDE DEF p
  <2>2. p * d \in Nat /\ q * d = (0 - p * d) - d
    BY <2>1
  <2> QED BY <1>1, <1>2, <2>2
<1>4. q \in Nat
  BY <1>1, <1>3
<1>5. q * d \in Nat
  BY <1>4, ProductsGrow
<1> QED BY <1>1, <1>2, <1>4, <1>5 DEF q, r

(* A quotient is the largest number of times the divisor goes in.          *)
LEMMA QuotientLargest ==
  ASSUME NEW c \in Nat, NEW d \in Nat \ {0}, NEW m \in Nat
  PROVE  /\ m * d <= c => m <= c \div d
         /\ c < m * d => c \div d < m
         /\ c = m * d => c \div d = m
<1> DEFINE q == c \div d
           r == c % d
<1>1. q \in Nat /\ r \in 0 .. d - 1 /\ c = q * d + r /\ q * d \in Nat
  BY QuotientIs
<1> HIDE DEF q, r
<1>2. ASSUME m * d <= c PROVE m <= q
  <2>1. SUFFICES ASSUME q + 1 <= m PROVE FALSE
    BY <1>1
  <2>2. (q + 1) * d <= m * d /\ m * d \in Nat
    BY <1>1, <2>1, ProductsGrow
  <2>3. (q + 1) * d = q * d + d
    BY <1>1
  <2> QED BY <1>1, <1>2, <2>2, <2>3
<1>3. ASSUME c < m * d PROVE q < m
  <2>1. SUFFICES ASSUME m <= q PROVE FALSE
    BY <1>1
  <2>2. m * d <= q * d /\ m * d \in Nat
    BY <1>1, <2>1, ProductsGrow
  <2> QED BY <1>1, <1>3, <2>2
<1>4. ASSUME c = m * d PROVE q = m
  <2>1. m <= q
    BY <1>2, <1>4
  <2>2. c < (m + 1) * d
    <3>1. (m + 1) * d = m * d + d /\ m * d \in Nat
      BY ProductsGrow
    <3> QED BY <1>4, <3>1
  <2>3. q < m + 1
    <3>1. SUFFICES ASSUME m + 1 <= q PROVE FALSE
      BY <1>1
    <3>2. (m + 1) * d <= q * d /\ (m + 1) * d \in Nat
      BY <1>1, <3>1, ProductsGrow
    <3> QED BY <1>1, <2>2, <3>2
  <2> QED BY <1>1, <2>1, <2>3
<1> QED BY <1>2, <1>3, <1>4 DEF q

(* What divides by no more than itself leaves something.                   *)
LEMMA QuotientPositive ==
  ASSUME NEW c \in Nat, NEW d \in Nat \ {0}, d <= c
  PROVE  c \div d \in Nat \ {0} /\ (c \div d) * d <= c /\ (c \div d) * d \in Nat
<1> DEFINE q == c \div d
           h == q * d
<1>1. q \in Nat /\ c % d \in 0 .. d - 1 /\ c = h + (c % d) /\ h \in Nat
  BY QuotientIs
<1>2. 1 <= q
  <2>1. 1 \in Nat /\ 1 * d <= c
    OBVIOUS
  <2> QED BY <2>1, QuotientLargest
<1> HIDE DEF q, h
<1>3. q \in Nat \ {0} /\ h <= c
  BY <1>1, <1>2
<1> QED BY <1>1, <1>3 DEF q, h

(* 128 and 256 banks.                                                      *)
LEMMA LogBelow ==
  ASSUME NEW n \in Nat \ {0}
  PROVE  (n < 128 => logtwo(n) < 7) /\ (n < 256 => logtwo(n) < 8)
<1> DEFINE P(m) == PowerOfTwo(m)
<1>1. P(1) = 2 /\ P(2) = 4 /\ P(3) = 8 /\ P(4) = 16
  <2>1. P(0) = 1 /\ P(0 + 1) = 2 * P(0) /\ P(1 + 1) = 2 * P(1) /\ P(2 + 1) = 2 * P(2)
        /\ P(3 + 1) = 2 * P(3)
    BY PowerDoubles
  <2> HIDE DEF P
  <2> QED BY <2>1
<1>2. P(5) = 32 /\ P(6) = 64 /\ P(7) = 128 /\ P(8) = 256
  <2>1. P(4 + 1) = 2 * P(4) /\ P(5 + 1) = 2 * P(5) /\ P(6 + 1) = 2 * P(6)
        /\ P(7 + 1) = 2 * P(7)
    BY PowerDoubles
  <2> HIDE DEF P
  <2> QED BY <1>1, <2>1
<1> DEFINE l == logtwo(n)
<1>3. l \in Nat /\ P(l) <= n
  BY LogIs
<1> HIDE DEF l
<1>4. P(l) \in Nat /\ (l >= 7 => P(7) <= P(l)) /\ (l >= 8 => P(8) <= P(l))
  <2>1. \A m \in 0 .. l : PowerOfTwo(m) <= PowerOfTwo(l)
    BY <1>3, PowersGrow
  <2>2. PowerOfTwo(l) \in Nat
    BY <1>3, PowerDoubles
  <2>3. (l >= 7 => 7 \in 0 .. l) /\ (l >= 8 => 8 \in 0 .. l)
    BY <1>3
  <2> QED BY <2>1, <2>2, <2>3
<1> HIDE DEF P
<1>5. (n < 128 => l < 7) /\ (n < 256 => l < 8)
  BY <1>2, <1>3, <1>4
<1> QED BY <1>5 DEF l

(* The bank is halved as long as two of the smallest fit in what is left.  *)
LEMMA Halved ==
  ASSUME NEW c \in Nat \ {0}, NEW low \in Nat \ {0}, low <= c,
         NEW it \in 0 .. logtwo(c \div low) - 1
  PROVE  /\ c \div low \in Nat \ {0} /\ PowerOfTwo(it) \in Nat \ {0}
         /\ (2 * low) * PowerOfTwo(it) <= c
<1> DEFINE n == c \div low
           l == logtwo(n)
           p == PowerOfTwo(it)
<1>1. n \in Nat \ {0} /\ n * low <= c /\ n * low \in Nat
  BY QuotientPositive
<1> HIDE DEF n
<1>2. l \in Nat /\ PowerOfTwo(l) <= n
  BY <1>1, LogIs
<1>3. it \in 0 .. l - 1
  BY DEF n, l
<1> HIDE DEF l
<1>4. PowerOfTwo(l) = 2 * PowerOfTwo(l - 1) /\ p <= PowerOfTwo(l - 1)
  <2>1. l - 1 \in Nat /\ (l - 1) + 1 = l /\ it \in 0 .. l - 1
    BY <1>2, <1>3
  <2> QED BY <2>1, PowerDoubles, PowersGrow
<1>5. p \in Nat /\ it < p /\ it \in Nat /\ PowerOfTwo(l - 1) \in Nat
  <2>1. it \in Nat /\ it \in 0 .. it /\ l - 1 \in Nat
    BY <1>2, <1>3
  <2> QED BY <2>1, PowerDoubles, PowersGrow
<1> HIDE DEF p
<1>6. 2 * p <= n
  BY <1>1, <1>2, <1>4, <1>5
<1>7. (2 * p) * low <= n * low /\ (2 * p) * low \in Nat
  BY <1>1, <1>5, <1>6, ProductsGrow
<1>8. (2 * low) * p = (2 * p) * low
  BY <1>5
<1>9. (2 * low) * p <= c
  BY <1>1, <1>7, <1>8
<1> QED BY <1>1, <1>5, <1>9 DEF n, p

(* What a cache is divided by is not larger than the cache.                *)
LEMMA DivisorFits ==
  ASSUME NEW q \in NucaCaches, q.cache_sz >= MIN_BANKSIZE(q), NEW it \in Iterations(q)
  PROVE  /\ q.cache_sz \in Nat \ {0} /\ MIN_BANKSIZE(q) \in Nat \ {0}
         /\ Divisor(q, it) \in Nat \ {0} /\ Divisor(q, it) <= q.cache_sz
         /\ q.nuca_bank_count = 0 =>
              (2 * MIN_BANKSIZE(q)) * Divisor(q, it) <= q.cache_sz
<1> DEFINE c == q.cache_sz
           low == MIN_BANKSIZE(q)
<1>1. /\ c \in Nat \ {0} /\ q.assoc \in Nat \ {0} /\ q.nuca_bank_count \in Nat
      /\ q.nuca_bank_count <= c
  BY NucaAssumption DEF NucaCache
<1>2. low \in Nat \ {0}
  BY <1>1 DEF MIN_BANKSIZE
<1>3. low <= c
  BY <1>1, <1>2
<1> HIDE DEF c, low
<1>4. CASE q.nuca_bank_count # 0
  <2>1. Divisor(q, it) = q.nuca_bank_count
    BY <1>4 DEF Divisor
  <2> QED BY <1>1, <1>2, <1>4, <2>1 DEF c, low
<1>5. CASE q.nuca_bank_count = 0
  <2>1. Divisor(q, it) = PowerOfTwo(it)
    BY <1>5 DEF Divisor
  <2>2. it \in 0 .. logtwo(c \div low) - 1
    BY <1>5 DEF Iterations, c, low
  <2>3. PowerOfTwo(it) \in Nat \ {0} /\ (2 * low) * PowerOfTwo(it) <= c
    BY <1>1, <1>2, <1>3, <2>2, Halved
  <2>4. PowerOfTwo(it) <= (2 * low) * PowerOfTwo(it) /\ (2 * low) * PowerOfTwo(it) \in Nat
    <3>1. 1 \in Nat /\ 2 * low \in Nat /\ 1 <= 2 * low
      BY <1>2
    <3>2. 1 * PowerOfTwo(it) <= (2 * low) * PowerOfTwo(it)
      BY <2>3, <3>1, ProductsGrow
    <3> QED BY <2>3, <3>1, <3>2, ProductsGrow
  <2>5. PowerOfTwo(it) <= c
    BY <1>1, <2>3, <2>4
  <2> QED BY <1>1, <1>2, <2>1, <2>3, <2>5 DEF c, low
<1> QED BY <1>4, <1>5

(* sim_nuca(): the banks of every iteration are the whole cache.           *)
LEMMA EveryBankRight == BanksRight
<1> SUFFICES ASSUME NEW q \in NucaCaches, q.cache_sz >= MIN_BANKSIZE(q)
             PROVE  /\ q.cache_sz >= 2 * MIN_BANKSIZE(q) => Iterations(q) # {}
                    /\ \A it \in Iterations(q) : BanksMakeUp(q, it)
  BY DEF BanksRight
<1> DEFINE c == q.cache_sz
           low == MIN_BANKSIZE(q)
<1>1. /\ c \in Nat \ {0} /\ q.nuca_bank_count \in Nat
  BY NucaAssumption DEF NucaCache
<1>2. low \in Nat \ {0}
  <2>1. q.assoc \in Nat \ {0}
    BY NucaAssumption DEF NucaCache
  <2> QED BY <2>1 DEF MIN_BANKSIZE
<1>3. c >= low
  OBVIOUS
<1> HIDE DEF c, low
<1> DEFINE n == c \div low
<1>4. n \in Nat \ {0}
  BY <1>1, <1>2, <1>3, QuotientPositive
<1> HIDE DEF n
<1>5. ASSUME c >= 2 * low PROVE Iterations(q) # {}
  <2>1. CASE q.nuca_bank_count # 0
    BY <2>1 DEF Iterations
  <2>2. CASE q.nuca_bank_count = 0
    <3>1. 2 <= n
      BY <1>1, <1>2, <1>5, QuotientLargest DEF n
    <3>2. logtwo(n) \in Nat /\ n < PowerOfTwo(logtwo(n) + 1)
      BY <1>4, LogIs
    <3>3. logtwo(n) # 0
      <4>1. PowerOfTwo(0) = 1 /\ PowerOfTwo(0 + 1) = 2 * PowerOfTwo(0)
        BY PowerDoubles
      <4>2. PowerOfTwo(0 + 1) = 2
        BY <4>1
      <4> QED BY <1>4, <3>1, <3>2, <4>2
    <3>4. 0 \in 0 .. logtwo(n) - 1
      BY <3>2, <3>3
    <3> QED BY <2>2, <3>4 DEF Iterations, n, c, low
  <2> QED BY <2>1, <2>2
<1>6. ASSUME NEW it \in Iterations(q)
      PROVE  BanksMakeUp(q, it)
  <2> DEFINE d == Divisor(q, it)
             b == BankSize(q, it)
  <2>1. d \in Nat \ {0} /\ d <= c /\ (q.nuca_bank_count = 0 => (2 * low) * d <= c)
    BY DivisorFits DEF c, low
  <2>2. b = c \div d /\ BankCount(q, it) = c \div b /\ Held(q, it) = (c \div b) * b
    BY DEF BankSize, BankCount, Held, c
  <2> HIDE DEF d, b
  <2>3. b \in Nat \ {0}
    BY <1>1, <2>1, <2>2, QuotientPositive
  <2>4. Held(q, it) <= c /\ c < Held(q, it) + b
    <3> DEFINE h == (c \div b) * b
               r == c % b
    <3>1. h \in Nat /\ r \in 0 .. b - 1 /\ c = h + r
      BY <1>1, <2>3, QuotientIs
    <3> HIDE DEF h, r
    <3>2. h <= c /\ c < h + b
      BY <2>3, <3>1
    <3> QED BY <2>2, <3>2 DEF h
  <2>5. ASSUME c % d = 0
        PROVE  Held(q, it) = c /\ BankCount(q, it) = d
    <3>1. c = b * d + (c % d) /\ b * d \in Nat
      BY <1>1, <2>1, <2>2, QuotientIs
    <3>2. c = d * b
      BY <1>1, <2>1, <2>3, <2>5, <3>1
    <3>3. c \div b = d
      BY <1>1, <2>1, <2>3, <3>2, QuotientLargest
    <3> QED BY <2>2, <3>2, <3>3
  <2>6. ASSUME q.nuca_bank_count = 0 PROVE b >= 2 * low
    <3>1. 2 * low \in Nat
      BY <1>2
    <3>2. 2 * low <= c \div d
      BY <1>1, <2>1, <2>6, <3>1, QuotientLargest
    <3> QED BY <2>2, <2>3, <3>1, <3>2
  <2>7. ASSUME IF q.nuca_bank_count = 0 THEN c < 256 * low ELSE q.nuca_bank_count < 128
        PROVE  ContentionRow(it) \in 0 .. 6
    <3>1. CASE q.nuca_bank_count = 0
      <4>1. n < 256
        BY <1>1, <1>2, <2>7, <3>1, QuotientLargest DEF n
      <4>2. logtwo(n) < 8 /\ logtwo(n) \in Nat
        BY <1>4, <4>1, LogBelow, LogIs
      <4>3. it \in 0 .. logtwo(n) - 1
        BY <3>1 DEF Iterations, n, c, low
      <4>4. it \in 0 .. 6
        BY <4>2, <4>3
      <4> QED BY <4>4 DEF ContentionRow
    <3>2. CASE q.nuca_bank_count # 0
      <4>1. it = logtwo(q.nuca_bank_count)
        BY <3>2 DEF Iterations
      <4>2. it < 7 /\ it \in Nat
        BY <1>1, <2>7, <3>2, <4>1, LogBelow, LogIs
      <4> QED BY <4>2 DEF ContentionRow
    <3> QED BY <3>1, <3>2
  <2> QED BY <2>4, <2>5, <2>6, <2>7 DEF BanksMakeUp, d, b, c, low
<1> QED BY <1>5, <1>6 DEF c, low

-----------------------------------------------------------------------------
(* The grids of a number of banks.                                         *)

(* A hop takes a number of cycles.                                         *)
LEMMA HopTyped ==
  ASSUME NEW conf \in Configuration, NEW r \in Nat, NEW c \in Nat
  PROVE  Hop(conf, r, c) \in Nat
<1>1. conf.ver \in Nat /\ conf.hor \in Nat /\ conf.delay \in Nat
  BY DEF Configuration
<1> DEFINE x == r * conf.ver
           y == c * conf.hor
           z == conf.delay * (r + 1 + c)
<1>2. x \in Nat /\ y \in Nat /\ z \in Nat
  <2>1. r + 1 + c \in Nat
    OBVIOUS
  <2> QED BY <1>1, <2>1, ProductsGrow
<1>3. Hop(conf, r, c) = 2 * (x + y) + 2 * z
  BY DEF Hop
<1> HIDE DEF x, y, z
<1> QED BY <1>2, <1>3

(* The latency of a grid: the loops over rows and columns have a sum.      *)
LEMMA LatencyTyped ==
  ASSUME NEW conf \in Configuration, NEW r \in Nat, NEW c \in Nat \ {0}
  PROVE  AccessLatency(conf, r, c) \in Nat
<1> DEFINE n == r * c
           first == conf.cycles * conf.bank_count
           hop(b) == Hop(conf, (b - 1) \div c, (b - 1) % c)
           Body(t) == [b \in 0 .. n |-> IF b = 0 THEN first ELSE t[b - 1] + hop(b)]
           tot == CHOOSE t : t = Body(t)
           step == [x \in (1 .. n) \X Nat |-> x[2] + hop(x[1])]
<1>1. AccessLatency(conf, r, c) = tot[n]
  BY DEF AccessLatency
<1>2. n \in Nat /\ first \in Nat
  <2>1. conf.cycles \in Nat /\ conf.bank_count \in Nat
    BY DEF Configuration
  <2> QED BY <2>1, ProductsGrow
<1>3. \A b \in 1 .. n : hop(b) \in Nat
  <2>1. ASSUME NEW b \in 1 .. n PROVE hop(b) \in Nat
    <3>1. b - 1 \in Nat
      BY <1>2
    <3>2. (b - 1) \div c \in Nat /\ (b - 1) % c \in 0 .. c - 1
      BY <3>1, QuotientIs
    <3>3. (b - 1) % c \in Nat
      BY <3>2
    <3> QED BY <3>2, <3>3, HopTyped
  <2> QED BY <2>1
<1> HIDE DEF n, first, hop
<1>4. step \in [(1 .. n) \X Nat -> Nat]
  BY <1>3
<1>5. PICK s \in [0 .. n -> Nat] : Looped(s, n, first, step)
  <2> HIDE DEF step
  <2> QED BY <1>2, <1>4, LoopExists
<1>6. s = Body(s)
  <2>1. ASSUME NEW b \in 0 .. n, b # 0 PROVE step[<<b, s[b - 1]>>] = s[b - 1] + hop(b)
    <3>1. b \in 1 .. n /\ b - 1 \in 0 .. n
      BY <1>2, <2>1
    <3>2. <<b, s[b - 1]>> \in (1 .. n) \X Nat
      BY <3>1
    <3> QED BY <3>2
  <2> HIDE DEF step
  <2> QED BY <1>5, <2>1 DEF Looped
<1>7. tot = Body(tot)
  <2> HIDE DEF Body
  <2> QED BY <1>6
<1> HIDE DEF tot, step
<1> DEFINE T == {m \in 0 .. n : tot[m] \in Nat}
<1>8. 0 \in T
  BY <1>2, <1>7
<1>9. ASSUME NEW m \in 0 .. n, m \in T, m < n PROVE m + 1 \in T
  <2>1. m + 1 \in 0 .. n /\ m + 1 \in 1 .. n /\ m + 1 # 0 /\ (m + 1) - 1 = m
    BY <1>2, <1>9
  <2>2. tot[m + 1] = tot[m] + hop(m + 1)
    BY <1>7, <2>1
  <2>3. tot[m] \in Nat /\ hop(m + 1) \in Nat
    BY <1>3, <1>9, <2>1
  <2> QED BY <2>1, <2>2, <2>3
<1> HIDE DEF T
<1>10. 0 .. n \subseteq T
  BY <1>2, <1>8, <1>9, UpTo
<1>11. tot[n] \in Nat
  BY <1>2, <1>10 DEF T
<1> QED BY <1>1, <1>11

(* The best of a search.                                                   *)
Grid == [acclat : Nat, banks : Nat \ {0}, rows : Nat, columns : Nat]

(* A comparison leaves a grid.                                             *)
LEMMA BetterTyped ==
  ASSUME NEW conf \in Configuration, NEW c \in Nat \ {0}, NEW opt \in Grid
  PROVE  Better(conf, c, opt) \in Grid
<1>1. conf.bank_count \in Nat \ {0} /\ conf.bank_count \in Nat
  BY DEF Configuration
<1>2. conf.bank_count \div c \in Nat
  BY <1>1, QuotientIs
<1>3. AccessLatency(conf, conf.bank_count \div c, c) \in Nat
  BY <1>2, LatencyTyped
<1> QED BY <1>1, <1>2, <1>3 DEF Better, Grid

(* The loop over the columns.                                              *)
LEMMA SearchIs ==
  ASSUME NEW conf \in Configuration, NEW opt \in Grid
  PROVE  \E best \in [0 .. conf.bank_count -> Grid] :
           /\ SearchGrid(conf, opt) = best[conf.bank_count]
           /\ best[0] = opt
           /\ \A c \in 1 .. conf.bank_count :
                best[c] = IF conf.bank_count % c # 0 THEN best[c - 1]
                          ELSE Better(conf, c, best[c - 1])
<1> DEFINE n == conf.bank_count
           Turned(c, b) == IF n % c # 0 THEN b ELSE Better(conf, c, b)
           Body(t) == [c \in 0 .. n |->
                         IF c = 0 THEN opt
                         ELSE IF n % c # 0 THEN t[c - 1]
                         ELSE Better(conf, c, t[c - 1])]
           best == CHOOSE t : t = Body(t)
           step == [x \in (1 .. n) \X Grid |-> Turned(x[1], x[2])]
<1>1. SearchGrid(conf, opt) = best[n]
  BY DEF SearchGrid
<1>2. n \in Nat
  BY DEF Configuration
<1>3. \A c \in 1 .. n : \A b \in Grid : Turned(c, b) \in Grid
  <2>1. ASSUME NEW c \in 1 .. n, NEW b \in Grid PROVE Better(conf, c, b) \in Grid
    <3>1. c \in Nat \ {0}
      BY <1>2
    <3> QED BY <3>1, BetterTyped
  <2> QED BY <2>1
<1>4. \A t : Body(t) = [c \in 0 .. n |-> IF c = 0 THEN opt ELSE Turned(c, t[c - 1])]
  OBVIOUS
<1> HIDE DEF n, Turned, Body
<1>5. step \in [(1 .. n) \X Grid -> Grid]
  BY <1>3
<1>6. PICK s \in [0 .. n -> Grid] : Looped(s, n, opt, step)
  <2> HIDE DEF step
  <2> QED BY <1>2, <1>5, LoopExists
<1>7. s = Body(s)
  <2>1. ASSUME NEW c \in 0 .. n, c # 0 PROVE step[<<c, s[c - 1]>>] = Turned(c, s[c - 1])
    <3>1. c \in 1 .. n /\ c - 1 \in 0 .. n
      BY <1>2, <2>1
    <3>2. <<c, s[c - 1]>> \in (1 .. n) \X Grid
      BY <3>1
    <3> QED BY <3>2
  <2> HIDE DEF step
  <2> QED BY <1>4, <1>6, <2>1 DEF Looped
<1>8. best = Body(best)
  BY <1>7
<1> HIDE DEF best, step
<1>9. best = [c \in 0 .. n |-> IF c = 0 THEN opt ELSE Turned(c, best[c - 1])]
  BY <1>4, <1>8
<1> DEFINE T == {m \in 0 .. n : best[m] \in Grid}
<1>10. 0 \in T
  BY <1>2, <1>9
<1>11. ASSUME NEW m \in 0 .. n, m \in T, m < n PROVE m + 1 \in T
  <2>1. m + 1 \in 0 .. n /\ m + 1 \in 1 .. n /\ m + 1 # 0 /\ (m + 1) - 1 = m
    BY <1>2, <1>11
  <2>2. best[m + 1] = Turned(m + 1, best[m])
    BY <1>9, <2>1
  <2> QED BY <1>3, <1>11, <2>1, <2>2
<1> HIDE DEF T
<1>12. 0 .. n \subseteq T
  BY <1>2, <1>10, <1>11, UpTo
<1>13. best \in [0 .. n -> Grid]
  BY <1>9, <1>12 DEF T
<1>14. best[0] = opt
  BY <1>2, <1>9
<1>15. ASSUME NEW c \in 1 .. n PROVE best[c] = Turned(c, best[c - 1])
  BY <1>2, <1>9
<1> QED BY <1>1, <1>13, <1>14, <1>15 DEF n, Turned

(* What the search of a number of banks has found among the columns looked *)
(* at.                                                                     *)
BestOf(conf, b, m) ==
  /\ b.banks = conf.bank_count
  /\ b.columns \in 1 .. m /\ conf.bank_count % b.columns = 0
  /\ b.rows = conf.bank_count \div b.columns
  /\ b.acclat = AccessLatency(conf, b.rows, b.columns)
  /\ \A c \in 1 .. m : conf.bank_count % c = 0 =>
       b.acclat <= AccessLatency(conf, conf.bank_count \div c, c)

(* Totals over the same banks are compared as they are.                    *)
LEMMA SameBanks ==
  ASSUME NEW x \in Nat, NEW y \in Nat, NEW n \in Nat \ {0}
  PROVE  x * n < y * n <=> x < y
<1>1. x * n \in Nat /\ y * n \in Nat
  BY ProductsGrow
<1>2. ASSUME y <= x PROVE y * n <= x * n
  BY <1>2, ProductsGrow
<1>3. ASSUME x + 1 <= y PROVE x * n < y * n
  <2>1. (x + 1) * n <= y * n /\ (x + 1) * n = x * n + n
    BY <1>3, ProductsGrow
  <2> QED BY <1>1, <2>1
<1> QED BY <1>1, <1>2, <1>3

(* A reset search finds the best grid.                                     *)
LEMMA GridFound ==
  ASSUME NEW conf \in Configuration, NEW opt \in Grid,
         opt.acclat = BIGNUM, opt.banks = 1,
         \A c \in 1 .. conf.bank_count : conf.bank_count % c = 0 =>
           AccessLatency(conf, conf.bank_count \div c, c) < BIGNUM * conf.bank_count
  PROVE  BestOf(conf, SearchGrid(conf, opt), conf.bank_count)
<1> DEFINE n == conf.bank_count
           Lat(c) == AccessLatency(conf, n \div c, c)
<1>1. n \in Nat \ {0}
  BY DEF Configuration
<1>2. \A c \in 1 .. n : c \in Nat \ {0} /\ n \div c \in Nat /\ Lat(c) \in Nat
  <2>1. ASSUME NEW c \in 1 .. n PROVE c \in Nat \ {0} /\ n \div c \in Nat /\ Lat(c) \in Nat
    <3>1. c \in Nat \ {0}
      BY <1>1
    <3>2. n \div c \in Nat
      BY <1>1, <3>1, QuotientIs
    <3> QED BY <3>1, <3>2, LatencyTyped
  <2> QED BY <2>1
<1>3. PICK best \in [0 .. n -> Grid] :
        /\ SearchGrid(conf, opt) = best[n]
        /\ best[0] = opt
        /\ \A c \in 1 .. n : best[c] = IF n % c # 0 THEN best[c - 1]
                                       ELSE Better(conf, c, best[c - 1])
  BY SearchIs
<1>4. ASSUME NEW c \in 1 .. n, NEW b
      PROVE  Better(conf, c, b) =
               IF Lat(c) * b.banks < b.acclat * n
               THEN [acclat |-> Lat(c), banks |-> n, rows |-> n \div c, columns |-> c]
               ELSE b
  BY DEF Better
<1> DEFINE P(m) == BestOf(conf, best[m], m)
<1>5. 1 \in 1 .. n /\ n % 1 = 0
  BY <1>1
<1>6. P(1)
  <2>1. best[1] = Better(conf, 1, opt)
    <3>1. 1 - 1 = 0
      OBVIOUS
    <3> QED BY <1>3, <1>5, <3>1
  <2>2. Lat(1) * 1 < BIGNUM * n
    <3>1. Lat(1) < BIGNUM * n
      BY <1>5
    <3>2. Lat(1) \in Nat
      BY <1>2, <1>5
    <3> HIDE DEF Lat
    <3>3. Lat(1) * 1 = Lat(1)
      BY <3>2
    <3> QED BY <3>1, <3>3
  <2>3. best[1] = [acclat |-> Lat(1), banks |-> n, rows |-> n \div 1, columns |-> 1]
    BY <1>4, <1>5, <2>1, <2>2
  <2>4. \A c \in 1 .. 1 : c = 1
    OBVIOUS
  <2>5. Lat(1) <= Lat(1)
    BY <1>2, <1>5
  <2> QED BY <1>5, <2>3, <2>4, <2>5 DEF BestOf
<1>7. ASSUME NEW m \in 1 .. n, P(m), m < n PROVE P(m + 1)
  <2> DEFINE b == best[m]
             c == m + 1
  <2>1. c \in 1 .. n /\ c - 1 = m /\ m \in 0 .. n /\ m \in Nat
    BY <1>1, <1>7
  <2>2. b \in Grid /\ b.acclat \in Nat
    BY <1>3, <2>1 DEF Grid
  <2>3. \A d \in 1 .. c : d \in 1 .. m \/ d = c
    BY <2>1
  <2>4. b.columns \in 1 .. c /\ c \in 1 .. c
    BY <1>7, <2>1 DEF BestOf
  <2>5. CASE n % c # 0
    <3>1. best[c] = b
      BY <1>3, <2>1, <2>5
    <3>2. \A d \in 1 .. c : n % d = 0 => b.acclat <= Lat(d)
      BY <1>7, <2>3, <2>5 DEF BestOf
    <3> QED BY <1>7, <2>4, <3>1, <3>2 DEF BestOf
  <2>6. CASE n % c = 0
    <3>1. best[c] = Better(conf, c, b)
      BY <1>3, <2>1, <2>6
    <3>2. b.banks = n /\ Lat(c) \in Nat
      BY <1>2, <1>7, <2>1 DEF BestOf
    <3>3. Lat(c) * b.banks < b.acclat * n <=> Lat(c) < b.acclat
      BY <1>1, <2>2, <3>2, SameBanks
    <3>4. CASE Lat(c) < b.acclat
      <4>1. best[c] = [acclat |-> Lat(c), banks |-> n, rows |-> n \div c, columns |-> c]
        BY <1>4, <2>1, <3>1, <3>3, <3>4
      <4>2. ASSUME NEW d \in 1 .. c, n % d = 0 PROVE Lat(c) <= Lat(d)
        <5>1. d \in 1 .. n
          BY <1>1, <2>1
        <5>2. Lat(d) \in Nat
          BY <1>2, <5>1
        <5>3. d \in 1 .. m => b.acclat <= Lat(d)
          BY <1>7, <4>2 DEF BestOf
        <5> HIDE DEF Lat, b, c
        <5> QED BY <2>2, <2>3, <3>2, <3>4, <5>2, <5>3
      <4> QED BY <2>4, <2>6, <4>1, <4>2 DEF BestOf
    <3>5. CASE ~ (Lat(c) < b.acclat)
      <4>1. best[c] = b
        BY <1>4, <2>1, <3>1, <3>3, <3>5
      <4>2. b.acclat <= Lat(c)
        <5> HIDE DEF Lat, b, c
        <5> QED BY <2>2, <3>2, <3>5
      <4>3. \A d \in 1 .. c : n % d = 0 => b.acclat <= Lat(d)
        BY <1>7, <2>3, <4>2 DEF BestOf
      <4> QED BY <1>7, <2>4, <4>1, <4>3 DEF BestOf
    <3> QED BY <3>4, <3>5
  <2> QED BY <2>5, <2>6
<1> DEFINE T == {m \in 0 .. n : m = 0 \/ P(m)}
<1>8. 0 \in T
  BY <1>1
<1>9. ASSUME NEW m \in 0 .. n, m \in T, m < n PROVE m + 1 \in T
  <2>1. m + 1 \in 0 .. n /\ (m # 0 => m \in 1 .. n)
    BY <1>1, <1>9
  <2>2. m = 0 => m + 1 = 1
    OBVIOUS
  <2>3. P(m + 1)
    <3> HIDE DEF P
    <3> QED BY <1>6, <1>7, <1>9, <2>1, <2>2
  <2> QED BY <2>1, <2>3
<1> HIDE DEF T
<1>10. 0 .. n \subseteq T
  <2>1. n \in Nat
    BY <1>1
  <2> QED BY <1>8, <1>9, <2>1, UpTo
<1>11. P(n)
  <2>1. n \in T
    BY <1>1, <1>10
  <2> QED BY <1>1, <2>1 DEF T
<1> QED BY <1>3, <1>11

(* The configurations one after the other: each starts from what the one   *)
(* before it left, reset.                                                  *)
LEMMA GridsAre ==
  ASSUME NEW confs \in Seq(Configuration)
  PROVE  \A i \in 1 .. Len(confs) : \E opt \in Grid :
           /\ opt.acclat = BIGNUM /\ opt.banks = 1
           /\ SearchGrids(confs)[i] = SearchGrid(confs[i], opt)
<1> DEFINE n == Len(confs)
           Searched(i, opt) == SearchGrid(confs[i], Reset(opt))
           Body(t) == [i \in 0 .. n |->
                         IF i = 0 THEN NoneYet ELSE SearchGrid(confs[i], Reset(t[i - 1]))]
           found == CHOOSE t : t = Body(t)
           step == [x \in (1 .. n) \X Grid |-> Searched(x[1], x[2])]
<1>1. SearchGrids(confs) = [i \in 1 .. n |-> found[i]]
  BY DEF SearchGrids
<1>2. n \in Nat /\ \A i \in 1 .. n : confs[i] \in Configuration
  OBVIOUS
<1>3. BIGNUM \in Nat
  BY DEF BIGNUM
<1>4. ASSUME NEW opt \in Grid
      PROVE  Reset(opt) \in Grid /\ Reset(opt).acclat = BIGNUM /\ Reset(opt).banks = 1
  <2> DEFINE one == [opt EXCEPT !.acclat = BIGNUM]
             two == [one EXCEPT !.banks = 1]
  <2>1. Reset(opt) = two
    BY DEF Reset
  <2>2. one \in Grid /\ one.acclat = BIGNUM
    BY <1>3 DEF Grid
  <2> HIDE DEF one
  <2>3. two \in Grid /\ two.banks = 1 /\ two.acclat = one.acclat
    BY <2>2 DEF Grid
  <2> HIDE DEF two
  <2> QED BY <2>1, <2>2, <2>3
<1>5. \A i \in 1 .. n : \A opt \in Grid : Searched(i, opt) \in Grid
  <2>1. ASSUME NEW i \in 1 .. n, NEW opt \in Grid PROVE Searched(i, opt) \in Grid
    <3>1. confs[i] \in Configuration /\ Reset(opt) \in Grid
      BY <1>2, <1>4
    <3>2. confs[i].bank_count \in Nat
      BY <3>1 DEF Configuration
    <3>3. confs[i].bank_count \in 0 .. confs[i].bank_count
      BY <3>2
    <3>4. PICK best \in [0 .. confs[i].bank_count -> Grid] :
            SearchGrid(confs[i], Reset(opt)) = best[confs[i].bank_count]
      BY <3>1, SearchIs
    <3> QED BY <3>3, <3>4
  <2> QED BY <2>1
<1>6. NoneYet \in Grid
  BY <1>3 DEF NoneYet, Grid
<1>7. \A t : Body(t) = [i \in 0 .. n |-> IF i = 0 THEN NoneYet ELSE Searched(i, t[i - 1])]
  OBVIOUS
<1> HIDE DEF n, Searched, Body
<1>8. step \in [(1 .. n) \X Grid -> Grid]
  BY <1>5
<1>9. PICK s \in [0 .. n -> Grid] : Looped(s, n, NoneYet, step)
  <2> HIDE DEF step
  <2> QED BY <1>2, <1>6, <1>8, LoopExists
<1>10. s = Body(s)
  <2>1. ASSUME NEW i \in 0 .. n, i # 0 PROVE step[<<i, s[i - 1]>>] = Searched(i, s[i - 1])
    <3>1. i \in 1 .. n /\ i - 1 \in 0 .. n
      BY <1>2, <2>1
    <3>2. <<i, s[i - 1]>> \in (1 .. n) \X Grid
      BY <3>1
    <3> QED BY <3>2
  <2> HIDE DEF step
  <2> QED BY <1>7, <1>9, <2>1 DEF Looped
<1>11. found = Body(found)
  BY <1>10
<1> HIDE DEF found, step
<1>12. found = [i \in 0 .. n |-> IF i = 0 THEN NoneYet ELSE Searched(i, found[i - 1])]
  BY <1>7, <1>11
<1> DEFINE T == {m \in 0 .. n : found[m] \in Grid}
<1>13. 0 \in T
  BY <1>2, <1>6, <1>12
<1>14. ASSUME NEW m \in 0 .. n, m \in T, m < n PROVE m + 1 \in T
  <2>1. m + 1 \in 0 .. n /\ m + 1 \in 1 .. n /\ m + 1 # 0 /\ (m + 1) - 1 = m
    BY <1>2, <1>14
  <2>2. found[m + 1] = Searched(m + 1, found[m])
    BY <1>12, <2>1
  <2> QED BY <1>5, <1>14, <2>1, <2>2
<1> HIDE DEF T
<1>15. 0 .. n \subseteq T
  BY <1>2, <1>13, <1>14, UpTo
<1>16. ASSUME NEW i \in 1 .. n
       PROVE  \E opt \in Grid : /\ opt.acclat = BIGNUM /\ opt.banks = 1
                                /\ SearchGrids(confs)[i] = SearchGrid(confs[i], opt)
  <2>1. i - 1 \in 0 .. n /\ i \in 0 .. n /\ i # 0
    BY <1>2
  <2>2. found[i - 1] \in Grid
    BY <1>15, <2>1 DEF T
  <2>3. SearchGrids(confs)[i] = SearchGrid(confs[i], Reset(found[i - 1]))
    BY <1>1, <1>12, <2>1 DEF Searched
  <2> QED BY <1>4, <2>2, <2>3
<1> QED BY <1>16 DEF n

(* sim_nuca(): every configuration gets its best grid.                     *)
LEMMA EveryGridRight == GridsRight
<1> SUFFICES ASSUME NEW confs \in NucaRuns, NEW i \in DOMAIN confs
             PROVE  LET found == SearchGrids(confs) IN
                      /\ found[i].rows * found[i].columns = confs[i].bank_count
                      /\ \A c \in 1 .. confs[i].bank_count : confs[i].bank_count % c = 0 =>
                           AccessLatency(confs[i], found[i].rows, found[i].columns)
                             <= AccessLatency(confs[i], confs[i].bank_count \div c, c)
  BY DEF GridsRight
<1>1. confs \in Seq(Configuration)
  BY NucaAssumption
<1>2. i \in 1 .. Len(confs) /\ confs[i] \in Configuration
  BY <1>1
<1> DEFINE conf == confs[i]
           n == conf.bank_count
           f == SearchGrids(confs)[i]
<1>3. n \in Nat \ {0}
  BY <1>2 DEF Configuration
<1>4. \A c \in 1 .. n : n % c = 0 => AccessLatency(conf, n \div c, c) < BIGNUM * n
  BY NucaAssumption
<1>5. PICK opt \in Grid : opt.acclat = BIGNUM /\ opt.banks = 1 /\ f = SearchGrid(conf, opt)
  BY <1>1, <1>2, GridsAre
<1>6. BestOf(conf, f, n)
  BY <1>2, <1>4, <1>5, GridFound
<1> HIDE DEF f
<1>7. f.rows * f.columns = n
  <2> DEFINE c == f.columns
             q == n \div c
  <2>1. c \in 1 .. n /\ n % c = 0 /\ f.rows = q
    BY <1>6 DEF BestOf
  <2>2. c \in Nat \ {0}
    BY <1>3, <2>1
  <2>3. n = q * c + (n % c) /\ q * c \in Nat
    BY <1>3, <2>2, QuotientIs
  <2> HIDE DEF c, q
  <2>4. n = q * c
    BY <2>1, <2>3
  <2> QED BY <2>1, <2>4 DEF c
<1>8. \A c \in 1 .. n : n % c = 0 =>
        AccessLatency(conf, f.rows, f.columns) <= AccessLatency(conf, n \div c, c)
  BY <1>6 DEF BestOf
<1> QED BY <1>7, <1>8 DEF f

-----------------------------------------------------------------------------
(* The organisation picked.                                                *)

(* The minima of organisations are figures.                                *)
LEMMA LeastTyped ==
  ASSUME NEW p \in Pick, p.list # <<>>
  PROVE  Least(p) \in Organisation
<1> DEFINE F == {p.list[i] : i \in DOMAIN p.list}
<1>1. F \subseteq Organisation /\ F # {}
  <2>1. p.list \in Seq(Organisation)
    BY DEF Pick
  <2>2. 1 \in DOMAIN p.list
    BY <2>1
  <2>3. \A i \in DOMAIN p.list : p.list[i] \in Organisation
    BY <2>1
  <2> HIDE DEF Organisation
  <2> QED BY <2>2, <2>3
<1>2. Least(p) = Cost!LeastFigures(F)
  BY DEF Least
<1> HIDE DEF F
<1>3. ASSUME NEW m \in Cost!Metrics
      PROVE  Cost!LeastFigures(F)[m] \in Nat
  <2> DEFINE S == {f[m] : f \in F}
  <2>1. S \subseteq Nat /\ S # {}
    BY <1>1 DEF Organisation
  <2>2. \E x \in S : \A y \in S : x =< y
    BY <2>1, Smallest
  <2>3. Cost!LeastFigures(F)[m] = CHOOSE x \in S : \A y \in S : x =< y
    BY DEF Cost!LeastFigures, Cost!LeastOf
  <2> HIDE DEF S
  <2> QED BY <2>1, <2>2, <2>3
<1>4. Cost!LeastFigures(F) = [m \in Cost!Metrics |-> Cost!LeastFigures(F)[m]]
  BY DEF Cost!LeastFigures
<1> QED BY <1>2, <1>3, <1>4 DEF Organisation

(* Costs of organisations are numbers.                                     *)
LEMMA NucaCostTyped ==
  ASSUME NEW p \in Pick, NEW i \in DOMAIN p.list
  PROVE  NucaCost(p, p.list[i]) \in Nat
<1> DEFINE f == p.list[i]
           least == Least(p)
           wt == p.wt
           Term(m, a, b, c, d) ==
             wt[m] * f[m] * (least[a] * least[b] * least[c] * least[d])
<1>1. p.list \in Seq(Organisation) /\ p.ed \in 0 .. 2 /\ wt \in Organisation
  BY DEF Pick
<1>2. f \in Organisation /\ p.list # <<>>
  BY <1>1
<1>3. least \in Organisation
  BY <1>2, LeastTyped
<1> HIDE DEF f, least, wt
<1>4. ASSUME NEW x \in Nat, NEW y \in Nat PROVE x * y \in Nat
  OBVIOUS
<1>5. \A m, a, b, c, d \in Cost!Metrics : Term(m, a, b, c, d) \in Nat
  BY <1>2, <1>3, <1>1, <1>4 DEF Organisation
<1>6. \A m \in {"delay", "dyn", "leak", "area", "cyc"} : m \in Cost!Metrics
  BY DEF Cost!Metrics
<1>7. \A x, y, z, v, w \in Nat : x + y + z + v + w \in Nat
  OBVIOUS
<1>8. Cost!WeightedCost(f, least, wt) \in Nat
  BY <1>5, <1>6, <1>7 DEF Cost!WeightedCost
<1>9. Cost!EnergyDelay(f, p.ed) \in Nat
  <2>1. f.delay \in Nat /\ f.dyn \in Nat
    BY <1>2, <1>6 DEF Organisation
  <2> QED BY <1>4, <2>1 DEF Cost!EnergyDelay
<1> QED BY <1>8, <1>9 DEF NucaCost, f, least, wt

(* Where the loop of find_optimal_nuca() is.                               *)
Turning == [begin : Nat, niter : Nat, res : Nat]

(* What a turn leaves.                                                     *)
LEMMA TurnIs ==
  ASSUME NEW p \in Pick, NEW s \in Turning
  PROVE  LET t == Turn(p, s)
             admitted == p.ed # 0 \/ check_nuca_org(p, p.list[s.niter])
         IN /\ t \in Turning
            /\ admitted => /\ t.begin = s.begin /\ t.niter = s.niter + 1
                           /\ t.res = Cheaper(p, s.niter, s.res)
            /\ ~ admitted /\ s.niter = s.begin =>
                 t.begin = s.begin + 1 /\ t.niter = s.niter + 2 /\ t.res = s.res
            /\ ~ admitted /\ s.niter # s.begin =>
                 t.begin = s.begin /\ t.niter = s.niter + 1 /\ t.res = s.res
<1> DEFINE t == Turn(p, s)
           admitted == p.ed # 0 \/ check_nuca_org(p, p.list[s.niter])
           next == [s EXCEPT !.niter = @ + 1]
           after == [s EXCEPT !.niter = @ + 2]
           picked == [next EXCEPT !.res = Cheaper(p, s.niter, s.res)]
           dropped == [after EXCEPT !.begin = s.begin + 1]
<1>1. s.begin \in Nat /\ s.niter \in Nat /\ s.res \in Nat
  BY DEF Turning
<1>2. Cheaper(p, s.niter, s.res) \in Nat
  BY <1>1 DEF Cheaper
<1>3. /\ next \in Turning /\ next.niter = s.niter + 1
      /\ next.begin = s.begin /\ next.res = s.res
  BY <1>1 DEF Turning
<1>4. /\ after \in Turning /\ after.niter = s.niter + 2
      /\ after.begin = s.begin /\ after.res = s.res
  BY <1>1 DEF Turning
<1>5. t = IF admitted THEN picked ELSE IF s.niter = s.begin THEN dropped ELSE next
  BY DEF Turn
<1> HIDE DEF t, admitted, next, after
<1>6. /\ picked \in Turning /\ picked.niter = next.niter
      /\ picked.begin = next.begin /\ picked.res = Cheaper(p, s.niter, s.res)
  BY <1>2, <1>3 DEF Turning
<1>7. /\ dropped \in Turning /\ dropped.niter = after.niter
      /\ dropped.begin = s.begin + 1 /\ dropped.res = after.res
  BY <1>1, <1>4 DEF Turning
<1> HIDE DEF picked, dropped
<1>8. /\ t \in Turning
      /\ admitted => /\ t.begin = s.begin /\ t.niter = s.niter + 1
                     /\ t.res = Cheaper(p, s.niter, s.res)
      /\ ~ admitted /\ s.niter = s.begin =>
           t.begin = s.begin + 1 /\ t.niter = s.niter + 2 /\ t.res = s.res
      /\ ~ admitted /\ s.niter # s.begin =>
           t.begin = s.begin /\ t.niter = s.niter + 1 /\ t.res = s.res
  BY <1>3, <1>4, <1>5, <1>6, <1>7
<1> QED BY <1>8 DEF t, admitted

(* The loop has a sequence of states.                                      *)
LEMMA TurnsExist ==
  ASSUME NEW p \in Pick
  PROVE  \E state \in [0 .. Len(p.list) -> Turning] :
           /\ find_optimal_nuca(p) = state[Len(p.list)].res
           /\ state[0] = [begin |-> 1, niter |-> 1, res |-> 0]
           /\ \A n \in 1 .. Len(p.list) :
                state[n] = IF state[n - 1].niter > Len(p.list) THEN state[n - 1]
                           ELSE Turn(p, state[n - 1])
<1> DEFINE len == Len(p.list)
           first == [begin |-> 1, niter |-> 1, res |-> 0]
           Turned(s) == IF s.niter > len THEN s ELSE Turn(p, s)
           Body(t) == [n \in 0 .. len |->
                         IF n = 0 THEN [begin |-> 1, niter |-> 1, res |-> 0]
                         ELSE LET s == t[n - 1] IN IF s.niter > len THEN s ELSE Turn(p, s)]
           state == CHOOSE t : t = Body(t)
           step == [x \in (1 .. len) \X Turning |-> Turned(x[2])]
<1>1. find_optimal_nuca(p) = state[len].res
  BY DEF find_optimal_nuca
<1>2. len \in Nat
  <2>1. p.list \in Seq(Organisation)
    BY DEF Pick
  <2> QED BY <2>1
<1>3. \A s \in Turning : Turned(s) \in Turning
  BY TurnIs
<1>4. first \in Turning
  BY DEF Turning
<1>5. \A t : Body(t) = [n \in 0 .. len |-> IF n = 0 THEN first ELSE Turned(t[n - 1])]
  OBVIOUS
<1> HIDE DEF len, first, Turned, Body
<1>6. step \in [(1 .. len) \X Turning -> Turning]
  BY <1>3
<1>7. PICK s \in [0 .. len -> Turning] : Looped(s, len, first, step)
  <2> HIDE DEF step
  <2> QED BY <1>2, <1>4, <1>6, LoopExists
<1>8. s = Body(s)
  <2>1. ASSUME NEW n \in 0 .. len, n # 0 PROVE step[<<n, s[n - 1]>>] = Turned(s[n - 1])
    <3>1. n \in 1 .. len /\ n - 1 \in 0 .. len
      BY <1>2, <2>1
    <3>2. <<n, s[n - 1]>> \in (1 .. len) \X Turning
      BY <3>1
    <3> QED BY <3>2
  <2> HIDE DEF step
  <2> QED BY <1>5, <1>7, <2>1 DEF Looped
<1>9. state = Body(state)
  BY <1>8
<1> HIDE DEF state, step
<1>10. state = [n \in 0 .. len |-> IF n = 0 THEN first ELSE Turned(state[n - 1])]
  BY <1>5, <1>9
<1> DEFINE T == {m \in 0 .. len : state[m] \in Turning}
<1>11. 0 \in T
  BY <1>2, <1>4, <1>10
<1>12. ASSUME NEW m \in 0 .. len, m \in T, m < len PROVE m + 1 \in T
  <2>1. m + 1 \in 0 .. len /\ m + 1 # 0 /\ (m + 1) - 1 = m
    BY <1>2, <1>12
  <2>2. state[m + 1] = Turned(state[m])
    BY <1>10, <2>1
  <2> QED BY <1>3, <1>12, <2>1, <2>2
<1> HIDE DEF T
<1>13. 0 .. len \subseteq T
  BY <1>2, <1>11, <1>12, UpTo
<1>14. state \in [0 .. len -> Turning]
  BY <1>10, <1>13 DEF T
<1>15. state[0] = first
  BY <1>2, <1>10
<1>16. ASSUME NEW n \in 1 .. len PROVE state[n] = Turned(state[n - 1])
  BY <1>2, <1>10
<1> QED BY <1>1, <1>14, <1>15, <1>16 DEF len, first, Turned

(* find_optimal_nuca(): the least of those examined is picked.             *)
LEMMA EveryPickRight == PickRight
<1> SUFFICES ASSUME NEW p \in NucaPicks
             PROVE  LET Admissible(i) == p.ed # 0 \/ check_nuca_org(p, p.list[i])
                        examined == {i \in DOMAIN p.list :
                                       Admissible(i) /\ (i = 2 => Admissible(1))}
                        res == find_optimal_nuca(p)
                    IN IF examined = {} THEN res = 0
                       ELSE /\ res \in examined
                            /\ \A j \in examined :
                                 NucaCost(p, p.list[res]) <= NucaCost(p, p.list[j])
  BY DEF PickRight
<1> DEFINE len == Len(p.list)
           Admitted(i) == p.ed # 0 \/ check_nuca_org(p, p.list[i])
           E == {i \in DOMAIN p.list : Admitted(i) /\ (i = 2 => Admitted(1))}
           Weigh(i) == NucaCost(p, p.list[i])
           Before(n) == {i \in E : i < n}
           LeastIn(res, S) ==
             IF S = {} THEN res = 0 ELSE res \in S /\ \A j \in S : Weigh(res) <= Weigh(j)
<1>1. p \in Pick /\ p.list \in Seq(Organisation)
  BY NucaAssumption DEF Pick
<1>2. len \in Nat /\ DOMAIN p.list = 1 .. len
  BY <1>1
<1>3. \A i \in 1 .. len : Weigh(i) \in Nat
  BY <1>1, <1>2, NucaCostTyped
<1>4. PICK state \in [0 .. len -> Turning] :
        /\ find_optimal_nuca(p) = state[len].res
        /\ state[0] = [begin |-> 1, niter |-> 1, res |-> 0]
        /\ \A n \in 1 .. len :
             state[n] = IF state[n - 1].niter > len THEN state[n - 1]
                        ELSE Turn(p, state[n - 1])
  BY <1>1, TurnsExist
<1>5. \A i, res : Cheaper(p, i, res) = IF res = 0 \/ Weigh(i) < Weigh(res) THEN i ELSE res
  BY DEF Cheaper
<1>6. ASSUME NEW s \in Turning
      PROVE  LET t == Turn(p, s) IN
             /\ t \in Turning
             /\ Admitted(s.niter) => /\ t.begin = s.begin /\ t.niter = s.niter + 1
                                     /\ t.res = Cheaper(p, s.niter, s.res)
             /\ ~ Admitted(s.niter) /\ s.niter = s.begin =>
                  t.begin = s.begin + 1 /\ t.niter = s.niter + 2 /\ t.res = s.res
             /\ ~ Admitted(s.niter) /\ s.niter # s.begin =>
                  t.begin = s.begin /\ t.niter = s.niter + 1 /\ t.res = s.res
  BY <1>1, TurnIs
<1>7. E = {i \in 1 .. len : Admitted(i) /\ (i = 2 => Admitted(1))}
  BY <1>2
<1> DEFINE Done(s) == /\ s.begin \in 1 .. 2 /\ s.niter \in Nat \ {0}
                      /\ s.niter = 1 => s.begin = 1
                      /\ s.niter = 2 => s.begin = 1 /\ Admitted(1)
                      /\ LeastIn(s.res, Before(s.niter))
           Far(s, n) == s.niter > n \/ s.niter > len
<1> HIDE DEF Admitted, E, Weigh
<1>8. ASSUME NEW s \in Turning, Done(s), s.niter <= len
      PROVE  Done(Turn(p, s)) /\ Turn(p, s).niter > s.niter
  <2> DEFINE t == Turn(p, s)
             i == s.niter
  <2>1. i \in 1 .. len /\ s.begin \in 1 .. 2 /\ s.res \in Nat
    BY <1>2, <1>8 DEF Turning
  <2>2. CASE Admitted(i)
    <3>1. t.begin = s.begin /\ t.niter = i + 1 /\ t.res = Cheaper(p, i, s.res)
      BY <1>6, <2>2
    <3>2. i \in E
      <4>1. i = 2 => Admitted(1)
        BY <1>8
      <4> QED BY <1>7, <2>1, <2>2, <4>1
    <3>3. Before(i + 1) = Before(i) \cup {i}
      BY <1>7, <2>1, <3>2
    <3>4. LeastIn(t.res, Before(i + 1))
      <4>1. t.res = IF s.res = 0 \/ Weigh(i) < Weigh(s.res) THEN i ELSE s.res
        BY <1>5, <3>1
      <4>2. LeastIn(s.res, Before(i))
        BY <1>8
      <4>3. Before(i) \subseteq 1 .. len /\ 0 \notin Before(i)
        BY <1>7
      <4>4. CASE Before(i) = {}
        <5>1. t.res = i /\ Before(i + 1) = {i}
          BY <3>3, <4>1, <4>2, <4>4
        <5>2. Weigh(i) <= Weigh(i)
          BY <1>3, <2>1
        <5> QED BY <5>1, <5>2
      <4>5. CASE Before(i) # {}
        <5>1. /\ s.res \in Before(i) /\ s.res # 0
              /\ \A j \in Before(i) : Weigh(s.res) <= Weigh(j)
          BY <4>2, <4>3, <4>5
        <5>2. Weigh(s.res) \in Nat /\ Weigh(i) \in Nat /\ \A j \in Before(i) : Weigh(j) \in Nat
          BY <1>3, <2>1, <4>3, <5>1
        <5> HIDE DEF Before
        <5>3. CASE Weigh(i) < Weigh(s.res)
          <6>1. t.res = i
            BY <4>1, <5>3
          <6>2. \A j \in Before(i) : Weigh(i) <= Weigh(j)
            BY <5>1, <5>2, <5>3
          <6>3. Weigh(i) <= Weigh(i)
            BY <5>2
          <6> QED BY <3>3, <6>1, <6>2, <6>3
        <5>4. CASE ~ (Weigh(i) < Weigh(s.res))
          <6>1. t.res = s.res
            BY <4>1, <5>1, <5>4
          <6>2. Weigh(s.res) <= Weigh(i)
            BY <5>2, <5>4
          <6> QED BY <3>3, <5>1, <6>1, <6>2
        <5> QED BY <5>3, <5>4
      <4> QED BY <4>4, <4>5
    <3>5. t.niter \in Nat \ {0} /\ t.niter # 1 /\ t.niter > i
      BY <2>1, <3>1
    <3>6. t.niter = 2 => i = 1
      BY <2>1, <3>1
    <3> QED BY <1>8, <2>1, <2>2, <3>1, <3>4, <3>5, <3>6
  <2>3. CASE ~ Admitted(i)
    <3>1. t.res = s.res
      BY <1>6, <2>3
    <3>2. i \notin E
      BY <1>7, <2>3
    <3>3. CASE i = s.begin
      <4>1. i = 1 /\ t.begin = 2 /\ t.niter = 3
        <5>1. t.begin = s.begin + 1 /\ t.niter = i + 2
          BY <1>6, <2>3, <3>3
        <5>2. i = 1
          BY <1>8, <2>1, <3>3
        <5> QED BY <3>3, <5>1, <5>2
      <4>2. 2 \notin E /\ 1 \notin E
        BY <1>7, <2>3, <4>1
      <4>3. Before(3) = {} /\ Before(1) = {}
        <5>1. \A j \in E : j \in Nat /\ j # 0 /\ j # 1 /\ j # 2
          BY <1>2, <1>7, <4>2
        <5> QED BY <5>1
      <4>4. LeastIn(t.res, Before(3))
        BY <1>8, <3>1, <4>1, <4>3
      <4> QED BY <4>1, <4>4
    <3>4. CASE i # s.begin
      <4>1. t.begin = s.begin /\ t.niter = i + 1
        BY <1>6, <2>3, <3>4
      <4>2. Before(i + 1) = Before(i)
        BY <1>7, <2>1, <3>2
      <4>3. i # 1
        BY <1>8, <3>4
      <4>4. t.niter \in Nat \ {0} /\ t.niter # 1 /\ t.niter # 2 /\ t.niter > i
        BY <2>1, <4>1, <4>3
      <4>5. LeastIn(t.res, Before(t.niter))
        BY <1>8, <3>1, <4>1, <4>2
      <4> QED BY <2>1, <4>1, <4>4, <4>5
    <3> QED BY <3>3, <3>4
  <2> QED BY <2>2, <2>3
<1>9. Done(state[0]) /\ Far(state[0], 0)
  <2>1. Before(1) = {}
    BY <1>2, <1>7
  <2> QED BY <1>4, <2>1
<1> HIDE DEF Done
<1> DEFINE T == {m \in 0 .. len : Done(state[m]) /\ Far(state[m], m)}
<1>10. 0 \in T
  BY <1>2, <1>9
<1>11. ASSUME NEW m \in 0 .. len, m \in T, m < len PROVE m + 1 \in T
  <2>1. m + 1 \in 0 .. len /\ m + 1 \in 1 .. len /\ (m + 1) - 1 = m /\ m \in Nat
    BY <1>2, <1>11
  <2>2. state[m] \in Turning /\ state[m].niter \in Nat /\ Done(state[m]) /\ Far(state[m], m)
    BY <1>4, <1>11 DEF Turning
  <2>3. state[m + 1] = IF state[m].niter > len THEN state[m] ELSE Turn(p, state[m])
    BY <1>4, <2>1
  <2>4. CASE state[m].niter > len
    BY <2>1, <2>2, <2>3, <2>4
  <2>5. CASE ~ (state[m].niter > len)
    <3>1. state[m].niter <= len /\ state[m].niter > m
      BY <1>2, <2>2, <2>5
    <3>2. Done(Turn(p, state[m])) /\ Turn(p, state[m]).niter > state[m].niter
      BY <1>8, <2>2, <3>1
    <3>3. Turn(p, state[m]).niter \in Nat
      BY <1>6, <2>2 DEF Turning
    <3>4. Turn(p, state[m]).niter > m + 1
      BY <2>1, <2>2, <3>1, <3>2, <3>3
    <3> QED BY <2>1, <2>3, <2>5, <3>2, <3>4
  <2> QED BY <2>4, <2>5
<1> HIDE DEF T
<1>12. 0 .. len \subseteq T
  BY <1>2, <1>10, <1>11, UpTo
<1>13. Done(state[len]) /\ state[len].niter > len
  <2>1. len \in T
    BY <1>2, <1>12
  <2> QED BY <2>1 DEF T
<1>14. Before(state[len].niter) = E
  <2>1. state[len].niter \in Nat
    BY <1>2, <1>4 DEF Turning
  <2>2. \A i \in E : i < state[len].niter
    BY <1>2, <1>7, <1>13, <2>1
  <2> QED BY <2>2
<1>15. LeastIn(find_optimal_nuca(p), E)
  BY <1>4, <1>13, <1>14 DEF Done
<1> QED BY <1>15 DEF E, Admitted, Weigh

(* sim_nuca(): NucaRight holds of every cache, of every list of            *)
(* configurations and of every list of organisations.                      *)
THEOREM NucaRightCorrect == Spec => []NucaRight
<1>1. NucaRight
  BY EveryBankRight, EveryGridRight, EveryPickRight DEF NucaRight
<1> QED BY <1>1, PTL

=============================================================================
