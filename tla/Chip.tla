-------------------------------- MODULE Chip --------------------------------
(***************************************************************************)
(* From the file to the figures: ParseXML::parse() fills the entries of    *)
(* sys, Processor builds the units the numbers ask for, and each of them   *)
(* takes its parameters and counters from its entry.  The units do not     *)
(* touch each other, so the life of any one of them is followed, and the   *)
(* file is forgotten when it is built.                                     *)
(***************************************************************************)
EXTENDS XmlInput, UnitLife, XmlReads

VARIABLES
  home,     \* the group of the unit
  sources,  \* the entries it reads: <<group, name of the component, or "initial">>
  gives,    \* whether its component gives a power gating voltage
  user_vcc  \* whether the unit takes the voltage for a user's (specific_vcc_min)

chipVars == <<home, sources, gives, user_vcc>>
vars == <<inputVars, lifeVars, chipVars>>

NumBuilt_EachOne(g) ==
  IF g \in {Singles[k] : k \in DOMAIN Singles} THEN 1 ELSE file.num[g]

(* How many units of a group Processor builds.                             *)
NumBuilt(g) ==
  IF g \in {Singles[k] : k \in DOMAIN Singles} THEN 1
  ELSE IF file.homo[g] THEN (IF file.num[g] = 0 THEN 0 ELSE 1) ELSE file.num[g]

PrivateMismatch == file.private /\ NumBuilt("core") # NumBuilt("L2")

ClassesOf(g) ==
  CASE g = "core" -> Core_classes \union {"inst_decoder"}
    [] g = "mc" -> Mc_classes
    [] g = "NoC" -> {"NoC"}
    [] g = "niu" -> {"NIUController"}
    [] g = "pcie" -> {"PCIeController"}
    [] g = "flashc" -> {"FlashController"}
    [] OTHER -> {"SharedCache"}

AllUnits ==
  [g \in GroupNames |->
     {uc \in UNION {{u} \X Configurations(u) : u \in ClassesOf(g)} :
        uc[1] = "SharedCache" => g \in uc[2]}]

(* The entry a unit's gating voltage stands in: a core's second level      *)
(* cache has that of the core.                                             *)
VccEntry(g) == IF g = "L2" /\ file.private THEN "core" ELSE g

(* A third level cache takes the type of its directory from the second     *)
(* level entry of its index.                                               *)
EntriesOf(g) ==
  {g, VccEntry(g)} \union When(g = "L3", {"L2"})

Filler(g, k) == IF filled[g][k] = 0 THEN "initial" ELSE file.comps[filled[g][k]]

ExitPrivate ==
  /\ verdict = "done" /\ PrivateMismatch
  /\ Exit("private")
  /\ UNCHANGED <<lifeVars, chipVars>>

(* A high performance flash controller is refused by its constructor.      *)
ExitFlash ==
  /\ verdict = "done" /\ Call = "construct" /\ ~PrivateMismatch
  /\ \E uc \in AllUnits["flashc"] : ~FlashController_supported(uc[2])
  /\ Exit("flash")
  /\ UNCHANGED <<lifeVars, chipVars>>

Forget ==
  /\ file' = [num |-> <<>>, homo |-> <<>>, private |-> FALSE, comps |-> <<>>]
  /\ filled' = <<>>
  /\ verdict' = "built" /\ step' = 0 /\ order' = 0 /\ w' = 0 /\ i' = 0

Build(g, k, u, c) ==
  /\ u = "FlashController" => FlashController_supported(c)
  /\ home' = g
  /\ sources' = {<<e, Filler(e, k)>> : e \in EntriesOf(g)}
  /\ gives' \in {b \in BOOLEAN : b => filled[VccEntry(g)][k] # 0}
  /\ user_vcc' = (gives' \/ InitialValue(VccEntry(g), "power_gating_vcc") > -1)
  /\ Forget
  /\ Construct(u, c)

BuildUnit ==
  /\ verdict = "done" /\ ~PrivateMismatch
  /\ \E g \in GroupNames : \E k \in 0..(NumBuilt(g) - 1), uc \in AllUnits[g] :
       Build(g, k, uc[1], uc[2])

Init == /\ InitInput
        /\ InitUnit
        /\ home = "none" /\ sources = {} /\ gives = FALSE /\ user_vcc = FALSE

Live == ComputePeak \/ ComputeRun \/ DisplayEnergy \/ Destroy

Stopped == /\ verdict \in {"misfit", "private", "flash"} \/ Call = "over"
           /\ UNCHANGED vars

Next ==
  \/ Parse /\ UNCHANGED <<lifeVars, chipVars>>
  \/ ExitPrivate
  \/ ExitFlash
  \/ BuildUnit
  \/ Live /\ UNCHANGED <<inputVars, chipVars>>
  \/ Stopped

(* One process runs from the file to the figures.                          *)
Spec == Init /\ [][Next]_vars /\ WF_vars(Next)

-----------------------------------------------------------------------------
TypeOK ==
  /\ verdict \in {"parsing", "done", "built", "misfit", "private", "flash"}
  /\ step \in 0..(Len(Groups) + 1) /\ next \in 1..(Len(Calls) + 1)
  /\ order \in 0..UIntMax /\ w \in 0..(UIntMax + 1) /\ i \in 0..UIntMax
  /\ unit \in Classes \union {"none"} /\ home \in GroupNames \union {"none"}
  /\ \A g \in DOMAIN filled, k \in 0..(Entries - 1) :
       filled[g][k] \in 0..Len(file.comps)
  /\ <<gives, user_vcc>> \in BOOLEAN \X BOOLEAN

(* The verdict on a file and the entries filled from it are right, see     *)
(* ParseRight; and each index and counter is within its bounds.            *)
FilesRight == TypeOK /\ ParseRight

(* Every entry a unit reads was filled from a component of its own kind,   *)
(* unless the file has no component at all, except: a network whose        *)
(* component has another name keeps its initial values, a second level     *)
(* directory passes for a second level cache, and a third level cache      *)
(* reads a second level entry that the file may not have.                  *)
OwnComponent ==
  [][ unit' # unit =>
        \A s \in sources' :
          \/ s[1] = s[2] \/ file.comps = <<>>
          \/ s = <<"L2", "L2Directory">>
          \/ /\ s = <<"NoC", "initial">>
             /\ \E k \in DOMAIN Layout : Layout[k] = "NoC" /\ file.comps[k] # "NoC"
          \/ home' = "L3" /\ s = <<"L2", "initial">> ]_vars

VccOnlyIfGiven == unit # "none" => (user_vcc <=> gives \/ home = "L3")

ClockNeverZero ==
  unit # "none" =>
    /\ \A f \in Divisors(home) : InitialValue(home, f) # 0
    /\ InitialValue("system", "target_core_clockrate") # 0

(* What the unit reads of its entry, and whether a name that means it is   *)
(* stored there.                                                           *)
Read == ParamsOf(home) \union (IF Computed(FALSE) THEN Union(T.run) ELSE {})
Meant(g, f) ==
  /\ \E a \in DOMAIN Stored(g) : Stored(g)[a] = f
  /\ f \in DOMAIN Stored(g) => Stored(g)[f] = f
FieldsGiven ==
  unit # "none" =>
    \A f \in Read :
      Meant(home, f) \/ (unit = "SharedCache" /\ f = "homenode_write_accesses")

(* A unit gets what its component gives and does without what it does not: *)
(* every parameter and counter it reads is stored from the name of the     *)
(* file that means it, except the home node's write accesses of a merged   *)
(* directory, which no name is stored to; it takes its power gating        *)
(* voltage for a user's only when its component gives one, except a third  *)
(* level cache, whose entry starts with zero, which is a voltage; and its  *)
(* clock is not zero when none is given.                                   *)
InputsRight == VccOnlyIfGiven /\ ClockNeverZero /\ FieldsGiven

(* Every run comes to its end: the program refuses the file, or the unit   *)
(* has been through all its calls.                                         *)
Ends == <>(verdict \in {"misfit", "private", "flash"} \/ Call = "over")
=============================================================================
