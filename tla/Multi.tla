-------------------------------- MODULE Multi --------------------------------
(***************************************************************************)
(* The programs around a Processor: mcpat (main.cc) and multi (multi.cc).  *)
(* multi FILE ser constructs a Processor, saves it in saved_proc.bin and   *)
(* computes; multi FILE des loads the file and computes; multi FILE DYN    *)
(* loads the file, lets the commands of DYN change the statistics and      *)
(* computes.  Only the file outlives a run; any run may be killed.         *)
(***************************************************************************)
EXTENDS Processor

CONSTANTS
  Inputs,                     \* the XML files
  Cycles, Duties, Accesses,   \* values a dynamic file may give
  MaxCommands                 \* bound on the commands of a dynamic file

ASSUME MultiAssumption ==
  /\ Inputs \subseteq Xml /\ Inputs # {}
  /\ Cycles \subseteq Nat \ {0} /\ Duties \subseteq Nat /\ Accesses \subseteq Nat
  /\ MaxCommands \in Nat

VARIABLES
  mode,     \* which program with which arguments
  file,     \* saved_proc.bin
  block,    \* the component whose block of the dynamic file is being read
  commands  \* how many commands of the dynamic file were read

vars == <<pc, at, xml, units, tot, proc, mode, file, block, commands>>

Modes == {"mcpat", "ser", "des", "dynamic"}

(* The components a dynamic file may name, and the statistics of a core    *)
(* beside its accesses.                                                    *)
Named == {"core", "l2", "l3", "l1dir", "l2dir", "mc"}

Absent == [state |-> "absent"]
Torn   == [state |-> "torn"]
Saved  == [state |-> "whole", xml |-> xml, units |-> units, tot |-> tot, proc |-> proc]

(* A process starts with nothing; xml is any value until it has one.       *)
NoUnits == [g \in Groups |-> <<>>]
NoTotals == [g \in Groups |-> Zero]
Blank == CHOOSE x \in Inputs : TRUE

Fresh ==
  /\ at' = 1 /\ units' = NoUnits /\ tot' = NoTotals /\ proc' = Zero
  /\ block' = <<>> /\ commands' = 0

Init ==
  /\ pc = "idle" /\ at = 1 /\ mode = "mcpat" /\ xml = Blank
  /\ units = NoUnits /\ tot = NoTotals /\ proc = Zero
  /\ block = <<>> /\ commands = 0
  /\ file = Absent

-----------------------------------------------------------------------------
(* A run starts.                                                           *)
Parse ==
  /\ pc = "idle"
  /\ mode' \in {"mcpat", "ser"} /\ xml' \in Inputs
  /\ pc' = "construct" /\ Fresh /\ UNCHANGED file

StartLoad ==
  /\ pc = "idle"
  /\ mode' \in {"des", "dynamic"}
  /\ pc' = "load" /\ Fresh /\ UNCHANGED <<xml, file>>

(* ser saves the Processor before it computes; mcpat computes at once.     *)
After_Late(m, p) ==
  CASE p = "constructed" -> "compute"
    [] p = "computed" -> IF m = "ser" THEN "open" ELSE "display"
    [] p = "written" -> "display"
After(m, p) ==
  CASE p = "constructed" -> IF m = "ser" THEN "open" ELSE "compute"
    [] p = "written" -> "compute"
    [] p = "computed" -> "display"

Go ==
  /\ pc \in {"constructed", "written", "computed"} /\ pc' = After(mode, pc)
  /\ UNCHANGED <<at, chip, mode, file, block, commands>>

(* serialize(): opening the stream truncates the file.                     *)
Open ==
  /\ pc = "open" /\ pc' = "write" /\ file' = Torn
  /\ UNCHANGED <<at, chip, mode, block, commands>>

Write ==
  /\ pc = "write" /\ pc' = "written" /\ file' = Saved
  /\ UNCHANGED <<at, chip, mode, block, commands>>

(* deserialize().                                                          *)
Load ==
  /\ pc = "load" /\ file.state = "whole"
  /\ xml' = file.xml /\ units' = file.units /\ tot' = file.tot /\ proc' = file.proc
  /\ pc' = IF mode = "des" THEN "compute" ELSE "read"
  /\ UNCHANGED <<at, mode, file, block, commands>>

(* Without a file deserialize() returns a null pointer that is used at     *)
(* once; what a file whose writing was cut short leads to is undefined.    *)
LoadFails ==
  /\ pc = "load" /\ file.state # "whole"
  /\ pc' = "crashed"
  /\ UNCHANGED <<at, chip, mode, file, block, commands>>

-----------------------------------------------------------------------------
(* The command loop.                                                       *)
Command ==
  /\ commands < MaxCommands /\ commands' = commands + 1
  /\ UNCHANGED <<at, units, tot, proc, mode, file>>

TotalCycles ==
  /\ pc = "read" /\ Command
  /\ \E c \in Cycles : xml' = [xml EXCEPT !.stats.cycles = c]
  /\ UNCHANGED <<pc, block>>

OpenBlock ==
  /\ pc = "read" /\ Command
  /\ \E g \in Named, i \in Index : block' = <<g, i>>
  /\ pc' = "block" /\ UNCHANGED xml

(* DBL: one statistic of the component.                                    *)
Set(s, g, i) ==
  {[s EXCEPT !.acc[g][i] = n] : n \in Accesses}
    \cup (IF g = "core" THEN {[s EXCEPT !.own[i] = c] : c \in Cycles}
                               \cup {[s EXCEPT !.duty[i] = d] : d \in Duties}
                        ELSE {})

Field ==
  /\ pc = "block" /\ Command
  /\ \E s \in Set(xml.stats, block[1], block[2]) : xml' = [xml EXCEPT !.stats = s]
  /\ UNCHANGED <<pc, block>>

CloseBlock ==
  /\ pc = "block" /\ pc' = "read" /\ block' = <<>>
  /\ UNCHANGED <<at, chip, mode, file, commands>>

(* LOOP only ends at "done": where the file ends within a block it repeats *)
(* its last command for ever.                                              *)
EndInBlock ==
  /\ pc = "block" /\ pc' = "stuck"
  /\ UNCHANGED <<at, chip, mode, file, block, commands>>

(* "done", or the end of the file, between the blocks.                     *)
EndCommands ==
  /\ pc = "read" /\ pc' = "compute"
  /\ UNCHANGED <<at, chip, mode, file, block, commands>>

Read == TotalCycles \/ OpenBlock \/ Field \/ CloseBlock \/ EndInBlock \/ EndCommands

-----------------------------------------------------------------------------
(* displayEnergy() changes nothing that is printed.                        *)
Display ==
  /\ pc = "display" /\ pc' = "printed"
  /\ UNCHANGED <<at, chip, mode, file, block, commands>>

(* The process is gone.                                                    *)
Over == {"printed", "ended", "aborted", "crashed"}

Leave ==
  /\ pc' = "idle" /\ xml' = Blank /\ mode' = "mcpat" /\ Fresh
  /\ UNCHANGED file

Quit == pc \in Over /\ Leave
Kill == pc \notin Over \cup {"idle"} /\ Leave

Step ==
  \/ (Exit \/ Construct \/ Abort \/ Compute) /\ UNCHANGED <<mode, file, block, commands>>
  \/ Go \/ Open \/ Write \/ Load \/ LoadFails \/ Read \/ Display

Next == Parse \/ StartLoad \/ Step \/ Quit \/ Kill

(* A process that is not killed goes on; nobody has to start one.          *)
Spec == Init /\ [][Next]_vars /\ WF_vars(Step)

-----------------------------------------------------------------------------
Energies == [area : Nat, power : Nat, rt : Nat]
Unit == [area : Nat, power : Nat, rt : Nat, parts : Nat, len : Nat, held : Nat,
         params : [cycles : Nat \ {0}, own : Nat, duty : Nat]]
Image == [state : {"whole"}, xml : Xml, units : [Groups -> Seq(Unit)],
          tot : [Groups -> Energies], proc : Energies]

(* Types; a position only moves while there is something to go through,    *)
(* and a processor has the units its configuration asks for.               *)
TypeOK ==
  /\ pc \in {"idle", "construct", "constructed", "open", "write", "written", "load",
             "read", "block", "stuck", "compute", "computed", "display"} \cup Over
  /\ at \in 1 .. Len(Phases) /\ (at # 1 => pc \in {"construct", "compute", "aborted"})
  /\ xml \in Xml /\ proc \in Energies /\ tot \in [Groups -> Energies]
  /\ units \in [Groups -> Seq(Unit)]
  /\ mode \in Modes /\ commands \in 0 .. MaxCommands
  /\ file \in {Absent, Torn} \/ file \in Image
  /\ block \in {<<>>} \cup (Named \X Index)

(* A unit constructed and computed for this XML and nothing else; the      *)
(* length of its links is the chip's.                                      *)
Anew(x, g, j) == Computed([NewUnit(x, g, j) EXCEPT !.len = units[g][j].len], x, g, j)
Asked(x, g) ==
  LET t == Total(x.cfg, g, [j \in 1 .. Built(x.cfg, g) |-> Anew(x, g, j)])
  IN IF g = "noc" THEN [t EXCEPT !.area = @ + LinksUpTo(x.cfg, Built(x.cfg, g))] ELSE t

Chip(f(_)) == LET sum[j \in 0 .. Len(Order)] ==
                    IF j = 0 THEN 0 ELSE sum[j - 1] + f(Order[j])
              IN sum[Len(Order)]

(* What is printed are the figures of the configuration and of the last    *)
(* statistics: no parameter a unit was constructed, saved or loaded with   *)
(* earlier is left in them, in any mode.  README.md, "Runtime              *)
(* manipulation"; set_core_param() and its like are called again by        *)
(* computeEnergy().                                                        *)
AsAsked == pc = "printed" => \A g \in Groups : tot[g] = Asked(xml, g)

LinksSeeWholeChip ==
  pc = "printed" =>
    LET cfg == xml.cfg
        whole == Chip(LAMBDA g : Asked(xml, g).area) - LinksUpTo(cfg, Built(cfg, "noc"))
    IN \A j \in DOMAIN units["noc"] :
         HasLinks(cfg, j) => units["noc"][j].len >= whole

ChipSumsUp ==
  pc = "printed" =>
    /\ proc.area = Chip(LAMBDA g : tot[g].area)
    /\ xml.cfg.homo["l1dir"] \/ Built(xml.cfg, "l1dir") = 0 =>
         /\ proc.power = Chip(LAMBDA g : tot[g].power)
         /\ proc.rt = Chip(LAMBDA g : tot[g].rt)

(* The links of a network are as long as the whole chip asks for: all      *)
(* groups and all routers (processor.cc: "This must be done at the end     *)
(* (even after the NOC router part) since the total chip area must be      *)
(* obtain").  And the processor's figures are the sums of its groups',     *)
(* whichever way each phase adds to both; the energies of a heterogeneous  *)
(* first level directory, which compute() adds without their clock, are    *)
(* left to TotalIsSum.                                                     *)
WholeChip == LinksSeeWholeChip /\ ChipSumsUp

(* README.mcpat:126: "Since the stats for each (e.g. "a" cores) may be     *)
(* different, we will see a whole list of (e.g. "a" cores) with different  *)
(* dynamic power, and total power is just a sum of them."                  *)
TotalIsSum == pc = "printed" => proc.rt = Chip(LAMBDA g : tot[g].rt)

(* The file holds a Processor nothing was computed in: README.md,          *)
(* "serialize the program state prior to computation".  A later run        *)
(* computes it once.                                                       *)
FileIsInitial ==
  file.state = "whole" =>
    /\ file.tot = NoTotals /\ file.proc = Zero
    /\ file.units = [g \in Groups |->
         [j \in 1 .. Built(file.xml.cfg, g) |-> NewUnit(file.xml, g, j)]]

(* core.cc:3867: "When computing TDP, power = energy_per_cycle (the value  *)
(* computed in this function) * clock_rate (in the display_energy          *)
(* function)": the peak power printed for cores and shared caches is that. *)
PeakPowerKept ==
  pc = "printed" => \A g \in Clearing :
    tot[g].power = Total(xml.cfg, g, [j \in DOMAIN units[g] |->
                     ComputePeak(NewUnit(xml, g, j), xml, g, j)]).power

(* The peak energy of a core's parts is that of the duty cycles a dynamic  *)
(* file gives (dynamic_test:39 lists IFU_duty_cycle).  README.md, "to      *)
(* compute power using the statistics in `dynamic_test`".                  *)
PartsAsAsked ==
  pc = "printed" => \A j \in DOMAIN units["core"] :
    units["core"][j].parts = PartsEnergy(xml.stats.duty[j])

(* A run that is not killed comes to its end, unless its dynamic file ends *)
(* within a block.                                                         *)
RunEnds == pc # "idle" ~> pc \in Over \cup {"idle", "stuck"}
=============================================================================
