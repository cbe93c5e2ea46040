# A TLA+ model of McPAT and of its cache solver

McPAT computes the power, area and timing of a processor that an XML file describes.
Every storage structure of the processor is sized by the bundled CACTI, whose `solve()`
searches all partitions of an array with several threads.  This fork adds two things: the
constructed processor can be saved to a file, and a second program, `multi`, loads it and
computes it again with other statistics.

The numbers are floating-point formulas and are mostly not the subject here.  The subject is
what surrounds them: which component of the file reaches which unit, what each unit builds,
charges, counts and releases, which organisation is searched, chosen, kept and deleted, under
which global parameters each figure was computed, in which order the chip is summed up, and
what survives a save and a load.  Numbers appear where a decision rests on them: voltages,
leakage tables, wire resistances, the shape of an array, the banks of a NUCA cache.

1. [Inventory](#1-inventory)
2. [Modules](#2-modules)
3. [Runs](#3-runs)
4. [Findings](#4-findings)
5. [Proofs](#5-proofs)
6. [What is not modelled](#6-what-is-not-modelled)
7. [Plan](#7-plan)

## 1. Inventory

    main.cc / multi.cc --> ParseXML --> Processor -----> Core, SharedCache, NoC, MemoryController, ...
           |                               |                          |
           | ser / des                     | compute()                | ArrayST, interconnect
           v                               v                          v
      serialize.cc                   displayEnergy()        cacti_interface() --> solve() --> threads
      saved_proc.bin                                          update_dvs(), update_pg(), Nuca

| part | state | operations | what makes it correct |
|---|---|---|---|
| partition search, `cacti/Ucache.cc` | workers, their lists and minima, global `g_tp` | `solve()` up to the minima, `calc_time_mt_wrapper()`, `calculate_time()` | each valid organisation is built once, under its own array's technology; the minima are true; the search ends |
| solution selection, `cacti/Ucache.cc` | lists of `mem_array *`, the solution list, the result | `filter_data_arr()`, `filter_tag_arr()`, `find_optimal_uca()`, clean-up | filters do not depend on the order of the list; nothing deleted is used; the least cost is picked |
| CACTI request, `cacti/io.cc`, `cacti/Ucache.cc` | globals `g_ip`, `g_tp`, statics of `Wire`, the result | `cacti_interface()`, `update_dvs()`, `update_pg()`, `Nuca` | every result is that of the parameters asked for |
| `ArrayST`, `array.cc` | the result kept, candidates, deviation, overflow flags | `optimize_array()`, `leakage_feedback()`, destructor | nothing released is kept; the report is true of the result; the loop ends |
| technology, `cacti/technology.cc` | `g_tp` | `init_tech_params()`: one or two passes over tables | every field a circuit reads comes from the nodes asked for; voltages, leakage and resistances fit one another |
| transistors and gates, `cacti/basic_circuit.cc` | none | `gate_C()`, `tr_R_on()`, `cmos_Isub_leakage()`, ... | the device read is the one meant; the states of a gate's inputs are each counted once |
| partition parameters, `cacti/parameter.cc` | none | `DynamicParameter` | an array of the shape holds the data asked for, can address it and delivers it |
| other circuits, `cacti/mat.cc`, `bank.cc`, `decoder.cc`, ... | none of their own | constructors | numeric |
| wires and interconnect, `cacti/wire.cc`, `interconnect.cc` | statics of `Wire` | `update_fullswing()`, `interconnect` | a wire is chosen for its penalty; the statics are those the next user expects |
| NUCA, `cacti/nuca.cc` | none beyond a call | `sim_nuca()`, `find_optimal_nuca()` | the banks are the whole cache; each number of banks has its best grid; the best is picked |
| units, `core.cc`, `sharedcache.cc`, `memoryctrl.cc`, `noc.cc`, `iocontrollers.cc` | parts and arrays, statistics, `power`, `rt_power` | constructor, `computeEnergy(true/false)`, `displayEnergy()`, destructor | each part is there when used, charged once with the statistics of the call, counted in the sum, displayed and released |
| `Processor`, `processor.cc` | units, sums for each group and for the chip | constructor, `compute()`, `displayEnergy()` | the chip is the sum of its parts; links see the whole chip |
| serialization, `serialize.cc` and generated code | pointer maps, the byte array | `serialize()`, `do_des()` | what is loaded is the graph that was saved |
| programs, `main.cc`, `multi.cc` | the XML image, the file `saved_proc.bin` | parse, `ser`, `des`, dynamic file | figures are those of the statistics asked for; runs end; the file is what the next run expects |
| XML input, `XML_Parse.cc` | `root_system` | `initialize()`, `parse()` | each component fills its own entry, each attribute its field; a unit reads no field nothing gives |

How they interact: by calls, through globals (`g_ip`, `g_tp`, statics of `Wire`,
`opt_for_clk`) that every numeric constructor reads, through pointers shared between lists,
candidates and results, and through one file.

The hard behaviours are the interleaving of the workers and the replacement of `g_tp` between two
searches; tables read into uninitialised local arrays that a second pass reuses; conditions that a
constructor, two energy calls, a display and a destructor have to repeat alike, each with its own
copy; one `interface_ip` that an array leaves to the next; erasure of list elements under an
iterator; pointers shared by several owners; parameters that are copied once and read again later;
runs killed while they write the file; and loops whose end depends on input or on two flags.
`PROJECT.json` lists them with their lines under `hazards`, together with the properties that cover
each.

## 2. Modules

    ExhaustiveSearch <== Ucache <-------- MCUcache     (<== : implements, <-- : extended by,
                                                                <~~ : instance)
    ArrayShape <-- Ucache
    CostModel <-- SolutionSelect <------- MCSolutionSelect
        ^-------- ArrayST        <------- MCArrayST
        ^~~~~~~~~ Nuca
    BasicCircuit <-- TechParams
    TechParams, RepeatedWires, Nuca <-- CactiInterface <-- MCCactiInterface
    Processor <-- Multi <---------------- MCMulti
    Serialize <-------------------------- MCSerialize
    UnitTables <-- FrontUnits <-- BackUnits <-- UncoreUnits <-- UnitArrays <-- UnitLife
    XmlFields <-- XmlReads
    XmlInput, UnitLife, XmlReads <-- Chip <-- MCChip
    Tables <-- UnitTables, XmlFields, TechParams

Ucache, CostModel, SolutionSelect, ArrayST, CactiInterface, Multi, Serialize and Chip each have a module of theorems,
`Ucache_proofs` and so on, that extends them (section 5).

The `MC` modules hold the data of the instances; `PROJECT.json` maps each definition to its
lines of source.  An operator whose name ends in `_Something` is a mutated form of the
definition of that name: it is not used by the model, and the properties are shown to fail
when it replaces the original.

**Tables** defines the two operators tables are written with, as those of the standard module TLC, but so that a proof can
expand them.

**Ucache**: `solve()` up to the minima.  The main thread (`mpc`, loop index `mt`) installs the
technology (`TagInit`, `DataInit`), creates, joins and merges (`Create`, `Join`, `Merge`) and
computes the minima (`Mins`); a worker is `Start`, one `Explore` for each evaluation of
`calculate_time()`, and `Exit`.  `NextPos` is the five nested loops: Nspd doubling, wire
types, the triple (Ndwl, Ndbl, Ndcm) with stride `NThreads`, and the two Ndsam.
`calc_time_mt_wrapper()` takes no lock; what it shares is `g_tp`, read in each `Explore`.
A list is a set, because `NeverRevisits` shows that no worker adds an entry twice.
Which shapes are valid and what they cost are constants.  An entry records the technology
and the wire type it was evaluated with; the wire type of the loop is only written to the
result, the H-trees use the configured one, and the model says so.

**ExhaustiveSearch**: the abstract specification: tag search, data search and minima, one step
each, without threads.

**SolutionSelect** goes on where Ucache stops, from lists in any order.  One action is one turn of
one loop.  An iterator is an index, and `AfterErase` and `AfterPickErase` say where `erase`, the
decrement and the loop's increment leave it: `filter_data_arr()` steps back also from `begin()`,
which libstdc++'s circular list makes harmless; `find_optimal_uca()` does not, and passes over the
element that moved to the front.  `live` and `deleted` are the heap.  **CostModel** holds the
costs of `Ucache.cc` and the combination of tag and data figures of `cacti_interface.cc`, in
integers: the costs are compared over a common denominator, deviations in percent.

**ArrayST**: `First` is the first request, `Tighten` switches to the weighted search, `Retry` is a
turn of the loop that lowers the deviation (CACTI exits when no organisation is within it), `LoopEnd`, `Select`, `SelectEnd` choose among the candidates, `Scale` scales the result,
`LeakageFeedback` and `Destroy` are called later.  What CACTI answers is computed from the list of
organisations by what SolutionSelect shows of it, the second one passed over included.

**ArrayShape**: what `error_checking()` accepts and derives of a request, and `DynamicParameter` as operators of a
request, an array and a partition: tag width, rows and columns, mats, activated mats, bits delivered, address bits, and
`is_valid` with the early returns in their order.  `EnoughCells` says for each array whether every valid partition holds
all bits (`Holds`) and has mats for all subarrays (`Placed`); `WholeArray` whether it has mats for all of an array addressed by content
(`MatsHold`), delivers the word (`WordOut`) and tells all words apart (`Addressed`).  Ucache states both of the array being
searched, as `CapacityRight` and `ShapesRight`.  Nspd is counted in eighths.

**CactiInterface**: one request.  The state is the three globals, and each result is a record of the
values they had when it was computed.  `ErrorChecking` is the checks on kinds, devices and voltages; `TechRefused` the exits
of `init_tech_params()` for a voltage that is too low; `DvsBegin`, `DvsLevel`, `DvsReset` and `Pg`, `PgReset` are
`update_dvs()` and `update_pg()`; `AskAgain` is McPAT's next request with the same `InputParameter`, which `update_pg()` has
changed and changed back.  The search of a NUCA bank replaces the result's arrays, as in the code.

**TechParams**: `init_tech_params()`.  `Passes` are the one or two nodes of a feature size.  What a node's block assigns is a
table (`itrs_180` to `itrs_22`, `dram_90` to `dram_22`); which local array feeds which field of `g_tp` is `From`; an array
keeps what the pass before left, so that a field may come from another node, from an earlier call or from nothing
(`Own`).  Supplies, thresholds and gating voltages are in mV, rounded, leakage is in units of the device type,
resistances are compared as products.  `Reads` is what the array circuits, decoders and sleep transistors take.

**BasicCircuit**: which device and which of its fields each function reads for a transistor, given as the set of its
flags, and how often each state of a gate's inputs enters its leakage.

**RepeatedWires**: `update_fullswing()`, whose four penalties share one list: `Left` is what is left of it in each pass; and the width the statics of
`Wire` hold while the units of a chip are built (`BuildArray`, `BuildRouter`, `BuildInterconnect`): every `init_interface()`
initialises the wires again, and a resetting `Wire wreset();` resets nothing, being the declaration of a function.  `WiresRight`, at the end of CactiInterface, is about both.

**Nuca**: the numbers of banks `sim_nuca()` tries, the grid with the least average latency for each configuration, and
`find_optimal_nuca()` with its erasures (`BanksRight`, `GridsRight`, `PickRight`; CactiInterface states them as `NucaRight`).  The loops are recursive functions: the sum over the banks of a grid (`AccessLatency`), the columns
tried for a configuration (`SearchGrid`), the configurations one after the other (`SearchGrids`, which pass on the best so far and
`Reset` its latency), the turns of `find_optimal_nuca()` (`Turn`), whose iterator is a position in the original list.

**Processor**: the units of each group in the order of the constructor, and `compute()` by phases in
`Phases`.  A unit is a record of its area, the parameter copies it was built with and its figures;
`Refresh` is `set_core_param()` and its like at the start of `computeEnergy()`.  With alike units
(`homogeneous_*`) one is built and counted several times (`Copies`).  Memory, flash, PCIe and network
controllers are constructed again in `compute()`.  `Exit` is the check of private second level
caches, `Abort` the assertion on the length of a bus, which the constructor reaches while the
chip's area is still zero.

**UnitTables**, **FrontUnits**, **BackUnits**, **UncoreUnits**: what each call of each class does.  A unit's configuration is the set of
the flags its code tests.  For each class there are tables by configuration: `_made` the parts its constructor
allocates, `_peak` and `_run` the parts whose statistics `computeEnergy(true)` and `(false)` set (for the runtime call with the
counters of `*XML` they come from), `_charge` the parts behind each figure, `_fixed` those among them known from the
construction (both are sets of pairs of a figure and a part), `_sum` what is added to the unit's own power and with which leakage, `_saved` the energies the peak
call leaves for the runtime call, `_shown` the figures displayed, `_gone` the parts deleted.  FrontUnits has fetch, branch
predictor, renaming and scheduler; BackUnits load-store, memory management, register files, functional units, execution
and the core; UncoreUnits shared caches and directories, memory controllers, networks and I/O controllers.

**UnitArrays**: what the constructors ask of CACTI, each request a tuple.  A unit has one `interface_ip` and changes it from array to array; `Assigned`
is the last assignment of a field, of this array's or of one before it.  Out of it come the refusals
of `error_checking()` and what the array has (`Resources`): a search energy, a tag array, ports.

**UnitLife**: one unit from `Construct` over `ComputePeak`, `ComputeRun` and `DisplayEnergy` to `Destroy`.  The variables say which parts
are live, which statistics stand and from which call, what the figures hold and with which leakage, and what was used
that was not there.

**XmlInput**: `parse()` as a walk over the file's components, by position and with the counters of the code; `filled` says which
component each entry of `sys` was filled from.  **XmlFields** has the field every name is stored in and what
`initialize()` put there; **XmlReads** the fields every `set_..._param()` reads.

**Chip**: from the file to the figures.  `Parse` is XmlInput; `ExitPrivate` and `ExitFlash` are refusals of the constructor of
`Processor` and of a flash controller; `BuildUnit` builds any one of the units the numbers ask for, reading its entries, and its life
follows.  The units do not touch each other, so one at a time is enough, and the file is forgotten when it is built.

**Multi**: both programs over the file.  A run is `mcpat`, `multi x ser`, `multi x des` or `multi x
dynamic`.  `Parse`, `StartLoad` and `Go` start it, `Open` and `Write` save (the file is torn between
the two), `Load` or `LoadFails` read it, `TotalCycles`, `OpenBlock`, `Field`, `CloseBlock`,
`EndInBlock`, `EndCommands` interpret a dynamic file, `Step` is a step of the Processor, and `Kill`
ends a run anywhere.

**Serialize**: the recursion of `serialize()` and `do_des()` with an explicit stack, over any pointer graph.

## 3. Runs

Runs that hold:

| run | question | instance | shows |
|---|---|---|---|
| `ucache_search` | does the threaded search do what a sequential one would, and end? | a cache; 3 workers, 4 triples, 2 Ndsam pairs, Nspd from 1 for the tag and from 2 for the data array, 2 wire types, two thirds of the shapes valid; a forced Nspd and triple for the data array | types, `TechConsistent`, `OnlyFilled`, `WorkSplit`, `NeverRevisits`, `MainStepsAlone`, refinement of `ExhaustiveSearch`, `Termination` |
| | has a valid partition room for the whole array, can it address and deliver it? | caches, RAMs, main memories, fully associative caches and CAMs of sizes that are powers of two and that are not; all subarrays up to 8 by 8, content-addressed ones up to 512 | `CapacityRight`, `ShapesRight` |
| `select_cache` | do filters, choice and clean-up depend on the order of the lists? | every permutation of every subset of 5 data arrays; every list of 2 tag arrays for up to three of them; weighted and ED^2 cost | `OwnershipRight`, `Filtered`, `LeastOfExamined`, `Termination` |
| `arrays` | does the retry loop keep what it reports? | every permutation of every subset of 4 organisations that meet neither, one or both bounds; with and without associativity, optimised or not | `ResultOwned`, `ReportTruthful`, `LeastEnergyKept`, `OptimisationEnds` |
| `cacti_requests` | under which parameters was each result computed? | at 90 nm all combinations of kind, two SRAM device types and DRAM for cell and periphery, a specified voltage, up to two DVS levels, gating, NUCA; a sweep of 21 feature sizes at, between and beside the nodes with all device types, both projections and voltages near the limits | `ResultsAsAsked`, `Answered`, `OwnParameters`, `ParametersFit`, `GateStatesCounted` |
| | which wires do units get, which organisation has a NUCA cache? | lists of up to 3 repeated wires; any 3 units after the request; caches of 1 to 512 units of 64 KB, forced numbers of banks that are powers of two and not; all pairs of 40 configurations, lists of up to 3 organisations | `WiresRight`, `NucaRight` |
| `programs` | are the printed figures those of the last statistics, whatever ran before? | 5 processors of up to two units per group; any sequence of runs, killed anywhere; dynamic files of up to 3 commands | `TypeOK`, `AsAsked`, `WholeChip`, `FileIsInitial`, `RunEnds` |
| `serialization` | is the graph loaded the graph saved? | all 4096 graphs of a Processor and two objects with two pointers each | `EachOnce`, `SameGraph`, `Termination` |
| `chip` | does every unit get what its component gives, and make of it what it should? | files with up to two units of a kind and two kinds besides cores and controllers, complete, or with a component missing or misnamed; every class of unit under every combination of the flags it tests | `FilesRight`, `InputsRight`, `NothingMissing`, `ChargedOnce`, `FiguresRight`, `OwnComponent`, `Ends` |

Why the bounds are enough.  In the search a worker's behaviour depends on its tid, the stride and the
loop bounds: with 3 workers and 4 triples one worker strides twice and the others once, the forced triple of
the data array leaves it to one worker only, and two values of each other loop make every loop advance and
restart.  A list of five holds every pattern of an erasure (first, last, two in a row, the only one) that
the list loops distinguish, and four organisations give each combination of the two flags in each
order.  Two units per group tell one from many and alike from different; two objects with two
pointers give self loops, cycles, sharing, null and pointers into `g_tp`.  Three commands are a statistic, a
block and one more; the dynamic file is read word by word and the block is all that is remembered of it.
In `chip` the flags are enumerated in full, the entries of `sys` are 2 for 64 (`Entries`; the walk treats all alike) and
the largest unsigned integer is 30 (`UIntMax`), more than any sum of counters of a file reaches without wrapping.  Feature sizes
stand on both sides of each node and of each limit the code tests.  `MaxFanin` is one more than any
fan-in written in the code.
Lists of three wires or organisations let the first, the second and the last be erased; three units let a widened
one stand before, between and after others.  `MaxFeedback`, `MaxCommands` and `NucaBanks` are the bounds that cut a counter.

What is assumed of the input.  Numbers of ports, widths and entries in a file are positive, an associativity is not
zero where a cache is meant, and no count exceeds the 64 entries of its array, which the code does not check
either.  A dynamic file's words are well formed.

Deadlock is checked in every run: where a program stops, an action says so
(`Finished`, `Stopped`, `Ended`, `Halt`).

Fairness.  `Chip` is one process from the file to the figures: weak fairness of its next step.  `Ucache` assumes weak fairness of the main thread and of every worker: they are pthreads that
wait for nothing but `pthread_join`, and the operating system schedules them.  `SolutionSelect`,
`ArrayST`, `Serialize` and the steps of a run in `Multi` are sequential code: weak fairness of the
next step.  No fairness is assumed of a user's choices or of `Kill`.  `Termination`, `OptimisationEnds`,
`RunEnds` and `Ends` need it and nothing else does.

Each property of a run fails when one definition is replaced by the mutated form `PROJECT.json` names.

## 4. Findings

Five runs each refute one sentence of the documentation or of a comment.

| run | what the code does |
|---|---|
| `select_weighted` | with the weighted cost the second solution of the list is never examined, so that the least cost is not always picked (`cacti/Ucache.cc:613`); `LeastOfExamined` is what does hold |
| `array_usable` | when one result meets the throughput and a later one the latency, the loop of `optimize_array()` ends with the result it just released, and its null pointer is used (`array.cc:164`) |
| `total_sum` | heterogeneous first level directories enter the processor's power without clock or execution time (`processor.cc:713`) |
| `peak_power` | the second call of `computeEnergy()` clears the peak figures of the first before they are added (`core.cc:3876`, `sharedcache.cc:603`) |
| `stale_duty` | units keep the duty cycles they were built with when a dynamic file changes them (`core.cc:2099`) |

The properties that hold state their exceptions, each of which is something the code does.  A property without its
exception fails.

- `RunEnds` excepts a dynamic file that ends inside a block (the loop then reads the last word for ever, state `stuck`), and
  counts as ends a failed assertion for a bus (`aborted`) and a load without a whole file (`crashed`).
- `Answered`: `update_dvs()` does not restore specified voltages, and `update_pg()` evaluates the tag array under the data array's
  technology; the reference is only compared where neither matters.  `ResultsAsAsked` leaves out NUCA requests, whose
  results are computed with the wires a router left.
- `OwnParameters` (`Excused`): above 90 nm the block of 180 nm assigns nothing but the high performance devices, so that sleep
  transistors, and at 91 nm all types, are those of an earlier pass or of nothing; a voltage of the user's at 180 nm reaches
  `vdd_real` and `I_on_n` only; a periphery of DRAM transistors; `lp_dram` between 32 and 22 nm; the local wires of
  `comm_dram` under the aggressive projection.
- `ParametersFit`: default voltages are refused over about a third of the sizes between two nodes, because
  `Vcc_min_default` counts the larger node twice (`technology.cc:1820`); the leakage tables of `itrs_lop` at 90 nm and `itrs_lstp` at
  22 nm have misprints; a supply of `itrs_lop` lowered by the user may be below the threshold of the sleep transistors.
- `GateStatesCounted`: `combination(n, n)` is n + 1 instead of 1.
- `CapacityRight`: the rows of a fully associative cache are rounded down, and entries are lost when they do not come out even.
- `ShapesRight`: the square root of the number of mats of a fully associative cache, widths that are no multiple
  of a mat's and logarithms of address bits are rounded down; at 128 and 512 subarrays mats are lost; the tag of a cache of
  several banks has the bits of the bank subtracted twice.
- `NucaRight`: the second organisation is passed over when the first is not admissible; with none admissible a null
  pointer is used; a cache of fewer than two smallest banks is not simulated, one smaller than a bank fails an assertion, and one of
  256 or more, or of 128 forced banks or more, reads past the seven rows of the contention table; of a cache that cannot be
  divided evenly, less than a bank is left over.
- `WiresRight` holds without an exception, although 'multi' never widens a wire: `opt_for_clk` is set by `mcpat` only.
- `OwnComponent`: a network whose component has another name keeps its initial values, a second level directory passes for a
  second level cache, a third level cache reads a second level entry that need not exist.  `InputsRight`: the entry of a third level
  cache starts with a gating voltage of zero, which counts as given; no name is stored to the home node's write accesses.
- `NothingMissing` (`HeightsKnown`): the height of the instruction window of a single-threaded in-order core and of a reorder
  buffer that does not exist are read before anything set them.
- `ChargedOnce` (`Uncounted`, `CountedTwice`) and `FiguresRight` (`DisplayComplete`) list the leakage that is missing or doubled
  and the figures nothing displays; their comments name the units.

## 5. Proofs

Eight modules hold theorems, each beside the module it is about (`Ucache_proofs` EXTENDS `Ucache`, and so on).  Every
theorem holds for all values of the constants the module's assumptions allow: any number of workers and shapes, any
lists of arrays, any graph of objects, any processor, any file.

| module | theorem | says |
|---|---|---|
| Ucache | `TypeCorrect`, `ControlCorrect` | `TypeOK`, `Control` |
| | `TechCorrect` | `TechConsistent`: no organisation was evaluated under the other array's technology |
| | `NoRace` | `MainStepsAlone`: the main thread changes what workers read only while they do not run |
| | `OnlyFilledCorrect` | `OnlyFilled`: no unfilled array is kept and no live one is forgotten |
| | `CapacityRightCorrect` | `CapacityRight`: a partition declared valid has room for all bits, for requests and partitions of any size |
| | `NeverRevisitsCorrect` | `NeverRevisits` |
| | `WorkSplitCorrect` | `WorkSplit`: the stride gives every valid organisation to exactly one worker |
| | `Refinement` | `ImplementsExhaustiveSearch` |
| SolutionSelect | `OwnershipRightCorrect` | `OwnershipRight`: nothing deleted is used or deleted again, nothing is left over |
| | `FilteredCorrect` | `Filtered`: the undominated arrays in their order, never none |
| | `LeastOfExaminedCorrect` | `LeastOfExamined` |
| CostModel | `LeastFiguresBound`, `WithinDevMonotone` | the minima are attained and bound all; what meets a deviation meets a larger one |
| ArrayST | `ResultOwnedCorrect` | `ResultOwned` |
| | `ReportTruthfulCorrect`, `LeastEnergyKeptCorrect` | `ReportTruthful`, `LeastEnergyKept` |
| Serialize | `EachOnceCorrect` | `EachOnce`: no object is written or built twice, calls nest no deeper than there are objects |
| | `SameGraphCorrect` | `SameGraph`: sharing, cycles and null pointers survive |
| CactiInterface | `ResultsAsAskedCorrect`, `AnsweredCorrect` | `ResultsAsAsked`, `Answered` |
| | `InstalledInvariance`, `OwnParametersCorrect` | `OwnParameters`: the fields a result's circuits read are those of its own nodes and voltages, at every feature size and whatever was installed before |
| | `ParametersFitCorrect` | `ParametersFit`, for every feature size, device type and voltage |
| | `WiresRightCorrect` | `WiresRight`, for lists of repeaters of any length and units in any number and order |
| | `NucaRightCorrect` | `NucaRight`, for every cache, every sequence of configurations and every list of organisations |
| Multi | `TypeCorrect`, `FileIsInitialCorrect` | `TypeOK`, `FileIsInitial` |
| | `AsAskedCorrect`, `WholeChipCorrect` | `AsAsked`, `WholeChip` |
| Chip | `FilesRightCorrect` | `FilesRight`: a file is accepted exactly if its components are those its numbers ask for (the lonely core excepted), each entry is filled from its own component, no counter leaves its bounds |
| | `OwnComponentCorrect` | `OwnComponent`: each unit reads entries filled from components of its own kind, with the exceptions of section 4 |
| | `LifeInvariance`, `NothingMissingCorrect` | `NothingMissing`: parts, figures and heights are there when used, CACTI accepts every request, everything made is released |
| | `ChargedOnceCorrect`, `FiguresRightCorrect` | `ChargedOnce`, `FiguresRight` |
| | `DescribedInvariance`, `InputsRightCorrect` | `InputsRight`: every field a unit reads, under any flags, is stored from the name that means it |

Each `...Invariance` (in Ucache `SearchInvariance`) is the inductive invariant behind the others; TLC checked each of these invariants
on the instances of the runs before it was proved (that of Chip on a part of the files).

Assumptions.  All are named ASSUMEs in the module that declares the constants, and TLC evaluates them in the runs.  Most give
a constant its type and keep markers apart from data: `CountAssumption`, `ConfigAssumption`, `SelectAssumption`,
`SerializeAssumption` (a finite heap, the null pointer no object), `NullAssumption`, `ProcessorAssumption`.  Those that say more:

- `CountAssumption`: at least one worker, one triple and one pair of Ndsam.
- `ConfigAssumption`: no valid shape costs more than `BIGNUM`, from which the minima start; a scratch array is not an entry.
- `ListsAssumption`: every `mem_array` is in one list once, and only a cache has a tag array.  The first is what
  `NeverRevisits` shows of the search.
- `ArrayAssumption`: figures and bounds are positive and the lists CACTI answers from are not empty.
- `ShapeAssumption`: sizes are positive, kinds of memory exclude each other, numbers of subarrays are one or even, forced ones too, and
  no cache is so large that its tag has no bit left.
- `WiresAssumption`: `init_wire()` finds at least the delay-optimal wire, and the bounds of interconnects are positive.
- `NucaAssumption`: no more banks are forced than the cache has units, and no average latency reaches `BIGNUM`, from which the best
  starts.
- `InterfaceAssumption`: a request by `*_ip` has no DVS levels; McPAT sets none.
- `MultiAssumption`: there is at least one processor to be described.
- `ProcessorAssumption`: areas, energies and clocks are positive.
- `FilesAssumption`: no number in the file is larger than the arrays of `sys` are long, no sum of them wraps, and components have
  names.  The code does not check the first: a larger number writes past the ends of the arrays, which is not modelled.

### Ucache

`TechConsistent` is not inductive: a worker's next entry carries whatever `g_tp` holds.  `Control` adds what is needed: the
installed technology is that of the phase, a running worker's job is the phase, and workers run only while the main
thread creates or joins, the ones it has not created yet or has already joined excepted.
`IInv == TypeOK /\ Control /\ TechConsistent` is inductive, and `NoRace` follows step by step.  `OnlyFilled`
needs in addition where the scratch arrays are and that nothing but a data search fills a data list
(`Filling`).

`NeverRevisits`, `WorkSplit` and the refinement need to know how far each worker is.  `Progress` says that a worker has put in its
list exactly the valid organisations of the positions its loops have passed, and has the minima of those; `FirstVisit`, `NextVisit`
and `LastVisit` are the lemmas about the nested loops: the first position, that the positions passed grow by the
current one, that nothing is left at the end.  `Delivery` says that `solve()` holds what the joined and merged workers found,
`Minima` the same of the minima.  The partition by stride is arithmetic (`Euclid`, `Stride`, `StrideGap`): each triple has one owner, and
between two turns of a worker there is no triple of its own.  A forced triple is the exception `WorkSplit` states: every worker that
owns some triple builds it.

`Refinement` is a refinement mapping: the phase of ExhaustiveSearch changes with the last merge of a search and with the last
minima, every other step is a stutter.  At the last merge `Delivery` gives `found` all valid organisations, and
`FinalMinima` that the least over the workers' minima is the least over all.

`CapacityRight` is arithmetic over a request and a partition of any size.  `CeilDivUp` says that a quotient rounded up covers what
was divided; `RowsTimesColumns` that the product of rows and columns, the one rounded up after a division by the stretch Nspd, the
other multiplied by it, is at least what was asked for: the common factor cancels.  For the mats, a number of subarrays that is one or even is as many mats, or
twice as many, in each direction (`Halves`), so that mats times subarrays per mat are all of them (`AllPlaced`).

### SolutionSelect and ArrayST

The inductive invariant of the selection has a part for each list: `Heap` says what is owned and by whom, `DataList` that the
list of data arrays is a selection of what was delivered in which nothing ahead of the iterator is dominated, `TagList` and
`SolutionList` the same of tag arrays and solutions, and `Examination` which solutions the loop of `find_optimal_uca()` has accounted for at each
position of its iterator: this is where the passed-over second solution shows.  `RemoveAtProperties` and `RemoveAtDistinct` are what `erase` does to a
sequence.  That a filter leaves something (`UndominatedExists`) needs an array of least energy, found by well-founded induction.

In ArrayST `Deviation` ties the deviation asked for to the number of retries, `LatestResult` the flags to the result that was last
got, `CandidateList` what a candidate has met, and `Selection` that the best so far is the least of those looked at.

### Serialize

The stack is the recursion, and the invariant says for each depth which calls are done, open or to come: `SerCalls` and `DesCalls`.  `Written` says
that a block's pointers are those of its object under `ids`, `Reached` that each block is referred to from one written before it or being
written, `OneToOne` that addresses, ids and copies correspond.  `Reached` is what `SameGraph` rests on when it says that everything
saved is loaded: `EveryBlockMade` is an induction over positions in the file, in which each block is made
because one before it points to it.  `NoDeeper` bounds the stack by the size of the heap, because no object is open twice.

### CactiInterface

`GlobalsRight` says for each place in the program which parameters, technology and wires the globals hold, `ParametersKept` which
flags of power gating stand, `ResultsSoFar` under what each result so far was computed.  There is one lemma for each action.

Technology.  `Installed` is the second invariant: every technology in place or behind a result was asked for and passed the checks.  What
remains is about `init_tech_params()` alone.  A feature size is a node's or amid two (`OnNode`, `Amid`), which fixes its passes;
`WriterIs` finds the pass that wrote the local array behind a field last, `ItrsOwn` and `CellOwn` say that it is the field's own pass, and
`AllFieldsOwn` puts the fields together.  For the numbers, `AddedIs` turns what a field accumulates over the passes into a sum of
two rows with their shares, so that a bound on both rows is a bound on the field (`AddedLess`): supplies above thresholds and leakage rising with the
temperature follow from the rows.  Wires' resistances are compared as products of height and breadth of two passes each
(`ThickerIs`, `HigherLess`); 90 nm stands apart (`Less90`), where the barrier of the aggressive projection is thicker than the conservative one's.  A refusal at
default voltages is traced to `VccBase`, which counts the first node twice.

Wires.  The passes of `update_fullswing()` shorten one list, but what a larger penalty drops a smaller one drops too
(`LeftIsAllowed`), so that each pass chooses from all its penalty allows; that a least one exists is well-founded induction.  For the
units, `FoundNotRead` says that none reads the statics it finds, because `init_interface()` sets them anew; what a unit reads therefore
depends on itself alone, whatever was built before.  `StagesCover` says that the stages of a pipelined wire cover its delay.

NUCA.  `NucaRight` is about loops, each a recursive function over the turns.  `LoopExists` says that such a function has values: the sequences of
states up to a turn are extended by one, along the well-founded order of the naturals, so that again no operator is a parameter of the
induction.  `PowersGrow`, `LogIs` and `QuotientLargest` give the numbers of banks.  Over the columns the invariant `BestOf` says that the best so far is a
grid tried and no worse than the others tried; that it is one of this configuration and not of an earlier one
rests on `Reset`, for the first column always replaces what was left.  Over the turns of `find_optimal_nuca()` the invariant of `EveryPickRight` accounts for every
position before the iterator: erased, passed over (only the second) or no cheaper than the result.

### Multi

`TypeOK` alone is not inductive: while a block of a dynamic file is read, that its component is one of those the file sets is
what keeps `xml` well typed (`InBlock`).  `Progress` says how far `compute()` has come: groups before the current phase have been computed with the
statistics of `xml`, groups after it are as they were; `NetworkProgress` says the same within the networks; `Sums` says that the totals
are the sums over the groups computed, `Building` and `AsBuilt` what the constructor has summed up; `Finished` says that what a finished run
prints is the whole.  `AsLoaded` is `FileIsInitial` carried over a load.

`Total` is a recursive function over the units of a group.  What it yields is proved with partial sums: `TotalPartial` says that a
total is the last of a sequence of partial sums, and equality of two totals (`SameTotal`) follows by taking the first position where
their partial sums differ, with the well-founded order of the naturals.  In this way the induction stays first-order.

### Chip

The walk of `parse()` keeps three counters that must agree with the layout the numbers of the file ask for.  `Size` and
`Ahead` are how many components a step of the walk takes and how many stand ahead of it; `LayoutFacts` says that the group of
a step occupies the places from `Ahead(s) + 1` to `Ahead(s + 1)` of the layout, and no other.  With `Accepted`, the components
gone through so far, `Counters` ties `order`, `w` and `i` to them: `w` is the next component, or stands still (`Stuck`) at a component
where a network should be and is not; and past the cores their number is that of the file, because a file of no core asks for
`UIntMax` of them and runs out of components first.  `Checked` says that everything gone through fits, `Placed` that an entry holds the
place of its component exactly when parse() has passed it.  From a misfit it follows that the file does not fit (`Unfit`) or that
the only core is being looked at as a memory controller; from the end that all places were checked.  `PlaceIs` counts the
components of a group ahead of an entry's.  `OwnComponent` then follows from `Placed` and from `AskedFor`: no unit is built beyond the
entries that were filled.

A unit's life is proved class by class.  For each class, and under all combinations of its flags at once, there are lemmas about its tables: `Sound`, every
part used is made, every part made is released, every runtime figure has its statistics and what is displayed is what is
charged; `Counts`, how often a part's energy and leakage enter; `Suited`, CACTI accepts each request for an array and the array has
what it is used for.  `Life` carries them through the calls: it says at each
place in a unit's life which parts are live, which statistics stand and from which call, and what the figures hold.  `NothingMissing`,
`ChargedOnce` and `FiguresRight` follow from it and from the lemmas; their exceptions are those combinations of class and flags for
which a table lacks or doubles something.

For `InputsRight`, `Described` ties the unit being followed to a class of its group, to flags of that class and to the gating voltage of its
component.  `CoreStores` and `AllMeant` say which names of the file are stored to which fields, and `CountersRead` that the fields a
class reads lie within those.

### Definitions the proofs changed

Without changing what they mean:

- `WeightedCost` is a sum of five terms instead of a fold, and the minimum of `LeastFigures` a CHOOSE;
- `DataFiltered` says that the list has the undominated arrays, in the order of their delivery, instead of comparing it with a selected
  sequence;
- `ComputeLinks` names the networks it changes once, and the sets `ComputeEnergy` builds name their pairs instead of taking them apart;
- what is charged and summed are sets of pairs, statistics sets of parts for each call, requests tuples, and tables are written with the
  operators of Tables instead of those of TLC; names in XmlFields are literals;
- `RepeatedWires` and `Nuca` do without folds: what a loop goes through is a recursive function;
- `ArrayShape` and `BasicCircuit` have a chain of IFs where cases overlap, and name the limits on subarrays;
- `OnlyFilled` takes in that `data_arr.clear()` forgets nothing.

### Only model-checked

- Liveness: `Termination`, `OptimisationEnds`, `RunEnds`, `Ends`: it rests on fairness, which the proof system does not treat.
- `ShapesRight`: logarithms of powers of two over a chain of divisions, and a square root, each rounded down.  What it takes is the
  arithmetic of exponents, which none of the provers has, and which was not built up for it.
- `GateStatesCounted`: for the fan-ins the code uses, all of which TLC goes through, that each state of a gate's inputs is counted once.  For
  a fan-in of any size it is the sum of a row of binomial coefficients, an induction over data.
- The properties of the runs that expect a violation.

What a theorem does not say: that the model is the code.  The map of `PROJECT.json` is what links the two.

## 6. What is not modelled

- The circuit models (`mat.cc`, `bank.cc`, `subarray.cc`, `decoder.cc`, `htree2.cc`, `uca.cc`, `powergating.cc`, `router.cc`, `arbiter.cc`) and
  the formulas of `logic.cc` and `basic_components.cc`: numbers without control state of their own.  Their results are constants;
  which parameters they read is in TechParams.
- Of technology the currents, capacitances, cell sizes and scaling factors, which no property tells apart.
- The amounts charged: UnitLife says which parts and counters enter a figure, not by which formula.
- Temperature, except that `leakage_feedback()` rescales a result.  `interconnect::leakage_feedback()` is called by nothing.
- Zero or infinite figures in the search: costs divide by minima, which the model takes to be positive.
- The contention figures of a NUCA cache and the power of its network.
- `serialize.gen.cpp.inc` and `gen_ser.py`: the field lists are data of the graph Serialize quantifies over.  Byte layout, and
  what a virtual call does on an object made without a constructor.
- The vendored XML library, the conversion of text to numbers, the text of reports, the reading of `cache.cfg`.
- `Documents`, `ExampleResults` and the processor descriptions are data; two of them are quoted in findings.
- `opt_for_clk` is set by `mcpat` only; `Processor` models runs without it.

Known and not among the hazards with a property: `Crossbar::compute_power()` calls itself for half a crossbar, and the outer call goes on
with the wires and widths the inner one left (`cacti/crossbar.cc:118`); `initialize()` stores to element 20 of arrays
of 20 in three places (`XML_Parse.cc:1645`, `1661`, `1780`); `compute_penalty()` returns before it sets a sleep transistor's
wake-up delay, which `mat.cc:1779` reads (`cacti/powergating.cc:119`).

## 7. Plan

Done: the search, selection, arrays, requests with technology and wires, NUCA, programs, serialization, and the way of every unit from
the file to its figures; the theorems of section 5.  What remains, in this order:

1. The composition of `UnitLife` and `Processor`: `compute()` calls the lives of all units; today Processor treats a unit's
   figures as two numbers and UnitLife one unit at a time.
2. Decoders: the shapes a decoder derives from rows and multiplexers (`decoder.cc`), against the address bits of ArrayShape.
3. The generated serializers: which fields of each class are saved, against the fields its `compute()` reads.
