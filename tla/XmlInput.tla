------------------------------ MODULE XmlInput ------------------------------
(***************************************************************************)
(* ParseXML::parse(): which component of the file fills which entry of     *)
(* sys.  The file is read by position: first the cores, then as many       *)
(* components as each group has, then one memory, network, PCIe and flash  *)
(* controller.  A component stands for its name: what parse() compares.    *)
(***************************************************************************)
EXTENDS Integers, Sequences, FiniteSets

CONSTANTS
  Files,    \* the files to read
  Entries,  \* the length of the arrays of sys (64 in the code)
  UIntMax   \* the largest unsigned int

ASSUME InputAssumption == /\ Entries \in Nat \ {0}
                          /\ UIntMax \in Nat

VARIABLES
  file,     \* num and homogeneous of each group, Private_L2, the components
  step,     \* the position in Groups of the group being read
  order,    \* OrderofComponents_3layer
  w, i,     \* the position of the next component, and its index in the group
  filled,   \* the component each entry of sys was filled from, 0 if none was
  verdict   \* "parsing", "done" or the reason the program has ended for

inputVars == <<file, step, order, w, i, filled, verdict>>

Shared  == <<"L1Directory", "L2Directory", "L2", "L3", "NoC">>
Singles == <<"mc", "niu", "pcie", "flashc">>
Groups  == <<"core">> \o Shared \o Singles
GroupNames == {Groups[k] : k \in DOMAIN Groups}
Counted == {"core"} \union {Shared[k] : k \in DOMAIN Shared}

(* What a file may hold: a number and a flag for each group that is        *)
(* counted, and components with names.  Nothing checks a number against    *)
(* the length of the arrays of sys, and larger ones, which write past      *)
(* their ends, are not modelled.  No sum of them wraps.                    *)
ASSUME FilesAssumption ==
  /\ (1 + Len(Shared)) * Entries + Len(Singles) <= UIntMax
  /\ \A f \in Files :
       /\ f.num \in [Counted -> 0 .. Entries] /\ f.homo \in [Counted -> BOOLEAN]
       /\ f.private \in BOOLEAN
       /\ f.comps \in Seq(STRING \ {""}) /\ Len(f.comps) <= UIntMax

Group == IF step \in DOMAIN Groups THEN Groups[step] ELSE "none"

(* A name is searched for the name of its group, so the name of a second   *)
(* level directory is as good as that of a second level cache.             *)
Matches(g, name) ==
  \/ name = g
  \/ g = "L2" /\ name = "L2Directory"

(* xNode2.getChildNode("component", k): "" when the node is empty.         *)
Child(k) == IF k < Len(file.comps) THEN file.comps[k + 1] ELSE ""

LastCore_Signed == IF file.homo["core"] THEN 0 ELSE file.num["core"] - 1

(* The type of number_of_cores is unsigned: no core at all is a great many.*)
LastCore ==
  IF file.homo["core"] THEN 0
  ELSE IF file.num["core"] = 0 THEN UIntMax ELSE file.num["core"] - 1

Count(g) == IF file.homo[g] THEN 1 ELSE file.num[g]

InitInput ==
  /\ file \in Files
  /\ step = 1 /\ order = 0 /\ w = 0 /\ i = 0
  /\ filled = [g \in GroupNames |-> [k \in 0..(Entries - 1) |-> 0]]
  /\ verdict = "parsing"

Exit(reason) == /\ verdict' = reason
                /\ UNCHANGED <<file, step, order, w, i, filled>>

Fill(g, k, child) == filled' = [filled EXCEPT ![g][k] = child + 1]

(* A file without any component leaves every entry as it is.               *)
NoComponents ==
  /\ verdict = "parsing" /\ step = 1 /\ file.comps = <<>>
  /\ verdict' = "done"
  /\ UNCHANGED <<file, step, order, w, i, filled>>

ReadCore ==
  /\ verdict = "parsing" /\ Group = "core" /\ file.comps # <<>> /\ i <= LastCore
  /\ \/ /\ Matches("core", Child(i))
        /\ Fill("core", i, i)
        /\ i' = i + 1
        /\ UNCHANGED <<file, step, order, w, verdict>>
     \/ ~Matches("core", Child(i)) /\ Exit("misfit")

EndGroup_Again(last) ==
  /\ order' = last
  /\ w' = last + 1
  /\ i' = 0
  /\ UNCHANGED <<file, step, filled, verdict>>

(* After a group the order is that of its last component.                  *)
EndGroup(last) ==
  /\ order' = last
  /\ w' = last + 1
  /\ i' = 0
  /\ step' = step + 1
  /\ UNCHANGED <<file, filled, verdict>>

EndCores == /\ verdict = "parsing" /\ Group = "core" /\ file.comps # <<>> /\ i > LastCore
            /\ EndGroup(LastCore)

ReadShared_SameChild ==
  /\ verdict = "parsing" /\ Group \in {Shared[k] : k \in DOMAIN Shared}
  /\ i < Count(Group)
  /\ \/ /\ Matches(Group, Child(w))
        /\ Fill(Group, i, w)
        /\ i' = i + 1
        /\ UNCHANGED <<file, step, order, w, verdict>>
     \/ ~Matches(Group, Child(w)) /\ Exit("misfit")

(* A component of another name ends the program, unless it stands where a  *)
(* network should: then it is passed over, and w stays where it is.        *)
ReadShared ==
  /\ verdict = "parsing" /\ Group \in {Shared[k] : k \in DOMAIN Shared}
  /\ i < Count(Group)
  /\ \/ /\ Matches(Group, Child(w))
        /\ Fill(Group, i, w)
        /\ i' = i + 1 /\ w' = w + 1
        /\ UNCHANGED <<file, step, order, verdict>>
     \/ /\ ~Matches(Group, Child(w)) /\ Child(w) # "" /\ Group = "NoC"
        /\ i' = i + 1
        /\ UNCHANGED <<file, step, order, w, filled, verdict>>
     \/ /\ ~Matches(Group, Child(w)) /\ (Child(w) = "" \/ Group # "NoC")
        /\ Exit("misfit")

EndShared ==
  /\ verdict = "parsing" /\ Group \in {Shared[k] : k \in DOMAIN Shared}
  /\ i >= Count(Group)
  /\ EndGroup(order + Count(Group))

(* The controllers follow the last component so far, which is not counted  *)
(* when it is the only one.                                                *)
ReadSingle ==
  LET at == IF order > 0 THEN order + 1 ELSE order IN
  /\ verdict = "parsing" /\ Group \in {Singles[k] : k \in DOMAIN Singles}
  /\ \/ /\ Matches(Group, Child(at))
        /\ Fill(Group, 0, at)
        /\ order' = at
        /\ step' = step + 1
        /\ UNCHANGED <<file, w, i, verdict>>
     \/ ~Matches(Group, Child(at)) /\ Exit("misfit")

EndParse == /\ verdict = "parsing" /\ step > Len(Groups)
            /\ verdict' = "done"
            /\ UNCHANGED <<file, step, order, w, i, filled>>

Parse == \/ NoComponents \/ ReadCore \/ EndCores \/ ReadShared \/ EndShared
         \/ ReadSingle \/ EndParse

-----------------------------------------------------------------------------
(* The components the numbers of the file ask for, in their order.         *)
Repeat(g, n) == [k \in 1..n |-> g]
Layout ==
  Repeat("core", LastCore + 1)
  \o Repeat("L1Directory", Count("L1Directory")) \o Repeat("L2Directory", Count("L2Directory"))
  \o Repeat("L2", Count("L2")) \o Repeat("L3", Count("L3")) \o Repeat("NoC", Count("NoC"))
  \o Singles

(* Every component is where it should be, give or take the names parse()   *)
(* does not tell apart and those it does not insist on.                    *)
Fits ==
  \A k \in DOMAIN Layout :
    k <= Len(file.comps) /\ (Matches(Layout[k], file.comps[k]) \/ Layout[k] = "NoC")

(* A chip of one core and controllers only.                                *)
Lonely == Len(Layout) = 1 + Len(Singles)

VerdictRight ==
  /\ verdict = "done" => file.comps = <<>> \/ (Fits /\ ~Lonely)
  /\ verdict = "misfit" => file.comps # <<>> /\ (~Fits \/ Lonely)

(* Where the component of an entry stands in the file.                     *)
Place(g, k) ==
  CHOOSE p \in DOMAIN Layout :
    Layout[p] = g /\ Cardinality({q \in 1..(p - 1) : Layout[q] = g}) = k
FilledInOrder ==
  verdict = "done" =>
    \A g \in GroupNames, k \in 0..(Entries - 1) :
      filled[g][k] # 0 => filled[g][k] = Place(g, k)

(* A file is accepted if and only if its components are those its numbers  *)
(* ask for, or there are none, except that the only core of a chip with    *)
(* nothing between it and the controllers is looked at a second time, as a *)
(* memory controller, and refused.  And each entry is filled from the      *)
(* component of its own place in its group, whatever stands between the    *)
(* groups.                                                                 *)
ParseRight == VerdictRight /\ FilledInOrder
=============================================================================
