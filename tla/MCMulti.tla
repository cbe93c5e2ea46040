------------------------------- MODULE MCMulti -------------------------------
(* Two units of a group; processors with alike and different units,        *)
(* private and shared second level caches, networks with and without       *)
(* links, a bus, and one whose private caches do not match its cores.      *)
EXTENDS Multi

Per(c, l, d, m) == [g \in Groups |-> CASE g = "core" -> c [] g \in Controllers -> m
                                      [] g \in {"l2", "l3"} -> l [] OTHER -> d]
MCArea      == Per(7, 5, 3, 2)
MCPeak      == Per(4, 3, 2, 5)
MCPerAccess == Per(2, 3, 5, 4)
MCClock     == Per(4, 2, 2, 2)

Num(c, l, d, m, n) == [g \in Groups |-> CASE g = "core" -> c [] g \in {"l2", "l3"} -> l
                                         [] g \in Controllers -> m [] g = "noc" -> n
                                         [] OTHER -> d]
Stats == [cycles |-> 2, own |-> [i \in Index |-> i], duty |-> [i \in Index |-> 1],
          acc |-> [g \in Groups |-> [i \in Index |-> i]]]
Input(num, alike, private, router) ==
  [stats |-> Stats,
   cfg |-> [num |-> num, homo |-> [g \in Groups |-> g \in alike], privateL2 |-> private,
            router |-> router, link |-> [j \in Index |-> TRUE]]]

Routers == [j \in Index |-> TRUE]
Bus     == [j \in Index |-> j = 1]
Alikes  == Input(Num(2, 2, 2, 2, 2), Groups, FALSE, Routers)
Mixed   == Input(Num(2, 2, 2, 1, 2), {"core", "l1dir"}, FALSE, Routers)
Private == Input(Num(2, 2, 1, 1, 1), {"noc"}, TRUE, Routers)
Unequal == Input(Num(2, 2, 0, 0, 0), {"core"}, TRUE, Routers)
WithBus == Input(Num(1, 1, 0, 0, 2), {}, FALSE, Bus)

MCInputs == {Alikes, Mixed, Private, Unequal, WithBus}
=============================================================================
