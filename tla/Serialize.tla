------------------------------ MODULE Serialize ------------------------------
(***************************************************************************)
(* serialize() and deserialize() of serialize.cc on any graph of objects   *)
(* with pointers, cycles and sharing included.  serialize() walks the      *)
(* graph depth first from the Processor, gives each object it meets for    *)
(* the first time a block of the file and remembers its address;           *)
(* deserialize() walks the blocks the same way.  A block is known by its   *)
(* position in data, an object by a name, a slot is one pointer of an      *)
(* object (or element of one of its vectors).  Tech is a member of the     *)
(* global g_tp that objects may point into.                                *)
(***************************************************************************)
EXTENDS Naturals, Sequences, FiniteSets

CONSTANTS
  Objects,         \* the objects on the heap, without the Processor
  Processor, Tech, \* the Processor, and the member of g_tp
  Null,
  Slots            \* how many pointers an object has

ASSUME SerializeAssumption ==
  /\ IsFiniteSet(Objects) /\ Slots \in Nat
  /\ Cardinality({Processor, Tech, Null}) = 3
  /\ Objects \cap {Processor, Tech, Null} = {}

VARIABLES
  pc,     \* "ser", "des" or "done"
  heap,   \* what the pointers of each object point to
  data,   \* ser_reg: the blocks, each with its content and its pointers
  blocks, \* ser_reg.pointer_map, the pairs of it
  stack,  \* the calls of ser() or des(): an object or block, its next slot
  loaded, \* the objects deserialize() made: their content and their pointers
  made    \* des_reg.pointer_map, the pairs of it

vars == <<pc, heap, data, blocks, stack, loaded, made>>

Heap    == Objects \cup {Processor, Tech}
Targets == Objects \cup {Tech, Null}

(* Positions 1 and 2 are reserved for the Processor and g_tp; neither is   *)
(* put into pointer_map, and the content of g_tp is written last.          *)
Empty == 0
NoPointers == [s \in 1 .. Slots |-> Empty]
Block(o) == [content |-> o, slots |-> NoPointers]

Init ==
  /\ heap \in [Heap -> [1 .. Slots -> Targets]]
  /\ \A s \in 1 .. Slots : heap[Tech][s] = Null
  /\ pc = "ser"
  /\ data = <<Block(Processor), Block(Tech)>>
  /\ blocks = {}
  /\ stack = <<[from |-> Processor, at |-> 1, slot |-> 1]>>
  /\ loaded = <<>> /\ made = {}

Top      == stack[Len(stack)]
Rest     == SubSeq(stack, 1, Len(stack) - 1)
Advanced == Rest \o <<[Top EXCEPT !.slot = @ + 1]>>
Working(p) == pc = p /\ stack # <<>> /\ Top.slot <= Slots
Target   == heap[Top.from][Top.slot]

Found(map, key) == {e \in map : e[1] = key}
In_Any(map, key) == (CHOOSE e \in map : TRUE)[2]
In(map, key) == (CHOOSE e \in Found(map, key) : TRUE)[2]

-----------------------------------------------------------------------------
(* serdes<const U *>::ser: a null pointer, an object met before, and one   *)
(* met for the first time, which is registered before its own pointers are *)
(* followed.                                                               *)
SerNull ==
  /\ Working("ser") /\ Target = Null
  /\ stack' = Advanced
  /\ UNCHANGED <<pc, heap, data, blocks, loaded, made>>

SerKnown ==
  /\ Working("ser") /\ Target # Null /\ Found(blocks, Target) # {}
  /\ data' = [data EXCEPT ![Top.at].slots[Top.slot] = In(blocks, Target)]
  /\ stack' = Advanced
  /\ UNCHANGED <<pc, heap, blocks, loaded, made>>

Registered_Not(map, key, pos) == map
Registered(map, key, pos) == map \cup {<<key, pos>>}

SerNew ==
  /\ Working("ser") /\ Target # Null /\ Found(blocks, Target) = {}
  /\ LET pos == Len(data) + 1 IN
       /\ data' = Append([data EXCEPT ![Top.at].slots[Top.slot] = pos], Block(Target))
       /\ blocks' = Registered(blocks, Target, pos)
       /\ stack' = Append(Advanced, [from |-> Target, at |-> pos, slot |-> 1])
  /\ UNCHANGED <<pc, heap, loaded, made>>

Return_Stay(p) ==
  /\ pc = p /\ stack # <<>> /\ Top.slot > Slots
  /\ stack' = stack
Return(p) ==
  /\ pc = p /\ stack # <<>> /\ Top.slot > Slots
  /\ stack' = Rest

SerReturn == Return("ser") /\ UNCHANGED <<pc, heap, data, blocks, loaded, made>>

(* The file is written and read again, maybe by another process: nothing   *)
(* but data is left.  The Processor is the first object made.              *)
Reopen ==
  /\ pc = "ser" /\ stack = <<>>
  /\ pc' = "des"
  /\ loaded' = <<[content |-> data[1].content, slots |-> NoPointers]>>
  /\ stack' = <<[from |-> 1, at |-> 1, slot |-> 1]>>
  /\ UNCHANGED <<heap, data, blocks, made>>

-----------------------------------------------------------------------------
(* serdes<const U *>::des.                                                 *)
Stored == data[Top.from].slots[Top.slot]

DesNull ==
  /\ Working("des") /\ Stored = Empty
  /\ stack' = Advanced
  /\ UNCHANGED <<pc, heap, data, blocks, loaded, made>>

DesKnown ==
  /\ Working("des") /\ Stored # Empty /\ Found(made, Stored) # {}
  /\ loaded' = [loaded EXCEPT ![Top.at].slots[Top.slot] = In(made, Stored)]
  /\ stack' = Advanced
  /\ UNCHANGED <<pc, heap, data, blocks, made>>

DesNew ==
  /\ Working("des") /\ Stored # Empty /\ Found(made, Stored) = {}
  /\ LET new == Len(loaded) + 1 IN
       /\ loaded' = Append([loaded EXCEPT ![Top.at].slots[Top.slot] = new],
                           [content |-> data[Stored].content, slots |-> NoPointers])
       /\ made' = Registered(made, Stored, new)
       /\ stack' = Append(Advanced, [from |-> Stored, at |-> new, slot |-> 1])
  /\ UNCHANGED <<pc, heap, data, blocks>>

DesReturn == Return("des") /\ UNCHANGED <<pc, heap, data, blocks, loaded, made>>

Finish ==
  /\ pc = "des" /\ stack = <<>> /\ pc' = "done"
  /\ UNCHANGED <<heap, data, blocks, stack, loaded, made>>

Stopped == pc = "done" /\ UNCHANGED vars

Ser  == SerNull \/ SerKnown \/ SerNew \/ SerReturn \/ Reopen
Des  == DesNull \/ DesKnown \/ DesNew \/ DesReturn \/ Finish
Next == Ser \/ Des \/ Stopped

Spec == Init /\ [][Next]_vars /\ WF_vars(Next)

-----------------------------------------------------------------------------
Calls(from) == [from : from, at : Nat \ {0}, slot : 1 .. Slots + 1]

(* Types; a pointer is null or the position of a block or object there is. *)
TypeOK ==
  /\ pc \in {"ser", "des", "done"}
  /\ heap \in [Heap -> [1 .. Slots -> Targets]]
  /\ data \in Seq([content : Heap, slots : [1 .. Slots -> 0 .. Len(data)]])
  /\ loaded \in Seq([content : Heap, slots : [1 .. Slots -> 0 .. Len(loaded)]])
  /\ blocks \subseteq Heap \X (DOMAIN data) /\ made \subseteq (DOMAIN data) \X (DOMAIN loaded)
  /\ stack \in Seq(Calls(IF pc = "ser" THEN Heap ELSE DOMAIN data))

(* The state is well typed; no object is written or made twice, however    *)
(* many pointers lead to it and whether or not it is met again below       *)
(* itself, so the recursion is never deeper than there are objects.  The   *)
(* member of g_tp an object points into is written apart from g_tp, once.  *)
EachOnce ==
  /\ TypeOK
  /\ \A i, j \in DOMAIN data \ {2} : i # j => data[i].content # data[j].content
  /\ \A i, j \in DOMAIN loaded : i # j => loaded[i].content # loaded[j].content
  /\ Len(stack) <= Cardinality(Objects) + 2

(* The object made of an object.                                           *)
Image(o) == IF o = Processor THEN 1 ELSE In(made, In(blocks, o))

(* What is loaded is the graph that was saved, no more and no less: from   *)
(* the Processor on, two pointers are the same afterwards exactly if they  *)
(* were before.                                                            *)
SameGraph ==
  pc = "done" =>
    LET met == {Processor} \cup {e[1] : e \in blocks} IN
    /\ Len(loaded) = Cardinality(met)
    /\ \A o \in met :
         /\ loaded[Image(o)].content = o
         /\ \A s \in 1 .. Slots :
              IF heap[o][s] = Null THEN loaded[Image(o)].slots[s] = Empty
              ELSE heap[o][s] \in met /\ loaded[Image(o)].slots[s] = Image(heap[o][s])

(* Both walks come to their end on every graph, with cycles or without.    *)
Termination == <>(pc = "done")
=============================================================================
