-------------------------- MODULE Serialize_proofs --------------------------
(***************************************************************************)
(* serialize() and deserialize() proved for every graph of objects, of any *)
(* size and with any number of pointers in each.                           *)
(***************************************************************************)
EXTENDS Serialize, FiniteSetTheorems, WellFoundedInduction, TLAPS

Pointers == 1 .. Slots

(* The blocks that stand for an object of the heap: not that of g_tp.      *)
Positions == DOMAIN data \ {2}

(* pointer_map is the inverse of the blocks' contents.                     *)
Blocks ==
  /\ Len(data) >= 2 /\ data[1].content = Processor /\ data[2].content = Tech
  /\ \A p \in 3 .. Len(data) : data[p].content \in Objects \cup {Tech}
  /\ \A p, q \in Positions : data[p].content = data[q].content => p = q
  /\ blocks = {<<data[p].content, p>> : p \in 3 .. Len(data)}

(* A call on the stack has seen to the pointers before its slot, a call    *)
(* that returned to all of its object's.                                   *)
Handled(at, s) == \A k \in DOMAIN stack : stack[k].at = at => s < stack[k].slot

IsWritten(p, s) == pc = "ser" => Handled(p, s)
IsRead(q, s)    == pc = "des" => Handled(q, s)

OneCallEach == \A k, l \in DOMAIN stack : stack[k].at = stack[l].at => k = l

SerCalls ==
  pc = "ser" =>
    /\ loaded = <<>> /\ made = {} /\ OneCallEach
    /\ \A k \in DOMAIN stack :
         stack[k].at \in Positions /\ stack[k].from = data[stack[k].at].content

(* What is written of a pointer is the block of its target.                *)
PointsTo(p, s) ==
  LET target == heap[data[p].content][s]
      block  == data[p].slots[s]
  IN IF target = Null THEN block = Empty
     ELSE block \in 3 .. Len(data) /\ data[block].content = target

Written == \A p \in Positions, s \in Pointers :
  IF IsWritten(p, s) THEN PointsTo(p, s) ELSE data[p].slots[s] = Empty

(* Every block but the first is reached from an earlier one.               *)
Reached == \A p \in 3 .. Len(data) : \E q \in Positions, s \in Pointers :
  q < p /\ IsWritten(q, s) /\ data[q].slots[s] = p

(* The object made of block p is object q.                                 *)
MadeOf(p, q) == (p = 1 /\ q = 1) \/ <<p, q>> \in made

(* des_reg.pointer_map relates blocks and objects one to one.              *)
OneToOne ==
  pc # "ser" =>
    /\ loaded # <<>> /\ loaded[1].content = Processor
    /\ made \subseteq (3 .. Len(data)) \X (2 .. Len(loaded))
    /\ \A e \in made : loaded[e[2]].content = data[e[1]].content
    /\ \A e, f \in made : e[1] = f[1] \/ e[2] = f[2] => e = f
    /\ \A q \in 2 .. Len(loaded) : \E p \in 3 .. Len(data) : <<p, q>> \in made

DesCalls ==
  /\ pc = "des" => OneCallEach
  /\ pc = "des" => \A k \in DOMAIN stack : MadeOf(stack[k].from, stack[k].at)
  /\ pc = "done" => stack = <<>>

(* What is read of a pointer is the object made of the block it names.     *)
Resolves(p, q, s) ==
  IF data[p].slots[s] = Empty THEN loaded[q].slots[s] = Empty
  ELSE <<data[p].slots[s], loaded[q].slots[s]>> \in made

Loaded ==
  pc # "ser" => \A p \in Positions, q \in DOMAIN loaded, s \in Pointers :
    MadeOf(p, q) =>
      IF IsRead(q, s) THEN Resolves(p, q, s) ELSE loaded[q].slots[s] = Empty

IInv == /\ TypeOK /\ Blocks /\ SerCalls /\ Written /\ Reached
        /\ OneToOne /\ DesCalls /\ Loaded

-----------------------------------------------------------------------------
Records(S, n) == [content : S, slots : [Pointers -> 0 .. n]]

(* Records that refer to the first n positions refer to the first m.       *)
LEMMA RecordsGrow ==
  ASSUME NEW S, NEW n \in Nat, NEW m \in Nat, n <= m, NEW d \in Seq(Records(S, n))
  PROVE  d \in Seq(Records(S, m))
<1>1. 0 .. n \subseteq 0 .. m
  OBVIOUS
<1>2. [Pointers -> 0 .. n] \subseteq [Pointers -> 0 .. m]
  BY <1>1
<1>3. Records(S, n) \subseteq Records(S, m)
  BY <1>2 DEF Records
<1> QED BY <1>3

(* One pointer of one block or object is set.                              *)
PointerAt(d, p, s, v) == [d EXCEPT ![p].slots[s] = v]

(* Storing a pointer changes one slot of one record.                       *)
LEMMA PointerSet ==
  ASSUME NEW S, NEW n \in Nat, NEW d \in Seq(Records(S, n)), NEW p \in DOMAIN d,
         NEW s \in Pointers, NEW v \in 0 .. n,
         NEW e, e = PointerAt(d, p, s, v)
  PROVE  /\ e \in Seq(Records(S, n)) /\ Len(e) = Len(d) /\ DOMAIN e = DOMAIN d
         /\ \A q \in DOMAIN d : e[q].content = d[q].content
         /\ \A q \in DOMAIN d, r \in Pointers :
              e[q].slots[r] = IF q = p /\ r = s THEN v ELSE d[q].slots[r]
<1>1. d[p] \in Records(S, n)
  OBVIOUS
<1> DEFINE b == [d[p] EXCEPT !.slots[s] = v]
<1>2. /\ b \in Records(S, n) /\ b.content = d[p].content
      /\ \A r \in Pointers : b.slots[r] = IF r = s THEN v ELSE d[p].slots[r]
  BY <1>1 DEF Records
<1>3. e = [d EXCEPT ![p] = b]
  BY DEF PointerAt
<1> HIDE DEF b
<1>4. /\ e \in Seq(Records(S, n)) /\ Len(e) = Len(d) /\ DOMAIN e = DOMAIN d
      /\ \A q \in DOMAIN d : e[q] = IF q = p THEN b ELSE d[q]
  BY <1>2, <1>3
<1> QED BY <1>2, <1>4

(* A record appended is the last one, and the others stay.                 *)
LEMMA RecordAppended ==
  ASSUME NEW T, NEW d \in Seq(T), NEW b \in T
  PROVE  /\ Append(d, b) \in Seq(T) /\ Len(Append(d, b)) = Len(d) + 1
         /\ Len(d) \in Nat /\ DOMAIN d = 1 .. Len(d)
         /\ DOMAIN Append(d, b) = 1 .. Len(d) + 1
         /\ \A q \in DOMAIN d : Append(d, b)[q] = d[q]
         /\ Append(d, b)[Len(d) + 1] = b
  OBVIOUS

(* A call takes its next pointer, or returns.                              *)
LEMMA StackParts ==
  ASSUME NEW C, stack \in Seq(C), stack # <<>>,
         [Top EXCEPT !.slot = @ + 1] \in C
  PROVE  /\ Len(stack) \in DOMAIN stack /\ Len(stack) \in Nat \ {0}
         /\ DOMAIN stack = 1 .. Len(stack) /\ Top \in C
         /\ Rest \in Seq(C) /\ DOMAIN Rest = 1 .. Len(stack) - 1
         /\ \A k \in 1 .. Len(stack) - 1 : Rest[k] = stack[k]
         /\ Advanced \in Seq(C) /\ DOMAIN Advanced = DOMAIN stack
         /\ Len(Advanced) = Len(stack)
         /\ \A k \in 1 .. Len(stack) - 1 : Advanced[k] = stack[k]
         /\ Advanced[Len(stack)] = [Top EXCEPT !.slot = @ + 1]
<1> DEFINE n == Len(stack)
           c == [Top EXCEPT !.slot = @ + 1]
<1>1. n \in Nat \ {0} /\ DOMAIN stack = 1 .. n /\ n \in 1 .. n /\ stack[n] \in C
  OBVIOUS
<1>2. /\ SubSeq(stack, 1, n - 1) \in Seq(C) /\ Len(SubSeq(stack, 1, n - 1)) = n - 1
      /\ \A k \in 1 .. n - 1 : SubSeq(stack, 1, n - 1)[k] = stack[k]
  <2>1. \A k \in 1 .. n - 1 : k \in 1 .. n
    BY <1>1
  <2>2. n - 1 \in Nat /\ \A k \in 1 .. n - 1 : stack[k] \in C
    BY <1>1, <2>1
  <2> QED BY <1>1, <2>2
<1>3. /\ Rest \in Seq(C) /\ Len(Rest) = n - 1
      /\ \A k \in 1 .. n - 1 : Rest[k] = stack[k]
  BY <1>2 DEF Rest
<1>4. Advanced = Rest \o <<c>> /\ c \in C
  BY DEF Advanced
<1> HIDE DEF c, n
<1>5. /\ Advanced \in Seq(C) /\ Len(Advanced) = n - 1 + 1
      /\ \A k \in 1 .. n - 1 : Advanced[k] = Rest[k]
      /\ Advanced[n - 1 + 1] = c
  BY <1>1, <1>3, <1>4
<1>6. n - 1 + 1 = n
  BY <1>1
<1>7. DOMAIN Rest = 1 .. n - 1 /\ DOMAIN Advanced = 1 .. n
  BY <1>1, <1>3, <1>5, <1>6
<1> QED BY <1>1, <1>3, <1>5, <1>6, <1>7 DEF c, n, Top

(* A pointer_map without repetitions finds what was put into it.           *)
LEMMA FoundIn ==
  ASSUME NEW map, NEW e \in map, \A f \in map : f[1] = e[1] => f = e
  PROVE  Found(map, e[1]) = {e} /\ In(map, e[1]) = e[2]
<1>1. Found(map, e[1]) = {e}
  BY DEF Found
<1> QED BY <1>1 DEF In

Froms == IF pc = "ser" THEN Heap ELSE DOMAIN data

(* The innermost open call: its object and the slot it is at.              *)
LEMMA TopFacts ==
  ASSUME TypeOK, stack # <<>>
  PROVE  /\ stack \in Seq(Calls(Froms)) /\ DOMAIN stack = 1 .. Len(stack)
         /\ Len(stack) \in Nat \ {0} /\ Len(stack) \in DOMAIN stack
         /\ Top = stack[Len(stack)] /\ Top \in Calls(Froms)
         /\ Top.slot \in 1 .. Slots + 1 /\ Slots \in Nat /\ Top.at \in Nat \ {0}
         /\ Top.slot <= Slots => Top.slot \in Pointers /\ [Top EXCEPT !.slot = @ + 1] \in Calls(Froms)
<1>1. stack \in Seq(Calls(Froms)) /\ Slots \in Nat
  BY SerializeAssumption DEF TypeOK, Froms
<1> HIDE DEF Froms
<1>2. /\ DOMAIN stack = 1 .. Len(stack) /\ Len(stack) \in Nat \ {0}
      /\ Len(stack) \in DOMAIN stack /\ Top = stack[Len(stack)] /\ Top \in Calls(Froms)
  BY <1>1 DEF Top
<1>3. Top.slot \in 1 .. Slots + 1 /\ Top.at \in Nat \ {0}
  BY <1>2 DEF Calls
<1>4. ASSUME Top.slot <= Slots
      PROVE  Top.slot \in Pointers /\ [Top EXCEPT !.slot = @ + 1] \in Calls(Froms)
  <2>1. Top.slot \in Pointers /\ Top.slot + 1 \in 1 .. Slots + 1
    BY <1>1, <1>3, <1>4 DEF Pointers
  <2> QED BY <1>2, <2>1 DEF Calls
<1> QED BY <1>1, <1>2, <1>3, <1>4

(* The innermost call goes on to its next slot: this one is handled, no    *)
(* other.                                                                  *)
LEMMA CallAdvances ==
  ASSUME TypeOK, OneCallEach, stack # <<>>, Top.slot <= Slots, stack' = Advanced
  PROVE  /\ stack' \in Seq(Calls(Froms)) /\ DOMAIN stack' = DOMAIN stack
         /\ \A k \in DOMAIN stack :
              stack'[k].at = stack[k].at /\ stack'[k].from = stack[k].from
         /\ OneCallEach'
         /\ \A a, s : s \in Pointers =>
              (Handled(a, s)' <=> Handled(a, s) \/ (a = Top.at /\ s = Top.slot))
         /\ ~ Handled(Top.at, Top.slot)
<1> DEFINE n == Len(stack)
<1>1. /\ stack \in Seq(Calls(Froms)) /\ DOMAIN stack = 1 .. n /\ n \in Nat \ {0}
      /\ n \in DOMAIN stack /\ Top = stack[n] /\ Top \in Calls(Froms)
      /\ Top.slot \in Pointers /\ [Top EXCEPT !.slot = @ + 1] \in Calls(Froms)
      /\ Slots \in Nat
  BY TopFacts
<1>2. /\ stack' \in Seq(Calls(Froms)) /\ DOMAIN stack' = DOMAIN stack
      /\ \A k \in 1 .. n - 1 : stack'[k] = stack[k]
      /\ stack'[n] = [Top EXCEPT !.slot = @ + 1]
  BY <1>1, StackParts
<1>3. \A k \in DOMAIN stack : k = n \/ k \in 1 .. n - 1
  BY <1>1
<1> HIDE DEF n
<1>4. /\ stack'[n].at = Top.at /\ stack'[n].from = Top.from
      /\ stack'[n].slot = Top.slot + 1
  BY <1>1, <1>2 DEF Calls
<1>5. \A k \in DOMAIN stack :
        stack'[k].at = stack[k].at /\ stack'[k].from = stack[k].from
  BY <1>1, <1>2, <1>3, <1>4
<1>6. OneCallEach'
  BY <1>2, <1>5 DEF OneCallEach
<1>7. ASSUME NEW a, NEW s \in Pointers
      PROVE  Handled(a, s)' <=> Handled(a, s) \/ (a = Top.at /\ s = Top.slot)
  <2>0. s \in Nat /\ Top.slot \in Nat
    BY <1>1 DEF Pointers
  <2>1. ASSUME Handled(a, s)', ~ (a = Top.at /\ s = Top.slot),
               NEW k \in DOMAIN stack, stack[k].at = a
        PROVE  s < stack[k].slot
    <3>1. CASE k = n
      <4>1. s < Top.slot + 1
        BY <1>2, <1>4, <1>5, <2>1, <3>1 DEF Handled
      <4>2. s # Top.slot
        BY <1>1, <2>1, <3>1
      <4> QED BY <1>1, <2>0, <3>1, <4>1, <4>2
    <3>2. CASE k \in 1 .. n - 1
      BY <1>2, <2>1, <3>2 DEF Handled
    <3> QED BY <1>3, <3>1, <3>2
  <2>2. ASSUME Handled(a, s) \/ (a = Top.at /\ s = Top.slot),
               NEW k \in DOMAIN stack, stack'[k].at = a
        PROVE  s < stack'[k].slot
    <3>1. CASE k = n
      <4>1. s < Top.slot \/ s = Top.slot
        BY <1>1, <1>4, <2>2, <3>1 DEF Handled
      <4> QED BY <1>4, <2>0, <3>1, <4>1
    <3>2. CASE k \in 1 .. n - 1 /\ k # n
      <4>1. stack[k].at = a /\ a # Top.at
        BY <1>1, <1>2, <2>2, <3>2 DEF OneCallEach
      <4> QED BY <1>2, <2>2, <3>2, <4>1 DEF Handled
    <3>3. k = n \/ (k \in 1 .. n - 1 /\ k # n)
      BY <1>3
    <3> QED BY <3>1, <3>2, <3>3
  <2> QED BY <1>2, <2>1, <2>2 DEF Handled
<1>8. ~ Handled(Top.at, Top.slot)
  <2>1. Top.slot \in Nat /\ ~ (Top.slot < Top.slot)
    BY <1>1 DEF Pointers
  <2> QED BY <1>1, <2>1 DEF Handled
<1> QED BY <1>2, <1>5, <1>6, <1>7, <1>8

(* A call begins on an object and its block, or its copy.                  *)
Starts(f, a) == stack' = Append(Advanced, [from |-> f, at |-> a, slot |-> 1])

(* A call for another object opens on top of the one that asks for it.     *)
LEMMA CallStarts ==
  ASSUME TypeOK, OneCallEach, stack # <<>>, Top.slot <= Slots,
         NEW a \in Nat \ {0}, NEW f \in Froms, \A k \in DOMAIN stack : stack[k].at # a,
         Starts(f, a)
  PROVE  /\ stack' \in Seq(Calls(Froms)) /\ Len(stack) \in Nat
         /\ DOMAIN stack' = DOMAIN stack \cup {Len(stack) + 1}
         /\ \A k \in DOMAIN stack :
              stack'[k].at = stack[k].at /\ stack'[k].from = stack[k].from
         /\ stack'[Len(stack) + 1].at = a /\ stack'[Len(stack) + 1].from = f
         /\ OneCallEach'
         /\ \A b, s : s \in Pointers =>
              (Handled(b, s)' <=>
                 b # a /\ (Handled(b, s) \/ (b = Top.at /\ s = Top.slot)))
         /\ ~ Handled(Top.at, Top.slot)
<1> DEFINE n == Len(stack)
           c == [from |-> f, at |-> a, slot |-> 1]
<1>1. /\ stack \in Seq(Calls(Froms)) /\ DOMAIN stack = 1 .. n /\ n \in Nat \ {0}
      /\ n \in DOMAIN stack /\ Top = stack[n] /\ Top \in Calls(Froms)
      /\ Top.slot \in Pointers /\ [Top EXCEPT !.slot = @ + 1] \in Calls(Froms)
      /\ Slots \in Nat
  BY TopFacts
<1>2. /\ Advanced \in Seq(Calls(Froms)) /\ DOMAIN Advanced = DOMAIN stack
      /\ Len(Advanced) = n
      /\ \A k \in 1 .. n - 1 : Advanced[k] = stack[k]
      /\ Advanced[n] = [Top EXCEPT !.slot = @ + 1]
  BY <1>1, StackParts
<1>3. \A k \in DOMAIN stack : k = n \/ k \in 1 .. n - 1
  BY <1>1
<1>4. c \in Calls(Froms)
  <2>1. 1 \in 1 .. Slots + 1
    BY <1>1
  <2> QED BY <2>1 DEF Calls
<1>5. c.at = a /\ c.from = f /\ c.slot = 1
  OBVIOUS
<1>6. stack' = Append(Advanced, c)
  BY DEF Starts
<1> HIDE DEF n, c
<1>7. /\ stack' \in Seq(Calls(Froms)) /\ DOMAIN stack' = 1 .. n + 1
      /\ \A k \in DOMAIN stack : stack'[k] = Advanced[k]
      /\ stack'[n + 1] = c
  <2>1. /\ Append(Advanced, c) \in Seq(Calls(Froms))
        /\ DOMAIN Append(Advanced, c) = 1 .. Len(Advanced) + 1
        /\ \A k \in DOMAIN Advanced : Append(Advanced, c)[k] = Advanced[k]
        /\ Append(Advanced, c)[Len(Advanced) + 1] = c
    BY <1>2, <1>4, RecordAppended
  <2> QED BY <1>2, <1>6, <2>1
<1>8. /\ DOMAIN stack' = DOMAIN stack \cup {n + 1} /\ n + 1 \notin DOMAIN stack
  BY <1>1, <1>7
<1>9. /\ stack'[n].at = Top.at /\ stack'[n].from = Top.from
      /\ stack'[n].slot = Top.slot + 1
  <2>1. stack'[n] = [Top EXCEPT !.slot = @ + 1]
    BY <1>1, <1>2, <1>7
  <2>2. \E g \in Froms, b \in Nat, l \in Nat : Top = [from |-> g, at |-> b, slot |-> l]
    BY <1>1 DEF Calls, Pointers
  <2> QED BY ONLY <2>1, <2>2
<1>10. \A k \in DOMAIN stack :
        stack'[k].at = stack[k].at /\ stack'[k].from = stack[k].from
  BY <1>1, <1>2, <1>3, <1>7, <1>9
<1>11. OneCallEach'
  <2>1. /\ \A k \in DOMAIN stack : stack'[k].at # a
        /\ stack'[n + 1].at = a
    BY <1>5, <1>7, <1>10
  <2>2. \A k, l \in DOMAIN stack : stack'[k].at = stack'[l].at => k = l
    BY <1>10 DEF OneCallEach
  <2> QED BY ONLY <2>1, <2>2, <1>8 DEF OneCallEach
<1>12. ASSUME NEW b, NEW s \in Pointers
       PROVE  Handled(b, s)' <=>
                b # a /\ (Handled(b, s) \/ (b = Top.at /\ s = Top.slot))
  <2>0. s \in Nat /\ Top.slot \in Nat /\ ~ (s < 1)
    BY <1>1 DEF Pointers
  <2>1. ASSUME Handled(b, s)', ~ (b = Top.at /\ s = Top.slot),
               NEW k \in DOMAIN stack, stack[k].at = b
        PROVE  s < stack[k].slot
    <3>1. CASE k = n
      <4>1. s < Top.slot + 1
        BY <1>8, <1>9, <1>10, <2>1, <3>1 DEF Handled
      <4>2. s # Top.slot
        BY <1>1, <2>1, <3>1
      <4> QED BY <1>1, <2>0, <3>1, <4>1, <4>2
    <3>2. CASE k \in 1 .. n - 1
      BY <1>2, <1>7, <1>8, <2>1, <3>2 DEF Handled
    <3> QED BY <1>3, <3>1, <3>2
  <2>2. ASSUME Handled(b, s) \/ (b = Top.at /\ s = Top.slot), b # a,
               NEW k \in DOMAIN stack', stack'[k].at = b
        PROVE  s < stack'[k].slot
    <3>0. k \in DOMAIN stack
      BY <1>5, <1>7, <1>8, <2>2
    <3>1. CASE k = n
      <4>1. s < Top.slot \/ s = Top.slot
        BY <1>1, <1>9, <2>2, <3>1 DEF Handled
      <4> QED BY <1>9, <2>0, <3>1, <4>1
    <3>2. CASE k \in 1 .. n - 1 /\ k # n
      <4>1. stack[k].at = b /\ b # Top.at /\ stack'[k] = stack[k]
        BY <1>1, <1>2, <1>7, <1>10, <2>2, <3>0, <3>2 DEF OneCallEach
      <4> QED BY <2>2, <3>0, <4>1 DEF Handled
    <3>3. k = n \/ (k \in 1 .. n - 1 /\ k # n)
      BY <1>3, <3>0
    <3> QED BY <3>1, <3>2, <3>3
  <2>3. Handled(b, s)' => b # a
    BY <1>5, <1>7, <1>8, <2>0 DEF Handled
  <2> QED BY <2>1, <2>2, <2>3 DEF Handled
<1>13. ~ Handled(Top.at, Top.slot)
  <2>1. Top.slot \in Nat /\ ~ (Top.slot < Top.slot)
    BY <1>1 DEF Pointers
  <2> QED BY <1>1, <2>1 DEF Handled
<1>14. /\ DOMAIN stack' = DOMAIN stack \cup {Len(stack) + 1} /\ Len(stack) \in Nat
       /\ stack'[Len(stack) + 1].at = a /\ stack'[Len(stack) + 1].from = f
  BY <1>1, <1>5, <1>7, <1>8 DEF n
<1> QED BY <1>7, <1>10, <1>11, <1>12, <1>13, <1>14

(* A call that has been through its slots returns; what was handled stays  *)
(* so.                                                                     *)
LEMMA CallReturns ==
  ASSUME TypeOK, OneCallEach, stack # <<>>, Top.slot > Slots, stack' = Rest
  PROVE  /\ stack' \in Seq(Calls(Froms)) /\ DOMAIN stack' \subseteq DOMAIN stack
         /\ \A k \in DOMAIN stack' : stack'[k] = stack[k]
         /\ OneCallEach'
         /\ \A a, s : s \in Pointers => (Handled(a, s)' <=> Handled(a, s))
<1> DEFINE n == Len(stack)
<1>1. /\ stack \in Seq(Calls(Froms)) /\ DOMAIN stack = 1 .. n /\ n \in Nat \ {0}
      /\ n \in DOMAIN stack /\ Top = stack[n] /\ Slots \in Nat
      /\ Top.slot \in 1 .. Slots + 1
  BY TopFacts
<1>2. /\ SubSeq(stack, 1, n - 1) \in Seq(Calls(Froms))
      /\ Len(SubSeq(stack, 1, n - 1)) = n - 1
      /\ \A k \in 1 .. n - 1 : SubSeq(stack, 1, n - 1)[k] = stack[k]
  <2>1. \A k \in 1 .. n - 1 : k \in 1 .. n
    BY <1>1
  <2>2. n - 1 \in Nat /\ \A k \in 1 .. n - 1 : stack[k] \in Calls(Froms)
    BY <1>1, <2>1
  <2> QED BY <1>1, <2>2
<1>3. stack' = SubSeq(stack, 1, n - 1)
  BY DEF Rest
<1> HIDE DEF n
<1>4. /\ DOMAIN stack' = 1 .. n - 1 /\ DOMAIN stack' \subseteq DOMAIN stack
      /\ \A k \in DOMAIN stack : k = n \/ k \in 1 .. n - 1
  BY <1>1, <1>2, <1>3
<1>5. \A k \in DOMAIN stack' : stack'[k] = stack[k]
  BY <1>2, <1>3, <1>4
<1>6. OneCallEach'
  BY <1>4, <1>5 DEF OneCallEach
<1>7. ASSUME NEW a, NEW s \in Pointers
      PROVE  Handled(a, s)' <=> Handled(a, s)
  <2>1. s < Top.slot
    BY <1>1 DEF Pointers
  <2> QED BY <1>1, <1>4, <1>5, <2>1 DEF Handled
<1> QED BY <1>2, <1>3, <1>4, <1>5, <1>6, <1>7

-----------------------------------------------------------------------------
(* What the invariant says of the pointer a call is at.                    *)
LEMMA DataType ==
  ASSUME TypeOK
  PROVE  /\ data \in Seq(Records(Heap, Len(data))) /\ Len(data) \in Nat
         /\ DOMAIN data = 1 .. Len(data)
         /\ loaded \in Seq(Records(Heap, Len(loaded))) /\ Len(loaded) \in Nat
         /\ DOMAIN loaded = 1 .. Len(loaded)
         /\ \A p \in DOMAIN data : data[p].content \in Heap
         /\ \A p \in DOMAIN data : data[p].slots \in [Pointers -> 0 .. Len(data)]
<1>1. /\ data \in Seq(Records(Heap, Len(data)))
      /\ loaded \in Seq(Records(Heap, Len(loaded)))
  BY DEF TypeOK, Records, Pointers
<1>2. \A p \in DOMAIN data : data[p] \in Records(Heap, Len(data))
  BY <1>1
<1>3. /\ \A p \in DOMAIN data : data[p].content \in Heap
      /\ \A p \in DOMAIN data : data[p].slots \in [Pointers -> 0 .. Len(data)]
  BY <1>2 DEF Records
<1>4. /\ Len(data) \in Nat /\ DOMAIN data = 1 .. Len(data)
      /\ Len(loaded) \in Nat /\ DOMAIN loaded = 1 .. Len(loaded)
  BY <1>1
<1> QED BY <1>1, <1>3, <1>4

(* Where serialize() is: the pointer it looks at, and whether its target   *)
(* has an id.                                                              *)
LEMMA SerFacts ==
  ASSUME IInv, Working("ser")
  PROVE  /\ pc = "ser" /\ stack # <<>> /\ Top.slot <= Slots
         /\ Top.at \in Positions /\ Top.from = data[Top.at].content
         /\ Top.slot \in Pointers /\ Target = heap[data[Top.at].content][Top.slot]
         /\ Target \in Targets
         /\ Found(blocks, Target) = {} => \A p \in 3 .. Len(data) : data[p].content # Target
         /\ Found(blocks, Target) # {} =>
              /\ In(blocks, Target) \in 3 .. Len(data)
              /\ data[In(blocks, Target)].content = Target
<1>0. TypeOK /\ SerCalls /\ Blocks
  BY DEF IInv
<1>1. pc = "ser" /\ stack # <<>> /\ Top.slot <= Slots
  BY DEF Working
<1>2. /\ Len(stack) \in DOMAIN stack /\ Top = stack[Len(stack)]
      /\ Top.slot \in Pointers
  BY <1>0, <1>1, TopFacts
<1>3. Top.at \in Positions /\ Top.from = data[Top.at].content
  BY <1>0, <1>1, <1>2 DEF SerCalls
<1>4. Target = heap[data[Top.at].content][Top.slot]
  BY <1>3 DEF Target
<1>5. data[Top.at].content \in Heap
  BY <1>0, <1>3, DataType DEF Positions
<1>6. heap \in [Heap -> [Pointers -> Targets]]
  BY <1>0 DEF TypeOK, Pointers
<1>7. Target \in Targets
  BY <1>2, <1>4, <1>5, <1>6
<1>8. ASSUME NEW p \in 3 .. Len(data), data[p].content = Target
      PROVE  /\ Found(blocks, Target) # {}
             /\ In(blocks, Target) = p
  <2> DEFINE e == <<data[p].content, p>>
  <2>1. e \in blocks
    BY <1>0 DEF Blocks
  <2>2. ASSUME NEW f \in blocks, f[1] = e[1] PROVE f = e
    <3>1. PICK q \in 3 .. Len(data) : f = <<data[q].content, q>>
      BY <1>0 DEF Blocks
    <3>2. data[q].content = data[p].content
      BY <2>2, <3>1
    <3>3. p \in Positions /\ q \in Positions
      BY <1>0, DataType DEF Positions
    <3>4. p = q
      BY <1>0, <3>2, <3>3 DEF Blocks
    <3> QED BY <3>1, <3>4
  <2>3. e[1] = Target /\ e[2] = p
    BY <1>8
  <2> HIDE DEF e
  <2>4. Found(blocks, e[1]) = {e} /\ In(blocks, e[1]) = e[2]
    BY <2>1, <2>2, FoundIn
  <2> QED BY <2>3, <2>4
<1>9. ASSUME Found(blocks, Target) # {}
      PROVE  \E p \in 3 .. Len(data) : data[p].content = Target
  <2>1. PICK f \in blocks : f[1] = Target
    BY <1>9 DEF Found
  <2>2. PICK q \in 3 .. Len(data) : f = <<data[q].content, q>>
    BY <1>0 DEF Blocks
  <2> QED BY <2>1, <2>2
<1>10. Found(blocks, Target) # {} =>
         /\ In(blocks, Target) \in 3 .. Len(data)
         /\ data[In(blocks, Target)].content = Target
  BY <1>8, <1>9
<1> QED BY <1>1, <1>2, <1>3, <1>4, <1>7, <1>8, <1>10

(* What serialize() changes.                                               *)
LEMMA SerKnownEffect ==
  ASSUME IInv, SerKnown
  PROVE  /\ stack' = Advanced /\ Target # Null
         /\ UNCHANGED <<pc, heap, blocks, loaded, made>>
         /\ data' \in Seq(Records(Heap, Len(data))) /\ Len(data') = Len(data)
         /\ DOMAIN data' = DOMAIN data
         /\ \A q \in DOMAIN data : data'[q].content = data[q].content
         /\ In(blocks, Target) \in 3 .. Len(data)
         /\ data[In(blocks, Target)].content = Target
         /\ \A q \in DOMAIN data, r \in Pointers :
              data'[q].slots[r] = IF q = Top.at /\ r = Top.slot
                                  THEN In(blocks, Target) ELSE data[q].slots[r]
<1> DEFINE v == In(blocks, Target)
<1>1. /\ stack' = Advanced /\ Target # Null /\ Found(blocks, Target) # {}
      /\ UNCHANGED <<pc, heap, blocks, loaded, made>> /\ Working("ser")
      /\ data' = [data EXCEPT ![Top.at].slots[Top.slot] = v]
  BY DEF SerKnown
<1>2. /\ Top.at \in DOMAIN data /\ Top.slot \in Pointers /\ v \in 3 .. Len(data)
      /\ data[v].content = Target
  BY <1>1, SerFacts DEF Positions
<1>3. /\ data \in Seq(Records(Heap, Len(data))) /\ Len(data) \in Nat
  BY DataType DEF IInv
<1>4. v \in 0 .. Len(data)
  BY <1>2, <1>3
<1> HIDE DEF v
<1>5. /\ data' \in Seq(Records(Heap, Len(data))) /\ Len(data') = Len(data)
      /\ DOMAIN data' = DOMAIN data
      /\ \A q \in DOMAIN data : data'[q].content = data[q].content
      /\ \A q \in DOMAIN data, r \in Pointers :
           data'[q].slots[r] = IF q = Top.at /\ r = Top.slot THEN v ELSE data[q].slots[r]
  <2>1. data' = PointerAt(data, Top.at, Top.slot, v)
    BY <1>1 DEF PointerAt
  <2> QED BY <1>2, <1>3, <1>4, <2>1, PointerSet
<1> QED BY <1>1, <1>2, <1>5 DEF v

(* serialize() meets a new object: it has an id and an empty record now.   *)
LEMMA SerNewEffect ==
  ASSUME IInv, SerNew, NEW pos, pos = Len(data) + 1
  PROVE  /\ stack' = Append(Advanced, [from |-> Target, at |-> pos, slot |-> 1])
         /\ blocks' = blocks \cup {<<Target, pos>>}
         /\ UNCHANGED <<pc, heap, loaded, made>>
         /\ Target \in Objects \cup {Tech}
         /\ \A p \in 3 .. Len(data) : data[p].content # Target
         /\ data' \in Seq(Records(Heap, pos)) /\ Len(data') = pos
         /\ DOMAIN data' = DOMAIN data \cup {pos} /\ pos \notin DOMAIN data
         /\ \A q \in DOMAIN data : data'[q].content = data[q].content
         /\ data'[pos].content = Target
         /\ \A r \in Pointers : data'[pos].slots[r] = Empty
         /\ \A q \in DOMAIN data, r \in Pointers :
              data'[q].slots[r] = IF q = Top.at /\ r = Top.slot
                                  THEN pos ELSE data[q].slots[r]
<1> DEFINE e == [data EXCEPT ![Top.at].slots[Top.slot] = pos]
<1>1. /\ stack' = Append(Advanced, [from |-> Target, at |-> pos, slot |-> 1])
      /\ Target # Null /\ Found(blocks, Target) = {}
      /\ UNCHANGED <<pc, heap, loaded, made>> /\ Working("ser")
      /\ data' = Append(e, Block(Target))
      /\ blocks' = blocks \cup {<<Target, pos>>}
  BY DEF SerNew, Registered
<1>2. /\ Top.at \in DOMAIN data /\ Top.slot \in Pointers /\ Target \in Targets
      /\ \A p \in 3 .. Len(data) : data[p].content # Target
  BY <1>1, SerFacts DEF Positions
<1>3. /\ data \in Seq(Records(Heap, Len(data))) /\ Len(data) \in Nat
      /\ DOMAIN data = 1 .. Len(data)
  BY DataType DEF IInv
<1>4. pos \in Nat /\ Len(data) <= pos /\ pos \in 0 .. pos /\ pos \notin DOMAIN data
  BY <1>3
<1>5. data \in Seq(Records(Heap, pos))
  BY <1>3, <1>4, RecordsGrow
<1>6. e = PointerAt(data, Top.at, Top.slot, pos)
  BY DEF PointerAt
<1> HIDE DEF e
<1>7. /\ e \in Seq(Records(Heap, pos)) /\ Len(e) = Len(data) /\ DOMAIN e = DOMAIN data
      /\ \A q \in DOMAIN data : e[q].content = data[q].content
      /\ \A q \in DOMAIN data, r \in Pointers :
           e[q].slots[r] = IF q = Top.at /\ r = Top.slot THEN pos ELSE data[q].slots[r]
  BY <1>2, <1>4, <1>5, <1>6, PointerSet
<1>8. Target \in Objects \cup {Tech}
  BY <1>1, <1>2 DEF Targets
<1>9. /\ Block(Target) \in Records(Heap, pos) /\ Block(Target).content = Target
      /\ \A r \in Pointers : Block(Target).slots[r] = Empty
  <2>1. NoPointers \in [Pointers -> 0 .. pos] /\ \A r \in Pointers : NoPointers[r] = Empty
    BY <1>4 DEF NoPointers, Empty, Pointers
  <2> QED BY <1>8, <2>1 DEF Block, Records, Heap
<1>10. /\ data' \in Seq(Records(Heap, pos)) /\ Len(data') = Len(data) + 1
       /\ DOMAIN data' = 1 .. Len(data) + 1
       /\ \A q \in DOMAIN data : data'[q] = e[q]
       /\ data'[pos] = Block(Target)
  <2>1. /\ Append(e, Block(Target)) \in Seq(Records(Heap, pos))
        /\ Len(Append(e, Block(Target))) = Len(e) + 1
        /\ DOMAIN Append(e, Block(Target)) = 1 .. Len(e) + 1
        /\ \A q \in DOMAIN e : Append(e, Block(Target))[q] = e[q]
        /\ Append(e, Block(Target))[Len(e) + 1] = Block(Target)
    BY <1>7, <1>9, RecordAppended
  <2> QED BY <1>1, <1>7, <2>1
<1>11. DOMAIN data' = DOMAIN data \cup {pos}
  BY <1>3, <1>4, <1>10
<1> QED BY <1>1, <1>2, <1>4, <1>7, <1>8, <1>9, <1>10, <1>11

(* deserialize() at a pointer.                                             *)
LEMMA MadeFacts ==
  ASSUME IInv, pc # "ser"
  PROVE  /\ made \subseteq (3 .. Len(data)) \X (2 .. Len(loaded))
         /\ \A p, q, r : MadeOf(p, q) /\ MadeOf(r, q) => p = r
         /\ \A p, q : MadeOf(p, q) =>
              p \in Positions /\ q \in DOMAIN loaded /\ data[p].content = loaded[q].content
         /\ \A p, q, r : MadeOf(p, q) /\ MadeOf(p, r) => q = r
         /\ 1 \in DOMAIN loaded
<1>0. OneToOne /\ Blocks /\ TypeOK
  BY DEF IInv
<1>1. /\ loaded # <<>> /\ loaded[1].content = Processor
      /\ made \subseteq (3 .. Len(data)) \X (2 .. Len(loaded))
      /\ \A e \in made : loaded[e[2]].content = data[e[1]].content
      /\ \A e, f \in made : e[1] = f[1] \/ e[2] = f[2] => e = f
  BY <1>0 DEF OneToOne
<1>2. /\ Len(data) >= 2 /\ data[1].content = Processor /\ Len(data) \in Nat
      /\ DOMAIN data = 1 .. Len(data)
      /\ DOMAIN loaded = 1 .. Len(loaded) /\ Len(loaded) \in Nat
      /\ loaded \in Seq(Records(Heap, Len(loaded)))
  BY <1>0, DataType DEF Blocks
<1>3. Len(loaded) >= 1
  BY <1>1, <1>2
<1>4. /\ \A p \in 3 .. Len(data) : p \in Positions /\ p # 1
      /\ \A q \in 2 .. Len(loaded) : q \in DOMAIN loaded /\ q # 1
      /\ 1 \in Positions /\ 1 \in DOMAIN loaded
  BY <1>2, <1>3 DEF Positions
<1>5. ASSUME NEW p, NEW q, MadeOf(p, q)
      PROVE  /\ p \in Positions /\ q \in DOMAIN loaded
             /\ data[p].content = loaded[q].content
             /\ p # 1 \/ q # 1 => <<p, q>> \in made /\ p # 1 /\ q # 1
  BY <1>1, <1>2, <1>4, <1>5 DEF MadeOf
<1>6. ASSUME NEW p, NEW q, NEW r, MadeOf(p, q), MadeOf(r, q) PROVE p = r
  <2>1. CASE q = 1
    BY <1>5, <1>6, <2>1
  <2>2. CASE q # 1
    <3>1. <<p, q>> \in made /\ <<r, q>> \in made
      BY <1>5, <1>6, <2>2
    <3>2. <<p, q>>[2] = <<r, q>>[2]
      OBVIOUS
    <3>3. <<p, q>> = <<r, q>>
      BY <1>1, <3>1, <3>2
    <3> QED BY <3>3
  <2> QED BY <2>1, <2>2
<1>7. ASSUME NEW p, NEW q, NEW r, MadeOf(p, q), MadeOf(p, r) PROVE q = r
  <2>1. CASE p = 1
    BY <1>5, <1>7, <2>1
  <2>2. CASE p # 1
    <3>1. <<p, q>> \in made /\ <<p, r>> \in made
      BY <1>5, <1>7, <2>2
    <3>2. <<p, q>>[1] = <<p, r>>[1]
      OBVIOUS
    <3>3. <<p, q>> = <<p, r>>
      BY <1>1, <3>1, <3>2
    <3> QED BY <3>3
  <2> QED BY <2>1, <2>2
<1> QED BY <1>1, <1>4, <1>5, <1>6, <1>7

(* Where do_des() is: the id it looks at, and whether its object is made.  *)
LEMMA DesFacts ==
  ASSUME IInv, Working("des")
  PROVE  /\ pc = "des" /\ stack # <<>> /\ Top.slot <= Slots /\ OneCallEach
         /\ MadeOf(Top.from, Top.at) /\ Top.from \in Positions /\ Top.at \in DOMAIN loaded
         /\ Top.slot \in Pointers /\ Stored = data[Top.from].slots[Top.slot]
         /\ Stored # Empty => Stored \in 3 .. Len(data)
         /\ Found(made, Stored) = {} => \A q : <<Stored, q>> \notin made
         /\ Found(made, Stored) # {} => <<Stored, In(made, Stored)>> \in made
<1>0. TypeOK /\ DesCalls /\ OneToOne /\ Written
  BY DEF IInv
<1>1. pc = "des" /\ stack # <<>> /\ Top.slot <= Slots
  BY DEF Working
<1>2. /\ Len(stack) \in DOMAIN stack /\ Top = stack[Len(stack)]
      /\ Top.slot \in Pointers
  BY <1>0, <1>1, TopFacts
<1>3. MadeOf(Top.from, Top.at) /\ OneCallEach
  BY <1>0, <1>1, <1>2 DEF DesCalls
<1>4. Top.from \in Positions /\ Top.at \in DOMAIN loaded
  BY <1>1, <1>3, MadeFacts
<1>5. PointsTo(Top.from, Top.slot)
  BY <1>0, <1>1, <1>2, <1>4 DEF Written, IsWritten
<1>6. Stored # Empty => Stored \in 3 .. Len(data)
  BY <1>5 DEF PointsTo, Stored
<1>7. ASSUME NEW q, <<Stored, q>> \in made
      PROVE  Found(made, Stored) # {} /\ In(made, Stored) = q
  <2> DEFINE e == <<Stored, q>>
  <2>1. \A f \in made : f[1] = e[1] => f = e
    BY <1>0, <1>1, <1>7 DEF OneToOne
  <2>2. e \in made /\ e[1] = Stored /\ e[2] = q
    BY <1>7
  <2> HIDE DEF e
  <2>3. Found(made, e[1]) = {e} /\ In(made, e[1]) = e[2]
    BY <2>1, <2>2, FoundIn
  <2> QED BY <2>2, <2>3
<1>8. ASSUME Found(made, Stored) # {} PROVE \E q : <<Stored, q>> \in made
  <2>1. PICK f \in made : f[1] = Stored
    BY <1>8 DEF Found
  <2>2. f \in (3 .. Len(data)) \X (2 .. Len(loaded))
    BY <1>0, <1>1 DEF OneToOne
  <2>3. f = <<Stored, f[2]>>
    BY <2>1, <2>2
  <2> QED BY <2>3
<1> QED BY <1>1, <1>2, <1>3, <1>4, <1>6, <1>7, <1>8 DEF Stored

(* do_des() meets an id it knows: the pointer is to the object made        *)
(* before.                                                                 *)
LEMMA DesKnownEffect ==
  ASSUME IInv, DesKnown
  PROVE  /\ stack' = Advanced /\ Stored # Empty
         /\ UNCHANGED <<pc, heap, data, blocks, made>>
         /\ loaded' \in Seq(Records(Heap, Len(loaded))) /\ Len(loaded') = Len(loaded)
         /\ DOMAIN loaded' = DOMAIN loaded
         /\ \A q \in DOMAIN loaded : loaded'[q].content = loaded[q].content
         /\ <<Stored, In(made, Stored)>> \in made
         /\ \A q \in DOMAIN loaded, r \in Pointers :
              loaded'[q].slots[r] = IF q = Top.at /\ r = Top.slot
                                    THEN In(made, Stored) ELSE loaded[q].slots[r]
<1> DEFINE v == In(made, Stored)
<1>1. /\ stack' = Advanced /\ Stored # Empty /\ Found(made, Stored) # {}
      /\ UNCHANGED <<pc, heap, data, blocks, made>> /\ Working("des") /\ pc # "ser"
      /\ loaded' = [loaded EXCEPT ![Top.at].slots[Top.slot] = v]
  BY DEF DesKnown, Working
<1>2. Top.at \in DOMAIN loaded /\ Top.slot \in Pointers /\ <<Stored, v>> \in made
  BY <1>1, DesFacts
<1>3. loaded \in Seq(Records(Heap, Len(loaded))) /\ Len(loaded) \in Nat
  BY DataType DEF IInv
<1> HIDE DEF v
<1>4. v \in 0 .. Len(loaded)
  <2>1. v \in 2 .. Len(loaded)
    BY <1>1, <1>2, MadeFacts
  <2> QED BY <1>3, <2>1
<1>5. /\ loaded' \in Seq(Records(Heap, Len(loaded))) /\ Len(loaded') = Len(loaded)
      /\ DOMAIN loaded' = DOMAIN loaded
      /\ \A q \in DOMAIN loaded : loaded'[q].content = loaded[q].content
      /\ \A q \in DOMAIN loaded, r \in Pointers :
           loaded'[q].slots[r] = IF q = Top.at /\ r = Top.slot THEN v
                                 ELSE loaded[q].slots[r]
  <2>1. loaded' = PointerAt(loaded, Top.at, Top.slot, v)
    BY <1>1 DEF PointerAt
  <2> QED BY <1>2, <1>3, <1>4, <2>1, PointerSet
<1> QED BY <1>1, <1>2, <1>5 DEF v

(* do_des() meets a new id: its object is made now, with empty pointers.   *)
LEMMA DesNewEffect ==
  ASSUME IInv, DesNew, NEW new, new = Len(loaded) + 1
  PROVE  /\ stack' = Append(Advanced, [from |-> Stored, at |-> new, slot |-> 1])
         /\ made' = made \cup {<<Stored, new>>}
         /\ UNCHANGED <<pc, heap, data, blocks>>
         /\ Stored # Empty /\ Stored \in 3 .. Len(data)
         /\ \A q : <<Stored, q>> \notin made
         /\ loaded' \in Seq(Records(Heap, new)) /\ Len(loaded') = new
         /\ DOMAIN loaded' = DOMAIN loaded \cup {new} /\ new \notin DOMAIN loaded
         /\ \A q \in DOMAIN loaded : loaded'[q].content = loaded[q].content
         /\ loaded'[new].content = data[Stored].content
         /\ \A r \in Pointers : loaded'[new].slots[r] = Empty
         /\ \A q \in DOMAIN loaded, r \in Pointers :
              loaded'[q].slots[r] = IF q = Top.at /\ r = Top.slot
                                    THEN new ELSE loaded[q].slots[r]
<1> DEFINE e == [loaded EXCEPT ![Top.at].slots[Top.slot] = new]
           b == [content |-> data[Stored].content, slots |-> NoPointers]
<1>1. /\ stack' = Append(Advanced, [from |-> Stored, at |-> new, slot |-> 1])
      /\ Stored # Empty /\ Found(made, Stored) = {}
      /\ UNCHANGED <<pc, heap, data, blocks>> /\ Working("des") /\ pc # "ser"
      /\ loaded' = Append(e, b)
      /\ made' = made \cup {<<Stored, new>>}
  BY DEF DesNew, Registered, Working
<1>2. /\ Top.at \in DOMAIN loaded /\ Top.slot \in Pointers /\ Stored \in 3 .. Len(data)
      /\ \A q : <<Stored, q>> \notin made
  BY <1>1, DesFacts
<1>3. /\ loaded \in Seq(Records(Heap, Len(loaded))) /\ Len(loaded) \in Nat
      /\ DOMAIN loaded = 1 .. Len(loaded)
      /\ DOMAIN data = 1 .. Len(data) /\ Len(data) \in Nat
      /\ \A p \in DOMAIN data : data[p].content \in Heap
  BY DataType DEF IInv
<1>4. new \in Nat /\ Len(loaded) <= new /\ new \in 0 .. new /\ new \notin DOMAIN loaded
  BY <1>3
<1>5. loaded \in Seq(Records(Heap, new))
  BY <1>3, <1>4, RecordsGrow
<1>6. e = PointerAt(loaded, Top.at, Top.slot, new)
  BY DEF PointerAt
<1> HIDE DEF e
<1>7. /\ e \in Seq(Records(Heap, new)) /\ Len(e) = Len(loaded) /\ DOMAIN e = DOMAIN loaded
      /\ \A q \in DOMAIN loaded : e[q].content = loaded[q].content
      /\ \A q \in DOMAIN loaded, r \in Pointers :
           e[q].slots[r] = IF q = Top.at /\ r = Top.slot THEN new ELSE loaded[q].slots[r]
  BY <1>2, <1>4, <1>5, <1>6, PointerSet
<1>8. /\ b \in Records(Heap, new) /\ b.content = data[Stored].content
      /\ \A r \in Pointers : b.slots[r] = Empty
  <2>1. NoPointers \in [Pointers -> 0 .. new] /\ \A r \in Pointers : NoPointers[r] = Empty
    BY <1>4 DEF NoPointers, Empty, Pointers
  <2>2. data[Stored].content \in Heap
    BY <1>2, <1>3
  <2> QED BY <2>1, <2>2 DEF Records
<1> HIDE DEF b
<1>9. /\ loaded' \in Seq(Records(Heap, new)) /\ Len(loaded') = Len(loaded) + 1
       /\ DOMAIN loaded' = 1 .. Len(loaded) + 1
       /\ \A q \in DOMAIN loaded : loaded'[q] = e[q]
       /\ loaded'[new] = b
  <2>1. /\ Append(e, b) \in Seq(Records(Heap, new))
        /\ Len(Append(e, b)) = Len(e) + 1
        /\ DOMAIN Append(e, b) = 1 .. Len(e) + 1
        /\ \A q \in DOMAIN e : Append(e, b)[q] = e[q]
        /\ Append(e, b)[Len(e) + 1] = b
    BY <1>7, <1>8, RecordAppended
  <2> QED BY <1>1, <1>7, <2>1
<1>10. DOMAIN loaded' = DOMAIN loaded \cup {new}
  BY <1>3, <1>4, <1>9
<1> QED BY <1>1, <1>2, <1>4, <1>7, <1>8, <1>9, <1>10

-----------------------------------------------------------------------------
(* A save starts with the processor and the technology.                    *)
LEMMA InitIInv == Init => IInv
<1> SUFFICES ASSUME Init PROVE IInv
  OBVIOUS
<1>1. /\ heap \in [Heap -> [Pointers -> Targets]] /\ pc = "ser"
      /\ data = <<Block(Processor), Block(Tech)>> /\ blocks = {}
      /\ stack = <<[from |-> Processor, at |-> 1, slot |-> 1]>>
      /\ loaded = <<>> /\ made = {} /\ Slots \in Nat
  BY SerializeAssumption DEF Init, Pointers
<1>2. \A o \in Heap : Block(o) \in Records(Heap, 2) /\ Block(o).content = o
  <2>1. NoPointers \in [Pointers -> 0 .. 2]
    BY DEF NoPointers, Empty, Pointers
  <2> QED BY <2>1 DEF Block, Records
<1>3. Processor \in Heap /\ Tech \in Heap
  BY DEF Heap
<1>4. /\ data \in Seq(Records(Heap, 2)) /\ Len(data) = 2 /\ DOMAIN data = 1 .. 2
      /\ data[1] = Block(Processor) /\ data[2] = Block(Tech)
  BY <1>1, <1>2, <1>3
<1>5. \A k \in DOMAIN stack : k = 1 /\ stack[k] = [from |-> Processor, at |-> 1, slot |-> 1]
  BY <1>1
<1>6. Positions = {1}
  BY <1>4 DEF Positions
<1>7. TypeOK
  <2>1. <<>> \in Seq(Records(Heap, 0)) /\ Len(<<>>) = 0
    OBVIOUS
  <2>2. stack \in Seq(Calls(Heap))
    <3>1. 1 \in 1 .. Slots + 1
      BY <1>1
    <3>2. [from |-> Processor, at |-> 1, slot |-> 1] \in Calls(Heap)
      BY <1>3, <3>1 DEF Calls
    <3> QED BY <1>1, <3>2
  <2> QED BY <1>1, <1>4, <2>1, <2>2 DEF TypeOK, Records, Pointers
<1>8. Blocks
  <2>1. 3 .. Len(data) = {} /\ Len(data) >= 2
    BY <1>4
  <2> QED BY <1>1, <1>2, <1>3, <1>4, <1>6, <2>1 DEF Blocks
<1>9. SerCalls
  BY <1>1, <1>2, <1>3, <1>4, <1>5, <1>6 DEF SerCalls, OneCallEach
<1>10. Written
  <2>1. \A s \in Pointers : ~ IsWritten(1, s)
    <3>1. 1 \in DOMAIN stack /\ stack[1].at = 1 /\ stack[1].slot = 1
      BY <1>1
    <3>2. \A s \in Pointers : ~ (s < 1)
      BY <1>1 DEF Pointers
    <3> QED BY <1>1, <3>1, <3>2 DEF IsWritten, Handled
  <2>2. \A s \in Pointers : data[1].slots[s] = Empty
    BY <1>4 DEF Block, NoPointers, Pointers
  <2> QED BY <1>6, <2>1, <2>2 DEF Written
<1>11. Reached
  BY <1>4 DEF Reached
<1>12. OneToOne /\ DesCalls /\ Loaded
  BY <1>1 DEF OneToOne, DesCalls, Loaded
<1> QED BY <1>7, <1>8, <1>9, <1>10, <1>11, <1>12 DEF IInv

(* Every step but the ones named keeps the file, or what was made of it.   *)
LEMMA TypeStep == IInv /\ [Next]_vars => TypeOK'
<1> SUFFICES ASSUME IInv, [Next]_vars PROVE TypeOK'
  OBVIOUS
<1>0. TypeOK
  BY DEF IInv
<1>t. /\ pc \in {"ser", "des", "done"} /\ heap \in [Heap -> [Pointers -> Targets]]
      /\ data \in Seq(Records(Heap, Len(data)))
      /\ loaded \in Seq(Records(Heap, Len(loaded)))
      /\ blocks \subseteq Heap \X (DOMAIN data)
      /\ made \subseteq (DOMAIN data) \X (DOMAIN loaded)
      /\ stack \in Seq(Calls(Froms))
  BY <1>0 DEF TypeOK, Records, Pointers, Froms
<1>q. ASSUME pc' \in {"ser", "des", "done"}, heap' = heap,
             data' \in Seq(Records(Heap, Len(data'))),
             loaded' \in Seq(Records(Heap, Len(loaded'))),
             blocks' \subseteq Heap \X (DOMAIN data'),
             made' \subseteq (DOMAIN data') \X (DOMAIN loaded'),
             stack' \in Seq(Calls(IF pc' = "ser" THEN Heap ELSE DOMAIN data'))
      PROVE  TypeOK'
  BY <1>q, <1>t DEF TypeOK, Records, Pointers
(* Only the stack moves.                                                   *)
<1>s. ASSUME stack' \in Seq(Calls(Froms)), UNCHANGED <<pc, heap, data, blocks, loaded, made>>
      PROVE  TypeOK'
  BY <1>q, <1>s, <1>t DEF Froms
<1>1. CASE SerNull
  <2>1. /\ Working("ser") /\ stack' = Advanced
        /\ UNCHANGED <<pc, heap, data, blocks, loaded, made>>
    BY <1>1 DEF SerNull
  <2>2. pc = "ser" /\ stack # <<>> /\ Top.slot <= Slots /\ OneCallEach
    BY <2>1 DEF Working, IInv, SerCalls
  <2>3. stack' \in Seq(Calls(Froms))
    BY <1>0, <2>1, <2>2, CallAdvances
  <2> QED BY <1>s, <2>1, <2>3
<1>2. CASE SerKnown
  <2>1. /\ stack' = Advanced /\ UNCHANGED <<pc, heap, blocks, loaded, made>>
        /\ data' \in Seq(Records(Heap, Len(data))) /\ Len(data') = Len(data)
        /\ DOMAIN data' = DOMAIN data
    BY <1>2, SerKnownEffect
  <2>2. pc = "ser" /\ stack # <<>> /\ Top.slot <= Slots /\ OneCallEach
    BY <1>2 DEF SerKnown, Working, IInv, SerCalls
  <2>3. stack' \in Seq(Calls(Froms))
    BY <1>0, <2>1, <2>2, CallAdvances
  <2> QED BY <1>q, <1>t, <2>1, <2>2, <2>3 DEF Froms
<1>3. CASE SerNew
  <2> DEFINE pos == Len(data) + 1
  <2>0. pc = "ser" /\ stack # <<>> /\ Top.slot <= Slots /\ OneCallEach
    BY <1>3 DEF SerNew, Working, IInv, SerCalls
  <2>1. /\ stack' = Append(Advanced, [from |-> Target, at |-> pos, slot |-> 1])
        /\ blocks' = blocks \cup {<<Target, pos>>}
        /\ UNCHANGED <<pc, heap, loaded, made>>
        /\ Target \in Objects \cup {Tech}
        /\ data' \in Seq(Records(Heap, pos)) /\ Len(data') = pos
        /\ DOMAIN data' = DOMAIN data \cup {pos} /\ pos \notin DOMAIN data
    BY <1>3, SerNewEffect
  <2>2. Target \in Heap
    BY <2>1 DEF Heap
  <2>3. stack' \in Seq(Calls(Froms))
    <3>1. \A k \in DOMAIN stack : stack[k].at # pos
      BY <2>0, <2>1 DEF IInv, SerCalls, Positions
    <3>2. Target \in Froms /\ pos \in Nat \ {0}
      BY <1>0, <2>0, <2>2, DataType DEF Froms
    <3> HIDE DEF pos
    <3>s. Starts(Target, pos)
      BY <2>1 DEF Starts
    <3> QED BY <1>0, <2>0, <2>1, <3>1, <3>2, <3>s, CallStarts
  <2> HIDE DEF pos
  <2> QED BY <1>q, <1>t, <2>0, <2>1, <2>2, <2>3 DEF Froms
<1>4. CASE SerReturn \/ DesReturn
  <2>1. /\ stack # <<>> /\ Top.slot > Slots /\ stack' = Rest /\ OneCallEach
        /\ UNCHANGED <<pc, heap, data, blocks, loaded, made>>
    BY <1>4 DEF SerReturn, DesReturn, Return, IInv, SerCalls, DesCalls
  <2>2. stack' \in Seq(Calls(Froms))
    BY <1>0, <2>1, CallReturns
  <2> QED BY <1>s, <2>1, <2>2
<1>5. CASE Reopen
  <2>1. /\ pc' = "des" /\ UNCHANGED <<heap, data, blocks, made>>
        /\ loaded' = <<[content |-> data[1].content, slots |-> NoPointers]>>
        /\ stack' = <<[from |-> 1, at |-> 1, slot |-> 1]>> /\ made = {}
    BY <1>5 DEF Reopen, IInv, SerCalls
  <2>2. /\ 1 \in DOMAIN data /\ data[1].content \in Heap /\ Slots \in Nat
    <3>1. Len(data) >= 2
      BY DEF IInv, Blocks
    <3> QED BY <1>0, <3>1, DataType, SerializeAssumption
  <2>3. loaded' \in Seq(Records(Heap, 1)) /\ Len(loaded') = 1
    <3>1. NoPointers \in [Pointers -> 0 .. 1]
      BY DEF NoPointers, Empty, Pointers
    <3>2. [content |-> data[1].content, slots |-> NoPointers] \in Records(Heap, 1)
      BY <2>2, <3>1 DEF Records
    <3> QED BY <2>1, <3>2
  <2>4. stack' \in Seq(Calls(DOMAIN data))
    <3>1. 1 \in 1 .. Slots + 1
      BY <2>2
    <3>2. [from |-> 1, at |-> 1, slot |-> 1] \in Calls(DOMAIN data)
      BY <2>2, <3>1 DEF Calls
    <3> QED BY <2>1, <3>2
  <2> QED BY <1>q, <1>t, <2>1, <2>3, <2>4
<1>6. CASE DesNull
  <2>1. /\ Working("des") /\ stack' = Advanced
        /\ UNCHANGED <<pc, heap, data, blocks, loaded, made>>
    BY <1>6 DEF DesNull
  <2>2. pc = "des" /\ stack # <<>> /\ Top.slot <= Slots /\ OneCallEach
    BY <2>1 DEF Working, IInv, DesCalls
  <2>3. stack' \in Seq(Calls(Froms))
    BY <1>0, <2>1, <2>2, CallAdvances
  <2> QED BY <1>s, <2>1, <2>3
<1>7. CASE DesKnown
  <2>1. /\ stack' = Advanced /\ UNCHANGED <<pc, heap, data, blocks, made>>
        /\ loaded' \in Seq(Records(Heap, Len(loaded))) /\ Len(loaded') = Len(loaded)
        /\ DOMAIN loaded' = DOMAIN loaded
    BY <1>7, DesKnownEffect
  <2>2. pc = "des" /\ stack # <<>> /\ Top.slot <= Slots /\ OneCallEach
    BY <1>7 DEF DesKnown, Working, IInv, DesCalls
  <2>3. stack' \in Seq(Calls(Froms))
    BY <1>0, <2>1, <2>2, CallAdvances
  <2> QED BY <1>q, <1>t, <2>1, <2>2, <2>3 DEF Froms
<1>8. CASE DesNew
  <2> DEFINE new == Len(loaded) + 1
  <2>0. pc = "des" /\ stack # <<>> /\ Top.slot <= Slots /\ OneCallEach
    BY <1>8 DEF DesNew, Working, IInv, DesCalls
  <2>1. /\ stack' = Append(Advanced, [from |-> Stored, at |-> new, slot |-> 1])
        /\ made' = made \cup {<<Stored, new>>}
        /\ UNCHANGED <<pc, heap, data, blocks>>
        /\ Stored \in 3 .. Len(data)
        /\ loaded' \in Seq(Records(Heap, new)) /\ Len(loaded') = new
        /\ DOMAIN loaded' = DOMAIN loaded \cup {new} /\ new \notin DOMAIN loaded
    BY <1>8, DesNewEffect
  <2>2. Stored \in DOMAIN data /\ new \in Nat \ {0}
    BY <1>0, <2>1, DataType
  <2>3. stack' \in Seq(Calls(Froms))
    <3>1. \A k \in DOMAIN stack : stack[k].at # new
      <4>1. \A k \in DOMAIN stack : MadeOf(stack[k].from, stack[k].at)
        BY <2>0 DEF IInv, DesCalls
      <4> QED BY <2>0, <2>1, <4>1, MadeFacts
    <3>2. Stored \in Froms
      BY <2>0, <2>2 DEF Froms
    <3> HIDE DEF new
    <3>s. Starts(Stored, new)
      BY <2>1 DEF Starts
    <3> QED BY <1>0, <2>0, <2>1, <2>2, <3>1, <3>2, <3>s, CallStarts
  <2> HIDE DEF new
  <2> QED BY <1>q, <1>t, <2>0, <2>1, <2>2, <2>3 DEF Froms
<1>9. CASE Finish
  <2>1. pc' = "done" /\ UNCHANGED <<heap, data, blocks, stack, loaded, made>> /\ pc = "des"
    BY <1>9 DEF Finish
  <2> QED BY <1>q, <1>t, <2>1 DEF Froms
<1>10. CASE UNCHANGED vars
  BY <1>0, <1>10 DEF vars, TypeOK, Calls
<1> QED BY <1>1, <1>2, <1>3, <1>4, <1>5, <1>6, <1>7, <1>8, <1>9, <1>10
      DEF Next, Ser, Des, Stopped


(* The processor, the technology and the null pointer are no objects and   *)
(* three.                                                                  *)
LEMMA ThreeNames ==
  /\ Processor # Tech /\ Processor # Null /\ Tech # Null
  /\ Processor \notin Objects /\ Tech \notin Objects /\ Null \notin Objects
<1>1. Processor # Tech /\ Processor # Null /\ Tech # Null
  <2> DEFINE S == {Processor, Tech, Null}
  <2>1. Cardinality(S) = 3
    BY SerializeAssumption
  <2>2. ASSUME NEW a, NEW b, S = {a, b} PROVE FALSE
    <3>1. IsFiniteSet({}) /\ Cardinality({}) = 0
      BY FS_EmptySet
    <3>2. IsFiniteSet({a}) /\ Cardinality({a}) = 1
      BY FS_Singleton
    <3>3. {a} \cup {b} = S
      BY <2>2
    <3>4. Cardinality({a} \cup {b}) \in {1, 2}
      BY <3>2, FS_AddElement
    <3> QED BY <2>1, <3>3, <3>4
  <2>3. Processor = Tech => S = {Processor, Null}
    OBVIOUS
  <2>4. Processor = Null => S = {Processor, Tech}
    OBVIOUS
  <2>5. Tech = Null => S = {Processor, Tech}
    OBVIOUS
  <2> HIDE DEF S
  <2> QED BY <2>2, <2>3, <2>4, <2>5
<1> QED BY <1>1, SerializeAssumption

(* The steps that leave the file alone: nothing of a block or of what is   *)
(* written of it changes.                                                  *)
LEMMA FileKept ==
  ASSUME IInv, SerReturn \/ Reopen \/ Des \/ Stopped \/ UNCHANGED vars
  PROVE  /\ UNCHANGED <<heap, data, blocks>>
         /\ \A p, s : s \in Pointers => (IsWritten(p, s)' <=> IsWritten(p, s))
<1>1. CASE SerReturn
  <2>1. /\ stack # <<>> /\ Top.slot > Slots /\ stack' = Rest /\ pc = "ser"
        /\ UNCHANGED <<pc, heap, data, blocks>>
    BY <1>1 DEF SerReturn, Return
  <2>2. TypeOK /\ OneCallEach
    BY <2>1 DEF IInv, SerCalls
  <2>3. \A p, s : s \in Pointers => (Handled(p, s)' <=> Handled(p, s))
    BY <2>1, <2>2, CallReturns
  <2> QED BY <2>1, <2>3 DEF IsWritten
<1>2. CASE Reopen
  <2>1. /\ stack = <<>> /\ pc' = "des" /\ UNCHANGED <<heap, data, blocks>>
    BY <1>2 DEF Reopen
  <2> QED BY <2>1 DEF IsWritten, Handled
<1>3. CASE Des
  <2>1. pc # "ser" /\ pc' # "ser" /\ UNCHANGED <<heap, data, blocks>>
    BY <1>3 DEF Des, DesNull, DesKnown, DesNew, DesReturn, Finish, Return, Working
  <2> QED BY <2>1 DEF IsWritten
<1>4. CASE Stopped \/ UNCHANGED vars
  <2>1. UNCHANGED <<pc, heap, data, blocks, stack>>
    BY <1>4 DEF Stopped, vars
  <2> QED BY <2>1 DEF IsWritten, Handled
<1> QED BY <1>1, <1>2, <1>3, <1>4

(* Ids stay those of the records.                                          *)
LEMMA BlocksStep == IInv /\ [Next]_vars => Blocks'
<1> SUFFICES ASSUME IInv, [Next]_vars PROVE Blocks'
  OBVIOUS
<1>0. Blocks /\ Len(data) \in Nat /\ DOMAIN data = 1 .. Len(data)
  BY DataType DEF IInv
<1>1. CASE SerNew
  <2> DEFINE pos == Len(data) + 1
  <2>1. /\ blocks' = blocks \cup {<<Target, pos>>}
        /\ Target \in Objects \cup {Tech}
        /\ \A p \in 3 .. Len(data) : data[p].content # Target
        /\ Len(data') = pos
        /\ DOMAIN data' = DOMAIN data \cup {pos} /\ pos \notin DOMAIN data
        /\ \A q \in DOMAIN data : data'[q].content = data[q].content
        /\ data'[pos].content = Target
    BY <1>1, SerNewEffect
  <2>2. /\ 3 .. pos = 3 .. Len(data) \cup {pos} /\ pos >= 2 /\ pos \in Nat
        /\ 1 \in DOMAIN data /\ 2 \in DOMAIN data /\ pos # 2
        /\ 3 .. Len(data) \subseteq DOMAIN data
        /\ \A p \in Positions : p = 1 \/ p \in 3 .. Len(data)
    BY <1>0 DEF Blocks, Positions
  <2> HIDE DEF pos
  <2>3. /\ Len(data') >= 2 /\ data'[1].content = Processor /\ data'[2].content = Tech
        /\ \A p \in 3 .. Len(data') : data'[p].content \in Objects \cup {Tech}
    BY <1>0, <2>1, <2>2 DEF Blocks
  <2>4. ASSUME NEW p \in Positions PROVE data[p].content # Target
    BY <1>0, <2>1, <2>2, ThreeNames DEF Blocks
  <2>5. Positions' = Positions \cup {pos}
    BY <2>1, <2>2 DEF Positions
  <2>6. ASSUME NEW p \in Positions', NEW q \in Positions', data'[p].content = data'[q].content
        PROVE  p = q
    <3>1. \A r \in Positions : r \in DOMAIN data
      BY DEF Positions
    <3>2. CASE p = pos \/ q = pos
      BY <2>1, <2>4, <2>5, <2>6, <3>1, <3>2
    <3>3. CASE p # pos /\ q # pos
      <4>1. p \in Positions /\ q \in Positions
        BY <2>5, <2>6, <3>3
      <4> QED BY <1>0, <2>1, <2>6, <3>1, <4>1 DEF Blocks
    <3> QED BY <3>2, <3>3
  <2>7. blocks' = {<<data'[p].content, p>> : p \in 3 .. Len(data')}
    <3>1. blocks = {<<data[p].content, p>> : p \in 3 .. Len(data)}
      BY <1>0 DEF Blocks
    <3>2. \A p \in 3 .. Len(data) : data'[p].content = data[p].content
      BY <2>1, <2>2
    <3>3. {<<data[p].content, p>> : p \in 3 .. Len(data)}
            = {<<data'[p].content, p>> : p \in 3 .. Len(data)}
      BY <3>2
    <3> QED BY <2>1, <2>2, <3>1, <3>3
  <2> QED BY <2>3, <2>6, <2>7 DEF Blocks
<1>2. ASSUME UNCHANGED blocks, Len(data') = Len(data), DOMAIN data' = DOMAIN data,
             \A q \in DOMAIN data : data'[q].content = data[q].content
      PROVE  Blocks'
  <2>1. /\ 1 \in DOMAIN data /\ 2 \in DOMAIN data /\ 3 .. Len(data) \subseteq DOMAIN data
        /\ Positions' = Positions /\ Positions \subseteq DOMAIN data
    BY <1>0, <1>2 DEF Blocks, Positions
  <2>2. {<<data[p].content, p>> : p \in 3 .. Len(data)}
          = {<<data'[p].content, p>> : p \in 3 .. Len(data')}
    BY <1>2, <2>1
  <2> QED BY <1>0, <1>2, <2>1, <2>2 DEF Blocks
<1>3. CASE SerKnown
  BY <1>2, <1>3, SerKnownEffect
<1>4. CASE SerNull
  BY <1>2, <1>4 DEF SerNull
<1>5. CASE SerReturn \/ Reopen \/ Des \/ Stopped \/ UNCHANGED vars
  BY <1>2, <1>5, FileKept
<1> QED BY <1>1, <1>3, <1>4, <1>5 DEF Next, Ser

(* Every open call of serialize() is for a block of its own.               *)
LEMMA SerCallsStep == IInv /\ [Next]_vars => SerCalls'
<1> SUFFICES ASSUME IInv, [Next]_vars, pc' = "ser" PROVE SerCalls'
  BY DEF SerCalls
<1>1. pc = "ser" /\ ~ Des /\ ~ Reopen
  <2>1. Des => pc' # "ser"
    BY DEF Des, DesNull, DesKnown, DesNew, DesReturn, Finish, Return, Working
  <2>2. Reopen => pc' # "ser"
    BY DEF Reopen
  <2>3. SerNull \/ SerKnown \/ SerNew \/ SerReturn => pc = "ser"
    BY DEF SerNull, SerKnown, SerNew, SerReturn, Return, Working
  <2>4. Stopped \/ UNCHANGED vars => pc = "ser"
    BY DEF Stopped, vars
  <2> QED BY <2>1, <2>2, <2>3, <2>4 DEF Next, Ser
<1>2. /\ loaded = <<>> /\ made = {} /\ OneCallEach /\ TypeOK
      /\ \A k \in DOMAIN stack :
           stack[k].at \in Positions /\ stack[k].from = data[stack[k].at].content
  BY <1>1 DEF IInv, SerCalls
<1>3. CASE SerNew
  <2> DEFINE pos == Len(data) + 1
  <2>1. /\ stack' = Append(Advanced, [from |-> Target, at |-> pos, slot |-> 1])
        /\ UNCHANGED <<loaded, made>>
        /\ Target \in Objects \cup {Tech}
        /\ DOMAIN data' = DOMAIN data \cup {pos} /\ pos \notin DOMAIN data
        /\ \A q \in DOMAIN data : data'[q].content = data[q].content
        /\ data'[pos].content = Target
    BY <1>3, SerNewEffect
  <2>2. stack # <<>> /\ Top.slot <= Slots
    BY <1>3 DEF SerNew, Working
  <2>3. \A k \in DOMAIN stack : stack[k].at # pos
    BY <1>2, <2>1 DEF Positions
  <2>4. Target \in Froms /\ pos \in Nat \ {0} /\ pos # 2
    <3>1. Len(data) \in Nat /\ Len(data) >= 2
      BY <1>2, DataType DEF IInv, Blocks
    <3> QED BY <1>1, <2>1, <3>1 DEF Froms, Heap
  <2> HIDE DEF pos
  <2>s. Starts(Target, pos)
    BY <2>1 DEF Starts
  <2>5. /\ DOMAIN stack' = DOMAIN stack \cup {Len(stack) + 1}
        /\ \A k \in DOMAIN stack :
             stack'[k].at = stack[k].at /\ stack'[k].from = stack[k].from
        /\ stack'[Len(stack) + 1].at = pos /\ stack'[Len(stack) + 1].from = Target
        /\ OneCallEach'
    BY <1>2, <2>1, <2>2, <2>3, <2>4, <2>s, CallStarts
  <2>6. Positions' = Positions \cup {pos} /\ Positions \subseteq DOMAIN data
    BY <2>1, <2>4 DEF Positions
  <2>7. ASSUME NEW k \in DOMAIN stack'
        PROVE  stack'[k].at \in Positions' /\ stack'[k].from = data'[stack'[k].at].content
    BY <1>2, <2>1, <2>5, <2>6
  <2> QED BY <1>2, <2>1, <2>5, <2>7 DEF SerCalls
<1>4. ASSUME UNCHANGED <<loaded, made>>, DOMAIN data' = DOMAIN data, OneCallEach',
             \A q \in DOMAIN data : data'[q].content = data[q].content,
             DOMAIN stack' \subseteq DOMAIN stack,
             \A k \in DOMAIN stack' :
               stack'[k].at = stack[k].at /\ stack'[k].from = stack[k].from
      PROVE  SerCalls'
  BY <1>2, <1>4 DEF SerCalls, Positions
<1>5. CASE SerNull \/ SerKnown
  <2>1. /\ stack # <<>> /\ Top.slot <= Slots /\ stack' = Advanced
        /\ UNCHANGED <<loaded, made>>
    BY <1>5 DEF SerNull, SerKnown, Working
  <2>2. /\ DOMAIN data' = DOMAIN data
        /\ \A q \in DOMAIN data : data'[q].content = data[q].content
    BY <1>5, SerKnownEffect DEF SerNull
  <2>3. /\ DOMAIN stack' = DOMAIN stack /\ OneCallEach'
        /\ \A k \in DOMAIN stack :
             stack'[k].at = stack[k].at /\ stack'[k].from = stack[k].from
    BY <1>2, <2>1, CallAdvances
  <2> QED BY <1>4, <2>1, <2>2, <2>3
<1>6. CASE SerReturn
  <2>1. /\ stack # <<>> /\ Top.slot > Slots /\ stack' = Rest
        /\ UNCHANGED <<data, loaded, made>>
    BY <1>6 DEF SerReturn, Return
  <2>2. /\ DOMAIN stack' \subseteq DOMAIN stack /\ OneCallEach'
        /\ \A k \in DOMAIN stack' : stack'[k] = stack[k]
    BY <1>2, <2>1, CallReturns
  <2> QED BY <1>4, <2>1, <2>2
<1>7. CASE Stopped \/ UNCHANGED vars
  <2>1. UNCHANGED <<loaded, made, data, stack>>
    BY <1>7 DEF Stopped, vars
  <2>2. OneCallEach'
    BY <1>2, <2>1 DEF OneCallEach
  <2> QED BY <1>4, <2>1, <2>2
<1> QED BY <1>1, <1>3, <1>5, <1>6, <1>7 DEF Next, Ser

(* What is written of a pointer, after the step that sees to it.           *)
LEMMA WrittenStep == IInv /\ [Next]_vars => Written'
<1> SUFFICES ASSUME IInv, [Next]_vars PROVE Written'
  OBVIOUS
<1>0. TypeOK /\ Blocks /\ Written /\ Len(data) \in Nat /\ DOMAIN data = 1 .. Len(data)
  BY DataType DEF IInv
<1>w. ASSUME NEW p \in Positions, NEW s \in Pointers
      PROVE  IF IsWritten(p, s) THEN PointsTo(p, s) ELSE data[p].slots[s] = Empty
  BY <1>0 DEF Written
<1>p. Positions \subseteq DOMAIN data
  BY DEF Positions
(* The other pointers are as they were.                                    *)
<1>o. ASSUME heap' = heap, Len(data') \in Nat, Len(data) <= Len(data'),
             \A q \in DOMAIN data : data'[q].content = data[q].content,
             NEW p \in Positions, NEW s \in Pointers,
             IsWritten(p, s)' <=> IsWritten(p, s),
             data'[p].slots[s] = data[p].slots[s]
      PROVE  IF IsWritten(p, s)' THEN PointsTo(p, s)' ELSE data'[p].slots[s] = Empty
  <2>1. 3 .. Len(data) \subseteq 3 .. Len(data') /\ 3 .. Len(data) \subseteq DOMAIN data
    BY <1>0, <1>o
  <2>2. PointsTo(p, s) => PointsTo(p, s)'
    BY <1>o, <1>p, <2>1 DEF PointsTo
  <2> QED BY <1>o, <1>w, <2>2
<1>1. CASE SerNull
  <2>1. /\ Target = Null /\ stack' = Advanced /\ Working("ser")
        /\ UNCHANGED <<pc, heap, data>>
    BY <1>1 DEF SerNull
  <2>2. /\ pc = "ser" /\ stack # <<>> /\ Top.slot <= Slots /\ Top.at \in Positions
        /\ Top.slot \in Pointers /\ Target = heap[data[Top.at].content][Top.slot]
    BY <2>1, SerFacts
  <2>3. /\ \A p, s : s \in Pointers =>
             (IsWritten(p, s)' <=> IsWritten(p, s) \/ (p = Top.at /\ s = Top.slot))
        /\ ~ IsWritten(Top.at, Top.slot)
    <3>1. OneCallEach
      BY <2>2 DEF IInv, SerCalls
    <3> QED BY <1>0, <2>1, <2>2, <3>1, CallAdvances DEF IsWritten
  <2>4. PointsTo(Top.at, Top.slot)
    BY <1>w, <2>1, <2>2, <2>3 DEF PointsTo
  <2>5. ASSUME NEW p \in Positions, NEW s \in Pointers
        PROVE  IF IsWritten(p, s)' THEN PointsTo(p, s)' ELSE data'[p].slots[s] = Empty
    <3>1. CASE p = Top.at /\ s = Top.slot
      BY <2>1, <2>3, <2>4, <3>1 DEF PointsTo
    <3>2. CASE ~ (p = Top.at /\ s = Top.slot)
      BY <1>0, <1>o, <2>1, <2>3, <3>2
    <3> QED BY <3>1, <3>2
  <2> QED BY <2>1, <2>5 DEF Written, Positions
<1>2. CASE SerKnown
  <2> DEFINE v == In(blocks, Target)
  <2>1. /\ stack' = Advanced /\ Target # Null /\ UNCHANGED <<pc, heap>>
        /\ Len(data') = Len(data) /\ DOMAIN data' = DOMAIN data
        /\ \A q \in DOMAIN data : data'[q].content = data[q].content
        /\ v \in 3 .. Len(data) /\ data[v].content = Target
        /\ \A q \in DOMAIN data, r \in Pointers :
             data'[q].slots[r] = IF q = Top.at /\ r = Top.slot THEN v
                                 ELSE data[q].slots[r]
    BY <1>2, SerKnownEffect
  <2>2. /\ pc = "ser" /\ stack # <<>> /\ Top.slot <= Slots /\ Top.at \in Positions
        /\ Top.slot \in Pointers /\ Target = heap[data[Top.at].content][Top.slot]
    BY <1>2, SerFacts DEF SerKnown
  <2>3. /\ \A p, s : s \in Pointers =>
             (IsWritten(p, s)' <=> IsWritten(p, s) \/ (p = Top.at /\ s = Top.slot))
    <3>1. OneCallEach
      BY <2>2 DEF IInv, SerCalls
    <3> QED BY <1>0, <2>1, <2>2, <3>1, CallAdvances DEF IsWritten
  <2> HIDE DEF v
  <2>4. ASSUME NEW p \in Positions, NEW s \in Pointers, p = Top.at, s = Top.slot
        PROVE  PointsTo(p, s)'
    <3>1. /\ data'[p].content = data[p].content /\ data'[p].slots[s] = v
          /\ v \in DOMAIN data
      BY <1>0, <1>p, <2>1, <2>4
    <3> QED BY <2>1, <2>2, <2>4, <3>1 DEF PointsTo
  <2>5. ASSUME NEW p \in Positions, NEW s \in Pointers
        PROVE  IF IsWritten(p, s)' THEN PointsTo(p, s)' ELSE data'[p].slots[s] = Empty
    <3>1. CASE p = Top.at /\ s = Top.slot
      BY <2>3, <2>4, <3>1
    <3>2. CASE ~ (p = Top.at /\ s = Top.slot)
      BY <1>0, <1>o, <1>p, <2>1, <2>3, <3>2
    <3> QED BY <3>1, <3>2
  <2>6. Positions' = Positions
    BY <2>1 DEF Positions
  <2> QED BY <2>5, <2>6 DEF Written
<1>3. CASE SerNew
  <2> DEFINE pos == Len(data) + 1
  <2>1. /\ stack' = Append(Advanced, [from |-> Target, at |-> pos, slot |-> 1])
        /\ Target \in Objects \cup {Tech} /\ UNCHANGED <<pc, heap>>
        /\ Len(data') = pos
        /\ DOMAIN data' = DOMAIN data \cup {pos} /\ pos \notin DOMAIN data
        /\ \A q \in DOMAIN data : data'[q].content = data[q].content
        /\ data'[pos].content = Target
        /\ \A r \in Pointers : data'[pos].slots[r] = Empty
        /\ \A q \in DOMAIN data, r \in Pointers :
             data'[q].slots[r] = IF q = Top.at /\ r = Top.slot THEN pos
                                 ELSE data[q].slots[r]
    BY <1>3, SerNewEffect
  <2>2. /\ pc = "ser" /\ stack # <<>> /\ Top.slot <= Slots /\ Top.at \in Positions
        /\ Top.slot \in Pointers /\ Target = heap[data[Top.at].content][Top.slot]
    BY <1>3, SerFacts DEF SerNew
  <2>3. pos \in Nat \ {0} /\ Len(data) <= pos /\ pos \in 3 .. pos /\ pos # 2
    BY <1>0 DEF Blocks
  <2>4. /\ OneCallEach /\ Target \in Froms
        /\ \A k \in DOMAIN stack : stack[k].at # pos
    <3>1. SerCalls
      BY DEF IInv
    <3> QED BY <2>1, <2>2, <3>1 DEF SerCalls, Froms, Heap, Positions
  <2> HIDE DEF pos
  <2>5. \A p, s : s \in Pointers =>
          (IsWritten(p, s)' <=>
             p # pos /\ (IsWritten(p, s) \/ (p = Top.at /\ s = Top.slot)))
    <3>1. TypeOK /\ OneCallEach /\ stack # <<>> /\ Top.slot <= Slots /\ pos \in Nat \ {0}
          /\ Target \in Froms /\ \A k \in DOMAIN stack : stack[k].at # pos
          /\ Starts(Target, pos)
      BY <1>0, <2>1, <2>2, <2>3, <2>4 DEF Starts
    <3>2. \A p, s : s \in Pointers =>
            (Handled(p, s)' <=> p # pos /\ (Handled(p, s) \/ (p = Top.at /\ s = Top.slot)))
      <4> DEFINE f == Target
      <4>1. f \in Froms /\ Starts(f, pos)
        BY <3>1
      <4> HIDE DEF f
      <4>2. \A b, s : s \in Pointers =>
              (Handled(b, s)' <=> b # pos /\ (Handled(b, s) \/ (b = Top.at /\ s = Top.slot)))
        BY ONLY <3>1, <4>1, CallStarts
      <4> QED BY <4>2
    <3>3. pc = "ser" /\ pc' = "ser"
      BY <2>1, <2>2
    <3> QED BY <3>2, <3>3 DEF IsWritten
  <2>6. ASSUME NEW p \in Positions, NEW s \in Pointers, p = Top.at, s = Top.slot
        PROVE  PointsTo(p, s)'
    <3>1. data'[p].content = data[p].content /\ data'[p].slots[s] = pos
      BY <1>p, <2>1, <2>6
    <3>2. Target # Null
      BY <2>1, ThreeNames
    <3> QED BY <2>1, <2>2, <2>3, <2>6, <3>1, <3>2 DEF PointsTo
  <2>7. ASSUME NEW p \in Positions', NEW s \in Pointers
        PROVE  IF IsWritten(p, s)' THEN PointsTo(p, s)' ELSE data'[p].slots[s] = Empty
    <3>0. p = pos \/ (p # pos /\ p \in Positions)
      BY <2>1, <2>7 DEF Positions
    <3>1. CASE p = pos
      BY <2>1, <2>5, <3>1
    <3>2. CASE p # pos /\ p \in Positions /\ p = Top.at /\ s = Top.slot
      BY <2>5, <2>6, <3>2
    <3>3. CASE p # pos /\ p \in Positions /\ ~ (p = Top.at /\ s = Top.slot)
      <4>1. /\ IsWritten(p, s)' <=> IsWritten(p, s)
            /\ data'[p].slots[s] = data[p].slots[s]
        BY <1>p, <2>1, <2>5, <3>3
      <4> QED BY <1>o, <2>1, <2>3, <3>3, <4>1
    <3> QED BY <3>0, <3>1, <3>2, <3>3
  <2> QED BY <2>7 DEF Written
<1>4. CASE SerReturn \/ Reopen \/ Des \/ Stopped \/ UNCHANGED vars
  <2>1. /\ UNCHANGED <<heap, data>>
        /\ \A p, s : s \in Pointers => (IsWritten(p, s)' <=> IsWritten(p, s))
    BY <1>4, FileKept
  <2>2. ASSUME NEW p \in Positions, NEW s \in Pointers
        PROVE  IF IsWritten(p, s)' THEN PointsTo(p, s)' ELSE data'[p].slots[s] = Empty
    BY <1>0, <1>o, <2>1
  <2> QED BY <2>1, <2>2 DEF Written, Positions
<1> QED BY <1>1, <1>2, <1>3, <1>4 DEF Next, Ser

(* Every block but the first stays reached from an earlier one.            *)
LEMMA ReachedStep == IInv /\ [Next]_vars => Reached'
<1> SUFFICES ASSUME IInv, [Next]_vars PROVE Reached'
  OBVIOUS
<1>0. /\ TypeOK /\ Blocks /\ Written /\ Reached
      /\ Len(data) \in Nat /\ DOMAIN data = 1 .. Len(data)
  BY DataType DEF IInv
<1>1. ASSUME Len(data') = Len(data), DOMAIN data' = DOMAIN data,
             \A q \in Positions, s \in Pointers : IsWritten(q, s) =>
               IsWritten(q, s)' /\ data'[q].slots[s] = data[q].slots[s]
      PROVE  Reached'
  <2>1. Positions' = Positions
    BY <1>1 DEF Positions
  <2>2. ASSUME NEW p \in 3 .. Len(data')
        PROVE  \E q \in Positions', s \in Pointers :
                 q < p /\ IsWritten(q, s)' /\ data'[q].slots[s] = p
    <3>1. PICK q \in Positions, s \in Pointers :
            q < p /\ IsWritten(q, s) /\ data[q].slots[s] = p
      BY <1>0, <1>1 DEF Reached
    <3> QED BY <1>1, <2>1, <3>1
  <2> QED BY <2>2 DEF Reached
<1>2. CASE SerNull
  <2>1. /\ stack' = Advanced /\ Working("ser") /\ UNCHANGED <<pc, data>>
    BY <1>2 DEF SerNull
  <2>2. pc = "ser" /\ stack # <<>> /\ Top.slot <= Slots /\ OneCallEach
    BY <2>1 DEF Working, IInv, SerCalls
  <2>3. \A p, s : s \in Pointers => (IsWritten(p, s) => IsWritten(p, s)')
    BY <1>0, <2>1, <2>2, CallAdvances DEF IsWritten
  <2> QED BY <1>1, <2>1, <2>3
<1>3. CASE SerKnown
  <2>1. /\ stack' = Advanced /\ UNCHANGED pc
        /\ Len(data') = Len(data) /\ DOMAIN data' = DOMAIN data
        /\ \A q \in DOMAIN data, r \in Pointers :
             ~ (q = Top.at /\ r = Top.slot) => data'[q].slots[r] = data[q].slots[r]
    BY <1>3, SerKnownEffect
  <2>2. pc = "ser" /\ stack # <<>> /\ Top.slot <= Slots /\ OneCallEach
    BY <1>3 DEF SerKnown, Working, IInv, SerCalls
  <2>3. /\ \A p, s : s \in Pointers => (IsWritten(p, s) => IsWritten(p, s)')
        /\ ~ IsWritten(Top.at, Top.slot)
    BY <1>0, <2>1, <2>2, CallAdvances DEF IsWritten
  <2>4. ASSUME NEW q \in Positions, NEW s \in Pointers, IsWritten(q, s)
        PROVE  data'[q].slots[s] = data[q].slots[s]
    <3>1. ~ (q = Top.at /\ s = Top.slot)
      BY <2>3, <2>4
    <3> QED BY <2>1, <3>1 DEF Positions
  <2> QED BY <1>1, <2>1, <2>3, <2>4
<1>4. CASE SerNew
  <2> DEFINE pos == Len(data) + 1
  <2>1. /\ stack' = Append(Advanced, [from |-> Target, at |-> pos, slot |-> 1])
        /\ Target \in Objects \cup {Tech} /\ UNCHANGED <<pc, heap>>
        /\ Len(data') = pos
        /\ DOMAIN data' = DOMAIN data \cup {pos} /\ pos \notin DOMAIN data
        /\ \A q \in DOMAIN data, r \in Pointers :
             data'[q].slots[r] = IF q = Top.at /\ r = Top.slot THEN pos
                                 ELSE data[q].slots[r]
    BY <1>4, SerNewEffect
  <2>2. /\ pc = "ser" /\ stack # <<>> /\ Top.slot <= Slots /\ Top.at \in Positions
        /\ Top.slot \in Pointers
    BY <1>4, SerFacts DEF SerNew
  <2>3. /\ pos \in Nat \ {0} /\ 3 .. pos = 3 .. Len(data) \cup {pos}
        /\ \A q \in DOMAIN data : q < pos
    BY <1>0 DEF Blocks
  <2>4. /\ OneCallEach /\ Target \in Froms
        /\ \A k \in DOMAIN stack : stack[k].at # pos
    <3>1. SerCalls
      BY DEF IInv
    <3> QED BY <2>1, <2>2, <3>1 DEF SerCalls, Froms, Heap, Positions
  <2> HIDE DEF pos
  <2>s. Starts(Target, pos)
    BY <2>1 DEF Starts
  <2>5. /\ \A p, s : s \in Pointers =>
              (IsWritten(p, s)' <=>
                 p # pos /\ (IsWritten(p, s) \/ (p = Top.at /\ s = Top.slot)))
        /\ ~ IsWritten(Top.at, Top.slot)
    BY <1>0, <2>1, <2>2, <2>3, <2>4, <2>s, CallStarts DEF IsWritten
  <2>6. Positions \subseteq Positions' /\ Positions \subseteq DOMAIN data
    BY <2>1 DEF Positions
  <2>7. ASSUME NEW p \in 3 .. Len(data')
        PROVE  \E q \in Positions', s \in Pointers :
                 q < p /\ IsWritten(q, s)' /\ data'[q].slots[s] = p
    <3>1. CASE p = pos
      <4>1. \A q \in Positions : q # pos /\ q < pos
        BY <2>1, <2>3, <2>6
      <4> QED BY <2>1, <2>2, <2>5, <2>6, <3>1, <4>1
    <3>2. CASE p \in 3 .. Len(data)
      <4>1. PICK q \in Positions, s \in Pointers :
              q < p /\ IsWritten(q, s) /\ data[q].slots[s] = p
        BY <1>0, <3>2 DEF Reached
      <4>2. ~ (q = Top.at /\ s = Top.slot) /\ q # pos
        BY <2>1, <2>5, <2>6, <4>1
      <4> QED BY <2>1, <2>5, <2>6, <4>1, <4>2
    <3> QED BY <2>1, <2>3, <3>1, <3>2
  <2> QED BY <2>7 DEF Reached
<1>5. CASE SerReturn \/ Reopen \/ Des \/ Stopped \/ UNCHANGED vars
  BY <1>1, <1>5, FileKept
<1> QED BY <1>2, <1>3, <1>4, <1>5 DEF Next, Ser

(* Of the steps of serialize() only Reopen leaves the writing.             *)
LEMMA ReadingBegins ==
  ASSUME Ser, pc' # "ser"
  PROVE  Reopen
<1>1. SerNull \/ SerKnown \/ SerNew \/ SerReturn => pc' = "ser"
  BY DEF SerNull, SerKnown, SerNew, SerReturn, Return, Working
<1> QED BY <1>1 DEF Ser

(* The steps that make nothing.                                            *)
LEMMA NothingMade ==
  ASSUME DesNull \/ DesReturn \/ Finish \/ Stopped \/ UNCHANGED vars, pc' # "ser"
  PROVE  pc # "ser" /\ UNCHANGED <<heap, data, loaded, made>>
BY DEF DesNull, DesReturn, Finish, Stopped, Working, Return, vars

(* Ids and copies stay one to one.                                         *)
LEMMA OneToOneStep == IInv /\ [Next]_vars => OneToOne'
<1> SUFFICES ASSUME IInv, [Next]_vars, pc' # "ser" PROVE OneToOne'
  BY DEF OneToOne
<1>0. /\ TypeOK /\ Blocks /\ OneToOne /\ SerCalls
      /\ Len(loaded) \in Nat /\ DOMAIN loaded = 1 .. Len(loaded)
      /\ loaded \in Seq(Records(Heap, Len(loaded)))
      /\ Len(data) \in Nat /\ DOMAIN data = 1 .. Len(data)
  BY DataType DEF IInv
<1>1. CASE Reopen
  <2>1. /\ loaded' = <<[content |-> data[1].content, slots |-> NoPointers]>>
        /\ made' = {} /\ data[1].content = Processor
    BY <1>0, <1>1 DEF Reopen, SerCalls, Blocks
  <2>2. /\ loaded' # <<>> /\ Len(loaded') = 1 /\ loaded'[1].content = Processor
    BY <2>1
  <2>3. 2 .. 1 = {}
    OBVIOUS
  <2> QED BY <2>1, <2>2, <2>3 DEF OneToOne
<1>o. ASSUME pc # "ser"
      PROVE  /\ loaded # <<>> /\ loaded[1].content = Processor
             /\ made \subseteq (3 .. Len(data)) \X (2 .. Len(loaded))
             /\ \A e \in made : loaded[e[2]].content = data[e[1]].content
             /\ \A e, f \in made : e[1] = f[1] \/ e[2] = f[2] => e = f
             /\ \A q \in 2 .. Len(loaded) : \E p \in 3 .. Len(data) : <<p, q>> \in made
             /\ Len(loaded) >= 1 /\ 1 \in DOMAIN loaded
             /\ \A e \in made : e[2] \in DOMAIN loaded
  <2>1. /\ loaded # <<>> /\ loaded[1].content = Processor
        /\ made \subseteq (3 .. Len(data)) \X (2 .. Len(loaded))
        /\ \A e \in made : loaded[e[2]].content = data[e[1]].content
        /\ \A e, f \in made : e[1] = f[1] \/ e[2] = f[2] => e = f
        /\ \A q \in 2 .. Len(loaded) : \E p \in 3 .. Len(data) : <<p, q>> \in made
    BY <1>0, <1>o DEF OneToOne
  <2>2. Len(loaded) >= 1 /\ 1 \in DOMAIN loaded
    BY <1>0, <2>1
  <2>3. \A e \in made : e[2] \in 2 .. Len(loaded)
    BY <2>1
  <2>4. 2 .. Len(loaded) \subseteq DOMAIN loaded
    BY <1>0
  <2> QED BY <2>1, <2>2, <2>3, <2>4
<1>2. CASE DesKnown
  <2>1. /\ UNCHANGED <<data, made>> /\ Len(loaded') = Len(loaded)
        /\ \A q \in DOMAIN loaded : loaded'[q].content = loaded[q].content
        /\ loaded' \in Seq(Records(Heap, Len(loaded)))
    BY <1>2, DesKnownEffect
  <2>2. pc # "ser"
    BY <1>2 DEF DesKnown, Working
  <2>3. loaded' # <<>>
    BY <1>o, <2>1, <2>2
  <2> QED BY <1>o, <2>1, <2>2, <2>3 DEF OneToOne
<1>3. CASE DesNew
  <2> DEFINE new == Len(loaded) + 1
             f == <<Stored, new>>
  <2>1. /\ made' = made \cup {f} /\ UNCHANGED data
        /\ Stored \in 3 .. Len(data)
        /\ \A q : <<Stored, q>> \notin made
        /\ loaded' \in Seq(Records(Heap, new)) /\ Len(loaded') = new
        /\ new \notin DOMAIN loaded
        /\ \A q \in DOMAIN loaded : loaded'[q].content = loaded[q].content
        /\ loaded'[new].content = data[Stored].content
    BY <1>3, DesNewEffect
  <2>2. pc # "ser"
    BY <1>3 DEF DesNew, Working
  <2>3. /\ new >= 2 /\ new \in Nat /\ 2 .. new = 2 .. Len(loaded) \cup {new}
    BY <1>0, <1>o, <2>2
  <2>4. f[1] = Stored /\ f[2] = new
    OBVIOUS
  <2>5. loaded' # <<>> /\ loaded'[1].content = Processor
    BY <1>o, <2>1, <2>2, <2>3
  <2>6. made' \subseteq (3 .. Len(data')) \X (2 .. Len(loaded'))
    BY <1>o, <2>1, <2>2, <2>3
  <2>7. \A q \in 2 .. Len(loaded') : \E p \in 3 .. Len(data') : <<p, q>> \in made'
    <3> SUFFICES ASSUME NEW q \in 2 .. new
                 PROVE  \E p \in 3 .. Len(data) : <<p, q>> \in made'
      BY <2>1
    <3> HIDE DEF new
    <3>1. CASE q = new
      BY <2>1, <3>1
    <3>2. CASE q \in 2 .. Len(loaded)
      BY <1>o, <2>1, <2>2, <3>2
    <3> QED BY <2>3, <3>1, <3>2
  <2> HIDE DEF f, new
  <2>8. ASSUME NEW e \in made' PROVE loaded'[e[2]].content = data'[e[1]].content
    BY <1>o, <2>1, <2>2, <2>4, <2>8
  <2>9. ASSUME NEW e \in made PROVE e[1] # Stored /\ e[2] # new
    <3>1. e = <<e[1], e[2]>>
      BY <1>o, <2>2, <2>9
    <3> QED BY <1>o, <2>1, <2>2, <2>9, <3>1
  <2>10. ASSUME NEW e \in made', NEW g \in made', e[1] = g[1] \/ e[2] = g[2]
         PROVE  e = g
    <3>1. CASE e = f \/ g = f
      BY <2>1, <2>4, <2>9, <2>10, <3>1
    <3>2. CASE e # f /\ g # f
      <4>1. e \in made /\ g \in made
        BY <2>1, <2>10, <3>2
      <4> QED BY <1>o, <2>2, <2>10, <4>1
    <3> QED BY <3>1, <3>2
  <2> QED BY <2>5, <2>6, <2>7, <2>8, <2>10 DEF OneToOne
<1>4. CASE DesNull \/ DesReturn \/ Finish \/ Stopped \/ UNCHANGED vars
  BY <1>0, <1>4, NothingMade DEF OneToOne
<1> QED BY <1>1, <1>2, <1>3, <1>4, ReadingBegins DEF Next, Des

(* Every open call of do_des() is for the object of its block.             *)
LEMMA DesCallsStep == IInv /\ [Next]_vars => DesCalls'
<1> SUFFICES ASSUME IInv, [Next]_vars, pc' # "ser" PROVE DesCalls'
  BY DEF DesCalls
<1>0. TypeOK /\ DesCalls /\ SerCalls
  BY DEF IInv
<1>1. CASE Reopen
  <2>1. pc' = "des" /\ stack' = <<[from |-> 1, at |-> 1, slot |-> 1]>>
    BY <1>1 DEF Reopen
  <2>2. \A k \in DOMAIN stack' : k = 1 /\ stack'[k].from = 1 /\ stack'[k].at = 1
    BY <2>1
  <2> QED BY <2>1, <2>2 DEF DesCalls, OneCallEach, MadeOf
<1>2. CASE DesNull \/ DesKnown
  <2>1. /\ pc = "des" /\ pc' = "des" /\ made' = made /\ stack' = Advanced
        /\ stack # <<>> /\ Top.slot <= Slots
    BY <1>2 DEF DesNull, DesKnown, Working
  <2>2. /\ OneCallEach /\ \A k \in DOMAIN stack : MadeOf(stack[k].from, stack[k].at)
    BY <1>0, <2>1 DEF DesCalls
  <2>3. /\ OneCallEach' /\ DOMAIN stack' = DOMAIN stack
        /\ \A k \in DOMAIN stack :
             stack'[k].at = stack[k].at /\ stack'[k].from = stack[k].from
    BY <1>0, <2>1, <2>2, CallAdvances
  <2> QED BY <2>1, <2>2, <2>3 DEF DesCalls, MadeOf
<1>3. CASE DesNew
  <2> DEFINE new == Len(loaded) + 1
  <2>1. /\ stack' = Append(Advanced, [from |-> Stored, at |-> new, slot |-> 1])
        /\ made' = made \cup {<<Stored, new>>} /\ UNCHANGED <<pc, data>>
        /\ Stored \in 3 .. Len(data) /\ new \notin DOMAIN loaded
    BY <1>3, DesNewEffect
  <2>2. pc = "des" /\ stack # <<>> /\ Top.slot <= Slots
    BY <1>3 DEF DesNew, Working
  <2>3. /\ OneCallEach /\ \A k \in DOMAIN stack : MadeOf(stack[k].from, stack[k].at)
    BY <1>0, <2>2 DEF DesCalls
  <2>4. /\ new \in Nat \ {0} /\ Stored \in Froms
    <3>1. Len(data) \in Nat /\ DOMAIN data = 1 .. Len(data) /\ Len(loaded) \in Nat
      BY <1>0, DataType
    <3> QED BY <2>1, <2>2, <3>1 DEF Froms
  <2>5. \A k \in DOMAIN stack : stack[k].at # new
    BY <2>1, <2>2, <2>3, MadeFacts
  <2> HIDE DEF new
  <2>s. Starts(Stored, new)
    BY <2>1 DEF Starts
  <2>6. /\ OneCallEach' /\ DOMAIN stack' = DOMAIN stack \cup {Len(stack) + 1}
        /\ \A k \in DOMAIN stack :
             stack'[k].at = stack[k].at /\ stack'[k].from = stack[k].from
        /\ stack'[Len(stack) + 1].at = new /\ stack'[Len(stack) + 1].from = Stored
    BY <1>0, <2>1, <2>2, <2>3, <2>4, <2>5, <2>s, CallStarts
  <2>7. ASSUME NEW k \in DOMAIN stack'
        PROVE  (stack'[k].from = 1 /\ stack'[k].at = 1)
                 \/ <<stack'[k].from, stack'[k].at>> \in made'
    BY <2>1, <2>3, <2>6 DEF MadeOf
  <2> QED BY <2>1, <2>2, <2>6, <2>7 DEF DesCalls, MadeOf
<1>4. CASE DesReturn
  <2>1. /\ pc = "des" /\ pc' = "des" /\ made' = made /\ stack' = Rest
        /\ stack # <<>> /\ Top.slot > Slots
    BY <1>4 DEF DesReturn, Return
  <2>2. /\ OneCallEach /\ \A k \in DOMAIN stack : MadeOf(stack[k].from, stack[k].at)
    BY <1>0, <2>1 DEF DesCalls
  <2>3. /\ OneCallEach' /\ DOMAIN stack' \subseteq DOMAIN stack
        /\ \A k \in DOMAIN stack' : stack'[k] = stack[k]
    BY <1>0, <2>1, <2>2, CallReturns
  <2> QED BY <2>1, <2>2, <2>3 DEF DesCalls, MadeOf
<1>5. CASE Finish
  BY <1>5 DEF Finish, DesCalls
<1>6. CASE Stopped \/ UNCHANGED vars
  BY <1>0, <1>6 DEF Stopped, vars, DesCalls, OneCallEach, MadeOf
<1> QED BY <1>1, <1>2, <1>3, <1>4, <1>5, <1>6, ReadingBegins DEF Next, Des

(* What is read of a pointer, after the step that sees to it.              *)
LEMMA LoadedStep == IInv /\ [Next]_vars => Loaded'
<1> SUFFICES ASSUME IInv, [Next]_vars, pc' # "ser" PROVE Loaded'
  BY DEF Loaded
<1>0. /\ TypeOK /\ Loaded /\ SerCalls /\ DesCalls /\ OneToOne
      /\ Len(loaded) \in Nat /\ DOMAIN loaded = 1 .. Len(loaded)
  BY DataType DEF IInv
<1>w. ASSUME pc # "ser", NEW p \in Positions, NEW q \in DOMAIN loaded,
             NEW s \in Pointers, MadeOf(p, q)
      PROVE  IF IsRead(q, s) THEN Resolves(p, q, s) ELSE loaded[q].slots[s] = Empty
  BY <1>0, <1>w DEF Loaded
(* The other pointers are as they were.                                    *)
<1>o. ASSUME pc # "ser", data' = data, made \subseteq made',
             NEW p \in Positions, NEW q \in DOMAIN loaded, NEW s \in Pointers,
             MadeOf(p, q), IsRead(q, s)' <=> IsRead(q, s),
             loaded'[q].slots[s] = loaded[q].slots[s]
      PROVE  IF IsRead(q, s)' THEN Resolves(p, q, s)' ELSE loaded'[q].slots[s] = Empty
  <2>1. Resolves(p, q, s) => Resolves(p, q, s)'
    BY <1>o DEF Resolves
  <2> QED BY <1>o, <1>w, <2>1
<1>1. CASE Reopen
  <2>1. /\ pc' = "des" /\ stack' = <<[from |-> 1, at |-> 1, slot |-> 1]>> /\ made' = {}
        /\ loaded' = <<[content |-> data[1].content, slots |-> NoPointers]>>
    BY <1>0, <1>1 DEF Reopen, SerCalls
  <2>2. \A s \in Pointers : loaded'[1].slots[s] = Empty
    BY <2>1 DEF NoPointers, Pointers
  <2>3. ASSUME NEW s \in Pointers PROVE ~ IsRead(1, s)'
    <3>1. ~ (s < 1)
      BY SerializeAssumption DEF Pointers
    <3>2. 1 \in DOMAIN stack' /\ stack'[1].at = 1 /\ stack'[1].slot = 1
      BY <2>1
    <3> QED BY <2>1, <3>1, <3>2 DEF IsRead, Handled
  <2>4. \A p, q : MadeOf(p, q)' => q = 1
    BY <2>1 DEF MadeOf
  <2> QED BY <2>2, <2>3, <2>4 DEF Loaded
<1>2. CASE DesNull
  <2>1. /\ stack' = Advanced /\ Working("des") /\ Stored = Empty /\ pc # "ser"
        /\ UNCHANGED <<pc, data, loaded, made>>
    BY <1>2 DEF DesNull, Working
  <2>2. /\ pc = "des" /\ stack # <<>> /\ Top.slot <= Slots /\ OneCallEach
        /\ MadeOf(Top.from, Top.at)
        /\ Top.slot \in Pointers /\ Stored = data[Top.from].slots[Top.slot]
    BY <2>1, DesFacts
  <2>3. /\ \A q, s : s \in Pointers =>
             (IsRead(q, s)' <=> IsRead(q, s) \/ (q = Top.at /\ s = Top.slot))
        /\ ~ IsRead(Top.at, Top.slot)
    BY <1>0, <2>1, <2>2, CallAdvances DEF IsRead
  <2>4. ASSUME NEW p \in Positions, NEW q \in DOMAIN loaded, NEW s \in Pointers,
               MadeOf(p, q)
        PROVE  IF IsRead(q, s)' THEN Resolves(p, q, s)' ELSE loaded'[q].slots[s] = Empty
    <3>1. CASE q = Top.at /\ s = Top.slot
      <4>1. p = Top.from
        BY <2>1, <2>2, <2>4, <3>1, MadeFacts
      <4>2. loaded[q].slots[s] = Empty
        BY <1>w, <2>1, <2>3, <2>4, <3>1
      <4> QED BY <2>1, <2>2, <2>3, <3>1, <4>1, <4>2 DEF Resolves
    <3>2. CASE ~ (q = Top.at /\ s = Top.slot)
      BY <1>o, <2>1, <2>3, <2>4, <3>2
    <3> QED BY <3>1, <3>2
  <2>5. Positions' = Positions /\ \A p, q : MadeOf(p, q)' => MadeOf(p, q)
    BY <2>1 DEF Positions, MadeOf
  <2> QED BY <2>1, <2>4, <2>5 DEF Loaded
<1>3. CASE DesKnown
  <2> DEFINE v == In(made, Stored)
  <2>1. /\ stack' = Advanced /\ Stored # Empty /\ UNCHANGED <<pc, data, made>>
        /\ DOMAIN loaded' = DOMAIN loaded
        /\ <<Stored, v>> \in made
        /\ \A q \in DOMAIN loaded, r \in Pointers :
             loaded'[q].slots[r] = IF q = Top.at /\ r = Top.slot THEN v
                                   ELSE loaded[q].slots[r]
    BY <1>3, DesKnownEffect
  <2>2. /\ pc = "des" /\ stack # <<>> /\ Top.slot <= Slots /\ OneCallEach
        /\ MadeOf(Top.from, Top.at) /\ pc # "ser"
        /\ Top.slot \in Pointers /\ Stored = data[Top.from].slots[Top.slot]
    BY <1>3, DesFacts DEF DesKnown
  <2> HIDE DEF v
  <2>3. /\ \A q, s : s \in Pointers =>
             (IsRead(q, s)' <=> IsRead(q, s) \/ (q = Top.at /\ s = Top.slot))
    BY <1>0, <2>1, <2>2, CallAdvances DEF IsRead
  <2>4. ASSUME NEW p \in Positions, NEW q \in DOMAIN loaded, NEW s \in Pointers,
               MadeOf(p, q)
        PROVE  IF IsRead(q, s)' THEN Resolves(p, q, s)' ELSE loaded'[q].slots[s] = Empty
    <3>1. CASE q = Top.at /\ s = Top.slot
      <4>1. p = Top.from
        BY <2>2, <2>4, <3>1, MadeFacts
      <4> QED BY <2>1, <2>2, <2>3, <3>1, <4>1 DEF Resolves
    <3>2. CASE ~ (q = Top.at /\ s = Top.slot)
      BY <1>o, <2>1, <2>2, <2>3, <2>4, <3>2
    <3> QED BY <3>1, <3>2
  <2>5. Positions' = Positions /\ \A p, q : MadeOf(p, q)' => MadeOf(p, q)
    BY <2>1 DEF Positions, MadeOf
  <2> QED BY <2>1, <2>4, <2>5 DEF Loaded
<1>4. CASE DesNew
  <2> DEFINE new == Len(loaded) + 1
  <2>1. /\ stack' = Append(Advanced, [from |-> Stored, at |-> new, slot |-> 1])
        /\ made' = made \cup {<<Stored, new>>} /\ UNCHANGED <<pc, data>>
        /\ Stored # Empty /\ Stored \in 3 .. Len(data)
        /\ DOMAIN loaded' = DOMAIN loaded \cup {new} /\ new \notin DOMAIN loaded
        /\ \A r \in Pointers : loaded'[new].slots[r] = Empty
        /\ \A q \in DOMAIN loaded, r \in Pointers :
             loaded'[q].slots[r] = IF q = Top.at /\ r = Top.slot THEN new
                                   ELSE loaded[q].slots[r]
    BY <1>4, DesNewEffect
  <2>2. /\ pc = "des" /\ stack # <<>> /\ Top.slot <= Slots /\ OneCallEach
        /\ MadeOf(Top.from, Top.at) /\ pc # "ser" /\ Top.at \in DOMAIN loaded
        /\ Top.slot \in Pointers /\ Stored = data[Top.from].slots[Top.slot]
    BY <1>4, DesFacts DEF DesNew
  <2>3. /\ new \in Nat \ {0} /\ Stored \in Froms /\ new # 1
    <3>1. /\ Len(data) \in Nat /\ DOMAIN data = 1 .. Len(data)
      BY <1>0, DataType
    <3>2. 1 \in DOMAIN loaded
      BY <2>2, MadeFacts
    <3>3. new \in Nat \ {0} /\ new # 1
      <4>1. Len(loaded) \in Nat /\ DOMAIN loaded = 1 .. Len(loaded)
        BY <1>0, DataType
      <4> QED BY <3>2, <4>1
    <3> QED BY <2>1, <3>1, <3>3 DEF Froms
  <2>4. \A k \in DOMAIN stack : stack[k].at # new
    <3>1. \A k \in DOMAIN stack : MadeOf(stack[k].from, stack[k].at)
      BY <1>0, <2>2 DEF DesCalls
    <3> QED BY <2>1, <2>2, <3>1, MadeFacts
  <2> HIDE DEF new
  <2>s. Starts(Stored, new)
    BY <2>1 DEF Starts
  <2>5. /\ \A q, s : s \in Pointers =>
             (IsRead(q, s)' <=>
                q # new /\ (IsRead(q, s) \/ (q = Top.at /\ s = Top.slot)))
    <3>1. \A q, s : s \in Pointers =>
            (Handled(q, s)' <=> q # new /\ (Handled(q, s) \/ (q = Top.at /\ s = Top.slot)))
      BY <1>0, <2>2, <2>3, <2>4, <2>s, CallStarts
    <3>2. pc = "des" /\ pc' = "des"
      BY <2>1, <2>2
    <3> QED BY <3>1, <3>2 DEF IsRead
  <2>6. ASSUME NEW p \in Positions, NEW q \in DOMAIN loaded, NEW s \in Pointers,
               MadeOf(p, q)
        PROVE  IF IsRead(q, s)' THEN Resolves(p, q, s)' ELSE loaded'[q].slots[s] = Empty
    <3>0. q # new
      BY <2>1
    <3>1. CASE q = Top.at /\ s = Top.slot
      <4>1. p = Top.from
        BY <2>2, <2>6, <3>1, MadeFacts
      <4>2. loaded'[q].slots[s] = new /\ data'[p].slots[s] = Stored
        BY <2>1, <2>2, <3>1, <4>1
      <4> QED BY <2>1, <2>2, <2>5, <3>0, <3>1, <4>2 DEF Resolves
    <3>2. CASE ~ (q = Top.at /\ s = Top.slot)
      BY <1>o, <2>1, <2>2, <2>5, <2>6, <3>0, <3>2
    <3> QED BY <3>1, <3>2
  <2>7. ASSUME NEW p, NEW q \in DOMAIN loaded, MadeOf(p, q)' PROVE MadeOf(p, q)
    <3>1. q # new
      BY <2>1
    <3> QED BY <2>1, <2>7, <3>1 DEF MadeOf
  <2>8. ASSUME NEW p \in Positions', NEW q \in DOMAIN loaded', NEW s \in Pointers,
               MadeOf(p, q)'
        PROVE  IF IsRead(q, s)' THEN Resolves(p, q, s)' ELSE loaded'[q].slots[s] = Empty
    <3>1. CASE q = new
      BY <2>1, <2>5, <3>1
    <3>2. CASE q \in DOMAIN loaded
      <4>1. p \in Positions
        BY <2>1, <2>8 DEF Positions
      <4> QED BY <2>6, <2>7, <2>8, <3>2, <4>1
    <3> QED BY <2>1, <2>8, <3>1, <3>2
  <2> QED BY <2>8 DEF Loaded
<1>5. CASE DesReturn
  <2>1. /\ pc = "des" /\ stack' = Rest /\ stack # <<>> /\ Top.slot > Slots
        /\ UNCHANGED <<pc, data, loaded, made>>
    BY <1>5 DEF DesReturn, Return
  <2>2. \A q, s : s \in Pointers => (IsRead(q, s)' <=> IsRead(q, s))
    BY <1>0, <2>1, CallReturns DEF DesCalls, IsRead
  <2>3. ASSUME NEW p \in Positions, NEW q \in DOMAIN loaded, NEW s \in Pointers,
               MadeOf(p, q)
        PROVE  IF IsRead(q, s)' THEN Resolves(p, q, s)' ELSE loaded'[q].slots[s] = Empty
    BY <1>o, <2>1, <2>2, <2>3
  <2>4. Positions' = Positions /\ \A p, q : MadeOf(p, q)' => MadeOf(p, q)
    BY <2>1 DEF Positions, MadeOf
  <2> QED BY <2>1, <2>3, <2>4 DEF Loaded
<1>6. CASE Finish \/ Stopped \/ UNCHANGED vars
  <2>1. pc # "ser" /\ UNCHANGED <<data, loaded, made>>
    BY <1>6, NothingMade
  <2>2. \A q, s : s \in Pointers => (IsRead(q, s)' <=> IsRead(q, s))
    BY <1>6 DEF Finish, Stopped, vars, IsRead, Handled
  <2>3. ASSUME NEW p \in Positions, NEW q \in DOMAIN loaded, NEW s \in Pointers,
               MadeOf(p, q)
        PROVE  IF IsRead(q, s)' THEN Resolves(p, q, s)' ELSE loaded'[q].slots[s] = Empty
    BY <1>o, <2>1, <2>2, <2>3
  <2>4. Positions' = Positions /\ \A p, q : MadeOf(p, q)' => MadeOf(p, q)
    BY <2>1 DEF Positions, MadeOf
  <2> QED BY <2>1, <2>3, <2>4 DEF Loaded
<1> QED BY <1>1, <1>2, <1>3, <1>4, <1>5, <1>6, ReadingBegins DEF Next, Des

(* The inductive invariant of both walks.                                  *)
THEOREM Invariance == Spec => []IInv
<1>1. Init => IInv
  BY InitIInv
<1>2. IInv /\ [Next]_vars => IInv'
  BY TypeStep, BlocksStep, SerCallsStep, WrittenStep, ReachedStep, OneToOneStep,
     DesCallsStep, LoadedStep DEF IInv
<1> QED BY <1>1, <1>2, PTL DEF Spec

-----------------------------------------------------------------------------
(* The heap has its objects, the processor and the technology.             *)
LEMMA HeapSize ==
  IsFiniteSet(Heap) /\ Cardinality(Heap) = Cardinality(Objects) + 2
<1>1. IsFiniteSet(Objects) /\ Cardinality(Objects) \in Nat
  BY SerializeAssumption, FS_CardinalityType
<1> DEFINE S == Objects \cup {Processor}
<1>2. IsFiniteSet(S) /\ Cardinality(S) = Cardinality(Objects) + 1
  BY <1>1, ThreeNames, FS_AddElement
<1>3. Tech \notin S
  BY ThreeNames
<1>4. Heap = S \cup {Tech}
  BY DEF Heap
<1> HIDE DEF S
<1>5. IsFiniteSet(S \cup {Tech}) /\ Cardinality(S \cup {Tech}) = Cardinality(S) + 1
  BY <1>2, <1>3, FS_AddElement
<1> QED BY <1>1, <1>2, <1>4, <1>5

(* There are n numbers up to n.                                            *)
LEMMA UpToSize ==
  ASSUME NEW n \in Nat
  PROVE  IsFiniteSet(1 .. n) /\ Cardinality(1 .. n) = n
BY FS_Interval

(* A walk with a different object in each call is no deeper than the heap. *)
LEMMA NoDeeper ==
  ASSUME NEW n \in Nat, NEW f \in [1 .. n -> Heap],
         \A k, l \in 1 .. n : f[k] = f[l] => k = l
  PROVE  n <= Cardinality(Objects) + 2
<1>1. f \in Injection(1 .. n, Heap)
  BY DEF Injection, IsInjective
<1>2. Cardinality(1 .. n) <= Cardinality(Heap)
  BY <1>1, HeapSize, FS_Injection
<1>3. Cardinality(1 .. n) = n
  BY UpToSize
<1> QED BY <1>2, <1>3, HeapSize

(* The objects made are different ones.                                    *)
LEMMA LoadedOnce ==
  ASSUME IInv, NEW i \in DOMAIN loaded, NEW j \in DOMAIN loaded,
         loaded[i].content = loaded[j].content
  PROVE  i = j
<1>1. pc # "ser"
  BY DEF IInv, SerCalls
<1>2. DOMAIN loaded = 1 .. Len(loaded) /\ Len(loaded) \in Nat
  BY DataType DEF IInv
<1>3. ASSUME NEW q \in DOMAIN loaded PROVE \E p : MadeOf(p, q)
  <2>1. q = 1 \/ q \in 2 .. Len(loaded)
    BY <1>2
  <2> QED BY <1>1, <2>1 DEF IInv, OneToOne, MadeOf
<1>4. PICK p : MadeOf(p, i)
  BY <1>3
<1>5. PICK r : MadeOf(r, j)
  BY <1>3
<1>6. /\ p \in Positions /\ r \in Positions
      /\ data[p].content = loaded[i].content /\ data[r].content = loaded[j].content
  BY <1>1, <1>4, <1>5, MadeFacts
<1>7. p = r
  BY <1>6 DEF IInv, Blocks
<1> QED BY <1>1, <1>4, <1>5, <1>7, MadeFacts

(* The calls of a walk are at different objects.                           *)
LEMMA DepthBound ==
  ASSUME IInv
  PROVE  Len(stack) <= Cardinality(Objects) + 2
<1>0. /\ TypeOK /\ Len(stack) \in Nat /\ DOMAIN stack = 1 .. Len(stack)
  <2>1. TypeOK
    BY DEF IInv
  <2>2. \E S : stack \in Seq(S)
    BY <2>1 DEF TypeOK
  <2> QED BY <2>1, <2>2
<1>1. CASE pc = "ser"
  <2>1. /\ OneCallEach
        /\ \A k \in DOMAIN stack :
             stack[k].at \in Positions /\ stack[k].from = data[stack[k].at].content
    BY <1>1 DEF IInv, SerCalls
  <2> DEFINE f == [k \in 1 .. Len(stack) |-> data[stack[k].at].content]
  <2>2. f \in [1 .. Len(stack) -> Heap]
    BY <1>0, <2>1, DataType DEF Positions
  <2>3. ASSUME NEW k \in 1 .. Len(stack), NEW l \in 1 .. Len(stack), f[k] = f[l]
        PROVE  k = l
    <3>1. stack[k].at = stack[l].at
      BY <1>0, <2>1, <2>3 DEF IInv, Blocks
    <3> QED BY <1>0, <2>1, <3>1 DEF OneCallEach
  <2> HIDE DEF f
  <2> QED BY <1>0, <2>2, <2>3, NoDeeper
<1>2. CASE pc = "des"
  <2>1. /\ OneCallEach
        /\ \A k \in DOMAIN stack : MadeOf(stack[k].from, stack[k].at)
    BY <1>2 DEF IInv, DesCalls
  <2>2. \A k \in DOMAIN stack :
          /\ stack[k].at \in DOMAIN loaded /\ stack[k].from \in DOMAIN data
          /\ loaded[stack[k].at].content = data[stack[k].from].content
    BY <1>2, <2>1, MadeFacts DEF Positions
  <2> DEFINE f == [k \in 1 .. Len(stack) |-> loaded[stack[k].at].content]
  <2>3. f \in [1 .. Len(stack) -> Heap]
    BY <1>0, <2>2, DataType
  <2>4. ASSUME NEW k \in 1 .. Len(stack), NEW l \in 1 .. Len(stack), f[k] = f[l]
        PROVE  k = l
    <3>1. stack[k].at = stack[l].at
      BY <1>0, <2>2, <2>4, LoadedOnce
    <3> QED BY <1>0, <2>1, <3>1 DEF OneCallEach
  <2> HIDE DEF f
  <2> QED BY <1>0, <2>3, <2>4, NoDeeper
<1>3. CASE pc = "done"
  <2>1. stack = <<>>
    BY <1>3 DEF IInv, DesCalls
  <2>2. Len(stack) = 0
    BY <2>1
  <2>3. Cardinality(Objects) \in Nat
    BY SerializeAssumption, FS_CardinalityType
  <2> QED BY <2>2, <2>3
<1> QED BY <1>0, <1>1, <1>2, <1>3 DEF TypeOK

(* serdes<const U *>::ser() and des(): whatever the pointers, an object    *)
(* gets one block and one copy, the recursion ends below an object it is   *)
(* already at, and it is never deeper than there are objects.              *)
THEOREM EachOnceCorrect == Spec => []EachOnce
<1>1. ASSUME IInv PROVE EachOnce
  <2>1. TypeOK
    BY <1>1 DEF IInv
  <2>2. \A i, j \in DOMAIN data \ {2} : i # j => data[i].content # data[j].content
    BY <1>1 DEF IInv, Blocks, Positions
  <2>3. \A i, j \in DOMAIN loaded : i # j => loaded[i].content # loaded[j].content
    BY <1>1, LoadedOnce
  <2> QED BY <1>1, <2>1, <2>2, <2>3, DepthBound DEF EachOnce
<1> QED BY <1>1, Invariance, PTL

-----------------------------------------------------------------------------
Before == {ss \in Nat \X Nat : ss[1] < ss[2]}

(* The order of the positions is well founded.                             *)
LEMMA BeforeWellFounded == IsWellFoundedOn(Before, Nat)
  BY NatLessThanWellFounded DEF OpToRel, Before

(* Some positions have a first.                                            *)
LEMMA SmallestPosition ==
  ASSUME NEW T, T \subseteq Nat, T # {}
  PROVE  \E x \in T : \A y \in T : x <= y
<1>1. PICK x \in T : \A y \in T : ~ (<<y, x>> \in Before)
  BY BeforeWellFounded, WFMin
<1>2. ASSUME NEW y \in T PROVE x <= y
  <2>1. x \in Nat /\ y \in Nat
    OBVIOUS
  <2>2. ~ (y < x)
    BY <1>1, <2>1 DEF Before
  <2> QED BY <2>1, <2>2
<1> QED BY <1>2

(* When both walks are over, every pointer was seen to.                    *)
LEMMA AllSeenTo ==
  ASSUME IInv, pc = "done"
  PROVE  /\ \A p \in Positions, s \in Pointers : PointsTo(p, s)
         /\ \A p \in Positions, q \in DOMAIN loaded, s \in Pointers :
              MadeOf(p, q) => Resolves(p, q, s)
BY DEF IInv, Written, IsWritten, Loaded, IsRead

(* No block is left out: the first one that were has an earlier one that   *)
(* points to it and was made.                                              *)
LEMMA EveryBlockMade ==
  ASSUME IInv, pc = "done", NEW p \in Positions
  PROVE  \E q \in DOMAIN loaded : MadeOf(p, q)
<1> DEFINE Unmade == {r \in Positions : \A q \in DOMAIN loaded : ~ MadeOf(r, q)}
<1>0. /\ TypeOK /\ Blocks /\ Reached /\ 1 \in DOMAIN loaded
      /\ Len(data) \in Nat /\ DOMAIN data = 1 .. Len(data)
  BY DataType, MadeFacts DEF IInv
<1>1. ASSUME Unmade # {} PROVE FALSE
  <2>1. Unmade \subseteq Nat
    BY <1>0 DEF Positions
  <2> HIDE DEF Unmade
  <2>2. PICK x \in Unmade : \A y \in Unmade : x <= y
    BY <1>1, <2>1, SmallestPosition
  <2> USE DEF Unmade
  <2>3. x \in Positions /\ \A q \in DOMAIN loaded : ~ MadeOf(x, q)
    BY <2>2
  <2>4. x # 1
    BY <1>0, <2>3 DEF MadeOf
  <2>5. x \in 3 .. Len(data)
    BY <1>0, <2>3, <2>4 DEF Positions
  <2>6. PICK r \in Positions, s \in Pointers : r < x /\ data[r].slots[s] = x
    BY <1>0, <2>5 DEF Reached
  <2>7. r \notin Unmade
    <3>1. r \in Nat /\ x \in Nat /\ ~ (x <= r)
      BY <1>0, <2>3, <2>6 DEF Positions
    <3> HIDE DEF Unmade
    <3> QED BY <2>2, <3>1
  <2>8. PICK q \in DOMAIN loaded : MadeOf(r, q)
    BY <2>6, <2>7
  <2>9. x # Empty
    BY <1>0, <2>5 DEF Empty
  <2>10. <<x, loaded[q].slots[s]>> \in made
    BY <2>6, <2>8, <2>9, AllSeenTo DEF Resolves
  <2>11. MadeOf(x, loaded[q].slots[s])
    BY <2>10 DEF MadeOf
  <2>12. loaded[q].slots[s] \in DOMAIN loaded
    BY <2>11, MadeFacts
  <2> QED BY <2>3, <2>11, <2>12
<1> QED BY <1>1

(* What the two maps lead to is the object made of the block.              *)
LEMMA ImageOf ==
  ASSUME IInv, pc = "done", NEW p \in Positions, NEW q, MadeOf(p, q)
  PROVE  Image(data[p].content) = q
<1>0. /\ TypeOK /\ Blocks /\ OneToOne
      /\ Len(data) \in Nat /\ DOMAIN data = 1 .. Len(data)
  BY DataType DEF IInv
<1>1. CASE p = 1
  <2>1. data[p].content = Processor /\ MadeOf(p, 1)
    BY <1>0, <1>1 DEF Blocks, MadeOf
  <2>2. q = 1
    BY <2>1, MadeFacts
  <2> QED BY <2>1, <2>2 DEF Image
<1>2. CASE p # 1
  <2>1. p \in 3 .. Len(data) /\ <<p, q>> \in made
    BY <1>0, <1>2 DEF Positions, MadeOf
  <2>2. data[p].content # Processor
    BY <1>0, <2>1, ThreeNames DEF Blocks
  <2> DEFINE e == <<data[p].content, p>>
             f == <<p, q>>
  <2>3. e \in blocks /\ f \in made /\ e[1] = data[p].content /\ e[2] = p
        /\ f[1] = p /\ f[2] = q
    BY <1>0, <2>1 DEF Blocks
  <2>4. ASSUME NEW g \in blocks, g[1] = e[1] PROVE g = e
    <3>1. PICK r \in 3 .. Len(data) : g = <<data[r].content, r>>
      BY <1>0 DEF Blocks
    <3>2. r \in Positions /\ data[r].content = data[p].content
      BY <1>0, <2>4, <3>1 DEF Positions
    <3>3. r = p
      BY <1>0, <3>2 DEF Blocks
    <3> QED BY <3>1, <3>3
  <2>5. \A g \in made : g[1] = f[1] => g = f
    BY <1>0, <2>3 DEF OneToOne
  <2> HIDE DEF e, f
  <2>6. In(blocks, e[1]) = e[2] /\ In(made, f[1]) = f[2]
    BY <2>3, <2>4, <2>5, FoundIn
  <2> QED BY <2>2, <2>3, <2>6 DEF Image
<1> QED BY <1>1, <1>2

Met == {Processor} \cup {e[1] : e \in blocks}

(* The objects met are those that have records.                            *)
LEMMA MetContents ==
  ASSUME IInv
  PROVE  Met = {data[p].content : p \in Positions}
<1>0. /\ Blocks /\ Len(data) \in Nat /\ DOMAIN data = 1 .. Len(data)
  BY DataType DEF IInv
<1>1. /\ 1 \in Positions /\ data[1].content = Processor
      /\ \A p : p \in Positions <=> p = 1 \/ p \in 3 .. Len(data)
  BY <1>0 DEF Blocks, Positions
<1>2. blocks = {<<data[p].content, p>> : p \in 3 .. Len(data)}
  BY <1>0 DEF Blocks
<1>3. {e[1] : e \in blocks} = {data[p].content : p \in 3 .. Len(data)}
  <2>1. ASSUME NEW p \in 3 .. Len(data)
        PROVE  data[p].content \in {e[1] : e \in blocks}
    <3>1. <<data[p].content, p>> \in blocks
      BY <1>2
    <3>2. <<data[p].content, p>>[1] = data[p].content
      OBVIOUS
    <3> QED BY <3>1, <3>2
  <2>2. ASSUME NEW e \in blocks
        PROVE  e[1] \in {data[p].content : p \in 3 .. Len(data)}
    <3>1. PICK p \in 3 .. Len(data) : e = <<data[p].content, p>>
      BY <1>2
    <3>2. e[1] = data[p].content
      BY <3>1
    <3> QED BY <3>2
  <2> QED BY <2>1, <2>2
<1> QED BY <1>1, <1>3 DEF Met

(* deserialize(serialize(proc)): the loaded graph is the saved one.        *)
THEOREM SameGraphCorrect == Spec => []SameGraph
<1>1. ASSUME IInv PROVE SameGraph
  <2> SUFFICES ASSUME pc = "done"
               PROVE  /\ Len(loaded) = Cardinality(Met)
                      /\ \A o \in Met :
                           /\ loaded[Image(o)].content = o
                           /\ \A s \in 1 .. Slots :
                                IF heap[o][s] = Null
                                THEN loaded[Image(o)].slots[s] = Empty
                                ELSE /\ heap[o][s] \in Met
                                     /\ loaded[Image(o)].slots[s] = Image(heap[o][s])
    BY DEF SameGraph, Met
  <2>0. /\ TypeOK /\ Blocks /\ Len(loaded) \in Nat /\ DOMAIN loaded = 1 .. Len(loaded)
        /\ Len(data) \in Nat /\ DOMAIN data = 1 .. Len(data)
    BY <1>1, DataType DEF IInv
  <2>1. Met = {data[p].content : p \in Positions}
    BY <1>1, MetContents
  <2>2. ASSUME NEW p \in Positions
        PROVE  MadeOf(p, Image(data[p].content)) /\ Image(data[p].content) \in DOMAIN loaded
    <3>1. PICK q \in DOMAIN loaded : MadeOf(p, q)
      BY <1>1, EveryBlockMade
    <3> QED BY <1>1, <3>1, ImageOf
  <2>3. ASSUME NEW p \in Positions
        PROVE  loaded[Image(data[p].content)].content = data[p].content
    BY <1>1, <2>2, MadeFacts
  <2>4. ASSUME NEW p \in Positions, NEW o, o = data[p].content, NEW s \in Pointers
        PROVE  IF heap[o][s] = Null THEN loaded[Image(o)].slots[s] = Empty
               ELSE heap[o][s] \in Met /\ loaded[Image(o)].slots[s] = Image(heap[o][s])
    <3> DEFINE b == data[p].slots[s]
               t == loaded[Image(o)].slots[s]
    <3>1. PointsTo(p, s) /\ Resolves(p, Image(o), s)
      BY <1>1, <2>2, <2>4, AllSeenTo
    <3>2. CASE heap[o][s] = Null
      <4>1. b = Empty
        BY <2>4, <3>1, <3>2 DEF PointsTo
      <4> QED BY <3>1, <3>2, <4>1 DEF Resolves
    <3>3. CASE heap[o][s] # Null
      <4>1. b \in 3 .. Len(data) /\ data[b].content = heap[o][s]
        BY <2>4, <3>1, <3>3 DEF PointsTo
      <4>2. b \in Positions /\ b # Empty
        BY <2>0, <4>1 DEF Positions, Empty
      <4>3. <<b, t>> \in made
        BY <3>1, <4>2 DEF Resolves
      <4>4. MadeOf(b, t)
        BY <4>3 DEF MadeOf
      <4>5. Image(data[b].content) = t
        BY <1>1, <4>2, <4>4, ImageOf
      <4> QED BY <2>1, <3>3, <4>1, <4>2, <4>5
    <3> QED BY <3>2, <3>3
  <2>5. Len(loaded) = Cardinality(Met)
    <3> DEFINE f == [q \in 1 .. Len(loaded) |-> loaded[q].content]
    <3>1. \A q \in DOMAIN loaded : \E p \in Positions : loaded[q].content = data[p].content
      <4>1. ASSUME NEW q \in DOMAIN loaded PROVE \E p : MadeOf(p, q)
        <5>1. q = 1 \/ q \in 2 .. Len(loaded)
          BY <2>0
        <5> QED BY <1>1, <5>1 DEF IInv, OneToOne, MadeOf
      <4> QED BY <1>1, <4>1, MadeFacts
    <3>2. f \in [1 .. Len(loaded) -> Met]
      BY <2>0, <2>1, <3>1
    <3>3. \A o \in Met : \E q \in 1 .. Len(loaded) : f[q] = o
      BY <2>0, <2>1, <2>2, <2>3
    <3>4. \A q, r \in 1 .. Len(loaded) : f[q] = f[r] => q = r
      BY <1>1, <2>0, LoadedOnce
    <3> HIDE DEF f
    <3>5. f \in Bijection(1 .. Len(loaded), Met)
      BY <3>2, <3>3, <3>4 DEF Bijection, Injection, IsInjective, Surjection
    <3>6. IsFiniteSet(1 .. Len(loaded)) /\ Cardinality(1 .. Len(loaded)) = Len(loaded)
      BY <2>0, UpToSize
    <3>7. ExistsBijection(1 .. Len(loaded), Met)
      BY <3>5 DEF ExistsBijection
    <3> QED BY <3>6, <3>7, FS_Bijection
  <2> QED BY <2>1, <2>3, <2>4, <2>5 DEF Pointers
<1> QED BY <1>1, Invariance, PTL
=============================================================================
