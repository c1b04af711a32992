-------------------------------- MODULE Slots --------------------------------
(***************************************************************************)
(* Values in the native slots of a compiled function (c_abi.cpp).  A slot   *)
(* holds a Variant; an array is shared and counted, and lives as long as a  *)
(* slot or another array refers to it.  Every operation may be given the    *)
(* same slot as its destination and as an operand, and the destination may  *)
(* hold the last reference to what is being read.                           *)
(*                                                                          *)
(* An operation is one step whose effects are applied in the code's order   *)
(* to a record of the memory, so that reading what was just freed shows.    *)
(***************************************************************************)
EXTENDS Integers, Sequences, FiniteSets

CONSTANTS
  Locals,     \* slots of the function
  Addresses,  \* bound: arrays that can be alive at once
  MaxLen      \* bound: elements of an array

SlotsParameters ==
  /\ IsFiniteSet(Locals) /\ IsFiniteSet(Addresses)
  /\ Addresses \subseteq Nat /\ MaxLen \in Nat

Nil == [type |-> "nil", data |-> 0]
Number(n) == [type |-> "int", data |-> n]
ArrayAt(a) == [type |-> "array", data |-> a]
IsArray(v) == v.type = "array"

VARIABLES
  memory,  \* slot: the slots; array: elements; refs: references; fault: freed memory was read
  failed,  \* GJContext::failed
  right    \* ghost: the last operation gave what its operands said before it

slotVars == <<memory, failed, right>>

SlotsInit ==
  /\ memory = [slot |-> [s \in Locals |-> Nil], array |-> [a \in Addresses |-> <<>>],
               refs |-> [a \in Addresses |-> 0], fault |-> FALSE]
  /\ failed = FALSE /\ right = TRUE

-----------------------------------------------------------------------------
(* References, as the engine counts them.                                   *)

\* How many of some values are a given array.
Count(values, a) == Cardinality({i \in DOMAIN values : values[i] = ArrayAt(a)})

\* Every value of a sequence is copied.
Retain(m, values) ==
  [m EXCEPT !.refs = [a \in Addresses |-> m.refs[a] + Count(values, a)],
            !.fault = @ \/ \E a \in Addresses : m.refs[a] = 0 /\ Count(values, a) # 0]

\* The first of the values that are left is destroyed.  The last reference to an array takes
\* it along, and its elements are destroyed before what follows.
DestroyFirst(state) ==
  LET m == state.memory
      v == Head(state.left)
      rest == Tail(state.left)
  IN IF state.left = <<>> THEN state
     ELSE IF ~IsArray(v) THEN [state EXCEPT !.left = rest]
     ELSE IF m.refs[v.data] # 1
          THEN [memory |-> [m EXCEPT !.refs[v.data] = @ - 1, !.fault = @ \/ m.refs[v.data] = 0],
                left |-> rest]
     ELSE [memory |-> [m EXCEPT !.refs[v.data] = 0, !.array[v.data] = <<>>],
           left |-> m.array[v.data] \o rest]

\* Every value of a sequence is destroyed, and all elements of all arrays at most.
Release(m, values) ==
  LET most == Len(values) + Cardinality(Addresses) * MaxLen
      after[n \in 0..most] ==
        IF n = 0 THEN [memory |-> m, left |-> values] ELSE DestroyFirst(after[n - 1])
  IN after[most].memory

\* The elements behind a value, read now.
Read(m, v) == IF m.refs[v.data] = 0 THEN [m EXCEPT !.fault = TRUE] ELSE m
Elements(m, v) == m.array[v.data]

\* gj_clear, and gj_take: the destination is released, then owns what is handed over.
Cleared(m, dst) == [Release(m, <<m.slot[dst]>>) EXCEPT !.slot[dst] = Nil]
Take(m, dst, v) == [Cleared(m, dst) EXCEPT !.slot[dst] = v]

\* A new array of given elements, which it refers to; the caller owns the array.
Unused(m) == {a \in Addresses : m.refs[a] = 0}
Fresh(m) == CHOOSE a \in Unused(m) : \A b \in Unused(m) : a <= b
Build(m, elements) ==
  Retain([m EXCEPT !.refs[Fresh(m)] = 1, !.array[Fresh(m)] = elements], elements)

-----------------------------------------------------------------------------
(* Operations.                                                              *)

Publish(m, correct) == memory' = m /\ right' = correct /\ failed' = FALSE
Fail == failed' = TRUE /\ right' = TRUE /\ UNCHANGED memory
In(s) == memory.slot[s]

\* gj_copy is also what assigns a local; a slot onto itself is left alone.
Copy_Unshared(dst, src) == Publish(Take(memory, dst, In(src)), TRUE)
Copy(dst, src) ==
  IF dst = src THEN Publish(memory, TRUE)
  ELSE LET m == Retain(Cleared(memory, dst), <<In(src)>>)
       IN Publish([m EXCEPT !.slot[dst] = In(src)], TRUE)

DestroySlot(s) == memory' = Cleared(memory, s) /\ right' = TRUE /\ UNCHANGED failed

Literal(dst, n) == Publish(Take(memory, dst, Number(n)), TRUE)

\* What a value owns a snapshot of before the destination is cleared.
Snapshot_AfterClearing(dst, v) == [Retain(Cleared(memory, dst), <<v>>) EXCEPT !.slot[dst] = v]
Snapshot(dst, v) == Take(Retain(memory, <<v>>), dst, v)

\* An index of an array; negative ones count from the end.
Position(elements, i) == IF i >= 0 THEN i + 1 ELSE Len(elements) + i + 1

GetIndexed(dst, self, index) ==
  IF ~(IsArray(In(self)) /\ In(index).type = "int") THEN Fail
  ELSE LET elements == Elements(memory, In(self))
           i == Position(elements, In(index).data)
           m == Snapshot(dst, elements[i])
       IN IF i \notin DOMAIN elements THEN Fail
          ELSE Publish(m, m.slot[dst] = elements[i])

\* gj_array_next: the loop's next element, snapped before item is cleared, "including when
\* it owns the Array".
ArrayNext(item, self, index) ==
  IF ~IsArray(In(self)) THEN Fail
  ELSE LET elements == Elements(memory, In(self))
           i == Position(elements, index)
           m == Snapshot(item, elements[i])
       IN IF index >= Len(elements) THEN Publish(memory, TRUE)
          ELSE IF i \notin DOMAIN elements THEN Fail
          ELSE Publish(m, m.slot[item] = elements[i])

ArraySize(dst, self) ==
  IF ~IsArray(In(self)) THEN Fail
  ELSE LET n == Number(Len(Elements(memory, In(self))))
           m == Take(memory, dst, n)
       IN Publish(m, m.slot[dst] = n)

\* The result of an operator is built apart, then handed over.
Concatenated_InPlace(dst, x, y) ==
  LET cleared == Cleared(memory, dst)
      m == Build(Read(Read(cleared, x), y), Elements(cleared, x) \o Elements(cleared, y))
  IN [m EXCEPT !.slot[dst] = ArrayAt(Fresh(cleared))]
Concatenated(dst, x, y) ==
  LET m == Build(Read(Read(memory, x), y), Elements(memory, x) \o Elements(memory, y))
  IN Take(m, dst, ArrayAt(Fresh(memory)))

Evaluate(dst, x, y) ==
  IF ~(IsArray(In(x)) /\ IsArray(In(y))) THEN Fail
  ELSE LET sum == Elements(memory, In(x)) \o Elements(memory, In(y))
           m == Concatenated(dst, In(x), In(y))
       IN /\ Len(sum) <= MaxLen /\ Unused(memory) # {}
          /\ Publish(m, Elements(m, m.slot[dst]) = sum)

\* The general path publishes with gj_move: a copy of the result, whose own reference ends
\* when the operation returns.
Moved(m, dst, v) == Release(Take(Retain(m, <<v>>), dst, v), <<v>>)

MakeArray(dst, args) ==
  LET values == [k \in DOMAIN args |-> In(args[k])]
      m == Moved(Build(memory, values), dst, ArrayAt(Fresh(memory)))
  IN /\ Len(args) <= MaxLen /\ Unused(memory) # {}
     /\ Publish(m, Elements(m, m.slot[dst]) = values)

\* construct: the engine builds into storage of its own, which is copied and destroyed.
Constructed(m, v) == Release(Retain(Retain(m, <<v>>), <<v>>), <<v>>)

Coerce(dst, x) ==
  IF ~IsArray(In(x)) THEN Fail
  ELSE LET m == Moved(Constructed(memory, In(x)), dst, In(x))
       IN Publish(m, m.slot[dst] = In(x))

\* An element is replaced; what the operation publishes is nil.
Stored(self, i, v) ==
  LET old == memory.array[self.data][i]
  IN Release([Retain(memory, <<v>>) EXCEPT !.array[self.data][i] = v], <<old>>)

SetIndexed(dst, self, index, item) ==
  IF ~(IsArray(In(self)) /\ In(index).type = "int") THEN Fail
  ELSE LET i == Position(Elements(memory, In(self)), In(index).data)
       IN IF i \notin DOMAIN Elements(memory, In(self)) THEN Fail
          ELSE Publish(Cleared(Stored(In(self), i, In(item)), dst), TRUE)

\* A method call may change its receiver; its result is complete before dst is cleared.
\* The popped element's reference passes from the array to the result.
PopBack(dst, self) ==
  LET elements == Elements(memory, self)
      last == elements[Len(elements)]
      m == Take([memory EXCEPT !.array[self.data] = SubSeq(elements, 1, Len(elements) - 1)],
                dst, last)
  IN IF elements = <<>> THEN Publish(Cleared(memory, dst), TRUE)
     ELSE Publish(m, m.slot[dst] = last)

PushBack(dst, self, v) ==
  /\ Len(Elements(memory, self)) < MaxLen
  /\ Publish(Cleared([Retain(memory, <<v>>) EXCEPT !.array[self.data] = Append(@, v)], dst), TRUE)

CallMethod(dst, self, arg) ==
  IF ~IsArray(In(self)) THEN Fail
  ELSE PopBack(dst, In(self)) \/ PushBack(dst, In(self), In(arg))

\* Nothing is computed once an operation has failed.
May == ~failed
Arguments == UNION {[1..n -> Locals] : n \in 0..2}

\* The epilogue destroys the locals, whether or not an operation failed.
Epilogue ==
  /\ failed /\ \A s \in Locals : In(s) = Nil
  /\ failed' = FALSE /\ right' = TRUE /\ UNCHANGED memory

SlotsNext ==
  \/ \E s \in Locals : DestroySlot(s)
  \/ Epilogue
  \/ /\ May
     /\ \/ \E dst, self, index \in Locals : GetIndexed(dst, self, index)
        \/ \E item, self \in Locals, index \in -1..(MaxLen - 1) : ArrayNext(item, self, index)
        \/ \E dst, self \in Locals : ArraySize(dst, self)
        \/ \E dst, x, y \in Locals : Evaluate(dst, x, y)
        \/ \E dst \in Locals, args \in Arguments : MakeArray(dst, args)
        \/ \E dst, x \in Locals : Coerce(dst, x)
        \/ \E dst, self, index, item \in Locals : SetIndexed(dst, self, index, item)
        \/ \E dst, self, arg \in Locals : CallMethod(dst, self, arg)
        \/ \E dst, src \in Locals : Copy(dst, src)
        \/ \E dst \in Locals, n \in {-1, 0} : Literal(dst, n)

SlotsSpec == SlotsInit /\ [][SlotsNext]_slotVars

-----------------------------------------------------------------------------
(* Properties.                                                              *)

Values == {Nil} \cup {Number(n) : n \in -1..MaxLen} \cup {ArrayAt(a) : a \in Addresses}

\* Slots and elements hold values, and counts of references are not negative.
SlotsTypeOK ==
  /\ memory \in [slot : [Locals -> Values], array : [Addresses -> Seq(Values)],
                 refs : [Addresses -> Nat], fault : BOOLEAN]
  /\ \A a \in Addresses : Len(memory.array[a]) <= MaxLen
  /\ failed \in BOOLEAN /\ right \in BOOLEAN

\* The slots, and the elements of arrays, that refer to an array.
SlotsTo(slot, a) == {s \in Locals : slot[s] = ArrayAt(a)}
ElementsTo(array, a) ==
  {p \in Addresses \X (1..MaxLen) :
     p[2] \in DOMAIN array[p[1]] /\ array[p[1]][p[2]] = ArrayAt(a)}
References(a) == Cardinality(SlotsTo(memory.slot, a)) + Cardinality(ElementsTo(memory.array, a))

\* Whatever path an operation takes and whether or not it fails, an array's count is the
\* number of slots and elements that refer to it, so that nothing is leaked or freed twice;
\* and no operation reads, retains or releases an array that is gone, also when its
\* destination held the last reference to what it reads.
Owned ==
  /\ ~memory.fault
  /\ \A a \in Addresses :
       /\ memory.refs[a] = References(a)
       /\ memory.refs[a] = 0 => memory.array[a] = <<>>

\* "Helpers ... publish their result only after reading inputs, preserving
\* destination/input aliasing": the result is the one the operands gave before the step.
ResultIsRight == right
=============================================================================
