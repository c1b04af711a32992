----------------------------- MODULE SlotsProofs -----------------------------
(***************************************************************************)
(* Proofs that operations on slots keep the counts of references exact and  *)
(* compute from what their operands held, for any number of slots and       *)
(* arrays of any length, however slots and elements refer to one another.   *)
(***************************************************************************)
EXTENDS Slots, Iteration, SequenceTheorems, FiniteSetTheorems, TLAPS

-----------------------------------------------------------------------------
(* Counting.                                                                 *)

LEMMA Bijects ==
  ASSUME NEW S, NEW T, IsFiniteSet(S), NEW f \in [S -> T],
         \A x, y \in S : f[x] = f[y] => x = y, \A t \in T : \E x \in S : f[x] = t
  PROVE  IsFiniteSet(T) /\ Cardinality(T) = Cardinality(S)
<1>1. f \in Bijection(S, T)
  BY DEF Bijection, Injection, Surjection, IsInjective
<1>2. ExistsBijection(S, T)
  BY <1>1 DEF ExistsBijection
<1> QED BY <1>2, FS_Bijection

LEMMA Disjoint ==
  ASSUME NEW S, NEW T, IsFiniteSet(S), IsFiniteSet(T), S \cap T = {}
  PROVE  /\ IsFiniteSet(S \cup T)
         /\ Cardinality(S) \in Nat /\ Cardinality(T) \in Nat
         /\ Cardinality(S \cup T) = Cardinality(S) + Cardinality(T)
<1>1. Cardinality(S) \in Nat /\ Cardinality(T) \in Nat
  BY FS_CardinalityType
<1>2. Cardinality(S \cap T) = 0
  BY FS_EmptySet
<1>3. IsFiniteSet(S \cup T) /\ Cardinality(S \cup T) = Cardinality(S) + Cardinality(T) - Cardinality(S \cap T)
  BY FS_Union
<1> QED BY <1>1, <1>2, <1>3

\* Where a sequence has one of some values.
Places(s, V) == {i \in 1..Len(s) : s[i] \in V}

LEMMA PlacesFinite ==
  ASSUME NEW s \in Seq(Values), NEW V
  PROVE  IsFiniteSet(Places(s, V)) /\ Cardinality(Places(s, V)) \in Nat
<1>1. IsFiniteSet(1..Len(s))
  BY FS_Interval
<1>2. Places(s, V) \in SUBSET (1..Len(s))
  BY DEF Places
<1> QED BY <1>1, <1>2, FS_Subset, FS_CardinalityType

LEMMA PlacesJoined ==
  ASSUME NEW s \in Seq(Values), NEW t \in Seq(Values), NEW V
  PROVE  Cardinality(Places(s \o t, V)) = Cardinality(Places(s, V)) + Cardinality(Places(t, V))
<1> DEFINE n == Len(s)
           S == Places(s, V)
           T == Places(t, V)
           U == {i \in (n + 1)..(n + Len(t)) : t[i - n] \in V}
           f == [i \in T |-> n + i]
<1>1. n \in Nat /\ Len(t) \in Nat
  OBVIOUS
<1>2. Places(s \o t, V) = S \cup U /\ S \cap U = {}
  <2>1. Len(s \o t) = n + Len(t)
    BY ConcatProperties
  <2>2. \A i \in 1..n : (s \o t)[i] = s[i]
    BY ConcatProperties
  <2>3. \A i \in (n + 1)..(n + Len(t)) : (s \o t)[i] = t[i - n]
    BY ConcatProperties
  <2>4. 1..(n + Len(t)) = (1..n) \cup ((n + 1)..(n + Len(t)))
    BY <1>1
  <2>5. (1..n) \cap ((n + 1)..(n + Len(t))) = {}
    BY <1>1
  <2> QED BY <2>1, <2>2, <2>3, <2>4, <2>5 DEF Places
<1>3. IsFiniteSet(S) /\ IsFiniteSet(T)
  BY PlacesFinite
<1>4. f \in [T -> U]
  BY <1>1 DEF Places
<1>5. \A x, y \in T : f[x] = f[y] => x = y
  BY <1>1 DEF Places
<1>6. ASSUME NEW u \in U PROVE \E x \in T : f[x] = u
  <2>1. u - n \in T /\ f[u - n] = u
    BY <1>1 DEF Places
  <2> QED BY <2>1
<1> HIDE DEF n, S, T, U, f
<1>7. IsFiniteSet(U) /\ Cardinality(U) = Cardinality(T)
  BY <1>3, <1>4, <1>5, <1>6, Bijects
<1>8. Cardinality(S \cup U) = Cardinality(S) + Cardinality(U)
  BY <1>2, <1>3, <1>7, Disjoint
<1> QED BY <1>2, <1>7, <1>8 DEF S, T

\* The value that refers to an array.
Only(a) == {ArrayAt(a)}

\* A single value.
Is(v, V) == IF v \in V THEN 1 ELSE 0

LEMMA IsNat == \A v, V : Is(v, V) \in Nat
BY DEF Is

LEMMA PlacesOfOne ==
  ASSUME NEW v \in Values, NEW V
  PROVE  Cardinality(Places(<<v>>, V)) = Is(v, V)
<1>1. Places(<<v>>, V) = IF v \in V THEN {1} ELSE {}
  BY DEF Places
<1> QED BY <1>1, FS_EmptySet, FS_Singleton DEF Is

LEMMA PlacesOfNone ==
  ASSUME NEW V
  PROVE  Cardinality(Places(<<>>, V)) = 0
<1>1. Places(<<>>, V) = {}
  BY DEF Places
<1> QED BY <1>1, FS_EmptySet

LEMMA PlacesOfAll ==
  ASSUME NEW s \in Seq(Values)
  PROVE  Cardinality(Places(s, Values)) = Len(s)
<1>1. Places(s, Values) = 1..Len(s) /\ Len(s) \in Nat
  BY DEF Places
<1> QED BY <1>1, FS_Interval

\* What arrays hold.
Arrays == [Addresses -> {s \in Seq(Values) : Len(s) <= MaxLen}]

\* Where the arrays have one of some values, in all and in one of them.
Cells(array, V) ==
  {p \in Addresses \X (1..MaxLen) : p[2] \in DOMAIN array[p[1]] /\ array[p[1]][p[2]] \in V}
Elsewhere(array, b, V) == {p \in Cells(array, V) : p[1] # b}

LEMMA CellsFinite ==
  ASSUME SlotsParameters, NEW array, NEW V
  PROVE  /\ IsFiniteSet(Cells(array, V)) /\ Cardinality(Cells(array, V)) \in Nat
         /\ Cardinality(Cells(array, V)) <= Cardinality(Addresses) * MaxLen
         /\ Cardinality(Addresses) * MaxLen \in Nat
<1>1. IsFiniteSet(1..MaxLen) /\ Cardinality(1..MaxLen) = MaxLen
  BY FS_Interval DEF SlotsParameters
<1>2. IsFiniteSet(Addresses \X (1..MaxLen))
      /\ Cardinality(Addresses \X (1..MaxLen)) = Cardinality(Addresses) * MaxLen
  BY <1>1, FS_Product DEF SlotsParameters
<1>3. Cells(array, V) \in SUBSET (Addresses \X (1..MaxLen))
  BY DEF Cells
<1> QED BY <1>2, <1>3, FS_Subset, FS_CardinalityType

LEMMA CellsSplit ==
  ASSUME SlotsParameters, NEW array \in Arrays, NEW b \in Addresses, NEW V
  PROVE  /\ Cardinality(Elsewhere(array, b, V)) \in Nat
         /\ Cardinality(Cells(array, V))
              = Cardinality(Elsewhere(array, b, V)) + Cardinality(Places(array[b], V))
<1> DEFINE S == Elsewhere(array, b, V)
           T == Places(array[b], V)
           U == {p \in Cells(array, V) : p[1] = b}
           f == [i \in T |-> <<b, i>>]
<1>1. array[b] \in Seq(Values) /\ Len(array[b]) <= MaxLen /\ MaxLen \in Nat
  BY DEF Arrays, SlotsParameters
<1>2. DOMAIN array[b] = 1..Len(array[b]) /\ Len(array[b]) \in Nat
  BY <1>1
<1>3. IsFiniteSet(T) /\ IsFiniteSet(S)
  BY <1>1, PlacesFinite, CellsFinite, FS_Subset DEF Elsewhere
<1>4. f \in [T -> U]
  BY <1>1, <1>2 DEF Places, Cells
<1>5. \A x, y \in T : f[x] = f[y] => x = y
  OBVIOUS
<1>6. ASSUME NEW u \in U PROVE \E x \in T : f[x] = u
  <2>1. u[2] \in T /\ u = <<b, u[2]>>
    BY <1>2 DEF Places, Cells
  <2> QED BY <2>1
<1> HIDE DEF f
<1>7. IsFiniteSet(U) /\ Cardinality(U) = Cardinality(T)
  BY <1>3, <1>4, <1>5, <1>6, Bijects
<1>8. Cells(array, V) = S \cup U /\ S \cap U = {}
  BY DEF Elsewhere
<1> HIDE DEF S, T, U
<1>9. Cardinality(S) \in Nat /\ Cardinality(Cells(array, V)) = Cardinality(S) + Cardinality(U)
  BY <1>3, <1>7, <1>8, Disjoint
<1> QED BY <1>7, <1>9 DEF S, T

\* Writing one array.
LEMMA CellsWritten ==
  ASSUME SlotsParameters, NEW array \in Arrays, NEW b \in Addresses, NEW V,
         NEW e \in Seq(Values), Len(e) <= MaxLen
  PROVE  /\ [array EXCEPT ![b] = e] \in Arrays
         /\ Cardinality(Cells([array EXCEPT ![b] = e], V)) + Cardinality(Places(array[b], V))
              = Cardinality(Cells(array, V)) + Cardinality(Places(e, V))
<1> DEFINE after == [array EXCEPT ![b] = e]
<1>1. after \in Arrays /\ after[b] = e
  BY DEF Arrays
<1>2. Elsewhere(after, b, V) = Elsewhere(array, b, V)
  BY DEF Elsewhere, Cells, Arrays
<1>3. Cardinality(Places(array[b], V)) \in Nat /\ Cardinality(Places(e, V)) \in Nat
  BY PlacesFinite DEF Arrays
<1> HIDE DEF after
<1>4. Cardinality(Cells(array, V)) = Cardinality(Elsewhere(array, b, V)) + Cardinality(Places(array[b], V))
  BY CellsSplit
<1>5. Cardinality(Cells(after, V)) = Cardinality(Elsewhere(after, b, V)) + Cardinality(Places(e, V))
  BY <1>1, CellsSplit
<1>6. Cardinality(Elsewhere(array, b, V)) \in Nat
  BY CellsSplit
<1> QED BY <1>1, <1>2, <1>3, <1>4, <1>5, <1>6 DEF after

\* Where slots have a value.
LEMMA SlotsWritten ==
  ASSUME SlotsParameters, NEW slot \in [Locals -> Values], NEW d \in Locals, NEW v \in Values,
         NEW a \in Addresses
  PROVE  /\ Cardinality(SlotsTo([slot EXCEPT ![d] = v], a)) \in Nat
         /\ Cardinality(SlotsTo(slot, a)) \in Nat
         /\ Cardinality(SlotsTo([slot EXCEPT ![d] = v], a)) + Is(slot[d], Only(a))
              = Cardinality(SlotsTo(slot, a)) + Is(v, Only(a))
<1> DEFINE S == SlotsTo(slot, a) \ {d}
           after == [slot EXCEPT ![d] = v]
<1>1. IsFiniteSet(SlotsTo(slot, a))
  BY FS_Subset DEF SlotsTo, SlotsParameters
<1>2. IsFiniteSet(S) /\ d \notin S /\ Cardinality(S) \in Nat
  BY <1>1, FS_RemoveElement, FS_CardinalityType
<1>3. SlotsTo(slot, a) = IF slot[d] = ArrayAt(a) THEN S \cup {d} ELSE S
  BY DEF SlotsTo
<1>4. SlotsTo(after, a) = IF v = ArrayAt(a) THEN S \cup {d} ELSE S
  BY DEF SlotsTo
<1> HIDE DEF S, after
<1>5. Cardinality(S \cup {d}) = Cardinality(S) + 1
  BY <1>2, FS_AddElement
<1> QED BY <1>2, <1>3, <1>4, <1>5 DEF Is, Only, after

-----------------------------------------------------------------------------
(* Counts that are right.                                                    *)

LEMMA ValueForms ==
  ASSUME NEW v \in Values
  PROVE  /\ IsArray(v) => v.data \in Addresses /\ v = ArrayAt(v.data)
         /\ ~IsArray(v) => \A a \in Addresses : v # ArrayAt(a)
         /\ \A a \in Addresses : v = ArrayAt(a) => IsArray(v) /\ v.data = a
BY DEF Values, IsArray, ArrayAt, Nil, Number

Memories == [slot : [Locals -> Values], array : Arrays, refs : [Addresses -> Nat], fault : BOOLEAN]

\* The references that an operation itself owns while it is under way.
Owings == [Addresses -> Nat]
More(owed, values) == [a \in Addresses |-> owed[a] + Count(values, a)]
Nothing == [a \in Addresses |-> 0]

\* Every array's count is what refers to it: slots, elements and the operation.  The slots are
\* given apart, as the operation may have released one that it has not written yet.
Sound(m, slot, owed) ==
  /\ m \in Memories /\ slot \in [Locals -> Values] /\ owed \in Owings
  /\ ~m.fault
  /\ \A a \in Addresses :
       /\ m.refs[a] = Cardinality(SlotsTo(slot, a)) + Cardinality(ElementsTo(m.array, a)) + owed[a]
       /\ m.refs[a] = 0 => m.array[a] = <<>>

LEMMA CountIs ==
  ASSUME NEW s \in Seq(Values), NEW a
  PROVE  Count(s, a) = Cardinality(Places(s, Only(a))) /\ Count(s, a) \in Nat
<1>1. {i \in DOMAIN s : s[i] = ArrayAt(a)} = Places(s, Only(a))
  BY DEF Places, Only
<1> QED BY <1>1, PlacesFinite DEF Count

LEMMA CountJoined ==
  ASSUME NEW s \in Seq(Values), NEW t \in Seq(Values), NEW a
  PROVE  Count(s \o t, a) = Count(s, a) + Count(t, a)
<1>1. s \o t \in Seq(Values)
  BY ConcatProperties
<1>2. Cardinality(Places(s \o t, Only(a))) = Cardinality(Places(s, Only(a))) + Cardinality(Places(t, Only(a)))
  BY PlacesJoined
<1> QED BY <1>1, <1>2, CountIs

LEMMA CountOne ==
  ASSUME NEW v \in Values, NEW a
  PROVE  Count(<<v>>, a) = Is(v, Only(a))
<1>1. <<v>> \in Seq(Values)
  OBVIOUS
<1> QED BY <1>1, CountIs, PlacesOfOne

LEMMA CountNone ==
  ASSUME NEW a
  PROVE  Count(<<>>, a) = 0
<1>1. <<>> \in Seq(Values)
  OBVIOUS
<1> QED BY <1>1, CountIs, PlacesOfNone

LEMMA MoreOwings ==
  ASSUME NEW owed \in Owings, NEW values \in Seq(Values)
  PROVE  /\ More(owed, values) \in Owings
         /\ \A a \in Addresses : More(owed, values)[a] = owed[a] + Count(values, a)
<1>1. ASSUME NEW a \in Addresses
      PROVE  owed[a] + Count(values, a) \in Nat
  BY CountIs DEF Owings
<1> QED BY <1>1 DEF Owings, More

LEMMA NoMore ==
  ASSUME NEW owed \in Owings
  PROVE  More(owed, <<>>) = owed
BY CountNone DEF Owings, More

LEMMA ElementsAre ==
  ASSUME NEW array, NEW a
  PROVE  ElementsTo(array, a) = Cells(array, Only(a))
BY DEF ElementsTo, Cells, Only

LEMMA Numbers ==
  ASSUME SlotsParameters, NEW slot \in [Locals -> Values], NEW array, NEW a \in Addresses
  PROVE  Cardinality(SlotsTo(slot, a)) \in Nat /\ Cardinality(ElementsTo(array, a)) \in Nat
<1>1. IsFiniteSet(SlotsTo(slot, a))
  BY FS_Subset DEF SlotsTo, SlotsParameters
<1> QED BY <1>1, FS_CardinalityType, CellsFinite, ElementsAre

\* The list gets the elements of an array that goes, and the cells lose them.
LEMMA Balance ==
  ASSUME NEW cells \in Nat, NEW size \in Nat, NEW others \in Nat
  PROVE  (size + others) + cells + 1 = (others + 1) + (cells + size)
OBVIOUS

\* What destroying the first of the values that are left gives: its reference is no longer
\* owed, those of the elements it took along are, and there is less to destroy.
DestroyedOne(m, slot, owed, left, after) ==
  /\ after = [memory |-> after.memory, left |-> after.left]
  /\ after.left \in Seq(Values)
  /\ Sound(after.memory, slot, More(owed, after.left))
  /\ after.memory.slot = m.slot
  /\ Len(after.left) + Cardinality(Cells(after.memory.array, Values)) + 1
       = Len(left) + Cardinality(Cells(m.array, Values))
  /\ \A a \in Addresses : after.memory.refs[a] # 0 =>
       m.refs[a] # 0 /\ after.memory.array[a] = m.array[a]

LEMMA FirstDestroyed ==
  ASSUME SlotsParameters, NEW m, NEW slot, NEW owed \in Owings, NEW left \in Seq(Values), left # <<>>,
         Sound(m, slot, More(owed, left)), NEW after, after = DestroyFirst([memory |-> m, left |-> left])
  PROVE  DestroyedOne(m, slot, owed, left, after)
<1> DEFINE v == Head(left)
           rest == Tail(left)
<1>1. /\ v \in Values /\ rest \in Seq(Values) /\ left = <<v>> \o rest
      /\ Len(rest) \in Nat /\ Len(left) = Len(rest) + 1
  BY HeadTailProperties
<1>2. <<v>> \in Seq(Values)
  BY <1>1
<1> HIDE DEF v, rest
<1>3. /\ m \in Memories /\ slot \in [Locals -> Values] /\ ~m.fault
      /\ m.array \in Arrays /\ m.refs \in [Addresses -> Nat]
  BY DEF Sound, Memories
<1>4. ASSUME NEW a \in Addresses
      PROVE  /\ Count(rest, a) \in Nat /\ owed[a] \in Nat /\ Is(v, Only(a)) \in Nat
             /\ Cardinality(SlotsTo(slot, a)) \in Nat /\ Cardinality(ElementsTo(m.array, a)) \in Nat
             /\ m.refs[a] \in Nat
  BY <1>1, <1>3, CountIs, IsNat, Numbers DEF Owings
<1>9. ASSUME NEW a \in Addresses
      PROVE  /\ Count(left, a) = Is(v, Only(a)) + Count(rest, a)
             /\ More(owed, left)[a] = owed[a] + Count(left, a)
             /\ More(owed, rest)[a] = owed[a] + Count(rest, a)
  <2>1. Count(left, a) = Count(<<v>>, a) + Count(rest, a)
    BY <1>1, <1>2, CountJoined
  <2>2. Count(<<v>>, a) = Is(v, Only(a))
    BY <1>1, CountOne
  <2> QED BY <1>1, <2>1, <2>2, MoreOwings
<1>8. ASSUME NEW a \in Addresses
      PROVE  /\ m.refs[a] = Cardinality(SlotsTo(slot, a)) + Cardinality(ElementsTo(m.array, a))
                             + (owed[a] + (Is(v, Only(a)) + Count(rest, a)))
             /\ m.refs[a] = 0 => m.array[a] = <<>>
  BY <1>9 DEF Sound
<1>5. CASE ~IsArray(v)
  <2>1. /\ after = [memory |-> m, left |-> rest]
        /\ after.memory = m /\ after.left = rest
    BY <1>5 DEF DestroyFirst, v, rest
  <2>2. \A a \in Addresses : Is(v, Only(a)) = 0
    BY <1>1, <1>5, ValueForms DEF Is, Only
  <2>3. \A a \in Addresses : More(owed, left)[a] = More(owed, rest)[a]
    BY <1>4, <1>9, <2>2
  <2>4. Sound(m, slot, More(owed, rest))
    BY <1>1, <1>3, <2>3, MoreOwings DEF Sound
  <2>5. Cardinality(Cells(m.array, Values)) \in Nat
    BY CellsFinite
  <2> QED
    <3>1. Sound(after.memory, slot, More(owed, after.left)) /\ after.left \in Seq(Values)
      BY <1>1, <2>1, <2>4
    <3>2. Len(after.left) + Cardinality(Cells(after.memory.array, Values)) + 1
            = Len(left) + Cardinality(Cells(m.array, Values))
      <4>1. Len(after.left) = Len(rest) /\ Cardinality(Cells(after.memory.array, Values)) = Cardinality(Cells(m.array, Values))
        BY <2>1
      <4> QED BY <1>1, <2>5, <4>1
    <3> QED BY <2>1, <3>1, <3>2 DEF DestroyedOne
<1>6. CASE IsArray(v)
  <2> DEFINE b == v.data
  <2>1. b \in Addresses /\ v = ArrayAt(b)
    BY <1>1, <1>6, ValueForms
  <2>2. \A a \in Addresses : Is(v, Only(a)) = IF a = b THEN 1 ELSE 0
    BY <2>1 DEF Is, Only, ArrayAt
  <2> HIDE DEF b
  <2>3. m.refs[b] \in Nat \ {0}
    BY <1>4, <1>8, <2>1, <2>2
  <2>4. CASE m.refs[b] # 1
    <3>n. PICK n : n = [m EXCEPT !.refs[b] = @ - 1, !.fault = @ \/ m.refs[b] = 0]
      OBVIOUS
    <3>1. after = [memory |-> n, left |-> rest] /\ after.memory = n /\ after.left = rest
      BY <1>6, <2>4, <3>n DEF DestroyFirst, v, rest, b
    <3> DEFINE refs == [m.refs EXCEPT ![b] = @ - 1]
               fault == m.fault \/ m.refs[b] = 0
    <3>f. m = [slot |-> m.slot, array |-> m.array, refs |-> m.refs, fault |-> m.fault]
      BY <1>3 DEF Memories
    <3>a. n = [slot |-> m.slot, array |-> m.array, refs |-> refs, fault |-> fault]
      BY <3>n, <3>f
    <3>b. refs \in [Addresses -> Nat]
          /\ \A a \in Addresses : refs[a] = IF a = b THEN m.refs[a] - 1 ELSE m.refs[a]
      BY <1>3, <2>1, <2>3
    <3>c. fault = FALSE
      BY <1>3, <2>3
    <3> HIDE DEF refs, fault
    <3>2. /\ n.slot = m.slot /\ n.array = m.array /\ ~n.fault /\ n \in Memories
          /\ \A a \in Addresses : n.refs[a] = IF a = b THEN m.refs[a] - 1 ELSE m.refs[a]
      BY <1>3, <3>a, <3>b, <3>c DEF Memories
    <3>3. ASSUME NEW a \in Addresses
          PROVE  /\ n.refs[a] = Cardinality(SlotsTo(slot, a)) + Cardinality(ElementsTo(n.array, a))
                                 + More(owed, rest)[a]
                 /\ n.refs[a] = 0 => n.array[a] = <<>>
      <4>1. Cardinality(ElementsTo(n.array, a)) = Cardinality(ElementsTo(m.array, a))
        BY <3>2
      <4>2. n.refs[a] = m.refs[a] - Is(v, Only(a)) /\ n.refs[a] \in Nat /\ m.refs[a] \in Nat
        BY <1>3, <2>2, <2>3, <3>2
      <4>3. n.refs[a] = 0 => m.refs[a] = 0
        BY <1>3, <2>4, <3>2
      <4>4. n.array = m.array
        BY <3>2
      <4>5. n.refs[a] = 0 => n.array[a] = <<>>
        BY <1>8, <4>3, <4>4
      <4>6. n.refs[a] = Cardinality(SlotsTo(slot, a)) + Cardinality(ElementsTo(m.array, a)) + More(owed, rest)[a]
        <5>1. m.refs[a] = Cardinality(SlotsTo(slot, a)) + Cardinality(ElementsTo(m.array, a))
                             + (owed[a] + (Is(v, Only(a)) + Count(rest, a)))
          BY <1>8
        <5>2. More(owed, rest)[a] = owed[a] + Count(rest, a)
          BY <1>9
        <5>3. /\ Count(rest, a) \in Nat /\ owed[a] \in Nat /\ Is(v, Only(a)) \in Nat
              /\ Cardinality(SlotsTo(slot, a)) \in Nat /\ Cardinality(ElementsTo(m.array, a)) \in Nat
          BY <1>4
        <5> QED BY <4>2, <5>1, <5>2, <5>3
      <4> QED BY <4>1, <4>5, <4>6
    <3>4. Sound(n, slot, More(owed, rest))
      BY <1>1, <1>3, <3>2, <3>3, MoreOwings DEF Sound
    <3>5. Cardinality(Cells(m.array, Values)) \in Nat
      BY CellsFinite
    <3>6. \A a \in Addresses : n.refs[a] # 0 => m.refs[a] # 0
      BY <2>3, <3>2
    <3>7. Sound(after.memory, slot, More(owed, after.left)) /\ after.left \in Seq(Values)
      BY <1>1, <3>1, <3>4
    <3>8. Len(after.left) + Cardinality(Cells(after.memory.array, Values)) + 1
            = Len(left) + Cardinality(Cells(m.array, Values))
      <4>1. Len(after.left) = Len(rest) /\ Cardinality(Cells(after.memory.array, Values)) = Cardinality(Cells(m.array, Values))
        BY <3>1, <3>2
      <4> QED BY <1>1, <3>5, <4>1
    <3> QED BY <3>1, <3>2, <3>6, <3>7, <3>8 DEF DestroyedOne
  <2>5. CASE m.refs[b] = 1
    <3>n. PICK n : n = [m EXCEPT !.refs[b] = 0, !.array[b] = <<>>]
      OBVIOUS
    <3> DEFINE more == m.array[b] \o rest
               array == [m.array EXCEPT ![b] = <<>>]
    <3>1. after = [memory |-> n, left |-> more] /\ after.memory = n /\ after.left = more
      BY <1>6, <2>5, <3>n DEF DestroyFirst, v, rest, b
    <3> DEFINE refs == [m.refs EXCEPT ![b] = 0]
    <3>f. m = [slot |-> m.slot, array |-> m.array, refs |-> m.refs, fault |-> m.fault]
      BY <1>3 DEF Memories
    <3>a. n = [slot |-> m.slot, array |-> array, refs |-> refs, fault |-> m.fault]
      BY <3>n, <3>f
    <3>b. refs \in [Addresses -> Nat]
          /\ \A a \in Addresses : refs[a] = IF a = b THEN 0 ELSE m.refs[a]
      BY <1>3, <2>1
    <3>c. \A a \in Addresses : array[a] = IF a = b THEN <<>> ELSE m.array[a]
      BY <1>3, <2>1 DEF Arrays
    <3>2. m.array[b] \in Seq(Values) /\ Len(m.array[b]) <= MaxLen /\ Len(m.array[b]) \in Nat
      BY <1>3, <2>1 DEF Arrays
    <3>3. more \in Seq(Values) /\ Len(more) = Len(m.array[b]) + Len(rest)
      BY <1>1, <3>2, ConcatProperties
    <3>5. <<>> \in Seq(Values) /\ Len(<<>>) <= MaxLen
      BY DEF SlotsParameters
    <3>6. /\ array \in Arrays
          /\ \A V : Cardinality(Cells(array, V)) + Cardinality(Places(m.array[b], V))
                    = Cardinality(Cells(m.array, V)) + Cardinality(Places(<<>>, V))
      BY <1>3, <2>1, <3>5, CellsWritten
    <3> HIDE DEF more, array, refs
    <3>4. /\ n.slot = m.slot /\ n.array = array /\ ~n.fault /\ n \in Memories
          /\ \A a \in Addresses : n.refs[a] = IF a = b THEN 0 ELSE m.refs[a]
          /\ \A a \in Addresses : n.array[a] = IF a = b THEN <<>> ELSE m.array[a]
      BY <1>3, <3>6, <3>a, <3>b, <3>c DEF Memories
    <3>7. ASSUME NEW a \in Addresses
          PROVE  /\ Cardinality(ElementsTo(array, a)) \in Nat
                 /\ Count(m.array[b], a) \in Nat
                 /\ Cardinality(ElementsTo(m.array, a))
                      = Cardinality(ElementsTo(array, a)) + Count(m.array[b], a)
                 /\ More(owed, more)[a] = owed[a] + Count(m.array[b], a) + Count(rest, a)
      <4>1. Count(more, a) = Count(m.array[b], a) + Count(rest, a)
        BY <1>1, <3>2, CountJoined DEF more
      <4>2. Count(m.array[b], a) = Cardinality(Places(m.array[b], Only(a))) /\ Count(m.array[b], a) \in Nat
        BY <3>2, CountIs
      <4>3. Cardinality(ElementsTo(array, a)) \in Nat
        BY <1>3, Numbers
      <4>4. Cardinality(Cells(array, Only(a))) + Cardinality(Places(m.array[b], Only(a)))
              = Cardinality(Cells(m.array, Only(a))) + Cardinality(Places(<<>>, Only(a)))
        BY <3>6
      <4>5. Cardinality(Places(<<>>, Only(a))) = 0
        BY PlacesOfNone
      <4>6. More(owed, more)[a] = owed[a] + Count(more, a)
        BY <3>3, MoreOwings
      <4>7. /\ Cardinality(ElementsTo(array, a)) = Cardinality(Cells(array, Only(a)))
            /\ Cardinality(ElementsTo(m.array, a)) = Cardinality(Cells(m.array, Only(a)))
        BY ElementsAre
      <4> QED BY <1>4, <4>1, <4>2, <4>3, <4>4, <4>5, <4>6, <4>7
    <3>8. ASSUME NEW a \in Addresses
          PROVE  /\ n.refs[a] = Cardinality(SlotsTo(slot, a)) + Cardinality(ElementsTo(n.array, a))
                                 + More(owed, more)[a]
                 /\ n.refs[a] = 0 => n.array[a] = <<>>
      <4>1. Cardinality(ElementsTo(n.array, a)) = Cardinality(ElementsTo(array, a))
        BY <3>4
      <4>2. n.refs[a] = m.refs[a] - Is(v, Only(a)) /\ n.refs[a] \in Nat /\ m.refs[a] \in Nat
        BY <1>3, <2>2, <2>5, <3>4
      <4>3. n.refs[a] = 0 => n.array[a] = <<>>
        BY <1>8, <3>4
      <4>4. n.refs[a] = Cardinality(SlotsTo(slot, a)) + Cardinality(ElementsTo(array, a)) + More(owed, more)[a]
        <5>1. m.refs[a] = Cardinality(SlotsTo(slot, a))
                            + (Cardinality(ElementsTo(array, a)) + Count(m.array[b], a))
                            + (owed[a] + (Is(v, Only(a)) + Count(rest, a)))
          BY <1>8, <3>7
        <5>2. More(owed, more)[a] = owed[a] + Count(m.array[b], a) + Count(rest, a)
          BY <3>7
        <5>3. /\ Count(rest, a) \in Nat /\ owed[a] \in Nat /\ Is(v, Only(a)) \in Nat
              /\ Cardinality(SlotsTo(slot, a)) \in Nat
          BY <1>4
        <5>4. Cardinality(ElementsTo(array, a)) \in Nat /\ Count(m.array[b], a) \in Nat
          BY <3>7
        <5> QED BY <4>2, <5>1, <5>2, <5>3, <5>4, SMTT(30)
      <4> QED BY <4>1, <4>3, <4>4
    <3>10. Sound(n, slot, More(owed, more))
      BY <1>3, <3>3, <3>4, <3>8, MoreOwings DEF Sound
    <3>11. Len(more) + Cardinality(Cells(array, Values)) + 1 = Len(left) + Cardinality(Cells(m.array, Values))
      <4>1. Cardinality(Places(m.array[b], Values)) = Len(m.array[b])
        BY <3>2, PlacesOfAll
      <4>2. Cardinality(Places(<<>>, Values)) = 0
        BY PlacesOfNone
      <4>3. Cardinality(Cells(array, Values)) \in Nat /\ Cardinality(Cells(m.array, Values)) \in Nat
        BY CellsFinite
      <4>4. Cardinality(Cells(array, Values)) + Len(m.array[b]) = Cardinality(Cells(m.array, Values))
        <5>1. Cardinality(Cells(array, Values)) + Cardinality(Places(m.array[b], Values))
                = Cardinality(Cells(m.array, Values)) + Cardinality(Places(<<>>, Values))
          BY <3>6
        <5> QED BY <4>1, <4>2, <4>3, <5>1
      <4>5. Len(left) = Len(rest) + 1 /\ Len(rest) \in Nat
        BY <1>1
      <4>6. Len(more) = Len(m.array[b]) + Len(rest) /\ Len(m.array[b]) \in Nat
        BY <3>2, <3>3
      <4>7. (Len(m.array[b]) + Len(rest)) + Cardinality(Cells(array, Values)) + 1
              = (Len(rest) + 1) + (Cardinality(Cells(array, Values)) + Len(m.array[b]))
        BY <4>3, <4>5, <4>6, Balance, ZenonT(30)
      <4> QED BY <4>4, <4>5, <4>6, <4>7, ZenonT(30)
    <3>12. \A a \in Addresses : n.refs[a] # 0 => m.refs[a] # 0 /\ n.array[a] = m.array[a]
      BY <3>4
    <3> QED BY <3>1, <3>3, <3>4, <3>10, <3>11, <3>12 DEF DestroyedOne
  <2> QED BY <2>4, <2>5
<1> QED BY <1>5, <1>6

\* What survives a release is as it was.
Survives(m, n) ==
  \A a \in Addresses : n.refs[a] # 0 => m.refs[a] # 0 /\ n.array[a] = m.array[a]

\* What a release may leave: whatever is owed for what is left is still counted.
Releasing(m, slot, owed) ==
  {state \in [memory : Memories, left : Seq(Values)] :
     /\ Sound(state.memory, slot, More(owed, state.left))
     /\ state.memory.slot = m.slot /\ Survives(m, state.memory)}
Weight(state) == Len(state.left) + Cardinality(Cells(state.memory.array, Values))

LEMMA OneReleased ==
  ASSUME SlotsParameters, NEW m, NEW slot, NEW owed \in Owings,
         NEW state \in Releasing(m, slot, owed), NEW after, after = DestroyFirst(state)
  PROVE  /\ after \in Releasing(m, slot, owed)
         /\ Weight(state) \in Nat
         /\ state.left = <<>> => after.left = <<>>
         /\ state.left # <<>> => Weight(after) = Weight(state) - 1
<1>1. /\ state.memory \in Memories /\ state.left \in Seq(Values)
      /\ state = [memory |-> state.memory, left |-> state.left]
      /\ Sound(state.memory, slot, More(owed, state.left))
      /\ state.memory.slot = m.slot /\ Survives(m, state.memory)
  BY DEF Releasing
<1>2. Weight(state) \in Nat
  BY <1>1, CellsFinite DEF Weight
<1>3. CASE state.left = <<>>
  BY <1>2, <1>3 DEF DestroyFirst
<1>4. CASE state.left # <<>>
  <2> DEFINE now == state.memory
             left == state.left
  <2>1. after = DestroyFirst([memory |-> now, left |-> left])
    BY <1>1
  <2>a. left \in Seq(Values) /\ left # <<>> /\ Sound(now, slot, More(owed, left))
    BY <1>1, <1>4
  <2>2. DestroyedOne(now, slot, owed, left, after)
    <3> HIDE DEF now, left
    <3> QED BY <2>1, <2>a, FirstDestroyed
  <2>3. Survives(m, after.memory)
    BY <1>1, <2>2 DEF Survives, DestroyedOne
  <2>4. after \in Releasing(m, slot, owed)
    <3>1. after.memory \in Memories
      BY <2>2 DEF Sound, DestroyedOne
    <3>2. after \in [memory : Memories, left : Seq(Values)]
      BY <2>2, <3>1 DEF DestroyedOne
    <3> QED BY <1>1, <2>2, <2>3, <3>2 DEF Releasing, DestroyedOne
  <2>5. Len(after.left) \in Nat /\ Cardinality(Cells(after.memory.array, Values)) \in Nat
    BY <2>2, CellsFinite DEF DestroyedOne
  <2>6. Weight(after) = Weight(state) - 1
    BY <1>2, <2>2, <2>5 DEF Weight, DestroyedOne
  <2> QED BY <1>2, <1>4, <2>4, <2>6
<1> QED BY <1>3, <1>4

\* A release ends, and takes what was owed for the values off the counts, and no more.
LEMMA ReleaseRight ==
  ASSUME SlotsParameters, NEW m, NEW slot, NEW owed \in Owings, NEW values \in Seq(Values),
         Sound(m, slot, More(owed, values)), NEW n, n = Release(m, values)
  PROVE  Sound(n, slot, owed) /\ n.slot = m.slot /\ Survives(m, n)
<1> DEFINE most == Len(values) + Cardinality(Addresses) * MaxLen
           S == Releasing(m, slot, owed)
           start == [memory |-> m, left |-> values]
           Solves(f) == f = [k \in 0..most |-> IF k = 0 THEN start ELSE DestroyFirst(f[k - 1])]
           F == [k \in 1..most |-> [state \in S |-> DestroyFirst(state)]]
<1>1. most \in Nat /\ Len(values) \in Nat
  BY CellsFinite
<1>2. start \in S
  BY DEF Releasing, Sound, Survives
<1>3. Weight(start) \in Nat /\ Weight(start) <= most
  <2>1. /\ Cardinality(Cells(m.array, Values)) \in Nat
        /\ Cardinality(Cells(m.array, Values)) <= Cardinality(Addresses) * MaxLen
        /\ Cardinality(Addresses) * MaxLen \in Nat
    BY CellsFinite
  <2>2. start.memory = m /\ start.left = values
    OBVIOUS
  <2> HIDE DEF start
  <2> QED BY <1>1, <2>1, <2>2 DEF Weight
<1>4. n = (CHOOSE f : Solves(f))[most].memory
  BY DEF Release
<1> HIDE DEF most, start
<1>5. F \in Steps(most, S)
  <2>1. ASSUME NEW state \in S PROVE DestroyFirst(state) \in S
    BY OneReleased
  <2> HIDE DEF S
  <2> QED BY <2>1 DEF Steps
<1>6. PICK f \in [0..most -> S] : f[0] = start /\ \A k \in 1..most : f[k] = F[k][f[k - 1]]
  <2> HIDE DEF F, S, Solves
  <2>1. most \in Nat
    BY <1>1
  <2>2. Iterations(most, S, start, F) # {}
    BY <2>1, <1>2, <1>5, Iterates
  <2> QED BY <2>2 DEF Iterations
<1>7. ASSUME NEW k \in 1..most
      PROVE  f[k] = DestroyFirst(f[k - 1])
  <2>1. k - 1 \in 0..most /\ f[k - 1] \in S
    BY <1>1, <1>6
  <2> HIDE DEF S
  <2> QED BY <1>6, <2>1
<1> HIDE DEF S, F
<1>8. Solves(f)
  BY <1>1, <1>6, <1>7
<1>9. PICK g : Solves(g) /\ n = g[most].memory
  <2> HIDE DEF Solves
  <2> QED BY <1>4, <1>8
<1>10. g[0] = start /\ \A k \in 1..most : g[k] = DestroyFirst(g[k - 1])
  <2>1. \A k \in 1..most : k \in 0..most /\ k # 0
    BY <1>1
  <2> QED BY <1>1, <1>9, <2>1
<1> DEFINE T == {k \in Nat : k <= most =>
                   g[k] \in S /\ (g[k].left = <<>> \/ Weight(g[k]) <= most - k)}
<1>11. 0 \in T
  BY <1>1, <1>2, <1>3, <1>10
<1>12. ASSUME NEW k \in Nat, k \in T
       PROVE  k + 1 \in T
  <2> SUFFICES ASSUME k + 1 <= most
               PROVE  /\ g[k + 1] \in S
                      /\ g[k + 1].left = <<>> \/ Weight(g[k + 1]) <= most - (k + 1)
    OBVIOUS
  <2>1. g[k] \in S /\ (g[k].left = <<>> \/ Weight(g[k]) <= most - k)
    BY <1>1, <1>12
  <2>2. g[k + 1] = DestroyFirst(g[k])
    BY <1>1, <1>10
  <2>3. /\ g[k + 1] \in S /\ Weight(g[k]) \in Nat
        /\ g[k].left = <<>> => g[k + 1].left = <<>>
        /\ g[k].left # <<>> => Weight(g[k + 1]) = Weight(g[k]) - 1
    BY <2>1, <2>2, OneReleased DEF S
  <2> QED BY <1>1, <2>1, <2>3
<1>13. most \in T
  <2> HIDE DEF T
  <2>1. \A k \in Nat : k \in T
    BY <1>11, <1>12, Induction
  <2> QED BY <1>1, <2>1
<1>14. g[most] \in S /\ (g[most].left = <<>> \/ Weight(g[most]) <= 0)
  BY <1>1, <1>13
<1>15. /\ g[most].left \in Seq(Values)
       /\ Sound(n, slot, More(owed, g[most].left)) /\ n.slot = m.slot /\ Survives(m, n)
  BY <1>9, <1>14 DEF S, Releasing
<1>16. g[most].left = <<>>
  <2>1. Len(g[most].left) \in Nat /\ Cardinality(Cells(g[most].memory.array, Values)) \in Nat
    BY <1>15, CellsFinite
  <2>2. Weight(g[most]) <= 0 => Len(g[most].left) = 0
    BY <2>1 DEF Weight
  <2> QED BY <1>14, <1>15, <2>2, EmptySeq
<1> QED BY <1>15, <1>16, NoMore

-----------------------------------------------------------------------------
(* The pieces that operations are made of.                                   *)

\* A memory that differs in its slots only.
Alike(m, n) == n \in Memories /\ n.array = m.array /\ n.refs = m.refs /\ n.fault = m.fault

LEMMA SoundAlike ==
  ASSUME NEW m, NEW slot, NEW owed, NEW n, Sound(m, slot, owed), Alike(m, n)
  PROVE  Sound(n, slot, owed)
BY DEF Sound, Alike

\* A memory in which one slot is written.
Assigned(m, n, d, v) == Alike(m, n) /\ n.slot = [m.slot EXCEPT ![d] = v]

LEMMA SlotSet ==
  ASSUME NEW m \in Memories, NEW d \in Locals, NEW v \in Values, NEW n, n = [m EXCEPT !.slot[d] = v]
  PROVE  Assigned(m, n, d, v)
<1> DEFINE slot == [m.slot EXCEPT ![d] = v]
<1>1. m = [slot |-> m.slot, array |-> m.array, refs |-> m.refs, fault |-> m.fault]
  BY DEF Memories
<1>2. n = [slot |-> slot, array |-> m.array, refs |-> m.refs, fault |-> m.fault]
  BY <1>1
<1>3. slot \in [Locals -> Values]
  BY DEF Memories
<1> HIDE DEF slot
<1>4. n \in Memories
  BY <1>2, <1>3 DEF Memories
<1> QED BY <1>2, <1>4 DEF Assigned, Alike, slot

\* A memory in which one array is written.
Rewritten(m, n, b, e) ==
  /\ n \in Memories /\ n.slot = m.slot /\ n.refs = m.refs /\ n.fault = m.fault
  /\ n.array = [m.array EXCEPT ![b] = e]

LEMMA ArraySet ==
  ASSUME NEW m \in Memories, NEW b \in Addresses, NEW e \in Seq(Values), Len(e) <= MaxLen,
         NEW n, n = [m EXCEPT !.array[b] = e]
  PROVE  Rewritten(m, n, b, e)
<1> DEFINE array == [m.array EXCEPT ![b] = e]
<1>1. m = [slot |-> m.slot, array |-> m.array, refs |-> m.refs, fault |-> m.fault]
  BY DEF Memories
<1>2. n = [slot |-> m.slot, array |-> array, refs |-> m.refs, fault |-> m.fault]
  BY <1>1
<1>3. array \in Arrays
  BY DEF Memories, Arrays
<1> HIDE DEF array
<1>4. n \in Memories
  BY <1>2, <1>3 DEF Memories
<1> QED BY <1>2, <1>4 DEF Rewritten, array

\* A value is exchanged for the one that a slot holds.
LEMMA Exchanged ==
  ASSUME SlotsParameters, NEW m, NEW slot, NEW owed \in Owings, NEW d \in Locals, NEW v \in Values,
         Sound(m, slot, More(owed, <<v>>))
  PROVE  Sound(m, [slot EXCEPT ![d] = v], More(owed, <<slot[d]>>))
<1> DEFINE after == [slot EXCEPT ![d] = v]
<1>1. /\ m \in Memories /\ slot \in [Locals -> Values] /\ ~m.fault
      /\ slot[d] \in Values /\ after \in [Locals -> Values]
  BY DEF Sound
<1>2. <<v>> \in Seq(Values) /\ <<slot[d]>> \in Seq(Values)
  BY <1>1
<1> HIDE DEF after
<1>3. ASSUME NEW a \in Addresses
      PROVE  /\ m.refs[a] = Cardinality(SlotsTo(after, a)) + Cardinality(ElementsTo(m.array, a))
                               + More(owed, <<slot[d]>>)[a]
             /\ m.refs[a] = 0 => m.array[a] = <<>>
  <2>1. /\ Cardinality(SlotsTo(after, a)) \in Nat /\ Cardinality(SlotsTo(slot, a)) \in Nat
        /\ Cardinality(SlotsTo(after, a)) + Is(slot[d], Only(a))
              = Cardinality(SlotsTo(slot, a)) + Is(v, Only(a))
    BY <1>1, SlotsWritten, ZenonT(30) DEF after
  <2>2. More(owed, <<slot[d]>>)[a] = owed[a] + Is(slot[d], Only(a))
        /\ More(owed, <<v>>)[a] = owed[a] + Is(v, Only(a))
    BY <1>1, <1>2, MoreOwings, CountOne
  <2>3. /\ m.refs[a] = Cardinality(SlotsTo(slot, a)) + Cardinality(ElementsTo(m.array, a))
                         + More(owed, <<v>>)[a]
        /\ m.refs[a] = 0 => m.array[a] = <<>>
    BY DEF Sound
  <2>4. Is(v, Only(a)) \in Nat /\ Is(slot[d], Only(a)) \in Nat /\ owed[a] \in Nat
        /\ Cardinality(ElementsTo(m.array, a)) \in Nat
    BY <1>1, IsNat, Numbers DEF Owings
  <2>5. Cardinality(SlotsTo(slot, a)) = Cardinality(SlotsTo(after, a)) + Is(slot[d], Only(a)) - Is(v, Only(a))
    BY <2>1, <2>4
  <2> QED BY <2>1, <2>2, <2>3, <2>4, <2>5
<1> QED BY <1>1, <1>2, <1>3, MoreOwings DEF Sound, after

\* Nothing is owed for a value that is not an array.
LEMMA PlainValue ==
  ASSUME NEW owed \in Owings, NEW v \in Values, ~IsArray(v)
  PROVE  More(owed, <<v>>) = owed
<1>1. \A a \in Addresses : Count(<<v>>, a) = 0
  BY CountOne, ValueForms DEF Is, Only
<1>2. \A a \in Addresses : owed[a] + 0 = owed[a]
  BY DEF Owings
<1> QED BY <1>1, <1>2 DEF More, Owings

LEMMA NilValue == Nil \in Values /\ ~IsArray(Nil)
BY DEF Values, Nil, IsArray

\* gj_clear.
LEMMA ClearRight ==
  ASSUME SlotsParameters, NEW m, NEW owed \in Owings, Sound(m, m.slot, owed), NEW d \in Locals,
         NEW n, n = Cleared(m, d)
  PROVE  /\ Sound(n, n.slot, owed) /\ Survives(m, n)
         /\ n.slot = [m.slot EXCEPT ![d] = Nil]
<1> DEFINE slot == [m.slot EXCEPT ![d] = Nil]
<1>1. m \in Memories /\ m.slot \in [Locals -> Values] /\ m.slot[d] \in Values
  BY DEF Sound
<1>2. PICK r : r = Release(m, <<m.slot[d]>>)
  OBVIOUS
<1>3. Sound(m, slot, More(owed, <<m.slot[d]>>))
  <2>1. Sound(m, m.slot, More(owed, <<Nil>>))
    BY PlainValue, NilValue
  <2> QED BY <2>1, NilValue, Exchanged
<1>4. Sound(r, slot, owed) /\ r.slot = m.slot /\ Survives(m, r)
  <2> DEFINE values == <<m.slot[d]>>
  <2>1. values \in Seq(Values) /\ r = Release(m, values) /\ Sound(m, slot, More(owed, values))
    BY <1>1, <1>2, <1>3
  <2> HIDE DEF slot, values
  <2> QED BY <2>1, ReleaseRight
<1>5. n = [r EXCEPT !.slot[d] = Nil]
  BY <1>2 DEF Cleared
<1>6. Alike(r, n) /\ n.slot = slot
  <2>1. r \in Memories
    BY <1>4 DEF Sound
  <2>2. Assigned(r, n, d, Nil)
    BY <1>5, <2>1, NilValue, SlotSet
  <2> QED BY <1>4, <2>2 DEF Assigned
<1> HIDE DEF slot
<1>7. Sound(n, slot, owed)
  BY <1>4, <1>6, SoundAlike
<1> QED BY <1>4, <1>6, <1>7 DEF Survives, Alike, slot

\* gj_take.
LEMMA TakeRight ==
  ASSUME SlotsParameters, NEW m, NEW owed \in Owings, NEW d \in Locals, NEW v \in Values,
         Sound(m, m.slot, More(owed, <<v>>)), NEW n, n = Take(m, d, v)
  PROVE  /\ Sound(n, n.slot, owed) /\ Survives(m, n)
         /\ n.slot = [m.slot EXCEPT ![d] = v]
<1> DEFINE slot == [m.slot EXCEPT ![d] = v]
<1>1. m \in Memories /\ m.slot \in [Locals -> Values] /\ <<v>> \in Seq(Values)
  BY DEF Sound
<1>2. PICK c : c = Cleared(m, d)
  OBVIOUS
<1>3. Sound(c, c.slot, More(owed, <<v>>)) /\ Survives(m, c) /\ c.slot = [m.slot EXCEPT ![d] = Nil]
  BY <1>1, <1>2, MoreOwings, ClearRight
<1>4. c.slot[d] = Nil /\ [c.slot EXCEPT ![d] = v] = slot
  BY <1>1, <1>3
<1> HIDE DEF slot
<1>5. Sound(c, slot, owed)
  <2>1. Sound(c, slot, More(owed, <<c.slot[d]>>))
    BY <1>3, <1>4, Exchanged
  <2> QED BY <2>1, <1>4, PlainValue, NilValue
<1>6. n = [c EXCEPT !.slot[d] = v]
  BY <1>2 DEF Take
<1>7. Alike(c, n) /\ n.slot = slot
  <2>1. c \in Memories
    BY <1>3 DEF Sound
  <2>2. Assigned(c, n, d, v)
    BY <1>6, <2>1, SlotSet
  <2> QED BY <1>4, <2>2 DEF Assigned
<1>8. Sound(n, slot, owed)
  BY <1>5, <1>7, SoundAlike
<1> QED BY <1>3, <1>7, <1>8 DEF Survives, Alike, slot

\* Values whose arrays are there.
Alive(m, values) == \A a \in Addresses : Count(values, a) # 0 => m.refs[a] # 0

LEMMA RetainRight ==
  ASSUME SlotsParameters, NEW m, NEW slot, NEW owed \in Owings, NEW values \in Seq(Values),
         Sound(m, slot, owed), Alive(m, values), NEW n, n = Retain(m, values)
  PROVE  /\ Sound(n, slot, More(owed, values)) /\ Survives(m, n)
         /\ n.slot = m.slot /\ n.array = m.array
<1> DEFINE refs == [a \in Addresses |-> m.refs[a] + Count(values, a)]
           fault == m.fault \/ \E a \in Addresses : m.refs[a] = 0 /\ Count(values, a) # 0
<1>1. /\ m \in Memories /\ slot \in [Locals -> Values] /\ ~m.fault
      /\ m.refs \in [Addresses -> Nat]
  BY DEF Sound, Memories
<1>2. m = [slot |-> m.slot, array |-> m.array, refs |-> m.refs, fault |-> m.fault]
  BY <1>1 DEF Memories
<1>3. n = [slot |-> m.slot, array |-> m.array, refs |-> refs, fault |-> fault]
  BY <1>2 DEF Retain
<1>4. fault = FALSE
  BY <1>1 DEF Alive
<1>5. ASSUME NEW a \in Addresses
      PROVE  /\ m.refs[a] \in Nat /\ Count(values, a) \in Nat
             /\ refs[a] = m.refs[a] + Count(values, a) /\ refs[a] \in Nat
  BY <1>1, CountIs
<1>6. refs \in [Addresses -> Nat]
  BY <1>5
<1> HIDE DEF refs, fault
<1>7. n \in Memories /\ ~n.fault /\ n.slot = m.slot /\ n.array = m.array /\ n.refs = refs
  <2>1. n.slot = m.slot /\ n.array = m.array /\ n.refs = refs /\ n.fault = fault
    BY <1>3
  <2>2. n \in Memories
    <3>1. m.slot \in [Locals -> Values] /\ m.array \in Arrays
      BY <1>1 DEF Memories
    <3>2. fault \in BOOLEAN
      BY <1>4
    <3> QED BY <1>3, <1>6, <3>1, <3>2, SMTT(20) DEF Memories
  <2> QED BY <1>4, <2>1, <2>2
<1>8. ASSUME NEW a \in Addresses
      PROVE  /\ n.refs[a] = Cardinality(SlotsTo(slot, a)) + Cardinality(ElementsTo(n.array, a))
                              + More(owed, values)[a]
             /\ n.refs[a] = 0 => n.array[a] = <<>>
             /\ n.refs[a] # 0 => m.refs[a] # 0
  <2>1. n.refs[a] = m.refs[a] + Count(values, a) /\ m.refs[a] \in Nat /\ Count(values, a) \in Nat
    BY <1>5, <1>7
  <2>2. Cardinality(ElementsTo(n.array, a)) = Cardinality(ElementsTo(m.array, a))
    BY <1>7
  <2>3. /\ m.refs[a] = Cardinality(SlotsTo(slot, a)) + Cardinality(ElementsTo(m.array, a)) + owed[a]
        /\ m.refs[a] = 0 => m.array[a] = <<>>
    BY DEF Sound
  <2>4. More(owed, values)[a] = owed[a] + Count(values, a)
    BY MoreOwings
  <2>5. owed[a] \in Nat /\ Cardinality(SlotsTo(slot, a)) \in Nat /\ Cardinality(ElementsTo(m.array, a)) \in Nat
    BY <1>1, Numbers DEF Owings
  <2>6. n.refs[a] = Cardinality(SlotsTo(slot, a)) + Cardinality(ElementsTo(m.array, a))
                              + More(owed, values)[a]
    BY <2>1, <2>3, <2>4, <2>5
  <2>7. n.refs[a] # 0 => m.refs[a] # 0
    BY <2>1 DEF Alive
  <2>8. n.refs[a] = 0 => m.refs[a] = 0
    BY <2>1
  <2> QED BY <1>7, <2>2, <2>3, <2>6, <2>7, <2>8
<1> QED BY <1>1, <1>7, <1>8, MoreOwings DEF Sound, Survives

\* What something refers to is there.
LEMMA Referred ==
  ASSUME SlotsParameters, NEW m, NEW slot, NEW owed \in Owings, Sound(m, slot, owed),
         NEW a \in Addresses,
         \/ owed[a] # 0
         \/ \E s \in Locals : slot[s] = ArrayAt(a)
         \/ \E b \in Addresses : \E i \in DOMAIN m.array[b] : m.array[b][i] = ArrayAt(a)
  PROVE  m.refs[a] # 0
<1>1. /\ m.refs[a] = Cardinality(SlotsTo(slot, a)) + Cardinality(ElementsTo(m.array, a)) + owed[a]
      /\ slot \in [Locals -> Values] /\ m.array \in Arrays
  BY DEF Sound, Memories
<1>2. Cardinality(SlotsTo(slot, a)) \in Nat /\ Cardinality(ElementsTo(m.array, a)) \in Nat /\ owed[a] \in Nat
  BY <1>1, Numbers DEF Owings
<1>3. CASE owed[a] # 0
  BY <1>1, <1>2, <1>3
<1>4. CASE \E s \in Locals : slot[s] = ArrayAt(a)
  <2>1. IsFiniteSet(SlotsTo(slot, a))
    BY FS_Subset DEF SlotsTo, SlotsParameters
  <2>2. SlotsTo(slot, a) # {}
    BY <1>4 DEF SlotsTo
  <2>3. Cardinality(SlotsTo(slot, a)) # 0
    BY <2>1, <2>2, FS_EmptySet
  <2> QED BY <1>1, <1>2, <2>3
<1>5. CASE \E b \in Addresses : \E i \in DOMAIN m.array[b] : m.array[b][i] = ArrayAt(a)
  <2>a. PICK b \in Addresses : \E i \in DOMAIN m.array[b] : m.array[b][i] = ArrayAt(a)
    BY <1>5
  <2>1. PICK i \in DOMAIN m.array[b] : m.array[b][i] = ArrayAt(a)
    BY <2>a
  <2>2. m.array[b] \in Seq(Values) /\ Len(m.array[b]) <= MaxLen
    BY <1>1 DEF Arrays
  <2>3. i \in 1..MaxLen
    BY <2>2 DEF SlotsParameters
  <2>4. <<b, i>> \in ElementsTo(m.array, a)
    BY <2>1, <2>3 DEF ElementsTo
  <2>5. IsFiniteSet(ElementsTo(m.array, a))
    BY CellsFinite, ElementsAre
  <2>6. Cardinality(ElementsTo(m.array, a)) # 0
    BY <2>4, <2>5, FS_EmptySet
  <2> QED BY <1>1, <1>2, <2>6
<1> QED BY <1>3, <1>4, <1>5

LEMMA AliveOne ==
  ASSUME NEW m, NEW v \in Values, IsArray(v) => m.refs[v.data] # 0
  PROVE  Alive(m, <<v>>)
<1>1. ASSUME NEW a \in Addresses, Count(<<v>>, a) # 0
      PROVE  m.refs[a] # 0
  <2>1. v = ArrayAt(a)
    BY <1>1, CountOne DEF Is, Only
  <2> QED BY <2>1, ValueForms
<1> QED BY <1>1 DEF Alive

LEMMA AliveAll ==
  ASSUME NEW m, NEW values \in Seq(Values),
         \A i \in 1..Len(values) : IsArray(values[i]) => m.refs[values[i].data] # 0
  PROVE  Alive(m, values)
<1>1. ASSUME NEW a \in Addresses, Count(values, a) # 0
      PROVE  m.refs[a] # 0
  <2>1. Places(values, Only(a)) # {}
    BY <1>1, CountIs, FS_EmptySet
  <2>2. PICK i \in 1..Len(values) : values[i] = ArrayAt(a)
    BY <2>1 DEF Places, Only
  <2>3. values[i] \in Values
    BY <2>2
  <2> QED BY <2>2, <2>3, ValueForms
<1> QED BY <1>1 DEF Alive

\* An array that is there is written; what is owed makes up for what it held and holds.
LEMMA ArrayWritten ==
  ASSUME SlotsParameters, NEW m, NEW slot, NEW owed \in Owings, Sound(m, slot, owed),
         NEW b \in Addresses, m.refs[b] # 0, NEW e \in Seq(Values), Len(e) <= MaxLen,
         NEW then \in Owings,
         \A a \in Addresses : then[a] = owed[a] + Count(m.array[b], a) - Count(e, a),
         NEW n, Rewritten(m, n, b, e)
  PROVE  Sound(n, slot, then) /\ n.slot = m.slot
<1> DEFINE array == [m.array EXCEPT ![b] = e]
<1>1. /\ m \in Memories /\ slot \in [Locals -> Values] /\ ~m.fault
      /\ m.array \in Arrays /\ m.refs \in [Addresses -> Nat] /\ m.array[b] \in Seq(Values)
  BY DEF Sound, Memories, Arrays
<1>2. /\ n \in Memories /\ n.slot = m.slot /\ n.refs = m.refs /\ n.fault = m.fault
      /\ n.array = array
  BY DEF Rewritten
<1>3. \A a \in Addresses : array[a] = IF a = b THEN e ELSE m.array[a]
  BY <1>1 DEF Arrays
<1>4. /\ array \in Arrays
      /\ \A V : Cardinality(Cells(array, V)) + Cardinality(Places(m.array[b], V))
                = Cardinality(Cells(m.array, V)) + Cardinality(Places(e, V))
  BY <1>1, CellsWritten
<1> HIDE DEF array
<1>5. ASSUME NEW a \in Addresses
      PROVE  /\ n.refs[a] = Cardinality(SlotsTo(slot, a)) + Cardinality(ElementsTo(n.array, a)) + then[a]
             /\ n.refs[a] = 0 => n.array[a] = <<>>
  <2>1. /\ Cardinality(ElementsTo(n.array, a)) = Cardinality(Cells(array, Only(a)))
        /\ Cardinality(ElementsTo(m.array, a)) = Cardinality(Cells(m.array, Only(a)))
    BY <1>2, ElementsAre
  <2>2. Count(m.array[b], a) = Cardinality(Places(m.array[b], Only(a))) /\ Count(m.array[b], a) \in Nat
    BY <1>1, CountIs
  <2>3. Count(e, a) = Cardinality(Places(e, Only(a))) /\ Count(e, a) \in Nat
    BY CountIs
  <2>4. Cardinality(Cells(array, Only(a))) + Cardinality(Places(m.array[b], Only(a)))
          = Cardinality(Cells(m.array, Only(a))) + Cardinality(Places(e, Only(a)))
    BY <1>4
  <2>5. Cardinality(Cells(array, Only(a))) \in Nat /\ Cardinality(Cells(m.array, Only(a))) \in Nat
        /\ Cardinality(SlotsTo(slot, a)) \in Nat /\ owed[a] \in Nat
    BY <1>1, CellsFinite, Numbers DEF Owings
  <2>6. Cardinality(Cells(m.array, Only(a)))
          = Cardinality(Cells(array, Only(a))) + Count(m.array[b], a) - Count(e, a)
    BY <2>2, <2>3, <2>4, <2>5, SMTT(30)
  <2>7. /\ m.refs[a] = Cardinality(SlotsTo(slot, a)) + Cardinality(ElementsTo(m.array, a)) + owed[a]
        /\ m.refs[a] = 0 => m.array[a] = <<>>
    BY DEF Sound
  <2>8. m.refs[a] = Cardinality(SlotsTo(slot, a)) + Cardinality(ElementsTo(n.array, a)) + then[a]
    <3>1. then[a] = owed[a] + Count(m.array[b], a) - Count(e, a)
      OBVIOUS
    <3>2. m.refs[a] = Cardinality(SlotsTo(slot, a))
                       + (Cardinality(Cells(array, Only(a))) + Count(m.array[b], a) - Count(e, a)) + owed[a]
      BY <2>1, <2>6, <2>7
    <3>3. m.refs[a] = Cardinality(SlotsTo(slot, a)) + Cardinality(Cells(array, Only(a))) + then[a]
      BY <2>2, <2>3, <2>5, <3>1, <3>2
    <3> QED BY <2>1, <3>3
  <2> QED BY <1>2, <1>3, <2>7, <2>8
<1> QED BY <1>1, <1>2, <1>5 DEF Sound

LEMMA FreshIs ==
  ASSUME SlotsParameters, NEW m, Unused(m) # {}
  PROVE  Fresh(m) \in Addresses /\ m.refs[Fresh(m)] = 0
<1>1. Unused(m) \subseteq Nat
  BY DEF Unused, SlotsParameters
<1>2. PICK f \in Unused(m) : \A b \in Unused(m) : f <= b
  BY <1>1, Least
<1>3. Fresh(m) \in Unused(m)
  BY <1>2 DEF Fresh
<1> QED BY <1>3 DEF Unused

LEMMA ArrayValue ==
  ASSUME NEW a \in Addresses
  PROVE  ArrayAt(a) \in Values /\ IsArray(ArrayAt(a)) /\ ArrayAt(a).data = a
BY DEF Values, ArrayAt, IsArray

\* A new array is owned by who builds it, and what it holds is counted.
LEMMA BuildRight ==
  ASSUME SlotsParameters, NEW m, NEW slot, NEW owed \in Owings, Sound(m, slot, owed),
         NEW e \in Seq(Values), Len(e) <= MaxLen, Alive(m, e), Unused(m) # {},
         NEW f, f = Fresh(m), NEW n, n = Build(m, e)
  PROVE  /\ Sound(n, slot, More(owed, <<ArrayAt(f)>>))
         /\ n.slot = m.slot /\ n.array[f] = e
<1> DEFINE array == [m.array EXCEPT ![f] = e]
           one == [m.refs EXCEPT ![f] = 1]
           refs == [a \in Addresses |-> one[a] + Count(e, a)]
           fault == m.fault \/ \E a \in Addresses : one[a] = 0 /\ Count(e, a) # 0
<1>1. /\ m \in Memories /\ slot \in [Locals -> Values] /\ ~m.fault
      /\ m.array \in Arrays /\ m.refs \in [Addresses -> Nat] /\ m.slot \in [Locals -> Values]
  BY DEF Sound, Memories
<1>2. f \in Addresses /\ m.refs[f] = 0
  BY FreshIs
<1>3. m = [slot |-> m.slot, array |-> m.array, refs |-> m.refs, fault |-> m.fault]
  BY <1>1 DEF Memories
<1>4. PICK k : k = [m EXCEPT !.refs[Fresh(m)] = 1, !.array[Fresh(m)] = e]
  OBVIOUS
<1>5. k = [slot |-> m.slot, array |-> array, refs |-> one, fault |-> m.fault]
  BY <1>3, <1>4
<1>6. n = Retain(k, e)
  BY <1>4 DEF Build
<1>7. n = [slot |-> m.slot, array |-> array, refs |-> refs, fault |-> fault]
  <2>1. k.slot = m.slot /\ k.array = array /\ k.refs = one /\ k.fault = m.fault
    BY <1>5
  <2> HIDE DEF array, one
  <2> QED BY <1>5, <1>6, <2>1, ZenonT(30) DEF Retain
<1>8. \A a \in Addresses : array[a] = IF a = f THEN e ELSE m.array[a]
  BY <1>1 DEF Arrays
<1>9. /\ array \in Arrays
      /\ \A V : Cardinality(Cells(array, V)) + Cardinality(Places(m.array[f], V))
                = Cardinality(Cells(m.array, V)) + Cardinality(Places(e, V))
  BY <1>1, <1>2, CellsWritten
<1>10. one \in [Addresses -> Nat] /\ \A a \in Addresses : one[a] = IF a = f THEN 1 ELSE m.refs[a]
  BY <1>1, <1>2
<1> HIDE DEF array, one
<1>11. ASSUME NEW a \in Addresses
       PROVE  /\ m.refs[a] \in Nat /\ Count(e, a) \in Nat /\ one[a] \in Nat
              /\ refs[a] = one[a] + Count(e, a) /\ refs[a] \in Nat
              /\ Count(e, a) # 0 => m.refs[a] # 0 /\ a # f
  <2>1. Count(e, a) \in Nat
    BY CountIs
  <2> QED BY <1>1, <1>2, <1>10, <2>1 DEF Alive
<1>12. fault = FALSE
  BY <1>1, <1>10, <1>11
<1>13. refs \in [Addresses -> Nat]
  BY <1>11
<1> HIDE DEF refs, fault
<1>14. n.slot = m.slot /\ n.array = array /\ n.refs = refs /\ n.fault = fault /\ n \in Memories
  <2>1. n.slot = m.slot /\ n.array = array /\ n.refs = refs /\ n.fault = fault
    BY <1>7
  <2>2. fault \in BOOLEAN
    BY <1>12
  <2>3. n \in Memories
    BY <1>1, <1>7, <1>9, <1>13, <2>2, SMTT(20) DEF Memories
  <2> QED BY <2>1, <2>3
<1>15. ASSUME NEW a \in Addresses
       PROVE  /\ n.refs[a] = Cardinality(SlotsTo(slot, a)) + Cardinality(ElementsTo(n.array, a))
                               + More(owed, <<ArrayAt(f)>>)[a]
              /\ n.refs[a] = 0 => n.array[a] = <<>>
  <2>1. /\ Cardinality(ElementsTo(n.array, a)) = Cardinality(Cells(array, Only(a)))
        /\ Cardinality(ElementsTo(m.array, a)) = Cardinality(Cells(m.array, Only(a)))
    BY <1>14, ElementsAre
  <2>2. Cardinality(Places(m.array[f], Only(a))) = 0
    <3>1. m.array[f] = <<>>
      BY <1>2 DEF Sound
    <3> QED BY <3>1, PlacesOfNone
  <2>3. Count(e, a) = Cardinality(Places(e, Only(a))) /\ Count(e, a) \in Nat
    BY CountIs
  <2>4. Cardinality(Cells(array, Only(a))) + Cardinality(Places(m.array[f], Only(a)))
          = Cardinality(Cells(m.array, Only(a))) + Cardinality(Places(e, Only(a)))
    BY <1>9
  <2>5. Cardinality(Cells(array, Only(a))) \in Nat /\ Cardinality(Cells(m.array, Only(a))) \in Nat
        /\ Cardinality(SlotsTo(slot, a)) \in Nat /\ owed[a] \in Nat
    BY <1>1, CellsFinite, Numbers DEF Owings
  <2>6. Cardinality(Cells(array, Only(a))) = Cardinality(Cells(m.array, Only(a))) + Count(e, a)
    BY <2>2, <2>3, <2>4, <2>5
  <2>7. /\ m.refs[a] = Cardinality(SlotsTo(slot, a)) + Cardinality(Cells(m.array, Only(a))) + owed[a]
        /\ m.refs[a] = 0 => m.array[a] = <<>>
    BY <2>1 DEF Sound
  <2>8. More(owed, <<ArrayAt(f)>>)[a] = owed[a] + Is(ArrayAt(f), Only(a))
    <3>1. ArrayAt(f) \in Values /\ <<ArrayAt(f)>> \in Seq(Values)
      BY <1>2, ArrayValue
    <3>2. Count(<<ArrayAt(f)>>, a) = Is(ArrayAt(f), Only(a))
      BY <3>1, CountOne
    <3>3. More(owed, <<ArrayAt(f)>>)[a] = owed[a] + Count(<<ArrayAt(f)>>, a)
      BY <3>1, MoreOwings
    <3> QED BY <3>2, <3>3
  <2>9. Is(ArrayAt(f), Only(a)) = IF a = f THEN 1 ELSE 0
    BY DEF Is, Only, ArrayAt
  <2>10. refs[a] = m.refs[a] + Is(ArrayAt(f), Only(a)) + Count(e, a) /\ Is(ArrayAt(f), Only(a)) \in Nat
    BY <1>2, <1>10, <1>11, <2>9
  <2>11. refs[a] = Cardinality(SlotsTo(slot, a)) + Cardinality(Cells(array, Only(a)))
                     + (owed[a] + Is(ArrayAt(f), Only(a)))
    <3>1. refs[a] = (Cardinality(SlotsTo(slot, a)) + Cardinality(Cells(m.array, Only(a))) + owed[a])
                      + Is(ArrayAt(f), Only(a)) + Count(e, a)
      BY <2>7, <2>10
    <3> QED BY <2>3, <2>5, <2>6, <2>10, <3>1
  <2>12. refs[a] = 0 => a # f /\ m.refs[a] = 0
    BY <1>11, <2>9, <2>10
  <2> QED BY <1>8, <1>14, <2>1, <2>7, <2>8, <2>11, <2>12
<1>16. More(owed, <<ArrayAt(f)>>) \in Owings
  <2>1. <<ArrayAt(f)>> \in Seq(Values)
    BY <1>2, ArrayValue
  <2> QED BY <2>1, MoreOwings
<1> QED BY <1>1, <1>2, <1>8, <1>12, <1>14, <1>15, <1>16 DEF Sound

\* An element is replaced.
LEMMA CountReplaced ==
  ASSUME NEW e \in Seq(Values), NEW i \in DOMAIN e, NEW v \in Values, NEW a \in Addresses
  PROVE  /\ [e EXCEPT ![i] = v] \in Seq(Values) /\ Len([e EXCEPT ![i] = v]) = Len(e)
         /\ Count([e EXCEPT ![i] = v], a) + Is(e[i], Only(a)) = Count(e, a) + Is(v, Only(a))
<1> DEFINE then == [e EXCEPT ![i] = v]
           S == Places(e, Only(a)) \ {i}
<1>1. then \in Seq(Values) /\ Len(then) = Len(e)
  BY ExceptSeq
<1>2. IsFiniteSet(S) /\ i \notin S /\ Cardinality(S) \in Nat
  BY PlacesFinite, FS_RemoveElement, FS_CardinalityType
<1>3. Places(e, Only(a)) = IF e[i] \in Only(a) THEN S \cup {i} ELSE S
  BY DEF Places
<1>4. Places(then, Only(a)) = IF v \in Only(a) THEN S \cup {i} ELSE S
  BY <1>1 DEF Places
<1> HIDE DEF S, then
<1>5. Cardinality(S \cup {i}) = Cardinality(S) + 1
  BY <1>2, FS_AddElement
<1>6. Count(e, a) = Cardinality(Places(e, Only(a))) /\ Count(then, a) = Cardinality(Places(then, Only(a)))
  BY <1>1, CountIs
<1> QED BY <1>1, <1>2, <1>3, <1>4, <1>5, <1>6 DEF Is, then

-----------------------------------------------------------------------------
(* The operations.                                                           *)

\* Between operations nothing is owed, and what the last one published was right.
SlotsInv ==
  /\ Sound(memory, memory.slot, Nothing)
  /\ failed \in BOOLEAN /\ right = TRUE

LEMMA NothingOwed == Nothing \in Owings
BY DEF Nothing, Owings

\* One value is owed.
LEMMA OneOwed ==
  ASSUME NEW v \in Values
  PROVE  /\ <<v>> \in Seq(Values) /\ More(Nothing, <<v>>) \in Owings
         /\ \A a \in Addresses : More(Nothing, <<v>>)[a] = Is(v, Only(a))
         /\ IsArray(v) => v.data \in Addresses /\ More(Nothing, <<v>>)[v.data] # 0
<1>1. <<v>> \in Seq(Values)
  OBVIOUS
<1>2. \A a \in Addresses : More(Nothing, <<v>>)[a] = Is(v, Only(a))
  <2>1. ASSUME NEW a \in Addresses PROVE More(Nothing, <<v>>)[a] = Is(v, Only(a))
    <3>1. More(Nothing, <<v>>)[a] = Nothing[a] + Count(<<v>>, a)
      BY <1>1, NothingOwed, MoreOwings
    <3>2. Nothing[a] = 0 /\ Count(<<v>>, a) = Is(v, Only(a)) /\ Is(v, Only(a)) \in Nat
      BY CountOne, IsNat DEF Nothing
    <3> QED BY <3>1, <3>2
  <2> QED BY <2>1
<1>3. IsArray(v) => v.data \in Addresses /\ Is(v, Only(v.data)) # 0
  BY ValueForms DEF Is, Only
<1> QED BY <1>1, <1>2, <1>3, NothingOwed, MoreOwings

\* What an operation is given.
LEMMA Operand ==
  ASSUME SlotsParameters, SlotsInv, NEW s \in Locals
  PROVE  /\ In(s) \in Values
         /\ IsArray(In(s)) =>
              /\ In(s).data \in Addresses /\ memory.refs[In(s).data] # 0
              /\ Elements(memory, In(s)) = memory.array[In(s).data]
              /\ Elements(memory, In(s)) \in Seq(Values) /\ Len(Elements(memory, In(s))) <= MaxLen
         /\ IsArray(In(s)) => memory.refs[In(s).data] # 0
<1>1. Sound(memory, memory.slot, Nothing) /\ memory.slot \in [Locals -> Values] /\ memory.array \in Arrays
  BY DEF SlotsInv, Sound, Memories
<1>2. In(s) \in Values
  BY <1>1 DEF In
<1>3. ASSUME IsArray(In(s))
      PROVE  In(s).data \in Addresses /\ memory.refs[In(s).data] # 0
  <2>1. In(s).data \in Addresses /\ memory.slot[s] = ArrayAt(In(s).data)
    BY <1>2, <1>3, ValueForms DEF In
  <2> QED BY <1>1, <2>1, NothingOwed, Referred
<1>4. Elements(memory, In(s)) = memory.array[In(s).data]
  BY DEF Elements
<1> QED BY <1>1, <1>2, <1>3, <1>4 DEF Arrays

\* An element of an array.
LEMMA Element ==
  ASSUME SlotsParameters, SlotsInv, NEW b \in Addresses, NEW i \in DOMAIN memory.array[b]
  PROVE  /\ memory.array[b][i] \in Values
         /\ IsArray(memory.array[b][i]) => memory.refs[memory.array[b][i].data] # 0
<1>1. Sound(memory, memory.slot, Nothing) /\ memory.array \in Arrays
  BY DEF SlotsInv, Sound, Memories
<1>2. memory.array[b] \in Seq(Values)
  BY <1>1 DEF Arrays
<1>3. memory.array[b][i] \in Values
  BY <1>2
<1>4. ASSUME IsArray(memory.array[b][i])
      PROVE  memory.refs[memory.array[b][i].data] # 0
  <2>1. memory.array[b][i].data \in Addresses /\ memory.array[b][i] = ArrayAt(memory.array[b][i].data)
    BY <1>3, <1>4, ValueForms
  <2> QED BY <1>1, <2>1, NothingOwed, Referred
<1> QED BY <1>3, <1>4

\* A memory that an operation may leave.
Kept(n) == Sound(n, n.slot, Nothing)

LEMMA Published ==
  ASSUME NEW n, NEW correct, Kept(n), correct = TRUE, Publish(n, correct)
  PROVE  SlotsInv'
BY DEF SlotsInv, Publish, Kept

LEMMA Failed ==
  ASSUME SlotsInv, Fail
  PROVE  SlotsInv'
BY DEF SlotsInv, Fail

LEMMA Started ==
  ASSUME SlotsInv
  PROVE  /\ Kept(memory) /\ Sound(memory, memory.slot, Nothing) /\ memory \in Memories
         /\ memory.slot \in [Locals -> Values] /\ memory.array \in Arrays
BY DEF SlotsInv, Kept, Sound, Memories

LEMMA KeptCleared ==
  ASSUME SlotsParameters, NEW m, Kept(m), NEW d \in Locals, NEW n, n = Cleared(m, d)
  PROVE  Kept(n)
BY NothingOwed, ClearRight DEF Kept

\* gj_clear.
LEMMA DestroySlotKeeps ==
  ASSUME SlotsParameters, SlotsInv, NEW s \in Locals, DestroySlot(s)
  PROVE  SlotsInv'
<1>1. Kept(memory')
  BY Started, KeptCleared DEF DestroySlot
<1> QED BY <1>1 DEF SlotsInv, Kept, DestroySlot

LEMMA EpilogueKeeps ==
  ASSUME SlotsInv, Epilogue
  PROVE  SlotsInv'
BY DEF SlotsInv, Epilogue

\* A value that is not an array is handed over.
LEMMA PlainTaken ==
  ASSUME SlotsParameters, SlotsInv, NEW d \in Locals, NEW v \in Values, ~IsArray(v),
         NEW n, n = Take(memory, d, v)
  PROVE  Kept(n) /\ n.slot[d] = v
<1>1. Sound(memory, memory.slot, More(Nothing, <<v>>))
  BY Started, NothingOwed, PlainValue
<1>2. Sound(n, n.slot, Nothing) /\ n.slot = [memory.slot EXCEPT ![d] = v]
  BY <1>1, NothingOwed, TakeRight
<1> QED BY <1>2, Started DEF Kept

LEMMA NumberValue ==
  ASSUME SlotsParameters, NEW n \in -1..MaxLen
  PROVE  Number(n) \in Values /\ ~IsArray(Number(n))
BY DEF Values, Number, IsArray

\* gj_literal_int.
LEMMA LiteralKeeps ==
  ASSUME SlotsParameters, SlotsInv, NEW dst \in Locals, NEW n \in {-1, 0}, Literal(dst, n)
  PROVE  SlotsInv'
<1>1. Number(n) \in Values /\ ~IsArray(Number(n))
  BY NumberValue DEF SlotsParameters
<1>2. PICK m : m = Take(memory, dst, Number(n))
  OBVIOUS
<1>3. Kept(m)
  BY <1>1, <1>2, PlainTaken
<1> QED BY <1>2, <1>3, Published DEF Literal

\* A value that is there is copied before the destination is cleared.
LEMMA SnapshotRight ==
  ASSUME SlotsParameters, SlotsInv, NEW d \in Locals, NEW v \in Values,
         IsArray(v) => memory.refs[v.data] # 0, NEW n, n = Snapshot(d, v)
  PROVE  Kept(n) /\ n.slot[d] = v
<1> DEFINE values == <<v>>
<1>1. values \in Seq(Values) /\ Alive(memory, values)
  BY AliveOne
<1>2. PICK r : r = Retain(memory, values)
  OBVIOUS
<1>3. n = Take(r, d, v)
  BY <1>2 DEF Snapshot
<1>4. Sound(r, memory.slot, More(Nothing, values)) /\ r.slot = memory.slot
  <2> HIDE DEF values
  <2> QED BY <1>1, <1>2, Started, NothingOwed, RetainRight
<1>5. Sound(n, n.slot, Nothing) /\ n.slot = [r.slot EXCEPT ![d] = v]
  <2>1. Sound(r, r.slot, More(Nothing, <<v>>))
    BY <1>4
  <2> QED BY <1>3, <2>1, NothingOwed, TakeRight
<1> QED BY <1>4, <1>5, Started DEF Kept

\* gj_copy.
LEMMA CopyKeeps ==
  ASSUME SlotsParameters, SlotsInv, NEW dst \in Locals, NEW src \in Locals, Copy(dst, src)
  PROVE  SlotsInv'
<1>1. CASE dst = src
  BY <1>1, Started, Published DEF Copy
<1>2. CASE dst # src
  <2> DEFINE v == In(src)
             values == <<v>>
  <2>1. PICK c : c = Cleared(memory, dst)
    OBVIOUS
  <2>2. Sound(c, c.slot, Nothing) /\ c.slot = [memory.slot EXCEPT ![dst] = Nil]
    BY <2>1, Started, NothingOwed, ClearRight
  <2>3. c.slot[src] = v /\ c.slot[dst] = Nil /\ v \in Values
    BY <1>2, <2>2, Started DEF In
  <2>4. IsArray(v) => c.refs[v.data] # 0
    <3> SUFFICES ASSUME IsArray(v)
                 PROVE  c.refs[v.data] # 0
      OBVIOUS
    <3> DEFINE a == v.data
    <3>1. a \in Addresses /\ c.slot[src] = ArrayAt(a)
      BY <2>3, ValueForms
    <3> HIDE DEF v, a
    <3>2. \E s \in Locals : c.slot[s] = ArrayAt(a)
      BY <3>1
    <3>3. Sound(c, c.slot, Nothing)
      BY <2>2
    <3>4. c.refs[a] # 0
      BY <3>1, <3>2, <3>3, NothingOwed, Referred
    <3> QED BY <3>4 DEF a
  <2> HIDE DEF v
  <2>5. values \in Seq(Values) /\ Alive(c, values)
    BY <2>3, <2>4, AliveOne
  <2>6. PICK r : r = Retain(c, values)
    OBVIOUS
  <2>7. Sound(r, c.slot, More(Nothing, values)) /\ r.slot = c.slot
    <3> HIDE DEF values
    <3> QED BY <2>2, <2>5, <2>6, NothingOwed, RetainRight
  <2>8. PICK n : n = [r EXCEPT !.slot[dst] = v]
    OBVIOUS
  <2>9. Publish(n, TRUE)
    BY <1>2, <2>1, <2>6, <2>8 DEF Copy, v
  <2>10. Alike(r, n) /\ n.slot = [c.slot EXCEPT ![dst] = v]
    <3>1. r \in Memories
      BY <2>7 DEF Sound
    <3>2. Assigned(r, n, dst, v)
      BY <2>3, <2>8, <3>1, SlotSet
    <3> QED BY <2>7, <3>2 DEF Assigned
  <2>11. Sound(r, [c.slot EXCEPT ![dst] = v], More(Nothing, <<c.slot[dst]>>))
    BY <2>3, <2>7, NothingOwed, Exchanged
  <2>12. Sound(r, n.slot, Nothing)
    BY <2>3, <2>10, <2>11, NothingOwed, NilValue, PlainValue
  <2>13. Kept(n)
    BY <2>10, <2>12, SoundAlike DEF Kept
  <2> QED BY <2>9, <2>13, Published
<1> QED BY <1>1, <1>2

\* gj_get_indexed.
LEMMA GetIndexedKeeps ==
  ASSUME SlotsParameters, SlotsInv, NEW dst \in Locals, NEW self \in Locals, NEW index \in Locals,
         GetIndexed(dst, self, index)
  PROVE  SlotsInv'
<1> DEFINE elements == Elements(memory, In(self))
           i == Position(elements, In(index).data)
<1>1. CASE Fail
  BY <1>1, Failed
<1>2. CASE ~Fail
  <2>1. /\ IsArray(In(self)) /\ i \in DOMAIN elements
        /\ Publish(Snapshot(dst, elements[i]), Snapshot(dst, elements[i]).slot[dst] = elements[i])
    BY <1>2 DEF GetIndexed
  <2>2. In(self).data \in Addresses /\ elements = memory.array[In(self).data]
    BY <2>1, Operand
  <2> HIDE DEF i, elements
  <2>3. /\ elements[i] \in Values
        /\ IsArray(elements[i]) => memory.refs[elements[i].data] # 0
    BY <2>1, <2>2, Element
  <2>4. PICK n : n = Snapshot(dst, elements[i])
    OBVIOUS
  <2>5. Kept(n) /\ n.slot[dst] = elements[i]
    BY <2>3, <2>4, SnapshotRight
  <2> QED BY <2>1, <2>4, <2>5, Published
<1> QED BY <1>1, <1>2

\* gj_array_next.
LEMMA ArrayNextKeeps ==
  ASSUME SlotsParameters, SlotsInv, NEW item \in Locals, NEW self \in Locals, NEW index,
         ArrayNext(item, self, index)
  PROVE  SlotsInv'
<1> DEFINE elements == Elements(memory, In(self))
           i == Position(elements, index)
<1>1. CASE Fail
  BY <1>1, Failed
<1>2. CASE Publish(memory, TRUE)
  BY <1>2, Started, Published
<1>3. CASE ~Fail /\ ~Publish(memory, TRUE)
  <2>1. /\ IsArray(In(self)) /\ i \in DOMAIN elements
        /\ Publish(Snapshot(item, elements[i]), Snapshot(item, elements[i]).slot[item] = elements[i])
    BY <1>3 DEF ArrayNext
  <2>2. In(self).data \in Addresses /\ elements = memory.array[In(self).data]
    BY <2>1, Operand
  <2> HIDE DEF i, elements
  <2>3. /\ elements[i] \in Values
        /\ IsArray(elements[i]) => memory.refs[elements[i].data] # 0
    BY <2>1, <2>2, Element
  <2>4. PICK n : n = Snapshot(item, elements[i])
    OBVIOUS
  <2>5. Kept(n) /\ n.slot[item] = elements[i]
    BY <2>3, <2>4, SnapshotRight
  <2> QED BY <2>1, <2>4, <2>5, Published
<1> QED BY <1>1, <1>2, <1>3

\* gj_array_size.
LEMMA ArraySizeKeeps ==
  ASSUME SlotsParameters, SlotsInv, NEW dst \in Locals, NEW self \in Locals, ArraySize(dst, self)
  PROVE  SlotsInv'
<1> DEFINE n == Number(Len(Elements(memory, In(self))))
<1>1. CASE Fail
  BY <1>1, Failed
<1>2. CASE ~Fail
  <2>1. IsArray(In(self)) /\ Publish(Take(memory, dst, n), Take(memory, dst, n).slot[dst] = n)
    BY <1>2 DEF ArraySize
  <2>2. Len(Elements(memory, In(self))) \in 0..MaxLen
    BY <2>1, Operand DEF SlotsParameters
  <2>3. n \in Values /\ ~IsArray(n)
    BY <2>2, NumberValue DEF SlotsParameters
  <2> HIDE DEF n
  <2>4. PICK m : m = Take(memory, dst, n)
    OBVIOUS
  <2>5. Kept(m) /\ m.slot[dst] = n
    BY <2>3, <2>4, PlainTaken
  <2> QED BY <2>1, <2>4, <2>5, Published
<1> QED BY <1>1, <1>2

\* A new array is handed over: it holds what it was built from.
LEMMA BuiltAlive ==
  ASSUME SlotsParameters, NEW n, Sound(n, n.slot, Nothing), NEW d \in Locals, NEW f \in Addresses,
         n.slot[d] = ArrayAt(f), NEW b, Survives(b, n)
  PROVE  Elements(n, n.slot[d]) = b.array[f]
<1> DEFINE slot == n.slot
<1>1. \E s \in Locals : slot[s] = ArrayAt(f)
  OBVIOUS
<1>2. Sound(n, slot, Nothing)
  OBVIOUS
<1> HIDE DEF slot
<1>3. n.refs[f] # 0
  BY <1>1, <1>2, NothingOwed, Referred
<1>4. n.array[f] = b.array[f]
  BY <1>3 DEF Survives
<1> QED BY <1>4, ArrayValue DEF Elements

\* gj_evaluate: arrays are concatenated.
LEMMA EvaluateKeeps ==
  ASSUME SlotsParameters, SlotsInv, NEW dst \in Locals, NEW x \in Locals, NEW y \in Locals,
         Evaluate(dst, x, y)
  PROVE  SlotsInv'
<1> DEFINE first == Elements(memory, In(x))
           second == Elements(memory, In(y))
           sum == first \o second
           m == Concatenated(dst, In(x), In(y))
<1>1. CASE Fail
  BY <1>1, Failed
<1>2. CASE ~Fail
  <2>1. /\ IsArray(In(x)) /\ IsArray(In(y))
        /\ Len(sum) <= MaxLen /\ Unused(memory) # {}
        /\ Publish(m, Elements(m, m.slot[dst]) = sum)
    BY <1>2 DEF Evaluate
  <2>2. /\ In(x).data \in Addresses /\ memory.refs[In(x).data] # 0
        /\ first = memory.array[In(x).data] /\ first \in Seq(Values)
    BY <2>1, Operand
  <2>3. /\ In(y).data \in Addresses /\ memory.refs[In(y).data] # 0
        /\ second = memory.array[In(y).data] /\ second \in Seq(Values)
    BY <2>1, Operand
  <2>4. Read(Read(memory, In(x)), In(y)) = memory
    BY <2>2, <2>3 DEF Read
  <2> HIDE DEF first, second
  <2>5. sum \in Seq(Values) /\ Alive(memory, sum)
    <3>1. /\ sum \in Seq(Values) /\ Len(sum) = Len(first) + Len(second)
          /\ Len(first) \in Nat /\ Len(second) \in Nat
          /\ \A i \in 1..(Len(first) + Len(second)) :
                sum[i] = IF i <= Len(first) THEN first[i] ELSE second[i - Len(first)]
      <4>1. first \in Seq(Values) /\ second \in Seq(Values)
        BY <2>2, <2>3
      <4>2. Len(first) \in Nat /\ Len(second) \in Nat
        BY <4>1
      <4> QED BY <4>1, <4>2, ConcatProperties
    <3> HIDE DEF sum
    <3>2. ASSUME NEW i \in 1..Len(sum), IsArray(sum[i])
          PROVE  memory.refs[sum[i].data] # 0
      <4>1. CASE i <= Len(first)
        <5>1. i \in DOMAIN memory.array[In(x).data] /\ sum[i] = memory.array[In(x).data][i]
          BY <2>2, <3>1, <4>1
        <5> QED BY <2>2, <3>2, <5>1, Element
      <4>2. CASE ~(i <= Len(first))
        <5> DEFINE k == i - Len(first)
        <5>1. k \in DOMAIN memory.array[In(y).data] /\ sum[i] = memory.array[In(y).data][k]
          BY <2>3, <3>1, <4>2
        <5> HIDE DEF k
        <5> QED BY <2>3, <3>2, <5>1, Element
      <4> QED BY <4>1, <4>2
    <3> QED BY <3>1, <3>2, AliveAll
  <2>6. PICK f : f = Fresh(memory)
    OBVIOUS
  <2>7. PICK b : b = Build(memory, sum)
    OBVIOUS
  <2>8. m = Take(b, dst, ArrayAt(f))
    BY <2>4, <2>6, <2>7 DEF Concatenated, first, second
  <2> HIDE DEF sum, m
  <2>9. f \in Addresses /\ ArrayAt(f) \in Values
    BY <2>1, <2>6, FreshIs, ArrayValue
  <2>10. /\ Sound(b, memory.slot, More(Nothing, <<ArrayAt(f)>>))
         /\ b.slot = memory.slot /\ b.array[f] = sum
    BY <2>1, <2>5, <2>6, <2>7, Started, NothingOwed, BuildRight
  <2>11. /\ Sound(m, m.slot, Nothing) /\ Survives(b, m)
         /\ m.slot = [b.slot EXCEPT ![dst] = ArrayAt(f)]
    <3>1. Sound(b, b.slot, More(Nothing, <<ArrayAt(f)>>))
      BY <2>10
    <3> QED BY <2>8, <2>9, <3>1, NothingOwed, TakeRight
  <2>12. m.slot[dst] = ArrayAt(f)
    BY <2>10, <2>11, Started
  <2>13. Elements(m, m.slot[dst]) = sum
    <3>1. Sound(m, m.slot, Nothing) /\ Survives(b, m)
      BY <2>11
    <3>2. Elements(m, m.slot[dst]) = b.array[f]
      BY <2>9, <2>12, <3>1, BuiltAlive
    <3> QED BY <2>10, <3>2
  <2> QED BY <2>1, <2>11, <2>13, Published DEF Kept
<1> QED BY <1>1, <1>2

\* A value is retained once more.
LEMMA RetainedOne ==
  ASSUME SlotsParameters, NEW m, NEW slot, NEW owed \in Owings, Sound(m, slot, owed),
         NEW v \in Values, IsArray(v) => m.refs[v.data] # 0, NEW n, n = Retain(m, <<v>>)
  PROVE  /\ Sound(n, slot, More(owed, <<v>>)) /\ Survives(m, n)
         /\ n.slot = m.slot /\ n.array = m.array
<1> DEFINE values == <<v>>
<1>1. values \in Seq(Values) /\ Alive(m, values) /\ n = Retain(m, values)
  BY AliveOne
<1>2. /\ Sound(n, slot, More(owed, values)) /\ Survives(m, n)
      /\ n.slot = m.slot /\ n.array = m.array
  <2> HIDE DEF values
  <2> QED BY <1>1, RetainRight
<1> QED BY <1>2

\* A value is released that was owed.
LEMMA ReleasedOne ==
  ASSUME SlotsParameters, NEW m, NEW slot, NEW owed \in Owings, NEW v \in Values,
         Sound(m, slot, More(owed, <<v>>)), NEW n, n = Release(m, <<v>>)
  PROVE  Sound(n, slot, owed) /\ n.slot = m.slot /\ Survives(m, n)
<1> DEFINE values == <<v>>
<1>1. values \in Seq(Values) /\ Sound(m, slot, More(owed, values)) /\ n = Release(m, values)
  OBVIOUS
<1> HIDE DEF values
<1> QED BY <1>1, ReleaseRight

\* A value that is owed is there.
LEMMA OwedAlive ==
  ASSUME SlotsParameters, NEW m, NEW slot, NEW v \in Values, Sound(m, slot, More(Nothing, <<v>>))
  PROVE  IsArray(v) => m.refs[v.data] # 0
<1> SUFFICES ASSUME IsArray(v)
             PROVE  m.refs[v.data] # 0
  OBVIOUS
<1> DEFINE a == v.data
           owed == More(Nothing, <<v>>)
<1>1. owed \in Owings /\ a \in Addresses /\ owed[a] # 0 /\ Sound(m, slot, owed)
  BY OneOwed
<1> HIDE DEF a, owed
<1>2. m.refs[a] # 0
  BY <1>1, Referred
<1> QED BY <1>2 DEF a

\* gj_move: a result is copied to its destination, and its own reference ends.
LEMMA MovedRight ==
  ASSUME SlotsParameters, NEW m, NEW d \in Locals, NEW v \in Values,
         Sound(m, m.slot, More(Nothing, <<v>>)), NEW n, n = Moved(m, d, v)
  PROVE  Sound(n, n.slot, Nothing) /\ n.slot[d] = v /\ Survives(m, n)
<1> DEFINE owed == More(Nothing, <<v>>)
<1>1. owed \in Owings /\ Sound(m, m.slot, owed) /\ (IsArray(v) => m.refs[v.data] # 0)
  BY OneOwed, OwedAlive
<1>2. PICK r : r = Retain(m, <<v>>)
  OBVIOUS
<1> HIDE DEF owed
<1>3. Sound(r, m.slot, More(owed, <<v>>)) /\ Survives(m, r) /\ r.slot = m.slot
  BY <1>1, <1>2, RetainedOne
<1>4. PICK t : t = Take(r, d, v)
  OBVIOUS
<1>5. Sound(t, t.slot, owed) /\ Survives(r, t) /\ t.slot = [r.slot EXCEPT ![d] = v]
  <2>1. Sound(r, r.slot, More(owed, <<v>>))
    BY <1>3
  <2> QED BY <1>1, <1>4, <2>1, TakeRight
<1>6. n = Release(t, <<v>>)
  BY <1>2, <1>4 DEF Moved
<1>7. Sound(n, t.slot, Nothing) /\ n.slot = t.slot /\ Survives(t, n)
  <2>1. Sound(t, t.slot, More(Nothing, <<v>>))
    BY <1>5 DEF owed
  <2> QED BY <1>6, <2>1, NothingOwed, ReleasedOne
<1>8. Survives(m, n)
  BY <1>3, <1>5, <1>7 DEF Survives
<1>9. m.slot \in [Locals -> Values]
  BY DEF Sound
<1> QED BY <1>3, <1>5, <1>7, <1>8, <1>9

\* gj_make_array.
LEMMA MakeArrayKeeps ==
  ASSUME SlotsParameters, SlotsInv, NEW dst \in Locals, NEW args \in Arguments, MakeArray(dst, args)
  PROVE  SlotsInv'
<1> DEFINE values == [k \in DOMAIN args |-> In(args[k])]
           m == Moved(Build(memory, values), dst, ArrayAt(Fresh(memory)))
<1>1. /\ Len(args) <= MaxLen /\ Unused(memory) # {}
      /\ Publish(m, Elements(m, m.slot[dst]) = values)
  BY DEF MakeArray
<1>2. PICK n \in 0..2 : args \in [1..n -> Locals]
  BY DEF Arguments
<1>3. \A k \in 1..n : args[k] \in Locals
  BY <1>2
<1>4. values \in Seq(Values) /\ Len(values) = n /\ Len(args) = n /\ \A k \in 1..n : values[k] = In(args[k])
  <2>1. \A k \in 1..n : In(args[k]) \in Values
    BY <1>3, Operand
  <2>2. values \in [1..n -> Values]
    BY <1>2, <2>1
  <2> QED BY <1>2, <2>2
<1> HIDE DEF values
<1>5. Alive(memory, values) /\ Len(values) <= MaxLen
  <2>1. ASSUME NEW k \in 1..Len(values), IsArray(values[k])
        PROVE  memory.refs[values[k].data] # 0
    <3>1. args[k] \in Locals /\ values[k] = In(args[k])
      BY <1>3, <1>4
    <3> QED BY <2>1, <3>1, Operand
  <2> QED BY <1>1, <1>4, <2>1, AliveAll
<1>6. PICK f : f = Fresh(memory)
  OBVIOUS
<1>7. PICK b : b = Build(memory, values)
  OBVIOUS
<1>8. m = Moved(b, dst, ArrayAt(f))
  BY <1>6, <1>7
<1> HIDE DEF m
<1>9. f \in Addresses /\ ArrayAt(f) \in Values
  BY <1>1, <1>6, FreshIs, ArrayValue
<1>10. /\ Sound(b, memory.slot, More(Nothing, <<ArrayAt(f)>>))
       /\ b.slot = memory.slot /\ b.array[f] = values
  BY <1>1, <1>4, <1>5, <1>6, <1>7, Started, NothingOwed, BuildRight
<1>11. Sound(m, m.slot, Nothing) /\ m.slot[dst] = ArrayAt(f) /\ Survives(b, m)
  <2>1. Sound(b, b.slot, More(Nothing, <<ArrayAt(f)>>))
    BY <1>10
  <2> QED BY <1>8, <1>9, <2>1, MovedRight
<1>12. Elements(m, m.slot[dst]) = values
  <2>1. Elements(m, m.slot[dst]) = b.array[f]
    BY <1>9, <1>11, BuiltAlive
  <2> QED BY <1>10, <2>1
<1> QED BY <1>1, <1>11, <1>12, Published DEF Kept

\* gj_coerce to an array, which the engine constructs.
LEMMA CoerceKeeps ==
  ASSUME SlotsParameters, SlotsInv, NEW dst \in Locals, NEW x \in Locals, Coerce(dst, x)
  PROVE  SlotsInv'
<1> DEFINE v == In(x)
           m == Moved(Constructed(memory, v), dst, v)
           owed == More(Nothing, <<v>>)
<1>1. CASE Fail
  BY <1>1, Failed
<1>2. CASE ~Fail
  <2>1. Publish(m, m.slot[dst] = v)
    BY <1>2 DEF Coerce
  <2>2. v \in Values /\ (IsArray(v) => memory.refs[v.data] # 0)
    BY Operand
  <2>3. PICK c : c = Constructed(memory, v)
    OBVIOUS
  <2>4. m = Moved(c, dst, v)
    BY <2>3
  <2> HIDE DEF v, m
  <2>5. PICK r : r = Retain(memory, <<v>>)
    OBVIOUS
  <2>6. PICK s : s = Retain(r, <<v>>)
    OBVIOUS
  <2>7. c = Release(s, <<v>>)
    BY <2>3, <2>5, <2>6 DEF Constructed
  <2>8. Sound(r, memory.slot, owed) /\ r.slot = memory.slot
    BY <2>2, <2>5, Started, NothingOwed, RetainedOne
  <2>9. owed \in Owings /\ (IsArray(v) => r.refs[v.data] # 0)
    BY <2>2, <2>8, OneOwed, OwedAlive
  <2> HIDE DEF owed
  <2>10. Sound(s, memory.slot, More(owed, <<v>>)) /\ s.slot = r.slot
    BY <2>2, <2>6, <2>8, <2>9, RetainedOne
  <2>11. Sound(c, memory.slot, owed) /\ c.slot = s.slot
    BY <2>2, <2>7, <2>9, <2>10, ReleasedOne
  <2>12. Sound(c, c.slot, More(Nothing, <<v>>))
    BY <2>8, <2>10, <2>11 DEF owed
  <2>13. Sound(m, m.slot, Nothing) /\ m.slot[dst] = v
    BY <2>2, <2>4, <2>12, MovedRight
  <2> QED BY <2>1, <2>13, Published DEF Kept
<1> QED BY <1>1, <1>2

\* An element is written, and what it held released.
LEMMA StoredRight ==
  ASSUME SlotsParameters, SlotsInv, NEW self \in Locals, IsArray(In(self)),
         NEW i \in DOMAIN Elements(memory, In(self)), NEW item \in Locals,
         NEW n, n = Stored(In(self), i, In(item))
  PROVE  Kept(n)
<1> DEFINE v == In(item)
           b == In(self).data
           e == memory.array[b]
           old == e[i]
           then == [e EXCEPT ![i] = v]
           owed == More(Nothing, <<v>>)
           leaves == More(Nothing, <<old>>)
<1>1. v \in Values /\ (IsArray(v) => memory.refs[v.data] # 0)
  BY Operand
<1>2. /\ b \in Addresses /\ memory.refs[b] # 0 /\ e \in Seq(Values) /\ Len(e) <= MaxLen
      /\ i \in DOMAIN e
  BY Operand
<1>3. old \in Values
  BY <1>2
<1>4. PICK r : r = Retain(memory, <<v>>)
  OBVIOUS
<1>5. /\ Sound(r, memory.slot, owed) /\ r.slot = memory.slot /\ r.array = memory.array
  <2> HIDE DEF v
  <2> QED BY <1>1, <1>4, Started, NothingOwed, RetainedOne
<1>6. PICK w : w = [r EXCEPT !.array[b][i] = v]
  OBVIOUS
<1>7. n = Release(w, <<old>>)
  BY <1>4, <1>6 DEF Stored
<1>8. w = [r EXCEPT !.array[b] = then]
  <2>1. r.array[b] = e
    BY <1>5
  <2> QED BY <1>6, <2>1
<1>9. /\ then \in Seq(Values) /\ Len(then) <= MaxLen
      /\ \A a \in Addresses : Count(then, a) + Is(old, Only(a)) = Count(e, a) + Is(v, Only(a))
  <2> HIDE DEF v, e
  <2> QED BY <1>1, <1>2, CountReplaced
<1>10. memory.slot[self] = ArrayAt(b)
  <2>1. In(self) \in Values
    BY Operand
  <2> QED BY <2>1, ValueForms DEF In
<1> HIDE DEF v, b, e, old, then
<1>11. r.refs[b] # 0
  <2>1. \E s \in Locals : memory.slot[s] = ArrayAt(b)
    BY <1>10
  <2>2. owed \in Owings
    BY <1>1, OneOwed
  <2> HIDE DEF owed
  <2> QED BY <1>2, <1>5, <2>1, <2>2, Referred
<1>12. /\ owed \in Owings /\ leaves \in Owings
       /\ \A a \in Addresses : owed[a] = Is(v, Only(a)) /\ leaves[a] = Is(old, Only(a))
  BY <1>1, <1>3, OneOwed
<1> HIDE DEF owed, leaves
<1>13. ASSUME NEW a \in Addresses
       PROVE  leaves[a] = owed[a] + Count(r.array[b], a) - Count(then, a)
  <2>1. Count(then, a) \in Nat /\ Count(e, a) \in Nat
    BY <1>2, <1>9, CountIs
  <2>2. Count(then, a) + Is(old, Only(a)) = Count(e, a) + Is(v, Only(a))
    BY <1>9
  <2>3. Is(old, Only(a)) = Is(v, Only(a)) + Count(e, a) - Count(then, a)
    BY <2>1, <2>2, IsNat
  <2>4. r.array[b] = e
    BY <1>5 DEF e
  <2> QED BY <1>12, <2>3, <2>4
<1>14. Sound(w, memory.slot, leaves) /\ w.slot = r.slot
  <2>1. r \in Memories
    BY <1>5 DEF Sound
  <2>2. Rewritten(r, w, b, then)
    BY <1>2, <1>8, <1>9, <2>1, ArraySet
  <2> QED BY <1>2, <1>5, <1>9, <1>11, <1>12, <1>13, <2>2, ArrayWritten
<1>15. Sound(n, memory.slot, Nothing) /\ n.slot = w.slot
  <2>1. Sound(w, memory.slot, More(Nothing, <<old>>))
    BY <1>14 DEF leaves
  <2> QED BY <1>3, <1>7, <2>1, NothingOwed, ReleasedOne
<1> QED BY <1>5, <1>14, <1>15 DEF Kept

\* gj_set_indexed.
LEMMA SetIndexedKeeps ==
  ASSUME SlotsParameters, SlotsInv, NEW dst \in Locals, NEW self \in Locals, NEW index \in Locals,
         NEW item \in Locals, SetIndexed(dst, self, index, item)
  PROVE  SlotsInv'
<1> DEFINE i == Position(Elements(memory, In(self)), In(index).data)
           n == Stored(In(self), i, In(item))
<1>1. CASE Fail
  BY <1>1, Failed
<1>2. CASE ~Fail
  <2>1. IsArray(In(self)) /\ i \in DOMAIN Elements(memory, In(self)) /\ Publish(Cleared(n, dst), TRUE)
    BY <1>2 DEF SetIndexed
  <2> HIDE DEF i
  <2>2. Kept(n)
    BY <2>1, StoredRight
  <2> HIDE DEF n
  <2>3. Kept(Cleared(n, dst))
    BY <2>2, KeptCleared
  <2> QED BY <2>1, <2>3, Published
<1> QED BY <1>1, <1>2

\* gj_call_method: the last element is taken off an array.
LEMMA PopBackKeeps ==
  ASSUME SlotsParameters, SlotsInv, NEW dst \in Locals, NEW self \in Locals, IsArray(In(self)),
         PopBack(dst, In(self))
  PROVE  SlotsInv'
<1> DEFINE b == In(self).data
           e == memory.array[b]
           last == e[Len(e)]
           then == SubSeq(e, 1, Len(e) - 1)
           w == [memory EXCEPT !.array[b] = then]
           m == Take(w, dst, last)
           owed == More(Nothing, <<last>>)
<1>1. b \in Addresses /\ memory.refs[b] # 0 /\ e \in Seq(Values) /\ Len(e) <= MaxLen
  BY Operand
<1>2. CASE e = <<>>
  <2>1. Publish(Cleared(memory, dst), TRUE)
    BY <1>2 DEF PopBack, Elements
  <2>2. Kept(Cleared(memory, dst))
    BY Started, KeptCleared
  <2> QED BY <2>1, <2>2, Published
<1>3. CASE e # <<>>
  <2>1. Publish(m, m.slot[dst] = last)
    BY <1>3 DEF PopBack, Elements
  <2>2. Len(e) \in Nat \ {0}
    BY <1>1, <1>3, EmptySeq
  <2>3. last \in Values /\ then \in Seq(Values) /\ Len(then) = Len(e) - 1 /\ e = then \o <<last>>
    <3>1. last \in Values
      BY <1>1, <2>2
    <3>2. then \in Seq(Values) /\ Len(then) = Len(e) - 1 /\ \A k \in 1..(Len(e) - 1) : then[k] = e[k]
      BY <1>1, <2>2, SubSeqProperties
    <3>3. <<last>> \in Seq(Values) /\ Len(<<last>>) = 1 /\ <<last>>[1] = last
      BY <3>1
    <3> HIDE DEF then, e, last
    <3>4. then \o <<last>> \in Seq(Values) /\ Len(then \o <<last>>) = Len(e)
          /\ \A k \in 1..Len(e) : (then \o <<last>>)[k] = IF k <= Len(e) - 1 THEN then[k] ELSE <<last>>[k - (Len(e) - 1)]
      BY <2>2, <3>2, <3>3, ConcatProperties
    <3>5. \A k \in 1..Len(e) : (then \o <<last>>)[k] = e[k]
      BY <2>2, <3>2, <3>3, <3>4 DEF last
    <3> QED BY <1>1, <3>1, <3>2, <3>4, <3>5, SeqEqual
  <2> HIDE DEF then, last
  <2>4. \A a \in Addresses : /\ Count(e, a) = Count(then, a) + Is(last, Only(a))
                             /\ Count(then, a) \in Nat
    <3>1. <<last>> \in Seq(Values)
      BY <2>3
    <3>2. ASSUME NEW a \in Addresses
          PROVE  Count(e, a) = Count(then, a) + Is(last, Only(a)) /\ Count(then, a) \in Nat
      <4>1. Count(then \o <<last>>, a) = Count(then, a) + Count(<<last>>, a)
        BY <2>3, <3>1, CountJoined
      <4>2. Count(<<last>>, a) = Is(last, Only(a)) /\ Count(then, a) \in Nat
        BY <2>3, CountOne, CountIs
      <4>3. Count(e, a) = Count(then \o <<last>>, a)
        BY <2>3
      <4> QED BY <4>1, <4>2, <4>3
    <3> QED BY <3>2
  <2>5. owed \in Owings /\ \A a \in Addresses : owed[a] = Is(last, Only(a))
    BY <2>3, OneOwed
  <2> HIDE DEF owed
  <2>6. ASSUME NEW a \in Addresses
        PROVE  owed[a] = Nothing[a] + Count(memory.array[b], a) - Count(then, a)
    <3>1. Count(e, a) = Count(then, a) + Is(last, Only(a)) /\ Count(then, a) \in Nat /\ Is(last, Only(a)) \in Nat
      BY <2>4, IsNat
    <3>2. Count(e, a) - Count(then, a) = Is(last, Only(a))
      BY <3>1
    <3> QED BY <2>5, <3>1, <3>2 DEF Nothing
  <2>7. PICK k : k = w
    OBVIOUS
  <2>8. Len(then) <= MaxLen
    BY <1>1, <2>2, <2>3 DEF SlotsParameters
  <2> HIDE DEF b
  <2>9. Sound(k, memory.slot, owed) /\ k.slot = memory.slot
    <3>1. Rewritten(memory, k, b, then)
      BY <1>1, <2>3, <2>7, <2>8, Started, ArraySet
    <3>2. Sound(memory, memory.slot, Nothing)
      BY Started
    <3>3. then \in Seq(Values) /\ owed \in Owings
      BY <2>3, <2>5
    <3> QED BY <1>1, <2>6, <2>8, <3>1, <3>2, <3>3, NothingOwed, ArrayWritten
  <2>10. m = Take(k, dst, last)
    BY <2>7
  <2> HIDE DEF m, w
  <2>11. Sound(m, m.slot, Nothing) /\ m.slot = [k.slot EXCEPT ![dst] = last]
    <3>1. Sound(k, k.slot, More(Nothing, <<last>>))
      BY <2>9 DEF owed
    <3>2. last \in Values
      BY <2>3
    <3> QED BY <2>10, <3>1, <3>2, NothingOwed, TakeRight
  <2>12. m.slot[dst] = last
    BY <2>9, <2>11, Started
  <2> QED BY <2>1, <2>11, <2>12, Published DEF Kept
<1> QED BY <1>2, <1>3

\* gj_call_method: an element is put on.
LEMMA PushBackKeeps ==
  ASSUME SlotsParameters, SlotsInv, NEW dst \in Locals, NEW self \in Locals, IsArray(In(self)),
         NEW arg \in Locals, PushBack(dst, In(self), In(arg))
  PROVE  SlotsInv'
<1> DEFINE b == In(self).data
           e == memory.array[b]
           v == In(arg)
           then == Append(e, v)
           owed == More(Nothing, <<v>>)
<1>1. b \in Addresses /\ memory.refs[b] # 0 /\ e \in Seq(Values) /\ Len(e) <= MaxLen
  BY Operand
<1>2. v \in Values /\ (IsArray(v) => memory.refs[v.data] # 0)
  BY Operand
<1>3. PICK r : r = Retain(memory, <<v>>)
  OBVIOUS
<1>4. PICK w : w = [r EXCEPT !.array[b] = Append(@, v)]
  OBVIOUS
<1>5. Len(e) < MaxLen /\ Publish(Cleared(w, dst), TRUE)
  BY <1>3, <1>4 DEF PushBack, Elements
<1>6. memory.slot[self] = ArrayAt(b)
  <2>1. In(self) \in Values
    BY Operand
  <2> QED BY <2>1, ValueForms DEF In
<1>7. owed \in Owings /\ \A a \in Addresses : owed[a] = Is(v, Only(a))
  BY <1>2, OneOwed
<1>8. Sound(r, memory.slot, owed) /\ r.slot = memory.slot /\ r.array = memory.array
  <2> HIDE DEF v
  <2> QED BY <1>2, <1>3, Started, NothingOwed, RetainedOne
<1>9. w = [r EXCEPT !.array[b] = then]
  <2>1. r.array[b] = e
    BY <1>8
  <2> QED BY <1>4, <2>1
<1>10. then \in Seq(Values) /\ Len(then) <= MaxLen /\ then = e \o <<v>>
  <2>1. then \in Seq(Values) /\ Len(then) = Len(e) + 1
    BY <1>1, <1>2, AppendProperties
  <2>2. then = e \o <<v>>
    BY <1>1, <1>2, AppendIsConcat
  <2>3. Len(e) \in Nat
    BY <1>1
  <2> QED BY <1>5, <2>1, <2>2, <2>3 DEF SlotsParameters
<1> HIDE DEF b, v, then, owed
<1>11. r.refs[b] # 0
  <2>1. \E s \in Locals : memory.slot[s] = ArrayAt(b)
    BY <1>6
  <2> QED BY <1>1, <1>7, <1>8, <2>1, Referred
<1>12. ASSUME NEW a \in Addresses
       PROVE  Nothing[a] = owed[a] + Count(r.array[b], a) - Count(then, a)
  <2>1. <<v>> \in Seq(Values)
    BY <1>2
  <2>2. Count(e \o <<v>>, a) = Count(e, a) + Count(<<v>>, a) /\ Count(e, a) \in Nat
    BY <1>1, <2>1, CountJoined, CountIs
  <2>3. Count(<<v>>, a) = Is(v, Only(a)) /\ Is(v, Only(a)) \in Nat
    BY <1>2, CountOne, IsNat
  <2>4. r.array[b] = e /\ owed[a] = Is(v, Only(a)) /\ Count(then, a) = Count(e \o <<v>>, a)
    BY <1>7, <1>8, <1>10
  <2>5. Is(v, Only(a)) + Count(e, a) - (Count(e, a) + Is(v, Only(a))) = 0
    BY <2>2, <2>3
  <2> QED BY <2>2, <2>3, <2>4, <2>5 DEF Nothing
<1>13. Sound(w, memory.slot, Nothing) /\ w.slot = r.slot
  <2>1. r \in Memories
    BY <1>8 DEF Sound
  <2>2. then \in Seq(Values) /\ Len(then) <= MaxLen
    BY <1>10
  <2>3. Rewritten(r, w, b, then)
    BY <1>1, <1>9, <2>1, <2>2, ArraySet
  <2> QED BY <1>1, <1>7, <1>8, <1>11, <1>12, <2>2, <2>3, NothingOwed, ArrayWritten
<1>14. Kept(w)
  BY <1>8, <1>13 DEF Kept
<1>15. Kept(Cleared(w, dst))
  BY <1>14, KeptCleared
<1> QED BY <1>5, <1>15, Published

LEMMA CallMethodKeeps ==
  ASSUME SlotsParameters, SlotsInv, NEW dst \in Locals, NEW self \in Locals, NEW arg \in Locals,
         CallMethod(dst, self, arg)
  PROVE  SlotsInv'
<1>1. CASE Fail
  BY <1>1, Failed
<1>2. CASE IsArray(In(self)) /\ PopBack(dst, In(self))
  BY <1>2, PopBackKeeps
<1>3. CASE IsArray(In(self)) /\ PushBack(dst, In(self), In(arg))
  BY <1>3, PushBackKeeps
<1> QED BY <1>1, <1>2, <1>3 DEF CallMethod

-----------------------------------------------------------------------------
(* The theorems.                                                             *)

LEMMA InitKeeps ==
  ASSUME SlotsParameters, SlotsInit
  PROVE  SlotsInv
<1> DEFINE slot == [s \in Locals |-> Nil]
           array == [a \in Addresses |-> <<>>]
           refs == [a \in Addresses |-> 0]
<1>1. memory = [slot |-> slot, array |-> array, refs |-> refs, fault |-> FALSE]
  BY DEF SlotsInit
<1>2. slot \in [Locals -> Values]
  BY NilValue
<1>3. array \in Arrays
  <2>1. <<>> \in {s \in Seq(Values) : Len(s) <= MaxLen}
    BY DEF SlotsParameters
  <2> QED BY <2>1 DEF Arrays
<1>4. refs \in [Addresses -> Nat] /\ \A a \in Addresses : refs[a] = 0 /\ array[a] = <<>>
  OBVIOUS
<1>5. ASSUME NEW a \in Addresses
      PROVE  Cardinality(SlotsTo(slot, a)) = 0 /\ Cardinality(ElementsTo(array, a)) = 0
  <2>1. SlotsTo(slot, a) = {}
    BY DEF SlotsTo, Nil, ArrayAt
  <2>2. ElementsTo(array, a) = {}
    BY DEF ElementsTo
  <2> QED BY <2>1, <2>2, FS_EmptySet
<1> HIDE DEF slot, array, refs
<1>6. memory.slot = slot /\ memory.array = array /\ memory.refs = refs /\ memory.fault = FALSE
  BY <1>1
<1>7. memory \in Memories
  BY <1>1, <1>2, <1>3, <1>4 DEF Memories
<1>8. Sound(memory, memory.slot, Nothing)
  <2>1. ASSUME NEW a \in Addresses
        PROVE  /\ memory.refs[a] = Cardinality(SlotsTo(memory.slot, a))
                                   + Cardinality(ElementsTo(memory.array, a)) + Nothing[a]
               /\ memory.refs[a] = 0 => memory.array[a] = <<>>
    BY <1>4, <1>5, <1>6 DEF Nothing
  <2> QED BY <1>2, <1>6, <1>7, <2>1, NothingOwed DEF Sound
<1> QED BY <1>8 DEF SlotsInv, SlotsInit

LEMMA NextKeeps ==
  ASSUME SlotsParameters, SlotsInv, SlotsNext
  PROVE  SlotsInv'
<1>1. ASSUME NEW s \in Locals, DestroySlot(s)
      PROVE  SlotsInv'
  BY <1>1, DestroySlotKeeps
<1>2. CASE Epilogue
  BY <1>2, EpilogueKeeps
<1>3. ASSUME NEW dst \in Locals, NEW self \in Locals, NEW index \in Locals, GetIndexed(dst, self, index)
      PROVE  SlotsInv'
  BY <1>3, GetIndexedKeeps
<1>4. ASSUME NEW item \in Locals, NEW self \in Locals, NEW index \in -1..(MaxLen - 1),
             ArrayNext(item, self, index)
      PROVE  SlotsInv'
  BY <1>4, ArrayNextKeeps
<1>5. ASSUME NEW dst \in Locals, NEW self \in Locals, ArraySize(dst, self)
      PROVE  SlotsInv'
  BY <1>5, ArraySizeKeeps
<1>6. ASSUME NEW dst \in Locals, NEW x \in Locals, NEW y \in Locals, Evaluate(dst, x, y)
      PROVE  SlotsInv'
  BY <1>6, EvaluateKeeps
<1>7. ASSUME NEW dst \in Locals, NEW args \in Arguments, MakeArray(dst, args)
      PROVE  SlotsInv'
  BY <1>7, MakeArrayKeeps
<1>8. ASSUME NEW dst \in Locals, NEW x \in Locals, Coerce(dst, x)
      PROVE  SlotsInv'
  BY <1>8, CoerceKeeps
<1>9. ASSUME NEW dst \in Locals, NEW self \in Locals, NEW index \in Locals, NEW item \in Locals,
             SetIndexed(dst, self, index, item)
      PROVE  SlotsInv'
  BY <1>9, SetIndexedKeeps
<1>10. ASSUME NEW dst \in Locals, NEW self \in Locals, NEW arg \in Locals, CallMethod(dst, self, arg)
       PROVE  SlotsInv'
  BY <1>10, CallMethodKeeps
<1>11. ASSUME NEW dst \in Locals, NEW src \in Locals, Copy(dst, src)
       PROVE  SlotsInv'
  BY <1>11, CopyKeeps
<1>12. ASSUME NEW dst \in Locals, NEW n \in {-1, 0}, Literal(dst, n)
       PROVE  SlotsInv'
  BY <1>12, LiteralKeeps
<1> QED
  BY <1>1, <1>2, <1>3, <1>4, <1>5, <1>6, <1>7, <1>8, <1>9, <1>10, <1>11, <1>12 DEF SlotsNext

\* Between any two operations every array's count is what refers to it, and nothing else is owed.
THEOREM SlotsInvariant ==
  ASSUME SlotsParameters
  PROVE  SlotsSpec => []SlotsInv
<1>1. SlotsInit => SlotsInv
  BY InitKeeps
<1>2. SlotsInv /\ [SlotsNext]_slotVars => SlotsInv'
  <2>1. ASSUME SlotsInv, UNCHANGED slotVars
        PROVE  SlotsInv'
    BY <2>1 DEF slotVars, SlotsInv
  <2> QED BY <2>1, NextKeeps
<1> QED BY <1>1, <1>2, PTL DEF SlotsSpec

\* Slots and elements hold values, arrays keep within their length, and counts are not negative.
THEOREM SlotsTypeCorrect ==
  ASSUME SlotsParameters
  PROVE  SlotsSpec => []SlotsTypeOK
<1>1. SlotsInv => SlotsTypeOK
  BY DEF SlotsInv, SlotsTypeOK, Sound, Memories, Arrays
<1> QED BY <1>1, SlotsInvariant, PTL

\* Whatever the operations do, however slots and elements alias one another and whichever of
\* them fail: the engine's counts are exact, and no array is used that is gone.
THEOREM CountsExact ==
  ASSUME SlotsParameters
  PROVE  SlotsSpec => []Owned
<1>1. ASSUME SlotsInv
      PROVE  Owned
  <2>1. Sound(memory, memory.slot, Nothing)
    BY <1>1 DEF SlotsInv
  <2>2. memory.slot \in [Locals -> Values]
    BY <2>1 DEF Sound
  <2>3. ASSUME NEW a \in Addresses
        PROVE  memory.refs[a] = References(a) /\ (memory.refs[a] = 0 => memory.array[a] = <<>>)
    <3>1. Cardinality(SlotsTo(memory.slot, a)) \in Nat /\ Cardinality(ElementsTo(memory.array, a)) \in Nat
      BY <2>2, Numbers
    <3> QED BY <2>1, <3>1 DEF Sound, References, Nothing
  <2> QED BY <2>1, <2>3 DEF Owned, Sound
<1> QED BY <1>1, SlotsInvariant, PTL

\* Every operation publishes what its operands held before it, also when its destination is
\* one of them or held the last reference to what is read.
THEOREM ResultsRight ==
  ASSUME SlotsParameters
  PROVE  SlotsSpec => []ResultIsRight
<1>1. SlotsInv => ResultIsRight
  BY DEF SlotsInv, ResultIsRight
<1> QED BY <1>1, SlotsInvariant, PTL
=============================================================================
