---------------------------- MODULE ReloadProofs ----------------------------
(* Theorems about Reload, for every set of instances and runtimes and every   *)
(* bound on the programs and activations.                                     *)
EXTENDS Reload, SequenceTheorems, TLAPS

-----------------------------------------------------------------------------
(* The stack as a sequence of well-formed activations.                       *)

Activation == SmallFrame \cup ReloadFrame

\* The instance whose receiver an activation keeps, and the owners of a stack.
Owner(f) == IF f.kind \in {"access", "members", "create"} THEN f.by ELSE None
Owners(q) == {Owner(q[k]) : k \in 1..Len(q)}

WellFormed(f) == /\ f.kind = "call" => f.state \in States
                 /\ f.kind \in {"access", "members", "create"} => f.by \in Instances

\* f may start above q: member initializers run for the activation below, and an
\* instance under construction had no activation of its own before.
Fits(q, f) ==
  /\ f.kind = "members" => /\ q # <<>>
                           /\ q[Len(q)].kind = "create" => q[Len(q)].by = f.by
  /\ f.kind = "create" => f.by \notin Owners(q)

Grounded(q) == \A k \in 1..Len(q) :
  /\ WellFormed(q[k])
  /\ q[k].kind = "members" => /\ k > 1
                              /\ q[k - 1].kind = "create" => q[k - 1].by = q[k].by
  /\ q[k].kind = "create" => \A j \in 1..(k - 1) : Owner(q[j]) # q[k].by

Good(q) == q \in Seq(Activation) /\ Grounded(q)

LEMMA Kinds ==
  ASSUME NEW f \in Activation
  PROVE  /\ f.kind = "reload" => f \in ReloadFrame
         /\ f.kind # "reload" => f \in SmallFrame
BY DEF Activation, SmallFrame, ReloadFrame

LEMMA SmallGood ==
  ASSUME NEW kind \in {"script", "call", "access", "members", "create"},
         NEW s \in States \cup {None}, NEW i \in Instances \cup {None}, NEW n \in 0..Fuel,
         kind = "call" => s \in States,
         kind \in {"access", "members", "create"} => i \in Instances
  PROVE  /\ Small(kind, s, i, n) \in Activation /\ WellFormed(Small(kind, s, i, n))
         /\ Small(kind, s, i, n).kind = kind /\ Small(kind, s, i, n).by = i
BY DEF Small, Activation, SmallFrame, WellFormed

LEMMA FuelGood == Fuel \in 0..Fuel /\ 0 \in 0..Fuel /\ \A hook : FuelOf(hook) \in 0..Fuel
BY Bounds DEF FuelOf

\* Another activation starts.
LEMMA GoodPush ==
  ASSUME NEW q, Good(q), NEW f \in Activation, WellFormed(f), Fits(q, f)
  PROVE  /\ Good(Append(q, f)) /\ Len(Append(q, f)) = Len(q) + 1 /\ Len(q) \in Nat
         /\ \A k \in 1..Len(q) : Append(q, f)[k] = q[k]
         /\ Append(q, f)[Len(q) + 1] = f
         /\ Append(q, f) # <<>>
         /\ Owners(Append(q, f)) = Owners(q) \cup {Owner(f)}
<1>1. /\ Append(q, f) \in Seq(Activation) /\ Len(q) \in Nat
      /\ Len(Append(q, f)) = Len(q) + 1
      /\ \A k \in 1..Len(q) : Append(q, f)[k] = q[k]
      /\ Append(q, f)[Len(q) + 1] = f
  BY AppendProperties DEF Good
<1>2. \A k \in 1..(Len(q) + 1) : k \in 1..Len(q) \/ k = Len(q) + 1
  BY <1>1
<1>3. Grounded(Append(q, f))
  <2> DEFINE p == Append(q, f)
  <2> SUFFICES ASSUME NEW k \in 1..Len(Append(q, f))
               PROVE  /\ WellFormed(p[k])
                      /\ p[k].kind = "members" => /\ k > 1
                                                  /\ p[k - 1].kind = "create" => p[k - 1].by = p[k].by
                      /\ p[k].kind = "create" => \A j \in 1..(k - 1) : Owner(p[j]) # p[k].by
    BY DEF Grounded
  <2>1. CASE k \in 1..Len(q)
    <3>1. /\ Append(q, f)[k] = q[k]
          /\ k > 1 => Append(q, f)[k - 1] = q[k - 1]
          /\ \A j \in 1..(k - 1) : Append(q, f)[j] = q[j]
      BY <1>1, <2>1
    <3> QED BY <2>1, <3>1 DEF Good, Grounded
  <2>2. CASE k = Len(q) + 1
    <3>1. q # <<>> => k > 1 /\ Append(q, f)[k - 1] = q[Len(q)]
      BY <1>1, <2>2 DEF Good
    <3>2. \A j \in 1..(k - 1) : Append(q, f)[j] = q[j] /\ Owner(q[j]) \in Owners(q)
      BY <1>1, <2>2 DEF Owners
    <3> QED BY <1>1, <2>2, <3>1, <3>2 DEF Fits
  <2> QED BY <1>1, <1>2, <2>1, <2>2
<1>4. Owners(Append(q, f)) = Owners(q) \cup {Owner(f)}
  BY <1>1, <1>2 DEF Owners
<1> QED BY <1>1, <1>3, <1>4 DEF Good

\* The topmost activation returns.
LEMMA GoodBelow ==
  ASSUME Good(stack), stack # <<>>
  PROVE  /\ Good(Below) /\ Top \in Activation
         /\ Len(stack) \in Nat \ {0} /\ Len(Below) = Len(stack) - 1
         /\ \A k \in 1..Len(Below) : Below[k] = stack[k]
         /\ Owners(Below) \subseteq Owners(stack) /\ WellFormed(Top)
         /\ Top.kind = "create" => Top.by \notin Owners(Below)
<1>1. /\ Below \in Seq(Activation) /\ Len(stack) \in Nat \ {0}
      /\ Len(Below) = Len(stack) - 1
      /\ \A k \in 1..(Len(stack) - 1) : Below[k] = stack[k]
      /\ Top \in Activation
  <2> DEFINE n == Len(stack) - 1
  <2>1. n \in Nat /\ Len(stack) = n + 1 /\ \A k \in 1..(n + 1) : stack[k] \in Activation
    BY DEF Good
  <2>2. Below = SubSeq(stack, 1, n) /\ Top = stack[n + 1]
    BY <2>1 DEF Below, Top
  <2> HIDE DEF n
  <2>3. Below \in Seq(Activation) /\ Len(Below) = n /\ \A k \in 1..n : Below[k] = stack[k]
    BY <2>1, <2>2, SubSeqProperties
  <2> QED BY <2>1, <2>2, <2>3
<1>2. \A k \in 1..Len(Below) : k \in 1..Len(stack) /\ (k > 1 => k - 1 \in 1..Len(Below))
                             /\ \A j \in 1..(k - 1) : j \in 1..Len(Below)
  BY <1>1
<1>3. Good(Below)
  BY <1>1, <1>2 DEF Good, Grounded
<1>4. Owners(Below) \subseteq Owners(stack)
  BY <1>1, <1>2 DEF Owners
<1>5. WellFormed(Top) /\ (Top.kind = "create" => Top.by \notin Owners(Below))
  BY <1>1 DEF Good, Grounded, Owners, Top
<1> QED BY <1>1, <1>3, <1>4, <1>5

\* An activation that another one called.
Rest == SubSeq(stack, 1, Len(stack) - 2)

LEMMA GoodRest ==
  ASSUME Good(stack), Len(stack) > 1
  PROVE  /\ stack # <<>> /\ Good(Rest) /\ Caller \in Activation
         /\ Below # <<>> /\ Below = Append(Rest, Caller)
         /\ Len(stack) \in Nat /\ Len(Rest) = Len(stack) - 2 /\ Caller = stack[Len(stack) - 1]
         /\ \A k \in 1..Len(Rest) : Rest[k] = stack[k]
         /\ Owners(Rest) \subseteq Owners(stack) /\ WellFormed(Caller)
         /\ Caller.kind = "create" => Caller.by \notin Owners(Rest)
<1>1. stack \in Seq(Activation) /\ Len(stack) \in Nat /\ Len(stack) - 2 \in 0..Len(stack)
      /\ Len(stack) - 1 \in 1..Len(stack) /\ stack # <<>>
  BY DEF Good
<1>2. /\ Rest \in Seq(Activation) /\ Len(Rest) = Len(stack) - 2
      /\ \A k \in 1..(Len(stack) - 2) : Rest[k] = stack[k]
  <2> DEFINE n == Len(stack) - 2
  <2>1. n \in Nat /\ \A k \in 1..n : stack[k] \in Activation
    BY <1>1
  <2>2. Rest = SubSeq(stack, 1, n)
    BY DEF Rest
  <2> HIDE DEF n
  <2>3. Rest \in Seq(Activation) /\ Len(Rest) = n /\ \A k \in 1..n : Rest[k] = stack[k]
    BY <2>1, <2>2, SubSeqProperties
  <2> QED BY <2>3 DEF n
<1>10. \A k \in 1..Len(Rest) : k \in 1..Len(stack) /\ (k > 1 => k - 1 \in 1..Len(Rest))
                             /\ \A j \in 1..(k - 1) : j \in 1..Len(Rest)
  BY <1>1, <1>2
<1>3. Good(Rest)
  BY <1>2, <1>10, ZenonT(30) DEF Good, Grounded
<1>11. Owners(Rest) \subseteq Owners(stack)
  BY <1>2, <1>10 DEF Owners
<1>4. /\ Below \in Seq(Activation) /\ Len(Below) = Len(stack) - 1
      /\ \A k \in 1..Len(Below) : Below[k] = stack[k]
  BY <1>1, GoodBelow DEF Good
<1>5. Caller = stack[Len(stack) - 1] /\ Caller \in Activation
  BY <1>1, <1>4 DEF Caller
<1>6. /\ Append(Rest, Caller) \in Seq(Activation) /\ Len(Append(Rest, Caller)) = Len(Rest) + 1
      /\ \A k \in 1..Len(Rest) : Append(Rest, Caller)[k] = Rest[k]
      /\ Append(Rest, Caller)[Len(Rest) + 1] = Caller
  BY <1>2, <1>5, AppendProperties
<1>7. Len(Below) = Len(Append(Rest, Caller))
  BY <1>1, <1>2, <1>4, <1>6
<1>8. ASSUME NEW k \in 1..Len(Below) PROVE Below[k] = Append(Rest, Caller)[k]
  <2>1. CASE k = Len(stack) - 1
    BY <1>1, <1>2, <1>4, <1>5, <1>6, <2>1
  <2>2. CASE k # Len(stack) - 1
    BY <1>1, <1>2, <1>4, <1>6, <2>2
  <2> QED BY <2>1, <2>2
<1>9. Below = Append(Rest, Caller)
  BY <1>4, <1>6, <1>7, <1>8
<1>12. WellFormed(Caller) /\ (Caller.kind = "create" => Caller.by \notin Owners(Rest))
  BY <1>1, <1>2, <1>5 DEF Good, Grounded, Owners
<1> QED BY <1>1, <1>2, <1>3, <1>4, <1>5, <1>9, <1>11, <1>12, SMTT(30)

LEMMA InitializerCalled ==
  ASSUME Good(stack), On("members")
  PROVE  /\ Len(stack) > 1 /\ Top \in SmallFrame /\ Top.by \in Instances
         /\ Caller.kind = "create" => Caller.by = Top.by
         /\ Top.by \in Owners(stack)
<1>1. stack # <<>> /\ Top.kind = "members" /\ Top \in Activation /\ Len(stack) \in Nat \ {0}
  BY GoodBelow DEF On
<1>2. /\ Len(stack) > 1 /\ Top.by \in Instances
      /\ stack[Len(stack) - 1].kind = "create" => stack[Len(stack) - 1].by = Top.by
  BY <1>1 DEF Good, Grounded, Top, WellFormed
<1>3. Owner(stack[Len(stack)]) = Top.by
  BY <1>1 DEF Owner, Top
<1>4. Top.by \in Owners(stack)
  BY <1>1, <1>3 DEF Owners
<1> QED BY <1>1, <1>2, <1>4, Kinds, GoodRest

\* A function may still do something.
Running == stack # <<>> /\ Top.kind \in {"call", "access", "members"} /\ Top.fuel > 0

\* Paying for an operation changes the fuel of the topmost activation only.
LEMMA GoodSpent ==
  ASSUME Good(stack), CanAct \/ Running
  PROVE  /\ Good(Spent) /\ Len(Spent) = Len(stack) /\ Len(stack) \in Nat
         /\ \A k \in 1..Len(stack) : /\ Spent[k].kind = stack[k].kind
                                     /\ stack[k].kind = "reload" => Spent[k] = stack[k]
         /\ Owners(Spent) = Owners(stack)
<1>1. CASE stack = <<>>
  BY <1>1 DEF Spent, Good
<1>2. CASE stack # <<>>
  <2> DEFINE f == [Top EXCEPT !.fuel = @ - 1]
  <2>1. Top \in SmallFrame /\ Top.fuel > 0 /\ Top.kind # "reload" /\ Len(stack) \in Nat \ {0}
    BY <1>2, GoodBelow, Kinds DEF CanAct, Running, On, Acts
  <2>2. Top.fuel - 1 \in 0..Fuel
    BY <2>1, Bounds DEF SmallFrame
  <2>3. f \in SmallFrame /\ f.kind = Top.kind /\ f.by = Top.by /\ f.state = Top.state
    BY <2>1, <2>2 DEF SmallFrame
  <2>4. Spent = [stack EXCEPT ![Len(stack)] = f]
    BY <1>2 DEF Spent, Top
  <2> HIDE DEF f
  <2>5. f \in Activation /\ stack \in Seq(Activation) /\ Len(stack) \in 1..Len(stack)
    BY <2>1, <2>3 DEF Activation, Good
  <2>6. /\ Spent \in Seq(Activation) /\ Len(Spent) = Len(stack)
        /\ \A k \in 1..Len(stack) : Spent[k] = IF k = Len(stack) THEN f ELSE stack[k]
    BY <2>4, <2>5, ExceptSeq
  <2>7. ASSUME NEW k \in 1..Len(stack)
        PROVE  /\ Spent[k].kind = stack[k].kind /\ (WellFormed(stack[k]) => WellFormed(Spent[k]))
               /\ Owner(Spent[k]) = Owner(stack[k])
               /\ stack[k].kind \in {"members", "create"} => Spent[k].by = stack[k].by
               /\ stack[k].kind = "reload" => Spent[k] = stack[k]
    BY <2>1, <2>3, <2>6 DEF Top, WellFormed, Owner
  <2>8. \A k \in 1..Len(stack) : (k > 1 => k - 1 \in 1..Len(stack))
                               /\ \A j \in 1..(k - 1) : j \in 1..Len(stack)
    BY <2>1
  <2>9. Grounded(Spent)
    BY <2>6, <2>7, <2>8 DEF Grounded, Good
  <2>10. Owners(Spent) = Owners(stack)
    BY <2>6, <2>7 DEF Owners
  <2> QED BY <2>1, <2>6, <2>7, <2>9, <2>10 DEF Good
<1> QED BY <1>1, <1>2

\* Two activations start at once.
LEMMA PushBoth ==
  ASSUME NEW q \in Seq(Activation), NEW f, NEW g
  PROVE  q \o <<f, g>> = Append(Append(q, f), g)
OBVIOUS

-----------------------------------------------------------------------------
(* Type correctness.                                                         *)

\* The instance that an activation works on has a runtime.
OwnersLive == Owners(stack) \subseteq Live \cup {None}

TypeInv == TypeOK /\ Grounded(stack) /\ OwnersLive

\* The types of all but the stack.
FieldsOK ==
  /\ program \in Versions /\ built \in Versions
  /\ static \in States \cup {None} /\ dispatch \in States \cup {None}
  /\ inst \in [Instances -> States \cup {None}]
  /\ prog \in [States -> Versions]
  /\ value \in [States -> Values]
  /\ stat \in [Versions -> Values]
  /\ waiting \subseteq States
  /\ want \in [Instances -> Values] /\ wantStatic \in Values

LEMMA TypeParts == TypeInv <=> FieldsOK /\ Good(stack) /\ OwnersLive
BY DEF TypeInv, TypeOK, FieldsOK, Good, Activation

LEMMA TypePartsNext == TypeInv' <=> FieldsOK' /\ Good(stack') /\ OwnersLive'
BY DEF TypeInv, TypeOK, FieldsOK, Good, Activation, Grounded

LEMMA OwnersNext == OwnersLive' <=> Owners(stack') \subseteq Live' \cup {None}
BY DEF OwnersLive, Owners

LEMMA TypeInit == Init => TypeInv
<1> SUFFICES ASSUME Init PROVE TypeInv
  OBVIOUS
<1>1. stack \in Seq(Activation) /\ Len(stack) = 0 /\ 1..Len(stack) = {}
  BY DEF Init
<1>2. Good(stack) /\ OwnersLive
  BY <1>1 DEF Good, Grounded, OwnersLive, Owners
<1>3. 0 \in Versions
  BY Bounds DEF Versions
<1> QED BY <1>2, <1>3, TypeParts DEF Init, FieldsOK, Values

LEMMA BuildGood ==
  ASSUME FieldsOK, built < MaxBuilds, NEW keep \in BOOLEAN, NEW s \in States
  PROVE  [kind |-> "reload", keep |-> keep, candidate |-> built + 1, shared |-> s,
          published |-> FALSE, todo |-> {}, saved |-> [i \in Instances |-> "initial"],
          prev |-> [i \in Instances |-> None], prevStatic |-> None,
          prevProgram |-> 0, queue |-> {}, wanted |-> "initial"] \in Activation /\ built + 1 \in Versions
<1>1. built + 1 \in Versions /\ 0 \in Versions
  BY Bounds DEF FieldsOK, Versions
<1> QED BY <1>1 DEF Activation, ReloadFrame, Values

\* An activation that neither constructs nor initializes anything starts.
LEMMA PlainPush ==
  ASSUME NEW q, Good(q), NEW f \in Activation, WellFormed(f), stack' = Append(q, f),
         f.kind \notin {"members", "create"}, inst' = inst,
         Owners(q) \subseteq Live \cup {None}, Owner(f) \in Live \cup {None}
  PROVE  Good(stack') /\ OwnersLive'
<1>1. Fits(q, f)
  BY DEF Fits
<1>2. Good(Append(q, f)) /\ Owners(Append(q, f)) = Owners(q) \cup {Owner(f)}
  BY <1>1, GoodPush
<1>3. Live' = Live
  BY DEF Live
<1> QED BY <1>2, <1>3, OwnersNext

LEMMA SameStack ==
  ASSUME NEW q, Good(q), stack' = q, Owners(q) \subseteq Live' \cup {None}
  PROVE  Good(stack') /\ OwnersLive'
BY OwnersNext

LEMMA TypeScriptOp ==
  ASSUME TypeInv, ScriptOp
  PROVE  TypeInv'
<1>0. FieldsOK /\ Good(stack) /\ Owners(stack) \subseteq Live \cup {None}
      /\ (CanAct => Good(Spent) /\ Owners(Spent) = Owners(stack))
  BY TypeParts, GoodSpent DEF OwnersLive
<1>a. inst' = inst => Live' = Live
  BY DEF Live
<1>1. ASSUME NEW f \in Activation, WellFormed(f), f.kind \notin {"members", "create"},
             Owner(f) \in Live \cup {None}, CanAct, Push(f), inst' = inst
      PROVE  Good(stack') /\ OwnersLive'
  BY <1>0, <1>1, PlainPush DEF Push
<1>2. ASSUME NEW s \in States, Call(s) \/ Resume(s) PROVE TypeInv'
  <2> DEFINE f == Small("call", s, None, Fuel)
  <2>1. f \in Activation /\ WellFormed(f) /\ f.kind = "call"
    BY SmallGood, FuelGood
  <2>2. CanAct /\ Push(f) /\ inst' = inst
    BY <1>2 DEF Call, Resume
  <2> HIDE DEF f
  <2>3. Good(stack') /\ OwnersLive'
    BY <1>1, <2>1, <2>2 DEF Owner
  <2> QED BY <1>0, <1>2, <2>3, TypePartsNext DEF Call, Resume, FieldsOK
<1>3. ASSUME NEW i \in Instances, Access(i) PROVE TypeInv'
  <2> DEFINE f == Small("access", inst[i], i, Fuel)
  <2>1. inst[i] \in States \cup {None} /\ i \in Live
    BY <1>0, <1>3 DEF FieldsOK, Access
  <2>2. f \in Activation /\ WellFormed(f) /\ f.kind = "access" /\ f.by = i
    BY <2>1, SmallGood, FuelGood
  <2>3. CanAct /\ Push(f) /\ inst' = inst
    BY <1>3 DEF Access
  <2> HIDE DEF f
  <2>4. Good(stack') /\ OwnersLive'
    BY <1>1, <2>1, <2>2, <2>3 DEF Owner
  <2> QED BY <1>0, <1>3, <2>4, TypePartsNext DEF Access, FieldsOK
<1>4. ASSUME NEW i \in Instances, Edit(i) PROVE TypeInv'
  <2>1. FieldsOK'
    BY <1>0, <1>4 DEF Edit, FieldsOK, Values
  <2>2. CanAct /\ stack' = Spent /\ inst' = inst
    BY <1>4 DEF Edit
  <2> QED BY <1>0, <1>a, <2>1, <2>2, SameStack, TypePartsNext
<1>5. ASSUME NEW s \in States, EditStatic(s) PROVE TypeInv'
  <2>1. FieldsOK'
    BY <1>0, <1>5 DEF EditStatic, FieldsOK, Values
  <2>2. CanAct /\ stack' = Spent /\ inst' = inst
    BY <1>5 DEF EditStatic
  <2> QED BY <1>0, <1>a, <2>1, <2>2, SameStack, TypePartsNext
<1>6. ASSUME NEW i \in Instances, Free(i) PROVE TypeInv'
  <2>1. FieldsOK'
    BY <1>0, <1>6 DEF Free, FieldsOK
  <2>2. i \notin Owners(stack)
    <3>1. ASSUME NEW k \in 1..Len(stack) PROVE Owner(stack[k]) # i
      BY <1>6, Distinct DEF Free, Owner
    <3> QED BY <3>1 DEF Owners
  <2>3. Live' = Live \ {i} /\ CanAct /\ stack' = Spent
    BY <1>0, <1>6 DEF Free, Live, FieldsOK
  <2> QED BY <1>0, <2>1, <2>2, <2>3, SameStack, TypePartsNext
<1>7. ASSUME NEW i \in Instances, NEW s \in States, New(i, s) PROVE TypeInv'
  <2> DEFINE f == Small("create", None, i, 0)
             g == Small("members", s, i, FuelOf("members"))
  <2>1. /\ f \in Activation /\ WellFormed(f) /\ f.kind = "create" /\ f.by = i
        /\ g \in Activation /\ WellFormed(g) /\ g.kind = "members" /\ g.by = i
    BY SmallGood, FuelGood
  <2>2. stack' = Spent \o <<f, g>> /\ CanAct /\ i \notin Live
    BY <1>7 DEF New
  <2> HIDE DEF f, g
  <2>3. stack' = Append(Append(Spent, f), g)
    BY <1>0, <2>2, PushBoth DEF Good
  <2>4. i \notin Owners(Spent)
    BY <1>0, <2>2, Distinct
  <2>5. Owner(f) = i /\ Owner(g) = i
    BY <2>1 DEF Owner
  <2>6. Fits(Spent, f)
    BY <2>1, <2>4 DEF Fits
  <2>7. /\ Good(Append(Spent, f)) /\ Append(Spent, f) # <<>>
        /\ Owners(Append(Spent, f)) = Owners(Spent) \cup {i}
        /\ Append(Spent, f)[Len(Append(Spent, f))] = f
    BY <1>0, <2>1, <2>2, <2>5, <2>6, GoodPush
  <2>8. Fits(Append(Spent, f), g)
    BY <2>1, <2>7 DEF Fits
  <2>9. Good(stack') /\ Owners(stack') = Owners(Spent) \cup {i}
    BY <2>1, <2>3, <2>5, <2>7, <2>8, GoodPush
  <2>10. FieldsOK'
    BY <1>0, <1>7 DEF New, FieldsOK, Values
  <2>11. Live' = Live \cup {i}
    BY <1>0, <1>7, Distinct DEF New, Live, FieldsOK
  <2> QED BY <1>0, <2>2, <2>9, <2>10, <2>11, OwnersNext, TypePartsNext
<1>8. ASSUME NEW keep \in BOOLEAN, NEW s \in States, BeginReload(keep, s) PROVE TypeInv'
  <2> DEFINE f == [kind |-> "reload", keep |-> keep, candidate |-> built + 1, shared |-> s,
          published |-> FALSE, todo |-> {}, saved |-> [i \in Instances |-> "initial"],
          prev |-> [i \in Instances |-> None], prevStatic |-> None,
          prevProgram |-> 0, queue |-> {}, wanted |-> "initial"]
             g == Small("call", s, None, FuelOf("static"))
  <2>1. f \in Activation /\ built + 1 \in Versions
    BY <1>0, <1>8, BuildGood DEF BeginReload
  <2>2. g \in Activation /\ WellFormed(g) /\ g.kind = "call"
    BY SmallGood, FuelGood
  <2>3. f.kind = "reload"
    OBVIOUS
  <2>4. stack' = Spent \o <<f, g>> /\ CanAct
    BY <1>8 DEF BeginReload
  <2> HIDE DEF f, g
  <2>5. stack' = Append(Append(Spent, f), g)
    BY <1>0, <2>4, PushBoth DEF Good
  <2>6. WellFormed(f) /\ Fits(Spent, f) /\ Owner(f) = None /\ Owner(g) = None
    BY <2>2, <2>3 DEF WellFormed, Fits, Owner
  <2>7. Good(Append(Spent, f)) /\ Owners(Append(Spent, f)) = Owners(Spent) \cup {None}
    BY <1>0, <2>1, <2>4, <2>6, GoodPush
  <2>8. Good(stack') /\ OwnersLive'
    BY <1>0, <1>8, <2>2, <2>4, <2>5, <2>6, <2>7, PlainPush DEF BeginReload
  <2>9. FieldsOK'
    BY <1>0, <1>8, <2>1 DEF BeginReload, FieldsOK, Values
  <2> QED BY <2>8, <2>9, TypePartsNext
<1> QED BY <1>2, <1>3, <1>4, <1>5, <1>6, <1>7, <1>8 DEF ScriptOp

LEMMA TypeFunction ==
  ASSUME TypeInv, EditOwn \/ EditOwnStatic \/ Return \/ Suspend
  PROVE  TypeInv'
<1>0. FieldsOK /\ Good(stack) /\ Owners(stack) \subseteq Live \cup {None}
  BY TypeParts DEF OwnersLive
<1>1. inst' = inst /\ Live' = Live
  BY DEF EditOwn, EditOwnStatic, Return, Suspend, Live
<1>4. CASE EditOwnStatic
  <2>1. Good(Spent) /\ Owners(Spent) = Owners(stack) /\ stack' = Spent
    BY <1>0, <1>4, GoodSpent DEF EditOwnStatic, Running
  <2>2. FieldsOK'
    <3>1. stat' \in [Versions -> Values] /\ wantStatic' \in Values
      BY <1>0, <1>4 DEF EditOwnStatic, FieldsOK, Values
    <3> QED BY <1>0, <1>4, <3>1 DEF EditOwnStatic, FieldsOK
  <2> QED BY <1>0, <1>1, <2>1, <2>2, SameStack, TypePartsNext
<1>2. CASE EditOwn
  <2>1. Good(Spent) /\ Owners(Spent) = Owners(stack) /\ stack' = Spent
    BY <1>0, <1>2, GoodSpent DEF EditOwn, Running, On
  <2>2. FieldsOK'
    <3>1. value' \in [States -> Values]
      BY <1>0, <1>2 DEF EditOwn, FieldsOK, Values
    <3>2. want' \in [Instances -> Values]
      BY <1>0, <1>2 DEF EditOwn, FieldsOK, Values
    <3> QED BY <1>0, <1>2, <3>1, <3>2 DEF EditOwn, FieldsOK
  <2> QED BY <1>0, <1>1, <2>1, <2>2, SameStack, TypePartsNext
<1>3. CASE Return \/ Suspend
  <2>1. Good(Below) /\ Owners(Below) \subseteq Owners(stack) /\ stack' = Below
    BY <1>0, <1>3, GoodBelow DEF Return, Suspend, On
  <2>2. waiting' \subseteq States
    <3>1. CASE Return
      BY <1>0, <3>1 DEF Return, Released, FieldsOK
    <3>2. CASE Suspend
      BY <1>0, <3>2, GoodBelow DEF Suspend, FieldsOK, On, WellFormed
    <3> QED BY <1>3, <3>1, <3>2
  <2>3. FieldsOK'
    BY <1>0, <1>3, <2>2 DEF Return, Suspend, FieldsOK
  <2> QED BY <1>0, <1>1, <2>1, <2>3, SameStack, TypePartsNext
<1> QED BY <1>2, <1>3, <1>4

LEMMA TypeConstruction ==
  ASSUME TypeInv, Construction
  PROVE  TypeInv'
<1>0. FieldsOK /\ Good(stack) /\ Owners(stack) \subseteq Live \cup {None}
  BY TypeParts DEF OwnersLive
<1>1. ASSUME NEW i, Reject(i)
      PROVE  FieldsOK' /\ Live \ {i} \subseteq Live'
  <2>1. FieldsOK'
    BY <1>0, <1>1 DEF Reject, Released, FieldsOK
  <2>2. Live \ {i} \subseteq Live'
    BY <1>0, <1>1 DEF Reject, Live, FieldsOK
  <2> QED BY <2>1, <2>2
<1>2. CASE CallInit
  <2> DEFINE f == Small("call", inst[Top.by], None, Fuel)
  <2>1. On("members") /\ stack' = Append(Below, f) /\ inst' = inst
    BY <1>2 DEF CallInit, Initialized
  <2>2. /\ Top.by \in Live /\ Good(Below) /\ Owners(Below) \subseteq Live \cup {None}
    BY <1>0, <2>1, Distinct, InitializerCalled, GoodBelow DEF On
  <2>3. inst[Top.by] \in States
    BY <1>0, <2>2 DEF FieldsOK, Live
  <2>4. f \in Activation /\ WellFormed(f) /\ f.kind = "call"
    BY <2>3, SmallGood, FuelGood
  <2> HIDE DEF f
  <2>5. Good(stack') /\ OwnersLive'
    BY <2>1, <2>2, <2>4, PlainPush DEF Owner
  <2>6. FieldsOK'
    BY <1>0, <1>2 DEF CallInit, FieldsOK
  <2> QED BY <2>5, <2>6, TypePartsNext
<1>3. CASE InitializersFail
  <2>1. On("members") /\ Caller.kind = "create" /\ stack' = Rest /\ Reject(Top.by)
    BY <1>3 DEF InitializersFail, Initialized, Rest
  <2>2. Good(Rest) /\ Owners(Rest) \subseteq Owners(stack) /\ Top.by \notin Owners(Rest)
    BY <1>0, <2>1, InitializerCalled, GoodRest
  <2> QED BY <1>0, <1>1, <2>1, <2>2, SameStack, TypePartsNext
<1>4. CASE ConstructorFails
  <2>1. On("create") /\ stack' = Below /\ Reject(Top.by)
    BY <1>4 DEF ConstructorFails
  <2>2. Good(Below) /\ Owners(Below) \subseteq Owners(stack) /\ Top.by \notin Owners(Below)
    BY <1>0, <2>1, GoodBelow DEF On
  <2> QED BY <1>0, <1>1, <2>1, <2>2, SameStack, TypePartsNext
<1>5. CASE Constructed
  <2>1. stack # <<>> /\ stack' = Below /\ Live' = Live
    BY <1>5 DEF Constructed, On, Live
  <2>2. Good(Below) /\ Owners(Below) \subseteq Owners(stack)
    BY <1>0, <2>1, GoodBelow
  <2>3. FieldsOK'
    BY <1>0, <1>5 DEF Constructed, FieldsOK
  <2> QED BY <1>0, <2>1, <2>2, <2>3, SameStack, TypePartsNext
<1> QED BY <1>2, <1>3, <1>4, <1>5 DEF Construction

\* The states and programs that _reload keeps in its local variables.
LEMMA PublishedGood ==
  ASSUME FieldsOK, Good(stack), On("reload")
  PROVE  LET f == [Top EXCEPT !.published = TRUE, !.todo = Live, !.saved = Saved, !.prev = inst,
                   !.prevStatic = static, !.prevProgram = program, !.wanted = wantStatic,
                   !.queue = ({static} \cup {inst[i] : i \in Live}) \ {None}]
         IN  f \in Activation /\ f.kind = "reload" /\ Top \in ReloadFrame
<1>1. Top \in ReloadFrame /\ Top.kind = "reload"
  BY GoodBelow, Kinds DEF On
<1>2. Saved \in [Instances -> Values]
  BY DEF FieldsOK, Saved, Live, Values
<1>3. (({static} \cup {inst[i] : i \in Live}) \ {None}) \in SUBSET States
  BY DEF FieldsOK, Live
<1>4. Live \in SUBSET Instances /\ inst \in [Instances -> States \cup {None}]
      /\ static \in States \cup {None} /\ program \in Versions /\ wantStatic \in Values
  BY DEF FieldsOK, Live
<1> QED BY <1>1, <1>2, <1>3, <1>4 DEF Activation, ReloadFrame

LEMMA TypeReloading ==
  ASSUME TypeInv, Reloading
  PROVE  TypeInv'
<1>0. FieldsOK /\ Good(stack) /\ Owners(stack) \subseteq Live \cup {None}
  BY TypeParts DEF OwnersLive
<1>a. inst' = inst => Live' = Live
  BY DEF Live
<1>1. CASE StaticInitFails
  <2>1. stack # <<>> /\ stack' = Below /\ inst' = inst
    BY <1>1 DEF StaticInitFails, On
  <2>2. Good(Below) /\ Owners(Below) \subseteq Owners(stack)
    BY <1>0, <2>1, GoodBelow
  <2>3. FieldsOK'
    BY <1>0, <1>1 DEF StaticInitFails, Released, FieldsOK
  <2> QED BY <1>0, <1>a, <2>1, <2>2, <2>3, SameStack, TypePartsNext
<1>2. CASE Publish
  <2> DEFINE f == [Top EXCEPT !.published = TRUE, !.todo = Live, !.saved = Saved, !.prev = inst,
                   !.prevStatic = static, !.prevProgram = program, !.wanted = wantStatic,
                   !.queue = ({static} \cup {inst[i] : i \in Live}) \ {None}]
  <2>1. stack' = Append(Below, f) /\ inst' = inst /\ On("reload")
    BY <1>2 DEF Publish
  <2>2. f \in Activation /\ f.kind = "reload" /\ Top \in ReloadFrame
    BY <1>0, <2>1, PublishedGood
  <2> HIDE DEF f
  <2>3. Good(Below) /\ Owners(Below) \subseteq Live \cup {None}
    BY <1>0, <2>1, GoodBelow DEF On
  <2>4. Good(stack') /\ OwnersLive'
    BY <2>1, <2>2, <2>3, PlainPush DEF WellFormed, Owner
  <2>5. Top.candidate \in Versions /\ Top.shared \in States /\ Top.keep \in BOOLEAN
    BY <2>2 DEF ReloadFrame
  <2>6. FieldsOK'
    <3>1. stat' \in [Versions -> Values]
      BY <1>0, <1>2, <2>5 DEF Publish, CarriedOver, FieldsOK
    <3>2. wantStatic' \in Values
      BY <1>0, <1>2, <2>5 DEF Publish, FieldsOK
    <3> QED BY <1>0, <1>2, <2>5, <3>1, <3>2 DEF Publish, FieldsOK
  <2> QED BY <2>4, <2>6, TypePartsNext
<1>3. ASSUME NEW i \in Instances, NEW s \in States, Migrate(i, s) PROVE TypeInv'
  <2> DEFINE f == [Top EXCEPT !.todo = @ \ {i}]
             g == Small("members", s, i, FuelOf("members"))
  <2>1. /\ stack # <<>> /\ Top.kind = "reload" /\ i \in Top.todo
        /\ stack' = Append(Append(Below, f), g) /\ inst' = [inst EXCEPT ![i] = s]
    BY <1>3 DEF Migrate, On
  <2>2. Top \in ReloadFrame /\ Good(Below) /\ Owners(Below) \subseteq Live \cup {None}
    BY <1>0, <2>1, GoodBelow, Kinds
  <2>3. f \in Activation /\ f.kind = "reload"
    BY <2>1, <2>2 DEF Activation, ReloadFrame
  <2>4. g \in Activation /\ WellFormed(g) /\ g.kind = "members" /\ g.by = i
    BY SmallGood, FuelGood
  <2> HIDE DEF f, g
  <2>5. WellFormed(f) /\ Fits(Below, f) /\ Owner(f) = None /\ Owner(g) = i
    BY <2>3, <2>4 DEF WellFormed, Fits, Owner
  <2>6. /\ Good(Append(Below, f)) /\ Append(Below, f) # <<>>
        /\ Owners(Append(Below, f)) = Owners(Below) \cup {None}
        /\ Append(Below, f)[Len(Append(Below, f))] = f
    BY <2>2, <2>3, <2>5, GoodPush
  <2>7. Fits(Append(Below, f), g)
    BY <2>3, <2>4, <2>6 DEF Fits
  <2>8. Good(stack') /\ Owners(stack') = Owners(Below) \cup {None, i}
    BY <2>1, <2>4, <2>5, <2>6, <2>7, GoodPush
  <2>9. Live' = Live \cup {i}
    BY <1>0, <2>1, Distinct DEF Live, FieldsOK
  <2>10. FieldsOK'
    BY <1>0, <1>3 DEF Migrate, FieldsOK, Values
  <2> QED BY <2>2, <2>8, <2>9, <2>10, OwnersNext, TypePartsNext
<1>4. CASE Restore
  <2>1. On("members") /\ Caller.kind = "reload" /\ stack' = Below /\ inst' = inst
    BY <1>4 DEF Restore, Initialized
  <2>2. Caller \in ReloadFrame /\ Top.by \in Instances
    BY <1>0, <2>1, InitializerCalled, GoodRest, Kinds
  <2>3. Good(Below) /\ Owners(Below) \subseteq Owners(stack)
    BY <1>0, <2>1, GoodBelow DEF On
  <2>4. value' \in [States -> Values]
    <3>1. Caller.saved[Top.by] \in Values
      BY <2>2 DEF ReloadFrame
    <3> QED BY <1>0, <1>4, <3>1 DEF Restore, FieldsOK
  <2>5. FieldsOK'
    BY <1>0, <1>4, <2>4 DEF Restore, Released, FieldsOK
  <2> QED BY <1>0, <1>a, <2>1, <2>3, <2>5, SameStack, TypePartsNext
<1>5. CASE RollBack
  <2>1. On("members") /\ Caller.kind = "reload" /\ stack' = Rest /\ inst' = RolledBack(Caller)
    BY <1>5 DEF RollBack, Initialized, Rest
  <2>2. /\ Caller.prev \in [Instances -> States \cup {None}]
        /\ Caller.prevStatic \in States \cup {None} /\ Caller.prevProgram \in Versions
        /\ Caller.wanted \in Values
    BY <1>0, <2>1, InitializerCalled, GoodRest, Kinds DEF ReloadFrame
  <2>3. Good(Rest) /\ Owners(Rest) \subseteq Owners(stack)
    BY <1>0, <2>1, InitializerCalled, GoodRest
  <2>4. inst' \in [Instances -> States \cup {None}] /\ Live' = Live
    BY <1>0, <2>1, <2>2 DEF RolledBack, Live, FieldsOK
  <2>5. FieldsOK'
    BY <1>0, <1>5, <2>2, <2>4 DEF RollBack, Released, FieldsOK
  <2> QED BY <1>0, <2>1, <2>3, <2>4, <2>5, SameStack, TypePartsNext
<1>6. ASSUME NEW s \in States, CancelOld(s) PROVE TypeInv'
  <2> DEFINE f == [Top EXCEPT !.queue = @ \ {s}]
             g == Small("script", None, None, Fuel)
  <2>1. /\ stack # <<>> /\ Top.kind = "reload" /\ inst' = inst
        /\ stack' = Append(Below, f) \/ stack' = Append(Append(Below, f), g)
    BY <1>6 DEF CancelOld, On
  <2>2. Top \in ReloadFrame /\ Good(Below) /\ Owners(Below) \subseteq Live \cup {None}
    BY <1>0, <2>1, GoodBelow, Kinds
  <2>3. f \in Activation /\ f.kind = "reload"
    BY <2>1, <2>2 DEF Activation, ReloadFrame
  <2>4. g \in Activation /\ WellFormed(g) /\ g.kind = "script"
    BY SmallGood, FuelGood
  <2> HIDE DEF f, g
  <2>5. WellFormed(f) /\ Fits(Below, f) /\ Owner(f) = None /\ Owner(g) = None
    BY <2>3, <2>4 DEF WellFormed, Fits, Owner
  <2>6. Good(Append(Below, f)) /\ Owners(Append(Below, f)) = Owners(Below) \cup {None}
    BY <2>2, <2>3, <2>5, GoodPush
  <2>7. Good(stack') /\ OwnersLive'
    BY <2>1, <2>2, <2>3, <2>4, <2>5, <2>6, PlainPush
  <2>8. FieldsOK'
    BY <1>0, <1>6 DEF CancelOld, FieldsOK
  <2> QED BY <2>7, <2>8, TypePartsNext
<1>7. CASE ReloadEnds
  <2>1. stack # <<>> /\ stack' = Below /\ inst' = inst
    BY <1>7 DEF ReloadEnds, On
  <2>2. Good(Below) /\ Owners(Below) \subseteq Owners(stack)
    BY <1>0, <2>1, GoodBelow
  <2>3. FieldsOK'
    BY <1>0, <1>7 DEF ReloadEnds, Dispatched, Released, FieldsOK
  <2> QED BY <1>0, <1>a, <2>1, <2>2, <2>3, SameStack, TypePartsNext
<1> QED BY <1>1, <1>2, <1>3, <1>4, <1>5, <1>6, <1>7 DEF Reloading

LEMMA TypeInvCorrect == Spec => []TypeInv
<1>1. TypeInv /\ [Next]_vars => TypeInv'
  <2> SUFFICES ASSUME TypeInv, [Next]_vars PROVE TypeInv'
    OBVIOUS
  <2>1. CASE UNCHANGED vars
    BY <2>1 DEF vars, TypeInv, TypeOK, Grounded, OwnersLive, Owners, Live
  <2> QED BY <2>1, TypeScriptOp, TypeFunction, TypeConstruction, TypeReloading DEF Next
<1> QED BY TypeInit, <1>1, PTL DEF Spec

\* Every field keeps its type, and no call, accessor or constructor ever works for an
\* instance or a runtime that is gone.
THEOREM TypeCorrect == Spec => []TypeOK
BY TypeInvCorrect, PTL DEF TypeInv

-----------------------------------------------------------------------------
(* The phases of a reload, when member initializers leave the resource alone. *)

\* An activation above which nothing runs but the member initializers it calls.
Busy(f) == f.kind = "members" \/ (f.kind = "reload" /\ f.published /\ f.todo # {})
Calm(q) == \A k \in 1..Len(q) : ~Busy(q[k])

\* Some reload below has published its program.
Publishes(f) == f.kind = "reload" /\ f.published
Announced(q) == \E k \in 1..Len(q) : Publishes(q[k])

Fit(i) == prog[inst[i]] = program
AllFit == \A i \in Live : Fit(i)
Apart == \A i, j \in Live : inst[i] = inst[j] => i = j

\* No instance is being constructed or moved; one is being constructed; _reload m, with
\* q below it, is between two instances; it waits for the initializers of one.
Settled == Calm(stack) /\ AllFit /\ (~Announced(stack) => dispatch = static)
Creating == /\ On("members") /\ Caller.kind = "create" /\ Top.fuel = 0
            /\ Calm(Below) /\ AllFit /\ (~Announced(Below) => dispatch = static)
Move(m, q) == /\ m.kind = "reload" /\ m.published /\ m.todo \subseteq Live /\ Calm(q)
              /\ ~Announced(q) => dispatch = m.prevStatic
              /\ \A i \in Live : /\ m.prev[i] # None /\ prog[m.prev[i]] = m.prevProgram
                                 /\ i \notin m.todo => Fit(i)
              /\ \A i, j \in Live : m.prev[i] = m.prev[j] => i = j
Moving == On("reload") /\ Top.todo # {} /\ Move(Top, Below)
Starting == /\ On("members") /\ Caller.kind = "reload" /\ Top.fuel = 0
            /\ Top.by \notin Caller.todo /\ Move(Caller, Rest)

PhaseInv == (Settled \/ Creating \/ Moving \/ Starting) /\ Apart

LEMMA StackTop ==
  ASSUME Good(stack), stack # <<>>
  PROVE  Below \in Seq(Activation) /\ Top \in Activation /\ stack = Append(Below, Top)
<1>1. /\ stack \in Seq(Activation) /\ Below \in Seq(Activation) /\ Top \in Activation
      /\ Len(stack) \in Nat \ {0} /\ Len(Below) = Len(stack) - 1
      /\ \A k \in 1..Len(Below) : Below[k] = stack[k]
  BY GoodBelow DEF Good
<1>2. /\ Append(Below, Top) \in Seq(Activation) /\ Len(Append(Below, Top)) = Len(stack)
      /\ \A k \in 1..Len(Below) : Append(Below, Top)[k] = Below[k]
      /\ Append(Below, Top)[Len(Below) + 1] = Top
  BY <1>1, AppendProperties
<1>3. ASSUME NEW k \in 1..Len(stack) PROVE Append(Below, Top)[k] = stack[k]
  BY <1>1, <1>2 DEF Top
<1> QED BY <1>1, <1>2, <1>3

LEMMA CalmPush ==
  ASSUME NEW q \in Seq(Activation), NEW f \in Activation
  PROVE  /\ Append(q, f) \in Seq(Activation)
         /\ Calm(Append(q, f)) <=> Calm(q) /\ ~Busy(f)
         /\ Announced(Append(q, f)) <=> Announced(q) \/ Publishes(f)
<1>1. /\ Append(q, f) \in Seq(Activation) /\ Len(q) \in Nat
      /\ Len(Append(q, f)) = Len(q) + 1
      /\ \A k \in 1..Len(q) : Append(q, f)[k] = q[k]
      /\ Append(q, f)[Len(q) + 1] = f
  BY AppendProperties
<1>2. \A k \in 1..(Len(q) + 1) : k \in 1..Len(q) \/ k = Len(q) + 1
  BY <1>1
<1>3. 1..Len(q) \subseteq 1..(Len(q) + 1) /\ Len(q) + 1 \in 1..(Len(q) + 1)
  BY <1>1
<1>4. Calm(Append(q, f)) <=> Calm(q) /\ ~Busy(f)
  BY <1>1, <1>2, <1>3 DEF Calm
<1>5. Announced(Append(q, f)) <=> Announced(q) \/ Publishes(f)
  BY <1>1, <1>2, <1>3 DEF Announced
<1> QED BY <1>1, <1>4, <1>5

LEMMA CalmBelow ==
  ASSUME Good(stack), stack # <<>>
  PROVE  /\ Calm(stack) <=> Calm(Below) /\ ~Busy(Top)
         /\ Announced(stack) <=> Announced(Below) \/ Publishes(Top)
BY StackTop, CalmPush, ZenonT(30)

\* The topmost activation of a stack on which one was pushed.
LEMMA PushedOne ==
  ASSUME NEW q \in Seq(Activation), NEW f \in Activation, stack' = Append(q, f)
  PROVE  stack' # <<>> /\ Top' = f /\ Below' = q
<1>1. /\ stack' \in Seq(Activation) /\ Len(stack') = Len(q) + 1 /\ Len(q) \in Nat
      /\ stack'[Len(q) + 1] = f /\ \A k \in 1..Len(q) : stack'[k] = q[k]
  BY AppendProperties
<1>2. stack' # <<>> /\ Len(stack') - 1 = Len(q) /\ Top' = f
  BY <1>1 DEF Top
<1>3. Below' \in Seq(Activation) /\ Len(Below') = Len(q)
      /\ \A k \in 1..Len(q) : Below'[k] = stack'[k]
  BY <1>1, <1>2, SubSeqProperties DEF Below
<1>4. Below' = q
  BY <1>1, <1>3
<1> QED BY <1>2, <1>4

\* The topmost two activations of a stack on which two were pushed.
LEMMA PushedTwo ==
  ASSUME NEW q \in Seq(Activation), NEW f \in Activation, NEW g \in Activation,
         stack' = Append(Append(q, f), g)
  PROVE  /\ stack' # <<>> /\ Top' = g /\ Below' = Append(q, f) /\ Caller' = f /\ Rest' = q
<1> DEFINE p == Append(q, f)
<1>1. p \in Seq(Activation) /\ Len(p) = Len(q) + 1 /\ Len(q) \in Nat /\ p[Len(q) + 1] = f
      /\ \A k \in 1..Len(q) : p[k] = q[k]
  BY AppendProperties
<1> HIDE DEF p
<1>2. Append(p, g) \in Seq(Activation) /\ Len(Append(p, g)) = Len(p) + 1
      /\ Append(p, g)[Len(p) + 1] = g /\ \A k \in 1..Len(p) : Append(p, g)[k] = p[k]
  BY <1>1, AppendProperties
<1>3. stack' = Append(p, g) /\ Len(stack') = Len(q) + 2 /\ Len(stack') - 1 = Len(p)
      /\ Len(stack') - 2 = Len(q) /\ stack' # <<>>
  BY <1>1, <1>2 DEF p
<1>4. Below' \in Seq(Activation) /\ Len(Below') = Len(p)
      /\ \A k \in 1..Len(p) : Below'[k] = Append(p, g)[k]
  BY <1>1, <1>2, <1>3, SubSeqProperties DEF Below
<1>5. Below' = p
  BY <1>1, <1>2, <1>4
<1>6. Len(p) \in 0..Len(stack') /\ Len(q) \in 0..Len(stack')
  BY <1>1, <1>3
<1>7. Rest' \in Seq(Activation) /\ Len(Rest') = Len(q)
      /\ \A k \in 1..Len(q) : Rest'[k] = Append(p, g)[k]
  BY <1>1, <1>2, <1>3, <1>6, SubSeqProperties DEF Rest
<1>8. \A k \in 1..Len(q) : Rest'[k] = q[k]
  BY <1>1, <1>2, <1>7
<1>9. Rest' = q
  BY <1>7, <1>8
<1>10. Top' = g /\ Caller' = f
  BY <1>1, <1>2, <1>3, <1>5 DEF Top, Caller
<1> QED BY <1>3, <1>5, <1>9, <1>10 DEF p

LEMMA CalmRest ==
  ASSUME Good(stack), Len(stack) > 1
  PROVE  /\ Calm(Below) <=> Calm(Rest) /\ ~Busy(Caller)
         /\ Announced(Below) <=> Announced(Rest) \/ Publishes(Caller)
BY GoodRest, CalmPush, ZenonT(30) DEF Good

LEMMA CalmSpent ==
  ASSUME Good(stack), CanAct \/ Running
  PROVE  /\ Spent \in Seq(Activation) /\ (Calm(Spent) <=> Calm(stack))
         /\ Announced(Spent) <=> Announced(stack)
<1>1. /\ Good(Spent) /\ Len(Spent) = Len(stack)
      /\ \A k \in 1..Len(stack) : /\ Spent[k].kind = stack[k].kind
                                  /\ stack[k].kind = "reload" => Spent[k] = stack[k]
  BY GoodSpent
<1>2. \A k \in 1..Len(stack) : /\ Busy(Spent[k]) <=> Busy(stack[k])
                               /\ Publishes(Spent[k]) <=> Publishes(stack[k])
  BY <1>1 DEF Busy, Publishes
<1> DEFINE p == Spent
<1>5. Len(p) = Len(stack) /\ p \in Seq(Activation)
  BY <1>1 DEF Good
<1>6. \A k \in 1..Len(stack) : /\ Busy(p[k]) <=> Busy(stack[k])
                               /\ Publishes(p[k]) <=> Publishes(stack[k])
  BY <1>2
<1> HIDE DEF p
<1>3. Calm(p) <=> Calm(stack)
  BY <1>5, <1>6 DEF Calm
<1>4. Announced(p) <=> Announced(stack)
  BY <1>5, <1>6 DEF Announced
<1> QED BY <1>3, <1>4, <1>5 DEF p

\* make_shared returns no runtime that an instance or an activation still refers to.
LEMMA FreshState ==
  ASSUME NEW s \in States, Allocated(s)
  PROVE  /\ \A i \in Live : s # inst[i]
         /\ \A k \in 1..Len(stack) : \A i \in Instances :
              stack[k].kind = "reload" /\ stack[k].prev[i] # None => s # stack[k].prev[i]
<1>1. s \notin Owned
  BY DEF Allocated
<1>2. ASSUME NEW i \in Live PROVE inst[i] \in Owned
  BY DEF Live, Owned
<1>3. ASSUME NEW k \in 1..Len(stack), NEW i \in Instances, stack[k].kind = "reload",
             stack[k].prev[i] # None
      PROVE  stack[k].prev[i] \in Owned
  <2>1. stack[k].prev[i] \in Holds(stack[k])
    BY <1>3 DEF Holds
  <2> QED BY <2>1 DEF Owned
<1> QED BY <1>1, <1>2, <1>3

\* Script acts, and functions return, only in a settled phase.
LEMMA WhenSettled ==
  ASSUME PhaseInv
  PROVE  /\ CanAct => Settled
         /\ \A kind \in {"call", "script", "access", "create"} : On(kind) => Settled
         /\ Running => Settled
         /\ On("reload") /\ (Top.published => Top.todo = {}) => Settled
<1>1. On("members") /\ Top.fuel = 0 => ~CanAct
  BY DEF On, CanAct
<1>2. On("reload") => ~CanAct
  BY DEF On, CanAct, Acts
<1>3. On("members") /\ Top.fuel = 0 => ~Running
  BY DEF On, Running
<1>4. On("reload") => ~Running
  BY DEF On, Running
<1> QED BY <1>1, <1>2, <1>3, <1>4 DEF PhaseInv, Creating, Moving, Starting, Move, On

LEMMA WhenInitialized ==
  ASSUME TypeInv, PhaseInv, On("members")
  PROVE  /\ Caller.kind = "create" => Creating
         /\ Caller.kind = "reload" => Starting
<1>1. Busy(Top) /\ stack # <<>>
  BY DEF On, Busy
<1>2. ~Settled
  BY <1>1, CalmBelow, TypeParts DEF Settled
<1> QED BY <1>2 DEF PhaseInv, Creating, Moving, Starting, On

\* The runtimes of the instances that a step keeps.
Stays == /\ program' = program
         /\ \A i \in Live' : i \in Live /\ inst'[i] = inst[i] /\ prog'[inst[i]] = prog[inst[i]]

LEMMA StaysFit ==
  ASSUME Stays
  PROVE  (AllFit => AllFit') /\ (Apart => Apart')
<1>1. ASSUME AllFit PROVE AllFit'
  BY <1>1 DEF Stays, AllFit, Fit
<1>2. ASSUME Apart PROVE Apart'
  BY <1>2 DEF Stays, Apart
<1> QED BY <1>1, <1>2

LEMMA SettledNext ==
  ASSUME NEW q, stack' = q, Calm(q), Stays, AllFit, Apart, Announced(q) \/ dispatch' = static'
  PROVE  Settled' /\ Apart'
<1>1. Calm(stack)' /\ (Announced(stack)' \/ (dispatch = static)')
  BY DEF Calm, Announced, Publishes, Busy
<1> QED BY <1>1, StaysFit DEF Settled

\* An activation that is not busy starts while the phase is settled.
LEMMA SettledCall ==
  ASSUME TypeInv, Settled, Apart, NEW q \in Seq(Activation), NEW f \in Activation,
         Calm(q), Announced(q) <=> Announced(stack), stack' = Append(q, f), ~Busy(f),
         Stays, dispatch' = dispatch, static' = static
  PROVE  Settled' /\ Apart'
BY CalmPush, SettledNext DEF Settled

LEMMA SameStays ==
  ASSUME UNCHANGED <<program, inst, prog>>
  PROVE  Stays
BY DEF Stays, Live

LEMMA PhaseScriptOp ==
  ASSUME TypeInv, PhaseInv, ScriptOp, "members" \notin Hooks
  PROVE  (Settled' \/ Creating') /\ Apart'
<1>0. FieldsOK /\ Good(stack) /\ Apart /\ FuelOf("members") = 0
  BY TypeParts DEF PhaseInv, FuelOf
<1>1. ASSUME CanAct
      PROVE  /\ Settled /\ Spent \in Seq(Activation) /\ Calm(Spent)
             /\ Announced(Spent) <=> Announced(stack)
             /\ Announced(Spent) \/ dispatch = static
  BY <1>0, <1>1, WhenSettled, CalmSpent DEF Settled
<1>2. ASSUME NEW f \in Activation, ~Busy(f), CanAct, Push(f),
             UNCHANGED <<program, static, dispatch, inst, prog>>
      PROVE  Settled' /\ Apart'
  BY <1>0, <1>1, <1>2, SettledCall, SameStays DEF Push
<1>3. ASSUME NEW s \in States, Call(s) \/ Resume(s) PROVE Settled' /\ Apart'
  <2>1. /\ Small("call", s, None, Fuel) \in Activation
        /\ Small("call", s, None, Fuel).kind = "call"
    BY SmallGood, FuelGood
  <2> QED BY <1>2, <1>3, <2>1 DEF Call, Resume, Busy
<1>4. ASSUME NEW i \in Instances, Access(i) PROVE Settled' /\ Apart'
  <2>1. inst[i] \in States \cup {None}
    BY <1>0 DEF FieldsOK
  <2>2. /\ Small("access", inst[i], i, Fuel) \in Activation
        /\ Small("access", inst[i], i, Fuel).kind = "access"
    BY <2>1, SmallGood, FuelGood
  <2> QED BY <1>2, <1>4, <2>2 DEF Access, Busy
<1>5. ASSUME NEW i \in Instances, Edit(i) PROVE Settled' /\ Apart'
  BY <1>0, <1>1, <1>5, SameStays, SettledNext DEF Edit, Settled
<1>6. ASSUME NEW s \in States, EditStatic(s) PROVE Settled' /\ Apart'
  BY <1>0, <1>1, <1>6, SameStays, SettledNext DEF EditStatic, Settled
<1>7. ASSUME NEW i \in Instances, Free(i) PROVE Settled' /\ Apart'
  <2>1. Stays
    BY <1>0, <1>7, Distinct DEF Free, Stays, Live, FieldsOK
  <2> QED BY <1>0, <1>1, <1>7, <2>1, SettledNext DEF Free, Settled
<1>8. ASSUME NEW i \in Instances, NEW s \in States, New(i, s) PROVE Creating' /\ Apart'
  <2> DEFINE f == Small("create", None, i, 0)
             g == Small("members", s, i, FuelOf("members"))
  <2>1. f \in Activation /\ f.kind = "create" /\ g \in Activation /\ g.kind = "members"
    BY SmallGood, FuelGood
  <2>2. g.fuel = 0
    BY <1>0 DEF Small
  <2>3. stack' = Spent \o <<f, g>> /\ CanAct
    BY <1>8 DEF New
  <2> HIDE DEF f, g
  <2>4. stack' = Append(Append(Spent, f), g) /\ Append(Spent, f) \in Seq(Activation)
        /\ Calm(Append(Spent, f)) /\ (Announced(Append(Spent, f)) \/ dispatch = static)
    BY <1>1, <2>1, <2>3, PushBoth, CalmPush DEF Busy
  <2>5. /\ Top' = g /\ stack' # <<>> /\ Below' = Append(Spent, f) /\ Caller' = f
    BY <1>1, <2>1, <2>4, PushedTwo
  <2>6. /\ Live' = Live \cup {i} /\ program' = program /\ i \notin Live
        /\ \A j \in Live : inst'[j] = inst[j] /\ prog'[inst[j]] = prog[inst[j]] /\ inst[j] # s
        /\ inst'[i] = s /\ prog'[s] = program
    BY <1>0, <1>8, FreshState, Distinct DEF New, Live, FieldsOK
  <2>7. AllFit' /\ Apart'
    <3>1. AllFit /\ Apart
      BY <1>0, <1>1, <2>3 DEF Settled
    <3>2. ASSUME NEW j \in Live' PROVE prog'[inst'[j]] = program'
      BY <2>6, <3>1 DEF AllFit, Fit
    <3>3. Apart'
      BY <2>6, <3>1 DEF Apart
    <3> QED BY <3>2, <3>3 DEF AllFit, Fit
  <2>8. Calm(Below)' /\ (Announced(Below)' \/ dispatch' = static')
    BY <1>8, <2>4, <2>5 DEF Calm, Announced, Busy, Publishes, New
  <2>9. Creating'
    BY <2>1, <2>2, <2>5, <2>7, <2>8 DEF Creating, On
  <2> QED BY <2>7, <2>9
<1>9. ASSUME NEW keep \in BOOLEAN, NEW s \in States, BeginReload(keep, s) PROVE Settled' /\ Apart'
  <2> DEFINE f == [kind |-> "reload", keep |-> keep, candidate |-> built + 1, shared |-> s,
          published |-> FALSE, todo |-> {}, saved |-> [i \in Instances |-> "initial"],
          prev |-> [i \in Instances |-> None], prevStatic |-> None,
          prevProgram |-> 0, queue |-> {}, wanted |-> "initial"]
             g == Small("call", s, None, FuelOf("static"))
  <2>1. f \in Activation
    BY <1>0, <1>9, BuildGood DEF BeginReload
  <2>2. g \in Activation /\ g.kind = "call"
    BY SmallGood, FuelGood
  <2>3. f.kind = "reload" /\ ~f.published
    OBVIOUS
  <2>4. stack' = Spent \o <<f, g>> /\ CanAct
    BY <1>9 DEF BeginReload
  <2> HIDE DEF f, g
  <2>5. stack' = Append(Append(Spent, f), g)
    BY <1>1, <2>4, PushBoth
  <2>6. Append(Spent, f) \in Seq(Activation) /\ Calm(Append(Spent, f))
        /\ (Announced(Append(Spent, f)) <=> Announced(stack)) /\ ~Busy(g)
    BY <1>1, <2>1, <2>2, <2>3, <2>4, CalmPush DEF Busy, Publishes
  <2>7. Stays
    <3>1. \A i \in Live : s # inst[i]
      BY <1>9, FreshState DEF BeginReload
    <3>2. program' = program /\ inst' = inst /\ prog' = [prog EXCEPT ![s] = built + 1]
      BY <1>9 DEF BeginReload
    <3> QED BY <1>0, <3>1, <3>2 DEF Stays, Live, FieldsOK
  <2> QED BY <1>0, <1>1, <1>9, <2>2, <2>4, <2>5, <2>6, <2>7, SettledCall DEF BeginReload
<1> QED BY <1>3, <1>4, <1>5, <1>6, <1>7, <1>8, <1>9 DEF ScriptOp

\* The topmost activation returns while the phase is settled.
LEMMA SettledReturn ==
  ASSUME TypeInv, Settled, Apart, stack # <<>>, stack' = Below, ~Publishes(Top), Stays,
         dispatch' = dispatch, static' = static
  PROVE  Settled' /\ Apart'
<1>1. Calm(Below) /\ (Announced(Below) <=> Announced(stack))
  BY CalmBelow, TypeParts DEF Settled
<1> QED BY <1>1, SettledNext DEF Settled

LEMMA PhaseFunction ==
  ASSUME TypeInv, PhaseInv, EditOwn \/ EditOwnStatic \/ Return \/ Suspend
  PROVE  Settled' /\ Apart'
<1>0. Good(stack) /\ Apart /\ Settled /\ Stays
  BY TypeParts, WhenSettled, SameStays DEF PhaseInv, EditOwn, EditOwnStatic, Return, Suspend, Running
<1>1. CASE EditOwn \/ EditOwnStatic
  BY <1>0, <1>1, CalmSpent, SettledNext DEF EditOwn, EditOwnStatic, Settled, Running, On
<1>2. CASE Return \/ Suspend
  <2>1. stack # <<>> /\ ~Publishes(Top) /\ stack' = Below
    BY <1>2 DEF Return, Suspend, On, Publishes
  <2> QED BY <1>0, <1>2, <2>1, SettledReturn DEF Return, Suspend
<1> QED BY <1>1, <1>2

\* A constructor or its initializers fail.
LEMMA RejectStays ==
  ASSUME FieldsOK, NEW i, Reject(i)
  PROVE  Stays
<1>1. Live' \subseteq Live /\ \A j \in Live' : inst'[j] = inst[j]
  BY Distinct DEF Reject, Live, FieldsOK
<1> QED BY <1>1 DEF Stays, Reject

LEMMA PhaseConstruction ==
  ASSUME TypeInv, PhaseInv, Construction
  PROVE  Settled' /\ Apart'
<1>0. FieldsOK /\ Good(stack) /\ Apart
  BY TypeParts DEF PhaseInv
<1>1. ASSUME On("members"), Caller.kind = "create"
      PROVE  /\ AllFit /\ Below \in Seq(Activation) /\ Calm(Below)
             /\ Rest \in Seq(Activation) /\ Calm(Rest)
             /\ Announced(Below) \/ dispatch = static
             /\ Announced(Rest) \/ dispatch = static
  <2>1. Creating /\ Len(stack) > 1
    BY <1>0, <1>1, WhenInitialized, InitializerCalled
  <2>2. ~Publishes(Caller)
    BY <1>1 DEF Publishes
  <2> QED BY <1>0, <2>1, <2>2, CalmRest, GoodRest, GoodBelow DEF Creating, Good
<1>2. CASE CallInit
  <2> DEFINE f == Small("call", inst[Top.by], None, Fuel)
  <2>1. /\ On("members") /\ Caller.kind = "create" /\ stack' = Append(Below, f)
        /\ UNCHANGED <<program, static, dispatch, inst, prog>>
    BY <1>2 DEF CallInit, Initialized
  <2>2. inst[Top.by] \in States
    BY <1>0, <2>1, InitializerCalled, TypeParts, Distinct DEF OwnersLive, FieldsOK, Live
  <2>3. f \in Activation /\ f.kind = "call"
    BY <2>2, SmallGood, FuelGood
  <2> HIDE DEF f
  <2>4. Calm(Append(Below, f)) /\ (Announced(Append(Below, f)) \/ dispatch = static)
    BY <1>1, <2>1, <2>3, CalmPush DEF Busy
  <2> QED BY <1>0, <1>1, <2>1, <2>4, SameStays, SettledNext
<1>3. CASE InitializersFail
  <2>1. /\ On("members") /\ Caller.kind = "create" /\ stack' = Rest /\ Reject(Top.by)
    BY <1>3 DEF InitializersFail, Initialized, Rest
  <2> QED BY <1>0, <1>1, <2>1, RejectStays, SettledNext DEF Reject
<1>4. CASE ConstructorFails
  <2>1. /\ On("create") /\ stack' = Below /\ Reject(Top.by) /\ stack # <<>> /\ ~Publishes(Top)
    BY <1>4 DEF ConstructorFails, On, Publishes
  <2> QED BY <1>0, <2>1, WhenSettled, RejectStays, SettledReturn DEF Reject
<1>5. CASE Constructed
  <2>1. On("create") /\ stack' = Below /\ stack # <<>> /\ ~Publishes(Top)
    BY <1>5 DEF Constructed, On, Publishes
  <2> QED BY <1>0, <1>5, <2>1, WhenSettled, SameStays, SettledReturn DEF Constructed
<1> QED BY <1>2, <1>3, <1>4, <1>5 DEF Construction

\* _reload publishes a program: its instances are to be moved, unless there are none.
LEMMA PhasePublish ==
  ASSUME TypeInv, PhaseInv, Publish
  PROVE  (Settled' \/ Moving') /\ Apart'
<1>0. FieldsOK /\ Good(stack) /\ Apart /\ Settled
  BY TypeParts, WhenSettled DEF PhaseInv, Publish
<1> DEFINE f == [Top EXCEPT !.published = TRUE, !.todo = Live, !.saved = Saved, !.prev = inst,
                   !.prevStatic = static, !.prevProgram = program, !.wanted = wantStatic,
                   !.queue = ({static} \cup {inst[i] : i \in Live}) \ {None}]
<1>1. /\ On("reload") /\ ~Top.published /\ stack' = Append(Below, f)
      /\ inst' = inst /\ prog' = prog /\ dispatch' = dispatch
  BY DEF Publish
<1>2. f \in Activation /\ f.kind = "reload" /\ Top \in ReloadFrame
  BY <1>0, <1>1, PublishedGood
<1>3. /\ f.published /\ f.todo = Live /\ f.prev = inst /\ f.prevStatic = static
      /\ f.prevProgram = program
  BY <1>2 DEF ReloadFrame
<1> HIDE DEF f
<1>4. /\ stack # <<>> /\ Below \in Seq(Activation) /\ Calm(Below)
      /\ Announced(Below) \/ dispatch = static
  BY <1>0, <1>1, GoodBelow, CalmBelow DEF On, Settled, Publishes, Good
<1>5. stack' # <<>> /\ Top' = f /\ Below' = Below
  BY <1>1, <1>2, <1>4, PushedOne
<1>6. Live' = Live /\ Apart'
  BY <1>0, <1>1 DEF Live, Apart
<1>7. CASE Live = {}
  <2>1. Calm(Append(Below, f)) /\ Announced(Append(Below, f))
    BY <1>2, <1>3, <1>4, <1>7, CalmPush DEF Busy, Publishes
  <2>2. Calm(stack)' /\ Announced(stack)'
    BY <1>1, <2>1 DEF Calm, Announced, Busy, Publishes
  <2>3. AllFit'
    BY <1>6, <1>7 DEF AllFit
  <2> QED BY <1>6, <2>2, <2>3 DEF Settled
<1>8. CASE Live # {}
  <2>1. Calm(Below)' /\ (Announced(Below)' <=> Announced(Below))
    BY <1>4, <1>5 DEF Calm, Announced, Busy, Publishes
  <2>2. \A i \in Live : inst[i] # None /\ prog[inst[i]] = program
    BY <1>0 DEF Settled, AllFit, Fit, Live
  <2>3. Move(Top, Below)'
    BY <1>0, <1>1, <1>2, <1>3, <1>4, <1>5, <1>6, <2>1, <2>2 DEF Move, Apart
  <2>4. Moving'
    BY <1>2, <1>3, <1>5, <1>8, <2>3 DEF Moving, On
  <2> QED BY <1>6, <2>4
<1> QED BY <1>7, <1>8

\* _reload moves an instance to the program it published.
LEMMA PhaseMigrate ==
  ASSUME TypeInv, PhaseInv, NEW i \in Instances, NEW s \in States, Migrate(i, s),
         "members" \notin Hooks
  PROVE  Starting' /\ Apart'
<1>0. FieldsOK /\ Good(stack) /\ Apart
  BY TypeParts DEF PhaseInv
<1> DEFINE f == [Top EXCEPT !.todo = @ \ {i}]
           g == Small("members", s, i, FuelOf("members"))
<1>1. /\ stack # <<>> /\ Top.kind = "reload" /\ Top.published /\ i \in Top.todo
      /\ stack' = Append(Append(Below, f), g) /\ inst' = [inst EXCEPT ![i] = s]
      /\ prog' = [prog EXCEPT ![s] = program] /\ program' = program /\ Allocated(s)
      /\ dispatch' = dispatch
  BY DEF Migrate, On
<1>2. Top \in ReloadFrame /\ Below \in Seq(Activation) /\ Top = stack[Len(stack)]
      /\ Len(stack) \in 1..Len(stack)
  BY <1>0, <1>1, GoodBelow, Kinds DEF Good, Top
<1>3. /\ f \in Activation /\ f.kind = "reload" /\ f.published = Top.published
      /\ f.todo = Top.todo \ {i} /\ f.prev = Top.prev /\ f.prevStatic = Top.prevStatic
      /\ f.prevProgram = Top.prevProgram
  BY <1>1, <1>2 DEF Activation, ReloadFrame
<1>4. g \in Activation /\ g.kind = "members" /\ g.by = i /\ g.fuel = 0
  <2>1. g \in Activation /\ g.kind = "members" /\ g.by = i
    BY SmallGood, FuelGood
  <2> QED BY <2>1 DEF Small, FuelOf
<1> HIDE DEF f, g
<1>5. stack' # <<>> /\ Top' = g /\ Caller' = f /\ Rest' = Below
  BY <1>1, <1>2, <1>3, <1>4, PushedTwo
<1>6. Moving
  <2>1. Busy(Top) /\ ~On("members")
    BY <1>1 DEF Busy, On
  <2>2. ~Settled
    BY <1>0, <1>1, <2>1, CalmBelow DEF Settled
  <2> QED BY <2>1, <2>2 DEF PhaseInv, Creating, Starting
<1>7. Move(Top, Below) /\ (\A j \in Live : s # inst[j]) /\ (\A j \in Live : s # Top.prev[j])
  BY <1>1, <1>2, <1>6, FreshState DEF Moving, Move, Live
<1>8. /\ \A j \in Live' : /\ j # i => j \in Live /\ inst'[j] = inst[j]
                                      /\ prog'[inst[j]] = prog[inst[j]]
                          /\ j = i => inst'[j] = s /\ prog'[s] = program
  BY <1>0, <1>1, <1>7 DEF Live, FieldsOK
<1>9. Apart'
  BY <1>0, <1>7, <1>8 DEF Apart
<1>10. i \in Live => prog'[Top.prev[i]] = prog[Top.prev[i]]
  BY <1>0, <1>1, <1>7 DEF FieldsOK
<1>11. Live' = Live
  BY <1>0, <1>1, <1>7, Distinct DEF Move, Live, FieldsOK
<1>12. ASSUME NEW j \in Live
       PROVE  /\ f.prev[j] # None /\ prog'[f.prev[j]] = f.prevProgram
              /\ j \notin f.todo => prog'[inst'[j]] = program'
  <2>1. Top.prev[j] \in States \cup {None} /\ Top.prev[j] # None /\ Top.prev[j] # s
        /\ prog[Top.prev[j]] = Top.prevProgram
    BY <1>2, <1>7 DEF ReloadFrame, Move, Live
  <2>2. prog'[Top.prev[j]] = prog[Top.prev[j]]
    BY <1>0, <1>1, <2>1 DEF FieldsOK
  <2>3. ASSUME j \notin f.todo PROVE prog'[inst'[j]] = program'
    <3>1. j # i => j \notin Top.todo
      BY <1>3, <2>3
    <3> QED BY <1>1, <1>7, <1>8, <1>11, <3>1 DEF Move, Fit
  <2> QED BY <1>3, <2>1, <2>2, <2>3
<1>13. /\ f.published /\ f.todo \subseteq Live
       /\ \A j, k \in Live : f.prev[j] = f.prev[k] => j = k
       /\ Announced(Below) \/ dispatch' = f.prevStatic
  BY <1>1, <1>3, <1>7 DEF Move
<1>14. Calm(Rest)' /\ (Announced(Rest)' <=> Announced(Below))
  BY <1>5, <1>7 DEF Move, Calm, Announced, Busy, Publishes
<1>15. Move(Caller, Rest)'
  BY <1>3, <1>5, <1>11, <1>12, <1>13, <1>14 DEF Move, Fit
<1>16. Starting'
  BY <1>3, <1>4, <1>5, <1>15 DEF Starting, On
<1> QED BY <1>9, <1>16

\* The initializers of a moved instance succeed: _reload goes on with the next one.
LEMMA PhaseRestore ==
  ASSUME TypeInv, PhaseInv, Restore
  PROVE  (Settled' \/ Moving') /\ Apart'
<1>0. FieldsOK /\ Good(stack) /\ Apart
  BY TypeParts DEF PhaseInv
<1>1. /\ On("members") /\ Caller.kind = "reload" /\ stack' = Below
      /\ UNCHANGED <<program, static, dispatch, inst, prog>>
  BY DEF Restore, Initialized
<1>2. /\ Len(stack) > 1 /\ Rest \in Seq(Activation) /\ Caller \in Activation
      /\ Below = Append(Rest, Caller)
  BY <1>0, <1>1, InitializerCalled, GoodRest DEF Good
<1>3. stack' # <<>> /\ Top' = Caller /\ Below' = Rest
  BY <1>1, <1>2, PushedOne
<1>4. Move(Caller, Rest)
  BY <1>1, WhenInitialized DEF Starting
<1>5. Stays /\ Live' = Live /\ Apart'
  BY <1>0, <1>1, SameStays, StaysFit DEF Live
<1>6. CASE Caller.todo = {}
  <2>1. AllFit
    BY <1>4, <1>6 DEF Move, AllFit
  <2>2. Calm(Below) /\ Announced(Below)
    BY <1>2, <1>4, <1>6, CalmPush DEF Move, Busy, Publishes
  <2> QED BY <1>0, <1>1, <1>5, <2>1, <2>2, SettledNext
<1>7. CASE Caller.todo # {}
  <2>1. Calm(Below)' /\ (Announced(Below)' <=> Announced(Rest))
    BY <1>3, <1>4 DEF Move, Calm, Announced, Busy, Publishes
  <2>2. Move(Top, Below)'
    BY <1>1, <1>3, <1>4, <1>5, <2>1 DEF Move, Fit
  <2>3. Moving'
    BY <1>1, <1>3, <1>7, <2>2 DEF Moving, On
  <2> QED BY <1>5, <2>3
<1> QED BY <1>6, <1>7

\* They fail: the instances go back to the runtimes they had.
LEMMA PhaseRollBack ==
  ASSUME TypeInv, PhaseInv, RollBack
  PROVE  Settled' /\ Apart'
<1>0. FieldsOK /\ Good(stack)
  BY TypeParts
<1>1. /\ On("members") /\ Caller.kind = "reload" /\ stack' = Rest
      /\ inst' = RolledBack(Caller) /\ program' = Caller.prevProgram
      /\ static' = Caller.prevStatic /\ dispatch' = dispatch /\ prog' = prog
  BY DEF RollBack, Initialized, Rest
<1>2. Caller \in ReloadFrame
  BY <1>0, <1>1, InitializerCalled, GoodRest, Kinds
<1>3. Move(Caller, Rest)
  BY <1>1, WhenInitialized DEF Starting
<1>4. Live' = Live /\ \A i \in Live : inst'[i] = Caller.prev[i]
  BY <1>0, <1>1, <1>3 DEF RolledBack, Live, Move, FieldsOK
<1>5. AllFit' /\ Apart'
  <2>1. \A i \in Live : prog'[inst'[i]] = program'
    BY <1>1, <1>3, <1>4 DEF Move
  <2>2. \A i, j \in Live : inst'[i] = inst'[j] => i = j
    BY <1>3, <1>4 DEF Move
  <2> QED BY <1>4, <2>1, <2>2 DEF AllFit, Apart, Fit
<1>6. Calm(stack)' /\ (Announced(stack)' <=> Announced(Rest))
  BY <1>1, <1>3 DEF Move, Calm, Announced, Busy, Publishes
<1> QED BY <1>1, <1>3, <1>5, <1>6 DEF Move, Settled

\* The previous runtimes are cancelled one by one.
LEMMA PhaseCancelOld ==
  ASSUME TypeInv, PhaseInv, NEW s \in States, CancelOld(s)
  PROVE  Settled' /\ Apart'
<1>0. FieldsOK /\ Good(stack) /\ Apart /\ Settled
  BY TypeParts, WhenSettled DEF PhaseInv, CancelOld
<1> DEFINE f == [Top EXCEPT !.queue = @ \ {s}]
           g == Small("script", None, None, Fuel)
<1>1. /\ stack # <<>> /\ Top.kind = "reload" /\ Top.published /\ Top.todo = {}
      /\ stack' = Append(Below, f) \/ stack' = Append(Append(Below, f), g)
      /\ UNCHANGED <<program, static, dispatch, inst, prog>>
  BY DEF CancelOld, On
<1>2. Top \in ReloadFrame /\ Below \in Seq(Activation)
  BY <1>0, <1>1, GoodBelow, Kinds DEF Good
<1>3. f \in Activation /\ f.kind = "reload" /\ f.published /\ f.todo = {}
  BY <1>1, <1>2 DEF Activation, ReloadFrame
<1>4. g \in Activation /\ g.kind = "script"
  BY SmallGood, FuelGood
<1> HIDE DEF f, g
<1>5. Calm(Below)
  BY <1>0, <1>1, CalmBelow DEF Settled
<1>6. /\ Append(Below, f) \in Seq(Activation) /\ Calm(Append(Below, f)) /\ Announced(Append(Below, f))
  BY <1>2, <1>3, <1>5, CalmPush DEF Busy, Publishes
<1>7. Calm(Append(Append(Below, f), g)) /\ Announced(Append(Append(Below, f), g))
  BY <1>4, <1>6, CalmPush DEF Busy
<1>8. Stays /\ AllFit
  BY <1>0, <1>1, SameStays DEF Settled
<1> QED BY <1>0, <1>1, <1>6, <1>7, <1>8, SettledNext

LEMMA PhaseReloadOver ==
  ASSUME TypeInv, PhaseInv, StaticInitFails \/ ReloadEnds
  PROVE  Settled' /\ Apart'
<1>0. Good(stack) /\ Apart
  BY TypeParts DEF PhaseInv
<1>1. CASE StaticInitFails
  <2>1. stack # <<>> /\ stack' = Below /\ ~Publishes(Top) /\ Settled
    BY <1>1, WhenSettled DEF StaticInitFails, On, Publishes
  <2> QED BY <1>0, <1>1, <2>1, SameStays, SettledReturn DEF StaticInitFails
<1>2. CASE ReloadEnds
  <2>1. /\ stack # <<>> /\ stack' = Below /\ Settled /\ dispatch' = static'
        /\ UNCHANGED <<program, inst, prog>>
    BY <1>2, WhenSettled DEF ReloadEnds, Dispatched, On
  <2>2. Calm(Below) /\ AllFit
    BY <1>0, <2>1, CalmBelow DEF Settled
  <2> QED BY <1>0, <2>1, <2>2, SameStays, SettledNext
<1> QED BY <1>1, <1>2

LEMMA PhaseNext ==
  ASSUME TypeInv, PhaseInv, Next, "members" \notin Hooks
  PROVE  PhaseInv'
BY PhaseScriptOp, PhaseFunction, PhaseConstruction, PhasePublish, PhaseMigrate, PhaseRestore,
   PhaseRollBack, PhaseCancelOld, PhaseReloadOver DEF Next, Reloading, PhaseInv

LEMMA PhaseInit == Init => PhaseInv
<1> SUFFICES ASSUME Init PROVE PhaseInv
  OBVIOUS
<1>1. 1..Len(stack) = {} /\ Live = {}
  BY DEF Init, Live
<1> QED BY <1>1 DEF Init, PhaseInv, Settled, Calm, AllFit, Apart

LEMMA PhaseCorrect == ASSUME "members" \notin Hooks PROVE Spec => []PhaseInv
<1>1. TypeInv /\ PhaseInv /\ [Next]_vars => PhaseInv'
  <2> SUFFICES ASSUME TypeInv, PhaseInv, [Next]_vars PROVE PhaseInv'
    OBVIOUS
  <2>1. CASE UNCHANGED vars
    <3>1. /\ stack' = stack /\ Live' = Live /\ Top' = Top /\ Below' = Below /\ Caller' = Caller
          /\ Rest' = Rest
      BY <2>1 DEF vars, Live, Top, Below, Caller, Rest
    <3>2. UNCHANGED <<program, static, dispatch, inst, prog>>
      BY <2>1 DEF vars
    <3>3. (AllFit' <=> AllFit) /\ (Apart' <=> Apart) /\ (Settled' <=> Settled)
      BY <3>1, <3>2 DEF Settled, AllFit, Apart, Fit, Calm, Announced, Busy, Publishes
    <3>4. (Creating' <=> Creating)
      BY <3>1, <3>2, <3>3 DEF Creating, On, Calm, Announced, Busy, Publishes
    <3>5. (Moving' <=> Moving) /\ (Starting' <=> Starting)
      BY <3>1, <3>2 DEF Moving, Starting, Move, Fit, On, Calm, Announced, Busy, Publishes
    <3> QED BY <3>3, <3>4, <3>5 DEF PhaseInv
  <2> QED BY <2>1, PhaseNext
<1> QED BY TypeInvCorrect, PhaseInit, <1>1, PTL DEF Spec

\* Those who look at the stack see whether a reload is moving instances.
LEMMA NotMoving ==
  ASSUME TypeInv, ~Migrating, Migrated
  PROVE  ~Moving /\ ~Starting
<1>1. Good(stack)
  BY TypeParts
<1>2. ~Moving
  <2>1. ASSUME Moving PROVE FALSE
    <3>1. Len(stack) \in 1..Len(stack) /\ Top = stack[Len(stack)]
      BY <1>1, <2>1, GoodBelow DEF Moving, On, Top
    <3> QED BY <2>1, <3>1 DEF Moving, Move, Migrating
  <2> QED BY <2>1
<1>3. ~Starting
  <2>1. ASSUME Starting PROVE FALSE
    <3>1. Len(stack) \in 1..Len(stack) /\ Top = stack[Len(stack)]
          /\ Caller = stack[Len(stack) - 1]
      BY <1>1, <2>1, InitializerCalled, GoodRest, GoodBelow DEF Starting, On, Top
    <3> QED BY <2>1, <3>1 DEF Starting, On, Migrated
  <2> QED BY <2>1
<1> QED BY <1>2, <1>3

\* When member initializers leave the resource alone, the property indices of the resource
\* fit the runtime of every instance whenever no instance is being moved.
THEOREM IndicesStayFit == ASSUME "members" \notin Hooks PROVE Spec => []IndicesFit
<1>1. TypeInv /\ PhaseInv => IndicesFit
  BY NotMoving DEF IndicesFit, PhaseInv, Settled, Creating, AllFit, Fit
<1> QED BY TypeInvCorrect, PhaseCorrect, <1>1, PTL

\* When member initializers leave the resource alone, the resource dispatches static calls
\* to its own program as soon as no reload is under way, however the reloads ended.
THEOREM DispatchFollows == ASSUME "members" \notin Hooks PROVE Spec => []DispatchSettled
<1>1. TypeInv /\ PhaseInv => DispatchSettled
  <2> SUFFICES ASSUME TypeInv, PhaseInv, \A k \in 1..Len(stack) : stack[k].kind # "reload"
               PROVE  dispatch = static
    BY DEF DispatchSettled
  <2>1. Good(stack) /\ ~Announced(stack)
    BY TypeParts DEF Announced, Publishes
  <2>2. ASSUME stack # <<>> PROVE ~Announced(Below) /\ Top.kind # "reload"
    BY <2>1, <2>2, CalmBelow, GoodBelow DEF Top
  <2>3. ASSUME Starting PROVE FALSE
    <3>1. Caller = stack[Len(stack) - 1] /\ Len(stack) - 1 \in 1..Len(stack)
      BY <2>1, <2>3, InitializerCalled, GoodRest DEF Starting
    <3> QED BY <2>3, <3>1 DEF Starting
  <2> QED BY <2>1, <2>2, <2>3 DEF PhaseInv, Settled, Creating, Moving, On
<1> QED BY TypeInvCorrect, PhaseCorrect, <1>1, PTL

-----------------------------------------------------------------------------
(* The static variables, when no function of a retired program and no lagging  *)
(* dispatch sets one.                                                         *)

\* The program a reload has laid aside: its candidate until it publishes it, the program
\* it replaced after that.
Aside(f) == IF f.published THEN f.prevProgram ELSE f.candidate

\* It is not the resource's program, and a replaced one keeps its static variables.
Intact(f, p, st, b) == f.kind = "reload" =>
  /\ Aside(f) # p /\ Aside(f) <= b
  /\ f.published => st[f.prevProgram] = f.wanted
Differ(f, g) == f.kind = "reload" /\ g.kind = "reload" => Aside(f) # Aside(g)
Follows(f, g) == f.kind = "reload" /\ g.kind = "members" => f.published

\* No two reloads have laid the same program aside, and only a published one migrates
\* instances.  p is the resource's program, st the static variables, b the programs built.
Shelved(q, p, st, b) == \A k \in 1..Len(q) :
  /\ Intact(q[k], p, st, b)
  /\ \A j \in 1..(k - 1) : Differ(q[j], q[k])
  /\ k > 1 => Follows(q[k - 1], q[k])

Slot(q, f, p, st, b) ==
  /\ Intact(f, p, st, b)
  /\ \A j \in 1..Len(q) : Differ(q[j], f)
  /\ q # <<>> => Follows(q[Len(q)], f)

StaticsInv == StaticsSurvive /\ program <= built /\ Shelved(stack, program, stat, built)

LEMMA AsideType ==
  ASSUME NEW f \in Activation, f.kind = "reload"
  PROVE  f \in ReloadFrame /\ Aside(f) \in Versions /\ Aside(f) \in Nat
BY Kinds, Bounds DEF Aside, ReloadFrame, Versions

LEMMA ShelvedPush ==
  ASSUME NEW q \in Seq(Activation), NEW f \in Activation, NEW p, NEW st, NEW b
  PROVE  Shelved(Append(q, f), p, st, b) <=> Shelved(q, p, st, b) /\ Slot(q, f, p, st, b)
<1> DEFINE r == Append(q, f)
<1>1. /\ r \in Seq(Activation) /\ Len(q) \in Nat /\ Len(r) = Len(q) + 1
      /\ \A k \in 1..Len(q) : r[k] = q[k]
      /\ r[Len(q) + 1] = f /\ (q # <<>> <=> Len(q) > 0)
  BY AppendProperties
<1> HIDE DEF r
<1>2. /\ \A k \in 1..Len(r) : k \in 1..Len(q) \/ k = Len(q) + 1
      /\ \A k \in 1..Len(q) : k \in 1..Len(r) /\ (k > 1 => k - 1 \in 1..Len(q))
                              /\ \A j \in 1..(k - 1) : j \in 1..Len(q)
      /\ Len(q) + 1 \in 1..Len(r) /\ (Len(q) + 1) - 1 = Len(q)
      /\ Len(q) > 0 => Len(q) \in 1..Len(q) /\ Len(q) + 1 > 1
  BY <1>1
<1>3. ASSUME Shelved(r, p, st, b) PROVE Shelved(q, p, st, b)
  BY <1>1, <1>2, <1>3 DEF Shelved
<1>4. ASSUME Shelved(r, p, st, b) PROVE Slot(q, f, p, st, b)
  <2>1. /\ Intact(r[Len(q) + 1], p, st, b)
        /\ \A j \in 1..Len(q) : Differ(r[j], r[Len(q) + 1])
        /\ Len(q) > 0 => Follows(r[Len(q)], r[Len(q) + 1])
    BY <1>2, <1>4 DEF Shelved
  <2> QED BY <1>1, <1>2, <2>1 DEF Slot
<1>5. ASSUME Shelved(q, p, st, b), Slot(q, f, p, st, b) PROVE Shelved(r, p, st, b)
  <2> SUFFICES ASSUME NEW k \in 1..Len(r)
               PROVE  /\ Intact(r[k], p, st, b)
                      /\ \A j \in 1..(k - 1) : Differ(r[j], r[k])
                      /\ k > 1 => Follows(r[k - 1], r[k])
    BY DEF Shelved
  <2>1. CASE k \in 1..Len(q)
    BY <1>1, <1>2, <1>5, <2>1 DEF Shelved
  <2>2. CASE k = Len(q) + 1
    BY <1>1, <1>2, <1>5, <2>2 DEF Slot
  <2> QED BY <1>2, <2>1, <2>2
<1> QED BY <1>3, <1>4, <1>5 DEF r

\* An activation that is no reload, and no initializer of one, starts.
LEMMA ShelvedSmall ==
  ASSUME NEW q \in Seq(Activation), NEW f \in Activation, NEW p, NEW st, NEW b,
         f.kind \notin {"reload", "members"}, Shelved(q, p, st, b)
  PROVE  Shelved(Append(q, f), p, st, b)
BY ShelvedPush DEF Slot, Intact, Differ, Follows

LEMMA ShelvedParts ==
  ASSUME Good(stack), NEW p, NEW st, NEW b
  PROVE  /\ stack # <<>> => (Shelved(stack, p, st, b) <=>
                               Shelved(Below, p, st, b) /\ Slot(Below, Top, p, st, b))
         /\ Len(stack) > 1 => (Shelved(Below, p, st, b) <=>
                               Shelved(Rest, p, st, b) /\ Slot(Rest, Caller, p, st, b))
<1>1. ASSUME stack # <<>>
      PROVE  Shelved(stack, p, st, b) <=>
               Shelved(Below, p, st, b) /\ Slot(Below, Top, p, st, b)
  <2>1. Below \in Seq(Activation) /\ Top \in Activation /\ stack = Append(Below, Top)
    BY <1>1, StackTop
  <2>2. Shelved(Append(Below, Top), p, st, b) <=>
          Shelved(Below, p, st, b) /\ Slot(Below, Top, p, st, b)
    BY <2>1, ShelvedPush
  <2> QED BY <2>1, <2>2, Zenon
<1>2. ASSUME Len(stack) > 1
      PROVE  Shelved(Below, p, st, b) <=>
               Shelved(Rest, p, st, b) /\ Slot(Rest, Caller, p, st, b)
  <2>1. Rest \in Seq(Activation) /\ Caller \in Activation /\ Below = Append(Rest, Caller)
    BY <1>2, GoodRest DEF Good
  <2>2. Shelved(Append(Rest, Caller), p, st, b) <=>
          Shelved(Rest, p, st, b) /\ Slot(Rest, Caller, p, st, b)
    BY <2>1, ShelvedPush
  <2> QED BY <2>1, <2>2, Zenon
<1> QED BY <1>1, <1>2

LEMMA ShelvedSpent ==
  ASSUME Good(stack), CanAct \/ Running, NEW p, NEW st, NEW b, Shelved(stack, p, st, b)
  PROVE  Spent \in Seq(Activation) /\ Shelved(Spent, p, st, b)
<1> DEFINE r == Spent
<1>1. /\ r \in Seq(Activation) /\ Len(r) = Len(stack) /\ Len(stack) \in Nat
      /\ \A k \in 1..Len(stack) : /\ r[k].kind = stack[k].kind
                                  /\ stack[k].kind = "reload" => r[k] = stack[k]
  BY GoodSpent DEF Good
<1> HIDE DEF r
<1>2. ASSUME NEW k \in 1..Len(stack), NEW j \in 1..Len(stack)
      PROVE  /\ Intact(r[k], p, st, b) <=> Intact(stack[k], p, st, b)
             /\ Differ(r[j], r[k]) <=> Differ(stack[j], stack[k])
             /\ Follows(r[j], r[k]) <=> Follows(stack[j], stack[k])
  BY <1>1 DEF Intact, Differ, Follows
<1>3. \A k \in 1..Len(stack) : /\ k > 1 => k - 1 \in 1..Len(stack)
                               /\ \A j \in 1..(k - 1) : j \in 1..Len(stack)
  BY <1>1
<1>4. Shelved(r, p, st, b)
  BY <1>1, <1>2, <1>3 DEF Shelved
<1> QED BY <1>1, <1>4 DEF r

\* Static variables are assigned and programs built that no published reload below has
\* replaced.
LEMMA ShelvedStat ==
  ASSUME NEW q \in Seq(Activation), NEW p, NEW st, NEW b \in Nat, NEW p2, NEW st2, NEW b2 \in Nat,
         Shelved(q, p, st, b), b <= b2,
         \A k \in 1..Len(q) : q[k].kind = "reload" =>
           Aside(q[k]) # p2 /\ (q[k].published => st2[Aside(q[k])] = st[Aside(q[k])])
  PROVE  Shelved(q, p2, st2, b2)
<1>1. ASSUME NEW k \in 1..Len(q) PROVE Intact(q[k], p2, st2, b2)
  <2> SUFFICES ASSUME q[k].kind = "reload" PROVE Intact(q[k], p2, st2, b2)
    BY DEF Intact
  <2>1. q[k] \in Activation
    OBVIOUS
  <2>2. Aside(q[k]) \in Nat
    BY <2>1, AsideType
  <2>3. Aside(q[k]) <= b /\ (q[k].published => st[q[k].prevProgram] = q[k].wanted)
    BY DEF Shelved, Intact
  <2>4. Aside(q[k]) <= b2
    BY <2>2, <2>3
  <2> QED BY <2>3, <2>4 DEF Intact, Aside
<1> QED BY <1>1 DEF Shelved

LEMMA LeastStat ==
  ASSUME NEW q \in Seq(Activation), NEW p, NEW st, NEW b \in Nat, NEW st2, Shelved(q, p, st, b),
         \A k \in 1..Len(q) : q[k].kind = "reload" =>
           Aside(q[k]) # p /\ (q[k].published => st2[Aside(q[k])] = st[Aside(q[k])])
  PROVE  Shelved(q, p, st2, b)
<1>1. b <= b
  OBVIOUS
<1> QED BY <1>1, ShelvedStat

\* What script does to the resource.
LEMMA StaticsScriptOp ==
  ASSUME TypeInv, StaticsInv, ScriptOp, "retired" \notin Hooks
  PROVE  StaticsInv'
<1>0. FieldsOK /\ Good(stack) /\ stack \in Seq(Activation) /\ built \in Nat
  BY TypeParts, Bounds DEF Good, FieldsOK, Versions
<1>1. ASSUME CanAct
      PROVE  Spent \in Seq(Activation) /\ Shelved(Spent, program, stat, built)
  BY <1>0, <1>1, ShelvedSpent DEF StaticsInv
<1>2. ASSUME Shelved(stack', program, stat, built), UNCHANGED <<program, stat, built, wantStatic>>
      PROVE  StaticsInv'
  BY <1>2 DEF StaticsInv, StaticsSurvive
<1>3. ASSUME NEW f \in Activation, f.kind \notin {"reload", "members"}, CanAct, Push(f),
             UNCHANGED <<program, stat, built, wantStatic>>
      PROVE  StaticsInv'
  BY <1>1, <1>2, <1>3, ShelvedSmall DEF Push
<1>4. ASSUME NEW s \in States, Call(s) \/ Resume(s) PROVE StaticsInv'
  BY <1>3, <1>4, SmallGood, FuelGood DEF Call, Resume
<1>5. ASSUME NEW i \in Instances, Access(i) PROVE StaticsInv'
  <2>1. inst[i] \in States \cup {None}
    BY <1>0 DEF FieldsOK
  <2> QED BY <1>3, <1>5, <2>1, SmallGood, FuelGood DEF Access
<1>6. ASSUME NEW i \in Instances, Edit(i) \/ Free(i) PROVE StaticsInv'
  BY <1>1, <1>2, <1>6 DEF Edit, Free
<1>7. ASSUME NEW s \in States, EditStatic(s) PROVE StaticsInv'
  <2>1. /\ CanAct /\ stack' = Spent /\ UNCHANGED <<program, built>>
        /\ stat' = [stat EXCEPT ![program] = "edited"] /\ wantStatic' = "edited"
    BY <1>7 DEF EditStatic
  <2>2. program \in Versions /\ stat \in [Versions -> Values]
    BY <1>0 DEF FieldsOK
  <2>3. ASSUME NEW k \in 1..Len(Spent), Spent[k].kind = "reload"
        PROVE  Aside(Spent[k]) # program /\ stat'[Aside(Spent[k])] = stat[Aside(Spent[k])]
    <3>1. Aside(Spent[k]) # program /\ Spent[k] \in Activation
      BY <1>1, <2>1, <2>3 DEF Shelved, Intact
    <3> QED BY <2>1, <2>2, <2>3, <3>1, AsideType
  <2>4. Shelved(Spent, program, stat', built)
    BY <1>0, <1>1, <2>1, <2>3, LeastStat
  <2>5. stat'[program] = wantStatic'
    BY <2>1, <2>2
  <2> QED BY <2>1, <2>4, <2>5 DEF StaticsInv, StaticsSurvive
<1>8. ASSUME NEW i \in Instances, NEW s \in States, New(i, s) PROVE StaticsInv'
  <2> DEFINE f == Small("create", None, i, 0)
             g == Small("members", s, i, FuelOf("members"))
             q == Append(Spent, f)
  <2>1. /\ f \in Activation /\ f.kind = "create" /\ g \in Activation /\ g.kind = "members"
    BY SmallGood, FuelGood
  <2>2. /\ stack' = Spent \o <<f, g>> /\ CanAct
        /\ UNCHANGED <<program, stat, built, wantStatic>>
    BY <1>8 DEF New
  <2> HIDE DEF f, g
  <2>3. stack' = Append(q, g) /\ q \in Seq(Activation)
    BY <1>1, <2>1, <2>2, PushBoth, AppendProperties
  <2>4. Shelved(q, program, stat, built)
    BY <1>1, <2>1, <2>2, ShelvedSmall
  <2>5. q # <<>> /\ q[Len(q)] = f
    BY <1>1, <2>1, <2>2, AppendProperties
  <2> HIDE DEF q
  <2>6. Slot(q, g, program, stat, built)
    BY <2>1, <2>5 DEF Slot, Intact, Differ, Follows
  <2>7. Shelved(Append(q, g), program, stat, built)
    BY <2>1, <2>3, <2>4, <2>6, ShelvedPush
  <2> QED BY <1>2, <2>2, <2>3, <2>7
<1>9. ASSUME NEW keep \in BOOLEAN, NEW s \in States, BeginReload(keep, s) PROVE StaticsInv'
  <2> DEFINE f == [kind |-> "reload", keep |-> keep, candidate |-> built + 1, shared |-> s,
          published |-> FALSE, todo |-> {}, saved |-> [i \in Instances |-> "initial"],
          prev |-> [i \in Instances |-> None], prevStatic |-> None,
          prevProgram |-> 0, queue |-> {}, wanted |-> "initial"]
             g == Small("call", s, None, FuelOf("static"))
             q == Append(Spent, f)
  <2>1. /\ stack' = Spent \o <<f, g>> /\ CanAct /\ built' = built + 1
        /\ UNCHANGED <<program, stat, wantStatic>>
    BY <1>9 DEF BeginReload
  <2>2. f \in Activation /\ f.kind = "reload" /\ ~f.published /\ Aside(f) = built + 1
    BY <1>0, <1>9, BuildGood DEF BeginReload, Aside
  <2>3. g \in Activation /\ g.kind = "call"
    BY SmallGood, FuelGood
  <2> HIDE DEF f, g
  <2>4. stack' = Append(q, g) /\ q \in Seq(Activation)
    BY <1>1, <2>1, <2>2, <2>3, PushBoth, AppendProperties
  <2>5. ASSUME NEW k \in 1..Len(Spent), Spent[k].kind = "reload"
        PROVE  Aside(Spent[k]) # program /\ Aside(Spent[k]) # built + 1
    <3>1. Spent[k] \in Activation /\ Aside(Spent[k]) # program /\ Aside(Spent[k]) <= built
      BY <1>1, <2>1, <2>5 DEF Shelved, Intact
    <3>2. Aside(Spent[k]) \in Nat
      BY <2>5, <3>1, AsideType
    <3> QED BY <1>0, <3>1, <3>2
  <2>6. program \in Nat /\ program <= built /\ built + 1 \in Nat
    BY <1>0, Bounds DEF FieldsOK, Versions, StaticsInv
  <2>7. Shelved(Spent, program, stat, built + 1)
    BY <1>0, <1>1, <2>1, <2>5, <2>6, ShelvedStat
  <2>8. Slot(Spent, f, program, stat, built + 1)
    BY <1>0, <2>2, <2>5, <2>6 DEF Slot, Intact, Differ, Follows
  <2>9. Shelved(q, program, stat, built + 1)
    BY <1>1, <2>1, <2>2, <2>7, <2>8, ShelvedPush
  <2> HIDE DEF q
  <2>10. Shelved(stack', program, stat, built + 1)
    BY <2>3, <2>4, <2>9, ShelvedSmall
  <2> QED BY <1>0, <2>1, <2>6, <2>10 DEF StaticsInv, StaticsSurvive
<1> QED BY <1>4, <1>5, <1>6, <1>7, <1>8, <1>9 DEF ScriptOp

\* A function assigns a static variable of its own program: the resource's, or the candidate
\* of a reload below, which no published reload has laid aside.
LEMMA StaticsFunction ==
  ASSUME TypeInv, StaticsInv, EditOwnStatic, "retired" \notin Hooks
  PROVE  StaticsInv'
<1>0. FieldsOK /\ Good(stack) /\ stack \in Seq(Activation) /\ built \in Nat
      /\ program \in Versions /\ stat \in [Versions -> Values]
  BY TypeParts, Bounds DEF Good, FieldsOK, Versions
<1> DEFINE v == prog[Top.state]
           written == [stat EXCEPT ![v] = "edited"]
<1>1. /\ Running /\ stack' = Spent /\ stat' = written /\ UNCHANGED <<program, built>>
      /\ wantStatic' = IF Candidate(v) THEN wantStatic ELSE "edited"
      /\ v = program \/ Candidate(v)
  BY DEF EditOwnStatic, OwnProgram, Running
<1> HIDE DEF v
<1>2. Spent \in Seq(Activation) /\ Shelved(Spent, program, stat, built)
  BY <1>0, <1>1, ShelvedSpent DEF StaticsInv
<1>3. /\ Len(Spent) = Len(stack) /\ Len(stack) \in Nat
      /\ \A k \in 1..Len(stack) : /\ Spent[k].kind = stack[k].kind
                                  /\ stack[k].kind = "reload" => Spent[k] = stack[k]
  BY <1>0, <1>1, GoodSpent
<1>4. ASSUME NEW k \in 1..Len(stack), stack[k].kind = "reload"
      PROVE  Aside(stack[k]) # program /\ Aside(stack[k]) \in Versions
  BY <1>0, <1>4, AsideType DEF StaticsInv, Shelved, Intact
<1>5. ASSUME NEW k \in 1..Len(stack), stack[k].kind = "reload", stack[k].published
      PROVE  Aside(stack[k]) # v
  <2>1. CASE v = program
    BY <1>4, <1>5, <2>1
  <2>2. CASE Candidate(v)
    <3>1. PICK j \in 1..Len(stack) :
            stack[j].kind = "reload" /\ ~stack[j].published /\ stack[j].candidate = v
      BY <2>2 DEF Candidate
    <3>2. Aside(stack[j]) = v /\ j # k
      BY <1>5, <3>1 DEF Aside
    <3>3. j \in 1..(k - 1) \/ k \in 1..(j - 1)
      BY <1>3, <3>2
    <3>4. Aside(stack[j]) # Aside(stack[k])
      BY <1>5, <3>1, <3>3 DEF StaticsInv, Shelved, Differ
    <3> QED BY <3>2, <3>4
  <2> QED BY <1>1, <2>1, <2>2
<1>6. ASSUME NEW k \in 1..Len(Spent), Spent[k].kind = "reload"
      PROVE  /\ Aside(Spent[k]) # program
             /\ Spent[k].published => written[Aside(Spent[k])] = stat[Aside(Spent[k])]
  BY <1>0, <1>3, <1>4, <1>5, <1>6
<1>7. Shelved(Spent, program, written, built)
  BY <1>0, <1>2, <1>6, LeastStat
<1>8. written[program] = wantStatic'
  <2>1. CASE Candidate(v)
    <3>1. v # program
      BY <1>4, <2>1 DEF Candidate, Aside
    <3> QED BY <1>0, <1>1, <2>1, <3>1 DEF StaticsInv, StaticsSurvive
  <2>2. CASE ~Candidate(v)
    BY <1>0, <1>1, <2>2
  <2> QED BY <2>1, <2>2
<1> QED BY <1>1, <1>7, <1>8 DEF StaticsInv, StaticsSurvive

\* A step that ends activations or starts one, and sets no static variable.
LEMMA StaticsSame ==
  ASSUME TypeInv, StaticsInv, UNCHANGED <<program, stat, built, wantStatic>>, stack # <<>>,
         \/ stack' = Below
         \/ Len(stack) > 1 /\ stack' = Rest
         \/ \E f \in Activation : f.kind \notin {"reload", "members"} /\ stack' = Append(Below, f)
  PROVE  StaticsInv'
<1>1. Good(stack) /\ Below \in Seq(Activation)
  BY TypeParts, GoodBelow DEF Good
<1>2. /\ Shelved(Below, program, stat, built)
      /\ Len(stack) > 1 => Shelved(Rest, program, stat, built)
  BY <1>1, ShelvedParts DEF StaticsInv
<1>3. Shelved(stack', program, stat, built)
  BY <1>1, <1>2, ShelvedSmall
<1> QED BY <1>3 DEF StaticsInv, StaticsSurvive

\* The candidate is laid aside no more, the program it replaces is.
LEMMA StaticsPublish ==
  ASSUME TypeInv, StaticsInv, Publish
  PROVE  StaticsInv'
<1>0. FieldsOK /\ Good(stack) /\ built \in Nat /\ program \in Nat
      /\ program \in Versions /\ stat \in [Versions -> Values]
  BY TypeParts, Bounds DEF FieldsOK, Versions
<1> DEFINE f == [Top EXCEPT !.published = TRUE, !.todo = Live, !.saved = Saved, !.prev = inst,
                   !.prevStatic = static, !.prevProgram = program, !.wanted = wantStatic,
                   !.queue = ({static} \cup {inst[i] : i \in Live}) \ {None}]
<1>1. /\ On("reload") /\ stack # <<>> /\ Top.kind = "reload" /\ ~Top.published
      /\ stack' = Append(Below, f) /\ program' = Top.candidate /\ stat' = CarriedOver
      /\ built' = built
      /\ wantStatic' = IF Top.keep /\ program # 0 THEN wantStatic ELSE stat[Top.candidate]
  BY DEF Publish, On
<1>2. f \in Activation /\ f.kind = "reload" /\ Top \in ReloadFrame /\ Below \in Seq(Activation)
  BY <1>0, <1>1, PublishedGood, GoodBelow DEF Good
<1>3. f.published /\ f.prevProgram = program /\ f.wanted = wantStatic
  BY <1>2 DEF ReloadFrame
<1> HIDE DEF f
<1>4. /\ Top.candidate \in Versions /\ Top.candidate # program /\ Top.candidate <= built
      /\ Aside(Top) = Top.candidate
      /\ Shelved(Below, program, stat, built) /\ Slot(Below, Top, program, stat, built)
  <2>1. Shelved(Below, program, stat, built) /\ Slot(Below, Top, program, stat, built)
    BY <1>0, <1>1, ShelvedParts DEF StaticsInv
  <2> QED BY <1>1, <1>2, <2>1 DEF Slot, Intact, Aside, ReloadFrame
<1>5. \A n \in Versions \ {Top.candidate} : stat'[n] = stat[n]
  BY <1>0, <1>1, <1>4 DEF CarriedOver
<1>6. stat'[Top.candidate] = wantStatic'
  BY <1>0, <1>1, <1>4 DEF CarriedOver, StaticsInv, StaticsSurvive
<1>7. ASSUME NEW k \in 1..Len(Below), Below[k].kind = "reload"
      PROVE  /\ Aside(Below[k]) # Top.candidate /\ Aside(Below[k]) # program
             /\ stat'[Aside(Below[k])] = stat[Aside(Below[k])]
  <2>1. Aside(Below[k]) # Top.candidate
    BY <1>1, <1>4, <1>7 DEF Slot, Differ
  <2>2. Below[k] \in Activation /\ Aside(Below[k]) # program
    BY <1>2, <1>4, <1>7 DEF Shelved, Intact
  <2>3. Aside(Below[k]) \in Versions
    BY <1>7, <2>2, AsideType
  <2> QED BY <1>5, <2>1, <2>2, <2>3
<1>8. Shelved(Below, Top.candidate, stat', built)
  BY <1>0, <1>2, <1>4, <1>7, ShelvedStat
<1>9. Slot(Below, f, Top.candidate, stat', built)
  <2>1. Intact(f, Top.candidate, stat', built)
    BY <1>0, <1>3, <1>4, <1>5 DEF Intact, Aside, StaticsInv, StaticsSurvive
  <2>2. \A j \in 1..Len(Below) : Differ(Below[j], f)
    BY <1>3, <1>7 DEF Differ, Aside
  <2>3. Below # <<>> => Follows(Below[Len(Below)], f)
    BY <1>2 DEF Follows
  <2> QED BY <2>1, <2>2, <2>3 DEF Slot
<1>10. Shelved(stack', program', stat', built)
  BY <1>1, <1>2, <1>8, <1>9, ShelvedPush
<1> QED BY <1>1, <1>4, <1>6, <1>10 DEF StaticsInv, StaticsSurvive

\* A reload goes on.
LEMMA ShelvedTop ==
  ASSUME Good(stack), On("reload"), NEW f \in ReloadFrame, StaticsInv,
         f.published = Top.published, f.candidate = Top.candidate,
         f.prevProgram = Top.prevProgram, f.wanted = Top.wanted
  PROVE  /\ Below \in Seq(Activation) /\ Append(Below, f) \in Seq(Activation)
         /\ Append(Below, f) # <<>> /\ Append(Below, f)[Len(Append(Below, f))] = f
         /\ Shelved(Append(Below, f), program, stat, built)
<1>1. f \in Activation /\ f.kind = "reload" /\ stack # <<>> /\ Top.kind = "reload"
  BY DEF Activation, ReloadFrame, On
<1>2. Below \in Seq(Activation)
  BY <1>1, GoodBelow DEF Good
<1>3. Shelved(Below, program, stat, built) /\ Slot(Below, Top, program, stat, built)
  BY <1>1, ShelvedParts DEF StaticsInv
<1>4. Aside(f) = Aside(Top)
  BY DEF Aside
<1>5. Slot(Below, f, program, stat, built)
  BY <1>1, <1>3, <1>4 DEF Slot, Intact, Differ, Follows
<1>6. Shelved(Append(Below, f), program, stat, built)
  BY <1>1, <1>2, <1>3, <1>5, ShelvedPush
<1> QED BY <1>1, <1>2, <1>6, AppendProperties

\* The program that comes back has the static variables it had when it was replaced.
LEMMA StaticsRollBack ==
  ASSUME TypeInv, StaticsInv, RollBack
  PROVE  StaticsInv'
<1>0. FieldsOK /\ Good(stack) /\ built \in Nat
  BY TypeParts, Bounds DEF FieldsOK, Versions
<1>1. /\ On("members") /\ stack # <<>> /\ Top.kind = "members" /\ Caller.kind = "reload"
      /\ stack' = Rest /\ program' = Caller.prevProgram /\ wantStatic' = Caller.wanted
      /\ stat' = stat /\ built' = built
  BY DEF RollBack, Initialized, Rest, On
<1>2. Len(stack) > 1 /\ Below # <<>> /\ Rest \in Seq(Activation) /\ Caller \in Activation
  BY <1>0, <1>1, InitializerCalled, GoodRest DEF Good
<1>3. /\ Shelved(Rest, program, stat, built) /\ Slot(Rest, Caller, program, stat, built)
      /\ Slot(Below, Top, program, stat, built)
  BY <1>0, <1>1, <1>2, ShelvedParts DEF StaticsInv
<1>4. Caller.published
  BY <1>1, <1>2, <1>3 DEF Slot, Follows, Caller
<1>5. /\ Aside(Caller) = Caller.prevProgram /\ Caller.prevProgram <= built
      /\ stat[Caller.prevProgram] = Caller.wanted
  BY <1>1, <1>3, <1>4 DEF Slot, Intact, Aside
<1>6. ASSUME NEW k \in 1..Len(Rest), Rest[k].kind = "reload"
      PROVE  Aside(Rest[k]) # Caller.prevProgram
  BY <1>1, <1>3, <1>5, <1>6 DEF Slot, Differ
<1>7. Shelved(Rest, Caller.prevProgram, stat, built)
  BY <1>0, <1>2, <1>3, <1>6, ShelvedStat
<1> QED BY <1>1, <1>5, <1>7 DEF StaticsInv, StaticsSurvive

LEMMA StaticsReloading ==
  ASSUME TypeInv, StaticsInv, Reloading
  PROVE  StaticsInv'
<1>0. Good(stack)
  BY TypeParts
<1>1. CASE StaticInitFails \/ ReloadEnds \/ Restore
  BY <1>1, StaticsSame DEF StaticInitFails, ReloadEnds, Restore, Initialized, On
<1>2. ASSUME NEW i \in Instances, NEW s \in States, Migrate(i, s) PROVE StaticsInv'
  <2> DEFINE f == [Top EXCEPT !.todo = @ \ {i}]
             g == Small("members", s, i, FuelOf("members"))
             q == Append(Below, f)
  <2>1. /\ On("reload") /\ Top.published /\ stack' = Append(q, g)
        /\ UNCHANGED <<program, stat, built, wantStatic>>
    BY <1>2 DEF Migrate
  <2>2. Top \in ReloadFrame
    BY <1>0, <2>1, GoodBelow, Kinds DEF On
  <2>3. /\ f \in ReloadFrame /\ f.published = Top.published /\ f.candidate = Top.candidate
        /\ f.prevProgram = Top.prevProgram /\ f.wanted = Top.wanted
    BY <2>2 DEF ReloadFrame
  <2>4. g \in Activation /\ g.kind = "members"
    BY SmallGood, FuelGood
  <2> HIDE DEF f, g
  <2>5. /\ q \in Seq(Activation) /\ q # <<>> /\ q[Len(q)] = f
        /\ Shelved(q, program, stat, built)
    BY <1>0, <2>1, <2>3, ShelvedTop
  <2> HIDE DEF q
  <2>6. Slot(q, g, program, stat, built)
    BY <2>1, <2>3, <2>4, <2>5 DEF Slot, Intact, Differ, Follows
  <2>7. Shelved(stack', program, stat, built)
    BY <2>1, <2>4, <2>5, <2>6, ShelvedPush
  <2> QED BY <2>1, <2>7 DEF StaticsInv, StaticsSurvive
<1>3. ASSUME NEW s \in States, CancelOld(s) PROVE StaticsInv'
  <2> DEFINE f == [Top EXCEPT !.queue = @ \ {s}]
             g == Small("script", None, None, Fuel)
             q == Append(Below, f)
  <2>1. /\ On("reload")
        /\ stack' = q \/ stack' = Append(q, g)
        /\ UNCHANGED <<program, stat, built, wantStatic>>
    BY <1>3 DEF CancelOld
  <2>2. Top \in ReloadFrame
    BY <1>0, <2>1, GoodBelow, Kinds DEF On
  <2>3. /\ f \in ReloadFrame /\ f.published = Top.published /\ f.candidate = Top.candidate
        /\ f.prevProgram = Top.prevProgram /\ f.wanted = Top.wanted
    BY <2>2 DEF ReloadFrame
  <2>4. g \in Activation /\ g.kind = "script"
    BY SmallGood, FuelGood
  <2> HIDE DEF f, g
  <2>5. q \in Seq(Activation) /\ Shelved(q, program, stat, built)
    BY <1>0, <2>1, <2>3, ShelvedTop
  <2> HIDE DEF q
  <2>6. Shelved(stack', program, stat, built)
    BY <2>1, <2>4, <2>5, ShelvedSmall
  <2> QED BY <2>1, <2>6 DEF StaticsInv, StaticsSurvive
<1> QED BY <1>1, <1>2, <1>3, StaticsPublish, StaticsRollBack DEF Reloading

LEMMA StaticsConstruction ==
  ASSUME TypeInv, StaticsInv, Construction
  PROVE  StaticsInv'
<1>0. FieldsOK /\ Good(stack) /\ OwnersLive
  BY TypeParts
<1>1. CASE CallInit
  <2>1. On("members") /\ stack # <<>> /\ UNCHANGED <<program, stat, built, wantStatic>>
        /\ stack' = Append(Below, Small("call", inst[Top.by], None, Fuel))
    BY <1>1 DEF CallInit, Initialized, On
  <2>2. inst[Top.by] \in States
    BY <1>0, <2>1, Distinct, InitializerCalled DEF FieldsOK, OwnersLive, Live
  <2>3. /\ Small("call", inst[Top.by], None, Fuel) \in Activation
        /\ Small("call", inst[Top.by], None, Fuel).kind = "call"
    BY <2>2, SmallGood, FuelGood
  <2> QED BY <2>1, <2>3, StaticsSame
<1>2. CASE InitializersFail
  <2>1. Len(stack) > 1
    BY <1>0, <1>2, InitializerCalled DEF InitializersFail, Initialized
  <2> QED BY <1>2, <2>1, StaticsSame DEF InitializersFail, Initialized, On, Reject, Rest
<1>3. CASE ConstructorFails \/ Constructed
  BY <1>3, StaticsSame DEF ConstructorFails, Constructed, On, Reject
<1> QED BY <1>1, <1>2, <1>3 DEF Construction

\* Reloading keeps the static variables as last assigned, through the resource or by any
\* function running on its program, and so does failing to reload; rolling a reload back
\* brings back the values it found when it published.  The hypothesis excludes two writers whose
\* assignments the code loses: a dispatch that lags behind its program, and a function that
\* goes on running on a program replaced or rejected meanwhile.
THEOREM StaticsKept == ASSUME "retired" \notin Hooks PROVE Spec => []StaticsSurvive
<1>1. Init => StaticsInv
  <2> SUFFICES ASSUME Init PROVE StaticsInv
    OBVIOUS
  <2>1. Len(stack) = 0 /\ 1..Len(stack) = {}
    BY DEF Init
  <2> QED BY <2>1, Bounds DEF Init, StaticsInv, StaticsSurvive, Shelved, Versions
<1>2. TypeInv /\ StaticsInv /\ [Next]_vars => StaticsInv'
  <2> SUFFICES ASSUME TypeInv, StaticsInv, [Next]_vars PROVE StaticsInv'
    OBVIOUS
  <2>1. CASE EditOwn
    <3>1. Good(stack) /\ Running /\ stack' = Spent /\ UNCHANGED <<program, stat, built, wantStatic>>
      BY <2>1, TypeParts DEF EditOwn, Running, On
    <3>2. Shelved(Spent, program, stat, built)
      BY <3>1, ShelvedSpent DEF StaticsInv
    <3> QED BY <3>1, <3>2 DEF StaticsInv, StaticsSurvive
  <2>2. CASE Return \/ Suspend
    BY <2>2, StaticsSame DEF Return, Suspend, On
  <2>3. CASE UNCHANGED vars
    BY <2>3 DEF vars, StaticsInv, StaticsSurvive
  <2> QED BY <2>1, <2>2, <2>3, StaticsScriptOp, StaticsFunction, StaticsConstruction,
             StaticsReloading DEF Next
<1>3. StaticsInv => StaticsSurvive
  BY DEF StaticsInv
<1> QED BY TypeInvCorrect, <1>1, <1>2, <1>3, PTL DEF Spec

-----------------------------------------------------------------------------
(* Reloads that have not published yet, when static initializers leave the     *)
(* resource alone: nothing else happens until they return.                     *)

Pending(f) == f.kind = "reload" /\ ~f.published
Clear(q) == \A k \in 1..Len(q) : ~Pending(q[k])

\* A reload that discards the members still finds no instance.
Justified(f) == f.keep \/ MayDiscard

Ready == On("reload") /\ ~Top.published /\ Justified(Top) /\ Clear(Below)
Preparing == /\ On("call") /\ Top.fuel = 0 /\ Len(stack) > 1
             /\ Pending(Caller) /\ Justified(Caller) /\ Clear(Rest)
ClearInv == Clear(stack) \/ Ready \/ Preparing

LEMMA ClearPush ==
  ASSUME NEW q \in Seq(Activation), NEW f \in Activation
  PROVE  Append(q, f) \in Seq(Activation) /\ (Clear(Append(q, f)) <=> Clear(q) /\ ~Pending(f))
<1>1. /\ Append(q, f) \in Seq(Activation) /\ Len(q) \in Nat
      /\ Len(Append(q, f)) = Len(q) + 1
      /\ \A k \in 1..Len(q) : Append(q, f)[k] = q[k]
      /\ Append(q, f)[Len(q) + 1] = f
  BY AppendProperties
<1>2. \A k \in 1..(Len(q) + 1) : k \in 1..Len(q) \/ k = Len(q) + 1
  BY <1>1
<1>3. 1..Len(q) \subseteq 1..(Len(q) + 1) /\ Len(q) + 1 \in 1..(Len(q) + 1)
  BY <1>1
<1> QED BY <1>1, <1>2, <1>3 DEF Clear

\* What is clear of a stack whose activations change.
LEMMA ClearParts ==
  ASSUME Good(stack)
  PROVE  /\ stack # <<>> => (Clear(stack) <=> Clear(Below) /\ ~Pending(Top))
         /\ Len(stack) > 1 => (Clear(Below) <=> Clear(Rest) /\ ~Pending(Caller))
         /\ CanAct \/ Running => (Clear(Spent) <=> Clear(stack))
<1>1. stack # <<>> => (Clear(stack) <=> Clear(Below) /\ ~Pending(Top))
  BY StackTop, ClearPush
<1>2. Len(stack) > 1 => (Clear(Below) <=> Clear(Rest) /\ ~Pending(Caller))
  BY GoodRest, ClearPush DEF Good
<1>3. ASSUME CanAct \/ Running
      PROVE  Clear(Spent) <=> Clear(stack)
  <2> DEFINE p == Spent
  <2>1. /\ Len(p) = Len(stack)
        /\ \A k \in 1..Len(stack) : /\ p[k].kind = stack[k].kind
                                    /\ stack[k].kind = "reload" => p[k] = stack[k]
    BY <1>3, GoodSpent
  <2> HIDE DEF p
  <2>2. \A k \in 1..Len(stack) : Pending(p[k]) <=> Pending(stack[k])
    BY <2>1 DEF Pending
  <2>3. Clear(p) <=> Clear(stack)
    BY <2>1, <2>2 DEF Clear
  <2> QED BY <2>3 DEF p
<1> QED BY <1>1, <1>2, <1>3

LEMMA ClearNext ==
  ASSUME NEW q, stack' = q, Clear(q)
  PROVE  ClearInv'
BY DEF Clear, Pending, ClearInv

\* Except in the call of its static initializers and when they have returned, no
\* reload waits to publish.
LEMMA WhenClear ==
  ASSUME ClearInv
  PROVE  /\ CanAct \/ On("members") \/ On("create") \/ On("script") \/ On("access") => Clear(stack)
         /\ On("call") /\ Top.fuel > 0 => Clear(stack)
         /\ On("reload") /\ Top.published => Clear(stack)
<1>1. ASSUME CanAct PROVE ~Ready /\ ~Preparing
  BY <1>1 DEF CanAct, Acts, Ready, Preparing, On
<1> QED BY <1>1 DEF ClearInv, Ready, Preparing, On

LEMMA ClearScriptOp ==
  ASSUME TypeInv, ClearInv, ScriptOp, "static" \notin Hooks
  PROVE  ClearInv'
<1>0. FieldsOK /\ Good(stack)
  BY TypeParts
<1>1. ASSUME CanAct
      PROVE  Spent \in Seq(Activation) /\ Clear(Spent)
  BY <1>0, <1>1, GoodSpent, WhenClear, ClearParts DEF Good
<1>2. ASSUME NEW f \in Activation, f.kind # "reload", CanAct, Push(f)
      PROVE  ClearInv'
  BY <1>1, <1>2, ClearPush, ClearNext DEF Push, Pending
<1>3. ASSUME NEW s \in States, Call(s) \/ Resume(s) PROVE ClearInv'
  <2>1. /\ Small("call", s, None, Fuel) \in Activation
        /\ Small("call", s, None, Fuel).kind = "call"
    BY SmallGood, FuelGood
  <2> QED BY <1>2, <1>3, <2>1 DEF Call, Resume
<1>4. ASSUME NEW i \in Instances, Access(i) PROVE ClearInv'
  <2>1. inst[i] \in States \cup {None}
    BY <1>0 DEF FieldsOK
  <2>2. /\ Small("access", inst[i], i, Fuel) \in Activation
        /\ Small("access", inst[i], i, Fuel).kind = "access"
    BY <2>1, SmallGood, FuelGood
  <2> QED BY <1>2, <1>4, <2>2 DEF Access
<1>5. ASSUME CanAct, stack' = Spent PROVE ClearInv'
  BY <1>1, <1>5, ClearNext
<1>6. ASSUME NEW i \in Instances, NEW s \in States, New(i, s) PROVE ClearInv'
  <2> DEFINE f == Small("create", None, i, 0)
             g == Small("members", s, i, FuelOf("members"))
  <2>1. f \in Activation /\ f.kind = "create" /\ g \in Activation /\ g.kind = "members"
    BY SmallGood, FuelGood
  <2>2. stack' = Spent \o <<f, g>> /\ CanAct
    BY <1>6 DEF New
  <2> HIDE DEF f, g
  <2>3. stack' = Append(Append(Spent, f), g)
    BY <1>1, <2>2, PushBoth
  <2>4. Append(Spent, f) \in Seq(Activation) /\ Clear(Append(Spent, f))
    BY <1>1, <2>1, <2>2, ClearPush DEF Pending
  <2>5. Clear(Append(Append(Spent, f), g))
    BY <2>1, <2>4, ClearPush DEF Pending
  <2> QED BY <2>3, <2>5, ClearNext
<1>7. ASSUME NEW keep \in BOOLEAN, NEW s \in States, BeginReload(keep, s) PROVE ClearInv'
  <2> DEFINE f == [kind |-> "reload", keep |-> keep, candidate |-> built + 1, shared |-> s,
          published |-> FALSE, todo |-> {}, saved |-> [i \in Instances |-> "initial"],
          prev |-> [i \in Instances |-> None], prevStatic |-> None,
          prevProgram |-> 0, queue |-> {}, wanted |-> "initial"]
             g == Small("call", s, None, FuelOf("static"))
  <2>1. f \in Activation
    BY <1>0, <1>7, BuildGood DEF BeginReload
  <2>2. g \in Activation /\ g.kind = "call" /\ FuelOf("static") = 0
    BY SmallGood, FuelGood DEF FuelOf
  <2>3. f.kind = "reload" /\ ~f.published /\ f.keep = keep /\ g.fuel = 0
    BY <2>2 DEF Small
  <2>4. stack' = Spent \o <<f, g>> /\ CanAct /\ (keep \/ MayDiscard) /\ inst' = inst
    BY <1>7 DEF BeginReload
  <2> HIDE DEF f, g
  <2>5. stack' = Append(Append(Spent, f), g)
    BY <1>1, <2>4, PushBoth
  <2>6. Spent \in Seq(Activation)
    BY <1>1, <2>4
  <2>7. /\ stack' # <<>> /\ Top' = g /\ Caller' = f /\ Rest' = Spent
    BY <2>1, <2>2, <2>5, <2>6, PushedTwo
  <2>8. Len(stack') > 1
    <3>1. Append(Spent, f) \in Seq(Activation) /\ Len(Append(Spent, f)) = Len(Spent) + 1
          /\ Len(Spent) \in Nat
      BY <2>1, <2>6, AppendProperties
    <3>2. Len(stack') = Len(Append(Spent, f)) + 1
      BY <2>2, <2>5, <3>1, AppendProperties
    <3> QED BY <3>1, <3>2
  <2>9. Clear(Rest)'
    BY <1>1, <2>4, <2>7 DEF Clear, Pending
  <2>10. Justified(Caller)'
    BY <2>3, <2>4, <2>7 DEF Justified, MayDiscard, Live
  <2>11. Preparing'
    BY <2>2, <2>3, <2>7, <2>9, <2>10, <2>8 DEF Preparing, On, Pending
  <2> QED BY <2>11 DEF ClearInv
<1> QED BY <1>3, <1>4, <1>5, <1>6, <1>7 DEF ScriptOp, Edit, EditStatic, Free

LEMMA ClearFunction ==
  ASSUME TypeInv, ClearInv, EditOwn \/ EditOwnStatic \/ Return \/ Suspend
  PROVE  ClearInv'
<1>0. Good(stack)
  BY TypeParts
<1>1. CASE EditOwn \/ EditOwnStatic
  BY <1>0, <1>1, WhenClear, ClearParts, ClearNext DEF EditOwn, EditOwnStatic, Running, On
<1>2. CASE Return \/ Suspend
  <2>1. stack # <<>> /\ Top.kind # "reload" /\ stack' = Below /\ inst' = inst
    BY <1>2 DEF Return, Suspend, On
  <2>2. CASE Clear(stack)
    BY <1>0, <2>1, <2>2, ClearParts, ClearNext
  <2>3. CASE Preparing
    <3>1. /\ Rest \in Seq(Activation) /\ Caller \in Activation /\ stack' = Append(Rest, Caller)
      BY <1>0, <2>1, <2>3, GoodRest DEF Preparing, Good
    <3>2. stack' # <<>> /\ Top' = Caller /\ Below' = Rest
      BY <3>1, PushedOne
    <3>3. Clear(Below)' /\ Justified(Top)'
      BY <2>1, <2>3, <3>2 DEF Preparing, Clear, Pending, Justified, MayDiscard, Live
    <3>4. Ready'
      BY <2>3, <3>2, <3>3 DEF Preparing, Ready, On, Pending
    <3> QED BY <3>4 DEF ClearInv
  <2> QED BY <2>1, <2>2, <2>3 DEF ClearInv, Ready, On
<1> QED BY <1>1, <1>2

LEMMA ClearConstruction ==
  ASSUME TypeInv, ClearInv, Construction
  PROVE  ClearInv'
<1>0. FieldsOK /\ Good(stack) /\ Clear(stack) /\ stack # <<>>
  BY TypeParts, WhenClear DEF Construction, CallInit, InitializersFail, ConstructorFails,
     Constructed, Initialized, On
<1>1. Clear(Below) /\ Below \in Seq(Activation) /\ (Len(stack) > 1 => Clear(Rest))
  BY <1>0, ClearParts, GoodBelow DEF Good
<1>2. CASE CallInit
  <2>1. On("members") /\ stack' = Append(Below, Small("call", inst[Top.by], None, Fuel))
    BY <1>2 DEF CallInit, Initialized
  <2>2. inst[Top.by] \in States
    BY <1>0, <2>1, InitializerCalled, TypeParts, Distinct DEF OwnersLive, FieldsOK, Live
  <2>3. /\ Small("call", inst[Top.by], None, Fuel) \in Activation
        /\ Small("call", inst[Top.by], None, Fuel).kind = "call"
    BY <2>2, SmallGood, FuelGood
  <2> QED BY <1>1, <2>1, <2>3, ClearPush, ClearNext DEF Pending
<1>3. CASE InitializersFail
  <2>1. On("members") /\ stack' = Rest
    BY <1>3 DEF InitializersFail, Initialized, Rest
  <2> QED BY <1>0, <1>1, <2>1, InitializerCalled, ClearNext
<1>4. CASE ConstructorFails \/ Constructed
  BY <1>1, <1>4, ClearNext DEF ConstructorFails, Constructed
<1> QED BY <1>2, <1>3, <1>4 DEF Construction

LEMMA ClearReloading ==
  ASSUME TypeInv, ClearInv, Reloading
  PROVE  ClearInv'
<1>0. FieldsOK /\ Good(stack)
  BY TypeParts
<1>1. ASSUME On("reload") \/ On("members")
      PROVE  Below \in Seq(Activation) /\ Clear(Below) /\ Top \in Activation
  <2>1. stack # <<>> /\ ~On("call")
    BY <1>1 DEF On
  <2> QED BY <1>0, <2>1, GoodBelow, ClearParts DEF Good, ClearInv, Ready, Preparing
<1>2. CASE StaticInitFails \/ ReloadEnds \/ Restore
  BY <1>1, <1>2, ClearNext DEF StaticInitFails, ReloadEnds, Restore, Initialized
<1>3. CASE Publish
  <2> DEFINE f == [Top EXCEPT !.published = TRUE, !.todo = Live, !.saved = Saved, !.prev = inst,
                   !.prevStatic = static, !.prevProgram = program, !.wanted = wantStatic,
                   !.queue = ({static} \cup {inst[i] : i \in Live}) \ {None}]
  <2>1. stack' = Append(Below, f) /\ On("reload")
    BY <1>3 DEF Publish
  <2>2. f \in Activation /\ f.published
    BY <1>0, <2>1, PublishedGood DEF ReloadFrame
  <2> HIDE DEF f
  <2> QED BY <1>1, <2>1, <2>2, ClearPush, ClearNext DEF Pending
<1>4. ASSUME NEW f \in Activation, f.published, NEW g \in Activation, g.kind # "reload",
             On("reload"),
             stack' = Append(Below, f) \/ stack' = Append(Append(Below, f), g)
      PROVE  ClearInv'
  <2>1. Append(Below, f) \in Seq(Activation) /\ Clear(Append(Below, f))
    BY <1>1, <1>4, ClearPush DEF Pending
  <2>2. Clear(Append(Append(Below, f), g))
    BY <1>4, <2>1, ClearPush DEF Pending
  <2> QED BY <1>4, <2>1, <2>2, ClearNext
<1>5. ASSUME NEW i \in Instances, NEW s \in States, Migrate(i, s) PROVE ClearInv'
  <2>1. /\ On("reload") /\ Top.published /\ Top \in ReloadFrame
        /\ stack' = Append(Append(Below, [Top EXCEPT !.todo = @ \ {i}]),
                           Small("members", s, i, FuelOf("members")))
    BY <1>0, <1>5, GoodBelow, Kinds DEF Migrate, On
  <2>2. [Top EXCEPT !.todo = @ \ {i}] \in Activation /\ [Top EXCEPT !.todo = @ \ {i}].published
    BY <2>1 DEF Activation, ReloadFrame
  <2>3. /\ Small("members", s, i, FuelOf("members")) \in Activation
        /\ Small("members", s, i, FuelOf("members")).kind = "members"
    BY SmallGood, FuelGood
  <2> QED BY <1>4, <2>1, <2>2, <2>3
<1>6. ASSUME NEW s \in States, CancelOld(s) PROVE ClearInv'
  <2> DEFINE f == [Top EXCEPT !.queue = @ \ {s}]
             g == Small("script", None, None, Fuel)
  <2>1. /\ On("reload") /\ Top.published /\ Top \in ReloadFrame
        /\ stack' = Append(Below, f) \/ stack' = Append(Append(Below, f), g)
    BY <1>0, <1>6, GoodBelow, Kinds DEF CancelOld, On
  <2>2. f \in Activation /\ f.published
    BY <2>1 DEF Activation, ReloadFrame
  <2>3. g \in Activation /\ g.kind = "script"
    BY SmallGood, FuelGood
  <2> HIDE DEF f, g
  <2> QED BY <1>4, <2>1, <2>2, <2>3
<1>7. CASE RollBack
  <2>1. On("members") /\ stack' = Rest /\ Len(stack) > 1
    BY <1>0, <1>7, InitializerCalled DEF RollBack, Initialized, Rest
  <2> QED BY <1>0, <1>1, <2>1, ClearParts, ClearNext
<1> QED BY <1>2, <1>3, <1>5, <1>6, <1>7 DEF Reloading

LEMMA ClearCorrect == ASSUME "static" \notin Hooks PROVE Spec => []ClearInv
<1>1. Init => ClearInv
  <2>1. ASSUME Init PROVE Clear(stack)
    <3>1. 1..Len(stack) = {}
      BY <2>1 DEF Init
    <3> QED BY <3>1 DEF Clear
  <2> QED BY <2>1 DEF ClearInv
<1>2. TypeInv /\ ClearInv /\ [Next]_vars => ClearInv'
  <2> SUFFICES ASSUME TypeInv, ClearInv, [Next]_vars PROVE ClearInv'
    OBVIOUS
  <2>1. CASE UNCHANGED vars
    <3>1. /\ stack' = stack /\ Live' = Live /\ Top' = Top /\ Below' = Below /\ Caller' = Caller
          /\ Rest' = Rest
      BY <2>1 DEF vars, Live, Top, Below, Caller, Rest
    <3> QED BY <3>1 DEF ClearInv, Clear, Pending, Ready, Preparing, Justified, MayDiscard, On
  <2> QED BY <2>1, ClearScriptOp, ClearFunction, ClearConstruction, ClearReloading DEF Next
<1> QED BY TypeInvCorrect, <1>1, <1>2, PTL DEF Spec

-----------------------------------------------------------------------------
(* The members, when static and member initializers leave the resource alone.  *)

Kept(i) == value[inst[i]] = want[i]
AllKept == \A i \in Live : Kept(i)

\* _reload m has the members of every instance twice: in the runtime it comes from, which
\* no moved instance shares, and in its snapshot; it has assigned those of the instances
\* it has moved, except the one whose initializers run.
Carry(m, by) ==
  /\ m.keep
  /\ \A i \in Live : /\ value[m.prev[i]] = want[i] /\ m.saved[i] = want[i]
                     /\ i \notin m.todo /\ i # by => Kept(i)
                     /\ i \notin m.todo => \A j \in Live : inst[i] # m.prev[j]

ValueInv == /\ Settled \/ Creating => AllKept
            /\ Moving => Carry(Top, None)
            /\ Starting => Carry(Caller, Top.by)

\* A step leads to one phase only.
LEMMA PhasesApart ==
  TypeInv => /\ Settled \/ Creating => ~Moving /\ ~Starting
             /\ Moving => ~Starting
<1>1. ASSUME TypeInv, Moving \/ Starting PROVE ~Settled
  <2>1. stack # <<>> /\ Busy(Top)
    BY <1>1 DEF Moving, Starting, Move, On, Busy
  <2> QED BY <1>1, <2>1, TypeParts, CalmBelow DEF Settled
<1> QED BY <1>1 DEF Creating, Moving, Starting, On

LEMMA PhasesApartNext ==
  ASSUME TypeInv'
  PROVE  /\ Settled' \/ Creating' => ~Moving' /\ ~Starting'
         /\ Moving' => ~Starting'
<1>1. (TypeInv => /\ Settled \/ Creating => ~Moving /\ ~Starting
                  /\ Moving => ~Starting)'
  BY PhasesApart, PTL
<1> QED BY <1>1

LEMMA ValueSettled ==
  ASSUME TypeInv', Settled' \/ Creating', AllKept'
  PROVE  ValueInv'
BY PhasesApartNext DEF ValueInv

\* The members that a step leaves alone.
LEMMA SameValues ==
  ASSUME AllKept, want' = want,
         \A i \in Live' : i \in Live /\ inst'[i] = inst[i] /\ value'[inst[i]] = value[inst[i]]
  PROVE  AllKept'
BY DEF AllKept, Kept

LEMMA ValueScriptOp ==
  ASSUME TypeInv, PhaseInv, ValueInv, ScriptOp, TypeInv', "members" \notin Hooks
  PROVE  ValueInv'
<1>0. FieldsOK /\ Good(stack) /\ Apart
  BY TypeParts DEF PhaseInv
<1>1. CanAct => AllKept
  BY WhenSettled DEF ValueInv
<1>2. Settled' \/ Creating'
  BY PhaseScriptOp
<1>3. ASSUME CanAct, UNCHANGED <<inst, value, want>> PROVE AllKept'
  BY <1>1, <1>3, SameValues DEF Live
<1>4. ASSUME NEW i \in Instances, Edit(i) PROVE AllKept'
  <2>1. /\ CanAct /\ i \in Live /\ inst' = inst /\ Live' = Live
        /\ value' = [value EXCEPT ![inst[i]] = "edited"] /\ want' = [want EXCEPT ![i] = "edited"]
    BY <1>4 DEF Edit, Live
  <2>2. ASSUME NEW j \in Live PROVE value'[inst[j]] = want'[j]
    <3>1. CASE j = i
      BY <1>0, <2>1, <3>1 DEF FieldsOK, Live
    <3>2. CASE j # i
      BY <1>0, <1>1, <2>1, <3>2 DEF FieldsOK, Live, Apart, AllKept, Kept
    <3> QED BY <3>1, <3>2
  <2> QED BY <2>1, <2>2 DEF AllKept, Kept
<1>5. ASSUME NEW i \in Instances, Free(i) PROVE AllKept'
  <2>1. \A j \in Live' : j \in Live /\ inst'[j] = inst[j]
    BY <1>0, <1>5, Distinct DEF Free, Live, FieldsOK
  <2> QED BY <1>1, <1>5, <2>1, SameValues DEF Free
<1>6. ASSUME NEW i \in Instances, NEW s \in States, New(i, s) PROVE AllKept'
  <2>1. /\ CanAct /\ Live' = Live \cup {i} /\ i \notin Live /\ want'[i] = "initial"
        /\ inst'[i] = s /\ value'[s] = "initial"
        /\ \A j \in Live : /\ inst'[j] = inst[j] /\ inst[j] # s /\ want'[j] = want[j]
                           /\ value'[inst[j]] = value[inst[j]]
    BY <1>0, <1>6, FreshState, Distinct DEF New, Live, FieldsOK
  <2> QED BY <1>1, <2>1 DEF AllKept, Kept
<1>7. ASSUME NEW keep \in BOOLEAN, NEW s \in States, BeginReload(keep, s) PROVE AllKept'
  <2>1. /\ CanAct /\ want' = want /\ inst' = inst /\ value' = [value EXCEPT ![s] = "initial"]
        /\ \A j \in Live : inst[j] # s
    BY <1>7, FreshState DEF BeginReload
  <2> QED BY <1>0, <1>1, <2>1, SameValues DEF Live, FieldsOK
<1>8. AllKept'
  BY <1>3, <1>4, <1>5, <1>6, <1>7 DEF ScriptOp, Call, Resume, Access, EditStatic
<1> QED BY <1>2, <1>8, ValueSettled

LEMMA ValueFunction ==
  ASSUME TypeInv, PhaseInv, ValueInv, EditOwn \/ EditOwnStatic \/ Return \/ Suspend, TypeInv'
  PROVE  ValueInv'
<1>0. FieldsOK /\ Good(stack) /\ AllKept
  BY TypeParts, WhenSettled DEF EditOwn, EditOwnStatic, Return, Suspend, Running, ValueInv
<1>1. CASE EditOwn
  <2>1. /\ inst' = inst /\ Live' = Live /\ value' = [value EXCEPT ![Top.state] = "edited"]
        /\ want' = [i \in Instances |-> IF inst[i] = Top.state THEN "edited" ELSE want[i]]
    BY <1>1 DEF EditOwn, Live
  <2>2. Top.state \in States
    BY <1>0, <1>1, GoodBelow DEF EditOwn, On, WellFormed
  <2>3. ASSUME NEW i \in Live PROVE value'[inst[i]] = want'[i]
    BY <1>0, <2>1, <2>2 DEF FieldsOK, Live, AllKept, Kept
  <2> QED BY <1>1, <2>1, <2>3, PhaseFunction, ValueSettled DEF AllKept, Kept
<1>2. CASE EditOwnStatic \/ Return \/ Suspend
  <2>1. AllKept'
    BY <1>0, <1>2, SameValues DEF EditOwnStatic, Return, Suspend, Live
  <2> QED BY <1>2, <2>1, PhaseFunction, ValueSettled
<1> QED BY <1>1, <1>2

LEMMA ValueConstruction ==
  ASSUME TypeInv, PhaseInv, ValueInv, Construction, TypeInv'
  PROVE  ValueInv'
<1>1. FieldsOK /\ AllKept
  BY TypeParts, WhenSettled, WhenInitialized DEF Construction, CallInit, InitializersFail,
     ConstructorFails, Constructed, Initialized, ValueInv
<1>2. ASSUME NEW i, Reject(i) PROVE AllKept'
  <2>1. \A j \in Live' : j \in Live /\ inst'[j] = inst[j]
    BY <1>1, <1>2, Distinct DEF Reject, Live, FieldsOK
  <2> QED BY <1>1, <1>2, <2>1, SameValues DEF Reject
<1>3. ASSUME UNCHANGED <<inst, value, want>> PROVE AllKept'
  BY <1>1, <1>3, SameValues DEF Live
<1>4. AllKept'
  BY <1>2, <1>3 DEF Construction, CallInit, InitializersFail, ConstructorFails, Constructed
<1> QED BY <1>4, PhaseConstruction, ValueSettled

\* The snapshot of the members.
LEMMA ValuePublish ==
  ASSUME TypeInv, PhaseInv, ClearInv, ValueInv, Publish, TypeInv'
  PROVE  ValueInv'
<1>0. FieldsOK /\ Good(stack) /\ AllKept
  BY TypeParts, WhenSettled DEF ValueInv, Publish
<1> DEFINE f == [Top EXCEPT !.published = TRUE, !.todo = Live, !.saved = Saved, !.prev = inst,
                   !.prevStatic = static, !.prevProgram = program, !.wanted = wantStatic,
                   !.queue = ({static} \cup {inst[i] : i \in Live}) \ {None}]
<1>1. /\ On("reload") /\ ~Top.published /\ stack # <<>> /\ stack' = Append(Below, f)
      /\ inst' = inst /\ value' = value /\ want' = want /\ Live' = Live
  BY DEF Publish, On, Live
<1>2. f \in Activation /\ f.kind = "reload" /\ Top \in ReloadFrame /\ Below \in Seq(Activation)
  BY <1>0, <1>1, PublishedGood, GoodBelow DEF Good
<1>3. f.todo = Live /\ f.prev = inst /\ f.saved = Saved /\ f.keep = Top.keep
  BY <1>2 DEF ReloadFrame
<1> HIDE DEF f
<1>4. Top' = f
  BY <1>1, <1>2, PushedOne
<1>5. Top.keep \/ Live = {}
  <2>1. ~Clear(stack) /\ ~On("call")
    BY <1>0, <1>1, ClearParts DEF Pending, On
  <2> QED BY <2>1 DEF ClearInv, Ready, Preparing, Justified, MayDiscard
<1>6. AllKept'
  BY <1>0, <1>1 DEF AllKept, Kept
<1>7. ASSUME Moving' PROVE Carry(Top, None)'
  <2>1. f.keep /\ \A i \in Live : Saved[i] = value[inst[i]]
    BY <1>3, <1>4, <1>5, <1>7 DEF Moving, Saved, Live
  <2> QED BY <1>0, <1>1, <1>3, <1>4, <2>1 DEF Carry, AllKept, Kept
<1> QED BY <1>6, <1>7, PhasePublish, ValueSettled, PhasesApartNext DEF ValueInv

\* An instance is moved to a runtime that nothing else uses.
LEMMA ValueMigrate ==
  ASSUME TypeInv, PhaseInv, ValueInv, NEW i \in Instances, NEW s \in States, Migrate(i, s),
         TypeInv', "members" \notin Hooks
  PROVE  ValueInv'
<1>0. FieldsOK /\ Good(stack)
  BY TypeParts
<1> DEFINE f == [Top EXCEPT !.todo = @ \ {i}]
           g == Small("members", s, i, FuelOf("members"))
<1>1. /\ stack # <<>> /\ Top.kind = "reload" /\ Top.published /\ i \in Top.todo
      /\ stack' = Append(Append(Below, f), g) /\ inst' = [inst EXCEPT ![i] = s]
      /\ value' = [value EXCEPT ![s] = "initial"] /\ want' = want /\ Allocated(s)
  BY DEF Migrate, On
<1>2. Top \in ReloadFrame /\ Below \in Seq(Activation) /\ Top = stack[Len(stack)]
      /\ Len(stack) \in 1..Len(stack)
  BY <1>0, <1>1, GoodBelow, Kinds DEF Good, Top
<1>3. /\ f \in Activation /\ f.keep = Top.keep /\ f.saved = Top.saved
      /\ f.todo = Top.todo \ {i} /\ f.prev = Top.prev
  BY <1>1, <1>2 DEF Activation, ReloadFrame
<1>4. g \in Activation /\ g.by = i
  BY SmallGood, FuelGood
<1> HIDE DEF f, g
<1>5. Top' = g /\ Caller' = f
  BY <1>1, <1>2, <1>3, <1>4, PushedTwo
<1>6. Moving
  <2>1. Busy(Top) /\ ~On("members")
    BY <1>1 DEF Busy, On
  <2>2. ~Settled
    BY <1>0, <1>1, <2>1, CalmBelow DEF Settled
  <2> QED BY <2>1, <2>2 DEF PhaseInv, Creating, Starting
<1>7. /\ Move(Top, Below) /\ Carry(Top, None)
      /\ \A j \in Live : s # inst[j] /\ s # Top.prev[j] /\ Top.prev[j] \in States
  BY <1>1, <1>2, <1>6, FreshState DEF ValueInv, Moving, Move, Live, ReloadFrame
<1>8. Live' = Live
  BY <1>0, <1>1, <1>7, Distinct DEF Move, Live, FieldsOK
<1>9. ASSUME NEW j \in Live
      PROVE  /\ value'[f.prev[j]] = want'[j] /\ f.saved[j] = want'[j]
             /\ j \notin f.todo /\ j # i => value'[inst'[j]] = want'[j]
             /\ j \notin f.todo => \A k \in Live : inst'[j] # f.prev[k]
  <2>1. value'[f.prev[j]] = want'[j] /\ f.saved[j] = want'[j]
    BY <1>0, <1>1, <1>3, <1>7 DEF Carry, FieldsOK
  <2>2. CASE j = i
    BY <1>0, <1>1, <1>3, <1>7, <2>1, <2>2 DEF FieldsOK
  <2>3. CASE j # i
    <3>1. inst'[j] = inst[j] /\ value'[inst[j]] = value[inst[j]] /\ (j \in f.todo <=> j \in Top.todo)
      BY <1>0, <1>1, <1>3, <1>7, <2>3 DEF FieldsOK, Live
    <3>2. j # None
      BY Distinct DEF Live
    <3> QED BY <1>1, <1>3, <1>7, <2>1, <3>1, <3>2 DEF Carry, Kept
  <2> QED BY <2>2, <2>3
<1>10. Carry(Caller, Top.by)'
  BY <1>3, <1>4, <1>5, <1>7, <1>8, <1>9 DEF Carry, Kept
<1>11. Starting'
  BY PhaseMigrate
<1> QED BY <1>10, <1>11, PhasesApartNext DEF ValueInv

\* Its saved members are assigned.
LEMMA ValueRestore ==
  ASSUME TypeInv, PhaseInv, ValueInv, Restore, TypeInv'
  PROVE  ValueInv'
<1>0. FieldsOK /\ Good(stack) /\ Apart
  BY TypeParts DEF PhaseInv
<1> DEFINE i == Top.by
           m == Caller
<1>1. /\ On("members") /\ Caller.kind = "reload" /\ stack' = Below
      /\ inst' = inst /\ want' = want /\ Live' = Live
  BY DEF Restore, Initialized, Live
<1>2. /\ Len(stack) > 1 /\ Rest \in Seq(Activation) /\ Caller \in Activation
      /\ Below = Append(Rest, Caller) /\ Top.by \in Instances /\ Top.by \in Owners(stack)
      /\ Caller \in ReloadFrame
  BY <1>0, <1>1, InitializerCalled, GoodRest, Kinds DEF Good
<1>3. Top' = m
  BY <1>1, <1>2, PushedOne
<1>4. Move(m, Rest) /\ Carry(m, i) /\ i \notin m.todo
  BY <1>1, WhenInitialized DEF Starting, ValueInv
<1>5. i \in Live
  BY <1>2, TypeParts, Distinct DEF OwnersLive
<1>6. value' = [value EXCEPT ![inst[i]] = m.saved[i]]
  <2>1. m.keep /\ m.prev[i] # None /\ inst[i] # None
    BY <1>4, <1>5 DEF Carry, Move, Live
  <2> QED BY <2>1 DEF Restore
<1>7. i # None /\ inst[i] \in States
  BY <1>0, <1>5, Distinct DEF FieldsOK, Live
<1>8. \A j \in Live : j \in Instances /\ inst[j] \in States /\ m.prev[j] \in States
  BY <1>0, <1>2, <1>4 DEF FieldsOK, Live, Move, ReloadFrame
<1> HIDE DEF i, m
<1>9. ASSUME NEW j \in Live
      PROVE  /\ value'[m.prev[j]] = want[j] /\ m.saved[j] = want[j]
             /\ j \notin m.todo => value'[inst[j]] = want[j]
             /\ j \notin m.todo => \A k \in Live : inst[j] # m.prev[k]
  <2>1. m.prev[j] # inst[i] /\ value[m.prev[j]] = want[j] /\ m.saved[j] = want[j]
    BY <1>4, <1>5 DEF Carry
  <2>2. value'[m.prev[j]] = want[j]
    BY <1>0, <1>6, <1>7, <1>8, <2>1 DEF FieldsOK
  <2>3. ASSUME j \notin m.todo PROVE value'[inst[j]] = want[j]
    <3>1. CASE j = i
      BY <1>0, <1>6, <1>7, <2>1, <3>1 DEF FieldsOK
    <3>2. CASE j # i
      BY <1>0, <1>4, <1>5, <1>6, <1>7, <1>8, <2>3, <3>2 DEF FieldsOK, Carry, Kept, Apart
    <3> QED BY <3>1, <3>2
  <2> QED BY <1>4, <2>1, <2>2, <2>3 DEF Carry
<1>10. Carry(Top, None)'
  BY <1>1, <1>3, <1>4, <1>9 DEF Carry, Kept
<1>11. Settled' => AllKept'
  <2>1. ASSUME Settled' PROVE m.todo = {}
    <3>1. stack' # <<>> /\ Good(stack') /\ Settled'
      BY <1>1, <1>2, <2>1, PushedOne, TypePartsNext
    <3>2. Len(stack') \in 1..Len(stack') /\ Top' = stack'[Len(stack')]
      BY <3>1 DEF Top, Good
    <3>3. ~Busy(m)
      BY <1>3, <3>1, <3>2 DEF Settled, Calm, Busy
    <3> QED BY <1>4, <3>3 DEF Busy, Move
  <2> QED BY <1>1, <1>9, <2>1 DEF AllKept, Kept
<1>12. Settled' \/ Moving'
  BY PhaseRestore
<1> QED BY <1>10, <1>11, <1>12, PhasesApartNext, ValueSettled DEF ValueInv

LEMMA ValueRollBack ==
  ASSUME TypeInv, PhaseInv, ValueInv, RollBack, TypeInv'
  PROVE  ValueInv'
<1>0. FieldsOK
  BY TypeParts
<1>1. /\ On("members") /\ Caller.kind = "reload" /\ inst' = RolledBack(Caller)
      /\ value' = value /\ want' = want
  BY DEF RollBack, Initialized
<1>2. Move(Caller, Rest) /\ Carry(Caller, Top.by)
  BY <1>1, WhenInitialized DEF Starting, ValueInv
<1>3. Live' = Live /\ \A i \in Live : inst'[i] = Caller.prev[i]
  BY <1>0, <1>1, <1>2 DEF RolledBack, Live, Move, FieldsOK
<1>4. AllKept'
  BY <1>1, <1>2, <1>3 DEF AllKept, Kept, Carry
<1> QED BY <1>4, PhaseRollBack, ValueSettled

LEMMA ValueReloading ==
  ASSUME TypeInv, PhaseInv, ClearInv, ValueInv, Reloading, TypeInv', "members" \notin Hooks
  PROVE  ValueInv'
<1>1. CASE StaticInitFails \/ ReloadEnds
  <2>1. AllKept
    BY <1>1, WhenSettled DEF StaticInitFails, ReloadEnds, ValueInv
  <2>2. AllKept'
    BY <1>1, <2>1, SameValues DEF StaticInitFails, ReloadEnds, Live
  <2> QED BY <1>1, <2>2, PhaseReloadOver, ValueSettled
<1>2. ASSUME NEW s \in States, CancelOld(s) PROVE ValueInv'
  <2>1. AllKept
    BY <1>2, WhenSettled DEF CancelOld, ValueInv
  <2>2. AllKept'
    BY <1>2, <2>1, SameValues DEF CancelOld, Live
  <2> QED BY <1>2, <2>2, PhaseCancelOld, ValueSettled
<1> QED BY <1>1, <1>2, ValuePublish, ValueMigrate, ValueRestore, ValueRollBack DEF Reloading

LEMMA ValueCorrect ==
  ASSUME "static" \notin Hooks, "members" \notin Hooks
  PROVE  Spec => []ValueInv
<1>1. Init => ValueInv
  BY DEF Init, ValueInv, AllKept, Live, Moving, Starting, On
<1>2. TypeInv /\ TypeInv' /\ PhaseInv /\ ClearInv /\ ValueInv /\ [Next]_vars => ValueInv'
  <2> SUFFICES ASSUME TypeInv, TypeInv', PhaseInv, ClearInv, ValueInv, [Next]_vars
               PROVE  ValueInv'
    OBVIOUS
  <2>1. CASE UNCHANGED vars
    <3>1. /\ stack' = stack /\ Live' = Live /\ Top' = Top /\ Below' = Below /\ Caller' = Caller
          /\ Rest' = Rest
      BY <2>1 DEF vars, Live, Top, Below, Caller, Rest
    <3>2. UNCHANGED <<program, static, dispatch, inst, prog, value, want>>
      BY <2>1 DEF vars
    <3>3. (AllKept' <=> AllKept) /\ (Settled' <=> Settled)
      BY <3>1, <3>2 DEF Settled, AllKept, Kept, AllFit, Fit, Calm, Announced, Busy, Publishes
    <3>4. Creating' <=> Creating
      BY <3>1, <3>2 DEF Creating, AllFit, Fit, On, Calm, Announced, Busy, Publishes
    <3>5. (Moving' <=> Moving) /\ (Starting' <=> Starting)
      BY <3>1, <3>2 DEF Moving, Starting, Move, Fit, On, Calm, Announced, Busy, Publishes
    <3>6. /\ Carry(Top, None)' <=> Carry(Top, None)
          /\ Carry(Caller, Top.by)' <=> Carry(Caller, Top.by)
      BY <3>1, <3>2 DEF Carry, Kept
    <3> QED BY <3>3, <3>4, <3>5, <3>6 DEF ValueInv
  <2> QED BY <2>1, ValueScriptOp, ValueFunction, ValueConstruction, ValueReloading DEF Next
<1> QED BY TypeInvCorrect, PhaseCorrect, ClearCorrect, <1>1, <1>2, PTL DEF Spec

\* When static and member initializers leave the resource alone, reloading keeps the members
\* of every instance as its script and its users last assigned them, whichever instances are
\* added, dropped or edited meanwhile and whether the reload succeeds or is rolled back.
THEOREM MembersKept ==
  ASSUME "static" \notin Hooks, "members" \notin Hooks
  PROVE  Spec => []MembersSurvive
<1>1. TypeInv /\ PhaseInv /\ ValueInv => MembersSurvive
  <2> SUFFICES ASSUME TypeInv, PhaseInv, ValueInv, ~Migrating, Migrated PROVE AllKept
    BY DEF MembersSurvive, AllKept, Kept
  <2>1. Settled \/ Creating
    BY NotMoving DEF PhaseInv
  <2> QED BY <2>1 DEF ValueInv
<1> QED BY TypeInvCorrect, PhaseCorrect, ValueCorrect, <1>1, PTL

=============================================================================
