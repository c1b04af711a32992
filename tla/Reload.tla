------------------------------- MODULE Reload -------------------------------
(***************************************************************************)
(* One UnsafeGDScript resource: its program, its instances and what happens *)
(* to them when the source is reloaded (unsafe_gdscript.cpp).  Reloading    *)
(* runs script in the middle (static and member initializers, completion    *)
(* handlers of cancelled coroutines), and that script may call, create,     *)
(* edit or reload the same resource before _reload continues.  So, as in    *)
(* Coroutines, the state holds the stack of activations.                    *)
(*                                                                          *)
(* A NativeState is alive while a shared_ptr refers to it: ownership is     *)
(* computed from the instances, the resource and the stack, and a state     *)
(* nobody owns is free to be allocated again.                               *)
(***************************************************************************)
EXTENDS Naturals, Sequences

CONSTANTS
  Instances,  \* identities of UnsafeGDScriptInstance objects
  States,     \* addresses of NativeState objects
  None,
  Hooks,      \* which hooks of the script touch the script's own resource:
              \* "static" (static initializers), "members" (member
              \* initializers), "accessor" (setters and getters);
              \* "retired": a static variable of a program that is not the
              \* resource's may be set, by a function still running on it or
              \* through an instance or the resource, when they lag behind
  MaxBuilds,  \* bound: programs compiled
  Fuel,       \* bound: operations one script activation performs
  MaxDepth    \* bound: activations below which script starts another one

ASSUME Distinct == States \subseteq Nat /\ None \notin Instances \cup States
ASSUME Bounds ==
  /\ Hooks \subseteq {"static", "members", "accessor", "retired"}
  /\ MaxBuilds \in Nat \ {0} /\ Fuel \in Nat /\ MaxDepth \in Nat

VARIABLES
  program,     \* UnsafeGDScript::program, as the number of its build; 0 is null
  static,      \* UnsafeGDScript::static_state
  dispatch,    \* the runtime of the resource's own static-dispatch instance
  inst,        \* UnsafeGDScriptInstance::state of every instance; None: no instance
  prog,        \* NativeState::program
  value,       \* a member variable of every NativeState
  stat,        \* a static variable of every program
  waiting,     \* runtimes with a suspended coroutine
  built,       \* programs compiled so far
  want,        \* history: the member as last assigned through each instance
  wantStatic,  \* history: the static variable as last assigned
  stack        \* the activations, topmost last

vars == <<program, static, dispatch, inst, prog, value, stat, waiting, built,
          want, wantStatic, stack>>

Versions == 0..MaxBuilds
Values == {"initial", "edited"}
Live == {i \in Instances : inst[i] # None}

-----------------------------------------------------------------------------
(* Activations.                                                             *)
(*   script   a completion handler                                          *)
(*   call     callp, a resumed coroutine or static initialization           *)
(*   access   set or get running a setter or getter of instance by          *)
(*   members  invoke(-3): the member initializers of instance by            *)
(*   create   new_instance and _instance_create of instance by              *)
(*   reload   _reload past compilation, with its local variables            *)
Small(kind, s, i, fuel) == [kind |-> kind, state |-> s, by |-> i, fuel |-> fuel]
FuelOf(hook) == IF hook \in Hooks THEN Fuel ELSE 0
SmallFrame == [kind : {"script", "call", "access", "members", "create"},
               state : States \cup {None}, by : Instances \cup {None}, fuel : 0..Fuel]
ReloadFrame ==
  [kind : {"reload"}, keep : BOOLEAN, candidate : Versions, shared : States,
   published : BOOLEAN, todo : SUBSET Instances, saved : [Instances -> Values],
   prev : [Instances -> States \cup {None}], prevStatic : States \cup {None},
   prevProgram : Versions, queue : SUBSET States,
   wanted : Values]  \* history: wantStatic when the candidate was published

Top == stack[Len(stack)]
Below == SubSeq(stack, 1, Len(stack) - 1)
On(kind) == stack # <<>> /\ Top.kind = kind

\* Script runs in the activation f and may reach the resource.
Acts(f) == f.kind \in {"script", "call", "access", "members"}

CanAct == /\ stack # <<>> => Acts(Top) /\ Top.fuel > 0
          /\ Len(stack) < MaxDepth

Spent == IF stack = <<>> THEN <<>> ELSE [stack EXCEPT ![Len(stack)].fuel = @ - 1]

\* The runtimes an activation keeps alive by a shared_ptr of its own.
Holds(f) ==
  CASE f.kind = "call"   -> {f.state}
    [] f.kind = "reload" -> ({f.shared, f.prevStatic} \cup {f.prev[i] : i \in Instances}) \ {None}
    [] OTHER             -> {}

Owned == (({static, dispatch} \cup {inst[i] : i \in Instances}) \ {None})
         \cup UNION {Holds(stack[k]) : k \in 1..Len(stack)}

\* make_shared: which free address the allocator picks makes no difference.
Allocated(s) == s \in States \ Owned /\ \A t \in States \ Owned : s <= t

\* ~NativeState of every runtime the step has released cancels its coroutines
\* without a word.
Released == waiting' = waiting \cap Owned'

-----------------------------------------------------------------------------
Init ==
  /\ program = 0
  /\ static = None
  /\ dispatch = None
  /\ inst = [i \in Instances |-> None]
  /\ prog = [s \in States |-> 0]
  /\ value = [s \in States |-> "initial"]
  /\ stat = [v \in Versions |-> "initial"]
  /\ waiting = {}
  /\ built = 0
  /\ want = [i \in Instances |-> "initial"]
  /\ wantStatic = "initial"
  /\ stack = <<>>

-----------------------------------------------------------------------------
(* What script may do to the resource and its instances.                    *)

Push(f) == stack' = Append(Spent, f)

Call(s) ==
  /\ CanAct
  /\ s \in ({dispatch} \cup {inst[i] : i \in Live}) \ {None}
  /\ Push(Small("call", s, None, Fuel))
  /\ UNCHANGED <<program, static, dispatch, inst, prog, value, stat, waiting, built, want, wantStatic>>

\* The signal a suspended function awaits is emitted.
Resume(s) ==
  /\ CanAct
  /\ s \in waiting
  /\ waiting' = waiting \ {s}
  /\ Push(Small("call", s, None, Fuel))
  /\ UNCHANGED <<program, static, dispatch, inst, prog, value, stat, built, want, wantStatic>>

\* set or get of a property with a setter or getter function.
Access(i) ==
  /\ "accessor" \in Hooks
  /\ CanAct
  /\ i \in Live
  /\ Push(Small("access", inst[i], i, Fuel))
  /\ UNCHANGED <<program, static, dispatch, inst, prog, value, stat, waiting, built, want, wantStatic>>

\* set of a member without a setter.
Edit(i) ==
  /\ CanAct
  /\ i \in Live
  /\ value' = [value EXCEPT ![inst[i]] = "edited"]
  /\ want' = [want EXCEPT ![i] = "edited"]
  /\ stack' = Spent
  /\ UNCHANGED <<program, static, dispatch, inst, prog, stat, waiting, built, wantStatic>>

\* set of a static variable through the resource, whose static-dispatch instance
\* writes the program it was created with, or through an instance.
EditStatic(s) ==
  /\ CanAct
  /\ s \in ({dispatch} \cup {inst[i] : i \in Live}) \ {None}
  /\ prog[s] = program \/ "retired" \in Hooks
  /\ stat' = [stat EXCEPT ![prog[s]] = "edited"]
  /\ wantStatic' = "edited"
  /\ stack' = Spent
  /\ UNCHANGED <<program, static, dispatch, inst, prog, value, waiting, built, want>>

\* The last reference to an instance goes.  The engine keeps the receiver of a
\* running call.
Free(i) ==
  /\ CanAct
  /\ i \in Live
  /\ \A k \in 1..Len(stack) : stack[k].kind # "reload" =>
       stack[k].by # i /\ stack[k].state # inst[i]
  /\ inst' = [inst EXCEPT ![i] = None]
  /\ stack' = Spent
  /\ waiting' = waiting \ {inst[i]}
  /\ UNCHANGED <<program, static, dispatch, prog, value, stat, built, want, wantStatic>>

\* new(): the instance is registered before its initializers run.
New(i, s) ==
  /\ CanAct
  /\ program # 0
  /\ i \notin Live
  /\ Allocated(s)
  /\ inst' = [inst EXCEPT ![i] = s]
  /\ prog' = [prog EXCEPT ![s] = program]
  /\ value' = [value EXCEPT ![s] = "initial"]
  /\ want' = [want EXCEPT ![i] = "initial"]
  /\ stack' = Spent \o <<Small("create", None, i, 0), Small("members", s, i, FuelOf("members"))>>
  /\ UNCHANGED <<program, static, dispatch, stat, waiting, built, wantStatic>>

\* _reload up to the call of the static initializers.
MayDiscard_Always == TRUE
MayDiscard == Live = {}

BeginReload(keep, s) ==
  /\ CanAct
  /\ keep \/ MayDiscard
  /\ built < MaxBuilds
  /\ Allocated(s)
  /\ built' = built + 1
  /\ prog' = [prog EXCEPT ![s] = built + 1]
  /\ value' = [value EXCEPT ![s] = "initial"]
  /\ stack' = Spent \o
       <<[kind |-> "reload", keep |-> keep, candidate |-> built + 1, shared |-> s,
          published |-> FALSE, todo |-> {}, saved |-> [i \in Instances |-> "initial"],
          prev |-> [i \in Instances |-> None], prevStatic |-> None,
          prevProgram |-> 0, queue |-> {}, wanted |-> "initial"],
         Small("call", s, None, FuelOf("static"))>>
  /\ UNCHANGED <<program, static, dispatch, inst, stat, waiting, want, wantStatic>>

ScriptOp ==
  \/ \E s \in States : Call(s) \/ Resume(s) \/ EditStatic(s)
  \/ \E i \in Instances : Access(i) \/ Edit(i) \/ Free(i) \/ \E s \in States : New(i, s)
  \/ \E keep \in BOOLEAN, s \in States : BeginReload(keep, s)

-----------------------------------------------------------------------------
(* Inside and at the end of a function.                                     *)

\* p is the program of a reload that has not published it yet.
Candidate(p) == \E k \in 1..Len(stack) :
  stack[k].kind = "reload" /\ ~stack[k].published /\ stack[k].candidate = p

\* A function assigns a member of the runtime it was called on.
EditOwn ==
  /\ On("call") /\ Top.fuel > 0
  /\ value' = [value EXCEPT ![Top.state] = "edited"]
  /\ want' = [i \in Instances |-> IF inst[i] = Top.state THEN "edited" ELSE want[i]]
  /\ stack' = Spent
  /\ UNCHANGED <<program, static, dispatch, inst, prog, stat, waiting, built, wantStatic>>

\* A function assigns a static variable: invoke hands it those of the program
\* its own runtime was built from, whatever the resource's program is by now.
\* A static initializer thereby sets up its candidate, which takes effect when
\* the candidate is published.  (An accessor whose runtime is gone writes nowhere.)
OwnProgram_Resource == program
OwnProgram == prog[Top.state]

EditOwnStatic ==
  /\ stack # <<>> /\ Top.kind \in {"call", "access", "members"}
  /\ Top.fuel > 0 /\ Top.state \in Owned
  /\ prog[Top.state] = program \/ Candidate(prog[Top.state]) \/ "retired" \in Hooks
  /\ stat' = [stat EXCEPT ![OwnProgram] = "edited"]
  /\ wantStatic' = IF Candidate(prog[Top.state]) THEN wantStatic ELSE "edited"
  /\ stack' = Spent
  /\ UNCHANGED <<program, static, dispatch, inst, prog, value, waiting, built, want>>

\* A function, a handler or an accessor returns or fails.
Return ==
  /\ On("call") \/ On("script") \/ On("access")
  /\ stack' = Below
  /\ UNCHANGED <<program, static, dispatch, inst, prog, value, stat, built, want, wantStatic>>
  /\ Released

\* A function awaits a signal.
Suspend ==
  /\ On("call")
  /\ stack' = Below
  /\ UNCHANGED <<program, static, dispatch, inst, prog, value, stat, built, want, wantStatic>>
  /\ waiting' = (waiting \cup {Top.state}) \cap Owned'

-----------------------------------------------------------------------------
(* Construction.                                                            *)

Caller == Below[Len(Below)]
Initialized(kind) == On("members") /\ Caller.kind = kind

\* The member initializers succeed: _init is called.
CallInit ==
  /\ Initialized("create")
  /\ stack' = Append(Below, Small("call", inst[Top.by], None, Fuel))
  /\ UNCHANGED <<program, static, dispatch, inst, prog, value, stat, waiting, built, want, wantStatic>>

\* Initializers or _init fail: new_instance drops the object.
Reject(i) ==
  /\ inst' = [inst EXCEPT ![i] = None]
  /\ UNCHANGED <<program, static, dispatch, prog, value, stat, built, want, wantStatic>>
  /\ Released

InitializersFail ==
  /\ Initialized("create")
  /\ stack' = SubSeq(stack, 1, Len(stack) - 2)
  /\ Reject(Top.by)

ConstructorFails ==
  /\ On("create")
  /\ stack' = Below
  /\ Reject(Top.by)

Constructed ==
  /\ On("create")
  /\ stack' = Below
  /\ UNCHANGED <<program, static, dispatch, inst, prog, value, stat, waiting, built, want, wantStatic>>

Construction == CallInit \/ InitializersFail \/ ConstructorFails \/ Constructed

-----------------------------------------------------------------------------
(* The rest of _reload.                                                     *)

\* A static initializer fails: nothing was published.
StaticInitFails ==
  /\ On("reload") /\ ~Top.published
  /\ stack' = Below
  /\ UNCHANGED <<program, static, dispatch, inst, prog, value, stat, built, want, wantStatic>>
  /\ Released

\* What becomes of the members of the instances and of the static variables.
Saved_Shared == inst
Saved_Nothing == [i \in Instances |-> "initial"]
Saved == [i \in Instances |-> IF Top.keep /\ i \in Live THEN value[inst[i]] ELSE "initial"]
CarriedOver_Nothing == stat
CarriedOver ==
  IF Top.keep /\ program # 0 THEN [stat EXCEPT ![Top.candidate] = stat[program]] ELSE stat

\* Snapshot the members (a getter or setter of a saved member that runs script
\* here is left out), copy the statics, publish the candidate.
Publish ==
  /\ On("reload") /\ ~Top.published
  /\ stat' = CarriedOver
  /\ wantStatic' = IF Top.keep /\ program # 0 THEN wantStatic ELSE stat[Top.candidate]
  /\ stack' = Append(Below,
       [Top EXCEPT !.published = TRUE, !.todo = Live, !.saved = Saved, !.prev = inst,
                   !.prevStatic = static, !.prevProgram = program, !.wanted = wantStatic,
                   !.queue = ({static} \cup {inst[i] : i \in Live}) \ {None}])
  /\ program' = Top.candidate
  /\ static' = Top.shared
  /\ UNCHANGED <<dispatch, inst, prog, value, waiting, built, want>>

\* An instance gets a runtime of the new program, and its initializers run.
Migrate(i, s) ==
  /\ On("reload") /\ Top.published
  /\ i \in Top.todo
  /\ Allocated(s)
  /\ inst' = [inst EXCEPT ![i] = s]
  /\ prog' = [prog EXCEPT ![s] = program]
  /\ value' = [value EXCEPT ![s] = "initial"]
  /\ stack' = Append(Append(Below, [Top EXCEPT !.todo = @ \ {i}]),
                     Small("members", s, i, FuelOf("members")))
  /\ UNCHANGED <<program, static, dispatch, stat, waiting, built, want, wantStatic>>

\* The initializers succeed: the saved members are assigned.
Restore ==
  /\ Initialized("reload")
  /\ value' = IF Caller.keep /\ Caller.prev[Top.by] # None /\ inst[Top.by] # None
              THEN [value EXCEPT ![inst[Top.by]] = Caller.saved[Top.by]]
              ELSE value
  /\ stack' = Below
  /\ UNCHANGED <<program, static, dispatch, inst, prog, stat, built, want, wantStatic>>
  /\ Released

\* They fail: the previous program and runtimes come back.
RolledBack_Partly(f) == [inst EXCEPT ![Top.by] = f.prev[Top.by]]
RolledBack(f) == [i \in Instances |-> IF f.prev[i] # None /\ i \in Live THEN f.prev[i] ELSE inst[i]]

RollBack ==
  /\ Initialized("reload")
  /\ program' = Caller.prevProgram
  /\ static' = Caller.prevStatic
  /\ inst' = RolledBack(Caller)
  /\ wantStatic' = Caller.wanted
  /\ stack' = SubSeq(stack, 1, Len(stack) - 2)
  /\ UNCHANGED <<dispatch, prog, value, stat, built, want>>
  /\ Released

\* The coroutines of the previous runtimes are cancelled; handlers run.
CancelOld(s) ==
  /\ On("reload") /\ Top.published /\ Top.todo = {}
  /\ s \in Top.queue
  /\ LET rest == Append(Below, [Top EXCEPT !.queue = @ \ {s}])
     IN  stack' = IF s \in waiting THEN Append(rest, Small("script", None, None, Fuel)) ELSE rest
  /\ waiting' = waiting \ {s}
  /\ UNCHANGED <<program, static, dispatch, inst, prog, value, stat, built, want, wantStatic>>

\* The resource's static-dispatch instance is replaced.
Dispatched_Candidate == Top.shared
Dispatched == static

ReloadEnds ==
  /\ On("reload") /\ Top.published /\ Top.todo = {} /\ Top.queue = {}
  /\ dispatch' = Dispatched
  /\ stack' = Below
  /\ UNCHANGED <<program, static, inst, prog, value, stat, built, want, wantStatic>>
  /\ Released

Reloading ==
  \/ StaticInitFails
  \/ Publish
  \/ \E i \in Instances, s \in States : Migrate(i, s)
  \/ Restore
  \/ RollBack
  \/ \E s \in States : CancelOld(s)
  \/ ReloadEnds

Next == ScriptOp \/ EditOwn \/ EditOwnStatic \/ Return \/ Suspend \/ Construction \/ Reloading

Spec == Init /\ [][Next]_vars
-----------------------------------------------------------------------------
(* Properties.                                                              *)

\* Every field keeps its type.
TypeOK ==
  /\ program \in Versions /\ built \in Versions
  /\ static \in States \cup {None} /\ dispatch \in States \cup {None}
  /\ inst \in [Instances -> States \cup {None}]
  /\ prog \in [States -> Versions]
  /\ value \in [States -> Values]
  /\ stat \in [Versions -> Values]
  /\ waiting \subseteq States
  /\ want \in [Instances -> Values] /\ wantStatic \in Values
  /\ stack \in Seq(SmallFrame \cup ReloadFrame)

\* The instances are being moved to the published program.
Migrating == \E k \in 1..Len(stack) :
  stack[k].kind = "reload" /\ stack[k].published /\ stack[k].todo # {}
\* ... or their initializers or restored members are still to come.
Migrated == \A k \in 1..Len(stack) :
  stack[k].kind = "members" => k > 1 /\ stack[k - 1].kind # "reload"

\* A runtime whose code is on the stack is alive, whatever that code did to
\* the instance it was called on: "Reload creates a replacement NativeState.
\* callp/Callable hold this state through reentry".
HeldWhileRunning == \A k \in 1..Len(stack) :
  stack[k].kind \in {"call", "access", "members"} => stack[k].state \in Owned

\* Outside the migration loop property indices of the resource fit the runtime
\* of every instance.
IndicesFit == ~Migrating /\ Migrated => \A i \in Live : prog[inst[i]] = program

\* Reloading with or without success keeps every instance's members.
MembersSurvive == ~Migrating /\ Migrated => \A i \in Live : value[inst[i]] = want[i]

\* ... and the static variables, also those that functions assign to the program
\* of their own runtime: a program that was not published takes nothing with it,
\* and the one that comes back has what it had when it was replaced.
StaticsSurvive == stat[program] = wantStatic

\* Between reloads the resource dispatches static calls to its own program.
DispatchSettled ==
  (\A k \in 1..Len(stack) : stack[k].kind # "reload") => dispatch = static

\* "Cannot discard state while script instances exist".
NothingDiscarded == \A k \in 1..Len(stack) :
  stack[k].kind = "reload" /\ stack[k].published /\ ~stack[k].keep =>
    \A i \in Instances : stack[k].prev[i] = None
=============================================================================
