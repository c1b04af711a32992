# Verification of godot-jit

TLA+ specifications of godot-jit, a GDExtension that compiles GDScript to C, runs the C in
the process and registers the result as a script language of Godot (`UnsafeGDScript`). The
extension is single-threaded in what it does for one object, but it is never alone: almost
every operation can run script in the middle (a signal handler, a destructor, an initializer,
a setter), and that script may call back into the very object whose operation is under way.
What makes the code hard to test is this reentrancy, and it is what the modules model: each
keeps the stack of activations as a variable and lets any script activation start any operation.

## Inventory

| Component | State | Operations | What makes it correct |
|---|---|---|---|
| Coroutines (`function_state.cpp`, `NativeState`) | per coroutine: awaited signal, frame, `running`, `cancelled`, `failed`, weak runtime; per runtime: list, `cancelling` | suspend, restore, resume, cancel, retire, cancel_coroutines | completion announced exactly once; no wake-up lost; nothing kept after the end |
| Script resource (`unsafe_gdscript.cpp`) | program, static runtime, instances, pending constructor arguments, static-dispatch instance | `_reload`, `new_instance`, `_instance_create`, `set`/`get`, `callp`, teardown | a reload, failed or not, loses no state and leaves every instance on one program; running code is not destroyed |
| Calls and errors (`native_program.cpp`, `gj_fail`) | one error string per runtime, a context per activation | `NativeState::call`, `invoke`, `callp`, `call_hook`, `NativeCallable` | each caller learns of its own call's failure, and of no other |
| Compilation (`NativeProgram::compile`) | name and method tables, `uses_self` | compile | `uses_self` is exactly what the call graph needs |
| `GodotJIT` object | `module_`, `native_`, `error_` | compile_c, compile_sgd, clear, execute, execute_function | a failed compile keeps what is installed; replaced code finishes; its coroutines are cancelled, once |
| C modules (`c_module.cpp`) | compiler lock, TinyCC state or shared library | compile, compile_system, symbol, write_perf_map | one compiler at a time; nothing left behind by a failing step; every compilation returns |
| ABI operations (`c_abi.cpp`) | the caller's Variants | copy, move, destroy, iteration, gj_op | counts of references are exact and results right, also when source and destination alias |
| Debugger (`unsafe_debugger.cpp`) | per-thread frames, error | hook, stack queries | enter and exit match; a step stops where it means to; a blocked debugger shows its stack |
| Language, loader, saver (`unsafe_language.cpp`) | none | reload all or some scripts, load, save | delegates to the resource |
| Inheritance walk (`unsafe_compiler_options`) | visited paths | one walk per compilation | accepts exactly the chains that end, of at most 64 scripts |
| Property defaults (`property_defaults.cpp`) | defaults by name | collect, evaluate | the nearest declaration decides |
| Syntax highlighter (`unsafe_highlighter.cpp`) | open regions by line, word tables | scan, highlight, clear, update | cached line state equals a full scan |
| Editor, registration, `script_instance.cpp` | none | register, forward | - |

Interaction: an instance calls its runtime (`NativeState`), whose compiled functions call back
through the C ABI; `await` reaches `NativeState::suspend`, which connects a one-shot engine
signal to the coroutine; the engine calls `resume_from_signal`. `_reload`, `GodotJIT::clear`
and teardown replace or drop runtimes and cancel their coroutines, whose `completed` handlers
are script. Runtimes are kept by `shared_ptr`s of instances, the resource and the C++ frames.

Hard behaviours: reentrancy at every emission, destructor and initializer; signals that copied
their slots before a coroutine was cancelled; owners freed while suspended; runtimes replaced
under running code; reloads that fail half-way; one error string for nested calls. The only
thing that outlives the process is perf's map of the code, and there is no message passing.
Threads matter only for the compiler lock and the script registry; the debugger's frames are
each thread's own.

## Modules

### Coroutines.tla

One record per coroutine mirrors `UnsafeFunctionState`: where it is connected, whether it has a
frame, its flags and its runtime. `list` is `NativeState::coroutines`, `attached` the runtimes
something still owns. `stack` holds the activations: a script call, an emission with the slots
it copied, `resume`, the end of `resume` (`settle`), `cancel_coroutines` with the coroutines still
to detach (`todo`) and to announce (`due`). The environment is the engine and the script: emit
any signal (one-shot connections are taken when a slot is called), cancel any coroutine, call a
function, replace or tear down a runtime, free an owner or a signal's object.

Choices. The vector is a set: the order in which cancelled coroutines are announced is left open.
`DropHooks` says whether destroying a saved local can run script (a local that is the last
reference to an object with a predelete handler); it covers `retire`, the detach loop and the
replacement of a frame. A failed connection and refused awaits are the function failing. Script
that calls `resume_from_signal` or emits `completed` itself, and a function that returns its own
`completed` signal, are not modelled. The catch block of `resume_from_signal` is not reached: the
saved frame exists whenever a coroutine is resumed, which is part of `NoLostWakeup`.

### Completion.tla

The promise script relies on: once a call is suspended its result is pending until it completes
(with a value, a failure or a cancellation) and says so exactly once, or is abandoned with its runtime
and never says anything. `Coroutines` refines it (`Implements`).

### Reload.tla

One resource. `_reload` is cut at the points where script runs: static initializers
(`BeginReload`), publication (`Publish`), each instance's migration and its member initializers
(`Migrate`, `Restore`, `RollBack`), each cancelled runtime (`CancelOld`), the end (`ReloadEnds`).
Its local variables are fields of its activation. A `NativeState` is an address; who owns it is
computed (`Owned`), and a free address is allocated again. `want` and `wantStatic` are history:
what was last assigned to a member or a static variable. One member and one static variable stand
for all. `Hooks` names what script touches the resource in the middle: static initializers, member
initializers and accessors. Completion handlers always may do everything else.

Who assigns a static variable matters. `invoke` hands a function the statics of the program its
own runtime was built from (`EditOwnStatic`); `set` writes those of the program that the
dispatch instance or an instance is on (`EditStatic`). What a static initializer assigns goes to the
candidate and counts once that is published without values to carry over. A reload that is rolled
back takes what was assigned to its program with it: `wantStatic` is again what it was at the
publication (`wanted`). The code loses what is assigned to a program that is not, or no longer, the
resource's: by a function that goes on running on a program that was replaced or rejected (because it
reloaded its own script, for example), and through the resource or an instance while they lag behind.
The hook `retired` allows such assignments; it has a violation run and no part in the passing ones. Static
variables assigned by member initializers are met with `Hooks` containing `members`, where
`DispatchSettled` fails (see the runs), so that they have no passing run; `StaticsKept` covers them.

Left out: reading and assigning members around the migration is one step, so an accessor that
runs script there, and an instance freed or added during these loops, are not covered (both are
listed as hazards); placeholders; nested-class scripts; the base script.

### Calls.tla

`NativeState::call`, `invoke` and `gj_fail` with the callers that read the outcome: `callp`,
`call_hook`, the constructor, `NativeCallable`, `execute_function`, the member initializers and
`resume`. A call is rejected, goes the exact way, or evaluates default arguments and converts;
a function may call any function of any runtime through any caller, and ignore that it failed.
A message is the number of the failure that raised it. `report` is what the last caller made of
its call. Argument types and values are left out: a conversion fails or not.

`disturbed`, chosen at the start, says whether script may run between a failure and its report. Then
a debugger is attached: `Fail` leaves the function stopped, as `gj_fail` calls the hook after it has set the
string, and until `Continue` an expression evaluated there may run getters of any runtime, which
fail and stop in turn. And destroying the failed function's locals, after that, may run script too.

### Construction.tla

`new_instance` and `_instance_create`. The engine's `set_script` lies between them and passes
neither arguments nor an error, so both are left in the script while it runs. The stack holds the
calls of `new()` (with what was pending before, and the error that its caller reads) and of
`set_script`, each in its member initializers, in `_init` or telling the listeners of
`script_changed`; script that runs in any of them makes further objects, with `new()` or by giving
the script to an object, as instantiating a scene does. `Listeners` says whether listeners do the
latter: the code has no answer to that (see the runs).

### Slots.tla

The values of one compiled function. Only arrays are shared, so a Variant is nil, a number or an
array, and an array is its elements and its count of references. Each operation of the ABI is one
step whose effects are applied to a record of the memory in the code's order: take a snapshot,
clear the destination, hand over. Reading, retaining or releasing an array whose count is zero
is remembered as a fault. All operands range over all slots, so every aliasing is met.

### CModule.tla

Each thread walks through `compile`, with TinyCC or through
`compile_system`, `symbol`, `write_perf_map` and the destructor; every call to the system may
fail. An entry of `perfMap` stands for what one module's lines left in the file, all of them or those
written before an error. `owned` is what a compilation has to give back, `child` the compiler process, which writes
on its own. `Restart` is the process dying and its number being given to another one.

### GodotJIT.tla

`module_`, `native_` and `error_`, and the calls in progress with what each runs and which runtime
its `shared_ptr` keeps. Script that a call runs (initializers, the function, listeners told of
cancelled coroutines) may compile, clear or execute again.

### Compilation.tla

Three iterations of compiling a script, one after the other: the walk of the base scripts over
every layout of files (`Paths` holds two spellings of one file), the defaults of a property over every
sequence of declarations, and `uses_self` over every call graph. Each input is forgotten when
its stage ends. `Initializers` are trees with every case of `constant_value`.

### Debugger.tla

The hook's four events in one thread. `depth`, `linesLeft` and the breakpoints are
`EngineDebugger`'s; functions of another language count the same two numbers, as GDScript's own
hook does. A stop blocks: the user sets breakpoints, evaluates (a getter enters a function on top), and
resumes with a command. A debugger is attached throughout (without one the hook only pushes and pops
its frames), and a function calls others only after a line of its own, as generated code reports a line
before every statement. `goal` records what was asked for and where; `verdict` whether the last
line stopped accordingly.

### Highlighter.tla

A line is a sequence of symbols (delimiter characters, whole words, numbers) and is scanned as the
code does: regions by longest opening, escapes, quoted names, words coloured by what stands around
them. `open` is `open_region`; `shown` is what the engine's `SyntaxHighlighter` keeps and drops.
Lines are drawn in any order between edits, and the script edited and the settings change.

## Runs

| Run | Question | Result |
|---|---|---|
| `coroutines` | two coroutines and one runtime, every nesting | all eleven properties hold |
| `coroutines_hooks` | two runtimes, destructors run script | wake-ups and resumption stay right |
| `detach_before_handlers` | is every callback detached before a handler runs? | no, with destructors |
| `reload` | two instances, two builds | no state lost, no instance on another program |
| `reload_nested` | three builds, reload inside reload | statics survive, dispatch settles |
| `reload_accessor` | is a running accessor's runtime held? | no |
| `reload_discard` | is state discarded only when no instance exists? | no |
| `reload_retired_static` | does a reload preserve every write to a static? | no |
| `calls` | nested failing calls, with and without a debugger and destructors | a failed call keeps its own message, or reads no older one |
| `calls_null_success` | can a caller consume a null success? | yes |
| `native` | slots, C modules, `GodotJIT`, construction: what compiled code stands on | all ten properties hold |
| `tools` | compilation, debugger, highlighter | all seven properties hold |

**What the coroutine runs show.** `CompletedOnce`: `completed` is emitted at most once.
`NothingLeftBehind`: a coroutine that ended is in no list and no signal calls it.
`Reachable`, `NoLostWakeup`: one that is suspended is listed, has its frame and is connected or
about to be called. `NoStaleResume`, `OneActivation`: a late slot call resumes nothing and no
coroutine runs twice at once. `CancellationSealed`, `OutcomeFinal`: nothing suspends in a runtime
being cancelled and an announced outcome never changes. `ClaimsHonoured` (liveness): whoever has
taken a coroutine out of the list to announce it does announce it. `Implements`: refinement.
With destructors that run script, `CompletedOnce`, `OutcomeFinal` and `NothingLeftBehind` no longer
hold; `detach_before_handlers` is the shortest reason, and the comment in the code it contradicts
is quoted in `PROJECT.json`.

**What the reload runs show.** Whatever completion handlers, static initializers and functions do,
after any mixture of successful, failing and nested reloads every instance is on the resource's
program (`IndicesFit`), has the members last assigned (`MembersSurvive`), static variables keep
their values (`StaticsSurvive`) and static calls go to the resource's program (`DispatchSettled`).
The violation runs bound these results: an accessor that reloads its script returns into a
destroyed runtime; a static initializer that creates an instance defeats the check of
`reload(false)`; a function that assigns a static after it reloaded its own script writes the old program,
as does a handler that sets one through the resource before the reload is over.
With member initializers that touch the resource (`Hooks = {"members"}`, no run of its own)
`DispatchSettled` and, with two instances, `IndicesFit` fail after a rollback; the hazards say so.

**What the calls runs show.** `OwnMessage`: however calls nest, a caller reads the message of the failure
that ended its call, as long as no script runs between the failure and its report. Two things can
run it: a debugger that stops in `gj_fail` and evaluates a getter of the same runtime, and a destructor on the
failed function's way out; either clears or replaces the string before the caller reads it. With
them the property says what is left: the caller reads that message, none, or one raised since, never
an older one that the failure had to replace. The repository promises no more for that case.
`NoGhostMessage`: a call rejected before it ran reports nothing.
`calls_null_success` shows a
function that ignores a nested failure and has its own value replaced by null with status OK.

**What the `native` run shows.** `Owned`, `ResultIsRight`: whatever slots an operation is given, it
computes from what its operands held before it, and every array's count is what refers to it.
`NothingLeft`: no failing or interrupted step of a compilation leaves a file, a process, a TinyCC state
or a library. `OneCompiler`, `CompileReturns`: threads never meet in TinyCC and never wait for
each other or themselves for good. `PerfMapIsOurs`: the map has the modules of this process, all and
only. `CancelledWhenReplaced`, `RunsAlive`: however calls of a `GodotJIT` object nest, a replaced
runtime has its coroutines cancelled once and stays until what it runs has returned. `NewIsOwn`:
`new()` gives its object its own arguments, reports what became of it, and frees it just when that
failed. With `Listeners = TRUE` it does not: a listener of `script_changed` that gives the script to
an object overwrites the error that the outer `new()` is about to read. Nothing in the repository says
otherwise, so there is no run for it; the hazards list it.

**What the `tools` run shows.** `InheritanceIsRight`: the chain handed to the compiler is exactly
the script's ancestors, and each refusal has its cause. `DefaultIsNearest`: an initializer that
cannot be told hides the default of a farther base. `ReceiversExact`: `uses_self` is the least
closed set. `StopsWhereAsked`: stepping into, over and out stops at the first line the command
means, and nowhere else without a breakpoint, through failures, other languages, evaluation and nested
stops. `StackIsTrue`: the frames shown are the functions that run, and a blocked debugger shows the
stack it stopped at. `CachesAreRight`: colours on screen and cached regions are those of a scan
from the top, for the lines above the first edit since the caches were cleared and for those
drawn again in order from the edit on. For other lines it fails, as the highlighter is not told of
edits; the repository's test clears the cache after its edit.

### Bounds

- Coroutines: two coroutines, one runtime and one signal besides their own (two runtimes in the
  second run), `Fuel` operations per script activation, `MaxDepth` activations below one that starts
  another. Every race is between the coroutine being worked on and one other, or between one
  operation and the script it runs, which two coroutines and three nested activations show.
- Reload: two instances (one being moved, one not yet or already moved) and two builds; one
  instance and three builds for a reload within a reload. Eight addresses are more than are ever owned
  at once. `MCReload` gives TLC a view that ignores what no later step reads: the contents of free
  addresses and of snapshots past the migration loop.
- Calls: two runtimes, three activations and failures, four frames below one that calls, one default
  argument. A confusion of messages needs a caller, a nested failure and a failure after it: three
  activations.
- The parts of `native` and of `tools` share no state. `MCNative` and `MCTools` extend their modules
  (whose names of one kind carry the module's: `CModuleInit`, `CModuleSpec`) and run one part at a
  time (`part`), the others resting in one initial state: their product would say nothing more, and
  each is explored completely. The properties of a part are checked while it runs.
- Slots: two slots, two arrays of up to two elements. An aliasing is between a destination and an
  operand; an array within the other one frees a chain.
- C modules: two threads, three compilations, one death of the process: two modules of one
  process, and a third before or after the other's end.
- `GodotJIT`: four runtimes, four calls inside each other: a call, a replacement in it, the
  cancellation that replaces again, and one more.
- Construction: four objects, three inside each other: one between an outer and an inner one.
- Compilation: three files with four paths and a limit of three scripts, so chains below, at and beyond
  the limit and cycles of every length exist; three functions with two uses each, enough for a chain
  against the order of the loop, which needs three passes.
- Debugger: three instructions on two lines, three functions on the stack.
- Highlighter: seven line texts that open, close, hide and escape delimiters, three lines, two edits.

Deadlock checking is off: the bounds let every run stop, and so does the code: compilation ends,
scripts return.

### Fairness

`Coroutines` and `CModule` have liveness. In `Coroutines`, `WF_vars(Continue)` says that the engine's thread goes on: an
activation on the stack is continued, its emission calls the next slot, script ends (its `Fuel` is
finite). Nothing is assumed of the environment: signals need never be emitted.

In `CModule`, `WF_vars(Step(t))` says that the scheduler runs each thread that can take a step, which
includes one that waits for a mutex nobody holds, and `WF_vars(ChildEnds(t))` that the system
compiler ends, as `waitpid` has no timeout. `CompileReturns` rests on contention being finite
(`MaxCompiles`): the code's mutex makes no promise of order, so that with endless compilations
elsewhere one thread may wait for ever.

## Proofs

Every theorem holds for every value of the constants (any number of coroutines, runtimes, signals,
instances, threads, objects, slots, arrays; any depth, fuel and number of builds) that meets the module's
assumptions, `CModuleParameters` and the like or the named `ASSUME`s, which the runs evaluate. The invariants below were checked as
invariants of runs before they were proved. What pushing, popping, cutting and overwriting do to a stack is
taken from the library's `SequenceTheorems`, what adding to a finite set does to its size from
`FiniteSetTheorems`. Induction over numbers and the existence of what is computed by iterating
(`Induction`, `Iterates`) are lemmas of `Iteration`. The proof of a step has one lemma per action, or per group of actions that do the
same to what the invariant speaks of.

| Module | Theorem | States | Assumes of the environment |
|---|---|---|---|
| `CoroutinesProofs` | `TypeCorrect` | `[]TypeOK` | - |
| | `NoWakeupLost`, `NoStaleCall`, `ResumedByOne` | `[]NoLostWakeup`, `[]NoStaleResume`, `[]OneActivation` | - |
| | `CancellationHolds`, `EveryOneFound` | `[]CancellationSealed`, `[]Reachable` | - |
| | `CompletesOnce`, `LeavesNothing` | `[]CompletedOnce`, `[]NothingLeftBehind` | `~DropHooks` |
| | `OutcomeStays`, `PromiseKept` | `OutcomeFinal`, `Implements` | `~DropHooks` |
| `ReloadProofs` | `TypeCorrect` | `[]TypeOK` | - |
| | `StaticsKept` | `[]StaticsSurvive` | `"retired" \notin Hooks` |
| | `IndicesStayFit`, `DispatchFollows` | `[]IndicesFit`, `[]DispatchSettled` | `"members" \notin Hooks` |
| | `MembersKept` | `[]MembersSurvive` | `"static"`, `"members" \notin Hooks` |
| `CallsProofs` | `TypeCorrect`, `RejectionIsClean` | `[]TypeOK`, `[]NoGhostMessage` | - |
| | `FailureIsOwn` | `[]OwnMessage` | - |
| `SlotsProofs` | `SlotsTypeCorrect` | `[]SlotsTypeOK` | - |
| | `CountsExact`, `ResultsRight` | `[]Owned`, `[]ResultIsRight` | - |
| `NativeProofs` | `CancelledExactlyOnce`, `RunsStayAlive` | `[]CancelledWhenReplaced`, `[]RunsAlive` | - |
| | `ModuleTypeCorrect`, `OneCompilerAtATime` | `[]CModuleTypeOK`, `[]OneCompiler` | - |
| | `NothingIsLeft`, `MapIsOurs` | `[]NothingLeft`, `[]PerfMapIsOurs` | - |
| | `ConstructionTypeCorrect` | `[]ConstructionTypeOK` | - |
| | `EachItsOwn` | `[]NewIsOwn` | `~Listeners` |
| | `PartsKept`, `NativeTypeCorrect` | the parts' specifications, `[]EveryTypeOK` | - |
| `DebuggerProofs` | `DebuggerTypeCorrect` | `[]DebuggerTypeOK` | - |
| | `StepsStopWhereAsked`, `StackShownIsTrue` | `[]StopsWhereAsked`, `[]StackIsTrue` | - |
| `ToolsProofs` | `CompilationTypeCorrect`, `CompiledAgainstAncestors` | `[]CompilationTypeOK`, `[]InheritanceIsRight` | - |
| | `NearestDefault`, `ReceiversLeast` | `[]DefaultIsNearest`, `[]ReceiversExact` | - |
| | `CachesStayRight`, `HighlighterTypeCorrect` | `[]CachesAreRight`, `[]HighlighterTypeOK` | - |
| | `PartsKept`, `ToolsTypeCorrect` | the parts' specifications, `[]EveryTypeOK` | - |

The assumptions of the last column are the boundary of what the code keeps, not conveniences: without
each of them the model checker refutes the property, and the runs and hazards above say how. The state
spaces that satisfy them are those of the passing runs.

### The invariants

**Coroutines.** Handlers run in the middle of everything, so what is proved of a coroutine has to
mention every activation that holds it. `View` gives an activation's place on the stack the few
fields the properties tell apart, and the places above the stack are blank; a step then changes the
view of one or two places, and the rest of an invariant carries over place by place. `WakeInv`: a
suspended coroutine whose signal still exists is connected to the signal it awaits, or is among the
copied slots of exactly one emission of it (`DueOnce`, `DueWaits`), and `running` is set just while
one place resumes it. `NoLostWakeup` alone is not inductive: it does not say that two emissions
never hold the same coroutine. `ListInv`: a runtime is marked just while a cancellation of it is on
the stack, each nested one restores the mark for those below it (`MarkRestored`), and every live
coroutine is in its list or with one of them.

**How a coroutine ends.** `CompletedOnce` says nothing of who may still emit. `OnceInv` adds it: an
activation that has yet to announce a coroutine owns it alone (no other activation claims it, no
list holds it and no resumption will take it up again), and what it claims has not been announced.
Each action moves a coroutine from the list to one claim, or announces a claim and gives it up.
`RestInv` says that no script runs above a body inside `suspend` or a detach loop with coroutines
left; with it a step's effect on each coroutine is one of four (`Lived`: keeps its state, is
retired, lives on, or returns to its resumer), from which `NothingLeftBehind` and `OutcomeFinal`
follow. `PromiseKept` shows that each step either moves one coroutine along one arrow of
`Completion` (`Started`, `Completed`, `Abandoned`) or moves none.

**Reload.** `TypeInv` adds to the types that initializers lie right above the activation that
started them (`Grounded`) and that whoever an accessor, initializer or constructor works for is
still there. `PhaseInv`, for member initializers that leave the resource alone, says where a reload
may be: no instance is being made or moved (`Settled`: all fit, and dispatch lags only while some
reload has published); one is being made (`Creating`); `_reload` is between two instances
(`Moving`); or the initializers of the one it moves run (`Starting`). `ClearInv`, for static
initializers that do so too: the only reload not yet published is on top, or right below its
initializers. `ValueInv`: when settled every instance has its members; in a migration the old
runtimes and the snapshot have all of them, which is what a rollback needs, and the new runtimes
have those of the instances moved. `StaticsInv`: every reload on the stack has laid a program
aside, its candidate until it publishes and the replaced one after that (`Aside`). These programs
differ from one another and from the resource's, so that whoever assigns a static of the resource's
program or of a candidate leaves the replaced ones alone, and each replaced one still has the
value that was wanted when it was (`Intact`), which is what a rollback brings back.

**Calls.** `CallsInv`: a function that `call` entered, and a default-argument function, lie right on
the frame that waits for them (`Entered`). Failures are numbered in order, so that the string of a
failed function's runtime, whoever cleared or replaced it since, is empty or has a number not below its
own (`Recent`). Unless `disturbed`, nothing runs above a function that has failed, so that the string
is still its own when it returns (`StillOwn`).

**Construction.** `pending_error` and `pending_args` always belong to the topmost `new()` of the
stack, and each `new()` keeps what belonged to the next one below (`LastNew`). `OwnInv`: a `new()`
has its own `set_script` right above it and nobody else works on its object; what happened to that
object is in its result by the time listeners are told, whatever nested calls wrote there before.

**GodotJIT.** `JITInv`: a call owns what it runs, which is more than being alive and can be checked
for each step alone; and a candidate whose initializers run was never installed and is nobody
else's, so that installing it cannot bring back a runtime already cancelled.

**Slots.** `Owned` says nothing of the middle of an operation, where a reference is in neither a slot nor
an array. `Sound` takes the slots apart from the memory and adds what the operation itself owes:
an array's count is the slots and elements that refer to it and the references owed. Each piece of an
operation then moves references between the three: retaining takes one from nowhere, clearing a slot
owes its reference, storing settles one, building an array owes its elements. Releasing destroys
one array at a time (`OneReleased`): its elements become owed in its place. `Weight`, what is left to
release and all elements of all arrays, goes down by one each time, so that the recursion ends
(`ReleaseRight`) however arrays refer to one another, cycles included. `ResultIsRight` needs that what
an operation has read stays as it was while its destination is cleared: an array with a reference left
keeps its elements (`Survives`).

**C modules.** `LockInv`: a thread that is where the mutex is held holds it. `ThreadInv` gives for
each place of `compile` what the thread has by then and what its child process may be doing
(`Fitting`), so that unwinding from any of them leaves nothing. `MapInv`: once this process has
begun the file, its lines are the process's own and as many as it appended.

**Debugger.** The hook never compares heights: it counts a depth up and down and stops at lines where
it is not positive. `StepInv` says what that number means. While a step over or out is under way it
is the height above the outermost function to stop in (`Counts`); once that function has returned too
it stays at -1 whatever is entered (`Waits`), and what has to hold is that no line comes before the one
to stop at: a function entered at that height has reached no line yet, so whatever it reaches first
counts, and a caller calls again only after a line of its own. `BegunInv` keeps that. `StopInv`: the
stops in progress are at growing heights, each below what runs, so that the frames they show are those
that no later step touches; `FrameInv` says how many those are.

**Compilation and highlighter.** These iterate over data, and what they have to compute is a recursion
of its own: the chain of ancestors, the passes over the bodies, the regions from the top of the
document, the symbols of a line. `Induction` is taken from the numbers being well-founded; `Iterates`,
`OpenFollows` and `ScanExists` say that these recursions have values. `WalkInv`: the bases found so far are the first links of the
chain, each a path seen on the way; a path met again repeats the chain from there on
(`ChainRepeats`), so that a chain of at most `Limit` scripts never meets one twice. `DefaultInv`: nothing
is collected while the walk is under way. `ReceiverInv`: the functions marked so far are in every closed
set, and a pass that marked nothing left the marks closed; `PassMarks` follows one pass through the functions
in order, `TurnMarks` one turn of it. `CachesAreRight` is inductive once `Shape` adds the types: `Agree`
says that two scans of the same lines from the same region agree, so that resuming at the nearest known
line (`ResumesRight`, `AboveRight`) gives what scanning from the top gives, and an edit leaves what is above it
(`EditsBelow`). Nothing is used of what `Scan` makes of a line: the theorem holds of any scanner that
sees the line, the region open before it and the script's members. What is used of it for the types
is that it goes on: `TokenEnds` (every token ends behind where it began and within the line),
`EndStands` (so does the search for an end delimiter, escapes included) and `DelimiterStands` (so does an opening
one) give `ScanGoesOn`: at a column the scan ends, or says what it says from a later column on.

**Together.** `PartsKept` says of `MCNative` and of `MCTools` that their steps are steps of one part and
leave the others alone, so that each part's theorems hold of what the run explores.

### Only model-checked

`ClaimsHonoured` and `CompileReturns`, being liveness under fairness. That the recursion
`ConstantValue` computes the right value of every initializer's tree is not proved (it is induction over data):
`DefaultIsNearest` has it as a term, and `tools` evaluates it on the trees of `Initializers`.

## Plan

Done: `Coroutines` and `Completion`, `Reload`, `Calls`; `Construction`, `Slots`, `CModule`,
`GodotJIT` in `native`; `Compilation`, `Debugger`, `Highlighter` in `tools`; the theorems above. Left, in this
order:

1. `Reload` with accessors in the snapshot and instances that come and go in the migration loop.
2. The script registry, which needs the engine's reference counting modelled.

## Not modelled

The compiler, the C generator, godot-cpp, TinyCC and the engine are not in the tree; the modules
take from them what `src/` relies on (copied slots, one-shot connections, reference counts, the
debugger's and the highlighter's engine sides). Reflection, editor integration, loaders and savers
and `script_instance.cpp` are I/O or pure forwarding. Of the ABI, operators on other types,
dictionaries, properties and calls into the engine are not modelled: they hand their operands to
the engine and publish its result the way the modelled ones do. `PROJECT.json` lists each component
with its reason.
