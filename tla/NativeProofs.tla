---------------------------- MODULE NativeProofs ----------------------------
(***************************************************************************)
(* Proofs about what compiled code stands on, for any number of runtimes,   *)
(* threads, compilations and objects.                                       *)
(*                                                                          *)
(* The GodotJIT object: the runtime that a call runs is kept, and the       *)
(* coroutines of every replaced runtime are cancelled exactly once.         *)
(*                                                                          *)
(* The C module: compiler_mutex keeps threads apart, a compilation leaves   *)
(* nothing behind and the perf map is this process's.                       *)
(*                                                                          *)
(* The construction of objects: new() and new() inside new() do not take    *)
(* each other's arguments and errors.                                       *)
(*                                                                          *)
(* At the end, what the runs check: the parts together.                     *)
(***************************************************************************)
EXTENDS MCNative, SlotsProofs

-----------------------------------------------------------------------------
(* The GodotJIT object.                                                      *)

Call == [kind : {"initializing", "executing", "cancelling"},
         runs : Runtimes, owns : Runtimes \cup {None}]

-----------------------------------------------------------------------------
(* The inductive invariant: a call owns what it runs; a candidate whose      *)
(* initializers run was never installed, and is no other call's candidate;   *)
(* what is installed was made.                                               *)

OwnsWhatItRuns == \A k \in DOMAIN stack : stack[k].owns = stack[k].runs

Candidates ==
  \A j \in DOMAIN stack : stack[j].kind = "initializing" =>
    /\ stack[j].runs \in (1..made) \ installed
    /\ \A k \in DOMAIN stack :
         stack[k].kind = "initializing" /\ stack[k].runs = stack[j].runs => k = j

Installed == installed \subseteq 1..made /\ native \in installed \cup {None}

JITInv ==
  /\ GodotJITTypeOK /\ OwnsWhatItRuns /\ Candidates /\ Installed /\ CancelledWhenReplaced

\* The innermost call and those below it.
LEMMA TopCall ==
  ASSUME stack \in Seq(Call), stack # <<>>
  PROVE  /\ Below \in Seq(Call) /\ Top \in Call /\ Len(stack) \in Nat \ {0}
         /\ DOMAIN stack = 1..Len(stack) /\ DOMAIN Below = 1..(Len(stack) - 1)
         /\ \A k \in DOMAIN Below : Below[k] = stack[k]
         /\ Top = stack[Len(stack)]
<1>1. /\ Len(stack) \in Nat \ {0} /\ \A k \in 1..(Len(stack) - 1) : stack[k] \in Call
      /\ stack[Len(stack)] \in Call
  OBVIOUS
<1> QED BY <1>1, SubSeqProperties DEF Top, Below

\* What replacing the runtime in place does, whatever the calls in progress.
LEMMA Replacing ==
  ASSUME GodotJITParameters, JITInv, NEW frames \in Seq(Call), NEW new \in Runtimes \cup {None}, NEW b \in BOOLEAN,
         new # None => new \notin installed /\ new \in 1..made,
         \A k \in DOMAIN frames : k \in DOMAIN stack /\ frames[k] = stack[k],
         \A k \in DOMAIN frames : frames[k].kind = "initializing" => frames[k].runs # new,
         Replaced(frames, new, b), UNCHANGED made, error' \in BOOLEAN
  PROVE  JITInv'
<1> USE DEF JITInv
<1>1. native \in Runtimes \cup {None} /\ made \in Nat /\ None \notin Runtimes
  BY DEF GodotJITTypeOK, Runtimes, None, GodotJITParameters
<1>2. CASE native = None
  <2>1. stack' = frames /\ cancelled' = cancelled
    BY <1>2 DEF Replaced
  <2>2. GodotJITTypeOK'
    BY <2>1, <1>1 DEF GodotJITTypeOK, Replaced, Call
  <2>3. OwnsWhatItRuns'
    BY <2>1 DEF OwnsWhatItRuns
  <2>4. Candidates' /\ Installed'
    BY <2>1, <1>1 DEF Candidates, Installed, Replaced, GodotJITTypeOK
  <2>5. CancelledWhenReplaced'
    BY <2>1, <1>1, <1>2 DEF CancelledWhenReplaced, Replaced, GodotJITTypeOK
  <2> QED BY <2>2, <2>3, <2>4, <2>5
<1>3. CASE native # None
  <2> DEFINE f == Frame("cancelling", native, native)
  <2>1. f \in Call /\ f.kind = "cancelling" /\ f.owns = f.runs
    BY <1>1, <1>3 DEF Call, Frame
  <2> HIDE DEF f
  <2>2. /\ stack' = Append(frames, f)
        /\ cancelled' = [cancelled EXCEPT ![native] = @ + 1]
    BY <1>3 DEF Replaced, f
  <2>3. /\ stack' \in Seq(Call)
        /\ DOMAIN stack' = 1..(Len(frames) + 1) /\ DOMAIN frames = 1..Len(frames) /\ Len(frames) \in Nat
        /\ \A k \in 1..Len(frames) : stack'[k] = frames[k]
        /\ stack'[Len(frames) + 1] = f
    BY <2>1, <2>2, AppendProperties
  <2>4. GodotJITTypeOK'
    <3>1. cancelled' \in [Runtimes -> Nat]
      BY <2>2, <1>1, <1>3 DEF GodotJITTypeOK
    <3>2. /\ module' \in BOOLEAN /\ native' \in Runtimes \cup {None} /\ installed' \subseteq Runtimes
          /\ made' \in 0..MaxRuntimes /\ error' \in BOOLEAN
      BY DEF GodotJITTypeOK, Replaced
    <3> QED BY <3>1, <3>2, <2>3 DEF GodotJITTypeOK, Call
  <2>5. OwnsWhatItRuns'
    BY <2>1, <2>3 DEF OwnsWhatItRuns
  <2>6. Candidates' /\ Installed'
    <3>1. \A k \in DOMAIN stack' : stack'[k].kind = "initializing" =>
            k \in DOMAIN frames /\ stack'[k] = frames[k]
      BY <2>1, <2>3
    <3>2. /\ made' = made
          /\ installed' = IF new = None THEN installed ELSE installed \cup {new}
          /\ native' = new
      BY DEF Replaced
    <3>3. Candidates'
      BY <3>1, <3>2 DEF Candidates
    <3> QED BY <3>2, <3>3, <1>1 DEF Installed
  <2>7. CancelledWhenReplaced'
    BY <2>2, <1>1, <1>3 DEF CancelledWhenReplaced, Replaced, GodotJITTypeOK, Installed
  <2> QED BY <2>4, <2>5, <2>6, <2>7
<1> QED BY <1>2, <1>3

\* A call returns and nothing is replaced.
LEMMA Returning ==
  ASSUME GodotJITParameters, JITInv, stack # <<>>, stack' = Below, Unreplaced, UNCHANGED made, error' \in BOOLEAN
  PROVE  JITInv'
<1>1. stack \in Seq(Call)
  BY DEF JITInv, GodotJITTypeOK, Call
<1>2. GodotJITTypeOK'
  BY <1>1, TopCall DEF JITInv, GodotJITTypeOK, Unreplaced, Call
<1>3. OwnsWhatItRuns' /\ Candidates'
  BY <1>1, TopCall DEF JITInv, OwnsWhatItRuns, Candidates, Unreplaced
<1> QED BY <1>2, <1>3 DEF JITInv, Installed, CancelledWhenReplaced, Unreplaced

\* A call starts that owns what it runs: the runtime in place, or a new candidate.
LEMMA Calling ==
  ASSUME GodotJITParameters, JITInv, NEW f \in Call, f.owns = f.runs, stack' = Append(stack, f),
         made' \in made..MaxRuntimes, Unreplaced, error' \in BOOLEAN,
         f.kind = "initializing" => f.runs = made' /\ made' = made + 1
  PROVE  JITInv'
<1>1. stack \in Seq(Call) /\ made \in Nat /\ made' \in Nat
  BY DEF JITInv, GodotJITTypeOK, Call, GodotJITParameters
<1>2. /\ stack' \in Seq(Call)
      /\ DOMAIN stack' = 1..(Len(stack) + 1) /\ DOMAIN stack = 1..Len(stack) /\ Len(stack) \in Nat
      /\ \A k \in 1..Len(stack) : stack'[k] = stack[k]
      /\ stack'[Len(stack) + 1] = f
  BY <1>1, AppendProperties
<1>3. GodotJITTypeOK'
  BY <1>1, <1>2 DEF JITInv, GodotJITTypeOK, Unreplaced, Call, GodotJITParameters
<1>4. OwnsWhatItRuns'
  BY <1>2 DEF JITInv, OwnsWhatItRuns
<1>5. Installed'
  BY <1>1 DEF JITInv, Installed, Unreplaced
<1>6. Candidates'
  <2>1. installed' = installed /\ installed \subseteq 1..made
    BY DEF JITInv, Unreplaced, Installed
  <2>2. ASSUME NEW j \in DOMAIN stack', stack'[j].kind = "initializing"
        PROVE  /\ stack'[j].runs \in (1..made') \ installed'
               /\ \A k \in DOMAIN stack' :
                    stack'[k].kind = "initializing" /\ stack'[k].runs = stack'[j].runs => k = j
    <3>1. \A k \in 1..Len(stack) : stack[k].kind = "initializing" => stack[k].runs \in (1..made) \ installed
      BY <1>2 DEF JITInv, Candidates
    <3>2. CASE j \in 1..Len(stack)
      BY <1>1, <1>2, <2>1, <2>2, <3>1, <3>2 DEF JITInv, Candidates
    <3>3. CASE j = Len(stack) + 1
      BY <1>1, <1>2, <2>1, <2>2, <3>1, <3>3
    <3> QED BY <1>2, <3>2, <3>3
  <2> QED BY <2>2 DEF Candidates
<1> QED BY <1>3, <1>4, <1>5, <1>6 DEF JITInv, CancelledWhenReplaced, Unreplaced

-----------------------------------------------------------------------------
\* The invariant holds when the object is made.
LEMMA JITInit == ASSUME GodotJITParameters, GodotJITInit PROVE JITInv
<1>1. stack \in Seq(Call) /\ DOMAIN stack = {}
  BY DEF GodotJITInit
<1>2. cancelled \in [Runtimes -> Nat]
  BY DEF GodotJITInit
<1>3. made \in 0..MaxRuntimes /\ installed \subseteq Runtimes
  BY DEF GodotJITInit, GodotJITParameters
<1>4. GodotJITTypeOK
  BY <1>1, <1>2, <1>3 DEF GodotJITInit, GodotJITTypeOK, Call
<1> QED
  BY <1>1, <1>4 DEF GodotJITInit, JITInv, OwnsWhatItRuns, Candidates, Installed, CancelledWhenReplaced

\* Every step keeps it.
LEMMA JITStep == ASSUME GodotJITParameters, JITInv, [GodotJITNext]_objectVars PROVE JITInv'
<1>1. /\ stack \in Seq(Call) /\ made \in Nat /\ error \in BOOLEAN /\ native \in Runtimes \cup {None}
      /\ None \notin Runtimes
  BY DEF JITInv, GodotJITTypeOK, Call, None, Runtimes, GodotJITParameters
<1>a. \A k \in DOMAIN stack : stack[k].runs # None
  <2>1. \A k \in DOMAIN stack : stack[k] \in Call
    BY <1>1
  <2> QED BY <1>1, <2>1 DEF Call
<1>2. CASE CompileC
  BY <1>1, <1>a, <1>2, Replacing DEF CompileC
<1>3. CASE Clear
  BY <1>1, <1>a, <1>3, Replacing DEF Clear
<1>4. CASE CompileFails
  BY <1>4 DEF CompileFails, Unreplaced, JITInv, GodotJITTypeOK, OwnsWhatItRuns, Candidates, Installed,
              CancelledWhenReplaced
<1>5. CASE CompileSgd
  <2>1. Frame("initializing", made + 1, made + 1) \in Call
    BY <1>1, <1>5 DEF CompileSgd, Call, Frame, Runtimes, GodotJITParameters
  <2>2. made' = made + 1 /\ made' \in made..MaxRuntimes /\ error' \in BOOLEAN
    <3>1. made < MaxRuntimes /\ made' = made + 1 /\ error' = FALSE
      BY <1>5 DEF CompileSgd
    <3>2. error' \in BOOLEAN
      BY <3>1
    <3>3. made' \in made..MaxRuntimes
      <4>1. MaxRuntimes \in Nat /\ made \in Nat
        BY <1>1 DEF GodotJITParameters
      <4> QED BY <3>1, <4>1
    <3> QED BY <3>1, <3>2, <3>3
  <2>3. /\ Frame("initializing", made + 1, made + 1).runs = made + 1
        /\ Frame("initializing", made + 1, made + 1).owns = made + 1
    BY DEF Frame
  <2> QED BY <1>5, <2>1, <2>2, <2>3, Calling DEF CompileSgd
<1>6. CASE Initialized
  <2>1. stack # <<>> /\ Top.kind = "initializing"
    BY <1>6 DEF Initialized, On
  <2>2. /\ Below \in Seq(Call) /\ Top \in Call /\ Top.runs \in Runtimes
        /\ \A k \in DOMAIN Below : k \in DOMAIN stack /\ Below[k] = stack[k] /\ k # Len(stack)
        /\ Len(stack) \in DOMAIN stack /\ Top = stack[Len(stack)]
    BY <1>1, <2>1, TopCall DEF Call
  <2>3. Top.runs \in (1..made) \ installed
    BY <2>1, <2>2 DEF JITInv, Candidates
  <2>4. \A k \in DOMAIN Below : Below[k].kind = "initializing" => Below[k].runs # Top.runs
    BY <2>1, <2>2 DEF JITInv, Candidates
  <2> QED BY <1>1, <1>6, <2>2, <2>3, <2>4, Replacing DEF Initialized
<1>7. CASE InitializerFails
  BY <1>7, Returning DEF InitializerFails, On
<1>8. CASE Execute
  <2>1. Executing(native) \in Call /\ Executing(native).owns = Executing(native).runs
    BY <1>1, <1>8 DEF Execute, Executing, Call, Frame
  <2>2. Executing(native).kind # "initializing"
    BY DEF Executing, Frame
  <2>3. made' \in made..MaxRuntimes
    BY <1>1, <1>8 DEF Execute, JITInv, GodotJITTypeOK, GodotJITParameters
  <2> QED BY <1>8, <2>1, <2>2, <2>3, Calling DEF Execute
<1>9. CASE ExecuteNothing
  BY <1>9 DEF ExecuteNothing, Unreplaced, JITInv, GodotJITTypeOK, OwnsWhatItRuns, Candidates, Installed,
              CancelledWhenReplaced
<1>10. CASE Executed
  BY <1>1, <1>10, Returning DEF Executed, On
<1>11. CASE CancelEnds
  BY <1>1, <1>11, Returning DEF CancelEnds, On
<1>12. CASE UNCHANGED objectVars
  BY <1>12 DEF objectVars, JITInv, GodotJITTypeOK, OwnsWhatItRuns, Candidates, Installed, CancelledWhenReplaced
<1> QED
  BY <1>2, <1>3, <1>4, <1>5, <1>6, <1>7, <1>8, <1>9, <1>10, <1>11, <1>12 DEF GodotJITNext

-----------------------------------------------------------------------------
\* However calls of a GodotJIT object nest, each runtime's coroutines are cancelled once when it
\* is replaced (GodotJIT::clear, compile_c, compile_sgd), and never while it is in place.
THEOREM CancelledExactlyOnce == ASSUME GodotJITParameters PROVE GodotJITSpec => []CancelledWhenReplaced
<1>1. GodotJITInit => JITInv BY JITInit
<1>2. JITInv /\ [GodotJITNext]_objectVars => JITInv' BY JITStep
<1>3. JITInv => CancelledWhenReplaced BY DEF JITInv
<1> QED BY <1>1, <1>2, <1>3, PTL DEF GodotJITSpec

\* The runtime whose script runs exists until the call returns (the shared_ptr active of
\* execute_function, and those that compile_sgd and clear keep), whatever script replaces.
THEOREM RunsStayAlive == ASSUME GodotJITParameters PROVE GodotJITSpec => []RunsAlive
<1>1. GodotJITInit => JITInv BY JITInit
<1>2. JITInv /\ [GodotJITNext]_objectVars => JITInv' BY JITStep
<1>3. JITInv => RunsAlive BY DEF JITInv, OwnsWhatItRuns, RunsAlive
<1> QED BY <1>1, <1>2, <1>3, PTL DEF GodotJITSpec

-----------------------------------------------------------------------------
(* The C module.                                                             *)

ThreadPlaces == {"idle", "lock"} \cup Compiling \cup Using

\* Where a thread holds the mutex.
Locked == Compiling \cup {"looking", "naming", "open", "append", "close", "destroy"}

\* The inductive invariant: a thread that is where the mutex is held holds it.
LockInv ==
  /\ pc \in [Threads -> ThreadPlaces]
  /\ \A t \in Threads : pc[t] \in Locked => holder = t

-----------------------------------------------------------------------------
(* The steps of a thread, by what they do with the mutex.                    *)

\* A thread goes on with the mutex, or without it to where it is not needed.
LEMMA Continues ==
  ASSUME LockInv, NEW t \in Threads, NEW place \in ThreadPlaces, Goto(t, place), holder' = holder,
         pc[t] \in Locked \/ place \notin Locked
  PROVE  LockInv'
BY DEF LockInv, Goto

\* A thread takes the mutex, which nobody holds.
LEMMA Takes ==
  ASSUME CModuleParameters, LockInv, NEW t \in Threads, NEW place \in ThreadPlaces, Lock(t, place)
  PROVE  LockInv'
<1>1. \A u \in Threads : pc[u] \notin Locked
  BY DEF LockInv, Lock, CModuleParameters
<1> QED BY <1>1 DEF LockInv, Lock, Goto

\* A thread that holds the mutex gives it back.
LEMMA Gives ==
  ASSUME LockInv, NEW t \in Threads, NEW place \in ThreadPlaces, Unlock(t, place),
         pc[t] \in Locked, place \notin Locked
  PROVE  LockInv'
<1>1. \A u \in Threads : u # t => pc[u] \notin Locked
  BY DEF LockInv
<1> QED BY <1>1 DEF LockInv, Unlock, Goto

\* A thread stays where it is.
LEMMA Rests ==
  ASSUME LockInv, pc' = pc, holder' = holder
  PROVE  LockInv'
BY DEF LockInv

\* The calls of a compilation, in a row under the mutex.
LEMMA Tries ==
  ASSUME LockInv, NEW t \in Threads, NEW at \in Compiling, NEW next \in Compiling, NEW things,
         Try(t, at, next, things)
  PROVE  LockInv'
<1>1. pc[t] \in Locked /\ holder' = holder /\ (Goto(t, next) \/ Goto(t, "unwind"))
  BY DEF Try, Locked
<1>2. next \in ThreadPlaces /\ "unwind" \in ThreadPlaces
  BY DEF ThreadPlaces, Compiling
<1> QED BY <1>1, <1>2, Continues

-----------------------------------------------------------------------------
\* Every step of a thread keeps the invariant.
LEMMA ThreadSteps ==
  ASSUME CModuleParameters, LockInv, NEW t \in Threads, Step(t)
  PROVE  LockInv'
<1> USE DEF ThreadPlaces, Locked, Compiling, Using
<1>1. CASE Enter(t)
  BY <1>1, Takes DEF Enter
<1>2. CASE Begin(t)
  <2>1. PICK place \in {"unwind", "create", "mkdtemp"} : Goto(t, place)
    BY <1>2 DEF Begin
  <2> QED BY <1>2, <2>1, Continues DEF Begin
<1>3. CASE CreateState(t) \/ Translate(t) \/ Relocate(t) \/ MakeDirectory(t) \/ Load(t)
  BY <1>3, Tries DEF CreateState, Translate, Relocate, MakeDirectory, Load
<1>4. CASE FindEntry(t) \/ NoEntry(t) \/ Resolve(t) \/ Unwind(t)
  BY <1>4, Continues DEF FindEntry, NoEntry, Resolve, Unwind
<1>5. CASE WriteUnit(t)
  <2>1. PICK place \in {"fork", "unwind"} : Goto(t, place)
    BY <1>5 DEF WriteUnit
  <2> QED BY <1>5, <2>1, Continues DEF WriteUnit
<1>6. CASE Fork(t) \/ Wait(t)
  BY <1>6, Continues DEF Fork, Wait
<1>7. CASE Return(t)
  <2>1. PICK place \in {"idle", "symbols", "kept"} : Unlock(t, place)
    BY <1>7 DEF Return
  <2> QED BY <1>7, <2>1, Gives DEF Return
<1>8. CASE Lookup(t)
  <2>1. PICK place \in {"looking", "naming"} : Lock(t, place)
    BY <1>8 DEF Lookup
  <2> QED BY <2>1, Takes
<1>9. CASE Found(t)
  <2>1. PICK place \in {"publish", "named"} : Unlock(t, place)
    BY <1>9 DEF Found
  <2> QED BY <1>9, <2>1, Gives DEF Found
<1>10. CASE Named(t)
  <2>1. PICK place \in {"kept", "dropped"} : Goto(t, place)
    BY <1>10 DEF Named
  <2> QED BY <1>10, <2>1, Continues DEF Named
<1>11. CASE NoMap(t)
  BY <1>11, Continues DEF NoMap
<1>12. CASE PerfMap(t) \/ Destroy(t)
  BY <1>12, Takes DEF PerfMap, Destroy
<1>13. CASE OpenMap(t) \/ AppendMap(t)
  BY <1>13, Continues DEF OpenMap, AppendMap
<1>14. CASE CloseMap(t) \/ Destroyed(t)
  BY <1>14, Gives DEF CloseMap, Destroyed
<1> QED
  BY <1>1, <1>2, <1>3, <1>4, <1>5, <1>6, <1>7, <1>8, <1>9, <1>10, <1>11, <1>12, <1>13, <1>14
  DEF Step

\* And every other step.
LEMMA LockStep ==
  ASSUME CModuleParameters, LockInv, [CModuleNext]_moduleVars
  PROVE  LockInv'
<1>1. ASSUME NEW t \in Threads, Step(t) PROVE LockInv'
  BY <1>1, ThreadSteps
<1>2. ASSUME NEW t \in Threads, Compile(t) PROVE LockInv'
  <2>1. Goto(t, "lock") /\ holder' = holder
    BY <1>2 DEF Compile
  <2> QED BY <2>1, Continues DEF ThreadPlaces, Locked, Compiling
<1>3. ASSUME NEW t \in Threads, Interrupted(t) PROVE LockInv'
  <2>1. Goto(t, "wait") /\ holder' = holder /\ pc[t] = "wait"
    BY <1>3 DEF Interrupted
  <2> QED BY <2>1, Continues DEF ThreadPlaces, Locked, Compiling
<1>4. ASSUME NEW t \in Threads, ChildWrites(t) \/ ChildEnds(t) PROVE LockInv'
  BY <1>4, Rests DEF ChildWrites, ChildEnds
<1>5. ASSUME NEW t \in Threads, Drop(t) PROVE LockInv'
  <2>1. Goto(t, "dropped") /\ holder' = holder
    BY <1>5 DEF Drop
  <2> QED BY <2>1, Continues DEF ThreadPlaces, Locked, Compiling, Using
<1>6. CASE Restart
  BY <1>6 DEF Restart, LockInv, ThreadPlaces, Locked, Compiling
<1>7. CASE UNCHANGED moduleVars
  BY <1>7, Rests DEF moduleVars, threads
<1> QED BY <1>1, <1>2, <1>3, <1>4, <1>5, <1>6, <1>7 DEF CModuleNext

-----------------------------------------------------------------------------
\* "TinyCC has process-global compiler state" (c_module.cpp): however many threads compile, look
\* up, list and destroy modules, one of them at a time is inside TinyCC.
THEOREM OneCompilerAtATime == ASSUME CModuleParameters PROVE CModuleSpec => []OneCompiler
<1>1. CModuleInit => LockInv
  BY DEF CModuleInit, LockInv, ThreadPlaces, Locked, Compiling
<1>2. LockInv /\ [CModuleNext]_moduleVars => LockInv'
  BY LockStep
<1>3. LockInv => OneCompiler
  BY DEF LockInv, Locked, Compiling, OneCompiler, InTinyCC
<1> QED BY <1>1, <1>2, <1>3, PTL DEF CModuleSpec

-----------------------------------------------------------------------------
(* What a thread has at each place.                                          *)

Children == {"none", "running", "exited", "failed"}
Modules == {"none", "tcc", "library"}
Things == Released \cup {"library"}

\* A compiler process runs or waits to be collected only where waitpid is called; a library
\* that nobody owns yet is open only until its entry is looked up; what is left is undone
\* before compile returns; a module is what all later places work on.
Fitting(place, things, c, m) ==
  /\ place \in ThreadPlaces /\ things \subseteq Things /\ c \in Children /\ m \in Modules
  /\ c # "none" <=> place = "wait"
  /\ "library" \in things => place = "dlsym"
  /\ place \notin Compiling \/ place = "return" => things = {}
  /\ place \in {"unwind", "return"} \/ (place \in Using <=> m # "none")

ThreadInv ==
  /\ pc \in [Threads -> ThreadPlaces] /\ owned \in [Threads -> SUBSET Things]
  /\ child \in [Threads -> Children] /\ compiled \in [Threads -> Modules]
  /\ \A t \in Threads : Fitting(pc[t], owned[t], child[t], compiled[t])

\* The perf map is started anew before this process appends to it.
MapInv ==
  /\ holder \in Threads \cup {Nobody}
  /\ compiles \in 0..MaxCompiles /\ process \in 1..(MaxRestarts + 1)
  /\ mapped \in BOOLEAN /\ perfMap \in Seq(Nat) /\ appended \in Nat
  /\ ~mapped => appended = 0
  /\ mapped => perfMap = [k \in 1..appended |-> process]
  /\ \A t \in Threads : pc[t] = "append" => mapped

ModuleInv == ThreadInv /\ MapInv

\* One thread changes its place and what it has.
Moves(t, place, things, c, m) ==
  /\ pc' = [pc EXCEPT ![t] = place] /\ owned' = [owned EXCEPT ![t] = things]
  /\ child' = [child EXCEPT ![t] = c] /\ compiled' = [compiled EXCEPT ![t] = m]

\* What it does not change it keeps.
LEMMA SameThread ==
  ASSUME ThreadInv, NEW t \in Threads
  PROVE  /\ pc = [pc EXCEPT ![t] = pc[t]] /\ owned = [owned EXCEPT ![t] = owned[t]]
         /\ child = [child EXCEPT ![t] = child[t]] /\ compiled = [compiled EXCEPT ![t] = compiled[t]]
         /\ Fitting(pc[t], owned[t], child[t], compiled[t])
BY DEF ThreadInv

LEMMA ThreadMoves ==
  ASSUME ThreadInv, NEW t \in Threads, NEW place, NEW things, NEW c, NEW m,
         Moves(t, place, things, c, m), Fitting(place, things, c, m)
  PROVE  ThreadInv'
<1>1. /\ place \in ThreadPlaces /\ things \in SUBSET Things /\ c \in Children /\ m \in Modules
  BY DEF Fitting
<1>2. /\ pc' \in [Threads -> ThreadPlaces] /\ owned' \in [Threads -> SUBSET Things]
      /\ child' \in [Threads -> Children] /\ compiled' \in [Threads -> Modules]
  BY <1>1 DEF ThreadInv, Moves
<1>3. ASSUME NEW u \in Threads PROVE Fitting(pc'[u], owned'[u], child'[u], compiled'[u])
  <2>1. CASE u = t
    BY <2>1 DEF ThreadInv, Moves
  <2>2. CASE u # t
    BY <2>2 DEF ThreadInv, Moves
  <2> QED BY <2>1, <2>2
<1> QED BY <1>2, <1>3 DEF ThreadInv

LEMMA MapStays ==
  ASSUME ModuleInv, NEW t \in Threads, NEW place, NEW things, NEW c, NEW m,
         Moves(t, place, things, c, m), place # "append", holder' \in Threads \cup {Nobody}, Shared
  PROVE  MapInv'
<1>1. \A u \in Threads : pc'[u] = "append" => pc[u] = "append"
  BY DEF ModuleInv, ThreadInv, Moves
<1> QED BY <1>1 DEF ModuleInv, MapInv, Shared, files

LEMMA ModuleMoves ==
  ASSUME ModuleInv, NEW t \in Threads, NEW place, NEW things, NEW c, NEW m,
         Moves(t, place, things, c, m), Fitting(place, things, c, m),
         place # "append", holder' \in Threads \cup {Nobody}, Shared
  PROVE  ModuleInv'
BY ThreadMoves, MapStays DEF ModuleInv

\* The calls of a compilation, in a row.
LEMMA ModuleTries ==
  ASSUME ModuleInv, NEW t \in Threads, NEW at, NEW next, NEW things, Try(t, at, next, things),
         Fitting(at, owned[t], child[t], compiled[t]) =>
           /\ Fitting(next, owned[t] \cup things, child[t], compiled[t])
           /\ Fitting("unwind", owned[t], child[t], compiled[t]),
         next # "append"
  PROVE  ModuleInv'
<1>1. pc[t] = at /\ Fitting(at, owned[t], child[t], compiled[t]) /\ Shared
      /\ holder' = holder /\ holder \in Threads \cup {Nobody}
  BY SameThread DEF Try, ModuleInv, MapInv
<1>2. \/ Moves(t, next, owned[t] \cup things, child[t], compiled[t])
      \/ Moves(t, "unwind", owned[t], child[t], compiled[t])
  BY SameThread DEF Try, Goto, Gains, Moves, ModuleInv
<1> QED BY <1>1, <1>2, ModuleMoves

\* A thread goes elsewhere with what it has.
LEMMA ModuleGoes ==
  ASSUME ModuleInv, NEW t \in Threads, NEW place, Goto(t, place), Keeps, Shared,
         holder' \in Threads \cup {Nobody}, place # "append",
         Fitting(pc[t], owned[t], child[t], compiled[t]) =>
           Fitting(place, owned[t], child[t], compiled[t])
  PROVE  ModuleInv'
<1>1. Moves(t, place, owned[t], child[t], compiled[t])
  BY SameThread DEF Goto, Keeps, Moves, ModuleInv
<1>2. Fitting(place, owned[t], child[t], compiled[t])
  BY SameThread DEF ModuleInv
<1> QED BY <1>1, <1>2, ModuleMoves

\* A sequence of one number goes on with it.
LEMMA RepeatedAppend ==
  ASSUME NEW n \in Nat, NEW v \in Nat
  PROVE  /\ [k \in 1..n |-> v] \in Seq(Nat)
         /\ Append([k \in 1..n |-> v], v) = [k \in 1..(n + 1) |-> v]
         /\ Append([k \in 1..n |-> v], v) \in Seq(Nat)
OBVIOUS

LEMMA CompileSteps ==
  ASSUME ModuleInv, NEW t \in Threads,
         \/ Enter(t) \/ Begin(t) \/ CreateState(t) \/ Translate(t) \/ Relocate(t)
         \/ FindEntry(t) \/ NoEntry(t) \/ MakeDirectory(t) \/ WriteUnit(t) \/ Fork(t)
         \/ Wait(t) \/ Load(t) \/ Resolve(t) \/ Unwind(t) \/ Return(t)
  PROVE  ModuleInv'
<1> USE DEF ThreadPlaces, Compiling, Using, Things, Released, Children, Modules
<1>0. /\ holder \in Threads \cup {Nobody} /\ Fitting(pc[t], owned[t], child[t], compiled[t])
      /\ pc = [pc EXCEPT ![t] = pc[t]] /\ owned = [owned EXCEPT ![t] = owned[t]]
      /\ child = [child EXCEPT ![t] = child[t]] /\ compiled = [compiled EXCEPT ![t] = compiled[t]]
  BY SameThread DEF ModuleInv, MapInv
<1>1. CASE Enter(t)
  BY <1>1, ModuleGoes DEF Enter, Lock, Fitting
<1>2. CASE Begin(t)
  <2>1. PICK place \in {"unwind", "create", "mkdtemp"} : Goto(t, place)
    BY <1>2 DEF Begin
  <2> QED BY <1>0, <1>2, <2>1, ModuleGoes DEF Begin, Fitting
<1>3. CASE CreateState(t)
  BY <1>3, ModuleTries DEF CreateState, Fitting
<1>4. CASE Translate(t) \/ Relocate(t)
  BY <1>4, ModuleTries DEF Translate, Relocate, Fitting
<1>5. CASE MakeDirectory(t)
  BY <1>5, ModuleTries DEF MakeDirectory, Fitting
<1>6. CASE Load(t)
  BY <1>6, ModuleTries DEF Load, Fitting
<1>7. CASE FindEntry(t)
  <2>1. Moves(t, "unwind", owned[t] \ {"state"}, child[t], "tcc")
    BY <1>0, <1>7 DEF FindEntry, Goto, Moves
  <2>2. Fitting("unwind", owned[t] \ {"state"}, child[t], "tcc")
    BY <1>0, <1>7 DEF FindEntry, Fitting
  <2> QED BY <1>0, <1>7, <2>1, <2>2, ModuleMoves DEF FindEntry
<1>8. CASE NoEntry(t)
  BY <1>0, <1>8, ModuleGoes DEF NoEntry, Fitting
<1>9. CASE WriteUnit(t)
  <2>1. PICK place \in {"fork", "unwind"} : Goto(t, place)
    BY <1>9 DEF WriteUnit
  <2>2. Moves(t, place, owned[t] \cup {"input"}, child[t], compiled[t])
    BY <1>0, <1>9, <2>1 DEF WriteUnit, Goto, Gains, Moves
  <2>3. Fitting(place, owned[t] \cup {"input"}, child[t], compiled[t])
    BY <1>0, <1>9 DEF WriteUnit, Fitting
  <2> QED BY <1>0, <1>9, <2>2, <2>3, ModuleMoves DEF WriteUnit
<1>10. CASE Fork(t)
  <2>1. PICK place \in {"wait", "unwind"}, c \in Children :
          /\ Moves(t, place, owned[t], c, compiled[t])
          /\ place = "wait" => c = "running"
          /\ place = "unwind" => c = child[t]
    BY <1>0, <1>10 DEF Fork, Goto, Moves, Fitting
  <2>2. Fitting(place, owned[t], c, compiled[t])
    BY <1>0, <1>10, <2>1 DEF Fork, Fitting
  <2> QED BY <1>0, <1>10, <2>1, <2>2, ModuleMoves DEF Fork
<1>11. CASE Wait(t)
  <2>1. PICK place \in {"dlopen", "unwind"} : Moves(t, place, owned[t], "none", compiled[t])
    BY <1>0, <1>11 DEF Wait, Goto, Moves
  <2>2. Fitting(place, owned[t], "none", compiled[t])
    BY <1>0, <1>11 DEF Wait, Fitting
  <2> QED BY <1>0, <1>11, <2>1, <2>2, ModuleMoves DEF Wait
<1>12. CASE Resolve(t)
  <2>1. PICK m \in Modules : Moves(t, "unwind", owned[t] \ {"library"}, child[t], m)
    BY <1>0, <1>12 DEF Resolve, Goto, Moves, Fitting
  <2>2. Fitting("unwind", owned[t] \ {"library"}, child[t], m)
    BY <1>0, <1>12 DEF Resolve, Fitting
  <2> QED BY <1>0, <1>12, <2>1, <2>2, ModuleMoves DEF Resolve
<1>13. CASE Unwind(t)
  <2>1. Moves(t, "return", owned[t] \ Released, child[t], compiled[t])
    BY <1>0, <1>13 DEF Unwind, Goto, Moves
  <2>2. Fitting("return", owned[t] \ Released, child[t], compiled[t])
    BY <1>0, <1>13 DEF Unwind, Fitting
  <2> QED BY <1>0, <1>13, <2>1, <2>2, ModuleMoves DEF Unwind
<1>14. CASE Return(t)
  <2>1. PICK place \in {"idle", "symbols", "kept"} :
          Unlock(t, place) /\ (place = "idle" <=> compiled[t] = "none")
    BY <1>14 DEF Return
  <2> QED BY <1>0, <1>14, <2>1, ModuleGoes DEF Return, Unlock, Fitting
<1> QED BY <1>1, <1>2, <1>3, <1>4, <1>5, <1>6, <1>7, <1>8, <1>9, <1>10, <1>11, <1>12, <1>13, <1>14

LEMMA UseSteps ==
  ASSUME ModuleInv, NEW t \in Threads,
         \/ Lookup(t) \/ Found(t) \/ Named(t) \/ NoMap(t) \/ PerfMap(t) \/ OpenMap(t)
         \/ AppendMap(t) \/ CloseMap(t) \/ Drop(t) \/ Destroy(t) \/ Destroyed(t)
  PROVE  ModuleInv'
<1> USE DEF ThreadPlaces, Compiling, Using, Things, Released, Children, Modules
<1>0. /\ holder \in Threads \cup {Nobody} /\ Fitting(pc[t], owned[t], child[t], compiled[t])
      /\ pc = [pc EXCEPT ![t] = pc[t]] /\ owned = [owned EXCEPT ![t] = owned[t]]
      /\ child = [child EXCEPT ![t] = child[t]] /\ compiled = [compiled EXCEPT ![t] = compiled[t]]
  BY SameThread DEF ModuleInv, MapInv
<1>1. CASE Lookup(t)
  <2>1. PICK place \in {"looking", "naming"} : Lock(t, place)
    BY <1>1 DEF Lookup
  <2> QED BY <1>0, <1>1, <2>1, ModuleGoes DEF Lookup, Lock, Fitting
<1>2. CASE Found(t)
  <2>1. PICK place \in {"publish", "named"} : Unlock(t, place)
    BY <1>2 DEF Found
  <2> QED BY <1>0, <1>2, <2>1, ModuleGoes DEF Found, Unlock, Fitting
<1>3. CASE Named(t)
  <2>1. PICK place \in {"kept", "dropped"} : Goto(t, place)
    BY <1>3 DEF Named
  <2> QED BY <1>0, <1>3, <2>1, ModuleGoes DEF Named, Fitting
<1>4. CASE NoMap(t)
  BY <1>0, <1>4, ModuleGoes DEF NoMap, Fitting
<1>5. CASE PerfMap(t)
  BY <1>0, <1>5, ModuleGoes DEF PerfMap, Lock, Fitting
<1>6. CASE CloseMap(t)
  BY <1>0, <1>6, ModuleGoes DEF CloseMap, Unlock, Fitting
<1>7. CASE Drop(t)
  BY <1>0, <1>7, ModuleGoes DEF Drop, Fitting
<1>8. CASE Destroy(t)
  BY <1>0, <1>8, ModuleGoes DEF Destroy, Lock, Fitting
<1>9. CASE Destroyed(t)
  <2>1. Moves(t, "idle", owned[t], child[t], "none")
    BY <1>0, <1>9 DEF Destroyed, Unlock, Goto, Moves
  <2>2. Fitting("idle", owned[t], child[t], "none")
    BY <1>0, <1>9 DEF Destroyed, Fitting
  <2> QED BY <1>0, <1>9, <2>1, <2>2, ModuleMoves DEF Destroyed, Unlock
<1>10. CASE OpenMap(t)
  <2>1. PICK place \in {"append", "close"} :
          /\ Moves(t, place, owned[t], child[t], compiled[t])
          /\ \/ perfMap' = Truncated /\ mapped' = TRUE
             \/ UNCHANGED <<perfMap, mapped>> /\ place # "append"
    BY <1>0, <1>10 DEF OpenMap, Goto, Keeps, Moves
  <2>2. Fitting(place, owned[t], child[t], compiled[t])
    BY <1>0, <1>10 DEF OpenMap, Fitting
  <2>3. ThreadInv'
    BY <2>1, <2>2, ThreadMoves DEF ModuleInv
  <2>4. \A u \in Threads : pc'[u] = "append" => pc[u] = "append" \/ place = "append"
    BY <2>1 DEF ModuleInv, ThreadInv, Moves
  <2>5. <<>> \in Seq(Nat) /\ <<>> = [k \in 1..0 |-> process]
    OBVIOUS
  <2>6. UNCHANGED <<holder, compiles, process, appended>>
    BY <1>10 DEF OpenMap
  <2>7. MapInv'
    <3>1. CASE perfMap' = Truncated /\ mapped' = TRUE
      <4>1. perfMap' \in Seq(Nat) /\ perfMap' = [k \in 1..appended |-> process]
        BY <2>5, <3>1 DEF ModuleInv, MapInv, Truncated
      <4> QED BY <2>6, <3>1, <4>1 DEF ModuleInv, MapInv
    <3>2. CASE UNCHANGED <<perfMap, mapped>> /\ place # "append"
      BY <2>4, <2>6, <3>2 DEF ModuleInv, MapInv
    <3> QED BY <2>1, <3>1, <3>2
  <2> QED BY <2>3, <2>7 DEF ModuleInv
<1>11. CASE AppendMap(t)
  <2>1. Moves(t, "close", owned[t], child[t], compiled[t]) /\ pc[t] = "append"
    BY <1>0, <1>11 DEF AppendMap, Goto, Keeps, Moves
  <2>2. Fitting("close", owned[t], child[t], compiled[t])
    BY <1>0, <1>11 DEF AppendMap, Fitting
  <2>3. ThreadInv'
    BY <2>1, <2>2, ThreadMoves DEF ModuleInv
  <2>4. \A u \in Threads : pc'[u] = "append" => pc[u] = "append"
    BY <2>1 DEF ModuleInv, ThreadInv, Moves
  <2>5. mapped /\ perfMap = [k \in 1..appended |-> process] /\ appended \in Nat /\ process \in Nat
        /\ UNCHANGED <<holder, compiles, process, mapped>>
    BY <1>11, <2>1 DEF AppendMap, ModuleInv, MapInv
  <2>6. /\ Append(perfMap, process) \in Seq(Nat)
        /\ Append(perfMap, process) = [k \in 1..(appended + 1) |-> process]
    BY <2>5, RepeatedAppend
  <2>7. MapInv'
    <3>1. \/ perfMap' = Append(perfMap, process) /\ appended' = appended + 1
          \/ UNCHANGED <<perfMap, appended>>
      BY <1>11 DEF AppendMap
    <3>2. perfMap' \in Seq(Nat) /\ perfMap' = [k \in 1..appended' |-> process] /\ appended' \in Nat
      BY <2>5, <2>6, <3>1 DEF ModuleInv, MapInv
    <3> QED BY <2>4, <2>5, <3>2 DEF ModuleInv, MapInv
  <2> QED BY <2>3, <2>7 DEF ModuleInv
<1> QED BY <1>1, <1>2, <1>3, <1>4, <1>5, <1>6, <1>7, <1>8, <1>9, <1>10, <1>11

LEMMA ModuleStep ==
  ASSUME CModuleParameters, ModuleInv, [CModuleNext]_moduleVars
  PROVE  ModuleInv'
<1>1. ASSUME NEW t \in Threads, Step(t) \/ Drop(t) PROVE ModuleInv'
  BY <1>1, CompileSteps, UseSteps DEF Step
<1>2. ASSUME NEW t \in Threads, Compile(t) PROVE ModuleInv'
  <2>1. Moves(t, "lock", owned[t], child[t], compiled[t])
    BY <1>2, SameThread DEF Compile, Goto, Keeps, Moves, ModuleInv
  <2>2. Fitting("lock", owned[t], child[t], compiled[t])
    BY <1>2, SameThread DEF Compile, Fitting, ModuleInv, ThreadPlaces, Compiling, Using
  <2>3. ThreadInv' /\ \A u \in Threads : pc'[u] = "append" => pc[u] = "append"
    BY <2>1, <2>2, ThreadMoves DEF ModuleInv, ThreadInv, Moves
  <2>4. compiles' \in 0..MaxCompiles /\ UNCHANGED <<holder, process, files>>
    BY <1>2 DEF Compile, ModuleInv, MapInv, CModuleParameters
  <2>5. MapInv'
    BY <2>3, <2>4 DEF ModuleInv, MapInv, files
  <2> QED BY <2>3, <2>5 DEF ModuleInv
<1>3. ASSUME NEW t \in Threads, Interrupted(t) PROVE ModuleInv'
  BY <1>3, ModuleGoes DEF Interrupted, ModuleInv, MapInv, Fitting
<1>4. ASSUME NEW t \in Threads, ChildWrites(t) PROVE ModuleInv'
  <2>1. PICK things \in SUBSET {"log", "output"} :
          Moves(t, pc[t], owned[t] \cup things, child[t], compiled[t])
    <3>1. Gains(t, {"log"}) \/ Gains(t, {"log", "output"})
      BY <1>4 DEF ChildWrites
    <3>2. UNCHANGED <<pc, child, compiled>>
      BY <1>4 DEF ChildWrites
    <3>3. /\ pc = [pc EXCEPT ![t] = pc[t]] /\ child = [child EXCEPT ![t] = child[t]]
          /\ compiled = [compiled EXCEPT ![t] = compiled[t]]
      BY SameThread DEF ModuleInv
    <3>4. \A things : Gains(t, things) => Moves(t, pc[t], owned[t] \cup things, child[t], compiled[t])
      BY <3>2, <3>3 DEF Gains, Moves
    <3>5. {"log"} \in SUBSET {"log", "output"} /\ {"log", "output"} \in SUBSET {"log", "output"}
      OBVIOUS
    <3> QED BY <3>1, <3>4, <3>5
  <2>2. Fitting(pc[t], owned[t] \cup things, child[t], compiled[t]) /\ pc[t] # "append"
    BY <1>4, SameThread DEF ChildWrites, ModuleInv, Fitting, Things, Released, Compiling
  <2> QED BY <1>4, <2>1, <2>2, ModuleMoves DEF ChildWrites, ModuleInv, MapInv
<1>5. ASSUME NEW t \in Threads, ChildEnds(t) PROVE ModuleInv'
  <2>1. PICK c \in {"exited", "failed"} : Moves(t, pc[t], owned[t], c, compiled[t])
    BY <1>5, SameThread DEF ChildEnds, Moves, ModuleInv
  <2>2. Fitting(pc[t], owned[t], c, compiled[t]) /\ pc[t] # "append"
    BY <1>5, SameThread DEF ChildEnds, ModuleInv, Fitting, Children
  <2> QED BY <1>5, <2>1, <2>2, ModuleMoves DEF ChildEnds, ModuleInv, MapInv
<1>6. CASE Restart
  <2>1. ThreadInv'
    BY <1>6 DEF Restart, ThreadInv, Fitting, ThreadPlaces, Compiling, Using, Things, Children, Modules
  <2>2. MapInv'
    <3>1. process' \in 1..(MaxRestarts + 1)
      BY <1>6 DEF Restart, ModuleInv, MapInv, CModuleParameters
    <3>2. \A t \in Threads : pc'[t] # "append"
      BY <1>6 DEF Restart
    <3> QED BY <1>6, <3>1, <3>2 DEF Restart, ModuleInv, MapInv
  <2> QED BY <2>1, <2>2 DEF ModuleInv
<1>7. CASE UNCHANGED moduleVars
  BY <1>7 DEF moduleVars, threads, files, ModuleInv, ThreadInv, MapInv
<1> QED BY <1>1, <1>2, <1>3, <1>4, <1>5, <1>6, <1>7 DEF CModuleNext

LEMMA ModuleCorrect == ASSUME CModuleParameters PROVE CModuleSpec => []ModuleInv
<1>1. CModuleInit => ModuleInv
  <2> SUFFICES ASSUME CModuleInit PROVE ModuleInv
    OBVIOUS
  <2>1. ThreadInv
    BY DEF CModuleInit, ThreadInv, Fitting, ThreadPlaces, Compiling, Using, Things, Children, Modules
  <2>2. MapInv
    <3>1. <<>> \in Seq(Nat) /\ 0 \in 0..MaxCompiles /\ 1 \in 1..(MaxRestarts + 1)
      BY DEF CModuleParameters
    <3>2. \A t \in Threads : pc[t] # "append"
      BY DEF CModuleInit
    <3> QED BY <3>1, <3>2 DEF CModuleInit, MapInv
  <2> QED BY <2>1, <2>2 DEF ModuleInv
<1>2. ModuleInv /\ [CModuleNext]_moduleVars => ModuleInv'
  BY ModuleStep
<1> QED BY <1>1, <1>2, PTL DEF CModuleSpec

\* Every field keeps its type.
THEOREM ModuleTypeCorrect == ASSUME CModuleParameters PROVE CModuleSpec => []CModuleTypeOK
<1>1. ModuleInv => CModuleTypeOK
  BY DEF ModuleInv, ThreadInv, MapInv, CModuleTypeOK, ThreadPlaces, Things, Children, Modules
<1> QED BY ModuleCorrect, <1>1, PTL

\* Whichever call of a compilation failed or was interrupted, on any number of threads, once
\* compile returned there is no file, compiler process, TinyCC state or library left of it
\* but in the module it gave to its caller.
THEOREM NothingIsLeft == ASSUME CModuleParameters PROVE CModuleSpec => []NothingLeft
<1>1. ModuleInv => NothingLeft
  BY DEF ModuleInv, ThreadInv, Fitting, NothingLeft, Compiling
<1> QED BY ModuleCorrect, <1>1, PTL

\* However many processes had the number of this one, and whichever writes failed, the perf
\* map that a process has begun holds its own lines only, and all that it wrote.
THEOREM MapIsOurs == ASSUME CModuleParameters PROVE CModuleSpec => []PerfMapIsOurs
<1>1. ModuleInv => PerfMapIsOurs
  BY DEF ModuleInv, MapInv, PerfMapIsOurs
<1> QED BY ModuleCorrect, <1>1, PTL

-----------------------------------------------------------------------------
(* What is pending belongs to the innermost new() in progress.               *)

Kinds == {"new", "members", "init", "listeners"}
Results == {"ok", "failed"}
Frames == [kind : Kinds, object : Objects, args : Objects \cup {NoObject}, error : Nat,
           result : Results]

\* Among the first n frames of q, e is the last new() and a its object.
LastNew(q, n, e, a) ==
  /\ e \in 0..n /\ \A k \in 1..n : k > e => q[k].kind # "new"
  /\ e = 0 => a = NoObject
  /\ e # 0 => q[e].kind = "new" /\ q[e].object = a

FieldsOK ==
  /\ hasInit \in BOOLEAN /\ objects \in 0..MaxObjects /\ alive \subseteq 1..objects
  /\ pendingArgs \in Objects \cup {NoObject} /\ pendingError \in Nat
  /\ given \in [Objects -> Objects \cup {NoObject}]
  /\ settled \in [Objects -> {"no"} \cup Results] /\ reported \in [Objects -> {"no"} \cup Results]

\* Every new() keeps what was pending when it began.
Framed(q, k, m) ==
  /\ q[k].object <= m
  /\ q[k].kind = "new" => LastNew(q, k - 1, q[k].error, q[k].args)
  /\ q[k].kind # "new" => q[k].error = 0

StackOK == making \in Seq(Frames) /\ \A k \in 1..Len(making) : Framed(making, k, objects)

TypeInv == FieldsOK /\ StackOK /\ LastNew(making, Len(making), pendingError, pendingArgs)

\* The first n calls in progress stay, but for the results of new() calls.
Agrees(q, n) ==
  \A k \in 1..n : /\ q[k].kind = making[k].kind /\ q[k].object = making[k].object
                  /\ q[k].args = making[k].args /\ q[k].error = making[k].error

LEMMA LastStays ==
  ASSUME NEW q, NEW n \in Nat, NEW m \in 0..n, Agrees(q, n), NEW e, NEW a, LastNew(making, m, e, a)
  PROVE  LastNew(q, m, e, a)
BY DEF LastNew, Agrees

LEMMA LastAbove ==
  ASSUME NEW q, NEW n \in Nat, NEW e, NEW a, LastNew(q, n, e, a), q[n + 1].kind # "new"
  PROVE  LastNew(q, n + 1, e, a)
BY DEF LastNew

LEMMA LastBelow ==
  ASSUME TypeInv, making # <<>>, Newest.kind # "new"
  PROVE  /\ LastNew(making, Len(making) - 1, pendingError, pendingArgs)
         /\ pendingError \in 0..(Len(making) - 1)
<1>1. Len(making) \in Nat \ {0} /\ making[Len(making)].kind # "new"
  BY DEF TypeInv, StackOK, Newest
<1>2. pendingError # Len(making)
  BY <1>1 DEF TypeInv, LastNew
<1> QED BY <1>1, <1>2 DEF TypeInv, LastNew

LEMMA FrameOK ==
  ASSUME NEW phase \in {"members", "init", "listeners"}, NEW o \in Objects
  PROVE  /\ Stage(phase, o) \in Frames /\ Stage(phase, o).kind = phase
         /\ Stage(phase, o).object = o /\ Stage(phase, o).error = 0
BY DEF Stage, Frames, Kinds, Results

\* The frames that a step keeps, and those it adds on top.
LEMMA StackNext ==
  ASSUME ConstructionParameters, TypeInv, NEW n \in 0..Len(making), making' \in Seq(Frames), n <= Len(making'),
         Agrees(making', n), objects' \in Nat, objects <= objects',
         \A k \in 1..Len(making') : k > n => Framed(making', k, objects')
  PROVE  StackOK'
<1>1. Len(making) \in Nat /\ n \in Nat /\ Len(making') \in Nat
  BY DEF TypeInv, StackOK
<1>2. ASSUME NEW k \in 1..Len(making'), k <= n PROVE Framed(making', k, objects')
  <2>1. k \in 1..Len(making) /\ k \in 1..n /\ k - 1 \in 0..n
    BY <1>1, <1>2
  <2>2. Framed(making, k, objects) /\ making[k].object \in Nat /\ objects \in Nat
    <3>1. making[k] \in Frames
      BY <2>1 DEF TypeInv, StackOK
    <3>2. making[k].object \in Objects /\ Framed(making, k, objects)
      BY <2>1, <3>1 DEF TypeInv, StackOK, Frames
    <3>3. Objects \subseteq Nat /\ objects \in Nat
      BY DEF TypeInv, FieldsOK, Objects, ConstructionParameters
    <3> QED BY <3>2, <3>3
  <2>3. /\ making'[k].kind = making[k].kind /\ making'[k].object = making[k].object
        /\ making'[k].args = making[k].args /\ making'[k].error = making[k].error
    BY <2>1 DEF Agrees
  <2>4. making[k].kind = "new" => LastNew(making', k - 1, making[k].error, making[k].args)
    BY <1>1, <2>1, <2>2, LastStays DEF Framed
  <2> QED BY <2>2, <2>3, <2>4 DEF Framed
<1>3. \A k \in 1..Len(making') : Framed(making', k, objects')
  BY <1>1, <1>2
<1> QED BY <1>3 DEF StackOK, Framed, LastNew

\* What a step makes of the stack.
LEMMA PushedNew ==
  ASSUME ConstructionParameters, TypeInv, NewInstance
  PROVE  /\ making' \in Seq(Frames) /\ Len(making) \in Nat /\ Len(making') = Len(making) + 2
         /\ \A k \in 1..Len(making) : making'[k] = making[k]
         /\ making'[Len(making) + 1] = NewFrame(objects + 1)
         /\ making'[Len(making) + 2] = Stage("members", objects + 1)
         /\ objects + 1 \in Objects /\ NewFrame(objects + 1) \in Frames
<1> DEFINE f == NewFrame(objects + 1)
           g == Stage("members", objects + 1)
<1>1. objects + 1 \in Objects /\ making \in Seq(Frames) /\ Len(making) \in Nat
  BY DEF NewInstance, MayMake, TypeInv, FieldsOK, StackOK, Objects, ConstructionParameters
<1>2. f \in Frames
  BY <1>1 DEF TypeInv, FieldsOK, NewFrame, Frames, Kinds, Results
<1>3. g \in Frames
  BY <1>1, FrameOK
<1>4. making' = making \o <<f, g>>
  BY DEF NewInstance, Makes
<1> HIDE DEF f, g
<1>5. making' = Append(Append(making, f), g)
  BY <1>1, <1>2, <1>3, <1>4
<1>6. /\ Append(making, f) \in Seq(Frames) /\ Len(Append(making, f)) = Len(making) + 1
      /\ \A k \in 1..Len(making) : Append(making, f)[k] = making[k]
      /\ Append(making, f)[Len(making) + 1] = f
  BY <1>1, <1>2, AppendProperties
<1>7. /\ making' \in Seq(Frames) /\ Len(making') = Len(making) + 2
      /\ \A k \in 1..(Len(making) + 1) : making'[k] = Append(making, f)[k]
      /\ making'[Len(making) + 2] = g
  BY <1>1, <1>3, <1>5, <1>6, AppendProperties
<1>8. (\A k \in 1..Len(making) : making'[k] = making[k]) /\ making'[Len(making) + 1] = f
  BY <1>1, <1>6, <1>7
<1> QED BY <1>1, <1>2, <1>7, <1>8 DEF f, g

LEMMA PushedScript ==
  ASSUME ConstructionParameters, TypeInv, SetScript
  PROVE  /\ making' \in Seq(Frames) /\ Len(making) \in Nat /\ Len(making') = Len(making) + 1
         /\ \A k \in 1..Len(making) : making'[k] = making[k]
         /\ making'[Len(making) + 1] = Stage("members", objects + 1)
         /\ objects + 1 \in Objects
<1>1. objects + 1 \in Objects /\ making \in Seq(Frames) /\ Len(making) \in Nat
  BY DEF SetScript, MayMake, TypeInv, FieldsOK, StackOK, Objects, ConstructionParameters
<1>2. Stage("members", objects + 1) \in Frames
  BY <1>1, FrameOK
<1>3. making' = Append(making, Stage("members", objects + 1))
  BY <1>1, <1>2 DEF SetScript, Makes
<1> QED BY <1>1, <1>2, <1>3, AppendProperties

LEMMA Popped ==
  ASSUME TypeInv, making # <<>>
  PROVE  /\ Older \in Seq(Frames) /\ Len(making) \in Nat \ {0} /\ Len(Older) = Len(making) - 1
         /\ \A k \in 1..(Len(making) - 1) : Older[k] = making[k]
         /\ Newest \in Frames /\ Newest.object \in Objects /\ Framed(making, Len(making), objects)
         /\ Newest = making[Len(making)]
<1>1. /\ Older \in Seq(Frames) /\ Len(making) \in Nat \ {0} /\ Len(Older) = Len(making) - 1
      /\ \A k \in 1..(Len(making) - 1) : Older[k] = making[k]
      /\ Newest \in Frames
  <2> DEFINE n == Len(making) - 1
  <2>1. n \in Nat /\ Len(making) = n + 1 /\ \A k \in 1..(n + 1) : making[k] \in Frames
    BY DEF TypeInv, StackOK
  <2>2. Older = SubSeq(making, 1, n) /\ Newest = making[n + 1]
    BY <2>1 DEF Older, Newest
  <2> HIDE DEF n
  <2>3. Older \in Seq(Frames) /\ Len(Older) = n /\ \A k \in 1..n : Older[k] = making[k]
    BY <2>1, <2>2, SubSeqProperties
  <2> QED BY <2>1, <2>2, <2>3
<1>2. Framed(making, Len(making), objects) /\ Newest.object \in Objects
  BY <1>1 DEF TypeInv, StackOK, Frames
<1> QED BY <1>1, <1>2 DEF Newest

\* set_script goes on to its next phase, and the result of an end is written where
\* pending_error points.
LEMMA Turned ==
  ASSUME TypeInv, making # <<>>, Newest.kind # "new", NEW phase \in {"init", "listeners"},
         NEW q, q = Older \/ (\E result \in Results : q = Written(Older, result)),
         making' = Append(q, Stage(phase, Newest.object))
  PROVE  /\ making' \in Seq(Frames) /\ Len(making') = Len(making) /\ Len(making) \in Nat \ {0}
         /\ Agrees(making', Len(making) - 1)
         /\ \A k \in 1..(Len(making) - 1) : k # pendingError => making'[k] = making[k]
         /\ making'[Len(making)] = Stage(phase, Newest.object)
         /\ q = Older => \A k \in 1..(Len(making) - 1) : making'[k] = making[k]
         /\ \A result \in Results : q = Written(Older, result) /\ pendingError # 0 =>
              making'[pendingError].result = result
<1>1. /\ Older \in Seq(Frames) /\ Len(making) \in Nat \ {0} /\ Len(Older) = Len(making) - 1
      /\ \A k \in 1..(Len(making) - 1) : Older[k] = making[k]
      /\ Stage(phase, Newest.object) \in Frames /\ pendingError \in 0..(Len(making) - 1)
  BY Popped, LastBelow, FrameOK
<1>2. ASSUME NEW result \in Results
      PROVE  /\ Written(Older, result) \in Seq(Frames) /\ Len(Written(Older, result)) = Len(Older)
             /\ \A k \in 1..Len(Older) :
                  /\ k # pendingError => Written(Older, result)[k] = Older[k]
                  /\ k = pendingError =>
                       Written(Older, result)[k] = [Older[k] EXCEPT !.result = result]
  <2>1. CASE pendingError = 0
    BY <1>1, <2>1 DEF Written
  <2>2. CASE pendingError # 0
    <3>1. pendingError \in 1..Len(Older) /\ Older[pendingError] \in Frames
      BY <1>1, <2>2
    <3>2. [Older[pendingError] EXCEPT !.result = result] \in Frames
      BY <3>1 DEF Frames
    <3>3. Written(Older, result) =
            [Older EXCEPT ![pendingError] = [Older[pendingError] EXCEPT !.result = result]]
      BY <2>2 DEF Written
    <3> DEFINE older == Older
               x == [Older[pendingError] EXCEPT !.result = result]
    <3> HIDE DEF older, x
    <3>4. older \in Seq(Frames) /\ pendingError \in 1..Len(older) /\ x \in Frames
      BY <1>1, <3>1, <3>2 DEF older, x
    <3>5. /\ [older EXCEPT ![pendingError] = x] \in Seq(Frames)
          /\ Len([older EXCEPT ![pendingError] = x]) = Len(older)
          /\ \A k \in 1..Len(older) :
               [older EXCEPT ![pendingError] = x][k] = IF k = pendingError THEN x ELSE older[k]
      BY <3>4, ExceptSeq
    <3> QED BY <3>3, <3>5 DEF older, x
  <2> QED BY <2>1, <2>2
<1>3. /\ q \in Seq(Frames) /\ Len(q) = Len(Older)
      /\ \A k \in 1..Len(Older) : k # pendingError => q[k] = Older[k]
      /\ \A k \in 1..Len(Older) : k = pendingError =>
           q[k] = Older[k] \/ \E result \in Results : q[k] = [Older[k] EXCEPT !.result = result]
  <2>1. CASE q = Older
    BY <1>1, <2>1
  <2>2. ASSUME NEW result \in Results, q = Written(Older, result)
        PROVE  /\ q \in Seq(Frames) /\ Len(q) = Len(Older)
               /\ \A k \in 1..Len(Older) : k # pendingError => q[k] = Older[k]
               /\ \A k \in 1..Len(Older) :
                    k = pendingError => q[k] = [Older[k] EXCEPT !.result = result]
    BY <1>2, <2>2
  <2> QED BY <2>1, <2>2
<1>4. /\ making' \in Seq(Frames) /\ Len(making') = Len(making)
      /\ \A k \in 1..(Len(making) - 1) : making'[k] = q[k]
      /\ making'[Len(making)] = Stage(phase, Newest.object)
  <2>1. Len(q) = Len(making) - 1
    BY <1>1, <1>3
  <2> QED BY <1>1, <1>3, <2>1, AppendProperties
<1>5. ASSUME NEW k \in 1..(Len(making) - 1)
      PROVE  /\ making'[k].kind = making[k].kind /\ making'[k].object = making[k].object
             /\ making'[k].args = making[k].args /\ making'[k].error = making[k].error
             /\ k # pendingError => making'[k] = making[k]
  <2>1. making[k] \in Frames /\ Older[k] = making[k] /\ k \in 1..Len(Older)
    BY <1>1
  <2>2. making'[k] = making[k] \/ \E result \in Results : making'[k] = [making[k] EXCEPT !.result = result]
    BY <1>3, <1>4, <2>1
  <2> QED BY <1>3, <1>4, <2>1, <2>2 DEF Frames
<1>6. ASSUME NEW result \in Results, q = Written(Older, result), pendingError # 0
      PROVE  making'[pendingError].result = result
  <2>1. pendingError \in 1..Len(Older) /\ Older[pendingError] \in Frames
    BY <1>1, <1>6
  <2>2. q[pendingError] = [Older[pendingError] EXCEPT !.result = result]
    BY <1>2, <1>6, <2>1
  <2> QED BY <1>1, <1>4, <2>1, <2>2 DEF Frames
<1>7. ASSUME q = Older PROVE \A k \in 1..(Len(making) - 1) : making'[k] = making[k]
  BY <1>1, <1>4, <1>7
<1>8. Agrees(making', Len(making) - 1)
  BY <1>5 DEF Agrees
<1> QED BY <1>1, <1>4, <1>5, <1>6, <1>7, <1>8

-----------------------------------------------------------------------------
\* What is pending is always that of the innermost new() in progress.
LEMMA TypeStep ==
  ASSUME ConstructionParameters, TypeInv, ConstructionNext
  PROVE  TypeInv'
<1>0. /\ FieldsOK /\ making \in Seq(Frames) /\ Len(making) \in Nat /\ objects \in Nat
      /\ LastNew(making, Len(making), pendingError, pendingArgs)
  BY DEF TypeInv, StackOK, FieldsOK
<1>1. CASE NewInstance
  <2>1. /\ making' \in Seq(Frames) /\ Len(making') = Len(making) + 2
        /\ \A k \in 1..Len(making) : making'[k] = making[k]
        /\ making'[Len(making) + 1] = NewFrame(objects + 1)
        /\ making'[Len(making) + 2] = Stage("members", objects + 1) /\ objects + 1 \in Objects
    BY <1>1, PushedNew
  <2>2. /\ objects' = objects + 1 /\ alive' = alive \cup {objects + 1} /\ UNCHANGED <<hasInit, ghosts>>
        /\ pendingArgs' = objects + 1 /\ pendingError' = Len(making) + 1
    BY <1>1 DEF NewInstance, Makes
  <2>3. Agrees(making', Len(making))
    BY <2>1 DEF Agrees
  <2>4. /\ making'[Len(making) + 1].kind = "new" /\ making'[Len(making) + 1].object = objects + 1
        /\ making'[Len(making) + 1].error = pendingError
        /\ making'[Len(making) + 1].args = pendingArgs
        /\ making'[Len(making) + 2].kind = "members" /\ making'[Len(making) + 2].object = objects + 1
        /\ making'[Len(making) + 2].error = 0
    BY <2>1 DEF NewFrame, Stage
  <2>5. LastNew(making', Len(making), pendingError, pendingArgs)
    BY <1>0, <2>3, LastStays
  <2>6. Framed(making', Len(making) + 1, objects + 1) /\ Framed(making', Len(making) + 2, objects + 1)
    BY <1>0, <2>4, <2>5 DEF Framed
  <2>7. \A k \in 1..Len(making') : k > Len(making) => k = Len(making) + 1 \/ k = Len(making) + 2
    BY <1>0, <2>1
  <2>8. StackOK'
    BY <1>0, <2>1, <2>2, <2>3, <2>6, <2>7, StackNext
  <2>9. LastNew(making', Len(making'), pendingError', pendingArgs')
    BY <1>0, <2>1, <2>2, <2>4 DEF LastNew
  <2>10. FieldsOK'
    BY <1>0, <2>1, <2>2 DEF FieldsOK, ghosts, Objects
  <2> QED BY <2>8, <2>9, <2>10 DEF TypeInv
<1>2. CASE SetScript
  <2>1. /\ making' \in Seq(Frames) /\ Len(making') = Len(making) + 1
        /\ \A k \in 1..Len(making) : making'[k] = making[k]
        /\ making'[Len(making) + 1] = Stage("members", objects + 1) /\ objects + 1 \in Objects
    BY <1>2, PushedScript
  <2>2. /\ objects' = objects + 1 /\ alive' = alive \cup {objects + 1}
        /\ UNCHANGED <<hasInit, ghosts, pendingArgs, pendingError>>
    BY <1>2 DEF SetScript, Makes
  <2>3. Agrees(making', Len(making))
    BY <2>1 DEF Agrees
  <2>4. /\ making'[Len(making) + 1].kind = "members" /\ making'[Len(making) + 1].object = objects + 1
        /\ making'[Len(making) + 1].error = 0
    BY <2>1 DEF Stage
  <2>5. Framed(making', Len(making) + 1, objects + 1)
    BY <1>0, <2>4 DEF Framed
  <2>6. StackOK'
    BY <1>0, <2>1, <2>2, <2>3, <2>5, StackNext
  <2>7. LastNew(making', Len(making'), pendingError', pendingArgs')
    BY <1>0, <2>1, <2>2, <2>3, <2>4, LastStays, LastAbove
  <2>8. FieldsOK'
    BY <1>0, <2>1, <2>2 DEF FieldsOK, ghosts, Objects
  <2> QED BY <2>6, <2>7, <2>8 DEF TypeInv
<1>3. ASSUME making # <<>>, Newest.kind # "new", NEW phase \in {"init", "listeners"},
             NEW q, q = Older \/ (\E result \in Results : q = Written(Older, result)),
             making' = Append(q, Stage(phase, Newest.object)),
             UNCHANGED <<objects, pendingError, pendingArgs>>
      PROVE  StackOK' /\ LastNew(making', Len(making'), pendingError', pendingArgs')
  <2>1. /\ making' \in Seq(Frames) /\ Len(making') = Len(making) /\ Len(making) \in Nat \ {0}
        /\ Agrees(making', Len(making) - 1) /\ making'[Len(making)] = Stage(phase, Newest.object)
    BY <1>3, Turned
  <2>2. /\ Newest.object \in Objects /\ Newest.object <= objects
        /\ LastNew(making, Len(making) - 1, pendingError, pendingArgs)
    BY <1>3, Popped, LastBelow DEF Framed
  <2>3. Stage(phase, Newest.object).kind = phase /\ Stage(phase, Newest.object).object = Newest.object
        /\ Stage(phase, Newest.object).error = 0
    BY DEF Stage
  <2>4. Framed(making', Len(making), objects)
    BY <2>1, <2>2, <2>3 DEF Framed
  <2>5. StackOK'
    BY <1>0, <1>3, <2>1, <2>4, StackNext
  <2>6. LastNew(making', Len(making) - 1, pendingError, pendingArgs)
    BY <2>1, <2>2, LastStays
  <2>7. LastNew(making', Len(making), pendingError, pendingArgs)
    BY <2>1, <2>3, <2>6, LastAbove
  <2> QED BY <1>3, <2>1, <2>5, <2>7
<1>4. CASE CallInit
  <2>1. /\ making # <<>> /\ Newest.kind # "new" /\ making' = Append(Older, Stage("init", Newest.object))
        /\ UNCHANGED <<hasInit, pendingArgs, pendingError, objects, alive, settled, reported>>
        /\ given' = [given EXCEPT ![Newest.object] = pendingArgs]
    BY <1>4 DEF CallInit, At
  <2>2. StackOK' /\ LastNew(making', Len(making'), pendingError', pendingArgs')
    BY <1>3, <2>1
  <2>3. FieldsOK'
    BY <1>0, <2>1 DEF FieldsOK
  <2> QED BY <2>2, <2>3 DEF TypeInv
<1>5. ASSUME NEW result \in Results, Ends(result), making # <<>>, Newest.kind # "new" PROVE TypeInv'
  <2>1. /\ making' = Append(Written(Older, result), Stage("listeners", Newest.object))
        /\ UNCHANGED <<hasInit, pendingArgs, pendingError, objects, alive, given, reported>>
        /\ settled' = [settled EXCEPT ![Newest.object] = result]
    BY <1>5 DEF Ends
  <2>2. StackOK' /\ LastNew(making', Len(making'), pendingError', pendingArgs')
    BY <1>3, <1>5, <2>1
  <2>3. FieldsOK'
    BY <1>0, <2>1 DEF FieldsOK
  <2> QED BY <2>2, <2>3 DEF TypeInv
<1>6. CASE InitializersEnd \/ InitEnds
  <2>1. \E result \in Results : Ends(result)
    BY <1>6 DEF InitializersEnd, InitEnds, Results
  <2>2. making # <<>> /\ Newest.kind # "new"
    BY <1>6 DEF InitializersEnd, InitEnds, At
  <2> QED BY <1>5, <2>1, <2>2
<1>7. ASSUME making # <<>>, making' = Older, objects' = objects
      PROVE  StackOK' /\ Len(making') = Len(making) - 1 /\ Agrees(making', Len(making) - 1)
             /\ Len(making) - 1 \in 0..Len(making) /\ Len(making) - 1 \in Nat
  <2>1. /\ making' \in Seq(Frames) /\ Len(making) \in Nat \ {0} /\ Len(making') = Len(making) - 1
        /\ \A k \in 1..(Len(making) - 1) : making'[k] = making[k]
    BY <1>7, Popped
  <2>2. Agrees(making', Len(making) - 1)
    BY <2>1 DEF Agrees
  <2> QED BY <1>0, <1>7, <2>1, <2>2, StackNext
<1>8. CASE SetScriptReturns
  <2>1. /\ making # <<>> /\ Newest.kind # "new" /\ making' = Older
        /\ UNCHANGED <<hasInit, pendingArgs, pendingError, objects, alive, ghosts>>
    BY <1>8 DEF SetScriptReturns, At
  <2>2. LastNew(making', Len(making'), pendingError', pendingArgs')
    BY <1>7, <2>1, LastBelow, LastStays
  <2>3. FieldsOK'
    BY <1>0, <2>1 DEF FieldsOK, ghosts
  <2> QED BY <1>7, <2>1, <2>2, <2>3 DEF TypeInv
<1>9. CASE NewReturns
  <2>1. /\ making # <<>> /\ Newest.kind = "new" /\ making' = Older
        /\ pendingArgs' = Newest.args /\ pendingError' = Newest.error
        /\ reported' = [reported EXCEPT ![Newest.object] = Newest.result]
        /\ alive' \subseteq alive /\ UNCHANGED <<hasInit, objects, given, settled>>
    BY <1>9 DEF NewReturns, Restored, At
  <2>2. Newest \in Frames /\ LastNew(making, Len(making) - 1, Newest.error, Newest.args)
    BY <2>1, Popped DEF Framed
  <2>3. LastNew(making', Len(making'), pendingError', pendingArgs')
    BY <1>7, <2>1, <2>2, LastStays
  <2>4. FieldsOK'
    BY <1>0, <2>1, <2>2 DEF FieldsOK, Frames
  <2> QED BY <1>7, <2>1, <2>3, <2>4 DEF TypeInv
<1> QED BY <1>1, <1>2, <1>4, <1>6, <1>8, <1>9 DEF ConstructionNext

LEMMA TypeInit == ASSUME ConstructionParameters PROVE ConstructionInit => TypeInv
<1> SUFFICES ASSUME ConstructionInit PROVE TypeInv
  OBVIOUS
<1>1. making \in Seq(Frames) /\ Len(making) = 0 /\ 1..Len(making) = {}
  BY DEF ConstructionInit
<1>2. FieldsOK
  BY DEF ConstructionInit, FieldsOK, ConstructionParameters
<1> QED BY <1>1, <1>2 DEF ConstructionInit, TypeInv, StackOK, LastNew

LEMMA TypeInvCorrect == ASSUME ConstructionParameters PROVE ConstructionSpec => []TypeInv
<1>1. TypeInv /\ [ConstructionNext]_constructionVars => TypeInv'
  <2> SUFFICES ASSUME TypeInv, [ConstructionNext]_constructionVars PROVE TypeInv'
    OBVIOUS
  <2>1. CASE UNCHANGED constructionVars
    BY <2>1 DEF constructionVars, ghosts, TypeInv, FieldsOK, StackOK, Framed, LastNew
  <2> QED BY <2>1, TypeStep
<1> QED BY TypeInit, <1>1, PTL DEF ConstructionSpec

\* Every field keeps its type, and what is pending points to a call that has not returned.
THEOREM ConstructionTypeCorrect == ASSUME ConstructionParameters PROVE ConstructionSpec => []ConstructionTypeOK
<1>1. TypeInv => ConstructionTypeOK
  <2> SUFFICES ASSUME TypeInv PROVE ConstructionTypeOK
    OBVIOUS
  <2>1. pendingError \in 0..Len(making)
    BY DEF TypeInv, LastNew
  <2>2. ASSUME NEW k \in DOMAIN making
        PROVE  /\ making[k].kind \in {"new", "members", "init", "listeners"}
               /\ making[k].object \in 1..objects /\ making[k].error \in 0..(k - 1)
               /\ making[k].args \in Objects \cup {NoObject} /\ making[k].result \in {"ok", "failed"}
    <3>1. k \in 1..Len(making) /\ making[k] \in Frames
      BY DEF TypeInv, StackOK
    <3>2. Framed(making, k, objects) /\ Len(making) \in Nat
      BY <3>1 DEF TypeInv, StackOK
    <3>3. making[k].error \in 0..(k - 1)
      BY <3>1, <3>2 DEF Framed, LastNew
    <3>4. making[k].object \in 1..objects
      BY <3>1, <3>2 DEF Framed, Frames, Objects, TypeInv, FieldsOK, ConstructionParameters
    <3> QED BY <3>1, <3>3, <3>4 DEF Frames, Kinds, Results
  <2> QED BY <2>1, <2>2 DEF TypeInv, FieldsOK, ConstructionTypeOK, Results
<1> QED BY TypeInvCorrect, <1>1, PTL

-----------------------------------------------------------------------------
(* What is whose, when listeners give the script to no further object.        *)

\* A new() in progress waits for the set_script of its object; listeners are told below
\* nothing but a new(); and no two calls work on the same object otherwise.
Paired == \A k \in 1..Len(making) : making[k].kind = "new" /\ k < Len(making) =>
            making[k + 1].kind # "new" /\ making[k + 1].object = making[k].object
Telling == \A k \in 1..Len(making) : making[k].kind = "listeners" /\ k < Len(making) =>
             making[k + 1].kind = "new"
Single == \A j, k \in 1..Len(making) : j < k /\ making[j].object = making[k].object =>
            making[j].kind = "new" /\ k = j + 1

\* What became of an object gets to its new(), whatever was written there before.
Passed == \A k \in 1..Len(making) :
  making[k].kind = "new" /\ (k = Len(making) \/ making[k + 1].kind = "listeners") =>
    settled[making[k].object] = making[k].result
Called == \A k \in 1..Len(making) :
  making[k].kind = "init" /\ k > 1 /\ making[k - 1].kind = "new" =>
    given[making[k].object] = making[k].object

Ours(o) == given[o] \in {NoObject, o} /\ (hasInit /\ settled[o] = "ok" => given[o] = o)
Making == \A k \in 1..Len(making) :
  /\ reported[making[k].object] = "no"
  /\ making[k].kind = "new" => making[k].object \in alive /\ Ours(making[k].object)
Unmade == \A o \in Objects : o > objects => given[o] = NoObject /\ settled[o] = "no" /\ reported[o] = "no"
Done == \A o \in Objects : reported[o] # "no" =>
          Ours(o) /\ reported[o] = settled[o] /\ (o \in alive <=> settled[o] = "ok")

StackInv == Paired /\ Telling /\ Single
OwnInv == StackInv /\ Passed /\ Called /\ Making /\ Unmade /\ Done

LEMMA StackElements ==
  ASSUME ConstructionParameters, TypeInv
  PROVE  /\ Len(making) \in Nat /\ objects \in Nat
         /\ \A k \in 1..Len(making) : /\ making[k] \in Frames /\ making[k].object \in Objects
                                      /\ making[k].object <= objects /\ making[k].object \in Nat
                                      /\ making[k].kind \in Kinds
<1>1. Len(making) \in Nat /\ objects \in Nat /\ \A k \in 1..Len(making) : making[k] \in Frames
  BY DEF TypeInv, StackOK, FieldsOK
<1>2. \A k \in 1..Len(making) : making[k].object \in Objects /\ making[k].kind \in Kinds
  BY <1>1 DEF Frames
<1>3. \A k \in 1..Len(making) : making[k].object <= objects
  BY DEF TypeInv, StackOK, Framed
<1>4. Objects \subseteq Nat
  BY DEF Objects, ConstructionParameters
<1> QED BY <1>1, <1>2, <1>3, <1>4

\* A new() begins.
LEMMA OwnNew ==
  ASSUME ConstructionParameters, TypeInv, OwnInv, NewInstance
  PROVE  OwnInv'
<1> DEFINE n == Len(making)
           o == objects + 1
<1>0. /\ n \in Nat /\ objects \in Nat
      /\ \A k \in 1..n : making[k].object \in Objects /\ making[k].object <= objects /\ making[k].object # o
  BY StackElements
<1>1. /\ Len(making') = n + 2 /\ \A k \in 1..n : making'[k] = making[k]
  BY PushedNew
<1>2. /\ making'[n + 1].kind = "new" /\ making'[n + 1].object = o
      /\ making'[n + 2].kind = "members" /\ making'[n + 2].object = o /\ o \in Objects
  BY PushedNew DEF NewFrame, Stage
<1>3. /\ objects' = o /\ alive' = alive \cup {o} /\ UNCHANGED <<hasInit, given, settled, reported>>
  BY DEF NewInstance, Makes, ghosts
<1>4. n # 0 => making[n].kind # "new"
  BY <1>0 DEF NewInstance, MayMake, At, Newest
<1>5. \A k \in 1..Len(making') : k \in 1..n \/ k = n + 1 \/ k = n + 2
  BY <1>0, <1>1
<1>6. given[o] = NoObject /\ settled[o] = "no" /\ reported[o] = "no"
  BY <1>0, <1>2 DEF OwnInv, Unmade
<1> HIDE DEF n, o
<1>7. \A k \in 1..n : k < n => k + 1 \in 1..n
  BY <1>0
<1>8. \A k \in 1..n : k > 1 => k - 1 \in 1..n
  BY <1>0
<1>9. Paired'
  <2> SUFFICES ASSUME NEW k \in 1..Len(making'), making'[k].kind = "new", k < Len(making')
               PROVE  making'[k + 1].kind # "new" /\ making'[k + 1].object = making'[k].object
    BY DEF Paired
  <2>1. CASE k \in 1..n
    BY <1>0, <1>1, <1>4, <1>7, <2>1 DEF OwnInv, StackInv, Paired, n
  <2> QED BY <1>0, <1>1, <1>2, <1>5, <2>1
<1>10. Telling'
  <2> SUFFICES ASSUME NEW k \in 1..Len(making'), making'[k].kind = "listeners", k < Len(making')
               PROVE  making'[k + 1].kind = "new"
    BY DEF Telling
  <2>1. k \in 1..n
    BY <1>0, <1>2, <1>5
  <2>2. CASE k = n
    BY <1>2, <2>2
  <2>3. CASE k # n
    BY <1>0, <1>1, <1>7, <2>1, <2>3 DEF OwnInv, StackInv, Telling, n
  <2> QED BY <2>2, <2>3
<1>11. Single'
  <2> SUFFICES ASSUME NEW j \in 1..Len(making'), NEW k \in 1..Len(making'), j < k,
                      making'[j].object = making'[k].object
               PROVE  making'[j].kind = "new" /\ k = j + 1
    BY DEF Single
  <2>1. CASE k \in 1..n
    <3>1. j \in 1..n
      BY <1>0, <1>1, <2>1
    <3> QED BY <1>1, <2>1, <3>1 DEF OwnInv, StackInv, Single, n
  <2>2. CASE k \notin 1..n
    <3>1. making'[k].object = o
      BY <1>2, <1>5, <2>2
    <3>2. j \notin 1..n
      BY <1>0, <1>1, <3>1
    <3> QED BY <1>0, <1>2, <1>5, <2>2, <3>2
  <2> QED BY <2>1, <2>2
<1>12. Passed'
  <2> SUFFICES ASSUME NEW k \in 1..Len(making'), making'[k].kind = "new",
                      k = Len(making') \/ making'[k + 1].kind = "listeners"
               PROVE  settled[making'[k].object] = making'[k].result
    BY <1>3 DEF Passed
  <2>1. k # n + 1 /\ k # n + 2
    BY <1>0, <1>1, <1>2
  <2>2. k \in 1..n /\ k # n
    BY <1>0, <1>1, <1>4, <1>5, <2>1
  <2> QED BY <1>0, <1>1, <1>7, <2>2 DEF OwnInv, Passed, n
<1>13. Called'
  <2> SUFFICES ASSUME NEW k \in 1..Len(making'), making'[k].kind = "init", k > 1,
                      making'[k - 1].kind = "new"
               PROVE  given[making'[k].object] = making'[k].object
    BY <1>3 DEF Called
  <2>1. k \in 1..n
    BY <1>2, <1>5
  <2> QED BY <1>1, <1>8, <2>1 DEF OwnInv, Called, n
<1>14. Making'
  <2> SUFFICES ASSUME NEW k \in 1..Len(making')
               PROVE  /\ reported[making'[k].object] = "no"
                      /\ making'[k].kind = "new" =>
                           making'[k].object \in alive' /\ Ours(making'[k].object)
    BY <1>3 DEF Making, Ours
  <2>1. CASE k \in 1..n
    BY <1>1, <1>3, <2>1 DEF OwnInv, Making, n
  <2> QED BY <1>2, <1>3, <1>5, <1>6, <2>1 DEF Ours
<1>15. Unmade'
  BY <1>0, <1>3 DEF OwnInv, Unmade, Objects, ConstructionParameters, o
<1>16. Done'
  BY <1>3, <1>6 DEF OwnInv, Done, Ours
<1> QED BY <1>9, <1>10, <1>11, <1>12, <1>13, <1>14, <1>15, <1>16 DEF OwnInv, StackInv

\* The script is given to an object without new().
LEMMA OwnScript ==
  ASSUME ConstructionParameters, ~Listeners, TypeInv, OwnInv, SetScript
  PROVE  OwnInv'
<1> DEFINE n == Len(making)
           o == objects + 1
<1>0. /\ n \in Nat /\ objects \in Nat
      /\ \A k \in 1..n : making[k].object \in Objects /\ making[k].object <= objects /\ making[k].object # o
  BY StackElements
<1>1. /\ Len(making') = n + 1 /\ \A k \in 1..n : making'[k] = making[k]
  BY PushedScript
<1>2. making'[n + 1].kind = "members" /\ making'[n + 1].object = o /\ o \in Objects
  BY PushedScript DEF Stage
<1>3. /\ objects' = o /\ alive' = alive \cup {o} /\ UNCHANGED <<hasInit, given, settled, reported>>
  BY DEF SetScript, Makes, ghosts
<1>4. n # 0 => making[n].kind # "new" /\ making[n].kind # "listeners"
  BY <1>0 DEF SetScript, MayMake, At, Newest
<1>5. \A k \in 1..Len(making') : k \in 1..n \/ k = n + 1
  BY <1>0, <1>1
<1>6. given[o] = NoObject /\ settled[o] = "no" /\ reported[o] = "no"
  BY <1>0, <1>2 DEF OwnInv, Unmade
<1> HIDE DEF n, o
<1>7. \A k \in 1..n : (k < n => k + 1 \in 1..n) /\ (k > 1 => k - 1 \in 1..n)
  BY <1>0
<1>8. Paired' /\ Telling'
  <2> SUFFICES ASSUME NEW k \in 1..Len(making'), k < Len(making')
               PROVE  /\ making'[k].kind = "new" =>
                           making'[k + 1].kind # "new" /\ making'[k + 1].object = making'[k].object
                      /\ making'[k].kind = "listeners" => making'[k + 1].kind = "new"
    BY DEF Paired, Telling
  <2>1. k \in 1..n
    BY <1>0, <1>1
  <2>2. CASE k = n
    BY <1>1, <1>4, <2>1, <2>2
  <2>3. CASE k # n
    BY <1>0, <1>1, <1>7, <2>1, <2>3 DEF OwnInv, StackInv, Paired, Telling, n
  <2> QED BY <2>2, <2>3
<1>9. Single'
  <2> SUFFICES ASSUME NEW j \in 1..Len(making'), NEW k \in 1..Len(making'), j < k,
                      making'[j].object = making'[k].object
               PROVE  making'[j].kind = "new" /\ k = j + 1
    BY DEF Single
  <2>1. j \in 1..n
    BY <1>0, <1>1
  <2>2. k \in 1..n
    BY <1>0, <1>1, <1>2, <1>5, <2>1
  <2> QED BY <1>1, <2>1, <2>2 DEF OwnInv, StackInv, Single, n
<1>10. Passed'
  <2> SUFFICES ASSUME NEW k \in 1..Len(making'), making'[k].kind = "new",
                      k = Len(making') \/ making'[k + 1].kind = "listeners"
               PROVE  settled[making'[k].object] = making'[k].result
    BY <1>3 DEF Passed
  <2>1. k # n + 1
    BY <1>2
  <2>2. k \in 1..n /\ k # n
    BY <1>0, <1>1, <1>4, <1>5, <2>1
  <2> QED BY <1>0, <1>1, <1>7, <2>2 DEF OwnInv, Passed, n
<1>11. Called'
  <2> SUFFICES ASSUME NEW k \in 1..Len(making'), making'[k].kind = "init", k > 1,
                      making'[k - 1].kind = "new"
               PROVE  given[making'[k].object] = making'[k].object
    BY <1>3 DEF Called
  <2>1. k \in 1..n
    BY <1>2, <1>5
  <2> QED BY <1>1, <1>7, <2>1 DEF OwnInv, Called, n
<1>12. Making'
  <2> SUFFICES ASSUME NEW k \in 1..Len(making')
               PROVE  /\ reported[making'[k].object] = "no"
                      /\ making'[k].kind = "new" =>
                           making'[k].object \in alive' /\ Ours(making'[k].object)
    BY <1>3 DEF Making, Ours
  <2>1. CASE k \in 1..n
    BY <1>1, <1>3, <2>1 DEF OwnInv, Making, n
  <2> QED BY <1>2, <1>3, <1>5, <1>6, <2>1
<1>13. Unmade'
  BY <1>0, <1>3 DEF OwnInv, Unmade, Objects, ConstructionParameters, o
<1>14. Done'
  BY <1>3, <1>6 DEF OwnInv, Done, Ours
<1> QED BY <1>8, <1>9, <1>10, <1>11, <1>12, <1>13, <1>14 DEF OwnInv, StackInv

\* set_script goes on with its object.
LEMMA StackTurned ==
  ASSUME ConstructionParameters, TypeInv, StackInv, making # <<>>, Newest.kind # "new",
         Len(making') = Len(making), Agrees(making', Len(making) - 1),
         making'[Len(making)].kind \in {"init", "listeners"}, making'[Len(making)].object = Newest.object
  PROVE  StackInv'
<1> DEFINE n == Len(making)
<1>1. n \in Nat \ {0} /\ making[n] = Newest
  BY Popped
<1>2. ASSUME NEW k \in 1..n
      PROVE  /\ making'[k].object = making[k].object
             /\ k < n => making'[k].kind = making[k].kind
             /\ k < n => k + 1 \in 1..n
             /\ k = n => making'[k].kind \in {"init", "listeners"}
  BY <1>1 DEF Agrees
<1> HIDE DEF n
<1>3. Paired' /\ Telling'
  <2> SUFFICES ASSUME NEW k \in 1..n, k < n
               PROVE  /\ making'[k].kind = "new" =>
                           making'[k + 1].kind # "new" /\ making'[k + 1].object = making'[k].object
                      /\ making'[k].kind = "listeners" => making'[k + 1].kind = "new"
    BY DEF Paired, Telling, n
  <2>1. k + 1 \in 1..n /\ making'[k].kind = making[k].kind /\ making'[k].object = making[k].object
    BY <1>2
  <2>2. /\ making[k].kind = "new" => making[k + 1].kind # "new" /\ making[k + 1].object = making[k].object
        /\ making[k].kind = "listeners" => making[k + 1].kind = "new"
    BY DEF StackInv, Paired, Telling, n
  <2>3. k + 1 < n => making'[k + 1].kind = making[k + 1].kind
    BY <1>2, <2>1
  <2>4. k + 1 = n => making[k + 1].kind # "new" /\ making'[k + 1].kind # "new"
    BY <1>1, <1>2, <2>1
  <2>5. k + 1 < n \/ k + 1 = n
    BY <1>1, <2>1
  <2> QED BY <1>2, <2>1, <2>2, <2>3, <2>4, <2>5
<1>4. Single'
  <2> SUFFICES ASSUME NEW j \in 1..n, NEW k \in 1..n, j < k, making'[j].object = making'[k].object
               PROVE  making'[j].kind = "new" /\ k = j + 1
    BY DEF Single, n
  <2>1. j < n
    BY <1>1
  <2> QED BY <1>2, <2>1 DEF StackInv, Single, n
<1> QED BY <1>3, <1>4 DEF StackInv

\* The innermost new() in progress, when its set_script is on top.
LEMMA Innermost ==
  ASSUME ConstructionParameters, TypeInv, StackInv, making # <<>>, Newest.kind # "new",
         NEW k \in 1..(Len(making) - 1), making[k].kind = "new"
  PROVE  /\ k <= pendingError /\ pendingError \in 1..(Len(making) - 1)
         /\ making[k].object = Newest.object => k = Len(making) - 1
         /\ k = Len(making) - 1 => /\ pendingError = k /\ pendingArgs = making[k].object
                                   /\ making[k].object = Newest.object
<1>1. Len(making) \in Nat \ {0} /\ Newest = making[Len(making)]
      /\ LastNew(making, Len(making) - 1, pendingError, pendingArgs)
  BY Popped, LastBelow
<1>2. k <= pendingError /\ pendingError \in 1..(Len(making) - 1)
  BY <1>1 DEF LastNew
<1>3. k \in 1..Len(making) /\ Len(making) \in 1..Len(making) /\ k < Len(making)
  BY <1>1
<1>4. making[k].object = Newest.object => k = Len(making) - 1
  BY <1>1, <1>3 DEF StackInv, Single
<1>5. k = Len(making) - 1 => k + 1 = Len(making) /\ making[k].object = Newest.object
  BY <1>1, <1>3 DEF StackInv, Paired
<1>6. k = Len(making) - 1 => pendingError = k /\ pendingArgs = making[k].object
  BY <1>1, <1>2 DEF LastNew
<1> QED BY <1>2, <1>4, <1>5, <1>6

LEMMA OwnCall ==
  ASSUME ConstructionParameters, TypeInv, OwnInv, CallInit
  PROVE  OwnInv'
<1> DEFINE n == Len(making)
           o == Newest.object
<1>1. /\ making # <<>> /\ Newest.kind = "members" /\ making' = Append(Older, Stage("init", o))
      /\ UNCHANGED <<hasInit, objects, alive, settled, reported>>
      /\ given' = [given EXCEPT ![o] = pendingArgs]
  BY DEF CallInit, At
<1>2. /\ Len(making') = n /\ n \in Nat \ {0} /\ Agrees(making', n - 1)
      /\ \A k \in 1..(n - 1) : making'[k] = making[k]
      /\ making'[n].kind = "init" /\ making'[n].object = o
  <2> DEFINE f == Stage("init", o)
  <2>1. f.kind = "init" /\ f.object = o
    BY DEF Stage
  <2>2. /\ Len(making') = n /\ n \in Nat \ {0} /\ Agrees(making', n - 1)
        /\ \A k \in 1..(n - 1) : making'[k] = making[k]
        /\ making'[n] = f
    BY <1>1, Turned
  <2> HIDE DEF f
  <2> QED BY <2>1, <2>2
<1>3. /\ making[n] = Newest /\ o \in Objects /\ o <= objects /\ n \in 1..n /\ reported[o] = "no"
  BY <1>1, <1>2, StackElements DEF Newest, OwnInv, Making
<1>4. StackInv'
  BY <1>1, <1>2, StackTurned DEF OwnInv
<1>5. given'[o] = pendingArgs /\ \A p \in Objects : p # o => given'[p] = given[p]
  BY <1>1, <1>3 DEF TypeInv, FieldsOK
<1>6. ASSUME NEW k \in 1..(n - 1), making[k].kind = "new"
      PROVE  /\ making[k].object = o => k = n - 1
             /\ k = n - 1 => pendingArgs = o /\ making[k].object = o
  BY <1>1, <1>6, Innermost DEF OwnInv
<1> HIDE DEF n, o
<1>7. Passed'
  <2> SUFFICES ASSUME NEW k \in 1..n, making'[k].kind = "new",
                      k = n \/ making'[k + 1].kind = "listeners"
               PROVE  settled[making'[k].object] = making'[k].result
    BY <1>1, <1>2 DEF Passed, n
  <2>1. k \in 1..(n - 1) /\ k + 1 \in 1..(n - 1)
    BY <1>2
  <2> QED BY <1>2, <2>1 DEF OwnInv, Passed, n
<1>8. Called'
  <2> SUFFICES ASSUME NEW k \in 1..n, making'[k].kind = "init", k > 1, making'[k - 1].kind = "new"
               PROVE  given'[making'[k].object] = making'[k].object
    BY <1>2 DEF Called, n
  <2>1. k - 1 \in 1..(n - 1) /\ making[k - 1].kind = "new"
    BY <1>2
  <2>2. CASE k = n
    BY <1>2, <1>5, <1>6, <2>1, <2>2
  <2>3. CASE k # n
    <3>1. k \in 1..(n - 1) /\ making'[k] = making[k] /\ making[k].object \in Objects
      BY <1>2, <2>3, StackElements DEF n
    <3>2. making[k].object # o
      BY <1>1, <1>2, <1>3, <3>1 DEF OwnInv, StackInv, Single, n, o
    <3> QED BY <1>5, <2>1, <3>1, <3>2 DEF OwnInv, Called, n
  <2> QED BY <2>2, <2>3
<1>9. Making'
  <2> SUFFICES ASSUME NEW k \in 1..n
               PROVE  /\ reported[making'[k].object] = "no"
                      /\ making'[k].kind = "new" =>
                           /\ making'[k].object \in alive
                           /\ given'[making'[k].object] \in {NoObject, making'[k].object}
                           /\ hasInit /\ settled[making'[k].object] = "ok" =>
                                given'[making'[k].object] = making'[k].object
    BY <1>1, <1>2 DEF Making, Ours, n
  <2>1. CASE k = n
    BY <1>2, <1>3, <2>1
  <2>2. CASE k # n
    <3>1. k \in 1..(n - 1) /\ making'[k] = making[k] /\ making[k].object \in Objects
      BY <1>2, <2>2, StackElements DEF n
    <3>2. reported[making[k].object] = "no"
          /\ (making[k].kind = "new" => making[k].object \in alive /\ Ours(making[k].object))
      BY DEF OwnInv, Making, n
    <3>3. making[k].kind = "new" /\ making[k].object = o => given'[o] = o
      BY <1>5, <1>6, <3>1
    <3> QED BY <1>1, <1>5, <3>1, <3>2, <3>3 DEF Ours
  <2> QED BY <2>1, <2>2
<1>10. Unmade'
  BY <1>1, <1>3, <1>5, StackElements DEF OwnInv, Unmade, Objects, ConstructionParameters
<1>11. Done'
  BY <1>1, <1>3, <1>5 DEF OwnInv, Done, Ours
<1> QED BY <1>4, <1>7, <1>8, <1>9, <1>10, <1>11 DEF OwnInv

LEMMA OwnEnd ==
  ASSUME ConstructionParameters, TypeInv, OwnInv, NEW result \in Results, Ends(result),
         At("members") \/ At("init"), hasInit /\ result = "ok" => At("init")
  PROVE  OwnInv'
<1> DEFINE n == Len(making)
           o == Newest.object
<1>1. /\ making # <<>> /\ Newest.kind # "new"
      /\ making' = Append(Written(Older, result), Stage("listeners", o))
      /\ UNCHANGED <<hasInit, objects, alive, given, reported>>
      /\ settled' = [settled EXCEPT ![o] = result]
  BY DEF Ends, At
<1>2. /\ Len(making') = n /\ n \in Nat \ {0} /\ Agrees(making', n - 1)
      /\ \A k \in 1..(n - 1) : k # pendingError => making'[k] = making[k]
      /\ pendingError # 0 => making'[pendingError].result = result
      /\ making'[n].kind = "listeners" /\ making'[n].object = o
  <2> DEFINE q == Written(Older, result)
             f == Stage("listeners", Newest.object)
  <2>1. f.kind = "listeners" /\ f.object = o
    BY DEF Stage
  <2>2. q = Older \/ \E r \in Results : q = Written(Older, r)
    OBVIOUS
  <2> HIDE DEF q
  <2>3. /\ Len(making') = n /\ n \in Nat \ {0} /\ Agrees(making', n - 1)
        /\ \A k \in 1..(n - 1) : k # pendingError => making'[k] = making[k]
        /\ making'[n] = f
        /\ \A r \in Results : q = Written(Older, r) /\ pendingError # 0 =>
             making'[pendingError].result = r
    BY <1>1, <2>2, Turned DEF q
  <2> HIDE DEF f
  <2> QED BY <2>1, <2>3 DEF q
<1>3. /\ making[n] = Newest /\ o \in Objects /\ o <= objects /\ n \in 1..n /\ reported[o] = "no"
  BY <1>1, <1>2, StackElements DEF Newest, OwnInv, Making
<1>4. StackInv'
  BY <1>1, <1>2, StackTurned DEF OwnInv
<1>5. settled'[o] = result /\ \A p \in Objects : p # o => settled'[p] = settled[p]
  BY <1>1, <1>3 DEF TypeInv, FieldsOK
<1>6. ASSUME NEW k \in 1..(n - 1), making[k].kind = "new"
      PROVE  /\ making[k].object = o => k = n - 1
             /\ k = n - 1 => pendingError = k /\ making[k].object = o
             /\ k <= pendingError /\ pendingError \in 1..(n - 1)
  BY <1>1, <1>6, Innermost DEF OwnInv
<1>7. ASSUME NEW k \in 1..(n - 1)
      PROVE  /\ making'[k].kind = making[k].kind /\ making'[k].object = making[k].object
             /\ making[k].object \in Objects /\ k \in 1..n
  BY <1>2, StackElements DEF Agrees
<1>8. hasInit /\ result = "ok" => making[n].kind = "init"
  BY <1>3 DEF At
<1> HIDE DEF n, o
<1>9. Passed'
  <2> SUFFICES ASSUME NEW k \in 1..n, making'[k].kind = "new",
                      k = n \/ making'[k + 1].kind = "listeners"
               PROVE  settled'[making'[k].object] = making'[k].result
    BY <1>2 DEF Passed, n
  <2>1. k \in 1..(n - 1) /\ making[k].kind = "new"
    BY <1>2, <1>7
  <2>2. CASE k = n - 1
    BY <1>2, <1>5, <1>6, <1>7, <2>1, <2>2
  <2>3. CASE k # n - 1
    <3>1. k + 1 \in 1..(n - 1) /\ making[k + 1].kind = "listeners" /\ k + 2 \in 1..n
      BY <1>2, <1>7, <2>1, <2>3
    <3>2. making[k + 2].kind = "new"
      BY <1>2, <3>1 DEF OwnInv, StackInv, Telling, n
    <3>3. k + 2 \in 1..(n - 1)
      BY <1>1, <1>2, <1>3, <3>1, <3>2
    <3>4. k # pendingError
      BY <1>6, <2>1, <3>2, <3>3
    <3>5. settled[making[k].object] = making[k].result
      BY <2>1, <3>1, <1>7 DEF OwnInv, Passed, n
    <3>6. making[k].object # o
      BY <1>6, <2>1, <2>3
    <3> QED BY <1>2, <1>5, <1>7, <2>1, <3>4, <3>5, <3>6
  <2> QED BY <2>2, <2>3
<1>10. Called'
  <2> SUFFICES ASSUME NEW k \in 1..n, making'[k].kind = "init", k > 1, making'[k - 1].kind = "new"
               PROVE  given[making'[k].object] = making'[k].object
    BY <1>1, <1>2 DEF Called, n
  <2>1. k \in 1..(n - 1) /\ k - 1 \in 1..(n - 1)
    BY <1>2
  <2> QED BY <1>7, <2>1 DEF OwnInv, Called, n
<1>11. Making'
  <2> SUFFICES ASSUME NEW k \in 1..n
               PROVE  /\ reported[making'[k].object] = "no"
                      /\ making'[k].kind = "new" =>
                           /\ making'[k].object \in alive
                           /\ given[making'[k].object] \in {NoObject, making'[k].object}
                           /\ hasInit /\ settled'[making'[k].object] = "ok" =>
                                given[making'[k].object] = making'[k].object
    BY <1>1, <1>2 DEF Making, Ours, n
  <2>1. CASE k = n
    BY <1>2, <1>3, <2>1
  <2>2. CASE k # n
    <3>1. k \in 1..(n - 1)
      BY <1>2, <2>2
    <3>2. reported[making[k].object] = "no"
          /\ (making[k].kind = "new" => making[k].object \in alive /\ Ours(making[k].object))
      BY DEF OwnInv, Making, n
    <3>3. ASSUME making[k].kind = "new", making[k].object = o, hasInit, result = "ok"
          PROVE  given[o] = o
      <4>1. k = n - 1 /\ making[n].kind = "init" /\ making[n].object = o
        BY <1>3, <1>6, <1>8, <3>1, <3>3 DEF o
      <4>2. n \in 1..n /\ n > 1 /\ making[n - 1].kind = "new"
        BY <1>2, <3>1, <3>3, <4>1
      <4> QED BY <4>1, <4>2 DEF OwnInv, Called, n
    <3> QED BY <1>1, <1>5, <1>7, <3>1, <3>2, <3>3 DEF Ours
  <2> QED BY <2>1, <2>2
<1>12. Unmade'
  BY <1>1, <1>3, <1>5, StackElements DEF OwnInv, Unmade, Objects, ConstructionParameters
<1>13. Done'
  BY <1>1, <1>3, <1>5 DEF OwnInv, Done, Ours
<1> QED BY <1>4, <1>9, <1>10, <1>11, <1>12, <1>13 DEF OwnInv

\* A call returns.
LEMMA StackPopped ==
  ASSUME TypeInv, StackInv, making # <<>>, making' = Older
  PROVE  StackInv'
<1>1. /\ Len(making) \in Nat \ {0} /\ Len(making') = Len(making) - 1
      /\ \A k \in 1..(Len(making) - 1) : making'[k] = making[k]
  BY Popped
<1> DEFINE n == Len(making)
           m == Len(making')
<1> HIDE DEF n, m
<1>2. m = n - 1 /\ n \in Nat \ {0} /\ \A k \in 1..m : making'[k] = making[k]
  BY <1>1 DEF n, m
<1>3. Paired' /\ Telling'
  <2> SUFFICES ASSUME NEW k \in 1..m, k < m
               PROVE  /\ making'[k].kind = "new" =>
                           making'[k + 1].kind # "new" /\ making'[k + 1].object = making'[k].object
                      /\ making'[k].kind = "listeners" => making'[k + 1].kind = "new"
    BY DEF Paired, Telling, m
  <2>1. k \in 1..n /\ k < n /\ k + 1 \in 1..m
    BY <1>2
  <2>2. making'[k] = making[k] /\ making'[k + 1] = making[k + 1]
    BY <1>2, <2>1
  <2> QED BY <2>1, <2>2 DEF StackInv, Paired, Telling, n
<1>4. Single'
  <2> SUFFICES ASSUME NEW j \in 1..m, NEW k \in 1..m, j < k, making'[j].object = making'[k].object
               PROVE  making'[j].kind = "new" /\ k = j + 1
    BY DEF Single, m
  <2>1. j \in 1..n /\ k \in 1..n /\ making'[j] = making[j] /\ making'[k] = making[k]
    BY <1>2
  <2> QED BY <2>1 DEF StackInv, Single, n
<1> QED BY <1>3, <1>4 DEF StackInv

LEMMA OwnSetScriptReturns ==
  ASSUME ConstructionParameters, TypeInv, OwnInv, SetScriptReturns
  PROVE  OwnInv'
<1> DEFINE n == Len(making)
<1>1. /\ making # <<>> /\ Newest.kind = "listeners" /\ making' = Older
      /\ UNCHANGED <<hasInit, objects, alive, given, settled, reported>>
  BY DEF SetScriptReturns, At, ghosts
<1>2. /\ n \in Nat \ {0} /\ Len(making') = n - 1 /\ making[n].kind = "listeners"
      /\ \A k \in 1..(n - 1) : making'[k] = making[k] /\ k \in 1..n
  BY <1>1, Popped
<1>3. StackInv'
  BY <1>1, StackPopped DEF OwnInv
<1> HIDE DEF n
<1>4. Passed'
  <2> SUFFICES ASSUME NEW k \in 1..(n - 1), making'[k].kind = "new",
                      k = n - 1 \/ making'[k + 1].kind = "listeners"
               PROVE  settled[making'[k].object] = making'[k].result
    BY <1>1, <1>2 DEF Passed
  <2>1. making[k + 1].kind = "listeners"
    <3>1. CASE k = n - 1
      BY <1>2, <3>1
    <3>2. CASE k # n - 1
      BY <1>2, <3>2
    <3> QED BY <3>1, <3>2
  <2> QED BY <1>2, <2>1 DEF OwnInv, Passed, n
<1>5. Called'
  <2> SUFFICES ASSUME NEW k \in 1..(n - 1), making'[k].kind = "init", k > 1,
                      making'[k - 1].kind = "new"
               PROVE  given[making'[k].object] = making'[k].object
    BY <1>1, <1>2 DEF Called
  <2>1. k - 1 \in 1..(n - 1)
    BY <1>2
  <2> QED BY <1>2, <2>1 DEF OwnInv, Called, n
<1>6. Making'
  BY <1>1, <1>2 DEF OwnInv, Making, Ours, n
<1>7. Unmade' /\ Done'
  BY <1>1 DEF OwnInv, Unmade, Done, Ours
<1> QED BY <1>3, <1>4, <1>5, <1>6, <1>7 DEF OwnInv

\* A new() returns: nothing in progress works on its object any more.
LEMMA OwnNewReturns ==
  ASSUME ConstructionParameters, TypeInv, OwnInv, NewReturns
  PROVE  OwnInv'
<1> DEFINE n == Len(making)
           o == Newest.object
<1>1. /\ making # <<>> /\ Newest.kind = "new" /\ making' = Older
      /\ UNCHANGED <<hasInit, objects, given, settled>>
      /\ reported' = [reported EXCEPT ![o] = Newest.result]
      /\ alive' = IF Newest.result = "failed" THEN alive \ {o} ELSE alive
  BY DEF NewReturns, At
<1>2. /\ n \in Nat \ {0} /\ Len(making') = n - 1 /\ making[n] = Newest /\ n \in 1..n
      /\ o \in Objects /\ o <= objects /\ Newest.result \in Results
      /\ \A k \in 1..(n - 1) : making'[k] = making[k] /\ k \in 1..n
  BY <1>1, Popped DEF Framed, Frames
<1>3. StackInv'
  BY <1>1, StackPopped DEF OwnInv
<1>4. settled[o] = Newest.result /\ o \in alive /\ Ours(o)
  BY <1>1, <1>2 DEF OwnInv, Passed, Making
<1> HIDE DEF n, o
<1>5. \A k \in 1..(n - 1) : k + 1 \in 1..n /\ (k > 1 => k - 1 \in 1..(n - 1))
  BY <1>2
<1>6. ASSUME NEW k \in 1..(n - 1)
      PROVE  /\ making[k].object # o
             /\ k = n - 1 => making[k].kind # "new"
  <2>1. k \in 1..Len(making) /\ k < Len(making) /\ k < n
    BY <1>2 DEF n
  <2>2. making[k].kind = "new" /\ k + 1 = n => FALSE
    BY <1>1, <1>2, <2>1 DEF OwnInv, StackInv, Paired
  <2> QED BY <1>2, <2>1, <2>2 DEF OwnInv, StackInv, Single, n, o
<1>7. Passed'
  <2> SUFFICES ASSUME NEW k \in 1..(n - 1), making'[k].kind = "new",
                      k = n - 1 \/ making'[k + 1].kind = "listeners"
               PROVE  settled[making'[k].object] = making'[k].result
    BY <1>1, <1>2 DEF Passed
  <2>1. k # n - 1 /\ k + 1 \in 1..(n - 1)
    BY <1>2, <1>6
  <2> QED BY <1>2, <2>1 DEF OwnInv, Passed, n
<1>8. Called'
  <2> SUFFICES ASSUME NEW k \in 1..(n - 1), making'[k].kind = "init", k > 1,
                      making'[k - 1].kind = "new"
               PROVE  given[making'[k].object] = making'[k].object
    BY <1>1, <1>2 DEF Called
  <2> QED BY <1>2, <1>5 DEF OwnInv, Called, n
<1>9. reported'[o] = Newest.result /\ \A p \in Objects : p # o => reported'[p] = reported[p]
  BY <1>1, <1>2 DEF TypeInv, FieldsOK
<1>10. \A p : p # o => (p \in alive' <=> p \in alive)
  BY <1>1
<1>11. Making'
  <2> SUFFICES ASSUME NEW k \in 1..(n - 1)
               PROVE  /\ reported'[making'[k].object] = "no"
                      /\ making'[k].kind = "new" =>
                           making'[k].object \in alive' /\ Ours(making'[k].object)
    BY <1>1, <1>2 DEF Making, Ours
  <2>1. making'[k] = making[k] /\ making[k].object \in Objects /\ k \in 1..n
    BY <1>2, StackElements DEF n
  <2>2. reported[making[k].object] = "no"
        /\ (making[k].kind = "new" => making[k].object \in alive /\ Ours(making[k].object))
    BY <2>1 DEF OwnInv, Making, n
  <2> QED BY <1>6, <1>9, <1>10, <2>1, <2>2
<1>12. Unmade'
  BY <1>1, <1>2, <1>9, StackElements DEF OwnInv, Unmade, Objects, ConstructionParameters
<1>13. Done'
  <2> SUFFICES ASSUME NEW p \in Objects, reported'[p] # "no"
               PROVE  Ours(p) /\ reported'[p] = settled[p] /\ (p \in alive' <=> settled[p] = "ok")
    BY <1>1 DEF Done, Ours
  <2>1. CASE p = o
    BY <1>1, <1>2, <1>4, <1>9, <2>1 DEF Results
  <2>2. CASE p # o
    BY <1>9, <1>10, <2>2 DEF OwnInv, Done
  <2> QED BY <2>1, <2>2
<1> QED BY <1>3, <1>7, <1>8, <1>11, <1>12, <1>13 DEF OwnInv

LEMMA OwnStep ==
  ASSUME ConstructionParameters, ~Listeners, TypeInv, OwnInv, ConstructionNext
  PROVE  OwnInv'
<1>1. CASE InitializersEnd
  <2>1. PICK result \in Results : Ends(result) /\ (hasInit => result # "ok")
    BY <1>1 DEF InitializersEnd, Results
  <2> QED BY <1>1, <2>1, OwnEnd DEF InitializersEnd
<1>2. CASE InitEnds
  <2>1. PICK result \in Results : Ends(result)
    BY <1>2 DEF InitEnds, Results
  <2> QED BY <1>2, <2>1, OwnEnd DEF InitEnds
<1> QED BY <1>1, <1>2, OwnNew, OwnScript, OwnCall, OwnSetScriptReturns, OwnNewReturns DEF ConstructionNext

\* As long as no listener of script_changed gives the script to a further object: however many
\* objects are made inside each other, new() gives its object its own arguments, reports what
\* became of that object, and frees it just when that failed.
THEOREM EachItsOwn == ASSUME ConstructionParameters, ~Listeners PROVE ConstructionSpec => []NewIsOwn
<1>1. ConstructionInit => OwnInv
  <2> SUFFICES ASSUME ConstructionInit PROVE OwnInv
    OBVIOUS
  <2>1. 1..Len(making) = {}
    BY DEF ConstructionInit
  <2> QED BY <2>1 DEF ConstructionInit, OwnInv, StackInv, Paired, Telling, Single, Passed, Called, Making,
                      Unmade, Done
<1>2. TypeInv /\ OwnInv /\ [ConstructionNext]_constructionVars => OwnInv'
  <2> SUFFICES ASSUME TypeInv, OwnInv, [ConstructionNext]_constructionVars PROVE OwnInv'
    OBVIOUS
  <2>1. CASE UNCHANGED constructionVars
    BY <2>1 DEF constructionVars, ghosts, OwnInv, StackInv, Paired, Telling, Single, Passed, Called, Making,
                Unmade, Done, Ours
  <2> QED BY <2>1, OwnStep
<1>3. TypeInv /\ OwnInv => NewIsOwn
  <2> SUFFICES ASSUME TypeInv, OwnInv PROVE NewIsOwn
    OBVIOUS
  <2>1. Len(making) \in Nat /\ DOMAIN making = 1..Len(making) /\ 1..objects \subseteq Objects
    BY DEF TypeInv, StackOK, FieldsOK, Objects, ConstructionParameters
  <2>2. ASSUME NEW o \in 1..objects
        PROVE  /\ IsNew(o) => Ours(o)
               /\ reported[o] # "no" => reported[o] = settled[o] /\ (o \in alive <=> settled[o] = "ok")
    BY <2>1 DEF IsNew, OwnInv, Making, Done
  <2>3. pendingError # 0 => pendingError \in DOMAIN making /\ making[pendingError].object = pendingArgs
    BY <2>1 DEF TypeInv, LastNew
  <2>4. making = <<>> => pendingArgs = NoObject
    BY DEF TypeInv, LastNew
  <2> QED BY <2>2, <2>3, <2>4 DEF NewIsOwn, Ours
<1> QED BY TypeInvCorrect, <1>1, <1>2, <1>3, PTL DEF ConstructionSpec

-----------------------------------------------------------------------------
(* The parts together.                                                       *)

\* A step of the composition is a step of the part that runs.
LEMMA PartSteps ==
  ASSUME MCNext
  PROVE  \/ SlotsNext /\ Computes
         \/ CModuleNext /\ Builds
         \/ GodotJITNext /\ Owns
         \/ ConstructionNext /\ MakesObjects
BY Zenon DEF MCNext, SlotsNext, CModuleNext, Step, GodotJITNext, ConstructionNext

\* What the runs check of the parts together is what each part specifies by itself.
THEOREM PartsKept ==
  MCSpec => SlotsSpec /\ CModuleSpec /\ GodotJITSpec /\ ConstructionSpec
<1>1. MCInit => SlotsInit /\ CModuleInit /\ GodotJITInit /\ ConstructionInit
  BY DEF MCInit
<1>2. [MCNext]_<<part, slotVars, moduleVars, constructionVars, objectVars>> =>
        /\ [SlotsNext]_slotVars /\ [CModuleNext]_moduleVars
        /\ [GodotJITNext]_objectVars /\ [ConstructionNext]_constructionVars
  BY PartSteps DEF Computes, Builds, Owns, MakesObjects
<1> QED BY <1>1, <1>2, PTL DEF MCSpec, SlotsSpec, CModuleSpec, GodotJITSpec, ConstructionSpec

\* The variables of every part keep their types.
THEOREM NativeTypeCorrect == MCSpec => []EveryTypeOK
<1>1. GodotJITSpec => []GodotJITTypeOK
  <2>1. GodotJITParameters
    BY Bounds DEF Bounds
  <2>2. GodotJITInit => JITInv
    BY <2>1, JITInit
  <2>3. JITInv /\ [GodotJITNext]_objectVars => JITInv'
    BY <2>1, JITStep
  <2>4. JITInv => GodotJITTypeOK
    BY DEF JITInv
  <2> QED BY <2>2, <2>3, <2>4, PTL DEF GodotJITSpec
<1>2. SlotsSpec => []SlotsTypeOK
  BY Bounds, SlotsTypeCorrect
<1>3. CModuleSpec => []CModuleTypeOK
  BY Bounds, ModuleTypeCorrect
<1>4. ConstructionSpec => []ConstructionTypeOK
  BY Bounds, ConstructionTypeCorrect
<1> QED BY <1>1, <1>2, <1>3, <1>4, PartsKept, PTL DEF EveryTypeOK
=============================================================================
