------------------------------ MODULE CModule ------------------------------
(***************************************************************************)
(* Compiling C to executable memory (c_module.cpp): in process with TinyCC, *)
(* whose state is global to the process, or by running the compiler that    *)
(* GODOT_JIT_CC names and loading the library it writes.  compiler_mutex    *)
(* covers every use of either.  A thread compiles, looks up the symbols of  *)
(* its module, publishes them for perf and destroys the module; each step   *)
(* may fail.  The process may die at any point and another one be given its *)
(* number, and so the name of its perf map.                                 *)
(***************************************************************************)
EXTENDS Naturals, Sequences, FiniteSets

CONSTANTS
  Threads,
  Nobody,       \* the mutex is free
  MaxCompiles,  \* bound: compilations started
  MaxRestarts   \* bound: processes that die

CModuleParameters == Nobody \notin Threads /\ MaxCompiles \in Nat /\ MaxRestarts \in Nat

VARIABLES
  holder,    \* who holds compiler_mutex
  pc,        \* where each thread is
  owned,     \* resources of each thread's compilation
  child,     \* the compiler process each thread started
  compiled,  \* the module each thread has: "none", "tcc" or "library"
  compiles,  \* compilations started
  process,   \* processes so far with this number
  mapped,    \* write_perf_map's map_pid is this process
  perfMap,   \* /tmp/perf-<pid>.map: the process that wrote each module's lines
  appended   \* ghost: modules whose lines this process wrote

threads == <<pc, owned, child, compiled>>
files == <<mapped, perfMap, appended>>
moduleVars == <<holder, threads, compiles, process, files>>

CModuleInit ==
  /\ pc = [t \in Threads |-> "idle"] /\ owned = [t \in Threads |-> {}]
  /\ child = [t \in Threads |-> "none"] /\ compiled = [t \in Threads |-> "none"]
  /\ holder = Nobody
  /\ compiles = 0 /\ process = 1
  /\ mapped = FALSE /\ perfMap = <<>> /\ appended = 0

-----------------------------------------------------------------------------
(* A step of a thread: where it goes, what it holds.                        *)

Goto(t, place) == pc' = [pc EXCEPT ![t] = place]
Keeps == UNCHANGED <<owned, child, compiled>>
Shared == UNCHANGED <<compiles, process, files>>
Gains(t, things) == owned' = [owned EXCEPT ![t] = @ \cup things]

\* lock_guard on compiler_mutex, and its end.
Lock(t, place) == holder = Nobody /\ holder' = t /\ Goto(t, place)
Unlock(t, place) == holder' = Nobody /\ Goto(t, place)

\* One call in a row of calls: it succeeds, or the compilation unwinds.
Try(t, at, next, things) ==
  /\ pc[t] = at
  /\ \/ Goto(t, next) /\ Gains(t, things)
     \/ Goto(t, "unwind") /\ UNCHANGED owned
  /\ UNCHANGED <<holder, child, compiled>> /\ Shared

Compile(t) ==
  /\ pc[t] = "idle" /\ compiles < MaxCompiles
  /\ compiles' = compiles + 1
  /\ Goto(t, "lock")
  /\ Keeps /\ UNCHANGED <<holder, process, files>>

Enter(t) == pc[t] = "lock" /\ Lock(t, "begin") /\ Keeps /\ Shared

\* A NUL in the source is refused; else GODOT_JIT_CC chooses the compiler.
Begin(t) ==
  /\ pc[t] = "begin"
  /\ \E place \in {"unwind", "create", "mkdtemp"} : Goto(t, place)
  /\ Keeps /\ UNCHANGED holder /\ Shared

-----------------------------------------------------------------------------
(* TinyCC.                                                                  *)

\* A new state, its output type and symbols, the translation, the relocation.
CreateState(t) == Try(t, "create", "translate", {"state"})
Translate(t) == Try(t, "translate", "relocate", {})
Relocate(t) == Try(t, "relocate", "entry", {})

\* The module takes the state over.
FindEntry(t) ==
  /\ pc[t] = "entry"
  /\ compiled' = [compiled EXCEPT ![t] = "tcc"] /\ owned' = [owned EXCEPT ![t] = @ \ {"state"}]
  /\ Goto(t, "unwind")
  /\ UNCHANGED <<holder, child>> /\ Shared

\* Without the entry the state is deleted as after any other failure.
NoEntry_DropsModule(t) ==
  /\ pc[t] = "entry" /\ Goto(t, "dropped")
  /\ compiled' = [compiled EXCEPT ![t] = "tcc"] /\ owned' = [owned EXCEPT ![t] = @ \ {"state"}]
  /\ UNCHANGED <<holder, child>> /\ Shared
NoEntry(t) == pc[t] = "entry" /\ Goto(t, "unwind") /\ Keeps /\ UNCHANGED holder /\ Shared

-----------------------------------------------------------------------------
(* The system compiler.                                                     *)

MakeDirectory(t) == Try(t, "mkdtemp", "write", {"directory"})

\* The input may be there though writing it failed.
WriteUnit(t) ==
  /\ pc[t] = "write"
  /\ \E place \in {"fork", "unwind"} : Goto(t, place)
  /\ Gains(t, {"input"})
  /\ UNCHANGED <<holder, child, compiled>> /\ Shared

Fork(t) ==
  /\ pc[t] = "fork"
  /\ \/ child' = [child EXCEPT ![t] = "running"] /\ Goto(t, "wait")
     \/ UNCHANGED child /\ Goto(t, "unwind")
  /\ UNCHANGED <<holder, owned, compiled>> /\ Shared

\* The child redirects its output to the log, and the compiler writes the library.
ChildWrites(t) ==
  /\ child[t] = "running" /\ "directory" \in owned[t]
  /\ Gains(t, {"log"}) \/ Gains(t, {"log", "output"})
  /\ UNCHANGED <<holder, pc, child, compiled>> /\ Shared

ChildEnds(t) ==
  /\ child[t] = "running"
  /\ \E end \in {"failed"} \cup (IF "output" \in owned[t] THEN {"exited"} ELSE {}) :
       child' = [child EXCEPT ![t] = end]
  /\ UNCHANGED <<holder, pc, owned, compiled>> /\ Shared

\* waitpid: a signal interrupts it, which is tried again.
Interrupted_GivesUp(t) ==
  /\ pc[t] = "wait" /\ child[t] = "running"
  /\ Goto(t, "unwind") /\ Keeps /\ UNCHANGED holder /\ Shared
Interrupted(t) ==
  /\ pc[t] = "wait" /\ child[t] = "running"
  /\ Goto(t, "wait") /\ Keeps /\ UNCHANGED holder /\ Shared

\* The child has ended.  That its status was already collected is an error as well.
Wait(t) ==
  /\ pc[t] = "wait" /\ child[t] \in {"exited", "failed"}
  /\ child' = [child EXCEPT ![t] = "none"]
  /\ \/ child[t] = "exited" /\ Goto(t, "dlopen")
     \/ Goto(t, "unwind")
  /\ UNCHANGED <<holder, owned, compiled>> /\ Shared

Load(t) == Try(t, "dlopen", "dlsym", {"library"})

\* Without the entry the library is closed again.
Resolve(t) ==
  /\ pc[t] = "dlsym" /\ Goto(t, "unwind")
  /\ owned' = [owned EXCEPT ![t] = @ \ {"library"}]
  /\ \/ compiled' = [compiled EXCEPT ![t] = "library"]
     \/ UNCHANGED compiled
  /\ UNCHANGED <<holder, child>> /\ Shared

-----------------------------------------------------------------------------
(* The end of a compilation.  What was declared after the lock is destroyed *)
(* before it: the state is deleted, or Cleanup removes the directory.       *)

Released == {"state", "directory", "input", "log", "output"}

Unwind(t) ==
  /\ pc[t] = "unwind"
  /\ owned' = [owned EXCEPT ![t] = @ \ Released]
  /\ Goto(t, "return")
  /\ UNCHANGED <<holder, child, compiled>> /\ Shared

\* NativeProgram::compile goes on to the symbols; compile_c keeps the module as it is.
Return(t) ==
  /\ pc[t] = "return"
  /\ \/ compiled[t] = "none" /\ Unlock(t, "idle")
     \/ compiled[t] # "none" /\ \E place \in {"symbols", "kept"} : Unlock(t, place)
  /\ Keeps /\ Shared

-----------------------------------------------------------------------------
(* A module.                                                                *)

\* symbol, under the lock: the entry and function tables, later the names.
Lookup(t) == pc[t] \in {"symbols", "names"}
             /\ Lock(t, IF pc[t] = "symbols" THEN "looking" ELSE "naming") /\ Keeps /\ Shared
Found(t) == pc[t] \in {"looking", "naming"}
            /\ Unlock(t, IF pc[t] = "looking" THEN "publish" ELSE "named") /\ Keeps /\ Shared

\* A missing name table throws, which destroys the module outside the lock.
Named(t) == pc[t] = "named" /\ (\E place \in {"kept", "dropped"} : Goto(t, place))
            /\ Keeps /\ UNCHANGED holder /\ Shared

\* write_perf_map: nothing unless it is asked for, and never for a library.
NoMap(t) == pc[t] = "publish" /\ Goto(t, "names") /\ Keeps /\ UNCHANGED holder /\ Shared
PerfMap(t) == pc[t] = "publish" /\ compiled[t] = "tcc" /\ Lock(t, "open") /\ Keeps /\ Shared

\* The first map of a process truncates what another one may have left.  The file may not
\* open, not be ours, or not be truncated.
Truncated_Always == <<>>
Truncated == IF mapped THEN perfMap ELSE <<>>

OpenMap(t) ==
  /\ pc[t] = "open"
  /\ \/ perfMap' = Truncated /\ mapped' = TRUE /\ Goto(t, "append")
     \/ UNCHANGED <<perfMap, mapped>> /\ Goto(t, "close")
  /\ Keeps /\ UNCHANGED <<holder, compiles, process, appended>>

\* write is tried again after a signal and stops at any other error.  An entry stands
\* for whatever one module's lines left in the file: all of them, or those before the
\* error.  What the map must not hold is lines of another process.
AppendMap(t) ==
  /\ pc[t] = "append" /\ Goto(t, "close")
  /\ \/ perfMap' = Append(perfMap, process) /\ appended' = appended + 1
     \/ UNCHANGED <<perfMap, appended>>
  /\ Keeps /\ UNCHANGED <<holder, compiles, process, mapped>>

CloseMap(t) == pc[t] = "close" /\ Unlock(t, "names") /\ Keeps /\ Shared

\* The last owner lets go of the module; its destructor locks.
Drop(t) == pc[t] = "kept" /\ Goto(t, "dropped") /\ Keeps /\ UNCHANGED holder /\ Shared
Destroy_Unlocked(t) == pc[t] = "dropped" /\ Goto(t, "destroy") /\ Keeps /\ UNCHANGED holder /\ Shared
Destroy(t) == pc[t] = "dropped" /\ Lock(t, "destroy") /\ Keeps /\ Shared

Destroyed(t) ==
  /\ pc[t] = "destroy"
  /\ compiled' = [compiled EXCEPT ![t] = "none"]
  /\ Unlock(t, "idle")
  /\ UNCHANGED <<owned, child>> /\ Shared

-----------------------------------------------------------------------------
\* The process dies; the next one of this number starts with nothing but the perf map.
Restart ==
  /\ process <= MaxRestarts
  /\ process' = process + 1
  /\ pc' = [t \in Threads |-> "idle"] /\ owned' = [t \in Threads |-> {}]
  /\ child' = [t \in Threads |-> "none"] /\ compiled' = [t \in Threads |-> "none"]
  /\ holder' = Nobody /\ mapped' = FALSE /\ appended' = 0
  /\ UNCHANGED <<compiles, perfMap>>

\* What a thread does by itself once it has started to compile.
Step(t) ==
  \/ Enter(t) \/ Begin(t)
  \/ CreateState(t) \/ Translate(t) \/ Relocate(t) \/ FindEntry(t) \/ NoEntry(t)
  \/ MakeDirectory(t) \/ WriteUnit(t) \/ Fork(t) \/ Wait(t) \/ Load(t) \/ Resolve(t)
  \/ Unwind(t) \/ Return(t)
  \/ Lookup(t) \/ Found(t) \/ Named(t)
  \/ NoMap(t) \/ PerfMap(t) \/ OpenMap(t) \/ AppendMap(t) \/ CloseMap(t)
  \/ Destroy(t) \/ Destroyed(t)

CModuleNext ==
  \/ \E t \in Threads : Compile(t) \/ Step(t) \/ Interrupted(t)
                        \/ ChildWrites(t) \/ ChildEnds(t) \/ Drop(t)
  \/ Restart

\* Threads are scheduled and the system compiler ends.
Fairness == \A t \in Threads : WF_moduleVars(Step(t)) /\ WF_moduleVars(ChildEnds(t))

CModuleSpec == CModuleInit /\ [][CModuleNext]_moduleVars /\ Fairness

-----------------------------------------------------------------------------
(* Properties.                                                              *)

Compiling == {"begin", "create", "translate", "relocate", "entry", "mkdtemp", "write", "fork",
              "wait", "dlopen", "dlsym", "unwind", "return"}
Using == {"symbols", "looking", "publish", "open", "append", "close", "names", "naming",
          "named", "kept", "dropped", "destroy"}

CModuleTypeOK ==
  /\ holder \in Threads \cup {Nobody}
  /\ pc \in [Threads -> {"idle", "lock"} \cup Compiling \cup Using]
  /\ owned \in [Threads -> SUBSET (Released \cup {"library"})]
  /\ child \in [Threads -> {"none", "running", "exited", "failed"}]
  /\ compiled \in [Threads -> {"none", "tcc", "library"}]
  /\ compiles \in 0..MaxCompiles /\ process \in 1..(MaxRestarts + 1)
  /\ mapped \in BOOLEAN /\ perfMap \in Seq(Nat) /\ appended \in Nat

\* Whatever step of a compilation failed, and while the system compiler was interrupted,
\* nothing of it is left once compile returned: no file, no compiler process, no TinyCC
\* state and no library, except the module it gave to its caller.
NothingLeft ==
  \A t \in Threads :
    /\ pc[t] \notin Compiling => owned[t] = {} /\ child[t] = "none"
    /\ (pc[t] \in Using) = (compiled[t] # "none") \/ pc[t] \in {"unwind", "return"}

\* "TinyCC has process-global compiler state, including across separate modules": no two
\* threads are inside it at once, be it to compile, look up, list or destroy.
InTinyCC(t) ==
  \/ pc[t] \in {"create", "translate", "relocate", "entry"}
  \/ pc[t] = "unwind" /\ "state" \in owned[t]
  \/ pc[t] \in {"looking", "naming", "open", "destroy"} /\ compiled[t] = "tcc"
OneCompiler == \A t, u \in Threads : InTinyCC(t) /\ InTinyCC(u) => t = u

\* Once a process has begun its perf map, the file holds the lines of each module it wrote
\* and none of a process that had the same number.
PerfMapIsOurs == mapped => perfMap = [k \in 1..appended |-> process]

\* A compilation returns, and a module that is let go of is destroyed: no path waits for
\* compiler_mutex while it holds it.
CompileReturns ==
  \A t \in Threads : pc[t] \in {"lock", "dropped"} ~> pc[t] \in {"idle", "kept"}
=============================================================================
