----------------------------- MODULE GodotJIT ------------------------------
(***************************************************************************)
(* The GodotJIT object (godot_jit.cpp): it holds a C module or the runtime  *)
(* of a script, which compile_c, compile_sgd and clear replace.  Script may *)
(* call the object again while it initializes a runtime, executes one of    *)
(* its functions, or is told of the coroutines a replaced runtime cancels,  *)
(* and so replace what a call further down is using.                        *)
(***************************************************************************)
EXTENDS Naturals, Sequences

CONSTANTS
  MaxRuntimes,  \* bound: runtimes made
  MaxDepth      \* bound: calls of the object that are inside each other

GodotJITParameters == MaxRuntimes \in Nat /\ MaxDepth \in Nat

None == 0
Runtimes == 1..MaxRuntimes

VARIABLES
  module,     \* module_ holds a C module
  native,     \* native_: the runtime of the script, or None
  error,      \* error_ holds a message
  made,       \* runtimes made so far
  installed,  \* ghost: runtimes that native_ has held
  cancelled,  \* how often each runtime's coroutines were cancelled
  stack       \* calls in progress: what they run and what they own

objectVars == <<module, native, error, made, installed, cancelled, stack>>

GodotJITInit ==
  /\ module = FALSE /\ native = None /\ error = FALSE
  /\ made = 0 /\ installed = {} /\ cancelled = [s \in Runtimes |-> 0]
  /\ stack = <<>>

\* A call in progress runs script of a runtime, and its shared_ptr may own one.
Frame(kind, s, owns) == [kind |-> kind, runs |-> s, owns |-> owns]
Top == stack[Len(stack)]
Below == SubSeq(stack, 1, Len(stack) - 1)
On(kind) == stack # <<>> /\ Top.kind = kind

\* native_ is moved out before anything else; its coroutines are cancelled last, by when the
\* object is as it will stay, and by script that may call it again.
Replaced(frames, new, newModule) ==
  /\ native' = new /\ module' = newModule
  /\ installed' = IF new = None THEN installed ELSE installed \cup {new}
  /\ IF native = None THEN stack' = frames /\ UNCHANGED cancelled
     ELSE /\ stack' = Append(frames, Frame("cancelling", native, native))
          /\ cancelled' = [cancelled EXCEPT ![native] = @ + 1]

Unreplaced == UNCHANGED <<module, native, installed, cancelled>>

-----------------------------------------------------------------------------
\* A failure leaves what is installed as it is.
CompileFails ==
  /\ error' = TRUE
  /\ Unreplaced /\ UNCHANGED <<made, stack>>

CompileC_DropsRuntime ==
  /\ module' = TRUE /\ native' = None /\ error' = FALSE
  /\ UNCHANGED <<installed, cancelled, made, stack>>
CompileC ==
  /\ Replaced(stack, None, TRUE)
  /\ error' = FALSE
  /\ UNCHANGED made

\* compile_sgd: the candidate's initializers run before it is installed.
CompileSgd ==
  /\ Len(stack) < MaxDepth /\ made < MaxRuntimes
  /\ made' = made + 1
  /\ error' = FALSE
  /\ stack' = Append(stack, Frame("initializing", made + 1, made + 1))
  /\ Unreplaced

Initialized ==
  /\ On("initializing")
  /\ Replaced(Below, Top.runs, FALSE)
  /\ UNCHANGED <<error, made>>

InitializerFails ==
  /\ On("initializing")
  /\ stack' = Below /\ error' = TRUE
  /\ Unreplaced /\ UNCHANGED made

\* execute_function keeps the runtime it calls.
Executing_Borrowed(s) == Frame("executing", s, None)
Executing(s) == Frame("executing", s, s)

Execute ==
  /\ native # None /\ Len(stack) < MaxDepth
  /\ error' = FALSE
  /\ stack' = Append(stack, Executing(native))
  /\ Unreplaced /\ UNCHANGED made

ExecuteNothing ==
  /\ native = None
  /\ error' = TRUE
  /\ Unreplaced /\ UNCHANGED <<made, stack>>

Executed ==
  /\ On("executing")
  /\ stack' = Below
  /\ error' = TRUE \/ UNCHANGED error
  /\ Unreplaced /\ UNCHANGED made

Clear ==
  /\ Replaced(stack, None, FALSE)
  /\ error' = FALSE
  /\ UNCHANGED made

\* cancel_coroutines has told every listener.
CancelEnds ==
  /\ On("cancelling")
  /\ stack' = Below
  /\ Unreplaced /\ UNCHANGED <<error, made>>

GodotJITNext ==
  \/ Len(stack) <= MaxDepth /\ (CompileC \/ Clear)
  \/ CompileFails \/ CompileSgd \/ Execute \/ ExecuteNothing
  \/ Initialized \/ InitializerFails \/ Executed \/ CancelEnds

GodotJITSpec == GodotJITInit /\ [][GodotJITNext]_objectVars

-----------------------------------------------------------------------------
(* Properties.                                                              *)

GodotJITTypeOK ==
  /\ module \in BOOLEAN /\ error \in BOOLEAN
  /\ native \in Runtimes \cup {None} /\ made \in 0..MaxRuntimes
  /\ installed \subseteq Runtimes /\ cancelled \in [Runtimes -> Nat]
  /\ stack \in Seq([kind : {"initializing", "executing", "cancelling"},
                    runs : Runtimes, owns : Runtimes \cup {None}])

\* However the calls of the object nest, the coroutines of every runtime that was replaced
\* are cancelled, once, and those of the runtime in place never were.
CancelledWhenReplaced ==
  \A s \in Runtimes : cancelled[s] = IF s \in installed /\ s # native THEN 1 ELSE 0

\* The runtime whose script is running is there until the call returns, though script that
\* it runs cleared or replaced it.
RunsAlive ==
  \A k \in DOMAIN stack :
    \/ stack[k].runs = native
    \/ \E j \in DOMAIN stack : stack[j].owns = stack[k].runs
=============================================================================
