------------------------------- MODULE Calls -------------------------------
(***************************************************************************)
(* How a call of compiled script fails: NativeState::call and invoke        *)
(* (native_program.cpp), gj_fail (c_abi.cpp) and the callers that read the  *)
(* outcome.  A runtime has one error string for all its activations.  A     *)
(* function may call functions of its own runtime again, directly or        *)
(* through a signal, a property or the engine, and may ignore that those    *)
(* failed; the callers below it then read the string it left.               *)
(*                                                                          *)
(* Script of the same runtime may also run between a failure and its        *)
(* report: with a debugger attached, gj_fail stops right after it has set   *)
(* the string, and an expression evaluated there may run getters; and       *)
(* destroying the locals of the failed function may run a destructor.       *)
(*                                                                          *)
(* A message is the number of the failure that raised it, so that a         *)
(* property can tell a caller's own message from another's, and an earlier  *)
(* one from a later one.                                                    *)
(***************************************************************************)
EXTENDS Naturals, Sequences

CONSTANTS
  Runtimes,   \* NativeState objects
  MaxCalls,   \* bound: activations started
  MaxFailures,\* bound: failures
  MaxDepth,   \* bound: frames on the stack when a function calls another
  Defaults    \* bound: default-argument functions of one call

ASSUME Parameters ==
  /\ MaxCalls \in Nat /\ MaxFailures \in Nat /\ MaxDepth \in Nat /\ Defaults \in Nat

VARIABLES
  error,   \* NativeState::error; 0 is the empty string
  stack,   \* the frames of NativeState::call and of compiled code, topmost last
  calls,   \* activations started so far
  failures,\* failures so far
  report,  \* what the last caller to finish made of its call
  disturbed\* a debugger is attached and destroying locals may run script

vars == <<error, stack, calls, failures, report, disturbed>>

-----------------------------------------------------------------------------
(* Callers of compiled code.                                                *)
(*   callp     the engine or script calls a method of an instance           *)
(*   hook      call_hook: _get, _set and the other virtual methods          *)
(*   init      the constructor, in _instance_create                         *)
(*   callable  NativeCallable::call                                         *)
(*   execute   GodotJIT::execute_function                                   *)
(*   accessor  get and set of a property with a getter or setter function   *)
(* They go through NativeState::call; two invoke a function directly:       *)
(*   members   the member initializers, in _instance_create                 *)
(*   resume    NativeState::resume                                          *)
Callers == {"callp", "hook", "init", "callable", "execute", "accessor"}
Direct == {"members", "resume"}
Outcomes == {"rejected", "mismatch", "failed", "done"}

\* NativeState::call: todo default arguments left to evaluate, then the body.
CallFrame(via, s, todo) == [kind |-> "call", via |-> via, state |-> s, todo |-> todo,
                            failure |-> 0, stopped |-> FALSE]
\* invoke: via says what its end means, failure how it has failed, stopped that the
\* debugger is showing that.
RunFrame(via, s) == [kind |-> "run", via |-> via, state |-> s, todo |-> 0,
                     failure |-> 0, stopped |-> FALSE]
Messages == 0..MaxFailures
Frame == [kind : {"call", "run"}, via : Callers \cup Direct \cup {"default", "body"},
          state : Runtimes, todo : 0..Defaults, failure : Messages, stopped : BOOLEAN]
Failed(f) == f.failure # 0

Top == stack[Len(stack)]
Below == SubSeq(stack, 1, Len(stack) - 1)
On(kind) == stack # <<>> /\ Top.kind = kind

\* Script runs on top of the stack and may call: the function itself, an expression
\* evaluated at its failure, what destroying its locals runs.
Acts == stack # <<>> => Top.kind = "run" /\ (~Failed(Top) \/ disturbed)

\* invoke clears the runtime's string and enters the function.
Cleared(s) == [error EXCEPT ![s] = 0]
Enter(frames, via, s) ==
  /\ calls < MaxCalls
  /\ calls' = calls + 1
  /\ stack' = Append(frames, RunFrame(via, s))
  /\ error' = Cleared(s)
  /\ UNCHANGED failures

\* The outcome a caller reports: whether the engine or the script sees success,
\* which message goes with it, whether the result was replaced by null, and, as
\* history, what the call really did and which failure ended it.
Nothing == [via |-> "none", ok |-> TRUE, message |-> 0, null |-> FALSE,
            outcome |-> "done", culprit |-> 0]
Report == [via : Callers \cup Direct \cup {"none"}, ok : BOOLEAN, message : Messages,
           null : BOOLEAN, outcome : Outcomes, culprit : Messages]

\* callp and its callers take any message for a failure; the others only look
\* for one when the call failed, and accessors for none.
ReadsAlways == {"callp", "hook", "init"}
AsSeen(via, s, outcome, culprit, errors) ==
  [via |-> via,
   ok |-> outcome = "done" /\ (via \in {"hook", "init"} => errors[s] = 0),
   message |-> IF via \in ReadsAlways \/ (outcome # "done" /\ via # "accessor")
               THEN errors[s] ELSE 0,
   null |-> via \in ReadsAlways /\ errors[s] # 0,
   outcome |-> outcome,
   culprit |-> culprit]

-----------------------------------------------------------------------------
Init ==
  /\ error = [s \in Runtimes |-> 0]
  /\ stack = <<>>
  /\ calls = 0
  /\ failures = 0
  /\ report = Nothing
  /\ disturbed \in BOOLEAN

\* NativeState::call clears the string and looks the method up.  An unknown
\* method or a wrong number of arguments is rejected at once.
CallClears_No(s) == error
CallClears(s) == Cleared(s)

Rejected(via, s) ==
  /\ Acts
  /\ error' = CallClears(s)
  /\ report' = AsSeen(via, s, "rejected", 0, error')
  /\ UNCHANGED <<stack, calls, failures>>

\* Every argument is given and has its declared type: the body is entered.
ExactCall(via, s) ==
  /\ Acts /\ Len(stack) < MaxDepth
  /\ Enter(Append(stack, CallFrame(via, s, 0)), "body", s)
  /\ report' = Nothing

\* Arguments need conversion, or default arguments are evaluated first.
SlowCall(via, s) ==
  /\ Acts /\ Len(stack) < MaxDepth
  /\ \E n \in 0..Defaults : stack' = Append(stack, CallFrame(via, s, n))
  /\ error' = CallClears(s)
  /\ report' = Nothing
  /\ UNCHANGED <<calls, failures>>

\* The next default argument, or the body after the last one.
Missing_OffByOne == Top.todo >= 0
Missing == Top.todo > 0

Proceed ==
  /\ On("call")
  /\ Enter(stack, IF Missing THEN "default" ELSE "body", Top.state)
  /\ UNCHANGED report

\* A value of the wrong type or class.
Mismatch ==
  /\ On("call")
  /\ stack' = Below
  /\ report' = AsSeen(Top.via, Top.state, "mismatch", 0, error)
  /\ UNCHANGED <<error, calls, failures>>

\* Member initializers of a new instance, or a coroutine's continuation.
Invoke(via, s) ==
  /\ Acts /\ Len(stack) < MaxDepth
  /\ Enter(stack, via, s)
  /\ report' = Nothing

\* gj_fail: the first failure of an activation sets the string, and then the debug
\* hook stops the program there.
Raised_KeepsEarlier == IF error[Top.state] = 0 THEN [error EXCEPT ![Top.state] = failures + 1]
                                               ELSE error
Raised == [error EXCEPT ![Top.state] = failures + 1]

Fail ==
  /\ On("run") /\ ~Failed(Top)
  /\ failures < MaxFailures
  /\ failures' = failures + 1
  /\ error' = Raised
  /\ stack' = [stack EXCEPT ![Len(stack)].failure = failures + 1,
                            ![Len(stack)].stopped = disturbed]
  /\ UNCHANGED <<calls, report>>

\* The user continues: script_debug returns, and so does gj_fail.
Continue ==
  /\ On("run") /\ Top.stopped
  /\ stack' = [stack EXCEPT ![Len(stack)].stopped = FALSE]
  /\ UNCHANGED <<error, calls, failures, report>>

\* The function returns to invoke's caller.
Returns(via) == On("run") /\ Top.via = via /\ ~Top.stopped

Finish(via, outcome, frames, culprit) ==
  /\ stack' = frames
  /\ report' = AsSeen(via, Top.state, outcome, culprit, error)
  /\ UNCHANGED <<error, calls, failures>>

BodyReturns ==
  /\ Returns("body")
  /\ LET frames == SubSeq(stack, 1, Len(stack) - 2)
         call == stack[Len(stack) - 1]
     IN  IF Failed(Top) THEN Finish(call.via, "failed", frames, Top.failure)
                       ELSE Finish(call.via, "done", frames, 0)

DefaultReturns ==
  /\ Returns("default")
  /\ IF Failed(Top)
     THEN Finish(stack[Len(stack) - 1].via, "failed", SubSeq(stack, 1, Len(stack) - 2), Top.failure)
     ELSE /\ stack' = [Below EXCEPT ![Len(Below)].todo = @ - 1]
          /\ UNCHANGED <<error, calls, failures, report>>

\* _instance_create calls the constructor after the member initializers.
MembersReturn ==
  /\ Returns("members")
  /\ \/ Failed(Top) /\ Finish("members", "failed", Below, Top.failure)
     \/ ~Failed(Top) /\ Finish("members", "done", Below, 0)
     \/ /\ ~Failed(Top)
        /\ Enter(Append(Below, CallFrame("init", Top.state, 0)), "body", Top.state)
        /\ report' = Nothing

ResumeReturns ==
  /\ Returns("resume")
  /\ IF Failed(Top) THEN Finish("resume", "failed", Below, Top.failure)
                   ELSE Finish("resume", "done", Below, 0)

Step ==
  \/ \E s \in Runtimes, via \in Callers \ {"init"} :
       Rejected(via, s) \/ ExactCall(via, s) \/ SlowCall(via, s)
  \/ \E s \in Runtimes, via \in Direct : Invoke(via, s)
  \/ Proceed \/ Mismatch \/ Fail \/ Continue
  \/ BodyReturns \/ DefaultReturns \/ MembersReturn \/ ResumeReturns

Next == Step /\ UNCHANGED disturbed

Spec == Init /\ [][Next]_vars

-----------------------------------------------------------------------------
(* Properties.                                                              *)

\* Every field keeps its type.
TypeOK ==
  /\ error \in [Runtimes -> Messages]
  /\ stack \in Seq(Frame)
  /\ calls \in 0..MaxCalls /\ failures \in Messages
  /\ report \in Report /\ disturbed \in BOOLEAN

\* A caller that reads the message of a failed call.
ReadsFailure == report.outcome = "failed" /\ report.via # "accessor"

\* Such a caller reads the message of the failure that ended its call, whatever the
\* function called, and whatever of it failed, before.  If a stopped debugger or a
\* destructor may run script of the same runtime between the failure and its report, it
\* may also read none, or one raised since, but never one older than the failure.
OwnMessage == ReadsFailure =>
  \/ report.message = report.culprit
  \/ disturbed /\ (report.message = 0 \/ report.message > report.culprit)

\* A call that never ran reports no message of an earlier one.
NoGhostMessage == report.outcome = "rejected" => report.message = 0

\* "Keep the failure status so callers cannot consume a null success": when callp
\* replaces the result by null, its caller sees a failure.
NoNullSuccess == report.null => ~report.ok
=============================================================================
