----------------------------- MODULE Coroutines -----------------------------
(***************************************************************************)
(* Suspended script functions: UnsafeFunctionState and the coroutine part  *)
(* of NativeState (function_state.cpp), driven by Godot's synchronous      *)
(* signals.                                                                *)
(*                                                                         *)
(* There is one thread, but every emission, every completion and every     *)
(* destructor may call back into script, which may emit, cancel, call or   *)
(* replace a runtime before the C++ caller continues.  So the state holds  *)
(* the stack of C++ activations, and a step is a step of the topmost one.  *)
(* The code between two points at which script can run is one step.        *)
(***************************************************************************)
EXTENDS Naturals, Sequences

CONSTANTS
  Coros,      \* identities of UnsafeFunctionState objects; also their `completed` signals
  States,     \* identities of NativeState objects (runtimes)
  Signals,    \* signals of ordinary objects
  Listener,   \* whatever script callback is connected to a signal besides coroutines
  None,       \* no runtime, no coroutine, no signal
  DropHooks,  \* may destroying a saved local run a script destructor handler?
  Fuel,       \* bound: operations one script activation performs
  MaxDepth    \* bound: activations below which script starts another one

ASSUME Distinct ==
  /\ None \notin Coros \cup States \cup Signals
  /\ Listener \notin Coros
  /\ Coros \cap Signals = {}
ASSUME Bounds ==
  /\ DropHooks \in BOOLEAN
  /\ Fuel \in Nat
  /\ MaxDepth \in Nat

VARIABLES
  co,         \* the fields of every UnsafeFunctionState, and its one connection
  created,    \* coroutines that exist
  list,       \* NativeState::coroutines
  cancelling, \* NativeState::cancelling
  attached,   \* runtimes whose owner (GodotJIT, script instance) still holds them
  destroyed,  \* runtimes whose destructor has started: weak_ptr::lock() fails
  ownerGone,  \* runtimes whose owner object has been freed
  gone,       \* signals whose object has been freed
  emitted,    \* history: how often each coroutine emitted `completed`
  stack       \* the C++ activations, topmost last

vars == <<co, created, list, cancelling, attached, destroyed, ownerGone, gone,
          emitted, stack>>

-----------------------------------------------------------------------------
(* Activations.                                                            *)
(*   script   a signal listener or destructor handler written in script    *)
(*   body     invoke() of a generated function; co is the one it resumes,  *)
(*            sig the signal it is being connected to (suspend half done)  *)
(*   emit     Object::emit_signal of sig, with the slots not yet called    *)
(*   settle   retire(co) past frame.clear(), about to erase co and emit    *)
(*   cancel   cancel_coroutines(true):  todo to detach, due to notify      *)
(*   silence  cancel_coroutines(false)                                     *)
(*   leave    a shared_ptr to state is about to go out of scope            *)
Kinds == {"script", "body", "emit", "settle", "cancel", "silence", "leave"}

CoroRecord ==
  [inst : States \cup {None}, awaited : Signals \cup Coros \cup {None},
   conn : Signals \cup Coros \cup {None}, saved : BOOLEAN, running : BOOLEAN,
   failed : BOOLEAN, cancelled : BOOLEAN]

FrameRecord ==
  [kind : Kinds, state : States \cup {None}, co : Coros \cup {None},
   sig : Signals \cup Coros \cup {None}, todo : SUBSET (Coros \cup {Listener}),
   due : SUBSET Coros, prev : BOOLEAN, fuel : 0..Fuel]

\* An activation of a runtime or of a coroutine has one to work on.
Grounded(f) ==
  /\ f.kind \in {"body", "settle", "cancel", "silence", "leave"} => f.state \in States
  /\ f.kind = "settle" => f.co \in Coros /\ f.todo = {}
  /\ f.kind = "emit" => f.sig \in Signals \cup Coros
  /\ f.kind \in {"cancel", "silence"} => f.todo \subseteq Coros
  /\ f.kind = "body" /\ f.sig # None => f.co # None

Activation == {f \in FrameRecord : Grounded(f)}

Frame(kind, s, c, g, todo, prev) ==
  [kind |-> kind, state |-> s, co |-> c, sig |-> g, todo |-> todo, due |-> {},
   prev |-> prev, fuel |-> IF kind \in {"script", "body"} THEN Fuel ELSE 0]

ScriptFrame     == Frame("script", None, None, None, {}, FALSE)
BodyFrame(s, c) == Frame("body", s, c, None, {}, FALSE)
SettleFrame(s, c) == Frame("settle", s, c, None, {}, FALSE)
LeaveFrame(s)   == Frame("leave", s, None, None, {}, FALSE)

Top   == stack[Len(stack)]
Below == SubSeq(stack, 1, Len(stack) - 1)
On(kind) == stack # <<>> /\ Top.kind = kind

\* Script has control: the engine's main loop, a listener, or a function body
\* that is not inside suspend().
InScript == stack # <<>> =>
  \/ Top.kind = "script"
  \/ Top.kind = "body" /\ Top.sig = None

CanAct == /\ InScript
          /\ Len(stack) < MaxDepth
          /\ stack # <<>> => Top.fuel > 0

Spent == IF stack = <<>> THEN <<>> ELSE [stack EXCEPT ![Len(stack)].fuel = @ - 1]

\* stk, or stk with a destructor handler of a cleared saved local on top.
MaybeHook(stk) ==
  \/ stack' = stk
  \/ DropHooks /\ Len(stk) < MaxDepth /\ stack' = Append(stk, ScriptFrame)

-----------------------------------------------------------------------------
(* UnsafeFunctionState and NativeState helpers.                            *)

\* co->instance.lock()
Lock(c) == IF co[c].inst \in States \ destroyed THEN co[c].inst ELSE None

Disconnected(r) == [r EXCEPT !.conn = None, !.awaited = None]
Connected_BeforeDisconnect(r, g) == [r EXCEPT !.conn = None, !.awaited = g]
Connected(r, g) == [r EXCEPT !.conn = g, !.awaited = g]

\* disconnect(), instance.reset(), frame.clear(): common to retire and the
\* detach loop of cancel_coroutines.
Detached_KeepsCallback(r) == [r EXCEPT !.inst = None, !.saved = FALSE]
Detached(r) == [Disconnected(r) EXCEPT !.inst = None, !.saved = FALSE]

\* The slots an emission of g calls, and the connections it leaves: one-shot
\* slots are disconnected before the first call.
Emitting_NotOneShot(g) == co
Slots(g) == {c \in Coros : co[c].conn = g} \cup {Listener}
Emitting(g) == [c \in Coros |->
  IF co[c].conn = g THEN [co[c] EXCEPT !.conn = None] ELSE co[c]]

\* resume() with the child's failure copied before the connection is cleared.
Resuming(c) ==
  [Disconnected(co[c]) EXCEPT
     !.running = TRUE,
     !.failed = @ \/ (co[c].awaited \in Coros /\ co[co[c].awaited].failed)]

\* suspend()'s check that its coroutine still belongs here.
MaySuspend_WhileCancelling(s, c) == c # None => Lock(c) = s
MaySuspend(s, c) == ~cancelling[s] /\ (c # None => Lock(c) = s)

\* Signals that can still be connected to.
Awaitable == (Signals \ gone) \cup created

\* Nobody but the activation being left refers to s.
LastRef(s) == /\ s \in States \ (attached \cup destroyed)
              /\ \A i \in 1..Len(Below) : Below[i].state # s

-----------------------------------------------------------------------------
Init ==
  /\ co = [c \in Coros |-> [inst |-> None, awaited |-> None, conn |-> None,
                            saved |-> FALSE, running |-> FALSE,
                            failed |-> FALSE, cancelled |-> FALSE]]
  /\ created = {}
  /\ list = [s \in States |-> {}]
  /\ cancelling = [s \in States |-> FALSE]
  /\ attached = States
  /\ destroyed = {}
  /\ ownerGone = {}
  /\ gone = {}
  /\ emitted = [c \in Coros |-> 0]
  /\ stack = <<>>

-----------------------------------------------------------------------------
(* What script may do whenever it has control.                             *)

\* Emit an ordinary signal.
EmitSignal(g) ==
  /\ CanAct
  /\ g \in Signals \ gone
  /\ stack' = Append(Spent, Frame("emit", None, None, g, Slots(g), FALSE))
  /\ co' = Emitting(g)
  /\ UNCHANGED <<created, list, cancelling, attached, destroyed, ownerGone, gone, emitted>>

\* Call a function of a runtime: execute_function, callp, or a NativeCallable
\* whose weak reference still locks after the runtime was replaced.
CallFunction(s) ==
  /\ CanAct
  /\ s \in States \ destroyed
  /\ stack' = Append(Spent, BodyFrame(s, None))
  /\ UNCHANGED <<co, created, list, cancelling, attached, destroyed, ownerGone, gone, emitted>>

\* UnsafeFunctionState::cancel on a live coroutine, running or not.
Cancellable_Always(c) == c \in created
Cancellable(c) == Lock(c) # None

Cancel(c) ==
  /\ CanAct
  /\ Cancellable(c)
  /\ co' = [co EXCEPT ![c] = [Detached(co[c]) EXCEPT !.cancelled = TRUE]]
  /\ MaybeHook(Append(Spent, SettleFrame(Lock(c), c)))
  /\ UNCHANGED <<created, list, cancelling, attached, destroyed, ownerGone, gone, emitted>>

\* The entry of cancel_coroutines: the list moves into the activation.
BeginCancel_SilenceForgets(stk, s, kind) ==
  /\ stack' = Append(stk, Frame(kind, s, None, None,
                                IF kind = "cancel" THEN list[s] ELSE {}, cancelling[s]))
  /\ list' = [list EXCEPT ![s] = {}]
  /\ cancelling' = [cancelling EXCEPT ![s] = TRUE]
BeginCancel(stk, s, kind) ==
  /\ stack' = Append(stk, Frame(kind, s, None, None, list[s], cancelling[s]))
  /\ list' = [list EXCEPT ![s] = {}]
  /\ cancelling' = [cancelling EXCEPT ![s] = TRUE]

\* clear(), compile_c(), compile_sgd() and a script reload: the owner lets go
\* of the runtime first, then cancels its coroutines.
Replace(s) ==
  /\ CanAct
  /\ s \in attached
  /\ attached' = attached \ {s}
  /\ BeginCancel(Spent, s, "cancel")
  /\ UNCHANGED <<co, created, destroyed, ownerGone, gone, emitted>>

\* ~UnsafeGDScriptInstance: nobody is notified.
Teardown(s) ==
  /\ CanAct
  /\ s \in attached
  /\ attached' = attached \ {s}
  /\ BeginCancel(Spent, s, "silence")
  /\ UNCHANGED <<co, created, destroyed, ownerGone, gone, emitted>>

\* A GodotJIT is freed: its runtime lives on while an activation holds it.
Drop(s) ==
  /\ CanAct
  /\ s \in attached
  /\ attached' = attached \ {s}
  /\ stack' = Append(Spent, LeaveFrame(s))
  /\ UNCHANGED <<co, created, list, cancelling, destroyed, ownerGone, gone, emitted>>

\* The receiver of a runtime is freed.
FreeOwner(s) ==
  /\ CanAct
  /\ s \notin ownerGone
  /\ ownerGone' = ownerGone \cup {s}
  /\ stack' = Spent
  /\ UNCHANGED <<co, created, list, cancelling, attached, destroyed, gone, emitted>>

\* The object of a signal is freed (the engine refuses while it is emitting).
FreeSource(g) ==
  /\ CanAct
  /\ g \in Signals \ gone
  /\ \A i \in 1..Len(stack) : stack[i].kind = "emit" => stack[i].sig # g
  /\ gone' = gone \cup {g}
  /\ co' = Emitting(g)
  /\ stack' = Spent
  /\ UNCHANGED <<created, list, cancelling, attached, destroyed, ownerGone, emitted>>

ScriptOp ==
  \/ \E g \in Signals : EmitSignal(g) \/ FreeSource(g)
  \/ \E c \in Coros : Cancel(c)
  \/ \E s \in States :
       CallFunction(s) \/ Replace(s) \/ Teardown(s) \/ Drop(s) \/ FreeOwner(s)

-----------------------------------------------------------------------------
(* How a script activation ends.                                           *)

\* A listener returns.
ListenerReturns ==
  /\ On("script")
  /\ stack' = Below
  /\ UNCHANGED <<co, created, list, cancelling, attached, destroyed, ownerGone, gone, emitted>>

\* A first call returns or fails without suspending.
CallReturns ==
  /\ On("body")
  /\ Top.co = None
  /\ stack' = Append(Below, LeaveFrame(Top.state))
  /\ UNCHANGED <<co, created, list, cancelling, attached, destroyed, ownerGone, gone, emitted>>

\* A first call awaits g: suspend() makes a coroutine and returns its signal.
AwaitFresh(c, g) ==
  /\ On("body")
  /\ Top.co = None
  /\ MaySuspend(Top.state, None)
  /\ c \notin created
  /\ g \in Awaitable
  /\ created' = created \cup {c}
  /\ list' = [list EXCEPT ![Top.state] = @ \cup {c}]
  /\ co' = [co EXCEPT ![c] = [Connected(co[c], g) EXCEPT !.inst = Top.state,
                                                     !.saved = TRUE]]
  /\ stack' = Append(Below, LeaveFrame(Top.state))
  /\ UNCHANGED <<cancelling, attached, destroyed, ownerGone, gone, emitted>>

\* A resumed body awaits g.  suspend() replaces the saved frame, which may
\* destroy old locals, before it records and connects the signal.
AwaitAgain(g) ==
  /\ On("body")
  /\ Top.co # None /\ Top.sig = None
  /\ MaySuspend(Top.state, Top.co)
  /\ g \in Awaitable
  /\ co' = [co EXCEPT ![Top.co] = [Disconnected(co[Top.co]) EXCEPT !.saved = TRUE]]
  /\ MaybeHook(Append(Below, [Top EXCEPT !.sig = g]))
  /\ UNCHANGED <<created, list, cancelling, attached, destroyed, ownerGone, gone, emitted>>

\* The rest of suspend(), and resume() seeing the coroutine's own signal.
Reconnect ==
  /\ On("body")
  /\ Top.sig \in Awaitable
  /\ co' = [co EXCEPT ![Top.co] =
              [Connected(co[Top.co], Top.sig) EXCEPT !.running = FALSE]]
  /\ stack' = Append(Below, LeaveFrame(Top.state))
  /\ UNCHANGED <<created, list, cancelling, attached, destroyed, ownerGone, gone, emitted>>

\* A resumed body returns a value or fails (a refused or failed await is one
\* way to fail): the tail of resume().
Ended_StillRunning(ok) == [co[Top.co] EXCEPT !.failed = @ \/ ~ok]
Ended(ok) ==
  [co[Top.co] EXCEPT !.running = FALSE, !.failed = @ \/ ~ok]

StillMine_Unchecked(s, c) == TRUE
StillMine(s, c) == Lock(c) = s

ResumedCompletes(ok) ==
  /\ On("body")
  /\ Top.co # None
  /\ Top.sig = None \/ (~ok /\ Top.sig \notin Awaitable)
  /\ StillMine(Top.state, Top.co)
  /\ co' = [co EXCEPT ![Top.co] = Detached(Ended(ok))]
  /\ MaybeHook(Append(Below, SettleFrame(Top.state, Top.co)))
  /\ UNCHANGED <<created, list, cancelling, attached, destroyed, ownerGone, gone, emitted>>

ResumedWasCancelled(ok) ==
  /\ On("body")
  /\ Top.co # None
  /\ Top.sig = None \/ (~ok /\ Top.sig \notin Awaitable)
  /\ ~StillMine(Top.state, Top.co)
  /\ co' = [co EXCEPT ![Top.co] = Ended(ok)]
  /\ stack' = Append(Below, LeaveFrame(Top.state))
  /\ UNCHANGED <<created, list, cancelling, attached, destroyed, ownerGone, gone, emitted>>

ScriptEnd ==
  \/ ListenerReturns
  \/ CallReturns
  \/ \E g \in Signals \cup Coros : AwaitAgain(g) \/ \E c \in Coros : AwaitFresh(c, g)
  \/ Reconnect
  \/ \E ok \in BOOLEAN : ResumedCompletes(ok) \/ ResumedWasCancelled(ok)

-----------------------------------------------------------------------------
(* The engine's emission loop and resume_from_signal.                      *)

Called(x) == Append(Below, [Top EXCEPT !.todo = @ \ {x}])

CallListener ==
  /\ On("emit")
  /\ Listener \in Top.todo
  /\ stack' = Append(Called(Listener), ScriptFrame)
  /\ UNCHANGED <<co, created, list, cancelling, attached, destroyed, ownerGone, gone, emitted>>

\* The early return of resume_from_signal.
IgnoresResume_NoNullCheck(c) == co[c].running
IgnoresResume(c) == Lock(c) = None \/ co[c].running

CallRetired(c) ==
  /\ On("emit")
  /\ c \in Top.todo
  /\ IgnoresResume(c)
  /\ stack' = Called(c)
  /\ UNCHANGED <<co, created, list, cancelling, attached, destroyed, ownerGone, gone, emitted>>

\* resume() finds the owner freed and cancels.
CallOrphan(c) ==
  /\ On("emit")
  /\ c \in Top.todo
  /\ ~IgnoresResume(c)
  /\ Lock(c) \in ownerGone
  /\ co' = [co EXCEPT ![c] = [Detached(co[c]) EXCEPT !.cancelled = TRUE]]
  /\ MaybeHook(Append(Called(c), SettleFrame(Lock(c), c)))
  /\ UNCHANGED <<created, list, cancelling, attached, destroyed, ownerGone, gone, emitted>>

\* resume() enters the function again.
Resume(c) ==
  /\ On("emit")
  /\ c \in Top.todo
  /\ ~IgnoresResume(c)
  /\ Lock(c) \notin ownerGone
  /\ co' = [co EXCEPT ![c] = Resuming(c)]
  /\ stack' = Append(Called(c), BodyFrame(Lock(c), c))
  /\ UNCHANGED <<created, list, cancelling, attached, destroyed, ownerGone, gone, emitted>>

EmissionEnds ==
  /\ On("emit")
  /\ Top.todo = {}
  /\ stack' = IF Top.state = None THEN Below ELSE Append(Below, LeaveFrame(Top.state))
  /\ UNCHANGED <<co, created, list, cancelling, attached, destroyed, ownerGone, gone, emitted>>

Emission ==
  \/ CallListener
  \/ \E c \in Coros : CallRetired(c) \/ CallOrphan(c) \/ Resume(c)
  \/ EmissionEnds

-----------------------------------------------------------------------------
(* The runtime's own loops.                                                *)

\* The end of retire() and the emission that follows it in cancel and resume.
Settle ==
  /\ On("settle")
  /\ list' = [list EXCEPT ![Top.state] = @ \ {Top.co}]
  /\ emitted' = [emitted EXCEPT ![Top.co] = @ + 1]
  /\ co' = Emitting(Top.co)
  /\ stack' = Append(Below, Frame("emit", Top.state, None, Top.co, Slots(Top.co), FALSE))
  /\ UNCHANGED <<created, cancelling, attached, destroyed, ownerGone, gone>>

\* Who is still to be notified once c is detached by the activation f.
Owed_Dropped(f, c) == f.due
Owed(f, c) == IF f.kind = "cancel" THEN f.due \cup {c} ELSE {}

\* One turn of the detach loop of cancel_coroutines.
Detach(c) ==
  /\ On("cancel") \/ On("silence")
  /\ c \in Top.todo
  /\ co' = [co EXCEPT ![c] = [Detached(co[c]) EXCEPT !.cancelled = TRUE]]
  /\ MaybeHook(Append(Below, [Top EXCEPT !.todo = @ \ {c},
                                      !.due = Owed(Top, c)]))
  /\ UNCHANGED <<created, list, cancelling, attached, destroyed, ownerGone, gone, emitted>>

\* One turn of its notify loop.
NotifyReady_Eager == TRUE
NotifyReady == Top.todo = {}

Notify(c) ==
  /\ On("cancel")
  /\ NotifyReady
  /\ c \in Top.due
  /\ emitted' = [emitted EXCEPT ![c] = @ + 1]
  /\ co' = Emitting(c)
  /\ stack' = Append(Append(Below, [Top EXCEPT !.due = @ \ {c}]),
                     Frame("emit", None, None, c, Slots(c), FALSE))
  /\ UNCHANGED <<created, list, cancelling, attached, destroyed, ownerGone, gone>>

CancelEnds ==
  /\ On("cancel") \/ On("silence")
  /\ Top.todo = {} /\ Top.due = {}
  /\ cancelling' = [cancelling EXCEPT ![Top.state] = Top.prev]
  /\ stack' = Append(Below, LeaveFrame(Top.state))
  /\ UNCHANGED <<co, created, list, attached, destroyed, ownerGone, gone, emitted>>

\* A shared_ptr goes out of scope.  The last one runs ~NativeState.
Keep ==
  /\ On("leave")
  /\ ~LastRef(Top.state)
  /\ stack' = Below
  /\ UNCHANGED <<co, created, list, cancelling, attached, destroyed, ownerGone, gone, emitted>>

Destroy ==
  /\ On("leave")
  /\ LastRef(Top.state)
  /\ destroyed' = destroyed \cup {Top.state}
  /\ BeginCancel(Below, Top.state, "silence")
  /\ UNCHANGED <<co, created, attached, ownerGone, gone, emitted>>

Runtime ==
  \/ Settle
  \/ \E c \in Coros : Detach(c) \/ Notify(c)
  \/ CancelEnds
  \/ Keep
  \/ Destroy

Next == ScriptOp \/ ScriptEnd \/ Emission \/ Runtime

\* The engine thread keeps running whatever it has started, and every script
\* activation is finite (Fuel).
Continue == stack # <<>> /\ Next

Spec == Init /\ [][Next]_vars
FairSpec == Spec /\ WF_vars(Continue)
-----------------------------------------------------------------------------
(* Properties.                                                             *)

\* No activation ever runs for a runtime that weak_ptr::lock() did not return,
\* and every field keeps its type.
TypeOK ==
  /\ co \in [Coros -> CoroRecord]
  /\ created \subseteq Coros
  /\ list \in [States -> SUBSET Coros]
  /\ cancelling \in [States -> BOOLEAN]
  /\ attached \subseteq States /\ destroyed \subseteq States
  /\ ownerGone \subseteq States /\ gone \subseteq Signals
  /\ emitted \in [Coros -> Nat]
  /\ stack \in Seq(Activation)

\* Coroutines whose `completed` signal the activation f has yet to emit.
Claims(f) == IF f.kind = "settle" THEN {f.co}
             ELSE IF f.kind = "cancel" THEN f.todo \cup f.due ELSE {}

\* Whoever awaits a coroutine is told once: cancellation, failure, completion
\* and replacement of the runtime, however nested, never emit `completed` twice.
CompletedOnce == \A c \in Coros : emitted[c] <= 1

\* A retired coroutine keeps neither its callback connected nor its frame
\* alive, whichever path retired it.
NothingLeftBehind == \A c \in Coros :
  co[c].inst = None => co[c].conn = None /\ ~co[c].saved

\* cancel_coroutines can find every live coroutine of its runtime.
Reachable == \A c \in Coros : co[c].inst # None =>
  \/ c \in list[co[c].inst]
  \/ \E i \in 1..Len(stack) : /\ stack[i].kind \in {"cancel", "silence"}
                              /\ stack[i].state = co[c].inst
                              /\ c \in stack[i].todo

\* A live coroutine that is not running has a saved frame and is connected to
\* the signal it awaits, or is among the slots an emission of it still calls.
NoLostWakeup == \A c \in Coros : Lock(c) # None /\ ~co[c].running =>
  /\ co[c].saved
  /\ co[c].awaited # None
  /\ \/ co[c].awaited \in gone
     \/ co[c].conn = co[c].awaited
     \/ \E i \in 1..Len(stack) : /\ stack[i].kind = "emit"
                                 /\ stack[i].sig = co[c].awaited
                                 /\ c \in stack[i].todo

\* A call still due in an emission reaches a retired coroutine, or one that has
\* been waiting for this very emission since the slots were copied.
NoStaleResume == \A i \in 1..Len(stack) : \A c \in Coros :
  stack[i].kind = "emit" /\ c \in stack[i].todo /\ Lock(c) # None =>
    /\ ~co[c].running
    /\ co[c].awaited = stack[i].sig

\* A coroutine is marked running exactly while one activation resumes it.
OneActivation ==
  /\ \A i, j \in 1..Len(stack) :
       /\ stack[i].kind = "body" /\ stack[i].co # None
       /\ stack[j].kind = "body" /\ stack[j].co = stack[i].co
       => i = j
  /\ \A c \in Coros : co[c].running <=>
       \E i \in 1..Len(stack) : stack[i].kind = "body" /\ stack[i].co = c

\* While a runtime cancels its coroutines no script it calls can start one.
CancellationSealed ==
  /\ \A s \in States : cancelling[s] => list[s] = {}
  /\ \A i \in 1..Len(stack) :
       stack[i].kind \in {"cancel", "silence"} => cancelling[stack[i].state]

\* No `completed` handler runs while the detach loop below it has coroutines
\* left: the comment at the head of that loop.
DetachBeforeHandlers == \A i, j \in 1..Len(stack) :
  /\ i < j
  /\ stack[i].kind = "cancel"
  /\ stack[j].kind = "emit" /\ stack[j].sig \in Coros
  => stack[i].todo = {}

\* What has_failed() and was_cancelled() say of a completed coroutine is final
\* once its body has returned.
OutcomeFinal == [][\A c \in Coros :
  emitted[c] > 0 /\ ~co[c].running =>
    /\ co'[c].failed = co[c].failed
    /\ co'[c].cancelled = co[c].cancelled]_vars

\* Every completion an activation owes is delivered.
ClaimsHonoured == \A c \in Coros :
  (\E i \in 1..Len(stack) : c \in Claims(stack[i])) ~> emitted[c] > 0

-----------------------------------------------------------------------------
(* A coroutine is a promise: it completes once or is abandoned.            *)

Status(c) ==
  IF emitted[c] > 0 THEN "completed"
  ELSE IF c \notin created THEN "none"
  ELSE IF co[c].inst # None \/ \E i \in 1..Len(stack) : c \in Claims(stack[i])
       THEN "pending" ELSE "abandoned"

Promised == INSTANCE Completion WITH
  Promises <- Coros,
  status <- [c \in Coros |-> Status(c)],
  told <- emitted

\* The coroutine machinery implements that promise: the statuses only move from
\* none to pending and from pending to completed or abandoned, and `completed`
\* is emitted exactly when a coroutine completes.
Implements == Promised!Spec
=============================================================================
