-------------------------- MODULE CoroutinesProofs --------------------------
(* Theorems about Coroutines, for every set of coroutines, runtimes and      *)
(* signals and every bound on the activations. Those about how coroutines    *)
(* end, in the second half, take it that destroying a saved local runs no    *)
(* script.                                                                   *)
EXTENDS Coroutines, SequenceTheorems, TLAPS

-----------------------------------------------------------------------------
(* The stack as a sequence of well-formed activations.                       *)

\* The topmost activation and the rest of the stack.
LEMMA TopGood ==
  ASSUME stack \in Seq(Activation), stack # <<>>
  PROVE  /\ Top \in Activation
         /\ Below \in Seq(Activation)
         /\ Len(stack) \in Nat \ {0}
         /\ Len(Below) = Len(stack) - 1
         /\ \A i \in 1..Len(Below) : Below[i] = stack[i]
<1> DEFINE n == Len(stack) - 1
<1>1. n \in Nat /\ Len(stack) = n + 1 /\ \A i \in 1..(n + 1) : stack[i] \in Activation
  OBVIOUS
<1>2. Below = SubSeq(stack, 1, n) /\ Top = stack[n + 1]
  BY <1>1 DEF Below, Top
<1> HIDE DEF n
<1>3. Below \in Seq(Activation) /\ Len(Below) = n /\ \A i \in 1..n : Below[i] = stack[i]
  BY <1>1, <1>2, SubSeqProperties
<1> QED BY <1>1, <1>2, <1>3

\* Paying for an operation changes the fuel of the topmost activation only.
LEMMA SpentGood ==
  ASSUME stack \in Seq(Activation), CanAct
  PROVE  /\ Spent \in Seq(Activation)
         /\ Len(Spent) = Len(stack)
         /\ \A i \in 1..Len(stack) : Spent[i] = [stack[i] EXCEPT !.fuel = Spent[i].fuel]
<1>1. CASE stack = <<>>
  BY <1>1 DEF Spent
<1>2. CASE stack # <<>>
  <2>1. Top \in Activation /\ Top.fuel > 0 /\ Top.kind \in {"script", "body"}
    BY <1>2, TopGood DEF CanAct, InScript
  <2>2. [Top EXCEPT !.fuel = @ - 1] \in Activation
    <3>1. Top \in FrameRecord /\ Grounded(Top)
      BY <2>1 DEF Activation
    <3>2. Top.fuel - 1 \in 0..Fuel
      BY <2>1, <3>1, Bounds DEF FrameRecord
    <3>3. [Top EXCEPT !.fuel = @ - 1] \in FrameRecord
      BY <3>1, <3>2 DEF FrameRecord
    <3>4. Grounded([Top EXCEPT !.fuel = @ - 1])
      BY <2>1, <3>1 DEF FrameRecord, Grounded
    <3> QED BY <3>3, <3>4 DEF Activation
  <2>3. Spent = [stack EXCEPT ![Len(stack)] = [Top EXCEPT !.fuel = @ - 1]]
    BY <1>2 DEF Spent, Top
  <2>4. Spent \in Seq(Activation) /\ Len(Spent) = Len(stack)
    BY <2>2, <2>3, <1>2
  <2>5. ASSUME NEW i \in 1..Len(stack)
        PROVE  Spent[i] = [stack[i] EXCEPT !.fuel = Spent[i].fuel]
    <3>1. stack[i] \in Activation
      OBVIOUS
    <3>2. CASE i = Len(stack)
      BY <2>3, <3>1, <3>2, <2>1 DEF Activation, FrameRecord, Top
    <3>3. CASE i # Len(stack)
      BY <2>3, <3>1, <3>3, SMTT(30) DEF Activation, FrameRecord
    <3> QED BY <3>2, <3>3
  <2> QED BY <2>4, <2>5
<1> QED BY <1>1, <1>2

\* Every activation the code starts is well formed.
LEMMA FramesGood ==
  /\ ScriptFrame \in Activation
  /\ \A s \in States : LeaveFrame(s) \in Activation
  /\ \A s \in States, c \in Coros \cup {None} : BodyFrame(s, c) \in Activation
  /\ \A s \in States, c \in Coros : SettleFrame(s, c) \in Activation
  /\ \A s \in States \cup {None}, g \in Signals \cup Coros :
       Frame("emit", s, None, g, Slots(g), FALSE) \in Activation
  /\ \A kind \in {"cancel", "silence"}, s \in States, d \in SUBSET Coros, b \in BOOLEAN :
       Frame(kind, s, None, None, d, b) \in Activation
<1> USE Bounds, Distinct DEF Frame, Activation, FrameRecord, Grounded, Kinds
<1>1. ScriptFrame \in Activation
  BY DEF ScriptFrame
<1>2. \A s \in States : LeaveFrame(s) \in Activation
  BY DEF LeaveFrame
<1>3. \A s \in States, c \in Coros \cup {None} : BodyFrame(s, c) \in Activation
  BY DEF BodyFrame
<1>4. \A s \in States, c \in Coros : SettleFrame(s, c) \in Activation
  BY DEF SettleFrame
<1>5. \A s \in States \cup {None}, g \in Signals \cup Coros :
        Frame("emit", s, None, g, Slots(g), FALSE) \in Activation
  <2>1. \A g : Slots(g) \in SUBSET (Coros \cup {Listener})
    BY DEF Slots
  <2>2. \A s \in States \cup {None}, g \in Signals \cup Coros,
           d \in SUBSET (Coros \cup {Listener}) :
          Frame("emit", s, None, g, d, FALSE) \in Activation
    OBVIOUS
  <2> QED BY <2>1, <2>2
<1>6. \A kind \in {"cancel", "silence"}, s \in States, d \in SUBSET Coros, b \in BOOLEAN :
        Frame(kind, s, None, None, d, b) \in Activation
  OBVIOUS
<1> QED BY <1>1, <1>2, <1>3, <1>4, <1>5, <1>6

\* A destructor handler may or may not be pushed.
LEMMA HookGood ==
  ASSUME NEW q \in Seq(Activation), MaybeHook(q)
  PROVE  stack' \in Seq(Activation)
<1>1. Append(q, ScriptFrame) \in Seq(Activation)
  BY FramesGood, AppendProperties
<1> QED BY <1>1 DEF MaybeHook

\* The updates of a coroutine's fields keep their types.
LEMMA CoUpdates ==
  ASSUME co \in [Coros -> CoroRecord]
  PROVE  /\ \A r \in CoroRecord : Detached(r) \in CoroRecord /\ Disconnected(r) \in CoroRecord
         /\ \A r \in CoroRecord : [Detached(r) EXCEPT !.cancelled = TRUE] \in CoroRecord
         /\ \A r \in CoroRecord, g \in Signals \cup Coros : Connected(r, g) \in CoroRecord
         /\ \A g : Emitting(g) \in [Coros -> CoroRecord]
         /\ \A c \in Coros : Resuming(c) \in CoroRecord
         /\ \A c \in Coros, r \in CoroRecord : [co EXCEPT ![c] = r] \in [Coros -> CoroRecord]
BY ZenonT(30) DEF CoroRecord, Detached, Disconnected, Connected, Emitting, Resuming

\* weak_ptr::lock() returns a runtime whose destructor has not started, or null.
LEMMA LockType ==
  ASSUME NEW c \in Coros
  PROVE  /\ Lock(c) \in (States \ destroyed) \cup {None}
         /\ Lock(c) # None => Lock(c) = co[c].inst /\ Lock(c) \in States \ destroyed
BY Distinct DEF Lock

LEMMA EndedType ==
  ASSUME co \in [Coros -> CoroRecord], Top.co \in Coros, NEW ok \in BOOLEAN
  PROVE  Ended(ok) \in CoroRecord
<1>1. \A r \in CoroRecord, b \in BOOLEAN :
        [r EXCEPT !.running = FALSE, !.failed = b] \in CoroRecord
  BY DEF CoroRecord
<1>2. (co[Top.co].failed \/ ~ok) \in BOOLEAN
  OBVIOUS
<1>3. Ended(ok) = [co[Top.co] EXCEPT !.running = FALSE, !.failed = co[Top.co].failed \/ ~ok]
  BY DEF Ended
<1> QED BY <1>1, <1>2, <1>3

-----------------------------------------------------------------------------
(* Type correctness.                                                         *)

LEMMA TypeInit == Init => TypeOK
<1> SUFFICES ASSUME Init PROVE TypeOK
  OBVIOUS
<1>1. stack \in Seq(Activation)
  BY DEF Init
<1>2. co \in [Coros -> CoroRecord]
  BY DEF Init, CoroRecord
<1> QED BY <1>1, <1>2 DEF Init, TypeOK

LEMMA TypeScriptOp == TypeOK /\ ScriptOp => TypeOK'
<1> SUFFICES ASSUME TypeOK, ScriptOp PROVE TypeOK'
  OBVIOUS
<1>0. /\ CanAct => Spent \in Seq(Activation)
      /\ co \in [Coros -> CoroRecord]
      /\ list \in [States -> SUBSET Coros]
      /\ cancelling \in [States -> BOOLEAN]
  BY SpentGood DEF TypeOK
<1>1. ASSUME NEW g \in Signals, EmitSignal(g) PROVE TypeOK'
  <2>1. stack' \in Seq(Activation)
    BY <1>0, <1>1, FramesGood, AppendProperties DEF EmitSignal
  <2>2. co' \in [Coros -> CoroRecord]
    BY <1>0, <1>1, CoUpdates DEF EmitSignal
  <2> QED BY <1>1, <2>1, <2>2 DEF TypeOK, EmitSignal
<1>2. ASSUME NEW g \in Signals, FreeSource(g) PROVE TypeOK'
  <2>1. co' \in [Coros -> CoroRecord]
    BY <1>0, <1>2, CoUpdates DEF FreeSource
  <2> QED BY <1>0, <1>2, <2>1 DEF TypeOK, FreeSource
<1>3. ASSUME NEW c \in Coros, Cancel(c) PROVE TypeOK'
  <2>1. SettleFrame(Lock(c), c) \in Activation
    BY <1>3, LockType, FramesGood DEF Cancel, Cancellable
  <2>2. stack' \in Seq(Activation)
    BY <1>0, <1>3, <2>1, AppendProperties, HookGood DEF Cancel
  <2>3. [Detached(co[c]) EXCEPT !.cancelled = TRUE] \in CoroRecord
    BY <1>0, CoUpdates
  <2>4. co' \in [Coros -> CoroRecord]
    BY <1>0, <1>3, <2>3, CoUpdates DEF Cancel
  <2> QED BY <1>3, <2>2, <2>4 DEF TypeOK, Cancel
<1>4. ASSUME NEW s \in States, CallFunction(s) PROVE TypeOK'
  <2>1. stack' \in Seq(Activation)
    BY <1>0, <1>4, FramesGood, AppendProperties DEF CallFunction
  <2> QED BY <1>4, <2>1 DEF TypeOK, CallFunction
<1>5. ASSUME NEW s \in States, Replace(s) \/ Teardown(s) PROVE TypeOK'
  <2>1. PICK kind \in {"cancel", "silence"} : CanAct /\ BeginCancel(Spent, s, kind)
    BY <1>5 DEF Replace, Teardown
  <2>2. Frame(kind, s, None, None, list[s], cancelling[s]) \in Activation
    <3>1. list[s] \in SUBSET Coros
      BY <1>0
    <3>2. cancelling[s] \in BOOLEAN
      BY <1>0
    <3> QED BY <3>1, <3>2, FramesGood
  <2>3. stack' \in Seq(Activation)
    BY <1>0, <2>1, <2>2, AppendProperties DEF BeginCancel
  <2>4. list' \in [States -> SUBSET Coros]
    BY <1>0, <2>1 DEF BeginCancel
  <2>5. cancelling' \in [States -> BOOLEAN]
    BY <1>0, <2>1 DEF BeginCancel
  <2> QED BY <1>5, <2>3, <2>4, <2>5 DEF TypeOK, Replace, Teardown
<1>6. ASSUME NEW s \in States, Drop(s) PROVE TypeOK'
  <2>1. stack' \in Seq(Activation)
    BY <1>0, <1>6, FramesGood, AppendProperties DEF Drop
  <2> QED BY <1>6, <2>1 DEF TypeOK, Drop
<1>7. ASSUME NEW s \in States, FreeOwner(s) PROVE TypeOK'
  BY <1>0, <1>7 DEF TypeOK, FreeOwner
<1> QED BY <1>1, <1>2, <1>3, <1>4, <1>5, <1>6, <1>7 DEF ScriptOp

LEMMA TypeScriptEnd == TypeOK /\ ScriptEnd => TypeOK'
<1> SUFFICES ASSUME TypeOK, ScriptEnd PROVE TypeOK'
  OBVIOUS
<1>0. /\ stack # <<>> => /\ Top \in Activation
                         /\ Below \in Seq(Activation)
      /\ co \in [Coros -> CoroRecord]
      /\ list \in [States -> SUBSET Coros]
  BY TopGood DEF TypeOK
<1>1. CASE ListenerReturns
  BY <1>0, <1>1 DEF TypeOK, ListenerReturns, On
<1>2. CASE CallReturns
  <2>1. Top.state \in States
    BY <1>0, <1>2 DEF CallReturns, On, Activation, Grounded
  <2>2. stack' \in Seq(Activation)
    BY <1>0, <1>2, <2>1, FramesGood, AppendProperties DEF CallReturns, On
  <2> QED BY <1>2, <2>2 DEF TypeOK, CallReturns
<1>3. ASSUME NEW g \in Signals \cup Coros, AwaitAgain(g) PROVE TypeOK'
  <2>1. Top.co \in Coros /\ Top.kind = "body"
    BY <1>0, <1>3 DEF AwaitAgain, On, Activation, FrameRecord
  <2>2. [Top EXCEPT !.sig = g] \in Activation
    BY <1>0, <1>3, <2>1 DEF AwaitAgain, On, Activation, FrameRecord, Grounded
  <2>3. stack' \in Seq(Activation)
    BY <1>0, <1>3, <2>2, AppendProperties, HookGood DEF AwaitAgain, On
  <2>4. co' \in [Coros -> CoroRecord]
    <3>1. [Disconnected(co[Top.co]) EXCEPT !.saved = TRUE] \in CoroRecord
      <4>1. Disconnected(co[Top.co]) \in CoroRecord
        BY <1>0, <2>1, CoUpdates
      <4> QED BY <4>1 DEF CoroRecord
    <3> QED BY <3>1, <1>0, <1>3, <2>1, CoUpdates DEF AwaitAgain
  <2> QED BY <1>3, <2>3, <2>4 DEF TypeOK, AwaitAgain
<1>4. ASSUME NEW g \in Signals \cup Coros, NEW c \in Coros, AwaitFresh(c, g) PROVE TypeOK'
  <2>1. Top.state \in States
    BY <1>0, <1>4 DEF AwaitFresh, On, Activation, Grounded
  <2>2. stack' \in Seq(Activation)
    BY <1>0, <1>4, <2>1, FramesGood, AppendProperties DEF AwaitFresh, On
  <2>3. co' \in [Coros -> CoroRecord]
    <3>1. [Connected(co[c], g) EXCEPT !.inst = Top.state, !.saved = TRUE] \in CoroRecord
      <4>1. Connected(co[c], g) \in CoroRecord
        BY <1>0, CoUpdates
      <4> QED BY <4>1, <2>1 DEF CoroRecord
    <3> QED BY <3>1, <1>0, <1>4, CoUpdates DEF AwaitFresh
  <2>4. list' \in [States -> SUBSET Coros] /\ created' \subseteq Coros
    BY <1>0, <1>4, <2>1 DEF AwaitFresh, TypeOK
  <2> QED BY <1>4, <2>2, <2>3, <2>4 DEF TypeOK, AwaitFresh
<1>5. CASE Reconnect
  <2>1. Top.sig \in Signals \cup Coros /\ Top.sig # None
    BY <1>5, Distinct DEF Reconnect, Awaitable, TypeOK
  <2>2. Top.co \in Coros /\ Top.state \in States
    BY <1>0, <1>5, <2>1 DEF Reconnect, On, Activation, FrameRecord, Grounded
  <2>3. stack' \in Seq(Activation)
    BY <1>0, <1>5, <2>2, FramesGood, AppendProperties DEF Reconnect, On
  <2>4. co' \in [Coros -> CoroRecord]
    <3>1. [Connected(co[Top.co], Top.sig) EXCEPT !.running = FALSE] \in CoroRecord
      <4>1. Connected(co[Top.co], Top.sig) \in CoroRecord
        BY <1>0, <2>1, <2>2, CoUpdates
      <4> QED BY <4>1 DEF CoroRecord
    <3> QED BY <3>1, <1>0, <1>5, <2>2, CoUpdates DEF Reconnect
  <2> QED BY <1>5, <2>3, <2>4 DEF TypeOK, Reconnect
<1>6. ASSUME NEW ok \in BOOLEAN, ResumedCompletes(ok) PROVE TypeOK'
  <2>1. Top.co \in Coros /\ Top.state \in States
    BY <1>0, <1>6 DEF ResumedCompletes, On, Activation, FrameRecord, Grounded
  <2>2. stack' \in Seq(Activation)
    <3>1. Append(Below, SettleFrame(Top.state, Top.co)) \in Seq(Activation)
      BY <1>0, <1>6, <2>1, FramesGood, AppendProperties DEF ResumedCompletes, On
    <3> QED BY <3>1, <1>6, HookGood DEF ResumedCompletes
  <2>3. Ended(ok) \in CoroRecord
    BY <1>0, <2>1, EndedType
  <2>4. co' \in [Coros -> CoroRecord]
    BY <1>0, <1>6, <2>1, <2>3, CoUpdates DEF ResumedCompletes
  <2> QED BY <1>6, <2>2, <2>4 DEF TypeOK, ResumedCompletes
<1>7. ASSUME NEW ok \in BOOLEAN, ResumedWasCancelled(ok) PROVE TypeOK'
  <2>1. Top.co \in Coros /\ Top.state \in States
    BY <1>0, <1>7 DEF ResumedWasCancelled, On, Activation, FrameRecord, Grounded
  <2>2. stack' \in Seq(Activation)
    BY <1>0, <1>7, <2>1, FramesGood, AppendProperties DEF ResumedWasCancelled, On
  <2>3. Ended(ok) \in CoroRecord
    BY <1>0, <2>1, EndedType
  <2>4. co' \in [Coros -> CoroRecord]
    BY <1>0, <1>7, <2>1, <2>3, CoUpdates DEF ResumedWasCancelled
  <2> QED BY <1>7, <2>2, <2>4 DEF TypeOK, ResumedWasCancelled
<1> QED BY <1>1, <1>2, <1>3, <1>4, <1>5, <1>6, <1>7 DEF ScriptEnd

LEMMA TypeEmission == TypeOK /\ Emission => TypeOK'
<1> SUFFICES ASSUME TypeOK, Emission PROVE TypeOK'
  OBVIOUS
<1>0. /\ stack # <<>> => /\ Top \in Activation
                         /\ Below \in Seq(Activation)
      /\ co \in [Coros -> CoroRecord]
  BY TopGood DEF TypeOK
<1>1. ASSUME NEW x, On("emit") PROVE Called(x) \in Seq(Activation)
  <2>1. [Top EXCEPT !.todo = @ \ {x}] \in Activation
    BY <1>0, <1>1 DEF On, Activation, FrameRecord, Grounded
  <2> QED BY <1>0, <1>1, <2>1, AppendProperties DEF Called, On
<1>2. CASE CallListener
  BY <1>1, <1>2, FramesGood, AppendProperties DEF TypeOK, CallListener
<1>3. ASSUME NEW c \in Coros, CallRetired(c) PROVE TypeOK'
  BY <1>1, <1>3 DEF TypeOK, CallRetired
<1>4. ASSUME NEW c \in Coros, CallOrphan(c) PROVE TypeOK'
  <2>1. SettleFrame(Lock(c), c) \in Activation
    BY <1>4, LockType, FramesGood DEF CallOrphan, IgnoresResume
  <2>2. Append(Called(c), SettleFrame(Lock(c), c)) \in Seq(Activation)
    BY <1>1, <1>4, <2>1, AppendProperties DEF CallOrphan
  <2>3. stack' \in Seq(Activation)
    BY <1>4, <2>2, HookGood DEF CallOrphan
  <2>4. co' \in [Coros -> CoroRecord]
    BY <1>0, <1>4, CoUpdates DEF CallOrphan
  <2> QED BY <1>4, <2>3, <2>4 DEF TypeOK, CallOrphan
<1>5. ASSUME NEW c \in Coros, Resume(c) PROVE TypeOK'
  <2>1. BodyFrame(Lock(c), c) \in Activation
    BY <1>5, LockType, FramesGood DEF Resume, IgnoresResume
  <2>2. stack' \in Seq(Activation)
    BY <1>1, <1>5, <2>1, AppendProperties DEF Resume
  <2>3. co' \in [Coros -> CoroRecord]
    BY <1>0, <1>5, CoUpdates DEF Resume
  <2> QED BY <1>5, <2>2, <2>3 DEF TypeOK, Resume
<1>6. CASE EmissionEnds
  <2>1. CASE Top.state = None
    BY <1>0, <1>6, <2>1 DEF TypeOK, EmissionEnds, On
  <2>2. CASE Top.state # None
    <3>1. LeaveFrame(Top.state) \in Activation
      BY <1>0, <1>6, <2>2, FramesGood DEF EmissionEnds, On, Activation, FrameRecord
    <3>2. stack' \in Seq(Activation)
      BY <1>0, <1>6, <2>2, <3>1, AppendProperties DEF EmissionEnds, On
    <3> QED BY <1>6, <3>2 DEF TypeOK, EmissionEnds
  <2> QED BY <2>1, <2>2
<1> QED BY <1>2, <1>3, <1>4, <1>5, <1>6 DEF Emission

LEMMA TypeRuntime == TypeOK /\ Runtime => TypeOK'
<1> SUFFICES ASSUME TypeOK, Runtime PROVE TypeOK'
  OBVIOUS
<1>0. /\ stack # <<>> => /\ Top \in Activation
                         /\ Below \in Seq(Activation)
      /\ co \in [Coros -> CoroRecord]
      /\ list \in [States -> SUBSET Coros]
      /\ cancelling \in [States -> BOOLEAN]
      /\ emitted \in [Coros -> Nat]
  BY TopGood DEF TypeOK
<1>1. CASE Settle
  <2>1. Top.co \in Coros /\ Top.state \in States
    BY <1>0, <1>1 DEF Settle, On, Activation, Grounded
  <2>2. stack' \in Seq(Activation)
    BY <1>0, <1>1, <2>1, FramesGood, AppendProperties DEF Settle, On
  <2>3. co' \in [Coros -> CoroRecord]
    BY <1>0, <1>1, CoUpdates DEF Settle
  <2>4. list' \in [States -> SUBSET Coros] /\ emitted' \in [Coros -> Nat]
    BY <1>0, <1>1, <2>1 DEF Settle
  <2> QED BY <1>1, <2>2, <2>3, <2>4 DEF TypeOK, Settle
<1>2. ASSUME NEW c \in Coros, Detach(c) PROVE TypeOK'
  <2>1. Owed(Top, c) \in SUBSET Coros
    BY <1>0, <1>2 DEF Detach, On, Owed, Activation, FrameRecord
  <2>2. [Top EXCEPT !.todo = @ \ {c}, !.due = Owed(Top, c)] \in Activation
    BY <1>0, <1>2, <2>1 DEF Detach, On, Activation, FrameRecord, Grounded
  <2>3. Append(Below, [Top EXCEPT !.todo = @ \ {c}, !.due = Owed(Top, c)]) \in Seq(Activation)
    BY <1>0, <1>2, <2>2, AppendProperties DEF Detach, On
  <2>4. stack' \in Seq(Activation)
    BY <1>2, <2>3, HookGood DEF Detach
  <2>5. co' \in [Coros -> CoroRecord]
    BY <1>0, <1>2, CoUpdates DEF Detach
  <2> QED BY <1>2, <2>4, <2>5 DEF TypeOK, Detach
<1>3. ASSUME NEW c \in Coros, Notify(c) PROVE TypeOK'
  <2>1. [Top EXCEPT !.due = @ \ {c}] \in Activation
    BY <1>0, <1>3 DEF Notify, On, Activation, FrameRecord, Grounded
  <2>2. stack' \in Seq(Activation)
    BY <1>0, <1>3, <2>1, FramesGood, AppendProperties DEF Notify, On
  <2>3. co' \in [Coros -> CoroRecord]
    BY <1>0, <1>3, CoUpdates DEF Notify
  <2>4. emitted' \in [Coros -> Nat]
    BY <1>0, <1>3 DEF Notify
  <2> QED BY <1>3, <2>2, <2>3, <2>4 DEF TypeOK, Notify
<1>4. CASE CancelEnds
  <2>1. Top.state \in States /\ Top.prev \in BOOLEAN
    BY <1>0, <1>4 DEF CancelEnds, On, Activation, FrameRecord, Grounded
  <2>2. stack' \in Seq(Activation)
    BY <1>0, <1>4, <2>1, FramesGood, AppendProperties DEF CancelEnds, On
  <2>3. cancelling' \in [States -> BOOLEAN]
    BY <1>0, <1>4, <2>1 DEF CancelEnds
  <2> QED BY <1>4, <2>2, <2>3 DEF TypeOK, CancelEnds
<1>5. CASE Keep
  BY <1>0, <1>5 DEF TypeOK, Keep, On
<1>6. CASE Destroy
  <2>1. Top.state \in States
    BY <1>6 DEF Destroy, LastRef
  <2>2. Frame("silence", Top.state, None, None, list[Top.state], cancelling[Top.state]) \in Activation
    <3>1. list[Top.state] \in SUBSET Coros
      BY <1>0, <2>1
    <3>2. cancelling[Top.state] \in BOOLEAN
      BY <1>0, <2>1
    <3> QED BY <2>1, <3>1, <3>2, FramesGood
  <2>3. stack' \in Seq(Activation)
    BY <1>0, <1>6, <2>2, AppendProperties DEF Destroy, BeginCancel, On
  <2>4. list' \in [States -> SUBSET Coros]
    BY <1>0, <1>6 DEF Destroy, BeginCancel
  <2>5. cancelling' \in [States -> BOOLEAN]
    BY <1>0, <1>6 DEF Destroy, BeginCancel
  <2> QED BY <1>6, <2>1, <2>3, <2>4, <2>5 DEF TypeOK, Destroy
<1> QED BY <1>1, <1>2, <1>3, <1>4, <1>5, <1>6 DEF Runtime

\* Every activation that needs a runtime or a coroutine has one, and every
\* field keeps its type: no null runtime is ever dereferenced.
THEOREM TypeCorrect == Spec => []TypeOK
<1>1. TypeOK /\ [Next]_vars => TypeOK'
  <2> SUFFICES ASSUME TypeOK, [Next]_vars PROVE TypeOK'
    OBVIOUS
  <2>1. CASE UNCHANGED vars
    BY <2>1 DEF TypeOK, vars
  <2> QED BY <2>1, TypeScriptOp, TypeScriptEnd, TypeEmission, TypeRuntime DEF Next
<1> QED BY TypeInit, <1>1, PTL DEF Spec

-----------------------------------------------------------------------------
(* The activations seen by place.  A place above the stack shows a listener,  *)
(* the activation that owes and holds nothing, so that pushing a destructor   *)
(* handler is not seen, nor is the fuel that script spends.                   *)

View(f) ==
  [kind |-> f.kind, state |-> f.state, co |-> f.co, sig |-> f.sig, todo |-> f.todo,
   due |-> f.due, prev |-> f.prev]
Blank == View(ScriptFrame)
At(q, i) == IF i \in 1..Len(q) THEN View(q[i]) ELSE Blank

LEMMA BlankView ==
  /\ Blank.kind = "script" /\ Blank.state = None /\ Blank.co = None /\ Blank.sig = None
  /\ Blank.todo = {} /\ Blank.due = {} /\ Blank.prev = FALSE
BY DEF Blank, View, ScriptFrame, Frame

\* A pushed activation is seen at its place.
LEMMA ViewPush ==
  ASSUME NEW S, NEW q \in Seq(S), NEW f \in S
  PROVE  /\ Append(q, f) \in Seq(S) /\ Len(q) \in Nat
         /\ \A i \in Nat : At(Append(q, f), i) = IF i = Len(q) + 1 THEN View(f) ELSE At(q, i)
<1>1. /\ Append(q, f) \in Seq(S) /\ Len(q) \in Nat /\ Len(Append(q, f)) = Len(q) + 1
      /\ \A i \in 1..Len(q) : Append(q, f)[i] = q[i]
      /\ Append(q, f)[Len(q) + 1] = f
  BY AppendProperties
<1> QED BY <1>1 DEF At

\* Beyond the top there is nothing.
LEMMA ViewAbove ==
  ASSUME NEW S, NEW q \in Seq(S)
  PROVE  Len(q) \in Nat /\ \A i \in Nat : i > Len(q) => At(q, i) = Blank
BY DEF At

LEMMA ViewTop ==
  ASSUME stack \in Seq(Activation), stack # <<>>
  PROVE  At(stack, Len(stack)) = View(Top) /\ Len(stack) \in Nat \ {0}
BY TopGood DEF At, Top

LEMMA ViewBelow ==
  ASSUME stack \in Seq(Activation), stack # <<>>
  PROVE  /\ Below \in Seq(Activation) /\ Len(Below) + 1 = Len(stack) /\ Len(stack) \in Nat
         /\ \A i \in Nat : At(Below, i) = IF i = Len(stack) THEN Blank ELSE At(stack, i)
BY TopGood DEF At

LEMMA ViewSpent ==
  ASSUME stack \in Seq(Activation), CanAct
  PROVE  /\ Spent \in Seq(Activation) /\ Len(Spent) = Len(stack)
         /\ \A i \in Nat : At(Spent, i) = At(stack, i)
<1>1. /\ Spent \in Seq(Activation) /\ Len(Spent) = Len(stack)
      /\ \A i \in 1..Len(stack) : Spent[i] = [stack[i] EXCEPT !.fuel = Spent[i].fuel]
  BY SpentGood
<1>2. ASSUME NEW i \in 1..Len(stack)
      PROVE  View(Spent[i]) = View(stack[i])
  <2>1. stack[i] \in Activation /\ Spent[i] = [stack[i] EXCEPT !.fuel = Spent[i].fuel]
    BY <1>1
  <2>2. /\ Spent[i].kind = stack[i].kind /\ Spent[i].co = stack[i].co
        /\ Spent[i].state = stack[i].state /\ Spent[i].sig = stack[i].sig
        /\ Spent[i].todo = stack[i].todo /\ Spent[i].due = stack[i].due
        /\ Spent[i].prev = stack[i].prev
    BY <2>1 DEF Activation, FrameRecord
  <2> QED BY <2>2 DEF View
<1> QED BY <1>1, <1>2 DEF At

\* The destructor handler is not seen.
LEMMA ViewHook ==
  ASSUME NEW S, NEW q \in Seq(S), MaybeHook(q)
  PROVE  \A i \in Nat : At(stack', i) = At(q, i)
<1>1. CASE stack' = q
  BY <1>1
<1>2. CASE stack' = Append(q, ScriptFrame)
  <2> DEFINE R == S \cup {ScriptFrame}
  <2>1. q \in Seq(R) /\ ScriptFrame \in R
    OBVIOUS
  <2> HIDE DEF R
  <2>2. \A i \in Nat : At(stack', i) = IF i = Len(q) + 1 THEN Blank ELSE At(q, i)
    BY <1>2, <2>1, ViewPush DEF Blank
  <2> QED BY <2>1, <2>2, ViewAbove
<1> QED BY <1>1, <1>2 DEF MaybeHook

-----------------------------------------------------------------------------
(* What the steps do to the activations seen.                                *)

\* stk, with or without a destructor handler on top, is the new stack.
Leaves(stk) == stack' = stk \/ MaybeHook(stk)

\* Only what is at place k changes, to w.
Becomes(k, w) == \A i \in Nat : At(stack', i) = IF i = k THEN w ELSE At(stack, i)

LEMMA SeeLeft ==
  ASSUME NEW q \in Seq(Activation), NEW f, Leaves(Append(q, f))
  PROVE  \A i \in Nat : At(stack', i) = IF i = Len(q) + 1 THEN View(f) ELSE At(q, i)
<1> DEFINE S == Activation \cup {f}
<1>1. q \in Seq(S) /\ f \in S
  OBVIOUS
<1> HIDE DEF S
<1>2. /\ Append(q, f) \in Seq(S)
      /\ \A i \in Nat : At(Append(q, f), i) = IF i = Len(q) + 1 THEN View(f) ELSE At(q, i)
  BY <1>1, ViewPush
<1>3. \A i \in Nat : At(stack', i) = At(Append(q, f), i)
  BY <1>2, ViewHook DEF Leaves
<1> QED BY <1>2, <1>3

\* Script starts an activation.
LEMMA SeePush ==
  ASSUME TypeOK, CanAct, NEW f, Leaves(Append(Spent, f))
  PROVE  /\ Len(stack) \in Nat /\ Becomes(Len(stack) + 1, View(f))
         /\ \A i \in Nat : i > Len(stack) => At(stack, i) = Blank
BY ViewSpent, SeeLeft, ViewAbove DEF Becomes, TypeOK

\* Script goes on.
LEMMA SeeSpent ==
  ASSUME TypeOK, CanAct, stack' = Spent
  PROVE  \A i \in Nat : At(stack', i) = At(stack, i)
BY ViewSpent DEF TypeOK

\* The topmost activation changes, or another one takes its place.
LEMMA SeeTop ==
  ASSUME TypeOK, stack # <<>>, NEW f, Leaves(Append(Below, f))
  PROVE  /\ Len(stack) \in Nat \ {0} /\ Becomes(Len(stack), View(f))
         /\ At(stack, Len(stack)) = View(Top)
         /\ \A i \in Nat : i > Len(stack) => At(stack, i) = Blank
<1>1. /\ Below \in Seq(Activation) /\ Len(Below) + 1 = Len(stack) /\ Len(stack) \in Nat
      /\ \A i \in Nat : At(Below, i) = IF i = Len(stack) THEN Blank ELSE At(stack, i)
  BY ViewBelow DEF TypeOK
<1>2. \A i \in Nat : At(stack', i) = IF i = Len(stack) THEN View(f) ELSE At(stack, i)
  BY <1>1, SeeLeft
<1> QED BY <1>1, <1>2, ViewTop, ViewAbove DEF Becomes, TypeOK

\* The topmost activation returns.
LEMMA SeePop ==
  ASSUME TypeOK, stack # <<>>, stack' = Below
  PROVE  /\ Len(stack) \in Nat \ {0} /\ Becomes(Len(stack), Blank)
         /\ At(stack, Len(stack)) = View(Top)
         /\ \A i \in Nat : i > Len(stack) => At(stack, i) = Blank
BY ViewBelow, ViewTop, ViewAbove DEF Becomes, TypeOK

\* The topmost activation changes and starts another one.
LEMMA SeeBoth ==
  ASSUME TypeOK, stack # <<>>, NEW f, NEW g, Leaves(Append(Append(Below, f), g))
  PROVE  /\ Len(stack) \in Nat \ {0}
         /\ At(stack, Len(stack)) = View(Top)
         /\ \A i \in Nat : i > Len(stack) => At(stack, i) = Blank
         /\ \A i \in Nat : At(stack', i) = IF i = Len(stack) + 1 THEN View(g)
                                           ELSE IF i = Len(stack) THEN View(f) ELSE At(stack, i)
<1> DEFINE S == Activation \cup {f, g}
           q == Append(Below, f)
<1>1. /\ Below \in Seq(Activation) /\ Len(Below) + 1 = Len(stack) /\ Len(stack) \in Nat
      /\ \A i \in Nat : At(Below, i) = IF i = Len(stack) THEN Blank ELSE At(stack, i)
  BY ViewBelow DEF TypeOK
<1>2. Below \in Seq(S) /\ f \in S /\ g \in S
  BY <1>1
<1> HIDE DEF S
<1>3. /\ q \in Seq(S) /\ Len(q) = Len(stack)
      /\ \A i \in Nat : At(q, i) = IF i = Len(stack) THEN View(f) ELSE At(Below, i)
  BY <1>1, <1>2, ViewPush, AppendProperties
<1> HIDE DEF q
<1>4. /\ Append(q, g) \in Seq(S)
      /\ \A i \in Nat : At(Append(q, g), i) = IF i = Len(q) + 1 THEN View(g) ELSE At(q, i)
  BY <1>2, <1>3, ViewPush
<1>5. \A i \in Nat : At(stack', i) = At(Append(q, g), i)
  BY <1>4, ViewHook DEF Leaves, q
<1> QED BY <1>1, <1>3, <1>4, <1>5, ViewTop, ViewAbove DEF TypeOK

-----------------------------------------------------------------------------
(* Waiting and resuming: the inductive invariant.                            *)

\* The coroutine that the activation at place i resumes, and those that the
\* emission at place i has yet to call.
Resumes(i) == IF At(stack, i).kind = "body" THEN At(stack, i).co ELSE None
Calls(i) == IF At(stack, i).kind = "emit" THEN At(stack, i).todo \cap Coros ELSE {}

\* One activation resumes a coroutine, exactly while it is marked running, and it
\* runs for the coroutine's own runtime unless the coroutine was retired meanwhile.
ResumedOnce == \A i, j \in Nat : Resumes(i) # None /\ Resumes(j) = Resumes(i) => i = j
RunningHasBody == \A c \in Coros : co[c].running <=> \E i \in Nat : Resumes(i) = c
ResumedByOwner == \A i \in Nat : Resumes(i) # None =>
  /\ Resumes(i) \in created
  /\ co[Resumes(i)].inst = None \/ co[Resumes(i)].inst = At(stack, i).state

\* Whoever an emission is about to call waits for it, is connected to nothing else,
\* and is called by no other emission.
DueWaits == \A i \in Nat : \A c \in Calls(i) :
  /\ c \in created
  /\ Lock(c) # None =>
       ~co[c].running /\ co[c].awaited = At(stack, i).sig /\ co[c].conn = None
DueOnce == \A i, j \in Nat : \A c \in Coros :
  c \in Calls(i) /\ c \in Calls(j) /\ Lock(c) # None => i = j

\* What is connected waits; what was not created does nothing; what is live can be resumed.
ConnectedWaits == \A c \in Coros :
  co[c].conn # None => ~co[c].running /\ co[c].awaited = co[c].conn
FreshIdle == \A c \in Coros \ created :
  co[c].inst = None /\ co[c].conn = None /\ ~co[c].running
LiveSaved == \A c \in Coros : co[c].inst # None => co[c].saved

\* NoLostWakeup, by place.
Waiting == \A c \in Coros : Lock(c) # None /\ ~co[c].running =>
  /\ co[c].awaited # None
  /\ \/ co[c].awaited \in gone
     \/ co[c].conn = co[c].awaited
     \/ \E i \in Nat : c \in Calls(i) /\ At(stack, i).sig = co[c].awaited

WakeInv ==
  /\ ResumedOnce /\ RunningHasBody /\ ResumedByOwner
  /\ DueWaits /\ DueOnce /\ ConnectedWaits
  /\ FreshIdle /\ LiveSaved /\ Waiting

\* No coroutine gets a runtime, and no runtime comes back.
LEMMA LockStays ==
  ASSUME NEW c \in Coros, co'[c].inst = co[c].inst \/ co'[c].inst = None,
         destroyed \subseteq destroyed'
  PROVE  Lock(c)' # None => Lock(c) # None /\ co'[c].inst = co[c].inst /\ co'[c].inst # None
BY Distinct DEF Lock

\* A step that changes no waiting: each coroutine is left alone, retired, or about
\* to suspend again, and an emission forgets only who must not be called.
Undisturbed(c) ==
  \/ co'[c] = co[c]
  \/ co'[c].inst = None /\ co'[c].conn = None /\ (co'[c].running <=> co[c].running)
  \/ /\ co[c].running /\ co'[c].running /\ co'[c].inst = co[c].inst
     /\ co'[c].conn = None /\ co'[c].saved

SameRuns == \A i \in Nat :
  /\ Resumes(i)' = Resumes(i)
  /\ Resumes(i) # None => At(stack', i).state = At(stack, i).state
SameCalls == \A i \in Nat :
  /\ Calls(i)' = Calls(i)
  /\ Calls(i) # {} => At(stack', i).sig = At(stack, i).sig

LEMMA WakeQuiet ==
  ASSUME TypeOK, WakeInv, SameRuns,
         \A i \in Nat :
           /\ Calls(i)' \subseteq Calls(i)
           /\ \A c \in Calls(i) \ Calls(i)' : Lock(c)' = None \/ co'[c].running
           /\ Calls(i)' # {} => At(stack', i).sig = At(stack, i).sig,
         \A c \in Coros : Undisturbed(c),
         created' = created, destroyed \subseteq destroyed', gone \subseteq gone'
  PROVE  WakeInv'
<1> USE DEF WakeInv
<1>0. \A i \in Nat : Calls(i) \subseteq Coros
  BY DEF Calls
<1>1. ASSUME NEW c \in Coros
      PROVE  /\ co'[c].running <=> co[c].running
             /\ co'[c].inst = co[c].inst \/ co'[c].inst = None
             /\ co'[c].conn = co[c].conn \/ co'[c].conn = None
  BY DEF Undisturbed
<1>2. ASSUME NEW c \in Coros, Lock(c)' # None
      PROVE  Lock(c) # None /\ co'[c].inst = co[c].inst /\ co'[c].inst # None
  <2>1. co'[c].inst = co[c].inst \/ co'[c].inst = None
    BY <1>1
  <2> QED BY <1>2, <2>1, LockStays
<1>3. \A c \in Coros : Lock(c)' # None /\ ~co[c].running => co'[c] = co[c]
  BY <1>2 DEF Undisturbed
<1>4. ResumedOnce'
  BY DEF ResumedOnce, SameRuns
<1>5. RunningHasBody'
  <2>1. ASSUME NEW c \in Coros
        PROVE  co'[c].running <=> \E i \in Nat : Resumes(i)' = c
    BY <1>1 DEF RunningHasBody, SameRuns
  <2> QED BY <2>1 DEF RunningHasBody
<1>6. ResumedByOwner'
  <2>1. \A i \in Nat : Resumes(i) # None => Resumes(i) \in Coros
    BY DEF ResumedByOwner, TypeOK
  <2>2. ASSUME NEW i \in Nat, Resumes(i)' # None
        PROVE  /\ Resumes(i)' \in created'
               /\ co'[Resumes(i)'].inst = None \/ co'[Resumes(i)'].inst = At(stack', i).state
    BY <1>1, <2>1, <2>2 DEF ResumedByOwner, SameRuns
  <2> QED BY <2>2 DEF ResumedByOwner
<1>7. DueWaits'
  BY <1>0, <1>2, <1>3 DEF DueWaits
<1>8. DueOnce'
  BY <1>2 DEF DueOnce
<1>9. ConnectedWaits'
  BY <1>1 DEF ConnectedWaits, Undisturbed
<1>10. FreshIdle'
  BY DEF FreshIdle, Undisturbed
<1>11. LiveSaved'
  BY DEF LiveSaved, Undisturbed
<1>12. Waiting'
  <2> SUFFICES ASSUME NEW c \in Coros, Lock(c)' # None, ~co'[c].running
               PROVE  /\ co'[c].awaited # None
                      /\ \/ co'[c].awaited \in gone'
                         \/ co'[c].conn = co'[c].awaited
                         \/ \E i \in Nat : c \in Calls(i)' /\ At(stack', i).sig = co'[c].awaited
    BY DEF Waiting
  <2>1. co'[c] = co[c] /\ Lock(c) # None /\ ~co[c].running
    <3>1. Lock(c) # None /\ ~co[c].running
      BY <1>1, <1>2
    <3> QED BY <1>3, <3>1
  <2>2. ASSUME NEW i \in Nat, c \in Calls(i), At(stack, i).sig = co[c].awaited
        PROVE  c \in Calls(i)' /\ At(stack', i).sig = co'[c].awaited
    BY <2>1, <2>2
  <2> QED BY <2>1, <2>2 DEF Waiting
<1> QED BY <1>4, <1>5, <1>6, <1>7, <1>8, <1>9, <1>10, <1>11, <1>12

\* An emission of g starts at place k and disconnects whom it is going to call; or the
\* object of g is freed, and nobody is called.
LEMMA WakeEmission ==
  ASSUME TypeOK, WakeInv, SameRuns, NEW g \in Signals \cup Coros, NEW k \in Nat, Calls(k) = {},
         co' = Emitting(g), created' = created, destroyed' = destroyed, gone \subseteq gone',
         \/ Calls(k)' = {c \in Coros : co[c].conn = g} /\ At(stack', k).sig = g
         \/ Calls(k)' = {} /\ g \in gone',
         \A i \in Nat \ {k} : /\ Calls(i)' = Calls(i)
                              /\ Calls(i) # {} => At(stack', i).sig = At(stack, i).sig
  PROVE  WakeInv'
<1> USE DEF WakeInv
<1>0. g # None /\ \A i \in Nat : Calls(i) \subseteq Coros /\ Calls(i)' \subseteq Coros
  BY Distinct DEF Calls
<1>1. ASSUME NEW c \in Coros
      PROVE  /\ co'[c].running = co[c].running /\ co'[c].inst = co[c].inst
             /\ co'[c].awaited = co[c].awaited /\ co'[c].saved = co[c].saved
             /\ co[c].conn = g => co'[c].conn = None
             /\ co[c].conn # g => co'[c].conn = co[c].conn
  BY DEF TypeOK, CoroRecord, Emitting
<1>2. ASSUME NEW c \in Coros
      PROVE  Lock(c)' = Lock(c)
  BY <1>1 DEF Lock
<1>3. ASSUME NEW c \in Coros, co[c].conn = g
      PROVE  ~co[c].running /\ co[c].awaited = g /\ c \in created
             /\ \A i \in Nat : c \in Calls(i) => Lock(c) = None
  BY <1>0, <1>3 DEF ConnectedWaits, FreshIdle, DueWaits
<1>4. ResumedOnce'
  BY DEF ResumedOnce, SameRuns
<1>5. RunningHasBody'
  <2>1. ASSUME NEW c \in Coros
        PROVE  co'[c].running <=> \E i \in Nat : Resumes(i)' = c
    BY <1>1 DEF RunningHasBody, SameRuns
  <2> QED BY <2>1 DEF RunningHasBody
<1>6. ResumedByOwner'
  <2>1. \A i \in Nat : Resumes(i) # None => Resumes(i) \in Coros
    BY DEF ResumedByOwner, TypeOK
  <2>2. ASSUME NEW i \in Nat, Resumes(i)' # None
        PROVE  /\ Resumes(i)' \in created'
               /\ co'[Resumes(i)'].inst = None \/ co'[Resumes(i)'].inst = At(stack', i).state
    BY <1>1, <2>1, <2>2 DEF ResumedByOwner, SameRuns
  <2> QED BY <2>2 DEF ResumedByOwner
<1>7. DueWaits'
  <2> SUFFICES ASSUME NEW i \in Nat, NEW c \in Calls(i)'
               PROVE  /\ c \in created'
                      /\ Lock(c)' # None =>
                           ~co'[c].running /\ co'[c].awaited = At(stack', i).sig /\ co'[c].conn = None
    BY DEF DueWaits
  <2>1. c \in Coros
    BY <1>0
  <2>2. CASE i = k
    <3>1. co[c].conn = g /\ At(stack', i).sig = g
      BY <2>2
    <3> QED BY <1>1, <1>3, <2>1, <3>1
  <2>3. CASE i # k
    BY <1>1, <1>2, <2>1, <2>3 DEF DueWaits
  <2> QED BY <2>2, <2>3
<1>8. DueOnce'
  <2> SUFFICES ASSUME NEW i \in Nat, NEW j \in Nat, NEW c \in Coros,
                      c \in Calls(i)', c \in Calls(j)', Lock(c)' # None
               PROVE  i = j
    BY DEF DueOnce
  <2>1. CASE i # k /\ j # k
    BY <1>2, <2>1 DEF DueOnce
  <2>2. CASE i = k /\ j # k
    BY <1>2, <1>3, <2>2
  <2>3. CASE j = k /\ i # k
    BY <1>2, <1>3, <2>3
  <2> QED BY <2>1, <2>2, <2>3
<1>9. ConnectedWaits'
  BY <1>1 DEF ConnectedWaits
<1>10. FreshIdle'
  BY <1>1 DEF FreshIdle, TypeOK
<1>11. LiveSaved'
  BY <1>1 DEF LiveSaved
<1>12. Waiting'
  <2> SUFFICES ASSUME NEW c \in Coros, Lock(c)' # None, ~co'[c].running
               PROVE  /\ co'[c].awaited # None
                      /\ \/ co'[c].awaited \in gone'
                         \/ co'[c].conn = co'[c].awaited
                         \/ \E i \in Nat : c \in Calls(i)' /\ At(stack', i).sig = co'[c].awaited
    BY DEF Waiting
  <2>1. Lock(c) # None /\ ~co[c].running /\ co'[c].awaited = co[c].awaited
    BY <1>1, <1>2
  <2>2. ASSUME NEW i \in Nat, c \in Calls(i), At(stack, i).sig = co[c].awaited
        PROVE  i # k /\ c \in Calls(i)' /\ At(stack', i).sig = co'[c].awaited
    BY <2>1, <2>2
  <2>3. CASE co[c].conn = co[c].awaited /\ co[c].conn # g
    BY <1>1, <2>1, <2>3 DEF Waiting
  <2>4. CASE co[c].conn = co[c].awaited /\ co[c].conn = g
    BY <1>0, <2>1, <2>4
  <2> QED BY <2>1, <2>2, <2>3, <2>4 DEF Waiting
<1> QED BY <1>4, <1>5, <1>6, <1>7, <1>8, <1>9, <1>10, <1>11, <1>12

\* The activation at place k begins to resume c, which the emission at place e called.
LEMMA WakeResume ==
  ASSUME TypeOK, WakeInv, NEW c \in Coros, NEW e \in Nat, NEW k \in Nat,
         c \in Calls(e), Lock(c) # None, ~co[c].running,
         Resumes(k) = None, Resumes(k)' = c, At(stack', k).state = Lock(c),
         \A i \in Nat \ {k} : /\ Resumes(i)' = Resumes(i)
                              /\ Resumes(i) # None => At(stack', i).state = At(stack, i).state,
         Calls(e)' = Calls(e) \ {c}, At(stack', e).sig = At(stack, e).sig,
         \A i \in Nat \ {e} : /\ Calls(i)' = Calls(i)
                              /\ Calls(i) # {} => At(stack', i).sig = At(stack, i).sig,
         co' = [co EXCEPT ![c] = Resuming(c)],
         created' = created, destroyed' = destroyed, gone' = gone
  PROVE  WakeInv'
<1> USE DEF WakeInv
<1>0. c # None /\ Lock(c) = co[c].inst /\ c \in created
      /\ \A i \in Nat : Calls(i) \subseteq Coros /\ Calls(i)' \subseteq Coros
  BY Distinct, LockType DEF Calls, DueWaits
<1>1. /\ co'[c].running /\ co'[c].inst = co[c].inst /\ co'[c].conn = None
      /\ co'[c].saved = co[c].saved
      /\ \A d \in Coros \ {c} : co'[d] = co[d]
  BY DEF TypeOK, CoroRecord, Resuming, Disconnected
<1>2. ASSUME NEW d \in Coros
      PROVE  Lock(d)' = Lock(d)
  BY <1>1 DEF Lock
<1>3. \A i \in Nat : Resumes(i) # c
  BY <1>0 DEF RunningHasBody
<1>4. ResumedOnce'
  <2> SUFFICES ASSUME NEW i \in Nat, NEW j \in Nat, Resumes(i)' # None, Resumes(j)' = Resumes(i)'
               PROVE  i = j
    BY DEF ResumedOnce
  <2>1. CASE i # k /\ j # k
    BY <2>1 DEF ResumedOnce
  <2>2. CASE i = k \/ j = k
    BY <1>3, <2>2
  <2> QED BY <2>1, <2>2
<1>5. RunningHasBody'
  <2> SUFFICES ASSUME NEW d \in Coros
               PROVE  co'[d].running <=> \E i \in Nat : Resumes(i)' = d
    BY DEF RunningHasBody
  <2>1. CASE d = c
    BY <1>1, <2>1
  <2>2. CASE d # c
    <3>1. \A i \in Nat : Resumes(i)' = d <=> Resumes(i) = d
      BY <2>2, Distinct
    <3>2. co[d].running <=> \E i \in Nat : Resumes(i) = d
      BY DEF RunningHasBody
    <3> QED BY <1>1, <2>2, <3>1, <3>2
  <2> QED BY <2>1, <2>2
<1>6. ResumedByOwner'
  <2>1. \A i \in Nat : Resumes(i) # None => Resumes(i) \in Coros
    BY DEF ResumedByOwner, TypeOK
  <2>2. ASSUME NEW i \in Nat, Resumes(i)' # None
        PROVE  /\ Resumes(i)' \in created'
               /\ co'[Resumes(i)'].inst = None \/ co'[Resumes(i)'].inst = At(stack', i).state
    <3>1. CASE i = k
      BY <1>0, <1>1, <3>1
    <3>2. CASE i # k
      <4>1. Resumes(i)' = Resumes(i) /\ Resumes(i) \in Coros \ {c}
            /\ At(stack', i).state = At(stack, i).state
        BY <1>3, <2>1, <2>2, <3>2
      <4>2. co'[Resumes(i)].inst = co[Resumes(i)].inst /\ Resumes(i) # None
        BY <1>1, <2>2, <4>1
      <4> QED BY <4>1, <4>2 DEF ResumedByOwner
    <3> QED BY <3>1, <3>2
  <2> QED BY <2>2 DEF ResumedByOwner
<1>7. \A i \in Nat : c \notin Calls(i)'
  <2>1. ASSUME NEW i \in Nat, c \in Calls(i)' PROVE FALSE
    <3>1. i # e /\ c \in Calls(i)
      BY <2>1
    <3> QED BY <3>1 DEF DueOnce
  <2> QED BY <2>1
<1>8. \A i \in Nat : Calls(i)' = Calls(i) \ {c}
                    /\ (Calls(i)' # {} => At(stack', i).sig = At(stack, i).sig)
  BY <1>7
<1>9. DueWaits'
  <2> SUFFICES ASSUME NEW i \in Nat, NEW d \in Calls(i)'
               PROVE  /\ d \in created'
                      /\ Lock(d)' # None =>
                           ~co'[d].running /\ co'[d].awaited = At(stack', i).sig /\ co'[d].conn = None
    BY DEF DueWaits
  <2>1. d \in Coros \ {c} /\ d \in Calls(i) /\ At(stack', i).sig = At(stack, i).sig
    BY <1>0, <1>8
  <2> QED BY <1>1, <1>2, <2>1 DEF DueWaits
<1>10. DueOnce'
  BY <1>2, <1>8 DEF DueOnce
<1>11. ConnectedWaits'
  BY <1>1 DEF ConnectedWaits
<1>12. FreshIdle'
  BY <1>0, <1>1 DEF FreshIdle
<1>13. LiveSaved'
  BY <1>1 DEF LiveSaved
<1>14. Waiting'
  <2> SUFFICES ASSUME NEW d \in Coros, Lock(d)' # None, ~co'[d].running
               PROVE  /\ co'[d].awaited # None
                      /\ \/ co'[d].awaited \in gone'
                         \/ co'[d].conn = co'[d].awaited
                         \/ \E i \in Nat : d \in Calls(i)' /\ At(stack', i).sig = co'[d].awaited
    BY DEF Waiting
  <2>1. d # c /\ co'[d] = co[d] /\ Lock(d) # None
    BY <1>1, <1>2
  <2>2. ASSUME NEW i \in Nat, d \in Calls(i), At(stack, i).sig = co[d].awaited
        PROVE  d \in Calls(i)' /\ At(stack', i).sig = co'[d].awaited
    BY <1>8, <2>1, <2>2
  <2> QED BY <2>1, <2>2 DEF Waiting
<1> QED BY <1>4, <1>5, <1>6, <1>9, <1>10, <1>11, <1>12, <1>13, <1>14

\* The activation at place k, which resumed c, ends, and c with it: c was retired
\* meanwhile, or is retired now.
LEMMA WakeEnd ==
  ASSUME TypeOK, WakeInv, NEW c \in Coros, NEW k \in Nat, Resumes(k) = c, Resumes(k)' = None,
         \A i \in Nat \ {k} :
           /\ Resumes(i)' = Resumes(i)
           /\ Resumes(i) # None => At(stack', i).state = At(stack, i).state,
         SameCalls, ~co'[c].running, Lock(c)' = None,
         co'[c].inst = co[c].inst \/ co'[c].inst = None,
         co'[c].conn = co[c].conn \/ co'[c].conn = None,
         co'[c].inst # None => co'[c].saved = co[c].saved,
         \A d \in Coros \ {c} : co'[d] = co[d],
         created' = created, destroyed' = destroyed, gone' = gone
  PROVE  WakeInv'
<1> USE DEF WakeInv
<1>0. c # None /\ co[c].running /\ co[c].conn = None /\ c \in created
      /\ \A i \in Nat : Calls(i) \subseteq Coros
  BY Distinct DEF Calls, RunningHasBody, ConnectedWaits, ResumedByOwner
<1>1. ASSUME NEW d \in Coros, Lock(d)' # None
      PROVE  d # c /\ co'[d] = co[d] /\ Lock(d) # None
  <2>1. d # c /\ co'[d] = co[d]
    BY <1>1
  <2> QED BY <1>1, <2>1, LockStays
<1>2. \A i \in Nat \ {k} : Resumes(i) # c
  BY <1>0 DEF ResumedOnce
<1>3. ResumedOnce'
  <2> SUFFICES ASSUME NEW i \in Nat, NEW j \in Nat, Resumes(i)' # None, Resumes(j)' = Resumes(i)'
               PROVE  i = j
    BY DEF ResumedOnce
  <2>1. i # k /\ j # k
    OBVIOUS
  <2> QED BY <2>1 DEF ResumedOnce
<1>4. RunningHasBody'
  <2> SUFFICES ASSUME NEW d \in Coros
               PROVE  co'[d].running <=> \E i \in Nat : Resumes(i)' = d
    BY DEF RunningHasBody
  <2>1. CASE d = c
    <3>1. \A i \in Nat : Resumes(i)' # c
      BY <1>0, <1>2
    <3> QED BY <2>1, <3>1
  <2>2. CASE d # c
    <3>1. \A i \in Nat : Resumes(i)' = d <=> Resumes(i) = d
      BY <2>2, Distinct
    <3>2. co[d].running <=> \E i \in Nat : Resumes(i) = d
      BY DEF RunningHasBody
    <3> QED BY <2>2, <3>1, <3>2
  <2> QED BY <2>1, <2>2
<1>5. ResumedByOwner'
  <2> SUFFICES ASSUME NEW i \in Nat, Resumes(i)' # None
               PROVE  /\ Resumes(i)' \in created'
                      /\ co'[Resumes(i)'].inst = None \/ co'[Resumes(i)'].inst = At(stack', i).state
    BY DEF ResumedByOwner
  <2>1. i # k /\ Resumes(i)' = Resumes(i) /\ Resumes(i) # c
        /\ At(stack', i).state = At(stack, i).state
    BY <1>2
  <2>2. Resumes(i) \in created /\ Resumes(i) \in Coros /\ co'[Resumes(i)] = co[Resumes(i)]
    BY <2>1 DEF ResumedByOwner, TypeOK
  <2> QED BY <2>1, <2>2 DEF ResumedByOwner
<1>6. DueWaits'
  BY <1>0, <1>1 DEF DueWaits, SameCalls
<1>7. DueOnce'
  BY <1>1 DEF DueOnce, SameCalls
<1>8. ConnectedWaits'
  BY <1>0 DEF ConnectedWaits
<1>9. FreshIdle'
  BY <1>0 DEF FreshIdle
<1>10. LiveSaved'
  BY DEF LiveSaved
<1>11. Waiting'
  BY <1>1 DEF Waiting, SameCalls
<1> QED BY <1>3, <1>4, <1>5, <1>6, <1>7, <1>8, <1>9, <1>10, <1>11

\* The activation at place k suspended c again, which now waits for g.
LEMMA WakeReconnect ==
  ASSUME TypeOK, WakeInv, NEW c \in Coros, NEW k \in Nat, Resumes(k) = c, Resumes(k)' = None,
         NEW g \in Signals \cup Coros,
         \A i \in Nat \ {k} :
           /\ Resumes(i)' = Resumes(i)
           /\ Resumes(i) # None => At(stack', i).state = At(stack, i).state,
         SameCalls, ~co'[c].running, co'[c].inst = co[c].inst, co'[c].saved = co[c].saved,
         co'[c].conn = g, co'[c].awaited = g,
         \A d \in Coros \ {c} : co'[d] = co[d],
         created' = created, destroyed' = destroyed, gone' = gone
  PROVE  WakeInv'
<1> USE DEF WakeInv
<1>0. c # None /\ g # None /\ co[c].running /\ c \in created
      /\ \A i \in Nat : Calls(i) \subseteq Coros
  BY Distinct DEF Calls, RunningHasBody, ResumedByOwner
<1>1. ASSUME NEW d \in Coros
      PROVE  Lock(d)' = Lock(d)
  <2>1. co'[d].inst = co[d].inst
    OBVIOUS
  <2> QED BY <2>1 DEF Lock
<1>2. \A i \in Nat \ {k} : Resumes(i) # c
  BY <1>0 DEF ResumedOnce
<1>3. ResumedOnce'
  <2> SUFFICES ASSUME NEW i \in Nat, NEW j \in Nat, Resumes(i)' # None, Resumes(j)' = Resumes(i)'
               PROVE  i = j
    BY DEF ResumedOnce
  <2>1. i # k /\ j # k
    OBVIOUS
  <2> QED BY <2>1 DEF ResumedOnce
<1>4. RunningHasBody'
  <2> SUFFICES ASSUME NEW d \in Coros
               PROVE  co'[d].running <=> \E i \in Nat : Resumes(i)' = d
    BY DEF RunningHasBody
  <2>1. CASE d = c
    <3>1. \A i \in Nat : Resumes(i)' # c
      BY <1>0, <1>2
    <3> QED BY <2>1, <3>1
  <2>2. CASE d # c
    <3>1. \A i \in Nat : Resumes(i)' = d <=> Resumes(i) = d
      BY <2>2, Distinct
    <3>2. co[d].running <=> \E i \in Nat : Resumes(i) = d
      BY DEF RunningHasBody
    <3> QED BY <2>2, <3>1, <3>2
  <2> QED BY <2>1, <2>2
<1>5. ResumedByOwner'
  <2> SUFFICES ASSUME NEW i \in Nat, Resumes(i)' # None
               PROVE  /\ Resumes(i)' \in created'
                      /\ co'[Resumes(i)'].inst = None \/ co'[Resumes(i)'].inst = At(stack', i).state
    BY DEF ResumedByOwner
  <2>1. i # k /\ Resumes(i)' = Resumes(i) /\ Resumes(i) # c
        /\ At(stack', i).state = At(stack, i).state
    BY <1>2
  <2>2. Resumes(i) \in created /\ Resumes(i) \in Coros /\ co'[Resumes(i)] = co[Resumes(i)]
    BY <2>1 DEF ResumedByOwner, TypeOK
  <2> QED BY <2>1, <2>2 DEF ResumedByOwner
<1>6. \A i \in Nat : c \in Calls(i) => Lock(c) = None
  BY <1>0 DEF DueWaits
<1>7. DueWaits'
  <2> SUFFICES ASSUME NEW i \in Nat, NEW d \in Calls(i)'
               PROVE  /\ d \in created'
                      /\ Lock(d)' # None =>
                           ~co'[d].running /\ co'[d].awaited = At(stack', i).sig /\ co'[d].conn = None
    BY DEF DueWaits
  <2>1. d \in Calls(i) /\ d \in Coros /\ At(stack', i).sig = At(stack, i).sig
    BY <1>0 DEF SameCalls
  <2>2. CASE d = c
    BY <1>0, <1>1, <1>6, <2>1, <2>2
  <2>3. CASE d # c
    <3>1. co'[d] = co[d]
      BY <2>1, <2>3
    <3> QED BY <1>1, <2>1, <3>1 DEF DueWaits
  <2> QED BY <2>2, <2>3
<1>8. DueOnce'
  BY <1>1 DEF DueOnce, SameCalls
<1>9. ConnectedWaits'
  BY <1>0 DEF ConnectedWaits
<1>10. FreshIdle'
  BY <1>0 DEF FreshIdle
<1>11. LiveSaved'
  BY DEF LiveSaved
<1>12. Waiting'
  BY <1>0, <1>1 DEF Waiting, SameCalls
<1> QED BY <1>3, <1>4, <1>5, <1>7, <1>8, <1>9, <1>10, <1>11, <1>12

\* A first call suspended: a new coroutine c waits for g.
LEMMA WakeFresh ==
  ASSUME TypeOK, WakeInv, NEW c \in Coros \ created, NEW g \in Signals \cup Coros,
         SameRuns, SameCalls,
         co'[c].running = co[c].running, co'[c].saved, co'[c].conn = g, co'[c].awaited = g,
         \A d \in Coros \ {c} : co'[d] = co[d],
         created' = created \cup {c}, destroyed' = destroyed, gone' = gone
  PROVE  WakeInv'
<1> USE DEF WakeInv
<1>0. g # None /\ ~co'[c].running /\ \A i \in Nat : Calls(i) \subseteq Coros /\ c \notin Calls(i)
  BY Distinct DEF Calls, FreshIdle, DueWaits
<1>1. ASSUME NEW d \in Coros \ {c}
      PROVE  Lock(d)' = Lock(d)
  <2>1. co'[d].inst = co[d].inst
    OBVIOUS
  <2> QED BY <2>1 DEF Lock
<1>2. \A i \in Nat : Resumes(i) # c
  BY Distinct DEF ResumedByOwner
<1>3. ResumedOnce'
  BY DEF ResumedOnce, SameRuns
<1>4. RunningHasBody'
  <2>1. ASSUME NEW d \in Coros
        PROVE  co'[d].running <=> co[d].running
    OBVIOUS
  <2>2. ASSUME NEW d \in Coros
        PROVE  co'[d].running <=> \E i \in Nat : Resumes(i)' = d
    BY <2>1 DEF RunningHasBody, SameRuns
  <2> QED BY <2>2 DEF RunningHasBody
<1>5. ResumedByOwner'
  <2> SUFFICES ASSUME NEW i \in Nat, Resumes(i)' # None
               PROVE  /\ Resumes(i)' \in created'
                      /\ co'[Resumes(i)'].inst = None \/ co'[Resumes(i)'].inst = At(stack', i).state
    BY DEF ResumedByOwner
  <2>1. Resumes(i)' = Resumes(i) /\ Resumes(i) # c /\ At(stack', i).state = At(stack, i).state
    BY <1>2 DEF SameRuns
  <2>2. Resumes(i) \in created /\ Resumes(i) \in Coros /\ co'[Resumes(i)] = co[Resumes(i)]
    BY <2>1 DEF ResumedByOwner, TypeOK
  <2> QED BY <2>1, <2>2 DEF ResumedByOwner
<1>6. DueWaits'
  <2> SUFFICES ASSUME NEW i \in Nat, NEW d \in Calls(i)'
               PROVE  /\ d \in created'
                      /\ Lock(d)' # None =>
                           ~co'[d].running /\ co'[d].awaited = At(stack', i).sig /\ co'[d].conn = None
    BY DEF DueWaits
  <2>1. d \in Calls(i) /\ d \in Coros \ {c} /\ At(stack', i).sig = At(stack, i).sig
    BY <1>0 DEF SameCalls
  <2> QED BY <1>1, <2>1 DEF DueWaits
<1>7. DueOnce'
  <2>1. ASSUME NEW i \in Nat, NEW j \in Nat, NEW d \in Coros,
               d \in Calls(i)', d \in Calls(j)', Lock(d)' # None
        PROVE  i = j
    BY <1>0, <1>1, <2>1 DEF DueOnce, SameCalls
  <2> QED BY <2>1 DEF DueOnce
<1>8. ConnectedWaits'
  BY <1>0 DEF ConnectedWaits
<1>9. FreshIdle'
  BY DEF FreshIdle
<1>10. LiveSaved'
  BY DEF LiveSaved
<1>11. Waiting'
  BY <1>0, <1>1 DEF Waiting, SameCalls
<1> QED BY <1>3, <1>4, <1>5, <1>6, <1>7, <1>8, <1>9, <1>10, <1>11

-----------------------------------------------------------------------------
(* Waiting and resuming: the steps.                                          *)

\* What an activation resumes and has yet to call.
LEMMA Seen ==
  ASSUME NEW f, NEW i, NEW q
  PROVE  /\ View(f).kind = f.kind /\ View(f).co = f.co /\ View(f).state = f.state
         /\ View(f).sig = f.sig /\ View(f).todo = f.todo /\ View(f).due = f.due
         /\ View(f).prev = f.prev
BY DEF View

LEMMA AboveIdle ==
  ASSUME TypeOK, NEW i \in Nat, At(stack, i) = Blank
  PROVE  Resumes(i) = None /\ Calls(i) = {}
BY BlankView DEF Resumes, Calls

LEMMA Unseen ==
  ASSUME NEW i, At(stack', i) = At(stack, i)
  PROVE  Resumes(i)' = Resumes(i) /\ Calls(i)' = Calls(i)
BY DEF Resumes, Calls

\* Script starts an activation that resumes nobody and calls nobody.
LEMMA QuietPush ==
  ASSUME TypeOK, WakeInv, CanAct, NEW f, Leaves(Append(Spent, f)),
         f.kind # "emit", f.kind = "body" => f.co = None,
         \A c \in Coros : Undisturbed(c),
         created' = created, destroyed \subseteq destroyed', gone \subseteq gone'
  PROVE  WakeInv'
<1>1. PICK k \in Nat : Becomes(k, View(f)) /\ At(stack, k) = Blank
  <2>1. /\ Len(stack) + 1 \in Nat /\ Becomes(Len(stack) + 1, View(f))
        /\ At(stack, Len(stack) + 1) = Blank
    BY SeePush
  <2> QED BY <2>1
<1>2. At(stack', k) = View(f)
  BY <1>1 DEF Becomes
<1>3. Resumes(k)' = None /\ Calls(k)' = {}
  BY <1>2, Seen DEF Resumes, Calls
<1>4. Resumes(k) = None /\ Calls(k) = {}
  BY <1>1, AboveIdle
<1>5. ASSUME NEW i \in Nat
      PROVE  /\ Resumes(i)' = Resumes(i) /\ Calls(i)' = Calls(i)
             /\ i # k => At(stack', i) = At(stack, i)
  <2>1. CASE i = k
    BY <1>3, <1>4, <2>1
  <2>2. CASE i # k
    <3>1. At(stack', i) = At(stack, i)
      BY <1>1, <2>2 DEF Becomes
    <3> QED BY <3>1, <2>2, Unseen
  <2> QED BY <2>1, <2>2
<1>6. SameRuns
  BY <1>4, <1>5 DEF SameRuns
<1> QED BY <1>4, <1>5, <1>6, WakeQuiet

LEMMA QuietSpent ==
  ASSUME TypeOK, WakeInv, CanAct, stack' = Spent,
         \A c \in Coros : Undisturbed(c),
         created' = created, destroyed \subseteq destroyed', gone \subseteq gone'
  PROVE  WakeInv'
<1>1. \A i \in Nat : At(stack', i) = At(stack, i)
  BY SeeSpent
<1>2. ASSUME NEW i \in Nat
      PROVE  Resumes(i)' = Resumes(i) /\ Calls(i)' = Calls(i)
  BY <1>1, Unseen
<1>3. SameRuns
  BY <1>1, <1>2 DEF SameRuns
<1> QED BY <1>1, <1>2, <1>3, WakeQuiet

\* What the activation at place k shows is replaced by w, which resumes and calls no
\* other coroutines.
LEMMA QuietPlace ==
  ASSUME TypeOK, WakeInv, NEW k \in Nat, NEW v, NEW w, At(stack, k) = v, At(stack', k) = w,
         \A i \in Nat \ {k} : Resumes(i)' = Resumes(i) /\ Calls(i)' = Calls(i)
                              /\ At(stack', i).state = At(stack, i).state
                              /\ At(stack', i).sig = At(stack, i).sig,
         w.kind = "body" => w.co = None \/ (v.kind = "body" /\ v.co = w.co /\ v.state = w.state),
         v.kind = "body" => v.co = None \/ (w.kind = "body" /\ v.co = w.co /\ v.state = w.state),
         w.kind = "emit" => v.kind = "emit" /\ w.sig = v.sig /\ w.todo \subseteq v.todo,
         v.kind = "emit" => \A c \in v.todo \cap Coros :
           (w.kind = "emit" /\ c \in w.todo) \/ Lock(c)' = None \/ co'[c].running,
         \A c \in Coros : Undisturbed(c),
         created' = created, destroyed \subseteq destroyed', gone \subseteq gone'
  PROVE  WakeInv'
<1>1. Resumes(k)' = Resumes(k) /\ (Resumes(k) # None => w.state = v.state)
  BY DEF Resumes
<1>2. SameRuns
  BY <1>1 DEF SameRuns
<1>3. /\ Calls(k)' \subseteq Calls(k)
      /\ \A c \in Calls(k) \ Calls(k)' : Lock(c)' = None \/ co'[c].running
      /\ Calls(k)' # {} => w.sig = v.sig
  BY DEF Calls
<1>4. ASSUME NEW i \in Nat
      PROVE  /\ Calls(i)' \subseteq Calls(i)
             /\ \A c \in Calls(i) \ Calls(i)' : Lock(c)' = None \/ co'[c].running
             /\ Calls(i)' # {} => At(stack', i).sig = At(stack, i).sig
  BY <1>3
<1> QED BY <1>2, <1>4, WakeQuiet

LEMMA QuietTop ==
  ASSUME TypeOK, WakeInv, stack # <<>>, NEW f, Leaves(Append(Below, f)),
         f.kind = "body" => f.co = None \/ (Top.kind = "body" /\ Top.co = f.co /\ Top.state = f.state),
         Top.kind = "body" => Top.co = None \/ (f.kind = "body" /\ Top.co = f.co /\ Top.state = f.state),
         f.kind = "emit" => Top.kind = "emit" /\ f.sig = Top.sig /\ f.todo \subseteq Top.todo,
         Top.kind = "emit" => \A c \in Top.todo \cap Coros :
           (f.kind = "emit" /\ c \in f.todo) \/ Lock(c)' = None \/ co'[c].running,
         \A c \in Coros : Undisturbed(c),
         created' = created, destroyed \subseteq destroyed', gone \subseteq gone'
  PROVE  WakeInv'
<1>1. PICK k \in Nat : Becomes(k, View(f)) /\ At(stack, k) = View(Top)
  BY SeeTop
<1>2. At(stack', k) = View(f)
  BY <1>1 DEF Becomes
<1>3. ASSUME NEW i \in Nat \ {k}
      PROVE  Resumes(i)' = Resumes(i) /\ Calls(i)' = Calls(i) /\ At(stack', i) = At(stack, i)
  BY <1>1, Unseen DEF Becomes
<1> QED BY <1>1, <1>2, <1>3, Seen, QuietPlace

LEMMA QuietPop ==
  ASSUME TypeOK, WakeInv, stack # <<>>, stack' = Below,
         Top.kind = "body" => Top.co = None,
         Top.kind = "emit" => \A c \in Top.todo \cap Coros : Lock(c)' = None \/ co'[c].running,
         \A c \in Coros : Undisturbed(c),
         created' = created, destroyed \subseteq destroyed', gone \subseteq gone'
  PROVE  WakeInv'
<1>1. PICK k \in Nat : Becomes(k, Blank) /\ At(stack, k) = View(Top)
  BY SeePop
<1>2. At(stack', k) = Blank
  BY <1>1 DEF Becomes
<1>3. ASSUME NEW i \in Nat \ {k}
      PROVE  Resumes(i)' = Resumes(i) /\ Calls(i)' = Calls(i) /\ At(stack', i) = At(stack, i)
  BY <1>1, Unseen DEF Becomes
<1> QED BY <1>1, <1>2, <1>3, Seen, BlankView, QuietPlace

\* The emission on top calls somebody other than a coroutine to be resumed.
LEMMA QuietCall ==
  ASSUME TypeOK, WakeInv, On("emit"), NEW x \in Top.todo, NEW f, Leaves(Append(Called(x), f)),
         f.kind \notin {"emit", "body"},
         x \in Coros => Lock(x)' = None \/ co'[x].running,
         \A c \in Coros : Undisturbed(c),
         created' = created, destroyed \subseteq destroyed', gone \subseteq gone'
  PROVE  WakeInv'
<1> DEFINE g == [Top EXCEPT !.todo = @ \ {x}]
<1>0. Top \in Activation /\ stack # <<>> /\ Top.kind = "emit"
  BY TopGood DEF TypeOK, On
<1>1. g.kind = "emit" /\ g.sig = Top.sig /\ g.todo = Top.todo \ {x}
  BY <1>0 DEF Activation, FrameRecord
<1> HIDE DEF g
<1>2. Leaves(Append(Append(Below, g), f))
  BY DEF Called, g
<1>3. PICK k \in Nat :
        /\ At(stack, k) = View(Top) /\ At(stack, k + 1) = Blank
        /\ \A i \in Nat : At(stack', i) = IF i = k + 1 THEN View(f)
                                          ELSE IF i = k THEN View(g) ELSE At(stack, i)
  <2>1. Len(stack) \in Nat /\ Len(stack) + 1 \in Nat /\ Len(stack) + 1 > Len(stack)
    BY <1>0, <1>2, SeeBoth
  <2> QED BY <1>0, <1>2, <2>1, SeeBoth
<1>4. k # k + 1 /\ k + 1 \in Nat /\ At(stack', k) = View(g) /\ At(stack', k + 1) = View(f)
  BY <1>3
<1>5. Resumes(k + 1)' = Resumes(k + 1) /\ Calls(k + 1)' = Calls(k + 1)
  BY <1>3, <1>4, AboveIdle, Seen DEF Resumes, Calls
<1>6. ASSUME NEW i \in Nat \ {k}
      PROVE  Resumes(i)' = Resumes(i) /\ Calls(i)' = Calls(i)
             /\ (i # k + 1 => At(stack', i) = At(stack, i))
  <2>1. CASE i = k + 1
    BY <1>5, <2>1
  <2>2. CASE i # k + 1
    <3>1. At(stack', i) = At(stack, i)
      BY <1>3, <2>2
    <3> QED BY <3>1, <2>2, Unseen
  <2> QED BY <2>1, <2>2
<1>7. SameRuns
  <2>1. Resumes(k)' = None /\ Resumes(k) = None /\ Resumes(k + 1) = None
    BY <1>0, <1>1, <1>3, <1>4, AboveIdle, Seen DEF Resumes
  <2> QED BY <1>6, <2>1 DEF SameRuns
<1>8. /\ Calls(k) = Top.todo \cap Coros /\ Calls(k)' = (Top.todo \ {x}) \cap Coros
      /\ At(stack', k).sig = At(stack, k).sig /\ Calls(k + 1) = {}
  BY <1>0, <1>1, <1>3, <1>4, AboveIdle, Seen DEF Calls
<1>9. ASSUME NEW i \in Nat
      PROVE  /\ Calls(i)' \subseteq Calls(i)
             /\ \A c \in Calls(i) \ Calls(i)' : Lock(c)' = None \/ co'[c].running
             /\ Calls(i)' # {} => At(stack', i).sig = At(stack, i).sig
  <2>1. CASE i = k
    BY <1>8, <2>1
  <2>2. CASE i # k
    BY <1>6, <1>8, <2>2
  <2> QED BY <2>1, <2>2
<1> QED BY <1>7, <1>9, WakeQuiet

\* An emission of g starts at place k, where nobody was resumed or called.
LEMMA WakeEmit ==
  ASSUME TypeOK, WakeInv, NEW k \in Nat, NEW g \in Signals \cup Coros, NEW s,
         Becomes(k, View(Frame("emit", s, None, g, Slots(g), FALSE))),
         At(stack, k).kind \notin {"emit", "body"},
         co' = Emitting(g), created' = created, destroyed' = destroyed, gone' = gone
  PROVE  WakeInv'
<1> DEFINE f == Frame("emit", s, None, g, Slots(g), FALSE)
<1>1. f.kind = "emit" /\ f.sig = g /\ f.todo \cap Coros = {c \in Coros : co[c].conn = g}
  BY Distinct DEF Frame, Slots
<1> HIDE DEF f
<1>2. Resumes(k) = None /\ Calls(k) = {}
  BY DEF Resumes, Calls
<1>3. At(stack', k) = View(f)
  BY DEF Becomes, f
<1>4. Resumes(k)' = None /\ Calls(k)' = {c \in Coros : co[c].conn = g} /\ At(stack', k).sig = g
  BY <1>1, <1>3, Seen DEF Resumes, Calls
<1>5. ASSUME NEW i \in Nat \ {k}
      PROVE  Resumes(i)' = Resumes(i) /\ Calls(i)' = Calls(i) /\ At(stack', i) = At(stack, i)
  BY Unseen DEF Becomes
<1>6. SameRuns
  BY <1>2, <1>4, <1>5 DEF SameRuns
<1> QED BY <1>2, <1>4, <1>5, <1>6, WakeEmission

\* A coroutine is retired, and what it resumed goes on.
LEMMA RetiredUndisturbed ==
  ASSUME TypeOK, NEW c \in Coros, co' = [co EXCEPT ![c] = [Detached(co[c]) EXCEPT !.cancelled = TRUE]]
  PROVE  (\A d \in Coros : Undisturbed(d)) /\ co'[c].inst = None /\ Lock(c)' = None
<1>1. /\ co'[c].inst = None /\ co'[c].conn = None /\ co'[c].running = co[c].running
      /\ \A d \in Coros \ {c} : co'[d] = co[d]
  BY DEF TypeOK, CoroRecord, Detached, Disconnected
<1>2. Lock(c)' = None
  BY <1>1, Distinct DEF Lock
<1> QED BY <1>1, <1>2 DEF Undisturbed

LEMMA SameUndisturbed ==
  ASSUME co' = co
  PROVE  \A c \in Coros : Undisturbed(c)
BY DEF Undisturbed

LEMMA WakeScriptOp ==
  ASSUME TypeOK, WakeInv, ScriptOp
  PROVE  WakeInv'
<1>1. ASSUME NEW g \in Signals, EmitSignal(g) PROVE WakeInv'
  <2>1. PICK k \in Nat : /\ Becomes(k, View(Frame("emit", None, None, g, Slots(g), FALSE)))
                         /\ At(stack, k) = Blank
    <3>1. Leaves(Append(Spent, Frame("emit", None, None, g, Slots(g), FALSE))) /\ CanAct
      BY <1>1 DEF EmitSignal, Leaves
    <3>2. Len(stack) + 1 \in Nat /\ Len(stack) + 1 > Len(stack)
      BY SeePush, <3>1
    <3> QED BY <3>1, <3>2, SeePush
  <2> QED BY <1>1, <2>1, BlankView, WakeEmit DEF EmitSignal
<1>2. ASSUME NEW g \in Signals, FreeSource(g) PROVE WakeInv'
  <2>1. \A i \in Nat : At(stack', i) = At(stack, i)
    BY <1>2, SeeSpent DEF FreeSource
  <2>2. ASSUME NEW i \in Nat
        PROVE  Resumes(i)' = Resumes(i) /\ Calls(i)' = Calls(i)
    BY <2>1, Unseen
  <2>3. PICK k \in Nat : At(stack, k) = Blank
    <3>1. Len(stack) + 1 \in Nat /\ Len(stack) + 1 > Len(stack)
      BY DEF TypeOK
    <3> QED BY <3>1, ViewAbove DEF TypeOK
  <2>4. Calls(k) = {} /\ SameRuns
    BY <2>1, <2>2, <2>3, AboveIdle DEF SameRuns
  <2>5. g \in gone' /\ gone \subseteq gone' /\ co' = Emitting(g)
        /\ created' = created /\ destroyed' = destroyed
    BY <1>2 DEF FreeSource
  <2> QED BY <2>1, <2>2, <2>4, <2>5, WakeEmission
<1>3. ASSUME NEW c \in Coros, Cancel(c) PROVE WakeInv'
  <2>1. Leaves(Append(Spent, SettleFrame(Lock(c), c)))
    BY <1>3 DEF Cancel, Leaves
  <2>2. SettleFrame(Lock(c), c).kind = "settle"
    BY DEF SettleFrame, Frame
  <2> QED BY <1>3, <2>1, <2>2, RetiredUndisturbed, QuietPush DEF Cancel
<1>4. ASSUME NEW s \in States, CallFunction(s) PROVE WakeInv'
  <2>1. BodyFrame(s, None).kind = "body" /\ BodyFrame(s, None).co = None
    BY DEF BodyFrame, Frame
  <2> QED BY <1>4, <2>1, SameUndisturbed, QuietPush DEF CallFunction, Leaves
<1>5. ASSUME NEW s \in States, Replace(s) \/ Teardown(s) PROVE WakeInv'
  <2>1. PICK kind \in {"cancel", "silence"} : CanAct /\ BeginCancel(Spent, s, kind)
    BY <1>5 DEF Replace, Teardown
  <2>2. Leaves(Append(Spent, Frame(kind, s, None, None, list[s], cancelling[s])))
    BY <2>1 DEF BeginCancel, Leaves
  <2>3. Frame(kind, s, None, None, list[s], cancelling[s]).kind \notin {"emit", "body"}
    BY DEF Frame
  <2>4. co' = co /\ created' = created /\ destroyed' = destroyed /\ gone' = gone
    BY <1>5 DEF Replace, Teardown
  <2> QED BY <2>1, <2>2, <2>3, <2>4, SameUndisturbed, QuietPush
<1>6. ASSUME NEW s \in States, Drop(s) PROVE WakeInv'
  <2>1. LeaveFrame(s).kind = "leave"
    BY DEF LeaveFrame, Frame
  <2> QED BY <1>6, <2>1, SameUndisturbed, QuietPush DEF Drop, Leaves
<1>7. ASSUME NEW s \in States, FreeOwner(s) PROVE WakeInv'
  BY <1>7, SameUndisturbed, QuietSpent DEF FreeOwner
<1> QED BY <1>1, <1>2, <1>3, <1>4, <1>5, <1>6, <1>7 DEF ScriptOp

\* A function body makes way for an activation that resumes nobody and calls nobody.
LEMMA BodyEnds ==
  ASSUME TypeOK, On("body"), NEW f, f.kind \notin {"emit", "body"}, Leaves(Append(Below, f))
  PROVE  /\ SameCalls
         /\ \E k \in Nat : /\ At(stack, k) = View(Top) /\ Resumes(k) = Top.co /\ Resumes(k)' = None
                           /\ \A i \in Nat \ {k} : /\ Resumes(i)' = Resumes(i)
                                                   /\ At(stack', i) = At(stack, i)
<1>1. PICK k \in Nat : Becomes(k, View(f)) /\ At(stack, k) = View(Top)
  BY SeeTop DEF On
<1>2. At(stack', k) = View(f)
  BY <1>1 DEF Becomes
<1>3. Resumes(k) = Top.co /\ Resumes(k)' = None /\ Calls(k) = {} /\ Calls(k)' = {}
  BY <1>1, <1>2, Seen DEF On, Resumes, Calls
<1>4. ASSUME NEW i \in Nat \ {k}
      PROVE  Resumes(i)' = Resumes(i) /\ Calls(i)' = Calls(i) /\ At(stack', i) = At(stack, i)
  BY <1>1, Unseen DEF Becomes
<1>5. SameCalls
  BY <1>3, <1>4 DEF SameCalls
<1> QED BY <1>1, <1>3, <1>4, <1>5

LEMMA WakeScriptEnd ==
  ASSUME TypeOK, WakeInv, ScriptEnd
  PROVE  WakeInv'
<1>0. stack # <<>> => Top \in Activation
  BY TopGood DEF TypeOK
<1>1. CASE ListenerReturns
  BY <1>1, SameUndisturbed, QuietPop DEF ListenerReturns, On
<1>2. CASE CallReturns
  <2>1. LeaveFrame(Top.state).kind = "leave"
    BY DEF LeaveFrame, Frame
  <2> QED BY <1>2, <2>1, SameUndisturbed, QuietTop DEF CallReturns, On, Leaves
<1>3. ASSUME NEW g \in Signals \cup Coros, AwaitAgain(g) PROVE WakeInv'
  <2> DEFINE c == Top.co
             f == [Top EXCEPT !.sig = g]
  <2>1. stack # <<>> /\ Top.kind = "body" /\ c \in Coros /\ Top \in Activation
    BY <1>0, <1>3 DEF AwaitAgain, On, Activation, FrameRecord
  <2>2. f.kind = "body" /\ f.co = c /\ f.state = Top.state
    BY <2>1 DEF Activation, FrameRecord
  <2>3. Leaves(Append(Below, f))
    BY <1>3 DEF AwaitAgain, Leaves
  <2>4. \E i \in Nat : Resumes(i) = c
    BY <2>1, ViewTop, Seen DEF Resumes, TypeOK
  <2>5. co[c].running
    BY <2>1, <2>4 DEF WakeInv, RunningHasBody
  <2> HIDE DEF c, f
  <2>6. co' = [co EXCEPT ![c] = [Disconnected(co[c]) EXCEPT !.saved = TRUE]]
    BY <1>3 DEF AwaitAgain, c
  <2>7. /\ co'[c].running = co[c].running /\ co'[c].inst = co[c].inst
        /\ co'[c].conn = None /\ co'[c].saved
        /\ \A d \in Coros \ {c} : co'[d] = co[d]
    BY <2>1, <2>6 DEF TypeOK, CoroRecord, Disconnected
  <2>8. \A d \in Coros : Undisturbed(d)
    BY <2>5, <2>7 DEF Undisturbed
  <2>9. created' = created /\ destroyed' = destroyed /\ gone' = gone
    BY <1>3 DEF AwaitAgain
  <2>10. /\ f.kind = "body" => f.co = None \/ (Top.kind = "body" /\ Top.co = f.co /\ Top.state = f.state)
         /\ Top.kind = "body" => Top.co = None \/ (f.kind = "body" /\ Top.co = f.co /\ Top.state = f.state)
    BY <2>1, <2>2 DEF c
  <2> QED BY <2>1, <2>2, <2>3, <2>8, <2>9, <2>10, QuietTop
<1>4. ASSUME NEW g \in Signals \cup Coros, NEW c \in Coros, AwaitFresh(c, g) PROVE WakeInv'
  <2>1. /\ On("body") /\ Top.co = None /\ c \notin created /\ created' = created \cup {c}
        /\ stack' = Append(Below, LeaveFrame(Top.state))
        /\ co' = [co EXCEPT ![c] = [Connected(co[c], g) EXCEPT !.inst = Top.state, !.saved = TRUE]]
        /\ destroyed' = destroyed /\ gone' = gone
    BY <1>4 DEF AwaitFresh
  <2>2. LeaveFrame(Top.state).kind = "leave" /\ Leaves(Append(Below, LeaveFrame(Top.state)))
    BY <2>1 DEF LeaveFrame, Frame, Leaves
  <2>3. SameCalls
    BY <2>1, <2>2, BodyEnds
  <2>4. PICK k \in Nat : /\ Resumes(k) = Top.co /\ Resumes(k)' = None
                         /\ \A i \in Nat \ {k} : /\ Resumes(i)' = Resumes(i)
                                                 /\ At(stack', i) = At(stack, i)
    BY <2>1, <2>2, BodyEnds
  <2>5. SameRuns
    BY <2>1, <2>4 DEF SameRuns
  <2>6. /\ co'[c].running = co[c].running /\ co'[c].saved /\ co'[c].conn = g /\ co'[c].awaited = g
        /\ \A d \in Coros \ {c} : co'[d] = co[d]
    BY <2>1 DEF TypeOK, CoroRecord, Connected
  <2> QED BY <2>1, <2>3, <2>5, <2>6, WakeFresh
<1>5. CASE Reconnect
  <2> DEFINE c == Top.co
             g == Top.sig
  <2>1. /\ On("body") /\ g \in Awaitable
        /\ stack' = Append(Below, LeaveFrame(Top.state))
        /\ co' = [co EXCEPT ![c] = [Connected(co[c], g) EXCEPT !.running = FALSE]]
        /\ created' = created /\ destroyed' = destroyed /\ gone' = gone
    BY <1>5 DEF Reconnect
  <2>2. g \in Signals \cup Coros /\ g # None
    BY <2>1, Distinct DEF Awaitable, TypeOK
  <2>3. c \in Coros
    BY <1>0, <2>1, <2>2 DEF On, Activation, FrameRecord, Grounded
  <2>4. LeaveFrame(Top.state).kind = "leave" /\ Leaves(Append(Below, LeaveFrame(Top.state)))
    BY <2>1 DEF LeaveFrame, Frame, Leaves
  <2>5. SameCalls
    BY <2>1, <2>4, BodyEnds
  <2>6. PICK k \in Nat : /\ Resumes(k) = c /\ Resumes(k)' = None
                         /\ \A i \in Nat \ {k} : /\ Resumes(i)' = Resumes(i)
                                                 /\ At(stack', i) = At(stack, i)
    BY <2>1, <2>4, BodyEnds
  <2> HIDE DEF c, g
  <2>7. /\ ~co'[c].running /\ co'[c].inst = co[c].inst /\ co'[c].saved = co[c].saved
        /\ co'[c].conn = g /\ co'[c].awaited = g
        /\ \A d \in Coros \ {c} : co'[d] = co[d]
    BY <2>1, <2>3 DEF TypeOK, CoroRecord, Connected
  <2> QED BY <2>1, <2>2, <2>3, <2>5, <2>6, <2>7, WakeReconnect
<1>6. ASSUME NEW ok \in BOOLEAN, ResumedCompletes(ok) PROVE WakeInv'
  <2>2. PICK c \in Coros : c = Top.co
    BY <1>0, <1>6 DEF ResumedCompletes, On, Activation, FrameRecord
  <2>1. /\ On("body") /\ c # None
        /\ Leaves(Append(Below, SettleFrame(Top.state, c)))
        /\ co' = [co EXCEPT ![c] = Detached(Ended(ok))]
        /\ created' = created /\ destroyed' = destroyed /\ gone' = gone
    BY <1>6, <2>2 DEF ResumedCompletes, Leaves
  <2>3. SettleFrame(Top.state, c).kind = "settle"
    BY DEF SettleFrame, Frame
  <2>4. SameCalls
    BY <2>1, <2>2, <2>3, BodyEnds
  <2>5. PICK k \in Nat : /\ Resumes(k) = c /\ Resumes(k)' = None
                         /\ \A i \in Nat \ {k} : /\ Resumes(i)' = Resumes(i)
                                                 /\ At(stack', i) = At(stack, i)
    BY <2>1, <2>2, <2>3, BodyEnds
  <2>6. /\ ~co'[c].running /\ co'[c].inst = None /\ co'[c].conn = None
        /\ \A d \in Coros \ {c} : co'[d] = co[d]
    BY <2>1, <2>2 DEF TypeOK, CoroRecord, Ended, Detached, Disconnected
  <2>7. Lock(c)' = None
    BY <2>2, <2>6, Distinct DEF Lock
  <2> QED BY <2>1, <2>2, <2>4, <2>5, <2>6, <2>7, WakeEnd
<1>7. ASSUME NEW ok \in BOOLEAN, ResumedWasCancelled(ok) PROVE WakeInv'
  <2>2. PICK c \in Coros : c = Top.co
    BY <1>0, <1>7 DEF ResumedWasCancelled, On, Activation, FrameRecord
  <2>1. /\ On("body") /\ c # None /\ Lock(c) # Top.state
        /\ Leaves(Append(Below, LeaveFrame(Top.state)))
        /\ co' = [co EXCEPT ![c] = Ended(ok)]
        /\ created' = created /\ destroyed' = destroyed /\ gone' = gone
    BY <1>7, <2>2 DEF ResumedWasCancelled, StillMine, Leaves
  <2>3. LeaveFrame(Top.state).kind = "leave"
    BY DEF LeaveFrame, Frame
  <2>4. SameCalls
    BY <2>1, <2>2, <2>3, BodyEnds
  <2>5. PICK k \in Nat : /\ At(stack, k) = View(Top) /\ Resumes(k) = c /\ Resumes(k)' = None
                         /\ \A i \in Nat \ {k} : /\ Resumes(i)' = Resumes(i)
                                                 /\ At(stack', i) = At(stack, i)
    BY <2>1, <2>2, <2>3, BodyEnds
  <2>6. /\ ~co'[c].running /\ co'[c].inst = co[c].inst /\ co'[c].conn = co[c].conn
        /\ co'[c].saved = co[c].saved
        /\ \A d \in Coros \ {c} : co'[d] = co[d]
    BY <2>1, <2>2 DEF TypeOK, CoroRecord, Ended
  <2>7. Lock(c)' = None
    <3>1. Resumes(k) # None /\ At(stack, k).state = Top.state
      BY <2>1, <2>2, <2>5, Seen
    <3>2. co[c].inst = None \/ co[c].inst = Top.state
      BY <2>5, <3>1 DEF WakeInv, ResumedByOwner
    <3>3. Lock(c) = None
      BY <2>1, <2>2, <3>2, LockType
    <3>4. Lock(c)' = Lock(c)
      BY <2>1, <2>6 DEF Lock
    <3> QED BY <3>3, <3>4
  <2> QED BY <2>1, <2>2, <2>4, <2>5, <2>6, <2>7, WakeEnd
<1> QED BY <1>1, <1>2, <1>3, <1>4, <1>5, <1>6, <1>7 DEF ScriptEnd

LEMMA WakeEmissions ==
  ASSUME TypeOK, WakeInv, Emission
  PROVE  WakeInv'
<1>0. stack # <<>> => Top \in Activation
  BY TopGood DEF TypeOK
<1>1. CASE CallListener
  <2>1. ScriptFrame.kind = "script" /\ Listener \notin Coros
    BY Distinct DEF ScriptFrame, Frame
  <2> QED BY <1>1, <2>1, SameUndisturbed, QuietCall DEF CallListener, Leaves
<1>2. ASSUME NEW c \in Coros, CallRetired(c) PROVE WakeInv'
  <2> DEFINE f == [Top EXCEPT !.todo = @ \ {c}]
  <2>1. stack # <<>> /\ Top.kind = "emit" /\ Leaves(Append(Below, f))
    BY <1>2 DEF CallRetired, On, Called, Leaves
  <2>2. f.kind = "emit" /\ f.sig = Top.sig /\ f.todo = Top.todo \ {c}
    BY <1>0, <2>1 DEF Activation, FrameRecord
  <2>3. Lock(c)' = None \/ co'[c].running
    <3>1. Lock(c)' = Lock(c)
      BY <1>2 DEF CallRetired, Lock
    <3> QED BY <1>2, <3>1 DEF CallRetired, IgnoresResume
  <2>4. co' = co /\ created' = created /\ destroyed' = destroyed /\ gone' = gone
    BY <1>2 DEF CallRetired
  <2> HIDE DEF f
  <2> QED BY <2>1, <2>2, <2>3, <2>4, SameUndisturbed, QuietTop
<1>3. ASSUME NEW c \in Coros, CallOrphan(c) PROVE WakeInv'
  <2>1. SettleFrame(Lock(c), c).kind = "settle"
    BY DEF SettleFrame, Frame
  <2>2. /\ On("emit") /\ c \in Top.todo
        /\ Leaves(Append(Called(c), SettleFrame(Lock(c), c)))
        /\ co' = [co EXCEPT ![c] = [Detached(co[c]) EXCEPT !.cancelled = TRUE]]
        /\ created' = created /\ destroyed' = destroyed /\ gone' = gone
    BY <1>3 DEF CallOrphan, Leaves
  <2>3. (\A d \in Coros : Undisturbed(d)) /\ Lock(c)' = None
    BY <2>2, RetiredUndisturbed
  <2> QED BY <2>1, <2>2, <2>3, QuietCall
<1>4. ASSUME NEW c \in Coros, Resume(c) PROVE WakeInv'
  <2> DEFINE g == [Top EXCEPT !.todo = @ \ {c}]
             f == BodyFrame(Lock(c), c)
  <2>1. /\ stack # <<>> /\ Top.kind = "emit" /\ c \in Top.todo
        /\ Lock(c) # None /\ ~co[c].running
        /\ Leaves(Append(Append(Below, g), f))
        /\ co' = [co EXCEPT ![c] = Resuming(c)]
        /\ created' = created /\ destroyed' = destroyed /\ gone' = gone
    BY <1>4 DEF Resume, On, IgnoresResume, Called, Leaves
  <2>2. g.kind = "emit" /\ g.sig = Top.sig /\ g.todo = Top.todo \ {c}
    BY <1>0, <2>1 DEF Activation, FrameRecord
  <2>3. f.kind = "body" /\ f.co = c /\ f.state = Lock(c)
    BY DEF BodyFrame, Frame
  <2> HIDE DEF f, g
  <2>4. PICK e \in Nat :
          /\ At(stack, e) = View(Top) /\ At(stack, e + 1) = Blank
          /\ \A i \in Nat : At(stack', i) = IF i = e + 1 THEN View(f)
                                            ELSE IF i = e THEN View(g) ELSE At(stack, i)
    <3>1. Len(stack) \in Nat /\ Len(stack) + 1 \in Nat /\ Len(stack) + 1 > Len(stack)
      BY <2>1, SeeBoth
    <3> QED BY <2>1, <3>1, SeeBoth
  <2>5. PICK k \in Nat : k = e + 1 /\ k # e
    OBVIOUS
  <2>6. At(stack, k) = Blank /\ At(stack', e) = View(g) /\ At(stack', k) = View(f)
    BY <2>4, <2>5
  <2>7. Resumes(k) = None /\ Calls(k) = {} /\ Resumes(k)' = c /\ Calls(k)' = {}
        /\ At(stack', k).state = Lock(c)
    BY <2>3, <2>6, AboveIdle, Seen DEF Resumes, Calls
  <2>8. /\ Resumes(e) = None /\ Resumes(e)' = None
        /\ c \in Calls(e) /\ Calls(e)' = Calls(e) \ {c} /\ At(stack', e).sig = At(stack, e).sig
    BY <2>1, <2>2, <2>4, <2>6, Seen DEF Resumes, Calls
  <2>9. ASSUME NEW i \in Nat, i # e, i # k
        PROVE  Resumes(i)' = Resumes(i) /\ Calls(i)' = Calls(i) /\ At(stack', i) = At(stack, i)
    <3>1. At(stack', i) = At(stack, i)
      BY <2>4, <2>5, <2>9
    <3> QED BY <3>1, Unseen
  <2>10. \A i \in Nat \ {k} : /\ Resumes(i)' = Resumes(i)
                              /\ Resumes(i) # None => At(stack', i).state = At(stack, i).state
    BY <2>8, <2>9
  <2>11. \A i \in Nat \ {e} : /\ Calls(i)' = Calls(i)
                              /\ Calls(i) # {} => At(stack', i).sig = At(stack, i).sig
    BY <2>7, <2>9
  <2> QED BY <2>1, <2>7, <2>8, <2>10, <2>11, WakeResume
<1>5. CASE EmissionEnds
  <2>1. stack # <<>> /\ Top.kind = "emit" /\ Top.todo = {}
        /\ co' = co /\ created' = created /\ destroyed' = destroyed /\ gone' = gone
        /\ stack' = IF Top.state = None THEN Below ELSE Append(Below, LeaveFrame(Top.state))
    BY <1>5 DEF EmissionEnds, On
  <2>2. CASE Top.state = None
    BY <2>1, <2>2, SameUndisturbed, QuietPop
  <2>3. CASE Top.state # None
    <3>1. LeaveFrame(Top.state).kind = "leave" /\ Leaves(Append(Below, LeaveFrame(Top.state)))
      BY <2>1, <2>3 DEF LeaveFrame, Frame, Leaves
    <3> QED BY <2>1, <3>1, SameUndisturbed, QuietTop
  <2> QED BY <2>2, <2>3
<1> QED BY <1>1, <1>2, <1>3, <1>4, <1>5 DEF Emission

LEMMA WakeRuntime ==
  ASSUME TypeOK, WakeInv, Runtime
  PROVE  WakeInv'
<1>0. stack # <<>> => Top \in Activation
  BY TopGood DEF TypeOK
<1>1. CASE Settle
  <2>1. /\ stack # <<>> /\ Top.kind = "settle"
        /\ stack' = Append(Below, Frame("emit", Top.state, None, Top.co, Slots(Top.co), FALSE))
        /\ co' = Emitting(Top.co) /\ created' = created /\ destroyed' = destroyed /\ gone' = gone
    BY <1>1 DEF Settle, On
  <2>2. Top.co \in Coros
    BY <1>0, <2>1 DEF Activation, Grounded
  <2>3. Leaves(Append(Below, Frame("emit", Top.state, None, Top.co, Slots(Top.co), FALSE)))
    BY <2>1 DEF Leaves
  <2>4. PICK k \in Nat :
          /\ Becomes(k, View(Frame("emit", Top.state, None, Top.co, Slots(Top.co), FALSE)))
          /\ At(stack, k) = View(Top)
    BY <2>1, <2>3, SeeTop
  <2>5. At(stack, k).kind = "settle"
    BY <2>1, <2>4, Seen
  <2> QED BY <2>1, <2>2, <2>4, <2>5, WakeEmit
<1>2. ASSUME NEW c \in Coros, Detach(c) PROVE WakeInv'
  <2> DEFINE f == [Top EXCEPT !.todo = @ \ {c}, !.due = Owed(Top, c)]
  <2>1. stack # <<>> /\ Top.kind \in {"cancel", "silence"} /\ Leaves(Append(Below, f))
        /\ co' = [co EXCEPT ![c] = [Detached(co[c]) EXCEPT !.cancelled = TRUE]]
        /\ created' = created /\ destroyed' = destroyed /\ gone' = gone
    BY <1>2 DEF Detach, On, Leaves
  <2>2. f.kind = Top.kind
    BY <1>0, <2>1 DEF Activation, FrameRecord
  <2>3. \A d \in Coros : Undisturbed(d)
    BY <2>1, RetiredUndisturbed
  <2> HIDE DEF f
  <2> QED BY <2>1, <2>2, <2>3, QuietTop
<1>3. ASSUME NEW c \in Coros, Notify(c) PROVE WakeInv'
  <2> DEFINE f == [Top EXCEPT !.due = @ \ {c}]
             g == Frame("emit", None, None, c, Slots(c), FALSE)
  <2>1. /\ stack # <<>> /\ Top.kind = "cancel" /\ Leaves(Append(Append(Below, f), g))
        /\ co' = Emitting(c) /\ created' = created /\ destroyed' = destroyed /\ gone' = gone
    BY <1>3 DEF Notify, On, Leaves
  <2>2. f.kind = "cancel"
    BY <1>0, <2>1 DEF Activation, FrameRecord
  <2>3. g.kind = "emit" /\ g.sig = c /\ g.todo \cap Coros = {d \in Coros : co[d].conn = c}
    BY Distinct DEF Frame, Slots
  <2> HIDE DEF f, g
  <2>4. PICK e \in Nat, k \in Nat :
          /\ k # e /\ At(stack, e) = View(Top) /\ At(stack, k) = Blank
          /\ At(stack', e) = View(f) /\ At(stack', k) = View(g)
          /\ \A i \in Nat : i # e /\ i # k => At(stack', i) = At(stack, i)
    <3>1. /\ Len(stack) \in Nat /\ Len(stack) + 1 \in Nat /\ Len(stack) + 1 > Len(stack)
          /\ Len(stack) + 1 # Len(stack)
          /\ At(stack, Len(stack)) = View(Top) /\ At(stack, Len(stack) + 1) = Blank
      BY <2>1, SeeBoth
    <3> QED BY <2>1, <3>1, SeeBoth
  <2>5. Resumes(e) = None /\ Resumes(e)' = None /\ Calls(e) = {} /\ Calls(e)' = {}
    BY <2>1, <2>2, <2>4, Seen DEF Resumes, Calls
  <2>6. Resumes(k) = None /\ Calls(k) = {}
    BY <2>4, AboveIdle
  <2>7. /\ Resumes(k)' = None /\ Calls(k)' = {d \in Coros : co[d].conn = c}
        /\ At(stack', k).sig = c
    BY <2>3, <2>4, Seen DEF Resumes, Calls
  <2>8. ASSUME NEW i \in Nat, i # e, i # k
        PROVE  Resumes(i)' = Resumes(i) /\ Calls(i)' = Calls(i) /\ At(stack', i) = At(stack, i)
    BY <2>4, <2>8, Unseen
  <2>9. SameRuns
    BY <2>5, <2>6, <2>7, <2>8 DEF SameRuns
  <2>10. \A i \in Nat \ {k} : /\ Calls(i)' = Calls(i)
                              /\ Calls(i) # {} => At(stack', i).sig = At(stack, i).sig
    BY <2>5, <2>8
  <2> QED BY <2>1, <2>6, <2>7, <2>9, <2>10, WakeEmission
<1>4. CASE CancelEnds
  <2>1. LeaveFrame(Top.state).kind = "leave"
    BY DEF LeaveFrame, Frame
  <2>2. stack # <<>> /\ Top.kind \in {"cancel", "silence"}
        /\ Leaves(Append(Below, LeaveFrame(Top.state)))
        /\ co' = co /\ created' = created /\ destroyed' = destroyed /\ gone' = gone
    BY <1>4 DEF CancelEnds, On, Leaves
  <2> QED BY <2>1, <2>2, SameUndisturbed, QuietTop
<1>5. CASE Keep
  BY <1>5, SameUndisturbed, QuietPop DEF Keep, On
<1>6. CASE Destroy
  <2> DEFINE f == Frame("silence", Top.state, None, None, list[Top.state], cancelling[Top.state])
  <2>1. f.kind = "silence"
    BY DEF Frame
  <2>2. stack # <<>> /\ Top.kind = "leave" /\ Leaves(Append(Below, f))
        /\ co' = co /\ created' = created /\ gone' = gone /\ destroyed \subseteq destroyed'
    BY <1>6 DEF Destroy, BeginCancel, On, Leaves
  <2> HIDE DEF f
  <2> QED BY <2>1, <2>2, SameUndisturbed, QuietTop
<1> QED BY <1>1, <1>2, <1>3, <1>4, <1>5, <1>6 DEF Runtime

LEMMA WakeInit == Init => WakeInv
<1> SUFFICES ASSUME Init PROVE WakeInv
  OBVIOUS
<1>1. \A i \in Nat : Resumes(i) = None /\ Calls(i) = {}
  BY BlankView DEF Init, Resumes, Calls, At
<1>2. \A c \in Coros : ~co[c].running /\ co[c].inst = None /\ co[c].conn = None /\ Lock(c) = None
  BY Distinct DEF Init, Lock
<1> QED BY <1>1, <1>2, Distinct DEF WakeInv, ResumedOnce, RunningHasBody, ResumedByOwner, DueWaits,
           DueOnce, ConnectedWaits, FreshIdle, LiveSaved, Waiting

LEMMA WakeCorrect == Spec => []WakeInv
<1>1. TypeOK /\ WakeInv /\ [Next]_vars => WakeInv'
  <2> SUFFICES ASSUME TypeOK, WakeInv, [Next]_vars PROVE WakeInv'
    OBVIOUS
  <2>1. CASE UNCHANGED vars
    <3>1. stack' = stack /\ co' = co /\ created' = created /\ destroyed' = destroyed /\ gone' = gone
      BY <2>1 DEF vars
    <3>2. \A i \in Nat : Resumes(i)' = Resumes(i) /\ Calls(i)' = Calls(i)
      BY <3>1 DEF Resumes, Calls
    <3>3. SameRuns
      BY <3>1, <3>2 DEF SameRuns
    <3> QED BY <3>1, <3>2, <3>3, SameUndisturbed, WakeQuiet
  <2> QED BY <2>1, WakeScriptOp, WakeScriptEnd, WakeEmissions, WakeRuntime DEF Next
<1> QED BY TypeCorrect, WakeInit, <1>1, PTL DEF Spec

\* The activation at a place of the stack, as the properties name it.
LEMMA Placed ==
  ASSUME TypeOK
  PROVE  /\ \A i \in 1..Len(stack) :
              /\ i \in Nat
              /\ stack[i].kind = "body" => Resumes(i) = stack[i].co
              /\ stack[i].kind # "body" => Resumes(i) = None
              /\ stack[i].kind = "emit" => Calls(i) = stack[i].todo \cap Coros
              /\ stack[i].kind # "emit" => Calls(i) = {}
              /\ At(stack, i) = View(stack[i])
              /\ At(stack, i).kind = stack[i].kind /\ At(stack, i).state = stack[i].state
              /\ At(stack, i).sig = stack[i].sig /\ At(stack, i).todo = stack[i].todo
         /\ \A i \in Nat : i \notin 1..Len(stack) =>
              At(stack, i) = Blank /\ Resumes(i) = None /\ Calls(i) = {}
<1>1. ASSUME NEW i \in 1..Len(stack)
      PROVE  i \in Nat /\ At(stack, i) = View(stack[i])
  BY DEF TypeOK, At
<1>2. ASSUME NEW i \in Nat, i \notin 1..Len(stack)
      PROVE  At(stack, i) = Blank /\ Resumes(i) = None /\ Calls(i) = {}
  <2>1. At(stack, i) = Blank
    BY <1>2 DEF At
  <2> QED BY <2>1, AboveIdle
<1>3. ASSUME NEW i \in 1..Len(stack)
      PROVE  /\ At(stack, i).kind = stack[i].kind /\ At(stack, i).state = stack[i].state
             /\ At(stack, i).sig = stack[i].sig /\ At(stack, i).todo = stack[i].todo
             /\ At(stack, i).co = stack[i].co
  BY <1>1, Seen
<1> QED BY <1>1, <1>2, <1>3 DEF Resumes, Calls

\* A live coroutine always has a saved frame and somebody who will resume it: the
\* signal it awaits, or an emission of that signal on its way to it.  Unless, that
\* is, the object of the signal was freed, as the disjunct of NoLostWakeup says.
THEOREM NoWakeupLost == Spec => []NoLostWakeup
<1>1. TypeOK /\ WakeInv => NoLostWakeup
  <2> SUFFICES ASSUME TypeOK, WakeInv, NEW c \in Coros, Lock(c) # None, ~co[c].running
               PROVE  /\ co[c].saved
                      /\ co[c].awaited # None
                      /\ \/ co[c].awaited \in gone
                         \/ co[c].conn = co[c].awaited
                         \/ \E i \in 1..Len(stack) : /\ stack[i].kind = "emit"
                                                     /\ stack[i].sig = co[c].awaited
                                                     /\ c \in stack[i].todo
    BY DEF NoLostWakeup
  <2>1. co[c].saved
    BY LockType, Distinct DEF WakeInv, LiveSaved
  <2>2. ASSUME NEW i \in Nat, c \in Calls(i), At(stack, i).sig = co[c].awaited
        PROVE  i \in 1..Len(stack) /\ stack[i].kind = "emit" /\ c \in stack[i].todo
               /\ stack[i].sig = co[c].awaited
    BY <2>2, Placed
  <2> QED BY <2>1, <2>2 DEF WakeInv, Waiting
<1> QED BY TypeCorrect, WakeCorrect, <1>1, PTL

\* An emission that copied its slots before a handler retired, resumed or suspended
\* a coroutine again never resumes it for the wrong signal or while it runs.
THEOREM NoStaleCall == Spec => []NoStaleResume
<1>1. TypeOK /\ WakeInv => NoStaleResume
  BY Placed DEF NoStaleResume, WakeInv, DueWaits
<1> QED BY TypeCorrect, WakeCorrect, <1>1, PTL

\* No coroutine is ever resumed twice at once, and `running` says when it is resumed.
THEOREM ResumedByOne == Spec => []OneActivation
<1>1. TypeOK /\ WakeInv => OneActivation
  <2> SUFFICES ASSUME TypeOK, WakeInv PROVE OneActivation
    OBVIOUS
  <2>1. ASSUME NEW i \in 1..Len(stack), NEW j \in 1..Len(stack),
               stack[i].kind = "body", stack[i].co # None,
               stack[j].kind = "body", stack[j].co = stack[i].co
        PROVE  i = j
    BY <2>1, Placed DEF WakeInv, ResumedOnce
  <2>2. ASSUME NEW c \in Coros
        PROVE  co[c].running <=> \E i \in 1..Len(stack) : stack[i].kind = "body" /\ stack[i].co = c
    <3>1. ASSUME NEW i \in Nat, Resumes(i) = c
          PROVE  i \in 1..Len(stack) /\ stack[i].kind = "body" /\ stack[i].co = c
      BY <3>1, Placed, Distinct
    <3>2. ASSUME NEW i \in 1..Len(stack), stack[i].kind = "body", stack[i].co = c
          PROVE  i \in Nat /\ Resumes(i) = c
      BY <3>2, Placed
    <3> QED BY <3>1, <3>2 DEF WakeInv, RunningHasBody
  <2> QED BY <2>1, <2>2 DEF OneActivation
<1> QED BY TypeCorrect, WakeCorrect, <1>1, PTL

-----------------------------------------------------------------------------
(* Cancelling and listing: the inductive invariant.                          *)

\* The runtime that the activation at place i cancels, the coroutines it has yet to
\* detach, whether it runs inside another one of the same runtime, and the coroutine
\* that the activation at place i is about to erase.
Detaching(v) == v.kind \in {"cancel", "silence"}
Cancels(i) == IF Detaching(At(stack, i)) THEN At(stack, i).state ELSE None
Detaches(i) == IF Detaching(At(stack, i)) THEN At(stack, i).todo ELSE {}
Nested(i) == At(stack, i).prev
Erases(i) == IF At(stack, i).kind = "settle" THEN At(stack, i).co ELSE None

\* A runtime is marked exactly while an activation cancels it, each one restores the
\* mark for the one below it, and meanwhile the list stays empty.
ListSealed == \A s \in States : cancelling[s] => list[s] = {}
MarkedWhile == \A s \in States : cancelling[s] <=> \E i \in Nat : Cancels(i) = s
MarkRestored == \A i \in Nat : Cancels(i) # None =>
  (Nested(i) <=> \E j \in Nat : j < i /\ Cancels(j) = Cancels(i))

\* Reachable, by place, and what the end of retire() takes off a list is retired.
Found == \A c \in Coros : co[c].inst # None =>
  \/ c \in list[co[c].inst]
  \/ \E i \in Nat : Cancels(i) = co[c].inst /\ c \in Detaches(i)
ErasesRetired == \A i \in Nat : Erases(i) # None =>
  Erases(i) \in created /\ co[Erases(i)].inst = None

ListInv == ListSealed /\ MarkedWhile /\ MarkRestored /\ Found /\ ErasesRetired

SameCancels(i) ==
  /\ Cancels(i)' = Cancels(i)
  /\ Detaches(i)' = Detaches(i)
  /\ Cancels(i) # None => (Nested(i)' <=> Nested(i))
SameErases(i) == Erases(i)' = Erases(i)

LEMMA SameGist ==
  ASSUME NEW i, At(stack', i) = At(stack, i)
  PROVE  SameCancels(i) /\ SameErases(i)
BY DEF SameCancels, SameErases, Cancels, Detaches, Nested, Erases

\* No new cancellation and none that ends: coroutines may be retired, an activation at
\* place k may begin to settle one, and only retired ones leave a list.
LEMMA ListQuiet ==
  ASSUME TypeOK, ListInv, NEW k \in Nat, Erases(k)' # None =>
           Erases(k)' \in created' /\ co'[Erases(k)'].inst = None,
         \A i \in Nat \ {k} : SameErases(i),
         \A i \in Nat : /\ Cancels(i)' = Cancels(i)
                        /\ \A c \in Detaches(i) \cap Coros : c \in Detaches(i)' \/ co'[c].inst = None
                        /\ Cancels(i) # None => (Nested(i)' <=> Nested(i)),
         \A c \in Coros : co'[c].inst = co[c].inst \/ co'[c].inst = None,
         \A s \in States : list'[s] \subseteq list[s],
         \A s \in States : \A c \in list[s] \ list'[s] : co'[c].inst = None,
         created \subseteq created', cancelling' = cancelling
  PROVE  ListInv'
<1> USE DEF ListInv
<1>1. ListSealed' /\ MarkedWhile' /\ MarkRestored'
  BY DEF ListSealed, MarkedWhile, MarkRestored
<1>2. Found'
  <2> SUFFICES ASSUME NEW c \in Coros, co'[c].inst # None
               PROVE  \/ c \in list'[co'[c].inst]
                      \/ \E i \in Nat : Cancels(i)' = co'[c].inst /\ c \in Detaches(i)'
    BY DEF Found
  <2>1. co'[c].inst = co[c].inst /\ co[c].inst \in States
    BY DEF TypeOK, CoroRecord
  <2>2. CASE c \in list[co[c].inst]
    BY <2>1, <2>2
  <2>3. ASSUME NEW i \in Nat, Cancels(i) = co[c].inst, c \in Detaches(i)
        PROVE  Cancels(i)' = co'[c].inst /\ c \in Detaches(i)'
    BY <2>1, <2>3
  <2> QED BY <2>1, <2>2, <2>3 DEF Found
<1>3. ErasesRetired'
  <2> SUFFICES ASSUME NEW i \in Nat, Erases(i)' # None
               PROVE  Erases(i)' \in created' /\ co'[Erases(i)'].inst = None
    BY DEF ErasesRetired
  <2>1. CASE i = k
    BY <2>1
  <2>2. CASE i # k
    <3>1. Erases(i)' = Erases(i)
      BY <2>2 DEF SameErases
    <3>2. Erases(i) \in created /\ co[Erases(i)].inst = None /\ Erases(i) \in Coros
      BY <3>1 DEF ErasesRetired, TypeOK
    <3> QED BY <3>1, <3>2
  <2> QED BY <2>1, <2>2
<1> QED BY <1>1, <1>2, <1>3

\* cancel_coroutines begins at place k, above every other cancellation.
LEMMA ListBegins ==
  ASSUME TypeOK, ListInv, NEW k \in Nat, NEW s \in States,
         \A i \in Nat : i >= k => Cancels(i) = None,
         \A i \in Nat \ {k} : SameCancels(i), \A i \in Nat : Erases(i)' # None => SameErases(i),
         Cancels(k)' = s, Detaches(k)' = list[s], Nested(k)' <=> cancelling[s],
         list' = [list EXCEPT ![s] = {}], cancelling' = [cancelling EXCEPT ![s] = TRUE],
         co' = co, created' = created
  PROVE  ListInv'
<1> USE DEF ListInv
<1>0. /\ list'[s] = {} /\ \A t \in States \ {s} : list'[t] = list[t]
      /\ cancelling'[s] /\ \A t \in States \ {s} : cancelling'[t] = cancelling[t]
      /\ s # None
  BY Distinct DEF TypeOK
<1>1. ListSealed'
  BY <1>0 DEF ListSealed
<1>2. MarkedWhile'
  <2> SUFFICES ASSUME NEW t \in States
               PROVE  cancelling'[t] <=> \E i \in Nat : Cancels(i)' = t
    BY DEF MarkedWhile
  <2>1. CASE t = s
    BY <1>0, <2>1
  <2>2. CASE t # s
    <3>1. \A i \in Nat : Cancels(i)' = t <=> Cancels(i) = t
      BY <2>2, Distinct DEF SameCancels
    <3>2. cancelling[t] <=> \E i \in Nat : Cancels(i) = t
      BY DEF MarkedWhile
    <3> QED BY <1>0, <2>2, <3>1, <3>2
  <2> QED BY <2>1, <2>2
<1>3. MarkRestored'
  <2> SUFFICES ASSUME NEW i \in Nat, Cancels(i)' # None
               PROVE  Nested(i)' <=> \E j \in Nat : j < i /\ Cancels(j)' = Cancels(i)'
    BY DEF MarkRestored
  <2>1. CASE i = k
    <3>1. \A j \in Nat : j < k /\ Cancels(j)' = s <=> Cancels(j) = s
      <4>1. ASSUME NEW j \in Nat PROVE j < k \/ j >= k
        OBVIOUS
      <4>2. ASSUME NEW j \in Nat, j < k PROVE Cancels(j)' = Cancels(j)
        BY <4>2 DEF SameCancels
      <4> QED BY <1>0, <4>1, <4>2
    <3>2. cancelling[s] <=> \E j \in Nat : Cancels(j) = s
      BY DEF MarkedWhile
    <3> QED BY <2>1, <3>1, <3>2
  <2>2. CASE i # k
    <3>1. Cancels(i)' = Cancels(i) /\ (Nested(i)' <=> Nested(i))
      BY <2>2 DEF SameCancels
    <3>2. i < k
      BY <3>1
    <3>3. \A j \in Nat : j < i => Cancels(j)' = Cancels(j)
      BY <3>2 DEF SameCancels
    <3>4. Nested(i) <=> \E j \in Nat : j < i /\ Cancels(j) = Cancels(i)
      BY <3>1 DEF MarkRestored
    <3> QED BY <3>1, <3>3, <3>4
  <2> QED BY <2>1, <2>2
<1>4. Found'
  <2> SUFFICES ASSUME NEW c \in Coros, co[c].inst # None
               PROVE  \/ c \in list'[co[c].inst]
                      \/ \E i \in Nat : Cancels(i)' = co[c].inst /\ c \in Detaches(i)'
    BY DEF Found
  <2>1. co[c].inst \in States
    BY DEF TypeOK, CoroRecord
  <2>2. CASE c \in list[co[c].inst]
    BY <1>0, <2>1, <2>2
  <2>3. ASSUME NEW i \in Nat, Cancels(i) = co[c].inst, c \in Detaches(i)
        PROVE  Cancels(i)' = co[c].inst /\ c \in Detaches(i)'
    <3>1. i # k
      BY <2>3
    <3> QED BY <2>3, <3>1 DEF SameCancels
  <2> QED BY <2>2, <2>3 DEF Found
<1>5. ErasesRetired'
  BY DEF ErasesRetired, SameErases
<1> QED BY <1>1, <1>2, <1>3, <1>4, <1>5

\* cancel_coroutines ends at place k, above every other cancellation.
LEMMA ListEnds ==
  ASSUME TypeOK, ListInv, NEW k \in Nat, NEW s \in States,
         \A i \in Nat : i > k => Cancels(i) = None,
         \A i \in Nat \ {k} : SameCancels(i), \A i \in Nat : Erases(i)' # None => SameErases(i),
         Cancels(k) = s, Detaches(k) = {}, Cancels(k)' = None,
         cancelling' = [cancelling EXCEPT ![s] = Nested(k)],
         list' = list, co' = co, created' = created
  PROVE  ListInv'
<1> USE DEF ListInv
<1>0. /\ cancelling[s] /\ s # None
      /\ cancelling'[s] <=> Nested(k)
      /\ \A t \in States \ {s} : cancelling'[t] = cancelling[t]
  BY Distinct DEF TypeOK, MarkedWhile
<1>1. ListSealed'
  BY <1>0 DEF ListSealed
<1>2. \A j \in Nat : j < k /\ Cancels(j) = s <=> Cancels(j)' = s
  <2>1. ASSUME NEW j \in Nat PROVE j < k \/ j = k \/ j > k
    OBVIOUS
  <2>2. ASSUME NEW j \in Nat, j # k PROVE Cancels(j)' = Cancels(j)
    BY <2>2 DEF SameCancels
  <2> QED BY <1>0, <2>1, <2>2
<1>3. MarkedWhile'
  <2> SUFFICES ASSUME NEW t \in States
               PROVE  cancelling'[t] <=> \E i \in Nat : Cancels(i)' = t
    BY DEF MarkedWhile
  <2>1. CASE t = s
    <3>1. Nested(k) <=> \E j \in Nat : j < k /\ Cancels(j) = s
      BY <1>0 DEF MarkRestored
    <3> QED BY <1>0, <1>2, <2>1, <3>1
  <2>2. CASE t # s
    <3>1. \A i \in Nat : Cancels(i)' = t <=> Cancels(i) = t
      BY <2>2, Distinct DEF SameCancels
    <3>2. cancelling[t] <=> \E i \in Nat : Cancels(i) = t
      BY DEF MarkedWhile
    <3> QED BY <1>0, <2>2, <3>1, <3>2
  <2> QED BY <2>1, <2>2
<1>4. MarkRestored'
  <2> SUFFICES ASSUME NEW i \in Nat, Cancels(i)' # None
               PROVE  Nested(i)' <=> \E j \in Nat : j < i /\ Cancels(j)' = Cancels(i)'
    BY DEF MarkRestored
  <2>1. i # k /\ Cancels(i)' = Cancels(i) /\ (Nested(i)' <=> Nested(i))
    BY DEF SameCancels
  <2>2. i < k
    BY <2>1
  <2>3. \A j \in Nat : j < i => Cancels(j)' = Cancels(j)
    BY <2>2 DEF SameCancels
  <2>4. Nested(i) <=> \E j \in Nat : j < i /\ Cancels(j) = Cancels(i)
    BY <2>1 DEF MarkRestored
  <2> QED BY <2>1, <2>3, <2>4
<1>5. Found'
  <2>1. ASSUME NEW c \in Coros, NEW i \in Nat, Cancels(i) = co[c].inst, c \in Detaches(i)
        PROVE  Cancels(i)' = co[c].inst /\ c \in Detaches(i)'
    <3>1. i # k
      BY <2>1
    <3> QED BY <2>1, <3>1 DEF SameCancels
  <2> QED BY <2>1 DEF Found
<1>6. ErasesRetired'
  BY DEF ErasesRetired, SameErases
<1> QED BY <1>1, <1>3, <1>4, <1>5, <1>6

\* A new coroutine of a runtime that is not being cancelled joins its list.
LEMMA ListGrows ==
  ASSUME TypeOK, ListInv, NEW c \in Coros \ created, NEW s \in States, ~cancelling[s],
         \A i \in Nat : SameCancels(i), \A i \in Nat : Erases(i)' # None => SameErases(i),
         co'[c].inst = s, \A d \in Coros \ {c} : co'[d] = co[d],
         list' = [list EXCEPT ![s] = @ \cup {c}],
         created' = created \cup {c}, cancelling' = cancelling
  PROVE  ListInv'
<1> USE DEF ListInv
<1>0. list'[s] = list[s] \cup {c} /\ \A t \in States \ {s} : list'[t] = list[t]
  BY DEF TypeOK
<1>1. ListSealed'
  BY <1>0 DEF ListSealed
<1>2. MarkedWhile' /\ MarkRestored'
  BY DEF MarkedWhile, MarkRestored, SameCancels
<1>3. Found'
  <2> SUFFICES ASSUME NEW d \in Coros, co'[d].inst # None
               PROVE  \/ d \in list'[co'[d].inst]
                      \/ \E i \in Nat : Cancels(i)' = co'[d].inst /\ d \in Detaches(i)'
    BY DEF Found
  <2>1. CASE d = c
    BY <1>0, <2>1
  <2>2. CASE d # c
    <3>1. co'[d] = co[d] /\ co[d].inst \in States
      BY <2>2 DEF TypeOK, CoroRecord
    <3>2. ASSUME NEW i \in Nat, Cancels(i) = co[d].inst, d \in Detaches(i)
          PROVE  Cancels(i)' = co'[d].inst /\ d \in Detaches(i)'
      BY <3>1, <3>2 DEF SameCancels
    <3>3. d \in list[co[d].inst] \/ \E i \in Nat : Cancels(i) = co[d].inst /\ d \in Detaches(i)
      BY <3>1 DEF Found
    <3>4. CASE d \in list[co[d].inst]
      BY <1>0, <3>1, <3>4
    <3> QED BY <3>2, <3>3, <3>4
  <2> QED BY <2>1, <2>2
<1>4. ErasesRetired'
  BY DEF ErasesRetired, SameErases, TypeOK
<1> QED BY <1>1, <1>2, <1>3, <1>4

-----------------------------------------------------------------------------
(* Cancelling and listing: the steps.                                        *)

\* A step that starts no coroutine and neither begins nor ends a cancellation:
\* coroutines may be retired, and only retired ones leave a list.
OnlyRetires ==
  /\ \A c \in Coros : co'[c].inst = co[c].inst \/ co'[c].inst = None
  /\ \A s \in States : list'[s] \subseteq list[s]
  /\ \A s \in States : \A c \in list[s] \ list'[s] : co'[c].inst = None
  /\ created' = created /\ cancelling' = cancelling

\* w, shown where v was, cancels what v did, and erases nobody but a retired coroutine.
GoesOn(v, w) ==
  /\ Detaching(v) <=> Detaching(w)
  /\ Detaching(v) => /\ w.state = v.state /\ (w.prev <=> v.prev)
                     /\ \A c \in v.todo \cap Coros : c \in w.todo \/ co'[c].inst = None
  /\ w.kind = "settle" => w.co \in created /\ co'[w.co].inst = None

LEMMA ListPlace ==
  ASSUME TypeOK, ListInv, OnlyRetires, NEW k \in Nat, GoesOn(At(stack, k), At(stack', k)),
         \A i \in Nat \ {k} : SameCancels(i) /\ SameErases(i)
  PROVE  ListInv'
<1>1. /\ Cancels(k)' = Cancels(k)
      /\ \A c \in Detaches(k) \cap Coros : c \in Detaches(k)' \/ co'[c].inst = None
      /\ Cancels(k) # None => (Nested(k)' <=> Nested(k))
  BY DEF GoesOn, Cancels, Detaches, Nested, Detaching
<1>2. Erases(k)' # None => Erases(k)' \in created' /\ co'[Erases(k)'].inst = None
  BY DEF GoesOn, Erases, OnlyRetires
<1>3. ASSUME NEW i \in Nat
      PROVE  /\ Cancels(i)' = Cancels(i)
             /\ \A c \in Detaches(i) \cap Coros : c \in Detaches(i)' \/ co'[c].inst = None
             /\ Cancels(i) # None => (Nested(i)' <=> Nested(i))
  BY <1>1 DEF SameCancels
<1> QED BY <1>2, <1>3, ListQuiet DEF OnlyRetires

LEMMA ListPush ==
  ASSUME TypeOK, ListInv, OnlyRetires, CanAct, NEW f, Leaves(Append(Spent, f)), GoesOn(Blank, f)
  PROVE  ListInv'
<1>1. PICK k \in Nat : Becomes(k, View(f)) /\ At(stack, k) = Blank
  <2>1. /\ Len(stack) + 1 \in Nat /\ Becomes(Len(stack) + 1, View(f))
        /\ At(stack, Len(stack) + 1) = Blank
    BY SeePush
  <2> QED BY <2>1
<1>2. At(stack', k) = View(f)
  BY <1>1 DEF Becomes
<1>3. GoesOn(At(stack, k), At(stack', k))
  BY <1>1, <1>2, Seen DEF GoesOn, Detaching
<1> QED BY <1>1, <1>3, SameGist, ListPlace DEF Becomes

LEMMA ListSpent ==
  ASSUME TypeOK, ListInv, OnlyRetires, CanAct, stack' = Spent
  PROVE  ListInv'
<1>1. \A i \in Nat : At(stack', i) = At(stack, i)
  BY SeeSpent
<1>2. PICK k \in Nat : At(stack, k) = Blank
  <2>1. Len(stack) + 1 \in Nat /\ Len(stack) + 1 > Len(stack)
    BY DEF TypeOK
  <2> QED BY <2>1, ViewAbove DEF TypeOK
<1>3. GoesOn(At(stack, k), At(stack', k))
  BY <1>1, <1>2, BlankView DEF GoesOn, Detaching
<1> QED BY <1>1, <1>3, SameGist, ListPlace

LEMMA ListTop ==
  ASSUME TypeOK, ListInv, OnlyRetires, stack # <<>>, NEW f, Leaves(Append(Below, f)), GoesOn(Top, f)
  PROVE  ListInv'
<1>1. PICK k \in Nat : Becomes(k, View(f)) /\ At(stack, k) = View(Top)
  BY SeeTop
<1>2. At(stack', k) = View(f)
  BY <1>1 DEF Becomes
<1>3. GoesOn(At(stack, k), At(stack', k))
  BY <1>1, <1>2, Seen DEF GoesOn, Detaching
<1> QED BY <1>1, <1>3, SameGist, ListPlace DEF Becomes

LEMMA ListPop ==
  ASSUME TypeOK, ListInv, OnlyRetires, stack # <<>>, stack' = Below, ~Detaching(Top)
  PROVE  ListInv'
<1>1. PICK k \in Nat : Becomes(k, Blank) /\ At(stack, k) = View(Top)
  BY SeePop
<1>2. At(stack', k) = Blank
  BY <1>1 DEF Becomes
<1>3. GoesOn(At(stack, k), At(stack', k))
  BY <1>1, <1>2, BlankView, Seen DEF GoesOn, Detaching
<1> QED BY <1>1, <1>3, SameGist, ListPlace DEF Becomes

\* The topmost activation, which cancels what it did, starts f.
LEMMA ListBoth ==
  ASSUME TypeOK, ListInv, OnlyRetires, stack # <<>>, NEW f, NEW g,
         Leaves(Append(Append(Below, g), f)), GoesOn(Blank, f),
         g.kind = Top.kind, g.kind # "settle",
         Detaching(Top) => g.state = Top.state /\ g.todo = Top.todo /\ (g.prev <=> Top.prev)
  PROVE  ListInv'
<1>1. PICK e \in Nat, k \in Nat :
        /\ k # e /\ At(stack, e) = View(Top) /\ At(stack, k) = Blank
        /\ At(stack', e) = View(g) /\ At(stack', k) = View(f)
        /\ \A i \in Nat : i # e /\ i # k => At(stack', i) = At(stack, i)
  <2>1. /\ Len(stack) \in Nat /\ Len(stack) + 1 \in Nat /\ Len(stack) + 1 > Len(stack)
        /\ Len(stack) + 1 # Len(stack)
        /\ At(stack, Len(stack)) = View(Top) /\ At(stack, Len(stack) + 1) = Blank
    BY SeeBoth
  <2> QED BY <2>1, SeeBoth
<1>2. SameCancels(e) /\ SameErases(e)
  BY <1>1, Seen DEF SameCancels, SameErases, Cancels, Detaches, Nested, Erases, Detaching
<1>3. GoesOn(At(stack, k), At(stack', k))
  BY <1>1, Seen DEF GoesOn, Detaching
<1>4. ASSUME NEW i \in Nat \ {k}
      PROVE  SameCancels(i) /\ SameErases(i)
  BY <1>1, <1>2, SameGist
<1> QED BY <1>3, <1>4, ListPlace

LEMMA RetireOnly ==
  ASSUME TypeOK, NEW c \in Coros, co' = [co EXCEPT ![c] = [Detached(co[c]) EXCEPT !.cancelled = TRUE]],
         list' = list, created' = created, cancelling' = cancelling
  PROVE  OnlyRetires /\ co'[c].inst = None
<1>1. /\ co'[c].inst = None
      /\ \A d \in Coros \ {c} : co'[d] = co[d]
  BY DEF TypeOK, CoroRecord, Detached, Disconnected
<1> QED BY <1>1 DEF OnlyRetires

LEMMA SameOnly ==
  ASSUME \A c \in Coros : co'[c].inst = co[c].inst,
         list' = list, created' = created, cancelling' = cancelling
  PROVE  OnlyRetires
BY DEF OnlyRetires

LEMMA EmittingKeeps ==
  ASSUME TypeOK, NEW g, co' = Emitting(g)
  PROVE  \A c \in Coros : co'[c].inst = co[c].inst
BY DEF TypeOK, CoroRecord, Emitting

\* The activations that cancel nothing and erase nobody.
LEMMA PlainFrames ==
  /\ \A v, f : ~Detaching(v) /\ ~Detaching(f) /\ f.kind # "settle" => GoesOn(v, f)
  /\ ~Detaching(Blank) /\ ~Detaching(ScriptFrame) /\ ScriptFrame.kind # "settle"
  /\ \A s, c : ~Detaching(BodyFrame(s, c)) /\ BodyFrame(s, c).kind # "settle"
  /\ \A s : ~Detaching(LeaveFrame(s)) /\ LeaveFrame(s).kind # "settle"
  /\ \A s, g, d : LET f == Frame("emit", s, None, g, d, FALSE)
                  IN  ~Detaching(f) /\ f.kind # "settle"
<1>1. ASSUME NEW v, NEW f, ~Detaching(v), ~Detaching(f), f.kind # "settle"
      PROVE  GoesOn(v, f)
  BY <1>1 DEF GoesOn
<1>2. ~Detaching(Blank)
  BY BlankView DEF Detaching
<1> QED BY <1>1, <1>2 DEF ScriptFrame, BodyFrame, LeaveFrame, Frame, Detaching

\* retire(c) up to the point where c is erased.
LEMMA SettleGoesOn ==
  ASSUME NEW c \in created, co'[c].inst = None, NEW s, NEW v, ~Detaching(v)
  PROVE  GoesOn(v, SettleFrame(s, c))
<1>1. SettleFrame(s, c).kind = "settle" /\ SettleFrame(s, c).co = c
  BY DEF SettleFrame, Frame
<1> QED BY <1>1 DEF GoesOn, Detaching

LEMMA LiveCreated ==
  ASSUME WakeInv, NEW c \in Coros, Lock(c) # None
  PROVE  c \in created
BY LockType DEF WakeInv, FreshIdle

\* cancel_coroutines begins above q, the stack without what it replaces.
LEMMA BeginSeen ==
  ASSUME TypeOK, ListInv, NEW s \in States, NEW kind \in {"cancel", "silence"}, NEW q,
         BeginCancel(q, s, kind), co' = co, created' = created,
         \/ CanAct /\ q = Spent
         \/ stack # <<>> /\ q = Below /\ Top.kind = "leave"
  PROVE  ListInv'
<1> DEFINE f == Frame(kind, s, None, None, list[s], cancelling[s])
<1>1. f.kind = kind /\ f.state = s /\ f.todo = list[s] /\ f.prev = cancelling[s]
  BY DEF Frame
<1>2. Leaves(Append(q, f)) /\ list' = [list EXCEPT ![s] = {}]
      /\ cancelling' = [cancelling EXCEPT ![s] = TRUE]
  BY DEF BeginCancel, Leaves
<1> HIDE DEF f
<1>3. PICK k \in Nat : /\ Becomes(k, View(f))
                       /\ At(stack, k) = Blank \/ (At(stack, k) = View(Top) /\ Top.kind = "leave")
                       /\ \A i \in Nat : i > k => At(stack, i) = Blank
  <2>1. CASE CanAct /\ q = Spent
    <3>1. /\ Len(stack) \in Nat /\ Len(stack) + 1 \in Nat /\ Len(stack) + 1 > Len(stack)
          /\ \A i \in Nat : i > Len(stack) + 1 => i > Len(stack)
          /\ Becomes(Len(stack) + 1, View(f))
          /\ \A i \in Nat : i > Len(stack) => At(stack, i) = Blank
      BY <1>2, <2>1, SeePush
    <3> QED BY <3>1
  <2>2. CASE stack # <<>> /\ q = Below /\ Top.kind = "leave"
    BY <1>2, <2>2, SeeTop
  <2> QED BY <2>1, <2>2
<1>4. At(stack', k) = View(f)
  BY <1>3 DEF Becomes
<1>5. Cancels(k) = None /\ Cancels(k)' = s /\ Detaches(k)' = list[s] /\ (Nested(k)' <=> cancelling[s])
  BY <1>1, <1>3, <1>4, BlankView, Seen DEF Cancels, Detaches, Nested, Detaching
<1>6. \A i \in Nat : i >= k => Cancels(i) = None
  <2>1. ASSUME NEW i \in Nat, i > k
        PROVE  Cancels(i) = None
    BY <1>3, <2>1, BlankView DEF Cancels, Detaching
  <2>2. \A i \in Nat : i >= k => i = k \/ i > k
    OBVIOUS
  <2> QED BY <1>5, <2>1, <2>2
<1>7. Erases(k)' = None
  BY <1>1, <1>4, Seen DEF Erases
<1>8. \A i \in Nat \ {k} : SameCancels(i) /\ SameErases(i)
  BY <1>3, SameGist DEF Becomes
<1> QED BY <1>2, <1>5, <1>6, <1>7, <1>8, ListBegins

LEMMA ListScriptOp ==
  ASSUME TypeOK, WakeInv, ListInv, ScriptOp
  PROVE  ListInv'
<1>1. ASSUME NEW g \in Signals, EmitSignal(g) PROVE ListInv'
  <2>1. OnlyRetires
    BY <1>1, EmittingKeeps, SameOnly DEF EmitSignal
  <2> QED BY <1>1, <2>1, PlainFrames, ListPush DEF EmitSignal, Leaves
<1>2. ASSUME NEW g \in Signals, FreeSource(g) PROVE ListInv'
  <2>1. OnlyRetires
    BY <1>2, EmittingKeeps, SameOnly DEF FreeSource
  <2> QED BY <1>2, <2>1, ListSpent DEF FreeSource
<1>3. ASSUME NEW c \in Coros, Cancel(c) PROVE ListInv'
  <2>1. OnlyRetires /\ co'[c].inst = None
    BY <1>3, RetireOnly DEF Cancel
  <2>2. c \in created
    BY <1>3, LiveCreated DEF Cancel, Cancellable
  <2>3. GoesOn(Blank, SettleFrame(Lock(c), c))
    BY <2>1, <2>2, PlainFrames, SettleGoesOn
  <2> QED BY <1>3, <2>1, <2>3, ListPush DEF Cancel, Leaves
<1>4. ASSUME NEW s \in States, CallFunction(s) PROVE ListInv'
  BY <1>4, SameOnly, PlainFrames, ListPush DEF CallFunction, Leaves
<1>5. ASSUME NEW s \in States, Replace(s) \/ Teardown(s) PROVE ListInv'
  BY <1>5, BeginSeen DEF Replace, Teardown
<1>6. ASSUME NEW s \in States, Drop(s) PROVE ListInv'
  BY <1>6, SameOnly, PlainFrames, ListPush DEF Drop, Leaves
<1>7. ASSUME NEW s \in States, FreeOwner(s) PROVE ListInv'
  BY <1>7, SameOnly, ListSpent DEF FreeOwner
<1> QED BY <1>1, <1>2, <1>3, <1>4, <1>5, <1>6, <1>7 DEF ScriptOp

LEMMA ListScriptEnd ==
  ASSUME TypeOK, WakeInv, ListInv, ScriptEnd
  PROVE  ListInv'
<1>0. stack # <<>> => Top \in Activation
  BY TopGood DEF TypeOK
<1>1. CASE ListenerReturns
  BY <1>1, SameOnly, ListPop DEF ListenerReturns, On, Detaching
<1>2. CASE CallReturns
  <2>1. stack # <<>> /\ ~Detaching(Top)
    BY <1>2 DEF CallReturns, On, Detaching
  <2> QED BY <1>2, <2>1, SameOnly, PlainFrames, ListTop DEF CallReturns, Leaves
<1>3. ASSUME NEW g \in Signals \cup Coros, AwaitAgain(g) PROVE ListInv'
  <2> DEFINE f == [Top EXCEPT !.sig = g]
  <2>1. /\ stack # <<>> /\ Top.kind = "body" /\ Top.co \in Coros
        /\ Leaves(Append(Below, f))
        /\ co' = [co EXCEPT ![Top.co] = [Disconnected(co[Top.co]) EXCEPT !.saved = TRUE]]
        /\ list' = list /\ created' = created /\ cancelling' = cancelling
    BY <1>0, <1>3 DEF AwaitAgain, On, Activation, FrameRecord, Leaves
  <2>2. f.kind = "body"
    BY <1>0, <2>1 DEF Activation, FrameRecord
  <2>3. \A c \in Coros : co'[c].inst = co[c].inst
    BY <2>1 DEF TypeOK, CoroRecord, Disconnected
  <2>4. GoesOn(Top, f)
    BY <2>1, <2>2 DEF GoesOn, Detaching
  <2> HIDE DEF f
  <2> QED BY <2>1, <2>3, <2>4, SameOnly, ListTop
<1>4. ASSUME NEW g \in Signals \cup Coros, NEW c \in Coros, AwaitFresh(c, g) PROVE ListInv'
  <2>1. /\ On("body") /\ ~cancelling[Top.state] /\ c \notin created /\ created' = created \cup {c}
        /\ Leaves(Append(Below, LeaveFrame(Top.state)))
        /\ co' = [co EXCEPT ![c] = [Connected(co[c], g) EXCEPT !.inst = Top.state, !.saved = TRUE]]
        /\ list' = [list EXCEPT ![Top.state] = @ \cup {c}] /\ cancelling' = cancelling
    BY <1>4 DEF AwaitFresh, MaySuspend, Leaves
  <2>2. stack # <<>> /\ Top.kind = "body" /\ Top.state \in States
    BY <1>0, <2>1 DEF On, Activation, Grounded
  <2>3. co'[c].inst = Top.state /\ \A d \in Coros \ {c} : co'[d] = co[d]
    BY <2>1 DEF TypeOK, CoroRecord, Connected
  <2>4. PICK k \in Nat : Becomes(k, View(LeaveFrame(Top.state))) /\ At(stack, k) = View(Top)
    BY <2>1, <2>2, SeeTop
  <2>5. At(stack', k) = View(LeaveFrame(Top.state)) /\ LeaveFrame(Top.state).kind = "leave"
    BY <2>4 DEF Becomes, LeaveFrame, Frame
  <2>6. SameCancels(k) /\ SameErases(k)
    BY <2>2, <2>4, <2>5, Seen DEF SameCancels, SameErases, Cancels, Detaches, Nested, Erases, Detaching
  <2>7. \A i \in Nat : SameCancels(i) /\ SameErases(i)
    BY <2>4, <2>6, SameGist DEF Becomes
  <2> QED BY <2>1, <2>2, <2>3, <2>7, ListGrows
<1>5. CASE Reconnect
  <2>1. /\ stack # <<>> /\ ~Detaching(Top) /\ Leaves(Append(Below, LeaveFrame(Top.state)))
        /\ co' = [co EXCEPT ![Top.co] = [Connected(co[Top.co], Top.sig) EXCEPT !.running = FALSE]]
        /\ list' = list /\ created' = created /\ cancelling' = cancelling
    BY <1>5 DEF Reconnect, On, Detaching, Leaves
  <2>2. \A c \in Coros : co'[c].inst = co[c].inst
    BY <2>1 DEF TypeOK, CoroRecord, Connected
  <2> QED BY <2>1, <2>2, SameOnly, PlainFrames, ListTop
<1>6. ASSUME NEW ok \in BOOLEAN, ResumedCompletes(ok) PROVE ListInv'
  <2>1. PICK c \in Coros : c = Top.co
    BY <1>0, <1>6 DEF ResumedCompletes, On, Activation, FrameRecord
  <2>2. /\ stack # <<>> /\ Top.kind = "body" /\ c # None
        /\ Leaves(Append(Below, SettleFrame(Top.state, c)))
        /\ co' = [co EXCEPT ![c] = Detached(Ended(ok))]
        /\ list' = list /\ created' = created /\ cancelling' = cancelling
    BY <1>6, <2>1 DEF ResumedCompletes, On, Leaves
  <2>3. co'[c].inst = None /\ \A d \in Coros \ {c} : co'[d] = co[d]
    BY <2>1, <2>2 DEF TypeOK, CoroRecord, Ended, Detached, Disconnected
  <2>4. c \in created
    <3>1. \E i \in Nat : Resumes(i) = c
      BY <2>1, <2>2, ViewTop, Seen DEF Resumes, TypeOK
    <3> QED BY <2>2, <3>1 DEF WakeInv, ResumedByOwner
  <2>5. GoesOn(Top, SettleFrame(Top.state, c))
    BY <2>2, <2>3, <2>4, SettleGoesOn DEF Detaching
  <2>6. OnlyRetires
    BY <2>2, <2>3 DEF OnlyRetires
  <2> QED BY <2>2, <2>5, <2>6, ListTop
<1>7. ASSUME NEW ok \in BOOLEAN, ResumedWasCancelled(ok) PROVE ListInv'
  <2>1. /\ stack # <<>> /\ ~Detaching(Top) /\ Leaves(Append(Below, LeaveFrame(Top.state)))
        /\ co' = [co EXCEPT ![Top.co] = Ended(ok)]
        /\ list' = list /\ created' = created /\ cancelling' = cancelling
    BY <1>7 DEF ResumedWasCancelled, On, Detaching, Leaves
  <2>2. \A c \in Coros : co'[c].inst = co[c].inst
    BY <2>1 DEF TypeOK, CoroRecord, Ended
  <2> QED BY <2>1, <2>2, SameOnly, PlainFrames, ListTop
<1> QED BY <1>1, <1>2, <1>3, <1>4, <1>5, <1>6, <1>7 DEF ScriptEnd

LEMMA ListEmissions ==
  ASSUME TypeOK, WakeInv, ListInv, Emission
  PROVE  ListInv'
<1>0. stack # <<>> => Top \in Activation
  BY TopGood DEF TypeOK
<1>1. ASSUME NEW x, On("emit")
      PROVE  /\ stack # <<>> /\ Top.kind = "emit" /\ ~Detaching(Top)
             /\ [Top EXCEPT !.todo = @ \ {x}].kind = "emit"
             /\ Called(x) = Append(Below, [Top EXCEPT !.todo = @ \ {x}])
  BY <1>0, <1>1 DEF On, Activation, FrameRecord, Detaching, Called
<1>2. ASSUME On("emit"), OnlyRetires, NEW x, NEW f, GoesOn(Blank, f), Leaves(Append(Called(x), f))
      PROVE  ListInv'
  BY <1>1, <1>2, ListBoth
<1>3. CASE CallListener
  BY <1>2, <1>3, SameOnly, PlainFrames DEF CallListener, Leaves
<1>4. ASSUME NEW c \in Coros, CallRetired(c) PROVE ListInv'
  <2>1. On("emit") /\ OnlyRetires /\ Leaves(Called(c))
    BY <1>4, SameOnly DEF CallRetired, Leaves
  <2> DEFINE f == [Top EXCEPT !.todo = @ \ {c}]
  <2>2. stack # <<>> /\ ~Detaching(Top) /\ f.kind = "emit" /\ Called(c) = Append(Below, f)
    BY <1>1, <2>1
  <2> HIDE DEF f
  <2>3. GoesOn(Top, f)
    BY <2>2, PlainFrames DEF Detaching
  <2> QED BY <2>1, <2>2, <2>3, ListTop
<1>5. ASSUME NEW c \in Coros, CallOrphan(c) PROVE ListInv'
  <2>1. OnlyRetires /\ co'[c].inst = None
    BY <1>5, RetireOnly DEF CallOrphan
  <2>2. c \in created
    BY <1>5, LiveCreated DEF CallOrphan, IgnoresResume
  <2>3. GoesOn(Blank, SettleFrame(Lock(c), c))
    BY <2>1, <2>2, PlainFrames, SettleGoesOn
  <2> QED BY <1>2, <1>5, <2>1, <2>3 DEF CallOrphan, Leaves
<1>6. ASSUME NEW c \in Coros, Resume(c) PROVE ListInv'
  <2>1. \A d \in Coros : co'[d].inst = co[d].inst
    BY <1>6 DEF Resume, Resuming, Disconnected, TypeOK, CoroRecord
  <2>2. OnlyRetires
    BY <1>6, <2>1, SameOnly DEF Resume
  <2> QED BY <1>2, <1>6, <2>2, PlainFrames DEF Resume, Leaves
<1>7. CASE EmissionEnds
  <2>1. stack # <<>> /\ ~Detaching(Top) /\ OnlyRetires
        /\ stack' = IF Top.state = None THEN Below ELSE Append(Below, LeaveFrame(Top.state))
    BY <1>7, SameOnly DEF EmissionEnds, On, Detaching
  <2>2. CASE Top.state = None
    BY <2>1, <2>2, ListPop
  <2>3. CASE Top.state # None
    BY <2>1, <2>3, PlainFrames, ListTop DEF Leaves
  <2> QED BY <2>2, <2>3
<1> QED BY <1>3, <1>4, <1>5, <1>6, <1>7 DEF Emission

LEMMA ListRuntime ==
  ASSUME TypeOK, WakeInv, ListInv, Runtime
  PROVE  ListInv'
<1>0. stack # <<>> => Top \in Activation
  BY TopGood DEF TypeOK
<1>1. CASE Settle
  <2> DEFINE f == Frame("emit", Top.state, None, Top.co, Slots(Top.co), FALSE)
  <2>1. /\ stack # <<>> /\ Top.kind = "settle" /\ Leaves(Append(Below, f))
        /\ list' = [list EXCEPT ![Top.state] = @ \ {Top.co}]
        /\ created' = created /\ cancelling' = cancelling
    BY <1>1 DEF Settle, On, Leaves
  <2>2. Top.co \in Coros /\ Top.state \in States
    BY <1>0, <2>1 DEF Activation, Grounded
  <2>3. \A c \in Coros : co'[c].inst = co[c].inst
    BY <1>1, EmittingKeeps DEF Settle
  <2>4. PICK k \in Nat : At(stack, k) = View(Top)
    BY <2>1, ViewTop DEF TypeOK
  <2>5. Erases(k) = Top.co /\ Top.co # None
    BY <2>1, <2>2, <2>4, Seen, Distinct DEF Erases
  <2>6. co'[Top.co].inst = None
    BY <2>2, <2>3, <2>5 DEF ListInv, ErasesRetired
  <2>7. OnlyRetires
    <3>1. \A s \in States : list'[s] \subseteq list[s] /\ list[s] \ list'[s] \subseteq {Top.co}
      BY <2>1, <2>2 DEF TypeOK
    <3> QED BY <2>1, <2>3, <2>6, <3>1 DEF OnlyRetires
  <2>8. GoesOn(Top, f)
    BY <2>1, PlainFrames DEF Detaching
  <2> HIDE DEF f
  <2> QED BY <2>1, <2>7, <2>8, ListTop
<1>2. ASSUME NEW c \in Coros, Detach(c) PROVE ListInv'
  <2> DEFINE f == [Top EXCEPT !.todo = @ \ {c}, !.due = Owed(Top, c)]
  <2>1. stack # <<>> /\ Detaching(Top) /\ Leaves(Append(Below, f))
    BY <1>2 DEF Detach, On, Detaching, Leaves
  <2>2. f.kind = Top.kind /\ f.state = Top.state /\ f.todo = Top.todo \ {c} /\ f.prev = Top.prev
    BY <1>0, <2>1 DEF Activation, FrameRecord
  <2>3. OnlyRetires /\ co'[c].inst = None
    BY <1>2, RetireOnly DEF Detach
  <2> HIDE DEF f
  <2>4. GoesOn(Top, f)
    BY <2>1, <2>2, <2>3 DEF GoesOn, Detaching
  <2> QED BY <2>1, <2>3, <2>4, ListTop
<1>3. ASSUME NEW c \in Coros, Notify(c) PROVE ListInv'
  <2> DEFINE g == [Top EXCEPT !.due = @ \ {c}]
             f == Frame("emit", None, None, c, Slots(c), FALSE)
  <2>1. stack # <<>> /\ Top.kind = "cancel" /\ Leaves(Append(Append(Below, g), f))
    BY <1>3 DEF Notify, On, Leaves
  <2>2. g.kind = Top.kind /\ g.state = Top.state /\ g.todo = Top.todo /\ g.prev = Top.prev
    BY <1>0, <2>1 DEF Activation, FrameRecord
  <2>3. OnlyRetires
    BY <1>3, EmittingKeeps, SameOnly DEF Notify
  <2>4. GoesOn(Blank, f)
    BY PlainFrames
  <2> HIDE DEF f, g
  <2> QED BY <2>1, <2>2, <2>3, <2>4, ListBoth
<1>4. CASE CancelEnds
  <2>1. /\ stack # <<>> /\ Detaching(Top) /\ Top.todo = {}
        /\ Leaves(Append(Below, LeaveFrame(Top.state)))
        /\ cancelling' = [cancelling EXCEPT ![Top.state] = Top.prev]
        /\ list' = list /\ co' = co /\ created' = created
    BY <1>4 DEF CancelEnds, On, Detaching, Leaves
  <2>2. Top.state \in States
    BY <1>0, <2>1 DEF Detaching, Activation, Grounded
  <2>3. PICK k \in Nat : /\ Becomes(k, View(LeaveFrame(Top.state))) /\ At(stack, k) = View(Top)
                         /\ \A i \in Nat : i > k => At(stack, i) = Blank
    BY <2>1, SeeTop
  <2>4. At(stack', k) = View(LeaveFrame(Top.state)) /\ LeaveFrame(Top.state).kind = "leave"
    BY <2>3 DEF Becomes, LeaveFrame, Frame
  <2>5. Cancels(k) = Top.state /\ Detaches(k) = {} /\ Nested(k) = Top.prev
    BY <2>1, <2>3, Seen DEF Cancels, Detaches, Nested, Detaching
  <2>6. Cancels(k)' = None /\ Erases(k)' = None
    BY <2>4, Seen DEF Cancels, Erases, Detaching
  <2>7. \A i \in Nat : i > k => Cancels(i) = None
    BY <2>3, BlankView DEF Cancels, Detaching
  <2>8. \A i \in Nat \ {k} : SameCancels(i) /\ SameErases(i)
    BY <2>3, SameGist DEF Becomes
  <2> QED BY <2>1, <2>2, <2>5, <2>6, <2>7, <2>8, ListEnds
<1>5. CASE Keep
  BY <1>5, SameOnly, ListPop DEF Keep, On, Detaching
<1>6. CASE Destroy
  BY <1>6, BeginSeen DEF Destroy, LastRef, On
<1> QED BY <1>1, <1>2, <1>3, <1>4, <1>5, <1>6 DEF Runtime

LEMMA ListInit == Init => ListInv
<1> SUFFICES ASSUME Init PROVE ListInv
  OBVIOUS
<1>1. \A i \in Nat : Cancels(i) = None /\ Erases(i) = None
  BY BlankView DEF Init, Cancels, Erases, Detaching, At
<1>2. \A c \in Coros : co[c].inst = None
  BY DEF Init
<1>3. \A s \in States : ~cancelling[s]
  BY DEF Init
<1> QED BY <1>1, <1>2, <1>3, Distinct DEF ListInv, ListSealed, MarkedWhile, MarkRestored, Found, ErasesRetired

LEMMA ListCorrect == Spec => []ListInv
<1>1. TypeOK /\ WakeInv /\ ListInv /\ [Next]_vars => ListInv'
  <2> SUFFICES ASSUME TypeOK, WakeInv, ListInv, [Next]_vars PROVE ListInv'
    OBVIOUS
  <2>1. CASE UNCHANGED vars
    <3>1. /\ stack' = stack /\ co' = co /\ created' = created /\ list' = list
          /\ cancelling' = cancelling
      BY <2>1 DEF vars
    <3>2. OnlyRetires /\ \A i \in Nat : SameCancels(i) /\ SameErases(i)
      BY <3>1, SameOnly, SameGist
    <3>3. PICK k \in Nat : At(stack, k) = Blank
      <4>1. Len(stack) + 1 \in Nat /\ Len(stack) + 1 > Len(stack)
        BY DEF TypeOK
      <4> QED BY <4>1, ViewAbove DEF TypeOK
    <3>4. GoesOn(At(stack, k), At(stack', k))
      BY <3>1, <3>3, BlankView DEF GoesOn, Detaching
    <3> QED BY <3>2, <3>4, ListPlace
  <2> QED BY <2>1, ListScriptOp, ListScriptEnd, ListEmissions, ListRuntime DEF Next
<1> QED BY TypeCorrect, WakeCorrect, ListInit, <1>1, PTL DEF Spec

\* While a runtime cancels its coroutines, however often the cancellation is entered
\* again by the handlers it calls, no script can start one there.
THEOREM CancellationHolds == Spec => []CancellationSealed
<1>1. TypeOK /\ ListInv => CancellationSealed
  <2> SUFFICES ASSUME TypeOK, ListInv PROVE CancellationSealed
    OBVIOUS
  <2>1. ASSUME NEW i \in 1..Len(stack), stack[i].kind \in {"cancel", "silence"}
        PROVE  cancelling[stack[i].state]
    <3>1. stack[i].state \in States
      BY <2>1 DEF TypeOK, Activation, Grounded
    <3>2. i \in Nat /\ Cancels(i) = stack[i].state
      BY <2>1, Placed DEF Cancels, Detaching
    <3> QED BY <3>1, <3>2 DEF ListInv, MarkedWhile
  <2> QED BY <2>1 DEF CancellationSealed, ListInv, ListSealed
<1> QED BY TypeCorrect, ListCorrect, <1>1, PTL

\* Whoever replaces or destroys a runtime finds every coroutine of it: in its list, or
\* with the cancellation that took the list.
THEOREM EveryOneFound == Spec => []Reachable
<1>1. TypeOK /\ ListInv => Reachable
  <2> SUFFICES ASSUME TypeOK, ListInv, NEW c \in Coros, co[c].inst # None
               PROVE  \/ c \in list[co[c].inst]
                      \/ \E i \in 1..Len(stack) : /\ stack[i].kind \in {"cancel", "silence"}
                                                  /\ stack[i].state = co[c].inst
                                                  /\ c \in stack[i].todo
    BY DEF Reachable
  <2>1. ASSUME NEW i \in Nat, Cancels(i) = co[c].inst, c \in Detaches(i)
        PROVE  /\ i \in 1..Len(stack) /\ stack[i].kind \in {"cancel", "silence"}
               /\ stack[i].state = co[c].inst /\ c \in stack[i].todo
    <3>1. Detaching(At(stack, i))
      BY <2>1 DEF Cancels
    <3>2. i \in 1..Len(stack)
      BY <3>1, Placed, PlainFrames
    <3> QED BY <2>1, <3>1, <3>2, Placed DEF Cancels, Detaches, Detaching
  <2> QED BY <2>1 DEF ListInv, Found
<1> QED BY TypeCorrect, ListCorrect, <1>1, PTL

-----------------------------------------------------------------------------
(* `completed` is emitted once.                                              *)

\* An activation that runs no script before its next step.
Busy(f) == f.kind = "settle" \/ (f.kind \in {"cancel", "silence"} /\ f.todo # {})

BusyOnTop == \A i \in 1..Len(stack) : Busy(stack[i]) => i = Len(stack)

\* No two activations owe the completion of one coroutine.
ClaimsDisjoint == \A i, j \in 1..Len(stack) : \A c \in Coros :
  c \in Claims(stack[i]) /\ c \in Claims(stack[j]) => i = j

\* An owed completion has not been announced, and the coroutine is already
\* detached unless the detach loop has yet to reach it.
ClaimsOpen == \A i \in 1..Len(stack) : \A c \in Claims(stack[i]) :
  /\ emitted[c] = 0
  /\ c \in created
  /\ co[c].inst # None => c \in stack[i].todo

\* A listed coroutine belongs to the list's runtime and has not completed,
\* except while retire() is about to erase it.
ListedOpen == \A s \in States : \A c \in list[s] :
  /\ emitted[c] = 0
  /\ c \in created
  /\ co[c].inst = s \/ (On("settle") /\ Top.co = c /\ Top.state = s)

LiveOpen == \A c \in Coros : co[c].inst # None => emitted[c] = 0 /\ c \in created

FreshUntold == \A c \in Coros \ created : emitted[c] = 0

\* What a detach loop has yet to reach has left every list.
TodoUnlisted == \A i \in 1..Len(stack) : stack[i].kind \in {"cancel", "silence"} =>
  \A s \in States : stack[i].todo \cap list[s] = {}

OnceInv == /\ CompletedOnce /\ BusyOnTop /\ ClaimsDisjoint /\ ClaimsOpen
           /\ ListedOpen /\ LiveOpen /\ FreshUntold /\ TodoUnlisted

\* What the activations the code starts owe, and which of them are busy.
LEMMA NewFrames ==
  /\ Claims(ScriptFrame) = {} /\ ~Busy(ScriptFrame)
  /\ \A s : Claims(LeaveFrame(s)) = {} /\ ~Busy(LeaveFrame(s))
  /\ \A s, c : Claims(BodyFrame(s, c)) = {} /\ ~Busy(BodyFrame(s, c))
  /\ \A s, c : Claims(SettleFrame(s, c)) = {c} /\ Busy(SettleFrame(s, c))
  /\ \A s, g, d : LET f == Frame("emit", s, None, g, d, FALSE)
                   IN  Claims(f) = {} /\ ~Busy(f)
  /\ \A s, d, b : LET f == Frame("silence", s, None, None, d, b)
                   IN  Claims(f) = {}
  /\ \A s, d, b : LET f == Frame("cancel", s, None, None, d, b)
                   IN  Claims(f) = d /\ f.todo = d
BY DEF ScriptFrame, LeaveFrame, BodyFrame, SettleFrame, Frame, Claims, Busy

\* An activation of kind k above which script runs is not busy.
LEMMA IdleKinds ==
  ASSUME NEW f, f.kind \in {"script", "body", "emit", "leave"}
  PROVE  Claims(f) = {} /\ ~Busy(f)
BY DEF Claims, Busy

\* q owes nothing but what the same activation of p owed.
Carried(q, p) == \A i \in 1..Len(q) :
  \/ Claims(q[i]) = {}
  \/ /\ i \in 1..Len(p)
     /\ Claims(q[i]) = Claims(p[i])
     /\ q[i].todo = p[i].todo

Idle(q) == \A i \in 1..Len(q) : ~Busy(q[i])

\* A step that neither starts, detaches nor completes a coroutine.
LEMMA QuietStep ==
  ASSUME TypeOK, OnceInv, TypeOK',
         created' = created, emitted' = emitted,
         \A c \in Coros : co'[c].inst = co[c].inst,
         \A s \in States : list'[s] \subseteq list[s],
         ~On("settle"),
         Carried(stack', stack),
         Idle(stack')
  PROVE  OnceInv'
<1>1. CompletedOnce' /\ FreshUntold' /\ LiveOpen'
  BY DEF OnceInv, CompletedOnce, FreshUntold, LiveOpen
<1>2. BusyOnTop' /\ TodoUnlisted'
  BY DEF Idle, BusyOnTop, TodoUnlisted, Busy
<1>3. ClaimsDisjoint'
  BY DEF OnceInv, ClaimsDisjoint, Carried
<1>4. ClaimsOpen'
  <2> SUFFICES ASSUME NEW i \in 1..Len(stack'), NEW c \in Claims(stack'[i])
               PROVE  /\ emitted'[c] = 0
                      /\ c \in created'
                      /\ co'[c].inst # None => c \in stack'[i].todo
    BY DEF ClaimsOpen
  <2>1. /\ i \in 1..Len(stack)
        /\ Claims(stack'[i]) = Claims(stack[i])
        /\ stack'[i].todo = stack[i].todo
    BY DEF Carried
  <2>2. c \in Coros
    BY <2>1 DEF OnceInv, ClaimsOpen, TypeOK
  <2> QED BY <2>1, <2>2 DEF OnceInv, ClaimsOpen
<1>5. ListedOpen'
  BY DEF OnceInv, ListedOpen, TypeOK
<1> QED BY <1>1, <1>2, <1>3, <1>4, <1>5 DEF OnceInv

\* Script has control only while no activation is busy.
LEMMA SpentKept ==
  ASSUME TypeOK, OnceInv, CanAct
  PROVE  Spent \in Seq(Activation) /\ Idle(Spent) /\ Carried(Spent, stack) /\ ~On("settle")
<1>1. stack \in Seq(Activation)
  BY DEF TypeOK
<1>2. /\ Spent \in Seq(Activation) /\ Len(Spent) = Len(stack)
      /\ \A i \in 1..Len(stack) : Spent[i] = [stack[i] EXCEPT !.fuel = Spent[i].fuel]
  BY <1>1, SpentGood
<1>3. \A i \in 1..Len(stack) : /\ Claims(Spent[i]) = Claims(stack[i])
                               /\ Busy(Spent[i]) = Busy(stack[i])
                               /\ Spent[i].todo = stack[i].todo
  <2> SUFFICES ASSUME NEW i \in 1..Len(stack)
               PROVE  /\ Claims(Spent[i]) = Claims(stack[i])
                      /\ Busy(Spent[i]) = Busy(stack[i])
                      /\ Spent[i].todo = stack[i].todo
    OBVIOUS
  <2>1. stack[i] \in Activation
    BY <1>1
  <2>2. Spent[i] = [stack[i] EXCEPT !.fuel = Spent[i].fuel]
    BY <1>2
  <2>3. /\ Spent[i].kind = stack[i].kind /\ Spent[i].co = stack[i].co
        /\ Spent[i].todo = stack[i].todo /\ Spent[i].due = stack[i].due
    BY <2>1, <2>2 DEF Activation, FrameRecord
  <2> QED BY <2>3 DEF Claims, Busy
<1>4. \A i \in 1..Len(stack) : ~Busy(stack[i])
  <2>1. stack # <<>> => ~Busy(Top)
    BY DEF CanAct, InScript, Busy
  <2> QED BY <2>1 DEF OnceInv, BusyOnTop, Top
<1>5. ~On("settle")
  BY DEF CanAct, InScript, On
<1> QED BY <1>2, <1>3, <1>4, <1>5 DEF Idle, Carried

\* Everything below the top is idle.
LEMMA BelowKept ==
  ASSUME TypeOK, OnceInv, stack # <<>>
  PROVE  /\ Below \in Seq(Activation) /\ Idle(Below) /\ Carried(Below, stack)
         /\ Len(Below) = Len(stack) - 1 /\ Len(stack) \in Nat \ {0}
         /\ \A i \in 1..Len(Below) : Below[i] = stack[i]
<1>1. /\ Below \in Seq(Activation) /\ Len(stack) \in Nat \ {0}
      /\ Len(Below) = Len(stack) - 1
      /\ \A i \in 1..Len(Below) : Below[i] = stack[i]
  BY TopGood DEF TypeOK
<1>2. Carried(Below, stack)
  BY <1>1 DEF Carried
<1>3. Idle(Below)
  BY <1>1 DEF Idle, OnceInv, BusyOnTop
<1> QED BY <1>1, <1>2, <1>3

\* Pushing an activation that owes nothing.
LEMMA PushKept ==
  ASSUME NEW q \in Seq(Activation), NEW f \in Activation,
         Idle(q), Carried(q, stack), Claims(f) = {}
  PROVE  /\ Append(q, f) \in Seq(Activation)
         /\ Carried(Append(q, f), stack)
         /\ ~Busy(f) => Idle(Append(q, f))
<1>1. /\ Append(q, f) \in Seq(Activation)
      /\ Len(Append(q, f)) = Len(q) + 1 /\ Len(q) \in Nat
      /\ \A i \in 1..Len(q) : Append(q, f)[i] = q[i]
      /\ Append(q, f)[Len(q) + 1] = f
  BY AppendProperties
<1>2. \A i \in 1..(Len(q) + 1) : i \in 1..Len(q) \/ i = Len(q) + 1
  BY <1>1
<1> QED BY <1>1, <1>2 DEF Carried, Idle

\* retire(c) up to the point where c is erased and completes.
LEMMA SettlingStep ==
  ASSUME TypeOK, OnceInv, TypeOK',
         NEW c \in Coros, NEW q \in Seq(Activation), Lock(c) # None,
         Idle(stack), ~On("settle"), Idle(q), Carried(q, stack),
         stack' = Append(q, SettleFrame(Lock(c), c)),
         co'[c].inst = None,
         \A d \in Coros \ {c} : co'[d].inst = co[d].inst,
         created' = created, emitted' = emitted, list' = list
  PROVE  OnceInv'
<1> DEFINE f == SettleFrame(Lock(c), c)
<1>1. f \in Activation /\ Claims(f) = {c} /\ Busy(f)
      /\ f.kind = "settle" /\ f.co = c /\ f.state = Lock(c) /\ f.todo = {}
  BY LockType, FramesGood, NewFrames DEF SettleFrame, Frame
<1>2. /\ Len(stack') = Len(q) + 1 /\ Len(q) \in Nat
      /\ \A i \in 1..Len(q) : stack'[i] = q[i]
      /\ stack'[Len(q) + 1] = f
  BY <1>1, AppendProperties
<1>3. \A i \in 1..Len(stack') : i \in 1..Len(q) \/ i = Len(q) + 1
  BY <1>2
<1>4. co[c].inst = Lock(c) /\ Lock(c) \in States /\ emitted[c] = 0 /\ c \in created
  BY LockType DEF OnceInv, LiveOpen
<1>5. \A i \in 1..Len(stack) : c \notin Claims(stack[i])
  <2> SUFFICES ASSUME NEW i \in 1..Len(stack), c \in Claims(stack[i]) PROVE FALSE
    OBVIOUS
  <2>1. c \in stack[i].todo
    BY <1>4, Distinct DEF OnceInv, ClaimsOpen
  <2> QED BY <2>1 DEF Idle, Busy, Claims
<1> HIDE DEF f
<1>6. \A i \in 1..Len(q) : c \notin Claims(q[i])
  BY <1>5 DEF Carried
<1>7. CompletedOnce' /\ FreshUntold' /\ LiveOpen'
  BY DEF OnceInv, CompletedOnce, FreshUntold, LiveOpen
<1>8. BusyOnTop' /\ TodoUnlisted'
  <2>1. \A i \in 1..Len(q) : ~Busy(stack'[i])
    BY <1>2 DEF Idle
  <2>2. BusyOnTop'
    BY <1>2, <1>3, <2>1 DEF BusyOnTop
  <2> QED BY <1>1, <1>2, <1>3, <2>1, <2>2 DEF TodoUnlisted, Busy
<1>9. ClaimsDisjoint'
  <2> SUFFICES ASSUME NEW i \in 1..Len(stack'), NEW j \in 1..Len(stack'), NEW d \in Coros,
                      d \in Claims(stack'[i]), d \in Claims(stack'[j])
               PROVE  i = j
    BY DEF ClaimsDisjoint
  <2>1. CASE i \in 1..Len(q) /\ j \in 1..Len(q)
    <3>1. /\ i \in 1..Len(stack) /\ Claims(stack'[i]) = Claims(stack[i])
          /\ j \in 1..Len(stack) /\ Claims(stack'[j]) = Claims(stack[j])
      BY <1>2, <2>1 DEF Carried
    <3> QED BY <3>1 DEF OnceInv, ClaimsDisjoint
  <2>2. CASE i = Len(q) + 1 /\ j \in 1..Len(q)
    BY <1>1, <1>2, <1>6, <2>2
  <2>3. CASE j = Len(q) + 1 /\ i \in 1..Len(q)
    BY <1>1, <1>2, <1>6, <2>3
  <2> QED BY <1>3, <2>1, <2>2, <2>3
<1>10. ClaimsOpen'
  <2> SUFFICES ASSUME NEW i \in 1..Len(stack'), NEW d \in Claims(stack'[i])
               PROVE  /\ emitted'[d] = 0
                      /\ d \in created'
                      /\ co'[d].inst # None => d \in stack'[i].todo
    BY DEF ClaimsOpen
  <2>1. CASE i = Len(q) + 1
    BY <1>1, <1>2, <1>4, <2>1
  <2>2. CASE i \in 1..Len(q)
    <3>1. /\ i \in 1..Len(stack)
          /\ Claims(stack'[i]) = Claims(stack[i])
          /\ stack'[i].todo = stack[i].todo
      BY <1>2, <2>2 DEF Carried
    <3>2. d \in Coros /\ d # c
      BY <1>5, <3>1 DEF OnceInv, ClaimsOpen, TypeOK
    <3> QED BY <3>1, <3>2 DEF OnceInv, ClaimsOpen
  <2> QED BY <1>3, <2>1, <2>2
<1>11. ListedOpen'
  <2> SUFFICES ASSUME NEW s \in States, NEW d \in list[s]
               PROVE  /\ emitted[d] = 0
                      /\ d \in created
                      /\ co'[d].inst = s \/ (On("settle")' /\ Top'.co = d /\ Top'.state = s)
    BY DEF ListedOpen
  <2>1. emitted[d] = 0 /\ d \in created /\ co[d].inst = s
    BY DEF OnceInv, ListedOpen
  <2>2. CASE d = c
    <3>1. stack' # <<>> /\ Top' = f
      BY <1>2 DEF Top
    <3> QED BY <1>1, <1>4, <2>1, <2>2, <3>1 DEF On
  <2>3. CASE d # c
    BY <2>1, <2>3 DEF TypeOK
  <2> QED BY <2>2, <2>3
<1> QED BY <1>7, <1>8, <1>9, <1>10, <1>11 DEF OnceInv

LEMMA OnceInit == Init => OnceInv
<1> SUFFICES ASSUME Init PROVE OnceInv
  OBVIOUS
<1>1. Len(stack) = 0 /\ 1..Len(stack) = {}
  BY DEF Init
<1>2. BusyOnTop /\ ClaimsDisjoint /\ ClaimsOpen /\ TodoUnlisted
  BY <1>1 DEF BusyOnTop, ClaimsDisjoint, ClaimsOpen, TodoUnlisted
<1>3. CompletedOnce /\ ListedOpen /\ LiveOpen /\ FreshUntold
  BY DEF Init, CompletedOnce, ListedOpen, LiveOpen, FreshUntold
<1> QED BY <1>2, <1>3 DEF OnceInv

\* cancel_coroutines(false) moves the list into a new activation that owes nobody.
LEMMA SilenceStep ==
  ASSUME TypeOK, OnceInv, NEW s \in States, NEW q \in Seq(Activation),
         Idle(q), Carried(q, stack), ~On("settle"), BeginCancel(q, s, "silence"),
         co' = co, created' = created, emitted' = emitted
  PROVE  OnceInv'
<1> DEFINE f == Frame("silence", s, None, None, list[s], cancelling[s])
<1>0. stack' = Append(q, f) /\ list' = [list EXCEPT ![s] = {}]
  BY DEF BeginCancel
<1>1. f \in Activation /\ Claims(f) = {} /\ f.todo = list[s]
  <2>1. list[s] \in SUBSET Coros
    BY DEF TypeOK
  <2>2. cancelling[s] \in BOOLEAN
    BY DEF TypeOK
  <2>3. f.todo = list[s]
    BY DEF Frame
  <2> QED BY <2>1, <2>2, <2>3, FramesGood, NewFrames
<1> HIDE DEF f
<1>2. /\ Len(stack') = Len(q) + 1 /\ Len(q) \in Nat
      /\ \A i \in 1..Len(q) : stack'[i] = q[i]
      /\ stack'[Len(q) + 1] = f
  BY <1>0, <1>1, AppendProperties
<1>3. \A i \in 1..Len(stack') : i \in 1..Len(q) \/ i = Len(q) + 1
  BY <1>2
<1>4. \A i \in 1..Len(q) : ~Busy(stack'[i])
  BY <1>2 DEF Idle
<1>5. Carried(stack', stack)
  BY <1>0, <1>1, PushKept
<1>6. \A t \in States : \A c \in list'[t] : t # s /\ c \in list[t] /\ c \in Coros
  BY <1>0 DEF TypeOK
<1>7. CompletedOnce' /\ FreshUntold' /\ LiveOpen'
  BY DEF OnceInv, CompletedOnce, FreshUntold, LiveOpen
<1>8. BusyOnTop'
  BY <1>2, <1>3, <1>4 DEF BusyOnTop
<1>9. TodoUnlisted'
  <2>1. \A t \in States : list[s] \cap list'[t] = {}
    BY <1>6 DEF OnceInv, ListedOpen
  <2> QED BY <1>1, <1>2, <1>3, <1>4, <2>1 DEF TodoUnlisted, Busy
<1>10. ClaimsDisjoint'
  BY <1>5 DEF OnceInv, ClaimsDisjoint, Carried
<1>11. ClaimsOpen'
  BY <1>5 DEF OnceInv, ClaimsOpen, Carried
<1>12. ListedOpen'
  BY <1>6 DEF OnceInv, ListedOpen
<1> QED BY <1>7, <1>8, <1>9, <1>10, <1>11, <1>12 DEF OnceInv

\* cancel_coroutines moves the list into a new activation that owes it.
LEMMA ReplaceStep ==
  ASSUME TypeOK, OnceInv, TypeOK', NEW s \in States, Replace(s)
  PROVE  OnceInv'
<1> DEFINE f == Frame("cancel", s, None, None, list[s], cancelling[s])
<1>0. /\ CanAct /\ stack' = Append(Spent, f)
      /\ list' = [list EXCEPT ![s] = {}]
      /\ created' = created /\ emitted' = emitted /\ co' = co
  BY DEF Replace, BeginCancel
<1>1. f \in Activation /\ Claims(f) = list[s] /\ f.todo = list[s]
  <2>1. list[s] \in SUBSET Coros
    BY DEF TypeOK
  <2>2. cancelling[s] \in BOOLEAN
    BY DEF TypeOK
  <2> QED BY <2>1, <2>2, FramesGood, NewFrames
<1> HIDE DEF f
<1>2. Spent \in Seq(Activation) /\ Idle(Spent) /\ Carried(Spent, stack) /\ ~On("settle")
  BY <1>0, SpentKept
<1>3. /\ Len(stack') = Len(Spent) + 1 /\ Len(Spent) \in Nat
      /\ \A i \in 1..Len(Spent) : stack'[i] = Spent[i]
      /\ stack'[Len(Spent) + 1] = f
  BY <1>0, <1>1, <1>2, AppendProperties
<1>4. \A i \in 1..Len(stack') : i \in 1..Len(Spent) \/ i = Len(Spent) + 1
  BY <1>3
<1>5. \A c \in list[s] : c \in Coros /\ co[c].inst = s /\ emitted[c] = 0 /\ c \in created
  BY <1>2 DEF OnceInv, ListedOpen, TypeOK
<1>6. \A i \in 1..Len(Spent), c \in list[s] : c \notin Claims(Spent[i])
  <2> SUFFICES ASSUME NEW i \in 1..Len(Spent), NEW c \in list[s], c \in Claims(Spent[i])
               PROVE  FALSE
    OBVIOUS
  <2>1. /\ i \in 1..Len(stack) /\ c \in Claims(stack[i])
        /\ Spent[i].todo = stack[i].todo
    BY <1>2 DEF Carried
  <2>2. c \in Spent[i].todo
    BY <2>1, <1>5, Distinct DEF OnceInv, ClaimsOpen
  <2> QED BY <2>2, <1>2 DEF Idle, Busy, Claims
<1>7. CompletedOnce' /\ FreshUntold' /\ LiveOpen'
  BY <1>0 DEF OnceInv, CompletedOnce, FreshUntold, LiveOpen
<1>8. BusyOnTop' /\ TodoUnlisted'
  <2>1. \A i \in 1..Len(Spent) : ~Busy(stack'[i])
    BY <1>2, <1>3 DEF Idle
  <2>2. BusyOnTop'
    BY <1>3, <1>4, <2>1 DEF BusyOnTop
  <2>3. \A u \in States : list[s] \cap list'[u] = {}
    BY <1>0, <1>5, <1>2, SMTT(30) DEF OnceInv, ListedOpen, TypeOK
  <2> QED BY <1>1, <1>3, <1>4, <2>1, <2>2, <2>3 DEF TodoUnlisted, Busy
<1>9. ClaimsDisjoint'
  <2> SUFFICES ASSUME NEW i \in 1..Len(stack'), NEW j \in 1..Len(stack'), NEW d \in Coros,
                      d \in Claims(stack'[i]), d \in Claims(stack'[j])
               PROVE  i = j
    BY DEF ClaimsDisjoint
  <2>1. CASE i \in 1..Len(Spent) /\ j \in 1..Len(Spent)
    <3>1. /\ i \in 1..Len(stack) /\ Claims(stack'[i]) = Claims(stack[i])
          /\ j \in 1..Len(stack) /\ Claims(stack'[j]) = Claims(stack[j])
      BY <1>2, <1>3, <2>1 DEF Carried
    <3> QED BY <3>1 DEF OnceInv, ClaimsDisjoint
  <2>2. CASE i = Len(Spent) + 1 /\ j \in 1..Len(Spent)
    BY <1>1, <1>3, <1>6, <2>2
  <2>3. CASE j = Len(Spent) + 1 /\ i \in 1..Len(Spent)
    BY <1>1, <1>3, <1>6, <2>3
  <2> QED BY <1>4, <2>1, <2>2, <2>3
<1>10. ClaimsOpen'
  <2> SUFFICES ASSUME NEW i \in 1..Len(stack'), NEW d \in Claims(stack'[i])
               PROVE  /\ emitted[d] = 0
                      /\ d \in created
                      /\ co[d].inst # None => d \in stack'[i].todo
    BY <1>0 DEF ClaimsOpen
  <2>1. CASE i = Len(Spent) + 1
    BY <1>1, <1>3, <1>5, <2>1
  <2>2. CASE i \in 1..Len(Spent)
    <3>1. /\ i \in 1..Len(stack)
          /\ Claims(stack'[i]) = Claims(stack[i])
          /\ stack'[i].todo = stack[i].todo
      BY <1>2, <1>3, <2>2 DEF Carried
    <3> QED BY <3>1 DEF OnceInv, ClaimsOpen
  <2> QED BY <1>4, <2>1, <2>2
<1>11. ListedOpen'
  BY <1>0, <1>2 DEF OnceInv, ListedOpen, TypeOK
<1> QED BY <1>7, <1>8, <1>9, <1>10, <1>11 DEF OnceInv

LEMMA OnceScriptOp ==
  ASSUME TypeOK, OnceInv, TypeOK', ScriptOp, ~DropHooks
  PROVE  OnceInv'
<1>0. CanAct => /\ Spent \in Seq(Activation) /\ Idle(Spent) /\ Carried(Spent, stack)
                /\ ~On("settle")
  BY SpentKept
<1>1. ASSUME NEW g \in Signals, EmitSignal(g) PROVE OnceInv'
  <2> DEFINE f == Frame("emit", None, None, g, Slots(g), FALSE)
  <2>1. f \in Activation /\ Claims(f) = {} /\ ~Busy(f)
    BY FramesGood, NewFrames
  <2>2. CanAct /\ stack' = Append(Spent, f)
    BY <1>1 DEF EmitSignal
  <2> HIDE DEF f
  <2>3. Carried(stack', stack) /\ Idle(stack')
    BY <1>0, <2>1, <2>2, PushKept
  <2>4. \A c \in Coros : co'[c].inst = co[c].inst
    BY <1>1 DEF EmitSignal, Emitting, TypeOK, CoroRecord
  <2> QED BY <1>0, <1>1, <2>2, <2>3, <2>4, QuietStep DEF EmitSignal
<1>2. ASSUME NEW g \in Signals, FreeSource(g) PROVE OnceInv'
  <2>1. \A c \in Coros : co'[c].inst = co[c].inst
    BY <1>2 DEF FreeSource, Emitting, TypeOK, CoroRecord
  <2> QED BY <1>0, <1>2, <2>1, QuietStep DEF FreeSource
<1>3. ASSUME NEW c \in Coros, Cancel(c) PROVE OnceInv'
  <2>1. CanAct /\ Lock(c) # None /\ stack' = Append(Spent, SettleFrame(Lock(c), c))
    BY <1>3 DEF Cancel, Cancellable, MaybeHook
  <2>2. Idle(stack)
    BY <2>1 DEF OnceInv, BusyOnTop, Idle, Top, CanAct, InScript, Busy
  <2>3. co'[c].inst = None /\ \A d \in Coros \ {c} : co'[d].inst = co[d].inst
    BY <1>3 DEF Cancel, TypeOK, CoroRecord, Detached, Disconnected
  <2> QED BY <1>0, <1>3, <2>1, <2>2, <2>3, SettlingStep DEF Cancel
<1>4. ASSUME NEW s \in States, CallFunction(s) PROVE OnceInv'
  <2>1. CanAct /\ stack' = Append(Spent, BodyFrame(s, None))
    BY <1>4 DEF CallFunction
  <2>2. Carried(stack', stack) /\ Idle(stack')
    BY <1>0, <2>1, FramesGood, NewFrames, PushKept
  <2> QED BY <1>0, <1>4, <2>1, <2>2, QuietStep DEF CallFunction
<1>5. ASSUME NEW s \in States, Replace(s) PROVE OnceInv'
  BY <1>5, ReplaceStep
<1>6. ASSUME NEW s \in States, Teardown(s) PROVE OnceInv'
  BY <1>0, <1>6, SilenceStep DEF Teardown
<1>7. ASSUME NEW s \in States, Drop(s) PROVE OnceInv'
  <2>1. CanAct /\ stack' = Append(Spent, LeaveFrame(s))
    BY <1>7 DEF Drop
  <2>2. Carried(stack', stack) /\ Idle(stack')
    BY <1>0, <2>1, FramesGood, NewFrames, PushKept
  <2> QED BY <1>0, <1>7, <2>1, <2>2, QuietStep DEF Drop
<1>8. ASSUME NEW s \in States, FreeOwner(s) PROVE OnceInv'
  BY <1>0, <1>8, QuietStep DEF FreeOwner
<1> QED BY <1>1, <1>2, <1>3, <1>4, <1>5, <1>6, <1>7, <1>8 DEF ScriptOp

LEMMA OnceScriptEnd ==
  ASSUME TypeOK, OnceInv, TypeOK', ScriptEnd, ~DropHooks
  PROVE  OnceInv'
<1>0. stack # <<>> => /\ Below \in Seq(Activation) /\ Idle(Below) /\ Carried(Below, stack)
                      /\ Top \in Activation
                      /\ Len(Below) = Len(stack) - 1 /\ Len(stack) \in Nat \ {0}
                      /\ \A i \in 1..Len(Below) : Below[i] = stack[i]
  BY BelowKept, TopGood DEF TypeOK
<1>a. ASSUME NEW s \in States, stack # <<>>, stack' = Append(Below, LeaveFrame(s))
      PROVE  Carried(stack', stack) /\ Idle(stack')
  BY <1>0, <1>a, FramesGood, NewFrames, PushKept
<1>1. CASE ListenerReturns
  BY <1>0, <1>1, QuietStep DEF ListenerReturns, On
<1>2. CASE CallReturns
  <2>1. Top.state \in States /\ stack # <<>> /\ ~On("settle")
    BY <1>0, <1>2 DEF CallReturns, On, Activation, Grounded
  <2>2. Carried(stack', stack) /\ Idle(stack')
    BY <1>a, <1>2, <2>1 DEF CallReturns
  <2> QED BY <1>2, <2>1, <2>2, QuietStep DEF CallReturns
<1>3. ASSUME NEW g \in Signals \cup Coros, AwaitAgain(g) PROVE OnceInv'
  <2>1. Top.kind = "body" /\ stack # <<>> /\ ~On("settle") /\ Top.co \in Coros
    BY <1>0, <1>3 DEF AwaitAgain, On, Activation, FrameRecord
  <2>2. [Top EXCEPT !.sig = g] \in Activation /\ [Top EXCEPT !.sig = g].kind = "body"
    BY <1>0, <1>3, <2>1 DEF AwaitAgain, On, Activation, FrameRecord, Grounded
  <2> DEFINE f == [Top EXCEPT !.sig = g]
  <2>3. stack' = Append(Below, f)
    BY <1>3 DEF AwaitAgain, MaybeHook
  <2>a. f \in Activation /\ f.kind = "body"
    BY <2>2
  <2> HIDE DEF f
  <2>4. Carried(stack', stack) /\ Idle(stack')
    BY <1>0, <2>1, <2>a, <2>3, IdleKinds, PushKept
  <2>5. \A c \in Coros : co'[c].inst = co[c].inst
    BY <1>3, <2>1 DEF AwaitAgain, Disconnected, TypeOK, CoroRecord
  <2> QED BY <1>3, <2>1, <2>4, <2>5, QuietStep DEF AwaitAgain
<1>4. ASSUME NEW g \in Signals \cup Coros, NEW c \in Coros, AwaitFresh(c, g) PROVE OnceInv'
  <2>1. Top.state \in States /\ stack # <<>> /\ ~On("settle")
    BY <1>0, <1>4 DEF AwaitFresh, On, Activation, Grounded
  <2>2. Carried(stack', stack) /\ Idle(stack')
    BY <1>a, <1>4, <2>1 DEF AwaitFresh
  <2>3. /\ c \notin created /\ created' = created \cup {c} /\ emitted' = emitted
        /\ co'[c].inst = Top.state /\ \A d \in Coros \ {c} : co'[d].inst = co[d].inst
        /\ list' = [list EXCEPT ![Top.state] = @ \cup {c}]
    BY <1>4 DEF AwaitFresh, Connected, TypeOK, CoroRecord
  <2>4. CompletedOnce' /\ FreshUntold' /\ LiveOpen'
    BY <2>3 DEF OnceInv, CompletedOnce, FreshUntold, LiveOpen
  <2>5. BusyOnTop' /\ TodoUnlisted'
    BY <2>2 DEF Idle, BusyOnTop, TodoUnlisted, Busy
  <2>6. ClaimsDisjoint'
    BY <2>2 DEF OnceInv, ClaimsDisjoint, Carried
  <2>7. ClaimsOpen'
    <3> SUFFICES ASSUME NEW i \in 1..Len(stack'), NEW d \in Claims(stack'[i])
                 PROVE  /\ emitted'[d] = 0
                        /\ d \in created'
                        /\ co'[d].inst # None => d \in stack'[i].todo
      BY DEF ClaimsOpen
    <3>1. /\ i \in 1..Len(stack)
          /\ d \in Claims(stack[i])
          /\ stack'[i].todo = stack[i].todo
      BY <2>2 DEF Carried
    <3>2. d \in created /\ d \in Coros /\ d # c
      BY <2>3, <3>1 DEF OnceInv, ClaimsOpen, TypeOK
    <3> QED BY <2>3, <3>1, <3>2 DEF OnceInv, ClaimsOpen
  <2>8. ListedOpen'
    <3> SUFFICES ASSUME NEW s \in States, NEW d \in list'[s]
                 PROVE  emitted'[d] = 0 /\ d \in created' /\ co'[d].inst = s
      BY DEF ListedOpen
    <3>1. CASE d = c
      <4>1. c \notin list[s]
        BY <2>3 DEF OnceInv, ListedOpen
      <4>2. s = Top.state
        BY <2>3, <3>1, <4>1 DEF TypeOK
      <4> QED BY <2>3, <3>1, <4>2 DEF OnceInv, FreshUntold
    <3>2. CASE d # c
      <4>1. d \in list[s] /\ d \in Coros
        BY <2>3, <3>2 DEF TypeOK
      <4> QED BY <2>1, <2>3, <3>2, <4>1 DEF OnceInv, ListedOpen
    <3> QED BY <3>1, <3>2
  <2> QED BY <2>4, <2>5, <2>6, <2>7, <2>8 DEF OnceInv
<1>5. CASE Reconnect
  <2>1. stack # <<>> /\ ~On("settle") /\ Top.state \in States
    BY <1>0, <1>5 DEF Reconnect, On, Activation, Grounded
  <2>2. Carried(stack', stack) /\ Idle(stack')
    BY <1>a, <1>5, <2>1 DEF Reconnect
  <2>3. \A c \in Coros : co'[c].inst = co[c].inst
    BY <1>5 DEF Reconnect, Connected, TypeOK, CoroRecord
  <2> QED BY <1>5, <2>1, <2>2, <2>3, QuietStep DEF Reconnect
<1>6. ASSUME NEW ok \in BOOLEAN, ResumedCompletes(ok) PROVE OnceInv'
  <2>1. Top.co \in Coros /\ Top.state \in States /\ stack # <<>> /\ ~On("settle")
        /\ Top.kind = "body"
    BY <1>0, <1>6 DEF ResumedCompletes, On, Activation, FrameRecord, Grounded
  <2>2. Lock(Top.co) = Top.state /\ Lock(Top.co) # None
    BY <1>6, <2>1, Distinct DEF ResumedCompletes, StillMine
  <2>3. stack' = Append(Below, SettleFrame(Lock(Top.co), Top.co))
    BY <1>6, <2>2 DEF ResumedCompletes, MaybeHook
  <2>4. Idle(stack)
    BY <1>0, <2>1, IdleKinds DEF Idle, Top, OnceInv, BusyOnTop
  <2>5. co'[Top.co].inst = None /\ \A d \in Coros \ {Top.co} : co'[d].inst = co[d].inst
    <3>1. Ended(ok) \in CoroRecord
      BY <2>1, EndedType DEF TypeOK
    <3>2. Detached(Ended(ok)).inst = None
      BY <3>1 DEF Detached, Disconnected, CoroRecord
    <3> QED BY <1>6, <2>1, <3>2 DEF ResumedCompletes, TypeOK
  <2> QED BY <1>0, <1>6, <2>1, <2>2, <2>3, <2>4, <2>5, SettlingStep DEF ResumedCompletes
<1>7. ASSUME NEW ok \in BOOLEAN, ResumedWasCancelled(ok) PROVE OnceInv'
  <2>1. Top.co \in Coros /\ Top.state \in States /\ stack # <<>> /\ ~On("settle")
    BY <1>0, <1>7 DEF ResumedWasCancelled, On, Activation, FrameRecord, Grounded
  <2>2. Carried(stack', stack) /\ Idle(stack')
    BY <1>a, <1>7, <2>1 DEF ResumedWasCancelled
  <2>3. \A c \in Coros : co'[c].inst = co[c].inst
    <3>1. Ended(ok).inst = co[Top.co].inst
      BY <2>1 DEF Ended, TypeOK, CoroRecord
    <3> QED BY <1>7, <2>1, <3>1 DEF ResumedWasCancelled, TypeOK
  <2> QED BY <1>7, <2>1, <2>2, <2>3, QuietStep DEF ResumedWasCancelled
<1> QED BY <1>1, <1>2, <1>3, <1>4, <1>5, <1>6, <1>7 DEF ScriptEnd

LEMMA OnceEmission ==
  ASSUME TypeOK, OnceInv, TypeOK', Emission, ~DropHooks
  PROVE  OnceInv'
<1>0. stack # <<>> => /\ Below \in Seq(Activation) /\ Idle(Below) /\ Carried(Below, stack)
                      /\ Top \in Activation
  BY BelowKept, TopGood DEF TypeOK
<1>1. ASSUME NEW x, On("emit")
      PROVE  Called(x) \in Seq(Activation) /\ Idle(Called(x)) /\ Carried(Called(x), stack)
  <2> DEFINE f == [Top EXCEPT !.todo = @ \ {x}]
  <2>1. f \in Activation /\ f.kind = "emit"
    BY <1>0, <1>1 DEF On, Activation, FrameRecord, Grounded
  <2>2. Called(x) = Append(Below, f) /\ stack # <<>>
    BY <1>1 DEF Called, On
  <2> HIDE DEF f
  <2> QED BY <1>0, <2>1, <2>2, IdleKinds, PushKept
<1>2. On("emit") => ~On("settle") /\ Idle(stack)
  BY IdleKinds DEF On, Idle, Top, OnceInv, BusyOnTop
<1>3. CASE CallListener
  <2>1. On("emit") /\ stack' = Append(Called(Listener), ScriptFrame)
    BY <1>3 DEF CallListener
  <2>2. Carried(stack', stack) /\ Idle(stack')
    BY <1>1, <2>1, FramesGood, NewFrames, PushKept
  <2> QED BY <1>2, <1>3, <2>1, <2>2, QuietStep DEF CallListener
<1>4. ASSUME NEW c \in Coros, CallRetired(c) PROVE OnceInv'
  BY <1>1, <1>2, <1>4, QuietStep DEF CallRetired
<1>5. ASSUME NEW c \in Coros, CallOrphan(c) PROVE OnceInv'
  <2>1. /\ On("emit") /\ Lock(c) # None
        /\ stack' = Append(Called(c), SettleFrame(Lock(c), c))
    BY <1>5 DEF CallOrphan, IgnoresResume, MaybeHook
  <2>2. co'[c].inst = None /\ \A d \in Coros \ {c} : co'[d].inst = co[d].inst
    BY <1>5 DEF CallOrphan, TypeOK, CoroRecord, Detached, Disconnected
  <2> QED BY <1>1, <1>2, <1>5, <2>1, <2>2, SettlingStep DEF CallOrphan
<1>6. ASSUME NEW c \in Coros, Resume(c) PROVE OnceInv'
  <2>1. On("emit") /\ stack' = Append(Called(c), BodyFrame(Lock(c), c)) /\ Lock(c) \in States
    BY <1>6, LockType DEF Resume, IgnoresResume
  <2>2. Carried(stack', stack) /\ Idle(stack')
    BY <1>1, <2>1, FramesGood, NewFrames, PushKept
  <2>3. \A d \in Coros : co'[d].inst = co[d].inst
    BY <1>6 DEF Resume, Resuming, Disconnected, TypeOK, CoroRecord
  <2> QED BY <1>2, <1>6, <2>1, <2>2, <2>3, QuietStep DEF Resume
<1>7. CASE EmissionEnds
  <2>1. CASE Top.state = None
    BY <1>0, <1>2, <1>7, <2>1, QuietStep DEF EmissionEnds, On
  <2>2. CASE Top.state # None
    <3>1. /\ Top.state \in States /\ stack # <<>>
          /\ stack' = Append(Below, LeaveFrame(Top.state))
      BY <1>0, <1>7, <2>2 DEF EmissionEnds, On, Activation, FrameRecord
    <3>2. Carried(stack', stack) /\ Idle(stack')
      BY <1>0, <3>1, FramesGood, NewFrames, PushKept
    <3> QED BY <1>2, <1>7, <3>2, QuietStep DEF EmissionEnds
  <2> QED BY <2>1, <2>2
<1> QED BY <1>3, <1>4, <1>5, <1>6, <1>7 DEF Emission

\* retire() erases the coroutine and announces its completion.
LEMMA SettleStep ==
  ASSUME TypeOK, OnceInv, TypeOK', Settle
  PROVE  OnceInv'
<1> DEFINE c == Top.co
           f == Frame("emit", Top.state, None, c, Slots(c), FALSE)
<1>0. /\ Below \in Seq(Activation) /\ Idle(Below) /\ Carried(Below, stack)
      /\ Len(Below) = Len(stack) - 1 /\ Len(stack) \in Nat \ {0}
      /\ \A i \in 1..Len(Below) : Below[i] = stack[i]
      /\ Top \in Activation /\ Top.kind = "settle" /\ stack # <<>>
  BY BelowKept, TopGood DEF TypeOK, Settle, On
<1>1. c \in Coros /\ Top.state \in States /\ Claims(Top) = {c}
  BY <1>0 DEF Activation, Grounded, Claims
<1>2. f \in Activation /\ Claims(f) = {} /\ ~Busy(f)
  BY <1>1, FramesGood, NewFrames
<1>3. /\ stack' = Append(Below, f)
      /\ list' = [list EXCEPT ![Top.state] = @ \ {c}]
      /\ emitted' = [emitted EXCEPT ![c] = @ + 1]
      /\ created' = created
  BY DEF Settle
<1>4. \A d \in Coros : co'[d].inst = co[d].inst
  BY DEF Settle, Emitting, TypeOK, CoroRecord
<1> HIDE DEF f
<1>5. Carried(stack', stack) /\ Idle(stack') /\ Carried(stack', Below)
  <2>1. Carried(stack', stack) /\ Idle(stack')
    BY <1>0, <1>2, <1>3, PushKept
  <2>2. /\ Len(stack') = Len(Below) + 1
        /\ \A i \in 1..Len(Below) : stack'[i] = Below[i]
        /\ stack'[Len(Below) + 1] = f
    BY <1>0, <1>2, <1>3, AppendProperties
  <2>3. \A i \in 1..Len(stack') : i \in 1..Len(Below) \/ i = Len(Below) + 1
    BY <1>0, <2>2
  <2> QED BY <1>2, <2>1, <2>2, <2>3 DEF Carried
<1>6. Len(stack) \in 1..Len(stack) /\ stack[Len(stack)] = Top
  BY <1>0 DEF Top
<1>7. emitted[c] = 0 /\ c \in created /\ co[c].inst = None
  <2>1. Claims(stack[Len(stack)]) = {c} /\ stack[Len(stack)].kind = "settle"
    BY <1>0, <1>1, <1>6
  <2>2. emitted[c] = 0 /\ c \in created /\ (co[c].inst # None => c \in Top.todo)
    BY <1>6, <2>1 DEF OnceInv, ClaimsOpen
  <2>3. Top.todo = {}
    BY <1>0 DEF Activation, Grounded
  <2> QED BY <2>2, <2>3
<1>8. \A i \in 1..Len(Below) : c \notin Claims(Below[i])
  BY <1>0, <1>1, <1>6 DEF OnceInv, ClaimsDisjoint
<1>9. /\ emitted'[c] = 1
      /\ \A d \in Coros \ {c} : emitted'[d] = emitted[d]
  BY <1>1, <1>3, <1>7 DEF TypeOK
<1>10. CompletedOnce' /\ FreshUntold' /\ LiveOpen'
  BY <1>1, <1>3, <1>4, <1>7, <1>9 DEF OnceInv, CompletedOnce, FreshUntold, LiveOpen
<1>11. BusyOnTop' /\ TodoUnlisted' /\ ClaimsDisjoint'
  BY <1>5, SMTT(30) DEF Idle, Busy, BusyOnTop, TodoUnlisted, ClaimsDisjoint, Carried, OnceInv
<1>12. ClaimsOpen'
  <2> SUFFICES ASSUME NEW i \in 1..Len(stack'), NEW d \in Claims(stack'[i])
               PROVE  /\ emitted'[d] = 0
                      /\ d \in created'
                      /\ co'[d].inst # None => d \in stack'[i].todo
    BY DEF ClaimsOpen
  <2>1. /\ i \in 1..Len(Below) /\ d \in Claims(Below[i])
        /\ i \in 1..Len(stack) /\ d \in Claims(stack[i])
        /\ stack'[i].todo = stack[i].todo
    BY <1>0, <1>5 DEF Carried
  <2>2. d # c /\ d \in Coros
    BY <1>8, <2>1 DEF OnceInv, ClaimsOpen, TypeOK
  <2> QED BY <1>3, <1>4, <1>9, <2>1, <2>2 DEF OnceInv, ClaimsOpen
<1>13. ListedOpen'
  <2> SUFFICES ASSUME NEW s \in States, NEW d \in list'[s]
               PROVE  emitted'[d] = 0 /\ d \in created' /\ co'[d].inst = s
    BY DEF ListedOpen
  <2>1. d \in list[s] /\ (s = Top.state => d # c) /\ d \in Coros
    BY <1>1, <1>3 DEF TypeOK
  <2>2. d # c
    BY <1>7, <2>1, Distinct DEF OnceInv, ListedOpen
  <2> QED BY <1>3, <1>4, <1>9, <2>1, <2>2 DEF OnceInv, ListedOpen
<1> QED BY <1>10, <1>11, <1>12, <1>13 DEF OnceInv

\* One turn of the detach loop: what its activation owes stays the same.
LEMMA DetachStep ==
  ASSUME TypeOK, OnceInv, TypeOK', NEW c \in Coros, Detach(c), ~DropHooks
  PROVE  OnceInv'
<1> DEFINE f == [Top EXCEPT !.todo = @ \ {c}, !.due = Owed(Top, c)]
           n == Len(stack)
<1>0. /\ Below \in Seq(Activation) /\ Idle(Below)
      /\ Len(Below) = n - 1 /\ n \in Nat \ {0}
      /\ \A i \in 1..Len(Below) : Below[i] = stack[i]
      /\ Top \in Activation /\ Top.kind \in {"cancel", "silence"}
      /\ stack # <<>> /\ c \in Top.todo
  BY BelowKept, TopGood DEF TypeOK, Detach, On
<1>1. Owed(Top, c) \in SUBSET Coros
  BY <1>0 DEF Owed, Activation, FrameRecord
<1>2. /\ f \in Activation /\ f.kind = Top.kind
      /\ f.todo = Top.todo \ {c} /\ f.due = Owed(Top, c)
  BY <1>0, <1>1 DEF Activation, FrameRecord, Grounded
<1>3. Claims(f) = Claims(Top)
  <2>1. CASE Top.kind = "silence"
    BY <1>2, <2>1 DEF Claims
  <2>2. CASE Top.kind = "cancel"
    <3>1. Claims(f) = (Top.todo \ {c}) \cup (Top.due \cup {c})
      BY <1>2, <2>2 DEF Claims, Owed
    <3>2. Claims(Top) = Top.todo \cup Top.due
      BY <2>2 DEF Claims
    <3>3. (Top.todo \ {c}) \cup (Top.due \cup {c}) = Top.todo \cup Top.due
      BY <1>0
    <3> QED BY <3>1, <3>2, <3>3
  <2> QED BY <1>0, <2>1, <2>2
<1>4. /\ stack' = Append(Below, f)
      /\ created' = created /\ emitted' = emitted /\ list' = list
  BY DEF Detach, MaybeHook
<1>5. co'[c].inst = None /\ \A d \in Coros \ {c} : co'[d].inst = co[d].inst
  BY DEF Detach, TypeOK, CoroRecord, Detached, Disconnected
<1> HIDE DEF f
<1>6. /\ Len(stack') = n
      /\ \A i \in 1..(n - 1) : stack'[i] = stack[i]
      /\ stack'[n] = f /\ stack[n] = Top
      /\ \A i \in 1..n : i \in 1..(n - 1) \/ i = n
  BY <1>0, <1>2, <1>4, AppendProperties DEF Top
<1>7. \A i \in 1..n : Claims(stack'[i]) = Claims(stack[i])
  BY <1>3, <1>6
<1>8. CompletedOnce' /\ FreshUntold' /\ LiveOpen'
  BY <1>4, <1>5 DEF OnceInv, CompletedOnce, FreshUntold, LiveOpen
<1>9. BusyOnTop'
  BY <1>0, <1>6 DEF BusyOnTop, Idle
<1>10. \A s \in States : f.todo \cap list[s] = {} /\ c \notin list[s]
  <2>1. n \in 1..Len(stack)
    BY <1>0
  <2> QED BY <1>0, <1>2, <1>6, <2>1 DEF OnceInv, TodoUnlisted
<1>11. TodoUnlisted'
  <2>1. \A i \in 1..(n - 1) : ~Busy(stack'[i])
    BY <1>0, <1>6 DEF Idle
  <2> QED BY <1>4, <1>6, <1>10, <2>1 DEF TodoUnlisted, Busy
<1>12. ClaimsDisjoint'
  BY <1>6, <1>7 DEF OnceInv, ClaimsDisjoint
<1>13. ClaimsOpen'
  <2> SUFFICES ASSUME NEW i \in 1..n, NEW d \in Claims(stack'[i])
               PROVE  /\ emitted[d] = 0
                      /\ d \in created
                      /\ co'[d].inst # None => d \in stack'[i].todo
    BY <1>4, <1>6 DEF ClaimsOpen
  <2>1. /\ d \in Claims(stack[i]) /\ emitted[d] = 0 /\ d \in created
        /\ co[d].inst # None => d \in stack[i].todo
    BY <1>7 DEF OnceInv, ClaimsOpen
  <2>2. d \in Coros
    BY <2>1 DEF TypeOK
  <2>3. CASE d = c
    BY <1>5, <2>1, <2>3
  <2>4. CASE d # c
    BY <1>2, <1>5, <1>6, <2>1, <2>2, <2>4
  <2> QED BY <2>3, <2>4
<1>14. ListedOpen'
  <2> SUFFICES ASSUME NEW s \in States, NEW d \in list[s]
               PROVE  emitted[d] = 0 /\ d \in created /\ co'[d].inst = s
    BY <1>4 DEF ListedOpen
  <2>1. d \in Coros /\ d # c
    BY <1>10 DEF TypeOK
  <2>2. ~On("settle")
    BY <1>0 DEF On
  <2> QED BY <1>5, <2>1, <2>2 DEF OnceInv, ListedOpen
<1> QED BY <1>8, <1>9, <1>11, <1>12, <1>13, <1>14 DEF OnceInv

\* One turn of the notify loop: the completion announced is no longer owed.
LEMMA NotifyStep ==
  ASSUME TypeOK, OnceInv, TypeOK', NEW c \in Coros, Notify(c)
  PROVE  OnceInv'
<1> DEFINE f == [Top EXCEPT !.due = @ \ {c}]
           e == Frame("emit", None, None, c, Slots(c), FALSE)
           n == Len(stack)
<1>0. /\ Below \in Seq(Activation) /\ Idle(Below)
      /\ Len(Below) = n - 1 /\ n \in Nat \ {0}
      /\ \A i \in 1..Len(Below) : Below[i] = stack[i]
      /\ Top \in Activation /\ Top.kind = "cancel" /\ stack # <<>>
      /\ Top.todo = {} /\ c \in Top.due
  BY BelowKept, TopGood DEF TypeOK, Notify, NotifyReady, On
<1>1. /\ f \in Activation /\ f.kind = "cancel"
      /\ f.todo = {} /\ f.due = Top.due \ {c}
  BY <1>0 DEF Activation, FrameRecord, Grounded
<1>2. e \in Activation /\ Claims(e) = {} /\ ~Busy(e)
  BY FramesGood, NewFrames
<1>3. /\ stack' = Append(Append(Below, f), e)
      /\ created' = created /\ list' = list
      /\ emitted' = [emitted EXCEPT ![c] = @ + 1]
  BY DEF Notify
<1>4. \A d \in Coros : co'[d].inst = co[d].inst
  BY DEF Notify, Emitting, TypeOK, CoroRecord
<1>5. Claims(f) = Claims(Top) \ {c} /\ ~Busy(f) /\ c \in Claims(Top) /\ f.todo = Top.todo
  BY <1>0, <1>1 DEF Claims, Busy
<1> HIDE DEF f, e
<1>6. Append(Below, f) \in Seq(Activation) /\ Len(Append(Below, f)) = n
      /\ \A i \in 1..(n - 1) : Append(Below, f)[i] = stack[i]
      /\ Append(Below, f)[n] = f
  BY <1>0, <1>1, AppendProperties
<1>7. /\ Len(stack') = n + 1
      /\ \A i \in 1..(n - 1) : stack'[i] = stack[i]
      /\ stack'[n] = f /\ stack[n] = Top /\ stack'[n + 1] = e
      /\ \A i \in 1..(n + 1) : i \in 1..(n - 1) \/ i = n \/ i = n + 1
      /\ n \in 1..n
  <2>1. /\ Len(stack') = n + 1
        /\ \A i \in 1..n : stack'[i] = Append(Below, f)[i]
        /\ stack'[n + 1] = e
    BY <1>2, <1>3, <1>6, AppendProperties
  <2> QED BY <1>0, <1>6, <2>1 DEF Top
<1>8. emitted[c] = 0 /\ c \in created /\ co[c].inst = None
  BY <1>0, <1>5, <1>7 DEF OnceInv, ClaimsOpen
<1>9. emitted'[c] = 1 /\ \A d \in Coros \ {c} : emitted'[d] = emitted[d]
  BY <1>3, <1>8 DEF TypeOK
<1>10. \A i \in 1..(n + 1) : \A d \in Claims(stack'[i]) :
         /\ i \in 1..n /\ d \in Claims(stack[i]) /\ d # c
         /\ stack'[i].todo = stack[i].todo
  <2> SUFFICES ASSUME NEW i \in 1..(n + 1), NEW d \in Claims(stack'[i])
               PROVE  /\ i \in 1..n /\ d \in Claims(stack[i]) /\ d # c
                      /\ stack'[i].todo = stack[i].todo
    OBVIOUS
  <2>1. CASE i = n
    BY <1>5, <1>7, <2>1
  <2>2. CASE i = n + 1
    BY <1>2, <1>7, <2>2
  <2>3. CASE i \in 1..(n - 1)
    <3>1. i \in 1..n /\ i # n /\ stack'[i] = stack[i]
      BY <1>0, <1>7, <2>3
    <3>2. c \notin Claims(stack[i])
      BY <1>5, <1>7, <3>1 DEF OnceInv, ClaimsDisjoint
    <3> QED BY <3>1, <3>2
  <2> QED BY <1>7, <2>1, <2>2, <2>3
<1>11. CompletedOnce' /\ FreshUntold' /\ LiveOpen'
  BY <1>3, <1>4, <1>8, <1>9 DEF OnceInv, CompletedOnce, FreshUntold, LiveOpen
<1>12. \A i \in 1..(n + 1) : ~Busy(stack'[i])
  BY <1>0, <1>2, <1>5, <1>7 DEF Idle
<1>13. BusyOnTop' /\ TodoUnlisted'
  BY <1>7, <1>12 DEF BusyOnTop, TodoUnlisted, Busy
<1>14. ClaimsDisjoint'
  BY <1>7, <1>10 DEF OnceInv, ClaimsDisjoint
<1>15. ClaimsOpen'
  <2> SUFFICES ASSUME NEW i \in 1..(n + 1), NEW d \in Claims(stack'[i])
               PROVE  /\ emitted'[d] = 0
                      /\ d \in created
                      /\ co'[d].inst # None => d \in stack'[i].todo
    BY <1>3, <1>7 DEF ClaimsOpen
  <2>1. /\ i \in 1..n /\ d \in Claims(stack[i]) /\ d # c
        /\ stack'[i].todo = stack[i].todo
    BY <1>10
  <2>2. d \in Coros
    BY <2>1 DEF OnceInv, ClaimsOpen, TypeOK
  <2> QED BY <1>4, <1>9, <2>1, <2>2 DEF OnceInv, ClaimsOpen
<1>16. ListedOpen'
  <2> SUFFICES ASSUME NEW s \in States, NEW d \in list[s]
               PROVE  emitted'[d] = 0 /\ d \in created /\ co'[d].inst = s
    BY <1>3 DEF ListedOpen
  <2>1. ~On("settle")
    BY <1>0 DEF On
  <2>2. d \in Coros /\ co[d].inst = s /\ emitted[d] = 0 /\ d \in created
    BY <2>1 DEF OnceInv, ListedOpen, TypeOK
  <2>3. d # c
    BY <1>8, <2>2, Distinct
  <2> QED BY <1>4, <1>9, <2>2, <2>3
<1> QED BY <1>11, <1>13, <1>14, <1>15, <1>16 DEF OnceInv

LEMMA OnceRuntime ==
  ASSUME TypeOK, OnceInv, TypeOK', Runtime, ~DropHooks
  PROVE  OnceInv'
<1>0. stack # <<>> => /\ Below \in Seq(Activation) /\ Idle(Below) /\ Carried(Below, stack)
                      /\ Top \in Activation
  BY BelowKept, TopGood DEF TypeOK
<1>1. CASE CancelEnds
  <2>1. stack # <<>> /\ ~On("settle") /\ Top.state \in States
    BY <1>0, <1>1 DEF CancelEnds, On, Activation, Grounded
  <2>2. Carried(stack', stack) /\ Idle(stack')
    BY <1>0, <1>1, <2>1, FramesGood, NewFrames, PushKept DEF CancelEnds
  <2> QED BY <1>1, <2>1, <2>2, QuietStep DEF CancelEnds
<1>2. CASE Keep
  <2>1. ~On("settle") /\ stack # <<>>
    BY <1>2 DEF Keep, On
  <2> QED BY <1>0, <1>2, <2>1, QuietStep DEF Keep
<1>3. CASE Destroy
  <2>1. ~On("settle") /\ stack # <<>> /\ Top.state \in States
    BY <1>3 DEF Destroy, On, LastRef
  <2> QED BY <1>0, <1>3, <2>1, SilenceStep DEF Destroy
<1> QED BY <1>1, <1>2, <1>3, SettleStep, DetachStep, NotifyStep DEF Runtime

LEMMA OnceCorrect == ASSUME ~DropHooks PROVE Spec => []OnceInv
<1>1. TypeOK /\ TypeOK' /\ OnceInv /\ [Next]_vars => OnceInv'
  <2> SUFFICES ASSUME TypeOK, TypeOK', OnceInv, [Next]_vars PROVE OnceInv'
    OBVIOUS
  <2>1. CASE UNCHANGED vars
    BY <2>1 DEF vars, OnceInv, CompletedOnce, BusyOnTop, ClaimsDisjoint, ClaimsOpen,
                ListedOpen, LiveOpen, FreshUntold, TodoUnlisted, On, Top
  <2> QED BY <2>1, OnceScriptOp, OnceScriptEnd, OnceEmission, OnceRuntime DEF Next
<1> QED BY TypeCorrect, OnceInit, <1>1, PTL DEF Spec

\* Completion, cancellation, failure and replacement of the runtime announce
\* a coroutine's completion at most once, however deeply signal handlers nest,
\* as long as destroying a saved local runs no script.
THEOREM CompletesOnce == ASSUME ~DropHooks PROVE Spec => []CompletedOnce
<1>1. OnceInv => CompletedOnce
  BY DEF OnceInv
<1> QED BY OnceCorrect, <1>1, PTL

-----------------------------------------------------------------------------
(* What is left of a coroutine that ended.                                   *)

\* A body inside suspend(), and a detach loop that has coroutines left: no script
\* runs above either, as long as destroying a saved local runs none.
Suspends(v) == v.kind = "body" /\ v.sig # None
Rests(v) == ~Suspends(v) /\ (Detaching(v) => v.todo = {})

RestsBelow == \A i \in Nat : ~Rests(At(stack, i)) => i = Len(stack)
SuspendsLive == \A i \in Nat :
  Suspends(At(stack, i)) => co[At(stack, i).co].inst # None
TodoOpen == \A i \in Nat :
  Detaching(At(stack, i)) => \A c \in At(stack, i).todo : emitted[c] = 0

RestInv == RestsBelow /\ SuspendsLive /\ TodoOpen

LEMMA RestsView == \A f : Rests(View(f)) <=> Rests(f)
<1>1. ASSUME NEW f PROVE Rests(View(f)) <=> Rests(f)
  BY Seen DEF Rests, Suspends, Detaching
<1> QED BY <1>1

LEMMA AllRest ==
  ASSUME \A i \in Nat : Rests(At(stack', i))
  PROVE  RestInv'
BY DEF RestInv, RestsBelow, SuspendsLive, TodoOpen, Rests

LEMMA RestsBlank == Rests(Blank) /\ Rests(ScriptFrame)
BY BlankView DEF Rests, Suspends, Detaching, ScriptFrame, Frame

\* Script has control only while every activation rests.
LEMMA ActsAtRest ==
  ASSUME TypeOK, RestInv, CanAct
  PROVE  \A i \in Nat : Rests(At(stack, i))
<1>1. CASE stack = <<>>
  BY <1>1, RestsBlank DEF At
<1>2. CASE stack # <<>>
  <2>1. At(stack, Len(stack)) = View(Top) /\ Rests(Top)
    BY <1>2, ViewTop DEF TypeOK, CanAct, InScript, Rests, Suspends, Detaching
  <2> QED BY <2>1, RestsView DEF RestInv, RestsBelow
<1> QED BY <1>1, <1>2

LEMMA RestPush ==
  ASSUME TypeOK, RestInv, CanAct, NEW f, Leaves(Append(Spent, f)), Rests(f)
  PROVE  RestInv'
<1>1. \A i \in Nat : At(stack', i) = IF i = Len(stack) + 1 THEN View(f) ELSE At(stack, i)
  BY SeePush DEF Becomes
<1> QED BY <1>1, ActsAtRest, RestsView, AllRest

LEMMA RestSpent ==
  ASSUME TypeOK, RestInv, CanAct, stack' = Spent
  PROVE  RestInv'
BY SeeSpent, ActsAtRest, AllRest

LEMMA RestTop ==
  ASSUME TypeOK, RestInv, stack # <<>>, NEW f, Leaves(Append(Below, f)), Rests(f)
  PROVE  RestInv'
<1>1. \A i \in Nat : At(stack', i) = IF i = Len(stack) THEN View(f) ELSE At(stack, i)
  BY SeeTop DEF Becomes
<1>2. \A i \in Nat : i # Len(stack) => Rests(At(stack, i))
  BY DEF RestInv, RestsBelow
<1> QED BY <1>1, <1>2, RestsView, AllRest

LEMMA RestPop ==
  ASSUME TypeOK, RestInv, stack # <<>>, stack' = Below
  PROVE  RestInv'
<1>1. \A i \in Nat : At(stack', i) = IF i = Len(stack) THEN Blank ELSE At(stack, i)
  BY SeePop DEF Becomes
<1>2. \A i \in Nat : i # Len(stack) => Rests(At(stack, i))
  BY DEF RestInv, RestsBelow
<1> QED BY <1>1, <1>2, RestsBlank, AllRest

LEMMA RestBoth ==
  ASSUME TypeOK, RestInv, stack # <<>>, NEW f, NEW g, Leaves(Append(Append(Below, g), f)),
         Rests(f), Rests(g)
  PROVE  RestInv'
<1>1. \A i \in Nat : At(stack', i) = IF i = Len(stack) + 1 THEN View(f)
                                     ELSE IF i = Len(stack) THEN View(g) ELSE At(stack, i)
  BY SeeBoth
<1>2. \A i \in Nat : i # Len(stack) => Rests(At(stack, i))
  BY DEF RestInv, RestsBelow
<1> QED BY <1>1, <1>2, RestsView, AllRest

\* An activation above which nothing may run is put on a stack that rests.
LEMMA RestStirs ==
  ASSUME TypeOK, RestInv, NEW q, NEW f, stack' = Append(q, f),
         \/ q = Spent /\ CanAct
         \/ q = Below /\ stack # <<>>,
         Suspends(f) => co'[f.co].inst # None,
         Detaching(f) => \A c \in f.todo : emitted'[c] = 0
  PROVE  RestInv'
<1>1. \A i \in Nat : At(stack', i) = IF i = Len(stack') THEN View(f) ELSE At(stack, i)
  <2>1. CASE q = Spent /\ CanAct
    <3>1. Len(stack') = Len(stack) + 1
      BY <2>1, ViewSpent, AppendProperties DEF TypeOK
    <3> QED BY <2>1, <3>1, SeePush DEF Becomes, Leaves
  <2>2. CASE q = Below /\ stack # <<>>
    <3>1. Len(stack') = Len(stack)
      BY <2>2, ViewBelow DEF TypeOK
    <3> QED BY <2>2, <3>1, SeeTop DEF Becomes, Leaves
  <2> QED BY <2>1, <2>2
<1>2. \A i \in Nat : i # Len(stack') => Rests(At(stack, i))
  <2>1. CASE q = Spent /\ CanAct
    BY <2>1, ActsAtRest
  <2>2. CASE q = Below /\ stack # <<>>
    <3>1. Len(stack') = Len(stack)
      BY <2>2, ViewBelow DEF TypeOK
    <3> QED BY <3>1 DEF RestInv, RestsBelow
  <2> QED BY <2>1, <2>2
<1>3. RestsBelow'
  BY <1>1, <1>2 DEF RestsBelow
<1>4. SuspendsLive'
  <2>1. ASSUME NEW i \in Nat, Suspends(At(stack', i))
        PROVE  co'[At(stack', i).co].inst # None
    <3>1. At(stack', i) = View(f)
      BY <1>1, <1>2, <2>1 DEF Rests
    <3> QED BY <2>1, <3>1, Seen DEF Suspends
  <2> QED BY <2>1 DEF SuspendsLive
<1>5. TodoOpen'
  <2>1. ASSUME NEW i \in Nat, Detaching(At(stack', i)), NEW c \in At(stack', i).todo
        PROVE  emitted'[c] = 0
    <3>1. At(stack', i) = View(f)
      BY <1>1, <1>2, <2>1 DEF Rests
    <3> QED BY <2>1, <3>1, Seen DEF Detaching
  <2> QED BY <2>1 DEF TodoOpen
<1> QED BY <1>3, <1>4, <1>5 DEF RestInv

LEMMA RestFrames ==
  /\ \A s, c : Rests(SettleFrame(s, c))
  /\ \A s, c : Rests(BodyFrame(s, c))
  /\ \A s : Rests(LeaveFrame(s))
  /\ \A s, g, d : Rests(Frame("emit", s, None, g, d, FALSE))
BY DEF SettleFrame, BodyFrame, LeaveFrame, Frame, Rests, Suspends, Detaching

LEMMA RestBegins ==
  ASSUME TypeOK, OnceInv, RestInv, NEW s \in States, NEW kind \in {"cancel", "silence"}, NEW q,
         BeginCancel(q, s, kind), emitted' = emitted,
         \/ q = Spent /\ CanAct
         \/ q = Below /\ stack # <<>>
  PROVE  RestInv'
<1> DEFINE f == Frame(kind, s, None, None, list[s], cancelling[s])
<1>1. f.kind = kind /\ f.todo = list[s] /\ stack' = Append(q, f)
  BY DEF Frame, BeginCancel
<1>2. \A c \in list[s] : emitted[c] = 0
  BY DEF OnceInv, ListedOpen
<1> HIDE DEF f
<1> QED BY <1>1, <1>2, RestStirs DEF Suspends

LEMMA RestScriptOp ==
  ASSUME TypeOK, OnceInv, RestInv, ScriptOp
  PROVE  RestInv'
<1>1. ASSUME NEW g \in Signals, EmitSignal(g) PROVE RestInv'
  BY <1>1, RestFrames, RestPush DEF EmitSignal, Leaves
<1>2. ASSUME NEW g \in Signals, FreeSource(g) PROVE RestInv'
  BY <1>2, RestSpent DEF FreeSource
<1>3. ASSUME NEW c \in Coros, Cancel(c) PROVE RestInv'
  BY <1>3, RestFrames, RestPush DEF Cancel, Leaves
<1>4. ASSUME NEW s \in States, CallFunction(s) PROVE RestInv'
  BY <1>4, RestFrames, RestPush DEF CallFunction, Leaves
<1>5. ASSUME NEW s \in States, Replace(s) \/ Teardown(s) PROVE RestInv'
  BY <1>5, RestBegins DEF Replace, Teardown
<1>6. ASSUME NEW s \in States, Drop(s) PROVE RestInv'
  BY <1>6, RestFrames, RestPush DEF Drop, Leaves
<1>7. ASSUME NEW s \in States, FreeOwner(s) PROVE RestInv'
  BY <1>7, RestSpent DEF FreeOwner
<1> QED BY <1>1, <1>2, <1>3, <1>4, <1>5, <1>6, <1>7 DEF ScriptOp

LEMMA RestScriptEnd ==
  ASSUME TypeOK, RestInv, ScriptEnd, ~DropHooks
  PROVE  RestInv'
<1>0. stack # <<>> => Top \in Activation
  BY TopGood DEF TypeOK
<1>1. CASE ListenerReturns
  BY <1>1, RestPop DEF ListenerReturns, On
<1>2. CASE CallReturns
  BY <1>2, RestFrames, RestTop DEF CallReturns, On, Leaves
<1>3. ASSUME NEW g \in Signals \cup Coros, AwaitAgain(g) PROVE RestInv'
  <2> DEFINE f == [Top EXCEPT !.sig = g]
  <2>1. /\ stack # <<>> /\ Top.kind = "body" /\ Top.co \in Coros /\ Lock(Top.co) = Top.state
        /\ stack' = Append(Below, f)
        /\ co' = [co EXCEPT ![Top.co] = [Disconnected(co[Top.co]) EXCEPT !.saved = TRUE]]
    BY <1>0, <1>3 DEF AwaitAgain, On, MaySuspend, MaybeHook, Activation, FrameRecord
  <2>2. f.kind = "body" /\ f.co = Top.co /\ Top.state \in States
    BY <1>0, <2>1 DEF Activation, FrameRecord, Grounded
  <2>3. co[Top.co].inst # None
    BY <2>1, <2>2, LockType, Distinct
  <2>4. co'[Top.co].inst = co[Top.co].inst
    BY <2>1 DEF TypeOK, CoroRecord, Disconnected
  <2> HIDE DEF f
  <2> QED BY <2>1, <2>2, <2>3, <2>4, RestStirs DEF Detaching
<1>4. ASSUME NEW g \in Signals \cup Coros, NEW c \in Coros, AwaitFresh(c, g) PROVE RestInv'
  BY <1>4, RestFrames, RestTop DEF AwaitFresh, On, Leaves
<1>5. CASE Reconnect
  BY <1>5, RestFrames, RestTop DEF Reconnect, On, Leaves
<1>6. ASSUME NEW ok \in BOOLEAN, ResumedCompletes(ok) PROVE RestInv'
  BY <1>6, RestFrames, RestTop DEF ResumedCompletes, On, Leaves
<1>7. ASSUME NEW ok \in BOOLEAN, ResumedWasCancelled(ok) PROVE RestInv'
  BY <1>7, RestFrames, RestTop DEF ResumedWasCancelled, On, Leaves
<1> QED BY <1>1, <1>2, <1>3, <1>4, <1>5, <1>6, <1>7 DEF ScriptEnd

LEMMA RestEmission ==
  ASSUME TypeOK, RestInv, Emission
  PROVE  RestInv'
<1>0. stack # <<>> => Top \in Activation
  BY TopGood DEF TypeOK
<1>1. ASSUME NEW x, On("emit")
      PROVE  /\ stack # <<>> /\ Rests([Top EXCEPT !.todo = @ \ {x}])
             /\ Called(x) = Append(Below, [Top EXCEPT !.todo = @ \ {x}])
  <2>1. stack # <<>> /\ Top.kind = "emit"
    BY <1>1 DEF On
  <2>2. [Top EXCEPT !.todo = @ \ {x}].kind = "emit"
    BY <1>0, <2>1 DEF Activation, FrameRecord
  <2> QED BY <2>1, <2>2 DEF Called, Rests, Suspends, Detaching
<1>2. ASSUME On("emit"), NEW x, NEW f, Rests(f), Leaves(Append(Called(x), f))
      PROVE  RestInv'
  BY <1>1, <1>2, RestBoth
<1>3. CASE CallListener
  BY <1>2, <1>3, RestsBlank DEF CallListener, Leaves
<1>4. ASSUME NEW c \in Coros, CallRetired(c) PROVE RestInv'
  BY <1>1, <1>4, RestTop DEF CallRetired, Leaves
<1>5. ASSUME NEW c \in Coros, CallOrphan(c) PROVE RestInv'
  BY <1>2, <1>5, RestFrames DEF CallOrphan, Leaves
<1>6. ASSUME NEW c \in Coros, Resume(c) PROVE RestInv'
  BY <1>2, <1>6, RestFrames DEF Resume, Leaves
<1>7. CASE EmissionEnds
  <2>1. CASE Top.state = None
    BY <1>7, <2>1, RestPop DEF EmissionEnds, On
  <2>2. CASE Top.state # None
    BY <1>7, <2>2, RestFrames, RestTop DEF EmissionEnds, On, Leaves
  <2> QED BY <2>1, <2>2
<1> QED BY <1>3, <1>4, <1>5, <1>6, <1>7 DEF Emission

LEMMA RestRuntime ==
  ASSUME TypeOK, OnceInv, RestInv, Runtime, ~DropHooks
  PROVE  RestInv'
<1>0. stack # <<>> => Top \in Activation
  BY TopGood DEF TypeOK
<1>1. CASE Settle
  BY <1>1, RestFrames, RestTop DEF Settle, On, Leaves
<1>2. ASSUME NEW c \in Coros, Detach(c) PROVE RestInv'
  <2> DEFINE f == [Top EXCEPT !.todo = @ \ {c}, !.due = Owed(Top, c)]
  <2>1. stack # <<>> /\ Detaching(Top) /\ stack' = Append(Below, f) /\ emitted' = emitted
    BY <1>2 DEF Detach, On, Detaching, MaybeHook
  <2>2. f.kind = Top.kind /\ f.todo = Top.todo \ {c}
    BY <1>0, <2>1 DEF Activation, FrameRecord
  <2>3. \A d \in Top.todo : emitted[d] = 0
    <3>1. At(stack, Len(stack)) = View(Top) /\ Len(stack) \in Nat
      BY <2>1, ViewTop DEF TypeOK
    <3>2. Detaching(View(Top)) /\ View(Top).todo = Top.todo
      BY <2>1, Seen DEF Detaching
    <3> QED BY <3>1, <3>2 DEF RestInv, TodoOpen
  <2> HIDE DEF f
  <2> QED BY <2>1, <2>2, <2>3, RestStirs DEF Suspends, Detaching
<1>3. ASSUME NEW c \in Coros, Notify(c) PROVE RestInv'
  <2> DEFINE g == [Top EXCEPT !.due = @ \ {c}]
             f == Frame("emit", None, None, c, Slots(c), FALSE)
  <2>1. stack # <<>> /\ Top.kind = "cancel" /\ Top.todo = {} /\ Leaves(Append(Append(Below, g), f))
    BY <1>3 DEF Notify, NotifyReady, On, Leaves
  <2>2. g.kind = "cancel" /\ g.todo = {}
    BY <1>0, <2>1 DEF Activation, FrameRecord
  <2>3. Rests(f) /\ Rests(g)
    BY <2>2, RestFrames DEF Rests, Suspends
  <2> HIDE DEF f, g
  <2> QED BY <2>1, <2>3, RestBoth
<1>4. CASE CancelEnds
  BY <1>4, RestFrames, RestTop DEF CancelEnds, On, Leaves
<1>5. CASE Keep
  BY <1>5, RestPop DEF Keep, On
<1>6. CASE Destroy
  BY <1>6, RestBegins DEF Destroy, LastRef, On
<1> QED BY <1>1, <1>2, <1>3, <1>4, <1>5, <1>6 DEF Runtime

LEMMA RestInit == Init => RestInv
<1> SUFFICES ASSUME Init PROVE RestInv
  OBVIOUS
<1>1. \A i \in Nat : At(stack, i) = Blank
  BY DEF Init, At
<1>2. ~Suspends(Blank) /\ ~Detaching(Blank)
  BY BlankView DEF Suspends, Detaching
<1> QED BY <1>1, <1>2 DEF RestInv, RestsBelow, SuspendsLive, TodoOpen, Rests

LEMMA RestCorrect == ASSUME ~DropHooks PROVE Spec => []RestInv
<1>1. TypeOK /\ OnceInv /\ RestInv /\ [Next]_vars => RestInv'
  <2> SUFFICES ASSUME TypeOK, OnceInv, RestInv, [Next]_vars PROVE RestInv'
    OBVIOUS
  <2>1. CASE UNCHANGED vars
    BY <2>1 DEF vars, RestInv, RestsBelow, SuspendsLive, TodoOpen
  <2> QED BY <2>1, RestScriptOp, RestScriptEnd, RestEmission, RestRuntime DEF Next
<1> QED BY TypeCorrect, OnceCorrect, RestInit, <1>1, PTL DEF Spec

-----------------------------------------------------------------------------
(* What a step does to the fields of a coroutine.                            *)

\* It may lose its connection to an emission, be retired before it completed or while
\* it runs, live on, or return to whoever resumed it.
Keeps(c) ==
  /\ co'[c].inst = co[c].inst /\ co'[c].saved = co[c].saved
  /\ co'[c].conn = co[c].conn \/ co'[c].conn = None
  /\ co'[c].failed = co[c].failed /\ co'[c].cancelled = co[c].cancelled
Retires(c) ==
  /\ co'[c].inst = None /\ co'[c].conn = None /\ ~co'[c].saved
  /\ emitted[c] = 0 \/ co[c].running
Lives(c) ==
  /\ co'[c].inst # None
  /\ \/ emitted[c] = 0
     \/ co'[c].failed = co[c].failed /\ co'[c].cancelled = co[c].cancelled
Ends(c) ==
  /\ co[c].running
  /\ co'[c].inst = co[c].inst /\ co'[c].saved = co[c].saved /\ co'[c].conn = co[c].conn

Lived(c) == Keeps(c) \/ Retires(c) \/ Lives(c) \/ Ends(c)

LEMMA EmittingLived ==
  ASSUME TypeOK, NEW g, co' = Emitting(g), NEW c \in Coros
  PROVE  Lived(c)
BY DEF TypeOK, CoroRecord, Emitting, Lived, Keeps

LEMMA SameLived ==
  ASSUME co' = co, NEW c \in Coros
  PROVE  Lived(c)
BY DEF Lived, Keeps

LEMMA RetiredLived ==
  ASSUME TypeOK, NEW d \in Coros, emitted[d] = 0,
         co' = [co EXCEPT ![d] = [Detached(co[d]) EXCEPT !.cancelled = TRUE]], NEW c \in Coros
  PROVE  Lived(c)
<1>1. co'[d].inst = None /\ co'[d].conn = None /\ ~co'[d].saved
      /\ (c # d => co'[c] = co[c])
  BY DEF TypeOK, CoroRecord, Detached, Disconnected
<1> QED BY <1>1 DEF Lived, Keeps, Retires

\* A coroutine whose runtime is still there has not completed.
LEMMA LiveUntold ==
  ASSUME OnceInv, NEW c \in Coros, Lock(c) # None
  PROVE  emitted[c] = 0 /\ co[c].inst # None
BY LockType DEF OnceInv, LiveOpen

\* The coroutine that a function body resumes is marked running.
LEMMA BodyRuns ==
  ASSUME TypeOK, WakeInv, On("body"), Top.co # None
  PROVE  Top.co \in Coros /\ co[Top.co].running
<1>1. Top.kind = "body" /\ Top.co \in Coros
  BY TopGood DEF TypeOK, On, Activation, FrameRecord
<1>2. \E i \in Nat : Resumes(i) = Top.co
  BY <1>1, ViewTop, Seen DEF Resumes, TypeOK, On
<1> QED BY <1>1, <1>2 DEF WakeInv, RunningHasBody

LEMMA FieldsLived ==
  ASSUME TypeOK, WakeInv, OnceInv, RestInv, [Next]_vars, NEW c \in Coros
  PROVE  Lived(c)
<1>0. stack # <<>> => Top \in Activation
  BY TopGood DEF TypeOK
<1>1. CASE UNCHANGED vars
  BY <1>1, SameLived DEF vars
<1>2. CASE ScriptOp
  <2>1. ASSUME NEW g \in Signals, EmitSignal(g) \/ FreeSource(g) PROVE Lived(c)
    BY <2>1, EmittingLived DEF EmitSignal, FreeSource
  <2>2. ASSUME NEW d \in Coros, Cancel(d) PROVE Lived(c)
    BY <2>2, LiveUntold, RetiredLived DEF Cancel, Cancellable
  <2>3. ASSUME NEW s \in States,
               CallFunction(s) \/ Replace(s) \/ Teardown(s) \/ Drop(s) \/ FreeOwner(s)
        PROVE  Lived(c)
    BY <2>3, SameLived DEF CallFunction, Replace, Teardown, Drop, FreeOwner
  <2> QED BY <1>2, <2>1, <2>2, <2>3 DEF ScriptOp
<1>3. CASE ScriptEnd
  <2>1. CASE ListenerReturns \/ CallReturns
    BY <2>1, SameLived DEF ListenerReturns, CallReturns
  <2>2. ASSUME NEW g \in Signals \cup Coros, AwaitAgain(g) PROVE Lived(c)
    <3>1. /\ On("body") /\ Top.co # None /\ Lock(Top.co) = Top.state
          /\ co' = [co EXCEPT ![Top.co] = [Disconnected(co[Top.co]) EXCEPT !.saved = TRUE]]
      BY <2>2 DEF AwaitAgain, MaySuspend
    <3>2. Top.co \in Coros /\ Top.state \in States
      BY <1>0, <3>1 DEF On, Activation, FrameRecord, Grounded
    <3>3. co[Top.co].inst # None
      BY <3>1, <3>2, LockType, Distinct
    <3>4. /\ co'[Top.co].inst = co[Top.co].inst /\ co'[Top.co].failed = co[Top.co].failed
          /\ co'[Top.co].cancelled = co[Top.co].cancelled
          /\ c # Top.co => co'[c] = co[c]
      BY <3>1, <3>2 DEF TypeOK, CoroRecord, Disconnected
    <3> QED BY <3>3, <3>4 DEF Lived, Keeps, Lives
  <2>3. ASSUME NEW g \in Signals \cup Coros, NEW d \in Coros, AwaitFresh(d, g) PROVE Lived(c)
    <3>1. /\ On("body") /\ d \notin created
          /\ co' = [co EXCEPT ![d] = [Connected(co[d], g) EXCEPT !.inst = Top.state, !.saved = TRUE]]
      BY <2>3 DEF AwaitFresh
    <3>2. Top.state # None
      BY <1>0, <3>1, Distinct DEF On, Activation, Grounded
    <3>3. co'[d].inst = Top.state /\ (c # d => co'[c] = co[c])
      BY <3>1 DEF TypeOK, CoroRecord, Connected
    <3>4. emitted[d] = 0
      BY <3>1 DEF OnceInv, FreshUntold
    <3> QED BY <3>2, <3>3, <3>4 DEF Lived, Keeps, Lives
  <2>4. CASE Reconnect
    <3>1. /\ On("body") /\ Top.sig \in Awaitable
          /\ co' = [co EXCEPT ![Top.co] = [Connected(co[Top.co], Top.sig) EXCEPT !.running = FALSE]]
      BY <2>4 DEF Reconnect
    <3>2. Top.sig # None /\ Top.kind = "body" /\ stack # <<>>
      BY <3>1, Distinct DEF Awaitable, TypeOK, On
    <3>3. Top.co \in Coros
      BY <1>0, <3>2 DEF Activation, FrameRecord, Grounded
    <3>4. co[Top.co].inst # None
      <4>1. At(stack, Len(stack)) = View(Top) /\ Len(stack) \in Nat
        BY <3>2, ViewTop DEF TypeOK
      <4> QED BY <3>2, <4>1, Seen DEF RestInv, SuspendsLive, Suspends
    <3>5. /\ co'[Top.co].inst = co[Top.co].inst /\ co'[Top.co].failed = co[Top.co].failed
          /\ co'[Top.co].cancelled = co[Top.co].cancelled
          /\ c # Top.co => co'[c] = co[c]
      BY <3>1, <3>3 DEF TypeOK, CoroRecord, Connected
    <3> QED BY <3>4, <3>5 DEF Lived, Keeps, Lives
  <2>5. ASSUME NEW ok \in BOOLEAN, ResumedCompletes(ok) PROVE Lived(c)
    <3>1. Top.co \in Coros /\ co[Top.co].running
          /\ co' = [co EXCEPT ![Top.co] = Detached(Ended(ok))]
      BY <2>5, BodyRuns DEF ResumedCompletes
    <3>2. /\ co'[Top.co].inst = None /\ co'[Top.co].conn = None /\ ~co'[Top.co].saved
          /\ c # Top.co => co'[c] = co[c]
      BY <3>1 DEF TypeOK, CoroRecord, Ended, Detached, Disconnected
    <3> QED BY <3>1, <3>2 DEF Lived, Keeps, Retires
  <2>6. ASSUME NEW ok \in BOOLEAN, ResumedWasCancelled(ok) PROVE Lived(c)
    <3>1. Top.co \in Coros /\ co[Top.co].running /\ co' = [co EXCEPT ![Top.co] = Ended(ok)]
      BY <2>6, BodyRuns DEF ResumedWasCancelled
    <3>2. /\ co'[Top.co].inst = co[Top.co].inst /\ co'[Top.co].saved = co[Top.co].saved
          /\ co'[Top.co].conn = co[Top.co].conn
          /\ c # Top.co => co'[c] = co[c]
      BY <3>1 DEF TypeOK, CoroRecord, Ended
    <3> QED BY <3>1, <3>2 DEF Lived, Keeps, Ends
  <2> QED BY <1>3, <2>1, <2>2, <2>3, <2>4, <2>5, <2>6 DEF ScriptEnd
<1>4. CASE Emission
  <2>1. CASE CallListener \/ EmissionEnds
    BY <2>1, SameLived DEF CallListener, EmissionEnds
  <2>2. ASSUME NEW d \in Coros, CallRetired(d) PROVE Lived(c)
    BY <2>2, SameLived DEF CallRetired
  <2>3. ASSUME NEW d \in Coros, CallOrphan(d) PROVE Lived(c)
    BY <2>3, LiveUntold, RetiredLived DEF CallOrphan, IgnoresResume
  <2>4. ASSUME NEW d \in Coros, Resume(d) PROVE Lived(c)
    <3>1. emitted[d] = 0 /\ co[d].inst # None /\ co' = [co EXCEPT ![d] = Resuming(d)]
      BY <2>4, LiveUntold DEF Resume, IgnoresResume
    <3>2. co'[d].inst = co[d].inst /\ (c # d => co'[c] = co[c])
      BY <3>1 DEF TypeOK, CoroRecord, Resuming, Disconnected
    <3> QED BY <3>1, <3>2 DEF Lived, Keeps, Lives
  <2> QED BY <1>4, <2>1, <2>2, <2>3, <2>4 DEF Emission
<1>5. CASE Runtime
  <2>1. CASE CancelEnds \/ Keep \/ Destroy
    BY <2>1, SameLived DEF CancelEnds, Keep, Destroy
  <2>2. CASE Settle
    BY <2>2, EmittingLived DEF Settle
  <2>3. ASSUME NEW d \in Coros, Notify(d) PROVE Lived(c)
    BY <2>3, EmittingLived DEF Notify
  <2>4. ASSUME NEW d \in Coros, Detach(d) PROVE Lived(c)
    <3>1. stack # <<>> /\ Detaching(Top) /\ d \in Top.todo
      BY <2>4 DEF Detach, On, Detaching
    <3>2. At(stack, Len(stack)) = View(Top) /\ Len(stack) \in Nat
      BY <3>1, ViewTop DEF TypeOK
    <3>3. Detaching(View(Top)) /\ View(Top).todo = Top.todo
      BY <3>1, Seen DEF Detaching
    <3>4. emitted[d] = 0
      BY <3>1, <3>2, <3>3 DEF RestInv, TodoOpen
    <3> QED BY <2>4, <3>4, RetiredLived DEF Detach
  <2> QED BY <1>5, <2>1, <2>2, <2>3, <2>4 DEF Runtime
<1> QED BY <1>1, <1>2, <1>3, <1>4, <1>5 DEF Next

\* However a coroutine is retired, its callback is disconnected and its frame released,
\* and nothing connects it or saves a frame in it again.
THEOREM LeavesNothing == ASSUME ~DropHooks PROVE Spec => []NothingLeftBehind
<1>1. Init => NothingLeftBehind
  BY DEF Init, NothingLeftBehind
<1>2. TypeOK /\ WakeInv /\ OnceInv /\ RestInv /\ NothingLeftBehind /\ [Next]_vars
        => NothingLeftBehind'
  <2> SUFFICES ASSUME TypeOK, WakeInv, OnceInv, RestInv, NothingLeftBehind, [Next]_vars
               PROVE  NothingLeftBehind'
    OBVIOUS
  <2>1. ASSUME NEW c \in Coros, co'[c].inst = None
        PROVE  co'[c].conn = None /\ ~co'[c].saved
    BY <2>1, FieldsLived DEF NothingLeftBehind, Lived, Keeps, Retires, Lives, Ends, TypeOK, CoroRecord
  <2> QED BY <2>1 DEF NothingLeftBehind
<1> QED BY TypeCorrect, WakeCorrect, OnceCorrect, RestCorrect, <1>1, <1>2, PTL DEF Spec

\* What a completed coroutine says of its end does not change, whatever is cancelled,
\* replaced or resumed afterwards.
THEOREM OutcomeStays == ASSUME ~DropHooks PROVE Spec => OutcomeFinal
<1>1. TypeOK /\ WakeInv /\ OnceInv /\ RestInv /\ [Next]_vars
        => [\A c \in Coros : emitted[c] > 0 /\ ~co[c].running =>
              /\ co'[c].failed = co[c].failed
              /\ co'[c].cancelled = co[c].cancelled]_vars
  <2> SUFFICES ASSUME TypeOK, WakeInv, OnceInv, RestInv, [Next]_vars,
                      NEW c \in Coros, emitted[c] > 0, ~co[c].running
               PROVE  co'[c].failed = co[c].failed /\ co'[c].cancelled = co[c].cancelled
    OBVIOUS
  <2>1. emitted[c] # 0
    OBVIOUS
  <2>2. co[c].inst = None
    BY <2>1 DEF OnceInv, LiveOpen
  <2>3. Lived(c)
    BY FieldsLived
  <2> QED BY <2>1, <2>2, <2>3 DEF Lived, Keeps, Retires, Lives, Ends
<1> QED BY TypeCorrect, WakeCorrect, OnceCorrect, RestCorrect, <1>1, PTL DEF Spec, OutcomeFinal

-----------------------------------------------------------------------------
(* The coroutines keep the promise of Completion.                            *)

\* The coroutines whose completion the activation at place i owes, and those whose
\* promise is open.
Owes(i) == Claims(At(stack, i))
Open(c) == co[c].inst # None \/ \E i \in Nat : c \in Owes(i)

LEMMA ClaimsSeen ==
  /\ \A f : Claims(View(f)) = Claims(f)
  /\ Claims(Blank) = {}
<1>1. ASSUME NEW f PROVE Claims(View(f)) = Claims(f)
  BY Seen DEF Claims
<1>2. Claims(Blank) = {}
  BY BlankView DEF Claims
<1> QED BY <1>1, <1>2

LEMMA OwesPlaced ==
  ASSUME NEW q \in Seq(Activation), NEW c
  PROVE  (\E i \in 1..Len(q) : c \in Claims(q[i])) <=> \E i \in Nat : c \in Claims(At(q, i))
<1>1. ASSUME NEW i \in 1..Len(q)
      PROVE  i \in Nat /\ Claims(At(q, i)) = Claims(q[i])
  BY ClaimsSeen DEF At
<1>2. ASSUME NEW i \in Nat, i \notin 1..Len(q)
      PROVE  Claims(At(q, i)) = {}
  BY <1>2, ClaimsSeen DEF At
<1> QED BY <1>1, <1>2

LEMMA SameOwes ==
  ASSUME NEW i, At(stack', i) = At(stack, i)
  PROVE  Owes(i)' = Owes(i)
BY DEF Owes

\* A step that keeps every status.
Settled == /\ created' = created /\ emitted' = emitted
           /\ \A c \in Coros : Open(c)' <=> Open(c)

LEMMA StatusOpen ==
  ASSUME TypeOK, NEW c \in Coros
  PROVE  Status(c) = IF emitted[c] > 0 THEN "completed"
                     ELSE IF c \notin created THEN "none"
                     ELSE IF Open(c) THEN "pending" ELSE "abandoned"
<1>1. (\E i \in 1..Len(stack) : c \in Claims(stack[i])) <=> \E i \in Nat : c \in Owes(i)
  BY OwesPlaced DEF Owes, TypeOK
<1> QED BY <1>1 DEF Status, Open

LEMMA StatusNext ==
  ASSUME TypeOK', NEW c \in Coros
  PROVE  Status(c)' = IF emitted'[c] > 0 THEN "completed"
                      ELSE IF c \notin created' THEN "none"
                      ELSE IF Open(c)' THEN "pending" ELSE "abandoned"
<1>1. (\E i \in 1..Len(stack') : c \in Claims(stack'[i])) <=> \E i \in Nat : c \in Owes(i)'
  BY OwesPlaced DEF Owes, TypeOK
<1> QED BY <1>1 DEF Status, Open

LEMMA SettledStutters ==
  ASSUME TypeOK, TypeOK', Settled
  PROVE  [c \in Coros |-> Status(c)]' = [c \in Coros |-> Status(c)] /\ emitted' = emitted
<1>1. ASSUME NEW c \in Coros PROVE Status(c)' = Status(c)
  BY StatusOpen, StatusNext DEF Settled
<1> QED BY <1>1 DEF Settled

\* Only the activation at place k changes.
LEMMA SettledPlace ==
  ASSUME NEW k \in Nat, created' = created, emitted' = emitted,
         \A i \in Nat \ {k} : Owes(i)' = Owes(i),
         \A c \in Coros : /\ c \in Owes(k)' => c \in Owes(k) \/ co[c].inst # None
                          /\ c \in Owes(k) => c \in Owes(k)'
                          /\ co'[c].inst # None => co[c].inst # None
                          /\ co[c].inst # None => co'[c].inst # None \/ c \in Owes(k)'
  PROVE  Settled
<1>1. ASSUME NEW c \in Coros PROVE Open(c)' <=> Open(c)
  <2>1. ASSUME Open(c) PROVE Open(c)'
    <3>1. CASE co[c].inst # None
      BY <3>1 DEF Open
    <3>2. ASSUME NEW i \in Nat, c \in Owes(i) PROVE c \in Owes(i)'
      BY <3>2
    <3> QED BY <2>1, <3>1, <3>2 DEF Open
  <2>2. ASSUME Open(c)' PROVE Open(c)
    <3>1. CASE co'[c].inst # None
      BY <3>1 DEF Open
    <3>2. ASSUME NEW i \in Nat, c \in Owes(i)' PROVE c \in Owes(i) \/ co[c].inst # None
      BY <3>2
    <3> QED BY <2>2, <3>1, <3>2 DEF Open
  <2> QED BY <2>1, <2>2
<1> QED BY <1>1 DEF Settled

LEMMA SettledPush ==
  ASSUME TypeOK, CanAct, NEW f, Leaves(Append(Spent, f)), created' = created, emitted' = emitted,
         \A c \in Claims(f) : co[c].inst # None,
         \A c \in Coros : /\ co'[c].inst # None => co[c].inst # None
                          /\ co[c].inst # None => co'[c].inst # None \/ c \in Claims(f)
  PROVE  Settled
<1>1. PICK k \in Nat : Becomes(k, View(f)) /\ At(stack, k) = Blank
  <2>1. /\ Len(stack) + 1 \in Nat /\ Becomes(Len(stack) + 1, View(f))
        /\ At(stack, Len(stack) + 1) = Blank
    BY SeePush
  <2> QED BY <2>1
<1>2. Owes(k)' = Claims(f) /\ Owes(k) = {}
  BY <1>1, ClaimsSeen DEF Owes, Becomes
<1>3. \A i \in Nat \ {k} : Owes(i)' = Owes(i)
  BY <1>1, SameOwes DEF Becomes
<1> QED BY <1>2, <1>3, SettledPlace

LEMMA SettledSpent ==
  ASSUME TypeOK, CanAct, stack' = Spent, created' = created, emitted' = emitted,
         \A c \in Coros : co'[c].inst = co[c].inst
  PROVE  Settled
<1>1. \A i \in Nat : Owes(i)' = Owes(i)
  BY SeeSpent, SameOwes
<1> QED BY <1>1 DEF Settled, Open

LEMMA SettledTop ==
  ASSUME TypeOK, stack # <<>>, NEW f, Leaves(Append(Below, f)), created' = created, emitted' = emitted,
         \A c \in Coros : /\ c \in Claims(f) => c \in Claims(Top) \/ co[c].inst # None
                          /\ c \in Claims(Top) => c \in Claims(f)
                          /\ co'[c].inst # None => co[c].inst # None
                          /\ co[c].inst # None => co'[c].inst # None \/ c \in Claims(f)
  PROVE  Settled
<1>1. PICK k \in Nat : Becomes(k, View(f)) /\ At(stack, k) = View(Top)
  BY SeeTop
<1>2. Owes(k)' = Claims(f) /\ Owes(k) = Claims(Top)
  BY <1>1, ClaimsSeen DEF Owes, Becomes
<1>3. \A i \in Nat \ {k} : Owes(i)' = Owes(i)
  BY <1>1, SameOwes DEF Becomes
<1> QED BY <1>2, <1>3, SettledPlace

LEMMA SettledPop ==
  ASSUME TypeOK, stack # <<>>, stack' = Below, Claims(Top) = {}, created' = created,
         emitted' = emitted, \A c \in Coros : co'[c].inst = co[c].inst
  PROVE  Settled
<1>1. PICK k \in Nat : Becomes(k, Blank) /\ At(stack, k) = View(Top)
  BY SeePop
<1>2. Owes(k)' = {} /\ Owes(k) = {}
  BY <1>1, ClaimsSeen DEF Owes, Becomes
<1>3. \A i \in Nat \ {k} : Owes(i)' = Owes(i)
  BY <1>1, SameOwes DEF Becomes
<1> QED BY <1>2, <1>3, SettledPlace

\* An emission calls somebody.
LEMMA SettledCall ==
  ASSUME TypeOK, On("emit"), NEW x, NEW f, Leaves(Append(Called(x), f)),
         created' = created, emitted' = emitted,
         \A c \in Claims(f) : co[c].inst # None,
         \A c \in Coros : /\ co'[c].inst # None => co[c].inst # None
                          /\ co[c].inst # None => co'[c].inst # None \/ c \in Claims(f)
  PROVE  Settled
<1> DEFINE g == [Top EXCEPT !.todo = @ \ {x}]
<1>1. stack # <<>> /\ Top.kind = "emit" /\ g.kind = "emit" /\ Called(x) = Append(Below, g)
  BY TopGood DEF TypeOK, On, Activation, FrameRecord, Called
<1> HIDE DEF g
<1>2. Claims(Top) = {} /\ Claims(g) = {}
  BY <1>1 DEF Claims
<1>3. PICK e \in Nat, k \in Nat :
        /\ k # e /\ At(stack, e) = View(Top) /\ At(stack, k) = Blank
        /\ At(stack', e) = View(g) /\ At(stack', k) = View(f)
        /\ \A i \in Nat : i # e /\ i # k => At(stack', i) = At(stack, i)
  <2>1. /\ Len(stack) \in Nat /\ Len(stack) + 1 \in Nat /\ Len(stack) + 1 > Len(stack)
        /\ Len(stack) + 1 # Len(stack)
        /\ At(stack, Len(stack)) = View(Top) /\ At(stack, Len(stack) + 1) = Blank
    BY <1>1, SeeBoth
  <2> QED BY <1>1, <2>1, SeeBoth
<1>4. Owes(e) = {} /\ Owes(e)' = {} /\ Owes(k) = {} /\ Owes(k)' = Claims(f)
  BY <1>2, <1>3, ClaimsSeen DEF Owes
<1>5. ASSUME NEW i \in Nat \ {k} PROVE Owes(i)' = Owes(i)
  BY <1>3, <1>4, SameOwes
<1> QED BY <1>4, <1>5, SettledPlace

\* An owed completion is open, and only a busy activation owes one of a live coroutine.
LEMMA OwesOpen ==
  ASSUME TypeOK, OnceInv, NEW i \in Nat, NEW c \in Owes(i)
  PROVE  /\ c \in Coros /\ emitted[c] = 0 /\ c \in created
         /\ co[c].inst # None => i = Len(stack) /\ Top.kind = "cancel"
         /\ \A j \in Nat : c \in Owes(j) => j = i
<1>1. ASSUME NEW j \in Nat, c \in Owes(j)
      PROVE  j \in 1..Len(stack) /\ c \in Claims(stack[j]) /\ stack[j] \in Activation
  BY <1>1, ClaimsSeen DEF Owes, At, TypeOK
<1>2. i \in 1..Len(stack) /\ c \in Claims(stack[i])
  BY <1>1
<1>3. emitted[c] = 0 /\ c \in created /\ c \in Coros /\ (co[c].inst # None => c \in stack[i].todo)
  BY <1>2 DEF OnceInv, ClaimsOpen, TypeOK
<1>4. ASSUME co[c].inst # None PROVE i = Len(stack) /\ Top.kind = "cancel"
  <2>1. c \in stack[i].todo /\ stack[i] \in Activation
    BY <1>1, <1>3, <1>4
  <2>2. stack[i].kind = "cancel"
    BY <1>2, <2>1 DEF Claims, Activation, Grounded
  <2>3. i = Len(stack)
    BY <1>2, <2>1, <2>2 DEF OnceInv, BusyOnTop, Busy
  <2> QED BY <2>2, <2>3 DEF Top
<1>5. \A j \in Nat : c \in Owes(j) => j = i
  BY <1>1, <1>3 DEF OnceInv, ClaimsDisjoint
<1> QED BY <1>3, <1>4, <1>5

\* The three ways in which the status of one coroutine changes.
Moved(c) ==
  /\ \A d \in Coros \ {c} : /\ emitted'[d] = emitted[d] /\ (d \in created' <=> d \in created)
                            /\ Open(d)' <=> Open(d)
Started(c) == Moved(c) /\ c \notin created /\ emitted[c] = 0 /\ c \in created' /\ Open(c)'
              /\ emitted'[c] = 0
Completed(c) == Moved(c) /\ c \in created /\ emitted[c] = 0 /\ Open(c) /\ emitted'[c] = 1
Abandoned(c) == Moved(c) /\ c \in created /\ emitted[c] = 0 /\ Open(c) /\ emitted'[c] = 0
                /\ c \in created' /\ ~Open(c)'

LEMMA MovedStatus ==
  ASSUME TypeOK, TypeOK', NEW c \in Coros, Moved(c)
  PROVE  \A d \in Coros \ {c} : Status(d)' = Status(d)
<1>1. ASSUME NEW d \in Coros \ {c} PROVE Status(d)' = Status(d)
  BY StatusOpen, StatusNext DEF Moved
<1> QED BY <1>1

LEMMA StartedStarts ==
  ASSUME TypeOK, TypeOK', NEW c \in Coros, Started(c)
  PROVE  Promised!Start(c)
<1>1. Status(c) = "none" /\ Status(c)' = "pending"
  BY StatusOpen, StatusNext DEF Started
<1>2. emitted' = emitted
  BY DEF Started, Moved, TypeOK
<1> QED BY <1>1, <1>2, MovedStatus DEF Started, Promised!Start

LEMMA CompletedCompletes ==
  ASSUME TypeOK, TypeOK', NEW c \in Coros, Completed(c)
  PROVE  Promised!Complete(c)
<1>1. Status(c) = "pending" /\ Status(c)' = "completed"
  BY StatusOpen, StatusNext DEF Completed
<1>2. emitted' = [emitted EXCEPT ![c] = 1]
  BY DEF Completed, Moved, TypeOK
<1> QED BY <1>1, <1>2, MovedStatus DEF Completed, Promised!Complete

LEMMA AbandonedAbandons ==
  ASSUME TypeOK, TypeOK', NEW c \in Coros, Abandoned(c)
  PROVE  Promised!Abandon(c)
<1>1. Status(c) = "pending" /\ Status(c)' = "abandoned"
  BY StatusOpen, StatusNext DEF Abandoned
<1>2. emitted' = emitted
  BY DEF Abandoned, Moved, TypeOK
<1> QED BY <1>1, <1>2, MovedStatus DEF Abandoned, Promised!Abandon

-----------------------------------------------------------------------------
(* The steps that keep every status, and those that change one.              *)

\* Whoever completes, fails or is cancelled owes the completion from then on.
LEMMA RetiredOwed ==
  ASSUME TypeOK, NEW c \in Coros, co[c].inst # None,
         co' = [co EXCEPT ![c] = [Detached(co[c]) EXCEPT !.cancelled = TRUE]]
  PROVE  \A d \in Coros : /\ co'[d].inst # None => co[d].inst # None
                          /\ co[d].inst # None => co'[d].inst # None \/ d \in {c}
BY DEF TypeOK, CoroRecord, Detached, Disconnected

LEMMA SettledScriptOp ==
  ASSUME TypeOK, OnceInv, ScriptOp
  PROVE  Settled
<1>1. ASSUME NEW g \in Signals, EmitSignal(g) PROVE Settled
  <2>1. \A c \in Coros : co'[c].inst = co[c].inst
    BY <1>1, EmittingKeeps DEF EmitSignal
  <2>2. Claims(Frame("emit", None, None, g, Slots(g), FALSE)) = {}
    BY NewFrames
  <2> QED BY <1>1, <2>1, <2>2, SettledPush DEF EmitSignal, Leaves
<1>2. ASSUME NEW g \in Signals, FreeSource(g) PROVE Settled
  BY <1>2, EmittingKeeps, SettledSpent DEF FreeSource
<1>3. ASSUME NEW c \in Coros, Cancel(c) PROVE Settled
  <2>1. co[c].inst # None /\ Claims(SettleFrame(Lock(c), c)) = {c}
    BY <1>3, LiveUntold, NewFrames DEF Cancel, Cancellable
  <2> QED BY <1>3, <2>1, RetiredOwed, SettledPush DEF Cancel, Leaves
<1>4. ASSUME NEW s \in States, CallFunction(s) PROVE Settled
  BY <1>4, NewFrames, SettledPush DEF CallFunction, Leaves
<1>5. ASSUME NEW s \in States, NEW kind \in {"cancel", "silence"}, CanAct,
             BeginCancel(Spent, s, kind), UNCHANGED <<co, created, emitted>>
      PROVE  Settled
  <2> DEFINE f == Frame(kind, s, None, None, list[s], cancelling[s])
  <2>1. Leaves(Append(Spent, f))
    BY <1>5 DEF BeginCancel, Leaves
  <2>2. \A c \in Claims(f) : c \in list[s]
    BY NewFrames
  <2>3. ~On("settle") /\ s # None
    BY <1>5, SpentKept, Distinct
  <2>4. \A c \in Claims(f) : co[c].inst # None
    BY <2>2, <2>3 DEF OnceInv, ListedOpen
  <2> HIDE DEF f
  <2> QED BY <1>5, <2>1, <2>4, SettledPush
<1>6. ASSUME NEW s \in States, Replace(s) \/ Teardown(s) PROVE Settled
  BY <1>5, <1>6 DEF Replace, Teardown
<1>7. ASSUME NEW s \in States, Drop(s) PROVE Settled
  BY <1>7, NewFrames, SettledPush DEF Drop, Leaves
<1>8. ASSUME NEW s \in States, FreeOwner(s) PROVE Settled
  BY <1>8, SettledSpent DEF FreeOwner
<1> QED BY <1>1, <1>2, <1>3, <1>4, <1>6, <1>7, <1>8 DEF ScriptOp

LEMMA SettledEmission ==
  ASSUME TypeOK, OnceInv, Emission
  PROVE  Settled
<1>1. CASE CallListener
  BY <1>1, NewFrames, SettledCall DEF CallListener, Leaves
<1>2. ASSUME NEW c \in Coros, CallRetired(c) PROVE Settled
  <2> DEFINE g == [Top EXCEPT !.todo = @ \ {c}]
  <2>1. stack # <<>> /\ Claims(Top) = {} /\ Claims(g) = {} /\ Called(c) = Append(Below, g)
    BY <1>2, TopGood DEF CallRetired, TypeOK, On, Activation, FrameRecord, Called, Claims
  <2> HIDE DEF g
  <2> QED BY <1>2, <2>1, SettledTop DEF CallRetired, Leaves
<1>3. ASSUME NEW c \in Coros, CallOrphan(c) PROVE Settled
  <2>1. co[c].inst # None /\ Claims(SettleFrame(Lock(c), c)) = {c}
    BY <1>3, LiveUntold, NewFrames DEF CallOrphan, IgnoresResume
  <2> QED BY <1>3, <2>1, RetiredOwed, SettledCall DEF CallOrphan, Leaves
<1>4. ASSUME NEW c \in Coros, Resume(c) PROVE Settled
  <2>1. \A d \in Coros : co'[d].inst = co[d].inst
    BY <1>4 DEF Resume, TypeOK, CoroRecord, Resuming, Disconnected
  <2>2. Claims(BodyFrame(Lock(c), c)) = {}
    BY NewFrames
  <2> QED BY <1>4, <2>1, <2>2, SettledCall DEF Resume, Leaves
<1>5. CASE EmissionEnds
  <2>1. Claims(Top) = {}
    BY <1>5 DEF EmissionEnds, On, Claims
  <2>2. CASE Top.state = None
    BY <1>5, <2>1, <2>2, SettledPop DEF EmissionEnds, On
  <2>3. CASE Top.state # None
    BY <1>5, <2>1, <2>3, NewFrames, SettledTop DEF EmissionEnds, On, Leaves
  <2> QED BY <2>2, <2>3
<1> QED BY <1>1, <1>2, <1>3, <1>4, <1>5 DEF Emission

\* Everything but the activation at place k and the coroutine c is as before.
LEMMA MovedPlace ==
  ASSUME NEW c, NEW k \in Nat,
         \A i \in Nat \ {k} : Owes(i)' = Owes(i),
         \A d \in Coros \ {c} : /\ d \in Owes(k)' <=> d \in Owes(k)
                                /\ co'[d].inst = co[d].inst
                                /\ emitted'[d] = emitted[d]
                                /\ d \in created' <=> d \in created
  PROVE  Moved(c)
<1>1. ASSUME NEW d \in Coros \ {c}, NEW i \in Nat PROVE d \in Owes(i)' <=> d \in Owes(i)
  BY <1>1
<1>2. ASSUME NEW d \in Coros \ {c} PROVE Open(d)' <=> Open(d)
  BY <1>1, <1>2 DEF Open
<1> QED BY <1>2 DEF Moved

\* A function that suspends for the first time opens a promise; the other ways in which
\* script gives control back keep every status.
LEMMA EndsSettled ==
  ASSUME TypeOK, WakeInv, OnceInv, ScriptEnd
  PROVE  Settled \/ \E c \in Coros : Started(c)
<1>0. stack # <<>> => Top \in Activation
  BY TopGood DEF TypeOK
<1>1. CASE ListenerReturns
  <2>1. Claims(Top) = {}
    BY <1>1 DEF ListenerReturns, On, Claims
  <2> QED BY <1>1, <2>1, SettledPop DEF ListenerReturns, On
<1>2. On("body") => stack # <<>> /\ Top.kind = "body" /\ Claims(Top) = {}
  BY DEF On, Claims
<1>3. CASE CallReturns
  BY <1>2, <1>3, NewFrames, SettledTop DEF CallReturns, Leaves
<1>4. ASSUME NEW g \in Signals \cup Coros, AwaitAgain(g) PROVE Settled
  <2> DEFINE f == [Top EXCEPT !.sig = g]
  <2>1. Top.co \in Coros /\ f.kind = "body" /\ Leaves(Append(Below, f))
    BY <1>0, <1>2, <1>4 DEF AwaitAgain, Activation, FrameRecord, Leaves
  <2>2. \A c \in Coros : co'[c].inst = co[c].inst
    BY <1>4, <2>1 DEF AwaitAgain, TypeOK, CoroRecord, Disconnected
  <2>3. Claims(f) = {}
    BY <2>1 DEF Claims
  <2> HIDE DEF f
  <2> QED BY <1>2, <1>4, <2>1, <2>2, <2>3, SettledTop DEF AwaitAgain
<1>5. ASSUME NEW g \in Signals \cup Coros, NEW c \in Coros, AwaitFresh(c, g) PROVE Started(c)
  <2>1. /\ stack # <<>> /\ Claims(Top) = {} /\ Leaves(Append(Below, LeaveFrame(Top.state)))
        /\ Top.state # None
    BY <1>0, <1>2, <1>5, Distinct DEF AwaitFresh, Leaves, Activation, Grounded
  <2>2. /\ c \notin created /\ emitted[c] = 0 /\ created' = created \cup {c}
        /\ emitted' = emitted /\ co'[c].inst = Top.state
        /\ \A d \in Coros \ {c} : co'[d].inst = co[d].inst
    BY <1>5 DEF AwaitFresh, TypeOK, CoroRecord, Connected, OnceInv, FreshUntold
  <2>3. PICK k \in Nat : Becomes(k, View(LeaveFrame(Top.state))) /\ At(stack, k) = View(Top)
    BY <2>1, SeeTop
  <2>4. Owes(k)' = {} /\ Owes(k) = {}
    BY <2>1, <2>3, ClaimsSeen, NewFrames DEF Owes, Becomes
  <2>5. \A i \in Nat \ {k} : Owes(i)' = Owes(i)
    BY <2>3, SameOwes DEF Becomes
  <2>6. Moved(c)
    BY <2>2, <2>4, <2>5, MovedPlace
  <2> QED BY <2>1, <2>2, <2>6 DEF Started, Open
<1>6. CASE Reconnect
  <2>1. Top.co \in Coros
    <3>1. Top.sig # None
      BY <1>6, Distinct DEF Reconnect, Awaitable, TypeOK
    <3> QED BY <1>0, <1>2, <1>6, <3>1 DEF Reconnect, Activation, FrameRecord, Grounded
  <2>2. \A c \in Coros : co'[c].inst = co[c].inst
    BY <1>6, <2>1 DEF Reconnect, TypeOK, CoroRecord, Connected
  <2> QED BY <1>2, <1>6, <2>2, NewFrames, SettledTop DEF Reconnect, Leaves
<1>7. ASSUME NEW ok \in BOOLEAN, ResumedCompletes(ok) PROVE Settled
  <2>1. PICK c \in Coros : c = Top.co
    BY <1>7, BodyRuns DEF ResumedCompletes
  <2>2. Lock(c) = Top.state /\ Top.state \in States
    BY <1>0, <1>2, <1>7, <2>1 DEF ResumedCompletes, StillMine, Activation, Grounded
  <2>3. co[c].inst # None /\ co' = [co EXCEPT ![c] = Detached(Ended(ok))]
    BY <1>7, <2>1, <2>2, LockType, Distinct DEF ResumedCompletes
  <2>4. \A d \in Coros : d # c => co'[d].inst = co[d].inst
    BY <2>3
  <2>5. co'[c].inst = None
    BY <2>1, <2>3 DEF TypeOK, CoroRecord, Ended, Detached, Disconnected
  <2>6. Claims(SettleFrame(Top.state, c)) = {c}
    BY NewFrames
  <2> QED BY <1>2, <1>7, <2>1, <2>3, <2>4, <2>5, <2>6, SettledTop DEF ResumedCompletes, Leaves
<1>8. ASSUME NEW ok \in BOOLEAN, ResumedWasCancelled(ok) PROVE Settled
  <2>1. PICK c \in Coros : c = Top.co
    BY <1>8, BodyRuns DEF ResumedWasCancelled
  <2>2. \A d \in Coros : co'[d].inst = co[d].inst
    BY <1>8, <2>1 DEF ResumedWasCancelled, TypeOK, CoroRecord, Ended
  <2> QED BY <1>2, <1>8, <2>2, NewFrames, SettledTop DEF ResumedWasCancelled, Leaves
<1> QED BY <1>1, <1>3, <1>4, <1>5, <1>6, <1>7, <1>8 DEF ScriptEnd

\* The topmost activation emits an owed completion.
LEMMA ToldOnce ==
  ASSUME TypeOK, OnceInv, stack # <<>>, NEW c \in Claims(Top), NEW k \in Nat,
         At(stack, k) = View(Top), Owes(k)' = Claims(Top) \ {c},
         \A i \in Nat \ {k} : Owes(i)' = Owes(i),
         co' = Emitting(c), created' = created,
         emitted' = [emitted EXCEPT ![c] = @ + 1]
  PROVE  c \in Coros /\ Completed(c)
<1>1. Owes(k) = Claims(Top)
  BY ClaimsSeen DEF Owes
<1>2. c \in Coros /\ emitted[c] = 0 /\ c \in created /\ Open(c)
  BY <1>1, OwesOpen DEF Open
<1>3. \A d \in Coros : co'[d].inst = co[d].inst
  BY EmittingKeeps
<1>4. emitted'[c] = 1 /\ \A d \in Coros \ {c} : emitted'[d] = emitted[d]
  BY <1>2 DEF TypeOK
<1>5. Moved(c)
  BY <1>1, <1>3, <1>4, MovedPlace
<1> QED BY <1>2, <1>4, <1>5 DEF Completed

\* The runtime emits what is owed and abandons what its silent destruction reaches.
LEMMA RuntimeMoves ==
  ASSUME TypeOK, OnceInv, Runtime
  PROVE  Settled \/ \E c \in Coros : Completed(c) \/ Abandoned(c)
<1>0. stack # <<>> => Top \in Activation
  BY TopGood DEF TypeOK
<1>1. CASE Settle
  <2> DEFINE f == Frame("emit", Top.state, None, Top.co, Slots(Top.co), FALSE)
  <2>1. stack # <<>> /\ Claims(Top) = {Top.co} /\ Leaves(Append(Below, f))
    BY <1>1 DEF Settle, On, Leaves, Claims
  <2>5. Claims(f) = {}
    BY NewFrames
  <2> HIDE DEF f
  <2>2. PICK k \in Nat : Becomes(k, View(f)) /\ At(stack, k) = View(Top)
    BY <2>1, SeeTop
  <2>3. Owes(k)' = Claims(Top) \ {Top.co}
    BY <2>1, <2>2, <2>5, ClaimsSeen DEF Owes, Becomes
  <2>4. \A i \in Nat \ {k} : Owes(i)' = Owes(i)
    BY <2>2, SameOwes DEF Becomes
  <2> QED BY <1>1, <2>1, <2>2, <2>3, <2>4, ToldOnce DEF Settle
<1>2. ASSUME NEW c \in Coros, Detach(c) PROVE Settled \/ Abandoned(c)
  <2> DEFINE f == [Top EXCEPT !.todo = @ \ {c}, !.due = Owed(Top, c)]
  <2>1. /\ stack # <<>> /\ Top.kind \in {"cancel", "silence"} /\ Leaves(Append(Below, f))
        /\ c \in Top.todo /\ created' = created /\ emitted' = emitted
    BY <1>2 DEF Detach, On, Leaves
  <2>2. f.kind = Top.kind /\ f.todo = Top.todo \ {c} /\ f.due = Owed(Top, c)
    BY <1>0, <2>1 DEF Activation, FrameRecord
  <2> HIDE DEF f
  <2>3. Claims(f) = Claims(Top)
    <3>1. CASE Top.kind = "cancel"
      BY <2>1, <2>2, <3>1 DEF Claims, Owed
    <3>2. CASE Top.kind = "silence"
      BY <2>2, <3>2 DEF Claims
    <3> QED BY <2>1, <3>1, <3>2
  <2>4. co'[c].inst = None /\ \A d \in Coros \ {c} : co'[d] = co[d]
    BY <1>2 DEF Detach, TypeOK, CoroRecord, Detached, Disconnected
  <2>5. CASE Top.kind = "cancel" \/ co[c].inst = None
    <3>1. c \in Claims(Top) \/ co[c].inst = None
      BY <2>1, <2>5 DEF Claims
    <3> QED BY <2>1, <2>3, <2>4, <3>1, SettledTop
  <2>6. CASE Top.kind = "silence" /\ co[c].inst # None
    <3>1. PICK k \in Nat : Becomes(k, View(f)) /\ At(stack, k) = View(Top)
      BY <2>1, SeeTop
    <3>2. Owes(k)' = Owes(k)
      BY <2>3, <3>1, ClaimsSeen DEF Owes, Becomes
    <3>3. \A i \in Nat \ {k} : Owes(i)' = Owes(i)
      BY <3>1, SameOwes DEF Becomes
    <3>4. Moved(c)
      BY <2>1, <2>4, <3>2, <3>3, MovedPlace
    <3>5. emitted[c] = 0 /\ c \in created
      BY <2>6 DEF OnceInv, LiveOpen
    <3>6. ASSUME NEW i \in Nat PROVE c \notin Owes(i)'
      BY <2>6, <3>2, <3>3, OwesOpen
    <3> QED BY <2>1, <2>4, <2>6, <3>4, <3>5, <3>6 DEF Abandoned, Open
  <2> QED BY <2>1, <2>5, <2>6
<1>3. ASSUME NEW c \in Coros, Notify(c) PROVE Completed(c)
  <2> DEFINE g == [Top EXCEPT !.due = @ \ {c}]
             f == Frame("emit", None, None, c, Slots(c), FALSE)
  <2>1. /\ stack # <<>> /\ Top.kind = "cancel" /\ Top.todo = {} /\ c \in Top.due
        /\ Leaves(Append(Append(Below, g), f))
    BY <1>3 DEF Notify, NotifyReady, On, Leaves
  <2>2. Claims(Top) = Top.due /\ Claims(g) = Claims(Top) \ {c} /\ Claims(f) = {}
    <3>1. g.kind = "cancel" /\ g.todo = {} /\ g.due = Top.due \ {c}
      BY <1>0, <2>1 DEF Activation, FrameRecord
    <3>2. Claims(f) = {}
      BY NewFrames
    <3> HIDE DEF f, g
    <3> QED BY <2>1, <3>1, <3>2 DEF Claims
  <2> HIDE DEF f, g
  <2>3. PICK e \in Nat, k \in Nat :
          /\ k # e /\ At(stack, e) = View(Top) /\ At(stack, k) = Blank
          /\ At(stack', e) = View(g) /\ At(stack', k) = View(f)
          /\ \A i \in Nat : i # e /\ i # k => At(stack', i) = At(stack, i)
    <3>1. /\ Len(stack) \in Nat /\ Len(stack) + 1 \in Nat /\ Len(stack) + 1 > Len(stack)
          /\ Len(stack) + 1 # Len(stack)
          /\ At(stack, Len(stack)) = View(Top) /\ At(stack, Len(stack) + 1) = Blank
      BY <2>1, SeeBoth
    <3> QED BY <2>1, <3>1, SeeBoth
  <2>4. Owes(e)' = Claims(Top) \ {c} /\ Owes(k) = {} /\ Owes(k)' = {}
    BY <2>2, <2>3, ClaimsSeen DEF Owes
  <2>5. ASSUME NEW i \in Nat \ {e} PROVE Owes(i)' = Owes(i)
    BY <2>3, <2>4, SameOwes
  <2> QED BY <1>3, <2>1, <2>2, <2>3, <2>4, <2>5, ToldOnce DEF Notify
<1>4. CASE CancelEnds
  <2>1. stack # <<>> /\ Claims(Top) = {}
    BY <1>4 DEF CancelEnds, On, Claims
  <2> QED BY <1>4, <2>1, NewFrames, SettledTop DEF CancelEnds, Leaves
<1>5. CASE Keep
  <2>1. stack # <<>> /\ Claims(Top) = {}
    BY <1>5 DEF Keep, On, Claims
  <2> QED BY <1>5, <2>1, SettledPop DEF Keep
<1>6. CASE Destroy
  <2> DEFINE f == Frame("silence", Top.state, None, None, list[Top.state], cancelling[Top.state])
  <2>1. stack # <<>> /\ Claims(Top) = {} /\ Leaves(Append(Below, f))
    BY <1>6 DEF Destroy, BeginCancel, On, Leaves, Claims
  <2>2. Claims(f) = {}
    BY NewFrames
  <2> HIDE DEF f
  <2> QED BY <1>6, <2>1, <2>2, SettledTop DEF Destroy
<1> QED BY <1>1, <1>2, <1>3, <1>4, <1>5, <1>6 DEF Runtime

\* The coroutine machinery keeps the promise: the statuses only move from none to pending
\* and from pending to completed or abandoned, and `completed` is emitted exactly when a
\* coroutine completes, however cancellations, completions and destructions nest.
THEOREM PromiseKept == ASSUME ~DropHooks PROVE Spec => Implements
<1>1. Init => Promised!Init
  <2> SUFFICES ASSUME Init PROVE Promised!Init
    OBVIOUS
  <2>1. ASSUME NEW c \in Coros PROVE Status(c) = "none"
    <3>1. emitted[c] = 0 /\ c \notin created
      BY DEF Init
    <3> QED BY <3>1 DEF Status
  <2> QED BY <2>1 DEF Init, Promised!Init
<1>2. TypeOK /\ TypeOK' /\ WakeInv /\ OnceInv /\ [Next]_vars
        => [Promised!Next]_<<[c \in Coros |-> Status(c)], emitted>>
  <2> SUFFICES ASSUME TypeOK, TypeOK', WakeInv, OnceInv, [Next]_vars
               PROVE  [Promised!Next]_<<[c \in Coros |-> Status(c)], emitted>>
    OBVIOUS
  <2>1. CASE Settled
    BY <2>1, SettledStutters
  <2>2. ASSUME NEW c \in Coros, Started(c) \/ Completed(c) \/ Abandoned(c)
        PROVE  Promised!Next
    BY <2>2, StartedStarts, CompletedCompletes, AbandonedAbandons DEF Promised!Next
  <2>3. CASE UNCHANGED vars
    BY <2>3 DEF vars, Status
  <2> QED BY <2>1, <2>2, <2>3, SettledScriptOp, EndsSettled, SettledEmission, RuntimeMoves DEF Next
<1> QED BY TypeCorrect, WakeCorrect, OnceCorrect, <1>1, <1>2, PTL DEF Spec, Implements, Promised!Spec
=============================================================================
