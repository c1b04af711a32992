---------------------------- MODULE CallsProofs -----------------------------
(* Theorems about Calls, for any number of runtimes, activations and default *)
(* arguments and any nesting of calls.                                       *)
EXTENDS Calls, SequenceTheorems, TLAPS

-----------------------------------------------------------------------------
(* The inductive invariant.                                                  *)

\* A function entered by NativeState::call lies on the frame of that call, and a
\* default-argument function on one that still has arguments to evaluate.
Entered(q, d) ==
  \A i \in DOMAIN q :
    /\ q[i].kind = "call" => q[i].via \in Callers /\ ~Failed(q[i])
    /\ q[i].kind = "run" => q[i].via \in Direct \cup {"default", "body"}
    /\ q[i].stopped => d
    /\ q[i].via \in {"default", "body"} =>
         /\ i > 1 /\ q[i - 1].kind = "call" /\ q[i - 1].state = q[i].state
         /\ q[i].via = "default" => q[i - 1].todo > 0

\* A failed function's string was cleared or replaced since, if it is not its own.
Recent(q, errors, n) ==
  \A i \in DOMAIN q :
    /\ q[i].failure <= n
    /\ Failed(q[i]) => errors[q[i].state] = 0 \/ errors[q[i].state] >= q[i].failure

\* If neither a destructor nor a debugger runs script between a failure and its report,
\* nothing runs above a function that failed, so that the string is still its own.
StillOwn(q, errors) ==
  \A i \in DOMAIN q : Failed(q[i]) => i = Len(q) /\ errors[q[i].state] = q[i].failure

\* The two halves of OwnMessage.
NotOlder == ReadsFailure => report.message = 0 \/ report.message >= report.culprit
Exact == ReadsFailure /\ ~disturbed => report.message = report.culprit

OwnInv == StillOwn(stack, error) /\ Exact

CallsInv ==
  /\ TypeOK /\ Entered(stack, disturbed) /\ Recent(stack, error, failures)
  /\ NoGhostMessage /\ NotOlder
  /\ ~disturbed => OwnInv

-----------------------------------------------------------------------------
(* Frames and reports.                                                       *)

LEMMA FrameTypes ==
  /\ \A via \in Callers, s \in Runtimes, n \in 0..Defaults : CallFrame(via, s, n) \in Frame
  /\ \A via \in Direct \cup {"default", "body"}, s \in Runtimes : RunFrame(via, s) \in Frame
<1>1. 0 \in Messages /\ 0 \in 0..Defaults
  BY Parameters DEF Messages
<1> QED BY <1>1 DEF CallFrame, RunFrame, Frame

LEMMA ReportType ==
  ASSUME NEW via \in Callers \cup Direct, NEW s \in Runtimes, NEW outcome \in Outcomes,
         NEW culprit \in Messages, NEW errors \in [Runtimes -> Messages]
  PROVE  /\ AsSeen(via, s, outcome, culprit, errors) \in Report
         /\ AsSeen(via, s, outcome, culprit, errors).outcome = outcome
         /\ AsSeen(via, s, outcome, culprit, errors).culprit = culprit
         /\ AsSeen(via, s, outcome, culprit, errors).via = via
         /\ outcome # "done" /\ via # "accessor" =>
              AsSeen(via, s, outcome, culprit, errors).message = errors[s]
         /\ errors[s] = 0 => AsSeen(via, s, outcome, culprit, errors).message = 0
         /\ outcome = "rejected" /\ via = "accessor" =>
              AsSeen(via, s, outcome, culprit, errors).message = 0
<1>1. errors[s] \in Messages /\ 0 \in Messages
  BY Parameters DEF Messages
<1>2. "accessor" \notin ReadsAlways
  BY DEF ReadsAlways
<1> QED BY <1>1, <1>2 DEF AsSeen, Report

LEMMA NothingType == Nothing \in Report /\ Nothing.outcome = "done"
<1>1. 0 \in Messages
  BY Parameters DEF Messages
<1> QED BY <1>1 DEF Nothing, Report, Outcomes

LEMMA TopFrame ==
  ASSUME stack \in Seq(Frame), stack # <<>>
  PROVE  /\ Top \in Frame /\ Len(stack) \in Nat \ {0} /\ DOMAIN stack = 1..Len(stack)
         /\ Top = stack[Len(stack)]
BY DEF Top

-----------------------------------------------------------------------------
(* What calling and returning do to the stack.                               *)

Alive(q) == \A i \in DOMAIN q : ~Failed(q[i])

\* The frames q, with the strings e, between two steps of compiled code.
Fine(q, e) == /\ q \in Seq(Frame) /\ Entered(q, disturbed) /\ Recent(q, e, failures)
              /\ ~disturbed => Alive(q)

\* The strings that a step leaves alone or clears.
Wiped(e, e2) == \A s \in Runtimes : e2[s] = e[s] \/ e2[s] = 0

\* A frame that asks nothing of the one below it, or finds there what it asks.
LEMMA Pushed ==
  ASSUME NEW q, NEW e, NEW e2, Fine(q, e), Wiped(e, e2), failures \in Nat,
         NEW f \in Frame, f.failure = 0, ~f.stopped,
         f.kind = "call" => f.via \in Callers,
         f.kind = "run" => f.via \in Direct \cup {"default", "body"},
         f.via \in {"default", "body"} =>
           /\ q # <<>> /\ q[Len(q)].kind = "call" /\ q[Len(q)].state = f.state
           /\ f.via = "default" => q[Len(q)].todo > 0
  PROVE  Fine(Append(q, f), e2)
<1> DEFINE r == Append(q, f)
<1>1. /\ q \in Seq(Frame) /\ r \in Seq(Frame) /\ Len(q) \in Nat /\ DOMAIN r = 1..(Len(q) + 1)
      /\ DOMAIN q = 1..Len(q)
      /\ \A i \in 1..Len(q) : r[i] = q[i]
      /\ r[Len(q) + 1] = f
  BY AppendProperties DEF Fine
<1>2. q # <<>> => Len(q) > 0
  BY <1>1
<1> HIDE DEF r
<1>3. ASSUME NEW i \in DOMAIN r
      PROVE  /\ r[i].kind = "call" => r[i].via \in Callers /\ ~Failed(r[i])
             /\ r[i].kind = "run" => r[i].via \in Direct \cup {"default", "body"}
             /\ r[i].stopped => disturbed
             /\ r[i].via \in {"default", "body"} =>
                  /\ i > 1 /\ r[i - 1].kind = "call" /\ r[i - 1].state = r[i].state
                  /\ r[i].via = "default" => r[i - 1].todo > 0
  <2>1. CASE i = Len(q) + 1
    BY <1>1, <1>2, <2>1 DEF Failed
  <2>2. CASE i # Len(q) + 1
    <3>1. i \in DOMAIN q /\ r[i] = q[i] /\ (i > 1 => r[i - 1] = q[i - 1])
      BY <1>1, <2>2
    <3> QED BY <3>1 DEF Fine, Entered
  <2> QED BY <2>1, <2>2
<1>4. Entered(r, disturbed)
  BY <1>3 DEF Entered
<1>5. ASSUME NEW i \in DOMAIN r
      PROVE  /\ r[i].failure <= failures
             /\ Failed(r[i]) => e2[r[i].state] = 0 \/ e2[r[i].state] >= r[i].failure
             /\ ~disturbed => ~Failed(r[i])
  <2>1. CASE i = Len(q) + 1
    BY <1>1, <2>1 DEF Failed
  <2>2. CASE i # Len(q) + 1
    <3>1. i \in DOMAIN q /\ r[i] = q[i]
      BY <1>1, <2>2
    <3>2. q[i] \in Frame
      BY <1>1, <3>1
    <3>3. q[i].state \in Runtimes
      BY <3>2 DEF Frame
    <3> QED BY <3>1, <3>3 DEF Fine, Recent, Wiped, Alive
  <2> QED BY <1>1, <2>1, <2>2
<1> QED BY <1>1, <1>4, <1>5 DEF Fine, Recent, Alive, r

\* Returning to any frame below.
LEMMA Returned ==
  ASSUME NEW q \in Seq(Frame), NEW n \in 0..Len(q), Entered(q, disturbed)
  PROVE  /\ SubSeq(q, 1, n) \in Seq(Frame)
         /\ Entered(SubSeq(q, 1, n), disturbed)
         /\ DOMAIN SubSeq(q, 1, n) = 1..n
         /\ \A i \in 1..n : SubSeq(q, 1, n)[i] = q[i] /\ i \in DOMAIN q
<1> DEFINE r == SubSeq(q, 1, n)
<1>1. /\ r \in Seq(Frame) /\ n \in Nat /\ DOMAIN r = 1..n /\ DOMAIN q = 1..Len(q) /\ n <= Len(q)
      /\ \A i \in 1..n : r[i] = q[i]
  BY SubSeqProperties
<1> HIDE DEF r
<1>2. \A i \in DOMAIN r : i \in DOMAIN q /\ r[i] = q[i] /\ (i > 1 => r[i - 1] = q[i - 1])
  BY <1>1
<1>3. Entered(r, disturbed)
  BY <1>2 DEF Entered
<1> QED BY <1>1, <1>2, <1>3 DEF r

-----------------------------------------------------------------------------
(* The steps.                                                                *)

LEMMA Shape ==
  ASSUME CallsInv
  PROVE  /\ stack \in Seq(Frame) /\ Entered(stack, disturbed) /\ Len(stack) \in Nat /\ DOMAIN stack = 1..Len(stack)
         /\ Recent(stack, error, failures)
         /\ error \in [Runtimes -> Messages] /\ calls \in 0..MaxCalls /\ report \in Report
         /\ disturbed \in BOOLEAN /\ failures \in Messages /\ failures \in Nat
         /\ 0 \in Messages /\ Callers \cap {"default", "body"} = {}
BY Parameters DEF CallsInv, TypeOK, Callers, Messages

\* Where script acts, and where a call is about to go on, nothing has failed unless
\* something disturbs failures.
LEMMA Acting ==
  ASSUME CallsInv, Acts \/ On("call") \/ (On("run") /\ ~Failed(Top))
  PROVE  Fine(stack, error)
<1>1. stack \in Seq(Frame) /\ Entered(stack, disturbed) /\ (~disturbed => StillOwn(stack, error))
  BY DEF CallsInv, OwnInv, TypeOK
<1>2. ASSUME ~disturbed PROVE Alive(stack)
  <2>1. CASE stack = <<>>
    BY <1>1, <2>1 DEF Alive
  <2>2. CASE stack # <<>>
    <3>1. Top = stack[Len(stack)] /\ DOMAIN stack = 1..Len(stack) /\ Len(stack) \in DOMAIN stack
      BY <1>1, <2>2, TopFrame
    <3>2. ~Failed(Top)
      BY <1>1, <1>2, <2>2, <3>1 DEF Acts, On, Entered
    <3> QED BY <1>1, <1>2, <3>1, <3>2 DEF Alive, StillOwn
  <2> QED BY <2>1, <2>2
<1> QED BY <1>2, Shape DEF Fine

\* The frames below the topmost one have not failed, undisturbed.
LEMMA BelowFine ==
  ASSUME CallsInv, stack # <<>>, NEW n \in 0..(Len(stack) - 1)
  PROVE  Fine(SubSeq(stack, 1, n), error)
<1>1. stack \in Seq(Frame) /\ Entered(stack, disturbed) /\ Len(stack) \in Nat /\ Recent(stack, error, failures)
      /\ (~disturbed => StillOwn(stack, error))
  BY Shape DEF CallsInv, OwnInv
<1>2. n \in 0..Len(stack) /\ n < Len(stack)
  BY <1>1
<1> DEFINE r == SubSeq(stack, 1, n)
<1>3. /\ r \in Seq(Frame) /\ Entered(r, disturbed) /\ DOMAIN r = 1..n
      /\ \A i \in 1..n : r[i] = stack[i] /\ i \in DOMAIN stack /\ i # Len(stack)
  BY <1>1, <1>2, Returned
<1> HIDE DEF r
<1>4. Recent(r, error, failures)
  BY <1>1, <1>3 DEF Recent
<1>5. ~disturbed => Alive(r)
  BY <1>1, <1>3 DEF Alive, StillOwn
<1> QED BY <1>3, <1>4, <1>5 DEF Fine, r

\* A report that the properties accept.
Sincere(r) ==
  /\ r \in Report
  /\ r.outcome = "rejected" => r.message = 0
  /\ r.outcome = "failed" /\ r.via # "accessor" =>
       /\ r.message = 0 \/ r.message >= r.culprit
       /\ ~disturbed => r.message = r.culprit

LEMMA SincereNow == CallsInv => Sincere(report)
BY Shape DEF CallsInv, Sincere, NoGhostMessage, NotOlder, OwnInv, Exact, ReadsFailure

LEMMA SincereNothing == Sincere(Nothing)
BY NothingType DEF Sincere

\* What is left to show of a step without a failure.
LEMMA Settled ==
  ASSUME CallsInv, disturbed' = disturbed, Fine(stack', error'), error' \in [Runtimes -> Messages],
         calls' \in 0..MaxCalls, failures' = failures, Sincere(report')
  PROVE  CallsInv'
<1>1. TypeOK'
  BY Shape DEF TypeOK, Fine, Sincere
<1>2. NoGhostMessage' /\ NotOlder'
  BY DEF NoGhostMessage, NotOlder, ReadsFailure, Sincere
<1>3. ~disturbed => StillOwn(stack', error')
  BY DEF Alive, StillOwn, Fine
<1>4. ~disturbed => Exact'
  BY DEF Exact, ReadsFailure, Sincere
<1>5. Entered(stack', disturbed') /\ Recent(stack', error', failures')
  BY DEF Fine
<1> QED BY <1>1, <1>2, <1>3, <1>4, <1>5 DEF CallsInv, OwnInv

LEMMA ClearedType ==
  ASSUME CallsInv, NEW s \in Runtimes
  PROVE  /\ Cleared(s) \in [Runtimes -> Messages] /\ Cleared(s)[s] = 0
         /\ Wiped(error, Cleared(s)) /\ Wiped(error, error)
BY Shape DEF Cleared, Wiped

\* A function is entered on frames q.
LEMMA EnterStep ==
  ASSUME CallsInv, disturbed' = disturbed, NEW q, Fine(q, error),
         NEW s \in Runtimes, NEW via \in Direct \cup {"default", "body"}, Enter(q, via, s),
         via \in {"default", "body"} =>
           /\ q # <<>> /\ q[Len(q)].kind = "call" /\ q[Len(q)].state = s
           /\ via = "default" => q[Len(q)].todo > 0,
         report' = Nothing \/ UNCHANGED report
  PROVE  CallsInv'
<1>1. calls' \in 0..MaxCalls /\ failures' = failures
  BY Parameters, Shape DEF Enter
<1> DEFINE f == RunFrame(via, s)
<1>2. /\ f \in Frame /\ f.kind = "run" /\ f.via = via /\ f.state = s
      /\ f.failure = 0 /\ ~f.stopped
      /\ stack' = Append(q, f) /\ error' = Cleared(s)
  BY FrameTypes DEF Enter, RunFrame
<1> HIDE DEF f
<1>3. error' \in [Runtimes -> Messages] /\ Wiped(error, error')
  BY <1>2, ClearedType
<1>4. Fine(stack', error')
  BY <1>2, <1>3, Shape, Pushed
<1>5. Sincere(report')
  BY SincereNow, SincereNothing
<1> QED BY <1>1, <1>3, <1>4, <1>5, Settled

\* A call ends on frames cut to n: it did not fail, or the topmost function did.
LEMMA FinishStep ==
  ASSUME CallsInv, disturbed' = disturbed, stack # <<>>, NEW n \in 0..(Len(stack) - 1),
         NEW via \in Callers \cup Direct,
         NEW outcome \in {"mismatch", "failed", "done"}, NEW culprit \in Messages,
         Finish(via, outcome, SubSeq(stack, 1, n), culprit),
         outcome = "failed" => Failed(Top) /\ culprit = Top.failure
  PROVE  CallsInv'
<1>1. Top \in Frame /\ Top = stack[Len(stack)] /\ Len(stack) \in DOMAIN stack /\ Top.state \in Runtimes
  BY Shape, TopFrame DEF Frame
<1>2. Fine(stack', error) /\ error' = error /\ calls' = calls /\ failures' = failures
  BY BelowFine DEF Finish
<1>3. /\ outcome = "failed" => error[Top.state] = 0 \/ error[Top.state] >= culprit
      /\ outcome = "failed" /\ ~disturbed => error[Top.state] = culprit
  BY <1>1, Shape DEF CallsInv, OwnInv, StillOwn, Recent
<1>4. /\ report' \in Report /\ report'.outcome = outcome /\ report'.culprit = culprit
      /\ report'.via = via
      /\ outcome # "done" /\ via # "accessor" => report'.message = error[Top.state]
  BY <1>1, Shape, ReportType DEF Finish, Outcomes
<1>5. Sincere(report')
  BY <1>3, <1>4 DEF Sincere
<1> QED BY <1>2, <1>5, Shape, Settled

-----------------------------------------------------------------------------
(* The actions.                                                              *)

LEMMA RejectedStep ==
  ASSUME CallsInv, disturbed' = disturbed, NEW s \in Runtimes, NEW via \in Callers, Rejected(via, s)
  PROVE  CallsInv'
<1>1. error' = Cleared(s) /\ report' = AsSeen(via, s, "rejected", 0, error')
      /\ stack' = stack /\ calls' = calls /\ failures' = failures
  BY DEF Rejected, CallClears
<1>2. error' \in [Runtimes -> Messages] /\ error'[s] = 0 /\ Wiped(error, error')
  BY <1>1, ClearedType
<1>3. Sincere(report')
  BY <1>1, <1>2, Shape, ReportType DEF Outcomes, Sincere
<1>4. Fine(stack, error)
  BY Acting DEF Rejected
<1>5. Recent(stack, error', failures)
  <2>1. ASSUME NEW i \in DOMAIN stack PROVE stack[i].state \in Runtimes
    <3>1. stack[i] \in Frame
      BY Shape
    <3> QED BY <3>1 DEF Frame
  <2> QED BY <1>2, <2>1, Shape DEF Recent, Wiped
<1> QED BY <1>1, <1>2, <1>3, <1>4, <1>5, Shape, Settled DEF Fine

\* A call frame is pushed, and for an exact call the body on top of it.
LEMMA CallPushed ==
  ASSUME CallsInv, NEW q, NEW e, Fine(q, error), Wiped(error, e),
         NEW s \in Runtimes, NEW via \in Callers, NEW n \in 0..Defaults
  PROVE  LET r == Append(q, CallFrame(via, s, n))
         IN  /\ Fine(r, e)
             /\ r # <<>> /\ r[Len(r)].kind = "call" /\ r[Len(r)].state = s
<1> DEFINE f == CallFrame(via, s, n)
           r == Append(q, f)
<1>1. /\ f \in Frame /\ f.kind = "call" /\ f.via = via /\ f.state = s
      /\ f.failure = 0 /\ ~f.stopped
  BY FrameTypes DEF CallFrame
<1> HIDE DEF f
<1>2. f.via \notin {"default", "body"}
  BY <1>1 DEF Callers
<1>3. Fine(r, e)
  BY <1>1, <1>2, Shape, Pushed
<1>4. r # <<>> /\ r[Len(r)] = f
  BY <1>1, AppendProperties DEF Fine
<1> QED BY <1>1, <1>3, <1>4 DEF f

LEMMA ExactCallStep ==
  ASSUME CallsInv, disturbed' = disturbed, NEW s \in Runtimes, NEW via \in Callers, ExactCall(via, s)
  PROVE  CallsInv'
<1> DEFINE q == Append(stack, CallFrame(via, s, 0))
<1>1. Fine(stack, error) /\ Wiped(error, error)
  BY Acting, ClearedType DEF ExactCall
<1>2. 0 \in 0..Defaults
  BY Parameters
<1>3. /\ Fine(q, error)
      /\ q # <<>> /\ q[Len(q)].kind = "call" /\ q[Len(q)].state = s
  BY <1>1, <1>2, CallPushed
<1>4. Enter(q, "body", s) /\ report' = Nothing
  BY DEF ExactCall
<1> HIDE DEF q
<1> QED BY <1>3, <1>4, EnterStep

LEMMA SlowCallStep ==
  ASSUME CallsInv, disturbed' = disturbed, NEW s \in Runtimes, NEW via \in Callers, SlowCall(via, s)
  PROVE  CallsInv'
<1>1. error' \in [Runtimes -> Messages] /\ Wiped(error, error')
      /\ calls' = calls /\ failures' = failures
  BY ClearedType DEF SlowCall, CallClears
<1>2. Fine(stack', error')
  <2>1. PICK n \in 0..Defaults : stack' = Append(stack, CallFrame(via, s, n))
    BY DEF SlowCall
  <2>2. Fine(stack, error)
    BY Acting DEF SlowCall
  <2> QED BY <1>1, <2>1, <2>2, CallPushed
<1>3. Sincere(report')
  BY SincereNothing DEF SlowCall
<1> QED BY <1>1, <1>2, <1>3, Shape, Settled

LEMMA ProceedStep ==
  ASSUME CallsInv, disturbed' = disturbed, Proceed
  PROVE  CallsInv'
<1>1. On("call") /\ stack # <<>> /\ Top \in Frame /\ Top = stack[Len(stack)] /\ UNCHANGED report
  BY Shape, TopFrame DEF Proceed, On
<1>2. Fine(stack, error)
  BY <1>1, Acting
<1>3. PICK via \in {"default", "body"} :
        Enter(stack, via, Top.state) /\ (via = "default" => Top.todo > 0)
  BY DEF Proceed, Missing
<1>4. Top.kind = "call" /\ Top.state \in Runtimes
  BY <1>1 DEF On, Frame
<1> QED BY <1>1, <1>2, <1>3, <1>4, EnterStep

LEMMA MismatchStep ==
  ASSUME CallsInv, disturbed' = disturbed, Mismatch
  PROVE  CallsInv'
<1>1. stack # <<>> /\ Top.kind = "call" /\ Top = stack[Len(stack)] /\ Len(stack) \in DOMAIN stack
  BY Shape, TopFrame DEF Mismatch, On
<1>2. Top.via \in Callers
  BY <1>1, Shape DEF Entered
<1>3. Len(stack) - 1 \in 0..(Len(stack) - 1)
  BY <1>1, Shape
<1>4. Finish(Top.via, "mismatch", SubSeq(stack, 1, Len(stack) - 1), 0)
  BY DEF Mismatch, Finish, Below
<1> QED BY <1>1, <1>2, <1>3, <1>4, Shape, FinishStep

LEMMA InvokeStep ==
  ASSUME CallsInv, disturbed' = disturbed, NEW s \in Runtimes, NEW via \in Direct, Invoke(via, s)
  PROVE  CallsInv'
<1>1. Fine(stack, error)
  BY Acting DEF Invoke
<1>2. via \notin {"default", "body"}
  BY DEF Direct
<1> QED BY <1>1, <1>2, EnterStep DEF Invoke

\* The topmost function changes its failure, or whether it is stopped, and nothing else.
LEMMA TopChanged ==
  ASSUME CallsInv, disturbed' = disturbed, On("run"), NEW m \in Messages, NEW b \in BOOLEAN, b => disturbed,
         stack' = [stack EXCEPT ![Len(stack)] = [Top EXCEPT !.failure = m, !.stopped = b]]
  PROVE  /\ stack' \in Seq(Frame) /\ Len(stack') = Len(stack) /\ Entered(stack', disturbed)
         /\ Len(stack) \in DOMAIN stack /\ DOMAIN stack' = DOMAIN stack
         /\ Top.state \in Runtimes /\ Top = stack[Len(stack)]
         /\ \A i \in DOMAIN stack : /\ stack'[i].state = stack[i].state
                                    /\ stack'[i].state \in Runtimes
                                    /\ i # Len(stack) => stack'[i] = stack[i]
         /\ stack'[Len(stack)].failure = m
<1> DEFINE n == Len(stack)
           f == [Top EXCEPT !.failure = m, !.stopped = b]
<1>1. /\ Top \in Frame /\ Top = stack[n] /\ n \in Nat \ {0} /\ DOMAIN stack = 1..n
      /\ Top.kind = "run"
  BY Shape, TopFrame DEF On
<1>2. /\ f \in Frame /\ f.kind = "run" /\ f.via = Top.via /\ f.state = Top.state
      /\ f.todo = Top.todo /\ f.failure = m /\ f.stopped = b
  BY <1>1 DEF Frame
<1>3. stack' = [stack EXCEPT ![n] = f]
  OBVIOUS
<1> HIDE DEF f
<1>4. /\ stack' \in Seq(Frame) /\ DOMAIN stack' = 1..n /\ Len(stack') = n
      /\ \A i \in 1..n : stack'[i] = IF i = n THEN f ELSE stack[i]
  BY <1>1, <1>2, <1>3, Shape, ExceptSeq
<1>5. Entered(stack', disturbed)
  <2>1. ASSUME NEW i \in 1..n
        PROVE  /\ stack'[i].kind = stack[i].kind /\ stack'[i].via = stack[i].via
               /\ stack'[i].state = stack[i].state /\ stack'[i].todo = stack[i].todo
               /\ (stack'[i].kind = "call" => (Failed(stack'[i]) <=> Failed(stack[i])))
               /\ (stack'[i].stopped => stack[i].stopped \/ disturbed)
    BY <1>1, <1>2, <1>4 DEF Failed
  <2>2. \A i \in 1..n : i > 1 => i - 1 \in 1..n
    BY <1>1
  <2>3. ASSUME NEW i \in 1..n
        PROVE  /\ stack'[i].kind = "call" => stack'[i].via \in Callers /\ ~Failed(stack'[i])
               /\ stack'[i].kind = "run" => stack'[i].via \in Direct \cup {"default", "body"}
               /\ stack'[i].stopped => disturbed
    BY <1>1, <2>1, Shape DEF Entered
  <2>4. ASSUME NEW i \in 1..n, stack'[i].via \in {"default", "body"}
        PROVE  /\ i > 1 /\ stack'[i - 1].kind = "call" /\ stack'[i - 1].state = stack'[i].state
               /\ stack'[i].via = "default" => stack'[i - 1].todo > 0
    <3>1. stack[i].via = stack'[i].via /\ stack[i].state = stack'[i].state
      BY <2>1
    <3>2. /\ i > 1 /\ stack[i - 1].kind = "call" /\ stack[i - 1].state = stack[i].state
          /\ stack[i].via = "default" => stack[i - 1].todo > 0
      BY <1>1, <2>4, <3>1, Shape DEF Entered
    <3>3. i - 1 \in 1..n
      BY <2>2, <3>2
    <3>4. /\ stack'[i - 1].kind = stack[i - 1].kind /\ stack'[i - 1].state = stack[i - 1].state
          /\ stack'[i - 1].todo = stack[i - 1].todo
      BY <2>1, <3>3
    <3> QED BY <3>1, <3>2, <3>4
  <2> QED BY <1>4, <2>3, <2>4 DEF Entered
<1>6. ASSUME NEW i \in 1..n
      PROVE  /\ stack'[i].state = stack[i].state /\ stack'[i].state \in Runtimes
             /\ i # n => stack'[i] = stack[i]
  <2>1. stack'[i] \in Frame
    BY <1>4, <1>6
  <2> QED BY <1>1, <1>2, <1>4, <1>6, <2>1 DEF Frame
<1>7. Top.state \in Runtimes /\ n \in 1..n
  BY <1>1 DEF Frame
<1> QED BY <1>1, <1>2, <1>4, <1>5, <1>6, <1>7

LEMMA FailStep ==
  ASSUME CallsInv, disturbed' = disturbed, Fail
  PROVE  CallsInv'
<1> DEFINE n == Len(stack)
           m == failures + 1
<1>1. /\ On("run") /\ ~Failed(Top) /\ failures < MaxFailures /\ failures' = m
      /\ error' = [error EXCEPT ![Top.state] = m] /\ calls' = calls /\ report' = report
      /\ stack' = [stack EXCEPT ![n].failure = m, ![n].stopped = disturbed]
  BY DEF Fail, Raised
<1>2. m \in Messages /\ m \in Nat /\ m > failures /\ m # 0
  BY <1>1, Shape, Parameters DEF Messages
<1>3. stack' = [stack EXCEPT ![n] = [Top EXCEPT !.failure = m, !.stopped = disturbed]]
  <2>1. n \in DOMAIN stack
    BY <1>1, Shape, TopFrame DEF On
  <2> QED BY <1>1, <2>1 DEF Top
<1>4. disturbed \in BOOLEAN
  BY Shape
<1> HIDE DEF m
<1>5. /\ stack' \in Seq(Frame) /\ Len(stack') = n /\ Entered(stack', disturbed)
      /\ n \in DOMAIN stack /\ DOMAIN stack' = DOMAIN stack
      /\ Top.state \in Runtimes /\ Top = stack[n]
      /\ \A i \in DOMAIN stack : /\ stack'[i].state = stack[i].state
                                 /\ stack'[i].state \in Runtimes
                                 /\ i # n => stack'[i] = stack[i]
      /\ stack'[n].failure = m
  BY <1>1, <1>2, <1>3, <1>4, TopChanged
<1>6. TypeOK'
  BY <1>1, <1>2, <1>5, Shape DEF TypeOK
<1>7. Recent(stack', error', failures')
  <2>1. ASSUME NEW i \in DOMAIN stack
        PROVE  /\ stack'[i].failure <= m
               /\ Failed(stack'[i]) =>
                    error'[stack'[i].state] = 0 \/ error'[stack'[i].state] >= stack'[i].failure
    <3>1. CASE i = n
      <4>1. stack'[i].failure = m /\ stack'[i].state = Top.state
        BY <1>5, <3>1
      <4>2. error'[Top.state] = m
        BY <1>1, <1>5, Shape
      <4>3. m <= m /\ m >= m
        BY <1>2
      <4> QED BY <4>1, <4>2, <4>3
    <3>2. CASE i # n
      <4>0. stack[i] \in Frame
        BY Shape
      <4>a. stack[i].failure \in Nat
        BY <4>0 DEF Frame, Messages
      <4>1. stack'[i] = stack[i] /\ stack[i] \in Frame /\ stack[i].failure \in Nat
            /\ stack[i].failure <= failures
        BY <4>0, <4>a, <1>5, <3>2, Shape DEF Recent
      <4>2. CASE stack[i].state = Top.state
        BY <1>1, <1>2, <1>5, <4>1, <4>2, Shape
      <4>3. CASE stack[i].state # Top.state
        <5>1. error'[stack[i].state] = error[stack[i].state]
          BY <1>1, <1>5, <4>1, <4>3, Shape
        <5> QED BY <1>2, <4>1, <5>1, Shape DEF Recent
      <4> QED BY <4>2, <4>3
    <3> QED BY <3>1, <3>2
  <2> QED BY <1>1, <1>5, <2>1 DEF Recent
<1>8. NoGhostMessage' /\ NotOlder'
  BY <1>1 DEF CallsInv, NoGhostMessage, NotOlder, ReadsFailure
<1>9. ASSUME ~disturbed
      PROVE  OwnInv'
  <2>1. Alive(stack)
    BY <1>1, <1>9, Acting DEF Fine
  <2>2. error'[Top.state] = m
    BY <1>1, <1>5, Shape
  <2>3. StillOwn(stack', error')
    BY <1>5, <2>1, <2>2 DEF StillOwn, Alive
  <2>4. Exact'
    BY <1>1, <1>9 DEF CallsInv, OwnInv, Exact, ReadsFailure
  <2> QED BY <2>3, <2>4 DEF OwnInv
<1> QED BY <1>5, <1>6, <1>7, <1>8, <1>9 DEF CallsInv

LEMMA ContinueStep ==
  ASSUME CallsInv, disturbed' = disturbed, Continue
  PROVE  CallsInv'
<1> DEFINE n == Len(stack)
<1>1. /\ On("run") /\ Top.stopped /\ UNCHANGED <<error, calls, failures, report>>
      /\ stack' = [stack EXCEPT ![n].stopped = FALSE]
  BY DEF Continue
<1>2. Top \in Frame /\ Top.failure \in Messages /\ n \in DOMAIN stack /\ Top = stack[n]
  BY <1>1, Shape, TopFrame DEF On, Frame
<1>3. stack' = [stack EXCEPT ![n] = [Top EXCEPT !.failure = Top.failure, !.stopped = FALSE]]
  <2>1. [Top EXCEPT !.stopped = FALSE] = [Top EXCEPT !.failure = Top.failure, !.stopped = FALSE]
    BY <1>2 DEF Frame
  <2> QED BY <1>1, <1>2, <2>1
<1>4. /\ stack' \in Seq(Frame) /\ Len(stack') = n /\ Entered(stack', disturbed)
      /\ DOMAIN stack' = DOMAIN stack
      /\ \A i \in DOMAIN stack : /\ stack'[i].state = stack[i].state
                                 /\ i # n => stack'[i] = stack[i]
      /\ stack'[n].failure = Top.failure
  BY <1>1, <1>2, <1>3, TopChanged
<1>5. \A i \in DOMAIN stack : stack'[i].failure = stack[i].failure
  BY <1>2, <1>4
<1>6. Recent(stack', error, failures)
  BY <1>4, <1>5, Shape DEF Recent, Failed
<1>7. disturbed
  BY <1>1, <1>2, Shape DEF Entered
<1>8. Fine(stack', error')
  BY <1>1, <1>4, <1>6, <1>7 DEF Fine
<1> QED BY <1>1, <1>8, Shape, SincereNow, Settled

\* The frame of the call that entered the topmost function.
LEMMA Caller ==
  ASSUME CallsInv, On("run"), Top.via \in {"default", "body"}
  PROVE  LET c == stack[Len(stack) - 1]
         IN  /\ Len(stack) > 1 /\ Len(stack) - 1 \in DOMAIN stack
             /\ c \in Frame /\ c.kind = "call" /\ c.via \in Callers /\ ~Failed(c)
             /\ Top.via = "default" => c.todo > 0
<1>1. Len(stack) \in DOMAIN stack /\ Top = stack[Len(stack)]
  BY Shape, TopFrame DEF On
<1>2. Len(stack) > 1 /\ Len(stack) - 1 \in DOMAIN stack
  BY <1>1, Shape DEF Entered
<1> QED BY <1>1, <1>2, Shape DEF Entered

LEMMA BodyReturnsStep ==
  ASSUME CallsInv, disturbed' = disturbed, BodyReturns
  PROVE  CallsInv'
<1> DEFINE c == stack[Len(stack) - 1]
<1>1. /\ stack # <<>> /\ c.via \in Callers /\ Len(stack) - 2 \in 0..(Len(stack) - 1)
      /\ Top.failure \in Messages
  BY Shape, TopFrame, Caller DEF BodyReturns, Returns, On, Frame
<1>2. CASE Failed(Top)
  <2>1. Finish(c.via, "failed", SubSeq(stack, 1, Len(stack) - 2), Top.failure)
    BY <1>2 DEF BodyReturns
  <2> QED BY <1>1, <1>2, <2>1, FinishStep
<1>3. CASE ~Failed(Top)
  <2>1. Finish(c.via, "done", SubSeq(stack, 1, Len(stack) - 2), 0)
    BY <1>3 DEF BodyReturns
  <2> QED BY <1>1, <1>3, <2>1, Shape, FinishStep
<1> QED BY <1>2, <1>3

LEMMA DefaultReturnsStep ==
  ASSUME CallsInv, disturbed' = disturbed, DefaultReturns
  PROVE  CallsInv'
<1> DEFINE n == Len(stack) - 1
           c == stack[n]
<1>1. /\ stack # <<>> /\ n \in Nat \ {0} /\ Len(stack) - 2 \in 0..(Len(stack) - 1) /\ n \in DOMAIN stack
      /\ n \in 0..(Len(stack) - 1)
      /\ c \in Frame /\ c.kind = "call" /\ c.via \in Callers /\ ~Failed(c) /\ c.todo > 0
      /\ Top.failure \in Messages
  <2>1. On("run") /\ Top.via = "default" /\ stack # <<>> /\ Top.failure \in Messages
    BY Shape, TopFrame DEF DefaultReturns, Returns, On, Frame
  <2> QED BY <2>1, Shape, Caller
<1>2. CASE Failed(Top)
  <2>1. Finish(c.via, "failed", SubSeq(stack, 1, Len(stack) - 2), Top.failure)
    BY <1>2 DEF DefaultReturns
  <2> QED BY <1>1, <1>2, <2>1, FinishStep
<1>3. CASE ~Failed(Top)
  <2> DEFINE f == [c EXCEPT !.todo = @ - 1]
  <2>1. c.todo - 1 \in 0..Defaults
    BY <1>1, Parameters DEF Frame
  <2>2. /\ f \in Frame /\ f.kind = "call" /\ f.via = c.via /\ f.failure = c.failure
        /\ f.stopped = c.stopped /\ f.state = c.state
    BY <1>1, <2>1 DEF Frame
  <2>3. /\ Fine(Below, error) /\ Below \in Seq(Frame) /\ DOMAIN Below = 1..n /\ Len(Below) = n
        /\ \A i \in 1..n : Below[i] = stack[i]
    BY <1>1, Shape, Returned, SubSeqProperties, BelowFine DEF Below
  <2>4. /\ stack' = [Below EXCEPT ![n] = f]
        /\ error' = error /\ calls' = calls /\ failures' = failures /\ report' = report
    BY <1>1, <1>3, <2>3 DEF DefaultReturns
  <2> HIDE DEF f
  <2>5. /\ stack' \in Seq(Frame) /\ DOMAIN stack' = 1..n
        /\ \A i \in 1..n : stack'[i] = IF i = n THEN f ELSE Below[i]
    BY <1>1, <2>2, <2>3, <2>4, ExceptSeq
  <2>6. Entered(stack', disturbed)
    <3>1. f.via \notin {"default", "body"} /\ ~Failed(f) /\ (f.stopped => disturbed)
      BY <1>1, <2>2, Shape DEF Callers, Failed, Entered
    <3>2. ASSUME NEW i \in 1..n, i # n
          PROVE  stack'[i] = Below[i] /\ (i > 1 => stack'[i - 1] = Below[i - 1])
      BY <1>1, <2>5, <3>2
    <3> QED BY <1>1, <2>2, <2>3, <2>5, <3>1, <3>2 DEF Entered, Fine
  <2>7. \A i \in 1..n : stack'[i].failure = Below[i].failure /\ stack'[i].state = Below[i].state
    BY <1>1, <2>2, <2>3, <2>5
  <2>8. Recent(stack', error, failures) /\ (~disturbed => Alive(stack'))
    BY <2>3, <2>5, <2>7 DEF Fine, Recent, Alive, Failed
  <2> QED BY <2>4, <2>5, <2>6, <2>8, Shape, SincereNow, Settled DEF Fine
<1> QED BY <1>2, <1>3

LEMMA MembersReturnStep ==
  ASSUME CallsInv, disturbed' = disturbed, MembersReturn
  PROVE  CallsInv'
<1>1. /\ stack # <<>> /\ Len(stack) - 1 \in 0..(Len(stack) - 1)
      /\ Top.failure \in Messages /\ Top.state \in Runtimes
  BY Shape, TopFrame DEF MembersReturn, Returns, On, Frame
<1>2. CASE Failed(Top) /\ Finish("members", "failed", Below, Top.failure)
  BY <1>1, <1>2, FinishStep DEF Below, Direct
<1>3. CASE Finish("members", "done", Below, 0)
  BY <1>1, <1>3, Shape, FinishStep DEF Below, Direct
<1>4. CASE /\ Enter(Append(Below, CallFrame("init", Top.state, 0)), "body", Top.state)
           /\ report' = Nothing
  <2> DEFINE q == Append(Below, CallFrame("init", Top.state, 0))
  <2>1. Fine(Below, error) /\ Wiped(error, error)
    BY <1>1, BelowFine, ClearedType DEF Below
  <2>2. "init" \in Callers /\ 0 \in 0..Defaults
    BY Parameters DEF Callers
  <2>3. /\ Fine(q, error)
        /\ q # <<>> /\ q[Len(q)].kind = "call" /\ q[Len(q)].state = Top.state
    BY <1>1, <2>1, <2>2, CallPushed
  <2> HIDE DEF q
  <2> QED BY <1>1, <1>4, <2>3, EnterStep DEF q
<1> QED BY <1>2, <1>3, <1>4 DEF MembersReturn

LEMMA ResumeReturnsStep ==
  ASSUME CallsInv, disturbed' = disturbed, ResumeReturns
  PROVE  CallsInv'
<1>1. stack # <<>> /\ Len(stack) - 1 \in 0..(Len(stack) - 1) /\ Top.failure \in Messages
  BY Shape, TopFrame DEF ResumeReturns, Returns, On, Frame
<1>2. CASE Failed(Top)
  BY <1>1, <1>2, FinishStep DEF ResumeReturns, Below, Direct
<1>3. CASE ~Failed(Top)
  BY <1>1, <1>3, Shape, FinishStep DEF ResumeReturns, Below, Direct
<1> QED BY <1>2, <1>3

-----------------------------------------------------------------------------
(* The theorems.                                                             *)

LEMMA CallsInit == Init => CallsInv
<1> SUFFICES ASSUME Init PROVE CallsInv
  OBVIOUS
<1>1. 0 \in 0..MaxCalls /\ 0 \in Messages
  BY Parameters DEF Messages
<1>2. stack = <<>> /\ stack \in Seq(Frame) /\ DOMAIN stack = {}
  BY DEF Init
<1>3. TypeOK
  BY <1>1, <1>2, NothingType DEF Init, TypeOK
<1>4. Entered(stack, disturbed) /\ StillOwn(stack, error) /\ Recent(stack, error, failures)
  BY <1>2 DEF Entered, StillOwn, Recent
<1>5. NoGhostMessage /\ NotOlder /\ Exact
  BY NothingType DEF Init, NoGhostMessage, NotOlder, Exact, ReadsFailure
<1> QED BY <1>3, <1>4, <1>5 DEF CallsInv, OwnInv

LEMMA CallsNext == CallsInv /\ [Next]_vars => CallsInv'
<1> SUFFICES ASSUME CallsInv, [Next]_vars PROVE CallsInv'
  OBVIOUS
<1>1. CASE UNCHANGED vars
  BY <1>1 DEF vars, CallsInv, TypeOK, NoGhostMessage, NotOlder, OwnInv, Exact,
              ReadsFailure
<1>2. CASE Next
  BY <1>2, RejectedStep, ExactCallStep, SlowCallStep, ProceedStep, MismatchStep, InvokeStep,
     FailStep, ContinueStep, BodyReturnsStep, DefaultReturnsStep, MembersReturnStep,
     ResumeReturnsStep DEF Next, Step
<1> QED BY <1>1, <1>2

LEMMA CallsInvariant == Spec => []CallsInv
BY CallsInit, CallsNext, PTL DEF Spec

\* Every function that returns finds the frame of the call that entered it, whatever
\* calls nest, also when destroying a local or a debugger stop runs script, and every
\* field keeps its type.
THEOREM TypeCorrect == Spec => []TypeOK
<1>1. CallsInv => TypeOK
  BY DEF CallsInv
<1> QED BY <1>1, CallsInvariant, PTL

\* A caller whose call failed reads the message of the activation that failed, however
\* many failed before and inside it.  Where destructors and a stopped debugger run script
\* between the failure and its report, it reads that message, none, or one raised since.
THEOREM FailureIsOwn == Spec => []OwnMessage
<1>1. ASSUME CallsInv PROVE OwnMessage
  <2>1. NotOlder /\ Exact
    BY <1>1 DEF CallsInv, OwnInv, Exact
  <2>2. report.message \in Nat /\ report.culprit \in Nat
    BY <1>1, Shape DEF Report, Messages
  <2> QED BY <2>1, <2>2 DEF NotOlder, Exact, OwnMessage
<1> QED BY <1>1, CallsInvariant, PTL

\* A call that was rejected before it ran anything reports no message of an earlier one.
THEOREM RejectionIsClean == Spec => []NoGhostMessage
<1>1. CallsInv => NoGhostMessage
  BY DEF CallsInv
<1> QED BY <1>1, CallsInvariant, PTL
=============================================================================
