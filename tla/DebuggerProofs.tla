--------------------------- MODULE DebuggerProofs ---------------------------
(***************************************************************************)
(* Proofs about the debugger's hook, for every code and any height of the   *)
(* stack: stepping stops where it was asked to, and the stack shown is that *)
(* of the functions that run.                                               *)
(***************************************************************************)
EXTENDS Debugger, SequenceTheorems, FiniteSetTheorems, TLAPS

-----------------------------------------------------------------------------
(* The inductive invariant.                                                  *)

Kinds == {"ours", "other"}
Commands == {"into", "over", "out", "continue"}
Calls == [kind : Kinds, begun : BOOLEAN, failed : BOOLEAN]
Stops == [height : 1..MaxHeight, view : Seq(Nat), ours : BOOLEAN]

\* How many of the first h functions of q are of this language.
Ours(q, h) == Cardinality({k \in 1..h : q[k].kind = "ours"})

\* What the debugger showed when n frames of q were there.
View(q, n) == [k \in 1..n |-> Line(q[n + 1 - k])]

TypeInv ==
  /\ DebuggerTypeOK
  /\ stops \in Seq(Stops)
  /\ goal \in [command : Commands, height : 0..MaxHeight]

\* Only the innermost function may have reached no line yet; if it is of this language
\* its frame says so.
BegunInv ==
  /\ \A k \in 1..Height : k < Height => calls[k].begun
  /\ Height > 0 /\ Top(calls).kind = "ours" /\ ~Top(calls).begun =>
       frames # <<>> /\ Top(frames) = 0

\* Every stop was made by a function that has reached a line, above the stop before it;
\* nothing that it showed has changed.
StopInv ==
  /\ \A j, k \in 1..Len(stops) : j < k => stops[j].height < stops[k].height
  /\ \A k \in 1..Len(stops) :
       /\ stops[k].height <= Height /\ calls[stops[k].height].begun
       /\ stops[k].view = View(frames, Ours(calls, stops[k].height))

FrameInv == Len(frames) = Ours(calls, Height)

\* The height at or below which the command stops.
StopAt == IF goal.command = "out" THEN goal.height - 1 ELSE goal.height

\* The depth counts the functions above the limit, until one below it has returned: then
\* no line comes before the one to stop at.
Counts == depth >= 0 /\ depth = Height - StopAt
Waits == /\ depth = -1 /\ Height <= StopAt
         /\ Height = StopAt => Height > 0 /\ ~Top(calls).begun

StepInv ==
  /\ verdict = "right"
  /\ linesLeft # 1 => goal.command = "continue"
  /\ linesLeft = 1 => \/ goal.command = "into" /\ depth = -1
                      \/ /\ goal.command \in {"over", "out"} /\ goal.height > 0
                         /\ Counts \/ Waits

DebugInv == TypeInv /\ BegunInv /\ StopInv /\ FrameInv /\ StepInv

-----------------------------------------------------------------------------
(* How many functions are of this language, and what the debugger shows.     *)

LEMMA OursFinite ==
  ASSUME NEW q, NEW h \in Nat
  PROVE  IsFiniteSet({k \in 1..h : q[k].kind = "ours"}) /\ Ours(q, h) \in Nat
<1>1. IsFiniteSet({k \in 1..h : q[k].kind = "ours"})
  <2>1. IsFiniteSet(1..h)
    BY FS_Interval
  <2>2. {k \in 1..h : q[k].kind = "ours"} \subseteq 1..h
    OBVIOUS
  <2> QED BY <2>1, <2>2, FS_Subset
<1> QED BY <1>1, FS_CardinalityType DEF Ours

LEMMA OursNext ==
  ASSUME NEW q, NEW h \in Nat
  PROVE  Ours(q, h + 1) = IF q[h + 1].kind = "ours" THEN Ours(q, h) + 1 ELSE Ours(q, h)
<1> DEFINE S == {k \in 1..h : q[k].kind = "ours"}
           T == {k \in 1..(h + 1) : q[k].kind = "ours"}
<1>1. IsFiniteSet(S) /\ Cardinality(S) = Ours(q, h) /\ Cardinality(T) = Ours(q, h + 1)
  BY OursFinite DEF Ours
<1>2. CASE q[h + 1].kind = "ours"
  <2>1. T = S \cup {h + 1} /\ h + 1 \notin S
    BY <1>2
  <2> QED BY <1>1, <1>2, <2>1, FS_AddElement
<1>3. CASE q[h + 1].kind # "ours"
  <2>1. T = S
    BY <1>3
  <2> QED BY <1>1, <1>3, <2>1
<1> QED BY <1>2, <1>3

LEMMA OursSame ==
  ASSUME NEW q, NEW r, NEW h \in Nat, \A k \in 1..h : r[k].kind = q[k].kind
  PROVE  Ours(r, h) = Ours(q, h)
<1>1. {k \in 1..h : r[k].kind = "ours"} = {k \in 1..h : q[k].kind = "ours"}
  OBVIOUS
<1> QED BY <1>1 DEF Ours

LEMMA OursGrows ==
  ASSUME NEW q, NEW h \in Nat, NEW g \in 0..h
  PROVE  Ours(q, g) <= Ours(q, h)
<1>1. {k \in 1..g : q[k].kind = "ours"} \subseteq {k \in 1..h : q[k].kind = "ours"}
  OBVIOUS
<1> QED BY <1>1, OursFinite, FS_Subset DEF Ours

LEMMA ViewSame ==
  ASSUME NEW p, NEW q, NEW n \in Nat, \A i \in 1..n : q[i] = p[i]
  PROVE  View(q, n) = View(p, n)
<1>1. \A k \in 1..n : n + 1 - k \in 1..n
  OBVIOUS
<1> QED BY <1>1 DEF View

LEMMA CodeLines ==
  ASSUME DebuggerParameters
  PROVE  /\ \A i \in Instructions : Line(i) \in Nat \ {0}
         /\ Line(0) = 0 /\ 0 \notin Instructions /\ Instructions \subseteq Nat
BY DEF DebuggerParameters, Line, Instructions

LEMMA StackShown ==
  ASSUME DebuggerParameters, NEW f \in Seq({0} \cup Instructions)
  PROVE  /\ [n \in DOMAIN f |-> Line(f[Len(f) - (n - 1)])] = View(f, Len(f))
         /\ View(f, Len(f)) \in Seq(Nat)
<1>1. Len(f) \in Nat /\ DOMAIN f = 1..Len(f)
  OBVIOUS
<1>2. \A n \in 1..Len(f) : /\ Len(f) - (n - 1) = Len(f) + 1 - n
                           /\ f[Len(f) + 1 - n] \in {0} \cup Instructions
  BY <1>1
<1>3. [n \in DOMAIN f |-> Line(f[Len(f) - (n - 1)])] = View(f, Len(f))
  BY <1>1, <1>2 DEF View
<1>4. \A n \in 1..Len(f) : Line(f[Len(f) + 1 - n]) \in Nat
  BY <1>2, CodeLines
<1> QED BY <1>1, <1>3, <1>4 DEF View

\* What every step starts from.
LEMMA Facts ==
  ASSUME DebuggerParameters, DebugInv
  PROVE  /\ calls \in Seq(Calls) /\ Height \in Nat /\ Height = Len(calls)
         /\ MaxHeight \in Nat /\ Height <= MaxHeight
         /\ frames \in Seq({0} \cup Instructions) /\ Len(frames) \in Nat
         /\ stops \in Seq(Stops) /\ Len(stops) \in Nat
         /\ \A k \in 1..Len(stops) : /\ stops[k] \in Stops /\ stops[k].height \in 1..Height
                                     /\ Ours(calls, stops[k].height) \in Nat
                                     /\ Ours(calls, stops[k].height) <= Len(frames)
<1>1. /\ calls \in Seq(Calls) /\ Height \in Nat /\ Height = Len(calls)
      /\ MaxHeight \in Nat /\ Height <= MaxHeight
      /\ frames \in Seq({0} \cup Instructions) /\ Len(frames) \in Nat
      /\ stops \in Seq(Stops) /\ Len(stops) \in Nat
  <2>1. calls \in Seq(Calls) /\ Height <= MaxHeight
    BY DEF DebugInv, TypeInv, DebuggerTypeOK, Calls, Kinds
  <2>2. Height = Len(calls) /\ Len(calls) \in Nat /\ MaxHeight \in Nat
    BY <2>1 DEF Height, DebuggerParameters
  <2>3. frames \in Seq({0} \cup Instructions)
    BY DEF DebugInv, TypeInv, DebuggerTypeOK
  <2>4. Len(frames) \in Nat
    BY <2>3
  <2>5. stops \in Seq(Stops) /\ Len(stops) \in Nat
    BY DEF DebugInv, TypeInv
  <2> QED BY <2>1, <2>2, <2>3, <2>4, <2>5
<1>2. ASSUME NEW k \in 1..Len(stops)
      PROVE  /\ stops[k] \in Stops /\ stops[k].height \in 1..Height
             /\ Ours(calls, stops[k].height) \in Nat
             /\ Ours(calls, stops[k].height) <= Len(frames)
  <2>1. stops[k] \in Stops
    BY <1>1
  <2>2. stops[k].height \in 1..Height
    BY <1>1, <2>1 DEF Stops, DebugInv, StopInv
  <2>3. stops[k].height \in Nat /\ stops[k].height \in 0..Height
    BY <1>1, <2>2
  <2>4. Ours(calls, stops[k].height) \in Nat
    BY <2>3, OursFinite
  <2>5. Ours(calls, stops[k].height) <= Ours(calls, Height)
    BY <1>1, <2>3, OursGrows
  <2> QED BY <2>1, <2>2, <2>4, <2>5 DEF DebugInv, FrameInv
<1> QED BY <1>1, <1>2

\* The numbers that say when to stop.
LEMMA Numbers ==
  ASSUME DebuggerParameters, DebugInv
  PROVE  /\ linesLeft \in {-1, 0, 1} /\ depth \in Int /\ depth >= -1 /\ depth <= MaxHeight + 1
         /\ goal.command \in Commands /\ goal.height \in Nat /\ goal.height <= MaxHeight
         /\ StopAt \in Int
         /\ goal.height > 0 => StopAt >= 0
<1>1. linesLeft \in {-1, 0, 1} /\ depth \in -1..(MaxHeight + 1)
  BY DEF DebugInv, TypeInv, DebuggerTypeOK
<1>2. goal.command \in Commands /\ goal.height \in 0..MaxHeight
  BY DEF DebugInv, TypeInv
<1> QED BY <1>1, <1>2, Facts DEF StopAt

\* The frames below that of the innermost function.
LEMMA TopFrame ==
  ASSUME DebuggerParameters, DebugInv, Height > 0
  PROVE  /\ Ours(calls, Height - 1) \in Nat
         /\ calls[Height].kind = "ours" => Len(frames) = Ours(calls, Height - 1) + 1
         /\ calls[Height].kind # "ours" => Len(frames) = Ours(calls, Height - 1)
<1>1. Height - 1 \in Nat /\ (Height - 1) + 1 = Height
  BY Facts
<1>2. Ours(calls, Height) = IF calls[Height].kind = "ours" THEN Ours(calls, Height - 1) + 1
                            ELSE Ours(calls, Height - 1)
  BY <1>1, OursNext
<1>3. Ours(calls, Height - 1) \in Nat
  BY <1>1, OursFinite
<1> QED BY <1>2, <1>3 DEF DebugInv, FrameInv

\* Where a function runs, all stops in progress are below it, and so is what they show.
LEMMA Above ==
  ASSUME DebuggerParameters, DebugInv, ~Blocked, Height > 0, NEW k \in 1..Len(stops)
  PROVE  /\ stops[k].height \in 1..(Height - 1)
         /\ Ours(calls, stops[k].height) \in 0..Ours(calls, Height - 1)
<1>1. /\ Height \in Nat /\ Len(stops) \in Nat /\ stops[k].height \in 1..Height
      /\ stops[Len(stops)].height \in 1..Height
  BY Facts
<1>2. stops[Len(stops)].height # Height
  BY <1>1 DEF Blocked, Top
<1>3. k < Len(stops) => stops[k].height < stops[Len(stops)].height
  BY <1>1 DEF DebugInv, StopInv
<1>4. stops[k].height \in 0..(Height - 1) /\ Height - 1 \in Nat
  BY <1>1, <1>2, <1>3
<1>5. Ours(calls, stops[k].height) <= Ours(calls, Height - 1)
  BY <1>4, OursGrows
<1>6. Ours(calls, Height - 1) \in Nat /\ Ours(calls, stops[k].height) \in Nat
  BY <1>1, Facts, TopFrame
<1>7. stops[k].height \in 1..(Height - 1)
  BY <1>1, <1>4
<1> QED BY <1>5, <1>6, <1>7

-----------------------------------------------------------------------------
(* Entering and leaving.                                                     *)

LEMMA EnterKeeps ==
  ASSUME DebuggerParameters, DebugInv, NEW kind \in Kinds, Enter(kind)
  PROVE  DebugInv'
<1> DEFINE new == [kind |-> kind, begun |-> FALSE, failed |-> FALSE]
<1>1. /\ calls' = Append(calls, new) /\ calls' \in Seq(Calls)
      /\ Height' = Height + 1 /\ Len(calls') = Height + 1
      /\ calls'[Height + 1] = new
      /\ \A k \in 1..Height : calls'[k] = calls[k]
  <2>1. new \in Calls
    BY DEF Calls, Kinds
  <2> QED BY <2>1, Facts, AppendProperties DEF Enter, Height
<1>2. /\ frames' \in Seq({0} \cup Instructions)
      /\ kind = "ours" => Len(frames') = Len(frames) + 1 /\ frames'[Len(frames) + 1] = 0
      /\ kind # "ours" => frames' = frames
      /\ \A k \in 1..Len(frames) : frames'[k] = frames[k]
  BY Facts, AppendProperties DEF Enter
<1>3. TypeInv'
  <2>1. depth' \in -1..(MaxHeight + 1)
    <3>1. Height < MaxHeight /\ depth' = Deeper
      BY DEF Enter
    <3>2. Counting => depth = Height - StopAt /\ StopAt >= 0
      BY Numbers DEF Counting, DebugInv, StepInv, Counts, Waits
    <3> QED BY <3>1, <3>2, Facts, Numbers DEF Deeper, Counting
  <2>2. Height' <= MaxHeight
    BY <1>1, Facts DEF Enter
  <2> QED BY <1>1, <1>2, <2>1, <2>2 DEF Enter, DebugInv, TypeInv, DebuggerTypeOK, Calls, Kinds
<1>4. \A k \in 1..Height : calls[k].begun
  <2>1. CASE Blocked
    BY <2>1, Facts DEF Blocked, Top, DebugInv, BegunInv, StopInv
  <2>2. CASE ~Blocked
    BY <2>2, Facts DEF Enter, Top, Height, DebugInv, BegunInv
  <2> QED BY <2>1, <2>2
<1>5. BegunInv'
  <2>1. \A k \in 1..Height' : k < Height' => calls'[k].begun
    BY <1>1, <1>4, Facts
  <2>2. Top(calls') = new
    BY <1>1 DEF Top
  <2>3. kind = "ours" => frames' # <<>> /\ Top(frames') = 0
    BY <1>2, Facts DEF Top
  <2> QED BY <2>1, <2>2, <2>3 DEF BegunInv
<1>6. StopInv'
  <2>1. stops' = stops
    BY DEF Enter
  <2>2. ASSUME NEW k \in 1..Len(stops)
        PROVE  /\ stops[k].height <= Height' /\ calls'[stops[k].height].begun
               /\ stops[k].view = View(frames', Ours(calls', stops[k].height))
    <3>1. stops[k].height \in 1..Height /\ stops[k].height \in Nat
      BY Facts
    <3>2. Ours(calls', stops[k].height) = Ours(calls, stops[k].height)
      <4>1. \A j \in 1..stops[k].height : calls'[j].kind = calls[j].kind
        BY <1>1, <3>1, Facts
      <4> QED BY <3>1, <4>1, OursSame
    <3>3. View(frames', Ours(calls, stops[k].height)) = View(frames, Ours(calls, stops[k].height))
      BY <1>2, Facts, ViewSame
    <3> QED BY <1>1, <3>1, <3>2, <3>3, Facts DEF DebugInv, StopInv
  <2> QED BY <2>1, <2>2 DEF DebugInv, StopInv
<1>7. FrameInv'
  <2>1. Ours(calls', Height) = Ours(calls, Height)
    BY <1>1, Facts, OursSame
  <2>2. Ours(calls', Height + 1) = IF kind = "ours" THEN Ours(calls', Height) + 1
                                   ELSE Ours(calls', Height)
    <3>1. calls'[Height + 1].kind = kind /\ Height \in Nat
      BY <1>1, Facts
    <3> QED BY <3>1, OursNext
  <2>3. Len(frames') = Ours(calls', Height + 1)
    BY <1>2, <2>1, <2>2 DEF DebugInv, FrameInv
  <2> QED BY <1>1, <2>3 DEF FrameInv
<1>8. StepInv'
  <2>1. Height \in Nat /\ Height' = Height + 1 /\ ~Top(calls').begun
    BY <1>1, Facts DEF Top
  <2>2. ~(Height > 0 /\ ~Top(calls).begun)
    BY <1>4, <2>1 DEF Top, Height
  <2>3. /\ linesLeft' = linesLeft /\ goal' = goal /\ verdict' = verdict /\ depth' = Deeper
    BY DEF Enter
  <2> QED BY <2>1, <2>2, <2>3, Numbers DEF DebugInv, StepInv, Deeper, Counting, Counts, Waits, StopAt
<1> QED BY <1>3, <1>5, <1>6, <1>7, <1>8 DEF DebugInv

LEMMA ExitKeeps ==
  ASSUME DebuggerParameters, DebugInv, NEW kind \in Kinds, Exit(kind)
  PROVE  DebugInv'
<1>1. /\ ~Blocked /\ Height \in Nat /\ Height > 0 /\ Height - 1 \in Nat
      /\ Height <= MaxHeight /\ MaxHeight \in Nat
      /\ calls[Height].kind = kind
      /\ calls' = SubSeq(calls, 1, Height - 1)
  BY Facts DEF Exit, Runs, Top, Pop, Height
<1>2. /\ calls' \in Seq(Calls) /\ Height' = Height - 1 /\ Len(calls') = Height - 1
      /\ \A k \in 1..(Height - 1) : calls'[k] = calls[k]
  <2> DEFINE n == Height - 1
  <2>1. n \in 0..Len(calls)
    BY <1>1, Facts
  <2> HIDE DEF n
  <2>2. /\ SubSeq(calls, 1, n) \in Seq(Calls) /\ Len(SubSeq(calls, 1, n)) = n
        /\ \A k \in 1..n : SubSeq(calls, 1, n)[k] = calls[k]
    BY <2>1, Facts, SubSeqProperties
  <2> QED BY <1>1, <2>2 DEF n, Height
<1>3. /\ frames' \in Seq({0} \cup Instructions)
      /\ Len(frames') = Ours(calls, Height - 1) /\ Len(frames') <= Len(frames)
      /\ \A k \in 1..Len(frames') : frames'[k] = frames[k]
  <2> DEFINE n == Len(frames) - 1
  <2>1. CASE kind = "ours"
    <3>1. Len(frames) = Ours(calls, Height - 1) + 1 /\ Ours(calls, Height - 1) \in Nat
      BY <1>1, <2>1, TopFrame
    <3>2. n \in 0..Len(frames) /\ n = Ours(calls, Height - 1) /\ frames' = SubSeq(frames, 1, n)
      BY <2>1, <3>1, Facts DEF Exit, Popped, Pop
    <3> HIDE DEF n
    <3>3. /\ SubSeq(frames, 1, n) \in Seq({0} \cup Instructions)
          /\ Len(SubSeq(frames, 1, n)) = n
          /\ \A k \in 1..n : SubSeq(frames, 1, n)[k] = frames[k]
      BY <3>2, Facts, SubSeqProperties
    <3> QED BY <3>2, <3>3, Facts
  <2>2. CASE kind # "ours"
    BY <1>1, <2>2, TopFrame, Facts DEF Exit
  <2> QED BY <2>1, <2>2
<1>4. depth' = Shallower /\ linesLeft' = linesLeft /\ goal' = goal /\ verdict' = verdict
  BY DEF Exit
<1>5. TypeInv'
  <2>1. depth' \in -1..(MaxHeight + 1)
    BY <1>1, <1>4, Numbers DEF Shallower, Counting
  <2>2. UNCHANGED <<error, linesLeft, breakpoints, skipping, stops, goal, verdict>>
    BY DEF Exit
  <2>3. Height' <= MaxHeight
    BY <1>1, <1>2
  <2> QED BY <1>2, <1>3, <2>1, <2>2, <2>3 DEF DebugInv, TypeInv, DebuggerTypeOK, Calls, Kinds
<1>6. BegunInv'
  <2>1. \A k \in 1..Height' : calls'[k].begun
    <3>1. \A k \in 1..(Height - 1) : calls[k].begun
      BY <1>1 DEF DebugInv, BegunInv
    <3> QED BY <1>2, <3>1
  <2>2. Height' > 0 => Top(calls').begun
    BY <1>1, <1>2, <2>1 DEF Top
  <2> QED BY <2>1, <2>2 DEF BegunInv
<1>7. StopInv'
  <2>1. stops' = stops
    BY DEF Exit
  <2>2. ASSUME NEW k \in 1..Len(stops)
        PROVE  /\ stops[k].height <= Height' /\ calls'[stops[k].height].begun
               /\ stops[k].view = View(frames', Ours(calls', stops[k].height))
    <3>1. /\ stops[k].height \in 1..(Height - 1) /\ stops[k].height \in Nat
          /\ Ours(calls, stops[k].height) \in 0..Len(frames')
      BY <1>1, <1>3, Above, Facts
    <3>2. \A j \in 1..stops[k].height : calls'[j].kind = calls[j].kind
      BY <1>1, <1>2, <3>1
    <3>3. Ours(calls', stops[k].height) = Ours(calls, stops[k].height)
      BY <3>1, <3>2, OursSame
    <3>4. Ours(calls, stops[k].height) \in Nat
          /\ \A j \in 1..Ours(calls, stops[k].height) : frames'[j] = frames[j]
      BY <1>3, <3>1, Facts
    <3>5. View(frames', Ours(calls, stops[k].height)) = View(frames, Ours(calls, stops[k].height))
      BY <3>4, ViewSame
    <3> QED BY <1>1, <1>2, <3>1, <3>3, <3>5 DEF DebugInv, StopInv
  <2> QED BY <2>1, <2>2 DEF DebugInv, StopInv
<1>8. FrameInv'
  <2>1. Ours(calls', Height - 1) = Ours(calls, Height - 1)
    BY <1>1, <1>2, OursSame
  <2> QED BY <1>2, <1>3, <2>1 DEF FrameInv
<1>9. StepInv'
  <2>1. Height \in Nat /\ Height' = Height - 1
    BY <1>2, Facts
  <2> QED BY <1>4, <2>1, Numbers DEF DebugInv, StepInv, Shallower, Counting, Counts, Waits, StopAt
<1> QED BY <1>5, <1>6, <1>7, <1>8, <1>9 DEF DebugInv

-----------------------------------------------------------------------------
(* Resuming.                                                                 *)

LEMMA CommandKeeps ==
  ASSUME DebuggerParameters, DebugInv, NEW c \in DOMAIN Depths, Command(c)
  PROVE  DebugInv'
<1> DEFINE n == Len(stops) - 1
<1>1. n \in 0..Len(stops) /\ stops' = SubSeq(stops, 1, n)
      /\ Height \in 1..MaxHeight /\ Height \in Nat /\ Height > 0 /\ MaxHeight \in Nat
  <2>1. stops # <<>> /\ stops[Len(stops)].height = Height /\ stops' = SubSeq(stops, 1, n)
    BY DEF Command, Blocked, Top, Pop
  <2>2. Len(stops) \in Nat /\ Len(stops) > 0
    BY <2>1, Facts
  <2>3. stops[Len(stops)] \in Stops
    BY <2>2, Facts
  <2>4. Height \in 1..MaxHeight
    BY <2>1, <2>3 DEF Stops
  <2> QED BY <2>1, <2>2, <2>4, Facts
<1>2. /\ stops' \in Seq(Stops) /\ Len(stops') = n
      /\ \A k \in 1..n : stops'[k] = stops[k]
  <2> HIDE DEF n
  <2>1. /\ SubSeq(stops, 1, n) \in Seq(Stops) /\ Len(SubSeq(stops, 1, n)) = n
        /\ \A k \in 1..n : SubSeq(stops, 1, n)[k] = stops[k]
    BY <1>1, Facts, SubSeqProperties
  <2> QED BY <1>1, <2>1
<1>3. \A k \in 1..n : k \in 1..Len(stops)
  BY <1>1, Facts
<1> HIDE DEF n
<1>4. /\ UNCHANGED <<calls, frames, breakpoints, skipping, verdict>> /\ Height' = Height
      /\ c \in Commands /\ Depths[c] \in -1..1
      /\ depth' = Depths[c] /\ linesLeft' = IF c = "continue" THEN -1 ELSE 1
      /\ goal' = [command |-> c, height |-> Height]
      /\ error' \in {"", error}
  <2>1. c \in Commands
    BY DEF Depths, Commands
  <2>2. Depths[c] \in -1..1
    BY <2>1 DEF Depths, Commands
  <2> QED BY <2>1, <2>2 DEF Command, Height
<1>5. TypeInv'
  <2>1. \A k \in DOMAIN stops' : stops'[k].height \in 1..MaxHeight
    <3>1. DOMAIN stops' = 1..n
      BY <1>2
    <3> QED BY <1>2, <1>3, <3>1, Facts DEF Stops
  <2>2. depth' \in -1..(MaxHeight + 1) /\ linesLeft' \in {-1, 0, 1}
    <3>1. depth' \in -1..1
      BY <1>4
    <3>2. depth' \in -1..(MaxHeight + 1)
      BY <1>1, <3>1
    <3>3. linesLeft' \in {-1, 0, 1}
      BY <1>4
    <3> QED BY <3>2, <3>3
  <2>3. goal' \in [command : Commands, height : 0..MaxHeight]
    <3>1. Height \in 0..MaxHeight
      BY <1>1
    <3> QED BY <1>4, <3>1
  <2>4. error' \in {"", "breakpoint", "runtime error"}
    BY <1>4 DEF DebugInv, TypeInv, DebuggerTypeOK
  <2>5. Height' <= MaxHeight
    BY <1>4, Facts
  <2> QED BY <1>2, <1>4, <2>1, <2>2, <2>3, <2>4, <2>5 DEF DebugInv, TypeInv, DebuggerTypeOK
<1>6. BegunInv' /\ FrameInv'
  BY <1>4 DEF DebugInv, BegunInv, FrameInv
<1>7. StopInv'
  BY <1>2, <1>3, <1>4 DEF DebugInv, StopInv
<1>8. StepInv'
  <2>1. goal'.command = c /\ goal'.height = Height
    BY <1>4
  <2>2. verdict' = "right"
    BY <1>4 DEF DebugInv, StepInv
  <2>3. CASE c = "continue"
    <3>1. linesLeft' = -1
      BY <1>4, <2>3
    <3>2. linesLeft' # 1
      BY <3>1
    <3> QED BY <2>1, <2>2, <2>3, <3>2 DEF StepInv
  <2>4. CASE c = "into"
    <3>1. Depths[c] = -1
      BY <2>4 DEF Depths
    <3> QED BY <1>4, <2>1, <2>2, <2>4, <3>1 DEF StepInv
  <2>5. CASE c \in {"over", "out"}
    <3>1. Depths[c] = IF c = "out" THEN 1 ELSE 0
      BY <2>5 DEF Depths
    <3>2. depth' = Depths[c] /\ Height' = Height
      BY <1>4
    <3>3. Counts'
      BY <1>1, <2>1, <3>1, <3>2 DEF Counts, StopAt
    <3> QED BY <1>1, <1>4, <2>1, <2>2, <2>5, <3>3 DEF StepInv
  <2> QED BY <1>4, <2>3, <2>4, <2>5 DEF Commands
<1> QED BY <1>5, <1>6, <1>7, <1>8 DEF DebugInv

-----------------------------------------------------------------------------
(* Running.                                                                  *)

\* What reaching a line or failing does to the stack, whether it stops there or not.
LEMMA Working ==
  ASSUME DebuggerParameters, DebugInv, NEW kind \in Kinds, Runs(kind), NEW reason,
         calls' \in Seq(Calls), Len(calls') = Len(calls),
         \A k \in 1..Height : calls'[k].kind = calls[k].kind,
         \A k \in 1..Height : calls[k].begun => calls'[k].begun,
         calls'[Height].begun,
         frames' \in Seq({0} \cup Instructions), Len(frames') = Len(frames),
         \A k \in 1..Ours(calls, Height - 1) : frames'[k] = frames[k],
         stops' = stops \/ Stopped(reason)
  PROVE  BegunInv' /\ StopInv' /\ FrameInv' /\ stops' \in Seq(Stops) /\ Height' = Height
<1> DEFINE h == Height
           new == [height |-> h, view |-> Stack', ours |-> reason # "other"]
<1>1. /\ ~Blocked /\ Height \in Nat /\ Height > 0 /\ Height <= MaxHeight /\ MaxHeight \in Nat
      /\ Height' = Height
  BY Facts DEF Runs, Height
<1>2. \A k \in 1..Height : Ours(calls', k) = Ours(calls, k)
  <2> TAKE k \in 1..Height
  <2>1. k \in Nat /\ \A j \in 1..k : calls'[j].kind = calls[j].kind
    BY <1>1
  <2> QED BY <2>1, OursSame
<1>3. BegunInv'
  <2>1. \A k \in 1..Height : k < Height => calls[k].begun
    BY DEF DebugInv, BegunInv
  <2>2. \A k \in 1..Height : calls'[k].begun
    BY <1>1, <2>1
  <2>3. Top(calls').begun
    BY <1>1 DEF Top, Height
  <2> QED BY <1>1, <2>2, <2>3 DEF BegunInv
<1>4. FrameInv'
  BY <1>1, <1>2 DEF DebugInv, FrameInv
<1>5. Stack' = View(frames', Len(frames')) /\ Stack' \in Seq(Nat)
  <2>1. Stack' = [n \in DOMAIN frames' |-> Line(frames'[Len(frames') - (n - 1)])]
    BY DEF Stack, Level
  <2> QED BY <2>1, StackShown
<1>6. Len(frames') = Ours(calls', h)
  BY <1>1, <1>2 DEF DebugInv, FrameInv
<1>7. new \in Stops
  BY <1>1, <1>5 DEF Stops
<1>8. \A k \in 1..Len(stops) :
        /\ stops[k].height \in 1..(h - 1) /\ calls'[stops[k].height].begun
        /\ stops[k].view = View(frames', Ours(calls', stops[k].height))
  <2> SUFFICES ASSUME NEW k \in 1..Len(stops)
               PROVE  /\ stops[k].height \in 1..(h - 1) /\ calls'[stops[k].height].begun
                      /\ stops[k].view = View(frames', Ours(calls', stops[k].height))
    OBVIOUS
  <2> DEFINE g == stops[k].height
  <2>1. /\ g \in 1..(h - 1) /\ g \in 1..Height /\ g \in Nat
        /\ Ours(calls, g) \in 0..Ours(calls, Height - 1)
    BY <1>1, Above, Facts
  <2>2. calls[g].begun /\ stops[k].view = View(frames, Ours(calls, g))
    BY DEF DebugInv, StopInv
  <2> HIDE DEF g
  <2>3. Ours(calls, g) \in Nat /\ \A j \in 1..Ours(calls, g) : frames'[j] = frames[j]
    BY <1>1, <2>1, TopFrame
  <2>4. View(frames', Ours(calls, g)) = View(frames, Ours(calls, g))
    BY <2>3, ViewSame
  <2>5. calls'[g].begun /\ stops[k].view = View(frames', Ours(calls', g))
    BY <1>2, <2>1, <2>2, <2>4
  <2> QED BY <2>1, <2>5 DEF g
<1>9. CASE stops' = stops
  <2>1. StopInv'
    BY <1>1, <1>8, <1>9, Facts DEF DebugInv, StopInv
  <2> QED BY <1>1, <1>3, <1>4, <1>9, <2>1, Facts
<1>10. CASE stops' = Append(stops, new)
  <2> HIDE DEF new
  <2>1. /\ stops' \in Seq(Stops) /\ Len(stops') = Len(stops) + 1
        /\ stops'[Len(stops) + 1] = new
        /\ \A k \in 1..Len(stops) : stops'[k] = stops[k]
    BY <1>7, <1>10, Facts, AppendProperties
  <2>2. new.height = h /\ new.view = View(frames', Ours(calls', h))
    BY <1>5, <1>6 DEF new
  <2>3. \A k \in 1..Len(stops') : k \in 1..Len(stops) \/ k = Len(stops) + 1
    BY <2>1, Facts
  <2>4. \A j, k \in 1..Len(stops') : j < k => stops'[j].height < stops'[k].height
    <3> SUFFICES ASSUME NEW j \in 1..Len(stops'), NEW k \in 1..Len(stops'), j < k
                 PROVE  stops'[j].height < stops'[k].height
      OBVIOUS
    <3>1. j \in 1..Len(stops) /\ stops[j].height \in 1..(h - 1)
      BY <1>8, <2>1, Facts
    <3>2. CASE k \in 1..Len(stops)
      BY <2>1, <3>1, <3>2 DEF DebugInv, StopInv
    <3>3. CASE k = Len(stops) + 1
      BY <1>1, <2>1, <2>2, <3>1, <3>3
    <3> QED BY <2>3, <3>2, <3>3
  <2>5. \A k \in 1..Len(stops') :
          /\ stops'[k].height <= Height' /\ calls'[stops'[k].height].begun
          /\ stops'[k].view = View(frames', Ours(calls', stops'[k].height))
    <3> SUFFICES ASSUME NEW k \in 1..Len(stops')
                 PROVE  /\ stops'[k].height <= Height' /\ calls'[stops'[k].height].begun
                        /\ stops'[k].view = View(frames', Ours(calls', stops'[k].height))
      OBVIOUS
    <3>1. CASE k \in 1..Len(stops)
      BY <1>1, <1>8, <2>1, <3>1
    <3>2. CASE k = Len(stops) + 1
      BY <1>1, <2>1, <2>2, <3>2
    <3> QED BY <2>3, <3>1, <3>2
  <2> QED BY <1>1, <1>3, <1>4, <2>1, <2>4, <2>5 DEF StopInv
<1> QED BY <1>9, <1>10 DEF Stopped

\* The function that runs begins, if it had not.
LEMMA Begins ==
  ASSUME DebuggerParameters, DebugInv, Height > 0, Begun
  PROVE  /\ calls' \in Seq(Calls) /\ Len(calls') = Len(calls) /\ calls'[Height].begun
         /\ \A k \in 1..Height : calls'[k].kind = calls[k].kind
         /\ \A k \in 1..Height : calls[k].begun => calls'[k].begun
<1>1. Height \in 1..Len(calls) /\ Height = Len(calls) /\ calls \in Seq(Calls)
  BY Facts
<1>2. calls[Height] \in Calls
  BY <1>1
<1>3. calls' = [calls EXCEPT ![Height] = [calls[Height] EXCEPT !.begun = TRUE]]
  BY DEF Begun
<1>4. [calls[Height] EXCEPT !.begun = TRUE] \in Calls
  BY <1>2 DEF Calls
<1>5. calls' \in Seq(Calls) /\ Len(calls') = Len(calls)
  BY <1>1, <1>3, <1>4, ExceptSeq
<1>6. \A k \in 1..Height : calls'[k] = IF k = Height THEN [calls[Height] EXCEPT !.begun = TRUE]
                                       ELSE calls[k]
  BY <1>1, <1>3
<1>7. [calls[Height] EXCEPT !.begun = TRUE].begun = TRUE
      /\ [calls[Height] EXCEPT !.begun = TRUE].kind = calls[Height].kind
  BY <1>2 DEF Calls
<1> QED BY <1>1, <1>5, <1>6, <1>7

\* The lines run out exactly at a line that the command means to stop at.
LEMMA LineDue ==
  ASSUME DebuggerParameters, DebugInv
  PROVE  linesLeft = 1 /\ depth <= 0 <=> Due(goal)
<1>1. Height \in Nat /\ StepInv
  BY Facts DEF DebugInv
<1>2. CASE linesLeft # 1
  BY <1>1, <1>2 DEF StepInv, Due
<1>3. CASE linesLeft = 1 /\ goal.command = "into"
  <2>1. depth = -1
    BY <1>1, <1>3 DEF StepInv
  <2>2. depth <= 0
    BY <2>1
  <2>3. Due(goal)
    BY <1>3 DEF Due
  <2> QED BY <1>3, <2>2, <2>3
<1>4. CASE linesLeft = 1 /\ goal.command = "over"
  <2>1. Due(goal) <=> Height <= goal.height
    BY <1>4 DEF Due
  <2>2. StopAt = goal.height /\ (Counts \/ Waits)
    BY <1>1, <1>4 DEF StepInv, StopAt
  <2> QED BY <1>1, <1>4, <2>1, <2>2, Numbers DEF Counts, Waits
<1>5. CASE linesLeft = 1 /\ goal.command = "out"
  <2>1. Due(goal) <=> Height < goal.height
    BY <1>5 DEF Due
  <2>2. StopAt = goal.height - 1 /\ (Counts \/ Waits)
    BY <1>1, <1>5 DEF StepInv, StopAt
  <2> QED BY <1>1, <1>5, <2>1, <2>2, Numbers DEF Counts, Waits
<1>6. linesLeft = 1 => goal.command \in {"into", "over", "out"}
  BY <1>1 DEF StepInv
<1> QED BY <1>2, <1>3, <1>4, <1>5, <1>6

\* A line counts down where the depth says so, and the command is done with the lines.
LEMMA LineCounted ==
  ASSUME DebuggerParameters, DebugInv, Height' = Height, depth' = depth, verdict' = "right",
         linesLeft' = IF linesLeft = 1 /\ depth <= 0 THEN 0 ELSE linesLeft,
         goal' = IF linesLeft' = 0 THEN Nothing ELSE goal
  PROVE  /\ linesLeft' \in {-1, 0, 1} /\ StepInv'
         /\ goal' \in [command : Commands, height : 0..MaxHeight]
<1>1. /\ StepInv /\ goal \in [command : Commands, height : 0..MaxHeight]
  BY DEF DebugInv, TypeInv
<1>2. linesLeft' \in {-1, 0, 1}
  BY Numbers
<1>3. goal' \in [command : Commands, height : 0..MaxHeight]
  <2>1. MaxHeight \in Nat
    BY Facts
  <2>2. Nothing \in [command : Commands, height : 0..MaxHeight]
    BY <2>1 DEF Nothing, Commands
  <2> QED BY <1>1, <2>2
<1>4. CASE linesLeft' = 1
  <2>1. linesLeft = 1 /\ depth > 0 /\ goal' = goal
    BY <1>4, Numbers
  <2>2. depth # -1
    BY <2>1
  <2>3. goal.command \in {"over", "out"} /\ goal.height > 0 /\ Counts
    BY <1>1, <2>1, <2>2 DEF StepInv, Waits
  <2>4. Counts'
    BY <2>1, <2>3 DEF Counts, StopAt
  <2>5. StepInv'
    BY <1>4, <2>1, <2>3, <2>4 DEF StepInv
  <2> QED BY <1>2, <1>3, <2>5
<1>5. CASE linesLeft' # 1
  <2>1. goal'.command = "continue"
    BY <1>1, <1>5 DEF StepInv, Nothing
  <2> QED BY <1>2, <1>3, <1>5, <2>1 DEF StepInv
<1> QED BY <1>4, <1>5

LEMMA ReachKeeps ==
  ASSUME DebuggerParameters, DebugInv, NEW i \in Instructions, NEW statement \in BOOLEAN,
         Reach(i, statement)
  PROVE  DebugInv'
<1>1. /\ Runs("ours") /\ ~Blocked /\ Height \in Nat /\ Height > 0 /\ Height <= MaxHeight
      /\ MaxHeight \in Nat /\ calls[Height].kind = "ours" /\ Top(calls).kind = "ours"
      /\ Begun /\ frames' = [frames EXCEPT ![Len(frames)] = i]
      /\ UNCHANGED <<breakpoints, skipping>>
  BY Facts DEF Reach, Runs, Top, Height
<1>2. /\ Len(frames) \in 1..Len(frames)
      /\ Len(frames) = Ours(calls, Height - 1) + 1 /\ Ours(calls, Height - 1) \in Nat
  BY <1>1, TopFrame, Facts
<1>3. /\ frames' \in Seq({0} \cup Instructions) /\ Len(frames') = Len(frames)
      /\ \A k \in 1..Ours(calls, Height - 1) : frames'[k] = frames[k]
  <2>1. frames' \in Seq({0} \cup Instructions) /\ Len(frames') = Len(frames)
    BY <1>1, <1>2, Facts, ExceptSeq
  <2>2. \A k \in 1..Ours(calls, Height - 1) : k \in 1..Len(frames) /\ k # Len(frames)
    BY <1>2
  <2>3. \A k \in 1..Len(frames) : frames'[k] = IF k = Len(frames) THEN i ELSE frames[k]
    BY <1>1, Facts
  <2> QED BY <2>1, <2>2, <2>3
<1>4. stops' = stops \/ Stopped("breakpoint")
  BY DEF Reach, Stop
<1>5. /\ calls' \in Seq(Calls) /\ Len(calls') = Len(calls) /\ calls'[Height].begun
      /\ \A k \in 1..Height : calls'[k].kind = calls[k].kind
      /\ \A k \in 1..Height : calls[k].begun => calls'[k].begun
  BY <1>1, Begins
<1>6. BegunInv' /\ StopInv' /\ FrameInv' /\ stops' \in Seq(Stops) /\ Height' = Height
  <2>1. "ours" \in Kinds
    BY DEF Kinds
  <2> QED BY <1>1, <1>3, <1>4, <1>5, <2>1, Working
\* A function that waits has reached no line: this one counts.
<1>7. Waits /\ Height = StopAt => NewLine(i)
  <2> SUFFICES ASSUME Waits, Height = StopAt
               PROVE  NewLine(i)
    OBVIOUS
  <2>1. Top(frames) = 0
    BY <1>1 DEF Waits, DebugInv, BegunInv
  <2> QED BY <2>1, CodeLines DEF NewLine
<1>8. /\ depth' \in -1..(MaxHeight + 1) /\ linesLeft' \in {-1, 0, 1}
      /\ error' \in {"", "breakpoint", "runtime error"}
      /\ goal' \in [command : Commands, height : 0..MaxHeight]
      /\ StepInv'
  <2>1. /\ error \in {"", "breakpoint", "runtime error"}
        /\ goal \in [command : Commands, height : 0..MaxHeight]
        /\ depth \in -1..(MaxHeight + 1) /\ StepInv
    BY DEF DebugInv, TypeInv, DebuggerTypeOK
  <2>2. CASE ~NewLine(i) /\ ~statement
    <3>1. UNCHANGED <<error, depth, linesLeft, goal, verdict>>
      BY <2>2 DEF Reach
    <3>2. (Counts => Counts') /\ (Waits => Waits')
      BY <1>1, <1>6, <1>7, <2>2, <3>1, Numbers DEF Counts, Waits, StopAt
    <3>3. StepInv'
      BY <2>1, <3>1, <3>2 DEF StepInv
    <3> QED BY <2>1, <3>1, <3>3, Numbers
  <2>3. CASE NewLine(i) \/ statement
    <3>1. PICK paused \in BOOLEAN :
            LET now == Polled(paused)
                left == Counted(now.left, now.depth)
                hit == ~skipping /\ (statement \/ Line(i) \in breakpoints)
                stop == hit \/ (left # now.left /\ left = 0)
            IN /\ depth' = now.depth /\ linesLeft' = left
               /\ Judged(hit, stop, now.goal)
               /\ IF stop THEN Stop("breakpoint") ELSE UNCHANGED <<stops, error>>
      BY <2>3 DEF Reach
    <3> DEFINE left == Counted(linesLeft, depth)
               hit == ~skipping /\ (statement \/ Line(i) \in breakpoints)
    <3>2. error' \in {"", "breakpoint", "runtime error"}
      BY <2>1, <3>1 DEF Stop
    <3> HIDE DEF hit
    <3>3. CASE paused
      <4> DEFINE asked == [command |-> "into", height |-> Height]
      <4>1. /\ Polled(paused).depth = -1 /\ Polled(paused).left = 1
            /\ Polled(paused).goal = asked /\ Counted(1, -1) = 0
        BY <3>3 DEF Polled, Counted
      <4>2. Due(asked)
        BY DEF Due
      <4>3. depth' = -1 /\ linesLeft' = 0
        BY <3>1, <4>1
      <4>4. verdict' = "right" /\ goal' = Nothing
        BY <3>1, <4>1, <4>2, <4>3 DEF Judged
      <4>5. depth' \in -1..(MaxHeight + 1)
        BY <1>1, <4>3
      <4>6. goal' \in [command : Commands, height : 0..MaxHeight]
        BY <1>1, <4>4 DEF Nothing, Commands
      <4>7. StepInv'
        BY <4>3, <4>4 DEF StepInv, Nothing
      <4> QED BY <3>2, <4>3, <4>5, <4>6, <4>7
    <3>4. CASE ~paused
      <4>1. /\ depth' = depth /\ linesLeft' = left
            /\ Judged(hit, hit \/ (left # linesLeft /\ left = 0), goal)
        BY <3>1, <3>4 DEF Polled, hit
      <4>2. left # linesLeft /\ left = 0 <=> linesLeft = 1 /\ depth <= 0
        BY Numbers DEF Counted
      <4>3. left = IF linesLeft = 1 /\ depth <= 0 THEN 0 ELSE linesLeft
        BY Numbers DEF Counted
      <4>4. linesLeft = 1 /\ depth <= 0 <=> Due(goal)
        BY LineDue
      <4> HIDE DEF left
      <4>5. verdict' = "right" /\ goal' = IF linesLeft' = 0 THEN Nothing ELSE goal
        BY <4>1, <4>2, <4>4 DEF Judged
      <4>6. /\ linesLeft' \in {-1, 0, 1} /\ StepInv'
            /\ goal' \in [command : Commands, height : 0..MaxHeight]
        BY <1>6, <4>1, <4>3, <4>5, LineCounted
      <4> QED BY <2>1, <3>2, <4>1, <4>6
    <3> QED BY <3>3, <3>4
  <2> QED BY <2>2, <2>3
<1>9. TypeInv'
  <2>1. \A k \in DOMAIN stops' : stops'[k].height \in 1..MaxHeight
    <3>1. DOMAIN stops' = 1..Len(stops') /\ \A k \in DOMAIN stops' : stops'[k] \in Stops
      BY <1>6
    <3> QED BY <3>1 DEF Stops
  <2>2. Height' <= MaxHeight
    BY <1>1, <1>6
  <2> QED BY <1>1, <1>3, <1>5, <1>6, <1>8, <2>1, <2>2
      DEF DebugInv, TypeInv, DebuggerTypeOK, StepInv, Calls, Kinds
<1> QED BY <1>6, <1>8, <1>9 DEF DebugInv

LEMMA OtherReachesKeeps ==
  ASSUME DebuggerParameters, DebugInv, OtherReaches
  PROVE  DebugInv'
<1> DEFINE stop == linesLeft > 0 /\ depth <= 0 /\ linesLeft = 1
<1>1. /\ Runs("other") /\ Begun /\ frames' = frames /\ Height \in Nat /\ Height > 0
      /\ Height <= MaxHeight /\ MaxHeight \in Nat
      /\ UNCHANGED <<error, depth, breakpoints, skipping>>
  BY Facts DEF OtherReaches, Runs, Height
<1>2. /\ calls' \in Seq(Calls) /\ Len(calls') = Len(calls) /\ calls'[Height].begun
      /\ \A k \in 1..Height : calls'[k].kind = calls[k].kind
      /\ \A k \in 1..Height : calls[k].begun => calls'[k].begun
  BY <1>1, Begins
<1>3. BegunInv' /\ StopInv' /\ FrameInv' /\ stops' \in Seq(Stops) /\ Height' = Height
  <2>1. stops' = stops \/ Stopped("other")
    BY DEF OtherReaches
  <2>2. "other" \in Kinds
    BY DEF Kinds
  <2> QED BY <1>1, <1>2, <2>1, <2>2, Facts, Working
<1>4. /\ linesLeft' = IF linesLeft > 0 /\ depth <= 0 THEN linesLeft - 1 ELSE linesLeft
      /\ Judged(FALSE, stop, goal)
  BY DEF OtherReaches
<1>5. stop <=> Due(goal)
  BY LineDue
<1> HIDE DEF stop
<1>6. verdict' = "right" /\ goal' = IF linesLeft' = 0 THEN Nothing ELSE goal
  BY <1>4, <1>5 DEF Judged
<1>7. linesLeft' = IF linesLeft = 1 /\ depth <= 0 THEN 0 ELSE linesLeft
  BY <1>4, Numbers
<1>8. /\ linesLeft' \in {-1, 0, 1} /\ StepInv'
      /\ goal' \in [command : Commands, height : 0..MaxHeight]
  BY <1>1, <1>3, <1>6, <1>7, LineCounted
<1>9. TypeInv'
  <2>1. DOMAIN stops' = 1..Len(stops') /\ \A k \in DOMAIN stops' : stops'[k] \in Stops
    BY <1>3
  <2>2. \A k \in DOMAIN stops' : stops'[k].height \in 1..MaxHeight
    BY <2>1 DEF Stops
  <2>3. Height' <= MaxHeight
    BY <1>1, <1>3
  <2> QED BY <1>1, <1>2, <1>3, <1>6, <1>8, <2>2, <2>3
      DEF DebugInv, TypeInv, DebuggerTypeOK, Calls, Kinds
<1> QED BY <1>3, <1>8, <1>9 DEF DebugInv

LEMMA ErrorKeeps ==
  ASSUME DebuggerParameters, DebugInv, Error
  PROVE  DebugInv'
<1> DEFINE failed == [calls[Height] EXCEPT !.failed = TRUE]
<1>1. /\ Runs("ours") /\ frames' = frames /\ calls[Height].begun
      /\ error' = "runtime error" /\ Stopped("runtime error")
      /\ UNCHANGED <<depth, linesLeft, breakpoints, skipping, goal, verdict>>
  BY DEF Error, Stop, Top, Height
<1>2. calls' = [calls EXCEPT ![Height] = failed]
  BY DEF Error
<1>3. /\ Height \in Nat /\ Height > 0 /\ Height <= MaxHeight /\ MaxHeight \in Nat
      /\ Height \in 1..Len(calls) /\ Height = Len(calls) /\ calls \in Seq(Calls)
  <2>1. calls # <<>>
    BY <1>1 DEF Runs
  <2> QED BY <2>1, Facts
<1>4. /\ calls' \in Seq(Calls) /\ Len(calls') = Len(calls) /\ calls'[Height].begun
      /\ \A k \in 1..Height : calls'[k].kind = calls[k].kind
      /\ \A k \in 1..Height : calls[k].begun => calls'[k].begun
  <2>1. calls[Height] \in Calls
    BY <1>3
  <2>2. failed \in Calls /\ failed.begun = calls[Height].begun /\ failed.kind = calls[Height].kind
    BY <2>1 DEF Calls
  <2> HIDE DEF failed
  <2>3. calls' \in Seq(Calls) /\ Len(calls') = Len(calls)
    BY <1>2, <1>3, <2>2, ExceptSeq
  <2>4. \A k \in 1..Height : calls'[k] = IF k = Height THEN failed ELSE calls[k]
    BY <1>2, <1>3
  <2> QED BY <1>1, <1>3, <2>2, <2>3, <2>4
<1>5. BegunInv' /\ StopInv' /\ FrameInv' /\ stops' \in Seq(Stops) /\ Height' = Height
  <2>1. "ours" \in Kinds
    BY DEF Kinds
  <2> QED BY <1>1, <1>4, <1>3, <2>1, Facts, Working
<1>6. StepInv'
  <2>1. StepInv
    BY DEF DebugInv
  <2>2. (Counts => Counts') /\ (Waits => Waits')
    BY <1>1, <1>3, <1>5 DEF Counts, Waits, StopAt, Top
  <2> QED BY <1>1, <2>1, <2>2 DEF StepInv
<1>7. TypeInv'
  <2>1. DOMAIN stops' = 1..Len(stops') /\ \A k \in DOMAIN stops' : stops'[k] \in Stops
    BY <1>5
  <2>2. \A k \in DOMAIN stops' : stops'[k].height \in 1..MaxHeight
    BY <2>1 DEF Stops
  <2>3. Height' <= MaxHeight
    BY <1>5, <1>3
  <2> QED BY <1>1, <1>4, <1>5, <2>2, <2>3 DEF DebugInv, TypeInv, DebuggerTypeOK, Calls, Kinds
<1> QED BY <1>5, <1>6, <1>7 DEF DebugInv

-----------------------------------------------------------------------------
(* The theorems.                                                             *)

LEMMA InitDebug ==
  ASSUME DebuggerParameters, DebuggerInit
  PROVE  DebugInv
<1>1. /\ MaxHeight \in Nat /\ Height = 0 /\ Height <= MaxHeight
      /\ stops \in Seq(Stops) /\ Len(stops) = 0
  <2>1. MaxHeight \in Nat
    BY DEF DebuggerParameters
  <2>2. Height = 0
    BY DEF DebuggerInit, Height
  <2>3. stops = <<>>
    BY DEF DebuggerInit
  <2>4. stops \in Seq(Stops)
    BY <2>3, EmptySeq
  <2>5. Len(stops) = 0
    BY <2>3, EmptySeq
  <2> QED BY <2>1, <2>2, <2>4, <2>5
<1>2. TypeInv
  <2>1. goal \in [command : Commands, height : 0..MaxHeight]
    <3>1. 0 \in 0..MaxHeight
      BY <1>1
    <3> QED BY <3>1 DEF DebuggerInit, Nothing, Commands
  <2>2. \A k \in DOMAIN stops : stops[k].height \in 1..MaxHeight
    BY <1>1
  <2>3. depth \in -1..(MaxHeight + 1) /\ linesLeft \in {-1, 0, 1}
    <3>1. depth = -1 /\ linesLeft = -1
      BY DEF DebuggerInit
    <3> QED BY <1>1, <3>1
  <2>4. /\ calls \in Seq([kind : {"ours", "other"}, begun : BOOLEAN, failed : BOOLEAN])
        /\ frames \in Seq({0} \cup Instructions)
    BY EmptySeq DEF DebuggerInit
  <2>5. /\ error = "" /\ breakpoints \subseteq LinesOfCode /\ skipping \in BOOLEAN
        /\ verdict = "right"
    BY DEF DebuggerInit
  <2> QED BY <1>1, <2>1, <2>2, <2>3, <2>4, <2>5 DEF TypeInv, DebuggerTypeOK
<1>3. FrameInv
  <2>1. {k \in 1..0 : calls[k].kind = "ours"} = {}
    OBVIOUS
  <2> QED BY <1>1, <2>1, FS_EmptySet DEF DebuggerInit, FrameInv, Ours
<1>4. BegunInv /\ StopInv
  BY <1>1 DEF BegunInv, StopInv
<1>5. StepInv
  <2>1. linesLeft = -1
    BY DEF DebuggerInit
  <2>2. linesLeft # 1
    BY <2>1
  <2> QED BY <2>2 DEF DebuggerInit, StepInv, Nothing
<1> QED BY <1>2, <1>3, <1>4, <1>5 DEF DebugInv

LEMMA DebugStep ==
  ASSUME DebuggerParameters, DebugInv, [DebuggerNext]_debuggerVars
  PROVE  DebugInv'
<1>1. ASSUME NEW kind \in Kinds, Enter(kind)
      PROVE  DebugInv'
  BY <1>1, EnterKeeps
<1>2. ASSUME NEW kind \in Kinds, Exit(kind)
      PROVE  DebugInv'
  BY <1>2, ExitKeeps
<1>3. ASSUME NEW i \in Instructions, NEW statement \in BOOLEAN, Reach(i, statement)
      PROVE  DebugInv'
  BY <1>3, ReachKeeps
<1>4. CASE Error
  BY <1>4, ErrorKeeps
<1>5. CASE OtherReaches
  BY <1>5, OtherReachesKeeps
<1>6. ASSUME NEW c \in DOMAIN Depths, Command(c)
      PROVE  DebugInv'
  BY <1>6, CommandKeeps
\* Whatever only turns breakpoints on and off.
<1>7. ASSUME UNCHANGED <<calls, frames, error, depth, linesLeft, stops, goal, verdict>>,
             breakpoints' \subseteq LinesOfCode, skipping' \in BOOLEAN
      PROVE  DebugInv'
  <2>1. Height' = Height /\ (Counts <=> Counts') /\ (Waits <=> Waits')
    BY <1>7 DEF Height, Counts, Waits, StopAt
  <2>2. TypeInv'
    BY <1>7, <2>1 DEF DebugInv, TypeInv, DebuggerTypeOK
  <2>3. BegunInv' /\ StopInv' /\ FrameInv'
    BY <1>7, <2>1 DEF DebugInv, BegunInv, StopInv, FrameInv
  <2>4. StepInv'
    BY <1>7, <2>1 DEF DebugInv, StepInv
  <2> QED BY <2>2, <2>3, <2>4 DEF DebugInv
<1>8. breakpoints \subseteq LinesOfCode /\ skipping \in BOOLEAN
  BY DEF DebugInv, TypeInv, DebuggerTypeOK
<1>9. ASSUME NEW line \in LinesOfCode, ToggleBreakpoint(line)
      PROVE  DebugInv'
  BY <1>7, <1>8, <1>9 DEF ToggleBreakpoint
<1>10. CASE SkipBreakpoints
  BY <1>7, <1>8, <1>10 DEF SkipBreakpoints
<1>11. CASE UNCHANGED debuggerVars
  BY <1>7, <1>8, <1>11 DEF debuggerVars
<1> QED BY <1>1, <1>2, <1>3, <1>4, <1>5, <1>6, <1>9, <1>10, <1>11 DEF DebuggerNext, Kinds

LEMMA DebugAlways == ASSUME DebuggerParameters PROVE DebuggerSpec => []DebugInv
<1>1. DebuggerInit => DebugInv
  BY InitDebug
<1>2. DebugInv /\ [DebuggerNext]_debuggerVars => DebugInv'
  BY DebugStep
<1> QED BY <1>1, <1>2, PTL DEF DebuggerSpec

\* Every variable keeps its type, whatever the code and the user do.
THEOREM DebuggerTypeCorrect == ASSUME DebuggerParameters PROVE DebuggerSpec => []DebuggerTypeOK
<1>1. DebugInv => DebuggerTypeOK
  BY DEF DebugInv, TypeInv
<1> QED BY <1>1, DebugAlways, PTL

\* Stepping into, over and out stops at exactly the first line the command means: the depth
\* that lines are counted with (unsafe_debugger.cpp) is the height above that line's
\* function, and where the count ends early no line comes before it.
THEOREM StepsStopWhereAsked == ASSUME DebuggerParameters PROVE DebuggerSpec => []StopsWhereAsked
<1>1. DebugInv => StopsWhereAsked
  BY DEF DebugInv, StepInv, StopsWhereAsked
<1> QED BY <1>1, DebugAlways, PTL

\* The frames of the debugger are the functions of this language that run, and a debugger
\* that is blocked shows the stack it stopped at, whatever was evaluated in between.
THEOREM StackShownIsTrue == ASSUME DebuggerParameters PROVE DebuggerSpec => []StackIsTrue
<1>1. ASSUME DebuggerParameters, DebugInv
      PROVE  StackIsTrue
  <2>1. Len(frames) = Cardinality({k \in DOMAIN calls : calls[k].kind = "ours"})
    <3>1. DOMAIN calls = 1..Height
      BY <1>1, Facts
    <3> QED BY <1>1, <3>1 DEF DebugInv, FrameInv, Ours
  <2>2. ASSUME Blocked
        PROVE  Stack = Top(stops).view
    <3>1. Len(stops) \in 1..Len(stops) /\ stops[Len(stops)].height = Height
      BY <1>1, <2>2, Facts DEF Blocked, Top
    <3>2. stops[Len(stops)].view = View(frames, Len(frames))
      BY <1>1, <3>1 DEF DebugInv, StopInv, FrameInv
    <3>3. Stack = View(frames, Len(frames))
      <4>1. frames \in Seq({0} \cup Instructions)
        BY <1>1, Facts
      <4> QED BY <1>1, <4>1, StackShown DEF Stack, Level
    <3> QED BY <3>2, <3>3 DEF Top
  <2> QED BY <2>1, <2>2 DEF StackIsTrue
<1> QED BY <1>1, DebugAlways, PTL
=============================================================================
