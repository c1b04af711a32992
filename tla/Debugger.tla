------------------------------ MODULE Debugger ------------------------------
(***************************************************************************)
(* The debugger's hook (unsafe_debugger.cpp): compiled code reports that a  *)
(* function is entered, a line reached, an error raised, a function left.   *)
(* The hook keeps the stack the debugger shows and decides where to stop,   *)
(* from two numbers of the engine's debugger that GDScript's own hook also  *)
(* counts: lines left to run before stopping, and a depth that lines only   *)
(* count at when it is not positive.  One thread; each has its own.         *)
(* A debugger is attached: without one the hook keeps its frames and does   *)
(* nothing else.                                                            *)
(*                                                                          *)
(* Stopping blocks in script_debug, where the user looks at the stack, may  *)
(* evaluate an expression whose getter runs compiled code, and resumes the  *)
(* program with a command.                                                  *)
(***************************************************************************)
EXTENDS Integers, Sequences, FiniteSets

CONSTANTS
  LineOf,    \* the line of every instruction of a function, in order
  MaxHeight  \* bound: functions on the stack

DebuggerParameters == LineOf \in Seq(Nat \ {0}) /\ LineOf # <<>> /\ MaxHeight \in Nat \ {0}

Instructions == DOMAIN LineOf
LinesOfCode == {LineOf[i] : i \in Instructions}

VARIABLES
  calls,        \* functions running, innermost last, of this language or another
  frames,       \* DebugState::frames: the last instruction reported; 0 before the first
  error,        \* DebugState::error
  depth,        \* EngineDebugger: depth
  linesLeft,    \* EngineDebugger: lines left; -1 when running freely
  breakpoints,  \* EngineDebugger: lines with a breakpoint
  skipping,     \* EngineDebugger: breakpoints are skipped
  stops,        \* script_debug calls that have not returned, innermost last
  goal,         \* ghost: what the user asked for last, and where
  verdict       \* ghost: whether the last line reported stopped as that meant

debuggerVars == <<calls, frames, error, depth, linesLeft, breakpoints, skipping, stops, goal, verdict>>

Height == Len(calls)
Top(s) == s[Len(s)]
Pop(s) == SubSeq(s, 1, Len(s) - 1)

Nothing == [command |-> "continue", height |-> 0]

DebuggerInit ==
  /\ calls = <<>> /\ frames = <<>>
  /\ error = ""
  /\ depth = -1 /\ linesLeft = -1
  /\ breakpoints \in SUBSET LinesOfCode /\ skipping = FALSE
  /\ stops = <<>>
  /\ goal = Nothing
  /\ verdict = "right"

\* Blocked in script_debug, and nothing evaluated in it is running.
Blocked == stops # <<>> /\ Top(stops).height = Height
Runs(kind) == ~Blocked /\ calls # <<>> /\ Top(calls).kind = kind

-----------------------------------------------------------------------------
(* The stack as the debugger shows it, innermost first: UnsafeDebugger::line *)
(* of every level.                                                           *)

Line(i) == IF i = 0 THEN 0 ELSE LineOf[i]
Level(l) == frames[Len(frames) - l]
Stack == [n \in DOMAIN frames |-> Line(Level(n - 1))]

Stopped(reason) ==
  stops' = Append(stops, [height |-> Height, view |-> Stack', ours |-> reason # "other"])
\* script_debug of this language; the reason is what the debugger asks for.
Stop(reason) == Stopped(reason) /\ error' = reason

-----------------------------------------------------------------------------
(* Entering and leaving functions.                                           *)

Counting == linesLeft > 0 /\ depth >= 0
Deeper == IF Counting THEN depth + 1 ELSE depth
Shallower == IF Counting THEN depth - 1 ELSE depth

\* A function calls another once it has reported a line, as generated code reports
\* one before every statement; the engine calls one at the bottom of the stack, and
\* evaluating an expression calls a getter.
Enter(kind) ==
  /\ Height < MaxHeight
  /\ ~Blocked /\ calls # <<>> => Top(calls).begun
  /\ calls' = Append(calls, [kind |-> kind, begun |-> FALSE, failed |-> FALSE])
  /\ frames' = IF kind = "ours" THEN Append(frames, 0) ELSE frames
  /\ depth' = Deeper
  /\ UNCHANGED <<error, linesLeft, breakpoints, skipping, stops, goal, verdict>>

\* Returning, failing and suspending all leave the function.
Popped_NotWhenFailed == IF Top(calls).failed THEN frames ELSE Pop(frames)
Popped == IF frames = <<>> THEN frames ELSE Pop(frames)
Exit(kind) ==
  /\ Runs(kind)
  /\ calls' = Pop(calls)
  /\ frames' = IF kind = "ours" THEN Popped ELSE frames
  /\ depth' = Shallower
  /\ UNCHANGED <<error, linesLeft, breakpoints, skipping, stops, goal, verdict>>

-----------------------------------------------------------------------------
(* Reaching a line.                                                          *)

\* A line counts once, and again when a loop comes back to it.
NewLine(i) == Line(i) # Line(Top(frames)) \/ i <= Top(frames)

\* line_poll serves the debugger's messages; "pause" asks to stop at the next line.
Polled(paused) ==
  IF paused THEN [depth |-> -1, left |-> 1, goal |-> [command |-> "into", height |-> Height]]
  ELSE [depth |-> depth, left |-> linesLeft, goal |-> goal]

\* Lines count down where the depth says so.
Counted_AtAnyDepth(n, d) == IF n > 0 THEN n - 1 ELSE n
Counted(n, d) == IF n > 0 /\ d <= 0 THEN n - 1 ELSE n

\* The lines at which a command stops the program again.
Due(asked) ==
  CASE asked.command = "into" -> TRUE
    [] asked.command = "over" -> Height <= asked.height
    [] asked.command = "out" -> Height < asked.height
    [] OTHER -> FALSE

\* What was asked for is done once the lines have run out.
Judged(hit, stopped, asked) ==
  /\ verdict' = IF stopped <=> hit \/ Due(asked) THEN "right" ELSE IF stopped THEN "early" ELSE "late"
  /\ goal' = IF linesLeft' = 0 THEN Nothing ELSE asked

Begun == calls' = [calls EXCEPT ![Height].begun = TRUE]

Reach(i, statement) ==
  /\ Runs("ours")
  /\ Begun
  /\ frames' = [frames EXCEPT ![Len(frames)] = i]
  /\ \/ /\ ~NewLine(i) /\ ~statement
        /\ UNCHANGED <<error, depth, linesLeft, stops, goal, verdict>>
     \/ /\ NewLine(i) \/ statement
        /\ \E paused \in BOOLEAN :
             LET now == Polled(paused)
                 left == Counted(now.left, now.depth)
                 hit == ~skipping /\ (statement \/ Line(i) \in breakpoints)
                 stop == hit \/ (left # now.left /\ left = 0)
             IN /\ depth' = now.depth /\ linesLeft' = left
                /\ Judged(hit, stop, now.goal)
                /\ IF stop THEN Stop("breakpoint") ELSE UNCHANGED <<stops, error>>
  /\ UNCHANGED <<breakpoints, skipping>>

\* gj_fail reports the first error of a call.
Error ==
  /\ Runs("ours") /\ Top(calls).begun /\ ~Top(calls).failed
  /\ calls' = [calls EXCEPT ![Height].failed = TRUE]
  /\ frames # <<>>
  /\ UNCHANGED frames
  /\ Stop("runtime error")
  /\ UNCHANGED <<depth, linesLeft, breakpoints, skipping, goal, verdict>>

\* A line of a function of another language: the engine's hook counts the same way.
OtherReaches ==
  /\ Runs("other")
  /\ Begun
  /\ LET stop == linesLeft > 0 /\ depth <= 0 /\ linesLeft = 1
     IN /\ linesLeft' = IF linesLeft > 0 /\ depth <= 0 THEN linesLeft - 1 ELSE linesLeft
        /\ Judged(FALSE, stop, goal)
        /\ UNCHANGED frames
        /\ IF stop THEN Stopped("other") ELSE UNCHANGED stops
  /\ UNCHANGED <<error, depth, breakpoints, skipping>>

-----------------------------------------------------------------------------
(* The user, in script_debug.                                                *)

Depths == [into |-> -1, over |-> 0, out |-> 1, continue |-> -1]

Command(c) ==
  /\ Blocked
  /\ stops' = Pop(stops)
  /\ error' = IF Top(stops).ours THEN "" ELSE error
  /\ depth' = Depths[c]
  /\ linesLeft' = IF c = "continue" THEN -1 ELSE 1
  /\ goal' = [command |-> c, height |-> Height]
  /\ UNCHANGED <<calls, frames, breakpoints, skipping, verdict>>

ToggleBreakpoint(line) ==
  /\ breakpoints' = IF line \in breakpoints THEN breakpoints \ {line} ELSE breakpoints \cup {line}
  /\ UNCHANGED <<calls, frames, error, depth, linesLeft, skipping, stops, goal, verdict>>

SkipBreakpoints ==
  /\ skipping' = ~skipping
  /\ UNCHANGED <<calls, frames, error, depth, linesLeft, breakpoints, stops, goal, verdict>>

DebuggerNext ==
  \/ \E kind \in {"ours", "other"} : Enter(kind) \/ Exit(kind)
  \/ \E i \in Instructions, statement \in BOOLEAN : Reach(i, statement)
  \/ Error
  \/ OtherReaches
  \/ \E c \in DOMAIN Depths : Command(c)
  \/ \E line \in LinesOfCode : ToggleBreakpoint(line)
  \/ SkipBreakpoints

DebuggerSpec == DebuggerInit /\ [][DebuggerNext]_debuggerVars

-----------------------------------------------------------------------------
(* Properties.                                                               *)

\* Every variable has its type.
DebuggerTypeOK ==
  /\ calls \in Seq([kind : {"ours", "other"}, begun : BOOLEAN, failed : BOOLEAN])
  /\ Height <= MaxHeight
  /\ frames \in Seq({0} \cup Instructions)
  /\ error \in {"", "breakpoint", "runtime error"}
  /\ depth \in -1..(MaxHeight + 1) /\ linesLeft \in {-1, 0, 1}
  /\ breakpoints \subseteq LinesOfCode /\ skipping \in BOOLEAN
  /\ \A k \in DOMAIN stops : stops[k].height \in 1..MaxHeight
  /\ verdict \in {"right", "early", "late"}

\* Stepping into, over and out stops at exactly the first line the command means, through
\* calls between languages, failures, evaluated getters and other stops on the way; only a
\* breakpoint stops elsewhere.
StopsWhereAsked == verdict = "right"

\* The debugger's frames are the functions of this language that run, with nothing left of
\* those that ended; and "stack views remain live until it returns" (unsafe_debugger.h):
\* whatever was evaluated in between, a blocked debugger shows the stack it stopped at.
StackIsTrue ==
  /\ Len(frames) = Cardinality({k \in DOMAIN calls : calls[k].kind = "ours"})
  /\ Blocked => Stack = Top(stops).view
=============================================================================
