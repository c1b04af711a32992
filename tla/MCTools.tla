------------------------------ MODULE MCTools ------------------------------
(***************************************************************************)
(* What surrounds the running of a script, for TLC: highlighting it, its    *)
(* compilation, and debugging it.  These parts share no state, so that      *)
(* exploring their product would say nothing more than each alone: one of   *)
(* them runs, the others stay as they start.                                *)
(***************************************************************************)
EXTENDS Compilation, Debugger, Highlighter

VARIABLE part  \* the part that runs

ASSUME Bounds == CompilationParameters /\ DebuggerParameters /\ HighlighterParameters

-----------------------------------------------------------------------------
(* Values.                                                                  *)

MCFileOf == [a |-> "A", b |-> "B", c |-> "C", alias |-> "A"]
MCConstants == [LIMITS |-> "array"]
MCInitializers ==
  LET Literal(type) == [kind |-> "literal", type |-> type]
      Construct(args) == [kind |-> "construct", of |-> args]
      Negate(x) == [kind |-> "negate", of |-> x]
      Elements(elements) == [kind |-> "array", of |-> elements]
      Variable(name) == [kind |-> "variable", name |-> name]
      call == [kind |-> "other"]
  IN {Literal("scalar"), Literal("name"), call, Construct({Literal("scalar")}),
      Construct({Literal("scalar"), call}), Negate(Construct({Literal("scalar")})),
      Negate(Literal("name")), Elements({Literal("scalar"), Construct({Literal("scalar")})}),
      Elements({Literal("scalar"), call}), Variable("LIMITS"), Variable("other")}

\* A function of three instructions, two of them on one line.
MCLineOf == <<1, 1, 2>>

\* Lines that open, close, hide and escape delimiters.
MCLines == {
  <<"dquote", "word">>,                                 \* "name
  <<"dquote", "dquote", "dquote", "at", "func">>,       \* """@func
  <<"word", "space", "hash", "dquote">>,                \* name #"
  <<"space", "hash", "hash", "word">>,                  \*  ##name
  <<"dollar", "dquote", "word">>,                       \* $"name
  <<"dquote", "backslash", "dquote", "dot", "num">>,    \* "\".5
  <<"func", "space", "word", "paren", "squote">> }      \* func name('

-----------------------------------------------------------------------------
(* One part at a time.                                                      *)

\* The parts that do not run have one initial state each.
AtRest ==
  /\ IF part = "compilation" THEN TRUE ELSE
       disk = [f \in Files |-> "missing"] /\ header = "none" /\ visited = {}
  /\ IF part = "debugger" THEN TRUE ELSE breakpoints = {}
  /\ IF part = "highlighter" THEN TRUE ELSE
       text = [l \in 1..MaxLines |-> <<"dquote", "word">>] /\ members = FALSE

MCInit ==
  /\ part \in {"compilation", "debugger", "highlighter"}
  /\ AtRest
  /\ CompilationInit /\ DebuggerInit /\ HighlighterInit

Compiles == part = "compilation" /\ UNCHANGED <<part, highlighterVars, debuggerVars>>
Debugs == part = "debugger" /\ UNCHANGED <<part, compilationVars, highlighterVars>>
Highlights == part = "highlighter" /\ UNCHANGED <<part, compilationVars, debuggerVars>>

MCNext ==
  \/ WalkOn /\ Compiles
  \/ WalkEnds /\ Compiles
  \/ Parse /\ Compiles
  \/ Collect /\ Compiles
  \/ Supplement /\ Compiles
  \/ Generate /\ Compiles
  \/ Propagate /\ Compiles
  \/ Publish /\ Compiles
  \/ \E kind \in {"ours", "other"} : Enter(kind) /\ Debugs
  \/ \E kind \in {"ours", "other"} : Exit(kind) /\ Debugs
  \/ \E i \in Instructions, statement \in BOOLEAN : Reach(i, statement) /\ Debugs
  \/ Error /\ Debugs
  \/ OtherReaches /\ Debugs
  \/ \E c \in DOMAIN Depths : Command(c) /\ Debugs
  \/ \E line \in LinesOfCode : ToggleBreakpoint(line) /\ Debugs
  \/ SkipBreakpoints /\ Debugs
  \/ \E p \in 1..MaxLines : Highlight(p) /\ Highlights
  \/ ClearHighlightingCache /\ Highlights
  \/ \E declares \in BOOLEAN : SetEditedScript(declares) /\ Highlights
  \/ \E declares \in BOOLEAN : UpdateCache(declares) /\ Highlights
  \/ \E e \in DOMAIN text, line \in Lines : Rewrite(e, line) /\ Highlights
  \/ \E e \in DOMAIN text, line \in Lines : InsertAfter(e, line) /\ Highlights
  \/ \E e \in DOMAIN text : RemoveAfter(e) /\ Highlights

MCSpec == MCInit /\ [][MCNext]_<<part, compilationVars, highlighterVars, debuggerVars>>

\* The variables of every part have their types.
EveryTypeOK == CompilationTypeOK /\ DebuggerTypeOK /\ HighlighterTypeOK
=============================================================================
