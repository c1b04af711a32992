---------------------------- MODULE Compilation ----------------------------
(***************************************************************************)
(* What compiling a script decides before and after the C compiler runs:    *)
(* the chain of base scripts (unsafe_compiler_options), the defaults of its *)
(* properties (native_property_defaults) and the functions that are given a *)
(* receiver (NativeProgram::compile, uses_self).  Each is an iteration with *)
(* an early exit; its result is compared with what it should compute.       *)
(*                                                                          *)
(* The stages follow each other.  A stage's input is chosen when it starts  *)
(* and forgotten when it ends, as the code's locals are.                    *)
(***************************************************************************)
EXTENDS Integers, Sequences, FiniteSets, Functions

CONSTANTS
  Files,         \* script files
  Paths,         \* spellings of paths; several may lead to one file
  FileOf,        \* the file a path leads to
  Limit,         \* scripts in a chain of inheritance: 64 in the code
  Initializers,  \* expressions a property may be initialized with, and their parts
  Constants,     \* the constants of the script, with the type of each
  Functions,     \* number of functions of the program
  MaxUses        \* bound: what the instructions of one function use or call

CompilationParameters ==
  /\ FileOf \in [Paths -> Files]
  /\ {"none", "invalid", "missing"} \cap Paths = {}
  /\ Limit \in Nat \ {0} /\ {Functions, MaxUses} \subseteq Nat
  /\ \A e \in Initializers :
       /\ e.kind = "negate" => e.of \in Initializers
       /\ e.kind \in {"array", "construct"} => e.of \subseteq Initializers

\* What a file holds: a script that extends a path, or no script, or does not parse; or the
\* file is not there.
Headers == Paths \cup {"none", "invalid"}

VARIABLES
  phase,     \* the stage
  disk,      \* the files
  header,    \* the header of the script being compiled, which may not be saved yet
  current,   \* walk: the header last read
  visited,   \* walk: paths seen, as they are spelled
  bases,     \* walk: options.base_sources
  ruling,    \* walk: the error it ended with, or "ok"
  declared,  \* defaults: the declarations read, farthest base first
  default,   \* defaults: which declaration the default of a property is from; 0 for none
  body,      \* receivers: what the instructions of each function use and call
  debug,     \* receivers: debug_info
  usesSelf,  \* receivers: uses_self
  changed    \* receivers: the last pass marked a function

walk == <<disk, header, current, visited, bases, ruling>>
defaults == <<declared, default>>
receivers == <<body, debug, usesSelf, changed>>
compilationVars == <<phase, walk, defaults, receivers>>

CompilationInit ==
  /\ phase = "walk"
  /\ disk \in [Files -> Headers \cup {"missing"}]
  /\ header \in Headers /\ current = header
  /\ \E own \in SUBSET Paths : Cardinality(own) <= 1 /\ visited = own
  /\ bases = <<>> /\ ruling = "ok"
  /\ declared = <<>> /\ default = 0
  /\ body = <<>> /\ debug = FALSE /\ usesSelf = <<>> /\ changed = FALSE

-----------------------------------------------------------------------------
(* The chain of base scripts.  A script's header is read; its base is the    *)
(* next script, unless the chain is too long, comes back or breaks off.      *)

TooDeep_OneLess == Len(bases) = Limit - 2
TooDeep == Len(bases) = Limit - 1

Ruling ==
  CASE current = "invalid" -> "invalid"
    [] current = "none" -> "ok"
    [] OTHER -> IF TooDeep THEN "deep"
                ELSE IF current \in visited THEN "cyclic"
                ELSE IF disk[FileOf[current]] = "missing" THEN "missing"
                ELSE "base"

WalkOn ==
  /\ phase = "walk" /\ Ruling = "base"
  /\ visited' = visited \cup {current}
  /\ bases' = Append(bases, current)
  /\ current' = disk[FileOf[current]]
  /\ UNCHANGED <<phase, disk, header, ruling, defaults, receivers>>

WalkEnds ==
  /\ phase = "walk" /\ Ruling # "base"
  /\ ruling' = Ruling /\ phase' = "walked"
  /\ UNCHANGED <<disk, header, current, visited, bases, defaults, receivers>>

\* The frontend reads the sources found, not the files again.
Parse ==
  /\ phase = "walked" /\ ruling = "ok"
  /\ phase' = "defaults"
  /\ bases' = [k \in DOMAIN bases |-> "source"]
  /\ disk' = [f \in Files |-> "missing"]
  /\ header' = "none" /\ current' = "none" /\ visited' = {}
  /\ UNCHANGED <<ruling, defaults, receivers>>

-----------------------------------------------------------------------------
(* Property defaults: the type of value an initializer has, without running *)
(* anything, or "none".                                                     *)

ConstantValue[e \in Initializers] ==
  CASE e.kind = "literal" -> e.type
    [] e.kind = "variable" -> IF e.name \in DOMAIN Constants THEN Constants[e.name] ELSE "none"
    [] e.kind = "array" -> IF \E x \in e.of : ConstantValue[x] = "none" THEN "none" ELSE "array"
    [] e.kind = "negate" -> IF ConstantValue[e.of] \in {"scalar", "vector"}
                            THEN ConstantValue[e.of] ELSE "none"
    [] e.kind = "construct" -> IF \A x \in e.of : ConstantValue[x] = "scalar"
                               THEN "vector" ELSE "none"
    [] OTHER -> "none"

\* Scalars already come with the frontend's metadata.
Compound == {"array", "vector", "name"}

\* A declaration of the property in one script: absent; a constant, a static or an @onready
\* variable, which are passed over; or a variable with an initializer.
Declarations == {[is |-> "absent"], [is |-> "skipped"]}
                \cup [is : {"variable"}, init : Initializers]

Collected_KeepsBase(d) ==
  IF d.is = "variable" /\ ConstantValue[d.init] \in Compound THEN Len(declared) + 1 ELSE default
Collected(d) ==
  IF d.is # "variable" THEN default
  ELSE IF ConstantValue[d.init] \in Compound THEN Len(declared) + 1 ELSE 0

\* Base sources are read from the farthest to the nearest, then the script's own.
Collect ==
  /\ phase = "defaults" /\ Len(declared) <= Len(bases)
  /\ \E d \in Declarations : default' = Collected(d) /\ declared' = Append(declared, d)
  /\ UNCHANGED <<phase, walk, receivers>>

\* The defaults are complete and the sources no longer needed.
Supplement ==
  /\ phase = "defaults" /\ Len(declared) > Len(bases)
  /\ phase' = "generate"
  /\ bases' = <<>> /\ declared' = <<>> /\ default' = 0
  /\ UNCHANGED <<disk, header, current, visited, ruling, receivers>>

-----------------------------------------------------------------------------
(* Receivers.  A function uses its receiver, calls functions of the program *)
(* by name, or calls a name that is not among them.                         *)

UsesSelf == -1
Unknown == 0

Bodies == {uses \in SUBSET ({UsesSelf, Unknown} \cup 1..Functions) : Cardinality(uses) <= MaxUses}

\* The program is generated and compiled, its functions are seeded.
Generate ==
  /\ phase = "generate" /\ phase' = "receivers"
  /\ body' \in [1..Functions -> Bodies]
  /\ debug' \in BOOLEAN
  /\ usesSelf' = [f \in 1..Functions |-> debug' \/ UsesSelf \in body'[f]]
  /\ changed' = TRUE
  /\ UNCHANGED <<walk, defaults>>

Marked(uses, f) ==
  [uses EXCEPT ![f] = @ \/ \E c \in body[f] \ {UsesSelf} : c = Unknown \/ uses[c]]

\* One pass over the functions in their order; a later one sees what an earlier one marked.
Pass_Once(uses) == usesSelf
Pass(uses) ==
  LET after[f \in 0..Functions] == IF f = 0 THEN uses ELSE Marked(after[f - 1], f)
  IN after[Functions]

Propagate ==
  /\ phase = "receivers" /\ changed
  /\ usesSelf' = Pass(usesSelf)
  /\ changed' = (usesSelf' # usesSelf)
  /\ UNCHANGED <<phase, walk, defaults, body, debug>>

Publish ==
  /\ phase = "receivers" /\ ~changed
  /\ phase' = "published"
  /\ UNCHANGED <<walk, defaults, receivers>>

CompilationNext == WalkOn \/ WalkEnds \/ Parse \/ Collect \/ Supplement \/ Generate \/ Propagate \/ Publish

CompilationSpec == CompilationInit /\ [][CompilationNext]_compilationVars

-----------------------------------------------------------------------------
(* Properties.                                                              *)

CompilationTypeOK ==
  /\ phase \in {"walk", "walked", "defaults", "generate", "receivers", "published"}
  /\ disk \in [Files -> Headers \cup {"missing"}]
  /\ {header, current} \subseteq Headers /\ visited \subseteq Paths
  /\ bases \in Seq(Paths \cup {"source"}) /\ Len(bases) < Limit
  /\ ruling \in {"ok", "invalid", "deep", "cyclic", "missing"}
  /\ declared \in Seq(Declarations) /\ default \in 0..Len(declared)
  /\ debug \in BOOLEAN /\ changed \in BOOLEAN
  /\ phase \in {"receivers", "published"} => usesSelf \in [1..Functions -> BOOLEAN]

\* The headers from a script upwards, as far as the limit.
ChainFrom(start, files) ==
  LET chain[k \in 0..Limit] ==
        IF k = 0 THEN start
        ELSE IF chain[k - 1] \in Paths THEN files[FileOf[chain[k - 1]]] ELSE chain[k - 1]
  IN chain
Chain == ChainFrom(header, disk)

Own == visited \ Range(bases)
Ends(n) == Chain[n] = "none" /\ \A k \in 0..(n - 1) : Chain[k] \in Paths \ Own

\* A script compiles against exactly its ancestors, nearest first: a chain of at most Limit
\* scripts that ends is accepted whole, and one that is refused really is longer, or comes
\* back to a script, or leads to a file that is not there or does not parse.
InheritanceIsRight ==
  phase = "walked" =>
    /\ ruling = "ok" <=> \E n \in 0..(Limit - 1) : Ends(n)
    /\ ruling = "ok" => bases = [k \in 1..Len(bases) |-> Chain[k - 1]] /\ Chain[Len(bases)] = "none"
    /\ ruling = "deep" => \A k \in 0..(Limit - 1) : Chain[k] \in Paths
    /\ ruling = "cyclic" => \E k \in 0..Limit : Chain[k] \in Own \cup {Chain[j] : j \in 0..(k - 1)}
    /\ ruling \in {"missing", "invalid"} => \E k \in 0..Limit : Chain[k] = ruling

\* A property has the default of the script nearest to the one compiled that declares it, and
\* none of a farther one even when the nearer default cannot be told without running script.
Ordinary == {k \in DOMAIN declared : declared[k].is = "variable"}
DefaultIsNearest ==
  phase = "defaults" =>
    \/ Ordinary = {} /\ default = 0
    \/ \E n \in Ordinary :
         /\ \A k \in Ordinary : k <= n
         /\ default = IF ConstantValue[declared[n].init] \in Compound THEN n ELSE 0

\* The functions given a receiver are the least set that is closed under being called and has
\* those that use one, call a name nobody knows, or are debugged: none that may need a
\* receiver goes without, and no other pays for it.
Closed(uses) ==
  \A f \in 1..Functions :
    (debug \/ body[f] \cap (uses \cup {UsesSelf, Unknown}) # {}) => f \in uses
ReceiversExact ==
  phase = "published" =>
    LET marked == {f \in 1..Functions : usesSelf[f]}
    IN Closed(marked) /\ \A uses \in SUBSET (1..Functions) : Closed(uses) => marked \subseteq uses
=============================================================================
