---------------------------- MODULE Construction -----------------------------
(***************************************************************************)
(* Making objects of one script (unsafe_gdscript.cpp: new_instance and      *)
(* _instance_create).  The engine's set_script, which creates the instance, *)
(* takes no arguments and returns no error, so new() leaves both in the     *)
(* script: pending_args and pending_error.  Meanwhile the new object's      *)
(* initializers, its _init and its listeners run script that may make more  *)
(* objects, through new() or by giving the script to an object itself.      *)
(***************************************************************************)
EXTENDS Naturals, Sequences

CONSTANTS
  MaxObjects,    \* bound: objects made
  MaxInside,     \* bound: objects being made inside each other
  Listeners      \* whether listeners of script_changed give the script to further objects

ConstructionParameters == {MaxObjects, MaxInside} \subseteq Nat /\ Listeners \in BOOLEAN

NoObject == 0
Objects == 1..MaxObjects

VARIABLES
  hasInit,       \* the script declares _init
  pendingArgs,   \* pending_args: whose new() they were given to
  pendingError,  \* pending_error: the frame of the new() whose error it is
  making,        \* new_instance, set_script and _instance_create calls in progress
  objects,       \* objects so far
  alive,         \* those that were not freed
  given,         \* ghost: whose arguments the _init of each object got
  settled,       \* ghost: how the construction of each object ended
  reported       \* ghost: what its new() reported

ghosts == <<given, settled, reported>>
constructionVars == <<hasInit, pendingArgs, pendingError, making, objects, alive, ghosts>>

ConstructionInit ==
  /\ hasInit \in BOOLEAN
  /\ pendingArgs = NoObject /\ pendingError = 0
  /\ making = <<>> /\ objects = 0 /\ alive = {}
  /\ given = [o \in Objects |-> NoObject]
  /\ settled = [o \in Objects |-> "no"] /\ reported = [o \in Objects |-> "no"]

\* A call of new_instance keeps what was pending; its error is a local of the caller's.
NewFrame(o) ==
  [kind |-> "new", object |-> o, args |-> pendingArgs, error |-> pendingError, result |-> "ok"]
\* A call of set_script is in its member initializers, in _init, or telling listeners.
Stage(phase, o) == [kind |-> phase, object |-> o, args |-> NoObject, error |-> 0, result |-> "ok"]

Newest == making[Len(making)]
Older == SubSeq(making, 1, Len(making) - 1)
At(kind) == making # <<>> /\ Newest.kind = kind

\* Script runs: outside of all this, in an initializer, in _init or in a listener.
Inside == Len(SelectSeq(making, LAMBDA f : f.kind # "new"))
MayMake == Inside < MaxInside /\ objects < MaxObjects /\ ~At("new")

-----------------------------------------------------------------------------
Makes(frames) ==
  /\ objects' = objects + 1 /\ alive' = alive \cup {objects + 1}
  /\ making' = making \o frames
  /\ UNCHANGED <<hasInit, ghosts>>

\* new(), once it has found a program and refused arguments that no _init would take.
NewInstance ==
  /\ MayMake
  /\ Makes(<<NewFrame(objects + 1), Stage("members", objects + 1)>>)
  /\ pendingArgs' = objects + 1 /\ pendingError' = Len(making) + 1

\* Script, or a scene it instantiates, gives the script to an object.
SetScript ==
  /\ MayMake /\ (At("listeners") => Listeners)
  /\ Makes(<<Stage("members", objects + 1)>>)
  /\ UNCHANGED <<pendingArgs, pendingError>>

\* _init is called with what is pending once the initializers succeeded.
CallInit ==
  /\ At("members") /\ hasInit
  /\ given' = [given EXCEPT ![Newest.object] = pendingArgs]
  /\ making' = Append(Older, Stage("init", Newest.object))
  /\ UNCHANGED <<hasInit, pendingArgs, pendingError, objects, alive, settled, reported>>

\* How it ended goes where pending_error points by then, be it good or bad.
Written(frames, result) ==
  IF pendingError = 0 THEN frames ELSE [frames EXCEPT ![pendingError].result = result]

Ends(result) ==
  /\ settled' = [settled EXCEPT ![Newest.object] = result]
  /\ making' = Append(Written(Older, result), Stage("listeners", Newest.object))
  /\ UNCHANGED <<hasInit, pendingArgs, pendingError, objects, alive, given, reported>>

\* The initializers failed, or there is no _init to call.
InitializersEnd ==
  /\ At("members")
  /\ \/ Ends("failed")
     \/ ~hasInit /\ Ends("ok")

\* _init refused its arguments, returned, or left a message.
InitEnds == At("init") /\ \E result \in {"ok", "failed"} : Ends(result)

\* The engine's set_script has told who listens for script_changed.
SetScriptReturns ==
  /\ At("listeners") /\ making' = Older
  /\ UNCHANGED <<hasInit, pendingArgs, pendingError, objects, alive, ghosts>>

\* What was pending is restored; a failed object is freed, or its last reference dropped.
Restored_Nothing(f) == pendingArgs' = NoObject /\ pendingError' = 0
Restored(f) == pendingArgs' = f.args /\ pendingError' = f.error

NewReturns ==
  /\ At("new") /\ Restored(Newest)
  /\ reported' = [reported EXCEPT ![Newest.object] = Newest.result]
  /\ alive' = IF Newest.result = "failed" THEN alive \ {Newest.object} ELSE alive
  /\ making' = Older
  /\ UNCHANGED <<hasInit, objects, given, settled>>

ConstructionNext ==
  \/ NewInstance \/ SetScript
  \/ CallInit \/ InitializersEnd \/ InitEnds
  \/ SetScriptReturns \/ NewReturns

ConstructionSpec == ConstructionInit /\ [][ConstructionNext]_constructionVars

-----------------------------------------------------------------------------
(* Properties.                                                              *)

ConstructionTypeOK ==
  /\ hasInit \in BOOLEAN /\ objects \in 0..MaxObjects /\ alive \subseteq 1..objects
  /\ pendingArgs \in Objects \cup {NoObject} /\ pendingError \in 0..Len(making)
  /\ \A k \in DOMAIN making :
       /\ making[k].kind \in {"new", "members", "init", "listeners"}
       /\ making[k].object \in 1..objects /\ making[k].error \in 0..(k - 1)
       /\ making[k].args \in Objects \cup {NoObject} /\ making[k].result \in {"ok", "failed"}
  /\ given \in [Objects -> Objects \cup {NoObject}]
  /\ {settled[o] : o \in Objects} \cup {reported[o] : o \in Objects} \subseteq {"no", "ok", "failed"}

\* Whatever objects are made while one is, new() gives its object its own arguments, reports
\* what became of that object, and frees it just when that failed; and nothing stays pending
\* that points into a call that has returned.
IsNew(o) == reported[o] # "no" \/ \E k \in DOMAIN making : making[k].kind = "new" /\ making[k].object = o
NewIsOwn ==
  /\ \A o \in 1..objects :
       /\ IsNew(o) => given[o] \in {NoObject, o}
       /\ IsNew(o) /\ hasInit /\ settled[o] = "ok" => given[o] = o
       /\ reported[o] # "no" => reported[o] = settled[o] /\ ((o \in alive) = (settled[o] = "ok"))
  /\ pendingError # 0 => pendingError \in DOMAIN making /\ making[pendingError].object = pendingArgs
  /\ making = <<>> => pendingArgs = NoObject
=============================================================================
