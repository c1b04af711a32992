------------------------------ MODULE MCNative ------------------------------
(***************************************************************************)
(* What compiled code stands on, for TLC: the values in a function's slots, *)
(* the C module that holds its machine code, the GodotJIT object that owns  *)
(* what is called and the objects whose methods it is.  These parts share   *)
(* no state: one of them runs, the others stay as they start.               *)
(***************************************************************************)
EXTENDS Slots, CModule, GodotJIT, Construction

VARIABLE part  \* the part that runs

ASSUME Bounds ==
  SlotsParameters /\ CModuleParameters /\ GodotJITParameters /\ ConstructionParameters

-----------------------------------------------------------------------------
MCInit ==
  /\ part \in {"slots", "module", "object", "construction"}
  /\ IF part = "construction" THEN TRUE ELSE hasInit = FALSE
  /\ SlotsInit /\ CModuleInit /\ GodotJITInit /\ ConstructionInit

Computes == part = "slots" /\ UNCHANGED <<part, moduleVars, constructionVars, objectVars>>
Builds == part = "module" /\ UNCHANGED <<part, slotVars, constructionVars, objectVars>>
Owns == part = "object" /\ UNCHANGED <<part, slotVars, moduleVars, constructionVars>>
MakesObjects == part = "construction" /\ UNCHANGED <<part, slotVars, moduleVars, objectVars>>

MCNext ==
  \/ \E dst, self, index \in Locals : May /\ GetIndexed(dst, self, index) /\ Computes
  \/ \E item, self \in Locals, index \in -1..(MaxLen - 1) :
       May /\ ArrayNext(item, self, index) /\ Computes
  \/ \E dst, self \in Locals : May /\ ArraySize(dst, self) /\ Computes
  \/ \E dst, x, y \in Locals : May /\ Evaluate(dst, x, y) /\ Computes
  \/ \E dst \in Locals, args \in Arguments : May /\ MakeArray(dst, args) /\ Computes
  \/ \E dst, x \in Locals : May /\ Coerce(dst, x) /\ Computes
  \/ \E dst, self, index, item \in Locals :
       May /\ SetIndexed(dst, self, index, item) /\ Computes
  \/ \E dst, self, arg \in Locals : May /\ CallMethod(dst, self, arg) /\ Computes
  \/ \E dst, src \in Locals : May /\ Copy(dst, src) /\ Computes
  \/ \E dst \in Locals, n \in {-1, 0} : May /\ Literal(dst, n) /\ Computes
  \/ \E s \in Locals : DestroySlot(s) /\ Computes
  \/ Epilogue /\ Computes
  \/ \E t \in Threads : Compile(t) /\ Builds
  \/ \E t \in Threads : Enter(t) /\ Builds
  \/ \E t \in Threads : Begin(t) /\ Builds
  \/ \E t \in Threads : CreateState(t) /\ Builds
  \/ \E t \in Threads : Translate(t) /\ Builds
  \/ \E t \in Threads : Relocate(t) /\ Builds
  \/ \E t \in Threads : FindEntry(t) /\ Builds
  \/ \E t \in Threads : NoEntry(t) /\ Builds
  \/ \E t \in Threads : MakeDirectory(t) /\ Builds
  \/ \E t \in Threads : WriteUnit(t) /\ Builds
  \/ \E t \in Threads : Fork(t) /\ Builds
  \/ \E t \in Threads : ChildWrites(t) /\ Builds
  \/ \E t \in Threads : ChildEnds(t) /\ Builds
  \/ \E t \in Threads : Interrupted(t) /\ Builds
  \/ \E t \in Threads : Wait(t) /\ Builds
  \/ \E t \in Threads : Load(t) /\ Builds
  \/ \E t \in Threads : Resolve(t) /\ Builds
  \/ \E t \in Threads : Unwind(t) /\ Builds
  \/ \E t \in Threads : Return(t) /\ Builds
  \/ \E t \in Threads : Lookup(t) /\ Builds
  \/ \E t \in Threads : Found(t) /\ Builds
  \/ \E t \in Threads : Named(t) /\ Builds
  \/ \E t \in Threads : NoMap(t) /\ Builds
  \/ \E t \in Threads : PerfMap(t) /\ Builds
  \/ \E t \in Threads : OpenMap(t) /\ Builds
  \/ \E t \in Threads : AppendMap(t) /\ Builds
  \/ \E t \in Threads : CloseMap(t) /\ Builds
  \/ \E t \in Threads : Drop(t) /\ Builds
  \/ \E t \in Threads : Destroy(t) /\ Builds
  \/ \E t \in Threads : Destroyed(t) /\ Builds
  \/ Restart /\ Builds
  \/ Len(stack) <= MaxDepth /\ CompileC /\ Owns
  \/ Len(stack) <= MaxDepth /\ Clear /\ Owns
  \/ CompileFails /\ Owns
  \/ CompileSgd /\ Owns
  \/ Initialized /\ Owns
  \/ InitializerFails /\ Owns
  \/ Execute /\ Owns
  \/ ExecuteNothing /\ Owns
  \/ Executed /\ Owns
  \/ CancelEnds /\ Owns
  \/ NewInstance /\ MakesObjects
  \/ SetScript /\ MakesObjects
  \/ CallInit /\ MakesObjects
  \/ InitializersEnd /\ MakesObjects
  \/ InitEnds /\ MakesObjects
  \/ SetScriptReturns /\ MakesObjects
  \/ NewReturns /\ MakesObjects

MCSpec ==
  /\ MCInit /\ [][MCNext]_<<part, slotVars, moduleVars, constructionVars, objectVars>>
  /\ Fairness

\* The variables of every part have their types.
EveryTypeOK == SlotsTypeOK /\ CModuleTypeOK /\ GodotJITTypeOK /\ ConstructionTypeOK
=============================================================================
