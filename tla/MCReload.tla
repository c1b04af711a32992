------------------------------ MODULE MCReload ------------------------------
(* Reload for TLC: the .cfg files name model values for the instances.       *)
EXTENDS Reload, TLC

Symmetry == Permutations(Instances)

(* States that differ in nothing a later step reads are explored once: what a *)
(* free address last held, the fields of a runtime that can only be left, a   *)
(* program that is gone, the snapshots of a reload past its migration loop.   *)
(* A running function is seen with its program, whose statics it may assign.  *)
Cancelling(k) == /\ stack[k].kind = "reload"
                 /\ stack[k].published /\ stack[k].todo = {}
                 /\ k < Len(stack) => stack[k + 1].kind # "members"
Seen(k) == IF Cancelling(k)
           THEN [kind |-> "cancelling", held |-> Holds(stack[k]), queue |-> stack[k].queue,
                 keep |-> stack[k].keep]
           ELSE stack[k]
Runs(k) == IF stack[k].kind \in {"call", "access", "members"} THEN prog[stack[k].state] ELSE 0
Current == ({static, dispatch} \cup {inst[i] : i \in Instances}
             \cup UNION {Holds(stack[k]) : k \in {n \in 1..Len(stack) :
                            stack[n].kind = "reload" /\ ~Cancelling(n)}}) \ {None}
View == <<program, static, dispatch, inst, waiting, built, want, wantStatic,
          [k \in 1..Len(stack) |-> <<Seen(k), Runs(k)>>],
          [s \in Current |-> <<prog[s], value[s]>>],
          [v \in {program} \cup {prog[s] : s \in Current} |-> stat[v]]>>
=============================================================================
