----------------------------- MODULE Completion -----------------------------
(***************************************************************************)
(* What a suspended script function promises whoever awaits its completed  *)
(* signal: once started it stays pending until it either completes, and    *)
(* then says so exactly once, or is abandoned together with its runtime    *)
(* and never says anything.                                                *)
(***************************************************************************)
EXTENDS Naturals

CONSTANT Promises

VARIABLES status,  \* of each promise
          told     \* how often its completion was announced

Init == /\ status = [p \in Promises |-> "none"]
        /\ told = [p \in Promises |-> 0]

Start(p) == /\ status[p] = "none"
            /\ status' = [status EXCEPT ![p] = "pending"]
            /\ UNCHANGED told

Complete(p) == /\ status[p] = "pending"
               /\ status' = [status EXCEPT ![p] = "completed"]
               /\ told' = [told EXCEPT ![p] = 1]

Abandon(p) == /\ status[p] = "pending"
              /\ status' = [status EXCEPT ![p] = "abandoned"]
              /\ UNCHANGED told

Next == \E p \in Promises : Start(p) \/ Complete(p) \/ Abandon(p)

Spec == Init /\ [][Next]_<<status, told>>
=============================================================================
