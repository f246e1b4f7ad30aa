------------------------------- MODULE HotReload -------------------------------
(***************************************************************************)
(* What the hot reload of the data plane promises: there is one newest     *)
(* configuration, it is only ever replaced by a newer one, and each worker *)
(* moves from the configuration it runs to a newer one that has been       *)
(* published, in its own time.                                             *)
(***************************************************************************)
EXTENDS Naturals

CONSTANT Workers

VARIABLES
    newest,     \* version of the newest configuration
    running     \* version of the configuration each worker runs, 0 before it starts

Init == newest \in Nat /\ running = [w \in Workers |-> 0]

Publish == newest' \in Nat /\ newest' > newest /\ UNCHANGED running

Adopt(w) ==
    /\ running'[w] \in running[w] .. newest
    /\ running' = [running EXCEPT ![w] = running'[w]]
    /\ UNCHANGED newest

Next == Publish \/ \E w \in Workers : Adopt(w)

Spec == Init /\ [][Next]_<<newest, running>>

=============================================================================
