------------------------------ MODULE NodeSet ------------------------------
(***************************************************************************)
(* What every container of nodes promises.  A call puts a node in, takes   *)
(* one out or puts one in the place of another; while it then rotates,     *)
(* exchanges or relinks, no other node comes or goes.                      *)
(***************************************************************************)
EXTENDS Naturals, FiniteSets

VARIABLES
    held,       \* the nodes in the container
    doing,      \* "idle" between calls, "loop" in one, "destroy" when it is emptied
    leaving     \* the node of an erasure that has not been taken out yet
vars == <<held, doing, leaving>>

Put == held' \ held
Taken == held \ held'

Init == held = {} /\ doing = "idle" /\ leaving = {}

Call ==
    /\ doing = "idle" /\ leaving' \subseteq held' /\ Cardinality(leaving') <= 1
    /\ Cardinality(Put) <= 1 /\ Cardinality(Taken) <= 1
    /\ leaving' # {} => held' = held
Work ==
    /\ doing = "loop" /\ doing' \in {"loop", "idle"}
    /\ \/ UNCHANGED <<held, leaving>>
       \/ held' = held \ leaving /\ leaving' = {}
    /\ doing' = "idle" => leaving' = {}
Empty ==
    /\ doing = "destroy" /\ UNCHANGED leaving
    /\ Put = {} /\ Cardinality(Taken) <= 1
    /\ IF held' = {} THEN doing' \in {"destroy", "idle"} ELSE doing' = "destroy"
Next == Call \/ Work \/ Empty
Spec == Init /\ [][Next]_vars
============================================================================
