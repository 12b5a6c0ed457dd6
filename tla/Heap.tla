-------------------------------- MODULE Heap --------------------------------
(***************************************************************************)
(* The binary heap of heap.h: an array of pointers to the caller's nodes,  *)
(* which know their index.  A loop of the code takes one step per round.   *)
(***************************************************************************)
EXTENDS Naturals, FiniteSets

CONSTANTS Node,                 \* the caller's nodes
          Prio                  \* what cmp compares

VARIABLES
    slot,       \* heap->node: the array, of heap->size entries
    len,        \* heap->len
    idx,        \* idx[n]: the index a node remembers
    prio,       \* the priorities, which the caller may change
    pc,         \* the loop that runs: "idle", "up", "down", "hole"
    node,       \* its node; of a deletion the node that moved last
    hole        \* of a deletion: p, the index of the gap
vars == <<slot, len, idx, prio, pc, node, hole>>

NULL == 0
Size == Cardinality(DOMAIN slot)
Lowest == CHOOSE p \in Prio : \A q \in Prio : p <= q
Init ==
    /\ slot = <<>> /\ len = 0
    /\ idx = [n \in Node |-> 0] /\ prio = [n \in Node |-> Lowest]
    /\ pc = "idle" /\ node = NULL /\ hole = 0

Held == {slot[i] : i \in {j \in DOMAIN slot : j < len}}
Parent(i) == (i - 1) \div 2

(* Mutant: one of the two entries is not written. *)
SwapOneSlot(n, m) ==
    /\ slot' = [slot EXCEPT ![idx[n]] = m]
    /\ idx' = [idx EXCEPT ![n] = idx[m], ![m] = idx[n]]
\* heap_swap
Swap(n, m) ==
    /\ slot' = [slot EXCEPT ![idx[n]] = m, ![idx[m]] = n]
    /\ idx' = [idx EXCEPT ![n] = idx[m], ![m] = idx[n]]
Start(loop, n) == pc' = loop /\ node' = n
Return == pc' = "idle" /\ node' = NULL /\ hole' = 0

----------------------------------------------------------------------------
\* realloc doubles a full array, or fails and the node is not taken.
Grown == [i \in 0 .. (IF Size = 0 THEN 1 ELSE 2 * Size) - 1 |->
            IF i < Size THEN slot[i] ELSE NULL]
Insert(n, p) ==
    /\ pc = "idle" /\ n \notin Held
    /\ slot' = [IF len >= Size THEN Grown ELSE slot EXCEPT ![len] = n]
    /\ idx' = [idx EXCEPT ![n] = len] /\ len' = len + 1
    /\ prio' = [prio EXCEPT ![n] = p]
    /\ Start("up", n) /\ UNCHANGED hole

\* One round of heap_pull_up.
PullUp ==
    /\ pc = "up" /\ idx[node] > 0
    /\ LET parent == slot[Parent(idx[node])]
       IN  prio[node] > prio[parent] /\ Swap(node, parent)
    /\ UNCHANGED <<len, prio, pc, node, hole>>
PullUpEnds ==
    /\ pc = "up" /\ (idx[node] > 0 => prio[node] <= prio[slot[Parent(idx[node])]])
    /\ Return /\ UNCHANGED <<slot, len, idx, prio>>

(* Mutant: the right child is compared with the node, not with the greater. *)
LargestOfTwo(n) ==
    LET l == 2 * idx[n] + 1
        m == IF l < len /\ prio[slot[l]] > prio[n] THEN slot[l] ELSE n
    IN  IF l + 1 < len /\ prio[slot[l + 1]] > prio[n] THEN slot[l + 1] ELSE m
\* The node among n and its children that heap_push_down brings up: the left
\* child only when it is greater than n, the right only when it is greater
\* than that.
Largest(n) ==
    LET l == 2 * idx[n] + 1
        m == IF l < len /\ prio[slot[l]] > prio[n] THEN slot[l] ELSE n
    IN  IF l + 1 < len /\ prio[slot[l + 1]] > prio[m] THEN slot[l + 1] ELSE m
PushDown ==
    /\ pc = "down" /\ Largest(node) # node
    /\ Swap(node, Largest(node))
    /\ UNCHANGED <<len, prio, pc, node, hole>>
PushDownEnds ==
    /\ pc = "down" /\ Largest(node) = node
    /\ Return /\ UNCHANGED <<slot, len, idx, prio>>

\* heap_adjust, after the caller changed the priority of a node.
Adjust(n, p) ==
    /\ pc = "idle" /\ n \in Held /\ p # prio[n]
    /\ prio' = [prio EXCEPT ![n] = p]
    /\ Start(IF idx[n] > 0 /\ p >= prio[slot[Parent(idx[n])]] THEN "up" ELSE "down", n)
    /\ UNCHANGED <<slot, len, idx, hole>>

\* heap_delete: the gap sinks to the bottom, the last node fills it and is
\* pulled up.  The last entry is still compared on the way: c may be len.
Forget(n) == idx' = [idx EXCEPT ![n] = 0] /\ prio' = [prio EXCEPT ![n] = Lowest]
Delete(n) ==
    /\ pc = "idle" /\ n \in Held
    /\ len' = len - 1 /\ Forget(n)
    /\ IF len' = 0 \/ slot[len'] = n
       THEN slot' = [slot EXCEPT ![len'] = NULL] /\ Return
       ELSE slot' = slot /\ Start("hole", n) /\ hole' = idx[n]

Sink ==
    /\ pc = "hole" /\ 2 * hole + 1 <= len
    /\ LET l == 2 * hole + 1
           c == IF l + 1 <= len /\ prio[slot[l + 1]] > prio[slot[l]] THEN l + 1 ELSE l
       IN  /\ slot' = [slot EXCEPT ![hole] = slot[c]]
           /\ idx' = [idx EXCEPT ![slot[c]] = hole]
           /\ node' = slot[c] /\ hole' = idx[slot[c]]
    /\ UNCHANGED <<len, prio, pc>>
Fill ==
    /\ pc = "hole" /\ 2 * hole + 1 > len
    /\ LET last == slot[len]
       IN  IF last = node THEN slot' = [slot EXCEPT ![len] = NULL] /\ Return /\ UNCHANGED idx
           ELSE /\ slot' = [slot EXCEPT ![hole] = last, ![len] = NULL]
                /\ idx' = [idx EXCEPT ![last] = hole]
                /\ Start("up", last) /\ hole' = 0
    /\ UNCHANGED <<len, prio>>

Next ==
    \/ \E n \in Node : Delete(n) \/ \E p \in Prio : Insert(n, p) \/ Adjust(n, p)
    \/ PullUp \/ PullUpEnds \/ PushDown \/ PushDownEnds \/ Sink \/ Fill
Spec == Init /\ [][Next]_vars

----------------------------------------------------------------------------
HeapTypeOK ==
    /\ DOMAIN slot = 0 .. Size - 1 /\ \A i \in DOMAIN slot : slot[i] \in Node \union {NULL}
    /\ len \in Nat /\ idx \in [Node -> Nat] /\ prio \in [Node -> Prio]
    /\ pc \in {"idle", "up", "down", "hole"} /\ node \in Node \union {NULL} /\ hole \in Nat

\* Between operations no node is below one of lower priority, so the top is
\* a maximum; sinking and filling the gap of a deletion keeps it so.
HeapOrder ==
    pc = "idle" => \A i \in 1 .. len - 1 : prio[slot[i]] <= prio[slot[Parent(i)]]

\* The index every node remembers is where it is, or heap_delete would cut
\* out another node.
IndexMirrors == pc \in {"idle", "up", "down"} => \A i \in 0 .. len - 1 : idx[slot[i]] = i

\* Every index the loops read is an allocated, filled entry; the deletion
\* reads one past the length.
ReadsInBounds ==
    /\ len <= Size
    /\ pc = "hole" => /\ hole <= len /\ len < Size
                      /\ \A i \in (0 .. len) \ {hole} : slot[i] # NULL

\* A loop neither loses a node nor keeps the deleted one.
Holds == IF pc = "hole" THEN {slot[i] : i \in (0 .. len) \ {hole}} ELSE Held
Doing == IF pc = "idle" THEN pc ELSE "loop"
Leaving == {}
S == INSTANCE NodeSet WITH held <- Holds, doing <- Doing, leaving <- Leaving
ImplementsNodeSet == S!Spec
============================================================================
