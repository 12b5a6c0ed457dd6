---------------------------- MODULE MCContainers ----------------------------
(***************************************************************************)
(* The containers of nodes for TLC, side by side: a behaviour works with   *)
(* one of them, chosen in the initial state.  They share the variables     *)
(* that their modules name alike.                                          *)
(***************************************************************************)
EXTENDS TreeLinks, Integers, TLC

CONSTANTS AvlNode,                \* the nodes of the AVL tree, a subset of Node
          PrioNode, Prio,         \* nodes and priorities of the two heaps
          Alike,                  \* some of PrioNode, which TLC exchanges
          ListHead, Entry         \* the cells of the lists

VARIABLES kind,
    t, pc, node, parent, real, victim, slot, len, idx, prio, hole,  \* ordered containers
    s, seq, head, back, pos, n, todo                                \* lists

\* The augmented values are in no order; two nodes of the AVL tree have the
\* same key, which the search of a red-black tree's caller refuses.
RbKey == [m \in Node |-> m]
AvlKey == [m \in AvlNode |-> IF m = 8 THEN 4 ELSE m]
Val == [m \in Node |-> (m * 4) % 9]

R == INSTANCE RbTree WITH Key <- RbKey
A == INSTANCE AvlTree WITH Node <- AvlNode, Key <- AvlKey
P == INSTANCE PrioTree WITH Node <- PrioNode
H == INSTANCE Heap WITH Node <- PrioNode

L == INSTANCE Lists
C == INSTANCE HLists

\* Nodes and cells are the callers' memory; NULL and the poison are not.
ASSUME PrioAssumption ==
    /\ NULL \notin PrioNode /\ Prio \subseteq Nat
    /\ \E p \in Prio : \A q \in Prio : p <= q
ASSUME AvlAssumption == AvlNode \subseteq Node
ASSUME CellAssumption ==
    /\ ListHead \intersect Entry = {}
    /\ {C!NULL, L!POISON1, L!POISON2, Head(L!LOST)} \intersect L!Cell = {}

ordered == <<t, pc, node, parent, real, victim, slot, len, idx, prio, hole>>
lists == <<s, seq, head, back, pos, n, todo>>
NoTree == t = NULL
NoParent == parent = NULL
NoAvl == real = NULL /\ victim = NULL
NoPrio == prio = NULL
NoArray == slot = NULL /\ len = NULL /\ idx = NULL /\ hole = NULL
NoOrdered == NoTree /\ pc = NULL /\ node = NULL /\ NoParent /\ NoAvl /\ NoPrio /\ NoArray
NoDirection == back = NULL /\ n = NULL
NoList == s = NULL /\ seq = NULL /\ head = NULL /\ pos = NULL /\ todo = NULL /\ NoDirection
Init ==
    \/ kind = "rbtree" /\ R!Init /\ NoAvl /\ NoPrio /\ NoArray /\ NoList
    \/ kind = "avltree" /\ A!Init /\ NoParent /\ NoPrio /\ NoArray /\ NoList
    \/ kind = "prio_tree" /\ P!Init /\ NoParent /\ NoAvl /\ NoArray /\ NoList
    \/ kind = "heap" /\ H!Init /\ NoTree /\ NoParent /\ NoAvl /\ NoList
    \/ kind = "list" /\ L!Init /\ NoOrdered
    \/ kind = "hlist" /\ C!Init /\ NoDirection /\ NoOrdered

RbTreeStep == R!Next /\ UNCHANGED <<real, victim, slot, len, idx, prio, hole, lists>>
AvlTreeStep == A!Next /\ UNCHANGED <<parent, slot, len, idx, prio, hole, lists>>
PrioTreeStep == P!Next /\ UNCHANGED <<parent, real, victim, slot, len, idx, hole, lists>>
HeapStep == H!Next /\ UNCHANGED <<t, parent, real, victim, lists>>
ListStep == L!Next /\ UNCHANGED ordered
HListStep == C!Next /\ UNCHANGED <<back, n, ordered>>
Next ==
    /\ UNCHANGED kind
    /\ \/ kind = "rbtree" /\ RbTreeStep
       \/ kind = "avltree" /\ AvlTreeStep
       \/ kind = "prio_tree" /\ PrioTreeStep
       \/ kind = "heap" /\ HeapStep
       \/ kind = "list" /\ ListStep
       \/ kind = "hlist" /\ HListStep
Spec == Init /\ [][Next]_<<kind, ordered, lists>>
Symmetry == Permutations(Alike)

----------------------------------------------------------------------------
\* The rules at the head of rbtree.c hold between operations, the invariants
\* that its rebalancing loops rely on in each round, and the augmented values
\* are right although their propagation stops early.
RedBlackRules ==
    kind = "rbtree" => R!RbTypeOK /\ R!RedBlack /\ R!LoopInvariants /\ R!AugmentedValues

\* The bits of avltree.c are the differences of the heights, its abort is
\* not reached, and balancing before unlinking leaves the node unlinkable.
BalanceRules ==
    kind = "avltree" => A!AvlTypeOK /\ A!Balanced /\ A!NeverAborts /\ A!RealStaysUnlinkable

\* Both search trees keep links mutual and keys in order in every step; the
\* walks meet every node, and that by which a caller frees them ends.
TreesAreSearched ==
    /\ kind = "rbtree" => R!SearchTree /\ R!WalksAgree /\ R!DestroySafe
    /\ kind = "avltree" => A!SearchTree /\ A!WalksAgree /\ A!DestroySafe

\* Neither heap leaves a node below one of lower priority between calls.  In
\* the array of heap.h nodes know their index, and it is read where it is
\* allocated and filled; in the tree of prio_tree.c the links are mutual and
\* the bits, which lead to the place of the next leaf and to the last one,
\* are the differences of the weights.
HeapRules ==
    /\ kind = "heap" => H!HeapTypeOK /\ H!HeapOrder /\ H!IndexMirrors /\ H!ReadsInBounds
    /\ kind = "prio_tree" => P!PrioTypeOK /\ P!PrioOrder /\ P!WeightBits /\ P!LinksMirror

\* The pointers of a list follow the sequence that it means, in both
\* directions, and an iteration meets each entry once, whatever its body
\* does to the one it is at.
ListsAreSequences ==
    /\ kind = "list" => L!ListsTypeOK /\ L!RingsAreSequences /\ L!IterationMeetsAll
    /\ kind = "hlist" => C!HListsTypeOK /\ C!ChainsAreSequences /\ C!IterationMeetsAll

\* Each of the ordered containers is a set of nodes: a call puts one in,
\* takes one out or replaces one, and the work that follows loses none.
S == INSTANCE NodeSet WITH
        held <- CASE kind = "rbtree" -> R!Holds
                  [] kind = "avltree" -> A!Holds
                  [] kind = "prio_tree" -> P!Holds
                  [] kind = "heap" -> H!Holds
                  [] kind \in {"list", "hlist"} -> {},
        doing <- CASE kind \in {"rbtree", "avltree"} -> R!Doing
                   [] kind \in {"prio_tree", "heap"} -> P!Doing
                   [] kind \in {"list", "hlist"} -> "idle",
        leaving <- CASE kind = "avltree" -> A!Leaving
                     [] kind = "prio_tree" -> P!Leaving
                     [] kind \in {"rbtree", "heap", "list", "hlist"} -> {}
ImplementsNodeSet == S!Spec
============================================================================
