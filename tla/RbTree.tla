------------------------------ MODULE RbTree -------------------------------
(***************************************************************************)
(* The red-black tree: rbtree.c, rbtree_augmented.h and rbtree.h.  An      *)
(* insertion links a node and an erasure unlinks one; the loops that       *)
(* restore the colours then take one step per case.  Every node carries an *)
(* augmented value, the largest Val of its subtree, kept by the callbacks  *)
(* of RB_DECLARE_CALLBACKS.                                                *)
(***************************************************************************)
EXTENDS TreeLinks, FiniteSetsExt

CONSTANTS Key, Val              \* what cmp compares; what the callbacks sum up

VARIABLES
    t,          \* the links, red[n] and aug[n]
    pc,         \* the loop that runs: "idle", "insert", "erase", "destroy"
    node,       \* its local: the cursor
    parent      \* its local: the parent, or the next node of a walk
vars == <<t, pc, node, parent>>

Empty == [root |-> NULL, par |-> [n \in Node |-> n], kid |-> [n \in Node |-> NoKids],
          red |-> [n \in Node |-> FALSE], aug |-> [n \in Node |-> 0]]
Init == t = Empty /\ pc = "idle" /\ node = NULL /\ parent = NULL

IsRed(n) == n # NULL /\ t.red[n]
Forget(s, n) == [ClearLinks(s, n) EXCEPT !.red[n] = FALSE, !.aug[n] = 0]

SetParentColor(s, n, p, red) == [s EXCEPT !.par[n] = p, !.red[n] = red]
SetIfAny(s, n, p, red) == IF n = NULL THEN s ELSE SetParentColor(s, n, p, red)

\* The callbacks: rbcompute is the caller's.
Compute(s, n) == Max({Val[n]} \union {s.aug[s.kid[n][d]] : d \in {e \in Side : s.kid[n][e] # NULL}})
AugmentCopy(s, old, new) == [s EXCEPT !.aug[new] = s.aug[old]]
AugmentRotate(s, old, new) ==
    LET c == AugmentCopy(s, old, new) IN [c EXCEPT !.aug[old] = Compute(c, old)]
AugmentPropagate(s, n, stop) ==
    LET climb[i \in Nat] ==     \* what i rounds of the loop make of <<s, n>>
            IF i = 0 THEN <<s, n>>
            ELSE LET c == climb[i - 1]
                 IN  IF c[2] = stop \/ c[1].aug[c[2]] = Compute(c[1], c[2]) THEN c
                     ELSE <<[c[1] EXCEPT !.aug[c[2]] = Compute(c[1], c[2])], c[1].par[c[2]]>>
    IN  climb[Cardinality(Node)][1]

\* Lifts n above its parent p, whose child it is on side d: the child links.
Lift(s, n, p, d) == [s EXCEPT !.kid[p][d] = s.kid[n][Other(d)], !.kid[n][Other(d)] = p]
(* Mutant: the node that comes up keeps its own colour. *)
RotateKeepsColor(s, old, new, red) ==
    ChangeChild(SetParentColor([s EXCEPT !.par[new] = s.par[old]], old, new, red), old, new, s.par[old])
RotateSetParents(s, old, new, red) ==
    ChangeChild(SetParentColor([s EXCEPT !.par[new] = s.par[old], !.red[new] = s.red[old]],
                               old, new, red),
                old, new, s.par[old])

----------------------------------------------------------------------------
\* Where a search for key k ends: at a node with that key, or at the node
\* that a new one would hang below.
Locate(s, k) ==
    LET down[x \in Node] ==
            LET c == s.kid[x][IF k < Key[x] THEN "left" ELSE "right"]
            IN  IF k = Key[x] \/ c = NULL THEN x ELSE down[c]
    IN  IF s.root = NULL THEN NULL ELSE down[s.root]
Find(s, k) == LET x == Locate(s, k) IN IF x # NULL /\ Key[x] = k THEN x ELSE NULL

LinkNode(s, n, p) ==
    LET l == [s EXCEPT !.par[n] = p, !.red[n] = TRUE, !.kid[n] = NoKids]
    IN  IF p = NULL THEN [l EXCEPT !.root = n]
        ELSE [l EXCEPT !.kid[p][IF Key[n] < Key[p] THEN "left" ELSE "right"] = n]

\* Callers with an augmented tree fill in the new node and its ancestors.
AugmentNew(s, n) == AugmentPropagate([s EXCEPT !.aug[n] = Val[n]], s.par[n], NULL)

Insert(n) ==
    /\ pc = "idle" /\ IsClear(t, n)
    /\ Find(t, Key[n]) = NULL           \* otherwise the node found is returned
    /\ LET p == Locate(t, Key[n])
       IN  t' = AugmentNew(LinkNode(t, n, p), n) /\ parent' = p
    /\ node' = n /\ pc' = "insert"

Return == pc' = "idle" /\ node' = NULL /\ parent' = NULL

InsertRoot ==
    /\ pc = "insert" /\ parent = NULL
    /\ t' = SetParentColor(t, node, NULL, FALSE)
    /\ Return

InsertBelowBlack ==
    /\ pc = "insert" /\ parent # NULL /\ ~IsRed(parent)
    /\ Return /\ UNCHANGED t

\* The side of g that p is on, by the test the code makes.
SideBelow(p, g) == IF p # t.kid[g].right THEN "left" ELSE "right"

\* Case 1: the uncle is red.
InsertColorFlip ==
    /\ pc = "insert" /\ IsRed(parent)
    /\ LET g == t.par[parent]
           uncle == t.kid[g][Other(SideBelow(parent, g))]
       IN  /\ IsRed(uncle)
           /\ t' = SetParentColor(SetParentColor(SetParentColor(t, uncle, g, FALSE),
                                                 parent, g, FALSE), g, t.par[g], TRUE)
           /\ node' = g /\ parent' = t.par[g]
    /\ UNCHANGED pc

\* Cases 2 and 3: the node is brought to the outside, then the parent up.
InsertRotate ==
    /\ pc = "insert" /\ IsRed(parent)
    /\ LET g == t.par[parent]
           d == SideBelow(parent, g)
           o == Other(d)
           inner == node = t.kid[parent][o]
           p == IF inner THEN node ELSE parent
           a == IF ~inner THEN t
                ELSE AugmentRotate(
                       SetParentColor(SetIfAny(Lift(t, node, parent, o), t.kid[node][d], parent, FALSE),
                                      parent, node, TRUE), parent, node)
       IN  /\ ~IsRed(t.kid[g][o])
           /\ t' = AugmentRotate(
                     RotateSetParents(SetIfAny([a EXCEPT !.kid[g][d] = a.kid[p][o], !.kid[p][o] = g],
                                               a.kid[p][o], g, FALSE), g, p, TRUE), g, p)
    /\ Return

----------------------------------------------------------------------------
\* Unlinking: node n with at most one child gives its place to that child,
\* a node with two to its successor.  Both return the new tree and where
\* the colours need repair (NULL: nowhere).
Splice(s, n) ==
    LET child == IF s.kid[n].left = NULL THEN s.kid[n].right ELSE s.kid[n].left
        c == ChangeChild(SetIfAny(s, child, s.par[n], s.red[n]), n, child, s.par[n])
    IN  [tree |-> AugmentPropagate(c, s.par[n], NULL),
         rebalance |-> IF child # NULL \/ s.red[n] THEN NULL ELSE s.par[n]]

Succeed(s, n) ==
    LET child == s.kid[n].right
        succ == Deepest(s, child, "left")
        near == succ = child
        up == IF near THEN succ ELSE s.par[succ]
        child2 == s.kid[succ].right
        a == IF near THEN AugmentCopy(s, n, succ)
             ELSE AugmentPropagate(
                    AugmentCopy([s EXCEPT !.kid[up].left = child2, !.kid[succ].right = child,
                                          !.par[child] = succ], n, succ), up, succ)
        b == ChangeChild([a EXCEPT !.kid[succ].left = a.kid[n].left, !.par[a.kid[n].left] = succ],
                         n, succ, s.par[n])
        c == SetParentColor(SetIfAny(b, child2, up, FALSE), succ, s.par[n], s.red[n])
    IN  [tree |-> AugmentPropagate(c, succ, NULL),
         rebalance |-> IF child2 # NULL \/ s.red[succ] THEN NULL ELSE up]

Erase(n) ==
    /\ pc = "idle" /\ ~IsClear(t, n)
    /\ LET u == IF \E d \in Side : t.kid[n][d] = NULL THEN Splice(t, n) ELSE Succeed(t, n)
       IN  /\ t' = Forget(u.tree, n)        \* the caller may free n
           /\ parent' = u.rebalance
           /\ pc' = IF u.rebalance = NULL THEN "idle" ELSE "erase"
    /\ node' = NULL

Sibling == t.kid[parent][Other(SideBelow(node, parent))]

\* Case 1: the sibling is red.
EraseLiftRedSibling ==
    /\ pc = "erase" /\ IsRed(Sibling)
    /\ LET o == Other(SideBelow(node, parent))
           inner == t.kid[Sibling][Other(o)]
       IN  t' = AugmentRotate(
                  RotateSetParents(SetParentColor(Lift(t, Sibling, parent, o), inner, parent, FALSE),
                                   parent, Sibling, TRUE), parent, Sibling)
    /\ UNCHANGED <<pc, node, parent>>

\* Case 2: sibling and nephews are black.
EraseColorFlip ==
    /\ pc = "erase" /\ ~IsRed(Sibling) /\ \A d \in Side : ~IsRed(t.kid[Sibling][d])
    /\ LET c == SetParentColor(t, Sibling, parent, TRUE)
       IN  IF IsRed(parent)
           THEN t' = [c EXCEPT !.red[parent] = FALSE] /\ Return
           ELSE /\ t' = c
                /\ IF t.par[parent] = NULL THEN Return
                   ELSE node' = parent /\ parent' = t.par[parent] /\ UNCHANGED pc

\* Cases 3 and 4: a red nephew is brought to the outside, the sibling up.
EraseRotate ==
    /\ pc = "erase" /\ ~IsRed(Sibling) /\ \E d \in Side : IsRed(t.kid[Sibling][d])
    /\ LET d == SideBelow(node, parent)
           o == Other(d)
           inner == t.kid[Sibling][d]
           turn == ~IsRed(t.kid[Sibling][o])
           s == IF turn THEN inner ELSE Sibling
           outer == IF turn THEN Sibling ELSE t.kid[Sibling][o]
           a == IF ~turn THEN t
                ELSE AugmentRotate(
                       SetIfAny([Lift(t, inner, Sibling, d) EXCEPT !.kid[parent][o] = inner],
                                t.kid[inner][o], Sibling, FALSE), Sibling, inner)
           b == SetParentOf(SetParentColor(Lift(a, s, parent, o), outer, s, FALSE),
                            a.kid[s][d], parent)
       IN  t' = AugmentRotate(RotateSetParents(b, parent, s, FALSE), parent, s)
    /\ Return

----------------------------------------------------------------------------
\* rb_replace_node: n takes the victim's place and must sort there.
ReplaceNode(v, n) ==
    /\ pc = "idle" /\ ~IsClear(t, v) /\ IsClear(t, n) /\ SortsLike(t, n, v, Key)
    /\ LET c == SetParentOf(SetParentOf(ChangeChild(t, v, n, t.par[v]), t.kid[v].left, n),
                            t.kid[v].right, n)
           moved == [c EXCEPT !.par[n] = c.par[v], !.kid[n] = c.kid[v], !.red[n] = c.red[v],
                              !.aug[n] = c.aug[v]]
       IN  t' = Forget(AugmentPropagate(moved, n, NULL), v)
    /\ UNCHANGED <<pc, node, parent>>

\* The nodes met by rb_first and rb_next (right), rb_last and rb_prev (left),
\* and by the postorder walk.
Walk(d) == Visited(FirstFrom(t, d), LAMBDA n : Step(t, n, d))
WalkPostorder == Visited(FirstPostorder(t), LAMBDA n : NextPostorder(t, n))

\* rbtree_postorder_for_each_entry_safe whose body frees the node: nothing
\* is relinked, the nodes that remain still point to the freed ones.
Destroy ==
    /\ pc = "idle" /\ t.root # NULL
    /\ pc' = "destroy" /\ node' = FirstPostorder(t)
    /\ parent' = NextPostorder(t, FirstPostorder(t)) /\ UNCHANGED t
Free ==
    /\ pc = "destroy"
    /\ IF node = NULL THEN t' = [t EXCEPT !.root = NULL] /\ Return
       ELSE /\ t' = Forget(t, node)
            /\ node' = parent /\ parent' = NextPostorder(t', parent) /\ UNCHANGED pc

Next ==
    \/ \E n \in Node : Insert(n) \/ Erase(n) \/ \E v \in Node : ReplaceNode(v, n)
    \/ InsertRoot \/ InsertBelowBlack \/ InsertColorFlip \/ InsertRotate
    \/ EraseLiftRedSibling \/ EraseColorFlip \/ EraseRotate
    \/ Destroy \/ Free
Spec == Init /\ [][Next]_vars

----------------------------------------------------------------------------
RbTypeOK ==
    /\ LinksType(t) /\ t.red \in [Node -> BOOLEAN] /\ DOMAIN t.aug = Node
    /\ pc \in {"idle", "insert", "erase", "destroy"}
    /\ {node, parent} \subseteq Node \union {NULL}

\* The numbers of black nodes on the ways from n down to a leaf.
BlackCounts(n) ==
    LET f[x \in Node \union {NULL}] ==
            IF x = NULL THEN {0}
            ELSE {c + (IF t.red[x] THEN 0 ELSE 1) : c \in f[t.kid[x].left] \union f[t.kid[x].right]}
    IN  f[n]
RedPairs == {e \in Linked(t) \X Linked(t) : t.par[e[2]] = e[1] /\ t.red[e[1]] /\ t.red[e[2]]}

\* The properties 2, 4 and 5 of the head of rbtree.c, which bound the height,
\* hold between any two operations, after every sequence of them.
RedBlack ==
    pc = "idle" => /\ ~IsRed(t.root) /\ RedPairs = {}
                   /\ Cardinality(BlackCounts(t.root)) = 1

\* The loop invariants the comments of __rb_insert and ____rb_erase_color
\* state: an insertion is wrong at most in one red node below a red one; an
\* erasure lacks one black node on all the ways through node, on no other.
LoopInvariants ==
    /\ pc = "insert" => /\ IsRed(node) /\ t.par[node] = parent
                        /\ RedPairs \subseteq {<<parent, node>>}
                        /\ Cardinality(BlackCounts(t.root)) = 1
    /\ pc = "erase" => /\ ~IsRed(node) /\ parent # NULL
                       /\ Cardinality(BlackCounts(node)) = 1
                       /\ BlackCounts(Sibling) = {c + 1 : c \in BlackCounts(node)}

\* The tree is a search tree in every step of every operation: links agree
\* in both directions and the keys ascend.
SearchTree ==
    pc # "destroy" =>
        /\ Mirrored(t)
        /\ LET w == InOrder(t) IN \A i, j \in DOMAIN w : i < j => Key[w[i]] < Key[w[j]]

\* rb_first and rb_next meet every node once and in order, rb_last and
\* rb_prev in the opposite order, the postorder walk children first.
WalksAgree ==
    pc = "idle" =>
        /\ Walk("right") = InOrder(t) /\ Walk("left") = Reversed(InOrder(t))
        /\ WalkPostorder = PostOrder(t)

\* The augmented value of every node is that of its subtree, although the
\* callbacks stop climbing at the first value that does not change.
AugmentedValues ==
    pc \in {"idle", "insert", "erase"} => \A n \in Linked(t) : t.aug[n] = Compute(t, n)

\* The postorder loop may free the node it is at: it holds no freed node,
\* and when it ends every node was freed.
DestroySafe ==
    pc = "destroy" => /\ \A n \in {node, parent} \ {NULL} : ~IsClear(t, n)
                      /\ node = NULL => \A n \in Node : IsClear(t, n)

\* The tree is a set of nodes: no rotation or relinking loses or adds one.
Holds == IF pc = "destroy" THEN {n \in Node : ~IsClear(t, n)} ELSE Linked(t)
Doing == IF pc \in {"idle", "destroy"} THEN pc ELSE "loop"
Leaving == {}
S == INSTANCE NodeSet WITH held <- Holds, doing <- Doing, leaving <- Leaving
ImplementsNodeSet == S!Spec
============================================================================
