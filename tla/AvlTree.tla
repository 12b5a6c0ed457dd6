------------------------------ MODULE AvlTree ------------------------------
(***************************************************************************)
(* The AVL tree of avltree.c and avltree.h.  bal[n] is the higher side of  *)
(* n, "equal" when there is none.  An insertion links a node and climbs;   *)
(* an erasure climbs first, rotating as if the node were gone already, and *)
(* only then unlinks it.                                                   *)
(***************************************************************************)
EXTENDS TreeLinks, Integers

CONSTANT Key                    \* what the caller's search compares

VARIABLES
    t,          \* the links and bal[n]
    pc,         \* "idle", "insert", "erase", "unlink", "destroy"
    node,       \* the cursor of the loop that runs
    real,       \* of avl_erase: the node unlinked; of a walk: the next node
    victim      \* of avl_erase: the node the caller erases
vars == <<t, pc, node, real, victim>>

Init ==
    /\ t = [root |-> NULL, par |-> [n \in Node |-> n], kid |-> [n \in Node |-> NoKids],
            bal |-> [n \in Node |-> "equal"]]
    /\ pc = "idle" /\ node = NULL /\ real = NULL /\ victim = NULL

Forget(s, n) == [ClearLinks(s, n) EXCEPT !.bal[n] = "equal"]
Return == pc' = "idle" /\ node' = NULL /\ real' = NULL /\ victim' = NULL

SideBelow(n, p) == IF t.kid[p].left = n THEN "left" ELSE "right"

\* avl_rotate_right (d = "left") and avl_rotate_left: n, child of p on side
\* d, comes above p.
Rotate(s, n, p, d) ==
    LET c == s.kid[n][Other(d)]
        a == SetParentOf([s EXCEPT !.kid[p][d] = c, !.kid[n][Other(d)] = p], c, p)
    IN  ChangeChild([a EXCEPT !.par[n] = s.par[p], !.par[p] = n], p, n, s.par[p])

(* Mutant: both nodes are taken to be level after a double rotation. *)
RotateTwiceLevels(s, n, p, d) ==
    LET m == s.kid[n][Other(d)]
    IN  Rotate(Rotate([s EXCEPT !.bal[n] = "equal", !.bal[p] = "equal", !.bal[m] = "equal"],
                      m, n, Other(d)), m, p, d)
\* The inner grandchild comes above both: the balance of n and p follows
\* from its own.
RotateTwice(s, n, p, d) ==
    LET o == Other(d)
        m == s.kid[n][o]
        b == [s EXCEPT !.bal[n] = IF s.bal[m] = o THEN d ELSE "equal",
                       !.bal[p] = IF s.bal[m] = d THEN o ELSE "equal",
                       !.bal[m] = "equal"]
    IN  Rotate(Rotate(b, m, n, o), m, p, d)
RotateOnce(s, n, p, d) == Rotate([s EXCEPT !.bal[n] = "equal", !.bal[p] = "equal"], n, p, d)

----------------------------------------------------------------------------
\* The caller's search ends below the last node it passed; avl_link_node.
Locate(k) ==
    LET down[x \in Node] ==
            LET c == t.kid[x][IF k < Key[x] THEN "left" ELSE "right"]
            IN  IF c = NULL THEN x ELSE down[c]
    IN  IF t.root = NULL THEN NULL ELSE down[t.root]
Insert(n) ==
    /\ pc = "idle" /\ IsClear(t, n)
    /\ LET p == Locate(Key[n])
           l == [t EXCEPT !.par[n] = p, !.kid[n] = NoKids, !.bal[n] = "equal"]
       IN  t' = IF p = NULL THEN [l EXCEPT !.root = n]
                ELSE [l EXCEPT !.kid[p][IF Key[n] < Key[p] THEN "left" ELSE "right"] = n]
    /\ node' = n /\ pc' = "insert" /\ UNCHANGED <<real, victim>>

\* One round of avl_insert_balance: the subtree of node has grown.
InsertBalance ==
    /\ pc = "insert" /\ t.par[node] # NULL
    /\ LET p == t.par[node]
           d == SideBelow(node, p)
       IN  \/ /\ t.bal[p] = "equal"
              /\ t' = [t EXCEPT !.bal[p] = d] /\ node' = p /\ UNCHANGED <<pc, real, victim>>
           \/ t.bal[p] = Other(d) /\ t' = [t EXCEPT !.bal[p] = "equal"] /\ Return
           \/ t.bal[p] = d /\ t.bal[node] = d /\ t' = RotateOnce(t, node, p, d) /\ Return
           \/ t.bal[p] = d /\ t.bal[node] = Other(d) /\ t' = RotateTwice(t, node, p, d) /\ Return
InsertDone == pc = "insert" /\ t.par[node] = NULL /\ Return /\ UNCHANGED t

----------------------------------------------------------------------------
Erase(n) ==
    /\ pc = "idle" /\ ~IsClear(t, n)
    /\ real' = IF \A d \in Side : t.kid[n][d] # NULL
               THEN Deepest(t, t.kid[n].left, "right") ELSE n
    /\ victim' = n /\ node' = real' /\ pc' = "erase" /\ UNCHANGED t

\* One round of avl_erase_balance: the subtree of node is about to shrink.
\* On the higher side that is made good; else the sibling is rotated up.
EraseBalance ==
    /\ pc = "erase" /\ t.par[node] # NULL
    /\ LET p == t.par[node]
           d == SideBelow(node, p)
           o == Other(d)
           sibling == t.kid[p][o]
       IN  \/ t.bal[p] = "equal" /\ t' = [t EXCEPT !.bal[p] = o] /\ pc' = "unlink" /\ UNCHANGED node
           \/ t.bal[p] = d /\ t' = [t EXCEPT !.bal[p] = "equal"] /\ node' = p /\ UNCHANGED pc
           \/ /\ t.bal[p] = o /\ t.bal[sibling] = "equal"       \* case 3a
              /\ t' = Rotate([t EXCEPT !.bal[sibling] = d], sibling, p, o)
              /\ pc' = "unlink" /\ node' = sibling
           \/ /\ t.bal[p] = o /\ t.bal[sibling] = o             \* case 3b
              /\ t' = RotateOnce(t, sibling, p, o) /\ node' = sibling /\ UNCHANGED pc
           \/ /\ t.bal[p] = o /\ t.bal[sibling] = d             \* case 3c
              /\ t' = RotateTwice(t, sibling, p, o) /\ node' = t'.par[sibling] /\ UNCHANGED pc
    /\ UNCHANGED <<real, victim>>

\* avl_replace_node: n takes over the links and the balance of v.
Replace(s, v, n) ==
    LET c == ChangeChild([s EXCEPT !.par[n] = s.par[v], !.kid[n] = s.kid[v], !.bal[n] = s.bal[v]],
                         v, n, s.par[v])
    IN  SetParentOf(SetParentOf(c, c.kid[n].left, n), c.kid[n].right, n)

\* The end of avl_erase.
Unlink ==
    /\ pc = "unlink" \/ (pc = "erase" /\ t.par[node] = NULL)
    /\ LET p == t.par[real]
           child == IF t.kid[real].left # NULL THEN t.kid[real].left ELSE t.kid[real].right
           u == SetParentOf(ChangeChild(t, real, child, p), child, p)
       IN  t' = Forget(IF victim = real THEN u ELSE Replace(u, victim, real), victim)
    /\ Return

ReplaceNode(v, n) ==
    /\ pc = "idle" /\ ~IsClear(t, v) /\ IsClear(t, n) /\ SortsLike(t, n, v, Key)
    /\ t' = Forget(Replace(t, v, n), v)
    /\ UNCHANGED <<pc, node, real, victim>>

\* The nodes met by avl_first and avl_next (right), avl_last and avl_prev (left),
\* and by the postorder walk.
Walk(d) == Visited(FirstFrom(t, d), LAMBDA n : Step(t, n, d))
WalkPostorder == Visited(FirstPostorder(t), LAMBDA n : NextPostorder(t, n))

\* avl_postorder_for_each_entry_safe with a body that frees the node.
Destroy ==
    /\ pc = "idle" /\ t.root # NULL
    /\ pc' = "destroy" /\ node' = FirstPostorder(t)
    /\ real' = NextPostorder(t, FirstPostorder(t)) /\ UNCHANGED <<t, victim>>
Free ==
    /\ pc = "destroy"
    /\ IF node = NULL THEN t' = [t EXCEPT !.root = NULL] /\ Return
       ELSE /\ t' = Forget(t, node) /\ node' = real
            /\ real' = NextPostorder(t', real) /\ UNCHANGED <<pc, victim>>

Next ==
    \/ \E n \in Node : Insert(n) \/ Erase(n) \/ \E v \in Node : ReplaceNode(v, n)
    \/ InsertBalance \/ InsertDone
    \/ EraseBalance \/ Unlink \/ Destroy \/ Free
Spec == Init /\ [][Next]_vars

----------------------------------------------------------------------------
AvlTypeOK ==
    /\ LinksType(t) /\ t.bal \in [Node -> Side \union {"equal"}]
    /\ pc \in {"idle", "insert", "erase", "unlink", "destroy"}
    /\ {node, real, victim} \subseteq Node \union {NULL}

Height(n) ==
    LET f[x \in Node \union {NULL}] ==
            IF x = NULL THEN 0
            ELSE 1 + (IF f[t.kid[x].left] > f[t.kid[x].right] THEN f[t.kid[x].left]
                      ELSE f[t.kid[x].right])
    IN  f[n]
Tilt(n) == CASE t.bal[n] = "equal" -> 0 [] t.bal[n] = "left" -> 1 [] OTHER -> -1

\* Between operations every balance bit pair is the difference of the heights
\* of the subtrees, which is at most one.
Balanced ==
    pc = "idle" => \A n \in Linked(t) : Height(t.kid[n].left) - Height(t.kid[n].right) = Tilt(n)

\* avl_left_balance and avl_right_balance call abort when the grown child of
\* an unbalanced node is itself level; no insertion gets there.
NeverAborts ==
    (pc = "insert" /\ t.par[node] # NULL) =>
        LET p == t.par[node] IN t.bal[p] = SideBelow(node, p) => t.bal[node] # "equal"

\* While avl_erase_balance climbs, only ancestors of the node to unlink are
\* rotated: it keeps its one child and stays the predecessor of the victim,
\* which is still in the tree.
RealStaysUnlinkable ==
    pc \in {"erase", "unlink"} =>
        /\ \E d \in Side : t.kid[real][d] = NULL
        /\ real \in Linked(t) /\ victim \in Linked(t)
        /\ real # victim => Step(t, victim, "left") = real

\* In every step links agree in both directions and the keys do not descend.
SearchTree ==
    pc # "destroy" =>
        /\ Mirrored(t)
        /\ LET w == InOrder(t) IN \A i, j \in DOMAIN w : i < j => Key[w[i]] <= Key[w[j]]

\* avl_first and avl_next, avl_last and avl_prev and the postorder walk meet
\* every node once, in order.
WalksAgree ==
    pc = "idle" =>
        /\ Walk("right") = InOrder(t) /\ Walk("left") = Reversed(InOrder(t))
        /\ WalkPostorder = PostOrder(t)

\* The postorder loop holds no freed node and ends when all are freed.
DestroySafe ==
    pc = "destroy" => /\ \A n \in {node, real} \ {NULL} : ~IsClear(t, n)
                      /\ node = NULL => \A n \in Node : IsClear(t, n)

\* The tree is a set of nodes.
Holds == IF pc = "destroy" THEN {n \in Node : ~IsClear(t, n)} ELSE Linked(t)
Doing == IF pc \in {"idle", "destroy"} THEN pc ELSE "loop"
Leaving == {victim} \ {NULL}
S == INSTANCE NodeSet WITH held <- Holds, doing <- Doing, leaving <- Leaving
ImplementsNodeSet == S!Spec
============================================================================
