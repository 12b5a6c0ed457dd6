----------------------------- MODULE TreeLinks -----------------------------
(***************************************************************************)
(* Binary trees of linked nodes, as rbtree.c, avltree.c and prio_tree.c    *)
(* keep them: a record s with s.root, s.par[n] (the parent) and            *)
(* s.kid[n][d] (the child on side d).  The code writes every operation     *)
(* twice, once for each side; here the side is a parameter.                *)
(***************************************************************************)
EXTENDS Naturals, Sequences, FiniteSets

CONSTANT Node                   \* the nodes callers own

NULL == 0
ASSUME NodeAssumption == NULL \notin Node

Side == {"left", "right"}
Other(d) == IF d = "left" THEN "right" ELSE "left"

\* A node that is in no tree: RB_CLEAR_NODE and AVL_CLEAR_NODE make it its
\* own parent.  What it pointed to is forgotten: linking overwrites it.
NoKids == [d \in Side |-> NULL]
IsClear(s, n) == s.par[n] = n
ClearLinks(s, n) == [s EXCEPT !.par[n] = n, !.kid[n] = NoKids]

LinksType(s) ==
    /\ s.root \in Node \union {NULL}
    /\ s.par \in [Node -> Node \union {NULL}]
    /\ s.kid \in [Node -> [Side -> Node \union {NULL}]]

\* The contents, read from the root down.
InOrder(s) ==
    LET f[n \in Node \union {NULL}] ==
            IF n = NULL THEN <<>>
            ELSE f[s.kid[n].left] \o <<n>> \o f[s.kid[n].right]
    IN  f[s.root]
PostOrder(s) ==
    LET f[n \in Node \union {NULL}] ==
            IF n = NULL THEN <<>>
            ELSE f[s.kid[n].left] \o f[s.kid[n].right] \o <<n>>
    IN  f[s.root]
Linked(s) == LET w == InOrder(s) IN {w[i] : i \in DOMAIN w}

\* n may take the place of v: it compares with all other nodes as v does.
SortsLike(s, n, v, key) ==
    \A m \in Linked(s) \ {v} : (key[m] < key[n] <=> key[m] < key[v]) /\ (key[m] > key[n] <=> key[m] > key[v])

\* Child and parent pointers say the same, and other nodes are clear.
Mirrored(s) ==
    /\ s.root # NULL => s.par[s.root] = NULL
    /\ \A n \in Linked(s), d \in Side :
          s.kid[n][d] # NULL => s.par[s.kid[n][d]] = n
    /\ \A n \in Node \ Linked(s) : IsClear(s, n)

\* Replaces child old of p by new; the root has no parent.
ChangeChild(s, old, new, p) ==
    IF p = NULL THEN [s EXCEPT !.root = new]
    ELSE [s EXCEPT !.kid[p][IF s.kid[p].left = old THEN "left" ELSE "right"] = new]
SetParentOf(s, n, p) == IF n = NULL THEN s ELSE [s EXCEPT !.par[n] = p]

\* The walks.  Step goes to the next node in direction d: down to the
\* nearest node on that side, or up until a branch was taken the other way.
Deepest(s, n, d) ==
    LET f[x \in Node] == IF s.kid[x][d] = NULL THEN x ELSE f[s.kid[x][d]] IN f[n]
FirstFrom(s, d) == IF s.root = NULL THEN NULL ELSE Deepest(s, s.root, Other(d))
Step(s, n, d) ==
    LET up[x \in Node] == IF s.par[x] # NULL /\ x = s.kid[s.par[x]][d]
                          THEN up[s.par[x]] ELSE s.par[x]
    IN  IF s.kid[n][d] # NULL THEN Deepest(s, s.kid[n][d], Other(d)) ELSE up[n]
LeftDeepest(s, n) ==
    LET f[x \in Node] == IF s.kid[x].left # NULL THEN f[s.kid[x].left]
                         ELSE IF s.kid[x].right # NULL THEN f[s.kid[x].right]
                         ELSE x
    IN  f[n]
FirstPostorder(s) == IF s.root = NULL THEN NULL ELSE LeftDeepest(s, s.root)
(* Mutant: the walk does not look for a right sibling. *)
NextPostorderUp(s, n) == IF n = NULL THEN NULL ELSE s.par[n]
NextPostorder(s, n) ==
    LET p == s.par[n]
    IN  IF n = NULL THEN NULL
        ELSE IF p # NULL /\ n = s.kid[p].left /\ s.kid[p].right # NULL
             THEN LeftDeepest(s, s.kid[p].right) ELSE p

\* The nodes a loop meets that starts at first and follows Succ.
Visited(first, Succ(_)) ==
    LET f[i \in 0 .. Cardinality(Node) + 1] ==
            IF i = 0 THEN IF first = NULL THEN <<>> ELSE <<first>>
            ELSE LET w == f[i - 1]
                 IN  IF w = <<>> \/ Succ(w[Len(w)]) = NULL THEN w
                     ELSE Append(w, Succ(w[Len(w)]))
    IN  f[Cardinality(Node) + 1]
Reversed(w) == [i \in DOMAIN w |-> w[Len(w) + 1 - i]]
============================================================================
