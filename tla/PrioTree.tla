------------------------------ MODULE PrioTree ------------------------------
(***************************************************************************)
(* The priority tree of prio_tree.c: a heap of linked nodes.  One bit per  *)
(* node says whether its left subtree has one node more than its right     *)
(* one; along these bits the code finds the place of the next leaf and of  *)
(* the last.  A loop of the code takes one step per round.                 *)
(***************************************************************************)
EXTENDS TreeLinks, Integers

CONSTANT Prio                   \* what cmp compares

VARIABLES
    t,          \* the links and heavy[n], the bit PRIO_LEFT_HEAVIER
    prio,       \* the priorities, which the caller may change
    pc,         \* the loop that runs: "idle", "insert", "up", "down", "sink"
    node        \* the node it moves
vars == <<t, prio, pc, node>>

Lowest == CHOOSE p \in Prio : \A q \in Prio : p <= q
Init ==
    /\ t = [root |-> NULL, par |-> [n \in Node |-> n], kid |-> [n \in Node |-> NoKids],
            heavy |-> [n \in Node |-> FALSE]]
    /\ prio = [n \in Node |-> Lowest] /\ pc = "idle" /\ node = NULL

Return == pc' = "idle" /\ node' = NULL
Start(loop, n) == pc' = loop /\ node' = n
Over(n, m) == prio[n] > prio[m]

\* prio_swap: n and its parent p, whose d child it is, exchange their children
\* and bits, ...
Turned(s, n, p, d) ==
    LET o == Other(d)
    IN  [s EXCEPT !.kid[n][o] = s.kid[p][o], !.kid[p][o] = s.kid[n][o],
                  !.kid[p][d] = s.kid[n][d],
                  !.heavy[n] = s.heavy[p], !.heavy[p] = s.heavy[n]]
\* the children learn of it, ...
Adopted(a, n, p, d) ==
    LET o == Other(d)
    IN  SetParentOf(SetParentOf(SetParentOf(a, a.kid[n][o], n), a.kid[p][o], p), a.kid[p][d], p)
\* and n takes the place of p, which hangs under it.
Exchange(s, n, p) ==
    LET d == IF s.kid[p].left = n THEN "left" ELSE "right"
        b == Adopted(Turned(s, n, p, d), n, p, d)
        c == ChangeChild([b EXCEPT !.par[n] = s.par[p]], p, n, s.par[p])
    IN  [c EXCEPT !.kid[n][d] = p, !.par[p] = n]

\* Flips the bits of n and of all above it, whose subtree changed by a node.
FlipUp(s, n) ==
    LET above[x \in Node \union {NULL}] == IF x = NULL THEN {} ELSE {x} \union above[s.par[x]]
    IN  [s EXCEPT !.heavy = [x \in Node |-> s.heavy[x] # (x \in above[n])]]

----------------------------------------------------------------------------
\* prio_insert: the new leaf hangs on the lighter side all the way down.
NextLeaf ==
    LET down[x \in Node] ==
            LET d == IF t.heavy[x] THEN "right" ELSE "left"
            IN  IF t.kid[x][d] = NULL THEN <<x, d>> ELSE down[t.kid[x][d]]
    IN  down[t.root]
Insert(n, p) ==
    /\ pc = "idle" /\ IsClear(t, n)
    /\ prio' = [prio EXCEPT ![n] = p]
    /\ IF t.root = NULL
       THEN t' = [t EXCEPT !.par[n] = NULL, !.root = n] /\ UNCHANGED <<pc, node>>
       ELSE /\ t' = [t EXCEPT !.par[n] = NextLeaf[1], !.kid[NextLeaf[1]][NextLeaf[2]] = n]
            /\ Start("insert", n)

\* It rises while it is greater, flipping the bits of those it passes, ...
Rise ==
    /\ pc = "insert" /\ t.par[node] # NULL /\ Over(node, t.par[node])
    /\ LET p == t.par[node] IN t' = Exchange([t EXCEPT !.heavy[p] = ~@], node, p)
    /\ UNCHANGED <<prio, pc, node>>
\* ... and then of the others.
RiseEnds ==
    /\ pc = "insert" /\ (t.par[node] # NULL => ~Over(node, t.par[node]))
    /\ t' = FlipUp(t, t.par[node]) /\ Return /\ UNCHANGED prio

\* prio_adjust, after the caller changed the priority of a node.
Adjust(n, p) ==
    /\ pc = "idle" /\ ~IsClear(t, n) /\ p # prio[n]
    /\ prio' = [prio EXCEPT ![n] = p]
    /\ Start(IF t.par[n] # NULL /\ p > prio[t.par[n]] THEN "up" ELSE "down", n)
    /\ UNCHANGED t

Up ==
    /\ pc = "up" /\ t.par[node] # NULL /\ Over(node, t.par[node])
    /\ t' = Exchange(t, node, t.par[node]) /\ UNCHANGED <<prio, pc, node>>
UpEnds ==
    /\ pc = "up" /\ (t.par[node] # NULL => ~Over(node, t.par[node]))
    /\ Return /\ UNCHANGED <<t, prio>>

Largest(n) ==
    LET l == t.kid[n].left
        r == t.kid[n].right
        m == IF l # NULL /\ Over(l, n) THEN l ELSE n
    IN  IF r # NULL /\ Over(r, m) THEN r ELSE m
Down ==
    /\ pc = "down" /\ Largest(node) # node
    /\ t' = Exchange(t, Largest(node), node) /\ UNCHANGED <<prio, pc, node>>
DownEnds ==
    /\ pc = "down" /\ Largest(node) = node
    /\ Return /\ UNCHANGED <<t, prio>>

----------------------------------------------------------------------------
\* prio_erase: the node sinks to a leaf, under the greater child each time,
Erase(n) ==
    /\ pc = "idle" /\ ~IsClear(t, n)
    /\ Start("sink", n) /\ UNCHANGED <<t, prio>>
Sink ==
    /\ pc = "sink" /\ t.kid[node].left # NULL
    /\ LET l == t.kid[node].left
           r == t.kid[node].right
       IN  t' = Exchange(t, IF r # NULL /\ Over(r, l) THEN r ELSE l, node)
    /\ UNCHANGED <<prio, pc, node>>

\* then the last leaf, found on the heavier side all the way down, is cut
\* off and takes its place, from where it rises.
LastLeaf ==
    LET down[x \in Node] ==
            LET d == IF t.heavy[x] THEN "left" ELSE "right"
            IN  IF ~t.heavy[x] /\ t.kid[x].right = NULL THEN x ELSE down[t.kid[x][d]]
    IN  down[t.root]
Cut ==
    /\ pc = "sink" /\ t.kid[node].left = NULL
    /\ LET v == LastLeaf
           c == FlipUp(ChangeChild(t, v, NULL, t.par[v]), t.par[v])
           moved == ChangeChild([c EXCEPT !.par[v] = c.par[node], !.heavy[v] = c.heavy[node]],
                                node, v, c.par[node])
       IN  /\ t' = [ClearLinks(IF v = node THEN c ELSE moved, node) EXCEPT !.heavy[node] = FALSE]
           /\ IF v = node THEN Return ELSE Start("up", v)
    /\ prio' = [prio EXCEPT ![node] = Lowest]

Next ==
    \/ \E n \in Node : Erase(n) \/ \E p \in Prio : Insert(n, p) \/ Adjust(n, p)
    \/ Rise \/ RiseEnds \/ Up \/ UpEnds \/ Down \/ DownEnds \/ Sink \/ Cut
Spec == Init /\ [][Next]_vars

----------------------------------------------------------------------------
PrioTypeOK ==
    /\ LinksType(t) /\ t.heavy \in [Node -> BOOLEAN] /\ prio \in [Node -> Prio]
    /\ pc \in {"idle", "insert", "up", "down", "sink"} /\ node \in Node \union {NULL}

Weight(n) ==
    LET f[x \in Node \union {NULL}] ==
            IF x = NULL THEN 0 ELSE 1 + f[t.kid[x].left] + f[t.kid[x].right]
    IN  f[n]

\* The bit is the difference of the weights, in every step but those of an
\* insertion: on it depend the place of the next leaf, the leaf an erasure
\* takes, and that a node without a left child has no right one.
WeightBits ==
    pc # "insert" =>
        \A n \in Linked(t) :
            Weight(t.kid[n].left) - Weight(t.kid[n].right) = IF t.heavy[n] THEN 1 ELSE 0

\* Between operations no child is greater than its parent: the root is a
\* maximum.
PrioOrder == pc = "idle" => \A n \in Linked(t) : t.par[n] # NULL => ~Over(n, t.par[n])

\* Child and parent pointers agree in every step.
LinksMirror == Mirrored(t)

\* Exchanging, cutting and replacing lose no node.
Holds == Linked(t)
Doing == IF pc = "idle" THEN pc ELSE "loop"
Leaving == IF pc = "sink" THEN {node} ELSE {}
S == INSTANCE NodeSet WITH held <- Holds, doing <- Doing, leaving <- Leaving
ImplementsNodeSet == S!Spec
============================================================================
