---------------------------- MODULE AvlTree_proofs ----------------------------
(***************************************************************************)
(* The AVL tree of avltree.c stays balanced and linked, for any nodes and  *)
(* keys.                                                                   *)
(*                                                                         *)
(* The links are a tree when the nodes have ranks that grow from a parent  *)
(* to its child (Tree): they carry inductions from the leaves up and from  *)
(* the root down, by which the recursions of the model mean what they say, *)
(* and a rotation, which moves whole subtrees, changes two of them.        *)
(*                                                                         *)
(* The invariant, AvlInv, says of every node by itself that its bits are   *)
(* the difference of the heights below it (Heights), for heights that are  *)
(* wrong at one node or two: while an insertion climbs its cursor is one   *)
(* higher than the nodes above it know; while an erasure climbs its cursor *)
(* is one lower, and the node to unlink counts as gone already.            *)
(***************************************************************************)
EXTENDS AvlTree, FiniteSetTheorems, WellFoundedInduction, TLAPS

\* Induction: a set of numbers has a least member, ...
LEMMA NatMin == ASSUME NEW T, T \subseteq Nat, T # {} PROVE \E x \in T : \A y \in T : x <= y
<1> DEFINE R == {ss \in Nat \X Nat : ss[1] < ss[2]}
<1>0. IsWellFoundedOn(R, Nat) BY NatLessThanWellFounded DEF OpToRel
<1> HIDE DEF R
<1>1. \E x \in T : \A y \in T : ~(<<y, x>> \in R)
  BY <1>0, WFMin
<1>2. PICK x \in T : \A y \in T : ~(<<y, x>> \in R) BY <1>1
<1>3. \A y \in T : ~ (y < x)
  BY <1>2 DEF R
<1> QED BY <1>3

----------------------------------------------------------------------------
\* The child links of the nodes V lead from lower to higher ranks D, ...
Ranked(s, V, D, M) ==
    /\ V \subseteq Node /\ M \in Nat /\ D \in [V -> 0 .. M]
    /\ \A n \in V, d \in Side : /\ s.kid[n][d] \in V \union {NULL}
                                /\ s.kid[n][d] # NULL => D[n] < D[s.kid[n][d]]
    /\ \A n \in Node \ V, d \in Side : s.kid[n][d] = NULL

\* ... they make a tree with one root, and the parent links are the same.
Tree(s, V, D, M) ==
    /\ Ranked(s, V, D, M)
    /\ s.root \in V \union {NULL} /\ (s.root # NULL => s.par[s.root] = NULL)
    /\ \A n \in V :
          /\ s.par[n] \in V \union {NULL}
          /\ s.par[n] = NULL => n = s.root
          /\ s.par[n] # NULL => \E d \in Side : s.kid[s.par[n]][d] = n
          /\ \A d \in Side : s.kid[n][d] # NULL => s.par[s.kid[n][d]] = n
          /\ s.kid[n].left # NULL => s.kid[n].left # s.kid[n].right
    /\ \A n \in Node \ V : s.par[n] = n

LEMMA TreeFacts ==
  ASSUME NEW s, NEW V, NEW D, NEW M, Tree(s, V, D, M)
  PROVE  /\ V \subseteq Node /\ NULL \notin Node /\ M \in Nat /\ D \in [V -> 0 .. M]
         /\ s.root \in V \union {NULL} /\ (s.root # NULL => s.par[s.root] = NULL)
         /\ \A n \in V :
               /\ s.par[n] \in V \union {NULL}
               /\ s.par[n] = NULL => n = s.root
               /\ s.par[n] # NULL => D[s.par[n]] < D[n] /\ \E d \in Side : s.kid[s.par[n]][d] = n
               /\ \A d \in Side :
                     /\ s.kid[n][d] \in V \union {NULL}
                     /\ s.kid[n][d] # NULL => s.par[s.kid[n][d]] = n /\ D[n] < D[s.kid[n][d]]
               /\ s.kid[n].left # NULL => s.kid[n].left # s.kid[n].right
         /\ \A n \in Node \ V : s.par[n] = n /\ \A d \in Side : s.kid[n][d] = NULL
<1>1. V \subseteq Node /\ NULL \notin Node BY NodeAssumption DEF Tree, Ranked
<1>2. ASSUME NEW n \in V, s.par[n] # NULL
      PROVE  D[s.par[n]] < D[n] /\ \E d \in Side : s.kid[s.par[n]][d] = n
  <2>1. PICK d \in Side : s.kid[s.par[n]][d] = n BY <1>2 DEF Tree
  <2>2. s.par[n] \in V /\ n # NULL BY <1>1, <1>2 DEF Tree
  <2>3. D[s.par[n]] < D[n] BY <2>1, <2>2 DEF Tree, Ranked
  <2> QED BY <2>1, <2>3
<1> QED BY <1>1, <1>2 DEF Tree, Ranked

\* Induction from the leaves up ...
LEMMA FromLeaves ==
  ASSUME NEW s, NEW V, NEW D, NEW M, Ranked(s, V, D, M), NEW T,
         \A x \in V : s.kid[x].left \in T \union {NULL} /\ s.kid[x].right \in T \union {NULL} => x \in T
  PROVE  V \subseteq T
<1> DEFINE B == {M - D[x] : x \in V \ T}
<1> SUFFICES ASSUME V \ T # {} PROVE FALSE OBVIOUS
<1>1. M \in Nat /\ D \in [V -> 0 .. M] BY DEF Ranked
<1>2. B \subseteq Nat /\ B # {} BY <1>1
<1>3. PICK b \in B : \A c \in B : b <= c BY <1>2, NatMin
<1>4. PICK x \in V \ T : b = M - D[x] BY <1>3
<1>5. ASSUME NEW d \in Side PROVE s.kid[x][d] \in T \union {NULL}
  <2> DEFINE k == s.kid[x][d]
  <2> SUFFICES ASSUME k # NULL, k \notin T PROVE FALSE OBVIOUS
  <2>1. k \in V /\ D[x] < D[k] BY <1>4, <1>5 DEF Ranked
  <2>2. M - D[k] \in B BY <2>1
  <2>3. D[k] \in 0 .. M /\ D[x] \in 0 .. M BY <2>1, <1>1, <1>4
  <2>4. M - D[x] <= M - D[k] BY <2>2, <1>3, <1>4
  <2> HIDE DEF B, k
  <2> QED BY <2>1, <2>3, <2>4, <1>1
<1> QED BY <1>4, <1>5 DEF Side

\* ... and from the root down.
LEMMA FromRoot ==
  ASSUME NEW s, NEW V, NEW D, NEW M, Tree(s, V, D, M), NEW T,
         \A x \in V : s.par[x] \in T \union {NULL} => x \in T
  PROVE  V \subseteq T
<1> DEFINE B == {D[x] : x \in V \ T}
<1> SUFFICES ASSUME V \ T # {} PROVE FALSE OBVIOUS
<1>1. M \in Nat /\ D \in [V -> 0 .. M] BY TreeFacts
<1>2. B \subseteq Nat /\ B # {} BY <1>1
<1>3. PICK b \in B : \A c \in B : b <= c BY <1>2, NatMin
<1>4. PICK x \in V \ T : b = D[x] BY <1>3
<1>5. s.par[x] \in V /\ s.par[x] \notin T /\ D[s.par[x]] < D[x] BY <1>4, TreeFacts
<1>6. D[s.par[x]] \in B BY <1>5
<1>7. D[x] \in Nat /\ D[s.par[x]] \in Nat BY <1>1, <1>4, <1>5
<1>8. D[x] <= D[s.par[x]] BY <1>3, <1>4, <1>6
<1> HIDE DEF B
<1> QED BY <1>5, <1>7, <1>8

\* A recursion over the children has a solution.
Solves(s, W, f, G) ==
    \A x \in W : f[x] = G[<<x, f[s.kid[x].left], f[s.kid[x].right]>>]
LEMMA Recursion ==
  ASSUME NEW s, NEW V, NEW D, NEW M, Ranked(s, V, D, M),
         NEW X, NEW base \in X, NEW G \in [Node \X X \X X -> X]
  PROVE  \E f \in [Node \union {NULL} -> X] : f[NULL] = base /\ Solves(s, Node, f, G)
<1> DEFINE Deep(k) == (Node \ V) \union {x \in V : D[x] >= k}
           P(k) == \E f \in [Node \union {NULL} -> X] : f[NULL] = base /\ Solves(s, Deep(k), f, G)
           Good == {k \in 0 .. M + 1 : P(k)}
<1>1. V \subseteq Node /\ M \in Nat /\ D \in [V -> 0 .. M] /\ NULL \notin Node BY NodeAssumption DEF Ranked
<1>2. \A x \in Node \ V : s.kid[x].left = NULL /\ s.kid[x].right = NULL
  BY DEF Ranked, Side
<1>3. P(M + 1)
  <2> DEFINE f == [x \in Node \union {NULL} |-> IF x \in Node THEN G[<<x, base, base>>] ELSE base]
  <2>1. f \in [Node \union {NULL} -> X] /\ f[NULL] = base BY <1>1
  <2>2. \A x \in V : ~(D[x] >= M + 1) BY <1>1
  <2>3. \A x \in Node : f[x] = G[<<x, base, base>>] BY <1>1
  <2> HIDE DEF f
  <2>4. Solves(s, Deep(M + 1), f, G) BY <2>1, <2>2, <2>3, <1>2 DEF Solves
  <2> QED BY <2>1, <2>4
<1>4. ASSUME NEW k \in 0 .. M, P(k + 1) PROVE P(k)
  <2>1. PICK g \in [Node \union {NULL} -> X] : g[NULL] = base /\ Solves(s, Deep(k + 1), g, G) BY <1>4
  <2> DEFINE f == [x \in Node \union {NULL} |->
                      IF x \in V /\ D[x] = k THEN G[<<x, g[s.kid[x].left], g[s.kid[x].right]>>] ELSE g[x]]
  <2>2. \A x \in V, d \in Side : s.kid[x][d] \in Node \union {NULL} BY <1>1 DEF Ranked
  <2>3. \A x \in V : g[s.kid[x].left] \in X /\ g[s.kid[x].right] \in X BY <2>1, <2>2 DEF Side
  <2>4. f \in [Node \union {NULL} -> X] BY <2>1, <2>3, <1>1
  <2>5. f[NULL] = base BY <2>1, <1>1
  <2>6. \A x \in V : D[x] = k => f[x] = G[<<x, g[s.kid[x].left], g[s.kid[x].right]>>] BY <1>1
  <2>7. \A x \in Node \union {NULL} : ~(x \in V /\ D[x] = k) => f[x] = g[x] BY <1>1
  <2> HIDE DEF f
  <2>8. ASSUME NEW x \in V, D[x] >= k, NEW d \in Side
        PROVE  f[s.kid[x][d]] = g[s.kid[x][d]]
    <3>1. CASE s.kid[x][d] = NULL BY <3>1, <2>7, <1>1
    <3>2. CASE s.kid[x][d] # NULL
      <4>1. s.kid[x][d] \in V /\ D[x] < D[s.kid[x][d]] BY <3>2 DEF Ranked
      <4>2. D[x] \in Nat /\ D[s.kid[x][d]] \in Nat BY <4>1, <1>1
      <4>3. D[s.kid[x][d]] # k BY <4>1, <4>2, <2>8, <1>1
      <4> QED BY <4>1, <4>3, <2>7, <1>1
    <3> QED BY <3>1, <3>2
  <2>9. ASSUME NEW x \in Deep(k) PROVE f[x] = G[<<x, f[s.kid[x].left], f[s.kid[x].right]>>]
    <3>1. CASE x \in Node \ V
      <4>1. f[x] = g[x] /\ f[NULL] = g[NULL] BY <3>1, <2>7, <1>1
      <4> QED BY <3>1, <4>1, <1>2, <2>1 DEF Solves
    <3>2. CASE x \in V /\ D[x] >= k
      <4>1. f[s.kid[x].left] = g[s.kid[x].left] /\ f[s.kid[x].right] = g[s.kid[x].right]
        BY <3>2, <2>8 DEF Side
      <4>2. CASE D[x] = k BY <4>1, <4>2, <3>2, <2>6
      <4>3. CASE D[x] # k
        <5>1. x \in Deep(k + 1) /\ f[x] = g[x] BY <4>3, <3>2, <2>7, <1>1
        <5> QED BY <5>1, <4>1, <2>1 DEF Solves
      <4> QED BY <4>2, <4>3
    <3> QED BY <3>1, <3>2
  <2> QED BY <2>4, <2>5, <2>9 DEF Solves
<1> HIDE DEF P
<1>5. Good \subseteq Nat /\ Good # {} BY <1>1, <1>3
<1>6. PICK k \in Good : \A j \in Good : k <= j BY <1>5, NatMin
<1>7. k = 0
  <2> SUFFICES ASSUME k # 0 PROVE FALSE OBVIOUS
  <2>1. k - 1 \in 0 .. M /\ (k - 1) + 1 = k BY <1>1, <1>6
  <2>2. P(k) BY <1>6
  <2>3. P(k - 1) BY <2>1, <2>2, <1>4
  <2>4. k - 1 \in Good /\ k \in Nat BY <2>1, <2>3, <1>1, <1>6
  <2>5. k <= k - 1 BY <2>4, <1>6
  <2> HIDE DEF Good
  <2> QED BY <2>4, <2>5
<1>8. P(0) BY <1>6, <1>7
<1>9. Deep(0) = Node BY <1>1
<1> QED BY <1>8, <1>9 DEF P
----------------------------------------------------------------------------
\* The contents, read from the root down, are the nodes of the tree.
Entries(w) == {w[i] : i \in DOMAIN w}
LEMMA JoinEntries ==
  ASSUME NEW u \in Seq(Node), NEW v \in Seq(Node), NEW x \in Node
  PROVE  u \o <<x>> \o v \in Seq(Node) /\ Entries(u \o <<x>> \o v) = Entries(u) \union {x} \union Entries(v)
<1> DEFINE w == u \o <<x>> \o v
<1>1. w \in Seq(Node) OBVIOUS
<1>2. Entries(w) \subseteq Entries(u) \union {x} \union Entries(v) BY DEF Entries
<1>3. ASSUME NEW i \in DOMAIN u PROVE u[i] \in Entries(w)
  <2>1. i \in DOMAIN w /\ w[i] = u[i] OBVIOUS
  <2> QED BY <2>1 DEF Entries
<1>4. x \in Entries(w)
  <2>1. Len(u) + 1 \in DOMAIN w /\ w[Len(u) + 1] = x OBVIOUS
  <2> QED BY <2>1 DEF Entries
<1>5. ASSUME NEW i \in DOMAIN v PROVE v[i] \in Entries(w)
  <2>1. Len(u) + 1 + i \in DOMAIN w /\ w[Len(u) + 1 + i] = v[i] OBVIOUS
  <2> QED BY <2>1 DEF Entries
<1> HIDE DEF w
<1>6. Entries(u) \subseteq Entries(w) BY <1>3 DEF Entries
<1>7. Entries(v) \subseteq Entries(w) BY <1>5 DEF Entries
<1> QED BY <1>1, <1>2, <1>4, <1>6, <1>7 DEF w

Orders(s) ==
    LET f[n \in Node \union {NULL}] ==
            IF n = NULL THEN <<>>
            ELSE f[s.kid[n].left] \o <<n>> \o f[s.kid[n].right]
    IN  f

LEMMA LinkedIs ==
  ASSUME NEW s, NEW V, NEW D, NEW M, Tree(s, V, D, M)
  PROVE  Linked(s) = V
<1> DEFINE G == [z \in Node \X Seq(Node) \X Seq(Node) |-> z[2] \o <<z[1]>> \o z[3]]
           h == Orders(s)
<1>1. NULL \notin Node /\ V \subseteq Node /\ Ranked(s, V, D, M) BY TreeFacts DEF Tree
<1>2. G \in [Node \X Seq(Node) \X Seq(Node) -> Seq(Node)]
  <2>1. \A z \in Node \X Seq(Node) \X Seq(Node) : z[2] \o <<z[1]>> \o z[3] \in Seq(Node) BY JoinEntries
  <2> QED BY <2>1
<1>3. \A x \in Node, p, q \in Seq(Node) : G[<<x, p, q>>] = p \o <<x>> \o q OBVIOUS
<1> HIDE DEF G
<1>4. <<>> \in Seq(Node) OBVIOUS
<1>5. PICK f \in [Node \union {NULL} -> Seq(Node)] : f[NULL] = <<>> /\ Solves(s, Node, f, G)
  BY <1>1, <1>2, <1>4, Recursion
<1>6. \A x \in Node : s.kid[x].left \in Node \union {NULL} /\ s.kid[x].right \in Node \union {NULL}
  BY <1>1, TreeFacts DEF Side
<1>7. ASSUME NEW x \in Node \union {NULL}
      PROVE  f[x] = IF x = NULL THEN <<>> ELSE f[s.kid[x].left] \o <<x>> \o f[s.kid[x].right]
  <2>1. CASE x = NULL BY <2>1, <1>5
  <2>2. CASE x # NULL
    <3>1. f[s.kid[x].left] \in Seq(Node) /\ f[s.kid[x].right] \in Seq(Node) BY <2>2, <1>5, <1>6
    <3>2. f[x] = G[<<x, f[s.kid[x].left], f[s.kid[x].right]>>] BY <2>2, <1>5 DEF Solves
    <3> QED BY <2>2, <3>1, <3>2, <1>3
  <2> QED BY <2>1, <2>2
<1>8. f = [x \in Node \union {NULL} |->
              IF x = NULL THEN <<>> ELSE f[s.kid[x].left] \o <<x>> \o f[s.kid[x].right]]
  <2>1. f = [x \in Node \union {NULL} |-> f[x]] BY <1>5
  <2> QED BY <2>1, <1>7, Zenon
<1>9. h = [x \in Node \union {NULL} |->
              IF x = NULL THEN <<>> ELSE h[s.kid[x].left] \o <<x>> \o h[s.kid[x].right]]
  BY <1>8, Zenon DEF Orders
<1>10. InOrder(s) = h[s.root] BY Zenon DEF InOrder, Orders
<1> HIDE DEF h
<1>11. h[NULL] = <<>> /\ \A x \in V : h[x] = h[s.kid[x].left] \o <<x>> \o h[s.kid[x].right]
  BY <1>1, <1>9
<1> DEFINE T == {x \in V : h[x] \in Seq(Node) /\ Entries(h[x]) \subseteq V}
<1>12. ASSUME NEW x \in V, s.kid[x].left \in T \union {NULL}, s.kid[x].right \in T \union {NULL} PROVE x \in T
  <2>1. h[NULL] \in Seq(Node) /\ Entries(h[NULL]) \subseteq V BY <1>11 DEF Entries
  <2>2. /\ h[s.kid[x].left] \in Seq(Node) /\ h[s.kid[x].right] \in Seq(Node)
        /\ Entries(h[s.kid[x].left]) \subseteq V /\ Entries(h[s.kid[x].right]) \subseteq V
    BY <2>1, <1>12
  <2>3. /\ h[x] \in Seq(Node)
        /\ Entries(h[x]) = Entries(h[s.kid[x].left]) \union {x} \union Entries(h[s.kid[x].right])
    <3>1. x \in Node /\ h[x] = h[s.kid[x].left] \o <<x>> \o h[s.kid[x].right] BY <1>1, <1>11
    <3> QED BY <2>2, <3>1, JoinEntries
  <2> QED BY <2>2, <2>3
<1>13. V \subseteq T
  <2> HIDE DEF T
  <2> QED BY <1>1, <1>12, FromLeaves
<1>14. /\ Entries(h[NULL]) = {} /\ h[NULL] \in Seq(Node)
       /\ \A x \in V : Entries(h[x]) = Entries(h[s.kid[x].left]) \union {x} \union Entries(h[s.kid[x].right])
  <2>1. Entries(h[NULL]) = {} /\ h[NULL] \in Seq(Node) BY <1>11 DEF Entries
  <2>2. ASSUME NEW x \in V
        PROVE  Entries(h[x]) = Entries(h[s.kid[x].left]) \union {x} \union Entries(h[s.kid[x].right])
    <3>1. s.kid[x].left \in V \union {NULL} /\ s.kid[x].right \in V \union {NULL} BY TreeFacts DEF Side
    <3>2. h[s.kid[x].left] \in Seq(Node) /\ h[s.kid[x].right] \in Seq(Node) BY <2>1, <3>1, <1>13
    <3>3. x \in Node /\ h[x] = h[s.kid[x].left] \o <<x>> \o h[s.kid[x].right] BY <1>1, <1>11
    <3> QED BY <3>2, <3>3, JoinEntries
  <2> QED BY <2>1, <2>2
<1> DEFINE E == Entries(h[s.root])
           U == {x \in V : Entries(h[x]) \subseteq E}
<1>15. ASSUME NEW x \in V, s.par[x] \in U \union {NULL} PROVE x \in U
  <2>1. CASE s.par[x] = NULL
    <3>1. x = s.root BY <2>1, TreeFacts
    <3> QED BY <3>1
  <2>2. CASE s.par[x] # NULL
    <3>1. s.par[x] \in V /\ Entries(h[s.par[x]]) \subseteq E BY <2>2, <1>15
    <3>2. PICK d \in Side : s.kid[s.par[x]][d] = x BY <2>2, TreeFacts
    <3>3. Entries(h[s.par[x]]) =
             Entries(h[s.kid[s.par[x]].left]) \union {s.par[x]} \union Entries(h[s.kid[s.par[x]].right])
      BY <3>1, <1>14
    <3>4. s.kid[s.par[x]].left = x \/ s.kid[s.par[x]].right = x BY <3>2 DEF Side
    <3>5. Entries(h[x]) \subseteq Entries(h[s.par[x]]) BY <3>3, <3>4
    <3> QED BY <3>1, <3>5
  <2> QED BY <2>1, <2>2
<1>16. V \subseteq U
  <2> HIDE DEF U
  <2> QED BY <1>15, FromRoot
<1>17. V \subseteq E BY <1>14, <1>16
<1>18. E \subseteq V
  <2>1. s.root \in V \union {NULL} BY TreeFacts
  <2> QED BY <2>1, <1>13, <1>14
<1>19. Linked(s) = E BY <1>10 DEF Linked, Entries
<1> QED BY <1>17, <1>18, <1>19

\* The nodes in the tree are those that are not clear.
In(s) == {n \in Node : s.par[n] # n}

LEMMA InIs ==
  ASSUME NEW s, NEW V, NEW D, NEW M, Tree(s, V, D, M)
  PROVE  In(s) = V
<1>1. V \subseteq Node /\ D \in [V -> 0 .. M] /\ M \in Nat BY TreeFacts
<1>2. ASSUME NEW n \in V, s.par[n] = n PROVE FALSE
  <2>1. D[n] < D[n] BY <1>1, <1>2, TreeFacts
  <2>2. D[n] \in Nat BY <1>1
  <2> QED BY <2>1, <2>2
<1>3. \A n \in Node \ V : s.par[n] = n BY TreeFacts
<1> QED BY <1>1, <1>2, <1>3 DEF In

\* The nodes above which a set closes are the lowest of it.
LEMMA TopRank ==
  ASSUME NEW s, NEW V, NEW D, NEW M, Tree(s, V, D, M), NEW U \in SUBSET V, NEW top \in V,
         \A x \in U : x = top \/ s.par[x] \in U
  PROVE  \A x \in U : D[top] <= D[x]
<1> DEFINE T == {x \in V : x \in U => D[top] <= D[x]}
<1>1. D \in [V -> 0 .. M] /\ M \in Nat /\ NULL \notin V BY TreeFacts
<1>2. \A x \in V : D[x] \in Nat BY <1>1
<1>3. ASSUME NEW x \in V, s.par[x] \in T \union {NULL} PROVE x \in T
  <2> SUFFICES ASSUME x \in U, x # top PROVE D[top] <= D[x] BY <1>2
  <2>1. s.par[x] \in U /\ s.par[x] # NULL BY <1>1
  <2>2. D[top] <= D[s.par[x]] /\ s.par[x] \in V BY <2>1, <1>3
  <2>3. D[s.par[x]] < D[x] BY <2>1, TreeFacts
  <2> HIDE DEF T
  <2> QED BY <2>2, <2>3, <1>2
<1> HIDE DEF T
<1>4. V \subseteq T BY <1>3, FromRoot
<1> QED BY <1>4 DEF T

----------------------------------------------------------------------------
\* The links and the bits, as the variable t holds them.
Bits == Side \union {"equal"}
Links ==
    [root : Node \union {NULL}, par : [Node -> Node \union {NULL}],
     kid : [Node -> [Side -> Node \union {NULL}]], bal : [Node -> Bits]]

\* By the heights g of its children and its bits x is h high.
Level(s, g, x, h) ==
    \/ s.bal[x] = "equal" /\ g[s.kid[x].left] = g[s.kid[x].right] /\ h = g[s.kid[x].left] + 1
    \/ \E d \in Side :
          s.bal[x] = d /\ g[s.kid[x][d]] = g[s.kid[x][Other(d)]] + 1 /\ h = g[s.kid[x][d]] + 1

\* The nodes above x take its height to be g[x]; those of more are one higher,
\* those of less one lower.
Own(g, more, less, x) == g[x] + (IF x \in more THEN 1 ELSE 0) - (IF x \in less THEN 1 ELSE 0)
Heights(s, V, g, more, less) ==
    /\ g \in [V \union {NULL} -> Nat] /\ g[NULL] = 0
    /\ \A x \in V : Level(s, g, x, Own(g, more, less, x))

LEMMA SideIs ==
  /\ \A d \in Side : Other(d) \in Side /\ Other(d) # d /\ Other(Other(d)) = d /\ d # "equal"
  /\ \A d \in Side, e \in Side : e = d \/ e = Other(d)
  /\ "left" \in Side /\ "right" \in Side /\ Other("left") = "right" /\ Other("right") = "left"
BY DEF Side, Other

\* The same by either side.
LEMMA LevelBy ==
  ASSUME NEW s, NEW g, NEW x, NEW h, NEW d \in Side, s.bal[x] \in Bits
  PROVE  LET a == g[s.kid[x][d]]
             b == g[s.kid[x][Other(d)]]
         IN  Level(s, g, x, h) <=> /\ s.bal[x] = "equal" => a = b /\ h = a + 1
                                   /\ s.bal[x] = d => a = b + 1 /\ h = a + 1
                                   /\ s.bal[x] = Other(d) => b = a + 1 /\ h = b + 1
<1>1. CASE d = "left"
  <2>1. Other(d) = "right" BY <1>1, SideIs
  <2> QED BY <1>1, <2>1, SideIs DEF Level, Side, Bits
<1>2. CASE d = "right"
  <2>1. Other(d) = "left" BY <1>2, SideIs
  <2> QED BY <1>2, <2>1, SideIs DEF Level, Side, Bits
<1> QED BY <1>1, <1>2 DEF Side

Tall(s) ==
    LET f[x \in Node \union {NULL}] ==
            IF x = NULL THEN 0
            ELSE 1 + (IF f[s.kid[x].left] > f[s.kid[x].right] THEN f[s.kid[x].left]
                      ELSE f[s.kid[x].right])
    IN  f

\* Heights that are right everywhere are what the recursion computes.
LEMMA HeightsAre ==
  ASSUME NEW s, NEW V, NEW D, NEW M, Tree(s, V, D, M), NEW g, Heights(s, V, g, {}, {})
  PROVE  \A x \in V \union {NULL} : Tall(s)[x] = g[x]
<1> DEFINE G == [z \in Node \X Nat \X Nat |-> 1 + (IF z[2] > z[3] THEN z[2] ELSE z[3])]
           h == Tall(s)
           T == {x \in V : h[x] = g[x]}
<1>1. NULL \notin Node /\ V \subseteq Node /\ Ranked(s, V, D, M) BY TreeFacts DEF Tree
<1>2. G \in [Node \X Nat \X Nat -> Nat] OBVIOUS
<1>3. \A x \in Node, p, q \in Nat : G[<<x, p, q>>] = 1 + (IF p > q THEN p ELSE q) OBVIOUS
<1> HIDE DEF G
<1>4. PICK f \in [Node \union {NULL} -> Nat] : f[NULL] = 0 /\ Solves(s, Node, f, G)
  BY <1>1, <1>2, Recursion
<1>5. \A x \in Node : s.kid[x].left \in Node \union {NULL} /\ s.kid[x].right \in Node \union {NULL}
  BY <1>1, TreeFacts DEF Side
<1>6. \A x \in Node : f[x] = 1 + (IF f[s.kid[x].left] > f[s.kid[x].right] THEN f[s.kid[x].left]
                                  ELSE f[s.kid[x].right])
  <2> TAKE x \in Node
  <2>1. f[s.kid[x].left] \in Nat /\ f[s.kid[x].right] \in Nat BY <1>4, <1>5
  <2>2. f[x] = G[<<x, f[s.kid[x].left], f[s.kid[x].right]>>] BY <1>4 DEF Solves
  <2> QED BY <2>1, <2>2, <1>3
<1>7. f = [x \in Node \union {NULL} |->
              IF x = NULL THEN 0
              ELSE 1 + (IF f[s.kid[x].left] > f[s.kid[x].right] THEN f[s.kid[x].left]
                        ELSE f[s.kid[x].right])]
  BY <1>1, <1>4, <1>6
<1>8. h = [x \in Node \union {NULL} |->
              IF x = NULL THEN 0
              ELSE 1 + (IF h[s.kid[x].left] > h[s.kid[x].right] THEN h[s.kid[x].left]
                        ELSE h[s.kid[x].right])]
  BY <1>7, Zenon DEF Tall
<1> HIDE DEF h
<1>9. h[NULL] = 0
      /\ \A x \in V : h[x] = 1 + (IF h[s.kid[x].left] > h[s.kid[x].right] THEN h[s.kid[x].left]
                                  ELSE h[s.kid[x].right])
  BY <1>1, <1>8
<1>10. ASSUME NEW x \in V, s.kid[x].left \in T \union {NULL}, s.kid[x].right \in T \union {NULL} PROVE x \in T
  <2> DEFINE a == g[s.kid[x].left]
             b == g[s.kid[x].right]
  <2>1. h[s.kid[x].left] = a /\ h[s.kid[x].right] = b BY <1>9, <1>10 DEF Heights
  <2>2. a \in Nat /\ b \in Nat /\ g[x] \in Nat
    <3>1. s.kid[x].left \in V \union {NULL} /\ s.kid[x].right \in V \union {NULL} BY <1>10
    <3> QED BY <3>1 DEF Heights
  <2>3. Level(s, g, x, g[x]) BY <2>2 DEF Heights, Own
  <2>4. (a = b /\ g[x] = a + 1) \/ (a = b + 1 /\ g[x] = a + 1) \/ (b = a + 1 /\ g[x] = b + 1)
    BY <2>3, SideIs DEF Level, Side
  <2>5. h[x] = 1 + (IF a > b THEN a ELSE b) BY <2>1, <1>9
  <2> HIDE DEF a, b
  <2>6. h[x] = g[x] BY <2>2, <2>4, <2>5
  <2> QED BY <2>6
<1> HIDE DEF T
<1>11. V \subseteq T BY <1>1, <1>10, FromLeaves
<1> QED BY <1>9, <1>11 DEF T, h, Heights

\* The walk to the end of a side.
Ends(s, d) == LET f[x \in Node] == IF s.kid[x][d] = NULL THEN x ELSE f[s.kid[x][d]] IN f
LEMMA EndsAre ==
  ASSUME NEW s, NEW V, NEW D, NEW M, Ranked(s, V, D, M), NEW d \in Side
  PROVE  /\ \A x \in Node : Ends(s, d)[x] = IF s.kid[x][d] = NULL THEN x ELSE Ends(s, d)[s.kid[x][d]]
         /\ \A x : Deepest(s, x, d) = Ends(s, d)[x]
<1> DEFINE X == Node \union {NULL}
           G == [z \in Node \X X \X X |->
                    IF s.kid[z[1]][d] = NULL THEN z[1] ELSE IF d = "left" THEN z[2] ELSE z[3]]
           h == Ends(s, d)
<1>1. V \subseteq Node /\ NULL \notin Node BY NodeAssumption DEF Ranked
<1>2. G \in [Node \X X \X X -> X] OBVIOUS
<1>3. \A x \in Node, p, q \in X :
         G[<<x, p, q>>] = IF s.kid[x][d] = NULL THEN x ELSE IF d = "left" THEN p ELSE q
  OBVIOUS
<1>4. NULL \in X OBVIOUS
<1> HIDE DEF X, G
<1>5. PICK g \in [Node \union {NULL} -> X] : g[NULL] = NULL /\ Solves(s, Node, g, G)
  BY <1>2, <1>4, Recursion
<1>6. \A x \in Node, e \in Side : s.kid[x][e] \in Node \union {NULL}
  BY <1>1 DEF Ranked
<1>7. ASSUME NEW x \in Node PROVE g[x] = IF s.kid[x][d] = NULL THEN x ELSE g[s.kid[x][d]]
  <2>1. g[s.kid[x].left] \in X /\ g[s.kid[x].right] \in X BY <1>5, <1>6 DEF Side
  <2>2. g[x] = G[<<x, g[s.kid[x].left], g[s.kid[x].right]>>] BY <1>5 DEF Solves
  <2>3. d = "left" \/ d = "right" BY DEF Side
  <2> QED BY <2>1, <2>2, <2>3, <1>3
<1> DEFINE f == [x \in Node |-> g[x]]
<1>8. f = [x \in Node |-> IF s.kid[x][d] = NULL THEN x ELSE f[s.kid[x][d]]]
  <2>1. ASSUME NEW x \in Node PROVE f[x] = IF s.kid[x][d] = NULL THEN x ELSE f[s.kid[x][d]]
    BY <1>6, <1>7
  <2>2. f = [x \in Node |-> f[x]] OBVIOUS
  <2> HIDE DEF f
  <2> QED BY <2>1, <2>2
<1>9. h = [x \in Node |-> IF s.kid[x][d] = NULL THEN x ELSE h[s.kid[x][d]]]
  BY <1>8, Zenon DEF Ends
<1>10. \A x : Deepest(s, x, d) = h[x] BY Zenon DEF Deepest, Ends
<1> HIDE DEF h
<1> QED BY <1>9, <1>10 DEF h

----------------------------------------------------------------------------
\* r is s with p as the parent of n, if there is an n.
ParentSet(r, s, n, p) ==
    /\ r \in Links /\ r.root = s.root /\ r.kid = s.kid /\ r.bal = s.bal
    /\ \A x \in Node : r.par[x] = IF x = n THEN p ELSE s.par[x]

LEMMA SetParentIs ==
  ASSUME NEW s \in Links, NEW n \in Node \union {NULL}, NEW p \in Node \union {NULL}
  PROVE  ParentSet(SetParentOf(s, n, p), s, n, p)
<1> DEFINE r == SetParentOf(s, n, p)
<1>1. CASE n = NULL BY <1>1, NodeAssumption DEF ParentSet, SetParentOf
<1>2. CASE n # NULL
  <2>1. r = [s EXCEPT !.par[n] = p] BY <1>2 DEF SetParentOf
  <2> HIDE DEF r
  <2>2. /\ r \in Links /\ r.root = s.root /\ r.kid = s.kid /\ r.bal = s.bal
        /\ \A x \in Node : r.par[x] = IF x = n THEN p ELSE s.par[x]
    BY <1>2, <2>1 DEF Links
  <2> QED BY <2>2 DEF ParentSet, r
<1> QED BY <1>1, <1>2

\* r is s with new as the child of p on side d, or as the root.
ChildSet(r, s, new, p, d) ==
    /\ r \in Links /\ r.root = IF p = NULL THEN new ELSE s.root
    /\ r.par = s.par /\ r.bal = s.bal
    /\ \A x \in Node, e \in Side : r.kid[x][e] = IF x = p /\ e = d THEN new ELSE s.kid[x][e]

LEMMA ChangeChildIs ==
  ASSUME NEW s \in Links, NEW old, NEW new \in Node \union {NULL}, NEW p \in Node \union {NULL},
         NEW d \in Side, p # NULL => d = IF s.kid[p].left = old THEN "left" ELSE "right"
  PROVE  ChildSet(ChangeChild(s, old, new, p), s, new, p, d)
<1> DEFINE r == ChangeChild(s, old, new, p)
<1>1. CASE p = NULL
  <2>1. r = [s EXCEPT !.root = new] BY <1>1 DEF ChangeChild
  <2> HIDE DEF r
  <2>2. r \in Links /\ r.root = new /\ r.par = s.par /\ r.bal = s.bal /\ r.kid = s.kid
    BY <2>1 DEF Links
  <2> QED BY <1>1, <2>2, NodeAssumption DEF ChildSet, r
<1>2. CASE p # NULL
  <2> DEFINE k == [s.kid EXCEPT ![p][d] = new]
  <2>1. r = [s EXCEPT !.kid[p][d] = new] BY <1>2 DEF ChangeChild
  <2>2. s.kid \in [Node -> [Side -> Node \union {NULL}]] /\ p \in Node BY <1>2 DEF Links
  <2>3. /\ k \in [Node -> [Side -> Node \union {NULL}]]
        /\ \A x \in Node, e \in Side : k[x][e] = IF x = p /\ e = d THEN new ELSE s.kid[x][e]
    BY <2>2
  <2>4. r = [s EXCEPT !.kid = k] BY <2>1 DEF Links
  <2> HIDE DEF k, r
  <2>5. r \in Links /\ r.root = s.root /\ r.par = s.par /\ r.bal = s.bal /\ r.kid = k
    BY <2>3, <2>4 DEF Links
  <2> QED BY <1>2, <2>3, <2>5 DEF ChildSet, r
<1> QED BY <1>1, <1>2

\* Where a child is linked is where the code looks for it.
LEMMA ChildSide ==
  ASSUME NEW s, NEW V, NEW D, NEW M, Tree(s, V, D, M), NEW p \in V, s.par[p] # NULL
  PROVE  LET e == IF s.kid[s.par[p]].left = p THEN "left" ELSE "right"
         IN  /\ e \in Side /\ s.kid[s.par[p]][e] = p
             /\ \A x \in Node, f \in Side : s.kid[x][f] = p <=> x = s.par[p] /\ f = e
<1> DEFINE q == s.par[p]
           e == IF s.kid[q].left = p THEN "left" ELSE "right"
<1>1. q \in V /\ p # NULL /\ V \subseteq Node BY TreeFacts
<1>2. e \in Side /\ s.kid[q][e] = p
  <2>1. PICK f \in Side : s.kid[q][f] = p BY TreeFacts
  <2> QED BY <2>1 DEF Side
<1>3. ASSUME NEW x \in Node, NEW f \in Side, s.kid[x][f] = p PROVE x = q /\ f = e
  <2>1. x \in V BY <1>1, <1>3, TreeFacts
  <2>2. x = q BY <1>1, <1>3, <2>1, TreeFacts
  <2>3. ~(s.kid[q].left = p /\ s.kid[q].right = p) BY <1>1, TreeFacts
  <2> QED BY <2>2, <2>3, <1>3 DEF Side
<1> QED BY <1>2, <1>3

\* r is s with n, child of p on side d, above p.
Rotated(r, s, n, p, d) ==
    /\ r \in Links /\ r.bal = s.bal /\ r.root = IF s.root = p THEN n ELSE s.root
    /\ \A x \in Node :
          r.par[x] = IF x = p THEN n ELSE IF x = n THEN s.par[p]
                     ELSE IF x = s.kid[n][Other(d)] THEN p ELSE s.par[x]
    /\ \A x \in Node, e \in Side :
          r.kid[x][e] = IF x = p /\ e = d THEN s.kid[n][Other(d)]
                        ELSE IF x = n /\ e = Other(d) THEN p
                        ELSE IF s.kid[x][e] = p THEN n ELSE s.kid[x][e]

LEMMA RotateIs ==
  ASSUME NEW s \in Links, NEW V, NEW D, NEW M, Tree(s, V, D, M),
         NEW n \in V, NEW p \in V, NEW d \in Side, s.kid[p][d] = n
  PROVE  Rotated(Rotate(s, n, p, d), s, n, p, d)
<1> DEFINE o == Other(d)
           c == s.kid[n][o]
           q == s.par[p]
           a == [s EXCEPT !.kid[p][d] = c, !.kid[n][o] = p]
           b == SetParentOf(a, c, p)
           f == [b EXCEPT !.par[n] = q, !.par[p] = n]
           r == ChangeChild(f, p, n, q)
           e == IF s.kid[q].left = p THEN "left" ELSE "right"
<1>1. Rotate(s, n, p, d) = r BY Zenon DEF Rotate
<1>2. /\ n \in Node /\ p \in Node /\ n # NULL /\ p # NULL /\ NULL \notin Node
      /\ c \in Node \union {NULL} /\ q \in Node \union {NULL}
      /\ s.par[n] = p /\ n # p /\ q # n /\ q # p /\ c # p /\ c # n
      /\ o \in Side /\ o # d /\ (q = NULL <=> s.root = p)
  <2>1. /\ n \in Node /\ p \in Node /\ n # NULL /\ p # NULL /\ NULL \notin Node
        /\ c \in V \union {NULL} /\ q \in V \union {NULL} /\ V \subseteq Node /\ o \in Side /\ o # d
        /\ D \in [V -> 0 .. M] /\ M \in Nat
    BY TreeFacts, SideIs
  <2>2. s.par[n] = p /\ D[p] < D[n] /\ (q # NULL => D[q] < D[p]) /\ (c # NULL => D[n] < D[c])
    BY <2>1, TreeFacts
  <2>3. D[p] \in Nat /\ D[n] \in Nat /\ (q # NULL => D[q] \in Nat) /\ (c # NULL => D[c] \in Nat)
    BY <2>1
  <2>4. q = NULL <=> s.root = p BY <2>1, TreeFacts
  <2> HIDE DEF c, q, o
  <2> QED BY <2>1, <2>2, <2>3, <2>4
<1> HIDE DEF o, c, q
<1>3. /\ a \in Links /\ a.root = s.root /\ a.par = s.par /\ a.bal = s.bal
      /\ \A x \in Node, y \in Side :
            a.kid[x][y] = IF x = p /\ y = d THEN c ELSE IF x = n /\ y = o THEN p ELSE s.kid[x][y]
  <2> DEFINE k == [s.kid EXCEPT ![p][d] = c, ![n][o] = p]
  <2>1. s.kid \in [Node -> [Side -> Node \union {NULL}]] BY DEF Links
  <2>2. k \in [Node -> [Side -> Node \union {NULL}]] BY <1>2, <2>1
  <2>3. \A x \in Node, y \in Side :
            k[x][y] = IF x = p /\ y = d THEN c ELSE IF x = n /\ y = o THEN p ELSE s.kid[x][y]
    BY <1>2, <2>1
  <2>4. a = [s EXCEPT !.kid = k] BY DEF Links
  <2> HIDE DEF k, a
  <2>5. a \in Links /\ a.root = s.root /\ a.par = s.par /\ a.bal = s.bal /\ a.kid = k
    BY <2>2, <2>4 DEF Links
  <2> QED BY <2>3, <2>5
<1> HIDE DEF a
<1>4. ParentSet(b, a, c, p) BY <1>2, <1>3, SetParentIs
<1> HIDE DEF b
<1>5. /\ f \in Links /\ f.root = s.root /\ f.bal = s.bal /\ f.kid = a.kid
      /\ \A x \in Node : f.par[x] = IF x = p THEN n ELSE IF x = n THEN q
                                    ELSE IF x = c THEN p ELSE s.par[x]
  <2>1. b \in Links /\ b.root = s.root /\ b.bal = s.bal /\ b.kid = a.kid
    BY <1>3, <1>4 DEF ParentSet
  <2>2. \A x \in Node : b.par[x] = IF x = c THEN p ELSE s.par[x] BY <1>3, <1>4 DEF ParentSet
  <2>3. /\ f \in Links /\ f.root = s.root /\ f.bal = s.bal /\ f.kid = a.kid
        /\ \A x \in Node : f.par[x] = IF x = p THEN n ELSE IF x = n THEN q ELSE b.par[x]
    BY <1>2, <2>1 DEF Links
  <2> QED BY <2>2, <2>3
<1> HIDE DEF f
<1>6. e \in Side /\ (q # NULL => e = IF f.kid[q].left = p THEN "left" ELSE "right")
  <2>1. q # NULL => f.kid[q].left = s.kid[q].left BY <1>2, <1>3, <1>5, SideIs
  <2> QED BY <2>1, SideIs
<1>7. ChildSet(r, f, n, q, e) BY <1>2, <1>5, <1>6, ChangeChildIs
<1>8. q # NULL => s.kid[q][e] = p /\ \A x \in Node, y \in Side : s.kid[x][y] = p <=> x = q /\ y = e
  BY ChildSide DEF q
<1>9. q = NULL => \A x \in Node, y \in Side : s.kid[x][y] # p
  <2> SUFFICES ASSUME NEW x \in Node, NEW y \in Side, s.kid[x][y] = p PROVE q # NULL OBVIOUS
  <2>1. x \in V BY <1>2, TreeFacts
  <2> QED BY <2>1, <1>2, TreeFacts DEF q
<1> HIDE DEF r, e
<1>10. \A x \in Node, y \in Side :
          r.kid[x][y] = IF x = p /\ y = d THEN c ELSE IF x = n /\ y = o THEN p
                        ELSE IF s.kid[x][y] = p THEN n ELSE s.kid[x][y]
  BY <1>2, <1>3, <1>5, <1>7, <1>8, <1>9 DEF ChildSet
<1>11. /\ r \in Links /\ r.bal = s.bal /\ r.root = (IF s.root = p THEN n ELSE s.root)
       /\ \A x \in Node : r.par[x] = IF x = p THEN n ELSE IF x = n THEN q
                                     ELSE IF x = c THEN p ELSE s.par[x]
  BY <1>2, <1>5, <1>7 DEF ChildSet
<1> QED BY <1>1, <1>10, <1>11 DEF Rotated, q, c, o

\* It is a tree of the same nodes.
LEMMA RotatedTree ==
  ASSUME NEW s, NEW r, NEW V, NEW D, NEW M, Tree(s, V, D, M),
         NEW n \in V, NEW p \in V, NEW d \in Side, s.kid[p][d] = n, Rotated(r, s, n, p, d)
  PROVE  \E C, K : Tree(r, V, C, K)
<1> DEFINE o == Other(d)
           c == s.kid[n][o]
           q == s.par[p]
           C == [x \in V |-> IF x = n THEN 2 * D[p] ELSE 2 * D[x] + 1]
           K == 2 * M + 1
<1>1. /\ V \subseteq Node /\ NULL \notin Node /\ M \in Nat /\ D \in [V -> 0 .. M]
      /\ s.root \in V \union {NULL} /\ (s.root # NULL => s.par[s.root] = NULL)
      /\ o \in Side /\ o # d /\ (\A e \in Side : e = d \/ e = o)
  BY TreeFacts, SideIs
<1>2. \A x \in V :
         /\ s.par[x] \in V \union {NULL}
         /\ s.par[x] = NULL => x = s.root
         /\ s.par[x] # NULL => D[s.par[x]] < D[x] /\ \E e \in Side : s.kid[s.par[x]][e] = x
  BY TreeFacts
<1>3. \A x \in V, e \in Side :
         /\ s.kid[x][e] \in V \union {NULL}
         /\ s.kid[x][e] # NULL => s.par[s.kid[x][e]] = x /\ D[x] < D[s.kid[x][e]]
  BY TreeFacts
<1>4. \A x \in V : D[x] \in 0 .. M /\ D[x] \in Nat BY <1>1
<1>5. /\ s.par[n] = p /\ D[p] < D[n] /\ n # p /\ q # n /\ q # p
      /\ c \in V \union {NULL} /\ c # p /\ c # n /\ (c # NULL => s.par[c] = n /\ D[n] < D[c])
      /\ q \in V \union {NULL} /\ (q # NULL => D[q] < D[p])
  <2>1. s.par[n] = p /\ D[p] < D[n] BY <1>1, <1>3
  <2>2. c \in V \union {NULL} /\ (c # NULL => s.par[c] = n /\ D[n] < D[c]) BY <1>1, <1>3
  <2>3. q \in V \union {NULL} /\ (q # NULL => D[q] < D[p]) BY <1>2
  <2> HIDE DEF c, q
  <2>4. n # p BY <2>1, <1>4
  <2>5. c # p /\ c # n
    <3>1. c = NULL \/ (D[n] < D[c] /\ D[c] \in Nat /\ D[n] \in Nat /\ D[p] \in Nat) BY <2>2, <1>4
    <3> QED BY <3>1, <2>1, <1>1
  <2>6. q # n /\ q # p
    <3>1. q = NULL \/ (D[q] < D[p] /\ D[q] \in Nat /\ D[n] \in Nat /\ D[p] \in Nat) BY <2>3, <1>4
    <3> QED BY <3>1, <2>1, <1>1
  <2> QED BY <2>1, <2>2, <2>3, <2>4, <2>5, <2>6
<1>6. /\ K \in Nat /\ C \in [V -> 0 .. K] /\ C[n] = 2 * D[p]
      /\ \A x \in V : x # n => C[x] = 2 * D[x] + 1
  BY <1>1, <1>4
<1> HIDE DEF C, K
<1>7. /\ r.root = IF s.root = p THEN n ELSE s.root
      /\ \A x \in Node : r.par[x] = IF x = p THEN n ELSE IF x = n THEN q
                                    ELSE IF x = c THEN p ELSE s.par[x]
      /\ \A x \in Node, e \in Side :
            r.kid[x][e] = IF x = p /\ e = d THEN c ELSE IF x = n /\ e = o THEN p
                          ELSE IF s.kid[x][e] = p THEN n ELSE s.kid[x][e]
  BY DEF Rotated
<1> HIDE DEF c, q, o
<1>8. ASSUME NEW x \in V, NEW e \in Side
      PROVE  /\ r.kid[x][e] \in V \union {NULL}
             /\ r.kid[x][e] # NULL => r.par[r.kid[x][e]] = x /\ C[x] < C[r.kid[x][e]]
  <2>0. x \in Node /\ n \in Node /\ p \in Node BY <1>1
  <2>1. CASE x = p /\ e = d
    <3>1. r.kid[x][e] = c BY <2>1, <2>0, <1>7
    <3>2. c # NULL => r.par[c] = p BY <1>1, <1>5, <1>7
    <3>3. c # NULL => C[p] < C[c] BY <1>4, <1>5, <1>6
    <3> QED BY <2>1, <3>1, <3>2, <3>3, <1>5
  <2>2. CASE x = n /\ e = o
    <3>1. r.kid[x][e] = p BY <2>2, <2>0, <1>5, <1>7
    <3>2. r.par[p] = n BY <2>0, <1>7
    <3>3. C[n] < C[p] BY <1>4, <1>5, <1>6
    <3> QED BY <2>2, <3>1, <3>2, <3>3
  <2>3. CASE ~(x = p /\ e = d) /\ ~(x = n /\ e = o) /\ s.kid[x][e] = p
    <3>1. r.kid[x][e] = n BY <2>3, <2>0, <1>7
    <3>2. x = q BY <2>3, <1>1, <1>3 DEF q
    <3>3. r.par[n] = x BY <3>2, <2>0, <1>5, <1>7
    <3>4. C[x] < C[n] BY <3>2, <1>1, <1>4, <1>5, <1>6
    <3> QED BY <3>1, <3>3, <3>4
  <2>4. CASE ~(x = p /\ e = d) /\ ~(x = n /\ e = o) /\ s.kid[x][e] # p
    <3> DEFINE k == s.kid[x][e]
    <3>1. r.kid[x][e] = k BY <2>4, <2>0, <1>7
    <3>2. k \in V \union {NULL} /\ (k # NULL => s.par[k] = x /\ D[x] < D[k]) BY <1>3
    <3> SUFFICES ASSUME k # NULL PROVE r.par[k] = x /\ C[x] < C[k] BY <3>1, <3>2
    <3>3. k # n
      <4> SUFFICES ASSUME k = n PROVE FALSE OBVIOUS
      <4>1. x = p /\ e = o BY <3>2, <2>4, <1>1, <1>5
      <4>2. s.kid[p].left # s.kid[p].right BY <4>1, <1>1, TreeFacts, SideIs
      <4> QED BY <4>1, <4>2, <1>1 DEF Side
    <3>4. k # c
      <4> SUFFICES ASSUME k = c PROVE FALSE OBVIOUS
      <4>1. x = n /\ e = d BY <3>2, <2>4, <1>1, <1>5
      <4>2. s.kid[n].left # NULL => s.kid[n].left # s.kid[n].right BY TreeFacts
      <4> QED BY <4>1, <4>2, <1>1 DEF Side, c
    <3> HIDE DEF k
    <3>5. r.par[k] = x BY <3>2, <3>3, <3>4, <2>4, <1>1, <1>7 DEF k
    <3>6. C[k] = 2 * D[k] + 1 BY <3>2, <3>3, <1>6
    <3>7. C[x] <= 2 * D[x] + 1 BY <1>4, <1>5, <1>6
    <3>8. C[x] < C[k]
      <4>1. D[x] \in Nat /\ D[k] \in Nat /\ D[x] < D[k] BY <3>2, <1>4
      <4>2. C[x] \in 0 .. K BY <1>6
      <4> QED BY <4>1, <4>2, <3>6, <3>7, <1>6
    <3> QED BY <3>5, <3>8
  <2> QED BY <2>1, <2>2, <2>3, <2>4
<1>9. ASSUME NEW x \in V
      PROVE  /\ r.par[x] \in V \union {NULL}
             /\ r.par[x] = NULL => x = r.root
             /\ r.par[x] # NULL => \E e \in Side : r.kid[r.par[x]][e] = x
  <2>0. x \in Node /\ n \in Node /\ p \in Node /\ x # NULL /\ n # NULL /\ p # NULL BY <1>1
  <2>1. CASE x = p
    <3>1. r.par[x] = n /\ r.kid[n][o] = p BY <2>1, <2>0, <1>1, <1>5, <1>7
    <3> QED BY <2>1, <2>0, <3>1, <1>1
  <2>2. CASE x = n
    <3>1. r.par[x] = q BY <2>2, <2>0, <1>5, <1>7
    <3>2. q = NULL => r.root = n BY <1>2, <1>7 DEF q
    <3>3. q # NULL => \E e \in Side : r.kid[q][e] = n
      <4> SUFFICES ASSUME q # NULL PROVE \E e \in Side : r.kid[q][e] = n OBVIOUS
      <4>1. PICK e \in Side : s.kid[q][e] = p BY <1>2 DEF q
      <4>2. r.kid[q][e] = n BY <4>1, <1>1, <1>5, <1>7
      <4> QED BY <4>2
    <3> QED BY <2>2, <3>1, <3>2, <3>3, <1>5
  <2>3. CASE x = c /\ x # p /\ x # n
    <3>1. r.par[x] = p /\ r.kid[p][d] = x BY <2>3, <2>0, <1>7
    <3> QED BY <3>1, <2>0
  <2>4. CASE x # c /\ x # p /\ x # n
    <3>1. r.par[x] = s.par[x] BY <2>4, <2>0, <1>7
    <3>2. s.par[x] = NULL => x = r.root BY <2>4, <1>2, <1>7
    <3>3. s.par[x] # NULL => \E e \in Side : r.kid[s.par[x]][e] = x
      <4> SUFFICES ASSUME s.par[x] # NULL PROVE \E e \in Side : r.kid[s.par[x]][e] = x OBVIOUS
      <4>1. PICK e \in Side : s.kid[s.par[x]][e] = x BY <1>2
      <4>2. s.par[x] \in Node BY <1>1, <1>2
      <4>3. ~(s.par[x] = p /\ e = d) BY <4>1, <2>4
      <4>4. ~(s.par[x] = n /\ e = o) BY <4>1, <2>4 DEF c
      <4>5. r.kid[s.par[x]][e] = x BY <4>1, <4>2, <4>3, <4>4, <2>4, <1>7
      <4> QED BY <4>5
    <3> QED BY <3>1, <3>2, <3>3, <1>2
  <2> QED BY <2>1, <2>2, <2>3, <2>4
<1>10. ASSUME NEW x \in V, r.kid[x].left # NULL PROVE r.kid[x].left # r.kid[x].right
  <2>0. /\ x \in Node /\ n \in Node /\ p \in Node /\ p # NULL
        /\ s.kid[x].left # NULL => s.kid[x].left # s.kid[x].right
    BY <1>1, TreeFacts
  <2>1. /\ r.kid[x].left = IF x = p /\ "left" = d THEN c ELSE IF x = n /\ "left" = o THEN p
                           ELSE IF s.kid[x].left = p THEN n ELSE s.kid[x].left
        /\ r.kid[x].right = IF x = p /\ "right" = d THEN c ELSE IF x = n /\ "right" = o THEN p
                            ELSE IF s.kid[x].right = p THEN n ELSE s.kid[x].right
    BY <2>0, <1>7, SideIs
  <2>2. \A e \in Side : s.kid[p][e] # p /\ s.kid[n][e] # p /\ (s.kid[p][e] = c => c = NULL)
    <3> TAKE e \in Side
    <3>1. s.kid[p][e] # NULL => s.par[s.kid[p][e]] = p BY <1>3
    <3>2. s.kid[n][e] # NULL => s.par[s.kid[n][e]] = n BY <1>3
    <3> QED BY <3>1, <3>2, <2>0, <1>5 DEF q
  <2>3. \A e \in Side : x # p /\ s.kid[x][e] = n => FALSE
    <3> TAKE e \in Side
    <3>1. s.kid[x][e] # NULL => s.par[s.kid[x][e]] = x BY <1>3
    <3> QED BY <3>1, <1>1, <1>5
  <2>4. s.kid[x].left = p /\ s.kid[x].right = p => FALSE BY <2>0
  <2>5. CASE x = p
    <3>1. s.kid[p].left # p /\ s.kid[p].right # p /\ (s.kid[p].left = c => c = NULL) /\ (s.kid[p].right = c => c = NULL)
      BY <2>2, SideIs
    <3> QED BY <2>1, <2>5, <3>1, <1>5, <1>10, SideIs DEF Side
  <2>6. CASE x = n
    <3>1. s.kid[n].left # p /\ s.kid[n].right # p BY <2>2, SideIs
    <3>2. (d = "left" /\ o = "right") \/ (d = "right" /\ o = "left") BY <1>1 DEF Side
    <3>3. CASE d = "left"
      <4>1. r.kid[n].left = s.kid[n].left /\ r.kid[n].right = p BY <3>1, <3>2, <3>3, <2>1, <2>6, <1>5
      <4> QED BY <4>1, <3>1, <2>6
    <3>4. CASE d = "right"
      <4>1. r.kid[n].right = s.kid[n].right /\ r.kid[n].left = p BY <3>1, <3>2, <3>4, <2>1, <2>6, <1>5
      <4> QED BY <4>1, <3>1, <2>6
    <3> QED BY <3>2, <3>3, <3>4
  <2>7. CASE x # n /\ x # p
    <3>1. s.kid[x].left # n /\ s.kid[x].right # n BY <2>3, <2>7, SideIs
    <3> QED BY <2>0, <2>1, <2>4, <2>7, <3>1, <1>10
  <2> QED BY <2>5, <2>6, <2>7
<1>11. ASSUME NEW x \in Node \ V PROVE r.par[x] = x /\ \A e \in Side : r.kid[x][e] = NULL
  <2>1. x # p /\ x # n /\ x # c BY <1>1, <1>5
  <2>2. s.par[x] = x /\ \A e \in Side : s.kid[x][e] = NULL BY TreeFacts
  <2> QED BY <2>1, <2>2, <1>1, <1>7
<1>12. r.root \in V \union {NULL} /\ (r.root # NULL => r.par[r.root] = NULL)
  <2>1. CASE s.root = p
    <3>1. r.root = n /\ r.par[n] = q /\ q = NULL BY <2>1, <1>1, <1>5, <1>7 DEF q
    <3> QED BY <3>1
  <2>2. CASE s.root # p
    <3>1. r.root = s.root BY <2>2, <1>7
    <3>2. s.root # NULL => s.root # n /\ s.root # c BY <1>1, <1>5
    <3> QED BY <2>2, <3>1, <3>2, <1>1, <1>7
  <2> QED BY <2>1, <2>2
<1>13. Ranked(r, V, C, K) BY <1>1, <1>6, <1>8, <1>11 DEF Ranked
<1>14. Tree(r, V, C, K) BY <1>8, <1>9, <1>10, <1>11, <1>12, <1>13 DEF Tree
<1> QED BY <1>14

\* The bits are no part of the tree.
LEMMA SameTree ==
  ASSUME NEW s, NEW r, NEW V, NEW D, NEW M, Tree(s, V, D, M),
         r.root = s.root, r.par = s.par, r.kid = s.kid
  PROVE  Tree(r, V, D, M)
BY DEF Tree, Ranked

\* r is s with m, child of n on its inner side, above n and p.
Twice(r, s, n, m, p, d) ==
    /\ r \in Links /\ r.bal = s.bal /\ r.root = IF s.root = p THEN m ELSE s.root
    /\ \A x \in Node :
          r.par[x] = IF x = p \/ x = n THEN m ELSE IF x = m THEN s.par[p]
                     ELSE IF x = s.kid[m][Other(d)] THEN p
                     ELSE IF x = s.kid[m][d] THEN n ELSE s.par[x]
    /\ \A x \in Node, e \in Side :
          r.kid[x][e] = IF x = p /\ e = d THEN s.kid[m][Other(d)]
                        ELSE IF x = n /\ e = Other(d) THEN s.kid[m][d]
                        ELSE IF x = m THEN IF e = d THEN n ELSE p
                        ELSE IF s.kid[x][e] = p THEN m ELSE s.kid[x][e]

LEMMA TwiceIs ==
  ASSUME NEW s \in Links, NEW V, NEW D, NEW M, Tree(s, V, D, M),
         NEW n \in V, NEW m \in V, NEW p \in V, NEW d \in Side, s.kid[p][d] = n, s.kid[n][Other(d)] = m
  PROVE  LET r == Rotate(Rotate(s, m, n, Other(d)), m, p, d)
         IN  Twice(r, s, n, m, p, d) /\ \E C, K : Tree(r, V, C, K)
<1> DEFINE o == Other(d)
           u == Rotate(s, m, n, o)
           r == Rotate(u, m, p, d)
<1>1. /\ V \subseteq Node /\ NULL \notin Node /\ o \in Side /\ o # d /\ Other(o) = d
      /\ (\A e \in Side : e = d \/ e = o)
  BY TreeFacts, SideIs
<1>2. Rotated(u, s, m, n, o) BY <1>1, RotateIs
<1>3. PICK C, K : Tree(u, V, C, K) BY <1>1, <1>2, RotatedTree
<1> HIDE DEF u
<1>4. /\ s.par[n] = p /\ s.par[m] = n /\ n # p /\ m # n /\ m # p
      /\ \A x \in V, e \in Side : s.kid[x][e] # NULL => s.par[s.kid[x][e]] = x
      /\ s.par[p] # n /\ s.par[p] # m
  <2>1. D \in [V -> 0 .. M] /\ M \in Nat /\ \A x \in V : D[x] \in Nat BY TreeFacts
  <2>2. s.par[n] = p /\ s.par[m] = n /\ D[p] < D[n] /\ D[n] < D[m] BY <1>1, TreeFacts
  <2>3. s.par[p] # NULL => s.par[p] \in V /\ D[s.par[p]] < D[p] BY TreeFacts
  <2>4. \A x \in V, e \in Side : s.kid[x][e] # NULL => s.par[s.kid[x][e]] = x BY TreeFacts
  <2>5. n # p /\ m # n /\ m # p BY <2>1, <2>2
  <2>6. s.par[p] # n /\ s.par[p] # m BY <2>1, <2>2, <2>3, <1>1
  <2> QED BY <2>2, <2>4, <2>5, <2>6
<1>5. /\ u \in Links /\ u.bal = s.bal /\ u.root = IF s.root = n THEN m ELSE s.root
      /\ \A x \in Node : u.par[x] = IF x = n THEN m ELSE IF x = m THEN p
                                    ELSE IF x = s.kid[m][d] THEN n ELSE s.par[x]
      /\ \A x \in Node, e \in Side :
            u.kid[x][e] = IF x = n /\ e = o THEN s.kid[m][d]
                          ELSE IF x = m /\ e = d THEN n
                          ELSE IF s.kid[x][e] = n THEN m ELSE s.kid[x][e]
  BY <1>1, <1>2, <1>4 DEF Rotated
<1>6. u.kid[p][d] = m BY <1>1, <1>4, <1>5
<1>7. Rotated(r, u, m, p, d) BY <1>3, <1>5, <1>6, RotateIs
<1>8. \E CC, KK : Tree(r, V, CC, KK) BY <1>3, <1>6, <1>7, RotatedTree
<1> HIDE DEF r
<1>9. u.kid[m][o] = s.kid[m][o] /\ u.par[p] = s.par[p]
  <2>1. s.kid[m][o] # n
    <3>1. s.kid[m][o] # NULL => s.par[s.kid[m][o]] = m BY <1>1, <1>4
    <3> QED BY <3>1, <1>1, <1>4
  <2>2. s.kid[m][d] # p
    <3>1. s.kid[m][d] # NULL => s.par[s.kid[m][d]] = m BY <1>1, <1>4
    <3> QED BY <3>1, <1>1, <1>4
  <2> QED BY <2>1, <2>2, <1>1, <1>4, <1>5
<1>10. /\ r \in Links /\ r.bal = u.bal /\ r.root = IF u.root = p THEN m ELSE u.root
       /\ \A x \in Node : r.par[x] = IF x = p THEN m ELSE IF x = m THEN s.par[p]
                                     ELSE IF x = s.kid[m][o] THEN p ELSE u.par[x]
       /\ \A x \in Node, e \in Side :
             r.kid[x][e] = IF x = p /\ e = d THEN s.kid[m][o]
                           ELSE IF x = m /\ e = o THEN p
                           ELSE IF u.kid[x][e] = p THEN m ELSE u.kid[x][e]
  BY <1>7, <1>9 DEF Rotated
<1>11. s.root # n
  <2>1. s.root # NULL => s.par[s.root] = NULL BY TreeFacts
  <2> QED BY <2>1, <1>1, <1>4
<1>12. s.kid[m][o] # n /\ s.kid[m][o] # p /\ s.kid[m][o] # m /\ s.kid[m][d] # p
  <2>1. s.kid[m][o] # NULL => s.par[s.kid[m][o]] = m BY <1>1, <1>4
  <2>2. s.kid[m][d] # NULL => s.par[s.kid[m][d]] = m BY <1>1, <1>4
  <2> QED BY <2>1, <2>2, <1>1, <1>4
<1>13. ASSUME NEW x \in Node
       PROVE  r.par[x] = IF x = p \/ x = n THEN m ELSE IF x = m THEN s.par[p]
                         ELSE IF x = s.kid[m][o] THEN p ELSE IF x = s.kid[m][d] THEN n ELSE s.par[x]
  BY <1>4, <1>5, <1>10, <1>12
<1>14. ASSUME NEW x \in Node, NEW e \in Side
       PROVE  r.kid[x][e] = IF x = p /\ e = d THEN s.kid[m][o]
                            ELSE IF x = n /\ e = o THEN s.kid[m][d]
                            ELSE IF x = m THEN IF e = d THEN n ELSE p
                            ELSE IF s.kid[x][e] = p THEN m ELSE s.kid[x][e]
  <2>1. s.kid[x][e] = n => x = p /\ e = d
    <3> SUFFICES ASSUME s.kid[x][e] = n PROVE x = p /\ e = d OBVIOUS
    <3>1. x \in V BY <1>1, TreeFacts
    <3>2. x = p BY <3>1, <1>1, <1>4
    <3>3. s.kid[p].left # s.kid[p].right BY <3>1, <3>2, <1>1, TreeFacts DEF Side
    <3> QED BY <3>2, <3>3 DEF Side
  <2>2. CASE x = m
    <3>1. e = d \/ e = o BY <1>1
    <3>2. CASE e = d BY <2>2, <3>2, <1>1, <1>4, <1>5, <1>10
    <3>3. CASE e = o BY <2>2, <3>3, <1>1, <1>4, <1>10
    <3> QED BY <3>1, <3>2, <3>3
  <2>3. CASE x # m
    <3>1. r.kid[x][e] = IF x = p /\ e = d THEN s.kid[m][o] ELSE IF u.kid[x][e] = p THEN m ELSE u.kid[x][e]
      BY <2>3, <1>10
    <3>2. u.kid[x][e] = IF x = n /\ e = o THEN s.kid[m][d] ELSE IF s.kid[x][e] = n THEN m ELSE s.kid[x][e]
      BY <2>3, <1>5
    <3> QED BY <2>1, <2>3, <3>1, <3>2, <1>4, <1>12
  <2> QED BY <2>2, <2>3
<1>15. r \in Links /\ r.bal = s.bal /\ r.root = IF s.root = p THEN m ELSE s.root
  BY <1>5, <1>10, <1>11
<1>16. Twice(r, s, n, m, p, d) BY <1>13, <1>14, <1>15 DEF Twice
<1> QED BY <1>8, <1>16 DEF r, u

----------------------------------------------------------------------------
\* The heights g become h: outside Z, and but for the child c of a node of Z,
\* the nodes are as high as before.
Agree(V, g, more, less, h, up, low, Z, c) ==
    /\ h \in [V \union {NULL} -> Nat] /\ h[NULL] = 0
    /\ \A x \in V \ Z : /\ x # c => h[x] = g[x]
                        /\ Own(h, up, low, x) = Own(g, more, less, x)

\* A change in the nodes of Z that looks the same from outside: z is where p was.
SeesSame(s, r, V, g, h, Z, p, z) ==
    /\ Z \subseteq V /\ h[z] = g[p]
    /\ \A x \in V \ Z : /\ r.bal[x] = s.bal[x]
                        /\ \A e \in Side :
                              /\ r.kid[x][e] = IF s.kid[x][e] = p THEN z ELSE s.kid[x][e]
                              /\ s.kid[x][e] # p => h[s.kid[x][e]] = g[s.kid[x][e]]
LEMMA OtherLevels ==
  ASSUME NEW s, NEW r, NEW V, NEW g, NEW more, NEW less, Heights(s, V, g, more, less),
         NEW h, NEW up, NEW low, NEW Z, NEW c, Agree(V, g, more, less, h, up, low, Z, c),
         NEW p, NEW z, SeesSame(s, r, V, g, h, Z, p, z),
         \A x \in Z : Level(r, h, x, Own(h, up, low, x))
  PROVE  Heights(r, V, h, up, low)
<1> SUFFICES ASSUME NEW x \in V \ Z PROVE Level(r, h, x, Own(h, up, low, x)) BY DEF Heights, Agree
<1>1. \A e \in Side : h[r.kid[x][e]] = g[s.kid[x][e]] BY DEF SeesSame
<1>2. Level(s, g, x, Own(g, more, less, x)) BY DEF Heights
<1> DEFINE k == Own(h, up, low, x)
<1>3. k = Own(g, more, less, x) /\ r.bal[x] = s.bal[x] BY DEF Agree, SeesSame
<1> HIDE DEF k
<1>4. Level(s, g, x, k) BY <1>2, <1>3
<1>5. Level(r, h, x, k)
  <2>1. CASE s.bal[x] = "equal" /\ g[s.kid[x].left] = g[s.kid[x].right] /\ k = g[s.kid[x].left] + 1
    BY <2>1, <1>1, <1>3, SideIs DEF Level
  <2>2. CASE \E e \in Side : /\ s.bal[x] = e /\ g[s.kid[x][e]] = g[s.kid[x][Other(e)]] + 1
                             /\ k = g[s.kid[x][e]] + 1
    <3>1. PICK e \in Side : /\ s.bal[x] = e /\ g[s.kid[x][e]] = g[s.kid[x][Other(e)]] + 1
                            /\ k = g[s.kid[x][e]] + 1
      BY <2>2
    <3>2. h[r.kid[x][e]] = g[s.kid[x][e]] /\ h[r.kid[x][Other(e)]] = g[s.kid[x][Other(e)]]
      BY <1>1, SideIs
    <3> QED BY <3>1, <3>2, <1>3 DEF Level
  <2> QED BY <2>1, <2>2, <1>4 DEF Level
<1> QED BY <1>5 DEF k

\* n comes above p: the nodes elsewhere see the height that they saw before,
\* and the other child of p may have changed.
RotatedLevels(s, u, r, V, h, up, low, n, p, d) ==
    /\ u.root = s.root /\ u.par = s.par /\ u.kid = s.kid /\ Rotated(r, u, n, p, d)
    /\ \A x \in V : x # n /\ x # p => u.bal[x] = s.bal[x]
    /\ \A x \in {n, p} : Level(r, h, x, Own(h, up, low, x))
LEMMA RotatedHeights ==
  ASSUME NEW s, NEW u, NEW r, NEW V, NEW D, NEW M, Tree(s, V, D, M),
         NEW n \in V, NEW p \in V, NEW d \in Side, s.kid[p][d] = n,
         NEW g, NEW more, NEW less, Heights(s, V, g, more, less),
         NEW h, NEW up, NEW low,
         Agree(V, g, more, less, h, up, low, {n, p}, s.kid[p][Other(d)]), h[n] = g[p],
         RotatedLevels(s, u, r, V, h, up, low, n, p, d)
  PROVE  Heights(r, V, h, up, low)
<1>1. V \subseteq Node /\ NULL \notin Node /\ Other(d) \in Side BY TreeFacts, SideIs
<1>2. ASSUME NEW x \in V, x # n, x # p
      PROVE  /\ r.bal[x] = s.bal[x]
             /\ \A e \in Side :
                   /\ r.kid[x][e] = IF s.kid[x][e] = p THEN n ELSE s.kid[x][e]
                   /\ s.kid[x][e] # p => h[s.kid[x][e]] = g[s.kid[x][e]]
  <2>1. r.bal[x] = s.bal[x] BY <1>2 DEF RotatedLevels, Rotated
  <2>2. ASSUME NEW e \in Side PROVE r.kid[x][e] = IF s.kid[x][e] = p THEN n ELSE s.kid[x][e]
    BY <1>1, <1>2 DEF RotatedLevels, Rotated
  <2>3. ASSUME NEW e \in Side, s.kid[x][e] # p PROVE h[s.kid[x][e]] = g[s.kid[x][e]]
    <3> DEFINE y == s.kid[x][e]
    <3>1. CASE y = NULL BY <3>1 DEF Heights, Agree
    <3>2. CASE y # NULL
      <4>1. y \in V /\ s.par[y] = x BY <3>2, TreeFacts
      <4>2. s.par[n] = p /\ (s.kid[p][Other(d)] # NULL => s.par[s.kid[p][Other(d)]] = p)
        BY <1>1, TreeFacts
      <4>3. y # n /\ y # s.kid[p][Other(d)] BY <3>2, <4>1, <4>2, <1>2
      <4> HIDE DEF y
      <4>4. h[y] = g[y] BY <2>3, <4>1, <4>3 DEF y, Agree
      <4> QED BY <4>4 DEF y
    <3> QED BY <3>1, <3>2
  <2> QED BY <2>1, <2>2, <2>3
<1>3. SeesSame(s, r, V, g, h, {n, p}, p, n) BY <1>2 DEF SeesSame
<1>4. \A x \in {n, p} : Level(r, h, x, Own(h, up, low, x)) BY DEF RotatedLevels
<1> QED BY <1>3, <1>4, OtherLevels

\* m comes above n and p.
TwiceLevels(s, u, r, V, h, up, low, n, m, p, d) ==
    /\ u.root = s.root /\ u.par = s.par /\ u.kid = s.kid /\ Twice(r, u, n, m, p, d)
    /\ \A x \in V : x # n /\ x # m /\ x # p => u.bal[x] = s.bal[x]
    /\ \A x \in {n, m, p} : Level(r, h, x, Own(h, up, low, x))
LEMMA TwiceHeights ==
  ASSUME NEW s, NEW u, NEW r, NEW V, NEW D, NEW M, Tree(s, V, D, M),
         NEW n \in V, NEW m \in V, NEW p \in V, NEW d \in Side, s.kid[p][d] = n, s.kid[n][Other(d)] = m,
         NEW g, NEW more, NEW less, Heights(s, V, g, more, less),
         NEW h, NEW up, NEW low,
         Agree(V, g, more, less, h, up, low, {n, m, p}, s.kid[p][Other(d)]), h[m] = g[p],
         TwiceLevels(s, u, r, V, h, up, low, n, m, p, d)
  PROVE  Heights(r, V, h, up, low)
<1>1. V \subseteq Node /\ NULL \notin Node /\ Other(d) \in Side BY TreeFacts, SideIs
<1>2. ASSUME NEW x \in V, x # n, x # m, x # p
      PROVE  /\ r.bal[x] = s.bal[x]
             /\ \A e \in Side :
                   /\ r.kid[x][e] = IF s.kid[x][e] = p THEN m ELSE s.kid[x][e]
                   /\ s.kid[x][e] # p => h[s.kid[x][e]] = g[s.kid[x][e]]
  <2>1. r.bal[x] = s.bal[x] BY <1>2 DEF TwiceLevels, Twice
  <2>2. ASSUME NEW e \in Side PROVE r.kid[x][e] = IF s.kid[x][e] = p THEN m ELSE s.kid[x][e]
    BY <1>1, <1>2 DEF TwiceLevels, Twice
  <2>3. ASSUME NEW e \in Side, s.kid[x][e] # p PROVE h[s.kid[x][e]] = g[s.kid[x][e]]
    <3> DEFINE y == s.kid[x][e]
    <3>1. CASE y = NULL BY <3>1 DEF Heights, Agree
    <3>2. CASE y # NULL
      <4>1. y \in V /\ s.par[y] = x BY <3>2, TreeFacts
      <4>2. /\ s.par[n] = p /\ (s.kid[p][Other(d)] # NULL => s.par[s.kid[p][Other(d)]] = p)
            /\ s.par[m] = n
        BY <1>1, TreeFacts
      <4>3. y # n /\ y # m /\ y # s.kid[p][Other(d)] BY <3>2, <4>1, <4>2, <1>2
      <4> HIDE DEF y
      <4>4. h[y] = g[y] BY <2>3, <4>1, <4>3 DEF y, Agree
      <4> QED BY <4>4 DEF y
    <3> QED BY <3>1, <3>2
  <2> QED BY <2>1, <2>2, <2>3
<1>3. SeesSame(s, r, V, g, h, {n, m, p}, p, m) BY <1>2 DEF SeesSame
<1>4. \A x \in {n, m, p} : Level(r, h, x, Own(h, up, low, x)) BY DEF TwiceLevels
<1> QED BY <1>3, <1>4, OtherLevels

\* The children of a node that is not rotated away keep their heights.
LEMMA KidHeight ==
  ASSUME NEW s, NEW V, NEW D, NEW M, Tree(s, V, D, M),
         NEW g, NEW more, NEW less, Heights(s, V, g, more, less),
         NEW h, NEW up, NEW low, NEW Z, NEW c, Agree(V, g, more, less, h, up, low, Z, c),
         NEW x \in V, NEW e \in Side, s.kid[x][e] \notin Z, s.kid[x][e] # c
  PROVE  h[s.kid[x][e]] = g[s.kid[x][e]]
<1>1. s.kid[x][e] \in V \union {NULL} BY TreeFacts
<1>2. h[NULL] = g[NULL] BY DEF Heights, Agree
<1> QED BY <1>1, <1>2 DEF Agree

\* Nodes around a child n of p and around its inner child.
LEMMA Around ==
  ASSUME NEW s, NEW V, NEW D, NEW M, Tree(s, V, D, M),
         NEW n \in V, NEW p \in V, NEW d \in Side, s.kid[p][d] = n
  PROVE  /\ n # p /\ s.par[n] = p /\ Other(d) \in Side /\ Other(d) # d
         /\ \A e \in Side : /\ s.kid[n][e] # p /\ s.kid[n][e] # n /\ s.kid[p][e] # p
                            /\ s.kid[n][e] # NULL => s.kid[n][e] # s.kid[p][Other(d)]
         /\ s.kid[p][Other(d)] # n
         /\ s.kid[n][d] # NULL => s.kid[n][d] # s.kid[n][Other(d)]
<1>1. /\ NULL \notin V /\ Other(d) \in Side /\ Other(d) # d BY TreeFacts, SideIs, NodeAssumption
<1>2. \A x \in V : D[x] \in Nat BY TreeFacts
<1>3. s.par[n] = p /\ D[p] < D[n] BY <1>1, TreeFacts
<1>4. n # p BY <1>2, <1>3
<1>5. ASSUME NEW e \in Side PROVE s.kid[n][e] # p /\ s.kid[n][e] # n /\ s.kid[p][e] # p
  <2>1. s.kid[n][e] # NULL => s.kid[n][e] \in V /\ D[n] < D[s.kid[n][e]] BY TreeFacts
  <2>2. s.kid[p][e] # NULL => s.kid[p][e] \in V /\ D[p] < D[s.kid[p][e]] BY TreeFacts
  <2> QED BY <2>1, <2>2, <1>1, <1>2, <1>3
<1>6. ASSUME NEW e \in Side, s.kid[n][e] # NULL PROVE s.kid[n][e] # s.kid[p][Other(d)]
  <2>1. s.par[s.kid[n][e]] = n BY <1>6, TreeFacts
  <2>2. s.kid[p][Other(d)] # NULL => s.par[s.kid[p][Other(d)]] = p BY <1>1, TreeFacts
  <2> QED BY <2>1, <2>2, <1>4, <1>6
<1>7. s.kid[p][Other(d)] # n
  <2>1. s.kid[p].left # NULL => s.kid[p].left # s.kid[p].right BY TreeFacts
  <2> QED BY <2>1, <1>1 DEF Side
<1>8. s.kid[n][d] # NULL => s.kid[n][d] # s.kid[n][Other(d)]
  <2>1. s.kid[n].left # NULL => s.kid[n].left # s.kid[n].right BY TreeFacts
  <2> QED BY <2>1, <1>1 DEF Side
<1> QED BY <1>1, <1>3, <1>4, <1>5, <1>6, <1>7, <1>8

\* A rotation that makes good a difference of two, whose outer grandchild is
\* the highest: both nodes become level.
LEMMA OnceLevels ==
  ASSUME NEW s \in Links, NEW V, NEW D, NEW M, Tree(s, V, D, M),
         NEW n \in V, NEW p \in V, NEW d \in Side, s.kid[p][d] = n,
         NEW g, NEW more, NEW less, Heights(s, V, g, more, less), NEW h, NEW up, NEW low,
         Agree(V, g, more, less, h, up, low, {n, p}, s.kid[p][Other(d)]),
         NEW k \in Nat, g[s.kid[n][Other(d)]] = k, g[s.kid[n][d]] = k + 1, h[s.kid[p][Other(d)]] = k,
         h[n] = g[p], h[p] = k + 1, Own(h, up, low, n) = k + 2, Own(h, up, low, p) = k + 1
  PROVE  LET r == RotateOnce(s, n, p, d)
         IN  /\ Rotated(r, [s EXCEPT !.bal[n] = "equal", !.bal[p] = "equal"], n, p, d)
             /\ Heights(r, V, h, up, low) /\ \E C, K : Tree(r, V, C, K)
<1> DEFINE o == Other(d)
           u == [s EXCEPT !.bal[n] = "equal", !.bal[p] = "equal"]
           r == RotateOnce(s, n, p, d)
<1>1. r = Rotate(u, n, p, d) BY Zenon DEF RotateOnce
<1>2. V \subseteq Node /\ NULL \notin Node /\ o \in Side /\ o # d BY TreeFacts, SideIs
<1>3. /\ u \in Links /\ u.root = s.root /\ u.par = s.par /\ u.kid = s.kid
      /\ u.bal[n] = "equal" /\ u.bal[p] = "equal"
      /\ \A x \in V : x # n /\ x # p => u.bal[x] = s.bal[x]
  BY <1>2 DEF Links, Bits
<1> HIDE DEF u, r
<1>4. Tree(u, V, D, M) BY <1>3, SameTree
<1>5. Rotated(r, u, n, p, d) BY <1>1, <1>3, <1>4, RotateIs
<1>6. \E C, K : Tree(r, V, C, K) BY <1>3, <1>4, <1>5, RotatedTree
<1>7. /\ n # p /\ s.kid[n][d] # p /\ s.kid[n][d] # n /\ s.kid[p][o] # p /\ s.kid[p][o] # n
      /\ s.kid[n][o] # p /\ s.kid[n][o] # n
      /\ (s.kid[n][o] # NULL => s.kid[n][o] # s.kid[p][o])
      /\ (s.kid[n][d] # NULL => s.kid[n][d] # s.kid[p][o])
  <2>1. /\ n # p /\ s.kid[p][o] # n
        /\ \A e \in Side : /\ s.kid[n][e] # p /\ s.kid[n][e] # n /\ s.kid[p][e] # p
                           /\ s.kid[n][e] # NULL => s.kid[n][e] # s.kid[p][o]
    BY Around
  <2>2. d \in Side /\ o \in Side BY <1>2
  <2> QED BY <2>1, <2>2
<1>8. /\ r.kid[p][d] = s.kid[n][o] /\ r.kid[n][o] = p
      /\ r.kid[n][d] = s.kid[n][d] /\ r.kid[p][o] = s.kid[p][o]
      /\ r.bal[n] = "equal" /\ r.bal[p] = "equal"
  BY <1>2, <1>3, <1>5, <1>7 DEF Rotated
<1>9. h[s.kid[n][o]] = k /\ h[s.kid[n][d]] = k + 1
  <2>1. h[NULL] = g[NULL] BY DEF Heights, Agree
  <2>2. h[s.kid[n][o]] = g[s.kid[n][o]]
    <3>1. CASE s.kid[n][o] = NULL BY <3>1, <2>1
    <3>2. CASE s.kid[n][o] # NULL
      <4>1. s.kid[n][o] \notin {n, p} /\ s.kid[n][o] # s.kid[p][o] BY <3>2, <1>7
      <4> QED BY <4>1, <1>2, KidHeight
    <3> QED BY <3>1, <3>2
  <2>3. h[s.kid[n][d]] = g[s.kid[n][d]]
    <3>1. CASE s.kid[n][d] = NULL BY <3>1, <2>1
    <3>2. CASE s.kid[n][d] # NULL
      <4>1. s.kid[n][d] \notin {n, p} /\ s.kid[n][d] # s.kid[p][o] BY <3>2, <1>7
      <4> QED BY <4>1, <1>2, KidHeight
    <3> QED BY <3>1, <3>2
  <2> QED BY <2>2, <2>3
<1>10. Level(r, h, n, Own(h, up, low, n))
  <2>1. r.bal[n] \in Bits /\ "equal" # d /\ "equal" # o BY <1>2, <1>8, SideIs DEF Bits
  <2>2. h[r.kid[n][d]] = k + 1 /\ h[r.kid[n][o]] = k + 1 BY <1>8, <1>9
  <2>3. h[r.kid[n][d]] = h[r.kid[n][o]] /\ Own(h, up, low, n) = h[r.kid[n][d]] + 1 BY <2>2
  <2> QED BY <2>1, <2>3, <1>8, LevelBy
<1>11. Level(r, h, p, Own(h, up, low, p))
  <2>1. r.bal[p] \in Bits /\ "equal" # d /\ "equal" # o BY <1>2, <1>8, SideIs DEF Bits
  <2>2. h[r.kid[p][d]] = k /\ h[r.kid[p][o]] = k BY <1>8, <1>9
  <2>3. h[r.kid[p][d]] = h[r.kid[p][o]] /\ Own(h, up, low, p) = h[r.kid[p][d]] + 1 BY <2>2
  <2> QED BY <2>1, <2>3, <1>8, LevelBy
<1>12. Heights(r, V, h, up, low)
  <2>1. \A x \in {n, p} : Level(r, h, x, Own(h, up, low, x)) BY <1>10, <1>11
  <2>2. RotatedLevels(s, u, r, V, h, up, low, n, p, d) BY <1>3, <1>5, <2>1 DEF RotatedLevels
  <2> QED BY <2>2, RotatedHeights
<1> QED BY <1>5, <1>6, <1>12 DEF r, u

\* The same when the inner grandchild is the highest: it comes above both.
LEMMA TwiceLevelled ==
  ASSUME NEW s \in Links, NEW V, NEW D, NEW M, Tree(s, V, D, M),
         NEW n \in V, NEW m \in V, NEW p \in V, NEW d \in Side, s.kid[p][d] = n, s.kid[n][Other(d)] = m,
         NEW g, NEW more, NEW less, Heights(s, V, g, more, less), NEW h, NEW up, NEW low,
         Agree(V, g, more, less, h, up, low, {n, m, p}, s.kid[p][Other(d)]),
         NEW k \in Nat, g[s.kid[n][d]] = k, Level(s, g, m, k + 1), h[s.kid[p][Other(d)]] = k,
         h[m] = g[p], h[n] = k + 1, h[p] = k + 1,
         Own(h, up, low, n) = k + 1, Own(h, up, low, p) = k + 1, Own(h, up, low, m) = k + 2
  PROVE  LET r == RotateTwice(s, n, p, d)
         IN  /\ \E b : Twice(r, [s EXCEPT !.bal = b], n, m, p, d)
             /\ Heights(r, V, h, up, low) /\ \E C, K : Tree(r, V, C, K)
<1> DEFINE o == Other(d)
           u == [s EXCEPT !.bal[n] = IF s.bal[m] = o THEN d ELSE "equal",
                          !.bal[p] = IF s.bal[m] = d THEN o ELSE "equal",
                          !.bal[m] = "equal"]
           r == RotateTwice(s, n, p, d)
<1>1. r = Rotate(Rotate(u, m, n, o), m, p, d) BY Zenon DEF RotateTwice
<1>2. V \subseteq Node /\ NULL \notin Node /\ o \in Side /\ o # d /\ Other(o) = d BY TreeFacts, SideIs
<1>3. n # p /\ m # n /\ m # p /\ s.par[m] = n /\ s.par[n] = p
  <2>1. \A x \in V : D[x] \in Nat BY TreeFacts
  <2>2. D[p] < D[n] /\ D[n] < D[m] /\ s.par[m] = n /\ s.par[n] = p BY <1>2, TreeFacts
  <2> QED BY <2>1, <2>2
<1>4. /\ u \in Links /\ u.root = s.root /\ u.par = s.par /\ u.kid = s.kid /\ u = [s EXCEPT !.bal = u.bal]
      /\ u.bal[n] = (IF s.bal[m] = o THEN d ELSE "equal")
      /\ u.bal[p] = (IF s.bal[m] = d THEN o ELSE "equal") /\ u.bal[m] = "equal"
      /\ \A x \in V : x # n /\ x # m /\ x # p => u.bal[x] = s.bal[x]
  BY <1>2, <1>3 DEF Links, Bits
<1> HIDE DEF u, r
<1>5. Tree(u, V, D, M) BY <1>4, SameTree
<1>6. Twice(r, u, n, m, p, d) /\ \E C, K : Tree(r, V, C, K) BY <1>1, <1>2, <1>4, <1>5, TwiceIs
<1>7. /\ r.kid[p][d] = s.kid[m][o] /\ r.kid[n][o] = s.kid[m][d] /\ r.kid[m][d] = n /\ r.kid[m][o] = p
      /\ r.bal = u.bal
  BY <1>2, <1>3, <1>4, <1>6 DEF Twice
<1>8. r.kid[n][d] = s.kid[n][d] /\ r.kid[p][o] = s.kid[p][o]
  <2>1. s.kid[n][d] # p /\ s.kid[p][o] # p BY <1>2, Around
  <2> QED BY <2>1, <1>2, <1>3, <1>4, <1>6 DEF Twice
<1>9. /\ s.bal[m] \in Bits
      /\ s.bal[m] = "equal" => g[s.kid[m][d]] = k /\ g[s.kid[m][o]] = k
      /\ s.bal[m] = d => g[s.kid[m][d]] = k /\ k = g[s.kid[m][o]] + 1
      /\ s.bal[m] = o => g[s.kid[m][o]] = k /\ k = g[s.kid[m][d]] + 1
  <2>1. s.bal[m] \in Bits BY <1>2 DEF Links
  <2>2. /\ s.bal[m] = "equal" => g[s.kid[m][d]] = g[s.kid[m][o]] /\ k + 1 = g[s.kid[m][d]] + 1
        /\ s.bal[m] = d => g[s.kid[m][d]] = g[s.kid[m][o]] + 1 /\ k + 1 = g[s.kid[m][d]] + 1
        /\ s.bal[m] = o => g[s.kid[m][o]] = g[s.kid[m][d]] + 1 /\ k + 1 = g[s.kid[m][o]] + 1
    BY <2>1, LevelBy
  <2>3. s.kid[m][d] \in V \union {NULL} /\ s.kid[m][o] \in V \union {NULL} BY <1>2, TreeFacts
  <2>4. g[s.kid[m][d]] \in Nat /\ g[s.kid[m][o]] \in Nat BY <2>3 DEF Heights
  <2> QED BY <2>1, <2>2, <2>4
<1>10. ASSUME NEW x \in {n, m}, NEW e \in Side, s.kid[x][e] # m PROVE h[s.kid[x][e]] = g[s.kid[x][e]]
  <2>1. CASE s.kid[x][e] = NULL BY <2>1 DEF Heights, Agree
  <2>2. CASE s.kid[x][e] # NULL
    <3>1. s.par[s.kid[x][e]] = x BY <2>2, TreeFacts
    <3>2. s.kid[p][o] # NULL => s.par[s.kid[p][o]] = p BY <1>2, TreeFacts
    <3>3. s.par[p] # n /\ s.par[p] # m
      <4>1. \A y \in V : D[y] \in Nat BY TreeFacts
      <4>2. D[p] < D[n] /\ D[n] < D[m] BY <1>2, TreeFacts
      <4>3. s.par[p] # NULL => D[s.par[p]] < D[p] BY TreeFacts
      <4> QED BY <4>1, <4>2, <4>3, <1>2
    <3>4. s.kid[x][e] \notin {n, m, p} /\ s.kid[x][e] # s.kid[p][o] BY <2>2, <3>1, <3>2, <3>3, <1>3, <1>10
    <3> QED BY <3>4, <1>2, KidHeight
  <2> QED BY <2>1, <2>2
<1>11. /\ h[s.kid[n][d]] = k /\ h[s.kid[m][d]] = g[s.kid[m][d]] /\ h[s.kid[m][o]] = g[s.kid[m][o]]
  <2>1. s.kid[n][d] # m
    <3>1. s.kid[n].left # NULL => s.kid[n].left # s.kid[n].right BY TreeFacts
    <3> QED BY <3>1, <1>2 DEF Side
  <2>2. s.kid[m][d] # m /\ s.kid[m][o] # m BY <1>2, Around
  <2> QED BY <2>1, <2>2, <1>2, <1>10
<1>12. "equal" # d /\ "equal" # o BY <1>2, SideIs
<1>13. Level(r, h, n, Own(h, up, low, n))
  <2>1. r.bal[n] \in Bits BY <1>2, <1>4, <1>7 DEF Links
  <2>2. h[r.kid[n][d]] = k /\ h[r.kid[n][o]] = g[s.kid[m][d]] BY <1>7, <1>8, <1>11
  <2>3. CASE s.bal[m] = o
    <3>1. r.bal[n] = d /\ h[r.kid[n][d]] = h[r.kid[n][o]] + 1 /\ Own(h, up, low, n) = h[r.kid[n][d]] + 1
      BY <2>2, <2>3, <1>4, <1>7, <1>9
    <3> QED BY <2>1, <3>1, <1>2, <1>12, LevelBy
  <2>4. CASE s.bal[m] # o
    <3>1. r.bal[n] = "equal" /\ h[r.kid[n][d]] = h[r.kid[n][o]] /\ Own(h, up, low, n) = h[r.kid[n][d]] + 1
      BY <2>2, <2>4, <1>2, <1>4, <1>7, <1>9, SideIs DEF Bits
    <3> QED BY <2>1, <3>1, <1>2, <1>12, LevelBy
  <2> QED BY <2>3, <2>4
<1>14. Level(r, h, p, Own(h, up, low, p))
  <2>1. r.bal[p] \in Bits BY <1>2, <1>4, <1>7 DEF Links
  <2>2. h[r.kid[p][d]] = g[s.kid[m][o]] /\ h[r.kid[p][o]] = k BY <1>7, <1>8, <1>11
  <2>3. CASE s.bal[m] = d
    <3>1. r.bal[p] = o /\ h[r.kid[p][o]] = h[r.kid[p][d]] + 1 /\ Own(h, up, low, p) = h[r.kid[p][o]] + 1
      BY <2>2, <2>3, <1>4, <1>7, <1>9
    <3> QED BY <2>1, <3>1, <1>2, <1>12, LevelBy
  <2>4. CASE s.bal[m] # d
    <3>1. r.bal[p] = "equal" /\ h[r.kid[p][d]] = h[r.kid[p][o]] /\ Own(h, up, low, p) = h[r.kid[p][d]] + 1
      BY <2>2, <2>4, <1>2, <1>4, <1>7, <1>9, SideIs DEF Bits
    <3> QED BY <2>1, <3>1, <1>2, <1>12, LevelBy
  <2> QED BY <2>3, <2>4
<1>15. Level(r, h, m, Own(h, up, low, m))
  <2>1. r.bal[m] = "equal" /\ r.bal[m] \in Bits BY <1>4, <1>7 DEF Bits
  <2>2. h[r.kid[m][d]] = h[r.kid[m][o]] /\ Own(h, up, low, m) = h[r.kid[m][d]] + 1 BY <1>7
  <2> QED BY <2>1, <2>2, <1>2, <1>12, LevelBy
<1>16. Heights(r, V, h, up, low)
  <2>1. \A x \in {n, m, p} : Level(r, h, x, Own(h, up, low, x)) BY <1>13, <1>14, <1>15
  <2>2. TwiceLevels(s, u, r, V, h, up, low, n, m, p, d) BY <1>4, <1>6, <2>1 DEF TwiceLevels
  <2> QED BY <2>2, TwiceHeights
<1>17. Twice(r, [s EXCEPT !.bal = u.bal], n, m, p, d) BY <1>4, <1>6
<1> QED BY <1>6, <1>16, <1>17 DEF r

\* The rotation of a level child: the subtree keeps its height (case 3a).
LEMMA LeanLevels ==
  ASSUME NEW s \in Links, NEW V, NEW D, NEW M, Tree(s, V, D, M),
         NEW n \in V, NEW p \in V, NEW d \in Side, s.kid[p][d] = n, s.bal[p] = d,
         NEW g, NEW more, NEW less, Heights(s, V, g, more, less), NEW h, NEW up, NEW low,
         Agree(V, g, more, less, h, up, low, {n, p}, s.kid[p][Other(d)]),
         NEW k \in Nat, g[s.kid[n][Other(d)]] = k + 1, g[s.kid[n][d]] = k + 1, h[s.kid[p][Other(d)]] = k,
         h[n] = g[p], h[p] = k + 2, Own(h, up, low, n) = k + 3, Own(h, up, low, p) = k + 2
  PROVE  LET u == [s EXCEPT !.bal[n] = Other(d)]
             r == Rotate(u, n, p, d)
         IN  Rotated(r, u, n, p, d) /\ Heights(r, V, h, up, low) /\ \E C, K : Tree(r, V, C, K)
<1> DEFINE o == Other(d)
           u == [s EXCEPT !.bal[n] = o]
           r == Rotate(u, n, p, d)
<1>2. V \subseteq Node /\ NULL \notin Node /\ o \in Side /\ o # d /\ n # p BY TreeFacts, SideIs, Around
<1>3. /\ u \in Links /\ u.root = s.root /\ u.par = s.par /\ u.kid = s.kid
      /\ u.bal[n] = o /\ u.bal[p] = d
      /\ \A x \in V : x # n /\ x # p => u.bal[x] = s.bal[x]
  BY <1>2 DEF Links, Bits
<1> HIDE DEF u
<1>4. Tree(u, V, D, M) BY <1>3, SameTree
<1>5. Rotated(r, u, n, p, d) BY <1>3, <1>4, RotateIs
<1> HIDE DEF r
<1>6. \E C, K : Tree(r, V, C, K) BY <1>3, <1>4, <1>5, RotatedTree
<1>7. /\ s.kid[p][o] # n
      /\ \A e \in Side : /\ s.kid[n][e] # p /\ s.kid[n][e] # n /\ s.kid[p][e] # p
                         /\ s.kid[n][e] # NULL => s.kid[n][e] # s.kid[p][o]
  BY Around
<1>8. /\ r.kid[p][d] = s.kid[n][o] /\ r.kid[n][o] = p
      /\ r.kid[n][d] = s.kid[n][d] /\ r.kid[p][o] = s.kid[p][o]
      /\ r.bal[n] = o /\ r.bal[p] = d
  BY <1>2, <1>3, <1>5, <1>7 DEF Rotated
<1>9. h[s.kid[n][o]] = k + 1 /\ h[s.kid[n][d]] = k + 1
  <2>1. ASSUME NEW e \in Side PROVE h[s.kid[n][e]] = g[s.kid[n][e]]
    <3>1. CASE s.kid[n][e] = NULL BY <3>1 DEF Heights, Agree
    <3>2. CASE s.kid[n][e] # NULL
      <4>1. s.kid[n][e] \notin {n, p} /\ s.kid[n][e] # s.kid[p][o] BY <3>2, <1>7
      <4> QED BY <4>1, <1>2, KidHeight
    <3> QED BY <3>1, <3>2
  <2> QED BY <2>1, <1>2
<1>10. Level(r, h, n, Own(h, up, low, n))
  <2>1. r.bal[n] \in Bits /\ r.bal[n] # "equal" /\ r.bal[n] # d BY <1>2, <1>8, SideIs DEF Bits
  <2>2. h[r.kid[n][d]] = k + 1 /\ h[r.kid[n][o]] = k + 2 BY <1>8, <1>9
  <2>3. h[r.kid[n][o]] = h[r.kid[n][d]] + 1 /\ Own(h, up, low, n) = h[r.kid[n][o]] + 1 BY <2>2
  <2> QED BY <2>1, <2>3, <1>8, LevelBy
<1>11. Level(r, h, p, Own(h, up, low, p))
  <2>1. r.bal[p] \in Bits /\ r.bal[p] # "equal" /\ r.bal[p] # o BY <1>2, <1>8, SideIs DEF Bits
  <2>2. h[r.kid[p][d]] = k + 1 /\ h[r.kid[p][o]] = k BY <1>8, <1>9
  <2>3. h[r.kid[p][d]] = h[r.kid[p][o]] + 1 /\ Own(h, up, low, p) = h[r.kid[p][d]] + 1 BY <2>2
  <2> QED BY <2>1, <2>3, <1>8, LevelBy
<1>12. Heights(r, V, h, up, low)
  <2>1. \A x \in {n, p} : Level(r, h, x, Own(h, up, low, x)) BY <1>10, <1>11
  <2>2. RotatedLevels(s, u, r, V, h, up, low, n, p, d) BY <1>3, <1>5, <2>1 DEF RotatedLevels
  <2> QED BY <2>2, RotatedHeights
<1> QED BY <1>5, <1>6, <1>12 DEF r, u

\* Where only the bits of p change, and the height of its child c.
LEMMA Retilted ==
  ASSUME NEW s \in Links, NEW V, NEW D, NEW M, Tree(s, V, D, M),
         NEW p \in V, NEW d \in Side, NEW b \in Bits,
         NEW g, NEW more, NEW less, Heights(s, V, g, more, less), NEW h, NEW up, NEW low,
         Agree(V, g, more, less, h, up, low, {p}, s.kid[p][d]), h[p] = g[p],
         Level([s EXCEPT !.bal[p] = b], h, p, Own(h, up, low, p))
  PROVE  LET r == [s EXCEPT !.bal[p] = b]
         IN  r \in Links /\ Heights(r, V, h, up, low) /\ Tree(r, V, D, M)
<1> DEFINE r == [s EXCEPT !.bal[p] = b]
<1>1. V \subseteq Node /\ NULL \notin Node BY TreeFacts
<1>2. /\ r \in Links /\ r.root = s.root /\ r.par = s.par /\ r.kid = s.kid
      /\ \A x \in V : x # p => r.bal[x] = s.bal[x]
  BY <1>1 DEF Links
<1> HIDE DEF r
<1>3. ASSUME NEW x \in V \ {p}
      PROVE  /\ r.bal[x] = s.bal[x]
             /\ \A e \in Side : /\ r.kid[x][e] = IF s.kid[x][e] = p THEN p ELSE s.kid[x][e]
                                /\ s.kid[x][e] # p => h[s.kid[x][e]] = g[s.kid[x][e]]
  <2>1. ASSUME NEW e \in Side, s.kid[x][e] # p PROVE h[s.kid[x][e]] = g[s.kid[x][e]]
    <3>1. CASE s.kid[x][e] = NULL BY <3>1 DEF Heights, Agree
    <3>2. CASE s.kid[x][e] # NULL
      <4>1. s.par[s.kid[x][e]] = x BY <3>2, TreeFacts
      <4>2. s.kid[p][d] # NULL => s.par[s.kid[p][d]] = p BY TreeFacts
      <4>3. s.kid[x][e] \notin {p} /\ s.kid[x][e] # s.kid[p][d] BY <2>1, <3>2, <4>1, <4>2
      <4> QED BY <4>3, KidHeight
    <3> QED BY <3>1, <3>2
  <2> QED BY <2>1, <1>2
<1>4. SeesSame(s, r, V, g, h, {p}, p, p) BY <1>3 DEF SeesSame
<1>5. \A x \in {p} : Level(r, h, x, Own(h, up, low, x)) BY DEF r
<1>6. Heights(r, V, h, up, low) BY <1>4, <1>5, OtherLevels
<1>7. Tree(r, V, D, M) BY <1>2, SameTree
<1> QED BY <1>2, <1>6, <1>7 DEF r

----------------------------------------------------------------------------
\* While an erasure climbs.  U is the way down from node to real.
Leads(s, V, U, n, r) ==
    /\ U \subseteq V /\ n \in U /\ r \in U
    /\ \A x \in U : x = n \/ s.par[x] \in U

\* C is the way down from the left child of v, to the right as far as it goes.
Chain(s, V, C, v, r) ==
    /\ v \in V /\ C \subseteq V /\ s.kid[v].left \in C /\ r \in C /\ s.kid[r].right = NULL
    /\ \A y \in C : /\ y = r \/ s.kid[y].right \in C
                    /\ y = s.kid[v].left \/ (s.par[y] \in C /\ s.kid[s.par[y]].right = y)

LEMMA ChainExists ==
  ASSUME NEW s, NEW V, NEW D, NEW M, Tree(s, V, D, M), NEW v \in V, s.kid[v].left # NULL
  PROVE  LET r == Deepest(s, s.kid[v].left, "right")
         IN  r \in V /\ \E C : Chain(s, V, C, v, r)
<1> DEFINE e == Ends(s, "right")
           P(x, C) == /\ C \subseteq V /\ x \in C /\ e[x] \in C /\ s.kid[e[x]].right = NULL
                      /\ \A y \in C : /\ y = e[x] \/ s.kid[y].right \in C
                                      /\ y = x \/ (s.par[y] \in C /\ s.kid[s.par[y]].right = y)
           T == {x \in V : \E C : P(x, C)}
<1>1. V \subseteq Node /\ NULL \notin V /\ "right" \in Side /\ "left" \in Side
  BY TreeFacts, SideIs, NodeAssumption
<1>2. Ranked(s, V, D, M) BY DEF Tree
<1>3. /\ \A x \in V : e[x] = IF s.kid[x].right = NULL THEN x ELSE e[s.kid[x].right]
      /\ \A x : Deepest(s, x, "right") = e[x]
  BY <1>1, <1>2, EndsAre
<1> HIDE DEF e
<1>4. ASSUME NEW x \in V, s.kid[x].left \in T \union {NULL}, s.kid[x].right \in T \union {NULL} PROVE x \in T
  <2>1. CASE s.kid[x].right = NULL
    <3>1. e[x] = x BY <2>1, <1>3
    <3>2. P(x, {x}) BY <2>1, <3>1
    <3> QED BY <3>2
  <2>2. CASE s.kid[x].right # NULL
    <3> DEFINE k == s.kid[x].right
    <3>1. PICK C : P(k, C) BY <2>2, <1>4
    <3>2. e[x] = e[k] /\ s.par[k] = x BY <2>2, <1>1, <1>3, TreeFacts
    <3>3. P(x, C \union {x}) BY <3>1, <3>2
    <3> QED BY <3>3
  <2> QED BY <2>1, <2>2
<1> HIDE DEF T
<1>5. V \subseteq T BY <1>2, <1>4, FromLeaves
<1>6. s.kid[v].left \in V BY <1>1, TreeFacts
<1>7. PICK C : P(s.kid[v].left, C) BY <1>5, <1>6 DEF T
<1>8. Chain(s, V, C, v, e[s.kid[v].left]) BY <1>7 DEF Chain
<1> QED BY <1>3, <1>7, <1>8

LEMMA ChainEnds ==
  ASSUME NEW s, NEW V, NEW D, NEW M, Tree(s, V, D, M), NEW C, NEW v, NEW r, Chain(s, V, C, v, r)
  PROVE  /\ s.kid[v].left # NULL /\ Deepest(s, s.kid[v].left, "right") = r
         /\ v \in V /\ r \in V /\ s.kid[r].right = NULL
<1> DEFINE e == Ends(s, "right")
           T == {y \in V : y \in C => e[y] = r}
<1>1. V \subseteq Node /\ NULL \notin V /\ "right" \in Side BY TreeFacts, SideIs, NodeAssumption
<1>2. Ranked(s, V, D, M) BY DEF Tree
<1>3. /\ \A x \in V : e[x] = IF s.kid[x].right = NULL THEN x ELSE e[s.kid[x].right]
      /\ \A x : Deepest(s, x, "right") = e[x]
  BY <1>1, <1>2, EndsAre
<1> HIDE DEF e
<1>4. ASSUME NEW x \in V, s.kid[x].left \in T \union {NULL}, s.kid[x].right \in T \union {NULL} PROVE x \in T
  <2> SUFFICES ASSUME x \in C PROVE e[x] = r OBVIOUS
  <2>1. CASE x = r BY <2>1, <1>3 DEF Chain
  <2>2. CASE x # r
    <3>1. s.kid[x].right \in C /\ s.kid[x].right # NULL BY <2>2, <1>1 DEF Chain
    <3>2. e[s.kid[x].right] = r BY <3>1, <1>4
    <3> QED BY <3>1, <3>2, <1>3
  <2> QED BY <2>1, <2>2
<1> HIDE DEF T
<1>5. V \subseteq T BY <1>2, <1>4, FromLeaves
<1> QED BY <1>1, <1>3, <1>5 DEF Chain, T

\* The chain lies below v, and all of it on the way when that begins at its top.
LEMMA ChainLow ==
  ASSUME NEW s, NEW V, NEW D, NEW M, Tree(s, V, D, M), NEW C, NEW v, NEW r, Chain(s, V, C, v, r)
  PROVE  /\ \A y \in C : D[s.kid[v].left] <= D[y] /\ D[v] < D[y]
         /\ \A U : Leads(s, V, U, s.kid[v].left, r) => C \subseteq U
<1> DEFINE l == s.kid[v].left
<1>1. NULL \notin V /\ D \in [V -> 0 .. M] /\ M \in Nat BY TreeFacts, NodeAssumption
<1>2. \A x \in V : D[x] \in Nat BY <1>1
<1>3. v \in V /\ C \subseteq V /\ l \in C /\ l # NULL BY <1>1 DEF Chain
<1>4. \A y \in C : y = l \/ s.par[y] \in C BY DEF Chain
<1> HIDE DEF l
<1>5. \A y \in C : D[l] <= D[y] BY <1>3, <1>4, TopRank
<1>6. D[v] < D[l] BY <1>3, TreeFacts, SideIs DEF l
<1>7. \A y \in C : D[v] < D[y] BY <1>2, <1>3, <1>5, <1>6
<1>8. ASSUME NEW U, Leads(s, V, U, l, r) PROVE C \subseteq U
  <2> DEFINE T == {y \in V : y \in C => y \in U}
  <2>1. ASSUME NEW x \in V, s.kid[x].left \in T \union {NULL}, s.kid[x].right \in T \union {NULL} PROVE x \in T
    <3> SUFFICES ASSUME x \in C PROVE x \in U OBVIOUS
    <3>1. CASE x = r BY <3>1, <1>8 DEF Leads
    <3>2. CASE x # r
      <4> DEFINE k == s.kid[x].right
      <4>1. k \in C /\ k # NULL BY <3>2, <1>1, <1>3 DEF Chain
      <4>2. k \in U /\ s.par[k] = x /\ D[x] < D[k] BY <4>1, <2>1, <1>3, TreeFacts, SideIs
      <4>3. k # l
        <5>1. D[l] <= D[x] BY <1>5
        <5> QED BY <5>1, <4>2, <1>2, <1>3
      <4> QED BY <4>2, <4>3, <1>8 DEF Leads
    <3> QED BY <3>1, <3>2
  <2> HIDE DEF T
  <2>2. Ranked(s, V, D, M) BY DEF Tree
  <2>3. V \subseteq T BY <2>1, <2>2, FromLeaves
  <2> QED BY <2>3, <1>3 DEF T
<1> QED BY <1>5, <1>7, <1>8 DEF l

----------------------------------------------------------------------------
\* r is s with z above p: z and the nodes between, W, were below p on side d.
Lifted(r, s, V, p, d, z, W) ==
    /\ W \subseteq V /\ p \in W /\ z \in W \ {p} /\ d \in Side /\ s.kid[p][Other(d)] \notin W
    /\ \A x \in W \ {p} : s.par[x] \in W
    /\ \A x \in V \ W : /\ r.par[x] = s.par[x] \/ (s.par[x] \in W \ {p} /\ r.par[x] \in W)
                        /\ \A e \in Side : r.kid[x][e] = IF s.kid[x][e] = p THEN z ELSE s.kid[x][e]
    /\ r.par[z] = s.par[p] /\ r.par[p] = z
    /\ r.kid[p][Other(d)] = s.kid[p][Other(d)] /\ r.kid[z][Other(d)] = p

LEMMA LiftedOnce ==
  ASSUME NEW s, NEW r, NEW V, NEW D, NEW M, Tree(s, V, D, M),
         NEW n \in V, NEW p \in V, NEW d \in Side, s.kid[p][d] = n, NEW b, Rotated(r, [s EXCEPT !.bal = b], n, p, d), s \in Links
  PROVE  Lifted(r, s, V, p, d, n, {n, p})
<1> DEFINE u == [s EXCEPT !.bal = b]
<1>1. u.root = s.root /\ u.par = s.par /\ u.kid = s.kid BY DEF Links
<1> HIDE DEF u
<1>2. Rotated(r, u, n, p, d) BY DEF u
<1>3. V \subseteq Node /\ NULL \notin V /\ Other(d) \in Side /\ Other(d) # d BY TreeFacts, NodeAssumption, SideIs
<1>4. n # p /\ s.par[n] = p /\ s.kid[p][Other(d)] # n /\ s.kid[p][Other(d)] # p /\ s.kid[n][Other(d)] # p
  <2>1. /\ n # p /\ s.par[n] = p /\ s.kid[p][Other(d)] # n
        /\ \A e \in Side : s.kid[n][e] # p /\ s.kid[p][e] # p
    BY Around
  <2> QED BY <2>1, <1>3
<1>5. s.kid[n][Other(d)] # NULL => s.par[s.kid[n][Other(d)]] = n BY <1>3, TreeFacts
<1>6. s.kid[n][Other(d)] # n /\ s.par[p] # n
  <2>1. \A x \in V : D[x] \in Nat BY TreeFacts
  <2>2. D[p] < D[n] /\ (s.par[p] # NULL => D[s.par[p]] < D[p]) BY <1>3, TreeFacts
  <2> QED BY <2>1, <2>2, <1>3, <1>4, <1>5
<1>7. ASSUME NEW x \in V \ {n, p}
      PROVE  /\ r.par[x] = s.par[x] \/ (s.par[x] \in {n, p} \ {p} /\ r.par[x] \in {n, p})
             /\ \A e \in Side : r.kid[x][e] = IF s.kid[x][e] = p THEN n ELSE s.kid[x][e]
  BY <1>1, <1>2, <1>3, <1>5 DEF Rotated
<1>8. r.par[n] = s.par[p] /\ r.par[p] = n BY <1>1, <1>2, <1>3, <1>4 DEF Rotated
<1>9. r.kid[p][Other(d)] = s.kid[p][Other(d)] /\ r.kid[n][Other(d)] = p
  BY <1>1, <1>2, <1>3, <1>4 DEF Rotated
<1> QED BY <1>3, <1>4, <1>7, <1>8, <1>9 DEF Lifted

LEMMA LiftedTwice ==
  ASSUME NEW s, NEW r, NEW V, NEW D, NEW M, Tree(s, V, D, M),
         NEW n \in V, NEW m \in V, NEW p \in V, NEW d \in Side, s.kid[p][d] = n, s.kid[n][Other(d)] = m,
         NEW b, Twice(r, [s EXCEPT !.bal = b], n, m, p, d), s \in Links
  PROVE  Lifted(r, s, V, p, d, m, {n, m, p})
<1> DEFINE u == [s EXCEPT !.bal = b]
<1>1. u.root = s.root /\ u.par = s.par /\ u.kid = s.kid BY DEF Links
<1> HIDE DEF u
<1>2. Twice(r, u, n, m, p, d) BY DEF u
<1>3. V \subseteq Node /\ NULL \notin V /\ Other(d) \in Side /\ Other(d) # d BY TreeFacts, NodeAssumption, SideIs
<1>4. n # p /\ s.par[n] = p /\ s.kid[p][Other(d)] # n /\ s.kid[p][Other(d)] # p
  <2>1. /\ n # p /\ s.par[n] = p /\ s.kid[p][Other(d)] # n
        /\ \A e \in Side : s.kid[n][e] # p /\ s.kid[p][e] # p
    BY Around
  <2> QED BY <2>1, <1>3
<1>5. s.par[m] = n /\ m # n /\ m # p /\ s.kid[p][Other(d)] # m
  <2>1. \A x \in V : D[x] \in Nat BY TreeFacts
  <2>2. D[p] < D[n] /\ D[n] < D[m] /\ s.par[m] = n BY <1>3, TreeFacts
  <2>3. s.kid[p][Other(d)] # NULL => s.par[s.kid[p][Other(d)]] = p BY <1>3, TreeFacts
  <2> QED BY <2>1, <2>2, <2>3, <1>3, <1>4
<1>6. /\ s.kid[m][Other(d)] # NULL => s.par[s.kid[m][Other(d)]] = m
      /\ s.kid[m][d] # NULL => s.par[s.kid[m][d]] = m
  BY <1>3, TreeFacts
<1>7. ASSUME NEW x \in V \ {n, m, p}
      PROVE  /\ r.par[x] = s.par[x] \/ (s.par[x] \in {n, m, p} \ {p} /\ r.par[x] \in {n, m, p})
             /\ \A e \in Side : r.kid[x][e] = IF s.kid[x][e] = p THEN m ELSE s.kid[x][e]
  BY <1>1, <1>2, <1>3, <1>5, <1>6 DEF Twice
<1>8. r.par[m] = s.par[p] /\ r.par[p] = m BY <1>1, <1>2, <1>3, <1>4, <1>5 DEF Twice
<1>9. r.kid[p][Other(d)] = s.kid[p][Other(d)] /\ r.kid[m][Other(d)] = p
  BY <1>1, <1>2, <1>3, <1>4, <1>5 DEF Twice
<1> QED BY <1>3, <1>4, <1>5, <1>7, <1>8, <1>9 DEF Lifted

\* The node to unlink: a node with a free side that is the victim or comes
\* before it.  While the erasure climbs the way to it is below the victim or
\* goes by it.
Pending(s, V, r, v) ==
    /\ r \in V /\ v \in V /\ \E e \in Side : s.kid[r][e] = NULL
    /\ r = v \/ \E C : Chain(s, V, C, v, r)
Path(s, V, U, n, r, v) ==
    /\ Leads(s, V, U, n, r) /\ Pending(s, V, r, v)
    /\ r = v \/ \E C : Chain(s, V, C, v, r) /\ ((C \subseteq U /\ v \in U) \/ U \subseteq C)

LEMMA Apart ==
  ASSUME NEW s, NEW V, NEW D, NEW M, Tree(s, V, D, M),
         NEW r, NEW p, NEW d, NEW z, NEW W, Lifted(r, s, V, p, d, z, W),
         NEW U, NEW x, Leads(s, V, U, s.kid[p][Other(d)], x)
  PROVE  U \intersect W = {} /\ \A w \in W : D[p] <= D[w]
<1> DEFINE n == s.kid[p][Other(d)]
           T == {y \in V : y \in W => y \notin U}
<1>1. /\ W \subseteq V /\ p \in W /\ n \notin W /\ d \in Side /\ U \subseteq V /\ n \in U
      /\ \A y \in W \ {p} : s.par[y] \in W
      /\ \A y \in U : y = n \/ s.par[y] \in U
  BY DEF Lifted, Leads
<1>2. NULL \notin V /\ (\A y \in V : D[y] \in Nat) /\ Other(d) \in Side BY <1>1, TreeFacts, NodeAssumption, SideIs
<1>3. D[p] < D[n] BY <1>1, <1>2, TreeFacts
<1> HIDE DEF n
<1>4. \A y \in U : D[n] <= D[y] BY <1>1, TopRank
<1>5. \A y \in W : D[p] <= D[y] BY <1>1, TopRank
<1>6. p \notin U BY <1>1, <1>2, <1>3, <1>4
<1>7. ASSUME NEW y \in V, s.par[y] \in T \union {NULL} PROVE y \in T
  <2> SUFFICES ASSUME y \in W, y \in U PROVE FALSE OBVIOUS
  <2>1. y # p /\ y # n BY <1>1, <1>6
  <2>2. s.par[y] \in W /\ s.par[y] \in U BY <2>1, <1>1
  <2> QED BY <2>2, <1>1, <1>2, <1>7
<1> HIDE DEF T
<1>8. V \subseteq T BY <1>7, FromRoot
<1> QED BY <1>1, <1>5, <1>8 DEF T

\* The cursor of an erasure climbs: nothing is rotated ...
LEMMA ClimbPath ==
  ASSUME NEW s, NEW V, NEW D, NEW M, Tree(s, V, D, M),
         NEW U, NEW n, NEW r, NEW v, Path(s, V, U, n, r, v), s.par[n] # NULL,
         NEW q, q.par = s.par, q.kid = s.kid
  PROVE  Path(q, V, U \union {s.par[n]}, s.par[n], r, v)
<1> DEFINE p == s.par[n]
<1>1. n \in V /\ p \in V BY TreeFacts DEF Path, Leads
<1>2. Leads(q, V, U \union {p}, p, r) BY <1>1 DEF Path, Leads
<1>3. Pending(q, V, r, v) BY DEF Path, Pending, Chain
<1>4. CASE r = v BY <1>2, <1>3, <1>4 DEF Path
<1>5. CASE r # v
  <2>1. PICK C : Chain(s, V, C, v, r) /\ ((C \subseteq U /\ v \in U) \/ U \subseteq C)
    BY <1>5 DEF Path
  <2>2. Chain(q, V, C, v, r) BY <2>1 DEF Chain
  <2>3. CASE C \subseteq U /\ v \in U BY <2>2, <2>3, <1>2, <1>3 DEF Path
  <2>4. CASE U \subseteq C /\ n = s.kid[v].left
    <3>1. C \subseteq U BY <2>1, <2>4, ChainLow DEF Path
    <3>2. p = v
      <4>1. v \in V /\ "left" \in Side /\ n # NULL BY <2>1, <1>1, NodeAssumption, TreeFacts, SideIs DEF Chain
      <4> QED BY <4>1, <2>4, TreeFacts
    <3> QED BY <2>2, <3>1, <3>2, <1>2, <1>3 DEF Path
  <2>5. CASE U \subseteq C /\ n # s.kid[v].left
    <3>1. p \in C BY <2>1, <2>5 DEF Chain, Path, Leads
    <3> QED BY <2>2, <2>5, <3>1, <1>2, <1>3 DEF Path
  <2> QED BY <2>1, <2>3, <2>4, <2>5
<1> QED BY <1>4, <1>5

\* ... or its sibling comes above its parent.
LEMMA LiftPath ==
  ASSUME NEW s, NEW V, NEW D, NEW M, Tree(s, V, D, M),
         NEW q, NEW p, NEW d, NEW z, NEW W, Lifted(q, s, V, p, d, z, W),
         NEW U, NEW n, NEW r, NEW v, Path(s, V, U, n, r, v), s.kid[p][Other(d)] = n
  PROVE  Path(q, V, U \union {p, z}, z, r, v)
<1> DEFINE o == Other(d)
           X == U \union {p, z}
           l == s.kid[v].left
<1>1. /\ W \subseteq V /\ p \in W /\ z \in W \ {p} /\ d \in Side /\ n \notin W
      /\ \A x \in W \ {p} : s.par[x] \in W
      /\ \A x \in V \ W : /\ q.par[x] = s.par[x] \/ (s.par[x] \in W \ {p} /\ q.par[x] \in W)
                          /\ \A e \in Side : q.kid[x][e] = IF s.kid[x][e] = p THEN z ELSE s.kid[x][e]
      /\ q.par[z] = s.par[p] /\ q.par[p] = z /\ q.kid[p][o] = n /\ q.kid[z][o] = p
  BY DEF Lifted
<1>2. /\ U \subseteq V /\ n \in U /\ r \in U /\ n \in V /\ r \in V
      /\ \A x \in U : x = n \/ s.par[x] \in U
  BY DEF Path, Leads
<1>3. NULL \notin V /\ (\A y \in V : D[y] \in Nat) /\ o \in Side /\ o # d BY <1>1, TreeFacts, NodeAssumption, SideIs
<1>4. s.par[n] = p /\ D[p] < D[n] BY <1>1, <1>2, <1>3, TreeFacts
<1>5. U \intersect W = {} /\ \A w \in W : D[p] <= D[w] BY Apart DEF Path
<1>6. Leads(q, V, X, z, r)
  <2>1. ASSUME NEW x \in X, x # z PROVE q.par[x] \in X
    <3>1. CASE x = p BY <3>1, <1>1
    <3>2. CASE x \in U /\ x = n
      <4>1. q.par[n] = p BY <3>2, <1>1, <1>2, <1>4
      <4> QED BY <3>2, <4>1
    <3>3. CASE x \in U /\ x # n
      <4>1. s.par[x] \in U /\ x \in V \ W BY <3>3, <1>2, <1>5
      <4>2. q.par[x] = s.par[x] BY <4>1, <1>1, <1>5
      <4> QED BY <4>1, <4>2
    <3> QED BY <2>1, <3>1, <3>2, <3>3
  <2> QED BY <2>1, <1>1, <1>2 DEF Leads
<1>7. ASSUME NEW e \in Side, s.kid[r][e] = NULL PROVE q.kid[r][e] = NULL
  <2>1. r \in V \ W BY <1>2, <1>5
  <2> QED BY <2>1, <1>1, <1>3, <1>7
<1>8. CASE r = v
  <2>1. Pending(q, V, r, v) BY <1>2, <1>7, <1>8 DEF Path, Pending
  <2> QED BY <2>1, <1>6, <1>8 DEF Path
<1>9. CASE r # v
  <2>1. PICK C : Chain(s, V, C, v, r) /\ ((C \subseteq U /\ v \in U) \/ U \subseteq C)
    BY <1>9 DEF Path
  <2>2. /\ v \in V /\ C \subseteq V /\ l \in C /\ r \in C /\ s.kid[r].right = NULL
        /\ \A y \in C : /\ y = r \/ s.kid[y].right \in C
                        /\ y = l \/ (s.par[y] \in C /\ s.kid[s.par[y]].right = y)
    BY <2>1 DEF Chain
  <2>3. /\ \A y \in C : D[l] <= D[y] /\ D[v] < D[y]
        /\ n = l => C \subseteq U
    BY <2>1, ChainLow DEF Path
  <2>4. "left" \in Side /\ "right" \in Side BY SideIs
  <2>5. q.kid[r].right = NULL BY <2>2, <2>4, <1>7
  <2>6. ASSUME C \subseteq U, q.kid[v].left = l PROVE Chain(q, V, C, v, r)
    <3>1. ASSUME NEW y \in C PROVE y = r \/ q.kid[y].right \in C
      <4> SUFFICES ASSUME y # r PROVE q.kid[y].right \in C OBVIOUS
      <4>1. s.kid[y].right \in C /\ y \in V \ W /\ s.kid[y].right # p BY <2>2, <2>6, <1>1, <1>5
      <4>2. q.kid[y].right = s.kid[y].right BY <4>1, <1>1, <2>4
      <4> QED BY <4>1, <4>2
    <3>2. ASSUME NEW y \in C, y # l PROVE q.par[y] \in C /\ q.kid[q.par[y]].right = y
      <4> DEFINE b == s.par[y]
      <4>1. b \in C /\ s.kid[b].right = y BY <3>2, <2>2
      <4>2. y \in V \ W /\ b \in V \ W BY <4>1, <2>2, <2>6, <1>5
      <4>3. q.par[y] = b BY <4>2, <1>1
      <4>4. y # p BY <4>2, <1>1
      <4>5. q.kid[b].right = y BY <4>1, <4>2, <4>4, <1>1, <2>4
      <4> QED BY <4>1, <4>3, <4>5
    <3> QED BY <3>1, <3>2, <2>2, <2>5, <2>6 DEF Chain
  <2>7. CASE C \subseteq U /\ v \in U
    <3>1. v \in V \ W /\ l # p BY <2>2, <2>7, <1>1, <1>5
    <3>2. q.kid[v].left = l BY <3>1, <1>1, <2>4
    <3>3. Chain(q, V, C, v, r) BY <3>2, <2>6, <2>7
    <3>4. Pending(q, V, r, v) BY <3>3, <2>2, <2>4, <2>5 DEF Pending
    <3> QED BY <3>3, <3>4, <2>7, <1>6 DEF Path
  <2>8. CASE U \subseteq C /\ n = l
    <3>1. v = p
      <4>1. s.par[l] = v BY <2>2, <2>4, <1>3, TreeFacts
      <4> QED BY <4>1, <2>8, <1>4
    <3>2. o = "left"
      <4>1. s.kid[p].left # NULL => s.kid[p].left # s.kid[p].right BY <1>1, TreeFacts
      <4>2. s.kid[p].left = n /\ s.kid[p][o] = n /\ n # NULL BY <3>1, <2>8, <1>2, <1>3
      <4> QED BY <4>1, <4>2, <1>3 DEF Side
    <3>3. q.kid[v].left = l BY <3>1, <3>2, <2>8, <1>1
    <3>4. C \subseteq U BY <2>3, <2>8
    <3>5. Chain(q, V, C, v, r) BY <3>3, <3>4, <2>6
    <3>6. Pending(q, V, r, v) BY <3>5, <2>2, <2>4, <2>5 DEF Pending
    <3> QED BY <3>1, <3>4, <3>5, <3>6, <1>6 DEF Path
  <2>9. CASE U \subseteq C /\ n # l
    <3> DEFINE B == C \union {z}
    <3>1. p \in C /\ s.kid[p].right = n BY <2>2, <2>9, <1>2, <1>4
    <3>2. o = "right"
      <4>1. s.kid[p].left # NULL => s.kid[p].left # s.kid[p].right BY <1>1, TreeFacts
      <4>2. s.kid[p].right = n /\ s.kid[p][o] = n /\ n # NULL BY <3>1, <1>2, <1>3
      <4> QED BY <4>1, <4>2, <1>3 DEF Side
    <3>3. v \notin W
      <4>1. D[v] < D[p] BY <3>1, <2>3
      <4> QED BY <4>1, <1>1, <1>3, <1>5, <2>2
    <3>4. ASSUME NEW w \in W \ {p} PROVE w \notin C
      <4> DEFINE T == {x \in V : x \in W \ {p} => x \notin C}
      <4>1. ASSUME NEW x \in V, s.par[x] \in T \union {NULL} PROVE x \in T
        <5> SUFFICES ASSUME x \in W \ {p}, x \in C PROVE FALSE OBVIOUS
        <5>1. s.par[x] \in W /\ s.par[x] \in V BY <1>1
        <5>2. x # l
          <6>1. D[s.par[x]] < D[x] BY <5>1, <1>3, TreeFacts
          <6>2. D[p] <= D[s.par[x]] /\ D[l] <= D[p] BY <5>1, <1>5, <2>3, <3>1
          <6>3. D[l] \in Nat /\ D[p] \in Nat /\ D[x] \in Nat /\ D[s.par[x]] \in Nat BY <5>1, <1>1, <1>3, <2>2
          <6> QED BY <6>1, <6>2, <6>3
        <5>3. s.par[x] \in C /\ s.kid[s.par[x]].right = x BY <5>2, <2>2
        <5>4. s.par[x] # p BY <5>3, <3>1, <1>1
        <5> QED BY <5>1, <5>3, <5>4, <4>1, <1>3
      <4> HIDE DEF T
      <4>2. V \subseteq T BY <4>1, FromRoot
      <4> QED BY <4>2, <1>1 DEF T
    <3>5. q.kid[v].left = IF l = p THEN z ELSE l BY <2>2, <2>4, <3>3, <1>1
    <3>6. ASSUME NEW y \in B PROVE y = r \/ q.kid[y].right \in B
      <4>1. CASE y = z BY <4>1, <3>1, <3>2, <1>1
      <4>2. CASE y = p BY <4>2, <3>1, <3>2, <1>1, <2>9, <1>2
      <4>3. CASE y \in C \ {p, z}
        <5>1. y \in V \ W BY <4>3, <3>4, <2>2
        <5> SUFFICES ASSUME y # r PROVE q.kid[y].right \in B OBVIOUS
        <5>2. s.kid[y].right \in C BY <4>3, <2>2
        <5> QED BY <5>1, <5>2, <1>1, <2>4
      <4> QED BY <4>1, <4>2, <4>3
    <3>7. ASSUME NEW y \in B PROVE y = q.kid[v].left \/ (q.par[y] \in B /\ q.kid[q.par[y]].right = y)
      <4>1. CASE y = z
        <5>1. CASE p = l BY <4>1, <5>1, <3>5
        <5>2. CASE p # l
          <6> DEFINE b == s.par[p]
          <6>1. b \in C /\ s.kid[b].right = p BY <5>2, <3>1, <2>2
          <6>2. D[b] < D[p]
            <7>1. b # NULL BY <6>1, <2>2, <1>3
            <7> QED BY <7>1, <1>1, TreeFacts
          <6>3. b \in V \ W BY <6>1, <6>2, <2>2, <1>1, <1>3, <1>5
          <6>4. q.kid[b].right = z BY <6>1, <6>3, <1>1, <2>4
          <6> QED BY <4>1, <6>1, <6>4, <1>1
        <5> QED BY <5>1, <5>2
      <4>2. CASE y = p BY <4>2, <3>2, <1>1
      <4>3. CASE y \in C \ {p, z}
        <5>1. y \in V \ W BY <4>3, <3>4, <2>2
        <5>2. CASE y = l BY <4>3, <5>2, <3>5
        <5>3. CASE y # l
          <6> DEFINE b == s.par[y]
          <6>1. b \in C /\ s.kid[b].right = y BY <4>3, <5>3, <2>2
          <6>2. CASE b = p
            <7>1. y = n BY <6>1, <6>2, <3>1
            <7>2. q.par[y] = p BY <5>1, <6>2, <1>1
            <7> QED BY <7>1, <7>2, <3>1, <3>2, <1>1
          <6>3. CASE b # p
            <7>1. b \in V \ W BY <6>1, <6>3, <3>4, <2>2
            <7>2. q.par[y] = b BY <5>1, <7>1, <1>1
            <7>3. q.kid[b].right = y BY <6>1, <7>1, <4>3, <1>1, <2>4
            <7> QED BY <6>1, <7>2, <7>3
          <6> QED BY <6>2, <6>3
        <5> QED BY <5>2, <5>3
      <4> QED BY <4>1, <4>2, <4>3
    <3>8. q.kid[v].left \in B BY <3>5, <2>2
    <3>9. B \subseteq V BY <2>2, <1>1
    <3> HIDE DEF B
    <3>10. Chain(q, V, B, v, r) BY <2>2, <2>5, <3>6, <3>7, <3>8, <3>9 DEF Chain, B
    <3>11. Pending(q, V, r, v) BY <3>10, <2>2, <2>4, <2>5, <1>2 DEF Pending
    <3>12. X \subseteq B BY <2>9, <3>1 DEF B
    <3> QED BY <3>10, <3>11, <3>12, <1>6 DEF Path
  <2> QED BY <2>1, <2>7, <2>8, <2>9
<1> QED BY <1>8, <1>9

----------------------------------------------------------------------------
LEMMA LevelSame ==
  ASSUME NEW s, NEW r, NEW g, NEW h, NEW x, NEW y, NEW k, Level(s, g, x, k),
         r.bal[y] = s.bal[x], \A e \in Side : h[r.kid[y][e]] = g[s.kid[x][e]]
  PROVE  Level(r, h, y, k)
<1>1. CASE s.bal[x] = "equal" /\ g[s.kid[x].left] = g[s.kid[x].right] /\ k = g[s.kid[x].left] + 1
  BY <1>1, SideIs DEF Level
<1>2. CASE \E e \in Side : /\ s.bal[x] = e /\ g[s.kid[x][e]] = g[s.kid[x][Other(e)]] + 1
                           /\ k = g[s.kid[x][e]] + 1
  <2>1. PICK e \in Side : /\ s.bal[x] = e /\ g[s.kid[x][e]] = g[s.kid[x][Other(e)]] + 1
                          /\ k = g[s.kid[x][e]] + 1
    BY <1>2
  <2>2. h[r.kid[y][e]] = g[s.kid[x][e]] /\ h[r.kid[y][Other(e)]] = g[s.kid[x][Other(e)]] BY SideIs
  <2> QED BY <2>1, <2>2 DEF Level
<1> QED BY <1>1, <1>2 DEF Level

\* r is s without x, whose only child c takes its place.
Spliced(r, s, x, c) ==
    /\ r \in Links /\ r.root = IF s.root = x THEN c ELSE s.root
    /\ \A y \in Node :
          /\ r.par[y] = IF y = x THEN x ELSE IF y = c THEN s.par[x] ELSE s.par[y]
          /\ r.bal[y] = IF y = x THEN "equal" ELSE s.bal[y]
          /\ \A e \in Side : r.kid[y][e] = IF y = x THEN NULL
                                           ELSE IF s.kid[y][e] = x THEN c ELSE s.kid[y][e]

LEMMA ForgetIs ==
  ASSUME NEW s \in Links, NEW x \in Node
  PROVE  LET r == Forget(s, x)
         IN  /\ r \in Links /\ r.root = s.root
             /\ \A y \in Node : /\ r.par[y] = IF y = x THEN x ELSE s.par[y]
                                /\ r.bal[y] = IF y = x THEN "equal" ELSE s.bal[y]
                                /\ \A e \in Side : r.kid[y][e] = IF y = x THEN NULL ELSE s.kid[y][e]
<1> DEFINE r == Forget(s, x)
<1>1. r = [[s EXCEPT !.par[x] = x, !.kid[x] = NoKids] EXCEPT !.bal[x] = "equal"] BY DEF Forget, ClearLinks
<1>2. NoKids \in [Side -> Node \union {NULL}] /\ \A e \in Side : NoKids[e] = NULL BY DEF NoKids
<1> HIDE DEF r
<1>3. /\ r \in Links /\ r.root = s.root
      /\ r.par = [s.par EXCEPT ![x] = x] /\ r.bal = [s.bal EXCEPT ![x] = "equal"]
      /\ r.kid = [s.kid EXCEPT ![x] = NoKids]
  BY <1>1, <1>2 DEF Links, Bits
<1>4. /\ s.par \in [Node -> Node \union {NULL}] /\ s.bal \in [Node -> Bits]
      /\ s.kid \in [Node -> [Side -> Node \union {NULL}]]
  BY DEF Links
<1> QED BY <1>2, <1>3, <1>4 DEF r

LEMMA SpliceIs ==
  ASSUME NEW s \in Links, NEW V, NEW D, NEW M, Tree(s, V, D, M), NEW x \in V,
         NEW d \in Side, s.kid[x][d] = NULL, NEW c, c = s.kid[x][Other(d)]
  PROVE  LET u == SetParentOf(ChangeChild(s, x, c, s.par[x]), c, s.par[x])
         IN  u \in Links /\ Spliced(Forget(u, x), s, x, c)
<1> DEFINE p == s.par[x]
           a == ChangeChild(s, x, c, p)
           u == SetParentOf(a, c, p)
           f == IF s.kid[p].left = x THEN "left" ELSE "right"
<1>1. /\ V \subseteq Node /\ NULL \notin Node /\ x \in Node /\ p \in Node \union {NULL}
      /\ c \in Node \union {NULL} /\ f \in Side
  <2>1. p \in V \union {NULL} /\ c \in V \union {NULL} /\ V \subseteq Node /\ NULL \notin Node BY TreeFacts, SideIs
  <2>2. f \in Side BY SideIs
  <2> QED BY <2>1, <2>2
<1>2. p # NULL => s.kid[p][f] = x /\ \A y \in Node, e \in Side : s.kid[y][e] = x <=> y = p /\ e = f
  BY ChildSide
<1>3. p = NULL => /\ s.root = x
                  /\ \A y \in Node, e \in Side : s.kid[y][e] # x
  <2>1. ASSUME NEW y \in Node, NEW e \in Side, s.kid[y][e] = x PROVE p = y
    <3>1. y \in V BY <2>1, <1>1, TreeFacts
    <3> QED BY <2>1, <3>1, <1>1, TreeFacts
  <2> QED BY <2>1, <1>1, TreeFacts
<1>4. p # NULL => s.root # x BY <1>1, TreeFacts
<1> HIDE DEF f, p
<1>5. ChildSet(a, s, c, p, f) BY <1>1, ChangeChildIs DEF f
<1> HIDE DEF a
<1>6. a \in Links BY <1>5 DEF ChildSet
<1>7. ParentSet(u, a, c, p) BY <1>1, <1>6, SetParentIs
<1> HIDE DEF u
<1>8. /\ u \in Links /\ u.root = (IF s.root = x THEN c ELSE s.root)
      /\ \A y \in Node : /\ u.par[y] = IF y = c THEN p ELSE s.par[y]
                         /\ u.bal[y] = s.bal[y]
                         /\ \A e \in Side : u.kid[y][e] = IF s.kid[y][e] = x THEN c ELSE s.kid[y][e]
  BY <1>1, <1>2, <1>3, <1>4, <1>5, <1>7 DEF ChildSet, ParentSet
<1>9. Spliced(Forget(u, x), s, x, c)
  <2> DEFINE r == Forget(u, x)
  <2>1. /\ r \in Links /\ r.root = u.root
        /\ \A y \in Node : /\ r.par[y] = IF y = x THEN x ELSE u.par[y]
                           /\ r.bal[y] = IF y = x THEN "equal" ELSE u.bal[y]
                           /\ \A e \in Side : r.kid[y][e] = IF y = x THEN NULL ELSE u.kid[y][e]
    BY <1>1, <1>8, ForgetIs
  <2> HIDE DEF r
  <2>2. Spliced(r, s, x, c) BY <2>1, <1>8 DEF Spliced, p
  <2> QED BY <2>2 DEF r
<1> QED BY <1>8, <1>9 DEF u, a, p

LEMMA SplicedTree ==
  ASSUME NEW s, NEW r, NEW V, NEW D, NEW M, Tree(s, V, D, M), NEW x \in V,
         NEW d \in Side, s.kid[x][d] = NULL, Spliced(r, s, x, s.kid[x][Other(d)])
  PROVE  Tree(r, V \ {x}, [y \in V \ {x} |-> D[y]], M)
<1> DEFINE c == s.kid[x][Other(d)]
           p == s.par[x]
           W == V \ {x}
           C == [y \in W |-> D[y]]
<1>1. /\ V \subseteq Node /\ NULL \notin Node /\ M \in Nat /\ D \in [V -> 0 .. M] /\ Other(d) \in Side
      /\ (\A e \in Side : e = d \/ e = Other(d))
      /\ s.root \in V \union {NULL} /\ (s.root # NULL => s.par[s.root] = NULL)
  BY TreeFacts, SideIs
<1>2. \A y \in V, e \in Side :
         /\ s.kid[y][e] \in V \union {NULL}
         /\ s.kid[y][e] # NULL => s.par[s.kid[y][e]] = y /\ D[y] < D[s.kid[y][e]]
  BY TreeFacts
<1>3. \A y \in V : /\ s.par[y] \in V \union {NULL}
                   /\ s.par[y] = NULL => y = s.root
                   /\ s.par[y] # NULL => D[s.par[y]] < D[y] /\ \E e \in Side : s.kid[s.par[y]][e] = y
                   /\ s.kid[y].left # NULL => s.kid[y].left # s.kid[y].right
  BY TreeFacts
<1>4. \A y \in V : D[y] \in 0 .. M /\ D[y] \in Nat BY <1>1
<1>5. \A y \in Node \ V : s.par[y] = y /\ \A e \in Side : s.kid[y][e] = NULL BY TreeFacts
<1>6. /\ c \in V \union {NULL} /\ c # x /\ p # x /\ (c # NULL => s.par[c] = x /\ D[x] < D[c] /\ p # c)
      /\ p \in V \union {NULL} /\ (p # NULL => D[p] < D[x])
  <2>1. c \in V \union {NULL} /\ (c # NULL => s.par[c] = x /\ D[x] < D[c]) BY <1>1, <1>2
  <2>2. p \in V \union {NULL} /\ (p # NULL => D[p] < D[x]) BY <1>3
  <2> HIDE DEF c, p
  <2>3. c # x /\ p # x BY <2>1, <2>2, <1>1, <1>4
  <2>4. c # NULL => p # c BY <2>1, <2>2, <1>1, <1>4
  <2> QED BY <2>1, <2>2, <2>3, <2>4
<1> HIDE DEF c, p
<1>7. /\ r.root = IF s.root = x THEN c ELSE s.root
      /\ \A y \in Node : r.par[y] = IF y = x THEN x ELSE IF y = c THEN p ELSE s.par[y]
      /\ \A y \in Node, e \in Side : r.kid[y][e] = IF y = x THEN NULL
                                                   ELSE IF s.kid[y][e] = x THEN c ELSE s.kid[y][e]
  BY DEF Spliced, c, p
<1>8. C \in [W -> 0 .. M] /\ \A y \in W : C[y] = D[y] BY <1>1
<1> HIDE DEF C
<1>9. ASSUME NEW y \in W, NEW e \in Side
      PROVE  /\ r.kid[y][e] \in W \union {NULL}
             /\ r.kid[y][e] # NULL => r.par[r.kid[y][e]] = y /\ C[y] < C[r.kid[y][e]]
  <2>0. y \in Node BY <1>1
  <2>1. CASE s.kid[y][e] = x
    <3>1. r.kid[y][e] = c /\ y = p BY <2>1, <2>0, <1>1, <1>2, <1>7 DEF p
    <3>2. c # NULL => C[y] < C[c]
      <4>1. c # NULL => D[y] < D[x] /\ D[x] < D[c] /\ C[c] = D[c] BY <3>1, <1>1, <1>6, <1>8
      <4> QED BY <4>1, <1>4, <1>6, <1>8
    <3>3. c # NULL => r.par[c] = y BY <3>1, <1>1, <1>6, <1>7
    <3> QED BY <3>1, <3>2, <3>3, <1>6
  <2>2. CASE s.kid[y][e] # x
    <3> DEFINE k == s.kid[y][e]
    <3>1. r.kid[y][e] = k /\ k \in W \union {NULL} BY <2>2, <2>0, <1>2, <1>7
    <3>2. k # NULL => s.par[k] = y /\ D[y] < D[k] /\ k \in W BY <3>1, <1>2
    <3> HIDE DEF k
    <3>3. k # NULL => r.par[k] = y BY <3>2, <1>1, <1>6, <1>7
    <3> QED BY <3>1, <3>2, <3>3, <1>8
  <2> QED BY <2>1, <2>2
<1>10. \A y \in Node \ W : r.par[y] = y /\ \A e \in Side : r.kid[y][e] = NULL
  BY <1>1, <1>5, <1>6, <1>7
<1>11. ASSUME NEW y \in W
       PROVE  /\ r.par[y] \in W \union {NULL}
              /\ r.par[y] = NULL => y = r.root
              /\ r.par[y] # NULL => \E e \in Side : r.kid[r.par[y]][e] = y
  <2>0. y \in Node /\ x \in Node /\ y # NULL BY <1>1
  <2>1. CASE y = c
    <3>1. r.par[y] = p /\ p \in W \union {NULL} BY <2>1, <2>0, <1>6, <1>7
    <3>2. p = NULL => r.root = c BY <1>3, <1>7 DEF p
    <3>3. p # NULL => \E e \in Side : r.kid[p][e] = c
      <4> SUFFICES ASSUME p # NULL PROVE \E e \in Side : r.kid[p][e] = c OBVIOUS
      <4>1. PICK e \in Side : s.kid[p][e] = x BY <1>3 DEF p
      <4>2. r.kid[p][e] = c BY <4>1, <1>1, <1>6, <1>7
      <4> QED BY <4>2
    <3> QED BY <2>1, <3>1, <3>2, <3>3
  <2>2. CASE y # c
    <3>1. r.par[y] = s.par[y] BY <2>2, <2>0, <1>7
    <3>2. s.par[y] # x
      <4> SUFFICES ASSUME s.par[y] = x PROVE FALSE OBVIOUS
      <4>1. PICK e \in Side : s.kid[x][e] = y BY <2>0, <1>1, <1>3
      <4> QED BY <4>1, <2>0, <2>2, <1>1 DEF c
    <3>3. s.par[y] = NULL => y = r.root BY <1>3, <1>7
    <3>4. s.par[y] # NULL => \E e \in Side : r.kid[s.par[y]][e] = y
      <4> SUFFICES ASSUME s.par[y] # NULL PROVE \E e \in Side : r.kid[s.par[y]][e] = y OBVIOUS
      <4>1. PICK e \in Side : s.kid[s.par[y]][e] = y BY <1>3
      <4>2. s.par[y] \in V BY <1>3
      <4>3. r.kid[s.par[y]][e] = y BY <4>1, <4>2, <3>2, <1>1, <1>7
      <4> QED BY <4>3
    <3> QED BY <3>1, <3>2, <3>3, <3>4, <1>3
  <2> QED BY <2>1, <2>2
<1>12. ASSUME NEW y \in W, r.kid[y].left # NULL PROVE r.kid[y].left # r.kid[y].right
  <2>1. /\ r.kid[y].left = (IF s.kid[y].left = x THEN c ELSE s.kid[y].left)
        /\ r.kid[y].right = (IF s.kid[y].right = x THEN c ELSE s.kid[y].right)
    BY <1>1, <1>7, SideIs
  <2>2. s.kid[y].left # NULL => s.kid[y].left # s.kid[y].right BY <1>3
  <2>3. c # NULL => s.kid[y].left # c /\ s.kid[y].right # c BY <1>2, <1>6, SideIs
  <2>4. x # NULL BY <1>1
  <2> QED BY <1>12, <2>1, <2>2, <2>3, <2>4
<1>13. /\ r.root \in W \union {NULL} /\ (r.root # NULL => r.par[r.root] = NULL)
  <2>1. CASE s.root = x
    <3>1. p = NULL /\ r.root = c BY <2>1, <1>1, <1>7 DEF p
    <3> QED BY <3>1, <1>1, <1>6, <1>7
  <2>2. CASE s.root # x
    <3>1. r.root = s.root BY <2>2, <1>7
    <3>2. s.root # NULL => s.root # c BY <1>1, <1>6
    <3> QED BY <3>1, <3>2, <2>2, <1>1, <1>7
  <2> QED BY <2>1, <2>2
<1>14. Ranked(r, W, C, M) BY <1>1, <1>8, <1>9, <1>10 DEF Ranked
<1>15. Tree(r, W, C, M) BY <1>9, <1>10, <1>11, <1>12, <1>13, <1>14 DEF Tree
<1> QED BY <1>15 DEF C

LEMMA SplicedHeights ==
  ASSUME NEW s, NEW r, NEW V, NEW D, NEW M, Tree(s, V, D, M), NEW x \in V,
         NEW d \in Side, s.kid[x][d] = NULL, Spliced(r, s, x, s.kid[x][Other(d)]), s \in Links,
         NEW g, Heights(s, V, g, {x}, {})
  PROVE  \E h : Heights(r, V \ {x}, h, {}, {})
<1> DEFINE c == s.kid[x][Other(d)]
           h == [y \in (V \ {x}) \union {NULL} |-> g[y]]
<1>1. V \subseteq Node /\ NULL \notin Node /\ Other(d) \in Side /\ c \in V \union {NULL} BY TreeFacts, SideIs
<1>2. g \in [V \union {NULL} -> Nat] /\ g[NULL] = 0 /\ Level(s, g, x, Own(g, {x}, {}, x)) BY DEF Heights
<1>3. g[c] = g[x]
  <2>1. s.bal[x] \in Bits BY <1>1 DEF Links
  <2>2. Own(g, {x}, {}, x) = g[x] + 1 /\ g[x] \in Nat /\ g[c] \in Nat BY <1>1, <1>2 DEF Own
  <2>3. Level(s, g, x, g[x] + 1) BY <2>2, <1>2
  <2>4. g[s.kid[x][d]] = 0 BY <1>2
  <2> HIDE DEF c
  <2>5. /\ s.bal[x] = "equal" => 0 = g[c] /\ g[x] + 1 = 1
        /\ s.bal[x] = d => 0 = g[c] + 1
        /\ s.bal[x] = Other(d) => g[c] = 1 /\ g[x] + 1 = g[c] + 1
    BY <2>1, <2>3, <2>4, LevelBy DEF c
  <2>6. s.bal[x] = "equal" \/ s.bal[x] = d \/ s.bal[x] = Other(d) BY <2>1, SideIs DEF Bits
  <2> QED BY <2>2, <2>5, <2>6
<1>4. c # x
  <2>1. c # NULL => D[x] < D[c] BY <1>1, TreeFacts
  <2>2. \A y \in V : D[y] \in Nat BY TreeFacts
  <2> QED BY <2>1, <2>2, <1>1
<1> HIDE DEF c
<1>5. h \in [(V \ {x}) \union {NULL} -> Nat] /\ h[NULL] = 0 /\ \A y \in (V \ {x}) \union {NULL} : h[y] = g[y]
  BY <1>1, <1>2
<1> HIDE DEF h
<1>6. ASSUME NEW y \in V \ {x} PROVE Level(r, h, y, Own(h, {}, {}, y))
  <2>1. Own(h, {}, {}, y) = Own(g, {x}, {}, y) BY <1>5 DEF Own
  <2>2. r.bal[y] = s.bal[y] BY <1>1 DEF Spliced
  <2>3. ASSUME NEW e \in Side PROVE h[r.kid[y][e]] = g[s.kid[y][e]]
    <3>1. r.kid[y][e] = IF s.kid[y][e] = x THEN c ELSE s.kid[y][e] BY <1>1 DEF Spliced, c
    <3>2. s.kid[y][e] \in V \union {NULL} BY TreeFacts
    <3> QED BY <3>1, <3>2, <1>1, <1>3, <1>4, <1>5
  <2>4. Level(s, g, y, Own(g, {x}, {}, y)) BY DEF Heights
  <2> QED BY <2>1, <2>2, <2>3, <2>4, LevelSame
<1> QED BY <1>5, <1>6 DEF Heights

\* r is s with n, that was in no tree, where v was.
Replaced(r, s, v, n) ==
    /\ r \in Links /\ r.root = IF s.root = v THEN n ELSE s.root
    /\ \A y \in Node :
          /\ r.par[y] = IF y = v THEN v ELSE IF y = n THEN s.par[v]
                        ELSE IF s.par[y] = v THEN n ELSE s.par[y]
          /\ r.bal[y] = IF y = v THEN "equal" ELSE IF y = n THEN s.bal[v] ELSE s.bal[y]
          /\ \A e \in Side : r.kid[y][e] = IF y = v THEN NULL ELSE IF y = n THEN s.kid[v][e]
                                           ELSE IF s.kid[y][e] = v THEN n ELSE s.kid[y][e]

LEMMA ReplaceIs ==
  ASSUME NEW s \in Links, NEW V, NEW D, NEW M, Tree(s, V, D, M), NEW v \in V, NEW n \in Node \ V
  PROVE  Replaced(Forget(Replace(s, v, n), v), s, v, n)
<1> DEFINE p == s.par[v]
           f == IF s.kid[p].left = v THEN "left" ELSE "right"
           a == [s EXCEPT !.par[n] = s.par[v], !.kid[n] = s.kid[v], !.bal[n] = s.bal[v]]
           c == ChangeChild(a, v, n, p)
           i == SetParentOf(c, c.kid[n].left, n)
           r == SetParentOf(i, c.kid[n].right, n)
<1>1. /\ V \subseteq Node /\ NULL \notin Node /\ v \in Node /\ n \in Node /\ n # v
      /\ p \in V \union {NULL} /\ p # n /\ p # v /\ f \in Side
  <2>1. p \in V \union {NULL} /\ V \subseteq Node /\ NULL \notin Node /\ f \in Side BY TreeFacts, SideIs
  <2>2. p # v
    <3>1. p # NULL => D[p] < D[v] BY TreeFacts
    <3>2. \A y \in V : D[y] \in Nat BY TreeFacts
    <3> QED BY <2>1, <3>1, <3>2
  <2> HIDE DEF p, f
  <2> QED BY <2>1, <2>2
<1>2. p # NULL => s.kid[p][f] = v /\ \A y \in Node, e \in Side : s.kid[y][e] = v <=> y = p /\ e = f
  BY ChildSide
<1>3. p = NULL => /\ s.root = v
                  /\ \A y \in Node, e \in Side : s.kid[y][e] # v
  <2>1. ASSUME NEW y \in Node, NEW e \in Side, s.kid[y][e] = v PROVE p = y
    <3>1. y \in V BY <2>1, <1>1, TreeFacts
    <3> QED BY <2>1, <3>1, <1>1, TreeFacts
  <2> QED BY <2>1, <1>1, TreeFacts
<1>4. p # NULL => s.root # v BY <1>1, TreeFacts
<1>5. \A y \in Node : s.par[y] = v <=> y # NULL /\ (y = s.kid[v].left \/ y = s.kid[v].right)
  <2>1. ASSUME NEW y \in Node, s.par[y] = v PROVE y = s.kid[v].left \/ y = s.kid[v].right
    <3>1. y \in V \/ y = v BY <2>1, TreeFacts
    <3>2. y \in V BY <3>1
    <3>3. PICK e \in Side : s.kid[s.par[y]][e] = y BY <2>1, <3>2, <1>1, TreeFacts
    <3> QED BY <2>1, <3>3 DEF Side
  <2>2. \A e \in Side : s.kid[v][e] # NULL => s.par[s.kid[v][e]] = v BY TreeFacts
  <2> QED BY <2>1, <2>2, <1>1, SideIs
<1>6. \A e \in Side : s.kid[v][e] # v /\ s.kid[v][e] # n
  <2>1. ASSUME NEW e \in Side PROVE s.kid[v][e] \in V \union {NULL} /\ (s.kid[v][e] # NULL => D[v] < D[s.kid[v][e]])
    BY TreeFacts
  <2>2. \A y \in V : D[y] \in Nat BY TreeFacts
  <2> QED BY <2>1, <2>2, <1>1
<1> HIDE DEF f, p
<1>7. /\ a \in Links /\ a.root = s.root
      /\ a.par = [s.par EXCEPT ![n] = p] /\ a.bal = [s.bal EXCEPT ![n] = s.bal[v]]
      /\ a.kid = [s.kid EXCEPT ![n] = s.kid[v]]
  BY <1>1 DEF Links, p
<1> HIDE DEF a
<1>8. /\ s.par \in [Node -> Node \union {NULL}] /\ s.bal \in [Node -> Bits]
      /\ s.kid \in [Node -> [Side -> Node \union {NULL}]]
  BY DEF Links
<1>9. p # NULL => f = IF a.kid[p].left = v THEN "left" ELSE "right"
  BY <1>1, <1>7, <1>8 DEF f
<1>10. ChildSet(c, a, n, p, f) BY <1>1, <1>7, <1>9, ChangeChildIs
<1> HIDE DEF c
<1>11. /\ c \in Links /\ c.root = (IF p = NULL THEN n ELSE s.root)
       /\ \A y \in Node : /\ c.par[y] = IF y = n THEN p ELSE s.par[y]
                          /\ c.bal[y] = IF y = n THEN s.bal[v] ELSE s.bal[y]
                          /\ \A e \in Side : c.kid[y][e] = IF y = n THEN s.kid[v][e]
                                                           ELSE IF y = p /\ e = f THEN n ELSE s.kid[y][e]
  BY <1>1, <1>7, <1>8, <1>10 DEF ChildSet
<1>12. c.kid[n].left = s.kid[v].left /\ c.kid[n].right = s.kid[v].right BY <1>1, <1>11, SideIs
<1>13. s.kid[v].left \in Node \union {NULL} /\ s.kid[v].right \in Node \union {NULL} BY <1>1, <1>8, SideIs
<1>14. ParentSet(i, c, s.kid[v].left, n) BY <1>1, <1>11, <1>12, <1>13, SetParentIs
<1> HIDE DEF i
<1>15. i \in Links BY <1>14 DEF ParentSet
<1>16. ParentSet(r, i, s.kid[v].right, n) BY <1>1, <1>12, <1>13, <1>15, SetParentIs
<1>17. Replace(s, v, n) = r BY Zenon DEF Replace, r, i, c, a, p
<1> HIDE DEF r
<1>18. /\ r \in Links /\ r.root = c.root
       /\ \A y \in Node : /\ r.par[y] = IF y = s.kid[v].right THEN n
                                        ELSE IF y = s.kid[v].left THEN n ELSE c.par[y]
                          /\ r.bal[y] = c.bal[y]
                          /\ \A e \in Side : r.kid[y][e] = c.kid[y][e]
  BY <1>14, <1>16 DEF ParentSet
<1> DEFINE z == Forget(r, v)
<1>19. /\ z \in Links /\ z.root = r.root
       /\ \A y \in Node : /\ z.par[y] = IF y = v THEN v ELSE r.par[y]
                          /\ z.bal[y] = IF y = v THEN "equal" ELSE r.bal[y]
                          /\ \A e \in Side : z.kid[y][e] = IF y = v THEN NULL ELSE r.kid[y][e]
  BY <1>1, <1>18, ForgetIs
<1> HIDE DEF z
<1>20. z.root = IF s.root = v THEN n ELSE s.root BY <1>3, <1>4, <1>11, <1>18, <1>19
<1>21. ASSUME NEW y \in Node
       PROVE  z.par[y] = IF y = v THEN v ELSE IF y = n THEN p ELSE IF s.par[y] = v THEN n ELSE s.par[y]
  <2>1. y # NULL /\ n # s.kid[v].left /\ n # s.kid[v].right BY <1>1, <1>6, SideIs
  <2> QED BY <2>1, <1>5, <1>11, <1>18, <1>19
<1>22. ASSUME NEW y \in Node, NEW e \in Side
       PROVE  z.kid[y][e] = IF y = v THEN NULL ELSE IF y = n THEN s.kid[v][e]
                            ELSE IF s.kid[y][e] = v THEN n ELSE s.kid[y][e]
  BY <1>1, <1>2, <1>3, <1>11, <1>18, <1>19
<1>23. Replaced(z, s, v, n) BY <1>11, <1>18, <1>19, <1>20, <1>21, <1>22 DEF Replaced, p
<1> QED BY <1>17, <1>23 DEF z

LEMMA ReplacedTree ==
  ASSUME NEW s, NEW r, NEW V, NEW D, NEW M, Tree(s, V, D, M), NEW v \in V, NEW n \in Node \ V,
         Replaced(r, s, v, n)
  PROVE  \E C : Tree(r, (V \ {v}) \union {n}, C, M)
<1> DEFINE W == (V \ {v}) \union {n}
           C == [y \in W |-> IF y = n THEN D[v] ELSE D[y]]
           ren(y) == IF y = v THEN n ELSE y
<1>1. /\ V \subseteq Node /\ NULL \notin Node /\ M \in Nat /\ D \in [V -> 0 .. M] /\ v # n
      /\ s.root \in V \union {NULL} /\ (s.root # NULL => s.par[s.root] = NULL)
      /\ v # NULL /\ n # NULL
  BY TreeFacts
<1>2. \A y \in V, e \in Side :
         /\ s.kid[y][e] \in V \union {NULL}
         /\ s.kid[y][e] # NULL => s.par[s.kid[y][e]] = y /\ D[y] < D[s.kid[y][e]]
  BY TreeFacts
<1>3. \A y \in V : /\ s.par[y] \in V \union {NULL}
                   /\ s.par[y] = NULL => y = s.root
                   /\ s.par[y] # NULL => D[s.par[y]] < D[y] /\ \E e \in Side : s.kid[s.par[y]][e] = y
                   /\ s.kid[y].left # NULL => s.kid[y].left # s.kid[y].right
  BY TreeFacts
<1>4. \A y \in V : D[y] \in 0 .. M BY <1>1
<1>5. \A y \in Node \ V : s.par[y] = y /\ \A e \in Side : s.kid[y][e] = NULL BY TreeFacts
<1>6. C \in [W -> 0 .. M] /\ C[n] = D[v] /\ \A y \in V \ {v} : C[y] = D[y] BY <1>1
<1> HIDE DEF C
<1>7. /\ r.root = ren(s.root)
      /\ \A y \in V : r.par[ren(y)] = ren(s.par[y])
      /\ \A y \in V, e \in Side : r.kid[ren(y)][e] = ren(s.kid[y][e])
      /\ \A y \in Node \ W : r.par[y] = y /\ \A e \in Side : r.kid[y][e] = NULL
  <2>1. \A y \in V : r.par[ren(y)] = ren(s.par[y])
    <3>1. s.par[v] # v
      <4>1. s.par[v] # NULL => D[s.par[v]] < D[v] BY <1>3
      <4> QED BY <4>1, <1>1, <1>4
    <3> QED BY <1>1, <1>3, <3>1 DEF Replaced
  <2>2. \A y \in V, e \in Side : r.kid[ren(y)][e] = ren(s.kid[y][e])
    <3>1. \A e \in Side : s.kid[v][e] # v
      <4>1. \A e \in Side : s.kid[v][e] # NULL => D[v] < D[s.kid[v][e]] BY <1>2
      <4> QED BY <4>1, <1>1, <1>4
    <3> QED BY <1>1, <1>2, <3>1 DEF Replaced
  <2>3. \A y \in Node \ W : r.par[y] = y /\ \A e \in Side : r.kid[y][e] = NULL
    <3> TAKE y \in Node \ W
    <3>1. CASE y = v BY <3>1, <1>1 DEF Replaced
    <3>2. CASE y # v
      <4>1. y \in Node \ V /\ y # n BY <3>2
      <4>2. s.par[y] # v /\ \A e \in Side : s.kid[y][e] # v BY <4>1, <3>2, <1>1, <1>5
      <4> QED BY <3>2, <4>1, <4>2, <1>5 DEF Replaced
    <3> QED BY <3>1, <3>2
  <2> QED BY <2>1, <2>2, <2>3 DEF Replaced
<1>8. /\ \A y \in V : ren(y) \in W /\ C[ren(y)] = D[y]
      /\ ren(NULL) = NULL /\ \A y \in V : ren(y) # NULL
      /\ \A x, y \in V : ren(x) = ren(y) => x = y
      /\ \A x \in W : \E y \in V : x = ren(y)
  BY <1>1, <1>6
<1> HIDE DEF W, ren
<1>9. ASSUME NEW x \in W
      PROVE  /\ \A e \in Side :
                   /\ r.kid[x][e] \in W \union {NULL}
                   /\ r.kid[x][e] # NULL => r.par[r.kid[x][e]] = x /\ C[x] < C[r.kid[x][e]]
             /\ r.par[x] \in W \union {NULL}
             /\ r.par[x] = NULL => x = r.root
             /\ r.par[x] # NULL => \E e \in Side : r.kid[r.par[x]][e] = x
             /\ r.kid[x].left # NULL => r.kid[x].left # r.kid[x].right
  <2>1. PICK y \in V : x = ren(y) BY <1>8
  <2>2. ASSUME NEW e \in Side
        PROVE  /\ r.kid[x][e] \in W \union {NULL}
               /\ r.kid[x][e] # NULL => r.par[r.kid[x][e]] = x /\ C[x] < C[r.kid[x][e]]
    <3> DEFINE k == s.kid[y][e]
    <3>1. r.kid[x][e] = ren(k) /\ k \in V \union {NULL} BY <2>1, <1>2, <1>7
    <3>2. CASE k = NULL BY <3>1, <3>2, <1>8
    <3>3. CASE k # NULL
      <4>1. k \in V /\ s.par[k] = y /\ D[y] < D[k] BY <3>1, <3>3, <1>2
      <4>2. r.par[ren(k)] = x BY <4>1, <2>1, <1>7
      <4>3. ren(k) \in W /\ C[ren(k)] = D[k] /\ C[x] = D[y] BY <4>1, <2>1, <1>8
      <4> QED BY <3>1, <4>1, <4>2, <4>3
    <3> QED BY <3>2, <3>3
  <2>3. /\ r.par[x] = ren(s.par[y]) /\ s.par[y] \in V \union {NULL}
        /\ (r.par[x] = NULL => s.par[y] = NULL)
    BY <2>1, <1>3, <1>7, <1>8
  <2>4. r.par[x] \in W \union {NULL} BY <2>3, <1>8
  <2>5. r.par[x] = NULL => x = r.root BY <2>1, <2>3, <1>3, <1>7
  <2>6. ASSUME r.par[x] # NULL PROVE \E e \in Side : r.kid[r.par[x]][e] = x
    <3>1. s.par[y] \in V BY <2>3, <2>6, <1>8
    <3>2. PICK e \in Side : s.kid[s.par[y]][e] = y BY <3>1, <1>1, <1>3
    <3>3. r.kid[r.par[x]][e] = x BY <2>1, <2>3, <3>1, <3>2, <1>7
    <3> QED BY <3>3
  <2>7. ASSUME r.kid[x].left # NULL PROVE r.kid[x].left # r.kid[x].right
    <3>1. /\ r.kid[x].left = ren(s.kid[y].left) /\ r.kid[x].right = ren(s.kid[y].right)
          /\ s.kid[y].left \in V \union {NULL} /\ s.kid[y].right \in V \union {NULL}
      BY <2>1, <1>2, <1>7, SideIs
    <3>2. s.kid[y].left # NULL BY <2>7, <3>1, <1>8
    <3>3. s.kid[y].left # s.kid[y].right BY <3>2, <1>3
    <3> QED BY <3>1, <3>2, <3>3, <1>8
  <2> QED BY <2>2, <2>4, <2>5, <2>6, <2>7
<1>10. r.root \in W \union {NULL} /\ (r.root # NULL => r.par[r.root] = NULL)
  <2>1. CASE s.root = NULL BY <2>1, <1>7, <1>8
  <2>2. CASE s.root # NULL
    <3>1. r.par[r.root] = ren(NULL) BY <2>2, <1>1, <1>7
    <3> QED BY <2>2, <3>1, <1>1, <1>7, <1>8
  <2> QED BY <2>1, <2>2
<1>11. W \subseteq Node BY <1>1 DEF W
<1>12. Ranked(r, W, C, M) BY <1>1, <1>6, <1>7, <1>9, <1>11 DEF Ranked
<1>13. Tree(r, W, C, M) BY <1>7, <1>9, <1>10, <1>12 DEF Tree
<1> QED BY <1>13 DEF W

LEMMA ReplacedHeights ==
  ASSUME NEW s \in Links, NEW r, NEW V, NEW D, NEW M, Tree(s, V, D, M), NEW v \in V, NEW n \in Node \ V,
         Replaced(r, s, v, n), NEW g, Heights(s, V, g, {}, {})
  PROVE  \E h : Heights(r, (V \ {v}) \union {n}, h, {}, {})
<1> DEFINE W == (V \ {v}) \union {n}
           h == [y \in W \union {NULL} |-> IF y = n THEN g[v] ELSE g[y]]
<1>1. V \subseteq Node /\ NULL \notin Node /\ v # n /\ v # NULL /\ n # NULL BY TreeFacts
<1>2. g \in [V \union {NULL} -> Nat] /\ g[NULL] = 0 BY DEF Heights
<1>3. /\ h \in [W \union {NULL} -> Nat] /\ h[NULL] = 0 /\ h[n] = g[v]
      /\ \A y \in (V \ {v}) \union {NULL} : h[y] = g[y]
  BY <1>1, <1>2
<1> HIDE DEF h
<1>4. ASSUME NEW y \in W PROVE Level(r, h, y, Own(h, {}, {}, y))
  <2> DEFINE x == IF y = n THEN v ELSE y
  <2>1. x \in V /\ h[y] = g[x] BY <1>1, <1>3
  <2>2. Own(h, {}, {}, y) = Own(g, {}, {}, x) BY <2>1 DEF Own
  <2>3. r.bal[y] = s.bal[x] BY <1>1 DEF Replaced
  <2>4. ASSUME NEW e \in Side PROVE h[r.kid[y][e]] = g[s.kid[x][e]]
    <3>1. s.kid[x][e] \in V \union {NULL} /\ s.kid[v][e] # v
      <4>1. s.kid[v][e] # NULL => D[v] < D[s.kid[v][e]] BY TreeFacts
      <4>2. \A b \in V : D[b] \in Nat BY TreeFacts
      <4> QED BY <2>1, <4>1, <4>2, <1>1, TreeFacts
    <3>2. r.kid[y][e] = IF s.kid[x][e] = v THEN n ELSE s.kid[x][e] BY <3>1, <1>1 DEF Replaced
    <3> QED BY <3>1, <3>2, <1>3
  <2>5. Level(s, g, x, Own(g, {}, {}, x)) BY <2>1 DEF Heights
  <2> HIDE DEF x
  <2> QED BY <2>2, <2>3, <2>4, <2>5, LevelSame
<1> QED BY <1>3, <1>4 DEF Heights

\* What avl_replace_node copies from, it does not read from the node itself.
LEMMA ReplaceForgets ==
  ASSUME NEW s \in Links, NEW v \in Node, NEW n \in Node, v # n
  PROVE  Replace(s, v, n) = Replace(Forget(s, n), v, n)
<1> DEFINE z == Forget(s, n)
           a(q) == [q EXCEPT !.par[n] = q.par[v], !.kid[n] = q.kid[v], !.bal[n] = q.bal[v]]
<1>1. z = [[s EXCEPT !.par[n] = n, !.kid[n] = NoKids] EXCEPT !.bal[n] = "equal"] BY DEF Forget, ClearLinks
<1>2. NoKids \in [Side -> Node \union {NULL}] BY DEF NoKids
<1>3. z.par[v] = s.par[v] BY <1>1 DEF Links
<1>4. a(z) = a(s)
  <2>1. /\ s.par \in [Node -> Node \union {NULL}] /\ s.bal \in [Node -> Bits]
        /\ s.kid \in [Node -> [Side -> Node \union {NULL}]]
    BY DEF Links
  <2>2. /\ z = [root |-> s.root, par |-> z.par, kid |-> z.kid, bal |-> z.bal]
        /\ z.par = [s.par EXCEPT ![n] = n] /\ z.kid = [s.kid EXCEPT ![n] = NoKids]
        /\ z.bal = [s.bal EXCEPT ![n] = "equal"]
    BY <1>1 DEF Links
  <2>3. ASSUME NEW q \in Links
        PROVE  /\ a(q) \in Links /\ a(q).root = q.root /\ a(q).par = [q.par EXCEPT ![n] = q.par[v]]
               /\ a(q).kid = [q.kid EXCEPT ![n] = q.kid[v]] /\ a(q).bal = [q.bal EXCEPT ![n] = q.bal[v]]
    BY DEF Links
  <2>4. z \in Links BY ForgetIs
  <2> HIDE DEF z
  <2>5. z.root = s.root BY <2>2
  <2>6. [z.par EXCEPT ![n] = z.par[v]] = [s.par EXCEPT ![n] = s.par[v]] BY <2>1, <2>2
  <2>7. [z.kid EXCEPT ![n] = z.kid[v]] = [s.kid EXCEPT ![n] = s.kid[v]] BY <2>1, <2>2
  <2>8. [z.bal EXCEPT ![n] = z.bal[v]] = [s.bal EXCEPT ![n] = s.bal[v]] BY <2>1, <2>2
  <2> HIDE DEF a
  <2>9. ASSUME NEW x \in Links PROVE x = [root |-> x.root, par |-> x.par, kid |-> x.kid, bal |-> x.bal]
    BY DEF Links
  <2>10. /\ a(s) \in Links /\ a(z) \in Links /\ a(z).root = a(s).root /\ a(z).par = a(s).par
         /\ a(z).kid = a(s).kid /\ a(z).bal = a(s).bal
    BY <2>3, <2>4, <2>5, <2>6, <2>7, <2>8
  <2>11. /\ a(s) = [root |-> a(s).root, par |-> a(s).par, kid |-> a(s).kid, bal |-> a(s).bal]
         /\ a(z) = [root |-> a(z).root, par |-> a(z).par, kid |-> a(z).kid, bal |-> a(z).bal]
    BY <2>9, <2>10
  <2>12. [root |-> a(s).root, par |-> a(s).par, kid |-> a(s).kid, bal |-> a(s).bal] =
         [root |-> a(z).root, par |-> a(z).par, kid |-> a(z).kid, bal |-> a(z).bal]
    BY <2>10
  <2> QED BY <2>11, <2>12, Zenon
<1> QED BY <1>3, <1>4, Zenon DEF Replace

----------------------------------------------------------------------------
\* The search of the caller ends at a free side, and a node is hung there.
LEMMA LocateIs ==
  ASSUME NEW V, NEW D, NEW M, Tree(t, V, D, M), NEW k
  PROVE  IF t.root = NULL THEN Locate(k) = NULL
         ELSE /\ Locate(k) \in V
              /\ t.kid[Locate(k)][IF k < Key[Locate(k)] THEN "left" ELSE "right"] = NULL
<1> DEFINE X == Node \union {NULL}
           d(x) == IF k < Key[x] THEN "left" ELSE "right"
           G == [z \in Node \X X \X X |->
                    IF t.kid[z[1]][d(z[1])] = NULL THEN z[1] ELSE IF d(z[1]) = "left" THEN z[2] ELSE z[3]]
           down == CHOOSE f : f = [x \in Node |-> LET c == t.kid[x][IF k < Key[x] THEN "left" ELSE "right"]
                                                  IN  IF c = NULL THEN x ELSE f[c]]
<1>1. V \subseteq Node /\ NULL \notin Node /\ (\A x : d(x) \in Side) /\ Ranked(t, V, D, M)
  BY TreeFacts, SideIs DEF Tree
<1> HIDE DEF d
<1>2. G \in [Node \X X \X X -> X] OBVIOUS
<1>3. \A x \in Node, p, q \in X :
         G[<<x, p, q>>] = IF t.kid[x][d(x)] = NULL THEN x ELSE IF d(x) = "left" THEN p ELSE q
  OBVIOUS
<1>4. NULL \in X OBVIOUS
<1> HIDE DEF X, G
<1>5. PICK g \in [Node \union {NULL} -> X] : g[NULL] = NULL /\ Solves(t, Node, g, G)
  BY <1>1, <1>2, <1>4, Recursion
<1>6. \A x \in Node, e \in Side : t.kid[x][e] \in Node \union {NULL}
  BY <1>1 DEF Ranked
<1>7. ASSUME NEW x \in Node PROVE g[x] = IF t.kid[x][d(x)] = NULL THEN x ELSE g[t.kid[x][d(x)]]
  <2>1. g[t.kid[x].left] \in X /\ g[t.kid[x].right] \in X BY <1>5, <1>6 DEF Side
  <2>2. g[x] = G[<<x, g[t.kid[x].left], g[t.kid[x].right]>>] BY <1>5 DEF Solves
  <2>3. d(x) = "left" \/ d(x) = "right" BY <1>1 DEF Side
  <2> QED BY <2>1, <2>2, <2>3, <1>3
<1> DEFINE f == [x \in Node |-> g[x]]
<1>8. f = [x \in Node |-> IF t.kid[x][d(x)] = NULL THEN x ELSE f[t.kid[x][d(x)]]]
  <2>1. ASSUME NEW x \in Node PROVE f[x] = IF t.kid[x][d(x)] = NULL THEN x ELSE f[t.kid[x][d(x)]]
    <3>1. t.kid[x][d(x)] \in Node \union {NULL} BY <1>1, <1>6
    <3> QED BY <3>1, <1>7
  <2>2. f = [x \in Node |-> f[x]] OBVIOUS
  <2> HIDE DEF f
  <2> QED BY <2>1, <2>2
<1>9. \E a : a = [x \in Node |-> LET c == t.kid[x][IF k < Key[x] THEN "left" ELSE "right"]
                                 IN  IF c = NULL THEN x ELSE a[c]]
  BY <1>8, Zenon DEF d
<1>10. down = [x \in Node |-> LET c == t.kid[x][IF k < Key[x] THEN "left" ELSE "right"]
                              IN  IF c = NULL THEN x ELSE down[c]]
  BY <1>9, Zenon
<1>11. Locate(k) = IF t.root = NULL THEN NULL ELSE down[t.root] BY Zenon DEF Locate
<1> HIDE DEF down
<1>12. \A x \in Node : down[x] = IF t.kid[x][d(x)] = NULL THEN x ELSE down[t.kid[x][d(x)]]
  BY <1>10 DEF d
<1> DEFINE T == {x \in V : down[x] \in V /\ t.kid[down[x]][d(down[x])] = NULL}
<1>13. ASSUME NEW x \in V, t.kid[x].left \in T \union {NULL}, t.kid[x].right \in T \union {NULL} PROVE x \in T
  <2>1. CASE t.kid[x][d(x)] = NULL BY <2>1, <1>1, <1>12
  <2>2. CASE t.kid[x][d(x)] # NULL
    <3>1. t.kid[x][d(x)] \in T
      <4>1. d(x) = "left" \/ d(x) = "right" BY <1>1 DEF Side
      <4> QED BY <4>1, <2>2, <1>13
    <3>2. down[x] = down[t.kid[x][d(x)]] BY <2>2, <1>1, <1>12
    <3> QED BY <3>1, <3>2
  <2> QED BY <2>1, <2>2
<1> HIDE DEF T
<1>14. V \subseteq T BY <1>1, <1>13, FromLeaves
<1>15. t.root # NULL => t.root \in T BY <1>14, TreeFacts
<1> QED BY <1>11, <1>15 DEF T, d

\* r is s with n hung below p on side d, or as the root.
Hung(r, s, n, p, d) ==
    /\ r \in Links /\ r.root = IF p = NULL THEN n ELSE s.root
    /\ \A y \in Node :
          /\ r.par[y] = IF y = n THEN p ELSE s.par[y]
          /\ r.bal[y] = IF y = n THEN "equal" ELSE s.bal[y]
          /\ \A e \in Side : r.kid[y][e] = IF y = n THEN NULL ELSE IF y = p /\ e = d THEN n ELSE s.kid[y][e]

LEMMA HungTree ==
  ASSUME NEW s, NEW r, NEW V, NEW D, NEW M, Tree(s, V, D, M), NEW n \in Node \ V, NEW p, NEW d \in Side,
         Hung(r, s, n, p, d), (p = NULL /\ s.root = NULL) \/ (p \in V /\ s.kid[p][d] = NULL)
  PROVE  \E C, K : Tree(r, V \union {n}, C, K)
<1> DEFINE W == V \union {n}
           C == [y \in W |-> IF y = n THEN M + 1 ELSE D[y]]
<1>1. /\ V \subseteq Node /\ NULL \notin Node /\ M \in Nat /\ D \in [V -> 0 .. M] /\ n # NULL
      /\ s.root \in V \union {NULL} /\ (s.root # NULL => s.par[s.root] = NULL)
  BY TreeFacts
<1>2. \A y \in V, e \in Side :
         /\ s.kid[y][e] \in V \union {NULL}
         /\ s.kid[y][e] # NULL => s.par[s.kid[y][e]] = y /\ D[y] < D[s.kid[y][e]]
  BY TreeFacts
<1>3. \A y \in V : /\ s.par[y] \in V \union {NULL}
                   /\ s.par[y] = NULL => y = s.root
                   /\ s.par[y] # NULL => \E e \in Side : s.kid[s.par[y]][e] = y
                   /\ s.kid[y].left # NULL => s.kid[y].left # s.kid[y].right
  BY TreeFacts
<1>4. \A y \in V : D[y] \in 0 .. M BY <1>1
<1>5. \A y \in Node \ V : s.par[y] = y /\ \A e \in Side : s.kid[y][e] = NULL BY TreeFacts
<1>6. /\ C \in [W -> 0 .. M + 1] /\ C[n] = M + 1 /\ M + 1 \in Nat
      /\ \A y \in V : C[y] = D[y] /\ y # n
  BY <1>1
<1> HIDE DEF C
<1>7. p = NULL => V = {}
  <2> DEFINE T == {x \in V : FALSE}
  <2> SUFFICES ASSUME p = NULL PROVE V \subseteq T OBVIOUS
  <2>1. s.root = NULL BY <1>1
  <2>2. \A x \in V : s.par[x] \in T \union {NULL} => x \in T BY <2>1, <1>1, <1>3
  <2> HIDE DEF T
  <2> QED BY <2>2, FromRoot
<1>8. p = NULL \/ (p \in V /\ p # n /\ s.kid[p][d] = NULL) BY <1>6
<1>9. ASSUME NEW x \in W
      PROVE  /\ \A e \in Side :
                   /\ r.kid[x][e] \in W \union {NULL}
                   /\ r.kid[x][e] # NULL => r.par[r.kid[x][e]] = x /\ C[x] < C[r.kid[x][e]]
             /\ r.par[x] \in W \union {NULL}
             /\ r.par[x] = NULL => x = r.root
             /\ r.par[x] # NULL => \E e \in Side : r.kid[r.par[x]][e] = x
             /\ r.kid[x].left # NULL => r.kid[x].left # r.kid[x].right
  <2>0. x \in Node BY <1>1
  <2>1. ASSUME NEW e \in Side
        PROVE  /\ r.kid[x][e] \in W \union {NULL}
               /\ r.kid[x][e] # NULL => r.par[r.kid[x][e]] = x /\ C[x] < C[r.kid[x][e]]
    <3>1. CASE x = n BY <3>1 DEF Hung
    <3>2. CASE x # n /\ x = p /\ e = d
      <4>1. r.kid[x][e] = n /\ r.par[n] = p BY <3>2, <2>0 DEF Hung
      <4>2. C[x] < C[n] BY <3>2, <1>1, <1>4, <1>6
      <4> QED BY <3>2, <4>1, <4>2
    <3>3. CASE x # n /\ ~(x = p /\ e = d)
      <4> DEFINE k == s.kid[x][e]
      <4>1. x \in V /\ r.kid[x][e] = k BY <3>3, <2>0 DEF Hung
      <4>2. k \in V \union {NULL} /\ (k # NULL => s.par[k] = x /\ D[x] < D[k]) BY <4>1, <1>2
      <4> HIDE DEF k
      <4>3. k # NULL => r.par[k] = x /\ C[x] < C[k] BY <4>1, <4>2, <1>1, <1>6 DEF Hung
      <4> QED BY <4>1, <4>2, <4>3
    <3> QED BY <3>1, <3>2, <3>3
  <2>2. CASE x = n
    <3>1. r.par[x] = p BY <2>2 DEF Hung
    <3>2. p = NULL => r.root = n BY DEF Hung
    <3>3. p # NULL => r.kid[p][d] = n BY <1>1, <1>8 DEF Hung
    <3>4. r.kid[x].left = NULL BY <2>2, SideIs DEF Hung
    <3> QED BY <2>1, <2>2, <3>1, <3>2, <3>3, <3>4, <1>8
  <2>3. CASE x # n
    <3>1. x \in V /\ r.par[x] = s.par[x] /\ p # NULL /\ r.root = s.root BY <2>0, <2>3, <1>7 DEF Hung
    <3>2. r.par[x] # NULL => \E e \in Side : r.kid[r.par[x]][e] = x
      <4> SUFFICES ASSUME r.par[x] # NULL PROVE \E e \in Side : r.kid[r.par[x]][e] = x OBVIOUS
      <4>1. s.par[x] \in V BY <3>1, <1>3
      <4>2. PICK e \in Side : s.kid[s.par[x]][e] = x BY <3>1, <1>3
      <4>3. ~(s.par[x] = p /\ e = d) BY <4>2, <3>1, <1>1, <1>8
      <4>4. r.kid[s.par[x]][e] = x BY <4>1, <4>2, <4>3, <1>1, <1>6 DEF Hung
      <4> QED BY <4>4, <3>1
    <3>3. r.kid[x].left # NULL => r.kid[x].left # r.kid[x].right
      <4>1. /\ r.kid[x].left = (IF x = p /\ "left" = d THEN n ELSE s.kid[x].left)
            /\ r.kid[x].right = (IF x = p /\ "right" = d THEN n ELSE s.kid[x].right)
        BY <2>0, <2>3, SideIs DEF Hung
      <4>2. s.kid[x].left \in V \union {NULL} /\ s.kid[x].right \in V \union {NULL} BY <3>1, <1>2, SideIs
      <4>3. s.kid[x].left # n /\ s.kid[x].right # n BY <4>2, <1>1
      <4>4. s.kid[x].left # NULL => s.kid[x].left # s.kid[x].right BY <3>1, <1>3
      <4> QED BY <4>1, <4>3, <4>4
    <3> QED BY <2>1, <3>1, <3>2, <3>3, <1>3
  <2> QED BY <2>2, <2>3
<1>10. r.root \in W \union {NULL} /\ (r.root # NULL => r.par[r.root] = NULL)
  <2>1. CASE p = NULL BY <2>1 DEF Hung
  <2>2. CASE p # NULL
    <3>1. r.root = s.root BY <2>2 DEF Hung
    <3>2. s.root # NULL => r.par[s.root] = NULL BY <1>1, <1>6 DEF Hung
    <3> QED BY <3>1, <3>2, <1>1
  <2> QED BY <2>1, <2>2
<1>11. ASSUME NEW y \in Node \ W PROVE r.par[y] = y /\ \A e \in Side : r.kid[y][e] = NULL
  <2>1. y \in Node \ V /\ y # n /\ y # p BY <1>1, <1>8
  <2> QED BY <2>1, <1>5 DEF Hung
<1>12. W \subseteq Node BY <1>1
<1> HIDE DEF W
<1>13. Ranked(r, W, C, M + 1) BY <1>6, <1>9, <1>11, <1>12 DEF Ranked
<1>14. Tree(r, W, C, M + 1) BY <1>9, <1>10, <1>11, <1>13 DEF Tree
<1> QED BY <1>14 DEF W

LEMMA HungHeights ==
  ASSUME NEW s, NEW r, NEW V, NEW D, NEW M, Tree(s, V, D, M), NEW n \in Node \ V, NEW p, NEW d \in Side,
         Hung(r, s, n, p, d), p = NULL \/ (p \in V /\ s.kid[p][d] = NULL),
         NEW g, Heights(s, V, g, {}, {})
  PROVE  \E h : Heights(r, V \union {n}, h, {n}, {})
<1> DEFINE W == V \union {n}
           h == [y \in W \union {NULL} |-> IF y = n THEN 0 ELSE g[y]]
<1>1. V \subseteq Node /\ NULL \notin Node /\ n # NULL BY TreeFacts
<1>2. g \in [V \union {NULL} -> Nat] /\ g[NULL] = 0 BY DEF Heights
<1>3. /\ h \in [W \union {NULL} -> Nat] /\ h[NULL] = 0 /\ h[n] = 0
      /\ \A y \in V \union {NULL} : h[y] = g[y]
  BY <1>1, <1>2
<1> HIDE DEF h
<1>4. ASSUME NEW y \in W PROVE Level(r, h, y, Own(h, {n}, {}, y))
  <2>1. CASE y = n
    <3>1. Own(h, {n}, {}, y) = 1 BY <2>1, <1>3 DEF Own
    <3>2. r.kid[y].left = NULL /\ r.kid[y].right = NULL /\ r.bal[y] = "equal" BY <2>1, SideIs DEF Hung
    <3> QED BY <3>1, <3>2, <1>3 DEF Level
  <2>2. CASE y # n
    <3>1. Own(h, {n}, {}, y) = Own(g, {}, {}, y) BY <2>2, <1>3 DEF Own
    <3>2. y \in V /\ r.bal[y] = s.bal[y] BY <2>2, <1>1 DEF Hung
    <3>3. ASSUME NEW e \in Side PROVE h[r.kid[y][e]] = g[s.kid[y][e]]
      <4>1. s.kid[y][e] \in V \union {NULL} BY <3>2, TreeFacts
      <4>2. r.kid[y][e] = IF y = p /\ e = d THEN n ELSE s.kid[y][e] BY <2>2, <1>1 DEF Hung
      <4>3. y = p /\ e = d => s.kid[y][e] = NULL BY <3>2, <1>1
      <4> QED BY <4>1, <4>2, <4>3, <1>2, <1>3
    <3>4. Level(s, g, y, Own(g, {}, {}, y)) BY <3>2 DEF Heights
    <3> QED BY <3>1, <3>2, <3>3, <3>4, LevelSame
  <2> QED BY <2>1, <2>2
<1> QED BY <1>3, <1>4 DEF Heights

----------------------------------------------------------------------------
\* A round of avl_insert_balance: n is one higher than p knows.  When p cannot
\* lean any further n is not level, as no leaf is the higher side.
LEMMA GrownStep ==
  ASSUME NEW s \in Links, NEW V, NEW D, NEW M, Tree(s, V, D, M),
         NEW n \in V, NEW p \in V, NEW d \in Side, s.kid[p][d] = n,
         NEW g, Heights(s, V, g, {n}, {}), s.bal[n] = "equal" => s.kid[n].left = NULL
  PROVE  /\ s.bal[p] = d => s.bal[n] # "equal"
         /\ s.bal[p] = "equal" =>
               LET r == [s EXCEPT !.bal[p] = d]
               IN  r \in Links /\ Tree(r, V, D, M) /\ \E h : Heights(r, V, h, {p}, {})
         /\ s.bal[p] = Other(d) =>
               LET r == [s EXCEPT !.bal[p] = "equal"]
               IN  r \in Links /\ Tree(r, V, D, M) /\ \E h : Heights(r, V, h, {}, {})
         /\ s.bal[p] = d /\ s.bal[n] = d =>
               LET r == RotateOnce(s, n, p, d)
               IN  r \in Links /\ (\E C, K : Tree(r, V, C, K)) /\ \E h : Heights(r, V, h, {}, {})
         /\ s.bal[p] = d /\ s.bal[n] = Other(d) =>
               LET r == RotateTwice(s, n, p, d)
               IN  r \in Links /\ (\E C, K : Tree(r, V, C, K)) /\ \E h : Heights(r, V, h, {}, {})
<1> DEFINE o == Other(d)
           G == g[n]
           B == g[s.kid[p][o]]
<1>1. /\ V \subseteq Node /\ NULL \notin Node /\ o \in Side /\ o # d /\ Other(o) = d
      /\ "equal" # d /\ "equal" # o /\ n # p /\ s.kid[p][o] # n /\ s.kid[p][o] # p
      /\ s.kid[n][o] # n /\ s.kid[n][o] # p
  <2>1. /\ V \subseteq Node /\ NULL \notin Node /\ o \in Side /\ o # d /\ Other(o) = d
        /\ "equal" # d /\ "equal" # o
    BY TreeFacts, SideIs
  <2>2. /\ n # p /\ s.kid[p][o] # n
        /\ \A e \in Side : s.kid[n][e] # p /\ s.kid[n][e] # n /\ s.kid[p][e] # p
    BY Around
  <2> QED BY <2>1, <2>2
<1>2. s.bal[p] \in Bits /\ s.bal[n] \in Bits /\ s.bal \in [Node -> Bits] BY <1>1 DEF Links
<1>3. g \in [V \union {NULL} -> Nat] /\ g[NULL] = 0 BY DEF Heights
<1>4. G \in Nat /\ g[p] \in Nat /\ \A x \in V, e \in Side : g[s.kid[x][e]] \in Nat
  <2>1. \A x \in V, e \in Side : s.kid[x][e] \in V \union {NULL} BY TreeFacts
  <2> QED BY <2>1, <1>3
<1>5. /\ Own(g, {n}, {}, n) = G + 1
      /\ \A x \in V : x # n => Own(g, {n}, {}, x) = g[x]
  BY <1>3, <1>4 DEF Own
<1>6. Level(s, g, n, G + 1) /\ Level(s, g, p, g[p])
  <2>1. Level(s, g, n, Own(g, {n}, {}, n)) /\ Level(s, g, p, Own(g, {n}, {}, p)) BY DEF Heights
  <2> QED BY <2>1, <1>1, <1>5
<1>7. /\ s.bal[p] = "equal" => G = B /\ g[p] = G + 1
      /\ s.bal[p] = d => G = B + 1 /\ g[p] = G + 1
      /\ s.bal[p] = o => B = G + 1 /\ g[p] = B + 1
  BY <1>2, <1>6, LevelBy
<1>8. /\ s.bal[n] = "equal" => g[s.kid[n][d]] = g[s.kid[n][o]] /\ G + 1 = g[s.kid[n][d]] + 1
      /\ s.bal[n] = d => g[s.kid[n][d]] = g[s.kid[n][o]] + 1 /\ G + 1 = g[s.kid[n][d]] + 1
      /\ s.bal[n] = o => g[s.kid[n][o]] = g[s.kid[n][d]] + 1 /\ G + 1 = g[s.kid[n][o]] + 1
  BY <1>2, <1>6, LevelBy
<1>9. B \in Nat /\ g[s.kid[n][d]] \in Nat /\ g[s.kid[n][o]] \in Nat BY <1>1, <1>4
<1>10. ASSUME s.bal[p] = d, s.bal[n] = "equal" PROVE FALSE
  <2>1. s.kid[n].left = NULL /\ g[s.kid[n].left] = G
    <3>1. d = "left" \/ o = "left" BY <1>1 DEF Side
    <3> QED BY <3>1, <1>8, <1>9, <1>10, <1>4
  <2>2. G = 0 BY <2>1, <1>3
  <2> QED BY <2>2, <1>7, <1>9, <1>10
<1>11. ASSUME s.bal[p] = "equal"
       PROVE  LET r == [s EXCEPT !.bal[p] = d]
              IN  r \in Links /\ Tree(r, V, D, M) /\ \E h : Heights(r, V, h, {p}, {})
  <2> DEFINE h == [g EXCEPT ![n] = G + 1]
             r == [s EXCEPT !.bal[p] = d]
  <2>1. h \in [V \union {NULL} -> Nat] /\ h[NULL] = 0 /\ h[n] = G + 1 /\ \A x \in V : x # n => h[x] = g[x]
    BY <1>1, <1>3, <1>4
  <2> HIDE DEF h
  <2>2. Agree(V, g, {n}, {}, h, {p}, {}, {p}, s.kid[p][d]) BY <2>1, <1>5, <1>4, <1>1 DEF Agree, Own
  <2>3. h[s.kid[p][o]] = B
    <3>1. s.kid[p][o] \in V \union {NULL} BY <1>1, TreeFacts
    <3> QED BY <3>1, <2>1, <1>1, <1>3
  <2>4. Level(r, h, p, Own(h, {p}, {}, p))
    <3>1. Own(h, {p}, {}, p) = G + 2 BY <2>1, <1>1, <1>4, <1>7, <1>11 DEF Own
    <3>2. r.bal[p] = d /\ r.kid = s.kid BY <1>1, <1>2 DEF Links
    <3>3. /\ r.bal[p] \in Bits /\ r.bal[p] # "equal" /\ r.bal[p] # o
          /\ h[r.kid[p][d]] = h[r.kid[p][o]] + 1 /\ Own(h, {p}, {}, p) = h[r.kid[p][d]] + 1
      BY <3>1, <3>2, <2>1, <2>3, <1>1, <1>4, <1>7, <1>11 DEF Bits
    <3> HIDE DEF r
    <3> QED BY <3>3, LevelBy
  <2>5. h[p] = g[p] /\ d \in Bits BY <2>1, <1>1 DEF Bits
  <2>6. r \in Links /\ Heights(r, V, h, {p}, {}) /\ Tree(r, V, D, M) BY <2>2, <2>4, <2>5, Retilted
  <2> QED BY <2>6
<1>12. ASSUME s.bal[p] = o
       PROVE  LET r == [s EXCEPT !.bal[p] = "equal"]
              IN  r \in Links /\ Tree(r, V, D, M) /\ \E h : Heights(r, V, h, {}, {})
  <2> DEFINE h == [g EXCEPT ![n] = G + 1]
             r == [s EXCEPT !.bal[p] = "equal"]
  <2>1. h \in [V \union {NULL} -> Nat] /\ h[NULL] = 0 /\ h[n] = G + 1 /\ \A x \in V : x # n => h[x] = g[x]
    BY <1>1, <1>3, <1>4
  <2> HIDE DEF h
  <2>2. Agree(V, g, {n}, {}, h, {}, {}, {p}, s.kid[p][d]) BY <2>1, <1>5, <1>4, <1>1 DEF Agree, Own
  <2>3. h[s.kid[p][o]] = B
    <3>1. s.kid[p][o] \in V \union {NULL} BY <1>1, TreeFacts
    <3> QED BY <3>1, <2>1, <1>1, <1>3
  <2>4. Level(r, h, p, Own(h, {}, {}, p))
    <3>1. Own(h, {}, {}, p) = G + 2 BY <2>1, <1>1, <1>4, <1>7, <1>12 DEF Own
    <3>2. r.bal[p] = "equal" /\ r.kid = s.kid BY <1>1, <1>2 DEF Links, Bits
    <3>3. /\ r.bal[p] \in Bits /\ r.bal[p] # d /\ r.bal[p] # o
          /\ h[r.kid[p][d]] = h[r.kid[p][o]] /\ Own(h, {}, {}, p) = h[r.kid[p][d]] + 1
      BY <3>1, <3>2, <2>1, <2>3, <1>1, <1>4, <1>7, <1>12 DEF Bits
    <3> HIDE DEF r
    <3> QED BY <3>3, LevelBy
  <2>5. h[p] = g[p] /\ "equal" \in Bits BY <2>1, <1>1 DEF Bits
  <2>6. r \in Links /\ Heights(r, V, h, {}, {}) /\ Tree(r, V, D, M) BY <2>2, <2>4, <2>5, Retilted
  <2> QED BY <2>6
<1>13. ASSUME s.bal[p] = d, s.bal[n] = d
       PROVE  LET r == RotateOnce(s, n, p, d)
              IN  r \in Links /\ (\E C, K : Tree(r, V, C, K)) /\ \E h : Heights(r, V, h, {}, {})
  <2> DEFINE h == [g EXCEPT ![n] = G + 1, ![p] = G]
             r == RotateOnce(s, n, p, d)
  <2>1. /\ h \in [V \union {NULL} -> Nat] /\ h[NULL] = 0 /\ h[n] = G + 1 /\ h[p] = G
        /\ \A x \in (V \union {NULL}) : x # n /\ x # p => h[x] = g[x]
    BY <1>1, <1>3, <1>4
  <2> HIDE DEF h
  <2>2. Agree(V, g, {n}, {}, h, {}, {}, {n, p}, s.kid[p][o]) BY <2>1, <1>5, <1>4, <1>1 DEF Agree, Own
  <2>3. h[s.kid[p][o]] = B
    <3>1. s.kid[p][o] \in V \union {NULL} BY <1>1, TreeFacts
    <3> QED BY <3>1, <2>1, <1>1, <1>3
  <2>4. /\ g[s.kid[n][o]] = B /\ g[s.kid[n][d]] = B + 1 /\ h[n] = g[p] /\ h[p] = B + 1
        /\ Own(h, {}, {}, n) = B + 2 /\ Own(h, {}, {}, p) = B + 1
    BY <2>1, <1>4, <1>7, <1>8, <1>9, <1>13 DEF Own
  <2>5. /\ Rotated(r, [s EXCEPT !.bal[n] = "equal", !.bal[p] = "equal"], n, p, d)
        /\ Heights(r, V, h, {}, {}) /\ \E C, K : Tree(r, V, C, K)
    BY <2>2, <2>3, <2>4, <1>9, OnceLevels
  <2> HIDE DEF r
  <2>6. r \in Links BY <2>5 DEF Rotated
  <2> QED BY <2>5, <2>6 DEF r
<1>14. ASSUME s.bal[p] = d, s.bal[n] = o
       PROVE  LET r == RotateTwice(s, n, p, d)
              IN  r \in Links /\ (\E C, K : Tree(r, V, C, K)) /\ \E h : Heights(r, V, h, {}, {})
  <2> DEFINE m == s.kid[n][o]
             h == [g EXCEPT ![m] = G + 1, ![n] = G, ![p] = G]
             r == RotateTwice(s, n, p, d)
  <2>0. m \in V /\ m # n /\ m # p
    <3>1. m # NULL BY <1>3, <1>8, <1>9, <1>14
    <3> QED BY <3>1, <1>1, TreeFacts
  <2>1. /\ h \in [V \union {NULL} -> Nat] /\ h[NULL] = 0 /\ h[n] = G /\ h[p] = G /\ h[m] = G + 1
        /\ \A x \in (V \union {NULL}) : x # n /\ x # p /\ x # m => h[x] = g[x]
    BY <2>0, <1>1, <1>3, <1>4
  <2> HIDE DEF h, m
  <2>2. Agree(V, g, {n}, {}, h, {}, {}, {n, m, p}, s.kid[p][o]) BY <2>0, <2>1, <1>5, <1>4, <1>1 DEF Agree, Own
  <2>3. h[s.kid[p][o]] = B
    <3>1. s.kid[p][o] \in V \union {NULL} BY <1>1, TreeFacts
    <3>2. s.kid[p][o] # m
      <4>1. s.kid[n][o] # NULL => s.kid[n][o] # s.kid[p][Other(d)] BY <1>1, Around
      <4> QED BY <4>1, <2>0, <1>1 DEF m
    <3> QED BY <3>1, <3>2, <2>1, <1>1, <1>3
  <2>4. g[m] = G /\ g[s.kid[n][d]] = B /\ G = B + 1 BY <1>4, <1>7, <1>8, <1>9, <1>14 DEF m
  <2>5. Level(s, g, m, B + 1)
    <3>1. Level(s, g, m, Own(g, {n}, {}, m)) BY <2>0 DEF Heights
    <3> QED BY <3>1, <2>0, <2>4, <1>5
  <2>6. /\ h[m] = g[p] /\ h[n] = B + 1 /\ h[p] = B + 1
        /\ Own(h, {}, {}, n) = B + 1 /\ Own(h, {}, {}, p) = B + 1 /\ Own(h, {}, {}, m) = B + 2
    BY <2>1, <2>4, <1>4, <1>7, <1>9, <1>14 DEF Own
  <2>7. s.kid[n][o] = m BY DEF m
  <2>8. /\ \E b : Twice(r, [s EXCEPT !.bal = b], n, m, p, d)
        /\ Heights(r, V, h, {}, {}) /\ \E C, K : Tree(r, V, C, K)
    BY <2>0, <2>2, <2>3, <2>4, <2>5, <2>6, <2>7, <1>9, TwiceLevelled
  <2> HIDE DEF r
  <2>9. r \in Links BY <2>8 DEF Twice
  <2> QED BY <2>8, <2>9 DEF r
<1> QED BY <1>10, <1>11, <1>12, <1>13, <1>14

\* What a round of avl_erase_balance makes of p, whose child on side d is
\* about to be lower and whose other child is c, when x counts as gone.
Shrunk(s, V, D, M, p, d, c, x) ==
    /\ s.bal[p] = "equal" =>
          LET r == [s EXCEPT !.bal[p] = Other(d)]
          IN  r \in Links /\ Tree(r, V, D, M) /\ \E h : Heights(r, V, h, {x}, {})
    /\ s.bal[p] = d =>
          LET r == [s EXCEPT !.bal[p] = "equal"]
          IN  r \in Links /\ Tree(r, V, D, M) /\ \E h : Heights(r, V, h, {x}, {p})
    /\ s.bal[p] = Other(d) =>
          /\ c \in V
          /\ s.bal[c] = "equal" =>
                LET r == Rotate([s EXCEPT !.bal[c] = d], c, p, Other(d))
                IN  /\ \E b : Rotated(r, [s EXCEPT !.bal = b], c, p, Other(d))
                    /\ \E C, K : Tree(r, V, C, K)
                    /\ \E h : Heights(r, V, h, {x}, {})
          /\ s.bal[c] = Other(d) =>
                LET r == RotateOnce(s, c, p, Other(d))
                IN  /\ \E b : Rotated(r, [s EXCEPT !.bal = b], c, p, Other(d))
                    /\ \E C, K : Tree(r, V, C, K)
                    /\ \E h : Heights(r, V, h, {x}, {c})
          /\ s.bal[c] = d =>
                LET r == RotateTwice(s, c, p, Other(d))
                    m == s.kid[c][d]
                IN  /\ m \in V /\ \E b : Twice(r, [s EXCEPT !.bal = b], c, m, p, Other(d))
                    /\ \E C, K : Tree(r, V, C, K)
                    /\ \E h : Heights(r, V, h, {x}, {m})

\* A round of avl_erase_balance: n is about to be one lower than p knows; x,
\* the node to unlink, counts as gone, and is neither p nor below its other child.
LEMMA ShrunkStep ==
  ASSUME NEW s \in Links, NEW V, NEW D, NEW M, Tree(s, V, D, M),
         NEW n \in V, NEW p \in V, NEW d \in Side, s.kid[p][d] = n, NEW c, c = s.kid[p][Other(d)],
         NEW x, x # p, x # c, c # NULL => x # s.kid[c][d],
         NEW g, Heights(s, V, g, {x}, {n})
  PROVE  Shrunk(s, V, D, M, p, d, c, x)
<1> DEFINE o == Other(d)
           G == g[n]
           B == g[c]
<1>1. /\ V \subseteq Node /\ NULL \notin Node /\ o \in Side /\ o # d /\ Other(o) = d
      /\ "equal" # d /\ "equal" # o /\ n # p /\ c # n /\ c # p /\ c \in V \union {NULL}
  <2>1. /\ V \subseteq Node /\ NULL \notin Node /\ o \in Side /\ o # d /\ Other(o) = d
        /\ "equal" # d /\ "equal" # o
    BY TreeFacts, SideIs
  <2>2. /\ n # p /\ s.kid[p][o] # n
        /\ \A e \in Side : s.kid[n][e] # p /\ s.kid[n][e] # n /\ s.kid[p][e] # p
    BY Around
  <2>3. c \in V \union {NULL} BY <2>1, TreeFacts
  <2> QED BY <2>1, <2>2, <2>3
<1>2. s.bal[p] \in Bits /\ s.bal \in [Node -> Bits] BY <1>1 DEF Links
<1>3. g \in [V \union {NULL} -> Nat] /\ g[NULL] = 0 BY DEF Heights
<1>4. G \in Nat /\ g[p] \in Nat /\ B \in Nat /\ \A y \in V, e \in Side : g[s.kid[y][e]] \in Nat
  <2>1. \A y \in V, e \in Side : s.kid[y][e] \in V \union {NULL} BY TreeFacts
  <2> QED BY <2>1, <1>1, <1>3
<1>5. /\ Own(g, {x}, {n}, n) = IF n = x THEN G ELSE G - 1
      /\ \A y \in V : y # n /\ y # x => Own(g, {x}, {n}, y) = g[y]
      /\ \A y \in V : y # n /\ y = x => Own(g, {x}, {n}, y) = g[y] + 1
  BY <1>3, <1>4 DEF Own
<1>6. G >= 1
  <2>1. Level(s, g, n, Own(g, {x}, {n}, n)) BY DEF Heights
  <2>2. Own(g, {x}, {n}, n) >= 1
    <3>1. s.bal[n] \in Bits BY <1>1, <1>2
    <3>2. g[s.kid[n][d]] \in Nat /\ g[s.kid[n][o]] \in Nat BY <1>1, <1>4
    <3>3. Own(g, {x}, {n}, n) = g[s.kid[n][d]] + 1 \/ Own(g, {x}, {n}, n) = g[s.kid[n][o]] + 1
      <4> DEFINE w == Own(g, {x}, {n}, n)
      <4> HIDE DEF w
      <4>1. Level(s, g, n, w) BY <2>1 DEF w
      <4>2. /\ s.bal[n] = "equal" => w = g[s.kid[n][d]] + 1
            /\ s.bal[n] = d => w = g[s.kid[n][d]] + 1
            /\ s.bal[n] = o => w = g[s.kid[n][o]] + 1
        BY <3>1, <4>1, LevelBy
      <4>3. s.bal[n] = "equal" \/ s.bal[n] = d \/ s.bal[n] = o BY <3>1, SideIs DEF Bits
      <4> QED BY <4>2, <4>3 DEF w
    <3> QED BY <3>2, <3>3
  <2> QED BY <2>2, <1>4, <1>5
<1>7. Level(s, g, p, g[p])
  <2>1. Level(s, g, p, Own(g, {x}, {n}, p)) BY DEF Heights
  <2> QED BY <2>1, <1>1, <1>5
<1>8. /\ s.bal[p] = "equal" => G = B /\ g[p] = G + 1
      /\ s.bal[p] = d => G = B + 1 /\ g[p] = G + 1
      /\ s.bal[p] = o => B = G + 1 /\ g[p] = B + 1
  BY <1>2, <1>7, LevelBy
<1>9. G - 1 \in Nat BY <1>4, <1>6
<1>10. ASSUME s.bal[p] = "equal"
       PROVE  LET r == [s EXCEPT !.bal[p] = o]
              IN  r \in Links /\ Tree(r, V, D, M) /\ \E h : Heights(r, V, h, {x}, {})
  <2> DEFINE h == [g EXCEPT ![n] = G - 1]
             r == [s EXCEPT !.bal[p] = o]
  <2>1. h \in [V \union {NULL} -> Nat] /\ h[NULL] = 0 /\ h[n] = G - 1 /\ \A y \in V \union {NULL} : y # n => h[y] = g[y]
    BY <1>1, <1>3, <1>9
  <2> HIDE DEF h
  <2>2. Agree(V, g, {x}, {n}, h, {x}, {}, {p}, s.kid[p][d]) BY <2>1, <1>3, <1>4, <1>1 DEF Agree, Own
  <2>3. h[c] = B BY <2>1, <1>1
  <2>4. Level(r, h, p, Own(h, {x}, {}, p))
    <3>1. Own(h, {x}, {}, p) = G + 1 BY <2>1, <1>1, <1>4, <1>8, <1>10 DEF Own
    <3>2. r.bal[p] = o /\ r.kid = s.kid BY <1>1, <1>2 DEF Links
    <3>3. /\ r.bal[p] \in Bits /\ r.bal[p] # "equal" /\ r.bal[p] # d
          /\ h[r.kid[p][o]] = h[r.kid[p][d]] + 1 /\ Own(h, {x}, {}, p) = h[r.kid[p][o]] + 1
      BY <3>1, <3>2, <2>1, <2>3, <1>1, <1>4, <1>8, <1>10 DEF Bits
    <3> HIDE DEF r
    <3> QED BY <3>3, LevelBy
  <2>5. h[p] = g[p] /\ o \in Bits BY <2>1, <1>1 DEF Bits
  <2>6. r \in Links /\ Heights(r, V, h, {x}, {}) /\ Tree(r, V, D, M) BY <2>2, <2>4, <2>5, Retilted
  <2> QED BY <2>6
<1>11. ASSUME s.bal[p] = d
       PROVE  LET r == [s EXCEPT !.bal[p] = "equal"]
              IN  r \in Links /\ Tree(r, V, D, M) /\ \E h : Heights(r, V, h, {x}, {p})
  <2> DEFINE h == [g EXCEPT ![n] = G - 1]
             r == [s EXCEPT !.bal[p] = "equal"]
  <2>1. h \in [V \union {NULL} -> Nat] /\ h[NULL] = 0 /\ h[n] = G - 1 /\ \A y \in V \union {NULL} : y # n => h[y] = g[y]
    BY <1>1, <1>3, <1>9
  <2> HIDE DEF h
  <2>2. Agree(V, g, {x}, {n}, h, {x}, {p}, {p}, s.kid[p][d]) BY <2>1, <1>3, <1>4, <1>1 DEF Agree, Own
  <2>3. h[c] = B BY <2>1, <1>1
  <2>4. Level(r, h, p, Own(h, {x}, {p}, p))
    <3>1. Own(h, {x}, {p}, p) = G BY <2>1, <1>1, <1>4, <1>8, <1>11 DEF Own
    <3>2. r.bal[p] = "equal" /\ r.kid = s.kid BY <1>1, <1>2 DEF Links, Bits
    <3>3. /\ r.bal[p] \in Bits /\ r.bal[p] # d /\ r.bal[p] # o
          /\ h[r.kid[p][d]] = h[r.kid[p][o]] /\ Own(h, {x}, {p}, p) = h[r.kid[p][d]] + 1
      BY <3>1, <3>2, <2>1, <2>3, <1>1, <1>4, <1>8, <1>11 DEF Bits
    <3> HIDE DEF r
    <3> QED BY <3>3, LevelBy
  <2>5. h[p] = g[p] /\ "equal" \in Bits BY <2>1, <1>1 DEF Bits
  <2>6. r \in Links /\ Heights(r, V, h, {x}, {p}) /\ Tree(r, V, D, M) BY <2>2, <2>4, <2>5, Retilted
  <2> QED BY <2>6
<1>12. ASSUME s.bal[p] = o
       PROVE  /\ c \in V /\ s.bal[c] \in Bits /\ x # s.kid[c][d] /\ s.kid[p][o] = c
              /\ s.bal[c] = "equal" => g[s.kid[c][d]] = G /\ g[s.kid[c][o]] = G
              /\ s.bal[c] = o => g[s.kid[c][o]] = G /\ g[s.kid[c][d]] = G - 1
              /\ s.bal[c] = d => g[s.kid[c][d]] = G /\ g[s.kid[c][o]] = G - 1
  <2>1. c \in V BY <1>1, <1>3, <1>4, <1>8, <1>12
  <2>2. Level(s, g, c, B)
    <3>1. Level(s, g, c, Own(g, {x}, {n}, c)) BY <2>1 DEF Heights
    <3> QED BY <2>1, <3>1, <1>1, <1>5
  <2>3. s.bal[c] \in Bits BY <2>1, <1>1, <1>2
  <2>4. /\ s.bal[c] = "equal" => g[s.kid[c][d]] = g[s.kid[c][o]] /\ B = g[s.kid[c][d]] + 1
        /\ s.bal[c] = o => g[s.kid[c][o]] = g[s.kid[c][d]] + 1 /\ B = g[s.kid[c][o]] + 1
        /\ s.bal[c] = d => g[s.kid[c][d]] = g[s.kid[c][o]] + 1 /\ B = g[s.kid[c][d]] + 1
    <3>1. ASSUME NEW y, y = c, NEW w, w = B
          PROVE  /\ s.bal[y] = "equal" => g[s.kid[y][d]] = g[s.kid[y][o]] /\ w = g[s.kid[y][d]] + 1
                 /\ s.bal[y] = d => g[s.kid[y][d]] = g[s.kid[y][o]] + 1 /\ w = g[s.kid[y][d]] + 1
                 /\ s.bal[y] = o => g[s.kid[y][o]] = g[s.kid[y][d]] + 1 /\ w = g[s.kid[y][o]] + 1
      <4>1. Level(s, g, y, w) /\ s.bal[y] \in Bits BY <2>2, <2>3, <3>1
      <4> QED BY <4>1, LevelBy
    <3> QED BY <3>1
  <2>5. g[s.kid[c][d]] \in Nat /\ g[s.kid[c][o]] \in Nat BY <2>1, <1>1, <1>4
  <2>6. x # s.kid[c][d] BY <2>1, <1>1
  <2> QED BY <2>1, <2>3, <2>4, <2>5, <2>6, <1>4, <1>8, <1>12
<1>13. ASSUME s.bal[p] = o, s.bal[c] = "equal"
       PROVE  LET r == Rotate([s EXCEPT !.bal[c] = d], c, p, o)
              IN  /\ \E b : Rotated(r, [s EXCEPT !.bal = b], c, p, o)
                  /\ \E C, K : Tree(r, V, C, K)
                  /\ \E h : Heights(r, V, h, {x}, {})
  <2> DEFINE h == [g EXCEPT ![n] = G - 1, ![p] = G + 1, ![c] = G + 2]
             u == [s EXCEPT !.bal[c] = d]
             r == Rotate(u, c, p, o)
             k == G - 1
  <2>1. /\ h \in [V \union {NULL} -> Nat] /\ h[NULL] = 0 /\ h[n] = G - 1 /\ h[p] = G + 1 /\ h[c] = G + 2
        /\ \A y \in (V \union {NULL}) : y # n /\ y # p /\ y # c => h[y] = g[y]
    BY <1>1, <1>3, <1>4, <1>9, <1>12, <1>13
  <2> HIDE DEF h
  <2>2. Agree(V, g, {x}, {n}, h, {x}, {}, {c, p}, s.kid[p][Other(o)]) BY <2>1, <1>3, <1>4, <1>1 DEF Agree, Own
  <2>3. /\ g[s.kid[c][Other(o)]] = k + 1 /\ g[s.kid[c][o]] = k + 1 /\ h[s.kid[p][Other(o)]] = k
        /\ h[c] = g[p] /\ h[p] = k + 2
    BY <2>1, <1>1, <1>4, <1>8, <1>12, <1>13
  <2>4. Own(h, {x}, {}, c) = k + 3 /\ Own(h, {x}, {}, p) = k + 2 BY <2>1, <1>1, <1>4 DEF Own
  <2>5. k \in Nat /\ c \in V /\ s.kid[p][o] = c BY <1>9, <1>12, <1>13
  <2> HIDE DEF k
  <2>6. ASSUME NEW e \in Side, e = o
        PROVE  LET v == [s EXCEPT !.bal[c] = Other(e)]
                   q == Rotate(v, c, p, e)
               IN  Rotated(q, v, c, p, e) /\ Heights(q, V, h, {x}, {}) /\ \E C, K : Tree(q, V, C, K)
    <3>1. s.kid[p][e] = c /\ s.bal[p] = e /\ Agree(V, g, {x}, {n}, h, {x}, {}, {c, p}, s.kid[p][Other(e)])
      BY <2>2, <2>5, <2>6, <1>13
    <3>2. /\ g[s.kid[c][Other(e)]] = k + 1 /\ g[s.kid[c][e]] = k + 1 /\ h[s.kid[p][Other(e)]] = k
          /\ h[c] = g[p] /\ h[p] = k + 2
      BY <2>3, <2>6
    <3> QED BY <3>1, <3>2, <2>4, <2>5, LeanLevels
  <2>7. Rotated(r, u, c, p, o) /\ Heights(r, V, h, {x}, {}) /\ \E C, K : Tree(r, V, C, K)
    BY <2>6, <1>1
  <2>8. u = [s EXCEPT !.bal = u.bal] BY DEF Links
  <2> HIDE DEF r, u
  <2>9. Rotated(r, [s EXCEPT !.bal = u.bal], c, p, o) BY <2>7, <2>8
  <2> QED BY <2>7, <2>9 DEF r, u
<1>14. ASSUME s.bal[p] = o, s.bal[c] = o
       PROVE  LET r == RotateOnce(s, c, p, o)
              IN  /\ \E b : Rotated(r, [s EXCEPT !.bal = b], c, p, o)
                  /\ \E C, K : Tree(r, V, C, K)
                  /\ \E h : Heights(r, V, h, {x}, {c})
  <2> DEFINE h == [g EXCEPT ![n] = G - 1, ![p] = G, ![c] = G + 2]
             u == [s EXCEPT !.bal[c] = "equal", !.bal[p] = "equal"]
             r == RotateOnce(s, c, p, o)
             k == G - 1
  <2>1. /\ h \in [V \union {NULL} -> Nat] /\ h[NULL] = 0 /\ h[n] = G - 1 /\ h[p] = G /\ h[c] = G + 2
        /\ \A y \in (V \union {NULL}) : y # n /\ y # p /\ y # c => h[y] = g[y]
    BY <1>1, <1>3, <1>4, <1>9, <1>12, <1>14
  <2> HIDE DEF h
  <2>2. Agree(V, g, {x}, {n}, h, {x}, {c}, {c, p}, s.kid[p][Other(o)]) BY <2>1, <1>3, <1>4, <1>1 DEF Agree, Own
  <2>3. /\ g[s.kid[c][Other(o)]] = k /\ g[s.kid[c][o]] = k + 1 /\ h[s.kid[p][Other(o)]] = k
        /\ h[c] = g[p] /\ h[p] = k + 1
    BY <2>1, <1>1, <1>4, <1>8, <1>12, <1>14
  <2>4. Own(h, {x}, {c}, c) = k + 2 /\ Own(h, {x}, {c}, p) = k + 1 BY <2>1, <1>1, <1>4 DEF Own
  <2>5. k \in Nat /\ c \in V /\ s.kid[p][o] = c BY <1>9, <1>12, <1>14
  <2> HIDE DEF k
  <2>7. Rotated(r, u, c, p, o) /\ Heights(r, V, h, {x}, {c}) /\ \E C, K : Tree(r, V, C, K)
    BY <2>2, <2>3, <2>4, <2>5, <1>1, OnceLevels
  <2>8. u = [s EXCEPT !.bal = u.bal] BY DEF Links
  <2> HIDE DEF r, u
  <2>9. Rotated(r, [s EXCEPT !.bal = u.bal], c, p, o) BY <2>7, <2>8
  <2> QED BY <2>7, <2>9 DEF r
<1>15. ASSUME s.bal[p] = o, s.bal[c] = d
       PROVE  LET r == RotateTwice(s, c, p, o)
                  m == s.kid[c][d]
              IN  /\ m \in V /\ \E b : Twice(r, [s EXCEPT !.bal = b], c, m, p, o)
                  /\ \E C, K : Tree(r, V, C, K)
                  /\ \E h : Heights(r, V, h, {x}, {m})
  <2> DEFINE m == s.kid[c][d]
             h == [g EXCEPT ![n] = G - 1, ![m] = G + 2, ![c] = G, ![p] = G]
             r == RotateTwice(s, c, p, o)
             k == G - 1
  <2>0. m \in V /\ m # n /\ m # p /\ m # c /\ m # x
    <3>1. m # NULL BY <1>3, <1>4, <1>6, <1>12, <1>15
    <3>2. c \in V /\ s.kid[p][o] = c BY <1>12, <1>15
    <3>3. /\ \A e \in Side : /\ s.kid[c][e] # p /\ s.kid[c][e] # c
                             /\ s.kid[c][e] # NULL => s.kid[c][e] # s.kid[p][Other(o)]
      BY <3>2, <1>1, Around
    <3>4. m \in V BY <3>1, <3>2, TreeFacts
    <3>5. m # p /\ m # c /\ m # s.kid[p][Other(o)] BY <3>1, <3>3
    <3>6. s.kid[p][Other(o)] = n /\ m # x BY <1>1, <1>12, <1>15
    <3> QED BY <3>4, <3>5, <3>6
  <2> HIDE DEF m
  <2>1. /\ h \in [V \union {NULL} -> Nat] /\ h[NULL] = 0 /\ h[n] = G - 1 /\ h[p] = G /\ h[c] = G /\ h[m] = G + 2
        /\ \A y \in (V \union {NULL}) : y # n /\ y # p /\ y # c /\ y # m => h[y] = g[y]
    BY <2>0, <1>1, <1>3, <1>4, <1>9, <1>12, <1>15
  <2> HIDE DEF h
  <2>2. Agree(V, g, {x}, {n}, h, {x}, {m}, {c, m, p}, s.kid[p][Other(o)])
    BY <2>0, <2>1, <1>3, <1>4, <1>1 DEF Agree, Own
  <2>3. g[m] = G BY <1>12, <1>15 DEF m
  <2>4. Level(s, g, m, k + 1)
    <3>1. Level(s, g, m, Own(g, {x}, {n}, m)) BY <2>0 DEF Heights
    <3>2. k + 1 = G BY <1>4
    <3> QED BY <3>1, <3>2, <2>0, <2>3, <1>5
  <2>5. /\ g[s.kid[c][o]] = k /\ h[s.kid[p][Other(o)]] = k
        /\ h[m] = g[p] /\ h[c] = k + 1 /\ h[p] = k + 1
    BY <2>1, <1>1, <1>4, <1>8, <1>12, <1>15
  <2>6. Own(h, {x}, {m}, c) = k + 1 /\ Own(h, {x}, {m}, p) = k + 1 /\ Own(h, {x}, {m}, m) = k + 2
    BY <2>0, <2>1, <1>1, <1>4 DEF Own
  <2>7. k \in Nat /\ c \in V /\ s.kid[p][o] = c /\ s.kid[c][Other(o)] = m BY <1>1, <1>9, <1>12, <1>15 DEF m
  <2> HIDE DEF k
  <2>8. /\ \E b : Twice(r, [s EXCEPT !.bal = b], c, m, p, o)
        /\ Heights(r, V, h, {x}, {m}) /\ \E C, K : Tree(r, V, C, K)
    BY <2>0, <2>2, <2>4, <2>5, <2>6, <2>7, <1>1, TwiceLevelled
  <2> QED BY <2>0, <2>8 DEF m
<1> QED BY <1>10, <1>11, <1>12, <1>13, <1>14, <1>15 DEF Shrunk

----------------------------------------------------------------------------
\* Where the postorder walk goes down from x, and C, the way down from k to
\* the leaf l at which it enters the subtree of k.
Down(s, x) == IF s.kid[x].left # NULL THEN s.kid[x].left ELSE s.kid[x].right
Entry(s, W, C, k, l) ==
    /\ C \subseteq W /\ k \in C /\ l \in C /\ Down(s, l) = NULL
    /\ \A y \in C : /\ y = l \/ Down(s, y) \in C
                    /\ y = k \/ (s.par[y] \in C /\ y = Down(s, s.par[y]))

LEMMA DownIs ==
  ASSUME NEW s, NEW V, NEW D, NEW M, Ranked(s, V, D, M), NEW k \in Node
  PROVE  LeftDeepest(s, k) = IF Down(s, k) = NULL THEN k ELSE LeftDeepest(s, Down(s, k))
<1> DEFINE X == Node \union {NULL}
           G == [z \in Node \X X \X X |->
                    IF s.kid[z[1]].left # NULL THEN z[2] ELSE IF s.kid[z[1]].right # NULL THEN z[3] ELSE z[1]]
           h == CHOOSE f : f = [x \in Node |-> IF s.kid[x].left # NULL THEN f[s.kid[x].left]
                                               ELSE IF s.kid[x].right # NULL THEN f[s.kid[x].right] ELSE x]
<1>1. V \subseteq Node /\ NULL \notin Node BY NodeAssumption DEF Ranked
<1>2. G \in [Node \X X \X X -> X] OBVIOUS
<1>3. \A x \in Node, p, q \in X :
         G[<<x, p, q>>] = IF s.kid[x].left # NULL THEN p ELSE IF s.kid[x].right # NULL THEN q ELSE x
  OBVIOUS
<1>4. NULL \in X OBVIOUS
<1> HIDE DEF X, G
<1>5. PICK g \in [Node \union {NULL} -> X] : g[NULL] = NULL /\ Solves(s, Node, g, G)
  BY <1>2, <1>4, Recursion
<1>6. \A x \in Node : s.kid[x].left \in Node \union {NULL} /\ s.kid[x].right \in Node \union {NULL}
  BY <1>1 DEF Ranked, Side
<1>7. ASSUME NEW x \in Node
      PROVE  g[x] = IF s.kid[x].left # NULL THEN g[s.kid[x].left]
                    ELSE IF s.kid[x].right # NULL THEN g[s.kid[x].right] ELSE x
  <2>1. g[s.kid[x].left] \in X /\ g[s.kid[x].right] \in X BY <1>5, <1>6
  <2>2. g[x] = G[<<x, g[s.kid[x].left], g[s.kid[x].right]>>] BY <1>5 DEF Solves
  <2> QED BY <2>1, <2>2, <1>3
<1> DEFINE f == [x \in Node |-> g[x]]
<1>8. f = [x \in Node |-> IF s.kid[x].left # NULL THEN f[s.kid[x].left]
                          ELSE IF s.kid[x].right # NULL THEN f[s.kid[x].right] ELSE x]
  <2>1. ASSUME NEW x \in Node
        PROVE  f[x] = IF s.kid[x].left # NULL THEN f[s.kid[x].left]
                      ELSE IF s.kid[x].right # NULL THEN f[s.kid[x].right] ELSE x
    BY <1>6, <1>7
  <2>2. f = [x \in Node |-> f[x]] OBVIOUS
  <2> HIDE DEF f
  <2> QED BY <2>1, <2>2
<1>9. h = [x \in Node |-> IF s.kid[x].left # NULL THEN h[s.kid[x].left]
                          ELSE IF s.kid[x].right # NULL THEN h[s.kid[x].right] ELSE x]
  BY <1>8, Zenon
<1>10. \A x : LeftDeepest(s, x) = h[x] BY Zenon DEF LeftDeepest
<1> HIDE DEF h
<1>11. h[k] = IF s.kid[k].left # NULL THEN h[s.kid[k].left]
              ELSE IF s.kid[k].right # NULL THEN h[s.kid[k].right] ELSE k
  BY <1>9
<1> QED BY <1>10, <1>11 DEF Down

\* W holds whole subtrees.
Whole(s, W) ==
    \A x \in W, d \in Side : /\ s.kid[x][d] \in W \union {NULL}
                             /\ s.kid[x][d] # NULL => s.par[s.kid[x][d]] = x

LEMMA EntryIs ==
  ASSUME NEW s, NEW V, NEW D, NEW M, Ranked(s, V, D, M), NEW W, W \subseteq V, Whole(s, W), NEW k \in W
  PROVE  LET l == LeftDeepest(s, k) IN l \in W /\ \E C : Entry(s, W, C, k, l)
<1> DEFINE e(x) == LeftDeepest(s, x)
           T == {x \in V : x \in W => \E C : Entry(s, W, C, x, e(x))}
<1>1. W \subseteq Node /\ NULL \notin W /\ "right" \in Side /\ "left" \in Side
  BY SideIs, NodeAssumption DEF Ranked
<1>2. \A x \in W : e(x) = IF Down(s, x) = NULL THEN x ELSE e(Down(s, x)) BY <1>1, DownIs
<1> HIDE DEF e
<1>3. ASSUME NEW x \in V, s.kid[x].left \in T \union {NULL}, s.kid[x].right \in T \union {NULL} PROVE x \in T
  <2> SUFFICES ASSUME x \in W PROVE \E C : Entry(s, W, C, x, e(x)) OBVIOUS
  <2>1. CASE Down(s, x) = NULL
    <3>1. e(x) = x BY <2>1, <1>2
    <3>2. Entry(s, W, {x}, x, x) BY <2>1 DEF Entry
    <3> QED BY <3>1, <3>2
  <2>2. CASE Down(s, x) # NULL
    <3> DEFINE y == Down(s, x)
    <3>1. y \in T /\ y \in W /\ s.par[y] = x BY <2>2, <1>1, <1>3 DEF Down, Whole
    <3>2. PICK C : Entry(s, W, C, y, e(y)) BY <3>1
    <3>3. e(x) = e(y) BY <2>2, <1>2
    <3>4. Entry(s, W, C \union {x}, x, e(x)) BY <3>1, <3>2, <3>3 DEF Entry
    <3> QED BY <3>4
  <2> QED BY <2>1, <2>2
<1> HIDE DEF T
<1>4. V \subseteq T BY <1>3, FromLeaves
<1>5. PICK C : Entry(s, W, C, k, e(k)) BY <1>4 DEF T
<1> QED BY <1>5 DEF Entry, e

\* While the nodes of a tree are freed, V are left and U is the way from the
\* root to n, the next to free: what is left of a node of U is freed already,
\* what is right of it is whole.
Torn(s, V, U, n) ==
    /\ \E W, D, M : Ranked(s, W, D, M) /\ V \subseteq W
    /\ \A x \in V : /\ s.par[x] \in V \union {NULL}
                    /\ s.par[x] = NULL => x = s.root
                    /\ s.par[x] # NULL => \E d \in Side : s.kid[s.par[x]][d] = x
                    /\ \A d \in Side : s.kid[x][d] \in V => s.par[s.kid[x][d]] = x
                    /\ s.kid[x].left # NULL => s.kid[x].left # s.kid[x].right
    /\ \A x \in Node \ V : s.par[x] = x /\ \A d \in Side : s.kid[x][d] = NULL
    /\ U \subseteq V /\ \A x \in U : s.par[x] \in U \union {NULL}
    /\ Whole(s, V \ U)
    /\ \A x \in U \ {n} : \/ s.kid[x].left \in U /\ s.kid[x].right \in (V \ U) \union {NULL}
                          \/ s.kid[x].right \in U /\ s.kid[x].left \notin V
    /\ IF n = NULL THEN V = {} ELSE n \in U /\ \A d \in Side : s.kid[n][d] \notin V

\* The loop begins at the leaf where the walk enters the tree.
LEMMA TornFirst ==
  ASSUME NEW s, NEW V, NEW D, NEW M, Tree(s, V, D, M), s.root # NULL
  PROVE  \E U : Torn(s, V, U, FirstPostorder(s))
<1> DEFINE l == FirstPostorder(s)
<1>1. V \subseteq Node /\ NULL \notin Node /\ s.root \in V /\ Ranked(s, V, D, M) BY TreeFacts DEF Tree
<1>2. Whole(s, V) BY TreeFacts DEF Whole
<1>3. l = LeftDeepest(s, s.root) BY DEF FirstPostorder
<1>4. PICK C : Entry(s, V, C, s.root, l) BY <1>1, <1>2, <1>3, EntryIs
<1> HIDE DEF l
<1>5. C \subseteq V /\ s.root \in C /\ l \in C /\ s.kid[l].left = NULL /\ s.kid[l].right = NULL
  BY <1>4 DEF Entry, Down
<1>6. s.par[s.root] = NULL BY <1>1, TreeFacts
<1>7. \A x \in V, d \in Side : /\ s.kid[x][d] \in V \union {NULL}
                               /\ s.kid[x][d] # NULL => s.par[s.kid[x][d]] = x
  BY <1>2 DEF Whole
<1>8. \A y \in C : s.par[y] \in C \union {NULL} BY <1>4, <1>6 DEF Entry
<1>9. ASSUME NEW x \in V \ C, NEW d \in Side, s.kid[x][d] # NULL PROVE s.kid[x][d] \in V \ C
  BY <1>1, <1>7, <1>8, <1>9
<1>10. ASSUME NEW x \in C \ {l}
       PROVE  \/ s.kid[x].left \in C /\ s.kid[x].right \in (V \ C) \union {NULL}
              \/ s.kid[x].right \in C /\ s.kid[x].left \notin V
  <2>1. Down(s, x) \in C BY <1>4 DEF Entry
  <2>2. CASE s.kid[x].left = NULL BY <2>1, <2>2, <1>1 DEF Down
  <2>3. CASE s.kid[x].left # NULL
    <3>1. s.kid[x].left \in C BY <2>1, <2>3 DEF Down
    <3>2. ASSUME s.kid[x].right \in C PROVE FALSE
      <4>1. s.par[s.kid[x].right] = x BY <3>2, <1>1, <1>5, <1>7 DEF Side
      <4>2. s.kid[x].right # s.root BY <4>1, <1>1, <1>5, <1>6
      <4>3. s.kid[x].right = s.kid[x].left BY <4>1, <4>2, <3>2, <2>3, <1>4 DEF Entry, Down
      <4> QED BY <4>3, <2>3, <1>5, TreeFacts
    <3>3. s.kid[x].right \in V \union {NULL} BY <1>5, <1>7 DEF Side
    <3> QED BY <3>1, <3>2, <3>3
  <2> QED BY <2>2, <2>3
<1>11. Whole(s, V \ C) BY <1>7, <1>9 DEF Whole
<1>12. \A d \in Side : s.kid[l][d] \notin V BY <1>1, <1>5 DEF Side
<1>13. \A x \in V : /\ s.par[x] \in V \union {NULL}
                    /\ s.par[x] = NULL => x = s.root
                    /\ s.par[x] # NULL => \E d \in Side : s.kid[s.par[x]][d] = x
                    /\ \A d \in Side : s.kid[x][d] \in V => s.par[s.kid[x][d]] = x
                    /\ s.kid[x].left # NULL => s.kid[x].left # s.kid[x].right
  BY <1>1, TreeFacts
<1>14. \A x \in Node \ V : s.par[x] = x /\ \A d \in Side : s.kid[x][d] = NULL BY TreeFacts
<1>15. l # NULL BY <1>1, <1>5
<1> QED BY <1>1, <1>5, <1>8, <1>10, <1>11, <1>12, <1>13, <1>14, <1>15 DEF Torn, l

\* What all of V keeps when n is freed, r is s without n.
Kept(s, r, V, n) ==
    /\ r.root = s.root /\ \A x \in Node \ {n} : r.par[x] = s.par[x] /\ r.kid[x] = s.kid[x]
    /\ r.par[n] = n /\ \A d \in Side : r.kid[n][d] = NULL

\* From the left child the walk enters the right one, else it goes up: it
\* arrives at a node whose children are freed.
LEMMA TornStep ==
  ASSUME NEW s, NEW V, NEW U, NEW n \in V, Torn(s, V, U, n), NEW r, Kept(s, r, V, n)
  PROVE  LET m == NextPostorder(s, n)
         IN  m \in (V \ {n}) \union {NULL} /\ \E U2 : Torn(r, V \ {n}, U2, m)
<1> DEFINE p == s.par[n]
           Z == V \ {n}
<1>1. PICK W, D, M : Ranked(s, W, D, M) /\ V \subseteq W BY DEF Torn
<1>2. W \subseteq Node /\ NULL \notin Node /\ D \in [W -> 0 .. M] /\ M \in Nat /\ n # NULL
  BY <1>1, NodeAssumption DEF Ranked
<1>3. /\ n \in U /\ U \subseteq V /\ p \in U \union {NULL} /\ \A d \in Side : s.kid[n][d] \notin V
      /\ Whole(s, V \ U)
  BY <1>2 DEF Torn
<1>4. \A x \in V : /\ s.par[x] \in V \union {NULL}
                   /\ s.par[x] # NULL => D[s.par[x]] < D[x] /\ \E d \in Side : s.kid[s.par[x]][d] = x
  <2> TAKE x \in V
  <2>1. s.par[x] \in V \union {NULL} /\ (s.par[x] # NULL => \E d \in Side : s.kid[s.par[x]][d] = x)
    BY DEF Torn
  <2>2. x # NULL /\ (s.par[x] # NULL => s.par[x] \in W) BY <2>1, <1>1, <1>2
  <2> QED BY <2>1, <2>2, <1>1 DEF Ranked
<1>5. \A x \in V : s.par[x] # n BY <1>2, <1>3, <1>4
<1>6. Ranked(r, W, D, M) BY <1>1, <1>2 DEF Ranked, Kept
<1>7. \A x \in Z : /\ r.par[x] = s.par[x] /\ r.kid[x] = s.kid[x] /\ s.par[x] \in Z \union {NULL}
                   /\ s.par[x] = NULL => x = r.root
  BY <1>1, <1>2, <1>4, <1>5 DEF Kept, Torn
<1>8. \A x \in Z : /\ r.par[x] \in Z \union {NULL}
                   /\ r.par[x] = NULL => x = r.root
                   /\ r.par[x] # NULL => \E d \in Side : r.kid[r.par[x]][d] = x
                   /\ \A d \in Side : r.kid[x][d] \in Z => r.par[r.kid[x][d]] = x
                   /\ r.kid[x].left # NULL => r.kid[x].left # r.kid[x].right
  <2> TAKE x \in Z
  <2>1. r.par[x] \in Z \union {NULL} /\ (r.par[x] = NULL => x = r.root) BY <1>7
  <2>2. r.par[x] # NULL => \E d \in Side : r.kid[r.par[x]][d] = x BY <1>4, <1>7
  <2>3. \A d \in Side : r.kid[x][d] \in Z => r.par[r.kid[x][d]] = x BY <1>7 DEF Torn
  <2>4. r.kid[x].left # NULL => r.kid[x].left # r.kid[x].right BY <1>7 DEF Torn
  <2> QED BY <2>1, <2>2, <2>3, <2>4
<1>9. \A x \in Node \ Z : r.par[x] = x /\ \A d \in Side : r.kid[x][d] = NULL BY DEF Torn, Kept
<1>10. Z \ (U \ {n}) = V \ U BY <1>3
<1>11. ASSUME NEW x \in V \ U PROVE r.kid[x] = s.kid[x] /\ \A y \in V \ U : r.par[y] = s.par[y]
  BY <1>3, <1>7
<1>12. Whole(r, V \ U)
  <2> SUFFICES ASSUME NEW x \in V \ U, NEW d \in Side
               PROVE  /\ r.kid[x][d] \in (V \ U) \union {NULL}
                      /\ r.kid[x][d] # NULL => r.par[r.kid[x][d]] = x
    BY DEF Whole
  <2>1. s.kid[x][d] \in (V \ U) \union {NULL} /\ (s.kid[x][d] # NULL => s.par[s.kid[x][d]] = x)
    BY <1>3 DEF Whole
  <2> QED BY <2>1, <1>11
<1>13. ASSUME NEW x \in U \ {n}
       PROVE  \/ s.kid[x].left \in U /\ s.kid[x].right \in (V \ U) \union {NULL}
              \/ s.kid[x].right \in U /\ s.kid[x].left \notin V
  BY DEF Torn
<1>14. \A x \in U \ {n} : r.kid[x] = s.kid[x] /\ r.par[x] = s.par[x] /\ s.par[x] \in (U \ {n}) \union {NULL}
  BY <1>3, <1>5, <1>7 DEF Torn
\* Of a node above, but for p, the same children are on the way.
<1>15. ASSUME NEW x \in U \ {n}, x # p
       PROVE  \/ r.kid[x].left \in U \ {n} /\ r.kid[x].right \in (V \ U) \union {NULL}
              \/ r.kid[x].right \in U \ {n} /\ r.kid[x].left \notin Z
  <2>1. \A d \in Side : s.kid[x][d] \in V => s.par[s.kid[x][d]] = x BY <1>3 DEF Torn
  <2>2. s.kid[x].left # n /\ s.kid[x].right # n BY <2>1, <1>15 DEF Side
  <2> QED BY <2>2, <1>13, <1>14
<1>16. CASE p = NULL
  <2> DEFINE B == {D[x] : x \in V \ {n}}
  <2>1. ASSUME V \ {n} # {} PROVE FALSE
    <3>1. B \subseteq Nat /\ B # {} BY <2>1, <1>1, <1>2
    <3>2. PICK b \in B : \A c \in B : b <= c BY <3>1, NatMin
    <3>3. PICK x \in V \ {n} : b = D[x] BY <3>2
    <3>4. s.par[x] # NULL
      <4>1. n = s.root BY <1>16 DEF Torn
      <4>2. s.par[x] = NULL => x = s.root BY DEF Torn
      <4> QED BY <3>3, <4>1, <4>2
    <3>5. s.par[x] \in V \ {n} /\ D[s.par[x]] < D[x] BY <3>4, <1>4, <1>5
    <3>6. D[s.par[x]] \in B BY <3>5
    <3>7. D[x] \in Nat /\ D[s.par[x]] \in Nat BY <3>5, <1>1, <1>2
    <3>8. D[x] <= D[s.par[x]] BY <3>2, <3>3, <3>6
    <3> HIDE DEF B
    <3> QED BY <3>5, <3>7, <3>8
  <2>2. NextPostorder(s, n) = NULL BY <1>2, <1>16 DEF NextPostorder
  <2>3. Z = {} BY <2>1
  <2>4. Whole(r, {}) BY DEF Whole
  <2>5. \A x \in Node \ {} : r.par[x] = x /\ \A d \in Side : r.kid[x][d] = NULL BY <2>3, <1>9
  <2>6. {} \ {} = {} /\ {} \subseteq W OBVIOUS
  <2>7. Torn(r, {}, {}, NULL) BY <2>4, <2>5, <2>6, <1>6 DEF Torn
  <2> QED BY <2>2, <2>3, <2>7
<1>17. CASE p # NULL /\ n = s.kid[p].left /\ s.kid[p].right # NULL
  <2> DEFINE k == s.kid[p].right
             l == LeftDeepest(s, k)
  <2>1. NextPostorder(s, n) = l BY <1>2, <1>17 DEF NextPostorder
  <2>2. p \in U \ {n} BY <1>3, <1>5, <1>17
  <2>3. k \in V \ U /\ k # NULL
    <3>1. s.kid[p].right \in (V \ U) \union {NULL} BY <2>2, <1>3, <1>13, <1>17
    <3> QED BY <3>1, <1>17
  <2>4. s.par[k] = p BY <2>2, <2>3, <1>3, SideIs DEF Torn
  <2> HIDE DEF k
  <2>5. V \ U \subseteq W BY <1>1
  <2>6. l \in V \ U /\ \E C : Entry(s, V \ U, C, k, l) BY <2>3, <2>5, <1>1, <1>3, EntryIs
  <2>7. PICK C : Entry(s, V \ U, C, k, l) BY <2>6
  <2> HIDE DEF l
  <2> DEFINE Y == (U \ {n}) \union C
  <2>8. C \subseteq V \ U /\ k \in C /\ l \in C /\ s.kid[l].left = NULL /\ s.kid[l].right = NULL
    BY <2>7 DEF Entry, Down
  <2>9. Y \subseteq Z /\ l \in Y /\ l # NULL BY <2>8, <1>1, <1>2, <1>3
  <2>10. \A y \in C : (y = k /\ s.par[y] = p) \/ (s.par[y] \in C /\ y = Down(s, s.par[y]))
    BY <2>4, <2>7 DEF Entry
  <2>11. \A x \in Y : r.par[x] \in Y \union {NULL}
    BY <2>2, <2>8, <2>10, <1>3, <1>7, <1>14
  <2>12. Z \ Y = (V \ U) \ C BY <2>8, <1>3
  <2>13. Whole(r, Z \ Y)
    <3> SUFFICES ASSUME NEW x \in (V \ U) \ C, NEW d \in Side
                 PROVE  /\ r.kid[x][d] \in ((V \ U) \ C) \union {NULL}
                        /\ r.kid[x][d] # NULL => r.par[r.kid[x][d]] = x
      BY <2>12 DEF Whole
    <3>1. /\ r.kid[x][d] \in (V \ U) \union {NULL}
          /\ r.kid[x][d] # NULL => r.par[r.kid[x][d]] = x
      BY <1>12 DEF Whole
    <3>2. ASSUME r.kid[x][d] \in C PROVE FALSE
      <4>1. s.par[r.kid[x][d]] = x BY <3>1, <3>2, <2>8, <1>2, <1>1, <1>11
      <4> QED BY <4>1, <3>2, <2>2, <2>10
    <3> QED BY <3>1, <3>2
  <2>14. ASSUME NEW x \in Y \ {l}
         PROVE  \/ r.kid[x].left \in Y /\ r.kid[x].right \in (Z \ Y) \union {NULL}
                \/ r.kid[x].right \in Y /\ r.kid[x].left \notin Z
    <3>1. CASE x = p
      <4>1. r.kid[x] = s.kid[x] BY <3>1, <2>2, <1>14
      <4>2. r.kid[x].left = n /\ r.kid[x].right = k BY <4>1, <3>1, <1>17 DEF k
      <4> QED BY <4>2, <2>8
    <3>2. CASE x \in U \ {n} /\ x # p
      <4>1. ASSUME s.kid[x].right \in C PROVE FALSE
        <5>1. s.par[s.kid[x].right] = x
          BY <4>1, <3>2, <2>8, <1>3, SideIs DEF Torn
        <5> QED BY <5>1, <4>1, <3>2, <2>8, <2>10
      <4>2. r.kid[x] = s.kid[x] BY <3>2, <1>14
      <4> QED BY <4>1, <4>2, <3>2, <2>8, <2>12, <1>15
    <3>3. CASE x \in C
      <4>1. Down(s, x) \in C BY <3>3, <2>7, <2>14 DEF Entry
      <4>2. r.kid[x] = s.kid[x] BY <3>3, <2>8, <1>11
      <4>3. CASE s.kid[x].left = NULL BY <4>1, <4>2, <4>3, <1>1, <1>2 DEF Down
      <4>4. CASE s.kid[x].left # NULL
        <5>1. s.kid[x].left \in C BY <4>1, <4>4 DEF Down
        <5>2. s.kid[x].left # s.kid[x].right BY <3>3, <2>8, <4>4 DEF Torn
        <5>3. ASSUME s.kid[x].right \in C PROVE FALSE
          <6>1. s.par[s.kid[x].right] = x BY <5>3, <3>3, <2>8, SideIs DEF Torn
          <6> QED BY <6>1, <5>2, <5>3, <4>4, <3>3, <2>2, <2>8, <2>10 DEF Down
        <5>4. s.kid[x].right \in (V \ U) \union {NULL} BY <3>3, <2>8, <1>3, SideIs DEF Whole
        <5> QED BY <4>2, <5>1, <5>3, <5>4, <2>12
      <4> QED BY <4>3, <4>4
    <3> QED BY <3>1, <3>2, <3>3
  <2>15. \A d \in Side : r.kid[l][d] \notin Z
    <3>1. r.kid[l] = s.kid[l] BY <2>8, <1>11
    <3> QED BY <3>1, <2>8, <1>1, <1>2 DEF Side
  <2>16. Z \subseteq W BY <1>1
  <2> HIDE DEF Y, Z
  <2>17. Torn(r, Z, Y, l)
    BY <2>9, <2>11, <2>13, <2>14, <2>15, <2>16, <1>6, <1>8, <1>9 DEF Torn
  <2> QED BY <2>1, <2>9, <2>17 DEF Z
<1>18. CASE p # NULL /\ (n # s.kid[p].left \/ s.kid[p].right = NULL)
  <2>1. NextPostorder(s, n) = p BY <1>2, <1>18 DEF NextPostorder
  <2>2. p \in U \ {n} BY <1>3, <1>5, <1>18
  <2> DEFINE Y == U \ {n}
  <2>3. \A d \in Side : s.kid[p][d] \notin Z
    <3>1. s.kid[p].left = n \/ s.kid[p].right = n
      <4>1. PICK d \in Side : s.kid[p][d] = n BY <1>4, <1>18
      <4> QED BY <4>1 DEF Side
    <3>2. s.kid[p].left \notin Z /\ s.kid[p].right \notin Z
      <4>1. CASE s.kid[p].right = n /\ s.kid[p].left # n BY <4>1, <2>2, <1>2, <1>3, <1>13
      <4>2. CASE s.kid[p].left = n
        <5>1. s.kid[p].right = NULL BY <4>2, <1>18
        <5> QED BY <4>2, <5>1, <1>1, <1>2
      <4> QED BY <3>1, <4>1, <4>2
    <3> QED BY <3>2 DEF Side
  <2>4. \A d \in Side : r.kid[p][d] \notin Z BY <2>2, <2>3, <1>14
  <2>5. \A x \in Y : r.par[x] \in Y \union {NULL} BY <1>14
  <2>6. Whole(r, Z \ Y) BY <1>10, <1>12
  <2>7. \A x \in Y \ {p} : \/ r.kid[x].left \in Y /\ r.kid[x].right \in (Z \ Y) \union {NULL}
                           \/ r.kid[x].right \in Y /\ r.kid[x].left \notin Z
    BY <1>10, <1>15
  <2>8. Z \subseteq W /\ Y \subseteq Z /\ p \in Y BY <2>2, <1>1, <1>3
  <2> HIDE DEF Y, Z
  <2>9. Torn(r, Z, Y, p)
    BY <2>4, <2>5, <2>6, <2>7, <2>8, <1>6, <1>8, <1>9, <1>18 DEF Torn
  <2> QED BY <2>1, <2>8, <2>9 DEF Z
<1> QED BY <1>16, <1>17, <1>18

\* The next node is one that is left.
LEMMA TornNext ==
  ASSUME NEW s, NEW V, NEW U, NEW n, Torn(s, V, U, n), n = NULL \/ n \in V
  PROVE  NextPostorder(s, n) \in V \union {NULL}
<1>1. CASE n = NULL BY <1>1 DEF NextPostorder
<1>2. CASE n \in V
  <2> DEFINE r == [root |-> s.root,
                   par |-> [x \in Node |-> IF x = n THEN n ELSE s.par[x]],
                   kid |-> [x \in Node |-> IF x = n THEN NoKids ELSE s.kid[x]]]
  <2>1. n \in Node /\ n # NULL
    <3>1. PICK W, D, M : Ranked(s, W, D, M) /\ V \subseteq W BY DEF Torn
    <3> QED BY <3>1, <1>2, NodeAssumption DEF Ranked
  <2>2. Kept(s, r, V, n) BY <2>1 DEF Kept, NoKids
  <2> HIDE DEF r
  <2>3. NextPostorder(s, n) \in (V \ {n}) \union {NULL} BY <2>2, <1>2, TornStep
  <2> QED BY <2>3
<1> QED BY <1>1, <1>2

----------------------------------------------------------------------------
\* The links of the nodes in the tree, and what every phase leaves to be done:
\* an insertion climbs from n, which is one higher than the nodes above know,
\* and level only as a leaf; ...
Shape(s) == s \in Links /\ \E D, M : Tree(s, In(s), D, M)
Even(s) == \E g : Heights(s, In(s), g, {}, {})
Growing(s, n) ==
    /\ n \in In(s) /\ \E g : Heights(s, In(s), g, {n}, {})
    /\ s.bal[n] = "equal" => s.kid[n].left = NULL
\* ... an erasure climbs from n, which will be one lower than they know; the
\* heights are those without r, the node to unlink in the end.
Climbing(s, n, r, v) ==
    /\ \E g : Heights(s, In(s), g, {r}, {n})
    /\ \E U : Path(s, In(s), U, n, r, v)
Unlinking(s, r, v) ==
    /\ \E g : Heights(s, In(s), g, {r}, {})
    /\ Pending(s, In(s), r, v)
Freeing(s, n, m) ==
    /\ s \in Links /\ m = NextPostorder(s, n) /\ {n, m} \subseteq In(s) \union {NULL}
    /\ \E U : Torn(s, In(s), U, n)

AvlInv ==
    /\ pc \in {"idle", "insert", "erase", "unlink", "destroy"}
    /\ IF pc = "destroy" THEN Freeing(t, node, real) ELSE Shape(t)
    /\ pc = "idle" => Even(t)
    /\ pc = "insert" => Growing(t, node)
    /\ pc = "erase" => Climbing(t, node, real, victim)
    /\ pc = "unlink" => node \in Node \union {NULL} /\ Unlinking(t, real, victim)
    /\ pc \in {"idle", "insert"} => real = NULL
    /\ pc = "idle" => node = NULL
    /\ pc \in {"idle", "insert", "destroy"} => victim = NULL

LEMMA ShapeFacts ==
  ASSUME NEW s, Shape(s)
  PROVE  /\ In(s) \subseteq Node /\ NULL \notin Node /\ s \in Links /\ Linked(s) = In(s)
         /\ s.root \in In(s) \union {NULL} /\ (s.root # NULL => s.par[s.root] = NULL)
         /\ \A n \in In(s) :
               /\ s.par[n] \in In(s) \union {NULL}
               /\ s.par[n] = NULL => n = s.root
               /\ s.par[n] # NULL => \E d \in Side : s.kid[s.par[n]][d] = n
               /\ \A d \in Side : /\ s.kid[n][d] \in In(s) \union {NULL}
                                  /\ s.kid[n][d] # NULL => s.par[s.kid[n][d]] = n
         /\ \A n \in Node \ In(s) : s.par[n] = n /\ \A d \in Side : s.kid[n][d] = NULL
<1>1. PICK D, M : Tree(s, In(s), D, M) BY DEF Shape
<1> QED BY <1>1, TreeFacts, LinkedIs DEF Shape

LEMMA ShapeIs ==
  ASSUME NEW s \in Links, NEW V, NEW D, NEW M, Tree(s, V, D, M)
  PROVE  Shape(s) /\ In(s) = V
<1>1. In(s) = V BY InIs
<1> QED BY <1>1 DEF Shape

LEMMA InitAvlInv == ASSUME Init PROVE AvlInv
<1>1. /\ t.root = NULL /\ t \in Links
      /\ \A n \in Node : t.par[n] = n /\ \A d \in Side : t.kid[n][d] = NULL
  BY DEF Init, Links, NoKids, Bits
<1>2. In(t) = {} BY <1>1 DEF In
<1>3. Tree(t, {}, [x \in {} |-> 0], 0) BY <1>1 DEF Tree, Ranked
<1>4. Shape(t) BY <1>1, <1>2, <1>3 DEF Shape
<1>5. Even(t)
  <2>1. Heights(t, {}, [x \in {NULL} |-> 0], {}, {}) BY DEF Heights
  <2> QED BY <2>1, <1>2 DEF Even
<1> QED BY <1>4, <1>5 DEF AvlInv, Init

----------------------------------------------------------------------------
LEMMA InsertStep == ASSUME AvlInv, NEW n \in Node, Insert(n) PROVE AvlInv' /\ In(t') = In(t) \union {n}
<1> DEFINE V == In(t)
           p == Locate(Key[n])
           d == IF Key[n] < Key[p] THEN "left" ELSE "right"
<1>1. /\ Shape(t) /\ Even(t) /\ n \in Node \ V /\ pc' = "insert" /\ node' = n /\ real' = NULL /\ victim' = NULL
  BY DEF Insert, AvlInv, IsClear, In
<1>2. PICK D, M : Tree(t, V, D, M) BY <1>1 DEF Shape
<1>3. t \in Links /\ V \subseteq Node /\ NULL \notin Node BY <1>1, ShapeFacts
<1>4. d \in Side BY DEF Side
<1>5. IF t.root = NULL THEN p = NULL ELSE p \in V /\ t.kid[p][d] = NULL BY <1>2, LocateIs
<1>6. t' = LET l == [t EXCEPT !.par[n] = p, !.kid[n] = NoKids, !.bal[n] = "equal"]
           IN  IF p = NULL THEN [l EXCEPT !.root = n] ELSE [l EXCEPT !.kid[p][d] = n]
  BY DEF Insert
<1> HIDE DEF p, d
<1>7. Hung(t', t, n, p, d)
  <2> DEFINE l == [t EXCEPT !.par[n] = p, !.kid[n] = NoKids, !.bal[n] = "equal"]
  <2>1. p \in Node \union {NULL} BY <1>3, <1>5
  <2>2. /\ l \in Links /\ l.root = t.root
        /\ l.par = [t.par EXCEPT ![n] = p] /\ l.bal = [t.bal EXCEPT ![n] = "equal"]
        /\ l.kid = [t.kid EXCEPT ![n] = NoKids]
    BY <2>1, <1>3 DEF Links, NoKids, Bits
  <2>3. t' = IF p = NULL THEN [l EXCEPT !.root = n] ELSE [l EXCEPT !.kid[p][d] = n] BY <1>6
  <2> HIDE DEF l
  <2>4. /\ t' \in Links /\ t'.root = (IF p = NULL THEN n ELSE t.root) /\ t'.par = l.par /\ t'.bal = l.bal
        /\ t'.kid = IF p = NULL THEN l.kid ELSE [l.kid EXCEPT ![p] = [@ EXCEPT ![d] = n]]
    BY <2>1, <2>2, <2>3, <1>4 DEF Links
  <2>5. n # p BY <1>1, <1>3, <1>5
  <2>6. \A y \in Node : t'.par[y] = IF y = n THEN p ELSE t.par[y]
    BY <2>2, <2>4, <1>3 DEF Links
  <2>7. \A y \in Node : t'.bal[y] = IF y = n THEN "equal" ELSE t.bal[y]
    BY <2>2, <2>4, <1>3 DEF Links
  <2>8. \A y \in Node, e \in Side : l.kid[y][e] = IF y = n THEN NULL ELSE t.kid[y][e]
    BY <2>2, <1>3 DEF Links, NoKids
  <2>9. \A y \in Node, e \in Side : t'.kid[y][e] = IF y = p /\ e = d THEN n ELSE l.kid[y][e]
    BY <2>1, <2>2, <2>4, <1>3, <1>4 DEF Links
  <2>10. \A y \in Node, e \in Side :
           t'.kid[y][e] = IF y = n THEN NULL ELSE IF y = p /\ e = d THEN n ELSE t.kid[y][e]
    BY <2>5, <2>8, <2>9
  <2> QED BY <2>4, <2>6, <2>7, <2>10 DEF Hung
<1>8. \E C, K : Tree(t', V \union {n}, C, K) BY <1>1, <1>2, <1>4, <1>5, <1>7, HungTree
<1>9. t' \in Links /\ In(t') = V \union {n} /\ Shape(t') BY <1>7, <1>8, ShapeIs DEF Hung
<1>10. \E h : Heights(t', V \union {n}, h, {n}, {})
  <2>1. PICK g : Heights(t, V, g, {}, {}) BY <1>1 DEF Even
  <2> QED BY <2>1, <1>1, <1>2, <1>4, <1>5, <1>7, HungHeights
<1>11. t'.kid[n].left = NULL BY <1>7 DEF Hung, Side
<1>12. Growing(t', n) BY <1>9, <1>10, <1>11 DEF Growing
<1> QED BY <1>1, <1>9, <1>12 DEF AvlInv

\* In a climb the node is on the side on which the code finds it.
LEMMA SideBelowIs ==
  ASSUME Shape(t), NEW n \in In(t), t.par[n] # NULL
  PROVE  /\ t.par[n] \in In(t) /\ SideBelow(n, t.par[n]) \in Side
         /\ t.kid[t.par[n]][SideBelow(n, t.par[n])] = n
<1>1. PICK D, M : Tree(t, In(t), D, M) BY DEF Shape
<1>2. LET e == IF t.kid[t.par[n]].left = n THEN "left" ELSE "right"
      IN  e \in Side /\ t.kid[t.par[n]][e] = n
  BY <1>1, ChildSide
<1> QED BY <1>2, ShapeFacts DEF SideBelow

LEMMA InsertBalanceStep == ASSUME AvlInv, InsertBalance PROVE AvlInv' /\ In(t') = In(t)
<1> DEFINE V == In(t)
           p == t.par[node]
           d == SideBelow(node, p)
<1>1. Shape(t) /\ t \in Links /\ node \in V /\ p # NULL /\ real = NULL /\ victim = NULL
  BY ShapeFacts DEF InsertBalance, AvlInv, Growing
<1>2. PICK D, M : Tree(t, V, D, M) BY <1>1 DEF Shape
<1>3. p \in V /\ d \in Side /\ t.kid[p][d] = node /\ V \subseteq Node /\ d # "equal" /\ Other(d) # d
  BY <1>1, SideBelowIs, ShapeFacts, SideIs
<1>4. PICK g : Heights(t, V, g, {node}, {}) BY DEF InsertBalance, AvlInv, Growing
<1>5. t.bal[node] = "equal" => t.kid[node].left = NULL BY DEF InsertBalance, AvlInv, Growing
<1>6. \/ t.bal[p] = "equal" /\ t' = [t EXCEPT !.bal[p] = d] /\ node' = p /\ UNCHANGED <<pc, real, victim>>
      \/ t.bal[p] = Other(d) /\ t' = [t EXCEPT !.bal[p] = "equal"] /\ Return
      \/ t.bal[p] = d /\ t.bal[node] = d /\ t' = RotateOnce(t, node, p, d) /\ Return
      \/ t.bal[p] = d /\ t.bal[node] = Other(d) /\ t' = RotateTwice(t, node, p, d) /\ Return
  BY DEF InsertBalance
<1>7. pc = "insert" BY DEF InsertBalance
<1> HIDE DEF p, d, V
<1>8. CASE t.bal[p] = "equal" /\ t' = [t EXCEPT !.bal[p] = d] /\ node' = p /\ UNCHANGED <<pc, real, victim>>
  <2>1. t' \in Links /\ Tree(t', V, D, M) /\ \E h : Heights(t', V, h, {p}, {})
    BY <1>1, <1>2, <1>3, <1>4, <1>5, <1>8, GrownStep
  <2>2. Shape(t') /\ In(t') = V BY <2>1, ShapeIs
  <2>3. t'.bal[p] = d BY <1>1, <1>3, <1>8 DEF Links
  <2>4. Growing(t', p) BY <2>1, <2>2, <2>3, <1>3 DEF Growing
  <2> QED BY <2>2, <2>4, <1>1, <1>7, <1>8 DEF AvlInv, V
<1>9. ASSUME Return, t' \in Links, \E C, K : Tree(t', V, C, K), \E h : Heights(t', V, h, {}, {})
      PROVE  AvlInv' /\ In(t') = In(t)
  <2>1. Shape(t') /\ In(t') = V BY <1>9, ShapeIs
  <2>2. Even(t') BY <1>9, <2>1 DEF Even
  <2> QED BY <2>1, <2>2, <1>9 DEF AvlInv, Return, V
<1>10. CASE t.bal[p] = Other(d) /\ t' = [t EXCEPT !.bal[p] = "equal"] /\ Return
  <2>1. t' \in Links /\ Tree(t', V, D, M) /\ \E h : Heights(t', V, h, {}, {})
    BY <1>1, <1>2, <1>3, <1>4, <1>5, <1>10, GrownStep
  <2> QED BY <2>1, <1>9, <1>10
<1>11. CASE t.bal[p] = d /\ t.bal[node] = d /\ t' = RotateOnce(t, node, p, d) /\ Return
  <2>1. t' \in Links /\ (\E C, K : Tree(t', V, C, K)) /\ \E h : Heights(t', V, h, {}, {})
    BY <1>1, <1>2, <1>3, <1>4, <1>5, <1>11, GrownStep
  <2> QED BY <2>1, <1>9, <1>11
<1>12. CASE t.bal[p] = d /\ t.bal[node] = Other(d) /\ t' = RotateTwice(t, node, p, d) /\ Return
  <2>1. t' \in Links /\ (\E C, K : Tree(t', V, C, K)) /\ \E h : Heights(t', V, h, {}, {})
    BY <1>1, <1>2, <1>3, <1>4, <1>5, <1>12, GrownStep
  <2> QED BY <2>1, <1>9, <1>12
<1> QED BY <1>6, <1>8, <1>10, <1>11, <1>12

\* The heights of all nodes but n are off by as much as before.
Elsewhere(V, n, more, less, up, low) ==
    \A x \in V \ {n} : (x \in more <=> x \in up) /\ (x \in less <=> x \in low)

\* Nothing is above the root to tell its height from.
LEMMA RootHeights ==
  ASSUME NEW s, NEW V, NEW D, NEW M, Tree(s, V, D, M), NEW n \in V, s.par[n] = NULL,
         NEW g, NEW more, NEW less, Heights(s, V, g, more, less), NEW up, NEW low, NEW k \in Nat,
         Elsewhere(V, n, more, less, up, low),
         Own([g EXCEPT ![n] = k], up, low, n) = Own(g, more, less, n)
  PROVE  \E h : Heights(s, V, h, up, low)
<1> DEFINE h == [g EXCEPT ![n] = k]
<1>1. V \subseteq Node /\ NULL \notin V BY TreeFacts, NodeAssumption
<1>2. g \in [V \union {NULL} -> Nat] /\ g[NULL] = 0 BY DEF Heights
<1>3. h \in [V \union {NULL} -> Nat] /\ h[NULL] = 0 /\ \A x \in V \union {NULL} : x # n => h[x] = g[x]
  BY <1>1, <1>2
<1>4. Own(h, up, low, n) = Own(g, more, less, n) OBVIOUS
<1> HIDE DEF h
<1>5. ASSUME NEW x \in V PROVE Level(s, h, x, Own(h, up, low, x))
  <2>1. Level(s, g, x, Own(g, more, less, x)) BY DEF Heights
  <2>2. Own(h, up, low, x) = Own(g, more, less, x)
    <3>1. CASE x = n BY <3>1, <1>4
    <3>2. CASE x # n BY <3>2, <1>3 DEF Own, Elsewhere
    <3> QED BY <3>1, <3>2
  <2>3. \A e \in Side : h[s.kid[x][e]] = g[s.kid[x][e]]
    <3> TAKE e \in Side
    <3>1. s.kid[x][e] \in V \union {NULL} /\ (s.kid[x][e] # NULL => s.par[s.kid[x][e]] = x) BY TreeFacts
    <3>2. s.kid[x][e] # n BY <3>1, <1>1
    <3> QED BY <3>1, <3>2, <1>3
  <2> QED BY <2>1, <2>2, <2>3, LevelSame
<1> QED BY <1>3, <1>5 DEF Heights

LEMMA InsertDoneStep == ASSUME AvlInv, InsertDone PROVE AvlInv' /\ In(t') = In(t)
<1> DEFINE V == In(t)
<1>1. Shape(t) /\ node \in V /\ t.par[node] = NULL /\ t' = t /\ Return
  BY DEF InsertDone, AvlInv, Growing
<1>2. PICK D, M : Tree(t, V, D, M) BY <1>1 DEF Shape
<1>3. PICK g : Heights(t, V, g, {node}, {}) BY DEF InsertDone, AvlInv, Growing
<1>4. g[node] + 1 \in Nat /\ g \in [V \union {NULL} -> Nat] BY <1>1, <1>3 DEF Heights
<1>5. Own([g EXCEPT ![node] = g[node] + 1], {}, {}, node) = Own(g, {node}, {}, node)
  BY <1>1, <1>4 DEF Own
<1>6. \E h : Heights(t, V, h, {}, {})
  <2> HIDE DEF V
  <2>1. Elsewhere(V, node, {node}, {}, {}, {}) BY DEF Elsewhere
  <2>2. node \in V BY <1>1
  <2> QED BY <2>1, <2>2, <1>1, <1>2, <1>3, <1>4, <1>5, RootHeights
<1>7. Even(t') BY <1>1, <1>6 DEF Even
<1> QED BY <1>1, <1>7 DEF AvlInv, Return

----------------------------------------------------------------------------
LEMMA EraseStep == ASSUME AvlInv, NEW n \in Node, Erase(n) PROVE AvlInv' /\ In(t') = In(t)
<1> DEFINE V == In(t)
           r == real'
<1>1. /\ Shape(t) /\ Even(t) /\ n \in V /\ pc' = "erase" /\ node' = r /\ victim' = n /\ t' = t
      /\ r = IF \A d \in Side : t.kid[n][d] # NULL THEN Deepest(t, t.kid[n].left, "right") ELSE n
  BY DEF Erase, AvlInv, IsClear, In
<1> HIDE DEF r
<1>2. PICK D, M : Tree(t, V, D, M) BY <1>1 DEF Shape
<1>3. PICK g : Heights(t, V, g, {}, {}) BY <1>1 DEF Even
<1>4. Heights(t, V, g, {r}, {r})
  <2>1. g \in [V \union {NULL} -> Nat] BY <1>3 DEF Heights
  <2>2. \A x \in V : Own(g, {r}, {r}, x) = Own(g, {}, {}, x) BY <2>1 DEF Own
  <2> QED BY <2>2, <1>3 DEF Heights
<1>5. r \in V /\ Path(t, V, {r}, r, r, n)
  <2>1. CASE \E d \in Side : t.kid[n][d] = NULL
    <3>1. r = n BY <2>1, <1>1
    <3> QED BY <2>1, <3>1, <1>1 DEF Path, Leads, Pending
  <2>2. CASE \A d \in Side : t.kid[n][d] # NULL
    <3>1. r = Deepest(t, t.kid[n].left, "right") /\ t.kid[n].left # NULL BY <2>2, <1>1, SideIs
    <3>2. r \in V /\ \E C : Chain(t, V, C, n, r) BY <3>1, <1>1, <1>2, ChainExists
    <3>3. PICK C : Chain(t, V, C, n, r) BY <3>2
    <3>4. {r} \subseteq C /\ t.kid[r].right = NULL BY <3>3 DEF Chain
    <3>5. Leads(t, V, {r}, r, r) BY <3>2 DEF Leads
    <3>6. Pending(t, V, r, n) BY <3>2, <3>3, <3>4, <1>1, SideIs DEF Pending
    <3>7. Path(t, V, {r}, r, r, n) BY <3>3, <3>4, <3>5, <3>6 DEF Path
    <3> QED BY <3>2, <3>7
  <2> QED BY <2>1, <2>2
<1>6. Climbing(t', r, r, n) BY <1>1, <1>4, <1>5 DEF Climbing
<1> QED BY <1>1, <1>6 DEF AvlInv, r

\* The node to unlink is on the way below the cursor.
LEMMA PathLow ==
  ASSUME NEW s, NEW V, NEW D, NEW M, Tree(s, V, D, M),
         NEW U, NEW n, NEW r, NEW v, Path(s, V, U, n, r, v)
  PROVE  U \subseteq V /\ n \in V /\ r \in U /\ D \in [V -> Nat] /\ \A x \in U : D[n] <= D[x]
<1>1. U \subseteq V /\ n \in U /\ r \in U /\ \A x \in U : x = n \/ s.par[x] \in U BY DEF Path, Leads
<1>2. n \in V BY <1>1
<1>3. \A x \in U : D[n] <= D[x] BY <1>1, <1>2, TopRank
<1>4. D \in [V -> Nat] BY TreeFacts
<1> QED BY <1>1, <1>2, <1>3, <1>4

LEMMA EraseBalanceStep == ASSUME AvlInv, EraseBalance PROVE AvlInv' /\ In(t') = In(t)
<1> DEFINE V == In(t)
           p == t.par[node]
           d == SideBelow(node, p)
           o == Other(d)
           c == t.kid[p][o]
           m == t.kid[c][d]
<1>1. /\ Shape(t) /\ t \in Links /\ p # NULL /\ Climbing(t, node, real, victim) /\ pc = "erase"
      /\ V \subseteq Node /\ NULL \notin Node
  BY ShapeFacts DEF EraseBalance, AvlInv
<1>2. PICK D, M : Tree(t, V, D, M) BY <1>1 DEF Shape
<1>3. PICK g : Heights(t, V, g, {real}, {node}) BY <1>1 DEF Climbing
<1>4. PICK U : Path(t, V, U, node, real, victim) BY <1>1 DEF Climbing
<1>5. /\ U \subseteq V /\ node \in V /\ real \in U /\ D \in [V -> Nat]
      /\ \A x \in U : D[node] <= D[x]
      /\ \A x \in U : x = node \/ t.par[x] \in U
  <2>1. \A x \in U : x = node \/ t.par[x] \in U BY <1>4 DEF Path, Leads
  <2> HIDE DEF V
  <2>2. U \subseteq V /\ node \in V /\ real \in U /\ D \in [V -> Nat] /\ \A x \in U : D[node] <= D[x]
    BY <1>2, <1>4, PathLow
  <2> QED BY <2>1, <2>2
<1>6. p \in V /\ d \in Side /\ o \in Side /\ t.kid[p][d] = node /\ d # "equal" /\ o # d /\ Other(o) = d
  BY <1>1, <1>5, SideBelowIs, SideIs
<1>7. D[p] < D[node] /\ real # p
  <2>1. D[p] < D[node] BY <1>1, <1>2, <1>5, TreeFacts
  <2> QED BY <2>1, <1>5, <1>6
<1> HIDE DEF V, p, d, o, c
<1>8. c \notin U /\ (c # NULL => m \notin U)
  <2>1. p \notin U BY <1>5, <1>6, <1>7
  <2>2. c # node /\ (c # NULL => t.par[c] = p /\ c \in V /\ c # p)
    <3>1. c # node /\ c # p BY <1>2, <1>5, <1>6, Around DEF c, o
    <3>2. c \in V \union {NULL} /\ (c # NULL => t.par[c] = p) BY <1>2, <1>6, TreeFacts DEF c
    <3> QED BY <3>1, <3>2
  <2>3. c \notin U
    <3>1. NULL \notin U BY <1>1, <1>5
    <3> QED BY <3>1, <2>1, <2>2, <1>5
  <2>4. ASSUME c # NULL, m \in U PROVE FALSE
    <3>1. m # NULL BY <2>4, <1>1, <1>5
    <3>2. t.par[m] = c BY <2>2, <2>4, <3>1, <1>2, <1>6, TreeFacts
    <3> QED BY <3>2, <2>2, <2>3, <2>4, <1>5, <1>1 DEF p
  <2> QED BY <2>3, <2>4
<1>9. real # c /\ (c # NULL => real # t.kid[c][d]) BY <1>5, <1>8
<1> DEFINE Once(r) == \E b : Rotated(r, [t EXCEPT !.bal = b], c, p, o)
           Tall1(r, low) == \E h : Heights(r, V, h, {real}, low)
           Treed(r) == \E C, K : Tree(r, V, C, K)
<1>10. /\ t.bal[p] = "equal" =>
            LET r == [t EXCEPT !.bal[p] = o] IN r \in Links /\ Tree(r, V, D, M) /\ Tall1(r, {})
       /\ t.bal[p] = d =>
            LET r == [t EXCEPT !.bal[p] = "equal"] IN r \in Links /\ Tree(r, V, D, M) /\ Tall1(r, {p})
       /\ t.bal[p] = o =>
            /\ c \in V
            /\ t.bal[c] = "equal" =>
                  LET r == Rotate([t EXCEPT !.bal[c] = d], c, p, o) IN Once(r) /\ Treed(r) /\ Tall1(r, {})
            /\ t.bal[c] = o =>
                  LET r == RotateOnce(t, c, p, o) IN Once(r) /\ Treed(r) /\ Tall1(r, {c})
            /\ t.bal[c] = d =>
                  LET r == RotateTwice(t, c, p, o)
                  IN  /\ m \in V /\ \E b : Twice(r, [t EXCEPT !.bal = b], c, m, p, o)
                      /\ Treed(r) /\ Tall1(r, {m})
  <2>0. t \in Links /\ node \in V /\ p \in V /\ d \in Side /\ t.kid[p][d] = node /\ real # p /\ real # c
    BY <1>1, <1>5, <1>6, <1>7, <1>9
  <2>1. c = t.kid[p][Other(d)] /\ (c # NULL => real # t.kid[c][d]) BY <1>9 DEF c, o
  <2> HIDE DEF Once, Tall1, Treed, m
  <2>2. Shrunk(t, V, D, M, p, d, c, real)
    BY <2>0, <2>1, <1>2, <1>3, ShrunkStep
  <2>3. o = Other(d) BY DEF o
  <2> QED BY <2>2, <2>3 DEF Shrunk, Once, Tall1, Treed, m
<1> HIDE DEF m, Treed
<1>11. /\ UNCHANGED <<real, victim>>
       /\ \/ /\ t.bal[p] = "equal"
             /\ t' = [t EXCEPT !.bal[p] = o] /\ pc' = "unlink" /\ UNCHANGED node
          \/ t.bal[p] = d /\ t' = [t EXCEPT !.bal[p] = "equal"] /\ node' = p /\ UNCHANGED pc
          \/ /\ t.bal[p] = o /\ t.bal[c] = "equal"
             /\ t' = Rotate([t EXCEPT !.bal[c] = d], c, p, o) /\ pc' = "unlink" /\ node' = c
          \/ /\ t.bal[p] = o /\ t.bal[c] = o
             /\ t' = RotateOnce(t, c, p, o) /\ node' = c /\ UNCHANGED pc
          \/ /\ t.bal[p] = o /\ t.bal[c] = d
             /\ t' = RotateTwice(t, c, p, o) /\ node' = t'.par[c] /\ UNCHANGED pc
  BY DEF EraseBalance, p, d, o, c
\* The climb goes on at n, or ends.
<1>12. ASSUME t' \in Links, Treed(t'), NEW n \in V, node' = n, pc' = "erase", Tall1(t', {n}),
              \E Y : Path(t', V, Y, n, real, victim)
       PROVE  AvlInv' /\ In(t') = In(t)
  <2>1. Shape(t') /\ In(t') = V BY <1>12, ShapeIs DEF Treed
  <2>2. Climbing(t', n, real, victim) BY <1>12, <2>1 DEF Climbing
  <2> QED BY <2>1, <2>2, <1>11, <1>12 DEF AvlInv, V
<1>13. ASSUME t' \in Links, Treed(t'), node' \in V, pc' = "unlink", Tall1(t', {}),
              NEW n, \E Y : Path(t', V, Y, n, real, victim)
       PROVE  AvlInv' /\ In(t') = In(t)
  <2>1. Shape(t') /\ In(t') = V BY <1>13, ShapeIs DEF Treed
  <2>2. Unlinking(t', real, victim) BY <1>13, <2>1 DEF Unlinking, Path
  <2>3. node' \in Node \union {NULL} BY <1>13, <1>1 DEF V
  <2> QED BY <2>1, <2>2, <2>3, <1>11, <1>13 DEF AvlInv, V
<1>14. ASSUME t'.par = t.par, t'.kid = t.kid PROVE \E Y : Path(t', V, Y, p, real, victim)
  <2>1. t.par[node] # NULL BY <1>1 DEF p
  <2>2. Path(t', V, U \union {t.par[node]}, t.par[node], real, victim) BY <2>1, <1>2, <1>4, <1>14, ClimbPath
  <2> QED BY <2>2 DEF p
<1>15. ASSUME NEW z, NEW W, Lifted(t', t, V, p, o, z, W) PROVE \E Y : Path(t', V, Y, z, real, victim)
  <2>1. t.kid[p][Other(o)] = node BY <1>6
  <2>2. Path(t', V, U \union {p, z}, z, real, victim) BY <2>1, <1>2, <1>4, <1>15, LiftPath
  <2> QED BY <2>2
<1>16. CASE t.bal[p] = "equal" /\ t' = [t EXCEPT !.bal[p] = o] /\ pc' = "unlink" /\ UNCHANGED node
  <2>1. t' \in Links /\ Treed(t') /\ Tall1(t', {}) BY <1>10, <1>16 DEF Treed
  <2>2. t'.par = t.par /\ t'.kid = t.kid BY <1>1, <1>16 DEF Links
  <2>3. node' \in V BY <1>5, <1>16
  <2> QED BY <2>1, <2>2, <2>3, <1>13, <1>14, <1>16
<1>17. CASE t.bal[p] = d /\ t' = [t EXCEPT !.bal[p] = "equal"] /\ node' = p /\ UNCHANGED pc
  <2>1. t' \in Links /\ Treed(t') /\ Tall1(t', {p}) BY <1>10, <1>17, <1>6 DEF Treed
  <2>2. t'.par = t.par /\ t'.kid = t.kid BY <1>1, <1>17 DEF Links
  <2>3. pc' = "erase" BY <1>1, <1>17
  <2> QED BY <2>1, <2>2, <2>3, <1>6, <1>12, <1>14, <1>17
<1>18. ASSUME t.bal[p] = o, Once(t') PROVE t' \in Links /\ \E Y : Path(t', V, Y, c, real, victim)
  <2>1. c \in V BY <1>10, <1>18
  <2>2. PICK b : Rotated(t', [t EXCEPT !.bal = b], c, p, o) BY <1>18
  <2>3. Lifted(t', t, V, p, o, c, {c, p}) BY <2>1, <2>2, <1>1, <1>2, <1>6, LiftedOnce DEF c
  <2> QED BY <2>2, <2>3, <1>15 DEF Rotated
<1>19. CASE /\ t.bal[p] = o /\ t.bal[c] = "equal"
            /\ t' = Rotate([t EXCEPT !.bal[c] = d], c, p, o) /\ pc' = "unlink" /\ node' = c
  <2>1. c \in V /\ Once(t') /\ Treed(t') /\ Tall1(t', {}) BY <1>10, <1>19
  <2> QED BY <2>1, <1>13, <1>18, <1>19
<1>20. CASE /\ t.bal[p] = o /\ t.bal[c] = o
            /\ t' = RotateOnce(t, c, p, o) /\ node' = c /\ UNCHANGED pc
  <2>1. c \in V /\ Once(t') /\ Treed(t') /\ Tall1(t', {c}) BY <1>10, <1>20
  <2>2. pc' = "erase" BY <1>1, <1>20
  <2> QED BY <2>1, <2>2, <1>12, <1>18, <1>20
<1>21. CASE /\ t.bal[p] = o /\ t.bal[c] = d
            /\ t' = RotateTwice(t, c, p, o) /\ node' = t'.par[c] /\ UNCHANGED pc
  <2>1. /\ c \in V /\ m \in V /\ Treed(t') /\ Tall1(t', {m})
        /\ \E b : Twice(t', [t EXCEPT !.bal = b], c, m, p, o)
    BY <1>10, <1>21
  <2>2. PICK b : Twice(t', [t EXCEPT !.bal = b], c, m, p, o) BY <2>1
  <2>3. Lifted(t', t, V, p, o, m, {c, m, p})
    <3>1. t.kid[p][o] = c /\ t.kid[c][Other(o)] = m BY <1>6 DEF c, m
    <3> QED BY <2>1, <2>2, <3>1, <1>1, <1>2, <1>6, LiftedTwice
  <2>4. t'.par[c] = m /\ t' \in Links
    <3>1. c \in Node BY <2>1, <1>1 DEF V
    <3> QED BY <2>2, <3>1 DEF Twice
  <2>5. pc' = "erase" BY <1>1, <1>21
  <2>6. \E Y : Path(t', V, Y, m, real, victim) BY <2>3, <1>15
  <2>7. node' = m BY <2>4, <1>21
  <2> QED BY <2>1, <2>4, <2>5, <2>6, <2>7, <1>12
<1> QED BY <1>11, <1>16, <1>17, <1>19, <1>20, <1>21

----------------------------------------------------------------------------
\* The climb is over: all heights are those without the node to unlink.
LEMMA UnlinkStarts ==
  ASSUME AvlInv, Unlink
  PROVE  Shape(t) /\ \E g : Heights(t, In(t), g, {real}, {}) /\ Pending(t, In(t), real, victim)
<1> DEFINE V == In(t)
<1>1. Shape(t) BY DEF AvlInv, Unlink
<1>2. CASE pc = "unlink" BY <1>1, <1>2 DEF AvlInv, Unlinking
<1>3. CASE pc = "erase" /\ t.par[node] = NULL
  <2>1. PICK D, M : Tree(t, V, D, M) BY <1>1 DEF Shape
  <2>2. PICK g : Heights(t, V, g, {real}, {node}) BY <1>3 DEF AvlInv, Climbing
  <2>3. PICK U : Path(t, V, U, node, real, victim) BY <1>3 DEF AvlInv, Climbing
  <2> HIDE DEF V
  <2>4. node \in V /\ Pending(t, V, real, victim)
    BY <2>1, <2>3, PathLow DEF Path
  <2>5. /\ g \in [V \union {NULL} -> Nat]
        /\ Level(t, g, node, Own(g, {real}, {node}, node))
    BY <2>2, <2>4 DEF Heights
  <2>6. \A e \in Side : g[t.kid[node][e]] \in Nat
    <3> TAKE e \in Side
    <3>1. t.kid[node][e] \in V \union {NULL} BY <2>1, <2>4, TreeFacts
    <3> QED BY <3>1, <2>5
  <2>7. Own(g, {real}, {node}, node) >= 1
    <3>1. g[t.kid[node].left] \in Nat BY <2>6 DEF Side
    <3>2. \E k \in Nat : Own(g, {real}, {node}, node) = k + 1 BY <2>5, <2>6, <3>1 DEF Level
    <3> QED BY <3>2
  <2>8. Own(g, {real}, {node}, node) = IF node = real THEN g[node] ELSE g[node] - 1
    BY <2>4, <2>5 DEF Own
  <2>9. g[node] \in Nat BY <2>4, <2>5
  <2>10. g[node] - 1 \in Nat BY <2>7, <2>8, <2>9
  <2>11. Own([g EXCEPT ![node] = g[node] - 1], {real}, {}, node) = Own(g, {real}, {node}, node)
    BY <2>4, <2>5, <2>8, <2>9 DEF Own
  <2>12. Elsewhere(V, node, {real}, {node}, {real}, {}) BY DEF Elsewhere
  <2>13. \E h : Heights(t, V, h, {real}, {})
    BY <2>1, <2>2, <2>4, <2>10, <2>11, <2>12, <1>3, RootHeights
  <2> QED BY <2>4, <2>13, <1>1 DEF V
<1> QED BY <1>2, <1>3 DEF Unlink

LEMMA UnlinkStep == ASSUME AvlInv, Unlink PROVE AvlInv' /\ In(t') = In(t) \ {victim}
<1> DEFINE V == In(t)
           p == t.par[real]
           c == IF t.kid[real].left # NULL THEN t.kid[real].left ELSE t.kid[real].right
           u == SetParentOf(ChangeChild(t, real, c, p), c, p)
           z == Forget(u, real)
           W == V \ {real}
           d == IF t.kid[real].left # NULL THEN "right" ELSE "left"
<1>1. Shape(t) /\ t \in Links /\ V \subseteq Node BY UnlinkStarts, ShapeFacts
<1>2. PICK g : Heights(t, V, g, {real}, {}) BY UnlinkStarts
<1>3. real \in V /\ victim \in V /\ \E e \in Side : t.kid[real][e] = NULL
  BY UnlinkStarts DEF Pending
<1>4. PICK D, M : Tree(t, V, D, M) BY <1>1 DEF Shape
<1>5. t' = Forget(IF victim = real THEN u ELSE Replace(u, victim, real), victim) /\ Return
  BY DEF Unlink
<1>6. d \in Side /\ t.kid[real][d] = NULL /\ c = t.kid[real][Other(d)]
  <2>1. t.kid[real].left = NULL \/ t.kid[real].right = NULL BY <1>3 DEF Side
  <2> QED BY <2>1, SideIs
<1> HIDE DEF V, c, d
<1>7. u \in Links /\ Spliced(z, t, real, c) BY <1>1, <1>3, <1>4, <1>6, SpliceIs
<1> HIDE DEF u, z
<1>8. Spliced(z, t, real, t.kid[real][Other(d)]) BY <1>6, <1>7
<1>9. z \in Links /\ Tree(z, W, [y \in W |-> D[y]], M) BY <1>3, <1>4, <1>6, <1>8, SplicedTree DEF Spliced
<1>10. PICK h : Heights(z, W, h, {}, {}) BY <1>1, <1>2, <1>3, <1>4, <1>6, <1>8, SplicedHeights
<1>11. CASE victim = real
  <2>1. t' = z BY <1>5, <1>11 DEF z
  <2>2. Shape(t') /\ In(t') = W BY <2>1, <1>9, ShapeIs
  <2>3. Even(t') BY <2>1, <2>2, <1>10 DEF Even
  <2> QED BY <2>2, <2>3, <1>5, <1>11 DEF AvlInv, Return, V
<1>12. CASE victim # real
  <2> DEFINE Y == (W \ {victim}) \union {real}
  <2>1. real \in Node \ W /\ victim \in W /\ real \in Node /\ victim \in Node BY <1>1, <1>3, <1>12 DEF V
  <2>2. Replace(u, victim, real) = Replace(z, victim, real) BY <2>1, <1>7, <1>12, ReplaceForgets DEF z
  <2>3. t' = Forget(Replace(z, victim, real), victim) BY <2>2, <1>5, <1>12
  <2> HIDE DEF W
  <2>4. Replaced(t', z, victim, real) BY <2>1, <2>3, <1>9, ReplaceIs
  <2>5. t' \in Links /\ \E C : Tree(t', Y, C, M) BY <2>1, <2>4, <1>9, ReplacedTree DEF Replaced
  <2>6. \E f : Heights(t', Y, f, {}, {}) BY <2>1, <2>4, <1>9, <1>10, ReplacedHeights
  <2>7. Shape(t') /\ In(t') = Y BY <2>5, ShapeIs
  <2>8. Even(t') BY <2>6, <2>7 DEF Even
  <2>9. Y = V \ {victim} BY <1>3, <1>12 DEF W
  <2> QED BY <2>7, <2>8, <2>9, <1>5 DEF AvlInv, Return, V
<1> QED BY <1>11, <1>12

LEMMA ReplaceNodeStep ==
  ASSUME AvlInv, NEW v \in Node, NEW n \in Node, ReplaceNode(v, n)
  PROVE  AvlInv' /\ In(t') = (In(t) \ {v}) \union {n} /\ v \in In(t) /\ n \notin In(t)
<1> DEFINE V == In(t)
<1>1. /\ Shape(t) /\ Even(t) /\ t \in Links /\ v \in V /\ n \in Node \ V /\ pc = "idle"
      /\ t' = Forget(Replace(t, v, n), v) /\ UNCHANGED <<pc, node, real, victim>>
  BY ShapeFacts DEF ReplaceNode, AvlInv, IsClear, In
<1>2. PICK D, M : Tree(t, V, D, M) BY <1>1 DEF Shape
<1>3. PICK g : Heights(t, V, g, {}, {}) BY <1>1 DEF Even
<1> HIDE DEF V
<1>4. Replaced(t', t, v, n) BY <1>1, <1>2, ReplaceIs
<1>5. t' \in Links /\ \E C : Tree(t', (V \ {v}) \union {n}, C, M)
  BY <1>1, <1>2, <1>4, ReplacedTree DEF Replaced
<1>6. \E h : Heights(t', (V \ {v}) \union {n}, h, {}, {}) BY <1>1, <1>2, <1>3, <1>4, ReplacedHeights
<1>7. Shape(t') /\ In(t') = (V \ {v}) \union {n} BY <1>5, ShapeIs
<1>8. Even(t') BY <1>6, <1>7 DEF Even
<1> QED BY <1>1, <1>7, <1>8 DEF AvlInv, V

----------------------------------------------------------------------------
LEMMA DestroyStep == ASSUME AvlInv, Destroy PROVE AvlInv' /\ In(t') = In(t)
<1> DEFINE V == In(t)
<1>1. /\ Shape(t) /\ t \in Links /\ pc' = "destroy" /\ t' = t /\ victim' = NULL /\ t.root # NULL
      /\ node' = FirstPostorder(t) /\ real' = NextPostorder(t, node')
  BY ShapeFacts DEF Destroy, AvlInv
<1>2. PICK D, M : Tree(t, V, D, M) BY <1>1 DEF Shape
<1>3. PICK U : Torn(t, V, U, node') BY <1>1, <1>2, TornFirst
<1>4. real' \in V \union {NULL} /\ node' \in V \union {NULL}
  <2>1. node' \in V \union {NULL} BY <1>3 DEF Torn
  <2> HIDE DEF V
  <2> QED BY <2>1, <1>1, <1>3, TornNext
<1>5. Freeing(t', node', real') BY <1>1, <1>3, <1>4 DEF Freeing
<1> QED BY <1>1, <1>5 DEF AvlInv

\* The last round leaves an empty tree.
LEMMA FreeStep ==
  ASSUME AvlInv, Free
  PROVE  /\ AvlInv' /\ In(t') = In(t) \ {node}
         /\ pc' = "idle" => node = NULL /\ In(t) = {}
         /\ node # NULL => pc' = "destroy"
<1> DEFINE V == In(t)
<1>1. t \in Links /\ Freeing(t, node, real) /\ pc = "destroy" /\ victim = NULL
  BY DEF AvlInv, Free, Freeing
<1>2. real = NextPostorder(t, node) /\ node \in V \union {NULL} BY <1>1 DEF Freeing
<1>3. PICK U : Torn(t, V, U, node) BY <1>1 DEF Freeing
<1>4. CASE node = NULL
  <2>1. V = {} /\ \A x \in Node \ V : t.par[x] = x /\ \A d \in Side : t.kid[x][d] = NULL
    BY <1>3, <1>4 DEF Torn
  <2>2. t' = [t EXCEPT !.root = NULL] /\ Return BY <1>4 DEF Free
  <2>3. /\ t' \in Links /\ t'.root = NULL
        /\ \A x \in Node : t'.par[x] = x /\ \A d \in Side : t'.kid[x][d] = NULL
    BY <2>1, <2>2, <1>1 DEF Links
  <2>4. Tree(t', {}, [x \in {} |-> 0], 0) BY <2>3 DEF Tree, Ranked
  <2>5. Shape(t') /\ In(t') = {} BY <2>3, <2>4, ShapeIs
  <2>6. Even(t')
    <3>1. Heights(t', {}, [x \in {NULL} |-> 0], {}, {}) BY DEF Heights
    <3> QED BY <3>1, <2>5 DEF Even
  <2> QED BY <2>1, <2>2, <2>5, <2>6, <1>4 DEF AvlInv, Return
<1>5. CASE node # NULL
  <2>1. /\ t' = Forget(t, node) /\ node' = real /\ real' = NextPostorder(t', real)
        /\ UNCHANGED <<pc, victim>> /\ node \in V /\ node \in Node /\ NULL \notin Node
    BY <1>2, <1>5, NodeAssumption DEF Free, In
  <2>2. /\ t' \in Links /\ t'.root = t.root
        /\ \A y \in Node : /\ t'.par[y] = IF y = node THEN node ELSE t.par[y]
                           /\ \A e \in Side : t'.kid[y][e] = IF y = node THEN NULL ELSE t.kid[y][e]
    BY <2>1, <1>1, ForgetIs
  <2>3. \A y \in Node \ {node} : t'.kid[y] = t.kid[y]
    BY <2>2, <1>1 DEF Links
  <2>4. Kept(t, t', V, node) BY <2>1, <2>2, <2>3 DEF Kept
  <2>5. real \in (V \ {node}) \union {NULL} /\ \E U2 : Torn(t', V \ {node}, U2, real)
    BY <2>1, <2>4, <1>2, <1>3, TornStep
  <2>6. In(t') = V \ {node} BY <2>1, <2>2 DEF In
  <2>7. PICK U2 : Torn(t', V \ {node}, U2, real) BY <2>5
  <2>8. real' \in (V \ {node}) \union {NULL} BY <2>1, <2>5, <2>7, TornNext
  <2>9. Freeing(t', node', real') BY <2>1, <2>2, <2>5, <2>6, <2>7, <2>8 DEF Freeing
  <2> QED BY <2>1, <2>6, <2>9, <1>1 DEF AvlInv
<1> QED BY <1>4, <1>5

----------------------------------------------------------------------------
LEMMA NextAvlInv == ASSUME AvlInv, [Next]_vars PROVE AvlInv'
<1>1. CASE \E n \in Node : Insert(n) \/ Erase(n) \/ \E v \in Node : ReplaceNode(v, n)
  BY <1>1, InsertStep, EraseStep, ReplaceNodeStep
<1>2. CASE InsertBalance \/ InsertDone \/ EraseBalance \/ Unlink \/ Destroy \/ Free
  BY <1>2, InsertBalanceStep, InsertDoneStep, EraseBalanceStep, UnlinkStep, DestroyStep, FreeStep
<1>3. CASE UNCHANGED vars BY <1>3 DEF vars, AvlInv
<1> QED BY <1>1, <1>2, <1>3 DEF Next

LEMMA TypePromise == ASSUME AvlInv PROVE AvlTypeOK
<1>1. t \in Links BY DEF AvlInv, Shape, Freeing
<1>2. LinksType(t) /\ t.bal \in [Node -> Side \union {"equal"}] BY <1>1 DEF Links, LinksType, Bits
<1>3. In(t) \subseteq Node BY DEF In
<1>4. {node, real, victim} \subseteq Node \union {NULL}
  <2>1. CASE pc = "idle" \/ pc = "insert" BY <2>1, <1>3 DEF AvlInv, Growing
  <2>2. CASE pc = "erase"
    <3>1. PICK U : Path(t, In(t), U, node, real, victim) BY <2>2 DEF AvlInv, Climbing
    <3> QED BY <3>1, <1>3 DEF Path, Leads, Pending
  <2>3. CASE pc = "unlink" BY <2>3, <1>3 DEF AvlInv, Unlinking, Pending
  <2>4. CASE pc = "destroy" BY <2>4, <1>3 DEF AvlInv, Freeing
  <2> QED BY <2>1, <2>2, <2>3, <2>4 DEF AvlInv
<1> QED BY <1>2, <1>4 DEF AvlTypeOK, AvlInv

LEMMA BalancePromise == ASSUME AvlInv PROVE Balanced
<1> SUFFICES ASSUME pc = "idle", NEW n \in Linked(t)
             PROVE  Height(t.kid[n].left) - Height(t.kid[n].right) = Tilt(n)
  BY DEF Balanced
<1> DEFINE V == In(t)
           a == t.kid[n].left
           b == t.kid[n].right
<1>1. Shape(t) /\ n \in V /\ t \in Links /\ V \subseteq Node BY ShapeFacts DEF AvlInv
<1>2. PICK D, M : Tree(t, V, D, M) BY <1>1 DEF Shape
<1>3. PICK g : Heights(t, V, g, {}, {}) BY DEF AvlInv, Even
<1>4. \A x : Height(x) = Tall(t)[x] BY Zenon DEF Height, Tall
<1>5. a \in V \union {NULL} /\ b \in V \union {NULL} BY <1>1, ShapeFacts DEF Side
<1> HIDE DEF V
<1>6. Height(a) = g[a] /\ Height(b) = g[b] BY <1>2, <1>3, <1>4, <1>5, HeightsAre
<1>7. g[a] \in Nat /\ g[b] \in Nat BY <1>3, <1>5 DEF Heights
<1>8. Level(t, g, n, Own(g, {}, {}, n)) BY <1>1, <1>3 DEF Heights
<1>9. \/ t.bal[n] = "equal" /\ g[a] = g[b]
      \/ t.bal[n] = "left" /\ g[a] = g[b] + 1
      \/ t.bal[n] = "right" /\ g[b] = g[a] + 1
  BY <1>8, SideIs DEF Level, Side
<1> QED BY <1>6, <1>7, <1>9 DEF Tilt

LEMMA AbortPromise == ASSUME AvlInv PROVE NeverAborts
<1> SUFFICES ASSUME pc = "insert", t.par[node] # NULL, t.bal[t.par[node]] = SideBelow(node, t.par[node])
             PROVE  t.bal[node] # "equal"
  BY DEF NeverAborts
<1> DEFINE p == t.par[node]
           d == SideBelow(node, p)
<1>1. Shape(t) /\ Growing(t, node) /\ t \in Links BY DEF AvlInv, Shape
<1>2. PICK D, M : Tree(t, In(t), D, M) BY <1>1 DEF Shape
<1>3. PICK g : Heights(t, In(t), g, {node}, {}) BY <1>1 DEF Growing
<1>4. node \in In(t) /\ (t.bal[node] = "equal" => t.kid[node].left = NULL) BY <1>1 DEF Growing
<1>5. p \in In(t) /\ d \in Side /\ t.kid[p][d] = node BY <1>1, <1>4, SideBelowIs
<1>6. t.bal[p] = d OBVIOUS
<1> HIDE DEF p, d
<1> QED BY <1>1, <1>2, <1>3, <1>4, <1>5, <1>6, GrownStep

LEMMA UnlinkPromise == ASSUME AvlInv PROVE RealStaysUnlinkable
<1> SUFFICES ASSUME pc \in {"erase", "unlink"}
             PROVE  /\ \E d \in Side : t.kid[real][d] = NULL
                    /\ real \in Linked(t) /\ victim \in Linked(t)
                    /\ real # victim => Step(t, victim, "left") = real
  BY DEF RealStaysUnlinkable
<1>1. Shape(t) /\ Linked(t) = In(t) BY ShapeFacts DEF AvlInv
<1>2. PICK D, M : Tree(t, In(t), D, M) BY <1>1 DEF Shape
<1>3. Pending(t, In(t), real, victim) BY DEF AvlInv, Climbing, Unlinking, Path
<1>4. ASSUME real # victim PROVE Step(t, victim, "left") = real
  <2>1. PICK C : Chain(t, In(t), C, victim, real) BY <1>3, <1>4 DEF Pending
  <2>2. t.kid[victim].left # NULL /\ Deepest(t, t.kid[victim].left, "right") = real
    BY <1>2, <2>1, ChainEnds
  <2>3. t.kid[victim]["left"] = t.kid[victim].left OBVIOUS
  <2>4. Step(t, victim, "left") = Deepest(t, t.kid[victim]["left"], Other("left"))
    BY <2>2, <2>3, Zenon DEF Step
  <2> QED BY <2>2, <2>3, <2>4, SideIs
<1> QED BY <1>1, <1>3, <1>4 DEF Pending

LEMMA LinksPromise == ASSUME AvlInv PROVE pc # "destroy" => Mirrored(t)
<1> SUFFICES ASSUME pc # "destroy" PROVE Mirrored(t) OBVIOUS
<1>1. Shape(t) BY DEF AvlInv
<1>2. \A n \in Node \ In(t) : IsClear(t, n) BY DEF In, IsClear
<1> QED BY <1>1, <1>2, ShapeFacts DEF Mirrored

LEMMA DestroyPromise == ASSUME AvlInv PROVE DestroySafe
<1> SUFFICES ASSUME pc = "destroy"
             PROVE  /\ \A n \in {node, real} \ {NULL} : ~IsClear(t, n)
                    /\ node = NULL => \A n \in Node : IsClear(t, n)
  BY DEF DestroySafe
<1>1. {node, real} \subseteq In(t) \union {NULL} BY DEF AvlInv, Freeing
<1>2. \A n \in {node, real} \ {NULL} : ~IsClear(t, n) BY <1>1 DEF In, IsClear
<1>3. PICK U : Torn(t, In(t), U, node) BY DEF AvlInv, Freeing
<1>4. node = NULL => In(t) = {} BY <1>3 DEF Torn
<1> QED BY <1>2, <1>4 DEF In, IsClear

(* Whatever is inserted, erased and replaced, in a tree of any nodes and   *)
(* keys: between operations the bits of every node are the difference of   *)
(* the heights below it, at most one; avl_insert_balance does not abort;   *)
(* while avl_erase_balance climbs and rotates, the node to unlink keeps    *)
(* its free side and stays the predecessor of the victim.                  *)
THEOREM AvlTreeStaysBalanced == Spec => [](AvlTypeOK /\ Balanced /\ NeverAborts /\ RealStaysUnlinkable)
<1>1. Init => AvlInv BY InitAvlInv
<1>2. AvlInv /\ [Next]_vars => AvlInv' BY NextAvlInv
<1>3. AvlInv => AvlTypeOK /\ Balanced /\ NeverAborts /\ RealStaysUnlinkable
  BY TypePromise, BalancePromise, AbortPromise, UnlinkPromise
<1> QED BY <1>1, <1>2, <1>3, PTL DEF Spec

(* Child and parent pointers of avltree.c agree in every step and a node   *)
(* that is in no tree is clear; and the postorder loop by which a caller   *)
(* frees the nodes holds none that is freed and ends when all are.         *)
THEOREM AvlTreeStaysLinked == Spec => []((pc # "destroy" => Mirrored(t)) /\ DestroySafe)
<1>1. Init => AvlInv BY InitAvlInv
<1>2. AvlInv /\ [Next]_vars => AvlInv' BY NextAvlInv
<1>3. AvlInv => (pc # "destroy" => Mirrored(t)) /\ DestroySafe
  BY LinksPromise, DestroyPromise
<1> QED BY <1>1, <1>2, <1>3, PTL DEF Spec

----------------------------------------------------------------------------
LEMMA SameCardinality == \A x : S!Cardinality(x) = Cardinality(x)
    BY DEF S!Cardinality, Cardinality

LEMMA HoldsIs == ASSUME AvlInv PROVE Holds = In(t)
<1>1. pc # "destroy" => Linked(t) = In(t) BY ShapeFacts DEF AvlInv
<1> QED BY <1>1 DEF Holds, In, IsClear

LEMMA HoldsIsNext == ASSUME AvlInv' PROVE Holds' = In(t')
<1>1. pc' # "destroy" => Linked(t') = In(t') BY ShapeFacts DEF AvlInv
<1> QED BY <1>1 DEF Holds, In, IsClear

\* The nodes held change by at most the nodes of a call.
LEMMA CallIsOfOne ==
  ASSUME pc = "idle", NEW n, NEW v, Leaving' = {} \/ (Leaving' = {n} /\ n \in Holds /\ Holds' = Holds),
         Holds' = Holds \/ Holds' = Holds \union {n} \/ Holds' = (Holds \ {v}) \union {n}
  PROVE  S!Call
<1>1. S!Put \in {{}, {n}} /\ S!Taken \in {{}, {v}} BY DEF S!Put, S!Taken
<1>2. Cardinality({}) = 0 /\ Cardinality({n}) = 1 /\ Cardinality({v}) = 1 BY FS_EmptySet, FS_Singleton
<1> DEFINE w == Leaving'
<1>3. w \in {{}, {n}} OBVIOUS
<1> HIDE DEF w
<1>4. Cardinality(S!Put) <= 1 /\ Cardinality(S!Taken) <= 1 /\ Cardinality(w) <= 1
  BY <1>1, <1>2, <1>3
<1>5. Cardinality(Leaving') <= 1 BY <1>4 DEF w
<1>6. Doing = "idle" BY DEF Doing
<1> QED BY <1>4, <1>5, <1>6, SameCardinality DEF S!Call

LEMMA StepImplements == ASSUME AvlInv, [Next]_vars PROVE [S!Next]_S!vars
<1>1. AvlInv' BY NextAvlInv
<1>2. Holds = In(t) /\ Holds' = In(t') BY <1>1, HoldsIs, HoldsIsNext
<1>3. NULL \notin Node BY NodeAssumption
<1>4. ASSUME NEW n \in Node, Insert(n) PROVE S!Call
  <2>1. pc = "idle" /\ Leaving' = {} BY <1>4 DEF Insert, Leaving, AvlInv
  <2>2. In(t') = In(t) \union {n} BY <1>4, InsertStep
  <2> QED BY <1>2, <2>1, <2>2, CallIsOfOne
<1>5. ASSUME NEW n \in Node, Erase(n) PROVE S!Call
  <2>1. pc = "idle" /\ Leaving' = {n} /\ n \in In(t) BY <1>3, <1>5 DEF Erase, Leaving, In, IsClear
  <2>2. In(t') = In(t) BY <1>5, EraseStep
  <2> QED BY <1>2, <2>1, <2>2, CallIsOfOne
<1>6. ASSUME NEW n \in Node, NEW v \in Node, ReplaceNode(v, n) PROVE S!Call
  <2>1. pc = "idle" /\ Leaving' = {} BY <1>6 DEF ReplaceNode, Leaving, AvlInv
  <2>2. In(t') = (In(t) \ {v}) \union {n} BY <1>6, ReplaceNodeStep
  <2> QED BY <1>2, <2>1, <2>2, CallIsOfOne
<1>7. CASE Destroy
  <2>1. pc = "idle" /\ Leaving' = {} BY <1>7 DEF Destroy, Leaving, AvlInv
  <2>2. In(t') = In(t) BY <1>7, DestroyStep
  <2>3. S!Call BY <1>2, <2>1, <2>2, CallIsOfOne
  <2> QED BY <2>3 DEF S!Next
<1>8. CASE InsertBalance \/ InsertDone \/ EraseBalance
  <2>1. In(t') = In(t) BY <1>8, InsertBalanceStep, InsertDoneStep, EraseBalanceStep
  <2>2. /\ pc \in {"insert", "erase"} /\ pc' \in {"idle", "insert", "erase", "unlink"}
        /\ Leaving' = Leaving /\ (pc' = "idle" => Leaving' = {})
    <3>1. CASE InsertBalance \/ InsertDone
      <4>1. pc = "insert" /\ victim = NULL /\ victim' = NULL /\ pc' \in {"idle", "insert"}
        BY <3>1, Zenon DEF InsertBalance, InsertDone, AvlInv, Return
      <4> QED BY <4>1 DEF Leaving
    <3>2. CASE EraseBalance
      <4>1. pc = "erase" /\ victim' = victim /\ pc' \in {"erase", "unlink"}
        BY <3>2, Zenon DEF EraseBalance
      <4> QED BY <4>1 DEF Leaving
    <3> QED BY <1>8, <3>1, <3>2
  <2> QED BY <1>2, <2>1, <2>2 DEF S!Next, S!Work, Doing
<1>9. CASE Unlink
  <2>1. In(t') = In(t) \ {victim} BY <1>9, UnlinkStep
  <2>2. pc \in {"erase", "unlink"} /\ pc' = "idle" /\ victim' = NULL BY <1>9, Zenon DEF Unlink, Return
  <2>3. In(t') = In(t) \ Leaving
    <3>1. NULL \notin In(t) BY <1>3 DEF In
    <3> QED BY <2>1, <3>1 DEF Leaving
  <2> QED BY <1>2, <2>2, <2>3 DEF S!Next, S!Work, Doing, Leaving
<1>10. CASE Free
  <2>1. /\ In(t') = In(t) \ {node} /\ (pc' = "idle" => node = NULL /\ In(t) = {})
        /\ (node # NULL => pc' = "destroy")
    BY <1>10, FreeStep
  <2>2. pc = "destroy" /\ victim = NULL /\ victim' = NULL /\ pc' \in {"idle", "destroy"}
    BY <1>10, Zenon DEF Free, AvlInv, Return
  <2>3. Doing = "destroy" /\ Doing' = pc' /\ Leaving = {} /\ Leaving' = {}
    BY <2>2 DEF Doing, Leaving
  <2>4. S!Put = {} BY <1>2, <2>1 DEF S!Put
  <2>5. S!Taken = {} \/ S!Taken = {node}
    <3>1. S!Taken = In(t) \ (In(t) \ {node}) BY <1>2, <2>1 DEF S!Taken
    <3>2. \A X : X \ (X \ {node}) = {} \/ X \ (X \ {node}) = {node}
      <4> TAKE X
      <4>1. CASE node \in X BY <4>1
      <4>2. CASE node \notin X BY <4>2
      <4> QED BY <4>1, <4>2
    <3> QED BY <3>1, <3>2
  <2>6. Cardinality(S!Taken) <= 1
    <3>1. Cardinality({}) = 0 /\ Cardinality({node}) = 1 BY FS_EmptySet, FS_Singleton
    <3> QED BY <2>5, <3>1
  <2>7. IF Holds' = {} THEN Doing' \in {"destroy", "idle"} ELSE Doing' = "destroy"
    BY <1>2, <2>1, <2>2, <2>3
  <2> QED BY <2>3, <2>4, <2>6, <2>7, SameCardinality DEF S!Next, S!Empty
<1>11. CASE UNCHANGED vars
  BY <1>2, <1>11 DEF vars, S!vars, Doing, Leaving
<1> QED BY <1>4, <1>5, <1>6, <1>7, <1>8, <1>9, <1>10, <1>11 DEF Next, S!Next

(* An AVL tree is a set of nodes: avl_insert puts one in, avl_erase takes  *)
(* the victim out, in the step that unlinks another or itself, and         *)
(* avl_replace_node exchanges one for another; rotations lose none.        *)
THEOREM AvlTreeIsNodeSet == Spec => ImplementsNodeSet
<1>1. Init => AvlInv /\ S!Init
  <2> SUFFICES ASSUME Init PROVE AvlInv /\ S!Init
    OBVIOUS
  <2>1. AvlInv /\ Holds = In(t) BY InitAvlInv, HoldsIs
  <2>2. In(t) = {} BY DEF Init, In
  <2> QED BY <2>1, <2>2 DEF Init, S!Init, Doing, Leaving
<1>2. AvlInv /\ [Next]_vars => AvlInv' /\ [S!Next]_S!vars
  BY NextAvlInv, StepImplements
<1> QED BY <1>1, <1>2, PTL DEF Spec, ImplementsNodeSet, S!Spec
==============================================================================
