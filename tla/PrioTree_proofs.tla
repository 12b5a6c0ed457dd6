--------------------------- MODULE PrioTree_proofs ---------------------------
(***************************************************************************)
(* The priority tree of prio_tree.c stays balanced, ordered and linked,    *)
(* for any nodes and priorities.                                           *)
(*                                                                         *)
(* The links are a tree when the nodes have depths (Tree): a child is one  *)
(* deeper than its parent.  Depths bound the walks and carry inductions    *)
(* from the leaves up and from the root down, by which the recursions of   *)
(* the model (weights, walks, the contents) mean what they say.  Three     *)
(* changes are enough for all operations: two nodes change places          *)
(* (Relabelled), a leaf is hung somewhere (Hangs), one is cut off.         *)
(*                                                                         *)
(* The invariant, PrioInv, is that the links are a tree of the nodes that  *)
(* are not clear; that a bit is the difference of the weights below a      *)
(* node, or not, for the nodes that an insertion has not reached (Stale);  *)
(* and that priorities fall from the root down but for the node that a     *)
(* loop moves (OrderInv).                                                  *)
(***************************************************************************)
EXTENDS PrioTree, FiniteSetTheorems, WellFoundedInduction, TLAPS

\* Induction: a set of numbers has a least member.
LEMMA NatMin == ASSUME NEW T, T \subseteq Nat, T # {} PROVE \E x \in T : \A y \in T : x <= y
<1> DEFINE R == {ss \in Nat \X Nat : ss[1] < ss[2]}
<1>0. IsWellFoundedOn(R, Nat) BY NatLessThanWellFounded DEF OpToRel
<1> HIDE DEF R
<1>1. \E x \in T : \A y \in T : ~(<<y, x>> \in R)
  BY <1>0, WFMin
<1>2. PICK x \in T : \A y \in T : ~(<<y, x>> \in R) BY <1>1
<1>3. \A y \in T : ~ (y < x)
  BY <1>2 DEF R
<1> QED BY <1>3

----------------------------------------------------------------------------
\* The links of s make a tree of the nodes V: D is the depth of a node.
Tree(s, V, D, M) ==
    /\ V \subseteq Node /\ M \in Nat /\ D \in [V -> 0 .. M]
    /\ s.root \in V \union {NULL}
    /\ s.root # NULL => s.par[s.root] = NULL
    /\ \A n \in V :
          /\ s.par[n] \in V \union {NULL}
          /\ s.par[n] = NULL => n = s.root
          /\ s.par[n] # NULL => D[n] = D[s.par[n]] + 1 /\ \E d \in Side : s.kid[s.par[n]][d] = n
          /\ \A d \in Side : /\ s.kid[n][d] \in V \union {NULL}
                             /\ s.kid[n][d] # NULL => s.par[s.kid[n][d]] = n
          /\ s.kid[n].left # NULL => s.kid[n].left # s.kid[n].right
    /\ \A n \in Node \ V : s.par[n] = n /\ \A d \in Side : s.kid[n][d] = NULL

\* Induction from the leaves up ...
LEMMA FromLeaves ==
  ASSUME NEW s, NEW V, NEW D, NEW M, Tree(s, V, D, M), NEW T,
         \A x \in V : s.kid[x].left \in T \union {NULL} /\ s.kid[x].right \in T \union {NULL} => x \in T
  PROVE  V \subseteq T
<1> DEFINE B == {M - D[x] : x \in V \ T}
<1> SUFFICES ASSUME V \ T # {} PROVE FALSE OBVIOUS
<1>1. V \subseteq Node /\ M \in Nat /\ D \in [V -> 0 .. M] BY DEF Tree
<1>2. B \subseteq Nat /\ B # {} BY <1>1
<1>3. PICK b \in B : \A c \in B : b <= c BY <1>2, NatMin
<1>4. PICK x \in V \ T : b = M - D[x] BY <1>3
<1>5. ASSUME NEW d \in Side PROVE s.kid[x][d] \in T \union {NULL}
  <2> DEFINE k == s.kid[x][d]
  <2> SUFFICES ASSUME k # NULL, k \notin T PROVE FALSE OBVIOUS
  <2>1. k \in V /\ s.par[k] = x BY <1>4, <1>5 DEF Tree
  <2>2. x # NULL BY <1>1, <1>4, NodeAssumption
  <2>3. D[k] = D[x] + 1 BY <2>1, <2>2 DEF Tree
  <2>4. M - D[k] \in B BY <2>1
  <2>5. D[k] \in 0 .. M /\ D[x] \in 0 .. M /\ M \in Nat BY <2>1, <1>1, <1>4
  <2>6. M - D[x] <= M - D[k] BY <2>4, <1>3, <1>4
  <2> HIDE DEF B, k
  <2> QED BY <2>3, <2>5, <2>6
<1> QED BY <1>4, <1>5 DEF Side

\* ... and from the root down.
LEMMA FromRoot ==
  ASSUME NEW s, NEW V, NEW D, NEW M, Tree(s, V, D, M), NEW T,
         \A x \in V : s.par[x] \in T \union {NULL} => x \in T
  PROVE  V \subseteq T
<1> DEFINE B == {D[x] : x \in V \ T}
<1> SUFFICES ASSUME V \ T # {} PROVE FALSE OBVIOUS
<1>1. V \subseteq Node /\ M \in Nat /\ D \in [V -> 0 .. M] BY DEF Tree
<1>2. B \subseteq Nat /\ B # {} BY <1>1
<1>3. PICK b \in B : \A c \in B : b <= c BY <1>2, NatMin
<1>4. PICK x \in V \ T : b = D[x] BY <1>3
<1>5. s.par[x] \in V /\ D[x] = D[s.par[x]] + 1 BY <1>4 DEF Tree
<1>6. s.par[x] \notin T BY <1>4, <1>5
<1>7. D[s.par[x]] \in B BY <1>5, <1>6
<1>8. D[x] \in Nat /\ D[s.par[x]] \in Nat BY <1>1, <1>4, <1>5
<1>9. D[x] <= D[s.par[x]] BY <1>3, <1>4, <1>7
<1> HIDE DEF B
<1> QED BY <1>5, <1>8, <1>9

\* A recursion over the children has a solution.
Solves(s, W, f, G) ==
    \A x \in W : f[x] = G[<<x, f[s.kid[x].left], f[s.kid[x].right]>>]
LEMMA Recursion ==
  ASSUME NEW s, NEW V, NEW D, NEW M, Tree(s, V, D, M),
         NEW X, NEW base \in X, NEW G \in [Node \X X \X X -> X]
  PROVE  \E f \in [Node \union {NULL} -> X] : f[NULL] = base /\ Solves(s, Node, f, G)
<1> DEFINE Deep(k) == (Node \ V) \union {x \in V : D[x] >= k}
           P(k) == \E f \in [Node \union {NULL} -> X] : f[NULL] = base /\ Solves(s, Deep(k), f, G)
           Good == {k \in 0 .. M + 1 : P(k)}
<1>1. V \subseteq Node /\ M \in Nat /\ D \in [V -> 0 .. M] /\ NULL \notin Node BY NodeAssumption DEF Tree
<1>2. \A x \in Node \ V : s.kid[x].left = NULL /\ s.kid[x].right = NULL
  BY DEF Tree, Side
<1>3. P(M + 1)
  <2> DEFINE f == [x \in Node \union {NULL} |-> IF x \in Node THEN G[<<x, base, base>>] ELSE base]
  <2>1. f \in [Node \union {NULL} -> X] /\ f[NULL] = base BY <1>1
  <2>2. \A x \in V : ~(D[x] >= M + 1) BY <1>1
  <2>3. \A x \in Node : f[x] = G[<<x, base, base>>] BY <1>1
  <2> HIDE DEF f
  <2>4. Solves(s, Deep(M + 1), f, G) BY <2>1, <2>2, <2>3, <1>2 DEF Solves
  <2> QED BY <2>1, <2>4
<1>4. ASSUME NEW k \in 0 .. M, P(k + 1) PROVE P(k)
  <2>1. PICK g \in [Node \union {NULL} -> X] : g[NULL] = base /\ Solves(s, Deep(k + 1), g, G) BY <1>4
  <2> DEFINE f == [x \in Node \union {NULL} |->
                      IF x \in V /\ D[x] = k THEN G[<<x, g[s.kid[x].left], g[s.kid[x].right]>>] ELSE g[x]]
  <2>2. \A x \in V, d \in Side : s.kid[x][d] \in Node \union {NULL} BY <1>1 DEF Tree
  <2>3. \A x \in V : g[s.kid[x].left] \in X /\ g[s.kid[x].right] \in X BY <2>1, <2>2 DEF Side
  <2>4. f \in [Node \union {NULL} -> X] BY <2>1, <2>3, <1>1
  <2>5. f[NULL] = base BY <2>1, <1>1
  <2>6. \A x \in V : D[x] = k => f[x] = G[<<x, g[s.kid[x].left], g[s.kid[x].right]>>] BY <1>1
  <2>7. \A x \in Node \union {NULL} : ~(x \in V /\ D[x] = k) => f[x] = g[x] BY <1>1
  <2> HIDE DEF f
  <2>8. ASSUME NEW x \in V, D[x] >= k, NEW d \in Side
        PROVE  f[s.kid[x][d]] = g[s.kid[x][d]]
    <3>1. CASE s.kid[x][d] = NULL BY <3>1, <2>7, <1>1
    <3>2. CASE s.kid[x][d] # NULL
      <4>1. s.kid[x][d] \in V /\ s.par[s.kid[x][d]] = x BY <3>2 DEF Tree
      <4>2. D[s.kid[x][d]] = D[x] + 1 BY <4>1, <1>1 DEF Tree
      <4>3. D[s.kid[x][d]] # k BY <4>2, <2>8, <1>1
      <4> QED BY <4>1, <4>3, <2>7, <1>1
    <3> QED BY <3>1, <3>2
  <2>9. ASSUME NEW x \in Deep(k) PROVE f[x] = G[<<x, f[s.kid[x].left], f[s.kid[x].right]>>]
    <3>1. CASE x \in Node \ V
      <4>1. f[x] = g[x] /\ f[NULL] = g[NULL] BY <3>1, <2>7, <1>1
      <4> QED BY <3>1, <4>1, <1>2, <2>1 DEF Solves
    <3>2. CASE x \in V /\ D[x] >= k
      <4>1. f[s.kid[x].left] = g[s.kid[x].left] /\ f[s.kid[x].right] = g[s.kid[x].right]
        BY <3>2, <2>8 DEF Side
      <4>2. CASE D[x] = k BY <4>1, <4>2, <3>2, <2>6
      <4>3. CASE D[x] # k
        <5>1. x \in Deep(k + 1) /\ f[x] = g[x] BY <4>3, <3>2, <2>7, <1>1
        <5> QED BY <5>1, <4>1, <2>1 DEF Solves
      <4> QED BY <4>2, <4>3
    <3> QED BY <3>1, <3>2
  <2> QED BY <2>4, <2>5, <2>9 DEF Solves
<1> HIDE DEF P
<1>5. Good \subseteq Nat /\ Good # {} BY <1>1, <1>3
<1>6. PICK k \in Good : \A j \in Good : k <= j BY <1>5, NatMin
<1>7. k = 0
  <2> SUFFICES ASSUME k # 0 PROVE FALSE OBVIOUS
  <2>1. k - 1 \in 0 .. M /\ (k - 1) + 1 = k BY <1>1, <1>6
  <2>2. P(k) BY <1>6
  <2>3. P(k - 1) BY <2>1, <2>2, <1>4
  <2>4. k - 1 \in Good /\ k \in Nat BY <2>1, <2>3, <1>1, <1>6
  <2>5. k <= k - 1 BY <2>4, <1>6
  <2> HIDE DEF Good
  <2> QED BY <2>4, <2>5
<1>8. P(0) BY <1>6, <1>7
<1>9. Deep(0) = Node BY <1>1
<1> QED BY <1>8, <1>9 DEF P
----------------------------------------------------------------------------
\* Two nodes change places.
Sw(a, b, x) == IF x = a THEN b ELSE IF x = b THEN a ELSE x
Relabelled(r, s, a, b) ==
    /\ r.root = Sw(a, b, s.root)
    /\ \A x \in Node :
          /\ r.par[x] = Sw(a, b, s.par[Sw(a, b, x)])
          /\ r.heavy[x] = s.heavy[Sw(a, b, x)]
          /\ \A d \in Side : r.kid[x][d] = Sw(a, b, s.kid[Sw(a, b, x)][d])
Moved(V, a, b) == {x \in Node : Sw(a, b, x) \in V}

LEMMA SwFacts ==
  ASSUME NEW a \in Node, NEW b \in Node
  PROVE  \A x : /\ Sw(a, b, Sw(a, b, x)) = x
                /\ Sw(a, b, x) = NULL <=> x = NULL
                /\ Sw(a, b, x) \in Node <=> x \in Node
BY NodeAssumption DEF Sw

\* The tree stays one, ...
LEMMA RelabelTree ==
  ASSUME NEW s, NEW r, NEW V, NEW D, NEW M, Tree(s, V, D, M),
         NEW a \in Node, NEW b \in Node, Relabelled(r, s, a, b)
  PROVE  Tree(r, Moved(V, a, b), [x \in Moved(V, a, b) |-> D[Sw(a, b, x)]], M)
<1> DEFINE W == Moved(V, a, b)
           C == [x \in W |-> D[Sw(a, b, x)]]
           w(x) == Sw(a, b, x)
<1>1. V \subseteq Node /\ M \in Nat /\ D \in [V -> 0 .. M] /\ NULL \notin Node /\ NULL \notin V
  BY NodeAssumption DEF Tree
<1>2. \A x : w(w(x)) = x /\ (w(x) = NULL <=> x = NULL) /\ (w(x) \in Node <=> x \in Node)
  BY SwFacts
<1>3. \A x : x \in W <=> w(x) \in V BY <1>1, <1>2 DEF Moved
<1>4. W \subseteq Node /\ C \in [W -> 0 .. M] /\ \A x \in W : C[x] = D[w(x)] BY <1>1, <1>3 DEF Moved
<1>5. /\ r.root = w(s.root)
      /\ \A x \in Node : r.par[x] = w(s.par[w(x)]) /\ \A d \in Side : r.kid[x][d] = w(s.kid[w(x)][d])
  BY DEF Relabelled
<1> HIDE DEF w, W, C
<1>6. r.root \in W \union {NULL} /\ (r.root # NULL => r.par[r.root] = NULL)
  <2>1. s.root \in V \union {NULL} /\ (s.root # NULL => s.par[s.root] = NULL) BY DEF Tree
  <2>2. r.root \in W \union {NULL} BY <2>1, <1>2, <1>3, <1>5
  <2>3. r.root # NULL => r.root \in Node /\ s.root # NULL BY <2>2, <1>2, <1>4, <1>5
  <2> QED BY <2>1, <2>2, <2>3, <1>2, <1>5
<1>7. ASSUME NEW x \in W
      PROVE  /\ r.par[x] \in W \union {NULL}
             /\ r.par[x] = NULL => x = r.root
             /\ r.par[x] # NULL => C[x] = C[r.par[x]] + 1 /\ \E d \in Side : r.kid[r.par[x]][d] = x
             /\ \A d \in Side : /\ r.kid[x][d] \in W \union {NULL}
                                /\ r.kid[x][d] # NULL => r.par[r.kid[x][d]] = x
             /\ r.kid[x].left # NULL => r.kid[x].left # r.kid[x].right
  <2> DEFINE y == w(x)
  <2>1. y \in V /\ w(y) = x /\ x \in Node BY <1>2, <1>3, <1>4
  <2>2. r.par[x] = w(s.par[y]) /\ \A d \in Side : r.kid[x][d] = w(s.kid[y][d]) BY <1>5, <2>1
  <2> HIDE DEF y
  <2>3. /\ s.par[y] \in V \union {NULL}
        /\ s.par[y] = NULL => y = s.root
        /\ s.par[y] # NULL => D[y] = D[s.par[y]] + 1 /\ \E d \in Side : s.kid[s.par[y]][d] = y
        /\ \A d \in Side : /\ s.kid[y][d] \in V \union {NULL}
                           /\ s.kid[y][d] # NULL => s.par[s.kid[y][d]] = y
        /\ s.kid[y].left # NULL => s.kid[y].left # s.kid[y].right
    BY <2>1 DEF Tree
  <2>4. r.par[x] \in W \union {NULL} /\ (r.par[x] = NULL <=> s.par[y] = NULL)
    BY <2>2, <2>3, <1>2, <1>3
  <2>5. r.par[x] = NULL => x = r.root BY <2>1, <2>3, <2>4, <1>5
  <2>6. r.par[x] # NULL => C[x] = C[r.par[x]] + 1 /\ \E d \in Side : r.kid[r.par[x]][d] = x
    <3> SUFFICES ASSUME r.par[x] # NULL PROVE C[x] = C[r.par[x]] + 1 /\ \E d \in Side : r.kid[r.par[x]][d] = x
      OBVIOUS
    <3>1. r.par[x] \in W /\ w(r.par[x]) = s.par[y] /\ r.par[x] \in Node BY <2>2, <2>4, <1>2, <1>4
    <3>2. w(x) = y BY <2>1, <1>2
    <3>3. C[x] = C[r.par[x]] + 1 BY <3>1, <3>2, <2>3, <2>4, <1>4
    <3>4. PICK d \in Side : s.kid[s.par[y]][d] = y BY <2>3, <2>4
    <3>5. r.kid[r.par[x]][d] = x BY <3>1, <3>4, <2>1, <1>5
    <3> QED BY <3>3, <3>5
  <2>7. ASSUME NEW d \in Side
        PROVE  r.kid[x][d] \in W \union {NULL} /\ (r.kid[x][d] # NULL => r.par[r.kid[x][d]] = x)
    <3>1. r.kid[x][d] \in W \union {NULL} /\ (r.kid[x][d] = NULL <=> s.kid[y][d] = NULL)
      BY <2>2, <2>3, <1>2, <1>3
    <3>2. r.kid[x][d] # NULL => r.par[r.kid[x][d]] = w(s.par[s.kid[y][d]])
      BY <3>1, <2>2, <1>2, <1>4, <1>5
    <3> QED BY <3>1, <3>2, <2>1, <2>3
  <2>8. r.kid[x].left # NULL => r.kid[x].left # r.kid[x].right
    <3>1. r.kid[x].left = w(s.kid[y].left) /\ r.kid[x].right = w(s.kid[y].right) BY <2>2 DEF Side
    <3> QED BY <3>1, <2>3, <1>2
  <2> QED BY <2>4, <2>5, <2>6, <2>7, <2>8
<1>8. ASSUME NEW x \in Node \ W PROVE r.par[x] = x /\ \A d \in Side : r.kid[x][d] = NULL
  <2>1. w(x) \in Node \ V BY <1>2, <1>3
  <2>2. s.par[w(x)] = w(x) /\ \A d \in Side : s.kid[w(x)][d] = NULL BY <2>1 DEF Tree
  <2> QED BY <2>2, <1>2, <1>5
<1> QED BY <1>1, <1>4, <1>6, <1>7, <1>8 DEF Tree, W, C, w

----------------------------------------------------------------------------
\* A node and those above it: the least set with it that is closed.
Closed(s, U) == \A z \in U : s.par[z] # NULL => s.par[z] \in U
Above(s, V, x) ==
    IF x = NULL THEN {} ELSE {y \in V : \A U \in SUBSET V : x \in U /\ Closed(s, U) => y \in U}

LEMMA AboveIs ==
  ASSUME NEW s, NEW V, NEW D, NEW M, Tree(s, V, D, M), NEW x \in V
  PROVE  /\ Above(s, V, x) = {x} \union Above(s, V, s.par[x])
         /\ Above(s, V, x) \subseteq V /\ x \in Above(s, V, x) /\ Closed(s, Above(s, V, x))
         /\ \A U \in SUBSET V : x \in U /\ Closed(s, U) => Above(s, V, x) \subseteq U
<1> DEFINE A == Above(s, V, x)
           p == s.par[x]
           B == Above(s, V, p)
<1>1. NULL \notin V BY NodeAssumption DEF Tree
<1>2. A = {y \in V : \A U \in SUBSET V : x \in U /\ Closed(s, U) => y \in U} BY <1>1 DEF Above
<1>3. p # NULL => p \in V /\ B = {y \in V : \A U \in SUBSET V : p \in U /\ Closed(s, U) => y \in U}
  BY DEF Above, Tree
<1>4. p = NULL => B = {} BY DEF Above
<1>5. \A z \in V : s.par[z] # NULL => s.par[z] \in V BY DEF Tree
<1> HIDE DEF A, B
<1>6. A \subseteq V /\ x \in A BY <1>2
<1>7. Closed(s, A)
  <2> SUFFICES ASSUME NEW z \in A, s.par[z] # NULL PROVE s.par[z] \in A BY DEF Closed
  <2>1. s.par[z] \in V BY <1>5, <1>6
  <2>2. ASSUME NEW U \in SUBSET V, x \in U, Closed(s, U) PROVE s.par[z] \in U
    <3>1. z \in U BY <2>2, <1>2
    <3> QED BY <3>1, <2>2 DEF Closed
  <2> QED BY <2>1, <2>2, <1>2
<1>8. \A U \in SUBSET V : x \in U /\ Closed(s, U) => A \subseteq U BY <1>2
<1>9. B \subseteq V /\ (p # NULL => p \in B) /\ Closed(s, B)
  <2>1. CASE p = NULL BY <2>1, <1>4 DEF Closed
  <2>2. CASE p # NULL
    <3>1. B \subseteq V /\ p \in B BY <2>2, <1>3
    <3>2. ASSUME NEW z \in B, s.par[z] # NULL PROVE s.par[z] \in B
      <4>1. s.par[z] \in V BY <3>1, <3>2, <1>5
      <4>2. ASSUME NEW U \in SUBSET V, p \in U, Closed(s, U) PROVE s.par[z] \in U
        <5>1. z \in U BY <4>2, <2>2, <1>3
        <5> QED BY <5>1, <4>2, <3>2 DEF Closed
      <4> QED BY <4>1, <4>2, <2>2, <1>3
    <3> QED BY <3>1, <3>2 DEF Closed
  <2> QED BY <2>1, <2>2
<1>10. A \subseteq {x} \union B
  <2>1. {x} \union B \in SUBSET V BY <1>9
  <2>2. Closed(s, {x} \union B) BY <1>9 DEF Closed
  <2> QED BY <2>1, <2>2, <1>8
<1>11. B \subseteq A
  <2>1. CASE p = NULL BY <2>1, <1>4
  <2>2. CASE p # NULL
    <3>1. p \in A BY <2>2, <1>6, <1>7 DEF Closed
    <3> QED BY <3>1, <2>2, <1>3, <1>6, <1>7
  <2> QED BY <2>1, <2>2
<1> QED BY <1>6, <1>7, <1>8, <1>10, <1>11 DEF A, B

\* One node of a way up is the child of the next: no two children of a node
\* are on it.
LEMMA WayUp ==
  ASSUME NEW s, NEW V, NEW D, NEW M, Tree(s, V, D, M), NEW q \in V
  PROVE  /\ \A a \in Above(s, V, q) : D[a] <= D[q]
         /\ \A a, b \in Above(s, V, q) : D[a] = D[b] => a = b
         /\ \A a \in Above(s, V, q) : a # q => \E d \in Side : s.kid[a][d] \in Above(s, V, q)
<1> DEFINE A(x) == Above(s, V, x)
           Low == {x \in V : \A a \in A(x) : D[a] <= D[x]}
           One == {x \in V : \A a, b \in A(x) : D[a] = D[b] => a = b}
<1>1. V \subseteq Node /\ M \in Nat /\ D \in [V -> 0 .. M] /\ NULL \notin V BY NodeAssumption DEF Tree
<1>2. \A x \in V : A(x) = {x} \union A(s.par[x]) /\ A(x) \subseteq V /\ Closed(s, A(x)) BY AboveIs
<1>3. A(NULL) = {} BY DEF Above
<1>4. \A x \in V : s.par[x] \in V \union {NULL} /\ (s.par[x] # NULL => D[x] = D[s.par[x]] + 1) BY DEF Tree
<1> HIDE DEF A
<1>5. ASSUME NEW x \in V, s.par[x] \in Low \union {NULL} PROVE \A a \in A(s.par[x]) : D[a] < D[x] /\ a \in V
  <2> TAKE a \in A(s.par[x])
  <2>1. s.par[x] \in Low /\ D[a] <= D[s.par[x]] BY <1>3, <1>5
  <2>2. a \in V /\ D[x] = D[s.par[x]] + 1 BY <2>1, <1>2, <1>4, <1>1
  <2>3. D[a] \in Nat /\ D[s.par[x]] \in Nat BY <2>1, <2>2, <1>1
  <2> QED BY <2>1, <2>2, <2>3
<1>6. V \subseteq Low
  <2>1. ASSUME NEW x \in V, s.par[x] \in Low \union {NULL} PROVE x \in Low
    <3>1. \A a \in A(s.par[x]) : D[a] < D[x] /\ a \in V BY <2>1, <1>5
    <3>2. \A a \in A(x) : a = x \/ a \in A(s.par[x]) BY <1>2
    <3> QED BY <3>1, <3>2, <1>1
  <2> HIDE DEF Low
  <2> QED BY <2>1, FromRoot
<1>7. V \subseteq One
  <2>1. ASSUME NEW x \in V, s.par[x] \in One \union {NULL} PROVE x \in One
    <3>1. \A a \in A(s.par[x]) : D[a] < D[x] /\ a \in V BY <1>4, <1>5, <1>6
    <3>2. \A a \in A(x) : a = x \/ a \in A(s.par[x]) BY <1>2
    <3>3. \A a, b \in A(s.par[x]) : D[a] = D[b] => a = b BY <2>1, <1>3
    <3>4. D[x] \in Nat /\ \A a \in A(s.par[x]) : D[a] \in Nat BY <3>1, <1>1
    <3> HIDE DEF One
    <3>5. \A a, b \in A(x) : D[a] = D[b] => a = b BY <3>1, <3>2, <3>3, <3>4
    <3> QED BY <3>5 DEF One
  <2> HIDE DEF One
  <2> QED BY <2>1, FromRoot
<1>8. \A a \in A(q) : a # q => \E d \in Side : s.kid[a][d] \in A(q)
  <2> DEFINE U == {a \in A(q) : a = q \/ \E d \in Side : s.kid[a][d] \in A(q)}
  <2>1. U \subseteq V /\ q \in U BY <1>2
  <2>2. ASSUME NEW z \in U, s.par[z] # NULL PROVE s.par[z] \in U
    <3>1. z \in A(q) /\ z \in V BY <2>1
    <3>2. s.par[z] \in A(q) BY <3>1, <2>2, <1>2 DEF Closed
    <3>3. \E d \in Side : s.kid[s.par[z]][d] = z BY <3>1, <2>2 DEF Tree
    <3> QED BY <3>1, <3>2, <3>3
  <2> HIDE DEF U
  <2>3. Closed(s, U) BY <2>2 DEF Closed
  <2>4. A(q) \subseteq U BY <2>1, <2>3, AboveIs DEF A
  <2> QED BY <2>4 DEF U
<1> QED BY <1>6, <1>7, <1>8 DEF A

\* What happens on the way up from q: of the children of a node at most one
\* is on it, one if the node is and is not q itself.
LEMMA OnTheWay ==
  ASSUME NEW s, NEW V, NEW D, NEW M, Tree(s, V, D, M), NEW q \in V, NEW a \in V
  PROVE  /\ a \notin Above(s, V, q) => \A d \in Side : s.kid[a][d] \notin Above(s, V, q)
         /\ \A d \in Side : s.kid[q][d] \notin Above(s, V, q)
         /\ ~(s.kid[a].left \in Above(s, V, q) /\ s.kid[a].right \in Above(s, V, q))
         /\ a \in Above(s, V, q) /\ a # q => \E d \in Side : s.kid[a][d] \in Above(s, V, q)
<1> DEFINE A == Above(s, V, q)
<1>1. V \subseteq Node /\ M \in Nat /\ D \in [V -> 0 .. M] /\ NULL \notin V BY NodeAssumption DEF Tree
<1>2. A \subseteq V /\ q \in A /\ Closed(s, A) BY AboveIs
<1>3. /\ \A b \in A : D[b] <= D[q]
      /\ \A b, c \in A : D[b] = D[c] => b = c
      /\ \A b \in A : b # q => \E d \in Side : s.kid[b][d] \in A
  BY WayUp
<1> HIDE DEF A
<1>4. \A b \in V, d \in Side : s.kid[b][d] \in A => s.par[s.kid[b][d]] = b /\ D[s.kid[b][d]] = D[b] + 1 /\ b # NULL
  <2> TAKE b \in V, d \in Side
  <2> HAVE s.kid[b][d] \in A
  <2>1. s.kid[b][d] \in V /\ s.kid[b][d] # NULL BY <1>1, <1>2
  <2>2. s.par[s.kid[b][d]] = b /\ b # NULL BY <2>1, <1>1 DEF Tree
  <2> QED BY <2>1, <2>2 DEF Tree
<1>5. \A d \in Side : s.kid[a][d] \in A => a \in A BY <1>2, <1>4 DEF Closed
<1>6. ASSUME NEW d \in Side, s.kid[q][d] \in A PROVE FALSE
  <2>1. D[s.kid[q][d]] = D[q] + 1 /\ D[s.kid[q][d]] <= D[q] /\ D[q] \in Nat BY <1>1, <1>3, <1>4, <1>6
  <2> QED BY <2>1
<1>7. ASSUME s.kid[a].left \in A, s.kid[a].right \in A PROVE FALSE
  <2>1. D[s.kid[a].left] = D[a] + 1 /\ D[s.kid[a].right] = D[a] + 1 BY <1>4, <1>7 DEF Side
  <2>2. s.kid[a].left = s.kid[a].right BY <2>1, <1>3, <1>7
  <2>3. s.kid[a].left # NULL BY <1>1, <1>2, <1>7
  <2> QED BY <2>2, <2>3 DEF Tree
<1> QED BY <1>3, <1>5, <1>6, <1>7 DEF A

\* The way up of a node that has changed places.
LEMMA RelabelAbove ==
  ASSUME NEW s, NEW r, NEW V, NEW D, NEW M, Tree(s, V, D, M),
         NEW a \in Node, NEW b \in Node, Relabelled(r, s, a, b)
  PROVE  \A x \in Moved(V, a, b) \union {NULL} : \A y :
            y \in Above(r, Moved(V, a, b), x) <=> Sw(a, b, y) \in Above(s, V, Sw(a, b, x))
<1> DEFINE W == Moved(V, a, b)
           C == [x \in W |-> D[Sw(a, b, x)]]
           w(x) == Sw(a, b, x)
           Same == {x \in W : \A y : y \in Above(r, W, x) <=> w(y) \in Above(s, V, w(x))}
<1>1. Tree(r, W, C, M) BY RelabelTree
<1>2. \A x : w(w(x)) = x /\ (w(x) = NULL <=> x = NULL) /\ (w(x) \in Node <=> x \in Node)
  BY SwFacts
<1>3. \A x \in W : w(x) \in V /\ x \in Node BY DEF Moved
<1>4. \A y : y \in Above(r, W, NULL) <=> w(y) \in Above(s, V, w(NULL)) BY <1>2 DEF Above
<1> HIDE DEF W, C, w
<1>5. ASSUME NEW x \in W, r.par[x] \in Same \union {NULL} PROVE x \in Same
  <2>1. Above(r, W, x) = {x} \union Above(r, W, r.par[x]) BY <1>1, AboveIs
  <2>2. Above(s, V, w(x)) = {w(x)} \union Above(s, V, s.par[w(x)]) BY <1>3, AboveIs
  <2>3. r.par[x] = w(s.par[w(x)]) BY <1>3 DEF Relabelled, w
  <2>4. w(r.par[x]) = s.par[w(x)] BY <2>3, <1>2
  <2>5. \A y : y \in Above(r, W, r.par[x]) <=> w(y) \in Above(s, V, w(r.par[x])) BY <1>4, <1>5
  <2>6. \A y : y = x <=> w(y) = w(x) BY <1>2
  <2> QED BY <2>1, <2>2, <2>4, <2>5, <2>6
<1> HIDE DEF Same
<1>6. W \subseteq Same BY <1>1, <1>5, FromRoot
<1> QED BY <1>4, <1>6 DEF Same, W, w

----------------------------------------------------------------------------
\* The weights of all subtrees.
Weights(s) ==
    LET f[x \in Node \union {NULL}] ==
            IF x = NULL THEN 0 ELSE 1 + f[s.kid[x].left] + f[s.kid[x].right]
    IN  f

LEMMA WeightsAre ==
  ASSUME NEW s, NEW V, NEW D, NEW M, Tree(s, V, D, M)
  PROVE  /\ Weights(s)[NULL] = 0
         /\ \A x \in V : Weights(s)[x] = 1 + Weights(s)[s.kid[x].left] + Weights(s)[s.kid[x].right]
         /\ \A x \in V \union {NULL} : Weights(s)[x] \in Nat
<1> DEFINE G == [z \in Node \X Nat \X Nat |-> 1 + z[2] + z[3]]
           h == Weights(s)
<1>1. NULL \notin Node /\ V \subseteq Node BY NodeAssumption DEF Tree
<1>2. G \in [Node \X Nat \X Nat -> Nat] OBVIOUS
<1>3. \A x \in Node, p, q \in Nat : G[<<x, p, q>>] = 1 + p + q OBVIOUS
<1> HIDE DEF G
<1>4. PICK f \in [Node \union {NULL} -> Nat] : f[NULL] = 0 /\ Solves(s, Node, f, G)
  BY <1>2, Recursion
<1>5. \A x \in Node : s.kid[x].left \in Node \union {NULL} /\ s.kid[x].right \in Node \union {NULL}
  BY <1>1 DEF Tree, Side
<1>6. \A x \in Node : f[x] = 1 + f[s.kid[x].left] + f[s.kid[x].right]
  <2> TAKE x \in Node
  <2>1. f[s.kid[x].left] \in Nat /\ f[s.kid[x].right] \in Nat BY <1>4, <1>5
  <2>2. f[x] = G[<<x, f[s.kid[x].left], f[s.kid[x].right]>>] BY <1>4 DEF Solves
  <2> QED BY <2>1, <2>2, <1>3
<1>7. f = [x \in Node \union {NULL} |-> IF x = NULL THEN 0 ELSE 1 + f[s.kid[x].left] + f[s.kid[x].right]]
  BY <1>1, <1>4, <1>6
<1>8. h = [x \in Node \union {NULL} |-> IF x = NULL THEN 0 ELSE 1 + h[s.kid[x].left] + h[s.kid[x].right]]
  BY <1>7, Zenon DEF Weights
<1> HIDE DEF h
<1>9. h[NULL] = 0 /\ \A x \in Node : h[x] = 1 + h[s.kid[x].left] + h[s.kid[x].right]
  BY <1>1, <1>8
<1> DEFINE T == {x \in V : h[x] \in Nat}
<1>10. ASSUME NEW x \in V, s.kid[x].left \in T \union {NULL}, s.kid[x].right \in T \union {NULL} PROVE x \in T
  <2>1. h[s.kid[x].left] \in Nat /\ h[s.kid[x].right] \in Nat BY <1>9, <1>10
  <2> QED BY <2>1, <1>1, <1>9
<1> HIDE DEF T
<1>11. V \subseteq T BY <1>10, FromLeaves
<1> QED BY <1>1, <1>9, <1>11 DEF T, h

\* Nothing else adds up like the weights.
LEMMA WeightsOnly ==
  ASSUME NEW s, NEW V, NEW D, NEW M, Tree(s, V, D, M), NEW g, g[NULL] = 0,
         \A x \in V : g[x] = 1 + g[s.kid[x].left] + g[s.kid[x].right]
  PROVE  \A x \in V \union {NULL} : Weights(s)[x] = g[x]
<1> DEFINE h == Weights(s)
           T == {x \in V : h[x] = g[x]}
<1>1. h[NULL] = 0 /\ \A x \in V : h[x] = 1 + h[s.kid[x].left] + h[s.kid[x].right] BY WeightsAre
<1> HIDE DEF h
<1>2. ASSUME NEW x \in V, s.kid[x].left \in T \union {NULL}, s.kid[x].right \in T \union {NULL} PROVE x \in T
  <2>1. h[s.kid[x].left] = g[s.kid[x].left] /\ h[s.kid[x].right] = g[s.kid[x].right] BY <1>1, <1>2
  <2> QED BY <2>1, <1>1
<1> HIDE DEF T
<1>3. V \subseteq T BY <1>2, FromLeaves
<1> QED BY <1>1, <1>3 DEF T, h

\* A node that changes places takes the weight of the place.
LEMMA RelabelWeights ==
  ASSUME NEW s, NEW r, NEW V, NEW D, NEW M, Tree(s, V, D, M),
         NEW a \in Node, NEW b \in Node, Relabelled(r, s, a, b)
  PROVE  \A x \in Moved(V, a, b) \union {NULL} : Weights(r)[x] = Weights(s)[Sw(a, b, x)]
<1> DEFINE W == Moved(V, a, b)
           C == [x \in W |-> D[Sw(a, b, x)]]
           w(x) == Sw(a, b, x)
           g == [x \in W \union {NULL} |-> Weights(s)[w(x)]]
<1>1. Tree(r, W, C, M) BY RelabelTree
<1>2. \A x : w(w(x)) = x /\ (w(x) = NULL <=> x = NULL) /\ (w(x) \in Node <=> x \in Node)
  BY SwFacts
<1>3. \A x \in W : w(x) \in V /\ x \in Node BY DEF Moved
<1>4. \A x \in W : r.kid[x].left \in W \union {NULL} /\ r.kid[x].right \in W \union {NULL}
  <2> HIDE DEF W, C
  <2> QED BY <1>1 DEF Tree, Side
<1>5. Weights(s)[NULL] = 0
      /\ \A x \in V : Weights(s)[x] = 1 + Weights(s)[s.kid[x].left] + Weights(s)[s.kid[x].right]
  BY WeightsAre
<1>6. \A x \in W : r.kid[x].left = w(s.kid[w(x)].left) /\ r.kid[x].right = w(s.kid[w(x)].right)
  BY <1>3 DEF Relabelled, Side
<1> HIDE DEF W, C, w
<1>7. \A x \in W \union {NULL} : g[x] = Weights(s)[w(x)] OBVIOUS
<1> HIDE DEF g
<1>8. g[NULL] = 0 BY <1>2, <1>5, <1>7
<1>9. ASSUME NEW x \in W PROVE g[x] = 1 + g[r.kid[x].left] + g[r.kid[x].right]
  <2>1. g[r.kid[x].left] = Weights(s)[s.kid[w(x)].left] /\ g[r.kid[x].right] = Weights(s)[s.kid[w(x)].right]
    BY <1>2, <1>4, <1>6, <1>7
  <2> QED BY <2>1, <1>3, <1>5, <1>7
<1>10. \A x \in W \union {NULL} : Weights(r)[x] = g[x] BY <1>1, <1>8, <1>9, WeightsOnly
<1> QED BY <1>7, <1>10 DEF W, w

----------------------------------------------------------------------------
\* r is s with the new leaf n, which hangs below q on side d.
Hangs(r, s, n, q, d) ==
    /\ r.root = s.root /\ r.par[n] = q
    /\ \A x \in Node : x # n => r.par[x] = s.par[x]
    /\ \A x \in Node, e \in Side : r.kid[x][e] = IF x = q /\ e = d THEN n ELSE s.kid[x][e]

LEMMA HangTree ==
  ASSUME NEW s, NEW r, NEW V, NEW D, NEW M, Tree(s, V, D, M),
         NEW q \in V, NEW d \in Side, s.kid[q][d] = NULL, NEW n \in Node \ V, Hangs(r, s, n, q, d)
  PROVE  \E C, K : Tree(r, V \union {n}, C, K)
<1> DEFINE W == V \union {n}
           C == [x \in W |-> IF x = n THEN D[q] + 1 ELSE D[x]]
<1>1. V \subseteq Node /\ M \in Nat /\ D \in [V -> 0 .. M] /\ NULL \notin Node /\ n # q
  BY NodeAssumption DEF Tree
<1>2. W \subseteq Node /\ C \in [W -> 0 .. M + 1] BY <1>1
<1>3. C[n] = D[q] + 1 /\ \A x \in V : C[x] = D[x] BY <1>1
<1>4. /\ r.root = s.root /\ r.par[n] = q
      /\ \A x \in Node : x # n => r.par[x] = s.par[x]
      /\ \A x \in Node, e \in Side : r.kid[x][e] = IF x = q /\ e = d THEN n ELSE s.kid[x][e]
  BY DEF Hangs
<1> HIDE DEF C
<1>5. r.root \in W \union {NULL} /\ (r.root # NULL => r.par[r.root] = NULL)
  <2>1. s.root \in V \union {NULL} /\ (s.root # NULL => s.par[s.root] = NULL) BY DEF Tree
  <2> QED BY <2>1, <1>1, <1>4
<1>6. ASSUME NEW x \in V
      PROVE  /\ r.par[x] \in W \union {NULL}
             /\ r.par[x] = NULL => x = r.root
             /\ r.par[x] # NULL => C[x] = C[r.par[x]] + 1 /\ \E e \in Side : r.kid[r.par[x]][e] = x
             /\ \A e \in Side : /\ r.kid[x][e] \in W \union {NULL}
                                /\ r.kid[x][e] # NULL => r.par[r.kid[x][e]] = x
             /\ r.kid[x].left # NULL => r.kid[x].left # r.kid[x].right
  <2>1. /\ s.par[x] \in V \union {NULL}
        /\ s.par[x] = NULL => x = s.root
        /\ s.par[x] # NULL => D[x] = D[s.par[x]] + 1 /\ \E e \in Side : s.kid[s.par[x]][e] = x
        /\ \A e \in Side : /\ s.kid[x][e] \in V \union {NULL}
                           /\ s.kid[x][e] # NULL => s.par[s.kid[x][e]] = x
        /\ s.kid[x].left # NULL => s.kid[x].left # s.kid[x].right
    BY DEF Tree
  <2>2. x \in Node /\ x # n /\ r.par[x] = s.par[x] BY <1>1, <1>4
  <2>3. r.par[x] # NULL => \E e \in Side : r.kid[r.par[x]][e] = x
    <3> SUFFICES ASSUME r.par[x] # NULL PROVE \E e \in Side : r.kid[r.par[x]][e] = x OBVIOUS
    <3>1. PICK e \in Side : s.kid[s.par[x]][e] = x BY <2>1, <2>2
    <3>2. ~(s.par[x] = q /\ e = d) BY <3>1, <2>2, <1>1
    <3>3. s.par[x] \in Node BY <2>1, <2>2, <1>1
    <3> QED BY <3>1, <3>2, <3>3, <2>2, <1>4
  <2>4. ASSUME NEW e \in Side
        PROVE  r.kid[x][e] \in W \union {NULL} /\ (r.kid[x][e] # NULL => r.par[r.kid[x][e]] = x)
    <3>1. CASE x = q /\ e = d BY <3>1, <1>4, <2>2
    <3>2. CASE ~(x = q /\ e = d)
      <4>1. r.kid[x][e] = s.kid[x][e] BY <3>2, <1>4, <2>2
      <4>2. s.kid[x][e] # NULL => s.kid[x][e] \in Node /\ s.kid[x][e] # n BY <2>1, <1>1
      <4> QED BY <4>1, <4>2, <2>1, <1>4
    <3> QED BY <3>1, <3>2
  <2>5. r.kid[x].left # NULL => r.kid[x].left # r.kid[x].right
    <3>1. s.kid[x].left # n /\ s.kid[x].right # n BY <2>1, <1>1 DEF Side
    <3>2. /\ r.kid[x].left = IF x = q /\ d = "left" THEN n ELSE s.kid[x].left
          /\ r.kid[x].right = IF x = q /\ d = "right" THEN n ELSE s.kid[x].right
      BY <2>2, <1>4 DEF Side
    <3> QED BY <3>1, <3>2, <2>1
  <2>6. r.par[x] # NULL => C[x] = C[r.par[x]] + 1 BY <2>1, <2>2, <1>3
  <2> QED BY <2>1, <2>2, <2>3, <2>4, <2>5, <2>6, <1>4
<1>7. /\ r.par[n] \in W \union {NULL} /\ r.par[n] # NULL
      /\ C[n] = C[r.par[n]] + 1 /\ \E e \in Side : r.kid[r.par[n]][e] = n
      /\ \A e \in Side : r.kid[n][e] = NULL
  <2>1. \A e \in Side : s.kid[n][e] = NULL BY DEF Tree
  <2>2. q \in Node /\ q # NULL BY <1>1
  <2> QED BY <2>1, <2>2, <1>1, <1>3, <1>4
<1>8. r.kid[n].left = NULL BY <1>7 DEF Side
<1>9. ASSUME NEW x \in Node \ W PROVE r.par[x] = x /\ \A e \in Side : r.kid[x][e] = NULL
  <2>1. x \in Node \ V /\ x # n /\ x # q OBVIOUS
  <2> QED BY <2>1, <1>4 DEF Tree
<1> HIDE DEF W
<1>10. ASSUME NEW x \in W
      PROVE  /\ r.par[x] \in W \union {NULL}
             /\ r.par[x] = NULL => x = r.root
             /\ r.par[x] # NULL => C[x] = C[r.par[x]] + 1 /\ \E e \in Side : r.kid[r.par[x]][e] = x
             /\ \A e \in Side : /\ r.kid[x][e] \in W \union {NULL}
                                /\ r.kid[x][e] # NULL => r.par[r.kid[x][e]] = x
             /\ r.kid[x].left # NULL => r.kid[x].left # r.kid[x].right
  <2>1. CASE x = n BY <2>1, <1>7, <1>8
  <2>2. CASE x # n BY <2>2, <1>6 DEF W
  <2> QED BY <2>1, <2>2
<1>11. M + 1 \in Nat BY <1>1
<1>12. Tree(r, W, C, M + 1) BY <1>2, <1>5, <1>9, <1>10, <1>11 DEF Tree
<1> QED BY <1>12 DEF W

\* Those above the leaf are those above q, ...
LEMMA HangAbove ==
  ASSUME NEW s, NEW r, NEW V, NEW D, NEW M, Tree(s, V, D, M),
         NEW q \in V, NEW d \in Side, s.kid[q][d] = NULL, NEW n \in Node \ V, Hangs(r, s, n, q, d)
  PROVE  /\ \A x \in V \union {NULL} : Above(r, V \union {n}, x) = Above(s, V, x)
         /\ Above(r, V \union {n}, n) = {n} \union Above(s, V, q)
<1> DEFINE W == V \union {n}
           Same == {x \in V : Above(r, W, x) = Above(s, V, x)}
<1>1. PICK C, K : Tree(r, W, C, K) BY HangTree
<1>2. V \subseteq Node /\ n # NULL BY NodeAssumption DEF Tree
<1>3. Above(r, W, NULL) = Above(s, V, NULL) BY DEF Above
<1>4. ASSUME NEW x \in V, s.par[x] \in Same \union {NULL} PROVE x \in Same
  <2>1. x # n /\ r.par[x] = s.par[x] BY <1>2 DEF Hangs
  <2>2. Above(s, V, x) = {x} \union Above(s, V, s.par[x]) BY AboveIs
  <2>3. Above(r, W, x) = {x} \union Above(r, W, r.par[x])
    BY <1>1, AboveIs
  <2> QED BY <2>1, <2>2, <2>3, <1>3, <1>4
<1>5. V \subseteq Same
  <2> HIDE DEF Same
  <2> QED BY <1>4, FromRoot
<1>6. Above(r, W, n) = {n} \union Above(r, W, r.par[n])
  BY <1>1, AboveIs
<1> QED BY <1>3, <1>5, <1>6 DEF Hangs

\* ... and they weigh one more.
LEMMA HangWeights ==
  ASSUME NEW s, NEW r, NEW V, NEW D, NEW M, Tree(s, V, D, M),
         NEW q \in V, NEW d \in Side, s.kid[q][d] = NULL, NEW n \in Node \ V, Hangs(r, s, n, q, d)
  PROVE  /\ Weights(r)[n] = 1 /\ Weights(r)[NULL] = 0
         /\ \A x \in V : Weights(r)[x] = Weights(s)[x] + IF x \in Above(s, V, q) THEN 1 ELSE 0
<1> DEFINE W == V \union {n}
           A == Above(s, V, q)
           h == Weights(s)
           g == [x \in W \union {NULL} |->
                    IF x = n THEN 1 ELSE IF x \in A THEN h[x] + 1 ELSE h[x]]
<1>1. PICK C, K : Tree(r, W, C, K) BY HangTree
<1>2. V \subseteq Node /\ n # NULL /\ n \notin V /\ NULL \notin V BY NodeAssumption DEF Tree
<1>3. h[NULL] = 0 /\ (\A x \in V : h[x] = 1 + h[s.kid[x].left] + h[s.kid[x].right])
      /\ \A x \in V \union {NULL} : h[x] \in Nat
  BY WeightsAre
<1>4. A \subseteq V /\ q \in A BY AboveIs
<1>5. /\ \A x \in V : x \notin A => \A e \in Side : s.kid[x][e] \notin A
      /\ \A e \in Side : s.kid[q][e] \notin A
      /\ \A x \in V : ~(s.kid[x].left \in A /\ s.kid[x].right \in A)
      /\ \A x \in V : x \in A /\ x # q => \E e \in Side : s.kid[x][e] \in A
  BY OnTheWay
<1>6. \A x \in V, e \in Side : s.kid[x][e] \in V \union {NULL} BY DEF Tree
<1>7. \A x \in V, e \in Side : r.kid[x][e] = IF x = q /\ e = d THEN n ELSE s.kid[x][e] BY <1>2 DEF Hangs
<1>8. \A e \in Side : r.kid[n][e] = NULL
  <2>1. \A e \in Side : s.kid[n][e] = NULL BY DEF Tree
  <2> QED BY <2>1, <1>2 DEF Hangs
<1> HIDE DEF A, h
<1>9. /\ g[n] = 1 /\ g[NULL] = 0
      /\ \A x \in V \union {NULL} : g[x] = IF x \in A THEN h[x] + 1 ELSE h[x]
  BY <1>2, <1>3, <1>4
<1> HIDE DEF g
<1>10. ASSUME NEW x \in V PROVE g[x] = 1 + g[r.kid[x].left] + g[r.kid[x].right]
  <2>1. /\ s.kid[x].left \in V \union {NULL} /\ s.kid[x].right \in V \union {NULL}
        /\ h[s.kid[x].left] \in Nat /\ h[s.kid[x].right] \in Nat
        /\ h[x] = 1 + h[s.kid[x].left] + h[s.kid[x].right]
    BY <1>3, <1>6 DEF Side
  <2>2. CASE x # q
    <3>1. r.kid[x].left = s.kid[x].left /\ r.kid[x].right = s.kid[x].right BY <2>2, <1>7 DEF Side
    <3>2. /\ x \in A => s.kid[x].left \in A \/ s.kid[x].right \in A
          /\ x \notin A => s.kid[x].left \notin A /\ s.kid[x].right \notin A
          /\ ~(s.kid[x].left \in A /\ s.kid[x].right \in A)
      BY <2>2, <1>5 DEF Side
    <3> QED BY <3>1, <3>2, <2>1, <1>9
  <2>3. CASE x = q /\ d = "left"
    <3>1. r.kid[x].left = n /\ r.kid[x].right = s.kid[x].right /\ s.kid[x].left = NULL
      BY <2>3, <1>7 DEF Side
    <3>2. s.kid[x].right \notin A /\ x \in A BY <2>3, <1>4, <1>5 DEF Side
    <3> QED BY <3>1, <3>2, <2>1, <1>3, <1>9
  <2>4. CASE x = q /\ d = "right"
    <3>1. r.kid[x].right = n /\ r.kid[x].left = s.kid[x].left /\ s.kid[x].right = NULL
      BY <2>4, <1>7 DEF Side
    <3>2. s.kid[x].left \notin A /\ x \in A BY <2>4, <1>4, <1>5 DEF Side
    <3> QED BY <3>1, <3>2, <2>1, <1>3, <1>9
  <2> QED BY <2>2, <2>3, <2>4 DEF Side
<1>11. g[n] = 1 + g[r.kid[n].left] + g[r.kid[n].right] BY <1>8, <1>9 DEF Side
<1>12. \A x \in W \union {NULL} : Weights(r)[x] = g[x]
  BY <1>1, <1>9, <1>10, <1>11, WeightsOnly
<1>13. Weights(r)[n] = 1 /\ Weights(r)[NULL] = 0 BY <1>9, <1>12
<1>14. \A x \in V : Weights(r)[x] = h[x] + IF x \in A THEN 1 ELSE 0 BY <1>3, <1>9, <1>12
<1> QED BY <1>13, <1>14 DEF h, A

\* Taking a leaf away undoes hanging it there.
LEMMA CutTree ==
  ASSUME NEW s, NEW r, NEW V, NEW D, NEW M, Tree(r, V, D, M),
         NEW n \in V, \A e \in Side : r.kid[n][e] = NULL, NEW q \in V, r.par[n] = q,
         NEW d \in Side, r.kid[q][d] = n,
         s.root = r.root, s.par[n] = n,
         \A x \in Node : x # n => s.par[x] = r.par[x],
         \A x \in Node, e \in Side : s.kid[x][e] = IF x = q /\ e = d THEN NULL ELSE r.kid[x][e]
  PROVE  (\E C, K : Tree(s, V \ {n}, C, K)) /\ Hangs(r, s, n, q, d) /\ q # n
<1> DEFINE W == V \ {n}
           C == [x \in W |-> D[x]]
<1>1. V \subseteq Node /\ M \in Nat /\ D \in [V -> 0 .. M] /\ NULL \notin Node BY NodeAssumption DEF Tree
<1>2. q # n BY <1>1
<1>3. \A x \in V, e \in Side : r.kid[x][e] = n => x = q /\ e = d
  <2> TAKE x \in V, e \in Side
  <2> HAVE r.kid[x][e] = n
  <2>1. x = q BY <1>1 DEF Tree
  <2>2. r.kid[q].left = n /\ r.kid[q].right = n => FALSE BY <1>1 DEF Tree
  <2> QED BY <2>1, <2>2 DEF Side
<1>4. \A x \in V : r.par[x] # n
  <2> TAKE x \in V
  <2>1. r.par[x] # NULL => \E e \in Side : r.kid[r.par[x]][e] = x BY DEF Tree
  <2>2. r.par[x] = n => x = NULL BY <2>1, <1>1
  <2> QED BY <2>2, <1>1
<1>5. W \subseteq Node /\ C \in [W -> 0 .. M] /\ \A x \in W : C[x] = D[x] BY <1>1
<1> HIDE DEF C
<1>6. s.root \in W \union {NULL} /\ (s.root # NULL => s.par[s.root] = NULL)
  <2>1. r.root \in V \union {NULL} /\ (r.root # NULL => r.par[r.root] = NULL) BY DEF Tree
  <2>2. r.root # n BY <2>1, <1>1
  <2> QED BY <2>1, <2>2, <1>1
<1>7. ASSUME NEW x \in W
      PROVE  /\ s.par[x] \in W \union {NULL}
             /\ s.par[x] = NULL => x = s.root
             /\ s.par[x] # NULL => C[x] = C[s.par[x]] + 1 /\ \E e \in Side : s.kid[s.par[x]][e] = x
             /\ \A e \in Side : /\ s.kid[x][e] \in W \union {NULL}
                                /\ s.kid[x][e] # NULL => s.par[s.kid[x][e]] = x
             /\ s.kid[x].left # NULL => s.kid[x].left # s.kid[x].right
  <2>1. /\ r.par[x] \in V \union {NULL}
        /\ r.par[x] = NULL => x = r.root
        /\ r.par[x] # NULL => D[x] = D[r.par[x]] + 1 /\ \E e \in Side : r.kid[r.par[x]][e] = x
        /\ \A e \in Side : /\ r.kid[x][e] \in V \union {NULL}
                           /\ r.kid[x][e] # NULL => r.par[r.kid[x][e]] = x
        /\ r.kid[x].left # NULL => r.kid[x].left # r.kid[x].right
    BY DEF Tree
  <2>2. x \in Node /\ s.par[x] = r.par[x] /\ r.par[x] # n BY <1>1, <1>4
  <2>3. s.par[x] # NULL => C[x] = C[s.par[x]] + 1 /\ \E e \in Side : s.kid[s.par[x]][e] = x
    <3> SUFFICES ASSUME s.par[x] # NULL PROVE C[x] = C[s.par[x]] + 1 /\ \E e \in Side : s.kid[s.par[x]][e] = x
      OBVIOUS
    <3>1. PICK e \in Side : r.kid[r.par[x]][e] = x BY <2>1, <2>2
    <3>2. s.par[x] \in W /\ s.par[x] \in Node BY <2>1, <2>2, <1>1
    <3>3. s.kid[s.par[x]][e] = x BY <3>1, <3>2, <2>2
    <3> QED BY <3>2, <3>3, <2>1, <2>2, <1>5
  <2>4. ASSUME NEW e \in Side
        PROVE  s.kid[x][e] \in W \union {NULL} /\ (s.kid[x][e] # NULL => s.par[s.kid[x][e]] = x)
    <3>1. CASE x = q /\ e = d BY <3>1, <2>2
    <3>2. CASE ~(x = q /\ e = d)
      <4>1. s.kid[x][e] = r.kid[x][e] /\ r.kid[x][e] # n BY <3>2, <2>2, <1>3
      <4>2. r.kid[x][e] # NULL => r.kid[x][e] \in Node BY <2>1, <1>1
      <4> QED BY <4>1, <4>2, <2>1
    <3> QED BY <3>1, <3>2
  <2>5. s.kid[x].left # NULL => s.kid[x].left # s.kid[x].right
    <3>1. /\ s.kid[x].left = IF x = q /\ d = "left" THEN NULL ELSE r.kid[x].left
          /\ s.kid[x].right = IF x = q /\ d = "right" THEN NULL ELSE r.kid[x].right
      BY <2>2 DEF Side
    <3> QED BY <3>1, <2>1
  <2> QED BY <2>1, <2>2, <2>3, <2>4, <2>5
<1>8. ASSUME NEW x \in Node \ W PROVE s.par[x] = x /\ \A e \in Side : s.kid[x][e] = NULL
  <2>1. CASE x = n BY <2>1, <1>2
  <2>2. CASE x # n
    <3>1. x \in Node \ V /\ x # q BY <2>2
    <3> QED BY <3>1, <2>2 DEF Tree
  <2> QED BY <2>1, <2>2
<1>9. Hangs(r, s, n, q, d)
  <2>1. \A x \in Node, e \in Side : r.kid[x][e] = IF x = q /\ e = d THEN n ELSE s.kid[x][e] OBVIOUS
  <2> QED BY <2>1 DEF Hangs
<1>10. Tree(s, W, C, M) BY <1>1, <1>5, <1>6, <1>7, <1>8 DEF Tree
<1> QED BY <1>2, <1>9, <1>10

----------------------------------------------------------------------------
\* The links and the bits, as the variable t holds them.
Links ==
    [root : Node \union {NULL}, par : [Node -> Node \union {NULL}],
     kid : [Node -> [Side -> Node \union {NULL}]], heavy : [Node -> BOOLEAN]]

\* r is s with p as the parent of n, if there is an n.
ParentSet(r, s, n, p) ==
    /\ r \in Links /\ r.root = s.root /\ r.kid = s.kid /\ r.heavy = s.heavy
    /\ \A x \in Node : r.par[x] = IF x = n THEN p ELSE s.par[x]

LEMMA SetParentIs ==
  ASSUME NEW s \in Links, NEW n \in Node \union {NULL}, NEW p \in Node \union {NULL}
  PROVE  ParentSet(SetParentOf(s, n, p), s, n, p)
<1> DEFINE r == SetParentOf(s, n, p)
<1>1. CASE n = NULL BY <1>1, NodeAssumption DEF ParentSet, SetParentOf
<1>2. CASE n # NULL
  <2>1. r = [s EXCEPT !.par[n] = p] BY <1>2 DEF SetParentOf
  <2> HIDE DEF r
  <2>2. /\ r \in Links /\ r.root = s.root /\ r.kid = s.kid /\ r.heavy = s.heavy
        /\ \A x \in Node : r.par[x] = IF x = n THEN p ELSE s.par[x]
    BY <1>2, <2>1 DEF Links
  <2> QED BY <2>2 DEF ParentSet, r
<1> QED BY <1>1, <1>2

\* r is s with new as the child of p on side d, or as the root.
ChildSet(r, s, new, p, d) ==
    /\ r \in Links /\ r.root = IF p = NULL THEN new ELSE s.root
    /\ r.par = s.par /\ r.heavy = s.heavy
    /\ \A x \in Node, e \in Side : r.kid[x][e] = IF x = p /\ e = d THEN new ELSE s.kid[x][e]

LEMMA ChangeChildIs ==
  ASSUME NEW s \in Links, NEW old, NEW new \in Node \union {NULL}, NEW p \in Node \union {NULL},
         NEW d \in Side, p # NULL => d = IF s.kid[p].left = old THEN "left" ELSE "right"
  PROVE  ChildSet(ChangeChild(s, old, new, p), s, new, p, d)
<1> DEFINE r == ChangeChild(s, old, new, p)
<1>1. CASE p = NULL
  <2>1. r = [s EXCEPT !.root = new] BY <1>1 DEF ChangeChild
  <2> HIDE DEF r
  <2>2. r \in Links /\ r.root = new /\ r.par = s.par /\ r.heavy = s.heavy /\ r.kid = s.kid
    BY <2>1 DEF Links
  <2> QED BY <1>1, <2>2, NodeAssumption DEF ChildSet, r
<1>2. CASE p # NULL
  <2> DEFINE k == [s.kid EXCEPT ![p][d] = new]
  <2>1. r = [s EXCEPT !.kid[p][d] = new] BY <1>2 DEF ChangeChild
  <2>2. s.kid \in [Node -> [Side -> Node \union {NULL}]] /\ p \in Node BY <1>2 DEF Links
  <2>3. /\ k \in [Node -> [Side -> Node \union {NULL}]]
        /\ \A x \in Node, e \in Side : k[x][e] = IF x = p /\ e = d THEN new ELSE s.kid[x][e]
    BY <2>2
  <2>4. r = [s EXCEPT !.kid = k] BY <2>1 DEF Links
  <2> HIDE DEF k, r
  <2>5. r \in Links /\ r.root = s.root /\ r.par = s.par /\ r.heavy = s.heavy /\ r.kid = k
    BY <2>3, <2>4 DEF Links
  <2> QED BY <1>2, <2>3, <2>5 DEF ChildSet, r
<1> QED BY <1>1, <1>2

\* prio_swap does what it says.
LEMMA ExchangeIs ==
  ASSUME NEW s \in Links, NEW V, NEW D, NEW M, Tree(s, V, D, M),
         NEW n \in V, NEW p \in V, s.par[n] = p
  PROVE  Exchange(s, n, p) \in Links /\ Relabelled(Exchange(s, n, p), s, n, p)
<1> DEFINE d == IF s.kid[p].left = n THEN "left" ELSE "right"
           o == Other(d)
           q == s.par[p]
           a == [s EXCEPT !.kid[n][o] = s.kid[p][o], !.kid[p][o] = s.kid[n][o],
                          !.kid[p][d] = s.kid[n][d],
                          !.heavy[n] = s.heavy[p], !.heavy[p] = s.heavy[n]]
           b1 == SetParentOf(a, a.kid[n][o], n)
           b2 == SetParentOf(b1, a.kid[p][o], p)
           b3 == SetParentOf(b2, a.kid[p][d], p)
           b4 == [b3 EXCEPT !.par[n] = q]
           c == ChangeChild(b4, p, n, q)
           r == [c EXCEPT !.kid[n][d] = p, !.par[p] = n]
           w(x) == Sw(n, p, x)
<1>1. V \subseteq Node /\ M \in Nat /\ D \in [V -> 0 .. M] /\ NULL \notin Node BY NodeAssumption DEF Tree
<1>2. Exchange(s, n, p) = r
  <2>1. Turned(s, n, p, d) = a BY Zenon DEF Turned
  <2> HIDE DEF a
  <2>2. Adopted(a, n, p, d) = b3 BY Zenon DEF Adopted
  <2> HIDE DEF b3
  <2> QED BY <2>1, <2>2, Zenon DEF Exchange
<1>3. d \in Side /\ o \in Side /\ d # o /\ (\A e \in Side : e = d \/ e = o) /\ n \in Node /\ p \in Node
  BY <1>1 DEF Side, Other
<1>4. q \in V \union {NULL} /\ q \in Node \union {NULL} BY <1>1 DEF Tree
<1>5. s.kid[p][d] = n
  <2>1. \E e \in Side : s.kid[s.par[n]][e] = n BY <1>1, <1>3 DEF Tree
  <2> QED BY <2>1 DEF Side
<1>6. D[n] = D[p] + 1 /\ (q # NULL => D[p] = D[q] + 1) /\ n # p /\ q # n /\ q # p
  <2>1. D[n] = D[p] + 1 /\ (q # NULL => D[p] = D[q] + 1) BY <1>1, <1>3 DEF Tree
  <2>2. D[n] \in Nat /\ D[p] \in Nat /\ (q # NULL => D[q] \in Nat) BY <1>1, <1>4
  <2>3. p \in Node /\ n \in Node BY <1>1
  <2> HIDE DEF q, d, o
  <2> QED BY <2>1, <2>2, <2>3, <1>1
<1>7. /\ a \in Links /\ a.root = s.root /\ a.par = s.par
      /\ \A x \in Node : a.heavy[x] = s.heavy[w(x)]
      /\ \A x \in Node, e \in Side :
            a.kid[x][e] = IF x = n THEN s.kid[IF e = o THEN p ELSE n][e]
                          ELSE IF x = p THEN s.kid[n][e] ELSE s.kid[x][e]
  <2> DEFINE k == [s.kid EXCEPT ![n][o] = s.kid[p][o], ![p][o] = s.kid[n][o], ![p][d] = s.kid[n][d]]
             h == [s.heavy EXCEPT ![n] = s.heavy[p], ![p] = s.heavy[n]]
  <2> HIDE DEF d, o
  <2>1. /\ s.kid \in [Node -> [Side -> Node \union {NULL}]] /\ s.heavy \in [Node -> BOOLEAN]
        /\ \A x \in Node, e \in Side : s.kid[x][e] \in Node \union {NULL}
    BY DEF Links
  <2>2. a = [s EXCEPT !.kid = k, !.heavy = h] BY <1>3, <1>6 DEF Links
  <2>3. k \in [Node -> [Side -> Node \union {NULL}]] BY <1>3, <2>1
  <2>4. \A x \in Node, e \in Side :
            k[x][e] = IF x = n THEN s.kid[IF e = o THEN p ELSE n][e]
                      ELSE IF x = p THEN s.kid[n][e] ELSE s.kid[x][e]
    BY <1>3, <1>6, <2>1
  <2>5. h \in [Node -> BOOLEAN] /\ \A x \in Node : h[x] = s.heavy[w(x)] BY <1>3, <1>6, <2>1 DEF Sw
  <2> HIDE DEF k, h, a
  <2>6. a \in Links /\ a.root = s.root /\ a.par = s.par /\ a.kid = k /\ a.heavy = h
    BY <2>2, <2>3, <2>5 DEF Links
  <2> QED BY <2>4, <2>5, <2>6
<1> HIDE DEF d, o, q, a
<1>8. a.kid[n][o] = s.kid[p][o] /\ a.kid[p][o] = s.kid[n][o] /\ a.kid[p][d] = s.kid[n][d]
  BY <1>3, <1>6, <1>7
<1>9. \A x \in Node, e \in Side : s.kid[x][e] \in Node \union {NULL} BY DEF Links
<1>10. /\ b1 \in Links /\ b1.root = s.root /\ b1.kid = a.kid /\ b1.heavy = a.heavy
       /\ \A x \in Node : b1.par[x] = IF x = s.kid[p][o] THEN n ELSE s.par[x]
  <2>0. a \in Links BY <1>7
  <2>1. a.kid[n][o] \in Node \union {NULL} /\ n \in Node \union {NULL} BY <1>3, <1>8, <1>9
  <2>2. ParentSet(b1, a, a.kid[n][o], n) BY <2>0, <2>1, SetParentIs
  <2> HIDE DEF b1
  <2> QED BY <2>2, <1>7, <1>8 DEF ParentSet
<1> HIDE DEF b1
<1>11. /\ b2 \in Links /\ b2.root = s.root /\ b2.kid = a.kid /\ b2.heavy = a.heavy
       /\ \A x \in Node : b2.par[x] = IF x = s.kid[n][o] THEN p ELSE b1.par[x]
  <2>0. b1 \in Links BY <1>10
  <2>1. a.kid[p][o] \in Node \union {NULL} /\ p \in Node \union {NULL} BY <1>3, <1>8, <1>9
  <2>2. ParentSet(b2, b1, a.kid[p][o], p) BY <2>0, <2>1, SetParentIs
  <2> HIDE DEF b2
  <2> QED BY <2>2, <1>8, <1>10 DEF ParentSet
<1> HIDE DEF b2
<1>12. /\ b3 \in Links /\ b3.root = s.root /\ b3.kid = a.kid /\ b3.heavy = a.heavy
       /\ \A x \in Node : b3.par[x] = IF x = s.kid[n][d] THEN p ELSE b2.par[x]
  <2>0. b2 \in Links BY <1>11
  <2>1. a.kid[p][d] \in Node \union {NULL} /\ p \in Node \union {NULL} BY <1>3, <1>8, <1>9
  <2>2. ParentSet(b3, b2, a.kid[p][d], p) BY <2>0, <2>1, SetParentIs
  <2> HIDE DEF b3
  <2> QED BY <2>2, <1>8, <1>11 DEF ParentSet
<1> HIDE DEF b3
<1>13. /\ b4 \in Links /\ b4.root = s.root /\ b4.kid = a.kid /\ b4.heavy = a.heavy
       /\ \A x \in Node : b4.par[x] = IF x = n THEN q ELSE b3.par[x]
  BY <1>3, <1>4, <1>12 DEF Links
<1> HIDE DEF b4
<1>14. PICK u \in Side : q # NULL => s.kid[q][u] = p /\ u = IF b4.kid[q].left = p THEN "left" ELSE "right"
  <2>1. CASE q = NULL BY <2>1, <1>3
  <2>2. CASE q # NULL
    <3>1. \E e \in Side : s.kid[q][e] = p BY <2>2, <1>3 DEF Tree, q
    <3>2. q \in Node /\ q # n /\ q # p BY <2>2, <1>4, <1>6
    <3>3. \A e \in Side : b4.kid[q][e] = s.kid[q][e] BY <3>2, <1>7, <1>13
    <3> QED BY <3>1, <3>3 DEF Side
  <2> QED BY <2>1, <2>2
<1>15. /\ c \in Links /\ c.root = (IF q = NULL THEN n ELSE s.root) /\ c.par = b4.par /\ c.heavy = a.heavy
       /\ \A x \in Node, e \in Side : c.kid[x][e] = IF x = q /\ e = u THEN n ELSE a.kid[x][e]
  <2>0. /\ b4 \in Links /\ n \in Node \union {NULL} /\ q \in Node \union {NULL}
        /\ q # NULL => u = IF b4.kid[q].left = p THEN "left" ELSE "right"
    BY <1>3, <1>4, <1>13, <1>14
  <2>1. ChildSet(c, b4, n, q, u) BY <2>0, ChangeChildIs
  <2> HIDE DEF c
  <2> QED BY <2>1, <1>13 DEF ChildSet
<1> HIDE DEF c
<1>16. /\ r \in Links /\ r.root = c.root /\ r.heavy = c.heavy
       /\ \A x \in Node : r.par[x] = IF x = p THEN n ELSE c.par[x]
       /\ \A x \in Node, e \in Side : r.kid[x][e] = IF x = n /\ e = d THEN p ELSE c.kid[x][e]
  BY <1>3, <1>15 DEF Links
<1> HIDE DEF r
<1>17. r.root = w(s.root)
  <2>1. s.root # n BY <1>1, <1>3, <1>6 DEF Tree
  <2>2. q = NULL <=> s.root = p BY <1>1, <1>3 DEF Tree, q
  <2> QED BY <2>1, <2>2, <1>15, <1>16 DEF Sw
<1>18. \A x \in Node : r.heavy[x] = s.heavy[w(x)] BY <1>7, <1>15, <1>16
<1>19. ASSUME NEW x \in Node PROVE r.par[x] = w(s.par[w(x)])
  <2>1. CASE x = n BY <2>1, <1>6, <1>13, <1>15, <1>16 DEF Sw, q
  <2>2. CASE x = p BY <2>2, <1>6, <1>16 DEF Sw
  <2>3. CASE x # n /\ x # p
    <3>1. r.par[x] = IF x = s.kid[n][d] THEN p ELSE IF x = s.kid[n][o] THEN p
                     ELSE IF x = s.kid[p][o] THEN n ELSE s.par[x]
      BY <2>3, <1>10, <1>11, <1>12, <1>13, <1>15, <1>16
    <3>2. w(x) = x BY <2>3 DEF Sw
    <3>3. \A y \in V, e \in Side : s.kid[y][e] = x => s.par[x] = y BY <1>1 DEF Tree
    <3>4. \A y \in V : s.par[x] = y => x = y \/ s.kid[y][d] = x \/ s.kid[y][o] = x
      <4> SUFFICES ASSUME s.par[x] \in V PROVE x = s.par[x] \/ \E e \in Side : s.kid[s.par[x]][e] = x
        BY <1>3
      <4>1. s.par[x] # NULL BY <1>1
      <4> QED BY <4>1 DEF Tree
    <3> QED BY <3>1, <3>2, <3>3, <3>4, <2>3, <1>3, <1>5 DEF Sw
  <2> QED BY <2>1, <2>2, <2>3
<1>20. ASSUME NEW x \in Node, NEW e \in Side PROVE r.kid[x][e] = w(s.kid[w(x)][e])
  <2>1. \A y \in V, f \in Side : s.kid[y][f] # NULL => s.par[s.kid[y][f]] = y BY DEF Tree
  <2>2. CASE x = n
    <3>1. r.kid[x][e] = IF e = d THEN p ELSE s.kid[p][e] BY <2>2, <1>3, <1>6, <1>7, <1>15, <1>16
    <3>2. w(x) = p BY <2>2 DEF Sw
    <3>3. e # d => s.kid[p][e] # n
      <4>1. s.kid[p].left # NULL => s.kid[p].left # s.kid[p].right BY DEF Tree
      <4>2. ~(s.kid[p].left = n /\ s.kid[p].right = n) BY <4>1, <1>1, <1>3
      <4> QED BY <4>2, <1>3, <1>5 DEF Side
    <3>4. s.kid[p][e] # p BY <2>1, <1>1, <1>6 DEF q
    <3> QED BY <3>1, <3>2, <3>3, <3>4, <1>5, <1>6 DEF Sw
  <2>3. CASE x = p
    <3>1. r.kid[x][e] = s.kid[n][e] BY <2>3, <1>3, <1>6, <1>7, <1>15, <1>16
    <3>2. w(x) = n BY <2>3, <1>6 DEF Sw
    <3>3. s.kid[n][e] # n /\ s.kid[n][e] # p BY <2>1, <1>1, <1>6 DEF q
    <3> QED BY <3>1, <3>2, <3>3 DEF Sw
  <2>4. CASE x # n /\ x # p
    <3>1. r.kid[x][e] = IF x = q /\ e = u THEN n ELSE s.kid[x][e] BY <2>4, <1>7, <1>15, <1>16
    <3>2. w(x) = x BY <2>4 DEF Sw
    <3>3. s.kid[x][e] # n /\ (s.kid[x][e] = p => x = q)
      <4>1. CASE x \in V BY <4>1, <2>1, <2>4, <1>1, <1>3 DEF q
      <4>2. CASE x \notin V
        <5>1. s.kid[x][e] = NULL BY <4>2 DEF Tree
        <5> QED BY <5>1, <1>1, <1>3
      <4> QED BY <4>1, <4>2
    <3>4. x = q => s.kid[x][u] = p /\ \A f \in Side : s.kid[x][f] = p => f = u
      <4> HAVE x = q
      <4>1. x \in V /\ q # NULL /\ s.kid[x][u] = p BY <1>1, <1>4, <1>14
      <4>2. s.kid[x].left # NULL => s.kid[x].left # s.kid[x].right BY <4>1 DEF Tree
      <4>3. ~(s.kid[x].left = p /\ s.kid[x].right = p) BY <4>2, <1>1, <1>3
      <4> QED BY <4>1, <4>3 DEF Side
    <3> QED BY <3>1, <3>2, <3>3, <3>4 DEF Sw
  <2> QED BY <2>2, <2>3, <2>4
<1>21. Relabelled(r, s, n, p) BY <1>17, <1>18, <1>19, <1>20 DEF Relabelled, w
<1> QED BY <1>2, <1>16, <1>21

----------------------------------------------------------------------------
\* The walk up of the code finds those above.
Ups(s) ==
    LET above[x \in Node \union {NULL}] == IF x = NULL THEN {} ELSE {x} \union above[s.par[x]]
    IN  above

LEMMA FlipUpIs ==
  ASSUME NEW s, NEW V, NEW D, NEW M, Tree(s, V, D, M), NEW u, u.par = s.par, NEW n \in V \union {NULL}
  PROVE  FlipUp(u, n) = [u EXCEPT !.heavy = [x \in Node |-> u.heavy[x] # (x \in Above(s, V, n))]]
<1> DEFINE F == [x \in Node \union {NULL} |-> IF x \in V \union {NULL} THEN Above(s, V, x) ELSE {x}]
           h == Ups(u)
           T == {x \in V : h[x] = Above(s, V, x)}
<1>1. V \subseteq Node /\ NULL \notin Node BY NodeAssumption DEF Tree
<1>2. /\ \A x \in V : s.par[x] \in V \union {NULL}
      /\ \A x \in Node \ V : s.par[x] = x
  BY DEF Tree
<1>3. Above(s, V, NULL) = {} /\ \A x \in V : Above(s, V, x) = {x} \union Above(s, V, s.par[x])
  BY AboveIs DEF Above
<1>4. ASSUME NEW x \in Node \union {NULL}
      PROVE  F[x] = IF x = NULL THEN {} ELSE {x} \union F[u.par[x]]
  <2>1. CASE x = NULL BY <2>1, <1>3
  <2>2. CASE x \in V
    <3>1. F[x] = Above(s, V, x) /\ F[u.par[x]] = Above(s, V, s.par[x]) BY <2>2, <1>1, <1>2
    <3> QED BY <3>1, <2>2, <1>1, <1>3
  <2>3. CASE x \in Node \ V BY <2>3, <1>1, <1>2
  <2> QED BY <2>1, <2>2, <2>3
<1>5. F = [x \in Node \union {NULL} |-> IF x = NULL THEN {} ELSE {x} \union F[u.par[x]]]
  <2>1. F = [x \in Node \union {NULL} |-> F[x]] OBVIOUS
  <2> HIDE DEF F
  <2> QED BY <2>1, <1>4
<1> HIDE DEF F
<1>6. h = [x \in Node \union {NULL} |-> IF x = NULL THEN {} ELSE {x} \union h[u.par[x]]]
  BY <1>5, Zenon DEF Ups
<1>7. FlipUp(u, n) = [u EXCEPT !.heavy = [x \in Node |-> u.heavy[x] # (x \in h[n])]]
  BY Zenon DEF FlipUp, Ups
<1> HIDE DEF h
<1>8. h[NULL] = {} /\ \A x \in V : h[x] = {x} \union h[s.par[x]] BY <1>1, <1>6
<1>9. ASSUME NEW x \in V, s.par[x] \in T \union {NULL} PROVE x \in T
  <2>1. h[s.par[x]] = Above(s, V, s.par[x]) BY <1>3, <1>8, <1>9
  <2> QED BY <2>1, <1>3, <1>8
<1> HIDE DEF T
<1>10. V \subseteq T BY <1>9, FromRoot
<1>11. h[n] = Above(s, V, n) BY <1>3, <1>8, <1>10 DEF T
<1> QED BY <1>7, <1>11

----------------------------------------------------------------------------
\* A walk from the root that takes side d[x] of x until stop[x].
Walk(s, d, stop, res, f) == f = [x \in Node |-> IF stop[x] THEN res[x] ELSE f[s.kid[x][d[x]]]]

LEMMA WalkDown ==
  ASSUME NEW s, NEW V, NEW D, NEW M, Tree(s, V, D, M),
         NEW d \in [Node -> Side], NEW stop, NEW res,
         \A x \in Node : ~stop[x] => s.kid[x][d[x]] # NULL
  PROVE  \E f : Walk(s, d, stop, res, f)
<1> DEFINE X == {res[x] : x \in Node} \union {0}
           G == [z \in Node \X X \X X |->
                    IF stop[z[1]] THEN res[z[1]] ELSE IF d[z[1]] = "left" THEN z[2] ELSE z[3]]
<1>1. V \subseteq Node /\ NULL \notin Node BY NodeAssumption DEF Tree
<1>2. G \in [Node \X X \X X -> X] OBVIOUS
<1>3. 0 \in X OBVIOUS
<1>4. \A x \in Node, p, q \in X :
         G[<<x, p, q>>] = IF stop[x] THEN res[x] ELSE IF d[x] = "left" THEN p ELSE q
  OBVIOUS
<1> HIDE DEF X, G
<1>5. PICK g \in [Node \union {NULL} -> X] : g[NULL] = 0 /\ Solves(s, Node, g, G)
  BY <1>2, <1>3, Recursion
<1>6. \A x \in Node, e \in Side : s.kid[x][e] \in Node \union {NULL}
  BY <1>1 DEF Tree
<1>7. ASSUME NEW x \in Node
      PROVE  g[x] = IF stop[x] THEN res[x] ELSE g[s.kid[x][d[x]]]
  <2>1. g[s.kid[x].left] \in X /\ g[s.kid[x].right] \in X BY <1>5, <1>6 DEF Side
  <2>2. g[x] = G[<<x, g[s.kid[x].left], g[s.kid[x].right]>>] BY <1>5 DEF Solves
  <2>3. d[x] = "left" \/ d[x] = "right" BY DEF Side
  <2> QED BY <2>1, <2>2, <2>3, <1>4
<1> DEFINE f == [x \in Node |-> g[x]]
<1>8. ASSUME NEW x \in Node PROVE f[x] = IF stop[x] THEN res[x] ELSE f[s.kid[x][d[x]]]
  <2>1. ~stop[x] => s.kid[x][d[x]] \in Node BY <1>6
  <2> QED BY <2>1, <1>7
<1>9. f = [x \in Node |-> IF stop[x] THEN res[x] ELSE f[s.kid[x][d[x]]]]
  <2>1. f = [x \in Node |-> f[x]] OBVIOUS
  <2> HIDE DEF f
  <2> QED BY <2>1, <1>8
<1> QED BY <1>9 DEF Walk

LEMMA WalkEnds ==
  ASSUME NEW s, NEW V, NEW D, NEW M, Tree(s, V, D, M),
         NEW d \in [Node -> Side], NEW stop, NEW res, NEW f, Walk(s, d, stop, res, f),
         \A x \in Node : ~stop[x] => s.kid[x][d[x]] # NULL, s.root # NULL
  PROVE  \E y \in V : /\ stop[y] /\ f[s.root] = res[y]
                      /\ \A a \in Above(s, V, y) : a # y => s.kid[a][d[a]] \in Above(s, V, y)
<1> DEFINE A(x) == Above(s, V, x)
           T == {x \in V : \E y \in V :
                    /\ stop[y] /\ f[x] = res[y] /\ x \in A(y)
                    /\ \A a \in A(y) : a = y \/ (a \in A(x) /\ a # x) \/ s.kid[a][d[a]] \in A(y)}
<1>1. V \subseteq Node /\ NULL \notin Node BY NodeAssumption DEF Tree
<1>2. \A x \in Node : f[x] = IF stop[x] THEN res[x] ELSE f[s.kid[x][d[x]]] BY DEF Walk
<1>3. A(NULL) = {} BY DEF Above
<1>4. \A x \in V : A(x) = {x} \union A(s.par[x]) /\ A(x) \subseteq V /\ x \in A(x) /\ Closed(s, A(x)) BY AboveIs
<1> HIDE DEF A
<1>5. ASSUME NEW x \in V, s.kid[x].left \in T \union {NULL}, s.kid[x].right \in T \union {NULL} PROVE x \in T
  <2>1. CASE stop[x]
    <3>1. f[x] = res[x] /\ x \in A(x) BY <2>1, <1>1, <1>2, <1>4
    <3> QED BY <3>1, <2>1
  <2>2. CASE ~stop[x]
    <3> DEFINE k == s.kid[x][d[x]]
    <3>1. k \in T /\ k \in V /\ s.par[k] = x
      <4>1. d[x] \in Side /\ k # NULL BY <2>2, <1>1
      <4>2. k \in T BY <4>1, <1>5 DEF Side
      <4> QED BY <4>1, <4>2 DEF Tree
    <3>2. f[x] = f[k] BY <2>2, <1>1, <1>2
    <3>3. PICK y \in V : /\ stop[y] /\ f[k] = res[y] /\ k \in A(y)
                         /\ \A a \in A(y) : a = y \/ (a \in A(k) /\ a # k) \/ s.kid[a][d[a]] \in A(y)
      BY <3>1
    <3>4. x \in A(y) BY <3>1, <3>3, <1>1, <1>4 DEF Closed
    <3>5. A(k) = {k} \union A(x) BY <3>1, <1>4
    <3> HIDE DEF T
    <3>6. ASSUME NEW a \in A(y) PROVE a = y \/ (a \in A(x) /\ a # x) \/ s.kid[a][d[a]] \in A(y)
      <4>1. CASE a = x BY <4>1, <3>3
      <4>2. CASE a # x BY <4>2, <3>3, <3>5
      <4> QED BY <4>1, <4>2
    <3> QED BY <3>2, <3>3, <3>4, <3>6 DEF T
  <2> QED BY <2>1, <2>2
<1> HIDE DEF T
<1>6. V \subseteq T BY <1>5, FromLeaves
<1>7. s.root \in V /\ A(s.root) = {s.root} BY <1>3, <1>4 DEF Tree
<1>8. PICK y \in V :
         /\ stop[y] /\ f[s.root] = res[y]
         /\ \A a \in A(y) : a = y \/ (a \in A(s.root) /\ a # s.root) \/ s.kid[a][d[a]] \in A(y)
  BY <1>6, <1>7 DEF T
<1> QED BY <1>7, <1>8 DEF A

----------------------------------------------------------------------------
Lighter(s) == [x \in Node |-> IF s.heavy[x] THEN "right" ELSE "left"]
Heavier(s) == [x \in Node |-> IF s.heavy[x] THEN "left" ELSE "right"]

\* The place of the next leaf is free, and the way to it takes the lighter
\* side at each node.
NextPlaces ==
    LET down[x \in Node] ==
            LET d == IF t.heavy[x] THEN "right" ELSE "left"
            IN  IF t.kid[x][d] = NULL THEN <<x, d>> ELSE down[t.kid[x][d]]
    IN  down

LEMMA NextLeafIs ==
  ASSUME NEW V, NEW D, NEW M, Tree(t, V, D, M), t.root # NULL
  PROVE  \E y \in V : /\ NextLeaf = <<y, Lighter(t)[y]>> /\ t.kid[y][Lighter(t)[y]] = NULL
                      /\ \A a \in Above(t, V, y) : a # y => t.kid[a][Lighter(t)[a]] \in Above(t, V, y)
<1> DEFINE d == Lighter(t)
           stop == [x \in Node |-> t.kid[x][d[x]] = NULL]
           res == [x \in Node |-> <<x, d[x]>>]
           h == NextPlaces
<1>1. V \subseteq Node BY DEF Tree
<1>2. d \in [Node -> Side] /\ \A x \in Node : d[x] = IF t.heavy[x] THEN "right" ELSE "left" BY DEF Lighter, Side
<1> HIDE DEF d
<1>3. /\ \A x \in Node : stop[x] <=> t.kid[x][d[x]] = NULL
      /\ \A x \in Node : res[x] = <<x, d[x]>>
  OBVIOUS
<1> HIDE DEF stop, res
<1>4. \A x \in Node : ~stop[x] => t.kid[x][d[x]] # NULL BY <1>3
<1>5. PICK f : Walk(t, d, stop, res, f) BY <1>2, <1>4, WalkDown
<1>6. f = [x \in Node |-> IF t.kid[x][IF t.heavy[x] THEN "right" ELSE "left"] = NULL
                          THEN <<x, IF t.heavy[x] THEN "right" ELSE "left">>
                          ELSE f[t.kid[x][IF t.heavy[x] THEN "right" ELSE "left"]]]
  <2>1. f = [x \in Node |-> f[x]] BY <1>5 DEF Walk
  <2>2. ASSUME NEW x \in Node
        PROVE  f[x] = IF t.kid[x][IF t.heavy[x] THEN "right" ELSE "left"] = NULL
                      THEN <<x, IF t.heavy[x] THEN "right" ELSE "left">>
                      ELSE f[t.kid[x][IF t.heavy[x] THEN "right" ELSE "left"]]
    <3>1. f[x] = IF stop[x] THEN res[x] ELSE f[t.kid[x][d[x]]] BY <1>5 DEF Walk
    <3>2. d[x] = IF t.heavy[x] THEN "right" ELSE "left" BY <1>2
    <3> QED BY <3>1, <3>2, <1>3
  <2> QED BY <2>1, <2>2
<1>7. h = [x \in Node |-> IF t.kid[x][IF t.heavy[x] THEN "right" ELSE "left"] = NULL
                          THEN <<x, IF t.heavy[x] THEN "right" ELSE "left">>
                          ELSE h[t.kid[x][IF t.heavy[x] THEN "right" ELSE "left"]]]
  BY <1>6, Zenon DEF NextPlaces
<1>8. NextLeaf = h[t.root] BY Zenon DEF NextLeaf, NextPlaces
<1> HIDE DEF h
<1>9. Walk(t, d, stop, res, h)
  <2>1. h = [x \in Node |-> h[x]] BY <1>7
  <2>2. ASSUME NEW x \in Node PROVE h[x] = IF stop[x] THEN res[x] ELSE h[t.kid[x][d[x]]]
    <3>1. d[x] = IF t.heavy[x] THEN "right" ELSE "left" BY <1>2
    <3>2. h[x] = IF t.kid[x][IF t.heavy[x] THEN "right" ELSE "left"] = NULL
                 THEN <<x, IF t.heavy[x] THEN "right" ELSE "left">>
                 ELSE h[t.kid[x][IF t.heavy[x] THEN "right" ELSE "left"]]
      BY <1>7
    <3> QED BY <3>1, <3>2, <1>3
  <2> QED BY <2>1, <2>2 DEF Walk
<1>10. PICK y \in V : /\ stop[y] /\ h[t.root] = res[y]
                      /\ \A a \in Above(t, V, y) : a # y => t.kid[a][d[a]] \in Above(t, V, y)
  BY <1>2, <1>4, <1>9, WalkEnds
<1> QED BY <1>1, <1>3, <1>8, <1>10 DEF d

\* The last leaf has no right child, and the way to it takes the heavier side.
LastPlaces ==
    LET down[x \in Node] ==
            LET d == IF t.heavy[x] THEN "left" ELSE "right"
            IN  IF ~t.heavy[x] /\ t.kid[x].right = NULL THEN x ELSE down[t.kid[x][d]]
    IN  down

LEMMA LastLeafIs ==
  ASSUME NEW V, NEW D, NEW M, Tree(t, V, D, M), t.root # NULL,
         t \in Links, \A x \in Node : t.heavy[x] => t.kid[x].left # NULL
  PROVE  /\ LastLeaf \in V /\ ~t.heavy[LastLeaf] /\ t.kid[LastLeaf].right = NULL
         /\ \A a \in Above(t, V, LastLeaf) :
               a # LastLeaf => t.kid[a][Heavier(t)[a]] \in Above(t, V, LastLeaf)
<1> DEFINE d == Heavier(t)
           stop == [x \in Node |-> ~t.heavy[x] /\ t.kid[x].right = NULL]
           res == [x \in Node |-> x]
           h == LastPlaces
<1>1. V \subseteq Node BY DEF Tree
<1>2. d \in [Node -> Side] /\ \A x \in Node : d[x] = IF t.heavy[x] THEN "left" ELSE "right" BY DEF Heavier, Side
<1> HIDE DEF d
<1>3. /\ \A x \in Node : stop[x] <=> ~t.heavy[x] /\ t.kid[x].right = NULL
      /\ \A x \in Node : res[x] = x
  OBVIOUS
<1> HIDE DEF stop, res
<1>4. \A x \in Node : ~stop[x] => t.kid[x][d[x]] # NULL BY <1>2, <1>3
<1>5. PICK f : Walk(t, d, stop, res, f) BY <1>2, <1>4, WalkDown
<1>6. f = [x \in Node |-> IF ~t.heavy[x] /\ t.kid[x].right = NULL THEN x
                          ELSE f[t.kid[x][IF t.heavy[x] THEN "left" ELSE "right"]]]
  <2>1. f = [x \in Node |-> f[x]] BY <1>5 DEF Walk
  <2>2. ASSUME NEW x \in Node
        PROVE  f[x] = IF ~t.heavy[x] /\ t.kid[x].right = NULL
                      THEN x ELSE f[t.kid[x][IF t.heavy[x] THEN "left"
                      ELSE "right"]]
    <3>1. f[x] = IF stop[x] THEN res[x] ELSE f[t.kid[x][d[x]]] BY <1>5 DEF Walk
    <3>2. d[x] = IF t.heavy[x] THEN "left" ELSE "right" BY <1>2
    <3> QED BY <3>1, <3>2, <1>3
  <2> QED BY <2>1, <2>2
<1>7. h = [x \in Node |-> IF ~t.heavy[x] /\ t.kid[x].right = NULL THEN x
                          ELSE h[t.kid[x][IF t.heavy[x] THEN "left" ELSE "right"]]]
  BY <1>6, Zenon DEF LastPlaces
<1>8. LastLeaf = h[t.root] BY Zenon DEF LastLeaf, LastPlaces
<1> HIDE DEF h
<1>9. Walk(t, d, stop, res, h)
  <2>1. h = [x \in Node |-> h[x]] BY <1>7
  <2>2. ASSUME NEW x \in Node PROVE h[x] = IF stop[x] THEN res[x] ELSE h[t.kid[x][d[x]]]
    <3>1. d[x] = IF t.heavy[x] THEN "left" ELSE "right" BY <1>2
    <3>2. h[x] = IF ~t.heavy[x] /\ t.kid[x].right = NULL
                 THEN x ELSE h[t.kid[x][IF t.heavy[x] THEN "left"
                 ELSE "right"]]
      BY <1>7
    <3> QED BY <3>1, <3>2, <1>3
  <2> QED BY <2>1, <2>2 DEF Walk
<1>10. PICK y \in V : /\ stop[y] /\ h[t.root] = res[y]
                      /\ \A a \in Above(t, V, y) : a # y => t.kid[a][d[a]] \in Above(t, V, y)
  BY <1>2, <1>4, <1>9, WalkEnds
<1> QED BY <1>1, <1>3, <1>8, <1>10 DEF d

----------------------------------------------------------------------------
\* The contents, read from the root down, are the nodes of the tree.
Entries(w) == {w[i] : i \in DOMAIN w}
LEMMA JoinEntries ==
  ASSUME NEW u \in Seq(Node), NEW v \in Seq(Node), NEW x \in Node
  PROVE  u \o <<x>> \o v \in Seq(Node) /\ Entries(u \o <<x>> \o v) = Entries(u) \union {x} \union Entries(v)
<1> DEFINE w == u \o <<x>> \o v
<1>1. w \in Seq(Node) OBVIOUS
<1>2. Entries(w) \subseteq Entries(u) \union {x} \union Entries(v) BY DEF Entries
<1>3. ASSUME NEW i \in DOMAIN u PROVE u[i] \in Entries(w)
  <2>1. i \in DOMAIN w /\ w[i] = u[i] OBVIOUS
  <2> QED BY <2>1 DEF Entries
<1>4. x \in Entries(w)
  <2>1. Len(u) + 1 \in DOMAIN w /\ w[Len(u) + 1] = x OBVIOUS
  <2> QED BY <2>1 DEF Entries
<1>5. ASSUME NEW i \in DOMAIN v PROVE v[i] \in Entries(w)
  <2>1. Len(u) + 1 + i \in DOMAIN w /\ w[Len(u) + 1 + i] = v[i] OBVIOUS
  <2> QED BY <2>1 DEF Entries
<1> HIDE DEF w
<1>6. Entries(u) \subseteq Entries(w) BY <1>3 DEF Entries
<1>7. Entries(v) \subseteq Entries(w) BY <1>5 DEF Entries
<1> QED BY <1>1, <1>2, <1>4, <1>6, <1>7 DEF w

Orders(s) ==
    LET f[n \in Node \union {NULL}] ==
            IF n = NULL THEN <<>>
            ELSE f[s.kid[n].left] \o <<n>> \o f[s.kid[n].right]
    IN  f

LEMMA LinkedIs ==
  ASSUME NEW s, NEW V, NEW D, NEW M, Tree(s, V, D, M)
  PROVE  Linked(s) = V
<1> DEFINE G == [z \in Node \X Seq(Node) \X Seq(Node) |-> z[2] \o <<z[1]>> \o z[3]]
           h == Orders(s)
<1>1. NULL \notin Node /\ V \subseteq Node BY NodeAssumption DEF Tree
<1>2. G \in [Node \X Seq(Node) \X Seq(Node) -> Seq(Node)]
  <2>1. \A z \in Node \X Seq(Node) \X Seq(Node) : z[2] \o <<z[1]>> \o z[3] \in Seq(Node) BY JoinEntries
  <2> QED BY <2>1
<1>3. \A x \in Node, p, q \in Seq(Node) : G[<<x, p, q>>] = p \o <<x>> \o q OBVIOUS
<1> HIDE DEF G
<1>4. <<>> \in Seq(Node) OBVIOUS
<1>5. PICK f \in [Node \union {NULL} -> Seq(Node)] : f[NULL] = <<>> /\ Solves(s, Node, f, G)
  BY <1>2, <1>4, Recursion
<1>6. \A x \in Node : s.kid[x].left \in Node \union {NULL} /\ s.kid[x].right \in Node \union {NULL}
  BY <1>1 DEF Tree, Side
<1>7. ASSUME NEW x \in Node \union {NULL}
      PROVE  f[x] = IF x = NULL THEN <<>> ELSE f[s.kid[x].left] \o <<x>> \o f[s.kid[x].right]
  <2>1. CASE x = NULL BY <2>1, <1>5
  <2>2. CASE x # NULL
    <3>1. f[s.kid[x].left] \in Seq(Node) /\ f[s.kid[x].right] \in Seq(Node) BY <2>2, <1>5, <1>6
    <3>2. f[x] = G[<<x, f[s.kid[x].left], f[s.kid[x].right]>>] BY <2>2, <1>5 DEF Solves
    <3> QED BY <2>2, <3>1, <3>2, <1>3
  <2> QED BY <2>1, <2>2
<1>8. f = [x \in Node \union {NULL} |->
              IF x = NULL THEN <<>> ELSE f[s.kid[x].left] \o <<x>> \o f[s.kid[x].right]]
  <2>1. f = [x \in Node \union {NULL} |-> f[x]] BY <1>5
  <2> QED BY <2>1, <1>7, Zenon
<1>9. h = [x \in Node \union {NULL} |->
              IF x = NULL THEN <<>> ELSE h[s.kid[x].left] \o <<x>> \o h[s.kid[x].right]]
  BY <1>8, Zenon DEF Orders
<1>10. InOrder(s) = h[s.root] BY Zenon DEF InOrder, Orders
<1> HIDE DEF h
<1>11. h[NULL] = <<>> /\ \A x \in V : h[x] = h[s.kid[x].left] \o <<x>> \o h[s.kid[x].right]
  BY <1>1, <1>9
<1> DEFINE T == {x \in V : h[x] \in Seq(Node) /\ Entries(h[x]) \subseteq V}
<1>12. ASSUME NEW x \in V, s.kid[x].left \in T \union {NULL}, s.kid[x].right \in T \union {NULL} PROVE x \in T
  <2>1. h[NULL] \in Seq(Node) /\ Entries(h[NULL]) \subseteq V BY <1>11 DEF Entries
  <2>2. /\ h[s.kid[x].left] \in Seq(Node) /\ h[s.kid[x].right] \in Seq(Node)
        /\ Entries(h[s.kid[x].left]) \subseteq V /\ Entries(h[s.kid[x].right]) \subseteq V
    BY <2>1, <1>12
  <2>3. /\ h[x] \in Seq(Node)
        /\ Entries(h[x]) = Entries(h[s.kid[x].left]) \union {x} \union Entries(h[s.kid[x].right])
    <3>1. x \in Node /\ h[x] = h[s.kid[x].left] \o <<x>> \o h[s.kid[x].right] BY <1>1, <1>11
    <3> QED BY <2>2, <3>1, JoinEntries
  <2> QED BY <2>2, <2>3
<1>13. V \subseteq T
  <2> HIDE DEF T
  <2> QED BY <1>12, FromLeaves
<1>14. /\ Entries(h[NULL]) = {} /\ h[NULL] \in Seq(Node)
       /\ \A x \in V : Entries(h[x]) = Entries(h[s.kid[x].left]) \union {x} \union Entries(h[s.kid[x].right])
  <2>1. Entries(h[NULL]) = {} /\ h[NULL] \in Seq(Node) BY <1>11 DEF Entries
  <2>2. ASSUME NEW x \in V
        PROVE  Entries(h[x]) = Entries(h[s.kid[x].left]) \union {x} \union Entries(h[s.kid[x].right])
    <3>1. s.kid[x].left \in V \union {NULL} /\ s.kid[x].right \in V \union {NULL} BY DEF Tree, Side
    <3>2. h[s.kid[x].left] \in Seq(Node) /\ h[s.kid[x].right] \in Seq(Node) BY <2>1, <3>1, <1>13
    <3>3. x \in Node /\ h[x] = h[s.kid[x].left] \o <<x>> \o h[s.kid[x].right] BY <1>1, <1>11
    <3> QED BY <3>2, <3>3, JoinEntries
  <2> QED BY <2>1, <2>2
<1> DEFINE E == Entries(h[s.root])
           U == {x \in V : Entries(h[x]) \subseteq E}
<1>15. ASSUME NEW x \in V, s.par[x] \in U \union {NULL} PROVE x \in U
  <2>1. CASE s.par[x] = NULL
    <3>1. x = s.root BY <2>1 DEF Tree
    <3> QED BY <3>1
  <2>2. CASE s.par[x] # NULL
    <3>1. s.par[x] \in V /\ Entries(h[s.par[x]]) \subseteq E BY <2>2, <1>15
    <3>2. PICK d \in Side : s.kid[s.par[x]][d] = x BY <2>2 DEF Tree
    <3>3. Entries(h[s.par[x]]) =
             Entries(h[s.kid[s.par[x]].left]) \union {s.par[x]} \union Entries(h[s.kid[s.par[x]].right])
      BY <3>1, <1>14
    <3>4. s.kid[s.par[x]].left = x \/ s.kid[s.par[x]].right = x BY <3>2 DEF Side
    <3>5. Entries(h[x]) \subseteq Entries(h[s.par[x]]) BY <3>3, <3>4
    <3> QED BY <3>1, <3>5
  <2> QED BY <2>1, <2>2
<1>16. V \subseteq U
  <2> HIDE DEF U
  <2> QED BY <1>15, FromRoot
<1>17. V \subseteq E BY <1>14, <1>16
<1>18. E \subseteq V
  <2>1. s.root \in V \union {NULL} BY DEF Tree
  <2> QED BY <2>1, <1>13, <1>14
<1>19. Linked(s) = E BY <1>10 DEF Linked, Entries
<1> QED BY <1>17, <1>18, <1>19

----------------------------------------------------------------------------
\* The nodes in the tree are those that are not clear.
In(s) == {n \in Node : s.par[n] # n}
Shape(s) ==
    /\ s \in Links /\ \E D, M : Tree(s, In(s), D, M)
    /\ \A n \in Node \ In(s) : ~s.heavy[n]

LEMMA InIs ==
  ASSUME NEW s, NEW V, NEW D, NEW M, Tree(s, V, D, M)
  PROVE  In(s) = V
<1>1. V \subseteq Node /\ M \in Nat /\ D \in [V -> 0 .. M] /\ NULL \notin V BY NodeAssumption DEF Tree
<1>2. ASSUME NEW n \in V, s.par[n] = n PROVE FALSE
  <2>1. D[n] = D[n] + 1 BY <1>1, <1>2 DEF Tree
  <2>2. D[n] \in Nat BY <1>1
  <2> QED BY <2>1, <2>2
<1>3. \A n \in Node \ V : s.par[n] = n BY DEF Tree
<1> QED BY <1>1, <1>2, <1>3 DEF In

\* The bit of a node tells how far its subtrees differ in weight; for the
\* nodes of U it has still to be flipped.
Balance(s, U) ==
    \A x \in In(s) :
        Weights(s)[s.kid[x].left] - Weights(s)[s.kid[x].right] =
        IF (s.heavy[x] /\ x \notin U) \/ (~s.heavy[x] /\ x \in U) THEN 1 ELSE 0

\* Two nodes of the tree change places, or one leaves to another its place.
LEMMA RelabelShape ==
  ASSUME NEW s, Shape(s), NEW r \in Links, NEW a \in Node, NEW b \in Node, Relabelled(r, s, a, b),
         NEW U, Balance(s, U)
  PROVE  /\ Shape(r) /\ In(r) = Moved(In(s), a, b)
         /\ Balance(r, {x \in In(r) : Sw(a, b, x) \in U})
<1>1. PICK D, M : Tree(s, In(s), D, M) BY DEF Shape
<1> DEFINE V == In(s)
           W == Moved(V, a, b)
           w(x) == Sw(a, b, x)
           u == Weights(s)
<1>2. a \in Node /\ b \in Node OBVIOUS
<1>3. PICK C : Tree(r, W, C, M) BY <1>1, <1>2, RelabelTree
<1>4. In(r) = W BY <1>3, InIs
<1>5. /\ \A x \in Node : r.heavy[x] = s.heavy[w(x)]
      /\ \A x \in Node, d \in Side : r.kid[x][d] = w(s.kid[w(x)][d])
  BY DEF Relabelled
<1>6. \A x : w(w(x)) = x /\ (w(x) = NULL <=> x = NULL) /\ (w(x) \in Node <=> x \in Node)
  BY <1>2, SwFacts
<1>7. \A x \in Node : x \in W <=> w(x) \in V BY DEF Moved
<1>8. \A x \in W : x \in Node BY DEF Moved
<1>9. \A x \in W \union {NULL} : Weights(r)[x] = u[w(x)] BY <1>1, <1>2, RelabelWeights
<1>10. \A x \in W, d \in Side : r.kid[x][d] \in W \union {NULL} BY <1>3 DEF Tree
<1>11. \A x \in V : u[s.kid[x].left] - u[s.kid[x].right]
                      = IF (s.heavy[x] /\ x \notin U) \/ (~s.heavy[x] /\ x \in U) THEN 1 ELSE 0
  BY DEF Balance
<1> HIDE DEF V, W, w, u
<1>12. Shape(r)
  <2>1. \A x \in Node \ W : ~r.heavy[x]
    <3> TAKE x \in Node \ W
    <3>1. w(x) \in Node \ V BY <1>6, <1>7
    <3>2. \A y \in Node \ V : ~s.heavy[y] BY DEF Shape, V
    <3> QED BY <3>1, <3>2, <1>5
  <2> QED BY <2>1, <1>3, <1>4 DEF Shape
<1>13. ASSUME NEW x \in W
       PROVE  Weights(r)[r.kid[x].left] - Weights(r)[r.kid[x].right]
              = IF (r.heavy[x] /\ w(x) \notin U) \/ (~r.heavy[x] /\ w(x) \in U) THEN 1 ELSE 0
  <2>1. w(x) \in V BY <1>7, <1>8
  <2>2. Weights(r)[r.kid[x].left] = u[s.kid[w(x)].left] /\ Weights(r)[r.kid[x].right] = u[s.kid[w(x)].right]
    BY <1>5, <1>6, <1>8, <1>9, <1>10 DEF Side
  <2>3. r.heavy[x] = s.heavy[w(x)] BY <1>5, <1>8
  <2> QED BY <2>1, <2>2, <2>3, <1>11
<1>14. Balance(r, {x \in In(r) : Sw(a, b, x) \in U})
  <2>1. \A x \in W : (w(x) \in U) <=> (x \in {y \in W : w(y) \in U}) OBVIOUS
  <2>2. \A x \in W : Weights(r)[r.kid[x].left] - Weights(r)[r.kid[x].right]
                     = IF (r.heavy[x] /\ x \notin {y \in W : w(y) \in U})
                          \/ (~r.heavy[x] /\ x \in {y \in W : w(y) \in U})
                       THEN 1 ELSE 0
    BY <2>1, <1>13
  <2> QED BY <2>2, <1>4 DEF Balance, w
<1> QED BY <1>4, <1>12, <1>14 DEF W, V

----------------------------------------------------------------------------
LEMMA SameLinks ==
  ASSUME NEW s, NEW u, u.root = s.root, u.par = s.par, u.kid = s.kid
  PROVE  /\ Weights(u) = Weights(s) /\ In(u) = In(s)
         /\ \A V, D, M : Tree(s, V, D, M) => Tree(u, V, D, M)
         /\ \A V, x : Above(u, V, x) = Above(s, V, x)
<1>1. Weights(u) = Weights(s) BY Zenon DEF Weights
<1>2. In(u) = In(s) BY DEF In
<1>3. \A V, D, M : Tree(s, V, D, M) => Tree(u, V, D, M) BY DEF Tree
<1>4. \A V, x : Above(u, V, x) = Above(s, V, x) BY DEF Above, Closed
<1> QED BY <1>1, <1>2, <1>3, <1>4

----------------------------------------------------------------------------
\* x is not greater than its parent; no child of n is greater than what is
\* above n.
Fits(s, pr, x) == s.par[x] # NULL => pr[x] <= pr[s.par[x]]
Bridged(s, pr, n) == s.par[n] # NULL => \A x \in In(s) : s.par[x] = n => pr[x] <= pr[s.par[n]]
UpFits(s, pr, n) == Bridged(s, pr, n) /\ \A x \in In(s) : x # n => Fits(s, pr, x)
DownFits(s, pr, n) == Bridged(s, pr, n) /\ \A x \in In(s) : s.par[x] # n => Fits(s, pr, x)
SinkFits(s, pr, n) == Bridged(s, pr, n) /\ \A x \in In(s) : x # n /\ s.par[x] # n => Fits(s, pr, x)

\* A node changes places with its parent.
Swapped(r, s, n, p) ==
    /\ In(r) = In(s) /\ n \in In(s) /\ p \in In(s) /\ n # p
    /\ s.par[n] = p /\ s.par[p] \in (In(s) \union {NULL}) \ {n, p}
    /\ r.par[n] = s.par[p] /\ r.par[p] = n
    /\ \A x \in In(s) \ {n, p} : r.par[x] = Sw(n, p, s.par[x])

LEMMA ExchangeSwaps ==
  ASSUME NEW s, Shape(s), NEW n \in In(s), NEW p, p # NULL, s.par[n] = p, NEW U, Balance(s, U)
  PROVE  LET r == Exchange(s, n, p)
         IN  /\ Shape(r) /\ Swapped(r, s, n, p) /\ Relabelled(r, s, n, p)
             /\ Balance(r, {x \in In(s) : Sw(n, p, x) \in U})
<1> DEFINE r == Exchange(s, n, p)
           V == In(s)
<1>1. PICK D, M : Tree(s, V, D, M) BY DEF Shape
<1>2. V \subseteq Node /\ M \in Nat /\ D \in [V -> 0 .. M] /\ NULL \notin Node /\ s \in Links
  BY <1>1, NodeAssumption DEF Tree, Shape
<1>3. p \in V BY <1>1 DEF Tree
<1>4. r \in Links /\ Relabelled(r, s, n, p) BY <1>1, <1>2, <1>3, ExchangeIs
<1> HIDE DEF r
<1>5. Shape(r) /\ In(r) = Moved(V, n, p) /\ Balance(r, {x \in In(r) : Sw(n, p, x) \in U})
  BY <1>2, <1>3, <1>4, RelabelShape
<1>6. Moved(V, n, p) = V BY <1>2, <1>3 DEF Moved, Sw
<1>7. s.par[p] \in (V \union {NULL}) \ {n, p} /\ n # p
  <2>1. s.par[p] \in V \union {NULL} /\ D[n] = D[p] + 1 /\ (s.par[p] # NULL => D[p] = D[s.par[p]] + 1)
    BY <1>1, <1>3 DEF Tree
  <2>2. D[n] \in Nat /\ D[p] \in Nat /\ (s.par[p] # NULL => D[s.par[p]] \in Nat) BY <2>1, <1>2, <1>3
  <2>3. n \in Node /\ p \in Node BY <1>2, <1>3
  <2> QED BY <2>1, <2>2, <2>3, <1>2
<1>8. \A x \in Node : r.par[x] = Sw(n, p, s.par[Sw(n, p, x)]) BY <1>4 DEF Relabelled
<1>9. r.par[n] = s.par[p] /\ r.par[p] = n /\ \A x \in V \ {n, p} : r.par[x] = Sw(n, p, s.par[x])
  BY <1>2, <1>3, <1>7, <1>8 DEF Sw
<1> QED BY <1>3, <1>4, <1>5, <1>6, <1>7, <1>9 DEF Swapped, r

\* It rises, and what is between it and its parent is right again.
LEMMA RiseFits ==
  ASSUME NEW r, NEW s, NEW n, NEW p, Swapped(r, s, n, p), In(s) \subseteq Node, NEW pr \in [Node -> Nat],
         UpFits(s, pr, n), pr[p] < pr[n]
  PROVE  UpFits(r, pr, n)
<1>1. /\ In(r) = In(s) /\ n \in In(s) /\ p \in In(s) /\ n # p
      /\ s.par[n] = p /\ s.par[p] \in (In(s) \union {NULL}) \ {n, p}
      /\ r.par[n] = s.par[p] /\ r.par[p] = n
      /\ \A x \in In(s) \ {n, p} : r.par[x] = Sw(n, p, s.par[x])
  BY DEF Swapped
<1>2. \A x \in In(s) : pr[x] \in Nat OBVIOUS
<1>3. p # NULL /\ n # NULL BY <1>1, NodeAssumption
<1>4. \A x \in In(s) : s.par[x] = n => pr[x] <= pr[p] BY <1>1, <1>3 DEF UpFits, Bridged
<1>5. \A x \in In(s) : x # n /\ s.par[x] # NULL => pr[x] <= pr[s.par[x]] BY DEF UpFits, Fits
<1>6. ASSUME NEW x \in In(s), x # n PROVE Fits(r, pr, x)
  <2>1. CASE x = p BY <2>1, <1>1, <1>2 DEF Fits
  <2>2. CASE x # p /\ s.par[x] = n
    <3>1. r.par[x] = p BY <2>2, <1>1, <1>6 DEF Sw
    <3> QED BY <3>1, <2>2, <1>4 DEF Fits
  <2>3. CASE x # p /\ s.par[x] = p
    <3>1. r.par[x] = n BY <2>3, <1>1, <1>6 DEF Sw
    <3>2. pr[x] <= pr[p] BY <2>3, <1>3, <1>5, <1>6
    <3> QED BY <3>1, <3>2, <1>1, <1>2 DEF Fits
  <2>4. CASE x # p /\ s.par[x] # n /\ s.par[x] # p
    <3>1. r.par[x] = s.par[x] BY <2>4, <1>1, <1>6 DEF Sw
    <3> QED BY <3>1, <1>5, <1>6 DEF Fits
  <2> QED BY <2>1, <2>2, <2>3, <2>4
<1>7. ASSUME s.par[p] # NULL, NEW x \in In(s), r.par[x] = n PROVE pr[x] <= pr[s.par[p]]
  <2>1. pr[p] <= pr[s.par[p]] /\ pr[s.par[p]] \in Nat BY <1>1, <1>2, <1>5, <1>7
  <2>2. CASE x = p BY <2>1, <2>2
  <2>3. CASE x # p
    <3>1. x # n BY <1>1, <1>7
    <3>2. s.par[x] = p BY <2>3, <3>1, <1>1, <1>7 DEF Sw
    <3>3. pr[x] <= pr[p] BY <3>1, <3>2, <1>3, <1>5
    <3> QED BY <3>3, <2>1, <1>1, <1>2
  <2> QED BY <2>2, <2>3
<1> QED BY <1>1, <1>6, <1>7 DEF UpFits, Bridged

\* It sinks below the greatest of its children.
LEMMA SinkFit ==
  ASSUME NEW r, NEW s, NEW n, NEW m, Swapped(r, s, m, n), In(s) \subseteq Node, NEW pr \in [Node -> Nat],
         \A x \in In(s) : s.par[x] = n => pr[x] <= pr[m], SinkFits(s, pr, n)
  PROVE  /\ SinkFits(r, pr, n) /\ r.par[n] = m
         /\ DownFits(s, pr, n) /\ pr[n] <= pr[m] => DownFits(r, pr, n)
<1>1. /\ In(r) = In(s) /\ n \in In(s) /\ m \in In(s) /\ n # m
      /\ s.par[m] = n /\ s.par[n] \in (In(s) \union {NULL}) \ {n, m}
      /\ r.par[m] = s.par[n] /\ r.par[n] = m
      /\ \A x \in In(s) \ {n, m} : r.par[x] = Sw(m, n, s.par[x])
  BY DEF Swapped
<1>2. \A x \in In(s) : pr[x] \in Nat OBVIOUS
<1>3. m # NULL /\ n # NULL BY <1>1, NodeAssumption
<1>4. s.par[n] # NULL => pr[m] <= pr[s.par[n]] BY <1>1 DEF SinkFits, Bridged
<1>5. \A x \in In(s) : x # n /\ s.par[x] # n /\ s.par[x] # NULL => pr[x] <= pr[s.par[x]]
  BY DEF SinkFits, Fits
<1>6. ASSUME NEW x \in In(s), x # n, r.par[x] # n PROVE Fits(r, pr, x)
  <2>1. CASE x = m BY <2>1, <1>1, <1>4 DEF Fits
  <2>2. CASE x # m
    <3>1. r.par[x] = Sw(m, n, s.par[x]) BY <2>2, <1>1, <1>6
    <3>2. CASE s.par[x] = n BY <3>1, <3>2, <1>1, <1>6 DEF Fits, Sw
    <3>3. CASE s.par[x] # n
      <4>1. s.par[x] # m /\ r.par[x] = s.par[x] BY <3>1, <3>3, <1>6 DEF Sw
      <4> QED BY <4>1, <3>3, <1>5, <1>6 DEF Fits
    <3> QED BY <3>2, <3>3
  <2> QED BY <2>1, <2>2
<1>7. ASSUME NEW x \in In(s), r.par[x] = n PROVE pr[x] <= pr[m]
  <2>1. x # n /\ x # m BY <1>1, <1>7
  <2>2. s.par[x] = m BY <2>1, <1>1, <1>7 DEF Sw
  <2> QED BY <2>1, <2>2, <1>1, <1>3, <1>5
<1>8. SinkFits(r, pr, n) BY <1>1, <1>6, <1>7 DEF SinkFits, Bridged
<1>9. ASSUME pr[n] <= pr[m] PROVE DownFits(r, pr, n)
  <2>1. Fits(r, pr, n) BY <1>1, <1>9 DEF Fits
  <2> QED BY <2>1, <1>1, <1>6, <1>7 DEF DownFits, Bridged
<1> QED BY <1>1, <1>8, <1>9

----------------------------------------------------------------------------
(* There is a lowest priority, which a node that is in no tree has. *)
PrioTreeAssumption == Prio \subseteq Nat /\ \E p \in Prio : \A q \in Prio : p <= q

\* While an insertion goes up, the bits above are those of before it.
Stale == IF pc = "insert" THEN Above(t, In(t), t.par[node]) ELSE {}
OrderInv ==
    /\ pc = "idle" => \A x \in In(t) : Fits(t, prio, x)
    /\ pc \in {"insert", "up"} => UpFits(t, prio, node)
    /\ pc = "down" => DownFits(t, prio, node)
    /\ pc = "sink" => SinkFits(t, prio, node)
PrioInv ==
    /\ Shape(t) /\ prio \in [Node -> Prio]
    /\ pc \in {"idle", "insert", "up", "down", "sink"}
    /\ IF pc = "idle" THEN node = NULL ELSE node \in In(t)
    /\ Balance(t, Stale)
    /\ OrderInv

LEMMA PrioNat == ASSUME PrioTreeAssumption PROVE \A f : f \in [Node -> Prio] => f \in [Node -> Nat]
BY DEF PrioTreeAssumption

LEMMA LowestIs == ASSUME PrioTreeAssumption PROVE Lowest \in Prio
BY DEF PrioTreeAssumption, Lowest

LEMMA ShapeFacts ==
  ASSUME NEW s, Shape(s)
  PROVE  /\ In(s) \subseteq Node /\ NULL \notin Node /\ s \in Links
         /\ s.root \in In(s) \union {NULL} /\ (s.root # NULL => s.par[s.root] = NULL)
         /\ \A x \in In(s) : s.par[x] \in In(s) \union {NULL} /\ s.par[x] # x
         /\ \A x \in In(s), d \in Side :
               s.kid[x][d] \in In(s) \union {NULL} /\ (s.kid[x][d] # NULL => s.par[s.kid[x][d]] = x)
         /\ \A x \in In(s) : s.par[x] # NULL => \E d \in Side : s.kid[s.par[x]][d] = x
         /\ \A x \in Node \ In(s) : s.par[x] = x /\ ~s.heavy[x] /\ \A d \in Side : s.kid[x][d] = NULL
         /\ \A x \in In(s) \union {NULL} : Weights(s)[x] \in Nat /\ (Weights(s)[x] = 0 <=> x = NULL)
<1>1. PICK D, M : Tree(s, In(s), D, M) BY DEF Shape
<1>2. s \in Links /\ \A x \in Node \ In(s) : ~s.heavy[x] BY DEF Shape
<1>3. \A x \in In(s) : s.par[x] # x BY DEF In
<1>4. /\ Weights(s)[NULL] = 0
      /\ \A x \in In(s) : Weights(s)[x] = 1 + Weights(s)[s.kid[x].left] + Weights(s)[s.kid[x].right]
      /\ \A x \in In(s) \union {NULL} : Weights(s)[x] \in Nat
  BY <1>1, WeightsAre
<1>5. In(s) \subseteq Node /\ NULL \notin Node BY NodeAssumption DEF In
<1>6. ASSUME NEW x \in In(s) PROVE Weights(s)[x] # 0
  <2>1. s.kid[x].left \in In(s) \union {NULL} /\ s.kid[x].right \in In(s) \union {NULL} BY <1>1 DEF Tree, Side
  <2>2. Weights(s)[s.kid[x].left] \in Nat /\ Weights(s)[s.kid[x].right] \in Nat BY <2>1, <1>4
  <2> QED BY <2>2, <1>4
<1>7. /\ s.root \in In(s) \union {NULL} /\ (s.root # NULL => s.par[s.root] = NULL)
      /\ \A x \in In(s) : s.par[x] \in In(s) \union {NULL}
      /\ \A x \in In(s), d \in Side :
            s.kid[x][d] \in In(s) \union {NULL} /\ (s.kid[x][d] # NULL => s.par[s.kid[x][d]] = x)
      /\ \A x \in In(s) : s.par[x] # NULL => \E d \in Side : s.kid[s.par[x]][d] = x
      /\ \A x \in Node \ In(s) : s.par[x] = x /\ \A d \in Side : s.kid[x][d] = NULL
  BY <1>1 DEF Tree
<1>8. \A x \in In(s) \union {NULL} : Weights(s)[x] \in Nat /\ (Weights(s)[x] = 0 <=> x = NULL)
  BY <1>4, <1>5, <1>6
<1> QED BY <1>2, <1>3, <1>5, <1>7, <1>8

----------------------------------------------------------------------------
LEMMA InitPrioInv == ASSUME PrioTreeAssumption, Init PROVE PrioInv
<1>1. /\ t.root = NULL /\ t \in Links
      /\ \A n \in Node : t.par[n] = n /\ ~t.heavy[n] /\ \A d \in Side : t.kid[n][d] = NULL
  BY DEF Init, Links, NoKids
<1>2. In(t) = {} BY <1>1 DEF In
<1>3. Tree(t, {}, [x \in {} |-> 0], 0) BY <1>1 DEF Tree
<1>4. Shape(t) BY <1>1, <1>2, <1>3 DEF Shape
<1>5. Balance(t, Stale) BY <1>2 DEF Balance
<1>6. OrderInv BY <1>2 DEF Init, OrderInv
<1>7. prio \in [Node -> Prio] BY LowestIs DEF Init
<1> QED BY <1>4, <1>5, <1>6, <1>7 DEF PrioInv, Init

\* Up and Down.
LEMMA UpStep == ASSUME PrioTreeAssumption, PrioInv, Up PROVE PrioInv' /\ In(t') = In(t)
<1> DEFINE p == t.par[node]
           V == In(t)
<1>1. /\ Shape(t) /\ prio \in [Node -> Nat] /\ node \in V /\ p # NULL /\ Stale = {} /\ Balance(t, {})
      /\ UpFits(t, prio, node) /\ prio[p] < prio[node]
  <2>1. p \in V /\ V \subseteq Node BY ShapeFacts DEF PrioInv, Up
  <2>2. prio \in [Node -> Nat] BY PrioNat DEF PrioInv
  <2>3. prio[p] \in Nat /\ prio[node] \in Nat BY <2>1, <2>2 DEF PrioInv, Up
  <2> QED BY <2>1, <2>2, <2>3 DEF PrioInv, OrderInv, Up, Stale, Over
<1>2. t' = Exchange(t, node, p) BY DEF Up
<1> HIDE DEF p
<1>3. /\ Shape(t') /\ Swapped(t', t, node, p)
      /\ Balance(t', {x \in V : Sw(node, p, x) \in {}})
  BY <1>1, <1>2, ExchangeSwaps DEF p
<1>4. UpFits(t', prio, node) BY <1>1, <1>3, RiseFits, ShapeFacts
<1>5. Balance(t', {}) BY <1>3 DEF Balance
<1>6. In(t') = V BY <1>3 DEF Swapped
<1>7. pc' = pc /\ prio' = prio /\ node' = node /\ pc = "up" BY DEF Up
<1>8. Stale' = {} BY <1>7 DEF Stale
<1> QED BY <1>1, <1>3, <1>4, <1>5, <1>6, <1>7, <1>8 DEF PrioInv, OrderInv

LEMMA LargestIs ==
  ASSUME PrioTreeAssumption, PrioInv, NEW n \in In(t)
  PROVE  LET m == Largest(n)
         IN  /\ m # n => m \in In(t) /\ t.par[m] = n /\ prio[n] < prio[m]
             /\ \A x \in In(t) : t.par[x] = n => prio[x] <= prio[m]
<1> DEFINE l == t.kid[n].left
           r == t.kid[n].right
<1>1. /\ l \in In(t) \union {NULL} /\ (l # NULL => t.par[l] = n)
      /\ r \in In(t) \union {NULL} /\ (r # NULL => t.par[r] = n)
  BY ShapeFacts DEF PrioInv, Side
<1>2. \A x \in In(t) : t.par[x] = n => x = l \/ x = r
  <2> TAKE x \in In(t)
  <2> HAVE t.par[x] = n
  <2>1. n # NULL BY ShapeFacts DEF PrioInv
  <2>2. \E d \in Side : t.kid[n][d] = x BY <2>1, ShapeFacts DEF PrioInv
  <2> QED BY <2>2 DEF Side
<1>3. \A x \in In(t) : prio[x] \in Nat BY PrioNat DEF PrioInv, In
<1>4. NULL \notin In(t) BY NodeAssumption DEF In
<1> QED BY <1>1, <1>2, <1>3, <1>4 DEF Largest, Over

LEMMA DownStep == ASSUME PrioTreeAssumption, PrioInv, Down PROVE PrioInv' /\ In(t') = In(t)
<1> DEFINE m == Largest(node)
           V == In(t)
<1>1. /\ Shape(t) /\ prio \in [Node -> Nat] /\ node \in V /\ Balance(t, {}) /\ DownFits(t, prio, node)
  BY PrioNat DEF PrioInv, OrderInv, Down, Stale
<1>2. m \in V /\ t.par[m] = node /\ prio[node] < prio[m] /\ \A x \in V : t.par[x] = node => prio[x] <= prio[m]
  BY <1>1, LargestIs DEF Down
<1>3. t' = Exchange(t, m, node) BY DEF Down
<1> HIDE DEF m
<1>4. node # NULL /\ V \subseteq Node BY <1>1, ShapeFacts
<1>5. /\ Shape(t') /\ Swapped(t', t, m, node) /\ Balance(t', {x \in V : Sw(m, node, x) \in {}})
  BY <1>1, <1>2, <1>3, <1>4, ExchangeSwaps
<1>6. SinkFits(t, prio, node) BY <1>1 DEF SinkFits, DownFits
<1>7. prio[node] <= prio[m] BY <1>1, <1>2, <1>4
<1>8. DownFits(t', prio, node) BY <1>1, <1>2, <1>4, <1>5, <1>6, <1>7, SinkFit
<1>9. Balance(t', {}) BY <1>5 DEF Balance
<1>10. In(t') = V BY <1>5 DEF Swapped
<1>11. pc' = pc /\ prio' = prio /\ node' = node /\ pc = "down" BY DEF Down
<1>12. Stale' = {} BY <1>11 DEF Stale
<1> QED BY <1>1, <1>5, <1>8, <1>9, <1>10, <1>11, <1>12 DEF PrioInv, OrderInv

LEMMA SinkStep == ASSUME PrioTreeAssumption, PrioInv, Sink PROVE PrioInv' /\ In(t') = In(t)
<1> DEFINE l == t.kid[node].left
           r == t.kid[node].right
           m == IF r # NULL /\ Over(r, l) THEN r ELSE l
           V == In(t)
<1>1. /\ Shape(t) /\ prio \in [Node -> Nat] /\ node \in V /\ Balance(t, {}) /\ SinkFits(t, prio, node)
  BY PrioNat DEF PrioInv, OrderInv, Sink, Stale
<1>2. node # NULL /\ V \subseteq Node /\ NULL \notin V BY <1>1, ShapeFacts
<1>3. m \in V /\ t.par[m] = node /\ \A x \in V : t.par[x] = node => prio[x] <= prio[m]
  <2>1. l \in V /\ t.par[l] = node /\ r \in V \union {NULL} /\ (r # NULL => t.par[r] = node)
    BY <1>1, ShapeFacts DEF Side, Sink
  <2>2. \A x \in V : t.par[x] = node => x = l \/ x = r
    <3> TAKE x \in V
    <3> HAVE t.par[x] = node
    <3>1. \E d \in Side : t.kid[node][d] = x BY <1>1, <1>2, ShapeFacts
    <3> QED BY <3>1 DEF Side
  <2>3. \A x \in V : prio[x] \in Nat BY <1>1, <1>2
  <2> QED BY <2>1, <2>2, <2>3, <1>2 DEF Over
<1>4. t' = Exchange(t, m, node) BY DEF Sink
<1> HIDE DEF m
<1>5. /\ Shape(t') /\ Swapped(t', t, m, node) /\ Balance(t', {x \in V : Sw(m, node, x) \in {}})
  BY <1>1, <1>2, <1>3, <1>4, ExchangeSwaps
<1>6. SinkFits(t', prio, node) BY <1>1, <1>2, <1>3, <1>5, SinkFit
<1>7. Balance(t', {}) BY <1>5 DEF Balance
<1>8. In(t') = V BY <1>5 DEF Swapped
<1>9. pc' = pc /\ prio' = prio /\ node' = node /\ pc = "sink" BY DEF Sink
<1>10. Stale' = {} BY <1>9 DEF Stale
<1> QED BY <1>1, <1>5, <1>6, <1>7, <1>8, <1>9, <1>10 DEF PrioInv, OrderInv

----------------------------------------------------------------------------
LEMMA RiseStep == ASSUME PrioTreeAssumption, PrioInv, Rise PROVE PrioInv' /\ In(t') = In(t)
<1> DEFINE p == t.par[node]
           V == In(t)
           s == [t EXCEPT !.heavy[p] = ~@]
           U == Above(t, V, t.par[p])
<1>1. Shape(t) /\ prio \in [Node -> Nat] /\ node \in V /\ p \in V /\ UpFits(t, prio, node)
  BY PrioNat, ShapeFacts DEF PrioInv, OrderInv, Rise
<1>2. prio[p] < prio[node] /\ V \subseteq Node /\ NULL \notin V /\ p # node /\ Balance(t, Above(t, V, p))
  <2>1. V \subseteq Node /\ NULL \notin V /\ p # node BY <1>1, ShapeFacts
  <2>2. prio[p] \in Nat /\ prio[node] \in Nat BY <2>1, <1>1
  <2> QED BY <2>1, <2>2 DEF PrioInv, Rise, Stale, Over
<1>3. t' = Exchange(s, node, p) BY DEF Rise
<1>4. /\ s \in Links /\ s.root = t.root /\ s.par = t.par /\ s.kid = t.kid
      /\ \A x \in Node : s.heavy[x] = IF x = p THEN ~t.heavy[x] ELSE t.heavy[x]
  <2>1. t \in Links /\ p \in Node BY <1>1, <1>2 DEF Shape
  <2> HIDE DEF p
  <2> QED BY <2>1 DEF Links
<1>5. PICK D, M : Tree(t, V, D, M) BY <1>1 DEF Shape
<1>6. /\ Above(t, V, p) = {p} \union U /\ p \notin U /\ node \notin U /\ U \subseteq V
  <2>1. Above(t, V, p) = {p} \union U /\ U \subseteq V
    <3> HIDE DEF p
    <3> QED BY <1>1, <1>5, AboveIs
  <2>2. ASSUME NEW x \in V, NEW q, q = t.par[x], q # NULL
        PROVE  x \notin Above(t, V, q) /\ D[x] = D[q] + 1 /\ q \in V
    <3>1. D[x] = D[q] + 1 /\ q \in V /\ D \in [V -> 0 .. M] /\ M \in Nat BY <2>2, <1>5 DEF Tree
    <3>2. \A a \in Above(t, V, q) : D[a] <= D[q] BY <3>1, <1>5, WayUp
    <3>3. D[x] \in Nat /\ D[q] \in Nat BY <3>1
    <3> QED BY <3>1, <3>2, <3>3
  <2>3. p # NULL BY <1>1, <1>2
  <2>4. node \notin Above(t, V, p) BY <1>1, <2>2, <2>3
  <2>5. t.par[p] = NULL => U = {} BY DEF Above
  <2>6. t.par[p] # NULL => p \notin U BY <1>1, <2>2
  <2> QED BY <2>1, <2>4, <2>5, <2>6
<1> HIDE DEF p, s, U, V
<1>7. In(s) = V /\ Weights(s) = Weights(t) /\ Tree(s, V, D, M) /\ \A x : Above(s, V, x) = Above(t, V, x)
  BY <1>4, <1>5, SameLinks DEF V
<1>8. Shape(s)
  <2>1. \A n \in Node \ V : ~s.heavy[n]
    <3>1. \A n \in Node \ V : ~t.heavy[n] BY <1>1 DEF Shape, V
    <3> QED BY <3>1, <1>1, <1>4
  <2> QED BY <2>1, <1>4, <1>7 DEF Shape
<1>9. Balance(s, U)
  <2>1. \A x \in V : Weights(t)[t.kid[x].left] - Weights(t)[t.kid[x].right]
                     = IF (t.heavy[x] /\ x \notin {p} \union U) \/ (~t.heavy[x] /\ x \in {p} \union U)
                       THEN 1 ELSE 0
    BY <1>2, <1>6 DEF Balance, V
  <2>2. \A x \in V : (t.heavy[x] /\ x \notin {p} \union U) \/ (~t.heavy[x] /\ x \in {p} \union U)
                     <=> (s.heavy[x] /\ x \notin U) \/ (~s.heavy[x] /\ x \in U)
    <3> TAKE x \in V
    <3>1. s.heavy[x] = (IF x = p THEN ~t.heavy[x] ELSE t.heavy[x]) BY <1>2, <1>4
    <3>2. t.heavy[x] \in BOOLEAN
      <4>1. t \in Links BY <1>1 DEF Shape
      <4> QED BY <4>1, <1>2 DEF Links
    <3> QED BY <3>1, <3>2, <1>6
  <2> QED BY <2>1, <2>2, <1>4, <1>7 DEF Balance
<1>10. s.par[node] = p /\ p # NULL BY <1>1, <1>2, <1>4 DEF p
<1>11. /\ Shape(t') /\ Swapped(t', s, node, p) /\ Relabelled(t', s, node, p)
       /\ Balance(t', {x \in V : Sw(node, p, x) \in U})
  BY <1>1, <1>3, <1>7, <1>8, <1>9, <1>10, ExchangeSwaps
<1>12. {x \in V : Sw(node, p, x) \in U} = U
  <2>1. \A x \in V : Sw(node, p, x) \in U <=> x \in U BY <1>6 DEF Sw
  <2> QED BY <2>1, <1>6
<1>13. In(t') = V /\ t'.par[node] = t.par[p] /\ t.par[p] \in (V \union {NULL}) \ {node, p}
  BY <1>4, <1>7, <1>11 DEF Swapped
<1>14. Above(t', In(t'), t'.par[node]) = U
  <2>1. Moved(V, node, p) = V BY <1>1, <1>2 DEF Moved, Sw
  <2>2. \A x \in V \union {NULL} : \A y :
           y \in Above(t', V, x) <=> Sw(node, p, y) \in Above(s, V, Sw(node, p, x))
    BY <2>1, <1>1, <1>2, <1>7, <1>11, RelabelAbove
  <2>3. Sw(node, p, t.par[p]) = t.par[p] BY <1>13 DEF Sw
  <2>4. \A y : y \in Above(t', V, t.par[p]) <=> Sw(node, p, y) \in U
    BY <2>2, <2>3, <1>7, <1>13 DEF U
  <2>5. \A y : Sw(node, p, y) \in U <=> y \in U BY <1>6 DEF Sw
  <2> QED BY <2>4, <2>5, <1>13
<1>15. UpFits(s, prio, node) BY <1>1, <1>4, <1>7 DEF UpFits, Bridged, Fits, V
<1>16. UpFits(t', prio, node) BY <1>1, <1>2, <1>7, <1>11, <1>15, RiseFits
<1>17. pc' = pc /\ prio' = prio /\ node' = node /\ pc = "insert" BY DEF Rise
<1>18. Stale' = U BY <1>14, <1>17 DEF Stale
<1>19. Balance(t', Stale') BY <1>11, <1>12, <1>18
<1>20. In(t') = In(t) BY <1>13 DEF V
<1> QED BY <1>1, <1>11, <1>13, <1>16, <1>17, <1>19, <1>20 DEF PrioInv, OrderInv

\* Flipping the bits above makes all of them right.
LEMMA RiseEndsStep == ASSUME PrioTreeAssumption, PrioInv, RiseEnds PROVE PrioInv' /\ In(t') = In(t)
<1> DEFINE p == t.par[node]
           V == In(t)
           U == Above(t, V, p)
<1>1. /\ Shape(t) /\ prio \in [Node -> Nat] /\ node \in V /\ p \in V \union {NULL}
      /\ UpFits(t, prio, node) /\ Balance(t, U) /\ V \subseteq Node
  BY PrioNat, ShapeFacts DEF PrioInv, OrderInv, RiseEnds, Stale
<1>2. PICK D, M : Tree(t, V, D, M) BY <1>1 DEF Shape
<1>3. t' = [t EXCEPT !.heavy = [x \in Node |-> t.heavy[x] # (x \in U)]]
  <2>1. t' = FlipUp(t, p) BY DEF RiseEnds
  <2> HIDE DEF p
  <2> QED BY <2>1, <1>1, <1>2, FlipUpIs
<1> HIDE DEF U
<1>4. /\ t' \in Links /\ t'.root = t.root /\ t'.par = t.par /\ t'.kid = t.kid
      /\ \A x \in Node : t'.heavy[x] = (t.heavy[x] # (x \in U))
  <2>1. t \in Links BY <1>1 DEF Shape
  <2> QED BY <2>1, <1>3 DEF Links
<1>5. In(t') = V /\ Weights(t') = Weights(t) /\ Tree(t', V, D, M)
  BY <1>2, <1>4, SameLinks
<1>6. U \subseteq V BY <1>1, <1>2, AboveIs DEF U, Above
<1>7. Shape(t')
  <2>1. \A n \in Node \ V : ~t'.heavy[n]
    <3>1. \A n \in Node \ V : ~t.heavy[n] BY <1>1 DEF Shape
    <3>2. \A n \in Node : t.heavy[n] \in BOOLEAN
      <4>1. t \in Links BY <1>1 DEF Shape
      <4> QED BY <4>1 DEF Links
    <3> TAKE n \in Node \ V
    <3>3. n \in Node /\ n \notin U BY <1>6
    <3>4. t'.heavy[n] <=> (t.heavy[n] # (n \in U)) BY <3>3, <1>4
    <3>5. t.heavy[n] \in BOOLEAN /\ ~t.heavy[n] BY <3>1, <3>2
    <3> HIDE DEF V
    <3> QED BY <3>3, <3>4, <3>5
  <2> QED BY <2>1, <1>4, <1>5 DEF Shape
<1>8. Balance(t', {})
  <2>1. \A x \in V : Weights(t)[t.kid[x].left] - Weights(t)[t.kid[x].right]
                     = IF (t.heavy[x] /\ x \notin U) \/ (~t.heavy[x] /\ x \in U) THEN 1 ELSE 0
    BY <1>1 DEF Balance
  <2>2. \A x \in V : t'.heavy[x] <=> (t.heavy[x] /\ x \notin U) \/ (~t.heavy[x] /\ x \in U)
    <3> TAKE x \in V
    <3>1. t'.heavy[x] <=> (t.heavy[x] # (x \in U)) BY <1>1, <1>4
    <3>2. t.heavy[x] \in BOOLEAN
      <4>1. t \in Links BY <1>1 DEF Shape
      <4> QED BY <4>1, <1>1 DEF Links
    <3> HIDE DEF V
    <3> QED BY <3>1, <3>2
  <2> QED BY <2>1, <2>2, <1>4, <1>5 DEF Balance
<1>9. \A x \in V : Fits(t, prio, x)
  <2>1. Fits(t, prio, node)
    <3>1. p # NULL => prio[p] \in Nat /\ prio[node] \in Nat BY <1>1
    <3> QED BY <3>1 DEF Fits, RiseEnds, Over
  <2> QED BY <2>1, <1>1 DEF UpFits
<1>10. \A x \in V : Fits(t', prio, x) BY <1>4, <1>9 DEF Fits
<1>11. pc' = "idle" /\ node' = NULL /\ prio' = prio BY DEF RiseEnds, Return
<1>12. Stale' = {} BY <1>11 DEF Stale
<1>13. prio' \in [Node -> Prio] BY <1>11 DEF PrioInv
<1> QED BY <1>5, <1>7, <1>8, <1>10, <1>11, <1>12, <1>13 DEF PrioInv, OrderInv

LEMMA EndsStep == ASSUME PrioTreeAssumption, PrioInv, UpEnds \/ DownEnds PROVE PrioInv'
<1> DEFINE V == In(t)
<1>1. /\ Shape(t) /\ prio \in [Node -> Nat] /\ node \in V /\ Balance(t, {}) /\ V \subseteq Node
      /\ prio \in [Node -> Prio]
  BY PrioNat, ShapeFacts DEF PrioInv, OrderInv, UpEnds, DownEnds, Stale
<1>2. \A x \in V : Fits(t, prio, x)
  <2>1. CASE UpEnds
    <3>1. UpFits(t, prio, node) BY <2>1 DEF UpEnds, PrioInv, OrderInv
    <3>2. Fits(t, prio, node)
      <4>1. t.par[node] # NULL => prio[t.par[node]] \in Nat /\ prio[node] \in Nat BY <1>1, ShapeFacts
      <4> QED BY <4>1, <2>1 DEF Fits, UpEnds, Over
    <3> QED BY <3>1, <3>2 DEF UpFits
  <2>2. CASE DownEnds
    <3>1. DownFits(t, prio, node) BY <2>2 DEF DownEnds, PrioInv, OrderInv
    <3>2. \A x \in V : t.par[x] = node => prio[x] <= prio[node] BY <1>1, <2>2, LargestIs DEF DownEnds
    <3> QED BY <3>1, <3>2 DEF DownFits, Fits
  <2> QED BY <2>1, <2>2
<1>3. pc' = "idle" /\ node' = NULL /\ prio' = prio /\ t' = t BY DEF UpEnds, DownEnds, Return
<1>4. Stale' = {} BY <1>3 DEF Stale
<1> QED BY <1>1, <1>2, <1>3, <1>4 DEF PrioInv, OrderInv

LEMMA EraseStep == ASSUME PrioTreeAssumption, PrioInv, NEW n \in Node, Erase(n) PROVE PrioInv'
<1>1. /\ pc' = "sink" /\ node' = n /\ prio' = prio /\ t' = t /\ n \in In(t) /\ Stale = {}
      /\ Shape(t) /\ Balance(t, {}) /\ prio \in [Node -> Prio]
  BY DEF Erase, Start, PrioInv, Stale, In, IsClear
<1>2. \A x \in In(t) : Fits(t, prio, x) BY DEF Erase, PrioInv, OrderInv
<1>3. /\ In(t) \subseteq Node /\ NULL \notin Node /\ \A x \in In(t) : t.par[x] \in In(t) \union {NULL}
      /\ prio \in [Node -> Nat]
  BY <1>1, ShapeFacts, PrioNat
<1>4. Bridged(t, prio, n)
  <2> SUFFICES ASSUME t.par[n] # NULL, NEW x \in In(t), t.par[x] = n PROVE prio[x] <= prio[t.par[n]]
    BY DEF Bridged
  <2>1. prio[x] <= prio[n] /\ prio[n] <= prio[t.par[n]] BY <1>1, <1>2, <1>3 DEF Fits
  <2>2. prio[x] \in Nat /\ prio[n] \in Nat /\ prio[t.par[n]] \in Nat BY <1>1, <1>3
  <2> QED BY <2>1, <2>2
<1>5. SinkFits(t, prio, n) BY <1>2, <1>4 DEF SinkFits
<1>6. Stale' = {} BY <1>1 DEF Stale
<1> QED BY <1>1, <1>5, <1>6 DEF PrioInv, OrderInv

LEMMA AdjustStep ==
  ASSUME PrioTreeAssumption, PrioInv, NEW n \in Node, NEW p \in Prio, Adjust(n, p)
  PROVE  PrioInv'
<1>1. /\ pc' \in {"up", "down"} /\ node' = n /\ t' = t /\ n \in In(t) /\ Stale = {}
      /\ Shape(t) /\ Balance(t, {}) /\ prio \in [Node -> Prio]
      /\ prio' = [prio EXCEPT ![n] = p]
      /\ pc' = IF t.par[n] # NULL /\ p > prio[t.par[n]] THEN "up" ELSE "down"
  BY DEF Adjust, Start, PrioInv, Stale, In, IsClear
<1>2. \A x \in In(t) : Fits(t, prio, x) BY DEF Adjust, PrioInv, OrderInv
<1>3. /\ In(t) \subseteq Node /\ NULL \notin Node /\ prio \in [Node -> Nat]
      /\ \A x \in In(t) : t.par[x] \in In(t) \union {NULL} /\ t.par[x] # x
  BY <1>1, ShapeFacts, PrioNat
<1>4. /\ prio' \in [Node -> Prio] /\ prio' \in [Node -> Nat] /\ prio'[n] = p
      /\ \A x \in Node : x # n => prio'[x] = prio[x]
  BY <1>1, PrioNat
<1>5. Bridged(t, prio', n)
  <2> SUFFICES ASSUME t.par[n] # NULL, NEW x \in In(t), t.par[x] = n PROVE prio'[x] <= prio'[t.par[n]]
    BY DEF Bridged
  <2>1. prio[x] <= prio[n] /\ prio[n] <= prio[t.par[n]] BY <1>1, <1>2, <1>3 DEF Fits
  <2>2. prio[x] \in Nat /\ prio[n] \in Nat /\ prio[t.par[n]] \in Nat BY <1>1, <1>3
  <2>3. prio'[x] = prio[x] /\ prio'[t.par[n]] = prio[t.par[n]] BY <1>1, <1>3, <1>4
  <2> QED BY <2>1, <2>2, <2>3
<1>6. \A x \in In(t) : x # n /\ t.par[x] # n => Fits(t, prio', x)
  BY <1>2, <1>3, <1>4 DEF Fits
<1>7. pc' = "up" => UpFits(t, prio', n)
  <2> HAVE pc' = "up"
  <2>1. t.par[n] # NULL /\ t.par[n] \in In(t) /\ p > prio[t.par[n]] BY <1>1, <1>3
  <2>2. ASSUME NEW x \in In(t), x # n, t.par[x] = n PROVE Fits(t, prio', x)
    <3>1. prio[x] <= prio[n] /\ prio[n] <= prio[t.par[n]] BY <1>1, <1>2, <1>3, <2>1, <2>2 DEF Fits
    <3>2. prio[x] \in Nat /\ prio[n] \in Nat /\ prio[t.par[n]] \in Nat /\ p \in Nat
      BY <1>1, <1>3, <1>4, <2>1
    <3>3. prio'[x] = prio[x] /\ prio'[t.par[x]] = p BY <1>3, <1>4, <2>2
    <3> QED BY <2>1, <3>1, <3>2, <3>3 DEF Fits
  <2> QED BY <2>2, <1>5, <1>6 DEF UpFits
<1>8. pc' = "down" => DownFits(t, prio', n)
  <2> HAVE pc' = "down"
  <2>1. Fits(t, prio', n)
    <3>1. t.par[n] # NULL => prio[t.par[n]] \in Nat /\ p \in Nat BY <1>1, <1>3, <1>4
    <3>2. t.par[n] # NULL => prio'[t.par[n]] = prio[t.par[n]] BY <1>1, <1>3, <1>4
    <3> QED BY <3>1, <3>2, <1>1, <1>4 DEF Fits
  <2> QED BY <2>1, <1>5, <1>6 DEF DownFits
<1>9. Stale' = {} BY <1>1 DEF Stale
<1> QED BY <1>1, <1>4, <1>7, <1>8, <1>9 DEF PrioInv, OrderInv

----------------------------------------------------------------------------
LEMMA NoRoot == ASSUME NEW s, Shape(s), s.root = NULL PROVE In(s) = {}
<1>1. PICK D, M : Tree(s, In(s), D, M) BY DEF Shape
<1>2. \A x \in In(s) : s.par[x] \in {} \union {NULL} => x \in {} 
  <2>1. \A x \in In(s) : s.par[x] = NULL => x = s.root BY <1>1 DEF Tree
  <2>2. NULL \notin In(s) BY NodeAssumption DEF In
  <2> QED BY <2>1, <2>2
<1>3. In(s) \subseteq {} BY <1>1, <1>2, FromRoot
<1> QED BY <1>3

LEMMA InsertFirst ==
  ASSUME PrioTreeAssumption, PrioInv, NEW n \in Node, NEW p \in Prio, Insert(n, p), t.root = NULL
  PROVE  PrioInv' /\ In(t') = In(t) \union {n}
<1>1. /\ Shape(t) /\ t \in Links /\ In(t) = {} /\ prio \in [Node -> Prio]
      /\ prio' = [prio EXCEPT ![n] = p] /\ pc' = "idle" /\ node' = NULL
      /\ t' = [t EXCEPT !.par[n] = NULL, !.root = n]
  BY NoRoot DEF Insert, PrioInv, Shape
<1>2. n # NULL BY NodeAssumption
<1>3. \A x \in Node : t.par[x] = x /\ ~t.heavy[x] /\ \A d \in Side : t.kid[x][d] = NULL
  BY <1>1, ShapeFacts
<1>4. /\ t' \in Links /\ t'.root = n /\ t'.par[n] = NULL /\ t'.kid = t.kid /\ t'.heavy = t.heavy
      /\ \A x \in Node : x # n => t'.par[x] = t.par[x]
  BY <1>1 DEF Links
<1>5. In(t') = {n} BY <1>2, <1>3, <1>4 DEF In
<1>6. Tree(t', {n}, [x \in {n} |-> 0], 0)
  <2>1. t'.kid[n].left = NULL BY <1>3, <1>4 DEF Side
  <2> QED BY <2>1, <1>2, <1>3, <1>4 DEF Tree
<1>7. Shape(t') BY <1>3, <1>4, <1>5, <1>6 DEF Shape
<1>8. Balance(t', {})
  <2>1. Weights(t')[NULL] = 0 BY <1>6, WeightsAre
  <2>2. t'.kid[n].left = NULL /\ t'.kid[n].right = NULL /\ ~t'.heavy[n] BY <1>3, <1>4 DEF Side
  <2> QED BY <2>1, <2>2, <1>5 DEF Balance
<1>9. \A x \in In(t') : Fits(t', prio', x) BY <1>4, <1>5 DEF Fits
<1>10. Stale' = {} BY <1>1 DEF Stale
<1>11. In(t') = In(t) \union {n} BY <1>1, <1>5
<1> QED BY <1>1, <1>7, <1>8, <1>9, <1>10, <1>11 DEF PrioInv, OrderInv

LEMMA InsertBelow ==
  ASSUME PrioTreeAssumption, PrioInv, NEW n \in Node, NEW p \in Prio, Insert(n, p), t.root # NULL
  PROVE  PrioInv' /\ In(t') = In(t) \union {n}
<1> DEFINE V == In(t)
           W == V \union {n}
           d == Lighter(t)
<1>1. /\ Shape(t) /\ t \in Links /\ prio \in [Node -> Prio] /\ n \in Node \ V /\ Balance(t, {})
      /\ prio' = [prio EXCEPT ![n] = p] /\ pc' = "insert" /\ node' = n
      /\ t' = [t EXCEPT !.par[n] = NextLeaf[1], !.kid[NextLeaf[1]][NextLeaf[2]] = n]
      /\ \A x \in V : Fits(t, prio, x)
  BY DEF Insert, PrioInv, OrderInv, Shape, Start, IsClear, In, Stale
<1>2. PICK D, M : Tree(t, V, D, M) BY <1>1 DEF Shape
<1>3. PICK y \in V : /\ NextLeaf = <<y, d[y]>> /\ t.kid[y][d[y]] = NULL
                     /\ \A a \in Above(t, V, y) : a # y => t.kid[a][d[a]] \in Above(t, V, y)
  BY <1>1, <1>2, NextLeafIs
<1>4. /\ V \subseteq Node /\ NULL \notin Node /\ \A x \in V : t.par[x] \in V \union {NULL}
      /\ \A x \in V, e \in Side : t.kid[x][e] \in V \union {NULL}
      /\ \A x \in Node \ V : ~t.heavy[x] /\ \A e \in Side : t.kid[x][e] = NULL
  BY <1>1, ShapeFacts
<1>5. \A x \in V : d[x] \in Side /\ d[x] = IF t.heavy[x] THEN "right" ELSE "left"
  BY <1>4 DEF Lighter, Side
<1> DEFINE e == d[y]
           A == Above(t, V, y)
<1>6. e \in Side /\ y \in Node BY <1>4, <1>5
<1>7. t' = [t EXCEPT !.par[n] = y, !.kid[y][e] = n] BY <1>1, <1>3
<1> HIDE DEF d
<1>8. /\ t' \in Links /\ t'.heavy = t.heavy /\ Hangs(t', t, n, y, e)
  <2> DEFINE k == [t.kid EXCEPT ![y][e] = n]
             q == [t.par EXCEPT ![n] = y]
  <2>1. t.kid \in [Node -> [Side -> Node \union {NULL}]] /\ t.par \in [Node -> Node \union {NULL}]
    BY <1>1 DEF Links
  <2> HIDE DEF e
  <2>2. /\ k \in [Node -> [Side -> Node \union {NULL}]]
        /\ \A x \in Node, f \in Side : k[x][f] = IF x = y /\ f = e THEN n ELSE t.kid[x][f]
    BY <2>1, <1>1, <1>6
  <2>3. q \in [Node -> Node \union {NULL}] /\ q[n] = y /\ \A x \in Node : x # n => q[x] = t.par[x]
    BY <2>1, <1>1, <1>6
  <2>4. t' = [t EXCEPT !.par = q, !.kid = k] BY <1>1, <1>7 DEF Links
  <2> HIDE DEF k, q
  <2>5. t' \in Links /\ t'.heavy = t.heavy /\ t'.root = t.root /\ t'.par = q /\ t'.kid = k
    BY <2>2, <2>3, <2>4, <1>1 DEF Links
  <2> QED BY <2>2, <2>3, <2>5 DEF Hangs
<1>9. PICK C, K : Tree(t', W, C, K) BY <1>1, <1>2, <1>3, <1>6, <1>8, HangTree
<1>10. In(t') = W BY <1>9, InIs
<1>11. Above(t', W, y) = A BY <1>1, <1>2, <1>3, <1>6, <1>8, HangAbove
<1>12. /\ Weights(t')[n] = 1 /\ Weights(t')[NULL] = 0
       /\ \A x \in V : Weights(t')[x] = Weights(t)[x] + IF x \in A THEN 1 ELSE 0
  BY <1>1, <1>2, <1>3, <1>6, <1>8, HangWeights
<1>13. A \subseteq V /\ y \in A BY <1>2, AboveIs
<1>14. /\ \A x \in V : x \notin A => \A f \in Side : t.kid[x][f] \notin A
       /\ \A f \in Side : t.kid[y][f] \notin A
       /\ \A x \in V : ~(t.kid[x].left \in A /\ t.kid[x].right \in A)
  BY <1>2, OnTheWay
<1>15. \A x \in V : Weights(t)[t.kid[x].left] - Weights(t)[t.kid[x].right] = IF t.heavy[x] THEN 1 ELSE 0
  BY <1>1 DEF Balance
<1>16. \A x \in V \union {NULL} : Weights(t)[x] \in Nat BY <1>1, ShapeFacts
<1>17. Weights(t)[NULL] = 0 BY <1>2, WeightsAre
<1> DEFINE u == Weights(t')
           o == Weights(t)
<1>18. \A x \in V \union {NULL} : u[x] = o[x] + IF x \in A THEN 1 ELSE 0
  BY <1>4, <1>12, <1>13, <1>17
<1>19. /\ \A x \in V, f \in Side : t'.kid[x][f] = IF x = y /\ f = e THEN n ELSE t.kid[x][f]
       /\ t'.par[n] = y /\ \A f \in Side : t'.kid[n][f] = NULL
       /\ \A x \in V : t'.par[x] = t.par[x]
  BY <1>1, <1>3, <1>4, <1>8 DEF Hangs
<1> HIDE DEF u, o, A, e
<1>20. ASSUME NEW x \in V
       PROVE  u[t'.kid[x].left] - u[t'.kid[x].right]
                = IF (t.heavy[x] /\ x \notin A) \/ (~t.heavy[x] /\ x \in A) THEN 1 ELSE 0
  <2>1. /\ t.kid[x].left \in V \union {NULL} /\ t.kid[x].right \in V \union {NULL}
        /\ o[t.kid[x].left] \in Nat /\ o[t.kid[x].right] \in Nat
        /\ o[t.kid[x].left] - o[t.kid[x].right] = IF t.heavy[x] THEN 1 ELSE 0
        /\ t.heavy[x] \in BOOLEAN
    <3>1. t.heavy[x] \in BOOLEAN BY <1>1, <1>4 DEF Links
    <3>2. t.kid[x].left \in V \union {NULL} /\ t.kid[x].right \in V \union {NULL} BY <1>4 DEF Side
    <3> QED BY <3>1, <3>2, <1>15, <1>16 DEF o
  <2>2. CASE x \notin A
    <3>1. x # y BY <2>2, <1>13 DEF A
    <3>2. t'.kid[x].left = t.kid[x].left /\ t'.kid[x].right = t.kid[x].right BY <3>1, <1>19 DEF Side
    <3>3. t.kid[x].left \notin A /\ t.kid[x].right \notin A BY <2>2, <1>14 DEF A, Side
    <3> QED BY <2>1, <2>2, <3>2, <3>3, <1>18
  <2>3. CASE x \in A /\ x # y
    <3>1. t'.kid[x].left = t.kid[x].left /\ t'.kid[x].right = t.kid[x].right BY <2>3, <1>19 DEF Side
    <3>2. t.kid[x][d[x]] \in A BY <2>3, <1>3 DEF A
    <3>3. ~(t.kid[x].left \in A /\ t.kid[x].right \in A) BY <1>14 DEF A
    <3>4. CASE t.heavy[x]
      <4>1. t.kid[x].right \in A /\ t.kid[x].left \notin A BY <3>2, <3>3, <3>4, <1>5
      <4>2. u[t.kid[x].right] = o[t.kid[x].right] + 1 /\ u[t.kid[x].left] = o[t.kid[x].left]
        BY <2>1, <4>1, <1>18
      <4> QED BY <2>1, <2>3, <3>1, <3>4, <4>2
    <3>5. CASE ~t.heavy[x]
      <4>1. t.kid[x].left \in A /\ t.kid[x].right \notin A BY <3>2, <3>3, <3>5, <1>5
      <4>2. u[t.kid[x].left] = o[t.kid[x].left] + 1 /\ u[t.kid[x].right] = o[t.kid[x].right]
        BY <2>1, <4>1, <1>18
      <4> QED BY <2>1, <2>3, <3>1, <3>5, <4>2
    <3> QED BY <3>4, <3>5
  <2>4. CASE x = y
    <3>1. x \in A /\ t.kid[x].left \notin A /\ t.kid[x].right \notin A BY <2>4, <1>13, <1>14 DEF A, Side
    <3>2. u[n] = 1 /\ u[NULL] = 0 /\ o[NULL] = 0 BY <1>12, <1>17 DEF u, o
    <3>3. t.kid[x][e] = NULL /\ e = (IF t.heavy[x] THEN "right" ELSE "left") BY <2>4, <1>3, <1>5 DEF e
    <3>4. \A f \in Side : t'.kid[x][f] = IF f = e THEN n ELSE t.kid[x][f] BY <2>4, <1>19
    <3>5. CASE t.heavy[x]
      <4>1. t'.kid[x].right = n /\ t'.kid[x].left = t.kid[x].left /\ t.kid[x].right = NULL
        BY <3>3, <3>4, <3>5 DEF Side
      <4>2. o[t.kid[x].left] = 1 BY <2>1, <3>2, <3>5, <4>1
      <4>3. u[t'.kid[x].left] = 1 BY <2>1, <3>1, <4>1, <4>2, <1>18
      <4> QED BY <3>1, <3>2, <3>5, <4>1, <4>3
    <3>6. CASE ~t.heavy[x]
      <4>1. t'.kid[x].left = n /\ t'.kid[x].right = t.kid[x].right /\ t.kid[x].left = NULL
        BY <3>3, <3>4, <3>6 DEF Side
      <4>2. o[t.kid[x].right] = 0 BY <2>1, <3>2, <3>6, <4>1
      <4>3. u[t'.kid[x].right] = 0 BY <2>1, <3>1, <4>1, <4>2, <1>18
      <4> QED BY <3>1, <3>2, <3>6, <4>1, <4>3
    <3> QED BY <3>5, <3>6
  <2> QED BY <2>2, <2>3, <2>4
<1>21. u[t'.kid[n].left] - u[t'.kid[n].right] = 0 /\ ~t.heavy[n] /\ n \notin A
  <2>1. t'.kid[n].left = NULL /\ t'.kid[n].right = NULL /\ ~t.heavy[n] BY <1>1, <1>4, <1>19 DEF Side
  <2> QED BY <2>1, <1>1, <1>12, <1>13 DEF u, A
<1>22. Balance(t', A)
  <2>1. \A x \in W : u[t'.kid[x].left] - u[t'.kid[x].right]
                       = IF (t.heavy[x] /\ x \notin A) \/ (~t.heavy[x] /\ x \in A) THEN 1 ELSE 0
    <3>1. t.heavy[n] \in BOOLEAN BY <1>1 DEF Links
    <3> QED BY <3>1, <1>20, <1>21
  <2> QED BY <2>1, <1>8, <1>10 DEF Balance, u
<1>23. Shape(t')
  <2>1. \A x \in Node \ W : ~t'.heavy[x] BY <1>4, <1>8
  <2> QED BY <2>1, <1>8, <1>9, <1>10 DEF Shape
<1>24. UpFits(t', prio', n)
  <2>1. \A x \in V : x # n /\ x \in Node BY <1>1, <1>4
  <2>2. \A x \in V : prio'[x] = prio[x] BY <2>1, <1>1
  <2>3. \A x \in V : Fits(t', prio', x)
    <3> TAKE x \in V
    <3>1. t.par[x] # NULL => t.par[x] \in V /\ prio[x] <= prio[t.par[x]] BY <1>1, <1>4 DEF Fits
    <3>2. t'.par[x] = t.par[x] BY <1>19
    <3> QED BY <2>2, <3>1, <3>2 DEF Fits
  <2>4. \A x \in W : t'.par[x] # n
    <3>1. \A x \in V : t'.par[x] = t.par[x] /\ t.par[x] \in V \union {NULL} BY <1>4, <1>19
    <3>2. t'.par[n] \in V /\ n # NULL BY <1>1, <1>4, <1>19
    <3> QED BY <2>1, <3>1, <3>2
  <2> QED BY <2>3, <2>4, <1>10 DEF UpFits, Bridged
<1>25. Stale' = A BY <1>1, <1>10, <1>11, <1>19 DEF Stale
<1>26. prio' \in [Node -> Prio] BY <1>1
<1> QED BY <1>1, <1>10, <1>22, <1>23, <1>24, <1>25, <1>26 DEF PrioInv, OrderInv

----------------------------------------------------------------------------
\* The bits say what they say: a node that leans has a left child, one that
\* has no left child is a leaf.
LEMMA LeafBits ==
  ASSUME NEW s, Shape(s), Balance(s, {}), NEW x \in In(s)
  PROVE  /\ s.heavy[x] => s.kid[x].left # NULL
         /\ s.kid[x].left = NULL => s.kid[x].right = NULL /\ ~s.heavy[x]
         /\ ~s.heavy[x] /\ s.kid[x].right = NULL => s.kid[x].left = NULL
<1> DEFINE u == Weights(s)
<1>1. /\ s.kid[x].left \in In(s) \union {NULL} /\ s.kid[x].right \in In(s) \union {NULL}
      /\ \A y \in In(s) \union {NULL} : u[y] \in Nat /\ (u[y] = 0 <=> y = NULL)
  BY ShapeFacts DEF Side
<1>2. u[s.kid[x].left] - u[s.kid[x].right] = IF s.heavy[x] THEN 1 ELSE 0 BY DEF Balance
<1> HIDE DEF u
<1>3. u[s.kid[x].left] \in Nat /\ u[s.kid[x].right] \in Nat BY <1>1
<1>4. CASE s.heavy[x]
  <2>1. u[s.kid[x].left] = 1 + u[s.kid[x].right] BY <1>2, <1>3, <1>4
  <2>2. u[s.kid[x].left] # 0 BY <2>1, <1>3
  <2> QED BY <2>2, <1>1, <1>4
<1>5. CASE ~s.heavy[x]
  <2>1. u[s.kid[x].left] = u[s.kid[x].right] BY <1>2, <1>3, <1>5
  <2> QED BY <2>1, <1>1, <1>5
<1> QED BY <1>4, <1>5

\* The tree without its last leaf v: its bits are right once those above
\* are flipped.
Pruned(r, s, v, q, d) ==
    /\ r.root = s.root
    /\ \A x \in Node : r.par[x] = IF x = v THEN v ELSE s.par[x]
    /\ \A x \in Node, e \in Side : r.kid[x][e] = IF x = q /\ e = d THEN NULL ELSE s.kid[x][e]
    /\ \A x \in Node : r.heavy[x] = (s.heavy[x] # (x \in Above(s, In(s), q)))

LEMMA PruneShape ==
  ASSUME NEW s, Shape(s), Balance(s, {}), NEW v \in In(s), NEW q \in In(s), NEW d \in Side,
         s.par[v] = q, s.kid[q][d] = v, \A e \in Side : s.kid[v][e] = NULL, ~s.heavy[v],
         \A a \in Above(s, In(s), v) : a # v => s.kid[a][Heavier(s)[a]] \in Above(s, In(s), v),
         NEW r \in Links, Pruned(r, s, v, q, d)
  PROVE  Shape(r) /\ In(r) = In(s) \ {v} /\ Balance(r, {})
<1> DEFINE V == In(s)
           W == V \ {v}
           A == Above(s, V, q)
           u == Weights(r)
           o == Weights(s)
<1>1. PICK D, M : Tree(s, V, D, M) BY DEF Shape
<1>2. /\ V \subseteq Node /\ NULL \notin Node /\ s \in Links
      /\ \A x \in V, e \in Side : s.kid[x][e] \in V \union {NULL} /\ (s.kid[x][e] # NULL => s.par[s.kid[x][e]] = x)
      /\ \A x \in Node \ V : ~s.heavy[x]
      /\ \A x \in V \union {NULL} : o[x] \in Nat
  BY ShapeFacts
<1>3. /\ r.root = s.root /\ r.par[v] = v
      /\ \A x \in Node : x # v => r.par[x] = s.par[x]
      /\ \A x \in Node, e \in Side : r.kid[x][e] = IF x = q /\ e = d THEN NULL ELSE s.kid[x][e]
      /\ \A x \in Node : r.heavy[x] <=> (s.heavy[x] # (x \in A))
  BY <1>2 DEF Pruned
<1>4. (\E C, K : Tree(r, V \ {v}, C, K)) /\ Hangs(s, r, v, q, d) /\ q # v
  BY <1>1, <1>3, CutTree
<1>5. PICK C, K : Tree(r, W, C, K) BY <1>4
<1>6. In(r) = W BY <1>5, InIs
<1>7. q \in W /\ v \in Node \ W /\ W \union {v} = V /\ r.kid[q][d] = NULL BY <1>2, <1>3, <1>4
<1>8. \A x \in W \union {NULL} : Above(s, V, x) = Above(r, W, x) BY <1>5, <1>7, <1>4, HangAbove
<1>9. /\ o[v] = 1 /\ o[NULL] = 0
      /\ \A x \in W : o[x] = u[x] + IF x \in Above(r, W, q) THEN 1 ELSE 0
  BY <1>5, <1>7, <1>4, HangWeights
<1>10. A = Above(r, W, q) BY <1>7, <1>8
<1>11. u[NULL] = 0 /\ \A x \in W \union {NULL} : u[x] \in Nat BY <1>5, WeightsAre
<1>12. A \subseteq W /\ q \in A BY <1>5, <1>7, <1>10, AboveIs
<1>13. Above(s, V, v) = {v} \union A BY <1>1, AboveIs
<1>14. /\ \A x \in W : x \notin A => \A f \in Side : s.kid[x][f] \notin A
       /\ \A f \in Side : s.kid[q][f] \notin A
       /\ \A x \in W : ~(s.kid[x].left \in A /\ s.kid[x].right \in A)
  BY <1>1, <1>7, OnTheWay
<1>15. \A x \in W : o[s.kid[x].left] - o[s.kid[x].right] = IF s.heavy[x] THEN 1 ELSE 0
  BY DEF Balance
<1>16. \A x \in W : s.kid[x][IF s.heavy[x] THEN "left" ELSE "right"] \in A \union {v} \/ x \notin A
  BY <1>2, <1>12, <1>13 DEF Heavier
<1>17. \A x \in W, f \in Side : s.kid[x][f] = v => x = q /\ f = d
  <2> TAKE x \in W, f \in Side
  <2> HAVE s.kid[x][f] = v
  <2>1. x = q BY <1>2
  <2>2. s.kid[q].left # NULL => s.kid[q].left # s.kid[q].right BY <1>1 DEF Tree
  <2>3. ~(s.kid[q].left = v /\ s.kid[q].right = v) BY <1>2, <2>2
  <2> QED BY <2>1, <2>3 DEF Side
<1> HIDE DEF A, u, o
<1>18. \A x \in W \union {NULL} : o[x] = u[x] + IF x \in A THEN 1 ELSE 0
  <2>1. NULL \notin A BY <1>2, <1>12
  <2>2. o[NULL] = u[NULL] + IF NULL \in A THEN 1 ELSE 0 BY <2>1, <1>9, <1>11
  <2>3. \A x \in W : o[x] = u[x] + IF x \in A THEN 1 ELSE 0 BY <1>9, <1>10
  <2> QED BY <2>2, <2>3
<1>19. ASSUME NEW x \in W
       PROVE  u[r.kid[x].left] - u[r.kid[x].right] = IF r.heavy[x] THEN 1 ELSE 0
  <2>1. /\ o[s.kid[x].left] - o[s.kid[x].right] = IF s.heavy[x] THEN 1 ELSE 0
        /\ s.heavy[x] \in BOOLEAN /\ (r.heavy[x] <=> (s.heavy[x] # (x \in A)))
        /\ s.kid[x].left \in V \union {NULL} /\ s.kid[x].right \in V \union {NULL}
    <3>1. s.heavy[x] \in BOOLEAN BY <1>2 DEF Links
    <3>2. s.kid[x].left \in V \union {NULL} /\ s.kid[x].right \in V \union {NULL} BY <1>2 DEF Side
    <3> QED BY <3>1, <3>2, <1>2, <1>3, <1>15
  <2>2. CASE x # q
    <3>1. r.kid[x].left = s.kid[x].left /\ r.kid[x].right = s.kid[x].right BY <2>2, <1>2, <1>3 DEF Side
    <3>2. s.kid[x].left # v /\ s.kid[x].right # v BY <2>2, <1>17 DEF Side
    <3>3. s.kid[x].left \in W \union {NULL} /\ s.kid[x].right \in W \union {NULL} BY <2>1, <3>2
    <3>4. u[s.kid[x].left] \in Nat /\ u[s.kid[x].right] \in Nat BY <3>3, <1>11
    <3>5. CASE x \notin A
      <4>1. s.kid[x].left \notin A /\ s.kid[x].right \notin A BY <3>5, <1>14 DEF Side
      <4>2. u[s.kid[x].left] = o[s.kid[x].left] /\ u[s.kid[x].right] = o[s.kid[x].right]
        BY <3>3, <3>4, <4>1, <1>18
      <4> QED BY <2>1, <3>1, <3>5, <4>2
    <3>6. CASE x \in A /\ s.heavy[x]
      <4>1. s.kid[x].left \in A /\ s.kid[x].right \notin A BY <3>2, <3>6, <1>14, <1>16
      <4>2. o[s.kid[x].left] = u[s.kid[x].left] + 1 /\ u[s.kid[x].right] = o[s.kid[x].right]
        BY <3>3, <3>4, <4>1, <1>18
      <4>3. ~r.heavy[x] BY <2>1, <3>6
      <4> QED BY <2>1, <3>1, <3>4, <3>6, <4>2, <4>3
    <3>7. CASE x \in A /\ ~s.heavy[x]
      <4>1. s.kid[x].right \in A /\ s.kid[x].left \notin A BY <3>2, <3>7, <1>14, <1>16
      <4>2. o[s.kid[x].right] = u[s.kid[x].right] + 1 /\ u[s.kid[x].left] = o[s.kid[x].left]
        BY <3>3, <3>4, <4>1, <1>18
      <4> QED BY <2>1, <3>1, <3>4, <3>7, <4>2
    <3> QED BY <3>5, <3>6, <3>7
  <2>3. CASE x = q
    <3>1. x \in A /\ s.kid[x].left \notin A /\ s.kid[x].right \notin A BY <2>3, <1>12, <1>14 DEF Side
    <3>2. o[v] = 1 /\ o[NULL] = 0 /\ u[NULL] = 0 BY <1>9, <1>11
    <3>3. s.kid[x][IF s.heavy[x] THEN "left" ELSE "right"] = v BY <3>1, <1>16 DEF Side
    <3>4. d = IF s.heavy[x] THEN "left" ELSE "right" BY <3>3, <2>3, <1>17 DEF Side
    <3>5. CASE s.heavy[x]
      <4>1. s.kid[x].left = v /\ s.kid[x].right # v BY <3>3, <3>4, <3>5, <1>17 DEF Side
      <4>2. r.kid[x].left = NULL /\ r.kid[x].right = s.kid[x].right
        BY <2>3, <3>4, <3>5, <1>2, <1>3 DEF Side
      <4>3. s.kid[x].right \in W \union {NULL} BY <2>1, <4>1
      <4>4. u[s.kid[x].right] \in Nat /\ o[s.kid[x].right] = u[s.kid[x].right]
        BY <3>1, <4>3, <1>11, <1>18
      <4>5. u[s.kid[x].right] = 0 BY <2>1, <3>2, <3>5, <4>1, <4>4
      <4>6. ~r.heavy[x] BY <2>1, <3>1, <3>5
      <4> QED BY <3>2, <4>2, <4>5, <4>6
    <3>6. CASE ~s.heavy[x]
      <4>1. s.kid[x].right = v /\ s.kid[x].left # v BY <3>3, <3>4, <3>6, <1>17 DEF Side
      <4>2. r.kid[x].right = NULL /\ r.kid[x].left = s.kid[x].left
        BY <2>3, <3>4, <3>6, <1>2, <1>3 DEF Side
      <4>3. s.kid[x].left \in W \union {NULL} BY <2>1, <4>1
      <4>4. u[s.kid[x].left] \in Nat /\ o[s.kid[x].left] = u[s.kid[x].left]
        BY <3>1, <4>3, <1>11, <1>18
      <4>5. u[s.kid[x].left] = 1 BY <2>1, <3>2, <3>6, <4>1, <4>4
      <4> QED BY <2>1, <3>1, <3>2, <3>6, <4>2, <4>5
    <3> QED BY <3>5, <3>6
  <2> QED BY <2>2, <2>3
<1>20. Balance(r, {}) BY <1>6, <1>19 DEF Balance, u
<1>21. \A x \in Node \ W : ~r.heavy[x]
  <2> TAKE x \in Node \ W
  <2>1. ~s.heavy[x] /\ s.heavy[x] \in BOOLEAN
    <3>1. s.heavy[x] \in BOOLEAN BY <1>2 DEF Links
    <3> QED BY <3>1, <1>2
  <2>2. x \notin A BY <1>12
  <2>3. r.heavy[x] <=> (s.heavy[x] # (x \in A)) BY <1>3
  <2> HIDE DEF W
  <2> QED BY <2>1, <2>2, <2>3
<1>22. Shape(r) BY <1>5, <1>6, <1>21 DEF Shape
<1> QED BY <1>6, <1>20, <1>22

----------------------------------------------------------------------------
\* What an erasure leaves: v, the last leaf, in the place of node.
LEMMA CutLast ==
  ASSUME PrioTreeAssumption, PrioInv, Cut, t.par[LastLeaf] # NULL
  PROVE  \E r : /\ Shape(r) /\ In(r) = In(t) \ {LastLeaf} /\ Balance(r, {})
                /\ \A x \in In(r) : r.par[x] = t.par[x]
                /\ t' \in Links /\ Relabelled(t', r, node, LastLeaf)
<1> DEFINE V == In(t)
           v == LastLeaf
           q == t.par[v]
           g == t.par[node]
<1>1. /\ Shape(t) /\ node \in V /\ Balance(t, {}) /\ t.kid[node].left = NULL
      /\ \A x \in V, d \in Side : t.kid[x][d] # NULL => t.par[t.kid[x][d]] = x
      /\ V \subseteq Node /\ NULL \notin Node /\ t \in Links
      /\ \A x \in V : t.par[x] \in V \union {NULL}
      /\ \A x \in V, d \in Side : t.kid[x][d] \in V \union {NULL}
      /\ \A x \in V : t.par[x] # NULL => \E d \in Side : t.kid[t.par[x]][d] = x
      /\ \A x \in Node \ V : t.par[x] = x /\ ~t.heavy[x] /\ \A d \in Side : t.kid[x][d] = NULL
  <2>1. Shape(t) /\ node \in V /\ Balance(t, {}) /\ t.kid[node].left = NULL BY DEF Cut, PrioInv, Stale
  <2> QED BY <2>1, ShapeFacts
<1>2. PICK D, M : Tree(t, V, D, M) BY <1>1 DEF Shape
<1>3. \A x \in Node : t.heavy[x] => t.kid[x].left # NULL BY <1>1, LeafBits
<1>4. /\ v \in V /\ ~t.heavy[v] /\ t.kid[v].right = NULL
      /\ \A a \in Above(t, V, v) : a # v => t.kid[a][Heavier(t)[a]] \in Above(t, V, v)
  <2>1. t.root # NULL BY <1>1, NoRoot
  <2> QED BY <2>1, <1>1, <1>2, <1>3, LastLeafIs
<1>5. \A d \in Side : t.kid[v][d] = NULL BY <1>1, <1>4, LeafBits DEF Side
<1>6. \A d \in Side : t.kid[node][d] = NULL BY <1>1, LeafBits DEF Side
<1>7. q \in V /\ q # v /\ q # NULL BY <1>1, <1>4, ShapeFacts
<1> DEFINE side == IF t.kid[q].left = v THEN "left" ELSE "right"
           c0 == ChangeChild(t, v, NULL, q)
           c == FlipUp(c0, q)
           moved == ChangeChild([c EXCEPT !.par[v] = c.par[node], !.heavy[v] = c.heavy[node]],
                                node, v, c.par[node])
           r == [c EXCEPT !.par[v] = v]
           A == Above(t, V, q)
<1>8. t' = [ClearLinks(IF v = node THEN c ELSE moved, node) EXCEPT !.heavy[node] = FALSE]
  BY Zenon DEF Cut
<1> HIDE DEF v
<1>9. side \in Side /\ t.kid[q][side] = v
  <2>1. \E d \in Side : t.kid[q][d] = v BY <1>1, <1>4, <1>7
  <2> QED BY <2>1 DEF Side
<1>10. A \subseteq V /\ A = Above(t, V, q) /\ q \in A /\ v \notin A
  <2>1. A \subseteq V /\ q \in A BY <1>2, <1>7, AboveIs
  <2>2. v \notin A
    <3>1. \A a \in A : a # q => \E d \in Side : t.kid[a][d] \in A BY <1>2, <1>7, WayUp
    <3>2. \A d \in Side : t.kid[v][d] \notin A BY <2>1, <1>1, <1>5
    <3> QED BY <3>1, <3>2, <1>7
  <2> QED BY <2>1, <2>2
<1> HIDE DEF q, side, A
<1>11. /\ c0 \in Links /\ c0.root = t.root /\ c0.par = t.par /\ c0.heavy = t.heavy
       /\ \A x \in Node, e \in Side : c0.kid[x][e] = IF x = q /\ e = side THEN NULL ELSE t.kid[x][e]
  <2>1. NULL \in Node \union {NULL} /\ q \in Node \union {NULL} BY <1>1, <1>7
  <2>2. q # NULL => side = IF t.kid[q].left = v THEN "left" ELSE "right" BY DEF side
  <2>3. t \in Links /\ side \in Side BY <1>1, <1>9
  <2>4. ChildSet(c0, t, NULL, q, side) BY <2>1, <2>2, <2>3, ChangeChildIs
  <2> HIDE DEF c0
  <2> QED BY <2>4, <1>7 DEF ChildSet
<1> HIDE DEF c0
<1>12. /\ c \in Links /\ c.root = t.root /\ c.par = t.par
       /\ \A x \in Node, e \in Side : c.kid[x][e] = IF x = q /\ e = side THEN NULL ELSE t.kid[x][e]
       /\ \A x \in Node : c.heavy[x] = (t.heavy[x] # (x \in A))
  <2>1. c = [c0 EXCEPT !.heavy = [x \in Node |-> c0.heavy[x] # (x \in A)]]
    BY <1>2, <1>7, <1>11, FlipUpIs DEF A
  <2> HIDE DEF c
  <2>2. /\ c \in Links /\ c.root = t.root /\ c.par = t.par /\ c.kid = c0.kid
        /\ \A x \in Node : c.heavy[x] = (c0.heavy[x] # (x \in A))
    BY <2>1, <1>11 DEF Links
  <2> QED BY <2>2, <1>11
<1> HIDE DEF c
<1>13. /\ r \in Links /\ r.root = c.root /\ r.kid = c.kid /\ r.heavy = c.heavy
       /\ \A x \in Node : r.par[x] = IF x = v THEN v ELSE c.par[x]
  BY <1>1, <1>4, <1>12 DEF Links
<1> HIDE DEF r
<1>14. Shape(r) /\ In(r) = V \ {v} /\ Balance(r, {})
  <2>1. Pruned(r, t, v, q, side) BY <1>12, <1>13 DEF Pruned, A
  <2>2. t.par[v] = q BY DEF q
  <2> QED BY <2>1, <2>2, <1>1, <1>4, <1>5, <1>7, <1>9, <1>13, PruneShape
<1>15. \A x \in In(r) : r.par[x] = t.par[x] BY <1>1, <1>12, <1>13, <1>14
<1>16. /\ c.heavy[v] = FALSE
       /\ \A e \in Side : c.kid[v][e] = NULL /\ c.kid[node][e] = NULL
       /\ v \in Node /\ node \in Node
  <2>1. t.heavy[v] \in BOOLEAN BY <1>1, <1>4 DEF Links
  <2>2. c.heavy[v] <=> (t.heavy[v] # (v \in A)) BY <1>1, <1>4, <1>12
  <2>3. ~c.heavy[v] /\ c.heavy[v] \in BOOLEAN
    <3>1. c.heavy[v] \in BOOLEAN BY <1>1, <1>4, <1>12 DEF Links
    <3> QED BY <2>1, <2>2, <3>1, <1>4, <1>10
  <2> QED BY <2>3, <1>1, <1>4, <1>5, <1>6, <1>12
<1>17. CASE v = node
  <2>1. t' = [[c EXCEPT !.par[node] = node, !.kid[node] = NoKids] EXCEPT !.heavy[node] = FALSE]
    BY <1>8, <1>17 DEF ClearLinks
  <2>2. NoKids \in [Side -> Node \union {NULL}] /\ \A e \in Side : NoKids[e] = NULL BY DEF NoKids
  <2>3. /\ t' \in Links /\ t'.root = c.root
        /\ \A x \in Node : t'.par[x] = IF x = node THEN node ELSE c.par[x]
        /\ \A x \in Node : t'.kid[x] = IF x = node THEN NoKids ELSE c.kid[x]
        /\ \A x \in Node : t'.heavy[x] = IF x = node THEN FALSE ELSE c.heavy[x]
    BY <2>1, <2>2, <1>12, <1>16 DEF Links
  <2>4. Relabelled(t', r, node, v) BY <2>2, <2>3, <1>13, <1>16, <1>17 DEF Relabelled, Sw
  <2> QED BY <2>3, <2>4, <1>14, <1>15 DEF v
<1>18. CASE v # node
  <2> DEFINE b == [c EXCEPT !.par[v] = g, !.heavy[v] = c.heavy[node]]
             u == IF t.kid[g].left = node THEN "left" ELSE "right"
  <2>1. c.par[node] = g /\ moved = ChangeChild(b, node, v, g) BY <1>12
  <2>2. g \in V \union {NULL} /\ g # v /\ g # node /\ (g # NULL => t.kid[g][u] = node)
    <3>1. g \in V \union {NULL} /\ g # node BY <1>1, ShapeFacts
    <3>2. g # NULL => \E d \in Side : t.kid[g][d] = node BY <1>1
    <3>3. g # v BY <3>2, <1>1, <1>4, <1>5
    <3> QED BY <3>1, <3>2, <3>3 DEF Side
  <2> HIDE DEF g
  <2>3. /\ b \in Links /\ b.root = t.root /\ b.kid = c.kid
        /\ \A x \in Node : b.par[x] = IF x = v THEN g ELSE t.par[x]
        /\ \A x \in Node : b.heavy[x] = IF x = v THEN c.heavy[node] ELSE c.heavy[x]
    BY <2>2, <1>1, <1>12, <1>16 DEF Links
  <2> HIDE DEF b, moved
  <2>4. \A x \in V, f \in Side : t.kid[x][f] = node => x = g /\ f = u
    <3> TAKE x \in V, f \in Side
    <3> HAVE t.kid[x][f] = node
    <3>1. x = g BY <1>1, <1>16 DEF g
    <3>2. t.kid[g].left # NULL => t.kid[g].left # t.kid[g].right BY <3>1, <1>2 DEF Tree
    <3>3. ~(t.kid[g].left = node /\ t.kid[g].right = node) BY <3>2, <1>1, <1>16
    <3> QED BY <3>1, <3>3 DEF Side
  <2>5. g # NULL => u = IF b.kid[g].left = node THEN "left" ELSE "right"
    <3> HAVE g # NULL
    <3>1. g \in V /\ \A e \in Side : b.kid[g][e] = IF g = q /\ e = side THEN NULL ELSE t.kid[g][e]
      BY <2>2, <2>3, <1>1, <1>12
    <3>2. b.kid[g].left = node <=> t.kid[g].left = node BY <3>1, <1>1, <1>9, <1>16, <1>18 DEF Side
    <3> QED BY <3>2
  <2>6. u \in Side BY DEF Side
  <2> HIDE DEF u
  <2>7. /\ moved \in Links /\ moved.root = (IF g = NULL THEN v ELSE b.root)
        /\ moved.par = b.par /\ moved.heavy = b.heavy
        /\ \A x \in Node, e \in Side : moved.kid[x][e] = IF x = g /\ e = u THEN v ELSE b.kid[x][e]
    <3>1. v \in Node \union {NULL} /\ g \in Node \union {NULL} BY <2>2, <1>1, <1>16
    <3>2. b \in Links /\ moved = ChangeChild(b, node, v, g) BY <2>1, <2>3
    <3>3. ChildSet(moved, b, v, g, u) BY <3>1, <3>2, <2>5, <2>6, ChangeChildIs
    <3> QED BY <3>3 DEF ChildSet
  <2>8. t' = [[moved EXCEPT !.par[node] = node, !.kid[node] = NoKids] EXCEPT !.heavy[node] = FALSE]
    BY <1>8, <1>18 DEF ClearLinks
  <2>9. NoKids \in [Side -> Node \union {NULL}] /\ \A e \in Side : NoKids[e] = NULL BY DEF NoKids
  <2>10. /\ t' \in Links /\ t'.root = moved.root
         /\ \A x \in Node : t'.par[x] = IF x = node THEN node ELSE moved.par[x]
         /\ \A x \in Node : t'.kid[x] = IF x = node THEN NoKids ELSE moved.kid[x]
         /\ \A x \in Node : t'.heavy[x] = IF x = node THEN FALSE ELSE moved.heavy[x]
    BY <2>7, <2>8, <2>9, <1>16 DEF Links
  <2>11. t'.root = Sw(node, v, r.root)
    <3>1. g = NULL <=> t.root = node
      <4>1. t.root = node => g = NULL BY <1>2, <1>16, <1>1 DEF Tree, g
      <4>2. g = NULL => t.root = node BY <1>2, <1>1 DEF Tree, g
      <4> QED BY <4>1, <4>2
    <3>2. t.root # v BY <1>1, <1>2, <1>7, <1>16 DEF Tree, q
    <3> QED BY <3>1, <3>2, <2>3, <2>7, <2>10, <1>12, <1>13 DEF Sw
  <2>12. ASSUME NEW x \in Node PROVE t'.par[x] = Sw(node, v, r.par[Sw(node, v, x)])
    <3>1. CASE x = node BY <3>1, <2>10, <1>13, <1>16, <1>18 DEF Sw
    <3>2. CASE x = v
      <4>1. t'.par[x] = g BY <3>2, <2>3, <2>7, <2>10, <1>18, <1>16
      <4>2. r.par[node] = g BY <2>1, <1>13, <1>16, <1>18
      <4> QED BY <4>1, <4>2, <3>2, <2>2, <1>18 DEF Sw
    <3>3. CASE x # node /\ x # v
      <4>1. t'.par[x] = t.par[x] /\ r.par[x] = t.par[x] BY <3>3, <2>3, <2>7, <2>10, <1>12, <1>13
      <4>2. t.par[x] # node /\ t.par[x] # v
        <5>1. CASE x \in V
          <6>1. t.par[x] # NULL => \E d \in Side : t.kid[t.par[x]][d] = x BY <5>1, <1>1
          <6>2. x # NULL /\ node # NULL /\ v # NULL BY <1>1, <1>16
          <6> QED BY <6>1, <6>2, <1>5, <1>6
        <5>2. CASE x \notin V BY <5>2, <3>3, <1>1
        <5> QED BY <5>1, <5>2
      <4> QED BY <4>1, <4>2, <3>3 DEF Sw
    <3> QED BY <3>1, <3>2, <3>3
  <2>13. ASSUME NEW x \in Node PROVE t'.heavy[x] = r.heavy[Sw(node, v, x)]
    <3>1. x = node => t'.heavy[x] = FALSE BY <2>10
    <3>2. x # node => t'.heavy[x] = b.heavy[x] BY <2>7, <2>10
    <3>3. b.heavy[v] = c.heavy[node] /\ (x # v => b.heavy[x] = c.heavy[x]) BY <2>3, <1>16
    <3>4. r.heavy = c.heavy BY <1>13
    <3>5. CASE x = node BY <3>1, <3>4, <3>5, <1>16 DEF Sw
    <3>6. CASE x = v BY <3>2, <3>3, <3>4, <3>6, <1>18 DEF Sw
    <3>7. CASE x # node /\ x # v BY <3>2, <3>3, <3>4, <3>7 DEF Sw
    <3> QED BY <3>5, <3>6, <3>7
  <2>14. ASSUME NEW x \in Node, NEW e \in Side PROVE t'.kid[x][e] = Sw(node, v, r.kid[Sw(node, v, x)][e])
    <3>1. CASE x = node
      <4>1. r.kid[v][e] = NULL /\ t'.kid[x][e] = NULL BY <3>1, <2>9, <2>10, <1>13, <1>16
      <4> QED BY <4>1, <3>1, <1>1, <1>16 DEF Sw
    <3>2. CASE x = v
      <4>1. r.kid[node][e] = NULL BY <1>13, <1>16
      <4>2. t'.kid[x][e] = NULL BY <3>2, <2>2, <2>3, <2>7, <2>10, <1>16, <1>18
      <4> QED BY <4>1, <4>2, <3>2, <1>1, <1>16, <1>18 DEF Sw
    <3>3. CASE x # node /\ x # v
      <4>1. t'.kid[x][e] = IF x = g /\ e = u THEN v ELSE c.kid[x][e] BY <3>3, <2>3, <2>7, <2>10
      <4>2. r.kid[x][e] = c.kid[x][e] BY <1>13
      <4>3. c.kid[x][e] = IF x = q /\ e = side THEN NULL ELSE t.kid[x][e] BY <1>12
      <4>4. c.kid[x][e] # v
        <5>1. CASE x \in V
          <6>1. t.kid[x][e] = v => x = q BY <5>1, <1>1, <1>16 DEF q
          <6>2. t.kid[q].left # NULL => t.kid[q].left # t.kid[q].right BY <1>2, <1>7 DEF Tree
          <6>3. ~(t.kid[q].left = v /\ t.kid[q].right = v) BY <6>2, <1>1, <1>16
          <6>4. t.kid[q][e] = v => e = side BY <6>3, <1>9 DEF Side
          <6> QED BY <6>1, <6>4, <4>3, <1>1, <1>16
        <5>2. CASE x \notin V BY <5>2, <4>3, <1>1, <1>16
        <5> QED BY <5>1, <5>2
      <4>5. c.kid[x][e] = node <=> x = g /\ e = u
        <5>1. c.kid[x][e] = node => t.kid[x][e] = node BY <4>3, <1>1, <1>16
        <5>2. c.kid[x][e] = node => x = g /\ e = u
          <6>1. CASE x \in V BY <6>1, <5>1, <2>4
          <6>2. CASE x \notin V BY <6>2, <5>1, <1>1, <1>16
          <6> QED BY <6>1, <6>2
        <5>3. x = g /\ e = u => t.kid[x][e] = node BY <2>2, <1>1
        <5>4. x = g /\ e = u => ~(x = q /\ e = side) BY <5>3, <1>9, <1>18
        <5> QED BY <5>2, <5>3, <5>4, <4>3
      <4> QED BY <4>1, <4>2, <4>4, <4>5, <3>3 DEF Sw
    <3> QED BY <3>1, <3>2, <3>3
  <2>15. Relabelled(t', r, node, v) BY <2>11, <2>12, <2>13, <2>14 DEF Relabelled
  <2> QED BY <2>10, <2>15, <1>14, <1>15 DEF v
<1> QED BY <1>17, <1>18

----------------------------------------------------------------------------
\* An erasure of the last node leaves nothing.
LEMMA CutOnly ==
  ASSUME PrioTreeAssumption, PrioInv, Cut, t.par[LastLeaf] = NULL
  PROVE  LastLeaf = node /\ Shape(t') /\ In(t') = {}
<1> DEFINE V == In(t)
           v == LastLeaf
           c0 == ChangeChild(t, v, NULL, NULL)
           c == FlipUp(c0, NULL)
<1>1. /\ Shape(t) /\ node \in V /\ Balance(t, {}) /\ V \subseteq Node /\ NULL \notin Node /\ t \in Links
  <2>1. Shape(t) /\ node \in V /\ Balance(t, {}) BY DEF Cut, PrioInv, Stale
  <2> QED BY <2>1, ShapeFacts
<1>2. PICK D, M : Tree(t, V, D, M) BY <1>1 DEF Shape
<1>3. /\ \A x \in V : t.par[x] # NULL => \E d \in Side : t.kid[t.par[x]][d] = x
      /\ \A x \in V : t.par[x] = NULL => x = t.root
      /\ \A x \in Node \ V : t.par[x] = x /\ ~t.heavy[x] /\ \A d \in Side : t.kid[x][d] = NULL
      /\ t.heavy \in [Node -> BOOLEAN]
  BY <1>1, <1>2, ShapeFacts DEF Tree, Links
<1>4. \A x \in Node : t.heavy[x] => t.kid[x].left # NULL BY <1>1, <1>3, LeafBits
<1>5. v \in V /\ ~t.heavy[v] /\ t.kid[v].right = NULL
  <2>1. t.root # NULL BY <1>1, NoRoot
  <2> QED BY <2>1, <1>1, <1>2, <1>4, LastLeafIs
<1>6. \A d \in Side : t.kid[v][d] = NULL BY <1>1, <1>5, LeafBits DEF Side
<1>7. V = {v}
  <2>1. ASSUME NEW x \in V, t.par[x] \in {v} \union {NULL} PROVE x \in {v}
    <3>1. t.par[x] = v => x = NULL BY <1>3, <1>5, <1>6, <1>1
    <3>2. x # NULL BY <1>1
    <3>3. t.par[x] = NULL BY <2>1, <3>1, <3>2
    <3> QED BY <3>3, <1>3, <1>5
  <2>2. V \subseteq {v} BY <2>1, <1>2, FromRoot
  <2> QED BY <2>2, <1>5
<1>8. v = node BY <1>1, <1>7
<1>9. t' = [ClearLinks(c, node) EXCEPT !.heavy[node] = FALSE]
  <2>1. t' = [ClearLinks(IF v = node THEN FlipUp(ChangeChild(t, v, NULL, t.par[v]), t.par[v])
                         ELSE ChangeChild(
                                [FlipUp(ChangeChild(t, v, NULL, t.par[v]), t.par[v]) EXCEPT
                                    !.par[v] = FlipUp(ChangeChild(t, v, NULL, t.par[v]), t.par[v]).par[node],
                                    !.heavy[v] = FlipUp(ChangeChild(t, v, NULL, t.par[v]), t.par[v]).heavy[node]],
                                node, v, FlipUp(ChangeChild(t, v, NULL, t.par[v]), t.par[v]).par[node]),
                         node) EXCEPT !.heavy[node] = FALSE]
    BY Zenon DEF Cut
  <2>2. t.par[v] = NULL OBVIOUS
  <2>3. FlipUp(ChangeChild(t, v, NULL, t.par[v]), t.par[v]) = c BY <2>2
  <2> HIDE DEF v, c
  <2> QED BY <2>1, <2>3, <1>8
<1> HIDE DEF v
<1>10. c0 = [t EXCEPT !.root = NULL] BY DEF ChangeChild
<1>11. c0 \in Links /\ c0.root = NULL /\ c0.par = t.par /\ c0.kid = t.kid /\ c0.heavy = t.heavy
  <2> HIDE DEF c0
  <2> QED BY <1>1, <1>10 DEF Links
<1> HIDE DEF c0
<1>12. c = [c0 EXCEPT !.heavy = [x \in Node |-> c0.heavy[x] # (x \in Above(t, V, NULL))]]
  BY <1>2, <1>11, FlipUpIs
<1> HIDE DEF c
<1>13. c \in Links /\ c.root = NULL /\ c.par = t.par /\ c.kid = t.kid
  BY <1>11, <1>12 DEF Links
<1>14. \A x \in Node : c.heavy[x] <=> t.heavy[x]
  <2> DEFINE h == [x \in Node |-> c0.heavy[x] # (x \in Above(t, V, NULL))]
  <2>1. c.heavy = h BY <1>11, <1>12 DEF Links
  <2>2. \A x \in Node : h[x] <=> t.heavy[x] BY <1>3, <1>11 DEF Above
  <2> QED BY <2>1, <2>2
<1>15. NoKids \in [Side -> Node \union {NULL}] /\ \A d \in Side : NoKids[d] = NULL BY DEF NoKids
<1>16. t' = [[c EXCEPT !.par[node] = node, !.kid[node] = NoKids] EXCEPT !.heavy[node] = FALSE]
  BY <1>9 DEF ClearLinks
<1>17. /\ t' \in Links /\ t'.root = NULL
       /\ \A x \in Node : t'.par[x] = IF x = node THEN node ELSE c.par[x]
       /\ \A x \in Node : t'.kid[x] = IF x = node THEN NoKids ELSE c.kid[x]
       /\ \A x \in Node : t'.heavy[x] = IF x = node THEN FALSE ELSE c.heavy[x]
  BY <1>1, <1>13, <1>15, <1>16 DEF Links
<1>18. \A x \in Node : x # node => x \notin V BY <1>7, <1>8
<1>19. \A x \in Node : t'.par[x] = x /\ ~t'.heavy[x] /\ \A d \in Side : t'.kid[x][d] = NULL
  <2> TAKE x \in Node
  <2>1. CASE x = node
    <3>1. t'.par[x] = x /\ t'.kid[x] = NoKids BY <1>17, <2>1
    <3>2. t'.heavy[x] = FALSE BY <1>17, <2>1
    <3> QED BY <3>1, <3>2, <1>15
  <2>2. CASE x # node
    <3>1. t'.par[x] = t.par[x] /\ t'.kid[x] = t.kid[x] BY <1>13, <1>17, <2>2
    <3>2. t'.heavy[x] = c.heavy[x] BY <1>17, <2>2
    <3>3. ~t.heavy[x] /\ x \in Node \ V BY <1>3, <1>18, <2>2
    <3>4. ~c.heavy[x] BY <3>3, <1>14
    <3> QED BY <3>1, <3>2, <3>3, <3>4, <1>3
  <2> QED BY <2>1, <2>2
<1>20. In(t') = {} BY <1>19 DEF In
<1>21. Tree(t', {}, [x \in {} |-> 0], 0) BY <1>17, <1>19 DEF Tree
<1> QED BY <1>8, <1>17, <1>19, <1>20, <1>21 DEF Shape, v

LEMMA CutStep == ASSUME PrioTreeAssumption, PrioInv, Cut PROVE PrioInv' /\ In(t') = In(t) \ {node}
<1> DEFINE V == In(t)
           v == LastLeaf
<1>1. /\ Shape(t) /\ node \in V /\ Balance(t, {}) /\ prio \in [Node -> Prio] /\ SinkFits(t, prio, node)
      /\ t.kid[node].left = NULL /\ prio' = [prio EXCEPT ![node] = Lowest]
      /\ pc' = (IF v = node THEN "idle" ELSE "up") /\ node' = (IF v = node THEN NULL ELSE v)
  <2>1. Shape(t) /\ node \in V /\ Balance(t, {}) /\ prio \in [Node -> Prio] /\ SinkFits(t, prio, node)
    BY DEF Cut, PrioInv, OrderInv, Stale
  <2>2. /\ t.kid[node].left = NULL /\ prio' = [prio EXCEPT ![node] = Lowest]
        /\ IF v = node THEN Return ELSE Start("up", v)
    BY Zenon DEF Cut
  <2> QED BY <2>1, <2>2 DEF Return, Start
<1>2. prio' \in [Node -> Prio] /\ \A x \in Node : x # node => prio'[x] = prio[x] BY <1>1, LowestIs
<1>3. Stale' = {} BY <1>1 DEF Stale
<1>4. CASE t.par[v] = NULL
  <2>1. v = node /\ Shape(t') /\ In(t') = {} BY <1>4, CutOnly
  <2>2. Balance(t', {}) BY <2>1 DEF Balance
  <2>3. In(t') = V \ {node}
    <3>1. PICK D, M : Tree(t, V, D, M) BY <1>1 DEF Shape
    <3>2. \A x \in V : x = t.root \/ \E d \in Side : t.kid[t.par[x]][d] = x BY <3>1 DEF Tree
    <3>3. \A d \in Side : t.kid[node][d] = NULL BY <1>1, LeafBits DEF Side
    <3>4. ASSUME NEW x \in V, t.par[x] \in {node} \union {NULL} PROVE x \in {node}
      <4>1. NULL \notin V BY NodeAssumption DEF In
      <4>2. t.par[x] # node
        <5>1. t.par[x] # NULL => \E d \in Side : t.kid[t.par[x]][d] = x BY <3>1 DEF Tree
        <5>2. node # NULL BY <1>1, <4>1
        <5> QED BY <5>1, <5>2, <3>3, <4>1
      <4>3. t.par[x] = NULL => x = t.root BY <3>1 DEF Tree
      <4>4. t.par[node] = NULL => node = t.root BY <3>1, <1>1 DEF Tree
      <4> QED BY <3>4, <4>2, <4>3, <4>4, <2>1, <1>4
    <3>5. V \subseteq {node} BY <3>1, <3>4, FromRoot
    <3> QED BY <3>5, <2>1
  <2>4. \A x \in In(t') : Fits(t', prio', x) BY <2>1
  <2> QED BY <1>1, <1>2, <1>3, <2>1, <2>2, <2>3, <2>4 DEF PrioInv, OrderInv
<1>5. CASE t.par[v] # NULL
  <2>1. PICK r : /\ Shape(r) /\ In(r) = V \ {v} /\ Balance(r, {})
                 /\ \A x \in In(r) : r.par[x] = t.par[x]
                 /\ t' \in Links /\ Relabelled(t', r, node, v)
    BY <1>5, CutLast
  <2>2. /\ V \subseteq Node /\ NULL \notin Node /\ \A x \in V : t.par[x] \in V \union {NULL}
        /\ \A x \in V : t.par[x] # NULL => \E d \in Side : t.kid[t.par[x]][d] = x
    BY <1>1, ShapeFacts
  <2>3. \A d \in Side : t.kid[node][d] = NULL BY <1>1, LeafBits DEF Side
  <2>4. \A x \in V : t.par[x] # node
    <3> TAKE x \in V
    <3>1. node # NULL /\ x # NULL BY <1>1, <2>2
    <3> QED BY <3>1, <2>2, <2>3
  <2>5. v \in V /\ \A x \in V : t.par[x] # v
    <3>1. PICK D, M : Tree(t, V, D, M) BY <1>1 DEF Shape
    <3>2. t.root # NULL BY <1>1, NoRoot
    <3>3. \A x \in Node : t.heavy[x] => t.kid[x].left # NULL
      <4>1. \A x \in Node \ V : ~t.heavy[x] BY <1>1 DEF Shape
      <4> QED BY <4>1, <1>1, LeafBits
    <3>4. v \in V /\ ~t.heavy[v] /\ t.kid[v].right = NULL BY <3>1, <3>2, <3>3, <1>1, LastLeafIs DEF Shape
    <3>5. \A d \in Side : t.kid[v][d] = NULL BY <3>4, <1>1, LeafBits DEF Side
    <3> HIDE DEF v
    <3>6. ASSUME NEW x \in V PROVE t.par[x] # v
      <4>1. v # NULL /\ x # NULL BY <3>4, <2>2
      <4> QED BY <4>1, <2>2, <3>5
    <3> QED BY <3>4, <3>6
  <2> HIDE DEF v
  <2>6. v \in Node /\ node \in Node BY <1>1, <2>2, <2>5
  <2>7. Shape(t') /\ In(t') = Moved(In(r), node, v) /\ Balance(t', {x \in In(t') : Sw(node, v, x) \in {}})
    BY <2>1, <2>6, RelabelShape
  <2>8. In(t') = V \ {node} BY <2>1, <2>2, <2>5, <2>6, <2>7, <1>1 DEF Moved, Sw
  <2>9. Balance(t', {}) BY <2>7 DEF Balance
  <2>10. \A x \in V \ {node, v} : t'.par[x] = t.par[x]
    <3> TAKE x \in V \ {node, v}
    <3>1. t'.par[x] = Sw(node, v, r.par[Sw(node, v, x)]) BY <2>1, <2>2 DEF Relabelled
    <3>2. r.par[x] = t.par[x] BY <2>1
    <3> QED BY <3>1, <3>2, <2>4, <2>5 DEF Sw
  <2>11. \A x \in V \ {node, v} : Fits(t', prio', x)
    <3> TAKE x \in V \ {node, v}
    <3>1. t.par[x] # node /\ t.par[x] \in V \union {NULL} BY <2>2, <2>4
    <3>2. t.par[x] # NULL => prio[x] <= prio[t.par[x]] BY <3>1, <1>1 DEF SinkFits, Fits
    <3>3. t.par[x] # NULL => prio'[x] = prio[x] /\ prio'[t.par[x]] = prio[t.par[x]] BY <3>1, <2>2, <1>2
    <3>4. t'.par[x] = t.par[x] BY <2>10
    <3> QED BY <3>2, <3>3, <3>4 DEF Fits
  <2>12. CASE v = node
    <3>1. \A x \in In(t') : Fits(t', prio', x) BY <2>8, <2>11, <2>12
    <3> QED BY <2>7, <2>8, <2>9, <2>12, <3>1, <1>1, <1>2, <1>3 DEF PrioInv, OrderInv
  <2>13. CASE v # node
    <3>1. \A x \in In(t') : x # v => Fits(t', prio', x) BY <2>8, <2>11
    <3>2. \A x \in In(t') : t'.par[x] # v
      <4>1. \A x \in V \ {node, v} : t'.par[x] # v BY <2>5, <2>10
      <4>2. t'.par[v] # v BY <2>5, <2>8, <2>13 DEF In
      <4> QED BY <4>1, <4>2, <2>8
    <3>3. UpFits(t', prio', v) BY <3>1, <3>2 DEF UpFits, Bridged
    <3>4. v \in In(t') BY <2>5, <2>8, <2>13
    <3> QED BY <2>7, <2>8, <2>9, <2>13, <3>3, <3>4, <1>1, <1>2, <1>3 DEF PrioInv, OrderInv
  <2> QED BY <2>12, <2>13
<1> QED BY <1>4, <1>5

LEMMA NextPrioInv == ASSUME PrioTreeAssumption, PrioInv, [Next]_vars PROVE PrioInv'
<1>1. CASE UNCHANGED vars
  BY <1>1 DEF vars, PrioInv, OrderInv, Stale
<1>2. CASE \E n \in Node, p \in Prio : Insert(n, p)
  <2>1. PICK n \in Node, p \in Prio : Insert(n, p) BY <1>2
  <2>2. CASE t.root = NULL BY <2>1, <2>2, InsertFirst
  <2>3. CASE t.root # NULL BY <2>1, <2>3, InsertBelow
  <2> QED BY <2>2, <2>3
<1> QED
  BY <1>1, <1>2, EraseStep, AdjustStep, RiseStep, RiseEndsStep, UpStep, EndsStep, DownStep, SinkStep, CutStep
    DEF Next

\* What the invariant promises.
LEMMA InvPromises ==
  ASSUME PrioTreeAssumption, PrioInv
  PROVE  PrioTypeOK /\ PrioOrder /\ WeightBits /\ LinksMirror /\ Linked(t) = In(t)
<1>1. PICK D, M : Tree(t, In(t), D, M) BY DEF PrioInv, Shape
<1>2. Linked(t) = In(t) BY <1>1, LinkedIs
<1>3. /\ In(t) \subseteq Node /\ t \in Links /\ prio \in [Node -> Nat]
      /\ \A x \in In(t) : t.par[x] \in In(t) \union {NULL}
      /\ Shape(t)
  BY PrioNat, ShapeFacts DEF PrioInv
<1>4. PrioTypeOK
  <2>1. LinksType(t) /\ t.heavy \in [Node -> BOOLEAN] BY <1>3 DEF Links, LinksType
  <2>2. node \in Node \union {NULL} BY <1>3 DEF PrioInv
  <2> QED BY <2>1, <2>2 DEF PrioTypeOK, PrioInv
<1>5. PrioOrder
  <2> SUFFICES ASSUME pc = "idle", NEW n \in In(t), t.par[n] # NULL PROVE ~Over(n, t.par[n])
    BY <1>2 DEF PrioOrder
  <2>1. prio[n] <= prio[t.par[n]] BY DEF PrioInv, OrderInv, Fits
  <2>2. prio[n] \in Nat /\ prio[t.par[n]] \in Nat BY <1>3
  <2> QED BY <2>1, <2>2 DEF Over
<1>6. WeightBits
  <2> SUFFICES ASSUME pc # "insert", NEW n \in In(t)
               PROVE  Weight(t.kid[n].left) - Weight(t.kid[n].right) = IF t.heavy[n] THEN 1 ELSE 0
    BY <1>2 DEF WeightBits
  <2>1. \A x : Weight(x) = Weights(t)[x] BY Zenon DEF Weight, Weights
  <2>2. Balance(t, {}) BY DEF PrioInv, Stale
  <2>3. Weights(t)[t.kid[n].left] - Weights(t)[t.kid[n].right] = IF t.heavy[n] THEN 1 ELSE 0
    BY <2>2 DEF Balance
  <2> QED BY <2>1, <2>3
<1>7. LinksMirror
  <2>1. /\ t.root # NULL => t.par[t.root] = NULL
        /\ \A n \in In(t), d \in Side : t.kid[n][d] # NULL => t.par[t.kid[n][d]] = n
    BY <1>1 DEF Tree
  <2>2. \A n \in Node \ In(t) : IsClear(t, n) BY DEF In, IsClear
  <2> QED BY <2>1, <2>2, <1>2 DEF LinksMirror, Mirrored
<1> QED BY <1>2, <1>4, <1>5, <1>6, <1>7

(* Whatever is inserted, adjusted and erased: between calls no node is     *)
(* above its parent, so the root is a maximum; the bit of a node is the    *)
(* difference of the weights below it, so that the next and the last leaf  *)
(* are where the walks of prio_insert and prio_erase end; and child and    *)
(* parent pointers agree in every step of their loops.                     *)
THEOREM PrioTreeStaysRight ==
    PrioTreeAssumption => (Spec => [](PrioTypeOK /\ PrioOrder /\ WeightBits /\ LinksMirror))
<1> SUFFICES ASSUME PrioTreeAssumption
             PROVE  Spec => [](PrioTypeOK /\ PrioOrder /\ WeightBits /\ LinksMirror)
  OBVIOUS
<1>1. Init => PrioInv BY InitPrioInv
<1>2. PrioInv /\ [Next]_vars => PrioInv' BY NextPrioInv
<1>3. PrioInv => PrioTypeOK /\ PrioOrder /\ WeightBits /\ LinksMirror BY InvPromises
<1> QED BY <1>1, <1>2, <1>3, PTL DEF Spec

----------------------------------------------------------------------------
LEMMA SameCardinality == \A x : S!Cardinality(x) = Cardinality(x)
    BY DEF S!Cardinality, Cardinality

\* The nodes held change by at most the node of a call.
LEMMA CallIsOfOne ==
  ASSUME pc = "idle", NEW n, Leaving' \subseteq Holds' /\ Leaving' \in {{}, {n}},
         Leaving' # {} => Holds' = Holds,
         Holds' = Holds \union {n} \/ Holds' = Holds
  PROVE  S!Call
<1>1. S!Put \in {{}, {n}} /\ S!Taken \in {{}, {n}} BY DEF S!Put, S!Taken
<1>2. Cardinality({}) = 0 /\ Cardinality({n}) = 1 BY FS_EmptySet, FS_Singleton
<1> DEFINE w == Leaving'
<1>3. w \in {{}, {n}} OBVIOUS
<1> HIDE DEF w
<1>4. Cardinality(S!Put) <= 1 /\ Cardinality(S!Taken) <= 1 /\ Cardinality(w) <= 1
  BY <1>1, <1>2, <1>3
<1>5. Cardinality(Leaving') <= 1 BY <1>4 DEF w
<1>6. Doing = "idle" BY DEF Doing
<1> QED BY <1>4, <1>5, <1>6, SameCardinality DEF S!Call

LEMMA StepImplements ==
  ASSUME PrioTreeAssumption, PrioInv, [Next]_vars
  PROVE  [S!Next]_S!vars
<1>1. PrioInv' BY NextPrioInv
<1>2. Holds = In(t) /\ Holds' = In(t')
  <2>1. Holds = In(t) BY InvPromises DEF Holds
  <2>2. ASSUME PrioInv' PROVE Linked(t') = In(t')
    <3>1. PICK D, M : Tree(t', In(t'), D, M) BY <2>2 DEF PrioInv, Shape
    <3> QED BY <3>1, LinkedIs
  <2> QED BY <1>1, <2>1, <2>2 DEF Holds
<1>3. ASSUME NEW n \in Node, Erase(n) PROVE S!Call
  <2>1. t' = t /\ pc = "idle" /\ Leaving' = {n} /\ n \in In(t)
    BY <1>3 DEF Erase, Start, Leaving, In, IsClear
  <2> QED BY <1>2, <2>1, CallIsOfOne
<1>4. ASSUME NEW n \in Node, NEW p \in Prio, Adjust(n, p) PROVE S!Call
  <2>1. t' = t /\ pc = "idle" /\ Leaving' = {} BY <1>4 DEF Adjust, Start, Leaving
  <2> QED BY <1>2, <2>1, CallIsOfOne
<1>5. ASSUME NEW n \in Node, NEW p \in Prio, Insert(n, p) PROVE S!Call
  <2>1. pc = "idle" /\ Leaving' = {} BY <1>5 DEF Insert, Start, Leaving
  <2>2. In(t') = In(t) \union {n} BY <1>5, InsertFirst, InsertBelow
  <2> QED BY <1>2, <2>1, <2>2, CallIsOfOne
<1>6. CASE Rise \/ RiseEnds \/ Up \/ UpEnds \/ Down \/ DownEnds \/ Sink
  <2>1. In(t') = In(t)
    BY <1>6, RiseStep, RiseEndsStep, UpStep, DownStep, SinkStep DEF UpEnds, DownEnds
  <2>2. pc # "idle" /\ pc' \in {"idle", "insert", "up", "down", "sink"}
    BY <1>1, <1>6 DEF PrioInv, Rise, RiseEnds, Up, UpEnds, Down, DownEnds, Sink
  <2>3. Leaving' = Leaving /\ (pc' = "idle" => Leaving' = {})
    BY <1>6 DEF Rise, RiseEnds, Up, UpEnds, Down, DownEnds, Sink, Return, Leaving
  <2> QED BY <1>2, <2>1, <2>2, <2>3 DEF S!Next, S!Work, Doing
<1>7. CASE Cut
  <2>1. In(t') = In(t) \ {node} BY <1>7, CutStep
  <2>2. pc = "sink" /\ pc' \in {"idle", "up"} BY <1>7, Zenon DEF Cut, Return, Start
  <2> QED BY <1>2, <2>1, <2>2 DEF S!Next, S!Work, Doing, Leaving
<1>8. CASE UNCHANGED vars
  BY <1>2, <1>8 DEF vars, S!vars, Doing, Leaving
<1> QED BY <1>3, <1>4, <1>5, <1>6, <1>7, <1>8 DEF Next, S!Next

(* A priority tree is a set of nodes: prio_insert puts one in, prio_erase  *)
(* takes that one out, in the step that cuts a leaf off, prio_adjust       *)
(* neither; and while nodes exchange their places none is lost.            *)
THEOREM PrioTreeIsNodeSet == PrioTreeAssumption => (Spec => ImplementsNodeSet)
<1> SUFFICES ASSUME PrioTreeAssumption PROVE Spec => ImplementsNodeSet
  OBVIOUS
<1>1. Init => PrioInv /\ S!Init
  <2> SUFFICES ASSUME Init PROVE PrioInv /\ S!Init
    OBVIOUS
  <2>1. PrioInv /\ Holds = In(t) BY InitPrioInv, InvPromises DEF Holds
  <2>2. In(t) = {} BY DEF Init, In
  <2> QED BY <2>1, <2>2 DEF Init, S!Init, Doing, Leaving
<1>2. PrioInv /\ [Next]_vars => PrioInv' /\ [S!Next]_S!vars
  BY NextPrioInv, StepImplements
<1> QED BY <1>1, <1>2, PTL DEF Spec, ImplementsNodeSet, S!Spec
==============================================================================
