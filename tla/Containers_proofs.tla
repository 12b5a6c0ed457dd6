-------------------------- MODULE Containers_proofs --------------------------
(***************************************************************************)
(* What is proved of the lists, the heap and the priority tree, for the    *)
(* containers side by side that the runs check.                            *)
(*                                                                         *)
(* The pointers of the circular lists of list.h follow the sequences that  *)
(* the lists mean, for any heads and entries (Rings), and an iteration is  *)
(* where the sequence says (Iterating).  Putting a path into a ring and    *)
(* taking one out are lemmas about one ring; the operations cite them.     *)
(* The same is then proved of the lists with a single pointer as head,     *)
(* with chains of pointers in place of rings (Chains, HIterating).  Heap   *)
(* and priority tree have modules of their own, of which the last part     *)
(* takes over the results.                                                 *)
(***************************************************************************)
EXTENDS MCContainers, TLAPS

(* The cell at place i of the ring of head h that holds q: the head is at  *)
(* 0 and again after the last.                                             *)
At(h, q, i) == IF i \in 1 .. Len(q) THEN q[i] ELSE h
Ring(nx, pv, h, q) ==
    \A i \in 0 .. Len(q) :
        nx[At(h, q, i)] = At(h, q, i + 1) /\ pv[At(h, q, i + 1)] = At(h, q, i)
Path(nx, pv, p) ==
    \A i \in 1 .. Len(p) - 1 : nx[p[i]] = p[i + 1] /\ pv[p[i + 1]] = p[i]

(* r is q with p put in after place k. *)
Spliced(q, k, p, r) ==
    /\ Len(r) = Len(q) + Len(p)
    /\ \A i \in 1 .. k : r[i] = q[i]
    /\ \A i \in 1 .. Len(p) : r[k + i] = p[i]
    /\ \A i \in k + 1 .. Len(q) : r[Len(p) + i] = q[i]

(* Where the places of q and p are in the ring of r. *)
Places(h, q, k, p, r) ==
    /\ \A i \in 0 .. k : At(h, r, i) = At(h, q, i)
    /\ \A i \in 1 .. Len(p) : At(h, r, k + i) = p[i]
    /\ \A i \in k + 1 .. Len(q) + 1 : At(h, r, Len(p) + i) = At(h, q, i)
LEMMA AtSpliced ==
    ASSUME NEW h, NEW q, NEW p, NEW r, Len(q) \in Nat, Len(p) \in Nat,
           NEW k \in 0 .. Len(q), Spliced(q, k, p, r)
    PROVE  Places(h, q, k, p, r)
<1>1. Len(r) = Len(q) + Len(p)
    BY DEF Spliced
<1>2. \A i \in 0 .. k : At(h, r, i) = At(h, q, i)
    BY <1>1 DEF Spliced, At
<1>3. \A i \in 1 .. Len(p) : At(h, r, k + i) = p[i]
    <2> SUFFICES ASSUME NEW i \in 1 .. Len(p) PROVE At(h, r, k + i) = p[i]
        OBVIOUS
    <2>1. k + i \in 1 .. Len(r) /\ r[k + i] = p[i]
        BY <1>1 DEF Spliced
    <2> QED BY <2>1 DEF At
<1>4. \A i \in k + 1 .. Len(q) + 1 : At(h, r, Len(p) + i) = At(h, q, i)
    <2> SUFFICES ASSUME NEW i \in k + 1 .. Len(q) + 1
                 PROVE  At(h, r, Len(p) + i) = At(h, q, i)
        OBVIOUS
    <2>1. CASE i <= Len(q)
        <3>1. Len(p) + i \in 1 .. Len(r) /\ i \in 1 .. Len(q) /\ r[Len(p) + i] = q[i]
            BY <1>1, <2>1 DEF Spliced
        <3> QED BY <3>1 DEF At
    <2>2. CASE i = Len(q) + 1
        <3>1. Len(p) + i \notin 1 .. Len(r) /\ i \notin 1 .. Len(q)
            BY <1>1, <2>2
        <3> QED BY <3>1 DEF At
    <2> QED BY <2>1, <2>2
<1> QED BY <1>2, <1>3, <1>4 DEF Places

(* A path of cells is put between place k of a ring and the next. *)
PutInto(nx, pv, nx2, pv2, h, q, k, p) ==
    /\ Path(nx2, pv2, p)
    /\ nx2[At(h, q, k)] = p[1] /\ pv2[p[1]] = At(h, q, k)
    /\ nx2[p[Len(p)]] = At(h, q, k + 1) /\ pv2[At(h, q, k + 1)] = p[Len(p)]
    /\ \A i \in 0 .. Len(q) : i # k =>
          /\ nx2[At(h, q, i)] = nx[At(h, q, i)]
          /\ pv2[At(h, q, i + 1)] = pv[At(h, q, i + 1)]
LEMMA RingSplice ==
    ASSUME NEW nx, NEW pv, NEW nx2, NEW pv2, NEW h, NEW q, NEW p, NEW r,
           Len(q) \in Nat, Len(p) \in Nat \ {0}, NEW k \in 0 .. Len(q), Spliced(q, k, p, r),
           Ring(nx, pv, h, q), PutInto(nx, pv, nx2, pv2, h, q, k, p)
    PROVE  Ring(nx2, pv2, h, r)
<1> USE DEF PutInto
<1> DEFINE m == Len(p)
<1>0. m \in Nat \ {0} /\ k \in Nat /\ Len(q) \in Nat /\ k <= Len(q) /\ Len(r) = Len(q) + m
    BY DEF Spliced
<1>1. /\ \A i \in 0 .. k : At(h, r, i) = At(h, q, i)
      /\ \A i \in 1 .. m : At(h, r, k + i) = p[i]
      /\ \A i \in k + 1 .. Len(q) + 1 : At(h, r, m + i) = At(h, q, i)
    <2>1. Places(h, q, k, p, r)
        BY AtSpliced
    <2> QED BY <2>1 DEF Places
<1>2. \A i \in 1 .. m - 1 : nx2[p[i]] = p[i + 1] /\ pv2[p[i + 1]] = p[i]
    BY DEF Path
<1>3. nx2[p[m]] = At(h, q, k + 1) /\ pv2[At(h, q, k + 1)] = p[m]
    OBVIOUS
<1> HIDE DEF m
<1>4. \A i \in 0 .. Len(q) : i # k => nx2[At(h, q, i)] = At(h, q, i + 1)
                                      /\ pv2[At(h, q, i + 1)] = At(h, q, i)
    BY DEF Ring
<1>5. ASSUME NEW i \in 0 .. Len(r)
      PROVE  nx2[At(h, r, i)] = At(h, r, i + 1) /\ pv2[At(h, r, i + 1)] = At(h, r, i)
    <2>1. CASE i < k
        <3>1. At(h, r, i) = At(h, q, i) /\ At(h, r, i + 1) = At(h, q, i + 1)
            BY <1>0, <1>1, <2>1
        <3> QED BY <3>1, <1>0, <1>4, <2>1
    <2>2. CASE i = k
        <3>1. At(h, r, i) = At(h, q, k) /\ At(h, r, i + 1) = p[1]
            BY <1>0, <1>1, <2>2
        <3> QED BY <3>1
    <2>3. CASE i > k /\ i < k + m
        <3>1. PICK j \in 1 .. m - 1 : i = k + j
            <4>1. i - k \in 1 .. m - 1 /\ i = k + (i - k)
                BY <1>0, <2>3
            <4> QED BY <4>1
        <3>2. At(h, r, i) = p[j] /\ At(h, r, i + 1) = p[j + 1]
            <4>1. j \in 1 .. m /\ j + 1 \in 1 .. m
                BY <1>0
            <4>2. i + 1 = k + (j + 1)
                BY <1>0, <3>1
            <4> QED BY <4>1, <4>2, <3>1, <1>1
        <3> QED BY <3>2, <1>2
    <2>4. CASE i = k + m
        <3>1. m \in 1 .. m /\ i + 1 = m + (k + 1) /\ k + 1 \in k + 1 .. Len(q) + 1
            BY <1>0, <2>4
        <3>2. At(h, r, i) = p[m] /\ At(h, r, i + 1) = At(h, q, k + 1)
            BY <3>1, <1>1, <2>4
        <3> QED BY <3>2, <1>3
    <2>5. CASE i > k + m
        <3>1. PICK j \in k + 1 .. Len(q) : i = m + j
            <4>1. i - m \in k + 1 .. Len(q) /\ i = m + (i - m)
                BY <1>0, <2>5
            <4> QED BY <4>1
        <3>2. At(h, r, i) = At(h, q, j) /\ At(h, r, i + 1) = At(h, q, j + 1)
            <4>1. /\ j \in k + 1 .. Len(q) + 1 /\ j + 1 \in k + 1 .. Len(q) + 1
                  /\ i + 1 = m + (j + 1)
                BY <1>0, <3>1
            <4> QED BY <4>1, <3>1, <1>1
        <3> QED BY <3>2, <1>4
    <2> QED BY <1>0, <2>1, <2>2, <2>3, <2>4, <2>5
<1> QED BY <1>5 DEF Ring

(* The cell after place k of a ring is taken out. *)
LEMMA RingRemove ==
    ASSUME NEW nx, NEW pv, NEW nx2, NEW pv2, NEW h, NEW q, NEW p, NEW r,
           Len(r) \in Nat, Len(p) = 1, NEW k \in 0 .. Len(r), Spliced(r, k, p, q),
           Ring(nx, pv, h, q),
           nx2[At(h, q, k)] = At(h, q, k + 2), pv2[At(h, q, k + 2)] = At(h, q, k),
           \A i \in 0 .. Len(q) : i # k /\ i # k + 1 =>
               /\ nx2[At(h, q, i)] = nx[At(h, q, i)]
               /\ pv2[At(h, q, i + 1)] = pv[At(h, q, i + 1)]
    PROVE  Ring(nx2, pv2, h, r)
<1>0. k \in Nat /\ Len(r) \in Nat /\ k <= Len(r) /\ Len(q) = Len(r) + 1
    BY DEF Spliced
<1>1. /\ \A i \in 0 .. k : At(h, q, i) = At(h, r, i)
      /\ \A i \in k + 1 .. Len(r) + 1 : At(h, q, i + 1) = At(h, r, i)
    <2>1. Places(h, r, k, p, q)
        BY AtSpliced
    <2>2. \A i \in k + 1 .. Len(r) + 1 : Len(p) + i = i + 1
        BY <1>0
    <2> QED BY <2>1, <2>2 DEF Places
<1>2. \A i \in 0 .. Len(q) : i # k /\ i # k + 1 =>
          nx2[At(h, q, i)] = At(h, q, i + 1) /\ pv2[At(h, q, i + 1)] = At(h, q, i)
    BY DEF Ring
<1>3. ASSUME NEW i \in 0 .. Len(r)
      PROVE  nx2[At(h, r, i)] = At(h, r, i + 1) /\ pv2[At(h, r, i + 1)] = At(h, r, i)
    <2>1. CASE i < k
        <3>1. At(h, r, i) = At(h, q, i) /\ At(h, r, i + 1) = At(h, q, i + 1)
            BY <1>0, <1>1, <2>1
        <3> QED BY <3>1, <1>0, <1>2, <2>1
    <2>2. CASE i = k
        <3>1. At(h, r, k) = At(h, q, k) /\ At(h, r, k + 1) = At(h, q, k + 2)
            <4>1. k + 1 \in k + 1 .. Len(r) + 1 /\ (k + 1) + 1 = k + 2 /\ k \in 0 .. k
                BY <1>0
            <4> QED BY <4>1, <1>1
        <3> QED BY <3>1, <2>2
    <2>3. CASE i > k
        <3>1. At(h, r, i) = At(h, q, i + 1) /\ At(h, r, i + 1) = At(h, q, (i + 1) + 1)
            <4>1. i \in k + 1 .. Len(r) + 1 /\ i + 1 \in k + 1 .. Len(r) + 1
                BY <1>0, <2>3
            <4> QED BY <4>1, <1>1
        <3> QED BY <3>1, <1>0, <1>2, <2>3
    <2> QED BY <1>0, <2>1, <2>2, <2>3
<1> QED BY <1>3 DEF Ring

----------------------------------------------------------------------------
(* The pointers of all cells, and the assignments to them.                 *)
Links == [next : [L!Cell -> L!Cell \union {L!POISON1}],
          prev : [L!Cell -> L!Cell \union {L!POISON2}]]

LEMMA Cells ==
    /\ ListHead \subseteq L!Cell /\ Entry \subseteq L!Cell
    /\ \A h \in ListHead, e \in Entry : h # e
    /\ L!POISON1 \notin L!Cell /\ L!POISON2 \notin L!Cell /\ "lost" \notin L!Cell
    /\ C!NULL \notin L!Cell
<1>1. Head(L!LOST) = "lost"
    BY DEF L!LOST
<1> QED BY <1>1, CellAssumption DEF L!Cell

(* m is l after l.next[a] = b and l.prev[c] = d; after c is put between a  *)
(* and b.                                                                  *)
Assigned(l, m, a, b, c, d) ==
    /\ m \in Links /\ m.next[a] = b /\ m.prev[c] = d
    /\ \A x \in L!Cell : x # a => m.next[x] = l.next[x]
    /\ \A x \in L!Cell : x # c => m.prev[x] = l.prev[x]
PutBetween(l, m, c, a, b) ==
    /\ m \in Links /\ m.next[a] = c /\ m.next[c] = b /\ m.prev[b] = c /\ m.prev[c] = a
    /\ \A x \in L!Cell : x # a /\ x # c => m.next[x] = l.next[x]
    /\ \A x \in L!Cell : x # b /\ x # c => m.prev[x] = l.prev[x]

LEMMA InitHeadIs ==
    ASSUME NEW l \in Links, NEW a \in L!Cell
    PROVE  Assigned(l, L!InitHead(l, a), a, a, a, a)
    BY DEF Assigned, Links, L!InitHead

LEMMA PoisonedIs ==
    ASSUME NEW l \in Links, NEW a \in L!Cell
    PROVE  Assigned(l, L!Poisoned(l, a), a, L!POISON1, a, L!POISON2)
    BY DEF Assigned, Links, L!Poisoned

LEMMA JoinIs ==
    ASSUME NEW l \in Links, NEW a \in L!Cell, NEW b \in L!Cell
    PROVE  Assigned(l, L!Join(l, a, b), a, b, b, a)
    BY DEF Assigned, Links, L!Join

LEMMA AddBetweenIs ==
    ASSUME NEW l \in Links, NEW c \in L!Cell, NEW a \in L!Cell, NEW b \in L!Cell, c # a, c # b
    PROVE  PutBetween(l, L!AddBetween(l, c, a, b), c, a, b)
    BY DEF PutBetween, Links, L!AddBetween

----------------------------------------------------------------------------
(***************************************************************************)
(* The invariant of the pointers l and the contents Q of all lists: the    *)
(* rings are as in RingsAreSequences, no entry is on two lists or twice on *)
(* one, and an entry whose next is itself is initialised.                  *)
(***************************************************************************)
Contents == [ListHead -> Seq(Entry) \union {L!LOST}]
Live(Q) == {h \in ListHead : Q[h] # L!LOST}
Members(q) == {q[i] : i \in 1 .. Len(q)}
Used(Q) == UNION {Members(Q[h]) : h \in Live(Q)}
Sound(q) == q \in Seq(Entry) /\ \A i, j \in 1 .. Len(q) : q[i] = q[j] => i = j
Rings(l, Q) ==
    /\ l \in Links /\ Q \in Contents
    /\ \A h \in Live(Q) : Sound(Q[h]) /\ Ring(l.next, l.prev, h, Q[h])
    /\ \A g, h \in Live(Q) : g # h => Members(Q[g]) \intersect Members(Q[h]) = {}
    /\ \A e \in Entry : l.next[e] = e => l.prev[e] = e

LEMMA NotLost == ASSUME NEW q \in Seq(Entry) PROVE q # L!LOST
<1> SUFFICES ASSUME q = L!LOST PROVE FALSE
    OBVIOUS
<1>1. Len(q) = 1 /\ q[1] = "lost"
    BY DEF L!LOST
<1>2. q[1] \in Entry
    BY <1>1
<1> QED BY <1>1, <1>2, Cells

(* The places of a ring are different cells, but for the head at its ends. *)
RingCells(h, q) ==
    /\ Len(q) \in Nat /\ At(h, q, 0) = h /\ At(h, q, Len(q) + 1) = h
    /\ \A i \in 1 .. Len(q) : q[i] \in Entry /\ q[i] \in Members(q) /\ At(h, q, i) = q[i]
    /\ \A i \in 0 .. Len(q) + 1 : At(h, q, i) \in L!Cell /\ At(h, q, i) \in {h} \union Members(q)
    /\ \A i, j \in 0 .. Len(q) : At(h, q, i) = At(h, q, j) => i = j
    /\ \A i, j \in 1 .. Len(q) + 1 : At(h, q, i) = At(h, q, j) => i = j
LEMMA CellsOfRing ==
    ASSUME NEW h \in ListHead, NEW q, Sound(q) PROVE RingCells(h, q)
<1>1. Len(q) \in Nat /\ \A i \in 1 .. Len(q) : q[i] \in Entry /\ q[i] # h
    BY Cells DEF Sound
<1>2. \A i \in 1 .. Len(q) : q[i] \in L!Cell /\ q[i] \in Members(q)
    BY <1>1, Cells DEF Members
<1>3. \A i, j \in 1 .. Len(q) : q[i] = q[j] => i = j
    BY DEF Sound
<1> QED BY <1>1, <1>2, <1>3, Cells DEF RingCells, At

(* What a list has when no cell of its ring is assigned to. *)
LEMMA RingKept ==
    ASSUME NEW l, NEW Q, Rings(l, Q), NEW m, NEW W,
           \A c \in L!Cell \ W : m.next[c] = l.next[c] /\ m.prev[c] = l.prev[c],
           NEW g \in Live(Q), g \notin W, Members(Q[g]) \intersect W = {}
    PROVE  Ring(m.next, m.prev, g, Q[g])
<1>1. g \in ListHead /\ Sound(Q[g]) /\ Ring(l.next, l.prev, g, Q[g])
    BY DEF Rings, Live
<1>2. RingCells(g, Q[g])
    BY <1>1, CellsOfRing
<1>3. \A i \in 0 .. Len(Q[g]) + 1 : At(g, Q[g], i) \in L!Cell \ W
    BY <1>2 DEF RingCells
<1>4. ASSUME NEW i \in 0 .. Len(Q[g])
      PROVE  /\ m.next[At(g, Q[g], i)] = l.next[At(g, Q[g], i)]
             /\ m.prev[At(g, Q[g], i + 1)] = l.prev[At(g, Q[g], i + 1)]
    <2>1. i \in 0 .. Len(Q[g]) + 1 /\ i + 1 \in 0 .. Len(Q[g]) + 1
        BY <1>2 DEF RingCells
    <2> QED BY <2>1, <1>3
<1> QED BY <1>1, <1>4 DEF Ring

(* An entry on a ring is not next to itself. *)
LEMMA RingApart ==
    ASSUME NEW nx, NEW pv, NEW h \in ListHead, NEW q, Sound(q), Ring(nx, pv, h, q),
           NEW e \in Members(q)
    PROVE  nx[e] # e
<1>1. PICK k \in 1 .. Len(q) : e = q[k]
    BY DEF Members
<1>2. RingCells(h, q)
    BY CellsOfRing
<1>3. nx[At(h, q, k)] = At(h, q, k + 1) /\ e = At(h, q, k)
    <2>1. k \in 0 .. Len(q)
        BY <1>2 DEF RingCells
    <2> QED BY <1>1, <1>2, <2>1 DEF RingCells, Ring
<1>4. k \in 1 .. Len(q) + 1 /\ k + 1 \in 1 .. Len(q) + 1 /\ k # k + 1
    BY <1>2 DEF RingCells
<1> QED BY <1>2, <1>3, <1>4 DEF RingCells

(* The cells an operation may assign to: those of the lists T that it      *)
(* works on, and entries X that are on no list.                            *)
Touched(Q, T, X) == T \union X \union UNION {Members(Q[g]) : g \in T \intersect Live(Q)}
OnlyTouched(l, Q, m, Q2, T, X) ==
    /\ m \in Links /\ Q2 \in Contents
    /\ T \in SUBSET ListHead /\ X \in SUBSET Entry /\ X \intersect Used(Q) = {}
    /\ \A g \in ListHead \ T : Q2[g] = Q[g]
    /\ \A c \in L!Cell \ Touched(Q, T, X) : m.next[c] = l.next[c] /\ m.prev[c] = l.prev[c]
    /\ \A g \in T \intersect Live(Q2) :
          /\ Sound(Q2[g]) /\ Ring(m.next, m.prev, g, Q2[g])
          /\ Members(Q2[g]) \subseteq Touched(Q, T, X)
    /\ \A g, h \in T \intersect Live(Q2) :
          g # h => Members(Q2[g]) \intersect Members(Q2[h]) = {}
    /\ \A e \in (Entry \intersect Touched(Q, T, X)) \ Used(Q2) :
          m.next[e] = e => m.prev[e] = e
LEMMA RingsAfter ==
    ASSUME NEW l, NEW Q, Rings(l, Q), NEW m, NEW Q2, NEW T, NEW X,
           OnlyTouched(l, Q, m, Q2, T, X)
    PROVE  Rings(m, Q2)
<1> USE DEF OnlyTouched
<1>1. ASSUME NEW g \in Live(Q2) \ T
      PROVE  /\ g \in Live(Q) /\ Q2[g] = Q[g]
             /\ g \notin Touched(Q, T, X) /\ Members(Q[g]) \intersect Touched(Q, T, X) = {}
    <2>1. g \in Live(Q) /\ Q2[g] = Q[g] /\ g \in ListHead
        BY DEF Live
    <2>2. \A h \in Live(Q) : Members(Q[h]) \subseteq Entry
        BY DEF Rings, Sound, Members
    <2>3. g \notin Touched(Q, T, X)
        BY <2>1, <2>2, Cells DEF Touched
    <2>4. \A h \in T \intersect Live(Q) : Members(Q[g]) \intersect Members(Q[h]) = {}
        BY <2>1 DEF Rings
    <2>5. Members(Q[g]) \subseteq Used(Q) /\ Members(Q[g]) \subseteq Entry
        BY <2>1, <2>2 DEF Used
    <2>6. Members(Q[g]) \intersect Touched(Q, T, X) = {}
        BY <2>4, <2>5, Cells DEF Touched
    <2> QED BY <2>1, <2>3, <2>6
<1>2. ASSUME NEW g \in Live(Q2)
      PROVE  Sound(Q2[g]) /\ Ring(m.next, m.prev, g, Q2[g])
    <2>1. CASE g \in T
        BY <2>1
    <2>2. CASE g \notin T
        <3>1. g \in Live(Q) /\ Q2[g] = Q[g] /\ Sound(Q[g])
            BY <1>1, <2>2 DEF Rings
        <3>2. Ring(m.next, m.prev, g, Q[g])
            BY <1>1, <2>2, RingKept
        <3> QED BY <3>1, <3>2
    <2> QED BY <2>1, <2>2
<1>3. ASSUME NEW g \in Live(Q2), NEW h \in Live(Q2), g # h
      PROVE  Members(Q2[g]) \intersect Members(Q2[h]) = {}
    <2>1. CASE g \in T /\ h \in T
        BY <1>3, <2>1
    <2>2. CASE g \notin T /\ h \notin T
        BY <1>1, <1>3, <2>2 DEF Rings
    <2>3. CASE g \in T /\ h \notin T
        BY <1>1, <2>3
    <2>4. CASE g \notin T /\ h \in T
        BY <1>1, <2>4
    <2> QED BY <2>1, <2>2, <2>3, <2>4
<1>4. ASSUME NEW e \in Entry, m.next[e] = e PROVE m.prev[e] = e
    <2>1. e \notin Used(Q2)
        <3> SUFFICES ASSUME NEW g \in Live(Q2), e \in Members(Q2[g]) PROVE FALSE
            BY DEF Used
        <3> QED BY <1>2, <1>4, RingApart DEF Live
    <2>2. CASE e \in Touched(Q, T, X)
        BY <1>4, <2>1, <2>2
    <2>3. CASE e \notin Touched(Q, T, X)
        BY <1>4, <2>3, Cells DEF Rings
    <2> QED BY <2>2, <2>3
<1> QED BY <1>2, <1>3, <1>4 DEF Rings

(* The members of a sequence that another was put into. *)
LEMMA SplicedMembers ==
    ASSUME NEW q, NEW p, NEW r, Sound(q), Sound(p), r \in Seq(Entry),
           Members(q) \intersect Members(p) = {},
           NEW k \in 0 .. Len(q), Spliced(q, k, p, r)
    PROVE  Sound(r) /\ Members(r) = Members(q) \union Members(p)
<1>0. /\ Len(q) \in Nat /\ Len(p) \in Nat /\ Len(r) = Len(q) + Len(p) /\ k \in Nat /\ k <= Len(q)
      /\ \A i \in 1 .. k : r[i] = q[i]
      /\ \A i \in 1 .. Len(p) : r[k + i] = p[i]
      /\ \A i \in k + 1 .. Len(q) : r[Len(p) + i] = q[i]
    BY DEF Sound, Spliced
<1> DEFINE m == Len(p)
           InFirst(x) == x \in 1 .. k /\ r[x] = q[x]
           InMiddle(x) == \E d \in 1 .. m : x = k + d /\ r[x] = p[d]
           InLast(x) == \E d \in k + 1 .. Len(q) : x = m + d /\ r[x] = q[d]
<1>1. ASSUME NEW i \in 1 .. Len(r) PROVE InFirst(i) \/ InMiddle(i) \/ InLast(i)
    <2>1. CASE i <= k
        BY <1>0, <2>1
    <2>2. CASE i > k /\ i <= k + m
        <3>1. i - k \in 1 .. m /\ k + (i - k) = i
            BY <1>0, <2>2
        <3> QED BY <3>1, <1>0
    <2>3. CASE i > k + m
        <3>1. i - m \in k + 1 .. Len(q) /\ m + (i - m) = i
            BY <1>0, <2>3
        <3> QED BY <3>1, <1>0
    <2> QED BY <1>0, <2>1, <2>2, <2>3
<1>2. Members(r) \subseteq Members(q) \union Members(p)
    <2> SUFFICES ASSUME NEW i \in 1 .. Len(r) PROVE r[i] \in Members(q) \union Members(p)
        BY DEF Members
    <2>1. CASE InFirst(i)
        BY <1>0, <2>1 DEF Members
    <2>2. CASE InMiddle(i)
        BY <2>2 DEF Members
    <2>3. CASE InLast(i)
        <3>1. PICK d \in k + 1 .. Len(q) : r[i] = q[d]
            BY <2>3
        <3>2. d \in 1 .. Len(q)
            BY <1>0, <3>1
        <3> QED BY <3>1, <3>2 DEF Members
    <2> QED BY <1>1, <2>1, <2>2, <2>3
<1>3. Members(q) \subseteq Members(r)
    <2> SUFFICES ASSUME NEW i \in 1 .. Len(q) PROVE q[i] \in Members(r)
        BY DEF Members
    <2>1. CASE i <= k
        <3>1. i \in 1 .. Len(r) /\ r[i] = q[i]
            BY <1>0, <2>1
        <3> QED BY <3>1 DEF Members
    <2>2. CASE i > k
        <3>1. m + i \in 1 .. Len(r) /\ r[m + i] = q[i]
            BY <1>0, <2>2
        <3> QED BY <3>1 DEF Members
    <2> QED BY <1>0, <2>1, <2>2
<1>4. Members(p) \subseteq Members(r)
    <2> SUFFICES ASSUME NEW i \in 1 .. m PROVE p[i] \in Members(r)
        BY DEF Members
    <2>1. k + i \in 1 .. Len(r) /\ r[k + i] = p[i]
        BY <1>0
    <2> QED BY <2>1 DEF Members
<1>5. \A i \in 1 .. Len(q), j \in 1 .. m : q[i] # p[j]
    BY DEF Members
<1>6. ASSUME NEW i \in 1 .. Len(r), NEW j \in 1 .. Len(r), r[i] = r[j] PROVE i = j
    <2>0. (InFirst(i) \/ InMiddle(i) \/ InLast(i)) /\ (InFirst(j) \/ InMiddle(j) \/ InLast(j))
        BY <1>1
    <2>1. \A x, y \in 1 .. Len(q) : q[x] = q[y] => x = y
        BY DEF Sound
    <2>2. \A x, y \in 1 .. m : p[x] = p[y] => x = y
        BY DEF Sound
    <2>3. ASSUME NEW x \in 1 .. Len(r), InFirst(x) \/ InLast(x)
          PROVE  \E d \in 1 .. Len(q) : /\ x = IF d <= k THEN d ELSE m + d
                                        /\ r[x] = q[d]
        BY <1>0, <2>3
    <2>4. CASE (InFirst(i) \/ InLast(i)) /\ (InFirst(j) \/ InLast(j))
        <3>1. PICK d \in 1 .. Len(q) : (i = IF d <= k THEN d ELSE m + d) /\ r[i] = q[d]
            BY <2>3, <2>4
        <3>2. PICK f \in 1 .. Len(q) : (j = IF f <= k THEN f ELSE m + f) /\ r[j] = q[f]
            BY <2>3, <2>4
        <3>3. d = f
            BY <3>1, <3>2, <1>6, <2>1
        <3> QED BY <3>1, <3>2, <3>3
    <2>5. CASE InMiddle(i) /\ InMiddle(j)
        BY <1>6, <2>2, <2>5
    <2>6. CASE InMiddle(i) /\ (InFirst(j) \/ InLast(j))
        BY <1>5, <1>6, <2>3, <2>6
    <2>7. CASE InMiddle(j) /\ (InFirst(i) \/ InLast(i))
        BY <1>5, <1>6, <2>3, <2>7
    <2> QED BY <2>0, <2>4, <2>5, <2>6, <2>7
<1> QED BY <1>2, <1>3, <1>4, <1>6 DEF Sound

(* __list_add of an entry that is on no list. *)
LEMMA AddRings ==
    ASSUME NEW l, NEW Q, Rings(l, Q), NEW h \in Live(Q), NEW e \in Entry, e \notin Used(Q),
           NEW k \in 0 .. Len(Q[h]), NEW r \in Seq(Entry), Spliced(Q[h], k, <<e>>, r)
    PROVE  Rings(L!AddBetween(l, e, At(h, Q[h], k), At(h, Q[h], k + 1)), [Q EXCEPT ![h] = r])
<1> DEFINE q == Q[h]
           a == At(h, q, k)
           b == At(h, q, k + 1)
           m == L!AddBetween(l, e, a, b)
           Q2 == [Q EXCEPT ![h] = r]
<1>1. /\ h \in ListHead /\ l \in Links /\ Q \in Contents /\ Sound(q)
      /\ Ring(l.next, l.prev, h, q) /\ e \notin Members(q)
    BY DEF Rings, Live, Used
<1>2. RingCells(h, q)
    BY <1>1, CellsOfRing
<1>3. /\ k \in 0 .. Len(q) /\ k \in 0 .. Len(q) + 1 /\ k + 1 \in 1 .. Len(q) + 1
      /\ k + 1 \in 0 .. Len(q) + 1
    BY <1>2 DEF RingCells
<1>4. a \in L!Cell /\ b \in L!Cell /\ e \in L!Cell /\ a # e /\ b # e
    BY <1>1, <1>2, <1>3, Cells DEF RingCells
<1> HIDE DEF a, b
<1>5. PutBetween(l, m, e, a, b)
    BY <1>1, <1>4, AddBetweenIs
<1> HIDE DEF m
<1>6. /\ m.next[a] = e /\ m.next[e] = b /\ m.prev[b] = e /\ m.prev[e] = a /\ m \in Links
      /\ \A x \in L!Cell : x # a /\ x # e => m.next[x] = l.next[x]
      /\ \A x \in L!Cell : x # b /\ x # e => m.prev[x] = l.prev[x]
    BY <1>5 DEF PutBetween
<1> DEFINE p == <<e>>
<1>p. Len(p) = 1 /\ p[1] = e /\ Sound(p) /\ Members(p) = {e} /\ Spliced(q, k, p, r)
    BY DEF Sound, Members
<1> HIDE DEF p
<1>7. Ring(m.next, m.prev, h, r)
    <2>1. ASSUME NEW i \in 0 .. Len(q), i # k
          PROVE  /\ m.next[At(h, q, i)] = l.next[At(h, q, i)]
                 /\ m.prev[At(h, q, i + 1)] = l.prev[At(h, q, i + 1)]
        <3>1. i \in 0 .. Len(q) + 1 /\ i + 1 \in 0 .. Len(q) + 1 /\ i + 1 \in 1 .. Len(q) + 1
              /\ i + 1 # k + 1
            BY <1>2, <2>1 DEF RingCells
        <3>2. At(h, q, i) # a /\ At(h, q, i + 1) # b
            BY <1>2, <1>3, <2>1, <3>1 DEF RingCells, a, b
        <3>3. At(h, q, i) # e /\ At(h, q, i + 1) # e
            BY <1>1, <1>2, <3>1, Cells DEF RingCells
        <3> QED BY <1>2, <1>6, <3>1, <3>2, <3>3 DEF RingCells
    <2>2. PutInto(l.next, l.prev, m.next, m.prev, h, q, k, p)
        BY <1>6, <1>p, <2>1 DEF PutInto, Path, a, b
    <2>3. Len(q) \in Nat /\ Len(p) \in Nat \ {0}
        BY <1>2, <1>p DEF RingCells
    <2> HIDE DEF q
    <2> QED BY <1>1, <1>3, <1>p, <2>2, <2>3, RingSplice
<1>8. Sound(r) /\ Members(r) = Members(q) \union {e}
    <2>1. Members(q) \intersect Members(p) = {}
        BY <1>1, <1>p
    <2> HIDE DEF q
    <2> QED BY <1>1, <1>3, <1>p, <2>1, SplicedMembers
<1>9. Q2 \in Contents /\ Q2[h] = r /\ (\A g \in ListHead \ {h} : Q2[g] = Q[g])
    BY <1>1 DEF Contents
<1>10. Touched(Q, {h}, {e}) = {h, e} \union Members(q)
    BY DEF Touched
<1>11. a \in Touched(Q, {h}, {e}) /\ b \in Touched(Q, {h}, {e})
    BY <1>2, <1>3, <1>10 DEF RingCells, a, b
<1>12. ASSUME NEW c \in L!Cell \ Touched(Q, {h}, {e})
       PROVE  m.next[c] = l.next[c] /\ m.prev[c] = l.prev[c]
    BY <1>6, <1>10, <1>11
<1>13. \A x \in (Entry \intersect Touched(Q, {h}, {e})) \ Used(Q2) : FALSE
    <2>1. r # L!LOST => h \in Live(Q2)
        BY <1>1, <1>9 DEF Live
    <2>2. r # L!LOST
        BY NotLost
    <2> QED BY <1>1, <1>8, <1>9, <1>10, <2>1, <2>2, Cells DEF Used
<1> HIDE DEF Q2, q
<1>14. OnlyTouched(l, Q, m, Q2, {h}, {e})
    <2>1. {h} \in SUBSET ListHead /\ {e} \in SUBSET Entry /\ {e} \intersect Used(Q) = {}
        BY <1>1
    <2> QED BY <1>6, <1>7, <1>8, <1>9, <1>10, <1>12, <1>13, <2>1 DEF OnlyTouched
<1> QED BY <1>14, RingsAfter DEF m, Q2, q, a, b

(* The members of a sequence without the one after place k. *)
LEMMA RemovedMembers ==
    ASSUME NEW q, NEW r \in Seq(Entry), NEW e, Sound(q),
           NEW k \in 0 .. Len(r), Spliced(r, k, <<e>>, q)
    PROVE  Sound(r) /\ Members(r) = Members(q) \ {e} /\ k + 1 \in 1 .. Len(q) /\ q[k + 1] = e
<1> DEFINE p == <<e>>
           To(i) == IF i <= k THEN i ELSE i + 1
<1>0. /\ Len(r) \in Nat /\ k \in Nat /\ k <= Len(r) /\ Len(q) = Len(r) + 1
      /\ \A i \in 1 .. k : q[i] = r[i]
      /\ q[k + 1] = e
      /\ \A i \in k + 1 .. Len(r) : q[i + 1] = r[i]
    <2>0. Len(p) = 1 /\ p[1] = e
        OBVIOUS
    <2> HIDE DEF p
    <2>1. /\ Len(q) = Len(r) + Len(p)
          /\ \A i \in 1 .. k : q[i] = r[i]
          /\ \A i \in 1 .. Len(p) : q[k + i] = p[i]
          /\ \A i \in k + 1 .. Len(r) : q[Len(p) + i] = r[i]
        BY DEF Spliced, p
    <2>2. \A i \in k + 1 .. Len(r) : Len(p) + i = i + 1
        BY <2>0
    <2> QED BY <2>0, <2>1, <2>2
<1>1. \A i \in 1 .. Len(r) : To(i) \in 1 .. Len(q) /\ To(i) # k + 1 /\ r[i] = q[To(i)]
    BY <1>0
<1>2. \A i, j \in 1 .. Len(r) : To(i) = To(j) => i = j
    BY <1>0
<1>3. \A x \in 1 .. Len(q) : x # k + 1 => \E i \in 1 .. Len(r) : x = To(i)
    <2> SUFFICES ASSUME NEW x \in 1 .. Len(q), x # k + 1 PROVE \E i \in 1 .. Len(r) : x = To(i)
        OBVIOUS
    <2>1. CASE x <= k
        <3>1. x \in 1 .. Len(r) /\ To(x) = x
            BY <1>0, <2>1
        <3> QED BY <3>1
    <2>2. CASE x > k
        <3>1. x - 1 \in 1 .. Len(r) /\ To(x - 1) = x
            BY <1>0, <2>2
        <3> QED BY <3>1
    <2> QED BY <1>0, <2>1, <2>2
<1> HIDE DEF To
<1>4. \A i, j \in 1 .. Len(q) : q[i] = q[j] => i = j
    BY DEF Sound
<1>5. Sound(r)
    BY <1>1, <1>2, <1>4 DEF Sound
<1>6. k + 1 \in 1 .. Len(q)
    BY <1>0
<1>7. Members(r) \subseteq Members(q) \ {e}
    <2> SUFFICES ASSUME NEW i \in 1 .. Len(r) PROVE r[i] \in Members(q) /\ r[i] # e
        BY DEF Members
    <2> QED BY <1>0, <1>1, <1>4, <1>6 DEF Members
<1>8. Members(q) \ {e} \subseteq Members(r)
    <2> SUFFICES ASSUME NEW x \in 1 .. Len(q), q[x] # e PROVE q[x] \in Members(r)
        BY DEF Members
    <2>1. PICK i \in 1 .. Len(r) : x = To(i)
        BY <1>0, <1>3
    <2> QED BY <2>1, <1>1 DEF Members
<1> QED BY <1>0, <1>5, <1>6, <1>7, <1>8

(* __list_del of an entry on a list, which keeps its own pointers. *)
LEMMA DropRings ==
    ASSUME NEW l, NEW Q, Rings(l, Q), NEW h \in Live(Q), NEW r \in Seq(Entry),
           NEW k \in 0 .. Len(r), NEW e, Spliced(r, k, <<e>>, Q[h])
    PROVE  /\ Rings(L!Unlink(l, e), [Q EXCEPT ![h] = r])
           /\ e \in Entry /\ e \notin Used([Q EXCEPT ![h] = r])
<1> DEFINE q == Q[h]
           a == At(h, q, k)
           b == At(h, q, k + 2)
           m == L!Unlink(l, e)
           Q2 == [Q EXCEPT ![h] = r]
<1>1. /\ h \in ListHead /\ l \in Links /\ Q \in Contents /\ Sound(q)
      /\ Ring(l.next, l.prev, h, q)
    BY DEF Rings, Live
<1>2. RingCells(h, q)
    BY <1>1, CellsOfRing
<1>3. Sound(r) /\ Members(r) = Members(q) \ {e} /\ k + 1 \in 1 .. Len(q) /\ q[k + 1] = e
    <2> HIDE DEF q
    <2>1. Spliced(r, k, <<e>>, q)
        BY DEF q
    <2> QED BY <2>1, <1>1, RemovedMembers
<1>4. /\ e \in Entry /\ e \in Members(q) /\ At(h, q, k + 1) = e
      /\ k \in Nat /\ Len(r) \in Nat /\ Len(q) = Len(r) + 1
    <2>1. Len(<<e>>) = 1
        OBVIOUS
    <2>2. Len(q) = Len(r) + 1 /\ Len(r) \in Nat
        BY <2>1 DEF Spliced
    <2> QED BY <1>2, <1>3, <2>2 DEF RingCells
<1>5. l.next[e] = b /\ l.prev[e] = a
    <2>1. k \in 0 .. Len(q) /\ k + 1 \in 0 .. Len(q) /\ (k + 1) + 1 = k + 2
        BY <1>3, <1>4
    <2> QED BY <1>1, <1>4, <2>1 DEF Ring
<1>6. a \in L!Cell /\ b \in L!Cell /\ a \in {h} \union Members(q) /\ b \in {h} \union Members(q)
    <2>1. k \in 0 .. Len(q) + 1 /\ k + 2 \in 0 .. Len(q) + 1
        BY <1>3, <1>4
    <2> QED BY <1>2, <2>1 DEF RingCells
<1>7. Assigned(l, m, a, b, b, a)
    <2>1. m = L!Join(l, a, b)
        BY <1>5 DEF L!Unlink
    <2> HIDE DEF m, a, b
    <2> QED BY <2>1, <1>1, <1>6, JoinIs
<1> HIDE DEF m
<1>8. ASSUME NEW i \in 0 .. Len(q), i # k, i # k + 1
      PROVE  /\ m.next[At(h, q, i)] = l.next[At(h, q, i)]
             /\ m.prev[At(h, q, i + 1)] = l.prev[At(h, q, i + 1)]
    <2>1. /\ i + 1 \in 1 .. Len(q) + 1 /\ k + 2 \in 1 .. Len(q) + 1 /\ i + 1 # k + 2
          /\ i \in 0 .. Len(q) + 1 /\ i + 1 \in 0 .. Len(q) + 1 /\ k \in 0 .. Len(q)
        BY <1>3, <1>4, <1>8
    <2>2. At(h, q, i) # a /\ At(h, q, i + 1) # b
        BY <1>2, <1>8, <2>1 DEF RingCells
    <2> QED BY <1>2, <1>7, <2>1, <2>2 DEF Assigned, RingCells
<1>9. Ring(m.next, m.prev, h, r)
    <2> DEFINE p == <<e>>
    <2>1. Len(p) = 1 /\ Len(r) \in Nat /\ Spliced(r, k, p, q)
        BY <1>4
    <2>2. m.next[At(h, q, k)] = At(h, q, k + 2) /\ m.prev[At(h, q, k + 2)] = At(h, q, k)
        BY <1>7 DEF Assigned
    <2> HIDE DEF p, q
    <2> QED BY <1>1, <1>8, <2>1, <2>2, RingRemove
<1>10. /\ Q2 \in Contents /\ Q2[h] = r /\ (\A g \in ListHead \ {h} : Q2[g] = Q[g])
       /\ r # L!LOST /\ h \in Live(Q2)
    <2>1. r # L!LOST
        BY NotLost
    <2>2. Q2 \in Contents /\ Q2[h] = r /\ (\A g \in ListHead \ {h} : Q2[g] = Q[g])
        BY <1>1 DEF Contents
    <2> QED BY <1>1, <2>1, <2>2 DEF Live
<1>11. Touched(Q, {h}, {}) = {h} \union Members(q)
    BY DEF Touched
<1>12. e \notin Used(Q2)
    <2> SUFFICES ASSUME NEW g \in Live(Q2), g # h PROVE e \notin Members(Q2[g])
        BY <1>3, <1>10 DEF Used
    <2>1. g \in Live(Q) /\ Q2[g] = Q[g]
        BY <1>10 DEF Live
    <2> QED BY <2>1, <1>4 DEF Rings
<1>13. m.next[e] # e
    <2>1. l.next[e] # e
        <3> HIDE DEF q
        <3> QED BY <1>1, <1>4, RingApart
    <2>2. a # e
        <3>1. k \in 0 .. Len(q) /\ k + 1 \in 0 .. Len(q) /\ k # k + 1
            BY <1>3, <1>4
        <3> QED BY <3>1, <1>2, <1>4 DEF RingCells
    <2> QED BY <2>1, <2>2, <1>4, <1>7, Cells DEF Assigned
<1> HIDE DEF Q2, q, a, b
<1>14. OnlyTouched(l, Q, m, Q2, {h}, {})
    <2>1. {h} \in SUBSET ListHead /\ {} \in SUBSET Entry /\ {} \intersect Used(Q) = {}
        BY <1>1
    <2>2. ASSUME NEW c \in L!Cell \ Touched(Q, {h}, {})
          PROVE  m.next[c] = l.next[c] /\ m.prev[c] = l.prev[c]
        BY <1>6, <1>7, <1>11 DEF Assigned
    <2>3. ASSUME NEW x \in (Entry \intersect Touched(Q, {h}, {})) \ Used(Q2)
          PROVE  m.next[x] = x => m.prev[x] = x
        <3>1. x \in Members(q) /\ x \notin Members(r)
            BY <1>1, <1>10, <1>11, Cells DEF Used
        <3> QED BY <3>1, <1>3, <1>13
    <2> QED BY <1>3, <1>7, <1>9, <1>10, <1>11, <2>1, <2>2, <2>3 DEF OnlyTouched, Assigned
<1>15. Rings(m, Q2)
    BY <1>14, RingsAfter
<1> QED BY <1>4, <1>12, <1>15 DEF m, Q2

(* Assignments to a cell that is on no list, a head without one included.  *)
LEMMA AssignOff ==
    ASSUME NEW l, NEW Q, Rings(l, Q), NEW c \in L!Cell, c \notin Used(Q), c \notin Live(Q),
           NEW m, NEW a, NEW b, Assigned(l, m, c, a, c, b), a = c => b = c
    PROVE  Rings(m, Q)
<1> DEFINE T == {c} \intersect ListHead
           X == {c} \intersect Entry
<1>1. Touched(Q, T, X) = {c}
    BY DEF Touched, L!Cell
<1>2. T \intersect Live(Q) = {}
    OBVIOUS
<1>3. \A x \in L!Cell \ {c} : m.next[x] = l.next[x] /\ m.prev[x] = l.prev[x]
    BY DEF Assigned
<1>4. m \in Links /\ m.next[c] = a /\ m.prev[c] = b
    BY DEF Assigned
<1>5. T \in SUBSET ListHead /\ X \in SUBSET Entry /\ X \intersect Used(Q) = {}
    OBVIOUS
<1> HIDE DEF T, X
<1>6. OnlyTouched(l, Q, m, Q, T, X)
    BY <1>1, <1>2, <1>3, <1>4, <1>5 DEF OnlyTouched, Rings
<1> QED BY <1>6, RingsAfter

----------------------------------------------------------------------------
(* What the operators on sequences do. *)
LEMMA ConcatIs ==
    ASSUME NEW p \in Seq(Entry), NEW q \in Seq(Entry)
    PROVE  /\ p \o q \in Seq(Entry) /\ Len(p \o q) = Len(p) + Len(q)
           /\ Len(p) \in Nat /\ Len(q) \in Nat
           /\ \A j \in 1 .. Len(p) : (p \o q)[j] = p[j]
           /\ \A j \in 1 .. Len(q) : (p \o q)[Len(p) + j] = q[j]
    OBVIOUS

LEMMA SplicedEnds ==
    ASSUME NEW q \in Seq(Entry), NEW p \in Seq(Entry)
    PROVE  /\ p \o q \in Seq(Entry) /\ Spliced(q, 0, p, p \o q)
           /\ q \o p \in Seq(Entry) /\ Spliced(q, Len(q), p, q \o p)
    BY DEF Spliced

LEMMA SplicedAt ==
    ASSUME NEW q \in Seq(Entry), NEW e \in Entry, NEW i \in 1 .. Len(q) + 1
    PROVE  /\ L!InsertAt(q, i, e) \in Seq(Entry)
           /\ Spliced(q, i - 1, <<e>>, L!InsertAt(q, i, e))
<1> DEFINE a == SubSeq(q, 1, i - 1)
           b == SubSeq(q, i, Len(q))
           r == a \o <<e>> \o b
<1>1. Len(q) \in Nat /\ i \in Nat /\ i >= 1 /\ i <= Len(q) + 1
    OBVIOUS
<1>2. /\ a \in Seq(Entry) /\ Len(a) = i - 1 /\ \A j \in 1 .. i - 1 : a[j] = q[j]
    BY <1>1
<1>3. /\ b \in Seq(Entry) /\ Len(b) = Len(q) + 1 - i
      /\ \A j \in 1 .. Len(q) + 1 - i : b[j] = q[i + j - 1]
    BY <1>1
<1> HIDE DEF a, b
<1>4. /\ r \in Seq(Entry) /\ Len(r) = Len(q) + 1
      /\ \A j \in 1 .. i - 1 : r[j] = a[j]
      /\ r[i] = e
      /\ \A j \in 1 .. Len(q) + 1 - i : r[i + j] = b[j]
    <2> DEFINE f == a \o <<e>>
    <2>1. /\ f \in Seq(Entry) /\ Len(f) = i /\ f[i] = e
          /\ \A j \in 1 .. i - 1 : f[j] = a[j]
        BY <1>1, <1>2
    <2> HIDE DEF f
    <2>2. /\ r = f \o b /\ r \in Seq(Entry) /\ Len(r) = Len(f) + Len(b)
          /\ \A j \in 1 .. Len(f) : r[j] = f[j]
          /\ \A j \in 1 .. Len(b) : r[Len(f) + j] = b[j]
        BY <1>3, <2>1, ConcatIs DEF f
    <2> HIDE DEF r
    <2>3. \A j \in 1 .. i - 1 : j \in 1 .. Len(f) /\ r[j] = a[j]
        BY <1>1, <2>1, <2>2
    <2>4. r[i] = e /\ Len(r) = Len(q) + 1
        BY <1>1, <1>3, <2>1, <2>2
    <2> QED BY <1>1, <1>3, <2>1, <2>2, <2>3, <2>4
<1>5. \A j \in i .. Len(q) : r[1 + j] = q[j]
    <2> SUFFICES ASSUME NEW j \in i .. Len(q) PROVE r[1 + j] = q[j]
        OBVIOUS
    <2>1. j + 1 - i \in 1 .. Len(q) + 1 - i /\ i + (j + 1 - i) = 1 + j /\ i + (j + 1 - i) - 1 = j
        BY <1>1
    <2> QED BY <2>1, <1>3, <1>4
<1>6. r = L!InsertAt(q, i, e)
    BY DEF a, b, L!InsertAt
<1> HIDE DEF r
<1>7. Spliced(q, i - 1, <<e>>, r)
    <2>1. Len(<<e>>) = 1 /\ <<e>>[1] = e /\ (i - 1) + 1 = i
        BY <1>1
    <2> QED BY <2>1, <1>1, <1>2, <1>4, <1>5 DEF Spliced
<1> QED BY <1>4, <1>6, <1>7

LEMMA RemovedAt ==
    ASSUME NEW q \in Seq(Entry), NEW i \in 1 .. Len(q)
    PROVE  /\ L!RemoveAt(q, i) \in Seq(Entry) /\ i - 1 \in 0 .. Len(L!RemoveAt(q, i))
           /\ Spliced(L!RemoveAt(q, i), i - 1, <<q[i]>>, q)
<1> DEFINE a == SubSeq(q, 1, i - 1)
           b == SubSeq(q, i + 1, Len(q))
           r == a \o b
<1>1. Len(q) \in Nat /\ i \in Nat /\ i >= 1 /\ i <= Len(q)
    OBVIOUS
<1>2. /\ a \in Seq(Entry) /\ Len(a) = i - 1 /\ \A j \in 1 .. i - 1 : a[j] = q[j]
    BY <1>1
<1>3. /\ b \in Seq(Entry) /\ Len(b) = Len(q) - i
      /\ \A j \in 1 .. Len(q) - i : b[j] = q[i + j]
    BY <1>1
<1> HIDE DEF a, b
<1>4. /\ r \in Seq(Entry) /\ Len(r) = Len(q) - 1
      /\ \A j \in 1 .. i - 1 : r[j] = a[j]
      /\ \A j \in 1 .. Len(q) - i : r[(i - 1) + j] = b[j]
    <2>1. /\ r \in Seq(Entry) /\ Len(r) = Len(a) + Len(b)
          /\ \A j \in 1 .. Len(a) : r[j] = a[j]
          /\ \A j \in 1 .. Len(b) : r[Len(a) + j] = b[j]
        BY <1>2, <1>3, ConcatIs
    <2> HIDE DEF r
    <2> QED BY <1>1, <1>2, <1>3, <2>1
<1>5. \A j \in i .. Len(q) - 1 : q[1 + j] = r[j]
    <2> SUFFICES ASSUME NEW j \in i .. Len(q) - 1 PROVE q[1 + j] = r[j]
        OBVIOUS
    <2>1. j + 1 - i \in 1 .. Len(q) - i /\ (i - 1) + (j + 1 - i) = j /\ i + (j + 1 - i) = 1 + j
        BY <1>1
    <2> QED BY <2>1, <1>3, <1>4
<1>6. r = L!RemoveAt(q, i)
    BY DEF a, b, L!RemoveAt
<1> HIDE DEF r
<1>7. Spliced(r, i - 1, <<q[i]>>, q)
    <2>1. Len(<<q[i]>>) = 1 /\ <<q[i]>>[1] = q[i] /\ (i - 1) + 1 = i
        BY <1>1
    <2> QED BY <2>1, <1>1, <1>2, <1>4, <1>5 DEF Spliced
<1>8. i - 1 \in 0 .. Len(r)
    BY <1>1, <1>4
<1> QED BY <1>4, <1>6, <1>7, <1>8

----------------------------------------------------------------------------
(* The pointers of a cell on a ring. *)
LEMMA RingLinks ==
    ASSUME NEW l, NEW Q, Rings(l, Q), NEW h \in Live(Q)
    PROVE  /\ h \in ListHead /\ Sound(Q[h]) /\ Q[h] \in Seq(Entry) /\ Len(Q[h]) \in Nat
           /\ l.next[h] = At(h, Q[h], 1) /\ l.prev[h] = At(h, Q[h], Len(Q[h]))
           /\ \A i \in 1 .. Len(Q[h]) : /\ l.next[Q[h][i]] = At(h, Q[h], i + 1)
                                        /\ l.prev[Q[h][i]] = At(h, Q[h], i - 1)
<1> DEFINE q == Q[h]
<1>1. h \in ListHead /\ Sound(q) /\ Ring(l.next, l.prev, h, q) /\ q \in Seq(Entry)
    BY DEF Rings, Live, Sound
<1>2. RingCells(h, q)
    BY <1>1, CellsOfRing
<1>3. Len(q) \in Nat /\ At(h, q, 0) = h /\ At(h, q, Len(q) + 1) = h
    BY <1>2 DEF RingCells
<1>4. \A i \in 0 .. Len(q) :
        l.next[At(h, q, i)] = At(h, q, i + 1) /\ l.prev[At(h, q, i + 1)] = At(h, q, i)
    BY <1>1 DEF Ring
<1>5. ASSUME NEW i \in 1 .. Len(q)
      PROVE  l.next[q[i]] = At(h, q, i + 1) /\ l.prev[q[i]] = At(h, q, i - 1)
    <2>1. At(h, q, i) = q[i] /\ i \in 0 .. Len(q) /\ i - 1 \in 0 .. Len(q) /\ (i - 1) + 1 = i
        BY <1>3, <1>2 DEF RingCells
    <2> QED BY <2>1, <1>4
<1>6. l.next[h] = At(h, q, 1) /\ l.prev[h] = At(h, q, Len(q))
    <2>1. 0 \in 0 .. Len(q) /\ Len(q) \in 0 .. Len(q) /\ 0 + 1 = 1
        BY <1>3
    <2> QED BY <2>1, <1>3, <1>4
<1> QED BY <1>1, <1>3, <1>5, <1>6

(* list_add and list_add_tail at a head. *)
LEMMA AddEnds ==
    ASSUME NEW l, NEW Q, Rings(l, Q), NEW h \in Live(Q), NEW e \in Entry, e \notin Used(Q)
    PROVE  /\ Rings(L!AddAfter(l, e, h), [Q EXCEPT ![h] = <<e>> \o Q[h]])
           /\ Rings(L!AddBefore(l, e, h), [Q EXCEPT ![h] = Q[h] \o <<e>>])
<1> DEFINE q == Q[h]
           p == <<e>>
<1>1. /\ q \in Seq(Entry) /\ Len(q) \in Nat
      /\ l.next[h] = At(h, q, 0 + 1) /\ l.prev[h] = At(h, q, Len(q))
      /\ At(h, q, 0) = h /\ At(h, q, Len(q) + 1) = h
    BY RingLinks DEF At
<1>2. /\ p \o q \in Seq(Entry) /\ Spliced(q, 0, p, p \o q)
      /\ q \o p \in Seq(Entry) /\ Spliced(q, Len(q), p, q \o p)
    <2>1. p \in Seq(Entry)
        OBVIOUS
    <2> HIDE DEF p, q
    <2> QED BY <2>1, <1>1, SplicedEnds
<1>3. 0 \in 0 .. Len(q) /\ Len(q) \in 0 .. Len(q)
    BY <1>1
<1>4. Rings(L!AddBetween(l, e, At(h, q, 0), At(h, q, 0 + 1)), [Q EXCEPT ![h] = p \o q])
    BY <1>2, <1>3, AddRings
<1>5. Rings(L!AddBetween(l, e, At(h, q, Len(q)), At(h, q, Len(q) + 1)), [Q EXCEPT ![h] = q \o p])
    BY <1>2, <1>3, AddRings
<1> QED BY <1>1, <1>4, <1>5 DEF L!AddAfter, L!AddBefore

(* The contents as the actions speak of them. *)
LEMMA Names ==
    ASSUME Rings(s, seq)
    PROVE  /\ L!Lists = Live(seq) /\ L!Off = Entry \ Used(seq)
           /\ \A h \in Live(seq) : L!On(h) = Members(seq[h])
           /\ \A h \in Live(seq) : \A e \in Members(seq[h]) :
                 L!Place(h, e) \in 1 .. Len(seq[h]) /\ seq[h][L!Place(h, e)] = e
           /\ \A h \in ListHead : \A e \in Entry : h \notin Live(seq) => e \notin L!On(h)
<1>1. L!Lists = Live(seq)
    BY DEF L!Lists, Live
<1>2. \A h \in Live(seq) : seq[h] \in Seq(Entry)
    BY DEF Rings, Sound
<1>3. \A h \in Live(seq) : DOMAIN seq[h] = 1 .. Len(seq[h])
    BY <1>2
<1>4. \A h \in Live(seq) : L!On(h) = Members(seq[h])
    BY <1>3 DEF L!On, Members
<1>5. L!Off = Entry \ Used(seq)
    BY <1>1, <1>4 DEF L!Off, Used
<1>6. \A h \in Live(seq) : \A e \in Members(seq[h]) :
          L!Place(h, e) \in 1 .. Len(seq[h]) /\ seq[h][L!Place(h, e)] = e
    BY <1>3 DEF L!Place, Members
<1>7. ASSUME NEW h \in ListHead, NEW e \in Entry, h \notin Live(seq) PROVE e \notin L!On(h)
    <2>1. seq[h] = L!LOST
        BY <1>7 DEF Live
    <2>2. L!On(h) = {"lost"}
        BY <2>1 DEF L!On, L!LOST
    <2> QED BY <2>2, Cells
<1> QED BY <1>1, <1>4, <1>5, <1>6, <1>7

LEMMA AddHereStep ==
    ASSUME Rings(s, seq), NEW h \in L!Lists, NEW e \in Entry, L!AddHere(e, h)
    PROVE  Rings(s', seq')
<1> DEFINE q == seq[h]
<1>1. /\ h \in Live(seq) /\ e \notin Used(seq) /\ L!On(h) = Members(q)
    BY Names DEF L!AddHere
<1>2. /\ q \in Seq(Entry) /\ Len(q) \in Nat
      /\ \A i \in 1 .. Len(q) : /\ s.next[q[i]] = At(h, q, i + 1)
                                /\ s.prev[q[i]] = At(h, q, i - 1)
    BY <1>1, RingLinks
<1>3. CASE /\ s' = L!AddAfter(s, e, h) /\ seq' = [seq EXCEPT ![h] = <<e>> \o q]
    BY <1>1, <1>3, AddEnds
<1>4. CASE /\ s' = L!AddBefore(s, e, h) /\ seq' = [seq EXCEPT ![h] = q \o <<e>>]
    BY <1>1, <1>4, AddEnds
<1>5. ASSUME NEW c \in L!On(h)
      PROVE  LET i == L!Place(h, c)
             IN  /\ Rings(L!AddAfter(s, e, c), [seq EXCEPT ![h] = L!InsertAt(q, i + 1, e)])
                 /\ Rings(L!AddBefore(s, e, c), [seq EXCEPT ![h] = L!InsertAt(q, i, e)])
    <2> DEFINE i == L!Place(h, c)
    <2>1. i \in 1 .. Len(q) /\ q[i] = c
        BY <1>1, Names
    <2> HIDE DEF i, q
    <2>2. /\ i + 1 \in 1 .. Len(q) + 1 /\ i \in 1 .. Len(q) + 1 /\ i \in 0 .. Len(q)
          /\ i - 1 \in 0 .. Len(q) /\ (i + 1) - 1 = i /\ (i - 1) + 1 = i
        BY <1>2, <2>1
    <2>3. /\ L!InsertAt(q, i + 1, e) \in Seq(Entry)
          /\ Spliced(q, i, <<e>>, L!InsertAt(q, i + 1, e))
          /\ L!InsertAt(q, i, e) \in Seq(Entry)
          /\ Spliced(q, i - 1, <<e>>, L!InsertAt(q, i, e))
        BY <1>2, <2>2, SplicedAt
    <2>4. At(h, q, i) = c /\ s.next[c] = At(h, q, i + 1) /\ s.prev[c] = At(h, q, i - 1)
        BY <1>2, <2>1 DEF At
    <2> USE DEF q
    <2>5. Rings(L!AddBetween(s, e, At(h, q, i), At(h, q, i + 1)),
                [seq EXCEPT ![h] = L!InsertAt(q, i + 1, e)])
        BY <1>1, <2>2, <2>3, AddRings
    <2>6. Rings(L!AddBetween(s, e, At(h, q, i - 1), At(h, q, (i - 1) + 1)),
                [seq EXCEPT ![h] = L!InsertAt(q, i, e)])
        BY <1>1, <2>2, <2>3, AddRings
    <2> QED BY <2>2, <2>4, <2>5, <2>6 DEF L!AddAfter, L!AddBefore, i
<1> QED BY <1>3, <1>4, <1>5 DEF L!AddHere

(* An entry is taken off its list, or an initialised one off none. *)
LEMMA Unlinked ==
    ASSUME Rings(s, seq), NEW e \in Entry, e \in Used(seq) \/ s.next[e] = e
    PROVE  /\ Rings(L!Unlink(s, e), L!Without(e))
           /\ e \notin Used(L!Without(e)) /\ Live(L!Without(e)) = Live(seq)
           /\ \A h \in Live(seq) : e \in Members(seq[h]) =>
                 L!Without(e) = [seq EXCEPT ![h] = L!RemoveAt(seq[h], L!Place(h, e))]
<1>0. seq \in Contents /\ s \in Links /\ e \in L!Cell /\ e \notin Live(seq)
    BY Cells DEF Rings, Live
<1>1. CASE e \in Used(seq)
    <2>1. PICK h \in Live(seq) : e \in Members(seq[h])
        BY <1>1 DEF Used
    <2> DEFINE q == seq[h]
               i == L!Place(h, e)
               r == L!RemoveAt(q, i)
               Q == [seq EXCEPT ![h] = r]
    <2>2. i \in 1 .. Len(q) /\ q[i] = e /\ q \in Seq(Entry) /\ h \in ListHead
        BY <2>1, Names, RingLinks
    <2>3. r \in Seq(Entry) /\ i - 1 \in 0 .. Len(r) /\ Spliced(r, i - 1, <<e>>, q)
        <3> HIDE DEF i, q
        <3> QED BY <2>2, RemovedAt
    <2>4. Rings(L!Unlink(s, e), Q) /\ e \notin Used(Q)
        <3> DEFINE k == i - 1
        <3>1. r \in Seq(Entry) /\ k \in 0 .. Len(r) /\ Spliced(r, k, <<e>>, seq[h])
            BY <2>3
        <3> HIDE DEF i, r, k
        <3> QED BY <3>1, <2>1, DropRings
    <2>5. ASSUME NEW g \in ListHead, g # h PROVE e \notin L!On(g)
        <3>1. CASE g \in Live(seq)
            <4>1. L!On(g) = Members(seq[g])
                BY <3>1, Names
            <4>2. Members(seq[g]) \intersect Members(seq[h]) = {}
                BY <2>5, <3>1 DEF Rings
            <4> QED BY <4>1, <4>2, <2>1
        <3>2. CASE g \notin Live(seq)
            BY <3>2, Names
        <3> QED BY <3>1, <3>2
    <2>6. L!Without(e) = Q
        <3>1. e \in L!On(h)
            BY <2>1, Names
        <3> HIDE DEF r
        <3>2. L!Without(e) = [g \in ListHead |-> IF g = h THEN r ELSE seq[g]]
            BY <2>5, <3>1 DEF L!Without, r
        <3> QED BY <3>2, <1>0, <2>2 DEF Contents
    <2>7. Live(Q) = Live(seq)
        <3> HIDE DEF r
        <3>1. r # L!LOST
            BY <2>3, NotLost
        <3> QED BY <3>1, <1>0, <2>1, <2>2 DEF Live, Contents
    <2>8. \A g \in Live(seq) : e \in Members(seq[g]) => g = h
        BY <2>1 DEF Rings
    <2> QED BY <2>4, <2>6, <2>7, <2>8
<1>2. CASE e \notin Used(seq)
    <2>1. \A g \in ListHead : e \notin L!On(g)
        BY <1>2, Names DEF Used
    <2>2. L!Without(e) = seq
        BY <2>1, <1>0 DEF L!Without, Contents
    <2>3. s.next[e] = e /\ s.prev[e] = e
        BY <1>2 DEF Rings
    <2>4. Assigned(s, L!Unlink(s, e), e, e, e, e)
        BY <1>0, <2>3, JoinIs DEF L!Unlink
    <2>5. Rings(L!Unlink(s, e), seq)
        BY <1>0, <1>2, <2>4, AssignOff
    <2>6. \A g \in Live(seq) : e \notin Members(seq[g])
        BY <1>2 DEF Used
    <2> QED BY <1>2, <2>2, <2>5, <2>6
<1> QED BY <1>1, <1>2

(* list_del and list_del_init. *)
LEMMA DeleteLinks ==
    ASSUME Rings(s, seq), NEW e \in Entry, e \in Used(seq) \/ s.next[e] = e
    PROVE  /\ Rings(L!Poisoned(L!Unlink(s, e), e), L!Without(e))
           /\ Rings(L!InitHead(L!Unlink(s, e), e), L!Without(e))
<1> DEFINE l == L!Unlink(s, e)
           Q == L!Without(e)
<1>1. Rings(l, Q) /\ e \notin Used(Q) /\ e \in L!Cell /\ e \notin Live(Q) /\ e # L!POISON1
    BY Unlinked, Cells DEF Live
<1>2. l \in Links
    BY <1>1 DEF Rings
<1> HIDE DEF l, Q
<1>3. Assigned(l, L!Poisoned(l, e), e, L!POISON1, e, L!POISON2)
    BY <1>1, <1>2, PoisonedIs
<1>4. Assigned(l, L!InitHead(l, e), e, e, e, e)
    BY <1>1, <1>2, InitHeadIs
<1>5. Rings(L!Poisoned(l, e), Q)
    BY <1>1, <1>3, AssignOff
<1>6. Rings(L!InitHead(l, e), Q)
    BY <1>1, <1>4, AssignOff
<1> QED BY <1>5, <1>6 DEF l, Q

LEMMA DeleteStep ==
    ASSUME Rings(s, seq), NEW e \in Entry, L!Delete(e) \/ L!DeleteInit(e)
    PROVE  Rings(s', seq')
<1>1. e \in Used(seq) \/ s.next[e] = e
    BY Names DEF L!Delete, L!DeleteInit, L!IsEmpty
<1> QED BY <1>1, DeleteLinks DEF L!Delete, L!DeleteInit

(* list_move and list_move_tail. *)
LEMMA MoveLinks ==
    ASSUME Rings(s, seq), NEW e \in Entry, e \in Used(seq) \/ s.next[e] = e,
           NEW h \in Live(seq), NEW tail \in BOOLEAN
    PROVE  Rings(L!MoveTo(s, e, h, tail), L!Moved(e, h, tail))
<1> DEFINE l == L!Unlink(s, e)
           Q == L!Without(e)
<1>1. Rings(l, Q) /\ e \notin Used(Q) /\ h \in Live(Q)
    BY Unlinked
<1> HIDE DEF l, Q
<1>2. /\ Rings(L!AddAfter(l, e, h), [Q EXCEPT ![h] = <<e>> \o Q[h]])
      /\ Rings(L!AddBefore(l, e, h), [Q EXCEPT ![h] = Q[h] \o <<e>>])
    BY <1>1, AddEnds
<1>3. CASE tail
    BY <1>2, <1>3 DEF L!MoveTo, L!Moved, l, Q
<1>4. CASE ~tail
    BY <1>2, <1>4 DEF L!MoveTo, L!Moved, l, Q
<1> QED BY <1>3, <1>4

LEMMA MoveStep ==
    ASSUME Rings(s, seq), NEW h \in L!Lists, NEW e \in Entry, NEW tail \in BOOLEAN,
           L!Move(e, h, tail)
    PROVE  Rings(s', seq')
<1>1. h \in Live(seq) /\ (e \in Used(seq) \/ s.next[e] = e)
    BY Names DEF L!Move, L!IsEmpty
<1> QED BY <1>1, MoveLinks DEF L!Move

(* A head whose next is itself has an empty list. *)
LEMMA EmptyIs ==
    ASSUME NEW l, NEW Q, Rings(l, Q), NEW h \in Live(Q)
    PROVE  l.next[h] = h <=> Q[h] = <<>>
<1>1. /\ Q[h] \in Seq(Entry) /\ Len(Q[h]) \in Nat /\ h \in ListHead
      /\ l.next[h] = At(h, Q[h], 1)
    BY RingLinks
<1>2. ASSUME NEW q, q \in Seq(Entry) PROVE At(h, q, 1) = h <=> q = <<>>
    <2>1. CASE q = <<>>
        BY <2>1 DEF At
    <2>2. CASE q # <<>>
        <3>1. 1 \in 1 .. Len(q) /\ q[1] \in Entry
            BY <1>2, <2>2
        <3>2. At(h, q, 1) = q[1] /\ q[1] # h
            BY <3>1, <1>1, Cells DEF At
        <3> QED BY <3>2, <2>2
    <2> QED BY <2>1, <2>2
<1> QED BY <1>1, <1>2

LEMMA RotateStep ==
    ASSUME Rings(s, seq), NEW h \in L!Lists, L!RotateLeft(h)
    PROVE  Rings(s', seq')
<1> DEFINE q == seq[h]
           f == Head(q)
           r == Tail(q)
           Q == [seq EXCEPT ![h] = r]
<1>1. /\ h \in Live(seq) /\ q \in Seq(Entry) /\ s.next[h] = At(h, q, 1) /\ seq \in Contents
      /\ h \in ListHead
    <2>1. h \in Live(seq) /\ seq \in Contents
        BY Names DEF Rings
    <2> QED BY <2>1, RingLinks
<1>2. CASE q = <<>>
    <2>1. s' = s /\ seq' = [seq EXCEPT ![h] = q]
        BY <1>1, <1>2, EmptyIs DEF L!RotateLeft, L!IsEmpty
    <2>2. seq' = seq
        BY <2>1, <1>1 DEF Contents
    <2> QED BY <2>1, <2>2
<1>3. CASE q # <<>>
    <2>1. /\ s' = L!MoveTo(s, s.next[h], h, TRUE) /\ seq' = [seq EXCEPT ![h] = r \o <<f>>]
        BY <1>1, <1>3, EmptyIs DEF L!RotateLeft, L!IsEmpty
    <2>2. /\ f \in Entry /\ r \in Seq(Entry) /\ Len(r) \in Nat /\ s.next[h] = f
        BY <1>1, <1>3 DEF At
    <2>3. Spliced(r, 0, <<f>>, q)
        BY <1>1, <1>3 DEF Spliced
    <2> HIDE DEF r, f
    <2>4. Rings(L!Unlink(s, f), Q) /\ f \notin Used(Q)
        <3>1. 0 \in 0 .. Len(r)
            BY <2>2
        <3> QED BY <3>1, <1>1, <2>2, <2>3, DropRings
    <2>5. h \in Live(Q) /\ Q[h] = r
        BY <1>1, <2>2, NotLost DEF Live, Contents
    <2>6. Rings(L!AddBefore(L!Unlink(s, f), f, h), [Q EXCEPT ![h] = r \o <<f>>])
        <3> HIDE DEF Q
        <3> QED BY <2>2, <2>4, <2>5, AddEnds
    <2>7. [Q EXCEPT ![h] = r \o <<f>>] = [seq EXCEPT ![h] = r \o <<f>>]
        BY <1>1 DEF Contents
    <2> QED BY <2>1, <2>2, <2>6, <2>7 DEF L!MoveTo
<1> QED BY <1>2, <1>3
----------------------------------------------------------------------------
(* INIT_LIST_HEAD of a head whose list is empty or lost. *)
LEMMA MakeHead ==
    ASSUME NEW l, NEW Q, Rings(l, Q), NEW h \in ListHead, Q[h] = <<>> \/ Q[h] = L!LOST
    PROVE  Rings(L!InitHead(l, h), [Q EXCEPT ![h] = <<>>])
<1> DEFINE m == L!InitHead(l, h)
           Q2 == [Q EXCEPT ![h] = <<>>]
<1>1. l \in Links /\ Q \in Contents /\ h \in L!Cell
    BY Cells DEF Rings
<1>2. Assigned(l, m, h, h, h, h)
    BY <1>1, InitHeadIs
<1>3. Q2 \in Contents /\ Q2[h] = <<>> /\ \A g \in ListHead \ {h} : Q2[g] = Q[g]
    BY <1>1 DEF Contents
<1> HIDE DEF m, Q2
<1>4. /\ m \in Links /\ m.next[h] = h /\ m.prev[h] = h
      /\ \A x \in L!Cell \ {h} : m.next[x] = l.next[x] /\ m.prev[x] = l.prev[x]
    BY <1>2 DEF Assigned
<1>5. h \in Live(Q) => Members(Q[h]) = {}
    BY DEF Members, Live
<1>6. Touched(Q, {h}, {}) = {h}
    BY <1>5 DEF Touched
<1>7. Sound(<<>>) /\ Members(<<>>) = {} /\ Ring(m.next, m.prev, h, <<>>)
    BY <1>4 DEF Sound, Members, Ring, At
<1>8. {h} \in SUBSET ListHead /\ {} \in SUBSET Entry /\ {} \intersect Used(Q) = {}
    OBVIOUS
<1>9. Entry \intersect {h} = {}
    BY Cells
<1>10. OnlyTouched(l, Q, m, Q2, {h}, {})
    BY <1>3, <1>4, <1>6, <1>7, <1>8, <1>9 DEF OnlyTouched
<1> QED BY <1>10, RingsAfter DEF m, Q2

LEMMA ReinitStep ==
    ASSUME Rings(s, seq), NEW h \in ListHead, L!Reinit(h)
    PROVE  Rings(s', seq')
<1>1. seq[h] = L!LOST
    BY DEF L!Reinit, L!Lists
<1> QED BY <1>1, MakeHead DEF L!Reinit

(* list_replace of a cell that is not alone on its ring. *)
LEMMA ReplaceByIs ==
    ASSUME NEW l \in Links, NEW old \in L!Cell, NEW new \in L!Cell, old # new,
           l.next[old] \in L!Cell \ {old, new}, l.prev[old] \in L!Cell \ {old, new}
    PROVE  PutBetween(l, L!ReplaceBy(l, old, new), new, l.prev[old], l.next[old])
    BY DEF PutBetween, Links, L!ReplaceBy

LEMMA ReplaceAlone ==
    ASSUME NEW l \in Links, NEW old \in L!Cell, NEW new \in L!Cell, old # new, l.next[old] = old
    PROVE  LET m == L!ReplaceBy(l, old, new)
           IN  /\ m \in Links /\ m.next[new] = new /\ m.prev[new] = new
               /\ \A x \in L!Cell \ {old, new} : m.next[x] = l.next[x] /\ m.prev[x] = l.prev[x]
    BY DEF Links, L!ReplaceBy

(* q with new in the place of old. *)
Renamed(q, old, new) == [i \in DOMAIN q |-> IF q[i] = old THEN new ELSE q[i]]
LEMMA RenamedIs ==
    ASSUME NEW q, Sound(q), NEW k \in 1 .. Len(q), NEW new \in Entry, new \notin Members(q)
    PROVE  LET r == Renamed(q, q[k], new)
           IN  /\ Sound(r) /\ Len(r) = Len(q) /\ r[k] = new
               /\ \A i \in 1 .. Len(q) : i # k => r[i] = q[i]
               /\ Members(r) = (Members(q) \ {q[k]}) \union {new}
<1> DEFINE r == Renamed(q, q[k], new)
<1>1. q \in Seq(Entry) /\ \A i, j \in 1 .. Len(q) : q[i] = q[j] => i = j
    BY DEF Sound
<1>2. DOMAIN q = 1 .. Len(q) /\ Len(q) \in Nat /\ \A i \in 1 .. Len(q) : q[i] \in Entry
    BY <1>1
<1>3. r = [i \in 1 .. Len(q) |-> IF i = k THEN new ELSE q[i]]
    BY <1>1, <1>2 DEF Renamed
<1>4. r \in Seq(Entry) /\ Len(r) = Len(q)
    BY <1>2, <1>3
<1>5. r[k] = new /\ \A i \in 1 .. Len(q) : i # k => r[i] = q[i]
    BY <1>3
<1> HIDE DEF r
<1>6. \A i \in 1 .. Len(q) : q[i] # new
    BY DEF Members
<1>7. Sound(r)
    BY <1>1, <1>4, <1>5, <1>6 DEF Sound
<1>8. Members(r) \subseteq (Members(q) \ {q[k]}) \union {new}
    BY <1>1, <1>4, <1>5 DEF Members
<1>9. (Members(q) \ {q[k]}) \union {new} \subseteq Members(r)
    BY <1>1, <1>4, <1>5 DEF Members
<1> QED BY <1>4, <1>5, <1>7, <1>8, <1>9 DEF r

(* list_replace of an entry on a list by one that is on none. *)
LEMMA ReplaceEntry ==
    ASSUME NEW l, NEW Q, Rings(l, Q), NEW h \in Live(Q), NEW k \in 1 .. Len(Q[h]),
           NEW new \in Entry, new \notin Used(Q)
    PROVE  LET old == Q[h][k]
               Q2 == [Q EXCEPT ![h] = Renamed(Q[h], old, new)]
           IN  Rings(L!ReplaceBy(l, old, new), Q2) /\ old \notin Used(Q2) /\ old \in Entry
<1> DEFINE q == Q[h]
           old == q[k]
           r == Renamed(q, old, new)
           Q2 == [Q EXCEPT ![h] = r]
           m == L!ReplaceBy(l, old, new)
           a == At(h, q, k - 1)
           b == At(h, q, k + 1)
<1>1. /\ h \in ListHead /\ l \in Links /\ Q \in Contents /\ Sound(q)
      /\ Ring(l.next, l.prev, h, q) /\ new \notin Members(q)
    BY DEF Rings, Live, Used
<1>2. RingCells(h, q)
    BY <1>1, CellsOfRing
<1>3. /\ k \in 0 .. Len(q) /\ k \in 1 .. Len(q) + 1 /\ k - 1 \in 0 .. Len(q)
      /\ k + 1 \in 1 .. Len(q) + 1 /\ k + 1 \in 0 .. Len(q) + 1 /\ k - 1 \in 0 .. Len(q) + 1
      /\ (k - 1) + 1 = k /\ k \in Nat /\ Len(q) \in Nat
    BY <1>2 DEF RingCells
<1>4. old \in Entry /\ old \in Members(q) /\ At(h, q, k) = old /\ old # new
    BY <1>1, <1>2 DEF RingCells
<1>5. l.next[old] = b /\ l.prev[old] = a
    BY <1>1, <1>3, <1>4 DEF Ring
<1>6. /\ a \in L!Cell /\ b \in L!Cell /\ a \in {h} \union Members(q) /\ b \in {h} \union Members(q)
    BY <1>2, <1>3 DEF RingCells
<1>7. a # old /\ b # old /\ a # new /\ b # new
    <2>1. k - 1 # k /\ k + 1 # k
        BY <1>3
    <2>2. a # old /\ b # old
        BY <2>1, <1>2, <1>3, <1>4 DEF RingCells
    <2> QED BY <2>2, <1>1, <1>6, Cells
<1>8. PutBetween(l, m, new, a, b)
    <2>1. old \in L!Cell /\ new \in L!Cell
        BY <1>4, Cells
    <2> HIDE DEF a, b, old
    <2> QED BY <2>1, <1>1, <1>4, <1>5, <1>6, <1>7, ReplaceByIs
<1>9. /\ Sound(r) /\ Len(r) = Len(q) /\ r[k] = new
      /\ \A i \in 1 .. Len(q) : i # k => r[i] = q[i]
      /\ Members(r) = (Members(q) \ {old}) \union {new}
    <2>1. k \in 1 .. Len(q)
        OBVIOUS
    <2> HIDE DEF q
    <2> QED BY <2>1, <1>1, RenamedIs
<1> HIDE DEF m, r
<1>10. /\ m.next[a] = new /\ m.next[new] = b /\ m.prev[b] = new /\ m.prev[new] = a /\ m \in Links
       /\ \A x \in L!Cell : x # a /\ x # new => m.next[x] = l.next[x]
       /\ \A x \in L!Cell : x # b /\ x # new => m.prev[x] = l.prev[x]
    BY <1>8 DEF PutBetween
<1>11. At(h, r, k) = new /\ \A i \in 0 .. Len(q) + 1 : i # k => At(h, r, i) = At(h, q, i)
    BY <1>3, <1>9 DEF At
<1>12. ASSUME NEW i \in 0 .. Len(q)
       PROVE  m.next[At(h, r, i)] = At(h, r, i + 1) /\ m.prev[At(h, r, i + 1)] = At(h, r, i)
    <2>0. /\ i \in 0 .. Len(q) + 1 /\ i + 1 \in 0 .. Len(q) + 1 /\ i + 1 \in 1 .. Len(q) + 1
        BY <1>3
    <2>1. CASE i = k
        <3>1. At(h, r, i + 1) = b
            BY <1>3, <1>11, <2>1
        <3> QED BY <3>1, <2>1, <1>10, <1>11
    <2>2. CASE i + 1 = k
        <3>1. i = k - 1 /\ i # k
            BY <1>3, <2>2
        <3>2. At(h, r, i) = a
            BY <3>1, <2>0, <1>11
        <3> QED BY <3>2, <2>2, <1>10, <1>11
    <2>3. CASE i # k /\ i + 1 # k
        <3>1. At(h, r, i) = At(h, q, i) /\ At(h, r, i + 1) = At(h, q, i + 1)
            BY <2>0, <2>3, <1>11
        <3>2. i # k - 1 /\ i + 1 # k + 1
            BY <1>3, <2>3
        <3>3. At(h, q, i) # a /\ At(h, q, i + 1) # b
            BY <3>2, <2>0, <1>2, <1>3 DEF RingCells
        <3>4. At(h, q, i) # new /\ At(h, q, i + 1) # new
            BY <1>1, <1>2, <2>0, Cells DEF RingCells
        <3>5. At(h, q, i) \in L!Cell /\ At(h, q, i + 1) \in L!Cell
            BY <1>2, <2>0 DEF RingCells
        <3>6. l.next[At(h, q, i)] = At(h, q, i + 1) /\ l.prev[At(h, q, i + 1)] = At(h, q, i)
            BY <1>1 DEF Ring
        <3> QED BY <3>1, <3>3, <3>4, <3>5, <3>6, <1>10
    <2> QED BY <2>1, <2>2, <2>3
<1>13. Ring(m.next, m.prev, h, r)
    BY <1>9, <1>12 DEF Ring
<1>14. /\ Q2 \in Contents /\ Q2[h] = r /\ (\A g \in ListHead \ {h} : Q2[g] = Q[g])
       /\ h \in Live(Q2)
    <2>1. r \in Seq(Entry) /\ r # L!LOST
        BY <1>9, NotLost DEF Sound
    <2>2. Q2 \in Contents /\ Q2[h] = r /\ (\A g \in ListHead \ {h} : Q2[g] = Q[g])
        BY <1>1, <2>1 DEF Contents
    <2> QED BY <1>1, <2>1, <2>2 DEF Live
<1>15. Touched(Q, {h}, {new}) = {h, new} \union Members(q)
    BY DEF Touched
<1>16. old \notin Used(Q2)
    <2> SUFFICES ASSUME NEW g \in Live(Q2), g # h PROVE old \notin Members(Q2[g])
        BY <1>4, <1>9, <1>14 DEF Used
    <2>1. g \in Live(Q) /\ Q2[g] = Q[g]
        BY <1>14 DEF Live
    <2> QED BY <2>1, <1>4 DEF Rings
<1>17. m.next[old] # old
    <2>1. old \in L!Cell
        BY <1>4, Cells
    <2> QED BY <2>1, <1>4, <1>5, <1>7, <1>10
<1> HIDE DEF Q2, q, old, a, b
<1>18. OnlyTouched(l, Q, m, Q2, {h}, {new})
    <2>1. {h} \in SUBSET ListHead /\ {new} \in SUBSET Entry /\ {new} \intersect Used(Q) = {}
        BY <1>1
    <2>2. ASSUME NEW c \in L!Cell \ Touched(Q, {h}, {new})
          PROVE  m.next[c] = l.next[c] /\ m.prev[c] = l.prev[c]
        BY <1>6, <1>10, <1>15
    <2>3. ASSUME NEW x \in (Entry \intersect Touched(Q, {h}, {new})) \ Used(Q2)
          PROVE  m.next[x] = x => m.prev[x] = x
        <3>1. x \in Members(q) \union {new} /\ x \notin Members(r)
            BY <1>1, <1>14, <1>15, Cells DEF Used
        <3> QED BY <3>1, <1>9, <1>17
    <2>4. Members(r) \subseteq Touched(Q, {h}, {new})
        BY <1>9, <1>15
    <2>5. m \in Links /\ Q2 \in Contents /\ Sound(Q2[h]) /\ Members(Q2[h]) = Members(r)
          /\ Ring(m.next, m.prev, h, Q2[h]) /\ \A g \in ListHead \ {h} : Q2[g] = Q[g]
        BY <1>9, <1>10, <1>13, <1>14
    <2> QED BY <2>1, <2>2, <2>3, <2>4, <2>5 DEF OnlyTouched
<1>19. Rings(m, Q2)
    BY <1>18, RingsAfter
<1> QED BY <1>4, <1>16, <1>19 DEF m, Q2, old, q, r
(* list_replace of a head: its list goes to a head without one. *)
LEMMA ReplaceHead ==
    ASSUME NEW l, NEW Q, Rings(l, Q), NEW old \in Live(Q), NEW new \in ListHead, new # old,
           Q[new] = <<>> \/ Q[new] = L!LOST
    PROVE  Rings(L!ReplaceBy(l, old, new), [Q EXCEPT ![new] = Q[old], ![old] = L!LOST])
<1> DEFINE q == Q[old]
           Q2 == [Q EXCEPT ![new] = q, ![old] = L!LOST]
           m == L!ReplaceBy(l, old, new)
           T == {old, new}
<1>1. /\ old \in ListHead /\ l \in Links /\ Q \in Contents /\ Sound(q)
      /\ Ring(l.next, l.prev, old, q) /\ old \in L!Cell /\ new \in L!Cell
    BY Cells DEF Rings, Live
<1>2. RingCells(old, q)
    BY <1>1, CellsOfRing
<1>3. Len(q) \in Nat /\ q \in Seq(Entry) /\ q # L!LOST
    BY <1>1, NotLost DEF Sound
<1>4. new \in Live(Q) => Members(Q[new]) = {}
    BY DEF Members, Live
<1>5. Touched(Q, T, {}) = T \union Members(q)
    BY <1>4 DEF Touched
<1>6. /\ Q2 \in Contents /\ Q2[new] = q /\ Q2[old] = L!LOST
      /\ \A g \in ListHead \ T : Q2[g] = Q[g]
    BY <1>1, <1>3 DEF Contents
<1>7. /\ m \in Links /\ Ring(m.next, m.prev, new, q)
      /\ \A c \in L!Cell \ (T \union Members(q)) : m.next[c] = l.next[c] /\ m.prev[c] = l.prev[c]
    <2>1. CASE q = <<>>
        <3>1. l.next[old] = old
            BY <2>1, EmptyIs
        <3>2. /\ m \in Links /\ m.next[new] = new /\ m.prev[new] = new
              /\ \A x \in L!Cell \ {old, new} : m.next[x] = l.next[x] /\ m.prev[x] = l.prev[x]
            BY <3>1, <1>1, ReplaceAlone
        <3> HIDE DEF m, q
        <3>3. Len(q) = 0
            BY <2>1
        <3> QED BY <3>2, <3>3 DEF Ring, At
    <2>2. CASE q # <<>>
        <3>1. /\ 1 \in 1 .. Len(q) /\ Len(q) \in 1 .. Len(q) /\ 0 + 1 = 1
              /\ 0 \in 0 .. Len(q) /\ Len(q) \in 0 .. Len(q)
            BY <1>3, <2>2
        <3> DEFINE a == q[Len(q)]
                   b == q[1]
        <3>2. /\ At(old, q, 1) = b /\ At(old, q, Len(q)) = a /\ a \in Entry /\ b \in Entry
              /\ At(old, q, 0) = old /\ At(old, q, Len(q) + 1) = old
              /\ a \in Members(q) /\ b \in Members(q)
            BY <3>1, <1>2 DEF RingCells
        <3>3. l.next[old] = b /\ l.prev[old] = a
            BY <3>1, <3>2, <1>1 DEF Ring
        <3>4. a \in L!Cell \ {old, new} /\ b \in L!Cell \ {old, new}
            BY <3>2, <1>1, Cells
        <3>5. PutBetween(l, m, new, a, b)
            <4> HIDE DEF a, b
            <4> QED BY <1>1, <3>3, <3>4, ReplaceByIs
        <3> HIDE DEF m
        <3>6. /\ m.next[a] = new /\ m.next[new] = b /\ m.prev[b] = new /\ m.prev[new] = a
              /\ m \in Links
              /\ \A x \in L!Cell : x # a /\ x # new => m.next[x] = l.next[x]
              /\ \A x \in L!Cell : x # b /\ x # new => m.prev[x] = l.prev[x]
            BY <3>5 DEF PutBetween
        <3>7. /\ At(new, q, 0) = new /\ At(new, q, Len(q) + 1) = new
              /\ \A i \in 1 .. Len(q) : At(new, q, i) = q[i]
            BY <1>3 DEF At
        <3>8. ASSUME NEW i \in 0 .. Len(q)
              PROVE  /\ m.next[At(new, q, i)] = At(new, q, i + 1)
                     /\ m.prev[At(new, q, i + 1)] = At(new, q, i)
            <4>1. m.next[At(new, q, i)] = At(new, q, i + 1)
                <5>1. CASE i = 0
                    BY <5>1, <3>1, <3>6, <3>7
                <5>2. CASE i = Len(q)
                    BY <5>2, <3>1, <3>6, <3>7
                <5>3. CASE i # 0 /\ i # Len(q)
                    <6>1. i \in 1 .. Len(q) /\ i + 1 \in 1 .. Len(q)
                        BY <5>3, <1>3
                    <6>2. l.next[q[i]] = q[i + 1]
                        BY <6>1, <1>1, <1>2 DEF Ring, RingCells
                    <6>3. q[i] # a /\ q[i] # new /\ q[i] \in L!Cell
                        BY <6>1, <5>3, <3>1, <1>1, <1>2, Cells DEF Sound, RingCells
                    <6> QED BY <6>1, <6>2, <6>3, <3>6, <3>7
                <5> QED BY <5>1, <5>2, <5>3
            <4>2. m.prev[At(new, q, i + 1)] = At(new, q, i)
                <5>1. CASE i = 0
                    BY <5>1, <3>1, <3>6, <3>7
                <5>2. CASE i = Len(q)
                    BY <5>2, <3>1, <3>6, <3>7
                <5>3. CASE i # 0 /\ i # Len(q)
                    <6>1. i \in 1 .. Len(q) /\ i + 1 \in 1 .. Len(q) /\ i + 1 # 1
                        BY <5>3, <1>3
                    <6>2. l.prev[q[i + 1]] = q[i]
                        BY <6>1, <1>1, <1>2 DEF Ring, RingCells
                    <6>3. q[i + 1] # b /\ q[i + 1] # new /\ q[i + 1] \in L!Cell
                        BY <6>1, <3>1, <1>1, <1>2, Cells DEF Sound, RingCells
                    <6> QED BY <6>1, <6>2, <6>3, <3>6, <3>7
                <5> QED BY <5>1, <5>2, <5>3
            <4> QED BY <4>1, <4>2
        <3> HIDE DEF a, b, q
        <3>9. Ring(m.next, m.prev, new, q)
            BY <3>8 DEF Ring
        <3> QED BY <3>2, <3>6, <3>9
    <2> QED BY <2>1, <2>2
<1> HIDE DEF m, Q2, q
<1>8. T \intersect Live(Q2) = {new}
    BY <1>3, <1>6 DEF Live
<1>9. T \in SUBSET ListHead /\ {} \in SUBSET Entry /\ {} \intersect Used(Q) = {}
    BY <1>1
<1>10. (Entry \intersect (T \union Members(q))) \ Used(Q2) = {}
    BY <1>1, <1>6, <1>8, Cells DEF Used
<1> HIDE DEF T
<1>11. OnlyTouched(l, Q, m, Q2, T, {})
    BY <1>1, <1>5, <1>6, <1>7, <1>8, <1>9, <1>10 DEF OnlyTouched
<1> QED BY <1>11, RingsAfter DEF m, Q2, q

LEMMA ReplaceStep ==
    ASSUME Rings(s, seq), NEW old \in L!Cell, NEW new \in L!Cell, NEW init \in BOOLEAN,
           L!Replace(old, new, init)
    PROVE  Rings(s', seq')
<1> DEFINE m == L!ReplaceBy(s, old, new)
<1>0. /\ s' = (IF init THEN L!InitHead(m, old) ELSE m) /\ old # new /\ seq \in Contents
    BY DEF L!Replace, Rings
<1>1. CASE /\ old \in Entry \ L!Off /\ new \in L!Off
           /\ seq' = [h \in ListHead |-> IF h \in L!Lists
                        THEN Renamed(seq[h], old, new) ELSE L!LOST]
    <2>1. PICK h \in Live(seq) : old \in Members(seq[h])
        BY <1>1, Names DEF Used
    <2>2. new \in Entry /\ new \notin Used(seq) /\ h \in ListHead
        BY <1>1, <2>1, Names DEF Live
    <2>3. PICK k \in 1 .. Len(seq[h]) : old = seq[h][k]
        BY <2>1 DEF Members
    <2> DEFINE Q2 == [seq EXCEPT ![h] = Renamed(seq[h], old, new)]
    <2>4. Rings(m, Q2) /\ old \notin Used(Q2)
        BY <2>1, <2>2, <2>3, ReplaceEntry
    <2>5. ASSUME NEW g \in Live(seq), g # h PROVE Renamed(seq[g], old, new) = seq[g]
        <3>1. old \notin Members(seq[g])
            BY <2>1, <2>5 DEF Rings
        <3>2. seq[g] \in Seq(Entry)
            BY <2>5 DEF Rings, Sound
        <3>3. \A i \in 1 .. Len(seq[g]) : seq[g][i] # old
            BY <3>1 DEF Members
        <3> QED BY <3>2, <3>3 DEF Renamed
    <2>6. seq' = Q2
        <3>1. \A g \in ListHead \ {h} : (IF g \in L!Lists THEN Renamed(seq[g], old, new) ELSE L!LOST) = seq[g]
            BY <2>5, Names DEF Live
        <3>2. h \in L!Lists
            BY <2>1, Names
        <3> QED BY <1>0, <1>1, <2>2, <3>1, <3>2 DEF Contents
    <2>7. old \in L!Cell /\ old \notin Live(Q2)
        BY <1>1, Cells DEF Live
    <2> HIDE DEF m, Q2
    <2>8. CASE init
        <3>1. Assigned(m, L!InitHead(m, old), old, old, old, old)
            BY <2>4, <2>7, InitHeadIs DEF Rings
        <3>2. Rings(L!InitHead(m, old), Q2)
            BY <2>4, <2>7, <3>1, AssignOff
        <3> QED BY <1>0, <2>6, <2>8, <3>2
    <2>9. CASE ~init
        BY <1>0, <2>4, <2>6, <2>9
    <2> QED BY <2>8, <2>9
<1>2. CASE /\ old \in L!Lists /\ new \in ListHead /\ seq[new] \in {<<>>, L!LOST}
           /\ seq' = [seq EXCEPT ![new] = seq[old], ![old] = IF init THEN <<>> ELSE L!LOST]
    <2>1. old \in Live(seq) /\ old \in ListHead
        BY <1>2, Names DEF Live
    <2> DEFINE Q2 == [seq EXCEPT ![new] = seq[old], ![old] = L!LOST]
    <2>2. Rings(m, Q2)
        BY <1>0, <1>2, <2>1, ReplaceHead
    <2>3. Q2[old] = L!LOST
        BY <1>0, <2>1 DEF Contents
    <2>4. init => seq' = [Q2 EXCEPT ![old] = <<>>]
        BY <1>0, <1>2, <2>1 DEF Contents
    <2>5. ~init => seq' = Q2
        BY <1>2
    <2> HIDE DEF m, Q2
    <2>6. Rings(L!InitHead(m, old), [Q2 EXCEPT ![old] = <<>>])
        BY <2>1, <2>2, <2>3, MakeHead
    <2> QED BY <1>0, <2>2, <2>4, <2>5, <2>6
<1> QED BY <1>1, <1>2 DEF L!Replace, Renamed
----------------------------------------------------------------------------
(* A sequence is cut after place k. *)
CutIn(q, k, p, r) ==
    /\ Sound(p) /\ Len(p) = k /\ \A i \in 1 .. k : p[i] = q[i]
    /\ Sound(r) /\ Len(r) = Len(q) - k /\ \A i \in 1 .. Len(q) - k : r[i] = q[k + i]
    /\ Members(p) \intersect Members(r) = {} /\ Members(p) \union Members(r) = Members(q)
LEMMA CutSequence ==
    ASSUME NEW q, Sound(q), NEW k \in 0 .. Len(q)
    PROVE  CutIn(q, k, SubSeq(q, 1, k), SubSeq(q, k + 1, Len(q)))
<1> DEFINE p == SubSeq(q, 1, k)
           r == SubSeq(q, k + 1, Len(q))
<1>1. q \in Seq(Entry) /\ Len(q) \in Nat /\ k \in Nat /\ k <= Len(q)
    BY DEF Sound
<1>2. p \in Seq(Entry) /\ Len(p) = k /\ \A i \in 1 .. k : p[i] = q[i]
    BY <1>1
<1>3. r \in Seq(Entry) /\ Len(r) = Len(q) - k /\ \A i \in 1 .. Len(q) - k : r[i] = q[k + i]
    BY <1>1
<1> HIDE DEF p, r
<1>4. \A i, j \in 1 .. Len(q) : q[i] = q[j] => i = j
    BY DEF Sound
<1>5. \A i \in 1 .. k : i \in 1 .. Len(q)
    BY <1>1
<1>6. \A i \in 1 .. Len(q) - k : k + i \in 1 .. Len(q)
    BY <1>1
<1>7. \A i \in 1 .. k, j \in 1 .. Len(q) - k : i # k + j
    BY <1>1
<1>8. Sound(p)
    BY <1>2, <1>4, <1>5 DEF Sound
<1>9. Sound(r)
    <2>1. \A i, j \in 1 .. Len(q) - k : k + i = k + j => i = j
        BY <1>1
    <2> QED BY <2>1, <1>3, <1>4, <1>6 DEF Sound
<1>10. Members(p) \intersect Members(r) = {}
    BY <1>2, <1>3, <1>4, <1>5, <1>6, <1>7 DEF Members
<1>11. Members(p) \subseteq Members(q) /\ Members(r) \subseteq Members(q)
    BY <1>2, <1>3, <1>5, <1>6 DEF Members
<1>12. ASSUME NEW i \in 1 .. Len(q) PROVE q[i] \in Members(p) \union Members(r)
    <2>1. CASE i <= k
        <3>1. i \in 1 .. k
            BY <2>1
        <3> QED BY <3>1, <1>2 DEF Members
    <2>2. CASE i > k
        <3>1. i - k \in 1 .. Len(q) - k /\ k + (i - k) = i
            BY <2>2, <1>1
        <3> QED BY <3>1, <1>3 DEF Members
    <2> QED BY <1>1, <2>1, <2>2
<1>13. Members(p) \union Members(r) = Members(q)
    BY <1>11, <1>12 DEF Members
<1> QED BY <1>2, <1>3, <1>8, <1>9, <1>10, <1>13 DEF CutIn, p, r

(* What list_cut_position assigns: f is the first entry of h, g what        *)
(* follows e.                                                               *)
CutLinks(m, l, h, e, f, g) ==
    /\ m \in Links
    /\ m.next[l] = f /\ m.next[e] = l /\ m.next[h] = g
    /\ m.prev[f] = l /\ m.prev[l] = e /\ m.prev[g] = h
    /\ \A x \in L!Cell \ {l, e, h} : m.next[x] = s.next[x]
    /\ \A x \in L!Cell \ {f, l, g} : m.prev[x] = s.prev[x]
LEMMA CutAtIs ==
    ASSUME s \in Links, NEW l \in L!Cell, NEW h \in L!Cell, NEW e \in L!Cell,
           l # h, l # e, h # e,
           NEW f \in L!Cell, NEW g \in L!Cell, s.next[h] = f, s.next[e] = g,
           f # l, g # l, f # g
    PROVE  CutLinks(L!CutAt(l, h, e), l, h, e, f, g)
    BY DEF CutLinks, Links, L!CutAt

LEMMA CutRings ==
    ASSUME Rings(s, seq), NEW h \in Live(seq), NEW l \in ListHead, l # h,
           seq[l] = <<>> \/ seq[l] = L!LOST, NEW k \in 1 .. Len(seq[h]),
           NEW p, NEW r, CutIn(seq[h], k, p, r)
    PROVE  Rings(L!CutAt(l, h, seq[h][k]), [seq EXCEPT ![l] = p, ![h] = r])
<1> DEFINE q == seq[h]
           e == q[k]
           f == q[1]
           g == At(h, q, k + 1)
           m == L!CutAt(l, h, e)
           Q2 == [seq EXCEPT ![l] = p, ![h] = r]
           T == {h, l}
<1>1. /\ h \in ListHead /\ s \in Links /\ seq \in Contents /\ Sound(q)
      /\ Ring(s.next, s.prev, h, q) /\ h \in L!Cell /\ l \in L!Cell
    BY Cells DEF Rings, Live
<1>2. RingCells(h, q)
    BY <1>1, CellsOfRing
<1>3. /\ Len(q) \in Nat /\ k \in Nat /\ k >= 1 /\ k <= Len(q) /\ 1 \in 1 .. Len(q)
      /\ k \in 0 .. Len(q) /\ 0 \in 0 .. Len(q) /\ 0 + 1 = 1
      /\ k + 1 \in 1 .. Len(q) + 1 /\ 1 \in 1 .. Len(q) + 1 /\ 1 # k + 1 /\ k + 1 \in 0 .. Len(q) + 1
    BY <1>2 DEF RingCells
<1>4. e \in Entry /\ f \in Entry /\ At(h, q, k) = e /\ At(h, q, 1) = f /\ At(h, q, 0) = h
    BY <1>2, <1>3 DEF RingCells
<1>5. s.next[h] = f /\ s.next[e] = g
    BY <1>1, <1>3, <1>4 DEF Ring
<1>6. /\ e \in L!Cell /\ f \in L!Cell /\ g \in L!Cell /\ l # e /\ h # e /\ f # l /\ g # l /\ f # g
      /\ f \in Members(q) /\ e \in Members(q) /\ g \in {h} \union Members(q)
    <2>1. g \in L!Cell /\ g \in {h} \union Members(q) /\ Members(q) \subseteq Entry
        BY <1>1, <1>2, <1>3 DEF RingCells, Members
    <2>2. f # g
        BY <1>2, <1>3, <1>4 DEF RingCells
    <2>3. f \in Members(q) /\ e \in Members(q)
        BY <1>2, <1>3 DEF RingCells
    <2> HIDE DEF e, f, g, q
    <2> QED BY <2>1, <2>2, <2>3, <1>1, <1>4, Cells
<1>7. CutLinks(m, l, h, e, f, g)
    <2> HIDE DEF e, f, g, q
    <2> QED BY <1>1, <1>4, <1>5, <1>6, CutAtIs
<1> HIDE DEF m
<1>8. /\ m \in Links
      /\ m.next[l] = f /\ m.next[e] = l /\ m.next[h] = g
      /\ m.prev[f] = l /\ m.prev[l] = e /\ m.prev[g] = h
      /\ \A x \in L!Cell \ {l, e, h} : m.next[x] = s.next[x]
      /\ \A x \in L!Cell \ {f, l, g} : m.prev[x] = s.prev[x]
    BY <1>7 DEF CutLinks
<1>9. /\ Sound(p) /\ Len(p) = k /\ \A i \in 1 .. k : p[i] = q[i]
      /\ Sound(r) /\ Len(r) = Len(q) - k /\ \A i \in 1 .. Len(q) - k : r[i] = q[k + i]
      /\ Members(p) \intersect Members(r) = {} /\ Members(p) \union Members(r) = Members(q)
    BY DEF CutIn
<1>10. \A i, j \in 1 .. Len(q) : q[i] = q[j] => i = j
    BY <1>1 DEF Sound
<1>11. \A i \in 1 .. Len(q) : q[i] \in L!Cell /\ q[i] # l /\ q[i] # h /\ At(h, q, i) = q[i]
    BY <1>1, <1>2, Cells DEF RingCells
<1>12. Ring(m.next, m.prev, l, p)
    <2>1. /\ At(l, p, 0) = l /\ At(l, p, k + 1) = l
          /\ \A i \in 1 .. k : At(l, p, i) = q[i]
        BY <1>3, <1>9 DEF At
    <2>2. ASSUME NEW i \in 0 .. k
          PROVE  m.next[At(l, p, i)] = At(l, p, i + 1) /\ m.prev[At(l, p, i + 1)] = At(l, p, i)
        <3>1. CASE i = 0
            <4>1. At(l, p, i) = l /\ At(l, p, i + 1) = f
                BY <3>1, <2>1, <1>3
            <4> QED BY <4>1, <1>8
        <3>2. CASE i = k
            <4>1. At(l, p, i) = e /\ At(l, p, i + 1) = l
                BY <3>2, <2>1, <1>3
            <4> QED BY <4>1, <1>8
        <3>3. CASE i # 0 /\ i # k
            <4>1. /\ i \in 1 .. k /\ i + 1 \in 1 .. k /\ i \in 1 .. Len(q) /\ i + 1 \in 1 .. Len(q)
                  /\ i + 1 # 1 /\ i + 1 # k + 1 /\ i \in 0 .. Len(q) /\ i + 1 \in 1 .. Len(q) + 1
                BY <3>3, <1>3
            <4>2. At(l, p, i) = q[i] /\ At(l, p, i + 1) = q[i + 1]
                BY <4>1, <2>1
            <4>3. s.next[q[i]] = q[i + 1] /\ s.prev[q[i + 1]] = q[i]
                BY <4>1, <1>1, <1>11 DEF Ring
            <4>4. q[i] # e /\ q[i + 1] # f /\ q[i + 1] # g
                <5>1. At(h, q, i + 1) # g
                    BY <4>1, <1>2, <1>3 DEF RingCells
                <5> QED BY <5>1, <4>1, <3>3, <1>3, <1>10, <1>11
            <4> QED BY <4>1, <4>2, <4>3, <4>4, <1>8, <1>11
        <3> QED BY <3>1, <3>2, <3>3
    <2> QED BY <2>2, <1>9 DEF Ring
<1>13. Ring(m.next, m.prev, h, r)
    <2>1. At(h, r, 0) = h
        BY DEF At
    <2>2. ASSUME NEW i \in 1 .. Len(q) - k + 1 PROVE At(h, r, i) = At(h, q, k + i)
        <3>1. CASE i = Len(q) - k + 1
            <4>1. i \notin 1 .. Len(r) /\ k + i \notin 1 .. Len(q)
                BY <3>1, <1>3, <1>9
            <4> QED BY <4>1 DEF At
        <3>2. CASE i # Len(q) - k + 1
            <4>1. i \in 1 .. Len(q) - k /\ k + i \in 1 .. Len(q)
                BY <3>2, <1>3
            <4> QED BY <4>1, <1>9 DEF At
        <3> QED BY <3>1, <3>2
    <2>3. ASSUME NEW i \in 0 .. Len(q) - k
          PROVE  m.next[At(h, r, i)] = At(h, r, i + 1) /\ m.prev[At(h, r, i + 1)] = At(h, r, i)
        <3>1. CASE i = 0
            <4>1. i + 1 \in 1 .. Len(q) - k + 1 /\ k + (i + 1) = k + 1
                BY <3>1, <1>3
            <4>2. At(h, r, i + 1) = g
                BY <4>1, <2>2
            <4> QED BY <4>2, <3>1, <2>1, <1>8
        <3>2. CASE i # 0
            <4>0. DEFINE j == k + i
            <4>1. /\ i \in 1 .. Len(q) - k + 1 /\ i + 1 \in 1 .. Len(q) - k + 1
                  /\ k + (i + 1) = j + 1
                  /\ j \in 1 .. Len(q) /\ j \in 0 .. Len(q) /\ j # k
                  /\ j + 1 \in 1 .. Len(q) + 1 /\ j + 1 # 1 /\ j + 1 # k + 1
                  /\ j + 1 \in 0 .. Len(q) + 1
                BY <3>2, <1>3
            <4>2. At(h, r, i) = At(h, q, j) /\ At(h, r, i + 1) = At(h, q, j + 1)
                <5>1. At(h, r, i) = At(h, q, k + i) /\ At(h, r, i + 1) = At(h, q, k + (i + 1))
                    BY <4>1, <2>2
                <5> QED BY <5>1, <4>1
            <4> HIDE DEF j
            <4>3. s.next[At(h, q, j)] = At(h, q, j + 1) /\ s.prev[At(h, q, j + 1)] = At(h, q, j)
                BY <4>1, <1>1 DEF Ring
            <4>4. At(h, q, j) # e /\ At(h, q, j) # h /\ At(h, q, j) # l /\ At(h, q, j) \in L!Cell
                BY <4>1, <1>3, <1>10, <1>11
            <4>5. At(h, q, j + 1) # f /\ At(h, q, j + 1) # g
                BY <4>1, <1>2, <1>3, <1>4 DEF RingCells
            <4>6. At(h, q, j + 1) # l /\ At(h, q, j + 1) \in L!Cell
                <5>1. At(h, q, j + 1) \in {h} \union Members(q) /\ At(h, q, j + 1) \in L!Cell
                    BY <4>1, <1>2 DEF RingCells
                <5>2. l \notin Members(q)
                    BY <1>11 DEF Members
                <5> QED BY <5>1, <5>2
            <4> QED BY <4>2, <4>3, <4>4, <4>5, <4>6, <1>8
        <3> QED BY <3>1, <3>2
    <2> QED BY <2>3, <1>9 DEF Ring
<1>14. p # L!LOST /\ r # L!LOST /\ p \in Seq(Entry) /\ r \in Seq(Entry)
    BY <1>9, NotLost DEF Sound
<1>15. /\ Q2 \in Contents /\ Q2[l] = p /\ Q2[h] = r
       /\ \A x \in ListHead \ T : Q2[x] = seq[x]
    BY <1>1, <1>14 DEF Contents
<1>16. l \in Live(seq) => Members(seq[l]) = {}
    BY DEF Members, Live
<1>17. Touched(seq, T, {}) = T \union Members(q)
    BY <1>16 DEF Touched
<1> HIDE DEF Q2, q, e, f, g
<1>18. T \subseteq Live(Q2) /\ T \intersect Live(Q2) = T
    BY <1>1, <1>14, <1>15 DEF Live
<1>19. (Entry \intersect (T \union Members(q))) \ Used(Q2) = {}
    <2>1. Members(Q2[l]) \subseteq Used(Q2) /\ Members(Q2[h]) \subseteq Used(Q2)
        BY <1>18 DEF Used
    <2> QED BY <2>1, <1>1, <1>9, <1>15, Cells
<1>20. T \in SUBSET ListHead /\ {} \in SUBSET Entry /\ {} \intersect Used(seq) = {}
    BY <1>1
<1>21. \A x \in L!Cell \ (T \union Members(q)) : m.next[x] = s.next[x] /\ m.prev[x] = s.prev[x]
    BY <1>6, <1>8
<1>22. ASSUME NEW x \in T
       PROVE  /\ Sound(Q2[x]) /\ Ring(m.next, m.prev, x, Q2[x])
              /\ Members(Q2[x]) \subseteq T \union Members(q)
    BY <1>9, <1>12, <1>13, <1>15
<1>23. ASSUME NEW x \in T, NEW y \in T, x # y PROVE Members(Q2[x]) \intersect Members(Q2[y]) = {}
    BY <1>9, <1>15, <1>23
<1> HIDE DEF T
<1>24. OnlyTouched(s, seq, m, Q2, T, {})
    BY <1>8, <1>15, <1>17, <1>18, <1>19, <1>20, <1>21, <1>22, <1>23 DEF OnlyTouched
<1> QED BY <1>24, RingsAfter DEF m, Q2, q, e

LEMMA CutStep ==
    ASSUME Rings(s, seq), NEW h \in L!Lists, NEW l \in ListHead, NEW e \in L!Cell,
           L!CutPosition(l, h, e)
    PROVE  Rings(s', seq')
<1> DEFINE q == seq[h]
           i == IF e = h THEN 0 ELSE L!Place(h, e)
<1>1. /\ l # h /\ (seq[l] = <<>> \/ seq[l] = L!LOST) /\ e \in L!On(h) \union {h}
      /\ s' = (IF L!IsEmpty(h) \/ (L!IsSingular(h) /\ s.next[h] # e /\ h # e) THEN s
               ELSE IF e = h THEN L!InitHead(s, l) ELSE L!CutAt(l, h, e))
      /\ seq' = IF q = <<>> THEN seq
                ELSE [seq EXCEPT ![l] = SubSeq(q, 1, i), ![h] = SubSeq(q, i + 1, Len(q))]
    <2>1. l # h
        BY DEF L!CutPosition
    <2> QED BY <2>1 DEF L!CutPosition, Rings, Contents
<1>2. /\ h \in Live(seq) /\ h \in ListHead /\ L!On(h) = Members(q) /\ seq \in Contents
      /\ q \in Seq(Entry) /\ Sound(q) /\ Len(q) \in Nat
    <2>1. h \in Live(seq) /\ L!On(h) = Members(q) /\ seq \in Contents
        BY Names DEF Rings
    <2> QED BY <2>1, RingLinks
<1>3. L!IsEmpty(h) <=> q = <<>>
    BY <1>2, EmptyIs DEF L!IsEmpty
<1>4. CASE q = <<>>
    BY <1>1, <1>3, <1>4
<1>5. CASE q # <<>> /\ e = h
    <2>1. s' = L!InitHead(s, l)
        BY <1>1, <1>3, <1>5
    <2>2. SubSeq(q, 1, 0) = <<>> /\ SubSeq(q, 0 + 1, Len(q)) = q
        BY <1>2
    <2>3. seq' = [seq EXCEPT ![l] = <<>>]
        <3>1. seq' = [seq EXCEPT ![l] = SubSeq(q, 1, 0), ![h] = SubSeq(q, 0 + 1, Len(q))]
            BY <1>1, <1>5
        <3>2. seq' = [seq EXCEPT ![l] = <<>>, ![h] = seq[h]]
            BY <3>1, <2>2
        <3> QED BY <3>2, <1>1, <1>2 DEF Contents
    <2>4. seq[l] = <<>> \/ seq[l] = L!LOST
        BY <1>1
    <2>5. Rings(L!InitHead(s, l), [seq EXCEPT ![l] = <<>>])
        BY <2>4, MakeHead
    <2> QED BY <2>1, <2>3, <2>5
<1>6. CASE q # <<>> /\ e # h
    <2>1. e \in Members(q) /\ i \in 1 .. Len(q) /\ q[i] = e
        BY <1>1, <1>2, <1>6, Names
    <2>2. s.next[h] = At(h, q, 1) /\ s.prev[h] = At(h, q, Len(q))
        BY <1>2, RingLinks
    <2> HIDE DEF i
    <2>3. ~(L!IsSingular(h) /\ s.next[h] # e)
        <3> SUFFICES ASSUME s.next[h] = s.prev[h] PROVE s.next[h] = e
            BY DEF L!IsSingular
        <3>1. 1 \in 1 .. Len(q) /\ Len(q) \in 1 .. Len(q)
            BY <1>2, <1>6
        <3>2. s.next[h] = q[1] /\ s.prev[h] = q[Len(q)]
            BY <2>2, <3>1 DEF At
        <3>3. Len(q) = 1
            BY <3>1, <3>2, <1>2 DEF Sound
        <3> QED BY <3>2, <3>3, <2>1
    <2>4. s' = L!CutAt(l, h, q[i])
        BY <2>1, <2>3, <1>1, <1>3, <1>6
    <2>5. CutIn(q, i, SubSeq(q, 1, i), SubSeq(q, i + 1, Len(q)))
        <3>1. i \in 0 .. Len(q)
            BY <1>2, <2>1
        <3> HIDE DEF q
        <3> QED BY <3>1, <1>2, CutSequence
    <2>6. i \in 1 .. Len(seq[h])
        BY <2>1
    <2>7. Rings(L!CutAt(l, h, seq[h][i]),
                [seq EXCEPT ![l] = SubSeq(q, 1, i), ![h] = SubSeq(q, i + 1, Len(q))])
        BY <1>1, <1>2, <2>5, <2>6, CutRings
    <2> QED BY <2>4, <2>7, <1>1, <1>6
<1> QED BY <1>4, <1>5, <1>6
----------------------------------------------------------------------------
(* What a splice assigns: the path from f to g goes between a and b. *)
SpliceLinks(m, a, b, f, g) ==
    /\ m \in Links
    /\ m.next[a] = f /\ m.next[g] = b /\ m.prev[f] = a /\ m.prev[b] = g
    /\ \A x \in L!Cell \ {a, g} : m.next[x] = s.next[x]
    /\ \A x \in L!Cell \ {b, f} : m.prev[x] = s.prev[x]
LEMMA SpliceBetweenIs ==
    ASSUME s \in Links, NEW l \in L!Cell, NEW a \in L!Cell, NEW b \in L!Cell,
           NEW f \in L!Cell, NEW g \in L!Cell, s.next[l] = f, s.prev[l] = g, a # g, b # f
    PROVE  SpliceLinks(L!SpliceBetween(l, a, b), a, b, f, g)
    BY DEF SpliceLinks, Links, L!SpliceBetween

(* The entries of l go after place k of h, and l keeps its pointers. *)
LEMMA SpliceRings ==
    ASSUME Rings(s, seq), NEW h \in Live(seq), NEW l \in Live(seq), l # h, seq[l] # <<>>,
           NEW k \in 0 .. Len(seq[h]), NEW r \in Seq(Entry), Spliced(seq[h], k, seq[l], r)
    PROVE  Rings(L!SpliceBetween(l, At(h, seq[h], k), At(h, seq[h], k + 1)),
                 [seq EXCEPT ![h] = r, ![l] = L!LOST])
<1> DEFINE q == seq[h]
           p == seq[l]
           a == At(h, q, k)
           b == At(h, q, k + 1)
           f == p[1]
           g == p[Len(p)]
           m == L!SpliceBetween(l, a, b)
           Q2 == [seq EXCEPT ![h] = r, ![l] = L!LOST]
           T == {h, l}
<1>1. /\ h \in ListHead /\ l \in ListHead /\ s \in Links /\ seq \in Contents
      /\ Sound(q) /\ Ring(s.next, s.prev, h, q) /\ Sound(p) /\ Ring(s.next, s.prev, l, p)
      /\ h \in L!Cell /\ l \in L!Cell /\ Members(q) \intersect Members(p) = {}
    BY Cells DEF Rings, Live
<1>2. RingCells(h, q) /\ RingCells(l, p)
    BY <1>1, CellsOfRing
<1>3. /\ Len(q) \in Nat /\ Len(p) \in Nat \ {0} /\ k \in Nat /\ k <= Len(q)
      /\ 1 \in 1 .. Len(p) /\ Len(p) \in 1 .. Len(p) /\ Len(p) \in 0 .. Len(p)
      /\ 0 \in 0 .. Len(p) /\ 0 + 1 = 1
      /\ k \in 0 .. Len(q) /\ k \in 0 .. Len(q) + 1
      /\ k + 1 \in 0 .. Len(q) + 1 /\ k + 1 \in 1 .. Len(q) + 1
    <2>1. Len(q) \in Nat /\ Len(p) \in Nat /\ p \in Seq(Entry)
        BY <1>1 DEF Sound
    <2>2. Len(p) # 0
        BY <2>1
    <2> QED BY <2>1, <2>2
<1>4. /\ f \in Entry /\ g \in Entry /\ f \in Members(p) /\ g \in Members(p)
      /\ At(l, p, 1) = f /\ At(l, p, Len(p)) = g /\ At(l, p, 0) = l /\ At(l, p, Len(p) + 1) = l
    BY <1>2, <1>3 DEF RingCells
<1>5. s.next[l] = f /\ s.prev[l] = g
    BY <1>1, <1>3, <1>4 DEF Ring
<1>6. a \in L!Cell /\ b \in L!Cell /\ a \in {h} \union Members(q) /\ b \in {h} \union Members(q)
    BY <1>2, <1>3 DEF RingCells
<1>7. a # g /\ b # f /\ f \in L!Cell /\ g \in L!Cell
    BY <1>1, <1>4, <1>6, Cells
<1>8. SpliceLinks(m, a, b, f, g)
    <2> HIDE DEF a, b, f, g
    <2> QED BY <1>1, <1>5, <1>6, <1>7, SpliceBetweenIs
<1> HIDE DEF m
<1>9. /\ m \in Links
      /\ m.next[a] = f /\ m.next[g] = b /\ m.prev[f] = a /\ m.prev[b] = g
      /\ \A x \in L!Cell \ {a, g} : m.next[x] = s.next[x]
      /\ \A x \in L!Cell \ {b, f} : m.prev[x] = s.prev[x]
    BY <1>8 DEF SpliceLinks
<1>10. Path(m.next, m.prev, p)
    <2> SUFFICES ASSUME NEW i \in 1 .. Len(p) - 1
                 PROVE  m.next[p[i]] = p[i + 1] /\ m.prev[p[i + 1]] = p[i]
        BY DEF Path
    <2>1. /\ i \in 1 .. Len(p) /\ i + 1 \in 1 .. Len(p) /\ i \in 0 .. Len(p)
          /\ i # Len(p) /\ i + 1 # 1
        BY <1>3
    <2>2. s.next[p[i]] = p[i + 1] /\ s.prev[p[i + 1]] = p[i]
        BY <2>1, <1>1, <1>2 DEF Ring, RingCells
    <2>3. p[i] # g /\ p[i + 1] # f
        BY <2>1, <1>1, <1>3 DEF Sound
    <2>4. p[i] \in Members(p) /\ p[i + 1] \in Members(p) /\ p[i] \in Entry /\ p[i + 1] \in Entry
        BY <2>1, <1>2 DEF RingCells
    <2>5. p[i] # a /\ p[i + 1] # b /\ p[i] \in L!Cell /\ p[i + 1] \in L!Cell
        BY <2>4, <1>1, <1>6, Cells
    <2> QED BY <2>2, <2>3, <2>5, <1>9
<1>11. ASSUME NEW i \in 0 .. Len(q), i # k
       PROVE  /\ m.next[At(h, q, i)] = s.next[At(h, q, i)]
              /\ m.prev[At(h, q, i + 1)] = s.prev[At(h, q, i + 1)]
    <2>1. i \in 0 .. Len(q) + 1 /\ i + 1 \in 0 .. Len(q) + 1 /\ i + 1 \in 1 .. Len(q) + 1
          /\ i + 1 # k + 1
        BY <1>3, <1>11
    <2>2. At(h, q, i) # a /\ At(h, q, i + 1) # b
        BY <2>1, <1>2, <1>3, <1>11 DEF RingCells
    <2>3. /\ At(h, q, i) \in L!Cell /\ At(h, q, i + 1) \in L!Cell
          /\ At(h, q, i) \in {h} \union Members(q) /\ At(h, q, i + 1) \in {h} \union Members(q)
        BY <2>1, <1>2 DEF RingCells
    <2>4. At(h, q, i) # g /\ At(h, q, i + 1) # f
        BY <2>3, <1>1, <1>4, Cells
    <2> QED BY <2>2, <2>3, <2>4, <1>9
<1>12. PutInto(s.next, s.prev, m.next, m.prev, h, q, k, p)
    BY <1>9, <1>10, <1>11 DEF PutInto
<1> HIDE DEF f, g, a, b
<1>13. Ring(m.next, m.prev, h, r)
    <2>1. Spliced(q, k, p, r)
        OBVIOUS
    <2> HIDE DEF q, p
    <2> QED BY <2>1, <1>1, <1>3, <1>12, RingSplice
<1>14. Sound(r) /\ Members(r) = Members(q) \union Members(p)
    <2>1. Spliced(q, k, p, r)
        OBVIOUS
    <2> HIDE DEF q, p
    <2> QED BY <2>1, <1>1, <1>3, SplicedMembers
<1>15. r # L!LOST
    BY NotLost
<1>16. /\ Q2 \in Contents /\ Q2[l] = L!LOST /\ Q2[h] = r
       /\ \A x \in ListHead \ T : Q2[x] = seq[x]
    BY <1>1, <1>15 DEF Contents
<1>17. Touched(seq, T, {}) = T \union Members(q) \union Members(p)
    BY DEF Touched
<1> HIDE DEF Q2, q, p
<1>18. T \intersect Live(Q2) = {h}
    BY <1>1, <1>15, <1>16 DEF Live
<1>19. (Entry \intersect (T \union Members(q) \union Members(p))) \ Used(Q2) = {}
    <2>1. Members(Q2[h]) \subseteq Used(Q2)
        BY <1>18 DEF Used
    <2> QED BY <2>1, <1>1, <1>14, <1>16, Cells
<1>20. T \in SUBSET ListHead /\ {} \in SUBSET Entry /\ {} \intersect Used(seq) = {}
    BY <1>1
<1>21. \A x \in L!Cell \ (T \union Members(q) \union Members(p)) :
           m.next[x] = s.next[x] /\ m.prev[x] = s.prev[x]
    BY <1>4, <1>6, <1>9
<1>22. /\ Sound(Q2[h]) /\ Ring(m.next, m.prev, h, Q2[h])
       /\ Members(Q2[h]) \subseteq T \union Members(q) \union Members(p)
    BY <1>13, <1>14, <1>16
<1> HIDE DEF T
<1>23. OnlyTouched(s, seq, m, Q2, T, {})
    BY <1>9, <1>16, <1>17, <1>18, <1>19, <1>20, <1>21, <1>22 DEF OnlyTouched
<1> QED BY <1>23, RingsAfter DEF m, Q2, q, a, b

LEMMA SpliceStep ==
    ASSUME Rings(s, seq), NEW h \in L!Lists, NEW l \in L!Lists, NEW tail \in BOOLEAN,
           NEW init \in BOOLEAN, L!Splice(l, h, tail, init)
    PROVE  Rings(s', seq')
<1> DEFINE q == seq[h]
           p == seq[l]
           r == IF tail THEN q \o p ELSE p \o q
           a == IF tail THEN L!SpliceBetween(l, s.prev[h], h) ELSE L!SpliceBetween(l, h, s.next[h])
           Q == [seq EXCEPT ![h] = r, ![l] = L!LOST]
<1>1. /\ h \in Live(seq) /\ l \in Live(seq) /\ l # h
    BY Names DEF L!Splice
<1>2. /\ q \in Seq(Entry) /\ p \in Seq(Entry) /\ Len(q) \in Nat /\ seq \in Contents
      /\ h \in ListHead /\ l \in ListHead
      /\ s.next[h] = At(h, q, 1) /\ s.prev[h] = At(h, q, Len(q))
    <2>1. /\ q \in Seq(Entry) /\ Len(q) \in Nat /\ h \in ListHead
          /\ s.next[h] = At(h, q, 1) /\ s.prev[h] = At(h, q, Len(q))
        BY <1>1, RingLinks
    <2>2. p \in Seq(Entry) /\ l \in ListHead
        BY <1>1, RingLinks
    <2> QED BY <2>1, <2>2 DEF Rings
<1>3. s' = IF p = <<>> THEN s ELSE IF init THEN L!InitHead(a, l) ELSE a
    BY <1>1, EmptyIs DEF L!Splice, L!IsEmpty
<1>4. seq' = [seq EXCEPT ![h] = r, ![l] = IF init \/ p = <<>> THEN <<>> ELSE L!LOST]
    BY <1>1, <1>2 DEF L!Splice, Contents
<1>5. CASE p = <<>>
    <2>1. r = q
        BY <1>2, <1>5
    <2>2. seq' = [seq EXCEPT ![h] = seq[h], ![l] = seq[l]]
        BY <1>4, <1>5, <2>1
    <2>3. seq' = seq
        BY <2>2, <1>2 DEF Contents
    <2> QED BY <1>3, <1>5, <2>3
<1>6. CASE p # <<>>
    <2>1. Rings(a, Q)
        <3>1. /\ p \o q \in Seq(Entry) /\ Spliced(q, 0, p, p \o q)
              /\ q \o p \in Seq(Entry) /\ Spliced(q, Len(q), p, q \o p)
            <4> HIDE DEF p, q
            <4> QED BY <1>2, SplicedEnds
        <3>2. /\ 0 \in 0 .. Len(q) /\ Len(q) \in 0 .. Len(q) /\ 0 + 1 = 1
              /\ At(h, q, 0) = h /\ At(h, q, Len(q) + 1) = h
            BY <1>2 DEF At
        <3>3. Rings(L!SpliceBetween(l, At(h, seq[h], 0), At(h, seq[h], 0 + 1)),
                    [seq EXCEPT ![h] = p \o q, ![l] = L!LOST])
            BY <1>1, <1>6, <3>1, <3>2, SpliceRings
        <3>4. Rings(L!SpliceBetween(l, At(h, seq[h], Len(q)), At(h, seq[h], Len(q) + 1)),
                    [seq EXCEPT ![h] = q \o p, ![l] = L!LOST])
            BY <1>1, <1>6, <3>1, <3>2, SpliceRings
        <3>5. CASE tail
            BY <3>2, <3>4, <3>5, <1>2
        <3>6. CASE ~tail
            BY <3>2, <3>3, <3>6, <1>2
        <3> QED BY <3>5, <3>6
    <2>2. Q[l] = L!LOST
        BY <1>2 DEF Contents
    <2>3. init => seq' = [Q EXCEPT ![l] = <<>>]
        BY <1>1, <1>2, <1>4 DEF Contents
    <2>4. ~init => seq' = Q
        BY <1>4, <1>6
    <2> HIDE DEF a, Q, r
    <2>5. Rings(L!InitHead(a, l), [Q EXCEPT ![l] = <<>>])
        BY <2>1, <2>2, <1>2, MakeHead
    <2> QED BY <2>1, <2>3, <2>4, <2>5, <1>3, <1>6
<1> QED BY <1>5, <1>6
----------------------------------------------------------------------------
(***************************************************************************)
(* The iterations.  They walk the sequence of their list, or its reverse;  *)
(* after k - 1 of its entries the cursor is at place k, and the next cell  *)
(* of a safe iteration is at the place after it.                           *)
(***************************************************************************)
Walked(q, bk) == IF bk THEN L!Reverse(q) ELSE q
NextOf(l, bk) == IF bk THEN l.prev ELSE l.next
Ahead(a, k, rest) ==
    /\ k \in 1 .. Len(a) + 1 /\ rest \in Seq(Entry) /\ Len(rest) = Len(a) + 1 - k
    /\ \A i \in 1 .. Len(rest) : rest[i] = a[(k - 1) + i]
Meets(hd, a, k, cur, nxt, rest) ==
    /\ Ahead(a, k, rest) /\ cur = At(hd, a, k)
    /\ nxt # L!POISON1 /\ cur # hd => nxt = At(hd, a, k + 1)

(* What the walk of a list in one direction follows. *)
WalkIs(l, hd, q, bk) ==
    LET a == Walked(q, bk)
    IN  /\ a \in Seq(Entry) /\ Len(a) = Len(q) /\ RingCells(hd, a) /\ Members(a) = Members(q)
        /\ \A i \in 0 .. Len(a) : NextOf(l, bk)[At(hd, a, i)] = At(hd, a, i + 1)

LEMMA ReverseIs ==
    ASSUME NEW q \in Seq(Entry)
    PROVE  /\ L!Reverse(q) \in Seq(Entry) /\ Len(L!Reverse(q)) = Len(q) /\ Len(q) \in Nat
           /\ \A i \in 1 .. Len(q) : /\ Len(q) + 1 - i \in 1 .. Len(q)
                                     /\ L!Reverse(q)[i] = q[Len(q) + 1 - i]
<1> DEFINE r == L!Reverse(q)
<1>1. r = [i \in 1 .. Len(q) |-> q[Len(q) - i + 1]] /\ Len(q) \in Nat
    BY DEF L!Reverse
<1>2. \A i \in 1 .. Len(q) : Len(q) - i + 1 = Len(q) + 1 - i /\ Len(q) - i + 1 \in 1 .. Len(q)
    BY <1>1
<1>3. r \in [1 .. Len(q) -> Entry]
    BY <1>1, <1>2
<1>4. r \in Seq(Entry) /\ Len(r) = Len(q)
    BY <1>1, <1>3
<1>5. \A i \in 1 .. Len(q) : r[i] = q[Len(q) + 1 - i]
    BY <1>1, <1>2
<1> QED BY <1>1, <1>2, <1>4, <1>5

LEMMA Walks ==
    ASSUME NEW l, NEW Q, Rings(l, Q), NEW h \in Live(Q), NEW bk \in BOOLEAN
    PROVE  WalkIs(l, h, Q[h], bk)
<1> SUFFICES ASSUME NEW q, q = Q[h] PROVE WalkIs(l, h, q, bk)
    OBVIOUS
<1>1. h \in ListHead /\ Sound(q) /\ Ring(l.next, l.prev, h, q) /\ q \in Seq(Entry)
    BY DEF Rings, Live, Sound
<1>2. RingCells(h, q)
    BY <1>1, CellsOfRing
<1>3. CASE ~bk
    BY <1>1, <1>2, <1>3 DEF WalkIs, Walked, NextOf, Ring
<1>4. CASE bk
    <2> DEFINE a == L!Reverse(q)
    <2>1. /\ a \in Seq(Entry) /\ Len(a) = Len(q) /\ Len(q) \in Nat
          /\ \A i \in 1 .. Len(q) : /\ Len(q) + 1 - i \in 1 .. Len(q)
                                    /\ a[i] = q[Len(q) + 1 - i]
        BY <1>1, ReverseIs
    <2> HIDE DEF a
    <2>2. Sound(a)
        <3>1. \A i, j \in 1 .. Len(q) : q[i] = q[j] => i = j
            BY <1>1 DEF Sound
        <3>2. ASSUME NEW i \in 1 .. Len(q), NEW j \in 1 .. Len(q), a[i] = a[j] PROVE i = j
            <4> DEFINE x == Len(q) + 1 - i
                       y == Len(q) + 1 - j
            <4>1. x \in 1 .. Len(q) /\ a[i] = q[x] /\ y \in 1 .. Len(q) /\ a[j] = q[y]
                BY <2>1
            <4> HIDE DEF x, y
            <4>2. x = y
                BY <4>1, <3>1, <3>2
            <4> QED BY <4>2, <2>1 DEF x, y
        <3> QED BY <2>1, <3>2 DEF Sound
    <2>3. Members(a) = Members(q)
        <3>1. Members(a) \subseteq Members(q)
            BY <2>1 DEF Members
        <3>2. ASSUME NEW i \in 1 .. Len(q) PROVE q[i] \in Members(a)
            <4>1. Len(q) + 1 - (Len(q) + 1 - i) = i
                BY <2>1
            <4>2. a[Len(q) + 1 - i] = q[i] /\ Len(q) + 1 - i \in 1 .. Len(a)
                BY <4>1, <2>1
            <4> QED BY <4>2 DEF Members
        <3> QED BY <3>1, <3>2 DEF Members
    <2>4. RingCells(h, a)
        BY <1>1, <2>2, CellsOfRing
    <2>5. ASSUME NEW i \in 0 .. Len(q) + 1 PROVE At(h, a, i) = At(h, q, Len(q) + 1 - i)
        <3>1. CASE i \in 1 .. Len(q)
            BY <3>1, <2>1 DEF At
        <3>2. CASE i = 0 \/ i = Len(q) + 1
            <4>1. i \notin 1 .. Len(a) /\ Len(q) + 1 - i \notin 1 .. Len(q)
                BY <3>2, <2>1
            <4> QED BY <4>1 DEF At
        <3> QED BY <2>1, <3>1, <3>2
    <2>6. ASSUME NEW i \in 0 .. Len(a) PROVE l.prev[At(h, a, i)] = At(h, a, i + 1)
        <3> DEFINE j == Len(q) - i
        <3>1. /\ i \in 0 .. Len(q) + 1 /\ i + 1 \in 0 .. Len(q) + 1
              /\ j \in 0 .. Len(q) /\ Len(q) + 1 - i = j + 1 /\ Len(q) + 1 - (i + 1) = j
            BY <2>1
        <3>2. At(h, a, i) = At(h, q, j + 1) /\ At(h, a, i + 1) = At(h, q, j)
            <4>1. At(h, a, i) = At(h, q, Len(q) + 1 - i)
                  /\ At(h, a, i + 1) = At(h, q, Len(q) + 1 - (i + 1))
                BY <3>1, <2>5
            <4> QED BY <4>1, <3>1
        <3> HIDE DEF j
        <3> QED BY <3>1, <3>2, <1>1 DEF Ring
    <2> QED BY <2>1, <2>3, <2>4, <2>6, <1>4 DEF WalkIs, Walked, NextOf, a
<1> QED BY <1>3, <1>4

(* The walk goes on at place k of the sequence that its list has then. *)
LEMMA Advances ==
    ASSUME NEW l, NEW Q, Rings(l, Q), NEW hd \in Live(Q), NEW bk \in BOOLEAN,
           NEW k, NEW rest, Ahead(Walked(Q[hd], bk), k, rest),
           NEW nxt, nxt # L!POISON1 => nxt = At(hd, Walked(Q[hd], bk), k)
    PROVE  Meets(hd, Walked(Q[hd], bk), k, At(hd, Walked(Q[hd], bk), k),
                 IF nxt = L!POISON1 THEN L!POISON1 ELSE NextOf(l, bk)[nxt], rest)
<1> SUFFICES ASSUME NEW a, a = Walked(Q[hd], bk)
             PROVE  Meets(hd, a, k, At(hd, a, k),
                          IF nxt = L!POISON1 THEN L!POISON1 ELSE NextOf(l, bk)[nxt], rest)
    OBVIOUS
<1>1. /\ Len(a) \in Nat
      /\ \A i \in 0 .. Len(a) : NextOf(l, bk)[At(hd, a, i)] = At(hd, a, i + 1)
      /\ At(hd, a, Len(a) + 1) = hd
    BY Walks DEF WalkIs, RingCells
<1>2. k \in 1 .. Len(a) + 1
    BY DEF Ahead
<1>3. ASSUME At(hd, a, k) # hd, nxt # L!POISON1 PROVE NextOf(l, bk)[nxt] = At(hd, a, k + 1)
    <2>1. k \in 0 .. Len(a)
        BY <1>1, <1>2, <1>3
    <2> QED BY <2>1, <1>1, <1>3
<1> QED BY <1>3 DEF Meets

(* The walk of a sequence that the entry at place k is taken off. *)
Skips(a, a2, k) ==
    /\ Len(a) = Len(a2) + 1 /\ Len(a2) \in Nat
    /\ \A i \in k .. Len(a2) : a2[i] = a[i + 1]
LEMMA WalkRemoved ==
    ASSUME NEW q, Sound(q), NEW r \in Seq(Entry), NEW i \in 0 .. Len(r), NEW e,
           Spliced(r, i, <<e>>, q), NEW bk \in BOOLEAN,
           NEW k \in 1 .. Len(q), Walked(q, bk)[k] = e
    PROVE  Skips(Walked(q, bk), Walked(r, bk), k)
<1> DEFINE p == <<e>>
<1>0. Len(p) = 1 /\ p[1] = e /\ Spliced(r, i, p, q)
    OBVIOUS
<1> HIDE DEF p
<1>1. /\ Len(r) \in Nat /\ i \in Nat /\ i <= Len(r) /\ Len(q) = Len(r) + 1
      /\ \A j \in 1 .. i : q[j] = r[j]
      /\ q[i + 1] = e /\ i + 1 \in 1 .. Len(q)
      /\ \A j \in i + 1 .. Len(r) : q[j + 1] = r[j]
    <2>1. /\ Len(q) = Len(r) + Len(p)
          /\ \A j \in 1 .. i : q[j] = r[j]
          /\ \A j \in 1 .. Len(p) : q[i + j] = p[j]
          /\ \A j \in i + 1 .. Len(r) : q[Len(p) + j] = r[j]
        BY <1>0 DEF Spliced
    <2>2. \A j \in i + 1 .. Len(r) : Len(p) + j = j + 1
        BY <1>0
    <2> QED BY <2>1, <2>2, <1>0
<1>2. q \in Seq(Entry) /\ \A x, y \in 1 .. Len(q) : q[x] = q[y] => x = y
    BY DEF Sound
<1>3. CASE ~bk
    <2>1. k = i + 1
        BY <1>1, <1>2, <1>3 DEF Walked
    <2> QED BY <2>1, <1>1, <1>3 DEF Walked, Skips
<1>4. CASE bk
    <2>1. /\ Len(L!Reverse(q)) = Len(q)
          /\ \A j \in 1 .. Len(q) : L!Reverse(q)[j] = q[Len(q) + 1 - j]
          /\ Len(q) + 1 - k \in 1 .. Len(q)
        BY <1>2, ReverseIs
    <2>2. /\ Len(L!Reverse(r)) = Len(r)
          /\ \A j \in 1 .. Len(r) : L!Reverse(r)[j] = r[Len(r) + 1 - j]
        BY ReverseIs
    <2>3. Len(q) + 1 - k = i + 1
        BY <2>1, <1>1, <1>2, <1>4 DEF Walked
    <2>4. ASSUME NEW j \in k .. Len(r) PROVE L!Reverse(r)[j] = L!Reverse(q)[j + 1]
        <3> DEFINE x == Len(r) + 1 - j
        <3>1. /\ x \in 1 .. i /\ j \in 1 .. Len(r) /\ j + 1 \in 1 .. Len(q)
              /\ Len(q) + 1 - (j + 1) = x
            BY <2>3, <1>1
        <3>2. L!Reverse(r)[j] = r[x] /\ L!Reverse(q)[j + 1] = q[Len(q) + 1 - (j + 1)]
            BY <3>1, <2>1, <2>2
        <3> HIDE DEF x
        <3> QED BY <3>1, <3>2, <1>1
    <2> QED BY <2>1, <2>2, <2>4, <1>1, <1>4 DEF Walked, Skips
<1> QED BY <1>3, <1>4

(* What is ahead when the cursor moves on. *)
LEMMA AheadTail ==
    ASSUME NEW a, NEW k, NEW rest, Len(a) \in Nat, Ahead(a, k, rest), k \in 1 .. Len(a)
    PROVE  /\ Ahead(a, k + 1, Tail(rest))
           /\ \A a2 : Skips(a, a2, k) => Ahead(a2, k, Tail(rest))
<1>1. /\ rest \in Seq(Entry) /\ Len(rest) = Len(a) + 1 - k
      /\ \A i \in 1 .. Len(rest) : rest[i] = a[(k - 1) + i]
    BY DEF Ahead
<1> DEFINE t2 == Tail(rest)
<1>2. /\ t2 \in Seq(Entry) /\ Len(t2) = Len(a) - k
      /\ \A i \in 1 .. Len(t2) : i + 1 \in 1 .. Len(rest) /\ t2[i] = rest[i + 1]
    BY <1>1
<1> HIDE DEF t2
<1>3. ASSUME NEW i \in 1 .. Len(t2) PROVE t2[i] = a[k + i]
    <2>1. (k - 1) + (i + 1) = k + i
        BY <1>2
    <2> QED BY <2>1, <1>1, <1>2
<1>4. Ahead(a, k + 1, t2)
    <2>1. k \in Nat /\ k >= 1 /\ k <= Len(a)
        OBVIOUS
    <2>2. k + 1 \in 1 .. Len(a) + 1
        BY <2>1
    <2>3. Len(a) + 1 - (k + 1) = Len(a) - k /\ (k + 1) - 1 = k
        BY <2>1
    <2> QED BY <2>2, <2>3, <1>2, <1>3 DEF Ahead
<1>5. ASSUME NEW a2, Skips(a, a2, k) PROVE Ahead(a2, k, t2)
    <2>1. /\ Len(a) = Len(a2) + 1 /\ Len(a2) \in Nat
          /\ \A i \in k .. Len(a2) : a2[i] = a[i + 1]
        BY <1>5 DEF Skips
    <2>2. ASSUME NEW i \in 1 .. Len(t2) PROVE t2[i] = a2[(k - 1) + i]
        <3>1. (k - 1) + i \in k .. Len(a2) /\ ((k - 1) + i) + 1 = k + i
            BY <2>1, <1>2
        <3> QED BY <3>1, <2>1, <1>3
    <2>3. k \in 1 .. Len(a2) + 1 /\ Len(t2) = Len(a2) + 1 - k
        BY <2>1, <1>2
    <2> QED BY <2>2, <2>3, <1>2 DEF Ahead
<1> QED BY <1>4, <1>5 DEF t2
Iterating ==
    head # L!POISON1 =>
        /\ head \in Live(seq) /\ back \in BOOLEAN
        /\ \E k \in Nat : Meets(head, Walked(seq[head], back), k, pos, n, todo)

LEMMA IterateStep ==
    ASSUME Rings(s, seq), NEW h \in L!Lists, NEW safe \in BOOLEAN, L!Iterate(h, safe)
    PROVE  Rings(s', seq') /\ Iterating'
<1> DEFINE a == Walked(seq[h], back')
<1>1. /\ h \in Live(seq) /\ s' = s /\ seq' = seq /\ back' \in BOOLEAN /\ head' = h
      /\ L!On(h) = Members(seq[h])
    BY Names DEF L!Iterate
<1>2. PICK c \in L!On(h) \union {h}, after \in BOOLEAN :
        LET i == IF c = h THEN 0 ELSE CHOOSE j \in DOMAIN a : a[j] = c
        IN  /\ c = h => after
            /\ pos' = IF after THEN NextOf(s', back')[c] ELSE c
            /\ todo' = SubSeq(a, IF after THEN i + 1 ELSE i, Len(a))
    BY DEF L!Iterate, L!Follow, NextOf, Walked
<1>3. n' = IF safe THEN NextOf(s', back')[pos'] ELSE L!POISON1
    BY DEF L!Iterate, L!Follow, NextOf
<1> DEFINE i == IF c = h THEN 0 ELSE CHOOSE j \in DOMAIN a : a[j] = c
           k == IF after THEN i + 1 ELSE i
<1>4. WalkIs(s, h, seq[h], back')
    BY <1>1, Walks
<1>5. /\ a \in Seq(Entry) /\ Len(a) \in Nat /\ At(h, a, 0) = h
      /\ At(h, a, Len(a) + 1) = h /\ Members(a) = Members(seq[h])
      /\ \A j \in 0 .. Len(a) : NextOf(s, back')[At(h, a, j)] = At(h, a, j + 1)
    BY <1>4 DEF WalkIs, RingCells
<1> HIDE DEF a
<1>6. i \in 0 .. Len(a) /\ At(h, a, i) = c /\ (c # h => i \in 1 .. Len(a))
    <2>1. CASE c = h
        BY <2>1, <1>5
    <2>2. CASE c # h
        <3>1. c \in Members(a)
            BY <2>2, <1>1, <1>5
        <3>2. \E j \in DOMAIN a : a[j] = c
            BY <3>1, <1>5 DEF Members
        <3>3. i \in DOMAIN a /\ a[i] = c
            BY <3>2, <2>2
        <3> HIDE DEF i
        <3>4. i \in 1 .. Len(a)
            BY <3>3, <1>5
        <3> QED BY <3>3, <3>4 DEF At
    <2> QED BY <2>1, <2>2
<1>7. /\ c = h => after
      /\ pos' = (IF after THEN NextOf(s, back')[c] ELSE c)
      /\ todo' = SubSeq(a, k, Len(a))
    BY <1>1, <1>2
<1> HIDE DEF i
<1>8. k \in 1 .. Len(a) + 1 /\ k \in Nat
    BY <1>5, <1>6, <1>7
<1>9. pos' = At(h, a, k)
    BY <1>5, <1>6, <1>7
<1> HIDE DEF k
<1>10. Ahead(a, k, todo')
    <2>1. /\ todo' \in Seq(Entry) /\ Len(todo') = Len(a) + 1 - k
          /\ \A j \in 1 .. Len(a) + 1 - k : todo'[j] = a[k + j - 1]
        BY <1>5, <1>7, <1>8
    <2>2. \A j \in 1 .. Len(a) + 1 - k : k + j - 1 = (k - 1) + j
        BY <1>8
    <2> QED BY <2>1, <2>2, <1>8 DEF Ahead
<1>11. ASSUME n' # L!POISON1, pos' # h PROVE n' = At(h, a, k + 1)
    <2>1. k \in 0 .. Len(a)
        BY <1>5, <1>8, <1>9, <1>11
    <2> QED BY <2>1, <1>1, <1>3, <1>5, <1>9, <1>11
<1>12. Meets(h, a, k, pos', n', todo')
    BY <1>9, <1>10, <1>11 DEF Meets
<1> QED BY <1>1, <1>8, <1>12 DEF Iterating, a

(* The cursor moves on in the list as the body left it. *)
LEMMA RoundAdvances ==
    ASSUME Rings(s', seq'), UNCHANGED <<head, back>>, L!Advance,
           head \in Live(seq'), back \in BOOLEAN,
           NEW k \in Nat, Ahead(Walked(seq'[head], back), k, todo'),
           pos' = At(head, Walked(seq'[head], back), k),
           n # L!POISON1 => n = At(head, Walked(seq'[head], back), k)
    PROVE  Iterating'
<1>1. n' = IF n = L!POISON1 THEN L!POISON1 ELSE NextOf(s', back)[n]
    BY DEF L!Advance, L!Follow, NextOf
<1>2. Meets(head, Walked(seq'[head], back), k, At(head, Walked(seq'[head], back), k),
            IF n = L!POISON1 THEN L!POISON1 ELSE NextOf(s', back)[n], todo')
    BY Advances
<1>3. Meets(head, Walked(seq'[head], back), k, pos', n', todo')
    BY <1>1, <1>2
<1> QED BY <1>3 DEF Iterating

LEMMA RoundStep ==
    ASSUME Rings(s, seq), Iterating, L!Round
    PROVE  Rings(s', seq') /\ Iterating'
<1>1. /\ head # L!POISON1 /\ pos # head /\ UNCHANGED <<head, back>> /\ L!Advance
      /\ head \in Live(seq) /\ back \in BOOLEAN
    BY DEF L!Round, Iterating
<1> DEFINE a == Walked(seq[head], back)
<1>2. PICK k \in Nat : Meets(head, a, k, pos, n, todo)
    BY <1>1 DEF Iterating
<1>3. WalkIs(s, head, seq[head], back)
    BY <1>1, Walks
<1>4. /\ a \in Seq(Entry) /\ Len(a) \in Nat /\ RingCells(head, a)
      /\ At(head, a, Len(a) + 1) = head /\ Members(a) = Members(seq[head])
      /\ \A j \in 0 .. Len(a) : NextOf(s, back)[At(head, a, j)] = At(head, a, j + 1)
      /\ Len(a) = Len(seq[head])
    BY <1>3 DEF WalkIs, RingCells
<1> HIDE DEF a
<1>5. Ahead(a, k, todo) /\ pos = At(head, a, k) /\ (n # L!POISON1 => n = At(head, a, k + 1))
    BY <1>1, <1>2 DEF Meets
<1>6. k \in 1 .. Len(a) /\ k + 1 \in Nat
    <2>1. k \in 1 .. Len(a) + 1 /\ k # Len(a) + 1
        BY <1>1, <1>4, <1>5 DEF Ahead
    <2> QED BY <2>1, <1>4
<1>7. pos = a[k] /\ pos \in Entry /\ pos \in Members(seq[head]) /\ pos \in Used(seq)
    BY <1>1, <1>4, <1>5, <1>6 DEF RingCells, Used
<1>8. /\ Ahead(a, k + 1, Tail(todo))
      /\ \A a2 : Skips(a, a2, k) => Ahead(a2, k, Tail(todo))
    BY <1>4, <1>5, <1>6, AheadTail
<1>9. CASE UNCHANGED <<s, seq>> /\ todo' = Tail(todo)
    <2>1. pos' = At(head, a, k + 1)
        <3>1. NextOf(s, back)[pos] = At(head, a, k + 1)
            BY <1>4, <1>5, <1>6
        <3> QED BY <3>1, <1>1, <1>5, <1>9 DEF L!Advance, L!Follow, NextOf
    <2> QED BY <2>1, <1>1, <1>5, <1>6, <1>8, <1>9, RoundAdvances DEF a
<1>10. CASE /\ n # L!POISON1 /\ todo' = Tail(todo)
            /\ \/ s' = L!Poisoned(L!Unlink(s, pos), pos) /\ seq' = L!Without(pos)
               \/ s' = L!InitHead(L!Unlink(s, pos), pos) /\ seq' = L!Without(pos)
               \/ \E h \in L!Lists \ {head}, tail \in BOOLEAN :
                      s' = L!MoveTo(s, pos, h, tail) /\ seq' = L!Moved(pos, h, tail)
    <2> DEFINE q == seq[head]
               i == L!Place(head, pos)
               r == L!RemoveAt(q, i)
               a2 == Walked(r, back)
    <2>1. /\ Live(L!Without(pos)) = Live(seq)
          /\ L!Without(pos) = [seq EXCEPT ![head] = r]
        BY <1>1, <1>7, Unlinked
    <2>2. i \in 1 .. Len(q) /\ q[i] = pos
        BY <1>1, <1>7, Names
    <2>3. q \in Seq(Entry) /\ Sound(q) /\ head \in ListHead
        BY <1>1, RingLinks
    <2>4. r \in Seq(Entry) /\ i - 1 \in 0 .. Len(r) /\ Spliced(r, i - 1, <<pos>>, q)
        <3> HIDE DEF i, q
        <3> QED BY <2>2, <2>3, RemovedAt
    <2>5. Skips(a, a2, k)
        <3> DEFINE j == i - 1
        <3>1. j \in 0 .. Len(r) /\ Spliced(r, j, <<pos>>, q)
            BY <2>4
        <3>2. Walked(q, back)[k] = pos /\ k \in 1 .. Len(q)
            BY <1>4, <1>6, <1>7 DEF a
        <3> HIDE DEF j, q, r
        <3> QED BY <3>1, <3>2, <1>1, <2>3, <2>4, WalkRemoved DEF a, q
    <2> HIDE DEF r, i, q
    <2>6. L!Without(pos)[head] = r
        BY <2>1, <2>3 DEF Rings, Contents
    <2>7. Rings(s', seq') /\ seq'[head] = r /\ head \in Live(seq')
        <3>1. CASE /\ \/ s' = L!Poisoned(L!Unlink(s, pos), pos)
                      \/ s' = L!InitHead(L!Unlink(s, pos), pos)
                   /\ seq' = L!Without(pos)
            BY <3>1, <1>1, <1>7, <2>1, <2>6, DeleteLinks
        <3>2. ASSUME NEW h \in L!Lists \ {head}, NEW tail \in BOOLEAN,
                     s' = L!MoveTo(s, pos, h, tail), seq' = L!Moved(pos, h, tail)
              PROVE  Rings(s', seq') /\ seq'[head] = r /\ head \in Live(seq')
            <4>1. h \in Live(seq) /\ h # head
                BY <3>2, Names
            <4>2. Rings(s', seq')
                BY <3>2, <4>1, <1>7, MoveLinks
            <4>3. seq'[head] = L!Without(pos)[head]
                BY <3>2, <4>1 DEF L!Moved, L!Without
            <4>4. r # L!LOST
                BY <2>4, NotLost
            <4> QED BY <4>2, <4>3, <4>4, <2>3, <2>6 DEF Live
        <3> QED BY <1>10, <3>1, <3>2
    <2>8. pos' = At(head, a2, k) /\ n = At(head, a2, k)
        <3>1. n = At(head, a, k + 1) /\ pos' = n
            BY <1>1, <1>5, <1>10 DEF L!Advance
        <3>2. At(head, a, k + 1) = At(head, a2, k)
            <4> HIDE DEF a2
            <4>1. /\ Len(a) = Len(a2) + 1 /\ Len(a2) \in Nat
                  /\ \A j \in k .. Len(a2) : a2[j] = a[j + 1]
                BY <2>5 DEF Skips
            <4>2. CASE k = Len(a)
                <5>1. k + 1 \notin 1 .. Len(a) /\ k \notin 1 .. Len(a2)
                    BY <4>1, <4>2
                <5> QED BY <5>1 DEF At
            <4>3. CASE k # Len(a)
                <5>1. k + 1 \in 1 .. Len(a) /\ k \in 1 .. Len(a2) /\ k \in k .. Len(a2)
                    BY <4>1, <4>3, <1>6
                <5> QED BY <5>1, <4>1 DEF At
            <4> QED BY <4>2, <4>3
        <3> QED BY <3>1, <3>2
    <2>9. Ahead(a2, k, todo')
        BY <1>8, <1>10, <2>5
    <2>10. Ahead(Walked(seq'[head], back), k, todo')
           /\ pos' = At(head, Walked(seq'[head], back), k)
           /\ n = At(head, Walked(seq'[head], back), k)
        BY <2>7, <2>8, <2>9
    <2> QED BY <2>7, <2>10, <1>1, RoundAdvances
<1>11. ASSUME n = L!POISON1, ~back, NEW e \in L!Off, s' = L!AddBefore(s, e, head),
              seq' = [seq EXCEPT ![head] = Append(@, e)], todo' = Append(Tail(todo), e)
       PROVE  Rings(s', seq') /\ Iterating'
    <2> DEFINE q == seq[head]
               a2 == Append(q, e)
    <2>1. /\ q \in Seq(Entry) /\ head \in ListHead /\ e \in Entry /\ e \notin Used(seq)
          /\ a = q
        <3>1. q \in Seq(Entry) /\ head \in ListHead
            BY <1>1, RingLinks
        <3> QED BY <3>1, <1>11, Names DEF a, Walked
    <2>2. a2 = q \o <<e>>
        BY <2>1
    <2>3. Rings(s', seq')
        <3>1. Rings(L!AddBefore(s, e, head), [seq EXCEPT ![head] = seq[head] \o <<e>>])
            BY <2>1, <1>1, AddEnds
        <3> QED BY <3>1, <2>2, <1>11
    <2>4. seq'[head] = a2 /\ head \in Live(seq')
        <3>1. seq'[head] = a2
            BY <2>1, <1>11 DEF Rings, Contents
        <3>2. a2 \in Seq(Entry)
            BY <2>1
        <3> HIDE DEF a2
        <3> QED BY <3>1, <3>2, <2>1, NotLost DEF Live
    <2>5. /\ a2 \in Seq(Entry) /\ Len(a2) = Len(a) + 1 /\ a2[Len(a) + 1] = e
          /\ \A j \in 1 .. Len(a) : a2[j] = a[j]
        BY <2>1
    <2> HIDE DEF a2
    <2>0. Len(a) \in Nat /\ k \in Nat /\ k >= 1 /\ k <= Len(a)
        BY <1>4, <1>6
    <2>6. Ahead(a2, k + 1, todo')
        <3> DEFINE t2 == Tail(todo)
        <3>1. /\ t2 \in Seq(Entry) /\ Len(t2) = Len(a) - k
              /\ \A j \in 1 .. Len(t2) : t2[j] = a[k + j]
            <4>1. (k + 1) - 1 = k /\ Len(a) + 1 - (k + 1) = Len(a) - k
                BY <2>0
            <4> QED BY <4>1, <1>8 DEF Ahead
        <3> HIDE DEF t2
        <3>2. /\ todo' \in Seq(Entry) /\ Len(todo') = Len(t2) + 1 /\ todo'[Len(t2) + 1] = e
              /\ \A j \in 1 .. Len(t2) : todo'[j] = t2[j]
            BY <3>1, <2>1, <1>11 DEF t2
        <3>3. ASSUME NEW j \in 1 .. Len(todo') PROVE todo'[j] = a2[k + j]
            <4>1. CASE j = Len(t2) + 1
                <5>1. k + j = Len(a) + 1
                    BY <4>1, <3>1, <1>4, <1>6
                <5> QED BY <5>1, <4>1, <3>2, <2>5
            <4>2. CASE j # Len(t2) + 1
                <5>1. j \in 1 .. Len(t2) /\ k + j \in 1 .. Len(a)
                    <6>1. Len(t2) = Len(a) - k /\ Len(todo') = Len(t2) + 1 /\ j \in 1 .. Len(todo')
                        BY <3>1, <3>2
                    <6> QED BY <6>1, <4>2, <2>0
                <5> QED BY <5>1, <3>1, <3>2, <2>5
            <4> QED BY <4>1, <4>2
        <3>4. /\ k + 1 \in 1 .. Len(a2) + 1 /\ Len(todo') = Len(a2) + 1 - (k + 1)
              /\ (k + 1) - 1 = k
            <4>1. /\ Len(t2) = Len(a) - k /\ Len(todo') = Len(t2) + 1
                  /\ Len(a2) = Len(a) + 1
                BY <3>1, <3>2, <2>5
            <4> QED BY <4>1, <2>0
        <3> QED BY <3>2, <3>3, <3>4 DEF Ahead
    <2>7. Walked(seq'[head], back) = a2
        BY <2>4, <1>11 DEF Walked
    <2>8. pos' = At(head, a2, k + 1)
        <3>1. WalkIs(s', head, seq'[head], back)
            BY <2>3, <2>4, <1>1, Walks
        <3>2. \A j \in 0 .. Len(a2) : NextOf(s', back)[At(head, a2, j)] = At(head, a2, j + 1)
            BY <3>1, <2>7 DEF WalkIs
        <3>3. k \in 0 .. Len(a2) /\ k \in 1 .. Len(a2)
            BY <2>5, <1>4, <1>6
        <3>4. pos = At(head, a2, k)
            BY <3>3, <2>5, <1>6, <1>7 DEF At
        <3> QED BY <3>2, <3>3, <3>4, <1>1, <1>11 DEF L!Advance, L!Follow, NextOf
    <2>9. /\ Ahead(Walked(seq'[head], back), k + 1, todo')
          /\ pos' = At(head, Walked(seq'[head], back), k + 1)
        BY <2>6, <2>7, <2>8
    <2> QED BY <2>3, <2>4, <2>9, <1>1, <1>6, <1>11, RoundAdvances
<1> QED BY <1>9, <1>10, <1>11 DEF L!Round
LEMMA ListSteps ==
    ASSUME Rings(s, seq), Iterating, [L!Next]_L!vars
    PROVE  Rings(s', seq') /\ Iterating'
<1>1. ASSUME L!Idle PROVE Iterating'
    BY <1>1 DEF L!Idle, L!iteration, Iterating
<1>2. ASSUME NEW h \in L!Lists, NEW e \in Entry, L!AddHere(e, h)
      PROVE  Rings(s', seq') /\ Iterating'
    <2>1. L!Idle
        BY <1>2 DEF L!AddHere
    <2> QED BY <1>1, <1>2, <2>1, AddHereStep
<1>3. ASSUME NEW h \in L!Lists, NEW e \in Entry, NEW tail \in BOOLEAN, L!Move(e, h, tail)
      PROVE  Rings(s', seq') /\ Iterating'
    <2>1. L!Idle
        BY <1>3 DEF L!Move
    <2> QED BY <1>1, <1>3, <2>1, MoveStep
<1>4. ASSUME NEW h \in L!Lists, L!RotateLeft(h)
      PROVE  Rings(s', seq') /\ Iterating'
    <2>1. L!Idle
        BY <1>4 DEF L!RotateLeft
    <2> QED BY <1>1, <1>4, <2>1, RotateStep
<1>5. ASSUME NEW h \in L!Lists, NEW safe \in BOOLEAN, L!Iterate(h, safe)
      PROVE  Rings(s', seq') /\ Iterating'
    BY <1>5, IterateStep
<1>6. ASSUME NEW h \in L!Lists, NEW l \in ListHead, NEW e \in L!Cell, L!CutPosition(l, h, e)
      PROVE  Rings(s', seq') /\ Iterating'
    <2>1. L!Idle
        BY <1>6 DEF L!CutPosition
    <2> QED BY <1>1, <1>6, <2>1, CutStep
<1>7. ASSUME NEW h \in L!Lists, NEW l \in L!Lists, NEW tail \in BOOLEAN, NEW init \in BOOLEAN,
             L!Splice(l, h, tail, init)
      PROVE  Rings(s', seq') /\ Iterating'
    <2>1. L!Idle
        BY <1>7 DEF L!Splice
    <2> QED BY <1>1, <1>7, <2>1, SpliceStep
<1>8. ASSUME NEW e \in Entry, L!Delete(e) \/ L!DeleteInit(e)
      PROVE  Rings(s', seq') /\ Iterating'
    <2>1. L!Idle
        BY <1>8 DEF L!Delete, L!DeleteInit
    <2> QED BY <1>1, <1>8, <2>1, DeleteStep
<1>9. ASSUME NEW old \in L!Cell, NEW new \in L!Cell, NEW init \in BOOLEAN,
             L!Replace(old, new, init)
      PROVE  Rings(s', seq') /\ Iterating'
    <2>1. L!Idle
        BY <1>9 DEF L!Replace
    <2> QED BY <1>1, <1>9, <2>1, ReplaceStep
<1>10. ASSUME NEW h \in ListHead, L!Reinit(h)
       PROVE  Rings(s', seq') /\ Iterating'
    <2>1. L!Idle
        BY <1>10 DEF L!Reinit
    <2> QED BY <1>1, <1>10, <2>1, ReinitStep
<1>11. CASE L!Round
    BY <1>11, RoundStep
<1>12. CASE L!Finish
    BY <1>12 DEF L!Finish, Iterating
<1>13. CASE UNCHANGED L!vars
    BY <1>13 DEF L!vars, Iterating
<1> QED
    BY <1>2, <1>3, <1>4, <1>5, <1>6, <1>7, <1>8, <1>9, <1>10, <1>11, <1>12, <1>13 DEF L!Next

LEMMA ListsStart == ASSUME L!Init PROVE Rings(s, seq) /\ Iterating
<1>1. /\ s = [next |-> [c \in L!Cell |-> IF c \in ListHead THEN c ELSE L!POISON1],
              prev |-> [c \in L!Cell |-> IF c \in ListHead THEN c ELSE L!POISON2]]
      /\ seq = [h \in ListHead |-> <<>>] /\ head = L!POISON1
    BY DEF L!Init
<1>2. s \in Links /\ seq \in Contents
    BY <1>1, Cells DEF Links, Contents
<1>3. \A h \in Live(seq) : Sound(seq[h]) /\ Ring(s.next, s.prev, h, seq[h]) /\ Members(seq[h]) = {}
    BY <1>1, Cells DEF Live, Sound, Ring, Members, At
<1>4. \A e \in Entry : s.next[e] # e
    BY <1>1, Cells
<1> QED BY <1>1, <1>2, <1>3, <1>4 DEF Rings, Iterating

(* The rings are those that RingsAreSequences writes as sequences. *)
LEMMA RingIs ==
    ASSUME NEW h \in L!Cell, NEW q \in Seq(L!Cell)
    PROVE  LET ring == <<h>> \o q \o <<h>>
           IN  /\ Len(ring) = Len(q) + 2 /\ Len(q) \in Nat
               /\ \A i \in 1 .. Len(q) + 2 : ring[i] = At(h, q, i - 1)
<1> DEFINE f == <<h>> \o q
           ring == f \o <<h>>
<1>1. /\ f \in Seq(L!Cell) /\ Len(f) = Len(q) + 1 /\ f[1] = h /\ Len(q) \in Nat
      /\ \A i \in 1 .. Len(q) : f[i + 1] = q[i]
    OBVIOUS
<1> HIDE DEF f
<1>2. /\ Len(ring) = Len(q) + 2 /\ ring[Len(q) + 2] = h
      /\ \A i \in 1 .. Len(q) + 1 : ring[i] = f[i]
    BY <1>1
<1> HIDE DEF ring
<1>3. ASSUME NEW i \in 1 .. Len(q) + 2 PROVE ring[i] = At(h, q, i - 1)
    <2>1. CASE i = 1
        BY <2>1, <1>1, <1>2 DEF At
    <2>2. CASE i = Len(q) + 2
        <3>1. i - 1 \notin 1 .. Len(q)
            BY <2>2, <1>1
        <3> QED BY <3>1, <2>2, <1>2 DEF At
    <2>3. CASE i # 1 /\ i # Len(q) + 2
        <3>1. i - 1 \in 1 .. Len(q) /\ (i - 1) + 1 = i /\ i \in 1 .. Len(q) + 1
            BY <2>3, <1>1
        <3>2. f[(i - 1) + 1] = q[i - 1]
            BY <3>1, <1>1
        <3> QED BY <3>1, <3>2, <1>2 DEF At
    <2> QED BY <2>1, <2>2, <2>3
<1> QED BY <1>1, <1>2, <1>3 DEF ring, f

LEMMA ListsAreRight ==
    ASSUME Rings(s, seq), Iterating
    PROVE  L!ListsTypeOK /\ L!RingsAreSequences /\ L!IterationMeetsAll
<1>0. L!Lists = Live(seq)
    BY Names
<1>1. L!ListsTypeOK
    BY <1>0 DEF L!ListsTypeOK, Rings, Links, Sound
<1>2. L!RingsAreSequences
    <2> SUFFICES ASSUME NEW h \in Live(seq)
                 PROVE  LET ring == <<h>> \o seq[h] \o <<h>>
                        IN  \A i \in 1 .. Len(ring) - 1 :
                               s.next[ring[i]] = ring[i + 1] /\ s.prev[ring[i + 1]] = ring[i]
        BY <1>0 DEF L!RingsAreSequences
    <2> DEFINE q == seq[h]
               ring == <<h>> \o q \o <<h>>
    <2>1. /\ h \in L!Cell /\ q \in Seq(Entry) /\ Ring(s.next, s.prev, h, q)
        BY Cells DEF Rings, Live, Sound
    <2>2. q \in Seq(L!Cell)
        BY <2>1, Cells
    <2> HIDE DEF q
    <2>3. /\ Len(ring) = Len(q) + 2 /\ Len(q) \in Nat
          /\ \A i \in 1 .. Len(q) + 2 : ring[i] = At(h, q, i - 1)
        BY <2>1, <2>2, RingIs
    <2> HIDE DEF ring
    <2>4. ASSUME NEW i \in 1 .. Len(ring) - 1
          PROVE  s.next[ring[i]] = ring[i + 1] /\ s.prev[ring[i + 1]] = ring[i]
        <3> DEFINE j == i - 1
        <3>1. /\ j \in 0 .. Len(q) /\ i \in 1 .. Len(q) + 2 /\ i + 1 \in 1 .. Len(q) + 2
              /\ (i + 1) - 1 = j + 1
            BY <2>3
        <3>2. ring[i] = At(h, q, j) /\ ring[i + 1] = At(h, q, j + 1)
            <4>1. ring[i + 1] = At(h, q, (i + 1) - 1)
                BY <2>3, <3>1
            <4> QED BY <4>1, <2>3, <3>1
        <3> HIDE DEF j
        <3> QED BY <3>1, <3>2, <2>1 DEF Ring
    <2> QED BY <2>4 DEF ring, q
<1>3. L!IterationMeetsAll
    <2> SUFFICES ASSUME head # L!POISON1
                 PROVE  pos = IF todo = <<>> THEN head ELSE todo[1]
        BY DEF L!IterationMeetsAll
    <2> DEFINE a == Walked(seq[head], back)
    <2>1. PICK k \in Nat : Meets(head, a, k, pos, n, todo)
        BY DEF Iterating
    <2>2. WalkIs(s, head, seq[head], back)
        BY Walks DEF Iterating
    <2>3. Len(a) \in Nat /\ At(head, a, Len(a) + 1) = head
        BY <2>2 DEF WalkIs, RingCells
    <2> HIDE DEF a
    <2>4. /\ k \in 1 .. Len(a) + 1 /\ todo \in Seq(Entry) /\ Len(todo) = Len(a) + 1 - k
          /\ \A i \in 1 .. Len(todo) : todo[i] = a[(k - 1) + i]
          /\ pos = At(head, a, k)
        BY <2>1 DEF Meets, Ahead
    <2>5. CASE todo = <<>>
        <3>1. k = Len(a) + 1
            <4>1. Len(todo) = 0
                BY <2>5
            <4> QED BY <4>1, <2>3, <2>4
        <3> QED BY <3>1, <2>3, <2>4, <2>5
    <2>6. CASE todo # <<>>
        <3>1. 1 \in 1 .. Len(todo) /\ Len(todo) >= 1
            BY <2>4, <2>6
        <3>2. k \in 1 .. Len(a) /\ (k - 1) + 1 = k
            BY <3>1, <2>3, <2>4
        <3>3. todo[1] = a[k]
            BY <3>1, <3>2, <2>4
        <3> QED BY <3>2, <3>3, <2>4, <2>6 DEF At
    <2> QED BY <2>5, <2>6
<1> QED BY <1>1, <1>2, <1>3

----------------------------------------------------------------------------
RingInv == kind = "list" => Rings(s, seq) /\ Iterating

LEMMA RingInvInit == ASSUME Init PROVE RingInv
<1>1. CASE kind = "list" /\ L!Init
    BY <1>1, ListsStart DEF RingInv
<1>2. CASE kind # "list"
    BY <1>2 DEF RingInv
<1> QED BY <1>1, <1>2 DEF Init

LEMMA RingInvNext ==
    ASSUME RingInv, [Next]_<<kind, ordered, lists>>
    PROVE  RingInv'
<1>1. kind' = kind
    BY DEF Next
<1>2. CASE kind = "list"
    <2>1. [L!Next]_L!vars
        BY <1>2 DEF Next, ListStep, lists, L!vars
    <2>2. Rings(s', seq') /\ Iterating'
        BY <1>2, <2>1, ListSteps DEF RingInv
    <2> QED BY <2>2, <1>1, <1>2 DEF RingInv
<1>3. CASE kind # "list"
    BY <1>1, <1>3 DEF RingInv
<1> QED BY <1>2, <1>3

(* After any additions, moves, replacements, splices, cuts and rotations,  *)
(* next and prev of a circular list meet exactly the entries that it       *)
(* means, and an iteration whose body deletes or adds entries is at the    *)
(* next one it has to meet.                                                *)
THEOREM RingsStayRight ==
    Spec => [](kind = "list" => L!ListsTypeOK /\ L!RingsAreSequences /\ L!IterationMeetsAll)
<1>1. Init => RingInv
    BY RingInvInit
<1>2. RingInv /\ [Next]_<<kind, ordered, lists>> => RingInv'
    BY RingInvNext
<1>3. RingInv => (kind = "list" => L!ListsTypeOK /\ L!RingsAreSequences /\ L!IterationMeetsAll)
    BY ListsAreRight DEF RingInv
<1> QED BY <1>1, <1>2, <1>3, PTL DEF Spec

----------------------------------------------------------------------------
(* The lists with a single pointer as head.  The pointer cell at place i   *)
(* of the chain of h that holds q is h at 0 and q[i] after; NULL ends it.  *)
HLinks == [next : [C!Cell -> Entry \union {C!NULL, C!POISON1}],
           pprev : [Entry -> C!Cell \union {C!NULL, C!POISON2}]]
HContents == [ListHead -> Seq(Entry)]
Spot(h, q, i) == IF i \in 1 .. Len(q) THEN q[i] ELSE IF i = 0 THEN h ELSE C!NULL
Chain(l, h, q) ==
    /\ \A i \in 0 .. Len(q) : l.next[Spot(h, q, i)] = Spot(h, q, i + 1)
    /\ \A i \in 1 .. Len(q) : l.pprev[Spot(h, q, i)] = Spot(h, q, i - 1)

LEMMA HCells ==
    /\ ListHead \subseteq C!Cell /\ Entry \subseteq C!Cell
    /\ \A h \in ListHead, e \in Entry : h # e
    /\ C!NULL \notin C!Cell
    /\ C!POISON1 \notin C!Cell /\ C!POISON1 # C!NULL
    /\ C!POISON2 \notin C!Cell /\ C!POISON2 # C!NULL
<1>1. C!Cell = L!Cell /\ C!POISON1 = L!POISON1 /\ C!POISON2 = L!POISON2
    BY DEF C!Cell, L!Cell, C!POISON1, L!POISON1, C!POISON2, L!POISON2
<1>2. C!POISON1 # C!NULL /\ C!POISON2 # C!NULL
    BY DEF C!POISON1, C!POISON2, C!NULL
<1> QED BY <1>1, <1>2, Cells

(* m is l after e is put between c and d; after c is joined with d. *)
HPut(l, m, e, c, d) ==
    /\ m \in HLinks /\ m.next[c] = e /\ m.next[e] = d /\ m.pprev[e] = c
    /\ d \in Entry => m.pprev[d] = e
    /\ \A x \in C!Cell : x # c /\ x # e => m.next[x] = l.next[x]
    /\ \A x \in Entry : x # e /\ x # d => m.pprev[x] = l.pprev[x]
HJoin(l, m, c, d) ==
    /\ m \in HLinks /\ m.next[c] = d
    /\ d \in Entry => m.pprev[d] = c
    /\ \A x \in C!Cell : x # c => m.next[x] = l.next[x]
    /\ \A x \in Entry : x # d => m.pprev[x] = l.pprev[x]

LEMMA AddAtIs ==
    ASSUME NEW l \in HLinks, NEW e \in Entry, NEW c \in C!Cell, c # e,
           NEW d \in Entry \union {C!NULL}, d # e, l.next[c] = d
    PROVE  HPut(l, C!AddAt(l, e, c), e, c, d)
<1> DEFINE a == [l EXCEPT !.next[c] = e, !.next[e] = l.next[c], !.pprev[e] = c]
<1>1. e \in C!Cell /\ C!NULL \notin Entry
    BY HCells
<1>2. /\ a \in HLinks /\ a.next[c] = e /\ a.next[e] = d /\ a.pprev[e] = c
      /\ \A x \in C!Cell : x # c /\ x # e => a.next[x] = l.next[x]
      /\ \A x \in Entry : x # e => a.pprev[x] = l.pprev[x]
    BY <1>1 DEF HLinks
<1> HIDE DEF a
<1>3. C!AddAt(l, e, c) = IF d = C!NULL THEN a ELSE [a EXCEPT !.pprev[d] = e]
    <2>1. C!AddAt(l, e, c) = C!Backed(a, e)
        BY DEF C!AddAt, a
    <2>2. C!Backed(a, e) = IF d = C!NULL THEN a ELSE [a EXCEPT !.pprev[d] = e]
        BY <1>2 DEF C!Backed
    <2> QED BY <2>1, <2>2
<1>4. CASE d = C!NULL
    BY <1>1, <1>2, <1>3, <1>4 DEF HPut
<1>5. CASE d # C!NULL
    <2> DEFINE m == [a EXCEPT !.pprev[d] = e]
    <2>1. d \in Entry
        BY <1>5
    <2>2. /\ m \in HLinks /\ m.next = a.next /\ m.pprev[d] = e
          /\ \A x \in Entry : x # d => m.pprev[x] = a.pprev[x]
        BY <1>1, <1>2, <2>1 DEF HLinks
    <2> HIDE DEF m
    <2>3. HPut(l, m, e, c, d)
        BY <1>2, <2>1, <2>2 DEF HPut
    <2> QED BY <2>3, <1>3, <1>5 DEF m
<1> QED BY <1>4, <1>5

LEMMA AddBeforeIs ==
    ASSUME NEW l \in HLinks, NEW e \in Entry, NEW d \in Entry, d # e,
           NEW c \in C!Cell, c # e, l.pprev[d] = c
    PROVE  HPut(l, C!AddBefore(l, e, d), e, c, d)
<1> DEFINE a == [l EXCEPT !.pprev[e] = l.pprev[d], !.next[e] = d, !.pprev[d] = e]
           m == [a EXCEPT !.next[c] = e]
<1>1. e \in C!Cell /\ d \in C!Cell
    BY HCells
<1>2. /\ a \in HLinks /\ a.next[e] = d /\ a.pprev[e] = c /\ a.pprev[d] = e
      /\ \A x \in C!Cell : x # e => a.next[x] = l.next[x]
      /\ \A x \in Entry : x # e /\ x # d => a.pprev[x] = l.pprev[x]
    BY <1>1 DEF HLinks
<1> HIDE DEF a
<1>3. C!AddBefore(l, e, d) = m
    BY <1>2 DEF C!AddBefore, a
<1>4. /\ m \in HLinks /\ m.next[c] = e /\ m.pprev = a.pprev
      /\ \A x \in C!Cell : x # c => m.next[x] = a.next[x]
    BY <1>1, <1>2 DEF HLinks
<1> HIDE DEF m
<1> QED BY <1>1, <1>2, <1>3, <1>4 DEF HPut

LEMMA DeleteFromIs ==
    ASSUME NEW l \in HLinks, NEW e \in Entry, NEW c \in C!Cell, l.pprev[e] = c,
           NEW d \in Entry \union {C!NULL}, l.next[e] = d
    PROVE  HJoin(l, C!DeleteFrom(l, e), c, d)
<1> DEFINE a == [l EXCEPT !.next[c] = d]
           m == [a EXCEPT !.pprev[d] = c]
<1>0. C!NULL \notin Entry
    BY HCells
<1>1. /\ a \in HLinks /\ a.next[c] = d /\ a.pprev = l.pprev
      /\ \A x \in C!Cell : x # c => a.next[x] = l.next[x]
    BY DEF HLinks
<1>2. C!DeleteFrom(l, e) = IF d = C!NULL THEN a ELSE m
    BY <1>1 DEF C!DeleteFrom, C!Backed
<1> HIDE DEF a
<1>3. CASE d = C!NULL
    BY <1>0, <1>1, <1>2, <1>3 DEF HJoin, HLinks
<1>4. CASE d # C!NULL
    <2>1. d \in Entry
        BY <1>4
    <2>2. /\ m \in HLinks /\ m.next = a.next /\ m.pprev[d] = c
          /\ \A x \in Entry : x # d => m.pprev[x] = a.pprev[x]
        BY <1>1, <2>1 DEF HLinks
    <2> HIDE DEF m
    <2> QED BY <1>1, <1>2, <1>4, <2>2 DEF HJoin
<1> QED BY <1>3, <1>4

(* The places of a chain are different cells. *)
ChainCells(h, q) ==
    /\ Len(q) \in Nat /\ Spot(h, q, 0) = h /\ Spot(h, q, Len(q) + 1) = C!NULL
    /\ \A i \in 1 .. Len(q) :
          Spot(h, q, i) = q[i] /\ q[i] \in Entry /\ q[i] \in Members(q) /\ q[i] # h
    /\ \A i \in 0 .. Len(q) : Spot(h, q, i) \in C!Cell /\ Spot(h, q, i) \in {h} \union Members(q)
    /\ \A i \in 1 .. Len(q) + 1 : /\ Spot(h, q, i) \in Entry \union {C!NULL}
                                  /\ Spot(h, q, i) \in Members(q) \union {C!NULL}
    /\ \A i, j \in 0 .. Len(q) + 1 : Spot(h, q, i) = Spot(h, q, j) => i = j
LEMMA CellsOfChain ==
    ASSUME NEW h \in ListHead, NEW q, Sound(q) PROVE ChainCells(h, q)
<1>1. Len(q) \in Nat /\ \A i \in 1 .. Len(q) : q[i] \in Entry /\ q[i] # h /\ q[i] # C!NULL
    BY HCells DEF Sound
<1>2. \A i \in 1 .. Len(q) : q[i] \in C!Cell /\ q[i] \in Members(q)
    BY <1>1, HCells DEF Members
<1>3. \A i, j \in 1 .. Len(q) : q[i] = q[j] => i = j
    BY DEF Sound
<1>4. h # C!NULL /\ h \in C!Cell
    BY HCells
<1> QED BY <1>1, <1>2, <1>3, <1>4 DEF ChainCells, Spot

----------------------------------------------------------------------------
(* The invariant of the pointers l and the contents Q.  An entry on no     *)
(* list is initialised, poisoned or fake, unless it is one of D.           *)
Held(Q) == UNION {Members(Q[h]) : h \in ListHead}
Loose(l, e) ==
    /\ l.pprev[e] = C!NULL \/ l.pprev[e] = C!POISON2 \/ l.pprev[e] = e
    /\ l.pprev[e] # C!POISON2 => l.next[e] = C!NULL
Chains(l, Q, D) ==
    /\ l \in HLinks /\ Q \in HContents
    /\ \A h \in ListHead : Sound(Q[h]) /\ Chain(l, h, Q[h])
    /\ \A g, h \in ListHead : g # h => Members(Q[g]) \intersect Members(Q[h]) = {}
    /\ \A e \in Entry \ D : e \notin Held(Q) => Loose(l, e)

HTouched(Q, T, X) == T \union X \union UNION {Members(Q[g]) : g \in T}
HOnly(l, Q, m, Q2, T, X, D) ==
    /\ m \in HLinks /\ Q2 \in HContents
    /\ T \in SUBSET ListHead /\ X \in SUBSET Entry /\ X \intersect Held(Q) = {}
    /\ \A g \in ListHead \ T : Q2[g] = Q[g]
    /\ \A c \in C!Cell \ HTouched(Q, T, X) : m.next[c] = l.next[c]
    /\ \A e \in Entry \ HTouched(Q, T, X) : m.pprev[e] = l.pprev[e]
    /\ \A g \in T : /\ Sound(Q2[g]) /\ Chain(m, g, Q2[g])
                    /\ Members(Q2[g]) \subseteq HTouched(Q, T, X)
    /\ \A g, h \in T : g # h => Members(Q2[g]) \intersect Members(Q2[h]) = {}
    /\ \A e \in (Entry \intersect HTouched(Q, T, X)) \ D : e \notin Held(Q2) => Loose(m, e)
LEMMA ChainsAfter ==
    ASSUME NEW l, NEW Q, NEW D0, Chains(l, Q, D0), NEW m, NEW Q2, NEW T, NEW X, NEW D,
           HOnly(l, Q, m, Q2, T, X, D), D0 \subseteq D \union HTouched(Q, T, X)
    PROVE  Chains(m, Q2, D)
<1> USE DEF HOnly
<1>1. ASSUME NEW g \in ListHead \ T
      PROVE  /\ Q2[g] = Q[g] /\ g \notin HTouched(Q, T, X)
             /\ Members(Q[g]) \intersect HTouched(Q, T, X) = {}
    <2>1. \A h \in ListHead : Members(Q[h]) \subseteq Entry
        BY DEF Chains, Sound, Members
    <2>2. g \notin HTouched(Q, T, X)
        BY <2>1, HCells DEF HTouched
    <2>3. \A h \in T : Members(Q[g]) \intersect Members(Q[h]) = {}
        BY DEF Chains
    <2>4. Members(Q[g]) \subseteq Held(Q) /\ Members(Q[g]) \subseteq Entry
        BY <2>1 DEF Held
    <2>5. Members(Q[g]) \intersect HTouched(Q, T, X) = {}
        BY <2>3, <2>4, HCells DEF HTouched
    <2> QED BY <2>2, <2>5
<1>2. ASSUME NEW g \in ListHead PROVE Sound(Q2[g]) /\ Chain(m, g, Q2[g])
    <2>1. CASE g \in T
        BY <2>1
    <2>2. CASE g \notin T
        <3> DEFINE q == Q[g]
        <3>1. Q2[g] = q /\ Sound(q) /\ Chain(l, g, q)
            BY <1>1, <2>2 DEF Chains
        <3>2. g \notin HTouched(Q, T, X) /\ Members(q) \intersect HTouched(Q, T, X) = {}
            BY <1>1, <2>2
        <3> HIDE DEF q
        <3>3. ChainCells(g, q)
            BY <3>1, CellsOfChain
        <3>4. \A i \in 0 .. Len(q) : m.next[Spot(g, q, i)] = l.next[Spot(g, q, i)]
            BY <3>2, <3>3 DEF ChainCells
        <3>5. \A i \in 1 .. Len(q) : m.pprev[Spot(g, q, i)] = l.pprev[Spot(g, q, i)]
            BY <3>2, <3>3 DEF ChainCells
        <3> QED BY <3>1, <3>4, <3>5 DEF Chain
    <2> QED BY <2>1, <2>2
<1>3. ASSUME NEW g \in ListHead, NEW h \in ListHead, g # h
      PROVE  Members(Q2[g]) \intersect Members(Q2[h]) = {}
    <2>1. CASE g \in T /\ h \in T
        BY <1>3, <2>1
    <2>2. CASE g \notin T /\ h \notin T
        BY <1>1, <1>3, <2>2 DEF Chains
    <2>3. CASE g \in T /\ h \notin T
        BY <1>1, <2>3
    <2>4. CASE g \notin T /\ h \in T
        BY <1>1, <2>4
    <2> QED BY <2>1, <2>2, <2>3, <2>4
<1>4. ASSUME NEW e \in Entry \ D, e \notin Held(Q2) PROVE Loose(m, e)
    <2>1. CASE e \in HTouched(Q, T, X)
        BY <1>4, <2>1
    <2>2. CASE e \notin HTouched(Q, T, X)
        <3>1. e \notin Held(Q)
            <4> SUFFICES ASSUME NEW g \in ListHead, e \in Members(Q[g]) PROVE FALSE
                BY DEF Held
            <4>1. g \notin T
                BY <2>2 DEF HTouched
            <4>2. e \in Members(Q2[g])
                BY <4>1, <1>1
            <4> QED BY <4>2, <1>4 DEF Held
        <3>2. e \in C!Cell
            BY HCells
        <3>3. Loose(l, e)
            BY <2>2, <3>1 DEF Chains
        <3>4. m.next[e] = l.next[e] /\ m.pprev[e] = l.pprev[e]
            BY <2>2, <3>2
        <3> QED BY <3>3, <3>4 DEF Loose
    <2> QED BY <2>1, <2>2
<1> QED BY <1>2, <1>3, <1>4 DEF Chains
Spots(h, q, k, e, r) ==
    /\ Len(r) = Len(q) + 1
    /\ \A i \in 0 .. k : Spot(h, r, i) = Spot(h, q, i)
    /\ Spot(h, r, k + 1) = e
    /\ \A i \in k + 1 .. Len(q) + 1 : Spot(h, r, i + 1) = Spot(h, q, i)
LEMMA SpotSpliced ==
    ASSUME NEW h, NEW q, NEW r, NEW e, Len(q) \in Nat, NEW k \in 0 .. Len(q),
           Spliced(q, k, <<e>>, r)
    PROVE  Spots(h, q, k, e, r)
<1> DEFINE p == <<e>>
<1>0. Len(p) = 1 /\ p[1] = e /\ Spliced(q, k, p, r)
    OBVIOUS
<1> HIDE DEF p
<1>1. /\ Len(r) = Len(q) + 1 /\ \A i \in 1 .. k : r[i] = q[i]
      /\ r[k + 1] = e
      /\ \A i \in k + 1 .. Len(q) : r[i + 1] = q[i]
    <2>1. /\ Len(r) = Len(q) + Len(p) /\ \A i \in 1 .. k : r[i] = q[i]
          /\ \A i \in 1 .. Len(p) : r[k + i] = p[i]
          /\ \A i \in k + 1 .. Len(q) : r[Len(p) + i] = q[i]
        BY <1>0 DEF Spliced
    <2>2. \A i \in k + 1 .. Len(q) : Len(p) + i = i + 1
        BY <1>0
    <2> QED BY <2>1, <2>2, <1>0
<1>2. \A i \in 0 .. k : Spot(h, r, i) = Spot(h, q, i)
    BY <1>1 DEF Spot
<1>3. Spot(h, r, k + 1) = e
    <2>1. k + 1 \in 1 .. Len(r)
        BY <1>1
    <2> QED BY <2>1, <1>1 DEF Spot
<1>4. ASSUME NEW i \in k + 1 .. Len(q) + 1 PROVE Spot(h, r, i + 1) = Spot(h, q, i)
    <2>1. CASE i <= Len(q)
        <3>1. i + 1 \in 1 .. Len(r) /\ i \in 1 .. Len(q) /\ r[i + 1] = q[i]
            BY <1>1, <2>1
        <3> QED BY <3>1 DEF Spot
    <2>2. CASE i = Len(q) + 1
        <3>1. i + 1 \notin 1 .. Len(r) /\ i \notin 1 .. Len(q) /\ i # 0 /\ i + 1 # 0
            BY <1>1, <2>2
        <3> QED BY <3>1 DEF Spot
    <2> QED BY <2>1, <2>2
<1> QED BY <1>1, <1>2, <1>3, <1>4 DEF Spots

(* An entry is put after place k of a chain. *)
LEMMA ChainPut ==
    ASSUME NEW h \in ListHead, NEW q, Sound(q), NEW l, NEW m, Chain(l, h, q),
           NEW e \in Entry, e \notin Members(q), NEW k \in 0 .. Len(q), NEW r,
           Spliced(q, k, <<e>>, r), HPut(l, m, e, Spot(h, q, k), Spot(h, q, k + 1))
    PROVE  Chain(m, h, r)
<1>1. ChainCells(h, q)
    BY CellsOfChain
<1>2. Len(q) \in Nat /\ k \in Nat /\ k <= Len(q)
    BY <1>1 DEF ChainCells
<1>3. Spots(h, q, k, e, r)
    BY <1>2, SpotSpliced
<1>4. /\ Len(r) = Len(q) + 1
      /\ \A i \in 0 .. k : Spot(h, r, i) = Spot(h, q, i)
      /\ Spot(h, r, k + 1) = e
      /\ \A i \in k + 1 .. Len(q) + 1 : Spot(h, r, i + 1) = Spot(h, q, i)
    BY <1>3 DEF Spots
<1> DEFINE c == Spot(h, q, k)
           d == Spot(h, q, k + 1)
<1>5. /\ m.next[c] = e /\ m.next[e] = d /\ m.pprev[e] = c
      /\ d \in Entry => m.pprev[d] = e
      /\ \A x \in C!Cell : x # c /\ x # e => m.next[x] = l.next[x]
      /\ \A x \in Entry : x # e /\ x # d => m.pprev[x] = l.pprev[x]
    BY DEF HPut
<1>6. ASSUME NEW j \in 0 .. Len(q), j # k PROVE m.next[Spot(h, q, j)] = Spot(h, q, j + 1)
    <2>1. Spot(h, q, j) # c
        <3>1. j \in 0 .. Len(q) + 1 /\ k \in 0 .. Len(q) + 1
            BY <1>2
        <3> QED BY <3>1, <1>1, <1>6 DEF ChainCells
    <2>2. Spot(h, q, j) \in C!Cell /\ Spot(h, q, j) # e
        BY <1>1, HCells DEF ChainCells
    <2>3. l.next[Spot(h, q, j)] = Spot(h, q, j + 1)
        BY DEF Chain
    <2> HIDE DEF c, d
    <2> QED BY <2>1, <2>2, <2>3, <1>5
<1>7. ASSUME NEW j \in 1 .. Len(q), j # k + 1 PROVE m.pprev[Spot(h, q, j)] = Spot(h, q, j - 1)
    <2>1. Spot(h, q, j) # d
        <3>1. j \in 0 .. Len(q) + 1 /\ k + 1 \in 0 .. Len(q) + 1
            BY <1>2
        <3> QED BY <3>1, <1>1, <1>7 DEF ChainCells
    <2>2. Spot(h, q, j) \in Entry /\ Spot(h, q, j) # e
        BY <1>1 DEF ChainCells
    <2>3. l.pprev[Spot(h, q, j)] = Spot(h, q, j - 1)
        BY DEF Chain
    <2> HIDE DEF c, d
    <2> QED BY <2>1, <2>2, <2>3, <1>5
<1>8. ASSUME NEW i \in 0 .. Len(r) PROVE m.next[Spot(h, r, i)] = Spot(h, r, i + 1)
    <2>1. CASE i < k
        <3>1. i \in 0 .. k /\ i + 1 \in 0 .. k /\ i \in 0 .. Len(q) /\ i # k
            BY <2>1, <1>2
        <3> QED BY <3>1, <1>4, <1>6
    <2>2. CASE i = k
        <3>1. i \in 0 .. k
            BY <2>2, <1>2
        <3> QED BY <3>1, <2>2, <1>4, <1>5
    <2>3. CASE i = k + 1
        <3>1. k + 1 \in k + 1 .. Len(q) + 1
            BY <1>2
        <3> QED BY <3>1, <2>3, <1>4, <1>5
    <2>4. CASE i > k + 1
        <3>1. PICK j \in k + 1 .. Len(q) : i = j + 1
            <4>1. i - 1 \in k + 1 .. Len(q) /\ i = (i - 1) + 1
                BY <2>4, <1>2, <1>4
            <4> QED BY <4>1
        <3>2. /\ j \in k + 1 .. Len(q) + 1 /\ j + 1 \in k + 1 .. Len(q) + 1
              /\ j \in 0 .. Len(q) /\ j # k
            BY <1>2
        <3> QED BY <3>1, <3>2, <1>4, <1>6
    <2> QED BY <2>1, <2>2, <2>3, <2>4, <1>2
<1>9. ASSUME NEW i \in 1 .. Len(r) PROVE m.pprev[Spot(h, r, i)] = Spot(h, r, i - 1)
    <2>1. CASE i <= k
        <3>1. i \in 0 .. k /\ i - 1 \in 0 .. k /\ i \in 1 .. Len(q) /\ i # k + 1
            BY <2>1, <1>2
        <3> QED BY <3>1, <1>4, <1>7
    <2>2. CASE i = k + 1
        <3>1. i - 1 = k /\ k \in 0 .. k
            BY <2>2, <1>2
        <3> QED BY <3>1, <2>2, <1>4, <1>5
    <2>3. CASE i = k + 2
        <3>1. /\ k + 1 \in k + 1 .. Len(q) + 1 /\ k + 1 \in 1 .. Len(q) /\ i - 1 = k + 1
              /\ i = (k + 1) + 1
            BY <2>3, <1>2, <1>4
        <3>2. d \in Entry /\ Spot(h, r, i) = d
            BY <3>1, <1>1, <1>4 DEF ChainCells
        <3> QED BY <3>1, <3>2, <1>4, <1>5
    <2>4. CASE i > k + 2
        <3>1. PICK j \in k + 2 .. Len(q) : i = j + 1
            <4>1. i - 1 \in k + 2 .. Len(q) /\ i = (i - 1) + 1
                BY <2>4, <1>2, <1>4
            <4> QED BY <4>1
        <3>2. /\ j \in k + 1 .. Len(q) + 1 /\ j - 1 \in k + 1 .. Len(q) + 1
              /\ j \in 1 .. Len(q) /\ j # k + 1 /\ i - 1 = (j - 1) + 1
            BY <3>1, <1>2
        <3>3. Spot(h, r, i) = Spot(h, q, j) /\ Spot(h, r, i - 1) = Spot(h, q, j - 1)
            BY <3>1, <3>2, <1>4
        <3> QED BY <3>2, <3>3, <1>7
    <2> QED BY <2>1, <2>2, <2>3, <2>4, <1>2
<1> QED BY <1>8, <1>9 DEF Chain

(* The entry after place k is taken out of a chain. *)
LEMMA ChainCut ==
    ASSUME NEW h \in ListHead, NEW q, Sound(q), NEW l, NEW m, Chain(l, h, q),
           NEW e, NEW r, Len(r) \in Nat, NEW k \in 0 .. Len(r),
           Spliced(r, k, <<e>>, q), HJoin(l, m, Spot(h, q, k), Spot(h, q, k + 2))
    PROVE  Chain(m, h, r)
<1>1. ChainCells(h, q)
    BY CellsOfChain
<1>3. Spots(h, r, k, e, q)
    BY SpotSpliced
<1>4. /\ Len(q) = Len(r) + 1
      /\ \A i \in 0 .. k : Spot(h, q, i) = Spot(h, r, i)
      /\ \A i \in k + 1 .. Len(r) + 1 : Spot(h, q, i + 1) = Spot(h, r, i)
    BY <1>3 DEF Spots
<1>2. k \in Nat /\ k <= Len(r) /\ Len(r) \in Nat
    OBVIOUS
<1> DEFINE c == Spot(h, q, k)
           d == Spot(h, q, k + 2)
<1>5. /\ m.next[c] = d
      /\ d \in Entry => m.pprev[d] = c
      /\ \A x \in C!Cell : x # c => m.next[x] = l.next[x]
      /\ \A x \in Entry : x # d => m.pprev[x] = l.pprev[x]
    BY DEF HJoin
<1>6. ASSUME NEW j \in 0 .. Len(q), j # k PROVE m.next[Spot(h, q, j)] = Spot(h, q, j + 1)
    <2>1. Spot(h, q, j) # c
        <3>1. j \in 0 .. Len(q) + 1 /\ k \in 0 .. Len(q) + 1
            BY <1>2, <1>4
        <3> QED BY <3>1, <1>1, <1>6 DEF ChainCells
    <2>2. Spot(h, q, j) \in C!Cell
        BY <1>1 DEF ChainCells
    <2>3. l.next[Spot(h, q, j)] = Spot(h, q, j + 1)
        BY DEF Chain
    <2> HIDE DEF c, d
    <2> QED BY <2>1, <2>2, <2>3, <1>5
<1>7. ASSUME NEW j \in 1 .. Len(q), j # k + 2 PROVE m.pprev[Spot(h, q, j)] = Spot(h, q, j - 1)
    <2>1. Spot(h, q, j) # d
        <3>1. j \in 0 .. Len(q) + 1 /\ k + 2 \in 0 .. Len(q) + 1
            BY <1>2, <1>4
        <3> QED BY <3>1, <1>1, <1>7 DEF ChainCells
    <2>2. Spot(h, q, j) \in Entry
        BY <1>1 DEF ChainCells
    <2>3. l.pprev[Spot(h, q, j)] = Spot(h, q, j - 1)
        BY DEF Chain
    <2> HIDE DEF c, d
    <2> QED BY <2>1, <2>2, <2>3, <1>5
<1>8. ASSUME NEW i \in 0 .. Len(r) PROVE m.next[Spot(h, r, i)] = Spot(h, r, i + 1)
    <2>1. CASE i < k
        <3>1. i \in 0 .. k /\ i + 1 \in 0 .. k /\ i \in 0 .. Len(q) /\ i # k
            BY <2>1, <1>2, <1>4
        <3> QED BY <3>1, <1>4, <1>6
    <2>2. CASE i = k
        <3>1. i \in 0 .. k /\ k + 1 \in k + 1 .. Len(r) + 1 /\ (k + 1) + 1 = k + 2
            BY <2>2, <1>2
        <3> QED BY <3>1, <2>2, <1>4, <1>5
    <2>3. CASE i > k
        <3> DEFINE j == i + 1
        <3>1. /\ i \in k + 1 .. Len(r) + 1 /\ j \in k + 1 .. Len(r) + 1
              /\ j \in 0 .. Len(q) /\ j # k
            BY <2>3, <1>2, <1>4
        <3>2. Spot(h, q, j) = Spot(h, r, i) /\ Spot(h, q, j + 1) = Spot(h, r, j)
            BY <3>1, <1>4
        <3>3. m.next[Spot(h, q, j)] = Spot(h, q, j + 1)
            BY <3>1, <1>6
        <3> QED BY <3>2, <3>3
    <2> QED BY <2>1, <2>2, <2>3, <1>2
<1>9. ASSUME NEW i \in 1 .. Len(r) PROVE m.pprev[Spot(h, r, i)] = Spot(h, r, i - 1)
    <2>1. CASE i <= k
        <3>1. i \in 0 .. k /\ i - 1 \in 0 .. k /\ i \in 1 .. Len(q) /\ i # k + 2
            BY <2>1, <1>2, <1>4
        <3> QED BY <3>1, <1>4, <1>7
    <2>2. CASE i = k + 1
        <3>1. /\ k + 1 \in k + 1 .. Len(r) + 1 /\ i - 1 = k /\ k \in 0 .. k
              /\ (k + 1) + 1 = k + 2 /\ k + 2 \in 1 .. Len(q)
            BY <2>2, <1>2, <1>4
        <3>2. d \in Entry /\ Spot(h, r, i) = d
            BY <3>1, <2>2, <1>1, <1>4 DEF ChainCells
        <3> QED BY <3>1, <3>2, <1>4, <1>5
    <2>3. CASE i > k + 1
        <3> DEFINE j == i + 1
        <3>1. /\ i \in k + 1 .. Len(r) + 1 /\ i - 1 \in k + 1 .. Len(r) + 1
              /\ j \in 1 .. Len(q) /\ j # k + 2 /\ j - 1 = (i - 1) + 1
            BY <2>3, <1>2, <1>4
        <3>2. Spot(h, q, j) = Spot(h, r, i) /\ Spot(h, q, j - 1) = Spot(h, r, i - 1)
            BY <3>1, <1>4
        <3>3. m.pprev[Spot(h, q, j)] = Spot(h, q, j - 1)
            BY <3>1, <1>7
        <3> QED BY <3>2, <3>3
    <2> QED BY <2>1, <2>2, <2>3, <1>2
<1> QED BY <1>8, <1>9 DEF Chain

(* An entry that is on no list is put after place k of that of h. *)
LEMMA HAddChains ==
    ASSUME NEW l, NEW Q, NEW D, Chains(l, Q, D), NEW h \in ListHead, NEW e \in Entry,
           e \notin Held(Q), NEW k \in 0 .. Len(Q[h]), NEW r \in Seq(Entry),
           Spliced(Q[h], k, <<e>>, r), NEW m,
           HPut(l, m, e, Spot(h, Q[h], k), Spot(h, Q[h], k + 1))
    PROVE  Chains(m, [Q EXCEPT ![h] = r], D \ {e})
<1> DEFINE q == Q[h]
           c == Spot(h, q, k)
           d == Spot(h, q, k + 1)
           Q2 == [Q EXCEPT ![h] = r]
           W == {h, e} \union Members(q)
<1>1. /\ Q \in HContents /\ Sound(q) /\ Chain(l, h, q) /\ e \notin Members(q)
    BY DEF Chains, Held
<1>2. ChainCells(h, q)
    BY <1>1, CellsOfChain
<1>3. HTouched(Q, {h}, {e}) = W
    BY DEF HTouched
<1>4. c \in W /\ (d \in W \/ d = C!NULL)
    <2>1. Len(q) \in Nat /\ k + 1 \in 1 .. Len(q) + 1
        BY <1>2 DEF ChainCells
    <2> QED BY <2>1, <1>2 DEF ChainCells
<1>5. Chain(m, h, r)
    <2>1. k \in 0 .. Len(q) /\ Spliced(q, k, <<e>>, r) /\ HPut(l, m, e, Spot(h, q, k), Spot(h, q, k + 1))
        OBVIOUS
    <2> HIDE DEF q
    <2> QED BY <2>1, <1>1, ChainPut
<1>6. Sound(r) /\ Members(r) = Members(q) \union {e}
    <2> DEFINE p == <<e>>
    <2>1. Sound(p) /\ Members(p) = {e} /\ k \in 0 .. Len(q) /\ Spliced(q, k, p, r)
        BY DEF Sound, Members
    <2>2. Members(q) \intersect Members(p) = {}
        BY <2>1, <1>1
    <2> HIDE DEF p, q
    <2> QED BY <2>1, <2>2, <1>1, SplicedMembers
<1>7. Q2 \in HContents /\ Q2[h] = r /\ \A g \in ListHead \ {h} : Q2[g] = Q[g]
    BY <1>1 DEF HContents
<1>8. /\ m \in HLinks
      /\ \A x \in C!Cell : x # c /\ x # e => m.next[x] = l.next[x]
      /\ \A x \in Entry : x # e /\ x # d => m.pprev[x] = l.pprev[x]
    BY DEF HPut
<1> HIDE DEF q, c, d, Q2
<1>9. (\A x \in C!Cell \ W : m.next[x] = l.next[x]) /\ (\A x \in Entry \ W : m.pprev[x] = l.pprev[x])
    BY <1>4, <1>8, HCells
<1>10. ASSUME NEW x \in Entry \intersect W PROVE x \in Held(Q2)
    <2>1. x \in Members(Q2[h])
        BY <1>6, <1>7, HCells
    <2> QED BY <2>1 DEF Held
<1>11. {h} \in SUBSET ListHead /\ {e} \in SUBSET Entry /\ {e} \intersect Held(Q) = {}
    OBVIOUS
<1>12. Sound(Q2[h]) /\ Chain(m, h, Q2[h]) /\ Members(Q2[h]) \subseteq W
    BY <1>5, <1>6, <1>7
<1>13. e \in W
    OBVIOUS
<1> HIDE DEF W
<1>14. HOnly(l, Q, m, Q2, {h}, {e}, D \ {e})
    BY <1>3, <1>7, <1>8, <1>9, <1>10, <1>11, <1>12 DEF HOnly
<1>15. D \subseteq (D \ {e}) \union HTouched(Q, {h}, {e})
    BY <1>3, <1>13
<1> QED BY <1>14, <1>15, ChainsAfter DEF Q2

(* The entry after place k of h is taken out, and keeps its own pointers. *)
LEMMA HDropChains ==
    ASSUME NEW l, NEW Q, NEW D, Chains(l, Q, D), NEW h \in ListHead, NEW e,
           NEW r \in Seq(Entry), NEW k \in 0 .. Len(r),
           Spliced(r, k, <<e>>, Q[h]), NEW m,
           HJoin(l, m, Spot(h, Q[h], k), Spot(h, Q[h], k + 2))
    PROVE  /\ Chains(m, [Q EXCEPT ![h] = r], D \union {e})
           /\ e \in Entry /\ e \notin Held([Q EXCEPT ![h] = r])
<1> DEFINE q == Q[h]
           c == Spot(h, q, k)
           d == Spot(h, q, k + 2)
           Q2 == [Q EXCEPT ![h] = r]
           W == {h} \union Members(q)
<1>1. /\ Q \in HContents /\ Sound(q) /\ Chain(l, h, q)
    BY DEF Chains
<1>2. ChainCells(h, q)
    BY <1>1, CellsOfChain
<1>3. HTouched(Q, {h}, {}) = W
    BY DEF HTouched
<1>4. Sound(r) /\ Members(r) = Members(q) \ {e} /\ k + 1 \in 1 .. Len(q) /\ q[k + 1] = e
    <2>1. Spliced(r, k, <<e>>, q)
        OBVIOUS
    <2> HIDE DEF q
    <2> QED BY <2>1, <1>1, RemovedMembers
<1>5. e \in Entry /\ e \in Members(q)
    BY <1>2, <1>4 DEF ChainCells
<1>6. Chain(m, h, r)
    <2>1. /\ Len(r) \in Nat /\ k \in 0 .. Len(r) /\ Spliced(r, k, <<e>>, q)
          /\ HJoin(l, m, Spot(h, q, k), Spot(h, q, k + 2))
        OBVIOUS
    <2> HIDE DEF q
    <2> QED BY <2>1, <1>1, ChainCut
<1>7. c \in W /\ (d \in W \/ d = C!NULL)
    <2>1. Len(q) \in Nat /\ k \in 0 .. Len(q) /\ k + 2 \in 1 .. Len(q) + 1
        BY <1>2, <1>4 DEF ChainCells
    <2> QED BY <2>1, <1>2 DEF ChainCells
<1>8. Q2 \in HContents /\ Q2[h] = r /\ \A g \in ListHead \ {h} : Q2[g] = Q[g]
    BY <1>1 DEF HContents
<1>9. /\ m \in HLinks
      /\ \A x \in C!Cell : x # c => m.next[x] = l.next[x]
      /\ \A x \in Entry : x # d => m.pprev[x] = l.pprev[x]
    BY DEF HJoin
<1>10. e \notin Held(Q2)
    <2> SUFFICES ASSUME NEW g \in ListHead PROVE e \notin Members(Q2[g])
        BY DEF Held
    <2> QED BY <1>4, <1>5, <1>8 DEF Chains
<1> HIDE DEF q, c, d, Q2
<1>11. (\A x \in C!Cell \ W : m.next[x] = l.next[x]) /\ (\A x \in Entry \ W : m.pprev[x] = l.pprev[x])
    BY <1>7, <1>9, HCells
<1>12. ASSUME NEW x \in Entry \intersect W, x # e PROVE x \in Held(Q2)
    <2>1. x \in Members(Q2[h])
        BY <1>4, <1>8, <1>12, HCells
    <2> QED BY <2>1 DEF Held
<1>13. {h} \in SUBSET ListHead /\ {} \in SUBSET Entry /\ {} \intersect Held(Q) = {}
    OBVIOUS
<1>14. Sound(Q2[h]) /\ Chain(m, h, Q2[h]) /\ Members(Q2[h]) \subseteq W
    BY <1>4, <1>6, <1>8
<1> HIDE DEF W
<1>15. HOnly(l, Q, m, Q2, {h}, {}, D \union {e})
    BY <1>3, <1>8, <1>9, <1>11, <1>12, <1>13, <1>14 DEF HOnly
<1>16. Chains(m, Q2, D \union {e})
    BY <1>15, ChainsAfter
<1> QED BY <1>5, <1>10, <1>16 DEF Q2

(* The pointers of an entry that is on no list are assigned. *)
LEMMA SetLoose ==
    ASSUME NEW l, NEW Q, NEW D, Chains(l, Q, D), NEW e \in Entry, e \notin Held(Q),
           NEW m \in HLinks, Loose(m, e),
           \A x \in C!Cell : x # e => m.next[x] = l.next[x],
           \A x \in Entry : x # e => m.pprev[x] = l.pprev[x]
    PROVE  Chains(m, Q, D \ {e})
<1>1. HTouched(Q, {}, {e}) = {e}
    BY DEF HTouched
<1>2. HOnly(l, Q, m, Q, {}, {e}, D \ {e})
    BY <1>1 DEF HOnly, Chains
<1>3. D \subseteq (D \ {e}) \union HTouched(Q, {}, {e})
    BY <1>1
<1> QED BY <1>2, <1>3, ChainsAfter
----------------------------------------------------------------------------
(* The pointers of an entry on a list, and of one on none. *)
LEMMA HNames ==
    ASSUME Chains(s, seq, {})
    PROVE  /\ C!Listed = Held(seq) /\ C!Off \subseteq Entry \ Held(seq)
           /\ \A h \in ListHead : C!On(h) = Members(seq[h])
           /\ \A h \in ListHead : \A e \in Members(seq[h]) :
                 C!Place(h, e) \in 1 .. Len(seq[h]) /\ seq[h][C!Place(h, e)] = e
<1>1. \A h \in ListHead : DOMAIN seq[h] = 1 .. Len(seq[h])
    BY DEF Chains, HContents
<1>2. \A h \in ListHead : C!On(h) = Members(seq[h])
    BY <1>1 DEF C!On, Members
<1>3. C!Listed = Held(seq)
    BY <1>2 DEF C!Listed, Held
<1>4. C!Off \subseteq Entry \ Held(seq)
    BY <1>3 DEF C!Off
<1>5. \A h \in ListHead : \A e \in Members(seq[h]) :
          C!Place(h, e) \in 1 .. Len(seq[h]) /\ seq[h][C!Place(h, e)] = e
    BY <1>1 DEF C!Place, Members
<1> QED BY <1>2, <1>3, <1>4, <1>5

LEMMA ChainLinks ==
    ASSUME NEW l, NEW Q, NEW D, Chains(l, Q, D), NEW h \in ListHead
    PROVE  /\ Sound(Q[h]) /\ Q[h] \in Seq(Entry) /\ ChainCells(h, Q[h])
           /\ \A i \in 0 .. Len(Q[h]) : l.next[Spot(h, Q[h], i)] = Spot(h, Q[h], i + 1)
           /\ \A i \in 1 .. Len(Q[h]) : l.pprev[Q[h][i]] = Spot(h, Q[h], i - 1)
<1> SUFFICES ASSUME NEW q, q = Q[h]
             PROVE  /\ Sound(q) /\ q \in Seq(Entry) /\ ChainCells(h, q)
                    /\ \A i \in 0 .. Len(q) : l.next[Spot(h, q, i)] = Spot(h, q, i + 1)
                    /\ \A i \in 1 .. Len(q) : l.pprev[q[i]] = Spot(h, q, i - 1)
    OBVIOUS
<1>1. Sound(q) /\ q \in Seq(Entry) /\ Chain(l, h, q)
    BY DEF Chains, Sound
<1>2. ChainCells(h, q)
    BY <1>1, CellsOfChain
<1> QED BY <1>1, <1>2 DEF Chain, ChainCells

LEMMA LinksOfEntry ==
    ASSUME Chains(s, seq, {}), NEW e \in Entry
    PROVE  /\ e \in Held(seq) => s.pprev[e] # C!NULL /\ s.pprev[e] # C!POISON2 /\ s.pprev[e] \in C!Cell
           /\ e \notin Held(seq) => Loose(s, e)
<1>1. ASSUME e \in Held(seq) PROVE s.pprev[e] \in C!Cell
    <2>1. PICK h \in ListHead : e \in Members(seq[h])
        BY <1>1 DEF Held
    <2>2. PICK k \in 1 .. Len(seq[h]) : e = seq[h][k]
        BY <2>1 DEF Members
    <2>3. s.pprev[e] = Spot(h, seq[h], k - 1) /\ ChainCells(h, seq[h])
        BY <2>1, <2>2, ChainLinks
    <2>4. k - 1 \in 0 .. Len(seq[h])
        BY <2>3 DEF ChainCells
    <2> QED BY <2>3, <2>4 DEF ChainCells
<1>2. e \notin Held(seq) => Loose(s, e)
    BY DEF Chains
<1> QED BY <1>1, <1>2, HCells

(* hlist_add_after, and hlist_add_head with k = 0. *)
LEMMA HAddAfter ==
    ASSUME NEW l, NEW Q, NEW D, Chains(l, Q, D), NEW h \in ListHead, NEW e \in Entry,
           e \notin Held(Q), NEW k \in 0 .. Len(Q[h]), NEW r \in Seq(Entry),
           Spliced(Q[h], k, <<e>>, r)
    PROVE  Chains(C!AddAt(l, e, Spot(h, Q[h], k)), [Q EXCEPT ![h] = r], D \ {e})
<1> DEFINE q == Q[h]
           c == Spot(h, q, k)
           d == Spot(h, q, k + 1)
<1>1. ChainCells(h, q) /\ l.next[c] = d /\ l \in HLinks
    <2>1. /\ ChainCells(h, Q[h])
          /\ \A i \in 0 .. Len(Q[h]) : l.next[Spot(h, Q[h], i)] = Spot(h, Q[h], i + 1)
        BY ChainLinks
    <2> QED BY <2>1 DEF Chains
<1>2. c \in C!Cell /\ c # e /\ d \in Entry \union {C!NULL} /\ d # e
    <2>1. k + 1 \in 1 .. Len(q) + 1
        BY <1>1 DEF ChainCells
    <2>2. e \notin Members(q)
        BY DEF Held
    <2> QED BY <2>1, <2>2, <1>1, HCells DEF ChainCells
<1>3. HPut(l, C!AddAt(l, e, c), e, c, d)
    <2> HIDE DEF c, d
    <2> QED BY <1>1, <1>2, AddAtIs
<1> QED BY <1>3, HAddChains

LEMMA SameOps ==
    ASSUME NEW q, NEW i, NEW e
    PROVE  C!InsertAt(q, i, e) = L!InsertAt(q, i, e) /\ C!RemoveAt(q, i) = L!RemoveAt(q, i)
    BY DEF C!InsertAt, L!InsertAt, C!RemoveAt, L!RemoveAt

LEMMA HAddHereStep ==
    ASSUME Chains(s, seq, {}), NEW h \in ListHead, NEW e \in Entry, C!AddHere(e, h)
    PROVE  Chains(s', seq', {})
<1> DEFINE q == seq[h]
<1>0. {} \ {e} = {}
    OBVIOUS
<1>1. e \notin Held(seq) /\ C!On(h) = Members(q)
    BY HNames DEF C!AddHere
<1>2. /\ q \in Seq(Entry) /\ ChainCells(h, q) /\ Len(q) \in Nat /\ Spot(h, q, 0) = h
      /\ \A i \in 1 .. Len(q) : s.pprev[q[i]] = Spot(h, q, i - 1)
      /\ \A i \in 1 .. Len(q) : Spot(h, q, i) = q[i]
    <2>1. /\ q \in Seq(Entry) /\ ChainCells(h, q)
          /\ \A i \in 1 .. Len(q) : s.pprev[q[i]] = Spot(h, q, i - 1)
        BY ChainLinks
    <2> QED BY <2>1 DEF ChainCells
<1>3. CASE s' = C!AddAt(s, e, h) /\ seq' = [seq EXCEPT ![h] = <<e>> \o q]
    <2> DEFINE p == <<e>>
    <2>1. p \in Seq(Entry)
        OBVIOUS
    <2>2. p \o q \in Seq(Entry) /\ Spliced(q, 0, p, p \o q)
        <3> HIDE DEF p, q
        <3> QED BY <1>2, <2>1, SplicedEnds
    <2>3. 0 \in 0 .. Len(seq[h])
        BY <1>2
    <2>4. Chains(C!AddAt(s, e, Spot(h, seq[h], 0)), [seq EXCEPT ![h] = p \o q], {} \ {e})
        BY <1>1, <2>2, <2>3, HAddAfter
    <2> QED BY <2>4, <1>0, <1>2, <1>3
<1>4. ASSUME NEW x \in C!On(h)
      PROVE  LET i == C!Place(h, x)
             IN  /\ Chains(C!AddAt(s, e, x), [seq EXCEPT ![h] = C!InsertAt(q, i + 1, e)], {})
                 /\ Chains(C!AddBefore(s, e, x), [seq EXCEPT ![h] = C!InsertAt(q, i, e)], {})
    <2> DEFINE i == C!Place(h, x)
    <2>1. i \in 1 .. Len(q) /\ q[i] = x
        BY <1>1, HNames
    <2> HIDE DEF i, q
    <2>2. /\ i + 1 \in 1 .. Len(q) + 1 /\ i \in 1 .. Len(q) + 1 /\ i \in 0 .. Len(q)
          /\ i - 1 \in 0 .. Len(q) /\ (i + 1) - 1 = i /\ (i - 1) + 1 = i
        BY <1>2, <2>1
    <2>3. /\ C!InsertAt(q, i + 1, e) \in Seq(Entry)
          /\ Spliced(q, i, <<e>>, C!InsertAt(q, i + 1, e))
          /\ C!InsertAt(q, i, e) \in Seq(Entry)
          /\ Spliced(q, i - 1, <<e>>, C!InsertAt(q, i, e))
        BY <1>2, <2>2, SplicedAt, SameOps
    <2>4. Spot(h, q, i) = x /\ s.pprev[x] = Spot(h, q, i - 1)
        BY <1>2, <2>1
    <2> USE DEF q
    <2>5. Chains(C!AddAt(s, e, Spot(h, seq[h], i)),
                 [seq EXCEPT ![h] = C!InsertAt(q, i + 1, e)], {} \ {e})
        BY <1>1, <2>2, <2>3, HAddAfter
    <2>6. HPut(s, C!AddBefore(s, e, x), e, Spot(h, q, i - 1), x)
        <3> DEFINE c == Spot(h, q, i - 1)
        <3>1. /\ c \in C!Cell /\ c # e /\ x \in Entry /\ x # e /\ s \in HLinks
            <4>1. e \notin Members(q) /\ x \in Members(q) /\ x \in Entry
                BY <1>1, <1>2, <2>1 DEF Held, ChainCells
            <4>2. c \in C!Cell /\ c \in {h} \union Members(q)
                BY <1>2, <2>2 DEF ChainCells
            <4> QED BY <4>1, <4>2, HCells DEF Chains
        <3>2. s.pprev[x] = c
            BY <2>4
        <3> HIDE DEF c
        <3> QED BY <3>1, <3>2, AddBeforeIs DEF c
    <2> DEFINE j == i - 1
    <2>7. /\ HPut(s, C!AddBefore(s, e, x), e, Spot(h, seq[h], j), Spot(h, seq[h], j + 1))
          /\ j \in 0 .. Len(seq[h]) /\ Spliced(seq[h], j, <<e>>, C!InsertAt(q, i, e))
        BY <2>2, <2>3, <2>4, <2>6
    <2> HIDE DEF j
    <2>8. Chains(C!AddBefore(s, e, x), [seq EXCEPT ![h] = C!InsertAt(q, i, e)], {} \ {e})
        BY <1>1, <2>3, <2>7, HAddChains
    <2> QED BY <1>0, <2>4, <2>5, <2>8 DEF i
<1> QED BY <1>3, <1>4 DEF C!AddHere

(* hlist_del up to the poison: of an entry on a list, or of a fake one. *)
LEMMA HUnlinked ==
    ASSUME Chains(s, seq, {}), NEW e \in Entry, s.pprev[e] # C!NULL, s.pprev[e] # C!POISON2
    PROVE  Chains(C!DeleteFrom(s, e), C!Without(e), {e}) /\ e \notin Held(C!Without(e))
<1>0. seq \in HContents /\ s \in HLinks /\ e \in C!Cell
    BY HCells DEF Chains
<1>1. CASE e \in Held(seq)
    <2>1. PICK h \in ListHead : e \in Members(seq[h])
        BY <1>1 DEF Held
    <2> DEFINE q == seq[h]
               i == C!Place(h, e)
               r == C!RemoveAt(q, i)
    <2>2. i \in 1 .. Len(q) /\ q[i] = e
        BY <2>1, HNames
    <2>3. /\ q \in Seq(Entry) /\ ChainCells(h, q)
          /\ \A x \in 0 .. Len(q) : s.next[Spot(h, q, x)] = Spot(h, q, x + 1)
          /\ \A x \in 1 .. Len(q) : s.pprev[q[x]] = Spot(h, q, x - 1)
        BY ChainLinks
    <2>4. r \in Seq(Entry) /\ i - 1 \in 0 .. Len(r) /\ Spliced(r, i - 1, <<e>>, q)
        <3> HIDE DEF i, q
        <3> QED BY <2>2, <2>3, RemovedAt, SameOps
    <2> DEFINE k == i - 1
    <2>5. /\ k \in 0 .. Len(q) /\ k + 2 \in 1 .. Len(q) + 1 /\ k + 1 = i /\ i + 1 = k + 2
          /\ i \in 0 .. Len(q)
        <3>1. Len(q) \in Nat
            BY <2>3 DEF ChainCells
        <3> HIDE DEF i
        <3> QED BY <2>2, <3>1
    <2> HIDE DEF i, r, q
    <2>6. HJoin(s, C!DeleteFrom(s, e), Spot(h, q, k), Spot(h, q, k + 2))
        <3>1. s.pprev[e] = Spot(h, q, k) /\ s.next[e] = Spot(h, q, k + 2)
            <4>1. Spot(h, q, i) = e
                BY <2>2, <2>3 DEF ChainCells
            <4> QED BY <4>1, <2>2, <2>3, <2>5
        <3>2. Spot(h, q, k) \in C!Cell /\ Spot(h, q, k + 2) \in Entry \union {C!NULL}
            BY <2>3, <2>5 DEF ChainCells
        <3> QED BY <1>0, <3>1, <3>2, DeleteFromIs
    <2>7. k \in 0 .. Len(r) /\ Spliced(r, k, <<e>>, q)
        BY <2>4
    <2> HIDE DEF k
    <2>8. /\ Chains(C!DeleteFrom(s, e), [seq EXCEPT ![h] = r], {} \union {e})
          /\ e \notin Held([seq EXCEPT ![h] = r])
        BY <2>4, <2>6, <2>7, HDropChains DEF q
    <2>9. C!Without(e) = [seq EXCEPT ![h] = r]
        <3>1. e \in C!On(h) /\ \A g \in ListHead : g # h => e \notin C!On(g)
            BY <2>1, HNames DEF Chains
        <3>2. C!Without(e) = [g \in ListHead |-> IF g = h THEN r ELSE seq[g]]
            BY <3>1 DEF C!Without, r, q, i
        <3> QED BY <3>2, <1>0 DEF HContents
    <2>10. {} \union {e} = {e}
        OBVIOUS
    <2> QED BY <2>8, <2>9, <2>10
<1>2. CASE e \notin Held(seq)
    <2>1. s.pprev[e] = e /\ s.next[e] = C!NULL
        BY <1>2, LinksOfEntry DEF Loose
    <2> DEFINE m == C!DeleteFrom(s, e)
    <2>2. HJoin(s, m, e, C!NULL)
        BY <1>0, <2>1, DeleteFromIs
    <2> HIDE DEF m
    <2>3. /\ m \in HLinks /\ m.next[e] = C!NULL
          /\ \A x \in C!Cell : x # e => m.next[x] = s.next[x]
          /\ \A x \in Entry : m.pprev[x] = s.pprev[x]
        BY <2>2, HCells DEF HJoin
    <2>4. Chains(m, seq, {} \ {e})
        BY <1>2, <2>1, <2>3, SetLoose DEF Loose
    <2>5. Chains(m, seq, {e})
        BY <2>4 DEF Chains
    <2>6. C!Without(e) = seq
        <3>1. \A g \in ListHead : e \notin C!On(g)
            BY <1>2, HNames DEF Held
        <3> QED BY <3>1, <1>0 DEF C!Without, HContents
    <2> QED BY <2>5, <2>6, <1>2 DEF m
<1> QED BY <1>1, <1>2

LEMMA HSet ==
    ASSUME NEW l, NEW Q, NEW e \in Entry, Chains(l, Q, {e}), e \notin Held(Q)
    PROVE  Chains(C!Poisoned(l, e), Q, {}) /\ Chains(C!Cleared(l, e), Q, {})
<1>1. l \in HLinks /\ e \in C!Cell /\ {e} \ {e} = {}
    BY HCells DEF Chains
<1>2. ASSUME NEW m, m = C!Poisoned(l, e) \/ m = C!Cleared(l, e) PROVE Chains(m, Q, {})
    <2>1. /\ m \in HLinks /\ Loose(m, e)
          /\ \A x \in C!Cell : x # e => m.next[x] = l.next[x]
          /\ \A x \in Entry : x # e => m.pprev[x] = l.pprev[x]
        <3>1. CASE m = C!Poisoned(l, e)
            BY <1>1, <3>1, HCells DEF HLinks, Loose, C!Poisoned
        <3>2. CASE m = C!Cleared(l, e)
            BY <1>1, <3>2, HCells DEF HLinks, Loose, C!Cleared
        <3> QED BY <1>2, <3>1, <3>2
    <2>2. Chains(m, Q, {e} \ {e})
        BY <2>1, SetLoose
    <2> QED BY <2>2, <1>1
<1> QED BY <1>2

(* hlist_del_init. *)
LEMMA HDeletedInit ==
    ASSUME Chains(s, seq, {}), NEW e \in Entry, s.pprev[e] # C!POISON2
    PROVE  Chains(C!DeletedInit(s, e), C!Without(e), {}) /\ e \notin Held(C!Without(e))
<1>1. CASE C!Unhashed(e)
    <2>1. e \notin Held(seq)
        BY <1>1, LinksOfEntry DEF C!Unhashed
    <2>2. C!Without(e) = seq
        <3>1. \A g \in ListHead : e \notin C!On(g)
            BY <2>1, HNames DEF Held
        <3> QED BY <3>1 DEF C!Without, HContents, Chains
    <2> QED BY <1>1, <2>1, <2>2 DEF C!DeletedInit
<1>2. CASE ~C!Unhashed(e)
    <2>1. Chains(C!DeleteFrom(s, e), C!Without(e), {e}) /\ e \notin Held(C!Without(e))
        BY <1>2, HUnlinked DEF C!Unhashed
    <2>2. Chains(C!Cleared(C!DeleteFrom(s, e), e), C!Without(e), {})
        <3> DEFINE l == C!DeleteFrom(s, e)
                   Q == C!Without(e)
        <3> HIDE DEF l, Q
        <3>1. Chains(l, Q, {e}) /\ e \notin Held(Q)
            BY <2>1 DEF l, Q
        <3>2. Chains(C!Cleared(l, e), Q, {})
            BY <3>1, HSet
        <3> QED BY <3>2 DEF l, Q
    <2> QED BY <1>2, <2>1, <2>2 DEF C!DeletedInit
<1> QED BY <1>1, <1>2

LEMMA HDeleteStep ==
    ASSUME Chains(s, seq, {}), NEW e \in Entry,
           C!Delete(e) \/ C!DeleteInit(e) \/ C!InitNode(e) \/ C!AddFake(e)
    PROVE  Chains(s', seq', {})
<1>1. CASE C!Delete(e)
    <2> DEFINE l == C!DeleteFrom(s, e)
               Q == C!Without(e)
    <2>1. Chains(l, Q, {e}) /\ e \notin Held(Q)
        BY <1>1, HUnlinked DEF C!Delete, C!Unhashed
    <2>2. s' = C!Poisoned(l, e) /\ seq' = Q
        BY <1>1 DEF C!Delete
    <2> HIDE DEF l, Q
    <2> QED BY <2>1, <2>2, HSet
<1>2. CASE C!DeleteInit(e)
    BY <1>2, HDeletedInit DEF C!DeleteInit
<1>3. CASE C!InitNode(e)
    <2>1. e \notin Held(seq) /\ s' = C!Cleared(s, e) /\ seq' = seq
        BY <1>3, HNames DEF C!InitNode
    <2>2. Chains(s, seq, {e})
        BY DEF Chains
    <2> QED BY <2>1, <2>2, HSet
<1>4. CASE C!AddFake(e)
    <2>1. /\ e \notin Held(seq) /\ s' = [s EXCEPT !.pprev[e] = e] /\ seq' = seq
          /\ s.next[e] = C!NULL
        BY <1>4, LinksOfEntry DEF C!AddFake, C!Unhashed, Loose, C!POISON2, C!NULL
    <2>2. s \in HLinks /\ e \in C!Cell
        BY HCells DEF Chains
    <2>3. /\ s' \in HLinks /\ Loose(s', e)
          /\ \A x \in C!Cell : x # e => s'.next[x] = s.next[x]
          /\ \A x \in Entry : x # e => s'.pprev[x] = s.pprev[x]
        BY <2>1, <2>2 DEF HLinks, Loose
    <2>4. Chains(s', seq, {} \ {e})
        BY <2>1, <2>3, SetLoose
    <2>5. {} \ {e} = {}
        OBVIOUS
    <2> QED BY <2>1, <2>4, <2>5
<1> QED BY <1>1, <1>2, <1>3, <1>4
(* hlist_move_list: the entries of old go to new, whose list is empty. *)
MoveLinksTo(m, old, new, d) ==
    /\ m \in HLinks /\ m.next[new] = d /\ m.next[old] = C!NULL
    /\ d \in Entry => m.pprev[d] = new
    /\ \A x \in C!Cell : x # new /\ x # old => m.next[x] = s.next[x]
    /\ \A x \in Entry : x # d => m.pprev[x] = s.pprev[x]
LEMMA MoveListIs ==
    ASSUME s \in HLinks, NEW old \in C!Cell, NEW new \in C!Cell, old # new,
           NEW d \in Entry \union {C!NULL}, s.next[old] = d
    PROVE  MoveLinksTo([C!Backed([s EXCEPT !.next[new] = s.next[old]], new)
                            EXCEPT !.next[old] = C!NULL], old, new, d)
<1> DEFINE a == [s EXCEPT !.next[new] = d]
           b == C!Backed(a, new)
           m == [b EXCEPT !.next[old] = C!NULL]
<1>0. C!NULL \notin Entry
    BY HCells
<1>1. /\ a \in HLinks /\ a.next[new] = d /\ a.pprev = s.pprev
      /\ \A x \in C!Cell : x # new => a.next[x] = s.next[x]
    BY DEF HLinks
<1>2. b = IF d = C!NULL THEN a ELSE [a EXCEPT !.pprev[d] = new]
    <2> HIDE DEF a
    <2> QED BY <1>1 DEF C!Backed
<1> HIDE DEF a, b
<1>3. /\ b \in HLinks /\ b.next = a.next /\ (d \in Entry => b.pprev[d] = new)
      /\ \A x \in Entry : x # d => b.pprev[x] = a.pprev[x]
    <2>1. CASE d = C!NULL
        BY <2>1, <1>0, <1>1, <1>2
    <2>2. CASE d # C!NULL
        <3>1. d \in Entry /\ b = [a EXCEPT !.pprev[d] = new]
            BY <2>2, <1>2
        <3> QED BY <3>1, <1>1 DEF HLinks
    <2> QED BY <2>1, <2>2
<1>4. /\ m \in HLinks /\ m.next[old] = C!NULL /\ m.pprev = b.pprev
      /\ \A x \in C!Cell : x # old => m.next[x] = b.next[x]
    BY <1>3 DEF HLinks
<1> HIDE DEF m
<1>5. MoveLinksTo(m, old, new, d)
    BY <1>1, <1>3, <1>4 DEF MoveLinksTo
<1> QED BY <1>5 DEF m, b, a

LEMMA MoveListStep ==
    ASSUME Chains(s, seq, {}), NEW old \in ListHead, NEW new \in ListHead, C!MoveList(old, new)
    PROVE  Chains(s', seq', {})
<1> DEFINE q == seq[old]
           d == Spot(old, q, 1)
           T == {old, new}
           W == T \union Members(q)
<1>1. /\ old # new /\ seq[new] = <<>> /\ seq' = [seq EXCEPT ![new] = q, ![old] = <<>>]
      /\ s' = [C!Backed([s EXCEPT !.next[new] = s.next[old]], new) EXCEPT !.next[old] = C!NULL]
    BY DEF C!MoveList
<1>2. /\ Sound(q) /\ q \in Seq(Entry) /\ ChainCells(old, q)
      /\ \A i \in 0 .. Len(q) : s.next[Spot(old, q, i)] = Spot(old, q, i + 1)
      /\ \A i \in 1 .. Len(q) : s.pprev[q[i]] = Spot(old, q, i - 1)
    BY ChainLinks
<1>3. /\ seq \in HContents /\ s \in HLinks /\ old \in C!Cell /\ new \in C!Cell
      /\ \A i \in 1 .. Len(q) : q[i] # new
    BY <1>2, HCells DEF Chains, ChainCells
<1>4. /\ Len(q) \in Nat /\ s.next[old] = d /\ d \in Entry \union {C!NULL}
      /\ d \in Members(q) \union {C!NULL}
    <2>1. Len(q) \in Nat /\ Spot(old, q, 0) = old
        BY <1>2 DEF ChainCells
    <2>2. 0 \in 0 .. Len(q) /\ 1 \in 1 .. Len(q) + 1 /\ 0 + 1 = 1
        BY <2>1
    <2> QED BY <2>1, <2>2, <1>2 DEF ChainCells
<1> HIDE DEF d
<1>5. MoveLinksTo(s', old, new, d)
    BY <1>1, <1>3, <1>4, MoveListIs
<1>6. /\ s' \in HLinks /\ s'.next[new] = d /\ s'.next[old] = C!NULL
      /\ d \in Entry => s'.pprev[d] = new
      /\ \A x \in C!Cell : x # new /\ x # old => s'.next[x] = s.next[x]
      /\ \A x \in Entry : x # d => s'.pprev[x] = s.pprev[x]
    BY <1>5 DEF MoveLinksTo
<1>7. /\ Spot(new, q, 0) = new
      /\ \A i \in 1 .. Len(q) + 1 : Spot(new, q, i) = Spot(old, q, i)
      /\ \A i \in 1 .. Len(q) : Spot(new, q, i) = q[i] /\ Spot(old, q, i) = q[i]
    <2>1. \A i \in 1 .. Len(q) + 1 : i # 0
        BY <1>4
    <2> QED BY <2>1, <1>4 DEF Spot
<1>8. Chain(s', new, q)
    <2>1. ASSUME NEW i \in 0 .. Len(q) PROVE s'.next[Spot(new, q, i)] = Spot(new, q, i + 1)
        <3>1. CASE i = 0
            <4>1. i + 1 = 1 /\ 1 \in 1 .. Len(q) + 1
                BY <3>1, <1>4
            <4> QED BY <4>1, <3>1, <1>6, <1>7 DEF d
        <3>2. CASE i # 0
            <4>1. i \in 1 .. Len(q) /\ i + 1 \in 1 .. Len(q) + 1
                BY <3>2, <1>4
            <4>2. q[i] \in C!Cell /\ q[i] # new /\ q[i] # old
                BY <4>1, <1>2, <1>3, HCells DEF ChainCells
            <4>3. s.next[q[i]] = Spot(old, q, i + 1)
                BY <4>1, <1>2, <1>7
            <4> QED BY <4>1, <4>2, <4>3, <1>6, <1>7
        <3> QED BY <3>1, <3>2
    <2>2. ASSUME NEW i \in 1 .. Len(q) PROVE s'.pprev[Spot(new, q, i)] = Spot(new, q, i - 1)
        <3>1. CASE i = 1
            <4>1. d = q[1] /\ d \in Entry /\ i - 1 = 0
                BY <3>1, <1>2, <1>7 DEF d, ChainCells
            <4> QED BY <4>1, <3>1, <1>6, <1>7
        <3>2. CASE i # 1
            <4>1. i \in 1 .. Len(q) + 1 /\ i - 1 \in 1 .. Len(q) /\ i - 1 \in 1 .. Len(q) + 1
                  /\ 1 \in 1 .. Len(q)
                BY <3>2, <1>4
            <4>2. q[i] # q[1] /\ q[i] \in Entry
                <5>1. \A x, y \in 1 .. Len(q) : q[x] = q[y] => x = y
                    BY <1>2 DEF Sound
                <5>2. q[i] \in Entry
                    BY <4>1, <1>2 DEF ChainCells
                <5> HIDE DEF q
                <5> QED BY <5>1, <5>2, <4>1, <3>2
            <4>3. d = q[1]
                BY <4>1, <1>7 DEF d
            <4>4. s.pprev[q[i]] = Spot(old, q, i - 1)
                BY <1>2
            <4> QED BY <4>1, <4>2, <4>3, <4>4, <1>6, <1>7
        <3> QED BY <3>1, <3>2
    <2> QED BY <2>1, <2>2 DEF Chain
<1>9. Chain(s', old, <<>>) /\ Sound(<<>>) /\ Members(<<>>) = {}
    <2>1. Len(<<>>) = 0 /\ Spot(old, <<>>, 0) = old /\ Spot(old, <<>>, 0 + 1) = C!NULL
        BY DEF Spot
    <2> QED BY <2>1, <1>6 DEF Chain, Sound, Members
<1>10. /\ seq' \in HContents /\ seq'[new] = q /\ seq'[old] = <<>>
       /\ \A g \in ListHead \ T : seq'[g] = seq[g]
    BY <1>1, <1>2, <1>3 DEF HContents
<1>11. HTouched(seq, T, {}) = W
    BY <1>1, <1>9 DEF HTouched
<1> HIDE DEF q
<1>12. (\A x \in C!Cell \ W : s'.next[x] = s.next[x]) /\ (\A x \in Entry \ W : s'.pprev[x] = s.pprev[x])
    BY <1>4, <1>6, HCells
<1>13. ASSUME NEW g \in T PROVE Sound(seq'[g]) /\ Chain(s', g, seq'[g]) /\ Members(seq'[g]) \subseteq W
    BY <1>2, <1>8, <1>9, <1>10
<1>14. ASSUME NEW g \in T, NEW h \in T, g # h PROVE Members(seq'[g]) \intersect Members(seq'[h]) = {}
    BY <1>9, <1>10, <1>14
<1>15. ASSUME NEW x \in Entry \intersect W PROVE x \in Held(seq')
    <2>1. x \in Members(seq'[new])
        BY <1>10, HCells
    <2> QED BY <2>1 DEF Held
<1>16. T \in SUBSET ListHead /\ {} \in SUBSET Entry /\ {} \intersect Held(seq) = {}
    OBVIOUS
<1> HIDE DEF W, T
<1>17. HOnly(s, seq, s', seq', T, {}, {})
    BY <1>6, <1>10, <1>11, <1>12, <1>13, <1>14, <1>15, <1>16 DEF HOnly
<1> QED BY <1>17, ChainsAfter

----------------------------------------------------------------------------
(* The iterations of a list with a single pointer as head. *)
HIterating ==
    head # C!NULL =>
        /\ head \in ListHead
        /\ \E k \in Nat : Ahead(seq[head], k, todo) /\ pos = Spot(head, seq[head], k)

LEMMA HIterateStep ==
    ASSUME Chains(s, seq, {}), NEW h \in ListHead, C!Iterate(h)
    PROVE  Chains(s', seq', {}) /\ HIterating'
<1> DEFINE q == seq[h]
<1>1. /\ s' = s /\ seq' = seq /\ head' = h /\ C!On(h) = Members(q)
    BY HNames DEF C!Iterate
<1>2. /\ q \in Seq(Entry) /\ ChainCells(h, q)
      /\ \A i \in 0 .. Len(q) : s.next[Spot(h, q, i)] = Spot(h, q, i + 1)
    BY ChainLinks
<1>3. /\ Len(q) \in Nat /\ Spot(h, q, 0) = h
      /\ \A i \in 1 .. Len(q) : Spot(h, q, i) = q[i]
    BY <1>2 DEF ChainCells
<1>4. ASSUME NEW k \in 1 .. Len(q) + 1, todo' = SubSeq(q, k, Len(q)), pos' = Spot(h, q, k)
      PROVE  HIterating'
    <2> HIDE DEF q
    <2>1. Ahead(q, k, todo')
        <3>1. /\ todo' \in Seq(Entry) /\ Len(todo') = Len(q) + 1 - k
              /\ \A j \in 1 .. Len(q) + 1 - k : todo'[j] = q[k + j - 1]
            BY <1>2, <1>3, <1>4
        <3>2. \A j \in 1 .. Len(q) + 1 - k : k + j - 1 = (k - 1) + j
            BY <1>3
        <3> QED BY <3>1, <3>2 DEF Ahead
    <2>2. k \in Nat
        BY <1>3
    <2> QED BY <2>1, <2>2, <1>1, <1>4 DEF HIterating, q
<1>5. CASE pos' = s.next[h] /\ todo' = seq[h]
    <2>1. 0 \in 0 .. Len(q) /\ 1 \in 1 .. Len(q) + 1 /\ 0 + 1 = 1
        BY <1>3
    <2>2. pos' = Spot(h, q, 1)
        BY <2>1, <1>2, <1>3, <1>5
    <2>3. todo' = SubSeq(q, 1, Len(q))
        BY <1>2, <1>5
    <2> QED BY <2>1, <2>2, <2>3, <1>1, <1>4
<1>6. ASSUME NEW x \in C!On(h),
             \/ pos' = x /\ todo' = SubSeq(q, C!Place(h, x), Len(q))
             \/ pos' = s.next[x] /\ todo' = SubSeq(q, C!Place(h, x) + 1, Len(q))
      PROVE  HIterating'
    <2> DEFINE i == C!Place(h, x)
    <2>1. i \in 1 .. Len(q) /\ q[i] = x
        BY <1>1, HNames
    <2> HIDE DEF i
    <2>2. /\ i \in 1 .. Len(q) + 1 /\ i + 1 \in 1 .. Len(q) + 1 /\ i \in 0 .. Len(q)
        BY <2>1, <1>3
    <2>3. x = Spot(h, q, i) /\ s.next[x] = Spot(h, q, i + 1)
        BY <2>1, <2>2, <1>2, <1>3
    <2>4. \/ pos' = Spot(h, q, i) /\ todo' = SubSeq(q, i, Len(q))
          \/ pos' = Spot(h, q, i + 1) /\ todo' = SubSeq(q, i + 1, Len(q))
        BY <2>3, <1>6 DEF i
    <2> HIDE DEF q
    <2> QED BY <2>2, <2>4, <1>4
<1> QED BY <1>1, <1>5, <1>6 DEF C!Iterate

LEMMA HRoundStep ==
    ASSUME Chains(s, seq, {}), HIterating, C!Round
    PROVE  Chains(s', seq', {}) /\ HIterating'
<1> DEFINE q == seq[head]
<1>1. head # C!NULL /\ pos # C!NULL /\ head' = head /\ head \in ListHead
    BY DEF C!Round, HIterating
<1>2. PICK k \in Nat : Ahead(q, k, todo) /\ pos = Spot(head, q, k)
    BY <1>1 DEF HIterating
<1>3. /\ q \in Seq(Entry) /\ ChainCells(head, q) /\ Sound(q)
      /\ \A i \in 0 .. Len(q) : s.next[Spot(head, q, i)] = Spot(head, q, i + 1)
      /\ \A i \in 1 .. Len(q) : s.pprev[q[i]] = Spot(head, q, i - 1)
    BY <1>1, ChainLinks
<1>4. /\ Len(q) \in Nat /\ Spot(head, q, Len(q) + 1) = C!NULL
      /\ \A i \in 1 .. Len(q) : Spot(head, q, i) = q[i]
    BY <1>3 DEF ChainCells
<1>5. k \in 1 .. Len(q) /\ k >= 1 /\ k <= Len(q) /\ k \in 0 .. Len(q)
    <2>1. k \in 1 .. Len(q) + 1 /\ k # Len(q) + 1
        BY <1>1, <1>2, <1>4 DEF Ahead
    <2> QED BY <2>1, <1>4
<1>6. /\ pos = q[k] /\ pos \in Entry /\ pos \in Members(q) /\ pos \in Held(seq)
      /\ s.next[pos] = Spot(head, q, k + 1) /\ C!Place(head, pos) = k
    <2>1. pos = q[k] /\ pos \in Entry /\ pos \in Members(q)
        BY <1>2, <1>3, <1>5 DEF ChainCells
    <2>2. C!Place(head, pos) \in 1 .. Len(q) /\ q[C!Place(head, pos)] = pos
        BY <2>1, <1>1, HNames
    <2> HIDE DEF q
    <2>3. C!Place(head, pos) = k
        BY <2>1, <2>2, <1>3, <1>5 DEF Sound
    <2> QED BY <2>1, <2>3, <1>1, <1>2, <1>3, <1>5 DEF Held, q
<1>7. Ahead(q, k + 1, Tail(todo)) /\ \A a2 : Skips(q, a2, k) => Ahead(a2, k, Tail(todo))
    <2> HIDE DEF q
    <2> QED BY <1>2, <1>4, <1>5, AheadTail
<1>8. CASE UNCHANGED <<s, seq>> /\ todo' = Tail(todo) /\ pos' = s.next[pos]
    <2>1. k + 1 \in Nat
        OBVIOUS
    <2> QED BY <2>1, <1>1, <1>6, <1>7, <1>8 DEF HIterating
<1>9. ASSUME NEW e \in C!Off, s' = C!AddAt(s, e, pos),
             seq' = [seq EXCEPT ![head] = C!InsertAt(@, C!Place(head, pos) + 1, e)],
             todo' = <<e>> \o Tail(todo), pos' = s'.next[pos]
      PROVE  Chains(s', seq', {}) /\ HIterating'
    <2> DEFINE r == C!InsertAt(q, k + 1, e)
               p == <<e>>
    <2>1. e \in Entry /\ e \notin Held(seq)
        BY <1>9, HNames
    <2>2. r \in Seq(Entry) /\ Spliced(q, k, p, r)
        <3>1. k + 1 \in 1 .. Len(q) + 1 /\ (k + 1) - 1 = k
            BY <1>4, <1>5
        <3> HIDE DEF q
        <3> QED BY <3>1, <2>1, <1>3, SplicedAt, SameOps
    <2> HIDE DEF r
    <2>3. Chains(s', seq', {})
        <3>1. Chains(C!AddAt(s, e, Spot(head, seq[head], k)), [seq EXCEPT ![head] = r], {} \ {e})
            BY <2>1, <2>2, <1>1, <1>5, HAddAfter
        <3>2. {} \ {e} = {}
            OBVIOUS
        <3> QED BY <3>1, <3>2, <1>2, <1>6, <1>9 DEF r
    <2>4. seq'[head] = r
        BY <1>1, <1>6, <1>9, <2>2 DEF r, Chains, HContents
    <2> HIDE DEF q
    <2>5. Spots(head, q, k, e, r)
        BY <2>2, <1>4, <1>5, SpotSpliced
    <2>6. /\ Len(r) = Len(q) + 1 /\ r[k + 1] = e /\ Spot(head, r, k + 1) = e
          /\ Spot(head, r, k) = Spot(head, q, k)
          /\ \A i \in k + 1 .. Len(q) : r[1 + i] = q[i]
        <3>0. Len(p) = 1 /\ p[1] = e /\ 1 \in 1 .. Len(p)
            OBVIOUS
        <3> HIDE DEF p
        <3>1. r[k + 1] = e /\ \A i \in k + 1 .. Len(q) : r[1 + i] = q[i]
            BY <3>0, <2>2 DEF Spliced
        <3>2. k \in 0 .. k
            BY <1>5
        <3> QED BY <3>1, <3>2, <2>5 DEF Spots
    <2>7. pos' = Spot(head, r, k + 1)
        <3>1. \A i \in 0 .. Len(r) : s'.next[Spot(head, r, i)] = Spot(head, r, i + 1)
            BY <2>3, <2>4, <1>1, ChainLinks
        <3>2. k \in 0 .. Len(r)
            BY <2>6, <1>4, <1>5
        <3> QED BY <3>1, <3>2, <2>6, <1>2, <1>9
    <2>8. Ahead(r, k + 1, todo')
        <3> DEFINE t2 == Tail(todo)
        <3>0. (k + 1) - 1 = k /\ Len(q) + 1 - (k + 1) = Len(q) - k
            BY <1>4, <1>5
        <3>1. /\ t2 \in Seq(Entry) /\ Len(t2) = Len(q) - k
              /\ \A j \in 1 .. Len(t2) : t2[j] = q[k + j]
            BY <3>0, <1>7 DEF Ahead
        <3> HIDE DEF t2, p
        <3>2. /\ p \in Seq(Entry) /\ Len(p) = 1 /\ p[1] = e
            BY <2>1 DEF p
        <3>3. /\ todo' \in Seq(Entry) /\ Len(todo') = Len(p) + Len(t2)
              /\ \A j \in 1 .. Len(p) : todo'[j] = p[j]
              /\ \A j \in 1 .. Len(t2) : todo'[Len(p) + j] = t2[j]
            <4>1. todo' = p \o t2
                BY <1>9 DEF p, t2
            <4> QED BY <4>1, <3>1, <3>2, ConcatIs
        <3>4. todo'[1] = e /\ Len(todo') = 1 + Len(t2) /\ \A j \in 1 .. Len(t2) : todo'[1 + j] = t2[j]
            <4>1. 1 \in 1 .. Len(p)
                BY <3>2
            <4> QED BY <4>1, <3>2, <3>3
        <3>5. ASSUME NEW j \in 1 .. Len(todo') PROVE todo'[j] = r[k + j]
            <4>1. CASE j = 1
                BY <4>1, <3>4, <2>6
            <4>2. CASE j # 1
                <5> DEFINE x == j - 1
                <5>1. Len(todo') = 1 + (Len(q) - k)
                    BY <3>1, <3>4
                <5>2. x \in 1 .. Len(q) - k /\ j = 1 + x /\ k + x \in k + 1 .. Len(q) /\ k + j = 1 + (k + x)
                    BY <5>1, <4>2, <1>4, <1>5
                <5> HIDE DEF x
                <5>3. todo'[1 + x] = t2[x] /\ t2[x] = q[k + x] /\ r[1 + (k + x)] = q[k + x]
                    BY <5>2, <3>1, <3>4, <2>6
                <5> QED BY <5>2, <5>3
            <4> QED BY <4>1, <4>2
        <3>6. k + 1 \in 1 .. Len(r) + 1 /\ Len(todo') = Len(r) + 1 - (k + 1)
            <4>1. Len(t2) = Len(q) - k /\ Len(todo') = 1 + Len(t2) /\ Len(r) = Len(q) + 1
                BY <3>1, <3>4, <2>6
            <4> QED BY <4>1, <1>4, <1>5
        <3> QED BY <3>0, <3>3, <3>5, <3>6 DEF Ahead
    <2>9. k + 1 \in Nat
        OBVIOUS
    <2> QED BY <2>3, <2>4, <2>7, <2>8, <2>9, <1>1 DEF HIterating
<1>10. CASE /\ pos' = s.next[pos] /\ todo' = Tail(todo)
            /\ \/ s' = C!Poisoned(C!DeleteFrom(s, pos), pos) /\ seq' = C!Without(pos)
               \/ \E h \in ListHead \ {head} :
                    /\ s' = C!AddAt(C!DeletedInit(s, pos), pos, h)
                    /\ seq' = [C!Without(pos) EXCEPT ![h] = <<pos>> \o @]
    <2> DEFINE r == C!RemoveAt(q, k)
               m == k - 1
               Q == C!Without(pos)
    <2>1. r \in Seq(Entry) /\ m \in 0 .. Len(r) /\ Spliced(r, m, <<pos>>, q)
        <3> HIDE DEF q
        <3> QED BY <1>3, <1>5, <1>6, RemovedAt, SameOps
    <2>2. Q[head] = r /\ Q \in HContents
        <3>1. pos \in C!On(head) /\ seq \in HContents
            BY <1>1, <1>6, HNames DEF Chains
        <3>2. ASSUME NEW g \in ListHead, g # head PROVE pos \notin C!On(g)
            <4>1. C!On(g) = Members(seq[g]) /\ Members(seq[g]) \intersect Members(seq[head]) = {}
                BY <3>2, <1>1, HNames DEF Chains
            <4> QED BY <4>1, <1>6
        <3>3. Q = [g \in ListHead |-> IF g = head THEN r ELSE seq[g]]
            BY <3>1, <3>2, <1>6 DEF C!Without
        <3> HIDE DEF r
        <3> QED BY <3>1, <3>3, <2>1, <1>1 DEF HContents
    <2> HIDE DEF Q, r
    <2>3. s.pprev[pos] # C!NULL /\ s.pprev[pos] # C!POISON2
        BY <1>6, LinksOfEntry
    <2>4. Chains(s', seq', {}) /\ seq'[head] = r
        <3>1. CASE s' = C!Poisoned(C!DeleteFrom(s, pos), pos) /\ seq' = Q
            <4> DEFINE l == C!DeleteFrom(s, pos)
            <4>1. Chains(l, Q, {pos}) /\ pos \notin Held(Q)
                BY <1>6, <2>3, HUnlinked DEF Q
            <4> HIDE DEF l
            <4>2. Chains(C!Poisoned(l, pos), Q, {})
                BY <4>1, <1>6, HSet
            <4> QED BY <4>2, <3>1, <2>2 DEF l
        <3>2. ASSUME NEW h \in ListHead \ {head}, s' = C!AddAt(C!DeletedInit(s, pos), pos, h),
                     seq' = [Q EXCEPT ![h] = <<pos>> \o @]
              PROVE  Chains(s', seq', {}) /\ seq'[head] = r
            <4> DEFINE l == C!DeletedInit(s, pos)
                       p == <<pos>>
                       f == Q[h]
            <4>1. Chains(l, Q, {}) /\ pos \notin Held(Q)
                BY <1>6, <2>3, HDeletedInit DEF Q
            <4> HIDE DEF l
            <4>2. f \in Seq(Entry) /\ p \in Seq(Entry) /\ ChainCells(h, f)
                BY <4>1, <1>6, ChainLinks
            <4>3. p \o f \in Seq(Entry) /\ Spliced(f, 0, p, p \o f)
                <5> HIDE DEF p, f
                <5> QED BY <4>2, SplicedEnds
            <4>4. 0 \in 0 .. Len(Q[h]) /\ Spot(h, Q[h], 0) = h
                BY <4>2 DEF ChainCells
            <4>5. Chains(C!AddAt(l, pos, Spot(h, Q[h], 0)), [Q EXCEPT ![h] = p \o f], {} \ {pos})
                BY <4>1, <4>3, <4>4, <1>6, HAddAfter
            <4>6. {} \ {pos} = {}
                OBVIOUS
            <4>7. seq'[head] = Q[head]
                BY <3>2, <2>2 DEF HContents
            <4> QED BY <4>4, <4>5, <4>6, <4>7, <3>2, <2>2 DEF l
        <3> QED BY <1>10, <3>1, <3>2 DEF Q
    <2>5. Skips(q, r, k)
        <3>1. Walked(q, FALSE) = q /\ Walked(r, FALSE) = r
            BY DEF Walked
        <3> HIDE DEF q, m
        <3>2. Skips(Walked(q, FALSE), Walked(r, FALSE), k)
            BY <3>1, <2>1, <1>3, <1>5, <1>6, WalkRemoved
        <3> QED BY <3>1, <3>2
    <2>6. pos' = Spot(head, r, k)
        <3>1. Len(q) = Len(r) + 1 /\ Len(r) \in Nat
            BY <2>5 DEF Skips
        <3>2. k \in m + 1 .. Len(r) + 1
            BY <3>1, <1>5
        <3> HIDE DEF q, m
        <3>3. Spots(head, r, m, pos, q)
            BY <3>1, <2>1, SpotSpliced
        <3> QED BY <3>2, <3>3, <1>6, <1>10 DEF Spots
    <2>7. Ahead(r, k, todo')
        BY <2>5, <1>7, <1>10
    <2> QED BY <2>4, <2>6, <2>7, <1>1 DEF HIterating
<1> QED BY <1>8, <1>9, <1>10 DEF C!Round

LEMMA HListSteps ==
    ASSUME Chains(s, seq, {}), HIterating, [C!Next]_C!vars
    PROVE  Chains(s', seq', {}) /\ HIterating'
<1>1. ASSUME C!Idle PROVE HIterating'
    BY <1>1 DEF C!Idle, C!iteration, HIterating
<1>2. ASSUME NEW e \in Entry, NEW h \in ListHead, C!AddHere(e, h)
      PROVE  Chains(s', seq', {}) /\ HIterating'
    <2>1. C!Idle
        BY <1>2 DEF C!AddHere
    <2> QED BY <1>1, <1>2, <2>1, HAddHereStep
<1>3. ASSUME NEW e \in Entry, C!Delete(e) \/ C!DeleteInit(e) \/ C!InitNode(e) \/ C!AddFake(e)
      PROVE  Chains(s', seq', {}) /\ HIterating'
    <2>1. C!Idle
        BY <1>3 DEF C!Delete, C!DeleteInit, C!InitNode, C!AddFake
    <2> QED BY <1>1, <1>3, <2>1, HDeleteStep
<1>4. ASSUME NEW old \in ListHead, NEW new \in ListHead, C!MoveList(old, new)
      PROVE  Chains(s', seq', {}) /\ HIterating'
    <2>1. C!Idle
        BY <1>4 DEF C!MoveList
    <2> QED BY <1>1, <1>4, <2>1, MoveListStep
<1>5. ASSUME NEW h \in ListHead, C!Iterate(h)
      PROVE  Chains(s', seq', {}) /\ HIterating'
    BY <1>5, HIterateStep
<1>6. CASE C!Round
    BY <1>6, HRoundStep
<1>7. CASE C!Finish
    BY <1>7 DEF C!Finish, HIterating
<1>8. CASE UNCHANGED C!vars
    BY <1>8 DEF C!vars, HIterating
<1> QED BY <1>2, <1>3, <1>4, <1>5, <1>6, <1>7, <1>8 DEF C!Next

LEMMA HListsStart == ASSUME C!Init PROVE Chains(s, seq, {}) /\ HIterating
<1>1. /\ s = [next |-> [c \in C!Cell |-> C!NULL], pprev |-> [e \in Entry |-> C!NULL]]
      /\ seq = [h \in ListHead |-> <<>>] /\ head = C!NULL
    BY DEF C!Init
<1>2. s \in HLinks /\ seq \in HContents
    BY <1>1 DEF HLinks, HContents
<1>3. ASSUME NEW h \in ListHead
      PROVE  Sound(seq[h]) /\ Chain(s, h, seq[h]) /\ Members(seq[h]) = {}
    <2>1. seq[h] = <<>> /\ Len(<<>>) = 0 /\ s.next[h] = C!NULL
        BY <1>1, HCells
    <2>2. Spot(h, <<>>, 0) = h /\ Spot(h, <<>>, 0 + 1) = C!NULL
        BY <2>1 DEF Spot
    <2> QED BY <2>1, <2>2 DEF Sound, Chain, Members
<1>4. \A e \in Entry : Loose(s, e)
    BY <1>1, HCells DEF Loose
<1> QED BY <1>1, <1>2, <1>3, <1>4 DEF Chains, HIterating

(* The chains are those that ChainsAreSequences writes as sequences. *)
LEMMA ChainIs ==
    ASSUME NEW h \in C!Cell, NEW q \in Seq(Entry)
    PROVE  LET chain == <<h>> \o q
           IN  /\ Len(chain) = Len(q) + 1 /\ Len(q) \in Nat
               /\ \A i \in 1 .. Len(q) + 1 : chain[i] = Spot(h, q, i - 1)
<1> DEFINE chain == <<h>> \o q
<1>1. /\ Len(chain) = Len(q) + 1 /\ chain[1] = h /\ Len(q) \in Nat
      /\ \A i \in 1 .. Len(q) : chain[i + 1] = q[i]
    <2>1. q \in Seq(C!Cell)
        BY HCells
    <2> QED BY <2>1
<1> HIDE DEF chain
<1>2. ASSUME NEW i \in 1 .. Len(q) + 1 PROVE chain[i] = Spot(h, q, i - 1)
    <2>1. CASE i = 1
        BY <2>1, <1>1 DEF Spot
    <2>2. CASE i # 1
        <3>1. i - 1 \in 1 .. Len(q) /\ (i - 1) + 1 = i
            BY <2>2, <1>1
        <3>2. chain[(i - 1) + 1] = q[i - 1]
            BY <3>1, <1>1
        <3> QED BY <3>1, <3>2 DEF Spot
    <2> QED BY <2>1, <2>2
<1> QED BY <1>1, <1>2 DEF chain

LEMMA HListsAreRight ==
    ASSUME Chains(s, seq, {}), HIterating
    PROVE  C!HListsTypeOK /\ C!ChainsAreSequences /\ C!IterationMeetsAll
<1>1. C!HListsTypeOK
    BY DEF C!HListsTypeOK, Chains, HLinks, HContents
<1>2. C!ChainsAreSequences
    <2> SUFFICES ASSUME NEW h \in ListHead
                 PROVE  LET chain == <<h>> \o seq[h]
                        IN  /\ \A i \in DOMAIN seq[h] :
                                  s.next[chain[i]] = seq[h][i] /\ s.pprev[seq[h][i]] = chain[i]
                            /\ s.next[C!Last(chain)] = C!NULL
        BY DEF C!ChainsAreSequences
    <2> DEFINE q == seq[h]
               chain == <<h>> \o q
    <2>1. /\ q \in Seq(Entry) /\ ChainCells(h, q)
          /\ \A i \in 0 .. Len(q) : s.next[Spot(h, q, i)] = Spot(h, q, i + 1)
          /\ \A i \in 1 .. Len(q) : s.pprev[q[i]] = Spot(h, q, i - 1)
        BY ChainLinks
    <2>2. h \in C!Cell
        BY HCells
    <2> HIDE DEF q
    <2>3. /\ Len(chain) = Len(q) + 1 /\ Len(q) \in Nat
          /\ \A i \in 1 .. Len(q) + 1 : chain[i] = Spot(h, q, i - 1)
        BY <2>1, <2>2, ChainIs
    <2>4. C!Last(chain) = chain[Len(chain)] /\ DOMAIN q = 1 .. Len(q)
        BY <2>1 DEF C!Last
    <2> HIDE DEF chain
    <2>5. ASSUME NEW i \in 1 .. Len(q) PROVE s.next[chain[i]] = q[i] /\ s.pprev[q[i]] = chain[i]
        <3> DEFINE j == i - 1
        <3>1. j \in 0 .. Len(q) /\ j + 1 = i /\ i \in 1 .. Len(q) + 1
            BY <2>3
        <3>2. Spot(h, q, i) = q[i]
            BY <2>1 DEF ChainCells
        <3>3. chain[i] = Spot(h, q, j) /\ s.pprev[q[i]] = Spot(h, q, j)
            BY <3>1, <2>1, <2>3
        <3> HIDE DEF j
        <3> QED BY <3>1, <3>2, <3>3, <2>1
    <2>6. s.next[chain[Len(chain)]] = C!NULL
        <3>1. /\ Len(q) + 1 \in 1 .. Len(q) + 1 /\ (Len(q) + 1) - 1 = Len(q)
              /\ Len(q) \in 0 .. Len(q)
            BY <2>3
        <3>2. chain[Len(chain)] = Spot(h, q, Len(q))
            <4>1. chain[Len(q) + 1] = Spot(h, q, (Len(q) + 1) - 1)
                BY <3>1, <2>3
            <4> QED BY <4>1, <3>1, <2>3
        <3>3. Spot(h, q, Len(q) + 1) = C!NULL
            BY <2>1 DEF ChainCells
        <3> QED BY <3>1, <3>2, <3>3, <2>1
    <2> QED BY <2>4, <2>5, <2>6 DEF chain, q
<1>3. C!IterationMeetsAll
    <2> SUFFICES ASSUME head # C!NULL
                 PROVE  pos = IF todo = <<>> THEN C!NULL ELSE todo[1]
        BY DEF C!IterationMeetsAll
    <2> DEFINE q == seq[head]
    <2>1. PICK k \in Nat : Ahead(q, k, todo) /\ pos = Spot(head, q, k)
        BY DEF HIterating
    <2>2. ChainCells(head, q)
        BY ChainLinks DEF HIterating
    <2>3. /\ Len(q) \in Nat /\ Spot(head, q, Len(q) + 1) = C!NULL
          /\ \A i \in 1 .. Len(q) : Spot(head, q, i) = q[i]
        BY <2>2 DEF ChainCells
    <2> HIDE DEF q
    <2>4. /\ k \in 1 .. Len(q) + 1 /\ todo \in Seq(Entry) /\ Len(todo) = Len(q) + 1 - k
          /\ \A i \in 1 .. Len(todo) : todo[i] = q[(k - 1) + i]
        BY <2>1 DEF Ahead
    <2>5. CASE todo = <<>>
        <3>1. k = Len(q) + 1
            <4>1. Len(todo) = 0
                BY <2>5
            <4> QED BY <4>1, <2>3, <2>4
        <3> QED BY <3>1, <2>1, <2>3, <2>5
    <2>6. CASE todo # <<>>
        <3>1. 1 \in 1 .. Len(todo) /\ Len(todo) >= 1
            BY <2>4, <2>6
        <3>2. k \in 1 .. Len(q) /\ (k - 1) + 1 = k
            BY <3>1, <2>3, <2>4
        <3>3. todo[1] = q[k]
            BY <3>1, <3>2, <2>4
        <3> QED BY <3>2, <3>3, <2>1, <2>3, <2>6
    <2> QED BY <2>5, <2>6
<1> QED BY <1>1, <1>2, <1>3

----------------------------------------------------------------------------
ChainInv == kind = "hlist" => Chains(s, seq, {}) /\ HIterating

LEMMA ChainInvInit == ASSUME Init PROVE ChainInv
<1>1. CASE kind = "hlist" /\ C!Init
    BY <1>1, HListsStart DEF ChainInv
<1>2. CASE kind # "hlist"
    BY <1>2 DEF ChainInv
<1> QED BY <1>1, <1>2 DEF Init

LEMMA ChainInvNext ==
    ASSUME ChainInv, [Next]_<<kind, ordered, lists>>
    PROVE  ChainInv'
<1>1. kind' = kind
    BY DEF Next
<1>2. CASE kind = "hlist"
    <2>1. [C!Next]_C!vars
        BY <1>2 DEF Next, HListStep, lists, C!vars
    <2>2. Chains(s', seq', {}) /\ HIterating'
        BY <1>2, <2>1, HListSteps DEF ChainInv
    <2> QED BY <2>2, <1>1, <1>2 DEF ChainInv
<1>3. CASE kind # "hlist"
    BY <1>1, <1>3 DEF ChainInv
<1> QED BY <1>2, <1>3

(* After any additions, deletions and moves, next and pprev of a list with *)
(* a single pointer as head meet exactly the entries that it means, and an *)
(* iteration whose body deletes, moves or adds entries is at the next one  *)
(* it has to meet.                                                         *)
THEOREM ChainsStayRight ==
    Spec => [](kind = "hlist" => C!HListsTypeOK /\ C!ChainsAreSequences /\ C!IterationMeetsAll)
<1>1. Init => ChainInv
    BY ChainInvInit
<1>2. ChainInv /\ [Next]_<<kind, ordered, lists>> => ChainInv'
    BY ChainInvNext
<1>3. ChainInv => (kind = "hlist" => C!HListsTypeOK /\ C!ChainsAreSequences /\ C!IterationMeetsAll)
    BY HListsAreRight DEF ChainInv
<1> QED BY <1>1, <1>2, <1>3, PTL DEF Spec

----------------------------------------------------------------------------
HP == INSTANCE Heap_proofs WITH Node <- PrioNode

(* After any calls, the pointers of both kinds of lists of list.h meet     *)
(* exactly the entries that each list means, next forwards and prev or     *)
(* pprev backwards, and an iteration is at the next entry it has to meet,  *)
(* whatever its body did to the one it was at.                             *)
THEOREM ListsStayRight == Spec => []ListsAreSequences
<1>1. /\ kind = "list" => L!ListsTypeOK /\ L!RingsAreSequences /\ L!IterationMeetsAll
      /\ kind = "hlist" => C!HListsTypeOK /\ C!ChainsAreSequences /\ C!IterationMeetsAll
      => ListsAreSequences
    BY DEF ListsAreSequences
<1> QED BY <1>1, RingsStayRight, ChainsStayRight, PTL

----------------------------------------------------------------------------
(* The heap here is the heap of Heap_proofs, operator by operator. *)
LEMMA SameOperators ==
    /\ H!NULL = HP!NULL /\ H!Lowest = HP!Lowest /\ H!Size = HP!Size /\ H!Held = HP!Held
    /\ H!Grown = HP!Grown /\ H!Return = HP!Return
    /\ \A i : H!Parent(i) = HP!Parent(i)
    /\ \A m : H!Largest(m) = HP!Largest(m) 
    /\ \A m : H!Forget(m) = HP!Forget(m)
    /\ \A x, m : H!Start(x, m) = HP!Start(x, m) /\ H!Swap(x, m) = HP!Swap(x, m)
<1>1. H!NULL = HP!NULL /\ H!Lowest = HP!Lowest /\ H!Held = HP!Held
    BY DEF H!NULL, HP!NULL, H!Lowest, HP!Lowest, H!Held, HP!Held
<1>2. H!Size = HP!Size
    BY DEF H!Size, HP!Size, H!Cardinality, HP!Cardinality
<1>3. H!Grown = HP!Grown
    BY <1>1, <1>2 DEF H!Grown, HP!Grown
<1>4. H!Return = HP!Return
    BY <1>1 DEF H!Return, HP!Return
<1>5. \A i : H!Parent(i) = HP!Parent(i)
    BY DEF H!Parent, HP!Parent
<1>6. \A m : H!Largest(m) = HP!Largest(m)
    BY DEF H!Largest, HP!Largest
<1>7. \A m : H!Forget(m) = HP!Forget(m)
    BY <1>1 DEF H!Forget, HP!Forget
<1>8. \A x, m : H!Start(x, m) = HP!Start(x, m) /\ H!Swap(x, m) = HP!Swap(x, m)
    BY DEF H!Start, HP!Start, H!Swap, HP!Swap
<1> QED BY <1>1, <1>2, <1>3, <1>4, <1>5, <1>6, <1>7, <1>8

LEMMA SameActions ==
    /\ \A m : H!Delete(m) <=> HP!Delete(m)
    /\ \A m, p : H!Insert(m, p) <=> HP!Insert(m, p)
    /\ \A m, p : H!Adjust(m, p) <=> HP!Adjust(m, p)
    /\ H!PullUp <=> HP!PullUp
    /\ H!PullUpEnds <=> HP!PullUpEnds
    /\ H!PushDown <=> HP!PushDown
    /\ H!PushDownEnds <=> HP!PushDownEnds
    /\ H!Sink <=> HP!Sink
    /\ H!Fill <=> HP!Fill
<1>1. \A m : H!Delete(m) <=> HP!Delete(m)
    BY SameOperators DEF H!Delete, HP!Delete
<1>2. \A m, p : H!Insert(m, p) <=> HP!Insert(m, p)
    BY SameOperators DEF H!Insert, HP!Insert
<1>3. \A m, p : H!Adjust(m, p) <=> HP!Adjust(m, p)
    BY SameOperators DEF H!Adjust, HP!Adjust
<1>4. H!PullUp <=> HP!PullUp
    BY SameOperators DEF H!PullUp, HP!PullUp
<1>5. H!PullUpEnds <=> HP!PullUpEnds
    BY SameOperators DEF H!PullUpEnds, HP!PullUpEnds
<1>6. H!PushDown <=> HP!PushDown
    BY SameOperators DEF H!PushDown, HP!PushDown
<1>7. H!PushDownEnds <=> HP!PushDownEnds
    BY SameOperators DEF H!PushDownEnds, HP!PushDownEnds
<1>8. H!Sink <=> HP!Sink
    BY SameOperators DEF H!Sink, HP!Sink
<1>9. H!Fill <=> HP!Fill
    BY SameOperators DEF H!Fill, HP!Fill
<1> QED BY <1>1, <1>2, <1>3, <1>4, <1>5, <1>6, <1>7, <1>8, <1>9

LEMMA SameHeap ==
    /\ H!Init <=> HP!Init
    /\ [H!Next]_H!vars <=> [HP!Next]_HP!vars
    /\ HP!HeapTypeOK /\ HP!HeapOrder /\ HP!IndexMirrors /\ HP!ReadsInBounds
       => H!HeapTypeOK /\ H!HeapOrder /\ H!IndexMirrors /\ H!ReadsInBounds
    /\ PrioAssumption => HP!HeapAssumption
<1>1. H!Init <=> HP!Init
    BY SameOperators DEF H!Init, HP!Init
<1>2. [H!Next]_H!vars <=> [HP!Next]_HP!vars
    BY SameActions DEF H!Next, HP!Next, H!vars, HP!vars
<1>3. HP!HeapTypeOK => H!HeapTypeOK
    BY SameOperators DEF HP!HeapTypeOK, H!HeapTypeOK
<1>4. HP!HeapOrder => H!HeapOrder
    BY SameOperators DEF HP!HeapOrder, H!HeapOrder
<1>5. HP!IndexMirrors => H!IndexMirrors
    BY SameOperators DEF HP!IndexMirrors, H!IndexMirrors
<1>6. HP!ReadsInBounds => H!ReadsInBounds
    BY SameOperators DEF HP!ReadsInBounds, H!ReadsInBounds
<1>7. HP!HeapAssumption
    BY PrioAssumption DEF HP!HeapAssumption, HP!NULL, NULL
<1> QED BY <1>1, <1>2, <1>3, <1>4, <1>5, <1>6, <1>7

----------------------------------------------------------------------------
PP == INSTANCE PrioTree_proofs WITH Node <- PrioNode

(* The priority tree here is the one of PrioTree_proofs, likewise. *)
LEMMA SameLinkOperators ==
    /\ P!NULL = PP!NULL /\ P!Side = PP!Side /\ P!NoKids = PP!NoKids
    /\ \A d : P!Other(d) = PP!Other(d)
    /\ \A x, m : P!IsClear(x, m) <=> PP!IsClear(x, m)
    /\ \A x, m : P!ClearLinks(x, m) = PP!ClearLinks(x, m)
    /\ \A x, m, q : P!SetParentOf(x, m, q) = PP!SetParentOf(x, m, q)
    /\ \A x, m, k, q : P!ChangeChild(x, m, k, q) = PP!ChangeChild(x, m, k, q)
    /\ \A x : P!LinksType(x) <=> PP!LinksType(x)
    /\ \A x : P!Linked(x) = PP!Linked(x)
    /\ \A x : P!Mirrored(x) <=> PP!Mirrored(x)
<1>1. P!NULL = PP!NULL /\ P!Side = PP!Side
    BY DEF P!NULL, PP!NULL, P!Side, PP!Side
<1>2. P!NoKids = PP!NoKids
    BY <1>1 DEF P!NoKids, PP!NoKids
<1>3. \A d : P!Other(d) = PP!Other(d)
    BY DEF P!Other, PP!Other
<1>4. \A x, m : P!IsClear(x, m) <=> PP!IsClear(x, m)
    BY DEF P!IsClear, PP!IsClear
<1>5. \A x, m : P!ClearLinks(x, m) = PP!ClearLinks(x, m)
    BY <1>2, Zenon DEF P!ClearLinks, PP!ClearLinks
<1>6. \A x, m, q : P!SetParentOf(x, m, q) = PP!SetParentOf(x, m, q)
    BY <1>1, Zenon DEF P!SetParentOf, PP!SetParentOf
<1>7. \A x, m, k, q : P!ChangeChild(x, m, k, q) = PP!ChangeChild(x, m, k, q)
    BY <1>1, Zenon DEF P!ChangeChild, PP!ChangeChild
<1>8. \A x : P!LinksType(x) <=> PP!LinksType(x)
    BY <1>1, Zenon DEF P!LinksType, PP!LinksType
<1>9. \A x : P!InOrder(x) = PP!InOrder(x)
    BY Zenon DEF P!InOrder, PP!InOrder, P!NULL, PP!NULL
<1>10. \A x : P!Linked(x) = PP!Linked(x)
    BY <1>9, Zenon DEF P!Linked, PP!Linked
<1>11. \A x : P!Mirrored(x) <=> PP!Mirrored(x)
    BY <1>1, <1>4, <1>10, Zenon DEF P!Mirrored, PP!Mirrored
<1> QED BY <1>1, <1>2, <1>3, <1>4, <1>5, <1>6, <1>7, <1>8, <1>10, <1>11

LEMMA SameExchange == \A x, m, k : P!Exchange(x, m, k) = PP!Exchange(x, m, k)
<1> SUFFICES ASSUME NEW x, NEW m, NEW k PROVE P!Exchange(x, m, k) = PP!Exchange(x, m, k)
    OBVIOUS
<1>1. \A e : P!Turned(x, m, k, e) = PP!Turned(x, m, k, e)
  <2> TAKE e
  <2> DEFINE turned(o) == [x EXCEPT !.kid[m][o] = x.kid[k][o], !.kid[k][o] = x.kid[m][o],
                                    !.kid[k][e] = x.kid[m][e],
                                    !.heavy[m] = x.heavy[k], !.heavy[k] = x.heavy[m]]
  <2>1. P!Turned(x, m, k, e) = turned(P!Other(e)) BY Zenon DEF P!Turned
  <2>2. PP!Turned(x, m, k, e) = turned(PP!Other(e)) BY Zenon DEF PP!Turned
  <2> HIDE DEF turned
  <2> QED BY <2>1, <2>2, SameLinkOperators, Zenon
<1>2. \A a, e : P!Adopted(a, m, k, e) = PP!Adopted(a, m, k, e)
  <2> TAKE a, e
  <2> DEFINE b1 == P!SetParentOf(a, a.kid[m][P!Other(e)], m)
             e1 == PP!SetParentOf(a, a.kid[m][PP!Other(e)], m)
             b2 == P!SetParentOf(b1, a.kid[k][P!Other(e)], k)
             e2 == PP!SetParentOf(e1, a.kid[k][PP!Other(e)], k)
  <2>1. P!Adopted(a, m, k, e) = P!SetParentOf(b2, a.kid[k][e], k) BY Zenon DEF P!Adopted
  <2>2. PP!Adopted(a, m, k, e) = PP!SetParentOf(e2, a.kid[k][e], k) BY Zenon DEF PP!Adopted
  <2>3. b1 = e1 BY SameLinkOperators, Zenon
  <2> HIDE DEF b1, e1
  <2>4. b2 = e2 BY <2>3, SameLinkOperators, Zenon
  <2> HIDE DEF b2, e2
  <2> QED BY <2>1, <2>2, <2>4, SameLinkOperators, Zenon
<1> DEFINE d == IF x.kid[k].left = m THEN "left" ELSE "right"
           b == P!Adopted(P!Turned(x, m, k, d), m, k, d)
           e == PP!Adopted(PP!Turned(x, m, k, d), m, k, d)
           c == P!ChangeChild([b EXCEPT !.par[m] = x.par[k]], k, m, x.par[k])
           f == PP!ChangeChild([e EXCEPT !.par[m] = x.par[k]], k, m, x.par[k])
<1>3. P!Exchange(x, m, k) = [c EXCEPT !.kid[m][d] = k, !.par[k] = m] BY Zenon DEF P!Exchange
<1>4. PP!Exchange(x, m, k) = [f EXCEPT !.kid[m][d] = k, !.par[k] = m] BY Zenon DEF PP!Exchange
<1> HIDE DEF d
<1>5. b = e BY <1>1, <1>2, Zenon
<1> HIDE DEF b, e
<1>6. c = f BY <1>5, SameLinkOperators, Zenon
<1> HIDE DEF c, f
<1> QED BY <1>3, <1>4, <1>6, Zenon

LEMMA SameTreeOperators ==
    /\ P!Lowest = PP!Lowest /\ P!Return = PP!Return
    /\ \A x, m : P!Start(x, m) = PP!Start(x, m)
    /\ \A m, k : P!Over(m, k) <=> PP!Over(m, k)
    /\ \A x, m, k : P!Exchange(x, m, k) = PP!Exchange(x, m, k)
    /\ \A x, m : P!FlipUp(x, m) = PP!FlipUp(x, m)
    /\ P!NextLeaf = PP!NextLeaf /\ P!LastLeaf = PP!LastLeaf
    /\ \A m : P!Largest(m) = PP!Largest(m)
    /\ \A m : P!Weight(m) = PP!Weight(m)
<1>1. P!Lowest = PP!Lowest
    BY DEF P!Lowest, PP!Lowest
<1>2. P!Return = PP!Return
    BY SameLinkOperators DEF P!Return, PP!Return
<1>3. \A x, m : P!Start(x, m) = PP!Start(x, m)
    BY DEF P!Start, PP!Start
<1>4. \A m, k : P!Over(m, k) <=> PP!Over(m, k)
    BY DEF P!Over, PP!Over
<1>5. \A x, m, k : P!Exchange(x, m, k) = PP!Exchange(x, m, k)
    BY SameExchange
<1>6. \A x, m : P!FlipUp(x, m) = PP!FlipUp(x, m)
    BY Zenon DEF P!FlipUp, PP!FlipUp, P!NULL, PP!NULL
<1>7. P!NextLeaf = PP!NextLeaf
    BY Zenon DEF P!NextLeaf, PP!NextLeaf, P!NULL, PP!NULL
<1>8. P!LastLeaf = PP!LastLeaf
    BY Zenon DEF P!LastLeaf, PP!LastLeaf, P!NULL, PP!NULL
<1>9. \A m : P!Largest(m) = PP!Largest(m)
    BY Zenon DEF P!Largest, PP!Largest, P!Over, PP!Over, P!NULL, PP!NULL
<1>10. \A m : P!Weight(m) = PP!Weight(m)
    BY Zenon DEF P!Weight, PP!Weight, P!NULL, PP!NULL
<1> QED BY <1>1, <1>2, <1>3, <1>4, <1>5, <1>6, <1>7, <1>8, <1>9, <1>10

LEMMA SameCut == P!Cut <=> PP!Cut
<1> DEFINE v == P!LastLeaf
           ev == PP!LastLeaf
           c == P!FlipUp(P!ChangeChild(t, v, P!NULL, t.par[v]), t.par[v])
           ec == PP!FlipUp(PP!ChangeChild(t, ev, PP!NULL, t.par[ev]), t.par[ev])
           moved == P!ChangeChild([c EXCEPT !.par[v] = c.par[node], !.heavy[v] = c.heavy[node]],
                                  node, v, c.par[node])
           emoved == PP!ChangeChild([ec EXCEPT !.par[ev] = ec.par[node], !.heavy[ev] = ec.heavy[node]],
                                    node, ev, ec.par[node])
           left == P!ClearLinks(IF v = node THEN c ELSE moved, node)
           eleft == PP!ClearLinks(IF ev = node THEN ec ELSE emoved, node)
<1>1. P!Cut <=>
        /\ pc = "sink" /\ t.kid[node].left = P!NULL
        /\ t' = [left EXCEPT !.heavy[node] = FALSE]
        /\ IF v = node THEN P!Return ELSE P!Start("up", v)
        /\ prio' = [prio EXCEPT ![node] = P!Lowest]
    BY ZenonT(60) DEF P!Cut
<1>2. PP!Cut <=>
        /\ pc = "sink" /\ t.kid[node].left = PP!NULL
        /\ t' = [eleft EXCEPT !.heavy[node] = FALSE]
        /\ IF ev = node THEN PP!Return ELSE PP!Start("up", ev)
        /\ prio' = [prio EXCEPT ![node] = PP!Lowest]
    BY ZenonT(60) DEF PP!Cut
<1>3. v = ev
    BY SameTreeOperators, Zenon
<1> HIDE DEF v, ev
<1>4. c = ec
    BY <1>3, SameLinkOperators, SameTreeOperators, Zenon
<1> HIDE DEF c, ec
<1>5. moved = emoved
    BY <1>3, <1>4, SameLinkOperators, Zenon
<1> HIDE DEF moved, emoved
<1>6. left = eleft
    BY <1>3, <1>4, <1>5, SameLinkOperators, Zenon
<1> HIDE DEF left, eleft
<1>7. P!Return = PP!Return /\ P!Start("up", v) = PP!Start("up", v) /\ P!Lowest = PP!Lowest /\ P!NULL = PP!NULL
    BY SameLinkOperators, SameTreeOperators, Zenon
<1> QED BY <1>1, <1>2, <1>3, <1>6, <1>7, Zenon

LEMMA SameTreeActions ==
    /\ \A m : P!Erase(m) <=> PP!Erase(m)
    /\ \A m, p : P!Insert(m, p) <=> PP!Insert(m, p)
    /\ \A m, p : P!Adjust(m, p) <=> PP!Adjust(m, p)
    /\ P!Rise <=> PP!Rise
    /\ P!RiseEnds <=> PP!RiseEnds
    /\ P!Up <=> PP!Up
    /\ P!UpEnds <=> PP!UpEnds
    /\ P!Down <=> PP!Down
    /\ P!DownEnds <=> PP!DownEnds
    /\ P!Sink <=> PP!Sink
    /\ P!Cut <=> PP!Cut
<1>1. \A m : P!Erase(m) <=> PP!Erase(m)
    BY SameLinkOperators, SameTreeOperators, Zenon DEF P!Erase, PP!Erase
<1>2. \A m, p : P!Insert(m, p) <=> PP!Insert(m, p)
    BY SameLinkOperators, SameTreeOperators, Zenon DEF P!Insert, PP!Insert
<1>3. \A m, p : P!Adjust(m, p) <=> PP!Adjust(m, p)
    BY SameLinkOperators, SameTreeOperators, Zenon DEF P!Adjust, PP!Adjust
<1>4. P!Rise <=> PP!Rise
    BY SameLinkOperators, SameTreeOperators, Zenon DEF P!Rise, PP!Rise
<1>5. P!RiseEnds <=> PP!RiseEnds
    BY SameLinkOperators, SameTreeOperators, Zenon DEF P!RiseEnds, PP!RiseEnds
<1>6. P!Up <=> PP!Up
    BY SameLinkOperators, SameTreeOperators, Zenon DEF P!Up, PP!Up
<1>7. P!UpEnds <=> PP!UpEnds
    BY SameLinkOperators, SameTreeOperators, Zenon DEF P!UpEnds, PP!UpEnds
<1>8. P!Down <=> PP!Down
    BY SameLinkOperators, SameTreeOperators, Zenon DEF P!Down, PP!Down
<1>9. P!DownEnds <=> PP!DownEnds
    BY SameLinkOperators, SameTreeOperators, Zenon DEF P!DownEnds, PP!DownEnds
<1>10. P!Sink <=> PP!Sink
    BY SameLinkOperators, SameTreeOperators, Zenon DEF P!Sink, PP!Sink
<1>11. P!Cut <=> PP!Cut
    BY SameCut
<1> QED BY <1>1, <1>2, <1>3, <1>4, <1>5, <1>6, <1>7, <1>8, <1>9, <1>10, <1>11

LEMMA SameTree ==
    /\ P!Init <=> PP!Init
    /\ [P!Next]_P!vars <=> [PP!Next]_PP!vars
    /\ PP!PrioTypeOK /\ PP!PrioOrder /\ PP!WeightBits /\ PP!LinksMirror
       => P!PrioTypeOK /\ P!PrioOrder /\ P!WeightBits /\ P!LinksMirror
    /\ PP!PrioTreeAssumption /\ PP!NULL \notin PrioNode
<1>1. P!Init <=> PP!Init
    BY SameLinkOperators, SameTreeOperators, Zenon DEF P!Init, PP!Init
<1>2. [P!Next]_P!vars <=> [PP!Next]_PP!vars
    BY SameTreeActions, Zenon DEF P!Next, PP!Next, P!vars, PP!vars
<1>3. PP!PrioTypeOK => P!PrioTypeOK
    BY SameLinkOperators DEF PP!PrioTypeOK, P!PrioTypeOK
<1>4. PP!PrioOrder => P!PrioOrder
    BY SameLinkOperators, SameTreeOperators DEF PP!PrioOrder, P!PrioOrder
<1>5. PP!WeightBits => P!WeightBits
    BY SameLinkOperators, SameTreeOperators DEF PP!WeightBits, P!WeightBits
<1>6. PP!LinksMirror => P!LinksMirror
    BY SameLinkOperators DEF PP!LinksMirror, P!LinksMirror
<1>7. PP!PrioTreeAssumption /\ PP!NULL \notin PrioNode
    BY PrioAssumption DEF PP!PrioTreeAssumption, PP!NULL, NULL
<1> QED BY <1>1, <1>2, <1>3, <1>4, <1>5, <1>6, <1>7

ArrayInv == kind = "heap" => HP!HeapInv
BranchInv == kind = "prio_tree" => PP!PrioInv

(* Heap and priority tree beside the other containers: whatever is         *)
(* inserted, adjusted and deleted, between calls no node is above its      *)
(* parent.  In the array of heap.h every node knows its index and no round *)
(* of a loop reads an entry that is not allocated and filled; in           *)
(* prio_tree.c the bits are the differences of the weights, and links are  *)
(* mutual in every round.                                                  *)
THEOREM HeapsStayRight == Spec => []HeapRules
<1>1. Init => ArrayInv
    <2> SUFFICES ASSUME H!Init PROVE HP!HeapInv
        BY DEF Init, ArrayInv
    <2> QED BY SameHeap, PrioAssumption, HP!HeapInitInv
<1>2. Init => BranchInv
    <2> SUFFICES ASSUME P!Init PROVE PP!PrioInv
        BY DEF Init, BranchInv
    <2> QED BY SameTree, PP!InitPrioInv
<1>3. ArrayInv /\ [Next]_<<kind, ordered, lists>> => ArrayInv'
    <2> SUFFICES ASSUME ArrayInv, [Next]_<<kind, ordered, lists>>, kind = "heap" PROVE HP!HeapInv'
        BY DEF Next, ArrayInv
    <2>1. [H!Next]_H!vars
        BY DEF Next, HeapStep, ordered, H!vars
    <2>2. HP!HeapAssumption /\ HP!HeapInv /\ [HP!Next]_HP!vars
        BY <2>1, SameHeap, PrioAssumption DEF ArrayInv
    <2> QED BY <2>2, HP!HeapStepInv
<1>4. BranchInv /\ [Next]_<<kind, ordered, lists>> => BranchInv'
    <2> SUFFICES ASSUME BranchInv, [Next]_<<kind, ordered, lists>>, kind = "prio_tree" PROVE PP!PrioInv'
        BY DEF Next, BranchInv
    <2>1. [P!Next]_P!vars
        BY DEF Next, PrioTreeStep, ordered, P!vars
    <2>2. PP!PrioInv /\ [PP!Next]_PP!vars
        BY <2>1, SameTree DEF BranchInv
    <2> QED BY <2>2, SameTree, PP!NextPrioInv
<1>5. ArrayInv => (kind = "heap" => H!HeapTypeOK /\ H!HeapOrder /\ H!IndexMirrors /\ H!ReadsInBounds)
    BY SameHeap, PrioAssumption, HP!InvPromises DEF ArrayInv
<1>6. BranchInv => (kind = "prio_tree" => P!PrioTypeOK /\ P!PrioOrder /\ P!WeightBits /\ P!LinksMirror)
    BY SameTree, PP!InvPromises DEF BranchInv
<1>7. ArrayInv /\ BranchInv => HeapRules
    BY <1>5, <1>6 DEF HeapRules
<1> QED BY <1>1, <1>2, <1>3, <1>4, <1>7, PTL DEF Spec

----------------------------------------------------------------------------
AA == INSTANCE AvlTree_proofs WITH Node <- AvlNode, Key <- AvlKey

(* The AVL tree here is the one of AvlTree_proofs, likewise. *)
LEMMA SameAvlLinks ==
    /\ A!NULL = AA!NULL /\ A!Side = AA!Side /\ A!NoKids = AA!NoKids
    /\ \A d : A!Other(d) = AA!Other(d)
    /\ \A x, m : A!IsClear(x, m) <=> AA!IsClear(x, m)
    /\ \A x, m : A!ClearLinks(x, m) = AA!ClearLinks(x, m)
    /\ \A x, m, q : A!SetParentOf(x, m, q) = AA!SetParentOf(x, m, q)
    /\ \A x, m, k, q : A!ChangeChild(x, m, k, q) = AA!ChangeChild(x, m, k, q)
    /\ \A x : A!LinksType(x) <=> AA!LinksType(x)
    /\ \A x : A!Linked(x) = AA!Linked(x)
<1>1. A!NULL = AA!NULL /\ A!Side = AA!Side
    BY DEF A!NULL, AA!NULL, A!Side, AA!Side
<1>2. A!NoKids = AA!NoKids
    BY <1>1 DEF A!NoKids, AA!NoKids
<1>3. \A d : A!Other(d) = AA!Other(d)
    BY DEF A!Other, AA!Other
<1>4. \A x, m : A!IsClear(x, m) <=> AA!IsClear(x, m)
    BY DEF A!IsClear, AA!IsClear
<1>5. \A x, m : A!ClearLinks(x, m) = AA!ClearLinks(x, m)
    BY <1>2, Zenon DEF A!ClearLinks, AA!ClearLinks
<1>6. \A x, m, q : A!SetParentOf(x, m, q) = AA!SetParentOf(x, m, q)
    BY <1>1, Zenon DEF A!SetParentOf, AA!SetParentOf
<1>7. \A x, m, k, q : A!ChangeChild(x, m, k, q) = AA!ChangeChild(x, m, k, q)
    BY <1>1, Zenon DEF A!ChangeChild, AA!ChangeChild
<1>8. \A x : A!LinksType(x) <=> AA!LinksType(x)
    BY <1>1, Zenon DEF A!LinksType, AA!LinksType
<1>9. \A x : A!InOrder(x) = AA!InOrder(x)
    BY Zenon DEF A!InOrder, AA!InOrder, A!NULL, AA!NULL
<1>10. \A x : A!Linked(x) = AA!Linked(x)
    BY <1>9, Zenon DEF A!Linked, AA!Linked
<1> QED BY <1>1, <1>2, <1>3, <1>4, <1>5, <1>6, <1>7, <1>8, <1>10

LEMMA SameAvlWalks ==
    /\ \A x, m, d : A!Deepest(x, m, d) = AA!Deepest(x, m, d)
    /\ \A x, m, d : A!Step(x, m, d) = AA!Step(x, m, d)
    /\ \A x : A!FirstPostorder(x) = AA!FirstPostorder(x)
    /\ \A x, m : A!NextPostorder(x, m) = AA!NextPostorder(x, m)
    /\ \A x, m, k, key : A!SortsLike(x, m, k, key) <=> AA!SortsLike(x, m, k, key)
    /\ \A k : A!Locate(k) = AA!Locate(k)
    /\ \A m : A!Height(m) = AA!Height(m)
    /\ \A m : A!Tilt(m) = AA!Tilt(m)
<1>1. \A x, m, d : A!Deepest(x, m, d) = AA!Deepest(x, m, d)
    BY Zenon DEF A!Deepest, AA!Deepest, A!NULL, AA!NULL
<1>2. \A x, m, d : A!Step(x, m, d) = AA!Step(x, m, d)
    BY Zenon DEF A!Step, AA!Step, A!Deepest, AA!Deepest, A!Other, AA!Other, A!NULL, AA!NULL
<1>3. \A x, m : A!LeftDeepest(x, m) = AA!LeftDeepest(x, m)
    BY Zenon DEF A!LeftDeepest, AA!LeftDeepest, A!NULL, AA!NULL
<1>4. \A x : A!FirstPostorder(x) = AA!FirstPostorder(x)
    BY <1>3, Zenon DEF A!FirstPostorder, AA!FirstPostorder, A!NULL, AA!NULL
<1>5. \A x, m : A!NextPostorder(x, m) = AA!NextPostorder(x, m)
    BY <1>3, Zenon DEF A!NextPostorder, AA!NextPostorder, A!NULL, AA!NULL
<1>6. \A x, m, k, key : A!SortsLike(x, m, k, key) <=> AA!SortsLike(x, m, k, key)
    BY SameAvlLinks, Zenon DEF A!SortsLike, AA!SortsLike
<1>7. \A k : A!Locate(k) = AA!Locate(k)
    BY Zenon DEF A!Locate, AA!Locate, A!NULL, AA!NULL
<1>8. \A m : A!Height(m) = AA!Height(m)
    BY Zenon DEF A!Height, AA!Height, A!NULL, AA!NULL
<1>9. \A m : A!Tilt(m) = AA!Tilt(m)
    BY Zenon DEF A!Tilt, AA!Tilt
<1> QED BY <1>1, <1>2, <1>4, <1>5, <1>6, <1>7, <1>8, <1>9

LEMMA SameRotate == \A x, m, k, d : A!Rotate(x, m, k, d) = AA!Rotate(x, m, k, d)
<1> SUFFICES ASSUME NEW x, NEW m, NEW k, NEW d PROVE A!Rotate(x, m, k, d) = AA!Rotate(x, m, k, d)
    OBVIOUS
<1> DEFINE turned(o) == [x EXCEPT !.kid[k][d] = x.kid[m][o], !.kid[m][o] = k]
           a == A!SetParentOf(turned(A!Other(d)), x.kid[m][A!Other(d)], k)
           b == AA!SetParentOf(turned(AA!Other(d)), x.kid[m][AA!Other(d)], k)
           hung(y) == [y EXCEPT !.par[m] = x.par[k], !.par[k] = m]
<1>1. A!Rotate(x, m, k, d) = A!ChangeChild(hung(a), k, m, x.par[k])
    BY Zenon DEF A!Rotate
<1>2. AA!Rotate(x, m, k, d) = AA!ChangeChild(hung(b), k, m, x.par[k])
    BY Zenon DEF AA!Rotate
<1> HIDE DEF turned
<1>3. a = b
    BY SameAvlLinks, Zenon
<1> HIDE DEF a, b, hung
<1> QED BY <1>1, <1>2, <1>3, SameAvlLinks, Zenon

LEMMA SameRotateTwice == \A x, m, k, d : A!RotateTwice(x, m, k, d) = AA!RotateTwice(x, m, k, d)
<1> SUFFICES ASSUME NEW x, NEW m, NEW k, NEW d
             PROVE  A!RotateTwice(x, m, k, d) = AA!RotateTwice(x, m, k, d)
    OBVIOUS
<1> DEFINE b(o) == [x EXCEPT !.bal[m] = IF x.bal[x.kid[m][o]] = o THEN d ELSE "equal",
                             !.bal[k] = IF x.bal[x.kid[m][o]] = d THEN o ELSE "equal",
                             !.bal[x.kid[m][o]] = "equal"]
           once(o) == A!Rotate(b(o), x.kid[m][o], m, o)
           eonce(o) == AA!Rotate(b(o), x.kid[m][o], m, o)
<1>1. A!RotateTwice(x, m, k, d) = A!Rotate(once(A!Other(d)), x.kid[m][A!Other(d)], k, d)
    BY Zenon DEF A!RotateTwice
<1>2. AA!RotateTwice(x, m, k, d) = AA!Rotate(eonce(AA!Other(d)), x.kid[m][AA!Other(d)], k, d)
    BY Zenon DEF AA!RotateTwice
<1>3. A!Other(d) = AA!Other(d)
    BY SameAvlLinks
<1> HIDE DEF b
<1>4. \A o : once(o) = eonce(o)
    BY SameRotate, Zenon
<1> HIDE DEF once, eonce
<1> QED BY <1>1, <1>2, <1>3, <1>4, SameRotate, Zenon

LEMMA SameReplace == \A x, m, k : A!Replace(x, m, k) = AA!Replace(x, m, k)
<1> SUFFICES ASSUME NEW x, NEW m, NEW k PROVE A!Replace(x, m, k) = AA!Replace(x, m, k)
    OBVIOUS
<1> DEFINE over == [x EXCEPT !.par[k] = x.par[m], !.kid[k] = x.kid[m], !.bal[k] = x.bal[m]]
           c == A!ChangeChild(over, m, k, x.par[m])
           f == AA!ChangeChild(over, m, k, x.par[m])
<1>1. A!Replace(x, m, k) = A!SetParentOf(A!SetParentOf(c, c.kid[k].left, k), c.kid[k].right, k)
    BY Zenon DEF A!Replace
<1>2. AA!Replace(x, m, k) = AA!SetParentOf(AA!SetParentOf(f, f.kid[k].left, k), f.kid[k].right, k)
    BY Zenon DEF AA!Replace
<1> HIDE DEF over
<1>3. c = f
    BY SameAvlLinks, Zenon
<1> HIDE DEF c, f
<1> QED BY <1>1, <1>2, <1>3, SameAvlLinks, Zenon

LEMMA SameAvlOperators ==
    /\ \A x, m : A!Forget(x, m) = AA!Forget(x, m)
    /\ A!Return <=> AA!Return
    /\ \A m, k : A!SideBelow(m, k) = AA!SideBelow(m, k)
    /\ \A x, m, k, d : A!RotateOnce(x, m, k, d) = AA!RotateOnce(x, m, k, d)
<1>1. \A x, m : A!Forget(x, m) = AA!Forget(x, m)
    BY SameAvlLinks, Zenon DEF A!Forget, AA!Forget
<1>2. A!Return <=> AA!Return
    BY SameAvlLinks, Zenon DEF A!Return, AA!Return
<1>3. \A m, k : A!SideBelow(m, k) = AA!SideBelow(m, k)
    BY Zenon DEF A!SideBelow, AA!SideBelow
<1>4. \A x, m, k, d : A!RotateOnce(x, m, k, d) = AA!RotateOnce(x, m, k, d)
    BY SameRotate, Zenon DEF A!RotateOnce, AA!RotateOnce
<1> QED BY <1>1, <1>2, <1>3, <1>4

LEMMA SameAvlActions ==
    /\ \A m : A!Insert(m) <=> AA!Insert(m)
    /\ \A m : A!Erase(m) <=> AA!Erase(m)
    /\ \A m, k : A!ReplaceNode(m, k) <=> AA!ReplaceNode(m, k)
    /\ A!InsertBalance <=> AA!InsertBalance
    /\ A!InsertDone <=> AA!InsertDone
    /\ A!EraseBalance <=> AA!EraseBalance
    /\ A!Unlink <=> AA!Unlink
    /\ A!Destroy <=> AA!Destroy
    /\ A!Free <=> AA!Free
<1> USE SameAvlLinks, SameAvlWalks, SameAvlOperators
<1>1. \A m : A!Insert(m) <=> AA!Insert(m)
    BY Zenon DEF A!Insert, AA!Insert
<1>2. \A m : A!Erase(m) <=> AA!Erase(m)
    BY Zenon DEF A!Erase, AA!Erase
<1>3. \A m, k : A!ReplaceNode(m, k) <=> AA!ReplaceNode(m, k)
    BY SameReplace, Zenon DEF A!ReplaceNode, AA!ReplaceNode
<1>4. A!InsertBalance <=> AA!InsertBalance
    BY SameRotateTwice, Zenon DEF A!InsertBalance, AA!InsertBalance
<1>5. A!InsertDone <=> AA!InsertDone
    BY Zenon DEF A!InsertDone, AA!InsertDone
<1>6. A!EraseBalance <=> AA!EraseBalance
    BY SameRotate, SameRotateTwice, Zenon DEF A!EraseBalance, AA!EraseBalance
<1>7. A!Unlink <=> AA!Unlink
    BY SameReplace, Zenon DEF A!Unlink, AA!Unlink
<1>8. A!Destroy <=> AA!Destroy
    BY Zenon DEF A!Destroy, AA!Destroy
<1>9. A!Free <=> AA!Free
    BY Zenon DEF A!Free, AA!Free
<1> QED BY <1>1, <1>2, <1>3, <1>4, <1>5, <1>6, <1>7, <1>8, <1>9, Zenon

LEMMA SameAvlTree ==
    /\ A!Init <=> AA!Init
    /\ [A!Next]_A!vars <=> [AA!Next]_AA!vars
    /\ AA!AvlTypeOK /\ AA!Balanced /\ AA!NeverAborts /\ AA!RealStaysUnlinkable
       => A!AvlTypeOK /\ A!Balanced /\ A!NeverAborts /\ A!RealStaysUnlinkable
    /\ AA!NULL \notin AvlNode
<1> USE SameAvlLinks, SameAvlWalks, SameAvlOperators
<1>1. A!Init <=> AA!Init
    BY Zenon DEF A!Init, AA!Init
<1>2. [A!Next]_A!vars <=> [AA!Next]_AA!vars
    BY SameAvlActions, Zenon DEF A!Next, AA!Next, A!vars, AA!vars
<1>3. AA!AvlTypeOK => A!AvlTypeOK
    BY Zenon DEF AA!AvlTypeOK, A!AvlTypeOK
<1>4. AA!Balanced => A!Balanced
    BY Zenon DEF AA!Balanced, A!Balanced
<1>5. AA!NeverAborts => A!NeverAborts
    BY Zenon DEF AA!NeverAborts, A!NeverAborts
<1>6. AA!RealStaysUnlinkable => A!RealStaysUnlinkable
    BY Zenon DEF AA!RealStaysUnlinkable, A!RealStaysUnlinkable
<1>7. AA!NULL \notin AvlNode
    BY AvlAssumption, NodeAssumption DEF AA!NULL, NULL
<1> QED BY <1>1, <1>2, <1>3, <1>4, <1>5, <1>6, <1>7

TiltInv == kind = "avltree" => AA!AvlInv

(* The AVL tree beside the other containers: after any insertions,         *)
(* erasures and replacements its bits are the differences of the heights,  *)
(* in the rounds before abort is not reached, and the node that an erasure *)
(* is to unlink stays one with a child missing, next to the victim.        *)
THEOREM AvlTreesStayRight == Spec => []BalanceRules
<1>1. Init => TiltInv
    <2> SUFFICES ASSUME A!Init PROVE AA!AvlInv
        BY DEF Init, TiltInv
    <2> QED BY SameAvlTree, AA!InitAvlInv
<1>2. TiltInv /\ [Next]_<<kind, ordered, lists>> => TiltInv'
    <2> SUFFICES ASSUME TiltInv, [Next]_<<kind, ordered, lists>>, kind = "avltree" PROVE AA!AvlInv'
        BY DEF Next, TiltInv
    <2>1. [A!Next]_A!vars
        BY DEF Next, AvlTreeStep, ordered, A!vars
    <2>2. AA!AvlInv /\ [AA!Next]_AA!vars
        BY <2>1, SameAvlTree DEF TiltInv
    <2> QED BY <2>2, SameAvlTree, AA!NextAvlInv
<1>3. TiltInv => BalanceRules
    <2> SUFFICES ASSUME AA!AvlInv PROVE A!AvlTypeOK /\ A!Balanced /\ A!NeverAborts /\ A!RealStaysUnlinkable
        BY DEF TiltInv, BalanceRules
    <2> QED BY SameAvlTree, AA!TypePromise, AA!BalancePromise, AA!AbortPromise, AA!UnlinkPromise
<1> QED BY <1>1, <1>2, <1>3, PTL DEF Spec
============================================================================
