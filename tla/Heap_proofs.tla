----------------------------- MODULE Heap_proofs -----------------------------
(***************************************************************************)
(* The array of heap.h is a heap between calls, knows where its nodes are  *)
(* in every round of its loops, and is a set of nodes, for any nodes and   *)
(* priorities and however often the array has grown.                       *)
(***************************************************************************)
EXTENDS Heap, FiniteSetTheorems, TLAPS

(* The nodes are pointers other than NULL.  A node that is in no heap has  *)
(* the lowest priority, so there has to be one.                            *)
HeapAssumption ==
    /\ NULL \notin Node
    /\ Prio \subseteq Nat
    /\ \E p \in Prio : \A q \in Prio : p <= q

----------------------------------------------------------------------------
(* The array as values: v[i] is the priority at i.                         *)
Val == [i \in DOMAIN slot |-> prio[slot[i]]]

(* What lies below k is not greater than what lies above it. *)
Bridges(v, last, k) ==
    k > 0 => \A i \in 1 .. last : Parent(i) = k => v[i] <= v[Parent(k)]

(* The heap is in order, except between k and its parent; except between   *)
(* k and its children; except around a gap at k.                           *)
InOrder(v, last) == \A i \in 1 .. last : v[i] <= v[Parent(i)]
UpOrder(v, last, k) ==
    /\ \A i \in 1 .. last : i # k => v[i] <= v[Parent(i)]
    /\ Bridges(v, last, k)
DownOrder(v, last, k) ==
    /\ \A i \in 1 .. last : Parent(i) # k => v[i] <= v[Parent(i)]
    /\ Bridges(v, last, k)
GapOrder(v, last, k) ==
    /\ \A i \in 1 .. last : i # k /\ Parent(i) # k => v[i] <= v[Parent(i)]
    /\ Bridges(v, last, k)

(* The entries that hold the nodes of the heap. *)
Spots == IF pc = "hole" THEN (0 .. len) \ {hole} ELSE 0 .. len - 1

(***************************************************************************)
(* The inductive invariant.  HeapOrder and IndexMirrors speak of some      *)
(* program points only; in between, the order is broken at one place, and  *)
(* a gap is where the node that moved last is remembered.                  *)
(***************************************************************************)
SlotsOK ==
    /\ HeapTypeOK /\ Size \in Nat /\ len <= Size
    /\ pc = "hole" => len < Size /\ hole <= len
    /\ \A i \in Spots : slot[i] \in Node /\ idx[slot[i]] = i
LoopOK ==
    /\ pc = "idle" => InOrder(Val, len - 1)
    /\ pc \in {"up", "down"} =>
         node \in Node /\ idx[node] \in 0 .. len - 1 /\ slot[idx[node]] = node
    /\ pc = "up" => UpOrder(Val, len - 1, idx[node])
    /\ pc = "down" => DownOrder(Val, len - 1, idx[node])
    /\ pc = "hole" => (hole = len <=> slot[len] = node) /\ GapOrder(Val, len, hole)
HeapInv == SlotsOK /\ LoopOK

----------------------------------------------------------------------------
(* The arithmetic of the tree in the array. *)
LEMMA ParentOf ==
    \A i \in Nat \ {0} :
        /\ Parent(i) \in Nat /\ Parent(i) < i
        /\ \A k \in Nat : Parent(i) = k <=> i = 2 * k + 1 \/ i = 2 * k + 2
<1> SUFFICES ASSUME NEW i \in Nat \ {0}
             PROVE  /\ Parent(i) \in Nat /\ Parent(i) < i
                    /\ \A k \in Nat : Parent(i) = k <=> i = 2 * k + 1 \/ i = 2 * k + 2
    OBVIOUS
<1> QED BY DEF Parent

(* One round of heap_pull_up: k and its parent change places. *)
LEMMA PullUpOrder ==
    ASSUME NEW last \in Nat, NEW v, NEW w, NEW k \in 1 .. last,
           \A i \in 0 .. last : v[i] \in Nat,
           v[k] > v[Parent(k)], UpOrder(v, last, k),
           \A i \in 0 .. last : w[i] = IF i = k THEN v[Parent(k)]
                                       ELSE IF i = Parent(k) THEN v[k] ELSE v[i]
    PROVE  UpOrder(w, last, Parent(k))
<1> DEFINE p == Parent(k)
<1>1. p \in Nat /\ p < k /\ p \in 0 .. last
    BY ParentOf
<1> HIDE DEF p
<1>2. /\ w[k] = v[p] /\ w[p] = v[k] /\ v[p] < v[k] /\ v[p] \in Nat /\ v[k] \in Nat
      /\ \A i \in 0 .. last : i # k /\ i # p => w[i] = v[i]
    BY <1>1 DEF p
<1>3. ASSUME NEW i \in 1 .. last, i # p PROVE w[i] <= w[Parent(i)]
    <2>1. Parent(i) \in 0 .. last /\ Parent(i) < i /\ i \in 0 .. last
        BY ParentOf
    <2>2. v[i] \in Nat /\ v[Parent(i)] \in Nat
        BY <2>1
    <2>3. CASE i = k
        BY <2>3, <1>2 DEF p
    <2>4. CASE i # k
        <3>0. v[i] <= v[Parent(i)]
            BY <2>4 DEF UpOrder
        <3>1. CASE Parent(i) = k
            <4>1. v[i] <= v[p]
                BY <3>1 DEF UpOrder, Bridges, p
            <4> QED BY <4>1, <3>1, <2>1, <2>4, <1>2, <1>3
        <3>2. CASE Parent(i) = p
            BY <3>0, <3>2, <2>1, <2>2, <2>4, <1>2, <1>3
        <3>3. CASE Parent(i) # k /\ Parent(i) # p
            BY <3>0, <3>3, <2>1, <2>4, <1>2, <1>3
        <3> QED BY <3>1, <3>2, <3>3
    <2> QED BY <2>3, <2>4
<1>4. ASSUME p > 0, NEW i \in 1 .. last, Parent(i) = p PROVE w[i] <= w[Parent(p)]
    <2>1. Parent(p) \in 0 .. last /\ Parent(p) < p /\ i \in 0 .. last /\ p < i
        BY ParentOf, <1>1, <1>4
    <2>2. w[Parent(p)] = v[Parent(p)] /\ v[Parent(p)] \in Nat /\ v[i] \in Nat
        BY <2>1, <1>1, <1>2
    <2>3. v[p] <= v[Parent(p)]
        BY <1>1, <1>4 DEF UpOrder
    <2>4. CASE i = k
        BY <2>2, <2>3, <2>4, <1>2
    <2>5. CASE i # k
        <3>1. v[i] <= v[p] /\ w[i] = v[i]
            BY <1>2, <1>4, <2>1, <2>5 DEF UpOrder
        <3> QED BY <3>1, <2>2, <2>3, <1>2
    <2> QED BY <2>4, <2>5
<1> QED BY <1>3, <1>4 DEF UpOrder, Bridges, p

(* One round of heap_push_down: k and its greatest child c change places. *)
LEMMA PushDownOrder ==
    ASSUME NEW last \in Nat, NEW v, NEW w, NEW k \in 0 .. last, NEW c \in 1 .. last,
           \A i \in 0 .. last : v[i] \in Nat,
           Parent(c) = k, v[c] > v[k], DownOrder(v, last, k),
           \A i \in 1 .. last : Parent(i) = k => v[i] <= v[c],
           \A i \in 0 .. last : w[i] = IF i = k THEN v[c] ELSE IF i = c THEN v[k] ELSE v[i]
    PROVE  DownOrder(w, last, c)
<1>1. k < c /\ k \in Nat /\ c \in 0 .. last
    BY ParentOf
<1>2. /\ w[k] = v[c] /\ w[c] = v[k] /\ v[k] < v[c] /\ v[c] \in Nat /\ v[k] \in Nat
      /\ \A i \in 0 .. last : i # k /\ i # c => w[i] = v[i]
    BY <1>1
<1>3. ASSUME NEW i \in 1 .. last, Parent(i) # c PROVE w[i] <= w[Parent(i)]
    <2>1. Parent(i) \in 0 .. last /\ Parent(i) < i /\ i \in 0 .. last
        BY ParentOf
    <2>2. v[i] \in Nat /\ v[Parent(i)] \in Nat
        BY <2>1
    <2>3. CASE Parent(i) = k
        <3>1. v[i] <= v[c] /\ i # k
            BY <2>1, <2>3
        <3> QED BY <3>1, <2>1, <2>2, <2>3, <1>2
    <2>4. CASE Parent(i) # k
        <3>1. i # c /\ v[i] <= v[Parent(i)]
            BY <2>4 DEF DownOrder
        <3>2. CASE i = k
            <4>1. v[c] <= v[Parent(k)]
                BY <3>2, <1>1 DEF DownOrder, Bridges
            <4> QED BY <4>1, <3>2, <2>1, <2>4, <1>2, <1>3
        <3>3. CASE i # k
            BY <3>1, <3>3, <2>1, <2>4, <1>2, <1>3
        <3> QED BY <3>2, <3>3
    <2> QED BY <2>3, <2>4
<1>4. ASSUME NEW i \in 1 .. last, Parent(i) = c PROVE w[i] <= w[Parent(c)]
    <2>1. c < i /\ i \in 0 .. last
        BY ParentOf, <1>4
    <2>2. v[i] <= v[c] /\ w[i] = v[i]
        BY <2>1, <1>1, <1>2, <1>4 DEF DownOrder
    <2> QED BY <2>2, <1>2
<1> QED BY <1>3, <1>4 DEF DownOrder, Bridges

(* One round of heap_delete: the greatest child c moves up into the gap. *)
LEMMA SinkOrder ==
    ASSUME NEW last \in Nat, NEW v, NEW w, NEW h \in 0 .. last, NEW c \in 1 .. last,
           \A i \in (0 .. last) \ {h} : v[i] \in Nat,
           Parent(c) = h, GapOrder(v, last, h),
           \A i \in 1 .. last : Parent(i) = h => v[i] <= v[c],
           \A i \in 0 .. last : w[i] = IF i = h THEN v[c] ELSE v[i]
    PROVE  GapOrder(w, last, c)
<1>1. h < c /\ h \in Nat /\ c \in 0 .. last
    BY ParentOf
<1>2. /\ w[h] = v[c] /\ v[c] \in Nat
      /\ \A i \in 0 .. last : i # h => w[i] = v[i]
    BY <1>1
<1>3. ASSUME NEW i \in 1 .. last, i # c, Parent(i) # c PROVE w[i] <= w[Parent(i)]
    <2>1. Parent(i) \in 0 .. last /\ Parent(i) < i /\ i \in 0 .. last
        BY ParentOf
    <2>2. CASE Parent(i) = h
        <3>1. v[i] <= v[c] /\ i # h
            BY <2>1, <2>2
        <3> QED BY <3>1, <2>1, <2>2, <1>2
    <2>3. CASE Parent(i) # h /\ i = h
        <3>1. v[c] <= v[Parent(h)]
            BY <2>3, <1>1 DEF GapOrder, Bridges
        <3> QED BY <3>1, <2>1, <2>3, <1>2
    <2>4. CASE Parent(i) # h /\ i # h
        <3>1. v[i] <= v[Parent(i)]
            BY <2>4 DEF GapOrder
        <3> QED BY <3>1, <2>1, <2>4, <1>2
    <2> QED BY <2>2, <2>3, <2>4
<1>4. ASSUME NEW i \in 1 .. last, Parent(i) = c PROVE w[i] <= w[Parent(c)]
    <2>1. c < i /\ i \in 0 .. last
        BY ParentOf, <1>4
    <2>2. v[i] <= v[c] /\ w[i] = v[i]
        BY <2>1, <1>1, <1>2, <1>4 DEF GapOrder
    <2> QED BY <2>2, <1>2
<1> QED BY <1>3, <1>4 DEF GapOrder, Bridges
----------------------------------------------------------------------------
LEMMA LowestIsPrio == ASSUME HeapAssumption PROVE Lowest \in Prio
    BY DEF HeapAssumption, Lowest

(* The array has as many entries as its size says. *)
LEMMA SizeOf == ASSUME NEW m \in Nat PROVE Cardinality(0 .. m - 1) = m
<1>1. 0 \in Int /\ m - 1 \in Int
    OBVIOUS
<1>2. Cardinality(0 .. m - 1) = IF 0 > m - 1 THEN 0 ELSE m - 1 - 0 + 1
    BY <1>1, FS_Interval
<1> QED BY <1>2

LEMMA SlotsAre ==
    ASSUME NEW m \in Nat, DOMAIN slot' = 0 .. m - 1,
           \A i \in 0 .. m - 1 : slot'[i] \in Node \union {NULL},
           len' \in 0 .. m, pc' = "hole" => len' < m /\ hole' <= len',
           idx' \in [Node -> Nat], prio' \in [Node -> Prio],
           pc' \in {"idle", "up", "down", "hole"}, node' \in Node \union {NULL}, hole' \in Nat,
           \A i \in Spots' : slot'[i] \in Node /\ idx'[slot'[i]] = i
    PROVE  SlotsOK' /\ Size' = m
<1>1. Size' = m
    BY SizeOf DEF Size
<1> QED BY <1>1 DEF SlotsOK, HeapTypeOK

(* What the invariant says of the array. *)
LEMMA SlotFacts ==
    ASSUME HeapAssumption, SlotsOK
    PROVE  /\ Size \in Nat /\ len \in 0 .. Size /\ DOMAIN slot = 0 .. Size - 1
           /\ pc = "hole" => len < Size /\ hole <= len
           /\ Spots \subseteq DOMAIN slot
           /\ \A i \in 0 .. Size - 1 : slot[i] \in Node \union {NULL}
           /\ idx \in [Node -> Nat] /\ prio \in [Node -> Prio] /\ \A q \in Prio : q \in Nat
           /\ pc \in {"idle", "up", "down", "hole"} /\ node \in Node \union {NULL}
           /\ hole \in Nat
           /\ \A i \in Spots : slot[i] \in Node /\ idx[slot[i]] = i
<1>1. Spots \subseteq DOMAIN slot
    BY DEF Spots, SlotsOK, HeapTypeOK
<1> QED BY <1>1 DEF HeapAssumption, SlotsOK, HeapTypeOK

LEMMA HoldsSpots ==
    ASSUME HeapAssumption, SlotsOK PROVE Holds = {slot[i] : i \in Spots}
<1>1. pc # "hole" => {j \in DOMAIN slot : j < len} = 0 .. len - 1
    BY SlotFacts
<1> QED BY <1>1 DEF Holds, Held, Spots

(* The nodes held are those of the entries in use, whichever they are. *)
LEMMA HoldsAre ==
    ASSUME HeapAssumption, SlotsOK, SlotsOK', NEW gone, NEW come,
           \A i \in Spots : slot[i] \in gone \/ \E j \in Spots' : slot'[j] = slot[i],
           \A j \in Spots' : slot'[j] \notin gone,
           \A j \in Spots' : slot'[j] \in come \/ \E i \in Spots : slot[i] = slot'[j],
           \A x \in come : \E j \in Spots' : slot'[j] = x
    PROVE  Holds' = (Holds \ gone) \union come
<1>1. Holds = {slot[i] : i \in Spots}
    BY HoldsSpots
<1>2. pc' # "hole" => {j \in DOMAIN slot' : j < len'} = 0 .. len' - 1
    BY DEF SlotsOK, HeapTypeOK
<1>3. Holds' = {slot'[i] : i \in Spots'}
    BY <1>2 DEF Holds, Held, Spots
<1> QED BY <1>1, <1>3

(* heap_swap of two entries in use. *)
LEMMA SwapSlots ==
    ASSUME HeapAssumption, SlotsOK, pc # "hole",
           NEW k \in 0 .. len - 1, NEW j \in 0 .. len - 1, k # j,
           Swap(slot[k], slot[j]), UNCHANGED <<len, prio, pc, node, hole>>
    PROVE  /\ SlotsOK' /\ Holds' = Holds
           /\ idx'[slot[k]] = j /\ slot'[j] = slot[k]
           /\ \A i \in 0 .. len - 1 :
                Val'[i] = IF i = k THEN Val[j] ELSE IF i = j THEN Val[k] ELSE Val[i]
<1>0. /\ Size \in Nat /\ len \in 0 .. Size /\ DOMAIN slot = 0 .. Size - 1
      /\ \A i \in 0 .. Size - 1 : slot[i] \in Node \union {NULL}
      /\ \A i \in 0 .. len - 1 : slot[i] \in Node /\ idx[slot[i]] = i
      /\ idx \in [Node -> Nat]
      /\ Spots = 0 .. len - 1 /\ Spots' = 0 .. len - 1
    BY SlotFacts DEF Spots
<1> DEFINE a == slot[k]
           b == slot[j]
<1>1. a \in Node /\ b \in Node /\ idx[a] = k /\ idx[b] = j /\ a # b
    BY <1>0
<1>2. slot' = [slot EXCEPT ![k] = b, ![j] = a] /\ idx' = [idx EXCEPT ![a] = j, ![b] = k]
    BY <1>1 DEF Swap
<1>3. /\ slot'[k] = b /\ slot'[j] = a /\ DOMAIN slot' = 0 .. Size - 1
      /\ \A i \in 0 .. Size - 1 : i # k /\ i # j => slot'[i] = slot[i]
    BY <1>0, <1>2
<1>4. /\ idx'[a] = j /\ idx'[b] = k /\ idx' \in [Node -> Nat]
      /\ \A n \in Node : n # a /\ n # b => idx'[n] = idx[n]
    BY <1>0, <1>1, <1>2
<1>5. \A i \in Spots' : slot'[i] \in Node /\ idx'[slot'[i]] = i
    <2> SUFFICES ASSUME NEW i \in 0 .. len - 1 PROVE slot'[i] \in Node /\ idx'[slot'[i]] = i
        BY <1>0
    <2>1. CASE i = k \/ i = j
        BY <2>1, <1>1, <1>3, <1>4
    <2>2. CASE i # k /\ i # j
        <3>1. slot'[i] = slot[i] /\ slot[i] \in Node /\ idx[slot[i]] = i
            BY <2>2, <1>0, <1>3
        <3> QED BY <3>1, <2>2, <1>1, <1>4
    <2> QED BY <2>1, <2>2
<1>6. SlotsOK'
    <2>1. \A i \in 0 .. Size - 1 : slot'[i] \in Node \union {NULL}
        BY <1>0, <1>1, <1>3
    <2> QED BY <2>1, <1>0, <1>3, <1>4, <1>5, SlotsAre, SlotFacts
<1>7. Holds' = (Holds \ {}) \union {}
    <2>1. \A i \in Spots : \E l \in Spots' : slot'[l] = slot[i]
        BY <1>0, <1>3
    <2>2. \A l \in Spots' : \E i \in Spots : slot[i] = slot'[l]
        BY <1>0, <1>3
    <2> QED BY <2>1, <2>2, <1>6, HoldsAre
<1>8. ASSUME NEW i \in 0 .. len - 1
      PROVE  Val'[i] = IF i = k THEN Val[j] ELSE IF i = j THEN Val[k] ELSE Val[i]
    <2>1. /\ Val'[i] = prio[slot'[i]] /\ Val[i] = prio[slot[i]]
          /\ Val[j] = prio[b] /\ Val[k] = prio[a]
        BY <1>0, <1>3 DEF Val
    <2> QED BY <2>1, <1>0, <1>3
<1> QED BY <1>3, <1>4, <1>6, <1>7, <1>8

----------------------------------------------------------------------------
(* The values at the entries in use are priorities. *)
LEMMA ValNat ==
    ASSUME HeapAssumption, SlotsOK
    PROVE  \A i \in Spots : Val[i] = prio[slot[i]] /\ Val[i] \in Nat
<1> SUFFICES ASSUME NEW i \in Spots PROVE Val[i] = prio[slot[i]] /\ Val[i] \in Nat
    OBVIOUS
<1>1. slot[i] \in Node /\ i \in DOMAIN slot
    BY SlotFacts
<1>2. prio[slot[i]] \in Nat
    BY <1>1, SlotFacts
<1> QED BY <1>1, <1>2 DEF Val

(* The order after the entry at k is changed, or is no more than a gap. *)
LEMMA ChangeOrder ==
    ASSUME NEW last \in Nat, NEW v, NEW w, NEW k \in 0 .. last,
           \A i \in 0 .. last : v[i] \in Nat, InOrder(v, last),
           \A i \in (0 .. last) \ {k} : w[i] = v[i]
    PROVE  /\ GapOrder(w, last, k)
           /\ w[k] \in Nat /\ k > 0 /\ w[k] >= v[Parent(k)] => UpOrder(w, last, k)
           /\ w[k] \in Nat /\ (k > 0 => w[k] < v[Parent(k)]) => DownOrder(w, last, k)
<1>1. \A i \in 1 .. last : /\ Parent(i) \in 0 .. last /\ Parent(i) < i /\ i \in 0 .. last
                           /\ v[i] <= v[Parent(i)] /\ v[i] \in Nat /\ v[Parent(i)] \in Nat
    BY ParentOf DEF InOrder
<1>2. \A i \in 1 .. last : i # k /\ Parent(i) # k => w[i] <= w[Parent(i)]
    BY <1>1
<1>3. ASSUME k > 0, NEW i \in 1 .. last, Parent(i) = k PROVE w[i] <= w[Parent(k)]
    <2>1. k \in 1 .. last /\ i # k /\ Parent(k) # k
        BY <1>1, <1>3
    <2>2. w[i] = v[i] /\ w[Parent(k)] = v[Parent(k)]
        BY <1>1, <2>1
    <2>3. v[i] <= v[k] /\ v[k] <= v[Parent(k)]
        BY <1>1, <1>3, <2>1
    <2> QED BY <1>1, <2>1, <2>2, <2>3
<1>4. ASSUME w[k] \in Nat, k > 0, w[k] >= v[Parent(k)] PROVE UpOrder(w, last, k)
    <2>1. ASSUME NEW i \in 1 .. last, i # k, Parent(i) = k PROVE w[i] <= w[k]
        <3>1. v[i] <= v[k] /\ v[k] <= v[Parent(k)] /\ v[Parent(k)] \in Nat /\ v[k] \in Nat
            BY <1>1, <1>4, <2>1
        <3>2. w[i] = v[i] /\ v[i] \in Nat
            BY <1>1, <2>1
        <3> QED BY <3>1, <3>2, <1>4
    <2> QED BY <2>1, <1>2, <1>3 DEF UpOrder, Bridges
<1>5. ASSUME w[k] \in Nat, k > 0 => w[k] < v[Parent(k)] PROVE DownOrder(w, last, k)
    <2>1. ASSUME NEW i \in 1 .. last, i = k, Parent(i) # k PROVE w[i] <= w[Parent(i)]
        <3>1. w[Parent(k)] = v[Parent(k)] /\ v[Parent(k)] \in Nat
            BY <1>1, <2>1
        <3> QED BY <3>1, <1>5, <2>1
    <2> QED BY <2>1, <1>2, <1>3 DEF DownOrder, Bridges
<1> QED BY <1>2, <1>3, <1>4, <1>5 DEF GapOrder, Bridges

(* The node that Largest finds is n, or a child of n that is greater than  *)
(* n and not less than the other child.                                    *)
LEMMA LargestIs ==
    ASSUME HeapAssumption, SlotsOK, pc = "down",
           NEW n \in Node, NEW k \in 0 .. len - 1, slot[k] = n, idx[n] = k
    PROVE  \/ /\ Largest(n) = n
              /\ \A i \in 1 .. len - 1 : Parent(i) = k => Val[i] <= Val[k]
           \/ \E c \in 1 .. len - 1 :
                /\ Largest(n) = slot[c] /\ Parent(c) = k /\ Val[c] > Val[k]
                /\ \A i \in 1 .. len - 1 : Parent(i) = k => Val[i] <= Val[c]
<1> DEFINE l == 2 * k + 1
           m == IF l < len /\ prio[slot[l]] > prio[n] THEN slot[l] ELSE n
<1>0. len \in Nat /\ Spots = 0 .. len - 1
    BY SlotFacts DEF Spots
<1>1. \A i \in 0 .. len - 1 : Val[i] = prio[slot[i]] /\ Val[i] \in Nat
    BY <1>0, ValNat
<1>2. Val[k] = prio[n]
    BY <1>1
<1>3. Largest(n) = IF l + 1 < len /\ prio[slot[l + 1]] > prio[m] THEN slot[l + 1] ELSE m
    BY DEF Largest
<1>4. l \in Nat /\ l >= 1 /\ \A i \in 1 .. len - 1 : Parent(i) = k <=> i = l \/ i = l + 1
    BY <1>0, ParentOf
<1>5. CASE l < len /\ Val[l] > Val[k]
    <2>0. l \in 1 .. len - 1 /\ m = slot[l] /\ prio[m] = Val[l] /\ Parent(l) = k
        BY <1>0, <1>1, <1>2, <1>4, <1>5
    <2> HIDE DEF l, m
    <2>1. CASE l + 1 < len /\ Val[l + 1] > Val[l]
        <3>1. l + 1 \in 1 .. len - 1 /\ Parent(l + 1) = k
            BY <1>0, <1>4, <2>1
        <3>2. prio[slot[l + 1]] = Val[l + 1] /\ Val[l + 1] \in Nat /\ Val[l] \in Nat
              /\ Val[k] \in Nat
            BY <1>1, <2>0, <3>1
        <3>3. Largest(n) = slot[l + 1]
            BY <1>3, <2>0, <2>1, <3>2
        <3>4. Val[l + 1] > Val[k]
            BY <1>5, <2>1, <3>2
        <3>5. \A i \in 1 .. len - 1 : Parent(i) = k => Val[i] <= Val[l + 1]
            BY <1>4, <2>1, <3>2
        <3> QED BY <3>1, <3>3, <3>4, <3>5
    <2>2. CASE ~(l + 1 < len /\ Val[l + 1] > Val[l])
        <3>1. l + 1 < len => /\ prio[slot[l + 1]] = Val[l + 1] /\ Val[l + 1] \in Nat
                             /\ l + 1 \in 1 .. len - 1
            BY <1>0, <1>1, <1>4
        <3>2. Largest(n) = slot[l]
            BY <1>3, <2>0, <2>2, <3>1
        <3>3. \A i \in 1 .. len - 1 : Parent(i) = k => Val[i] <= Val[l]
            BY <1>0, <1>1, <1>4, <2>0, <2>2, <3>1
        <3> QED BY <1>5, <2>0, <3>2, <3>3
    <2> QED BY <2>1, <2>2
<1>6. CASE ~(l < len /\ Val[l] > Val[k])
    <2>0. m = n
        BY <1>0, <1>1, <1>2, <1>4, <1>6
    <2>1. \A i \in 1 .. len - 1 : i = l => Val[i] <= Val[k]
        BY <1>0, <1>1, <1>6
    <2> HIDE DEF l, m
    <2>2. CASE l + 1 < len /\ Val[l + 1] > Val[k]
        <3>1. l + 1 \in 1 .. len - 1 /\ Parent(l + 1) = k
            BY <1>0, <1>4, <2>2
        <3>2. prio[slot[l + 1]] = Val[l + 1] /\ Val[l + 1] \in Nat /\ Val[k] \in Nat
            BY <1>1, <3>1
        <3>3. Largest(n) = slot[l + 1]
            BY <1>2, <1>3, <2>0, <2>2, <3>2
        <3>4. ASSUME NEW i \in 1 .. len - 1, Parent(i) = k PROVE Val[i] <= Val[l + 1]
            <4>1. CASE i = l + 1
                BY <4>1, <3>2
            <4>2. CASE i = l
                <5>1. Val[i] <= Val[k] /\ Val[i] \in Nat
                    BY <4>2, <2>1, <1>1
                <5> QED BY <5>1, <2>2, <3>2
            <4> QED BY <4>1, <4>2, <3>4, <1>4
        <3> QED BY <2>2, <3>1, <3>3, <3>4
    <2>3. CASE ~(l + 1 < len /\ Val[l + 1] > Val[k])
        <3>1. l + 1 < len => /\ prio[slot[l + 1]] = Val[l + 1] /\ Val[l + 1] \in Nat
                             /\ l + 1 \in 1 .. len - 1
            BY <1>0, <1>1, <1>4
        <3>2. Largest(n) = n
            BY <1>2, <1>3, <2>0, <2>3, <3>1
        <3>3. \A i \in 1 .. len - 1 : i = l + 1 => Val[i] <= Val[k]
            BY <1>0, <1>1, <2>3, <3>1
        <3> QED BY <1>4, <2>1, <3>2, <3>3
    <2> QED BY <2>2, <2>3
<1> QED BY <1>5, <1>6

----------------------------------------------------------------------------
(* Each step keeps the invariant, and changes the nodes held as it says.   *)
LEMMA InsertStep ==
    ASSUME HeapAssumption, HeapInv, NEW n \in Node, NEW p \in Prio, Insert(n, p)
    PROVE  HeapInv' /\ Holds' = Holds \union {n} /\ n \notin Holds
<1>0. /\ SlotsOK /\ pc = "idle" /\ InOrder(Val, len - 1) /\ n \notin Held
      /\ len' = len + 1 /\ idx' = [idx EXCEPT ![n] = len] /\ prio' = [prio EXCEPT ![n] = p]
      /\ pc' = "up" /\ node' = n /\ hole' = hole
    BY DEF HeapInv, LoopOK, Insert, Start
<1>1. /\ Size \in Nat /\ len \in 0 .. Size /\ DOMAIN slot = 0 .. Size - 1
      /\ \A i \in 0 .. Size - 1 : slot[i] \in Node \union {NULL}
      /\ idx \in [Node -> Nat] /\ prio \in [Node -> Prio] /\ hole \in Nat
      /\ Spots = 0 .. len - 1 /\ Spots' = 0 .. len
      /\ \A i \in 0 .. len - 1 : slot[i] \in Node /\ idx[slot[i]] = i
      /\ \A q \in Prio : q \in Nat
    BY <1>0, SlotFacts DEF Spots
<1>2. Holds = {slot[i] : i \in 0 .. len - 1} /\ Holds = Held
    BY <1>0, <1>1, HoldsSpots DEF Holds
<1>3. \A i \in 0 .. len - 1 : slot[i] # n
    BY <1>0, <1>2
<1> DEFINE big == IF len >= Size THEN Grown ELSE slot
<1>4. PICK m \in Nat : /\ len < m /\ DOMAIN big = 0 .. m - 1
                       /\ \A i \in 0 .. m - 1 : big[i] \in Node \union {NULL}
                       /\ \A i \in 0 .. len - 1 : big[i] = slot[i]
    <2>1. CASE len >= Size
        <3> DEFINE g == IF Size = 0 THEN 1 ELSE 2 * Size
        <3>1. g \in Nat /\ len < g /\ len = Size
            BY <1>1, <2>1
        <3>2. big = [i \in 0 .. g - 1 |-> IF i < Size THEN slot[i] ELSE NULL]
            BY <2>1 DEF Grown
        <3> HIDE DEF g
        <3>3. /\ DOMAIN big = 0 .. g - 1
              /\ \A i \in 0 .. g - 1 : big[i] \in Node \union {NULL}
              /\ \A i \in 0 .. len - 1 : big[i] = slot[i]
            BY <1>1, <3>1, <3>2
        <3> QED BY <3>1, <3>3
    <2>2. CASE len < Size
        BY <1>1, <2>2
    <2> QED BY <1>1, <2>1, <2>2
<1>5. slot' = [big EXCEPT ![len] = n]
    BY DEF Insert
<1> HIDE DEF big
<1>6. /\ DOMAIN slot' = 0 .. m - 1 /\ slot'[len] = n
      /\ \A i \in 0 .. m - 1 : slot'[i] \in Node \union {NULL}
      /\ \A i \in 0 .. len - 1 : slot'[i] = slot[i]
    BY <1>1, <1>4, <1>5
<1>7. idx'[n] = len /\ prio'[n] = p /\ \A i \in 0 .. len - 1 :
        idx'[slot[i]] = i /\ prio'[slot[i]] = prio[slot[i]]
    BY <1>0, <1>1, <1>3
<1>8. \A i \in Spots' : slot'[i] \in Node /\ idx'[slot'[i]] = i
    BY <1>1, <1>6, <1>7
<1>9. SlotsOK'
    <2>1. idx' \in [Node -> Nat] /\ prio' \in [Node -> Prio] /\ len' \in 0 .. m
        BY <1>0, <1>1, <1>4
    <2> QED BY <2>1, <1>0, <1>1, <1>4, <1>6, <1>8, SlotsAre
<1>10. \A i \in 0 .. len - 1 : Val'[i] = Val[i]
    BY <1>1, <1>4, <1>6, <1>7 DEF Val
<1>11. UpOrder(Val', len, len)
    <2>1. ASSUME NEW i \in 1 .. len
          PROVE  Parent(i) # len /\ (i # len => Val'[i] <= Val'[Parent(i)])
        <3>1. Parent(i) \in 0 .. len - 1 /\ Parent(i) < len
            BY <1>1, ParentOf
        <3>2. i # len => Val[i] <= Val[Parent(i)] /\ i \in 0 .. len - 1
            BY <1>0, <1>1 DEF InOrder
        <3> QED BY <3>1, <3>2, <1>1, <1>10
    <2> QED BY <2>1 DEF UpOrder, Bridges
<1>12. LoopOK'
    <2>1. len' - 1 = len /\ idx'[node'] = len /\ len \in 0 .. len /\ slot'[len] = node'
        BY <1>0, <1>1, <1>6, <1>7
    <2> QED BY <2>1, <1>0, <1>11 DEF LoopOK
<1>13. Holds' = (Holds \ {}) \union {n}
    <2>1. \A i \in Spots : \E j \in Spots' : slot'[j] = slot[i]
        BY <1>1, <1>6
    <2>2. \A j \in Spots' : slot'[j] \in {n} \/ \E i \in Spots : slot[i] = slot'[j]
        BY <1>1, <1>6
    <2>3. \A x \in {n} : \E j \in Spots' : slot'[j] = x
        BY <1>1, <1>6
    <2> QED BY <2>1, <2>2, <2>3, <1>0, <1>9, HoldsAre
<1> QED BY <1>0, <1>2, <1>9, <1>12, <1>13 DEF HeapInv

LEMMA DeleteStep ==
    ASSUME HeapAssumption, HeapInv, NEW n \in Node, Delete(n)
    PROVE  HeapInv' /\ Holds' = Holds \ {n} /\ n \in Holds
<1> DEFINE last == len - 1
<1>0. /\ SlotsOK /\ pc = "idle" /\ InOrder(Val, last) /\ n \in Held
      /\ len' = last /\ idx' = [idx EXCEPT ![n] = 0] /\ prio' = [prio EXCEPT ![n] = Lowest]
    BY DEF HeapInv, LoopOK, Delete, Forget
<1>1. /\ Size \in Nat /\ len \in 0 .. Size /\ DOMAIN slot = 0 .. Size - 1
      /\ \A i \in 0 .. Size - 1 : slot[i] \in Node \union {NULL}
      /\ idx \in [Node -> Nat] /\ prio \in [Node -> Prio]
      /\ Spots = 0 .. last
      /\ \A i \in 0 .. last : slot[i] \in Node /\ idx[slot[i]] = i
    BY <1>0, SlotFacts DEF Spots
<1>2. Holds = {slot[i] : i \in 0 .. last} /\ Holds = Held
    BY <1>0, <1>1, HoldsSpots DEF Holds
<1>3. PICK k \in 0 .. last : slot[k] = n /\ idx[n] = k
    BY <1>0, <1>1, <1>2
<1>4. \A i \in (0 .. last) \ {k} : slot[i] # n
    BY <1>1, <1>3
<1>5. last \in Nat /\ len = last + 1
    BY <1>1, <1>3
<1> HIDE DEF last
<1>6. /\ idx' \in [Node -> Nat] /\ prio' \in [Node -> Prio]
      /\ \A i \in (0 .. last) \ {k} : idx'[slot[i]] = i /\ prio'[slot[i]] = prio[slot[i]]
    BY <1>0, <1>1, <1>4, LowestIsPrio
<1>7. CASE last = 0 \/ slot[last] = n
    <2>1. /\ slot' = [slot EXCEPT ![last] = NULL] /\ pc' = "idle" /\ node' = NULL /\ hole' = 0
          /\ Spots' = 0 .. last - 1
        BY <1>0, <1>7 DEF Delete, Return, Spots
    <2>2. k = last
        BY <1>1, <1>3, <1>5, <1>7
    <2>3. /\ DOMAIN slot' = 0 .. Size - 1
          /\ \A i \in 0 .. Size - 1 : slot'[i] \in Node \union {NULL}
          /\ \A i \in 0 .. last - 1 : slot'[i] = slot[i]
        BY <1>1, <1>5, <2>1
    <2>4. \A i \in Spots' : i \in (0 .. last) \ {k} /\ slot'[i] = slot[i]
        BY <1>5, <2>1, <2>2, <2>3
    <2>5. \A i \in Spots' : slot'[i] \in Node /\ idx'[slot'[i]] = i
        BY <1>1, <1>6, <2>4
    <2>6. SlotsOK'
        <3>1. len' \in 0 .. Size
            BY <1>0, <1>1, <1>5
        <3> QED BY <3>1, <1>1, <1>6, <2>1, <2>3, <2>5, SlotsAre
    <2>7. \A i \in Spots' : Val'[i] = Val[i]
        BY <1>1, <1>5, <1>6, <2>1, <2>3, <2>4 DEF Val
    <2>8. InOrder(Val', len' - 1)
        <3> SUFFICES ASSUME NEW i \in 1 .. last - 1 PROVE Val'[i] <= Val'[Parent(i)]
            BY <1>0 DEF InOrder
        <3>1. i \in Spots' /\ Parent(i) \in Spots' /\ Val[i] <= Val[Parent(i)]
            BY <1>0, <1>5, <2>1, ParentOf DEF InOrder
        <3> QED BY <3>1, <2>7
    <2>9. LoopOK'
        BY <2>1, <2>8 DEF LoopOK
    <2>10. Holds' = (Holds \ {n}) \union {}
        <3>1. \A i \in Spots : slot[i] \in {n} \/ \E j \in Spots' : slot'[j] = slot[i]
            BY <1>1, <1>3, <1>5, <2>1, <2>2, <2>3
        <3>2. \A j \in Spots' : slot'[j] \notin {n} /\ \E i \in Spots : slot[i] = slot'[j]
            BY <1>1, <1>4, <2>4
        <3> QED BY <3>1, <3>2, <1>0, <2>6, HoldsAre
    <2> QED BY <1>0, <1>2, <2>6, <2>9, <2>10 DEF HeapInv
<1>8. CASE last # 0 /\ slot[last] # n
    <2>1. /\ slot' = slot /\ pc' = "hole" /\ node' = n /\ hole' = k
          /\ Spots' = (0 .. last) \ {k}
        BY <1>0, <1>3, <1>8 DEF Delete, Start, Spots
    <2>2. \A i \in Spots' : slot'[i] \in Node /\ idx'[slot'[i]] = i
        BY <1>1, <1>6, <2>1
    <2>3. SlotsOK'
        <3>1. len' \in 0 .. Size /\ len' < Size /\ hole' <= len' /\ hole' \in Nat
            BY <1>0, <1>1, <1>3, <1>5, <2>1
        <3> QED BY <3>1, <1>1, <1>6, <2>1, <2>2, SlotsAre
    <2>4. \A i \in (0 .. last) \ {k} : Val'[i] = Val[i]
        BY <1>1, <1>5, <1>6, <2>1 DEF Val
    <2>5. GapOrder(Val', len', hole')
        <3>1. \A i \in 0 .. last : Val[i] \in Nat
            BY <1>0, <1>1, ValNat
        <3> QED BY <3>1, <1>0, <1>5, <2>1, <2>4, ChangeOrder
    <2>6. hole' # len' /\ slot'[len'] # node'
        BY <1>0, <1>3, <1>8, <2>1
    <2>7. LoopOK'
        BY <2>1, <2>5, <2>6 DEF LoopOK
    <2>8. Holds' = (Holds \ {n}) \union {}
        <3>1. \A i \in Spots : slot[i] \in {n} \/ \E j \in Spots' : slot'[j] = slot[i]
            BY <1>1, <1>3, <2>1
        <3>2. \A j \in Spots' : slot'[j] \notin {n} /\ \E i \in Spots : slot[i] = slot'[j]
            BY <1>1, <1>4, <2>1
        <3> QED BY <3>1, <3>2, <1>0, <2>3, HoldsAre
    <2> QED BY <1>0, <1>2, <2>3, <2>7, <2>8 DEF HeapInv
<1> QED BY <1>7, <1>8

LEMMA AdjustStep ==
    ASSUME HeapAssumption, HeapInv, NEW n \in Node, NEW p \in Prio, Adjust(n, p)
    PROVE  HeapInv' /\ Holds' = Holds
<1>0. /\ SlotsOK /\ pc = "idle" /\ InOrder(Val, len - 1) /\ n \in Held
      /\ prio' = [prio EXCEPT ![n] = p] /\ node' = n
      /\ pc' = IF idx[n] > 0 /\ p >= prio[slot[Parent(idx[n])]] THEN "up" ELSE "down"
      /\ UNCHANGED <<slot, len, idx, hole>>
    BY DEF HeapInv, LoopOK, Adjust, Start
<1>1. /\ Size \in Nat /\ len \in 0 .. Size /\ DOMAIN slot = 0 .. Size - 1
      /\ \A i \in 0 .. Size - 1 : slot[i] \in Node \union {NULL}
      /\ idx \in [Node -> Nat] /\ prio \in [Node -> Prio] /\ hole \in Nat
      /\ Spots = 0 .. len - 1 /\ Spots' = 0 .. len - 1
      /\ \A i \in 0 .. len - 1 : slot[i] \in Node /\ idx[slot[i]] = i
      /\ \A q \in Prio : q \in Nat
    BY <1>0, SlotFacts DEF Spots
<1>2. Holds = {slot[i] : i \in 0 .. len - 1} /\ Holds = Held
    BY <1>0, <1>1, HoldsSpots DEF Holds
<1>3. PICK k \in 0 .. len - 1 : slot[k] = n /\ idx[n] = k
    BY <1>0, <1>1, <1>2
<1>4. \A i \in (0 .. len - 1) \ {k} : slot[i] # n
    BY <1>1, <1>3
<1>5. SlotsOK'
    <2>1. prio' \in [Node -> Prio] /\ pc' \in {"up", "down"}
        BY <1>0, <1>1
    <2> QED BY <2>1, <1>0, <1>1, SlotsAre
<1>6. /\ \A i \in 0 .. len - 1 : Val[i] \in Nat /\ Val[i] = prio[slot[i]]
      /\ \A i \in (0 .. len - 1) \ {k} : Val'[i] = Val[i]
      /\ Val'[k] = p /\ p \in Nat
    <2>1. \A i \in 0 .. len - 1 : Val[i] \in Nat /\ Val[i] = prio[slot[i]]
        BY <1>0, <1>1, ValNat
    <2>2. \A i \in 0 .. len - 1 : Val'[i] = prio'[slot[i]]
        BY <1>0, <1>1 DEF Val
    <2> QED BY <2>1, <2>2, <1>0, <1>1, <1>3, <1>4
<1>7. /\ Val'[k] \in Nat /\ k > 0 /\ Val'[k] >= Val[Parent(k)] => UpOrder(Val', len - 1, k)
      /\ Val'[k] \in Nat /\ (k > 0 => Val'[k] < Val[Parent(k)]) => DownOrder(Val', len - 1, k)
    <2>1. len - 1 \in Nat /\ k \in 0 .. len - 1
        BY <1>1, <1>3
    <2> QED BY <2>1, <1>0, <1>6, ChangeOrder
<1>8. k > 0 => prio[slot[Parent(k)]] = Val[Parent(k)] /\ Val[Parent(k)] \in Nat
    BY <1>1, <1>6, ParentOf
<1>9. /\ pc' = "up" => UpOrder(Val', len - 1, k)
      /\ pc' = "down" => DownOrder(Val', len - 1, k)
    BY <1>0, <1>3, <1>6, <1>7, <1>8
<1>10. LoopOK'
    BY <1>0, <1>3, <1>9 DEF LoopOK
<1>11. Holds' = (Holds \ {}) \union {}
    BY <1>0, <1>1, <1>5, HoldsAre
<1> QED BY <1>5, <1>10, <1>11 DEF HeapInv

LEMMA PullUpStep ==
    ASSUME HeapAssumption, HeapInv, PullUp
    PROVE  HeapInv' /\ Holds' = Holds
<1> DEFINE k == idx[node]
           j == Parent(k)
<1>0. /\ SlotsOK /\ pc = "up" /\ node \in Node /\ k \in 0 .. len - 1 /\ slot[k] = node
      /\ UpOrder(Val, len - 1, k) /\ k > 0 /\ prio[node] > prio[slot[j]]
      /\ Swap(node, slot[j]) /\ UNCHANGED <<len, prio, pc, node, hole>>
    BY DEF HeapInv, LoopOK, PullUp
<1>1. len \in Nat /\ Spots = 0 .. len - 1
    BY <1>0, SlotFacts DEF Spots
<1>2. j \in 0 .. len - 1 /\ j # k /\ k \in 1 .. len - 1
    BY <1>0, <1>1, ParentOf
<1>3. /\ SlotsOK' /\ Holds' = Holds /\ idx'[node] = j /\ slot'[j] = node
      /\ \A i \in 0 .. len - 1 :
           Val'[i] = IF i = k THEN Val[j] ELSE IF i = j THEN Val[k] ELSE Val[i]
    <2> HIDE DEF k, j
    <2>1. Swap(slot[k], slot[j]) /\ pc # "hole"
        BY <1>0
    <2> QED BY <2>1, <1>0, <1>2, SwapSlots
<1>4. \A i \in 0 .. len - 1 : Val[i] \in Nat /\ Val[i] = prio[slot[i]]
    BY <1>0, <1>1, ValNat
<1>5. UpOrder(Val', len - 1, j)
    <2>1. len - 1 \in Nat /\ Val[k] > Val[Parent(k)]
        BY <1>0, <1>1, <1>2, <1>4
    <2> HIDE DEF k
    <2> QED BY <2>1, <1>0, <1>2, <1>3, <1>4, PullUpOrder
<1>6. LoopOK'
    BY <1>0, <1>2, <1>3, <1>5 DEF LoopOK
<1> QED BY <1>3, <1>6 DEF HeapInv

LEMMA PushDownStep ==
    ASSUME HeapAssumption, HeapInv, PushDown
    PROVE  HeapInv' /\ Holds' = Holds
<1> DEFINE k == idx[node]
<1>0. /\ SlotsOK /\ pc = "down" /\ node \in Node /\ k \in 0 .. len - 1 /\ slot[k] = node
      /\ DownOrder(Val, len - 1, k) /\ Largest(node) # node
      /\ Swap(node, Largest(node)) /\ UNCHANGED <<len, prio, pc, node, hole>>
    BY DEF HeapInv, LoopOK, PushDown
<1>1. len \in Nat /\ Spots = 0 .. len - 1
    BY <1>0, SlotFacts DEF Spots
<1>2. PICK c \in 1 .. len - 1 :
        /\ Largest(node) = slot[c] /\ Parent(c) = k /\ Val[c] > Val[k]
        /\ \A i \in 1 .. len - 1 : Parent(i) = k => Val[i] <= Val[c]
    BY <1>0, LargestIs
<1>3. c \in 0 .. len - 1 /\ c # k
    BY <1>1, <1>2, ParentOf
<1>4. /\ SlotsOK' /\ Holds' = Holds /\ idx'[node] = c /\ slot'[c] = node
      /\ \A i \in 0 .. len - 1 :
           Val'[i] = IF i = k THEN Val[c] ELSE IF i = c THEN Val[k] ELSE Val[i]
    <2> HIDE DEF k
    <2>1. Swap(slot[k], slot[c]) /\ pc # "hole"
        BY <1>0, <1>2
    <2> QED BY <2>1, <1>0, <1>3, SwapSlots
<1>5. DownOrder(Val', len - 1, c)
    <2>1. len - 1 \in Nat /\ \A i \in 0 .. len - 1 : Val[i] \in Nat
        BY <1>0, <1>1, <1>2, ValNat
    <2> HIDE DEF k
    <2> QED BY <2>1, <1>0, <1>2, <1>4, PushDownOrder
<1>6. LoopOK'
    BY <1>0, <1>3, <1>4, <1>5 DEF LoopOK
<1> QED BY <1>4, <1>6 DEF HeapInv

(* A loop that has reached the place of its node leaves a heap in order.   *)
LEMMA LoopEndsStep ==
    ASSUME HeapAssumption, HeapInv, PullUpEnds \/ PushDownEnds
    PROVE  HeapInv' /\ Holds' = Holds
<1> DEFINE k == idx[node]
<1>0. /\ SlotsOK /\ pc \in {"up", "down"} /\ node \in Node /\ k \in 0 .. len - 1
      /\ slot[k] = node
      /\ pc' = "idle" /\ node' = NULL /\ hole' = 0 /\ UNCHANGED <<slot, len, idx, prio>>
    BY DEF HeapInv, LoopOK, PullUpEnds, PushDownEnds, Return
<1>1. /\ len \in Nat /\ Spots = 0 .. len - 1 /\ Spots' = 0 .. len - 1
    BY <1>0, SlotFacts DEF Spots
<1>2. SlotsOK'
    <2>1. len' \in 0 .. Size /\ Size \in Nat /\ pc' # "hole" /\ hole' \in Nat
        BY <1>0, SlotFacts
    <2> QED BY <2>1, <1>0, <1>1, SlotsAre, SlotFacts
<1>3. Holds' = (Holds \ {}) \union {}
    BY <1>0, <1>1, <1>2, HoldsAre
<1>4. \A i \in 0 .. len - 1 : Val[i] \in Nat /\ Val[i] = prio[slot[i]]
    BY <1>0, <1>1, ValNat
<1>5. InOrder(Val, len - 1)
    <2>1. CASE PullUpEnds
        <3>1. UpOrder(Val, len - 1, k) /\ (k > 0 => prio[node] <= prio[slot[Parent(k)]])
            BY <2>1 DEF HeapInv, LoopOK, PullUpEnds
        <3>2. k > 0 => Val[k] <= Val[Parent(k)]
            BY <3>1, <1>0, <1>1, <1>4, ParentOf
        <3> QED BY <3>1, <3>2 DEF UpOrder, InOrder
    <2>2. CASE PushDownEnds
        <3>1. DownOrder(Val, len - 1, k) /\ Largest(node) = node /\ pc = "down"
            BY <2>2 DEF HeapInv, LoopOK, PushDownEnds
        <3>2. \A c \in 1 .. len - 1 : Parent(c) = k => slot[c] # node
            <4> SUFFICES ASSUME NEW c \in 1 .. len - 1, Parent(c) = k PROVE slot[c] # node
                OBVIOUS
            <4>1. k < c /\ c \in Spots
                BY <1>1, ParentOf
            <4> QED BY <4>1, <1>0, SlotFacts
        <3>3. \A i \in 1 .. len - 1 : Parent(i) = k => Val[i] <= Val[k]
            BY <3>1, <3>2, <1>0, LargestIs
        <3> QED BY <3>1, <3>3 DEF DownOrder, InOrder
    <2> QED BY <2>1, <2>2
<1>6. Val' = Val
    BY <1>0 DEF Val
<1>7. LoopOK'
    BY <1>0, <1>5, <1>6 DEF LoopOK
<1> QED BY <1>2, <1>3, <1>7 DEF HeapInv

(* The greatest child of the gap moves up into it. *)
LEMMA SinkStep ==
    ASSUME HeapAssumption, HeapInv, Sink
    PROVE  HeapInv' /\ Holds' = Holds
<1> DEFINE l == 2 * hole + 1
           child == IF l + 1 <= len /\ prio[slot[l + 1]] > prio[slot[l]] THEN l + 1 ELSE l
<1>0. /\ SlotsOK /\ pc = "hole" /\ l <= len /\ GapOrder(Val, len, hole)
      /\ slot' = [slot EXCEPT ![hole] = slot[child]]
      /\ idx' = [idx EXCEPT ![slot[child]] = hole]
      /\ node' = slot[child] /\ hole' = idx[slot[child]] /\ UNCHANGED <<len, prio, pc>>
    BY DEF HeapInv, LoopOK, Sink
<1>1. /\ Size \in Nat /\ len \in Nat /\ len < Size /\ DOMAIN slot = 0 .. Size - 1
      /\ hole \in 0 .. len /\ Spots = (0 .. len) \ {hole}
      /\ \A i \in 0 .. Size - 1 : slot[i] \in Node \union {NULL}
      /\ \A i \in Spots : slot[i] \in Node /\ idx[slot[i]] = i
      /\ idx \in [Node -> Nat] /\ prio \in [Node -> Prio]
    BY <1>0, SlotFacts DEF Spots
<1>2. \A i \in Spots : Val[i] = prio[slot[i]] /\ Val[i] \in Nat
    BY <1>0, ValNat
<1>3. PICK c \in 1 .. len : /\ c = child /\ Parent(c) = hole
                            /\ \A i \in 1 .. len : Parent(i) = hole => Val[i] <= Val[c]
    <2>1. /\ l \in Nat /\ l >= 1 /\ hole < l
          /\ \A i \in 1 .. len : Parent(i) = hole <=> i = l \/ i = l + 1
        BY <1>1, ParentOf
    <2> HIDE DEF l
    <2>2. l \in Spots /\ (l + 1 <= len => l + 1 \in Spots)
        BY <1>0, <1>1, <2>1
    <2>3. /\ prio[slot[l]] = Val[l] /\ Val[l] \in Nat
          /\ l + 1 <= len => prio[slot[l + 1]] = Val[l + 1] /\ Val[l + 1] \in Nat
        BY <1>2, <2>2
    <2>4. CASE l + 1 <= len /\ Val[l + 1] > Val[l]
        <3>1. child = l + 1 /\ l + 1 \in 1 .. len
            BY <1>1, <2>1, <2>3, <2>4
        <3> QED BY <3>1, <2>1, <2>3, <2>4
    <2>5. CASE ~(l + 1 <= len /\ Val[l + 1] > Val[l])
        <3>1. child = l /\ l \in 1 .. len
            BY <1>0, <1>1, <2>1, <2>3, <2>5
        <3> QED BY <3>1, <2>1, <2>3, <2>5
    <2> QED BY <2>4, <2>5
<1> HIDE DEF l, child
<1>4. c \in Spots /\ hole < c /\ slot[c] \in Node /\ idx[slot[c]] = c
    BY <1>1, <1>3, ParentOf
<1>5. /\ node' = slot[c] /\ hole' = c /\ Spots' = (0 .. len) \ {c}
      /\ slot'[hole] = slot[c] /\ DOMAIN slot' = 0 .. Size - 1
      /\ \A i \in 0 .. Size - 1 : i # hole => slot'[i] = slot[i]
    BY <1>0, <1>1, <1>3, <1>4 DEF Spots
<1>6. /\ idx' \in [Node -> Nat] /\ idx'[slot[c]] = hole
      /\ \A i \in Spots : i # c => idx'[slot[i]] = i
    <2>1. \A i \in Spots : i # c => slot[i] # slot[c]
        BY <1>1, <1>4
    <2> QED BY <2>1, <1>0, <1>1, <1>3, <1>4
<1>7. \A i \in Spots' : slot'[i] \in Node /\ idx'[slot'[i]] = i
    BY <1>1, <1>4, <1>5, <1>6
<1>8. SlotsOK'
    <2>1. \A i \in 0 .. Size - 1 : slot'[i] \in Node \union {NULL}
        BY <1>1, <1>4, <1>5
    <2>2. len' \in 0 .. Size /\ len' < Size /\ hole' <= len' /\ hole' \in Nat
        BY <1>0, <1>1, <1>5
    <2> QED BY <2>1, <2>2, <1>0, <1>1, <1>4, <1>5, <1>6, <1>7, SlotsAre
<1>9. Holds' = (Holds \ {}) \union {}
    <2>1. \A i \in Spots : \E j \in Spots' : slot'[j] = slot[i]
        BY <1>1, <1>4, <1>5
    <2>2. \A j \in Spots' : \E i \in Spots : slot[i] = slot'[j]
        BY <1>1, <1>4, <1>5
    <2> QED BY <2>1, <2>2, <1>0, <1>8, HoldsAre
<1>10. \A i \in 0 .. len : Val'[i] = IF i = hole THEN Val[c] ELSE Val[i]
    BY <1>0, <1>1, <1>4, <1>5 DEF Val
<1>11. GapOrder(Val', len, c)
    BY <1>0, <1>1, <1>2, <1>3, <1>10, SinkOrder
<1>12. hole' = len <=> slot'[len] = node'
    <2>1. slot'[len] = slot[len] /\ len \in Spots
        BY <1>1, <1>4, <1>5
    <2> QED BY <2>1, <1>1, <1>4, <1>5
<1>13. LoopOK'
    BY <1>0, <1>5, <1>11, <1>12 DEF LoopOK
<1> QED BY <1>8, <1>9, <1>13 DEF HeapInv

(* The gap has no child left: it is the last entry, or the last node fills *)
(* it and has to be pulled up.                                             *)
LEMMA FillStep ==
    ASSUME HeapAssumption, HeapInv, Fill
    PROVE  HeapInv' /\ Holds' = Holds
<1>0. /\ SlotsOK /\ pc = "hole" /\ 2 * hole + 1 > len /\ GapOrder(Val, len, hole)
      /\ hole = len <=> slot[len] = node
      /\ UNCHANGED <<len, prio>>
    BY DEF HeapInv, LoopOK, Fill
<1>1. /\ Size \in Nat /\ len \in Nat /\ len < Size /\ DOMAIN slot = 0 .. Size - 1
      /\ hole \in 0 .. len /\ Spots = (0 .. len) \ {hole}
      /\ \A i \in 0 .. Size - 1 : slot[i] \in Node \union {NULL}
      /\ \A i \in Spots : slot[i] \in Node /\ idx[slot[i]] = i
      /\ idx \in [Node -> Nat] /\ prio \in [Node -> Prio]
    BY <1>0, SlotFacts DEF Spots
<1>2. \A i \in 1 .. len : Parent(i) # hole /\ Parent(i) < i /\ Parent(i) \in 0 .. len - 1
    BY <1>0, <1>1, ParentOf
<1>3. CASE slot[len] = node
    <2>1. /\ slot' = [slot EXCEPT ![len] = NULL] /\ idx' = idx
          /\ pc' = "idle" /\ node' = NULL /\ hole' = 0
          /\ Spots = 0 .. len - 1 /\ Spots' = 0 .. len - 1 /\ hole = len
        BY <1>0, <1>1, <1>3 DEF Fill, Return, Spots
    <2>2. /\ DOMAIN slot' = 0 .. Size - 1
          /\ \A i \in 0 .. Size - 1 : slot'[i] \in Node \union {NULL}
          /\ \A i \in 0 .. len - 1 : slot'[i] = slot[i]
        BY <1>1, <2>1
    <2>3. \A i \in Spots' : slot'[i] \in Node /\ idx'[slot'[i]] = i
        BY <1>1, <2>1, <2>2
    <2>4. SlotsOK'
        <3>1. len' \in 0 .. Size
            BY <1>0, <1>1
        <3> QED BY <3>1, <1>0, <1>1, <2>1, <2>2, <2>3, SlotsAre
    <2>5. Holds' = (Holds \ {}) \union {}
        BY <1>0, <2>1, <2>2, <2>4, HoldsAre
    <2>6. \A i \in 0 .. len - 1 : Val'[i] = Val[i]
        BY <1>0, <1>1, <2>2 DEF Val
    <2>7. InOrder(Val', len' - 1)
        <3> SUFFICES ASSUME NEW i \in 1 .. len - 1 PROVE Val'[i] <= Val'[Parent(i)]
            BY <1>0 DEF InOrder
        <3>1. i # hole /\ Parent(i) # hole /\ i \in 1 .. len /\ Parent(i) \in 0 .. len - 1
            BY <1>1, <1>2, <2>1
        <3> QED BY <3>1, <1>0, <2>6 DEF GapOrder
    <2>8. LoopOK'
        BY <2>1, <2>7 DEF LoopOK
    <2> QED BY <2>4, <2>5, <2>8 DEF HeapInv
<1>4. CASE slot[len] # node
    <2> DEFINE last == slot[len]
    <2>1. /\ slot' = [slot EXCEPT ![hole] = last, ![len] = NULL]
          /\ idx' = [idx EXCEPT ![last] = hole]
          /\ pc' = "up" /\ node' = last /\ hole' = 0
          /\ Spots' = 0 .. len - 1 /\ hole # len
        BY <1>0, <1>4 DEF Fill, Start, Spots
    <2>2. len \in Spots /\ hole \in 0 .. len - 1 /\ last \in Node /\ idx[last] = len
        BY <1>1, <2>1
    <2> HIDE DEF last
    <2>3. /\ DOMAIN slot' = 0 .. Size - 1 /\ slot'[hole] = last
          /\ \A i \in 0 .. Size - 1 : slot'[i] \in Node \union {NULL}
          /\ \A i \in (0 .. len - 1) \ {hole} : slot'[i] = slot[i]
        <3>1. hole \in 0 .. Size - 1 /\ len \in 0 .. Size - 1 /\ hole # len
            BY <1>1, <2>1
        <3>2. /\ DOMAIN slot' = 0 .. Size - 1 /\ slot'[hole] = last /\ slot'[len] = NULL
              /\ \A i \in 0 .. Size - 1 : i # hole /\ i # len => slot'[i] = slot[i]
            BY <1>1, <2>1, <3>1
        <3> QED BY <1>1, <2>2, <3>1, <3>2
    <2>4. /\ idx' \in [Node -> Nat] /\ idx'[last] = hole
          /\ \A i \in (0 .. len - 1) \ {hole} : idx'[slot[i]] = i
        <3>1. \A i \in (0 .. len - 1) \ {hole} : i \in Spots /\ slot[i] # last
            BY <1>1, <2>2
        <3> QED BY <3>1, <1>1, <2>1, <2>2
    <2>5. \A i \in Spots' : slot'[i] \in Node /\ idx'[slot'[i]] = i
        BY <1>1, <2>1, <2>2, <2>3, <2>4
    <2>6. SlotsOK'
        <3>1. len' \in 0 .. Size
            BY <1>0, <1>1
        <3> QED BY <3>1, <1>0, <1>1, <2>1, <2>2, <2>3, <2>4, <2>5, SlotsAre
    <2>7. Holds' = (Holds \ {}) \union {}
        <3>1. \A i \in Spots : \E j \in Spots' : slot'[j] = slot[i]
            BY <1>1, <2>1, <2>2, <2>3 DEF last
        <3>2. \A j \in Spots' : \E i \in Spots : slot[i] = slot'[j]
            BY <1>1, <2>1, <2>2, <2>3 DEF last
        <3> QED BY <3>1, <3>2, <1>0, <2>6, HoldsAre
    <2>8. \A i \in (0 .. len - 1) \ {hole} : Val'[i] = Val[i]
        BY <1>0, <1>1, <2>3 DEF Val
    <2>9. UpOrder(Val', len - 1, hole)
        <3>1. ASSUME NEW i \in 1 .. len - 1, i # hole PROVE Val'[i] <= Val'[Parent(i)]
            <4>1. i \in 1 .. len /\ Parent(i) # hole /\ Parent(i) \in 0 .. len - 1
                BY <1>1, <1>2
            <4>2. Val[i] <= Val[Parent(i)]
                BY <4>1, <3>1, <1>0 DEF GapOrder
            <4>3. Parent(i) \in 0 .. len - 2
                BY <1>1, <1>2, <4>1
            <4> QED BY <4>1, <4>2, <4>3, <3>1, <1>1, <2>8
        <3>2. \A i \in 1 .. len - 1 : Parent(i) # hole
            BY <1>1, <1>2
        <3> QED BY <3>1, <3>2 DEF UpOrder, Bridges
    <2>10. LoopOK'
        BY <1>0, <2>1, <2>2, <2>3, <2>4, <2>9 DEF LoopOK
    <2> QED BY <2>6, <2>7, <2>10 DEF HeapInv
<1> QED BY <1>3, <1>4

----------------------------------------------------------------------------
LEMMA HeapInitInv ==
    ASSUME HeapAssumption, Init PROVE HeapInv /\ Holds = {}
<1>1. DOMAIN slot = {} /\ Size = 0
    BY FS_EmptySet DEF Init, Size
<1>2. /\ len = 0 /\ pc = "idle" /\ node = NULL /\ hole = 0
      /\ idx \in [Node -> Nat] /\ prio \in [Node -> Prio]
    BY LowestIsPrio DEF Init
<1>3. Spots = {} /\ InOrder(Val, len - 1)
    BY <1>2 DEF Spots, InOrder
<1>4. HeapTypeOK
    BY <1>1, <1>2 DEF HeapTypeOK
<1>5. Holds = {}
    BY <1>1, <1>2 DEF Holds, Held
<1> QED BY <1>1, <1>2, <1>3, <1>4, <1>5 DEF HeapInv, SlotsOK, LoopOK

LEMMA HeapStepInv ==
    ASSUME HeapAssumption, HeapInv, [Next]_vars
    PROVE  HeapInv'
<1>1. ASSUME NEW n \in Node, Delete(n) PROVE HeapInv'
    BY <1>1, DeleteStep
<1>2. ASSUME NEW n \in Node, NEW p \in Prio, Insert(n, p) \/ Adjust(n, p) PROVE HeapInv'
    BY <1>2, InsertStep, AdjustStep
<1>3. CASE PullUp \/ PushDown
    BY <1>3, PullUpStep, PushDownStep
<1>4. CASE PullUpEnds \/ PushDownEnds
    BY <1>4, LoopEndsStep
<1>5. CASE Sink \/ Fill
    BY <1>5, SinkStep, FillStep
<1>6. CASE UNCHANGED vars
    BY <1>6 DEF vars, HeapInv, SlotsOK, LoopOK, HeapTypeOK, Size, Spots, Val, InOrder,
                UpOrder, DownOrder, GapOrder, Bridges
<1> QED BY <1>1, <1>2, <1>3, <1>4, <1>5, <1>6 DEF Next

(* The parts of the invariant that the code promises. *)
LEMMA InvPromises ==
    ASSUME HeapAssumption, HeapInv
    PROVE  HeapTypeOK /\ HeapOrder /\ IndexMirrors /\ ReadsInBounds
<1>1. HeapTypeOK
    BY DEF HeapInv, SlotsOK
<1>2. \A i \in Spots : i \in DOMAIN slot /\ slot[i] \in Node /\ idx[slot[i]] = i
                       /\ Val[i] = prio[slot[i]]
    BY SlotFacts, ValNat DEF HeapInv
<1>3. HeapOrder
    <2> SUFFICES ASSUME pc = "idle", NEW i \in 1 .. len - 1
                 PROVE  prio[slot[i]] <= prio[slot[Parent(i)]]
        BY DEF HeapOrder
    <2>1. i \in Spots /\ Parent(i) \in Spots
        BY <1>1, ParentOf DEF Spots, HeapTypeOK
    <2> QED BY <2>1, <1>2 DEF HeapInv, LoopOK, InOrder
<1>4. IndexMirrors
    BY <1>2 DEF IndexMirrors, Spots
<1>5. ReadsInBounds
    BY <1>2 DEF ReadsInBounds, HeapInv, SlotsOK, HeapAssumption, Spots
<1> QED BY <1>1, <1>3, <1>4, <1>5

(* Between calls heap_top is a node of the greatest priority and no node   *)
(* is above its parent; every node remembers the index where it is, in     *)
(* every round of every loop, so that heap_delete and heap_adjust find it; *)
(* and the loops read entries that realloc gave and heap_insert filled,    *)
(* the one past the length that a deletion compares among them.            *)
THEOREM HeapStaysHeap ==
    HeapAssumption => (Spec => [](HeapTypeOK /\ HeapOrder /\ IndexMirrors /\ ReadsInBounds))
<1> SUFFICES ASSUME HeapAssumption
             PROVE  Spec => [](HeapTypeOK /\ HeapOrder /\ IndexMirrors /\ ReadsInBounds)
    OBVIOUS
<1>1. Init => HeapInv
    BY HeapInitInv
<1>2. HeapInv /\ [Next]_vars => HeapInv'
    BY HeapStepInv
<1>3. HeapInv => HeapTypeOK /\ HeapOrder /\ IndexMirrors /\ ReadsInBounds
    BY InvPromises
<1> QED BY <1>1, <1>2, <1>3, PTL DEF Spec

----------------------------------------------------------------------------
LEMMA SameCardinality == \A x : S!Cardinality(x) = Cardinality(x)
    BY DEF S!Cardinality, Cardinality

(* The nodes held change by at most the node of a call. *)
LEMMA CallIsOfOne ==
    ASSUME pc = "idle", NEW n,
           Holds' = Holds \union {n} \/ Holds' = Holds \ {n} \/ Holds' = Holds
    PROVE  S!Call
<1>1. S!Put \in {{}, {n}} /\ S!Taken \in {{}, {n}}
    BY DEF S!Put, S!Taken
<1>2. Cardinality(S!Put) <= 1 /\ Cardinality(S!Taken) <= 1
    BY <1>1, FS_EmptySet, FS_Singleton
<1>3. Doing = "idle" /\ Leaving' \subseteq Holds' /\ Cardinality(Leaving') <= 1 /\ Leaving' = {}
    BY FS_EmptySet DEF Doing, Leaving
<1> QED BY <1>2, <1>3, SameCardinality DEF S!Call

LEMMA HeapStepImplements ==
    ASSUME HeapAssumption, HeapInv, [Next]_vars
    PROVE  [S!Next]_S!vars
<1>1. ASSUME NEW n \in Node, Delete(n) PROVE S!Call
    BY <1>1, DeleteStep, CallIsOfOne DEF Delete
<1>2. ASSUME NEW n \in Node, NEW p \in Prio, Insert(n, p) PROVE S!Call
    BY <1>2, InsertStep, CallIsOfOne DEF Insert
<1>3. ASSUME NEW n \in Node, NEW p \in Prio, Adjust(n, p) PROVE S!Call
    BY <1>3, AdjustStep, CallIsOfOne DEF Adjust
<1>4. CASE PullUp \/ PullUpEnds \/ PushDown \/ PushDownEnds \/ Sink \/ Fill
    <2>1. Holds' = Holds
        BY <1>4, PullUpStep, PushDownStep, LoopEndsStep, SinkStep, FillStep
    <2>2. pc # "idle" /\ pc' \in {"idle", "up", "down", "hole"}
        BY <1>4, HeapStepInv
           DEF PullUp, PullUpEnds, PushDown, PushDownEnds, Sink, Fill, HeapInv, SlotsOK, HeapTypeOK
    <2> QED BY <2>1, <2>2 DEF S!Next, S!Work, Doing, Leaving
<1>5. CASE UNCHANGED vars
    BY <1>5 DEF vars, S!vars, Holds, Held, Doing, Leaving
<1> QED BY <1>1, <1>2, <1>3, <1>4, <1>5 DEF Next, S!Next

(* A heap is a set of nodes: heap_insert puts one in, heap_delete takes    *)
(* that one out, heap_adjust neither; and while their loops exchange       *)
(* entries or let the gap sink, no node is lost and none comes back.       *)
THEOREM HeapIsNodeSet == HeapAssumption => (Spec => ImplementsNodeSet)
<1> SUFFICES ASSUME HeapAssumption PROVE Spec => ImplementsNodeSet
    OBVIOUS
<1>1. Init => HeapInv /\ S!Init
    BY HeapInitInv DEF Init, S!Init, Doing, Leaving
<1>2. HeapInv /\ [Next]_vars => HeapInv' /\ [S!Next]_S!vars
    BY HeapStepInv, HeapStepImplements
<1> QED BY <1>1, <1>2, PTL DEF Spec, ImplementsNodeSet, S!Spec
=============================================================================
