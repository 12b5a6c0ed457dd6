----------------------------- MODULE Loop_proofs -----------------------------
(***************************************************************************)
(* The event loop, for any timers, delays and clock, any descriptors and   *)
(* refusals of the kernel, and any messages and sizes.  First its parts:   *)
(* the tree of timers is in order and a service that fires them in time;   *)
(* the table, its count and the kernel's set agree; the FIFO and the batch *)
(* buffer are one queue.  Then run_loop, which keeps what its parts        *)
(* promise, and what it promises itself.                                   *)
(***************************************************************************)
EXTENDS Loop, TLAPS, FiniteSetTheorems, SequenceTheorems

(* RemoveAt, position by position. *)
LEMMA RemoveAtElements ==
  ASSUME NEW S, NEW s \in Seq(S), NEW k \in DOMAIN s
  PROVE  /\ RemoveAt(s, k) \in Seq(S)
         /\ Len(RemoveAt(s, k)) = Len(s) - 1
         /\ \A i \in 1..(Len(s) - 1) :
              RemoveAt(s, k)[i] = IF i < k THEN s[i] ELSE s[i + 1]
  BY SMTT(30) DEF RemoveAt

(* InsertAt, position by position. *)
LEMMA InsertAtElements ==
  ASSUME NEW S, NEW s \in Seq(S), NEW e \in S, NEW k \in 1..(Len(s) + 1)
  PROVE  /\ InsertAt(s, k, e) \in Seq(S)
         /\ Len(InsertAt(s, k, e)) = Len(s) + 1
         /\ \A i \in 1..(Len(s) + 1) :
              InsertAt(s, k, e)[i] = IF i < k THEN s[i] ELSE IF i = k THEN e ELSE s[i - 1]
<1> DEFINE a == SubSeq(s, 1, k - 1)
           m == <<e>>
           z == SubSeq(s, k, Len(s))
           am == a \o m
<1>0. Len(s) \in Nat /\ k \in Nat /\ k >= 1 /\ k <= Len(s) + 1
  BY LenProperties
<1>1. a \in Seq(S) /\ Len(a) = k - 1 /\ \A i \in 1..(k - 1) : a[i] = s[i]
  <2>1. \A i \in 1..(k - 1) : s[i] \in S
    BY <1>0, ElementOfSeq
  <2>2. /\ a \in Seq(S)
        /\ Len(a) = IF 1 <= k - 1 THEN k - 1 - 1 + 1 ELSE 0
        /\ \A i \in 1..(k - 1 - 1 + 1) : a[i] = s[1 + i - 1]
    BY <2>1, <1>0, SubSeqProperties
  <2> QED BY <2>2, <1>0
<1>2. /\ z \in Seq(S) /\ Len(z) = Len(s) - k + 1
      /\ \A i \in 1..(Len(s) - k + 1) : z[i] = s[k + i - 1]
  <2>1. \A i \in k..Len(s) : s[i] \in S
    BY <1>0, ElementOfSeq
  <2>2. /\ z \in Seq(S)
        /\ Len(z) = IF k <= Len(s) THEN Len(s) - k + 1 ELSE 0
        /\ \A i \in 1..(Len(s) - k + 1) : z[i] = s[k + i - 1]
    BY <2>1, <1>0, SubSeqProperties
  <2> QED BY <2>2, <1>0
<1>3. m \in Seq(S) /\ Len(m) = 1 /\ m[1] = e
  OBVIOUS
<1> HIDE DEF a, m, z
<1>4. /\ am \in Seq(S) /\ Len(am) = k
      /\ \A i \in 1..k : am[i] = IF i <= k - 1 THEN a[i] ELSE m[i - (k - 1)]
  <2>1. /\ am \in Seq(S) /\ Len(am) = Len(a) + Len(m)
        /\ \A i \in 1..(Len(a) + Len(m)) :
             am[i] = IF i <= Len(a) THEN a[i] ELSE m[i - Len(a)]
    BY <1>1, <1>3, ConcatProperties
  <2>2. Len(a) + Len(m) = k
    BY <1>0, <1>1, <1>3
  <2> QED BY <2>1, <2>2, <1>1
<1> HIDE DEF am
<1>5. /\ am \o z \in Seq(S) /\ Len(am \o z) = Len(s) + 1
      /\ \A i \in 1..(Len(s) + 1) :
           (am \o z)[i] = IF i <= k THEN am[i] ELSE z[i - k]
  <2>1. /\ am \o z \in Seq(S) /\ Len(am \o z) = Len(am) + Len(z)
        /\ \A i \in 1..(Len(am) + Len(z)) :
             (am \o z)[i] =
                IF i <= Len(am) THEN am[i] ELSE z[i - Len(am)]
    BY <1>2, <1>4, ConcatProperties
  <2>2. Len(am) + Len(z) = Len(s) + 1
    BY <1>0, <1>2, <1>4
  <2> QED BY <2>1, <2>2, <1>4
<1>6. InsertAt(s, k, e) = am \o z
  BY DEF InsertAt, a, m, z, am
<1>7. ASSUME NEW i \in 1..(Len(s) + 1)
      PROVE  (am \o z)[i] = IF i < k THEN s[i] ELSE IF i = k THEN e ELSE s[i - 1]
  <2>1. CASE i < k
    <3>1. i \in 1..(k - 1) /\ i \in 1..k /\ i <= k - 1 /\ i <= k
      BY <2>1, <1>0
    <3>2. (am \o z)[i] = am[i]
      BY <3>1, <1>5
    <3>3. am[i] = a[i] /\ a[i] = s[i]
      BY <3>1, <1>1, <1>4
    <3> QED BY <3>2, <3>3, <2>1
  <2>2. CASE i = k
    <3>1. (am \o z)[i] = am[k]
      <4> k \in 1..(Len(s) + 1) /\ k <= k
        BY <1>0
      <4> QED BY <2>2, <1>5
    <3>2. am[k] = m[k - (k - 1)] /\ k - (k - 1) = 1
      BY <1>0, <1>4
    <3> QED BY <3>1, <3>2, <2>2, <1>0, <1>3
  <2>3. CASE i > k
    <3>1. i - k \in 1..(Len(s) - k + 1) /\ k + (i - k) - 1 = i - 1
      BY <2>3, <1>0
    <3>2. z[i - k] = s[k + (i - k) - 1]
      BY <3>1, <1>2
    <3> QED BY <3>1, <3>2, <2>3, <1>0, <1>5
  <2>4. i < k \/ i = k \/ i > k
    BY <1>0
  <2> QED BY <2>1, <2>2, <2>3, <2>4
<1> QED BY <1>5, <1>6, <1>7

-----------------------------------------------------------------------------
(* TimersOrdered, of a sequence r of timers, a cached timer n and expiries x. *)
Tree(r, n, x) ==
  /\ \A i, j \in DOMAIN r : r[i] = r[j] => i = j
  /\ \A i, j \in DOMAIN r : i < j => x[r[i]] <= x[r[j]]
  /\ n = IF r = <<>> THEN NoTimer ELSE r[1]

(* del_timer keeps the tree in order and the cached timer leftmost. *)
LEMMA WithoutIsTree ==
  ASSUME TimersTypeOK, TimersOrdered, NEW t \in Timers
  PROVE  /\ RootWithout(t) \in Seq(Timers)
         /\ Tree(RootWithout(t), NextWithout(t), expires)
         /\ \A i \in DOMAIN RootWithout(t) : RootWithout(t)[i] # t
<1>1. root \in Seq(Timers) /\ Len(root) \in Nat /\ DOMAIN root = 1..Len(root)
  BY LenProperties DEF TimersTypeOK
<1>2. CASE ~Armed(t)
  <2>1. RootWithout(t) = root /\ NextWithout(t) = next
    BY <1>2 DEF RootWithout, NextWithout
  <2> QED
    BY <2>1, <1>1, <1>2
    DEF Armed, Tree, TimersOrdered, ArmedOnce, RootSorted, NextIsLeftmost
<1>3. CASE Armed(t)
  <2> DEFINE k == Position(t)
             r == RootWithout(t)
             n == NextWithout(t)
  <2>1. k \in 1..Len(root) /\ root[k] = t
    BY <1>1, <1>3 DEF Armed, Position
  <2>2. /\ r \in Seq(Timers) /\ Len(r) = Len(root) - 1
        /\ \A i \in 1..(Len(root) - 1) : r[i] = IF i < k THEN root[i] ELSE root[i + 1]
    BY <1>1, <1>3, <2>1, RemoveAtElements DEF RootWithout
  <2>3. DOMAIN r = 1..(Len(root) - 1)
    BY <2>2, LenProperties
  <2>4. n = IF next = t THEN (IF k < Len(root) THEN root[k + 1] ELSE NoTimer) ELSE next
    BY <1>3 DEF NextWithout, Successor
  <2> HIDE DEF k, r, n
  <2> DEFINE old(i) == IF i < k THEN i ELSE i + 1
  <2>a. \A i \in DOMAIN r : old(i) \in 1..Len(root) /\ r[i] = root[old(i)]
    BY <1>1, <2>1, <2>2, <2>3
  <2>b. \A i, j \in DOMAIN r : (i < j => old(i) < old(j)) /\ (old(i) = old(j) => i = j)
    BY <1>1, <2>1, <2>3
  <2> HIDE DEF old
  <2>5. \A i, j \in DOMAIN r : r[i] = r[j] => i = j
    BY <1>1, <2>a, <2>b DEF TimersOrdered, ArmedOnce
  <2>6. \A i, j \in DOMAIN r : i < j => expires[r[i]] <= expires[r[j]]
    BY <1>1, <2>a, <2>b DEF TimersOrdered, RootSorted
  <2>7. n = IF r = <<>> THEN NoTimer ELSE r[1]
    <3>1. root # <<>> /\ next = root[1]
      BY <1>1, <2>1, EmptySeq DEF TimersOrdered, NextIsLeftmost
    <3>2. next = t <=> k = 1
      BY <3>1, <1>1, <2>1 DEF TimersOrdered, ArmedOnce
    <3>3. r = <<>> <=> Len(root) = 1
      BY <1>1, <2>1, <2>2, EmptySeq
    <3> QED BY <3>1, <3>2, <3>3, <2>1, <2>2, <2>4, <1>1
  <2>8. \A i \in DOMAIN r : r[i] # t
    BY <1>1, <2>1, <2>2, <2>3 DEF TimersOrdered, ArmedOnce
  <2> QED BY <2>2, <2>5, <2>6, <2>7, <2>8 DEF Tree, r, n
<1> QED BY <1>2, <1>3

(* add_timer keeps the tree in order and the cached timer leftmost. *)
LEMMA LinkIsTree ==
  ASSUME TimersTypeOK,
         NEW r \in Seq(Timers), NEW n, Tree(r, n, expires),
         NEW t \in Timers, \A i \in DOMAIN r : r[i] # t,
         NEW e \in Nat, Link(t, e, r, n)
  PROVE  /\ root' \in Seq(Timers)
         /\ expires' \in [Timers -> Nat]
         /\ next' \in Timers
         /\ Tree(root', next', expires')
<1>1. Len(r) \in Nat /\ DOMAIN r = 1..Len(r)
  BY LenProperties
<1>2. PICK k \in 1..(Len(r) + 1) :
        /\ \A j \in DOMAIN r : j < k <=> expires[r[j]] <= e
        /\ root' = InsertAt(r, k, t)
  BY DEF Link
<1>3. /\ root' \in Seq(Timers) /\ Len(root') = Len(r) + 1
      /\ \A i \in 1..(Len(r) + 1) :
           root'[i] = IF i < k THEN r[i] ELSE IF i = k THEN t ELSE r[i - 1]
  <2>1. /\ InsertAt(r, k, t) \in Seq(Timers) /\ Len(InsertAt(r, k, t)) = Len(r) + 1
        /\ \A i \in 1..(Len(r) + 1) :
             InsertAt(r, k, t)[i] = IF i < k THEN r[i] ELSE IF i = k THEN t ELSE r[i - 1]
    BY ONLY InsertAtElements, r \in Seq(Timers), t \in Timers, k \in 1..(Len(r) + 1)
  <2> QED BY <2>1, <1>2
<1>4. DOMAIN root' = 1..(Len(r) + 1)
  BY <1>3, LenProperties
<1>5. expires' = [expires EXCEPT ![t] = e] /\ expires' \in [Timers -> Nat]
  BY DEF Link, TimersTypeOK
<1>6. \A i \in DOMAIN r : r[i] \in Timers /\ expires'[r[i]] = expires[r[i]]
  BY <1>1, <1>5, ElementOfSeq DEF TimersTypeOK
<1>7. expires'[t] = e
  BY <1>5 DEF TimersTypeOK
<1>8. \A i \in DOMAIN r : expires[r[i]] \in Nat
  BY <1>6 DEF TimersTypeOK
<1>9. next' = IF n = NoTimer \/ e < expires[n] THEN t ELSE n
  BY DEF Link
<1> DEFINE old(i) == IF i < k THEN i ELSE i - 1
<1>a. root'[k] = t
  BY <1>1, <1>3
<1>b. \A i \in DOMAIN root' : i # k => old(i) \in DOMAIN r /\ root'[i] = r[old(i)]
  BY <1>1, <1>3, <1>4
<1>c. \A i, j \in DOMAIN root' :
        i # k /\ j # k => (i < j => old(i) < old(j)) /\ (old(i) = old(j) => i = j)
  BY <1>1, <1>4
<1>d. \A i \in DOMAIN root' : i # k => (i < k <=> old(i) < k)
  BY <1>1, <1>4
<1> HIDE DEF old
<1>10. \A i, j \in DOMAIN root' : root'[i] = root'[j] => i = j
  <2> SUFFICES ASSUME NEW i \in DOMAIN root', NEW j \in DOMAIN root', root'[i] = root'[j]
               PROVE  i = j
    OBVIOUS
  <2>1. CASE i = k \/ j = k
    BY <2>1, <1>a, <1>b
  <2>2. CASE i # k /\ j # k
    BY <2>2, <1>b, <1>c DEF Tree
  <2> QED BY <2>1, <2>2
<1>11. \A i, j \in DOMAIN root' : i < j => expires'[root'[i]] <= expires'[root'[j]]
  <2> SUFFICES ASSUME NEW i \in DOMAIN root', NEW j \in DOMAIN root', i < j
               PROVE  expires'[root'[i]] <= expires'[root'[j]]
    OBVIOUS
  <2>1. CASE i = k
    <3>1. j # k /\ ~(j < k) /\ old(j) \in DOMAIN r /\ ~(old(j) < k)
      BY <2>1, <1>1, <1>4, <1>b, <1>d
    <3>2. ~(expires[r[old(j)]] <= e)
      BY <3>1, <1>2
    <3> QED BY <2>1, <3>1, <3>2, <1>a, <1>b, <1>6, <1>7, <1>8
  <2>2. CASE j = k
    <3>1. i # k /\ old(i) \in DOMAIN r /\ old(i) < k
      BY <2>2, <1>1, <1>4, <1>b, <1>d
    <3>2. expires[r[old(i)]] <= e
      BY <3>1, <1>2
    <3> QED BY <2>2, <3>1, <3>2, <1>a, <1>b, <1>6, <1>7
  <2>3. CASE i # k /\ j # k
    <3>1. old(i) < old(j) /\ old(i) \in DOMAIN r /\ old(j) \in DOMAIN r
      BY <2>3, <1>b, <1>c
    <3>2. expires[r[old(i)]] <= expires[r[old(j)]]
      BY <3>1 DEF Tree
    <3> QED BY <2>3, <3>1, <3>2, <1>b, <1>6
  <2> QED BY <2>1, <2>2, <2>3
<1>12. next' = root'[1] /\ root' # <<>>
  <2>1. root' # <<>>
    BY <1>1, <1>3, EmptySeq
  <2>2. CASE r = <<>>
    BY <2>2, <1>1, <1>2, <1>3, <1>9, EmptySeq DEF Tree
  <2>3. CASE r # <<>>
    <3>1. n = r[1] /\ 1 \in DOMAIN r /\ n # NoTimer
      BY <2>3, <1>1, <1>6, EmptySeq, TimersAssumption DEF Tree
    <3>2. k = 1 <=> e < expires[n]
      BY <3>1, <1>1, <1>2, <1>8
    <3> QED BY <3>1, <3>2, <1>1, <1>2, <1>3, <1>9
  <2> QED BY <2>1, <2>2, <2>3
<1>13. next' \in Timers
  BY <1>12, <1>3, <1>1, <1>4, ElementOfSeq
<1> QED BY <1>3, <1>5, <1>10, <1>11, <1>12, <1>13 DEF Tree

-----------------------------------------------------------------------------
(* The inductive invariant. *)
TimersInv == TimersTypeOK /\ TimersOrdered /\ PassState

LEMMA OrderedIsTree == TimersOrdered <=> Tree(root, next, expires)
  BY DEF TimersOrdered, ArmedOnce, RootSorted, NextIsLeftmost, Tree

LEMMA ToIntInt == \A n \in Int : ToInt(n) \in Int
<1> SUFFICES ASSUME NEW n \in Int PROVE ToInt(n) \in Int
  OBVIOUS
<1>1. 2 * IntLimit \in Nat \ {0} /\ IntLimit \in Nat
  BY TimersAssumption
<1>2. n % (2 * IntLimit) \in Int
  BY <1>1
<1> QED BY <1>1, <1>2 DEF ToInt

LEMMA WaitMsInt == ASSUME TimersTypeOK, NEW t \in Timers PROVE WaitMs(expires[t]) \in Int
<1>1. expires[t] - realtime \in Int
  BY DEF TimersTypeOK
<1>2. (expires[t] - realtime) \div TicksPerMs \in Int
  BY <1>1, TimersAssumption
<1> QED BY <1>2, ToIntInt DEF WaitMs

LEMMA TimersInitInv == TimersInit => TimersInv
<1> SUFFICES ASSUME TimersInit PROVE TimersInv
  OBVIOUS
<1>1. now \in Nat /\ realtime \in Nat
  BY TimersAssumption DEF TimersInit
<1>2. root = <<>> /\ root \in Seq(Timers) /\ DOMAIN root = {}
  BY DEF TimersInit
<1>3. TimersTypeOK
  <2>1. expires \in [Timers -> Nat]
    BY DEF TimersInit
  <2>2. timeout \in Int
    BY DEF TimersInit
  <2>3. /\ next \in Timers \cup {NoTimer} /\ firing \in Timers \cup {NoTimer}
        /\ tpc \in {"out", "run", "callback"} /\ stopped \in BOOLEAN
    BY DEF TimersInit
  <2> QED BY <1>1, <1>2, <2>1, <2>2, <2>3 DEF TimersTypeOK
<1>4. TimersOrdered
  BY <1>2 DEF TimersInit, TimersOrdered, ArmedOnce, RootSorted, NextIsLeftmost
<1> QED BY <1>3, <1>4 DEF TimersInit, TimersInv, PassState

(* Every step of the timers keeps the invariant. *)
LEMMA TimersStepInv == TimersInv /\ [TimersNext]_timerVars => TimersInv'
<1> SUFFICES ASSUME TimersTypeOK, TimersOrdered, PassState, [TimersNext]_timerVars
             PROVE  TimersInv'
  BY DEF TimersInv
<1> USE TimersAssumption
<1>0. /\ root \in Seq(Timers) /\ DOMAIN root = 1..Len(root) /\ Len(root) \in Nat
      /\ Tree(root, next, expires)
  BY LenProperties, OrderedIsTree DEF TimersTypeOK
<1>link. ASSUME NEW t \in Timers, NEW e \in Nat,
                NEW r \in Seq(Timers), NEW n, Tree(r, n, expires),
                \A i \in DOMAIN r : r[i] # t, Link(t, e, r, n),
                UNCHANGED <<now, realtime, tpc, firing, timeout, stopped>>
         PROVE  TimersInv'
  <2>1. /\ root' \in Seq(Timers) /\ expires' \in [Timers -> Nat] /\ next' \in Timers
        /\ Tree(root', next', expires')
    BY <1>link, LinkIsTree
  <2>2. TimersTypeOK'
    BY <2>1, <1>link DEF TimersTypeOK
  <2>3. TimersOrdered'
    BY <2>1 DEF TimersOrdered, ArmedOnce, RootSorted, NextIsLeftmost, Tree
  <2>4. PassState'
    BY <1>link DEF PassState
  <2> QED BY <2>2, <2>3, <2>4 DEF TimersInv
<1>without. ASSUME NEW t \in Timers,
                   root' = RootWithout(t), next' = NextWithout(t), expires' = expires
            PROVE  /\ root' \in Seq(Timers) /\ next' \in Timers \cup {NoTimer}
                   /\ TimersOrdered'
  <2>1. /\ root' \in Seq(Timers) /\ Tree(root', next', expires')
    BY <1>without, WithoutIsTree
  <2>2. next' \in Timers \cup {NoTimer}
    BY <2>1, LenProperties, EmptySeq, ElementOfSeq DEF Tree
  <2> QED
    BY <2>1, <2>2 DEF TimersOrdered, ArmedOnce, RootSorted, NextIsLeftmost, Tree
<1>same. ASSUME UNCHANGED <<root, next, expires>> PROVE TimersOrdered'
  BY <1>same DEF TimersOrdered, ArmedOnce, RootSorted, NextIsLeftmost
<1>1. ASSUME NEW t \in Timers, NEW e \in Nat, AddTimer(t, e) PROVE TimersInv'
  <2>1. \A i \in DOMAIN root : root[i] # t
    BY <1>1 DEF AddTimer, Armed
  <2> QED BY <2>1, <1>0, <1>1, <1>link DEF AddTimer
<1>2. ASSUME NEW t \in Timers, NEW ms \in Nat PROVE realtime + ms * TicksPerMs \in Nat
  BY DEF TimersTypeOK
<1>3. ASSUME NEW t \in Timers, NEW ms \in Delays, AddTimeout(t, ms) PROVE TimersInv'
  BY <1>1, <1>2, <1>3 DEF AddTimeout
<1>4. ASSUME NEW t \in Timers, NEW ms \in Delays, UpdateTimeout(t, ms) PROVE TimersInv'
  <2>1. /\ RootWithout(t) \in Seq(Timers)
        /\ Tree(RootWithout(t), NextWithout(t), expires)
        /\ \A i \in DOMAIN RootWithout(t) : RootWithout(t)[i] # t
    BY WithoutIsTree
  <2> QED BY <2>1, <1>2, <1>4, <1>link DEF UpdateTimeout
<1>5. ASSUME NEW t \in Timers, DelTimer(t) PROVE TimersInv'
  BY <1>5, <1>without DEF DelTimer, TimersInv, TimersTypeOK, PassState
<1>6. ASSUME StopLoop PROVE TimersInv'
  BY <1>6, <1>same DEF StopLoop, TimersInv, TimersTypeOK, PassState, TimerUserCode
<1>7. ASSUME BeginRunTimers PROVE TimersInv'
  BY <1>7, <1>same DEF BeginRunTimers, TimersInv, TimersTypeOK, PassState
<1>8. ASSUME FireTimer PROVE TimersInv'
  <2>1. next \in Timers
    BY <1>8 DEF FireTimer, NextDue, TimersTypeOK
  <2> QED
    BY <2>1, <1>8, <1>without DEF FireTimer, TimersInv, TimersTypeOK, PassState
<1>9. ASSUME TimerCallbackReturns PROVE TimersInv'
  BY <1>9, <1>same DEF TimerCallbackReturns, TimersInv, TimersTypeOK, PassState
<1>10. ASSUME ReturnWait PROVE TimersInv'
  <2>1. timeout' \in Int
    BY <1>10, WaitMsInt DEF ReturnWait, TimersTypeOK
  <2> QED
    BY <2>1, <1>10, <1>same DEF ReturnWait, TimersInv, TimersTypeOK, PassState
<1>11. ASSUME ReturnIdle PROVE TimersInv'
  BY <1>11, <1>same DEF ReturnIdle, TimersInv, TimersTypeOK, PassState
<1>12. ASSUME Tick PROVE TimersInv'
  <2>1. now' \in Nat
    BY <1>12 DEF Tick
  <2> QED BY <2>1, <1>12, <1>same DEF Tick, TimersInv, TimersTypeOK, PassState
<1>13. ASSUME UNCHANGED timerVars PROVE TimersInv'
  BY <1>13, <1>same DEF timerVars, TimersInv, TimersTypeOK, PassState
<1> QED
  BY <1>1, <1>3, <1>4, <1>5, <1>6, <1>7, <1>8, <1>9, <1>10, <1>11, <1>12, <1>13
  DEF TimersNext, TimerApi, RunTimersStep

(* The cached pointer of add_timer and del_timer is always the leftmost    *)
(* timer of a tree sorted by expiry, for any number of timers and delays.  *)
THEOREM TimersStayOrdered == TimersSpec => [](TimersTypeOK /\ TimersOrdered /\ PassState)
<1>1. TimersInit => TimersInv
  BY TimersInitInv
<1>2. TimersInv /\ [TimersNext]_timerVars => TimersInv'
  BY TimersStepInv
<1> QED BY <1>1, <1>2, PTL DEF TimersSpec, TimersInv

-----------------------------------------------------------------------------
(* The detailed timers implement the abstract timer service. *)

(* What a deletion does to the set of armed timers. *)
LEMMA WithoutArmed ==
  ASSUME TimersTypeOK, NEW t \in Timers, NEW u \in Timers, u # t
  PROVE  (\E i \in DOMAIN RootWithout(t) : RootWithout(t)[i] = u) <=> Armed(u)
<1>1. root \in Seq(Timers) /\ Len(root) \in Nat /\ DOMAIN root = 1..Len(root)
  BY LenProperties DEF TimersTypeOK
<1>2. CASE ~Armed(t)
  BY <1>2 DEF RootWithout, Armed
<1>3. CASE Armed(t)
  <2> DEFINE k == Position(t)
             r == RootWithout(t)
  <2>1. k \in 1..Len(root) /\ root[k] = t
    BY <1>1, <1>3 DEF Armed, Position
  <2>2. /\ r \in Seq(Timers) /\ Len(r) = Len(root) - 1
        /\ \A i \in 1..(Len(root) - 1) : r[i] = IF i < k THEN root[i] ELSE root[i + 1]
    BY <1>1, <1>3, <2>1, RemoveAtElements DEF RootWithout
  <2>3. DOMAIN r = 1..(Len(root) - 1)
    BY <2>2, LenProperties
  <2> HIDE DEF k, r
  <2>4. ASSUME NEW i \in DOMAIN r, r[i] = u PROVE Armed(u)
    <3>1. i \in DOMAIN root /\ i + 1 \in DOMAIN root
      BY <1>1, <2>3
    <3> QED BY <2>4, <3>1, <2>2, <2>3 DEF Armed
  <2>5. ASSUME NEW j \in DOMAIN root, root[j] = u PROVE \E i \in DOMAIN r : r[i] = u
    <3>1. CASE j < k
      <4>1. j \in DOMAIN r /\ r[j] = root[j]
        BY <3>1, <1>1, <2>1, <2>2, <2>3
      <4> QED BY <4>1, <2>5
    <3>2. CASE j > k
      <4>1. j - 1 \in DOMAIN r /\ ~(j - 1 < k) /\ (j - 1) + 1 = j
        BY <3>2, <1>1, <2>1, <2>3
      <4>2. r[j - 1] = root[j]
        BY <4>1, <2>2, <2>3
      <4> QED BY <4>1, <4>2, <2>5
    <3>3. j # k
      BY <2>1, <2>5
    <3> QED BY <1>1, <2>1, <3>1, <3>2, <3>3
  <2> QED BY <2>4, <2>5 DEF Armed, r
<1> QED BY <1>2, <1>3

(* What an insertion does to it. *)
LEMMA LinkArmed ==
  ASSUME NEW r \in Seq(Timers), NEW n, NEW t \in Timers, NEW e \in Nat, Link(t, e, r, n)
  PROVE  /\ Armed(t)'
         /\ \A u \in Timers : u # t => (Armed(u)' <=> \E i \in DOMAIN r : r[i] = u)
<1>1. Len(r) \in Nat /\ DOMAIN r = 1..Len(r)
  BY LenProperties
<1>2. PICK k \in 1..(Len(r) + 1) : root' = InsertAt(r, k, t)
  BY DEF Link
<1>3. /\ root' \in Seq(Timers) /\ Len(root') = Len(r) + 1
      /\ \A i \in 1..(Len(r) + 1) :
           root'[i] = IF i < k THEN r[i] ELSE IF i = k THEN t ELSE r[i - 1]
  <2>1. /\ InsertAt(r, k, t) \in Seq(Timers) /\ Len(InsertAt(r, k, t)) = Len(r) + 1
        /\ \A i \in 1..(Len(r) + 1) :
             InsertAt(r, k, t)[i] = IF i < k THEN r[i] ELSE IF i = k THEN t ELSE r[i - 1]
    BY ONLY InsertAtElements, r \in Seq(Timers), t \in Timers, k \in 1..(Len(r) + 1)
  <2> QED BY <2>1, <1>2
<1>4. DOMAIN root' = 1..(Len(r) + 1)
  BY <1>3, LenProperties
<1>5. k \in DOMAIN root' /\ root'[k] = t
  BY <1>1, <1>3, <1>4
<1>6. ASSUME NEW u \in Timers, u # t, NEW i \in DOMAIN root', root'[i] = u
      PROVE  \E j \in DOMAIN r : r[j] = u
  <2>1. CASE i < k
    <3>1. i \in DOMAIN r /\ r[i] = u
      BY <2>1, <1>1, <1>3, <1>4, <1>6
    <3> QED BY <3>1
  <2>2. CASE i > k
    <3>1. i - 1 \in DOMAIN r /\ r[i - 1] = u
      BY <2>2, <1>1, <1>3, <1>4, <1>6
    <3> QED BY <3>1
  <2>3. i # k
    BY <1>5, <1>6
  <2> QED BY <1>1, <1>4, <2>1, <2>2, <2>3
<1>7. ASSUME NEW u \in Timers, NEW j \in DOMAIN r, r[j] = u
      PROVE  \E i \in DOMAIN root' : root'[i] = u
  <2>1. CASE j < k
    <3>1. j \in DOMAIN root' /\ root'[j] = u
      BY <2>1, <1>1, <1>3, <1>4, <1>7
    <3> QED BY <3>1
  <2>2. CASE ~(j < k)
    <3>1. j + 1 \in DOMAIN root' /\ ~(j + 1 < k) /\ j + 1 # k /\ (j + 1) - 1 = j
      BY <2>2, <1>1, <1>4
    <3>2. root'[j + 1] = u
      BY <3>1, <1>3, <1>4, <1>7
    <3> QED BY <3>1, <3>2
  <2> QED BY <2>1, <2>2
<1> QED BY <1>5, <1>6, <1>7 DEF Armed

LEMMA RefineInit == TimersInit => Service!ServiceInit
<1> SUFFICES ASSUME TimersInit PROVE Service!ServiceInit
  OBVIOUS
<1>1. realtime \in Nat
  BY TimersAssumption DEF TimersInit
<1>2. \A t \in Timers : ~Armed(t)
  BY DEF TimersInit, Armed
<1>3. dueOf = [t \in Timers |-> Service!NotArmed]
  BY <1>2 DEF dueOf, Service!NotArmed
<1> QED BY <1>1, <1>3 DEF TimersInit, Service!ServiceInit

(* Every step is a step of the service or leaves its variables unchanged. *)
LEMMA RefineStep ==
  TimersInv /\ [TimersNext]_timerVars => [Service!ServiceNext]_(Service!serviceVars)
<1> SUFFICES ASSUME TimersTypeOK, TimersOrdered, PassState, [TimersNext]_timerVars
             PROVE  [Service!ServiceNext]_(Service!serviceVars)
  BY DEF TimersInv
<1> USE TimersAssumption
<1>0. /\ root \in Seq(Timers) /\ DOMAIN root = 1..Len(root) /\ Len(root) \in Nat
      /\ Tree(root, next, expires)
  BY LenProperties, OrderedIsTree DEF TimersTypeOK
<1>t. \A t \in Timers : dueOf[t] = IF Armed(t) THEN expires[t] ELSE -1
  BY DEF dueOf
<1>u. \A t \in Timers : dueOf'[t] = IF Armed(t)' THEN expires'[t] ELSE -1
  BY DEF dueOf
<1>link. ASSUME NEW t \in Timers, NEW e \in Nat,
                NEW r \in Seq(Timers), NEW n, Link(t, e, r, n),
                \A u \in Timers : u # t => ((\E i \in DOMAIN r : r[i] = u) <=> Armed(u)),
                UNCHANGED <<now, realtime, tpc, firing, timeout, stopped>>
         PROVE  Service!Arm(t)
  <2>1. Armed(t)' /\ \A u \in Timers : u # t => (Armed(u)' <=> Armed(u))
    BY <1>link, LinkArmed
  <2>2. expires'[t] = e /\ \A u \in Timers : u # t => expires'[u] = expires[u]
    BY <1>link DEF Link, TimersTypeOK
  <2>3. dueOf'[t] \in Nat
    BY <2>1, <2>2, <1>u
  <2>4. \A u \in Timers : dueOf'[u] = IF u = t THEN dueOf'[t] ELSE dueOf[u]
    BY <2>1, <2>2, <1>t, <1>u
  <2>5. dueOf' = [dueOf EXCEPT ![t] = dueOf'[t]]
    BY <2>4 DEF dueOf
  <2> QED BY <2>3, <2>5, <1>link DEF Service!Arm
<1>without. ASSUME NEW t \in Timers, root' = RootWithout(t), UNCHANGED expires
            PROVE  dueOf' = [dueOf EXCEPT ![t] = Service!NotArmed]
  <2>1. ~Armed(t)'
    BY <1>without, WithoutIsTree DEF Armed
  <2>2. \A u \in Timers : u # t => (Armed(u)' <=> Armed(u))
    BY <1>without, WithoutArmed DEF Armed
  <2>3. \A u \in Timers : dueOf'[u] = IF u = t THEN -1 ELSE dueOf[u]
    BY <2>1, <2>2, <1>without, <1>t, <1>u
  <2> QED BY <2>3 DEF dueOf, Service!NotArmed
<1>same. ASSUME UNCHANGED <<root, expires>> PROVE dueOf' = dueOf
  BY <1>same DEF dueOf, Armed
<1>1. ASSUME NEW t \in Timers, NEW e \in Nat, AddTimer(t, e) PROVE Service!Arm(t)
  <2>1. \A u \in Timers : (\E i \in DOMAIN root : root[i] = u) <=> Armed(u)
    BY DEF Armed
  <2> QED BY <1>1, <2>1, <1>0, <1>link DEF AddTimer
<1>2. ASSUME NEW ms \in Nat PROVE realtime + ms * TicksPerMs \in Nat
  BY DEF TimersTypeOK
<1>3. ASSUME NEW t \in Timers, NEW ms \in Delays, AddTimeout(t, ms) PROVE Service!Arm(t)
  BY <1>1, <1>2, <1>3 DEF AddTimeout
<1>4. ASSUME NEW t \in Timers, NEW ms \in Delays, UpdateTimeout(t, ms)
      PROVE  Service!Arm(t)
  <2>1. /\ RootWithout(t) \in Seq(Timers)
        /\ \A u \in Timers : u # t =>
             ((\E i \in DOMAIN RootWithout(t) : RootWithout(t)[i] = u) <=> Armed(u))
    BY WithoutIsTree, WithoutArmed
  <2> QED BY <2>1, <1>2, <1>4, <1>link DEF UpdateTimeout
<1>5. ASSUME NEW t \in Timers, DelTimer(t) PROVE Service!Disarm(t)
  BY <1>5, <1>without DEF DelTimer, Service!Disarm
<1>6. ASSUME StopLoop PROVE Service!Stop
  BY <1>6, <1>same DEF StopLoop, Service!Stop
<1>7. ASSUME BeginRunTimers PROVE Service!ReadClock
  BY <1>7, <1>same DEF BeginRunTimers, Service!ReadClock, TimersTypeOK
<1>8. ASSUME FireTimer PROVE next \in Timers /\ Service!Start(next)
  <2>1. next \in Timers
    BY <1>8 DEF FireTimer, NextDue, TimersTypeOK
  <2>2. firing = NoTimer /\ ~stopped
    BY <1>8 DEF FireTimer, PassState
  <2>3. root # <<>> /\ 1 \in DOMAIN root /\ root[1] = next
    BY <2>1, <1>0, EmptySeq DEF Tree
  <2>4. Armed(next) /\ dueOf[next] = expires[next] /\ expires[next] \in Nat
    BY <2>1, <2>3, <1>t DEF Armed, TimersTypeOK
  <2>5. dueOf[next] # Service!NotArmed /\ dueOf[next] <= realtime
    BY <2>4, <1>8 DEF FireTimer, NextDue, Service!NotArmed
  <2>6. ASSUME NEW u \in Timers, dueOf[u] # Service!NotArmed
        PROVE  dueOf[next] <= dueOf[u]
    <3>1. Armed(u) /\ dueOf[u] = expires[u]
      BY <2>6, <1>t DEF Service!NotArmed
    <3>2. PICK j \in DOMAIN root : root[j] = u
      BY <3>1 DEF Armed
    <3>3. expires[root[1]] <= expires[root[j]]
      <4>1. CASE j = 1
        BY <4>1, <2>3, <2>4
      <4>2. CASE 1 < j
        BY <4>2, <2>3, <1>0 DEF Tree
      <4> QED BY <4>1, <4>2, <1>0
    <3> QED BY <3>1, <3>2, <3>3, <2>3, <2>4
  <2>7. dueOf' = [dueOf EXCEPT ![next] = Service!NotArmed]
    BY <2>1, <1>8, <1>without DEF FireTimer
  <2> QED
    BY <2>1, <2>2, <2>5, <2>6, <2>7, <1>8 DEF FireTimer, Service!Start
<1>9. ASSUME TimerCallbackReturns PROVE Service!Finish
  BY <1>9, <1>same DEF TimerCallbackReturns, Service!Finish, PassState
<1>10. ASSUME ReturnWait \/ ReturnIdle \/ Tick \/ UNCHANGED timerVars
       PROVE  UNCHANGED Service!serviceVars
  BY <1>10, <1>same DEF ReturnWait, ReturnIdle, Tick, timerVars, Service!serviceVars
<1> QED
  BY <1>1, <1>3, <1>4, <1>5, <1>6, <1>7, <1>8, <1>9, <1>10
  DEF TimersNext, TimerApi, RunTimersStep, Service!ServiceNext

(* Whatever the timers, delays and clock: timers fire in the order of      *)
(* expiry, never early, once per arming and never in a stopped loop.       *)
THEOREM TimersImplementService == TimersSpec => ImplementsTimerService
<1>1. TimersInit => TimersInv
  BY TimersInitInv
<1>2. TimersInv /\ [TimersNext]_timerVars => TimersInv'
  BY TimersStepInv
<1>3. TimersInit => Service!ServiceInit
  BY RefineInit
<1>4. TimersInv /\ [TimersNext]_timerVars => [Service!ServiceNext]_(Service!serviceVars)
  BY RefineStep
<1> QED
  BY <1>1, <1>2, <1>3, <1>4, PTL
  DEF TimersSpec, ImplementsTimerService, Service!ServiceSpec

(* The fields of the timers keep their types.                              *)
THEOREM TimersAreTyped == TimersSpec => []TimersTypeOK
  BY TimersStayOrdered, PTL

-----------------------------------------------------------------------------
(* Every timer is due within the milliseconds that the int holds. *)
InRange == \A t \in Timers : expires[t] - realtime < IntLimit * TicksPerMs

LEMMA ProductNat == ASSUME NEW a \in Nat, NEW b \in Nat PROVE a * b \in Nat
  OBVIOUS

(* Division of a positive number of ticks into whole milliseconds. *)
LEMMA WholeMs ==
  ASSUME NEW n \in Nat, NEW k \in Nat \ {0}
  PROVE  /\ n \div k \in Nat
         /\ k * (n \div k) <= n
         /\ \A l \in Nat : n < l * k => n \div k < l
<1>1. n \div k \in Nat /\ n % k \in Nat /\ n = k * (n \div k) + (n % k)
  BY Z3
<1>2. ASSUME NEW l \in Nat, n < l * k PROVE n \div k < l
  <2>1. CASE n \div k >= l
    <3>1. k * (n \div k) >= k * l
      BY <1>1, <2>1, Z3
    <3> QED BY <1>1, <1>2, <3>1, Z3
  <2> QED BY <1>1, <2>1
<1> QED BY <1>1, <1>2, Z3

(* A timeout that fits is converted to itself, and 0 to 1. *)
LEMMA WaitMsFits ==
  ASSUME TimersTypeOK, NEW t \in Timers, realtime < expires[t],
         expires[t] - realtime < IntLimit * TicksPerMs
  PROVE  /\ WaitMs(expires[t]) \in Nat \ {0}
         /\ realtime + WaitMs(expires[t]) * TicksPerMs < expires[t] + TicksPerMs
<1> DEFINE n == expires[t] - realtime
           q == n \div TicksPerMs
<1>0. /\ n \in Nat \ {0} /\ TicksPerMs \in Nat \ {0} /\ IntLimit \in Nat \ {0}
      /\ realtime \in Nat /\ expires[t] \in Nat /\ n < IntLimit * TicksPerMs
  BY TimersAssumption DEF TimersTypeOK
<1> HIDE DEF n
<1>1. q \in Nat /\ TicksPerMs * q <= n /\ q < IntLimit
  BY <1>0, WholeMs
<1> HIDE DEF q
<1>2. ToInt(q) = q
  <2>1. q % (2 * IntLimit) = q
    BY <1>0, <1>1
  <2> QED BY <2>1, <1>0, <1>1 DEF ToInt
<1>3. WaitMs(expires[t]) = IF q = 0 THEN 1 ELSE q
  BY <1>2 DEF WaitMs, q, n
<1>4. expires[t] = realtime + n
  BY <1>0 DEF n
<1>5. CASE q = 0
  BY <1>0, <1>3, <1>4, <1>5
<1>6. CASE q # 0
  <2>1. q * TicksPerMs = TicksPerMs * q /\ q * TicksPerMs \in Nat
    BY <1>0, <1>1
  <2> DEFINE w == q * TicksPerMs
  <2>2. w \in Nat /\ w <= n
    BY <2>1, <1>1
  <2> HIDE DEF w
  <2>3. realtime + w < expires[t] + TicksPerMs
    BY <2>2, <1>0, <1>4
  <2> QED BY <2>3, <1>1, <1>3, <1>6 DEF w
<1> QED BY <1>5, <1>6

LEMMA FirstIsEarliest ==
  ASSUME TimersInv, NEW t \in Timers, Armed(t)
  PROVE  next \in Timers /\ expires[next] <= expires[t]
<1>1. /\ root \in Seq(Timers) /\ DOMAIN root = 1..Len(root) /\ Len(root) \in Nat
      /\ expires \in [Timers -> Nat]
  BY LenProperties DEF TimersInv, TimersTypeOK
<1>2. PICK k \in 1..Len(root) : root[k] = t
  BY <1>1 DEF Armed
<1>3. root # <<>> /\ 1 \in 1..Len(root)
  BY <1>1, <1>2, EmptySeq
<1>4. next = root[1]
  BY <1>3 DEF TimersInv, TimersOrdered, NextIsLeftmost
<1>5. next \in Timers
  BY <1>1, <1>3, <1>4, ElementOfSeq
<1>6. CASE k = 1
  BY <1>1, <1>2, <1>4, <1>5, <1>6
<1>7. CASE k # 1
  <2>1. 1 < k
    BY <1>1, <1>2, <1>7
  <2> QED BY <2>1, <1>1, <1>2, <1>3, <1>4, <1>5 DEF TimersInv, TimersOrdered, RootSorted
<1> QED BY <1>5, <1>6, <1>7

(* Every wait that __run_timers returns covers all armed timers and is no  *)
(* busy poll, as long as the expiries fit the int of the timeout.          *)
THEOREM RunTimersCovers == TimersSpec /\ []InRange => ReturnsCoveringWait
<1> DEFINE Covering == tpc # "out" /\ tpc' = "out" =>
              /\ timeout' # 0
              /\ ~stopped => \A t \in Timers : Armed(t)' => WaitCovers(t)'
<1>1. ASSUME TimersInv, InRange, TimersNext, tpc # "out", tpc' = "out"
      PROVE  /\ timeout' # 0
             /\ ~stopped => \A t \in Timers : Armed(t)' => WaitCovers(t)'
  <2>1. (TimerCallbackReturns /\ stopped) \/ ReturnWait \/ ReturnIdle
    BY <1>1
    DEF TimersNext, TimerApi, AddTimer, AddTimeout, UpdateTimeout, DelTimer, StopLoop,
        RunTimersStep, BeginRunTimers, FireTimer, TimerCallbackReturns, Tick
  <2>2. CASE TimerCallbackReturns /\ stopped
    BY <2>2 DEF TimerCallbackReturns
  <2>3. CASE ReturnIdle
    <3>1. \A t \in Timers : ~Armed(t)
      BY <1>1, <2>3, FirstIsEarliest, TimersAssumption DEF ReturnIdle
    <3>2. timeout' = -1 /\ \A t \in Timers : Armed(t)' <=> Armed(t)
      BY <2>3 DEF ReturnIdle, Armed
    <3> QED BY <3>1, <3>2
  <2>4. CASE ReturnWait
    <3>1. UNCHANGED <<root, expires, realtime>> /\ timeout' = WaitMs(expires[next])
          /\ next \in Timers /\ TimersTypeOK
      BY <1>1, <2>4, TimersAssumption DEF ReturnWait, TimersInv, TimersTypeOK
    <3>2. realtime \in Nat /\ expires[next] \in Nat /\ realtime < expires[next]
      BY <2>4, <3>1 DEF ReturnWait, NextDue, TimersTypeOK
    <3>3. /\ timeout' \in Nat \ {0}
          /\ realtime + timeout' * TicksPerMs < expires[next] + TicksPerMs
      BY <1>1, <3>1, <3>2, WaitMsFits DEF InRange
    <3>4. ASSUME NEW t \in Timers, Armed(t) PROVE WaitCovers(t)'
      <4>1. /\ expires[t] \in Nat /\ TicksPerMs \in Nat /\ timeout' * TicksPerMs \in Nat
        BY <3>1, <3>3, TimersAssumption, ProductNat DEF TimersTypeOK
      <4>2. expires[next] <= expires[t]
        BY <1>1, <3>4, FirstIsEarliest
      <4> QED BY <3>1, <3>2, <3>3, <4>1, <4>2 DEF WaitCovers
    <3> QED BY <3>1, <3>3, <3>4 DEF Armed
  <2> QED BY <2>1, <2>2, <2>3, <2>4
<1>2. TimersInv /\ InRange /\ [TimersNext]_timerVars => [Covering]_timerVars
  BY <1>1
<1> QED
  BY <1>2, TimersInitInv, TimersStepInv, PTL DEF TimersSpec, ReturnsCoveringWait

(* While the wall clock is not set back, that is so for all the delays     *)
(* that fit it: an expiry is counted from a reading that is in the past.   *)
FittingDelays ==
  /\ Monotone
  /\ \A ms \in Delays : ms < IntLimit
  /\ \A e \in Instants : e < IntLimit * TicksPerMs

LEMMA ProductLess ==
  ASSUME NEW a \in Nat, NEW b \in Nat, NEW k \in Nat \ {0}, a < b
  PROVE  a * k < b * k
  BY Z3

(* The reading of the clock is never ahead of it. *)
RangeInv == TimersInv /\ realtime <= now /\ InRange

(* With such delays no timer ever expires so late that the wait for it     *)
(* would not fit the int that run_loop hands to epoll_wait.                *)
THEOREM FittingDelaysStayInRange == FittingDelays => (TimersSpec => []InRange)
<1> SUFFICES ASSUME FittingDelays PROVE TimersSpec => []InRange
  OBVIOUS
<1> DEFINE max == IntLimit * TicksPerMs
<1>0. max \in Nat /\ max > 0
  <2>1. IntLimit \in Nat \ {0} /\ TicksPerMs \in Nat \ {0} /\ 0 < IntLimit
    BY TimersAssumption
  <2>2. 0 * TicksPerMs < IntLimit * TicksPerMs
    BY <2>1, ProductLess
  <2> QED BY <2>1, <2>2, ProductNat
<1> HIDE DEF max
<1>1. TimersInit => RangeInv
  <2> SUFFICES ASSUME TimersInit PROVE RangeInv
    OBVIOUS
  <2>1. TimersInv /\ realtime = now /\ now \in Nat
    BY TimersInitInv DEF TimersInv, TimersTypeOK, TimersInit
  <2>2. ASSUME NEW t \in Timers PROVE expires[t] - realtime < max
    <3>1. expires[t] = 0
      BY DEF TimersInit
    <3> QED BY <3>1, <2>1, <1>0
  <2> QED BY <2>1, <2>2 DEF RangeInv, InRange, max
<1>2. RangeInv /\ [TimersNext]_timerVars => RangeInv'
  <2> SUFFICES ASSUME RangeInv, [TimersNext]_timerVars PROVE RangeInv'
    OBVIOUS
  <2>0. /\ now \in Nat /\ realtime \in Nat /\ expires \in [Timers -> Nat] /\ realtime <= now
        /\ \A t \in Timers : expires[t] - realtime < max
    BY DEF RangeInv, TimersInv, TimersTypeOK, InRange, max
  <2>1. TimersInv'
    BY TimersStepInv DEF RangeInv
  <2>link. ASSUME NEW t \in Timers, NEW e \in Nat, e - realtime < max,
                  expires' = [expires EXCEPT ![t] = e], UNCHANGED <<now, realtime>>
           PROVE  RangeInv'
    <3>1. \A u \in Timers : expires'[u] = e \/ expires'[u] = expires[u]
      BY <2>0, <2>link
    <3>2. \A u \in Timers : expires'[u] - realtime' < max
      BY <2>0, <2>link, <3>1
    <3> QED BY <2>0, <2>1, <2>link, <3>2 DEF RangeInv, InRange, max
  <2>same. ASSUME UNCHANGED expires, realtime' \in Nat, realtime <= realtime', realtime' <= now'
           PROVE  RangeInv'
    <3>1. \A u \in Timers : expires'[u] - realtime' < max
      BY <1>0, <2>0, <2>same
    <3> QED BY <2>0, <2>1, <2>same, <3>1 DEF RangeInv, InRange, max
  <2>2. ASSUME NEW t \in Timers, NEW e \in Instants, AddTimer(t, e) PROVE RangeInv'
    <3>1. e \in Nat /\ e < max
      BY TimersAssumption DEF FittingDelays, max
    <3>2. e - realtime < max
      BY <3>1, <1>0, <2>0
    <3> QED BY <2>2, <3>1, <3>2, <2>link DEF AddTimer, Link
  <2>3. ASSUME NEW t \in Timers, NEW ms \in Delays, AddTimeout(t, ms) \/ UpdateTimeout(t, ms)
        PROVE  RangeInv'
    <3>1. ms * TicksPerMs \in Nat /\ ms * TicksPerMs < max
      <4>1. ms \in Nat /\ ms < IntLimit /\ IntLimit \in Nat /\ TicksPerMs \in Nat \ {0}
        BY TimersAssumption DEF FittingDelays
      <4> QED BY <4>1, ProductLess, ProductNat DEF max
    <3> DEFINE d == ms * TicksPerMs
    <3>2. d \in Nat /\ d < max
      BY <3>1
    <3>3. expires' = [expires EXCEPT ![t] = realtime + d] /\ UNCHANGED <<now, realtime>>
      BY <2>3 DEF AddTimeout, UpdateTimeout, AddTimer, Link
    <3> HIDE DEF d
    <3>4. realtime + d \in Nat /\ (realtime + d) - realtime < max
      BY <3>2, <2>0, <1>0
    <3> QED BY <3>3, <3>4, <2>link
  <2>4. CASE \/ \E t \in Timers : DelTimer(t)
             \/ StopLoop \/ FireTimer \/ TimerCallbackReturns \/ ReturnWait \/ ReturnIdle
             \/ UNCHANGED timerVars
    <3>1. UNCHANGED <<expires, realtime, now>>
      BY <2>4 DEF DelTimer, StopLoop, FireTimer, TimerCallbackReturns, ReturnWait,
                  ReturnIdle, timerVars
    <3> QED BY <3>1, <2>0, <2>same
  <2>5. CASE BeginRunTimers
    BY <2>0, <2>5, <2>same DEF BeginRunTimers
  <2>6. CASE Tick
    <3>1. UNCHANGED <<expires, realtime>> /\ now' = now + 1
      BY <2>6 DEF Tick, FittingDelays
    <3> QED BY <3>1, <2>0, <2>same
  <2> QED
    BY <2>2, <2>3, <2>4, <2>5, <2>6 DEF TimersNext, TimerApi, RunTimersStep
<1>3. RangeInv => InRange
  BY DEF RangeInv
<1> QED BY <1>1, <1>2, <1>3, PTL DEF TimersSpec
-----------------------------------------------------------------------------
(* Before, in a sequence r. *)
BeforeIn(r, t, u) == \E i, j \in DOMAIN r : i < j /\ r[i] = t /\ r[j] = u

(* del_timer leaves the others in their order. *)
LEMMA WithoutOrder ==
  ASSUME TimersTypeOK, NEW m \in Timers, NEW t, NEW u, BeforeIn(RootWithout(m), t, u)
  PROVE  Before(t, u)
<1>1. root \in Seq(Timers) /\ Len(root) \in Nat /\ DOMAIN root = 1..Len(root)
  BY LenProperties DEF TimersTypeOK
<1>2. CASE ~Armed(m)
  BY <1>2 DEF RootWithout, BeforeIn, Before
<1>3. CASE Armed(m)
  <2> DEFINE k == Position(m)
             r == RootWithout(m)
             old(i) == IF i < k THEN i ELSE i + 1
  <2>1. k \in 1..Len(root)
    BY <1>1, <1>3 DEF Armed, Position
  <2>2. /\ r \in Seq(Timers) /\ Len(r) = Len(root) - 1
        /\ \A i \in 1..(Len(root) - 1) : r[i] = IF i < k THEN root[i] ELSE root[i + 1]
    BY <1>1, <1>3, <2>1, RemoveAtElements DEF RootWithout
  <2>3. DOMAIN r = 1..(Len(root) - 1)
    BY <2>2, LenProperties
  <2>4. PICK i \in DOMAIN r, j \in DOMAIN r : i < j /\ r[i] = t /\ r[j] = u
    BY DEF BeforeIn
  <2> HIDE DEF k, r
  <2>5. /\ old(i) \in DOMAIN root /\ old(j) \in DOMAIN root /\ old(i) < old(j)
        /\ root[old(i)] = r[i] /\ root[old(j)] = r[j]
    BY <1>1, <2>1, <2>2, <2>3, <2>4
  <2> QED BY <2>4, <2>5 DEF Before
<1> QED BY <1>2, <1>3

(* add_timer too, and puts its timer behind those due at the same instant. *)
LEMMA LinkOrder ==
  ASSUME NEW r \in Seq(Timers), NEW n, NEW m \in Timers, NEW e \in Nat, Link(m, e, r, n)
  PROVE  /\ \A t, u \in Timers \ {m} : Before(t, u)' => BeforeIn(r, t, u)
         /\ \A u \in Timers \ {m} : Armed(u)' /\ expires[u] <= e => Before(u, m)'
<1>1. Len(r) \in Nat /\ DOMAIN r = 1..Len(r)
  BY LenProperties
<1>2. PICK k \in 1..(Len(r) + 1) :
        /\ \A j \in DOMAIN r : j < k <=> expires[r[j]] <= e
        /\ root' = InsertAt(r, k, m)
  BY DEF Link
<1>3. /\ root' \in Seq(Timers) /\ Len(root') = Len(r) + 1
      /\ \A i \in 1..(Len(r) + 1) :
           root'[i] = IF i < k THEN r[i] ELSE IF i = k THEN m ELSE r[i - 1]
  <2>1. /\ InsertAt(r, k, m) \in Seq(Timers) /\ Len(InsertAt(r, k, m)) = Len(r) + 1
        /\ \A i \in 1..(Len(r) + 1) :
             InsertAt(r, k, m)[i] = IF i < k THEN r[i] ELSE IF i = k THEN m ELSE r[i - 1]
    BY ONLY InsertAtElements, r \in Seq(Timers), m \in Timers, k \in 1..(Len(r) + 1)
  <2> QED BY <2>1, <1>2
<1>4. DOMAIN root' = 1..(Len(r) + 1)
  BY <1>3, LenProperties
<1> DEFINE old(i) == IF i < k THEN i ELSE i - 1
<1>5. root'[k] = m /\ k \in DOMAIN root'
  BY <1>1, <1>3, <1>4
<1>6. \A i \in DOMAIN root' :
        i # k => /\ old(i) \in DOMAIN r /\ root'[i] = r[old(i)]
                 /\ (i < k <=> old(i) < k)
  BY <1>1, <1>3, <1>4
<1>7. \A i, j \in DOMAIN root' : i # k /\ j # k /\ i < j => old(i) < old(j)
  BY <1>1, <1>4
<1> HIDE DEF old
<1>8. ASSUME NEW t \in Timers \ {m}, NEW u \in Timers \ {m}, Before(t, u)'
      PROVE  BeforeIn(r, t, u)
  <2>1. PICK i \in DOMAIN root', j \in DOMAIN root' : i < j /\ root'[i] = t /\ root'[j] = u
    BY <1>8 DEF Before
  <2>2. i # k /\ j # k
    BY <2>1, <1>5
  <2> QED BY <2>1, <2>2, <1>6, <1>7 DEF BeforeIn
<1>9. ASSUME NEW u \in Timers \ {m}, Armed(u)', expires[u] <= e
      PROVE  Before(u, m)'
  <2>1. PICK i \in DOMAIN root' : root'[i] = u
    BY <1>9 DEF Armed
  <2>2. i # k
    BY <2>1, <1>5
  <2>3. old(i) \in DOMAIN r /\ r[old(i)] = u
    BY <2>1, <2>2, <1>6
  <2>4. i < k
    BY <2>2, <2>3, <1>2, <1>6, <1>9
  <2> QED BY <2>1, <2>4, <1>5 DEF Before
<1> QED BY <1>8, <1>9

(* Timers armed for the same instant fire in the order of their arming: no *)
(* operation moves another timer than its own, and it puts that one last.  *)
(* There has to be a timer to speak of.                                    *)
THEOREM TimersKeepArmingOrder == Timers # {} => (TimersSpec => ArmingOrderKept)
<1> SUFFICES ASSUME Timers # {} PROVE TimersSpec => ArmingOrderKept
  OBVIOUS
<1> DEFINE Moved(m) ==
              /\ \A t, u \in Timers \ {m} : Before(t, u)' => Before(t, u)
              /\ \A u \in Timers \ {m} :
                   Armed(m)' /\ Armed(u)' /\ expires'[u] = expires'[m] => Before(u, m)'
<1>1. ASSUME TimersInv, TimersNext PROVE \E m \in Timers : Moved(m)
  <2>0. /\ TimersTypeOK /\ TimersOrdered /\ root \in Seq(Timers) /\ Len(root) \in Nat
        /\ DOMAIN root = 1..Len(root) /\ expires \in [Timers -> Nat]
    BY <1>1, LenProperties DEF TimersInv, TimersTypeOK
  <2>i. TimersInv'
    BY <1>1, TimersStepInv
  <2>link. ASSUME NEW m \in Timers, NEW e \in Nat, NEW r \in Seq(Timers), NEW n,
                  Link(m, e, r, n),
                  \A t, u \in Timers : BeforeIn(r, t, u) => Before(t, u)
           PROVE  Moved(m)
    <3>1. /\ \A t, u \in Timers \ {m} : Before(t, u)' => BeforeIn(r, t, u)
          /\ \A u \in Timers \ {m} : Armed(u)' /\ expires[u] <= e => Before(u, m)'
      BY <2>link, LinkOrder
    <3>2. \A u \in Timers \ {m} : expires'[u] = expires[u] /\ expires'[m] = e
                                 /\ expires[u] \in Nat
      BY <2>0, <2>link DEF Link
    <3> QED BY <3>1, <3>2, <2>link
  (* A step that arms nothing: the last timer is one that ends up last.    *)
  <2>last. ASSUME \A t, u \in Timers : Before(t, u)' => Before(t, u)
           PROVE  \E m \in Timers : Moved(m)
    <3>0. root' \in Seq(Timers) /\ Len(root') \in Nat /\ DOMAIN root' = 1..Len(root')
      BY <2>i, LenProperties DEF TimersInv, TimersTypeOK
    <3>1. CASE root' = <<>>
      <4>1. \A u : ~Armed(u)'
        BY <3>1 DEF Armed
      <4> QED BY <4>1, <2>last
    <3>2. CASE root' # <<>>
      <4> DEFINE l == Len(root')
      <4>1. l \in 1..l /\ root'[l] \in Timers
        BY <3>0, <3>2, EmptySeq, ElementOfSeq
      <4> HIDE DEF l
      <4>m. PICK m \in Timers : m = root'[l]
        BY <4>1
      <4>2. ASSUME NEW u \in Timers \ {m}, Armed(u)' PROVE Before(u, m)'
        <5>1. PICK i \in 1..l : root'[i] = u
          BY <4>2, <3>0 DEF Armed, l
        <5>2. i < l
          BY <5>1, <3>0, <4>2, <4>m DEF l
        <5>3. i \in DOMAIN root' /\ l \in DOMAIN root'
          BY <5>1, <4>1, <3>0 DEF l
        <5> QED BY <5>1, <5>2, <5>3, <4>m DEF Before
      <4> QED BY <4>1, <4>2, <2>last
    <3> QED BY <3>1, <3>2
  <2>1. ASSUME NEW t \in Timers, NEW e \in Nat, AddTimer(t, e) PROVE Moved(t)
    <3>1. \A v, w \in Timers : BeforeIn(root, v, w) => Before(v, w)
      BY DEF BeforeIn, Before
    <3>2. Link(t, e, root, next)
      BY <2>1 DEF AddTimer
    <3> QED BY <3>1, <3>2, <2>0, <2>link
  <2>2. ASSUME NEW ms \in Delays PROVE realtime + ms * TicksPerMs \in Nat
    BY <2>0, TimersAssumption DEF TimersTypeOK
  <2>3. ASSUME NEW t \in Timers, NEW ms \in Delays, AddTimeout(t, ms) PROVE Moved(t)
    BY <2>1, <2>2, <2>3 DEF AddTimeout
  <2>4. ASSUME NEW t \in Timers, NEW ms \in Delays, UpdateTimeout(t, ms) PROVE Moved(t)
    <3>1. \A v, w \in Timers : BeforeIn(RootWithout(t), v, w) => Before(v, w)
      BY <2>0, WithoutOrder
    <3>2. /\ Link(t, realtime + ms * TicksPerMs, RootWithout(t), NextWithout(t))
          /\ RootWithout(t) \in Seq(Timers)
      BY <2>0, <2>4, WithoutIsTree DEF UpdateTimeout
    <3> QED BY <3>1, <3>2, <2>2, <2>link
  <2>5. ASSUME NEW t \in Timers, root' = RootWithout(t) PROVE \E m \in Timers : Moved(m)
    <3>1. \A v, w \in Timers : Before(v, w)' => BeforeIn(RootWithout(t), v, w)
      BY <2>5 DEF BeforeIn, Before
    <3> QED BY <3>1, <2>0, <2>last, WithoutOrder
  <2>6. ASSUME root' = root PROVE \E m \in Timers : Moved(m)
    BY <2>6, <2>last DEF Before
  <2>7. CASE FireTimer
    <3>1. next \in Timers /\ root' = RootWithout(next)
      BY <2>0, <2>7 DEF FireTimer, NextDue, TimersTypeOK
    <3> QED BY <3>1, <2>5
  <2>8. CASE \/ StopLoop \/ BeginRunTimers \/ TimerCallbackReturns
             \/ ReturnWait \/ ReturnIdle \/ Tick
    <3>1. root' = root
      BY <2>8 DEF StopLoop, BeginRunTimers, TimerCallbackReturns, ReturnWait, ReturnIdle, Tick
    <3> QED BY <3>1, <2>6
  <2>9. ASSUME NEW t \in Timers, DelTimer(t) PROVE \E m \in Timers : Moved(m)
    BY <2>5, <2>9 DEF DelTimer
  <2>10. \A e \in Instants : e \in Nat
    BY TimersAssumption
  <2> HIDE DEF Moved
  <2> QED
    BY <1>1, <2>1, <2>3, <2>4, <2>7, <2>8, <2>9, <2>10
    DEF TimersNext, TimerApi, RunTimersStep
<1> DEFINE Kept == \E m \in Timers : Moved(m)
<1>2. TimersInv /\ [TimersNext]_timerVars => [Kept]_timerVars
  <2> HIDE DEF Moved
  <2> QED BY <1>1
<1> QED
  BY <1>2, TimersInitInv, TimersStepInv, PTL DEF TimersSpec, ArmingOrderKept

-----------------------------------------------------------------------------
(* A descriptor handed to close_io stays in epoll until close(2). *)
ClosingWatched == \A fd \in closing : interest[fd] # {}

(* The loop's own descriptor stays registered until free_loop. *)
IlcStays == status = "ok" => Registered(IlcFd) = {"read"}

(* Only a descriptor far behind the table ends the program. *)
Ending ==
  \/ status \in {"ok", "freed"}
  \/ ~LowFds /\ status \in {"assert", "corrupt"}

(* The inductive invariant. *)
IoInv ==
  /\ IoTypeOK
  /\ EpollMirrorsTable
  /\ ActivatedCounts
  /\ TableInBounds
  /\ ClosingWatched
  /\ IlcStays
  /\ Ending

Used == {fd \in Fds : Registered(fd) # {}}

-----------------------------------------------------------------------------
(* One descriptor that enters, leaves or stays in a finite set. *)
LEMMA CountOne ==
  ASSUME NEW S, IsFiniteSet(S), NEW T, NEW x, \A y : y # x => (y \in T <=> y \in S)
  PROVE  /\ Cardinality(S) \in Nat
         /\ x \in S => Cardinality(S) >= 1
         /\ (x \in S <=> x \in T) => Cardinality(T) = Cardinality(S)
         /\ x \notin S /\ x \in T => Cardinality(T) = Cardinality(S) + 1
         /\ x \in S /\ x \notin T => Cardinality(T) = Cardinality(S) - 1
<1>1. Cardinality(S) \in Nat
  BY FS_CardinalityType
<1>2. x \in S => Cardinality(S) >= 1
  BY <1>1, FS_EmptySet
<1>3. ASSUME x \in S <=> x \in T PROVE Cardinality(T) = Cardinality(S)
  <2>1. T = S
    BY <1>3
  <2> QED BY <2>1
<1>4. ASSUME x \notin S, x \in T PROVE Cardinality(T) = Cardinality(S) + 1
  <2>1. T = S \cup {x}
    BY <1>4
  <2> QED BY <2>1, <1>4, FS_AddElement
<1>5. ASSUME x \in S, x \notin T PROVE Cardinality(T) = Cardinality(S) - 1
  <2>1. T = S \ {x}
    BY <1>5
  <2> QED BY <2>1, <1>5, FS_RemoveElement
<1> QED BY <1>1, <1>2, <1>3, <1>4, <1>5

LEMMA UsedFinite == IsFiniteSet(Used)
<1>1. Used \subseteq Fds
  BY DEF Used
<1> QED BY <1>1, IoAssumption, FS_Subset

(***************************************************************************)
(* What every operation of the table has in common: it changes the         *)
(* registrations and the interest of one descriptor.                       *)
(***************************************************************************)
OneSlot(fd) ==
  /\ \A x \in Fds \ {fd} : Registered(x)' = Registered(x) /\ interest'[x] = interest[x]
  /\ activated' = activated + (IF Registered(fd)' # {} THEN 1 ELSE 0)
                            - (IF Registered(fd) # {} THEN 1 ELSE 0)

LEMMA OneSlotCounts ==
  ASSUME IoInv, NEW fd \in Fds, OneSlot(fd)
  PROVE  activated' \in Nat /\ ActivatedCounts'
<1>1. \A y : y # fd => (y \in Used' <=> y \in Used)
  BY DEF OneSlot, Used
<1>2. activated = Cardinality(Used)
  BY DEF IoInv, ActivatedCounts, Used
<1>3. /\ fd \in Used <=> Registered(fd) # {}
      /\ fd \in Used' <=> Registered(fd)' # {}
  BY DEF Used
<1>4. /\ Cardinality(Used) \in Nat
      /\ fd \in Used => Cardinality(Used) >= 1
      /\ (fd \in Used <=> fd \in Used') => Cardinality(Used') = Cardinality(Used)
      /\ fd \notin Used /\ fd \in Used' => Cardinality(Used') = Cardinality(Used) + 1
      /\ fd \in Used /\ fd \notin Used' => Cardinality(Used') = Cardinality(Used) - 1
  BY <1>1, UsedFinite, CountOne
<1>5. activated' = activated + (IF fd \in Used' THEN 1 ELSE 0)
                             - (IF fd \in Used THEN 1 ELSE 0)
  BY <1>3 DEF OneSlot
<1>6. activated' = Cardinality(Used')
  BY <1>2, <1>4, <1>5
<1>7. activated' \in Nat
  BY <1>2, <1>4, <1>5
<1> QED BY <1>6, <1>7 DEF ActivatedCounts, Used

(* Writing one entry of the table. *)
LEMMA SlotWritten ==
  ASSUME IoTypeOK, NEW fd \in Fds, NEW dir \in Dirs, NEW io \in Ios \cup {IlcIo, NoIo},
         fdTable' = [fdTable EXCEPT ![fd][dir] = io]
  PROVE  /\ fdTable' \in [Fds -> [Dirs -> Ios \cup {IlcIo, NoIo}]]
         /\ \A x \in Fds \ {fd} : Registered(x)' = Registered(x)
         /\ Registered(fd)' = IF io = NoIo THEN Registered(fd) \ {dir}
                                           ELSE Registered(fd) \cup {dir}
<1>1. fdTable \in [Fds -> [Dirs -> Ios \cup {IlcIo, NoIo}]]
  BY DEF IoTypeOK
<1>2. fdTable' \in [Fds -> [Dirs -> Ios \cup {IlcIo, NoIo}]]
  BY <1>1
<1>3. \A x \in Fds \ {fd} : fdTable'[x] = fdTable[x]
  BY <1>1
<1>4. \A d \in Dirs : fdTable'[fd][d] = IF d = dir THEN io ELSE fdTable[fd][d]
  BY <1>1
<1> QED BY <1>2, <1>3, <1>4 DEF Registered

-----------------------------------------------------------------------------
LEMMA IoInitInv == IoInit => IoInv
<1> SUFFICES ASSUME IoInit PROVE IoInv
  OBVIOUS
<1> USE IoAssumption
<1>1. "read" \in Dirs
  BY DEF Dirs
<1>2. \A fd \in Fds : Registered(fd) = IF fd = IlcFd THEN {"read"} ELSE {}
  BY <1>1 DEF IoInit, Registered
<1>3. IoTypeOK
  <2>1. fdTable \in [Fds -> [Dirs -> Ios \cup {IlcIo, NoIo}]]
    BY DEF IoInit
  <2>2. fdSize \in Nat \ {0}
    BY DEF IoInit
  <2>3. interest \in [Fds -> SUBSET Dirs]
    BY <1>1 DEF IoInit
  <2> QED BY <2>1, <2>2, <2>3 DEF IoInit, IoTypeOK
<1>4. EpollMirrorsTable
  BY <1>2 DEF IoInit, EpollMirrorsTable
<1>5. ActivatedCounts
  <2>1. {fd \in Fds : Registered(fd) # {}} = {IlcFd}
    BY <1>2
  <2> QED BY <2>1, FS_Singleton DEF IoInit, ActivatedCounts
<1>6. TableInBounds
  BY <1>2 DEF IoInit, TableInBounds
<1>7. ClosingWatched /\ IlcStays /\ Ending
  BY <1>2 DEF IoInit, ClosingWatched, IlcStays, Ending
<1> QED BY <1>3, <1>4, <1>5, <1>6, <1>7 DEF IoInv

(* add_io in a table that has the slot. *)
LEMMA RegisterInv ==
  ASSUME IoInv, status = "ok", NEW fd \in UserFds, NEW dir \in Dirs, NEW io \in Ios,
         NEW size \in Nat \ {0}, fd < size, fdSize <= size, Register(fd, dir, io, size)
  PROVE  IoInv'
<1> USE IoAssumption
<1>0. fd \in Fds /\ fd # IlcFd /\ io # NoIo /\ io \in Ios \cup {IlcIo, NoIo}
  BY DEF UserFds
<1>t. /\ IoTypeOK /\ EpollMirrorsTable /\ TableInBounds /\ ClosingWatched /\ IlcStays
      /\ Ending
  BY DEF IoInv
<1>1. /\ fdTable' \in [Fds -> [Dirs -> Ios \cup {IlcIo, NoIo}]]
      /\ \A x \in Fds \ {fd} : Registered(x)' = Registered(x)
      /\ Registered(fd)' = Registered(fd) \cup {dir}
  BY <1>0, <1>t, SlotWritten DEF Register
<1>2. fd \in open /\ fd \notin closing
  BY <1>0, <1>t DEF Register, AddAccepted, ModAccepted, ClosingWatched, EpollMirrorsTable
<1>3. /\ interest' \in [Fds -> SUBSET Dirs]
      /\ \A x \in Fds \ {fd} : interest'[x] = interest[x]
      /\ interest'[fd] = Registered(fd)'
  BY <1>0, <1>1, <1>t DEF Register, IoTypeOK, Registered
<1>4. OneSlot(fd)
  BY <1>0, <1>1, <1>3, <1>t DEF Register, OneSlot, IoTypeOK
<1>5. activated' \in Nat /\ ActivatedCounts'
  BY <1>0, <1>4, OneSlotCounts
<1>6. IoTypeOK'
  BY <1>1, <1>3, <1>5, <1>t DEF Register, IoTypeOK
<1>7. EpollMirrorsTable'
  BY <1>1, <1>2, <1>3, <1>t DEF Register, EpollMirrorsTable
<1>8. TableInBounds'
  <2> SUFFICES ASSUME NEW x \in Fds, Registered(x)' # {} PROVE x < fdSize'
    BY DEF TableInBounds
  <2>1. CASE x = fd
    BY <2>1 DEF Register
  <2>2. CASE x # fd
    <3>1. x < fdSize
      BY <2>2, <1>1, <1>t DEF TableInBounds
    <3> QED BY <3>1, <1>t DEF Register, IoTypeOK
  <2> QED BY <2>1, <2>2
<1>9. ClosingWatched'
  BY <1>2, <1>3, <1>t DEF Register, ClosingWatched, IoTypeOK
<1>10. IlcStays' /\ Ending'
  BY <1>0, <1>1, <1>t DEF Register, IlcStays, Ending
<1> QED BY <1>5, <1>6, <1>7, <1>8, <1>9, <1>10 DEF IoInv

(* A step that may enlarge the table and changes nothing else. *)
LEMMA SizeInv ==
  ASSUME IoInv, fdSize' \in Nat \ {0}, fdSize <= fdSize',
         UNCHANGED <<fdTable, activated, interest, open, closing>>, Ending',
         status' = "ok" => status = "ok", status' \in {"ok", "freed", "abort", "assert", "corrupt"}
  PROVE  IoInv'
<1>1. \A x \in Fds : Registered(x)' = Registered(x)
  BY DEF Registered
<1>2. IoTypeOK'
  BY DEF IoInv, IoTypeOK
<1>3. EpollMirrorsTable' /\ ActivatedCounts' /\ ClosingWatched'
  BY <1>1 DEF IoInv, EpollMirrorsTable, ActivatedCounts, ClosingWatched
<1>4. IlcStays'
  BY <1>1, IoAssumption DEF IoInv, IlcStays
<1>5. TableInBounds'
  <2> SUFFICES ASSUME NEW x \in Fds, Registered(x)' # {} PROVE x < fdSize'
    BY DEF TableInBounds
  <2>1. x < fdSize /\ x \in Nat /\ fdSize \in Nat
    BY <1>1, IoAssumption DEF IoInv, TableInBounds, IoTypeOK
  <2> QED BY <2>1
<1> QED BY <1>2, <1>3, <1>4, <1>5 DEF IoInv

LEMMA AddIoInv ==
  ASSUME IoInv, NEW fd \in UserFds, NEW dir \in Dirs, NEW io \in Ios, AddIo(fd, dir, io)
  PROVE  IoInv'
<1> DEFINE size == IF fd >= fdSize THEN 2 * fdSize ELSE fdSize
<1>0. fd \in Nat /\ fdSize \in Nat \ {0} /\ status = "ok"
  BY IoAssumption DEF IoInv, IoTypeOK, AddIo, UserFds
<1>1. size \in Nat \ {0} /\ fdSize <= size
  BY <1>0
<1>2. (LowFds => fd < 2 * fdSize)
      /\ (\/ UNCHANGED ioVars
          \/ fd < size /\ Register(fd, dir, io, size)
          \/ Refuse(size)
          \/ /\ fd >= size
             /\ fdSize' = size
             /\ status' \in {"assert", "corrupt"}
             /\ UNCHANGED <<fdTable, activated, interest, open, closing>>)
  BY DEF AddIo
<1>3. fd >= size => fd >= 2 * fdSize
  BY <1>0
<1> HIDE DEF size
<1>4. CASE UNCHANGED ioVars
  BY <1>0, <1>4, SizeInv DEF ioVars, IoInv, Ending
<1>5. CASE fd < size /\ Register(fd, dir, io, size)
  BY <1>0, <1>1, <1>5, RegisterInv
<1>6. CASE Refuse(size)
  <2>1. Ending' /\ status' = "ok"
    BY <1>0, <1>6 DEF Refuse, Ending
  <2> QED BY <2>1, <1>0, <1>1, <1>6, SizeInv DEF Refuse
<1>7. CASE /\ fd >= size
           /\ fdSize' = size
           /\ status' \in {"assert", "corrupt"}
           /\ UNCHANGED <<fdTable, activated, interest, open, closing>>
  <2>1. ~LowFds
    BY <1>0, <1>2, <1>3, <1>7
  <2>2. Ending'
    BY <2>1, <1>7 DEF Ending
  <2> QED BY <2>2, <1>0, <1>1, <1>7, SizeInv
<1> QED BY <1>2, <1>4, <1>5, <1>6, <1>7

(* del_io: the kernel cannot refuse what the table says. *)
LEMMA DelIoInv ==
  ASSUME IoInv, NEW fd \in UserFds, NEW dir \in Dirs, DelIo(fd, dir)
  PROVE  IoInv'
<1> USE IoAssumption
<1>0. fd \in Fds /\ fd # IlcFd /\ NoIo \in Ios \cup {IlcIo, NoIo} /\ status = "ok"
  BY DEF UserFds, DelIo
<1>t. /\ IoTypeOK /\ EpollMirrorsTable /\ TableInBounds /\ ClosingWatched /\ IlcStays
      /\ Ending
  BY DEF IoInv
<1>a. CASE UNCHANGED ioVars
  BY <1>a, <1>t, SizeInv DEF ioVars, IoTypeOK, Ending
<1>b. CASE dir \in Registered(fd) /\ Unregister(fd, dir)
  <2>1. fd \notin closing /\ interest[fd] = Registered(fd) /\ ModAccepted(fd)
    BY <1>0, <1>b, <1>t DEF EpollMirrorsTable, ModAccepted
  <2>2. /\ interest' = [interest EXCEPT ![fd] = Registered(fd) \ {dir}]
        /\ fdTable' = [fdTable EXCEPT ![fd][dir] = NoIo]
        /\ activated' = activated - (IF Registered(fd) = {dir} THEN 1 ELSE 0)
        /\ UNCHANGED <<fdSize, open, closing, status>>
    BY <2>1, <1>b DEF Unregister
  <2>3. /\ fdTable' \in [Fds -> [Dirs -> Ios \cup {IlcIo, NoIo}]]
        /\ \A x \in Fds \ {fd} : Registered(x)' = Registered(x)
        /\ Registered(fd)' = Registered(fd) \ {dir}
    BY <2>2, <1>0, <1>t, SlotWritten
  <2>4. /\ interest' \in [Fds -> SUBSET Dirs]
        /\ \A x \in Fds \ {fd} : interest'[x] = interest[x]
        /\ interest'[fd] = Registered(fd)'
    BY <2>2, <2>3, <1>0, <1>t DEF IoTypeOK, Registered
  <2>5. OneSlot(fd)
    <3>1. Registered(fd)' # {} <=> Registered(fd) # {dir}
      BY <2>3, <1>b
    <3>2. activated \in Nat /\ Registered(fd) # {}
      BY <1>b, <1>t DEF IoTypeOK
    <3> QED BY <3>1, <3>2, <2>2, <2>3, <2>4 DEF OneSlot
  <2>6. activated' \in Nat /\ ActivatedCounts'
    BY <1>0, <2>5, OneSlotCounts
  <2>7. IoTypeOK'
    BY <2>2, <2>3, <2>4, <2>6, <1>t DEF IoTypeOK
  <2>8. EpollMirrorsTable'
    BY <2>1, <2>2, <2>3, <2>4, <1>t DEF EpollMirrorsTable
  <2>9. TableInBounds'
    BY <2>2, <2>3, <1>b, <1>t DEF TableInBounds
  <2>10. ClosingWatched'
    BY <2>1, <2>2, <2>4, <1>t DEF ClosingWatched, IoTypeOK
  <2>11. IlcStays' /\ Ending'
    BY <2>2, <2>3, <1>0, <1>t DEF IlcStays, Ending
  <2> QED BY <2>6, <2>7, <2>8, <2>9, <2>10, <2>11 DEF IoInv
<1> QED BY <1>a, <1>b DEF DelIo

LEMMA CloseIoInv ==
  ASSUME IoInv, NEW fd \in UserFds, CloseIo(fd)
  PROVE  IoInv'
<1> USE IoAssumption
<1>0. fd \in Fds /\ fd # IlcFd /\ status = "ok"
  BY DEF UserFds, CloseIo
<1>t. /\ IoTypeOK /\ EpollMirrorsTable /\ TableInBounds /\ ClosingWatched /\ IlcStays
      /\ Ending
  BY DEF IoInv
<1>a. CASE UNCHANGED ioVars
  BY <1>a, <1>t, SizeInv DEF ioVars, IoTypeOK, Ending
<1>b. CASE ~UNCHANGED ioVars
  <2>1. /\ Registered(fd) # {}
        /\ fdTable' = [fdTable EXCEPT ![fd] = [d \in Dirs |-> NoIo]]
        /\ activated' = activated - 1
        /\ closing' = closing \cup {fd}
        /\ UNCHANGED <<fdSize, interest, open, status>>
    BY <1>b DEF CloseIo
  <2>2. /\ fdTable' \in [Fds -> [Dirs -> Ios \cup {IlcIo, NoIo}]]
        /\ \A x \in Fds \ {fd} : Registered(x)' = Registered(x)
        /\ Registered(fd)' = {}
    BY <2>1, <1>0, <1>t DEF IoTypeOK, Registered
  <2>3. interest[fd] = Registered(fd)
    BY <2>1, <1>0, <1>t DEF EpollMirrorsTable
  <2>4. OneSlot(fd)
    BY <2>1, <2>2, <1>t DEF OneSlot, IoTypeOK
  <2>5. activated' \in Nat /\ ActivatedCounts'
    BY <1>0, <2>4, OneSlotCounts
  <2>6. IoTypeOK'
    BY <2>1, <2>2, <2>5, <1>0, <1>t DEF IoTypeOK
  <2>7. EpollMirrorsTable'
    BY <2>1, <2>2, <1>t DEF EpollMirrorsTable
  <2>8. TableInBounds'
    BY <2>1, <2>2, <1>t DEF TableInBounds
  <2>9. ClosingWatched'
    BY <2>1, <2>3, <1>t DEF ClosingWatched
  <2>10. IlcStays' /\ Ending'
    BY <2>1, <2>2, <1>0, <1>t DEF IlcStays, Ending
  <2> QED BY <2>5, <2>6, <2>7, <2>8, <2>9, <2>10 DEF IoInv
<1> QED BY <1>a, <1>b

LEMMA OpenCloseInv ==
  ASSUME IoInv, NEW fd \in UserFds, OpenFd(fd) \/ CloseFd(fd)
  PROVE  IoInv'
<1> USE IoAssumption
<1>0. fd \in Fds /\ fd # IlcFd
  BY DEF UserFds
<1>t. /\ IoTypeOK /\ EpollMirrorsTable /\ TableInBounds /\ ClosingWatched /\ IlcStays
      /\ Ending /\ ActivatedCounts
  BY DEF IoInv
<1>1. UNCHANGED <<fdTable, fdSize, activated, status>>
  BY DEF OpenFd, CloseFd
<1>2. \A x \in Fds : Registered(x)' = Registered(x)
  BY <1>1 DEF Registered
<1>3. ActivatedCounts' /\ TableInBounds' /\ IlcStays' /\ Ending'
  BY <1>1, <1>2, <1>t DEF ActivatedCounts, TableInBounds, IlcStays, Ending
<1>4. IoTypeOK'
  BY <1>0, <1>1, <1>t DEF IoTypeOK, OpenFd, CloseFd
<1>5. ClosingWatched'
  BY <1>0, <1>t DEF ClosingWatched, OpenFd, CloseFd, IoTypeOK
<1>6. EpollMirrorsTable'
  <2>1. CASE OpenFd(fd)
    BY <2>1, <1>2, <1>t DEF OpenFd, EpollMirrorsTable
  <2>2. CASE CloseFd(fd)
    <3>1. interest'[fd] = {} /\ \A x \in Fds \ {fd} : interest'[x] = interest[x]
      BY <2>2, <1>0, <1>t DEF CloseFd, IoTypeOK
    <3> QED BY <3>1, <2>2, <1>2, <1>t DEF CloseFd, EpollMirrorsTable
  <2> QED BY <2>1, <2>2
<1> QED BY <1>3, <1>4, <1>5, <1>6 DEF IoInv

(* free_loop finds nothing but its own descriptor, and counts one. *)
LEMMA FreeIoInv ==
  ASSUME IoInv, FreeIo
  PROVE  IoInv'
<1> USE IoAssumption
<1>t. /\ IoTypeOK /\ EpollMirrorsTable /\ TableInBounds /\ ClosingWatched /\ IlcStays
      /\ Ending
  BY DEF IoInv
<1>1. Registered(IlcFd) = {"read"} /\ "read" \in Dirs
  BY <1>t DEF FreeIo, IlcStays, Dirs
<1>2. ModAccepted(IlcFd) /\ IlcFd \notin closing
  BY <1>1, <1>t DEF EpollMirrorsTable, ModAccepted
<1>3. /\ fdTable' = [fdTable EXCEPT ![IlcFd]["read"] = NoIo]
      /\ activated' = activated - 1
      /\ interest' = [interest EXCEPT ![IlcFd] = {}]
      /\ open' = open \ {IlcFd}
      /\ status' = IF activated' = 0 THEN "freed" ELSE "assert"
      /\ UNCHANGED <<fdSize, closing>>
  BY <1>2 DEF FreeIo
<1>4. /\ fdTable' \in [Fds -> [Dirs -> Ios \cup {IlcIo, NoIo}]]
      /\ \A x \in Fds \ {IlcFd} : Registered(x)' = Registered(x)
      /\ Registered(IlcFd)' = {}
  <2>1. NoIo \in Ios \cup {IlcIo, NoIo}
    OBVIOUS
  <2>2. Registered(IlcFd)' = Registered(IlcFd) \ {"read"}
        /\ fdTable' \in [Fds -> [Dirs -> Ios \cup {IlcIo, NoIo}]]
        /\ \A x \in Fds \ {IlcFd} : Registered(x)' = Registered(x)
    BY <2>1, <1>1, <1>3, <1>t, SlotWritten
  <2> QED BY <2>2, <1>1
<1>5. /\ interest' \in [Fds -> SUBSET Dirs]
      /\ \A x \in Fds \ {IlcFd} : interest'[x] = interest[x]
      /\ interest'[IlcFd] = {}
  BY <1>3, <1>t DEF IoTypeOK
<1>6. OneSlot(IlcFd)
  BY <1>1, <1>3, <1>4, <1>5, <1>t DEF OneSlot, IoTypeOK
<1>7. activated' \in Nat /\ ActivatedCounts'
  BY <1>6, OneSlotCounts
<1>8. \A x \in Fds : Registered(x)' = {}
  BY <1>4 DEF FreeIo, UserFds
<1>9. activated' = 0
  <2>1. {x \in Fds : Registered(x)' # {}} = {}
    BY <1>8
  <2>2. activated' = Cardinality({x \in Fds : Registered(x)' # {}})
    BY <1>7 DEF ActivatedCounts
  <2> QED BY <2>1, <2>2, FS_EmptySet
<1>10. status' = "freed"
  BY <1>3, <1>9
<1>11. IoTypeOK'
  BY <1>3, <1>4, <1>5, <1>7, <1>10, <1>t DEF IoTypeOK
<1>12. EpollMirrorsTable'
  BY <1>2, <1>3, <1>4, <1>5, <1>t DEF EpollMirrorsTable
<1>13. TableInBounds'
  BY <1>8 DEF TableInBounds
<1>14. ClosingWatched' /\ IlcStays' /\ Ending'
  BY <1>2, <1>3, <1>5, <1>10, <1>t DEF ClosingWatched, IlcStays, Ending, IoTypeOK
<1> QED BY <1>7, <1>11, <1>12, <1>13, <1>14 DEF IoInv

LEMMA IoStepInv == IoInv /\ [IoNext]_ioVars => IoInv'
<1> SUFFICES ASSUME IoInv, [IoNext]_ioVars PROVE IoInv'
  OBVIOUS
<1>1. CASE IoApi
  BY <1>1, AddIoInv, DelIoInv, CloseIoInv, OpenCloseInv DEF IoApi
<1>2. CASE FreeIo
  BY <1>2, FreeIoInv
<1>3. CASE IoEnded \/ UNCHANGED ioVars
  BY <1>3, SizeInv DEF IoEnded, ioVars, IoInv, IoTypeOK, Ending
<1> QED BY <1>1, <1>2, <1>3 DEF IoNext

(* For every loop and every program that closes what it has unregistered:  *)
(* epoll watches what the table says, and the count counts it.             *)
THEOREM IoStaysConsistent ==
  IoSpec => [](IoTypeOK /\ RegistrationsAgree)
<1>1. IoInv => IoTypeOK /\ RegistrationsAgree
  BY DEF IoInv, RegistrationsAgree
<1> QED BY <1>1, IoInitInv, IoStepInv, PTL DEF IoSpec

(* The abort() of del_io and the assertions of free_loop that the table is *)
(* empty (loop.c:397-400) cannot be reached when descriptors stay below    *)
(* twice the size of the table.  The assertion that the FIFO is empty      *)
(* (loop.c:392) can, and is not part of LoopIo.                            *)
THEOREM IoNeverAborts == IoSpec => [](LowFds => NeverAborts)
<1>1. IoInv => (LowFds => NeverAborts)
  BY DEF IoInv, Ending, NeverAborts
<1> QED BY <1>1, IoInitInv, IoStepInv, PTL DEF IoSpec

-----------------------------------------------------------------------------
(* The inductive invariant. *)
IlcInv == IlcTypeOK /\ BufferBounded /\ BetweenDrains

(* A part of a sequence, position by position. *)
LEMMA Slice ==
  ASSUME NEW S, NEW s \in Seq(S), NEW a \in Nat, NEW b \in Nat,
         1 <= a, a <= b + 1, b <= Len(s)
  PROVE  /\ SubSeq(s, a, b) \in Seq(S)
         /\ Len(SubSeq(s, a, b)) = b - a + 1
         /\ \A i \in 1..(b - a + 1) : SubSeq(s, a, b)[i] = s[a + i - 1]
<1>1. Len(s) \in Nat
  BY LenProperties
<1>2. \A i \in a..b : s[i] \in S
  BY <1>1, ElementOfSeq
<1>3. /\ SubSeq(s, a, b) \in Seq(S)
      /\ Len(SubSeq(s, a, b)) = IF a <= b THEN b - a + 1 ELSE 0
      /\ \A i \in 1..(b - a + 1) : SubSeq(s, a, b)[i] = s[a + i - 1]
  BY <1>2, SubSeqProperties
<1> QED BY <1>3

(* The rest of a batch b behind position k, followed by f. *)
LEMMA RestElements ==
  ASSUME NEW S, NEW b \in Seq(S), NEW f \in Seq(S), NEW k \in 0..Len(b)
  PROVE  LET q == SubSeq(b, k + 1, Len(b)) \o f
         IN  /\ q \in Seq(S)
             /\ Len(q) = Len(b) - k + Len(f)
             /\ \A i \in 1..(Len(b) - k + Len(f)) :
                  q[i] = IF i <= Len(b) - k THEN b[k + i] ELSE f[i - (Len(b) - k)]
<1> DEFINE r == SubSeq(b, k + 1, Len(b))
<1>0. Len(b) \in Nat /\ Len(f) \in Nat /\ k \in Nat /\ k <= Len(b)
  BY LenProperties
<1>1. /\ r \in Seq(S) /\ Len(r) = Len(b) - k
      /\ \A i \in 1..(Len(b) - k) : r[i] = b[k + i]
  <2>1. /\ r \in Seq(S) /\ Len(r) = Len(b) - (k + 1) + 1
        /\ \A i \in 1..(Len(b) - (k + 1) + 1) : r[i] = b[(k + 1) + i - 1]
    BY <1>0, Slice
  <2>2. Len(b) - (k + 1) + 1 = Len(b) - k
    BY <1>0
  <2>3. ASSUME NEW i \in 1..(Len(b) - k) PROVE r[i] = b[k + i]
    <3>1. (k + 1) + i - 1 = k + i
      BY <1>0
    <3>2. r[i] = b[(k + 1) + i - 1]
      BY <2>1, <2>2
    <3> QED BY <3>1, <3>2
  <2> QED BY <2>1, <2>2, <2>3
<1> HIDE DEF r
<1>2. /\ r \o f \in Seq(S) /\ Len(r \o f) = Len(r) + Len(f)
      /\ \A i \in 1..(Len(r) + Len(f)) :
           (r \o f)[i] = IF i <= Len(r) THEN r[i] ELSE f[i - Len(r)]
  BY <1>1, ConcatProperties
<1>3. \A i \in 1..(Len(b) - k + Len(f)) :
        (r \o f)[i] = IF i <= Len(b) - k THEN b[k + i] ELSE f[i - (Len(b) - k)]
  BY <1>0, <1>1, <1>2
<1> QED BY <1>1, <1>2, <1>3 DEF r

LEMMA IlcInitInv == IlcInit => IlcInv
  BY IlcAssumption, EmptySeq DEF IlcInit, IlcInv, IlcTypeOK, BufferBounded, BetweenDrains

LEMMA IlcStepInv == IlcInv /\ [IlcNext]_ilcVars => IlcInv'
<1> SUFFICES ASSUME IlcTypeOK, BufferBounded, BetweenDrains, [IlcNext]_ilcVars
             PROVE  IlcInv'
  BY DEF IlcInv
<1> USE IlcAssumption
<1>0. Len(fifo) \in Nat /\ Len(batch) \in Nat
  BY LenProperties DEF IlcTypeOK
<1>1. ASSUME NEW m \in Ilcs, Post(m) PROVE IlcInv'
  <2>1. fifo' \in Seq(Ilcs) /\ Len(fifo') = Len(fifo) + 1
    BY <1>1, AppendProperties DEF Post, IlcTypeOK
  <2> QED
    BY <2>1, <1>0, <1>1 DEF Post, IlcInv, IlcTypeOK, BufferBounded, BetweenDrains
<1>2. ASSUME ReadBatch PROVE IlcInv'
  <2> DEFINE n == Least(Len(fifo), batchSize)
  <2>1. n \in Nat /\ 1 <= n /\ n <= Len(fifo) /\ n <= batchSize
    BY <1>0, <1>2, EmptySeq DEF ReadBatch, Least, IlcTypeOK
  <2>2. batch' = SubSeq(fifo, 1, n) /\ fifo' = SubSeq(fifo, n + 1, Len(fifo))
    BY <1>2 DEF ReadBatch
  <2> HIDE DEF n
  <2>3. batch' \in Seq(Ilcs) /\ Len(batch') = n - 1 + 1
    BY <2>1, <2>2, <1>0, Slice DEF IlcTypeOK
  <2>4. fifo' \in Seq(Ilcs) /\ Len(fifo') = Len(fifo) - (n + 1) + 1
    BY <2>1, <2>2, <1>0, Slice DEF IlcTypeOK
  <2> QED
    BY <2>1, <2>3, <2>4, <1>0, <1>2
    DEF ReadBatch, IlcInv, IlcTypeOK, BufferBounded, BetweenDrains
<1>3. ASSUME NextIlc PROVE IlcInv'
  BY <1>0, <1>3 DEF NextIlc, IlcInv, IlcTypeOK, BufferBounded, BetweenDrains
<1>4. ASSUME LastIlc PROVE IlcInv'
  <2>1. batch' \in Seq(Ilcs) /\ Len(batch') = 0 /\ current' = 0 /\ fifo' = fifo
    BY <1>4, EmptySeq DEF LastIlc
  <2>2. BufferBounded'
    <3>1. CASE batchSize' = batchSize
      BY <3>1, <2>1, <1>0 DEF IlcTypeOK, BufferBounded
    <3>2. CASE Len(batch) = batchSize /\ batchSize' = 2 * batchSize
      BY <3>2, <2>1, <1>0 DEF IlcTypeOK, BufferBounded
    <3> QED BY <3>1, <3>2, <1>4 DEF LastIlc
  <2>3. IlcTypeOK'
    BY <2>1, <1>0, <1>4 DEF LastIlc, IlcTypeOK
  <2> QED BY <2>2, <2>3, <1>4 DEF LastIlc, IlcInv, BetweenDrains
<1>5. ASSUME PostRefused \/ UNCHANGED ilcVars PROVE IlcInv'
  BY <1>5 DEF PostRefused, ilcVars, IlcInv, IlcTypeOK, BufferBounded, BetweenDrains
<1> QED BY <1>1, <1>2, <1>3, <1>4, <1>5 DEF IlcNext

-----------------------------------------------------------------------------
(* The batch never outgrows its buffer, and the buffer never outgrows      *)
(* twice the FIFO (or its first size), whatever these sizes are.           *)
THEOREM IlcBufferBounded == IlcSpec => [](IlcTypeOK /\ BufferBounded)
<1>1. IlcInit => IlcInv
  BY IlcInitInv
<1>2. IlcInv /\ [IlcNext]_ilcVars => IlcInv'
  BY IlcStepInv
<1>3. IlcInv => IlcTypeOK /\ BufferBounded
  BY DEF IlcInv
<1> QED BY <1>1, <1>2, <1>3, PTL DEF IlcSpec

(* The part of the batch that is run is the callback that runs. *)
LEMMA RunningElement ==
  ASSUME NEW S, NEW b \in Seq(S), NEW k \in 1..Len(b)
  PROVE  SubSeq(b, k, k) = <<b[k]>> /\ b[k] \in S
<1>0. Len(b) \in Nat /\ k \in Nat /\ 1 <= k /\ k <= Len(b) /\ k <= k + 1
  BY LenProperties
<1>1. SubSeq(b, k, k) \in Seq(S) /\ Len(SubSeq(b, k, k)) = k - k + 1
      /\ \A i \in 1..(k - k + 1) : SubSeq(b, k, k)[i] = b[k + i - 1]
  BY <1>0, Slice
<1>2. k - k + 1 = 1 /\ k + 1 - 1 = k /\ 1 \in 1..1
  BY <1>0
<1>3. Len(SubSeq(b, k, k)) = 1 /\ SubSeq(b, k, k)[1] = b[k]
  BY <1>1, <1>2
<1>4. b[k] \in S
  BY <1>0, ElementOfSeq
<1>5. <<b[k]>> \in Seq(S) /\ Len(<<b[k]>>) = 1 /\ <<b[k]>>[1] = b[k]
  BY <1>4
<1>6. \A i \in 1..1 : SubSeq(b, k, k)[i] = <<b[k]>>[i]
  BY <1>3, <1>5
<1>7. SubSeq(b, k, k) = <<b[k]>>
  BY <1>1, <1>3, <1>5, <1>6, SeqEqual
<1> QED BY <1>4, <1>7

(* Running the next of a sequence q: what becomes of the queue. *)
LEMMA HeadTail ==
  ASSUME NEW S, NEW q \in Seq(S), NEW r \in Seq(S), Len(q) = Len(r) + 1,
         \A i \in 1..Len(r) : r[i] = q[i + 1]
  PROVE  q # <<>> /\ Head(q) = q[1] /\ Tail(q) = r
<1>0. Len(r) \in Nat /\ Len(q) \in Nat /\ Len(q) # 0
  BY LenProperties
<1>1. q # <<>>
  BY <1>0, EmptySeq
<1>2. Head(q) = q[1]
  BY <1>1, HeadTailProperties
<1>3. Tail(q) \in Seq(S) /\ Len(Tail(q)) = Len(q) - 1
      /\ \A i \in 1..Len(Tail(q)) : Tail(q)[i] = q[i + 1]
  BY <1>1, HeadTailProperties
<1>4. Len(Tail(q)) = Len(r)
  BY <1>0, <1>3
<1>5. \A i \in 1..Len(r) : Tail(q)[i] = r[i]
  BY <1>3, <1>4
<1>6. Tail(q) = r
  BY <1>3, <1>4, <1>5, SeqEqual
<1> QED BY <1>1, <1>2, <1>6

-----------------------------------------------------------------------------
(* The queue and the callback that runs, as the channel sees them. *)
Seen == IF current = 0 THEN <<>> ELSE runningOf

LEMMA QueueElements ==
  ASSUME IlcTypeOK
  PROVE  /\ queueOf \in Seq(Ilcs)
         /\ Len(queueOf) = Len(batch) - current + Len(fifo)
         /\ \A i \in 1..(Len(batch) - current + Len(fifo)) :
              queueOf[i] = IF i <= Len(batch) - current THEN batch[current + i]
                                                       ELSE fifo[i - (Len(batch) - current)]
  BY RestElements DEF IlcTypeOK, queueOf

LEMMA SeenElement ==
  ASSUME IlcTypeOK, current # 0
  PROVE  Seen = <<batch[current]>>
<1>1. batch \in Seq(Ilcs) /\ current \in 1..Len(batch)
  BY LenProperties DEF IlcTypeOK
<1>2. runningOf = <<batch[current]>>
  BY <1>1, RunningElement DEF runningOf
<1> QED BY <1>2 DEF Seen

LEMMA IlcRefineInit == IlcInit => Channel!ChannelInit
<1> SUFFICES ASSUME IlcInit PROVE queueOf = <<>> /\ Seen = <<>>
  BY DEF Channel!ChannelInit, Seen
<1>1. IlcTypeOK /\ current = 0 /\ Len(batch) = 0 /\ Len(fifo) = 0
  BY IlcInitInv, EmptySeq DEF IlcInv, IlcInit
<1>2. queueOf \in Seq(Ilcs) /\ Len(queueOf) = 0
  BY <1>1, QueueElements
<1> QED BY <1>1, <1>2, EmptySeq DEF Seen

(* A message that is accepted joins the queue at its end. *)
LEMMA PostAccepts ==
  ASSUME IlcInv, NEW m \in Ilcs, Post(m)
  PROVE  Channel!Accept(m)
<1> DEFINE r == SubSeq(batch, current + 1, Len(batch))
<1>0. fifo \in Seq(Ilcs) /\ batch \in Seq(Ilcs) /\ current \in 0..Len(batch)
  BY DEF IlcInv, IlcTypeOK
<1>1. r \in Seq(Ilcs)
  <2>1. Len(batch) \in Nat /\ current + 1 \in Nat /\ 1 <= current + 1
        /\ current + 1 <= Len(batch) + 1 /\ Len(batch) <= Len(batch)
    BY <1>0, LenProperties
  <2> QED BY <1>0, <2>1, Slice
<1>2. fifo' = Append(fifo, m) /\ batch' = batch /\ current' = current
  BY DEF Post
<1>3. queueOf = r \o fifo /\ queueOf' = r \o Append(fifo, m)
  BY <1>2 DEF queueOf
<1>4. Seen' = Seen
  BY <1>2 DEF Seen, runningOf
<1> HIDE DEF r
<1>5. r \o Append(fifo, m) = Append(r \o fifo, m)
  BY <1>0, <1>1
<1> QED BY <1>3, <1>4, <1>5 DEF Channel!Accept, Seen

(* Reading a batch and calling its first callback is one step of the       *)
(* channel.                                                                *)
LEMMA ReadBatchRuns ==
  ASSUME IlcInv, IlcInv', ReadBatch
  PROVE  Channel!Run
<1> DEFINE n == Least(Len(fifo), batchSize)
<1> USE IlcAssumption
<1>0. /\ fifo \in Seq(Ilcs) /\ Len(fifo) \in Nat /\ current = 0 /\ batch = <<>>
      /\ Len(batch) = 0 /\ current' = 1
  BY LenProperties, EmptySeq DEF IlcInv, IlcTypeOK, BetweenDrains, ReadBatch
<1>1. n \in Nat /\ 1 <= n /\ n <= Len(fifo)
  BY <1>0, EmptySeq DEF ReadBatch, Least, IlcInv, IlcTypeOK
<1>2. batch' = SubSeq(fifo, 1, n) /\ fifo' = SubSeq(fifo, n + 1, Len(fifo))
  BY DEF ReadBatch
<1> HIDE DEF n
<1>3. Len(batch') = n /\ \A i \in 1..n : batch'[i] = fifo[i]
  <2>1. Len(batch') = n - 1 + 1 /\ \A i \in 1..(n - 1 + 1) : batch'[i] = fifo[1 + i - 1]
    BY <1>0, <1>1, <1>2, Slice
  <2>2. n - 1 + 1 = n /\ \A i \in 1..n : 1 + i - 1 = i
    BY <1>1
  <2> QED BY <2>1, <2>2
<1>4. /\ Len(fifo') = Len(fifo) - n
      /\ \A i \in 1..(Len(fifo) - n) : fifo'[i] = fifo[n + i]
  <2>1. /\ Len(fifo') = Len(fifo) - (n + 1) + 1
        /\ \A i \in 1..(Len(fifo) - (n + 1) + 1) : fifo'[i] = fifo[(n + 1) + i - 1]
    BY <1>0, <1>1, <1>2, Slice
  <2>2. Len(fifo) - (n + 1) + 1 = Len(fifo) - n
    BY <1>0, <1>1
  <2>3. \A i \in 1..(Len(fifo) - n) : (n + 1) + i - 1 = n + i
    BY <1>0, <1>1
  <2> QED BY <2>1, <2>2, <2>3
<1>5. /\ queueOf \in Seq(Ilcs) /\ Len(queueOf) = Len(fifo)
      /\ \A i \in 1..Len(fifo) : queueOf[i] = fifo[i]
  <2>1. queueOf = <<>> \o fifo
    BY <1>0, SubSeqEmpty DEF queueOf
  <2> QED BY <2>1, <1>0, ConcatEmptySeq
<1>6. /\ queueOf' \in Seq(Ilcs) /\ Len(queueOf') = n - 1 + (Len(fifo) - n)
      /\ \A i \in 1..(n - 1 + (Len(fifo) - n)) :
           queueOf'[i] = IF i <= n - 1 THEN batch'[1 + i] ELSE fifo'[i - (n - 1)]
  <2>1. batch' \in Seq(Ilcs) /\ fifo' \in Seq(Ilcs) /\ 1 \in 0..Len(batch')
    BY <1>1, <1>3 DEF IlcInv, IlcTypeOK
  <2>2. queueOf' = SubSeq(batch', 1 + 1, Len(batch')) \o fifo'
    BY <1>0 DEF queueOf
  <2> DEFINE q == SubSeq(batch', 1 + 1, Len(batch')) \o fifo'
  <2>3. /\ q \in Seq(Ilcs) /\ Len(q) = Len(batch') - 1 + Len(fifo')
        /\ \A i \in 1..(Len(batch') - 1 + Len(fifo')) :
             q[i] = IF i <= Len(batch') - 1 THEN batch'[1 + i] ELSE fifo'[i - (Len(batch') - 1)]
    BY <2>1, RestElements
  <2> HIDE DEF q
  <2>4. q = queueOf'
    BY <2>2 DEF q
  <2> QED BY <2>3, <2>4, <1>3, <1>4
<1>7. Len(queueOf') = Len(fifo) - 1
  BY <1>0, <1>1, <1>6
<1>8. ASSUME NEW i \in 1..Len(queueOf') PROVE queueOf'[i] = queueOf[i + 1]
  <2>1. i + 1 \in 1..Len(fifo) /\ i \in 1..(n - 1 + (Len(fifo) - n))
    BY <1>0, <1>1, <1>6, <1>7
  <2>2. queueOf[i + 1] = fifo[i + 1]
    BY <2>1, <1>5
  <2>3. CASE i <= n - 1
    <3>1. 1 + i \in 1..n /\ 1 + i = i + 1
      BY <2>1, <2>3, <1>1
    <3> QED BY <3>1, <2>1, <2>2, <2>3, <1>3, <1>6
  <2>4. CASE ~(i <= n - 1)
    <3>1. i - (n - 1) \in 1..(Len(fifo) - n) /\ n + (i - (n - 1)) = i + 1
      BY <2>1, <2>4, <1>0, <1>1
    <3>2. queueOf'[i] = fifo'[i - (n - 1)]
      BY <2>1, <2>4, <1>6
    <3>3. fifo'[i - (n - 1)] = fifo[n + (i - (n - 1))]
      BY <3>1, <1>4
    <3> QED BY <3>1, <3>2, <3>3, <2>2
  <2> QED BY <2>3, <2>4
<1>9. Len(queueOf) = Len(queueOf') + 1
  BY <1>0, <1>5, <1>7
<1>10. queueOf # <<>> /\ Head(queueOf) = queueOf[1] /\ Tail(queueOf) = queueOf'
  BY <1>5, <1>6, <1>8, <1>9, HeadTail
<1>11. Seen' = <<fifo[1]>>
  <2>1. runningOf' = <<batch'[1]>>
    <3>1. batch' \in Seq(Ilcs) /\ 1 \in 1..Len(batch')
      BY <1>1, <1>3 DEF IlcInv, IlcTypeOK
    <3>2. runningOf' = SubSeq(batch', 1, 1)
      BY <1>0 DEF runningOf
    <3> QED BY <3>1, <3>2, RunningElement
  <2> QED BY <2>1, <1>0, <1>1, <1>3 DEF Seen
<1>12. queueOf[1] = fifo[1]
  BY <1>0, <1>1, <1>5
<1> QED BY <1>10, <1>11, <1>12 DEF Channel!Run, Seen

(* So is going on to the next callback of the batch. *)
LEMMA NextIlcRuns ==
  ASSUME IlcInv, IlcInv', NextIlc
  PROVE  Channel!Run
<1> DEFINE l == Len(batch) - current
           f == Len(fifo)
<1>0. /\ fifo \in Seq(Ilcs) /\ batch \in Seq(Ilcs) /\ Len(fifo) \in Nat
      /\ Len(batch) \in Nat /\ current \in Nat /\ 0 < current /\ current < Len(batch)
      /\ current' = current + 1 /\ batch' = batch /\ fifo' = fifo
  BY LenProperties DEF IlcInv, IlcTypeOK, NextIlc
<1>1. /\ queueOf \in Seq(Ilcs) /\ Len(queueOf) = l + f
      /\ \A i \in 1..(l + f) : queueOf[i] = IF i <= l THEN batch[current + i] ELSE fifo[i - l]
  BY QueueElements DEF IlcInv
<1>2. /\ queueOf' \in Seq(Ilcs) /\ Len(queueOf') = Len(batch) - (current + 1) + f
      /\ \A i \in 1..(Len(batch) - (current + 1) + f) :
           queueOf'[i] = IF i <= Len(batch) - (current + 1) THEN batch[(current + 1) + i]
                         ELSE fifo[i - (Len(batch) - (current + 1))]
  <2>1. queueOf' = SubSeq(batch, (current + 1) + 1, Len(batch)) \o fifo
    BY <1>0 DEF queueOf
  <2>2. current + 1 \in 0..Len(batch)
    BY <1>0
  <2> QED BY <2>1, <2>2, <1>0, RestElements
<1>3. Len(batch) - (current + 1) = l - 1 /\ l \in Nat /\ 1 <= l /\ f \in Nat
  BY <1>0
<1> HIDE DEF l, f
<1>4. Len(queueOf) = Len(queueOf') + 1
  BY <1>1, <1>2, <1>3
<1>5. ASSUME NEW i \in 1..Len(queueOf') PROVE queueOf'[i] = queueOf[i + 1]
  <2>1. i \in 1..(l - 1 + f) /\ i + 1 \in 1..(l + f)
    BY <1>2, <1>3
  <2>2. queueOf'[i] = IF i <= l - 1 THEN batch[(current + 1) + i] ELSE fifo[i - (l - 1)]
    BY <2>1, <1>2, <1>3
  <2>3. queueOf[i + 1] = IF i + 1 <= l THEN batch[current + (i + 1)] ELSE fifo[(i + 1) - l]
    BY <2>1, <1>1
  <2>4. /\ (current + 1) + i = current + (i + 1) /\ i - (l - 1) = (i + 1) - l
        /\ (i <= l - 1 <=> i + 1 <= l)
    BY <2>1, <1>0, <1>3
  <2> QED BY <2>2, <2>3, <2>4
<1>6. queueOf # <<>> /\ Head(queueOf) = queueOf[1] /\ Tail(queueOf) = queueOf'
  BY <1>1, <1>2, <1>4, <1>5, HeadTail
<1>7. queueOf[1] = batch[current + 1]
  BY <1>1, <1>3
<1>8. Seen' = <<batch[current + 1]>>
  <2>1. runningOf' = SubSeq(batch, current + 1, current + 1)
    BY <1>0 DEF runningOf
  <2>2. current + 1 \in 1..Len(batch) /\ current + 1 # 0
    BY <1>0
  <2> QED BY <2>1, <2>2, <1>0, RunningElement DEF Seen
<1> QED BY <1>6, <1>7, <1>8 DEF Channel!Run, Seen

(* And the end of a batch is the end of its last callback. *)
LEMMA LastIlcFinishes ==
  ASSUME IlcInv, IlcInv', LastIlc
  PROVE  Channel!Finish
<1>0. /\ fifo \in Seq(Ilcs) /\ batch \in Seq(Ilcs) /\ Len(batch) \in Nat
      /\ current # 0 /\ current = Len(batch)
      /\ current' = 0 /\ batch' = <<>> /\ fifo' = fifo
  BY LenProperties DEF IlcInv, IlcTypeOK, LastIlc
<1>1. queueOf = <<>> \o fifo
  <2>1. Len(batch) + 1 \in Int /\ Len(batch) < Len(batch) + 1
    BY <1>0
  <2> QED BY <2>1, <1>0, SubSeqEmpty DEF queueOf
<1>2. queueOf' = <<>> \o fifo
  <2>1. Len(<<>>) = 0
    BY EmptySeq
  <2> QED BY <2>1, <1>0, SubSeqEmpty DEF queueOf
<1>3. Seen' = <<>> /\ Seen = <<batch[current]>>
  BY <1>0, SeenElement DEF Seen, IlcInv
<1>4. <<batch[current]>> # <<>>
  OBVIOUS
<1> QED BY <1>1, <1>2, <1>3, <1>4 DEF Channel!Finish, Seen

LEMMA IlcRefineStep ==
  ASSUME IlcInv, IlcInv', [IlcNext]_ilcVars
  PROVE  [Channel!ChannelNext]_(Channel!channelVars)
<1>1. ASSUME NEW m \in Ilcs, Post(m) PROVE Channel!ChannelNext
  BY <1>1, PostAccepts DEF Channel!ChannelNext
<1>2. CASE ReadBatch \/ NextIlc
  BY <1>2, ReadBatchRuns, NextIlcRuns DEF Channel!ChannelNext
<1>3. CASE LastIlc
  BY <1>3, LastIlcFinishes DEF Channel!ChannelNext
<1>4. CASE PostRefused \/ UNCHANGED ilcVars
  <2>1. UNCHANGED <<fifo, batch, current>>
    BY <1>4 DEF PostRefused, ilcVars
  <2> QED BY <2>1 DEF Channel!channelVars, queueOf, runningOf
<1> QED BY <1>1, <1>2, <1>3, <1>4 DEF IlcNext

(* Whatever the sizes of the FIFO and of the buffer: the messages that     *)
(* add_ilc accepted are run once each, one at a time, in their order.      *)
THEOREM IlcImplementsChannel == IlcSpec => ImplementsIlcChannel
<1>1. IlcInit => IlcInv
  BY IlcInitInv
<1>2. IlcInv /\ [IlcNext]_ilcVars => IlcInv'
  BY IlcStepInv
<1>3. IlcInit => Channel!ChannelInit
  BY IlcRefineInit
<1>4. IlcInv /\ IlcInv' /\ [IlcNext]_ilcVars
      => [Channel!ChannelNext]_(Channel!channelVars)
  BY IlcRefineStep
<1> QED
  BY <1>1, <1>2, <1>3, <1>4, PTL
  DEF IlcSpec, ImplementsIlcChannel, Channel!ChannelSpec

----------------------------------------------------------------------------
(* Where the thread may be: in __run_timers exactly at its two call sites, *)
(* and neither dispatching nor waiting in a stopped loop.                  *)
LoopControl ==
  /\ tpc # "out" <=> pc \in {"timers1", "timers2"}
  /\ pc \in {"dispatch", "wait"} => ~stopped

LoopInv == TimersInv /\ IoInv /\ IlcInv /\ LoopControl

(***************************************************************************)
(* Every step of the loop is a step of each part or leaves the part alone. *)
(***************************************************************************)
LEMMA TimersOfStep == LoopInv /\ [LoopNext]_vars => [TimersNext]_timerVars
<1> SUFFICES ASSUME LoopInv, [LoopNext]_vars PROVE [TimersNext]_timerVars
  OBVIOUS
<1>1. CASE UserTimers \/ UserStop \/ TimePasses
  BY <1>1 DEF UserTimers, UserStop, TimePasses, TimersNext
<1>2. CASE UserIo \/ PostIlc \/ RunLoop \/ FreeLoop \/ Ended
  BY <1>2 DEF UserIo, PostIlc, RunLoop, FreeLoop, Ended, vars
<1>3. CASE LoopTurns \/ RunTimers \/ EndDispatch
  BY <1>3 DEF LoopTurns, RunTimers, EndDispatch, TimersNext, RunTimersStep
<1>4. CASE LoopStops \/ SkipHalf \/ CallIo \/ IoReturns \/ CallIlc \/ BeginDrain
  BY <1>4 DEF LoopStops, SkipHalf, CallIo, IoReturns, CallIlc, BeginDrain
<1>5. CASE IlcReturns
  <2>1. tpc = "out" /\ stopped \in BOOLEAN
    BY <1>5 DEF IlcReturns, LoopInv, LoopControl, TimersInv, TimersTypeOK
  <2>2. UNCHANGED <<now, realtime, expires, root, next, tpc, firing, timeout>>
    BY <1>5 DEF IlcReturns
  <2>3. CASE batch[current] = StopIlc
    <3>1. stopped' = TRUE
      BY <1>5, <2>3, Zenon DEF IlcReturns, IlcEffect
    <3> QED BY <2>1, <2>2, <3>1 DEF StopLoop, TimerUserCode, TimersNext
  <2>4. CASE batch[current] # StopIlc
    <3>1. stopped' = stopped
      BY <1>5, <2>1, <2>4, Zenon DEF IlcReturns, IlcEffect
    <3> QED BY <2>2, <3>1 DEF timerVars
  <2> QED BY <2>3, <2>4
<1>6. CASE EpollEvents \/ EpollTimesOut
  BY <1>6 DEF EpollEvents, EpollTimesOut, EpollReports
<1>7. CASE UNCHANGED vars
  BY <1>7 DEF vars
<1> QED BY <1>1, <1>2, <1>3, <1>4, <1>5, <1>6, <1>7 DEF LoopNext, LoopStep, User

LEMMA IoOfStep == [LoopNext]_vars => [IoNext]_ioVars
<1> SUFFICES ASSUME [LoopNext]_vars PROVE [IoNext]_ioVars
  OBVIOUS
<1>1. CASE UserIo
  BY <1>1 DEF UserIo, IoNext
<1>2. CASE FreeLoop
  BY <1>2 DEF FreeLoop, IoNext
<1>3. CASE UserTimers \/ UserStop \/ TimePasses \/ PostIlc \/ RunLoop \/ Ended
  BY <1>3 DEF UserTimers, UserStop, TimePasses, PostIlc, RunLoop, Ended, vars
<1>4. CASE LoopStep
  BY <1>4 DEF LoopStep, LoopTurns, RunTimers, EndDispatch, LoopStops, SkipHalf, CallIo,
              IoReturns, CallIlc, BeginDrain, IlcReturns
<1>5. CASE EpollEvents \/ EpollTimesOut
  BY <1>5 DEF EpollEvents, EpollTimesOut, EpollReports
<1>6. CASE UNCHANGED vars
  BY <1>6 DEF vars
<1> QED BY <1>1, <1>2, <1>3, <1>4, <1>5, <1>6 DEF LoopNext, User

LEMMA IlcOfStep == [LoopNext]_vars => [IlcNext]_ilcVars
<1> SUFFICES ASSUME [LoopNext]_vars PROVE [IlcNext]_ilcVars
  OBVIOUS
<1>1. CASE PostIlc
  BY <1>1 DEF PostIlc, IlcNext
<1>2. CASE CallIlc \/ BeginDrain
  BY <1>2 DEF CallIlc, BeginDrain, IlcNext
<1>3. CASE IlcReturns
  BY <1>3 DEF IlcReturns, IlcNext
<1>4. CASE User \/ TimePasses \/ Ended
  BY <1>4 DEF User, UserTimers, UserStop, UserIo, TimePasses, RunLoop, FreeLoop, Ended, vars
<1>5. CASE LoopTurns \/ RunTimers \/ EndDispatch \/ LoopStops \/ SkipHalf \/ CallIo \/ IoReturns
  BY <1>5 DEF LoopTurns, RunTimers, EndDispatch, LoopStops, SkipHalf, CallIo, IoReturns
<1>6. CASE EpollEvents \/ EpollTimesOut
  BY <1>6 DEF EpollEvents, EpollTimesOut, EpollReports
<1>7. CASE UNCHANGED vars
  BY <1>7 DEF vars
<1> QED BY <1>1, <1>2, <1>3, <1>4, <1>5, <1>6, <1>7 DEF LoopNext, LoopStep

LEMMA ControlStep == LoopInv /\ [LoopNext]_vars => LoopControl'
<1> SUFFICES ASSUME LoopInv, [LoopNext]_vars PROVE LoopControl'
  OBVIOUS
<1>0. /\ tpc # "out" <=> pc \in {"timers1", "timers2"}
      /\ pc \in {"dispatch", "wait"} => ~stopped
      /\ stopped \in BOOLEAN /\ tpc \in {"out", "run", "callback"}
      /\ tpc = "run" => ~stopped
  BY DEF LoopInv, LoopControl, TimersInv, TimersTypeOK, PassState
<1>1. CASE UserTimers
  <2>1. UNCHANGED <<tpc, stopped, pc>>
    BY <1>1 DEF UserTimers, TimerApi, AddTimer, AddTimeout, UpdateTimeout, DelTimer, loopVars
  <2> QED BY <2>1, <1>0 DEF LoopControl
<1>2. CASE UserStop
  BY <1>0, <1>2 DEF UserStop, StopLoop, loopVars, UserCode, InTimerCallback, InIlcCallback,
                    LoopControl
<1>3. CASE UserIo \/ PostIlc \/ TimePasses \/ Ended \/ UNCHANGED vars
  <2>1. UNCHANGED <<tpc, stopped, pc>>
    BY <1>3 DEF UserIo, PostIlc, TimePasses, Tick, Ended, vars, timerVars, loopVars
  <2> QED BY <2>1, <1>0 DEF LoopControl
<1>4. CASE RunLoop \/ FreeLoop \/ LoopStops \/ CallIo \/ IoReturns \/ BeginDrain
  <2>1. UNCHANGED <<tpc, stopped>>
    BY <1>4 DEF RunLoop, FreeLoop, LoopStops, CallIo, IoReturns, BeginDrain, timerVars
  <2>2. /\ pc \notin {"timers1", "timers2"} /\ pc' \notin {"timers1", "timers2"}
        /\ pc' \in {"dispatch", "wait"} => ~stopped
    BY <1>0, <1>4 DEF RunLoop, FreeLoop, LoopStops, CallIo, IoReturns, BeginDrain, Dispatching
  <2> QED BY <2>1, <2>2, <1>0 DEF LoopControl
<1>5. CASE LoopTurns \/ EndDispatch
  BY <1>5, <1>0 DEF LoopTurns, EndDispatch, BeginRunTimers, LoopControl
<1>6. CASE RunTimers
  <2>1. pc \in {"timers1", "timers2"} /\ stopped' = stopped
        /\ tpc' \in {"out", "run", "callback"}
        /\ pc' = IF tpc' = "out" THEN AfterTimers ELSE pc
    BY <1>6 DEF RunTimers, FireTimer, TimerCallbackReturns, ReturnWait, ReturnIdle
  <2>2. CASE tpc' = "out"
    BY <2>1, <2>2, <1>0 DEF AfterTimers, LoopControl
  <2>3. CASE tpc' # "out"
    BY <2>1, <2>3, <1>0 DEF LoopControl
  <2> QED BY <2>2, <2>3
<1>7. CASE SkipHalf
  BY <1>7, <1>0 DEF SkipHalf, timerVars, LoopControl
<1>8. CASE CallIlc
  BY <1>8, <1>0 DEF CallIlc, Dispatching, timerVars, LoopControl
<1>9. CASE IlcReturns
  <2>1. pc \in {"ilc", "drain"} /\ tpc' = tpc
        /\ (pc' = pc \/ pc' = "returned" \/ pc' = IF stopped' THEN "out" ELSE "dispatch")
    BY <1>9 DEF IlcReturns
  <2> QED BY <2>1, <1>0 DEF LoopControl
<1>10. CASE EpollEvents \/ EpollTimesOut
  BY <1>10, <1>0 DEF EpollEvents, EpollTimesOut, EpollReports, timerVars, LoopControl
<1> QED
  BY <1>1, <1>2, <1>3, <1>4, <1>5, <1>6, <1>7, <1>8, <1>9, <1>10
  DEF LoopNext, LoopStep, User

LEMMA LoopInitInv == LoopInit => LoopInv
<1> SUFFICES ASSUME LoopInit PROVE LoopInv
  OBVIOUS
<1>1. TimersInv /\ IoInv /\ IlcInv
  BY TimersInitInv, IoInitInv, IlcInitInv DEF LoopInit
<1>2. LoopControl
  BY DEF LoopInit, TimersInit, LoopControl
<1> QED BY <1>1, <1>2 DEF LoopInv

LEMMA LoopStepInv == LoopInv /\ [LoopNext]_vars => LoopInv'
  BY TimersOfStep, IoOfStep, IlcOfStep, ControlStep, TimersStepInv, IoStepInv, IlcStepInv
  DEF LoopInv

-----------------------------------------------------------------------------
(* In a running loop, with user code in every callback and messages from   *)
(* other threads, the parts behave as they do alone.                       *)
THEOREM LoopRunsParts == LoopSpec => TimersSpec /\ IoSpec /\ IlcSpec
<1>1. LoopInit => TimersInit /\ IoInit /\ IlcInit
  BY DEF LoopInit
<1> QED
  BY <1>1, LoopInitInv, LoopStepInv, TimersOfStep, IoOfStep, IlcOfStep, PTL
  DEF LoopSpec, TimersSpec, IoSpec, IlcSpec

(* So a loop is a timer service: its timers fire in order, not early and   *)
(* once per arming.                                                        *)
THEOREM LoopIsTimerService == LoopSpec => ImplementsTimerService
  BY LoopRunsParts, TimersImplementService, PTL

(* Its messages go through one queue: each runs once and in order.         *)
THEOREM LoopIsChannel == LoopSpec => ImplementsIlcChannel
  BY LoopRunsParts, IlcImplementsChannel, PTL

(* Once the loop is stopped no timer and no io callback starts.            *)
THEOREM LoopStartsNothingStopped == LoopSpec => NothingStartsStopped
<1> DEFINE Quiet == stopped =>
              /\ pc' \in {"write_cb", "read_cb"} => pc' = pc
              /\ firing' # NoTimer => firing' = firing
<1>1. ASSUME LoopInv, LoopNext, stopped PROVE Quiet
  <2>0. tpc # "run" /\ pc \notin {"dispatch", "wait"}
    BY <1>1 DEF LoopInv, LoopControl, TimersInv, PassState
  <2>1. pc' \in {"write_cb", "read_cb"} => pc' = pc
    <3>1. CASE UserTimers \/ UserStop \/ UserIo \/ PostIlc \/ TimePasses \/ Ended
      BY <3>1 DEF UserTimers, UserStop, UserIo, PostIlc, TimePasses, Ended, vars, loopVars
    <3>2. CASE RunLoop \/ FreeLoop \/ LoopStops \/ LoopTurns \/ EndDispatch \/ BeginDrain
      BY <3>2 DEF RunLoop, FreeLoop, LoopStops, LoopTurns, EndDispatch, BeginDrain
    <3>3. CASE RunTimers
      BY <3>3 DEF RunTimers, AfterTimers
    <3>4. CASE SkipHalf \/ CallIo \/ IoReturns \/ CallIlc
      BY <3>4, <2>0 DEF SkipHalf, CallIo, IoReturns, CallIlc, Dispatching
    <3>5. CASE IlcReturns
      BY <3>5 DEF IlcReturns
    <3>6. CASE EpollEvents \/ EpollTimesOut
      BY <3>6 DEF EpollEvents, EpollTimesOut, EpollReports
    <3> QED BY <1>1, <3>1, <3>2, <3>3, <3>4, <3>5, <3>6 DEF LoopNext, LoopStep, User
  <2>2. firing' # NoTimer => firing' = firing
    <3>1. [TimersNext]_timerVars
      BY <1>1, TimersOfStep
    <3> QED
      BY <3>1, <2>0
      DEF TimersNext, timerVars, TimerApi, AddTimer, AddTimeout, UpdateTimeout, DelTimer,
          StopLoop, RunTimersStep, BeginRunTimers, FireTimer, TimerCallbackReturns,
          ReturnWait, ReturnIdle, Tick
  <2> QED BY <2>1, <2>2
<1>2. LoopInv /\ [LoopNext]_vars => [Quiet]_vars
  BY <1>1
<1> QED
  BY <1>2, LoopInitInv, LoopStepInv, PTL DEF LoopSpec, NothingStartsStopped

-----------------------------------------------------------------------------
(* epoll_wait never sleeps past a timer, whatever the callbacks of the     *)
(* turn have armed, as long as the delays fit the int of the timeout.      *)
THEOREM LoopNeverOversleeps == LoopSpec => [](InRange => WaitIsCovered)
<1> DEFINE Covered == InRange => WaitIsCovered
<1>1. LoopInit => Covered
  BY DEF LoopInit, WaitIsCovered
<1>2. ASSUME LoopInv, LoopInv', Covered, [LoopNext]_vars, InRange', pc' = "wait"
      PROVE  WaitIsCovered'
  <2>1. ~stopped'
    BY <1>2 DEF LoopInv, LoopControl
  <2>2. CASE UNCHANGED <<root, expires, realtime, timeout, stopped, pc>>
    BY <1>2, <2>2 DEF InRange, WaitIsCovered, Armed, WaitCovers
  <2>3. CASE RunTimers
    <3>1. UNCHANGED <<root, expires, realtime, next>> /\ tpc' = "out"
      BY <1>2, <2>3
      DEF RunTimers, AfterTimers, FireTimer, TimerCallbackReturns, ReturnWait, ReturnIdle
    <3>2. ReturnWait \/ ReturnIdle
      BY <2>1, <2>3, <3>1 DEF RunTimers, FireTimer, TimerCallbackReturns
    <3> SUFFICES ASSUME NEW t \in Timers, Armed(t) PROVE WaitCovers(t)'
      BY <2>1, <3>1 DEF WaitIsCovered, Armed
    <3>3. TimersInv /\ TimersTypeOK
      BY <1>2 DEF LoopInv, TimersInv
    <3>4. next \in Timers /\ expires[next] <= expires[t]
      BY <3>3, FirstIsEarliest
    <3>5. timeout' = WaitMs(expires[next]) /\ realtime < expires[next]
      <4>1. ReturnWait
        BY <3>2, <3>4, TimersAssumption DEF ReturnIdle
      <4>2. realtime \in Nat /\ expires[next] \in Nat
        BY <3>3, <3>4 DEF TimersTypeOK
      <4> QED BY <4>1, <4>2 DEF ReturnWait, NextDue
    <3>6. expires[next] - realtime < IntLimit * TicksPerMs
      BY <1>2, <3>1, <3>4 DEF InRange
    <3>7. /\ timeout' \in Nat \ {0}
          /\ realtime + timeout' * TicksPerMs < expires[next] + TicksPerMs
      BY <3>3, <3>4, <3>5, <3>6, WaitMsFits
    <3>8. realtime + timeout' * TicksPerMs < expires[t] + TicksPerMs
      <4>1. /\ expires[t] \in Nat /\ expires[next] \in Nat /\ realtime \in Nat
            /\ TicksPerMs \in Nat
        BY <3>3, <3>4, TimersAssumption DEF TimersTypeOK
      <4>2. timeout' * TicksPerMs \in Nat
        BY <3>7, <4>1, ProductNat
      <4> QED BY <3>4, <3>7, <4>1, <4>2
    <3> QED BY <3>1, <3>7, <3>8 DEF WaitCovers
  <2>4. CASE UserTimers \/ UserStop \/ UserIo \/ RunLoop \/ FreeLoop
    BY <1>2, <2>4
    DEF UserTimers, UserStop, UserIo, RunLoop, FreeLoop, UserCode, InTimerCallback,
        InIlcCallback, loopVars
  <2>5. CASE PostIlc \/ TimePasses \/ Ended \/ UNCHANGED vars
    <3>1. UNCHANGED <<root, expires, realtime, timeout, stopped, pc>>
      BY <2>5 DEF PostIlc, TimePasses, Tick, Ended, vars, timerVars, loopVars
    <3> QED BY <3>1, <2>2
  <2>6. CASE LoopStops \/ LoopTurns \/ CallIo \/ IoReturns \/ EndDispatch \/ BeginDrain
             \/ EpollEvents \/ EpollTimesOut
    BY <1>2, <2>6
    DEF LoopStops, LoopTurns, CallIo, IoReturns, EndDispatch, BeginDrain, EpollEvents,
        EpollTimesOut, EpollReports
  <2>7. CASE SkipHalf \/ CallIlc \/ IlcReturns
    BY <1>2, <2>7 DEF SkipHalf, CallIlc, IlcReturns, Dispatching
  <2> QED BY <1>2, <2>3, <2>4, <2>5, <2>6, <2>7 DEF LoopNext, LoopStep, User
<1>3. LoopInv /\ LoopInv' /\ Covered /\ [LoopNext]_vars => Covered'
  <2>1. pc' # "wait" => WaitIsCovered'
    BY DEF WaitIsCovered
  <2> QED BY <2>1, <1>2
<1> QED BY <1>1, <1>3, LoopInitInv, LoopStepInv, PTL DEF LoopSpec

-----------------------------------------------------------------------------
(* The events of a batch: a part of every state in which one is dispatched *)
(* and none is left when the next epoll_wait is near.                      *)
Event == [fd : Fds, events : (SUBSET {"in", "out", "err"}) \ {{}}]

EventInv ==
  /\ LoopTypeOK
  /\ EventsBounded
  /\ eev \in Seq(Event) /\ Len(eev) <= Cardinality(Fds)
  /\ pc \in {"write_cb", "read_cb", "ilc"} => at <= Len(eev)
  /\ pc \in {"timers2", "wait"} => eev = <<>>

LEMMA CardinalityFds == Cardinality(Fds) \in Nat
  BY IoAssumption, FS_CardinalityType

(* What epoll_wait returns is a batch of events. *)
LEMMA ReportsBatch ==
  ASSUME NEW fds \in SUBSET {fd \in Fds : Ready(fd) # {}}, EpollReports(fds)
  PROVE  /\ eev' \in Seq(Event)
         /\ Len(eev') = Cardinality(fds)
         /\ Cardinality(fds) <= Cardinality(Fds)
<1>1. Cardinality(fds) \in Nat /\ Cardinality(fds) <= Cardinality(Fds)
  BY IoAssumption, FS_Subset, FS_CardinalityType
<1>2. PICK events \in [fds -> UNION {Ready(fd) : fd \in fds}], q \in SetToSeqs(fds) :
        /\ \A fd \in fds : events[fd] \in Ready(fd)
        /\ eev' = Returned(q, events)
  BY DEF EpollReports
<1>3. q \in [1..Cardinality(fds) -> fds]
  BY <1>2 DEF SetToSeqs
<1>4. \A fd \in fds : events[fd] \in (SUBSET {"in", "out", "err"}) \ {{}}
  <2> SUFFICES ASSUME NEW fd \in fds
               PROVE  events[fd] \in (SUBSET {"in", "out", "err"}) \ {{}}
    OBVIOUS
  <2>1. events[fd] \in Ready(fd)
    BY <1>2
  <2>2. CASE interest[fd] = {}
    BY <2>1, <2>2 DEF Ready
  <2>3. CASE interest[fd] # {} /\ fd = IlcFd
    BY <2>1, <2>3 DEF Ready
  <2>4. CASE interest[fd] # {} /\ fd # IlcFd
    BY <2>1, <2>4 DEF Ready
  <2> QED BY <2>2, <2>3, <2>4
<1>5. \A k \in 1..Cardinality(fds) : [fd |-> q[k], events |-> events[q[k]]] \in Event
  BY <1>3, <1>4 DEF Event
<1>6. eev' = [k \in 1..Cardinality(fds) |-> [fd |-> q[k], events |-> events[q[k]]]]
  BY <1>2, <1>3 DEF Returned
<1>7. eev' \in [1..Cardinality(fds) -> Event]
  BY <1>5, <1>6
<1>8. eev' \in Seq(Event)
  BY <1>1, <1>7, SeqDef
<1>9. Len(eev') = Cardinality(fds)
  BY <1>1, <1>7, <1>8, LenProperties
<1> QED BY <1>1, <1>8, <1>9

LEMMA EventInit == LoopInit => EventInv
<1> SUFFICES ASSUME LoopInit PROVE EventInv
  OBVIOUS
<1>1. eev = <<>> /\ eev \in Seq(Event) /\ Len(eev) = 0 /\ DOMAIN eev = {}
  BY EmptySeq DEF LoopInit
<1>2. EventsBounded /\ eevSize \in Nat \ {0}
  BY <1>1, LoopAssumption DEF LoopInit, EventsBounded
<1>3. LoopTypeOK
  BY <1>1, <1>2 DEF LoopInit, LoopTypeOK
<1> QED BY <1>1, <1>2, <1>3, CardinalityFds DEF LoopInit, EventInv

LEMMA EventStep == EventInv /\ [LoopNext]_vars => EventInv'
<1> SUFFICES ASSUME EventInv, [LoopNext]_vars PROVE EventInv'
  OBVIOUS
<1> DEFINE PCs == {"idle", "while", "timers1", "dispatch", "write_cb", "read_cb", "ilc",
                   "timers2", "wait", "out", "drain", "returned", "freed", "asserted"}
<1>0. /\ pc \in PCs
      /\ eev \in Seq(Event) /\ Len(eev) \in Nat /\ Len(eev) <= Cardinality(Fds)
      /\ Cardinality(Fds) \in Nat
      /\ eevSize \in Nat \ {0} /\ Len(eev) <= eevSize
      /\ eevSize <= 2 * Cardinality(Fds) \/ eevSize = InitEvents
      /\ at \in 1..(Len(eev) + 1) /\ stage \in {"write", "read"}
      /\ pc \in {"write_cb", "read_cb", "ilc"} => at <= Len(eev)
      /\ pc \in {"timers2", "wait"} => eev = <<>>
  BY LenProperties, CardinalityFds DEF EventInv, LoopTypeOK, EventsBounded
<1>put. ASSUME /\ pc' \in PCs
               /\ eev' \in Seq(Event) /\ Len(eev') <= Cardinality(Fds)
               /\ eevSize' \in Nat \ {0} /\ Len(eev') <= eevSize'
               /\ eevSize' <= 2 * Cardinality(Fds) \/ eevSize' = InitEvents
               /\ at' \in 1..(Len(eev') + 1) /\ stage' \in {"write", "read"}
               /\ pc' \in {"write_cb", "read_cb", "ilc"} => at' <= Len(eev')
               /\ pc' \in {"timers2", "wait"} => eev' = <<>>
        PROVE  EventInv'
  <2>1. \A k \in DOMAIN eev' :
          eev'[k].fd \in Fds /\ eev'[k].events \in (SUBSET {"in", "out", "err"}) \ {{}}
    <3> SUFFICES ASSUME NEW k \in DOMAIN eev'
                 PROVE  /\ eev'[k].fd \in Fds
                        /\ eev'[k].events \in (SUBSET {"in", "out", "err"}) \ {{}}
      OBVIOUS
    <3>1. eev'[k] \in Event
      BY <1>put, LenProperties, ElementOfSeq
    <3> QED BY <3>1 DEF Event
  <2> QED BY <2>1, <1>put DEF EventInv, LoopTypeOK, EventsBounded
<1>empty. <<>> \in Seq(Event) /\ Len(<<>>) = 0
  BY EmptySeq
<1>adv. ASSUME Advance, at <= Len(eev)
        PROVE  at' \in 1..(Len(eev) + 1) /\ stage' \in {"write", "read"}
  BY <1>adv, <1>0 DEF Advance
<1>1. CASE UNCHANGED loopVars
  BY <1>1, <1>0, <1>put DEF loopVars
<1>2. CASE UserTimers \/ UserStop \/ UserIo \/ PostIlc \/ TimePasses \/ Ended \/ UNCHANGED vars
  <2>1. UNCHANGED loopVars
    BY <1>2 DEF UserTimers, UserStop, UserIo, PostIlc, TimePasses, Ended, vars
  <2> QED BY <2>1, <1>1
<1>3. CASE RunLoop \/ FreeLoop \/ LoopStops \/ LoopTurns
  BY <1>3, <1>0, <1>put DEF RunLoop, FreeLoop, LoopStops, LoopTurns
<1>4. CASE RunTimers
  BY <1>4, <1>0, <1>put DEF RunTimers, AfterTimers
<1>5. CASE SkipHalf
  BY <1>5, <1>0, <1>put, <1>adv DEF SkipHalf, Dispatching
<1>6. CASE CallIo
  BY <1>6, <1>0, <1>put DEF CallIo, Dispatching
<1>7. CASE IoReturns
  BY <1>7, <1>0, <1>put, <1>adv DEF IoReturns
<1>8. CASE CallIlc
  BY <1>8, <1>0, <1>put, <1>adv DEF CallIlc, Dispatching
<1>9. CASE IlcReturns
  BY <1>9, <1>0, <1>put, <1>adv DEF IlcReturns
<1>10. CASE EndDispatch
  <2>1. eevSize' \in Nat \ {0}
        /\ (eevSize' <= 2 * Cardinality(Fds) \/ eevSize' = InitEvents)
    BY <1>10, <1>0 DEF EndDispatch
  <2>2. eev' = <<>> /\ at' = 1 /\ stage' = "write" /\ pc' = "timers2"
    BY <1>10 DEF EndDispatch
  <2> QED BY <2>1, <2>2, <1>0, <1>put, <1>empty
<1>11. CASE BeginDrain
  <2>1. /\ eev' = <<>> /\ at' = 1 /\ stage' = "write" /\ eevSize' = eevSize
        /\ pc' \in {"returned", "drain"}
    BY <1>11 DEF BeginDrain
  <2> QED BY <2>1, <1>0, <1>put, <1>empty
<1>12. ASSUME NEW fds \in SUBSET {fd \in Fds : Ready(fd) # {}}, EpollReports(fds),
              Cardinality(fds) <= eevSize
       PROVE  EventInv'
  <2>1. /\ eev' \in Seq(Event) /\ Len(eev') = Cardinality(fds)
        /\ Cardinality(fds) <= Cardinality(Fds)
    BY <1>12, ReportsBatch
  <2>2. Len(eev') \in Nat
    BY <2>1, LenProperties
  <2>3. pc' = "while" /\ at' = at /\ stage' = stage /\ eevSize' = eevSize /\ at = 1
    BY <1>12, <1>0, <1>empty DEF EpollReports
  <2> QED BY <2>1, <2>2, <2>3, <1>0, <1>12, <1>put
<1>13. CASE EpollEvents
  BY <1>12, <1>13 DEF EpollEvents
<1>14. CASE EpollTimesOut
  <2>1. Cardinality({}) <= eevSize
    BY <1>0, FS_EmptySet
  <2> QED BY <2>1, <1>12, <1>14 DEF EpollTimesOut
<1> QED
  BY <1>2, <1>3, <1>4, <1>5, <1>6, <1>7, <1>8, <1>9, <1>10, <1>11, <1>13, <1>14
  DEF LoopNext, LoopStep, User

(* The event buffer holds every batch and its doubling ends.               *)
THEOREM LoopEventsBounded == LoopSpec => [](LoopTypeOK /\ EventsBounded)
<1>1. EventInv => LoopTypeOK /\ EventsBounded
  BY DEF EventInv
<1> QED BY <1>1, EventInit, EventStep, PTL DEF LoopSpec

(* An io is called only for a direction in which its descriptor is open,   *)
(* registered and watched at that time, however old the event is.          *)
THEOREM LoopCallsWatched == LoopSpec => CallsWatched
<1> DEFINE Watched == pc' \in {"write_cb", "read_cb"} /\ pc' # pc =>
              LET fd == eev[at].fd
              IN  stage \in interest[fd] /\ fd \in open \ closing
<1>1. ASSUME LoopInv, EventInv, LoopNext, pc' \in {"write_cb", "read_cb"}, pc' # pc
      PROVE  stage \in interest[eev[at].fd] /\ eev[at].fd \in open \ closing
  <2>1. CallIo
    <3>1. ~(UserTimers \/ UserStop \/ UserIo \/ PostIlc \/ TimePasses \/ Ended)
      BY <1>1 DEF UserTimers, UserStop, UserIo, PostIlc, TimePasses, Ended, vars, loopVars
    <3>2. ~(RunLoop \/ FreeLoop \/ LoopStops \/ LoopTurns \/ EndDispatch \/ BeginDrain)
      BY <1>1 DEF RunLoop, FreeLoop, LoopStops, LoopTurns, EndDispatch, BeginDrain
    <3>3. ~(RunTimers \/ SkipHalf \/ IoReturns \/ CallIlc \/ IlcReturns)
      BY <1>1 DEF RunTimers, AfterTimers, SkipHalf, IoReturns, CallIlc, IlcReturns
    <3>4. ~(EpollEvents \/ EpollTimesOut)
      BY <1>1 DEF EpollEvents, EpollTimesOut, EpollReports
    <3> QED BY <1>1, <3>1, <3>2, <3>3, <3>4 DEF LoopNext, LoopStep, User
  <2>2. at \in DOMAIN eev
    <3>1. eev \in Seq(Event) /\ at \in 1..(Len(eev) + 1) /\ at <= Len(eev)
      BY <1>1, <2>1 DEF EventInv, LoopTypeOK, CallIo, Dispatching
    <3> QED BY <3>1, LenProperties
  <2> DEFINE fd == eev[at].fd
  <2>3. fd \in Fds /\ stage \in Dirs
    BY <1>1, <2>2 DEF EventInv, LoopTypeOK, Dirs
  <2>4. stage \in Registered(fd)
    BY <2>1, <2>3 DEF CallIo, Calls, Registered
  <2> HIDE DEF fd
  <2>5. fd \notin closing /\ interest[fd] = Registered(fd) /\ fd \in open
    BY <1>1, <2>3, <2>4 DEF LoopInv, IoInv, EpollMirrorsTable
  <2> QED BY <2>4, <2>5 DEF fd
<1>2. LoopInv /\ EventInv /\ [LoopNext]_vars => [Watched]_vars
  BY <1>1
<1> QED
  BY <1>2, LoopInitInv, LoopStepInv, EventInit, EventStep, PTL DEF LoopSpec, CallsWatched

(* Every variable of the loop and of its parts keeps its type.             *)
THEOREM LoopIsTyped == LoopSpec => []AllTypesOK
<1>1. LoopInv /\ EventInv => AllTypesOK
  BY DEF LoopInv, EventInv, TimersInv, IoInv, IlcInv, AllTypesOK
<1> QED
  BY <1>1, LoopInitInv, LoopStepInv, EventInit, EventStep, PTL DEF LoopSpec

(* With delays that fit the int of the timeout, and a wall clock that is   *)
(* not set back, epoll_wait never sleeps past a timer.                     *)
THEOREM LoopWakesInTime == FittingDelays => (LoopSpec => []WaitIsCovered)
<1> SUFFICES ASSUME FittingDelays PROVE LoopSpec => []WaitIsCovered
  OBVIOUS
<1>1. TimersSpec => []InRange
  BY FittingDelaysStayInRange
<1> QED BY <1>1, LoopRunsParts, LoopNeverOversleeps, PTL
=============================================================================
