----------------------------- MODULE LoopTimers -----------------------------
(***************************************************************************)
(* The timers of an event loop (src/src/loop.c, src/include/ls/loop.h).    *)
(*                                                                         *)
(* A loop keeps its armed timers in a red-black tree ordered by expiry and *)
(* caches the leftmost one in loop->next, so that __run_timers never walks *)
(* the tree.  The tree is abstracted to its in-order sequence `root'; the  *)
(* rebalancing of rb_insert_color and rb_erase does not change it.         *)
(*                                                                         *)
(* __run_timers samples the wall clock once into loop->realtime, fires due *)
(* timers one by one, and returns how long epoll_wait may sleep.  The user *)
(* calls the timer functions from inside a timer callback, or while        *)
(* __run_timers is not running.                                            *)
(***************************************************************************)
EXTENDS Integers, Sequences, SequencesExt

CONSTANTS
  Timers,       \* the struct timer objects the program owns
  NoTimer,      \* the NULL of loop->next
  MaxTime,      \* bound on the wall clock, in ticks (microseconds in the code)
  Delays,       \* the timeouts, in ms, that callers pass to add_timeout
  Instants,     \* the absolute expiries that callers put in timer->expires
  TicksPerMs,   \* clock ticks per millisecond (1000 in the code)
  IntLimit,     \* INT_MAX + 1, for the int that carries a timeout
  Monotone      \* FALSE: the wall clock may be set back (gettimeofday)

ASSUME TimersAssumption ==
  /\ NoTimer \notin Timers
  /\ MaxTime \in Nat
  /\ Delays \subseteq Nat
  /\ Instants \subseteq Nat
  /\ TicksPerMs \in Nat \ {0}
  /\ IntLimit \in Nat \ {0}
  /\ Monotone \in BOOLEAN

VARIABLES
  now,       \* the wall clock, which gettimeofday reads
  realtime,  \* loop->realtime, the last reading of it
  expires,   \* expires[t]: timer->expires
  root,      \* in-order sequence of loop->root
  next,      \* loop->next
  tpc,       \* where __run_timers is: "out" (not running), "run", "callback"
  firing,    \* the local `timer' of __run_timers while its callback runs
  timeout,   \* the last value __run_timers returned
  stopped    \* loop->stopped

timerVars == <<now, realtime, expires, root, next, tpc, firing, timeout, stopped>>

-----------------------------------------------------------------------------
(* !RB_EMPTY_NODE(&timer->node) *)
Armed(t) == \E k \in DOMAIN root : root[k] = t

Position(t) == CHOOSE k \in DOMAIN root : root[k] = t

(* rb_next(&timer->node), for an armed timer *)
Successor(t) == IF Position(t) < Len(root) THEN root[Position(t) + 1] ELSE NoTimer

(* The tree and the cached timer after del_timer(t). *)
RootWithout(t) == IF Armed(t) THEN RemoveAt(root, Position(t)) ELSE root

(* Mutant: del_timer forgets that another timer may follow. *)
NextWithoutLost(t) == IF Armed(t) /\ next = t THEN NoTimer ELSE next

(* Mutant: del_timer leaves the cached timer alone. *)
NextWithoutStale(t) == next

NextWithout(t) == IF Armed(t) /\ next = t THEN Successor(t) ELSE next

(* Mutant: the search goes left at a node that expires at the same time. *)
LinkBeforeEqual(t, e, r, n) ==
  /\ \E k \in 1..(Len(r) + 1) :
       /\ \A j \in DOMAIN r : j < k <=> expires[r[j]] < e
       /\ root' = InsertAt(r, k, t)
  /\ expires' = [expires EXCEPT ![t] = e]
  /\ next' = IF n = NoTimer \/ e < expires[n] THEN t ELSE n

(* The body of add_timer on a tree r whose leftmost timer is n: the search  *)
(* goes left only at a node that expires strictly later.                    *)
Link(t, e, r, n) ==
  /\ \E k \in 1..(Len(r) + 1) :
       /\ \A j \in DOMAIN r : j < k <=> expires[r[j]] <= e
       /\ root' = InsertAt(r, k, t)
  /\ expires' = [expires EXCEPT ![t] = e]
  /\ next' = IF n = NoTimer \/ e < expires[n] THEN t ELSE n

(* The code runs user code: no __run_timers, or one that is in a callback. *)
TimerUserCode == tpc \in {"out", "callback"}

(* add_timer asserts that the timer is not armed: callers keep to that. *)
AddTimer(t, e) ==
  /\ TimerUserCode
  /\ ~Armed(t)
  /\ Link(t, e, root, next)
  /\ UNCHANGED <<now, realtime, tpc, firing, timeout, stopped>>

(* Mutant: timersub for timeradd. *)
AddTimeoutSubtracts(t, ms) == AddTimer(t, ms * TicksPerMs - realtime)

(* The expiry is counted from the last reading of the clock. *)
AddTimeout(t, ms) == AddTimer(t, realtime + ms * TicksPerMs)

(* del_timer(t) followed by add_timeout(t, ms). *)
UpdateTimeout(t, ms) ==
  /\ TimerUserCode
  /\ Link(t, realtime + ms * TicksPerMs, RootWithout(t), NextWithout(t))
  /\ UNCHANGED <<now, realtime, tpc, firing, timeout, stopped>>

DelTimer(t) ==
  /\ TimerUserCode
  /\ root' = RootWithout(t)
  /\ next' = NextWithout(t)
  /\ UNCHANGED <<now, realtime, expires, tpc, firing, timeout, stopped>>

StopLoop ==
  /\ TimerUserCode
  /\ stopped' = TRUE
  /\ UNCHANGED <<now, realtime, expires, root, next, tpc, firing, timeout>>

-----------------------------------------------------------------------------
(* __run_timers is entered: one gettimeofday for the whole pass. *)
BeginRunTimers ==
  /\ tpc = "out"
  /\ ~stopped
  /\ realtime' = now
  /\ tpc' = "run"
  /\ UNCHANGED <<now, expires, root, next, firing, timeout, stopped>>

(* Mutant: due within the next millisecond. *)
NextAlmostDue == next # NoTimer /\ expires[next] < realtime + TicksPerMs

NextDue == next # NoTimer /\ expires[next] <= realtime

(* The first timer is due: it leaves the tree before its callback starts. *)
FireTimer ==
  /\ tpc = "run"
  /\ NextDue
  /\ firing' = next
  /\ root' = RootWithout(next)
  /\ next' = NextWithout(next)
  /\ tpc' = "callback"
  /\ UNCHANGED <<now, realtime, expires, timeout, stopped>>

(* The callback returns; a loop stopped meanwhile ends the pass with -1. *)
TimerCallbackReturns ==
  /\ tpc = "callback"
  /\ firing' = NoTimer
  /\ \/ stopped /\ tpc' = "out" /\ timeout' = -1
     \/ ~stopped /\ tpc' = "run" /\ UNCHANGED timeout
  /\ UNCHANGED <<now, realtime, expires, root, next, stopped>>

(* Conversion of a long to the int that holds the timeout. *)
ToInt(n) == LET m == n % (2 * IntLimit)
            IN  IF m >= IntLimit THEN m - 2 * IntLimit ELSE m

(* Mutant: a wait below one millisecond is 0. *)
WaitMsPolls(e) == ToInt((e - realtime) \div TicksPerMs)

(* Milliseconds until expiry e, rounded down, but never 0. *)
WaitMs(e) == LET ms == ToInt((e - realtime) \div TicksPerMs)
             IN  IF ms = 0 THEN 1 ELSE ms

(* The first timer is not due yet. *)
ReturnWait ==
  /\ tpc = "run"
  /\ next # NoTimer /\ ~NextDue
  /\ timeout' = WaitMs(expires[next])
  /\ tpc' = "out"
  /\ UNCHANGED <<now, realtime, expires, root, next, firing, stopped>>

(* No timer is armed. *)
ReturnIdle ==
  /\ tpc = "run"
  /\ next = NoTimer
  /\ timeout' = -1
  /\ tpc' = "out"
  /\ UNCHANGED <<now, realtime, expires, root, next, firing, stopped>>

(* The wall clock moves; it can be set back unless Monotone. *)
Tick ==
  /\ now' \in 0..MaxTime
  /\ IF Monotone THEN now' = now + 1 ELSE now' # now
  /\ UNCHANGED <<realtime, expires, root, next, tpc, firing, timeout, stopped>>

-----------------------------------------------------------------------------
(* alloc_loop, and init_timer on every timer *)
TimersInit ==
  /\ now \in 0..MaxTime
  /\ realtime = now
  /\ expires = [t \in Timers |-> 0]
  /\ root = <<>>
  /\ next = NoTimer
  /\ tpc = "out"
  /\ firing = NoTimer
  /\ timeout = -1
  /\ stopped = FALSE

TimerApi ==
  \/ \E t \in Timers, e \in Instants : AddTimer(t, e)
  \/ \E t \in Timers, ms \in Delays : AddTimeout(t, ms) \/ UpdateTimeout(t, ms)
  \/ \E t \in Timers : DelTimer(t)

RunTimersStep ==
  BeginRunTimers \/ FireTimer \/ TimerCallbackReturns \/ ReturnWait \/ ReturnIdle

TimersNext == TimerApi \/ StopLoop \/ RunTimersStep \/ Tick

TimersSpec == TimersInit /\ [][TimersNext]_timerVars

-----------------------------------------------------------------------------
TimersTypeOK ==
  /\ now \in Nat /\ realtime \in Nat
  /\ expires \in [Timers -> Nat]
  /\ root \in Seq(Timers)
  /\ next \in Timers \cup {NoTimer}
  /\ tpc \in {"out", "run", "callback"}
  /\ firing \in Timers \cup {NoTimer}
  /\ timeout \in Int
  /\ stopped \in BOOLEAN

(* No timer is in the tree twice. *)
ArmedOnce == \A i, j \in DOMAIN root : root[i] = root[j] => i = j

(* An in-order walk of the tree meets the timers in the order of their     *)
(* expiry: expires never changes under an armed timer.                     *)
RootSorted == \A i, j \in DOMAIN root : i < j => expires[root[i]] <= expires[root[j]]

(* loop->next, kept by hand in add_timer and del_timer, is always the      *)
(* leftmost node of the tree, and NULL exactly when the tree is empty.     *)
NextIsLeftmost == next = IF root = <<>> THEN NoTimer ELSE root[1]

(* The timers are kept as __run_timers relies on.  This is the inductive    *)
(* part: NextIsLeftmost after a deletion needs ArmedOnce, after an         *)
(* insertion it needs RootSorted.                                          *)
TimersOrdered == ArmedOnce /\ RootSorted /\ NextIsLeftmost

(* A pass looks for the next timer only in a loop that is not stopped, and  *)
(* holds on to a timer exactly while its callback runs.                    *)
PassState ==
  /\ tpc = "run" => ~stopped
  /\ tpc = "callback" <=> firing # NoTimer

(* No armed timer is later than a wait of `timeout' ms that starts at the  *)
(* last reading of the clock by a whole millisecond, and a wait without    *)
(* end (negative) is only returned when nothing is armed: on the way from  *)
(* __run_timers to epoll_wait nothing is lost.  Holds for delays that fit  *)
(* the int of the timeout.                                                 *)
WaitCovers(t) ==
  /\ timeout > 0
  /\ realtime + timeout * TicksPerMs < expires[t] + TicksPerMs

(* When __run_timers returns, the wait it returns covers every armed timer *)
(* unless the loop is stopped, and it never is 0, which would make         *)
(* epoll_wait poll.                                                        *)
ReturnsCoveringWait ==
  [][tpc # "out" /\ tpc' = "out" =>
       /\ timeout' # 0
       /\ ~stopped => \A t \in Timers : Armed(t)' => WaitCovers(t)']_timerVars

(* Timers armed for the same instant fire in the order in which they were  *)
(* armed: an operation moves at most one timer m, which ends up behind all *)
(* the armed timers due at its instant, and the others keep their order.   *)
Before(t, u) == \E i, j \in DOMAIN root : i < j /\ root[i] = t /\ root[j] = u
ArmingOrderKept ==
  [][\E m \in Timers :
       /\ \A t, u \in Timers \ {m} : Before(t, u)' => Before(t, u)
       /\ \A u \in Timers \ {m} :
            Armed(m)' /\ Armed(u)' /\ expires'[u] = expires'[m] => Before(u, m)']_timerVars

(***************************************************************************)
(* The tree, the cached pointer and the pass implement the abstract timer  *)
(* service: timers fire in the order of their expiry, never before it by   *)
(* the loop's clock, once per arming, and never after a stop.              *)
(***************************************************************************)
dueOf == [t \in Timers |-> IF Armed(t) THEN expires[t] ELSE -1]

Service == INSTANCE TimerService
             WITH clock <- realtime, due <- dueOf, running <- firing

ImplementsTimerService == Service!ServiceSpec
=============================================================================
