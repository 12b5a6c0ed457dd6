-------------------------------- MODULE Loop --------------------------------
(***************************************************************************)
(* An event loop of libls (src/src/loop.c): run_loop, which composes the   *)
(* timers, the I/O registrations and the inter-loop messages.              *)
(*                                                                         *)
(*   while not stopped:                                                    *)
(*      run the due timers                                                 *)
(*      dispatch the events of the last epoll_wait, write before read      *)
(*      run the due timers again, which tells how long to wait             *)
(*      epoll_wait                                                         *)
(*   run the messages that are left                                        *)
(*                                                                         *)
(* One thread runs the loop; user code runs inside its callbacks and calls *)
(* the library from there.  Other threads only post messages, at any time. *)
(* Between an epoll_wait and the dispatch of one of its events, timers and *)
(* other callbacks may have removed, closed, reopened and re-registered    *)
(* the descriptor of that event.                                           *)
(***************************************************************************)
EXTENDS LoopTimers, LoopIo, LoopIlc

CONSTANTS
  StopIlc,   \* &__stop_remote_ilc, which stop_remote_loop posts
  InitEvents \* the size given to alloc_loop, for the event buffer

ASSUME LoopAssumption == StopIlc \in Ilcs /\ InitEvents \in Nat \ {0}

VARIABLES
  pc,        \* where the loop's thread is, see LoopTypeOK
  eev,       \* loop->eev[0..eev_num), and <<>> once it is dispatched
  eevSize,   \* loop->eev_size
  at,        \* i + 1: the event that is dispatched
  stage      \* the half of the dispatch that comes next: "write", "read"

loopVars == <<pc, eev, eevSize, at, stage>>
vars == <<timerVars, ioVars, ilcVars, loopVars>>

-----------------------------------------------------------------------------
(* User code runs: before and after run_loop, and in every callback.  The  *)
(* callback of stop_remote_loop's message is the library's.                *)
InTimerCallback == pc \in {"timers1", "timers2"} /\ tpc = "callback"
InIlcCallback == pc \in {"ilc", "drain"} /\ batch[current] # StopIlc
UserCode ==
  pc \in {"idle", "write_cb", "read_cb", "returned"} \/ InTimerCallback \/ InIlcCallback

(* The loop is freed, or free_loop has failed an assertion. *)
Over == pc \in {"freed", "asserted"}

UserTimers == UserCode /\ TimerApi /\ UNCHANGED <<ioVars, ilcVars, loopVars>>
UserStop == UserCode /\ StopLoop /\ UNCHANGED <<ioVars, ilcVars, loopVars>>
UserIo == UserCode /\ IoApi /\ UNCHANGED <<timerVars, ilcVars, loopVars>>

(* add_ilc and stop_remote_loop, by any thread while the loop exists. *)
PostIlc ==
  /\ ~Over
  /\ (\E m \in Ilcs : Post(m)) \/ PostRefused
  /\ UNCHANGED <<timerVars, ioVars, loopVars>>

TimePasses == Tick /\ UNCHANGED <<ioVars, ilcVars, loopVars>>

-----------------------------------------------------------------------------
(* run_loop is called. *)
RunLoop ==
  /\ pc = "idle"
  /\ pc' = "while"
  /\ UNCHANGED <<timerVars, ioVars, ilcVars, eev, eevSize, at, stage>>

(* while (!loop->stopped), and the first __run_timers begins. *)
LoopStops ==
  /\ pc = "while" /\ stopped
  /\ pc' = "out"
  /\ UNCHANGED <<timerVars, ioVars, ilcVars, eev, eevSize, at, stage>>

LoopTurns ==
  /\ pc = "while"
  /\ BeginRunTimers
  /\ pc' = "timers1"
  /\ UNCHANGED <<ioVars, ilcVars, eev, eevSize, at, stage>>

(* A step of __run_timers.  When it returns the loop leaves if it has been *)
(* stopped; otherwise the first one is followed by the dispatch, and the   *)
(* second one by epoll_wait.                                               *)
AfterTimers == IF stopped THEN "out" ELSE IF pc = "timers1" THEN "dispatch" ELSE "wait"

RunTimers ==
  /\ pc \in {"timers1", "timers2"}
  /\ FireTimer \/ TimerCallbackReturns \/ ReturnWait \/ ReturnIdle
  /\ pc' = IF tpc' = "out" THEN AfterTimers ELSE pc
  /\ UNCHANGED <<ioVars, ilcVars, eev, eevSize, at, stage>>

-----------------------------------------------------------------------------
(* Events: "in" (EPOLLIN), "out" (EPOLLOUT) and "err" (EPOLLHUP, EPOLLERR), *)
(* which stands for both.                                                  *)
Wanted(dir) == {"err", IF dir = "read" THEN "in" ELSE "out"}

(* Mutant: the slot was looked up when epoll_wait returned. *)
CallsStale == eev[at].events \cap Wanted(stage) # {}

(* The event asks for the half that comes next, and the slot, looked up    *)
(* now, holds an io to call.                                               *)
Calls ==
  /\ eev[at].events \cap Wanted(stage) # {}
  /\ fdTable[eev[at].fd][stage] # NoIo

Dispatching == pc = "dispatch" /\ at <= Len(eev)

(* Go on behind the half that is done. *)
Advance ==
  IF stage = "write" THEN stage' = "read" /\ at' = at
                     ELSE stage' = "write" /\ at' = at + 1

SkipHalf ==
  /\ Dispatching
  /\ ~Calls
  /\ Advance
  /\ UNCHANGED <<timerVars, ioVars, ilcVars, pc, eev, eevSize>>

(* io->callback of the user starts. *)
CallIo ==
  /\ Dispatching
  /\ Calls
  /\ eev[at].fd # IlcFd
  /\ pc' = IF stage = "write" THEN "write_cb" ELSE "read_cb"
  /\ UNCHANGED <<timerVars, ioVars, ilcVars, eev, eevSize, at, stage>>

(* Mutant: the dispatch goes on in a stopped loop. *)
IoReturnsUnchecked ==
  /\ pc \in {"write_cb", "read_cb"}
  /\ pc' = "dispatch"
  /\ Advance
  /\ UNCHANGED <<timerVars, ioVars, ilcVars, eev, eevSize>>

(* It returns; the loop leaves at once if it has been stopped. *)
IoReturns ==
  /\ pc \in {"write_cb", "read_cb"}
  /\ pc' = IF stopped THEN "out" ELSE "dispatch"
  /\ Advance
  /\ UNCHANGED <<timerVars, ioVars, ilcVars, eev, eevSize>>

(* The callback of ilc_fd is __ilc_callback. *)
CallIlc ==
  /\ Dispatching
  /\ Calls
  /\ eev[at].fd = IlcFd
  /\ IF fifo = <<>>
     THEN Advance /\ UNCHANGED <<ilcVars, pc>>
     ELSE ReadBatch /\ pc' = "ilc" /\ UNCHANGED <<at, stage>>
  /\ UNCHANGED <<timerVars, ioVars, eev, eevSize>>

(* The end of a callback of a message, which for StopIlc is all it does:   *)
(* to stop the loop.  The rest of the batch is run all the same.           *)
IlcEffect == stopped' = (stopped \/ batch[current] = StopIlc)

IlcReturns ==
  /\ pc \in {"ilc", "drain"}
  /\ IlcEffect
  /\ \/ NextIlc /\ UNCHANGED <<pc, at, stage>>
     \/ /\ LastIlc
        /\ IF pc = "drain"
           THEN pc' = "returned" /\ UNCHANGED <<at, stage>>
           ELSE pc' = (IF stopped' THEN "out" ELSE "dispatch") /\ Advance
  /\ UNCHANGED <<now, realtime, expires, root, next, tpc, firing, timeout>>
  /\ UNCHANGED <<ioVars, eev, eevSize>>

(* Mutant: the index is not reset. *)
EndDispatchKeepsIndex ==
  /\ pc = "dispatch" /\ at > Len(eev)
  /\ BeginRunTimers
  /\ pc' = "timers2"
  /\ eev' = <<>>
  /\ UNCHANGED <<ioVars, ilcVars, eevSize, at, stage>>

(* Mutant: the buffer is doubled whether it was full or not. *)
EndDispatchGrows ==
  /\ pc = "dispatch" /\ at > Len(eev)
  /\ eevSize' = 2 * eevSize
  /\ BeginRunTimers
  /\ pc' = "timers2"
  /\ eev' = <<>> /\ at' = 1 /\ stage' = "write"
  /\ UNCHANGED <<ioVars, ilcVars>>

(* Mutant: the timeout of the first __run_timers is used. *)
EndDispatchWaits ==
  /\ pc = "dispatch" /\ at > Len(eev)
  /\ pc' = "wait"
  /\ eev' = <<>> /\ at' = 1 /\ stage' = "write"
  /\ UNCHANGED <<timerVars, ioVars, ilcVars, eevSize>>

(* All events are dispatched: a buffer that was full is doubled if realloc *)
(* can, and the second __run_timers begins.                                *)
EndDispatch ==
  /\ pc = "dispatch" /\ at > Len(eev)
  /\ \/ eevSize' = eevSize
     \/ Len(eev) = eevSize /\ eevSize' = 2 * eevSize
  /\ BeginRunTimers
  /\ pc' = "timers2"
  /\ eev' = <<>> /\ at' = 1 /\ stage' = "write"
  /\ UNCHANGED <<ioVars, ilcVars>>

-----------------------------------------------------------------------------
(* epoll_wait(2).  Which of the watched descriptors of the user are ready  *)
(* is up to their peers; ilc_fd is when the FIFO holds a message.          *)
Ready(fd) ==
  CASE interest[fd] = {} -> {}
    [] fd = IlcFd -> IF fifo = <<>> THEN {} ELSE {{"in"}}
    [] OTHER -> (SUBSET ({"err"} \cup (IF "read" \in interest[fd] THEN {"in"} ELSE {})
                                 \cup (IF "write" \in interest[fd] THEN {"out"} ELSE {}))) \ {{}}

Returned(s, events) == [k \in DOMAIN s |-> [fd |-> s[k], events |-> events[s[k]]]]

EpollReports(fds) ==
  /\ pc = "wait"
  /\ \E events \in [fds -> UNION {Ready(fd) : fd \in fds}], s \in SetToSeqs(fds) :
       /\ \A fd \in fds : events[fd] \in Ready(fd)
       /\ eev' = Returned(s, events)
  /\ pc' = "while"
  /\ UNCHANGED <<timerVars, ioVars, ilcVars, eevSize, at, stage>>

(* At least one event, and no more than fit the buffer. *)
EpollEvents ==
  \E fds \in SUBSET {fd \in Fds : Ready(fd) # {}} :
    fds # {} /\ Cardinality(fds) <= eevSize /\ EpollReports(fds)

(* The timeout has passed (0), or a signal came (-1): no event. *)
EpollTimesOut == EpollReports({})

(* Mutant: the FIFO is opened without O_NONBLOCK, and the last read waits. *)
BeginDrainBlocks ==
  /\ pc = "out"
  /\ ReadBatch /\ pc' = "drain"
  /\ eev' = <<>> /\ at' = 1 /\ stage' = "write"
  /\ UNCHANGED <<timerVars, ioVars, eevSize>>

(* run_loop's last act is one more __ilc_callback. *)
BeginDrain ==
  /\ pc = "out"
  /\ IF fifo = <<>>
     THEN pc' = "returned" /\ UNCHANGED ilcVars
     ELSE ReadBatch /\ pc' = "drain"
  /\ eev' = <<>> /\ at' = 1 /\ stage' = "write"
  /\ UNCHANGED <<timerVars, ioVars, eevSize>>

(* free_loop, by a user who has removed descriptors and timers.  It first  *)
(* asserts that no message is left in the FIFO.                            *)
FreeLoop ==
  /\ pc = "returned"
  /\ root = <<>>
  /\ IF fifo = <<>> THEN FreeIo /\ pc' = "freed"
                    ELSE pc' = "asserted" /\ UNCHANGED ioVars
  /\ UNCHANGED <<timerVars, ilcVars, eev, eevSize, at, stage>>

Ended == Over /\ UNCHANGED vars

-----------------------------------------------------------------------------
LoopInit ==
  /\ TimersInit /\ IoInit /\ IlcInit
  /\ pc = "idle"
  /\ eev = <<>>
  /\ eevSize = InitEvents
  /\ at = 1
  /\ stage = "write"

(* The steps of the loop's thread that do not wait for anybody. *)
LoopStep ==
  \/ LoopStops \/ LoopTurns \/ RunTimers
  \/ SkipHalf \/ CallIo \/ IoReturns \/ CallIlc \/ IlcReturns \/ EndDispatch
  \/ BeginDrain

User == RunLoop \/ UserTimers \/ UserStop \/ UserIo \/ FreeLoop

LoopNext ==
  LoopStep \/ EpollEvents \/ EpollTimesOut \/ User \/ PostIlc \/ TimePasses \/ Ended

LoopSpec == LoopInit /\ [][LoopNext]_vars

(* Callbacks return and the thread is scheduled; a wait with a timeout     *)
(* ends; and a FIFO that stays readable is reported sooner or later, since *)
(* it is watched level-triggered and epoll rotates its ready list.         *)
ReportsIlc == EpollEvents /\ \E k \in DOMAIN eev' : eev'[k].fd = IlcFd

LoopFairness ==
  /\ WF_vars(LoopStep)
  /\ WF_vars(timeout > 0 /\ EpollTimesOut)
  /\ SF_vars(ReportsIlc)
  /\ WF_vars(TimePasses)

LoopFairSpec == LoopSpec /\ LoopFairness

-----------------------------------------------------------------------------
LoopTypeOK ==
  /\ pc \in {"idle", "while", "timers1", "dispatch", "write_cb", "read_cb", "ilc",
             "timers2", "wait", "out", "drain", "returned", "freed", "asserted"}
  /\ \A k \in DOMAIN eev :
       eev[k].fd \in Fds /\ eev[k].events \in (SUBSET {"in", "out", "err"}) \ {{}}
  /\ eevSize \in Nat \ {0}
  /\ at \in 1..(Len(eev) + 1)
  /\ stage \in {"write", "read"}

(* So are the parts of the loop. *)
AllTypesOK == LoopTypeOK /\ TimersTypeOK /\ IoTypeOK /\ IlcTypeOK

(* The event buffer holds every batch, and stops growing at twice the      *)
(* number of descriptors there can be.                                     *)
EventsBounded ==
  /\ Len(eev) <= eevSize
  /\ eevSize <= 2 * Cardinality(Fds) \/ eevSize = InitEvents

(* The loop never sleeps past a timer: whatever timers, I/O and message    *)
(* callbacks armed since the last wait, the timeout that epoll_wait gets   *)
(* covers every armed timer.                                               *)
WaitIsCovered == pc = "wait" => ~stopped /\ \A t \in Timers : Armed(t) => WaitCovers(t)

(* An io is called only while its descriptor is watched for it, even when  *)
(* its event is older than the callbacks that closed or re-registered the  *)
(* descriptor, and even for an error event, which asks for both halves.    *)
CallsWatched ==
  [][pc' \in {"write_cb", "read_cb"} /\ pc' # pc =>
       LET fd == eev[at].fd
       IN  stage \in interest[fd] /\ fd \in open \ closing]_vars

(* Once the loop is stopped, by a callback or by a message, no timer and   *)
(* no io callback starts any more, whatever is left of the batch.          *)
NothingStartsStopped ==
  [][stopped =>
       /\ pc' \in {"write_cb", "read_cb"} => pc' = pc
       /\ firing' # NoTimer => firing' = firing]_vars

(* run_loop returns after a stop: one message callback at a time may be    *)
(* left, but no epoll_wait.                                                *)
StopReturns == stopped /\ pc # "idle" ~> pc = "returned" \/ Over

(* A message that was accepted is run, or the loop comes to its end first. *)
(* So a loop whose stop_remote_loop returned 0 stops, if it runs.          *)
Pending(m) == \E k \in DOMAIN fifo : fifo[k] = m
MessageRuns ==
  \A m \in Ilcs : Pending(m) /\ pc # "idle" ~>
                    (current # 0 /\ batch[current] = m) \/ pc = "returned" \/ Over

(* A timer fires whether or not events come, in a loop that is not         *)
(* stopped, as long as timers are not armed over and over again for an     *)
(* instant that is already due, which can keep a pass of __run_timers from *)
(* ending.  Other timers cannot, even if callbacks always arm them again:  *)
(* the clock is read once, and what they arm waits for the next pass.      *)
ArmsLater ==
  \A t \in Timers :
    Armed(t)' /\ (~Armed(t) \/ expires'[t] # expires[t]) => expires'[t] > realtime
TimerWakesLoop ==
  <>[][ArmsLater]_vars => \A t \in Timers :
    Armed(t) /\ expires[t] <= now /\ pc # "idle" ~>
      ~Armed(t) \/ expires[t] > now \/ stopped

(* run_loop says of its last __ilc_callback: "Fire all the ILC events,     *)
(* otherwise memory may leak": the messages in the FIFO at that point.     *)
DrainTakesAll == [][pc = "out" /\ pc' # "out" => fifo' = <<>>]_vars
=============================================================================
