------------------------------ MODULE LoopSetup ------------------------------
(***************************************************************************)
(* What alloc_loop acquires and free_loop releases (src/src/loop.c), one   *)
(* call per step, with __tmpfifo, which alloc_loop calls.  A call that     *)
(* fails goes to one of the labels, which run into each other.             *)
(***************************************************************************)
VARIABLES
  call,    \* the call or the label that comes next; "ok", "null" or "freed"
  held,    \* what is allocated, open or linked in the file system
  astray   \* something was released that was not held, or through a freed loop

setupVars == <<call, held, astray>>

(* What is acquired, the call that follows, the label if it fails.  The    *)
(* clock is read in between; the last is add_io of the FIFO.               *)
Acquires ==
  [loop     |-> <<"ep_fd", "err">>,
   ep_fd    |-> <<"fd", "err2">>,
   fd       |-> <<"eev", "err3">>,
   eev      |-> <<"realtime", "err4">>,
   realtime |-> <<"dir", "err5">>,
   dir      |-> <<"path", "err5">>,
   path     |-> <<"ilc_fd", "fifo_err2">>,
   ilc_fd   |-> <<"unlink", "fifo_err3">>,
   ilc      |-> <<"ilc_io", "err6">>,
   ilc_io   |-> <<"ok", "err7">>]

(* What is released at a label or by a statement, and the next one. *)
Releases ==
  [unlink    |-> <<"path", "rmdir">>,
   rmdir     |-> <<"dir", "ilc">>,
   fifo_err3 |-> <<"path", "fifo_err2">>,
   fifo_err2 |-> <<"dir", "err5">>,
   err7      |-> <<"ilc", "err6">>,
   err6      |-> <<"ilc_fd", "err5">>,
   err5      |-> <<"eev", "err4">>,
   err4      |-> <<"fd", "err3">>,
   err3      |-> <<"ep_fd", "err2">>,
   err2      |-> <<"loop", "err">>]

(* free_loop, by what it releases. *)
FreeLoopReleases ==
  [free_ilc_io |-> <<"ilc_io", "free_ilc">>,
   free_ilc    |-> <<"ilc", "free_ilc_fd">>,
   free_ilc_fd |-> <<"ilc_fd", "free_eev">>,
   free_eev    |-> <<"eev", "free_fd">>,
   free_fd     |-> <<"fd", "free_ep_fd">>,
   free_ep_fd  |-> <<"ep_fd", "free_loop">>,
   free_loop   |-> <<"loop", "freed">>]

OfLoop == {"ep_fd", "fd", "eev", "ilc_fd", "ilc", "ilc_io"}

Acquire ==
  /\ call \in DOMAIN Acquires
  /\ \/ /\ call' = Acquires[call][1]
        /\ held' = IF call = "realtime" THEN held ELSE held \cup {call}
     \/ /\ call' = Acquires[call][2]
        /\ UNCHANGED held
  /\ UNCHANGED astray

ReleaseBy(table) ==
  /\ call \in DOMAIN table
  /\ LET what == table[call][1]
     IN  /\ held' = held \ {what}
         /\ astray' = (astray \/ what \notin held \/ (what \in OfLoop /\ "loop" \notin held))
  /\ call' = table[call][2]

(* Mutant: the label that closes epoll's descriptor is passed over. *)
UnwindSkips ==
  \/ call = "err4" /\ call' = "err2" /\ held' = held \ {"fd"} /\ UNCHANGED astray
  \/ call # "err4" /\ ReleaseBy(Releases)

Unwind == ReleaseBy(Releases)

(* err: NULL is returned. *)
ReturnNull == call = "err" /\ call' = "null" /\ UNCHANGED <<held, astray>>

(* The owner is done with its loop. *)
BeginFree == call = "ok" /\ call' = "free_ilc_io" /\ UNCHANGED <<held, astray>>
FreeLoopStep == ReleaseBy(FreeLoopReleases)

SetupEnd == call \in {"null", "freed"} /\ UNCHANGED setupVars

-----------------------------------------------------------------------------
SetupInit == call = "loop" /\ held = {} /\ astray = FALSE
SetupNext == Acquire \/ Unwind \/ ReturnNull \/ BeginFree \/ FreeLoopStep \/ SetupEnd
SetupSpec == SetupInit /\ [][SetupNext]_setupVars

-----------------------------------------------------------------------------
SetupTypeOK ==
  /\ call \in DOMAIN Acquires \cup DOMAIN Releases \cup DOMAIN FreeLoopReleases
             \cup {"err", "ok", "null", "freed"}
  /\ held \subseteq OfLoop \cup {"loop", "dir", "path"}
  /\ astray \in BOOLEAN

(* Whichever call fails, alloc_loop returns NULL with nothing left behind, *)
(* in the file system neither; else a whole loop, of which free_loop       *)
(* leaves nothing.  Nothing is released twice or through a freed loop.     *)
NothingLeft ==
  /\ ~astray
  /\ call \in {"null", "freed"} => held = {}
  /\ call = "ok" => held = OfLoop \cup {"loop"}
=============================================================================
