------------------------------ MODULE DaemonFds ------------------------------
(***************************************************************************)
(* The descriptors of a process on its way to become a daemon              *)
(* (src/src/daemon.c).  daemonize may be called with any of 0, 1 and 2     *)
(* closed.  Then the pipe takes their numbers, and so may every /dev/null  *)
(* that is opened to replace them; each dup2 closes what was there.        *)
(***************************************************************************)
EXTENDS Integers

CONSTANT MaxFd  \* the largest descriptor

ASSUME FdsAssumption == MaxFd \in Nat /\ MaxFd >= 5

VARIABLES
  table,   \* table[fd]: what fd is open on, or "closed"
  step,    \* the call that comes next, see FdsTypeOK
  notify,  \* the local notify_fd of first_child
  fd       \* its local fd

fdsVars == <<table, step, notify, fd>>

FdSet == 0..MaxFd

(* open, pipe: the lowest number that is free in t. *)
Lowest(t) == CHOOSE f \in FdSet : t[f] = "closed" /\ \A g \in 0..(f - 1) : t[g] # "closed"

(* dup2(f, g) and close(f) in t. *)
Dup2(t, f, g) == [t EXCEPT ![g] = t[f]]
Close(t, f) == [t EXCEPT ![f] = "closed"]

-----------------------------------------------------------------------------
(* close_extra_fds, by the list in /proc/self/fd or up to the limit, in    *)
(* any order.  A close that fails ends it, and daemonize, with any of them *)
(* closed; so does the limit that cannot be read, with none.               *)
CloseExtraFds ==
  /\ step = "begin"
  /\ \E left \in SUBSET {f \in FdSet : f >= 3} :
       /\ table' = [f \in FdSet |-> IF f < 3 \/ f \in left THEN table[f] ELSE "closed"]
       /\ step' \in {"returned"} \cup (IF left = {} THEN {"pipe"} ELSE {})
  /\ UNCHANGED <<notify, fd>>

(* pipe, and fork: the child closes the read end. *)
PipeAndFork ==
  /\ step = "pipe"
  /\ \/ LET r == Lowest(table)
            t == [table EXCEPT ![r] = "pipe_in"]
            w == Lowest(t)
        IN  /\ table' = Close([t EXCEPT ![w] = "pipe_out"], r)
            /\ notify' = w
            /\ step' = "move"
     \/ step' = "returned" /\ UNCHANGED <<table, notify>>
  /\ UNCHANGED fd

(* Each step of first_child may fail, and reports that through notify. *)
Fails ==
  /\ step \in {"move", "open_in", "dup_in", "open_out", "dup_out", "pid_file"}
  /\ step' = "failed"
  /\ UNCHANGED <<table, notify, fd>>

(* Mutant: the write end stays where it is. *)
MoveNotifyNot ==
  /\ step = "move"
  /\ step' = "open_in"
  /\ UNCHANGED <<table, notify, fd>>

(* The write end is moved out of the way of the standard descriptors. *)
MoveNotify ==
  /\ step = "move"
  /\ IF notify < 3
     THEN table' = Dup2(table, notify, 3) /\ notify' = 3
     ELSE UNCHANGED <<table, notify>>
  /\ step' = "open_in"
  /\ UNCHANGED fd

OpenNull(kind) ==
  /\ fd' = Lowest(table)
  /\ table' = [table EXCEPT ![fd'] = kind]
  /\ UNCHANGED notify

OpenIn == step = "open_in" /\ OpenNull("null_in") /\ step' = "dup_in"

DupIn ==
  /\ step = "dup_in"
  /\ table' = IF fd # 0 THEN Close(Dup2(table, fd, 0), fd) ELSE table
  /\ step' = "open_out"
  /\ UNCHANGED <<notify, fd>>

OpenOut == step = "open_out" /\ OpenNull("null_out") /\ step' = "dup_out"

(* Both outputs; fd stays if it is one of them. *)
DupOut ==
  /\ step = "dup_out"
  /\ LET both == Dup2(Dup2(table, fd, 1), fd, 2)
     IN  table' = IF fd \in {1, 2} THEN both ELSE Close(both, fd)
  /\ step' = "pid_file"
  /\ UNCHANGED <<notify, fd>>

(* save_pid keeps its descriptor, and with it the lock, in no variable. *)
OpenPidFile ==
  /\ step = "pid_file"
  /\ table' = [table EXCEPT ![Lowest(table)] = "pid_file"]
  /\ step' = "daemon"
  /\ UNCHANGED <<notify, fd>>

(* daemon_notify(notify, 0) *)
CloseNotify ==
  /\ step = "daemon"
  /\ table' = Close(table, notify)
  /\ step' = "notified"
  /\ UNCHANGED <<notify, fd>>

FdsEnd == step \in {"returned", "failed", "notified"} /\ UNCHANGED fdsVars

-----------------------------------------------------------------------------
(* Any descriptors are open. *)
FdsInit ==
  /\ table \in [FdSet -> {"closed", "user"}]
  /\ step = "begin"
  /\ notify = 0
  /\ fd = 0

FdsNext ==
  \/ CloseExtraFds \/ PipeAndFork \/ Fails \/ MoveNotify
  \/ OpenIn \/ DupIn \/ OpenOut \/ DupOut \/ OpenPidFile \/ CloseNotify \/ FdsEnd

FdsSpec == FdsInit /\ [][FdsNext]_fdsVars

-----------------------------------------------------------------------------
FdsTypeOK ==
  /\ table \in [FdSet -> {"closed", "user", "pipe_in", "pipe_out", "null_in", "null_out",
                          "pid_file"}]
  /\ step \in {"begin", "pipe", "move", "open_in", "dup_in", "open_out", "dup_out",
               "pid_file", "daemon", "notified", "failed", "returned"}
  /\ notify \in FdSet /\ fd \in FdSet

(* The write end of the pipe survives the redirection of the standard      *)
(* descriptors under its number, so that a failure at any step is reported *)
(* to the caller and not written to something else.                        *)
NotifyKept ==
  step \in {"move", "open_in", "dup_in", "open_out", "dup_out", "pid_file", "daemon",
            "failed"} => table[notify] = "pipe_out"

(* The daemon starts with the standard descriptors on /dev/null, in the    *)
(* right direction, its pid file, and nothing of its caller; and closing   *)
(* notify closes the pipe, since no second copy of it is left.             *)
Opened(kind) == {f \in FdSet : table[f] = kind}
CleanTable ==
  step \in {"daemon", "notified"} =>
    /\ Opened("null_in") = {0}
    /\ Opened("null_out") = {1, 2}
    /\ Opened("user") = {} /\ Opened("pipe_in") = {}
    /\ \E f \in FdSet : Opened("pid_file") = {f}
    /\ Opened("pipe_out") = IF step = "daemon" THEN {notify} ELSE {}

(* Whatever of 0, 1 and 2 the caller had closed, the redirections lose     *)
(* neither the pipe to the caller nor a standard descriptor.               *)
DescriptorsKept == NotifyKept /\ CleanTable
=============================================================================
