------------------------------- MODULE Daemon -------------------------------
(***************************************************************************)
(* How a program becomes a daemon (src/src/daemon.c).  daemonize forks a   *)
(* first child, which forks the daemon and exits; the caller waits on a    *)
(* pipe until the daemon reports an errno, or the pipe has no writer any   *)
(* more.  The daemon locks the pid file, writes its pid into it, returns   *)
(* from daemonize and reports 0 with daemon_notify once its service is up. *)
(*                                                                         *)
(* Several programs with the same ident start, and any process may be      *)
(* killed, at any time.  They share the pid file, which is never removed,  *)
(* and its lock, which the kernel releases when its holder closes the file *)
(* or ends.                                                                *)
(***************************************************************************)
CONSTANTS
  Starts,  \* the calls of daemonize, and the pids of the daemons they start
  Nobody,  \* no process holds the lock
  Empty,   \* an empty pid file
  Torn     \* a pid file with a part of a pid, or with an older one

ASSUME DaemonAssumption ==
  /\ {Nobody, Empty, Torn} \cap Starts = {}
  /\ Empty # Torn

VARIABLES
  caller,   \* "idle", "waiting" (in read), "success", "failed" or "killed"
  first,    \* the first child: "none", "forked", "exiting" or "gone"
  second,   \* the daemon, see DaemonTypeOK
  pipe,     \* "", or what was written: "ok" (the int 0), "error" (an errno)
  lock,     \* who holds the flock of the pid file
  pidFile   \* what is in it

daemonVars == <<caller, first, second, pipe, lock, pidFile>>

(* Mutant: the caller keeps the write end open. *)
HasWriterCaller(d) == caller[d] = "waiting"

(* The processes of a start that have the pipe's write end open. *)
HasWriter(d) ==
  \/ first[d] \in {"forked", "exiting"}
  \/ second[d] \notin {"none", "notified", "gone"}

(* Mutant: the lock is a file that outlives its process. *)
ReleaseNever(d) == UNCHANGED lock

(* The pid file is closed: by close(2) or with the process. *)
Release(d) == lock' = IF lock = d THEN Nobody ELSE lock

-----------------------------------------------------------------------------
(* daemonize: what precedes the fork may fail; behind it the caller reads. *)
Daemonize(d) ==
  /\ caller[d] = "idle"
  /\ \/ /\ caller' = [caller EXCEPT ![d] = "failed"]
        /\ UNCHANGED first
     \/ /\ caller' = [caller EXCEPT ![d] = "waiting"]
        /\ first' = [first EXCEPT ![d] = "forked"]
  /\ UNCHANGED <<second, pipe, lock, pidFile>>

(* write(2) of an int to the pipe: SIGPIPE, whose action daemonize has set *)
(* to the default, ends a writer that no caller reads from.                *)
Sends(d, msg) == caller[d] = "waiting" /\ pipe' = [pipe EXCEPT ![d] = msg]
Broken(d) == caller[d] # "waiting" /\ UNCHANGED pipe

(* setsid or the second fork fails: the first child reports and exits. *)
FirstFails(d) ==
  /\ first[d] = "forked"
  /\ \/ Sends(d, "error") /\ first' = [first EXCEPT ![d] = "exiting"]
     \/ Broken(d) /\ first' = [first EXCEPT ![d] = "gone"]
  /\ UNCHANGED <<caller, second, lock, pidFile>>

FirstForks(d) ==
  /\ first[d] = "forked"
  /\ first' = [first EXCEPT ![d] = "exiting"]
  /\ second' = [second EXCEPT ![d] = "setup"]
  /\ UNCHANGED <<caller, pipe, lock, pidFile>>

FirstExits(d) ==
  /\ first[d] = "exiting"
  /\ first' = [first EXCEPT ![d] = "gone"]
  /\ UNCHANGED <<caller, second, pipe, lock, pidFile>>

(* Mutant: the pid file is opened with O_TRUNC. *)
OpenPidTruncates(d) ==
  /\ second[d] = "setup"
  /\ \/ /\ second' = [second EXCEPT ![d] = "opened"]
        /\ pidFile' = Empty
     \/ /\ second' = [second EXCEPT ![d] = "failing"]
        /\ UNCHANGED pidFile
  /\ UNCHANGED <<caller, first, pipe, lock>>

(* The descriptors, umask and directory of the daemon, and open of the pid *)
(* file; each may fail.                                                    *)
OpenPid(d) ==
  /\ second[d] = "setup"
  /\ \E s \in {"opened", "failing"} : second' = [second EXCEPT ![d] = s]
  /\ UNCHANGED <<caller, first, pipe, lock, pidFile>>

(* flock does not wait.  A failure closes the file. *)
LockPid(d) ==
  /\ second[d] = "opened"
  /\ \/ /\ lock = Nobody
        /\ lock' = d
        /\ second' = [second EXCEPT ![d] = "locked"]
     \/ /\ second' = [second EXCEPT ![d] = "failing"]
        /\ UNCHANGED lock
  /\ UNCHANGED <<caller, first, pipe, pidFile>>

TruncatePid(d) ==
  /\ second[d] = "locked"
  /\ \/ /\ pidFile' = Empty
        /\ second' = [second EXCEPT ![d] = "truncated"]
        /\ UNCHANGED lock
     \/ /\ second' = [second EXCEPT ![d] = "failing"]
        /\ Release(d)
        /\ UNCHANGED pidFile
  /\ UNCHANGED <<caller, first, pipe>>

(* The pid is written whole, and daemonize returns in the daemon; or it is *)
(* not, which leaves an empty or a torn file.                              *)
WritePid(d) ==
  /\ second[d] = "truncated"
  /\ \/ /\ pidFile' = d
        /\ second' = [second EXCEPT ![d] = "running"]
        /\ UNCHANGED lock
     \/ /\ pidFile' \in {Empty, Torn}
        /\ second' = [second EXCEPT ![d] = "failing"]
        /\ Release(d)
  /\ UNCHANGED <<caller, first, pipe>>

(* err of first_child: the errno is reported. *)
ReportFailure(d) ==
  /\ second[d] = "failing"
  /\ \/ Sends(d, "error") /\ second' = [second EXCEPT ![d] = "dying"]
     \/ Broken(d) /\ second' = [second EXCEPT ![d] = "gone"]
  /\ UNCHANGED <<caller, first, lock, pidFile>>

(* Mutant: daemon_notify of an error returns. *)
NotifyStays(d, msg) ==
  /\ second[d] = "running"
  /\ \/ Sends(d, msg) /\ second' = [second EXCEPT ![d] = "notified"] /\ UNCHANGED lock
     \/ Broken(d) /\ second' = [second EXCEPT ![d] = "gone"] /\ Release(d)
  /\ UNCHANGED <<caller, first, pidFile>>

(* daemon_notify: 0 closes the pipe and the daemon goes on, an errno ends  *)
(* it.                                                                     *)
Notify(d, msg) ==
  /\ second[d] = "running"
  /\ \/ /\ Sends(d, msg)
        /\ second' = [second EXCEPT ![d] = IF msg = "ok" THEN "notified" ELSE "dying"]
        /\ UNCHANGED lock
     \/ Broken(d) /\ second' = [second EXCEPT ![d] = "gone"] /\ Release(d)
  /\ UNCHANGED <<caller, first, pidFile>>

(* _exit *)
Exit(d) ==
  /\ second[d] = "dying"
  /\ second' = [second EXCEPT ![d] = "gone"]
  /\ Release(d)
  /\ UNCHANGED <<caller, first, pipe, pidFile>>

(* Mutant: the caller does not look at what it has read. *)
ReadMessageBlindly(d) ==
  /\ caller[d] = "waiting" /\ pipe[d] # ""
  /\ caller' = [caller EXCEPT ![d] = "success"]
  /\ UNCHANGED <<first, second, pipe, lock, pidFile>>

(* The caller's read returns an int: _exit(0), or -1 with the errno. *)
ReadMessage(d) ==
  /\ caller[d] = "waiting" /\ pipe[d] # ""
  /\ caller' = [caller EXCEPT ![d] = IF pipe[d] = "ok" THEN "success" ELSE "failed"]
  /\ UNCHANGED <<first, second, pipe, lock, pidFile>>

(* It returns 0, since every writer has gone: -1 with EIO. *)
ReadEof(d) ==
  /\ caller[d] = "waiting" /\ pipe[d] = ""
  /\ ~HasWriter(d)
  /\ caller' = [caller EXCEPT ![d] = "failed"]
  /\ UNCHANGED <<first, second, pipe, lock, pidFile>>

-----------------------------------------------------------------------------
(* Any process is killed; the daemon may also end by itself. *)
KillCaller(d) ==
  /\ caller[d] = "waiting"
  /\ caller' = [caller EXCEPT ![d] = "killed"]
  /\ UNCHANGED <<first, second, pipe, lock, pidFile>>

KillFirst(d) ==
  /\ first[d] \in {"forked", "exiting"}
  /\ first' = [first EXCEPT ![d] = "gone"]
  /\ UNCHANGED <<caller, second, pipe, lock, pidFile>>

KillSecond(d) ==
  /\ second[d] \notin {"none", "gone"}
  /\ second' = [second EXCEPT ![d] = "gone"]
  /\ Release(d)
  /\ UNCHANGED <<caller, first, pipe, pidFile>>

Kill(d) == KillCaller(d) \/ KillFirst(d) \/ KillSecond(d)

-----------------------------------------------------------------------------
(* No daemon runs; the pid file may be left from an earlier one. *)
DaemonInit ==
  /\ caller = [d \in Starts |-> "idle"]
  /\ first = [d \in Starts |-> "none"]
  /\ second = [d \in Starts |-> "none"]
  /\ pipe = [d \in Starts |-> ""]
  /\ lock = Nobody
  /\ pidFile \in {Empty, Torn}

(* The steps of a start that its processes take by themselves.  A daemon   *)
(* whose service is up or has failed calls daemon_notify.                  *)
FirstStep(d) == FirstFails(d) \/ FirstForks(d) \/ FirstExits(d)

DaemonStep(d) ==
  \/ OpenPid(d) \/ LockPid(d) \/ TruncatePid(d) \/ WritePid(d)
  \/ ReportFailure(d) \/ Exit(d)
  \/ \E msg \in {"ok", "error"} : Notify(d, msg)

CallerStep(d) == ReadMessage(d) \/ ReadEof(d)

StartStep(d) == FirstStep(d) \/ DaemonStep(d) \/ CallerStep(d)

AllDone == (\A d \in Starts : caller[d] # "idle") /\ UNCHANGED daemonVars

DaemonNext == (\E d \in Starts : Daemonize(d) \/ StartStep(d) \/ Kill(d)) \/ AllDone

DaemonSpec == DaemonInit /\ [][DaemonNext]_daemonVars

(* The processes of a start are scheduled; nobody has to be killed. *)
DaemonFairness ==
  \A d \in Starts :
    /\ WF_daemonVars(FirstStep(d))
    /\ WF_daemonVars(DaemonStep(d))
    /\ WF_daemonVars(CallerStep(d))

DaemonFairSpec == DaemonSpec /\ DaemonFairness

-----------------------------------------------------------------------------
DaemonTypeOK ==
  /\ caller \in [Starts -> {"idle", "waiting", "success", "failed", "killed"}]
  /\ first \in [Starts -> {"none", "forked", "exiting", "gone"}]
  /\ second \in [Starts -> {"none", "setup", "opened", "locked", "truncated", "running",
                            "notified", "failing", "dying", "gone"}]
  /\ pipe \in [Starts -> {"", "ok", "error"}]
  /\ lock \in {d \in Starts : second[d] \notin {"none", "gone"}} \cup {Nobody}
  /\ pidFile \in Starts \cup {Empty, Torn}

(* The service runs once, and the pid file names the process it runs in,   *)
(* whoever else starts, fails or is killed at whatever step: a start that  *)
(* comes too late leaves the file as it is.                                *)
PidFileNamesDaemon ==
  \A d \in Starts : second[d] \in {"running", "notified"} => pidFile = d

(* A caller that reports success has started a daemon that reported 0; if  *)
(* that has not ended since, it runs and is the one that holds the lock.   *)
SuccessMeansDaemon ==
  \A d \in Starts :
    caller[d] = "success" =>
      second[d] = "gone" \/ (second[d] = "notified" /\ lock = d)

(* A caller that reports a failure leaves no process behind that would go  *)
(* on: what is left of the start only has to exit.                         *)
FailureMeansNone ==
  \A d \in Starts :
    caller[d] = "failed" => /\ first[d] \in {"none", "exiting", "gone"}
                            /\ second[d] \in {"none", "dying", "gone"}

(* The exit status of the caller tells what became of the daemon. *)
OutcomeIsTrue == SuccessMeansDaemon /\ FailureMeansNone

(* daemonize returns in the caller, whatever happens to its children. *)
CallerReturns == \A d \in Starts : caller[d] = "waiting" ~> caller[d] # "waiting"

(* The processes of a start that failed end, and with them their lock. *)
FailedStartEnds ==
  \A d \in Starts : caller[d] = "failed" ~> lock # d /\ second[d] \in {"none", "gone"}
=============================================================================
