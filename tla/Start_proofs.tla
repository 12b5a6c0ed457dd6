---------------------------- MODULE Start_proofs ----------------------------
(***************************************************************************)
(* What the start of a service leaves behind, however far it gets: the     *)
(* processes, for any number of starts, the descriptors of the daemon, its *)
(* privilege, and the loop that it sets up.  The last part is about the    *)
(* bit operations that its threads and signal handlers share: signals are  *)
(* held off while the mutex is, and the operations are atomic, for any     *)
(* number of threads, bits and handlers, with and without the compiler's   *)
(* compare and swap.                                                       *)
(***************************************************************************)
EXTENDS MCStart, AtomicBits, TLAPS

-----------------------------------------------------------------------------
(* The processes (Daemon).                                                 *)

Holding == {"locked", "truncated", "running", "notified"}

(***************************************************************************)
(* The inductive invariant of one start: the lock belongs to the process   *)
(* that has got past flock, the pid file names a daemon that runs, and     *)
(* what was written to the pipe tells how far the start has come.          *)
(***************************************************************************)
LockOf(d) ==
  /\ second[d] \in Holding => lock = d
  /\ lock = d => second[d] \in Holding \cup {"dying"}

PidOf(d) == second[d] \in {"running", "notified"} => pidFile = d

PipeOf(d) ==
  /\ pipe[d] = "ok" => second[d] \in {"notified", "gone"}
  /\ pipe[d] = "error" => second[d] \in {"none", "dying", "gone"}
  /\ pipe[d] # "" => first[d] \in {"exiting", "gone"}
  /\ second[d] = "notified" => pipe[d] = "ok"
  /\ first[d] \in {"none", "forked"} => second[d] = "none"
  /\ caller[d] = "idle" => first[d] = "none"

CallerOf(d) ==
  /\ caller[d] = "success" =>
       second[d] = "gone" \/ (second[d] = "notified" /\ lock = d)
  /\ caller[d] = "failed" => /\ first[d] \in {"none", "exiting", "gone"}
                             /\ second[d] \in {"none", "dying", "gone"}

StartInv(d) == LockOf(d) /\ PidOf(d) /\ PipeOf(d) /\ CallerOf(d)

DaemonInv == DaemonTypeOK /\ \A d \in Starts : StartInv(d)

Types ==
  /\ caller \in [Starts -> {"idle", "waiting", "success", "failed", "killed"}]
  /\ first \in [Starts -> {"none", "forked", "exiting", "gone"}]
  /\ second \in [Starts -> {"none", "setup", "opened", "locked", "truncated", "running",
                            "notified", "failing", "dying", "gone"}]
  /\ pipe \in [Starts -> {"", "ok", "error"}]
  /\ lock \in Starts \cup {Nobody}
  /\ pidFile \in Starts \cup {Empty, Torn}

LEMMA DaemonInitInv == DaemonInit => DaemonInv
  BY DaemonAssumption
  DEF DaemonInit, DaemonInv, DaemonTypeOK, StartInv, LockOf, Holding, PidOf, PipeOf, CallerOf

(* What the steps of d leave alone: the other starts, a lock that is not   *)
(* free and not its own, and a pid file that it has not locked.            *)
Touches(d) ==
  /\ \A e \in Starts \ {d} : /\ caller'[e] = caller[e] /\ first'[e] = first[e]
                             /\ second'[e] = second[e] /\ pipe'[e] = pipe[e]
  /\ lock' = lock \/ (lock \in {Nobody, d} /\ lock' \in {Nobody, d})
  /\ pidFile' = pidFile \/ lock = d

LEMMA StepOfOne ==
  ASSUME DaemonInv, NEW d \in Starts, Touches(d), Types', StartInv(d)'
  PROVE  DaemonInv'
<1>1. ASSUME NEW e \in Starts, e # d PROVE StartInv(e)'
  <2>0. /\ caller'[e] = caller[e] /\ first'[e] = first[e]
        /\ second'[e] = second[e] /\ pipe'[e] = pipe[e]
    BY <1>1 DEF Touches
  <2>1. StartInv(e)
    BY <1>1 DEF DaemonInv
  <2>2. lock' = e <=> lock = e
    BY <1>1, DaemonAssumption DEF Touches
  <2>3. PidOf(e)'
    <3>1. second[e] \in Holding => lock # d
      BY <1>1, <2>1 DEF StartInv, LockOf
    <3> QED BY <2>0, <2>1, <3>1 DEF Touches, StartInv, PidOf, Holding
  <2>4. LockOf(e)' /\ PipeOf(e)' /\ CallerOf(e)'
    BY <2>0, <2>1, <2>2 DEF StartInv, LockOf, PipeOf, CallerOf
  <2> QED BY <2>3, <2>4 DEF StartInv
<1>2. \A e \in Starts : StartInv(e)'
  BY <1>1
<1>3. DaemonTypeOK'
  <2>1. lock' \in Starts => second'[lock'] \notin {"none", "gone"}
    BY <1>2 DEF StartInv, LockOf, Holding
  <2> QED BY <2>1 DEF Types, DaemonTypeOK
<1> QED BY <1>2, <1>3 DEF DaemonInv

LEMMA DaemonStepInv == DaemonInv /\ [DaemonNext]_daemonVars => DaemonInv'
<1> SUFFICES ASSUME DaemonInv, [DaemonNext]_daemonVars PROVE DaemonInv'
  OBVIOUS
<1>0. Types /\ \A d \in Starts : LockOf(d) /\ PidOf(d) /\ PipeOf(d) /\ CallerOf(d)
  BY DEF DaemonInv, DaemonTypeOK, Types, StartInv
<1> USE DaemonAssumption
<1>1. ASSUME NEW d \in Starts, Daemonize(d) PROVE DaemonInv'
  <2>1. Touches(d) /\ Types'
    BY <1>0, <1>1 DEF Daemonize, Touches, Types, LockOf, Holding
  <2>2. StartInv(d)'
    BY <1>0, <1>1 DEF Daemonize, Types, StartInv, LockOf, PidOf, PipeOf, CallerOf, Holding
  <2> QED BY <2>1, <2>2, StepOfOne
<1>2. ASSUME NEW d \in Starts, FirstFails(d) PROVE DaemonInv'
  <2>1. Touches(d) /\ Types'
    BY <1>0, <1>2 DEF FirstFails, Sends, Broken, Touches, Types, LockOf, Holding
  <2>2. StartInv(d)'
    BY <1>0, <1>2 DEF FirstFails, Sends, Broken, Types, StartInv, LockOf, PidOf, PipeOf, CallerOf, Holding
  <2> QED BY <2>1, <2>2, StepOfOne
<1>3. ASSUME NEW d \in Starts, FirstForks(d) PROVE DaemonInv'
  <2>1. Touches(d) /\ Types'
    BY <1>0, <1>3 DEF FirstForks, Touches, Types, LockOf, Holding
  <2>2. StartInv(d)'
    BY <1>0, <1>3 DEF FirstForks, Types, StartInv, LockOf, PidOf, PipeOf, CallerOf, Holding
  <2> QED BY <2>1, <2>2, StepOfOne
<1>4. ASSUME NEW d \in Starts, FirstExits(d) PROVE DaemonInv'
  <2>1. Touches(d) /\ Types'
    BY <1>0, <1>4 DEF FirstExits, Touches, Types, LockOf, Holding
  <2>2. StartInv(d)'
    BY <1>0, <1>4 DEF FirstExits, Types, StartInv, LockOf, PidOf, PipeOf, CallerOf, Holding
  <2> QED BY <2>1, <2>2, StepOfOne
<1>5. ASSUME NEW d \in Starts, OpenPid(d) PROVE DaemonInv'
  <2>1. Touches(d) /\ Types'
    <3>1. PICK s \in {"opened", "failing"} : second' = [second EXCEPT ![d] = s]
      BY <1>5 DEF OpenPid
    <3>2. UNCHANGED <<caller, first, pipe, lock, pidFile>>
      BY <1>5 DEF OpenPid
    <3> QED BY <3>1, <3>2, <1>0 DEF Touches, Types
  <2>2. StartInv(d)'
    BY <1>0, <1>5 DEF OpenPid, Types, StartInv, LockOf, PidOf, PipeOf, CallerOf, Holding
  <2> QED BY <2>1, <2>2, StepOfOne
<1>6. ASSUME NEW d \in Starts, LockPid(d) PROVE DaemonInv'
  <2>1. Touches(d) /\ Types'
    BY <1>0, <1>6 DEF LockPid, Touches, Types, LockOf, Holding
  <2>2. StartInv(d)'
    BY <1>0, <1>6 DEF LockPid, Types, StartInv, LockOf, PidOf, PipeOf, CallerOf, Holding
  <2> QED BY <2>1, <2>2, StepOfOne
<1>7. ASSUME NEW d \in Starts, TruncatePid(d) PROVE DaemonInv'
  <2>1. Touches(d) /\ Types'
    BY <1>0, <1>7 DEF TruncatePid, Release, Touches, Types, LockOf, Holding
  <2>2. StartInv(d)'
    BY <1>0, <1>7 DEF TruncatePid, Release, Types, StartInv, LockOf, PidOf, PipeOf, CallerOf, Holding
  <2> QED BY <2>1, <2>2, StepOfOne
<1>8. ASSUME NEW d \in Starts, WritePid(d) PROVE DaemonInv'
  <2>1. Touches(d) /\ Types'
    BY <1>0, <1>8 DEF WritePid, Release, Touches, Types, LockOf, Holding
  <2>2. StartInv(d)'
    BY <1>0, <1>8 DEF WritePid, Release, Types, StartInv, LockOf, PidOf, PipeOf, CallerOf, Holding
  <2> QED BY <2>1, <2>2, StepOfOne
<1>9. ASSUME NEW d \in Starts, ReportFailure(d) PROVE DaemonInv'
  <2>1. Touches(d) /\ Types'
    <3>1. UNCHANGED <<caller, first, lock, pidFile>>
      BY <1>9 DEF ReportFailure
    <3>2. pipe' = pipe \/ pipe' = [pipe EXCEPT ![d] = "error"]
      BY <1>9 DEF ReportFailure, Sends, Broken
    <3>3. PICK s \in {"dying", "gone"} : second' = [second EXCEPT ![d] = s]
      BY <1>9 DEF ReportFailure
    <3> QED BY <1>0, <3>1, <3>2, <3>3 DEF Touches, Types
  <2>2. StartInv(d)'
    BY <1>0, <1>9 DEF ReportFailure, Sends, Broken, Types, StartInv, LockOf, PidOf, PipeOf, CallerOf, Holding
  <2> QED BY <2>1, <2>2, StepOfOne
<1>10. ASSUME NEW d \in Starts, Exit(d) PROVE DaemonInv'
  <2>1. Touches(d) /\ Types'
    BY <1>0, <1>10 DEF Exit, Release, Touches, Types, LockOf, Holding
  <2>2. StartInv(d)'
    BY <1>0, <1>10 DEF Exit, Release, Types, StartInv, LockOf, PidOf, PipeOf, CallerOf, Holding
  <2> QED BY <2>1, <2>2, StepOfOne
<1>11. ASSUME NEW d \in Starts, ReadMessage(d) PROVE DaemonInv'
  <2>1. Touches(d) /\ Types'
    BY <1>0, <1>11 DEF ReadMessage, Touches, Types, LockOf, Holding
  <2>2. StartInv(d)'
    BY <1>0, <1>11 DEF ReadMessage, Types, StartInv, LockOf, PidOf, PipeOf, CallerOf, Holding
  <2> QED BY <2>1, <2>2, StepOfOne
<1>12. ASSUME NEW d \in Starts, ReadEof(d) PROVE DaemonInv'
  <2>1. Touches(d) /\ Types'
    BY <1>0, <1>12 DEF ReadEof, HasWriter, Touches, Types, LockOf, Holding
  <2>2. StartInv(d)'
    BY <1>0, <1>12 DEF ReadEof, HasWriter, Types, StartInv, LockOf, PidOf, PipeOf, CallerOf, Holding
  <2> QED BY <2>1, <2>2, StepOfOne
<1>13. ASSUME NEW d \in Starts, KillCaller(d) PROVE DaemonInv'
  <2>1. Touches(d) /\ Types'
    BY <1>0, <1>13 DEF KillCaller, Touches, Types, LockOf, Holding
  <2>2. StartInv(d)'
    BY <1>0, <1>13 DEF KillCaller, Types, StartInv, LockOf, PidOf, PipeOf, CallerOf, Holding
  <2> QED BY <2>1, <2>2, StepOfOne
<1>14. ASSUME NEW d \in Starts, KillFirst(d) PROVE DaemonInv'
  <2>1. Touches(d) /\ Types'
    BY <1>0, <1>14 DEF KillFirst, Touches, Types, LockOf, Holding
  <2>2. StartInv(d)'
    BY <1>0, <1>14 DEF KillFirst, Types, StartInv, LockOf, PidOf, PipeOf, CallerOf, Holding
  <2> QED BY <2>1, <2>2, StepOfOne
<1>15. ASSUME NEW d \in Starts, KillSecond(d) PROVE DaemonInv'
  <2>1. Touches(d) /\ Types'
    BY <1>0, <1>15 DEF KillSecond, Release, Touches, Types, LockOf, Holding
  <2>2. StartInv(d)'
    BY <1>0, <1>15 DEF KillSecond, Release, Types, StartInv, LockOf, PidOf, PipeOf, CallerOf, Holding
  <2> QED BY <2>1, <2>2, StepOfOne
<1>16. ASSUME NEW d \in Starts, NEW msg \in {"ok", "error"}, Notify(d, msg) PROVE DaemonInv'
  <2>1. Touches(d) /\ Types'
    <3>1. UNCHANGED <<caller, first, pidFile>>
      BY <1>16 DEF Notify
    <3>2. /\ pipe' = pipe \/ pipe' = [pipe EXCEPT ![d] = msg]
          /\ lock' = lock \/ (lock = d /\ lock' = Nobody)
      BY <1>16 DEF Notify, Sends, Broken, Release
    <3>3. PICK s \in {"notified", "dying", "gone"} : second' = [second EXCEPT ![d] = s]
      BY <1>16 DEF Notify
    <3> QED BY <1>0, <3>1, <3>2, <3>3 DEF Touches, Types
  <2>2. StartInv(d)'
    BY <1>0, <1>16 DEF Notify, Sends, Broken, Release, Types, StartInv, LockOf, PidOf, PipeOf, CallerOf, Holding
  <2> QED BY <2>1, <2>2, StepOfOne
<1>17. CASE AllDone \/ UNCHANGED daemonVars
  BY <1>17 DEF AllDone, daemonVars, DaemonInv, DaemonTypeOK, StartInv, LockOf, PidOf, PipeOf,
              CallerOf
<1> QED
  BY <1>1, <1>2, <1>3, <1>4, <1>5, <1>6, <1>7, <1>8, <1>9, <1>10, <1>11, <1>12, <1>13, <1>14, <1>15, <1>16, <1>17
  DEF DaemonNext, StartStep, FirstStep, DaemonStep, CallerStep, Kill

LEMMA InvImplies == DaemonInv => PidFileNamesDaemon /\ SuccessMeansDaemon /\ FailureMeansNone
  BY DEF DaemonInv, StartInv, PidOf, CallerOf, PidFileNamesDaemon, SuccessMeansDaemon,
         FailureMeansNone

(* However many programs start and whichever processes are killed: the pid *)
(* file names the one daemon that runs.                                    *)
THEOREM DaemonIsNamed == DaemonSpec => []PidFileNamesDaemon
  BY InvImplies, DaemonInitInv, DaemonStepInv, PTL DEF DaemonSpec

(* The caller's exit status tells the truth about the daemon. *)
THEOREM CallerTellsTruth == DaemonSpec => []OutcomeIsTrue
<1>1. SuccessMeansDaemon /\ FailureMeansNone => OutcomeIsTrue
  BY DEF OutcomeIsTrue
<1> QED BY <1>1, InvImplies, DaemonInitInv, DaemonStepInv, PTL DEF DaemonSpec

(* At most one daemon runs. *)
THEOREM OneDaemon ==
  DaemonSpec => [](\A d, e \in Starts : second[d] \in {"running", "notified"}
                                        /\ second[e] \in {"running", "notified"} => d = e)
<1>1. PidFileNamesDaemon =>
        \A d, e \in Starts : second[d] \in {"running", "notified"}
                             /\ second[e] \in {"running", "notified"} => d = e
  BY DEF PidFileNamesDaemon
<1> QED BY <1>1, DaemonIsNamed, PTL

-----------------------------------------------------------------------------
(* The change of privilege (Privilege): what is done when a call is next.  *)
Given(id) == ids[id] = "user"
Inside == asked.nochroot \/ (dir["root"] = "home" /\ dir["cwd"] = "home")

PrivilegeInv ==
  /\ PrivilegeTypeOK
  /\ at \in {"gid", "uid", "environ", "done"} => Given("groups")
  /\ at \in {"uid", "environ", "done"} => Given("gid")
  /\ at \in {"environ", "done"} => Given("uid")
  /\ at = "chdir" => dir["root"] = "home"
  /\ at \in {"groups", "gid", "uid", "environ", "done"} => Inside
  /\ Given("uid") => Given("gid") /\ Given("groups") /\ Inside
  /\ at = "done" => env = {"USER", "HOME"}
  /\ at \in {"done", "refused"} => bufs = {}

LEMMA PrivilegeInitInv == PrivilegeInit => PrivilegeInv
  BY DEF PrivilegeInit, PrivilegeInv, PrivilegeTypeOK, Given, Inside

LEMMA PrivilegeStepInv == PrivilegeInv /\ [PrivilegeNext]_privilegeVars => PrivilegeInv'
<1> SUFFICES ASSUME PrivilegeInv, [PrivilegeNext]_privilegeVars PROVE PrivilegeInv'
  OBVIOUS
<1> USE DEF PrivilegeInv, PrivilegeTypeOK, Given, Inside, Superuser
<1>1. CASE FindUser \/ FindGroup
  BY <1>1 DEF FindUser, FindGroup, Refuse
<1>2. CASE ChangeRoot \/ ChangeDir
  BY <1>2 DEF ChangeRoot, ChangeDir, Refuse
<1>3. CASE SetIds("groups", "gid")
  BY <1>3 DEF SetIds, Refuse
<1>4. CASE SetIds("gid", "uid")
  BY <1>4 DEF SetIds, Refuse
<1>5. CASE SetIds("uid", "environ")
  BY <1>5 DEF SetIds, Refuse
<1>6. CASE SetEnvironment
  BY <1>6 DEF SetEnvironment
<1>7. CASE PrivilegeEnd \/ UNCHANGED privilegeVars
  BY <1>7 DEF PrivilegeEnd, privilegeVars
<1> QED BY <1>1, <1>2, <1>3, <1>4, <1>5, <1>6, <1>7 DEF PrivilegeNext, TakeIds

(* A process that has given up the superuser's id has given up all of it.  *)
THEOREM PrivilegeIsGivenUp == PrivilegeSpec => []GivenUpWhole
<1>1. PrivilegeInv => GivenUpWhole
  BY DEF PrivilegeInv, Given, Inside, GivenUpWhole
<1> QED BY <1>1, PrivilegeInitInv, PrivilegeStepInv, PTL DEF PrivilegeSpec

-----------------------------------------------------------------------------
(* The setup of the loop (LoopSetup): what is held when a call or a label  *)
(* is next, which makes every label a place where the setup may go to.     *)
Base == {"loop", "ep_fd", "fd", "eev"}
HeldAt ==
  [loop |-> {}, ep_fd |-> {"loop"}, fd |-> {"loop", "ep_fd"}, eev |-> {"loop", "ep_fd", "fd"},
   realtime |-> Base, dir |-> Base, path |-> Base \cup {"dir"},
   ilc_fd |-> Base \cup {"dir", "path"}, unlink |-> Base \cup {"dir", "path", "ilc_fd"},
   rmdir |-> Base \cup {"dir", "ilc_fd"}, ilc |-> Base \cup {"ilc_fd"},
   ilc_io |-> Base \cup {"ilc_fd", "ilc"}, ok |-> OfLoop \cup {"loop"},
   fifo_err3 |-> Base \cup {"dir", "path"}, fifo_err2 |-> Base \cup {"dir"},
   err7 |-> Base \cup {"ilc_fd", "ilc"}, err6 |-> Base \cup {"ilc_fd"}, err5 |-> Base,
   err4 |-> {"loop", "ep_fd", "fd"}, err3 |-> {"loop", "ep_fd"}, err2 |-> {"loop"},
   err |-> {}, null |-> {},
   free_ilc_io |-> OfLoop \cup {"loop"}, free_ilc |-> Base \cup {"ilc_fd", "ilc"},
   free_ilc_fd |-> Base \cup {"ilc_fd"}, free_eev |-> Base,
   free_fd |-> {"loop", "ep_fd", "fd"}, free_ep_fd |-> {"loop", "ep_fd"},
   free_loop |-> {"loop"}, freed |-> {}]

SetupInv == call \in DOMAIN HeldAt /\ held = HeldAt[call] /\ astray = FALSE

LEMMA SetupInitInv == SetupInit => SetupInv
  BY DEF SetupInit, SetupInv, HeldAt

(* A call that succeeds or fails, and a release, lead to a place where     *)
(* what is held is what that place expects.                                *)
LEMMA AcquiresHeld ==
  \A c \in DOMAIN Acquires :
    /\ Acquires[c][1] \in DOMAIN HeldAt /\ Acquires[c][2] \in DOMAIN HeldAt
    /\ HeldAt[Acquires[c][1]] = IF c = "realtime" THEN HeldAt[c] ELSE HeldAt[c] \cup {c}
    /\ HeldAt[Acquires[c][2]] = HeldAt[c]
<1> SUFFICES ASSUME NEW c \in DOMAIN Acquires
             PROVE  /\ Acquires[c][1] \in DOMAIN HeldAt /\ Acquires[c][2] \in DOMAIN HeldAt
                    /\ HeldAt[Acquires[c][1]] =
                         IF c = "realtime" THEN HeldAt[c] ELSE HeldAt[c] \cup {c}
                    /\ HeldAt[Acquires[c][2]] = HeldAt[c]
  OBVIOUS
<1>1. CASE c = "loop"
  BY <1>1 DEF Acquires, HeldAt
<1>2. CASE c = "ep_fd"
  BY <1>2 DEF Acquires, HeldAt
<1>3. CASE c = "fd"
  BY <1>3 DEF Acquires, HeldAt
<1>4. CASE c = "eev"
  BY <1>4 DEF Acquires, HeldAt, Base
<1>5. CASE c = "realtime"
  BY <1>5 DEF Acquires, HeldAt
<1>6. CASE c = "dir"
  BY <1>6 DEF Acquires, HeldAt
<1>7. CASE c = "path"
  BY <1>7 DEF Acquires, HeldAt
<1>8. CASE c = "ilc_fd"
  <2>1. Acquires[c][1] = "unlink" /\ Acquires[c][2] = "fifo_err3"
    BY <1>8 DEF Acquires
  <2>2. /\ HeldAt["unlink"] = Base \cup {"dir", "path", "ilc_fd"}
        /\ HeldAt["ilc_fd"] = Base \cup {"dir", "path"}
        /\ HeldAt["fifo_err3"] = Base \cup {"dir", "path"}
        /\ "unlink" \in DOMAIN HeldAt /\ "fifo_err3" \in DOMAIN HeldAt
    BY DEF HeldAt
  <2>3. Base \cup {"dir", "path", "ilc_fd"} = (Base \cup {"dir", "path"}) \cup {"ilc_fd"}
    OBVIOUS
  <2> QED BY <1>8, <2>1, <2>2, <2>3
<1>9. CASE c = "ilc"
  BY <1>9 DEF Acquires, HeldAt
<1>10. CASE c = "ilc_io"
  <2>1. Acquires[c][1] = "ok" /\ Acquires[c][2] = "err7"
    BY <1>10 DEF Acquires
  <2>2. /\ HeldAt["ok"] = OfLoop \cup {"loop"}
        /\ HeldAt["ilc_io"] = Base \cup {"ilc_fd", "ilc"}
        /\ HeldAt["err7"] = Base \cup {"ilc_fd", "ilc"}
        /\ "ok" \in DOMAIN HeldAt /\ "err7" \in DOMAIN HeldAt
    BY DEF HeldAt
  <2>3. OfLoop \cup {"loop"} = (Base \cup {"ilc_fd", "ilc"}) \cup {"ilc_io"}
    BY DEF OfLoop, Base
  <2> QED BY <1>10, <2>1, <2>2, <2>3
<1> QED
  BY <1>1, <1>2, <1>3, <1>4, <1>5, <1>6, <1>7, <1>8, <1>9, <1>10 DEF Acquires

LEMMA ReleasesHeld ==
  \A c \in DOMAIN Releases :
    /\ Releases[c][2] \in DOMAIN HeldAt
    /\ HeldAt[Releases[c][2]] = HeldAt[c] \ {Releases[c][1]}
    /\ Releases[c][1] \in HeldAt[c] /\ "loop" \in HeldAt[c]
  BY DEF Releases, HeldAt, Base, OfLoop

LEMMA FreeLoopHeld ==
  \A c \in DOMAIN FreeLoopReleases :
    /\ FreeLoopReleases[c][2] \in DOMAIN HeldAt
    /\ HeldAt[FreeLoopReleases[c][2]] = HeldAt[c] \ {FreeLoopReleases[c][1]}
    /\ FreeLoopReleases[c][1] \in HeldAt[c] /\ "loop" \in HeldAt[c]
  BY DEF FreeLoopReleases, HeldAt, Base, OfLoop

LEMMA SetupStepInv == SetupInv /\ [SetupNext]_setupVars => SetupInv'
<1> SUFFICES ASSUME SetupInv, [SetupNext]_setupVars PROVE SetupInv'
  OBVIOUS
<1>1. CASE Acquire
  BY <1>1, AcquiresHeld DEF Acquire, SetupInv
<1>2. CASE Unwind
  BY <1>2, ReleasesHeld DEF Unwind, ReleaseBy, SetupInv
<1>3. CASE FreeLoopStep
  BY <1>3, FreeLoopHeld DEF FreeLoopStep, ReleaseBy, SetupInv
<1>4. CASE ReturnNull
  BY <1>4 DEF ReturnNull, SetupInv, HeldAt
<1>5. CASE BeginFree
  BY <1>5 DEF BeginFree, SetupInv, HeldAt
<1>6. CASE SetupEnd \/ UNCHANGED setupVars
  BY <1>6 DEF SetupEnd, setupVars, SetupInv
<1> QED BY <1>1, <1>2, <1>3, <1>4, <1>5, <1>6 DEF SetupNext

(* alloc_loop leaves nothing behind when it fails, and free_loop nothing   *)
(* of a loop.                                                              *)
THEOREM SetupLeavesNothing == SetupSpec => []NothingLeft
<1>1. SetupInv => NothingLeft
  BY DEF SetupInv, NothingLeft, HeldAt
<1> QED BY <1>1, SetupInitInv, SetupStepInv, PTL DEF SetupSpec

-----------------------------------------------------------------------------
(* The descriptors (DaemonFds).  Lowest is an unused descriptor as long as *)
(* one of the first six is.                                                *)
LEMMA LowestIsLowest ==
  ASSUME NEW t, NEW k \in 0..5, t[k] = "closed"
  PROVE  /\ Lowest(t) \in 0..k /\ Lowest(t) \in FdSet
         /\ t[Lowest(t)] = "closed"
         /\ \A g \in 0..(Lowest(t) - 1) : t[g] # "closed"
<1>1. MaxFd \in Nat /\ 5 <= MaxFd
  BY FdsAssumption
<1>2. \E f \in 0..5 : t[f] = "closed" /\ \A g \in 0..(f - 1) : t[g] # "closed"
  <2>1. CASE t[0] = "closed"
    BY <2>1
  <2>2. CASE t[0] # "closed" /\ t[1] = "closed"
    BY <2>2
  <2>3. CASE t[0] # "closed" /\ t[1] # "closed" /\ t[2] = "closed"
    BY <2>3
  <2>4. CASE \A g \in 0..2 : t[g] # "closed"
    <3>1. CASE t[3] = "closed"
      BY <2>4, <3>1
    <3>2. CASE t[3] # "closed" /\ t[4] = "closed"
      BY <2>4, <3>2
    <3>3. CASE t[3] # "closed" /\ t[4] # "closed"
      BY <2>4, <3>3
    <3> QED BY <3>1, <3>2, <3>3
  <2> QED BY <2>1, <2>2, <2>3, <2>4
<1>3. \E f \in FdSet : t[f] = "closed" /\ \A g \in 0..(f - 1) : t[g] # "closed"
  BY <1>1, <1>2 DEF FdSet
<1>4. /\ Lowest(t) \in FdSet /\ t[Lowest(t)] = "closed"
      /\ \A g \in 0..(Lowest(t) - 1) : t[g] # "closed"
  BY <1>3 DEF Lowest
<1>5. Lowest(t) <= k
  BY <1>1, <1>4 DEF FdSet
<1> QED BY <1>4, <1>5 DEF FdSet

(* Beside notify, and fd while it is in use: 0, 1 and 2 are open on one of *)
(* std, the others are closed.                                             *)
Inherited == {"closed", "user"}
Old == {"closed", "user", "pipe_out"}

Others(std) ==
  \A f \in FdSet \ {notify} : table[f] \in IF f < 3 THEN std ELSE {"closed"}

OthersButFd(std, kind) ==
  /\ fd # notify /\ fd <= 4 /\ table[fd] = kind
  /\ \A f \in FdSet \ {notify, fd} : table[f] \in IF f < 3 THEN std ELSE {"closed"}

(* The inductive invariant: what the descriptors are when a call is next.  *)
FdsInv ==
  /\ FdsTypeOK
  /\ NotifyKept
  /\ step = "begin" => \A f \in FdSet : table[f] \in Inherited
  /\ step = "pipe" => \A f \in FdSet : table[f] \in IF f < 3 THEN Inherited ELSE {"closed"}
  /\ step = "move" => notify <= 4 /\ Others(Inherited)
  /\ step \in {"open_in", "dup_in", "open_out", "dup_out", "pid_file", "daemon", "notified"}
       => notify \in {3, 4}
  /\ step = "open_in" => Others(Old)
  /\ step = "dup_in" => OthersButFd(Old, "null_in")
  /\ step = "open_out" => table[0] = "null_in" /\ \A f \in FdSet \ {0, notify} :
                            table[f] \in IF f < 3 THEN Old ELSE {"closed"}
  /\ step = "dup_out" => /\ fd \in 1..4 /\ fd # notify
                         /\ table[0] = "null_in" /\ table[fd] = "null_out"
                         /\ \A f \in FdSet \ {0, notify, fd} :
                              table[f] \in IF f < 3 THEN Old ELSE {"closed"}
  /\ step \in {"pid_file", "daemon", "notified"} =>
       table[0] = "null_in" /\ table[1] = "null_out" /\ table[2] = "null_out"
  /\ step = "pid_file" => \A f \in FdSet \ {0, 1, 2, notify} : table[f] = "closed"
  /\ step \in {"daemon", "notified"} =>
       \E p \in {3, 4, 5} \ {notify} :
         /\ table[p] = "pid_file"
         /\ \A f \in FdSet \ {0, 1, 2, p, notify} : table[f] = "closed"
  /\ step = "notified" => table[notify] = "closed"
LEMMA FdsInitInv == FdsInit => FdsInv
<1> SUFFICES ASSUME FdsInit PROVE FdsInv
  OBVIOUS
<1>1. 0 \in FdSet
  BY FdsAssumption DEF FdSet
<1>2. FdsTypeOK /\ NotifyKept
  BY <1>1 DEF FdsInit, FdsTypeOK, NotifyKept
<1> QED BY <1>2 DEF FdsInit, FdsInv, Inherited

LEMMA FdsStepInv == FdsInv /\ [FdsNext]_fdsVars => FdsInv'
<1> SUFFICES ASSUME FdsInv, [FdsNext]_fdsVars PROVE FdsInv'
  OBVIOUS
<1> DEFINE Kinds == {"closed", "user", "pipe_in", "pipe_out", "null_in", "null_out", "pid_file"}
<1>0. /\ {0, 1, 2, 3, 4, 5} \subseteq FdSet /\ FdSet \subseteq Nat
      /\ table \in [FdSet -> Kinds] /\ notify \in FdSet /\ fd \in FdSet
  BY FdsAssumption DEF FdSet, FdsInv, FdsTypeOK
<1>1. CASE CloseExtraFds
  <2>1. PICK left \in SUBSET {f \in FdSet : f >= 3} :
          /\ table' = [f \in FdSet |-> IF f < 3 \/ f \in left THEN table[f] ELSE "closed"]
          /\ step' \in {"returned"} \cup (IF left = {} THEN {"pipe"} ELSE {})
    BY <1>1 DEF CloseExtraFds
  <2>2. step = "begin" /\ UNCHANGED <<notify, fd>>
    BY <1>1 DEF CloseExtraFds
  <2>3. table' \in [FdSet -> Kinds]
    BY <2>1, <1>0
  <2>4. step' = "returned" \/ (step' = "pipe" /\ left = {})
    BY <2>1
  <2>5. step' = "pipe" => \A f \in FdSet : table'[f] \in IF f < 3 THEN Inherited ELSE {"closed"}
    <3>1. \A f \in FdSet : table[f] \in Inherited
      BY <2>2 DEF FdsInv
    <3> QED BY <2>1, <2>4, <1>0, <3>1 DEF Inherited
  <2> QED BY <2>2, <2>3, <2>4, <2>5, <1>0 DEF FdsInv, FdsTypeOK, NotifyKept
<1>2. CASE PipeAndFork
  <2>1. CASE step' = "returned" /\ UNCHANGED <<table, notify>>
    BY <1>2, <2>1, <1>0 DEF PipeAndFork, FdsInv, FdsTypeOK, NotifyKept
  <2>2. CASE step' = "move"
    <3>0. /\ step = "pipe" /\ fd' = fd
          /\ \A f \in FdSet : table[f] \in IF f < 3 THEN Inherited ELSE {"closed"}
      BY <1>2, <2>2 DEF PipeAndFork, FdsInv
    <3> DEFINE r == Lowest(table)
               t == [table EXCEPT ![r] = "pipe_in"]
               w == Lowest(t)
    <3>1. r \in 0..3 /\ r \in FdSet /\ table[r] = "closed"
      BY <3>0, <1>0, LowestIsLowest
    <3>2. t[4] = "closed" /\ r # 4
      BY <3>0, <3>1, <1>0
    <3> HIDE DEF r
    <3> HIDE DEF t
    <3>3. w \in 0..4 /\ w \in FdSet /\ t[w] = "closed"
      BY <3>2, LowestIsLowest
    <3>4. w # r
      BY <3>1, <3>3, <1>0 DEF t
    <3>5. table' = Close([t EXCEPT ![w] = "pipe_out"], r) /\ notify' = w
      BY <1>2, <2>2 DEF PipeAndFork, r, t
    <3> HIDE DEF w
    <3>6. \A f \in FdSet : table'[f] = IF f = r THEN "closed"
                                       ELSE IF f = w THEN "pipe_out" ELSE table[f]
      BY <3>1, <3>3, <3>5, <1>0 DEF Close, t
    <3>7. table' \in [FdSet -> Kinds]
      BY <3>1, <3>3, <3>5, <1>0 DEF Close, t
    <3>8. FdsTypeOK'
      BY <3>0, <3>3, <3>5, <3>7, <2>2, <1>0 DEF FdsTypeOK
    <3>9. notify' <= 4 /\ table'[notify'] = "pipe_out"
      <4>1. w <= 4 /\ table'[w] = "pipe_out"
        BY <3>3, <3>4, <3>6
      <4> QED BY <4>1, <3>5
    <3>10. Others(Inherited)'
      BY <3>0, <3>1, <3>5, <3>6, <1>0 DEF Others, Inherited
    <3> QED BY <3>8, <3>9, <3>10, <2>2 DEF FdsInv, NotifyKept
  <2> QED BY <1>2, <2>1, <2>2 DEF PipeAndFork
<1>3. CASE Fails
  BY <1>3 DEF Fails, FdsInv, FdsTypeOK, NotifyKept
<1>4. CASE MoveNotify
  <2>1. /\ step = "move" /\ step' = "open_in" /\ fd' = fd
        /\ notify <= 4 /\ table[notify] = "pipe_out" /\ Others(Inherited)
    BY <1>4 DEF MoveNotify, FdsInv, NotifyKept
  <2>2. CASE notify < 3
    <3>1. table' = [table EXCEPT ![3] = "pipe_out"] /\ notify' = 3
      BY <1>4, <2>1, <2>2 DEF MoveNotify, Dup2
    <3> QED
      BY <2>1, <2>2, <3>1, <1>0 DEF FdsInv, FdsTypeOK, NotifyKept, Others, Inherited, Old
  <2>3. CASE ~(notify < 3)
    <3>1. UNCHANGED <<table, notify>>
      BY <1>4, <2>3 DEF MoveNotify
    <3> QED
      BY <2>1, <2>3, <3>1, <1>0 DEF FdsInv, FdsTypeOK, NotifyKept, Others, Inherited, Old
  <2> QED BY <2>2, <2>3
<1>5. CASE OpenIn
  <2>1. /\ step = "open_in" /\ step' = "dup_in" /\ notify' = notify
        /\ fd' = Lowest(table) /\ table' = [table EXCEPT ![fd'] = "null_in"]
        /\ notify \in {3, 4} /\ table[notify] = "pipe_out" /\ Others(Old)
    BY <1>5 DEF OpenIn, OpenNull, FdsInv, NotifyKept
  <2>2. table[7 - notify] = "closed" /\ 7 - notify \in 0..4
    BY <2>1, <1>0 DEF Others
  <2>3. fd' \in 0..4 /\ fd' \in FdSet /\ table[fd'] = "closed"
    BY <2>1, <2>2, LowestIsLowest
  <2>4. fd' # notify
    BY <2>1, <2>3
  <2> QED
    BY <2>1, <2>3, <2>4, <1>0
    DEF FdsInv, FdsTypeOK, NotifyKept, Others, OthersButFd, Old
<1>6. CASE DupIn
  <2>1. /\ step = "dup_in" /\ step' = "open_out" /\ UNCHANGED <<notify, fd>>
        /\ notify \in {3, 4} /\ table[notify] = "pipe_out" /\ OthersButFd(Old, "null_in")
    BY <1>6 DEF DupIn, FdsInv, NotifyKept
  <2>2. \A f \in FdSet : table'[f] = IF f = 0 THEN "null_in"
                                     ELSE IF f = fd THEN "closed" ELSE table[f]
    BY <1>6, <2>1, <1>0 DEF DupIn, Close, Dup2, OthersButFd
  <2>3. table' \in [FdSet -> Kinds]
    BY <1>6, <1>0 DEF DupIn, Close, Dup2
  <2> QED
    BY <2>1, <2>2, <2>3, <1>0 DEF FdsInv, FdsTypeOK, NotifyKept, OthersButFd, Old
<1>7. CASE OpenOut
  <2>1. /\ step = "open_out" /\ step' = "dup_out" /\ notify' = notify
        /\ fd' = Lowest(table) /\ table' = [table EXCEPT ![fd'] = "null_out"]
        /\ notify \in {3, 4} /\ table[notify] = "pipe_out" /\ table[0] = "null_in"
        /\ \A f \in FdSet \ {0, notify} : table[f] \in IF f < 3 THEN Old ELSE {"closed"}
    BY <1>7 DEF OpenOut, OpenNull, FdsInv, NotifyKept
  <2>2. table[7 - notify] = "closed" /\ 7 - notify \in 0..4
    BY <2>1, <1>0
  <2>3. fd' \in 0..4 /\ fd' \in FdSet /\ table[fd'] = "closed"
    BY <2>1, <2>2, LowestIsLowest
  <2>4. fd' # notify /\ fd' # 0
    BY <2>1, <2>3
  <2> QED
    BY <2>1, <2>3, <2>4, <1>0 DEF FdsInv, FdsTypeOK, NotifyKept, Old
<1>8. CASE DupOut
  <2>1. /\ step = "dup_out" /\ step' = "pid_file" /\ UNCHANGED <<notify, fd>>
        /\ notify \in {3, 4} /\ table[notify] = "pipe_out"
        /\ fd \in 1..4 /\ fd # notify /\ table[0] = "null_in" /\ table[fd] = "null_out"
        /\ \A f \in FdSet \ {0, notify, fd} : table[f] \in IF f < 3 THEN Old ELSE {"closed"}
    BY <1>8 DEF DupOut, FdsInv, NotifyKept
  <2> DEFINE both == Dup2(Dup2(table, fd, 1), fd, 2)
  <2>2. /\ \A f \in FdSet : both[f] = IF f \in {1, 2} THEN "null_out" ELSE table[f]
        /\ both \in [FdSet -> Kinds]
    BY <2>1, <1>0 DEF Dup2
  <2>3. table' = IF fd \in {1, 2} THEN both ELSE Close(both, fd)
    BY <1>8 DEF DupOut
  <2> HIDE DEF both
  <2>4. \A f \in FdSet : table'[f] = IF f \in {1, 2} THEN "null_out"
                                     ELSE IF f = fd THEN "closed" ELSE table[f]
    BY <2>1, <2>2, <2>3, <1>0 DEF Close
  <2>5. table' \in [FdSet -> Kinds]
    BY <2>2, <2>3, <1>0 DEF Close
  <2> QED
    BY <2>1, <2>4, <2>5, <1>0 DEF FdsInv, FdsTypeOK, NotifyKept
<1>9. CASE OpenPidFile
  <2> DEFINE p == Lowest(table)
  <2>1. /\ step = "pid_file" /\ step' = "daemon" /\ UNCHANGED <<notify, fd>>
        /\ table' = [table EXCEPT ![p] = "pid_file"]
        /\ notify \in {3, 4} /\ table[notify] = "pipe_out"
        /\ table[0] = "null_in" /\ table[1] = "null_out" /\ table[2] = "null_out"
        /\ \A f \in FdSet \ {0, 1, 2, notify} : table[f] = "closed"
    BY <1>9 DEF OpenPidFile, FdsInv, NotifyKept
  <2>2. table[7 - notify] = "closed" /\ 7 - notify \in 0..4
    BY <2>1, <1>0
  <2>3. p \in 0..4 /\ p \in FdSet /\ table[p] = "closed"
    BY <2>2, LowestIsLowest
  <2>4. p \in {3, 4, 5} \ {notify}
    BY <2>1, <2>3
  <2> HIDE DEF p
  <2>5. /\ table'[p] = "pid_file" /\ \A f \in FdSet \ {p} : table'[f] = table[f]
        /\ table' \in [FdSet -> Kinds]
    BY <2>1, <2>3, <1>0
  <2>6. \A f \in FdSet \ {0, 1, 2, p, notify} : table'[f] = "closed"
    BY <2>1, <2>5
  <2> QED
    BY <2>1, <2>4, <2>5, <2>6, <1>0 DEF FdsInv, FdsTypeOK, NotifyKept
<1>10. CASE CloseNotify
  <2>1. /\ step = "daemon" /\ step' = "notified" /\ UNCHANGED <<notify, fd>>
        /\ table' = [table EXCEPT ![notify] = "closed"]
        /\ notify \in {3, 4}
        /\ table[0] = "null_in" /\ table[1] = "null_out" /\ table[2] = "null_out"
    BY <1>10 DEF CloseNotify, Close, FdsInv
  <2>2. PICK p \in {3, 4, 5} \ {notify} :
          /\ table[p] = "pid_file"
          /\ \A f \in FdSet \ {0, 1, 2, p, notify} : table[f] = "closed"
    BY <2>1 DEF FdsInv
  <2>3. /\ table'[p] = "pid_file"
        /\ \A f \in FdSet \ {0, 1, 2, p, notify} : table'[f] = "closed"
    BY <2>1, <2>2, <1>0
  <2> QED BY <2>1, <2>2, <2>3, <1>0 DEF FdsInv, FdsTypeOK, NotifyKept
<1>11. CASE FdsEnd \/ UNCHANGED fdsVars
  BY <1>11
  DEF FdsEnd, fdsVars, FdsInv, FdsTypeOK, NotifyKept, Others, OthersButFd
<1> QED
  BY <1>1, <1>2, <1>3, <1>4, <1>5, <1>6, <1>7, <1>8, <1>9, <1>10, <1>11 DEF FdsNext

LEMMA FdsInvKept == FdsInv => DescriptorsKept
<1> SUFFICES ASSUME FdsInv, step \in {"daemon", "notified"} PROVE CleanTable
  BY DEF FdsInv, DescriptorsKept, CleanTable
<1>1. /\ {0, 1, 2, 3, 4, 5} \subseteq FdSet
      /\ notify \in {3, 4}
      /\ table[0] = "null_in" /\ table[1] = "null_out" /\ table[2] = "null_out"
      /\ table[notify] = IF step = "daemon" THEN "pipe_out" ELSE "closed"
  BY FdsAssumption DEF FdsInv, FdSet, NotifyKept
<1>2. PICK p \in {3, 4, 5} \ {notify} :
        /\ table[p] = "pid_file"
        /\ \A f \in FdSet \ {0, 1, 2, p, notify} : table[f] = "closed"
  BY DEF FdsInv
<1>3. \A f \in FdSet : \/ f \in {0, 1, 2} \/ f = p \/ f = notify \/ table[f] = "closed"
  BY <1>2
<1>4. Opened("null_in") = {0} /\ Opened("null_out") = {1, 2}
  BY <1>1, <1>2, <1>3 DEF Opened
<1>5. Opened("user") = {} /\ Opened("pipe_in") = {}
  BY <1>1, <1>2, <1>3 DEF Opened
<1>6. Opened("pid_file") = {p} /\ p \in FdSet
  BY <1>1, <1>2, <1>3 DEF Opened
<1>7. Opened("pipe_out") = IF step = "daemon" THEN {notify} ELSE {}
  BY <1>1, <1>2, <1>3 DEF Opened
<1> QED BY <1>4, <1>5, <1>6, <1>7 DEF CleanTable

(* Whichever of 0, 1 and 2 the caller had closed and however many          *)
(* descriptors there are, the redirections keep the pipe to the caller and *)
(* leave the daemon /dev/null, its pid file and nothing else.              *)
THEOREM DaemonKeepsDescriptors == FdsSpec => []DescriptorsKept
  BY FdsInitInv, FdsStepInv, FdsInvKept, PTL DEF FdsSpec

-----------------------------------------------------------------------------
(* The four parts side by side (MCStart).                                  *)
THEOREM StartIsTyped == MCSpec => []StartTypeOK
<1> DEFINE Inv == DaemonInv /\ FdsInv /\ PrivilegeInv /\ SetupInv
<1>1. MCInit => Inv
  BY DaemonInitInv, FdsInitInv, PrivilegeInitInv, SetupInitInv DEF MCInit
<1>2. Inv /\ [MCNext]_startVars => Inv'
  <2>1. [MCNext]_startVars => /\ [DaemonNext]_daemonVars /\ [FdsNext]_fdsVars
                              /\ [PrivilegeNext]_privilegeVars /\ [SetupNext]_setupVars
    BY DEF MCNext, startVars
  <2> QED BY <2>1, DaemonStepInv, FdsStepInv, PrivilegeStepInv, SetupStepInv
<1>3. Inv => StartTypeOK
  <2>1. SetupInv => SetupTypeOK
    <3> SUFFICES ASSUME SetupInv PROVE SetupTypeOK
      OBVIOUS
    <3>1. DOMAIN HeldAt \subseteq DOMAIN Acquires \cup DOMAIN Releases
               \cup DOMAIN FreeLoopReleases \cup {"err", "ok", "null", "freed"}
      BY DEF HeldAt, Acquires, Releases, FreeLoopReleases
    <3>2. ASSUME NEW c \in DOMAIN HeldAt
          PROVE  HeldAt[c] \subseteq OfLoop \cup {"loop", "dir", "path"}
      BY DEF HeldAt, OfLoop, Base
    <3> QED BY <3>1, <3>2 DEF SetupInv, SetupTypeOK
  <2> QED BY <2>1 DEF StartTypeOK, DaemonInv, FdsInv, PrivilegeInv
<1>4. MCSpec => MCInit /\ [][MCNext]_startVars
  BY DEF MCSpec
<1> QED BY <1>1, <1>2, <1>3, <1>4, PTL

-----------------------------------------------------------------------------
(* The operations on bits that threads and handlers share (AtomicBits).    *)
Masked == {"lock", "swap", "unlock", "unmask"}

(* The mutex belongs to the context that is between Lock and Unlock. *)
OneHolds == \A c \in Context : global_sync_lock = c <=> pc[c] \in {"swap", "unlock"}

(* A thread stays where it is while its handler runs, and that is never    *)
(* where signals are masked, nor where its own code blocks them.           *)
HandlerInterrupts ==
    \A t \in Thread : pc[Handler(t)] # "idle" => ~masks[t] /\ pc[Main(t)] \notin Masked

(* The mask to restore is the one of before. *)
MaskSaved ==
    \A c \in Context : pc[c] \in Masked => oset[c] = (masks[c[1]] \/ c[2] = "handler")

(* An operation is known from its call to its return. *)
OpKnown == \A c \in Context : pc[c] # "idle" => op[c] \in Op

(* The inductive invariant. *)
AtomicInv ==
    /\ AtomicTypeOK /\ OneHolds /\ HandlerInterrupts /\ MaskSaved /\ MaskRestored /\ OpKnown

-----------------------------------------------------------------------------
LEMMA Contexts ==
    ASSUME NEW c \in Context
    PROVE  /\ c[1] \in Thread /\ c[2] \in {"main", "handler"}
           /\ c = <<c[1], c[2]>>
           /\ c # None
           /\ c[2] = "main" => c = Main(c[1])
           /\ c[2] = "handler" => c = Handler(c[1])
BY NoneAssumption DEF Context, Main, Handler

LEMMA MainAndHandler ==
    ASSUME NEW t \in Thread
    PROVE  /\ Main(t) \in Context /\ Handler(t) \in Context
           /\ Main(t) # Handler(t)
           /\ Main(t)[1] = t /\ Main(t)[2] = "main"
           /\ Handler(t)[1] = t /\ Handler(t)[2] = "handler"
BY DEF Context, Main, Handler

LEMMA Distinct ==
    ASSUME NEW t \in Thread, NEW u \in Thread
    PROVE  /\ Main(t) # Handler(u)
           /\ Main(t) = Main(u) => t = u
           /\ Handler(t) = Handler(u) => t = u
BY DEF Main, Handler

LEMMA ValType ==
    ASSUME NEW o \in Op, NEW w \in SUBSET Bit
    PROVE  Val(o, w) \in SUBSET Bit
<1>1. o.kind \in Kind /\ o.bit \in Bit
  BY OpAssumption
<1>2. CASE o.kind = "set"
  BY <1>1, <1>2 DEF Val
<1>3. CASE o.kind = "clear"
  BY <1>1, <1>3 DEF Val
<1>4. CASE o.kind = "change"
  BY <1>1, <1>4 DEF Val
<1> QED BY <1>1, <1>2, <1>3, <1>4 DEF Kind

-----------------------------------------------------------------------------
LEMMA InitInv == Init => AtomicInv
<1> SUFFICES ASSUME Init PROVE AtomicInv
  OBVIOUS
<1> USE DEF Init
<1>1. AtomicTypeOK
  BY DEF AtomicTypeOK
<1>2. OneHolds
  BY Contexts DEF OneHolds
<1>3. HandlerInterrupts /\ MaskRestored
  BY MainAndHandler DEF HandlerInterrupts, MaskRestored
<1>4. MaskSaved /\ OpKnown
  BY DEF MaskSaved, Masked, OpKnown
<1> QED BY <1>1, <1>2, <1>3, <1>4 DEF AtomicInv

(* Types, the mutex, and what is known of the operation. *)
LEMMA StepType == AtomicInv /\ [Next]_vars => AtomicTypeOK'
<1> SUFFICES ASSUME AtomicInv, [Next]_vars PROVE AtomicTypeOK'
  OBVIOUS
<1> USE DEF AtomicInv, AtomicTypeOK, At, locals
<1>1. ASSUME NEW t \in Thread, NEW o \in Op, Call(t, o) PROVE AtomicTypeOK'
  BY <1>1, MainAndHandler DEF Call
<1>2. ASSUME NEW t \in Thread, NEW o \in HandlerOp, Signal(t, o) PROVE AtomicTypeOK'
  BY <1>2, MainAndHandler, OpAssumption DEF Signal
<1>3. ASSUME NEW c \in Context, Step(c) PROVE AtomicTypeOK'
  <2>1. CASE Read(c)
    BY <2>1 DEF Read
  <2> HIDE DEF AtomicInv
  <2>2. ASSUME pc[c] \in {"cas", "swap"}, Swap(c)
        PROVE  word' \in SUBSET Bit /\ found' \in [Context -> SUBSET Bit]
    <3>1. op[c] \in Op /\ old[c] \in SUBSET Bit
      BY <2>2 DEF AtomicInv, OpKnown
    <3>2. Val(op[c], old[c]) \in SUBSET Bit
      BY <3>1, ValType
    <3> QED BY <2>2, <3>2 DEF Swap, AtomicInv
  <2>3. CASE Native(c)
    BY <2>2, <2>3 DEF Native, AtomicInv
  <2>4. CASE MaskAll(c)
    BY <2>4, Contexts DEF MaskAll, AtomicInv
  <2>5. CASE Lock(c)
    BY <2>5 DEF Lock, AtomicInv
  <2>6. CASE Emulate(c)
    BY <2>2, <2>6 DEF Emulate, AtomicInv
  <2>7. CASE Unlock(c)
    BY <2>7 DEF Unlock, AtomicInv
  <2>8. CASE Restore(c)
    BY <2>8, Contexts DEF Restore, AtomicInv
  <2>9. CASE Retry(c)
    BY <2>9 DEF Retry, Forget, AtomicInv
  <2>10. CASE Return(c)
    BY <2>10, Contexts DEF Return, Forget, AtomicInv
  <2> QED BY <1>3, <2>1, <2>3, <2>4, <2>5, <2>6, <2>7, <2>8, <2>9, <2>10 DEF Step
<1>4. CASE UNCHANGED vars
  BY <1>4 DEF vars
<1> QED BY <1>1, <1>2, <1>3, <1>4 DEF Next

-----------------------------------------------------------------------------
(* A step of c moves c alone, and finds its thread's handler idle when c   *)
(* is not that handler.                                                    *)
LEMMA OnlyOneMoves ==
    ASSUME AtomicInv, NEW c \in Context, NEW here, NEW there, At(c, here, there)
    PROVE  /\ pc[c] = here /\ pc'[c] = there
           /\ \A d \in Context \ {c} : pc'[d] = pc[d]
           /\ c[2] = "main" => pc[Handler(c[1])] = "idle"
BY DEF At, Running, AtomicInv, AtomicTypeOK

LEMMA StepHolds == AtomicInv /\ [Next]_vars => OneHolds'
<1> SUFFICES ASSUME AtomicInv, [Next]_vars, NEW d \in Context
             PROVE  global_sync_lock' = d <=> pc'[d] \in {"swap", "unlock"}
  BY DEF OneHolds
<1>0. OneHolds
  BY DEF AtomicInv
<1>1. ASSUME NEW t \in Thread, NEW o \in Op, Call(t, o)
      PROVE  global_sync_lock' = d <=> pc'[d] \in {"swap", "unlock"}
  BY <1>0, <1>1, OnlyOneMoves, MainAndHandler DEF Call, OneHolds
<1>2. ASSUME NEW t \in Thread, NEW o \in HandlerOp, Signal(t, o)
      PROVE  global_sync_lock' = d <=> pc'[d] \in {"swap", "unlock"}
  BY <1>0, <1>2, OnlyOneMoves, MainAndHandler DEF Signal, OneHolds
<1>3. ASSUME NEW c \in Context, Step(c)
      PROVE  global_sync_lock' = d <=> pc'[d] \in {"swap", "unlock"}
  <2>1. CASE Read(c)
    BY <1>0, <2>1, OnlyOneMoves DEF Read, OneHolds
  <2>2. CASE Native(c)
    BY <1>0, <2>2, OnlyOneMoves DEF Native, OneHolds
  <2>3. CASE MaskAll(c)
    BY <1>0, <2>3, OnlyOneMoves DEF MaskAll, OneHolds
  <2>4. CASE Lock(c)
    BY <1>0, <2>4, OnlyOneMoves, Contexts DEF Lock, OneHolds
  <2>5. CASE Emulate(c)
    BY <1>0, <2>5, OnlyOneMoves DEF Emulate, OneHolds
  <2>6. CASE Unlock(c)
    BY <1>0, <2>6, OnlyOneMoves, Contexts DEF Unlock, OneHolds
  <2>7. CASE Restore(c)
    BY <1>0, <2>7, OnlyOneMoves DEF Restore, OneHolds
  <2>8. CASE Retry(c)
    BY <1>0, <2>8, OnlyOneMoves DEF Retry, OneHolds
  <2>9. CASE Return(c)
    BY <1>0, <2>9, OnlyOneMoves DEF Return, OneHolds
  <2> QED BY <1>3, <2>1, <2>2, <2>3, <2>4, <2>5, <2>6, <2>7, <2>8, <2>9 DEF Step
<1>4. CASE UNCHANGED vars
  BY <1>0, <1>4 DEF vars, OneHolds
<1> QED BY <1>1, <1>2, <1>3, <1>4 DEF Next

LEMMA StepOp == AtomicInv /\ [Next]_vars => OpKnown'
<1> SUFFICES ASSUME AtomicInv, [Next]_vars, NEW d \in Context, pc'[d] # "idle"
             PROVE  op'[d] \in Op
  BY DEF OpKnown
<1>0. OpKnown /\ op \in [Context -> Op \union {NoOp}]
  BY DEF AtomicInv, AtomicTypeOK
<1>1. ASSUME NEW t \in Thread, NEW o \in Op, Call(t, o) PROVE op'[d] \in Op
  BY <1>0, <1>1, OnlyOneMoves, MainAndHandler DEF Call, OpKnown
<1>2. ASSUME NEW t \in Thread, NEW o \in HandlerOp, Signal(t, o) PROVE op'[d] \in Op
  BY <1>0, <1>2, OnlyOneMoves, MainAndHandler, OpAssumption DEF Signal, OpKnown
<1>3. ASSUME NEW c \in Context, Step(c) PROVE op'[d] \in Op
  <2>1. CASE Return(c)
    BY <1>0, <2>1, OnlyOneMoves DEF Return, OpKnown
  <2>2. CASE ~Return(c)
    <3>1. op' = op /\ pc[c] # "idle" /\ \A e \in Context \ {c} : pc'[e] = pc[e]
      BY <1>3, <2>2, OnlyOneMoves
         DEF Step, Read, Native, MaskAll, Lock, Emulate, Unlock, Restore, Retry, locals
    <3> QED BY <1>0, <3>1 DEF OpKnown
  <2> QED BY <2>1, <2>2
<1>4. CASE UNCHANGED vars
  BY <1>0, <1>4 DEF vars, OpKnown
<1> QED BY <1>1, <1>2, <1>3, <1>4 DEF Next

(* The thread of the context that moves has its mask changed, no other.    *)
LEMMA OthersKeepMask ==
    ASSUME AtomicInv, NEW c \in Context, NEW here, NEW there, At(c, here, there),
           NEW m \in BOOLEAN, blocked' = [blocked EXCEPT ![c[1]] = m],
           masks' = masks, NEW u \in Thread, u # c[1]
    PROVE  /\ blocked'[u] = blocked[u]
           /\ pc'[Main(u)] = pc[Main(u)] /\ pc'[Handler(u)] = pc[Handler(u)]
BY OnlyOneMoves, MainAndHandler DEF AtomicInv, AtomicTypeOK

LEMMA SameThread ==
    ASSUME AtomicInv, NEW c \in Context, NEW here, NEW there, At(c, here, there)
    PROVE  LET t == c[1]
           IN  \/ c = Main(t) /\ pc'[Main(t)] = there /\ pc[Main(t)] = here
                 /\ pc[Handler(t)] = "idle" /\ pc'[Handler(t)] = "idle"
               \/ c = Handler(t) /\ pc'[Handler(t)] = there /\ pc[Handler(t)] = here
                 /\ pc'[Main(t)] = pc[Main(t)]
<1>1. c[1] \in Thread /\ (c = Main(c[1]) \/ c = Handler(c[1]))
  BY Contexts
<1>2. CASE c = Main(c[1])
  BY <1>1, <1>2, OnlyOneMoves, MainAndHandler
<1>3. CASE c = Handler(c[1])
  BY <1>1, <1>3, OnlyOneMoves, MainAndHandler
<1> QED BY <1>1, <1>2, <1>3

(* What the signal masks owe to the handlers, in one formula per thread.   *)
MaskOf(t) ==
    /\ pc[Handler(t)] # "idle" => ~masks[t] /\ pc[Main(t)] \notin Masked
    /\ blocked[t] = (masks[t] \/ pc[Handler(t)] # "idle" \/ pc[Main(t)] \in Masked)

LEMMA MaskOfAll ==
    (\A t \in Thread : MaskOf(t)) <=> HandlerInterrupts /\ MaskRestored
BY DEF MaskOf, HandlerInterrupts, MaskRestored, Masked

LEMMA StepMask == AtomicInv /\ [Next]_vars => HandlerInterrupts' /\ MaskRestored'
<1> SUFFICES ASSUME AtomicInv, [Next]_vars, NEW u \in Thread PROVE MaskOf(u)'
  BY DEF MaskOf, HandlerInterrupts, MaskRestored, Masked
<1>0. /\ \A t \in Thread : MaskOf(t)
      /\ MaskSaved
      /\ blocked \in [Thread -> BOOLEAN] /\ masks \in [Thread -> BOOLEAN]
  BY MaskOfAll DEF AtomicInv, AtomicTypeOK
(* A step that leaves the masks alone and moves no one over their border.  *)
<1>a. ASSUME NEW c \in Context, NEW here, NEW there, At(c, here, there),
             masks' = masks, blocked' = blocked,
             here \in Masked <=> there \in Masked,
             c[2] = "handler" => here # "idle" /\ there # "idle"
      PROVE  MaskOf(u)'
  <2>1. pc'[Handler(u)] # "idle" <=> pc[Handler(u)] # "idle"
    BY <1>a, OnlyOneMoves, MainAndHandler, Contexts
  <2>2. pc'[Main(u)] \in Masked <=> pc[Main(u)] \in Masked
    BY <1>a, OnlyOneMoves, MainAndHandler
  <2> QED BY <1>0, <1>a, <2>1, <2>2 DEF MaskOf
(* A step that sets the mask of its thread, which keeps the promise then.  *)
<1>b. ASSUME NEW c \in Context, NEW here, NEW there, At(c, here, there),
             NEW m \in BOOLEAN, blocked' = [blocked EXCEPT ![c[1]] = m],
             masks' = masks, MaskOf(c[1])'
      PROVE  MaskOf(u)'
  <2>1. CASE u = c[1]
    BY <1>b, <2>1
  <2>2. CASE u # c[1]
    <3>1. /\ blocked'[u] = blocked[u] /\ masks'[u] = masks[u]
          /\ pc'[Main(u)] = pc[Main(u)] /\ pc'[Handler(u)] = pc[Handler(u)]
      BY <1>b, <2>2, OthersKeepMask
    <3> QED BY <1>0, <3>1 DEF MaskOf
  <2> QED BY <2>1, <2>2
<1>1. ASSUME NEW t \in Thread, NEW o \in Op, Call(t, o) PROVE MaskOf(u)'
  BY <1>1, <1>a, MainAndHandler DEF Call, Masked
<1>2. ASSUME NEW t \in Thread, NEW o \in HandlerOp, Signal(t, o) PROVE MaskOf(u)'
  <2>1. At(Handler(t), "idle", "read") /\ masks' = masks /\ ~blocked[t]
    BY <1>2 DEF Signal
  <2>2. Handler(t) \in Context /\ Handler(t)[1] = t /\ Main(t) # Handler(t) /\ Main(t) \in Context
    BY MainAndHandler
  <2>3. pc'[Handler(t)] = "read" /\ pc'[Main(t)] = pc[Main(t)]
    BY <2>1, <2>2, OnlyOneMoves
  <2>4. blocked' = [blocked EXCEPT ![t] = TRUE]
    BY <1>2 DEF Signal
  <2>5. MaskOf(t)'
    BY <1>0, <2>1, <2>3, <2>4 DEF MaskOf
  <2> QED BY <1>b, <2>1, <2>2, <2>4, <2>5
<1>3. ASSUME NEW c \in Context, Step(c) PROVE MaskOf(u)'
  <2>1. CASE Read(c)
    BY <1>a, <2>1 DEF Read, Masked
  <2>2. CASE Native(c)
    BY <1>a, <2>2 DEF Native, Masked
  <2>3. CASE MaskAll(c)
    <3>1. At(c, "cas", "lock") /\ masks' = masks /\ c[1] \in Thread
          /\ blocked' = [blocked EXCEPT ![c[1]] = TRUE]
      BY <2>3, Contexts DEF MaskAll
    <3>2. blocked'[c[1]] = TRUE
      BY <1>0, <3>1
    <3>3. MaskOf(c[1])'
      <4>1. MaskOf(c[1])
        BY <1>0, <3>1
      <4>2. CASE c = Main(c[1]) /\ pc'[Main(c[1])] = "lock" /\ pc'[Handler(c[1])] = "idle"
        BY <3>2, <4>2 DEF MaskOf, Masked
      <4>3. CASE /\ pc'[Handler(c[1])] = "lock" /\ pc[Handler(c[1])] = "cas"
                 /\ pc'[Main(c[1])] = pc[Main(c[1])]
        BY <3>1, <3>2, <4>1, <4>3 DEF MaskOf
      <4> QED BY <3>1, <4>2, <4>3, SameThread
    <3> QED BY <1>b, <3>1, <3>3
  <2>4. CASE Lock(c)
    BY <1>a, <2>4 DEF Lock, Masked
  <2>5. CASE Emulate(c)
    BY <1>a, <2>5 DEF Emulate, Masked
  <2>6. CASE Unlock(c)
    BY <1>a, <2>6 DEF Unlock, Masked
  <2>7. CASE Restore(c)
    <3>1. At(c, "unmask", "check") /\ masks' = masks /\ c[1] \in Thread
          /\ blocked' = [blocked EXCEPT ![c[1]] = oset[c]]
      BY <2>7, Contexts DEF Restore
    <3>2. oset[c] \in BOOLEAN /\ blocked'[c[1]] = oset[c]
      BY <1>0, <3>1 DEF AtomicInv, AtomicTypeOK
    <3>3. oset[c] = (masks[c[1]] \/ c[2] = "handler")
      BY <1>0, <3>1, OnlyOneMoves DEF MaskSaved, Masked
    <3>4. c = Main(c[1]) => c[2] = "main"
      BY <3>1, MainAndHandler
    <3>5. c = Handler(c[1]) => c[2] = "handler"
      BY <3>1, MainAndHandler
    <3>6. MaskOf(c[1])'
      BY <1>0, <3>1, <3>2, <3>3, <3>4, <3>5, SameThread DEF MaskOf, Masked
    <3> QED BY <1>b, <3>1, <3>2, <3>6
  <2>8. CASE Retry(c)
    BY <1>a, <2>8 DEF Retry, Masked
  <2>9. CASE Return(c)
    <3>1. At(c, "check", "idle") /\ masks' = masks /\ c[1] \in Thread
      BY <2>9, Contexts DEF Return
    <3>2. CASE c[2] = "handler"
      <4>1. blocked' = [blocked EXCEPT ![c[1]] = FALSE] /\ c = Handler(c[1])
        BY <2>9, <3>2, Contexts DEF Return
      <4>2. blocked'[c[1]] = FALSE
        BY <1>0, <3>1, <4>1
      <4>3. pc'[Handler(c[1])] = "idle" /\ pc[Handler(c[1])] = "check"
            /\ pc'[Main(c[1])] = pc[Main(c[1])]
        BY <3>1, <4>1, SameThread, MainAndHandler
      <4>4. MaskOf(c[1])'
        BY <1>0, <3>1, <4>2, <4>3 DEF MaskOf
      <4> QED BY <1>b, <3>1, <4>1, <4>4
    <3>3. CASE c[2] # "handler"
      BY <1>a, <2>9, <3>1, <3>3 DEF Return, Masked
    <3> QED BY <3>2, <3>3
  <2> QED BY <1>3, <2>1, <2>2, <2>3, <2>4, <2>5, <2>6, <2>7, <2>8, <2>9 DEF Step
<1>4. CASE UNCHANGED vars
  BY <1>0, <1>4 DEF vars, MaskOf
<1> QED BY <1>1, <1>2, <1>3, <1>4 DEF Next

LEMMA StepSaved == AtomicInv /\ [Next]_vars => MaskSaved'
<1> SUFFICES ASSUME AtomicInv, [Next]_vars, NEW d \in Context, pc'[d] \in Masked
             PROVE  oset'[d] = (masks'[d[1]] \/ d[2] = "handler")
  BY DEF MaskSaved
<1>0. /\ MaskSaved /\ \A t \in Thread : MaskOf(t)
      /\ oset \in [Context -> BOOLEAN]
      /\ blocked \in [Thread -> BOOLEAN] /\ masks \in [Thread -> BOOLEAN]
  BY MaskOfAll DEF AtomicInv, AtomicTypeOK
<1>1. masks' = masks
  BY DEF Next, vars, Call, Signal, Step, Read, Native, MaskAll, Lock, Emulate,
         Unlock, Restore, Retry, Return
<1>2. CASE pc[d] \in Masked /\ oset'[d] = oset[d]
  BY <1>0, <1>1, <1>2 DEF MaskSaved
<1>3. CASE ~(pc[d] \in Masked /\ oset'[d] = oset[d])
  <2>1. PICK c \in Context : Step(c)
    BY <1>3, OnlyOneMoves, MainAndHandler DEF Next, vars, Call, Signal, Masked
  <2>2. MaskAll(c)
    BY <1>0, <1>3, <2>1, OnlyOneMoves
       DEF Step, Read, Native, Lock, Emulate, Unlock, Restore, Retry, Return, Forget, Masked, locals
  <2>3. At(c, "cas", "lock") /\ oset' = [oset EXCEPT ![c] = blocked[c[1]]]
    BY <2>2 DEF MaskAll
  <2>4. d = c
    BY <1>0, <1>3, <2>3, OnlyOneMoves
  <2>5. oset'[d] = blocked[c[1]]
    BY <1>0, <2>3, <2>4
  <2>6. blocked[c[1]] = (masks[c[1]] \/ c[2] = "handler")
    <3>1. c[1] \in Thread
      BY Contexts
    <3>2. CASE c = Main(c[1])
      BY <1>0, <2>3, <3>1, <3>2, OnlyOneMoves, MainAndHandler DEF MaskOf, Masked
    <3>3. CASE c = Handler(c[1])
      BY <1>0, <2>3, <3>1, <3>3, OnlyOneMoves, MainAndHandler DEF MaskOf, Masked
    <3> QED BY <3>2, <3>3, Contexts
  <2> QED BY <1>1, <2>4, <2>5, <2>6
<1> QED BY <1>2, <1>3

LEMMA InvInductive == AtomicInv /\ [Next]_vars => AtomicInv'
BY StepType, StepHolds, StepOp, StepMask, StepSaved DEF AtomicInv

(* No handler ever runs on a thread that holds the mutex, where it would   *)
(* wait for the thread that it interrupts, and every thread gets the       *)
(* signal mask back that it asked for.                                     *)
THEOREM SignalsStayHeldOff == Spec => []SignalsHeldOff
<1>1. AtomicInv => SignalsHeldOff
  BY MainAndHandler
     DEF AtomicInv, SignalsHeldOff, HandlerNeverWaits, OneHolds, HandlerInterrupts, Masked
<1> QED BY <1>1, InitInv, InvInductive, PTL DEF Spec

-----------------------------------------------------------------------------
(* The refinement: each step is one of AtomicWord's, or shows nothing.     *)
abs == [c \in Context |-> AbstractCall(c)]

(* What others see of a context that moves is in its own variables.        *)
MovesAlone(c) ==
    \A d \in Context \ {c} :
        pc'[d] = pc[d] /\ op'[d] = op[d] /\ old'[d] = old[d] /\ found'[d] = found[d]

LEMMA OthersLookTheSame ==
    ASSUME NEW c \in Context, MovesAlone(c)
    PROVE  abs' = [abs EXCEPT ![c] = AbstractCall(c)']
<1>1. ASSUME NEW d \in Context \ {c} PROVE AbstractCall(d)' = AbstractCall(d)
  BY <1>1 DEF MovesAlone, AbstractCall, Swapped
<1> QED BY <1>1 DEF abs

LEMMA InitRefines == Init => W!Init
BY DEF Init, W!Init, W!Idle, AbstractCall, Swapped

LEMMA CallRefines ==
    ASSUME AtomicInv, NEW c \in Context, NEW o \in Op, At(c, "idle", "read"),
           op' = [op EXCEPT ![c] = o], old' = old, found' = found, word' = word
    PROVE  W!Call(c, o)
<1>1. pc[c] = "idle" /\ pc'[c] = "read" /\ MovesAlone(c) /\ op'[c] = o
  BY OnlyOneMoves DEF MovesAlone, AtomicInv, AtomicTypeOK
<1>2. AbstractCall(c) = W!Idle /\ AbstractCall(c)' = W!Pending(o)
  BY <1>1 DEF AbstractCall, Swapped, W!Idle, W!Pending
<1>3. abs' = [abs EXCEPT ![c] = W!Pending(o)] /\ abs[c] = W!Idle
  BY <1>1, <1>2, OthersLookTheSame DEF abs
<1> QED BY <1>3 DEF W!Call, abs

(* The compare and swap: it takes effect when the word is still old.       *)
LEMMA SwapRefines ==
    ASSUME AtomicInv, NEW c \in Context, NEW here \in {"cas", "swap"},
           NEW there \in {"check", "unlock"}, At(c, here, there), Swap(c),
           op' = op, old' = old
    PROVE  W!TakeEffect(c, op[c]) \/ UNCHANGED W!vars
<1>1. /\ pc[c] = here /\ pc'[c] = there /\ MovesAlone(c)
      /\ op'[c] = op[c] /\ old'[c] = old[c] /\ found'[c] = word
  BY OnlyOneMoves DEF MovesAlone, AtomicInv, AtomicTypeOK, Swap
<1>2. AbstractCall(c) = W!Pending(op[c])
  BY <1>1 DEF AbstractCall, Swapped, W!Pending
<1>3. CASE word = old[c]
  <2>1. AbstractCall(c)' = W!Done(op[c].bit \in word)
    BY <1>1, <1>3 DEF AbstractCall, Swapped, W!Done
  <2>2. abs[c] = W!Pending(op[c]) /\ abs' = [abs EXCEPT ![c] = W!Done(op[c].bit \in word)]
    BY <1>1, <1>2, <2>1, OthersLookTheSame DEF abs
  <2>3. word' = W!Apply(op[c], word)
    BY <1>3 DEF Swap, Val, W!Apply
  <2> QED BY <2>2, <2>3 DEF W!TakeEffect, abs
<1>4. CASE word # old[c]
  <2>1. AbstractCall(c)' = W!Pending(op[c])
    BY <1>1, <1>4 DEF AbstractCall, Swapped, W!Pending
  <2>2. abs' = [abs EXCEPT ![c] = abs[c]] /\ word' = word
    BY <1>1, <1>2, <1>4, <2>1, OthersLookTheSame DEF abs, Swap
  <2>3. abs' = abs
    BY <2>2 DEF abs
  <2> QED BY <2>2, <2>3 DEF W!vars, abs
<1> QED BY <1>3, <1>4

(* The steps between leave the operation as it was.                        *)
LEMMA QuietStepRefines ==
    ASSUME NEW c \in Context, MovesAlone(c), AbstractCall(c)' = AbstractCall(c), word' = word
    PROVE  UNCHANGED W!vars
<1>1. abs' = [abs EXCEPT ![c] = abs[c]]
  BY OthersLookTheSame DEF abs
<1> QED BY <1>1 DEF abs, W!vars

LEMMA StepRefines == AtomicInv /\ [Next]_vars => [W!Next]_(W!vars)
<1> SUFFICES ASSUME AtomicInv, [Next]_vars PROVE W!Next \/ UNCHANGED W!vars
  OBVIOUS
<1>1. ASSUME NEW t \in Thread, NEW o \in Op, Call(t, o) PROVE W!Next
  <2>1. W!Call(Main(t), o)
    BY <1>1, CallRefines, MainAndHandler DEF Call
  <2> QED BY <2>1, MainAndHandler DEF W!Next
<1>2. ASSUME NEW t \in Thread, NEW o \in HandlerOp, Signal(t, o) PROVE W!Next
  <2>1. o \in Op /\ W!Call(Handler(t), o)
    BY <1>2, CallRefines, MainAndHandler, OpAssumption DEF Signal
  <2> QED BY <2>1, MainAndHandler DEF W!Next
<1>3. ASSUME NEW c \in Context, Step(c) PROVE W!Next \/ UNCHANGED W!vars
  <2>0. /\ op \in [Context -> Op \union {NoOp}]
        /\ old \in [Context -> SUBSET Bit] /\ found \in [Context -> SUBSET Bit]
    BY DEF AtomicInv, AtomicTypeOK
  <2>1. CASE Read(c)
    <3>1. /\ pc[c] = "read" /\ pc'[c] = "cas" /\ MovesAlone(c) /\ word' = word
          /\ op'[c] = op[c] /\ found'[c] = found[c]
      BY <2>0, <2>1, OnlyOneMoves DEF Read, MovesAlone
    <3>2. AbstractCall(c)' = AbstractCall(c)
      BY <3>1 DEF AbstractCall, Swapped
    <3> QED BY <3>1, <3>2, QuietStepRefines
  <2>2. CASE MaskAll(c)
    <3>1. /\ pc[c] = "cas" /\ pc'[c] = "lock" /\ MovesAlone(c) /\ word' = word
          /\ op'[c] = op[c] /\ old'[c] = old[c] /\ found'[c] = found[c]
      BY <2>0, <2>2, OnlyOneMoves DEF MaskAll, MovesAlone
    <3>2. AbstractCall(c)' = AbstractCall(c)
      BY <3>1 DEF AbstractCall, Swapped
    <3> QED BY <3>1, <3>2, QuietStepRefines
  <2>3. CASE Lock(c)
    <3>1. /\ pc[c] = "lock" /\ pc'[c] = "swap" /\ MovesAlone(c) /\ word' = word
          /\ op'[c] = op[c] /\ old'[c] = old[c] /\ found'[c] = found[c]
      BY <2>0, <2>3, OnlyOneMoves DEF Lock, locals, MovesAlone
    <3>2. AbstractCall(c)' = AbstractCall(c)
      BY <3>1 DEF AbstractCall, Swapped
    <3> QED BY <3>1, <3>2, QuietStepRefines
  <2>4. CASE Unlock(c)
    <3>1. /\ pc[c] = "unlock" /\ pc'[c] = "unmask" /\ MovesAlone(c) /\ word' = word
          /\ op'[c] = op[c] /\ old'[c] = old[c] /\ found'[c] = found[c]
      BY <2>0, <2>4, OnlyOneMoves DEF Unlock, locals, MovesAlone
    <3>2. AbstractCall(c)' = AbstractCall(c)
      BY <3>1 DEF AbstractCall, Swapped
    <3> QED BY <3>1, <3>2, QuietStepRefines
  <2>5. CASE Restore(c)
    <3>1. /\ pc[c] = "unmask" /\ pc'[c] = "check" /\ MovesAlone(c) /\ word' = word
          /\ op'[c] = op[c] /\ old'[c] = old[c] /\ found'[c] = found[c]
      BY <2>0, <2>5, OnlyOneMoves DEF Restore, locals, MovesAlone
    <3>2. AbstractCall(c)' = AbstractCall(c)
      BY <3>1 DEF AbstractCall, Swapped
    <3> QED BY <3>1, <3>2, QuietStepRefines
  <2>6. CASE Retry(c)
    <3>1. /\ pc[c] = "check" /\ pc'[c] = "read" /\ MovesAlone(c) /\ word' = word
          /\ op'[c] = op[c] /\ found[c] # old[c]
      BY <2>0, <2>6, OnlyOneMoves DEF Retry, Forget, MovesAlone
    <3>2. AbstractCall(c)' = AbstractCall(c)
      BY <3>1 DEF AbstractCall, Swapped
    <3> QED BY <3>1, <3>2, QuietStepRefines
  <2>7. CASE Native(c) \/ Emulate(c)
    <3>1. op[c] \in Op
      BY <2>7, OnlyOneMoves DEF Native, Emulate, AtomicInv, OpKnown
    <3>2. W!TakeEffect(c, op[c]) \/ UNCHANGED W!vars
      BY <2>7, SwapRefines DEF Native, Emulate
    <3> QED BY <3>1, <3>2 DEF W!Next
  <2>8. CASE Return(c)
    <3>1. /\ pc[c] = "check" /\ pc'[c] = "idle" /\ found[c] = old[c]
          /\ MovesAlone(c) /\ word' = word
      BY <2>0, <2>8, OnlyOneMoves DEF Return, Forget, MovesAlone
    <3>2. AbstractCall(c) = W!Done(op[c].bit \in old[c]) /\ AbstractCall(c)' = W!Idle
      BY <3>1 DEF AbstractCall, Swapped, W!Done, W!Idle
    <3>3. abs' = [abs EXCEPT ![c] = W!Idle] /\ abs[c].at = "done"
      BY <3>1, <3>2, OthersLookTheSame DEF abs, W!Done
    <3>4. W!Return(c)
      BY <3>1, <3>3 DEF W!Return, abs
    <3> QED BY <3>4 DEF W!Next
  <2> QED BY <1>3, <2>1, <2>2, <2>3, <2>4, <2>5, <2>6, <2>7, <2>8 DEF Step
<1>4. CASE UNCHANGED vars
  BY <1>4 DEF vars, W!vars, AbstractCall, Swapped
<1> QED BY <1>1, <1>2, <1>3, <1>4 DEF Next

(* Every operation takes effect on the word at one moment between its call *)
(* and its return, and answers with the bit as it was just before, with    *)
(* the compiler's compare and swap and with the emulation of it.           *)
THEOREM OperationsAreAtomic == Spec => ImplementsAtomicWord
BY InitInv, InvInductive, InitRefines, StepRefines, PTL DEF Spec, ImplementsAtomicWord, W!Spec

=============================================================================
