------------------------------ MODULE Privilege ------------------------------
(***************************************************************************)
(* daemon_change_privilege (src/src/daemon.c): a process of the superuser  *)
(* confines itself to the home directory of a user and takes that user's   *)
(* ids.  Each call may fail, and what precedes it stays done.              *)
(***************************************************************************)
EXTENDS FiniteSets

VARIABLES
  at,       \* the call that comes next, or "done" and "refused"
  asked,    \* the arguments: [group : BOOLEAN, nochroot : BOOLEAN]
  ids,      \* of the process: "uid", "gid" and "groups", each "root", "other" or "user"
  dir,      \* "root" and "cwd" of the process: "system" or "home"
  env,      \* the variables that are set for the user
  bufs      \* what malloc gave and free did not take back

privilegeVars == <<at, asked, ids, dir, env, bufs>>

Superuser == ids["uid"] = "root"

(* The labels err3, err2 and err free every buffer there is. *)
Refuse ==
  /\ at' = "refused"
  /\ bufs' = {}
  /\ UNCHANGED <<asked, ids, dir, env>>

(* getpwnam_r, with its buffer. *)
FindUser ==
  /\ at = "begin"
  /\ \/ Refuse
     \/ /\ bufs' = {"pwd"}
        /\ at' = IF asked.group THEN "group" ELSE "chroot"
        /\ UNCHANGED <<asked, ids, dir, env>>

(* getgrnam_r; its gid replaces the user's. *)
FindGroup ==
  /\ at = "group"
  /\ \/ Refuse
     \/ /\ bufs' = bufs \cup {"grp"}
        /\ at' = "chroot"
        /\ UNCHANGED <<asked, ids, dir, env>>

(* chroot leaves the working directory where it is, outside the new root. *)
ChangeRoot ==
  /\ at = "chroot"
  /\ \/ /\ asked.nochroot
        /\ at' = "groups"
        /\ UNCHANGED <<asked, ids, dir, env, bufs>>
     \/ ~asked.nochroot /\ Refuse
     \/ /\ ~asked.nochroot /\ Superuser
        /\ dir' = [dir EXCEPT !["root"] = "home"]
        /\ at' = "chdir"
        /\ UNCHANGED <<asked, ids, env, bufs>>

ChangeDir ==
  /\ at = "chdir"
  /\ \/ Refuse
     \/ /\ dir' = [dir EXCEPT !["cwd"] = "home"]
        /\ at' = "groups"
        /\ UNCHANGED <<asked, ids, env, bufs>>

(* setgroups, setresgid, setresuid: the kernel lets the superuser. *)
SetIds(id, next) ==
  /\ at = id
  /\ \/ Refuse
     \/ /\ Superuser
        /\ ids' = [ids EXCEPT ![id] = "user"]
        /\ at' = next
        /\ UNCHANGED <<asked, dir, env, bufs>>

(* Mutant: the user's id is set before the groups. *)
TakeIdsUserFirst ==
  \/ at = "groups" /\ at' = "uid" /\ UNCHANGED <<asked, ids, dir, env, bufs>>
  \/ SetIds("uid", "gid") \/ SetIds("gid", "environ")
TakeIds == SetIds("groups", "gid") \/ SetIds("gid", "uid") \/ SetIds("uid", "environ")

(* setenv of USER and HOME, which may fail between the two. *)
SetEnvironment ==
  /\ at = "environ"
  /\ \/ /\ env' \in {env, env \cup {"USER"}}
        /\ at' = "refused"
        /\ bufs' = {}
     \/ /\ env' = {"USER", "HOME"}
        /\ at' = "done"
        /\ bufs' = {}
  /\ UNCHANGED <<asked, ids, dir>>

PrivilegeEnd == at \in {"done", "refused"} /\ UNCHANGED privilegeVars

-----------------------------------------------------------------------------
(* Any process may call it, in the groups of the one that started it. *)
PrivilegeInit ==
  /\ at = "begin"
  /\ asked \in [group : BOOLEAN, nochroot : BOOLEAN]
  /\ \E who \in {"root", "other"} : ids = [id \in {"uid", "gid", "groups"} |-> who]
  /\ dir = [d \in {"root", "cwd"} |-> "system"]
  /\ env = {}
  /\ bufs = {}

PrivilegeNext ==
  \/ FindUser \/ FindGroup \/ ChangeRoot \/ ChangeDir \/ TakeIds
  \/ SetEnvironment \/ PrivilegeEnd

PrivilegeSpec == PrivilegeInit /\ [][PrivilegeNext]_privilegeVars

-----------------------------------------------------------------------------
PrivilegeTypeOK ==
  /\ at \in {"begin", "group", "chroot", "chdir", "groups", "gid", "uid", "environ", "done",
             "refused"}
  /\ asked \in [group : BOOLEAN, nochroot : BOOLEAN]
  /\ ids \in [{"uid", "gid", "groups"} -> {"root", "other", "user"}]
  /\ dir \in [{"root", "cwd"} -> {"system", "home"}]
  /\ env \subseteq {"USER", "HOME"}
  /\ bufs \subseteq {"pwd", "grp"}

(* Wherever the calls fail, a process that has given up the superuser's id *)
(* keeps none of its groups and, unless told otherwise, is inside its new  *)
(* root; a success means all of it, and no buffer is left.                 *)
GivenUpWhole ==
  /\ ids["uid"] = "user" =>
       /\ ids["gid"] = "user" /\ ids["groups"] = "user"
       /\ asked.nochroot \/ (dir["root"] = "home" /\ dir["cwd"] = "home")
  /\ at = "done" => ids["uid"] = "user" /\ env = {"USER", "HOME"}
  /\ at \in {"done", "refused"} => bufs = {}
=============================================================================
