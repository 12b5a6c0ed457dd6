------------------------------- MODULE MCStart -------------------------------
(***************************************************************************)
(* A service that starts, for TLC, seen in one of four ways, chosen in the *)
(* initial state: the processes of two starts, the descriptors of the one  *)
(* that becomes the daemon, its change of privilege, and the setup of the  *)
(* loop it runs.                                                           *)
(***************************************************************************)
EXTENDS Daemon, DaemonFds, Privilege, LoopSetup

VARIABLE seen                   \* what the behaviour shows
startVars == <<seen, daemonVars, fdsVars, privilegeVars, setupVars>>

Idle == /\ caller = [d \in Starts |-> "idle"] /\ first = [d \in Starts |-> "none"]
        /\ pidFile = Empty
NoFds == table = [f \in FdSet |-> "closed"]
NoPrivilege == asked = [group |-> FALSE, nochroot |-> TRUE] /\ Superuser

MCInit ==
    /\ DaemonInit /\ FdsInit /\ PrivilegeInit /\ SetupInit
    /\ \/ seen = "processes" /\ NoFds /\ NoPrivilege
       \/ seen = "descriptors" /\ Idle /\ NoPrivilege
       \/ seen = "privilege" /\ Idle /\ NoFds
       \/ seen = "setup" /\ Idle /\ NoFds /\ NoPrivilege
MCNext ==
    /\ UNCHANGED seen
    /\ \/ seen = "processes" /\ DaemonNext /\ UNCHANGED <<fdsVars, privilegeVars, setupVars>>
       \/ seen = "descriptors" /\ FdsNext /\ UNCHANGED <<daemonVars, privilegeVars, setupVars>>
       \/ seen = "privilege" /\ PrivilegeNext /\ UNCHANGED <<daemonVars, fdsVars, setupVars>>
       \/ seen = "setup" /\ SetupNext /\ UNCHANGED <<daemonVars, fdsVars, privilegeVars>>
MCSpec == MCInit /\ [][MCNext]_startVars /\ DaemonFairness

-----------------------------------------------------------------------------
(* The types of the four modules. *)
StartTypeOK == DaemonTypeOK /\ FdsTypeOK /\ PrivilegeTypeOK /\ SetupTypeOK
=============================================================================
