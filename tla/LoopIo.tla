------------------------------- MODULE LoopIo -------------------------------
(***************************************************************************)
(* The I/O registrations of an event loop (src/src/loop.c): the table      *)
(* loop->fd, indexed by descriptor, the count loop->activated, and the set *)
(* of descriptors that the kernel's epoll instance watches.  The three are *)
(* updated one after the other by add_io, del_io and close_io, and have to *)
(* agree, because del_io aborts when epoll_ctl refuses what the table says *)
(* and free_loop asserts that nothing is left.                             *)
(***************************************************************************)
EXTENDS Integers, FiniteSets

CONSTANTS
  Fds,       \* the descriptor numbers
  Ios,       \* the struct io objects of the program
  NoIo,      \* the NULL of a table slot
  IlcFd,     \* loop->ilc_fd, registered by alloc_loop
  IlcIo,     \* &loop->ilc_io
  InitSize,  \* the size given to alloc_loop
  LowFds     \* callers only pass descriptors below twice the table size

ASSUME IoAssumption ==
  /\ Fds \subseteq Nat /\ IsFiniteSet(Fds)
  /\ IlcFd \in Fds
  /\ IlcIo \notin Ios /\ NoIo \notin Ios \cup {IlcIo}
  /\ InitSize \in Nat \ {0}
  /\ IlcFd < 2 * InitSize
  /\ LowFds \in BOOLEAN

VARIABLES
  fdTable,    \* fdTable[fd][dir]: loop->fd[fd].io[dir]; NoIo outside the table
  fdSize,     \* loop->fd_size
  activated,  \* loop->activated
  interest,   \* interest[fd]: the events epoll watches fd for, {} if fd is not in it
  open,       \* the descriptors that are open
  closing,    \* passed to close_io and not yet to close(2)
  status      \* "ok", or how the loop ended: "freed", "abort", "assert", "corrupt"

ioVars == <<fdTable, fdSize, activated, interest, open, closing, status>>

Dirs == {"read", "write"}
Other(dir) == IF dir = "read" THEN "write" ELSE "read"

(* The directions in which fd is registered. *)
Registered(fd) == {d \in Dirs : fdTable[fd][d] # NoIo}

-----------------------------------------------------------------------------
(* epoll_ctl(2): what the kernel accepts. *)
AddAccepted(fd) == fd \in open /\ interest[fd] = {}
ModAccepted(fd) == fd \in open /\ interest[fd] # {}

(* add_io when the table has `size' slots: ADD for a new descriptor, MOD   *)
(* for one that is registered in the other direction.                      *)
Register(fd, dir, io, size) ==
  /\ IF Registered(fd) = {} THEN AddAccepted(fd) ELSE ModAccepted(fd)
  /\ interest' = [interest EXCEPT ![fd] = Registered(fd) \cup {dir}]
  /\ fdTable' = [fdTable EXCEPT ![fd][dir] = io]
  /\ activated' = activated + (IF Registered(fd) = {} THEN 1 ELSE 0)
  /\ fdSize' = size
  /\ UNCHANGED <<open, closing, status>>

(* epoll_ctl refuses, for any reason (EEXIST, EBADF, EPERM, ENOMEM...): a   *)
(* table that was enlarged stays so.                                       *)
Refuse(size) ==
  /\ fdSize' = size
  /\ UNCHANGED <<fdTable, activated, interest, open, closing, status>>

(* Callers pass an open descriptor that they have not registered in this   *)
(* direction.  The table grows once, to twice its size;    *)
(* realloc may fail.  If that is not enough the code reads and writes      *)
(* behind the table: the assertion on the slot fails, or the heap is       *)
(* corrupted.                                                              *)
AddIo(fd, dir, io) ==
  /\ status = "ok"
  /\ fd \in open
  /\ fdTable[fd][dir] = NoIo
  /\ LowFds => fd < 2 * fdSize
  /\ \/ fd >= fdSize /\ UNCHANGED ioVars
     \/ LET size == IF fd >= fdSize THEN 2 * fdSize ELSE fdSize
        IN  \/ fd < size /\ (Register(fd, dir, io, size) \/ Refuse(size))
            \/ /\ fd >= size
               /\ fdSize' = size
               /\ status' \in {"assert", "corrupt"}
               /\ UNCHANGED <<fdTable, activated, interest, open, closing>>

(* Mutant: MOD keeps watching the direction that is removed. *)
UnregisterKeepsEvent(fd, dir) ==
  IF ModAccepted(fd)
  THEN /\ interest' = [interest EXCEPT ![fd] = IF Registered(fd) = Dirs THEN {dir} ELSE {}]
       /\ fdTable' = [fdTable EXCEPT ![fd][dir] = NoIo]
       /\ activated' = activated - (IF Registered(fd) = {dir} THEN 1 ELSE 0)
       /\ UNCHANGED <<fdSize, open, closing, status>>
  ELSE /\ status' = "abort"
       /\ UNCHANGED <<fdTable, fdSize, activated, interest, open, closing>>

(* del_io: MOD while the other direction stays, DEL otherwise; a refusal   *)
(* by the kernel aborts the program.                                       *)
Unregister(fd, dir) ==
  IF ModAccepted(fd)
  THEN /\ interest' = [interest EXCEPT ![fd] = Registered(fd) \ {dir}]
       /\ fdTable' = [fdTable EXCEPT ![fd][dir] = NoIo]
       /\ activated' = activated - (IF Registered(fd) = {dir} THEN 1 ELSE 0)
       /\ UNCHANGED <<fdSize, open, closing, status>>
  ELSE /\ status' = "abort"
       /\ UNCHANGED <<fdTable, fdSize, activated, interest, open, closing>>

DelIo(fd, dir) ==
  /\ status = "ok"
  /\ IF fd < fdSize /\ dir \in Registered(fd) THEN Unregister(fd, dir) ELSE UNCHANGED ioVars

(* Mutant: close_io forgets the count. *)
CloseIoUncounted(fd) ==
  /\ status = "ok"
  /\ IF fd < fdSize /\ Registered(fd) # {}
     THEN /\ fdTable' = [fdTable EXCEPT ![fd] = [d \in Dirs |-> NoIo]]
          /\ closing' = closing \cup {fd}
          /\ UNCHANGED <<fdSize, activated, interest, open, status>>
     ELSE UNCHANGED ioVars

(* close_io leaves the descriptor in epoll: close(2) will take it out. *)
CloseIo(fd) ==
  /\ status = "ok"
  /\ IF fd < fdSize /\ Registered(fd) # {}
     THEN /\ fdTable' = [fdTable EXCEPT ![fd] = [d \in Dirs |-> NoIo]]
          /\ activated' = activated - 1
          /\ closing' = closing \cup {fd}
          /\ UNCHANGED <<fdSize, interest, open, status>>
     ELSE UNCHANGED ioVars

(* The program opens a descriptor, which gets a number that is free. *)
OpenFd(fd) ==
  /\ status = "ok"
  /\ fd \notin open
  /\ open' = open \cup {fd}
  /\ UNCHANGED <<fdTable, fdSize, activated, interest, closing, status>>

(* close(2) of a descriptor that is in no slot any more and has no         *)
(* duplicate: it leaves epoll.                                             *)
CloseFd(fd) ==
  /\ status = "ok"
  /\ fd \in open
  /\ Registered(fd) = {}
  /\ open' = open \ {fd}
  /\ closing' = closing \ {fd}
  /\ interest' = [interest EXCEPT ![fd] = {}]
  /\ UNCHANGED <<fdTable, fdSize, activated, status>>

UserFds == Fds \ {IlcFd}

(* free_loop, of a loop whose user has removed every descriptor: del_io of *)
(* ilc_fd, the assertions, close.                                          *)
FreeIo ==
  /\ status = "ok"
  /\ \A fd \in UserFds : Registered(fd) = {}
  /\ IF ModAccepted(IlcFd)
     THEN /\ fdTable' = [fdTable EXCEPT ![IlcFd]["read"] = NoIo]
          /\ activated' = activated - 1
          /\ interest' = [interest EXCEPT ![IlcFd] = {}]
          /\ open' = open \ {IlcFd}
          /\ status' = IF activated' = 0 THEN "freed" ELSE "assert"
          /\ UNCHANGED <<fdSize, closing>>
     ELSE /\ status' = "abort"
          /\ UNCHANGED <<fdTable, fdSize, activated, interest, open, closing>>

(* A loop that is freed, or a program that has ended. *)
IoEnded == status # "ok" /\ UNCHANGED ioVars

-----------------------------------------------------------------------------
(* alloc_loop, its add_io of ilc_fd included. *)
IoInit ==
  /\ fdTable = [fd \in Fds |->
                 [d \in Dirs |-> IF fd = IlcFd /\ d = "read" THEN IlcIo ELSE NoIo]]
  /\ fdSize = (IF IlcFd >= InitSize THEN 2 * InitSize ELSE InitSize)
  /\ activated = 1
  /\ interest = [fd \in Fds |-> IF fd = IlcFd THEN {"read"} ELSE {}]
  /\ open = {IlcFd}
  /\ closing = {}
  /\ status = "ok"

IoApi ==
  \/ \E fd \in UserFds, d \in Dirs, io \in Ios : AddIo(fd, d, io)
  \/ \E fd \in UserFds, d \in Dirs : DelIo(fd, d)
  \/ \E fd \in UserFds : CloseIo(fd) \/ OpenFd(fd) \/ CloseFd(fd)

IoNext == IoApi \/ FreeIo \/ IoEnded

IoSpec == IoInit /\ [][IoNext]_ioVars

-----------------------------------------------------------------------------
IoTypeOK ==
  /\ fdTable \in [Fds -> [Dirs -> Ios \cup {IlcIo, NoIo}]]
  /\ fdSize \in Nat \ {0}
  /\ activated \in Nat
  /\ interest \in [Fds -> SUBSET Dirs]
  /\ open \subseteq Fds
  /\ closing \subseteq Fds
  /\ status \in {"ok", "freed", "abort", "assert", "corrupt"}

(* What epoll watches is what the table says, for every descriptor but one *)
(* between close_io and close(2), which is in no slot: add_io and del_io    *)
(* choose ADD, MOD or DEL right whatever was registered, refused, closed   *)
(* and reopened under the same number before.                              *)
EpollMirrorsTable ==
  \A fd \in Fds :
    /\ fd \notin closing => interest[fd] = Registered(fd)
    /\ fd \in closing => Registered(fd) = {}
    /\ interest[fd] # {} => fd \in open

(* loop->activated counts the registered descriptors, each once however    *)
(* many directions it has, so that it is 0 when free_loop asserts it.      *)
ActivatedCounts == activated = Cardinality({fd \in Fds : Registered(fd) # {}})

(* No registration lies outside the table. *)
TableInBounds == \A fd \in Fds : Registered(fd) # {} => fd < fdSize

(* The three records of what is registered agree. *)
RegistrationsAgree == EpollMirrorsTable /\ ActivatedCounts /\ TableInBounds

(* The abort() of del_io and the assertions of free_loop that all the      *)
(* descriptors are unregistered are out of reach of a program that         *)
(* unregisters a descriptor before it closes it.  Its first assertion,     *)
(* that no message is left in the FIFO, is not meant: that one fails after *)
(* a drain that left some, or after a late add_ilc (FreeLoop of Loop).     *)
NeverAborts == status \in {"ok", "freed"}

(* The assertion of add_io that the slot is empty holds, as a caller who   *)
(* registers each descriptor and direction once may expect.                *)
SlotAssertionHolds == status # "assert"
=============================================================================
