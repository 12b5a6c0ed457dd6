----------------------------- MODULE AtomicBits -----------------------------
(***************************************************************************)
(* The bit operations of bitops/atomic.h on one word, called by threads    *)
(* and by the signal handler that may interrupt each of them.  Where the   *)
(* compiler has no __sync_val_compare_and_swap, compiler.c emulates it     *)
(* with one mutex for the process, held with all signals blocked.          *)
(***************************************************************************)
CONSTANTS
    Thread,
    Bit,            \* of the word
    Op, HandlerOp   \* what threads and handlers call: records [kind, bit]

Kind == {"set", "clear", "change"}
ASSUME OpAssumption == Op \subseteq [kind : Kind, bit : Bit] /\ HandlerOp \subseteq Op

Context == Thread \X {"main", "handler"}
None == <<"none", "none">>
NoOp == [kind |-> "none"]
ASSUME NoneAssumption == None \notin Context

VARIABLES
    emulated,       \* compiler.c is in the build
    word,           \* *p, the bits that are set
    global_sync_lock,
    masks,          \* per thread, whether its own code blocks the signal
    blocked,        \* ... whether its signal mask does
    pc, op,         \* per context: where it is, in which operation
    old, found,     \* ... its variable old, what the compare and swap returned
    oset            \* ... the mask that the emulation restores
vars == <<emulated, word, global_sync_lock, masks, blocked, pc, op, old, found, oset>>
locals == <<op, old, found, oset>>

Main(t) == <<t, "main">>
Handler(t) == <<t, "handler">>

Init ==
    /\ emulated \in BOOLEAN /\ word \in SUBSET Bit
    /\ global_sync_lock = None
    /\ masks \in [Thread -> BOOLEAN] /\ blocked = masks
    /\ pc = [c \in Context |-> "idle"]
    /\ op = [c \in Context |-> NoOp]
    /\ old = [c \in Context |-> {}] /\ found = old
    /\ oset = [c \in Context |-> FALSE]

\* val = old | mask, old & ~mask or old ^ mask.
Val(o, w) ==
    IF o.kind = "set" \/ (o.kind = "change" /\ o.bit \notin w)
    THEN w \union {o.bit} ELSE w \ {o.bit}

\* A thread does not run on while its handler does.
Running(c) == c[2] = "main" => pc[Handler(c[1])] = "idle"
At(c, here, there) == Running(c) /\ pc[c] = here /\ pc' = [pc EXCEPT ![c] = there]

----------------------------------------------------------------------------
\* The threads, and the signal: it is blocked while its handler runs.
Call(t, o) ==
    /\ At(Main(t), "idle", "read") /\ op' = [op EXCEPT ![Main(t)] = o]
    /\ UNCHANGED <<emulated, word, global_sync_lock, masks, blocked, old, found, oset>>
Signal(t, o) ==
    /\ ~blocked[t] /\ blocked' = [blocked EXCEPT ![t] = TRUE]
    /\ At(Handler(t), "idle", "read") /\ op' = [op EXCEPT ![Handler(t)] = o]
    /\ UNCHANGED <<emulated, word, global_sync_lock, masks, old, found, oset>>

\* The loop: old = *p, then the compare and swap of the compiler.
Read(c) ==
    /\ At(c, "read", "cas") /\ old' = [old EXCEPT ![c] = word]
    /\ UNCHANGED <<emulated, word, global_sync_lock, masks, blocked, op, found, oset>>
(* Mutant: the word is written whether or not it is still old. *)
SwapBlindly(c) == found' = [found EXCEPT ![c] = word] /\ word' = Val(op[c], old[c])
Swap(c) ==
    /\ found' = [found EXCEPT ![c] = word]
    /\ word' = IF word = old[c] THEN Val(op[c], old[c]) ELSE word
Native(c) ==
    /\ ~emulated /\ At(c, "cas", "check") /\ Swap(c)
    /\ UNCHANGED <<emulated, global_sync_lock, masks, blocked, op, old, oset>>

(* Mutant: no signal is blocked. *)
MaskNothing(c) ==
    /\ emulated /\ At(c, "cas", "lock") /\ oset' = [oset EXCEPT ![c] = blocked[c[1]]]
    /\ UNCHANGED <<emulated, word, global_sync_lock, masks, blocked, op, old, found>>
\* The emulation: block all signals, lock, compare, unlock, restore the mask.
MaskAll(c) ==
    /\ emulated /\ At(c, "cas", "lock")
    /\ oset' = [oset EXCEPT ![c] = blocked[c[1]]] /\ blocked' = [blocked EXCEPT ![c[1]] = TRUE]
    /\ UNCHANGED <<emulated, word, global_sync_lock, masks, op, old, found>>
Lock(c) ==
    /\ At(c, "lock", "swap") /\ global_sync_lock = None /\ global_sync_lock' = c
    /\ UNCHANGED <<emulated, word, masks, blocked, locals>>
Emulate(c) ==
    /\ At(c, "swap", "unlock") /\ Swap(c)
    /\ UNCHANGED <<emulated, global_sync_lock, masks, blocked, op, old, oset>>
Unlock(c) ==
    /\ At(c, "unlock", "unmask") /\ global_sync_lock' = None
    /\ UNCHANGED <<emulated, word, masks, blocked, locals>>
Restore(c) ==
    /\ At(c, "unmask", "check") /\ blocked' = [blocked EXCEPT ![c[1]] = oset[c]]
    /\ UNCHANGED <<emulated, word, global_sync_lock, masks, locals>>

\* The loop goes round when the word was not old; else the operation returns,
\* and with that of a handler the handler, whose thread has its mask back.
\* Variables that are not read again have no value.
Forget(c) ==
    /\ old' = [old EXCEPT ![c] = {}] /\ found' = [found EXCEPT ![c] = {}]
    /\ oset' = [oset EXCEPT ![c] = FALSE]
(* Mutant: the word is not read again. *)
RetryKeepsOld(c) ==
    /\ found[c] # old[c] /\ At(c, "check", "cas") /\ found' = [found EXCEPT ![c] = {}]
    /\ oset' = [oset EXCEPT ![c] = FALSE]
    /\ UNCHANGED <<emulated, word, global_sync_lock, masks, blocked, op, old>>
Retry(c) ==
    /\ found[c] # old[c] /\ At(c, "check", "read") /\ Forget(c)
    /\ UNCHANGED <<emulated, word, global_sync_lock, masks, blocked, op>>
Return(c) ==
    /\ found[c] = old[c] /\ At(c, "check", "idle") /\ Forget(c)
    /\ op' = [op EXCEPT ![c] = NoOp]
    /\ blocked' = IF c[2] = "handler" THEN [blocked EXCEPT ![c[1]] = FALSE] ELSE blocked
    /\ UNCHANGED <<emulated, word, global_sync_lock, masks>>

Step(c) ==
    \/ Read(c) \/ Native(c)
    \/ MaskAll(c) \/ Lock(c) \/ Emulate(c) \/ Unlock(c) \/ Restore(c)
    \/ Retry(c) \/ Return(c)
Next ==
    \/ \E t \in Thread : (\E o \in Op : Call(t, o)) \/ (\E o \in HandlerOp : Signal(t, o))
    \/ \E c \in Context : Step(c)
Spec == Init /\ [][Next]_vars

\* The kernel runs every thread, and a mutex is passed on; nobody has to
\* call an operation or send a signal.
Fairness == \A c \in Context : WF_vars(Step(c))
FairSpec == Spec /\ Fairness

----------------------------------------------------------------------------
AtomicTypeOK ==
    /\ emulated \in BOOLEAN /\ word \in SUBSET Bit
    /\ global_sync_lock \in Context \union {None}
    /\ masks \in [Thread -> BOOLEAN] /\ blocked \in [Thread -> BOOLEAN]
    /\ pc \in [Context -> {"idle", "read", "cas", "lock", "swap", "unlock", "unmask", "check"}]
    /\ op \in [Context -> Op \union {NoOp}] /\ old \in [Context -> SUBSET Bit] /\ found \in [Context -> SUBSET Bit]
    /\ oset \in [Context -> BOOLEAN]

\* The emulation is safe in a signal handler: none ever runs on a thread
\* that holds the mutex, where it would wait for the thread it interrupts.
HandlerNeverWaits ==
    \A t \in Thread : global_sync_lock = Main(t) => pc[Handler(t)] = "idle"

\* Outside the emulation and the handler a thread has the mask its own code
\* asked for, and a handler runs with its signal blocked throughout.
MaskRestored ==
    \A t \in Thread :
        blocked[t] = (masks[t] \/ pc[Handler(t)] # "idle" \/ pc[Main(t)] \in {"lock", "swap", "unlock", "unmask"})

\* Both, which the emulation owes to blocking every signal first.
SignalsHeldOff == AtomicTypeOK /\ HandlerNeverWaits /\ MaskRestored

\* The operations are atomic and answer with the bit they found: no update
\* of another thread or handler is lost between the read and the write.
Swapped(c) == pc[c] \in {"unlock", "unmask", "check"} /\ found[c] = old[c]
AbstractCall(c) ==
    IF pc[c] = "idle" THEN [at |-> "idle"]
    ELSE IF Swapped(c) THEN [at |-> "done", was |-> op[c].bit \in old[c]]
    ELSE [at |-> "pending", op |-> op[c]]
W == INSTANCE AtomicWord WITH call <- [c \in Context |-> AbstractCall(c)]
ImplementsAtomicWord == W!Spec

\* Threads that retry and wait do not block each other for good: while an
\* operation is under way, some operation returns sooner or later.
SomeoneReturns ==
    (\E c \in Context : pc[c] # "idle") ~> (\E c \in Context : pc[c] = "check" /\ found[c] = old[c])
============================================================================
