----------------------------- MODULE AtomicWord -----------------------------
(***************************************************************************)
(* What set_bit, clear_bit, change_bit and their test_and_ forms promise:  *)
(* between its call and its return an operation is applied to the word     *)
(* once, at one moment, and answers with the bit as it was just before.    *)
(***************************************************************************)
CONSTANTS Context, Bit, Op

VARIABLES word, call
vars == <<word, call>>

Kind == {"set", "clear", "change"}
Apply(op, w) ==
    IF op.kind = "set" \/ (op.kind = "change" /\ op.bit \notin w)
    THEN w \union {op.bit} ELSE w \ {op.bit}

Idle == [at |-> "idle"]
Pending(op) == [at |-> "pending", op |-> op]
Done(was) == [at |-> "done", was |-> was]

Init == word \in SUBSET Bit /\ call = [c \in Context |-> Idle]

Call(c, op) == call[c] = Idle /\ call' = [call EXCEPT ![c] = Pending(op)] /\ UNCHANGED word
TakeEffect(c, op) ==
    /\ call[c] = Pending(op)
    /\ word' = Apply(op, word)
    /\ call' = [call EXCEPT ![c] = Done(op.bit \in word)]
Return(c) == call[c].at = "done" /\ call' = [call EXCEPT ![c] = Idle] /\ UNCHANGED word

Next == \E c \in Context : Return(c) \/ \E op \in Op : Call(c, op) \/ TakeEffect(c, op)
Spec == Init /\ [][Next]_vars
============================================================================
