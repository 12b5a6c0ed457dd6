---------------------------- MODULE MCAtomicBits ----------------------------
(***************************************************************************)
(* AtomicBits for TLC: threads call every operation, on a word of one bit, *)
(* and the handlers change it.                                             *)
(***************************************************************************)
EXTENDS AtomicBits

Ops == [kind : Kind, bit : Bit]
HandlerOps == [kind : {"change"}, bit : Bit]
============================================================================
