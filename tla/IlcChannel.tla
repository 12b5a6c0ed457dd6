----------------------------- MODULE IlcChannel -----------------------------
(***************************************************************************)
(* What inter-loop communication promises: a queue.  A message that was    *)
(* accepted is run once, after the ones accepted before it, and one        *)
(* message runs at a time.                                                 *)
(***************************************************************************)
EXTENDS Sequences

CONSTANT Messages

VARIABLES
  queue,    \* accepted and not yet run
  running   \* <<m>> while the callback of m runs, <<>> otherwise

channelVars == <<queue, running>>

Accept(m) ==
  /\ queue' = Append(queue, m)
  /\ UNCHANGED running

(* The next message is run, behind the one before it without a pause or    *)
(* later.                                                                  *)
Run ==
  /\ queue # <<>>
  /\ running' = <<Head(queue)>>
  /\ queue' = Tail(queue)

Finish ==
  /\ running # <<>>
  /\ running' = <<>>
  /\ UNCHANGED queue

ChannelInit == queue = <<>> /\ running = <<>>

ChannelNext == (\E m \in Messages : Accept(m)) \/ Run \/ Finish

ChannelSpec == ChannelInit /\ [][ChannelNext]_channelVars
=============================================================================
