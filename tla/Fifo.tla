------------------------------- MODULE Fifo -------------------------------
(***************************************************************************)
(* A first-in first-out channel: what a queue of the kernel promises,      *)
(* without chunks, progress words, notification bits or wakeups.           *)
(***************************************************************************)
EXTENDS Naturals, Sequences

CONSTANT Values     \* what can be sent
VARIABLES put, got  \* everything that was sent and received, in order

fvars == <<put, got>>

FInit == put = <<>> /\ got = <<>>

Put == \E v \in Values : put' = Append(put, v) /\ UNCHANGED got

Get ==
  /\ Len(got) < Len(put)
  /\ got' = Append(got, put[Len(got) + 1])
  /\ UNCHANGED put

FNext == Put \/ Get

FSpec == FInit /\ [][FNext]_fvars
============================================================================
