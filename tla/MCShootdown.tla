----------------------------- MODULE MCShootdown ----------------------------
(* Shootdown on small machines whose CPUs, spaces and requests are           *)
(* interchangeable.                                                          *)
EXTENDS Shootdown, TLC

Machine(cpus, slots, spaces, nodes) ==
  [cpus |-> cpus, slots |-> slots, spaces |-> spaces, nodes |-> nodes]

\* Requests that queue up; an ASID that is rebound; a third CPU that makes a
\* request while one gives up the space; and a binding that outlives the use
\* of its space.
ManyMachines == {Machine(2, 1, 1, 2), Machine(2, 1, 2, 1), Machine(3, 1, 1, 1), Machine(2, 2, 2, 1)}

OneSpace == {Machine(2, 1, 1, 1)}

Interchangeable == Permutations(Processors) \cup Permutations(Spaces) \cup Permutations(Nodes)
=============================================================================
