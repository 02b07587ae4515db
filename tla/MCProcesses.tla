---------------------------- MODULE MCProcesses ----------------------------
(* PML4 slots: low (0), private (1) and kernel half (2), where the dynamic *)
(* range lies.  Stacks of two pages beside a heap of one.                  *)
EXTENDS Processes

MCIndex == 0 .. 2
MCPool == 3 .. 12
MCLeaves == {21}
MCPrivateVA == {<<1, 0, 0, 0>>}
=============================================================================
