----------------------------- MODULE MCVmmInit -----------------------------
(***************************************************************************)
(* Small machines for VmmInit: tables of 4 entries, 32 pages for the low   *)
(* 4 GiB, 64 pages to a PML4 slot.                                         *)
(***************************************************************************)
EXTENDS VmmInit

At(s, n) == [start |-> s, pages |-> n]

\* Low memory with firmware MMIO over the LAPIC, with or without memory above
\* 4 GiB, and a framebuffer that is absent, low, across the 4 GiB border,
\* high, or in a slot of its own; few or enough PMM pages for Step 5.  The last
\* machine has more memory above 4 GiB than the pool has tables for.
MCMachines ==
  [regions : {<<At(0, 3), At(32, 24)>>},
   devices : {<<At(30, 1), At(28, 1), At(12, 2)>>},
   frames  : {2}] \cup
  [regions : {<<At(0, 3), At(3, 6), At(29, 3)>>,
              <<At(0, 3), At(33, 4)>>},
   devices : {<<At(30, 1), At(28, 1)>>} \cup
             {<<At(30, 1), At(28, 1), fb>> :
                fb \in {At(12, 2), At(30, 4), At(35, 3), At(49, 2), At(66, 2)}},
   frames  : {1, 3}]

=============================================================================
