----------------------------- MODULE MCKernelVM -----------------------------
(* Page tables of three entries: runs cross from one page table, and from  *)
(* one page directory, to the next.                                        *)
EXTENDS KernelVM

MCIndex == 0 .. 2
MCPool == 2 .. 10
MCSizes == {1, 2, 4}
=============================================================================
