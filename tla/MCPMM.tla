------------------------------- MODULE MCPMM -------------------------------
(* A bitmap of two 4-bit words and memory maps that exercise the edges of  *)
(* init_from_uefi and pmm::init.                                           *)
EXTENDS PMM

D(t, start, n) == [memory_type |-> t, physical_start |-> start,
                   number_of_pages |-> n]
U(start, n) == D("EFI_CONVENTIONAL_MEMORY", start, n)
R(start, n) == D("OTHER", start, n)

Maps ==
  { <<U(0, 3), R(3, 1), U(4, 3)>>,             \* page 0 usable, ragged tail
    <<R(0, 2), U(2, 2), R(4, 1), U(5, 9)>>,    \* reaches past the bitmap
    <<U(1, 0), U(14, 3), U(1, 2), R(6, 1), U(4, 2)>>, \* empty, overflow, unsorted
    <<U(1, 1), U(2, 1), U(3, 1), R(4, 2), U(6, 2)>>,  \* table overflow
    <<R(0, 8)>> }                              \* nothing usable
=============================================================================
