------------------------------- MODULE MCHeap -------------------------------
(* Sizes scaled down together: 2-byte granules for the code's 16, 4-byte    *)
(* headers for 32, 8-byte pages for 4096.                                   *)
EXTENDS Heap

L(n) == [size |-> n, align |-> ALIGN]

\* Odd sizes are rounded up.  1 splits every larger block, 3 takes a small one
\* whole; 9 needs an expansion of two pages, more than the growth step; 13
\* exceeds the expansion limit.
MCLayouts == {L(0), L(1), L(3), L(9), L(13)}

\* Ordinary layouts, and one aligned more strictly than the granule.
AlignedLayouts == {L(2), [size |-> 4, align |-> 4 * ALIGN]}
=============================================================================
