------------------------- MODULE AllocatorContract -------------------------
(***************************************************************************)
(* What core::alloc::GlobalAlloc promises its callers and the kernel heap  *)
(* (src/src/heap.rs) has to deliver: every live allocation is a range of   *)
(* the heap that overlaps no other live allocation, it stays that way      *)
(* until its holder frees it, and the heap never shrinks.                  *)
(***************************************************************************)
EXTENDS Integers

CONSTANTS Start,     \* first address of the heap
          Layouts    \* the layouts callers ask for

VARIABLES live,      \* live allocations: pointer -> layout asked for
          end        \* first address past the heap

Overlap(p, n, q, m) == p < q + m /\ q < p + n

\* [p, p + l.size) lies in the heap and touches no live allocation.
Available(p, l) ==
  /\ Start <= p /\ p + l.size <= end'
  /\ \A q \in DOMAIN live : ~Overlap(p, l.size, q, live[q].size)

Init == DOMAIN live = {} /\ end >= Start

Alloc(l) ==
  /\ end' >= end
  /\ \E p \in DOMAIN live' \ DOMAIN live :
       /\ Available(p, l)
       /\ live' = [q \in DOMAIN live \cup {p} |-> IF q = p THEN l ELSE live[q]]

Free(p) ==
  /\ live' = [q \in DOMAIN live \ {p} |-> live[q]]
  /\ UNCHANGED end

Next == (\E l \in Layouts : Alloc(l)) \/ (\E p \in DOMAIN live : Free(p))

Spec == Init /\ [][Next]_<<live, end>>
=============================================================================
