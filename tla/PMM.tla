-------------------------------- MODULE PMM --------------------------------
(***************************************************************************)
(* Physical memory: the boot memory map (src/src/memory.rs) and the bitmap *)
(* page-frame allocator built from it (src/src/pmm.rs).                    *)
(*                                                                         *)
(* Addresses are counted in page frames.  The bitmap is the set of page    *)
(* numbers whose bit is 1 ("used"); word w holds the bits of the pages     *)
(* w*BITS .. w*BITS+BITS-1.  Every operation runs with interrupts masked   *)
(* (platform::without_interrupts), so each one is a single action.         *)
(***************************************************************************)
EXTENDS Integers, FiniteSets, Sequences

CONSTANTS
  MAX_MANAGED_PAGES,   \* pages the bitmap has a bit for
  BITS,                \* bits of a bitmap word (64 in the code)
  MAX_REGIONS,         \* capacity of the region table
  ADDR_PAGES,          \* page frames of a 64-bit address space
  MemoryMaps           \* the descriptor lists the firmware may hand over

Descriptor == [memory_type : {"EFI_CONVENTIONAL_MEMORY", "OTHER"},
               physical_start : Nat, number_of_pages : Nat]

\* The two checked_* operations succeed: the length and the end fit 64 bits.
Representable(d) ==
  /\ d.number_of_pages < ADDR_PAGES
  /\ d.physical_start + d.number_of_pages < ADDR_PAGES

\* A descriptor the loop does not skip.
Accepted(d) == d.number_of_pages # 0 /\ Representable(d)

IsUsable(d) == d.memory_type = "EFI_CONVENTIONAL_MEMORY"

FramesOf(d) == d.physical_start .. d.physical_start + d.number_of_pages - 1

\* The UEFI specification's promise: usable ranges do not overlap.
UsableDisjoint(descs) ==
  \A i, j \in DOMAIN descs :
    /\ i # j /\ Accepted(descs[i]) /\ Accepted(descs[j])
    /\ IsUsable(descs[i]) /\ IsUsable(descs[j])
    => FramesOf(descs[i]) \cap FramesOf(descs[j]) = {}

ASSUME PMMAssumption ==
  /\ MAX_MANAGED_PAGES \in Nat \ {0} /\ BITS \in Nat \ {0}
  /\ \E words \in 0 .. MAX_MANAGED_PAGES : MAX_MANAGED_PAGES = words * BITS
  /\ MAX_REGIONS \in Nat /\ ADDR_PAGES \in Nat
  /\ \A m \in MemoryMaps : m \in Seq(Descriptor) /\ UsableDisjoint(m)

VARIABLES
  phase,     \* how far boot has come: "firmware", "mapped", "ready"
  regions,   \* PhysicalMemoryMap::regions, by position of their descriptor
  bitmap,    \* BITMAP: the pages whose bit is 1
  stats,     \* STATS
  owned,     \* pages handed out and not yet given back (history variable)
  ret        \* what the last call returned

vars == <<phase, regions, bitmap, stats, owned, ret>>

AllPages == 0 .. MAX_MANAGED_PAGES - 1

MemoryRegion == [physical_start : Nat, physical_end : Nat, is_usable : BOOLEAN]

None == [ok |-> FALSE, err |-> "None", page |-> 0]
Some(p) == [ok |-> TRUE, err |-> "", page |-> p]
Err(e) == [ok |-> FALSE, err |-> e, page |-> 0]

\* Mutated form of saturating_sub: the operands swapped.
SwappedSub(a, b) == IF b > a THEN b - a ELSE 0
saturating_sub(a, b) == IF a > b THEN a - b ELSE 0

Init ==
  /\ phase = "firmware"
  /\ regions = <<>>
  /\ bitmap = AllPages
  /\ stats = [total |-> 0, usable |-> 0, free |-> 0, used |-> 0]
  /\ owned = {}
  /\ ret = None

----------------------------------------------------------------------------
(* memory.rs *)

\* Positions recorded before the region table is full.
Recorded(descs) ==
  {i \in DOMAIN descs :
     /\ Accepted(descs[i])
     /\ Cardinality({j \in 1..i : Accepted(descs[j])}) <= MAX_REGIONS}

\* The region one descriptor becomes.
RegionOf(d) ==
  [physical_start |-> d.physical_start,
   physical_end   |-> d.physical_start + d.number_of_pages,
   is_usable      |-> IsUsable(d)]

init_from_uefi(descs) ==
  /\ phase = "firmware"
  /\ phase' = "mapped"
  /\ regions' = [i \in Recorded(descs) |-> RegionOf(descs[i])]
  /\ UNCHANGED <<bitmap, stats, owned, ret>>

----------------------------------------------------------------------------
(* pmm.rs *)

Ends == {0} \cup {regions[i].physical_end : i \in DOMAIN regions}

highest_addr == CHOOSE a \in Ends : \A e \in Ends : e <= a

TotalManaged ==
  IF highest_addr > MAX_MANAGED_PAGES THEN MAX_MANAGED_PAGES ELSE highest_addr

\* Mutated form of Cleared: page 0 is not left out.
ClearsPageZero(total) ==
  {c \in (DOMAIN regions) \X AllPages :
     LET r == regions[c[1]]
     IN  /\ r.is_usable
         /\ r.physical_start <= c[2] /\ c[2] < r.physical_end
         /\ c[2] < total}

\* The (region, page) pairs for which init's inner loop clears a bit.
Cleared(total) ==
  {c \in (DOMAIN regions) \X AllPages :
     LET r == regions[c[1]]
         page_idx == c[2]
     IN  /\ r.is_usable
         /\ r.physical_start <= page_idx /\ page_idx < r.physical_end
         /\ page_idx # 0
         /\ page_idx < total}

init ==
  /\ phase = "mapped"
  /\ phase' = "ready"
  /\ LET cleared == Cleared(TotalManaged)
         free    == Cardinality(cleared)
     IN  /\ bitmap' = AllPages \ {c[2] : c \in cleared}
         /\ stats' = [total  |-> TotalManaged, usable |-> free, free |-> free,
                      used   |-> saturating_sub(TotalManaged, free)]
  /\ UNCHANGED <<regions, owned, ret>>

words_to_scan == (stats.total + BITS - 1) \div BITS

WordFree(w) == {p \in w * BITS .. w * BITS + BITS - 1 : p \notin bitmap}

\* Mutated form of FirstZero: the highest zero bit.
LastZero(w) == CHOOSE p \in WordFree(w) : \A q \in WordFree(w) : q <= p

\* The page of the lowest zero bit of word w: (!bitmap[w]).trailing_zeros().
FirstZero(w) == CHOOSE p \in WordFree(w) : \A q \in WordFree(w) : p <= q

\* The scan stops at word w: it has a zero bit and that bit is a managed page.
Hit(w) == WordFree(w) # {} /\ FirstZero(w) < stats.total

AllocateFrom(w) ==
  /\ phase = "ready"
  /\ Hit(w)
  /\ \A v \in 0 .. w - 1 : ~Hit(v)
  /\ bitmap' = bitmap \cup {FirstZero(w)}
  /\ stats' = [stats EXCEPT !.free = saturating_sub(@, 1), !.used = @ + 1]
  /\ owned' = owned \cup {FirstZero(w)}
  /\ ret' = Some(FirstZero(w))
  /\ UNCHANGED <<phase, regions>>

AllocateFails ==
  /\ phase = "ready"
  /\ \A w \in 0 .. words_to_scan - 1 : ~Hit(w)
  /\ ret' = None
  /\ UNCHANGED <<phase, regions, bitmap, stats, owned>>

allocate_physical_page ==
  \/ \E w \in 0 .. words_to_scan - 1 : AllocateFrom(w)
  \/ AllocateFails

\* The error free_physical_page reports for an address, "" if it accepts it.
FreeError(page, aligned) ==
  CASE ~aligned            -> "UnalignedAddress"
    [] aligned /\ page = 0 -> "ReservedMemory"
    [] aligned /\ page # 0 /\ page >= stats.total -> "OutOfBounds"
    [] aligned /\ page # 0 /\ page < stats.total /\ page \notin bitmap
                           -> "DoubleFree"
    [] OTHER               -> ""

FreeRejected(page, aligned) ==
  /\ phase = "ready"
  /\ FreeError(page, aligned) # ""
  /\ ret' = Err(FreeError(page, aligned))
  /\ UNCHANGED <<phase, regions, bitmap, stats, owned>>

\* Callers give back only frames they were given: no call site frees a page
\* it did not allocate.
FreeAccepted(page) ==
  /\ phase = "ready"
  /\ page \in owned
  /\ FreeError(page, TRUE) = ""
  /\ bitmap' = bitmap \ {page}
  /\ stats' = [stats EXCEPT !.free = @ + 1, !.used = saturating_sub(@, 1)]
  /\ owned' = owned \ {page}
  /\ ret' = Some(page)
  /\ UNCHANGED <<phase, regions>>

free_physical_page(page) ==
  \/ FreeAccepted(page)
  \/ \E aligned \in BOOLEAN : FreeRejected(page, aligned)

Next ==
  \/ \E m \in MemoryMaps : init_from_uefi(m)
  \/ init
  \/ allocate_physical_page
  \/ \E page \in 0 .. MAX_MANAGED_PAGES : free_physical_page(page)

Spec == Init /\ [][Next]_vars

----------------------------------------------------------------------------
\* Every variable keeps the type of the static it models.
TypeOK ==
  /\ phase \in {"firmware", "mapped", "ready"}
  /\ DOMAIN regions \subseteq Nat
  /\ \A i \in DOMAIN regions : regions[i] \in MemoryRegion
  /\ bitmap \subseteq AllPages
  /\ stats \in [total : 0 .. MAX_MANAGED_PAGES, usable : Nat, free : Nat,
                used : Nat]
  /\ owned \subseteq AllPages
  /\ ret \in [ok : BOOLEAN, page : AllPages,
              err : {"", "None", "UnalignedAddress", "ReservedMemory",
                     "OutOfBounds", "DoubleFree"}]

\* The frames the allocator may ever hand out: usable memory the bitmap covers,
\* page 0 excepted.
Allocatable ==
  {p \in AllPages \ {0} :
     \E i \in DOMAIN regions : /\ regions[i].is_usable
                               /\ regions[i].physical_start <= p
                               /\ p < regions[i].physical_end}

\* After pmm::init every allocatable frame is free in the bitmap or owned by
\* exactly one holder, and no other bit is ever clear: reserved memory, page 0
\* and the tail of the last word are never handed out, and no frame is lost.
Conservation ==
  phase = "ready" =>
    /\ AllPages \ bitmap = Allocatable \ owned
    /\ owned \subseteq Allocatable

\* pmm::verify_invariants: the counters agree with each other and with the
\* number of clear bits of the scanned words, and page 0 stays reserved.
verify_invariants ==
  phase = "ready" =>
    /\ stats.used + stats.free = stats.total
    /\ 0 \in bitmap
    /\ stats.free = Cardinality({p \in 0 .. words_to_scan * BITS - 1 :
                                   p < stats.total /\ p \notin bitmap})

\* allocate_physical_page is first-fit and complete: it hands out the lowest
\* free frame, which nobody holds, and reports exhaustion only when no
\* allocatable frame is left.
FirstFit ==
  [][allocate_physical_page =>
       \/ /\ ret'.ok
          /\ ret'.page \in Allocatable \ owned
          /\ \A p \in Allocatable \ owned : ret'.page <= p
       \/ ~ret'.ok /\ Allocatable \subseteq owned]_vars
=============================================================================
