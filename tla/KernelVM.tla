------------------------------ MODULE KernelVM ------------------------------
(***************************************************************************)
(* The dynamic part of the kernel's virtual memory: the region table and   *)
(* the dynamic cursor of src/src/vmm.rs, the pages behind regions and      *)
(* kernel stacks, and the heap growing in the same range                   *)
(* (src/src/heap.rs, expand_heap), all drawing on the frames of the PMM.   *)
(*                                                                         *)
(* Virtual pages are numbered from DYNAMIC_VIRT_START.  The states are     *)
(* those after heap::init: the heap's initial region is the first one.     *)
(* Every operation runs to completion: threads are cooperative and no      *)
(* interrupt handler maps memory.  Regions that are reserved and never     *)
(* mapped, which only the self-tests ask for, are left out: expand_heap    *)
(* does not look at the region table and would grow over one.              *)
(***************************************************************************)
EXTENDS PageTables, Sequences

CONSTANTS DYNAMIC_PAGES,      \* pages up to DYNAMIC_VIRT_END
          MAX_VIRT_REGIONS,   \* region slots left to the dynamic range
          MAX_RUN,            \* the 128-entry frame arrays of the code
          KERNEL_PML4_START,  \* the PML4 slot the range starts in
          Root,               \* the kernel root PML4
          Pool,               \* frames the PMM manages
          HEAP_INITIAL_PAGES,
          Sizes               \* sizes callers ask for, in pages

VARIABLES mem, free,          \* page tables and PMM, as in PageTables
          regions,            \* the region table: [start, pages]
          next_dynamic_addr,  \* the cursor, a page number
          heap_end,           \* heap.current_end, a page number
          handles             \* VirtRegions callers hold: [start, pages]

vars == <<mem, free, regions, next_dynamic_addr, heap_end, handles>>

ENTRIES == Cardinality(Index)
Pages == 0 .. DYNAMIC_PAGES - 1

\* The table indices of a page of the dynamic range, which lies in one slot.
VirtAddr(p) == <<KERNEL_PML4_START, p \div (ENTRIES * ENTRIES),
                 (p \div ENTRIES) % ENTRIES, p % ENTRIES>>

ASSUME KernelVMAssumption ==
  /\ Index = 0 .. ENTRIES - 1 /\ KERNEL_PML4_START \in Index
  /\ DYNAMIC_PAGES <= ENTRIES * ENTRIES * ENTRIES
  /\ Pool \subseteq Nat /\ NoFrame \notin Pool \cup {Root} /\ Root \notin Pool
  /\ HEAP_INITIAL_PAGES \in 1 .. DYNAMIC_PAGES
  /\ Sizes \subseteq Nat \ {0}

PageSet(start, n) == start .. start + n - 1
overlaps(r, start, n) == start < r.start + r.pages /\ start + n > r.start

-----------------------------------------------------------------------------

(***************************************************************************)
(* Runs of pages.  MapRun maps frames[1], frames[2]... from page start on, *)
(* stopping at the first failure; UnmapRun clears a run.                   *)
(***************************************************************************)
MapRun(m, fr, start, frames) ==
  LET at[i \in 0 .. Len(frames)] ==
        IF i = 0 THEN [mem |-> m, free |-> fr, ok |-> TRUE, mapped |-> 0]
        ELSE LET b == at[i - 1]
                 s == map_page(b.mem, b.free, Root, VirtAddr(start + i - 1), frames[i])
             IN  IF ~b.ok THEN b
                 ELSE [mem |-> s.mem, free |-> s.free, ok |-> s.ok,
                       mapped |-> IF s.ok THEN i ELSE b.mapped]
  IN  at[Len(frames)]

UnmapRun(m, start, n) ==
  LET at[i \in 0 .. n] ==
        IF i = 0 THEN m
        ELSE LET b == at[i - 1] IN unmap_page(b, Root, VirtAddr(start + i - 1))
  IN  at[n]

\* n calls of allocate_physical_page: the n lowest free frames, in order.
TakeFrames(fr, n) ==
  [i \in 1 .. n |->
     CHOOSE f \in fr : Cardinality({g \in fr : g < f}) = i - 1]
Range(s) == {s[i] : i \in DOMAIN s}

\* Mutated form of MapFresh: what was mapped before the failure stays mapped.
KeepsMapped(start, n) ==
  LET frames == TakeFrames(free, n)
      s == MapRun(mem, free \ Range(frames), start, frames)
  IN  IF n > MAX_RUN \/ n > Cardinality(free)
      THEN [mem |-> mem, free |-> free, ok |-> FALSE, frames |-> FALSE]
      ELSE [mem |-> s.mem, free |-> IF s.ok THEN s.free ELSE s.free \cup Range(frames),
            ok |-> s.ok, frames |-> TRUE]

\* Backing n pages from start with fresh frames, as allocate_and_map_region
\* and expand_heap both do: all frames first, then the mappings, undone in
\* full when one of them fails.  "frames" tells the two failures apart.
MapFresh(start, n) ==
  LET frames == TakeFrames(free, n)
      s == MapRun(mem, free \ Range(frames), start, frames)
  IN  IF n > MAX_RUN \/ n > Cardinality(free)
      THEN [mem |-> mem, free |-> free, ok |-> FALSE, frames |-> FALSE]
      ELSE IF s.ok
      THEN [mem |-> s.mem, free |-> s.free, ok |-> TRUE, frames |-> TRUE]
      ELSE [mem |-> UnmapRun(s.mem, start, s.mapped),
            free |-> s.free \cup Range(frames), ok |-> FALSE, frames |-> TRUE]

-----------------------------------------------------------------------------

\* Step 5 of vmm::init has created the PDPT; heap::init has mapped the
\* initial heap region.
Pdpt == FirstFrame(Pool)

Init ==
  LET frames == TakeFrames(Pool \ {Pdpt}, HEAP_INITIAL_PAGES)
      m0 == [t \in Pool \cup {Root} |->
               IF t = Root THEN [EmptyTable EXCEPT ![KERNEL_PML4_START] = Pdpt] ELSE EmptyTable]
      s == MapRun(m0, Pool \ ({Pdpt} \cup Range(frames)), 0, frames)
  IN  /\ mem = s.mem
      /\ free = s.free
      /\ regions = {[start |-> 0, pages |-> HEAP_INITIAL_PAGES]}
      /\ next_dynamic_addr = HEAP_INITIAL_PAGES
      /\ heap_end = HEAP_INITIAL_PAGES
      /\ handles = {}

\* The conditions under which reserve_virtual_region succeeds.
Reservable(n) ==
  /\ next_dynamic_addr + n <= DYNAMIC_PAGES
  /\ \A r \in regions : ~overlaps(r, next_dynamic_addr, n)
  /\ Cardinality(regions) < MAX_VIRT_REGIONS

\* What reserve_virtual_region enters into the table and returns.
Reserved(n) == [start |-> next_dynamic_addr, pages |-> n]

(***************************************************************************)
(* allocate_and_map_region, by which kernel stacks come to be.  The region *)
(* is unregistered when a mapping fails, not when frames run out; the      *)
(* cursor keeps its advance in both cases.                                 *)
(***************************************************************************)
allocate_and_map_region(n) ==
  LET s == MapFresh(next_dynamic_addr, n)
  IN  /\ Reservable(n)
      /\ mem' = s.mem
      /\ free' = s.free
      /\ next_dynamic_addr' = next_dynamic_addr + n
      /\ regions' = IF s.ok \/ ~s.frames THEN regions \cup {Reserved(n)}
                    ELSE regions
      /\ handles' = IF s.ok THEN handles \cup {Reserved(n)} ELSE handles
      /\ UNCHANGED heap_end

\* unregister_region drops the entry that starts at the given page.
Unregister(start) == regions' = {r \in regions : r.start # start}

\* Mutated form of Backing: frames are not given back.
FramesKept(m, h) == {}

\* unmap_region: unmap what is mapped, free those frames, drop the table
\* entry.  The caller gives up the handle.
Backing(m, h) ==
  {translate(m, Root, VirtAddr(p)) : p \in PageSet(h.start, h.pages)} \ {NoFrame}

unmap_region(h) ==
  /\ mem' = UnmapRun(mem, h.start, h.pages)
  /\ free' = free \cup Backing(mem, h)
  /\ Unregister(h.start)
  /\ handles' = handles \ {h}
  /\ UNCHANGED <<next_dynamic_addr, heap_end>>

\* Mutated form of advance_dynamic_cursor: the cursor is left behind.
CursorStays(new_end) == UNCHANGED next_dynamic_addr

advance_dynamic_cursor(new_end) ==
  next_dynamic_addr' = IF new_end > next_dynamic_addr THEN new_end
                       ELSE next_dynamic_addr

(***************************************************************************)
(* expand_heap, seen from the virtual memory: n fresh pages at the heap's  *)
(* end, registered nowhere, and the cursor moved past them.                *)
(***************************************************************************)
expand_heap(n) ==
  LET s == MapFresh(heap_end, n)
  IN  /\ heap_end + n <= DYNAMIC_PAGES
      /\ mem' = s.mem
      /\ free' = s.free
      /\ IF s.ok THEN heap_end' = heap_end + n /\ advance_dynamic_cursor(heap_end + n)
         ELSE UNCHANGED <<heap_end, next_dynamic_addr>>
      /\ UNCHANGED <<regions, handles>>

Next ==
  \/ \E n \in Sizes : allocate_and_map_region(n) \/ expand_heap(n)
  \/ \E h \in handles : unmap_region(h)

Spec == Init /\ [][Next]_vars

-----------------------------------------------------------------------------

FrameOf(p) == translate(mem, Root, VirtAddr(p))
Mapped == {p \in Pages : FrameOf(p) # NoFrame}
HeapPages == PageSet(0, heap_end)
PagesOf(h) == PageSet(h.start, h.pages)

\* Exactly the pages of the heap and of the regions callers hold are mapped:
\* a failed stack, region or heap growth leaves nothing mapped behind, and
\* nobody's pages are unmapped under them.
MappedPagesHeld ==
  Mapped = HeapPages \cup UNION {PagesOf(h) : h \in handles}

Down(ts) == {mem[t][i] : t \in ts, i \in Index} \ {NoFrame}
KernelTables == LET pdpts == Down({Root})
                    pds == Down(pdpts)
                IN  pdpts \cup pds \cup Down(pds)

\* Every frame is free, a page table, or behind exactly one mapped page: no
\* path through the partial failures leaks a frame or frees one in use.
FramesConserved ==
  /\ \A p, q \in Mapped : FrameOf(p) = FrameOf(q) => p = q
  /\ Pool = free \cup KernelTables \cup {FrameOf(p) : p \in Mapped}
  /\ Cardinality(Pool) =
       Cardinality(free) + Cardinality(KernelTables) + Cardinality(Mapped)

\* Nothing at or above the cursor is registered, mapped or in the heap, so
\* the next reservation cannot collide, whether regions or the heap moved
\* the cursor last; and neither moves it past DYNAMIC_VIRT_END.
CursorAhead ==
  /\ \A r \in regions : r.start + r.pages <= next_dynamic_addr
  /\ \A p \in Mapped : p < next_dynamic_addr
  /\ heap_end <= next_dynamic_addr
  /\ next_dynamic_addr <= DYNAMIC_PAGES

\* Virtual regions are released when building a stack or region fails: the
\* table holds the heap's region and those callers hold, nothing else
\* (docs/kernel.md, "Deterministic Rollback"; vmm.rs, allocate_and_map_region:
\* "Unregister virtual region to prevent region leaks").
RegionsReleased ==
  regions = {[start |-> 0, pages |-> HEAP_INITIAL_PAGES]} \cup handles
=============================================================================
