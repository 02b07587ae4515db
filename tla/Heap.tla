-------------------------------- MODULE Heap --------------------------------
(***************************************************************************)
(* The kernel heap (src/src/heap.rs): a first-fit allocator over a doubly  *)
(* linked, address-ordered list of blocks, each a header followed by its   *)
(* payload, which grows at its end by whole pages.                         *)
(*                                                                         *)
(* hdr holds every header memory contains, found by its magic number:      *)
(* those on the list and the stale ones that coalescing left behind in a   *)
(* payload.  Writing to a payload destroys the headers in it.  All entry   *)
(* points run with interrupts masked, so each is one action.               *)
(***************************************************************************)
EXTENDS Integers, Sequences, FiniteSets, FiniteSetsExt, TLC

CONSTANTS
  NULL,                    \* the null pointer, below HEAP_START
  ALIGN,                   \* granularity of block sizes (16)
  HEADER_SIZE,             \* BlockHeader::HEADER_SIZE (32)
  MIN_BLOCK_PAYLOAD,
  PAGE_SIZE,
  HEAP_START,
  HEAP_INITIAL_PAGES,
  HEAP_GROWTH_STEP_PAGES,
  MAX_EXPAND_PAGES,        \* length of expand_heap's frame array (128)
  FRAMES,                  \* page frames the PMM can give the heap
  Layouts                  \* the layouts callers ask for: [size, align]

ASSUME HeapAssumption ==
  /\ {ALIGN, HEADER_SIZE, MIN_BLOCK_PAYLOAD, PAGE_SIZE, HEAP_START,
      HEAP_INITIAL_PAGES, HEAP_GROWTH_STEP_PAGES} \subseteq Nat \ {0}
  /\ NULL \in Nat /\ NULL < HEAP_START
  /\ MAX_EXPAND_PAGES \in Nat /\ FRAMES \in Nat
  /\ \A n \in {HEADER_SIZE, MIN_BLOCK_PAYLOAD, PAGE_SIZE, HEAP_START} :
       n % ALIGN = 0
  /\ HEADER_SIZE < PAGE_SIZE * HEAP_INITIAL_PAGES
  /\ \A l \in Layouts : l.size \in Nat /\ l.align \in Nat \ {0}

VARIABLES
  hdr,           \* headers in memory: address -> BlockHeader
  head,          \* HeapState::head
  current_end,   \* HeapState::current_end
  stats,         \* HeapState::stats: total, allocated and free bytes
  frames,        \* page frames the PMM still has
  live,          \* what callers hold: pointer -> layout (history variable)
  freed          \* a pointer given back and not handed out again (history)

vars == <<hdr, head, current_end, stats, frames, live, freed>>

Block(free, size, prev, next) ==
  [is_free |-> free, size |-> size, prev |-> prev, next |-> next]

payload_ptr(b) == b + HEADER_SIZE
from_payload_ptr(p) == p - HEADER_SIZE

saturating_sub(a, b) == IF a > b THEN a - b ELSE 0

\* Only writes through a non-null pointer to a header take place.
SetPrev(h, b, p) == IF b \in DOMAIN h THEN [h EXCEPT ![b].prev = p] ELSE h

\* A write to the bytes from .. to-1 destroys the headers it touches.
Overwrite(h, from, to) ==
  [b \in {a \in DOMAIN h : a >= to \/ a + HEADER_SIZE <= from} |-> h[b]]

\* Block a swallows its successor b, header and payload.  What remains of b's
\* header keeps its magic number and its flag; its other fields are not read
\* again and are dropped.
Absorb(h, a, b) ==
  SetPrev([h EXCEPT ![a].size = @ + HEADER_SIZE + h[b].size,
                    ![a].next = h[b].next,
                    ![b] = Block(h[b].is_free, 0, NULL, NULL)],
          h[b].next, a)

\* The addresses a walk along next from head visits; it ends at a null pointer
\* or at an address that holds no header.
Chain(h) ==
  LET at[i \in 1 .. Cardinality(DOMAIN h) + 1] ==
        IF i = 1 THEN head
        ELSE LET b == at[i - 1] IN IF b \in DOMAIN h THEN h[b].next ELSE NULL
      visited == {i \in DOMAIN at : at[i] # NULL}
  IN  [i \in 1 .. Cardinality(visited) |-> at[i]]

\* Positions of the chain whose block is free and large enough.
Fits(h, n) ==
  LET c == Chain(h)
  IN  {i \in DOMAIN c : c[i] \in DOMAIN h /\ h[c[i]].is_free /\ h[c[i]].size >= n}

\* The walk meets a header without the magic number.
Corrupted(h) == \E i \in DOMAIN Chain(h) : Chain(h)[i] \notin DOMAIN h

----------------------------------------------------------------------------
InitialBytes == HEAP_INITIAL_PAGES * PAGE_SIZE

\* The state heap::init leaves: one free block over the initial pages.
Init ==
  /\ head = HEAP_START
  /\ hdr = head :> Block(TRUE, InitialBytes - HEADER_SIZE, NULL, NULL)
  /\ current_end = HEAP_START + InitialBytes
  /\ stats = [total |-> InitialBytes, allocated |-> 0,
              free |-> InitialBytes - HEADER_SIZE]
  /\ frames = FRAMES
  /\ live = <<>>
  /\ freed = NULL

\* align up to 16 bytes
requested_size(l) == ((l.size + ALIGN - 1) \div ALIGN) * ALIGN

\* Whether taking n bytes of block b splits it.
Splits(h, b, n) == h[b].size - n >= HEADER_SIZE + MIN_BLOCK_PAYLOAD

\* Mutated form of Split: the block after the tail still points back to b.
SplitKeepsPrev(h, b, n) ==
  LET tail == b + HEADER_SIZE + n
      rest == h[b].size - n - HEADER_SIZE
  IN  (tail :> Block(TRUE, rest, b, h[b].next))
        @@ [h EXCEPT ![b].next = tail, ![b].size = n]

\* Block b with its tail cut off into a free block of its own.
Split(h, b, n) ==
  LET tail == b + HEADER_SIZE + n
      rest == h[b].size - n - HEADER_SIZE
  IN  SetPrev((tail :> Block(TRUE, rest, b, h[b].next))
                @@ [h EXCEPT ![b].next = tail, ![b].size = n],
              h[b].next, tail)

\* Mutated form of Take: the block is not marked as taken.
TakeStaysFree(h, b, n) == IF Splits(h, b, n) THEN Split(h, b, n) ELSE h

\* The headers after block b is handed out for n bytes.
Take(h, b, n) ==
  LET s == IF Splits(h, b, n) THEN Split(h, b, n) ELSE h
  IN  [s EXCEPT ![b].is_free = FALSE]

\* Hand out the first block of the walk that fits.
TakeFirst(h, st, l) ==
  LET n == requested_size(l)
      b == Chain(h)[Min(Fits(h, n))]
      taken == Take(h, b, n)
      cost == IF Splits(h, b, n) THEN HEADER_SIZE ELSE 0
  IN  /\ hdr' = taken
      /\ stats' = [st EXCEPT
                     !.allocated = @ + taken[b].size,
                     !.free = saturating_sub(saturating_sub(@, cost),
                                             taken[b].size)]
      /\ live' = (payload_ptr(b) :> l) @@ live
      /\ freed' = IF freed = payload_ptr(b) THEN NULL ELSE freed

AllocateFit(l) ==
  /\ l.size # 0
  /\ Fits(hdr, requested_size(l)) # {}
  /\ TakeFirst(hdr, stats, l)
  /\ UNCHANGED <<head, current_end, frames>>

\* Mutated form of pages_to_alloc: no room for the new block's header.
PagesWithoutHeader(needed) ==
  LET pages_needed == (needed + PAGE_SIZE - 1) \div PAGE_SIZE
  IN  IF pages_needed > HEAP_GROWTH_STEP_PAGES THEN pages_needed
      ELSE HEAP_GROWTH_STEP_PAGES

\* The pages an expansion asks for: the block and its header, rounded up, and
\* never less than the growth step.
pages_to_alloc(needed) ==
  LET pages_needed == (needed + HEADER_SIZE + PAGE_SIZE - 1) \div PAGE_SIZE
  IN  IF pages_needed > HEAP_GROWTH_STEP_PAGES THEN pages_needed
      ELSE HEAP_GROWTH_STEP_PAGES

LastBlock(h) == Chain(h)[Len(Chain(h))]

\* The last block is free and ends where the new pages start.
Coalesces(h) ==
  LET last == LastBlock(h)
  IN  h[last].is_free /\ last + HEADER_SIZE + h[last].size = current_end

\* The list with a free block of the given size appended at the old end,
\* merged into the last block when the two are free and adjacent.
AppendBlock(h, size) ==
  LET block  == Block(TRUE, size - HEADER_SIZE, LastBlock(h), NULL)
      longer == (current_end :> block)
                  @@ [h EXCEPT ![LastBlock(h)].next = current_end]
  IN  IF Coalesces(h) THEN Absorb(longer, LastBlock(h), current_end) ELSE longer

\* No block fits: expand_heap maps new pages and the walk is repeated.
AllocateExpand(l) ==
  LET pages == pages_to_alloc(requested_size(l))
      bytes == pages * PAGE_SIZE
      grown == AppendBlock(hdr, bytes)
      gain  == IF Coalesces(hdr) THEN bytes ELSE bytes - HEADER_SIZE
      st    == [stats EXCEPT !.total = @ + bytes, !.free = @ + gain]
  IN  /\ l.size # 0
      /\ Fits(hdr, requested_size(l)) = {} /\ ~Corrupted(hdr)
      /\ pages <= MAX_EXPAND_PAGES /\ pages <= frames
      /\ frames' = frames - pages
      /\ current_end' = current_end + bytes
      /\ IF Fits(grown, requested_size(l)) # {}
         THEN TakeFirst(grown, st, l)
         ELSE /\ hdr' = grown /\ stats' = st
              /\ UNCHANGED <<live, freed>>
      /\ UNCHANGED head

\* A corrupted list, or an expansion that cannot get its frames, exceeds the
\* frame array, or finds its pages already mapped and rolls everything back.
AllocateFails(l) ==
  /\ l.size # 0
  /\ Fits(hdr, requested_size(l)) = {}
  /\ UNCHANGED vars

\* A zero-sized layout gets a dangling pointer and leaves the heap alone.
AllocateZero(l) ==
  /\ l.size = 0
  /\ UNCHANGED vars

allocate(l) ==
  AllocateFit(l) \/ AllocateExpand(l) \/ AllocateFails(l) \/ AllocateZero(l)

----------------------------------------------------------------------------
\* A block has a free successor, or predecessor, to merge with.
NextFree(h, b) == h[b].next \in DOMAIN h /\ h[h[b].next].is_free
PrevFree(h, b) == h[b].prev \in DOMAIN h /\ h[h[b].prev].is_free

\* The headers after block b, just marked free, merges with its neighbours.
Coalesce(h, b) ==
  LET h1 == IF NextFree(h, b) THEN Absorb(h, b, h[b].next) ELSE h
  IN  IF PrevFree(h1, b) THEN Absorb(h1, h1[b].prev, b) ELSE h1

\* The header bytes that merging returns to the free pool, and a mutated form
\* that counts one header at most.
OneHeader(h, b) == IF NextFree(h, b) \/ PrevFree(h, b) THEN HEADER_SIZE ELSE 0
MergedHeaders(h, b) ==
  (IF NextFree(h, b) THEN HEADER_SIZE ELSE 0)
    + (IF PrevFree(h, b) THEN HEADER_SIZE ELSE 0)

\* Mutated form of Accepts: the double-free check is missing.
AcceptsFreed(p) == from_payload_ptr(p) \in DOMAIN hdr

\* The header before p has its magic number and is not marked free.
Accepts(p) == LET b == from_payload_ptr(p)
              IN  b \in DOMAIN hdr /\ ~hdr[b].is_free

DeallocateBlock(p) ==
  LET b == from_payload_ptr(p)
      poisoned == Overwrite(hdr, p, p + hdr[b].size)
      marked == [poisoned EXCEPT ![b].is_free = TRUE]
  IN  /\ Accepts(p)
      /\ hdr' = Coalesce(marked, b)
      /\ stats' = [stats EXCEPT
                     !.allocated = saturating_sub(@, hdr[b].size),
                     !.free = @ + hdr[b].size + MergedHeaders(marked, b)]
      /\ live' = [q \in DOMAIN live \ {p} |-> live[q]]
      /\ freed' \in {freed, p}
      /\ UNCHANGED <<head, current_end, frames>>

\* No magic number, or a block that is already free: logged and ignored.
DeallocateRejected(p) == ~Accepts(p) /\ UNCHANGED vars

deallocate(p) == DeallocateBlock(p) \/ DeallocateRejected(p)

\* A holder fills the bytes it asked for with data of its own.
ClientWrite(p) ==
  /\ hdr' = Overwrite(hdr, p, p + live[p].size)
  /\ UNCHANGED <<head, current_end, stats, frames, live, freed>>

Next ==
  \/ \E l \in Layouts : allocate(l)
  \/ \E p \in DOMAIN live \cup ({freed} \ {NULL}) : deallocate(p)
  \/ \E p \in DOMAIN live : ClientWrite(p)

Spec == Init /\ [][Next]_vars
----------------------------------------------------------------------------
Blocks == {Chain(hdr)[i] : i \in DOMAIN Chain(hdr)}

\* The list tiles the heap: the walk from head meets only intact headers, each
\* block ends where the next one starts and the last one at current_end, and
\* every prev pointer mirrors the next pointer before it; no two neighbouring
\* blocks are both free.  Coalescing in deallocate relies on the former, for it
\* never compares addresses, and provides the latter.
Tiling ==
  LET c == Chain(hdr)
  IN  /\ ~Corrupted(hdr)
      /\ c[1] = HEAP_START /\ hdr[c[1]].prev = NULL
      /\ \A i \in 1 .. Len(c) :
           LET stop == c[i] + HEADER_SIZE + hdr[c[i]].size
           IN  IF i = Len(c) THEN stop = current_end
               ELSE /\ stop = c[i + 1] /\ hdr[c[i + 1]].prev = c[i]
                    /\ ~(hdr[c[i]].is_free /\ hdr[c[i + 1]].is_free)

\* heap::verify_invariants: every payload is aligned to the granule, and the
\* byte counters agree with a walk of the list, through every split, merge and
\* expansion that moves header bytes in and out of the free pool.
verify_invariants ==
  LET Bytes(S) == MapThenSumSet(LAMBDA b : hdr[b].size, S)
      free == {b \in Blocks : hdr[b].is_free}
  IN  /\ \A b \in Blocks : payload_ptr(b) % ALIGN = 0
      /\ stats.free = Bytes(free)
      /\ stats.allocated = Bytes(Blocks \ free)
      /\ stats.total = Bytes(Blocks) + HEADER_SIZE * Cardinality(Blocks)

\* Each allocation is freed exactly once: deallocate accepts every pointer a
\* caller holds, and rejects one that was already given back, even when its
\* block has since been merged into a neighbour and its header is stale.
FreedOnce ==
  /\ \A p \in DOMAIN live : Accepts(p)
  /\ freed # NULL => ~Accepts(freed)

\* When expand_heap has added pages the second walk of allocate finds a block
\* there: the rounding of pages_to_alloc always leaves room for the header, so
\* no caller is refused memory that was just mapped for it.
ExpansionServes ==
  [][current_end' # current_end => DOMAIN live' # DOMAIN live]_vars

\* The heap delivers what a global allocator promises.
Contract == INSTANCE AllocatorContract
              WITH Start <- HEAP_START, end <- current_end
ContractSpec == Contract!Spec

\* allocate computes layout.align().max(16); the pointer it returns is a
\* multiple of that alignment.
AlignmentHonoured ==
  \A p \in DOMAIN live :
    p % (IF live[p].align > ALIGN THEN live[p].align ELSE ALIGN) = 0
=============================================================================
