---------------------------- MODULE PageTables ----------------------------
(***************************************************************************)
(* Four-level x86-64 page tables kept in physical frames and the walks     *)
(* src/src/vmm.rs makes over them.                                         *)
(*                                                                         *)
(* A memory m maps every frame that can hold a table to its entries: the   *)
(* number of the frame an entry points to, or NoFrame when it is not       *)
(* present.  A virtual page is its four table indices.  A walk state is a  *)
(* record of the memory, the frames the PMM has free and the table the     *)
(* walk has reached (NoFrame once it has failed).                          *)
(***************************************************************************)
EXTENDS Integers, FiniteSets

CONSTANTS Index,      \* the indices of a table (0..511 in the code)
          NoFrame     \* physical page 0: an entry that is not present

EmptyTable == [i \in Index |-> NoFrame]

\* The lowest free frame, as the PMM hands them out.
FirstFrame(free) == CHOOSE f \in free : \A g \in free : f <= g

\* Entry i of table t; a missing table has no entries.
Entry(m, t, i) == IF t = NoFrame THEN NoFrame ELSE m[t][i]

\* The page table (last level) of a virtual page.
TableOf(m, root, va) ==
  Entry(m, Entry(m, Entry(m, root, va[1]), va[2]), va[3])

\* What a walk from root finds for va.
translate(m, root, va) == Entry(m, TableOf(m, root, va), va[4])

\* Mutated form of get_or_create_table: a new table is not zeroed.
NotZeroed(s, i) ==
  LET f == FirstFrame(s.free)
  IN  IF s.at = NoFrame THEN s
      ELSE IF s.mem[s.at][i] # NoFrame THEN [s EXCEPT !.at = s.mem[s.at][i]]
      ELSE IF s.free = {} THEN [s EXCEPT !.at = NoFrame]
      ELSE [mem |-> [s.mem EXCEPT ![s.at][i] = f], free |-> s.free \ {f}, at |-> f]

\* One level down, creating the table if the entry is not present.
get_or_create_table(s, i) ==
  LET f == FirstFrame(s.free)
  IN  IF s.at = NoFrame THEN s
      ELSE IF s.mem[s.at][i] # NoFrame THEN [s EXCEPT !.at = s.mem[s.at][i]]
      ELSE IF s.free = {} THEN [s EXCEPT !.at = NoFrame]
      ELSE [mem  |-> [s.mem EXCEPT ![f] = EmptyTable, ![s.at][i] = f],
            free |-> s.free \ {f},
            at   |-> f]

\* The walk of map_page down to the page table; tables created before a
\* failure stay in place.
Descend(m, free, root, va) ==
  get_or_create_table(
    get_or_create_table(
      get_or_create_table([mem |-> m, free |-> free, at |-> root], va[1]),
      va[2]),
    va[3])

\* The outcome of map_page: FrameAllocationFailed, AlreadyMapped or success.
map_page(m, free, root, va, frame) ==
  LET s == Descend(m, free, root, va)
  IN  IF s.at = NoFrame \/ s.mem[s.at][va[4]] # NoFrame
      THEN [mem |-> s.mem, free |-> s.free, ok |-> FALSE]
      ELSE [mem |-> [s.mem EXCEPT ![s.at][va[4]] = frame],
            free |-> s.free, ok |-> TRUE]

\* unmap_page clears the leaf entry and leaves the tables above it.
unmap_page(m, root, va) ==
  IF translate(m, root, va) = NoFrame THEN m
  ELSE [m EXCEPT ![TableOf(m, root, va)][va[4]] = NoFrame]
=============================================================================
