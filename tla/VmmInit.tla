------------------------------ MODULE VmmInit ------------------------------
(***************************************************************************)
(* vmm::init of src/src/vmm.rs: how the kernel's first page tables come to *)
(* be.  Step 0 maps the low 4 GiB with 2 MiB pages, Step 1 the regions of  *)
(* the UEFI memory map, Step 2 the LAPIC, the I/O APIC and the             *)
(* framebuffer, all from a fixed pool of bootstrap tables; Steps 3 and 4   *)
(* switch CR3; Step 5 gives every kernel-half PML4 slot a table from the   *)
(* PMM.  Errors of Steps 0 to 2 are logged and ignored.                    *)
(*                                                                         *)
(* Everything is identity mapped, so an address space is the set of tables *)
(* (named by the indices leading to them), the set of PD entries that are  *)
(* 2 MiB pages and the set of mapped 4 KiB pages.                          *)
(***************************************************************************)
EXTENDS Integers, Sequences, FiniteSets

CONSTANTS ENTRIES,                \* entries of a table (512)
          LOW_PAGES,              \* pages of the low 4 GiB, all the PMM manages
          BOOTSTRAP_TABLE_COUNT,
          KERNEL_PML4_START,
          MAX_VIRT_REGIONS,
          Machines                \* [regions, devices: ranges, frames: PMM's]

VARIABLES machine,
          tables, huge, leaves,   \* what the new root maps
          BOOTSTRAP_INDEX,
          frames,                 \* free pages of the PMM
          regions,                \* the region table
          step, item, curr,       \* the loops of init
          cr3

vars == <<machine, tables, huge, leaves, BOOTSTRAP_INDEX, frames, regions,
          step, item, curr, cr3>>

Pages == 0 .. ENTRIES * ENTRIES * ENTRIES * ENTRIES - 1
PagesIn(r) == r.start .. r.start + r.pages - 1

ASSUME VmmInitAssumption ==
  /\ ENTRIES \in Nat \ {0, 1} /\ LOW_PAGES \in Nat /\ LOW_PAGES % ENTRIES = 0
  /\ BOOTSTRAP_TABLE_COUNT \in Nat \ {0}
  /\ KERNEL_PML4_START \in 1 .. ENTRIES - 1
  /\ \A m \in Machines :
       /\ m.regions # <<>> /\ m.devices # <<>> /\ m.frames \in Nat
       /\ \A k \in DOMAIN m.regions : PagesIn(m.regions[k]) \subseteq Pages
       /\ \A k \in DOMAIN m.devices : PagesIn(m.devices[k]) \subseteq Pages

\* The tables on the way to a page: PDPT, PD and PT.
Pdpt(p) == <<p \div (ENTRIES * ENTRIES * ENTRIES)>>
Pd(p) == Append(Pdpt(p), (p \div (ENTRIES * ENTRIES)) % ENTRIES)
Pt(p) == Append(Pd(p), (p \div ENTRIES) % ENTRIES)

-----------------------------------------------------------------------------

(***************************************************************************)
(* The page-table code.  A walk w carries the tables, the tables its       *)
(* allocator can still supply and how the walk stands.                     *)
(***************************************************************************)
allocate_bootstrap_table == BOOTSTRAP_TABLE_COUNT - BOOTSTRAP_INDEX

\* Mutated form of get_or_create_table: the HUGE_PAGE flag is not looked at.
ThroughHugePage(w, path) ==
  IF w.err # "None" \/ path \in w.tables THEN w
  ELSE IF w.left = 0 THEN [w EXCEPT !.err = "FrameAllocationFailed"]
  ELSE [w EXCEPT !.tables = @ \cup {path}, !.left = @ - 1]

\* A table for an entry that has none; no descent through a 2 MiB page.
get_or_create_table(w, path) ==
  IF w.err # "None" THEN w
  ELSE IF path \in huge THEN [w EXCEPT !.err = "AlreadyMapped"]
  ELSE IF path \in w.tables THEN w
  ELSE IF w.left = 0 THEN [w EXCEPT !.err = "FrameAllocationFailed"]
  ELSE [w EXCEPT !.tables = @ \cup {path}, !.left = @ - 1]

Walk == [tables |-> tables, left |-> allocate_bootstrap_table, err |-> "None"]

\* The tables a walk created stay, whether or not it got to the end.
Keep(w) ==
  /\ tables' = w.tables
  /\ BOOTSTRAP_INDEX' = BOOTSTRAP_TABLE_COUNT - w.left

map_2mb_huge_page(p) ==
  LET w == get_or_create_table(get_or_create_table(Walk, Pdpt(p)), Pd(p))
  IN  /\ Keep(w)
      /\ huge' = IF w.err = "None" THEN huge \cup {Pt(p)} ELSE huge
      /\ UNCHANGED leaves

\* The error of mapping page p, and its effect.
MapWalk(p) ==
  get_or_create_table(
    get_or_create_table(get_or_create_table(Walk, Pdpt(p)), Pd(p)), Pt(p))

MapError(p) ==
  IF MapWalk(p).err = "None" /\ p \in leaves THEN "AlreadyMapped"
  ELSE MapWalk(p).err

map_page(p) ==
  /\ Keep(MapWalk(p))
  /\ leaves' = IF MapError(p) = "None" THEN leaves \cup {p} ELSE leaves
  /\ UNCHANGED huge

\* A zero-sized, overlapping or surplus region is refused; init goes on.
register_region(r) ==
  regions' = IF \/ r.pages = 0
                \/ Len(regions) >= MAX_VIRT_REGIONS
                \/ \E k \in DOMAIN regions : PagesIn(regions[k]) \cap PagesIn(r) # {}
             THEN regions
             ELSE Append(regions, r)

-----------------------------------------------------------------------------

(***************************************************************************)
(* init, one loop iteration at a time.                                     *)
(***************************************************************************)
Init ==
  /\ machine \in Machines
  /\ tables = {<<>>} /\ huge = {} /\ leaves = {}
  /\ BOOTSTRAP_INDEX = 1
  /\ frames = machine.frames
  /\ regions = <<>>
  /\ step = 0 /\ item = 1 /\ curr = 0
  /\ cr3 = "firmware"

\* Step 0's loop condition.
BelowFourGiB(p) == p < LOW_PAGES

\* Step 0: the low 4 GiB in 2 MiB pages; the results are ignored.
StepZero ==
  /\ step = 0
  /\ \/ /\ BelowFourGiB(curr)
        /\ map_2mb_huge_page(curr)
        /\ curr' = curr + ENTRIES
        /\ UNCHANGED step
     \/ /\ ~BelowFourGiB(curr)
        /\ step' = 1
        /\ curr' = machine.regions[1].start
        /\ UNCHANGED <<tables, huge, leaves, BOOTSTRAP_INDEX>>
  /\ UNCHANGED <<machine, frames, regions, item, cr3>>

Ranges == IF step = 1 THEN machine.regions ELSE machine.devices

\* On to the next range of this step, or to the next step.
NextRange ==
  IF item < Len(Ranges)
  THEN /\ item' = item + 1
       /\ curr' = Ranges[item + 1].start
       /\ UNCHANGED step
  ELSE /\ item' = 1
       /\ step' = step + 1
       /\ curr' = IF step = 1 THEN machine.devices[1].start ELSE 0

\* The loop condition of Steps 1 and 2.
BeforeEnd(r) == curr < r.start + r.pages

\* Step 1: a page of a UEFI region, then the region's entry in the table.
StepOne ==
  /\ step = 1
  /\ \/ /\ BeforeEnd(Ranges[item])
        /\ map_page(curr)
        /\ curr' = curr + 1
        /\ UNCHANGED <<regions, step, item>>
     \/ /\ ~BeforeEnd(Ranges[item])
        /\ register_region(Ranges[item])
        /\ NextRange
        /\ UNCHANGED <<tables, huge, leaves, BOOTSTRAP_INDEX>>
  /\ UNCHANGED <<machine, frames, cr3>>

\* The errors identity_map_mmio goes on after, and the mutated form.
NoError(err) == err = "None"
Tolerated(err) == err \in {"None", "AlreadyMapped"}

\* Step 2: as Step 1, but a range is given up at its first real error.
identity_map_mmio ==
  /\ step = 2
  /\ \/ /\ BeforeEnd(Ranges[item])
        /\ map_page(curr)
        /\ UNCHANGED regions
        /\ IF Tolerated(MapError(curr))
           THEN curr' = curr + 1 /\ UNCHANGED <<step, item>>
           ELSE NextRange
     \/ /\ ~BeforeEnd(Ranges[item])
        /\ register_region(Ranges[item])
        /\ NextRange
        /\ UNCHANGED <<tables, huge, leaves, BOOTSTRAP_INDEX>>
  /\ UNCHANGED <<machine, frames, cr3>>

\* Steps 3 and 4.
SwitchCr3 ==
  /\ step = 3
  /\ cr3' = "ventura"
  /\ step' = 5
  /\ curr' = KERNEL_PML4_START
  /\ UNCHANGED <<machine, tables, huge, leaves, BOOTSTRAP_INDEX, frames,
                 regions, item>>

\* The end of Step 5's loop, and a mutated form that stops early.
StopsEarly(i) == i = ENTRIES - 2
LastSlot(i) == i = ENTRIES - 1

\* Step 5: a table for each kernel-half slot, from the PMM now; the kernel
\* halts (step -1) when it has none left.
StepFive ==
  /\ step = 5
  /\ LET w == get_or_create_table(
                [tables |-> tables, left |-> frames, err |-> "None"], <<curr>>)
     IN  /\ tables' = w.tables
         /\ frames' = w.left
         /\ step' = IF w.err # "None" THEN -1
                    ELSE IF LastSlot(curr) THEN 6 ELSE 5
  /\ curr' = curr + 1
  /\ UNCHANGED <<machine, huge, leaves, BOOTSTRAP_INDEX, regions, item, cr3>>

Next == StepZero \/ StepOne \/ identity_map_mmio \/ SwitchCr3 \/ StepFive

Spec == Init /\ [][Next]_vars

-----------------------------------------------------------------------------

(***************************************************************************)
(* Properties.                                                             *)
(***************************************************************************)

\* What the processor's own walk finds.  (vmm::translate differs from it on
\* a 2 MiB page, whose frame it reads as if it were a page table.)
Mapped(p) == Pt(p) \in huge \/ p \in leaves

\* get_or_create_table never descends through a 2 MiB page: no table and no
\* leaf sits below a huge entry, whatever the order in which the ranges that
\* Steps 1 and 2 map overlap the low 4 GiB.
NothingBelowHugePages ==
  /\ huge \cap tables = {}
  /\ \A p \in leaves : Pt(p) \in tables \ huge

\* From the moment CR3 is switched, everything the kernel goes on using is
\* mapped to its last page: all memory the PMM can ever hand out (its bitmap
\* covers the low 4 GiB), so that the tables and stacks built there can be
\* written through their physical addresses, the kernel image and the bootstrap
\* tables among it; and the LAPIC, the I/O APIC and the framebuffer
\* (identity_map_mmio, src/docs/kernel.md:156), also when the regions above
\* 4 GiB have used up the bootstrap pool.
KernelReachable ==
  cr3 = "ventura" =>
    /\ \A p \in 0 .. LOW_PAGES - 1 : Mapped(p)
    /\ \A k \in DOMAIN machine.devices :
         \A p \in PagesIn(machine.devices[k]) : Mapped(p)

\* When init returns, every kernel-half PML4 slot has its table: the sharing
\* that AddressSpace::new copies rests on no slot being filled in later.
KernelHalfBacked ==
  step = 6 => \A i \in KERNEL_PML4_START .. ENTRIES - 1 : <<i>> \in tables
=============================================================================
