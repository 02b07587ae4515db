---------------------------- MODULE AddressSpace ----------------------------
(***************************************************************************)
(* Process address spaces (src/src/address_space.rs) over the kernel's     *)
(* page tables (src/src/vmm.rs): creation, activation, private mappings,   *)
(* teardown, and mappings the kernel makes in the shared slots meanwhile.  *)
(*                                                                         *)
(* The states are those after vmm::init: the kernel root and the tables of *)
(* PML4 slot 0 come from the static bootstrap pool, every kernel-half slot *)
(* already has its PDPT.  The TLB is hardware: it holds what walks from    *)
(* CR3 have loaded, until invlpg or a CR3 write drops it (the kernel sets  *)
(* no GLOBAL flag and no PCID).                                            *)
(***************************************************************************)
EXTENDS PageTables

CONSTANTS KERNEL_PML4_START,  \* first PML4 slot of the kernel half
          KernelRoot,         \* ROOT_PML4_PHYS, a bootstrap-pool table
          LowPdpt,            \* the bootstrap-pool PDPT of slot 0
          Pool,               \* frames the PMM manages
          Leaves,             \* frames callers own and map
          PrivateVA, KernelVA,\* the virtual pages of the instance
          MaxAsid             \* bound: identities handed out in a behaviour

VARIABLES mem,          \* contents of the frames that can hold tables
          free,         \* frames free in the PMM
          root,         \* root_page of every space (NoFrame: none or destroyed)
          NEXT_ASID, CURRENT_ASID,
          cr3, tlb

vars == <<mem, free, root, NEXT_ASID, CURRENT_ASID, cr3, tlb>>

Asids == 1 .. MaxAsid
Tables == {KernelRoot, LowPdpt} \cup Pool
is_private_slot(i) == i # 0 /\ i < KERNEL_PML4_START
PrivateSlots == {i \in Index : is_private_slot(i)}
SharedSlots == Index \ PrivateSlots
KernelSlots == {i \in Index : i >= KERNEL_PML4_START}
Live == {id \in Asids : root[id] # NoFrame}

ASSUME AddressSpaceAssumption ==
  /\ KERNEL_PML4_START \in Nat /\ Index \subseteq Nat
  /\ Pool \subseteq Nat /\ IsFiniteSet(Pool) /\ MaxAsid \in Nat
  /\ NoFrame \notin Tables \cup Leaves
  /\ KernelRoot # LowPdpt /\ {KernelRoot, LowPdpt} \cap Pool = {}
  /\ Leaves \cap Tables = {}
  /\ \A va \in PrivateVA : va[1] \in PrivateSlots
  /\ \A va \in KernelVA : va[1] \in SharedSlots

-----------------------------------------------------------------------------

(***************************************************************************)
(* The tables below a root, through the PML4 slots in a given set.         *)
(***************************************************************************)
Children(m, ts, is) == {m[t][i] : t \in ts, i \in is} \ {NoFrame}

TablesBelow(m, r, slots) ==
  LET pdpts == Children(m, {r}, slots)
      pds   == Children(m, pdpts, Index)
      pts   == Children(m, pds, Index)
  IN  pdpts \cup pds \cup pts

PrivateTables(r) == TablesBelow(mem, r, PrivateSlots)

(***************************************************************************)
(* vmm::init, Step 5: every kernel-half slot gets a PDPT before the first  *)
(* address space copies the slots.                                         *)
(***************************************************************************)
KernelPdpts == CHOOSE p \in [KernelSlots -> Pool] :
                 \A i, j \in KernelSlots : p[i] = p[j] => i = j

\* The tables vmm::init leaves, and the frames it leaves free.
KernelMemory ==
  [t \in Tables |->
     IF t = KernelRoot
     THEN [i \in Index |-> IF i = 0 THEN LowPdpt
                           ELSE IF i \in KernelSlots THEN KernelPdpts[i]
                           ELSE NoFrame]
     ELSE EmptyTable]
FreeAfterInit == Pool \ {KernelPdpts[i] : i \in KernelSlots}

Init ==
  /\ mem = KernelMemory
  /\ free = FreeAfterInit
  /\ root = [id \in Asids |-> NoFrame]
  /\ NEXT_ASID = 1
  /\ CURRENT_ASID = 0
  /\ cr3 = KernelRoot
  /\ tlb = {}

-----------------------------------------------------------------------------

\* The slots a new root shares, and mutated forms that leave out slot 0 or the
\* kernel half.
KernelHalfOnly == KernelSlots
LowSlotOnly == {0}
CopiedSlots == SharedSlots

(***************************************************************************)
(* AddressSpace::new: a zeroed root with the shared slots of the kernel    *)
(* root.  RootPageAllocationFailed changes nothing.                        *)
(***************************************************************************)
new ==
  /\ NEXT_ASID \in Asids
  /\ free # {}
  /\ LET r == FirstFrame(free)
     IN  /\ mem' = [mem EXCEPT ![r] =
                      [i \in Index |-> IF i \in CopiedSlots
                                       THEN mem[KernelRoot][i] ELSE NoFrame]]
         /\ free' = free \ {r}
         /\ root' = [root EXCEPT ![NEXT_ASID] = r]
  /\ NEXT_ASID' = NEXT_ASID + 1
  /\ UNCHANGED <<CURRENT_ASID, cr3, tlb>>

\* The effect of activate on CR3, the TLB and CURRENT_ASID.  CR3 is written,
\* and the TLB dropped, only when it changes.
Activate(r, id) ==
  /\ cr3' = r
  /\ tlb' = IF cr3 = r THEN tlb ELSE {}
  /\ CURRENT_ASID' = id

\* activate on a live space or on AddressSpace::bootstrap(); on a destroyed
\* space it returns at once.
activate ==
  /\ \/ \E id \in Live : Activate(root[id], id)
     \/ Activate(KernelRoot, 0)
  /\ UNCHANGED <<mem, free, root, NEXT_ASID>>

\* invlpg after a change of va, and a mutated form without it.
NoInvlpg(va) == UNCHANGED tlb
Invlpg(va) == tlb' = {e \in tlb : e[1] # va}

(***************************************************************************)
(* vmm::map_page and vmm::unmap_page from a root.  A failed map keeps the  *)
(* tables it created and executes no invlpg.                               *)
(***************************************************************************)
MapFrom(r, va, f) ==
  LET s == map_page(mem, free, r, va, f)
  IN  /\ mem' = s.mem
      /\ free' = s.free
      /\ IF s.ok THEN Invlpg(va) ELSE UNCHANGED tlb
      /\ UNCHANGED <<root, NEXT_ASID, CURRENT_ASID, cr3>>

UnmapFrom(r, va) ==
  /\ translate(mem, r, va) # NoFrame
  /\ mem' = unmap_page(mem, r, va)
  /\ Invlpg(va)
  /\ UNCHANGED <<free, root, NEXT_ASID, CURRENT_ASID, cr3>>

\* AddressSpace::map_page and unmap_page refuse an address outside the
\* private slots, and change nothing then.
as_map_page(id, va, f) == is_private_slot(va[1]) /\ MapFrom(root[id], va, f)
as_unmap_page(id, va) == is_private_slot(va[1]) /\ UnmapFrom(root[id], va)

\* The kernel maps and unmaps pages of the shared slots through its own root,
\* whatever space is active.
kernel_map_page(va, f) == MapFrom(KernelRoot, va, f)
kernel_unmap_page(va) == UnmapFrom(KernelRoot, va)

(***************************************************************************)
(* destroy, also run by drop: leave the space if it is active, free the    *)
(* tables below the private slots and then the root.  Leaf frames belong   *)
(* to whoever mapped them.                                                 *)
(***************************************************************************)
\* The frames destroy gives back, and a mutated form that keeps the root.
TablesOnly(id) == PrivateTables(root[id])
Reclaimed(id) == PrivateTables(root[id]) \cup {root[id]}

free_private_tables(id) ==
  /\ mem' = [mem EXCEPT ![root[id]] =
               [i \in Index |-> IF i \in PrivateSlots THEN NoFrame ELSE @[i]]]
  /\ free' = free \cup Reclaimed(id)

\* Mutated form of SwitchAway: the space is torn down under the CPU.
StaysActive(id) == UNCHANGED <<cr3, tlb, CURRENT_ASID>>

SwitchAway(id) ==
  IF cr3 = root[id] THEN Activate(KernelRoot, 0)
  ELSE UNCHANGED <<cr3, tlb, CURRENT_ASID>>

destroy(id) ==
  /\ SwitchAway(id)
  /\ free_private_tables(id)
  /\ root' = [root EXCEPT ![id] = NoFrame]
  /\ UNCHANGED NEXT_ASID

\* The processor walks the active tables for va and caches the result.
Access(va) ==
  /\ translate(mem, cr3, va) # NoFrame
  /\ \A e \in tlb : e[1] # va
  /\ tlb' = tlb \cup {<<va, translate(mem, cr3, va)>>}
  /\ UNCHANGED <<mem, free, root, NEXT_ASID, CURRENT_ASID, cr3>>

Next ==
  \/ new
  \/ activate
  \/ \E id \in Live :
       \/ destroy(id)
       \/ \E va \in PrivateVA \cup KernelVA :
            as_unmap_page(id, va) \/ \E f \in Leaves : as_map_page(id, va, f)
  \/ \E va \in KernelVA :
       kernel_unmap_page(va) \/ \E f \in Leaves : kernel_map_page(va, f)
  \/ \E va \in PrivateVA \cup KernelVA : Access(va)

Spec == Init /\ [][Next]_vars

-----------------------------------------------------------------------------

\* A kernel mapping, made at any time (also after a space was created, also
\* while another space is active), is seen alike in every live address space.
KernelHalfShared ==
  \A id \in Live, va \in KernelVA :
    translate(mem, root[id], va) = translate(mem, KernelRoot, va)

Owned(id) == {root[id]} \cup PrivateTables(root[id])
KernelTables == TablesBelow(mem, KernelRoot, SharedSlots)

\* Every PMM frame is free, or a table of the kernel's shared slots, or a
\* table of exactly one live space: teardown and failed mappings leak no
\* table, and no frame is handed out while a live tree still uses it.
FramesAccounted ==
  /\ Pool = free \cup (KernelTables \cap Pool) \cup UNION {Owned(id) : id \in Live}
  /\ free \cap KernelTables = {}
  /\ \A id \in Live : /\ Owned(id) \cap (free \cup KernelTables) = {}
                      /\ \A o \in Live \ {id} : Owned(id) \cap Owned(o) = {}

\* No translation the TLB holds is stale: each is what a walk of the active
\* tables finds now, whichever root the last map, unmap or teardown went
\* through.
TlbCoherent == \A e \in tlb : translate(mem, cr3, e[1]) = e[2]

(***************************************************************************)
(* The page tables implement the views of AbstractSpaces.                  *)
(***************************************************************************)
View(r, vas) == [va \in vas |-> translate(mem, r, va)]

Abstract == INSTANCE AbstractSpaces
  WITH Spaces <- Asids, Unmapped <- NoFrame,
       kernel <- View(KernelRoot, KernelVA),
       private <- [id \in Live |-> View(root[id], PrivateVA)]

\* Page tables built from shared and reused frames implement independent
\* views: a step on one space changes one entry of that space's view and
\* nothing of the others', and a new space starts with an empty view.
ViewsSpec == Abstract!Spec
=============================================================================
