--------------------------- MODULE VmmInitProofs ---------------------------
(***************************************************************************)
(* What vmm::init leaves behind, on every machine: for any memory map, any *)
(* devices, any size of the bootstrap pool and any number of free frames,  *)
(* nothing is ever mapped below a 2 MiB page, and an init that returns has *)
(* backed the whole kernel half.                                           *)
(*                                                                         *)
(* The invariant adds what makes the two inductive: while Step 0 lays out  *)
(* 2 MiB pages no table is deep enough to be in their place, and Step 5    *)
(* has filled every slot before the one it is at.                          *)
(***************************************************************************)
EXTENDS VmmInit, SequenceTheorems, TLAPS

\* No page table exists while Step 0 runs.
Shallow == step = 0 => leaves = {} /\ \A t \in tables : Len(t) <= 2

\* Step 5's loop invariant.
SlotsFilled ==
  /\ step = 5 => /\ curr \in KERNEL_PML4_START .. ENTRIES - 1
                 /\ \A i \in KERNEL_PML4_START .. curr - 1 : <<i>> \in tables
  /\ step \in {0, 1, 2, 3, 5, 6, -1}

IInv == NothingBelowHugePages /\ Shallow /\ SlotsFilled /\ KernelHalfBacked

-----------------------------------------------------------------------------

\* The tables on the way to a page lie one, two and three levels down.
LEMMA Depths ==
  ASSUME NEW p
  PROVE  Len(Pdpt(p)) = 1 /\ Len(Pd(p)) = 2 /\ Len(Pt(p)) = 3
<1> DEFINE a == p \div (ENTRIES * ENTRIES * ENTRIES)
           b == (p \div (ENTRIES * ENTRIES)) % ENTRIES
           c == (p \div ENTRIES) % ENTRIES
           S == {a, b, c}
<1>1. Pdpt(p) = <<a>> /\ Pd(p) = Append(<<a>>, b) /\ Pt(p) = Append(Append(<<a>>, b), c)
  BY Zenon DEF Pdpt, Pd, Pt
<1>2. a \in S /\ b \in S /\ c \in S
  OBVIOUS
<1> HIDE DEF a, b, c, S
<1>3. <<a>> \in Seq(S) /\ Len(<<a>>) = 1
  BY <1>2
<1>4. Append(<<a>>, b) \in Seq(S) /\ Len(Append(<<a>>, b)) = 2
  BY <1>2, <1>3, AppendProperties
<1>5. Len(Append(Append(<<a>>, b), c)) = 3
  BY <1>2, <1>4, AppendProperties
<1> QED BY <1>1, <1>3, <1>4, <1>5

\* A step of a walk: it keeps the tables there are, adds the one asked for at
\* most, and none in the place of a 2 MiB page; when it succeeds the table is
\* there (get_or_create_table).
LEMMA OneLevel ==
  ASSUME NEW w, NEW path, NEW T, NEW n, NEW e,
         w = [tables |-> T, left |-> n, err |-> e]
  PROVE  LET v == get_or_create_table(w, path)
         IN  /\ v = [tables |-> v.tables, left |-> v.left, err |-> v.err]
             /\ T \subseteq v.tables
             /\ v.tables \subseteq T \cup {path}
             /\ huge \cap T = {} => huge \cap v.tables = {}
             /\ v.err = "None" => path \in v.tables \ huge /\ e = "None"
<1> DEFINE v == get_or_create_table(w, path)
<1>1. CASE e # "None"
  BY <1>1 DEF get_or_create_table
<1>2. CASE e = "None" /\ path \in huge
  BY <1>2 DEF get_or_create_table
<1>3. CASE e = "None" /\ path \notin huge /\ path \in T
  BY <1>3 DEF get_or_create_table
<1>4. CASE e = "None" /\ path \notin huge /\ path \notin T /\ n = 0
  BY <1>4 DEF get_or_create_table
<1>5. CASE e = "None" /\ path \notin huge /\ path \notin T /\ n # 0
  BY <1>5 DEF get_or_create_table
<1> QED BY <1>1, <1>2, <1>3, <1>4, <1>5

\* map_2mb_huge_page while there are no page tables: its new entry takes the
\* place of none.
LEMMA HugePageKeeps ==
  ASSUME NEW p, map_2mb_huge_page(p), leaves = {},
         \A t \in tables : Len(t) <= 2, huge \cap tables = {}
  PROVE  /\ leaves' = {}
         /\ \A t \in tables' : Len(t) <= 2
         /\ huge' \cap tables' = {}
<1> DEFINE u == get_or_create_table(Walk, Pdpt(p))
           w == get_or_create_table(u, Pd(p))
<1>1. /\ u = [tables |-> u.tables, left |-> u.left, err |-> u.err]
      /\ u.tables \subseteq tables \cup {Pdpt(p)}
      /\ huge \cap u.tables = {}
  BY OneLevel DEF Walk
<1> HIDE DEF u
<1>2. /\ w.tables \subseteq u.tables \cup {Pd(p)}
      /\ huge \cap w.tables = {}
  BY <1>1, OneLevel
<1>3. /\ tables' = w.tables /\ leaves' = leaves
      /\ huge' = IF w.err = "None" THEN huge \cup {Pt(p)} ELSE huge
  BY DEF map_2mb_huge_page, Keep, u
<1> HIDE DEF w
<1>4. \A t \in tables' : Len(t) <= 2
  <2> SUFFICES ASSUME NEW t \in tables' PROVE Len(t) <= 2
    OBVIOUS
  <2>1. t \in tables \/ t = Pdpt(p) \/ t = Pd(p)
    BY <1>1, <1>2, <1>3
  <2> QED BY <2>1, Depths
<1>5. Pt(p) \notin tables'
  BY <1>4, Depths
<1> QED BY <1>2, <1>3, <1>4, <1>5

\* map_page, whatever it finds: a leaf is written only below a table that is
\* no 2 MiB page.
LEMMA MapPageKeeps ==
  ASSUME NEW p, map_page(p), NothingBelowHugePages
  PROVE  NothingBelowHugePages'
<1> DEFINE u == get_or_create_table(Walk, Pdpt(p))
           v == get_or_create_table(u, Pd(p))
           w == get_or_create_table(v, Pt(p))
<1>1. /\ u = [tables |-> u.tables, left |-> u.left, err |-> u.err]
      /\ tables \subseteq u.tables
      /\ huge \cap u.tables = {}
  BY OneLevel DEF Walk, NothingBelowHugePages
<1> HIDE DEF u
<1>2. /\ v = [tables |-> v.tables, left |-> v.left, err |-> v.err]
      /\ u.tables \subseteq v.tables
      /\ huge \cap v.tables = {}
  BY <1>1, OneLevel
<1> HIDE DEF v
<1>3. /\ v.tables \subseteq w.tables
      /\ huge \cap w.tables = {}
      /\ w.err = "None" => Pt(p) \in w.tables \ huge
  BY <1>2, OneLevel
<1>4. MapWalk(p) = w
  BY DEF MapWalk, u, v
<1> HIDE DEF w
<1>5. /\ tables' = w.tables /\ huge' = huge
      /\ \/ leaves' = leaves
         \/ leaves' = leaves \cup {p} /\ w.err = "None"
  BY <1>4 DEF map_page, Keep, MapError
<1>6. \A q \in leaves' : Pt(q) \in tables' \ huge'
  BY <1>1, <1>2, <1>3, <1>5 DEF NothingBelowHugePages
<1> QED BY <1>3, <1>5, <1>6 DEF NothingBelowHugePages, Pt, Pd, Pdpt

\* NextRange stays in Steps 1 and 2 or goes on to Step 3.
LEMMA NextRangeStep ==
  ASSUME NextRange, step \in {1, 2}
  PROVE  step' \in {1, 2, 3}
  BY DEF NextRange

\* Every step keeps the invariant.
LEMMA InvStep ==
  ASSUME IInv, [Next]_vars
  PROVE  IInv'
<1> USE DEF IInv
<1>1. CASE StepZero
  <2>1. CASE BelowFourGiB(curr) /\ map_2mb_huge_page(curr) /\ step' = step
    <3>1. step = 0 /\ step' = 0
      BY <1>1, <2>1 DEF StepZero
    <3>2. /\ leaves' = {} /\ huge' \cap tables' = {}
          /\ \A t \in tables' : Len(t) <= 2
      BY <3>1, <2>1, HugePageKeeps DEF Shallow, NothingBelowHugePages
    <3> QED BY <3>1, <3>2
            DEF Shallow, NothingBelowHugePages, SlotsFilled, KernelHalfBacked
  <2>2. CASE step' = 1 /\ UNCHANGED <<tables, huge, leaves>>
    BY <2>2 DEF Shallow, NothingBelowHugePages, SlotsFilled, KernelHalfBacked,
                Pt, Pd, Pdpt
  <2> QED BY <1>1, <2>1, <2>2 DEF StepZero
<1>2. CASE StepOne
  <2>1. CASE map_page(curr) /\ step' = step
    <3>1. NothingBelowHugePages'
      BY <2>1, MapPageKeeps
    <3> QED BY <1>2, <2>1, <3>1 DEF StepOne, Shallow, SlotsFilled, KernelHalfBacked
  <2>2. CASE NextRange /\ UNCHANGED <<tables, huge, leaves>>
    <3>1. step' \in {1, 2, 3}
      BY <1>2, <2>2, NextRangeStep DEF StepOne
    <3> QED BY <2>2, <3>1 DEF Shallow, NothingBelowHugePages, SlotsFilled,
                              KernelHalfBacked, Pt, Pd, Pdpt
  <2> QED BY <1>2, <2>1, <2>2 DEF StepOne
<1>3. CASE identity_map_mmio
  <2>1. step' \in {1, 2, 3}
    BY <1>3, NextRangeStep DEF identity_map_mmio
  <2>2. CASE map_page(curr)
    <3>1. NothingBelowHugePages'
      BY <2>2, MapPageKeeps
    <3> QED BY <2>1, <3>1 DEF Shallow, SlotsFilled, KernelHalfBacked
  <2>3. CASE UNCHANGED <<tables, huge, leaves>>
    BY <2>1, <2>3 DEF Shallow, NothingBelowHugePages, SlotsFilled,
                      KernelHalfBacked, Pt, Pd, Pdpt
  <2> QED BY <1>3, <2>2, <2>3 DEF identity_map_mmio
<1>4. CASE SwitchCr3
  BY <1>4, VmmInitAssumption
  DEF SwitchCr3, Shallow, NothingBelowHugePages, SlotsFilled, KernelHalfBacked,
      Pt, Pd, Pdpt
<1>5. CASE StepFive
  <2> DEFINE w == get_or_create_table(
                    [tables |-> tables, left |-> frames, err |-> "None"], <<curr>>)
  <2>1. /\ tables \subseteq w.tables
        /\ huge \cap tables = {} => huge \cap w.tables = {}
        /\ w.err = "None" => <<curr>> \in w.tables
    BY OneLevel
  <2>2. /\ step = 5 /\ tables' = w.tables /\ curr' = curr + 1
        /\ step' = IF w.err # "None" THEN -1 ELSE IF LastSlot(curr) THEN 6 ELSE 5
        /\ UNCHANGED <<huge, leaves>>
    BY <1>5 DEF StepFive
  <2> HIDE DEF w
  <2>3. NothingBelowHugePages'
    BY <2>1, <2>2 DEF NothingBelowHugePages, Pt, Pd, Pdpt
  <2>4. /\ curr \in KERNEL_PML4_START .. ENTRIES - 1
        /\ \A i \in KERNEL_PML4_START .. curr - 1 : <<i>> \in tables
    BY <2>2 DEF SlotsFilled
  <2>5. w.err = "None" => \A i \in KERNEL_PML4_START .. curr : <<i>> \in tables'
    <3> SUFFICES ASSUME w.err = "None", NEW i \in KERNEL_PML4_START .. curr
                 PROVE  <<i>> \in tables'
      OBVIOUS
    <3>1. CASE i = curr
      BY <3>1, <2>1, <2>2
    <3>2. CASE i # curr
      <4>1. i \in KERNEL_PML4_START .. curr - 1
        BY <3>2, <2>4, VmmInitAssumption
      <4> QED BY <4>1, <2>1, <2>2, <2>4
    <3> QED BY <3>1, <3>2
  <2>6. SlotsFilled'
    BY <2>2, <2>4, <2>5, VmmInitAssumption DEF SlotsFilled, LastSlot
  <2>7. KernelHalfBacked'
    <3>1. step' = 6 => w.err = "None" /\ curr = ENTRIES - 1
      BY <2>2 DEF LastSlot
    <3> QED BY <2>5, <3>1 DEF KernelHalfBacked
  <2>8. Shallow'
    BY <2>2 DEF Shallow
  <2> QED BY <2>3, <2>6, <2>7, <2>8
<1>6. CASE UNCHANGED vars
  BY <1>6 DEF vars, Shallow, NothingBelowHugePages, SlotsFilled,
              KernelHalfBacked, Pt, Pd, Pdpt
<1> QED BY <1>1, <1>2, <1>3, <1>4, <1>5, <1>6 DEF Next

\* The invariant behind both properties holds throughout vmm::init.
THEOREM InitInvariant == Spec => []IInv
<1>1. Init => IInv
  <2> SUFFICES ASSUME Init PROVE IInv
    OBVIOUS
  <2>1. Len(<<>>) = 0
    OBVIOUS
  <2> QED BY <2>1 DEF Init, IInv, Shallow, NothingBelowHugePages, SlotsFilled,
                      KernelHalfBacked
<1> QED BY <1>1, InvStep, PTL DEF Spec

\* Whatever the memory map and the devices overlap, no walk of vmm::init
\* descends through a 2 MiB page (the HUGE_PAGE test of get_or_create_table).
THEOREM HugePagesStayLeaves == Spec => []NothingBelowHugePages
  BY InitInvariant, PTL DEF IInv

\* A vmm::init that returns has given every kernel-half slot its table,
\* however few frames the PMM had: otherwise it does not return.
THEOREM WholeKernelHalf == Spec => []KernelHalfBacked
  BY InitInvariant, PTL DEF IInv
=============================================================================
