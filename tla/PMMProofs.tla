----------------------------- MODULE PMMProofs -----------------------------
(***************************************************************************)
(* Proofs about the frame allocator, for every bitmap size, word width and *)
(* memory map.  The inductive invariant adds to the properties of PMM what *)
(* the region table guarantees (its ends are bounded, usable regions are   *)
(* apart) and what the counters count.                                     *)
(***************************************************************************)
EXTENDS PMM, FiniteSetTheorems, FunctionTheorems, WellFoundedInduction, TLAPS

FreeBits == AllPages \ bitmap

\* Region i covers page p.
Covers(i, p) == regions[i].physical_start <= p /\ p < regions[i].physical_end

RegionsBounded ==
  \A i \in DOMAIN regions : regions[i].physical_end <= ADDR_PAGES

UsableApart ==
  \A i, j \in DOMAIN regions : \A p \in AllPages :
    /\ regions[i].is_usable /\ regions[j].is_usable
    /\ Covers(i, p) /\ Covers(j, p)
    => i = j

Unowned == phase # "ready" => owned = {}

Counted ==
  phase = "ready" =>
    /\ \A p \in Allocatable : p < stats.total
    /\ stats.free = Cardinality(FreeBits)
    /\ stats.used + stats.free = stats.total

IInv == /\ TypeOK /\ RegionsBounded /\ UsableApart /\ Unowned
        /\ Conservation /\ Counted

USE DEF AllPages

-----------------------------------------------------------------------------
(* The natural numbers.                                                    *)

\* The library's relation for < on Nat, spelled out.
LEMMA NatLess == OpToRel(<, Nat) = {ss \in Nat \X Nat : ss[1] < ss[2]}
  BY Zenon DEF OpToRel

\* A non-empty set of naturals has a least element: the scans that look for
\* the first free bit or the first fitting block find one.
LEMMA LeastNat ==
  ASSUME NEW S, S \subseteq Nat, S # {}
  PROVE  \E x \in S : \A y \in S : x <= y
<1> DEFINE R == {ss \in Nat \X Nat : ss[1] < ss[2]}
<1>1. IsWellFoundedOn(R, Nat)
  BY NatLessThanWellFounded, NatLess
<1>2. PICK x \in S : \A y \in S : ~ (<<y, x>> \in R)
  <2> HIDE DEF R
  <2> QED BY <1>1, WFMin
<1>3. ASSUME NEW y \in S PROVE x <= y
  <2>1. x \in Nat /\ y \in Nat
    OBVIOUS
  <2>2. <<y, x>> \notin R
    BY <1>2
  <2>3. ~(y < x)
    BY <2>1, <2>2
  <2> QED BY <2>1, <2>3
<1> QED BY <1>3

\* A bounded non-empty set of naturals has a greatest element.
LEMMA GreatestNat ==
  ASSUME NEW S, S \subseteq Nat, S # {},
         NEW b \in Nat, \A x \in S : x <= b
  PROVE  \E x \in S : \A y \in S : y <= x
<1> DEFINE U == {n \in Nat : \A x \in S : x <= n}
<1>1. PICK u \in U : \A v \in U : u <= v
  BY LeastNat
<1>2. u \in S
  <2> SUFFICES ASSUME u \notin S PROVE FALSE
    OBVIOUS
  <2>1. \A x \in S : x <= u - 1
    OBVIOUS
  <2>2. u - 1 \in Nat
    <3>1. PICK x \in S : TRUE
      OBVIOUS
    <3>2. x \in Nat /\ u \in Nat /\ x <= u - 1
      BY <2>1
    <3> QED BY <3>2
  <2>3. u - 1 \in U
    BY <2>1, <2>2
  <2> QED BY <1>1, <2>3
<1> QED BY <1>2

\* Integer division rounds down: a lies in block a \div b of length b.
LEMMA DivBounds ==
  ASSUME NEW a \in Nat, NEW b \in Nat \ {0}
  PROVE  /\ a \div b \in Nat
         /\ (a \div b) * b <= a
         /\ a < (a \div b) * b + b
  OBVIOUS

\* Blocks of length b follow one another.
LEMMA BlocksOrdered ==
  ASSUME NEW x \in Nat, NEW y \in Nat, NEW b \in Nat, x < y
  PROVE  x * b + b <= y * b
  OBVIOUS

\* The product of two naturals is one.
LEMMA ProductNat ==
  ASSUME NEW x \in Nat, NEW b \in Nat
  PROVE  x * b \in Nat
  OBVIOUS

\* The numeric constants are naturals.
LEMMA Constants ==
  /\ MAX_MANAGED_PAGES \in Nat /\ MAX_MANAGED_PAGES > 0
  /\ BITS \in Nat \ {0}
  /\ ADDR_PAGES \in Nat
  BY PMMAssumption

\* The typing facts the arithmetic needs.
LEMMA Types ==
  ASSUME TypeOK
  PROVE  /\ stats.total \in Nat /\ stats.total <= MAX_MANAGED_PAGES
         /\ stats.free \in Nat /\ stats.used \in Nat
         /\ bitmap \subseteq AllPages
         /\ \A i \in DOMAIN regions : /\ i \in Nat
                                      /\ regions[i].physical_start \in Nat
                                      /\ regions[i].physical_end \in Nat
<1>1. stats \in [total : 0 .. MAX_MANAGED_PAGES, usable : Nat, free : Nat,
                  used : Nat]
  BY DEF TypeOK
<1>2. /\ stats.total \in Nat /\ stats.total <= MAX_MANAGED_PAGES
      /\ stats.free \in Nat /\ stats.used \in Nat
  BY <1>1, Constants
<1>3. ASSUME NEW i \in DOMAIN regions
      PROVE  /\ i \in Nat
             /\ regions[i].physical_start \in Nat
             /\ regions[i].physical_end \in Nat
  <2>1. regions[i] \in MemoryRegion /\ i \in Nat
    BY DEF TypeOK
  <2> QED BY <2>1 DEF MemoryRegion
<1> QED BY <1>2, <1>3 DEF TypeOK

\* The bitmap's pages are naturals, finitely many.
LEMMA AllPagesFinite ==
  ASSUME NEW S, S \subseteq AllPages
  PROVE  IsFiniteSet(S) /\ Cardinality(S) \in Nat
<1>1. IsFiniteSet(AllPages)
  BY Constants, FS_Interval
<1> QED BY <1>1, FS_Subset, FS_CardinalityType

\* pmm::init's highest address is the greatest region end.
LEMMA HighestAddr ==
  ASSUME TypeOK, RegionsBounded
  PROVE  /\ highest_addr \in Nat
         /\ \A i \in DOMAIN regions : regions[i].physical_end <= highest_addr
<1>1. Ends \subseteq Nat /\ 0 \in Ends
  BY Types DEF Ends
<1>2. \A e \in Ends : e <= ADDR_PAGES
  BY Constants DEF Ends, RegionsBounded
<1>3. ADDR_PAGES \in Nat
  BY Constants
<1>4. \E a \in Ends : \A e \in Ends : e <= a
  BY <1>1, <1>2, <1>3, GreatestNat
<1>5. highest_addr \in Ends /\ \A e \in Ends : e <= highest_addr
  BY <1>4 DEF highest_addr
<1>6. \A i \in DOMAIN regions : regions[i].physical_end \in Ends
  BY DEF Ends
<1> QED BY <1>1, <1>5, <1>6

\* The lowest zero bit of a word that has one.
LEMMA FirstZeroLeast ==
  ASSUME NEW w \in Nat, WordFree(w) # {}
  PROVE  /\ FirstZero(w) \in WordFree(w)
         /\ \A q \in WordFree(w) : FirstZero(w) <= q
         /\ FirstZero(w) \in Nat
<1>1. w * BITS \in Nat
  BY Constants, ProductNat
<1>2. WordFree(w) \subseteq Nat
  BY <1>1, Constants DEF WordFree
<1>3. \E p \in WordFree(w) : \A q \in WordFree(w) : p <= q
  BY <1>2, LeastNat
<1> QED BY <1>2, <1>3 DEF FirstZero

\* A page the scan finds is a managed page whose bit is clear.
LEMMA HitIsFree ==
  ASSUME TypeOK, NEW w \in Nat, Hit(w)
  PROVE  FirstZero(w) \in FreeBits /\ FirstZero(w) < stats.total
<1>1. FirstZero(w) \in WordFree(w) /\ FirstZero(w) \in Nat
  BY FirstZeroLeast DEF Hit
<1> QED BY <1>1, Types, Constants DEF Hit, WordFree, FreeBits

\* Every clear managed bit lies in a word the scan looks at, and that word is
\* a hit.
LEMMA FreeIsHit ==
  ASSUME TypeOK, NEW p \in FreeBits, p < stats.total
  PROVE  \E w \in 0 .. words_to_scan - 1 :
           /\ Hit(w) /\ FirstZero(w) <= p
           /\ w * BITS <= p
<1> DEFINE w == p \div BITS
           n == stats.total + BITS - 1
<1>1. p \in Nat /\ BITS \in Nat \ {0} /\ stats.total \in Nat /\ n \in Nat
  BY Constants, Types DEF FreeBits
<1>2. w \in Nat /\ w * BITS <= p /\ p < w * BITS + BITS
  BY <1>1, DivBounds
<1>3. n \div BITS \in Nat /\ n < (n \div BITS) * BITS + BITS
  BY <1>1, DivBounds
<1>4. w < n \div BITS
  <2> SUFFICES ASSUME ~(w < n \div BITS) PROVE FALSE
    OBVIOUS
  <2>1. CASE w = n \div BITS
    BY <2>1, <1>1, <1>2, <1>3
  <2>2. CASE n \div BITS < w
    <3>1. (n \div BITS) * BITS + BITS <= w * BITS
      BY <2>2, <1>1, <1>2, <1>3, BlocksOrdered
    <3>2. w * BITS \in Nat /\ (n \div BITS) * BITS \in Nat
      BY <1>1, <1>2, <1>3, ProductNat
    <3> QED BY <3>1, <3>2, <1>1, <1>2, <1>3
  <2> QED BY <2>1, <2>2, <1>2, <1>3
<1>5. w * BITS \in Nat
  BY <1>1, <1>2, ProductNat
<1>6. p \in WordFree(w)
  BY <1>1, <1>2, <1>5 DEF WordFree, FreeBits
<1>7. FirstZero(w) <= p /\ FirstZero(w) \in Nat
  BY <1>2, <1>6, FirstZeroLeast
<1>8. Hit(w)
  BY <1>1, <1>6, <1>7 DEF Hit
<1>9. w \in 0 .. words_to_scan - 1
  BY <1>2, <1>3, <1>4 DEF words_to_scan
<1> QED BY <1>2, <1>7, <1>8, <1>9

-----------------------------------------------------------------------------

\* The state before the memory map is read.
LEMMA InitInv == Init => IInv
<1> SUFFICES ASSUME Init PROVE IInv
  OBVIOUS
<1>1. TypeOK
  BY Constants DEF Init, TypeOK, None
<1> QED BY <1>1 DEF Init, IInv, RegionsBounded, UsableApart, Unowned,
                    Conservation, Counted

\* Reading the memory map: accepted descriptors become bounded regions, and
\* usable ones stay apart.
LEMMA MapInv ==
  ASSUME IInv, NEW m \in MemoryMaps, init_from_uefi(m)
  PROVE  IInv'
<1> DEFINE rec == Recorded(m)
<1>1. m \in Seq(Descriptor) /\ UsableDisjoint(m)
  BY PMMAssumption
<1>2. rec \subseteq DOMAIN m /\ DOMAIN m \subseteq Nat
  BY <1>1 DEF Recorded
<1>3. ASSUME NEW i \in rec
      PROVE  /\ m[i] \in Descriptor /\ Accepted(m[i])
             /\ RegionOf(m[i]) \in MemoryRegion
             /\ RegionOf(m[i]).physical_start = m[i].physical_start
             /\ RegionOf(m[i]).physical_end =
                  m[i].physical_start + m[i].number_of_pages
             /\ RegionOf(m[i]).is_usable = IsUsable(m[i])
             /\ RegionOf(m[i]).physical_end <= ADDR_PAGES
  <2>1. m[i] \in Descriptor /\ Accepted(m[i])
    BY <1>1, <1>2 DEF Recorded
  <2>2. m[i].physical_start \in Nat /\ m[i].number_of_pages \in Nat
    BY <2>1 DEF Descriptor
  <2>3. IsUsable(m[i]) \in BOOLEAN
    BY DEF IsUsable
  <2>4. RegionOf(m[i]) \in MemoryRegion
    BY <2>2, <2>3 DEF RegionOf, MemoryRegion
  <2> QED BY <2>1, <2>2, <2>4, Constants DEF RegionOf, Accepted, Representable
<1>4. /\ DOMAIN regions' = rec
      /\ \A i \in rec : regions'[i] = RegionOf(m[i])
  BY DEF init_from_uefi
<1>5. phase = "firmware" /\ phase' = "mapped"
      /\ UNCHANGED <<bitmap, stats, owned, ret>>
  BY DEF init_from_uefi
<1>6. TypeOK'
  <2>1. DOMAIN regions' \subseteq Nat
    BY <1>2, <1>4
  <2>2. \A i \in DOMAIN regions' : regions'[i] \in MemoryRegion
    BY <1>3, <1>4
  <2> HIDE DEF rec
  <2> QED BY <1>5, <2>1, <2>2 DEF IInv, TypeOK
<1>7. RegionsBounded'
  BY <1>3, <1>4 DEF RegionsBounded
<1>8. UsableApart'
  <2> SUFFICES ASSUME NEW i \in rec, NEW j \in rec, NEW p \in AllPages,
                      regions'[i].is_usable, regions'[j].is_usable,
                      Covers(i, p)', Covers(j, p)', i # j
               PROVE  FALSE
    BY <1>4 DEF UsableApart
  <2>1. IsUsable(m[i]) /\ IsUsable(m[j]) /\ Accepted(m[i]) /\ Accepted(m[j])
    BY <1>3, <1>4
  <2>2. p \in Int
    BY Constants
  <2>3. /\ m[i].physical_start \in Nat /\ m[i].number_of_pages \in Nat
        /\ m[j].physical_start \in Nat /\ m[j].number_of_pages \in Nat
    BY <1>3 DEF Descriptor
  <2>4. p \in FramesOf(m[i]) /\ p \in FramesOf(m[j])
    BY <1>3, <1>4, <2>2, <2>3 DEF Covers, FramesOf
  <2>5. FramesOf(m[i]) \cap FramesOf(m[j]) = {}
    BY <1>1, <1>2, <2>1 DEF UsableDisjoint
  <2> QED BY <2>4, <2>5
<1> QED BY <1>5, <1>6, <1>7, <1>8 DEF IInv, Unowned, Conservation, Counted

\* The (region, page) pairs that pmm::init clears are one for each
\* allocatable frame.
LEMMA ClearedCount ==
  ASSUME TypeOK, RegionsBounded, UsableApart
  PROVE  /\ {c[2] : c \in Cleared(TotalManaged)} = Allocatable
         /\ Cardinality(Cleared(TotalManaged)) = Cardinality(Allocatable)
         /\ \A p \in Allocatable : p < TotalManaged
         /\ TotalManaged \in 0 .. MAX_MANAGED_PAGES
<1> DEFINE C == Cleared(TotalManaged)
           f == [c \in C |-> c[2]]
<1>1. /\ highest_addr \in Nat
      /\ \A i \in DOMAIN regions : regions[i].physical_end <= highest_addr
  BY HighestAddr
<1>2. TotalManaged \in 0 .. MAX_MANAGED_PAGES
  BY <1>1, Constants DEF TotalManaged
<1>3. ASSUME NEW p \in Allocatable
      PROVE  /\ p < TotalManaged
             /\ \E i \in DOMAIN regions : <<i, p>> \in C
  <2>1. PICK i \in DOMAIN regions : regions[i].is_usable /\ Covers(i, p)
    BY DEF Allocatable, Covers
  <2>2. p \in Nat /\ p # 0 /\ p \in AllPages
    BY Constants DEF Allocatable
  <2>3. p < TotalManaged
    BY <1>1, <2>1, <2>2, Constants, Types DEF TotalManaged, Covers
  <2>4. <<i, p>> \in C
    BY <2>1, <2>2, <2>3 DEF Cleared, Covers
  <2> QED BY <2>3, <2>4
<1>4. ASSUME NEW c \in C
      PROVE  /\ c = <<c[1], c[2]>> /\ c[1] \in DOMAIN regions
             /\ c[2] \in Allocatable
             /\ regions[c[1]].is_usable /\ Covers(c[1], c[2])
  BY DEF Cleared, Allocatable, Covers
<1>5. {c[2] : c \in C} = Allocatable
  <2>1. \A c \in C : c[2] \in Allocatable
    BY <1>4
  <2>2. \A p \in Allocatable : \E c \in C : p = c[2]
    BY <1>3
  <2> HIDE DEF C
  <2> QED BY <2>1, <2>2
<1>6. f \in Bijection(C, Allocatable)
  <2>1. f \in [C -> Allocatable]
    BY <1>4
  <2>2. \A p \in Allocatable : \E c \in C : f[c] = p
    BY <1>3
  <2>3. ASSUME NEW c \in C, NEW d \in C, f[c] = f[d]
        PROVE  c = d
    <3>1. c[2] = d[2] /\ c[2] \in AllPages
      BY <2>3, <1>4 DEF Allocatable
    <3>2. c[1] = d[1]
      BY <3>1, <1>4 DEF UsableApart
    <3> QED BY <3>1, <3>2, <1>4
  <2> HIDE DEF C, f
  <2> QED BY <2>1, <2>2, <2>3, Fun_IsBij
<1>7. ExistsBijection(Allocatable, C)
  <2>1. ExistsBijection(C, Allocatable)
    BY <1>6 DEF ExistsBijection
  <2> HIDE DEF C
  <2> QED BY <2>1, Fun_ExistsBijSymmetric
<1>8. IsFiniteSet(Allocatable)
  BY AllPagesFinite DEF Allocatable
<1>9. Cardinality(C) = Cardinality(Allocatable)
  <2> HIDE DEF C
  <2> QED BY <1>7, <1>8, FS_Bijection
<1> QED BY <1>2, <1>3, <1>5, <1>9

\* pmm::init establishes conservation and the counters.
LEMMA InitPmmInv ==
  ASSUME IInv, init
  PROVE  IInv'
<1> DEFINE C == Cleared(TotalManaged)
           n == Cardinality(C)
<1>1. /\ {c[2] : c \in C} = Allocatable
      /\ n = Cardinality(Allocatable)
      /\ \A p \in Allocatable : p < TotalManaged
      /\ TotalManaged \in 0 .. MAX_MANAGED_PAGES
  BY ClearedCount DEF IInv
<1>2. phase = "mapped" /\ phase' = "ready" /\ UNCHANGED <<regions, owned, ret>>
  BY DEF init
<1>3. bitmap' = AllPages \ Allocatable
  BY <1>1 DEF init
<1>4. stats' = [total |-> TotalManaged, usable |-> n, free |-> n,
                used |-> saturating_sub(TotalManaged, n)]
  BY DEF init
<1>5. Allocatable \subseteq 1 .. TotalManaged - 1
  BY <1>1, Constants DEF Allocatable
<1>6. n \in Nat /\ n <= TotalManaged
  <2>1. IsFiniteSet(1 .. TotalManaged - 1)
        /\ Cardinality(1 .. TotalManaged - 1) <= TotalManaged
    <3>1. TotalManaged - 1 \in Int /\ 1 \in Int /\ TotalManaged \in Nat
      BY <1>1
    <3>2. /\ IsFiniteSet(1 .. TotalManaged - 1)
          /\ Cardinality(1 .. TotalManaged - 1) =
               IF 1 > TotalManaged - 1 THEN 0 ELSE (TotalManaged - 1) - 1 + 1
      BY ONLY <3>1, FS_Interval, Zenon
    <3> QED BY <3>1, <3>2
  <2>2. Cardinality(Allocatable) <= Cardinality(1 .. TotalManaged - 1)
    BY <1>5, <2>1, FS_Subset
  <2>3. Cardinality(Allocatable) \in Nat
    BY AllPagesFinite DEF Allocatable
  <2>4. Cardinality(1 .. TotalManaged - 1) \in Nat
    BY <2>1, FS_CardinalityType
  <2> QED BY <1>1, <2>1, <2>2, <2>3, <2>4
<1>7. Allocatable' = Allocatable /\ FreeBits' = Allocatable /\ owned' = {}
  BY <1>2, <1>3 DEF Allocatable, FreeBits, IInv, Unowned
<1>8. /\ stats'.total = TotalManaged /\ stats'.free = n
      /\ stats'.used = TotalManaged - n
      /\ stats' \in [total : 0 .. MAX_MANAGED_PAGES, usable : Nat, free : Nat,
                     used : Nat]
  <2> HIDE DEF n
  <2> QED BY <1>1, <1>4, <1>6 DEF saturating_sub
<1>9. TypeOK'
  <2>1. bitmap' \subseteq AllPages /\ owned' \subseteq AllPages
    BY <1>3, <1>7
  <2> HIDE DEF n, C
  <2> QED BY <1>2, <1>8, <2>1 DEF IInv, TypeOK
<1>10. RegionsBounded' /\ UsableApart'
  BY <1>2 DEF IInv, RegionsBounded, UsableApart, Covers
<1>11. Conservation'
  BY <1>3, <1>7 DEF Conservation, Allocatable
<1>12. Counted'
  <2> HIDE DEF n, C
  <2> QED BY <1>1, <1>6, <1>7, <1>8 DEF Counted
<1> QED BY <1>2, <1>9, <1>10, <1>11, <1>12 DEF IInv, Unowned

\* Steps that leave the regions alone leave these parts of the invariant alone.
LEMMA RegionsKept ==
  ASSUME IInv, UNCHANGED regions
  PROVE  RegionsBounded' /\ UsableApart' /\ Allocatable' = Allocatable
  BY DEF IInv, RegionsBounded, UsableApart, Covers, Allocatable

\* Handing out a frame moves it from the free bits to its owner.
LEMMA AllocateInv ==
  ASSUME IInv, NEW w \in 0 .. words_to_scan - 1, AllocateFrom(w)
  PROVE  IInv'
<1> DEFINE f == FirstZero(w)
<1>1. TypeOK /\ Conservation /\ Counted /\ phase = "ready"
  BY DEF IInv, AllocateFrom
<1>2. w \in Nat
  OBVIOUS
<1>3. f \in FreeBits /\ f < stats.total
  BY <1>1, <1>2, HitIsFree DEF AllocateFrom
<1>4. /\ bitmap' = bitmap \cup {f} /\ owned' = owned \cup {f}
      /\ stats' = [stats EXCEPT !.free = saturating_sub(@, 1), !.used = @ + 1]
      /\ ret' = Some(f) /\ UNCHANGED <<phase, regions>>
  BY DEF AllocateFrom
<1> HIDE DEF f
<1>5. RegionsBounded' /\ UsableApart' /\ Allocatable' = Allocatable
  BY <1>4, RegionsKept
<1>6. FreeBits' = FreeBits \ {f}
  BY <1>4 DEF FreeBits
<1>7. /\ IsFiniteSet(FreeBits) /\ Cardinality(FreeBits) \in Nat
      /\ Cardinality(FreeBits \ {f}) = Cardinality(FreeBits) - 1
      /\ Cardinality(FreeBits) # 0
  <2>1. IsFiniteSet(FreeBits) /\ Cardinality(FreeBits) \in Nat
    BY AllPagesFinite DEF FreeBits
  <2> QED BY <1>3, <2>1, FS_RemoveElement, FS_EmptySet
<1>8. /\ stats'.total = stats.total
      /\ stats'.free = stats.free - 1 /\ stats'.used = stats.used + 1
      /\ stats' \in [total : 0 .. MAX_MANAGED_PAGES, usable : Nat, free : Nat,
                     used : Nat]
  <2>1. stats \in [total : 0 .. MAX_MANAGED_PAGES, usable : Nat, free : Nat,
                   used : Nat]
    BY <1>1 DEF TypeOK
  <2>2. stats.free = Cardinality(FreeBits)
    BY <1>1 DEF Counted
  <2>3. saturating_sub(stats.free, 1) = stats.free - 1 /\ stats.free - 1 \in Nat
    BY <1>7, <2>2 DEF saturating_sub
  <2>4. stats' = [stats EXCEPT !.free = stats.free - 1, !.used = stats.used + 1]
    BY <1>4, <2>1, <2>3
  <2>5. stats.total \in 0 .. MAX_MANAGED_PAGES /\ stats.used + 1 \in Nat
    BY <2>1
  <2>6. /\ stats'.total = stats.total
        /\ stats'.free = stats.free - 1 /\ stats'.used = stats.used + 1
    BY <2>1, <2>4
  <2>7. stats' \in [total : 0 .. MAX_MANAGED_PAGES, usable : Nat, free : Nat,
                    used : Nat]
    BY <2>1, <2>3, <2>4, <2>5
  <2> QED BY <2>6, <2>7
<1>9. TypeOK'
  <2>1. f \in AllPages
    BY <1>3 DEF FreeBits
  <2>2. ret' \in [ok : BOOLEAN, page : AllPages,
                  err : {"", "None", "UnalignedAddress", "ReservedMemory",
                         "OutOfBounds", "DoubleFree"}]
    BY <1>4, <2>1 DEF Some
  <2> QED BY <1>1, <1>4, <1>8, <2>1, <2>2 DEF TypeOK
<1>10. Conservation'
  BY <1>1, <1>3, <1>4, <1>5 DEF Conservation, FreeBits
<1>11. Counted'
  BY <1>1, <1>5, <1>6, <1>7, <1>8, Types DEF Counted
<1> QED BY <1>1, <1>4, <1>5, <1>9, <1>10, <1>11 DEF IInv, Unowned

\* Giving a frame back clears its bit and takes it from its owner.
LEMMA FreeInv ==
  ASSUME IInv, NEW page \in Nat, FreeAccepted(page)
  PROVE  IInv'
<1>1. TypeOK /\ Conservation /\ Counted /\ phase = "ready"
  BY DEF IInv, FreeAccepted
<1>2. /\ bitmap' = bitmap \ {page} /\ owned' = owned \ {page}
      /\ stats' = [stats EXCEPT !.free = @ + 1, !.used = saturating_sub(@, 1)]
      /\ ret' = Some(page) /\ UNCHANGED <<phase, regions>>
      /\ page \in owned
  BY DEF FreeAccepted
<1>3. page \in Allocatable /\ page \in AllPages /\ page \notin FreeBits
  BY <1>1, <1>2 DEF Conservation, Allocatable, FreeBits
<1>4. RegionsBounded' /\ UsableApart' /\ Allocatable' = Allocatable
  BY <1>2, RegionsKept
<1>5. FreeBits' = FreeBits \cup {page}
  BY <1>2, <1>3 DEF FreeBits
<1>6. /\ Cardinality(FreeBits) \in Nat
      /\ Cardinality(FreeBits \cup {page}) = Cardinality(FreeBits) + 1
      /\ Cardinality(FreeBits) + 1 <= stats.total
  <2>1. IsFiniteSet(FreeBits) /\ Cardinality(FreeBits) \in Nat
    BY AllPagesFinite DEF FreeBits
  <2>2. Cardinality(FreeBits \cup {page}) = Cardinality(FreeBits) + 1
    BY <1>3, <2>1, FS_AddElement
  <2>3. FreeBits \cup {page} \subseteq 1 .. stats.total - 1
    BY <1>1, <1>3, Constants, Types
       DEF Counted, Conservation, FreeBits, Allocatable
  <2>4. stats.total \in Nat /\ stats.total - 1 \in Int /\ 1 \in Int
    BY <1>1, Types
  <2>5. /\ IsFiniteSet(1 .. stats.total - 1)
        /\ Cardinality(1 .. stats.total - 1) =
             IF 1 > stats.total - 1 THEN 0 ELSE (stats.total - 1) - 1 + 1
    BY ONLY <2>4, FS_Interval, Zenon
  <2>6. Cardinality(FreeBits \cup {page}) <= Cardinality(1 .. stats.total - 1)
    BY <2>3, <2>5, FS_Subset
  <2>7. page < stats.total /\ page > 0
    BY <1>1, <1>3 DEF Counted, Allocatable
  <2> QED BY <2>1, <2>2, <2>4, <2>5, <2>6, <2>7
<1>7. /\ stats'.total = stats.total
      /\ stats'.free = stats.free + 1 /\ stats'.used = stats.used - 1
      /\ stats' \in [total : 0 .. MAX_MANAGED_PAGES, usable : Nat, free : Nat,
                     used : Nat]
  <2>1. stats \in [total : 0 .. MAX_MANAGED_PAGES, usable : Nat, free : Nat,
                   used : Nat]
    BY <1>1 DEF TypeOK
  <2>2. stats.free = Cardinality(FreeBits) /\ stats.used + stats.free = stats.total
    BY <1>1 DEF Counted
  <2>3. saturating_sub(stats.used, 1) = stats.used - 1 /\ stats.used - 1 \in Nat
    BY <1>1, <1>6, <2>2, Types DEF saturating_sub
  <2>4. stats' = [stats EXCEPT !.free = stats.free + 1, !.used = stats.used - 1]
    BY <1>2, <2>1, <2>3
  <2>5. stats.total \in 0 .. MAX_MANAGED_PAGES /\ stats.free + 1 \in Nat
    BY <2>1
  <2>6. /\ stats'.total = stats.total
        /\ stats'.free = stats.free + 1 /\ stats'.used = stats.used - 1
    BY <2>1, <2>4
  <2>7. stats' \in [total : 0 .. MAX_MANAGED_PAGES, usable : Nat, free : Nat,
                    used : Nat]
    BY <2>1, <2>3, <2>4, <2>5
  <2> QED BY <2>6, <2>7
<1>8. TypeOK'
  <2>1. ret' \in [ok : BOOLEAN, page : AllPages,
                  err : {"", "None", "UnalignedAddress", "ReservedMemory",
                         "OutOfBounds", "DoubleFree"}]
    BY <1>2, <1>3 DEF Some
  <2> QED BY <1>1, <1>2, <1>7, <2>1 DEF TypeOK
<1>9. Conservation'
  BY <1>1, <1>2, <1>3, <1>4 DEF Conservation
<1>10. Counted'
  BY <1>1, <1>4, <1>5, <1>6, <1>7, Types DEF Counted
<1> QED BY <1>1, <1>2, <1>4, <1>8, <1>9, <1>10 DEF IInv, Unowned

\* A call that only returns an error changes nothing the invariant is about.
LEMMA ErrorInv ==
  ASSUME IInv, UNCHANGED <<phase, regions, bitmap, stats, owned>>,
         ret' \in [ok : BOOLEAN, page : AllPages,
                  err : {"", "None", "UnalignedAddress", "ReservedMemory",
                         "OutOfBounds", "DoubleFree"}]
  PROVE  IInv'
<1>1. RegionsBounded' /\ UsableApart' /\ Allocatable' = Allocatable
  BY RegionsKept
<1>2. TypeOK'
  BY DEF IInv, TypeOK
<1> QED BY <1>1, <1>2 DEF IInv, Unowned, Conservation, Counted, FreeBits

\* Every step keeps the invariant.
LEMMA NextInv == IInv /\ [Next]_vars => IInv'
<1> SUFFICES ASSUME IInv, [Next]_vars PROVE IInv'
  OBVIOUS
<1>1. CASE UNCHANGED vars
  BY <1>1, ErrorInv DEF vars, IInv, TypeOK
<1>2. ASSUME NEW m \in MemoryMaps, init_from_uefi(m) PROVE IInv'
  BY <1>2, MapInv
<1>3. CASE init
  BY <1>3, InitPmmInv
<1>4. ASSUME NEW w \in 0 .. words_to_scan - 1, AllocateFrom(w) PROVE IInv'
  BY <1>4, AllocateInv
<1>5. CASE AllocateFails
  BY <1>5, ErrorInv, Constants DEF AllocateFails, None
<1>6. ASSUME NEW page \in 0 .. MAX_MANAGED_PAGES, FreeAccepted(page) PROVE IInv'
  BY <1>6, FreeInv
<1>7. ASSUME NEW page \in 0 .. MAX_MANAGED_PAGES, NEW aligned \in BOOLEAN,
             FreeRejected(page, aligned)
      PROVE  IInv'
  <2>1. FreeError(page, aligned) \in {"", "UnalignedAddress", "ReservedMemory",
                                      "OutOfBounds", "DoubleFree"}
    BY DEF FreeError
  <2>2. /\ ret' = [ok |-> FALSE, err |-> FreeError(page, aligned), page |-> 0]
        /\ UNCHANGED <<phase, regions, bitmap, stats, owned>>
    BY <1>7 DEF FreeRejected, Err
  <2>3. 0 \in AllPages
    BY Constants
  <2> QED BY <2>1, <2>2, <2>3, ErrorInv
<1> QED
  BY <1>1, <1>2, <1>3, <1>4, <1>5, <1>6, <1>7
     DEF Next, allocate_physical_page, free_physical_page

-----------------------------------------------------------------------------

\* The invariant holds in every reachable state.
THEOREM InvariantHolds == Spec => []IInv
  BY InitInv, NextInv, PTL DEF Spec

\* The statics of memory.rs and pmm.rs keep their types, for every map the
\* firmware hands over.
THEOREM TypeCorrect == Spec => []TypeOK
<1>1. IInv => TypeOK
  BY DEF IInv
<1> QED BY <1>1, InvariantHolds, PTL

\* The allocator neither loses a frame nor hands one out that is reserved,
\* beyond the bitmap or already held, for every bitmap size and memory map.
THEOREM Conserved == Spec => []Conservation
<1>1. IInv => Conservation
  BY DEF IInv
<1> QED BY <1>1, InvariantHolds, PTL

\* pmm::verify_invariants never fails: what it recounts from the bitmap words
\* is what the counters say.
THEOREM InvariantsVerified == Spec => []verify_invariants
<1>1. ASSUME IInv, phase = "ready"
      PROVE  /\ stats.used + stats.free = stats.total
             /\ 0 \in bitmap
             /\ stats.free = Cardinality({p \in 0 .. words_to_scan * BITS - 1 :
                                            p < stats.total /\ p \notin bitmap})
  <2>1. TypeOK /\ Conservation /\ Counted
    BY <1>1 DEF IInv
  <2>2. FreeBits \subseteq Allocatable
    BY <1>1, <2>1 DEF Conservation, FreeBits
  <2>3. 0 \in bitmap
    BY <2>2, Constants DEF FreeBits, Allocatable
  <2>4. words_to_scan \in Nat /\ words_to_scan * BITS \in Nat
        /\ stats.total <= words_to_scan * BITS
    <3>1. stats.total + BITS - 1 \in Nat /\ BITS \in Nat \ {0}
          /\ stats.total \in Nat
      BY <2>1, Types, Constants
    <3>2. /\ words_to_scan \in Nat
          /\ stats.total + BITS - 1 < words_to_scan * BITS + BITS
      BY <3>1, DivBounds DEF words_to_scan
    <3>3. words_to_scan * BITS \in Nat
      BY <3>1, <3>2, ProductNat
    <3> QED BY <3>1, <3>2, <3>3
  <2>5. \A p \in FreeBits : p < stats.total
    BY <1>1, <2>1, <2>2 DEF Counted
  <2>6. FreeBits = {p \in 0 .. words_to_scan * BITS - 1 :
                     p < stats.total /\ p \notin bitmap}
    BY <2>1, <2>4, <2>5, Types, Constants DEF FreeBits
  <2> QED BY <1>1, <2>1, <2>3, <2>6 DEF Counted
<1>2. IInv => verify_invariants
  BY <1>1 DEF verify_invariants
<1> QED BY <1>2, InvariantHolds, PTL

\* allocate_physical_page returns the lowest free frame, and None only when
\* every allocatable frame is held: the word-wise scan misses nothing.
THEOREM FirstFitCorrect == Spec => FirstFit
<1> DEFINE Served == \/ /\ ret'.ok
                        /\ ret'.page \in Allocatable \ owned
                        /\ \A p \in Allocatable \ owned : ret'.page <= p
                     \/ ~ret'.ok /\ Allocatable \subseteq owned
<1>1. ASSUME IInv, allocate_physical_page
      PROVE  Served
  <2>1. TypeOK /\ Conservation /\ Counted /\ phase = "ready"
    BY <1>1 DEF IInv, allocate_physical_page, AllocateFrom, AllocateFails
  <2>2. FreeBits = Allocatable \ owned
    BY <2>1 DEF Conservation, FreeBits
  <2>3. \A p \in FreeBits : p < stats.total /\ p \in Nat
    BY <2>1, <2>2, Constants DEF Counted, FreeBits
  <2>4. ASSUME NEW w \in 0 .. words_to_scan - 1, AllocateFrom(w)
        PROVE  Served
    <3> DEFINE f == FirstZero(w)
    <3>1. w \in Nat /\ Hit(w) /\ (\A v \in 0 .. w - 1 : ~Hit(v)) /\ ret' = Some(f)
      BY <2>4 DEF AllocateFrom
    <3>2. f \in FreeBits /\ f \in Nat
      BY <2>1, <2>3, <3>1, HitIsFree
    <3>3. ASSUME NEW p \in FreeBits PROVE f <= p
      <4>1. PICK v \in 0 .. words_to_scan - 1 :
              Hit(v) /\ FirstZero(v) <= p /\ v * BITS <= p
        BY <2>1, <2>3, FreeIsHit
      <4>2. v \in Nat /\ ~(v < w)
        BY <3>1, <4>1
      <4>3. CASE v = w
        BY <4>1, <4>3
      <4>4. CASE w < v
        <5>1. f \in w * BITS .. w * BITS + BITS - 1
          BY <3>1, FirstZeroLeast DEF Hit, WordFree
        <5>2. w * BITS + BITS <= v * BITS
          BY <3>1, <4>2, <4>4, Constants, BlocksOrdered
        <5>3. w * BITS \in Nat /\ v * BITS \in Nat /\ BITS \in Nat /\ p \in Nat
          BY <3>1, <4>2, <2>3, Constants, ProductNat
        <5> HIDE DEF f
        <5> QED BY <3>2, <4>1, <5>1, <5>2, <5>3
      <4> QED BY <3>1, <4>2, <4>3, <4>4
    <3>4. ret'.ok /\ ret'.page = f
      BY <3>1 DEF Some
    <3> HIDE DEF f
    <3> QED BY <2>2, <3>2, <3>3, <3>4
  <2>5. CASE AllocateFails
    <3>1. FreeBits = {}
      BY <2>1, <2>3, <2>5, FreeIsHit DEF AllocateFails
    <3>2. ~ret'.ok
      BY <2>5 DEF AllocateFails, None
    <3> QED BY <2>2, <3>1, <3>2
  <2> QED BY <1>1, <2>4, <2>5 DEF allocate_physical_page
<1>2. IInv /\ [Next]_vars => [allocate_physical_page => Served]_vars
  BY <1>1
<1> QED BY <1>2, InvariantHolds, PTL DEF Spec, FirstFit
=============================================================================
