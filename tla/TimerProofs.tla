---------------------------- MODULE TimerProofs ----------------------------
(***************************************************************************)
(* The APICs and the timer on every machine: whatever ACPI tables the      *)
(* firmware leaves, at whatever speed the local APIC counts and whenever   *)
(* the PIT answers, the kernel uses the APICs vmm::init mapped and the     *)
(* timer runs at the measured rate or the fallback's.                      *)
(*                                                                         *)
(* The invariant of the calibration relates the count to the polls made so *)
(* far; that of the tables says what each phase of the boot has fixed.     *)
(***************************************************************************)
EXTENDS Timer, WellFoundedInduction, SequenceTheorems, TLAPS

\* What the local APIC has counted after n polls: it stops at the maximum.
Counted(n) == IF speed * n < COUNTER_MAX THEN speed * n ELSE COUNTER_MAX

\* What the calibration returns: nothing if the PIT is too late.
Rate == IF window <= PIT_WAIT_LIMIT THEN Counted(window) * PIT_CALIBRATION_HZ ELSE 0

Phases == {"boot", "timer", "poll", "start", "running"}

Calibration ==
  /\ phase \in Phases /\ speed \in Nat /\ window \in Nat
  /\ phase \in {"timer", "poll", "start"} => lvt.masked
  /\ phase # "running" => INITIAL_COUNT = TIMER_FALLBACK_COUNT
  /\ phase \in {"boot", "timer", "poll"} => counts_per_sec = 0
  /\ phase \in {"poll", "start"} => handler = TIMER_VECTOR
  /\ phase = "poll" => /\ waited \in Nat
                       /\ waited <= window /\ waited <= PIT_WAIT_LIMIT
                       /\ ccr = COUNTER_MAX - Counted(waited)
  /\ phase = "start" => counts_per_sec = Rate
  /\ TimerAtRate

\* The I/O APIC in use is one that owns GSI 0, if any does.
GsiZeroUsed ==
  \A i \in DOMAIN ioapics : ioapics[i].gsi_base = 0 =>
    \E j \in DOMAIN ioapics :
      ioapics[j].gsi_base = 0 /\ IOAPIC_BASE = ioapics[j].address

Defaults == LAPIC_BASE = LAPIC_DEFAULT_BASE /\ IOAPIC_BASE = IOAPIC_DEFAULT_BASE

Tables ==
  /\ pc \in {"acpi", "parse", "configure", "vmm", "mask", "run"}
  /\ \E S : ioapics \in Seq(S)
  /\ pc \in {"acpi", "parse"} => ~MADT_VALID
  /\ (pc \in {"acpi", "configure"} /\ ~MADT_VALID) => ioapics = <<>>
  /\ pc \in {"acpi", "parse", "configure"} => Defaults
  /\ pc \in {"vmm", "mask", "run"} => GsiZeroUsed /\ (~MADT_VALID => Defaults)
  /\ pc \in {"mask", "run"} => mapped = {LAPIC_BASE, IOAPIC_BASE}

IInv == Calibration /\ Tables

-----------------------------------------------------------------------------
(* The calibration.                                                         *)

\* One poll more is one speed more.
LEMMA NextPoll ==
  ASSUME NEW s \in Nat, NEW n \in Nat
  PROVE  /\ s * n \in Nat /\ s * (n + 1) = s * n + s
  OBVIOUS

\* The counter after one more poll.
LEMMA CountsDown ==
  ASSUME NEW s \in Nat, NEW c \in Nat, NEW a \in Nat
  PROVE  LET now == c - (IF a < c THEN a ELSE c)
         IN  (IF now > s THEN now - s ELSE 0) = c - (IF a + s < c THEN a + s ELSE c)
  OBVIOUS

\* The period in counts is the rate divided by the frequency, rounded down.
LEMMA Period ==
  ASSUME NEW r \in Nat, NEW hz \in Nat \ {0}
  PROVE  /\ r \div hz \in Nat
         /\ (r \div hz) * hz <= r
         /\ r < ((r \div hz) + 1) * hz
<1>1. /\ r \div hz \in Nat /\ (r \div hz) * hz <= r /\ r < (r \div hz) * hz + hz
  OBVIOUS
<1>2. \A q \in Nat : (q + 1) * hz = q * hz + hz
  OBVIOUS
<1> QED BY <1>1, <1>2

\* A rate from a count within the register needs no upper clamp.
LEMMA NoClamp ==
  ASSUME NEW a \in Nat, NEW hz \in Nat \ {0}, NEW cal \in 1 .. hz
  PROVE  (a * cal) \div hz <= a
<1> DEFINE q == (a * cal) \div hz
<1>1. a * cal \in Nat /\ a * cal <= a * hz
  OBVIOUS
<1>2. q \in Nat /\ q * hz <= a * cal
  BY <1>1, Period
<1> HIDE DEF q
<1>3. q * hz <= a * hz
  BY <1>1, <1>2
<1>4. ~(q > a)
  <2> SUFFICES ASSUME q >= a + 1 PROVE FALSE
    BY <1>2
  <2>1. q * hz >= (a + 1) * hz
    BY <1>2
  <2>2. (a + 1) * hz = a * hz + hz
    OBVIOUS
  <2> QED BY <1>2, <1>3, <2>1, <2>2
<1> QED BY <1>2, <1>4 DEF q

\* start_lapic_timer programs the period, whatever was measured.
LEMMA Started ==
  ASSUME Calibration, start_lapic_timer
  PROVE  TimerAtRate'
<1> USE TimerAssumption
<1>1. /\ phase = "start" /\ speed \in Nat /\ window \in Nat
      /\ INITIAL_COUNT = TIMER_FALLBACK_COUNT /\ counts_per_sec = Rate
      /\ handler = TIMER_VECTOR
  BY DEF Calibration, start_lapic_timer
<1>2. /\ phase' = "running" /\ speed' = speed /\ window' = window
      /\ lvt' = [vector |-> handler', masked |-> FALSE, periodic |-> TRUE]
      /\ icr' = IF Rate = 0 THEN TIMER_FALLBACK_COUNT ELSE initial(Rate)
  BY <1>1 DEF start_lapic_timer
<1> DEFINE counted == speed * window
<1>3. counted \in Nat
  BY <1>1, NextPoll
<1>4. Counted(window) \in Nat /\ Counted(window) <= COUNTER_MAX
      /\ (counted <= COUNTER_MAX => Counted(window) = counted)
  BY <1>3 DEF Counted
<1>5. Rate \in Nat
  BY <1>4, NextPoll DEF Rate
<1>6. Rate # 0 => initial(Rate) \in 1 .. COUNTER_MAX
  BY <1>5, Period DEF initial
<1>7. icr' \in 1 .. COUNTER_MAX
  BY <1>2, <1>6
<1>8. CASE window <= PIT_WAIT_LIMIT /\ counted \in 1 .. COUNTER_MAX
  <2> DEFINE r == counted * PIT_CALIBRATION_HZ
             q == r \div TIMER_HZ
  <2>1. r \in Nat /\ r # 0 /\ Rate = r
    BY <1>8, <1>4, <1>3 DEF Rate
  <2>2. q \in Nat /\ q * TIMER_HZ <= r /\ r < (q + 1) * TIMER_HZ
    <3> HIDE DEF r
    <3> QED BY <2>1, Period
  <2>3. q <= COUNTER_MAX
    <3>1. q <= counted
      <4> HIDE DEF counted
      <4> QED BY <1>3, NoClamp
    <3> QED BY <3>1, <1>8, <1>3, <2>2
  <2> HIDE DEF r
  <2>4. icr' = IF q < 1 THEN 1 ELSE q
    BY <1>2, <2>1, <2>2, <2>3 DEF initial
  <2> HIDE DEF q
  <2>5. \/ icr' * TIMER_HZ <= r /\ r < (icr' + 1) * TIMER_HZ
        \/ icr' = 1 /\ r < TIMER_HZ
    <3>1. CASE q < 1
      BY <3>1, <2>2, <2>4
    <3>2. CASE ~(q < 1)
      BY <3>2, <2>2, <2>4
    <3> QED BY <3>1, <3>2
  <2> QED BY <1>2, <1>7, <1>8, <2>5 DEF TimerAtRate, r
<1>9. CASE ~(window <= PIT_WAIT_LIMIT /\ counted \in 1 .. COUNTER_MAX)
  <2>1. counted <= COUNTER_MAX => Rate = 0
    BY <1>9, <1>3, <1>4 DEF Rate
  <2> HIDE DEF counted
  <2>2. counted <= COUNTER_MAX => icr' = TIMER_FALLBACK_COUNT
    BY <1>2, <2>1
  <2> QED BY <1>2, <1>7, <1>9, <2>2 DEF TimerAtRate, counted
<1> QED BY <1>8, <1>9

\* timer::init keeps the invariant of the calibration.
LEMMA CalibrationStep ==
  ASSUME Calibration, timer_init
  PROVE  Calibration'
<1> USE TimerAssumption
<1>0. speed \in Nat /\ window \in Nat /\ phase \in Phases
  BY DEF Calibration
<1>1. CASE calibrate_lapic_timer
  <2>1. speed * 0 = 0 /\ (speed' = speed)
    BY <1>0, <1>1 DEF calibrate_lapic_timer
  <2>2. Counted(0)' = 0
    BY <2>1, <1>0 DEF Counted
  <2> QED BY <1>1, <1>0, <2>1, <2>2
          DEF calibrate_lapic_timer, Calibration, TimerAtRate, Phases, Counted
<1>2. CASE poll
  <2>1. /\ phase = "poll" /\ waited \in Nat /\ waited < window
        /\ waited <= PIT_WAIT_LIMIT /\ waited' = waited + 1
        /\ speed' = speed /\ window' = window
        /\ ccr = COUNTER_MAX - Counted(waited)
        /\ ccr' = IF ccr > speed THEN ccr - speed ELSE 0
    BY <1>0, <1>2 DEF poll, Calibration, PitHigh
  <2>2. Counted(waited)' = IF speed * (waited + 1) < COUNTER_MAX
                           THEN speed * (waited + 1) ELSE COUNTER_MAX
    BY <2>1 DEF Counted
  <2>3. ccr' = COUNTER_MAX - Counted(waited)'
    <3> DEFINE a == speed * waited
    <3>1. a \in Nat /\ speed * (waited + 1) = a + speed
      BY <1>0, <2>1, NextPoll
    <3>2. ccr = COUNTER_MAX - (IF a < COUNTER_MAX THEN a ELSE COUNTER_MAX)
      BY <2>1 DEF Counted
    <3> HIDE DEF a
    <3> QED BY <1>0, <2>1, <2>2, <3>1, <3>2, CountsDown
  <2>4. CASE waited + 1 > PIT_WAIT_LIMIT
    <3>1. ~(window <= PIT_WAIT_LIMIT)
      BY <1>0, <2>1, <2>4
    <3>2. Rate' = 0
      BY <2>1, <3>1 DEF Rate
    <3> QED BY <1>2, <1>0, <2>1, <2>4, <3>2
            DEF poll, Calibration, TimerAtRate, Phases
  <2>5. CASE ~(waited + 1 > PIT_WAIT_LIMIT)
    <3>1. /\ waited' \in Nat /\ waited' <= window' /\ waited' <= PIT_WAIT_LIMIT
      BY <1>0, <2>1, <2>5
    <3>2. phase' = "poll" /\ UNCHANGED <<lvt, INITIAL_COUNT, counts_per_sec, handler>>
      BY <1>2, <2>1, <2>5 DEF poll
    <3> QED BY <1>0, <2>1, <2>3, <3>1, <3>2 DEF Calibration, TimerAtRate, Phases
  <2> QED BY <2>4, <2>5
<1>3. CASE measure
  <2>1. /\ phase = "poll" /\ waited \in Nat /\ waited = window
        /\ window <= PIT_WAIT_LIMIT /\ ccr = COUNTER_MAX - Counted(window)
        /\ counts_per_sec' = (COUNTER_MAX - ccr) * PIT_CALIBRATION_HZ
        /\ phase' = "start"
        /\ UNCHANGED <<speed, window, lvt, INITIAL_COUNT, handler>>
    BY <1>0, <1>3 DEF measure, Calibration, PitHigh
  <2>2. Counted(window) \in Nat
    <3>1. speed * window \in Nat
      BY <1>0, NextPoll
    <3> QED BY <3>1 DEF Counted
  <2>3. COUNTER_MAX - ccr = Counted(window)
    BY <2>1, <2>2
  <2>4. counts_per_sec' = Rate'
    BY <2>1, <2>3 DEF Rate, Counted
  <2> QED BY <1>0, <2>1, <2>4 DEF Calibration, TimerAtRate, Phases
<1>4. CASE start_lapic_timer
  <2>1. TimerAtRate'
    BY <1>4, Started
  <2> QED BY <1>0, <1>4, <2>1 DEF start_lapic_timer, Calibration, Phases
<1> QED BY <1>1, <1>2, <1>3, <1>4 DEF timer_init

-----------------------------------------------------------------------------
(* The tables.                                                              *)

\* The scan of configure_from_acpi ends with an I/O APIC if there is one: a
\* non-empty set of positions has a last one.
LEMMA LastOne ==
  ASSUME NEW n \in Nat, NEW S, S \subseteq 1 .. n, S # {}
  PROVE  \E x \in S : \A y \in S : y <= x
<1> DEFINE R == {ss \in Nat \X Nat : ss[1] < ss[2]}
           D == {k \in Nat : n - k \in S}
<1>1. OpToRel(<, Nat) = R
  BY Zenon DEF OpToRel
<1>2. IsWellFoundedOn(R, Nat)
  BY <1>1, NatLessThanWellFounded
<1>3. D \subseteq Nat /\ D # {}
  <2>1. PICK s \in S : TRUE
    OBVIOUS
  <2>2. n - s \in Nat /\ n - (n - s) = s
    BY <2>1
  <2> QED BY <2>1, <2>2
<1>4. PICK k \in D : \A j \in D : ~ (<<j, k>> \in R)
  <2> HIDE DEF R, D
  <2> QED BY <1>2, <1>3, WFMin
<1>5. ASSUME NEW y \in S PROVE y <= n - k
  <2>1. n - y \in Nat /\ n - (n - y) = y /\ y \in Nat
    OBVIOUS
  <2>2. n - y \in D /\ k \in Nat
    BY <2>1
  <2>3. ~(n - y < k)
    BY <1>4, <2>1, <2>2
  <2> QED BY <2>1, <2>2, <2>3
<1> QED BY <1>4, <1>5

\* Appending within the array keeps a sequence one.
LEMMA Recorded ==
  ASSUME NEW array, NEW x, NEW limit, NEW S, array \in Seq(S)
  PROVE  \E U : Record(array, x, limit) \in Seq(U)
<1>1. array \in Seq(S \cup {x})
  BY SeqDef
<1>2. Append(array, x) \in Seq(S \cup {x})
  BY <1>1, AppendProperties
<1> QED BY <1>2 DEF Record

\* configure_from_acpi takes an I/O APIC that owns GSI 0, if there is one.
LEMMA Configured ==
  ASSUME Tables, configure_from_acpi
  PROVE  Tables'
<1>1. PICK S : ioapics \in Seq(S)
  BY DEF Tables
<1>2. /\ pc = "configure" /\ pc' = "vmm" /\ Defaults
      /\ UNCHANGED <<ioapics, MADT_VALID>>
      /\ ~MADT_VALID => ioapics = <<>>
  BY DEF Tables, configure_from_acpi
<1>3. GsiZeroUsed'
  <2> SUFFICES ASSUME NEW i \in DOMAIN ioapics, ioapics[i].gsi_base = 0
               PROVE  \E j \in DOMAIN ioapics :
                        /\ ioapics[j].gsi_base = 0
                        /\ IOAPIC_BASE' = ioapics[j].address
    BY <1>2 DEF GsiZeroUsed
  <2>1. i \in OwnsGsiZero /\ OwnsGsiZero \subseteq DOMAIN ioapics
    BY DEF OwnsGsiZero
  <2>2. DOMAIN ioapics = 1 .. Len(ioapics) /\ Len(ioapics) \in Nat
    BY <1>1
  <2>3. \E x \in OwnsGsiZero : \A y \in OwnsGsiZero : y <= x
    BY <2>1, <2>2, LastOne
  <2> DEFINE j == CHOOSE x \in OwnsGsiZero : \A y \in OwnsGsiZero : y <= x
  <2>4. j \in OwnsGsiZero
    BY <2>3
  <2>5. IOAPIC_BASE' = ioapics[j].address
    BY <2>1 DEF configure_from_acpi
  <2> HIDE DEF j
  <2> QED BY <2>4, <2>5 DEF OwnsGsiZero
<1>4. ~MADT_VALID' => Defaults'
  <2> SUFFICES ASSUME ~MADT_VALID PROVE Defaults'
    BY <1>2
  <2>1. OwnsGsiZero = {}
    BY <1>2 DEF OwnsGsiZero
  <2> QED BY <1>2, <2>1 DEF configure_from_acpi, Defaults
<1> QED BY <1>1, <1>2, <1>3, <1>4 DEF Tables

\* The rest of the boot keeps what the tables said.
LEMMA TablesStep ==
  ASSUME Tables, BeforeApic \/ init_ioapic \/ Routing \/ UNCHANGED vars
  PROVE  Tables'
<1>1. CASE acpi_init_fails
  BY <1>1 DEF acpi_init_fails, Tables, Defaults
<1>2. CASE acpi_init
  BY <1>2 DEF acpi_init, Tables, Defaults
<1>3. CASE parse_madt
  <2>1. \E S : ioapics' \in Seq(S)
    <3>1. PICK S : ioapics \in Seq(S)
      BY DEF Tables
    <3>2. \/ ioapics' = ioapics
          \/ ioapics' = Record(ioapics, madt[entry], MAX_IOAPICS)
      BY <1>3 DEF parse_madt
    <3> QED BY <3>1, <3>2, Recorded
  <2> QED BY <1>3, <2>1 DEF parse_madt, Tables, Defaults
<1>4. CASE parse_madt_ends
  BY <1>4 DEF parse_madt_ends, Tables, Defaults
<1>5. CASE configure_from_acpi
  BY <1>5, Configured
<1>6. CASE vmm_init
  BY <1>6 DEF vmm_init, Tables, Defaults, GsiZeroUsed
<1>7. CASE init_ioapic
  BY <1>7 DEF init_ioapic, Tables, Defaults, GsiZeroUsed
<1>8. CASE Routing
  <2>1. UNCHANGED <<pc, ioapics, MADT_VALID, LAPIC_BASE, IOAPIC_BASE, mapped>>
    BY <1>8 DEF Routing, unmask_irq, mask_irq, route_irq
  <2> QED BY <2>1 DEF Tables, Defaults, GsiZeroUsed
<1>9. CASE UNCHANGED vars
  BY <1>9 DEF vars, Tables, Defaults, GsiZeroUsed
<1> QED BY <1>1, <1>2, <1>3, <1>4, <1>5, <1>6, <1>7, <1>8, <1>9 DEF BeforeApic

-----------------------------------------------------------------------------

\* The invariant holds from the firmware's tables to the running timer.
THEOREM TimerInvariant == TimerSpec => []IInv
<1>1. TimerInit => IInv
  <2> SUFFICES ASSUME TimerInit PROVE IInv
    OBVIOUS
  <2>1. Calibration
    BY TimerAssumption DEF TimerInit, Calibration, TimerAtRate, Phases
  <2>2. Tables
    <3>1. <<>> \in Seq({})
      OBVIOUS
    <3> QED BY <3>1 DEF TimerInit, Init, Tables, Defaults
  <2> QED BY <2>1, <2>2 DEF IInv
<1>2. IInv /\ [TimerNext]_<<vars, timerVars>> => IInv'
  <2> SUFFICES ASSUME IInv, [TimerNext]_<<vars, timerVars>> PROVE IInv'
    OBVIOUS
  <2>1. Tables'
    BY TablesStep DEF IInv, TimerNext, initialize_apic
  <2>2. Calibration'
    <3>1. CASE UNCHANGED timerVars
      BY <3>1 DEF IInv, timerVars, Calibration, TimerAtRate, Counted, Rate
    <3>2. CASE initialize_apic
      BY <3>2 DEF IInv, initialize_apic, Calibration, TimerAtRate, Phases
    <3>3. CASE timer_init
      BY <3>3, CalibrationStep DEF IInv
    <3> QED BY <3>1, <3>2, <3>3 DEF TimerNext
  <2> QED BY <2>1, <2>2 DEF IInv
<1> QED BY <1>1, <1>2, PTL DEF TimerSpec

\* Whatever the MADT lists, the kernel's APIC accesses go to the addresses
\* vmm::init mapped, and to the defaults when no table was accepted
\* (acpi::init, configure_from_acpi).
THEOREM MappedApicsUsed == TimerSpec => []ApicsMapped
<1>1. IInv => ApicsMapped
  BY DEF IInv, Tables, Defaults, GsiZeroUsed, ApicsMapped
<1> QED BY <1>1, TimerInvariant, PTL

\* For every speed of the local APIC and every answer of the PIT, timer::init
\* leaves a timer that ticks, at the measured rate to within one count.
THEOREM TicksAtRate == TimerSpec => []TimerAtRate
<1>1. IInv => TimerAtRate
  BY DEF IInv, Calibration
<1> QED BY <1>1, TimerInvariant, PTL
=============================================================================
