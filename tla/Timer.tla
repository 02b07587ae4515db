------------------------------- MODULE Timer -------------------------------
(***************************************************************************)
(* The local APIC timer (src/src/timer.rs, init_lapic and                  *)
(* start_lapic_timer of src/src/apic.rs), brought up after the I/O APIC of *)
(* module IoApic and before anybody routes an IRQ, as kernel_main does.    *)
(*                                                                         *)
(* The local APIC counts down at an unknown speed while the PIT measures a *)
(* window; time is counted in polls of the PIT.  The PIT may answer late   *)
(* or never.  Interrupts are off throughout.                               *)
(***************************************************************************)
EXTENDS IoApic

CONSTANTS COUNTER_MAX,          \* u32::MAX
          PIT_CALIBRATION_HZ, TIMER_HZ, TIMER_FALLBACK_COUNT,
          PIT_WAIT_LIMIT,       \* polls
          Speeds,               \* counts of the local APIC per poll
          Windows               \* polls until the PIT's output goes high

ASSUME TimerAssumption ==
  /\ TIMER_HZ \in Nat \ {0} /\ PIT_CALIBRATION_HZ \in 1 .. TIMER_HZ
  /\ COUNTER_MAX \in Nat /\ TIMER_FALLBACK_COUNT \in 1 .. COUNTER_MAX
  /\ PIT_WAIT_LIMIT \in Nat /\ Speeds \subseteq Nat /\ Windows \subseteq Nat

VARIABLES speed, window,
          lvt,                  \* LAPIC_LVT_TIMER
          icr, ccr,             \* LAPIC_TIMER_ICR and the count itself
          waited,
          counts_per_sec,       \* the result of the calibration, 0 for None
          INITIAL_COUNT,
          handler,              \* the vector the tick handler is registered for
          phase

timerVars == <<speed, window, lvt, icr, ccr, waited, counts_per_sec,
               INITIAL_COUNT, handler, phase>>

TIMER_VECTOR == Vector(0)

\* The firmware may have left its own timer running.
TimerInit ==
  /\ Init
  /\ speed \in Speeds /\ window \in Windows
  /\ lvt = [vector |-> 0, masked |-> FALSE, periodic |-> TRUE]
  /\ icr = COUNTER_MAX /\ ccr = COUNTER_MAX /\ waited = 0
  /\ counts_per_sec = 0
  /\ INITIAL_COUNT = TIMER_FALLBACK_COUNT
  /\ handler = 0
  /\ phase = "boot"

\* initialize_apic: init_lapic masks the timer's vector, then init_ioapic.
initialize_apic ==
  /\ phase = "boot"
  /\ init_ioapic
  /\ lvt' = [vector |-> 0, masked |-> TRUE, periodic |-> FALSE]
  /\ phase' = "timer"
  /\ UNCHANGED <<speed, window, icr, ccr, waited, counts_per_sec,
                 INITIAL_COUNT, handler>>

\* register_irq, then the PIT's one-shot and the free-running count.
calibrate_lapic_timer ==
  /\ phase = "timer"
  /\ handler' = TIMER_VECTOR
  /\ lvt' = [vector |-> TIMER_VECTOR, masked |-> TRUE, periodic |-> FALSE]
  /\ icr' = COUNTER_MAX /\ ccr' = COUNTER_MAX
  /\ waited' = 0
  /\ phase' = "poll"
  /\ UNCHANGED <<speed, window, counts_per_sec, INITIAL_COUNT>>

PitHigh == waited >= window

\* A poll that finds the output low; a one-shot count stops at 0.
poll ==
  /\ phase = "poll" /\ ~PitHigh
  /\ waited' = waited + 1
  /\ ccr' = IF ccr > speed THEN ccr - speed ELSE 0
  /\ IF waited' > PIT_WAIT_LIMIT THEN icr' = 0 /\ phase' = "start"
     ELSE UNCHANGED <<icr, phase>>
  /\ UNCHANGED <<speed, window, lvt, counts_per_sec, INITIAL_COUNT, handler>>

\* The output is high: what was counted in the window, if anything.
measure ==
  /\ phase = "poll" /\ PitHigh
  /\ counts_per_sec' = (COUNTER_MAX - ccr) * PIT_CALIBRATION_HZ
  /\ icr' = 0
  /\ phase' = "start"
  /\ UNCHANGED <<speed, window, lvt, ccr, waited, INITIAL_COUNT, handler>>

\* Mutated form of initial: without the clamp.
Unclamped(rate) == rate \div TIMER_HZ

\* The count of one period, at least 1 and within the register.
initial(rate) ==
  LET count == rate \div TIMER_HZ
  IN  IF count < 1 THEN 1 ELSE IF count > COUNTER_MAX THEN COUNTER_MAX ELSE count

start_lapic_timer ==
  /\ phase = "start"
  /\ INITIAL_COUNT' = IF counts_per_sec = 0 THEN INITIAL_COUNT
                      ELSE initial(counts_per_sec)
  /\ lvt' = [vector |-> TIMER_VECTOR, masked |-> FALSE, periodic |-> TRUE]
  /\ icr' = INITIAL_COUNT' /\ ccr' = INITIAL_COUNT'
  /\ phase' = "running"
  /\ UNCHANGED <<speed, window, waited, counts_per_sec, handler>>

\* timer::init
timer_init == calibrate_lapic_timer \/ poll \/ measure \/ start_lapic_timer

TimerNext ==
  \/ BeforeApic /\ UNCHANGED timerVars
  \/ initialize_apic
  \/ timer_init /\ UNCHANGED vars
  \/ phase = "running" /\ Routing /\ UNCHANGED timerVars

TimerSpec == TimerInit /\ [][TimerNext]_<<vars, timerVars>>

-----------------------------------------------------------------------------

\* Once interrupts are about to be enabled the timer really ticks: its count is
\* not 0 (which would stop it), it is periodic and open, on the vector its
\* handler is registered for; it has the period the PIT measured, to within one
\* count, or the fallback's if the PIT was too late or nothing was counted.
\* Until then its interrupt is masked.
TimerAtRate ==
  /\ phase \in {"timer", "poll", "start"} => lvt.masked
  /\ phase = "running" =>
       /\ lvt = [vector |-> handler, masked |-> FALSE, periodic |-> TRUE]
       /\ icr \in 1 .. COUNTER_MAX
       /\ LET counted == speed * window
          IN  IF window <= PIT_WAIT_LIMIT /\ counted \in 1 .. COUNTER_MAX
              THEN \/ /\ icr * TIMER_HZ <= counted * PIT_CALIBRATION_HZ
                      /\ counted * PIT_CALIBRATION_HZ < (icr + 1) * TIMER_HZ
                   \/ icr = 1 /\ counted * PIT_CALIBRATION_HZ < TIMER_HZ
              ELSE counted <= COUNTER_MAX => icr = TIMER_FALLBACK_COUNT
=============================================================================
