----------------------------- MODULE Interrupts -----------------------------
(***************************************************************************)
(* Interrupts after kernel_main's sti(): the stubs and dispatchers of      *)
(* src/src/idt.rs, the tick handler of src/src/timer.rs, and the log output*)
(* of src/src/logger.rs that both the interrupted code and the handlers    *)
(* write, guarded by platform::without_interrupts.                         *)
(*                                                                         *)
(* The CPU executes the top frame of `stack`; the bottom frame is the      *)
(* kernel's main flow.  Frames are pushed by interrupt and exception       *)
(* delivery and popped by iretq.  A log call is one chunk of CHUNK bytes.  *)
(***************************************************************************)
EXTENDS Integers, Sequences, FiniteSets

CONSTANTS
  TIMER_VECTOR,    \* vector of IRQ 0
  DeviceVectors,   \* other vectors of IRQs 0..15
  GenericVectors,  \* vectors 48..254
  CHUNK,           \* bytes of a log chunk
  FIFO_DEPTH,      \* bytes the UART's transmit FIFO holds
  TICK_LOG,        \* ticks between two tick messages (100 in the code)
  LOG_LIMIT,       \* unhandled interrupts that are logged (5 in the code)
  MAX_RAISED,      \* bound: interrupts the hardware raises
  MAX_CALLS        \* bound: log calls, registrations, exceptions of main

Vectors == {TIMER_VECTOR} \cup DeviceVectors \cup GenericVectors

ASSUME InterruptsAssumption ==
  /\ {TIMER_VECTOR} \cup DeviceVectors \subseteq 32 .. 47
  /\ TIMER_VECTOR \notin DeviceVectors
  /\ GenericVectors \subseteq 48 .. 254
  /\ CHUNK \in Nat \ {0} /\ FIFO_DEPTH \in Nat \ {0}
  /\ TICK_LOG \in Nat \ {0} /\ LOG_LIMIT \in Nat
  /\ MAX_RAISED \in Nat /\ MAX_CALLS \in Nat

VARIABLES
  iflag,     \* RFLAGS.IF
  stack,     \* frames, the executing one last
  irr, isr,  \* local APIC: requested and in-service vectors
  raised,    \* interrupts raised so far
  handlers,  \* vectors of IRQ_HANDLERS entries that are Some
  TICKS,
  periods,   \* timer periods elapsed (history)
  lost,      \* periods that found their request still pending (history)
  unhandled, \* UNHANDLED_IRQ_COUNT, per IRQ, and UNEXPECTED_COUNT, shared
  fifo,      \* bytes in the UART's transmit FIFO
  stalled,   \* the UART has stopped transmitting
  calls      \* calls made by main so far

vars == <<iflag, stack, irr, isr, raised, handlers, TICKS, periods, lost,
          unhandled, fifo, stalled, calls>>

MAIN == 256            \* `who` of the main flow; other frames: their vector
BREAKPOINT == 3
PAGE_FAULT == 14
SPURIOUS_VECTOR == 255
UNEXPECTED == 48       \* the counter of all generic vectors
Counters == {TIMER_VECTOR, UNEXPECTED} \cup DeviceVectors

lapic == <<irr, isr, raised>>
counts == <<TICKS, periods, lost, unhandled>>
uart == <<fifo, stalled>>

\* A frame: whose code it is, where it executes, bytes of the chunk still to be
\* written, without_interrupts' local `enabled`, and the RFLAGS.IF that iretq
\* restores.
Frame(who, pc, rflags) ==
  [who |-> who, pc |-> pc, bytes |-> CHUNK, enabled |-> FALSE, rflags |-> rflags]

Top == stack[Len(stack)]
SetTop(f) == [stack EXCEPT ![Len(stack)] = f]
Goto(pc) == SetTop([Top EXCEPT !.pc = pc])
Push(f) == Append(stack, f)
Pop == SubSeq(stack, 1, Len(stack) - 1)

Init ==
  /\ iflag = TRUE
  /\ stack = <<Frame(MAIN, "idle", TRUE)>>
  /\ irr = {} /\ isr = {} /\ raised = 0
  /\ handlers = {TIMER_VECTOR}
  /\ TICKS = 0 /\ periods = 0 /\ lost = 0
  /\ unhandled = [c \in Counters |-> 0]
  /\ fifo = 0 /\ stalled = FALSE
  /\ calls = 0

----------------------------------------------------------------------------
(* Hardware *)

Raise(v) ==
  /\ raised < MAX_RAISED
  /\ raised' = raised + 1
  /\ irr' = irr \cup {v}
  /\ periods' = IF v = TIMER_VECTOR THEN periods + 1 ELSE periods
  /\ lost' = IF v = TIMER_VECTOR /\ v \in irr THEN lost + 1 ELSE lost
  /\ UNCHANGED <<iflag, stack, isr, handlers, TICKS, unhandled, uart, calls>>

Class(v) == v \div 16

\* The local APIC offers the highest requested vector, if its priority class is
\* above everything in service.
Offered(v) ==
  /\ v \in irr
  /\ \A w \in irr : w <= v
  /\ \A w \in isr : Class(v) > Class(w)

\* Entry of an interrupt gate (type 0x8E): RFLAGS is pushed, IF cleared.
Gate(who, pc) ==
  /\ stack' = Push(Frame(who, pc, iflag))
  /\ iflag' = FALSE

Deliver(v) ==
  /\ iflag
  /\ Offered(v)
  /\ Gate(v, "dispatch")
  /\ irr' = irr \ {v}
  /\ isr' = isr \cup {v}
  /\ UNCHANGED <<raised, handlers, counts, uart, calls>>

\* Vector 255: no in-service bit, and the stub returns without an EOI.
Spurious ==
  /\ iflag
  /\ raised < MAX_RAISED
  /\ raised' = raised + 1
  /\ Gate(SPURIOUS_VECTOR, "iret")
  /\ UNCHANGED <<irr, isr, handlers, counts, uart, calls>>

Drain ==
  /\ ~stalled
  /\ fifo > 0
  /\ fifo' = fifo - 1
  /\ UNCHANGED <<iflag, stack, lapic, handlers, counts, stalled, calls>>

\* From some moment on the transmitter may stop.
Stall ==
  /\ ~stalled
  /\ stalled' = TRUE
  /\ UNCHANGED <<iflag, stack, lapic, handlers, counts, fifo, calls>>

----------------------------------------------------------------------------
(* idt.rs and timer.rs *)

\* Mutated form of timer_irq_handler: a tick that is logged is not counted.
LogsInsteadOfCounting ==
  /\ TICKS' = IF (TICKS + 1) % TICK_LOG = 0 THEN TICKS ELSE TICKS + 1
  /\ stack' = Goto(IF (TICKS + 1) % TICK_LOG = 0 THEN "poll" ELSE "eoi")
  /\ UNCHANGED unhandled

timer_irq_handler ==
  /\ TICKS' = TICKS + 1
  /\ stack' = Goto(IF (TICKS + 1) % TICK_LOG = 0 THEN "poll" ELSE "eoi")
  /\ UNCHANGED unhandled

\* A vector without a handler is counted, and logged the first times.
Unhandled(c) ==
  /\ unhandled' = [unhandled EXCEPT ![c] = @ + 1]
  /\ stack' = Goto(IF unhandled[c] < LOG_LIMIT THEN "poll" ELSE "eoi")
  /\ UNCHANGED TICKS

\* com1_test_handler: logs, then turns the UART's interrupt off.
device_handler ==
  /\ stack' = Goto("poll")
  /\ UNCHANGED <<TICKS, unhandled>>

irq_dispatcher ==
  /\ Top.pc = "dispatch"
  /\ Top.who \notin GenericVectors
  /\ \/ Top.who \notin handlers /\ Unhandled(Top.who)
     \/ Top.who \in handlers /\ Top.who = TIMER_VECTOR /\ timer_irq_handler
     \/ Top.who \in handlers /\ Top.who # TIMER_VECTOR /\ device_handler
  /\ UNCHANGED <<iflag, lapic, handlers, periods, lost, uart, calls>>

generic_interrupt_dispatcher ==
  /\ Top.pc = "dispatch"
  /\ Top.who \in GenericVectors
  /\ Unhandled(UNEXPECTED)
  /\ UNCHANGED <<iflag, lapic, handlers, periods, lost, uart, calls>>

\* The EOI register retires the highest vector in service.  Mutated form: the
\* write is lost.
EoiLost == isr
AfterEoi == {v \in isr : \E w \in isr : w > v}

eoi ==
  /\ Top.pc = "eoi"
  /\ isr' = AfterEoi
  /\ stack' = Goto("iret")
  /\ UNCHANGED <<iflag, irr, raised, handlers, counts, uart, calls>>

\* The RFLAGS that the frame saved come back.
iretq ==
  /\ Top.pc = "iret"
  /\ stack' = Pop
  /\ iflag' = Top.rflags
  /\ UNCHANGED <<lapic, handlers, counts, uart, calls>>

\* Where a log call returns to.
AfterLog(f) ==
  CASE f.who = MAIN -> "idle"
    [] f.who = BREAKPOINT -> "iret"
    [] f.who = PAGE_FAULT -> "halt"
    [] OTHER -> "eoi"

----------------------------------------------------------------------------
(* logger.rs *)

\* The line status bit write_serial_byte waits for, and a mutated form.
NotFull == fifo < FIFO_DEPTH
TransmitterEmpty == fifo = 0

\* write_serial_byte waits for an empty transmitter, but only so long.
PollReady ==
  /\ Top.pc = "poll"
  /\ TransmitterEmpty
  /\ stack' = Goto("out")
  /\ UNCHANGED <<iflag, lapic, handlers, counts, uart, calls>>

\* What follows a poll that timed out, and a mutated form.
PollsAgain == "poll"
AfterTimeout == "out"

PollTimeout ==
  /\ Top.pc = "poll"
  /\ stalled /\ ~TransmitterEmpty
  /\ stack' = Goto(AfterTimeout)
  /\ UNCHANGED <<iflag, lapic, handlers, counts, uart, calls>>

\* On to the next byte of the chunk, or past it.
NextByte(f, again, done) ==
  IF f.bytes > 1 THEN [f EXCEPT !.bytes = @ - 1, !.pc = again]
  ELSE [f EXCEPT !.bytes = CHUNK, !.pc = done]

\* The byte is dropped by a full FIFO.
WriteSerial ==
  /\ Top.pc = "out"
  /\ fifo' = IF fifo < FIFO_DEPTH THEN fifo + 1 ELSE fifo
  /\ stack' = SetTop(NextByte(Top, "poll", "enabled?"))
  /\ UNCHANGED <<iflag, lapic, handlers, counts, stalled, calls>>

\* without_interrupts: the flag is read, cleared if set, and set again after.
ReadEnabled ==
  /\ Top.pc = "enabled?"
  /\ stack' = SetTop([Top EXCEPT !.enabled = iflag, !.pc = "cli"])
  /\ UNCHANGED <<iflag, lapic, handlers, counts, uart, calls>>

\* Mutated form of Mask: interrupts stay as they are.
LeavesIf(enabled) == iflag' = iflag
Mask(enabled) == iflag' = IF enabled THEN FALSE ELSE iflag

EnterConsole ==
  /\ Top.pc = "cli"
  /\ Mask(Top.enabled)
  /\ stack' = Goto("console")
  /\ UNCHANGED <<lapic, handlers, counts, uart, calls>>

\* framebuffer::write_byte, once per byte of the chunk.
WriteConsole ==
  /\ Top.pc = "console"
  /\ stack' = SetTop(NextByte(Top, "console", "sti"))
  /\ UNCHANGED <<iflag, lapic, handlers, counts, uart, calls>>

\* Mutated form of Unmask: interrupts are turned on, wanted or not.
AlwaysSti(enabled) == iflag' = TRUE
Unmask(enabled) == iflag' = IF enabled THEN TRUE ELSE iflag

LeaveConsole ==
  /\ Top.pc = "sti"
  /\ Unmask(Top.enabled)
  /\ stack' = Goto(AfterLog(Top))
  /\ UNCHANGED <<lapic, handlers, counts, uart, calls>>

----------------------------------------------------------------------------
(* The main flow between two calls *)

MainCalls ==
  /\ Top.pc = "idle"
  /\ calls < MAX_CALLS
  /\ calls' = calls + 1

klog ==
  /\ MainCalls
  /\ stack' = Goto("poll")
  /\ UNCHANGED <<iflag, lapic, handlers, counts, uart>>

register_irq(v) ==
  /\ MainCalls
  /\ handlers' = handlers \cup {v}
  /\ UNCHANGED <<iflag, stack, lapic, counts, uart>>

unregister_irq(v) ==
  /\ MainCalls
  /\ handlers' = handlers \ {v}
  /\ UNCHANGED <<iflag, stack, lapic, counts, uart>>

\* exception_dispatcher: #BP is reported and returns, any other exception is
\* reported and stops the CPU.
exception_dispatcher(vector) ==
  /\ MainCalls
  /\ Gate(vector, "poll")
  /\ UNCHANGED <<lapic, handlers, counts, uart>>

----------------------------------------------------------------------------
Step ==
  \/ irq_dispatcher \/ generic_interrupt_dispatcher \/ eoi \/ iretq
  \/ PollReady \/ PollTimeout \/ WriteSerial
  \/ ReadEnabled \/ EnterConsole \/ WriteConsole \/ LeaveConsole

Interrupt == \E v \in Vectors : Deliver(v)

Main ==
  \/ klog
  \/ \E v \in DeviceVectors : register_irq(v) \/ unregister_irq(v)
  \/ \E vector \in {BREAKPOINT, PAGE_FAULT} : exception_dispatcher(vector)

Next ==
  \/ \E v \in Vectors : Raise(v)
  \/ Interrupt
  \/ Spurious
  \/ Drain \/ Stall
  \/ Step
  \/ Main

\* The CPU executes, takes an offered interrupt when IF is set, and the UART
\* shifts its bytes out.
Fairness == WF_vars(Step) /\ SF_vars(Interrupt) /\ WF_vars(Drain)

Spec == Init /\ [][Next]_vars /\ Fairness

----------------------------------------------------------------------------

\* Handlers never nest, whatever they log: without_interrupts inside a handler
\* must not turn interrupts back on, because every handler runs on the stack it
\* interrupted.
HandlersDoNotNest == Len(stack) <= 2

\* The framebuffer console has one writer at a time: no handler draws while the
\* code it interrupted is between cli and sti of without_interrupts.
ConsoleExclusive ==
  \A i, j \in DOMAIN stack :
    stack[i].pc = "console" /\ stack[j].pc = "console" => i = j

\* As long as the UART drains, polling for an empty transmitter keeps the FIFO
\* from overflowing, although a handler can write between another's poll and
\* its write: at most one byte per frame is ever queued.
SerialNotOverrun == ~stalled => fifo <= 2

\* Every timer period is counted once, is on its way to be counted, or was lost
\* because the request before it was still pending.
TicksAccounted ==
  TICKS + lost
    + Cardinality(irr \cap {TIMER_VECTOR})
    + Cardinality({i \in DOMAIN stack : /\ stack[i].who = TIMER_VECTOR
                                        /\ stack[i].pc = "dispatch"})
    = periods

Stopped == Top.pc = "halt"

\* Every timer request is eventually taken, unless an exception stopped the CPU.
TickServed == TIMER_VECTOR \in irr ~> (TIMER_VECTOR \notin irr \/ Stopped)

\* Every log call ends, even when the UART stalls or handlers log meanwhile.
LogReturns == Top.pc # "idle" ~> (Top.pc = "idle" \/ Stopped)
=============================================================================
