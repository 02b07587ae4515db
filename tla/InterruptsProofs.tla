-------------------------- MODULE InterruptsProofs --------------------------
(***************************************************************************)
(* Proofs about interrupt delivery and the log path, for every set of      *)
(* vectors, chunk length, FIFO depth and number of interrupts.  The        *)
(* inductive invariant says what the interrupt flag is in every state of   *)
(* the two frames there can be: it is set while main runs, except between  *)
(* cli and sti, and clear as long as a handler runs, so that               *)
(* without_interrupts restores the right value in both.                    *)
(***************************************************************************)
EXTENDS Interrupts, FiniteSetTheorems, SequenceTheorems, TLAPS

LogPcs == {"poll", "out", "enabled?", "cli", "console", "sti"}
MainPcs == {"idle"} \cup LogPcs
HandlerPcs == {"dispatch", "eoi", "iret", "halt"} \cup LogPcs
Handlers == Vectors \cup {BREAKPOINT, PAGE_FAULT, SPURIOUS_VECTOR}
Frames == [who : Handlers \cup {MAIN}, pc : MainPcs \cup HandlerPcs,
           bytes : 1 .. CHUNK, enabled : BOOLEAN, rflags : BOOLEAN]

\* The main flow's frame.
MainSound ==
  /\ stack[1].who = MAIN
  /\ stack[1].pc \in MainPcs
  /\ stack[1].pc \in {"cli", "console", "sti"} => stack[1].enabled

\* The frame of a handler, and what its delivery found.
HandlerSound ==
  /\ ~iflag
  /\ stack[1].pc \notin {"console", "sti"}
  /\ stack[2].who \in Handlers
  /\ stack[2].pc \in HandlerPcs
  /\ ~stack[2].enabled
  /\ stack[2].rflags

Shape ==
  /\ stack \in Seq(Frames)
  /\ iflag \in BOOLEAN
  /\ Len(stack) \in {1, 2}
  /\ MainSound
  /\ Len(stack) = 1 => (iflag <=> stack[1].pc \notin {"console", "sti"})
  /\ Len(stack) = 2 => HandlerSound

Pending == IF TIMER_VECTOR \in irr THEN 1 ELSE 0
Dispatching ==
  IF Len(stack) = 2 /\ stack[2].who = TIMER_VECTOR /\ stack[2].pc = "dispatch"
  THEN 1 ELSE 0

\* TicksAccounted without sets, and what it needs: the tick handler stays.
Ticks ==
  /\ TICKS \in Nat /\ lost \in Nat /\ periods \in Nat
  /\ TIMER_VECTOR \in handlers
  /\ irr \subseteq Vectors
  /\ TICKS + lost + Pending + Dispatching = periods

\* Bytes on their way to the FIFO: a frame past its poll holds one.
Out(i) == IF i <= Len(stack) /\ stack[i].pc = "out" THEN 1 ELSE 0
Serial ==
  /\ fifo \in Nat /\ stalled \in BOOLEAN
  /\ ~stalled => fifo + Out(1) + Out(2) <= 2

IInv == Shape /\ Ticks /\ Serial

\* No vector is the main flow's mark.
LEMMA VectorsBelow ==
  /\ Vectors \subseteq Nat /\ Handlers \subseteq Nat /\ MAIN \notin Handlers
  /\ TIMER_VECTOR \in Vectors /\ TIMER_VECTOR \notin GenericVectors
  /\ TIMER_VECTOR \notin {BREAKPOINT, PAGE_FAULT, SPURIOUS_VECTOR, MAIN}
<1>1. /\ \A v \in {TIMER_VECTOR} \cup DeviceVectors : v \in Nat /\ v >= 32 /\ v <= 47
      /\ \A v \in GenericVectors : v \in Nat /\ v >= 48 /\ v <= 254
  BY InterruptsAssumption
<1>2. /\ \A v \in Vectors : v \in Nat /\ v # 256
      /\ TIMER_VECTOR \in Vectors /\ TIMER_VECTOR \notin GenericVectors
      /\ TIMER_VECTOR \notin {3, 14, 255, 256}
  BY <1>1 DEF Vectors
<1> QED BY <1>2 DEF Handlers, MAIN, BREAKPOINT, PAGE_FAULT, SPURIOUS_VECTOR

\* Reading and replacing the executing frame.
LEMMA TopFrame ==
  ASSUME Shape
  PROVE  /\ Top \in Frames
         /\ Len(stack) = 1 => Top = stack[1]
         /\ Len(stack) = 2 => Top = stack[2]
         /\ DOMAIN stack = 1 .. Len(stack)
         /\ stack[1] \in Frames
         /\ Len(stack) = 2 => stack[2] \in Frames
  BY DEF Shape, Top

LEMMA Replaced ==
  ASSUME Shape, NEW f \in Frames, stack' = SetTop(f)
  PROVE  /\ stack' \in Seq(Frames)
         /\ Len(stack') = Len(stack)
         /\ Len(stack) = 1 => stack'[1] = f
         /\ Len(stack) = 2 => stack'[1] = stack[1] /\ stack'[2] = f
  BY DEF Shape, SetTop

\* A step that goes on in the executing frame: what it must show of the new
\* frame and of the flag.
LEMMA Continues ==
  ASSUME Shape, NEW f \in Frames, stack' = SetTop(f), iflag' \in BOOLEAN,
         f.who = Top.who,
         Len(stack) = 1 => /\ f.pc \in MainPcs
                           /\ f.pc \in {"cli", "console", "sti"} => f.enabled
                           /\ iflag' <=> f.pc \notin {"console", "sti"},
         Len(stack) = 2 => /\ f.pc \in HandlerPcs
                           /\ ~iflag' /\ ~f.enabled /\ f.rflags
  PROVE  Shape'
<1>1. CASE Len(stack) = 1
  BY <1>1, Replaced, TopFrame DEF Shape, MainSound, HandlerSound
<1>2. CASE Len(stack) = 2
  BY <1>2, Replaced, TopFrame DEF Shape, MainSound, HandlerSound
<1> QED BY <1>1, <1>2 DEF Shape

\* What any step that keeps the number of frames does to the bookkeeping.
LEMMA Jump ==
  ASSUME Shape, NEW p \in MainPcs \cup HandlerPcs
  PROVE  LET f == [Top EXCEPT !.pc = p]
         IN  /\ f \in Frames /\ f.pc = p /\ f.who = Top.who
             /\ f.enabled = Top.enabled /\ f.rflags = Top.rflags
  BY TopFrame DEF Frames

\* A step that only moves the executing frame to another point of the log
\* path or of the handler.
LEMMA JumpShape ==
  ASSUME Shape, NEW p \in MainPcs \cup HandlerPcs, stack' = Goto(p),
         UNCHANGED iflag,
         Len(stack) = 1 => /\ p \in MainPcs \ {"cli"}
                           /\ p \in {"console", "sti"}
                                <=> stack[1].pc \in {"console", "sti"},
         Len(stack) = 2 => p \in HandlerPcs
  PROVE  /\ Shape'
         /\ Len(stack') = Len(stack)
         /\ Len(stack) = 1 => stack'[1].pc = p
         /\ Len(stack) = 2 => /\ stack'[1] = stack[1]
                              /\ stack'[2].pc = p /\ stack'[2].who = stack[2].who
<1> DEFINE f == [Top EXCEPT !.pc = p]
<1>1. /\ f \in Frames /\ f.pc = p /\ f.who = Top.who
      /\ f.enabled = Top.enabled /\ f.rflags = Top.rflags
  BY Jump
<1>2. stack' = SetTop(f)
  BY DEF Goto
<1> HIDE DEF f
<1>3. Shape'
  <2>1. Len(stack) = 1 => /\ f.pc \in MainPcs
                          /\ f.pc \in {"cli", "console", "sti"} => f.enabled
                          /\ iflag' <=> f.pc \notin {"console", "sti"}
    BY <1>1, TopFrame DEF Shape, MainSound
  <2>2. Len(stack) = 2 => /\ f.pc \in HandlerPcs
                          /\ ~iflag' /\ ~f.enabled /\ f.rflags
    BY <1>1, TopFrame DEF Shape, HandlerSound
  <2>3. iflag' \in BOOLEAN
    BY DEF Shape
  <2> QED BY <1>1, <1>2, <2>1, <2>2, <2>3, Continues
<1> QED BY <1>1, <1>2, <1>3, Replaced, TopFrame

\* Where the executing frame is: main is never at a handler's point.
LEMMA Where ==
  ASSUME Shape
  PROVE  /\ Top.pc \in {"dispatch", "eoi", "iret", "halt"} => Len(stack) = 2
         /\ Top.pc = "idle" => Len(stack) = 1
         /\ iflag => Len(stack) = 1
  BY TopFrame DEF Shape, MainSound, HandlerSound, MainPcs, HandlerPcs, LogPcs

----------------------------------------------------------------------------
\* main has just executed sti().
LEMMA InitInv == Init => IInv
<1> SUFFICES ASSUME Init PROVE IInv
  OBVIOUS
<1> DEFINE f == Frame(MAIN, "idle", TRUE)
<1>1. f \in Frames
  BY InterruptsAssumption DEF Frame, Frames, MainPcs
<1>2. f.who = MAIN /\ f.pc = "idle"
  BY DEF Frame
<1>3. stack = <<f>>
  BY DEF Init
<1> HIDE DEF f
<1>4. stack \in Seq(Frames) /\ Len(stack) = 1 /\ stack[1] = f
  BY <1>1, <1>3
<1>5. Shape
  <2>1. MainSound
    BY <1>2, <1>4 DEF MainSound, MainPcs
  <2>2. iflag \in BOOLEAN /\ (iflag <=> stack[1].pc \notin {"console", "sti"})
    BY <1>2, <1>4 DEF Init
  <2> QED BY <1>4, <2>1, <2>2 DEF Shape
<1>6. Ticks
  <2>1. Pending = 0 /\ Dispatching = 0
    BY <1>4 DEF Init, Pending, Dispatching
  <2> QED BY <2>1 DEF Init, Ticks
<1>7. Serial
  <2>1. Out(1) = 0 /\ Out(2) = 0
    BY <1>2, <1>4 DEF Out
  <2>2. fifo = 0 /\ stalled \in BOOLEAN
    BY DEF Init
  <2> QED BY <2>1, <2>2 DEF Serial
<1> QED BY <1>5, <1>6, <1>7 DEF IInv

\* The hardware raises a vector or moves a byte of the FIFO.
LEMMA HardwareInv ==
  ASSUME IInv, \/ \E v \in Vectors : Raise(v)
               \/ Drain \/ Stall
  PROVE  IInv'
<1>1. UNCHANGED <<stack, iflag, handlers, TICKS>>
  BY DEF Raise, Drain, Stall, counts
<1>2. Shape'
  BY <1>1 DEF IInv, Shape, MainSound, HandlerSound
<1>3. Ticks'
  <2>1. Dispatching' = Dispatching
    BY <1>1 DEF Dispatching
  <2>2. Dispatching \in Nat /\ Ticks
    BY DEF Dispatching, IInv
  <2>3. ASSUME NEW v \in Vectors, Raise(v) PROVE Ticks'
    BY <1>1, <2>1, <2>2, <2>3, VectorsBelow DEF Ticks, Raise, Pending
  <2>4. ASSUME Drain \/ Stall PROVE Ticks'
    BY <1>1, <2>1, <2>2, <2>4 DEF Ticks, Drain, Stall, counts, lapic, Pending
  <2> QED BY <2>3, <2>4
<1>4. Serial'
  <2>1. Out(1)' = Out(1) /\ Out(2)' = Out(2) /\ Out(1) \in Nat /\ Out(2) \in Nat
    BY <1>1 DEF Out
  <2>2. Serial
    BY DEF IInv
  <2>3. CASE Drain
    BY <2>1, <2>2, <2>3 DEF Serial, Drain
  <2>4. CASE Stall
    BY <2>1, <2>2, <2>4 DEF Serial, Stall
  <2>5. CASE \E v \in Vectors : Raise(v)
    BY <2>1, <2>2, <2>5 DEF Serial, Raise, uart
  <2> QED BY <2>3, <2>4, <2>5
<1> QED BY <1>2, <1>3, <1>4 DEF IInv

\* A frame is pushed only onto main's, with interrupts on.
LEMMA GateShape ==
  ASSUME Shape, NEW who \in Handlers, NEW p \in HandlerPcs \ {"out"},
         Gate(who, p), iflag
  PROVE  /\ Shape' /\ Len(stack) = 1 /\ Len(stack') = 2
         /\ stack'[1] = stack[1]
         /\ stack'[2].who = who /\ stack'[2].pc = p
<1> DEFINE f == Frame(who, p, iflag)
<1>1. /\ f \in Frames /\ f.who = who /\ f.pc = p /\ ~f.enabled /\ f.rflags
  <2>1. 1 \in 1 .. CHUNK /\ CHUNK \in 1 .. CHUNK
    BY InterruptsAssumption
  <2> QED BY <2>1 DEF Frame, Frames, Shape
<1>2. stack' = Append(stack, f) /\ ~iflag' /\ iflag' \in BOOLEAN
  BY DEF Gate, Push
<1> HIDE DEF f
<1>3. Len(stack) = 1
  BY Where
<1>4. /\ stack' \in Seq(Frames) /\ Len(stack') = 2
      /\ stack'[1] = stack[1] /\ stack'[2] = f
  <2>1. stack \in Seq(Frames)
    BY DEF Shape
  <2>2. f \in Frames
    BY <1>1
  <2>3. /\ stack' \in Seq(Frames) /\ Len(stack') = Len(stack) + 1
        /\ \A i \in 1 .. Len(stack) : stack'[i] = stack[i]
        /\ stack'[Len(stack) + 1] = f
    BY <1>2, <2>1, <2>2, AppendProperties
  <2> QED BY <1>3, <2>3
<1>5. stack[1].pc \notin {"console", "sti"}
  BY <1>3 DEF Shape
<1>6. Shape'
  BY <1>1, <1>2, <1>4, <1>5 DEF Shape, MainSound, HandlerSound
<1> QED BY <1>1, <1>3, <1>4, <1>6

\* Delivery of an interrupt, a spurious one or an exception.
LEMMA EntryInv ==
  ASSUME IInv,
         \/ \E v \in Vectors : Deliver(v)
         \/ Spurious
         \/ \E vector \in {BREAKPOINT, PAGE_FAULT} : exception_dispatcher(vector)
  PROVE  IInv'
<1>1. Shape /\ Ticks /\ Serial
  BY DEF IInv
<1>2. iflag
  <2>1. CASE Top.pc = "idle"
    BY <1>1, <2>1, Where, TopFrame DEF Shape
  <2> QED BY <2>1 DEF Deliver, Spurious, exception_dispatcher, MainCalls
<1>3. PICK who \in Handlers, p \in {"dispatch", "iret", "poll"} :
        /\ Gate(who, p)
        /\ p = "dispatch" => /\ who \in irr /\ irr' = irr \ {who}
        /\ p # "dispatch" => /\ irr' = irr /\ who # TIMER_VECTOR
  <2>1. ASSUME NEW v \in Vectors, Deliver(v)
        PROVE  v \in Handlers /\ Gate(v, "dispatch") /\ v \in irr /\ irr' = irr \ {v}
    BY <2>1 DEF Deliver, Offered, Handlers
  <2>2. ASSUME Spurious
        PROVE  /\ SPURIOUS_VECTOR \in Handlers /\ Gate(SPURIOUS_VECTOR, "iret")
               /\ irr' = irr /\ SPURIOUS_VECTOR # TIMER_VECTOR
    BY <2>2, VectorsBelow DEF Spurious, Handlers
  <2>3. ASSUME NEW x \in {BREAKPOINT, PAGE_FAULT}, exception_dispatcher(x)
        PROVE  x \in Handlers /\ Gate(x, "poll") /\ irr' = irr /\ x # TIMER_VECTOR
    BY <2>3, VectorsBelow DEF exception_dispatcher, Handlers, lapic
  <2> QED BY <2>1, <2>2, <2>3
<1>4. p \in HandlerPcs \ {"out"}
  BY DEF HandlerPcs, LogPcs
<1>5. /\ Shape' /\ Len(stack) = 1 /\ Len(stack') = 2 /\ stack'[1] = stack[1]
      /\ stack'[2].who = who /\ stack'[2].pc = p
  BY <1>1, <1>2, <1>3, <1>4, GateShape
<1>6. UNCHANGED <<handlers, TICKS, periods, lost, fifo, stalled>>
  BY DEF Deliver, Spurious, exception_dispatcher, counts, uart
<1>7. Ticks'
  <2>1. Dispatching = 0
    BY <1>5 DEF Dispatching
  <2>2. CASE p = "dispatch" /\ who = TIMER_VECTOR
    BY <1>1, <1>3, <1>5, <1>6, <2>1, <2>2 DEF Ticks, Pending, Dispatching
  <2>3. CASE ~(p = "dispatch" /\ who = TIMER_VECTOR)
    <3>1. Dispatching' = 0 /\ Pending' = Pending /\ irr' \subseteq irr
      BY <1>3, <1>5, <2>3 DEF Dispatching, Pending
    <3> QED BY <1>1, <1>6, <2>1, <3>1 DEF Ticks
  <2> QED BY <2>2, <2>3
<1>8. Serial'
  <2>1. Out(1)' = Out(1) /\ Out(2)' = 0 /\ Out(2) = 0
    BY <1>4, <1>5 DEF Out
  <2> QED BY <1>1, <1>6, <2>1 DEF Serial
<1> QED BY <1>5, <1>7, <1>8 DEF IInv

\* irq_dispatcher and generic_interrupt_dispatcher.
LEMMA DispatchInv ==
  ASSUME IInv, irq_dispatcher \/ generic_interrupt_dispatcher
  PROVE  IInv'
<1>1. Shape /\ Ticks /\ Serial /\ Top.pc = "dispatch"
  BY DEF IInv, irq_dispatcher, generic_interrupt_dispatcher
<1>2. Len(stack) = 2 /\ Top = stack[2]
  BY <1>1, Where, TopFrame
<1>3. UNCHANGED <<iflag, irr, handlers, periods, lost, fifo, stalled>>
  BY DEF irq_dispatcher, generic_interrupt_dispatcher, lapic, uart
<1>4. PICK p \in {"poll", "eoi"} : stack' = Goto(p)
  BY DEF irq_dispatcher, generic_interrupt_dispatcher, Unhandled,
         timer_irq_handler, device_handler
<1>5. TICKS' = IF Top.who = TIMER_VECTOR THEN TICKS + 1 ELSE TICKS
  BY <1>1, VectorsBelow
     DEF irq_dispatcher, generic_interrupt_dispatcher, Unhandled,
         timer_irq_handler, device_handler, Ticks
<1>6. /\ Shape' /\ Len(stack') = 2 /\ stack'[1] = stack[1]
      /\ stack'[2].pc = p /\ stack'[2].who = stack[2].who
  BY <1>1, <1>2, <1>3, <1>4, JumpShape DEF HandlerPcs, LogPcs
<1>7. Ticks'
  <2>1. Dispatching' = 0 /\ Pending' = Pending /\ Pending \in Nat
    BY <1>3, <1>6 DEF Dispatching, Pending
  <2>2. Dispatching = IF Top.who = TIMER_VECTOR THEN 1 ELSE 0
    BY <1>1, <1>2 DEF Dispatching
  <2> QED BY <1>1, <1>3, <1>5, <2>1, <2>2 DEF Ticks
<1>8. Serial'
  <2>1. Out(1)' = Out(1) /\ Out(2)' = 0 /\ Out(2) = 0
    BY <1>1, <1>2, <1>6 DEF Out
  <2> QED BY <1>1, <1>3, <2>1 DEF Serial
<1> QED BY <1>6, <1>7, <1>8 DEF IInv

\* The return from an interrupt finds main where it was interrupted.
LEMMA IretInv == IInv /\ iretq => IInv'
<1> SUFFICES ASSUME IInv, iretq PROVE IInv'
  OBVIOUS
<1>1. Shape /\ Ticks /\ Serial /\ Top.pc = "iret"
  BY DEF IInv, iretq
<1>2. Len(stack) = 2 /\ Top = stack[2] /\ stack[1] \in Frames /\ HandlerSound
  BY <1>1, Where, TopFrame DEF Shape
<1>3. stack \in Seq(Frames) /\ MainSound
  BY <1>1 DEF Shape
<1>4. /\ UNCHANGED <<irr, handlers, TICKS, periods, lost, fifo, stalled>>
      /\ iflag' = Top.rflags /\ stack' = SubSeq(stack, 1, Len(stack) - 1)
  BY DEF iretq, lapic, counts, uart, Pop
<1>5. stack' \in Seq(Frames) /\ Len(stack') = 1 /\ stack'[1] = stack[1]
  <2>1. stack' = SubSeq(stack, 1, 1)
    BY <1>2, <1>4
  <2> QED BY <1>2, <1>3, <2>1
<1>6. iflag' /\ iflag' \in BOOLEAN
  BY <1>2, <1>4, TopFrame, <1>1 DEF HandlerSound, Frames
<1>7. Shape'
  BY <1>2, <1>3, <1>5, <1>6 DEF Shape, MainSound, HandlerSound
<1>8. Ticks'
  <2>1. Dispatching' = 0 /\ Dispatching = 0 /\ Pending' = Pending
    BY <1>1, <1>2, <1>4, <1>5 DEF Dispatching, Pending
  <2> QED BY <1>1, <1>4, <2>1 DEF Ticks
<1>9. Serial'
  <2>1. Out(1)' = Out(1) /\ Out(2)' = 0 /\ Out(2) = 0
    BY <1>1, <1>2, <1>5 DEF Out
  <2> QED BY <1>1, <1>4, <2>1 DEF Serial
<1> QED BY <1>7, <1>8, <1>9 DEF IInv

----------------------------------------------------------------------------
(* The log path, in main or in a handler.                                   *)

\* Steps of the log path count no tick.
LEMMA LogTicks ==
  ASSUME Shape, Ticks, UNCHANGED <<irr, handlers, TICKS, periods, lost>>,
         Top.pc # "dispatch", NEW f \in Frames, stack' = SetTop(f),
         f.pc # "dispatch"
  PROVE  Ticks'
<1>1. Dispatching = 0
  BY TopFrame DEF Dispatching
<1>2. Dispatching' = 0
  BY Replaced DEF Dispatching, Shape
<1>3. Pending' = Pending
  BY DEF Pending
<1> QED BY <1>1, <1>2, <1>3 DEF Ticks

\* What a step of the log path does to the bytes on their way.
LEMMA LogOut ==
  ASSUME Shape, NEW f \in Frames, stack' = SetTop(f)
  PROVE  LET o(g) == IF g.pc = "out" THEN 1 ELSE 0
         IN  /\ Out(1)' + Out(2)' = Out(1) + Out(2) - o(Top) + o(f)
             /\ Out(1) \in {0, 1} /\ Out(2) \in {0, 1}
             /\ Out(1) + Out(2) - o(Top) \in {0, 1}
<1>1. CASE Len(stack) = 1
  BY <1>1, Replaced, TopFrame DEF Out
<1>2. CASE Len(stack) = 2
  BY <1>2, Replaced, TopFrame DEF Out
<1> QED BY <1>1, <1>2 DEF Shape

\* A step of the log path that touches neither the counters nor the FIFO.
LEMMA LogStep ==
  ASSUME IInv, NEW f \in Frames, stack' = SetTop(f), Shape',
         UNCHANGED <<irr, handlers, TICKS, periods, lost, fifo, stalled>>,
         Top.pc \notin {"dispatch", "out"}, f.pc \notin {"dispatch", "out"}
  PROVE  IInv'
<1>1. Shape /\ Ticks /\ Serial
  BY DEF IInv
<1>2. Ticks'
  BY <1>1, LogTicks
<1>3. Out(1)' + Out(2)' = Out(1) + Out(2) /\ Out(1) \in {0, 1} /\ Out(2) \in {0, 1}
      /\ Out(1)' \in {0, 1} /\ Out(2)' \in {0, 1}
  <2>1. Out(1)' \in {0, 1} /\ Out(2)' \in {0, 1}
    BY DEF Out
  <2> QED BY <1>1, <2>1, LogOut
<1>4. Serial'
  BY <1>1, <1>3 DEF Serial
<1> QED BY <1>2, <1>4 DEF IInv

\* The end of a handler and the start of a log call.
LEMMA MovesInv ==
  ASSUME IInv, eoi \/ klog
  PROVE  IInv'
<1>1. Shape
  BY DEF IInv
<1>2. CASE eoi
  <2> DEFINE f == [Top EXCEPT !.pc = "iret"]
  <2>1. Top.pc = "eoi" /\ Len(stack) = 2 /\ stack' = Goto("iret") /\ UNCHANGED iflag
    BY <1>1, <1>2, Where DEF eoi
  <2>2. Shape'
    BY <1>1, <2>1, JumpShape DEF HandlerPcs
  <2>3. f \in Frames /\ f.pc = "iret"
    BY <1>1, Jump DEF HandlerPcs
  <2>4. stack' = SetTop(f)
    BY <2>1 DEF Goto
  <2>5. UNCHANGED <<irr, handlers, TICKS, periods, lost, fifo, stalled>>
    BY <1>2 DEF eoi, counts, uart
  <2> HIDE DEF f
  <2> QED BY <2>1, <2>2, <2>3, <2>4, <2>5, LogStep
<1>3. CASE klog
  <2> DEFINE f == [Top EXCEPT !.pc = "poll"]
  <2>1. Top.pc = "idle" /\ Len(stack) = 1 /\ stack' = Goto("poll") /\ UNCHANGED iflag
    BY <1>1, <1>3, Where DEF klog, MainCalls
  <2>2. Shape'
    <3>1. stack[1].pc = "idle"
      BY <1>1, <2>1, TopFrame
    <3> QED BY <1>1, <2>1, <3>1, JumpShape DEF MainPcs, LogPcs
  <2>3. f \in Frames /\ f.pc = "poll"
    BY <1>1, Jump DEF MainPcs, LogPcs
  <2>4. stack' = SetTop(f)
    BY <2>1 DEF Goto
  <2>5. UNCHANGED <<irr, handlers, TICKS, periods, lost, fifo, stalled>>
    BY <1>3 DEF klog, lapic, counts, uart
  <2> HIDE DEF f
  <2> QED BY <2>1, <2>2, <2>3, <2>4, <2>5, LogStep
<1> QED BY <1>2, <1>3

\* A frame that goes on to the next byte, or past the chunk.
LEMMA NextByteFrame ==
  ASSUME NEW f \in Frames, NEW again \in LogPcs, NEW done \in LogPcs
  PROVE  LET g == NextByte(f, again, done)
         IN  /\ g \in Frames /\ g.who = f.who /\ g.pc \in {again, done}
             /\ g.enabled = f.enabled /\ g.rflags = f.rflags
<1>1. /\ f.bytes \in Nat /\ f.bytes >= 1 /\ f.bytes <= CHUNK
      /\ CHUNK \in Nat \ {0}
  BY InterruptsAssumption DEF Frames
<1>2. again \in MainPcs \cup HandlerPcs /\ done \in MainPcs \cup HandlerPcs
  BY DEF MainPcs
<1>3. CASE f.bytes > 1
  <2>1. f.bytes - 1 \in 1 .. CHUNK
    BY <1>1, <1>3
  <2> QED BY <1>2, <1>3, <2>1 DEF NextByte, Frames
<1>4. CASE ~(f.bytes > 1)
  <2>1. CHUNK \in 1 .. CHUNK
    BY <1>1
  <2> QED BY <1>2, <1>4, <2>1 DEF NextByte, Frames
<1> QED BY <1>3, <1>4

\* write_serial_byte's poll ends: with an empty FIFO, or with a stalled UART.
LEMMA PollInv ==
  ASSUME IInv, PollReady \/ PollTimeout
  PROVE  IInv'
<1> DEFINE f == [Top EXCEPT !.pc = "out"]
<1>1. /\ Shape /\ Ticks /\ Serial /\ Top.pc = "poll" /\ stack' = Goto("out")
      /\ UNCHANGED <<iflag, irr, handlers, TICKS, periods, lost, fifo, stalled>>
      /\ fifo = 0 \/ stalled
  BY DEF IInv, PollReady, PollTimeout, AfterTimeout, TransmitterEmpty, lapic,
         counts, uart
<1>2. Shape'
  <2>1. Len(stack) = 1 => stack[1].pc = "poll"
    BY <1>1, TopFrame
  <2> QED BY <1>1, <2>1, JumpShape DEF MainPcs, HandlerPcs, LogPcs
<1>3. f \in Frames /\ f.pc = "out"
  BY <1>1, Jump DEF MainPcs, LogPcs
<1>4. stack' = SetTop(f)
  BY <1>1 DEF Goto
<1> HIDE DEF f
<1>5. Ticks'
  BY <1>1, <1>3, <1>4, LogTicks
<1>6. Serial'
  <2>1. /\ Out(1)' + Out(2)' = Out(1) + Out(2) + 1 /\ Out(1) + Out(2) \in {0, 1}
        /\ Out(1)' \in {0, 1} /\ Out(2)' \in {0, 1}
    <3>1. Out(1)' \in {0, 1} /\ Out(2)' \in {0, 1}
      BY DEF Out
    <3> QED BY <1>1, <1>3, <1>4, <3>1, LogOut
  <2> QED BY <1>1, <2>1 DEF Serial
<1> QED BY <1>2, <1>5, <1>6 DEF IInv

\* The byte goes to the FIFO.
LEMMA WriteSerialInv == IInv /\ WriteSerial => IInv'
<1> SUFFICES ASSUME IInv, WriteSerial PROVE IInv'
  OBVIOUS
<1> DEFINE f == NextByte(Top, "poll", "enabled?")
<1>1. /\ Shape /\ Ticks /\ Serial /\ Top.pc = "out" /\ stack' = SetTop(f)
      /\ UNCHANGED <<iflag, irr, handlers, TICKS, periods, lost, stalled>>
      /\ fifo' = IF fifo < FIFO_DEPTH THEN fifo + 1 ELSE fifo
  BY DEF IInv, WriteSerial, lapic, counts
<1>2. /\ f \in Frames /\ f.who = Top.who /\ f.pc \in {"poll", "enabled?"}
      /\ f.enabled = Top.enabled /\ f.rflags = Top.rflags
  BY <1>1, TopFrame, NextByteFrame DEF LogPcs
<1> HIDE DEF f
<1>3. Shape'
  <2>1. Len(stack) = 1 => /\ f.pc \in MainPcs
                          /\ f.pc \in {"cli", "console", "sti"} => f.enabled
                          /\ iflag' <=> f.pc \notin {"console", "sti"}
    BY <1>1, <1>2, TopFrame DEF Shape, MainPcs, LogPcs
  <2>2. Len(stack) = 2 => /\ f.pc \in HandlerPcs
                          /\ ~iflag' /\ ~f.enabled /\ f.rflags
    BY <1>1, <1>2, TopFrame DEF Shape, HandlerSound, HandlerPcs, LogPcs
  <2>3. iflag' \in BOOLEAN
    BY <1>1 DEF Shape
  <2> QED BY <1>1, <1>2, <2>1, <2>2, <2>3, Continues
<1>4. Ticks'
  BY <1>1, <1>2, LogTicks
<1>5. Serial'
  <2>1. /\ Out(1)' + Out(2)' = Out(1) + Out(2) - 1
        /\ Out(1) \in {0, 1} /\ Out(2) \in {0, 1}
        /\ Out(1)' \in {0, 1} /\ Out(2)' \in {0, 1}
    <3>1. Out(1)' \in {0, 1} /\ Out(2)' \in {0, 1}
      BY DEF Out
    <3> QED BY <1>1, <1>2, <3>1, LogOut
  <2>2. fifo' \in Nat /\ fifo' <= fifo + 1 /\ fifo \in Nat
    BY <1>1, InterruptsAssumption DEF Serial
  <2> QED BY <1>1, <2>1, <2>2 DEF Serial
<1> QED BY <1>3, <1>4, <1>5 DEF IInv

\* without_interrupts reads the flag: set in main, clear in a handler.
LEMMA ReadEnabledInv == IInv /\ ReadEnabled => IInv'
<1> SUFFICES ASSUME IInv, ReadEnabled PROVE IInv'
  OBVIOUS
<1> DEFINE f == [Top EXCEPT !.enabled = iflag, !.pc = "cli"]
<1>1. /\ Shape /\ Top.pc = "enabled?" /\ stack' = SetTop(f)
      /\ UNCHANGED <<iflag, irr, handlers, TICKS, periods, lost, fifo, stalled>>
  BY DEF IInv, ReadEnabled, lapic, counts, uart
<1>2. /\ f \in Frames /\ f.who = Top.who /\ f.pc = "cli"
      /\ f.enabled = iflag /\ f.rflags = Top.rflags
  <2>1. Top \in Frames /\ iflag \in BOOLEAN /\ "cli" \in MainPcs \cup HandlerPcs
    BY <1>1, TopFrame DEF Shape, MainPcs, LogPcs
  <2> QED BY <2>1 DEF Frames
<1> HIDE DEF f
<1>3. Shape'
  <2>1. Len(stack) = 1 => /\ f.pc \in MainPcs
                          /\ f.pc \in {"cli", "console", "sti"} => f.enabled
                          /\ iflag' <=> f.pc \notin {"console", "sti"}
    BY <1>1, <1>2, TopFrame DEF Shape, MainPcs, LogPcs
  <2>2. Len(stack) = 2 => /\ f.pc \in HandlerPcs
                          /\ ~iflag' /\ ~f.enabled /\ f.rflags
    BY <1>1, <1>2, TopFrame DEF Shape, HandlerSound, HandlerPcs, LogPcs
  <2>3. iflag' \in BOOLEAN
    BY <1>1 DEF Shape
  <2> QED BY <1>1, <1>2, <2>1, <2>2, <2>3, Continues
<1> QED BY <1>1, <1>2, <1>3, LogStep

\* cli, if the flag was set.
LEMMA EnterConsoleInv == IInv /\ EnterConsole => IInv'
<1> SUFFICES ASSUME IInv, EnterConsole PROVE IInv'
  OBVIOUS
<1> DEFINE f == [Top EXCEPT !.pc = "console"]
<1>1. /\ Shape /\ Top.pc = "cli" /\ stack' = SetTop(f)
      /\ iflag' = IF Top.enabled THEN FALSE ELSE iflag
      /\ UNCHANGED <<irr, handlers, TICKS, periods, lost, fifo, stalled>>
  BY DEF IInv, EnterConsole, Mask, Goto, lapic, counts, uart
<1>2. /\ f \in Frames /\ f.who = Top.who /\ f.pc = "console"
      /\ f.enabled = Top.enabled /\ f.rflags = Top.rflags
  BY <1>1, Jump DEF MainPcs, LogPcs
<1> HIDE DEF f
<1>3. Shape'
  <2>1. Len(stack) = 1 => /\ f.pc \in MainPcs
                          /\ f.pc \in {"cli", "console", "sti"} => f.enabled
                          /\ iflag' <=> f.pc \notin {"console", "sti"}
    BY <1>1, <1>2, TopFrame DEF Shape, MainSound, MainPcs, LogPcs
  <2>2. Len(stack) = 2 => /\ f.pc \in HandlerPcs
                          /\ ~iflag' /\ ~f.enabled /\ f.rflags
    BY <1>1, <1>2, TopFrame DEF Shape, HandlerSound, HandlerPcs, LogPcs
  <2>3. iflag' \in BOOLEAN
    BY <1>1 DEF Shape
  <2> QED BY <1>1, <1>2, <2>1, <2>2, <2>3, Continues
<1> QED BY <1>1, <1>2, <1>3, LogStep

\* The console writes the chunk with the flag clear.
LEMMA WriteConsoleInv == IInv /\ WriteConsole => IInv'
<1> SUFFICES ASSUME IInv, WriteConsole PROVE IInv'
  OBVIOUS
<1> DEFINE f == NextByte(Top, "console", "sti")
<1>1. /\ Shape /\ Top.pc = "console" /\ stack' = SetTop(f)
      /\ UNCHANGED <<iflag, irr, handlers, TICKS, periods, lost, fifo, stalled>>
  BY DEF IInv, WriteConsole, lapic, counts, uart
<1>2. /\ f \in Frames /\ f.who = Top.who /\ f.pc \in {"console", "sti"}
      /\ f.enabled = Top.enabled /\ f.rflags = Top.rflags
  BY <1>1, TopFrame, NextByteFrame DEF LogPcs
<1> HIDE DEF f
<1>3. Shape'
  <2>1. Len(stack) = 1 => /\ f.pc \in MainPcs
                          /\ f.pc \in {"cli", "console", "sti"} => f.enabled
                          /\ iflag' <=> f.pc \notin {"console", "sti"}
    BY <1>1, <1>2, TopFrame DEF Shape, MainSound, MainPcs, LogPcs
  <2>2. Len(stack) = 2 => /\ f.pc \in HandlerPcs
                          /\ ~iflag' /\ ~f.enabled /\ f.rflags
    BY <1>1, <1>2, TopFrame DEF Shape, HandlerSound, HandlerPcs, LogPcs
  <2>3. iflag' \in BOOLEAN
    BY <1>1 DEF Shape
  <2> QED BY <1>1, <1>2, <2>1, <2>2, <2>3, Continues
<1> QED BY <1>1, <1>2, <1>3, LogStep

\* sti, if the flag was set; the log call returns to its caller.
LEMMA LeaveConsoleInv == IInv /\ LeaveConsole => IInv'
<1> SUFFICES ASSUME IInv, LeaveConsole PROVE IInv'
  OBVIOUS
<1> DEFINE p == AfterLog(Top)
           f == [Top EXCEPT !.pc = p]
<1>1. /\ Shape /\ Top.pc = "sti" /\ stack' = SetTop(f)
      /\ iflag' = IF Top.enabled THEN TRUE ELSE iflag
      /\ UNCHANGED <<irr, handlers, TICKS, periods, lost, fifo, stalled>>
  BY DEF IInv, LeaveConsole, Unmask, Goto, lapic, counts, uart
<1>2. /\ Len(stack) = 1 => p = "idle"
      /\ Len(stack) = 2 => p \in {"iret", "halt", "eoi"}
  <2>1. Len(stack) = 1 => Top.who = MAIN
    BY <1>1, TopFrame DEF Shape, MainSound
  <2>2. Len(stack) = 2 => Top.who # MAIN
    BY <1>1, TopFrame, VectorsBelow DEF Shape, HandlerSound
  <2> QED BY <2>1, <2>2 DEF AfterLog, MAIN, BREAKPOINT, PAGE_FAULT
<1>3. p \in {"idle", "iret", "halt", "eoi"}
  BY <1>1, <1>2 DEF Shape
<1> HIDE DEF p
<1>4. /\ f \in Frames /\ f.who = Top.who /\ f.pc = p
      /\ f.enabled = Top.enabled /\ f.rflags = Top.rflags
  BY <1>1, <1>3, Jump DEF MainPcs, HandlerPcs
<1> HIDE DEF f
<1>5. Shape'
  <2>1. Len(stack) = 1 => /\ f.pc \in MainPcs
                          /\ f.pc \in {"cli", "console", "sti"} => f.enabled
                          /\ iflag' <=> f.pc \notin {"console", "sti"}
    BY <1>1, <1>2, <1>4, TopFrame DEF Shape, MainSound, MainPcs, LogPcs
  <2>2. Len(stack) = 2 => /\ f.pc \in HandlerPcs
                          /\ ~iflag' /\ ~f.enabled /\ f.rflags
    BY <1>1, <1>2, <1>4, TopFrame DEF Shape, HandlerSound, HandlerPcs, LogPcs
  <2>3. iflag' \in BOOLEAN
    BY <1>1 DEF Shape
  <2> QED BY <1>1, <1>4, <2>1, <2>2, <2>3, Continues
<1> QED BY <1>1, <1>3, <1>4, <1>5, LogStep

\* Handlers come and go, the tick handler stays.
LEMMA RegisterInv ==
  ASSUME IInv, \/ \E v \in DeviceVectors : register_irq(v) \/ unregister_irq(v)
               \/ UNCHANGED vars
  PROVE  IInv'
<1>1. /\ UNCHANGED <<iflag, stack, irr, TICKS, periods, lost, fifo, stalled>>
      /\ TIMER_VECTOR \in handlers'
  BY InterruptsAssumption
     DEF register_irq, unregister_irq, vars, lapic, counts, uart, IInv, Ticks
<1>2. Shape'
  BY <1>1 DEF IInv, Shape, MainSound, HandlerSound
<1>3. Ticks'
  BY <1>1 DEF IInv, Ticks, Pending, Dispatching
<1>4. Serial'
  BY <1>1 DEF IInv, Serial, Out
<1> QED BY <1>2, <1>3, <1>4 DEF IInv

----------------------------------------------------------------------------
\* The inductive invariant holds whatever the hardware raises and main does.
THEOREM InterruptInvariant == Spec => []IInv
<1>1. IInv /\ [Next]_vars => IInv'
  <2> SUFFICES ASSUME IInv, [Next]_vars PROVE IInv'
    OBVIOUS
  <2>1. CASE Step
    BY <2>1, DispatchInv, IretInv, MovesInv, PollInv, WriteSerialInv,
       ReadEnabledInv, EnterConsoleInv, WriteConsoleInv, LeaveConsoleInv DEF Step
  <2>2. CASE Main
    BY <2>2, EntryInv, MovesInv, RegisterInv DEF Main
  <2>3. CASE Interrupt \/ Spurious
    BY <2>3, EntryInv DEF Interrupt
  <2>4. CASE (\E v \in Vectors : Raise(v)) \/ Drain \/ Stall
    BY <2>4, HardwareInv
  <2>5. CASE UNCHANGED vars
    BY <2>5, RegisterInv
  <2> QED BY <2>1, <2>2, <2>3, <2>4, <2>5 DEF Next
<1> QED BY <1>1, InitInv, PTL DEF Spec

\* A handler never interrupts a handler, although handlers log and
\* without_interrupts writes the interrupt flag in them.
THEOREM NoNesting == Spec => []HandlersDoNotNest
<1>1. IInv => HandlersDoNotNest
  <2>1. IInv => Len(stack) \in {1, 2}
    BY Zenon DEF IInv, Shape
  <2>2. \A n \in {1, 2} : n <= 2
    OBVIOUS
  <2> QED BY <2>1, <2>2, Zenon DEF HandlersDoNotNest
<1> QED BY <1>1, InterruptInvariant, PTL

\* The framebuffer console has one writer at a time.
THEOREM OneConsoleWriter == Spec => []ConsoleExclusive
<1>1. IInv => ConsoleExclusive
  <2> SUFFICES ASSUME IInv, NEW i \in DOMAIN stack, NEW j \in DOMAIN stack,
                      stack[i].pc = "console", stack[j].pc = "console"
               PROVE  i = j
    BY DEF ConsoleExclusive
  <2>1. Shape
    BY DEF IInv
  <2>2. i \in 1 .. Len(stack) /\ j \in 1 .. Len(stack)
    BY <2>1, TopFrame
  <2>3. Len(stack) = 2 => stack[1].pc # "console"
    BY <2>1 DEF Shape, HandlerSound
  <2> QED BY <2>1, <2>2, <2>3 DEF Shape
<1> QED BY <1>1, InterruptInvariant, PTL

\* Polling for an empty transmitter bounds the FIFO by one byte per frame.
THEOREM FifoBounded == Spec => []SerialNotOverrun
<1>1. IInv => SerialNotOverrun
  <2> SUFFICES ASSUME IInv PROVE SerialNotOverrun
    OBVIOUS
  <2>1. Out(1) \in {0, 1} /\ Out(2) \in {0, 1}
    BY DEF Out
  <2> QED BY <2>1 DEF IInv, Serial, SerialNotOverrun
<1> QED BY <1>1, InterruptInvariant, PTL

\* Every timer period is counted, about to be counted, or lost to a request
\* that was still pending.
THEOREM PeriodsAccounted == Spec => []TicksAccounted
<1>1. IInv => TicksAccounted
  <2> SUFFICES ASSUME IInv PROVE TicksAccounted
    OBVIOUS
  <2> DEFINE D == {i \in DOMAIN stack : /\ stack[i].who = TIMER_VECTOR
                                        /\ stack[i].pc = "dispatch"}
  <2>1. Shape /\ Ticks
    BY DEF IInv
  <2>2. Cardinality(irr \cap {TIMER_VECTOR}) = Pending
    <3>1. CASE TIMER_VECTOR \in irr
      <4>1. irr \cap {TIMER_VECTOR} = {TIMER_VECTOR}
        BY <3>1
      <4> QED BY <3>1, <4>1, FS_Singleton DEF Pending
    <3>2. CASE TIMER_VECTOR \notin irr
      <4>1. irr \cap {TIMER_VECTOR} = {}
        BY <3>2
      <4> QED BY <3>2, <4>1, FS_EmptySet DEF Pending
    <3> QED BY <3>1, <3>2
  <2>3. \A i \in D : i = 2 /\ Len(stack) = 2
    <3>1. stack[1].who # TIMER_VECTOR
      BY <2>1, VectorsBelow DEF Shape, MainSound
    <3> QED BY <2>1, <3>1, TopFrame DEF Shape
  <2>4. Cardinality(D) = Dispatching
    <3>1. CASE Dispatching = 1
      <4>1. 2 \in D
        BY <2>1, <3>1, TopFrame DEF Dispatching
      <4>2. D = {2}
        BY <2>3, <4>1
      <4> QED BY <3>1, <4>2, FS_Singleton
    <3>2. CASE Dispatching = 0
      <4>1. D = {}
        BY <2>3, <3>2 DEF Dispatching
      <4> QED BY <3>2, <4>1, FS_EmptySet
    <3> QED BY <3>1, <3>2 DEF Dispatching
  <2> HIDE DEF D
  <2>5. TICKS + lost + Cardinality(irr \cap {TIMER_VECTOR}) + Cardinality(D) = periods
    BY <2>1, <2>2, <2>4 DEF Ticks
  <2> QED BY <2>5 DEF TicksAccounted, D
<1> QED BY <1>1, InterruptInvariant, PTL

=============================================================================
