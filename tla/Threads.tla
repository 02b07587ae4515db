------------------------------ MODULE Threads ------------------------------
(***************************************************************************)
(* Processes, kernel threads and the cooperative context switch:           *)
(* src/src/process.rs, src/src/thread.rs and src/src/context.rs on one     *)
(* CPU.                                                                    *)
(*                                                                         *)
(* A thread is addressed as <<p, i>>, the i-th thread of process p.  Of the*)
(* saved registers the model keeps the two that differ between threads:    *)
(* the interrupt flag of RFLAGS and the resume point (the return address   *)
(* switch_context leaves on the stack), counted modulo RESUME_POINTS with  *)
(* 0 for the trampoline that starts the entry function.                    *)
(***************************************************************************)
EXTENDS Integers, FiniteSets, Sequences

CONSTANTS
  MAX_PID,         \* highest process id handed out
  MAX_THREAD_ID,   \* highest thread id handed out
  RESUME_POINTS    \* resume points told apart, entry included

ASSUME ThreadsAssumption ==
  /\ MAX_PID \in Nat /\ MAX_THREAD_ID \in Nat
  /\ RESUME_POINTS \in Nat /\ RESUME_POINTS > 1

VARIABLES
  procs,           \* the live Process values, by process id
  NEXT_PID,
  NEXT_THREAD_ID,
  cpu,             \* the thread on the CPU, its IF and where it executes
  left,            \* flag and point each thread left the CPU with (history)
  up,              \* APIC and timer are initialised
  halted           \* the CPU is in a hlt loop it never leaves

vars == <<procs, NEXT_PID, NEXT_THREAD_ID, cpu, left, up, halted>>

Pids == 0 .. MAX_PID
ThreadStates == {"Created", "Ready", "Running", "Terminated"}
ProcessStates == {"Created", "Running", "Terminated"}
Points == 0 .. RESUME_POINTS - 1
Registers == [iflag : BOOLEAN, rip : Points]

KernelThread == [id : 0 .. MAX_THREAD_ID, process_id : Pids, state : ThreadStates,
                 saved : BOOLEAN, frame : Registers]

ThreadsOf(p) == {p} \X DOMAIN procs[p].threads
AllThreads == UNION {ThreadsOf(p) : p \in DOMAIN procs}
Thread(t) == procs[t[1]].threads[t[2]]

\* ExecutionContext::empty(): rsp = rip = 0, nothing to resume.
EmptyContext == [iflag |-> TRUE, rip |-> 0]

bootstrap ==
  [state |-> "Running",
   threads |-> <<[id |-> 0, process_id |-> 0, state |-> "Running",
                  saved |-> FALSE, frame |-> EmptyContext]>>]

\* kernel_main has just executed cli().
Init ==
  /\ procs = [p \in {0} |-> bootstrap]
  /\ NEXT_PID = 1
  /\ NEXT_THREAD_ID = 1
  /\ cpu = [thread |-> <<0, 1>>, iflag |-> FALSE, rip |-> 0]
  /\ left = [t \in {} |-> EmptyContext]
  /\ up = FALSE
  /\ halted = FALSE

----------------------------------------------------------------------------
\* Process::new.  A failed AddressSpace::new returns an error and changes
\* nothing here.
process_new ==
  /\ ~halted
  /\ NEXT_PID <= MAX_PID
  /\ NEXT_PID' = NEXT_PID + 1
  /\ procs' = [p \in DOMAIN procs \cup {NEXT_PID} |->
                 IF p = NEXT_PID THEN [state |-> "Created", threads |-> <<>>]
                 ELSE procs[p]]
  /\ UNCHANGED <<NEXT_THREAD_ID, cpu, left, up, halted>>

\* create_context_raw: the frame switch_context will pop, RFLAGS = 0x202.
InitialFrame == [iflag |-> TRUE, rip |-> 0]

\* Mutated form of new_raw: the owner is the kernel process.
OwnedByKernel(p) ==
  [id |-> NEXT_THREAD_ID, process_id |-> 0, state |-> "Created",
   saved |-> TRUE, frame |-> InitialFrame]

new_raw(p) ==
  [id |-> NEXT_THREAD_ID, process_id |-> p, state |-> "Created",
   saved |-> TRUE, frame |-> InitialFrame]

\* Process::create_thread.  A failed stack allocation returns an error before
\* the thread id is drawn and changes nothing here.
create_thread(p) ==
  /\ ~halted
  /\ procs[p].state # "Terminated"
  /\ NEXT_THREAD_ID <= MAX_THREAD_ID
  /\ NEXT_THREAD_ID' = NEXT_THREAD_ID + 1
  /\ procs' = [procs EXCEPT ![p].threads = Append(@, new_raw(p))]
  /\ left' = [t \in DOMAIN left \cup {<<p, Len(procs[p].threads) + 1>>} |->
                IF t \in DOMAIN left THEN left[t] ELSE InitialFrame]
  /\ UNCHANGED <<NEXT_PID, cpu, up, halted>>

\* Process::terminate
terminate(p) ==
  /\ ~halted
  /\ procs' = [procs EXCEPT ![p] =
       [state |-> "Terminated",
        threads |-> [i \in DOMAIN @.threads |->
                       [@.threads[i] EXCEPT !.state = "Terminated"]]]]
  /\ UNCHANGED <<NEXT_PID, NEXT_THREAD_ID, cpu, left, up, halted>>

\* A Process value is dropped or overwritten, its threads with it.
drop_process(p) ==
  /\ ~halted
  /\ p # 0
  /\ cpu.thread[1] # p
  /\ procs' = [q \in DOMAIN procs \ {p} |-> procs[q]]
  /\ left' = [t \in {s \in DOMAIN left : s[1] # p} |-> left[t]]
  /\ UNCHANGED <<NEXT_PID, NEXT_THREAD_ID, cpu, up, halted>>

\* The error switch_to reports for a target, "" if it performs the switch.
SwitchError(t) ==
  CASE Thread(t).id = Thread(cpu.thread).id -> "SameThread"
    [] Thread(t).id # Thread(cpu.thread).id /\ Thread(t).state = "Terminated"
         -> "TargetTerminated"
    [] Thread(t).id # Thread(cpu.thread).id /\ Thread(t).state # "Terminated"
         /\ ~Thread(t).saved -> "InvalidStackPointer"
    [] OTHER -> ""

\* What switch_context pushes for the thread that leaves the CPU.
SavedRegisters == [iflag |-> cpu.iflag, rip |-> (cpu.rip % (RESUME_POINTS - 1)) + 1]

\* What switch_context pops for the thread that gets the CPU, and a mutated
\* form without popfq.
KeepsRflags(t) == [iflag |-> cpu.iflag, rip |-> Thread(t).frame.rip]
RestoredRegisters(t) == Thread(t).frame

\* The record of the thread that leaves, and a mutated form that does not
\* change its lifecycle state.
StillRunning(c) == [Thread(c) EXCEPT !.saved = TRUE, !.frame = SavedRegisters]
Suspended(c) ==
  [Thread(c) EXCEPT !.state = "Ready", !.saved = TRUE, !.frame = SavedRegisters]

switch_to(t) ==
  /\ ~halted
  /\ SwitchError(t) = ""
  /\ LET c == cpu.thread
     IN  /\ procs' = [procs EXCEPT ![c[1]].threads[c[2]] = Suspended(c),
                                   ![t[1]].threads[t[2]].state = "Running"]
         /\ left' = [s \in DOMAIN left \cup {c} |->
                       IF s = c
                       THEN [iflag |-> cpu.iflag,
                             rip |-> (cpu.rip % (RESUME_POINTS - 1)) + 1]
                       ELSE left[s]]
         /\ cpu' = [thread |-> t, iflag |-> RestoredRegisters(t).iflag,
                    rip |-> RestoredRegisters(t).rip]
  /\ UNCHANGED <<NEXT_PID, NEXT_THREAD_ID, up, halted>>

\* switch_or_halt on a rejected switch.
SwitchRejected(t) ==
  /\ ~halted
  /\ SwitchError(t) # ""
  /\ halted' = TRUE
  /\ UNCHANGED <<procs, NEXT_PID, NEXT_THREAD_ID, cpu, left, up>>

\* The entry function returned to the trampoline.
kernel_context_exit ==
  /\ ~halted
  /\ Thread(cpu.thread).id # 0
  /\ halted' = TRUE
  /\ UNCHANGED <<procs, NEXT_PID, NEXT_THREAD_ID, cpu, left, up>>

\* The bootstrap thread ends kernel_main: APIC, timer, then sti().
sti ==
  /\ ~halted
  /\ cpu.thread = <<0, 1>>
  /\ ~up
  /\ up' = TRUE
  /\ cpu' = [cpu EXCEPT !.iflag = TRUE]
  /\ UNCHANGED <<procs, NEXT_PID, NEXT_THREAD_ID, left, halted>>

Step ==
  \/ process_new
  \/ \E p \in DOMAIN procs : create_thread(p) \/ drop_process(p)
  \/ \E t \in AllThreads : switch_to(t) \/ SwitchRejected(t)
  \/ kernel_context_exit
  \/ sti

\* A process is terminated by a thread of another one, as at the kernel's only
\* call site; switch_to would make a thread that terminated itself Ready again.
Next == Step \/ \E p \in DOMAIN procs \ {cpu.thread[1]} : terminate(p)

Spec == Init /\ [][Next]_vars

----------------------------------------------------------------------------
\* Every variable keeps the type of what it models.
TypeOK ==
  /\ DOMAIN procs \subseteq Pids
  /\ \A p \in DOMAIN procs :
       procs[p] \in [state : ProcessStates, threads : Seq(KernelThread)]
  /\ NEXT_PID \in 1 .. MAX_PID + 1
  /\ NEXT_THREAD_ID \in 1 .. MAX_THREAD_ID + 1
  /\ cpu \in [thread : Pids \X Nat, iflag : BOOLEAN, rip : Points]
  /\ cpu.thread \in AllThreads
  /\ DOMAIN left \subseteq AllThreads
  /\ up \in BOOLEAN /\ halted \in BOOLEAN

\* Process::verify for every live process: a terminated process has no running
\* thread, every thread carries its process's id, and thread ids are unique.
verify ==
  \A p \in DOMAIN procs :
    LET ts == procs[p].threads
    IN  /\ procs[p].state = "Terminated" =>
             \A i \in DOMAIN ts : ts[i].state # "Running"
        /\ \A i \in DOMAIN ts : ts[i].process_id = p
        /\ \A i, j \in DOMAIN ts : i # j => ts[i].id # ts[j].id

\* The lifecycle states agree with the CPU: exactly the thread that executes is
\* marked Running, so a switch's `current` is always the running thread.
OneRunning == {t \in AllThreads : Thread(t).state = "Running"} = {cpu.thread}

\* A thread that gets the CPU continues right after the switch_to it left with,
\* under its own interrupt flag, whatever the other threads did meanwhile.
ResumePointIntegrity ==
  [][cpu'.thread # cpu.thread =>
       [iflag |-> cpu'.iflag, rip |-> cpu'.rip] = left[cpu'.thread]]_vars
=============================================================================
