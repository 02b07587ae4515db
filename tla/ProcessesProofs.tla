-------------------------- MODULE ProcessesProofs --------------------------
(***************************************************************************)
(* Processes with their address spaces and stacks implement the processes  *)
(* and threads of module Threads: memory that runs out, full registries    *)
(* and teardowns only decide which of their steps happen.  What is proved  *)
(* of Threads for all its constants thereby holds for the composition.     *)
(***************************************************************************)
EXTENDS Processes, ThreadsProofs

\* Each step of the composition is a step of the threads or leaves them alone.
LEMMA StepRefines == [ProcessesNext]_allVars => [Next]_vars
<1> SUFFICES ASSUME [ProcessesNext]_allVars PROVE [Next]_vars
  OBVIOUS
<1>1. \A p \in Held : p \in DOMAIN procs
  BY DEF Held
<1>2. HeldThreads \subseteq AllThreads
  BY <1>1 DEF HeldThreads, AllThreads
<1>3. CASE Process_new
  BY <1>3 DEF Process_new, Next, Step
<1>4. ASSUME NEW p \in Held, Process_create_thread(p) PROVE Next
  BY <1>1, <1>4 DEF Process_create_thread, Next, Step
<1>5. ASSUME NEW p \in Held, Process_create_thread_fails(p) PROVE UNCHANGED vars
  BY <1>5 DEF Process_create_thread_fails
<1>6. ASSUME NEW p \in Held, Dropped(p) PROVE Next
  BY <1>1, <1>6 DEF Dropped, Next, Step
<1>7. ASSUME NEW p \in Held, Process_drop(p) PROVE Next
  BY <1>6, <1>7 DEF Process_drop
<1>8. ASSUME NEW p \in Held, register_process(p) PROVE Next \/ UNCHANGED vars
  BY <1>6, <1>8 DEF register_process
<1>9. ASSUME NEW p \in Held, Process_activate(p) \/ Process_map(p)
      PROVE  UNCHANGED vars
  BY <1>9 DEF Process_activate, Process_map
<1>10. CASE Heap_grows
  BY <1>10 DEF Heap_grows
<1>11. CASE OnlyThreads
  BY <1>1, <1>2, <1>11 DEF OnlyThreads, Next, Step
<1>12. CASE UNCHANGED allVars
  BY <1>12 DEF allVars
<1> QED BY <1>3, <1>4, <1>5, <1>7, <1>8, <1>9, <1>10, <1>11, <1>12
        DEF ProcessesNext

\* Process::new, create_thread, terminate, register_process and drop, with
\* everything they do to memory, implement the processes and threads of Threads.
THEOREM ProcessesImplementThreads == ProcessesSpec => Spec
<1>1. ProcessesInit => Init
  BY DEF ProcessesInit
<1> QED BY <1>1, StepRefines, PTL DEF ProcessesSpec, Spec

\* Process::verify holds of every process, however its creation, its stacks
\* and its teardown fared.
THEOREM ComposedVerify == ProcessesSpec => []verify
  BY ProcessesImplementThreads, ProcessesVerified, PTL

\* Exactly the thread that executes is marked Running.
THEOREM ComposedOneRunning == ProcessesSpec => []OneRunning
  BY ProcessesImplementThreads, OneThreadRunning, PTL

\* A thread that gets the CPU continues where it left it, with its own
\* interrupt flag.
THEOREM ComposedResume == ProcessesSpec => ResumePointIntegrity
  BY ProcessesImplementThreads, ResumesWhereLeft, PTL
=============================================================================
