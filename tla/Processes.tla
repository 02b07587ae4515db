----------------------------- MODULE Processes -----------------------------
(***************************************************************************)
(* Processes as the kernel builds them (src/src/process.rs): the threads   *)
(* and processes of module Threads, each process with an address space of  *)
(* module AddressSpace, each thread with a stack from the dynamic regions  *)
(* of module KernelVM, all on the same page tables and page allocator.     *)
(*                                                                         *)
(* What only the composition shows: Process::new fails with its address    *)
(* space, create_thread with its stack; a process that is dropped takes    *)
(* its address space with it, active or not, and leaves its stacks mapped  *)
(* (KernelThread has no Drop); switch_to changes the stack and not CR3.    *)
(***************************************************************************)
EXTENDS Threads

CONSTANTS
  Index, NoFrame, KERNEL_PML4_START, KernelRoot, LowPdpt, Pool,
  Leaves, PrivateVA,              \* as in AddressSpace
  DYNAMIC_PAGES, MAX_VIRT_REGIONS, MAX_RUN, HEAP_INITIAL_PAGES,
                                  \* as in KernelVM
  STACK_PAGES,                    \* STACK_SIZE_BYTES in pages
  MAX_PROCESSES                   \* slots of the process registry

VARIABLES
  mem, free,                      \* page tables and PMM, shared by all parts
  root, NEXT_ASID, CURRENT_ASID, cr3,
  regions, next_dynamic_addr, heap_end,
  stack,                          \* the stack region of thread id i
  address_space,                  \* the address space id of each process
  registered                      \* processes moved into the registry

pages == <<mem, free>>
spaces == <<root, NEXT_ASID, CURRENT_ASID, cr3>>
dynamic == <<regions, next_dynamic_addr, heap_end, stack>>
allVars == <<vars, pages, spaces, dynamic, address_space, registered>>

\* The TLB is left to AddressSpace.
AS == INSTANCE AddressSpace
        WITH MaxAsid <- MAX_PID, KernelVA <- {}, tlb <- {}
VM == INSTANCE KernelVM
        WITH Root <- KernelRoot, Sizes <- {STACK_PAGES},
             handles <- {stack[i] : i \in DOMAIN stack}

ASSUME ProcessesAssumption ==
  /\ STACK_PAGES \in Nat \ {0} /\ MAX_PROCESSES \in Nat
  /\ KERNEL_PML4_START \in Index \ {0}

\* Processes somebody can still name: the registry has no accessor.
Held == DOMAIN procs \ registered
HeldThreads == UNION {ThreadsOf(p) : p \in Held}

\* The bootstrap process after heap::init.
ProcessesInit ==
  LET frames == VM!TakeFrames(AS!FreeAfterInit, HEAP_INITIAL_PAGES)
      s == VM!MapRun(AS!KernelMemory, AS!FreeAfterInit \ VM!Range(frames), 0, frames)
  IN  /\ Init
      /\ mem = s.mem /\ free = s.free
      /\ root = [id \in AS!Asids |-> NoFrame]
      /\ NEXT_ASID = 1 /\ CURRENT_ASID = 0 /\ cr3 = KernelRoot
      /\ regions = {[start |-> 0, pages |-> HEAP_INITIAL_PAGES]}
      /\ next_dynamic_addr = HEAP_INITIAL_PAGES
      /\ heap_end = HEAP_INITIAL_PAGES
      /\ stack = <<>>
      /\ address_space = [p \in {0} |-> 0]
      /\ registered = {}

----------------------------------------------------------------------------
\* Process::new: the address space first, then the process id.  Without a
\* frame for the root nothing changes.
Process_new ==
  /\ process_new
  /\ AS!new
  /\ address_space' = [p \in DOMAIN address_space \cup {NEXT_PID} |->
                         IF p = NEXT_PID THEN NEXT_ASID ELSE address_space[p]]
  /\ UNCHANGED <<dynamic, registered>>

\* KernelStack::allocate.
StackAllocated == /\ stack' = Append(stack, VM!Reserved(STACK_PAGES))
                  /\ VM!allocate_and_map_region(STACK_PAGES)
StackFails == /\ UNCHANGED stack
              /\ VM!allocate_and_map_region(STACK_PAGES)

\* Process::create_thread with the stack new_raw allocates.  When the frames
\* or the tables run out the thread is not created; what the attempt costs is
\* KernelVM's.
Process_create_thread(p) ==
  /\ create_thread(p) /\ StackAllocated
  /\ UNCHANGED <<spaces, address_space, registered>>

Process_create_thread_fails(p) ==
  /\ ~halted /\ procs[p].state # "Terminated"
  /\ StackFails
  /\ UNCHANGED <<vars, spaces, address_space, registered>>

\* The fields of a Process value are dropped: threads without their stacks,
\* the address space through destroy.
Dropped(p) ==
  /\ drop_process(p)
  /\ AS!destroy(address_space[p])
  /\ address_space' = [q \in DOMAIN address_space \ {p} |-> address_space[q]]
  /\ UNCHANGED dynamic

Process_drop(p) == Dropped(p) /\ UNCHANGED registered

\* register_process takes the value; a full registry drops it.
register_process(p) ==
  /\ ~halted /\ p # 0 /\ cpu.thread[1] # p
  /\ IF Cardinality(registered) >= MAX_PROCESSES
     THEN Dropped(p) /\ UNCHANGED registered
     ELSE /\ registered' = registered \cup {p}
          /\ UNCHANGED <<vars, pages, spaces, dynamic, address_space>>

\* The address space of a process is made the active one.
Process_activate(p) ==
  /\ ~halted
  /\ AS!Activate(IF p = 0 THEN KernelRoot ELSE root[address_space[p]],
                 address_space[p])
  /\ UNCHANGED <<vars, pages, root, NEXT_ASID, dynamic, address_space, registered>>

\* Private pages of a process.
Process_map(p) ==
  /\ ~halted /\ p # 0
  /\ \E va \in PrivateVA, f \in Leaves :
       \/ AS!as_map_page(address_space[p], va, f)
       \/ AS!as_unmap_page(address_space[p], va)
  /\ UNCHANGED <<vars, dynamic, address_space, registered>>

\* The heap grows by one page, whichever thread allocates.
Heap_grows ==
  /\ ~halted
  /\ UNCHANGED <<vars, spaces, stack, address_space, registered>>
  /\ VM!expand_heap(1)

\* Switching, terminating and halting touch no memory: CR3 stays.
OnlyThreads ==
  /\ \/ \E t \in HeldThreads : switch_to(t) \/ SwitchRejected(t)
     \/ \E p \in Held \ {cpu.thread[1]} : terminate(p)
     \/ kernel_context_exit
     \/ sti
  /\ UNCHANGED <<pages, spaces, dynamic, address_space, registered>>

ProcessesNext ==
  \/ Process_new
  \/ \E p \in Held :
       \/ Process_create_thread(p) \/ Process_create_thread_fails(p)
       \/ Process_drop(p) \/ register_process(p)
       \/ Process_activate(p) \/ Process_map(p)
  \/ Heap_grows
  \/ OnlyThreads

ProcessesSpec == ProcessesInit /\ [][ProcessesNext]_allVars

----------------------------------------------------------------------------
\* The roots CR3 can hold, now or after an activate.
Roots == {KernelRoot} \cup {root[id] : id \in AS!Live}

\* The pages of a region.
PagesOf(r) == VM!PageSet(r.start, r.pages)

\* The stack switch_to moves to is there: every page of the stack of every
\* live thread is mapped, onto the same frame, through every root CR3 may hold,
\* so a thread can be resumed under any process's address space, although its
\* stack may be younger than the space and switch_to loads no CR3.
StacksReachable ==
  \A t \in AllThreads \ {<<0, 1>>}, r \in Roots :
    \A p \in PagesOf(stack[Thread(t).id]) :
      LET f == AS!translate(mem, r, VM!VirtAddr(p))
      IN  f # NoFrame /\ f = AS!translate(mem, KernelRoot, VM!VirtAddr(p))

\* The address spaces are those of the live processes, one each, and the
\* active one is among them or the kernel's: a process dropped while its space
\* is active, by its owner or by a full registry, takes the CPU off it.
SpacesFollowProcesses ==
  /\ AS!Live = {address_space[p] : p \in DOMAIN procs \ {0}}
  /\ \A p, q \in DOMAIN procs : address_space[p] = address_space[q] => p = q
  /\ \E p \in DOMAIN procs :
       /\ address_space[p] = CURRENT_ASID
       /\ cr3 = IF p = 0 THEN KernelRoot ELSE root[address_space[p]]

StackFrames == {AS!translate(mem, KernelRoot, VM!VirtAddr(p)) :
                  p \in UNION {PagesOf(stack[i]) : i \in DOMAIN stack}}
HeapFrames == {AS!translate(mem, KernelRoot, VM!VirtAddr(p)) :
                 p \in VM!PageSet(0, heap_end)}
OwnedTables == UNION {AS!Owned(id) : id \in AS!Live}

\* Where the frames are: free, in the kernel's tables, in the tables of a live
\* process, in the heap, or in one stack per thread ever created, and in one of
\* these only.  Stacks are the one thing a dropped process does not give back;
\* failed creations cost none.
FramesBudgeted ==
  /\ Len(stack) = NEXT_THREAD_ID - 1
  /\ Pool = free \cup (AS!KernelTables \cap Pool) \cup OwnedTables
              \cup HeapFrames \cup StackFrames
  /\ Cardinality(Pool) =
       Cardinality(free) + Cardinality(AS!KernelTables \cap Pool)
         + Cardinality(OwnedTables) + heap_end + STACK_PAGES * (NEXT_THREAD_ID - 1)
=============================================================================
