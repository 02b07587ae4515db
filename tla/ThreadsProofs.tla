--------------------------- MODULE ThreadsProofs ---------------------------
(***************************************************************************)
(* Proofs about processes, threads and the context switch, for any number  *)
(* of processes, threads and resume points.  None of the properties is     *)
(* inductive by itself: that a switch leaves one running thread needs      *)
(* thread ids to be unique over all processes (switch_to compares ids, not *)
(* positions), and that a thread resumes where it left needs every saved   *)
(* frame to be the one its thread left with.                               *)
(***************************************************************************)
EXTENDS Threads, SequenceTheorems, TLAPS

\* The i-th thread of process p.
T(p, i) == procs[p].threads[i]
Slots(p) == DOMAIN procs[p].threads

\* What the code maintains for each thread.
ThreadSound(p, i) ==
  /\ T(p, i).process_id = p
  /\ T(p, i).id < NEXT_THREAD_ID
  /\ T(p, i).state = "Running" <=> <<p, i>> = cpu.thread
  /\ procs[p].state = "Terminated" => T(p, i).state = "Terminated"
  /\ T(p, i).saved => /\ <<p, i>> \in DOMAIN left
                      /\ left[<<p, i>>] = T(p, i).frame

IdsUnique ==
  \A p, q \in DOMAIN procs : \A i \in Slots(p), j \in Slots(q) :
    T(p, i).id = T(q, j).id => p = q /\ i = j

IInv ==
  /\ TypeOK
  /\ \A p \in DOMAIN procs : p < NEXT_PID
  /\ \A p \in DOMAIN procs : \A i \in Slots(p) : ThreadSound(p, i)
  /\ IdsUnique

----------------------------------------------------------------------------
(* Threads as positions in a table of processes.                            *)

ThreadsIn(ps) == UNION {{p} \X DOMAIN ps[p].threads : p \in DOMAIN ps}

LEMMA Positions ==
  ASSUME NEW ps
  PROVE  /\ \A p, i : <<p, i>> \in ThreadsIn(ps)
                        <=> p \in DOMAIN ps /\ i \in DOMAIN ps[p].threads
         /\ \A t \in ThreadsIn(ps) : /\ t = <<t[1], t[2]>>
                                     /\ t[1] \in DOMAIN ps
                                     /\ t[2] \in DOMAIN ps[t[1]].threads
  BY DEF ThreadsIn

LEMMA ThreadsNow == AllThreads = ThreadsIn(procs)
  BY DEF AllThreads, ThreadsOf, ThreadsIn

LEMMA ThreadsThen == AllThreads' = ThreadsIn(procs')
  BY DEF AllThreads, ThreadsOf, ThreadsIn

\* A saved program counter is a resume point.
LEMMA NextPoint ==
  ASSUME NEW x \in Points
  PROVE  (x % (RESUME_POINTS - 1)) + 1 \in Points
<1>1. /\ RESUME_POINTS - 1 \in Nat \ {0} /\ x \in Nat /\ RESUME_POINTS \in Nat
  BY ThreadsAssumption DEF Points
<1> DEFINE r == RESUME_POINTS - 1
<1>2. x % r \in 0 .. r - 1
  BY <1>1
<1> HIDE DEF r
<1>3. (x % r) + 1 \in 1 .. r
  BY <1>1, <1>2 DEF r
<1> QED BY <1>1, <1>3 DEF Points, r

\* Typing facts about single threads.
LEMMA ThreadTypes ==
  ASSUME TypeOK
  PROVE  /\ \A p \in DOMAIN procs :
              /\ p \in Nat /\ p <= MAX_PID
              /\ procs[p].threads \in Seq(KernelThread)
              /\ procs[p].state \in ProcessStates
              /\ procs[p] = [state |-> procs[p].state, threads |-> procs[p].threads]
              /\ Slots(p) = 1 .. Len(procs[p].threads)
              /\ Len(procs[p].threads) \in Nat
              /\ \A i \in Slots(p) : T(p, i) \in KernelThread /\ i \in Nat
         /\ NEXT_PID \in Nat /\ NEXT_THREAD_ID \in Nat
  BY ThreadsAssumption DEF TypeOK, Slots, T, Pids

----------------------------------------------------------------------------
\* The bootstrap process satisfies the invariant.
LEMMA InitInv == Init => IInv
<1> SUFFICES ASSUME Init PROVE IInv
  OBVIOUS
<1> DEFINE k == [id |-> 0, process_id |-> 0, state |-> "Running",
                 saved |-> FALSE, frame |-> EmptyContext]
<1>1. /\ DOMAIN procs = {0} /\ procs[0].threads = <<k>>
      /\ procs[0].state = "Running"
      /\ procs[0] = [state |-> "Running", threads |-> <<k>>]
  BY DEF Init, bootstrap
<1>2. EmptyContext \in Registers /\ 0 \in Points
  BY ThreadsAssumption DEF EmptyContext, Registers, Points
<1>3. k \in KernelThread
  <2>1. 0 \in 0 .. MAX_THREAD_ID /\ 0 \in Pids /\ "Running" \in ThreadStates
    BY ThreadsAssumption DEF Pids, ThreadStates
  <2> QED BY <1>2, <2>1, Zenon DEF KernelThread
<1>4. k.id = 0 /\ k.process_id = 0 /\ k.state = "Running" /\ ~k.saved
  OBVIOUS
<1> HIDE DEF k
<1>5. /\ procs[0].threads \in Seq(KernelThread)
      /\ Slots(0) = {1} /\ T(0, 1) = k
  BY <1>1, <1>3 DEF Slots, T
<1>6. AllThreads = {<<0, 1>>}
  BY <1>1, <1>5 DEF AllThreads, ThreadsOf, Slots
<1>7. cpu \in [thread : Pids \X Nat, iflag : BOOLEAN, rip : Points]
  BY <1>2, ThreadsAssumption DEF Init, Pids
<1>8. cpu.thread = <<0, 1>> /\ NEXT_PID = 1 /\ NEXT_THREAD_ID = 1
  BY DEF Init
<1>9. TypeOK
  <2>1. DOMAIN procs \subseteq Pids
    BY <1>1, ThreadsAssumption DEF Pids
  <2>2. procs[0] \in [state : ProcessStates, threads : Seq(KernelThread)]
    BY <1>1, <1>5 DEF ProcessStates
  <2>3. NEXT_PID \in 1 .. MAX_PID + 1 /\ NEXT_THREAD_ID \in 1 .. MAX_THREAD_ID + 1
    BY <1>8, ThreadsAssumption
  <2>4. DOMAIN left \subseteq AllThreads /\ up \in BOOLEAN /\ halted \in BOOLEAN
    BY DEF Init
  <2> QED BY <1>1, <1>6, <1>7, <1>8, <2>1, <2>2, <2>3, <2>4, Zenon DEF TypeOK
<1>10. ThreadSound(0, 1)
  BY <1>1, <1>4, <1>5, <1>8 DEF ThreadSound
<1> QED BY <1>1, <1>5, <1>8, <1>9, <1>10 DEF IInv, IdsUnique

----------------------------------------------------------------------------
\* Process::new preserves the invariant: a fresh id, and no thread yet.
LEMMA NewInv == IInv /\ process_new => IInv'
<1> SUFFICES ASSUME IInv, process_new PROVE IInv'
  OBVIOUS
<1> USE DEF T, Slots
<1>1. TypeOK
  BY DEF IInv
<1>2. /\ NEXT_PID \notin DOMAIN procs /\ NEXT_PID \in Pids
      /\ NEXT_PID' = NEXT_PID + 1 /\ NEXT_PID' \in 1 .. MAX_PID + 1
  BY <1>1, ThreadTypes, ThreadsAssumption DEF IInv, process_new, Pids, TypeOK
<1>3. /\ DOMAIN procs' = DOMAIN procs \cup {NEXT_PID}
      /\ procs'[NEXT_PID] = [state |-> "Created", threads |-> <<>>]
      /\ DOMAIN procs'[NEXT_PID].threads = {}
      /\ \A p \in DOMAIN procs : procs'[p] = procs[p]
  BY <1>2 DEF process_new
<1>4. UNCHANGED <<NEXT_THREAD_ID, cpu, left, up, halted>>
  BY DEF process_new
<1>5. AllThreads' = AllThreads
  BY <1>3 DEF AllThreads, ThreadsOf
<1>6. TypeOK'
  <2>1. <<>> \in Seq(KernelThread)
    OBVIOUS
  <2>2. procs'[NEXT_PID] \in [state : ProcessStates, threads : Seq(KernelThread)]
    BY <1>3, <2>1 DEF ProcessStates
  <2>3. \A p \in DOMAIN procs' :
          procs'[p] \in [state : ProcessStates, threads : Seq(KernelThread)]
    BY <1>1, <1>3, <2>2, Zenon DEF TypeOK
  <2> QED BY <1>1, <1>2, <1>3, <1>4, <1>5, <2>3 DEF TypeOK
<1>7. \A p \in DOMAIN procs' : p < NEXT_PID'
  BY <1>1, <1>2, <1>3, ThreadTypes DEF IInv
<1>8. \A p \in DOMAIN procs' : \A i \in Slots(p)' : ThreadSound(p, i)'
  <2> SUFFICES ASSUME NEW p \in DOMAIN procs', NEW i \in Slots(p)'
               PROVE  ThreadSound(p, i)'
    OBVIOUS
  <2>1. p \in DOMAIN procs /\ i \in Slots(p) /\ procs'[p] = procs[p]
    BY <1>3
  <2>2. ThreadSound(p, i)
    BY <2>1 DEF IInv
  <2> QED BY <1>4, <2>1, <2>2 DEF ThreadSound
<1>9. IdsUnique'
  BY <1>3 DEF IInv, IdsUnique
<1> QED BY <1>6, <1>7, <1>8, <1>9 DEF IInv

\* Process::create_thread preserves the invariant: the new thread's id is
\* above all others and its frame is the one it starts from.
LEMMA CreateInv ==
  ASSUME IInv, NEW p \in DOMAIN procs, create_thread(p)
  PROVE  IInv'
<1> USE DEF T, Slots
<1> DEFINE n == Len(procs[p].threads) + 1
           k == new_raw(p)
<1>1. TypeOK
  BY DEF IInv
<1>2. /\ k \in KernelThread
      /\ k.id = NEXT_THREAD_ID /\ k.process_id = p /\ k.state = "Created"
      /\ k.frame = InitialFrame
  <2>1. InitialFrame \in Registers
    BY ThreadsAssumption DEF InitialFrame, Registers, Points
  <2>2. /\ NEXT_THREAD_ID \in 0 .. MAX_THREAD_ID /\ p \in Pids
        /\ "Created" \in ThreadStates
    BY <1>1, ThreadsAssumption DEF TypeOK, create_thread, ThreadStates
  <2>3. k \in KernelThread
    BY <2>1, <2>2, Zenon DEF new_raw, KernelThread
  <2> QED BY <2>3 DEF new_raw
<1> HIDE DEF k
<1>3. /\ DOMAIN procs' = DOMAIN procs
      /\ \A q \in DOMAIN procs \ {p} : procs'[q] = procs[q]
      /\ procs'[p].state = procs[p].state
      /\ procs'[p].threads = Append(procs[p].threads, k)
      /\ procs'[p] = [state |-> procs[p].state, threads |-> Append(procs[p].threads, k)]
  <2>1. procs' = [procs EXCEPT ![p].threads = Append(@, k)]
    BY Zenon DEF create_thread, k
  <2>2. procs[p] = [state |-> procs[p].state, threads |-> procs[p].threads]
    BY <1>1, ThreadTypes
  <2> QED BY <2>1, <2>2
<1>4. /\ n \in Nat /\ n \notin Slots(p)
      /\ DOMAIN procs'[p].threads = Slots(p) \cup {n}
      /\ procs'[p].threads[n] = k
      /\ \A i \in Slots(p) : procs'[p].threads[i] = procs[p].threads[i]
  BY <1>1, <1>2, <1>3, ThreadTypes
<1> HIDE DEF n
<1>5. /\ NEXT_THREAD_ID' = NEXT_THREAD_ID + 1
      /\ NEXT_THREAD_ID' \in 1 .. MAX_THREAD_ID + 1
      /\ UNCHANGED <<NEXT_PID, cpu, up, halted>>
      /\ procs[p].state # "Terminated"
  BY <1>1, ThreadsAssumption DEF create_thread, TypeOK
<1>6. AllThreads' = AllThreads \cup {<<p, n>>} /\ <<p, n>> \notin AllThreads
  BY <1>3, <1>4 DEF AllThreads, ThreadsOf
<1>7. /\ DOMAIN left' = DOMAIN left \cup {<<p, n>>}
      /\ \A t \in DOMAIN left : left'[t] = left[t]
      /\ left'[<<p, n>>] = InitialFrame
  BY <1>1, <1>6 DEF create_thread, TypeOK, n
<1>8. TypeOK'
  <2>1. \A q \in DOMAIN procs' :
          procs'[q] \in [state : ProcessStates, threads : Seq(KernelThread)]
    <3>1. /\ Append(procs[p].threads, k) \in Seq(KernelThread)
          /\ procs[p].state \in ProcessStates
      BY <1>1, <1>2, ThreadTypes
    <3>2. procs'[p] \in [state : ProcessStates, threads : Seq(KernelThread)]
      BY <1>3, <3>1
    <3> QED BY <1>1, <1>3, <3>2 DEF TypeOK
  <2> QED BY <1>1, <1>3, <1>5, <1>6, <1>7, <2>1 DEF TypeOK
<1>9. \A q \in DOMAIN procs' : q < NEXT_PID'
  BY <1>3, <1>5 DEF IInv
<1>10. ASSUME NEW q \in DOMAIN procs', NEW i \in Slots(q)'
       PROVE  ThreadSound(q, i)'
  <2>1. CASE <<q, i>> = <<p, n>>
    <3>1. q = p /\ i = n /\ procs'[q].threads[i] = k
      BY <1>4, <2>1
    <3>2. <<p, n>> # cpu'.thread
      BY <1>1, <1>5, <1>6 DEF TypeOK
    <3>3. NEXT_THREAD_ID < NEXT_THREAD_ID'
      BY <1>1, <1>5, ThreadTypes
    <3> QED BY <1>2, <1>3, <1>5, <1>7, <3>1, <3>2, <3>3 DEF ThreadSound
  <2>2. CASE <<q, i>> # <<p, n>>
    <3>1. i \in Slots(q) /\ procs'[q].threads[i] = procs[q].threads[i]
          /\ procs'[q].state = procs[q].state /\ q \in DOMAIN procs
      BY <1>3, <1>4, <2>2
    <3>2. ThreadSound(q, i)
      BY <3>1 DEF IInv
    <3>3. procs[q].threads[i].id \in Nat
      BY <1>1, <3>1, ThreadTypes, ThreadsAssumption DEF KernelThread
    <3> QED BY <1>1, <1>5, <1>7, <3>1, <3>2, <3>3, ThreadTypes DEF ThreadSound
  <2> QED BY <2>1, <2>2
<1>11. IdsUnique'
  <2> SUFFICES ASSUME NEW q \in DOMAIN procs', NEW r \in DOMAIN procs',
                      NEW i \in Slots(q)', NEW j \in Slots(r)',
                      procs'[q].threads[i].id = procs'[r].threads[j].id
               PROVE  q = r /\ i = j
    BY DEF IdsUnique
  <2>1. \A s \in DOMAIN procs : \A l \in Slots(s) : procs[s].threads[l].id < NEXT_THREAD_ID
    BY DEF IInv, ThreadSound
  <2>2. \A s \in DOMAIN procs' : \A l \in Slots(s)' :
          \/ s = p /\ l = n /\ procs'[s].threads[l].id = NEXT_THREAD_ID
          \/ /\ s \in DOMAIN procs /\ l \in Slots(s)
             /\ procs'[s].threads[l].id = procs[s].threads[l].id
             /\ procs[s].threads[l].id < NEXT_THREAD_ID
    BY <1>2, <1>3, <1>4, <2>1
  <2>3. NEXT_THREAD_ID \in Nat
    BY <1>1, ThreadTypes
  <2> QED BY <2>2, <2>3 DEF IInv, IdsUnique
<1> QED BY <1>8, <1>9, <1>10, <1>11 DEF IInv

\* Process::terminate, called by a thread of another process, preserves the
\* invariant: it changes lifecycle states only, and none is Running.
LEMMA TerminateInv ==
  ASSUME IInv, NEW p \in DOMAIN procs, p # cpu.thread[1], terminate(p)
  PROVE  IInv'
<1> USE DEF T, Slots
<1> DEFINE dead == [i \in DOMAIN procs[p].threads |->
                      [procs[p].threads[i] EXCEPT !.state = "Terminated"]]
<1>1. TypeOK
  BY DEF IInv
<1>2. /\ DOMAIN procs' = DOMAIN procs
      /\ \A q \in DOMAIN procs \ {p} : procs'[q] = procs[q]
      /\ procs'[p] = [state |-> "Terminated", threads |-> dead]
      /\ UNCHANGED <<NEXT_PID, NEXT_THREAD_ID, cpu, left, up, halted>>
  BY DEF terminate
<1>3. /\ DOMAIN dead = Slots(p)
      /\ \A i \in Slots(p) :
           /\ dead[i] \in KernelThread
           /\ dead[i].state = "Terminated"
           /\ dead[i].id = procs[p].threads[i].id
           /\ dead[i].process_id = procs[p].threads[i].process_id
           /\ dead[i].saved = procs[p].threads[i].saved
           /\ dead[i].frame = procs[p].threads[i].frame
  <2> SUFFICES ASSUME NEW i \in Slots(p)
               PROVE  /\ dead[i] \in KernelThread
                      /\ dead[i].state = "Terminated"
                      /\ dead[i].id = procs[p].threads[i].id
                      /\ dead[i].process_id = procs[p].threads[i].process_id
                      /\ dead[i].saved = procs[p].threads[i].saved
                      /\ dead[i].frame = procs[p].threads[i].frame
    OBVIOUS
  <2>1. procs[p].threads[i] \in KernelThread
    BY <1>1, ThreadTypes
  <2>2. dead[i] = [procs[p].threads[i] EXCEPT !.state = "Terminated"]
    OBVIOUS
  <2>3. "Terminated" \in ThreadStates
    BY DEF ThreadStates
  <2> HIDE DEF dead
  <2> QED BY <2>1, <2>2, <2>3 DEF KernelThread
<1>4. dead \in Seq(KernelThread)
  <2>1. /\ Slots(p) = 1 .. Len(procs[p].threads) /\ Len(procs[p].threads) \in Nat
    BY <1>1, ThreadTypes
  <2>2. dead = [i \in 1 .. Len(procs[p].threads) |-> dead[i]]
    BY <2>1
  <2> HIDE DEF dead
  <2>3. dead \in [1 .. Len(procs[p].threads) -> KernelThread]
    BY <1>3, <2>1, <2>2
  <2> QED BY <2>1, <2>3, SeqDef
<1> HIDE DEF dead
<1>5. \A q \in DOMAIN procs' : Slots(q)' = Slots(q)
  BY <1>2, <1>3
<1>6. AllThreads' = AllThreads
  BY <1>2, <1>5 DEF AllThreads, ThreadsOf
<1>7. TypeOK'
  <2>1. procs'[p] \in [state : ProcessStates, threads : Seq(KernelThread)]
    BY <1>2, <1>4 DEF ProcessStates
  <2> QED BY <1>1, <1>2, <1>6, <2>1 DEF TypeOK
<1>8. ASSUME NEW q \in DOMAIN procs', NEW i \in Slots(q)'
      PROVE  ThreadSound(q, i)'
  <2>1. ThreadSound(q, i) /\ i \in Slots(q) /\ q \in DOMAIN procs
    BY <1>2, <1>5 DEF IInv
  <2>2. CASE q = p
    <3>1. <<q, i>> # cpu.thread
      BY <2>2
    <3>2. procs'[q].threads[i] = dead[i]
      BY <1>2, <2>2
    <3>3. /\ dead[i].state = "Terminated"
          /\ dead[i].id = procs[q].threads[i].id
          /\ dead[i].process_id = procs[q].threads[i].process_id
          /\ dead[i].saved = procs[q].threads[i].saved
          /\ dead[i].frame = procs[q].threads[i].frame
      BY <1>3, <2>1, <2>2
    <3> QED BY <1>2, <2>1, <3>1, <3>2, <3>3 DEF ThreadSound
  <2>3. CASE q # p
    BY <1>2, <2>1, <2>3 DEF ThreadSound
  <2> QED BY <2>2, <2>3
<1>9. IdsUnique'
  <2>1. \A q \in DOMAIN procs' : \A i \in Slots(q)' :
          procs'[q].threads[i].id = procs[q].threads[i].id
    BY <1>2, <1>3, <1>5
  <2> QED BY <1>2, <1>5, <2>1 DEF IInv, IdsUnique
<1> QED BY <1>2, <1>7, <1>8, <1>9 DEF IInv

\* Dropping a process that is not on the CPU preserves the invariant.
LEMMA DropInv ==
  ASSUME IInv, NEW p \in DOMAIN procs, drop_process(p)
  PROVE  IInv'
<1> USE DEF T, Slots
<1>1. TypeOK
  BY DEF IInv
<1>2. /\ DOMAIN procs' = DOMAIN procs \ {p}
      /\ \A q \in DOMAIN procs' : procs'[q] = procs[q]
      /\ DOMAIN left' = {s \in DOMAIN left : s[1] # p}
      /\ \A s \in DOMAIN left' : left'[s] = left[s]
      /\ UNCHANGED <<NEXT_PID, NEXT_THREAD_ID, cpu, up, halted>>
      /\ cpu.thread[1] # p
  BY DEF drop_process
<1>3. AllThreads' = {t \in AllThreads : t[1] # p}
  <2>1. \A t : t \in ThreadsIn(procs') <=> t \in ThreadsIn(procs) /\ t[1] # p
    BY <1>2 DEF ThreadsIn
  <2> QED BY <2>1, ThreadsNow, ThreadsThen
<1>4. TypeOK'
  BY <1>1, <1>2, <1>3 DEF TypeOK
<1>5. ASSUME NEW q \in DOMAIN procs', NEW i \in Slots(q)'
      PROVE  ThreadSound(q, i)'
  <2>1. ThreadSound(q, i) /\ q # p /\ procs'[q] = procs[q]
    BY <1>2 DEF IInv
  <2>2. <<q, i>> \in DOMAIN left => <<q, i>> \in DOMAIN left'
    BY <1>2, <2>1
  <2> QED BY <1>2, <2>1, <2>2 DEF ThreadSound
<1>6. IdsUnique'
  BY <1>2 DEF IInv, IdsUnique
<1> QED BY <1>2, <1>4, <1>5, <1>6 DEF IInv

----------------------------------------------------------------------------
(* The context switch.                                                      *)

Procs == [state : ProcessStates, threads : Seq(KernelThread)]

\* Replacing thread i of process a changes nothing else.
LEMMA UpdateThread ==
  ASSUME NEW ps, \A q \in DOMAIN ps : ps[q] \in Procs,
         NEW a \in DOMAIN ps, NEW i \in DOMAIN ps[a].threads,
         NEW v \in KernelThread,
         NEW qs, qs = [ps EXCEPT ![a].threads[i] = v]
  PROVE  /\ DOMAIN qs = DOMAIN ps
         /\ \A q \in DOMAIN ps : /\ qs[q] \in Procs
                                 /\ qs[q].state = ps[q].state
                                 /\ DOMAIN qs[q].threads = DOMAIN ps[q].threads
         /\ qs[a].threads[i] = v
         /\ \A q \in DOMAIN ps : \A j \in DOMAIN ps[q].threads :
              <<q, j>> # <<a, i>> => qs[q].threads[j] = ps[q].threads[j]
<1>1. /\ DOMAIN qs = DOMAIN ps
      /\ \A q \in DOMAIN ps \ {a} : qs[q] = ps[q]
      /\ qs[a] = [ps[a] EXCEPT !.threads = [ps[a].threads EXCEPT ![i] = v]]
  OBVIOUS
<1>2. /\ ps[a].state \in ProcessStates /\ ps[a].threads \in Seq(KernelThread)
      /\ ps[a] = [state |-> ps[a].state, threads |-> ps[a].threads]
  BY DEF Procs
<1>3. qs[a] = [state |-> ps[a].state, threads |-> [ps[a].threads EXCEPT ![i] = v]]
  BY <1>1, <1>2
<1>4. [ps[a].threads EXCEPT ![i] = v] \in Seq(KernelThread)
  BY <1>2
<1>5. qs[a] \in Procs
  BY <1>2, <1>3, <1>4 DEF Procs
<1>6. /\ qs[a].state = ps[a].state
      /\ qs[a].threads = [ps[a].threads EXCEPT ![i] = v]
  BY <1>3
<1>7. /\ DOMAIN qs[a].threads = DOMAIN ps[a].threads
      /\ qs[a].threads[i] = v
      /\ \A j \in DOMAIN ps[a].threads \ {i} : qs[a].threads[j] = ps[a].threads[j]
  BY <1>2, <1>6
<1> QED BY <1>1, <1>5, <1>6, <1>7

\* What switch_to's checks establish before it touches anything.
LEMMA SwitchAllowed ==
  ASSUME NEW t, SwitchError(t) = "", Thread(t).saved \in BOOLEAN
  PROVE  /\ Thread(t).id # Thread(cpu.thread).id
         /\ Thread(t).state # "Terminated"
         /\ Thread(t).saved
  BY DEF SwitchError

\* What a successful switch_to changes.
LEMMA Switched ==
  ASSUME IInv, NEW t \in AllThreads, switch_to(t)
  PROVE  /\ cpu.thread \in AllThreads /\ cpu.thread # t
         /\ Thread(t).saved /\ procs[t[1]].state # "Terminated"
         /\ SavedRegisters \in Registers
         /\ DOMAIN procs' = DOMAIN procs
         /\ \A q \in DOMAIN procs : /\ procs'[q] \in Procs
                                    /\ procs'[q].state = procs[q].state
                                    /\ Slots(q)' = Slots(q)
         /\ procs'[cpu.thread[1]].threads[cpu.thread[2]] = Suspended(cpu.thread)
         /\ T(t[1], t[2])' = [Thread(t) EXCEPT !.state = "Running"]
         /\ \A q \in DOMAIN procs : \A i \in Slots(q) :
              <<q, i>> # cpu.thread /\ <<q, i>> # t => T(q, i)' = T(q, i)
<1> USE DEF T, Slots
<1> DEFINE c == cpu.thread
           ps == [procs EXCEPT ![c[1]].threads[c[2]] = Suspended(c)]
           w == [Thread(t) EXCEPT !.state = "Running"]
<1>1. TypeOK /\ c \in AllThreads
  BY DEF IInv, TypeOK
<1>2. /\ c = <<c[1], c[2]>> /\ c[1] \in DOMAIN procs /\ c[2] \in Slots(c[1])
      /\ t = <<t[1], t[2]>> /\ t[1] \in DOMAIN procs /\ t[2] \in Slots(t[1])
  BY <1>1, Positions, ThreadsNow
<1>3. Thread(c) \in KernelThread /\ Thread(t) \in KernelThread
  BY <1>1, <1>2, ThreadTypes DEF Thread
<1>4. Thread(t).saved \in BOOLEAN
  BY <1>3 DEF KernelThread
<1>5. /\ Thread(t).id # Thread(c).id /\ Thread(t).state # "Terminated"
      /\ Thread(t).saved
  BY <1>4, SwitchAllowed DEF switch_to
<1>6. c # t
  BY <1>5
<1>7. ThreadSound(t[1], t[2])
  BY <1>2 DEF IInv
<1>8. procs[t[1]].state # "Terminated"
  BY <1>5, <1>7 DEF ThreadSound, Thread
<1>9. SavedRegisters \in Registers
  <2>1. cpu.iflag \in BOOLEAN /\ cpu.rip \in Points
    BY <1>1 DEF TypeOK
  <2> QED BY <2>1, NextPoint DEF SavedRegisters, Registers
<1>10. Suspended(c) \in KernelThread /\ w \in KernelThread
  <2>1. "Ready" \in ThreadStates /\ "Running" \in ThreadStates
    BY DEF ThreadStates
  <2> QED BY <1>3, <1>9, <2>1 DEF Suspended, KernelThread
<1>11. \A q \in DOMAIN procs : procs[q] \in Procs
  BY <1>1 DEF TypeOK, Procs
<1> HIDE DEF w
<1>12. procs' = [ps EXCEPT ![t[1]].threads[t[2]].state = "Running"]
  BY DEF switch_to
<1> DEFINE qs == ps
<1>13. qs = [procs EXCEPT ![c[1]].threads[c[2]] = Suspended(c)]
  OBVIOUS
<1>14. /\ DOMAIN qs = DOMAIN procs
       /\ \A q \in DOMAIN procs : /\ qs[q] \in Procs
                                  /\ qs[q].state = procs[q].state
                                  /\ DOMAIN qs[q].threads = Slots(q)
       /\ qs[c[1]].threads[c[2]] = Suspended(c)
       /\ \A q \in DOMAIN procs : \A j \in Slots(q) :
            <<q, j>> # c => qs[q].threads[j] = procs[q].threads[j]
  <2> HIDE DEF qs, c
  <2>1. c[1] \in DOMAIN procs /\ c[2] \in DOMAIN procs[c[1]].threads
    BY <1>2
  <2>2. \A q \in DOMAIN procs : \A j \in Slots(q) :
          <<q, j>> # <<c[1], c[2]>> => qs[q].threads[j] = procs[q].threads[j]
    BY <1>10, <1>11, <1>13, <2>1, UpdateThread
  <2>3. /\ DOMAIN qs = DOMAIN procs
        /\ \A q \in DOMAIN procs : /\ qs[q] \in Procs
                                   /\ qs[q].state = procs[q].state
                                   /\ DOMAIN qs[q].threads = Slots(q)
    BY <1>10, <1>11, <1>13, <2>1, UpdateThread
  <2>4. qs[c[1]].threads[c[2]] = Suspended(c)
    BY <1>10, <1>11, <1>13, <2>1, UpdateThread
  <2>5. c = <<c[1], c[2]>>
    BY <1>2
  <2> QED BY <2>2, <2>3, <2>4, <2>5, Zenon
<1>15. procs' = [qs EXCEPT ![t[1]].threads[t[2]] = w]
  <2>1. qs[t[1]].threads[t[2]] = Thread(t)
    <3> HIDE DEF qs, c
    <3> QED BY <1>2, <1>6, <1>14 DEF Thread
  <2>2. procs' = [qs EXCEPT ![t[1]].threads[t[2]] =
                    [qs[t[1]].threads[t[2]] EXCEPT !.state = "Running"]]
    BY <1>12
  <2> HIDE DEF qs, c
  <2> QED BY <2>1, <2>2 DEF w
<1>16. /\ DOMAIN procs' = DOMAIN qs
       /\ \A q \in DOMAIN qs : /\ procs'[q] \in Procs
                               /\ procs'[q].state = qs[q].state
                               /\ DOMAIN procs'[q].threads = DOMAIN qs[q].threads
       /\ procs'[t[1]].threads[t[2]] = w
       /\ \A q \in DOMAIN qs : \A j \in DOMAIN qs[q].threads :
            <<q, j>> # t => procs'[q].threads[j] = qs[q].threads[j]
  <2> HIDE DEF qs, c
  <2>1. /\ t[1] \in DOMAIN qs /\ t[2] \in DOMAIN qs[t[1]].threads
        /\ \A q \in DOMAIN qs : qs[q] \in Procs
    BY <1>2, <1>14
  <2>2. \A q \in DOMAIN qs : \A j \in DOMAIN qs[q].threads :
          <<q, j>> # <<t[1], t[2]>> => procs'[q].threads[j] = qs[q].threads[j]
    BY <1>10, <1>15, <2>1, UpdateThread
  <2>3. /\ DOMAIN procs' = DOMAIN qs
        /\ \A q \in DOMAIN qs : /\ procs'[q] \in Procs
                                /\ procs'[q].state = qs[q].state
                                /\ DOMAIN procs'[q].threads = DOMAIN qs[q].threads
        /\ procs'[t[1]].threads[t[2]] = w
    BY <1>10, <1>15, <2>1, UpdateThread
  <2>4. t = <<t[1], t[2]>>
    BY <1>2
  <2> QED BY <2>2, <2>3, <2>4, Zenon
<1>17. /\ procs'[c[1]].threads[c[2]] = Suspended(c)
       /\ \A q \in DOMAIN procs : \A i \in Slots(q) :
            <<q, i>> # c /\ <<q, i>> # t => procs'[q].threads[i] = procs[q].threads[i]
  <2> HIDE DEF qs, c
  <2> QED BY <1>2, <1>6, <1>14, <1>16
<1>18. /\ DOMAIN procs' = DOMAIN procs
       /\ \A q \in DOMAIN procs : /\ procs'[q] \in Procs
                                  /\ procs'[q].state = procs[q].state
                                  /\ Slots(q)' = Slots(q)
  <2> HIDE DEF qs, c
  <2> QED BY <1>14, <1>16
<1>19. T(t[1], t[2])' = [Thread(t) EXCEPT !.state = "Running"]
  BY <1>16 DEF w
<1> HIDE DEF qs
<1> QED BY <1>1, <1>5, <1>6, <1>8, <1>9, <1>17, <1>18, <1>19, Zenon

\* switch_to preserves the invariant: exactly the two threads it names change
\* roles, and the frame it saves is the one the thread left with.
LEMMA SwitchInv ==
  ASSUME IInv, NEW t \in AllThreads, switch_to(t)
  PROVE  IInv'
<1> USE DEF T, Slots
<1> DEFINE c == cpu.thread
<1>1. /\ TypeOK /\ c \in AllThreads /\ c # t
      /\ SavedRegisters \in Registers
      /\ DOMAIN procs' = DOMAIN procs
      /\ \A q \in DOMAIN procs : /\ procs'[q] \in Procs
                                 /\ procs'[q].state = procs[q].state
                                 /\ Slots(q)' = Slots(q)
      /\ procs'[c[1]].threads[c[2]] = Suspended(c)
      /\ procs'[t[1]].threads[t[2]] = [Thread(t) EXCEPT !.state = "Running"]
      /\ \A q \in DOMAIN procs : \A i \in Slots(q) :
           <<q, i>> # c /\ <<q, i>> # t
             => procs'[q].threads[i] = procs[q].threads[i]
  BY Switched DEF IInv
<1>2. /\ c = <<c[1], c[2]>> /\ c[1] \in DOMAIN procs /\ c[2] \in Slots(c[1])
      /\ t = <<t[1], t[2]>> /\ t[1] \in DOMAIN procs /\ t[2] \in Slots(t[1])
  BY <1>1, Positions, ThreadsNow
<1>3. /\ Thread(c) \in KernelThread /\ Thread(t) \in KernelThread
      /\ ThreadSound(c[1], c[2]) /\ ThreadSound(t[1], t[2])
  BY <1>1, <1>2, ThreadTypes DEF Thread, IInv
<1>4. /\ UNCHANGED <<NEXT_PID, NEXT_THREAD_ID, up, halted>>
      /\ cpu'.thread = t
      /\ cpu' = [thread |-> t, iflag |-> Thread(t).frame.iflag,
                 rip |-> Thread(t).frame.rip]
      /\ DOMAIN left' = DOMAIN left \cup {c}
      /\ left'[c] = SavedRegisters
      /\ \A s \in DOMAIN left \ {c} : left'[s] = left[s]
  BY DEF switch_to, RestoredRegisters, SavedRegisters
<1>5. AllThreads' = AllThreads
  BY <1>1 DEF AllThreads, ThreadsOf
<1>6. TypeOK'
  <2>1. Thread(t).frame \in Registers
    BY <1>3 DEF KernelThread
  <2>2. Thread(t).frame.iflag \in BOOLEAN /\ Thread(t).frame.rip \in Points
    BY <2>1 DEF Registers
  <2>3. t \in Pids \X Nat
    <3>1. t[1] \in Pids
      BY <1>1, <1>2 DEF TypeOK
    <3>2. t[2] \in Nat
      BY <1>1, <1>2, ThreadTypes
    <3> QED BY <1>2, <3>1, <3>2
  <2>4. cpu' \in [thread : Pids \X Nat, iflag : BOOLEAN, rip : Points]
    BY <1>4, <2>2, <2>3
  <2>5. DOMAIN left' \subseteq AllThreads'
    BY <1>1, <1>4, <1>5 DEF TypeOK
  <2> HIDE DEF c
  <2> QED BY <1>1, <1>4, <1>5, <2>4, <2>5 DEF TypeOK, Procs
<1>7. /\ procs'[c[1]].threads[c[2]].state = "Ready"
      /\ procs'[c[1]].threads[c[2]].frame = SavedRegisters
      /\ procs'[c[1]].threads[c[2]].id = Thread(c).id
      /\ procs'[c[1]].threads[c[2]].process_id = Thread(c).process_id
  <2>1. /\ Suspended(c).state = "Ready" /\ Suspended(c).frame = SavedRegisters
        /\ Suspended(c).id = Thread(c).id
        /\ Suspended(c).process_id = Thread(c).process_id
    <3> HIDE DEF c
    <3> QED BY <1>3 DEF Suspended, KernelThread
  <2> HIDE DEF c
  <2> QED BY <1>1, <2>1
<1>8. /\ T(t[1], t[2])'.state = "Running"
      /\ T(t[1], t[2])'.frame = Thread(t).frame
      /\ T(t[1], t[2])'.saved = Thread(t).saved
      /\ T(t[1], t[2])'.id = Thread(t).id
      /\ T(t[1], t[2])'.process_id = Thread(t).process_id
  BY <1>1, <1>3 DEF KernelThread
<1> HIDE DEF c
<1>9. ASSUME NEW q \in DOMAIN procs', NEW i \in Slots(q)'
      PROVE  ThreadSound(q, i)'
  <2>1. CASE <<q, i>> = c
    <3>1. q = c[1] /\ i = c[2]
      BY <2>1
    <3>2. ThreadSound(q, i) /\ procs'[q].state = procs[q].state
          /\ procs[q].state # "Terminated"
      <4>1. ThreadSound(q, i) /\ procs[q].threads[i].state = "Running"
        BY <1>3, <2>1, <3>1 DEF ThreadSound, c
      <4> QED BY <1>1, <1>2, <3>1, <4>1 DEF ThreadSound
    <3>3. /\ procs'[q].threads[i].state = "Ready"
          /\ procs'[q].threads[i].frame = SavedRegisters
          /\ procs'[q].threads[i].id = procs[q].threads[i].id
          /\ procs'[q].threads[i].process_id = procs[q].threads[i].process_id
      BY <1>7, <3>1 DEF Thread
    <3> QED BY <1>1, <1>4, <2>1, <3>2, <3>3 DEF ThreadSound
  <2>2. CASE <<q, i>> = t
    <3>1. q = t[1] /\ i = t[2]
      BY <2>2
    <3>2. ThreadSound(q, i) /\ procs'[q].state = procs[q].state
          /\ procs[q].state # "Terminated"
      BY <1>1, <1>2, <1>3, <3>1, Switched
    <3>3. /\ procs'[q].threads[i].state = "Running"
          /\ procs'[q].threads[i].frame = procs[q].threads[i].frame
          /\ procs'[q].threads[i].saved = procs[q].threads[i].saved
          /\ procs'[q].threads[i].id = procs[q].threads[i].id
          /\ procs'[q].threads[i].process_id = procs[q].threads[i].process_id
      BY <1>8, <3>1 DEF Thread
    <3>4. <<q, i>> \in DOMAIN left =>
            <<q, i>> \in DOMAIN left' /\ left'[<<q, i>>] = left[<<q, i>>]
      BY <1>1, <1>4, <2>2
    <3> QED BY <1>4, <2>2, <3>2, <3>3, <3>4 DEF ThreadSound
  <2>3. CASE <<q, i>> # c /\ <<q, i>> # t
    <3>1. /\ ThreadSound(q, i) /\ procs'[q].state = procs[q].state
          /\ procs'[q].threads[i] = procs[q].threads[i]
      BY <1>1, <2>3 DEF IInv
    <3>2. <<q, i>> \in DOMAIN left =>
            <<q, i>> \in DOMAIN left' /\ left'[<<q, i>>] = left[<<q, i>>]
      BY <1>4, <2>3
    <3>3. procs[q].threads[i].state # "Running"
      BY <2>3, <3>1 DEF ThreadSound, c
    <3> QED BY <1>4, <2>3, <3>1, <3>2, <3>3 DEF ThreadSound
  <2> QED BY <2>1, <2>2, <2>3
<1>10. IdsUnique'
  <2>1. \A q \in DOMAIN procs' : \A i \in Slots(q)' :
          procs'[q].threads[i].id = procs[q].threads[i].id
    <3> SUFFICES ASSUME NEW q \in DOMAIN procs', NEW i \in Slots(q)'
                 PROVE  procs'[q].threads[i].id = procs[q].threads[i].id
      OBVIOUS
    <3>1. CASE <<q, i>> = c
      BY <1>7, <3>1 DEF Thread
    <3>2. CASE <<q, i>> = t
      BY <1>8, <3>2 DEF Thread
    <3>3. CASE <<q, i>> # c /\ <<q, i>> # t
      BY <1>1, <3>3
    <3> QED BY <3>1, <3>2, <3>3
  <2> QED BY <1>1, <2>1 DEF IInv, IdsUnique
<1> QED BY <1>1, <1>4, <1>6, <1>9, <1>10 DEF IInv

\* The steps that only halt the CPU or enable interrupts, and stuttering.
LEMMA OtherInv ==
  ASSUME IInv,
         \/ \E t \in AllThreads : SwitchRejected(t)
         \/ kernel_context_exit \/ sti \/ UNCHANGED vars
  PROVE  IInv'
<1>1. /\ UNCHANGED <<procs, NEXT_PID, NEXT_THREAD_ID, left>>
      /\ up' \in BOOLEAN /\ halted' \in BOOLEAN
      /\ cpu'.thread = cpu.thread
      /\ cpu' \in [thread : Pids \X Nat, iflag : BOOLEAN, rip : Points]
  BY DEF IInv, TypeOK, SwitchRejected, kernel_context_exit, sti, vars
<1>2. AllThreads' = AllThreads
  BY <1>1 DEF AllThreads, ThreadsOf
<1>3. TypeOK'
  BY <1>1, <1>2 DEF IInv, TypeOK
<1> QED BY <1>1, <1>3 DEF IInv, ThreadSound, IdsUnique, T, Slots

\* The inductive invariant holds in every reachable state of processes and
\* threads, whatever is created, switched, terminated and dropped.
THEOREM ThreadsInvariant == Spec => []IInv
<1>1. Init => IInv
  BY InitInv
<1>2. IInv /\ [Next]_vars => IInv'
  BY NewInv, CreateInv, TerminateInv, DropInv, SwitchInv, OtherInv
     DEF Next, Step
<1> QED BY <1>1, <1>2, PTL DEF Spec

\* Process::verify never fails: a terminated process has no running thread,
\* threads carry their process's id, and thread ids are unique.
THEOREM ProcessesVerified == Spec => []verify
<1>1. IInv => verify
  <2> SUFFICES ASSUME IInv, NEW p \in DOMAIN procs
               PROVE  /\ procs[p].state = "Terminated" =>
                           \A i \in Slots(p) : T(p, i).state # "Running"
                      /\ \A i \in Slots(p) : T(p, i).process_id = p
                      /\ \A i, j \in Slots(p) : i # j => T(p, i).id # T(p, j).id
    BY DEF verify, Slots, T
  <2>1. \A i \in Slots(p) : ThreadSound(p, i)
    BY DEF IInv
  <2>2. \A i, j \in Slots(p) : T(p, i).id = T(p, j).id => i = j
    BY DEF IInv, IdsUnique
  <2> QED BY <2>1, <2>2 DEF ThreadSound
<1> QED BY <1>1, ThreadsInvariant, PTL

\* The lifecycle states agree with the CPU: switch_to leaves exactly the
\* thread it switched to Running.
THEOREM OneThreadRunning == Spec => []OneRunning
<1>1. IInv => OneRunning
  <2> SUFFICES ASSUME IInv PROVE OneRunning
    OBVIOUS
  <2>1. cpu.thread \in AllThreads
    BY DEF IInv, TypeOK
  <2>2. ASSUME NEW t \in AllThreads
        PROVE  Thread(t).state = "Running" <=> t = cpu.thread
    <3>1. t = <<t[1], t[2]>> /\ t[1] \in DOMAIN procs /\ t[2] \in Slots(t[1])
      BY Positions, ThreadsNow DEF Slots
    <3>2. ThreadSound(t[1], t[2])
      BY <3>1 DEF IInv
    <3> QED BY <3>1, <3>2 DEF ThreadSound, Thread, T
  <2> QED BY <2>1, <2>2 DEF OneRunning
<1> QED BY <1>1, ThreadsInvariant, PTL

\* switch_context pops what it pushed: a thread that gets the CPU continues at
\* the point and with the interrupt flag it left with.
THEOREM ResumesWhereLeft == Spec => ResumePointIntegrity
<1> DEFINE Resumes == cpu'.thread # cpu.thread =>
                        [iflag |-> cpu'.iflag, rip |-> cpu'.rip] = left[cpu'.thread]
<1>1. IInv /\ [Next]_vars => [Resumes]_vars
  <2> SUFFICES ASSUME IInv, Next, cpu'.thread # cpu.thread
               PROVE  [iflag |-> cpu'.iflag, rip |-> cpu'.rip] = left[cpu'.thread]
    OBVIOUS
  <2>1. PICK t \in AllThreads : switch_to(t)
    BY DEF Next, Step, process_new, create_thread, drop_process, SwitchRejected,
           kernel_context_exit, sti, terminate, IInv, TypeOK
  <2>2. t = <<t[1], t[2]>> /\ t[1] \in DOMAIN procs /\ t[2] \in Slots(t[1])
    BY Positions, ThreadsNow DEF Slots
  <2>3. Thread(t).saved /\ ThreadSound(t[1], t[2]) /\ T(t[1], t[2]) = Thread(t)
    BY <2>1, <2>2, Switched DEF IInv, T, Thread
  <2>4. left[t] = Thread(t).frame
    BY <2>2, <2>3 DEF ThreadSound
  <2>5. Thread(t).frame \in Registers
    BY <2>2, ThreadTypes DEF IInv, KernelThread, Thread, T
  <2>6. cpu' = [thread |-> t, iflag |-> Thread(t).frame.iflag,
                rip |-> Thread(t).frame.rip]
    BY <2>1 DEF switch_to, RestoredRegisters
  <2> QED BY <2>4, <2>5, <2>6 DEF Registers
<1> QED BY <1>1, ThreadsInvariant, PTL DEF Spec, ResumePointIntegrity
=============================================================================
