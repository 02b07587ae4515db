----------------------------- MODULE BootProofs -----------------------------
(***************************************************************************)
(* Proofs about efi_main, for every number of attempts, of changes the     *)
(* firmware makes and every configuration table.  The inductive invariant  *)
(* ties the program counter to what the firmware has done: how many of its *)
(* own changes each rejected attempt has cost, and that from the accepted  *)
(* attempt on the map, the buffer and the console stay as they are.        *)
(***************************************************************************)
EXTENDS Boot, TLAPS

BeforeExit == {"find_gop", "find_rsdp", "warn", "exiting", "get", "exit",
               "failed", "halted"}
AfterExit == {"handover", "framebuffer", "parse", "kernel_main", "running"}

TypeOK ==
  /\ pc \in BeforeExit \cup AfterExit
  /\ tables \in Tables /\ Len(tables) \in Nat /\ DOMAIN tables = 1 .. Len(tables)
  /\ index \in 1 .. Len(tables) + 1
  /\ rsdp \in 0 .. Len(tables)
  /\ UEFI_CONSOLE_ACTIVE \in BOOLEAN
  /\ tries \in Nat /\ map_key \in Nat /\ buf \in Nat /\ parsed \in Nat
  /\ map \in Nat \ {0}
  /\ exited \in BOOLEAN
  /\ changes \in Nat /\ calls \in Nat

\* Boot services are there until an attempt is accepted; then the buffer holds
\* the final map and, past the handover, the firmware's console is off.
Handover ==
  /\ exited <=> pc \in AfterExit
  /\ exited => buf = map
  /\ pc \in AfterExit \ {"handover"} => ~UEFI_CONSOLE_ACTIVE
  /\ parsed # 0 => pc \in {"kernel_main", "running"} /\ parsed = buf

\* Every rejected attempt has cost the firmware a change of its own.
Attempts ==
  /\ pc \in {"find_gop", "find_rsdp", "warn", "exiting"} => tries = 0
  /\ pc = "get" => changes >= tries
  /\ pc = "exit" => /\ changes >= tries
                    /\ map_key = buf
                    /\ map_key # map => changes > tries
  /\ HaltNotSelfInflicted

\* What find_rsdp's loop knows when it has looked at the entries below index.
Scan ==
  IF rsdp # 0 /\ tables[rsdp] = "acpi20"
  THEN /\ index = Len(tables) + 1
       /\ \A j \in 1 .. rsdp - 1 : tables[j] # "acpi20"
  ELSE /\ \A j \in 1 .. index - 1 : tables[j] # "acpi20"
       /\ rsdp = 0 => \A j \in 1 .. index - 1 : tables[j] # "acpi10"
       /\ rsdp # 0 => /\ rsdp < index /\ tables[rsdp] = "acpi10"
                      /\ \A j \in 1 .. rsdp - 1 : tables[j] # "acpi10"

IInv == TypeOK /\ Handover /\ Attempts /\ Scan

USE DEF BeforeExit, AfterExit

\* The firmware's call establishes the invariant.
LEMMA InitInv == Init => IInv
<1> SUFFICES ASSUME Init PROVE IInv
  OBVIOUS
<1>1. Len(tables) \in Nat /\ DOMAIN tables = 1 .. Len(tables)
  BY BootAssumption DEF Init, Tables
<1>2. TypeOK
  <2>1. UEFI_CONSOLE_ACTIVE \in BOOLEAN /\ exited \in BOOLEAN
    BY DEF Init
  <2>2. index \in 1 .. Len(tables) + 1 /\ rsdp \in 0 .. Len(tables)
    BY <1>1 DEF Init
  <2> QED BY <1>1, <2>1, <2>2 DEF Init, TypeOK
<1> QED BY <1>1, <1>2
        DEF Init, IInv, Handover, Attempts, Scan, HaltNotSelfInflicted

\* What any line logged before the handover, or after it, leaves as it was.
LEMMA KlogFrame ==
  ASSUME TypeOK, klog
  PROVE  /\ UNCHANGED <<exited, changes, fails>>
         /\ map' \in Nat \ {0} /\ calls' \in Nat
         /\ ~UEFI_CONSOLE_ACTIVE => UNCHANGED <<map, calls>>
  BY DEF klog, TypeOK, output_string, firmware

\* One lemma per group of steps: the firmware's, the lines of efi_main before
\* the exit, the loop over the configuration table, the exit, the handover.
LEMMA MapChangesInv ==
  ASSUME IInv, MapChanges
  PROVE  IInv'
<1> USE DEF IInv, MapChanges, kernel, exiting
<1>1. TypeOK'
  BY DEF TypeOK
<1>2. Handover'
  BY DEF Handover
<1>3. Attempts'
  BY BootAssumption DEF TypeOK, Attempts, HaltNotSelfInflicted
<1>4. Scan'
  BY DEF Scan
<1> QED BY <1>1, <1>2, <1>3, <1>4

LEMMA LinesInv ==
  ASSUME IInv, find_gop \/ warn_no_rsdp \/ log_exiting \/ boot_panic \/ kernel_main
  PROVE  IInv'
<1>1. CASE find_gop
  BY <1>1, KlogFrame, BootAssumption
     DEF IInv, TypeOK, Handover, Attempts, Scan, HaltNotSelfInflicted,
         find_gop, exiting
<1>2. CASE warn_no_rsdp
  BY <1>2, KlogFrame, BootAssumption
     DEF IInv, TypeOK, Handover, Attempts, Scan, HaltNotSelfInflicted,
         warn_no_rsdp, kernel, exiting
<1>3. CASE log_exiting
  BY <1>3, KlogFrame, BootAssumption
     DEF IInv, TypeOK, Handover, Attempts, Scan, HaltNotSelfInflicted,
         log_exiting, kernel, exiting
<1>4. CASE boot_panic
  BY <1>4, KlogFrame, BootAssumption
     DEF IInv, TypeOK, Handover, Attempts, Scan, HaltNotSelfInflicted,
         boot_panic, kernel, exiting
<1>5. CASE kernel_main
  BY <1>5, KlogFrame, BootAssumption
     DEF IInv, TypeOK, Handover, Attempts, Scan, HaltNotSelfInflicted,
         kernel_main, kernel, exiting
<1> QED BY <1>1, <1>2, <1>3, <1>4, <1>5

LEMMA ExitInv ==
  ASSUME IInv, get_memory_map \/ get_memory_map_fails \/ exit_boot_services
  PROVE  IInv'
<1>1. CASE get_memory_map
  BY <1>1 DEF IInv, TypeOK, Handover, Attempts, Scan, HaltNotSelfInflicted,
              get_memory_map, kernel, firmware
<1>2. CASE get_memory_map_fails
  BY <1>2 DEF IInv, TypeOK, Handover, Attempts, Scan, HaltNotSelfInflicted,
              get_memory_map_fails, kernel, exiting
<1>3. CASE exit_boot_services
  <2> USE <1>3 DEF IInv, exit_boot_services, kernel
  <2>1. /\ exited' \in BOOLEAN
        /\ map_key = map => exited' /\ pc' = "handover"
        /\ map_key # map => ~exited' /\ pc' \in {"get", "failed"}
    BY DEF AfterAttempt
  <2>2. TypeOK'
    BY <2>1 DEF TypeOK
  <2>3. Handover'
    BY <2>1 DEF Handover, Attempts
  <2>4. Attempts'
    BY <2>1, BootAssumption DEF TypeOK, Attempts, HaltNotSelfInflicted, AfterAttempt
  <2>5. Scan'
    BY DEF Scan
  <2> QED BY <2>2, <2>3, <2>4, <2>5
<1> QED BY <1>1, <1>2, <1>3

LEMMA HandoverInv ==
  ASSUME IInv, disable_uefi_console \/ framebuffer_init \/ init_from_uefi
  PROVE  IInv'
<1>1. CASE disable_uefi_console
  BY <1>1 DEF IInv, TypeOK, Handover, Attempts, Scan, HaltNotSelfInflicted,
              disable_uefi_console, exiting, firmware
<1>2. CASE framebuffer_init
  BY <1>2 DEF IInv, TypeOK, Handover, Attempts, Scan, HaltNotSelfInflicted,
              framebuffer_init, exiting, firmware, klog
<1>3. CASE init_from_uefi
  BY <1>3 DEF IInv, TypeOK, Handover, Attempts, Scan, HaltNotSelfInflicted,
              init_from_uefi, kernel, firmware
<1> QED BY <1>1, <1>2, <1>3

LEMMA FindRsdpInv ==
  ASSUME IInv, find_rsdp_entry \/ find_rsdp_ends
  PROVE  IInv'
<1>1. CASE find_rsdp_ends
  BY <1>1, BootAssumption
     DEF IInv, TypeOK, Handover, Attempts, Scan, HaltNotSelfInflicted,
         find_rsdp_ends, kernel, exiting, firmware
<1>2. CASE find_rsdp_entry
  <2> USE <1>2 DEF IInv
  <2>1. /\ index \in 1 .. Len(tables) /\ Len(tables) \in Nat /\ rsdp \in Nat
        /\ rsdp' = Found(rsdp, index)
        /\ index' = IF tables[index] = "acpi20" THEN Len(tables) + 1 ELSE index + 1
        /\ UNCHANGED <<pc, tables, info, active, UEFI_CONSOLE_ACTIVE, exiting,
                       firmware, calls>>
    BY DEF TypeOK, find_rsdp_entry
  <2>2. TypeOK'
    <3>1. rsdp' \in 0 .. Len(tables) /\ index' \in 1 .. Len(tables) + 1
      BY <2>1 DEF TypeOK, Found
    <3> QED BY <2>1, <3>1 DEF TypeOK, exiting, firmware
  <2>3. Handover' /\ Attempts'
    BY <2>1 DEF Handover, Attempts, HaltNotSelfInflicted, exiting, firmware
  <2>4. ~(rsdp # 0 /\ tables[rsdp] = "acpi20")
    BY <2>1 DEF Scan
  <2>5. Scan'
    <3>1. CASE tables[index] = "acpi20"
      BY <2>1, <2>4, <3>1 DEF Scan, Found
    <3>2. CASE tables[index] = "acpi10" /\ rsdp = 0
      BY <2>1, <2>4, <3>2 DEF Scan, Found
    <3>3. CASE tables[index] # "acpi20" /\ ~(tables[index] = "acpi10" /\ rsdp = 0)
      BY <2>1, <2>4, <3>3 DEF Scan, Found
    <3> QED BY <3>1, <3>2, <3>3
  <2> QED BY <2>2, <2>3, <2>5
<1> QED BY <1>1, <1>2

\* The inductive invariant holds from the firmware's call to the running kernel.
THEOREM BootInvariant == Spec => []IInv
<1>1. IInv /\ [Next]_vars => IInv'
  <2>1. ASSUME IInv, UNCHANGED vars PROVE IInv'
    BY <2>1 DEF IInv, TypeOK, Handover, Attempts, Scan, HaltNotSelfInflicted,
                vars, kernel, exiting, firmware
  <2> QED BY <2>1, MapChangesInv, LinesInv, ExitInv, HandoverInv, FindRsdpInv
          DEF Next
<1> QED BY <1>1, InitInv, PTL DEF Spec

\* The memory map the kernel parses is the one the firmware left behind, for
\* any number of attempts and of changes in between.
THEOREM ParsesFinalMap == Spec => []ParsedMapIsFinal
<1>1. IInv => ParsedMapIsFinal
  BY DEF IInv, TypeOK, Handover, ParsedMapIsFinal
<1> QED BY <1>1, BootInvariant, PTL

\* exit_boot_services gives up only when GetMemoryMap failed or the firmware
\* itself spoilt every attempt.
THEOREM GivesUpForCause == Spec => []HaltNotSelfInflicted
<1>1. IInv => HaltNotSelfInflicted
  BY DEF IInv, Attempts
<1> QED BY <1>1, BootInvariant, PTL

\* No step after the exit calls the firmware, klog included.
THEOREM FirmwareLeftAlone == Spec => NoFirmwareCallAfterExit
<1>1. IInv /\ [Next]_vars => [calls' # calls => ~exited]_vars
  <2> SUFFICES ASSUME IInv, Next, exited PROVE calls' = calls
    OBVIOUS
  <2>1. pc \in AfterExit /\ (pc # "handover" => ~UEFI_CONSOLE_ACTIVE)
    BY DEF IInv, Handover
  <2> QED BY <2>1
          DEF Next, MapChanges, find_gop, find_rsdp_entry, find_rsdp_ends,
              warn_no_rsdp, log_exiting, get_memory_map, get_memory_map_fails,
              exit_boot_services, boot_panic, disable_uefi_console,
              framebuffer_init, init_from_uefi, kernel_main, klog
<1> QED BY <1>1, BootInvariant, PTL DEF Spec, NoFirmwareCallAfterExit

\* The first entry with a GUID is the one no earlier entry shares it with.
LEMMA FirstEntry ==
  ASSUME TypeOK, NEW g, NEW r \in 1 .. Len(tables), tables[r] = g,
         \A j \in 1 .. r - 1 : tables[j] # g
  PROVE  FirstOf(g) = r
<1> DEFINE S == {i \in DOMAIN tables : tables[i] = g}
<1>1. r \in S /\ \A j \in S : r <= j
  BY DEF TypeOK
<1>2. \A x \in S : (\A j \in S : x <= j) => x = r
  BY <1>1 DEF TypeOK
<1>3. FirstOf(g) = CHOOSE i \in S : \A j \in S : i <= j
  BY <1>1, Zenon DEF FirstOf
<1> HIDE DEF S
<1>4. (CHOOSE i \in S : \A j \in S : i <= j) = r
  BY <1>1, <1>2
<1> QED BY <1>3, <1>4

\* find_rsdp settles on the first ACPI 2.0 entry, else on the first ACPI 1.0
\* entry, else on none, for every configuration table.
THEOREM PrefersNewRsdp == Spec => []RsdpPreferred
<1>1. IInv => RsdpPreferred
  <2> SUFFICES ASSUME IInv, index > Len(tables)
               PROVE  rsdp = IF FirstOf("acpi20") # 0 THEN FirstOf("acpi20")
                             ELSE FirstOf("acpi10")
    BY DEF RsdpPreferred
  <2>1. /\ TypeOK /\ Scan /\ Len(tables) \in Nat /\ index = Len(tables) + 1
        /\ rsdp \in 0 .. Len(tables) /\ DOMAIN tables = 1 .. Len(tables)
    BY DEF IInv, TypeOK
  <2>2. \A g : (\A j \in 1 .. Len(tables) : tables[j] # g) => FirstOf(g) = 0
    BY <2>1 DEF FirstOf
  <2>3. CASE rsdp # 0 /\ tables[rsdp] = "acpi20"
    BY <2>1, <2>3, FirstEntry DEF Scan
  <2>4. CASE rsdp # 0 /\ tables[rsdp] # "acpi20"
    <3>1. FirstOf("acpi20") = 0
      BY <2>1, <2>2, <2>4 DEF Scan
    <3>2. FirstOf("acpi10") = rsdp
      BY <2>1, <2>4, FirstEntry DEF Scan
    <3> QED BY <3>1, <3>2
  <2>5. CASE rsdp = 0
    BY <2>1, <2>2, <2>5 DEF Scan
  <2> QED BY <2>3, <2>4, <2>5
<1> QED BY <1>1, BootInvariant, PTL

=============================================================================
