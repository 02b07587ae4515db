-------------------------------- MODULE Boot --------------------------------
(***************************************************************************)
(* efi_main: from the firmware's call to the first line of kernel_main.    *)
(*                                                                         *)
(* The firmware is the second actor: until boot services are exited it may *)
(* change its memory map at any moment, from its own events or because of  *)
(* a call to its console.  A version number stands for the contents of the *)
(* map and for the key GetMemoryMap returns with it; ExitBootServices      *)
(* accepts the key of the current version only.                            *)
(***************************************************************************)
EXTENDS Integers, Sequences

CONSTANTS
  MAX_TABLES,    \* bound on the UEFI configuration table's entries
  MAX_TRIES,     \* 4 in exit_boot_services
  MAX_CHANGES    \* bound on the changes the firmware makes on its own

ASSUME BootAssumption ==
  /\ MAX_TABLES \in Nat
  /\ MAX_TRIES \in Nat \ {0}
  /\ MAX_CHANGES \in Nat

VARIABLES
  pc,            \* where efi_main is
  tables,        \* the vendor GUIDs of the configuration table
  index,         \* find_rsdp's loop counter
  rsdp,          \* the address it has found, as an entry's index; 0 is none
  info,          \* the framebuffer find_gop recorded
  active,        \* framebuffer::ACTIVE
  UEFI_CONSOLE_ACTIVE,
  tries,         \* attempts exit_boot_services has made
  map_key,
  buf,           \* the map version RAW_MMAP_BUFFER holds; 0 before the first
  parsed,        \* the version memory::init_from_uefi was given; 0 before
  map,           \* firmware: the current version
  exited,        \* firmware: boot services are gone
  changes,       \* firmware: changes made on its own
  fails,         \* firmware: GetMemoryMap has failed
  calls          \* history: firmware calls made

kernel == <<tables, index, rsdp, info, active, UEFI_CONSOLE_ACTIVE>>
exiting == <<tries, map_key, buf, parsed>>
firmware == <<map, exited, changes, fails>>
vars == <<pc, kernel, exiting, firmware, calls>>

Guids == {"acpi20", "acpi10", "other"}
Infos == {"none", "linear", "blt"}
Tables == UNION {[1 .. n -> Guids] : n \in 0 .. MAX_TABLES}

(***************************************************************************)
(* The firmware.                                                           *)
(***************************************************************************)
\* A change of the map from one of the firmware's own events.
MapChanges ==
  /\ ~exited
  /\ changes < MAX_CHANGES
  /\ map' = map + 1
  /\ changes' = changes + 1
  /\ UNCHANGED <<pc, kernel, exiting, exited, fails, calls>>

\* output_string may allocate, which changes the map.
output_string == map' \in {map, map + 1}

(***************************************************************************)
(* klog: COM1 and the framebuffer console do not involve the firmware, the *)
(* third sink does while it is active.                                     *)
(***************************************************************************)
klog ==
  IF UEFI_CONSOLE_ACTIVE
  THEN /\ output_string
       /\ calls' = calls + 1
       /\ UNCHANGED <<exited, changes, fails>>
  ELSE UNCHANGED <<firmware, calls>>

(***************************************************************************)
(* efi_main.                                                               *)
(***************************************************************************)
Init ==
  /\ pc = "find_gop"
  /\ tables \in Tables
  /\ index = 1
  /\ rsdp = 0
  /\ info = "none"
  /\ active = FALSE
  /\ UEFI_CONSOLE_ACTIVE = TRUE
  /\ tries = 0 /\ map_key = 0 /\ buf = 0 /\ parsed = 0
  /\ map = 1 /\ exited = FALSE /\ changes = 0 /\ fails = FALSE
  /\ calls = 0

\* locate_protocol finds a framebuffer of some format or none; both ends log.
find_gop ==
  /\ pc = "find_gop"
  /\ info' \in Infos
  /\ klog
  /\ pc' = "find_rsdp"
  /\ UNCHANGED <<tables, index, rsdp, active, UEFI_CONSOLE_ACTIVE, exiting>>

\* What one entry does to the address, and a mutated form in which a later
\* ACPI 1.0 entry replaces an earlier one.
LastWins(r, i) == IF tables[i] = "other" THEN r ELSE i
Found(r, i) ==
  IF tables[i] = "acpi20" \/ (tables[i] = "acpi10" /\ r = 0) THEN i ELSE r

\* One turn of find_rsdp's loop; an ACPI 2.0 entry ends it.
find_rsdp_entry ==
  /\ pc = "find_rsdp"
  /\ index <= Len(tables)
  /\ rsdp' = Found(rsdp, index)
  /\ index' = IF tables[index] = "acpi20" THEN Len(tables) + 1 ELSE index + 1
  /\ UNCHANGED <<pc, tables, info, active, UEFI_CONSOLE_ACTIVE, exiting,
                 firmware, calls>>

\* The end of find_rsdp (a warning when there is none) and efi_main's own line.
find_rsdp_ends ==
  /\ pc = "find_rsdp"
  /\ index > Len(tables)
  /\ pc' = IF rsdp = 0 THEN "warn" ELSE "exiting"
  /\ UNCHANGED <<kernel, exiting, firmware, calls>>

warn_no_rsdp ==
  /\ pc = "warn"
  /\ klog
  /\ pc' = "exiting"
  /\ UNCHANGED <<kernel, exiting>>

log_exiting ==
  /\ pc = "exiting"
  /\ klog
  /\ pc' = "get"
  /\ UNCHANGED <<kernel, exiting>>

\* Mutated form of get_memory_map: it logs the size before the key is used.
LogsTheMap ==
  /\ pc = "get"
  /\ buf' = map
  /\ map_key' = map
  /\ output_string
  /\ calls' = calls + 2
  /\ pc' = "exit"
  /\ UNCHANGED <<kernel, tries, parsed, exited, changes, fails>>

\* GetMemoryMap fills the buffer and returns the key of what it filled in.
get_memory_map ==
  /\ pc = "get"
  /\ buf' = map
  /\ map_key' = map
  /\ calls' = calls + 1
  /\ pc' = "exit"
  /\ UNCHANGED <<kernel, tries, parsed, firmware>>

\* It fails (the buffer is too small): exit_boot_services returns None.
get_memory_map_fails ==
  /\ pc = "get"
  /\ fails' = TRUE
  /\ calls' = calls + 1
  /\ pc' = "failed"
  /\ UNCHANGED <<kernel, exiting, map, exited, changes>>

\* Where the loop goes after an attempt, and a mutated form: a rejected key
\* is taken for success.
IgnoresStatus(accepted, n) == "handover"
AfterAttempt(accepted, n) ==
  IF accepted THEN "handover" ELSE IF n < MAX_TRIES THEN "get" ELSE "failed"

\* ExitBootServices takes effect when the key is current.
exit_boot_services ==
  /\ pc = "exit"
  /\ exited' = (map_key = map)
  /\ tries' = tries + 1
  /\ pc' = AfterAttempt(map_key = map, tries + 1)
  /\ calls' = calls + 1
  /\ UNCHANGED <<kernel, map_key, buf, parsed, map, changes, fails>>

\* No way out of boot services: the last line is logged and the CPU halts.
boot_panic ==
  /\ pc = "failed"
  /\ klog
  /\ pc' = "halted"
  /\ UNCHANGED <<kernel, exiting>>

\* cli and disable_uefi_console, then the framebuffer console takes over; a
\* mutated form disables the firmware's console only after the warning.
DisablesLate ==
  /\ pc = "handover"
  /\ active' = (info = "linear")
  /\ UEFI_CONSOLE_ACTIVE' = FALSE
  /\ calls' = IF active' THEN calls ELSE calls + 1
  /\ pc' = "parse"
  /\ UNCHANGED <<tables, index, rsdp, info, exiting, firmware>>

disable_uefi_console ==
  /\ pc = "handover"
  /\ UEFI_CONSOLE_ACTIVE' = FALSE
  /\ pc' = "framebuffer"
  /\ UNCHANGED <<tables, index, rsdp, info, active, exiting, firmware, calls>>

framebuffer_init ==
  /\ pc = "framebuffer"
  /\ active' = (info = "linear")
  /\ IF active' THEN UNCHANGED <<firmware, calls>> ELSE klog
  /\ pc' = "parse"
  /\ UNCHANGED <<tables, index, rsdp, info, UEFI_CONSOLE_ACTIVE, exiting>>

\* memory::init_from_uefi reads the buffer.
init_from_uefi ==
  /\ pc = "parse"
  /\ parsed' = buf
  /\ pc' = "kernel_main"
  /\ UNCHANGED <<kernel, tries, map_key, buf, firmware, calls>>

\* The first line of kernel_main; every later klog of the kernel is like it.
kernel_main ==
  /\ pc = "kernel_main"
  /\ klog
  /\ pc' = "running"
  /\ UNCHANGED <<kernel, exiting>>

Next ==
  \/ MapChanges
  \/ find_gop
  \/ find_rsdp_entry
  \/ find_rsdp_ends
  \/ warn_no_rsdp
  \/ log_exiting
  \/ get_memory_map
  \/ get_memory_map_fails
  \/ exit_boot_services
  \/ boot_panic
  \/ disable_uefi_console
  \/ framebuffer_init
  \/ init_from_uefi
  \/ kernel_main

Spec == Init /\ [][Next]_vars

-----------------------------------------------------------------------------

\* The memory map the kernel builds its memory from is the one the firmware
\* left behind, whatever the firmware did to it between GetMemoryMap and
\* ExitBootServices (exit_boot_services, memory::init_from_uefi in efi_main).
ParsedMapIsFinal == parsed # 0 => exited /\ parsed = map

\* Once boot services are exited no step calls the firmware, through klog
\* included ("no UEFI calls past this point" in efi_main).
NoFirmwareCallAfterExit == [][calls' # calls => ~exited]_vars

\* Booting is given up only when GetMemoryMap failed or the firmware changed
\* the map on its own in every one of the attempts: nothing the kernel does
\* between the two calls costs it an attempt (exit_boot_services).
HaltNotSelfInflicted == pc \in {"failed", "halted"} => fails \/ changes >= MAX_TRIES

FirstOf(guid) ==
  LET S == {i \in DOMAIN tables : tables[i] = guid}
  IN  IF S = {} THEN 0 ELSE CHOOSE i \in S : \A j \in S : i <= j

\* The RSDP find_rsdp settles on is the first ACPI 2.0 entry of the table, or
\* the first ACPI 1.0 entry when there is none, or absent.
RsdpPreferred ==
  index > Len(tables) =>
    rsdp = IF FirstOf("acpi20") # 0 THEN FirstOf("acpi20") ELSE FirstOf("acpi10")
=============================================================================
