------------------------------- MODULE IoApic -------------------------------
(***************************************************************************)
(* From the firmware's ACPI tables to the I/O APIC's redirection table:    *)
(* acpi::init and parse_madt (src/src/acpi.rs), configure_from_acpi,       *)
(* init_ioapic and the routing calls of src/src/apic.rs, in the order      *)
(* kernel_main makes them (src/src/main.rs), with the mapping of the APIC  *)
(* registers by vmm::init in between.                                      *)
(*                                                                         *)
(* A root table lists tables, a MADT is the list of its entries; "sum"     *)
(* tells whether the bytes of a table add up to zero.  A pin of the I/O    *)
(* APIC holds a vector, the polarity and trigger bits and the mask bit.    *)
(***************************************************************************)
EXTENDS Integers, Sequences

CONSTANTS Rsdps,            \* the RSDPs a firmware may leave
          NoRsdp,           \* the firmware has none
          NoTable,          \* a table address of 0
          NoMadt,           \* acpi::init has found no MADT
          Irqs,             \* ISA IRQ numbers
          Cascade,          \* the IRQ no device is on (2 on a PC)
          max_entries,      \* pins of the I/O APIC
          MAX_IOAPICS, MAX_OVERRIDES,
          LAPIC_DEFAULT_BASE, IOAPIC_DEFAULT_BASE,
          OtherVector       \* a vector callers route to besides 0x20 + irq

Pins == 0 .. max_entries - 1

ASSUME IoApicAssumption ==
  /\ Irqs \subseteq Pins /\ Cascade \in Irqs
  /\ max_entries \in 1 .. 120 /\ MAX_IOAPICS \in Nat /\ MAX_OVERRIDES \in Nat

VARIABLES rsdp,                     \* the firmware's RSDP
          madt,                     \* the entries of the MADT that was found
          entry,                    \* parse_madt's position
          lapic_address, ioapics, overrides, MADT_VALID,
          LAPIC_BASE, IOAPIC_BASE,
          mapped,                   \* the APIC addresses vmm::init mapped
          redir,                    \* the redirection table
          wanted, vectors,          \* what callers last asked for, per IRQ
          pc

vars == <<rsdp, madt, entry, lapic_address, ioapics, overrides, MADT_VALID,
          LAPIC_BASE, IOAPIC_BASE, mapped, redir, wanted, vectors, pc>>

Reset == [vector |-> 0, flags |-> 0, masked |-> TRUE]
Vector(irq) == 32 + irq

Init ==
  /\ rsdp \in Rsdps \cup {NoRsdp} /\ madt = NoMadt
  /\ entry = 1
  /\ lapic_address = 0 /\ ioapics = <<>> /\ overrides = <<>>
  /\ MADT_VALID = FALSE
  /\ LAPIC_BASE = LAPIC_DEFAULT_BASE /\ IOAPIC_BASE = IOAPIC_DEFAULT_BASE
  /\ mapped = {}
  /\ redir \in [Pins -> {Reset, [Reset EXCEPT !.masked = FALSE]}]
  /\ wanted = {} /\ vectors = [irq \in Irqs |-> Vector(irq)]
  /\ pc = "acpi"

-----------------------------------------------------------------------------

(***************************************************************************)
(* Parsing.                                                                *)
(***************************************************************************)
\* The XSDT counts from revision 2 on, if there is one.
RootTable ==
  IF rsdp.revision >= 2 /\ rsdp.xsdt # NoTable THEN rsdp.xsdt ELSE rsdp.rsdt

\* Every entry of the root table is looked at; the last MADT counts.
MadtIndices == {i \in DOMAIN RootTable.tables : RootTable.tables[i].signature = "APIC"}
FoundMadt == RootTable.tables[CHOOSE i \in MadtIndices :
                                \A j \in MadtIndices : j <= i]

\* None of NoRsdp, BadRsdpChecksum, BadTableChecksum and NoMadt, nor the check
\* at the head of parse_madt.
TablesGood ==
  rsdp # NoRsdp /\ rsdp.sum /\ RootTable.sum /\ MadtIndices # {} /\ FoundMadt.sum

acpi_init_fails ==
  /\ pc = "acpi" /\ ~TablesGood
  /\ pc' = "configure"
  /\ UNCHANGED <<rsdp, madt, entry, lapic_address, ioapics, overrides, MADT_VALID,
                 LAPIC_BASE, IOAPIC_BASE, mapped, redir, wanted, vectors>>

\* parse_madt starts: the local APIC address of the table's own header.
acpi_init ==
  /\ pc = "acpi" /\ TablesGood
  /\ madt' = FoundMadt.entries
  /\ lapic_address' = FoundMadt.lapic
  /\ pc' = "parse"
  /\ UNCHANGED <<rsdp, entry, ioapics, overrides, MADT_VALID, LAPIC_BASE,
                 IOAPIC_BASE, mapped, redir, wanted, vectors>>

\* Appending within a fixed array.
Record(array, x, limit) == IF Len(array) < limit THEN Append(array, x) ELSE array

\* The loop ends with the table, or at an entry whose length cannot be right.
MoreEntries == entry <= Len(madt) /\ madt[entry].kind # "malformed"

\* One entry of the table; unknown kinds are skipped.
parse_madt ==
  /\ pc = "parse"
  /\ MoreEntries
  /\ LET e == madt[entry]
     IN  /\ ioapics' = IF e.kind = "ioapic"
                       THEN Record(ioapics, e, MAX_IOAPICS) ELSE ioapics
         /\ overrides' = IF e.kind = "override"
                         THEN Record(overrides, e, MAX_OVERRIDES) ELSE overrides
         /\ lapic_address' = IF e.kind = "lapic64"
                             THEN e.address ELSE lapic_address
  /\ entry' = entry + 1
  /\ UNCHANGED <<rsdp, madt, MADT_VALID, LAPIC_BASE, IOAPIC_BASE, mapped, redir,
                 wanted, vectors, pc>>

\* What was read so far is valid.
parse_madt_ends ==
  /\ pc = "parse"
  /\ ~MoreEntries
  /\ MADT_VALID' = TRUE
  /\ pc' = "configure"
  /\ UNCHANGED <<rsdp, madt, entry, lapic_address, ioapics, overrides, LAPIC_BASE,
                 IOAPIC_BASE, mapped, redir, wanted, vectors>>

\* The I/O APICs that own GSI 0, and the mutated form.
AnyIoApic == DOMAIN ioapics
OwnsGsiZero == {i \in DOMAIN ioapics : ioapics[i].gsi_base = 0}

configure_from_acpi ==
  /\ pc = "configure"
  /\ LAPIC_BASE' = IF MADT_VALID /\ lapic_address # 0 THEN lapic_address ELSE LAPIC_BASE
  /\ IOAPIC_BASE' = IF OwnsGsiZero = {} THEN IOAPIC_BASE
                    ELSE ioapics[CHOOSE i \in OwnsGsiZero :
                                   \A j \in OwnsGsiZero : j <= i].address
  /\ pc' = "vmm"
  /\ UNCHANGED <<rsdp, madt, entry, lapic_address, ioapics, overrides, MADT_VALID,
                 mapped, redir, wanted, vectors>>

\* vmm::init, Step 2: the pages of the two APICs.
vmm_init ==
  /\ pc = "vmm"
  /\ mapped' = {LAPIC_BASE, IOAPIC_BASE}
  /\ pc' = "mask"
  /\ UNCHANGED <<rsdp, madt, entry, lapic_address, ioapics, overrides, MADT_VALID,
                 LAPIC_BASE, IOAPIC_BASE, redir, wanted, vectors>>

-----------------------------------------------------------------------------

(***************************************************************************)
(* The redirection table.                                                  *)
(***************************************************************************)

\* The pin whose low register a pin number selects: register numbers are u8,
\* and there is nothing behind the ones past the last pin.
Selected(pin) == (((16 + 2 * pin) % 256) - 16) \div 2

write_redirection(table, pin, vector, flags, masked) ==
  [p \in Pins |-> IF p = Selected(pin)
                  THEN [vector |-> vector, flags |-> flags, masked |-> masked]
                  ELSE table[p]]

\* The first override of an IRQ counts; without one, GSI n is IRQ n.
isa_irq_to_gsi(irq) ==
  LET hits == {i \in DOMAIN overrides : MADT_VALID /\ overrides[i].irq = irq}
  IN  IF hits = {} THEN [gsi |-> irq, flags |-> 0]
      ELSE LET i == CHOOSE i \in hits : \A j \in hits : i <= j
           IN  [gsi |-> overrides[i].gsi, flags |-> overrides[i].flags]

\* IOAPIC_GSI_BASE is 0 throughout.
isa_irq_pin(irq) == isa_irq_to_gsi(irq).gsi

\* Overrides applied to a table, in their order; those of other I/O APICs are
\* left out.
Applied(table) ==
  LET at[i \in 0 .. Len(overrides)] ==
        IF i = 0 THEN table
        ELSE LET t == at[i - 1]
                 o == overrides[i]
             IN  IF o.gsi \in Pins
                 THEN write_redirection(t, o.gsi, Vector(o.irq), o.flags, TRUE)
                 ELSE t
  IN  at[Len(overrides)]

\* Mutated form of init_ioapic: pins without an override are left as the firmware had them.
OverridesOnly ==
  /\ pc = "mask"
  /\ redir' = IF MADT_VALID THEN Applied(redir) ELSE redir
  /\ pc' = "run"
  /\ UNCHANGED <<rsdp, madt, entry, lapic_address, ioapics, overrides, MADT_VALID,
                 LAPIC_BASE, IOAPIC_BASE, mapped, wanted, vectors>>

\* Mask every pin, pin n to vector 0x20 + n, then re-route the overrides.
init_ioapic ==
  /\ pc = "mask"
  /\ LET table == [p \in Pins |-> [Reset EXCEPT !.vector = Vector(p)]]
     IN  redir' = IF MADT_VALID THEN Applied(table) ELSE table
  /\ pc' = "run"
  /\ UNCHANGED <<rsdp, madt, entry, lapic_address, ioapics, overrides, MADT_VALID,
                 LAPIC_BASE, IOAPIC_BASE, mapped, wanted, vectors>>

\* The mask bit of the selected pin; the rest of the entry is read back.
SetMask(irq, m) ==
  redir' = [p \in Pins |-> IF p = Selected(isa_irq_pin(irq))
                           THEN [redir[p] EXCEPT !.masked = m] ELSE redir[p]]

unmask_irq(irq) ==
  /\ pc = "run"
  /\ SetMask(irq, FALSE)
  /\ wanted' = wanted \cup {irq}
  /\ UNCHANGED <<rsdp, madt, entry, lapic_address, ioapics, overrides, MADT_VALID,
                 LAPIC_BASE, IOAPIC_BASE, mapped, vectors, pc>>

mask_irq(irq) ==
  /\ pc = "run"
  /\ SetMask(irq, TRUE)
  /\ wanted' = wanted \ {irq}
  /\ UNCHANGED <<rsdp, madt, entry, lapic_address, ioapics, overrides, MADT_VALID,
                 LAPIC_BASE, IOAPIC_BASE, mapped, vectors, pc>>

\* Mutated form of route_irq: the override's polarity and trigger mode are not kept.
RoutesEdgeHigh(irq, vector, masked) ==
  /\ pc = "run"
  /\ redir' = write_redirection(redir, isa_irq_pin(irq), vector, 0, masked)
  /\ wanted' = IF masked THEN wanted \ {irq} ELSE wanted \cup {irq}
  /\ vectors' = [vectors EXCEPT ![irq] = vector]
  /\ UNCHANGED <<rsdp, madt, entry, lapic_address, ioapics, overrides, MADT_VALID,
                 LAPIC_BASE, IOAPIC_BASE, mapped, pc>>

route_irq(irq, vector, masked) ==
  /\ pc = "run"
  /\ redir' = write_redirection(redir, isa_irq_pin(irq), vector,
                                isa_irq_to_gsi(irq).flags, masked)
  /\ wanted' = IF masked THEN wanted \ {irq} ELSE wanted \cup {irq}
  /\ vectors' = [vectors EXCEPT ![irq] = vector]
  /\ UNCHANGED <<rsdp, madt, entry, lapic_address, ioapics, overrides, MADT_VALID,
                 LAPIC_BASE, IOAPIC_BASE, mapped, pc>>

BeforeApic == \/ acpi_init_fails \/ acpi_init \/ parse_madt \/ parse_madt_ends
              \/ configure_from_acpi \/ vmm_init

\* Callers ask for the IRQs devices are on.
Routing ==
  \E irq \in Irqs \ {Cascade} :
    \/ unmask_irq(irq) \/ mask_irq(irq)
    \/ \E v \in {Vector(irq), OtherVector}, m \in BOOLEAN : route_irq(irq, v, m)

-----------------------------------------------------------------------------

(***************************************************************************)
(* Properties.                                                             *)
(***************************************************************************)

\* An IRQ whose pin is one of this I/O APIC's and is not claimed by another
\* device's IRQ.
OwnPin(irq) ==
  /\ isa_irq_pin(irq) \in Pins
  /\ \A other \in Irqs \ {irq, Cascade} : isa_irq_pin(other) # isa_irq_pin(irq)

\* Once the kernel runs, the pin that the routing calls find for a device's
\* IRQ (isa_irq_to_gsi takes the first override) is set up the way
\* init_ioapic left it (which writes every override) or route_irq asked for:
\* the IRQ's vector, with the polarity and trigger mode of its override.
PinsCarryTheirIrq ==
  pc = "run" =>
    \A irq \in Irqs \ {Cascade} : OwnPin(irq) =>
      /\ redir[isa_irq_pin(irq)].vector = vectors[irq]
      /\ redir[isa_irq_pin(irq)].flags = isa_irq_to_gsi(irq).flags

\* A pin is open exactly when a device's IRQ on it was asked for last: what
\* the firmware left open is closed, and asking for one IRQ opens no other.
OpenPinsWanted ==
  pc = "run" =>
    \A p \in Pins :
      ~redir[p].masked => \E irq \in wanted : isa_irq_pin(irq) = p

\* The APIC registers the kernel uses are the ones vmm::init mapped, the
\* I/O APIC being one that owns GSI 0 if the MADT names any, and both at their
\* default addresses unless a MADT passed every check on the way to it
\* ("Must run before vmm::init maps the APIC MMIO", src/src/apic.rs:45).
ApicsMapped ==
  /\ pc \in {"mask", "run"} => mapped = {LAPIC_BASE, IOAPIC_BASE}
  /\ (pc \in {"mask", "run"} /\ ~MADT_VALID) =>
       mapped = {LAPIC_DEFAULT_BASE, IOAPIC_DEFAULT_BASE}
  /\ \A i \in DOMAIN ioapics :
       (pc \in {"mask", "run"} /\ ioapics[i].gsi_base = 0) =>
         \E j \in DOMAIN ioapics :
           ioapics[j].gsi_base = 0 /\ IOAPIC_BASE = ioapics[j].address
=============================================================================
