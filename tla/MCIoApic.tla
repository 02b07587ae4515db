------------------------------ MODULE MCIoApic ------------------------------
(***************************************************************************)
(* ACPI tables for IoApic: I/O APICs in either order, more of them than    *)
(* there is room for, overrides that move, keep, repeat or send an IRQ to  *)
(* another I/O APIC, too many overrides, and a MADT cut short; tables with *)
(* wrong checksums, two MADTs, none, an RSDT beside or instead of an XSDT. *)
(***************************************************************************)
EXTENDS Timer

O(irq, gsi, flags) == [kind |-> "override", irq |-> irq, gsi |-> gsi, flags |-> flags]
A(address, base) == [kind |-> "ioapic", address |-> address, gsi_base |-> base]
L64(address) == [kind |-> "lapic64", address |-> address]
Cpu == [kind |-> "cpu"]
Bad == [kind |-> "malformed"]

Madt(lapic, entries) ==
  [signature |-> "APIC", sum |-> TRUE, lapic |-> lapic, entries |-> entries]
Broken == [Madt(103, <<A(203, 0)>>) EXCEPT !.sum = FALSE]
Facp == [signature |-> "FACP", sum |-> TRUE]
Root(tables) == [sum |-> TRUE, tables |-> tables]
Rsdp(revision, rsdt, xsdt) ==
  [sum |-> TRUE, revision |-> revision, rsdt |-> rsdt, xsdt |-> xsdt]
Old == Root(<<Madt(104, <<A(204, 0)>>)>>)

Madts ==
  {Madt(100, <<Cpu, A(200, 0), O(0, 2, 0), O(3, 3, 1)>>),
   Madt(0, <<A(201, 8), A(200, 0), O(0, 2, 0)>>),
   Madt(100, <<A(200, 0), O(1, 30, 1), O(0, 2, 2), L64(101)>>),
   Madt(100, <<A(201, 8), A(202, 16), A(200, 0), O(3, 5, 1), O(3, 4, 3)>>),
   Madt(100, <<O(0, 2, 0), O(1, 4, 1), O(3, 3, 3), O(3, 5, 1)>>),
   Madt(100, <<A(200, 0), A(201, 8), O(0, 1, 0), O(1, 4, 1)>>),
   Madt(100, <<A(200, 0), Bad, O(0, 2, 0)>>)}

MCRsdps ==
  {Rsdp(2, Old, Root(<<Facp, t>>)) : t \in Madts}
    \cup {Rsdp(0, Old, Root(<<>>)), Rsdp(2, Old, NoTable),
          Rsdp(2, Old, Root(<<Broken, Madt(100, <<A(200, 0)>>)>>)),
          Rsdp(2, Old, Root(<<Madt(100, <<A(200, 0)>>), Broken>>)),
          Rsdp(2, Old, Root(<<Facp>>)),
          Rsdp(2, Old, [sum |-> FALSE, tables |-> <<>>]),
          [Rsdp(2, Old, Old) EXCEPT !.sum = FALSE]}
=============================================================================
