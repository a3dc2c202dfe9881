---------------------------- MODULE MCInterrupts ----------------------------
(* Machines: one or two IOAPICs of four pins, with and without an override   *)
(* of the timer's interrupt, also onto last pins and onto no IOAPIC at all.  *)
EXTENDS Interrupts

Cpu == [type |-> "cpu"]
Io(base) == [type |-> "ioapic", base |-> base, max |-> 3]
Iso(source, gsi, level, low) ==
  [type |-> "iso", source |-> source, gsi |-> gsi, level |-> level, low |-> low]
Edge(source, gsi) == Iso(source, gsi, FALSE, FALSE)

MCMadts == {
  <<Cpu, Io(0)>>,
  <<Cpu, Io(0), Edge(0, 2), Iso(1, 1, TRUE, TRUE)>>,
  <<Iso(1, 2, TRUE, FALSE), Iso(0, 5, TRUE, TRUE), Io(0), Io(4)>>,
  <<Io(4), Cpu, Io(0), Edge(0, 2)>>,
  <<Cpu, Io(0), Io(4), Edge(0, 3)>>,
  <<Cpu, Io(0), Io(4), Edge(0, 7)>>,
  <<Io(0), Edge(0, 6)>>,
  <<Cpu>>}
=============================================================================
