----------------------------- MODULE Interrupts -----------------------------
(***************************************************************************)
(* How a device interrupt reaches its handler: the IDT (idt.cc), the table *)
(* of IRQ handlers (irq.cc), the IOAPIC's redirection entries set from the *)
(* ACPI MADT (ioapic.cc), the local APIC's in-service bit (lapic.cc), and  *)
(* the handlers uACPI installs (acpi_kapi.cc), in the order kern.cc starts *)
(* them.  Vectors 0..Exc-1 are the exceptions (32), the next Lines ones    *)
(* have IRQ stubs (16), Extra and the last, the spurious vector, have stubs*)
(* like the exceptions, and the ones between have none.                    *)
(***************************************************************************)
EXTENDS Integers, Sequences, SequencesExt

CONSTANTS
  Exc, Lines, Vecs,    \* 32, 16 and 256
  Extra,               \* 0xF0
  W8,                  \* 2^8, the width of u8
  Madts,               \* the MADTs a machine may have, as sequences of entries
  Ids,                 \* local APIC ids the boot processor may have
  IrqNumbers, Handlers, Contexts,   \* arguments of install
  None                 \* nullptr

Vec == 0..(Vecs - 1)
TimerVec == Exc
Spurious == Vecs - 1
Stub(v) ==
  IF v < Exc \/ v \in {Extra, Spurious} THEN "isr" ELSE IF v < Exc + Lines THEN "irq" ELSE "null"

IsIoapic(e) == e.type = "ioapic"
IsIso(e) == e.type = "iso"
Gsis(e) == e.base..(e.base + e.max)   \* the global interrupts of an IOAPIC

\* A machine's MADT is a sequence of entries, and no two of its IOAPICs have a
\* global interrupt in common.
ASSUME MadtAssumption ==
  \A m \in Madts :
    /\ m \in Seq({m[k] : k \in DOMAIN m})
    /\ \A k \in DOMAIN m : IsIoapic(m[k]) => m[k].base \in Nat /\ m[k].max \in Nat
    /\ \A k \in DOMAIN m :
         IsIso(m[k]) => m[k].gsi \in Nat /\ m[k].level \in BOOLEAN /\ m[k].low \in BOOLEAN
    /\ \A k, l \in DOMAIN m :
         k # l /\ IsIoapic(m[k]) /\ IsIoapic(m[l]) => Gsis(m[k]) \cap Gsis(m[l]) = {}

ASSUME InterruptsAssumption ==
  /\ Exc \in Nat \ {0} /\ Lines \in Nat \ {0} /\ Vecs \in Nat /\ Exc + Lines < Vecs
  /\ Extra \in (Exc + Lines)..(Vecs - 1)
  /\ W8 \in Nat \ {0} /\ IrqNumbers \subseteq Vec /\ None \notin Handlers \cup Contexts

VARIABLES
  stage,      \* how far _kernel_pre_setup has come
  gates,      \* idt: per vector, its stub and interrupt stack, or NoGate
  handlers,   \* irq_handlers
  madt,       \* the firmware's table
  current,    \* the entry of it that IOAPIC::init comes to next
  apics, isos,\* what IOAPIC::init copied from it
  redir,      \* the redirection entry of each pin <<IOAPIC's gsi_base, pin>>
  self,       \* LAPIC::id() of the boot processor
  irr, isr,   \* vectors requested and in service at the local APIC
  enabled,    \* the interrupt flag
  ticks,      \* parity of timer_interrupt_count
  table,      \* uacpi_handlers
  given,      \* the handler and context of the install not yet undone, per irq
  op          \* the uACPI call under way: kind, irq and next step

acpi == <<madt, current, apics, isos, self>>
boot == <<stage, acpi>>
cpu == <<irr, isr, enabled, ticks>>
uacpi == <<table, given, op>>
vars == <<boot, gates, handlers, redir, cpu, uacpi>>

NoGate == [stub |-> "none", ist |-> 0]
Gate(stub, ist) == [stub |-> stub, ist |-> ist]   \* register_entry_with_ist
Reset == [vec |-> 0, masked |-> TRUE, dest |-> 0, level |-> FALSE, low |-> FALSE]
EmptySlot == [handler |-> None, ctx |-> None, installed |-> FALSE]
NoOp == [kind |-> "none", irq |-> 0, step |-> 0]

PinsOf(m) == UNION {{<<m[k].base, p>> : p \in 0..m[k].max} : k \in {k \in DOMAIN m : IsIoapic(m[k])}}

\* The boot loader hands over with every legacy and IOAPIC interrupt masked.
Init ==
  /\ stage = "idt"
  /\ gates = [v \in Vec |-> NoGate] /\ handlers = [v \in Vec |-> "none"]
  /\ madt \in Madts /\ current = 1 /\ apics = <<>> /\ isos = <<>>
  /\ redir = [p \in PinsOf(madt) |-> Reset]
  /\ self \in Ids
  /\ irr = {} /\ isr = {} /\ enabled = FALSE /\ ticks = 0
  /\ table = [n \in IrqNumbers |-> EmptySlot]
  /\ given = [n \in IrqNumbers |-> <<None, None>>]
  /\ op = NoOp

-----------------------------------------------------------------------------
(* Start-up. *)

\* IDT::init: the exceptions, 0xF0 and the spurious vector, on the exception stack;
\* then sti.
IdtInit ==
  /\ stage = "idt" /\ stage' = "ioapic"
  /\ gates' = [v \in Vec |-> IF Stub(v) = "isr" THEN Gate("isr", 1) ELSE gates[v]]
  /\ enabled' = TRUE
  /\ UNCHANGED <<acpi, handlers, redir, irr, isr, ticks, uacpi>>

\* IOAPIC::init walks the MADT and copies the entries it knows.
Copied(list, known) == IF known THEN Append(list, madt[current]) ELSE list
IoapicEntry ==
  /\ stage = "ioapic" /\ current <= Len(madt) /\ current' = current + 1
  /\ apics' = Copied(apics, IsIoapic(madt[current]))
  /\ isos' = Copied(isos, IsIso(madt[current]))
  /\ UNCHANGED <<stage, madt, self, gates, handlers, redir, cpu, uacpi>>

IoapicInit ==
  /\ stage = "ioapic" /\ current > Len(madt) /\ stage' = "register"
  /\ UNCHANGED <<acpi, gates, handlers, redir, cpu, uacpi>>

\* IRQ::register_entry.
Registered(n, h) ==
  /\ handlers' = [handlers EXCEPT ![n] = h]
  /\ gates' = [gates EXCEPT ![n] = Gate(Stub(n), 2)]

\* Mutant: the handler is registered under its vector only.
RegisterTimerVector ==
  /\ stage = "register" /\ stage' = "route"
  /\ Registered(TimerVec, "timer")
  /\ UNCHANGED <<acpi, redir, cpu, uacpi>>

\* IRQ::init up to IOAPIC::set.
RegisterTimer ==
  /\ stage = "register" /\ stage' = "route"
  /\ handlers' = [handlers EXCEPT ![TimerVec] = "timer", ![0] = "timer"]
  /\ gates' = [gates EXCEPT ![TimerVec] = Gate(Stub(TimerVec), 2)]
  /\ UNCHANGED <<acpi, redir, cpu, uacpi>>

\* IOAPIC::set for irq 0.  The override is the first that names the irq.
Override == SelectInSeq(isos, LAMBDA o : o.source = 0)
ActualIrqLegacy == 0   \* Mutant: overrides are ignored.
ActualIrq == IF Override = 0 THEN 0 ELSE isos[Override].gsi % W8

\* The search takes the first IOAPIC that holds the irq below its last pin,
\* and the last one when none does.
Holds(a) == a.base <= ActualIrq /\ a.base + a.max > ActualIrq
ChosenApic ==
  LET first == SelectInSeq(apics, Holds) IN apics[IF first = 0 THEN Len(apics) ELSE first]
ChosenPin == <<ChosenApic.base, ActualIrq - ChosenApic.base>>

\* A register behind the last pin does not exist, and the write is lost.
Written(f) ==
  redir' = IF ChosenPin \in DOMAIN redir
           THEN [redir EXCEPT ![ChosenPin] = f] ELSE redir

NoIoapic ==
  /\ stage = "route" /\ apics = <<>> /\ stage' = "up"
  /\ UNCHANGED <<acpi, gates, handlers, redir, cpu, uacpi>>

\* The low word: vector, mode bits, unmasked.
RouteLow ==
  /\ stage = "route" /\ apics # <<>> /\ stage' = "route_high"
  /\ Written([vec |-> TimerVec, masked |-> FALSE, dest |-> 0,
              level |-> Override # 0 /\ isos[Override].level,
              low |-> Override # 0 /\ isos[Override].low])
  /\ UNCHANGED <<acpi, gates, handlers, cpu, uacpi>>

\* The high word: the destination.
RouteHigh ==
  /\ stage = "route_high" /\ stage' = "up"
  /\ IF ChosenPin \in DOMAIN redir
     THEN redir' = [redir EXCEPT ![ChosenPin].dest = self] ELSE UNCHANGED redir
  /\ UNCHANGED <<acpi, gates, handlers, cpu, uacpi>>

-----------------------------------------------------------------------------
(* Interrupts. *)

\* The wire of the timer: the firmware says which global interrupt it is.
TimerGsi ==
  LET k == SelectInSeq(madt, LAMBDA e : IsIso(e) /\ e.source = 0)
  IN IF k = 0 THEN 0 ELSE madt[k].gsi
TimerPin == {p \in DOMAIN redir : p[1] + p[2] = TimerGsi}

\* An edge on it reaches the local APIC the entry names.
TimerEdge ==
  /\ stage # "off"
  /\ \E p \in TimerPin :
       /\ ~redir[p].masked /\ redir[p].dest = self
       /\ irr' = irr \cup {redir[p].vec}
  /\ UNCHANGED <<boot, gates, handlers, redir, isr, enabled, ticks, uacpi>>

EoiForgotten(s) == s   \* Mutant.
\* LAPIC::eoi ends the interrupt in service; only one can be, as gates clear IF.
Eoi(s) == {}

\* The gate's stub pushes the line's number and calls irq_handler, which
\* calls the line's handler and ends with LAPIC::eoi.  The bridge only reads.
Dispatch(v) ==
  /\ stage # "off" /\ enabled /\ v \in irr /\ isr = {}
  /\ gates[v].stub = "irq"
  /\ ticks' = IF handlers[v - Exc] = "timer" THEN 1 - ticks ELSE ticks
  /\ irr' = irr \ {v} /\ isr' = Eoi(isr \cup {v})
  /\ UNCHANGED <<boot, gates, handlers, redir, enabled, uacpi>>

\* What the bridge calls for irq n, if an interrupt came now.
BridgeCall(n) ==
  IF table[n].installed /\ table[n].handler # None
  THEN <<table[n].handler, table[n].ctx>> ELSE <<None, None>>

-----------------------------------------------------------------------------
(* uACPI's calls, one store at a time: interrupts come between any two. *)

InstallOrderEarly == <<"installed", "handler", "ctx">>   \* Mutant.
InstallOrder == <<"handler", "ctx", "installed">>
UninstallOrder == <<"installed", "handler", "ctx">>
Stores(order, k, n, slot) == table' = [table EXCEPT ![n] = [@ EXCEPT ![order[k]] = slot[order[k]]]]

Install(n, h, c) ==
  /\ stage = "up" /\ op = NoOp
  /\ ~table[n].installed
  /\ op' = [kind |-> "install", irq |-> n, step |-> 1]
  /\ given' = [given EXCEPT ![n] = <<h, c>>]
  /\ UNCHANGED <<boot, gates, handlers, redir, cpu, table>>

InstallStore ==
  /\ op.kind = "install" /\ op.step <= Len(InstallOrder)
  /\ Stores(InstallOrder, op.step, op.irq,
            [handler |-> given[op.irq][1], ctx |-> given[op.irq][2], installed |-> TRUE])
  /\ op' = [op EXCEPT !.step = @ + 1]
  /\ UNCHANGED <<boot, gates, handlers, redir, cpu, given>>

InstallRegister ==
  /\ op.kind = "install" /\ op.step > Len(InstallOrder)
  /\ Registered(op.irq, "bridge")
  /\ op' = NoOp
  /\ UNCHANGED <<boot, redir, cpu, table, given>>

\* Only with the handler that is installed; the entry in irq_handlers stays.
Uninstall(n, h) ==
  /\ stage = "up" /\ op = NoOp
  /\ table[n].installed /\ table[n].handler = h
  /\ op' = [kind |-> "uninstall", irq |-> n, step |-> 1]
  /\ UNCHANGED <<boot, gates, handlers, redir, cpu, table, given>>

UninstallStore ==
  /\ op.kind = "uninstall"
  /\ Stores(UninstallOrder, op.step, op.irq, EmptySlot)
  /\ IF op.step < Len(UninstallOrder)
     THEN op' = [op EXCEPT !.step = @ + 1] /\ UNCHANGED given
     ELSE op' = NoOp /\ given' = [given EXCEPT ![op.irq] = <<None, None>>]
  /\ UNCHANGED <<boot, gates, handlers, redir, cpu>>

\* Sys::ACPI::shutdown: cli, then a request to power off that may fail.
Shutdown(fails) ==
  /\ stage = "up" /\ op = NoOp
  /\ enabled' = FALSE
  /\ stage' = IF fails THEN stage ELSE "off"
  /\ UNCHANGED <<acpi, gates, handlers, redir, irr, isr, ticks, uacpi>>

-----------------------------------------------------------------------------
StartUp ==
  IdtInit \/ IoapicEntry \/ IoapicInit \/ RegisterTimer \/ NoIoapic \/ RouteLow \/ RouteHigh
Interrupt == \E v \in Vec : Dispatch(v)
UacpiCall ==
  \/ \E n \in IrqNumbers, h \in Handlers, c \in Contexts : Install(n, h, c)
  \/ \E n \in IrqNumbers, h \in Handlers : Uninstall(n, h)
  \/ \E fails \in BOOLEAN : Shutdown(fails)
UacpiStep == InstallStore \/ InstallRegister \/ UninstallStore

Next == StartUp \/ TimerEdge \/ Interrupt \/ UacpiCall \/ UacpiStep

\* The processor takes an interrupt that it may take.
Spec == Init /\ [][Next]_vars /\ WF_vars(Interrupt)

-----------------------------------------------------------------------------
\* The IOAPICs that have the timer's pin, whether the search finds one, and the
\* mode the firmware gives.
Owners == {k \in DOMAIN apics : TimerGsi \in Gsis(apics[k])}
Findable == \E k \in Owners : TimerGsi < apics[k].base + apics[k].max \/ k = Len(apics)
FirmwareMode ==
  LET k == SelectInSeq(madt, LAMBDA e : IsIso(e) /\ e.source = 0)
  IN IF k = 0 THEN <<FALSE, FALSE>> ELSE <<madt[k].level, madt[k].low>>

\* After start-up the timer's own pin, and no other, is routed to the boot
\* processor with the polarity and trigger mode the firmware gives, if its
\* global interrupt fits the u8 that IOAPIC::set keeps it in.  The firmware may
\* put the timer on the last pin of an IOAPIC that is not the last one listed,
\* or on no IOAPIC: then nothing is routed (the search of IOAPIC::set leaves
\* out each IOAPIC's last pin).
TimerRouted ==
  stage = "up" /\ TimerGsi < W8 =>
    /\ {p \in DOMAIN redir : ~redir[p].masked} = (IF Findable THEN TimerPin ELSE {})
    /\ \A p \in DOMAIN redir : ~redir[p].masked =>
         /\ redir[p].vec = TimerVec /\ redir[p].dest = self
         /\ <<redir[p].level, redir[p].low>> = FirmwareMode

\* No interrupt can be requested for a vector without a gate, an IRQ stub
\* and a handler: IRQ::init registers the handler before it routes the line,
\* and nothing uACPI installs takes that away.
GateBeforeRoute ==
  \A p \in DOMAIN redir : ~redir[p].masked =>
    /\ gates[redir[p].vec] = Gate("irq", 2)
    /\ handlers[redir[p].vec - Exc] # "none"

\* Whenever an interrupt comes during install or uninstall, the bridge calls
\* nothing or the installed handler with its own context.
HandlerGetsItsContext ==
  \A n \in IrqNumbers : BridgeCall(n) \in {<<None, None>>, given[n]}

\* A timer interrupt that is requested is taken, again and again (irq_handler
\* signals the end of each), and counted, unless uACPI has taken irq 0, which
\* uninstall does not give back, or a failed shutdown left interrupts off.
TimerServed ==
  /\ [][(TimerVec \in irr /\ TimerVec \notin irr') => (ticks' # ticks \/ handlers[0] = "bridge")]_vars
  /\ TimerVec \in irr ~> TimerVec \notin irr \/ (stage = "up" /\ ~enabled) \/ stage = "off"
=============================================================================
