-------------------------- MODULE InterruptsProofs --------------------------
(***************************************************************************)
(* For any number of vectors, lines and machines: an interrupt that comes  *)
(* between two stores of uACPI's calls never meets a handler with another  *)
(* context, no line is unmasked before its vector has gate and handler,    *)
(* and the line that is unmasked is the timer's.  Interrupts are taken at  *)
(* any moment, so these are invariants of every single store.              *)
(***************************************************************************)
EXTENDS Interrupts, TLAPS, WellFoundedInduction, NaturalsInduction

\* The provers of the leaves that name none.
USE SMTT(30), ZenonT(30)

Slot == [handler : Handlers \cup {None}, ctx : Contexts \cup {None}, installed : BOOLEAN]
Pair == (Handlers \cup {None}) \X (Contexts \cup {None})

SlotTypes ==
  /\ table \in [IrqNumbers -> Slot]
  /\ given \in [IrqNumbers -> Pair]
  /\ op \in [kind : {"none", "install", "uninstall"}, irq : Nat, step : 0..4]
  /\ op.kind = "none" \/ op.irq \in IrqNumbers

\* A slot no call is working on is the given one, or not in use.
Settled(n) == table[n].installed => <<table[n].handler, table[n].ctx>> = given[n]

\* What the stores of a call have done so far to the slot it works on.
Progress ==
  /\ op.kind = "install" =>
       /\ op.step \in 1..4
       /\ table[op.irq].installed <=> op.step = 4
       /\ op.step >= 2 => table[op.irq].handler = given[op.irq][1]
       /\ op.step >= 3 => table[op.irq].ctx = given[op.irq][2]
  /\ op.kind = "uninstall" => op.step \in 1..3 /\ (table[op.irq].installed <=> op.step = 1)

SlotInv == SlotTypes /\ Progress /\ \A n \in IrqNumbers : Settled(n)

LEMMA SlotInit == Init => SlotInv
BY DEF Init, SlotInv, SlotTypes, Progress, Settled, EmptySlot, NoOp, Slot, Pair

\* Where a slot goes that one store of a call writes.
LEMMA StoreHandler ==
  ASSUME SlotTypes, NEW n \in IrqNumbers, NEW slot, NEW order, NEW k,
         order[k] = "handler", Stores(order, k, n, slot)
  PROVE  table' = [table EXCEPT ![n] = [@ EXCEPT !.handler = slot.handler]]
BY Zenon DEF Stores

LEMMA StoreCtx ==
  ASSUME SlotTypes, NEW n \in IrqNumbers, NEW slot, NEW order, NEW k,
         order[k] = "ctx", Stores(order, k, n, slot)
  PROVE  table' = [table EXCEPT ![n] = [@ EXCEPT !.ctx = slot.ctx]]
BY Zenon DEF Stores

LEMMA StoreInstalled ==
  ASSUME SlotTypes, NEW n \in IrqNumbers, NEW slot, NEW order, NEW k,
         order[k] = "installed", Stores(order, k, n, slot)
  PROVE  table' = [table EXCEPT ![n] = [@ EXCEPT !.installed = slot.installed]]
BY Zenon DEF Stores
LEMMA InstallKeeps ==
  ASSUME SlotInv, NEW n \in IrqNumbers, NEW h \in Handlers, NEW c \in Contexts, Install(n, h, c)
  PROVE  SlotInv'
<1>1. /\ op' = [kind |-> "install", irq |-> n, step |-> 1] /\ table' = table
      /\ given' = [given EXCEPT ![n] = <<h, c>>] /\ ~table[n].installed
  BY DEF Install
<1>2. SlotTypes'
  BY <1>1, InterruptsAssumption DEF SlotInv, SlotTypes, Pair, Vec
<1>3. Progress'
  BY <1>1 DEF SlotInv, SlotTypes, Progress
<1>4. \A m \in IrqNumbers : Settled(m)'
  BY <1>1 DEF SlotInv, SlotTypes, Settled
<1> QED  BY <1>2, <1>3, <1>4 DEF SlotInv

LEMMA InstallStoreKeeps == SlotInv /\ InstallStore => SlotInv'
<1> SUFFICES ASSUME SlotInv, InstallStore PROVE SlotInv'
  OBVIOUS
<1> DEFINE n == op.irq
           slot == [handler |-> given[n][1], ctx |-> given[n][2], installed |-> TRUE]
<1>1. /\ n \in IrqNumbers /\ op.kind = "install" /\ op.step \in 1..3
      /\ op' = [op EXCEPT !.step = op.step + 1] /\ given' = given
      /\ Stores(InstallOrder, op.step, n, slot)
  BY DEF InstallStore, InstallOrder, SlotInv, SlotTypes, Progress
<1>2. /\ op'.kind = "install" /\ op'.irq = n /\ op'.step = op.step + 1
      /\ op' \in [kind : {"none", "install", "uninstall"}, irq : Nat, step : 0..4]
  BY <1>1 DEF SlotInv, SlotTypes
<1>3. /\ slot.handler \in Handlers \cup {None} /\ slot.ctx \in Contexts \cup {None}
      /\ given[n] = <<slot.handler, slot.ctx>>
  BY <1>1 DEF SlotInv, SlotTypes, Pair
<1>4. slot.installed = TRUE
  BY Zenon
<1> HIDE DEF slot
<1>5. CASE op.step = 1
  <2>1. table' = [table EXCEPT ![n] = [@ EXCEPT !.handler = slot.handler]]
    BY <1>1, <1>5, StoreHandler DEF InstallOrder, SlotInv
  <2>2. SlotTypes'
    BY <1>1, <1>2, <1>3, <2>1 DEF SlotInv, SlotTypes, Slot
  <2>3. Progress'
    BY <1>1, <1>2, <1>3, <1>5, <2>1 DEF SlotInv, SlotTypes, Slot, Progress
  <2>4. \A m \in IrqNumbers : Settled(m)'
    BY <1>1, <1>5, <2>1 DEF SlotInv, SlotTypes, Slot, Progress, Settled
  <2> QED  BY <2>2, <2>3, <2>4 DEF SlotInv
<1>6. CASE op.step = 2
  <2>1. table' = [table EXCEPT ![n] = [@ EXCEPT !.ctx = slot.ctx]]
    BY <1>1, <1>6, StoreCtx DEF InstallOrder, SlotInv
  <2>2. SlotTypes'
    BY <1>1, <1>2, <1>3, <2>1 DEF SlotInv, SlotTypes, Slot
  <2>3. Progress'
    BY <1>1, <1>2, <1>3, <1>6, <2>1 DEF SlotInv, SlotTypes, Slot, Progress
  <2>4. \A m \in IrqNumbers : Settled(m)'
    BY <1>1, <1>6, <2>1 DEF SlotInv, SlotTypes, Slot, Progress, Settled
  <2> QED  BY <2>2, <2>3, <2>4 DEF SlotInv
<1>7. CASE op.step = 3
  <2>1. table' = [table EXCEPT ![n] = [@ EXCEPT !.installed = TRUE]]
    <3>1. InstallOrder[op.step] = "installed" /\ SlotTypes
      BY <1>7 DEF InstallOrder, SlotInv
    <3>2. table' = [table EXCEPT ![n] = [@ EXCEPT !.installed = slot.installed]]
      BY <1>1, <3>1, StoreInstalled
    <3> QED  BY <1>4, <3>2, Zenon
  <2>2. SlotTypes'
    BY <1>1, <1>2, <2>1, ZenonT(30) DEF SlotInv, SlotTypes, Slot
  <2>3. Progress'
    BY <1>1, <1>2, <1>7, <2>1 DEF SlotInv, SlotTypes, Slot, Progress
  <2>4. \A m \in IrqNumbers : Settled(m)'
    BY <1>1, <1>3, <1>7, <2>1 DEF SlotInv, SlotTypes, Slot, Progress, Settled
  <2> QED  BY <2>2, <2>3, <2>4 DEF SlotInv
<1> QED  BY <1>1, <1>5, <1>6, <1>7

LEMMA RegisterKeeps == SlotInv /\ InstallRegister => SlotInv'
<1> SUFFICES ASSUME SlotInv, InstallRegister PROVE SlotInv'
  OBVIOUS
<1>1. op' = NoOp /\ table' = table /\ given' = given
  BY DEF InstallRegister
<1> QED  BY <1>1 DEF SlotInv, SlotTypes, Progress, Settled, NoOp

LEMMA UninstallKeeps ==
  ASSUME SlotInv, NEW n \in IrqNumbers, NEW h \in Handlers, Uninstall(n, h)
  PROVE  SlotInv'
<1>1. /\ op' = [kind |-> "uninstall", irq |-> n, step |-> 1] /\ table[n].installed
      /\ table' = table /\ given' = given
  BY DEF Uninstall
<1> QED  BY <1>1, InterruptsAssumption DEF SlotInv, SlotTypes, Progress, Settled, Vec

LEMMA UninstallStoreKeeps == SlotInv /\ UninstallStore => SlotInv'
<1> SUFFICES ASSUME SlotInv, UninstallStore PROVE SlotInv'
  OBVIOUS
<1> DEFINE n == op.irq
<1>1. /\ n \in IrqNumbers /\ op.kind = "uninstall" /\ op.step \in 1..3
      /\ Stores(UninstallOrder, op.step, n, EmptySlot)
      /\ op.step < 3 => op' = [op EXCEPT !.step = op.step + 1] /\ given' = given
      /\ op.step = 3 => op' = NoOp /\ given' = [given EXCEPT ![n] = <<None, None>>]
  BY DEF UninstallStore, UninstallOrder, SlotInv, SlotTypes, Progress
<1>2. CASE op.step = 1
  <2>1. table' = [table EXCEPT ![n] = [@ EXCEPT !.installed = FALSE]]
    <3>1. UninstallOrder[op.step] = "installed" /\ SlotTypes
      BY <1>2 DEF UninstallOrder, SlotInv
    <3>2. table' = [table EXCEPT ![n] = [@ EXCEPT !.installed = EmptySlot.installed]]
      BY <1>1, <3>1, StoreInstalled
    <3>3. EmptySlot.installed = FALSE
      BY Zenon DEF EmptySlot
    <3> QED  BY <3>2, <3>3, Zenon
  <2>2. SlotTypes'
    <3>1. table[n] \in Slot /\ FALSE \in BOOLEAN
      BY <1>1 DEF SlotInv, SlotTypes
    <3>2. [table[n] EXCEPT !.installed = FALSE] \in Slot
      BY <3>1, ZenonT(30) DEF Slot
    <3>3. table' \in [IrqNumbers -> Slot]
      BY <1>1, <2>1, <3>2 DEF SlotInv, SlotTypes
    <3> QED  BY <1>1, <1>2, <3>3 DEF SlotInv, SlotTypes
  <2>3. Progress'
    BY <1>1, <1>2, <2>1 DEF SlotInv, SlotTypes, Slot, Progress
  <2>4. \A m \in IrqNumbers : Settled(m)'
    BY <1>1, <1>2, <2>1 DEF SlotInv, SlotTypes, Slot, Progress, Settled
  <2> QED  BY <2>2, <2>3, <2>4 DEF SlotInv
<1>3. CASE op.step = 2
  <2>1. table' = [table EXCEPT ![n] = [@ EXCEPT !.handler = None]]
    BY <1>1, <1>3, StoreHandler DEF UninstallOrder, SlotInv, EmptySlot
  <2>2. SlotTypes'
    BY <1>1, <1>3, <2>1 DEF SlotInv, SlotTypes, Slot
  <2>3. Progress'
    BY <1>1, <1>3, <2>1 DEF SlotInv, SlotTypes, Slot, Progress
  <2>4. \A m \in IrqNumbers : Settled(m)'
    BY <1>1, <1>3, <2>1 DEF SlotInv, SlotTypes, Slot, Progress, Settled
  <2> QED  BY <2>2, <2>3, <2>4 DEF SlotInv
<1>4. CASE op.step = 3
  <2>1. table' = [table EXCEPT ![n] = [@ EXCEPT !.ctx = None]]
    BY <1>1, <1>4, StoreCtx DEF UninstallOrder, SlotInv, EmptySlot
  <2>2. SlotTypes'
    BY <1>1, <1>4, <2>1 DEF SlotInv, SlotTypes, Slot, Pair, NoOp
  <2>3. Progress'
    BY <1>1, <1>4 DEF Progress, NoOp
  <2>4. \A m \in IrqNumbers : Settled(m)'
    BY <1>1, <1>4, <2>1 DEF SlotInv, SlotTypes, Slot, Progress, Settled
  <2> QED  BY <2>2, <2>3, <2>4 DEF SlotInv
<1> QED  BY <1>1, <1>2, <1>3, <1>4
LEMMA SlotStep == SlotInv /\ [Next]_vars => SlotInv'
<1> SUFFICES ASSUME SlotInv, [Next]_vars PROVE SlotInv'
  OBVIOUS
<1>1. ASSUME UNCHANGED uacpi PROVE SlotInv'
  BY <1>1 DEF uacpi, SlotInv, SlotTypes, Progress, Settled
<1>2. CASE StartUp
  BY <1>1, <1>2 DEF StartUp, IdtInit, IoapicEntry, IoapicInit, RegisterTimer, NoIoapic, RouteLow, RouteHigh
<1>3. CASE TimerEdge
  BY <1>1, <1>3 DEF TimerEdge
<1>4. CASE Interrupt
  BY <1>1, <1>4 DEF Interrupt, Dispatch
<1>5. CASE UacpiCall
  <2>1. CASE \E n \in IrqNumbers, h \in Handlers, c \in Contexts : Install(n, h, c)
    BY <2>1, InstallKeeps
  <2>2. CASE \E n \in IrqNumbers, h \in Handlers : Uninstall(n, h)
    BY <2>2, UninstallKeeps
  <2>3. CASE \E fails \in BOOLEAN : Shutdown(fails)
    BY <1>1, <2>3 DEF Shutdown
  <2> QED  BY <1>5, <2>1, <2>2, <2>3 DEF UacpiCall
<1>6. CASE UacpiStep
  BY <1>6, InstallStoreKeeps, RegisterKeeps, UninstallStoreKeeps DEF UacpiStep
<1>7. CASE UNCHANGED vars
  BY <1>1, <1>7 DEF vars
<1> QED  BY <1>2, <1>3, <1>4, <1>5, <1>6, <1>7 DEF Next

\* An interrupt at any moment of install or uninstall: uacpi_irq_bridge calls nothing,
\* or the handler of the install not yet undone with the context it came with.
THEOREM ContextsKept == Spec => []HandlerGetsItsContext
<1>1. SlotInv => HandlerGetsItsContext
  BY DEF SlotInv, Settled, HandlerGetsItsContext, BridgeCall
<1> QED  BY <1>1, SlotInit, SlotStep, PTL DEF Spec

-----------------------------------------------------------------------------
Routed == {"route", "route_high", "up", "off"}

\* A redirection entry, whatever its fields hold.
IsEntry(e) == e = [vec |-> e.vec, masked |-> e.masked, dest |-> e.dest, level |-> e.level, low |-> e.low]

\* From the registration on the timer has gate and handler; until then every line is
\* masked, and only the timer's vector is ever written to one that is not.
GateInv ==
  /\ handlers \in [Vec -> {"none", "timer", "bridge"}]
  /\ gates \in [Vec -> [stub : {"none", "isr", "irq", "null"}, ist : 0..2]]
  /\ redir = [p \in DOMAIN redir |-> redir[p]] /\ \A p \in DOMAIN redir : IsEntry(redir[p])
  /\ op \in [kind : {"none", "install", "uninstall"}, irq : Nat, step : Nat]
  /\ ticks \in {0, 1}
  /\ op.kind = "none" \/ op.irq \in IrqNumbers
  /\ stage \in {"idt", "ioapic", "register"} \cup Routed
  /\ op.kind # "none" => stage \in Routed
  /\ stage \in Routed =>
       gates[TimerVec] = Gate("irq", 2) /\ handlers[0] \in {"timer", "bridge"}
  /\ \A p \in DOMAIN redir : ~redir[p].masked => redir[p].vec = TimerVec /\ stage \in Routed
  /\ irr \subseteq {TimerVec} /\ (irr # {} => stage \in Routed)

LEMMA Vectors == 0 \in Vec /\ TimerVec \in Vec /\ Stub(TimerVec) = "irq" /\ TimerVec - Exc = 0
BY InterruptsAssumption DEF Vec, TimerVec, Stub, Spurious

LEMMA StubTypes == \A v \in Vec : Stub(v) \in {"isr", "irq", "null"}
BY DEF Stub

LEMMA GateInit == Init => GateInv
<1> SUFFICES ASSUME Init PROVE GateInv
  OBVIOUS
<1>1. /\ redir = [p \in DOMAIN redir |-> redir[p]]
      /\ \A p \in DOMAIN redir : redir[p].masked /\ IsEntry(redir[p])
  BY DEF Init, Reset, IsEntry
<1> QED  BY <1>1 DEF Init, GateInv, NoGate, NoOp, Routed

\* Registering a handler for any line keeps the timer's gate.
LEMMA RegisteredKeeps ==
  ASSUME GateInv, stage \in Routed, NEW n \in IrqNumbers, Registered(n, "bridge"),
         UNCHANGED <<stage, redir, irr, ticks>>, op' = NoOp
  PROVE  GateInv'
<1> USE Vectors, StubTypes, InterruptsAssumption
<1>1. /\ handlers' = [handlers EXCEPT ![n] = "bridge"]
      /\ gates' = [gates EXCEPT ![n] = Gate(Stub(n), 2)] /\ n \in Vec
  BY DEF Registered
<1>2. /\ handlers' \in [Vec -> {"none", "timer", "bridge"}]
      /\ handlers'[0] \in {handlers[0], "bridge"}
  BY <1>1 DEF GateInv
<1>3. /\ gates' \in [Vec -> [stub : {"none", "isr", "irq", "null"}, ist : 0..2]]
      /\ gates'[TimerVec] \in {gates[TimerVec], Gate("irq", 2)}
  BY <1>1 DEF GateInv, Gate
<1> QED  BY <1>2, <1>3 DEF GateInv, NoOp

LEMMA WrittenKeeps ==
  ASSUME GateInv, NEW f, Written(f), IsEntry(f)
  PROVE  /\ redir' = [p \in DOMAIN redir' |-> redir'[p]] /\ DOMAIN redir' = DOMAIN redir
         /\ \A p \in DOMAIN redir : IsEntry(redir'[p])
         /\ \A p \in DOMAIN redir : redir'[p] = redir[p] \/ redir'[p] = f
BY DEF Written, GateInv

LEMMA StartUpKeeps == GateInv /\ StartUp => GateInv'
<1> SUFFICES ASSUME GateInv, StartUp PROVE GateInv'
  OBVIOUS
<1> USE Vectors, StubTypes
<1>1. CASE IdtInit
  <2>1. gates' \in [Vec -> [stub : {"none", "isr", "irq", "null"}, ist : 0..2]]
    BY <1>1 DEF IdtInit, GateInv, Gate
  <2>2. /\ stage = "idt" /\ stage' = "ioapic"
        /\ UNCHANGED <<handlers, redir, irr, ticks, op>>
    BY <1>1 DEF IdtInit, uacpi
  <2> QED  BY <2>1, <2>2 DEF GateInv, Routed
<1>2. CASE IoapicEntry \/ IoapicInit
  <2>1. /\ stage = "ioapic" /\ stage' \in {"ioapic", "register"}
        /\ UNCHANGED <<gates, handlers, redir, irr, ticks, op>>
    BY <1>2 DEF IoapicEntry, IoapicInit, uacpi, cpu
  <2> QED  BY <2>1 DEF GateInv, Routed
<1>3. CASE RegisterTimer
  <2>1. /\ stage = "register" /\ stage' = "route"
        /\ handlers' = [handlers EXCEPT ![TimerVec] = "timer", ![0] = "timer"]
        /\ gates' = [gates EXCEPT ![TimerVec] = Gate(Stub(TimerVec), 2)]
        /\ UNCHANGED <<redir, irr, ticks, op>>
    BY <1>3 DEF RegisterTimer, uacpi, cpu
  <2>2. handlers' \in [Vec -> {"none", "timer", "bridge"}] /\ handlers'[0] = "timer"
    BY <2>1 DEF GateInv
  <2>3. /\ gates' \in [Vec -> [stub : {"none", "isr", "irq", "null"}, ist : 0..2]]
        /\ gates'[TimerVec] = Gate("irq", 2)
    BY <2>1 DEF GateInv, Gate
  <2> QED  BY <2>1, <2>2, <2>3 DEF GateInv, Routed
<1>4. CASE NoIoapic
  <2>1. /\ stage = "route" /\ stage' = "up"
        /\ UNCHANGED <<gates, handlers, redir, irr, ticks, op>>
    BY <1>4 DEF NoIoapic, uacpi, cpu
  <2> QED  BY <2>1 DEF GateInv, Routed
<1>5. CASE RouteLow
  <2>1. /\ stage = "route" /\ stage' = "route_high"
        /\ \E f : f.vec = TimerVec /\ Written(f) /\ IsEntry(f)
        /\ UNCHANGED <<gates, handlers, irr, ticks, op>>
    BY <1>5 DEF RouteLow, uacpi, cpu, IsEntry
  <2> QED  BY <2>1, WrittenKeeps DEF GateInv, Routed
<1>6. CASE RouteHigh
  <2>1. /\ stage = "route_high" /\ stage' = "up"
        /\ UNCHANGED <<gates, handlers, irr, ticks, op>>
    BY <1>6 DEF RouteHigh, uacpi, cpu
  <2>2. /\ redir' = [p \in DOMAIN redir' |-> redir'[p]] /\ DOMAIN redir' = DOMAIN redir
        /\ \A p \in DOMAIN redir : /\ redir'[p].masked = redir[p].masked /\ redir'[p].vec = redir[p].vec
                                   /\ IsEntry(redir'[p])
    <3>1. CASE ChosenPin \notin DOMAIN redir
      BY <1>6, <3>1 DEF RouteHigh, GateInv
    <3>2. CASE ChosenPin \in DOMAIN redir
      <4> DEFINE e == redir[ChosenPin]
      <4>1. redir' = [redir EXCEPT ![ChosenPin] = [e EXCEPT !.dest = self]]
        BY <1>6, <3>2 DEF RouteHigh
      <4>2. IsEntry(e)
        BY <3>2 DEF GateInv
      <4>3. [e EXCEPT !.dest = self] =
              [vec |-> e.vec, masked |-> e.masked, dest |-> self, level |-> e.level, low |-> e.low]
        BY <4>2 DEF IsEntry
      <4>4. \A p \in DOMAIN redir \ {ChosenPin} : redir'[p] = redir[p]
        BY <3>2, <4>1
      <4>5. redir'[ChosenPin] = [e EXCEPT !.dest = self]
        BY <3>2, <4>1
      <4>6. redir' = [p \in DOMAIN redir' |-> redir'[p]] /\ DOMAIN redir' = DOMAIN redir
        BY <4>1, ZenonT(30) DEF GateInv
      <4> QED  BY <4>3, <4>4, <4>5, <4>6 DEF IsEntry, GateInv
    <3> QED  BY <3>1, <3>2
  <2> QED  BY <2>1, <2>2 DEF GateInv, Routed
<1> QED  BY <1>1, <1>2, <1>3, <1>4, <1>5, <1>6 DEF StartUp

LEMMA UacpiKeeps == GateInv /\ (UacpiCall \/ UacpiStep) => GateInv'
<1> SUFFICES ASSUME GateInv, UacpiCall \/ UacpiStep PROVE GateInv'
  OBVIOUS
<1> USE DEF boot, cpu, uacpi
<1>1. CASE \E n \in IrqNumbers, h \in Handlers, c \in Contexts : Install(n, h, c)
  <2>1. /\ UNCHANGED <<stage, gates, handlers, redir, irr, ticks>>
        /\ stage = "up" /\ op'.irq \in IrqNumbers
        /\ op' \in [kind : {"none", "install", "uninstall"}, irq : Nat, step : Nat]
    BY <1>1, InterruptsAssumption DEF Install, Vec
  <2> QED  BY <2>1 DEF GateInv, Routed
<1>2. CASE \E n \in IrqNumbers, h \in Handlers : Uninstall(n, h)
  <2>1. /\ UNCHANGED <<stage, gates, handlers, redir, irr, ticks>>
        /\ stage = "up" /\ op'.irq \in IrqNumbers
        /\ op' \in [kind : {"none", "install", "uninstall"}, irq : Nat, step : Nat]
    BY <1>2, InterruptsAssumption DEF Uninstall, Vec
  <2> QED  BY <2>1 DEF GateInv, Routed
<1>3. CASE \E fails \in BOOLEAN : Shutdown(fails)
  <2>1. /\ UNCHANGED <<gates, handlers, redir, irr, ticks, op>>
        /\ stage = "up" /\ stage' \in {"up", "off"}
    BY <1>3 DEF Shutdown
  <2> QED  BY <2>1 DEF GateInv, Routed
<1>4. CASE InstallStore
  <2>1. /\ UNCHANGED <<stage, gates, handlers, redir, irr, ticks>>
        /\ op.kind = "install" /\ op' = [op EXCEPT !.step = @ + 1]
    BY <1>4 DEF InstallStore
  <2>2. /\ op'.irq = op.irq /\ op'.kind = op.kind
        /\ op' \in [kind : {"none", "install", "uninstall"}, irq : Nat, step : Nat]
    BY <2>1 DEF GateInv
  <2> QED  BY <2>1, <2>2 DEF GateInv
<1>5. CASE InstallRegister
  BY <1>5, RegisteredKeeps DEF InstallRegister, GateInv
<1>6. CASE UninstallStore
  <2>1. /\ UNCHANGED <<stage, gates, handlers, redir, irr, ticks>> /\ op.kind = "uninstall"
        /\ op' = NoOp \/ op' = [op EXCEPT !.step = @ + 1]
    BY <1>6 DEF UninstallStore
  <2>2. /\ op'.kind = "none" \/ (op'.irq = op.irq /\ op'.kind = op.kind)
        /\ op' \in [kind : {"none", "install", "uninstall"}, irq : Nat, step : Nat]
    <3>1. CASE op' = NoOp
      BY <3>1 DEF NoOp
    <3>2. CASE op' = [op EXCEPT !.step = @ + 1]
      BY <3>2 DEF GateInv
    <3> QED  BY <2>1, <3>1, <3>2
  <2> QED  BY <2>1, <2>2 DEF GateInv
<1> QED  BY <1>1, <1>2, <1>3, <1>4, <1>5, <1>6 DEF UacpiCall, UacpiStep

LEMMA GateStep == GateInv /\ [Next]_vars => GateInv'
<1> SUFFICES ASSUME GateInv, [Next]_vars PROVE GateInv'
  OBVIOUS
<1> USE DEF boot, cpu, uacpi
<1>1. CASE TimerEdge
  <2>1. /\ UNCHANGED <<stage, gates, handlers, redir, ticks, op>>
        /\ \E p \in DOMAIN redir : ~redir[p].masked /\ irr' = irr \cup {redir[p].vec}
    BY <1>1 DEF TimerEdge, TimerPin
  <2> QED  BY <2>1 DEF GateInv
<1>2. CASE Interrupt
  <2>1. /\ UNCHANGED <<stage, gates, handlers, redir, op>>
        /\ irr' \subseteq irr /\ ticks' \in {ticks, 1 - ticks}
    BY <1>2 DEF Interrupt, Dispatch
  <2> QED  BY <2>1 DEF GateInv
<1>3. CASE UNCHANGED vars
  BY <1>3 DEF vars, GateInv
<1> QED  BY <1>1, <1>2, <1>3, StartUpKeeps, UacpiKeeps DEF Next

\* IRQ::init unmasks the line only when its vector has its gate, on the interrupt
\* stack, and a handler, and no handler uACPI installs takes them away.
THEOREM GatesFirst == Spec => []GateBeforeRoute
<1>1. GateInv => GateBeforeRoute
  BY Vectors DEF GateInv, GateBeforeRoute, Routed
<1> QED  BY <1>1, GateInit, GateStep, PTL DEF Spec

\* A timer interrupt that irq_handler takes is counted, unless uACPI holds line 0.
THEOREM TimerCounted ==
  Spec => [][(TimerVec \in irr /\ TimerVec \notin irr') => (ticks' # ticks \/ handlers[0] = "bridge")]_vars
<1> DEFINE Counted == (TimerVec \in irr /\ TimerVec \notin irr') => (ticks' # ticks \/ handlers[0] = "bridge")
<1>1. GateInv /\ [Next]_vars => [Counted]_vars
  <2> SUFFICES ASSUME GateInv, Next, TimerVec \in irr, TimerVec \notin irr'
               PROVE  ticks' # ticks \/ handlers[0] = "bridge"
    OBVIOUS
  <2>1. \A v \in Vec : Dispatch(v) => v = TimerVec
    BY DEF Dispatch, GateInv
  <2>2. Dispatch(TimerVec)
    <3>1. CASE StartUp
      BY <3>1 DEF StartUp, IdtInit, IoapicEntry, IoapicInit, RegisterTimer, NoIoapic, RouteLow, RouteHigh, cpu
    <3>2. CASE UacpiCall
      BY <3>2 DEF UacpiCall, Install, Uninstall, Shutdown, cpu
    <3>3. CASE UacpiStep
      BY <3>3 DEF UacpiStep, InstallStore, InstallRegister, UninstallStore, cpu
    <3>4. CASE TimerEdge
      BY <3>4 DEF TimerEdge
    <3> QED  BY <2>1, <3>1, <3>2, <3>3, <3>4 DEF Next, Interrupt
  <2>3. handlers[TimerVec - Exc] \in {"timer", "bridge"} /\ ticks \in {0, 1} /\ TimerVec - Exc = 0
    BY Vectors DEF GateInv
  <2> QED  BY <2>2, <2>3 DEF Dispatch
<1> QED  BY <1>1, GateInit, GateStep, PTL DEF Spec

-----------------------------------------------------------------------------
\* What IOAPIC::init has copied of the entries before the current one.
TimerIso(e) == IsIso(e) /\ e.source = 0
Entries == {madt[k] : k \in DOMAIN madt}
Seen == 1 .. current - 1
SameOverride ==
  \/ /\ \A j \in Seen : ~TimerIso(madt[j])
     /\ \A i \in 1 .. Len(isos) : isos[i].source # 0
  \/ \E j \in Seen, i \in 1 .. Len(isos) :
       /\ isos[i] = madt[j] /\ TimerIso(madt[j])
       /\ \A l \in 1 .. j - 1 : ~TimerIso(madt[l])
       /\ \A l \in 1 .. i - 1 : isos[l].source # 0
AllApics ==
  /\ \A i \in 1 .. Len(apics) : \E j \in Seen : apics[i] = madt[j] /\ IsIoapic(madt[j])
  /\ \A j \in Seen : IsIoapic(madt[j]) => \E i \in 1 .. Len(apics) : apics[i] = madt[j]
  /\ \A i, l \in 1 .. Len(apics) : i # l => Gsis(apics[i]) \cap Gsis(apics[l]) = {}
CopyInv ==
  /\ madt \in Madts /\ current \in 1 .. Len(madt) + 1
  /\ apics \in Seq(Entries) /\ isos \in Seq(Entries)
  /\ SameOverride /\ AllApics

\* The firmware's table is a sequence of its entries.
LEMMA MadtSeq ==
  ASSUME madt \in Madts
  PROVE  madt \in Seq(Entries) /\ Len(madt) \in Nat /\ DOMAIN madt = 1 .. Len(madt)
<1>1. madt \in Seq(Entries)
  BY MadtAssumption DEF Entries
<1> QED  BY <1>1

\* One turn of IOAPIC::init's loop keeps what the turns before it copied.
LEMMA CopyStep == CopyInv /\ IoapicEntry => CopyInv'
<1> SUFFICES ASSUME CopyInv, IoapicEntry PROVE CopyInv'
  OBVIOUS
<1> DEFINE e == madt[current]
<1>1. /\ madt \in Madts /\ madt' = madt /\ current \in 1 .. Len(madt) /\ current' = current + 1
      /\ apics \in Seq(Entries) /\ isos \in Seq(Entries) /\ Entries' = Entries
      /\ Len(madt) \in Nat /\ DOMAIN madt = 1 .. Len(madt)
  BY MadtSeq DEF CopyInv, IoapicEntry, Entries
<1>2. e \in Entries /\ Seen \subseteq DOMAIN madt /\ Seen' = Seen \cup {current} /\ current \notin Seen
  BY <1>1 DEF Entries, Seen
<1>3. SameOverride'
  <2>1. CASE ~IsIso(e)
    <3>1. isos' = isos /\ ~TimerIso(e)
      BY <2>1 DEF IoapicEntry, Copied, TimerIso
    <3>2. CASE /\ \A j \in Seen : ~TimerIso(madt[j])
               /\ \A i \in 1 .. Len(isos) : isos[i].source # 0
      BY <1>1, <1>2, <3>1, <3>2 DEF SameOverride
    <3>3. CASE \E j \in Seen, i \in 1 .. Len(isos) :
                 /\ isos[i] = madt[j] /\ TimerIso(madt[j])
                 /\ \A l \in 1 .. j - 1 : ~TimerIso(madt[l])
                 /\ \A l \in 1 .. i - 1 : isos[l].source # 0
      BY <1>1, <1>2, <3>1, <3>3 DEF SameOverride
    <3> QED  BY <3>2, <3>3, ZenonT(30) DEF CopyInv, SameOverride
  <2>2. CASE IsIso(e)
    <3> DEFINE n == Len(isos)
    <3>1. isos' = Append(isos, e)
      BY <2>2 DEF IoapicEntry, Copied
    <3>2. /\ n \in Nat /\ Len(isos') = n + 1 /\ isos'[n + 1] = e
          /\ \A i \in 1 .. n : isos'[i] = isos[i]
      BY <1>1, <1>2, <3>1
    <3>3. TimerIso(e) <=> e.source = 0
      BY <2>2 DEF TimerIso
    <3> HIDE DEF e, n
    <3>4. CASE /\ \A j \in Seen : ~TimerIso(madt[j])
               /\ \A i \in 1 .. n : isos[i].source # 0
      <4>1. CASE e.source = 0
        <5>1. n + 1 \in 1 .. Len(isos') /\ current \in Seen' /\ isos'[n + 1] = madt'[current]
          BY <1>1, <1>2, <3>2 DEF e
        <5>2. /\ TimerIso(madt'[current])
              /\ \A l \in 1 .. current - 1 : ~TimerIso(madt'[l])
              /\ \A l \in 1 .. (n + 1) - 1 : isos'[l].source # 0
          BY <1>1, <3>2, <3>3, <3>4, <4>1 DEF Seen, e
        <5> QED  BY <5>1, <5>2 DEF SameOverride
      <4>2. CASE e.source # 0
        <5>1. \A j \in Seen' : ~TimerIso(madt'[j])
          BY <1>1, <1>2, <3>3, <3>4, <4>2 DEF e
        <5>2. \A i \in 1 .. Len(isos') : isos'[i].source # 0
          BY <3>2, <3>4, <4>2
        <5> QED  BY <5>1, <5>2 DEF SameOverride
      <4> QED  BY <4>1, <4>2
    <3>5. CASE \E j \in Seen, i \in 1 .. n :
                 /\ isos[i] = madt[j] /\ TimerIso(madt[j])
                 /\ \A l \in 1 .. j - 1 : ~TimerIso(madt[l])
                 /\ \A l \in 1 .. i - 1 : isos[l].source # 0
      <4>1. PICK j \in Seen, i \in 1 .. n :
                 /\ isos[i] = madt[j] /\ TimerIso(madt[j])
                 /\ \A l \in 1 .. j - 1 : ~TimerIso(madt[l])
                 /\ \A l \in 1 .. i - 1 : isos[l].source # 0
        BY <3>5
      <4>2. j \in Seen' /\ i \in 1 .. Len(isos') /\ isos'[i] = madt'[j]
        BY <1>1, <1>2, <3>2, <4>1
      <4>3. \A l \in 1 .. i - 1 : isos'[l].source # 0
        BY <3>2, <4>1
      <4> QED  BY <1>1, <4>1, <4>2, <4>3 DEF SameOverride
    <3> QED  BY <3>4, <3>5, Zenon DEF CopyInv, SameOverride, n
  <2> QED  BY <2>1, <2>2
<1>4. AllApics'
  <2>1. CASE ~IsIoapic(e)
    <3>1. apics' = apics
      BY <2>1 DEF IoapicEntry, Copied
    <3> QED  BY <1>1, <1>2, <2>1, <3>1, ZenonT(30) DEF CopyInv, AllApics
  <2>2. CASE IsIoapic(e)
    <3> DEFINE n == Len(apics)
    <3>1. apics' = Append(apics, e)
      BY <2>2 DEF IoapicEntry, Copied
    <3>2. /\ n \in Nat /\ Len(apics') = n + 1 /\ apics'[n + 1] = e
          /\ \A i \in 1 .. n : apics'[i] = apics[i]
      BY <1>1, <1>2, <3>1
    <3>3. /\ \A i \in 1 .. n : \E j \in Seen : apics[i] = madt[j] /\ IsIoapic(madt[j])
          /\ \A j \in Seen : IsIoapic(madt[j]) => \E i \in 1 .. n : apics[i] = madt[j]
          /\ \A i, l \in 1 .. n : i # l => Gsis(apics[i]) \cap Gsis(apics[l]) = {}
      BY Zenon DEF CopyInv, AllApics
    <3> HIDE DEF e, n
    <3>4. \A i \in 1 .. Len(apics') : i \in 1 .. n \/ i = n + 1
      BY <3>2
    <3>5. \A i \in 1 .. Len(apics') : \E j \in Seen' : apics'[i] = madt'[j] /\ IsIoapic(madt'[j])
      <4> SUFFICES ASSUME NEW i \in 1 .. Len(apics')
                   PROVE  \E j \in Seen' : apics'[i] = madt[j] /\ IsIoapic(madt[j])
        BY <1>1
      <4>1. CASE i \in 1 .. n
        BY <1>2, <3>2, <3>3, <4>1
      <4>2. CASE i = n + 1
        <5>1. apics'[i] = madt[current] /\ IsIoapic(madt[current]) /\ current \in Seen'
          BY <1>2, <2>2, <3>2, <4>2 DEF e
        <5> QED  BY <5>1
      <4> QED  BY <3>4, <4>1, <4>2
    <3>6. \A j \in Seen' : IsIoapic(madt'[j]) => \E i \in 1 .. Len(apics') : apics'[i] = madt'[j]
      <4>1. n + 1 \in 1 .. Len(apics') /\ 1 .. n \subseteq 1 .. Len(apics')
        BY <3>2
      <4> QED  BY <1>1, <1>2, <3>2, <3>3, <4>1, Zenon DEF e
    <3>7. \A i \in 1 .. n : Gsis(apics[i]) \cap Gsis(e) = {}
      BY <1>1, <1>2, <2>2, <3>3, MadtAssumption, ZenonT(30) DEF e
    <3>8. \A i, l \in 1 .. Len(apics') : i # l => Gsis(apics'[i]) \cap Gsis(apics'[l]) = {}
      <4> HIDE DEF Gsis
      <4> QED  BY <3>2, <3>3, <3>4, <3>7, ZenonT(30)
    <3> QED  BY <3>5, <3>6, <3>8, ZenonT(30) DEF AllApics
  <2> QED  BY <2>1, <2>2
<1> QED
  <2>1. apics' \in Seq(Entries) /\ isos' \in Seq(Entries)
    BY <1>1, <1>2 DEF IoapicEntry, Copied
  <2> QED  BY <1>1, <1>3, <1>4, <2>1 DEF CopyInv

\* A set of natural numbers that is not empty has a least element.
LEMMA LeastOf ==
  ASSUME NEW T, T \subseteq Nat, T # {}
  PROVE  Min(T) \in T /\ \A k \in T : Min(T) <= k
<1> DEFINE R == OpToRel(<, Nat)
<1>1. IsWellFoundedOn(R, Nat)
  BY NatLessThanWellFounded, ZenonT(30)
<1>2. \A x, y \in Nat : y < x => <<y, x>> \in R
  BY DEF OpToRel
<1> HIDE DEF R
<1>3. PICK m \in T : \A k \in T : ~(<<k, m>> \in R)
  BY <1>1, WFMin, ZenonT(30)
<1>4. \A k \in T : k \in Nat /\ m \in Nat
  OBVIOUS
<1>5. \A k \in T : ~(k < m)
  BY <1>2, <1>3, <1>4, ZenonT(30)
<1>6. \A k \in T : m <= k
  BY <1>4, <1>5
<1> QED  BY <1>6, Zenon DEF Min

\* ... and only one.
LEMMA LeastIs ==
  ASSUME NEW T, T \subseteq Nat, NEW m \in T, \A k \in T : m <= k
  PROVE  Min(T) = m
<1>1. Min(T) \in T /\ Min(T) <= m
  BY LeastOf, Zenon
<1>2. m <= Min(T) /\ m \in Nat /\ Min(T) \in Nat
  BY <1>1, Zenon
<1> QED  BY <1>1, <1>2

\* Where the two searches for the timer's override look: the firmware's table,
\* and what IOAPIC::init kept of it.
MadtTimers == {k \in 1 .. Len(madt) : TimerIso(madt[k])}
IsoTimers == {k \in 1 .. Len(isos) : isos[k].source = 0}

\* What the searches return, in terms of those places.
LEMMA Searches ==
  /\ Override = IF IsoTimers # {} THEN Min(IsoTimers) ELSE 0
  /\ MadtTimers = {} => TimerGsi = 0 /\ FirmwareMode = <<FALSE, FALSE>>
  /\ Min(MadtTimers) # 0 /\ MadtTimers # {} =>
       /\ TimerGsi = madt[Min(MadtTimers)].gsi
       /\ FirmwareMode = <<madt[Min(MadtTimers)].level, madt[Min(MadtTimers)].low>>
BY Zenon DEF Override, TimerGsi, FirmwareMode, SelectInSeq, IsoTimers, MadtTimers, TimerIso

\* IOAPIC::set finds the override the firmware gives for the timer.
LEMMA OverrideFound ==
  ASSUME CopyInv, current > Len(madt)
  PROVE  \/ Override = 0 /\ TimerGsi = 0 /\ FirmwareMode = <<FALSE, FALSE>>
         \/ \E j \in DOMAIN madt :
              /\ IsIso(madt[j]) /\ Override # 0 /\ isos[Override] = madt[j]
              /\ TimerGsi = madt[j].gsi /\ FirmwareMode = <<madt[j].level, madt[j].low>>
<1>1. /\ Len(madt) \in Nat /\ DOMAIN madt = 1 .. Len(madt) /\ Seen = 1 .. Len(madt)
      /\ Len(isos) \in Nat
  BY MadtSeq DEF CopyInv, Seen
<1>2. MadtTimers \subseteq Nat /\ IsoTimers \subseteq Nat
  BY <1>1 DEF MadtTimers, IsoTimers
<1>3. CASE /\ \A j \in Seen : ~TimerIso(madt[j])
           /\ \A i \in 1 .. Len(isos) : isos[i].source # 0
  <2>1. MadtTimers = {} /\ IsoTimers = {}
    BY <1>1, <1>3 DEF MadtTimers, IsoTimers
  <2> QED  BY <2>1, Searches, ZenonT(30)
<1>4. CASE \E j \in Seen, i \in 1 .. Len(isos) :
             /\ isos[i] = madt[j] /\ TimerIso(madt[j])
             /\ \A l \in 1 .. j - 1 : ~TimerIso(madt[l])
             /\ \A l \in 1 .. i - 1 : isos[l].source # 0
  <2>1. PICK j \in Seen, i \in 1 .. Len(isos) :
             /\ isos[i] = madt[j] /\ TimerIso(madt[j])
             /\ \A l \in 1 .. j - 1 : ~TimerIso(madt[l])
             /\ \A l \in 1 .. i - 1 : isos[l].source # 0
    BY <1>4
  <2>2. j \in MadtTimers /\ i \in IsoTimers /\ j # 0 /\ i # 0 /\ j \in Nat /\ i \in Nat
    BY <1>1, <2>1 DEF MadtTimers, IsoTimers, TimerIso
  <2>3. Min(MadtTimers) = j
    <3>1. \A k \in MadtTimers : j <= k
      BY <1>1, <2>1, <2>2 DEF MadtTimers
    <3> QED  BY <1>2, <2>2, <3>1, LeastIs, ZenonT(30)
  <2>4. Min(IsoTimers) = i
    <3>1. \A k \in IsoTimers : i <= k
      BY <1>1, <2>1, <2>2 DEF IsoTimers
    <3> QED  BY <1>2, <2>2, <3>1, LeastIs, ZenonT(30)
  <2>5. Override = i /\ TimerGsi = madt[j].gsi /\ FirmwareMode = <<madt[j].level, madt[j].low>>
    BY <2>2, <2>3, <2>4, Searches
  <2> QED  BY <1>1, <2>1, <2>2, <2>5, ZenonT(30) DEF TimerIso
<1> QED  BY <1>3, <1>4, ZenonT(30) DEF CopyInv, SameOverride

\* The interrupt it routes is the timer's, in the mode the firmware gives.
LEMMA IrqFound ==
  ASSUME CopyInv, current > Len(madt), TimerGsi < W8
  PROVE  /\ ActualIrq = TimerGsi /\ TimerGsi \in Nat
         /\ FirmwareMode = <<Override # 0 /\ isos[Override].level, Override # 0 /\ isos[Override].low>>
<1>1. CASE Override = 0 /\ TimerGsi = 0 /\ FirmwareMode = <<FALSE, FALSE>>
  BY <1>1, ZenonT(30) DEF ActualIrq
<1>2. CASE \E j \in DOMAIN madt :
             /\ IsIso(madt[j]) /\ Override # 0 /\ isos[Override] = madt[j]
             /\ TimerGsi = madt[j].gsi /\ FirmwareMode = <<madt[j].level, madt[j].low>>
  <2>1. PICK j \in DOMAIN madt :
             /\ IsIso(madt[j]) /\ Override # 0 /\ isos[Override] = madt[j]
             /\ TimerGsi = madt[j].gsi /\ FirmwareMode = <<madt[j].level, madt[j].low>>
    BY <1>2
  <2>2. madt[j].gsi \in Nat /\ madt[j].level \in BOOLEAN /\ madt[j].low \in BOOLEAN
    BY <2>1, MadtAssumption, ZenonT(30) DEF CopyInv
  <2>3. ActualIrq = madt[j].gsi % W8
    BY <2>1 DEF ActualIrq
  <2>4. madt[j].gsi % W8 = madt[j].gsi
    BY <2>1, <2>2, InterruptsAssumption
  <2>5. /\ madt[j].level = (Override # 0 /\ isos[Override].level)
        /\ madt[j].low = (Override # 0 /\ isos[Override].low)
    BY <2>1, <2>2, ZenonT(30)
  <2> QED  BY <2>1, <2>2, <2>3, <2>4, <2>5
<1> QED  BY <1>1, <1>2, OverrideFound, ZenonT(30)

\* A copied IOAPIC is one of the machine's.
LEMMA ApicFields ==
  ASSUME CopyInv, NEW k \in 1 .. Len(apics)
  PROVE  apics[k].base \in Nat /\ apics[k].max \in Nat
<1>1. PICK j \in Seen : apics[k] = madt[j] /\ IsIoapic(madt[j])
  BY DEF CopyInv, AllApics
<1>2. j \in DOMAIN madt
  BY MadtSeq DEF CopyInv, Seen
<1> QED  BY <1>1, <1>2, MadtAssumption, ZenonT(30) DEF CopyInv

\* The copied IOAPICs have the machine's pins, all of them.
LEMMA PinsCopied ==
  ASSUME CopyInv, current > Len(madt), NEW p
  PROVE  p \in PinsOf(madt) <=>
           \E k \in 1 .. Len(apics) : \E q \in 0 .. apics[k].max : p = <<apics[k].base, q>>
<1>1. Seen = DOMAIN madt
  BY MadtSeq DEF CopyInv, Seen
<1>2. p \in PinsOf(madt) <=>
        \E j \in DOMAIN madt : IsIoapic(madt[j]) /\ \E q \in 0 .. madt[j].max : p = <<madt[j].base, q>>
  BY DEF PinsOf
<1>3. ASSUME NEW j \in DOMAIN madt, IsIoapic(madt[j]), NEW q \in 0 .. madt[j].max, p = <<madt[j].base, q>>
      PROVE  \E k \in 1 .. Len(apics) : \E r \in 0 .. apics[k].max : p = <<apics[k].base, r>>
  <2>1. PICK k \in 1 .. Len(apics) : apics[k] = madt[j]
    BY <1>1, <1>3 DEF CopyInv, AllApics
  <2> QED  BY <1>3, <2>1
<1>4. ASSUME NEW k \in 1 .. Len(apics), NEW q \in 0 .. apics[k].max, p = <<apics[k].base, q>>
      PROVE  \E j \in DOMAIN madt : IsIoapic(madt[j]) /\ \E r \in 0 .. madt[j].max : p = <<madt[j].base, r>>
  <2>1. PICK j \in DOMAIN madt : apics[k] = madt[j] /\ IsIoapic(madt[j])
    BY <1>1 DEF CopyInv, AllApics
  <2> QED  BY <1>4, <2>1
<1> QED  BY <1>2, <1>3, <1>4

\* The search of IOAPIC::set ends at an IOAPIC that holds the interrupt, or,
\* when none does, at the last one.
Holders == {k \in 1 .. Len(apics) : Holds(apics[k])}

LEMMA SearchEnds ==
  ASSUME CopyInv, apics # <<>>
  PROVE  \E c \in 1 .. Len(apics) :
           /\ ChosenApic = apics[c]
           /\ c \in Holders \/ (Holders = {} /\ c = Len(apics))
<1>1. Len(apics) \in Nat /\ Len(apics) # 0 /\ Holders \subseteq Nat
  BY DEF CopyInv, Holders
<1>2. ChosenApic = apics[IF Holders = {} THEN Len(apics) ELSE
                           IF Min(Holders) = 0 THEN Len(apics) ELSE Min(Holders)]
  BY <1>1 DEF ChosenApic, SelectInSeq, Holders
<1>3. CASE Holders = {}
  BY <1>1, <1>2, <1>3
<1>4. CASE Holders # {}
  <2>1. Min(Holders) \in Holders
    BY <1>1, <1>4, LeastOf, ZenonT(30)
  <2>2. Min(Holders) \in 1 .. Len(apics) /\ Min(Holders) # 0
    BY <1>1, <2>1 DEF Holders
  <2> QED  BY <1>2, <1>4, <2>1, <2>2
<1> QED  BY <1>3, <1>4

\* The pin whose entry IOAPIC::set writes is the timer's, if the search can find it.
LEMMA PinFound ==
  ASSUME CopyInv, current > Len(madt), TimerGsi < W8, apics # <<>>, NEW p \in PinsOf(madt)
  PROVE  p = ChosenPin <=> Findable /\ p[1] + p[2] = TimerGsi
<1> DEFINE n == Len(apics)
           g == TimerGsi
<1>1. g = ActualIrq /\ g \in Nat /\ n \in Nat /\ DOMAIN apics = 1 .. n
  BY IrqFound DEF CopyInv
<1>2. PICK c \in 1 .. n : ChosenApic = apics[c] /\ (c \in Holders \/ (Holders = {} /\ c = n))
  BY SearchEnds
<1>3. PICK k \in 1 .. n : \E q \in 0 .. apics[k].max : p = <<apics[k].base, q>>
  BY PinsCopied
<1>4. PICK q \in 0 .. apics[k].max : p = <<apics[k].base, q>>
  BY <1>3
<1>5. \A i \in 1 .. n : apics[i].base \in Nat /\ apics[i].max \in Nat
  BY ApicFields
<1>6. \A i, l \in 1 .. n, x \in Nat : x \in Gsis(apics[i]) /\ x \in Gsis(apics[l]) => i = l
  BY ZenonT(30) DEF CopyInv, AllApics
<1>7. \A i \in 1 .. n : /\ i \in Owners <=> g \in Gsis(apics[i])
                        /\ i \in Holders <=> g \in Gsis(apics[i]) /\ g < apics[i].base + apics[i].max
                        /\ apics[i].base \in Gsis(apics[i])
  BY <1>1, <1>5 DEF Owners, Holders, Holds, Gsis
<1>8. Findable <=> \E i \in Owners : i \in Holders \/ i = n
  BY <1>1, <1>7 DEF Findable, Owners
<1>9. Owners \subseteq 1 .. n
  BY <1>1 DEF Owners
<1>10. /\ p[1] + p[2] = g <=> g = apics[k].base + q
       /\ p = ChosenPin <=> apics[k].base = apics[c].base /\ q = g - apics[c].base
  BY <1>1, <1>2, <1>4, <1>5, ZenonT(30) DEF ChosenPin
<1>11. g = apics[k].base + q => g \in Gsis(apics[k])
  BY <1>1, <1>4, <1>5 DEF Gsis
<1> HIDE DEF n, g
<1>12. ASSUME p = ChosenPin PROVE Findable /\ p[1] + p[2] = g
  <2>1. k = c
    BY <1>5, <1>6, <1>7, <1>10, <1>12
  <2>2. g = apics[k].base + q
    BY <1>1, <1>4, <1>5, <1>10, <1>12, <2>1
  <2> QED  BY <1>2, <1>7, <1>8, <1>10, <1>11, <2>1, <2>2
<1>13. ASSUME Findable, p[1] + p[2] = g PROVE p = ChosenPin
  <2>1. k \in Owners /\ g = apics[k].base + q
    BY <1>7, <1>10, <1>11, <1>13
  <2>2. PICK f \in Owners : f \in Holders \/ f = n
    BY <1>8, <1>13
  <2>3. f = k
    BY <1>1, <1>6, <1>7, <1>9, <2>1, <2>2
  <2>4. c = k
    <3>1. CASE c \in Holders
      BY <1>1, <1>6, <1>7, <2>1, <3>1
    <3>2. CASE Holders = {} /\ c = n
      BY <2>2, <2>3, <3>2
    <3> QED  BY <1>2, <3>1, <3>2
  <2> QED  BY <1>1, <1>4, <1>5, <1>10, <2>1, <2>4
<1> QED  BY <1>12, <1>13 DEF g

\* The entries before, between and after the two writes of IOAPIC::set.
Blank == [p \in PinsOf(madt) |-> Reset]
Words(v, m, d, l, w) == [vec |-> v, masked |-> m, dest |-> d, level |-> l, low |-> w]
Redirected(r, d) == [r EXCEPT !.dest = d]
Entry(d) == Words(TimerVec, FALSE, d, Override # 0 /\ isos[Override].level,
                  Override # 0 /\ isos[Override].low)
Routing(d) == [p \in PinsOf(madt) |-> IF p = ChosenPin THEN Entry(d) ELSE Reset]

\* The second write changes the destination alone.
LEMMA DestWritten ==
  \A v, m, a, b, l, w : Redirected(Words(v, m, a, l, w), b) = Words(v, m, b, l, w)
BY DEF Words, Redirected

RouteInv ==
  /\ CopyInv
  /\ stage \in {"idt", "ioapic", "register", "route", "route_high", "up", "off"}
  /\ stage \notin {"idt", "ioapic"} => current > Len(madt)
  /\ stage \in {"idt", "ioapic", "register", "route"} => redir = Blank
  /\ stage = "route_high" => apics # <<>> /\ redir = Routing(0)
  /\ stage \in {"up", "off"} => redir = IF apics = <<>> THEN Blank ELSE Routing(self)

\* At the start nothing is copied and every pin is masked.
LEMMA RouteInit == Init => RouteInv
<1> SUFFICES ASSUME Init PROVE RouteInv
  OBVIOUS
<1>1. /\ madt \in Madts /\ current = 1 /\ apics = <<>> /\ isos = <<>>
      /\ stage = "idt" /\ redir = Blank
  BY DEF Init, Blank
<1>2. Len(madt) \in Nat
  BY <1>1, MadtSeq
<1>3. Seen = {} /\ Len(apics) = 0 /\ Len(isos) = 0 /\ current \in 1 .. Len(madt) + 1
  BY <1>1, <1>2 DEF Seen
<1>4. SameOverride /\ AllApics
  BY <1>3 DEF SameOverride, AllApics
<1>5. apics \in Seq(Entries) /\ isos \in Seq(Entries)
  BY <1>1
<1>6. CopyInv
  BY <1>1, <1>3, <1>4, <1>5 DEF CopyInv
<1> QED  BY <1>1, <1>6 DEF RouteInv

\* A step that leaves the copied tables alone leaves what is derived from them.
LEMMA CopyKept ==
  ASSUME CopyInv, UNCHANGED acpi
  PROVE  /\ CopyInv' /\ (current > Len(madt) <=> (current > Len(madt))')
         /\ Blank' = Blank /\ ChosenPin' = ChosenPin
         /\ Routing(0)' = Routing(0) /\ Routing(self)' = Routing(self) /\ apics' = apics
<1>1. madt' = madt /\ current' = current /\ apics' = apics /\ isos' = isos /\ self' = self
  BY DEF acpi
<1>2. CopyInv'
  <2>1. Seen' = Seen /\ Entries' = Entries
    BY <1>1 DEF Seen, Entries
  <2>2. SameOverride'
    BY <1>1, <2>1 DEF CopyInv, SameOverride, TimerIso, IsIso
  <2>3. AllApics'
    BY <1>1, <2>1, ZenonT(30) DEF CopyInv, AllApics, IsIoapic, Gsis
  <2> QED  BY <1>1, <2>1, <2>2, <2>3 DEF CopyInv
<1>3. Override' = Override
  BY <1>1 DEF Override, SelectInSeq
<1>4. ActualIrq' = ActualIrq
  BY <1>1, <1>3 DEF ActualIrq
<1>5. ChosenApic' = ChosenApic
  BY <1>1, <1>4 DEF ChosenApic, SelectInSeq, Holds
<1>6. ChosenPin' = ChosenPin
  BY <1>4, <1>5 DEF ChosenPin
<1>7. Blank' = Blank
  BY <1>1 DEF Blank
<1>8. Entry(0)' = Entry(0) /\ Entry(self)' = Entry(self)
  BY <1>1, <1>3 DEF Entry
<1>9. Routing(0)' = Routing(0) /\ Routing(self)' = Routing(self)
  BY <1>1, <1>6, <1>8 DEF Routing
<1> QED  BY <1>1, <1>2, <1>6, <1>7, <1>9

\* Only the two writes of IOAPIC::set change a redirection entry.
LEMMA RouteStep == RouteInv /\ [Next]_vars => RouteInv'
<1> SUFFICES ASSUME RouteInv, [Next]_vars PROVE RouteInv'
  OBVIOUS
<1>1. CASE IdtInit
  <2>1. UNCHANGED <<acpi, redir>> /\ stage = "idt" /\ stage' = "ioapic"
    BY <1>1 DEF IdtInit
  <2> QED  BY <2>1, CopyKept DEF RouteInv
<1>2. CASE IoapicEntry
  <2>1. CopyInv' /\ stage = "ioapic" /\ stage' = stage /\ redir' = redir /\ Blank' = Blank
    BY <1>2, CopyStep DEF RouteInv, IoapicEntry, Blank, Reset
  <2> QED  BY <2>1 DEF RouteInv
<1>3. CASE IoapicInit
  <2>1. UNCHANGED <<acpi, redir>> /\ stage = "ioapic" /\ stage' = "register" /\ current > Len(madt)
    BY <1>3 DEF IoapicInit
  <2> QED  BY <2>1, CopyKept DEF RouteInv
<1>4. CASE RegisterTimer
  <2>1. UNCHANGED <<acpi, redir>> /\ stage = "register" /\ stage' = "route"
    BY <1>4 DEF RegisterTimer
  <2> QED  BY <2>1, CopyKept DEF RouteInv
<1>5. CASE NoIoapic
  <2>1. UNCHANGED <<acpi, redir>> /\ stage = "route" /\ stage' = "up" /\ apics = <<>>
    BY <1>5 DEF NoIoapic
  <2> QED  BY <2>1, CopyKept DEF RouteInv
<1>6. CASE RouteLow
  <2>1. UNCHANGED acpi /\ stage = "route" /\ stage' = "route_high" /\ apics # <<>> /\ redir = Blank
    BY <1>6 DEF RouteLow, RouteInv
  <2>2. redir' = Routing(0)
    <3>1. redir' = IF ChosenPin \in DOMAIN redir THEN [redir EXCEPT ![ChosenPin] = Entry(0)] ELSE redir
      BY <1>6 DEF RouteLow, Written, Entry, Words
    <3>2. DOMAIN redir = PinsOf(madt) /\ redir = [p \in PinsOf(madt) |-> Reset]
      BY <2>1 DEF Blank
    <3> QED  BY <3>1, <3>2 DEF Routing
  <2> QED  BY <2>1, <2>2, CopyKept DEF RouteInv
<1>7. CASE RouteHigh
  <2>1. /\ UNCHANGED acpi /\ stage = "route_high" /\ stage' = "up" /\ apics # <<>>
        /\ redir = Routing(0)
    BY <1>7 DEF RouteHigh, RouteInv
  <2>2. redir' = Routing(self)
    <3>1. DOMAIN redir = PinsOf(madt)
      BY <2>1 DEF Routing
    <3>2. CASE ChosenPin \notin PinsOf(madt)
      <4>1. redir' = redir
        BY <1>7, <3>1, <3>2 DEF RouteHigh
      <4> QED  BY <2>1, <3>2, <4>1 DEF Routing
    <3>3. CASE ChosenPin \in PinsOf(madt)
      <4>1. redir' = [redir EXCEPT ![ChosenPin] = Redirected(redir[ChosenPin], self)]
        BY <1>7, <3>1, <3>3 DEF RouteHigh, Redirected
      <4>2. redir[ChosenPin] = Entry(0)
        BY <2>1, <3>3 DEF Routing
      <4>3. Redirected(Entry(0), self) = Entry(self)
        <5> DEFINE masked == FALSE
                   level == Override # 0 /\ isos[Override].level
                   low == Override # 0 /\ isos[Override].low
        <5>1. /\ Entry(0) = Words(TimerVec, masked, 0, level, low)
              /\ Entry(self) = Words(TimerVec, masked, self, level, low)
          BY DEF Entry
        <5> HIDE DEF masked, level, low
        <5> QED  BY <5>1, DestWritten
      <4>4. redir' = [redir EXCEPT ![ChosenPin] = Entry(self)]
        BY <4>1, <4>2, <4>3, ZenonT(30)
      <4> QED  BY <2>1, <3>3, <4>4 DEF Routing
    <3> QED  BY <3>2, <3>3
  <2> QED  BY <2>1, <2>2, CopyKept DEF RouteInv
<1>8. CASE \E fails \in BOOLEAN : Shutdown(fails)
  <2>1. UNCHANGED <<acpi, redir>> /\ stage = "up" /\ stage' \in {"up", "off"}
    BY <1>8 DEF Shutdown
  <2> QED  BY <2>1, CopyKept DEF RouteInv
<1>9. CASE UNCHANGED <<boot, redir>>
  <2>1. UNCHANGED <<acpi, redir>> /\ stage' = stage
    BY <1>9 DEF boot
  <2> QED  BY <2>1, CopyKept DEF RouteInv
<1>10. CASE TimerEdge \/ Interrupt
  BY <1>9, <1>10, ZenonT(30) DEF TimerEdge, Interrupt, Dispatch
<1>11. CASE UacpiStep
  BY <1>9, <1>11 DEF UacpiStep, InstallStore, InstallRegister, UninstallStore
<1>12. CASE UacpiCall
  BY <1>8, <1>9, <1>12 DEF UacpiCall, Install, Uninstall
<1>13. CASE UNCHANGED vars
  BY <1>9, <1>13 DEF vars
<1> QED  BY <1>1, <1>2, <1>3, <1>4, <1>5, <1>6, <1>7, <1>10, <1>11, <1>12, <1>13 DEF Next, StartUp

\* IOAPIC::set unmasks the timer's own pin and no other, towards the boot
\* processor, in the firmware's mode, whenever its search can find the pin.
THEOREM RoutingCorrect == Spec => []TimerRouted
<1>1. RouteInv => TimerRouted
  <2> SUFFICES ASSUME RouteInv, stage = "up", TimerGsi < W8
               PROVE  /\ {p \in DOMAIN redir : ~redir[p].masked} = (IF Findable THEN TimerPin ELSE {})
                      /\ \A p \in DOMAIN redir : ~redir[p].masked =>
                           /\ redir[p].vec = TimerVec /\ redir[p].dest = self
                           /\ <<redir[p].level, redir[p].low>> = FirmwareMode
    BY DEF TimerRouted
  <2>1. /\ CopyInv /\ current > Len(madt)
        /\ redir = IF apics = <<>> THEN Blank ELSE Routing(self)
    BY DEF RouteInv
  <2>2. CASE apics = <<>>
    <3>1. ~Findable
      BY <2>2 DEF Findable, Owners
    <3>2. \A p \in DOMAIN redir : redir[p].masked
      BY <2>1, <2>2 DEF Blank, Reset
    <3> QED  BY <3>1, <3>2
  <2>3. CASE apics # <<>>
    <3>1. /\ DOMAIN redir = PinsOf(madt)
          /\ \A p \in PinsOf(madt) : redir[p] = IF p = ChosenPin THEN Entry(self) ELSE Reset
      BY <2>1, <2>3 DEF Routing
    <3>2. \A p \in PinsOf(madt) : ~redir[p].masked <=> p = ChosenPin
      BY <3>1 DEF Entry, Words, Reset
    <3>3. \A p \in PinsOf(madt) : p = ChosenPin <=> Findable /\ p[1] + p[2] = TimerGsi
      BY <2>1, <2>3, PinFound
    <3>4. {p \in DOMAIN redir : ~redir[p].masked} = (IF Findable THEN TimerPin ELSE {})
      BY <3>1, <3>2, <3>3 DEF TimerPin
    <3>5. Entry(self).vec = TimerVec /\ Entry(self).dest = self
      BY DEF Entry, Words
    <3>6. <<Entry(self).level, Entry(self).low>> = FirmwareMode
      BY <2>1, IrqFound DEF Entry, Words
    <3> QED  BY <3>1, <3>2, <3>4, <3>5, <3>6
  <2> QED  BY <2>2, <2>3
<1> QED  BY <1>1, RouteInit, RouteStep, PTL DEF Spec
=============================================================================
