----------------------------- MODULE Exceptions -----------------------------
(***************************************************************************)
(* An interrupt from the interrupted program through its stub, the C++     *)
(* handler (irq.cc, handler.cc) and, for an exception, the report          *)
(* (dump.cc) up to `cli; hlt`.  One CPU.  All exceptions and NMIs enter on *)
(* the same IST stack, from its top: one that comes while another is being *)
(* handled overwrites the frames of the first, which is never resumed.     *)
(***************************************************************************)
EXTENDS InterruptEntry, CrashDump

CONSTANTS
  Vectors,     \* the vectors that are raised
  Messages,    \* number of messages[] (22)
  MaxFrames,   \* frames of a backtrace (16)
  Images       \* kernel images: [symtab, rows], see MCExceptions

\* The vectors that have a stub, without those whose error code the stubs do not expect:
\* alignment checks need privilege level 3, and the others CET, SEV-ES and SVM.
Raised == (0..47 \ {17, 21, 29, 30}) \cup {240, 255}

ASSUME ExceptionsAssumption ==
  /\ Vectors \subseteq Raised /\ MaxFrames \in Nat
  /\ \A i \in Images : i.symtab \in Seq(Symbols) /\ i.rows \subseteq Nat

VARIABLES
  mode,        \* "program", "stub", "report", "halted"
  vec,         \* the vector being handled
  code,        \* the rest of its stub
  cpu,         \* registers and the current stack
  saved,       \* the registers when it came
  chain,       \* where the rbp chain leads
  first,       \* no other exception came before the one being handled was reported
  crashed,     \* an exception was raised
  part,        \* the report's next part
  report,      \* what the report says
  image,       \* the kernel image
  table,       \* symbol_table
  heap         \* whether the frame allocator has room for the report's names

vars == <<mode, vec, code, cpu, saved, chain, first, crashed, part, report, image, table, heap>>

\* A chain ends with a null pointer, runs in a circle (frames that were
\* overwritten), or leads to an address that is not mapped.
Chains == {"ends", "cycle", "wild"}
NoReport == [rip |-> 0, at |-> 0, symbol |-> 0, frames |-> 0]

Init ==
  /\ mode = "program" /\ vec = 0 /\ code = <<>>
  /\ cpu = [regs |-> [r \in GP |-> Reg(r)], stack |-> <<>>]
  /\ saved = cpu.regs
  /\ chain \in Chains
  /\ first = TRUE /\ crashed = FALSE /\ part = "none" /\ report = NoReport
  /\ image \in Images
  /\ table = init_symbols(image.symtab)
  /\ heap \in {"serves", "low"}

\* The CPU takes vector v: IST stack from its top, interrupts masked.
Enter(v) ==
  /\ mode' = "stub" /\ vec' = v /\ code' = Stub(v)
  /\ cpu' = [cpu EXCEPT !.stack = Entered(v)]
  /\ saved' = cpu.regs
  /\ crashed' = (crashed \/ (~IsIrq(v) /\ v # Spurious))
  /\ part' = "none" /\ report' = NoReport
  /\ UNCHANGED <<image, table, heap>>

\* The interrupted program is stopped by an exception or an interrupt.
Raise(v) ==
  /\ mode = "program"
  /\ Enter(v)
  /\ UNCHANGED <<chain, first>>

\* An NMI comes in the middle of another handler, or wakes hlt.  The frames the
\* rbp chain runs through may now be overwritten.
Nmi ==
  /\ mode # "program" /\ vec # NMI
  /\ Enter(NMI)
  /\ first' = FALSE
  /\ chain' \in Chains

\* The report itself faults.
Nested ==
  /\ Enter(PageFault)
  /\ first' = FALSE
  /\ chain' \in Chains

\* One instruction of a stub up to the call, or after it.
Instruction ==
  /\ mode = "stub" /\ code # <<>> /\ Head(code).op \notin {"call", "iretq"}
  /\ cpu' = Exec(Head(code), cpu)
  /\ code' = Tail(code)
  /\ UNCHANGED <<mode, vec, saved, chain, first, crashed, part, report, image, table, heap>>

\* iretq: the program continues.
Return ==
  /\ mode = "stub" /\ code # <<>> /\ Head(code).op = "iretq"
  /\ mode' = "program" /\ code' = <<>>
  /\ UNCHANGED <<vec, cpu, saved, chain, first, crashed, part, report, image, table, heap>>

\* irq_handler, and isr_handler for a spurious interrupt: they return.
CallReturns ==
  /\ mode = "stub" /\ code # <<>> /\ Head(code).op = "call"
  /\ Head(code).arg = "irq_handler" \/ vec = Spurious
  /\ cpu' = [cpu EXCEPT !.regs = Called(@)]
  /\ code' = Tail(code)
  /\ UNCHANGED <<mode, vec, saved, chain, first, crashed, part, report, image, table, heap>>

\* The row of the line table that covers an address (DWARF::addr2line_lookup).
Row(a) == {r \in image.rows : r <= a /\ \A q \in image.rows : q <= a => q <= r}

\* The row of the byte before the interrupted instruction, or the instruction.
find_rip(return_address) ==
  IF Row(return_address - 1) = {} THEN return_address
  ELSE CHOOSE r \in Row(return_address - 1) : TRUE

\* isr_handler for anything else: find_rip first.
CallReports(return_address) ==
  /\ mode = "stub" /\ code # <<>> /\ Head(code).op = "call"
  /\ Head(code).arg = "isr_handler" /\ vec # Spurious
  /\ mode' = "report" /\ part' = "registers"
  /\ cpu' = [cpu EXCEPT !.regs = Called(@)]
  /\ report' = [NoReport EXCEPT !.rip = find_rip(return_address), !.at = return_address]
  /\ UNCHANGED <<vec, code, saved, chain, first, crashed, image, table, heap>>

\* dump_registers: strlen(messages[int_num]), a null pointer from 22 on.
DumpRegisters ==
  /\ mode = "report" /\ part = "registers"
  /\ IF vec >= Messages
     THEN Nested
     ELSE /\ part' = IF vec \in {8, 10, 11, 13, 14} THEN "errcode" ELSE "dump"
          /\ UNCHANGED <<mode, vec, code, cpu, saved, chain, first, crashed, report, image, table, heap>>

\* handle_err_code: the section of the vector.
HandleErrCode ==
  /\ mode = "report" /\ part = "errcode"
  /\ part' = "dump"
  /\ UNCHANGED <<mode, vec, code, cpu, saved, chain, first, crashed, report, image, table, heap>>

disas_addr(r) == IF r.at - r.rip < 2 THEN r.at ELSE r.rip

\* search_repr of symbol s, after which the report goes on with part p: kmalloc(128),
\* which may find no frame and stop in create_heap_page's hlt, then the demangler.
search_repr(s, p) ==
  \/ "named" \in demangle_alloc_symbol(s.name) /\ part' = p /\ UNCHANGED mode
  \/ "stuck" \in demangle_alloc_symbol(s.name) /\ part' = "stuck" /\ UNCHANGED mode
  \/ heap = "low" /\ part' = "no memory" /\ mode' = "halted"

\* The demangler's loop writes on, for ever or until a page is not mapped.
Runaway == mode = "report" /\ part = "stuck" /\ Nested

\* dump_at_addr up to the backtrace: nothing is shown without a symbol.
DumpAtAddr ==
  /\ mode = "report" /\ part = "dump"
  /\ report' = [report EXCEPT !.symbol = resolve_address(table, report.rip)]
  /\ \/ report'.symbol = 0 /\ part' = "halt" /\ UNCHANGED mode
     \/ \E k \in DOMAIN table : k = report'.symbol /\ search_repr(table[k], "backtrace")
  /\ UNCHANGED <<vec, code, cpu, saved, chain, first, crashed, image, table, heap>>

\* A frame of the backtrace is named when its return address has a row in the line
\* table, by the symbol of that row.
FrameNamed ==
  \E r \in image.rows, k \in DOMAIN table :
    k = resolve_address(table, r) /\ search_repr(table[k], "backtrace")

\* Mutant: the loop runs as long as the chain does.
BacktraceUnbounded ==
  /\ mode = "report" /\ part = "backtrace"
  /\ \/ chain = "wild" /\ Nested
     \/ /\ part' = IF chain = "cycle" THEN part ELSE "window"
        /\ report' = [report EXCEPT !.frames = 1 - @]
        /\ UNCHANGED <<mode, vec, code, cpu, saved, chain, first, crashed, image, table, heap>>

\* backtrace: one turn of the loop.
Backtrace ==
  /\ mode = "report" /\ part = "backtrace"
  /\ \/ /\ report.frames = MaxFrames \/ chain = "ends"
        /\ part' = "window"
        /\ UNCHANGED <<mode, vec, code, cpu, saved, chain, first, crashed, report, image, table, heap>>
     \/ /\ report.frames < MaxFrames
        /\ report' = [report EXCEPT !.frames = @ + 1]
        /\ FrameNamed \/ UNCHANGED <<mode, part>>
        /\ UNCHANGED <<vec, code, cpu, saved, chain, first, crashed, image, table, heap>>
     \/ report.frames < MaxFrames /\ chain = "wild" /\ Nested

\* The rest of dump_at_addr: the lines of Shown and Marked.  A call, jmp, lea or mov
\* to the start of a function names it; the first name that does not come back ends
\* the report.
DumpWindow ==
  /\ mode = "report" /\ part = "window"
  /\ \/ part' = "halt" /\ UNCHANGED mode
     \/ \E k \in DOMAIN table : search_repr(table[k], "halt")
  /\ UNCHANGED <<vec, code, cpu, saved, chain, first, crashed, report, image, table, heap>>

\* Mutant: isr_handler returns to its stub after the report.
HaltReturns ==
  /\ mode = "report" /\ part = "halt"
  /\ mode' = "stub" /\ code' = Tail(code)
  /\ UNCHANGED <<vec, cpu, saved, chain, first, crashed, part, report, image, table, heap>>

\* cli; hlt
Halt ==
  /\ mode = "report" /\ part = "halt"
  /\ mode' = "halted"
  /\ UNCHANGED <<vec, code, cpu, saved, chain, first, crashed, part, report, image, table, heap>>

\* Where the interrupted instruction may be: any instruction of the image.
Addresses ==
  UNION {{InstrAddr(s.address, s.lens, k) : k \in DOMAIN s.lens} : s \in Range(image.symtab)}

Handler ==
  \/ Instruction \/ Return \/ CallReturns
  \/ \E a \in Addresses : CallReports(a)
  \/ DumpRegisters \/ HandleErrCode \/ DumpAtAddr \/ Backtrace \/ DumpWindow \/ Halt

Next == (\E v \in Vectors : Raise(v)) \/ Nmi \/ Handler \/ Runaway

\* The processor goes on with a handler; that Runaway meets a fault is not assumed.
Spec == Init /\ [][Next]_vars /\ WF_vars(Handler)

-----------------------------------------------------------------------------
\* When a stub calls isr_handler the words at rdi are a struct isr_frame of the
\* interruption: the interrupted rip, all general registers as they were, the
\* vector and the CPU's error code (0 when it pushes none); rsp is the one the
\* exception stack had, not the program's.  irq_handler finds the line number and
\* all registers in a struct irq_frame (macros.s, isr.h, irq.h).
FrameFaithful ==
  (mode = "stub" /\ code # <<>> /\ Head(code).op = "call") =>
    LET irq == Head(code).arg = "irq_handler"
        F(f) == Field(cpu.stack, IF irq THEN irq_frame ELSE isr_frame, f)
    IN /\ \A r \in GP : F(r) = saved[r]
       /\ irq => /\ F("error") = Num(vec - 32)
                 /\ \A f \in Range(CpuFrame) : F(f) = Reg(f)
       /\ ~irq => /\ F("return_address") = Reg("rip")
                  /\ F("int_num") = Num(vec)
                  /\ F("error_code") = IF CpuPushesCode(vec) THEN Num(100) ELSE Num(0)
                  /\ F("rip") = Reg("stub rip")
                  /\ \A f \in {"cr0", "cr2", "cr3", "cr4", "cr8", "cs", "ss"} : F(f) = Reg(f)
                  /\ F("rsp")[1] = "sp"

\* An interrupt is invisible to the program it interrupts: at iretq the stack is
\* what the CPU pushed and every register is as it was, but for r15 after a
\* spurious interrupt, which popa uses to drop the number and the error code.
ReturnRestores ==
  (~crashed /\ mode = "stub" /\ code # <<>> /\ Head(code).op = "iretq") =>
    /\ cpu.stack = Backwards(Each(Reg, CpuFrame))
    /\ \A r \in GP : cpu.regs[r] =
         IF r = "r15" /\ vec = Spurious THEN Num(0) ELSE saved[r]

\* isr_handler's "hangs": after an exception the interrupted program never runs
\* again, not even when an NMI ends the hlt.
CrashIsFinal == crashed => mode # "program"

\* An exception with a message gets its own report to the end and halts the machine,
\* unless an NMI comes in between, if the rbp chain stays in mapped memory, kmalloc
\* has memory for the names and the demangler comes back from each of them.  The
\* chain need not end: backtrace stops after MaxFrames.
ReportEnds ==
  (/\ mode = "stub" /\ vec < Messages /\ first
   /\ chain # "wild" /\ heap = "serves"
   /\ \A k \in DOMAIN table : Stays(table[k].name) = {})
    ~> (first /\ mode = "halted" /\ part = "halt") \/ (~first /\ vec = NMI)

\* A finished report names the last function that starts at or below the looked-up
\* address and marks the one instruction of it that holds disas_addr, with at least
\* one line before it if the function has one.  The marked address is the start of
\* the line of the byte before the interrupted instruction, or that instruction.
\* Nothing is marked in two cases: near the start of a function, past the window's
\* length; and when no instruction of the function holds disas_addr, as when the
\* interrupted instruction is the first of the next function.
ReportLocates ==
  (mode = "halted" /\ part = "halt" /\ report.symbol # 0) =>
    LET a == disas_addr(report)
        funcs == {s \in Range(image.symtab) : s.func}
        s == table[report.symbol]
        shown == Shown(s.address, s.lens, a)
        marked == Marked(s.address, s.lens, a)
        K == {k \in DOMAIN s.lens : InstrAddr(s.address, s.lens, k) <= a
                                    /\ a < InstrEnd(s.address, s.lens, k)}
    IN /\ s \in funcs /\ s.address <= report.rip
       /\ \A f \in funcs : f.address <= report.rip => f.address <= s.address
       /\ a <= report.at
       /\ \A r \in image.rows : ~(a < r /\ r < report.at)
       /\ \/ marked = K
          \/ marked = {} /\ a - s.address <= Threshold /\ \A k \in K : k > Show
       /\ \A k \in marked : k = 1 \/ (k - 1) \in shown
=============================================================================
