--------------------------- MODULE InterruptEntry ---------------------------
(***************************************************************************)
(* The assembly entry and exit of every interrupt (macros.s, isr.s) as a   *)
(* stack machine: the stubs' instructions, the two frame layouts the C++   *)
(* handlers read (struct isr_frame, struct irq_frame), and what the CPU    *)
(* pushes and pops itself.  A register's content is the name of the        *)
(* register whose content it was when the interrupt came, <<"reg", name>>; *)
(* <<"num", n>> is a number, <<"sp", d>> a stack pointer with d words on   *)
(* the stack, and Junk what a called function leaves behind.               *)
(***************************************************************************)
EXTENDS Integers, Sequences, Functions

GP == {"rax", "rbx", "rcx", "rdx", "rsi", "rdi", "rbp",
       "r8", "r9", "r10", "r11", "r12", "r13", "r14", "r15"}
CallerSaved == {"rax", "rcx", "rdx", "rsi", "rdi", "r8", "r9", "r10", "r11"}

Reg(r) == <<"reg", r>>
Num(n) == <<"num", n>>
Junk == <<"junk", 0>>

NMI == 2
PageFault == 14
Spurious == 255
IsIrq(v) == v \in 32..47

\* The CPU pushes an error code for these.
CpuPushesCode(v) == v \in {8, 17, 21, 29, 30} \cup 10..14

-----------------------------------------------------------------------------
(* Instructions: an operation and its operand. *)

Push(r) == [op |-> "push", arg |-> r]
PushNum(n) == [op |-> "pushnum", arg |-> n]
Spill(x) == [op |-> "spill", arg |-> x]      \* mov x, %rax; pushq %rax
Pop(r) == [op |-> "pop", arg |-> r]
Backwards(names) == [i \in 1..Len(names) |-> names[Len(names) + 1 - i]]
Each(I(_), names) == [k \in DOMAIN names |-> I(names[k])]

\* The registers pusha copies through rax, and those it pushes, in order.
Copied == <<"stub rip", "cr8", "cr4", "cr3", "cr2", "cr0", "ss", "cs", "ds", "es", "fs", "gs">>
Saved == <<"r15", "r14", "r13", "r12", "r11", "r10", "r9", "r8", "rbp", "rsp",
           "rdi", "rsi", "rdx", "rcx", "rbx", "rax">>

pusha == Each(Push, Saved) \o Each(Spill, Copied)
popa == [k \in 1..13 |-> Pop("rax")] \o Each(Pop, Backwards(Saved)) \o <<Pop("r15"), Pop("r15")>>

SavedIrq == <<"rax", "rbx", "rcx", "rdx", "rdi", "rsi", "rbp",
              "r8", "r9", "r10", "r11", "r12", "r13", "r14", "r15">>

pushairq(irq) == <<PushNum(irq)>> \o Each(Push, SavedIrq)

\* Mutant: popairq in the order of pushairq.
popairqForward == Each(Pop, SavedIrq) \o <<[op |-> "skip", arg |-> 1]>>

popairq == Each(Pop, Backwards(SavedIrq)) \o <<[op |-> "skip", arg |-> 1]>>

\* Mutant: save_ra reads 232(%rsp), one word short.
save_raShort == <<[op |-> "saveword", arg |-> 29]>>

\* save_ra: copies the word at 240(%rsp).
save_ra == <<[op |-> "saveword", arg |-> 30]>>

Call(f) == <<[op |-> "call", arg |-> f]>>
Iretq == <<[op |-> "iretq", arg |-> 0]>>

ISR_ERR(v) == <<PushNum(v)>> \o pusha \o save_ra
ISR_NOERR(v) == <<PushNum(0)>> \o ISR_ERR(v)
IRQ(v) == pushairq(v - 32)

isr_common == Call("isr_handler") \o popa \o Iretq
irq_common == Call("irq_handler") \o popairq \o Iretq

\* The stub of each gate, by the list of isr.s.
Stub(v) == IF IsIrq(v) THEN IRQ(v) \o irq_common
           ELSE IF v \in {8} \cup 10..14 THEN ISR_ERR(v) \o isr_common
           ELSE ISR_NOERR(v) \o isr_common

-----------------------------------------------------------------------------
(* The words the handlers expect at (%rdi), lowest address first. *)

CpuFrame == <<"rip", "cs", "rflags", "rsp", "ss">>
isr_frame == <<"return_address", "gs", "fs", "es", "ds", "cs", "ss",
               "cr0", "cr2", "cr3", "cr4", "cr8", "rip",
               "rax", "rbx", "rcx", "rdx", "rsi", "rdi", "rsp", "rbp",
               "r8", "r9", "r10", "r11", "r12", "r13", "r14", "r15",
               "int_num", "error_code">>
irq_frame == <<"r15", "r14", "r13", "r12", "r11", "r10", "r9", "r8", "rbp", "rsi", "rdi",
               "rdx", "rcx", "rbx", "rax", "error">> \o CpuFrame

\* The field of a frame that starts at the top of a stack.
Field(stack, layout, f) == stack[Len(stack) + 1 - CHOOSE k \in 1..Len(layout) : layout[k] = f]

-----------------------------------------------------------------------------
(* What the CPU does. *)

\* The words an interrupt leaves at the top of its IST stack.
Entered(v) == Backwards(Each(Reg, CpuFrame))
              \o (IF CpuPushesCode(v) THEN <<Num(100)>> ELSE <<>>)

Top(stack) == stack[Len(stack)]
Below(stack) == SubSeq(stack, 1, Len(stack) - 1)

\* Registers and stack after an instruction of a stub.
Exec(i, s) ==
  CASE i.op = "push" ->
         [s EXCEPT !.stack = Append(@, IF i.arg = "rsp" THEN <<"sp", Len(@)>> ELSE s.regs[i.arg])]
    [] i.op = "pushnum" -> [s EXCEPT !.stack = Append(@, Num(i.arg))]
    [] i.op = "spill" ->
         [s EXCEPT !.stack = Append(@, Reg(i.arg)), !.regs["rax"] = Reg(i.arg)]
    [] i.op = "saveword" ->
         LET w == s.stack[Len(s.stack) - i.arg]
         IN [s EXCEPT !.stack = Append(@, w), !.regs["rax"] = w]
    [] i.op = "pop" /\ i.arg = "rsp" -> [s EXCEPT !.stack = SubSeq(@, 1, Top(@)[2])]
    [] i.op = "pop" /\ i.arg # "rsp" ->
         [s EXCEPT !.stack = Below(@), !.regs[i.arg] = Top(s.stack)]
    [] i.op = "skip" -> [s EXCEPT !.stack = Below(@)]

\* A C++ function keeps the registers its callers rely on.
Called(regs) == [r \in GP |-> IF r \in CallerSaved THEN Junk ELSE regs[r]]
=============================================================================
