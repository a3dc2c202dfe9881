-------------------------- MODULE ExceptionsProofs --------------------------
(***************************************************************************)
(* Proofs about the entry and exit of interrupts, for every vector and     *)
(* every kernel image: what the C++ handlers find in their frames, that an *)
(* interrupt is invisible to the program it interrupts, that nothing       *)
(* continues after an exception, and that every handler comes to its end.  *)
(* What the report of an exception says is in ReportProofs.                *)
(***************************************************************************)
EXTENDS Exceptions, SequenceTheorems, TLAPS

\* The provers of the leaves that name none.
USE SMTT(30), ZenonT(30)

Names == GP \cup {"rsp", "stub rip", "cr8", "cr4", "cr3", "cr2", "cr0", "ss", "cs", "ds", "es",
                  "fs", "gs", "rip", "rflags", "isr_handler", "irq_handler"}
Words == {"reg", "num", "sp", "junk"} \X (Names \cup Nat)
Instructions ==
  [op : {"push", "pushnum", "spill", "saveword", "pop", "skip", "call", "iretq"},
   arg : Names \cup Nat]

-----------------------------------------------------------------------------
(* The stub of an exception, from the push of a zero error code (which the   *)
(* stubs of vectors with an error code leave to the CPU), and the one of an  *)
(* interrupt line: the n-th instruction, and the i-th word on the stack.     *)

IsrAt(v, n) ==
  CASE n = 1 -> PushNum(0)
    [] n = 2 -> PushNum(v)
    [] n \in 3..18 -> Push(Saved[n - 2])
    [] n \in 19..30 -> Spill(Copied[n - 18])
    [] n = 31 -> [op |-> "saveword", arg |-> 30]
    [] n = 32 -> [op |-> "call", arg |-> "isr_handler"]
    [] n \in 33..45 -> Pop("rax")
    [] n \in 46..61 -> Pop(Saved[62 - n])
    [] n \in 62..63 -> Pop("r15")
    [] n = 64 -> [op |-> "iretq", arg |-> 0]

IrqAt(v, n) ==
  CASE n = 1 -> PushNum(v - 32)
    [] n \in 2..16 -> Push(SavedIrq[n - 1])
    [] n = 17 -> [op |-> "call", arg |-> "irq_handler"]
    [] n \in 18..32 -> Pop(SavedIrq[33 - n])
    [] n = 33 -> [op |-> "skip", arg |-> 1]
    [] n = 34 -> [op |-> "iretq", arg |-> 0]

Pushed == <<"ss", "rsp", "rflags", "cs", "rip">>

IsrWord(v, sv, i) ==
  CASE i \in 1..5 -> Reg(Pushed[i])
    [] i = 6 -> IF CpuPushesCode(v) THEN Num(100) ELSE Num(0)
    [] i = 7 -> Num(v)
    [] i \in 8..23 -> IF i = 17 THEN <<"sp", 16>> ELSE sv[Saved[i - 7]]
    [] i \in 24..35 -> Reg(Copied[i - 23])
    [] i = 36 -> Reg("rip")

IrqWord(v, sv, i) ==
  CASE i \in 1..5 -> Reg(Pushed[i])
    [] i = 6 -> Num(v - 32)
    [] i \in 7..21 -> sv[SavedIrq[i - 6]]

IsrCode(v) == [n \in 1..64 |-> IsrAt(v, n)]
IrqCode(v) == [n \in 1..34 |-> IrqAt(v, n)]
IsrStack(v, sv) == [i \in 1..36 |-> IsrWord(v, sv, i)]
IrqStack(v, sv) == [i \in 1..21 |-> IrqWord(v, sv, i)]

\* A piece of code of length n; code with n of l instructions f done; a stack
\* with the first h words of f.
Piece(s, n) == s \in Seq(Instructions) /\ Len(s) = n
Rest(cd, f, l, n) == Piece(cd, l - n) /\ \A j \in 1..l - n : cd[j] = f[n + j]
Holds(st, f, h) == st \in Seq(Words) /\ Len(st) = h /\ \A i \in 1..h : st[i] = f[i]

CpuStates == [regs : [GP -> Words], stack : Seq(Words)]

\* The instructions left, the stack and the registers after n instructions of
\* an exception's stub: up to the call only rax is used, and behind it the
\* registers come back one by one.  Only a spurious interrupt gets there.
IsrRegs(rg, sv, n) ==
  /\ n <= 31 => \A r \in GP : rg[r] = sv[r] \/ (r = "rax" /\ n > 18)
  /\ n > 31 => \A j \in 2..16 : j > 61 - n /\ j # 10 => rg[Saved[j]] = sv[Saved[j]]
  /\ n = 61 => rg["r15"] = sv["r15"]
  /\ n = 63 => rg["r15"] = Num(0)

IsrState(v, sv, cd, s, n) ==
  /\ s \in CpuStates
  /\ Rest(cd, IsrCode(v), 64, n)
  /\ Holds(s.stack, IsrStack(v, sv), IF n <= 31 THEN 5 + n ELSE 68 - n)
  /\ IsrRegs(s.regs, sv, n)
  /\ n = 0 => ~CpuPushesCode(v)
  /\ n > 31 => v = Spurious

\* The same of a line's stub.
IrqRegs(rg, sv, n) ==
  /\ n <= 16 => \A r \in GP : rg[r] = sv[r]
  /\ n > 16 => \A j \in 1..15 : j > 32 - n => rg[SavedIrq[j]] = sv[SavedIrq[j]]

IrqState(v, sv, cd, s, n) ==
  /\ s \in CpuStates
  /\ Rest(cd, IrqCode(v), 34, n)
  /\ Holds(s.stack, IrqStack(v, sv), IF n <= 16 THEN 5 + n ELSE 38 - n)
  /\ IrqRegs(s.regs, sv, n)

StubState(v, sv, cd, s) ==
  IF IsIrq(v) THEN \E n \in 0..33 : IrqState(v, sv, cd, s, n)
  ELSE \E n \in 0..63 : IsrState(v, sv, cd, s, n)

\* While a stub runs it is in such a state; an exception's stub is never left.
EntryInv ==
  /\ vec \in 0..255 /\ saved \in [GP -> Words] /\ cpu \in CpuStates
  /\ mode = "program" => ~crashed
  /\ mode # "program" => (crashed <=> ~IsIrq(vec) /\ vec # Spurious)
  /\ mode \in {"report", "halted"} => crashed
  /\ mode = "stub" => StubState(vec, saved, code, cpu)

-----------------------------------------------------------------------------
(* The lists of registers. *)

\* The registers an exception's stub pushes: all, and rsp.
LEMMA SavedRegs ==
  /\ \A i \in 1..16 : IF i = 10 THEN Saved[i] = "rsp" ELSE Saved[i] \in GP
  /\ \A i, j \in 1..16 : Saved[i] = Saved[j] => i = j
  /\ \A r \in GP : \E i \in 1..16 : i # 10 /\ Saved[i] = r
<1>1. \A i \in 1..16 : IF i = 10 THEN Saved[i] = "rsp" ELSE Saved[i] \in GP
  BY DEF Saved, GP
<1>2. \A i, j \in 1..16 : Saved[i] = Saved[j] => i = j
  BY DEF Saved
<1>3. \A r \in GP : \E i \in 1..16 : i # 10 /\ Saved[i] = r
  BY DEF Saved, GP
<1> QED  BY <1>1, <1>2, <1>3

\* A line's stub pushes all but rsp.
LEMMA SavedIrqRegs ==
  /\ \A i \in 1..15 : SavedIrq[i] \in GP /\ SavedIrq[i] # "rsp"
  /\ \A i, j \in 1..15 : SavedIrq[i] = SavedIrq[j] => i = j
  /\ \A r \in GP : \E i \in 1..15 : SavedIrq[i] = r
<1>1. \A i \in 1..15 : SavedIrq[i] \in GP /\ SavedIrq[i] # "rsp"
  BY DEF SavedIrq, GP
<1>2. \A i, j \in 1..15 : SavedIrq[i] = SavedIrq[j] => i = j
  BY DEF SavedIrq
<1>3. \A r \in GP : \E i \in 1..15 : SavedIrq[i] = r
  BY DEF SavedIrq, GP
<1> QED  BY <1>1, <1>2, <1>3

\* The lists have their lengths and hold names.
LEMMA Lists ==
  /\ Len(Saved) = 16 /\ DOMAIN Saved = 1..16 /\ \A k \in 1..16 : Saved[k] \in Names
  /\ Len(Copied) = 12 /\ DOMAIN Copied = 1..12 /\ \A k \in 1..12 : Copied[k] \in Names
  /\ Len(SavedIrq) = 15 /\ DOMAIN SavedIrq = 1..15 /\ \A k \in 1..15 : SavedIrq[k] \in Names
<1>1. Len(Saved) = 16 /\ DOMAIN Saved = 1..16
  BY DEF Saved
<1>2. \A k \in 1..16 : Saved[k] \in Names
  BY SavedRegs, Zenon DEF Names
<1>3. Len(Copied) = 12 /\ DOMAIN Copied = 1..12
  BY DEF Copied
<1>4. \A k \in 1..12 : Copied[k] \in Names
  <2>1. /\ Copied[1] = "stub rip" /\ Copied[2] = "cr8" /\ Copied[3] = "cr4" /\ Copied[4] = "cr3"
        /\ Copied[5] = "cr2" /\ Copied[6] = "cr0" /\ Copied[7] = "ss" /\ Copied[8] = "cs"
        /\ Copied[9] = "ds" /\ Copied[10] = "es" /\ Copied[11] = "fs" /\ Copied[12] = "gs"
    BY DEF Copied
  <2>2. \A k \in 1..12 : \/ k = 1 \/ k = 2 \/ k = 3 \/ k = 4 \/ k = 5 \/ k = 6
                         \/ k = 7 \/ k = 8 \/ k = 9 \/ k = 10 \/ k = 11 \/ k = 12
    OBVIOUS
  <2>3. /\ "stub rip" \in Names /\ "cr8" \in Names /\ "cr4" \in Names /\ "cr3" \in Names
        /\ "cr2" \in Names /\ "cr0" \in Names /\ "ss" \in Names /\ "cs" \in Names
        /\ "ds" \in Names /\ "es" \in Names /\ "fs" \in Names /\ "gs" \in Names
    BY DEF Names
  <2> QED  BY <2>1, <2>2, <2>3, ZenonT(30)
<1>5. Len(SavedIrq) = 15 /\ DOMAIN SavedIrq = 1..15
  BY DEF SavedIrq
<1>6. \A k \in 1..15 : SavedIrq[k] \in Names
  BY SavedIrqRegs, Zenon DEF Names
<1> QED  BY <1>1, <1>2, <1>3, <1>4, <1>5, <1>6


\* One instruction is a piece of code.
LEMMA Single ==
  ASSUME NEW x \in Instructions PROVE Piece(<<x>>, 1) /\ <<x>>[1] = x
BY DEF Piece

\* A function on 1..n is a piece of code if its values are instructions.
LEMMA Mapped ==
  ASSUME NEW n \in Nat, NEW f, f = [k \in 1..n |-> f[k]], \A k \in 1..n : f[k] \in Instructions
  PROVE  Piece(f, n)
BY DEF Piece

Joins(s, a, m, b, n) ==
  /\ \A k \in 1..m : s[k] = a[k]
  /\ \A k \in 1..n : s[m + k] = b[k]

\* Two pieces of code one behind the other.
LEMMA Concat ==
  ASSUME NEW a, NEW b, NEW m \in Nat, NEW n \in Nat, NEW l, Piece(a, m), Piece(b, n), l = m + n
  PROVE  Piece(a \o b, l) /\ Joins(a \o b, a, m, b, n)
BY DEF Piece, Joins

\* The instructions of the stubs are instructions.
LEMMA Makes ==
  /\ \A r \in Names : /\ Push(r) \in Instructions /\ Spill(r) \in Instructions
                      /\ Pop(r) \in Instructions
  /\ \A n \in Nat : PushNum(n) \in Instructions
  /\ [op |-> "saveword", arg |-> 30] \in Instructions
  /\ [op |-> "skip", arg |-> 1] \in Instructions
  /\ [op |-> "iretq", arg |-> 0] \in Instructions
  /\ [op |-> "call", arg |-> "isr_handler"] \in Instructions
  /\ [op |-> "call", arg |-> "irq_handler"] \in Instructions
  /\ "rax" \in Names /\ "r15" \in Names
<1>1. \A r \in Names : /\ Push(r) \in Instructions /\ Spill(r) \in Instructions
                       /\ Pop(r) \in Instructions
  BY DEF Push, Spill, Pop, Instructions
<1>2. \A n \in Nat : PushNum(n) \in Instructions
  BY DEF PushNum, Instructions
<1>3. /\ [op |-> "saveword", arg |-> 30] \in Instructions
      /\ [op |-> "skip", arg |-> 1] \in Instructions
      /\ [op |-> "iretq", arg |-> 0] \in Instructions
  BY DEF Instructions
<1>4. "rax" \in Names /\ "r15" \in Names /\ "isr_handler" \in Names /\ "irq_handler" \in Names
  BY DEF Names, GP
<1>5. /\ [op |-> "call", arg |-> "isr_handler"] \in Instructions
      /\ [op |-> "call", arg |-> "irq_handler"] \in Instructions
  BY <1>4 DEF Instructions
<1> QED  BY <1>1, <1>2, <1>3, <1>4, <1>5

\* The stub of an interrupt line, instruction by instruction.
LEMMA StubIrq ==
  ASSUME NEW v \in 0..255, IsIrq(v)
  PROVE  Piece(Stub(v), 34) /\ \A n \in 1..34 : Stub(v)[n] = IrqAt(v, n)
<1> DEFINE p0 == <<PushNum(v - 32)>>
           p1 == Each(Push, SavedIrq)
           a == p0 \o p1
           c == Call("irq_handler")
           q1 == Each(Pop, Backwards(SavedIrq))
           q2 == <<[op |-> "skip", arg |-> 1]>>
           b == q1 \o q2
           e == c \o b
           d == e \o Iretq
           s == a \o d
<1>1. Piece(p0, 1) /\ p0[1] = PushNum(v - 32)
  <2>1. v - 32 \in Nat
    BY DEF IsIrq
  <2> QED  BY <2>1, Makes, Single
<1>2. Piece(p1, 15) /\ \A k \in 1..15 : p1[k] = Push(SavedIrq[k])
  <2>1. p1 = [k \in 1..15 |-> Push(SavedIrq[k])]
    BY Lists DEF Each
  <2> HIDE DEF p1
  <2>2. \A k \in 1..15 : p1[k] = Push(SavedIrq[k])
    BY <2>1
  <2>3. \A k \in 1..15 : p1[k] \in Instructions
    BY <2>2, Lists, Makes
  <2>4. p1 = [k \in 1..15 |-> p1[k]]
    BY <2>1
  <2>5. Piece(p1, 15)
    BY <2>3, <2>4, Mapped, Zenon
  <2> QED  BY <2>2, <2>5
<1>3. Piece(c, 1) /\ c[1] = [op |-> "call", arg |-> "irq_handler"]
  BY Makes, Single DEF Call
<1>4. Piece(q1, 15) /\ \A k \in 1..15 : q1[k] = Pop(SavedIrq[16 - k])
  <2>1. q1 = [k \in 1..15 |-> Pop(SavedIrq[16 - k])]
    <3>1. Backwards(SavedIrq) = [i \in 1..15 |-> SavedIrq[(15 - i) + 1]]
      BY Lists DEF Backwards
    <3>2. DOMAIN Backwards(SavedIrq) = 1..15 /\ \A k \in 1..15 : Backwards(SavedIrq)[k] = SavedIrq[16 - k]
      BY <3>1
    <3> QED  BY <3>2 DEF Each
  <2> HIDE DEF q1
  <2>2. \A k \in 1..15 : q1[k] = Pop(SavedIrq[16 - k])
    BY <2>1
  <2>3. \A k \in 1..15 : q1[k] \in Instructions
    <3>1. \A k \in 1..15 : SavedIrq[16 - k] \in Names
      BY Lists
    <3> QED  BY <2>2, <3>1, Makes
  <2>4. q1 = [k \in 1..15 |-> q1[k]]
    BY <2>1
  <2>5. Piece(q1, 15)
    BY <2>3, <2>4, Mapped, Zenon
  <2> QED  BY <2>2, <2>5
<1>5. Piece(q2, 1) /\ q2[1] = [op |-> "skip", arg |-> 1]
  BY Makes, Single
<1>6. Piece(Iretq, 1) /\ Iretq[1] = [op |-> "iretq", arg |-> 0]
  BY Makes, Single DEF Iretq
<1>7. Stub(v) = s
  BY Zenon DEF Stub, IRQ, pushairq, irq_common, popairq
<1> HIDE DEF p0, p1, c, q1, q2
<1>8. /\ 1 \in Nat /\ 15 \in Nat /\ 16 \in Nat /\ 17 \in Nat /\ 18 \in Nat
      /\ 16 = 1 + 15 /\ 16 = 15 + 1 /\ 17 = 1 + 16 /\ 18 = 17 + 1 /\ 34 = 16 + 18
  OBVIOUS
<1>9. Piece(a, 16) /\ Joins(a, p0, 1, p1, 15)
  BY <1>1, <1>2, <1>8, Concat, Zenon
<1>10. Piece(b, 16) /\ Joins(b, q1, 15, q2, 1)
  BY <1>4, <1>5, <1>8, Concat, Zenon
<1>11. Piece(e, 17) /\ Joins(e, c, 1, b, 16)
  BY <1>3, <1>10, <1>8, Concat, Zenon
<1>12. Piece(d, 18) /\ Joins(d, e, 17, Iretq, 1)
  BY <1>6, <1>11, <1>8, Concat, Zenon
<1> HIDE DEF a, b, e, d
<1>13. Piece(s, 34) /\ Joins(s, a, 16, d, 18)
  BY <1>9, <1>12, <1>8, Concat, Zenon
<1> HIDE DEF s
<1>14. ASSUME NEW n \in 1..34 PROVE s[n] = IrqAt(v, n)
  <2>1. CASE n = 1
    <3>1. s[1] = a[1] /\ a[1] = p0[1]
      BY <1>9, <1>13 DEF Joins
    <3> QED  BY <1>1, <2>1, <3>1 DEF IrqAt
  <2>2. CASE n \in 2..16
    <3>1. n - 1 \in 1..15 /\ n \in 1..16 /\ 1 + (n - 1) = n
      BY <2>2
    <3>2. s[n] = a[n] /\ a[1 + (n - 1)] = p1[n - 1] /\ p1[n - 1] = Push(SavedIrq[n - 1])
      BY <1>2, <1>9, <1>13, <3>1, Zenon DEF Joins
    <3> QED  BY <2>2, <3>1, <3>2 DEF IrqAt
  <2>3. CASE n = 17
    <3>1. s[17] = d[1] /\ d[1] = e[1] /\ e[1] = c[1]
      BY <1>11, <1>12, <1>13 DEF Joins
    <3> QED  BY <1>3, <2>3, <3>1 DEF IrqAt
  <2>4. CASE n \in 18..33
    <3>1. n - 16 \in 1..18 /\ n - 16 \in 1..17 /\ n - 17 \in 1..16 /\ 16 + (n - 16) = n
          /\ 1 + (n - 17) = n - 16
      BY <2>4
    <3>2. s[16 + (n - 16)] = d[n - 16] /\ d[n - 16] = e[n - 16] /\ e[1 + (n - 17)] = b[n - 17]
      BY <1>11, <1>12, <1>13, <3>1, Zenon DEF Joins
    <3>3. s[n] = b[n - 17]
      BY <3>1, <3>2
    <3>4. CASE n = 33
      <4>1. b[16] = q2[1]
        BY <1>10 DEF Joins
      <4> QED  BY <1>5, <3>3, <3>4, <4>1 DEF IrqAt
    <3>5. CASE n \in 18..32
      <4>1. n - 17 \in 1..15 /\ 16 - (n - 17) = 33 - n
        BY <3>5
      <4>2. b[n - 17] = q1[n - 17] /\ q1[n - 17] = Pop(SavedIrq[16 - (n - 17)])
        BY <1>4, <1>10, <4>1, Zenon DEF Joins
      <4> QED  BY <3>3, <3>5, <4>1, <4>2 DEF IrqAt
    <3> QED  BY <2>4, <3>4, <3>5
  <2>5. CASE n = 34
    <3>1. s[34] = d[18] /\ d[18] = Iretq[1]
      BY <1>12, <1>13 DEF Joins
    <3> QED  BY <1>6, <2>5, <3>1 DEF IrqAt
  <2> QED  BY <2>1, <2>2, <2>3, <2>4, <2>5
<1> QED  BY <1>7, <1>13, <1>14

\* The stub of any other vector; the CPU does the first push of some.
LEMMA StubIsr ==
  ASSUME NEW v \in 0..255, v \in Raised, ~IsIrq(v)
  PROVE  LET d == IF CpuPushesCode(v) THEN 1 ELSE 0
         IN Piece(Stub(v), 64 - d) /\ \A n \in 1..64 - d : Stub(v)[n] = IsrAt(v, n + d)
<1> DEFINE z == <<PushNum(0)>>
           p0 == <<PushNum(v)>>
           p1 == Each(Push, Saved)
           p2 == Each(Spill, Copied)
           a == p1 \o p2
           a1 == p0 \o a
           a2 == a1 \o save_ra
           c == Call("isr_handler")
           q1 == [k \in 1..13 |-> Pop("rax")]
           q2 == Each(Pop, Backwards(Saved))
           q3 == <<Pop("r15"), Pop("r15")>>
           b == q1 \o q2
           b1 == b \o q3
           b2 == c \o b1
           b3 == b2 \o Iretq
           s == a2 \o b3
           t == (z \o a2) \o b3
<1>1. Piece(z, 1) /\ z[1] = PushNum(0) /\ Piece(p0, 1) /\ p0[1] = PushNum(v)
  BY Makes, Single
<1>2. Piece(p1, 16) /\ \A k \in 1..16 : p1[k] = Push(Saved[k])
  <2>1. p1 = [k \in 1..16 |-> Push(Saved[k])]
    BY Lists DEF Each
  <2> HIDE DEF p1
  <2>2. \A k \in 1..16 : p1[k] = Push(Saved[k])
    BY <2>1
  <2>3. \A k \in 1..16 : p1[k] \in Instructions
    BY <2>2, Lists, Makes
  <2>4. p1 = [k \in 1..16 |-> p1[k]]
    BY <2>1
  <2>5. Piece(p1, 16)
    BY <2>3, <2>4, Mapped, Zenon
  <2> QED  BY <2>2, <2>5
<1>3. Piece(p2, 12) /\ \A k \in 1..12 : p2[k] = Spill(Copied[k])
  <2>1. p2 = [k \in 1..12 |-> Spill(Copied[k])]
    BY Lists DEF Each
  <2> HIDE DEF p2
  <2>2. \A k \in 1..12 : p2[k] = Spill(Copied[k])
    BY <2>1
  <2>3. \A k \in 1..12 : p2[k] \in Instructions
    BY <2>2, Lists, Makes
  <2>4. p2 = [k \in 1..12 |-> p2[k]]
    BY <2>1
  <2>5. Piece(p2, 12)
    BY <2>3, <2>4, Mapped, Zenon
  <2> QED  BY <2>2, <2>5
<1>4. Piece(save_ra, 1) /\ save_ra[1] = [op |-> "saveword", arg |-> 30]
  BY Makes, Single DEF save_ra
<1>5. Piece(c, 1) /\ c[1] = [op |-> "call", arg |-> "isr_handler"]
  BY Makes, Single DEF Call
<1>6. Piece(q1, 13) /\ \A k \in 1..13 : q1[k] = Pop("rax")
  <2>1. \A k \in 1..13 : q1[k] = Pop("rax") /\ q1[k] \in Instructions
    BY Makes
  <2>2. q1 = [k \in 1..13 |-> q1[k]]
    OBVIOUS
  <2> HIDE DEF q1
  <2>3. Piece(q1, 13)
    BY <2>1, <2>2, Mapped, Zenon
  <2> QED  BY <2>1, <2>3
<1>7. Piece(q2, 16) /\ \A k \in 1..16 : q2[k] = Pop(Saved[17 - k])
  <2>1. q2 = [k \in 1..16 |-> Pop(Saved[17 - k])]
    <3>1. Backwards(Saved) = [i \in 1..16 |-> Saved[(16 - i) + 1]]
      BY Lists DEF Backwards
    <3>2. DOMAIN Backwards(Saved) = 1..16 /\ \A k \in 1..16 : Backwards(Saved)[k] = Saved[17 - k]
      BY <3>1
    <3> QED  BY <3>2 DEF Each
  <2> HIDE DEF q2
  <2>2. \A k \in 1..16 : q2[k] = Pop(Saved[17 - k])
    BY <2>1
  <2>3. \A k \in 1..16 : q2[k] \in Instructions
    <3>1. \A k \in 1..16 : Saved[17 - k] \in Names
      BY Lists
    <3> QED  BY <2>2, <3>1, Makes
  <2>4. q2 = [k \in 1..16 |-> q2[k]]
    BY <2>1
  <2>5. Piece(q2, 16)
    BY <2>3, <2>4, Mapped, Zenon
  <2> QED  BY <2>2, <2>5
<1>8. Piece(q3, 2) /\ q3[1] = Pop("r15") /\ q3[2] = Pop("r15")
  BY Makes DEF Piece
<1>9. Piece(Iretq, 1) /\ Iretq[1] = [op |-> "iretq", arg |-> 0]
  BY Makes, Single DEF Iretq
<1>10. Stub(v) = IF CpuPushesCode(v) THEN s ELSE t
  BY DEF Stub, ISR_NOERR, ISR_ERR, pusha, popa, isr_common, CpuPushesCode, Raised
<1> HIDE DEF z, p0, p1, p2, c, q1, q2, q3
<1>11. /\ 1 \in Nat /\ 2 \in Nat /\ 12 \in Nat /\ 13 \in Nat /\ 16 \in Nat /\ 28 \in Nat
       /\ 29 \in Nat /\ 30 \in Nat /\ 31 \in Nat /\ 32 \in Nat /\ 33 \in Nat
       /\ 28 = 16 + 12 /\ 29 = 1 + 28 /\ 30 = 29 + 1 /\ 29 = 13 + 16 /\ 31 = 29 + 2
       /\ 32 = 1 + 31 /\ 33 = 32 + 1 /\ 31 = 1 + 30 /\ 63 = 30 + 33 /\ 64 = 31 + 33
  OBVIOUS
<1>12. Piece(a, 28) /\ Joins(a, p1, 16, p2, 12)
  BY <1>2, <1>3, <1>11, Concat, Zenon
<1> HIDE DEF a
<1>13. Piece(a1, 29) /\ Joins(a1, p0, 1, a, 28)
  BY <1>1, <1>12, <1>11, Concat, Zenon
<1> HIDE DEF a1
<1>14. Piece(a2, 30) /\ Joins(a2, a1, 29, save_ra, 1)
  BY <1>4, <1>13, <1>11, Concat, ZenonT(30)
<1>15. Piece(b, 29) /\ Joins(b, q1, 13, q2, 16)
  BY <1>6, <1>7, <1>11, Concat, ZenonT(30)
<1> HIDE DEF a2, b
<1>16. Piece(b1, 31) /\ Joins(b1, b, 29, q3, 2)
  BY <1>8, <1>15, <1>11, Concat, ZenonT(30)
<1> HIDE DEF b1
<1>17. Piece(b2, 32) /\ Joins(b2, c, 1, b1, 31)
  BY <1>5, <1>16, <1>11, Concat, Zenon
<1> HIDE DEF b2
<1>18. Piece(b3, 33) /\ Joins(b3, b2, 32, Iretq, 1)
  BY <1>9, <1>17, <1>11, Concat, ZenonT(30)
<1> HIDE DEF b3
<1>19. Piece(s, 63) /\ Joins(s, a2, 30, b3, 33)
  <2>1. 30 \in Nat /\ 33 \in Nat /\ 63 = 30 + 33
    OBVIOUS
  <2>2. Piece(a2, 30) /\ Piece(b3, 33)
    BY <1>14, <1>18
  <2> HIDE DEF a2, b3
  <2> QED  BY <2>1, <2>2, Concat, Zenon
<1> HIDE DEF s
<1> DEFINE y == z \o a2
<1>20. Piece(y, 31) /\ Joins(y, z, 1, a2, 30)
  BY <1>1, <1>14, <1>11, Concat, Zenon
<1>R1. t = y \o b3
  OBVIOUS
<1> HIDE DEF y, t
<1>22. Piece(t, 64) /\ Joins(t, y, 31, b3, 33)
  <2>1. 31 \in Nat /\ 33 \in Nat /\ 64 = 31 + 33
    OBVIOUS
  <2>2. Piece(y, 31) /\ Piece(b3, 33)
    BY <1>18, <1>20
  <2> QED  BY <1>R1, <2>1, <2>2, Concat, Zenon
<1>23. ASSUME NEW n \in 1..30 PROVE a2[n] = IsrAt(v, n + 1)
  <2>1. CASE n = 1
    <3>1. a2[1] = a1[1] /\ a1[1] = p0[1]
      BY <1>13, <1>14 DEF Joins
    <3> QED  BY <1>1, <2>1, <3>1 DEF IsrAt
  <2>2. CASE n \in 2..29
    <3>1. n \in 1..29 /\ n - 1 \in 1..28 /\ 1 + (n - 1) = n
      BY <2>2
    <3>2. a2[n] = a1[n] /\ a1[1 + (n - 1)] = a[n - 1]
      BY <1>13, <1>14, <3>1, Zenon DEF Joins
    <3>3. CASE n \in 2..17
      <4>1. n - 1 \in 1..16 /\ n + 1 \in 3..18 /\ (n + 1) - 2 = n - 1
        BY <3>3
      <4>2. a[n - 1] = p1[n - 1] /\ p1[n - 1] = Push(Saved[n - 1])
        BY <1>2, <1>12, <4>1, Zenon DEF Joins
      <4> QED  BY <3>1, <3>2, <4>1, <4>2 DEF IsrAt
    <3>4. CASE n \in 18..29
      <4>1. n - 17 \in 1..12 /\ 16 + (n - 17) = n - 1 /\ n + 1 \in 19..30 /\ (n + 1) - 18 = n - 17
        BY <3>4
      <4>2. a[16 + (n - 17)] = p2[n - 17] /\ p2[n - 17] = Spill(Copied[n - 17])
        BY <1>3, <1>12, <4>1, Zenon DEF Joins
      <4> QED  BY <3>1, <3>2, <4>1, <4>2 DEF IsrAt
    <3> QED  BY <2>2, <3>3, <3>4
  <2>3. CASE n = 30
    <3>1. a2[30] = save_ra[1]
      BY <1>14 DEF Joins
    <3> QED  BY <1>4, <2>3, <3>1 DEF IsrAt
  <2> QED  BY <2>1, <2>2, <2>3
<1>24. ASSUME NEW n \in 1..33 PROVE b3[n] = IsrAt(v, n + 31)
  <2>1. CASE n = 1
    <3>1. b3[1] = b2[1] /\ b2[1] = c[1]
      BY <1>17, <1>18 DEF Joins
    <3> QED  BY <1>5, <2>1, <3>1 DEF IsrAt
  <2>2. CASE n \in 2..32
    <3>1. n \in 1..32 /\ n - 1 \in 1..31 /\ 1 + (n - 1) = n
      BY <2>2
    <3>2. b3[n] = b2[n] /\ b2[1 + (n - 1)] = b1[n - 1]
      BY <1>17, <1>18, <3>1, Zenon DEF Joins
    <3>3. CASE n \in 2..14
      <4>1. n - 1 \in 1..29 /\ n - 1 \in 1..13 /\ n + 31 \in 33..45
        BY <3>3
      <4>2. b1[n - 1] = b[n - 1] /\ b[n - 1] = q1[n - 1] /\ q1[n - 1] = Pop("rax")
        BY <1>6, <1>15, <1>16, <4>1, Zenon DEF Joins
      <4> QED  BY <3>1, <3>2, <4>1, <4>2 DEF IsrAt
    <3>4. CASE n \in 15..30
      <4>1. n - 1 \in 1..29 /\ n - 14 \in 1..16 /\ 13 + (n - 14) = n - 1 /\ n + 31 \in 46..61
            /\ 62 - (n + 31) = 17 - (n - 14)
        BY <3>4
      <4>2. b1[n - 1] = b[n - 1] /\ b[13 + (n - 14)] = q2[n - 14]
            /\ q2[n - 14] = Pop(Saved[17 - (n - 14)])
        BY <1>7, <1>15, <1>16, <4>1, Zenon DEF Joins
      <4> QED  BY <3>1, <3>2, <4>1, <4>2 DEF IsrAt
    <3>5. CASE n \in 31..32
      <4>1. b1[30] = q3[1] /\ b1[31] = q3[2]
        BY <1>16 DEF Joins
      <4>2. n = 31 \/ n = 32
        BY <3>5
      <4>3. b3[n] = Pop("r15") /\ n + 31 \in 62..63
        BY <1>8, <3>1, <3>2, <4>1, <4>2
      <4> QED  BY <4>3 DEF IsrAt
    <3> QED  BY <2>2, <3>3, <3>4, <3>5
  <2>3. CASE n = 33
    <3>1. b3[33] = Iretq[1]
      BY <1>18 DEF Joins
    <3> QED  BY <1>9, <2>3, <3>1 DEF IsrAt
  <2> QED  BY <2>1, <2>2, <2>3
<1>25. ASSUME NEW n \in 1..63 PROVE s[n] = IsrAt(v, n + 1)
  <2>1. CASE n \in 1..30
    <3>1. s[n] = a2[n]
      BY <1>19, <2>1, Zenon DEF Joins
    <3> QED  BY <1>23, <2>1, <3>1
  <2>2. CASE n \in 31..63
    <3>1. n - 30 \in 1..33 /\ 30 + (n - 30) = n /\ (n - 30) + 31 = n + 1
      BY <2>2
    <3>2. s[30 + (n - 30)] = b3[n - 30] /\ b3[n - 30] = IsrAt(v, (n - 30) + 31)
      BY <1>19, <1>24, <3>1, Zenon DEF Joins
    <3> QED  BY <3>1, <3>2
  <2> QED  BY <2>1, <2>2
<1>26. ASSUME NEW n \in 1..64 PROVE t[n] = IsrAt(v, n)
  <2>1. CASE n = 1
    <3>1. t[1] = y[1] /\ y[1] = z[1]
      BY <1>20, <1>22 DEF Joins
    <3> QED  BY <1>1, <2>1, <3>1 DEF IsrAt
  <2>2. CASE n \in 2..31
    <3>1. n \in 1..31 /\ n - 1 \in 1..30 /\ 1 + (n - 1) = n /\ (n - 1) + 1 = n
      BY <2>2
    <3>2. t[n] = y[n] /\ y[1 + (n - 1)] = a2[n - 1] /\ a2[n - 1] = IsrAt(v, (n - 1) + 1)
      BY <1>20, <1>22, <1>23, <3>1, Zenon DEF Joins
    <3> QED  BY <3>1, <3>2
  <2>3. CASE n \in 32..64
    <3>1. n - 31 \in 1..33 /\ 31 + (n - 31) = n /\ (n - 31) + 31 = n
      BY <2>3
    <3>2. t[31 + (n - 31)] = b3[n - 31] /\ b3[n - 31] = IsrAt(v, (n - 31) + 31)
      BY <1>22, <1>24, <3>1, Zenon DEF Joins
    <3> QED  BY <3>1, <3>2
  <2> QED  BY <2>1, <2>2, <2>3
<1>27. CASE CpuPushesCode(v)
  <2>1. Stub(v) = s
    BY <1>10, <1>27
  <2>2. Piece(Stub(v), 63) /\ \A n \in 1..63 : Stub(v)[n] = IsrAt(v, n + 1)
    BY <1>19, <1>25, <2>1
  <2>3. 64 - 1 = 63
    OBVIOUS
  <2> QED  BY <1>27, <2>2, <2>3
<1>28. CASE ~CpuPushesCode(v)
  <2>1. Stub(v) = t
    BY <1>10, <1>28
  <2>2. Piece(Stub(v), 64) /\ \A n \in 1..64 : Stub(v)[n] = IsrAt(v, n)
    BY <1>22, <1>26, <2>1
  <2>3. 64 - 0 = 64 /\ \A n \in 1..64 : n + 0 = n
    OBVIOUS
  <2> QED  BY <1>28, <2>2, <2>3
<1> QED  BY <1>27, <1>28

-----------------------------------------------------------------------------
(* Taking an instruction off the code, and words on and off the stack. *)

\* The next instruction, and the code behind it.
LEMMA RestStep ==
  ASSUME NEW cd, NEW f, NEW l \in Nat, NEW n \in Nat, n < l, Rest(cd, f, l, n)
  PROVE  cd # <<>> /\ Head(cd) = f[n + 1] /\ Rest(Tail(cd), f, l, n + 1)
<1>1. cd \in Seq(Instructions) /\ Len(cd) = l - n /\ l - n \in Nat /\ l - n > 0
  BY DEF Rest, Piece
<1>2. \A j \in 1..l - n : cd[j] = f[n + j]
  BY DEF Rest
<1>3. cd # <<>> /\ Head(cd) = cd[1] /\ Tail(cd) \in Seq(Instructions)
      /\ Len(Tail(cd)) = (l - n) - 1
  BY <1>1
<1>4. l - (n + 1) = (l - n) - 1
  OBVIOUS
<1>5. ASSUME NEW j \in 1..l - (n + 1) PROVE Tail(cd)[j] = f[(n + 1) + j]
  <2>1. j + 1 \in 1..l - n /\ n + (j + 1) = (n + 1) + j
    BY <1>1
  <2>2. Tail(cd)[j] = cd[j + 1]
    BY <1>1, <1>3, <1>4
  <2>3. cd[j + 1] = f[n + (j + 1)]
    BY <1>2, <2>1, Zenon
  <2> QED  BY <2>1, <2>2, <2>3, Zenon
<1>6. cd[1] = f[n + 1]
  BY <1>1, <1>2
<1> QED  BY <1>3, <1>4, <1>5, <1>6 DEF Rest, Piece

\* A push that leaves the word expected, and a pop.
LEMMA HoldsPush ==
  ASSUME NEW st, NEW f, NEW h \in Nat, NEW w \in Words, Holds(st, f, h), w = f[h + 1]
  PROVE  Holds(Append(st, w), f, h + 1)
BY DEF Holds

\* Cutting a stack leaves the words below.
LEMMA HoldsCut ==
  ASSUME NEW st, NEW f, NEW h \in Nat, NEW k \in Nat, k <= h, Holds(st, f, h)
  PROVE  Holds(SubSeq(st, 1, k), f, k)
<1>1. st \in Seq(Words) /\ Len(st) = h /\ \A i \in 1..h : st[i] = f[i]
  BY DEF Holds
<1>2. SubSeq(st, 1, k) \in Seq(Words) /\ Len(SubSeq(st, 1, k)) = k
  BY <1>1
<1>3. \A i \in 1..k : SubSeq(st, 1, k)[i] = st[i]
  BY <1>1
<1> QED  BY <1>1, <1>2, <1>3 DEF Holds

\* A pop takes the expected word and leaves the words below.
LEMMA HoldsPop ==
  ASSUME NEW st, NEW f, NEW h \in Nat, h > 0, Holds(st, f, h)
  PROVE  Holds(Below(st), f, h - 1) /\ Top(st) = f[h] /\ Top(st) \in Words /\ Len(st) = h
<1>1. st \in Seq(Words) /\ Len(st) = h /\ \A i \in 1..h : st[i] = f[i]
  BY DEF Holds
<1>2. Below(st) = SubSeq(st, 1, h - 1)
  BY <1>1 DEF Below
<1>3. Holds(SubSeq(st, 1, h - 1), f, h - 1)
  BY HoldsCut
<1>4. Top(st) = f[h] /\ Top(st) \in Words
  BY <1>1 DEF Top
<1> QED  BY <1>1, <1>2, <1>3, <1>4

\* What each kind of instruction does.
Effect(e, st, rg) == e \in CpuStates /\ e.stack = st /\ e.regs = rg

\* Replacing the stack only.
LEMMA StackEffect ==
  ASSUME NEW s \in CpuStates, NEW st \in Seq(Words), NEW e, e = [s EXCEPT !.stack = st]
  PROVE  Effect(e, st, s.regs)
BY DEF Effect, CpuStates

\* Replacing the stack and one register.
LEMMA BothEffect ==
  ASSUME NEW s \in CpuStates, NEW st \in Seq(Words), NEW r \in GP, NEW w \in Words,
         NEW e, e = [s EXCEPT !.stack = st, !.regs[r] = w]
  PROVE  Effect(e, st, [s.regs EXCEPT ![r] = w])
<1>1. s.regs \in [GP -> Words] /\ [s.regs EXCEPT ![r] = w] \in [GP -> Words]
  BY DEF CpuStates
<1>2. e = [regs |-> [s.regs EXCEPT ![r] = w], stack |-> st]
  BY Zenon DEF CpuStates
<1> QED  BY <1>1, <1>2 DEF Effect, CpuStates

\* A stack with one more word is a stack.
LEMMA AppendWord ==
  ASSUME NEW s \in CpuStates, NEW w \in Words PROVE Append(s.stack, w) \in Seq(Words)
<1>1. s.stack \in Seq(Words)
  BY DEF CpuStates
<1> QED  BY <1>1

\* push of a general register.
LEMMA ExecPush ==
  ASSUME NEW s \in CpuStates, NEW r \in GP
  PROVE  Effect(Exec(Push(r), s), Append(s.stack, s.regs[r]), s.regs) /\ s.regs[r] \in Words
<1>1. r # "rsp" /\ s.regs[r] \in Words /\ s.stack \in Seq(Words)
  BY DEF GP, CpuStates
<1>2. Exec(Push(r), s) = [s EXCEPT !.stack = Append(@, s.regs[r])]
  BY <1>1 DEF Exec, Push
<1> QED  BY <1>1, <1>2, AppendWord, StackEffect, Zenon

\* The values a word may have.
LEMMA WordsOf ==
  /\ \A n \in Nat : Num(n) \in Words /\ <<"sp", n>> \in Words /\ <<"sp", n>>[2] = n
  /\ \A x \in Names : Reg(x) \in Words
  /\ Junk \in Words
BY DEF Words, Num, Reg, Junk

\* push %rsp pushes where it stands.
LEMMA ExecPushSp ==
  ASSUME NEW s \in CpuStates
  PROVE  Effect(Exec(Push("rsp"), s), Append(s.stack, <<"sp", Len(s.stack)>>), s.regs)
<1>1. s.stack \in Seq(Words) /\ Len(s.stack) \in Nat
  BY DEF CpuStates
<1>2. <<"sp", Len(s.stack)>> \in Words
  BY <1>1, WordsOf
<1>3. Exec(Push("rsp"), s) = [s EXCEPT !.stack = Append(@, <<"sp", Len(s.stack)>>)]
  BY DEF Exec, Push
<1> QED  BY <1>2, <1>3, AppendWord, StackEffect, Zenon

\* push of a number.
LEMMA ExecPushNum ==
  ASSUME NEW s \in CpuStates, NEW n \in Nat
  PROVE  Effect(Exec(PushNum(n), s), Append(s.stack, Num(n)), s.regs)
<1>1. Exec(PushNum(n), s) = [s EXCEPT !.stack = Append(@, Num(n))]
  BY DEF Exec, PushNum
<1>2. Num(n) \in Words
  BY WordsOf, Zenon
<1> QED  BY <1>1, <1>2, AppendWord, StackEffect, Zenon

\* A copy of a register through rax.
LEMMA ExecSpill ==
  ASSUME NEW s \in CpuStates, NEW x \in Names
  PROVE  Effect(Exec(Spill(x), s), Append(s.stack, Reg(x)), [s.regs EXCEPT !["rax"] = Reg(x)])
<1>1. Exec(Spill(x), s) = [s EXCEPT !.stack = Append(@, Reg(x)), !.regs["rax"] = Reg(x)]
  BY DEF Exec, Spill
<1>2. Reg(x) \in Words
  BY WordsOf
<1>3. "rax" \in GP
  BY DEF GP
<1> QED  BY <1>1, <1>2, <1>3, AppendWord, BothEffect, Zenon

\* save_ra: the word 30 below the top, through rax.
LEMMA ExecSave ==
  ASSUME NEW s \in CpuStates, NEW w \in Words, Len(s.stack) > 30, w = s.stack[Len(s.stack) - 30]
  PROVE  Effect(Exec([op |-> "saveword", arg |-> 30], s), Append(s.stack, w),
                [s.regs EXCEPT !["rax"] = w])
<1>1. Exec([op |-> "saveword", arg |-> 30], s)
        = [s EXCEPT !.stack = Append(@, w), !.regs["rax"] = w]
  BY DEF Exec
<1>2. "rax" \in GP
  BY DEF GP
<1> QED  BY <1>1, <1>2, AppendWord, BothEffect, Zenon

\* pop of a general register.
LEMMA ExecPop ==
  ASSUME NEW s \in CpuStates, NEW r \in GP, Len(s.stack) > 0
  PROVE  Effect(Exec(Pop(r), s), Below(s.stack), [s.regs EXCEPT ![r] = Top(s.stack)])
<1>1. r # "rsp" /\ s.stack \in Seq(Words) /\ Len(s.stack) \in Nat
  BY DEF GP, CpuStates
<1>2. Exec(Pop(r), s) = [s EXCEPT !.stack = Below(@), !.regs[r] = Top(s.stack)]
  BY <1>1 DEF Exec, Pop
<1>3. Top(s.stack) \in Words /\ Below(s.stack) \in Seq(Words)
  BY <1>1 DEF Top, Below
<1> QED  BY <1>2, <1>3, BothEffect, Zenon

\* pop %rsp cuts the stack back to where it stood.
LEMMA ExecPopSp ==
  ASSUME NEW s \in CpuStates, NEW k \in Nat, k <= Len(s.stack), Top(s.stack)[2] = k
  PROVE  Effect(Exec(Pop("rsp"), s), SubSeq(s.stack, 1, k), s.regs)
<1>1. s.stack \in Seq(Words) /\ Len(s.stack) \in Nat
  BY DEF CpuStates
<1>2. Exec(Pop("rsp"), s) = [s EXCEPT !.stack = SubSeq(@, 1, Top(@)[2])]
  BY DEF Exec, Pop
<1>3. SubSeq(s.stack, 1, k) \in Seq(Words)
  BY <1>1
<1> QED  BY <1>2, <1>3 DEF Effect, CpuStates

\* add $8, %rsp drops a word.
LEMMA ExecSkip ==
  ASSUME NEW s \in CpuStates, Len(s.stack) > 0
  PROVE  Effect(Exec([op |-> "skip", arg |-> 1], s), Below(s.stack), s.regs)
<1>1. s.stack \in Seq(Words) /\ Len(s.stack) \in Nat
  BY DEF CpuStates
<1>2. Exec([op |-> "skip", arg |-> 1], s) = [s EXCEPT !.stack = Below(@)]
  BY DEF Exec
<1>3. Below(s.stack) \in Seq(Words)
  BY <1>1 DEF Below
<1> QED  BY <1>2, <1>3 DEF Effect, CpuStates

-----------------------------------------------------------------------------
(* The steps of an exception's stub. *)

\* A push in front of the call.
LEMMA IsrPush ==
  ASSUME NEW v \in 0..255, NEW sv \in [GP -> Words], NEW cd, NEW s, NEW n \in 0..30,
         IsrState(v, sv, cd, s, n), NEW w \in Words, w = IsrWord(v, sv, 6 + n),
         NEW e, NEW rg, Effect(e, Append(s.stack, w), rg), IsrRegs(rg, sv, n + 1)
  PROVE  IsrState(v, sv, Tail(cd), e, n + 1)
<1>1. Holds(s.stack, IsrStack(v, sv), 5 + n) /\ Rest(cd, IsrCode(v), 64, n)
  BY DEF IsrState
<1>2. (5 + n) + 1 = 6 + n /\ 5 + n \in Nat /\ 6 + n \in 1..36 /\ 5 + (n + 1) = 6 + n
      /\ n \in Nat /\ 64 \in Nat /\ n < 64 /\ n + 1 <= 31 /\ n + 1 # 0 /\ ~(n + 1 > 31)
  OBVIOUS
<1>3. w = IsrStack(v, sv)[(5 + n) + 1]
  BY <1>2 DEF IsrStack
<1>4. Holds(Append(s.stack, w), IsrStack(v, sv), (5 + n) + 1)
  BY <1>1, <1>2, <1>3, HoldsPush, Zenon
<1>5. Rest(Tail(cd), IsrCode(v), 64, n + 1)
  BY <1>1, <1>2, RestStep, Zenon
<1>6. e \in CpuStates /\ e.stack = Append(s.stack, w) /\ e.regs = rg
  BY DEF Effect
<1> QED  BY <1>2, <1>4, <1>5, <1>6 DEF IsrState

\* A pop behind it.
LEMMA IsrPop ==
  ASSUME NEW v \in 0..255, NEW sv \in [GP -> Words], NEW cd, NEW s, NEW n \in 32..62,
         IsrState(v, sv, cd, s, n),
         NEW e, NEW st, NEW rg, Effect(e, st, rg),
         Holds(st, IsrStack(v, sv), 67 - n), IsrRegs(rg, sv, n + 1)
  PROVE  IsrState(v, sv, Tail(cd), e, n + 1)
<1>1. Rest(cd, IsrCode(v), 64, n) /\ v = Spurious
  BY DEF IsrState
<1>2. 68 - (n + 1) = 67 - n /\ n \in Nat /\ 64 \in Nat /\ n < 64 /\ ~(n + 1 <= 31) /\ n + 1 # 0
  OBVIOUS
<1>3. Rest(Tail(cd), IsrCode(v), 64, n + 1)
  BY <1>1, <1>2, RestStep, Zenon
<1>4. e \in CpuStates /\ e.stack = st /\ e.regs = rg
  BY DEF Effect
<1> QED  BY <1>1, <1>2, <1>3, <1>4 DEF IsrState

\* The instruction of a state.
LEMMA IsrHead ==
  ASSUME NEW v \in 0..255, NEW sv, NEW cd, NEW s, NEW n \in 0..63, IsrState(v, sv, cd, s, n)
  PROVE  cd # <<>> /\ Head(cd) = IsrAt(v, n + 1)
<1>1. Rest(cd, IsrCode(v), 64, n) /\ n \in Nat /\ 64 \in Nat /\ n < 64 /\ n + 1 \in 1..64
  BY DEF IsrState
<1>2. cd # <<>> /\ Head(cd) = IsrCode(v)[n + 1]
  BY <1>1, RestStep, Zenon
<1> QED  BY <1>1, <1>2 DEF IsrCode

\* The prologue.
LEMMA IsrIn ==
  ASSUME NEW v \in 0..255, NEW sv \in [GP -> Words], NEW cd, NEW s, NEW n \in 0..30,
         IsrState(v, sv, cd, s, n)
  PROVE  IsrState(v, sv, Tail(cd), Exec(Head(cd), s), n + 1)
<1> DEFINE e == Exec(Head(cd), s)
           rg == s.regs
<1>1. s \in CpuStates /\ rg \in [GP -> Words] /\ Head(cd) = IsrAt(v, n + 1)
  <2>1. s \in CpuStates
    BY DEF IsrState
  <2>2. n \in 0..63
    OBVIOUS
  <2>3. Head(cd) = IsrAt(v, n + 1)
    BY <2>2, IsrHead, Zenon
  <2> QED  BY <2>1, <2>3 DEF CpuStates
<1>2. \A r \in GP : rg[r] = sv[r] \/ (r = "rax" /\ n > 18)
  BY DEF IsrState, IsrRegs
<1>3. s.stack \in Seq(Words) /\ Len(s.stack) = 5 + n
  <2>1. Holds(s.stack, IsrStack(v, sv), 5 + n)
    BY DEF IsrState
  <2> QED  BY <2>1 DEF Holds
<1>4. IsrRegs(rg, sv, n + 1)
  BY <1>2 DEF IsrRegs
<1>5. n >= 18 => \A w \in Words : IsrRegs([rg EXCEPT !["rax"] = w], sv, n + 1)
  BY <1>1, <1>2 DEF IsrRegs
<1>6. CASE n = 0
  <2>1. Effect(e, Append(s.stack, Num(0)), rg)
    BY <1>1, <1>6, ExecPushNum DEF IsrAt
  <2>2. Num(0) = IsrWord(v, sv, 6 + n) /\ Num(0) \in Words
    <3>1. ~CpuPushesCode(v)
      BY <1>6 DEF IsrState
    <3>2. 6 + n = 6 /\ 0 \in Nat
      BY <1>6
    <3>3. IsrWord(v, sv, 6) = Num(0)
      BY <3>1 DEF IsrWord
    <3> QED  BY <3>2, <3>3, WordsOf, Zenon
  <2> QED  BY <1>4, <2>1, <2>2, IsrPush, Zenon
<1>7. CASE n = 1
  <2>1. Effect(e, Append(s.stack, Num(v)), rg)
    BY <1>1, <1>7, ExecPushNum DEF IsrAt
  <2>2. Num(v) = IsrWord(v, sv, 6 + n) /\ Num(v) \in Words
    <3>1. 6 + n = 7 /\ v \in Nat
      BY <1>7
    <3>2. IsrWord(v, sv, 7) = Num(v)
      BY DEF IsrWord
    <3> QED  BY <3>1, <3>2, WordsOf, Zenon
  <2> QED  BY <1>4, <2>1, <2>2, IsrPush, Zenon
<1>8. CASE n \in 2..17 /\ n # 11
  <2>1. n + 1 \in 3..18 /\ (n + 1) - 2 = n - 1 /\ n - 1 \in 1..16 /\ n - 1 # 10
        /\ 6 + n \in 8..23 /\ (6 + n) - 7 = n - 1 /\ 6 + n # 17
    BY <1>8
  <2> DEFINE r == Saved[n - 1]
  <2>2. r \in GP
    BY <2>1, SavedRegs
  <2>3. Head(cd) = Push(r)
    BY <1>1, <2>1 DEF IsrAt
  <2>4. IsrWord(v, sv, 6 + n) = sv[r]
    BY <2>1 DEF IsrWord
  <2> HIDE DEF r
  <2>5. Effect(e, Append(s.stack, rg[r]), rg) /\ rg[r] \in Words
    BY <1>1, <2>2, <2>3, ExecPush
  <2>6. rg[r] = sv[r]
    BY <1>2, <1>8, <2>2
  <2> QED  BY <1>4, <2>4, <2>5, <2>6, IsrPush, Zenon
<1>9. CASE n = 11
  <2>1. Head(cd) = Push("rsp")
    <3>1. Head(cd) = Push(Saved[10])
      BY <1>1, <1>9 DEF IsrAt
    <3> QED  BY <3>1, SavedRegs
  <2>2. Len(s.stack) = 16
    BY <1>3, <1>9
  <2>3. Effect(e, Append(s.stack, <<"sp", 16>>), rg)
    BY <1>1, <2>1, <2>2, ExecPushSp, Zenon
  <2>4. <<"sp", 16>> = IsrWord(v, sv, 6 + n) /\ <<"sp", 16>> \in Words
    BY <1>9, WordsOf DEF IsrWord
  <2> QED  BY <1>4, <2>3, <2>4, IsrPush, Zenon
<1>10. CASE n \in 18..29
  <2>1. n + 1 \in 19..30 /\ (n + 1) - 18 = n - 17 /\ n - 17 \in 1..12
        /\ 6 + n \in 24..35 /\ (6 + n) - 23 = n - 17
    BY <1>10
  <2> DEFINE x == Copied[n - 17]
  <2>2. x \in Names
    BY <2>1, Lists
  <2>3. Head(cd) = Spill(x)
    BY <1>1, <2>1 DEF IsrAt
  <2>4. IsrWord(v, sv, 6 + n) = Reg(x)
    BY <2>1 DEF IsrWord
  <2> HIDE DEF x
  <2>5. Effect(e, Append(s.stack, Reg(x)), [rg EXCEPT !["rax"] = Reg(x)]) /\ Reg(x) \in Words
    BY <1>1, <2>2, <2>3, ExecSpill, WordsOf
  <2>6. IsrRegs([rg EXCEPT !["rax"] = Reg(x)], sv, n + 1)
    BY <1>5, <1>10, <2>5
  <2> QED  BY <2>4, <2>5, <2>6, IsrPush, Zenon
<1>11. CASE n = 30
  <2>1. Head(cd) = [op |-> "saveword", arg |-> 30]
    BY <1>1, <1>11 DEF IsrAt
  <2>2. Len(s.stack) = 35 /\ Len(s.stack) > 30 /\ Len(s.stack) - 30 = 5
    BY <1>3, <1>11
  <2>3. s.stack[5] = Reg("rip")
    <3>1. s.stack[5] = IsrStack(v, sv)[5]
      BY <1>11 DEF IsrState, Holds
    <3>2. IsrStack(v, sv)[5] = Reg(Pushed[5])
      BY DEF IsrStack, IsrWord
    <3>3. Pushed[5] = "rip"
      BY DEF Pushed
    <3> QED  BY <3>1, <3>2, <3>3
  <2>4. Reg("rip") \in Words /\ IsrWord(v, sv, 6 + n) = Reg("rip")
    <3>1. "rip" \in Names
      BY DEF Names
    <3> QED  BY <1>11, <3>1, WordsOf DEF IsrWord
  <2>5. Effect(e, Append(s.stack, Reg("rip")), [rg EXCEPT !["rax"] = Reg("rip")])
    BY <1>1, <2>1, <2>2, <2>3, <2>4, ExecSave, Zenon
  <2>6. IsrRegs([rg EXCEPT !["rax"] = Reg("rip")], sv, n + 1)
    BY <1>5, <1>11, <2>4
  <2> QED  BY <2>4, <2>5, <2>6, IsrPush, Zenon
<1> QED  BY <1>6, <1>7, <1>8, <1>9, <1>10, <1>11

\* A pop leaves the registers that are already back alone.
LEMMA IsrRegsPop ==
  ASSUME NEW rg \in [GP -> Words], NEW sv \in [GP -> Words], NEW n \in 32..60, IsrRegs(rg, sv, n),
         NEW r \in GP, NEW w \in Words,
         n \in 45..60 => r = Saved[61 - n] /\ w = sv[r]
  PROVE  IsrRegs([rg EXCEPT ![r] = w], sv, n + 1)
<1> DEFINE new == [rg EXCEPT ![r] = w]
<1>1. \A j \in 2..16 : j > 61 - n /\ j # 10 => rg[Saved[j]] = sv[Saved[j]]
  BY DEF IsrRegs
<1>2. ASSUME NEW j \in 2..16, j > 61 - (n + 1), j # 10 PROVE new[Saved[j]] = sv[Saved[j]]
  <2>1. Saved[j] \in GP
    BY <1>2, SavedRegs
  <2>2. n \in 45..60 /\ 61 - n \in 1..16 /\ j >= 61 - n
    BY <1>2
  <2>3. CASE j = 61 - n
    BY <2>1, <2>2, <2>3
  <2>4. CASE j > 61 - n
    <3>1. Saved[j] # Saved[61 - n]
      BY <2>2, <2>4, SavedRegs
    <3>2. rg[Saved[j]] = sv[Saved[j]]
      BY <1>1, <1>2, <2>4
    <3> QED  BY <2>1, <2>2, <3>1, <3>2
  <2> QED  BY <2>2, <2>3, <2>4
<1>3. n + 1 = 61 => new["r15"] = sv["r15"]
  <2>1. Saved[1] = "r15" /\ "r15" \in GP
    BY DEF Saved, GP
  <2>2. n + 1 = 61 => n \in 45..60 /\ 61 - n = 1
    OBVIOUS
  <2> QED  BY <2>1, <2>2
<1> HIDE DEF new
<1>4. ~(n + 1 <= 31) /\ n + 1 # 63
  OBVIOUS
<1>5. IsrRegs(new, sv, n + 1)
  BY <1>2, <1>3, <1>4 DEF IsrRegs
<1> QED  BY <1>5 DEF new

\* The epilogue.
LEMMA IsrOut ==
  ASSUME NEW v \in 0..255, NEW sv \in [GP -> Words], NEW cd, NEW s, NEW n \in 32..62,
         IsrState(v, sv, cd, s, n)
  PROVE  IsrState(v, sv, Tail(cd), Exec(Head(cd), s), n + 1)
<1> DEFINE e == Exec(Head(cd), s)
           rg == s.regs
           h == 68 - n
           f == IsrStack(v, sv)
           top == Top(s.stack)
<1>1. s \in CpuStates /\ rg \in [GP -> Words] /\ Head(cd) = IsrAt(v, n + 1)
  <2>1. s \in CpuStates
    BY DEF IsrState
  <2>2. n \in 0..63
    OBVIOUS
  <2>3. Head(cd) = IsrAt(v, n + 1)
    BY <2>2, IsrHead, Zenon
  <2> QED  BY <2>1, <2>3 DEF CpuStates
<1>2. h \in 6..36 /\ h \in Nat /\ h > 0 /\ h - 1 = 67 - n
  OBVIOUS
<1>3. IsrRegs(rg, sv, n) /\ Holds(s.stack, f, h)
  BY DEF IsrState
<1>4. Holds(Below(s.stack), f, h - 1) /\ top = f[h] /\ top \in Words /\ Len(s.stack) = h
  <2> HIDE DEF f, h
  <2> QED  BY <1>2, <1>3, HoldsPop
<1>5. top = IsrWord(v, sv, h)
  BY <1>2, <1>4 DEF IsrStack
<1>6. Len(s.stack) > 0
  BY <1>2, <1>4
<1> HIDE DEF top
<1>7. ASSUME NEW r \in GP, Head(cd) = Pop(r), IsrRegs([rg EXCEPT ![r] = top], sv, n + 1)
      PROVE  IsrState(v, sv, Tail(cd), e, n + 1)
  <2>1. Effect(e, Below(s.stack), [rg EXCEPT ![r] = top])
    BY <1>1, <1>6, <1>7, ExecPop DEF top
  <2>2. Holds(Below(s.stack), f, 67 - n)
    BY <1>2, <1>4
  <2> HIDE DEF e, rg
  <2> QED  BY <1>7, <2>1, <2>2, IsrPop, ZenonT(30)
<1>8. "rax" \in GP /\ "r15" \in GP
  BY DEF GP
<1>9. CASE n \in 32..44
  <2>1. Head(cd) = Pop("rax")
    <3>1. n + 1 \in 33..45
      BY <1>9
    <3> QED  BY <1>1, <3>1 DEF IsrAt
  <2>2. n \in 32..60 /\ n \notin 45..60
    BY <1>9
  <2>3. IsrRegs([rg EXCEPT !["rax"] = top], sv, n + 1)
    BY <1>1, <1>3, <1>4, <1>8, <2>2, IsrRegsPop, Zenon
  <2> QED  BY <1>7, <1>8, <2>1, <2>3
<1>10. CASE n \in 45..60 /\ n # 51
  <2>1. n + 1 \in 46..61 /\ 62 - (n + 1) = 61 - n /\ 61 - n \in 1..16 /\ 61 - n # 10
        /\ h \in 8..23 /\ h # 17 /\ h - 7 = 61 - n /\ n \in 32..60
    BY <1>10
  <2> DEFINE r == Saved[61 - n]
  <2>2. r \in GP
    BY <2>1, SavedRegs
  <2>3. Head(cd) = Pop(r)
    BY <1>1, <2>1 DEF IsrAt
  <2>4. top = sv[r]
    BY <1>5, <2>1 DEF IsrWord
  <2>5. r = Saved[61 - n]
    OBVIOUS
  <2> HIDE DEF r
  <2>6. /\ rg \in [GP -> Words] /\ n \in 32..60 /\ IsrRegs(rg, sv, n) /\ top \in Words
        /\ n \in 45..60 => r = Saved[61 - n] /\ top = sv[r]
    BY <1>1, <1>3, <1>4, <2>1, <2>4, <2>5
  <2> HIDE DEF rg
  <2>7. IsrRegs([rg EXCEPT ![r] = top], sv, n + 1)
    BY <2>2, <2>6, IsrRegsPop, ZenonT(30)
  <2> QED  BY <1>7, <2>2, <2>3, <2>7 DEF rg
<1>11. CASE n = 51
  <2>1. Head(cd) = Pop("rsp")
    <3>1. Head(cd) = Pop(Saved[10])
      BY <1>1, <1>11 DEF IsrAt
    <3> QED  BY <3>1, SavedRegs
  <2>2. h = 17 /\ 67 - n = 16 /\ 16 \in Nat /\ 16 <= 17 /\ 17 \in Nat
    BY <1>11
  <2>3. top = <<"sp", 16>> /\ top[2] = 16
    BY <1>5, <2>2 DEF IsrWord
  <2>4. Effect(e, SubSeq(s.stack, 1, 16), rg)
    BY <1>1, <1>4, <2>1, <2>2, <2>3, ExecPopSp DEF top
  <2>5. Holds(SubSeq(s.stack, 1, 16), f, 16)
    <3> HIDE DEF f, h
    <3> QED  BY <1>3, <2>2, HoldsCut
  <2>6. IsrRegs(rg, sv, n + 1)
    <3>1. \A j \in 2..16 : j > 61 - (n + 1) /\ j # 10 => j > 61 - n
      BY <1>11
    <3> QED  BY <1>3, <1>11, <3>1 DEF IsrRegs
  <2>7. Holds(SubSeq(s.stack, 1, 16), f, 67 - n)
    BY <2>2, <2>5
  <2>8. IsrState(v, sv, Tail(cd), e, n + 1)
    <3> HIDE DEF e, rg
    <3> QED  BY <2>4, <2>6, <2>7, IsrPop, Zenon
  <2> QED  BY <2>8
<1>12. CASE n \in 61..62
  <2>1. Head(cd) = Pop("r15")
    <3>1. n + 1 \in 62..63
      BY <1>12
    <3> QED  BY <1>1, <3>1 DEF IsrAt
  <2>2. \A j \in 2..16 : Saved[j] # "r15" /\ (j # 10 => Saved[j] \in GP)
    <3>1. Saved[1] = "r15"
      BY DEF Saved
    <3> QED  BY <3>1, SavedRegs
  <2>3. \A j \in 2..16 : j # 10 => rg[Saved[j]] = sv[Saved[j]]
    <3>1. \A j \in 2..16 : j > 61 - n
      BY <1>12
    <3> QED  BY <1>3, <1>12, <3>1 DEF IsrRegs
  <2>4. n = 62 => top = Num(0)
    <3>1. ~CpuPushesCode(v)
      BY DEF IsrState, Spurious, CpuPushesCode
    <3>2. IsrWord(v, sv, 6) = Num(0)
      BY <3>1 DEF IsrWord
    <3> QED  BY <1>5, <3>2
  <2>5. IsrRegs([rg EXCEPT !["r15"] = top], sv, n + 1)
    <3> DEFINE new == [rg EXCEPT !["r15"] = top]
    <3>1. \A j \in 2..16 : j # 10 => new[Saved[j]] = sv[Saved[j]]
      BY <1>1, <2>2, <2>3
    <3>2. n + 1 = 63 => new["r15"] = Num(0)
      BY <1>1, <1>8, <2>4
    <3> HIDE DEF new
    <3>3. IsrRegs(new, sv, n + 1)
      BY <1>12, <3>1, <3>2 DEF IsrRegs
    <3> QED  BY <3>3 DEF new
  <2> QED  BY <1>7, <1>8, <2>1, <2>5
<1> QED  BY <1>9, <1>10, <1>11, <1>12

-----------------------------------------------------------------------------
(* The steps of a line's stub. *)

\* A push in front of the call.
LEMMA IrqPush ==
  ASSUME NEW v \in 0..255, NEW sv \in [GP -> Words], NEW cd, NEW s, NEW n \in 0..15,
         IrqState(v, sv, cd, s, n), NEW w \in Words, w = IrqWord(v, sv, 6 + n),
         NEW e, NEW rg, Effect(e, Append(s.stack, w), rg), IrqRegs(rg, sv, n + 1)
  PROVE  IrqState(v, sv, Tail(cd), e, n + 1)
<1>1. Holds(s.stack, IrqStack(v, sv), 5 + n) /\ Rest(cd, IrqCode(v), 34, n)
  BY DEF IrqState
<1>2. (5 + n) + 1 = 6 + n /\ 5 + n \in Nat /\ 6 + n \in 1..21 /\ 5 + (n + 1) = 6 + n
      /\ n \in Nat /\ 34 \in Nat /\ n < 34 /\ n + 1 <= 16
  OBVIOUS
<1>3. w = IrqStack(v, sv)[(5 + n) + 1]
  BY <1>2 DEF IrqStack
<1>4. Holds(Append(s.stack, w), IrqStack(v, sv), (5 + n) + 1)
  BY <1>1, <1>2, <1>3, HoldsPush, Zenon
<1>5. Rest(Tail(cd), IrqCode(v), 34, n + 1)
  BY <1>1, <1>2, RestStep, Zenon
<1>6. e \in CpuStates /\ e.stack = Append(s.stack, w) /\ e.regs = rg
  BY DEF Effect
<1> QED  BY <1>2, <1>4, <1>5, <1>6 DEF IrqState

\* A pop behind it.
LEMMA IrqPop ==
  ASSUME NEW v \in 0..255, NEW sv \in [GP -> Words], NEW cd, NEW s, NEW n \in 17..32,
         IrqState(v, sv, cd, s, n),
         NEW e, NEW st, NEW rg, Effect(e, st, rg),
         Holds(st, IrqStack(v, sv), 37 - n), IrqRegs(rg, sv, n + 1)
  PROVE  IrqState(v, sv, Tail(cd), e, n + 1)
<1>1. Rest(cd, IrqCode(v), 34, n)
  BY DEF IrqState
<1>2. 38 - (n + 1) = 37 - n /\ n \in Nat /\ 34 \in Nat /\ n < 34 /\ ~(n + 1 <= 16)
  OBVIOUS
<1>3. Rest(Tail(cd), IrqCode(v), 34, n + 1)
  BY <1>1, <1>2, RestStep, Zenon
<1>4. e \in CpuStates /\ e.stack = st /\ e.regs = rg
  BY DEF Effect
<1> QED  BY <1>2, <1>3, <1>4 DEF IrqState

\* The instruction of a state.
LEMMA IrqHead ==
  ASSUME NEW v \in 0..255, NEW sv, NEW cd, NEW s, NEW n \in 0..33, IrqState(v, sv, cd, s, n)
  PROVE  cd # <<>> /\ Head(cd) = IrqAt(v, n + 1)
<1>1. Rest(cd, IrqCode(v), 34, n) /\ n \in Nat /\ 34 \in Nat /\ n < 34 /\ n + 1 \in 1..34
  BY DEF IrqState
<1>2. cd # <<>> /\ Head(cd) = IrqCode(v)[n + 1]
  BY <1>1, RestStep, Zenon
<1> QED  BY <1>1, <1>2 DEF IrqCode

\* The prologue.
LEMMA IrqIn ==
  ASSUME NEW v \in 0..255, IsIrq(v), NEW sv \in [GP -> Words], NEW cd, NEW s, NEW n \in 0..15,
         IrqState(v, sv, cd, s, n)
  PROVE  IrqState(v, sv, Tail(cd), Exec(Head(cd), s), n + 1)
<1> DEFINE e == Exec(Head(cd), s)
           rg == s.regs
<1>1. s \in CpuStates /\ rg \in [GP -> Words] /\ Head(cd) = IrqAt(v, n + 1)
  <2>1. s \in CpuStates
    BY DEF IrqState
  <2>2. n \in 0..33
    OBVIOUS
  <2>3. Head(cd) = IrqAt(v, n + 1)
    BY <2>2, IrqHead, Zenon
  <2> QED  BY <2>1, <2>3 DEF CpuStates
<1>2. \A r \in GP : rg[r] = sv[r]
  BY DEF IrqState, IrqRegs
<1>3. IrqRegs(rg, sv, n + 1)
  BY <1>2 DEF IrqRegs
<1>4. CASE n = 0
  <2>1. v - 32 \in Nat /\ 6 + n = 6
    BY <1>4 DEF IsIrq
  <2>2. Head(cd) = PushNum(v - 32)
    BY <1>1, <1>4 DEF IrqAt
  <2>3. Effect(e, Append(s.stack, Num(v - 32)), rg)
    BY <1>1, <2>1, <2>2, ExecPushNum
  <2>4. IrqWord(v, sv, 6) = Num(v - 32)
    BY DEF IrqWord
  <2>5. Num(v - 32) \in Words
    BY <2>1, WordsOf, Zenon
  <2>6. IrqState(v, sv, Tail(cd), e, n + 1)
    <3> HIDE DEF e, rg
    <3> QED  BY <1>3, <2>1, <2>3, <2>4, <2>5, IrqPush, Zenon
  <2> QED  BY <2>6
<1>5. CASE n \in 1..15
  <2>1. n + 1 \in 2..16 /\ (n + 1) - 1 = n /\ 6 + n \in 7..21 /\ (6 + n) - 6 = n
    BY <1>5
  <2> DEFINE r == SavedIrq[n]
  <2>2. r \in GP
    BY <1>5, SavedIrqRegs
  <2>3. Head(cd) = Push(r)
    BY <1>1, <2>1 DEF IrqAt
  <2>4. IrqWord(v, sv, 6 + n) = sv[r]
    BY <2>1 DEF IrqWord
  <2> HIDE DEF r
  <2>5. Effect(e, Append(s.stack, rg[r]), rg) /\ rg[r] \in Words
    BY <1>1, <2>2, <2>3, ExecPush
  <2>6. rg[r] = IrqWord(v, sv, 6 + n)
    BY <1>2, <2>2, <2>4
  <2>7. IrqState(v, sv, Tail(cd), e, n + 1)
    <3> HIDE DEF e, rg
    <3> DEFINE w == rg[r]
    <3>1. w \in Words /\ w = IrqWord(v, sv, 6 + n) /\ Effect(e, Append(s.stack, w), rg)
      BY <2>5, <2>6
    <3> HIDE DEF w
    <3> QED  BY <1>3, <3>1, IrqPush, Zenon
  <2> QED  BY <2>7
<1> QED  BY <1>4, <1>5

\* The epilogue.
LEMMA IrqOut ==
  ASSUME NEW v \in 0..255, NEW sv \in [GP -> Words], NEW cd, NEW s, NEW n \in 17..32,
         IrqState(v, sv, cd, s, n)
  PROVE  IrqState(v, sv, Tail(cd), Exec(Head(cd), s), n + 1)
<1> DEFINE e == Exec(Head(cd), s)
           rg == s.regs
           h == 38 - n
           f == IrqStack(v, sv)
           top == Top(s.stack)
<1>1. s \in CpuStates /\ rg \in [GP -> Words] /\ Head(cd) = IrqAt(v, n + 1)
  <2>1. s \in CpuStates
    BY DEF IrqState
  <2>2. n \in 0..33
    OBVIOUS
  <2>3. Head(cd) = IrqAt(v, n + 1)
    BY <2>2, IrqHead, Zenon
  <2> QED  BY <2>1, <2>3 DEF CpuStates
<1>2. h \in 6..21 /\ h \in Nat /\ h > 0 /\ h - 1 = 37 - n
  OBVIOUS
<1>3. IrqRegs(rg, sv, n) /\ Holds(s.stack, f, h)
  BY DEF IrqState
<1>4. Holds(Below(s.stack), f, h - 1) /\ top = f[h] /\ top \in Words /\ Len(s.stack) = h
  <2> HIDE DEF f, h
  <2> QED  BY <1>2, <1>3, HoldsPop
<1>5. top = IrqWord(v, sv, h)
  BY <1>2, <1>4 DEF IrqStack
<1>6. Len(s.stack) > 0 /\ Holds(Below(s.stack), f, 37 - n)
  BY <1>2, <1>4
<1>7. \A j \in 1..15 : j > 32 - n => rg[SavedIrq[j]] = sv[SavedIrq[j]]
  BY <1>3 DEF IrqRegs
<1>8. CASE n \in 17..31
  <2>1. n + 1 \in 18..32 /\ 33 - (n + 1) = 32 - n /\ 32 - n \in 1..15 /\ h \in 7..21
        /\ h - 6 = 32 - n
    BY <1>8
  <2> DEFINE r == SavedIrq[32 - n]
             new == [rg EXCEPT ![r] = top]
  <2>2. r \in GP
    BY <2>1, SavedIrqRegs
  <2>3. Head(cd) = Pop(r)
    BY <1>1, <2>1 DEF IrqAt
  <2>4. top = sv[r]
    BY <1>5, <2>1 DEF IrqWord
  <2> HIDE DEF top
  <2>5. ASSUME NEW j \in 1..15, j > 32 - (n + 1) PROVE new[SavedIrq[j]] = sv[SavedIrq[j]]
    <3>1. SavedIrq[j] \in GP
      BY SavedIrqRegs
    <3>2. CASE j = 32 - n
      BY <1>1, <2>2, <2>4, <3>2
    <3>3. CASE j > 32 - n
      <4>1. SavedIrq[j] # r
        BY <2>1, <3>3, SavedIrqRegs
      <4>2. rg[SavedIrq[j]] = sv[SavedIrq[j]]
        BY <1>7, <3>3
      <4> QED  BY <1>1, <2>2, <3>1, <4>1, <4>2
    <3> QED  BY <2>5, <3>2, <3>3
  <2>6. Effect(e, Below(s.stack), new)
    <3> HIDE DEF r
    <3> QED  BY <1>1, <1>6, <2>2, <2>3, ExecPop DEF top
  <2> HIDE DEF new
  <2>7. IrqRegs(new, sv, n + 1)
    <3>1. ~(n + 1 <= 16)
      OBVIOUS
    <3> QED  BY <2>5, <3>1 DEF IrqRegs
  <2>8. IrqState(v, sv, Tail(cd), e, n + 1)
    <3> HIDE DEF e, rg, f
    <3> QED  BY <1>6, <2>6, <2>7, IrqPop, Zenon DEF f
  <2> QED  BY <2>8
<1>9. CASE n = 32
  <2>1. Head(cd) = [op |-> "skip", arg |-> 1]
    BY <1>1, <1>9 DEF IrqAt
  <2>2. Effect(e, Below(s.stack), rg)
    BY <1>1, <1>6, <2>1, ExecSkip
  <2>3. IrqRegs(rg, sv, n + 1)
    BY <1>7, <1>9 DEF IrqRegs
  <2>4. IrqState(v, sv, Tail(cd), e, n + 1)
    <3> HIDE DEF e, rg
    <3> QED  BY <1>6, <2>2, <2>3, IrqPop, Zenon
  <2> QED  BY <2>4
<1> QED  BY <1>8, <1>9

-----------------------------------------------------------------------------
(* Entering a stub, its call and its return. *)

\* The words the CPU pushes for every vector.
LEMMA FiveWords ==
  /\ Backwards(Each(Reg, CpuFrame)) \in Seq(Words) /\ Len(Backwards(Each(Reg, CpuFrame))) = 5
  /\ \A i \in 1..5 : Backwards(Each(Reg, CpuFrame))[i] = Reg(Pushed[i])
<1> DEFINE f == Each(Reg, CpuFrame)
           p == Backwards(f)
<1>1. Len(CpuFrame) = 5 /\ DOMAIN CpuFrame = 1..5
  BY DEF CpuFrame
<1>2. f = [k \in 1..5 |-> Reg(CpuFrame[k])]
  BY <1>1 DEF Each
<1> HIDE DEF f
<1>3. Len(f) = 5
  BY <1>2
<1>4. p = [i \in 1..5 |-> f[(5 - i) + 1]]
  BY <1>3 DEF Backwards
<1> HIDE DEF p
<1>5. \A i \in 1..5 : CpuFrame[(5 - i) + 1] = Pushed[i] /\ (5 - i) + 1 \in 1..5
  BY DEF CpuFrame, Pushed
<1>6. \A i \in 1..5 : p[i] = Reg(Pushed[i])
  BY <1>2, <1>4, <1>5
<1>7. \A i \in 1..5 : Pushed[i] \in Names
  <2>1. /\ Pushed[1] = "ss" /\ Pushed[2] = "rsp" /\ Pushed[3] = "rflags"
        /\ Pushed[4] = "cs" /\ Pushed[5] = "rip"
    BY DEF Pushed
  <2>2. \A i \in 1..5 : i = 1 \/ i = 2 \/ i = 3 \/ i = 4 \/ i = 5
    OBVIOUS
  <2>3. /\ "ss" \in Names /\ "rsp" \in Names /\ "rflags" \in Names
        /\ "cs" \in Names /\ "rip" \in Names
    BY DEF Names
  <2> QED  BY <2>1, <2>2, <2>3
<1>8. \A i \in 1..5 : p[i] \in Words
  BY <1>6, <1>7, WordsOf
<1>9. p \in Seq(Words) /\ Len(p) = 5
  BY <1>4, <1>8
<1> QED  BY <1>6, <1>9, Zenon DEF p, f

\* Both kinds of frame begin with them.
LEMMA BaseWords ==
  ASSUME NEW v, NEW sv, NEW i \in 1..5
  PROVE  IrqStack(v, sv)[i] = Reg(Pushed[i]) /\ IsrStack(v, sv)[i] = Reg(Pushed[i])
BY DEF IrqStack, IrqWord, IsrStack, IsrWord

\* The stack of a new stub.
LEMMA EnteredWords ==
  ASSUME NEW v \in 0..255
  PROVE  LET d == IF CpuPushesCode(v) THEN 1 ELSE 0
         IN /\ Entered(v) \in Seq(Words) /\ Len(Entered(v)) = 5 + d
            /\ \A i \in 1..5 : Entered(v)[i] = Reg(Pushed[i])
            /\ d = 1 => Entered(v)[6] = Num(100)
<1> DEFINE p == Backwards(Each(Reg, CpuFrame))
<1>1. p \in Seq(Words) /\ Len(p) = 5 /\ \A i \in 1..5 : p[i] = Reg(Pushed[i])
  BY FiveWords, Zenon
<1>2. Entered(v) = p \o (IF CpuPushesCode(v) THEN <<Num(100)>> ELSE <<>>)
  BY DEF Entered
<1> HIDE DEF p
<1> DEFINE w == Num(100)
<1>3. w \in Words
  <2>1. \A n \in Nat : Num(n) \in Words
    BY WordsOf, Zenon
  <2>2. 100 \in Nat
    OBVIOUS
  <2> QED  BY <2>1, <2>2
<1> HIDE DEF w
<1>4. CASE CpuPushesCode(v)
  <2> DEFINE b == <<w>>
  <2>1. Entered(v) = p \o b
    BY <1>2, <1>4 DEF w
  <2>5. b \in Seq(Words) /\ Len(b) = 1 /\ b[1] = w
    BY <1>3
  <2> HIDE DEF b
  <2> DEFINE q == p \o b
  <2>2. /\ q \in Seq(Words) /\ Len(q) = Len(p) + Len(b)
        /\ \A i \in 1..Len(p) + Len(b) : q[i] = IF i <= Len(p) THEN p[i] ELSE b[i - Len(p)]
    BY <1>1, <2>5, ConcatProperties, ZenonT(30)
  <2> HIDE DEF q
  <2>3. Len(p) + Len(b) = 6 /\ Len(p) = 5
    BY <1>1, <2>5
  <2>4. /\ q \in Seq(Words) /\ Len(q) = 5 + 1
        /\ \A i \in 1..5 : q[i] = Reg(Pushed[i])
        /\ q[6] = w
    <3>1. \A i \in 1..6 : q[i] = IF i <= 5 THEN p[i] ELSE b[i - 5]
      BY <2>2, <2>3
    <3>2. 6 \in 1..6 /\ ~(6 <= 5) /\ 6 - 5 = 1 /\ \A i \in 1..5 : i \in 1..6 /\ i <= 5
      OBVIOUS
    <3>3. q[6] = w
      BY <2>5, <3>1, <3>2
    <3>4. \A i \in 1..5 : q[i] = Reg(Pushed[i])
      BY <1>1, <3>1, <3>2
    <3> QED  BY <2>2, <2>3, <3>3, <3>4
  <2>6. Entered(v) = q
    BY <2>1 DEF q
  <2> QED  BY <1>4, <2>4, <2>6 DEF w
<1>5. CASE ~CpuPushesCode(v)
  <2>1. Entered(v) = p \o <<>>
    BY <1>2, <1>5
  <2>2. p \o <<>> = p
    BY <1>1
  <2> QED  BY <1>1, <1>5, <2>1, <2>2
<1> QED  BY <1>4, <1>5

\* A stub starts in its first state, with the registers of the program.
LEMMA Enters ==
  ASSUME NEW v \in 0..255, v \in Raised, NEW s \in CpuStates,
         NEW e, e = [s EXCEPT !.stack = Entered(v)]
  PROVE  StubState(v, s.regs, Stub(v), e) /\ e \in CpuStates /\ s.regs \in [GP -> Words]
<1> DEFINE d == IF CpuPushesCode(v) THEN 1 ELSE 0
           sv == s.regs
           st == Entered(v)
<1>1. d \in 0..1 /\ (d = 0 => ~CpuPushesCode(v)) /\ (d = 1 => CpuPushesCode(v))
  OBVIOUS
<1>2. /\ st \in Seq(Words) /\ Len(st) = 5 + d
      /\ \A i \in 1..5 : st[i] = Reg(Pushed[i])
      /\ d = 1 => st[6] = Num(100)
  BY EnteredWords, Zenon
<1>3. e \in CpuStates /\ e.stack = st /\ e.regs = sv
  BY <1>2, StackEffect DEF Effect
<1>4. sv \in [GP -> Words]
  BY DEF CpuStates
<1>5. CASE IsIrq(v)
  <2>1. d = 0
    BY <1>5 DEF IsIrq, CpuPushesCode
  <2> DEFINE cd == Stub(v)
  <2>2. Piece(cd, 34) /\ \A n \in 1..34 : cd[n] = IrqAt(v, n)
    BY <1>5, StubIrq, Zenon
  <2> HIDE DEF cd, st, sv, d
  <2>3. Rest(cd, IrqCode(v), 34, 0)
    BY <2>2 DEF Rest, IrqCode
  <2>4. \A i \in 1..5 : IrqStack(v, sv)[i] = Reg(Pushed[i])
    BY BaseWords
  <2>5. Holds(st, IrqStack(v, sv), 5)
    BY <1>2, <2>1, <2>4 DEF Holds
  <2>6. IrqRegs(sv, sv, 0)
    BY DEF IrqRegs
  <2>7. IrqState(v, sv, cd, e, 0)
    BY <1>3, <2>3, <2>5, <2>6 DEF IrqState
  <2>8. StubState(v, sv, cd, e)
    BY <1>5, <2>7 DEF StubState
  <2> QED  BY <1>3, <1>4, <2>8 DEF cd, sv
<1>6. CASE ~IsIrq(v)
  <2> DEFINE cd == Stub(v)
  <2>1. Piece(cd, 64 - d) /\ \A n \in 1..64 - d : cd[n] = IsrAt(v, n + d)
    BY <1>6, StubIsr, Zenon
  <2> HIDE DEF cd, st, sv
  <2>2. Rest(cd, IsrCode(v), 64, d)
    <3> HIDE DEF d
    <3>1. \A n \in 1..64 - d : d + n = n + d /\ n + d \in 1..64
      BY <1>1
    <3> QED  BY <2>1, <3>1 DEF Rest, IsrCode
  <2>3. \A i \in 1..5 : IsrStack(v, sv)[i] = Reg(Pushed[i])
    BY BaseWords
  <2>4. d = 1 => IsrStack(v, sv)[6] = Num(100)
    BY <1>1 DEF IsrStack, IsrWord
  <2>5. Holds(st, IsrStack(v, sv), 5 + d)
    <3> HIDE DEF d
    <3>1. CASE d = 0
      BY <1>2, <2>3, <3>1 DEF Holds
    <3>2. CASE d = 1
      <4>1. \A i \in 1..6 : i \in 1..5 \/ i = 6
        OBVIOUS
      <4>2. \A i \in 1..6 : st[i] = IsrStack(v, sv)[i]
        BY <1>2, <2>3, <2>4, <3>2, <4>1
      <4> QED  BY <1>2, <3>2, <4>2 DEF Holds
    <3> QED  BY <1>1, <3>1, <3>2
  <2>6. IsrRegs(sv, sv, d)
    <3> HIDE DEF d
    <3> QED  BY <1>1 DEF IsrRegs
  <2>7. IsrState(v, sv, cd, e, d)
    <3> HIDE DEF d
    <3>1. d <= 31 /\ ~(d > 31)
      BY <1>1
    <3> QED  BY <1>1, <1>3, <2>2, <2>5, <2>6, <3>1 DEF IsrState
  <2>8. StubState(v, sv, cd, e)
    <3>1. d \in 0..63
      BY <1>1
    <3> HIDE DEF d
    <3> QED  BY <1>6, <2>7, <3>1 DEF StubState
  <2> QED  BY <1>3, <1>4, <2>8 DEF cd, sv
<1> QED  BY <1>5, <1>6

\* The operations of a stub that are not the stub's own.
IsrOp(i, n) ==
  /\ i.op = "call" <=> n = 31
  /\ i.op = "iretq" <=> n = 63
  /\ n = 31 => i.arg = "isr_handler"

\* An exception's stub has one call and one iretq, at these places.
LEMMA IsrOps ==
  ASSUME NEW v \in 0..255, NEW n \in 0..63, NEW i, i = IsrAt(v, n + 1)
  PROVE  IsrOp(i, n)
<1>1. CASE n = 31
  BY <1>1 DEF IsrOp, IsrAt
<1>2. CASE n = 63
  BY <1>2 DEF IsrOp, IsrAt
<1>3. CASE n \in 0..30
  BY <1>3 DEF IsrOp, IsrAt, Push, PushNum, Spill
<1>4. CASE n \in 32..62
  BY <1>4 DEF IsrOp, IsrAt, Pop
<1> QED  BY <1>1, <1>2, <1>3, <1>4

\* The same of a line's stub.
IrqOp(i, n) ==
  /\ i.op = "call" <=> n = 16
  /\ i.op = "iretq" <=> n = 33
  /\ n = 16 => i.arg = "irq_handler"

\* A line's stub has one call and one iretq, at these places.
LEMMA IrqOps ==
  ASSUME NEW v \in 0..255, NEW n \in 0..33, NEW i, i = IrqAt(v, n + 1)
  PROVE  IrqOp(i, n)
<1>1. CASE n = 16
  BY <1>1 DEF IrqOp, IrqAt
<1>2. CASE n = 33
  BY <1>2 DEF IrqOp, IrqAt
<1>3. CASE n \in 0..15
  BY <1>3 DEF IrqOp, IrqAt, Push, PushNum
<1>4. CASE n \in 17..32
  BY <1>4 DEF IrqOp, IrqAt, Pop
<1> QED  BY <1>1, <1>2, <1>3, <1>4

\* An instruction leads to the stub's next state.
LEMMA InstructionStep ==
  ASSUME NEW v \in 0..255, NEW sv \in [GP -> Words], NEW cd, NEW s, StubState(v, sv, cd, s),
         Head(cd).op # "call", Head(cd).op # "iretq"
  PROVE  StubState(v, sv, Tail(cd), Exec(Head(cd), s))
<1> DEFINE e == Exec(Head(cd), s)
<1>1. CASE IsIrq(v)
  <2>1. PICK n \in 0..33 : IrqState(v, sv, cd, s, n)
    BY <1>1 DEF StubState
  <2>2. Head(cd) = IrqAt(v, n + 1)
    BY <2>1, IrqHead, Zenon
  <2>8. IrqOp(Head(cd), n)
    BY <2>2, IrqOps, Zenon
  <2>3. n # 16 /\ n # 33
    BY <2>8 DEF IrqOp
  <2>4. n \in 0..15 \/ n \in 17..32
    BY <2>3
  <2>5. IrqState(v, sv, Tail(cd), e, n + 1)
    BY <1>1, <2>1, <2>4, IrqIn, IrqOut, Zenon
  <2>6. n + 1 \in 0..33
    BY <2>4
  <2> HIDE DEF e
  <2>7. StubState(v, sv, Tail(cd), e)
    BY <1>1, <2>5, <2>6 DEF StubState
  <2> QED  BY <2>7 DEF e
<1>2. CASE ~IsIrq(v)
  <2>1. PICK n \in 0..63 : IsrState(v, sv, cd, s, n)
    BY <1>2 DEF StubState
  <2>2. Head(cd) = IsrAt(v, n + 1)
    BY <2>1, IsrHead, Zenon
  <2>8. IsrOp(Head(cd), n)
    BY <2>2, IsrOps, Zenon
  <2>3. n # 31 /\ n # 63
    BY <2>8 DEF IsrOp
  <2>4. n \in 0..30 \/ n \in 32..62
    BY <2>3
  <2>5. IsrState(v, sv, Tail(cd), e, n + 1)
    BY <2>1, <2>4, IsrIn, IsrOut, ZenonT(30)
  <2>6. n + 1 \in 0..63
    BY <2>4
  <2> HIDE DEF e
  <2>7. StubState(v, sv, Tail(cd), e)
    BY <1>2, <2>5, <2>6 DEF StubState
  <2> QED  BY <2>7 DEF e
<1> QED  BY <1>1, <1>2

\* The states at a stub's call and at its iretq.
LEMMA AtCall ==
  ASSUME NEW v \in 0..255, NEW sv, NEW cd, NEW s, StubState(v, sv, cd, s), Head(cd).op = "call"
  PROVE  IF IsIrq(v) THEN IrqState(v, sv, cd, s, 16) /\ Head(cd).arg = "irq_handler"
         ELSE IsrState(v, sv, cd, s, 31) /\ Head(cd).arg = "isr_handler"
<1>1. CASE IsIrq(v)
  <2>1. PICK n \in 0..33 : IrqState(v, sv, cd, s, n)
    BY <1>1 DEF StubState
  <2>2. Head(cd) = IrqAt(v, n + 1)
    BY <2>1, IrqHead, Zenon
  <2>8. IrqOp(Head(cd), n)
    BY <2>2, IrqOps, Zenon
  <2>3. n = 16 /\ Head(cd).arg = "irq_handler"
    BY <2>8 DEF IrqOp
  <2> QED  BY <1>1, <2>1, <2>3
<1>2. CASE ~IsIrq(v)
  <2>1. PICK n \in 0..63 : IsrState(v, sv, cd, s, n)
    BY <1>2 DEF StubState
  <2>2. Head(cd) = IsrAt(v, n + 1)
    BY <2>1, IsrHead, Zenon
  <2>8. IsrOp(Head(cd), n)
    BY <2>2, IsrOps, Zenon
  <2>3. n = 31 /\ Head(cd).arg = "isr_handler"
    BY <2>8 DEF IsrOp
  <2> QED  BY <1>2, <2>1, <2>3
<1> QED  BY <1>1, <1>2

\* Nothing but a line or a spurious interrupt reaches iretq.
LEMMA AtIretq ==
  ASSUME NEW v \in 0..255, NEW sv, NEW cd, NEW s, StubState(v, sv, cd, s), Head(cd).op = "iretq"
  PROVE  IF IsIrq(v) THEN IrqState(v, sv, cd, s, 33)
         ELSE v = Spurious /\ IsrState(v, sv, cd, s, 63)
<1>1. CASE IsIrq(v)
  <2>1. PICK n \in 0..33 : IrqState(v, sv, cd, s, n)
    BY <1>1 DEF StubState
  <2>2. Head(cd) = IrqAt(v, n + 1)
    BY <2>1, IrqHead, Zenon
  <2>8. IrqOp(Head(cd), n)
    BY <2>2, IrqOps, Zenon
  <2>3. n = 33
    BY <2>8 DEF IrqOp
  <2> QED  BY <1>1, <2>1, <2>3
<1>2. CASE ~IsIrq(v)
  <2>1. PICK n \in 0..63 : IsrState(v, sv, cd, s, n)
    BY <1>2 DEF StubState
  <2>2. Head(cd) = IsrAt(v, n + 1)
    BY <2>1, IsrHead, Zenon
  <2>8. IsrOp(Head(cd), n)
    BY <2>2, IsrOps, Zenon
  <2>3. n = 63
    BY <2>8 DEF IsrOp
  <2>4. v = Spurious
    BY <2>1, <2>3 DEF IsrState
  <2> QED  BY <1>2, <2>1, <2>3, <2>4
<1> QED  BY <1>1, <1>2

\* The registers a called function leaves.
LEMMA CalledStates ==
  ASSUME NEW s \in CpuStates, NEW e, e = [s EXCEPT !.regs = Called(@)]
  PROVE  e \in CpuStates /\ e.stack = s.stack
<1>1. s.regs \in [GP -> Words] /\ s.stack \in Seq(Words)
  BY DEF CpuStates
<1>2. Called(s.regs) \in [GP -> Words]
  BY <1>1, WordsOf DEF Called
<1>3. e = [regs |-> Called(s.regs), stack |-> s.stack]
  BY DEF CpuStates
<1> QED  BY <1>1, <1>2, <1>3 DEF CpuStates

\* A called function spoils registers that the stub pops anyway.
LEMMA CallStep ==
  ASSUME NEW v \in 0..255, NEW sv \in [GP -> Words], NEW cd, NEW s, StubState(v, sv, cd, s),
         Head(cd).op = "call", IsIrq(v) \/ v = Spurious,
         NEW e, e = [s EXCEPT !.regs = Called(@)]
  PROVE  StubState(v, sv, Tail(cd), e)
<1>1. s \in CpuStates
  BY AtCall, Zenon DEF IrqState, IsrState
<1>2. e \in CpuStates /\ e.stack = s.stack
  BY <1>1, CalledStates
<1>3. CASE IsIrq(v)
  <2>1. IrqState(v, sv, cd, s, 16)
    BY <1>3, AtCall, Zenon
  <2>2. Rest(cd, IrqCode(v), 34, 16) /\ Holds(s.stack, IrqStack(v, sv), 21)
    BY <2>1 DEF IrqState
  <2>6. 34 \in Nat /\ 16 \in Nat /\ 16 < 34 /\ 16 + 1 = 17
    OBVIOUS
  <2>3. Rest(Tail(cd), IrqCode(v), 34, 16 + 1)
    BY <2>2, <2>6, RestStep, Zenon
  <2>4. IrqRegs(e.regs, sv, 17)
    BY DEF IrqRegs
  <2>5. IrqState(v, sv, Tail(cd), e, 17)
    BY <1>2, <2>2, <2>3, <2>4, <2>6 DEF IrqState
  <2> QED  BY <1>3, <2>5 DEF StubState
<1>4. CASE ~IsIrq(v)
  <2>1. IsrState(v, sv, cd, s, 31)
    BY <1>4, AtCall, Zenon
  <2>2. Rest(cd, IsrCode(v), 64, 31) /\ Holds(s.stack, IsrStack(v, sv), 36)
    BY <2>1 DEF IsrState
  <2>6. 64 \in Nat /\ 31 \in Nat /\ 31 < 64 /\ 31 + 1 = 32
    OBVIOUS
  <2>3. Rest(Tail(cd), IsrCode(v), 64, 31 + 1)
    BY <2>2, <2>6, RestStep, Zenon
  <2>4. IsrRegs(e.regs, sv, 32)
    BY DEF IsrRegs
  <2>5. IsrState(v, sv, Tail(cd), e, 32)
    BY <1>2, <1>4, <2>2, <2>3, <2>4, <2>6 DEF IsrState
  <2> QED  BY <1>4, <2>5 DEF StubState
<1> QED  BY <1>3, <1>4

-----------------------------------------------------------------------------
(* The invariant. *)

\* An exception and an NMI crash the machine, the others do not.
LEMMA EnterStep ==
  ASSUME EntryInv, NEW v \in 0..255, v \in Raised, Enter(v),
         mode = "program" \/ (~IsIrq(v) /\ v # Spurious)
  PROVE  EntryInv'
<1>1. cpu \in CpuStates /\ (mode = "program" => ~crashed)
  BY DEF EntryInv
<1>2. /\ mode' = "stub" /\ vec' = v /\ code' = Stub(v) /\ saved' = cpu.regs
      /\ cpu' = [cpu EXCEPT !.stack = Entered(v)]
  BY DEF Enter
<1>3. crashed' <=> crashed \/ (~IsIrq(v) /\ v # Spurious)
  BY Zenon DEF Enter
<1>4. StubState(v, cpu.regs, Stub(v), cpu') /\ cpu' \in CpuStates /\ cpu.regs \in [GP -> Words]
  BY <1>1, <1>2, Enters, Zenon
<1>5. StubState(vec', saved', code', cpu') /\ vec' \in 0..255 /\ saved' \in [GP -> Words]
  BY <1>2, <1>4
<1>6. crashed' <=> ~IsIrq(vec') /\ vec' # Spurious
  BY <1>1, <1>2, <1>3
<1> QED  BY <1>2, <1>4, <1>5, <1>6 DEF EntryInv

\* A step that is not an entry keeps the vector and what it saved.
LEMMA StayStep ==
  ASSUME EntryInv, UNCHANGED <<vec, saved, crashed>>, mode # "program", mode' # "program",
         cpu' \in CpuStates, mode' \in {"report", "halted"} => crashed,
         mode' = "stub" => StubState(vec, saved, code', cpu')
  PROVE  EntryInv'
<1>1. vec' = vec /\ saved' = saved /\ crashed' = crashed
  OBVIOUS
<1>2. vec \in 0..255 /\ saved \in [GP -> Words] /\ (crashed <=> ~IsIrq(vec) /\ vec # Spurious)
  BY DEF EntryInv
<1> QED  BY <1>1, <1>2 DEF EntryInv

\* A fault of the report is an exception like any other.
LEMMA NestedStep ==
  ASSUME EntryInv, Nested PROVE EntryInv'
<1>1. PageFault \in 0..255 /\ PageFault \in Raised /\ ~IsIrq(PageFault) /\ PageFault # Spurious
  BY DEF PageFault, IsIrq, Spurious, Raised
<1> QED  BY <1>1, EnterStep DEF Nested

\* The report keeps the invariant; a fault in it enters the page-fault stub.
LEMMA ReportStep ==
  ASSUME EntryInv,
         DumpRegisters \/ HandleErrCode \/ DumpAtAddr \/ Backtrace \/ DumpWindow \/ Halt \/ Runaway
  PROVE  EntryInv'
<1>1. mode = "report" /\ crashed /\ cpu \in CpuStates
  BY DEF EntryInv, DumpRegisters, HandleErrCode, DumpAtAddr, Backtrace, DumpWindow, Halt, Runaway
<1>2. ASSUME mode' \in {mode, "halted"}, UNCHANGED <<vec, cpu, saved, crashed>> PROVE EntryInv'
  BY <1>1, <1>2, StayStep
<1>3. ASSUME NEW s, NEW p, search_repr(s, p) PROVE mode' \in {mode, "halted"}
  BY <1>3, Zenon DEF search_repr
<1>4. CASE DumpRegisters
  BY <1>2, <1>4, NestedStep DEF DumpRegisters
<1>5. CASE HandleErrCode
  BY <1>2, <1>5 DEF HandleErrCode
<1>6. CASE DumpAtAddr
  BY <1>2, <1>3, <1>6, Zenon DEF DumpAtAddr
<1>7. CASE Backtrace
  BY <1>2, <1>3, <1>7, NestedStep, Zenon DEF Backtrace, FrameNamed
<1>8. CASE DumpWindow
  BY <1>2, <1>3, <1>8, Zenon DEF DumpWindow
<1>9. CASE Halt \/ Runaway
  BY <1>2, <1>9, NestedStep, Zenon DEF Halt, Runaway
<1> QED  BY <1>4, <1>5, <1>6, <1>7, <1>8, <1>9

\* A stub's own instructions lead from one of its states to the next.
LEMMA InstructionInv ==
  ASSUME EntryInv, Instruction PROVE EntryInv'
<1>1. /\ mode = "stub" /\ mode' = mode /\ UNCHANGED <<vec, saved, crashed>>
      /\ Head(code).op # "call" /\ Head(code).op # "iretq"
      /\ cpu' = Exec(Head(code), cpu) /\ code' = Tail(code)
  BY DEF Instruction
<1>2. vec \in 0..255 /\ saved \in [GP -> Words] /\ StubState(vec, saved, code, cpu)
  BY <1>1 DEF EntryInv
<1>3. StubState(vec, saved, Tail(code), Exec(Head(code), cpu))
  BY <1>1, <1>2, InstructionStep, Zenon
<1>4. StubState(vec, saved, code', cpu')
  BY <1>1, <1>3
<1>5. cpu' \in CpuStates
  BY <1>4 DEF StubState, IrqState, IsrState
<1> QED  BY <1>1, <1>4, <1>5, StayStep

\* irq_handler, and isr_handler for a spurious interrupt, return into the stub.
LEMMA CallReturnsInv ==
  ASSUME EntryInv, CallReturns PROVE EntryInv'
<1>1. /\ mode = "stub" /\ mode' = mode /\ UNCHANGED <<vec, saved, crashed>>
      /\ Head(code).op = "call" /\ (Head(code).arg = "irq_handler" \/ vec = Spurious)
      /\ cpu' = [cpu EXCEPT !.regs = Called(@)] /\ code' = Tail(code)
  BY DEF CallReturns
<1>2. vec \in 0..255 /\ saved \in [GP -> Words] /\ StubState(vec, saved, code, cpu)
  BY <1>1 DEF EntryInv
<1>3. IsIrq(vec) \/ vec = Spurious
  <2>1. ~IsIrq(vec) => Head(code).arg = "isr_handler"
    BY <1>1, <1>2, AtCall, Zenon
  <2>2. "isr_handler" # "irq_handler"
    OBVIOUS
  <2> QED  BY <1>1, <2>1, <2>2
<1>4. StubState(vec, saved, Tail(code), cpu')
  BY <1>1, <1>2, <1>3, CallStep, Zenon
<1>5. StubState(vec, saved, code', cpu')
  BY <1>1, <1>4
<1>6. cpu' \in CpuStates
  BY <1>5 DEF StubState, IrqState, IsrState
<1> QED  BY <1>1, <1>5, <1>6, StayStep

\* isr_handler reports what is an exception.
LEMMA CallReportsInv ==
  ASSUME EntryInv, NEW a, CallReports(a) PROVE EntryInv'
<1>1. /\ mode = "stub" /\ mode' = "report" /\ UNCHANGED <<vec, saved, crashed>>
      /\ Head(code).op = "call" /\ Head(code).arg = "isr_handler" /\ vec # Spurious
      /\ cpu' = [cpu EXCEPT !.regs = Called(@)]
  BY DEF CallReports
<1>2. /\ vec \in 0..255 /\ StubState(vec, saved, code, cpu) /\ cpu \in CpuStates
      /\ crashed <=> ~IsIrq(vec) /\ vec # Spurious
  BY <1>1 DEF EntryInv
<1>3. ~IsIrq(vec)
  <2>1. IsIrq(vec) => Head(code).arg = "irq_handler"
    BY <1>1, <1>2, AtCall, Zenon
  <2>2. "isr_handler" # "irq_handler"
    OBVIOUS
  <2> QED  BY <1>1, <2>1, <2>2
<1>4. cpu' \in CpuStates
  BY <1>1, <1>2, CalledStates
<1> QED  BY <1>1, <1>2, <1>3, <1>4, StayStep

\* Only what is not an exception returns to the program.
LEMMA ReturnInv ==
  ASSUME EntryInv, Return PROVE EntryInv'
<1>1. /\ mode = "stub" /\ mode' = "program" /\ Head(code).op = "iretq"
      /\ vec' = vec /\ saved' = saved /\ crashed' = crashed /\ cpu' = cpu
  BY DEF Return
<1>2. /\ vec \in 0..255 /\ StubState(vec, saved, code, cpu) /\ cpu \in CpuStates
      /\ crashed <=> ~IsIrq(vec) /\ vec # Spurious
  BY <1>1 DEF EntryInv
<1>3. IsIrq(vec) \/ vec = Spurious
  BY <1>1, <1>2, AtIretq
<1>4. ~crashed'
  BY <1>1, <1>2, <1>3
<1> QED  BY <1>1, <1>2, <1>4 DEF EntryInv

\* The program starts with no interrupt behind it.
LEMMA EntryInitially ==
  ASSUME Init PROVE EntryInv
<1>1. \A r \in GP : Reg(r) \in Words
  BY WordsOf, Zenon DEF Names
<1>2. [r \in GP |-> Reg(r)] \in [GP -> Words]
  BY <1>1
<1>3. <<>> \in Seq(Words)
  OBVIOUS
<1>4. cpu \in CpuStates /\ saved \in [GP -> Words]
  BY <1>2, <1>3 DEF Init, CpuStates
<1> QED  BY <1>4 DEF Init, EntryInv

\* Every step keeps the invariant.
LEMMA EntryStep ==
  ASSUME EntryInv, [Next]_vars PROVE EntryInv'
<1>1. ASSUME NEW v \in Vectors, Raise(v) PROVE EntryInv'
  <2>1. v \in 0..255 /\ v \in Raised
    BY ExceptionsAssumption DEF Raised
  <2> QED  BY <1>1, <2>1, EnterStep DEF Raise
<1>2. CASE Nmi
  <2>1. NMI \in 0..255 /\ NMI \in Raised /\ ~IsIrq(NMI) /\ NMI # Spurious
    BY DEF NMI, IsIrq, Spurious, Raised
  <2> QED  BY <1>2, <2>1, EnterStep DEF Nmi
<1>3. CASE Handler
  BY <1>3, InstructionInv, ReturnInv, CallReturnsInv, CallReportsInv, ReportStep DEF Handler
<1>4. CASE Runaway
  BY <1>4, ReportStep
<1>5. CASE UNCHANGED vars
  BY <1>5 DEF vars, EntryInv
<1> QED  BY <1>1, <1>2, <1>3, <1>4, <1>5 DEF Next

\* While a stub runs, its code, stack and registers are in one of its states.
LEMMA EntryInvariant == Spec => []EntryInv
<1>1. Init => EntryInv
  BY EntryInitially
<1>2. EntryInv /\ [Next]_vars => EntryInv'
  BY EntryStep
<1> QED  BY <1>1, <1>2, PTL DEF Spec

-----------------------------------------------------------------------------
(* What the handlers find in their frames. *)

\* A field is where its name is in the layout.
LEMMA FieldAt ==
  ASSUME NEW st, NEW layout, NEW l \in Nat, Len(layout) = l, NEW k \in 1..l,
         \A j \in 1..l : layout[j] = layout[k] => j = k, NEW f, layout[k] = f
  PROVE  Field(st, layout, f) = st[Len(st) + 1 - k]
<1>1. (CHOOSE i \in 1..Len(layout) : layout[i] = f) = k
  OBVIOUS
<1> QED  BY <1>1 DEF Field

\* struct isr_frame: the fields, and what pusha left in them.
LEMMA IsrLayout ==
  /\ Len(isr_frame) = 31 /\ \A i, j \in 1..31 : isr_frame[i] = isr_frame[j] => i = j
  /\ \A j \in 1..16 : isr_frame[30 - j] = Saved[j]
  /\ \A f \in {"cr0", "cr2", "cr3", "cr4", "cr8", "cs", "ss"} :
       \E j \in 2..12 : isr_frame[14 - j] = f /\ Copied[j] = f
  /\ isr_frame[1] = "return_address" /\ isr_frame[13] = "rip"
  /\ isr_frame[30] = "int_num" /\ isr_frame[31] = "error_code"
<1>1. Len(isr_frame) = 31
  BY DEF isr_frame
<1>2. \A i, j \in 1..31 : isr_frame[i] = isr_frame[j] => i = j
  BY SMTT(60) DEF isr_frame
<1>3. \A j \in 1..16 : isr_frame[30 - j] = Saved[j]
  BY DEF isr_frame, Saved
<1>4. \A f \in {"cr0", "cr2", "cr3", "cr4", "cr8", "cs", "ss"} :
        \E j \in 2..12 : isr_frame[14 - j] = f /\ Copied[j] = f
  <2>1. /\ Copied[2] = "cr8" /\ Copied[3] = "cr4" /\ Copied[4] = "cr3" /\ Copied[5] = "cr2"
        /\ Copied[6] = "cr0" /\ Copied[7] = "ss" /\ Copied[8] = "cs"
    BY DEF Copied
  <2>2. /\ isr_frame[12] = "cr8" /\ isr_frame[11] = "cr4" /\ isr_frame[10] = "cr3"
        /\ isr_frame[9] = "cr2" /\ isr_frame[8] = "cr0" /\ isr_frame[7] = "ss"
        /\ isr_frame[6] = "cs"
    BY DEF isr_frame
  <2>3. /\ 14 - 2 = 12 /\ 14 - 3 = 11 /\ 14 - 4 = 10 /\ 14 - 5 = 9 /\ 14 - 6 = 8 /\ 14 - 7 = 7
        /\ 14 - 8 = 6 /\ 2 \in 2..12 /\ 3 \in 2..12 /\ 4 \in 2..12 /\ 5 \in 2..12
        /\ 6 \in 2..12 /\ 7 \in 2..12 /\ 8 \in 2..12
    OBVIOUS
  <2> QED  BY <2>1, <2>2, <2>3
<1>5. /\ isr_frame[1] = "return_address" /\ isr_frame[13] = "rip"
      /\ isr_frame[30] = "int_num" /\ isr_frame[31] = "error_code"
  BY DEF isr_frame
<1> QED  BY <1>1, <1>2, <1>3, <1>4, <1>5, Zenon

\* struct irq_frame: the pushed registers in reverse, the line, the words of the CPU.
LEMMA IrqLayout ==
  /\ Len(irq_frame) = 21 /\ \A i, j \in 1..21 : irq_frame[i] = irq_frame[j] => i = j
  /\ \A j \in 1..15 : irq_frame[16 - j] = SavedIrq[j]
  /\ irq_frame[16] = "error"
  /\ \A k \in 1..5 : irq_frame[16 + k] = CpuFrame[k]
<1> DEFINE a == <<"r15", "r14", "r13", "r12", "r11", "r10", "r9", "r8", "rbp", "rsi", "rdi",
                  "rdx", "rcx", "rbx", "rax", "error">>
           b == CpuFrame
           N == Names \cup {"error"}
<1>1. Len(a) = 16 /\ \A i, j \in 1..16 : a[i] = a[j] => i = j
  OBVIOUS
<1>2. \A j \in 1..15 : a[16 - j] = SavedIrq[j]
  BY DEF SavedIrq
<1>3. a[16] = "error" /\ DOMAIN a = 1..16
  OBVIOUS
<1>4. a \in Seq(N)
  <2>1. \A i \in 1..15 : a[i] = SavedIrq[16 - i] /\ 16 - i \in 1..15
    BY <1>2
  <2>2. \A i \in 1..16 : a[i] \in N
    <3> HIDE DEF a
    <3>1. \A i \in 1..16 : i \in 1..15 \/ i = 16
      OBVIOUS
    <3>2. \A i \in 1..15 : a[i] \in N
      BY <2>1, Lists
    <3>3. a[16] \in N
      BY <1>3
    <3> QED  BY <3>1, <3>2, <3>3
  <2>3. a = [i \in 1..16 |-> a[i]]
    OBVIOUS
  <2> HIDE DEF a
  <2> QED  BY <2>2, <2>3
<1>5. Len(b) = 5 /\ b = [i \in 1..5 |-> b[i]]
  BY DEF CpuFrame
<1>6. b[1] = "rip" /\ b[2] = "cs" /\ b[3] = "rflags" /\ b[4] = "rsp" /\ b[5] = "ss"
  BY DEF CpuFrame
<1>7. \A i \in 1..5 : b[i] \in {"rip", "cs", "rflags", "rsp", "ss"}
  BY <1>6
<1>8. \A i, j \in 1..5 : b[i] = b[j] => i = j
  BY DEF CpuFrame
<1>9. \A i \in 1..16 : a[i] \notin {"rip", "cs", "rflags", "rsp", "ss"}
  OBVIOUS
<1> HIDE DEF a, b
<1>10. b \in Seq(N)
  <2>1. {"rip", "cs", "rflags", "rsp", "ss"} \subseteq N
    BY DEF Names
  <2> HIDE DEF N
  <2>2. \A i \in 1..5 : b[i] \in N
    BY <1>7, <2>1
  <2> QED  BY <1>5, <2>2
<1>11. irq_frame = a \o b
  BY DEF irq_frame, a, b
<1>12. /\ Len(irq_frame) = 21
       /\ \A i \in 1..16 : irq_frame[i] = a[i]
       /\ \A k \in 1..5 : irq_frame[16 + k] = b[k]
  <2> HIDE DEF N
  <2>1. /\ Len(a \o b) = Len(a) + Len(b)
        /\ \A i \in 1..Len(a) + Len(b) :
             (a \o b)[i] = IF i <= Len(a) THEN a[i] ELSE b[i - Len(a)]
    BY <1>4, <1>10, ConcatProperties
  <2>2. Len(a) + Len(b) = 21 /\ Len(a) = 16
    BY <1>1, <1>5
  <2>3. \A i \in 1..21 : irq_frame[i] = IF i <= 16 THEN a[i] ELSE b[i - 16]
    BY <1>11, <2>1, <2>2
  <2>4. Len(irq_frame) = 21
    BY <1>11, <2>1, <2>2
  <2>5. \A k \in 1..5 : 16 + k \in 1..21 /\ ~(16 + k <= 16) /\ (16 + k) - 16 = k
    OBVIOUS
  <2>6. \A i \in 1..16 : i \in 1..21 /\ i <= 16
    OBVIOUS
  <2> QED  BY <2>3, <2>4, <2>5, <2>6
<1>13. ASSUME NEW i \in 1..21, NEW j \in 1..21, irq_frame[i] = irq_frame[j] PROVE i = j
  <2>1. \A k \in 1..21 : k \in 1..16 \/ (k - 16 \in 1..5 /\ 16 + (k - 16) = k)
    OBVIOUS
  <2>2. \A k \in 1..21 : irq_frame[k] \in {"rip", "cs", "rflags", "rsp", "ss"} <=> k \notin 1..16
    BY <1>7, <1>9, <1>12, <2>1
  <2>3. CASE i \in 1..16
    BY <1>1, <1>12, <1>13, <2>2, <2>3
  <2>4. CASE i \notin 1..16
    <3>1. j \notin 1..16
      BY <1>13, <2>2, <2>4
    <3>2. b[i - 16] = b[j - 16] /\ i - 16 \in 1..5 /\ j - 16 \in 1..5
      BY <1>12, <1>13, <2>1, <2>4, <3>1
    <3>3. i - 16 = j - 16
      BY <1>8, <3>2
    <3> QED  BY <3>3
  <2> QED  BY <2>3, <2>4
<1>14. \A j \in 1..15 : irq_frame[16 - j] = SavedIrq[j]
  <2>1. \A j \in 1..15 : 16 - j \in 1..16
    OBVIOUS
  <2>2. \A j \in 1..15 : irq_frame[16 - j] = a[16 - j]
    BY <1>12, <2>1
  <2> QED  BY <1>2, <2>2
<1> QED  BY <1>3, <1>12, <1>13, <1>14 DEF b

\* What the two properties ask of a stack.
IrqFrameOf(st, layout, v, sv) ==
  /\ \A r \in GP : Field(st, layout, r) = sv[r]
  /\ Field(st, layout, "error") = Num(v - 32)
  /\ \A f \in Range(CpuFrame) : Field(st, layout, f) = Reg(f)
IsrFrameOf(st, layout, v, sv) ==
  /\ \A r \in GP : Field(st, layout, r) = sv[r]
  /\ Field(st, layout, "return_address") = Reg("rip")
  /\ Field(st, layout, "int_num") = Num(v)
  /\ Field(st, layout, "error_code") = IF CpuPushesCode(v) THEN Num(100) ELSE Num(0)
  /\ Field(st, layout, "rip") = Reg("stub rip")
  /\ \A f \in {"cr0", "cr2", "cr3", "cr4", "cr8", "cs", "ss"} : Field(st, layout, f) = Reg(f)
  /\ Field(st, layout, "rsp")[1] = "sp"

\* The frame of irq_handler.
LEMMA IrqFrameFaithful ==
  ASSUME NEW v \in 0..255, NEW sv, NEW cd, NEW s, IrqState(v, sv, cd, s, 16)
  PROVE  IrqFrameOf(s.stack, irq_frame, v, sv)
<1> DEFINE st == s.stack
<1>1. Len(st) = 21 /\ \A i \in 1..21 : st[i] = IrqWord(v, sv, i)
  <2>1. Holds(st, IrqStack(v, sv), 21)
    BY DEF IrqState
  <2> QED  BY <2>1 DEF Holds, IrqStack
<1> HIDE DEF st
<1>2. ASSUME NEW k \in 1..21, NEW f, irq_frame[k] = f
      PROVE  Field(st, irq_frame, f) = IrqWord(v, sv, 22 - k)
  <2>1. \A j \in 1..21 : irq_frame[j] = irq_frame[k] => j = k
    BY IrqLayout
  <2>2. 21 \in Nat /\ Len(irq_frame) = 21
    BY IrqLayout
  <2>3. Field(st, irq_frame, f) = st[Len(st) + 1 - k]
    BY <1>2, <2>1, <2>2, FieldAt, ZenonT(30)
  <2>4. Len(st) + 1 - k = 22 - k /\ 22 - k \in 1..21
    BY <1>1
  <2> QED  BY <1>1, <2>3, <2>4
<1>3. ASSUME NEW r \in GP PROVE Field(st, irq_frame, r) = sv[r]
  <2>1. PICK j \in 1..15 : SavedIrq[j] = r
    BY SavedIrqRegs
  <2>2. 16 - j \in 1..21 /\ irq_frame[16 - j] = r
    BY <2>1, IrqLayout
  <2>3. 22 - (16 - j) = 6 + j /\ 6 + j \in 7..21 /\ (6 + j) - 6 = j
    OBVIOUS
  <2>4. IrqWord(v, sv, 6 + j) = sv[r]
    BY <2>1, <2>3 DEF IrqWord
  <2> QED  BY <1>2, <2>2, <2>3, <2>4
<1>4. Field(st, irq_frame, "error") = Num(v - 32)
  <2>1. 16 \in 1..21 /\ irq_frame[16] = "error" /\ 22 - 16 = 6
    BY IrqLayout
  <2>2. IrqWord(v, sv, 6) = Num(v - 32)
    BY DEF IrqWord
  <2> QED  BY <1>2, <2>1, <2>2
<1>5. ASSUME NEW f \in Range(CpuFrame) PROVE Field(st, irq_frame, f) = Reg(f)
  <2>1. PICK k \in 1..5 : CpuFrame[k] = f
    <3>1. DOMAIN CpuFrame = 1..5
      BY DEF CpuFrame
    <3> QED  BY <3>1 DEF Range
  <2>2. 16 + k \in 1..21 /\ irq_frame[16 + k] = f
    BY <2>1, IrqLayout
  <2>3. 22 - (16 + k) = 6 - k /\ 6 - k \in 1..5
    OBVIOUS
  <2>4. Pushed[6 - k] = CpuFrame[k]
    BY DEF Pushed, CpuFrame
  <2>5. IrqWord(v, sv, 6 - k) = Reg(f)
    BY <2>1, <2>3, <2>4 DEF IrqWord
  <2> QED  BY <1>2, <2>2, <2>3, <2>5
<1> QED  BY <1>3, <1>4, <1>5 DEF st, IrqFrameOf

\* The frame of isr_handler.
LEMMA IsrFrameFaithful ==
  ASSUME NEW v \in 0..255, NEW sv, NEW cd, NEW s, IsrState(v, sv, cd, s, 31)
  PROVE  IsrFrameOf(s.stack, isr_frame, v, sv)
<1> DEFINE st == s.stack
<1>1. Len(st) = 36 /\ \A i \in 1..36 : st[i] = IsrWord(v, sv, i)
  <2>1. Holds(st, IsrStack(v, sv), 36)
    BY DEF IsrState
  <2> QED  BY <2>1 DEF Holds, IsrStack
<1> HIDE DEF st
<1>0. Len(isr_frame) = 31 /\ \A i, j \in 1..31 : isr_frame[i] = isr_frame[j] => i = j
  BY IsrLayout, Zenon
<1>2. ASSUME NEW k \in 1..31, NEW f, isr_frame[k] = f
      PROVE  Field(st, isr_frame, f) = IsrWord(v, sv, 37 - k)
  <2>1. \A j \in 1..31 : isr_frame[j] = isr_frame[k] => j = k
    BY <1>0
  <2>2. 31 \in Nat /\ Len(isr_frame) = 31
    BY <1>0
  <2>3. Field(st, isr_frame, f) = st[Len(st) + 1 - k]
    BY <1>2, <2>1, <2>2, FieldAt, ZenonT(30)
  <2>4. Len(st) + 1 - k = 37 - k /\ 37 - k \in 1..36
    BY <1>1
  <2> QED  BY <1>1, <2>3, <2>4
<1>3. ASSUME NEW j \in 1..16
      PROVE  Field(st, isr_frame, Saved[j]) = IF j = 10 THEN <<"sp", 16>> ELSE sv[Saved[j]]
  <2>1. 30 - j \in 1..31
    OBVIOUS
  <2>4. isr_frame[30 - j] = Saved[j]
    BY IsrLayout, Zenon
  <2>2. 37 - (30 - j) = 7 + j /\ 7 + j \in 8..23 /\ (7 + j) - 7 = j /\ (7 + j = 17 <=> j = 10)
    OBVIOUS
  <2>3. IsrWord(v, sv, 7 + j) = IF j = 10 THEN <<"sp", 16>> ELSE sv[Saved[j]]
    BY <2>2 DEF IsrWord
  <2> QED  BY <1>2, <2>1, <2>2, <2>3, <2>4
<1>4. ASSUME NEW r \in GP PROVE Field(st, isr_frame, r) = sv[r]
  <2>1. PICK j \in 1..16 : j # 10 /\ Saved[j] = r
    BY SavedRegs
  <2> QED  BY <1>3, <2>1
<1>5. Field(st, isr_frame, "rsp")[1] = "sp"
  <2>1. Saved[10] = "rsp" /\ 10 \in 1..16
    BY SavedRegs
  <2>2. Field(st, isr_frame, "rsp") = <<"sp", 16>>
    BY <1>3, <2>1
  <2> QED  BY <2>2
<1>6. ASSUME NEW f \in {"cr0", "cr2", "cr3", "cr4", "cr8", "cs", "ss"}
      PROVE  Field(st, isr_frame, f) = Reg(f)
  <2>1. PICK j \in 2..12 : isr_frame[14 - j] = f /\ Copied[j] = f
    BY IsrLayout
  <2>2. 14 - j \in 1..31 /\ 37 - (14 - j) = 23 + j /\ 23 + j \in 24..35 /\ (23 + j) - 23 = j
    OBVIOUS
  <2>3. IsrWord(v, sv, 23 + j) = Reg(f)
    BY <2>1, <2>2 DEF IsrWord
  <2> QED  BY <1>2, <2>1, <2>2, <2>3
<1>7. /\ IsrWord(v, sv, 36) = Reg("rip") /\ IsrWord(v, sv, 24) = Reg("stub rip")
      /\ IsrWord(v, sv, 7) = Num(v)
      /\ IsrWord(v, sv, 6) = IF CpuPushesCode(v) THEN Num(100) ELSE Num(0)
  <2>1. Copied[1] = "stub rip"
    BY DEF Copied
  <2>2. IsrWord(v, sv, 36) = Reg("rip")
    BY DEF IsrWord
  <2>3. IsrWord(v, sv, 24) = Reg("stub rip")
    <3>1. IsrWord(v, sv, 24) = Reg(Copied[24 - 23])
      BY DEF IsrWord
    <3>2. 24 - 23 = 1
      OBVIOUS
    <3> QED  BY <2>1, <3>1, <3>2, Zenon
  <2>4. IsrWord(v, sv, 7) = Num(v)
    BY DEF IsrWord
  <2>5. IsrWord(v, sv, 6) = IF CpuPushesCode(v) THEN Num(100) ELSE Num(0)
    BY DEF IsrWord
  <2> QED  BY <2>2, <2>3, <2>4, <2>5, Zenon
<1>8. /\ isr_frame[1] = "return_address" /\ isr_frame[13] = "rip"
      /\ isr_frame[30] = "int_num" /\ isr_frame[31] = "error_code"
  BY IsrLayout
<1>9. /\ 1 \in 1..31 /\ 13 \in 1..31 /\ 30 \in 1..31 /\ 31 \in 1..31
      /\ 37 - 1 = 36 /\ 37 - 13 = 24 /\ 37 - 30 = 7 /\ 37 - 31 = 6
  OBVIOUS
<1>10. /\ Field(st, isr_frame, "return_address") = Reg("rip")
       /\ Field(st, isr_frame, "rip") = Reg("stub rip")
       /\ Field(st, isr_frame, "int_num") = Num(v)
       /\ Field(st, isr_frame, "error_code") = IF CpuPushesCode(v) THEN Num(100) ELSE Num(0)
  <2>1. Field(st, isr_frame, "return_address") = IsrWord(v, sv, 36)
    BY <1>2, <1>8, <1>9
  <2>2. Field(st, isr_frame, "rip") = IsrWord(v, sv, 24)
    BY <1>2, <1>8, <1>9
  <2>3. Field(st, isr_frame, "int_num") = IsrWord(v, sv, 7)
    BY <1>2, <1>8, <1>9
  <2>4. Field(st, isr_frame, "error_code") = IsrWord(v, sv, 6)
    BY <1>2, <1>8, <1>9
  <2> QED  BY <1>7, <2>1, <2>2, <2>3, <2>4, Zenon
<1> QED  BY <1>4, <1>5, <1>6, <1>10, ZenonT(30) DEF st, IsrFrameOf

\* When a stub calls isr_handler the words at rdi are a struct isr_frame of the
\* interruption, and when one calls irq_handler a struct irq_frame: for every
\* vector, with every register in its field.
THEOREM FrameCorrect == Spec => []FrameFaithful
<1>1. EntryInv => FrameFaithful
  <2> SUFFICES ASSUME EntryInv, mode = "stub", code # <<>>, Head(code).op = "call"
               PROVE  FrameFaithful
    BY Zenon DEF FrameFaithful
  <2> DEFINE layout == IF Head(code).arg = "irq_handler" THEN irq_frame ELSE isr_frame
  <2>1. vec \in 0..255 /\ StubState(vec, saved, code, cpu)
    BY DEF EntryInv
  <2>2. CASE IsIrq(vec)
    <3>1. IrqState(vec, saved, code, cpu, 16) /\ Head(code).arg = "irq_handler"
      BY <2>1, <2>2, AtCall, Zenon
    <3>2. layout = irq_frame
      BY <3>1
    <3>3. IrqFrameOf(cpu.stack, layout, vec, saved)
      <4>1. IrqFrameOf(cpu.stack, irq_frame, vec, saved)
        BY <2>1, <3>1, IrqFrameFaithful, ZenonT(30)
      <4> QED  BY <3>2, <4>1
    <3>4. FrameFaithful
      BY <3>1, <3>3, ZenonT(30) DEF FrameFaithful, IrqFrameOf
    <3> QED  BY <3>4
  <2>3. CASE ~IsIrq(vec)
    <3>1. IsrState(vec, saved, code, cpu, 31) /\ Head(code).arg = "isr_handler"
      BY <2>1, <2>3, AtCall, Zenon
    <3>2. layout = isr_frame /\ Head(code).arg # "irq_handler"
      BY <3>1
    <3>3. IsrFrameOf(cpu.stack, layout, vec, saved)
      <4>1. IsrFrameOf(cpu.stack, isr_frame, vec, saved)
        BY <2>1, <3>1, IsrFrameFaithful, ZenonT(30)
      <4> QED  BY <3>2, <4>1
    <3>4. FrameFaithful
      BY <3>2, <3>3, ZenonT(30) DEF FrameFaithful, IsrFrameOf
    <3> QED  BY <3>4
  <2> QED  BY <2>2, <2>3
<1> QED  BY <1>1, EntryInvariant, PTL

\* An interrupt is invisible to the program it interrupts: at iretq the stack is
\* what the CPU pushed and every register is as it was, but for r15 after a
\* spurious interrupt.
THEOREM ReturnCorrect == Spec => []ReturnRestores
<1>1. EntryInv => ReturnRestores
  <2> SUFFICES ASSUME EntryInv, mode = "stub", code # <<>>, Head(code).op = "iretq"
               PROVE  /\ cpu.stack = Backwards(Each(Reg, CpuFrame))
                      /\ \A r \in GP : cpu.regs[r] =
                           IF r = "r15" /\ vec = Spurious THEN Num(0) ELSE saved[r]
    BY DEF ReturnRestores
  <2> DEFINE p == Backwards(Each(Reg, CpuFrame))
             st == cpu.stack
  <2>1. vec \in 0..255 /\ StubState(vec, saved, code, cpu)
    BY DEF EntryInv
  <2>2. p \in Seq(Words) /\ Len(p) = 5 /\ \A i \in 1..5 : p[i] = Reg(Pushed[i])
    BY FiveWords, Zenon
  <2>3. ASSUME st \in Seq(Words), Len(st) = 5, \A i \in 1..5 : st[i] = Reg(Pushed[i])
        PROVE  st = p
    <3> HIDE DEF p, st
    <3> QED  BY <2>2, <2>3, SeqEqual
  <2>4. CASE IsIrq(vec)
    <3>1. IrqState(vec, saved, code, cpu, 33)
      BY <2>1, <2>4, AtIretq
    <3>2. Holds(st, IrqStack(vec, saved), 5) /\ IrqRegs(cpu.regs, saved, 33)
      BY <3>1 DEF IrqState
    <3>3. \A i \in 1..5 : IrqStack(vec, saved)[i] = Reg(Pushed[i])
      BY BaseWords
    <3>4. st = p
      BY <2>3, <3>2, <3>3, ZenonT(30) DEF Holds
    <3>5. \A j \in 1..15 : cpu.regs[SavedIrq[j]] = saved[SavedIrq[j]]
      BY <3>2 DEF IrqRegs
    <3>6. \A r \in GP : cpu.regs[r] = saved[r]
      <4>1. ASSUME NEW r \in GP PROVE cpu.regs[r] = saved[r]
        <5>1. PICK j \in 1..15 : SavedIrq[j] = r
          BY SavedIrqRegs
        <5> QED  BY <3>5, <5>1
      <4> QED  BY <4>1
    <3>7. vec # Spurious
      BY <2>4 DEF IsIrq, Spurious
    <3> QED  BY <3>4, <3>6, <3>7
  <2>5. CASE ~IsIrq(vec)
    <3>1. vec = Spurious /\ IsrState(vec, saved, code, cpu, 63)
      BY <2>1, <2>5, AtIretq
    <3>2. Holds(st, IsrStack(vec, saved), 5) /\ IsrRegs(cpu.regs, saved, 63)
      BY <3>1 DEF IsrState
    <3>3. \A i \in 1..5 : IsrStack(vec, saved)[i] = Reg(Pushed[i])
      BY BaseWords
    <3>4. st = p
      BY <2>3, <3>2, <3>3, ZenonT(30) DEF Holds
    <3>5. /\ \A j \in 2..16 : j # 10 => cpu.regs[Saved[j]] = saved[Saved[j]]
          /\ cpu.regs["r15"] = Num(0)
      BY <3>2 DEF IsrRegs
    <3>6. Saved[1] = "r15"
      BY DEF Saved
    <3>7. \A r \in GP : r # "r15" => cpu.regs[r] = saved[r]
      <4>1. ASSUME NEW r \in GP, r # "r15" PROVE cpu.regs[r] = saved[r]
        <5>1. PICK j \in 1..16 : j # 10 /\ Saved[j] = r
          BY SavedRegs
        <5>2. j \in 2..16
          BY <3>6, <4>1, <5>1
        <5> QED  BY <3>5, <5>1, <5>2
      <4> QED  BY <4>1
    <3> QED  BY <3>1, <3>4, <3>5, <3>7
  <2> QED  BY <2>4, <2>5
<1> QED  BY <1>1, EntryInvariant, PTL

\* After an exception the interrupted program never runs again, whatever NMIs and
\* faults of the report come later.
THEOREM CrashFinal == Spec => []CrashIsFinal
<1>1. EntryInv => CrashIsFinal
  BY DEF EntryInv, CrashIsFinal
<1> QED  BY <1>1, EntryInvariant, PTL

-----------------------------------------------------------------------------
(* Why a handler comes to its end: each has a number of steps left that      *)
(* falls with every step, unless the report itself faults; and only the      *)
(* demangler and a heap without frames cut it short.                         *)

Parts == {"registers", "errcode", "dump", "backtrace", "window", "halt", "stuck"}

\* The steps a handler has left at most: the rest of its stub, and the report.
StepsLeft ==
  IF mode = "stub" THEN MaxFrames + 7 + Len(code)
  ELSE IF mode # "report" \/ part = "stuck" THEN 0
  ELSE IF part = "registers" THEN MaxFrames + 6
  ELSE IF part = "errcode" THEN MaxFrames + 5
  ELSE IF part = "dump" THEN MaxFrames + 4
  ELSE IF part = "backtrace" THEN MaxFrames + 3 - report.frames
  ELSE IF part = "window" THEN 2
  ELSE 1

\* A report is in one of its parts, and counts no more frames than it shows.
PartsInv ==
  /\ DOMAIN report = {"rip", "at", "symbol", "frames"}
  /\ mode = "report" => part \in Parts /\ report.frames \in 0..MaxFrames
  /\ mode = "stub" => part = "none"

\* The two places where the report can fault: the message of a vector that has none,
\* and an rbp chain into memory that is not mapped.
Faults ==
  /\ Nested
  /\ \/ part = "registers" /\ vec >= Messages
     \/ part = "backtrace" /\ chain = "wild"

\* A step that cuts the report short does so for one of two reasons: the demangler
\* stays at a name of the symbol table, or kmalloc finds no frames.
CutsWithReason ==
  /\ part' = "stuck" => \E k \in DOMAIN table : Stays(table[k].name) # {}
  /\ part' = "no memory" => heap = "low"

\* What naming a symbol of the table leads to.
LEMMA SearchReprEnds ==
  ASSUME NEW k \in DOMAIN table, NEW p \in Parts \ {"stuck"}, search_repr(table[k], p)
  PROVE  /\ \/ mode' = mode /\ part' \in {p, "stuck"}
            \/ mode' = "halted" /\ part' = "no memory"
         /\ CutsWithReason
<1>1. "stuck" \in demangle_alloc_symbol(table[k].name) => Stays(table[k].name) # {}
  BY DEF demangle_alloc_symbol
<1>2. p # "stuck" /\ p # "no memory"
  BY Zenon DEF Parts
<1> QED  BY <1>1, <1>2, Zenon DEF search_repr, CutsWithReason

LEMMA PartsInitially == Init => PartsInv
BY DEF Init, PartsInv, NoReport

\* Whoever enters a handler leaves the report for a new one.
LEMMA PartsEntered ==
  ASSUME NEW v, Enter(v) PROVE PartsInv'
<1>1. mode' = "stub" /\ report' = NoReport /\ part' = "none"
  BY DEF Enter
<1> QED  BY <1>1 DEF PartsInv, NoReport

\* The parts follow each other, and a turn of backtrace counts one frame.
LEMMA PartsStep == PartsInv /\ [Next]_vars => PartsInv'
<1> SUFFICES ASSUME PartsInv, [Next]_vars PROVE PartsInv'
  OBVIOUS
<1> USE ExceptionsAssumption
<1>1. ASSUME report' = report,
             \/ mode' \in {"program", "halted"} \/ (mode' = "report" /\ mode = mode' /\ part' \in Parts)
             \/ mode' = "stub" /\ mode = mode' /\ part' = part
      PROVE  PartsInv'
  BY <1>1 DEF PartsInv
<1>2. CASE \/ \E v \in Vectors : Raise(v)
           \/ Nmi \/ Nested \/ Runaway
  BY <1>2, PartsEntered DEF Raise, Nmi, Nested, Runaway
<1>3. CASE Instruction \/ Return \/ CallReturns \/ Halt
  BY <1>1, <1>3 DEF Instruction, Return, CallReturns, Halt
<1>4. ASSUME NEW a \in Addresses, CallReports(a) PROVE PartsInv'
  <2>1. /\ report' = [rip |-> find_rip(a), at |-> a, symbol |-> 0, frames |-> 0]
        /\ part' = "registers"
    BY <1>4, ZenonT(30) DEF CallReports, NoReport
  <2>2. mode' = "report"
    BY <1>4, Zenon DEF CallReports
  <2> QED  BY <2>1, <2>2 DEF PartsInv, Parts
<1>5. CASE DumpRegisters \/ HandleErrCode
  BY <1>1, <1>2, <1>5 DEF DumpRegisters, HandleErrCode, Parts
<1>6. CASE DumpAtAddr
  <2>1. /\ mode = "report" /\ "backtrace" \in Parts \ {"stuck"}
        /\ report' = [report EXCEPT !.symbol = resolve_address(table, report.rip)]
        /\ \/ mode' = mode /\ part' = "halt"
           \/ \E k \in DOMAIN table : search_repr(table[k], "backtrace")
    BY <1>6, ZenonT(30) DEF DumpAtAddr, Parts
  <2>2. mode' = "halted" \/ (mode' = "report" /\ part' \in Parts)
    BY <2>1, SearchReprEnds, Zenon DEF Parts
  <2>3. DOMAIN report' = DOMAIN report /\ report'.frames = report.frames
    BY <2>1 DEF PartsInv
  <2> QED  BY <2>1, <2>2, <2>3 DEF PartsInv
<1>7. CASE Backtrace
  <2>1. CASE part' = "window" /\ report' = report /\ mode' = mode /\ mode = "report"
    BY <1>1, <2>1 DEF Parts
  <2>2. CASE /\ mode = "report" /\ report.frames < MaxFrames
             /\ FrameNamed \/ (mode' = mode /\ part' = "backtrace")
             /\ report' = [report EXCEPT !.frames = @ + 1]
    <3>1. DOMAIN report' = DOMAIN report /\ report'.frames = report.frames + 1
      BY <2>2 DEF PartsInv
    <3>2. mode' = "halted" \/ (mode' = "report" /\ part' \in Parts)
      <4>1. "backtrace" \in Parts \ {"stuck"}
        BY DEF Parts
      <4> QED  BY <2>2, <4>1, SearchReprEnds, Zenon DEF FrameNamed, Parts
    <3>3. report.frames \in 0..MaxFrames
      BY <2>2 DEF PartsInv
    <3> QED  BY <2>2, <3>1, <3>2, <3>3 DEF PartsInv
  <2> QED  BY <1>2, <1>7, <2>1, <2>2 DEF Backtrace
<1>8. CASE DumpWindow
  <2>1. /\ mode = "report" /\ report' = report /\ "halt" \in Parts \ {"stuck"}
        /\ \/ mode' = mode /\ part' = "halt"
           \/ \E k \in DOMAIN table : search_repr(table[k], "halt")
    BY <1>8, Zenon DEF DumpWindow, Parts
  <2>2. mode' = "halted" \/ (mode' = "report" /\ part' \in Parts)
    BY <2>1, SearchReprEnds, Zenon DEF Parts
  <2> QED  BY <1>1, <2>1, <2>2
<1>9. CASE UNCHANGED vars
  BY <1>9 DEF vars, PartsInv
<1> QED  BY <1>2, <1>3, <1>4, <1>5, <1>6, <1>7, <1>8, <1>9 DEF Next, Handler

\* A stub has at most 64 instructions.
LEMMA StubLength ==
  ASSUME EntryInv, mode = "stub"
  PROVE  \E n \in 1..64 : Piece(code, n)
<1>1. StubState(vec, saved, code, cpu)
  BY DEF EntryInv
<1>2. CASE IsIrq(vec)
  <2>1. PICK n \in 0..33 : Piece(code, 34 - n)
    BY <1>1, <1>2, Zenon DEF StubState, IrqState, Rest
  <2>2. 34 - n \in 1..64
    OBVIOUS
  <2> QED  BY <2>1, <2>2, ZenonT(30)
<1>3. CASE ~IsIrq(vec)
  <2>1. PICK n \in 0..63 : Piece(code, 64 - n)
    BY <1>1, <1>3, Zenon DEF StubState, IsrState, Rest
  <2>2. 64 - n \in 1..64
    OBVIOUS
  <2> QED  BY <2>1, <2>2, ZenonT(30)
<1> QED  BY <1>2, <1>3

\* A step of a handler takes one from what is left of it, or is a fault of the report;
\* and it cuts the report short only with a reason.
LEMMA StepsFall ==
  ASSUME EntryInv, PartsInv, Handler
  PROVE  /\ StepsLeft \in 1..MaxFrames + 71
         /\ StepsLeft' \in 0..StepsLeft - 1 \/ Faults
         /\ CutsWithReason
<1>0. MaxFrames \in Nat
  BY ExceptionsAssumption
<1>1. CASE mode = "stub"
  <2>1. PICK n \in 1..64 : Piece(code, n)
    BY <1>1, StubLength
  <2>2. Len(code) = n /\ code \in Seq(Instructions)
    BY <2>1, Zenon DEF Piece
  <2>3. Len(Tail(code)) = n - 1
    <3>1. n # 0
      OBVIOUS
    <3>2. code # <<>>
      BY <2>2, <3>1, EmptySeq, Zenon
    <3>3. Len(Tail(code)) = Len(code) - 1
      BY <2>2, <3>2, HeadTailProperties, Zenon
    <3> QED  BY <2>2, <3>3, Zenon
  <2>4. StepsLeft = MaxFrames + 7 + n
    BY <1>1, <2>2, ZenonT(30) DEF StepsLeft
  <2>5. \/ mode' = "program"
        \/ mode' = "stub" /\ code' = Tail(code)
        \/ mode' = "report" /\ part' = "registers"
    BY <1>1, Zenon DEF Handler, Instruction, Return, CallReturns, CallReports, DumpRegisters,
       HandleErrCode, DumpAtAddr, Backtrace, DumpWindow, Halt
  <2>6. CutsWithReason
    <3>1. part' \in {part, "registers"} /\ part = "none"
      BY <1>1, Zenon DEF Handler, Instruction, Return, CallReturns, CallReports, DumpRegisters,
         HandleErrCode, DumpAtAddr, Backtrace, DumpWindow, Halt, PartsInv
    <3> QED  BY <3>1, Zenon DEF CutsWithReason
  <2>7. CASE mode' = "program"
    <3>1. StepsLeft' = 0
      BY <2>7 DEF StepsLeft
    <3> QED  BY <1>0, <2>4, <2>6, <3>1
  <2>8. CASE mode' = "stub" /\ code' = Tail(code)
    <3>1. StepsLeft' = MaxFrames + 7 + (n - 1)
      BY <2>3, <2>8, Zenon DEF StepsLeft
    <3> QED  BY <1>0, <2>4, <2>6, <3>1
  <2>9. CASE mode' = "report" /\ part' = "registers"
    <3>1. StepsLeft' = MaxFrames + 6
      BY <2>9 DEF StepsLeft
    <3> QED  BY <1>0, <2>4, <2>6, <3>1
  <2> QED  BY <2>5, <2>7, <2>8, <2>9
<1>2. CASE mode # "stub"
  <2>1. mode = "report" /\ part \in Parts \ {"stuck"} /\ report.frames \in 0..MaxFrames
    BY <1>2, Zenon DEF Handler, Instruction, Return, CallReturns, CallReports, DumpRegisters,
       HandleErrCode, DumpAtAddr, Backtrace, DumpWindow, Halt, PartsInv
  <2>2. StepsLeft \in 1..MaxFrames + 71
    BY <1>0, <2>1 DEF StepsLeft, Parts
  <2>3. ASSUME part' \in {"none"} \cup (Parts \ {"stuck"}) PROVE CutsWithReason
    BY <2>3, Zenon DEF CutsWithReason, Parts
  <2>4. CASE part = "registers"
    <3>1. (mode' = "report" /\ part' \in {"errcode", "dump"}) \/ Faults
      BY <2>1, <2>4 DEF Handler, Instruction, Return, CallReturns, CallReports, DumpRegisters,
         HandleErrCode, DumpAtAddr, Backtrace, DumpWindow, Halt, Faults
    <3>2. StepsLeft = MaxFrames + 6
      BY <2>1, <2>4 DEF StepsLeft
    <3>3. StepsLeft' \in {MaxFrames + 5, MaxFrames + 4} \/ Faults
      BY <3>1 DEF StepsLeft
    <3>4. Faults => part' = "none"
      BY Zenon DEF Faults, Nested, Enter
    <3>5. CutsWithReason
      BY <2>3, <3>1, <3>4 DEF Parts
    <3> QED  BY <1>0, <2>2, <3>2, <3>3, <3>5
  <2>5. CASE part = "errcode"
    <3>1. mode' = "report" /\ part' = "dump"
      BY <2>1, <2>5 DEF Handler, Instruction, Return, CallReturns, CallReports, DumpRegisters,
         HandleErrCode, DumpAtAddr, Backtrace, DumpWindow, Halt
    <3>2. StepsLeft = MaxFrames + 5 /\ StepsLeft' = MaxFrames + 4
      BY <2>1, <2>5, <3>1 DEF StepsLeft
    <3>3. CutsWithReason
      BY <2>3, <3>1 DEF Parts
    <3> QED  BY <1>0, <2>2, <3>2, <3>3
  <2>6. CASE part = "dump"
    <3>1. DumpAtAddr
      BY <2>1, <2>6 DEF Handler, Instruction, Return, CallReturns, CallReports, DumpRegisters,
         HandleErrCode, Backtrace, DumpWindow, Halt
    <3>2. \/ mode' = mode /\ part' = "halt"
          \/ \E k \in DOMAIN table : search_repr(table[k], "backtrace")
      BY <3>1, ZenonT(30) DEF DumpAtAddr
    <3>3. report'.frames = report.frames
      BY <3>1 DEF DumpAtAddr, PartsInv
    <3>4. /\ "halt" \in Parts \ {"stuck"} /\ "backtrace" \in Parts \ {"stuck"}
          /\ part' = "halt" => CutsWithReason
      BY <2>3 DEF Parts
    <3>5. /\ \/ mode' = "report" /\ part' \in {"halt", "backtrace", "stuck"}
             \/ mode' = "halted"
          /\ CutsWithReason
      BY <2>1, <3>2, <3>4, SearchReprEnds, Zenon
    <3>6. StepsLeft = MaxFrames + 4 /\ StepsLeft' \in {0, 1, MaxFrames + 3 - report.frames}
      BY <2>1, <2>6, <3>3, <3>5 DEF StepsLeft
    <3> QED  BY <1>0, <2>1, <2>2, <3>5, <3>6
  <2>7. CASE part = "backtrace"
    <3>1. Backtrace
      BY <2>1, <2>7 DEF Handler, Instruction, Return, CallReturns, CallReports, DumpRegisters,
         HandleErrCode, DumpAtAddr, DumpWindow, Halt
    <3>2. /\ "window" \in Parts \ {"stuck"} /\ "backtrace" \in Parts \ {"stuck"}
          /\ part' \in {"none", "window", "backtrace"} => CutsWithReason
      BY <2>3 DEF Parts
    <3>3. CASE mode' = "report" /\ part' = "window"
      <4>1. StepsLeft = MaxFrames + 3 - report.frames /\ StepsLeft' = 2
        BY <2>1, <2>7, <3>3 DEF StepsLeft
      <4> QED  BY <1>0, <2>1, <2>2, <3>2, <3>3, <4>1
    <3>4. CASE /\ report.frames < MaxFrames /\ report' = [report EXCEPT !.frames = @ + 1]
               /\ FrameNamed \/ (mode' = mode /\ part' = part)
      <4>1. report'.frames = report.frames + 1
        BY <3>4 DEF PartsInv
      <4>2. /\ (mode' = "report" /\ part' \in {"backtrace", "stuck"}) \/ mode' = "halted"
            /\ CutsWithReason
        BY <2>1, <2>7, <3>2, <3>4, SearchReprEnds, Zenon DEF FrameNamed
      <4>3. /\ StepsLeft = MaxFrames + 3 - report.frames
            /\ StepsLeft' \in {0, MaxFrames + 3 - (report.frames + 1)}
        BY <2>1, <2>7, <4>1, <4>2 DEF StepsLeft
      <4> QED  BY <1>0, <2>1, <2>2, <3>4, <4>2, <4>3
    <3>5. CASE chain = "wild" /\ Nested
      <4>1. Faults /\ part' = "none"
        BY <2>7, <3>5, Zenon DEF Faults, Nested, Enter
      <4> QED  BY <2>2, <3>2, <4>1
    <3> QED  BY <2>1, <3>1, <3>3, <3>4, <3>5, Zenon DEF Backtrace
  <2>8. CASE part = "window"
    <3>1. DumpWindow
      BY <2>1, <2>8 DEF Handler, Instruction, Return, CallReturns, CallReports, DumpRegisters,
         HandleErrCode, DumpAtAddr, Backtrace, Halt
    <3>2. \/ mode' = mode /\ part' = "halt"
          \/ \E k \in DOMAIN table : search_repr(table[k], "halt")
      BY <3>1, Zenon DEF DumpWindow
    <3>3. "halt" \in Parts \ {"stuck"} /\ (part' = "halt" => CutsWithReason)
      BY <2>3 DEF Parts
    <3>4. /\ (mode' = "report" /\ part' \in {"halt", "stuck"}) \/ mode' = "halted"
          /\ CutsWithReason
      BY <2>1, <3>2, <3>3, SearchReprEnds, Zenon
    <3>5. StepsLeft = 2 /\ StepsLeft' \in {0, 1}
      BY <2>1, <2>8, <3>4 DEF StepsLeft
    <3> QED  BY <1>0, <2>2, <3>4, <3>5
  <2>9. CASE part = "halt"
    <3>1. mode' = "halted" /\ part' = "halt"
      BY <2>1, <2>9 DEF Handler, Instruction, Return, CallReturns, CallReports, DumpRegisters,
         HandleErrCode, DumpAtAddr, Backtrace, DumpWindow, Halt
    <3>2. StepsLeft = 1 /\ StepsLeft' = 0
      BY <2>1, <2>9, <3>1 DEF StepsLeft
    <3>3. CutsWithReason
      BY <2>3, <3>1 DEF Parts
    <3> QED  BY <1>0, <2>2, <3>2, <3>3
  <2> QED  BY <2>1, <2>2, <2>4, <2>5, <2>6, <2>7, <2>8, <2>9 DEF Parts
<1> QED  BY <1>1, <1>2

\* Every handler, from its stub to iretq or through the report to cli; hlt, takes at
\* most MaxFrames + 71 steps of its own, whatever the rbp chain: a step leaves fewer of
\* them, but for the report's two faults, of vectors without a message and of wild
\* chains.  A report is cut short only by a name that the demangler does not come back
\* from, or a heap without frames.
THEOREM HandlersShorten ==
  Spec => [][Handler => /\ StepsLeft \in 1..MaxFrames + 71
                        /\ StepsLeft' \in 0..StepsLeft - 1 \/ Faults
                        /\ CutsWithReason]_vars
<1>1. Spec => [](EntryInv /\ PartsInv)
  BY EntryInvariant, PartsInitially, PartsStep, PTL DEF Spec
<1>2. ASSUME EntryInv, PartsInv
      PROVE  [Handler => /\ StepsLeft \in 1..MaxFrames + 71
                         /\ StepsLeft' \in 0..StepsLeft - 1 \/ Faults
                         /\ CutsWithReason]_vars
  BY <1>2, StepsFall
<1>3. Spec => [][Next]_vars
  BY PTL DEF Spec
<1> QED  BY <1>1, <1>2, <1>3, PTL
=============================================================================
