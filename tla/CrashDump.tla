----------------------------- MODULE CrashDump ------------------------------
(***************************************************************************)
(* What an exception report looks up: the symbol of an address             *)
(* (meta_resolver.cc) and the disassembly around it (dump.cc), as          *)
(* functions of the kernel image.  A symbol has an address, the mark of a  *)
(* named function, its name as the demangler (mangle.cc) takes it apart,   *)
(* and its code: the lengths of its instructions, as the disassembler      *)
(* decodes them from its start.                                            *)
(***************************************************************************)
EXTENDS Integers, Sequences, FiniteSetsExt

CONSTANTS
  Threshold,   \* SYMBOL_START_THRESHOLD (96)
  Show,        \* instructions_to_show (7)
  Back,        \* instructions before the window (4)
  Ring         \* instruction_addresses' size (32)

ASSUME CrashDumpAssumption ==
  /\ Threshold \in Nat /\ Show \in Nat \ {0} /\ Back \in 3..Ring /\ Ring \in Nat
  /\ Back <= Show

-----------------------------------------------------------------------------
(* The symbol table. *)

\* What the demangler comes to in a name: a component with its length; one of a
\* nested name without (a constructor, an operator, template arguments, const); and
\* what takes it out of its buffers (a class type that ends an exact name, after
\* which it steps over the terminator, or a name too long for them).
Items == {"length", "other", "outside"}

\* A symbol's code decodes to at least one instruction.
Symbols ==
  [address : Nat, func : BOOLEAN, name : Seq(Items), lens : Seq(Nat \ {0}) \ {<<>>}]

\* unmangle_name's loop steps over a length and over nothing else: at any other
\* component it stays and appends "::" for ever.
Stays(name) == {k \in DOMAIN name : name[k] # "length"}

\* How demangle_alloc_symbol ends: with the name, or never.  Outside its buffers it
\* works on whatever lies there, and may do either.
demangle_alloc_symbol(name) ==
  IF Stays(name) = {} THEN {"named"}
  ELSE IF name[Min(Stays(name))] = "other" THEN {"stuck"} ELSE {"named", "stuck"}

\* sort_symbol_table: the turns of the inner loop for place i, and the outer loop.
Exchange(t, i, j) ==
  IF t[j].address < t[i].address THEN [t EXCEPT ![i] = t[j], ![j] = t[i]] ELSE t
SortPlace(t, i) ==
  LET turn[j \in 0..Len(t)] == IF j <= i THEN t ELSE Exchange(turn[j - 1], i, j) IN turn[Len(t)]
sort_symbol_table(t) ==
  LET turn[i \in 0..Len(t)] == IF i = 0 THEN t ELSE SortPlace(turn[i - 1], i) IN turn[Len(t)]

\* init_symbols: the named functions of the ELF symbol table, sorted.
functions(symtab) ==
  LET turn[i \in 0..Len(symtab)] ==
        IF i = 0 THEN <<>>
        ELSE IF symtab[i].func THEN Append(turn[i - 1], symtab[i]) ELSE turn[i - 1]
  IN turn[Len(symtab)]
init_symbols(symtab) == sort_symbol_table(functions(symtab))

\* resolve_address: the loop stops at an equal address, or before a larger one.
\* Entry 0 is nullptr; that a match is exact only changes the wording.
resolve_address(t, address) ==
  LET stops == {k \in DOMAIN t : t[k].address >= address}
  IN IF stops = {} THEN Len(t)
     ELSE IF t[Min(stops)].address = address THEN Min(stops) ELSE Min(stops) - 1

-----------------------------------------------------------------------------
(* The disassembly of dump_at_addr. *)

\* Address of the k-th instruction of a function at start.
InstrAddr(start, lens, k) ==
  LET at[i \in 0..Len(lens)] == IF i = 0 THEN start ELSE at[i - 1] + lens[i] IN at[k - 1]
InstrEnd(start, lens, k) == InstrAddr(start, lens, k) + lens[k]

\* instruction_count after the first scan: it stops behind the first
\* instruction at or after the address, or where decoding ends.
Scanned(start, lens, address) ==
  LET stops == {k \in DOMAIN lens : InstrAddr(start, lens, k) >= address}
  IN IF stops = {} THEN Len(lens) ELSE Min(stops)

\* Mutant: the window is placed as if it ended with the address.
StartIndexEarly(start, lens, address) ==
  LET n == Scanned(start, lens, address) IN IF n >= Show + 2 THEN n - Show - 1 ELSE 1

\* The first instruction shown (from 1): what the ring holds at start_index.
StartIndex(start, lens, address) ==
  LET n == Scanned(start, lens, address)
      index == IF n >= Back THEN n - Back ELSE 0
      last == CHOOSE k \in 1..n : (k - 1) % Ring = index % Ring
                                  /\ \A l \in k + 1..n : (l - 1) % Ring # index % Ring
  IN last

FirstShown(start, lens, address) ==
  IF address - start <= Threshold THEN 1 ELSE StartIndex(start, lens, address)

\* The instructions shown, and the one marked as faulting.
Shown(start, lens, address) ==
  LET first == FirstShown(start, lens, address)
  IN first .. (IF first + Show - 1 < Len(lens) THEN first + Show - 1 ELSE Len(lens))
Marked(start, lens, address) ==
  {k \in Shown(start, lens, address) :
     InstrAddr(start, lens, k) <= address /\ address < InstrEnd(start, lens, k)}
=============================================================================
