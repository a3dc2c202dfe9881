---------------------------- MODULE MCExceptions ----------------------------
(***************************************************************************)
(* Exceptions with small kernel images: two functions in either order of   *)
(* the symbol table, an object that is not a function, instructions of one *)
(* and two bytes, line tables from empty to one row per function, and      *)
(* names that the demangler takes apart, stays at and leaves its buffers   *)
(* on.                                                                     *)
(***************************************************************************)
EXTENDS Exceptions

Symbol(a, f, name, lens) == [address |-> a, func |-> f, name |-> name, lens |-> lens]
Size(lens) == InstrAddr(0, lens, Len(lens) + 1)

MCTables ==
  LET f(name, lens) == Symbol(10, TRUE, name, lens)
      g(name, lens) == Symbol(10 + Size(lens), TRUE, name, <<2, 1>>)
      mixed == <<1, 1, 2, 1, 1, 1, 2>>
      even == <<2, 2, 2, 2, 2>>
      nested == <<"length", "length">>
      constructor == <<"length", "length", "other">>
      byvalue == <<"length", "outside">>
  IN {<<f(nested, mixed), g(<<>>, mixed)>>,
      <<g(constructor, mixed)>>,
      <<g(nested, even), Symbol(12, FALSE, <<>>, <<1>>), f(byvalue, even)>>}

MCImages ==
  {[symtab |-> t, rows |-> r] :
     t \in MCTables, r \in {{}, {10, 13, 16}, {11, 12, 17}}}
=============================================================================
