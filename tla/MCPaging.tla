------------------------------ MODULE MCPaging ------------------------------
(* The page tables for TLC: pages that share none, one, two and three      *)
(* levels of tables.                                                       *)
EXTENDS Paging

MCVirt == {<<0, 0, 0, 0>>, <<0, 0, 0, 1>>, <<0, 0, 1, 0>>, <<0, 1, 0, 0>>,
           <<1, 0, 0, 0>>}
=============================================================================
