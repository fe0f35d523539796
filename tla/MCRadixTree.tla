---------------------------- MODULE MCRadixTree ----------------------------
(***************************************************************************)
(* Nodes of two slots and a three-bit unsigned long: three levels, the     *)
(* highest of which wraps in shift_maxindex.  Indices 0 and 1 share a      *)
(* leaf, 6 needs the full height.                                          *)
(***************************************************************************)
EXTENDS RadixTree
=============================================================================
