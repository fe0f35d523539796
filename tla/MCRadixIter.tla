---------------------------- MODULE MCRadixIter ----------------------------
(***************************************************************************)
(* The tree of MCRadixTree with an iterator in place of a lookup.          *)
(***************************************************************************)
EXTENDS RadixIter
=============================================================================
