----------------------------- MODULE MCHotRing -----------------------------
(***************************************************************************)
(* A table of four buckets of eight keys each (eight buckets of four after *)
(* the rehash), up to four nodes.  Keys 0, 4, 5 and 6 share bucket 0 and   *)
(* include both of its milestones, 9 is alone in bucket 1, 40 does not fit *)
(* NBITS.  Counters of two and one bits wrap, a shift may come every       *)
(* second request, and a threshold of 1 lets rings of three nodes rehash.  *)
(***************************************************************************)
EXTENDS HotRing
=============================================================================
