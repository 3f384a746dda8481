------------------------------- MODULE MCStores -------------------------------
(* LedgerStore on small instances; the workers are alike, so are the people. *)
EXTENDS LedgerStore, TLC

Alike == Permutations(Workers) \cup Permutations(People)
=============================================================================
