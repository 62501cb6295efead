----------------------------- MODULE MCHashmap ------------------------------
(***************************************************************************)
(* Hashes that give the same place, the first and the last, neighbouring places  *)
(* in the largest table, for tables of 2, 4 and 8 slots.  Keys are interchangeable: *)
(* of the hashes that differ by a permutation of the keys, the one that does    *)
(* not decrease.                                                            *)
(***************************************************************************)
EXTENDS Hashmap
MCHashes == {h \in [Keys -> {0, 1, 3, 14, 15}] : \A j, k \in Keys : j < k => h[j] <= h[k]}
=============================================================================
