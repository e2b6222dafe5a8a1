------------------------------ MODULE MCAccounts ------------------------------
(***************************************************************************)
(* Finite instances of Accounts: k1 stands before k2 in the allocator's    *)
(* order.  Tasks and workers are interchangeable.                          *)
(***************************************************************************)
EXTENDS Accounts, TLC

CONSTANTS k1, k2

RankOf == [k \in Accounts |-> IF k = k1 THEN 0 ELSE 1]

Interchangeable == Permutations(Tasks) \cup Permutations(Workers) \cup Permutations(Listings)
=============================================================================
