---------------------------- MODULE MCPlaidSync ----------------------------
(* Small instances of PlaidSync for TLC. *)
EXTENDS PlaidSync, TLC

\* Transactions are only compared with each other.
TxnSymmetry == Permutations(Txn)
=============================================================================
