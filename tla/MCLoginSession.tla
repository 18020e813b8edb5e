--------------------------- MODULE MCLoginSession ---------------------------
(* Small instances of LoginSession for TLC. *)
EXTENDS LoginSession, TLC

\* Browsers, addresses and requests are only compared with each other.
Symmetry == Permutations(Browser) \cup Permutations(Address)
              \cup Permutations(Request)
=============================================================================
