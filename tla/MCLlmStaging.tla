--------------------------- MODULE MCLlmStaging ---------------------------
(* Small instances of LlmStaging for TLC. *)
EXTENDS LlmStaging, TLC

\* Categories are only compared with each other.
CategorySymmetry == Permutations(Category)

=============================================================================
