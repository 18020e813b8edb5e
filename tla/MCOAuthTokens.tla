---------------------------- MODULE MCOAuthTokens ----------------------------
(* Small instances of OAuthTokens for TLC. *)
EXTENDS OAuthTokens, TLC

\* Pairs, chains, requests and roles are only compared with each other.
Symmetry == Permutations(Token) \cup Permutations(Chain)
              \cup Permutations(Request) \cup Permutations(Role)
=============================================================================
