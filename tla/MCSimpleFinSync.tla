-------------------------- MODULE MCSimpleFinSync --------------------------
(* Small instances of SimpleFinSync for TLC. *)
EXTENDS SimpleFinSync, TLC

CONSTANTS h1, t1

HoldSettles == h1 :> t1

CallerSymmetry == Permutations(Caller)

=============================================================================
