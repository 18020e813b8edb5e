-------------------------- MODULE MCRuntimeConfig --------------------------
(* A small instance of RuntimeConfig for TLC. *)
EXTENDS RuntimeConfig, TLC

CONSTANTS s1, a1

Set(x, v) == x :> v
Google(on, secret) == Set("google", [on |-> on, secret |-> secret])
Auth(off, password) == Set("auth", [off |-> off, password |-> password, address |-> a1])

\* Google on with a new or its old secret; a passkey in its place; an address
\* with authentication on or off; the end of the setup.
Inputs == {Google(TRUE, s1), Google(TRUE, Keep),
           Google(FALSE, Keep) @@ Set("passkey", TRUE),
           Auth(FALSE, FALSE), Auth(FALSE, TRUE), Auth(TRUE, FALSE) @@ Set("general", TRUE),
           Set("email", TRUE), Set("setup", TRUE) @@ Set("llm", TRUE)}

RequestSymmetry == Permutations(Request)

=============================================================================
