------------------------------- MODULE SignIn -------------------------------
(***************************************************************************)
(* What one sign-in promises, without codes, mails, cookies or time: it    *)
(* is opened once, proven once, by one address and in one browser, then    *)
(* answered with at most one authorization code, for that address and to   *)
(* that browser; a sign-in that ended stays ended.                         *)
(***************************************************************************)
CONSTANTS Browser, Address, Nobody

VARIABLES status, who, where

vars == <<status, who, where>>

Init == status = "none" /\ who = Nobody /\ where = Nobody

Open == status = "none" /\ status' = "open" /\ UNCHANGED <<who, where>>

Prove(b, a) ==
  /\ status = "open" /\ status' = "proven"
  /\ who' = a /\ where' = b

Issue == status = "proven" /\ status' = "issued" /\ UNCHANGED <<who, where>>

End ==
  /\ status \in {"open", "proven"} /\ status' = "ended"
  /\ who' = Nobody /\ where' = Nobody

Next == Open \/ Issue \/ End \/ \E b \in Browser, a \in Address : Prove(b, a)

Spec == Init /\ [][Next]_vars
=============================================================================
