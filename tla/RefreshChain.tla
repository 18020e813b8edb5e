---------------------------- MODULE RefreshChain ----------------------------
(***************************************************************************)
(* What a sign-in's refresh tokens promise, without codes, rows, locks or  *)
(* time: a chain is first redeemed once, then at every moment one token    *)
(* holds it, the token handed out last, and once ended it never comes back.*)
(***************************************************************************)
CONSTANTS Chain, Token

VARIABLES
  holder,  \* the token that holds a chain, "pending" or "ended"
  used     \* tokens handed out so far

vars == <<holder, used>>

Init == holder = [c \in Chain |-> "pending"] /\ used = {}

\* The first token of a chain, or the next one in place of its holder.
HandOut ==
  \E c \in Chain, t \in Token \ used :
    /\ holder[c] # "ended"
    /\ holder' = [holder EXCEPT ![c] = t]
    /\ used' = used \cup {t}

\* Sign-out, replay, a role change or expiry: chains that had a holder end.
End ==
  /\ \E ended \in SUBSET {c \in Chain : holder[c] \in Token} :
       holder' = [c \in Chain |-> IF c \in ended THEN "ended" ELSE holder[c]]
  /\ UNCHANGED used

Next == HandOut \/ End

Spec == Init /\ [][Next]_vars

-----------------------------------------------------------------------------
(* Properties *)

\* An ended chain stays ended, and a token that does not hold a chain any more
\* never holds one again: what was replaced or signed out cannot come back.
LostForGood ==
  [][\A c \in Chain :
       /\ holder[c] = "ended" => holder'[c] = "ended"
       /\ \A t \in used : holder'[c] = t => holder[c] = t]_vars
=============================================================================
