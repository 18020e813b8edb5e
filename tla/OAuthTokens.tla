----------------------------- MODULE OAuthTokens -----------------------------
(***************************************************************************)
(* Authorization codes and token pairs of one user (auth/oauth/token.rs,   *)
(* auth/store/tokens.rs): exchange, rotation, replay and sign-out under    *)
(* the token lock, against what runs without that lock, the authorize      *)
(* endpoint, role changes and removal by an administrator, and cleanup.    *)
(*                                                                         *)
(* A code's signature is the request_id of the tokens that descend from    *)
(* it: codes, request ids and chains are the same values.  Scopes stand    *)
(* for the role they were cut down to.  One query or one with_tx closure   *)
(* is one step.                                                            *)
(***************************************************************************)
EXTENDS Naturals, FiniteSets

CONSTANTS
  Chain,            \* authorization codes, one per completed sign-in
  Token,            \* token pairs that can be minted
  Request,          \* concurrent requests to the token and logout endpoints
  Role, NoUser,     \* the user's role; the user has been removed
  NoRequest,        \* a request slot, or the lock, is free
  CodeLifetime,     \* AUTH_CODE_LIFETIME
  AccessLifetime,   \* Service::access_token_lifetime
  RefreshLifetime,  \* Service::refresh_token_lifetime
  ChainLifetime,    \* REFRESH_CHAIN_LIFETIME
  MaxTime,          \* bound: the clock
  MaxRoleChanges    \* bound: administrator mutations of the user

Step == {"load", "commit", "logout", "access", "refresh"}
Call == [step : Step, kind : {"code", "refresh", "logout"},
         arg : Chain \cup Token, asked : Nat, minted : Nat]

ASSUME NoUserAssumption == NoUser \notin Role
ASSUME NoRequestAssumption == NoRequest \notin Request \cup Call
ASSUME TokenAssumption == {"pending", "ended"} \cap Token = {}
ASSUME TimeAssumption ==
  /\ CodeLifetime \in Nat /\ AccessLifetime \in Nat /\ RefreshLifetime \in Nat
  /\ ChainLifetime \in Nat /\ MaxTime \in Nat /\ MaxRoleChanges \in Nat

VARIABLES
  now,       \* the clock
  role,      \* users.role, NoUser without a row
  granted,   \* role a sign-in's scopes were cut down to, NoUser before it
  codes,     \* oauth_authorization_codes, by chain
  expires,   \* expires_at of a code
  pair,      \* what was signed into each token pair handed out
  refresh,   \* oauth_refresh_tokens, by pair
  access,    \* oauth_access_tokens: pairs whose access row is there
  lock,      \* token_mu: the request that holds it
  request,   \* a request's step and locals
  sweep,     \* next table of a cleanup run and the time the run began
  changes,   \* bound: administrator mutations made
  began,     \* history: when a chain's code was exchanged
  revoked,   \* history: chains ended by sign-out, replay or an administrator
  late       \* history: sign-ins under way when the role changed

authorization == <<granted, codes, expires>>
tokens == <<pair, refresh, access>>
ghosts == <<began, revoked, late>>
vars == <<now, role, authorization, tokens, lock, request, sweep, changes,
          ghosts>>

Issued == {t \in Token : refresh[t] # "none"}
Pair == [chain : Chain, role : Role, first : Nat, asked : Nat, minted : Nat]

TypeOK ==
  /\ now \in Nat /\ role \in Role \cup {NoUser}
  /\ granted \in [Chain -> Role \cup {NoUser}]
  /\ codes \in [Chain -> {"none", "active", "used", "gone"}]
  /\ expires \in [Chain -> Nat]
  /\ refresh \in [Token -> {"none", "active", "revoked", "gone"}]
  /\ pair \in [Issued -> Pair] /\ access \subseteq Issued
  /\ lock \in Request \cup {NoRequest}
  /\ request \in [Request -> Call \cup {NoRequest}]
  /\ sweep \in [table : {"codes", "access", "refresh"}, time : Nat]
  /\ changes \in Nat
  /\ began \in [Chain -> Nat] /\ revoked \subseteq Chain /\ late \subseteq Chain

Of(chain) == {t \in Issued : pair[t].chain = chain}
Active(chain) == {t \in Of(chain) : refresh[t] = "active"}

\* Sign-ins that have read the role and whose code is not redeemed yet.
Pending == {c \in Chain : granted[c] # NoUser /\ codes[c] \in {"none", "active"}}

Init ==
  /\ now = 0 /\ role \in Role
  /\ granted = [c \in Chain |-> NoUser]
  /\ codes = [c \in Chain |-> "none"] /\ expires = [c \in Chain |-> 0]
  /\ refresh = [t \in Token |-> "none"] /\ pair = [t \in {} |-> 0]
  /\ access = {}
  /\ lock = NoRequest /\ request = [p \in Request |-> NoRequest]
  /\ sweep = [table |-> "codes", time |-> 0] /\ changes = 0
  /\ began = [c \in Chain |-> 0] /\ revoked = {} /\ late = {}

-----------------------------------------------------------------------------
(* The clock, the authorize endpoint and the administrator: no token lock *)

Tick ==
  /\ now < MaxTime /\ now' = now + 1
  /\ UNCHANGED <<role, authorization, tokens, lock, request, sweep, changes,
                 ghosts>>

\* complete_authorize reads the role ...
ReadRole(c) ==
  /\ granted[c] = NoUser /\ role # NoUser
  /\ granted' = [granted EXCEPT ![c] = role]
  /\ UNCHANGED <<now, role, codes, expires, tokens, lock, request, sweep,
                 changes, ghosts>>

\* ... and stores the code when it has claimed the login session.
CreateCode(c) ==
  /\ granted[c] # NoUser /\ codes[c] = "none"
  /\ codes' = [codes EXCEPT ![c] = "active"]
  /\ expires' = [expires EXCEPT ![c] = now + CodeLifetime]
  /\ UNCHANGED <<now, role, granted, tokens, lock, request, sweep, changes,
                 ghosts>>

Mutation ==
  /\ changes < MaxRoleChanges /\ changes' = changes + 1
  /\ UNCHANGED <<now, authorization, pair, lock, request, sweep, began>>

\* revoke_subject_tokens, in the transaction of the mutation.
RevokeSubject ==
  /\ refresh' = [t \in Token |-> IF t \in Issued THEN "gone" ELSE "none"]
  /\ access' = {}
  /\ revoked' = revoked \cup {c \in Chain : Of(c) # {}}
  /\ late' = late \cup Pending

\* Mutant: the user's tokens stay.
UpdateRoleOnly ==
  /\ role # NoUser /\ role' \in Role
  /\ Mutation /\ late' = late \cup Pending
  /\ UNCHANGED <<refresh, access, revoked>>

UpdateRole ==
  /\ role # NoUser /\ role' \in Role
  /\ Mutation /\ RevokeSubject

RemoveUser ==
  /\ role # NoUser /\ role' = NoUser
  /\ Mutation /\ RevokeSubject

\* add_user: the same address again, whose rows are not looked at.
AddUser ==
  /\ role = NoUser /\ role' \in Role
  /\ Mutation
  /\ late' = late \cup Pending
  /\ UNCHANGED <<refresh, access, revoked>>

-----------------------------------------------------------------------------
(* Token and logout requests, one at a time under the token lock *)

Arguments(kind) == IF kind = "code" THEN {c \in Chain : codes[c] # "none"}
                   ELSE Issued

Goto(p, step) == request' = [request EXCEPT ![p].step = step]

Release(p) ==
  /\ request' = [request EXCEPT ![p] = NoRequest]
  /\ lock' = NoRequest

\* Mutant: the handler does not wait for the lock.
StartUnlocked(p) ==
  /\ request[p] = NoRequest
  /\ lock' = p
  /\ \E kind \in {"code", "refresh", "logout"} : \E arg \in Arguments(kind) :
       request' = [request EXCEPT ![p] =
         [step |-> "load", kind |-> kind, arg |-> arg, asked |-> now,
          minted |-> now]]
  /\ UNCHANGED <<now, role, authorization, tokens, sweep, changes, ghosts>>

\* The handler takes the lock, then the time it judges expiry by.
Start(p) ==
  /\ lock = NoRequest /\ request[p] = NoRequest
  /\ lock' = p
  /\ \E kind \in {"code", "refresh", "logout"} : \E arg \in Arguments(kind) :
       request' = [request EXCEPT ![p] =
         [step |-> "load", kind |-> kind, arg |-> arg, asked |-> now,
          minted |-> now]]
  /\ UNCHANGED <<now, role, authorization, tokens, sweep, changes, ghosts>>

\* The request is answered, or dropped: a query fails, the client goes away
\* or the process stops.
Leave(p) ==
  /\ request[p] # NoRequest
  /\ Release(p)
  /\ UNCHANGED <<now, role, authorization, tokens, sweep, changes, ghosts>>

\* Data of the pair is signed and stamped in memory.
Mint(p) ==
  request' = [request EXCEPT ![p] = [@ EXCEPT !.step = "commit", !.minted = now]]

At(p, step, kind) ==
  request[p] # NoRequest /\ request[p].step = step /\ request[p].kind = kind

\* A code that is expired, gone or not this client's is refused by Leave.
LoadCode(p) ==
  LET code == request[p].arg IN
  /\ At(p, "load", "code") /\ expires[code] > request[p].asked
  /\ \/ codes[code] = "active" /\ Mint(p)
     \/ codes[code] = "used" /\ Goto(p, "access")
  /\ UNCHANGED <<now, role, authorization, tokens, lock, sweep, changes, ghosts>>

\* The row's own expiry, against a time read before.
Live(t, time) == pair[t].minted + RefreshLifetime > time

\* exchange_refresh_token; a chain at its end is refused by Leave.
LoadRefresh(p) ==
  LET old == request[p].arg IN
  /\ At(p, "load", "refresh") /\ Live(old, request[p].asked)
  /\ \/ /\ refresh[old] = "active"
        /\ request[p].asked <= pair[old].first + ChainLifetime
        /\ Mint(p)
     \/ refresh[old] = "revoked" /\ Goto(p, "access")
  /\ UNCHANGED <<now, role, authorization, tokens, lock, sweep, changes, ghosts>>

LoadLogout(p) ==
  LET old == request[p].arg IN
  /\ At(p, "load", "logout") /\ Live(old, request[p].asked)
  /\ refresh[old] \in {"active", "revoked"} /\ Goto(p, "logout")
  /\ UNCHANGED <<now, role, authorization, tokens, lock, sweep, changes, ghosts>>

\* The chain of the code or token a request carries.
ChainOf(p) == IF request[p].kind = "code" THEN request[p].arg
              ELSE pair[request[p].arg].chain

\* insert_token_pair, with the pair's chain, role and first_issued_at.
Insert(p, t, granting, first) ==
  pair' = [u \in Issued \cup {t} |->
             IF u = t THEN [chain |-> ChainOf(p), role |-> granting,
                            first |-> first, asked |-> request[p].asked,
                            minted |-> request[p].minted]
             ELSE pair[u]]

\* exchange_auth_code found the code redeemed or cleaned away meanwhile.
ExchangeFails(p) ==
  /\ At(p, "commit", "code") /\ codes[request[p].arg] # "active"
  /\ Goto(p, "access")
  /\ UNCHANGED <<now, role, authorization, tokens, lock, sweep, changes, ghosts>>

\* Mutant: the code is not invalidated.
RedeemedNot(code) == codes

\* invalidate_auth_code
Redeemed(code) == [codes EXCEPT ![code] = "used"]

ExchangeCode(p) ==
  LET code == request[p].arg IN
  /\ At(p, "commit", "code") /\ codes[code] = "active"
  /\ codes' = Redeemed(code)
  /\ began' = [began EXCEPT ![code] = request[p].asked]
  /\ \E t \in Token \ Issued :
       /\ Insert(p, t, granted[code], request[p].asked)
       /\ refresh' = [refresh EXCEPT ![t] = "active"]
       /\ access' = access \cup {t}
  /\ Release(p)
  /\ UNCHANGED <<now, role, granted, expires, sweep, changes, revoked, late>>

\* Mutant: the old token stays usable until its own expiry.
RotatedKept(old, t) == [refresh EXCEPT ![t] = "active"]

\* Mutant: the new refresh row is not stored.
RotatedUnstored(old, t) == [refresh EXCEPT ![old] = "revoked"]

\* revoke_live_refresh_token and the new row.
Rotated(old, t) == [refresh EXCEPT ![old] = "revoked", ![t] = "active"]

\* Mutant: every rotation starts the chain's lifetime again.
FirstIssuedRenewed(p) == request[p].asked

FirstIssued(p) == pair[request[p].arg].first

\* revoke_live_refresh_token revokes one row.
Rotatable(p) ==
  refresh[request[p].arg] = "active" /\ Live(request[p].arg, request[p].asked)

\* rotate_refresh_token; when its token is no longer live, Leave.
Rotate(p) ==
  /\ At(p, "commit", "refresh") /\ Rotatable(p)
  /\ \E t \in Token \ Issued :
       /\ Insert(p, t, pair[request[p].arg].role, FirstIssued(p))
       /\ refresh' = Rotated(request[p].arg, t)
       /\ access' = (access \ Of(ChainOf(p))) \cup {t}
  /\ Release(p)
  /\ UNCHANGED <<now, role, authorization, sweep, changes, ghosts>>

\* logout revokes the token it was given; when that query fails it goes on.
LogoutToken(p) ==
  LET old == request[p].arg IN
  /\ At(p, "logout", "logout")
  /\ \/ /\ refresh[old] = "active"
        /\ refresh' = [refresh EXCEPT ![old] = "revoked"]
     \/ UNCHANGED refresh
  /\ Goto(p, "access")
  /\ UNCHANGED <<now, role, authorization, pair, access, lock, sweep, changes,
                 ghosts>>

\* revoke_token_chain, first query
RevokeAccess(p) ==
  /\ request[p] # NoRequest /\ request[p].step = "access"
  /\ access' = access \ Of(ChainOf(p))
  /\ Goto(p, "refresh")
  /\ UNCHANGED <<now, role, authorization, pair, refresh, lock, sweep, changes,
                 ghosts>>

\* revoke_token_chain, second query
RevokeRefresh(p) ==
  /\ request[p] # NoRequest /\ request[p].step = "refresh"
  /\ refresh' = [t \in Token |->
                   IF t \in Active(ChainOf(p)) THEN "revoked" ELSE refresh[t]]
  /\ revoked' = revoked \cup {ChainOf(p)}
  /\ Release(p)
  /\ UNCHANGED <<now, role, authorization, pair, access, sweep, changes, began,
                 late>>

-----------------------------------------------------------------------------
(* Cleanup: three queries with the time its run began *)

SweepCodes ==
  /\ sweep.table = "codes"
  /\ codes' = [c \in Chain |-> IF codes[c] # "none" /\ expires[c] < now
                               THEN "gone" ELSE codes[c]]
  /\ sweep' = [table |-> "access", time |-> now]
  /\ UNCHANGED <<now, role, granted, expires, tokens, lock, request, changes,
                 ghosts>>

SweepAccess ==
  /\ sweep.table = "access"
  /\ access' = {t \in access : pair[t].minted + AccessLifetime >= sweep.time}
  /\ sweep' = [sweep EXCEPT !.table = "refresh"]
  /\ UNCHANGED <<now, role, authorization, pair, refresh, lock, request,
                 changes, ghosts>>

SweepRefresh ==
  /\ sweep.table = "refresh"
  /\ refresh' = [t \in Token |->
                   IF t \in Issued /\ pair[t].minted + RefreshLifetime < sweep.time
                   THEN "gone" ELSE refresh[t]]
  /\ sweep' = [table |-> "codes", time |-> 0]
  /\ UNCHANGED <<now, role, authorization, pair, access, lock, request, changes,
                 ghosts>>

\* A failed query ends the run; the next one starts over.
SweepFails ==
  /\ sweep.table # "codes" /\ sweep' = [table |-> "codes", time |-> 0]
  /\ UNCHANGED <<now, role, authorization, tokens, lock, request, changes,
                 ghosts>>

Cleanup == SweepCodes \/ SweepAccess \/ SweepRefresh \/ SweepFails

Endpoint(p) ==
  \/ Start(p) \/ Leave(p) \/ LoadCode(p) \/ LoadRefresh(p) \/ LoadLogout(p)
  \/ ExchangeFails(p) \/ ExchangeCode(p) \/ Rotate(p)
  \/ LogoutToken(p) \/ RevokeAccess(p) \/ RevokeRefresh(p)

Next ==
  \/ Tick \/ UpdateRole \/ RemoveUser \/ AddUser \/ Cleanup
  \/ \E c \in Chain : ReadRole(c) \/ CreateCode(c)
  \/ \E p \in Request : Endpoint(p)

Spec == Init /\ [][Next]_vars

-----------------------------------------------------------------------------
(* Properties *)

\* A chain has at most one usable refresh token: rotate_refresh_token revokes
\* the old row in the transaction that stores the new one.
OneLivePerChain == \A c \in Chain : Cardinality(Active(c)) <= 1

\* A chain ended by sign-out, by a replayed code or token, or by a change or
\* removal of the user keeps no token row, whatever was under way: a rotation
\* that has read its token, an exchange that has read its code.
RevokedStaysRevoked ==
  \A c \in revoked : Active(c) = {} /\ access \cap Of(c) = {}

\* No pair is asked for later than the chain's lifetime after the exchange of
\* the code it descends from, however often it is rotated
\* (docs/security.md:11, "cannot be rotated for longer than 30 days").
ChainEnds ==
  \A t \in Issued : pair[t].asked <= began[pair[t].chain] + ChainLifetime

\* A stored token of an earlier role of the user comes from a sign-in that was
\* under way when the role changed; no rotation carries one over.
TokensMatchRole ==
  \A t \in Issued :
    refresh[t] \in {"active", "revoked"} \/ t \in access
      => pair[t].role = role \/ pair[t].chain \in late

\* However often a sign-in's tokens are rotated they carry the role its scopes
\* were cut down to when it was authorized: rotate_refresh_token copies the
\* stored scopes, and a chain never takes over those of another one.
ScopesNeverWiden == \A t \in Issued : pair[t].role = granted[pair[t].chain]

\* The access token a chain is served by is the one handed out with its usable
\* refresh token: exchange and rotation leave no second access row behind,
\* also when a sign-out was cut short before or between its queries.
AccessIsPaired ==
  \A c \in Chain : \A t \in access \cap Of(c) :
    /\ Active(c) \subseteq {t}
    /\ access \cap Of(c) = {t}

\* A code that has handed out a token is never exchanged again, whichever
\* requests race with it, so that its chain begins once and its lifetime is
\* counted from there.
ChainBeginsOnce ==
  [][\A c \in Chain : Of(c) # {} => began'[c] = began[c]]_vars

HolderOf == [c \in Chain |->
  IF Active(c) # {} THEN CHOOSE t \in Token : t \in Active(c)
  ELSE IF Of(c) # {} THEN "ended" ELSE "pending"]

Abstract == INSTANCE RefreshChain WITH holder <- HolderOf, used <- Issued

\* The chains of the token store are those of RefreshChain.
ImplementsRefreshChain == Abstract!Spec
=============================================================================
