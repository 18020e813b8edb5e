-------------------------- MODULE OAuthTokensProofs --------------------------
(***************************************************************************)
(* Proofs about OAuthTokens, for any chains, tokens, requests, roles,      *)
(* lifetimes and bounds.                                                   *)
(***************************************************************************)
EXTENDS OAuthTokens, FiniteSetTheorems, TLAPS

-----------------------------------------------------------------------------
(* The inductive invariant *)

\* A code that exists was granted to a role, and one whose pair was handed out
\* is not redeemable any more.
CodeInv ==
  /\ \A c \in Chain : codes[c] # "none" => granted[c] \in Role
  /\ \A t \in Issued : codes[pair[t].chain] \in {"used", "gone"}

\* At most one usable token per chain, without counting.
LiveInv ==
  \A t, u \in Issued :
    /\ refresh[t] = "active" /\ refresh[u] = "active"
    /\ pair[t].chain = pair[u].chain
    => t = u

\* A chain that ended had its code redeemed or swept, and keeps no row.
RevokedInv ==
  \A c \in revoked :
    /\ codes[c] \in {"used", "gone"}
    /\ \A t \in Issued : pair[t].chain = c => /\ refresh[t] # "active"
                                              /\ t \notin access

\* Every pair carries the time its chain began and is within its lifetime.
FirstInv ==
  \A t \in Issued :
    /\ pair[t].first = began[pair[t].chain]
    /\ pair[t].asked <= pair[t].first + ChainLifetime

\* Rows, and sign-ins still to be redeemed, carry the role or are late.
RoleInv ==
  /\ TokensMatchRole
  /\ \A c \in Pending : granted[c] = role \/ c \in late

\* What a request knows of the rows it has read, kept up by the token lock:
\* between the two queries of a revocation nothing stores an access row.
Knows(p) ==
  LET r == request[p] IN
  /\ lock = p
  /\ r.kind = "code" => r.arg \in Chain /\ codes[r.arg] # "none"
  /\ r.kind # "code" => r.arg \in Issued
  /\ r.step = "commit" /\ r.kind = "refresh"
       => r.asked <= pair[r.arg].first + ChainLifetime
  /\ r.step \in {"access", "refresh"} /\ r.kind = "code"
       => codes[r.arg] \in {"used", "gone"}
  /\ r.step = "refresh"
       => \A t \in access : pair[t].chain # ChainOf(p)

RequestInv == \A p \in Request : request[p] # NoRequest => Knows(p)

RowsInv == CodeInv /\ LiveInv /\ RevokedInv /\ FirstInv /\ RoleInv

IInv == TypeOK /\ RowsInv /\ RequestInv

-----------------------------------------------------------------------------
(* Types *)

LEMMA InitType == Init => TypeOK
<1> SUFFICES ASSUME Init PROVE TypeOK
  OBVIOUS
<1>1. Issued = {}
  BY DEF Init, Issued
<1>2. pair \in [Issued -> Pair]
  BY <1>1 DEF Init
<1> QED
  BY <1>1, <1>2 DEF Init, TypeOK

\* Only one call is under way, and it is well typed.
LEMMA CallType ==
  ASSUME TypeOK, NEW p \in Request, request[p] # NoRequest
  PROVE  request[p] \in Call
BY DEF TypeOK

LEMMA GotoType ==
  ASSUME TypeOK, NEW p \in Request, NEW s \in Step, request[p] # NoRequest,
         Goto(p, s)
  PROVE  request' \in [Request -> Call \cup {NoRequest}]
BY CallType DEF TypeOK, Goto, Call

LEMMA ReleaseType ==
  ASSUME TypeOK, NEW p \in Request, Release(p)
  PROVE  /\ request' \in [Request -> Call \cup {NoRequest}]
         /\ lock' \in Request \cup {NoRequest}
BY DEF TypeOK, Release

\* Handing out a pair keeps the rows of the others and their types.
LEMMA InsertType ==
  ASSUME TypeOK, CodeInv, RequestInv, NEW p \in Request, request[p] # NoRequest,
         NEW t \in Token \ Issued, NEW granting \in Role, NEW first \in Nat,
         Insert(p, t, granting, first), Issued' = Issued \cup {t}
  PROVE  /\ pair' \in [Issued' -> Pair]
         /\ \A u \in Issued : pair'[u] = pair[u]
         /\ pair'[t] = [chain |-> ChainOf(p), role |-> granting,
                        first |-> first, asked |-> request[p].asked,
                        minted |-> request[p].minted]
         /\ ChainOf(p) \in Chain
<1>1. request[p] \in Call /\ Knows(p)
  BY CallType DEF RequestInv
<1>2. ChainOf(p) \in Chain
  BY <1>1 DEF Knows, ChainOf, Call, TypeOK, Pair
<1>3. [chain |-> ChainOf(p), role |-> granting, first |-> first,
       asked |-> request[p].asked, minted |-> request[p].minted] \in Pair
  BY <1>1, <1>2 DEF Pair, Call
<1> QED
  BY <1>2, <1>3 DEF Insert, TypeOK

\* Rows only change their status: none is new and none is forgotten.
LEMMA SameIssued ==
  ASSUME \A t \in Token : refresh'[t] = "none" <=> refresh[t] = "none"
  PROVE  Issued' = Issued
BY DEF Issued

LEMMA AdminType ==
  ASSUME TypeOK, UpdateRole \/ RemoveUser \/ AddUser
  PROVE  TypeOK'
<1>1. role' \in Role \cup {NoUser} /\ changes' \in Nat
  BY DEF TypeOK, UpdateRole, RemoveUser, AddUser, Mutation
<1>2. late' \subseteq Chain /\ revoked' \subseteq Chain
  BY DEF TypeOK, UpdateRole, RemoveUser, AddUser, RevokeSubject, Pending
<1>3. CASE RevokeSubject
  <2>1. refresh' \in [Token -> {"none", "active", "revoked", "gone"}]
    BY <1>3 DEF RevokeSubject
  <2>2. \A t \in Token : refresh'[t] = "none" <=> refresh[t] = "none"
    BY <1>3 DEF RevokeSubject, Issued
  <2>3. Issued' = Issued
    BY <2>2, SameIssued
  <2> QED
    BY <1>1, <1>2, <1>3, <2>1, <2>3
    DEF TypeOK, UpdateRole, RemoveUser, AddUser, Mutation, RevokeSubject,
        authorization
<1>4. CASE AddUser
  <2>1. Issued' = Issued
    BY <1>4 DEF AddUser, Issued
  <2> QED
    BY <1>1, <1>2, <1>4, <2>1 DEF TypeOK, AddUser, Mutation, authorization
<1> QED
  BY <1>3, <1>4 DEF UpdateRole, RemoveUser

LEMMA AuthorizeType ==
  ASSUME TypeOK, NEW c \in Chain, ReadRole(c) \/ CreateCode(c)
  PROVE  TypeOK'
<1>1. Issued' = Issued
  BY DEF ReadRole, CreateCode, tokens, Issued
<1>2. CASE ReadRole(c)
  <2>1. granted' \in [Chain -> Role \cup {NoUser}]
    BY <1>2 DEF TypeOK, ReadRole
  <2> QED
    BY <1>1, <1>2, <2>1 DEF TypeOK, ReadRole, tokens, ghosts
<1>3. CASE CreateCode(c)
  <2>1. /\ codes' \in [Chain -> {"none", "active", "used", "gone"}]
        /\ expires' \in [Chain -> Nat]
    BY <1>3, TimeAssumption DEF TypeOK, CreateCode
  <2> QED
    BY <1>1, <1>3, <2>1 DEF TypeOK, CreateCode, tokens, ghosts
<1> QED
  BY <1>2, <1>3

LEMMA SweepType ==
  ASSUME TypeOK, Cleanup
  PROVE  TypeOK'
<1>1. CASE SweepCodes
  <2>1. codes' \in [Chain -> {"none", "active", "used", "gone"}]
    BY <1>1 DEF TypeOK, SweepCodes
  <2>2. sweep' \in [table : {"codes", "access", "refresh"}, time : Nat]
    BY <1>1 DEF TypeOK, SweepCodes
  <2>3. Issued' = Issued
    BY <1>1 DEF SweepCodes, tokens, Issued
  <2> QED
    BY <1>1, <2>1, <2>2, <2>3 DEF TypeOK, SweepCodes, tokens, ghosts
<1>2. CASE SweepAccess
  <2>1. access' \subseteq Issued
    BY <1>2 DEF TypeOK, SweepAccess
  <2>2. sweep' \in [table : {"codes", "access", "refresh"}, time : Nat]
    BY <1>2 DEF TypeOK, SweepAccess
  <2>3. Issued' = Issued
    BY <1>2 DEF SweepAccess, Issued
  <2> QED
    BY <1>2, <2>1, <2>2, <2>3 DEF TypeOK, SweepAccess, authorization, ghosts
<1>3. CASE SweepRefresh
  <2>1. refresh' \in [Token -> {"none", "active", "revoked", "gone"}]
    BY <1>3 DEF TypeOK, SweepRefresh
  <2>2. sweep' \in [table : {"codes", "access", "refresh"}, time : Nat]
    BY <1>3 DEF TypeOK, SweepRefresh
  <2>3. \A t \in Token : refresh'[t] = "none" <=> refresh[t] = "none"
    BY <1>3 DEF SweepRefresh, Issued
  <2>4. Issued' = Issued
    BY <2>3, SameIssued
  <2> QED
    BY <1>3, <2>1, <2>2, <2>4 DEF TypeOK, SweepRefresh, authorization, ghosts
<1>4. CASE SweepFails
  <2>1. Issued' = Issued
    BY <1>4 DEF SweepFails, tokens, Issued
  <2> QED
    BY <1>4, <2>1 DEF TypeOK, SweepFails, authorization, tokens, ghosts
<1> QED
  BY <1>1, <1>2, <1>3, <1>4 DEF Cleanup

\* Steps of a request that leave every row alone.
Reads(p) ==
  Start(p) \/ Leave(p) \/ LoadCode(p) \/ LoadRefresh(p) \/ LoadLogout(p)
    \/ ExchangeFails(p)

LEMMA ReadsType ==
  ASSUME TypeOK, NEW p \in Request, Reads(p)
  PROVE  TypeOK'
<1>1. UNCHANGED <<now, role, authorization, tokens, sweep, changes, ghosts>>
  BY DEF Reads, Start, Leave, LoadCode, LoadRefresh, LoadLogout, ExchangeFails
<1>2. Issued' = Issued
  BY <1>1 DEF tokens, Issued
<1>3. lock' \in Request \cup {NoRequest}
  BY DEF TypeOK, Reads, Start, Leave, Release, LoadCode, LoadRefresh,
         LoadLogout, ExchangeFails
<1>4. request' \in [Request -> Call \cup {NoRequest}]
  <2>1. CASE Start(p)
    <3>0. PICK kind \in {"code", "refresh", "logout"} :
            \E arg \in Arguments(kind) : request' = [request EXCEPT ![p] =
              [step |-> "load", kind |-> kind, arg |-> arg, asked |-> now,
               minted |-> now]]
      BY <2>1 DEF Start
    <3>1. PICK arg \in Arguments(kind) :
            request' = [request EXCEPT ![p] =
              [step |-> "load", kind |-> kind, arg |-> arg, asked |-> now,
               minted |-> now]]
      BY <3>0
    <3>2. arg \in Chain \cup Token
      BY <3>1 DEF Arguments, Issued
    <3>3. [step |-> "load", kind |-> kind, arg |-> arg, asked |-> now,
           minted |-> now] \in Call
      BY <3>2 DEF Call, Step, TypeOK
    <3> QED
      BY <3>1, <3>3 DEF TypeOK
  <2>2. CASE Leave(p)
    BY <2>2, ReleaseType DEF Leave
  <2>3. CASE request[p] # NoRequest /\ Mint(p)
    <3>1. [request[p] EXCEPT !.step = "commit", !.minted = now] \in Call
      BY <2>3, CallType DEF TypeOK, Call, Step
    <3> QED
      BY <2>3, <3>1 DEF TypeOK, Mint
  <2>4. CASE request[p] # NoRequest /\ \E s \in Step : Goto(p, s)
    BY <2>4, GotoType
  <2> QED
    BY <2>1, <2>2, <2>3, <2>4
    DEF Reads, LoadCode, LoadRefresh, LoadLogout, ExchangeFails, At, Step
<1> QED
  BY <1>1, <1>2, <1>3, <1>4 DEF TypeOK, authorization, tokens, ghosts

LEMMA StampsType ==
  ASSUME TypeOK, CodeInv, NEW p \in Request, request[p] # NoRequest, Knows(p)
  PROVE  /\ request[p] \in Call
         /\ request[p].asked \in Nat /\ request[p].minted \in Nat
BY CallType DEF Call

\* What redeeming a code does to the rows.
LEMMA ExchangeRows ==
  ASSUME TypeOK, CodeInv, RequestInv, NEW p \in Request, ExchangeCode(p)
  PROVE  LET code == request[p].arg IN
         /\ code \in Chain /\ ChainOf(p) = code /\ request[p].asked \in Nat
         /\ codes[code] = "active" /\ granted[code] \in Role
         /\ codes' = [codes EXCEPT ![code] = "used"]
         /\ began' = [began EXCEPT ![code] = request[p].asked]
         /\ \E t \in Token \ Issued :
              /\ Issued' = Issued \cup {t}
              /\ refresh' = [refresh EXCEPT ![t] = "active"]
              /\ access' = access \cup {t}
              /\ pair' \in [Issued' -> Pair]
              /\ \A u \in Issued : pair'[u] = pair[u]
              /\ pair'[t].chain = code /\ pair'[t].role = granted[code]
              /\ pair'[t].first = request[p].asked
              /\ pair'[t].asked = request[p].asked
<1> DEFINE code == request[p].arg
<1>1. /\ request[p] # NoRequest /\ Knows(p) /\ request[p].kind = "code"
      /\ codes[code] = "active"
  BY DEF ExchangeCode, At, RequestInv
<1>2. code \in Chain /\ ChainOf(p) = code /\ granted[code] \in Role
  BY <1>1 DEF Knows, ChainOf, CodeInv
<1>3. request[p].asked \in Nat
  BY <1>1, StampsType
<1>4. PICK t \in Token \ Issued :
        /\ Insert(p, t, granted[code], request[p].asked)
        /\ refresh' = [refresh EXCEPT ![t] = "active"]
        /\ access' = access \cup {t}
  BY DEF ExchangeCode
<1>5. Issued' = Issued \cup {t}
  BY <1>4 DEF Issued, TypeOK
<1>6. /\ pair' \in [Issued' -> Pair]
      /\ \A u \in Issued : pair'[u] = pair[u]
      /\ pair'[t] = [chain |-> ChainOf(p), role |-> granted[code],
                     first |-> request[p].asked, asked |-> request[p].asked,
                     minted |-> request[p].minted]
  BY <1>1, <1>2, <1>3, <1>4, <1>5, InsertType, SMTT(30)
<1>7. /\ pair'[t].chain = code /\ pair'[t].role = granted[code]
      /\ pair'[t].first = request[p].asked /\ pair'[t].asked = request[p].asked
  BY <1>2, <1>6
<1> QED
  BY <1>1, <1>2, <1>3, <1>4, <1>5, <1>6, <1>7 DEF ExchangeCode, Redeemed

\* What a rotation does to the rows.
LEMMA RotateRows ==
  ASSUME TypeOK, CodeInv, RequestInv, NEW p \in Request, Rotate(p)
  PROVE  LET old == request[p].arg IN
         /\ old \in Issued /\ refresh[old] = "active"
         /\ ChainOf(p) = pair[old].chain
         /\ request[p].asked <= pair[old].first + ChainLifetime
         /\ \E t \in Token \ Issued :
              /\ Issued' = Issued \cup {t}
              /\ refresh' = [refresh EXCEPT ![old] = "revoked", ![t] = "active"]
              /\ access' = (access \ Of(pair[old].chain)) \cup {t}
              /\ pair' \in [Issued' -> Pair]
              /\ \A u \in Issued : pair'[u] = pair[u]
              /\ pair'[t].chain = pair[old].chain
              /\ pair'[t].role = pair[old].role
              /\ pair'[t].first = pair[old].first
              /\ pair'[t].asked = request[p].asked
<1> DEFINE old == request[p].arg
<1>1. /\ request[p] # NoRequest /\ Knows(p) /\ request[p].kind = "refresh"
      /\ request[p].step = "commit" /\ refresh[old] = "active"
  BY DEF Rotate, Rotatable, At, RequestInv
<1>2. /\ old \in Issued /\ ChainOf(p) = pair[old].chain
      /\ request[p].asked <= pair[old].first + ChainLifetime
  BY <1>1 DEF Knows, ChainOf
<1>3. pair[old] \in Pair
  BY <1>2 DEF TypeOK
<1>4. pair[old].role \in Role /\ pair[old].first \in Nat
  BY <1>3 DEF Pair
<1>5. PICK t \in Token \ Issued :
        /\ Insert(p, t, pair[old].role, pair[old].first)
        /\ refresh' = [refresh EXCEPT ![old] = "revoked", ![t] = "active"]
        /\ access' = (access \ Of(ChainOf(p))) \cup {t}
  BY DEF Rotate, FirstIssued, Rotated
<1>6. Issued' = Issued \cup {t}
  BY <1>2, <1>5 DEF Issued, TypeOK
<1>7. /\ pair' \in [Issued' -> Pair]
      /\ \A u \in Issued : pair'[u] = pair[u]
      /\ pair'[t] = [chain |-> ChainOf(p), role |-> pair[old].role,
                     first |-> pair[old].first, asked |-> request[p].asked,
                     minted |-> request[p].minted]
  BY <1>1, <1>4, <1>5, <1>6, InsertType
<1>8. /\ pair'[t].chain = pair[old].chain /\ pair'[t].role = pair[old].role
      /\ pair'[t].first = pair[old].first /\ pair'[t].asked = request[p].asked
  BY <1>2, <1>7
<1> QED
  BY <1>1, <1>2, <1>5, <1>6, <1>7, <1>8

\* Steps that revoke rows: of one token, or of a chain.
Revokes(p) == LogoutToken(p) \/ RevokeAccess(p) \/ RevokeRefresh(p)

\* Rows of pairs only go from active to revoked, and access rows disappear.
LEMMA RevokesRows ==
  ASSUME TypeOK, RequestInv, NEW p \in Request, Revokes(p)
  PROVE  /\ Issued' = Issued /\ pair' = pair /\ access' \subseteq access
         /\ refresh' \in [Token -> {"none", "active", "revoked", "gone"}]
         /\ \A t \in Token : refresh'[t] = "active" => refresh[t] = "active"
         /\ \A t \in Token : refresh[t] = "gone" <=> refresh'[t] = "gone"
<1>1. CASE LogoutToken(p)
  <2>1. UNCHANGED <<pair, access>>
    BY <1>1 DEF LogoutToken
  <2>2. CASE refresh[request[p].arg] = "active"
             /\ refresh' = [refresh EXCEPT ![request[p].arg] = "revoked"]
    <3>1. refresh' \in [Token -> {"none", "active", "revoked", "gone"}]
      BY <2>2 DEF TypeOK
    <3>2. \A t \in Token : refresh'[t] = "none" <=> refresh[t] = "none"
      BY <2>2 DEF TypeOK
    <3> QED
      BY <2>1, <2>2, <3>1, <3>2, SameIssued DEF TypeOK
  <2>3. CASE UNCHANGED refresh
    BY <2>1, <2>3 DEF TypeOK, Issued
  <2> QED
    BY <1>1, <2>2, <2>3 DEF LogoutToken
<1>2. CASE RevokeAccess(p)
  BY <1>2 DEF RevokeAccess, TypeOK, Issued
<1>3. CASE RevokeRefresh(p)
  <2>1. refresh' = [t \in Token |->
                      IF t \in Active(ChainOf(p)) THEN "revoked" ELSE refresh[t]]
    BY <1>3 DEF RevokeRefresh
  <2>2. \A t \in Active(ChainOf(p)) : refresh[t] = "active"
    BY DEF Active
  <2>3. \A t \in Token : refresh'[t] = "none" <=> refresh[t] = "none"
    BY <2>1, <2>2
  <2>4. refresh' \in [Token -> {"none", "active", "revoked", "gone"}]
    BY <2>1 DEF TypeOK
  <2> QED
    BY <1>3, <2>1, <2>2, <2>3, <2>4, SameIssued DEF RevokeRefresh
<1> QED
  BY <1>1, <1>2, <1>3 DEF Revokes

LEMMA WritesType ==
  ASSUME TypeOK, CodeInv, RequestInv, NEW p \in Request,
         ExchangeCode(p) \/ Rotate(p) \/ Revokes(p)
  PROVE  TypeOK'
<1>1. CASE ExchangeCode(p)
  <2>1. /\ request' \in [Request -> Call \cup {NoRequest}]
        /\ lock' \in Request \cup {NoRequest}
    BY <1>1, ReleaseType DEF ExchangeCode
  <2>2. PICK t \in Token \ Issued :
          /\ Issued' = Issued \cup {t}
          /\ refresh' = [refresh EXCEPT ![t] = "active"]
          /\ access' = access \cup {t}
          /\ pair' \in [Issued' -> Pair]
    BY <1>1, ExchangeRows
  <2>3. /\ codes' \in [Chain -> {"none", "active", "used", "gone"}]
        /\ began' \in [Chain -> Nat]
    BY <1>1, ExchangeRows DEF TypeOK
  <2>4. /\ refresh' \in [Token -> {"none", "active", "revoked", "gone"}]
        /\ access' \subseteq Issued'
    BY <2>2 DEF TypeOK
  <2> QED
    BY <1>1, <2>1, <2>2, <2>3, <2>4 DEF ExchangeCode, TypeOK
<1>2. CASE Rotate(p)
  <2>1. /\ request' \in [Request -> Call \cup {NoRequest}]
        /\ lock' \in Request \cup {NoRequest}
    BY <1>2, ReleaseType DEF Rotate
  <2>2. PICK t \in Token \ Issued :
          /\ Issued' = Issued \cup {t}
          /\ refresh' = [refresh EXCEPT ![request[p].arg] = "revoked",
                                        ![t] = "active"]
          /\ access' = (access \ Of(pair[request[p].arg].chain)) \cup {t}
          /\ pair' \in [Issued' -> Pair]
    BY <1>2, RotateRows
  <2>3. /\ refresh' \in [Token -> {"none", "active", "revoked", "gone"}]
        /\ access' \subseteq Issued'
    BY <2>2 DEF TypeOK
  <2> QED
    BY <1>2, <2>1, <2>2, <2>3 DEF Rotate, TypeOK, authorization, ghosts
<1>3. CASE Revokes(p)
  <2>1. /\ Issued' = Issued /\ pair' = pair /\ access' \subseteq access
        /\ refresh' \in [Token -> {"none", "active", "revoked", "gone"}]
    BY <1>3, RevokesRows
  <2>2. request[p] # NoRequest
    BY <1>3 DEF Revokes, LogoutToken, RevokeAccess, RevokeRefresh, At
  <2>3. CASE LogoutToken(p) \/ RevokeAccess(p)
    <3>1. request' \in [Request -> Call \cup {NoRequest}]
      BY <2>2, <2>3, GotoType DEF LogoutToken, RevokeAccess, Step
    <3> QED
      BY <2>1, <2>3, <3>1
      DEF LogoutToken, RevokeAccess, TypeOK, authorization, ghosts
  <2>4. CASE RevokeRefresh(p)
    <3>1. /\ request' \in [Request -> Call \cup {NoRequest}]
          /\ lock' \in Request \cup {NoRequest}
      BY <2>4, ReleaseType DEF RevokeRefresh
    <3>2. ChainOf(p) \in Chain
      BY <2>2 DEF RequestInv, Knows, ChainOf, TypeOK, Pair
    <3> QED
      BY <2>1, <2>4, <3>1, <3>2 DEF RevokeRefresh, TypeOK, authorization
  <2> QED
    BY <1>3, <2>3, <2>4 DEF Revokes
<1> QED
  BY <1>1, <1>2, <1>3

LEMMA NextType ==
  ASSUME TypeOK, CodeInv, RequestInv, [Next]_vars
  PROVE  TypeOK'
<1>1. CASE UNCHANGED vars
  <2>1. Issued' = Issued
    BY <1>1 DEF vars, tokens, Issued
  <2> QED
    BY <1>1, <2>1 DEF TypeOK, vars, authorization, tokens, ghosts
<1>2. CASE Tick
  <2>1. Issued' = Issued
    BY <1>2 DEF Tick, tokens, Issued
  <2> QED
    BY <1>2, <2>1 DEF TypeOK, Tick, authorization, tokens, ghosts
<1>3. CASE UpdateRole \/ RemoveUser \/ AddUser
  BY <1>3, AdminType
<1>4. CASE Cleanup
  BY <1>4, SweepType
<1>5. ASSUME NEW c \in Chain, ReadRole(c) \/ CreateCode(c)
      PROVE  TypeOK'
  BY <1>5, AuthorizeType
<1>6. ASSUME NEW p \in Request, Endpoint(p)
      PROVE  TypeOK'
  BY <1>6, ReadsType, WritesType DEF Endpoint, Reads, Revokes
<1> QED
  BY <1>1, <1>2, <1>3, <1>4, <1>5, <1>6 DEF Next

-----------------------------------------------------------------------------
(* The rows *)

LEMMA InitRows == Init => RowsInv
<1> SUFFICES ASSUME Init PROVE RowsInv
  OBVIOUS
<1>1. Issued = {} /\ Pending = {}
  BY DEF Init, Issued, Pending
<1> QED
  BY <1>1 DEF Init, RowsInv, CodeInv, LiveInv, RevokedInv, FirstInv, RoleInv,
              TokensMatchRole

\* Steps that touch no row and no history leave the rows' invariant as it is.
LEMMA QuietRows ==
  ASSUME RowsInv, UNCHANGED <<role, authorization, tokens, ghosts>>
  PROVE  RowsInv'
<1>1. Issued' = Issued /\ Pending' = Pending
  BY DEF Issued, Pending, tokens, authorization
<1> QED
  BY <1>1 DEF RowsInv, CodeInv, LiveInv, RevokedInv, FirstInv, RoleInv,
              TokensMatchRole, authorization, tokens, ghosts

LEMMA AuthorizeRows ==
  ASSUME TypeOK, RowsInv, NEW c \in Chain, ReadRole(c) \/ CreateCode(c)
  PROVE  RowsInv'
<1>1. UNCHANGED <<role, tokens, ghosts>> /\ Issued' = Issued
  BY DEF ReadRole, CreateCode, tokens, Issued
<1>2. /\ \A d \in Chain : codes'[d] # "none" => granted'[d] \in Role
      /\ \A d \in Chain : codes[d] \in {"used", "gone"} => codes'[d] = codes[d]
  BY DEF ReadRole, CreateCode, TypeOK, RowsInv, CodeInv
<1>3. \A t \in Issued : pair[t].chain \in Chain
  BY DEF TypeOK, Pair
<1>4. CodeInv' /\ LiveInv' /\ RevokedInv' /\ FirstInv'
  BY <1>1, <1>2, <1>3
  DEF RowsInv, CodeInv, LiveInv, RevokedInv, FirstInv, tokens, ghosts, TypeOK
<1>5. \A d \in Pending' : granted'[d] = role \/ d \in late
  BY DEF ReadRole, CreateCode, TypeOK, RowsInv, RoleInv, Pending
<1>6. RoleInv'
  BY <1>1, <1>5 DEF RowsInv, RoleInv, TokensMatchRole, tokens, ghosts
<1> QED
  BY <1>4, <1>6 DEF RowsInv

LEMMA AdminRows ==
  ASSUME TypeOK, RowsInv, UpdateRole \/ RemoveUser \/ AddUser
  PROVE  RowsInv'
<1>1. /\ UNCHANGED <<granted, codes, pair, began>>
      /\ late' = late \cup Pending /\ Pending' = Pending
  BY DEF UpdateRole, RemoveUser, AddUser, Mutation, RevokeSubject, Pending,
         authorization
<1>2. CASE RevokeSubject
  <2>1. /\ refresh' = [t \in Token |-> IF t \in Issued THEN "gone" ELSE "none"]
        /\ access' = {}
        /\ revoked' = revoked \cup {c \in Chain : Of(c) # {}}
    BY <1>2 DEF RevokeSubject
  <2>2. Issued' = Issued
    BY <2>1, SameIssued DEF Issued
  <2>3. \A c \in Chain : Of(c) # {} => codes[c] \in {"used", "gone"}
    BY DEF RowsInv, CodeInv, Of
  <2>4. \A t \in Issued : refresh'[t] = "gone"
    BY <2>1 DEF Issued
  <2>5. CodeInv' /\ LiveInv' /\ FirstInv'
    BY <1>1, <2>2, <2>4 DEF RowsInv, CodeInv, LiveInv, FirstInv
  <2>6. RevokedInv'
    BY <1>1, <2>1, <2>2, <2>3, <2>4 DEF RowsInv, RevokedInv
  <2>7. RoleInv'
    BY <1>1, <2>1, <2>2, <2>4 DEF RoleInv, TokensMatchRole
  <2> QED
    BY <2>5, <2>6, <2>7 DEF RowsInv
<1>3. CASE AddUser
  <2>1. UNCHANGED <<refresh, access, revoked>> /\ Issued' = Issued
    BY <1>3 DEF AddUser, Issued
  <2>2. CodeInv' /\ LiveInv' /\ FirstInv' /\ RevokedInv'
    BY <1>1, <2>1 DEF RowsInv, CodeInv, LiveInv, FirstInv, RevokedInv
  <2>3. \A t \in Issued : pair[t].role # role
    BY <1>3, NoUserAssumption DEF AddUser, TypeOK, Pair
  <2>4. RoleInv'
    BY <1>1, <2>1, <2>3 DEF RowsInv, RoleInv, TokensMatchRole
  <2> QED
    BY <2>2, <2>4 DEF RowsInv
<1> QED
  BY <1>2, <1>3 DEF UpdateRole, RemoveUser

LEMMA ExchangeKeepsRows ==
  ASSUME TypeOK, RowsInv, RequestInv, NEW p \in Request, ExchangeCode(p)
  PROVE  RowsInv'
<1> DEFINE code == request[p].arg
<1> USE DEF RowsInv
<1>1. /\ code \in Chain /\ request[p].asked \in Nat
      /\ codes[code] = "active" /\ granted[code] \in Role
      /\ codes' = [codes EXCEPT ![code] = "used"]
      /\ began' = [began EXCEPT ![code] = request[p].asked]
  BY ExchangeRows
<1>2. PICK t \in Token \ Issued :
        /\ Issued' = Issued \cup {t}
        /\ refresh' = [refresh EXCEPT ![t] = "active"]
        /\ access' = access \cup {t}
        /\ pair' \in [Issued' -> Pair]
        /\ \A u \in Issued : pair'[u] = pair[u]
        /\ pair'[t].chain = code /\ pair'[t].role = granted[code]
        /\ pair'[t].first = request[p].asked
        /\ pair'[t].asked = request[p].asked
  BY ExchangeRows
<1>3. UNCHANGED <<granted, role, revoked, late>>
  BY DEF ExchangeCode
<1>4. \A u \in Issued : pair[u].chain \in Chain /\ pair[u].chain # code
  BY <1>1 DEF CodeInv, TypeOK, Pair
<1>5. \A u \in Issued : refresh'[u] = refresh[u] /\ u # t
  BY <1>2 DEF TypeOK, Issued
<1>6. \A c \in Chain : codes'[c] = IF c = code THEN "used" ELSE codes[c]
  BY <1>1 DEF TypeOK
<1>7. \A c \in Chain : c # code => began'[c] = began[c]
  BY <1>1 DEF TypeOK
<1>8. began'[code] = request[p].asked
  BY <1>1 DEF TypeOK
<1>9. CodeInv'
  BY <1>1, <1>2, <1>3, <1>4, <1>6 DEF CodeInv
<1>10. LiveInv'
  BY <1>2, <1>4, <1>5 DEF LiveInv
<1>11. code \notin revoked
  BY <1>1 DEF RevokedInv
<1>12. RevokedInv'
  BY <1>2, <1>3, <1>5, <1>6, <1>11 DEF RevokedInv, TypeOK
<1>13. FirstInv'
  BY <1>1, <1>2, <1>4, <1>7, <1>8, TimeAssumption DEF FirstInv
<1>14. code \in Pending /\ Pending' \subseteq Pending
  BY <1>1, <1>3, <1>6, NoUserAssumption DEF Pending
<1>15. RoleInv'
  BY <1>2, <1>3, <1>5, <1>14 DEF RoleInv, TokensMatchRole
<1> QED
  BY <1>9, <1>10, <1>12, <1>13, <1>15

LEMMA RotateKeepsRows ==
  ASSUME TypeOK, RowsInv, RequestInv, NEW p \in Request, Rotate(p)
  PROVE  RowsInv'
<1> DEFINE old == request[p].arg
<1> USE DEF RowsInv
<1>1. /\ old \in Issued /\ refresh[old] = "active"
      /\ request[p].asked <= pair[old].first + ChainLifetime
  BY RotateRows
<1>2. PICK t \in Token \ Issued :
        /\ Issued' = Issued \cup {t}
        /\ refresh' = [refresh EXCEPT ![old] = "revoked", ![t] = "active"]
        /\ access' = (access \ Of(pair[old].chain)) \cup {t}
        /\ pair' \in [Issued' -> Pair]
        /\ \A u \in Issued : pair'[u] = pair[u]
        /\ pair'[t].chain = pair[old].chain
        /\ pair'[t].role = pair[old].role
        /\ pair'[t].first = pair[old].first
        /\ pair'[t].asked = request[p].asked
  BY RotateRows
<1>3. UNCHANGED <<authorization, role, ghosts>>
  BY DEF Rotate
<1>4. /\ \A u \in Issued : u # old => refresh'[u] = refresh[u]
      /\ refresh'[old] = "revoked"
      /\ \A u \in Issued : refresh'[u] \in {refresh[u], "revoked"}
  BY <1>1, <1>2 DEF TypeOK, Issued
<1>5. CodeInv'
  BY <1>1, <1>2, <1>3 DEF CodeInv, authorization
<1>6. \A u \in Issued : refresh'[u] = "active" => pair[u].chain # pair[old].chain
  BY <1>1, <1>4 DEF LiveInv
<1>7. LiveInv'
  <2>1. \A u, v \in Issued : refresh'[u] = "active" /\ refresh'[v] = "active"
          /\ pair[u].chain = pair[v].chain => u = v
    BY <1>1, <1>4 DEF LiveInv
  <2>2. \A u \in Issued : refresh'[u] = "active" => pair'[u].chain # pair'[t].chain
    BY <1>2, <1>6
  <2>3. /\ Issued' = Issued \cup {t}
        /\ \A u \in Issued : pair'[u].chain = pair[u].chain
    BY <1>2
  <2>4. ASSUME NEW u \in Issued', NEW v \in Issued', refresh'[u] = "active",
               refresh'[v] = "active", pair'[u].chain = pair'[v].chain
        PROVE  u = v
    <3>1. CASE u = t \/ v = t
      BY <2>2, <2>3, <2>4, <3>1
    <3>2. CASE u \in Issued /\ v \in Issued
      BY <2>1, <2>3, <2>4, <3>2
    <3> QED
      BY <2>3, <3>1, <3>2
  <2> QED
    BY <2>4 DEF LiveInv
<1>8. pair[old].chain \notin revoked
  BY <1>1 DEF RevokedInv
<1>9. RevokedInv'
  <2>1. revoked' = revoked /\ codes' = codes /\ pair'[t].chain \notin revoked
    BY <1>2, <1>3, <1>8 DEF authorization, ghosts
  <2>2. ASSUME NEW c \in revoked, NEW u \in Issued, pair[u].chain = c
        PROVE  refresh'[u] # "active" /\ u \notin access'
    <3>1. refresh[u] # "active" /\ u \notin access
      BY <2>2 DEF RevokedInv
    <3>2. u # t /\ refresh'[u] \in {refresh[u], "revoked"}
      BY <1>2, <1>4
    <3> QED
      BY <1>2, <3>1, <3>2
  <2>3. /\ Issued' = Issued \cup {t}
        /\ \A u \in Issued : pair'[u].chain = pair[u].chain
    BY <1>2
  <2>4. \A c \in revoked : codes[c] \in {"used", "gone"}
    BY DEF RevokedInv
  <2> QED
    BY <2>1, <2>2, <2>3, <2>4, Zenon DEF RevokedInv
<1>10. FirstInv'
  BY <1>1, <1>2, <1>3 DEF FirstInv, ghosts
<1>11. Pending' = Pending
  BY <1>3 DEF Pending, authorization
<1>12. \A u \in Issued : u \in access' => u \in access
  BY <1>2
<1>13. \A u \in Issued : refresh'[u] \in {"active", "revoked"}
                           => refresh[u] \in {"active", "revoked"}
  BY <1>1, <1>4
<1>14. RoleInv'
  BY <1>1, <1>2, <1>3, <1>11, <1>12, <1>13
  DEF RoleInv, TokensMatchRole, authorization, ghosts
<1> QED
  BY <1>5, <1>7, <1>9, <1>10, <1>14

\* Rows that only disappear or are revoked, on the same pairs and codes that
\* only become gone, keep the rows' invariant.
LEMMA FewerRows ==
  ASSUME TypeOK, RowsInv,
         UNCHANGED <<role, granted, pair, began, late>>,
         Issued' = Issued, access' \subseteq access,
         \A t \in Issued : refresh'[t] = "active" => refresh[t] = "active",
         \A t \in Issued : refresh[t] = "gone" => refresh'[t] = "gone",
         \A c \in Chain : codes'[c] \in {codes[c], "gone"}
                            /\ (codes[c] = "none" => codes'[c] = "none"),
         \A c \in revoked' \ revoked :
           /\ codes'[c] \in {"used", "gone"}
           /\ \A t \in Issued : pair[t].chain = c => /\ refresh'[t] # "active"
                                                     /\ t \notin access'
  PROVE  RowsInv'
<1> USE DEF RowsInv
<1>1. \A t \in Issued : pair[t].chain \in Chain
  BY DEF TypeOK, Pair
<1>2. CodeInv' /\ LiveInv' /\ FirstInv'
  BY <1>1 DEF CodeInv, LiveInv, FirstInv
<1>3. ASSUME NEW c \in revoked, NEW t \in Issued, pair[t].chain = c
      PROVE  refresh'[t] # "active" /\ t \notin access'
  BY <1>3 DEF RevokedInv
<1>4. \A c \in revoked : codes'[c] \in {"used", "gone"}
  BY DEF RevokedInv, TypeOK
<1>5. RevokedInv'
  BY <1>3, <1>4 DEF RevokedInv
<1>6. Pending' \subseteq Pending
  BY DEF Pending, TypeOK
<1>7. \A t \in Issued : refresh'[t] \in {"active", "revoked"} \/ t \in access'
        => refresh[t] \in {"active", "revoked"} \/ t \in access
  BY DEF Issued, TypeOK
<1>8. RoleInv'
  BY <1>6, <1>7 DEF RoleInv, TokensMatchRole
<1> QED
  BY <1>2, <1>5, <1>8

LEMMA RevokesKeepsRows ==
  ASSUME TypeOK, RowsInv, RequestInv, NEW p \in Request, Revokes(p)
  PROVE  RowsInv'
<1>1. /\ Issued' = Issued /\ pair' = pair /\ access' \subseteq access
      /\ \A t \in Token : refresh'[t] = "active" => refresh[t] = "active"
      /\ \A t \in Token : refresh[t] = "gone" <=> refresh'[t] = "gone"
  BY RevokesRows
<1>2. UNCHANGED <<role, authorization, began, late>>
  BY DEF Revokes, LogoutToken, RevokeAccess, RevokeRefresh, ghosts
<1>3. \A t \in Issued : t \in Token
  BY DEF Issued
<1>4. CASE LogoutToken(p) \/ RevokeAccess(p)
  <2>1. revoked' = revoked
    BY <1>4 DEF LogoutToken, RevokeAccess, ghosts
  <2> QED
    BY <1>1, <1>2, <1>3, <2>1, FewerRows DEF authorization
<1>5. CASE RevokeRefresh(p)
  <2>1. /\ request[p] # NoRequest /\ request[p].step = "refresh"
        /\ Knows(p)
        /\ revoked' = revoked \cup {ChainOf(p)} /\ access' = access
        /\ refresh' = [t \in Token |->
                         IF t \in Active(ChainOf(p)) THEN "revoked"
                         ELSE refresh[t]]
    BY <1>5 DEF RevokeRefresh, RequestInv
  <2>2. codes[ChainOf(p)] \in {"used", "gone"}
    BY <2>1 DEF Knows, ChainOf, RowsInv, CodeInv
  <2>3. \A t \in Issued : pair[t].chain = ChainOf(p)
          => refresh'[t] # "active" /\ t \notin access'
    BY <2>1, <1>3 DEF Knows, Active, Of
  <2>4. codes' = codes
    BY <1>2 DEF authorization
  <2> QED
    BY <1>1, <1>2, <1>3, <2>1, <2>2, <2>3, <2>4, FewerRows DEF authorization
<1> QED
  BY <1>4, <1>5 DEF Revokes

LEMMA SweepRows ==
  ASSUME TypeOK, RowsInv, Cleanup
  PROVE  RowsInv'
<1>1. UNCHANGED <<role, granted, pair, ghosts>>
  BY DEF Cleanup, SweepCodes, SweepAccess, SweepRefresh, SweepFails, tokens,
         authorization
<1>2. CASE SweepFails
  BY <1>2, QuietRows DEF SweepFails
<1>3. CASE SweepCodes
  <2>1. UNCHANGED <<refresh, access>> /\ Issued' = Issued
    BY <1>3 DEF SweepCodes, tokens, Issued
  <2>2. \A c \in Chain : codes'[c] \in {codes[c], "gone"}
                           /\ (codes[c] = "none" => codes'[c] = "none")
    BY <1>3 DEF SweepCodes
  <2> QED
    BY <1>1, <2>1, <2>2, FewerRows DEF ghosts
<1>4. CASE SweepAccess
  <2>1. UNCHANGED <<refresh, codes>> /\ Issued' = Issued
    BY <1>4 DEF SweepAccess, authorization, Issued
  <2>2. access' \subseteq access
    BY <1>4 DEF SweepAccess
  <2> QED
    BY <1>1, <2>1, <2>2, FewerRows DEF ghosts
<1>5. CASE SweepRefresh
  <2>1. UNCHANGED <<access, codes>>
    BY <1>5 DEF SweepRefresh, authorization
  <2>2. Issued' = Issued
    BY <1>5, SameIssued DEF SweepRefresh, Issued
  <2>3. /\ \A t \in Issued : refresh'[t] = "active" => refresh[t] = "active"
        /\ \A t \in Issued : refresh[t] = "gone" => refresh'[t] = "gone"
    BY <1>5 DEF SweepRefresh, Issued
  <2> QED
    BY <1>1, <2>1, <2>2, <2>3, FewerRows DEF ghosts
<1> QED
  BY <1>2, <1>3, <1>4, <1>5 DEF Cleanup

LEMMA NextRows ==
  ASSUME TypeOK, RowsInv, RequestInv, [Next]_vars
  PROVE  RowsInv'
<1>1. CASE UNCHANGED vars \/ Tick
  BY <1>1, QuietRows DEF vars, Tick
<1>2. CASE UpdateRole \/ RemoveUser \/ AddUser
  BY <1>2, AdminRows
<1>3. CASE Cleanup
  BY <1>3, SweepRows
<1>4. ASSUME NEW c \in Chain, ReadRole(c) \/ CreateCode(c)
      PROVE  RowsInv'
  BY <1>4, AuthorizeRows
<1>5. ASSUME NEW p \in Request, Reads(p)
      PROVE  RowsInv'
  BY <1>5, QuietRows
  DEF Reads, Start, Leave, LoadCode, LoadRefresh, LoadLogout, ExchangeFails
<1>6. ASSUME NEW p \in Request, ExchangeCode(p) \/ Rotate(p) \/ Revokes(p)
      PROVE  RowsInv'
  BY <1>6, ExchangeKeepsRows, RotateKeepsRows, RevokesKeepsRows
<1> QED
  BY <1>1, <1>2, <1>3, <1>4, <1>5, <1>6 DEF Next, Endpoint, Reads, Revokes

-----------------------------------------------------------------------------
(* What requests know *)

\* The lock lets only its holder's request run.
LEMMA OthersIdle ==
  ASSUME TypeOK, RequestInv, NEW p \in Request,
         request[p] # NoRequest \/ lock = NoRequest
  PROVE  \A q \in Request : q # p => request[q] = NoRequest
BY NoRequestAssumption DEF RequestInv, Knows

\* Steps without the lock do not disturb what its holder has read.
LEMMA KnowsKept ==
  ASSUME TypeOK, RequestInv, UNCHANGED <<lock, request, pair>>,
         Issued' = Issued, access' \subseteq access,
         \A c \in Chain : /\ codes[c] # "none" => codes'[c] # "none"
                          /\ codes[c] \in {"used", "gone"}
                               => codes'[c] \in {"used", "gone"}
  PROVE  RequestInv'
<1> SUFFICES ASSUME NEW p \in Request, request[p] # NoRequest
             PROVE  Knows(p)'
  BY DEF RequestInv
<1>1. Knows(p)
  BY DEF RequestInv
<1>2. ChainOf(p)' = ChainOf(p)
  BY DEF ChainOf
<1> QED
  BY <1>1, <1>2 DEF Knows

LEMMA OutsideRequests ==
  ASSUME TypeOK, RequestInv,
         \/ UNCHANGED vars \/ Tick \/ UpdateRole \/ RemoveUser \/ AddUser
         \/ Cleanup \/ \E c \in Chain : ReadRole(c) \/ CreateCode(c)
  PROVE  RequestInv'
<1>1. UNCHANGED <<lock, request, pair>>
  BY DEF vars, tokens, Tick, UpdateRole, RemoveUser, AddUser, Mutation, Cleanup,
         SweepCodes, SweepAccess, SweepRefresh, SweepFails, ReadRole, CreateCode
<1>2. access' \subseteq access
  BY DEF vars, tokens, Tick, UpdateRole, RemoveUser, AddUser, RevokeSubject,
         Cleanup, SweepCodes, SweepAccess, SweepRefresh, SweepFails, ReadRole,
         CreateCode
<1>3. \A t \in Token : refresh'[t] = "none" <=> refresh[t] = "none"
  <2>1. CASE RevokeSubject \/ SweepRefresh
    BY <2>1 DEF RevokeSubject, SweepRefresh, Issued
  <2>2. CASE UNCHANGED refresh
    BY <2>2
  <2> QED
    BY <2>1, <2>2
    DEF vars, tokens, Tick, UpdateRole, RemoveUser, AddUser, Cleanup, SweepCodes,
        SweepAccess, SweepFails, ReadRole, CreateCode
<1>4. Issued' = Issued
  BY <1>3, SameIssued
<1>5. \A c \in Chain : /\ codes[c] # "none" => codes'[c] # "none"
                       /\ codes[c] \in {"used", "gone"}
                            => codes'[c] \in {"used", "gone"}
  <2>1. CASE SweepCodes
    BY <2>1 DEF SweepCodes, TypeOK
  <2>2. CASE \E c \in Chain : CreateCode(c)
    BY <2>2 DEF CreateCode, TypeOK
  <2>3. CASE UNCHANGED codes
    BY <2>3
  <2> QED
    BY <2>1, <2>2, <2>3
    DEF vars, authorization, Tick, UpdateRole, RemoveUser, AddUser, Mutation,
        Cleanup, SweepAccess, SweepRefresh, SweepFails, ReadRole
<1> QED
  BY <1>1, <1>2, <1>4, <1>5, KnowsKept

\* A request that is answered leaves no request behind.
LEMMA ReleaseRequests ==
  ASSUME TypeOK, RequestInv, NEW p \in Request, request[p] # NoRequest, Release(p)
  PROVE  RequestInv'
<1>1. \A q \in Request : request'[q] = NoRequest
  BY OthersIdle DEF Release, TypeOK
<1> QED
  BY <1>1 DEF RequestInv

\* After a step of p that keeps the lock, only what p knows has to be shown.
LEMMA OnlyHolder ==
  ASSUME TypeOK, RequestInv, NEW p \in Request,
         request[p] # NoRequest \/ lock = NoRequest,
         NEW r, request' = [request EXCEPT ![p] = r],
         Knows(p)'
  PROVE  RequestInv'
BY OthersIdle DEF RequestInv, TypeOK

LEMMA ReadsRequests ==
  ASSUME TypeOK, RowsInv, RequestInv, NEW p \in Request, Reads(p)
  PROVE  RequestInv'
<1>1. UNCHANGED <<authorization, tokens>> /\ Issued' = Issued
  BY DEF Reads, Start, Leave, LoadCode, LoadRefresh, LoadLogout, ExchangeFails,
         tokens, Issued
<1>2. UNCHANGED <<codes, pair, access>>
  BY <1>1 DEF authorization, tokens
<1>3. CASE Start(p)
  <2>1. PICK kind \in {"code", "refresh", "logout"} :
          \E arg \in Arguments(kind) : request' = [request EXCEPT ![p] =
            [step |-> "load", kind |-> kind, arg |-> arg, asked |-> now,
             minted |-> now]]
    BY <1>3 DEF Start
  <2>2. PICK arg \in Arguments(kind) :
          request' = [request EXCEPT ![p] =
            [step |-> "load", kind |-> kind, arg |-> arg, asked |-> now,
             minted |-> now]]
    BY <2>1
  <2>3. request'[p] = [step |-> "load", kind |-> kind, arg |-> arg,
                       asked |-> now, minted |-> now]
    BY <2>2 DEF TypeOK
  <2>4. Knows(p)'
    BY <1>1, <1>2, <1>3, <2>1, <2>2, <2>3 DEF Knows, Arguments, Start
  <2> QED
    BY <1>3, <2>2, <2>4, OnlyHolder DEF Start
<1>4. CASE Leave(p)
  BY <1>4, ReleaseRequests DEF Leave
<1>5. CASE LoadCode(p) \/ LoadRefresh(p) \/ LoadLogout(p) \/ ExchangeFails(p)
  <2>1. request[p] # NoRequest /\ lock' = lock /\ request[p] \in Call
    BY <1>5, CallType DEF LoadCode, LoadRefresh, LoadLogout, ExchangeFails, At
  <2>2. Knows(p)
    BY <2>1 DEF RequestInv
  <2>3. ASSUME Mint(p),
               request[p].kind = "refresh"
                 => request[p].asked <= pair[request[p].arg].first + ChainLifetime
        PROVE  RequestInv'
    <3> DEFINE r == [request[p] EXCEPT !.step = "commit", !.minted = now]
    <3>1. request' = [request EXCEPT ![p] = r] /\ request'[p] = r
      BY <2>3 DEF Mint, TypeOK
    <3>2. /\ r.step = "commit" /\ r.kind = request[p].kind
          /\ r.arg = request[p].arg /\ r.asked = request[p].asked
      BY <2>1 DEF Call
    <3> HIDE DEF r
    <3>4. Knows(p)'
      BY <1>1, <1>2, <2>1, <2>2, <2>3, <3>1, <3>2 DEF Knows
    <3> QED
      BY <2>1, <3>1, <3>4, OnlyHolder
  <2>4. ASSUME NEW s \in {"access", "logout"}, Goto(p, s),
               request[p].kind = "code" /\ s = "access"
                 => codes[request[p].arg] \in {"used", "gone"}
        PROVE  RequestInv'
    <3> DEFINE r == [request[p] EXCEPT !.step = s]
    <3>1. request' = [request EXCEPT ![p] = r] /\ request'[p] = r
      BY <2>4 DEF Goto, TypeOK
    <3>2. /\ r.step = s /\ r.kind = request[p].kind
          /\ r.arg = request[p].arg /\ r.asked = request[p].asked
      BY <2>1 DEF Call
    <3> HIDE DEF r
    <3>4. Knows(p)'
      BY <1>1, <1>2, <2>1, <2>2, <2>4, <3>1, <3>2 DEF Knows
    <3> QED
      BY <2>1, <3>1, <3>4, OnlyHolder
  <2>5. CASE LoadCode(p)
    BY <2>3, <2>4, <2>5 DEF LoadCode, At
  <2>6. CASE LoadRefresh(p)
    BY <2>3, <2>4, <2>6 DEF LoadRefresh, At
  <2>7. CASE LoadLogout(p)
    BY <2>4, <2>7 DEF LoadLogout, At
  <2>8. CASE ExchangeFails(p)
    <3>1. codes[request[p].arg] \in {"used", "gone"}
      BY <2>2, <2>8 DEF ExchangeFails, At, Knows, TypeOK
    <3> QED
      BY <2>4, <2>8, <3>1 DEF ExchangeFails
  <2> QED
    BY <1>5, <2>5, <2>6, <2>7, <2>8
<1> QED
  BY <1>3, <1>4, <1>5 DEF Reads

LEMMA WritesRequests ==
  ASSUME TypeOK, RowsInv, RequestInv, NEW p \in Request,
         ExchangeCode(p) \/ Rotate(p) \/ Revokes(p)
  PROVE  RequestInv'
<1>1. CASE ExchangeCode(p) \/ Rotate(p) \/ RevokeRefresh(p)
  BY <1>1, ReleaseRequests DEF ExchangeCode, Rotate, RevokeRefresh, At
<1>2. ASSUME NEW s \in {"access", "refresh"}, Goto(p, s), request[p] # NoRequest,
             UNCHANGED <<authorization, pair, lock>>, Issued' = Issued,
             request[p].kind = "code" => request[p].step \in {"access", "refresh"},
             s = "refresh" => \A t \in access' : pair[t].chain # ChainOf(p)
      PROVE  RequestInv'
  <2> DEFINE r == [request[p] EXCEPT !.step = s]
  <2>1. request' = [request EXCEPT ![p] = r] /\ request'[p] = r
    BY <1>2 DEF Goto, TypeOK
  <2>2. /\ r.step = s /\ r.kind = request[p].kind
        /\ r.arg = request[p].arg /\ r.asked = request[p].asked
    BY <1>2, CallType DEF Call
  <2> HIDE DEF r
  <2>3. Knows(p)
    BY <1>2 DEF RequestInv
  <2>4. ChainOf(p)' = ChainOf(p)
    BY <1>2, <2>1, <2>2 DEF ChainOf
  <2>5. Knows(p)'
    BY <1>2, <2>1, <2>2, <2>3, <2>4 DEF Knows, authorization
  <2> QED
    BY <1>2, <2>1, <2>5, OnlyHolder
<1>3. CASE LogoutToken(p)
  <2>1. Issued' = Issued
    BY <1>3, RevokesRows DEF Revokes
  <2> QED
    BY <1>2, <1>3, <2>1 DEF LogoutToken, At
<1>4. CASE RevokeAccess(p)
  <2>1. Issued' = Issued
    BY <1>4, RevokesRows DEF Revokes
  <2>2. \A t \in access' : pair[t].chain # ChainOf(p)
    BY <1>4 DEF RevokeAccess, Of, TypeOK
  <2> QED
    BY <1>2, <1>4, <2>1, <2>2 DEF RevokeAccess
<1> QED
  BY <1>1, <1>3, <1>4 DEF Revokes

LEMMA InitIInv == Init => IInv
<1> SUFFICES ASSUME Init PROVE IInv
  OBVIOUS
<1>1. RequestInv
  BY DEF Init, RequestInv
<1> QED
  BY <1>1, InitType, InitRows DEF IInv

LEMMA NextIInv ==
  ASSUME IInv, [Next]_vars
  PROVE  IInv'
<1> TypeOK /\ RowsInv /\ RequestInv /\ CodeInv
  BY DEF IInv, RowsInv
<1>0. TypeOK'
  BY NextType
<1>1. RowsInv'
  BY NextRows
<1>2. ASSUME \/ UNCHANGED vars \/ Tick \/ UpdateRole \/ RemoveUser \/ AddUser
             \/ Cleanup \/ \E c \in Chain : ReadRole(c) \/ CreateCode(c)
      PROVE  RequestInv'
  BY <1>2, OutsideRequests
<1>3. ASSUME NEW p \in Request, Endpoint(p)
      PROVE  RequestInv'
  BY <1>3, ReadsRequests, WritesRequests DEF Endpoint, Reads, Revokes
<1>4. RequestInv'
  BY <1>2, <1>3 DEF Next
<1> QED
  BY <1>0, <1>1, <1>4 DEF IInv

LEMMA Invariance == Spec => []IInv
BY InitIInv, NextIInv, PTL DEF Spec

-----------------------------------------------------------------------------
(* Theorems *)

\* Every variable keeps its type.
THEOREM TypeCorrect == Spec => []TypeOK
<1>1. IInv => TypeOK
  BY DEF IInv
<1> QED
  BY <1>1, Invariance, PTL

\* A chain never has two usable refresh tokens (rotate_refresh_token).
THEOREM OneTokenPerChain == Spec => []OneLivePerChain
<1>1. ASSUME IInv PROVE OneLivePerChain
  <2> SUFFICES ASSUME NEW c \in Chain PROVE Cardinality(Active(c)) <= 1
    BY DEF OneLivePerChain
  <2>1. \A t, u \in Active(c) : t = u
    BY <1>1 DEF IInv, RowsInv, LiveInv, Active, Of
  <2>2. CASE Active(c) = {}
    BY <2>2, FS_EmptySet
  <2>3. CASE Active(c) # {}
    <3>1. PICK t \in Active(c) : Active(c) = {t}
      BY <2>1, <2>3
    <3> QED
      BY <3>1, FS_Singleton
  <2> QED
    BY <2>2, <2>3
<1> QED
  BY <1>1, Invariance, PTL

\* A chain ended by sign-out, replay or an administrator keeps no usable token
\* and no access row, whatever was under way (revoke_token_chain,
\* revoke_subject_tokens).
THEOREM RevocationIsFinal == Spec => []RevokedStaysRevoked
<1>1. IInv => RevokedStaysRevoked
  BY DEF IInv, RowsInv, RevokedInv, RevokedStaysRevoked, Active, Of
<1> QED
  BY <1>1, Invariance, PTL

\* No pair is handed out later than the chain's lifetime after its code was
\* exchanged (exchange_refresh_token).
THEOREM ChainsEnd == Spec => []ChainEnds
<1>1. IInv => ChainEnds
  BY DEF IInv, RowsInv, FirstInv, ChainEnds
<1> QED
  BY <1>1, Invariance, PTL

\* Token rows of an earlier role come only from sign-ins that were under way
\* when the role changed (update_user_role, remove_user).
THEOREM RolesAgree == Spec => []TokensMatchRole
<1>1. IInv => TokensMatchRole
  BY DEF IInv, RowsInv, RoleInv
<1> QED
  BY <1>1, Invariance, PTL

-----------------------------------------------------------------------------
(* The token store implements RefreshChain *)

HolderValue ==
  \A c \in Chain :
    /\ \A t \in Active(c) : HolderOf[c] = t
    /\ Active(c) = {} /\ Of(c) # {} => HolderOf[c] = "ended"
    /\ Of(c) = {} => HolderOf[c] = "pending"

LEMMA HolderHere == ASSUME LiveInv PROVE HolderValue
<1>1. \A c \in Chain : \A t, u \in Active(c) : t = u
  BY DEF LiveInv, Active, Of
<1>2. \A c \in Chain : Active(c) \subseteq Token /\ Active(c) \subseteq Of(c)
  BY DEF Active, Of, Issued
<1> QED
  BY <1>1, <1>2 DEF HolderValue, HolderOf

LEMMA HolderNext == ASSUME LiveInv' PROVE HolderValue'
<1>1. \A c \in Chain : \A t, u \in Active(c)' : t = u
  BY DEF LiveInv, Active, Of
<1>2. \A c \in Chain : Active(c)' \subseteq Token /\ Active(c)' \subseteq Of(c)'
  BY DEF Active, Of, Issued
<1> QED
  BY <1>1, <1>2 DEF HolderValue, HolderOf

LEMMA AbstractInit == Init => Abstract!Init
<1> SUFFICES ASSUME Init PROVE Abstract!Init
  OBVIOUS
<1>1. Issued = {} /\ \A c \in Chain : Of(c) = {} /\ Active(c) = {}
  BY DEF Init, Issued, Of, Active
<1> QED
  BY <1>1 DEF Abstract!Init, HolderOf

\* Steps that hand out nothing end the chains whose last usable row they take.
LEMMA FewerHolders ==
  ASSUME HolderValue, HolderValue', UNCHANGED pair, Issued' = Issued,
         \A t \in Token : refresh'[t] = "active" => refresh[t] = "active"
  PROVE  Abstract!End
<1> DEFINE ended == {c \in Chain : Active(c) # {} /\ Active(c)' = {}}
<1>1. \A c \in Chain : Of(c)' = Of(c) /\ Active(c)' \subseteq Active(c)
  BY DEF Of, Active, Issued
<1>2. \A c \in Chain : Active(c) \subseteq Token /\ Active(c) \subseteq Of(c)
  BY DEF Active, Of, Issued
<1>3. \A c \in ended : HolderOf[c] \in Token
  BY <1>2 DEF HolderValue
<1>4. \A c \in Chain :
        HolderOf'[c] = IF c \in ended THEN "ended" ELSE HolderOf[c]
  <2> TAKE c \in Chain
  <2>1. CASE Active(c)' # {}
    BY <1>1, <2>1 DEF HolderValue
  <2>2. CASE Active(c)' = {} /\ Active(c) # {}
    BY <1>1, <1>2, <2>2 DEF HolderValue
  <2>3. CASE Active(c)' = {} /\ Active(c) = {}
    BY <1>1, <2>3 DEF HolderValue
  <2> QED
    BY <2>1, <2>2, <2>3
<1>5. HolderOf' = [c \in Chain |-> HolderOf'[c]]
  BY DEF HolderOf
<1>6. HolderOf' = [c \in Chain |-> IF c \in ended THEN "ended" ELSE HolderOf[c]]
  BY <1>4, <1>5
<1>7. ended \in SUBSET {c \in Chain : HolderOf[c] \in Token}
  BY <1>3
<1> QED
  BY <1>6, <1>7 DEF Abstract!End

\* A step that stores one new usable row of a chain, which then is its only
\* one, hands that token out.
LEMMA NewHolder ==
  ASSUME HolderValue, HolderValue', NEW c \in Chain, NEW t \in Token \ Issued,
         HolderOf[c] # "ended", Issued' = Issued \cup {t},
         t \in Active(c)',
         \A d \in Chain : d # c => Of(d)' = Of(d) /\ Active(d)' = Active(d)
  PROVE  Abstract!HandOut
<1>1. HolderOf'[c] = t
  BY DEF HolderValue
<1>2. \A d \in Chain : d # c => HolderOf'[d] = HolderOf[d]
  <2> TAKE d \in Chain
  <2>1. CASE d # c /\ Active(d) # {}
    BY <2>1 DEF HolderValue
  <2>2. CASE d # c /\ Active(d) = {}
    BY <2>2 DEF HolderValue
  <2> QED
    BY <2>1, <2>2
<1>3. HolderOf' = [d \in Chain |-> HolderOf'[d]]
      /\ HolderOf = [d \in Chain |-> HolderOf[d]]
  BY DEF HolderOf
<1>4. HolderOf' = [HolderOf EXCEPT ![c] = t]
  BY <1>1, <1>2, <1>3
<1> QED
  BY <1>4 DEF Abstract!HandOut

LEMMA AbstractNext ==
  ASSUME IInv, IInv', [Next]_vars
  PROVE  [Abstract!Next]_(Abstract!vars)
<1> TypeOK /\ RowsInv /\ RequestInv /\ CodeInv
  BY DEF IInv, RowsInv
<1>1. HolderValue /\ HolderValue'
  BY HolderHere, HolderNext DEF IInv, RowsInv
<1>2. ASSUME NEW p \in Request, ExchangeCode(p)
      PROVE  Abstract!HandOut
  <2>1. PICK code \in Chain : code = request[p].arg /\ codes[code] = "active"
    BY <1>2, ExchangeRows
  <2>2. PICK t \in Token \ Issued :
          /\ Issued' = Issued \cup {t}
          /\ refresh' = [refresh EXCEPT ![t] = "active"]
          /\ \A u \in Issued : pair'[u] = pair[u]
          /\ pair'[t].chain = code
    BY <1>2, <2>1, ExchangeRows
  <2>3. Of(code) = {}
    BY <2>1 DEF CodeInv, Of
  <2>4. HolderOf[code] # "ended"
    BY <1>1, <2>1, <2>3 DEF HolderValue
  <2>5. refresh'[t] = "active" /\ \A u \in Issued : refresh'[u] = refresh[u]
    BY <2>2 DEF TypeOK, Issued
  <2>6. t \in Active(code)'
    BY <2>2, <2>5 DEF Active, Of
  <2>7. \A d \in Chain : d # code => Of(d)' = Of(d)
    BY <2>2 DEF Of
  <2>8. \A d \in Chain : d # code => Active(d)' = Active(d)
    BY <2>5, <2>7 DEF Active, Of
  <2> QED
    BY <1>1, <2>1, <2>2, <2>4, <2>6, <2>7, <2>8, NewHolder
<1>3. ASSUME NEW p \in Request, Rotate(p)
      PROVE  Abstract!HandOut
  <2>0. PICK old \in Issued : old = request[p].arg /\ refresh[old] = "active"
    BY <1>3, RotateRows
  <2>1. PICK chain \in Chain : chain = pair[old].chain
    BY DEF TypeOK, Pair
  <2>2. PICK t \in Token \ Issued :
          /\ Issued' = Issued \cup {t}
          /\ refresh' = [refresh EXCEPT ![old] = "revoked", ![t] = "active"]
          /\ \A u \in Issued : pair'[u] = pair[u]
          /\ pair'[t].chain = chain
    BY <1>3, <2>0, <2>1, RotateRows
  <2>3. old \in Active(chain) /\ old \in Token
    BY <2>0, <2>1 DEF Active, Of, Issued
  <2>4. HolderOf[chain] # "ended"
    BY <1>1, <2>1, <2>3, TokenAssumption DEF HolderValue
  <2>5. /\ refresh'[t] = "active"
        /\ \A u \in Issued : u # old => refresh'[u] = refresh[u]
    BY <2>1, <2>2 DEF TypeOK, Issued
  <2>6. t \in Active(chain)'
    BY <2>2, <2>5 DEF Active, Of
  <2>7. \A d \in Chain : d # chain => Of(d)' = Of(d)
    BY <2>2 DEF Of
  <2>8. \A d \in Chain : d # chain => Active(d)' = Active(d)
    BY <2>0, <2>1, <2>5, <2>7 DEF Active, Of
  <2> QED
    BY <1>1, <2>1, <2>2, <2>4, <2>6, <2>7, <2>8, NewHolder
<1>4. ASSUME UNCHANGED <<pair, refresh>>
      PROVE  Abstract!End
  BY <1>1, <1>4, FewerHolders DEF Issued
<1>5. ASSUME NEW p \in Request, Revokes(p)
      PROVE  Abstract!End
  BY <1>1, <1>5, FewerHolders, RevokesRows
<1>6. ASSUME RevokeSubject, UNCHANGED pair
      PROVE  Abstract!End
  <2>1. Issued' = Issued
    BY <1>6, SameIssued DEF RevokeSubject, Issued
  <2>2. \A t \in Token : refresh'[t] = "active" => refresh[t] = "active"
    BY <1>6 DEF RevokeSubject
  <2> QED
    BY <1>1, <1>6, <2>1, <2>2, FewerHolders
<1>7. ASSUME SweepRefresh
      PROVE  Abstract!End
  <2>1. Issued' = Issued
    BY <1>7, SameIssued DEF SweepRefresh, Issued
  <2>2. \A t \in Token : refresh'[t] = "active" => refresh[t] = "active"
    BY <1>7 DEF SweepRefresh
  <2> QED
    BY <1>1, <1>7, <2>1, <2>2, FewerHolders DEF SweepRefresh
<1>8. ASSUME NEW p \in Request, Reads(p)
      PROVE  Abstract!End
  BY <1>4, <1>8
  DEF Reads, Start, Leave, LoadCode, LoadRefresh, LoadLogout, ExchangeFails, tokens
<1>9. CASE UNCHANGED vars \/ Tick \/ AddUser \/ SweepCodes \/ SweepAccess
           \/ SweepFails \/ \E c \in Chain : ReadRole(c) \/ CreateCode(c)
  BY <1>4, <1>9
  DEF vars, tokens, Tick, AddUser, Mutation, SweepCodes, SweepAccess, SweepFails,
      ReadRole, CreateCode, Abstract!Next
<1>10. CASE UpdateRole \/ RemoveUser
  BY <1>6, <1>10 DEF UpdateRole, RemoveUser, Mutation, Abstract!Next
<1>11. CASE \E p \in Request : Endpoint(p)
  BY <1>2, <1>3, <1>5, <1>8, <1>11 DEF Endpoint, Reads, Revokes, Abstract!Next
<1> QED
  BY <1>7, <1>9, <1>10, <1>11 DEF Next, Cleanup, Abstract!Next

\* The chains of the token store behave as RefreshChain says: redeemed once,
\* one holder at a time, and never back after their end.
THEOREM ImplementsChain == Spec => ImplementsRefreshChain
<1>1. IInv /\ IInv' /\ [Next]_vars => [Abstract!Next]_(Abstract!vars)
  BY AbstractNext
<1> QED
  BY <1>1, AbstractInit, Invariance, PTL
  DEF Spec, ImplementsRefreshChain, Abstract!Spec

-----------------------------------------------------------------------------
(* Scopes, access rows and the beginning of a chain *)

Hands(p) == ExchangeCode(p) \/ Rotate(p)

\* A step that hands nothing out only takes rows away, and no sign-in that has
\* read its role reads it again.
LEMMA HandsNothingOut ==
  ASSUME TypeOK, RequestInv, [Next]_vars, \A p \in Request : ~Hands(p)
  PROVE  /\ Issued' = Issued /\ pair' = pair /\ began' = began
         /\ access' \subseteq access
         /\ \A t \in Token : refresh'[t] = "active" => refresh[t] = "active"
         /\ \A c \in Chain : granted[c] # NoUser => granted'[c] = granted[c]
<1>1. CASE UNCHANGED vars \/ Tick
  BY <1>1 DEF vars, Tick, authorization, tokens, ghosts, Issued
<1>2. CASE UpdateRole \/ RemoveUser \/ AddUser
  <2>1. UNCHANGED <<pair, began, granted>>
    BY <1>2 DEF UpdateRole, RemoveUser, AddUser, Mutation, authorization
  <2>2. CASE RevokeSubject
    <3>1. \A t \in Token : refresh'[t] = "none" <=> refresh[t] = "none"
      BY <2>2 DEF RevokeSubject, Issued
    <3> QED
      BY <2>1, <2>2, <3>1, SameIssued DEF RevokeSubject
  <2>3. CASE AddUser
    BY <2>1, <2>3 DEF AddUser, Issued
  <2> QED
    BY <1>2, <2>2, <2>3 DEF UpdateRole, RemoveUser
<1>3. CASE Cleanup
  <2>1. UNCHANGED <<pair, began, granted>> /\ access' \subseteq access
    BY <1>3 DEF Cleanup, SweepCodes, SweepAccess, SweepRefresh, SweepFails,
                tokens, authorization, ghosts
  <2>2. CASE SweepRefresh
    <3>1. /\ \A t \in Token : refresh'[t] = "none" <=> refresh[t] = "none"
          /\ \A t \in Token : refresh'[t] = "active" => refresh[t] = "active"
      BY <2>2 DEF SweepRefresh, Issued
    <3> QED
      BY <2>1, <3>1, SameIssued
  <2>3. CASE UNCHANGED refresh
    BY <2>1, <2>3 DEF Issued
  <2> QED
    BY <1>3, <2>2, <2>3 DEF Cleanup, SweepCodes, SweepAccess, SweepFails, tokens
<1>4. ASSUME NEW c \in Chain, ReadRole(c) \/ CreateCode(c)
      PROVE  /\ UNCHANGED <<tokens, ghosts>>
             /\ \A d \in Chain : granted[d] # NoUser => granted'[d] = granted[d]
  BY <1>4 DEF ReadRole, CreateCode, TypeOK
<1>5. ASSUME NEW p \in Request, Reads(p)
      PROVE  UNCHANGED <<authorization, tokens, ghosts>>
  BY <1>5
  DEF Reads, Start, Leave, LoadCode, LoadRefresh, LoadLogout, ExchangeFails
<1>6. ASSUME NEW p \in Request, Revokes(p)
      PROVE  /\ Issued' = Issued /\ pair' = pair /\ access' \subseteq access
             /\ \A t \in Token : refresh'[t] = "active" => refresh[t] = "active"
             /\ UNCHANGED <<authorization, began>>
  BY <1>6, RevokesRows
  DEF Revokes, LogoutToken, RevokeAccess, RevokeRefresh, ghosts
<1>7. CASE \E c \in Chain : ReadRole(c) \/ CreateCode(c)
  BY <1>4, <1>7 DEF tokens, ghosts, Issued
<1>8. CASE \E p \in Request : Reads(p)
  BY <1>5, <1>8 DEF authorization, tokens, ghosts, Issued
<1>9. CASE \E p \in Request : Revokes(p)
  BY <1>6, <1>9 DEF authorization
<1> QED
  BY <1>1, <1>2, <1>3, <1>7, <1>8, <1>9
  DEF Next, Endpoint, Reads, Revokes, Hands

\* The pair handed out and the access rows that remain: the new token is the
\* only one of its chain that is usable or has an access row.
LEMMA HandsOut ==
  ASSUME TypeOK, RowsInv, RequestInv, NEW p \in Request, Hands(p)
  PROVE  \E t \in Token \ Issued :
           /\ Issued' = Issued \cup {t}
           /\ \A u \in Issued : pair'[u] = pair[u]
           /\ access' \subseteq access \cup {t}
           /\ \A u \in Issued : refresh'[u] = "active" => refresh[u] = "active"
           /\ \A u \in Issued : pair[u].chain = pair'[t].chain
                => u \notin access' /\ refresh'[u] # "active"
<1> USE DEF RowsInv
<1>1. CASE ExchangeCode(p)
  <2>1. codes[request[p].arg] = "active"
    BY <1>1, ExchangeRows
  <2>2. PICK t \in Token \ Issued :
          /\ Issued' = Issued \cup {t}
          /\ refresh' = [refresh EXCEPT ![t] = "active"]
          /\ access' = access \cup {t}
          /\ \A u \in Issued : pair'[u] = pair[u]
          /\ pair'[t].chain = request[p].arg
    BY <1>1, ExchangeRows
  <2>3. \A u \in Issued : pair[u].chain # pair'[t].chain
    BY <2>1, <2>2 DEF CodeInv
  <2>4. \A u \in Issued : refresh'[u] = refresh[u]
    BY <2>2 DEF TypeOK, Issued
  <2> QED
    BY <2>2, <2>3, <2>4
<1>2. CASE Rotate(p)
  <2> DEFINE old == request[p].arg
  <2>1. old \in Issued /\ refresh[old] = "active"
    BY <1>2, RotateRows
  <2>2. PICK t \in Token \ Issued :
          /\ Issued' = Issued \cup {t}
          /\ refresh' = [refresh EXCEPT ![old] = "revoked", ![t] = "active"]
          /\ access' = (access \ Of(pair[old].chain)) \cup {t}
          /\ \A u \in Issued : pair'[u] = pair[u]
          /\ pair'[t].chain = pair[old].chain
    BY <1>2, RotateRows
  <2>3. \A u \in Issued : u # old => refresh'[u] = refresh[u]
    BY <2>2 DEF TypeOK, Issued
  <2>4. refresh'[old] = "revoked"
    BY <2>1, <2>2 DEF TypeOK, Issued
  <2>5. ASSUME NEW u \in Issued, pair[u].chain = pair'[t].chain
        PROVE  u \notin access' /\ refresh'[u] # "active"
    <3>1. u \notin access'
      BY <2>2, <2>5 DEF Of
    <3>2. refresh'[u] # "active"
      BY <2>1, <2>2, <2>3, <2>4, <2>5 DEF LiveInv
    <3> QED
      BY <3>1, <3>2
  <2> QED
    BY <2>2, <2>3, <2>4, <2>5
<1> QED
  BY <1>1, <1>2 DEF Hands

\* An access row and a usable or another access row of one chain are of one
\* pair.
PairedInv ==
  \A t \in access, u \in Issued :
    pair[u].chain = pair[t].chain /\ (u \in access \/ refresh[u] = "active")
      => u = t

LEMMA NextPaired ==
  ASSUME IInv, IInv', PairedInv, [Next]_vars
  PROVE  PairedInv'
<1> TypeOK /\ RowsInv /\ RequestInv
  BY DEF IInv
<1>1. CASE \A p \in Request : ~Hands(p)
  <2>1. /\ Issued' = Issued /\ pair' = pair /\ access' \subseteq access
        /\ \A t \in Issued : refresh'[t] = "active" => refresh[t] = "active"
    BY <1>1, HandsNothingOut DEF Issued
  <2> QED
    BY <2>1 DEF PairedInv
<1>2. CASE \E p \in Request : Hands(p)
  <2>1. PICK t \in Token \ Issued :
           /\ Issued' = Issued \cup {t}
           /\ \A u \in Issued : pair'[u] = pair[u]
           /\ access' \subseteq access \cup {t}
           /\ \A u \in Issued : refresh'[u] = "active" => refresh[u] = "active"
           /\ \A u \in Issued : pair[u].chain = pair'[t].chain
                => u \notin access' /\ refresh'[u] # "active"
    BY <1>2, HandsOut
  <2>2. access \subseteq Issued
    BY DEF TypeOK
  <2>3. ASSUME NEW a \in access', NEW u \in Issued',
               pair'[u].chain = pair'[a].chain,
               u \in access' \/ refresh'[u] = "active"
        PROVE  u = a
    <3>1. CASE a = t \/ u = t
      BY <2>1, <2>2, <2>3, <3>1
    <3>2. CASE a # t /\ u # t
      <4>1. a \in access /\ u \in Issued /\ a \in Issued
        BY <2>1, <2>2, <3>2
      <4>2. pair[u].chain = pair[a].chain
        BY <2>1, <2>3, <4>1
      <4>3. u \in access \/ refresh[u] = "active"
        BY <2>1, <2>3, <3>2, <4>1
      <4> QED
        BY <4>1, <4>2, <4>3 DEF PairedInv
    <3> QED
      BY <3>1, <3>2
  <2> QED
    BY <2>3 DEF PairedInv
<1> QED
  BY <1>1, <1>2

\* The access token a chain is served by is that of its usable refresh token,
\* and there is one (exchange_auth_code, rotate_refresh_token).
THEOREM AccessPaired == Spec => []AccessIsPaired
<1>1. Init => PairedInv
  BY DEF Init, PairedInv
<1>2. IInv /\ IInv' /\ PairedInv /\ [Next]_vars => PairedInv'
  BY NextPaired
<1>3. IInv /\ PairedInv => AccessIsPaired
  BY DEF IInv, TypeOK, PairedInv, AccessIsPaired, Of, Active
<1> QED
  BY <1>1, <1>2, <1>3, Invariance, PTL DEF Spec

LEMMA NextScopes ==
  ASSUME IInv, ScopesNeverWiden, [Next]_vars
  PROVE  ScopesNeverWiden'
<1> TypeOK /\ RowsInv /\ RequestInv /\ CodeInv
  BY DEF IInv, RowsInv
<1>0. \A t \in Issued : pair[t].chain \in Chain /\ pair[t].role # NoUser
  BY NoUserAssumption DEF TypeOK, Pair
<1>1. CASE \A p \in Request : ~Hands(p)
  <2>1. /\ Issued' = Issued /\ pair' = pair
        /\ \A c \in Chain : granted[c] # NoUser => granted'[c] = granted[c]
    BY <1>1, HandsNothingOut
  <2> QED
    BY <1>0, <2>1 DEF ScopesNeverWiden
<1>2. ASSUME NEW p \in Request, ExchangeCode(p)
      PROVE  ScopesNeverWiden'
  <2>1. PICK t \in Token \ Issued :
          /\ Issued' = Issued \cup {t}
          /\ \A u \in Issued : pair'[u] = pair[u]
          /\ pair'[t].chain = request[p].arg
          /\ pair'[t].role = granted[request[p].arg]
    BY <1>2, ExchangeRows
  <2>2. granted' = granted
    BY <1>2 DEF ExchangeCode
  <2> QED
    BY <2>1, <2>2 DEF ScopesNeverWiden
<1>3. ASSUME NEW p \in Request, Rotate(p)
      PROVE  ScopesNeverWiden'
  <2>0. request[p].arg \in Issued
    BY <1>3, RotateRows
  <2>1. PICK t \in Token \ Issued :
          /\ Issued' = Issued \cup {t}
          /\ \A u \in Issued : pair'[u] = pair[u]
          /\ pair'[t].chain = pair[request[p].arg].chain
          /\ pair'[t].role = pair[request[p].arg].role
    BY <1>3, RotateRows
  <2>2. granted' = granted
    BY <1>3 DEF Rotate, authorization
  <2> QED
    BY <2>0, <2>1, <2>2 DEF ScopesNeverWiden
<1> QED
  BY <1>1, <1>2, <1>3 DEF Hands

\* Rotation never changes what a sign-in was granted, whatever role its user
\* has meanwhile (rotate_refresh_token).
THEOREM ScopesKept == Spec => []ScopesNeverWiden
<1>1. Init => ScopesNeverWiden
  BY DEF Init, ScopesNeverWiden, Issued
<1>2. IInv /\ ScopesNeverWiden /\ [Next]_vars => ScopesNeverWiden'
  BY NextScopes
<1> QED
  BY <1>1, <1>2, Invariance, PTL DEF Spec

\* A code is exchanged at most once, whatever requests race with it
\* (exchange_auth_code).
THEOREM CodesAreSpentOnce == Spec => ChainBeginsOnce
<1>1. ASSUME IInv, [Next]_vars, NEW c \in Chain, Of(c) # {}
      PROVE  began'[c] = began[c]
  <2> TypeOK /\ RowsInv /\ RequestInv /\ CodeInv
    BY <1>1 DEF IInv, RowsInv
  <2>1. CASE \A p \in Request : ~Hands(p)
    BY <1>1, <2>1, HandsNothingOut
  <2>2. ASSUME NEW p \in Request, ExchangeCode(p)
        PROVE  began'[c] = began[c]
    <3>1. /\ codes[request[p].arg] = "active"
          /\ began' = [began EXCEPT ![request[p].arg] = request[p].asked]
      BY <2>2, ExchangeRows
    <3>2. codes[c] \in {"used", "gone"}
      BY <1>1 DEF CodeInv, Of
    <3> QED
      BY <3>1, <3>2 DEF TypeOK
  <2>3. ASSUME NEW p \in Request, Rotate(p)
        PROVE  began'[c] = began[c]
    BY <2>3 DEF Rotate, ghosts
  <2> QED
    BY <2>1, <2>2, <2>3 DEF Hands
<1>2. IInv /\ [Next]_vars
        => [\A c \in Chain : Of(c) # {} => began'[c] = began[c]]_vars
  BY <1>1
<1> QED
  BY <1>2, Invariance, PTL DEF Spec, ChainBeginsOnce

-----------------------------------------------------------------------------
(* What RefreshChain promises, and with it the token store *)

LEMMA AbstractStep ==
  ASSUME Issued \subseteq Token, [Abstract!Next]_(Abstract!vars), NEW c \in Chain
  PROVE  /\ HolderOf[c] = "ended" => HolderOf'[c] = "ended"
         /\ \A t \in Issued : HolderOf'[c] = t => HolderOf[c] = t
<1>0. HolderOf = [d \in Chain |-> HolderOf[d]]
  BY DEF HolderOf
<1>1. CASE Abstract!HandOut
  <2>1. PICK d \in Chain, t \in Token \ Issued :
          /\ HolderOf[d] # "ended"
          /\ HolderOf' = [HolderOf EXCEPT ![d] = t]
    BY <1>1 DEF Abstract!HandOut
  <2>2. HolderOf'[c] = IF c = d THEN t ELSE HolderOf[c]
    BY <1>0, <2>1
  <2> QED
    BY <2>1, <2>2
<1>2. CASE Abstract!End
  <2>1. PICK ended \in SUBSET {d \in Chain : HolderOf[d] \in Token} :
          HolderOf' = [d \in Chain |-> IF d \in ended THEN "ended"
                                       ELSE HolderOf[d]]
    BY <1>2 DEF Abstract!End
  <2>2. HolderOf'[c] \in {HolderOf[c], "ended"}
    BY <2>1
  <2>3. HolderOf[c] = "ended" => c \notin ended
    BY <2>1, TokenAssumption
  <2> QED
    BY <2>1, <2>2, <2>3, TokenAssumption
<1>3. CASE UNCHANGED Abstract!vars
  BY <1>3 DEF Abstract!vars
<1> QED
  BY <1>1, <1>2, <1>3 DEF Abstract!Next

\* An ended chain stays ended and a replaced token never holds its chain again:
\* RefreshChain has the property, and the token store implements RefreshChain.
THEOREM LostStayLost == Spec => Abstract!LostForGood
<1>1. ASSUME IInv, IInv', [Next]_vars
      PROVE  [\A c \in Chain :
                /\ HolderOf[c] = "ended" => HolderOf'[c] = "ended"
                /\ \A t \in Issued : HolderOf'[c] = t => HolderOf[c] = t
             ]_(Abstract!vars)
  <2>1. Issued \subseteq Token
    BY DEF Issued
  <2> QED
    BY <1>1, <2>1, AbstractNext, AbstractStep
<1> QED
  BY <1>1, Invariance, PTL DEF Spec, Abstract!LostForGood
=============================================================================
