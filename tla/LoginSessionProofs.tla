------------------------- MODULE LoginSessionProofs -------------------------
(***************************************************************************)
(* Proofs about LoginSession, for any browsers, addresses, requests,       *)
(* lifetimes, attempt limit and bounds.                                    *)
(***************************************************************************)
EXTENDS LoginSession, SequenceTheorems, FiniteSetTheorems, TLAPS

-----------------------------------------------------------------------------
(* The inductive invariant *)

\* The secrets of the row are those of mails to its address, and what it says
\* of the signed-in user is what was proven.
RowInv ==
  /\ ~started => row = NoRow /\ mailed = <<>> /\ code.of = NoOne
  /\ row # NoRow =>
       /\ code.of = NoOne
       /\ row.otp # 0 => row.otp \in Mail /\ mailed[row.otp] = row.email
       /\ row.magic # 0 => row.magic \in Mail /\ mailed[row.magic] = row.email
       /\ row.authenticated => /\ row.subject = proof.of
                               /\ proof.of \in Address /\ proof.by \in Browser
                               /\ row.binding \in {NoOne, proof.by}
       /\ ~row.authenticated => row.subject = NoOne
  /\ code.of # NoOne => code = proof

\* The row is gone, or signed in, which no step undoes.
Settled == row # NoRow => row.authenticated

\* What a request has read of the row still tells the truth about the mails
\* and the proof, whatever became of the row.
CallInv(p) ==
  LET r == request[p] IN
  /\ r.step \in {"save", "count", "mark", "bind", "attach", "claim", "issue"}
       => started
  /\ r.step \in {"send", "save", "otp", "count", "magic", "identity", "mark"}
       => r.email \in Address
  /\ r.step = "identity" => r.secret = 0 /\ r.stored = 0
  /\ r.step \notin {"mark", "bind", "attach"} => ~r.unbound
  /\ r.step = "count" => r.stored # 0
  /\ r.step \in {"count", "mark"} /\ r.stored # 0
       => r.stored \in Mail /\ mailed[r.stored] = r.subject
  /\ r.step \in {"count", "mark"} /\ row # NoRow =>
       \/ ~r.unbound /\ row.binding = r.browser
       \/ r.unbound /\ (row.binding = NoOne \/ row.authenticated)
  /\ r.step = "bind" => proof.by = r.browser /\ Settled
  /\ r.step \in {"claim", "issue"} =>
       /\ r.subject = proof.of /\ r.browser = proof.by
       /\ r.subject \in Address /\ Settled
  /\ r.step = "issue" =>
       /\ row = NoRow /\ code.of = NoOne
       /\ \A q \in Request : At(q, "issue") => q = p

CallsInv == \A p \in Request : request[p] # NoRequest => CallInv(p)

\* Requests that have read the code of a mail and not counted their attempt.
Reading(n) == {p \in Request : At(p, "count") /\ request[p].stored = n}

\* The row counts every attempt on its code, and an attempt that is still to
\* be counted has been read below the limit.
TriesInv ==
  /\ row # NoRow /\ row.otp # 0 => tries[row.otp] <= row.attempts
  /\ \A n \in Mail :
       tries[n] + Cardinality(Reading(n)) < MaxAttempts + Cardinality(Request)

IInv == TypeOK /\ RowInv /\ CallsInv

-----------------------------------------------------------------------------
(* Types *)

LEMMA InitType == Init => TypeOK
<1> SUFFICES ASSUME Init PROVE TypeOK
  OBVIOUS
<1>1. /\ mailed \in Seq(Address) /\ tries \in Seq(Nat)
      /\ Len(tries) = Len(mailed)
  BY DEF Init
<1>2. code \in Proof /\ proof \in Proof
  BY DEF Init, Proof
<1>3. /\ cookie \in [Browser -> Nat]
      /\ request \in [Request -> Call \cup {NoRequest}]
  BY DEF Init
<1> QED
  BY <1>1, <1>2, <1>3 DEF Init, TypeOK

LEMMA LifetimeType ==
  ASSUME TypeOK
  PROVE  /\ now + SessionLifetime \in Nat /\ now + InviteLifetime \in Nat
         /\ \A t \in Nat : t + OtpLifetime \in Nat
BY TimeAssumption DEF TypeOK

LEMMA NewRowType ==
  ASSUME NEW lifetime, now + lifetime \in Nat
  PROVE  /\ \A b \in Browser : [NewRow(lifetime) EXCEPT !.binding = b] \in Row
         /\ \A a \in Address :
              [NewRow(lifetime) EXCEPT !.email = a, !.magic = 1] \in Row
BY DEF NewRow, Row

LEMMA GotoType ==
  ASSUME TypeOK, NEW p \in Request, request[p] # NoRequest,
         NEW s \in {"mark", "bind", "attach", "issue"}, Goto(p, s)
  PROVE  request' \in [Request -> Call \cup {NoRequest}]
<1>1. request[p] \in Call
  BY DEF TypeOK
<1>2. [request[p] EXCEPT !.step = s] \in Call
  BY <1>1 DEF Call
<1> QED
  BY <1>2 DEF TypeOK, Goto

LEMMA SessionType ==
  ASSUME TypeOK,
         \/ Tick \/ Deny \/ Sweep
         \/ \E b \in Browser : Start(b) \/ Replace(b)
         \/ \E a \in Address : Invite(a)
  PROVE  TypeOK'
<1>1. CASE Tick \/ Deny \/ Sweep
  BY <1>1 DEF TypeOK, Tick, Deny, Sweep, ghosts
<1>2. ASSUME NEW b \in Browser, Start(b) PROVE TypeOK'
  <2>1. [NewRow(SessionLifetime) EXCEPT !.binding = b] \in Row
    BY LifetimeType, NewRowType
  <2>2. cookie' \in [Browser -> Nat]
    BY <1>2, LifetimeType DEF Start, TypeOK
  <2> QED
    BY <1>2, <2>1, <2>2 DEF Start, TypeOK
<1>3. ASSUME NEW b \in Browser, Replace(b) PROVE TypeOK'
  BY <1>3 DEF TypeOK, Replace, ghosts
<1>4. ASSUME NEW a \in Address, Invite(a) PROVE TypeOK'
  <2>1. [NewRow(InviteLifetime) EXCEPT !.email = a, !.magic = 1] \in Row
    BY LifetimeType, NewRowType
  <2>2. mailed' = <<a>> /\ tries' = <<0>>
    BY <1>4 DEF Invite
  <2>3. /\ <<a>> \in Seq(Address) /\ <<0>> \in Seq(Nat)
        /\ Len(<<a>>) = 1 /\ Len(<<0>>) = 1
    OBVIOUS
  <2> QED
    BY <1>4, <2>1, <2>2, <2>3 DEF Invite, TypeOK
<1> QED
  BY <1>1, <1>2, <1>3, <1>4

LEMMA ArriveType ==
  ASSUME TypeOK, NEW p \in Request, Ask(p) \/ Leave(p)
  PROVE  TypeOK'
<1>1. CASE Leave(p)
  BY <1>1 DEF TypeOK, Leave, Release, ghosts
<1>2. ASSUME NEW b \in Browser,
             NEW s \in {"send", "otp", "magic", "identity", "complete"},
             NEW e \in Address \cup {NoOne}, NEW n \in Nat, Arrive(p, s, b, e, n)
      PROVE  TypeOK'
  <2>1. [step |-> s, browser |-> b, bound |-> cookie[b] > now, email |-> e,
         secret |-> n, subject |-> NoOne, stored |-> 0, unbound |-> FALSE]
          \in Call
    BY DEF Call
  <2> QED
    BY <1>2, <2>1 DEF Arrive, TypeOK, ghosts
<1>3. CASE Ask(p)
  <2>1. Mail \cup {0} \subseteq Nat
    BY DEF Mail
  <2> QED
    BY <1>2, <1>3, <2>1 DEF Ask
<1> QED
  BY <1>1, <1>3

\* Loading the row: the request keeps its type and nothing else changes.
Loads(p) ==
  LoadSend(p) \/ LoadOtp(p) \/ LoadMagic(p) \/ LoadIdentity(p) \/ LoadComplete(p)

LEMMA LoadsType ==
  ASSUME TypeOK, NEW p \in Request, Loads(p)
  PROVE  TypeOK'
<1>1. /\ UNCHANGED <<now, row, cookie, mailed, code, ghosts>>
      /\ request[p] \in Call
  BY DEF Loads, LoadSend, LoadOtp, LoadMagic, LoadIdentity, LoadComplete, At,
         TypeOK
<1>2. request' \in [Request -> Call \cup {NoRequest}]
  <2>1. CASE LoadSend(p)
    <3>1. [request[p] EXCEPT !.step = "save", !.stored = now] \in Call
      BY <1>1 DEF Call, TypeOK
    <3> QED
      BY <2>1, <3>1 DEF LoadSend, TypeOK
  <2>2. CASE LoadOtp(p)
    <3>1. [request[p] EXCEPT !.step = "count", !.stored = row.otp,
                             !.subject = row.email] \in Call
      BY <1>1, <2>2 DEF Call, TypeOK, Row, LoadOtp, LiveBound, Live
    <3> QED
      BY <2>2, <3>1 DEF LoadOtp, TypeOK
  <2>3. CASE LoadMagic(p)
    <3>1. [request[p] EXCEPT !.step = "mark", !.stored = row.magic,
             !.subject = row.email, !.unbound = (row.binding = NoOne)] \in Call
      BY <1>1, <2>3 DEF Call, TypeOK, Row, LoadMagic, Live
    <3> QED
      BY <2>3, <3>1 DEF LoadMagic, TypeOK
  <2>4. CASE LoadIdentity(p)
    <3>1. [request[p] EXCEPT !.step = "mark", !.subject = request[p].email]
            \in Call
      BY <1>1 DEF Call
    <3> QED
      BY <2>4, <3>1 DEF LoadIdentity, TypeOK
  <2>5. CASE LoadComplete(p)
    <3>1. [request[p] EXCEPT !.step = "claim", !.subject = row.subject] \in Call
      BY <1>1, <2>5 DEF Call, TypeOK, Row, LoadComplete, LiveBound, Live
    <3> QED
      BY <2>5, <3>1 DEF LoadComplete, TypeOK
  <2> QED
    BY <2>1, <2>2, <2>3, <2>4, <2>5 DEF Loads
<1> QED
  BY <1>1, <1>2 DEF TypeOK, ghosts

LEMMA SaveType ==
  ASSUME TypeOK, CallsInv, NEW p \in Request, SaveOtp(p)
  PROVE  /\ TypeOK' /\ Len(mailed') = Len(mailed) + 1
         /\ \A n \in Mail : mailed'[n] = mailed[n] /\ tries'[n] = tries[n]
         /\ mailed'[Len(mailed')] = request[p].email
         /\ tries'[Len(mailed')] = 0
<1>1. /\ request[p] \in Call /\ request[p].email \in Address
      /\ request[p].stored \in Nat
  BY DEF SaveOtp, At, TypeOK, CallsInv, CallInv, Call
<1>2. /\ mailed' \in Seq(Address) /\ Len(mailed') = Len(mailed) + 1
      /\ \A n \in Mail : mailed'[n] = mailed[n]
      /\ mailed'[Len(mailed')] = request[p].email
  BY <1>1, AppendProperties DEF SaveOtp, TypeOK, Mail
<1>3. /\ tries' \in Seq(Nat) /\ Len(tries') = Len(mailed) + 1
      /\ \A n \in Mail : tries'[n] = tries[n]
      /\ tries'[Len(mailed')] = 0
  <2>1. tries' = Append(tries, 0) /\ 0 \in Nat
    BY DEF SaveOtp
  <2> QED
    BY <1>2, <2>1, AppendProperties DEF TypeOK, Mail
<1>4. row' \in Row \cup {NoRow}
  <2>0. Len(mailed') \in Nat
    BY <1>2, LenProperties
  <2>1. Len(mailed') \in Nat /\ request[p].stored + OtpLifetime \in Nat
    BY <1>1, <2>0, LifetimeType
  <2>2. ASSUME row \in Row, NEW n \in Nat, NEW t \in Nat
        PROVE  [row EXCEPT !.email = request[p].email, !.attempts = 0,
                           !.otp = n, !.magic = n, !.expires = t] \in Row
    BY <1>1, <2>2 DEF Row
  <2> QED
    BY <2>1, <2>2 DEF SaveOtp, TypeOK
<1> QED
  BY <1>2, <1>3, <1>4 DEF TypeOK, SaveOtp, Release

LEMMA CountType ==
  ASSUME TypeOK, CallsInv, NEW p \in Request, CountAttempt(p)
  PROVE  /\ TypeOK' /\ request[p].stored \in Mail
         /\ \A n \in Mail : tries'[n] = IF n = request[p].stored
                                       THEN tries[n] + 1 ELSE tries[n]
<1>1. /\ request[p] # NoRequest /\ request[p].stored \in Mail
  BY DEF CountAttempt, At, CallsInv, CallInv
<1>2. tries[request[p].stored] + 1 \in Nat
  BY <1>1 DEF TypeOK, Mail
<1>3. /\ tries' \in Seq(Nat) /\ Len(tries') = Len(mailed)
      /\ \A n \in Mail : tries'[n] = IF n = request[p].stored
                                    THEN tries[n] + 1 ELSE tries[n]
  BY <1>1, <1>2, ExceptSeq DEF CountAttempt, TypeOK, Mail
<1>4. row' \in Row \cup {NoRow}
  <2>1. ASSUME row \in Row
        PROVE  [row EXCEPT !.attempts = @ + 1] \in Row
    BY <2>1 DEF Row
  <2> QED
    BY <2>1 DEF CountAttempt, TypeOK
<1>5. request' \in [Request -> Call \cup {NoRequest}]
  BY <1>1, GotoType DEF CountAttempt
<1> QED
  BY <1>1, <1>3, <1>4, <1>5 DEF CountAttempt, TypeOK

LEMMA WritesType ==
  ASSUME TypeOK, CallsInv, NEW p \in Request,
         Mark(p) \/ Bind(p) \/ Attach(p) \/ Claim(p) \/ Issue(p)
  PROVE  TypeOK'
<1>1. request[p] \in Call /\ request[p] # NoRequest
  BY DEF Mark, Bind, Attach, Claim, Issue, At, TypeOK
<1>2. CASE Mark(p)
  <2>1. request' \in [Request -> Call \cup {NoRequest}]
    BY <1>1, <1>2, GotoType DEF Mark, Release, TypeOK
  <2>2. Shown(p) \in Address \cup {NoOne}
    BY <1>1 DEF Shown, Mail, TypeOK, Call
  <2>3. row' \in Row
    BY <1>1, <1>2 DEF Mark, Live, TypeOK, Row, Call
  <2>4. proof' \in Proof
    BY <1>1, <1>2, <2>2 DEF Mark, Proof, Call
  <2> QED
    BY <1>2, <2>1, <2>3, <2>4 DEF Mark, TypeOK
<1>3. CASE Bind(p)
  <2>1. request' \in [Request -> Call \cup {NoRequest}]
    BY <1>1, <1>3, GotoType DEF Bind
  <2>2. row' \in Row
    BY <1>1, <1>3 DEF Bind, Live, TypeOK, Row, Call
  <2> QED
    BY <1>3, <2>1, <2>2 DEF Bind, TypeOK, ghosts
<1>4. CASE Attach(p)
  <2>1. cookie' \in [Browser -> Nat]
    BY <1>4, LifetimeType DEF Attach, TypeOK
  <2> QED
    BY <1>4, <2>1 DEF Attach, Release, TypeOK, ghosts
<1>5. CASE Claim(p)
  <2>1. request' \in [Request -> Call \cup {NoRequest}]
    BY <1>1, <1>5, GotoType DEF Claim
  <2> QED
    BY <1>5, <2>1 DEF Claim, TypeOK, ghosts
<1>6. CASE Issue(p)
  BY <1>1, <1>6 DEF Issue, Release, TypeOK, Proof, Call, ghosts
<1> QED
  BY <1>2, <1>3, <1>4, <1>5, <1>6

LEMMA NextType ==
  ASSUME TypeOK, CallsInv, [Next]_vars
  PROVE  TypeOK'
<1>1. CASE UNCHANGED vars
  BY <1>1 DEF TypeOK, vars, ghosts, Mail
<1>2. CASE \/ Tick \/ Deny \/ Sweep
           \/ \E b \in Browser : Start(b) \/ Replace(b)
           \/ \E a \in Address : Invite(a)
  BY <1>2, SessionType
<1>3. ASSUME NEW p \in Request, Handle(p) PROVE TypeOK'
  BY <1>3, ArriveType, LoadsType, SaveType, CountType, WritesType
  DEF Handle, Loads
<1> QED
  BY <1>1, <1>2, <1>3 DEF Next

-----------------------------------------------------------------------------
(* The row, the proof and the requests *)

LEMMA InitKeeps == Init => RowInv /\ CallsInv
BY DEF Init, RowInv, CallsInv

\* Requests are as before or gone, and the row, the proof and the mails are:
\* what the requests have read stays true.
LEMMA SameCalls ==
  ASSUME CallsInv, UNCHANGED <<mailed, code, proof>>,
         started => started', NEW p \in Request,
         \/ row' = row \/ row' = NoRow
         \/ row # NoRow /\ row' # NoRow /\ row'.binding = row.binding
              /\ row'.authenticated = row.authenticated,
         \A q \in Request : q # p => request'[q] = request[q],
         request'[p] = request[p] \/ request'[p] = NoRequest
  PROVE  CallsInv'
<1> SUFFICES ASSUME NEW q \in Request, request'[q] # NoRequest
             PROVE  CallInv(q)'
  BY DEF CallsInv
<1>1. request'[q] = request[q] /\ CallInv(q)
  BY DEF CallsInv
<1>2. \A o \in Request : At(o, "issue")' => At(o, "issue")
  BY DEF At
<1>3. Settled => Settled'
  BY DEF Settled
<1> QED
  BY <1>1, <1>2, <1>3 DEF CallInv, Mail

LEMMA SessionKeeps ==
  ASSUME TypeOK, RowInv, CallsInv,
         \/ Tick \/ Deny \/ Sweep
         \/ \E b \in Browser : Start(b) \/ Replace(b)
         \/ \E a \in Address : Invite(a)
  PROVE  RowInv' /\ CallsInv'
<1>1. CASE Tick \/ Deny \/ Sweep \/ \E b \in Browser : Replace(b)
  <2>1. /\ UNCHANGED <<request, mailed, code, started, proof, tries>>
        /\ row' \in {row, NoRow}
    BY <1>1 DEF Tick, Deny, Sweep, Replace, ghosts
  <2>2. RowInv'
    BY <2>1 DEF RowInv, Mail
  <2>3. ASSUME NEW p \in Request PROVE CallsInv'
    BY <2>1, SameCalls
  <2>4. CallsInv'
    BY <2>3 DEF CallsInv
  <2> QED
    BY <2>2, <2>4
<1>2. CASE \/ \E b \in Browser : Start(b)
           \/ \E a \in Address : Invite(a)
  <2>1. /\ ~started /\ started' = TRUE /\ row' # NoRow /\ ~row'.authenticated
        /\ UNCHANGED <<request, code, proof>>
        /\ row'.otp = 0 /\ row'.magic \in {0, 1} /\ row'.subject = NoOne
        /\ row'.magic = 1 => mailed' = <<row'.email>>
    <3>1. ASSUME NEW b \in Browser, Start(b)
          PROVE  /\ row' \in Row /\ ~row'.authenticated
                 /\ row'.otp = 0 /\ row'.magic = 0 /\ row'.subject = NoOne
      BY <3>1, LifetimeType, NewRowType DEF Start, NewRow
    <3>2. ASSUME NEW a \in Address, Invite(a)
          PROVE  /\ row' \in Row /\ ~row'.authenticated
                 /\ row'.otp = 0 /\ row'.magic = 1 /\ row'.email = a
                 /\ row'.subject = NoOne
      BY <3>2, LifetimeType, NewRowType DEF Invite, NewRow
    <3>3. /\ ~started /\ started' = TRUE
          /\ UNCHANGED <<request, code, proof>>
      BY <1>2 DEF Start, Invite
    <3>4. ASSUME NEW a \in Address, Invite(a)
          PROVE  mailed' = <<a>>
      BY <3>4 DEF Invite
    <3>5. row' \in Row => row' # NoRow
      BY RecordAssumption
    <3>6. CASE \E b \in Browser : Start(b)
      BY <3>1, <3>3, <3>5, <3>6
    <3>7. CASE \E a \in Address : Invite(a)
      BY <3>2, <3>3, <3>4, <3>5, <3>7
    <3> QED
      BY <1>2, <3>6, <3>7
  <2>2. RowInv'
    BY <2>1 DEF RowInv, Mail
  <2>3. ASSUME NEW q \in Request, request'[q] # NoRequest PROVE CallInv(q)'
    <3>1. CallInv(q) /\ request'[q] = request[q]
      BY <2>1, <2>3 DEF CallsInv
    <3>2. request[q].step \notin {"save", "count", "mark", "bind", "attach",
                                  "claim", "issue"}
      BY <2>1, <3>1 DEF CallInv
    <3> QED
      BY <3>1, <3>2 DEF CallInv
  <2> QED
    BY <2>2, <2>3 DEF CallsInv
<1> QED
  BY <1>1, <1>2

\* A step of p alone that changes nothing but its own record.
LEMMA OwnRecord ==
  ASSUME TypeOK, RowInv, CallsInv, NEW p \in Request,
         UNCHANGED <<row, mailed, code, ghosts>>,
         \A q \in Request : q # p => request'[q] = request[q],
         request'[p] # NoRequest => CallInv(p)',
         request'[p] # NoRequest => request'[p].step # "issue"
  PROVE  RowInv' /\ CallsInv'
<1>1. RowInv'
  BY DEF RowInv, Mail, ghosts
<1>2. ASSUME NEW q \in Request, q # p, request'[q] # NoRequest
      PROVE  CallInv(q)'
  <2>1. request'[q] = request[q] /\ CallInv(q)
    BY <1>2 DEF CallsInv
  <2>2. \A o \in Request : At(o, "issue")' => At(o, "issue")
    BY DEF At
  <2>3. Settled' = Settled
    BY DEF Settled
  <2> QED
    BY <2>1, <2>2, <2>3 DEF CallInv, Mail, ghosts
<1> QED
  BY <1>1, <1>2 DEF CallsInv

LEMMA ArriveKeeps ==
  ASSUME TypeOK, RowInv, CallsInv, NEW p \in Request, Ask(p) \/ Leave(p)
  PROVE  RowInv' /\ CallsInv'
<1>1. CASE Leave(p)
  BY <1>1, OwnRecord DEF Leave, Release, TypeOK
<1>2. ASSUME NEW b \in Browser, NEW e, NEW n,
             NEW s \in {"send", "otp", "magic", "identity", "complete"},
             s # "complete" => e \in Address, s = "identity" => n = 0,
             Arrive(p, s, b, e, n)
      PROVE  RowInv' /\ CallsInv'
  <2>1. /\ request'[p].step = s /\ request'[p].email = e
        /\ request'[p].secret = n /\ request'[p].stored = 0
        /\ ~request'[p].unbound
    BY <1>2 DEF Arrive, TypeOK
  <2>2. CallInv(p)'
    BY <1>2, <2>1 DEF CallInv
  <2> QED
    BY <1>2, <2>1, <2>2, OwnRecord DEF Arrive, TypeOK
<1> QED
  BY <1>1, <1>2 DEF Ask

LEMMA LoadsKeeps ==
  ASSUME TypeOK, RowInv, CallsInv, NEW p \in Request, Loads(p)
  PROVE  RowInv' /\ CallsInv'
<1>1. /\ UNCHANGED <<row, mailed, code, ghosts>>
      /\ \A q \in Request : q # p => request'[q] = request[q]
      /\ request[p] # NoRequest /\ CallInv(p) /\ Live /\ request[p] \in Call
  BY DEF Loads, LoadSend, LoadOtp, LoadMagic, LoadIdentity, LoadComplete, At,
         TypeOK, CallsInv, LiveBound
<1>2. row # NoRow /\ row \in Row /\ started /\ mailed' = mailed /\ row' = row
  BY <1>1 DEF Live, RowInv, TypeOK
<1>3. CASE LoadSend(p)
  <2>1. request'[p] = [request[p] EXCEPT !.step = "save", !.stored = now]
    BY <1>3 DEF LoadSend, TypeOK
  <2>2. request'[p].step = "save" /\ request'[p].email = request[p].email
    /\ ~request'[p].unbound /\ request[p].step = "send"
    <3>1. request[p].step = "send"
      BY <1>3 DEF LoadSend, At
    <3>2. ~request[p].unbound
      BY <1>1, <3>1 DEF CallInv
    <3> QED
      BY <1>1, <2>1, <3>1, <3>2 DEF Call
  <2>3. CallInv(p)'
    BY <1>1, <1>2, <2>2 DEF CallInv, ghosts
  <2> QED
    BY <1>1, <2>2, <2>3, OwnRecord
<1>4. CASE LoadOtp(p)
  <2>1. request'[p] = [request[p] EXCEPT !.step = "count", !.stored = row.otp,
                                         !.subject = row.email]
    BY <1>4 DEF LoadOtp, TypeOK
  <2>2. /\ request'[p].step = "count" /\ request'[p].email = request[p].email
        /\ request'[p].stored = row.otp /\ request'[p].subject = row.email
        /\ request'[p].browser = request[p].browser
        /\ ~request'[p].unbound /\ request[p].step = "otp"
        /\ row.otp # 0 /\ row.binding = request[p].browser
    <3>1. /\ request[p].step = "otp" /\ row.otp # 0
          /\ row.binding = request[p].browser
      BY <1>4 DEF LoadOtp, At, LiveBound, Bound
    <3>2. ~request[p].unbound
      BY <1>1, <3>1 DEF CallInv
    <3> QED
      BY <1>1, <2>1, <3>1, <3>2 DEF Call
  <2>3. CallInv(p)'
    BY <1>1, <1>2, <2>2 DEF CallInv, ghosts, RowInv, Mail
  <2> QED
    BY <1>1, <2>2, <2>3, OwnRecord
<1>5. CASE LoadMagic(p)
  <2>1. request'[p] = [request[p] EXCEPT !.step = "mark", !.stored = row.magic,
                         !.subject = row.email, !.unbound = (row.binding = NoOne)]
    BY <1>5 DEF LoadMagic, TypeOK
  <2>2. /\ request'[p].step = "mark" /\ request'[p].email = request[p].email
        /\ request'[p].stored = row.magic /\ request'[p].subject = row.email
        /\ request'[p].browser = request[p].browser
        /\ request'[p].unbound = (row.binding = NoOne)
        /\ request[p].step = "magic" /\ row.magic # 0
        /\ row.binding = NoOne \/ row.binding = request[p].browser
    <3>1. /\ request[p].step = "magic" /\ row.magic # 0
          /\ row.binding = NoOne \/ row.binding = request[p].browser
      BY <1>5 DEF LoadMagic, At, Bound
    <3> QED
      BY <1>1, <2>1, <3>1 DEF Call
  <2>3. CallInv(p)'
    BY <1>1, <1>2, <2>2 DEF CallInv, ghosts, RowInv, Mail
  <2> QED
    BY <1>1, <2>2, <2>3, OwnRecord
<1>6. CASE LoadIdentity(p)
  <2>1. request'[p] = [request[p] EXCEPT !.step = "mark",
                                         !.subject = request[p].email]
    BY <1>6 DEF LoadIdentity, TypeOK
  <2>2. /\ request'[p].step = "mark" /\ request'[p].email = request[p].email
        /\ request'[p].stored = 0 /\ ~request'[p].unbound
        /\ request'[p].browser = request[p].browser
        /\ request[p].step = "identity" /\ row.binding = request[p].browser
    <3>1. request[p].step = "identity" /\ row.binding = request[p].browser
      BY <1>6 DEF LoadIdentity, At, LiveBound, Bound
    <3>2. ~request[p].unbound /\ request[p].stored = 0
      BY <1>1, <3>1 DEF CallInv
    <3> QED
      BY <1>1, <2>1, <3>1, <3>2 DEF Call
  <2>3. CallInv(p)'
    BY <1>1, <1>2, <2>2 DEF CallInv, ghosts
  <2> QED
    BY <1>1, <2>2, <2>3, OwnRecord
<1>7. CASE LoadComplete(p)
  <2>1. request'[p] = [request[p] EXCEPT !.step = "claim",
                                         !.subject = row.subject]
    BY <1>7 DEF LoadComplete, TypeOK
  <2>2. /\ request'[p].step = "claim" /\ request'[p].subject = row.subject
        /\ request'[p].browser = request[p].browser /\ ~request'[p].unbound
        /\ request[p].browser \in Browser
        /\ row.binding = request[p].browser /\ row.authenticated
    <3>1. /\ request[p].step = "complete" /\ row.authenticated
          /\ row.binding = request[p].browser
      BY <1>7 DEF LoadComplete, At, LiveBound, Bound
    <3>2. ~request[p].unbound
      BY <1>1, <3>1 DEF CallInv
    <3> QED
      BY <1>1, <2>1, <3>1, <3>2 DEF Call
  <2>3. row.subject = proof.of /\ proof.of \in Address /\ row.binding = proof.by
    BY <1>2, <2>2, NoneAssumption DEF RowInv
  <2>4. CallInv(p)'
    BY <1>1, <1>2, <2>2, <2>3 DEF CallInv, ghosts, Settled
  <2> QED
    BY <1>1, <2>2, <2>4, OwnRecord
<1> QED
  BY <1>3, <1>4, <1>5, <1>6, <1>7 DEF Loads

\* Mails of before keep their address; the row's secrets are the new mail's.
LEMMA SaveKeeps ==
  ASSUME TypeOK, RowInv, CallsInv, NEW p \in Request, SaveOtp(p)
  PROVE  RowInv' /\ CallsInv'
<1>1. /\ Len(mailed') = Len(mailed) + 1 /\ Len(mailed) \in Nat
      /\ \A n \in Mail : n \in Mail' /\ mailed'[n] = mailed[n]
      /\ Len(mailed') \in Mail'
      /\ mailed'[Len(mailed')] = request[p].email
  <2>1. Len(mailed) \in Nat
    BY LenProperties DEF TypeOK
  <2>2. /\ Len(mailed') = Len(mailed) + 1
        /\ \A n \in Mail : mailed'[n] = mailed[n]
        /\ mailed'[Len(mailed')] = request[p].email
    BY SaveType
  <2> QED
    BY <2>1, <2>2 DEF Mail
<1>2. /\ UNCHANGED <<code, started, proof>> /\ started
      /\ request' = [request EXCEPT ![p] = NoRequest]
  BY DEF SaveOtp, Release, At, CallsInv, CallInv
<1>3. /\ row = NoRow => row' = NoRow
      /\ row # NoRow =>
           /\ row'.email = request[p].email
           /\ row'.otp = Len(mailed') /\ row'.magic = Len(mailed')
           /\ row'.authenticated = row.authenticated
           /\ row'.subject = row.subject /\ row'.binding = row.binding
  BY DEF SaveOtp, TypeOK, Row
<1>4. RowInv'
  BY <1>1, <1>2, <1>3 DEF RowInv
<1>5. ASSUME NEW q \in Request, request'[q] # NoRequest PROVE CallInv(q)'
  <2>1. request'[q] = request[q] /\ CallInv(q)
    BY <1>2, <1>5 DEF TypeOK, CallsInv
  <2>2. \A o \in Request : At(o, "issue")' => At(o, "issue")
    BY <1>2 DEF At, TypeOK
  <2>3. Settled => Settled'
    BY <1>3 DEF Settled
  <2> QED
    BY <1>1, <1>2, <1>3, <2>1, <2>2, <2>3 DEF CallInv
<1> QED
  BY <1>4, <1>5 DEF CallsInv

LEMMA CountKeeps ==
  ASSUME TypeOK, RowInv, CallsInv, NEW p \in Request, CountAttempt(p)
  PROVE  RowInv' /\ CallsInv'
<1>1. /\ UNCHANGED <<mailed, code, started, proof>>
      /\ request' = [request EXCEPT ![p].step = "mark"]
      /\ request[p] # NoRequest /\ request[p].step = "count"
      /\ request[p] \in Call
  BY DEF CountAttempt, Goto, At, TypeOK
<1>2. /\ row = NoRow => row' = NoRow
      /\ row # NoRow =>
           /\ row' # NoRow
           /\ row'.email = row.email /\ row'.otp = row.otp
           /\ row'.magic = row.magic
           /\ row'.authenticated = row.authenticated
           /\ row'.subject = row.subject /\ row'.binding = row.binding
  <2>1. ASSUME row \in Row
        PROVE  [row EXCEPT !.attempts = @ + 1] \in Row
    BY <2>1 DEF Row
  <2> QED
    BY <2>1, RecordAssumption DEF CountAttempt, TypeOK, Row
<1>3. RowInv'
  BY <1>1, <1>2 DEF RowInv, Mail
<1>4. Settled' <=> Settled
  BY <1>2 DEF Settled
<1>5. \A o \in Request : At(o, "issue")' => At(o, "issue")
  BY <1>1 DEF At, TypeOK, Call
<1>6. ASSUME NEW q \in Request, q # p, request'[q] # NoRequest
      PROVE  CallInv(q)'
  <2>1. request'[q] = request[q] /\ CallInv(q)
    BY <1>1, <1>6 DEF TypeOK, CallsInv
  <2> QED
    BY <1>1, <1>2, <1>4, <1>5, <2>1 DEF CallInv, Mail
<1>7. CallInv(p)'
  <2>1. CallInv(p)
    BY <1>1 DEF CallsInv
  <2>2. request'[p] = [request[p] EXCEPT !.step = "mark"]
    BY <1>1 DEF TypeOK
  <2>3. /\ request'[p].step = "mark" /\ request'[p].email = request[p].email
        /\ request'[p].stored = request[p].stored
        /\ request'[p].subject = request[p].subject
        /\ request'[p].browser = request[p].browser
        /\ request'[p].unbound = request[p].unbound
    BY <1>1, <2>2 DEF Call
  <2> QED
    BY <1>1, <1>2, <2>1, <2>3 DEF CallInv, Mail
<1> QED
  BY <1>3, <1>6, <1>7 DEF CallsInv

\* What Mark writes is the address the browser has shown.
LEMMA MarkProves ==
  ASSUME TypeOK, CallsInv, NEW p \in Request, Mark(p)
  PROVE  /\ request[p].subject = Shown(p) /\ Shown(p) \in Address
         /\ proof' = [of |-> request[p].subject, by |-> request[p].browser]
<1>1. /\ CallInv(p) /\ request[p].step = "mark" /\ request[p] \in Call
      /\ request[p].email = request[p].subject
      /\ request[p].secret = request[p].stored
  BY DEF Mark, At, CallsInv, TypeOK, Matches
<1>2. request[p].email \in Address
  BY <1>1 DEF CallInv
<1>3. request[p].stored # 0 =>
        request[p].stored \in Mail /\ mailed[request[p].stored] = request[p].subject
  BY <1>1 DEF CallInv
<1>4. request[p].stored = 0 => request[p].secret \notin Mail
  BY <1>1 DEF Mail
<1>5. request[p].subject = Shown(p)
  BY <1>1, <1>3, <1>4 DEF Shown
<1> QED
  BY <1>1, <1>2, <1>5 DEF Mark

LEMMA MarkKeeps ==
  ASSUME TypeOK, RowInv, CallsInv, NEW p \in Request, Mark(p)
  PROVE  RowInv' /\ CallsInv'
<1>1. /\ UNCHANGED <<mailed, code, started>> /\ started
      /\ request[p] # NoRequest /\ request[p].step = "mark"
      /\ request[p] \in Call /\ CallInv(p)
      /\ row # NoRow /\ ~row.authenticated /\ row \in Row
  BY DEF Mark, At, Live, TypeOK, CallsInv, RowInv
<1>2. row' = [row EXCEPT !.authenticated = TRUE, !.subject = request[p].subject]
  BY DEF Mark
<1>3. /\ row' \in Row /\ row'.authenticated
      /\ row'.subject = request[p].subject /\ row'.binding = row.binding
      /\ row'.email = row.email /\ row'.otp = row.otp /\ row'.magic = row.magic
  BY <1>1, <1>2 DEF Row, Call
<1>4. /\ proof'.of = request[p].subject /\ proof'.of \in Address
      /\ proof'.by = request[p].browser /\ proof'.by \in Browser
  BY <1>1, MarkProves DEF Call
<1>5. row.binding \in {NoOne, request[p].browser}
  BY <1>1 DEF CallInv
<1>6. row' # NoRow /\ code.of = NoOne
  BY <1>1, <1>3, RecordAssumption DEF RowInv
<1>7. RowInv'
  BY <1>1, <1>3, <1>4, <1>5, <1>6 DEF RowInv, Mail
<1>8. ASSUME NEW q \in Request, q # p, request'[q] # NoRequest
      PROVE  CallInv(q)'
  <2>1. request'[q] = request[q] /\ CallInv(q)
    BY <1>8 DEF Mark, Goto, Release, TypeOK, CallsInv
  <2>2. request[q].step \notin {"bind", "claim", "issue"}
    BY <1>1, <2>1 DEF CallInv, Settled
  <2> QED
    BY <1>1, <1>3, <2>1, <2>2 DEF CallInv, Mail
<1>9. ASSUME request'[p] # NoRequest PROVE CallInv(p)'
  <2>1. request' = [request EXCEPT ![p].step = "bind"]
    BY <1>9 DEF Mark, Goto, Release, TypeOK
  <2>2. request'[p] = [request[p] EXCEPT !.step = "bind"]
    BY <2>1 DEF TypeOK
  <2>3. request'[p].step = "bind" /\ request'[p].browser = request[p].browser
    BY <1>1, <2>2 DEF Call
  <2> QED
    BY <1>1, <1>3, <1>4, <2>3 DEF CallInv, Settled
<1> QED
  BY <1>7, <1>8, <1>9 DEF CallsInv

LEMMA BindKeeps ==
  ASSUME TypeOK, RowInv, CallsInv, NEW p \in Request, Bind(p)
  PROVE  RowInv' /\ CallsInv'
<1>1. /\ UNCHANGED <<mailed, code, started, proof>> /\ started
      /\ request' = [request EXCEPT ![p].step = "attach"]
      /\ request[p] # NoRequest /\ request[p].step = "bind"
      /\ request[p] \in Call /\ CallInv(p)
      /\ row # NoRow /\ row \in Row
  BY DEF Bind, Goto, At, Live, TypeOK, CallsInv, RowInv, ghosts
<1>2. row.authenticated /\ proof.by = request[p].browser
  BY <1>1 DEF CallInv, Settled
<1>3. row' = [row EXCEPT !.binding = request[p].browser]
  BY DEF Bind
<1>4. /\ row' \in Row /\ row'.authenticated = row.authenticated
      /\ row'.subject = row.subject /\ row'.binding = request[p].browser
      /\ row'.email = row.email /\ row'.otp = row.otp /\ row'.magic = row.magic
  BY <1>1, <1>3 DEF Row, Call
<1>5. row' # NoRow /\ row'.authenticated
  BY <1>2, <1>4, RecordAssumption
<1>6. RowInv'
  BY <1>1, <1>2, <1>4, <1>5 DEF RowInv, Mail
<1>7. ASSUME NEW q \in Request, q # p, request'[q] # NoRequest
      PROVE  CallInv(q)'
  <2>1. request'[q] = request[q] /\ CallInv(q)
    BY <1>1, <1>7 DEF TypeOK, CallsInv
  <2>2. request[q].step # "issue" /\ Settled'
    BY <1>1, <1>5, <2>1 DEF CallInv, Settled
  <2>3. request[q].step \in {"count", "mark"} =>
          \/ ~request[q].unbound /\ row'.binding = request[q].browser
          \/ request[q].unbound /\ row'.authenticated
    <3>1. row.binding = NoOne
      BY DEF Bind
    <3>2. request[q] \in Call /\ request[q].browser \in Browser
      BY <1>7, <2>1 DEF TypeOK, Call
    <3> QED
      BY <1>1, <1>5, <2>1, <3>1, <3>2, NoneAssumption DEF CallInv
  <2> QED
    BY <1>1, <2>1, <2>2, <2>3 DEF CallInv, Mail
<1>8. CallInv(p)'
  <2>1. request'[p] = [request[p] EXCEPT !.step = "attach"]
    BY <1>1 DEF TypeOK
  <2>2. request'[p].step = "attach"
    BY <1>1, <2>1 DEF Call
  <2> QED
    BY <1>1, <2>2 DEF CallInv
<1> QED
  BY <1>6, <1>7, <1>8 DEF CallsInv

LEMMA AttachKeeps ==
  ASSUME TypeOK, RowInv, CallsInv, NEW p \in Request, Attach(p)
  PROVE  RowInv' /\ CallsInv'
BY OwnRecord DEF Attach, Release, TypeOK

\* Whoever deletes the row is the only one to issue a code.
LEMMA ClaimKeeps ==
  ASSUME TypeOK, RowInv, CallsInv, NEW p \in Request, Claim(p)
  PROVE  RowInv' /\ CallsInv'
<1>1. /\ UNCHANGED <<mailed, code, started, proof>> /\ started /\ row' = NoRow
      /\ request' = [request EXCEPT ![p].step = "issue"]
      /\ request[p] # NoRequest /\ request[p].step = "claim"
      /\ request[p] \in Call /\ CallInv(p)
      /\ row # NoRow /\ code.of = NoOne
  BY DEF Claim, Goto, At, Live, TypeOK, CallsInv, RowInv, ghosts
<1>2. \A q \in Request : ~At(q, "issue")
  BY <1>1 DEF CallsInv, CallInv, At
<1>3. \A q \in Request : At(q, "issue")' => q = p
  BY <1>1, <1>2 DEF At, TypeOK
<1>4. RowInv'
  BY <1>1 DEF RowInv
<1>5. ASSUME NEW q \in Request, q # p, request'[q] # NoRequest
      PROVE  CallInv(q)'
  <2>1. request'[q] = request[q] /\ CallInv(q)
    BY <1>1, <1>5 DEF TypeOK, CallsInv
  <2>2. request[q].step # "issue" /\ Settled'
    BY <1>1, <1>2, <1>5, <2>1 DEF At, Settled
  <2> QED
    BY <1>1, <2>1, <2>2 DEF CallInv, Mail
<1>6. CallInv(p)'
  <2>1. request'[p] = [request[p] EXCEPT !.step = "issue"]
    BY <1>1 DEF TypeOK
  <2>2. /\ request'[p].step = "issue" /\ request'[p].subject = request[p].subject
        /\ request'[p].browser = request[p].browser
        /\ request'[p].unbound = request[p].unbound
    BY <1>1, <2>1 DEF Call
  <2>3. Settled'
    BY <1>1 DEF Settled
  <2> QED
    BY <1>1, <1>3, <2>2, <2>3 DEF CallInv
<1> QED
  BY <1>4, <1>5, <1>6 DEF CallsInv

LEMMA IssueKeeps ==
  ASSUME TypeOK, RowInv, CallsInv, NEW p \in Request, Issue(p)
  PROVE  RowInv' /\ CallsInv'
<1>1. /\ UNCHANGED <<row, mailed, started, proof>>
      /\ request' = [request EXCEPT ![p] = NoRequest]
      /\ code' = [of |-> request[p].subject, by |-> request[p].browser]
      /\ request[p].step = "issue" /\ CallInv(p)
  BY DEF Issue, Release, At, CallsInv, ghosts
<1>2. code' = proof /\ row = NoRow /\ started
  BY <1>1 DEF CallInv, TypeOK, Proof
<1>3. RowInv'
  BY <1>1, <1>2 DEF RowInv
<1>4. ASSUME NEW q \in Request, request'[q] # NoRequest PROVE CallInv(q)'
  <2>1. request'[q] = request[q] /\ CallInv(q) /\ q # p
    BY <1>1, <1>4 DEF TypeOK, CallsInv
  <2>2. request[q].step # "issue"
    BY <1>1, <1>4, <2>1 DEF CallInv, At
  <2> QED
    BY <1>1, <1>2, <2>1, <2>2 DEF CallInv, Mail, Settled
<1> QED
  BY <1>3, <1>4 DEF CallsInv

LEMMA NextKeeps ==
  ASSUME IInv, [Next]_vars
  PROVE  IInv'
<1>1. TypeOK'
  BY NextType DEF IInv
<1>2. CASE UNCHANGED vars
  BY <1>1, <1>2
  DEF IInv, vars, ghosts, RowInv, CallsInv, CallInv, Mail, Settled, At
<1>3. CASE \/ Tick \/ Deny \/ Sweep
           \/ \E b \in Browser : Start(b) \/ Replace(b)
           \/ \E a \in Address : Invite(a)
  BY <1>1, <1>3, SessionKeeps DEF IInv
<1>4. ASSUME NEW p \in Request, Handle(p) PROVE IInv'
  BY <1>1, <1>4, ArriveKeeps, LoadsKeeps, SaveKeeps, CountKeeps, MarkKeeps,
     BindKeeps, AttachKeeps, ClaimKeeps, IssueKeeps
  DEF IInv, Handle, Loads
<1> QED
  BY <1>2, <1>3, <1>4 DEF Next

LEMMA Invariance == Spec => []IInv
<1>1. Init => IInv
  BY InitType, InitKeeps DEF IInv
<1>2. IInv /\ [Next]_vars => IInv'
  BY NextKeeps
<1> QED
  BY <1>1, <1>2, PTL DEF Spec

-----------------------------------------------------------------------------
(* The theorems *)

\* Variables keep their types.
THEOREM TypeCorrect == Spec => []TypeOK
<1>1. IInv => TypeOK
  BY DEF IInv
<1> QED
  BY <1>1, Invariance, PTL

\* Sessions and codes are of the address that was proven, whatever mails were
\* sent between a request's read of the row and its update.
THEOREM SubjectProven == Spec => []SubjectIsProven
<1>1. IInv => SubjectIsProven
  BY DEF IInv, RowInv, SubjectIsProven
<1> QED
  BY <1>1, Invariance, PTL

\* The browser that proves an address is the one bound and the one that gets
\* the code, for browser sign-ins and invitations alike.
THEOREM OneBrowser == Spec => []SameBrowser
<1>1. IInv => SameBrowser
  BY NoneAssumption DEF IInv, RowInv, SameBrowser
<1> QED
  BY <1>1, Invariance, PTL

-----------------------------------------------------------------------------
(* Attempts on a code *)

LEMMA ReadingFinite ==
  ASSUME NEW n
  PROVE  /\ IsFiniteSet(Reading(n)) /\ Cardinality(Reading(n)) \in Nat
         /\ Cardinality(Request) \in Nat
         /\ Cardinality(Reading(n)) <= Cardinality(Request)
BY AttemptsAssumption, FS_Subset, FS_CardinalityType DEF Reading

\* A code with attempts left, or a new one, is within the bound.
LEMMA BelowLimit ==
  ASSUME NEW n, NEW k \in Nat, k < MaxAttempts
  PROVE  k + Cardinality(Reading(n))' < MaxAttempts + Cardinality(Request)
<1>1. /\ IsFiniteSet(Reading(n)') /\ Cardinality(Reading(n)') \in Nat
      /\ Cardinality(Request) \in Nat
      /\ Cardinality(Reading(n)') <= Cardinality(Request)
  BY AttemptsAssumption, FS_Subset, FS_CardinalityType DEF Reading
<1> QED
  BY <1>1, AttemptsAssumption

LEMMA FewerReading ==
  ASSUME NEW n, Reading(n)' \subseteq Reading(n)
  PROVE  Cardinality(Reading(n)') \in Nat
         /\ Cardinality(Reading(n)') <= Cardinality(Reading(n))
BY ReadingFinite, FS_Subset, FS_CardinalityType

\* Steps that neither load a code, nor count, nor send.
LEMMA QuietTries ==
  ASSUME TypeOK, TriesInv, UNCHANGED <<mailed, tries>>,
         row' # NoRow /\ row'.otp # 0 =>
           row # NoRow /\ row'.otp = row.otp /\ row'.attempts = row.attempts,
         \A n \in Mail : Reading(n)' \subseteq Reading(n)
  PROVE  TriesInv'
<1>1. Mail' = Mail
  BY DEF Mail
<1>2. ASSUME NEW n \in Mail
      PROVE  tries[n] + Cardinality(Reading(n)')
               < MaxAttempts + Cardinality(Request)
  <2>1. tries[n] + Cardinality(Reading(n)) < MaxAttempts + Cardinality(Request)
    BY DEF TriesInv
  <2>2. Cardinality(Reading(n)) \in Nat /\ Cardinality(Request) \in Nat
    BY ReadingFinite
  <2>3. Cardinality(Reading(n)') \in Nat
        /\ Cardinality(Reading(n)') <= Cardinality(Reading(n))
    BY FewerReading
  <2>4. tries[n] \in Nat
    BY DEF TypeOK, Mail
  <2> QED
    BY <2>1, <2>2, <2>3, <2>4, AttemptsAssumption
<1>3. row' # NoRow /\ row'.otp # 0 => tries'[row'.otp] <= row'.attempts
  BY DEF TriesInv
<1> QED
  BY <1>1, <1>2, <1>3 DEF TriesInv

LEMMA LoadOtpTries ==
  ASSUME IInv, TriesInv, NEW p \in Request, LoadOtp(p)
  PROVE  TriesInv'
<1>1. /\ UNCHANGED <<row, mailed, tries>> /\ row \in Row
      /\ row # NoRow /\ row.attempts < MaxAttempts /\ row.otp # 0
      /\ request[p] # NoRequest /\ request[p] \in Call
  BY DEF LoadOtp, LiveBound, Live, At, IInv, TypeOK, ghosts
<1>2. Mail' = Mail /\ row.otp \in Mail /\ tries[row.otp] <= row.attempts
  BY <1>1 DEF Mail, IInv, RowInv, TriesInv
<1>3. request'[p] = [request[p] EXCEPT !.step = "count", !.stored = row.otp,
                                       !.subject = row.email]
  BY DEF LoadOtp, IInv, TypeOK
<1>4. /\ request'[p].stored = row.otp
      /\ \A q \in Request : q # p => request'[q] = request[q]
  BY <1>1, <1>3 DEF Call, LoadOtp, IInv, TypeOK
<1>5. ASSUME NEW n \in Mail
      PROVE  tries[n] + Cardinality(Reading(n)')
               < MaxAttempts + Cardinality(Request)
  <2>1. tries[n] \in Nat
    BY DEF IInv, TypeOK, Mail
  <2>2. CASE n = row.otp
    <3>1. tries[n] < MaxAttempts
      BY <1>1, <1>2, <2>1, <2>2, AttemptsAssumption DEF Row
    <3> QED
      BY <2>1, <3>1, BelowLimit
  <2>3. CASE n # row.otp
    <3>1. Reading(n)' \subseteq Reading(n)
      BY <1>4, <2>3 DEF Reading, At
    <3>2. Cardinality(Reading(n)') \in Nat
          /\ Cardinality(Reading(n)') <= Cardinality(Reading(n))
      BY <3>1, FewerReading
    <3>3. /\ tries[n] + Cardinality(Reading(n))
               < MaxAttempts + Cardinality(Request)
          /\ Cardinality(Reading(n)) \in Nat /\ Cardinality(Request) \in Nat
      BY ReadingFinite DEF TriesInv
    <3> QED
      BY <2>1, <3>2, <3>3, AttemptsAssumption
  <2> QED
    BY <2>2, <2>3
<1> QED
  BY <1>1, <1>2, <1>5 DEF TriesInv

LEMMA CountTries ==
  ASSUME IInv, TriesInv, NEW p \in Request, CountAttempt(p)
  PROVE  TriesInv'
<1> DEFINE read == request[p].stored
<1>1. /\ read \in Mail /\ Mail' = Mail
      /\ \A n \in Mail : tries'[n] = IF n = read THEN tries[n] + 1 ELSE tries[n]
      /\ \A n \in Mail : tries[n] \in Nat
  <2>1. TypeOK /\ CallsInv
    BY DEF IInv
  <2>2. \A n \in Mail : tries[n] \in Nat
    BY <2>1 DEF TypeOK, Mail
  <2>3. Mail' = Mail
    BY DEF CountAttempt, Mail
  <2> QED
    BY <2>1, <2>2, <2>3, CountType
<1>2. /\ request[p] # NoRequest /\ request[p].step = "count"
      /\ request[p] \in Call
      /\ request' = [request EXCEPT ![p].step = "mark"]
  BY DEF CountAttempt, Goto, At, IInv, TypeOK
<1>3. request'[p].step = "mark"
      /\ \A q \in Request : q # p => request'[q] = request[q]
  BY <1>2 DEF Call, IInv, TypeOK
<1>4. \A n : Reading(n)' = Reading(n) \ {p}
  BY <1>3 DEF Reading, At
<1>5. ASSUME row' # NoRow, row'.otp # 0
      PROVE  tries'[row'.otp] <= row'.attempts
  <2>1. /\ row # NoRow /\ row \in Row
        /\ row' = [row EXCEPT !.attempts = @ + 1]
    BY <1>5 DEF CountAttempt, IInv, TypeOK
  <2>2. row'.otp = row.otp /\ row'.attempts = row.attempts + 1
        /\ row.attempts \in Nat
    BY <2>1 DEF Row
  <2>3. row.otp \in Mail /\ tries[row.otp] <= row.attempts
    BY <1>5, <2>1, <2>2 DEF IInv, RowInv, TriesInv
  <2> QED
    BY <1>1, <2>2, <2>3
<1>6. ASSUME NEW n \in Mail
      PROVE  tries'[n] + Cardinality(Reading(n)')
               < MaxAttempts + Cardinality(Request)
  <2>1. /\ tries[n] + Cardinality(Reading(n))
             < MaxAttempts + Cardinality(Request)
        /\ IsFiniteSet(Reading(n))
        /\ Cardinality(Reading(n)) \in Nat /\ Cardinality(Request) \in Nat
    BY ReadingFinite DEF TriesInv
  <2>2. CASE n = read
    <3>1. p \in Reading(n)
      BY <1>2, <2>2 DEF Reading, At
    <3>2. Cardinality(Reading(n)') = Cardinality(Reading(n)) - 1
      BY <1>4, <2>1, <3>1, FS_RemoveElement
    <3> QED
      BY <1>1, <2>1, <2>2, <3>2, AttemptsAssumption
  <2>3. CASE n # read
    <3>1. Cardinality(Reading(n)') \in Nat
          /\ Cardinality(Reading(n)') <= Cardinality(Reading(n))
      BY <1>4, FewerReading
    <3> QED
      BY <1>1, <2>1, <2>3, <3>1, AttemptsAssumption
  <2> QED
    BY <2>2, <2>3
<1> QED
  BY <1>1, <1>5, <1>6 DEF TriesInv

LEMMA SaveTries ==
  ASSUME IInv, TriesInv, NEW p \in Request, SaveOtp(p)
  PROVE  TriesInv'
<1>1. /\ Len(mailed') = Len(mailed) + 1 /\ Len(mailed) \in Nat
      /\ \A n \in Mail : tries'[n] = tries[n] /\ tries[n] \in Nat
      /\ tries'[Len(mailed')] = 0
  BY SaveType, LenProperties DEF IInv, TypeOK, Mail
<1>2. row' # NoRow => row'.otp = Len(mailed') /\ row'.attempts = 0
  BY DEF SaveOtp, IInv, TypeOK, Row
<1>3. \A n : Reading(n)' \subseteq Reading(n)
  BY DEF SaveOtp, Release, Reading, At, IInv, TypeOK
<1>4. ASSUME NEW n \in Mail'
      PROVE  tries'[n] + Cardinality(Reading(n)')
               < MaxAttempts + Cardinality(Request)
  <2>1. CASE n = Len(mailed')
    BY <1>1, <2>1, BelowLimit, AttemptsAssumption
  <2>2. CASE n # Len(mailed')
    <3>1. n \in Mail
      BY <1>1, <1>4, <2>2 DEF Mail
    <3>2. /\ tries[n] + Cardinality(Reading(n))
               < MaxAttempts + Cardinality(Request)
          /\ Cardinality(Reading(n)) \in Nat /\ Cardinality(Request) \in Nat
      BY <3>1, ReadingFinite DEF TriesInv
    <3>3. Cardinality(Reading(n)') \in Nat
          /\ Cardinality(Reading(n)') <= Cardinality(Reading(n))
      BY <1>3, FewerReading
    <3> QED
      BY <1>1, <3>1, <3>2, <3>3, AttemptsAssumption
  <2> QED
    BY <2>1, <2>2
<1> QED
  BY <1>1, <1>2, <1>4 DEF TriesInv

LEMMA InviteTries ==
  ASSUME IInv, TriesInv, NEW a \in Address, Invite(a)
  PROVE  TriesInv'
<1>1. mailed' = <<a>> /\ tries' = <<0>> /\ Mail' = {1}
  BY DEF Invite, Mail
<1>2. row'.otp = 0
  BY LifetimeType, NewRowType DEF IInv, Invite, NewRow
<1>3. tries'[1] + Cardinality(Reading(1)') < MaxAttempts + Cardinality(Request)
  BY <1>1, BelowLimit, AttemptsAssumption
<1> QED
  BY <1>1, <1>2, <1>3 DEF TriesInv

LEMMA NextTries ==
  ASSUME IInv, TriesInv, [Next]_vars
  PROVE  TriesInv'
<1> USE DEF IInv
<1>1. CASE UNCHANGED vars
  BY <1>1, QuietTries DEF vars, ghosts, Reading, At
<1>2. CASE Tick \/ Deny \/ Sweep \/ \E b \in Browser : Replace(b)
  BY <1>2, QuietTries DEF Tick, Deny, Sweep, Replace, ghosts, Reading, At
<1>3. ASSUME NEW b \in Browser, Start(b) PROVE TriesInv'
  BY <1>3, QuietTries DEF Start, NewRow, Reading, At
<1>4. ASSUME NEW a \in Address, Invite(a) PROVE TriesInv'
  BY <1>4, InviteTries
<1>5. ASSUME NEW p \in Request, Handle(p) PROVE TriesInv'
  <2>1. CASE LoadOtp(p)
    BY <2>1, LoadOtpTries
  <2>2. CASE CountAttempt(p)
    BY <2>2, CountTries
  <2>3. CASE SaveOtp(p)
    BY <2>3, SaveTries
  <2>4. CASE Ask(p) \/ Leave(p) \/ LoadSend(p) \/ LoadMagic(p) \/ LoadIdentity(p)
             \/ LoadComplete(p)
    <3>1. UNCHANGED <<row, mailed, tries>>
          /\ \A q \in Request : q # p => request'[q] = request[q]
      BY <2>4 DEF Ask, Arrive, Leave, Release, LoadSend, LoadMagic,
                  LoadIdentity, LoadComplete, TypeOK, ghosts
    <3>2. ~At(p, "count")'
      <4>1. CASE Ask(p)
        BY <4>1 DEF Ask, Arrive, At, TypeOK
      <4>2. CASE Leave(p)
        BY <4>2 DEF Leave, Release, At, TypeOK
      <4>3. CASE LoadSend(p) \/ LoadMagic(p) \/ LoadIdentity(p)
                 \/ LoadComplete(p)
        <5>1. request[p] \in Call
          BY <4>3 DEF LoadSend, LoadMagic, LoadIdentity, LoadComplete, At,
                      TypeOK
        <5>2. request'[p] # NoRequest => request'[p].step \in {"save", "mark", "claim"}
          BY <4>3, <5>1 DEF LoadSend, LoadMagic, LoadIdentity, LoadComplete,
                            TypeOK, Call
        <5> QED
          BY <5>2 DEF At
      <4> QED
        BY <2>4, <4>1, <4>2, <4>3
    <3>3. \A n \in Mail : Reading(n)' \subseteq Reading(n)
      BY <3>1, <3>2 DEF Reading, At
    <3> QED
      BY <3>1, <3>3, QuietTries
  <2>5. CASE Mark(p) \/ Bind(p) \/ Attach(p) \/ Claim(p) \/ Issue(p)
    <3>1. UNCHANGED <<mailed, tries>>
          /\ \A q \in Request : q # p => request'[q] = request[q]
      BY <2>5 DEF Mark, Bind, Attach, Claim, Issue, Goto, Release, TypeOK, ghosts
    <3>2. ~At(p, "count")'
      <4>1. request[p] \in Call
        BY <2>5 DEF Mark, Bind, Attach, Claim, Issue, At, TypeOK
      <4>2. request'[p] # NoRequest => request'[p].step \in {"bind", "attach", "issue"}
        BY <2>5, <4>1 DEF Mark, Bind, Attach, Claim, Issue, Goto, Release,
                          TypeOK, Call
      <4> QED
        BY <4>2 DEF At
    <3>3. \A n \in Mail : Reading(n)' \subseteq Reading(n)
      BY <3>1, <3>2 DEF Reading, At
    <3>4. row' # NoRow /\ row'.otp # 0 =>
            row # NoRow /\ row'.otp = row.otp /\ row'.attempts = row.attempts
      <4>1. CASE Mark(p) \/ Bind(p)
        <5>1. row # NoRow /\ row \in Row
          BY <4>1 DEF Mark, Bind, Live, TypeOK
        <5> QED
          BY <4>1, <5>1 DEF Mark, Bind, Row
      <4>2. CASE Attach(p) \/ Claim(p) \/ Issue(p)
        BY <4>2 DEF Attach, Claim, Issue
      <4> QED
        BY <2>5, <4>1, <4>2
    <3> QED
      BY <3>1, <3>3, <3>4, QuietTries
  <2> QED
    BY <1>5, <2>1, <2>2, <2>3, <2>4, <2>5 DEF Handle
<1> QED
  BY <1>1, <1>2, <1>3, <1>4, <1>5 DEF Next

\* No code is compared with more often than the limit and the number of
\* requests that can have read it below the limit at once allow.
THEOREM AttemptsLimited == Spec => []AttemptsBounded
<1>1. Init => TriesInv
  <2> SUFFICES ASSUME Init PROVE TriesInv
    OBVIOUS
  <2>1. Mail = {} /\ row = NoRow
    BY DEF Init, Mail
  <2> QED
    BY <2>1 DEF TriesInv
<1>2. IInv /\ TriesInv /\ [Next]_vars => TriesInv'
  BY NextTries
<1>3. IInv /\ TriesInv => AttemptsBounded
  <2> SUFFICES ASSUME IInv, TriesInv, NEW n \in Mail
               PROVE  tries[n] < MaxAttempts + Cardinality(Request)
    BY DEF AttemptsBounded
  <2>1. tries[n] + Cardinality(Reading(n)) < MaxAttempts + Cardinality(Request)
    BY DEF TriesInv
  <2>2. tries[n] \in Nat
    BY DEF IInv, TypeOK, Mail
  <2> QED
    BY <2>1, <2>2, ReadingFinite, AttemptsAssumption
<1> QED
  BY <1>1, <1>2, <1>3, Invariance, PTL DEF Spec

-----------------------------------------------------------------------------
(* The sign-in that the session implements *)

MapValue ==
  /\ ~started => Status = "none" /\ Who = NoOne /\ Where = NoOne
  /\ code.of # NoOne => Status = "issued" /\ Who = proof.of /\ Where = proof.by
  /\ Issuing # {} => Status = "proven" /\ Who = proof.of /\ Where = proof.by
  /\ row # NoRow /\ row.authenticated =>
       Status = "proven" /\ Who = proof.of /\ Where = proof.by
  /\ row # NoRow /\ ~row.authenticated =>
       Status = "open" /\ Who = NoOne /\ Where = NoOne
  /\ started /\ row = NoRow /\ code.of = NoOne /\ Issuing = {} =>
       Status = "ended" /\ Who = NoOne /\ Where = NoOne

LEMMA MapHere == ASSUME IInv PROVE MapValue
<1>1. \A p \in Issuing :
        /\ row = NoRow /\ code.of = NoOne /\ started
        /\ request[p].subject = proof.of /\ request[p].browser = proof.by
  BY DEF IInv, CallsInv, CallInv, Issuing, At
<1>2. ~started => row = NoRow /\ code.of = NoOne /\ Issuing = {}
  BY <1>1 DEF IInv, RowInv
<1>3. row # NoRow => /\ started /\ code.of = NoOne /\ Issuing = {}
                     /\ row.authenticated => row.subject = proof.of
                     /\ ~row.authenticated => row.subject = NoOne
  BY <1>1 DEF IInv, RowInv
<1>4. code.of # NoOne => code = proof /\ started /\ Issuing = {}
  BY <1>1 DEF IInv, RowInv
<1>5. Issuing # {} => LET p == CHOOSE p \in Request : p \in Issuing
                      IN  p \in Issuing
  BY DEF Issuing
<1> QED
  BY <1>1, <1>2, <1>3, <1>4, <1>5 DEF MapValue, Status, Who, Where

LEMMA MapNext == ASSUME IInv' PROVE MapValue'
<1>1. \A p \in Issuing' :
        /\ row' = NoRow /\ code'.of = NoOne /\ started'
        /\ request'[p].subject = proof'.of /\ request'[p].browser = proof'.by
  BY DEF IInv, CallsInv, CallInv, Issuing, At
<1>2. ~started' => row' = NoRow /\ code'.of = NoOne /\ Issuing' = {}
  BY <1>1 DEF IInv, RowInv
<1>3. row' # NoRow => /\ started' /\ code'.of = NoOne /\ Issuing' = {}
                      /\ row'.authenticated => row'.subject = proof'.of
                      /\ ~row'.authenticated => row'.subject = NoOne
  BY <1>1 DEF IInv, RowInv
<1>4. code'.of # NoOne => code' = proof' /\ started' /\ Issuing' = {}
  BY <1>1 DEF IInv, RowInv
<1>5. Issuing' # {} => LET p == CHOOSE p \in Request : p \in Issuing'
                       IN  p \in Issuing'
  BY DEF Issuing
<1> QED
  BY <1>1, <1>2, <1>3, <1>4, <1>5 DEF MapValue, Status, Who, Where

LEMMA AbstractInit == Init => Abstract!Init
BY DEF Init, Abstract!Init, Status, Who, Where, Issuing, At

\* Steps the abstract sign-in does not see.
LEMMA Stutter ==
  ASSUME IInv, IInv', UNCHANGED <<code, started, proof>>,
         row = NoRow <=> row' = NoRow,
         row # NoRow => row'.authenticated = row.authenticated,
         Issuing' = Issuing
  PROVE  UNCHANGED <<Status, Who, Where>>
<1>1. MapValue /\ MapValue'
  BY MapHere, MapNext
<1>2. CASE ~started
  BY <1>1, <1>2 DEF MapValue
<1>3. CASE code.of # NoOne
  BY <1>1, <1>3 DEF MapValue
<1>4. CASE Issuing # {}
  BY <1>1, <1>4 DEF MapValue
<1>5. CASE row # NoRow /\ row.authenticated
  BY <1>1, <1>5 DEF MapValue
<1>6. CASE row # NoRow /\ ~row.authenticated
  BY <1>1, <1>6 DEF MapValue
<1>7. CASE started /\ row = NoRow /\ code.of = NoOne /\ Issuing = {}
  BY <1>1, <1>7 DEF MapValue
<1> QED
  BY <1>2, <1>3, <1>4, <1>5, <1>6, <1>7

LEMMA Ends ==
  ASSUME IInv, IInv', started', UNCHANGED code, code.of = NoOne, row' = NoRow,
         Issuing' = {}, row # NoRow \/ Issuing # {}
  PROVE  Abstract!End
<1>1. MapValue /\ MapValue'
  BY MapHere, MapNext
<1>2. Status' = "ended" /\ Who' = NoOne /\ Where' = NoOne
  BY <1>1 DEF MapValue
<1>3. Status \in {"open", "proven"}
  BY <1>1 DEF MapValue
<1> QED
  BY <1>2, <1>3 DEF Abstract!End

LEMMA AbstractNext ==
  ASSUME IInv, IInv', [Next]_vars
  PROVE  [Abstract!Next]_(Abstract!vars)
<1> USE DEF Abstract!vars
<1>0. MapValue /\ MapValue'
  BY MapHere, MapNext
<1>1. row # NoRow => started /\ code.of = NoOne /\ Issuing = {}
  BY DEF IInv, RowInv, CallsInv, CallInv, Issuing, At
<1>2. CASE UNCHANGED vars \/ Tick \/ \E b \in Browser : Replace(b)
  <2>1. UNCHANGED <<row, request, code, started, proof>>
    BY <1>2 DEF vars, ghosts, Tick, Replace
  <2>2. Issuing' = Issuing
    BY <2>1 DEF Issuing, At
  <2> QED
    BY <2>1, <2>2, Stutter
<1>3. CASE Deny \/ Sweep
  <2>1. row # NoRow /\ row' = NoRow /\ UNCHANGED <<request, code, started>>
    BY <1>3 DEF Deny, Sweep, ghosts
  <2>2. Issuing' = {}
    BY <1>1, <2>1 DEF Issuing, At
  <2>3. Abstract!End
    BY <1>1, <2>1, <2>2, Ends
  <2> QED
    BY <2>3 DEF Abstract!Next
<1>4. CASE \/ \E b \in Browser : Start(b)
           \/ \E a \in Address : Invite(a)
  <2>1. ~started /\ row' # NoRow /\ ~row'.authenticated
    <3>1. ~started
      BY <1>4 DEF Start, Invite
    <3>2. row' \in Row /\ ~row'.authenticated
      <4>1. ASSUME NEW b \in Browser, Start(b)
            PROVE  row' \in Row /\ ~row'.authenticated
        BY <4>1, LifetimeType, NewRowType DEF Start, NewRow, IInv
      <4>2. ASSUME NEW a \in Address, Invite(a)
            PROVE  row' \in Row /\ ~row'.authenticated
        BY <4>2, LifetimeType, NewRowType DEF Invite, NewRow, IInv
      <4> QED
        BY <1>4, <4>1, <4>2
    <3> QED
      BY <3>1, <3>2, RecordAssumption
  <2>2. Status = "none" /\ Who = NoOne /\ Where = NoOne
    BY <1>0, <2>1 DEF MapValue
  <2>3. Status' = "open" /\ Who' = NoOne /\ Where' = NoOne
    BY <1>0, <2>1 DEF MapValue
  <2> QED
    BY <2>2, <2>3 DEF Abstract!Next, Abstract!Open
<1>5. ASSUME NEW p \in Request, Leave(p)
      PROVE  [Abstract!Next]_(Abstract!vars)
  <2>1. UNCHANGED <<row, code, started, proof>>
        /\ request' = [request EXCEPT ![p] = NoRequest]
    BY <1>5 DEF Leave, Release, ghosts
  <2>2. CASE p \in Issuing
    <3>1. Issuing = {p} /\ row = NoRow /\ code.of = NoOne /\ started
      BY <2>2 DEF IInv, CallsInv, CallInv, Issuing, At
    <3>2. Issuing' = {}
      BY <2>1, <3>1 DEF Issuing, At, IInv, TypeOK
    <3>3. Abstract!End
      BY <2>1, <3>1, <3>2, Ends
    <3> QED
      BY <3>3 DEF Abstract!Next
  <2>3. CASE p \notin Issuing
    <3>1. Issuing' = Issuing
      BY <2>1, <2>3 DEF Issuing, At, IInv, TypeOK
    <3> QED
      BY <2>1, <3>1, Stutter
  <2> QED
    BY <2>2, <2>3
<1>6. ASSUME NEW p \in Request, Mark(p)
      PROVE  Abstract!Next
  <2>1. row # NoRow /\ row \in Row /\ ~row.authenticated /\ request[p] \in Call
    BY <1>6 DEF Mark, Live, At, IInv, TypeOK
  <2>2. row' # NoRow /\ row'.authenticated
    <3>1. row' = [row EXCEPT !.authenticated = TRUE,
                             !.subject = request[p].subject]
      BY <1>6 DEF Mark
    <3>2. row' \in Row /\ row'.authenticated
      BY <2>1, <3>1 DEF Row, Call
    <3> QED
      BY <3>2, RecordAssumption
  <2>3. proof'.of \in Address /\ proof'.by \in Browser
    BY <1>6, <2>1, MarkProves DEF IInv, Call
  <2>4. Status = "open" /\ Status' = "proven"
        /\ Who' = proof'.of /\ Where' = proof'.by
    BY <1>0, <2>1, <2>2 DEF MapValue
  <2>5. Abstract!Prove(proof'.by, proof'.of)
    BY <2>4 DEF Abstract!Prove
  <2> QED
    BY <2>3, <2>5 DEF Abstract!Next
<1>7. ASSUME NEW p \in Request, Claim(p)
      PROVE  UNCHANGED <<Status, Who, Where>>
  <2>1. /\ row # NoRow /\ row.authenticated /\ proof' = proof
        /\ request[p] # NoRequest /\ request[p] \in Call
        /\ request' = [request EXCEPT ![p].step = "issue"]
    BY <1>7 DEF Claim, Live, Goto, At, ghosts, IInv, TypeOK
  <2>2. p \in Issuing'
    <3>1. /\ request'[p] = [request[p] EXCEPT !.step = "issue"]
          /\ request'[p] \in Call
      BY <2>1 DEF Call, IInv, TypeOK
    <3>2. request'[p] # NoRequest /\ request'[p].step = "issue"
      BY <2>1, <3>1, RecordAssumption DEF Call
    <3> QED
      BY <3>2 DEF Issuing, At
  <2>3. Status = "proven" /\ Who = proof.of /\ Where = proof.by
    BY <1>0, <2>1, Zenon DEF MapValue
  <2>4. Issuing' # {}
    BY <2>2
  <2>5. Status' = "proven" /\ Who' = proof'.of /\ Where' = proof'.by
    BY <1>0, <2>4, Zenon DEF MapValue
  <2> QED
    BY <2>1, <2>3, <2>5
<1>8. ASSUME NEW p \in Request, Issue(p)
      PROVE  Abstract!Issue
  <2>1. p \in Issuing /\ proof' = proof
    BY <1>8 DEF Issue, Issuing, ghosts
  <2>2. code'.of \in Address
    BY <1>8, <2>1 DEF Issue, IInv, CallsInv, CallInv, At
  <2>3. Status = "proven" /\ Status' = "issued" /\ Who' = Who /\ Where' = Where
    BY <1>0, <2>1, <2>2, NoneAssumption DEF MapValue
  <2> QED
    BY <2>3 DEF Abstract!Issue
<1>9. ASSUME NEW p \in Request, ~At(p, "issue"), ~At(p, "issue")',
             UNCHANGED <<code, started, proof>>,
             \A q \in Request : q # p => request'[q] = request[q],
             row = NoRow <=> row' = NoRow,
             row # NoRow => row'.authenticated = row.authenticated
      PROVE  UNCHANGED <<Status, Who, Where>>
  <2>1. Issuing' = Issuing
    BY <1>9 DEF Issuing, At
  <2> QED
    BY <1>9, <2>1, Stutter
<1>10. ASSUME NEW p \in Request,
              Ask(p) \/ Loads(p) \/ SaveOtp(p) \/ CountAttempt(p)
              \/ Bind(p) \/ Attach(p)
       PROVE  UNCHANGED <<Status, Who, Where>>
  <2>1. UNCHANGED <<code, started, proof>>
        /\ \A q \in Request : q # p => request'[q] = request[q]
    BY <1>10
    DEF Ask, Arrive, Loads, LoadSend, LoadOtp, LoadMagic, LoadIdentity,
        LoadComplete, SaveOtp, CountAttempt, Bind, Attach, Goto, Release,
        ghosts, IInv, TypeOK
  <2>2. ~At(p, "issue")
    BY <1>10
    DEF Ask, Arrive, Loads, LoadSend, LoadOtp, LoadMagic, LoadIdentity,
        LoadComplete, SaveOtp, CountAttempt, Bind, Attach, At
  <2>3. ~At(p, "issue")'
    <3>1. CASE Ask(p)
      BY <3>1 DEF Ask, Arrive, At, IInv, TypeOK
    <3>2. CASE ~Ask(p)
      <4>1. request[p] \in Call
        BY <1>10, <3>2
        DEF Loads, LoadSend, LoadOtp, LoadMagic, LoadIdentity, LoadComplete,
            SaveOtp, CountAttempt, Bind, Attach, At, IInv, TypeOK
      <4>2. request'[p] # NoRequest =>
              request'[p].step \in {"save", "count", "mark", "claim", "attach"}
        BY <1>10, <3>2, <4>1
        DEF Loads, LoadSend, LoadOtp, LoadMagic, LoadIdentity, LoadComplete,
            SaveOtp, CountAttempt, Bind, Attach, Goto, Release, IInv, TypeOK, Call
      <4> QED
        BY <4>2 DEF At
    <3> QED
      BY <3>1, <3>2
  <2>4. /\ row = NoRow <=> row' = NoRow
        /\ row # NoRow => row'.authenticated = row.authenticated
    <3>1. CASE Ask(p) \/ Loads(p) \/ Attach(p)
      BY <3>1 DEF Ask, Arrive, Loads, LoadSend, LoadOtp, LoadMagic, LoadIdentity,
                  LoadComplete, Attach
    <3>2. CASE SaveOtp(p) \/ CountAttempt(p) \/ Bind(p)
      <4>1. row = NoRow => row' = NoRow
        BY <3>2 DEF SaveOtp, CountAttempt, Bind, Live
      <4>2. row # NoRow => row \in Row /\ row' \in Row \cup {NoRow}
        BY DEF IInv, TypeOK
      <4>3. row # NoRow => row'.authenticated = row.authenticated
        BY <3>2, <4>2 DEF SaveOtp, CountAttempt, Bind, Row
      <4>4. row # NoRow => row' # NoRow
        <5>1. CASE SaveOtp(p)
          <6>1. ASSUME row \in Row, NEW n \in Nat, NEW t \in Nat,
                       NEW a \in Address
                PROVE  [row EXCEPT !.email = a, !.attempts = 0,
                          !.otp = n, !.magic = n, !.expires = t] \in Row
            BY <6>1 DEF Row
          <6>2. Len(mailed') \in Nat
            BY LenProperties DEF IInv, TypeOK
          <6>3. /\ request[p].email \in Address
                /\ request[p].stored + OtpLifetime \in Nat
            BY <5>1, LifetimeType
            DEF SaveOtp, At, IInv, CallsInv, CallInv, TypeOK, Call
          <6>4. row # NoRow =>
                  row' = [row EXCEPT !.email = request[p].email, !.attempts = 0,
                            !.otp = Len(mailed'), !.magic = Len(mailed'),
                            !.expires = request[p].stored + OtpLifetime]
            BY <5>1 DEF SaveOtp
          <6>5. ASSUME row # NoRow
                PROVE  row' \in Row
            <7> DEFINE n == Len(mailed')
                       t == request[p].stored + OtpLifetime
                       a == request[p].email
            <7>1. row' = [row EXCEPT !.email = a, !.attempts = 0,
                            !.otp = n, !.magic = n, !.expires = t]
              BY <6>4, <6>5
            <7>2. n \in Nat /\ t \in Nat /\ a \in Address
              BY <6>2, <6>3
            <7>3. row \in Row
              BY <4>2, <6>5
            <7> HIDE DEF n, t, a
            <7>4. [row EXCEPT !.email = a, !.attempts = 0,
                     !.otp = n, !.magic = n, !.expires = t] \in Row
              BY <6>1, <7>2, <7>3
            <7> QED
              BY <7>1, <7>4
          <6> QED
            BY <6>5, RecordAssumption
        <5>2. CASE CountAttempt(p)
          <6>1. ASSUME row \in Row
                PROVE  [row EXCEPT !.attempts = @ + 1] \in Row
            BY <6>1 DEF Row
          <6> QED
            BY <4>2, <5>2, <6>1, RecordAssumption DEF CountAttempt
        <5>3. CASE Bind(p)
          <6>1. request[p].browser \in Browser
            BY <5>3 DEF Bind, At, IInv, TypeOK, Call
          <6>2. ASSUME row \in Row, NEW b \in Browser
                PROVE  [row EXCEPT !.binding = b] \in Row
            BY <6>2 DEF Row
          <6> QED
            BY <4>2, <5>3, <6>1, <6>2, RecordAssumption DEF Bind
        <5> QED
          BY <3>2, <5>1, <5>2, <5>3
      <4> QED
        BY <4>1, <4>3, <4>4
    <3> QED
      BY <1>10, <3>1, <3>2
  <2> QED
    BY <1>9, <2>1, <2>2, <2>3, <2>4
<1>11. CASE \E p \in Request : Handle(p)
  BY <1>5, <1>6, <1>7, <1>8, <1>10, <1>11 DEF Handle, Loads, Abstract!Next
<1> QED
  BY <1>2, <1>3, <1>4, <1>11 DEF Next

\* A session is proven once, by one address in one browser, and answered with
\* at most one code for them; denied, expired or spent, it stays ended.
THEOREM ImplementsOneSignIn == Spec => ImplementsSignIn
<1>1. IInv /\ IInv' /\ [Next]_vars => [Abstract!Next]_(Abstract!vars)
  BY AbstractNext
<1> QED
  BY <1>1, AbstractInit, Invariance, PTL DEF Spec, ImplementsSignIn, Abstract!Spec

-----------------------------------------------------------------------------
(* What stays as it is once it is so *)

\* Once someone was proven no row of this session is unauthenticated.
ProvenInv == proof.of # NoOne => Settled /\ started

\* A row that is gone stays gone and one that is signed in stays signed in, but
\* for the step that creates it.
LEMMA RowStays ==
  ASSUME TypeOK, [Next]_vars, started
  PROVE  /\ started'
         /\ Settled => Settled'
         /\ row = NoRow => row' = NoRow
<1> USE DEF Settled
<1>1. CASE UNCHANGED vars \/ Tick \/ Deny \/ Sweep
  BY <1>1 DEF vars, ghosts, Tick, Deny, Sweep
<1>2. CASE \/ \E b \in Browser : Start(b) \/ Replace(b)
           \/ \E a \in Address : Invite(a)
  BY <1>2 DEF Start, Replace, Invite, ghosts
<1>3. ASSUME NEW p \in Request,
             \/ Ask(p) \/ Leave(p) \/ LoadSend(p) \/ LoadOtp(p) \/ LoadMagic(p)
             \/ LoadIdentity(p) \/ Attach(p) \/ LoadComplete(p) \/ Issue(p)
      PROVE  row' = row /\ started' = started
  BY <1>3 DEF Ask, Arrive, Leave, LoadSend, LoadOtp, LoadMagic, LoadIdentity,
              Attach, LoadComplete, Issue, ghosts
<1>4. ASSUME NEW p \in Request,
             SaveOtp(p) \/ CountAttempt(p) \/ Mark(p) \/ Bind(p) \/ Claim(p)
      PROVE  /\ started' = started
             /\ row = NoRow => row' = NoRow
             /\ row # NoRow /\ row.authenticated
                  => row' = NoRow \/ row'.authenticated
  <2>1. started' = started
    BY <1>4 DEF SaveOtp, CountAttempt, Mark, Bind, Claim, ghosts
  <2>2. row \in Row \cup {NoRow}
    BY DEF TypeOK
  <2>3. CASE SaveOtp(p)
    BY <2>1, <2>2, <2>3 DEF SaveOtp, Row
  <2>4. CASE CountAttempt(p)
    BY <2>1, <2>2, <2>4 DEF CountAttempt, Row
  <2>5. CASE Mark(p)
    BY <2>1, <2>2, <2>5 DEF Mark, Live, Row
  <2>6. CASE Bind(p)
    BY <2>1, <2>2, <2>6 DEF Bind, Live, Row
  <2>7. CASE Claim(p)
    BY <2>1, <2>7 DEF Claim, Live
  <2> QED
    BY <1>4, <2>3, <2>4, <2>5, <2>6, <2>7
<1>5. CASE \E p \in Request : Handle(p)
  BY <1>3, <1>4, <1>5 DEF Handle
<1> QED
  BY <1>1, <1>2, <1>5 DEF Next

\* Only the update that signs the session in proves anyone.
LEMMA OnlyMark ==
  ASSUME [Next]_vars, \A p \in Request : ~Mark(p)
  PROVE  proof' = proof
<1>1. CASE \E p \in Request : Handle(p)
  <2>1. PICK p \in Request : Handle(p) /\ ~Mark(p)
    BY <1>1
  <2> QED
    BY <2>1 DEF Handle, Ask, Arrive, Leave, LoadSend, SaveOtp, LoadOtp, CountAttempt,
       LoadMagic, LoadIdentity, Bind, Attach, LoadComplete, Claim, Issue, ghosts
<1>2. CASE ~\E p \in Request : Handle(p)
  BY <1>2 DEF Next, vars, ghosts, Tick, Deny, Sweep, Start, Replace, Invite
<1> QED
  BY <1>1, <1>2

LEMMA NextProven ==
  ASSUME IInv, ProvenInv, [Next]_vars
  PROVE  /\ ProvenInv'
         /\ proof.of # NoOne => proof' = proof
<1> TypeOK /\ CallsInv
  BY DEF IInv
<1>1. CASE proof.of # NoOne
  <2>1. Settled /\ started
    BY <1>1 DEF ProvenInv
  <2>2. Settled' /\ started'
    BY <2>1, RowStays
  <2>3. \A p \in Request : ~Mark(p)
    BY <2>1 DEF Mark, Live, Settled
  <2>4. proof' = proof
    BY <2>3, OnlyMark
  <2> QED
    BY <2>2, <2>4 DEF ProvenInv
<1>2. CASE proof.of = NoOne
  <2>1. CASE \A p \in Request : ~Mark(p)
    BY <1>2, <2>1, OnlyMark DEF ProvenInv
  <2>2. ASSUME NEW p \in Request, Mark(p)
        PROVE  ProvenInv'
    <3>1. CallInv(p) /\ request[p].step = "mark"
      BY <2>2 DEF CallsInv, Mark, At
    <3>2. started'
      BY <2>2, <3>1 DEF CallInv, Mark
    <3>3. Settled'
      BY <2>2 DEF Mark, Live, Settled, TypeOK, Row
    <3> QED
      BY <3>2, <3>3 DEF ProvenInv
  <2> QED
    BY <1>2, <2>1, <2>2
<1> QED
  BY <1>1, <1>2

\* The first proof stands, whatever requests have read the open session
\* (mark_login_session_authenticated).
THEOREM ProofIsFinal == Spec => ProofStands
<1>1. Init => ProvenInv
  BY DEF Init, ProvenInv
<1>2. IInv /\ ProvenInv /\ [Next]_vars => ProvenInv'
  BY NextProven
<1>3. IInv /\ ProvenInv /\ [Next]_vars => [proof.of # NoOne => proof' = proof]_vars
  BY NextProven
<1> QED
  BY <1>1, <1>2, <1>3, Invariance, PTL DEF Spec, ProofStands

LEMMA OnlyIssue ==
  ASSUME [Next]_vars, \A p \in Request : ~Issue(p)
  PROVE  code' = code
<1>1. CASE \E p \in Request : Handle(p)
  <2>1. PICK p \in Request : Handle(p) /\ ~Issue(p)
    BY <1>1
  <2> QED
    BY <2>1 DEF Handle, Ask, Arrive, Leave, LoadSend, SaveOtp, LoadOtp, CountAttempt,
       LoadMagic, LoadIdentity, Mark, Bind, Attach, LoadComplete, Claim
<1>2. CASE ~\E p \in Request : Handle(p)
  BY <1>2 DEF Next, vars, Tick, Deny, Sweep, Start, Replace, Invite
<1> QED
  BY <1>1, <1>2

\* A second completion of the session issues nothing, and the session stays gone
\* (complete_authorize claims it before it stores the code).
THEOREM OneCode == Spec => OneCodeOnly
<1>1. ASSUME IInv, [Next]_vars, code.of # NoOne
      PROVE  code' = code /\ row' = NoRow
  <2> TypeOK /\ RowInv /\ CallsInv
    BY <1>1 DEF IInv
  <2>1. row = NoRow /\ started
    BY <1>1 DEF RowInv
  <2>2. row' = NoRow
    BY <1>1, <2>1, RowStays
  <2>3. \A p \in Request : ~Issue(p)
    BY <1>1 DEF Issue, At, CallsInv, CallInv
  <2>4. code' = code
    BY <1>1, <2>3, OnlyIssue
  <2> QED
    BY <2>2, <2>4
<1>2. IInv /\ [Next]_vars
        => [code.of # NoOne => code' = code /\ row' = NoRow]_vars
  BY <1>1
<1> QED
  BY <1>2, Invariance, PTL DEF Spec, OneCodeOnly
=============================================================================
