---------------------------- MODULE LoginSession ----------------------------
(***************************************************************************)
(* One sign-in from /authorize, or an invitation, to its authorization     *)
(* code: the login_sessions row (auth/store/sessions.rs), the requests     *)
(* that read and write it without a lock or a transaction (email codes,    *)
(* magic links, Google and passkeys, consent), the cookie that binds it to *)
(* a browser, and cleanup.  One query is one step; what a request has read *)
(* is in its record.                                                       *)
(*                                                                         *)
(* The code and the link of one mail are numbered by the mail.  A row      *)
(* whose link is set always has email_otp_expires_at = expires_at.         *)
(***************************************************************************)
EXTENDS Naturals, FiniteSets, Sequences

CONSTANTS
  Browser, Address,
  Request,           \* concurrent requests
  NoRequest, NoRow, NoOne,
  SessionLifetime,   \* LOGIN_SESSION_LIFETIME, of a session and of its cookie
  OtpLifetime, OtpCooldown, InviteLifetime,
  MaxAttempts,       \* attempts on one code: 5 in the code
  MaxTime, MaxMails  \* bounds: the clock, mails sent

ASSUME NoneAssumption == NoOne \notin Browser \cup Address
ASSUME TimeAssumption ==
  /\ SessionLifetime \in Nat \ {0} /\ OtpLifetime \in Nat /\ OtpCooldown \in Nat
  /\ InviteLifetime \in Nat /\ MaxTime \in Nat /\ MaxMails \in Nat
ASSUME AttemptsAssumption == MaxAttempts \in Nat \ {0} /\ IsFiniteSet(Request)

VARIABLES
  now,      \* the clock
  row,      \* the login_sessions row
  cookie,   \* when a browser's binding cookie of this session ends, 0 without
  request,  \* requests under way
  mailed,   \* the address each mail was sent to
  code,     \* the authorization code: its subject and browser
  started,  \* history: the session was created
  proof,    \* history: who was proven in which browser
  tries     \* history: comparisons made with the code of each mail

ghosts == <<started, proof, tries>>
vars == <<now, row, cookie, request, mailed, code, ghosts>>

Mail == 1 .. Len(mailed)

Row == [subject : Address \cup {NoOne}, authenticated : BOOLEAN, expires : Nat,
        email : Address \cup {NoOne}, otp : Nat, magic : Nat, attempts : Nat,
        binding : Browser \cup {NoOne}]

\* email and secret are the request's own; subject and stored what it loaded,
\* stored being the time for a request that sends a code.
Call == [step : {"send", "save", "otp", "count", "magic", "identity", "mark",
                 "bind", "attach", "complete", "claim", "issue"},
         browser : Browser, bound : BOOLEAN, email : Address \cup {NoOne},
         secret : Nat, subject : Address \cup {NoOne}, stored : Nat,
         unbound : BOOLEAN]

ASSUME RecordAssumption == NoRow \notin Row /\ NoRequest \notin Call

Proof == [of : Address \cup {NoOne}, by : Browser \cup {NoOne}]

TypeOK ==
  /\ now \in Nat /\ row \in Row \cup {NoRow}
  /\ cookie \in [Browser -> Nat]
  /\ request \in [Request -> Call \cup {NoRequest}]
  /\ mailed \in Seq(Address)
  /\ code \in Proof /\ started \in BOOLEAN /\ proof \in Proof
  /\ tries \in Seq(Nat) /\ Len(tries) = Len(mailed)

Init ==
  /\ now = 0 /\ row = NoRow
  /\ cookie = [b \in Browser |-> 0]
  /\ request = [p \in Request |-> NoRequest]
  /\ mailed = <<>>
  /\ code = [of |-> NoOne, by |-> NoOne] /\ started = FALSE
  /\ proof = [of |-> NoOne, by |-> NoOne] /\ tries = <<>>

\* The guard expires_at > now of every load and update.
Live == row # NoRow /\ row.expires > now

-----------------------------------------------------------------------------
(* The session and its cookie *)

Tick ==
  /\ now < MaxTime /\ now' = now + 1
  /\ UNCHANGED <<row, cookie, request, mailed, code, ghosts>>

NewRow(lifetime) ==
  [subject |-> NoOne, authenticated |-> FALSE, expires |-> now + lifetime,
   email |-> NoOne, otp |-> 0, magic |-> 0, attempts |-> 0, binding |-> NoOne]

\* authorize; the browser gets the cookie unless the answer is lost.
Start(b) ==
  /\ ~started /\ started' = TRUE
  /\ row' = [NewRow(SessionLifetime) EXCEPT !.binding = b]
  /\ cookie' \in {cookie, [cookie EXCEPT ![b] = now + SessionLifetime]}
  /\ UNCHANGED <<now, request, mailed, code, proof, tries>>

\* build_invite_session: a link to an address, bound to no browser.
Invite(a) ==
  /\ ~started /\ started' = TRUE
  /\ row' = [NewRow(InviteLifetime) EXCEPT !.email = a, !.magic = 1]
  /\ mailed' = <<a>> /\ tries' = <<0>>
  /\ UNCHANGED <<now, cookie, request, code, proof>>

\* The one cookie of a browser now belongs to another session.
Replace(b) ==
  /\ cookie[b] # 0 /\ cookie' = [cookie EXCEPT ![b] = 0]
  /\ UNCHANGED <<now, row, request, mailed, code, ghosts>>

\* deny_authorize; when its query fails the session stays.
Deny ==
  /\ row # NoRow /\ row' = NoRow
  /\ UNCHANGED <<now, cookie, request, mailed, code, ghosts>>

\* cleanup_expired_login_sessions
Sweep ==
  /\ row # NoRow /\ row.expires < now /\ row' = NoRow
  /\ UNCHANGED <<now, cookie, request, mailed, code, ghosts>>

-----------------------------------------------------------------------------
(* Requests *)

At(p, step) == request[p] # NoRequest /\ request[p].step = step

Goto(p, step) == request' = [request EXCEPT ![p].step = step]

Release(p) == request' = [request EXCEPT ![p] = NoRequest]

\* A request arrives with the cookie its browser still has.
Arrive(p, step, b, email, secret) ==
  /\ request[p] = NoRequest
  /\ request' = [request EXCEPT ![p] =
       [step |-> step, browser |-> b, bound |-> cookie[b] > now,
        email |-> email, secret |-> secret, subject |-> NoOne, stored |-> 0,
        unbound |-> FALSE]]
  /\ UNCHANGED <<now, row, cookie, mailed, code, ghosts>>

\* A guess, or the secret of a mail, for any address; or what the provider says.
Ask(p) ==
  \E b \in Browser :
    \/ Arrive(p, "complete", b, NoOne, 0)
    \/ \E a \in Address :
         \/ \E step \in {"send", "identity"} : Arrive(p, step, b, a, 0)
         \/ \E step \in {"otp", "magic"}, n \in Mail \cup {0} :
              Arrive(p, step, b, a, n)

\* Answered, refused, dropped by its client or cut short by a failed query.
Leave(p) ==
  /\ request[p] # NoRequest /\ Release(p)
  /\ UNCHANGED <<now, row, cookie, mailed, code, ghosts>>

\* session_bound: the cookie is the one the row is bound to.
Bound(p) == request[p].bound /\ row.binding = request[p].browser

\* bound_login_session
LiveBound(p) == Live /\ Bound(p)

\* send_email_code, to its checks; the cooldown is read off the expiry.
LoadSend(p) ==
  /\ At(p, "send") /\ LiveBound(p) /\ ~row.authenticated
  /\ row.magic = 0 \/ row.expires + OtpCooldown <= now + OtpLifetime
  /\ request' = [request EXCEPT ![p].step = "save", ![p].stored = now]
  /\ UNCHANGED <<now, row, cookie, mailed, code, ghosts>>

\* save_email_otp and the mail, which is sent even when the row is gone.
SaveOtp(p) ==
  /\ At(p, "save") /\ Len(mailed) < MaxMails
  /\ mailed' = Append(mailed, request[p].email)
  /\ tries' = Append(tries, 0)
  /\ row' = IF row = NoRow THEN NoRow
            ELSE [row EXCEPT !.email = request[p].email, !.attempts = 0,
                             !.otp = Len(mailed'), !.magic = Len(mailed'),
                             !.expires = request[p].stored + OtpLifetime]
  /\ Release(p)
  /\ UNCHANGED <<now, cookie, code, started, proof>>

\* Mutant: the limit is off by one.
LoadOtpOneMore(p) ==
  /\ At(p, "otp") /\ LiveBound(p)
  /\ row.attempts <= MaxAttempts /\ row.otp # 0
  /\ request' = [request EXCEPT ![p].step = "count", ![p].stored = row.otp,
                                ![p].subject = row.email]
  /\ UNCHANGED <<now, row, cookie, mailed, code, ghosts>>

\* verify_email_secret, a code: limit and expiry are checked on a read ...
LoadOtp(p) ==
  /\ At(p, "otp") /\ LiveBound(p)
  /\ row.attempts < MaxAttempts /\ row.otp # 0
  /\ request' = [request EXCEPT ![p].step = "count", ![p].stored = row.otp,
                                ![p].subject = row.email]
  /\ UNCHANGED <<now, row, cookie, mailed, code, ghosts>>

\* Mutant: the counter runs down.
CountAttemptDown(p) ==
  /\ At(p, "count")
  /\ row' = IF row = NoRow THEN NoRow ELSE [row EXCEPT !.attempts = @ - 1]
  /\ tries' = [tries EXCEPT ![request[p].stored] = @ + 1]
  /\ Goto(p, "mark")
  /\ UNCHANGED <<now, cookie, mailed, code, started, proof>>

\* ... and the attempt is counted by a query of its own.
CountAttempt(p) ==
  /\ At(p, "count")
  /\ row' = IF row = NoRow THEN NoRow ELSE [row EXCEPT !.attempts = @ + 1]
  /\ tries' = [tries EXCEPT ![request[p].stored] = @ + 1]
  /\ Goto(p, "mark")
  /\ UNCHANGED <<now, cookie, mailed, code, started, proof>>

\* Mutant: any browser can use the link.
LoadMagicAnywhere(p) ==
  /\ At(p, "magic") /\ Live
  /\ ~row.authenticated /\ row.magic # 0
  /\ request' = [request EXCEPT ![p].step = "mark", ![p].stored = row.magic,
                                ![p].subject = row.email,
                                ![p].unbound = (row.binding = NoOne)]
  /\ UNCHANGED <<now, row, cookie, mailed, code, ghosts>>

\* magic_link_session_unbound and verify_email_secret, a link.
LoadMagic(p) ==
  /\ At(p, "magic") /\ Live /\ (row.binding = NoOne \/ Bound(p))
  /\ ~row.authenticated /\ row.magic # 0
  /\ request' = [request EXCEPT ![p].step = "mark", ![p].stored = row.magic,
                                ![p].subject = row.email,
                                ![p].unbound = (row.binding = NoOne)]
  /\ UNCHANGED <<now, row, cookie, mailed, code, ghosts>>

\* google_callback_inner, passkey finish_login: the provider's answer follows.
LoadIdentity(p) ==
  /\ At(p, "identity") /\ LiveBound(p)
  /\ request' = [request EXCEPT ![p].step = "mark",
                                ![p].subject = request[p].email]
  /\ UNCHANGED <<now, row, cookie, mailed, code, ghosts>>

\* The address and the secret are those loaded with the row.
Matches(p) ==
  request[p].email = request[p].subject /\ request[p].secret = request[p].stored

\* What the browser showed: a mail of its address, or the provider's word.
Shown(p) == IF request[p].secret \in Mail THEN mailed[request[p].secret]
            ELSE request[p].email

\* Mutant: the subject is the address the row has by now.
MarkCurrent(p) ==
  /\ At(p, "mark") /\ Matches(p)
  /\ Live /\ ~row.authenticated
  /\ row' = [row EXCEPT !.authenticated = TRUE, !.subject = row.email]
  /\ proof' = [of |-> Shown(p), by |-> request[p].browser]
  /\ IF request[p].unbound THEN Goto(p, "bind") ELSE Release(p)
  /\ UNCHANGED <<now, cookie, mailed, code, started, tries>>

\* mark_login_session_authenticated
Mark(p) ==
  /\ At(p, "mark") /\ Matches(p)
  /\ Live /\ ~row.authenticated
  /\ row' = [row EXCEPT !.authenticated = TRUE, !.subject = request[p].subject]
  /\ proof' = [of |-> Shown(p), by |-> request[p].browser]
  /\ IF request[p].unbound THEN Goto(p, "bind") ELSE Release(p)
  /\ UNCHANGED <<now, cookie, mailed, code, started, tries>>

\* bind_first_browser
Bind(p) ==
  /\ At(p, "bind") /\ Live /\ row.binding = NoOne
  /\ row' = [row EXCEPT !.binding = request[p].browser]
  /\ Goto(p, "attach")
  /\ UNCHANGED <<now, cookie, mailed, code, ghosts>>

Attach(p) ==
  /\ At(p, "attach")
  /\ cookie' = [cookie EXCEPT ![request[p].browser] = now + SessionLifetime]
  /\ Release(p)
  /\ UNCHANGED <<now, row, mailed, code, ghosts>>

\* complete_authorize reads the session, its client and its role ...
LoadComplete(p) ==
  /\ At(p, "complete") /\ LiveBound(p) /\ row.authenticated
  /\ request' = [request EXCEPT ![p].step = "claim", ![p].subject = row.subject]
  /\ UNCHANGED <<now, row, cookie, mailed, code, ghosts>>

\* Mutant: the number of deleted rows is not looked at.
ClaimAnyway(p) ==
  /\ At(p, "claim")
  /\ row' = NoRow
  /\ Goto(p, "issue")
  /\ UNCHANGED <<now, cookie, mailed, code, ghosts>>

\* ... claims it, the DELETE that must affect one row ...
Claim(p) ==
  /\ At(p, "claim") /\ Live /\ row.authenticated
  /\ row' = NoRow
  /\ Goto(p, "issue")
  /\ UNCHANGED <<now, cookie, mailed, code, ghosts>>

\* ... and stores the code; if that fails the session is spent (Leave).
Issue(p) ==
  /\ At(p, "issue")
  /\ code' = [of |-> request[p].subject, by |-> request[p].browser]
  /\ Release(p)
  /\ UNCHANGED <<now, row, cookie, mailed, ghosts>>

Handle(p) ==
  \/ Ask(p) \/ Leave(p) \/ LoadSend(p) \/ SaveOtp(p) \/ LoadOtp(p)
  \/ CountAttempt(p) \/ LoadMagic(p) \/ LoadIdentity(p) \/ Mark(p)
  \/ Bind(p) \/ Attach(p) \/ LoadComplete(p) \/ Claim(p) \/ Issue(p)

Next ==
  \/ Tick \/ Deny \/ Sweep
  \/ \E b \in Browser : Start(b) \/ Replace(b)
  \/ \E a \in Address : Invite(a)
  \/ \E p \in Request : Handle(p)

Spec == Init /\ [][Next]_vars

-----------------------------------------------------------------------------
(* Properties *)

\* The address a session is signed in as, and the one its code is issued for,
\* is the address the browser has proven: a mail sent to another address
\* between a request's read and its update does not change it.
SubjectIsProven ==
  /\ row # NoRow /\ row.authenticated => row.subject = proof.of
  /\ code.of # NoOne => code.of = proof.of

\* Who proves an address, who is bound and who gets the code is one browser
\* (docs/security.md:11), for an invitation the first that opens its link.
SameBrowser ==
  /\ row # NoRow /\ row.authenticated /\ row.binding # NoOne
       => row.binding = proof.by
  /\ code.of # NoOne => code.by = proof.by

\* Comparisons with one code: the limit is read before the attempt is counted,
\* so concurrent requests can exceed it by all but one of them.
AttemptsBounded ==
  \A n \in Mail : tries[n] < MaxAttempts + Cardinality(Request)

\* Who was proven stands: of several requests that have read an open session only
\* the first signs it in, also after a new code was mailed, and none does once the
\* session is claimed or denied.
ProofStands == [][proof.of # NoOne => proof' = proof]_vars

\* A sign-in is answered with one code: requests that have read the session before
\* it was claimed issue no other one, and nothing they write brings it back.
OneCodeOnly == [][code.of # NoOne => code' = code /\ row' = NoRow]_vars

Issuing == {p \in Request : At(p, "issue")}

Status ==
  IF ~started THEN "none"
  ELSE IF code.of # NoOne THEN "issued"
  ELSE IF Issuing # {} THEN "proven"
  ELSE IF row = NoRow THEN "ended"
  ELSE IF row.authenticated THEN "proven" ELSE "open"

\* Subject and browser of the code, of the request that issues it, of the row.
Who ==
  IF code.of # NoOne THEN code.of
  ELSE IF Issuing # {} THEN request[CHOOSE p \in Request : p \in Issuing].subject
  ELSE IF row # NoRow THEN row.subject ELSE NoOne

Where ==
  IF code.of # NoOne THEN code.by
  ELSE IF Issuing # {} THEN request[CHOOSE p \in Request : p \in Issuing].browser
  ELSE IF row # NoRow /\ row.authenticated THEN proof.by ELSE NoOne

Abstract == INSTANCE SignIn WITH
  Nobody <- NoOne, status <- Status, who <- Who, where <- Where

\* The session of the code is the sign-in of SignIn: proven once, one code at
\* most, none after a denial, whatever the requests under way have read.
ImplementsSignIn == Abstract!Spec
=============================================================================
