----------------------- MODULE BalanceReviewsProofs -----------------------
(***************************************************************************)
(* Proofs of the safety properties of BalanceReviews, for any number of    *)
(* days, values and calls.                                                 *)
(***************************************************************************)
EXTENDS BalanceReviews, WellFoundedInduction, TLAPS

-----------------------------------------------------------------------------
(* The anchor and the review row *)

\* A bounded set of naturals has a last member: the well-founded order of the
\* naturals, counted down from the bound.
LEMMA LastDate ==
  ASSUME NEW S \in SUBSET Nat, S # {}, NEW n \in Nat, \A s \in S : s <= n
  PROVE  \E m \in S : \A s \in S : m >= s
<1> DEFINE T == {k \in Nat : n - k \in S}
<1> DEFINE R == OpToRel(<, Nat)
<1>1. T \subseteq Nat /\ T # {}
  <2>1. PICK s \in S : TRUE
    OBVIOUS
  <2>2. n - s \in Nat /\ n - (n - s) = s
    BY <2>1
  <2>3. n - s \in T
    BY <2>1, <2>2
  <2> QED BY <2>3
<1>2. PICK x \in T : \A y \in T : ~ (<<y, x>> \in R)
  <2> HIDE DEF T
  <2>1. IsWellFoundedOn(R, Nat)
    BY NatLessThanWellFounded
  <2> HIDE DEF R
  <2> QED BY <1>1, <2>1, WFMin
<1>3. \A y \in T : ~ (y < x)
  BY <1>1, <1>2 DEF OpToRel
<1>4. n - x \in S /\ x \in Nat
  BY <1>2
<1>5. ASSUME NEW s \in S PROVE n - x >= s
  <2>1. n - s \in Nat /\ n - (n - s) = s /\ s \in Nat
    OBVIOUS
  <2>2. n - s \in T
    BY <2>1
  <2> QED BY <1>3, <1>4, <2>1, <2>2
<1> QED BY <1>4, <1>5

\* latest_unflagged_snapshot_with_holdings finds a row of an earlier date.
LEMMA AnchorIsRow ==
  ASSUME TypeOK, NEW d \in Date
  PROVE  /\ Anchor(d) \in Date \cup {0}
         /\ Anchor(d) # 0 => /\ Anchor(d) < d /\ value[Anchor(d)] \in Value
                             /\ Anchor(d) \notin flagged
<1>1. CASE Trusted(d) = {}
  BY <1>1 DEF Anchor
<1>2. CASE Trusted(d) # {}
  <2>1. Trusted(d) \subseteq Date /\ Trusted(d) \subseteq Nat
    BY ReviewsAssumption DEF Trusted, Date
  <2>2. d \in Nat /\ \A e \in Trusted(d) : e <= d
    BY ReviewsAssumption DEF Trusted, Date
  <2>3. \E m \in Trusted(d) : \A e \in Trusted(d) : m >= e
    BY <1>2, <2>1, <2>2, LastDate
  <2>4. Max(Trusted(d)) \in Trusted(d)
    BY <2>3 DEF Max
  <2>5. /\ value[Max(Trusted(d))] \in Value /\ Max(Trusted(d)) < d
        /\ Max(Trusted(d)) \notin flagged
    BY <2>4, ReviewsAssumption DEF Trusted, Date, TypeOK
  <2> QED BY <1>2, <2>1, <2>4, <2>5 DEF Anchor
<1> QED BY <1>1, <1>2

LEMMA PairMinMax ==
  ASSUME NEW a \in Nat, NEW b \in Nat
  PROVE  /\ Min({a, b}) = IF a <= b THEN a ELSE b
         /\ Max({a, b}) = IF a >= b THEN a ELSE b
<1>1. Min({a, b}) \in {a, b} /\ \A y \in {a, b} : Min({a, b}) <= y
  <2>1. \E x \in {a, b} : \A y \in {a, b} : x <= y
    OBVIOUS
  <2> QED BY <2>1 DEF Min
<1>2. Max({a, b}) \in {a, b} /\ \A y \in {a, b} : Max({a, b}) >= y
  <2>1. \E x \in {a, b} : \A y \in {a, b} : x >= y
    OBVIOUS
  <2> QED BY <2>1 DEF Max
<1> QED BY <1>1, <1>2

\* UpsertBalanceReview opens a review of the one day or widens the pending one.
LEMMA UpsertedReview ==
  ASSUME TypeOK, NEW d \in Date, NEW v \in Value
  PROVE  /\ Upserted(d, v) \in Review
         /\ Upserted(d, v).decision = "IN_REVIEW" /\ Upserted(d, v).provider = v
         /\ Upserted(d, v).first <= d /\ d <= Upserted(d, v).latest
         /\ InReview => /\ Upserted(d, v).first <= review.first
                        /\ review.latest <= Upserted(d, v).latest
         /\ InReview /\ review.first <= d => Upserted(d, v).first = review.first
         /\ InReview /\ review.latest <= d => Upserted(d, v).latest = d
         /\ ~InReview => Upserted(d, v).first = d /\ Upserted(d, v).latest = d
<1>1. CASE InReview
  <2>1. review \in Review
    BY <1>1 DEF TypeOK, InReview, NoReview
  <2>2. review.first \in Nat /\ review.latest \in Nat /\ d \in Nat
    BY <2>1, ReviewsAssumption DEF Review, Date
  <2>3. /\ Min({d, review.first}) = IF d <= review.first THEN d ELSE review.first
        /\ Max({d, review.latest}) = IF d >= review.latest THEN d ELSE review.latest
    BY <2>2, PairMinMax
  <2>4. Min({d, review.first}) \in Date /\ Max({d, review.latest}) \in Date
    BY <2>1, <2>3 DEF Review
  <2>5. /\ Upserted(d, v) \in Review
        /\ Upserted(d, v).decision = "IN_REVIEW" /\ Upserted(d, v).provider = v
        /\ Upserted(d, v).first = Min({d, review.first})
        /\ Upserted(d, v).latest = Max({d, review.latest})
    BY <1>1, <2>1, <2>4 DEF Upserted, InReview, Review
  <2> QED BY <1>1, <2>2, <2>3, <2>5
<1>2. CASE ~InReview
  BY <1>2, ReviewsAssumption DEF Upserted, InReview, Review, Date
<1> QED BY <1>1, <1>2

-----------------------------------------------------------------------------
(* Calls: what a call is about to write follows from what was accepted *)

\* What was accepted follows from itself, an ordinary change follows from what
\* it changes, and more of it accepts more; nothing but a balance follows.
LEMMA FollowsFrom ==
  ASSUME NEW A, NEW v \in Value
  PROVE  /\ v \in A => Follows(A, v)
         /\ \A u : Follows(A, u) /\ <<u, v>> \notin Suspect => Follows(A, v)
BY DEF Follows

LEMMA FollowsMore ==
  ASSUME NEW A, NEW B, A \subseteq B, NEW v, Follows(A, v)
  PROVE  Follows(B, v)
BY DEF Follows

LEMMA FollowsValue ==
  ASSUME NEW A \in SUBSET Value, NEW v, Follows(A, v)
  PROVE  v \in Value
BY DEF Follows

\* A call past its fetch has a reading; what it is about to carry forward, and
\* a reading it found in line with its anchor, follow from accepted balances.
CallInv ==
  \A c \in Sync :
    /\ pc[c] \notin {"idle", "fetch"} => reading[c] \in Value
    /\ pc[c] \in {"approval", "carry", "flag"} => Follows(accepted, carry[c])
    /\ pc[c] = "clean" /\ anchor[c] # 0 => Follows(accepted, reading[c])

Persist(c) == PersistClean(c) \/ PersistCarry(c) \/ PersistFlagged(c)

\* Steps of a call that write no table.
Local(c) ==
  \/ Start(c) \/ Fetch(c) \/ Probe(c) \/ ProbeApproval(c) \/ Tick(c)
  \/ Retry(c) \/ Check(c) \/ ReadApproval(c) \/ Skip(c) \/ Leave(c)

Outside == Midnight \/ SetClosed \/ \E v \in Value : Move(v)

User == Approve \/ UseProvider \/ \E d \in Date, v \in Value : Edit(d, v)

LEMMA NextCases ==
  ASSUME [Next]_vars
  PROVE  \/ Outside \/ User \/ UNCHANGED vars
         \/ \E c \in Sync : Local(c) \/ Persist(c)
BY DEF Next, Step, Outside, User, Local, Persist

LEMMA LocalKeepsTables ==
  ASSUME NEW c \in Sync, Local(c)
  PROVE  UNCHANGED <<today, snapshots, review, accepted>>
BY DEF Local, Start, Fetch, Probe, ProbeApproval, Tick, Retry, Check,
       ReadApproval, Skip, Leave, Return, rest, world, tables, ghosts

LEMMA OutsideKeepsTables ==
  ASSUME Outside
  PROVE  UNCHANGED <<snapshots, review, callVars, ghosts>>
BY DEF Outside, Midnight, SetClosed, Move, tables

LEMMA UserKeepsCalls ==
  ASSUME User
  PROVE  UNCHANGED <<today, callVars, overlapped>>
BY DEF User, Approve, UseProvider, Edit, world

\* Locals keep their types in every step of a call.
LEMMA LocalTypes ==
  ASSUME TypeOK, NEW c \in Sync, Local(c) \/ Persist(c)
  PROVE  /\ pc' \in [Sync -> {"idle", "fetch", "probe", "probeApproval", "wait",
                              "check", "approval", "clean", "carry", "flag"}]
         /\ date' \in [Sync -> Date] /\ elapsed' \in [Sync -> Time]
         /\ since' \in [Sync -> Time \cup {Nothing}]
         /\ reading' \in [Sync -> Value \cup {Nothing}]
         /\ anchor' \in [Sync -> Date \cup {0}]
         /\ carry' \in [Sync -> Value \cup {Nothing}]
         /\ overlapped' \in BOOLEAN /\ late' \subseteq Sync
         /\ today' \in Date /\ wallet' \in BOOLEAN /\ level' \in Value
         /\ changes' \in Nat /\ closed' \in BOOLEAN
<1> USE ReviewsAssumption
<1>1. CASE Start(c)
  BY <1>1 DEF TypeOK, Start, Goto, rest, world, tables
<1>2. CASE Fetch(c)
  BY <1>2 DEF TypeOK, Fetch, Goto, rest, world, tables, ghosts
<1>3. CASE Probe(c)
  BY <1>3 DEF TypeOK, Probe, Goto, rest, world, tables, ghosts
<1>4. CASE ProbeApproval(c)
  <2>1. 0 \in Time
    BY DEF Time
  <2>2. since' \in [Sync -> Time \cup {Nothing}]
    BY <1>4, <2>1 DEF TypeOK, ProbeApproval, RunClock
  <2>3. pc' = [pc EXCEPT ![c] = "check"] \/ pc' = [pc EXCEPT ![c] = "wait"]
    BY <1>4 DEF ProbeApproval, Goto
  <2> QED BY <1>4, <2>2, <2>3
          DEF TypeOK, ProbeApproval, rest, world, tables, ghosts
<1>5. CASE Tick(c)
  <2>1. elapsed[c] + 1 \in Time
    BY <1>5 DEF TypeOK, Tick, Time
  <2> QED BY <1>5, <2>1 DEF TypeOK, Tick, rest, world, tables, ghosts
<1>6. CASE Retry(c)
  BY <1>6 DEF TypeOK, Retry, Goto, rest, world, tables, ghosts
<1>7. CASE Check(c)
  <2> DEFINE d == Anchor(date[c])
  <2>1. d \in Date \cup {0} /\ (d # 0 => value[d] \in Value)
    BY AnchorIsRow DEF TypeOK
  <2>2. /\ anchor' = [anchor EXCEPT ![c] = d]
        /\ carry' = [carry EXCEPT ![c] = IF d = 0 THEN Nothing ELSE value[d]]
    BY <1>7 DEF Check
  <2>3. pc' = [pc EXCEPT ![c] = "approval"] \/ pc' = [pc EXCEPT ![c] = "clean"]
    BY <1>7 DEF Check, Goto
  <2> HIDE DEF d
  <2> QED BY <1>7, <2>1, <2>2, <2>3
          DEF TypeOK, Check, rest, world, tables, ghosts
<1>8. CASE ReadApproval(c)
  BY <1>8 DEF TypeOK, ReadApproval, Goto, rest, world, tables, ghosts
<1>9. CASE Return(c)
  <2>1. 1 \in Date /\ 0 \in Time
    BY DEF Date, Time
  <2> QED BY <1>9, <2>1 DEF TypeOK, Return, Goto, world
<1> QED BY <1>1, <1>2, <1>3, <1>4, <1>5, <1>6, <1>7, <1>8, <1>9
        DEF Local, Persist, Skip, Leave, PersistClean, PersistCarry,
            PersistFlagged

\* Tables keep their types: a flagged row carries a balance.
TablesOK ==
  /\ value \in [Date -> Value \cup {Nothing}]
  /\ flagged \subseteq {d \in Date : value[d] # Nothing}
  /\ kept \in [Date -> Value \cup {Nothing}]
  /\ review \in Review \cup {NoReview}
  /\ accepted \subseteq Value

LEMMA PersistTables ==
  ASSUME TypeOK, CallInv, NEW c \in Sync, Persist(c)
  PROVE  TablesOK'
<1>1. date[c] \in Date /\ carry[c] \in Value \cup {Nothing}
  BY DEF TypeOK
<1>2. reading[c] \in Value
  BY DEF CallInv, Persist, PersistClean, PersistCarry, PersistFlagged
<1>3. CASE PersistClean(c)
  BY <1>1, <1>2, <1>3, ReviewsAssumption DEF TypeOK, TablesOK, PersistClean
<1>4. CASE PersistCarry(c)
  <2>1. carry[c] \in Value
    BY <1>4, FollowsValue DEF CallInv, TypeOK, PersistCarry
  <2> QED BY <1>1, <1>4, <2>1, ReviewsAssumption
          DEF TypeOK, TablesOK, PersistCarry
<1>5. CASE PersistFlagged(c)
  <2>1. carry[c] \in Value
    BY <1>5, FollowsValue DEF CallInv, TypeOK, PersistFlagged
  <2>2. Upserted(date[c], reading[c]) \in Review
    BY <1>1, <1>2, UpsertedReview
  <2> QED BY <1>1, <1>2, <1>5, <2>1, <2>2, ReviewsAssumption
          DEF TypeOK, TablesOK, PersistFlagged
<1> QED BY <1>3, <1>4, <1>5 DEF Persist

LEMMA UserTables ==
  ASSUME TypeOK, User
  PROVE  /\ TablesOK' /\ changes' \in Nat /\ late' \subseteq Sync
         /\ UNCHANGED <<today, wallet, level, closed>>
<1>1. CASE Approve
  <2>1. review' \in Review
    BY <1>1 DEF TypeOK, Approve, InReview, Review, NoReview
  <2> QED BY <1>1, <2>1 DEF TypeOK, TablesOK, Approve, Without, world
<1>2. CASE UseProvider
  <2>1. \A d \in Queued : kept[d] \in Value
    BY <1>2 DEF TypeOK, UseProvider, Queued
  <2> QED BY <1>2, <2>1, ReviewsAssumption
          DEF TypeOK, TablesOK, UseProvider, Without, world
<1>3. ASSUME NEW d \in Date, NEW v \in Value, Edit(d, v)
      PROVE  /\ TablesOK' /\ changes' \in Nat /\ late' \subseteq Sync
             /\ UNCHANGED <<today, wallet, level, closed>>
  BY <1>3, ReviewsAssumption DEF TypeOK, TablesOK, Edit, Change, world
<1> QED BY <1>1, <1>2, <1>3 DEF User

LEMMA TypeNext ==
  ASSUME TypeOK, CallInv, [Next]_vars
  PROVE  TypeOK'
<1>1. CASE Outside
  <2>1. today' \in Date /\ level' \in Value /\ changes' \in Nat /\ closed' \in BOOLEAN
    <3>1. CASE Midnight
      <4>1. today + 1 \in Date
        BY <3>1, ReviewsAssumption DEF TypeOK, Midnight, Date
      <4> QED BY <3>1, <4>1 DEF TypeOK, Midnight, tables
    <3>2. CASE SetClosed
      BY <3>2, ReviewsAssumption DEF TypeOK, SetClosed, Change, world
    <3>3. ASSUME NEW v \in Value, Move(v)
          PROVE  /\ today' \in Date /\ level' \in Value
                 /\ changes' \in Nat /\ closed' \in BOOLEAN
      BY <3>3, ReviewsAssumption DEF TypeOK, Move, Change, tables
    <3> QED BY <1>1, <3>1, <3>2, <3>3 DEF Outside
  <2>2. wallet' = wallet
    BY <1>1 DEF Outside, Midnight, SetClosed, Move, world
  <2> QED BY <1>1, <2>1, <2>2, OutsideKeepsTables
          DEF TypeOK, snapshots, callVars, ghosts
<1>2. CASE User
  BY <1>2, UserTables, UserKeepsCalls DEF TypeOK, TablesOK, callVars
<1>3. CASE UNCHANGED vars
  BY <1>3 DEF TypeOK, vars, rest, world, tables, snapshots, callVars, ghosts
<1>4. ASSUME NEW c \in Sync, Local(c) PROVE TypeOK'
  BY <1>4, LocalTypes, LocalKeepsTables DEF TypeOK, snapshots
<1>5. ASSUME NEW c \in Sync, Persist(c) PROVE TypeOK'
  BY <1>5, LocalTypes, PersistTables DEF TypeOK, TablesOK
<1> QED BY <1>1, <1>2, <1>3, <1>4, <1>5, NextCases

LEMMA CallLocal ==
  ASSUME TypeOK, CallInv, NoSuspectJump, NEW c \in Sync, Local(c)
  PROVE  CallInv'
<1>1. accepted' = accepted
  BY LocalKeepsTables
<1>2. CASE Start(c)
  BY <1>1, <1>2 DEF TypeOK, CallInv, Start, Goto
<1>3. CASE Fetch(c)
  BY <1>1, <1>3 DEF TypeOK, CallInv, Fetch, Goto
<1>4. CASE Probe(c)
  BY <1>1, <1>4 DEF TypeOK, CallInv, Probe, Goto
<1>5. CASE ProbeApproval(c)
  <2>1. pc' = [pc EXCEPT ![c] = "check"] \/ pc' = [pc EXCEPT ![c] = "wait"]
    BY <1>5 DEF ProbeApproval, Goto
  <2> QED BY <1>1, <1>5, <2>1 DEF TypeOK, CallInv, ProbeApproval
<1>6. CASE Tick(c) \/ Retry(c)
  BY <1>1, <1>6 DEF TypeOK, CallInv, Tick, Retry, Goto
<1>7. CASE Check(c)
  <2> DEFINE d == Anchor(date[c])
  <2>1. d \in Date \cup {0} /\ (d # 0 => value[d] \in Value)
    BY AnchorIsRow DEF TypeOK
  <2>2. d # 0 => Follows(accepted, value[d])
    BY <2>1, ReviewsAssumption DEF NoSuspectJump
  <2>3. /\ anchor' = [anchor EXCEPT ![c] = d]
        /\ carry' = [carry EXCEPT ![c] = IF d = 0 THEN Nothing ELSE value[d]]
        /\ pc' = [pc EXCEPT ![c] = IF d # 0 /\ <<value[d], reading[c]>> \in Suspect
                                   THEN "approval" ELSE "clean"]
        /\ reading' = reading /\ pc[c] = "check"
    BY <1>7 DEF Check, Goto, Deviates
  <2> HIDE DEF d
  <2>4. d # 0 /\ <<value[d], reading[c]>> \notin Suspect => Follows(accepted, reading[c])
    BY <2>2, <2>3, FollowsFrom DEF CallInv
  <2>5. pc'[c] = "approval" => Follows(accepted, carry'[c])
    BY <2>1, <2>2, <2>3 DEF TypeOK
  <2>6. pc'[c] = "clean" /\ anchor'[c] # 0 => Follows(accepted, reading'[c])
    BY <2>1, <2>3, <2>4 DEF TypeOK
  <2>7. /\ reading'[c] \in Value /\ pc'[c] \in {"approval", "clean"}
        /\ \A b \in Sync \ {c} : /\ pc'[b] = pc[b] /\ reading'[b] = reading[b]
                                 /\ anchor'[b] = anchor[b] /\ carry'[b] = carry[b]
    BY <2>3 DEF TypeOK, CallInv
  <2> QED BY <1>1, <2>5, <2>6, <2>7 DEF CallInv
<1>8. CASE ReadApproval(c)
  BY <1>1, <1>8 DEF TypeOK, CallInv, ReadApproval, Goto
<1>9. CASE Return(c)
  BY <1>1, <1>9 DEF TypeOK, CallInv, Return, Goto
<1> QED BY <1>2, <1>3, <1>4, <1>5, <1>6, <1>7, <1>8, <1>9
        DEF Local, Skip, Leave

\* What was accepted stays so.
LEMMA AcceptedGrows ==
  ASSUME [Next]_vars
  PROVE  accepted \subseteq accepted'
<1>1. ASSUME NEW c \in Sync, Persist(c) PROVE accepted \subseteq accepted'
  BY <1>1 DEF Persist, PersistClean, PersistCarry, PersistFlagged
<1>2. CASE User
  BY <1>2 DEF User, Approve, UseProvider, Edit
<1> QED BY <1>1, <1>2, NextCases, OutsideKeepsTables, LocalKeepsTables
        DEF vars, ghosts

LEMMA CallNext ==
  ASSUME TypeOK, CallInv, NoSuspectJump, [Next]_vars
  PROVE  CallInv'
<1>1. ASSUME UNCHANGED callVars PROVE CallInv'
  BY <1>1, AcceptedGrows, FollowsMore DEF CallInv, callVars
<1>2. ASSUME NEW c \in Sync, Persist(c) PROVE CallInv'
  <2>1. Return(c)
    BY <1>2 DEF Persist, PersistClean, PersistCarry, PersistFlagged
  <2>2. /\ pc'[c] = "idle"
        /\ \A b \in Sync \ {c} : /\ pc'[b] = pc[b] /\ reading'[b] = reading[b]
                                 /\ anchor'[b] = anchor[b] /\ carry'[b] = carry[b]
    BY <2>1 DEF TypeOK, Return, Goto
  <2> QED BY <2>2, AcceptedGrows, FollowsMore DEF CallInv
<1> QED BY <1>1, <1>2, NextCases, OutsideKeepsTables, UserKeepsCalls, CallLocal
        DEF vars

-----------------------------------------------------------------------------
(* What a snapshot shows and what is kept beside it *)

LEMMA ShownNext ==
  ASSUME TypeOK, CallInv, NoSuspectJump, [Next]_vars
  PROVE  NoSuspectJump'
<1>1. ASSUME UNCHANGED <<snapshots, accepted>> PROVE NoSuspectJump'
  BY <1>1 DEF NoSuspectJump, snapshots
<1>2. ASSUME NEW d \in Date, value[d] # Nothing
      PROVE  Follows(accepted', value[d])
  BY <1>2, AcceptedGrows, FollowsMore DEF NoSuspectJump
<1>3. CASE Approve
  BY <1>1, <1>2, <1>3 DEF NoSuspectJump, Approve
<1>4. CASE UseProvider
  <2>1. \A d \in Queued : kept[d] \in Value /\ kept[d] \in accepted'
    BY <1>4 DEF UseProvider, Queued, TypeOK
  <2>2. \A d \in Queued : Follows(accepted', kept[d])
    BY <2>1, FollowsFrom
  <2> QED BY <1>2, <1>4, <2>2 DEF NoSuspectJump, UseProvider, TypeOK
<1>5. ASSUME NEW d \in Date, NEW v \in Value, Edit(d, v) PROVE NoSuspectJump'
  <2>1. Follows(accepted', v)
    BY <1>5, FollowsFrom DEF Edit
  <2> QED BY <1>2, <1>5, <2>1 DEF NoSuspectJump, Edit, TypeOK
<1>6. ASSUME NEW c \in Sync, PersistClean(c) PROVE NoSuspectJump'
  <2>1. reading[c] \in Value
    BY <1>6 DEF CallInv, PersistClean
  <2>2. Follows(accepted', reading[c])
    <3>1. CASE anchor[c] = 0
      BY <1>6, <2>1, <3>1, FollowsFrom DEF PersistClean
    <3>2. CASE anchor[c] # 0
      BY <1>6, <3>2, AcceptedGrows, FollowsMore DEF CallInv, PersistClean
    <3> QED BY <3>1, <3>2
  <2> QED BY <1>2, <1>6, <2>2 DEF NoSuspectJump, PersistClean, TypeOK
<1>7. ASSUME NEW c \in Sync, PersistCarry(c) \/ PersistFlagged(c)
      PROVE  NoSuspectJump'
  <2>1. Follows(accepted', carry[c])
    BY <1>7, AcceptedGrows, FollowsMore DEF CallInv, PersistCarry, PersistFlagged
  <2>2. value' = [value EXCEPT ![date[c]] = carry[c]]
    BY <1>7 DEF PersistCarry, PersistFlagged
  <2> QED BY <1>2, <2>1, <2>2 DEF NoSuspectJump, TypeOK
<1> QED BY <1>1, <1>3, <1>4, <1>5, <1>6, <1>7, NextCases, OutsideKeepsTables,
           LocalKeepsTables
        DEF User, Persist, vars, rest, tables, ghosts

LEMMA StatesNext ==
  ASSUME TypeOK, CallInv, StatesAreQueued, [Next]_vars
  PROVE  StatesAreQueued'
<1>1. ASSUME UNCHANGED <<snapshots, review>> PROVE StatesAreQueued'
  BY <1>1 DEF StatesAreQueued, Queued, InReview, Span, snapshots
<1>2. ASSUME \A d \in Date : kept'[d] = Nothing PROVE StatesAreQueued'
  BY <1>2 DEF StatesAreQueued
<1>3. CASE Approve \/ UseProvider
  <2>1. kept' = Without(Span) /\ InReview
    BY <1>3 DEF Approve, UseProvider
  <2>2. \A d \in Date : kept'[d] = Nothing
    BY <2>1 DEF StatesAreQueued, Without, Queued
  <2> QED BY <1>2, <2>2
<1>4. ASSUME NEW d \in Date, NEW v \in Value, Edit(d, v) PROVE StatesAreQueued'
  BY <1>2, <1>4 DEF Edit
<1>5. ASSUME NEW c \in Sync, PersistClean(c) PROVE StatesAreQueued'
  BY <1>2, <1>5 DEF PersistClean
<1>6. ASSUME NEW c \in Sync, PersistCarry(c) PROVE StatesAreQueued'
  <2>1. /\ kept' = [kept EXCEPT ![date[c]] = Nothing]
        /\ flagged \subseteq flagged' /\ review' = review
    BY <1>6 DEF PersistCarry
  <2> QED BY <2>1 DEF StatesAreQueued, TypeOK, Queued, InReview, Span
<1>7. ASSUME NEW c \in Sync, PersistFlagged(c) PROVE StatesAreQueued'
  <2>1. date[c] \in Date /\ reading[c] \in Value
    BY <1>7 DEF TypeOK, CallInv, PersistFlagged
  <2>2. /\ kept' = [kept EXCEPT ![date[c]] = reading[c]]
        /\ flagged' = flagged \cup {date[c]}
        /\ review' = Upserted(date[c], reading[c])
    BY <1>7 DEF PersistFlagged
  <2>3. InReview'
    BY <2>1, <2>2, UpsertedReview DEF InReview
  <2>4. review'.first \in Nat /\ review'.latest \in Nat /\ date[c] \in Nat
    BY <2>1, <2>2, UpsertedReview, ReviewsAssumption DEF Review, Date
  <2>5. date[c] \in review'.first..review'.latest
    BY <2>1, <2>2, <2>4, UpsertedReview
  <2>6. ASSUME NEW d \in Date, d # date[c], kept'[d] # Nothing
        PROVE  d \in flagged' /\ d \in review'.first..review'.latest
    <3>1. InReview /\ d \in flagged /\ d \in review.first..review.latest
      BY <2>2, <2>6 DEF StatesAreQueued, TypeOK, Queued, Span
    <3>2. review \in Review
      BY <3>1 DEF TypeOK, InReview, NoReview
    <3>3. review.first \in Nat /\ review.latest \in Nat
      BY <3>2, ReviewsAssumption DEF Review, Date
    <3>4. review'.first <= review.first /\ review.latest <= review'.latest
      BY <2>1, <2>2, <3>1, UpsertedReview
    <3> QED BY <2>2, <2>4, <3>1, <3>3, <3>4
  <2> QED BY <2>2, <2>3, <2>5, <2>6 DEF StatesAreQueued, Queued, Span
<1> QED BY <1>1, <1>3, <1>4, <1>5, <1>6, <1>7, NextCases, OutsideKeepsTables,
           LocalKeepsTables
        DEF User, Persist, vars, rest, tables

-----------------------------------------------------------------------------
(* Calls that do not overlap *)

RowsUpTo(d) == \A e \in Date : value[e] # Nothing => e <= d

\* A pending review ends at a flagged row, and every flagged row from its
\* first day on has what the provider reported.
QueueOK ==
  InReview => /\ review.first <= review.latest /\ review.latest \in flagged
              /\ \A f \in flagged : f >= review.first => kept[f] # Nothing

CarryOK == \A c \in Sync : pc[c] = "carry" => ~InReview

\* One call at a time: no row is younger than the day of the running one.
OrderOK ==
  /\ \A c, d \in Running : c = d
  /\ RowsUpTo(today)
  /\ \A c \in Running : date[c] <= today /\ RowsUpTo(date[c])

QueueInv == ~overlapped => OrderOK /\ QueueOK /\ CarryOK

LEMMA QueuePersist ==
  ASSUME TypeOK, CallInv, OrderOK, QueueOK, CarryOK,
         NEW c \in Sync, Persist(c)
  PROVE  OrderOK' /\ QueueOK' /\ CarryOK'
<1>1. /\ Return(c) /\ c \in Running /\ date[c] \in Date /\ reading[c] \in Value
      /\ value' \in [Date -> Value \cup {Nothing}]
      /\ \A e \in Date : e # date[c] => value'[e] = value[e]
  BY PersistTables
     DEF Persist, PersistClean, PersistCarry, PersistFlagged, Running, TypeOK,
         CallInv, TablesOK
<1>2. today' = today /\ date[c] <= today /\ RowsUpTo(date[c])
  BY <1>1 DEF OrderOK, Return, world
<1>3. pc' = [pc EXCEPT ![c] = "idle"] /\ Running' = {}
  <2>1. pc' = [pc EXCEPT ![c] = "idle"]
    BY <1>1 DEF Return, Goto
  <2>2. \A d \in Sync : pc'[d] = "idle"
    BY <1>1, <2>1 DEF OrderOK, Running, TypeOK
  <2> QED BY <2>1, <2>2 DEF Running
<1>4. OrderOK'
  <2>1. RowsUpTo(today)'
    BY <1>1, <1>2, ReviewsAssumption DEF RowsUpTo, TypeOK, Date
  <2> QED BY <1>3, <2>1 DEF OrderOK
<1>5. CarryOK'
  BY <1>3 DEF CarryOK, Running
<1>6. QueueOK'
  <2>1. CASE PersistClean(c)
    BY <2>1 DEF PersistClean, QueueOK, InReview, NoReview
  <2>2. CASE PersistCarry(c)
    BY <2>2 DEF PersistCarry, QueueOK, CarryOK, InReview
  <2>3. CASE PersistFlagged(c)
    <3>1. /\ kept' = [kept EXCEPT ![date[c]] = reading[c]]
          /\ flagged' = flagged \cup {date[c]}
          /\ review' = Upserted(date[c], reading[c])
      BY <2>3 DEF PersistFlagged
    <3>2. kept'[date[c]] # Nothing /\ date[c] \in flagged'
      BY <1>1, <3>1, ReviewsAssumption DEF TypeOK
    <3>3. \A f \in flagged : f \in Date /\ f <= date[c] /\ f \in Nat
      BY <1>2, ReviewsAssumption DEF TypeOK, RowsUpTo, Date
    <3>4. CASE InReview
      <4>1. review \in Review
        BY <3>4 DEF TypeOK, InReview, NoReview
      <4>2. review.first \in Nat /\ review.latest \in Nat /\ date[c] \in Nat
        BY <1>1, <4>1, ReviewsAssumption DEF Review, Date
      <4>3. review.first <= review.latest /\ review.latest <= date[c]
        BY <3>3, <3>4 DEF QueueOK
      <4>4. review.first <= date[c]
        BY <4>2, <4>3
      <4>5. review'.first = review.first /\ review'.latest = date[c]
        BY <1>1, <3>1, <3>4, <4>3, <4>4, UpsertedReview
      <4>6. \A f \in flagged : f >= review.first /\ f # date[c] => kept'[f] # Nothing
        BY <3>1, <3>3, <3>4 DEF QueueOK, TypeOK
      <4> QED BY <3>1, <3>2, <4>4, <4>5, <4>6 DEF QueueOK
    <3>5. CASE ~InReview
      <4>1. review'.first = date[c] /\ review'.latest = date[c]
        BY <1>1, <3>1, <3>5, UpsertedReview
      <4>2. date[c] \in Nat
        BY <1>1, ReviewsAssumption DEF Date
      <4>3. \A f \in flagged' : f >= date[c] => f = date[c]
        BY <3>1, <3>3, <4>2
      <4> QED BY <3>2, <4>1, <4>2, <4>3 DEF QueueOK
    <3> QED BY <3>4, <3>5
  <2> QED BY <2>1, <2>2, <2>3 DEF Persist
<1> QED BY <1>4, <1>5, <1>6

LEMMA QueueLocal ==
  ASSUME TypeOK, OrderOK, QueueOK, CarryOK, ~overlapped',
         NEW c \in Sync, Local(c)
  PROVE  OrderOK' /\ QueueOK' /\ CarryOK'
<1>1. UNCHANGED <<today, snapshots, review>>
  BY LocalKeepsTables
<1>2. QueueOK'
  BY <1>1 DEF QueueOK, InReview, snapshots
<1>3. CASE Start(c)
  <2>1. Running = {} /\ date' = [date EXCEPT ![c] = today]
        /\ pc' = [pc EXCEPT ![c] = "fetch"]
    BY <1>3 DEF Start, Goto
  <2>2. Running' = {c} /\ date'[c] = today /\ today \in Nat
    BY <2>1, ReviewsAssumption DEF Running, TypeOK, Date
  <2>3. OrderOK'
    BY <1>1, <2>2 DEF OrderOK, RowsUpTo, snapshots
  <2>4. CarryOK'
    BY <1>1, <2>1 DEF CarryOK, TypeOK, InReview
  <2> QED BY <1>2, <2>3, <2>4
<1>4. CASE Return(c)
  <2>1. pc' = [pc EXCEPT ![c] = "idle"] /\ date' = [date EXCEPT ![c] = 1]
    BY <1>4 DEF Return, Goto
  <2>2. Running' = Running \ {c} /\ \A d \in Running' : date'[d] = date[d]
    BY <2>1 DEF Running, TypeOK
  <2>3. OrderOK'
    BY <1>1, <2>2 DEF OrderOK, RowsUpTo, snapshots
  <2>4. CarryOK'
    BY <1>1, <2>1 DEF CarryOK, TypeOK, InReview
  <2> QED BY <1>2, <2>3, <2>4
<1>5. CASE ReadApproval(c)
  <2>1. /\ date' = date /\ pc[c] = "approval"
        /\ pc' = [pc EXCEPT ![c] = IF ApprovedMatches(reading[c])
                                   THEN "carry" ELSE "flag"]
    BY <1>5 DEF ReadApproval, Goto
  <2>2. Running' = Running
    BY <2>1 DEF Running, TypeOK
  <2>3. OrderOK'
    BY <1>1, <2>1, <2>2 DEF OrderOK, RowsUpTo, snapshots
  <2>4. CarryOK'
    BY <1>1, <2>1 DEF CarryOK, TypeOK, InReview, ApprovedMatches, Approved
  <2> QED BY <1>2, <2>3, <2>4
<1>6. CASE \/ Fetch(c) \/ Probe(c) \/ ProbeApproval(c) \/ Tick(c) \/ Retry(c)
           \/ Check(c)
  <2>1. /\ date' = date /\ pc[c] # "idle"
        /\ pc'[c] \notin {"idle", "carry"} /\ \A d \in Sync \ {c} : pc'[d] = pc[d]
    <3>1. CASE Tick(c)
      BY <3>1 DEF Tick, TypeOK
    <3>2. CASE ~Tick(c)
      <4>1. date' = date /\ pc[c] # "idle"
        BY <1>6, <3>2 DEF Fetch, Probe, ProbeApproval, Retry, Check
      <4>2. \E l \in {"fetch", "probe", "probeApproval", "wait", "check",
                      "approval", "clean"} : pc' = [pc EXCEPT ![c] = l]
        BY <1>6, <3>2 DEF Fetch, Probe, ProbeApproval, Retry, Check, Goto
      <4>3. PICK l \in {"fetch", "probe", "probeApproval", "wait", "check",
                        "approval", "clean"} : pc' = [pc EXCEPT ![c] = l]
        BY <4>2
      <4> QED BY <4>1, <4>3 DEF TypeOK
    <3> QED BY <3>1, <3>2
  <2>2. Running' = Running
    BY <2>1 DEF Running, TypeOK
  <2>3. OrderOK'
    BY <1>1, <2>1, <2>2 DEF OrderOK, RowsUpTo, snapshots
  <2>4. CarryOK'
    BY <1>1, <2>1 DEF CarryOK, InReview
  <2> QED BY <1>2, <2>3, <2>4
<1> QED BY <1>3, <1>4, <1>5, <1>6 DEF Local, Skip, Leave

LEMMA QueueUser ==
  ASSUME TypeOK, OrderOK, QueueOK, CarryOK, User
  PROVE  OrderOK' /\ QueueOK' /\ CarryOK'
<1>1. UNCHANGED <<today, pc, date>>
  BY UserKeepsCalls DEF callVars
<1>2. ~InReview'
  <2>1. CASE Approve
    <3>1. review \in Review
      BY <2>1 DEF TypeOK, Approve, InReview, NoReview
    <3> QED BY <2>1, <3>1 DEF Approve, InReview, Review
  <2>2. CASE UseProvider \/ \E d \in Date, v \in Value : Edit(d, v)
    BY <2>2 DEF UseProvider, Edit, InReview, NoReview
  <2> QED BY <2>1, <2>2 DEF User
<1>3. \A e \in Date : value'[e] # Nothing => value[e] # Nothing
  <2>1. CASE Approve
    BY <2>1 DEF Approve
  <2>2. CASE UseProvider
    BY <2>2 DEF UseProvider, TypeOK, Queued
  <2>3. ASSUME NEW d \in Date, NEW v \in Value, Edit(d, v)
        PROVE  \A e \in Date : value'[e] # Nothing => value[e] # Nothing
    BY <2>3 DEF Edit, TypeOK
  <2> QED BY <2>1, <2>2, <2>3 DEF User
<1>4. OrderOK'
  BY <1>1, <1>3 DEF OrderOK, RowsUpTo, Running
<1> QED BY <1>1, <1>2, <1>4 DEF QueueOK, CarryOK

LEMMA QueueNext ==
  ASSUME TypeOK, CallInv, QueueInv, [Next]_vars
  PROVE  QueueInv'
<1> SUFFICES ASSUME ~overlapped' PROVE OrderOK' /\ QueueOK' /\ CarryOK'
  BY DEF QueueInv
<1>1. ~overlapped
  <2>1. ASSUME NEW c \in Sync, Local(c) \/ Persist(c) PROVE ~overlapped
    <3>1. CASE Start(c)
      BY <3>1 DEF Start
    <3>2. CASE Return(c)
      BY <3>2 DEF Return
    <3>3. CASE \/ Fetch(c) \/ Probe(c) \/ ProbeApproval(c) \/ Tick(c)
               \/ Retry(c) \/ Check(c) \/ ReadApproval(c)
      BY <3>3 DEF Fetch, Probe, ProbeApproval, Tick, Retry, Check,
           ReadApproval, ghosts
    <3> QED BY <2>1, <3>1, <3>2, <3>3
            DEF Local, Persist, Skip, Leave, PersistClean, PersistCarry,
                PersistFlagged
  <2> QED BY <2>1, NextCases, OutsideKeepsTables, UserKeepsCalls
          DEF vars, ghosts
<1>2. OrderOK /\ QueueOK /\ CarryOK
  BY <1>1 DEF QueueInv
<1>3. CASE Outside
  <2>1. UNCHANGED <<snapshots, review, callVars>>
    BY <1>3, OutsideKeepsTables
  <2>2. today' \in Nat /\ today \in Nat /\ today <= today'
    BY <1>3, ReviewsAssumption
       DEF Outside, Midnight, SetClosed, Move, world, TypeOK, Date
  <2>3. OrderOK'
    <3>1. RowsUpTo(today)'
      BY <1>2, <2>1, <2>2, ReviewsAssumption
         DEF OrderOK, RowsUpTo, snapshots, Date
    <3>2. \A c \in Sync : date[c] \in Nat
      BY ReviewsAssumption DEF TypeOK, Date
    <3> QED BY <1>2, <2>1, <2>2, <3>1, <3>2
            DEF OrderOK, RowsUpTo, Running, snapshots, callVars
  <2> QED BY <1>2, <2>1, <2>3 DEF QueueOK, CarryOK, InReview, snapshots, callVars
<1>4. CASE UNCHANGED vars
  BY <1>2, <1>4 DEF OrderOK, QueueOK, CarryOK, RowsUpTo, Running, InReview, vars,
       rest, world, tables, snapshots, callVars, ghosts
<1> QED BY <1>2, <1>3, <1>4, NextCases, QueueLocal, QueuePersist, QueueUser

-----------------------------------------------------------------------------
(* Approvals *)

\* A call that is about to queue what has been approved decided before.
LateInv == \A c \in Sync : pc[c] = "flag" /\ ApprovedMatches(reading[c]) => c \in late

LEMMA LateNext ==
  ASSUME TypeOK, CallInv, LateInv, [Next]_vars
  PROVE  LateInv'
<1>1. CASE Outside \/ UNCHANGED vars
  <2>1. UNCHANGED <<pc, reading, review, late>>
    BY <1>1, OutsideKeepsTables DEF vars, callVars, rest, tables, ghosts
  <2> QED BY <2>1 DEF LateInv, ApprovedMatches, Approved
<1>2. CASE Approve
  BY <1>2 DEF Approve, LateInv, callVars
<1>3. CASE UseProvider \/ \E d \in Date, v \in Value : Edit(d, v)
  <2>1. review' = NoReview
    BY <1>3 DEF UseProvider, Edit
  <2> QED BY <2>1 DEF LateInv, ApprovedMatches, Approved, NoReview
<1>4. ASSUME NEW c \in Sync, Local(c) PROVE LateInv'
  <2>1. review' = review
    BY <1>4, LocalKeepsTables
  <2>2. /\ late \ {c} \subseteq late'
        /\ \A d \in Sync \ {c} : pc'[d] = pc[d] /\ reading'[d] = reading[d]
    BY <1>4 DEF TypeOK, Local, Start, Fetch, Probe, ProbeApproval, Tick, Retry,
         Check, ReadApproval, Skip, Leave, Return, Goto, ghosts
  <2>3. pc'[c] = "flag" => ~ApprovedMatches(reading'[c])
    <3>1. CASE ReadApproval(c)
      <4>1. reading' = reading
            /\ pc'[c] = IF ApprovedMatches(reading[c]) THEN "carry" ELSE "flag"
        BY <3>1 DEF ReadApproval, Goto, TypeOK
      <4> QED BY <4>1
    <3>2. CASE ~ReadApproval(c)
      <4>1. CASE Tick(c)
        BY <4>1 DEF Tick
      <4>2. CASE ProbeApproval(c)
        <5>1. pc' = [pc EXCEPT ![c] = "check"] \/ pc' = [pc EXCEPT ![c] = "wait"]
          BY <4>2 DEF ProbeApproval, Goto
        <5> QED BY <5>1 DEF TypeOK
      <4>3. CASE Return(c)
        BY <4>3 DEF Return, Goto, TypeOK
      <4>4. CASE Start(c) \/ Fetch(c) \/ Probe(c) \/ Retry(c) \/ Check(c)
        BY <4>4 DEF Start, Fetch, Probe, Retry, Check, Goto, TypeOK
      <4> QED BY <1>4, <3>2, <4>1, <4>2, <4>3, <4>4 DEF Local, Skip, Leave
    <3> QED BY <3>1, <3>2
  <2> QED BY <2>1, <2>2, <2>3 DEF LateInv, ApprovedMatches, Approved
<1>5. ASSUME NEW c \in Sync, Persist(c) PROVE LateInv'
  <2>1. /\ Return(c) /\ date[c] \in Date
        /\ PersistFlagged(c) => reading[c] \in Value
    BY <1>5 DEF Persist, PersistClean, PersistCarry, PersistFlagged, TypeOK,
         CallInv
  <2>2. /\ late' = late \ {c} /\ pc'[c] = "idle"
        /\ \A d \in Sync \ {c} : pc'[d] = pc[d] /\ reading'[d] = reading[d]
    BY <2>1 DEF Return, Goto, TypeOK
  <2>3. review' = review \/ ~Approved'
    <3>1. PersistFlagged(c) => review'.decision = "IN_REVIEW"
      BY <2>1, UpsertedReview DEF PersistFlagged
    <3> QED BY <1>5, <3>1
            DEF Persist, PersistClean, PersistCarry, Approved, NoReview
  <2> QED BY <2>2, <2>3 DEF LateInv, ApprovedMatches, Approved
<1> QED BY <1>1, <1>2, <1>3, <1>4, <1>5, NextCases DEF User

\* Only a call that flags opens a review.
LEMMA AskedStep ==
  ASSUME TypeOK, LateInv, [Next]_vars, Approved,
         review'.decision = "IN_REVIEW", review'.provider = review.provider
  PROVE  \E c \in late : pc[c] = "flag" /\ pc'[c] = "idle"
<1>1. review' # review
  BY DEF Approved
<1>2. ~User
  BY DEF User, Approve, UseProvider, Edit, InReview, Approved, NoReview
<1>3. PICK c \in Sync : Persist(c)
  BY <1>1, <1>2, NextCases, OutsideKeepsTables, LocalKeepsTables
     DEF vars, rest, tables
<1>4. PersistFlagged(c)
  BY <1>1, <1>3 DEF Persist, PersistClean, PersistCarry, NoReview
<1>5. /\ pc[c] = "flag" /\ pc'[c] = "idle" /\ review'.provider = reading[c]
  BY <1>4 DEF PersistFlagged, Return, Goto, Upserted, InReview, Approved, TypeOK
<1> QED BY <1>5 DEF LateInv, ApprovedMatches

-----------------------------------------------------------------------------
(* The theorems *)

IInv ==
  /\ TypeOK /\ CallInv /\ NoSuspectJump /\ StatesAreQueued
  /\ QueueInv /\ LateInv

LEMMA InitIInv == Init => IInv
<1> SUFFICES ASSUME Init PROVE IInv
  OBVIOUS
<1>1. 1 \in Date /\ 0 \in Time
  BY ReviewsAssumption DEF Date, Time
<1>2. TypeOK
  BY <1>1 DEF Init, TypeOK
<1>3. CallInv /\ NoSuspectJump /\ StatesAreQueued /\ LateInv
  BY DEF Init, CallInv, NoSuspectJump, StatesAreQueued, LateInv
<1>4. QueueInv
  BY <1>1 DEF Init, QueueInv, OrderOK, QueueOK, CarryOK, RowsUpTo, Running,
       InReview, NoReview
<1> QED BY <1>2, <1>3, <1>4 DEF IInv

LEMMA NextIInv == IInv /\ [Next]_vars => IInv'
BY TypeNext, CallNext, ShownNext, StatesNext, QueueNext, LateNext DEF IInv

LEMMA Invariance == Spec => []IInv
BY InitIInv, NextIInv, PTL DEF Spec

LEMMA IInvResolvable == IInv => Resolvable
<1> SUFFICES ASSUME IInv, ~overlapped, InReview
             PROVE  Queued # {} /\ \A d \in Queued : kept[d] # Nothing
  BY DEF Resolvable
<1>1. QueueOK /\ TypeOK
  BY DEF IInv, QueueInv
<1>2. review \in Review
  BY <1>1 DEF TypeOK, InReview, NoReview
<1>3. review.first \in Nat /\ review.latest \in Nat
  BY <1>2, ReviewsAssumption DEF Review, Date
<1>4. review.latest \in Queued
  BY <1>1, <1>3 DEF QueueOK, Queued, Span
<1>5. ASSUME NEW d \in Queued PROVE kept[d] # Nothing
  BY <1>1, <1>3 DEF QueueOK, Queued, Span
<1> QED BY <1>4, <1>5

\* The tables and the calls' locals keep their types.
THEOREM TypeCorrect == Spec => []TypeOK
BY Invariance, PTL DEF IInv

\* What the provider reported is kept only beside a flagged row of the pending
\* review (persist_snapshot_in_transaction, reviews.rs, snapshot_editor.rs).
THEOREM StatesQueued == Spec => []StatesAreQueued
BY Invariance, PTL DEF IInv

\* From a first reading or a decision of the user only ordinary changes lead to
\* a balance that is shown, whatever Suspect says of two balances
\* (flagging.rs, snapshot_persist).
THEOREM NoSuspectShown == Spec => []NoSuspectJump
BY Invariance, PTL DEF IInv

\* While calls do not overlap, a pending review can be approved and can be
\* replaced by the provider's balances (UpsertBalanceReview, reviews.rs).
THEOREM ReviewsResolvable == Spec => []Resolvable
BY Invariance, IInvResolvable, PTL

\* An approved balance is queued again only by a call that had decided before
\* the approval (approved_review_matches).
THEOREM ApprovedAskedOnce == Spec => AskedOnce
<1>1. IInv /\ [Next]_vars =>
        [Approved /\ review'.decision = "IN_REVIEW"
           /\ review'.provider = review.provider
         => \E c \in late : pc[c] = "flag" /\ pc'[c] = "idle"]_vars
  BY AskedStep DEF IInv
<1> QED BY <1>1, Invariance, PTL DEF Spec, AskedOnce

-----------------------------------------------------------------------------
(* Anchors *)

TrustedRows == {e \in Date : value[e] # Nothing /\ e \notin flagged}

\* A call may only carry a balance forward past a row that is trusted, or past
\* one that was and still has a trusted row before it.
CarriesFrom(c) ==
  anchor[c] \in Date /\ anchor[c] < date[c] /\ \E e \in TrustedRows : e <= anchor[c]

AnchorInv ==
  /\ \A d \in flagged : \E e \in TrustedRows : e < d
  /\ \A c \in Sync : pc[c] \in {"approval", "carry", "flag"} => CarriesFrom(c)

LEMMA Below ==
  ASSUME NEW x \in Nat, NEW y \in Nat, NEW z \in Nat
  PROVE  /\ x <= y /\ y < z => x < z /\ x # z
         /\ x <= y /\ y <= z => x <= z
OBVIOUS

\* More trusted rows, fewer flagged ones.
LEMMA AnchorsKeep ==
  ASSUME AnchorInv, TrustedRows \subseteq TrustedRows', flagged' \subseteq flagged,
         \A c \in Sync : pc'[c] \in {"approval", "carry", "flag"}
           => /\ pc[c] \in {"approval", "carry", "flag"}
              /\ anchor'[c] = anchor[c] /\ date'[c] = date[c]
  PROVE  AnchorInv'
BY DEF AnchorInv, CarriesFrom

LEMMA AnchorsLocal ==
  ASSUME TypeOK, AnchorInv, NEW c \in Sync, Local(c)
  PROVE  AnchorInv'
<1>1. TrustedRows' = TrustedRows /\ flagged' = flagged
  BY LocalKeepsTables DEF TrustedRows, snapshots
<1>2. CASE Start(c) \/ Fetch(c) \/ Probe(c) \/ Tick(c) \/ Retry(c)
  <2>1. \A b \in Sync : pc'[b] \in {"approval", "carry", "flag"}
          => pc'[b] = pc[b] /\ anchor'[b] = anchor[b] /\ date'[b] = date[b]
    BY <1>2 DEF Start, Fetch, Probe, Tick, Retry, Goto, TypeOK
  <2> QED BY <1>1, <2>1, AnchorsKeep
<1>3. CASE ProbeApproval(c)
  <2>1. /\ pc' = [pc EXCEPT ![c] = "check"] \/ pc' = [pc EXCEPT ![c] = "wait"]
        /\ UNCHANGED <<anchor, date>>
    BY <1>3 DEF ProbeApproval, Goto
  <2> QED BY <1>1, <2>1, AnchorsKeep DEF TypeOK
<1>4. CASE Check(c)
  <2> DEFINE d == Anchor(date[c])
  <2>1. /\ d \in Date \cup {0}
        /\ d # 0 => d < date[c] /\ d \in TrustedRows /\ d \in Date
    BY AnchorIsRow, ReviewsAssumption DEF TypeOK, TrustedRows
  <2>2. /\ anchor' = [anchor EXCEPT ![c] = d] /\ date' = date
        /\ pc' = [pc EXCEPT ![c] = IF d # 0 /\ <<value[d], reading[c]>> \in Suspect
                                   THEN "approval" ELSE "clean"]
    BY <1>4 DEF Check, Goto, Deviates
  <2> HIDE DEF d
  <2>3. pc'[c] = "approval" => CarriesFrom(c)'
    <3>1. pc'[c] = "approval" => d # 0
      BY <2>2 DEF TypeOK
    <3>2. anchor'[c] = d /\ date'[c] = date[c]
      BY <2>2 DEF TypeOK
    <3>3. d # 0 => d <= d
      BY <2>1, ReviewsAssumption DEF Date
    <3> QED BY <1>1, <2>1, <3>1, <3>2, <3>3 DEF CarriesFrom
  <2>4. \A b \in Sync \ {c} : pc'[b] = pc[b] /\ anchor'[b] = anchor[b] /\ date'[b] = date[b]
    BY <2>2 DEF TypeOK
  <2>5. pc'[c] \in {"approval", "clean"}
    BY <2>2 DEF TypeOK
  <2> QED BY <1>1, <2>3, <2>4, <2>5 DEF AnchorInv, CarriesFrom
<1>5. CASE ReadApproval(c)
  <2>1. /\ UNCHANGED <<anchor, date>> /\ pc[c] = "approval"
        /\ \A b \in Sync \ {c} : pc'[b] = pc[b]
    BY <1>5 DEF ReadApproval, Goto, TypeOK
  <2> QED BY <1>1, <2>1, AnchorsKeep
<1>6. CASE Return(c)
  <2>1. /\ pc'[c] = "idle"
        /\ \A b \in Sync \ {c} : pc'[b] = pc[b] /\ anchor'[b] = anchor[b] /\ date'[b] = date[b]
    BY <1>6 DEF Return, Goto, TypeOK
  <2> QED BY <1>1, <2>1, AnchorsKeep
<1> QED BY <1>2, <1>3, <1>4, <1>5, <1>6 DEF Local, Skip, Leave

LEMMA AnchorsPersist ==
  ASSUME TypeOK, CallInv, NoSuspectJump, AnchorInv, NEW c \in Sync, Persist(c)
  PROVE  AnchorInv'
<1>1. /\ pc'[c] = "idle"
      /\ \A b \in Sync \ {c} : pc'[b] = pc[b] /\ anchor'[b] = anchor[b] /\ date'[b] = date[b]
  BY DEF Persist, PersistClean, PersistCarry, PersistFlagged, Return, Goto, TypeOK
<1>2. CASE PersistClean(c)
  <2>1. /\ value' = [value EXCEPT ![date[c]] = reading[c]] /\ flagged' \subseteq flagged
        /\ reading[c] # Nothing
    BY <1>2, ReviewsAssumption DEF PersistClean, CallInv
  <2>2. TrustedRows \subseteq TrustedRows'
    BY <2>1 DEF TrustedRows, TypeOK
  <2> QED BY <1>1, <2>1, <2>2, AnchorsKeep
<1>3. CASE PersistCarry(c) \/ PersistFlagged(c)
  <2>1. /\ value' = [value EXCEPT ![date[c]] = carry[c]]
        /\ flagged' = flagged \cup {date[c]}
        /\ date[c] \in Date /\ pc[c] \in {"carry", "flag"}
    BY <1>3 DEF PersistCarry, PersistFlagged, TypeOK
  <2>2. \A e \in TrustedRows : e # date[c] => e \in TrustedRows'
    BY <2>1 DEF TrustedRows, TypeOK
  <2>3. PICK a \in TrustedRows : a <= anchor[c] /\ anchor[c] < date[c] /\ anchor[c] \in Date
    BY <2>1 DEF AnchorInv, CarriesFrom
  <2>4. Date \subseteq Nat /\ TrustedRows \subseteq Date /\ TrustedRows' \subseteq Date
    BY ReviewsAssumption DEF Date, TrustedRows
  <2>5. a \in TrustedRows' /\ a < date[c]
    <3>1. a \in Nat /\ anchor[c] \in Nat /\ date[c] \in Nat
      BY <2>1, <2>3, <2>4
    <3>2. a < date[c] /\ a # date[c]
      BY <2>3, <3>1, Below
    <3> QED BY <2>2, <2>3, <3>2
  <2>6. ASSUME NEW e \in TrustedRows PROVE \E f \in TrustedRows' : f <= e
    <3>4. date[c] \in Date
      BY <2>1
    <3>1. e \in Nat /\ a \in Nat /\ date[c] \in Nat
      BY <2>3, <2>4, <3>4
    <3>2. CASE e = date[c]
      <4>1. a <= e
        BY <2>5, <3>1, <3>2
      <4> QED BY <2>5, <4>1
    <3>3. CASE e # date[c]
      <4>1. e <= e
        BY <3>1
      <4> QED BY <2>2, <3>3, <4>1
    <3> QED BY <3>2, <3>3
  <2>7. \A d \in flagged' : \E e \in TrustedRows' : e < d
    <3> SUFFICES ASSUME NEW d \in flagged, d # date[c]
                 PROVE  \E e \in TrustedRows' : e < d
      BY <2>1, <2>5
    <3>1. PICK e \in TrustedRows : e < d
      BY DEF AnchorInv
    <3>2. PICK f \in TrustedRows' : f <= e
      BY <2>6
    <3> QED BY <2>4, <3>1, <3>2 DEF TypeOK
  <2>8. ASSUME NEW b \in Sync, pc'[b] \in {"approval", "carry", "flag"}
        PROVE  CarriesFrom(b)'
    <3>1. b # c /\ CarriesFrom(b) /\ anchor'[b] = anchor[b] /\ date'[b] = date[b]
      BY <1>1, <2>8 DEF AnchorInv
    <3>2. PICK e \in TrustedRows : e <= anchor[b]
      BY <3>1 DEF CarriesFrom
    <3>3. PICK f \in TrustedRows' : f <= e
      BY <2>6
    <3>4. f <= anchor[b]
      <4>1. f \in Nat /\ e \in Nat /\ anchor[b] \in Nat
        BY <2>4, <3>1, <3>2, <3>3 DEF CarriesFrom
      <4> QED BY <3>2, <3>3, <4>1, Below
    <3> QED BY <3>1, <3>4 DEF CarriesFrom
  <2> QED BY <2>7, <2>8 DEF AnchorInv
<1> QED BY <1>2, <1>3 DEF Persist

LEMMA AnchorsUser ==
  ASSUME TypeOK, AnchorInv, User
  PROVE  AnchorInv'
<1>1. UNCHANGED <<pc, anchor, date>>
  BY UserKeepsCalls DEF callVars
<1>2. TrustedRows \subseteq TrustedRows' /\ flagged' \subseteq flagged
  <2>1. CASE Approve
    BY <2>1 DEF Approve, TrustedRows
  <2>2. CASE UseProvider
    BY <2>2 DEF UseProvider, TrustedRows, TypeOK
  <2>3. ASSUME NEW d \in Date, NEW v \in Value, Edit(d, v)
        PROVE  TrustedRows \subseteq TrustedRows' /\ flagged' \subseteq flagged
    BY <2>3, ReviewsAssumption DEF Edit, TrustedRows, TypeOK
  <2> QED BY <2>1, <2>2, <2>3 DEF User
<1> QED BY <1>1, <1>2, AnchorsKeep

\* A flagged row always has a trusted one before it, so a suspect reading is
\* always measured against a balance somebody can vouch for
\* (latest_unflagged_snapshot_with_holdings, emit_with_price_check).
THEOREM HistoriesAreAnchored == Spec => []HistoryIsAnchored
<1>1. Init => AnchorInv
  BY DEF Init, AnchorInv
<1>2. IInv /\ AnchorInv /\ [Next]_vars => AnchorInv'
  <2> SUFFICES ASSUME IInv, AnchorInv, [Next]_vars PROVE AnchorInv'
    OBVIOUS
  <2>1. CASE Outside \/ UNCHANGED vars
    <3>1. UNCHANGED <<value, flagged, pc, anchor, date>>
      BY <2>1, OutsideKeepsTables DEF snapshots, callVars, vars, rest, tables
    <3> QED BY <3>1 DEF AnchorInv, CarriesFrom, TrustedRows
  <2> QED BY <2>1, NextCases, AnchorsUser, AnchorsLocal, AnchorsPersist DEF IInv
<1>3. TypeOK /\ AnchorInv => HistoryIsAnchored
  <2> SUFFICES ASSUME TypeOK, AnchorInv, NEW d \in flagged PROVE Trusted(d) # {}
    BY DEF HistoryIsAnchored
  <2>1. PICK e \in TrustedRows : e < d
    BY DEF AnchorInv
  <2>2. d \in Nat /\ e \in Nat /\ 1 <= e
    BY ReviewsAssumption DEF TypeOK, TrustedRows, Date
  <2>3. e \in 1..(d - 1)
    BY <2>1, <2>2
  <2> QED BY <2>3 DEF Trusted, TrustedRows
<1> QED BY <1>1, <1>2, <1>3, Invariance, TypeCorrect, PTL DEF Spec
=============================================================================
