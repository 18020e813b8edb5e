-------------------------- MODULE BalanceReviews --------------------------
(***************************************************************************)
(* Daily balance snapshots of one account: what a balance sync writes, how *)
(* a reading whose price is suspect is carried forward and queued for      *)
(* review (wealth/flagging.rs, wealth/store/snapshots.rs), the retries of  *)
(* a wallet (wealth/adapters/debank.rs), and what the user decides         *)
(* (wealth/store/reviews.rs, wealth/store/snapshot_editor.rs).             *)
(*                                                                         *)
(* A reading is a member of Value, a balance with its holdings; no         *)
(* tolerance makes the totals of two readings equal.  Suspect says which   *)
(* pairs have the price of a holding in common and hundredfold apart       *)
(* (sanity.rs): any other change of a balance is ordinary.  One query or   *)
(* one with_tx closure is one step.                                        *)
(***************************************************************************)
EXTENDS Naturals, FiniteSetsExt

CONSTANTS
  Value,         \* what the provider can report
  Suspect,       \* pairs <<balance, reading>> of which the prices deviate
  Nothing,       \* no row, no reading, no provider state
  Sync,          \* calls that may sync the account at the same time
  RetryWindow,   \* FLAG_RETRY_WINDOW
  MaxDate,       \* bound: days
  MaxChanges     \* bound: changes of the provider's value, edits, closings

ASSUME ReviewsAssumption ==
  /\ Nothing \notin Value /\ Suspect \subseteq Value \X Value
  /\ RetryWindow \in Nat \ {0}
  /\ MaxDate \in Nat \ {0} /\ MaxChanges \in Nat

VARIABLES
  today,         \* the date
  wallet,        \* the account is an EVM wallet synced by the DeBank adapter
  level,         \* external: what the provider reports
  changes,       \* bound: changes so far
  closed,        \* accounts.is_closed
  value,         \* balance of the snapshot of each date
  flagged,       \* dates whose snapshot is flagged
  kept,          \* account_balance_snapshot_provider_states, by date
  review,        \* account_balance_snapshot_reviews: the account's row
  pc,            \* where each call stands
  date,          \* the run's today, fixed by SnapshotPersister::new
  elapsed,       \* time since the run started, on the wall clock
  since,         \* pending_since of a wallet's loop
  reading,       \* the snapshot it built
  anchor,        \* date of the unflagged snapshot before it, or 0
  carry,         \* the balance of that snapshot
  overlapped,    \* history: a call started while another was running
  late,          \* history: calls that had decided to flag when a review
                 \* was approved
  accepted       \* history: balances of first readings and user decisions

world == <<today, wallet, level>>
snapshots == <<value, flagged, kept>>
tables == <<closed, snapshots, review>>
callVars == <<pc, date, elapsed, since, reading, anchor, carry>>
rest == <<world, changes, tables>>
ghosts == <<overlapped, late, accepted>>
vars == <<rest, callVars, ghosts>>

Date == 1..MaxDate
Time == 0..RetryWindow
NoReview == [decision |-> "none"]
Review == [decision : {"IN_REVIEW", "APPROVED_CHANGES"}, first : Date,
           latest : Date, provider : Value]

TypeOK ==
  /\ today \in Date /\ wallet \in BOOLEAN
  /\ level \in Value /\ changes \in Nat /\ closed \in BOOLEAN
  /\ value \in [Date -> Value \cup {Nothing}]
  /\ flagged \subseteq {d \in Date : value[d] # Nothing}
  /\ kept \in [Date -> Value \cup {Nothing}]
  /\ review \in Review \cup {NoReview}
  /\ pc \in [Sync -> {"idle", "fetch", "probe", "probeApproval", "wait",
                      "check", "approval", "clean", "carry", "flag"}]
  /\ date \in [Sync -> Date] /\ elapsed \in [Sync -> Time]
  /\ since \in [Sync -> Time \cup {Nothing}]
  /\ reading \in [Sync -> Value \cup {Nothing}]
  /\ anchor \in [Sync -> Date \cup {0}]
  /\ carry \in [Sync -> Value \cup {Nothing}]
  /\ overlapped \in BOOLEAN /\ late \subseteq Sync /\ accepted \subseteq Value

Running == {c \in Sync : pc[c] # "idle"}
InReview == review.decision = "IN_REVIEW"
Approved == review.decision = "APPROVED_CHANGES"
Span == review.first..review.latest

Init ==
  /\ today = 1 /\ wallet \in BOOLEAN
  /\ level \in Value /\ changes = 0 /\ closed = FALSE
  /\ value = [d \in Date |-> Nothing] /\ flagged = {}
  /\ kept = [d \in Date |-> Nothing] /\ review = NoReview
  /\ pc = [c \in Sync |-> "idle"]
  /\ date = [c \in Sync |-> 1] /\ elapsed = [c \in Sync |-> 0]
  /\ since = [c \in Sync |-> Nothing] /\ reading = [c \in Sync |-> Nothing]
  /\ anchor = [c \in Sync |-> 0] /\ carry = [c \in Sync |-> Nothing]
  /\ overlapped = FALSE /\ late = {} /\ accepted = {}

-----------------------------------------------------------------------------
(* Time and the provider *)

Change == changes < MaxChanges /\ changes' = changes + 1

Midnight ==
  /\ today < MaxDate /\ today' = today + 1
  /\ UNCHANGED <<wallet, level, changes, tables, callVars, ghosts>>

Move(v) ==
  /\ Change /\ v # level
  /\ level' = v
  /\ UNCHANGED <<today, wallet, tables, callVars, ghosts>>

-----------------------------------------------------------------------------
(* A sync call *)

Goto(c, label) == pc' = [pc EXCEPT ![c] = label]

\* A run of the hourly loop, of an account event or of a request starts.
Start(c) ==
  /\ pc[c] = "idle"
  /\ date' = [date EXCEPT ![c] = today]
  /\ Goto(c, "fetch")
  /\ overlapped' = (overlapped \/ Running # {})
  /\ UNCHANGED <<rest, elapsed, since, reading, anchor, carry, late, accepted>>

\* wallet_tokens and build_snapshot, or the other adapters' fetch.
Fetch(c) ==
  /\ pc[c] = "fetch"
  /\ reading' = [reading EXCEPT ![c] = level]
  /\ Goto(c, IF wallet THEN "probe" ELSE "check")
  /\ UNCHANGED <<rest, date, elapsed, since, anchor, carry, ghosts>>

Trusted(d) == {e \in 1..(d - 1) : value[e] # Nothing /\ e \notin flagged}

\* latest_unflagged_snapshot_with_holdings
Anchor(d) == IF Trusted(d) = {} THEN 0 ELSE Max(Trusted(d))

\* Mutant: any reading deviates from no anchor.
DeviatesFromNothing(d, v) ==
  IF Anchor(d) = 0 THEN TRUE ELSE <<value[Anchor(d)], v>> \in Suspect

\* holding_price_deviates: nothing deviates from no anchor.
Deviates(d, v) == Anchor(d) # 0 /\ <<value[Anchor(d)], v>> \in Suspect

\* approved_review_matches
ApprovedMatches(v) == Approved /\ review.provider = v

\* sync_wallet asks first whether the reading is suspect.
Probe(c) ==
  /\ pc[c] = "probe"
  /\ Goto(c, IF Deviates(date[c], reading[c]) THEN "probeApproval" ELSE "check")
  /\ UNCHANGED <<rest, date, elapsed, since, reading, anchor, carry, ghosts>>

\* SnapshotPersister::now, from the start of the run: it is read once.
RunClock(c) == 0

\* A suspect reading waits until the window has passed on the run's clock.
ProbeApproval(c) ==
  /\ pc[c] = "probeApproval"
  /\ IF ApprovedMatches(reading[c])
     THEN Goto(c, "check") /\ UNCHANGED since
     ELSE /\ since' = [since EXCEPT ![c] =
                         IF @ = Nothing THEN RunClock(c) ELSE @]
          /\ Goto(c, IF RunClock(c) >= since'[c] + RetryWindow THEN "check"
                     ELSE "wait")
  /\ UNCHANGED <<rest, date, elapsed, reading, anchor, carry, ghosts>>

\* Time passes during the delay; more than the window makes no difference.
Tick(c) ==
  /\ pc[c] = "wait" /\ elapsed[c] < RetryWindow
  /\ elapsed' = [elapsed EXCEPT ![c] = @ + 1]
  /\ UNCHANGED <<rest, pc, date, since, reading, anchor, carry, ghosts>>

\* The delay is over: the provider is asked again.
Retry(c) ==
  /\ pc[c] = "wait"
  /\ Goto(c, "fetch")
  /\ UNCHANGED <<rest, date, elapsed, since, reading, anchor, carry, ghosts>>

\* emit_with_price_check reads the anchor (again).
Check(c) ==
  /\ pc[c] = "check"
  /\ LET d == Anchor(date[c]) IN
     /\ anchor' = [anchor EXCEPT ![c] = d]
     /\ carry' = [carry EXCEPT ![c] = IF d = 0 THEN Nothing ELSE value[d]]
  /\ Goto(c, IF Deviates(date[c], reading[c]) THEN "approval" ELSE "clean")
  /\ UNCHANGED <<rest, date, elapsed, since, reading, ghosts>>

ReadApproval(c) ==
  /\ pc[c] = "approval"
  /\ Goto(c, IF ApprovedMatches(reading[c]) THEN "carry" ELSE "flag")
  /\ UNCHANGED <<rest, date, elapsed, since, reading, anchor, carry, ghosts>>

\* The call's locals are gone.
Return(c) ==
  /\ Goto(c, "idle")
  /\ date' = [date EXCEPT ![c] = 1] /\ elapsed' = [elapsed EXCEPT ![c] = 0]
  /\ since' = [since EXCEPT ![c] = Nothing]
  /\ reading' = [reading EXCEPT ![c] = Nothing]
  /\ anchor' = [anchor EXCEPT ![c] = 0]
  /\ carry' = [carry EXCEPT ![c] = Nothing]
  /\ late' = late \ {c}
  /\ UNCHANGED <<world, changes, closed, overlapped>>

\* Rows strictly between the anchor and the day of a clean snapshot.
Recovered(c) == IF anchor[c] = 0 THEN {} ELSE (anchor[c] + 1)..(date[c] - 1)

\* A clean snapshot: its row, the recovery of the rows before it, and the end
\* of whatever was queued.
PersistClean(c) ==
  /\ pc[c] = "clean" /\ ~closed
  /\ value' = [value EXCEPT ![date[c]] = reading[c]]
  /\ flagged' = (flagged \ {date[c]}) \ Recovered(c)
  /\ kept' = [d \in Date |-> Nothing]
  /\ review' = NoReview
  /\ accepted' = IF anchor[c] = 0 THEN accepted \cup {reading[c]} ELSE accepted
  /\ Return(c)

\* A reading the user has dealt with: the old balance again, flagged; the
\* replaced row takes its provider state with it.
PersistCarry(c) ==
  /\ pc[c] = "carry" /\ ~closed
  /\ value' = [value EXCEPT ![date[c]] = carry[c]]
  /\ flagged' = flagged \cup {date[c]}
  /\ kept' = [kept EXCEPT ![date[c]] = Nothing]
  /\ UNCHANGED <<review, accepted>>
  /\ Return(c)

\* Mutant: an approved review keeps its range.
UpsertedKeepsRange(d, v) ==
  IF review = NoReview
  THEN [decision |-> "IN_REVIEW", first |-> d, latest |-> d, provider |-> v]
  ELSE [decision |-> "IN_REVIEW", first |-> Min({d, review.first}),
        latest |-> Max({d, review.latest}), provider |-> v]

\* Mutant: the conflict clause leaves the reported balance alone.
UpsertedKeepsProvider(d, v) ==
  IF InReview
  THEN [review EXCEPT !.first = Min({d, @}), !.latest = Max({d, @})]
  ELSE [decision |-> "IN_REVIEW", first |-> d, latest |-> d,
        provider |-> IF Approved THEN review.provider ELSE v]

\* UpsertBalanceReview
Upserted(d, v) ==
  IF InReview
  THEN [review EXCEPT !.first = Min({d, @}), !.latest = Max({d, @}),
                      !.provider = v]
  ELSE [decision |-> "IN_REVIEW", first |-> d, latest |-> d, provider |-> v]

\* Mutant: the suspect balance is stored, only the holdings are carried.
PersistFlaggedReading(c) ==
  /\ pc[c] = "flag" /\ ~closed
  /\ value' = [value EXCEPT ![date[c]] = reading[c]]
  /\ flagged' = flagged \cup {date[c]}
  /\ kept' = [kept EXCEPT ![date[c]] = reading[c]]
  /\ review' = Upserted(date[c], reading[c])
  /\ UNCHANGED accepted
  /\ Return(c)

\* A suspect reading: the old balance again, flagged, with what the provider
\* reported kept beside it, and the account's review opened or widened.
PersistFlagged(c) ==
  /\ pc[c] = "flag" /\ ~closed
  /\ value' = [value EXCEPT ![date[c]] = carry[c]]
  /\ flagged' = flagged \cup {date[c]}
  /\ kept' = [kept EXCEPT ![date[c]] = reading[c]]
  /\ review' = Upserted(date[c], reading[c])
  /\ UNCHANGED accepted
  /\ Return(c)

\* Nothing is written for a closed account.
Skip(c) ==
  /\ pc[c] \in {"clean", "carry", "flag"} /\ closed
  /\ UNCHANGED <<snapshots, review, accepted>>
  /\ Return(c)

\* A fetch or a query fails, the request is dropped or the process stops.
Leave(c) ==
  /\ c \in Running
  /\ UNCHANGED <<snapshots, review, accepted>>
  /\ Return(c)

-----------------------------------------------------------------------------
(* The user *)

SetClosed ==
  /\ Change /\ closed' = ~closed
  /\ UNCHANGED <<world, snapshots, review, callVars, ghosts>>

Queued == {d \in flagged : d \in Span}

Without(dates) == [d \in Date |-> IF d \in dates THEN Nothing ELSE kept[d]]

\* approve_balance_review: the carried balances stand.
Approve ==
  /\ InReview /\ Queued # {}
  /\ review' = [review EXCEPT !.decision = "APPROVED_CHANGES"]
  /\ flagged' = flagged \ Queued
  /\ kept' = Without(Span)
  /\ late' = late \cup {c \in Sync : pc[c] = "flag"}
  /\ UNCHANGED <<world, changes, closed, value, callVars, overlapped, accepted>>

\* Mutant: the provider states of the restored rows stay.
UseProviderKeepsStates ==
  /\ InReview /\ Queued # {} /\ \A d \in Queued : kept[d] # Nothing
  /\ value' = [d \in Date |-> IF d \in Queued THEN kept[d] ELSE value[d]]
  /\ flagged' = flagged \ Queued
  /\ review' = NoReview
  /\ accepted' = accepted \cup {kept[d] : d \in Queued}
  /\ UNCHANGED <<world, changes, closed, kept, callVars, overlapped, late>>

\* use_provider_balance_review: what the provider reported replaces them.
UseProvider ==
  /\ InReview /\ Queued # {} /\ \A d \in Queued : kept[d] # Nothing
  /\ value' = [d \in Date |-> IF d \in Queued THEN kept[d] ELSE value[d]]
  /\ flagged' = flagged \ Queued
  /\ kept' = Without(Span)
  /\ review' = NoReview
  /\ accepted' = accepted \cup {kept[d] : d \in Queued}
  /\ UNCHANGED <<world, changes, closed, callVars, overlapped, late>>

\* update_account_snapshots of one row
Edit(d, v) ==
  /\ Change /\ value[d] # Nothing /\ ~InReview
  /\ value' = [value EXCEPT ![d] = v]
  /\ flagged' = flagged \ {d}
  /\ kept' = [e \in Date |-> Nothing]
  /\ review' = NoReview
  /\ accepted' = accepted \cup {v}
  /\ UNCHANGED <<world, closed, callVars, overlapped, late>>

-----------------------------------------------------------------------------
Step(c) ==
  \/ Fetch(c) \/ Probe(c) \/ ProbeApproval(c) \/ Retry(c) \/ Check(c)
  \/ ReadApproval(c) \/ PersistClean(c) \/ PersistCarry(c) \/ PersistFlagged(c)
  \/ Skip(c)

Next ==
  \/ Midnight \/ SetClosed \/ Approve \/ UseProvider
  \/ \E v \in Value : Move(v)
  \/ \E d \in Date, v \in Value : Edit(d, v)
  \/ \E c \in Sync : Start(c) \/ Step(c) \/ Tick(c) \/ Leave(c)

Spec == Init /\ [][Next]_vars

\* Time passes, delays end and queries return.
FairSpec == Spec /\ \A c \in Sync : WF_vars(Tick(c)) /\ WF_vars(Step(c))

-----------------------------------------------------------------------------
(* Properties *)

\* What the provider reported is kept only beside a flagged row that the
\* pending review covers, so resolving that review consumes or drops it, also
\* when calls overlap (persist_snapshot_in_transaction, reviews.rs,
\* snapshot_editor.rs).
StatesAreQueued ==
  \A d \in Date : kept[d] # Nothing => InReview /\ d \in Queued

\* A pending review can be resolved either way: it has a flagged row, and each
\* of its flagged rows still has what the provider reported, although rows
\* carried for an approved review are flagged without it (UpsertBalanceReview,
\* use_provider_balance_review).  Calls that overlap are excluded: a carry
\* decided before another call opened the review can land inside it.
Resolvable ==
  ~overlapped /\ InReview =>
    Queued # {} /\ \A d \in Queued : kept[d] # Nothing

\* A chain of changes that are not suspect leads from a member of A to v: v is
\* in every set that has A and that no such change leaves.
Follows(A, v) ==
  \A S \in SUBSET Value :
    A \subseteq S /\ (\A u \in S, w \in Value \ S : <<u, w>> \in Suspect)
      => v \in S

\* A balance is shown only when a chain of ordinary changes leads to it from
\* the first reading of an account without history or from what the user
\* entered or took from the provider: a suspect jump never reaches a snapshot
\* by itself, whatever is approved, edited, carried or recovered while a call
\* is between its anchor and its write (flagging.rs, snapshot_persist).
NoSuspectJump ==
  \A d \in Date : value[d] # Nothing => Follows(accepted, value[d])

\* Every balance carried forward has a trusted one before it, so the check of
\* the next reading always has an anchor and a history never begins with a
\* suspect row, also when calls that started on different days overlap
\* (latest_unflagged_snapshot_with_holdings, emit_with_price_check).
HistoryIsAnchored == \A d \in flagged : Trusted(d) # {}

\* A balance the user has approved is not queued again, except by a call that
\* had made up its mind before the approval (approved_review_matches).
AskedOnce ==
  [][Approved /\ review'.decision = "IN_REVIEW"
       /\ review'.provider = review.provider
     => \E c \in late : pc[c] = "flag" /\ pc'[c] = "idle"]_vars

\* A wallet whose reading is suspect is retried for the length of the window
\* and then settled (docs/crypto-tracking.md).
RetriesEnd ==
  \A c \in Sync :
    pc[c] = "wait" /\ elapsed[c] = RetryWindow ~> pc[c] = "idle"
=============================================================================
