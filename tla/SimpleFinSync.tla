--------------------------- MODULE SimpleFinSync ---------------------------
(***************************************************************************)
(* The transactions of one SimpleFIN access token.  There is no cursor:    *)
(* every sync reads a window of days again, writes what it shows, and      *)
(* removes the pending rows it no longer shows.  The hourly loop and the   *)
(* loop for newly linked accounts may sync the token at the same time.     *)
(***************************************************************************)
EXTENDS Integers, FiniteSets

CONSTANTS Txn,       \* transactions as the bank identifies them
          Hold,      \* those that begin as a pending hold
          Settles,   \* Settles[h]: the transaction that replaces hold h
          Caller,    \* calls of sync that may run at once
          Overlap,   \* days a window reaches back before the last sync (14)
          Lookback,  \* days the first window reaches back (89)
          Lag,       \* the bank shows a transaction at most so many days late
          Lasts,     \* a call is over within so many days
          Never,     \* the token has not been synced
          MaxDay,    \* bound: days
          MaxResets  \* bound: resets by the user

ASSUME SettlesAssumption ==
  /\ Hold \subseteq Txn
  /\ Settles \in [Hold -> Txn \ Hold]
  /\ \A g, h \in Hold : Settles[g] = Settles[h] => g = h
ASSUME WindowAssumption ==
  /\ {Overlap, Lookback, Lag, Lasts, MaxDay, MaxResets} \subseteq Nat
  /\ Lag + Lasts <= Overlap /\ Overlap <= Lookback
  /\ Never \notin Int

Day == 0..MaxDay

VARIABLES day,
          \* The bank:
          bank,      \* what it says of each transaction
          date,      \* the day a transaction is dated
          \* The database:
          rows,      \* what the transactions table says
          last,      \* last_synced_at
          due,       \* next_sync_at has passed, or is null
          \* A call of sync_inner:
          pc, began, page, partial, held,
          \* History and bounds:
          crossed,   \* calls during which another one ran
          clean,     \* the last write came from a call that was alone and complete
          reach,     \* when the last completed sync began
          gap,       \* a first window, or one after a reset, left out days
          resets

provider == <<bank, date>>
calls == <<pc, began, page, partial, held>>
vars == <<day, provider, rows, last, due, calls, crossed, clean, reach, gap, resets>>

Status == {"none", "pending", "posted"}

Running == {c \in Caller : pc[c] # "idle"}

Init ==
  /\ day = 0 /\ bank = [t \in Txn |-> "none"] /\ date = [t \in Txn |-> 0]
  /\ rows = [t \in Txn |-> "none"] /\ last = Never /\ due = TRUE
  /\ pc = [c \in Caller |-> "idle"] /\ began = [c \in Caller |-> <<0, 0>>]
  /\ page = [c \in Caller |-> [t \in Txn |-> "none"]]
  /\ partial = [c \in Caller |-> FALSE] /\ held = [c \in Caller |-> {}]
  /\ crossed = {} /\ clean = TRUE /\ reach = Never /\ gap = FALSE /\ resets = 0

-----------------------------------------------------------------------------
\* The bank.

Dated(t, d) == date' = [date EXCEPT ![t] = d]

\* A transaction shows up, dated some days ago.
Appear(t, d) ==
  /\ bank[t] = "none" /\ \A h \in Hold : Settles[h] # t
  /\ d <= day /\ day <= d + Lag
  /\ bank' = [bank EXCEPT ![t] = IF t \in Hold THEN "pending" ELSE "posted"]
  /\ Dated(t, d)
  /\ UNCHANGED <<day, rows, last, due, calls, crossed, clean, reach, gap, resets>>

\* A hold is replaced by the transaction it settles as, or simply released.
Settle(h, d) ==
  /\ bank[h] = "pending" /\ d <= day /\ day <= d + Lag
  /\ bank' = [bank EXCEPT ![h] = "gone", ![Settles[h]] = "posted"]
  /\ Dated(Settles[h], d)
  /\ UNCHANGED <<day, rows, last, due, calls, crossed, clean, reach, gap, resets>>

\* The hold becomes a posted transaction of the same name.
Post(h, d) ==
  /\ bank[h] = "pending" /\ d <= day /\ day <= d + Lag
  /\ bank' = [bank EXCEPT ![h] = "posted"]
  /\ Dated(h, d)
  /\ UNCHANGED <<day, rows, last, due, calls, crossed, clean, reach, gap, resets>>

Release(h) ==
  /\ bank[h] = "pending"
  /\ bank' = [bank EXCEPT ![h] = "gone"]
  /\ UNCHANGED <<day, date, rows, last, due, calls, crossed, clean, reach, gap, resets>>

\* A day passes; no call lasts longer than its time-outs let it.
Tick ==
  /\ day < MaxDay
  /\ \A c \in Running : day < began[c][1] + Lasts
  /\ day' = day + 1
  /\ UNCHANGED <<provider, rows, last, due, calls, crossed, clean, reach, gap, resets>>

-----------------------------------------------------------------------------
\* The sync.

\* Mutant: a window begins at the last sync.
StartDateAtLast(l, now) == IF l = Never THEN now - Lookback ELSE l

\* start_date
StartDate(l, now) == IF l = Never THEN now - Lookback ELSE l - Overlap

\* sync_due for a token that is due, or sync_connection_into for an event: the
\* token is read, the clock too.
Start(c, event) ==
  /\ pc[c] = "idle" /\ (due \/ event)
  /\ pc' = [pc EXCEPT ![c] = "fetch"]
  /\ began' = [began EXCEPT ![c] = <<day, StartDate(last, day)>>]
  /\ crossed' = IF Running = {} THEN crossed \ {c} ELSE crossed \cup Running \cup {c}
  /\ gap' = (gap \/ StartDate(last, day) > IF reach = Never THEN 0 ELSE reach - Overlap)
  /\ UNCHANGED <<day, provider, rows, last, due, page, partial, held, clean, reach, resets>>

\* get_accounts with pending=1: the window's transactions, or, with an error of
\* the bank, some of them.
Shown(from) == [t \in Txn |-> IF bank[t] \in {"pending", "posted"} /\ date[t] >= from
                                THEN bank[t] ELSE "none"]

Answer(c, missing, errors) ==
  /\ pc[c] = "fetch"
  /\ page' = [page EXCEPT ![c] = [t \in Txn |-> IF t \in missing THEN "none"
                                                  ELSE Shown(began[c][2])[t]]]
  /\ partial' = [partial EXCEPT ![c] = errors]
  /\ pc' = [pc EXCEPT ![c] = "pending"]
  /\ UNCHANGED <<day, provider, rows, last, due, began, held, crossed, clean, reach, gap, resets>>

FetchAll(c) == Answer(c, {}, FALSE)
FetchSome(c) == \E missing \in SUBSET Txn : Answer(c, missing, TRUE)

\* Mutant: the rows of the token, pending or not.
ReadRows(c) ==
  /\ pc[c] = "pending"
  /\ held' = [held EXCEPT ![c] = {t \in Txn : rows[t] # "none"}]
  /\ pc' = [pc EXCEPT ![c] = "persist"]
  /\ UNCHANGED <<day, provider, rows, last, due, began, page, partial, crossed, clean,
                 reach, gap, resets>>

\* pending_simple_fin_transaction_ids, after the connections have been linked
\* and their health noted.
ReadPending(c) ==
  /\ pc[c] = "pending"
  /\ held' = [held EXCEPT ![c] = {t \in Txn : rows[t] = "pending"}]
  /\ pc' = [pc EXCEPT ![c] = "persist"]
  /\ UNCHANGED <<day, provider, rows, last, due, began, page, partial, crossed, clean,
                 reach, gap, resets>>

Fetched(c) == {t \in Txn : page[c][t] # "none"}

Removed(c) == IF partial[c] THEN {} ELSE held[c] \ Fetched(c)

\* Mutant: only upserts are written.
WrittenUpserts(c) ==
  [t \in Txn |-> IF t \in Fetched(c) THEN page[c][t] ELSE rows[t]]

\* The upserts and then the removals of the page.
Written(c) ==
  [t \in Txn |-> CASE t \in Removed(c) -> "none"
                   [] t \in Fetched(c) -> page[c][t]
                   [] OTHER -> rows[t]]

Idle(c) == /\ pc' = [pc EXCEPT ![c] = "idle"]
           /\ began' = [began EXCEPT ![c] = <<0, 0>>]
           /\ page' = [page EXCEPT ![c] = [t \in Txn |-> "none"]]
           /\ partial' = [partial EXCEPT ![c] = FALSE]
           /\ held' = [held EXCEPT ![c] = {}]

\* Persister::persist, one transaction.  After a partial answer the token stays
\* as it is: due, with the same window.
Persist(c) ==
  /\ pc[c] = "persist"
  /\ rows' = Written(c)
  /\ clean' = (c \notin crossed /\ ~partial[c])
  /\ IF partial[c] THEN Idle(c)
       ELSE /\ pc' = [pc EXCEPT ![c] = "synced"]
            /\ UNCHANGED <<began, page, partial, held>>
  /\ UNCHANGED <<day, provider, last, due, crossed, reach, gap, resets>>

\* Mutant: the start of the window is stored as the time of the sync.
SetSyncedWindow(c) ==
  /\ pc[c] = "synced"
  /\ last' = began[c][2] /\ due' = FALSE
  /\ reach' = began[c][1]
  /\ Idle(c)
  /\ UNCHANGED <<day, provider, rows, crossed, clean, gap, resets>>

\* set_simple_fin_token_synced, with the time the sync began.
SetSynced(c) ==
  /\ pc[c] = "synced"
  /\ last' = began[c][1] /\ due' = FALSE
  /\ reach' = began[c][1]
  /\ Idle(c)
  /\ UNCHANGED <<day, provider, rows, crossed, clean, gap, resets>>

\* Any query or the request fails; the token stays due.
Fail(c) ==
  /\ pc[c] # "idle"
  /\ Idle(c)
  /\ UNCHANGED <<day, provider, rows, last, due, crossed, clean, reach, gap, resets>>

\* The process ends: all calls are gone.
Crash ==
  /\ Running # {}
  /\ pc' = [c \in Caller |-> "idle"] /\ began' = [c \in Caller |-> <<0, 0>>]
  /\ page' = [c \in Caller |-> [t \in Txn |-> "none"]]
  /\ partial' = [c \in Caller |-> FALSE] /\ held' = [c \in Caller |-> {}]
  /\ UNCHANGED <<day, provider, rows, last, due, crossed, clean, reach, gap, resets>>

\* next_sync_at passes.
Schedule ==
  /\ ~due
  /\ due' = TRUE
  /\ UNCHANGED <<day, provider, rows, last, calls, crossed, clean, reach, gap, resets>>

\* resetSimpleFinSync: last_synced_at and next_sync_at become null.
Reset ==
  /\ resets < MaxResets
  /\ last' = Never /\ due' = TRUE /\ resets' = resets + 1
  /\ UNCHANGED <<day, provider, rows, calls, crossed, clean, reach, gap>>

Sync(c) == FetchAll(c) \/ FetchSome(c) \/ ReadPending(c) \/ Persist(c) \/ SetSynced(c)

Next ==
  \/ \E t \in Txn, d \in Day : Appear(t, d)
  \/ \E h \in Hold : (\E d \in Day : Settle(h, d) \/ Post(h, d)) \/ Release(h)
  \/ \E c \in Caller : (\E e \in BOOLEAN : Start(c, e)) \/ Sync(c) \/ Fail(c)
  \/ Tick \/ Crash \/ Schedule \/ Reset

Spec == Init /\ [][Next]_vars

-----------------------------------------------------------------------------
\* Every variable of the bank, the table, the token and the calls keeps its type;
\* a row is never more than pending or posted (upsert_synced_transaction), and the
\* stored time of a sync is a day that was, which the start of a window need not be
\* (set_simple_fin_token_synced).
TypeOK ==
  /\ day \in Day /\ resets \in 0..MaxResets
  /\ bank \in [Txn -> Status \cup {"gone"}] /\ date \in [Txn -> Day]
  /\ rows \in [Txn -> Status] /\ last \in Day \cup {Never} /\ reach \in Day \cup {Never}
  /\ {due, clean, gap} \subseteq BOOLEAN /\ crossed \subseteq Caller
  /\ pc \in [Caller -> {"idle", "fetch", "pending", "persist", "synced"}]
  /\ began \in [Caller -> Day \X Int] /\ page \in [Caller -> [Txn -> Status]]
  /\ partial \in [Caller -> BOOLEAN] /\ held \in [Caller -> SUBSET Txn]

\* A hold and the transaction it settled as are never both in the table after a
\* complete answer was written by a call that ran alone.
NotTwice ==
  clean => \A h \in Hold : rows[h] = "none" \/ rows[Settles[h]] = "none"

\* What the bank has posted and the table lacks is dated within the next
\* window, however calls overlapped, failed and were repeated, unless a reset
\* or a first sync has left days out.
MissingIsAhead ==
  (last # Never /\ ~gap)
    => \A t \in Txn : bank[t] = "posted" /\ rows[t] = "none"
                       => date[t] >= StartDate(last, day)

\* The table says nothing that the bank has not said: what is posted there is
\* posted at the bank, and no row is pending that the bank never showed, however
\* old the page that was written last (upsert_synced_transaction).
RowsWereReported ==
  \A t \in Txn : /\ rows[t] # "none" => bank[t] # "none"
                 /\ rows[t] = "posted" => bank[t] = "posted"

\* A posted row never becomes pending again, unless calls overlap: the page of
\* a call that runs alone is never older than the table (Persister::persist).
PostedStaysPosted ==
  [][\A t \in Txn : rows[t] = "posted" /\ rows'[t] # "posted"
       => crossed \cap Running # {}]_vars

\* A posted row is only removed by a call that overlaps with another one.
PostedIsKept ==
  [][\A t \in Txn : rows[t] = "posted" /\ rows'[t] = "none"
       => crossed \cap Running # {}]_vars

\* A complete answer written by a call that no other one crossed leaves the rows
\* exactly as that answer showed them, except for posted ones older than its
\* window: what it does not name is not left pending (Persister::persist).
WindowIsMirrored ==
  [][\A c \in Caller : Persist(c) /\ c \notin crossed /\ ~partial[c] =>
       \A t \in Txn : \/ rows'[t] = page[c][t]
                      \/ rows'[t] = "posted" /\ date[t] < began[c][2]]_vars

=============================================================================
