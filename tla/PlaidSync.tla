----------------------------- MODULE PlaidSync -----------------------------
(***************************************************************************)
(* Cursor sync of the transactions of one Plaid item with one account      *)
(* (transactions/sync/plaid.rs), the callers that may run it at the same   *)
(* time, and the operations that change what it reads or has written:      *)
(* hiding the account or single rows, and linking the item again.          *)
(*                                                                         *)
(* The provider is external.  It publishes numbered versions of the item's *)
(* transactions; a cursor is the number of the version it was given for    *)
(* and 0 stands for the empty cursor.  A page for cursor c carries the     *)
(* rows that changed in the next PageSize versions, as they are at its end.*)
(*                                                                         *)
(* One query or one with_tx closure is one step: other callers run between *)
(* any two of them.                                                        *)
(***************************************************************************)
EXTENDS Naturals, FiniteSets

CONSTANTS
  Txn,            \* external ids of transactions
  Content,        \* what the provider can say of one (amount, dates, name)
  Absent,         \* the provider, or the ledger, has no such transaction
  Hourly,         \* the hourly loop's call, if it runs (SYNC_OFF is unset)
  Event,          \* the account-event loop's call
  Request,        \* completeLinkUpdate requests
  PageSize,       \* versions one page spans
  MaxTries,       \* MAX_SYNC_PAGINATION_RESTARTS
  MaxChanges,     \* bound: versions the provider publishes
  MaxRelinks,     \* bound: times the item is linked again
  Apart           \* bound: rows that the user or a rule hides or shows singly

Call == Hourly \cup Event \cup Request

ASSUME CallAssumption ==
  Hourly \cap Event = {} /\ Hourly \cap Request = {} /\ Event \cap Request = {}
ASSUME AbsentAssumption == Absent \notin Content
ASSUME BoundAssumption ==
  /\ PageSize \in Nat \ {0} /\ MaxTries \in Nat \ {0}
  /\ MaxChanges \in Nat /\ MaxRelinks \in Nat /\ Apart \subseteq Txn

VARIABLES
  history,        \* versions the provider has published
  latest,         \* number of the last one
  content,        \* the item's rows in the transactions table
  hidden,         \* rows whose is_hidden flag is set
  accountHidden,  \* the account's is_hidden flag
  cursor,         \* plaid_items.cursor
  due,            \* plaid_items.next_sync_at has passed
  health,         \* plaid_items.health_state
  announced,      \* an AccountsCreated event waits for the event loop
  pc,             \* where a call is
  at,             \* the cursor a call holds
  to,             \* end of the page it fetched
  more,           \* has_more of that page
  tries,          \* restarts of its pagination
  hide,           \* its snapshot of the hidden accounts has the account
  faulty,         \* calls, requests and the process may still fail
  relinks,        \* bound: number of links made again
  position,       \* history: end of the last page persisted
  overlapped,     \* history: a call started while another was running
  own,            \* history: rows whose flag is the user's or a rule's choice
                  \*   for them alone, and not the account's
  stale           \* history: rows inserted by a call that read the account's
                  \*   flag before the user changed it

external == <<history, latest>>
item == <<cursor, due, health, announced>>
table == <<content, hidden, accountHidden>>
callVars == <<pc, at, to, more, tries, hide>>
ghosts == <<position, overlapped, own, stale>>
vars == <<external, table, item, callVars, faulty, relinks, ghosts>>

State == [Txn -> Content \cup {Absent}]

TypeOK ==
  /\ latest \in Nat /\ history \in [0..latest -> State]
  /\ content \in State /\ hidden \subseteq Txn /\ accountHidden \in BOOLEAN
  /\ cursor \in 0..latest /\ due \in BOOLEAN
  /\ health \in {"healthy", "error"} /\ announced \in BOOLEAN
  /\ pc \in [Call -> {"idle", "load", "accounts", "fetch", "persist",
                      "advance", "health"}]
  /\ at \in [Call -> 0..latest] /\ to \in [Call -> 0..latest]
  /\ more \in [Call -> BOOLEAN]
  /\ tries \in [Call -> 0..(MaxTries - 1)] /\ hide \in [Call -> BOOLEAN]
  /\ faulty \in BOOLEAN /\ relinks \in Nat
  /\ position \in 0..latest /\ overlapped \in BOOLEAN
  /\ own \subseteq Txn /\ stale \subseteq Txn

Running == {c \in Call : pc[c] # "idle"}
Present == {t \in Txn : content[t] # Absent}

\* A freshly linked item: its AccountsCreated event may have been dropped.
Init ==
  /\ latest = 0
  /\ content = [t \in Txn |-> Absent] /\ history = [k \in {0} |-> content]
  /\ hidden = {} /\ accountHidden = FALSE
  /\ cursor = 0 /\ due = FALSE /\ health = "healthy" /\ announced \in BOOLEAN
  /\ pc = [c \in Call |-> "idle"]
  /\ at = [c \in Call |-> 0] /\ to = [c \in Call |-> 0]
  /\ more = [c \in Call |-> FALSE] /\ tries = [c \in Call |-> 0]
  /\ hide = [c \in Call |-> FALSE]
  /\ faulty = TRUE /\ relinks = 0
  /\ position = 0 /\ overlapped = FALSE /\ own = {} /\ stale = {}

-----------------------------------------------------------------------------
(* The provider and the clock *)

\* One transaction is added, modified or removed.
Publish ==
  /\ latest < MaxChanges
  /\ latest' = latest + 1
  /\ \E t \in Txn, new \in Content \cup {Absent} :
       /\ new # history[latest][t]
       /\ history' = [k \in 0..latest' |->
                        IF k = latest' THEN [history[latest] EXCEPT ![t] = new]
                        ELSE history[k]]
  /\ UNCHANGED <<table, item, callVars, faulty, relinks, ghosts>>

\* The item's cron time arrives.
Tick ==
  /\ ~due /\ due' = TRUE
  /\ UNCHANGED <<external, table, cursor, health, announced, callVars, faulty,
                 relinks, ghosts>>

-----------------------------------------------------------------------------
(* The user *)

\* update_account: the flag and every row of the account, in one transaction,
\* also when the flag is what it was.
SetHidden(flag) ==
  /\ accountHidden' = flag
  /\ hidden' = IF flag THEN Present ELSE {}
  /\ own' = {} /\ stale' = {}
  /\ UNCHANGED <<external, content, item, callVars, faulty, relinks, position,
                 overlapped>>

\* update_transaction, bulk_update_transactions, a rule applied to the rows that
\* are there: the flag of single rows, whatever their account's is.
SetRowsHidden(ids, flag) ==
  /\ ids \subseteq Present
  /\ hidden' = IF flag THEN hidden \cup ids ELSE hidden \ ids
  /\ own' = IF flag = accountHidden THEN own \ ids ELSE own \cup ids
  /\ stale' = stale \ ids
  /\ UNCHANGED <<external, content, accountHidden, item, callVars, faulty,
                 relinks, position, overlapped>>

\* exchange_public_token on a known item: reset_item_sync forgets the cursor;
\* the event is lost when the request is dropped first or the bus is full.
Relink ==
  /\ relinks < MaxRelinks /\ relinks' = relinks + 1
  /\ cursor' = 0
  /\ \E published \in BOOLEAN : announced' = (announced \/ published)
  /\ UNCHANGED <<external, table, due, health, callVars, faulty, ghosts>>

-----------------------------------------------------------------------------
(* One sync call: sync_inner and sync_pages *)

Goto(c, label) == pc' = [pc EXCEPT ![c] = label]

Begin(c) ==
  /\ pc[c] = "idle"
  /\ Goto(c, "load")
  /\ overlapped' = (overlapped \/ Running # {})
  /\ UNCHANGED <<external, table, cursor, due, health, at, to, more, tries,
                 hide, faulty, relinks, position, own, stale>>

\* Mutant: the hourly pass leaves out items whose last sync failed.
StartHourlyHealthyOnly(c) ==
  /\ c \in Hourly /\ due /\ health = "healthy"
  /\ Begin(c) /\ UNCHANGED announced

\* sync_due: the item is among those whose next_sync_at has passed.
StartHourly(c) == c \in Hourly /\ due /\ Begin(c) /\ UNCHANGED announced

\* sync_account_created, after the initial delay.
StartEvent(c) == c \in Event /\ announced /\ announced' = FALSE /\ Begin(c)

\* complete_link_update
StartRequest(c) == c \in Request /\ Begin(c) /\ UNCHANGED announced

\* Mutant: the stored cursor is taken for unset.
LoadCursorUnset(c) ==
  /\ pc[c] = "load"
  /\ at' = [at EXCEPT ![c] = 0]
  /\ Goto(c, "accounts")
  /\ UNCHANGED <<external, table, item, to, more, tries, hide, faulty, relinks,
                 ghosts>>

LoadCursor(c) ==
  /\ pc[c] = "load"
  /\ at' = [at EXCEPT ![c] = cursor]
  /\ Goto(c, "accounts")
  /\ UNCHANGED <<external, table, item, to, more, tries, hide, faulty, relinks,
                 ghosts>>

\* The hidden accounts are read once, before the first page.
LoadHidden(c) ==
  /\ pc[c] = "accounts"
  /\ hide' = [hide EXCEPT ![c] = accountHidden]
  /\ Goto(c, "fetch")
  /\ UNCHANGED <<external, table, item, at, to, more, tries, faulty, relinks,
                 ghosts>>

PageEnd(from) ==
  IF from + PageSize < latest THEN from + PageSize ELSE latest

\* The provider answers /transactions/sync for the cursor the call holds.
Fetch(c) ==
  /\ pc[c] = "fetch"
  /\ to' = [to EXCEPT ![c] = PageEnd(at[c])]
  /\ more' = [more EXCEPT ![c] = PageEnd(at[c]) < latest]
  /\ tries' = [tries EXCEPT ![c] = 0]
  /\ Goto(c, "persist")
  /\ UNCHANGED <<external, table, item, at, hide, faulty, relinks, ghosts>>

\* Mutant: one restart more than MAX_SYNC_PAGINATION_RESTARTS allows.
MutatedOnceMore(c) ==
  /\ pc[c] = "fetch" /\ faulty /\ tries[c] < MaxTries
  /\ tries' = [tries EXCEPT ![c] = @ + 1]
  /\ UNCHANGED <<external, table, item, pc, at, to, more, hide, faulty,
                 relinks, ghosts>>

\* TRANSACTIONS_SYNC_MUTATION_DURING_PAGINATION: the same page is asked again.
Mutated(c) ==
  /\ pc[c] = "fetch" /\ faulty /\ tries[c] + 1 < MaxTries
  /\ tries' = [tries EXCEPT ![c] = @ + 1]
  /\ UNCHANGED <<external, table, item, pc, at, to, more, hide, faulty,
                 relinks, ghosts>>

\* Rows with different content in two of these versions: those that a page
\* from one to the other reports as added, modified or removed.
Touched(from, upto) ==
  {t \in Txn : \E j, k \in from..upto : history[j][t] # history[k][t]}

\* Mutant: removals of the page are not applied.
AppliedUpsertsOnly(from, upto) ==
  [t \in Txn |-> IF t \in Touched(from, upto) /\ history[upto][t] # Absent
                 THEN history[upto][t] ELSE content[t]]

\* The rows after one page: its removals and upserts, in one transaction.
Applied(from, upto) ==
  [t \in Txn |-> IF t \in Touched(from, upto) THEN history[upto][t]
                 ELSE content[t]]

\* Rows that are there before and after a page keep what they were marked with.
KeptOf(rows) == {t \in rows \cap Present : content'[t] # Absent}
Inserted == {t \in Txn \ Present : content'[t] # Absent}

\* Mutant: a new row of a hidden account is stored visible.
HiddenAfterVisible(c, ruled) == KeptOf(hidden) \cup (Inserted \cap ruled)

\* is_hidden is set when a row is inserted, for its account or by a rule that
\* matches it, and kept when it is updated.
HiddenAfter(c, ruled) ==
  KeptOf(hidden) \cup {t \in Inserted : hide[c] \/ t \in ruled}

Persist(c) ==
  /\ pc[c] = "persist"
  /\ content' = Applied(at[c], to[c])
  /\ \E ruled \in SUBSET Apart :
       /\ hidden' = HiddenAfter(c, ruled)
       /\ own' = KeptOf(own) \cup {t \in Inserted : t \in ruled /\ ~hide[c]}
  /\ stale' = KeptOf(stale) \cup {t \in Inserted : hide[c] # accountHidden}
  /\ position' = to[c]
  /\ Goto(c, "advance")
  /\ UNCHANGED <<external, accountHidden, item, at, to, more, tries, hide,
                 faulty, relinks, overlapped>>

\* set_sync_cursor: an empty next_cursor leaves the stored one alone.
Advance(c) ==
  /\ pc[c] = "advance"
  /\ cursor' = IF to[c] = 0 THEN cursor ELSE to[c]
  /\ due' = FALSE
  /\ Goto(c, "health")
  /\ UNCHANGED <<external, table, health, announced, at, to, more, tries, hide,
                 faulty, relinks, ghosts>>

\* The call's locals are gone.
Return(c) ==
  /\ Goto(c, "idle")
  /\ at' = [at EXCEPT ![c] = 0] /\ to' = [to EXCEPT ![c] = 0]
  /\ more' = [more EXCEPT ![c] = FALSE] /\ tries' = [tries EXCEPT ![c] = 0]
  /\ hide' = [hide EXCEPT ![c] = FALSE]

\* set_plaid_item_health, then the next page or the end.
NextPage(c) ==
  /\ pc[c] = "health" /\ more[c]
  /\ health' = "healthy"
  /\ at' = [at EXCEPT ![c] = to[c]]
  /\ Goto(c, "fetch")
  /\ UNCHANGED <<external, table, cursor, due, announced, to, more, tries, hide,
                 faulty, relinks, ghosts>>

Finish(c) ==
  /\ pc[c] = "health" /\ ~more[c]
  /\ health' = "healthy"
  /\ Return(c)
  /\ UNCHANGED <<external, table, cursor, due, announced, faulty, relinks,
                 ghosts>>

-----------------------------------------------------------------------------
(* Failures *)

\* Mutant: a failed write of the page does not keep the cursor back.
FailsAndAdvances(c) ==
  /\ c \in Running /\ faulty
  /\ health' = "error"
  /\ cursor' = IF pc[c] = "persist" THEN to[c] ELSE cursor
  /\ Return(c)
  /\ UNCHANGED <<external, table, due, announced, faulty, relinks, ghosts>>

\* A provider error, pagination mutated too often, or a failed query; a
\* failing persist rolls its transaction back.
Fails(c) ==
  /\ c \in Running /\ faulty
  /\ health' = "error"
  /\ Return(c)
  /\ UNCHANGED <<external, table, cursor, due, announced, faulty, relinks,
                 ghosts>>

\* The request's 55 s budget ends at one of its awaits.
Drop(c) ==
  /\ c \in Request \cap Running /\ faulty
  /\ Return(c)
  /\ UNCHANGED <<external, table, item, faulty, relinks, ghosts>>

\* The process dies; tables stay, calls and queued events are gone.
Crash ==
  /\ faulty
  /\ announced' = FALSE
  /\ pc' = [c \in Call |-> "idle"]
  /\ at' = [c \in Call |-> 0] /\ to' = [c \in Call |-> 0]
  /\ more' = [c \in Call |-> FALSE] /\ tries' = [c \in Call |-> 0]
  /\ hide' = [c \in Call |-> FALSE]
  /\ UNCHANGED <<external, table, cursor, due, health, faulty, relinks, ghosts>>

\* From here on nothing fails (for liveness).
FaultsEnd ==
  /\ faulty /\ faulty' = FALSE
  /\ UNCHANGED <<external, table, item, callVars, relinks, ghosts>>

-----------------------------------------------------------------------------
Step(c) ==
  \/ LoadCursor(c) \/ LoadHidden(c) \/ Fetch(c) \/ Persist(c) \/ Advance(c)
  \/ NextPage(c) \/ Finish(c)

Next ==
  \/ Publish \/ Tick \/ Relink \/ Crash \/ FaultsEnd
  \/ \E flag \in BOOLEAN :
       SetHidden(flag) \/ \E ids \in (SUBSET Apart) \ {{}} : SetRowsHidden(ids, flag)
  \/ \E c \in Call :
       \/ StartHourly(c) \/ StartEvent(c) \/ StartRequest(c)
       \/ Step(c) \/ Mutated(c) \/ Fails(c) \/ Drop(c)

Spec == Init /\ [][Next]_vars

\* The hourly loop keeps running, on a server without SYNC_OFF whose transaction
\* tracking is not disabled (syncer.rs:79), and time passes; providers answer and
\* queries return once faults end, which they do.
FairSpec ==
  /\ Spec
  /\ WF_vars(Tick) /\ WF_vars(FaultsEnd)
  /\ \A c \in Call : WF_vars(Step(c)) /\ WF_vars(StartHourly(c))

-----------------------------------------------------------------------------
(* Properties *)

\* Rows as old as version v or newer, each of its own.
NotOlder(v) == \A t \in Txn : \E k \in v..latest : content[t] = history[k][t]

\* No row is older than the stored cursor, so no change is lost for good:
\* pages are written before the cursor moves, whatever fails in between and
\* however often the item is linked again (sync_pages).  Calls of the same
\* item that overlap are excluded: nothing in the code keeps them apart.
NothingMissed == ~overlapped => NotOlder(cursor)

\* Until the item is linked again its rows are exactly the version of the last
\* page written, never a mixture, also when a page is written twice because
\* the cursor was not stored after it (sync_pages).
OneVersion == ~overlapped /\ relinks = 0 => content = history[position]

\* A row is hidden exactly when its account is, unless the user or a rule has
\* since said otherwise of that row: pages that update it, replay it or insert
\* it anew do not change that (update_account, update_transaction, the insert
\* and the conflict clause of the upsert).  Excused is a row that was inserted
\* by a sync which had read the account's flag before it was changed, until
\* either flag is set again: plaid.rs:195 reads it once.
HiddenFollowsAccount ==
  \A t \in Present \ stale : t \in hidden <=> accountHidden # (t \in own)

\* Rows move from one version of the provider's data to the same or a later
\* one: a call, a crash or a repeated page never takes them back (sync_pages).
Mirror == INSTANCE ProviderMirror WITH shown <- content
MirrorsProvider == Mirror!Spec

\* Every row is one the provider published, also when calls overlap, pages are
\* written twice or the item is linked again: what a page does not touch stays.
RowsArePublished == NotOlder(0)

\* Only a new link takes the stored cursor back, unless calls of the item
\* overlap: a late or repeated page never rewinds it (set_sync_cursor).
OnlyALinkRewinds ==
  [][~overlapped' /\ cursor' < cursor => relinks' > relinks]_cursor

\* However many callers an item has, the rows are a mirror of the provider's
\* versions for as long as no two calls overlap and no link is made again.
MirrorsUndisturbed ==
  [][~overlapped' /\ relinks' = 0 => Mirror!Next]_(Mirror!vars)

\* A sync that ends without an error leaves the provider's latest version, unless
\* it changed after the last page was fetched: also after a new link, a restart
\* or a page that an earlier call wrote without its cursor (sync_pages).
SyncEndsCurrent ==
  [][\A c \in Call : Finish(c) /\ ~overlapped /\ to[c] = latest =>
       content = history[latest]]_vars

\* Once the provider is quiet and nothing fails, the rows become its latest
\* version and the item's error clears, without anyone's help.
Converges == <>[](content = history[latest] /\ health = "healthy")
=============================================================================
