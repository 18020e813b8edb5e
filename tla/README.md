# Tallyo: models, checks and proofs

This directory holds a TLA+ development of the server of Tallyo, the
self-hosted finance tracker whose Rust sources are in `src/server-rs`. It models
the parts of the server where several actors change the same rows and where the
order of steps decides what a user sees: the categorization of transactions in
the background, the incremental sync with Plaid and the windows of SimpleFIN,
the tokens of the built-in OAuth server, the sign-in sessions, the daily balance
snapshots with their reviews, the runtime configuration, and the files of the
database under the three commands of the program.

Each of these has a module that follows the code handler by handler, a small
instance that TLC explores completely, and a module of proofs that TLAPS checks
for every value of the constants. Four components also have an abstract
specification, which the detailed one is shown to implement.

Paths below are relative to `src/server-rs/src` unless they begin with `docs/`
or `src/`. The line ranges each definition stands for are in `PROJECT.json`.

## 1. The system

One process serves one SQLite file. Everything it keeps is in that file, except
for a few cells of memory: the LLM categorizer, the token lock, the runtime
configuration cache, the channels between tasks and the rate limiter's windows.
The pool holds a single connection, so a query, or all queries of a
`database::with_tx` closure (`database/transaction.rs`), run without another
query in between. Between two queries of a handler, anything may run.

The actors:

| actor | where | stops when |
| --- | --- | --- |
| GraphQL and OAuth requests | `handler/graphql.rs`, `auth/oauth.rs` | answered; a GraphQL request is dropped at an await after 55 s (`QUERY_TIMEOUT`) |
| hourly transaction sync | `transactions/sync/syncer.rs` | the process ends |
| hourly balance sync | `wealth/balancesync/syncer.rs` | the process ends |
| loops for newly linked accounts | `run_account_events` of both syncers | the process ends |
| LLM worker | `transactions/sync/llm_worker.rs` | the process ends |
| recurring sync, token cleanup, retention sweep, optimizer | `bootstrap.rs` 201-246 | the process ends |

The process itself can stop between any two queries.

### Components

| component | state it keeps | operations | correct when |
| --- | --- | --- | --- |
| LLM categorization | `transactions.category_id`, `llm_staged_at`, `pfc2_categorized`, `reviewed_at`; the categorizer behind a read-write lock; a wake-up channel of one | stage at sync, reprocess, load, ask, apply, clear, enable, disable, prepare at start-up | no row waits for a categorizer that is off; no wake-up is lost; a user's choice survives; every staged row is resolved |
| Plaid sync | the item's `cursor`, `next_sync_at`, `health_state`; the transactions of its accounts; `is_hidden` | fetch a page, persist it, advance, mark healthy, fail, restart pagination, hide, link again | nothing the provider changed is missed; the rows are one version of its data; rows are hidden as their account is, or as the user or a rule said; it converges |
| SimpleFIN sync | `last_synced_at` and `next_sync_at` of a token; its transactions, pending ones among them | fetch a window of days, upsert, remove vanished pending rows, reset | a hold and what it settled as are not both kept; a posted row stays; what was missed is in the next window |
| OAuth tokens | `oauth_auth_codes`, `oauth_access_tokens`, `oauth_refresh_tokens`, `users.role`; the token lock | issue a code, exchange, rotate, replay, sign out, change a role, remove a user, clean up | one usable refresh token per sign-in; an ended sign-in stays ended; it ends after its lifetime; scopes follow the role |
| Sign-in sessions | `oauth_login_sessions`; the browser's binding cookie | start, invite, send a mail, verify a code or link, provider callbacks, consent, deny, sweep | who is signed in is who was proven, where it was proven; one code at most; few attempts |
| Balance snapshots | `account_balance_snapshots` with `is_flagged`, their provider states, one review row per account | fetch, compare with the anchor, persist clean, carried or flagged, recover, approve, use the provider's, edit, close, retry | no suspect jump is shown unless the user takes it; a review can be resolved; an approved value is not asked again; retries end |
| Account events | two channels of 64 events | publish, receive, drop when full | a new link is synced soon, and at the latest on schedule |
| Linking and deletion | items, connections, accounts | exchange a token, create, upsert accounts, delete | no item without accounts; nothing is written for a deleted link |
| Runtime configuration | `configurations`, a cache, targets in memory | validate, prepare, save, commit, notify | stored, cached and running settings agree; a secret nobody sent anew is kept; somebody can still sign in |
| Database files | the file, its `.enc` and `.bak`, a backup's destination, migration stamps | adopt, migrate, encrypt, back up, sweep | a kill loses nothing and can be repeated; a backup is a snapshot |
| Rate limiter | a window and a count per address | reserve, release | no more than the limit in a window |
| Budgets, portfolio, reports, MCP, export | rows written by one statement, or none | set, copy, assemble reports | the report adds up |

`PROJECT.json` lists all of them under `components` with the state of their
modelling.

### How they interact

* A sync holds the read side of the categorizer's lock while it writes a page
  (`persister.rs` 25-39), so that whether rows are staged and whether the
  categorizer is on agree. Disabling takes the write side. After its last page
  the sync signals the worker.
* Saving the configuration commits to the worker (`admin/runtimeconfig/llm.rs`)
  under the update lock. The request that saves can be dropped.
* The hourly loop, the account-event loop and the request that completes a link
  all call the same sync of an item, and nothing keeps these calls apart.
* `/token` and `/auth/logout` take the token lock, administrators do not: a
  role change or removal revokes tokens in its own transaction.
* A sign-in ends in an authorization code, with which a token chain begins.
* Saving the sign-in sections rebuilds the sign-in service in memory; their
  change hooks run after the update lock is released.
* `--backup-plain-data` runs in a process of its own, beside the server or beside
  `--encrypt-db`: they share nothing but the files.
* A balance sync reads the snapshots and the review it is about to change in
  queries of their own; the user resolves reviews and edits snapshots meanwhile.

### What is hard to test

Steps of two actors between two queries of a third; a dropped request or a crash
after a commit and before what should follow it; data that is read before a
provider call and used after it; a retry of what has already been done; clocks
and windows; whether anything that waits is eventually served. `PROJECT.json`
lists these under `hazards`, each at its line, with the properties aimed at it
or the reason why there is none.

## 2. Conventions

* One query, or one `with_tx` closure, is one step. Every await between two of
  them is a point where other actors run, where the call may fail and where a
  request may be dropped.
* A handler's program counter says which query comes next. What it has read
  into locals is in variables of its own: a later step uses the local, as the
  code does, and not the table.
* Values are model values. What a value stands for is said at its constant.
* Variables marked *history* record what happened, for properties; no guard
  reads them. Variables and constants marked *bound* cap a counter.
* Operators preceded by `Mutant:` are altered forms of the definition that
  follows: the bug each property is there to catch. No specification uses them.
* `MC*` modules hold the symmetry sets of the instances. The constants are set
  in the `.cfg` files.

## 3. Modules

### LlmStaging and RowVerdicts: who categorizes a transaction

Models `transactions/sync/llm_worker.rs`, the staging in `persister.rs` and
`store/sync.rs`, `store/llm_store.rs`, the LLM section of the runtime
configuration, and every user operation that writes a category. `ledger` is the
transactions table, `configured` the stored setting, `enabled` the categorizer
in memory, `holding` the readers of its lock, `writing` its writer, `trigger`
the channel of one wake-up, `tracking` whether transactions are tracked at all.

| in the model | in the code |
| --- | --- |
| `StartSync`, `PersistBegin`, `PersistCommit`, `PersistRollback`, `Signal` | a sync call: one page under the staging guard, then the signal (`persister.rs` 25-39, `syncer.rs` 77-97); the loops start none while tracking is off |
| `Upsert`, `Applied` | `upsert_synced_transaction`: rules, PFC2 mapping, staging |
| `ReprocessBegin`, `ReprocessStage` | `reprocess_uncategorized` |
| `WriteRows`, `SetCategory`, `DeleteRows`, `ImportRows` | the user's mutations and the import; creating a row is an import of one row |
| `SaveConfig`, `Enable`, `DisableBegin`, `DisableClear`, `DisableAbandoned` | saving and committing the LLM section; a clear may be abandoned by a dropped request |
| `SwitchTracking` | `update_tracking_disabled`, the hook of the general section |
| `StartupCheck`, `StartupClear`, `StartupClearFails`, `Crash` | `prepare_startup`, which takes no lock for the clear |
| `Receive`, `Check`, `Load`, `Clone`, `Ask`, `Apply`, `ApplyDone`, `ClearChunk`, `WorkerError` | the worker's loop: load up to `Limit` staged rows, ask the LLM in chunks, apply its answers one by one, clear the stage of the chunk |

`RowVerdicts` is what all of them promise together: a row has a verdict, is open,
or waits for one; the user's choice always becomes the verdict, anybody else
decides only rows without one, and rows begin to wait only while there is a
categorizer. It has no pages, guard, batches, late answers or faults. The mapping
(`VerdictOf`) counts a PFC2 match as open, since the LLM may replace it.

Abstracted: texts, prompts and examples; a rule matches a row or not; an answer
has a category, or none that can be used, and its confidence is high or not.
Row identities are kept apart although ids are reused after a deletion.

### PlaidSync and ProviderMirror: following the provider

Models the cursor loop of `transactions/sync/plaid.rs` for one item with one
account, and its three kinds of callers. The provider publishes numbered
versions; a cursor is the number of the version it was given for. `content` is
the item's rows, `hidden` those with `is_hidden`, `accountHidden` the account's
flag. A row gets the account's flag when it is inserted, or is hidden by a rule
that matches it (`store/sync.rs:57`); a page that updates it leaves the flag alone
(the conflict clause in `sql/queries/sync.sql`); the user sets it for single rows,
or for all rows of an account. `own` records which rows have a flag of their own.

| in the model | in the code |
| --- | --- |
| `StartHourly`, `StartEvent`, `StartRequest` | due items of the hourly loop, an `AccountsCreated` event, `completeLinkUpdate` |
| `LoadCursor`, `LoadHidden` | the two reads before the first page (194-195) |
| `Fetch`, `Mutated` | `/transactions/sync` and the restart of a mutated pagination (200-216) |
| `Persist`, `Advance`, `NextPage`, `Finish` | one transaction for the page, then the cursor, then the health (230-270) |
| `Fails`, `Drop`, `Crash` | any error, a dropped request, the end of the process |
| `SetHidden`, `SetRowsHidden`, `Relink` | `update_account`; `update_transaction`, `bulk_update_transactions` and rules applied to rows that are there; `reset_item_sync` |

`ProviderMirror` is what the sync promises to a reader: the rows are always one
published version and only move to the same or a later one. It has no cursors,
pages or failures.

Two things limit the promise, and both are in the properties as history
variables. When two calls of one item overlap, the slower one can write older
pages over newer rows and store an older cursor; if the faster one's cursor is
stored last, rows stay older than the cursor. Nothing in the code keeps calls
apart, and no document says they cannot overlap. And an item that is linked
again is read from the beginning, so rows do move back for a while.

Abstracted: one account per item; which rule matches (any may, when a row is
inserted); deletions by the user and imports over a provider's rows; the sync log,
investments and items without a syncable account; writing the error state is
folded into the failing step.

### OAuthTokens and RefreshChain: what a sign-in may do

Models `auth/oauth/token.rs`, `auth/store/tokens.rs`, the token side of
`admin/store/users.rs`, and `auth/cleanup.rs`. A *chain* is a sign-in, the
`request_id` its tokens share. `codes` are the authorization codes, `refresh`
and `access` the token rows, `pair` what a token was minted with, `lock` the
token lock, `request` what a running request has read.

| in the model | in the code |
| --- | --- |
| `ReadRole`, `CreateCode` | the end of `/authorize`: role, scopes, code |
| `Start`, `LoadCode`, `ExchangeCode`, `ExchangeFails` | `exchange_authorization_code` and `exchange_auth_code` |
| `LoadRefresh`, `Rotate` | `refresh_token` grant and `rotate_refresh_token` |
| `LoadLogout`, `LogoutToken`, `RevokeAccess`, `RevokeRefresh` | `/auth/logout`, and a replay: `revoke_token_chain` is two queries |
| `UpdateRole`, `RemoveUser`, `AddUser` | the administrator's mutations, which do not take the lock |
| `SweepCodes`, `SweepAccess`, `SweepRefresh`, `SweepFails` | the cleanup every ten minutes |
| `Leave` | an answer, an error, a crash, a refused client, redirect URI or verifier |

`RefreshChain` is one value per chain: pending, the token that holds it, or
ended. The refinement mapping takes the active row, and otherwise whether any
row was ever stored.

Abstracted: one user; a role stands for its scopes; sign-in by master password
(no user) is left out. Access tokens are JWTs that are verified without the
database (`auth/middleware.rs` 22-62): their rows are bookkeeping.

### LoginSession and SignIn: from an address to a code

Models one row of `oauth_login_sessions` with all requests that read and write
it: `auth/oauth/authorize.rs`, `binding.rs`, `identity_provider.rs`,
`auth/store/sessions.rs`, `auth/email.rs`. `row` is the session, `cookie` the
expiry of the binding cookie in each browser, `mailed` the address of each mail,
`request` the locals of each running request.

| in the model | in the code |
| --- | --- |
| `Start`, `Invite`, `Replace` | `/authorize` with a cookie; an invitation without one; another sign-in overwriting the cookie |
| `LoadSend`, `SaveOtp` | sending a mail: check, then store code and link |
| `LoadOtp`, `CountAttempt`, `Mark` | a code: read and compare, count, mark authenticated |
| `LoadMagic`, `Bind`, `Attach` | a link; an invitation's link binds the browser |
| `LoadIdentity` | Google and passkeys, which prove an address |
| `LoadComplete`, `Claim`, `Issue`, `Deny`, `Sweep` | consent, the claim that deletes the row, the code |

`SignIn` has a status, who was proven, and where: opened once, proven once,
answered at most once, ended for good.

Abstracted: one session; the code and the link of one mail share its number;
guesses never match; checks that only refuse are `Leave`.

### BalanceReviews: what the provider says and what is shown

Models one account's daily snapshots: `wealth/flagging.rs`, `sanity.rs`,
`store/snapshots.rs`, `store/reviews.rs`, `store/snapshot_editor.rs`, and the
retries of `adapters/debank.rs`. `value` and `flagged` are the snapshots by
day, `kept` the provider states beside flagged ones, `review` the account's
review row.

| in the model | in the code |
| --- | --- |
| `Start`, `Fetch` | a run of the hourly loop, an event or a request; its day is fixed when it starts |
| `Probe`, `ProbeApproval`, `Tick`, `Retry` | `sync_wallet`: a suspect reading waits and is fetched again |
| `Check`, `ReadApproval` | `emit_with_price_check`: anchor, deviation, approval, each read on its own |
| `PersistClean`, `PersistCarry`, `PersistFlagged`, `Skip` | `persist_snapshot_in_transaction` for the three drafts; a closed account gets none |
| `Upserted` | `UpsertBalanceReview` |
| `Approve`, `UseProvider`, `Edit`, `SetClosed` | the user |

A `Value` is a balance with its holdings. `Suspect` is the relation that
`holding_price_deviates` computes of two of them: a holding they have in common
with prices a factor of 100 apart. Any other change, of a quantity, a new holding
or an ordinary price, is clean: it is stored, shown and the anchor of the next
reading without the user being asked, and a series of such changes may lead
anywhere. So what the code promises is about single jumps, and `NoSuspectJump`
says it with `Follows`: a chain of pairs outside `Suspect` leads to each shown
balance from a first reading or a decision of the user. The history variable
`accepted` records those two alone, not what the clean path writes. Nothing is
assumed of `Suspect`, neither symmetry nor transitivity. Two different totals are
beyond the tolerance of 5% by which an approved one is recognized. Left out: manual snapshots propagated over a
range of dates, the zero that Plaid writes for an empty investment account, the
counters of a review, payload logs. A wait is counted up to the window, beyond
which more time makes no difference; the clock the code compares with
(`RunClock`) is read once per run, as `SnapshotPersister::new` does.

### SimpleFinSync: a window that is read again

Models `transactions/sync/simplefin.rs`, `simplefin_helpers.rs`, the removals of
`persister.rs` and the SimpleFIN part of the hourly and the event loop, for one
access token. There is no cursor: each call reads a window of days again. `bank`
and `date` are what the bank says, `rows` the table, `last` and `due` the
token's `last_synced_at` and `next_sync_at`; `began`, `page`, `partial` and
`held` are the locals of a call.

| in the model | in the code |
| --- | --- |
| `Appear`, `Settle`, `Post`, `Release` | the bank (external): a transaction shows up late, a hold settles as another or under its own name, or is released |
| `Start` | `sync_due` for a due token or `sync_connection_into` for an event; `start_date` with 14 and 89 days |
| `FetchAll`, `FetchSome` | `get_accounts`, with an answer that is whole or has errors |
| `ReadPending` | `pending_simple_fin_transaction_ids`, a query of its own |
| `Persist` (`Written`, `Removed`) | one transaction: upserts, then removals unless the answer is partial |
| `SetSynced`, `Fail`, `Crash` | `set_simple_fin_token_synced` with the time of the start, and what ends a call before it |
| `Schedule`, `Reset` | `next_sync_at` passes; `resetSimpleFinSync` |

What the windows rest on is an assumption with a name, `WindowAssumption`: the
bank shows a transaction at most `Lag` days late, a call lasts at most `Lasts`
days, and `Lag + Lasts <= Overlap`. With the 14 days of the code both are far
from being reached. Abstracted: amounts and texts, several accounts of a token,
the health of connections, hidden accounts, the sync log.

### RuntimeConfig: from a form to the running server

Models `admin/runtimeconfig/update.rs` with what it calls: the secrets' lookup
in `graph/configuration.rs`, validation, `auth/service.rs` and the hooks of the
syncers. `stored` is the table, `cache` the manager's copy, `running` what the
sign-in service, the syncers and the worker use, `frontend` the addresses of the
frontend client in its own table, `lock` the update lock.

| in the model | in the code |
| --- | --- |
| `Begin`, `Resolve` | the resolver: a placeholder becomes the cached secret, before the lock |
| `Lock`, `Check` | `validate_auth_prospective` under the lock; `admin_passkey_exists` |
| `Prepare` | the frontend client is written, the Google client is made from the settings in force |
| `Save`, `Commit`, `CommitLlm` | one transaction for the sections, then the cache and the commits, of which only the LLM's awaits |
| `HookRead`, `HookWrite` | `on_change`, after the lock: read the cache, write the target |
| `Fail`, `Drop` | an error or a dropped request, before and after the sections are saved |
| `AddPasskey`, `RemovePasskey` | registration and deletion, which take no update lock |
| `Restart` | `bootstrap.rs`: load, validate, prepare, with or without `MASTER_PASSWORD` |

Sections that differ in their fields only share `general`; a section of one
switch is a Boolean. Left out: `DISABLE_ALL_AUTH` of the environment and the
rules for a single field. The LLM section's own effects are LlmStaging's.

### DatabaseFiles: three commands and their files

Models `database/connection.rs` (opening and migrating), `database/adopt.rs`, `encrypt.rs`
and `backup.rs`. `file` is what is in each place: `tallyo.db` (`path`), its
`.enc` and `.bak`, the destination of a backup (`dest`), the operator's storage
(`kept`), and an open file that was renamed over (`gone`).

| in the model | in the code |
| --- | --- |
| `ServeOpen`, `Adopt`, `Stamp`, `Migrate`, `Listen` | `open_database`: create or open, adopt the Go server's migrations one by one, run the rest, serve |
| `Commit`, `Stop` | a write of the server; its end at any step |
| `EncryptBegin` to `EncryptInstall` | `encrypt_existing`: refuse a `.bak`, remove an old `.enc`, open, attach and export, two renames, undo the first when the second fails |
| `BackupBegin` to `BackupFail` | `backup_plain_data`: a destination that must be new, open, export; an error removes it |
| `EncryptEnds`, `BackupKilled` | killed at any step |
| `Configure`, `MoveBak`, `RemoveBak`, `RemoveBackup` | the operator, who does what the documents say |

The operator stops the server before `--encrypt-db` (`docs/configuration.md:215`),
does not start it meanwhile, and removes a `.bak` only after the encrypted
database has been verified (`docs/backups.md:171-173`). A file whose name changes
while it is open is followed to its new name. Left out: SQLite's sidecar files,
permissions, pragmas, retention and the seed.

## 4. Runs

All runs explore their instance completely. Deadlock is checked in all of them:
in every model some actor can always move.

| run | instance | shows |
| --- | --- | --- |
| `llm_one_row` | one provider row, two categories, an hourly and a request sync | four safety properties of LlmStaging and the refinement of RowVerdicts |
| `llm_live` | one row, one category, tracking on and off, fairness | every staged row is resolved, once faults stop, while the categorizer and tracking are on |
| `plaid_calls` | two transactions, one content, an event and a request, one new link, any row hidden or shown singly | nothing missed, one version, hidden follows, under overlap and failure |
| `plaid_live` | two transactions, two contents, the hourly loop alone, three changes | PlaidSync implements ProviderMirror and converges |
| `simplefin` | a hold and what it settles as, two calls, days 0 to 3, an overlap of two days and a first window of three, lag and duration of one, one reset | no hold beside what it settled as, posted rows stay, what is missing lies ahead |
| `oauth_tokens` | one chain, four tokens, two requests, two changes of the user | the five safety properties and the refinement of RefreshChain |
| `login_sessions` | two browsers, two addresses, two requests, two mails | the four safety properties and the refinement of SignIn |
| `balance_reviews` | three days, three readings of which two are an ordinary change apart, two calls, two changes | the five safety properties of BalanceReviews |
| `runtime_config` | two requests, four updates out of eight inputs | updates settle, somebody can sign in, secrets are kept |
| `database_files` | two writes, three migrations of which two are the Go server's | nothing is lost, backups are snapshots, no migration twice |
| `config_restart` | one request, three updates, an unchanged environment | **violation**: an accepted configuration does not start |
| `balance_retry` | one wallet, one call, two values that deviate, fairness | **violation**: retries never end |

Why these bounds are enough to mean something:

* *Two concurrent calls* are the smallest number with a race, and no step of
  the code depends on a third. The proofs are for any number.
* *Rows*: the properties of LlmStaging are about one row at a time. What rows
  do to each other is through the limits of a load, a chunk and a clear; that
  these do not matter for safety is proved, for any number of rows and any limits.
  `llm_one_row` keeps tracking on: switching it off only keeps the loops from
  starting calls, so that it adds no step to what safety is about, and `llm_live`
  and the proofs have both.
* *Plaid*: two transactions can be a mixture of two versions; a page of one
  version and two or three changes give several pages; a relink in the middle
  gives a cursor that goes back. One content is enough for `plaid_calls`, since
  absence is a second state of a row, and one restart of a pagination, as the page
is the same again. `Apart` is all rows in `plaid_calls` and none in `plaid_live`,
whose properties do not speak of flags.
* *OAuth*: four tokens are the code's and three rotations, one more than two
  racing requests can use up before the chain ends. Time has a step before, at
  and after each lifetime.
* *Sign-in*: two addresses and two mails are needed for a mail that goes
  elsewhere; an attempt limit of one is passed by the second reader.
* *Balances*: an anchor, a day between and a day after it need three dates;
  approving one value and reporting another needs three values. Two of them
  (`Level`) are an ordinary change apart, so clean readings change what is shown,
  and the third deviates from both, so an account that starts there has two
  different suspect readings. Two changes are a clean one and a suspect one, two
  suspect ones, or an edit or a closing and either.
* *SimpleFIN*: three days after the first let a transaction fall out of a window
  of two; two calls, one of them late, are enough to write an old answer over a
  new one and to take a posted row back.
* *Configuration*: three updates reach every combination of methods and the end
  of the setup, a fourth overlaps with the hooks of an earlier one.
  The inputs turn Google on, keep its secret, replace it by a passkey, disable
  authentication, and end the setup.
* *Files*: two writes distinguish a copy made before from one made after; of
  three migrations one is neither adopted nor repeatable.

Every property has a mutant in `PROJECT.json`: a plausible bug in a definition
that stands for code, which makes TLC report the property.

## 5. Fairness

Only liveness runs assume fairness.

`LlmStaging!FairSpec` is a server without `SYNC_OFF`, which starts no loop at
all. The worker's steps, commits, the steps of reprocess, of disabling and of
start-up are weakly fair: tasks of the tokio runtime are scheduled and queries
return. Of the calls only the hourly loop's begin fairly, and only while tracking
is on: `sync_due` returns before it syncs or signals when it finds tracking
disabled (`syncer.rs` 79-81), account events and requests may never come. So what
`StagedIsResolved` promises ends when tracking is switched off, as it ends when
the categorizer is: a row whose LLM call has failed then stays staged, and hidden
from lists, until tracking is on again, the server restarts or a request signals.
Signals are strongly fair: a call that has begun may be dropped before it signals,
again and again, but one that repeats for ever signals at some point. Faults
(errors, crashes, dropped requests) may come at any time, but not for ever. The
instance has no more rows than a load takes. With more, the property is false of
the code: a load takes the 200 newest staged rows, and new ones could keep coming.

`PlaidSync!FairSpec`. Time passes, the hourly loop starts due items, calls make
progress, and faults end at some time. The loop starts them on a server without
`SYNC_OFF` whose transaction tracking is not disabled (`syncer.rs` 79-81); with
either nothing promises that the rows follow the provider.

`BalanceReviews!FairSpec`. Time passes, delays end and queries return. The
property fails all the same. With a clock that is read when it is compared
(`RunClock(c) == elapsed[c]`) it holds on the same instance, so it is the clock
that breaks it and not the fairness.

The other modules have no liveness property. A SimpleFIN token is synced when
the bank answers, which nothing promises, and what must not be lost until then
is the safety property `MissingIsAhead`. A request of the configuration or of
the sign-in may be dropped at any await, so nothing must happen after it; and
the commands on the files may be killed and are the operator's to repeat.

## 6. What is proved

`*Proofs` modules prove the safety properties and the refinements for all values
of the constants that satisfy the named assumptions of the modules: that the
special values are no ordinary ones, that sets of callers are disjoint, that
limits are natural numbers, and two with content, `WindowAssumption` of
SimpleFinSync and `VersionAssumption` of DatabaseFiles. No finiteness is assumed
of sets of rows, values or chains; it is where a cardinality is counted (requests
of LoginSession, tokens of a chain).

Every proof has an inductive invariant that holds initially and is preserved by
every step, and has the property as a consequence. Where the properties of a
module rest on unrelated facts there is one for each, on top of a common one for
the types, so that a change of the code breaks only the proof it concerns.

* **LlmStaging** (`TypeCorrect`, `DisabledUnstaged`, `UserChoiceKept`,
  `WakeupKept`, `VerdictsImplemented`, `StagedProvisional`, `FinalVerdicts`,
  `StagingNeedsTheGuard`). "Off means nothing staged" is not inductive: a page
  that is about to commit decides with what it read. `GuardInv` says that who
  holds the guard has read the current setting and that no one writes meanwhile.
  `UserInv` adds to "the user's category is kept" that such a row is reviewed and
  no PFC2 match, the only two doors for the LLM. Verdicts are final because each
  of the few other steps that write rows (`Writes`) leaves alone, or deletes, one
  that is reviewed and no PFC2 match. For the refinement `RowMove` names the three
  ways such a step may treat a row; each of them is one of RowVerdicts, and that
  what waits is open is `RowInv` after the step.
* **PlaidSync** (`TypeCorrect`, `NothingIsMissed`, `RowsAreOneVersion`,
  `HiddenAgrees`, `ImplementsMirror`, `RowsPublished`, `CursorAdvances`,
  `MirrorsUntilDisturbed`, `EndsCurrent`). `PageInv`, `RowsInv` and `VersionInv`
  say how the cursor a call holds, the stored one and the rows are ordered at
  every step of a page; that a replayed page is harmless is that the rows are at
  most one page ahead of the stored cursor. The refinement assumes a single caller
  and an item linked once (`OnlyCaller`), as in `plaid_live`;
  `MirrorsUntilDisturbed` has no such assumption and claims the mirror step by
  step until callers overlap or a link is made again. That rows are published
  versions is inductive by itself and survives every overlap; that the cursor only
  advances, and that a sync which ends has caught up, follow from `RowsInv`. Which
  rows are hidden is inductive by itself (`HiddenPersist`): a page marks what it
  inserts and leaves the marks of what it finds.
  `EndsCurrent` is what can be proved of `Converges`: the end of a sync leaves the
  right rows, if it comes.
* **OAuthTokens** (`TypeCorrect`, `OneTokenPerChain`, `RevocationIsFinal`,
  `ChainsEnd`, `RolesAgree`, `ImplementsChain`, `AccessPaired`, `ScopesKept`,
  `CodesAreSpentOnce`, `LostStayLost`). `RequestInv` is what a request knows of
  the rows it has read; it is stable because of the token lock for `/token` and
  `/auth/logout`, and because the transaction of a rotation checks the row again
  for administrators. Without the lock `RevokedInv` breaks between the two queries
  of a revocation. `PairedInv` says that an access row and a usable token of one
  chain were handed out together. `LostStayLost` is proved of RefreshChain alone,
  in a few lines, and holds of the token store because that implements it.
* **LoginSession** (`TypeCorrect`, `SubjectProven`, `OneBrowser`,
  `AttemptsLimited`, `ImplementsOneSignIn`, `ProofIsFinal`, `OneCode`). `RowInv`
  relates the row to the mails sent and to who proved what, `CallsInv` what each
  request holds to the row as it is now. `AttemptsLimited` needs a second
  invariant that counts the requests that have read the code and not yet been
  counted. `ProvenInv` says that once somebody is proven no row of the session is
  open; a row that is gone or signed in stays so (`RowStays`), whatever a request
  has read of it before.
* **BalanceReviews** (`TypeCorrect`, `StatesQueued`, `NoSuspectShown`,
  `ReviewsResolvable`, `ApprovedAskedOnce`, `HistoriesAreAnchored`). `CallInv`
  says that what a call carries forward, and what it found in line with its
  anchor, follows (`Follows`) from what was accepted, also when the anchor changed
  since it was read. `QueueInv` (no overlap) says that no row is
  younger than the day of the running call, that a pending review ends at a
  flagged row, and that every flagged row from its first day on has a provider
  state; it is what makes `Resolvable` true after widening and re-opening a
  review. `LateInv` names the calls that had decided before an approval.
  `AnchorInv` says that each flagged day has a trusted one before it and that a
  call about to carry a balance past its anchor still has one at or before the
  anchor: another call may have flagged the anchor meanwhile, and then had one
  itself. That `Anchor` yields a row is the one fact about a maximum of a set; it
  comes from the well-founded order of the naturals.
* **SimpleFinSync** (`TypeCorrect`, `HoldsAreReplaced`, `PostedStays`,
  `WindowsCatchUp`, `NothingInvented`, `PostedStaysPut`, `CompleteAnswers`). The
  first two after the types rest on what a call that is alone knows: what it holds
  is pending (`HeldIsPending`) and its page shows the bank at one time
  (`PageIsOneTime`). `PageIsFresh` says that such a page has no posted row of the
  table as pending, so that writing it takes nothing back; `NothingInvented` holds
  of old pages too, since a row once posted at the bank stays posted.
  `PageIsWhole` says that a complete page of such a call has every posted row of
  its window, so that the table afterwards is that page and older posted rows
  (`CompleteAnswers`). `WindowsCatchUp` follows every way in which a row can be
  missing: what the window of a call covers (`WindowCovers`), what its page lacks
  (`PageLacks`), what it will remove although posted (`Losses`), and what the last
  completed sync has left behind (`ReachCovers`, `SyncedCovers`). Each is dated
  late enough for the next window, by `WindowAssumption`.
* **RuntimeConfig** (`TypeCorrect`, `SecretsAreKept`, `NobodyIsLockedOut`,
  `UpdatesSettle`, `CommittedPartsSettle`, `SavesAreValidated`). `Keeps` says that
  a resolved placeholder still is the stored secret; `Validated` that what was
  validated under the lock stays valid, as the cache does not change under it
  (`OneHolder`). For `UpdatesSettle`, `Follows` says by how much each copy may
  differ from the table: the cache by one save, the frontend client by one
  preparation, and each running part only if the request in the middle still owes
  it a commit or a hook (`Owed`). When nobody owes anything all agree. `LInv`
  separates what the holder of the lock owes from what outlives the lock, which is
  only what the hooks write (`HeardHooked`): the parts an update commits itself
  agree as soon as the lock is free, and so does the cache that the next update
  validates on.
* **DatabaseFiles** (`TypeCorrect`, `NothingLost`, `BackupsAreSnapshots`,
  `AdoptionIsSafe`, `CopiesAreWhole`, `SchemaIsThere`, `EncryptedForGood`). The
  invariant says of each step of an encryption where the writes are and which file
  a backup has open. `AdoptionIsSafe` rests on `VersionAssumption`: of the
  migrations of the Go server all but the first may run twice, and the first is
  the first to be recorded. `SchemaInv` says that the versions of every file are
  without a gap and have their effects; a file that a command writes has the
  schema of one that was there, or none (`Derived`), so that only the server's own
  migrations need an argument.

The theorems that `PROJECT.json` lists without a property of a run (the last ones
of each list above) state properties of the same modules. TLC has checked those
on the instances of the runs before they were proved; the proofs cover these
instances, and so the runs leave them out.

Model-checked only: liveness (`StagedIsResolved`, `Converges`), which needs
fairness and ENABLED, for which no prover is at hand; and the violated properties,
which are false. No module declares a recursive operator.

## 7. Where code and documents differ

Two disagreements are shown by runs and quoted in `PROJECT.json` under
`findings`:

* `config_restart`: `admin/runtimeconfig/update.rs:44` returns before the general
  validation when authentication is disabled. A completed setup with no sign-in
  method is accepted, and rejected by the next start.
* `balance_retry`: the two hours after which a suspect wallet is flagged never
  pass, since the clock is read once per run; the wallet is asked again for
  ever, and the adapters after it are not run.

Others were met while modelling. Where a property would otherwise fail it
exempts the case, and says so:

* A row's PFC2 match is remembered from the load of its batch
  (`llm_worker.rs:142`, used at 198): a row that gets its match while the LLM is
  asked loses it to an answer of medium confidence, which the test at
  `llm_worker.rs:233` excludes.
* The hidden accounts are read once per sync (`plaid.rs:195`): an account hidden
  meanwhile gets visible rows, against `docs/troubleshooting.md:217`. The property
  excuses these rows alone (`stale`), until the user sets a flag again.
* The binding cookie lasts two minutes (`auth/oauth/binding.rs:66`), the mailed
  code ten (`auth/email.rs:18`, `docs/security.md:11`).
* The placeholder of a secret is resolved before the update lock
  (`graph/configuration.rs:298`): a secret that is changed in between is undone,
  where `docs/configuration.md:70` speaks of the current one.
* The last passkey of the administrators can be deleted although it is the only
  way to sign in; only a change of the configuration checks for one.
* `--encrypt-db`, killed between its renames, leaves no file at the path: `serve`
  then creates an empty database, and a second `--encrypt-db` refuses because of
  the `.bak`. A backup that opens the path at that moment reports success with
  an empty copy. A killed backup leaves an empty destination, which the next one
  refuses.
* `docs/auth.md:68-69` gives codes and login sessions ten minutes, the code 60
  seconds and two minutes; `docs/auth.md:73-76` says signing out is local while
  `docs/security.md:12` and the code revoke the chain; `docs/auth.md:119` limits
  a code to five attempts, where the code allows five plus the requests under
  way; a comment in `src/server-rs/sql/queries/auth.sql:178` says the middleware
  looks up access rows, which it does not.

## 8. What is not modelled

* *Reads, text and arithmetic.* Reports, series, pages, exports and MCP change no
  state; rules, prompts and names are text; valuations and portfolio analysis
  are arithmetic over floats. Unit tests reach these as well as a model.
* *Generated code*, some 22,000 lines of queries and schema types. The SQL it is
  generated from is translated where a module uses it.
* *Single statements*: budgets, portfolio rows, tags, assets, retention, the
  seed. One statement on one connection cannot interleave with itself.
* *External protocols and cryptography*: Google, passkeys, JWTs and the
  providers. What the models assume of providers is said in section 3.
* *The web application*, which keeps no state the server depends on.

State that modelled components have and the models leave out: the channels of
the account events; linking and deleting connections step by step; Plaid's
investment transactions and recurring streams, which replace a window of rows as
SimpleFinSync does; manual snapshots over a range of dates; the permits of the
rate limiter; the mail of an invitation and its compensating delete; the
environment's `DISABLE_ALL_AUTH`; SQLite's sidecar files.

Hazards without a property are of two kinds: those of parts above, and those
where the code has no promise to check, because a case is exempted that the code
does not exclude. Each says in `PROJECT.json` which it is.
