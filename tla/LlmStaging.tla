----------------------------- MODULE LlmStaging -----------------------------
(***************************************************************************)
(* The transactions table and the actors that decide a transaction's       *)
(* category: provider syncs (transactions/sync/persister.rs), the          *)
(* background categorizer (transactions/sync/llm_worker.rs), the           *)
(* configuration commit that enables or disables it                        *)
(* (admin/runtimeconfig), and the user (edit, create, import, delete).     *)
(*                                                                         *)
(* One SQLite connection serves the whole process, so one query or one     *)
(* with_tx closure is one step; every await between two of them is a       *)
(* point where other actors run.  A GraphQL request is dropped at such a   *)
(* point when its 55 s budget ends (handler/graphql.rs), a background task *)
(* only when the process dies.                                             *)
(*                                                                         *)
(* An element of Txn stands for a row identity.  A row deleted and         *)
(* inserted again may keep the identity: rowids are reused (the id column  *)
(* is not AUTOINCREMENT), and a provider may send an external id again.    *)
(***************************************************************************)
EXTENDS Naturals, FiniteSets

CONSTANTS
  Txn,            \* row identities
  Provider,       \* those whose source is Plaid or SimpleFIN
  Category,       \* categories other than the sentinel
  Uncategorized,  \* the sentinel category, id 0
  Nobody,         \* "no user has chosen a category for this row"
  Background,     \* sync calls of the hourly and account-event loops
  Hourly,         \* those of the hourly loop
  Request,        \* sync calls made by a GraphQL request
  Reprocess,      \* the reprocessUncategorizedTransactions request
  Limit,          \* rows one load returns (200 in the code)
  BatchSize,      \* rows one LLM call classifies
  Tracking,       \* bound: the values the tracking setting takes
  Bulk            \* bound: rows one mutation of the user writes at once

ASSUME TxnAssumption == Provider \subseteq Txn
ASSUME CategoryAssumption ==
  /\ Uncategorized \notin Category
  /\ Nobody \notin Category \cup {Uncategorized}
ASSUME CallAssumption ==
  /\ Background \cap Request = {} /\ Hourly \subseteq Background
  /\ Reprocess \notin Background \cup Request
ASSUME BoundAssumption ==
  /\ Tracking \subseteq BOOLEAN
  /\ Limit \in Nat \ {0}
  /\ BatchSize \in Nat \ {0}
  /\ Bulk \in Nat \ {0}

Sync == Background \cup Request
Call == Sync \cup {Reprocess}
Cancellable == Request \cup {Reprocess}
AnyCategory == Category \cup {Uncategorized}

Row == [present : BOOLEAN, category : AnyCategory, reviewed : BOOLEAN,
        staged : BOOLEAN, pfc2 : BOOLEAN]
NoRow == [present |-> FALSE, category |-> Uncategorized, reviewed |-> FALSE,
          staged |-> FALSE, pfc2 |-> FALSE]

\* What rules and the PFC2 mapping say of an incoming transaction.
Match == [kind : {"none"}, category : {Uncategorized}]
           \cup [kind : {"rule"}, category : AnyCategory]
           \cup [kind : {"pfc2"}, category : Category]

\* What one page of a sync does to a row.
Event == [kind : {"skip", "remove"}] \cup [kind : {"upsert"}, match : Match]

\* The LLM's answer for a row; Uncategorized stands for "no usable answer".
NoAnswer == [category |-> Uncategorized, high |-> FALSE]
Answer == [category : Category, high : BOOLEAN] \cup {NoAnswer}

VARIABLES
  ledger,      \* the transactions table (persistent)
  configured,  \* the stored llm section's enabled flag (persistent)
  enabled,     \* categorizer is Some
  writing,     \* disable holds the categorizer's write lock
  config,      \* progress of update_sections
  tracking,    \* ~tracking_disabled of the Syncer
  startup,     \* progress of prepare_startup
  running,     \* calls that will signal the worker when they finish
  holding,     \* calls that hold the staging guard
  stageFor,    \* what a holder read through the guard
  trigger,     \* the worker's channel(1) holds a wake-up
  wpc,         \* worker program counter
  batch,       \* rows loaded and not yet sent to the LLM
  snapshot,    \* loaded rows that carried a PFC2 match when loaded
  chunk,       \* rows of the LLM call being applied
  answers,     \* answers of that call not yet applied
  assigned,    \* history: the category the user last gave a row
  stalled,     \* history: a wake-up was dropped by a fault
  leftover     \* history: a clear of all staged rows was abandoned

workerVars == <<wpc, batch, snapshot, chunk, answers>>
callVars == <<running, holding, stageFor>>
configVars == <<configured, enabled, writing, config, tracking>>
vars == <<ledger, configVars, startup, callVars, trigger, workerVars,
          assigned, stalled, leftover>>

TypeOK ==
  /\ ledger \in [Txn -> Row]
  /\ configured \in BOOLEAN /\ enabled \in BOOLEAN /\ writing \in BOOLEAN
  /\ config \in {"idle", "commit", "clearing"} /\ tracking \in BOOLEAN
  /\ startup \in {"check", "clear", "done"}
  /\ running \subseteq Call /\ holding \subseteq running
  /\ stageFor \in [Call -> BOOLEAN]
  /\ trigger \in BOOLEAN
  /\ wpc \in {"wait", "check", "load", "clone", "ask", "apply", "clear"}
  /\ batch \subseteq Txn /\ snapshot \subseteq Txn /\ chunk \subseteq Txn
  /\ answers \in [Txn -> Answer]
  /\ assigned \in [Txn -> AnyCategory \cup {Nobody}]
  /\ stalled \in BOOLEAN /\ leftover \in BOOLEAN

Staged == {i \in Txn : ledger[i].staged}

Init ==
  /\ ledger = [i \in Txn |-> NoRow]
  /\ configured \in BOOLEAN /\ enabled = configured /\ writing = FALSE
  /\ config = "idle" /\ tracking \in Tracking /\ startup = "check"
  /\ running = {} /\ holding = {} /\ stageFor = [p \in Call |-> FALSE]
  /\ trigger = configured
  /\ wpc = "wait" /\ batch = {} /\ snapshot = {} /\ chunk = {}
  /\ answers = [i \in Txn |-> NoAnswer]
  /\ assigned = [i \in Txn |-> Nobody]
  /\ stalled = FALSE /\ leftover = FALSE

-----------------------------------------------------------------------------
(* Provider syncs *)

\* Mutant: stages a row that a rule has just categorized.
UpsertStagesRules(row, match, stage) ==
  IF row.reviewed THEN row
  ELSE [present |-> TRUE, category |-> match.category,
        reviewed |-> match.kind # "none", staged |-> stage,
        pfc2 |-> match.kind = "pfc2"]

\* upsert_synced_transaction: a reviewed row keeps category and flags; any
\* other row takes what rules and the PFC2 mapping say.
Upsert(row, match, stage) ==
  IF row.reviewed THEN row
  ELSE [present |-> TRUE, category |-> match.category,
        reviewed |-> match.kind # "none",
        staged |-> stage /\ match.kind # "rule",
        pfc2 |-> match.kind = "pfc2"]

Applied(row, event, stage) ==
  CASE event.kind = "upsert" -> Upsert(row, event.match, stage)
    [] event.kind = "remove" -> NoRow
    [] OTHER -> row

\* A sync call begins: an hourly tick, an AccountsCreated event, a link update.
\* The first two return before they sync or signal when tracking is disabled.
StartSync(p) ==
  /\ p \in Sync \ running
  /\ p \in Background => tracking
  /\ running' = running \cup {p}
  /\ UNCHANGED <<ledger, configVars, startup, holding, stageFor, trigger,
                 workerVars, assigned, stalled, leftover>>

\* persist takes the staging guard and reads whether to stage.
PersistBegin(p) ==
  /\ p \in (Sync \cap running) \ holding
  /\ ~writing
  /\ holding' = holding \cup {p}
  /\ stageFor' = [stageFor EXCEPT ![p] = enabled]
  /\ UNCHANGED <<ledger, configVars, startup, running, trigger, workerVars,
                 assigned, stalled, leftover>>

\* The page's transaction commits and the guard is released, with what it said.
PersistCommit(p) ==
  /\ p \in Sync \cap holding
  /\ \E page \in [Provider -> Event] :
       /\ ledger' = [i \in Txn |->
            IF i \in Provider
              THEN Applied(ledger[i], page[i], stageFor[p]) ELSE ledger[i]]
       /\ assigned' = [i \in Txn |->
            IF i \in Provider /\ page[i].kind = "remove"
              THEN Nobody ELSE assigned[i]]
  /\ holding' = holding \ {p} /\ stageFor' = [stageFor EXCEPT ![p] = FALSE]
  /\ UNCHANGED <<configVars, startup, running, trigger, workerVars,
                 stalled, leftover>>

\* The transaction rolls back; the caller reports the error and goes on.
PersistRollback(p) ==
  /\ p \in Sync \cap holding
  /\ holding' = holding \ {p} /\ stageFor' = [stageFor EXCEPT ![p] = FALSE]
  /\ UNCHANGED <<ledger, configVars, startup, running, trigger,
                 workerVars, assigned, stalled, leftover>>

\* Mutant: a failed or empty sync returns before it signals.
SignalForgotten(p) ==
  /\ p \in running \ holding
  /\ running' = running \ {p}
  /\ UNCHANGED <<ledger, configVars, startup, holding, stageFor, trigger,
                 workerVars, assigned, stalled, leftover>>

\* The caller's last step, on success and on failure alike: llm.signal().
\* try_send on a full channel(1) is dropped, the wake-up is already there.
Signal(p) ==
  /\ p \in running \ holding
  /\ running' = running \ {p}
  /\ trigger' = TRUE
  /\ UNCHANGED <<ledger, configVars, startup, holding, stageFor, workerVars,
                 assigned, stalled, leftover>>

\* Mutant: a dropped request leaves the guard locked.
CancelKeepsGuard(p) ==
  /\ p \in Cancellable \cap running
  /\ running' = running \ {p}
  /\ stalled' = TRUE
  /\ UNCHANGED <<ledger, configVars, startup, holding, stageFor, trigger,
                 workerVars, assigned, leftover>>

\* The request's future is dropped (or reprocess's own query fails): the guard
\* goes, the transaction rolls back, nobody signals.
Cancel(p) ==
  /\ p \in Cancellable \cap running
  /\ running' = running \ {p} /\ holding' = holding \ {p}
  /\ stalled' = TRUE /\ stageFor' = [stageFor EXCEPT ![p] = FALSE]
  /\ UNCHANGED <<ledger, configVars, startup, trigger, workerVars,
                 assigned, leftover>>

-----------------------------------------------------------------------------
(* reprocess_uncategorized *)

\* Fails at once when the categorizer is None.
ReprocessBegin ==
  /\ Reprocess \notin running
  /\ ~writing /\ enabled
  /\ running' = running \cup {Reprocess}
  /\ holding' = holding \cup {Reprocess}
  /\ UNCHANGED <<ledger, configVars, startup, stageFor, trigger, workerVars,
                 assigned, stalled, leftover>>

\* StageUncategorizedForLLM
StageUnreviewed ==
  [i \in Txn |-> [ledger[i] EXCEPT
     !.staged = @ \/ (ledger[i].present /\ ~ledger[i].reviewed)]]

ReprocessStage ==
  /\ Reprocess \in holding
  /\ ledger' = StageUnreviewed
  /\ holding' = holding \ {Reprocess}
  /\ UNCHANGED <<configVars, startup, running, stageFor, trigger, workerVars,
                 assigned, stalled, leftover>>

-----------------------------------------------------------------------------
(* The user *)

\* The row update_transaction_fields_by_ids writes when it sets a category.
UserRow(c) == [present |-> TRUE, category |-> c, reviewed |-> TRUE,
               staged |-> FALSE, pfc2 |-> FALSE]

\* A row written without a category: to review, not staged.
OpenRow == [NoRow EXCEPT !.present = TRUE]

Written(choice) == IF choice = Nobody THEN OpenRow ELSE UserRow(choice)

\* One transaction that writes some rows, choice[i] being what row i gets.
WriteRows(ids, choice) ==
  /\ ledger' = [i \in Txn |->
       IF i \in ids THEN Written(choice[i]) ELSE ledger[i]]
  /\ assigned' = [i \in Txn |-> IF i \in ids THEN choice[i] ELSE assigned[i]]
  /\ UNCHANGED <<configVars, startup, callVars, trigger, workerVars, stalled,
                 leftover>>

\* update_transaction, bulk_update_transactions, a rule applied retroactively:
\* the category of any existing rows, reviewed or not.
SetCategory(ids, c) ==
  /\ \A i \in ids : ledger[i].present
  /\ WriteRows(ids, [i \in ids |-> c])

\* delete_transaction, bulk_delete_transactions, and the cascade of deleting an
\* account or a connection.
DeleteRows(ids) ==
  /\ \A i \in ids : ledger[i].present
  /\ ledger' = [i \in Txn |-> IF i \in ids THEN NoRow ELSE ledger[i]]
  /\ assigned' = [i \in Txn |-> IF i \in ids THEN Nobody ELSE assigned[i]]
  /\ UNCHANGED <<configVars, startup, callVars, trigger, workerVars, stalled,
                 leftover>>

\* import_transactions: inserts or overwrites by (source, external_id); the
\* category comes from the file, else from a rule, else there is none.
\* create_transaction does the same to one row that is not there.
ImportRows(ids) ==
  \E choice \in [ids -> AnyCategory \cup {Nobody}] : WriteRows(ids, choice)

-----------------------------------------------------------------------------
(* Configuration: update_sections under its update lock *)

SaveConfig(on) ==
  /\ config = "idle"
  /\ configured' = on
  /\ config' = "commit"
  /\ UNCHANGED <<ledger, enabled, writing, tracking, startup, callVars, trigger,
                 workerVars, assigned, stalled, leftover>>

\* enable: write lock, Some, unlock, signal.
Enable ==
  /\ config = "commit" /\ configured
  /\ holding = {} /\ ~writing
  /\ enabled' = TRUE /\ trigger' = TRUE
  /\ config' = "idle"
  /\ UNCHANGED <<ledger, configured, writing, tracking, startup, callVars, workerVars,
                 assigned, stalled, leftover>>

\* disable: takes the write lock and the categorizer; None already is a no-op.
DisableBegin ==
  /\ config = "commit" /\ ~configured
  /\ holding = {} /\ ~writing
  /\ enabled' = FALSE
  /\ writing' = enabled
  /\ config' = IF enabled THEN "clearing" ELSE "idle"
  /\ UNCHANGED <<ledger, configured, tracking, startup, callVars, trigger, workerVars,
                 assigned, stalled, leftover>>

\* ClearStagedForLLM on a set of rows
Cleared(ids) ==
  [i \in Txn |-> IF i \in ids THEN [ledger[i] EXCEPT !.staged = FALSE]
                 ELSE ledger[i]]

DisableClear ==
  /\ config = "clearing"
  /\ ledger' = Cleared(Txn)
  /\ leftover' = FALSE
  /\ writing' = FALSE /\ config' = "idle"
  /\ UNCHANGED <<configured, enabled, tracking, startup, callVars, trigger, workerVars,
                 assigned, stalled>>

\* The clear fails (logged only), or the request is dropped here.
DisableAbandoned ==
  /\ config = "clearing"
  /\ leftover' = TRUE
  /\ writing' = FALSE /\ config' = "idle"
  /\ UNCHANGED <<ledger, configured, enabled, tracking, startup, callVars, trigger,
                 workerVars, assigned, stalled>>

\* The request is dropped after the section is saved and before its commit.
ConfigCancelled ==
  /\ config = "commit"
  /\ config' = "idle"
  /\ UNCHANGED <<ledger, configured, enabled, writing, tracking, startup, callVars,
                 trigger, workerVars, assigned, stalled, leftover>>

\* The general section is committed: the user turns tracking on or off.  It may
\* be part of the update that also commits the llm section.
SwitchTracking ==
  /\ tracking' \in Tracking \ {tracking}
  /\ UNCHANGED <<ledger, configured, enabled, writing, config, startup, callVars,
                 trigger, workerVars, assigned, stalled, leftover>>

-----------------------------------------------------------------------------
(* Process death and prepare_startup *)

\* Everything volatile is lost.  Boot reads the stored sections and enables the
\* categorizer (which signals) before any loop runs; the general section may hold
\* a value whose commit a dropped request never reached.
Crash ==
  /\ enabled' = configured /\ writing' = FALSE /\ config' = "idle"
  /\ tracking' \in Tracking /\ startup' = "check"
  /\ running' = {} /\ holding' = {} /\ stageFor' = [p \in Call |-> FALSE]
  /\ trigger' = configured
  /\ wpc' = "wait" /\ batch' = {} /\ snapshot' = {} /\ chunk' = {}
  /\ answers' = [i \in Txn |-> NoAnswer]
  /\ stalled' = FALSE
  /\ UNCHANGED <<ledger, configured, assigned, leftover>>

\* Mutant: a restart with the categorizer off keeps what was staged before.
StartupCheckOnly ==
  /\ startup = "check" /\ ~writing
  /\ trigger' = (trigger \/ enabled)
  /\ startup' = "done"
  /\ UNCHANGED <<ledger, configVars, callVars, workerVars, assigned, stalled,
                 leftover>>

StartupCheck ==
  /\ startup = "check" /\ ~writing
  /\ trigger' = (trigger \/ enabled)
  /\ startup' = IF enabled THEN "done" ELSE "clear"
  /\ UNCHANGED <<ledger, configVars, callVars, workerVars, assigned, stalled,
                 leftover>>

\* Clears every staged row, without the guard it read enabled through.
StartupClear ==
  /\ startup = "clear"
  /\ ledger' = Cleared(Txn)
  /\ leftover' = FALSE
  /\ startup' = "done"
  /\ UNCHANGED <<configVars, callVars, trigger, workerVars, assigned, stalled>>

StartupClearFails ==
  /\ startup = "clear"
  /\ leftover' = TRUE
  /\ startup' = "done"
  /\ UNCHANGED <<ledger, configVars, callVars, trigger, workerVars, assigned,
                 stalled>>

-----------------------------------------------------------------------------
(* The worker: run, drain, categorize *)

Receive ==
  /\ wpc = "wait" /\ trigger
  /\ trigger' = FALSE
  /\ wpc' = "check"
  /\ stalled' = FALSE
  /\ UNCHANGED <<ledger, configVars, startup, callVars, batch, snapshot, chunk,
                 answers, assigned, leftover>>

Check ==
  /\ wpc = "check" /\ ~writing
  /\ wpc' = IF enabled THEN "load" ELSE "wait"
  /\ UNCHANGED <<ledger, configVars, startup, callVars, trigger, batch,
                 snapshot, chunk, answers, assigned, stalled, leftover>>

AtMost(n, ids) ==
  {s \in SUBSET ids : Cardinality(s) = IF Cardinality(ids) < n
                                       THEN Cardinality(ids) ELSE n}

\* uncategorized_for_llm; the pfc2 flags are remembered from here on.  The
\* newest rows come first, any choice of Limit rows stands for an order.
Load ==
  /\ wpc = "load"
  /\ \/ /\ Staged = {}
        /\ wpc' = "wait" /\ stalled' = FALSE
        /\ UNCHANGED <<batch, snapshot>>
     \/ /\ Staged # {}
        /\ wpc' = "clone" /\ batch' \in AtMost(Limit, Staged)
        /\ snapshot' = {i \in batch' : ledger[i].pfc2}
        /\ UNCHANGED stalled
  /\ UNCHANGED <<ledger, configVars, startup, callVars, trigger, chunk,
                 answers, assigned, leftover>>

\* A copy of the categorizer; None ends the drain.
Clone ==
  /\ wpc = "clone" /\ ~writing
  /\ wpc' = IF enabled THEN "ask" ELSE "wait"
  /\ UNCHANGED <<ledger, configVars, startup, callVars, trigger, batch,
                 snapshot, chunk, answers, assigned, stalled, leftover>>

\* categorize_batch returns: any answer, or none, for each row of the chunk.
Ask ==
  /\ wpc = "ask"
  /\ chunk' \in AtMost(BatchSize, batch)
  /\ batch' = batch \ chunk'
  /\ \E f \in [chunk' -> Answer] :
       answers' = [i \in Txn |-> IF i \in chunk' THEN f[i] ELSE NoAnswer]
  /\ wpc' = "apply"
  /\ UNCHANGED <<ledger, configVars, startup, callVars, trigger, snapshot,
                 assigned, stalled, leftover>>

\* Mutant: ApplyLLMCategory without its WHERE guard on the category.
LlmRowUnguarded(row, c) ==
  IF row.present
    THEN [row EXCEPT !.category = c, !.reviewed = TRUE, !.staged = FALSE,
                     !.pfc2 = FALSE]
    ELSE row

\* ApplyLLMCategory: only a row without a category or with a PFC2 match.
LlmRow(row, c) ==
  IF row.present /\ (row.category = Uncategorized \/ row.pfc2)
    THEN [row EXCEPT !.category = c, !.reviewed = TRUE, !.staged = FALSE,
                     !.pfc2 = FALSE]
    ELSE row

\* apply_results, one result: a PFC2 match needs high confidence.
Accepted(i) == answers[i].category # Uncategorized
                 /\ (i \in snapshot => answers[i].high)

Apply(i) ==
  /\ wpc = "apply" /\ answers[i].category # Uncategorized
  /\ ledger' = [ledger EXCEPT ![i] =
       IF Accepted(i) THEN LlmRow(@, answers[i].category) ELSE @]
  /\ answers' = [answers EXCEPT ![i] = NoAnswer]
  /\ UNCHANGED <<configVars, startup, callVars, trigger, wpc, batch, snapshot,
                 chunk, assigned, stalled, leftover>>

ApplyDone ==
  /\ wpc = "apply"
  /\ \A i \in Txn : answers[i].category = Uncategorized
  /\ wpc' = "clear"
  /\ UNCHANGED <<ledger, configVars, startup, callVars, trigger, batch,
                 snapshot, chunk, answers, assigned, stalled, leftover>>

\* clear_staged for the chunk, answered or not; then the next chunk or load.
ClearChunk ==
  /\ wpc = "clear"
  /\ ledger' = Cleared(chunk)
  /\ wpc' = IF batch = {} THEN "load" ELSE "ask"
  /\ chunk' = {}
  /\ answers' = [i \in Txn |-> NoAnswer]
  /\ UNCHANGED <<configVars, startup, callVars, trigger, batch, snapshot,
                 assigned, stalled, leftover>>

\* A query or the LLM call fails: drain logs it and waits for a new wake-up.
WorkerError ==
  /\ wpc \in {"load", "ask", "apply", "clear"}
  /\ wpc' = "wait" /\ stalled' = TRUE
  /\ batch' = {} /\ snapshot' = {} /\ chunk' = {}
  /\ answers' = [i \in Txn |-> NoAnswer]
  /\ UNCHANGED <<ledger, configVars, startup, callVars, trigger, assigned,
                 leftover>>

-----------------------------------------------------------------------------
CallStep(p) ==
  \/ StartSync(p) \/ PersistBegin(p) \/ PersistCommit(p) \/ PersistRollback(p)
  \/ Signal(p) \/ Cancel(p)

UserAction ==
  \E ids \in {s \in SUBSET Txn : Cardinality(s) \in 1..Bulk} :
    \/ \E c \in AnyCategory : SetCategory(ids, c)
    \/ DeleteRows(ids) \/ ImportRows(ids)

ConfigStep ==
  \/ \E on \in BOOLEAN : SaveConfig(on)
  \/ Enable \/ DisableBegin \/ DisableClear \/ DisableAbandoned
  \/ ConfigCancelled \/ SwitchTracking

StartupStep == StartupCheck \/ StartupClear \/ StartupClearFails

\* Process death, dropped requests, failed queries and failed LLM calls.
FaultStep ==
  \/ Crash \/ WorkerError \/ DisableAbandoned \/ ConfigCancelled
  \/ StartupClearFails \/ (\E p \in Call : Cancel(p))

WorkerStep ==
  \/ Receive \/ Check \/ Load \/ Clone \/ Ask \/ (\E i \in Txn : Apply(i))
  \/ ApplyDone \/ ClearChunk

Next ==
  \/ \E p \in Call : CallStep(p)
  \/ ReprocessBegin \/ ReprocessStage
  \/ UserAction
  \/ ConfigStep \/ Crash \/ StartupStep
  \/ WorkerStep \/ WorkerError

Spec == Init /\ [][Next]_vars

\* The loops of a server without SYNC_OFF never stop: the worker is scheduled,
\* the hourly cron starts a sync again and again while tracking is on (nothing
\* is owed by a loop that finds it off, and an account event or a request may
\* never come), a lock holder releases its lock.  A sync call that has begun ends
\* because a provider has finitely many pages: it may take any number of them
\* before it signals (hence strong fairness), never infinitely many.
Fairness ==
  /\ WF_vars(WorkerStep)
  /\ \A p \in Hourly : WF_vars(StartSync(p))
  /\ \A p \in Sync : WF_vars(PersistRollback(p) \/ PersistCommit(p))
  /\ \A p \in Sync : SF_vars(Signal(p))
  /\ WF_vars(ReprocessStage \/ Signal(Reprocess))
  /\ WF_vars(DisableClear) /\ WF_vars(StartupCheck \/ StartupClear)

\* Faults may come at any time, but not for ever.
FaultsEnd == <>[][~FaultStep]_vars

FairSpec == Spec /\ Fairness /\ FaultsEnd

-----------------------------------------------------------------------------
(* Properties *)

\* While the categorizer is off no row is staged, so no row is hidden from
\* lists and reports waiting for a worker that will not come.  It rests on the
\* staging guard (llm_worker.rs:67) and on disable clearing under the write
\* lock; only an abandoned clear or a restart not yet prepared is excused.
DisabledMeansUnstaged ==
  (~enabled /\ ~writing /\ ~leftover /\ startup = "done") => Staged = {}

\* A staged row still needs a verdict: it has no category, or one that only the
\* PFC2 mapping gave.  A row a rule, a user or the LLM settled is never hidden.
StagedIsProvisional ==
  \A i \in Txn : ledger[i].staged =>
    /\ ledger[i].present
    /\ ledger[i].category = Uncategorized \/ ledger[i].pfc2

\* A category the user chose survives every later sync, LLM answer (also one
\* asked for before the choice), reprocess, disable and restart: server-rs
\* README, "Reviewed transactions keep their user-assigned category".
UserCategoryKept ==
  \A i \in Txn : assigned[i] \in Category =>
    ledger[i].reviewed /\ ledger[i].category = assigned[i]

\* A verdict is final, whoever gave it: a category that a rule, a user or the
\* LLM settled is changed by no later page of a provider, late answer, clear,
\* reprocess, configuration change or restart; only the user changes it, and
\* the row goes when its provider removes it (ApplyLLMCategory, the upsert).
Settled(row) ==
  row.present /\ row.reviewed /\ ~row.pfc2 /\ row.category # Uncategorized

VerdictsAreFinal ==
  [][\A i \in Txn : Settled(ledger[i]) =>
       ledger'[i] \in {ledger[i], NoRow} \/ UserAction]_vars

\* No row is staged by a step taken while the categorizer is off, however long
\* ago the call that takes it asked whether to stage (llm_worker.rs:67).
StagedOnlyWhileOn ==
  [][(\E i \in Txn : ~ledger[i].staged /\ ledger'[i].staged)
       => enabled /\ ~writing]_vars

\* What the deciders promise together: the ledger with its guard, batches, late
\* answers, crashes and dropped requests is one of RowVerdicts.
VerdictOf ==
  [i \in Txn |-> IF ~ledger[i].present THEN Nobody
                 ELSE IF Settled(ledger[i]) THEN ledger[i].category
                 ELSE Uncategorized]

Verdicts == INSTANCE RowVerdicts
  WITH verdict <- VerdictOf, waiting <- Staged, chosen <- assigned, on <- enabled
ImplementsVerdicts == Verdicts!Spec

\* No lost wake-up: if rows are staged, the categorizer is on and the worker
\* sleeps, then a wake-up is queued or some call that will signal is running,
\* unless a fault swallowed the wake-up.
NoLostWakeup ==
  (enabled /\ wpc = "wait" /\ ~trigger /\ ~stalled /\ Staged # {}) =>
    running # {}

\* Every staged row is resolved (categorized, or given back to the review
\* queue), or the categorizer or tracking is switched off: a dropped wake-up, an
\* LLM error or a restart only delays it to the next hourly sync, which runs and
\* signals only while tracking is on (syncer.rs:79).
StagedIsResolved ==
  \A i \in Txn :
    ledger[i].staged ~> (~ledger[i].staged \/ ~enabled \/ ~tracking)

=============================================================================
