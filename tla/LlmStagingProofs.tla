-------------------------- MODULE LlmStagingProofs --------------------------
(***************************************************************************)
(* Proofs about LlmStaging, for any number of rows, categories, calls and   *)
(* any batch limits.                                                        *)
(***************************************************************************)
EXTENDS LlmStaging, TLAPS

-----------------------------------------------------------------------------
(* What the row operators return *)

LEMMA NoRowType == NoRow \in Row
BY DEF NoRow, Row, AnyCategory

LEMMA UserRowType ==
  ASSUME NEW c \in AnyCategory PROVE UserRow(c) \in Row
BY DEF UserRow, Row

LEMMA OpenRowType == OpenRow \in Row
BY DEF OpenRow, NoRow, Row, AnyCategory

LEMMA UpsertType ==
  ASSUME NEW row \in Row, NEW match \in Match, NEW stage \in BOOLEAN
  PROVE  Upsert(row, match, stage) \in Row
BY DEF Upsert, Row, Match, AnyCategory

LEMMA AppliedType ==
  ASSUME NEW row \in Row, NEW event \in Event, NEW stage \in BOOLEAN
  PROVE  Applied(row, event, stage) \in Row
<1>1. CASE event.kind = "upsert"
  <2>1. event.match \in Match
    BY <1>1 DEF Event
  <2> QED
    BY <1>1, <2>1, UpsertType DEF Applied
<1>2. CASE event.kind # "upsert"
  BY <1>2, NoRowType DEF Applied, Event
<1> QED
  BY <1>1, <1>2

LEMMA ClearedType ==
  ASSUME ledger \in [Txn -> Row], NEW ids
  PROVE  Cleared(ids) \in [Txn -> Row]
BY DEF Cleared, Row

LEMMA StageUnreviewedType ==
  ASSUME ledger \in [Txn -> Row]
  PROVE  StageUnreviewed \in [Txn -> Row]
BY DEF StageUnreviewed, Row

LEMMA LlmRowType ==
  ASSUME NEW row \in Row, NEW c \in Category
  PROVE  LlmRow(row, c) \in Row
BY DEF LlmRow, Row, AnyCategory

LEMMA NoAnswerType == NoAnswer \in Answer
BY DEF Answer

-----------------------------------------------------------------------------
(* Types *)

LEMMA InitType == Init => TypeOK
<1> SUFFICES ASSUME Init PROVE TypeOK
  OBVIOUS
<1>1. ledger \in [Txn -> Row]
  BY NoRowType DEF Init
<1>2. answers \in [Txn -> Answer]
  BY NoAnswerType DEF Init
<1>3. assigned \in [Txn -> AnyCategory \cup {Nobody}]
  BY DEF Init
<1> QED
  BY <1>1, <1>2, <1>3, BoundAssumption DEF Init, TypeOK

LEMMA CallTypeStep ==
  ASSUME TypeOK, NEW p \in Call, CallStep(p)
  PROVE  TypeOK'
<1> USE DEF TypeOK, workerVars, configVars, callVars
<1>1. CASE StartSync(p)
  BY <1>1 DEF StartSync, Call
<1>2. CASE PersistBegin(p)
  BY <1>2 DEF PersistBegin
<1>3. CASE PersistCommit(p)
  <2> PICK page \in [Provider -> Event] :
        /\ ledger' = [i \in Txn |->
             IF i \in Provider
               THEN Applied(ledger[i], page[i], stageFor[p]) ELSE ledger[i]]
        /\ assigned' = [i \in Txn |->
             IF i \in Provider /\ page[i].kind = "remove"
               THEN Nobody ELSE assigned[i]]
    BY <1>3 DEF PersistCommit
  <2>1. ledger' \in [Txn -> Row]
    BY AppliedType
  <2>2. assigned' \in [Txn -> AnyCategory \cup {Nobody}]
    OBVIOUS
  <2> QED
    BY <1>3, <2>1, <2>2 DEF PersistCommit
<1>4. CASE PersistRollback(p)
  BY <1>4 DEF PersistRollback
<1>5. CASE Signal(p)
  BY <1>5 DEF Signal
<1>6. CASE Cancel(p)
  BY <1>6 DEF Cancel
<1> QED
  BY <1>1, <1>2, <1>3, <1>4, <1>5, <1>6 DEF CallStep

LEMMA WrittenType ==
  ASSUME NEW c \in AnyCategory \cup {Nobody}
  PROVE  Written(c) \in Row
BY UserRowType, OpenRowType DEF Written

LEMMA WriteRowsType ==
  ASSUME TypeOK, NEW ids \in SUBSET Txn,
         NEW choice \in [ids -> AnyCategory \cup {Nobody}],
         WriteRows(ids, choice)
  PROVE  TypeOK'
<1>1. ledger' \in [Txn -> Row]
  BY WrittenType DEF WriteRows, TypeOK
<1>2. assigned' \in [Txn -> AnyCategory \cup {Nobody}]
  BY DEF WriteRows, TypeOK
<1> QED
  BY <1>1, <1>2 DEF WriteRows, TypeOK, workerVars, configVars, callVars

LEMMA UserTypeStep ==
  ASSUME TypeOK, UserAction
  PROVE  TypeOK'
<1>1. ASSUME NEW ids \in SUBSET Txn, DeleteRows(ids)
      PROVE  TypeOK'
  BY <1>1, NoRowType DEF DeleteRows, TypeOK, workerVars, configVars, callVars
<1> QED
  BY <1>1, WriteRowsType
     DEF UserAction, SetCategory, ImportRows

LEMMA ConfigTypeStep ==
  ASSUME TypeOK, ConfigStep
  PROVE  TypeOK'
<1> USE DEF TypeOK, workerVars, configVars, callVars
<1>1. CASE \E on \in BOOLEAN : SaveConfig(on)
  BY <1>1 DEF SaveConfig
<1>2. CASE Enable
  BY <1>2 DEF Enable
<1>3. CASE DisableBegin
  BY <1>3 DEF DisableBegin
<1>4. CASE DisableClear
  BY <1>4, ClearedType DEF DisableClear
<1>5. CASE DisableAbandoned
  BY <1>5 DEF DisableAbandoned
<1>6. CASE ConfigCancelled
  BY <1>6 DEF ConfigCancelled
<1>7. CASE SwitchTracking
  BY <1>7, BoundAssumption DEF SwitchTracking
<1> QED
  BY <1>1, <1>2, <1>3, <1>4, <1>5, <1>6, <1>7 DEF ConfigStep

LEMMA StartupTypeStep ==
  ASSUME TypeOK, StartupStep
  PROVE  TypeOK'
<1> USE DEF TypeOK, workerVars, configVars, callVars
<1>1. CASE StartupCheck
  BY <1>1 DEF StartupCheck
<1>2. CASE StartupClear
  BY <1>2, ClearedType DEF StartupClear
<1>3. CASE StartupClearFails
  BY <1>3 DEF StartupClearFails
<1> QED
  BY <1>1, <1>2, <1>3 DEF StartupStep

LEMMA CrashTypeStep ==
  ASSUME TypeOK, Crash
  PROVE  TypeOK'
BY NoAnswerType, BoundAssumption DEF TypeOK, Crash

LEMMA WorkerTypeStep ==
  ASSUME TypeOK, WorkerStep \/ WorkerError
  PROVE  TypeOK'
<1> USE DEF TypeOK, workerVars, configVars, callVars
<1>1. CASE Receive
  BY <1>1 DEF Receive
<1>2. CASE Check
  BY <1>2 DEF Check
<1>3. CASE Load
  <2>1. batch' \subseteq Txn /\ snapshot' \subseteq Txn
    BY <1>3 DEF Load, AtMost, Staged
  <2>2. wpc' \in {"wait", "clone"} /\ stalled' \in BOOLEAN
    BY <1>3 DEF Load
  <2>3. UNCHANGED <<ledger, configVars, startup, callVars, trigger, chunk,
                    answers, assigned, leftover>>
    BY <1>3 DEF Load
  <2> QED
    BY <2>1, <2>2, <2>3
<1>4. CASE Clone
  BY <1>4 DEF Clone
<1>5. CASE Ask
  <2>1. chunk' \subseteq Txn
    BY <1>5 DEF Ask, AtMost
  <2>2. answers' \in [Txn -> Answer]
    BY <1>5, NoAnswerType DEF Ask
  <2> QED
    BY <1>5, <2>1, <2>2 DEF Ask
<1>6. CASE \E i \in Txn : Apply(i)
  <2> PICK i \in Txn : Apply(i)
    BY <1>6
  <2>1. answers[i].category \in Category
    BY DEF Apply, Answer, NoAnswer
  <2>2. ledger' \in [Txn -> Row]
    BY <2>1, LlmRowType DEF Apply
  <2>3. answers' \in [Txn -> Answer]
    BY NoAnswerType DEF Apply
  <2> QED
    BY <2>2, <2>3 DEF Apply
<1>7. CASE ApplyDone
  BY <1>7 DEF ApplyDone
<1>8. CASE ClearChunk
  BY <1>8, ClearedType, NoAnswerType DEF ClearChunk
<1>9. CASE WorkerError
  BY <1>9, NoAnswerType DEF WorkerError
<1> QED
  BY <1>1, <1>2, <1>3, <1>4, <1>5, <1>6, <1>7, <1>8, <1>9 DEF WorkerStep

LEMMA TypeStep == TypeOK /\ [Next]_vars => TypeOK'
<1> SUFFICES ASSUME TypeOK, [Next]_vars PROVE TypeOK'
  OBVIOUS
<1>1. CASE ReprocessBegin
  BY <1>1 DEF ReprocessBegin, TypeOK, Call, workerVars, configVars
<1>2. CASE ReprocessStage
  BY <1>2, StageUnreviewedType
     DEF ReprocessStage, TypeOK, workerVars, configVars
<1>3. CASE UNCHANGED vars
  BY <1>3 DEF vars, TypeOK, workerVars, configVars, callVars
<1> QED
  BY <1>1, <1>2, <1>3, CallTypeStep, UserTypeStep, ConfigTypeStep,
     CrashTypeStep, StartupTypeStep, WorkerTypeStep DEF Next

\* Every variable keeps its type, and only running calls hold the guard.
THEOREM TypeCorrect == Spec => []TypeOK
BY InitType, TypeStep, PTL DEF Spec

-----------------------------------------------------------------------------
(* The inductive invariant *)

\* Who holds the lock of the categorizer, and what a holder knows through it.
GuardInv ==
  /\ holding # {} => ~writing
  /\ \A p \in holding \cap Sync : stageFor[p] = enabled
  /\ Reprocess \in holding => enabled
  /\ writing => ~enabled
  /\ writing <=> config = "clearing"

\* Only a row somebody reviewed has a category, and a staged row has none that
\* a rule, a user or the LLM gave it.
RowOK(row) ==
  /\ ~row.reviewed => row.category = Uncategorized /\ ~row.pfc2
  /\ row.staged => row.present /\ (row.category = Uncategorized \/ row.pfc2)

RowInv == \A i \in Txn : RowOK(ledger[i])

\* A row the user categorized no longer counts as a PFC2 match.
Kept(row, c) ==
  c \in Category =>
    row.present /\ row.reviewed /\ ~row.pfc2 /\ row.category = c

UserInv == \A i \in Txn : Kept(ledger[i], assigned[i])

IInv == /\ TypeOK /\ GuardInv /\ RowInv /\ UserInv
        /\ DisabledMeansUnstaged /\ NoLostWakeup

LEMMA IInvImplies == IInv => StagedIsProvisional /\ UserCategoryKept
BY DEF IInv, RowInv, RowOK, UserInv, Kept, StagedIsProvisional,
       UserCategoryKept

\* Each way to write a row keeps it consistent and keeps the user's category,
\* and only the staging paths stage.

LEMMA NoRowOK == RowOK(NoRow)
BY DEF NoRow, RowOK

LEMMA UserRowOK ==
  ASSUME NEW c \in AnyCategory
  PROVE  RowOK(UserRow(c)) /\ Kept(UserRow(c), c) /\ ~UserRow(c).staged
BY DEF UserRow, RowOK, Kept

LEMMA OpenRowOK == RowOK(OpenRow) /\ ~OpenRow.staged
BY DEF OpenRow, NoRow, RowOK

LEMMA UpsertOK ==
  ASSUME NEW row \in Row, NEW match \in Match, NEW stage \in BOOLEAN,
         NEW c, RowOK(row), Kept(row, c)
  PROVE  /\ RowOK(Upsert(row, match, stage))
         /\ Kept(Upsert(row, match, stage), c)
         /\ ~stage /\ ~row.staged => ~Upsert(row, match, stage).staged
<1>1. CASE row.reviewed
  BY <1>1 DEF Upsert
<1>2. CASE ~row.reviewed
  BY <1>2 DEF Upsert, RowOK, Kept, Match
<1> QED
  BY <1>1, <1>2

LEMMA AppliedOK ==
  ASSUME NEW row \in Row, NEW event \in Event, NEW stage \in BOOLEAN,
         NEW c, RowOK(row), Kept(row, c)
  PROVE  /\ RowOK(Applied(row, event, stage))
         /\ event.kind # "remove" => Kept(Applied(row, event, stage), c)
         /\ ~stage /\ ~row.staged => ~Applied(row, event, stage).staged
<1>1. CASE event.kind = "upsert"
  <2>1. event.match \in Match
    BY <1>1 DEF Event
  <2>2. Applied(row, event, stage) = Upsert(row, event.match, stage)
    BY <1>1 DEF Applied
  <2> QED
    BY <2>1, <2>2, UpsertOK
<1>2. CASE event.kind = "remove"
  BY <1>2, NoRowOK DEF Applied, NoRow
<1>3. CASE event.kind = "skip"
  BY <1>3 DEF Applied
<1> QED
  BY <1>1, <1>2, <1>3 DEF Event

LEMMA LlmRowOK ==
  ASSUME NEW row \in Row, NEW c \in Category, NEW user, RowOK(row),
         Kept(row, user)
  PROVE  /\ RowOK(LlmRow(row, c)) /\ Kept(LlmRow(row, c), user)
         /\ LlmRow(row, c).staged => row.staged
BY CategoryAssumption DEF LlmRow, RowOK, Kept, Row

LEMMA FlagOK ==
  ASSUME NEW row \in Row, NEW flag \in BOOLEAN, NEW c, RowOK(row),
         Kept(row, c), flag => row.staged \/ (row.present /\ ~row.reviewed)
  PROVE  /\ RowOK([row EXCEPT !.staged = flag])
         /\ Kept([row EXCEPT !.staged = flag], c)
         /\ [row EXCEPT !.staged = flag].staged = flag
BY DEF RowOK, Kept, Row

LEMMA ClearedOK ==
  ASSUME TypeOK, RowInv, UserInv, NEW ids, ledger' = Cleared(ids),
         assigned' = assigned
  PROVE  RowInv' /\ UserInv' /\ Staged' = Staged \ ids
<1>1. \A i \in Txn : /\ ledger[i] \in Row /\ RowOK(ledger[i])
                     /\ Kept(ledger[i], assigned[i])
  BY DEF TypeOK, RowInv, UserInv
<1>2. \A i \in Txn : ledger'[i] = IF i \in ids
                       THEN [ledger[i] EXCEPT !.staged = FALSE] ELSE ledger[i]
  BY DEF Cleared
<1>3. ASSUME NEW i \in Txn
      PROVE  /\ RowOK(ledger'[i]) /\ Kept(ledger'[i], assigned[i])
             /\ ledger'[i].staged <=> (ledger[i].staged /\ i \notin ids)
  <2>1. CASE i \in ids
    BY <2>1, <1>1, <1>2, FlagOK
  <2>2. CASE i \notin ids
    BY <2>2, <1>1, <1>2
  <2> QED
    BY <2>1, <2>2
<1> QED
  BY <1>3 DEF RowInv, UserInv, Staged

LEMMA StageUnreviewedOK ==
  ASSUME TypeOK, RowInv, UserInv, ledger' = StageUnreviewed,
         assigned' = assigned
  PROVE  RowInv' /\ UserInv'
<1> SUFFICES ASSUME NEW i \in Txn
             PROVE  RowOK(ledger'[i]) /\ Kept(ledger'[i], assigned[i])
  BY DEF RowInv, UserInv
<1> DEFINE flag == ledger[i].staged
                     \/ (ledger[i].present /\ ~ledger[i].reviewed)
<1>1. /\ ledger[i] \in Row /\ RowOK(ledger[i])
      /\ Kept(ledger[i], assigned[i])
  BY DEF TypeOK, RowInv, UserInv
<1>2. ledger'[i] = [ledger[i] EXCEPT !.staged = flag]
  BY DEF StageUnreviewed
<1>3. flag \in BOOLEAN
  OBVIOUS
<1> HIDE DEF flag
<1>4. flag => ledger[i].staged \/ (ledger[i].present /\ ~ledger[i].reviewed)
  BY DEF flag
<1> QED
  BY <1>1, <1>2, <1>3, <1>4, FlagOK

-----------------------------------------------------------------------------
(* Steps that write no row *)

Quiet == ledger' = ledger /\ assigned' = assigned

LEMMA QuietOK ==
  ASSUME RowInv, UserInv, Quiet
  PROVE  RowInv' /\ UserInv' /\ Staged' = Staged
BY DEF RowInv, UserInv, Quiet, Staged

-----------------------------------------------------------------------------
(* Initial states *)

LEMMA InitIInv == Init => IInv
<1> SUFFICES ASSUME Init PROVE IInv
  OBVIOUS
<1>1. TypeOK
  BY InitType
<1>2. GuardInv
  BY DEF Init, GuardInv
<1>3. RowInv /\ Staged = {}
  BY NoRowOK DEF Init, RowInv, Staged, NoRow
<1>4. UserInv
  BY CategoryAssumption DEF Init, UserInv, Kept
<1> QED
  BY <1>1, <1>2, <1>3, <1>4
     DEF IInv, DisabledMeansUnstaged, NoLostWakeup

-----------------------------------------------------------------------------
(* Sync calls and reprocess *)

LEMMA PersistCommitStep ==
  ASSUME IInv, NEW p \in Call, PersistCommit(p)
  PROVE  /\ RowInv' /\ UserInv'
         /\ ~enabled => Staged' \subseteq Staged
<1> PICK page \in [Provider -> Event] :
      /\ ledger' = [i \in Txn |->
           IF i \in Provider
             THEN Applied(ledger[i], page[i], stageFor[p]) ELSE ledger[i]]
      /\ assigned' = [i \in Txn |->
           IF i \in Provider /\ page[i].kind = "remove"
             THEN Nobody ELSE assigned[i]]
  BY DEF PersistCommit
<1>1. stageFor[p] \in BOOLEAN /\ stageFor[p] = enabled
  BY DEF IInv, TypeOK, GuardInv, PersistCommit
<1>2. ASSUME NEW i \in Txn
      PROVE  /\ RowOK(ledger'[i]) /\ Kept(ledger'[i], assigned'[i])
             /\ ~enabled /\ ledger'[i].staged => ledger[i].staged
  <2>1. /\ ledger[i] \in Row /\ RowOK(ledger[i])
        /\ Kept(ledger[i], assigned[i])
    BY DEF IInv, TypeOK, RowInv, UserInv
  <2>2. CASE i \in Provider
    <3>1. /\ RowOK(ledger'[i])
          /\ page[i].kind # "remove" => Kept(ledger'[i], assigned[i])
          /\ ~enabled /\ ledger'[i].staged => ledger[i].staged
      BY <1>1, <2>1, <2>2, AppliedOK
    <3>2. page[i].kind = "remove" => Kept(ledger'[i], assigned'[i])
      BY <2>2, CategoryAssumption DEF Kept
    <3> QED
      BY <3>1, <3>2, <2>2
  <2>3. CASE i \notin Provider
    BY <2>1, <2>3
  <2> QED
    BY <2>2, <2>3
<1> QED
  BY <1>2 DEF RowInv, UserInv, Staged

LEMMA CallIInvStep ==
  ASSUME IInv, NEW p \in Call, CallStep(p)
  PROVE  IInv'
<1> USE DEF IInv
<1>0. TypeOK'
  BY CallTypeStep
<1>1. GuardInv'
  <2>1. CASE StartSync(p)
    BY <2>1 DEF StartSync, GuardInv, configVars
  <2>2. CASE PersistBegin(p)
    BY <2>2, CallAssumption
       DEF PersistBegin, GuardInv, TypeOK, configVars, Sync
  <2>3. CASE PersistCommit(p)
    BY <2>3 DEF PersistCommit, GuardInv, configVars
  <2>4. CASE PersistRollback(p)
    BY <2>4 DEF PersistRollback, GuardInv, configVars
  <2>5. CASE Signal(p)
    BY <2>5 DEF Signal, GuardInv, configVars
  <2>6. CASE Cancel(p)
    BY <2>6 DEF Cancel, GuardInv, configVars
  <2> QED
    BY <2>1, <2>2, <2>3, <2>4, <2>5, <2>6 DEF CallStep
<1>2. /\ RowInv' /\ UserInv'
      /\ ~enabled => Staged' \subseteq Staged
      /\ ~PersistCommit(p) => Staged' = Staged
  <2>1. CASE PersistCommit(p)
    BY <2>1, PersistCommitStep
  <2>2. CASE ~PersistCommit(p)
    <3>1. Quiet
      BY <2>2 DEF CallStep, StartSync, PersistBegin, PersistRollback, Signal,
                  Cancel, Quiet
    <3> QED
      BY <2>2, <3>1, QuietOK
  <2> QED
    BY <2>1, <2>2
<1>3. DisabledMeansUnstaged'
  <2>1. UNCHANGED <<enabled, writing, leftover, startup>>
    BY DEF CallStep, StartSync, PersistBegin, PersistCommit, PersistRollback,
           Signal, Cancel, configVars
  <2> QED
    BY <1>2, <2>1 DEF DisabledMeansUnstaged
<1>4. NoLostWakeup'
  <2>1. CASE StartSync(p)
    BY <2>1 DEF StartSync, NoLostWakeup
  <2>2. CASE PersistBegin(p)
    BY <2>2, <1>2 DEF PersistBegin, NoLostWakeup
  <2>3. CASE PersistCommit(p)
    BY <2>3 DEF PersistCommit, NoLostWakeup, TypeOK
  <2>4. CASE PersistRollback(p)
    BY <2>4 DEF PersistRollback, NoLostWakeup, TypeOK
  <2>5. CASE Signal(p)
    BY <2>5 DEF Signal, NoLostWakeup
  <2>6. CASE Cancel(p)
    BY <2>6 DEF Cancel, NoLostWakeup
  <2> QED
    BY <2>1, <2>2, <2>3, <2>4, <2>5, <2>6 DEF CallStep
<1> QED
  BY <1>0, <1>1, <1>2, <1>3, <1>4

LEMMA ReprocessIInvStep ==
  ASSUME IInv, ReprocessBegin \/ ReprocessStage
  PROVE  IInv'
<1> USE DEF IInv, configVars
<1>1. CASE ReprocessBegin
  <2>1. TypeOK' /\ GuardInv'
    BY <1>1, TypeStep, CallAssumption
       DEF Next, ReprocessBegin, GuardInv, Sync
  <2>2. RowInv' /\ UserInv' /\ Staged' = Staged
    BY <1>1, QuietOK DEF ReprocessBegin, Quiet
  <2> QED
    BY <1>1, <2>1, <2>2
       DEF ReprocessBegin, DisabledMeansUnstaged, NoLostWakeup
<1>2. CASE ReprocessStage
  <2>1. TypeOK' /\ GuardInv'
    BY <1>2, TypeStep DEF Next, ReprocessStage, GuardInv
  <2>2. RowInv' /\ UserInv'
    BY <1>2, StageUnreviewedOK DEF ReprocessStage
  <2>3. enabled' /\ running' # {}
    BY <1>2 DEF ReprocessStage, GuardInv, TypeOK, callVars
  <2> QED
    BY <2>1, <2>2, <2>3 DEF DisabledMeansUnstaged, NoLostWakeup
<1> QED
  BY <1>1, <1>2

-----------------------------------------------------------------------------
(* The user *)

LEMMA WrittenOK ==
  ASSUME NEW c \in AnyCategory \cup {Nobody}
  PROVE  RowOK(Written(c)) /\ Kept(Written(c), c) /\ ~Written(c).staged
<1>1. CASE c = Nobody
  BY <1>1, OpenRowOK, CategoryAssumption DEF Written, Kept
<1>2. CASE c # Nobody
  BY <1>2, UserRowOK DEF Written
<1> QED
  BY <1>1, <1>2

LEMMA WriteRowsIInv ==
  ASSUME IInv, NEW ids \in SUBSET Txn,
         NEW choice \in [ids -> AnyCategory \cup {Nobody}],
         WriteRows(ids, choice)
  PROVE  IInv'
<1> USE DEF IInv, configVars, callVars, workerVars
<1>1. TypeOK'
  BY WriteRowsType
<1>2. GuardInv'
  BY DEF WriteRows, GuardInv
<1>3. ASSUME NEW j \in Txn
      PROVE  /\ RowOK(ledger'[j]) /\ Kept(ledger'[j], assigned'[j])
             /\ ledger'[j].staged => ledger[j].staged
  BY WrittenOK DEF WriteRows, RowInv, UserInv
<1>4. RowInv' /\ UserInv' /\ Staged' \subseteq Staged
  BY <1>3 DEF RowInv, UserInv, Staged
<1> QED
  BY <1>1, <1>2, <1>4 DEF WriteRows, DisabledMeansUnstaged, NoLostWakeup

LEMMA DeleteRowsIInv ==
  ASSUME IInv, NEW ids \in SUBSET Txn, DeleteRows(ids)
  PROVE  IInv'
<1> USE DEF IInv, configVars, callVars, workerVars
<1>1. TypeOK'
  BY NoRowType DEF DeleteRows, TypeOK
<1>2. GuardInv'
  BY DEF DeleteRows, GuardInv
<1>3. ASSUME NEW j \in Txn
      PROVE  /\ RowOK(ledger'[j]) /\ Kept(ledger'[j], assigned'[j])
             /\ ledger'[j].staged => ledger[j].staged
  <2>1. Kept(NoRow, Nobody) /\ ~NoRow.staged
    BY CategoryAssumption DEF Kept, NoRow
  <2> QED
    BY <2>1, NoRowOK DEF DeleteRows, RowInv, UserInv
<1>4. RowInv' /\ UserInv' /\ Staged' \subseteq Staged
  BY <1>3 DEF RowInv, UserInv, Staged
<1> QED
  BY <1>1, <1>2, <1>4 DEF DeleteRows, DisabledMeansUnstaged, NoLostWakeup

LEMMA UserIInvStep ==
  ASSUME IInv, UserAction
  PROVE  IInv'
BY WriteRowsIInv, DeleteRowsIInv
   DEF UserAction, SetCategory, ImportRows

-----------------------------------------------------------------------------
(* Configuration, startup, process death *)

LEMMA ConfigIInvStep ==
  ASSUME IInv, ConfigStep
  PROVE  IInv'
<1> USE DEF IInv, callVars, workerVars
<1>0. TypeOK'
  BY ConfigTypeStep
<1>1. CASE DisableClear
  <2>1. RowInv' /\ UserInv' /\ Staged' = {}
    BY <1>1, ClearedOK DEF DisableClear, Staged
  <2> QED
    BY <1>0, <1>1, <2>1
       DEF DisableClear, GuardInv, DisabledMeansUnstaged, NoLostWakeup
<1>2. CASE ~DisableClear
  <2>1. RowInv' /\ UserInv' /\ Staged' = Staged
    <3>1. Quiet
      BY <1>2 DEF ConfigStep, SaveConfig, Enable, DisableBegin,
                  DisableAbandoned, ConfigCancelled, SwitchTracking, Quiet
    <3> QED
      BY <3>1, QuietOK
  <2>2. CASE \E on \in BOOLEAN : SaveConfig(on)
    BY <1>0, <2>1, <2>2
       DEF SaveConfig, GuardInv, DisabledMeansUnstaged, NoLostWakeup
  <2>3. CASE Enable
    BY <1>0, <2>1, <2>3
       DEF Enable, GuardInv, DisabledMeansUnstaged, NoLostWakeup
  <2>4. CASE DisableBegin
    BY <1>0, <2>1, <2>4
       DEF DisableBegin, GuardInv, DisabledMeansUnstaged, NoLostWakeup
  <2>5. CASE DisableAbandoned
    BY <1>0, <2>1, <2>5
       DEF DisableAbandoned, GuardInv, DisabledMeansUnstaged, NoLostWakeup
  <2>6. CASE ConfigCancelled
    BY <1>0, <2>1, <2>6
       DEF ConfigCancelled, GuardInv, DisabledMeansUnstaged, NoLostWakeup
  <2>7. CASE SwitchTracking
    BY <1>0, <2>1, <2>7
       DEF SwitchTracking, GuardInv, DisabledMeansUnstaged, NoLostWakeup
  <2> QED
    BY <1>2, <2>2, <2>3, <2>4, <2>5, <2>6, <2>7 DEF ConfigStep
<1> QED
  BY <1>1, <1>2

LEMMA StartupIInvStep ==
  ASSUME IInv, StartupStep
  PROVE  IInv'
<1> USE DEF IInv, configVars, callVars, workerVars
<1>0. TypeOK'
  BY StartupTypeStep
<1>1. GuardInv'
  BY DEF StartupStep, StartupCheck, StartupClear, StartupClearFails, GuardInv
<1>2. CASE StartupClear
  <2>1. RowInv' /\ UserInv' /\ Staged' = {}
    BY <1>2, ClearedOK DEF StartupClear, Staged
  <2> QED
    BY <1>0, <1>1, <1>2, <2>1
       DEF StartupClear, DisabledMeansUnstaged, NoLostWakeup
<1>3. CASE StartupCheck
  <2>1. RowInv' /\ UserInv' /\ Staged' = Staged
    BY <1>3, QuietOK DEF StartupCheck, Quiet
  <2> QED
    BY <1>0, <1>1, <1>3, <2>1
       DEF StartupCheck, DisabledMeansUnstaged, NoLostWakeup
<1>4. CASE StartupClearFails
  <2>1. RowInv' /\ UserInv' /\ Staged' = Staged
    BY <1>4, QuietOK DEF StartupClearFails, Quiet
  <2> QED
    BY <1>0, <1>1, <1>4, <2>1
       DEF StartupClearFails, DisabledMeansUnstaged, NoLostWakeup
<1> QED
  BY <1>2, <1>3, <1>4 DEF StartupStep

LEMMA CrashIInvStep ==
  ASSUME IInv, Crash
  PROVE  IInv'
<1>1. TypeOK'
  BY CrashTypeStep DEF IInv
<1>2. RowInv' /\ UserInv' /\ Staged' = Staged
  BY QuietOK DEF IInv, Crash, Quiet
<1> QED
  BY <1>1, <1>2
     DEF IInv, Crash, GuardInv, DisabledMeansUnstaged, NoLostWakeup

-----------------------------------------------------------------------------
(* The worker *)

LEMMA ApplyStep ==
  ASSUME IInv, NEW i \in Txn, Apply(i)
  PROVE  RowInv' /\ UserInv' /\ Staged' \subseteq Staged
<1>1. answers[i].category \in Category
  BY DEF IInv, TypeOK, Apply, Answer, NoAnswer
<1>2. ASSUME NEW j \in Txn
      PROVE  /\ RowOK(ledger'[j]) /\ Kept(ledger'[j], assigned[j])
             /\ ledger'[j].staged => ledger[j].staged
  <2>1. /\ ledger[j] \in Row /\ RowOK(ledger[j])
        /\ Kept(ledger[j], assigned[j])
    BY DEF IInv, TypeOK, RowInv, UserInv
  <2>2. CASE ledger'[j] = ledger[j]
    BY <2>1, <2>2
  <2>3. CASE ledger'[j] # ledger[j]
    <3>1. ledger'[j] = LlmRow(ledger[j], answers[i].category)
      BY <2>3 DEF Apply, IInv, TypeOK
    <3> QED
      BY <1>1, <2>1, <3>1, LlmRowOK
  <2> QED
    BY <2>2, <2>3
<1> QED
  BY <1>2 DEF Apply, RowInv, UserInv, Staged

LEMMA WorkerIInvStep ==
  ASSUME IInv, WorkerStep \/ WorkerError
  PROVE  IInv'
<1> USE DEF IInv, configVars, callVars
<1>0. TypeOK'
  BY WorkerTypeStep
<1>1. /\ UNCHANGED <<enabled, writing, config, leftover, startup>>
      /\ UNCHANGED <<running, holding, stageFor>>
  BY DEF WorkerStep, Receive, Check, Load, Clone, Ask, Apply, ApplyDone,
         ClearChunk, WorkerError
<1>2. GuardInv'
  BY <1>1 DEF GuardInv
<1>3. RowInv' /\ UserInv' /\ Staged' \subseteq Staged
  <2>1. CASE \E i \in Txn : Apply(i)
    BY <2>1, ApplyStep
  <2>2. CASE ClearChunk
    BY <2>2, ClearedOK DEF ClearChunk
  <2>3. CASE ~ClearChunk /\ ~\E i \in Txn : Apply(i)
    <3>1. Quiet
      BY <2>3 DEF WorkerStep, Receive, Check, Load, Clone, Ask, ApplyDone,
                  WorkerError, Quiet
    <3> QED
      BY <3>1, QuietOK
  <2> QED
    BY <2>1, <2>2, <2>3
<1>4. DisabledMeansUnstaged'
  BY <1>1, <1>3 DEF DisabledMeansUnstaged
<1>5. NoLostWakeup'
  <2>1. CASE Receive \/ ClearChunk \/ ApplyDone \/ Ask
    BY <2>1 DEF Receive, ClearChunk, ApplyDone, Ask, NoLostWakeup
  <2>2. CASE \E i \in Txn : Apply(i)
    BY <2>2 DEF Apply, NoLostWakeup
  <2>3. CASE Check \/ Clone
    BY <2>3 DEF Check, Clone, NoLostWakeup
  <2>4. CASE Load
    BY <2>4, <1>3 DEF Load, NoLostWakeup
  <2>5. CASE WorkerError
    BY <2>5 DEF WorkerError, NoLostWakeup
  <2> QED
    BY <2>1, <2>2, <2>3, <2>4, <2>5 DEF WorkerStep
<1> QED
  BY <1>0, <1>2, <1>3, <1>4, <1>5

-----------------------------------------------------------------------------
(* The theorems *)

LEMMA IInvStep == IInv /\ [Next]_vars => IInv'
<1> SUFFICES ASSUME IInv, [Next]_vars PROVE IInv'
  OBVIOUS
<1>1. CASE UNCHANGED vars
  <2>1. TypeOK' /\ GuardInv'
    BY <1>1 DEF IInv, TypeOK, GuardInv, vars, configVars, callVars, workerVars
  <2>2. RowInv' /\ UserInv' /\ Staged' = Staged
    BY <1>1, QuietOK DEF IInv, vars, Quiet
  <2> QED
    BY <1>1, <2>1, <2>2
       DEF IInv, vars, configVars, callVars, workerVars,
           DisabledMeansUnstaged, NoLostWakeup
<1> QED
  BY <1>1, CallIInvStep, ReprocessIInvStep, UserIInvStep, ConfigIInvStep,
     CrashIInvStep, StartupIInvStep, WorkerIInvStep DEF Next

LEMMA Invariant == Spec => []IInv
BY InitIInv, IInvStep, PTL DEF Spec

\* Disabling the categorizer leaves no row staged, however syncs, requests,
\* restarts and the worker interleave with it.
THEOREM DisabledUnstaged == Spec => []DisabledMeansUnstaged
<1>1. IInv => DisabledMeansUnstaged
  BY DEF IInv
<1> QED
  BY <1>1, Invariant, PTL

\* No row that a rule, a user or the LLM settled is ever staged.
THEOREM StagedProvisional == Spec => []StagedIsProvisional
BY IInvImplies, Invariant, PTL

\* A user's category outlives every sync, LLM answer, reprocess and restart.
THEOREM UserChoiceKept == Spec => []UserCategoryKept
BY IInvImplies, Invariant, PTL

\* Without a fault no wake-up of the worker is lost.
THEOREM WakeupKept == Spec => []NoLostWakeup
<1>1. IInv => NoLostWakeup
  BY DEF IInv
<1> QED
  BY <1>1, Invariant, PTL

-----------------------------------------------------------------------------
(* What a step may do to a row *)

\* The steps that write rows, and no others.
Writes ==
  \/ \E p \in Call : PersistCommit(p)
  \/ ReprocessStage \/ UserAction
  \/ \E i \in Txn : Apply(i)
  \/ ClearChunk \/ DisableClear \/ StartupClear

LEMMA NotWritten ==
  ASSUME [Next]_vars, ~Writes
  PROVE  ledger' = ledger
BY DEF Writes, Next, CallStep, StartSync, PersistBegin, PersistRollback, Signal,
       Cancel, ReprocessBegin, ConfigStep, SaveConfig, Enable, DisableBegin,
       DisableAbandoned, ConfigCancelled, SwitchTracking, Crash, StartupStep, StartupCheck,
       StartupClearFails, WorkerStep, Receive, Check, Load, Clone, Ask, ApplyDone,
       WorkerError, vars

LEMMA UserStagesNothing ==
  ASSUME UserAction
  PROVE  Staged' \subseteq Staged
<1>1. ASSUME NEW ids \in SUBSET Txn,
             NEW choice \in [ids -> AnyCategory \cup {Nobody}],
             WriteRows(ids, choice)
      PROVE  Staged' \subseteq Staged
  BY <1>1, WrittenOK DEF WriteRows, Staged
<1>2. ASSUME NEW ids \in SUBSET Txn, DeleteRows(ids)
      PROVE  Staged' \subseteq Staged
  BY <1>2 DEF DeleteRows, NoRow, Staged
<1> QED
  BY <1>1, <1>2 DEF UserAction, SetCategory, ImportRows

LEMMA ClearStagesNothing ==
  ASSUME TypeOK, NEW ids, ledger' = Cleared(ids)
  PROVE  Staged' \subseteq Staged
BY DEF TypeOK, Cleared, Row, Staged

\* A settled row is out of reach of everything but the user and its provider's
\* removal.
LEMMA SettledUpsert ==
  ASSUME NEW row \in Row, NEW event \in Event, NEW stage, Settled(row)
  PROVE  Applied(row, event, stage) \in {row, NoRow}
BY DEF Settled, Applied, Upsert, Event

LEMMA SettledCleared ==
  ASSUME NEW row \in Row, RowOK(row), Settled(row)
  PROVE  [row EXCEPT !.staged = FALSE] = row
BY DEF Settled, RowOK, Row

LEMMA SettledClear ==
  ASSUME IInv, NEW ids, ledger' = Cleared(ids), NEW i \in Txn, Settled(ledger[i])
  PROVE  ledger'[i] = ledger[i]
<1>1. ledger[i] \in Row /\ RowOK(ledger[i])
  BY DEF IInv, TypeOK, RowInv
<1>2. ledger'[i] \in {ledger[i], [ledger[i] EXCEPT !.staged = FALSE]}
  BY DEF Cleared
<1> QED
  BY <1>1, <1>2, SettledCleared

\* A verdict of a rule, a user or the LLM is changed by the user alone, and
\* lost only when the provider removes the transaction (ApplyLLMCategory, the
\* upsert of a sync, ClearStagedForLLM, StageUncategorizedForLLM).
THEOREM FinalVerdicts == Spec => VerdictsAreFinal
<1> DEFINE Final == \A i \in Txn : Settled(ledger[i]) =>
                      ledger'[i] \in {ledger[i], NoRow} \/ UserAction
<1>1. IInv /\ [Next]_vars => Final
  <2> SUFFICES ASSUME IInv, [Next]_vars, NEW i \in Txn, Settled(ledger[i]),
                      ~UserAction
               PROVE  ledger'[i] \in {ledger[i], NoRow}
    OBVIOUS
  <2>1. ledger[i] \in Row /\ ledger \in [Txn -> Row]
    BY DEF IInv, TypeOK
  <2>2. ASSUME NEW p \in Call, PersistCommit(p)
        PROVE  ledger'[i] \in {ledger[i], NoRow}
    <3>1. PICK page \in [Provider -> Event] :
            ledger' = [j \in Txn |->
              IF j \in Provider
                THEN Applied(ledger[j], page[j], stageFor[p]) ELSE ledger[j]]
      BY <2>2 DEF PersistCommit
    <3> QED
      BY <2>1, <3>1, SettledUpsert
  <2>3. CASE ReprocessStage
    <3>1. ledger'[i] = [ledger[i] EXCEPT !.staged = ledger[i].staged]
      BY <2>1, <2>3 DEF ReprocessStage, StageUnreviewed, Settled, Row
    <3> QED
      BY <2>1, <3>1 DEF Row
  <2>4. ASSUME NEW j \in Txn, Apply(j) PROVE ledger'[i] = ledger[i]
    BY <2>1, <2>4 DEF Apply, LlmRow, Settled
  <2>5. CASE ClearChunk \/ DisableClear \/ StartupClear
    BY <2>5, SettledClear DEF ClearChunk, DisableClear, StartupClear
  <2> QED
    BY <2>2, <2>3, <2>4, <2>5, NotWritten DEF Writes
<1> QED
  BY <1>1, Invariant, PTL DEF Spec, VerdictsAreFinal

\* Nothing is staged while the categorizer is off, also not by a call that read
\* it as on before it went off (llm_worker.rs:67).
THEOREM StagingNeedsTheGuard == Spec => StagedOnlyWhileOn
<1> DEFINE Guarded == (\E i \in Txn : ~ledger[i].staged /\ ledger'[i].staged)
                        => enabled /\ ~writing
<1>1. IInv /\ [Next]_vars => Guarded
  <2> SUFFICES ASSUME IInv, [Next]_vars, ~(enabled /\ ~writing)
               PROVE  Staged' \subseteq Staged
    BY DEF Staged
  <2>1. ~enabled
    BY DEF IInv, GuardInv
  <2>2. ~ReprocessStage
    BY <2>1 DEF IInv, GuardInv, ReprocessStage
  <2>3. CASE \E p \in Call : PersistCommit(p)
    BY <2>1, <2>3, PersistCommitStep
  <2>4. CASE \E i \in Txn : Apply(i)
    BY <2>4, ApplyStep
  <2>5. CASE ClearChunk \/ DisableClear \/ StartupClear
    BY <2>5, ClearStagesNothing DEF IInv, ClearChunk, DisableClear, StartupClear
  <2>6. CASE UserAction
    BY <2>6, UserStagesNothing
  <2>7. CASE ~Writes
    BY <2>7, NotWritten DEF Staged
  <2> QED
    BY <2>2, <2>3, <2>4, <2>5, <2>6, <2>7 DEF Writes
<1> QED
  BY <1>1, Invariant, PTL DEF Spec, StagedOnlyWhileOn

-----------------------------------------------------------------------------
(* The deciders together implement RowVerdicts *)

LEMMA VerdictsInit == Init => Verdicts!Init
<1> SUFFICES ASSUME Init PROVE Verdicts!Init
  OBVIOUS
<1>1. VerdictOf = [i \in Txn |-> Nobody]
  BY DEF Init, VerdictOf, NoRow
<1>2. Staged = {}
  BY DEF Init, Staged, NoRow
<1> QED
  BY <1>1, <1>2 DEF Init, Verdicts!Init

LEMMA WaitingIsOpen ==
  IInv' => Staged' \subseteq {i \in Txn : VerdictOf'[i] = Uncategorized}
BY DEF IInv, RowInv, RowOK, Staged, VerdictOf, Settled

\* How a step that is not the user's may treat a row.
RowMove(i) ==
  \/ /\ ledger'[i].present = ledger[i].present
     /\ Settled(ledger'[i]) = Settled(ledger[i])
     /\ ledger'[i].category = ledger[i].category
     /\ assigned'[i] = assigned[i]
  \/ /\ ~Settled(ledger[i]) /\ (ledger[i].present => ledger'[i].present)
     /\ assigned'[i] = assigned[i]
  \/ ~ledger'[i].present /\ assigned'[i] = Nobody

LEMMA RowProcess ==
  ASSUME TypeOK, TypeOK', NEW i \in Txn, RowMove(i)
  PROVE  Verdicts!Stays(i) \/ Verdicts!Goes(i) \/ Verdicts!Decided(i)
<1>1. /\ VerdictOf[i] = IF ~ledger[i].present THEN Nobody
                        ELSE IF Settled(ledger[i]) THEN ledger[i].category
                        ELSE Uncategorized
      /\ VerdictOf'[i] = IF ~ledger'[i].present THEN Nobody
                         ELSE IF Settled(ledger'[i]) THEN ledger'[i].category
                         ELSE Uncategorized
  BY DEF VerdictOf
<1>2. ledger[i] \in Row /\ ledger'[i] \in Row
  BY DEF TypeOK
<1>3. ledger'[i].category \in Category \cup {Uncategorized}
  BY <1>2 DEF Row, AnyCategory
<1>4. CASE ~Settled(ledger[i]) /\ (ledger[i].present => ledger'[i].present)
             /\ assigned'[i] = assigned[i]
  <2>1. VerdictOf[i] \notin Category
    BY <1>1, <1>4, CategoryAssumption
  <2>2. CASE ledger'[i].present
    BY <1>1, <1>3, <1>4, <2>1, <2>2 DEF Verdicts!Decided
  <2>3. CASE ~ledger'[i].present
    BY <1>1, <1>4, <2>3 DEF Verdicts!Stays
  <2> QED
    BY <2>2, <2>3
<1> QED
  BY <1>1, <1>4 DEF RowMove, Verdicts!Stays, Verdicts!Goes

LEMMA ProcessStep ==
  ASSUME IInv, IInv', enabled' = enabled, enabled \/ Staged' \subseteq Staged,
         \A i \in Txn : RowMove(i)
  PROVE  Verdicts!Process
<1>1. Staged' \subseteq {i \in Txn : VerdictOf'[i] = Uncategorized}
  BY WaitingIsOpen
<1>2. \A i \in Txn : Verdicts!Stays(i) \/ Verdicts!Goes(i) \/ Verdicts!Decided(i)
  BY RowProcess DEF IInv
<1> QED
  BY <1>1, <1>2 DEF Verdicts!Process

LEMMA ChooseStep ==
  ASSUME IInv, NEW ids \in SUBSET Txn,
         NEW choice \in [ids -> AnyCategory \cup {Nobody}],
         WriteRows(ids, choice)
  PROVE  Verdicts!Choose(ids, choice)
<1>1. \A i \in Txn : ledger'[i] = IF i \in ids THEN Written(choice[i])
                                  ELSE ledger[i]
  BY DEF WriteRows
<1>2. ASSUME NEW i \in ids
      PROVE  VerdictOf'[i] = IF choice[i] \in Category THEN choice[i]
                             ELSE Uncategorized
  <2>1. VerdictOf'[i] = IF ~ledger'[i].present THEN Nobody
                        ELSE IF Settled(ledger'[i]) THEN ledger'[i].category
                        ELSE Uncategorized
    BY DEF VerdictOf
  <2>2. ledger'[i] = Written(choice[i]) /\ choice[i] \in AnyCategory \cup {Nobody}
    BY <1>1, <1>2
  <2>3. CASE choice[i] = Nobody
    <3>1. ledger'[i].present /\ ~Settled(ledger'[i])
      BY <2>2, <2>3 DEF Written, OpenRow, NoRow, Settled
    <3> QED
      BY <2>1, <2>3, <3>1, CategoryAssumption
  <2>4. CASE choice[i] # Nobody
    <3>1. /\ ledger'[i].present /\ ledger'[i].category = choice[i]
          /\ Settled(ledger'[i]) <=> choice[i] # Uncategorized
      BY <2>2, <2>4 DEF Written, UserRow, Settled
    <3> QED
      BY <2>1, <2>2, <2>4, <3>1, CategoryAssumption DEF AnyCategory
  <2> QED
    BY <2>3, <2>4
<1>3. VerdictOf' = [i \in Txn |->
        IF i \notin ids THEN VerdictOf[i]
        ELSE IF choice[i] \in Category THEN choice[i] ELSE Uncategorized]
  BY <1>1, <1>2 DEF VerdictOf
<1>4. Staged' = Staged \ ids
  BY <1>1, WrittenOK DEF Staged
<1> QED
  BY <1>3, <1>4 DEF WriteRows, configVars, Verdicts!Choose

LEMMA UserVerdicts ==
  ASSUME IInv, IInv', UserAction
  PROVE  Verdicts!Next
<1>1. ASSUME NEW ids \in SUBSET Txn,
             NEW choice \in [ids -> AnyCategory \cup {Nobody}],
             WriteRows(ids, choice)
      PROVE  Verdicts!Next
  <2>1. choice \in [ids -> Category \cup {Uncategorized, Nobody}]
    BY DEF AnyCategory
  <2> QED
    BY <1>1, <2>1, ChooseStep DEF Verdicts!Next
<1>2. ASSUME NEW ids \in SUBSET Txn, DeleteRows(ids)
      PROVE  Verdicts!Next
  <2>1. \A i \in Txn : RowMove(i)
    BY <1>2 DEF DeleteRows, RowMove, NoRow, IInv, TypeOK
  <2>2. enabled' = enabled /\ Staged' \subseteq Staged
    BY <1>2 DEF DeleteRows, configVars, NoRow, Staged
  <2> QED
    BY <2>1, <2>2, ProcessStep DEF Verdicts!Next
<1> QED
  BY <1>1, <1>2 DEF UserAction, SetCategory, ImportRows

LEMMA PersistMoves ==
  ASSUME IInv, NEW p \in Call, PersistCommit(p)
  PROVE  \A i \in Txn : RowMove(i)
<1> SUFFICES ASSUME NEW i \in Txn PROVE RowMove(i)
  OBVIOUS
<1> PICK page \in [Provider -> Event] :
      /\ ledger' = [j \in Txn |->
           IF j \in Provider
             THEN Applied(ledger[j], page[j], stageFor[p]) ELSE ledger[j]]
      /\ assigned' = [j \in Txn |->
           IF j \in Provider /\ page[j].kind = "remove"
             THEN Nobody ELSE assigned[j]]
  BY DEF PersistCommit
<1>1. CASE i \notin Provider
  BY <1>1 DEF RowMove
<1>2. CASE i \in Provider /\ page[i].kind = "upsert"
  <2>1. /\ ledger'[i] = Upsert(ledger[i], page[i].match, stageFor[p])
        /\ assigned'[i] = assigned[i]
    BY <1>2 DEF Applied
  <2>2. CASE ledger[i].reviewed
    BY <2>1, <2>2 DEF Upsert, RowMove
  <2>3. CASE ~ledger[i].reviewed
    BY <2>1, <2>3 DEF Upsert, RowMove, Settled
  <2> QED
    BY <2>2, <2>3
<1>3. CASE i \in Provider /\ page[i].kind = "remove"
  BY <1>3 DEF Applied, NoRow, RowMove
<1>4. CASE i \in Provider /\ page[i].kind = "skip"
  BY <1>4 DEF Applied, RowMove
<1> QED
  BY <1>1, <1>2, <1>3, <1>4 DEF Event

LEMMA FlagMoves ==
  ASSUME TypeOK, NEW i \in Txn, NEW flag, assigned'[i] = assigned[i],
         ledger'[i] \in {ledger[i], [ledger[i] EXCEPT !.staged = flag]}
  PROVE  RowMove(i)
BY DEF TypeOK, Row, RowMove, Settled

LEMMA ClearMoves ==
  ASSUME TypeOK, NEW ids, ledger' = Cleared(ids), assigned' = assigned
  PROVE  \A i \in Txn : RowMove(i)
BY FlagMoves DEF Cleared

LEMMA VerdictsStep ==
  ASSUME IInv, IInv', [Next]_vars
  PROVE  [Verdicts!Next]_(Verdicts!vars)
<1> USE DEF configVars
<1>1. ASSUME NEW p \in Call, PersistCommit(p) PROVE Verdicts!Process
  BY <1>1, PersistMoves, PersistCommitStep, ProcessStep DEF PersistCommit
<1>2. CASE ReprocessStage
  <2>1. enabled
    BY <1>2 DEF IInv, GuardInv, ReprocessStage
  <2>2. \A i \in Txn : RowMove(i)
    BY <1>2, FlagMoves DEF IInv, ReprocessStage, StageUnreviewed
  <2> QED
    BY <1>2, <2>1, <2>2, ProcessStep DEF ReprocessStage, Verdicts!Next
<1>3. ASSUME NEW i \in Txn, Apply(i) PROVE Verdicts!Process
  <2>1. \A j \in Txn : RowMove(j)
    BY <1>3 DEF Apply, LlmRow, RowMove, Settled, IInv, TypeOK, Row
  <2> QED
    BY <1>3, <2>1, ApplyStep, ProcessStep DEF Apply
<1>4. CASE ClearChunk \/ DisableClear \/ StartupClear
  <2>1. PICK ids : ledger' = Cleared(ids)
    BY <1>4 DEF ClearChunk, DisableClear, StartupClear
  <2>2. assigned' = assigned /\ enabled' = enabled
    BY <1>4 DEF ClearChunk, DisableClear, StartupClear
  <2> QED
    BY <2>1, <2>2, ClearMoves, ClearStagesNothing, ProcessStep
       DEF IInv, Verdicts!Next
<1>5. CASE ~Writes
  <2>1. ledger' = ledger
    BY <1>5, NotWritten
  <2>2. assigned' = assigned
    BY <1>5 DEF Writes, Next, CallStep, StartSync, PersistBegin,
       PersistRollback, Signal, Cancel, ReprocessBegin, ConfigStep, SaveConfig,
       Enable, DisableBegin, DisableAbandoned, ConfigCancelled, SwitchTracking, Crash,
       StartupStep, StartupCheck, StartupClearFails, WorkerStep, Receive, Check,
       Load, Clone, Ask, ApplyDone, WorkerError, vars
  <2>3. VerdictOf' = VerdictOf /\ Staged' = Staged
    BY <2>1 DEF VerdictOf, Staged
  <2>4. enabled' = enabled \/ enabled' = ~enabled
    BY DEF IInv, TypeOK
  <2> QED
    BY <2>2, <2>3, <2>4 DEF Verdicts!Switch, Verdicts!Next, Verdicts!vars
<1> QED
  BY <1>1, <1>2, <1>3, <1>4, <1>5, UserVerdicts DEF Writes, Verdicts!Next

\* The ledger with its guard, batches, late answers, crashes and dropped requests
\* behaves as one table of verdicts that only the user changes (RowVerdicts).
THEOREM VerdictsImplemented == Spec => ImplementsVerdicts
<1>1. IInv /\ IInv' /\ [Next]_vars => [Verdicts!Next]_(Verdicts!vars)
  BY VerdictsStep
<1> QED
  BY <1>1, VerdictsInit, Invariant, PTL DEF Spec, ImplementsVerdicts, Verdicts!Spec
=============================================================================
