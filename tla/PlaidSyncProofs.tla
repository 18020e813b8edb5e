-------------------------- MODULE PlaidSyncProofs --------------------------
(***************************************************************************)
(* Proofs about PlaidSync, for any transactions, calls, page size and      *)
(* bounds.                                                                 *)
(***************************************************************************)
EXTENDS PlaidSync, TLAPS

-----------------------------------------------------------------------------
(* What a page does *)

\* A page ends where it starts or later, and not after the latest version.
LEMMA PageEndRange ==
  ASSUME latest \in Nat, NEW from \in 0..latest
  PROVE  /\ PageEnd(from) \in from..latest
         /\ PageEnd(from) <= from + PageSize
         /\ \A k \in 0..latest : k <= from + PageSize => k <= PageEnd(from)
BY BoundAssumption DEF PageEnd

LEMMA AppliedType ==
  ASSUME TypeOK, NEW from \in 0..latest, NEW upto \in 0..latest
  PROVE  Applied(from, upto) \in State
BY DEF TypeOK, Applied, State

\* A row that is one of the page's versions becomes the version of its end.
LEMMA PageBringsRow ==
  ASSUME TypeOK, NEW from \in 0..latest, NEW upto \in from..latest,
         NEW t \in Txn, NEW k \in from..upto, content[t] = history[k][t]
  PROVE  Applied(from, upto)[t] = history[upto][t]
<1>1. CASE t \in Touched(from, upto)
  BY <1>1 DEF Applied
<1>2. CASE t \notin Touched(from, upto)
  <2>1. k \in from..upto /\ upto \in from..upto
    BY DEF TypeOK
  <2>2. history[k][t] = history[upto][t]
    BY <1>2, <2>1 DEF Touched
  <2> QED
    BY <1>2, <2>2 DEF Applied
<1> QED
  BY <1>1, <1>2

\* After a page no row is older than its end.
LEMMA PageNotOlder ==
  ASSUME TypeOK, NEW from \in 0..latest, NEW upto \in from..latest,
         NotOlder(from)
  PROVE  \A t \in Txn : \E k \in upto..latest :
           Applied(from, upto)[t] = history[k][t]
<1> TAKE t \in Txn
<1>1. PICK k \in from..latest : content[t] = history[k][t]
  BY DEF NotOlder
<1>2. CASE k <= upto
  <2>1. k \in from..upto
    BY <1>2 DEF TypeOK
  <2>2. Applied(from, upto)[t] = history[upto][t]
    BY <1>1, <2>1, PageBringsRow
  <2>3. upto \in upto..latest
    BY DEF TypeOK
  <2> QED
    BY <2>2, <2>3
<1>3. CASE upto < k
  <2>1. k \in upto..latest /\ upto \in upto..latest
    BY <1>3 DEF TypeOK
  <2>2. Applied(from, upto)[t] \in {content[t], history[upto][t]}
    BY DEF Applied
  <2> QED
    BY <1>1, <2>1, <2>2
<1> QED
  BY <1>2, <1>3 DEF TypeOK

\* A page applied to a version it covers yields the version of its end.
LEMMA PageBringsVersion ==
  ASSUME TypeOK, NEW from \in 0..latest, NEW upto \in from..latest,
         NEW k \in from..upto, content = history[k]
  PROVE  Applied(from, upto) = history[upto]
<1>1. upto \in 0..latest
  BY DEF TypeOK
<1>2. history[upto] \in State
  BY <1>1 DEF TypeOK
<1>3. \A t \in Txn : Applied(from, upto)[t] = history[upto][t]
  BY PageBringsRow
<1>4. Applied(from, upto) \in State
  BY <1>1, AppliedType
<1> QED
  BY <1>2, <1>3, <1>4 DEF State

-----------------------------------------------------------------------------
(* Types *)

\* The user hides or shows the account or some of its rows.
UserHides ==
  \E flag \in BOOLEAN :
    SetHidden(flag) \/ \E ids \in (SUBSET Apart) \ {{}} : SetRowsHidden(ids, flag)

LEMMA Zero == 0 \in 0..(MaxTries - 1) /\ (latest \in Nat => 0 \in 0..latest)
BY BoundAssumption

LEMMA InitType == Init => TypeOK
<1> SUFFICES ASSUME Init PROVE TypeOK
  OBVIOUS
<1>1. 0..latest = {0} /\ content \in State
  BY DEF Init, State
<1>2. history \in [0..latest -> State]
  BY <1>1 DEF Init
<1> QED
  BY <1>1, <1>2, Zero DEF Init, TypeOK

LEMMA PublishType ==
  ASSUME TypeOK, Publish
  PROVE  TypeOK'
<1>1. latest' = latest + 1 /\ latest \in 0..latest
  BY DEF TypeOK, Publish
<1>2. PICK t \in Txn, new \in Content \cup {Absent} :
        history' = [k \in 0..latest' |->
                      IF k = latest' THEN [history[latest] EXCEPT ![t] = new]
                      ELSE history[k]]
  BY DEF Publish
<1>3. [history[latest] EXCEPT ![t] = new] \in State
  BY <1>1 DEF TypeOK, State
<1>4. history' \in [0..latest' -> State]
  <2>1. \A k \in 0..latest' : k # latest' => k \in 0..latest
    BY <1>1 DEF TypeOK
  <2> QED
    BY <1>2, <1>3, <2>1 DEF TypeOK
<1>5. \A k \in 0..latest : k \in 0..latest'
  BY <1>1 DEF TypeOK
<1>6. /\ cursor' \in 0..latest' /\ position' \in 0..latest'
      /\ at' \in [Call -> 0..latest'] /\ to' \in [Call -> 0..latest']
  BY <1>5 DEF TypeOK, Publish, item, callVars, ghosts
<1>7. latest' \in Nat
  BY <1>1 DEF TypeOK
<1> QED
  BY <1>4, <1>6, <1>7 DEF TypeOK, Publish, table, item, callVars, ghosts

LEMMA StepType ==
  ASSUME TypeOK, NEW c \in Call, Step(c)
  PROVE  TypeOK'
<1>1. CASE LoadCursor(c)
  BY <1>1 DEF LoadCursor, Goto, TypeOK, external, table, item, ghosts
<1>2. CASE LoadHidden(c)
  BY <1>2 DEF LoadHidden, Goto, TypeOK, external, table, item, ghosts
<1>3. CASE Fetch(c)
  <2>1. PageEnd(at[c]) \in 0..latest
    BY PageEndRange DEF TypeOK
  <2>2. 0 \in 0..(MaxTries - 1)
    BY BoundAssumption
  <2> QED
    BY <1>3, <2>1, <2>2 DEF Fetch, Goto, TypeOK, external, table, item, ghosts
<1>4. CASE Persist(c)
  <2>1. content' \in State
    BY <1>4, AppliedType DEF Persist, TypeOK
  <2>2. hidden' \subseteq Txn
    BY <1>4 DEF Persist, HiddenAfter, KeptOf, Inserted, Present
  <2>3. position' \in 0..latest /\ own' \subseteq Txn /\ stale' \subseteq Txn
    BY <1>4 DEF Persist, KeptOf, Inserted, Present, TypeOK
  <2> QED
    BY <1>4, <2>1, <2>2, <2>3 DEF Persist, Goto, TypeOK, external, item
<1>5. CASE Advance(c)
  BY <1>5 DEF Advance, Goto, TypeOK, external, table, ghosts
<1>6. CASE NextPage(c)
  BY <1>6 DEF NextPage, Goto, TypeOK, external, table, ghosts
<1>7. CASE Finish(c)
  BY <1>7, Zero
  DEF Finish, Return, Goto, TypeOK, external, table, ghosts
<1> QED
  BY <1>1, <1>2, <1>3, <1>4, <1>5, <1>6, <1>7 DEF Step

LEMMA NextType ==
  ASSUME TypeOK, [Next]_vars
  PROVE  TypeOK'
<1>1. CASE Publish
  BY <1>1, PublishType
<1>2. CASE Tick
  BY <1>2 DEF Tick, TypeOK, external, table, callVars, ghosts
<1>3. CASE Relink
  BY <1>3 DEF Relink, TypeOK, external, table, callVars, ghosts
<1>4. CASE Crash
  BY <1>4, Zero DEF Crash, TypeOK, external, table, ghosts
<1>5. CASE FaultsEnd
  BY <1>5 DEF FaultsEnd, TypeOK, external, table, item, callVars, ghosts
<1>6. ASSUME UserHides PROVE TypeOK'
  BY <1>6 DEF UserHides, SetHidden, SetRowsHidden, Present, TypeOK, external,
              item, callVars
<1>7. ASSUME NEW c \in Call,
             StartHourly(c) \/ StartEvent(c) \/ StartRequest(c)
      PROVE  TypeOK'
  BY <1>7 DEF StartHourly, StartEvent, StartRequest, Begin, Goto, TypeOK,
              external, table
<1>8. ASSUME NEW c \in Call, Step(c) PROVE TypeOK'
  BY <1>8, StepType
<1>9. ASSUME NEW c \in Call, Mutated(c) PROVE TypeOK'
  BY <1>9, BoundAssumption DEF Mutated, TypeOK, external, table, item, ghosts
<1>10. ASSUME NEW c \in Call, Fails(c) \/ Drop(c) PROVE TypeOK'
  <2>1. /\ Return(c)
        /\ UNCHANGED <<external, table, cursor, due, announced, faulty, relinks,
                       ghosts>>
        /\ health' \in {health, "error"}
    BY <1>10 DEF Fails, Drop, item
  <2> QED
    BY <2>1, Zero DEF Return, Goto, TypeOK, external, table, ghosts
<1>11. CASE UNCHANGED vars
  BY <1>11 DEF vars, TypeOK, external, table, item, callVars, ghosts
<1> QED
  BY <1>1, <1>2, <1>3, <1>4, <1>5, <1>6, <1>7, <1>8, <1>9, <1>10, <1>11
  DEF Next, UserHides

\* Every variable keeps its type in every behaviour of the sync.
THEOREM TypeCorrect == Spec => []TypeOK
<1>1. Init => TypeOK
  BY InitType
<1>2. TypeOK /\ [Next]_vars => TypeOK'
  BY NextType
<1> QED
  BY <1>1, <1>2, PTL DEF Spec
-----------------------------------------------------------------------------
(* The inductive invariant *)

\* Without overlap at most one call runs.
OneRunning == ~overlapped => \A c, d \in Running : c = d

\* A fetched page starts at the cursor its call holds.
PageInv ==
  \A c \in Call :
    pc[c] = "persist" => at[c] <= to[c] /\ to[c] <= at[c] + PageSize

\* What the running call holds is never ahead of the rows, nor behind the
\* stored cursor.
RowsInv ==
  ~overlapped =>
    /\ NotOlder(cursor)
    /\ \A c \in Call :
         /\ pc[c] \in {"accounts", "fetch", "persist"} =>
              cursor <= at[c] /\ NotOlder(at[c])
         /\ pc[c] \in {"advance", "health"} =>
              cursor <= to[c] /\ NotOlder(to[c])

\* Before the item is linked again the rows are one version, at most one page
\* ahead of the stored cursor.
VersionInv ==
  ~overlapped /\ relinks = 0 =>
    /\ content = history[position]
    /\ cursor <= position /\ position <= cursor + PageSize
    /\ \A c \in Call :
         /\ pc[c] \in {"accounts", "fetch", "persist", "advance"} => at[c] = cursor
         /\ pc[c] = "persist" => position <= to[c]
         /\ pc[c] \in {"advance", "health"} => position = to[c]
         /\ pc[c] = "health" => to[c] = cursor

IInv ==
  TypeOK /\ OneRunning /\ PageInv /\ RowsInv /\ VersionInv /\ HiddenFollowsAccount

-----------------------------------------------------------------------------
(* Steps that leave a call's page alone *)

\* Starting a call.
Start(c) == StartHourly(c) \/ StartEvent(c) \/ StartRequest(c)

\* A call ends without its last step.
Abort(c) == Fails(c) \/ Drop(c)

LEMMA StartIsBegin ==
  ASSUME NEW c \in Call, Start(c)
  PROVE  Begin(c)
BY DEF Start, StartHourly, StartEvent, StartRequest

LEMMA AbortReturns ==
  ASSUME NEW c \in Call, Abort(c)
  PROVE  /\ c \in Running /\ Return(c)
         /\ UNCHANGED <<external, table, cursor, relinks, ghosts>>
BY DEF Abort, Fails, Drop, item

LEMMA OthersIdle ==
  ASSUME OneRunning, ~overlapped, NEW c \in Call, pc[c] # "idle"
  PROVE  \A d \in Call : d # c => pc[d] = "idle"
BY DEF OneRunning, Running

\* A new version keeps what the old ones were.
LEMMA PublishKeeps ==
  ASSUME TypeOK, Publish
  PROVE  /\ latest' = latest + 1
         /\ \A k \in 0..latest : history'[k] = history[k]
BY DEF TypeOK, Publish

LEMMA OneRunningNext ==
  ASSUME TypeOK, OneRunning, [Next]_vars
  PROVE  OneRunning'
<1>1. CASE UNCHANGED <<pc, overlapped>>
  BY <1>1 DEF OneRunning, Running
<1>2. ASSUME NEW c \in Call, Start(c) PROVE OneRunning'
  <2>1. Begin(c)
    BY <1>2, StartIsBegin
  <2> QED
    BY <2>1 DEF Begin, Goto, OneRunning, Running, TypeOK
<1>3. ASSUME NEW c \in Call, Step(c) PROVE OneRunning'
  <2>1. /\ pc[c] # "idle" /\ overlapped' = overlapped
        /\ \A d \in Call : d # c => pc'[d] = pc[d]
    BY <1>3 DEF Step, LoadCursor, LoadHidden, Fetch, Persist, Advance, NextPage,
                Finish, Return, Goto, TypeOK, ghosts
  <2> QED
    BY <2>1 DEF OneRunning, Running
<1>4. ASSUME NEW c \in Call, Abort(c) PROVE OneRunning'
  <2>1. Return(c) /\ overlapped' = overlapped
    BY <1>4, AbortReturns DEF ghosts
  <2>2. pc'[c] = "idle" /\ \A d \in Call : d # c => pc'[d] = pc[d]
    BY <2>1 DEF Return, Goto, TypeOK
  <2> QED
    BY <2>1, <2>2 DEF OneRunning, Running
<1>5. CASE Crash
  BY <1>5 DEF Crash, OneRunning, Running, ghosts
<1>6. CASE Publish \/ Tick \/ Relink \/ FaultsEnd
  BY <1>1, <1>6 DEF Publish, Tick, Relink, FaultsEnd, callVars, ghosts
<1>7. ASSUME UserHides PROVE OneRunning'
  BY <1>1, <1>7 DEF UserHides, SetHidden, SetRowsHidden, callVars
<1>8. ASSUME NEW c \in Call, Mutated(c) PROVE OneRunning'
  BY <1>1, <1>8 DEF Mutated, ghosts
<1>9. CASE UNCHANGED vars
  BY <1>1, <1>9 DEF vars, callVars, ghosts
<1> QED
  BY <1>2, <1>3, <1>4, <1>5, <1>6, <1>7, <1>8, <1>9 DEF Next, Start, Abort, UserHides

LEMMA PageInvNext ==
  ASSUME TypeOK, PageInv, [Next]_vars
  PROVE  PageInv'
<1>1. CASE UNCHANGED <<pc, at, to>>
  BY <1>1 DEF PageInv
<1>2. ASSUME NEW c \in Call, Start(c) PROVE PageInv'
  BY <1>2, StartIsBegin DEF Begin, Goto, PageInv, TypeOK
<1>3. ASSUME NEW c \in Call, Step(c) PROVE PageInv'
  <2>1. CASE Fetch(c)
    <3>1. at[c] <= PageEnd(at[c]) /\ PageEnd(at[c]) <= at[c] + PageSize
      BY PageEndRange DEF TypeOK
    <3> QED
      BY <2>1, <3>1 DEF Fetch, Goto, PageInv, TypeOK
  <2>2. CASE LoadCursor(c) \/ LoadHidden(c) \/ Persist(c) \/ Advance(c)
    BY <2>2 DEF LoadCursor, LoadHidden, Persist, Advance, Goto, PageInv, TypeOK
  <2>3. CASE NextPage(c) \/ Finish(c)
    BY <2>3 DEF NextPage, Finish, Return, Goto, PageInv, TypeOK
  <2> QED
    BY <1>3, <2>1, <2>2, <2>3 DEF Step
<1>4. ASSUME NEW c \in Call, Abort(c) PROVE PageInv'
  <2>1. /\ pc' = [pc EXCEPT ![c] = "idle"]
        /\ at' = [at EXCEPT ![c] = 0] /\ to' = [to EXCEPT ![c] = 0]
    BY <1>4, AbortReturns DEF Return, Goto
  <2>2. /\ pc'[c] = "idle"
        /\ \A d \in Call : d # c => /\ pc'[d] = pc[d]
                                   /\ at'[d] = at[d] /\ to'[d] = to[d]
    BY <2>1 DEF TypeOK
  <2> QED
    BY <2>2 DEF PageInv
<1>5. CASE Crash
  BY <1>5 DEF Crash, PageInv
<1>6. CASE Publish \/ Tick \/ Relink \/ FaultsEnd
  BY <1>1, <1>6 DEF Publish, Tick, Relink, FaultsEnd, callVars
<1>7. ASSUME UserHides PROVE PageInv'
  BY <1>1, <1>7 DEF UserHides, SetHidden, SetRowsHidden, callVars
<1>8. ASSUME NEW c \in Call, Mutated(c) PROVE PageInv'
  BY <1>1, <1>8 DEF Mutated
<1>9. CASE UNCHANGED vars
  BY <1>1, <1>9 DEF vars, callVars
<1> QED
  BY <1>2, <1>3, <1>4, <1>5, <1>6, <1>7, <1>8, <1>9 DEF Next, Start, Abort, UserHides

-----------------------------------------------------------------------------
(* Rows and cursors *)

LEMMA NotOlderMonotone ==
  ASSUME TypeOK, NEW u \in Nat, NEW v \in Nat, u <= v, NotOlder(v)
  PROVE  NotOlder(u)
BY DEF NotOlder, TypeOK

LEMMA RowsStep ==
  ASSUME TypeOK, OneRunning, PageInv, RowsInv, NEW c \in Call, Step(c)
  PROVE  RowsInv'
<1> SUFFICES ASSUME ~overlapped'
             PROVE  /\ NotOlder(cursor)'
                    /\ \A d \in Call :
                         /\ pc'[d] \in {"accounts", "fetch", "persist"} =>
                              cursor' <= at'[d] /\ NotOlder(at[d])'
                         /\ pc'[d] \in {"advance", "health"} =>
                              cursor' <= to'[d] /\ NotOlder(to[d])'
  BY DEF RowsInv
<1>1. ~overlapped /\ pc[c] # "idle"
  BY DEF Step, LoadCursor, LoadHidden, Fetch, Persist, Advance, NextPage,
         Finish, ghosts
<1>2. \A d \in Call : d # c => pc[d] = "idle" /\ pc'[d] = "idle"
  <2>1. \A d \in Call : d # c => pc'[d] = pc[d]
    BY DEF Step, LoadCursor, LoadHidden, Fetch, Persist, Advance, NextPage,
           Finish, Return, Goto, TypeOK
  <2> QED
    BY <1>1, <2>1, OthersIdle
<1> DEFINE Goal ==
      /\ NotOlder(cursor)'
      /\ pc'[c] \in {"accounts", "fetch", "persist"} =>
           cursor' <= at'[c] /\ NotOlder(at[c])'
      /\ pc'[c] \in {"advance", "health"} =>
           cursor' <= to'[c] /\ NotOlder(to[c])'
<1>g. SUFFICES Goal
  <2> SUFFICES ASSUME Goal, NEW d \in Call
               PROVE  /\ pc'[d] \in {"accounts", "fetch", "persist"} =>
                           cursor' <= at'[d] /\ NotOlder(at[d])'
                      /\ pc'[d] \in {"advance", "health"} =>
                           cursor' <= to'[d] /\ NotOlder(to[d])'
    OBVIOUS
  <2>1. CASE d = c
    BY <2>1
  <2>2. CASE d # c
    BY <1>2, <2>2
  <2> QED
    BY <2>1, <2>2
<1>3. CASE LoadCursor(c)
  <2>1. cursor' = cursor /\ pc'[c] = "accounts" /\ at'[c] = cursor
    BY <1>3 DEF LoadCursor, Goto, TypeOK, item
  <2>2. NotOlder(cursor)
    BY <1>1 DEF RowsInv
  <2>3. UNCHANGED <<content, history, latest>>
    BY <1>3 DEF LoadCursor, external, table
  <2> QED
    BY <2>1, <2>2, <2>3 DEF NotOlder, TypeOK
<1>4. CASE LoadHidden(c) \/ Fetch(c)
  <2>1. /\ UNCHANGED <<content, history, latest, cursor>> /\ at'[c] = at[c]
        /\ pc[c] \in {"accounts", "fetch"} /\ pc'[c] \in {"fetch", "persist"}
    BY <1>4 DEF LoadHidden, Fetch, Goto, TypeOK, external, table, item
  <2>2. NotOlder(cursor) /\ cursor <= at[c] /\ NotOlder(at[c])
    BY <1>1, <2>1 DEF RowsInv
  <2> QED
    BY <2>1, <2>2 DEF NotOlder, TypeOK
<1>5. CASE Persist(c)
  <2>1. /\ UNCHANGED <<history, latest, cursor>> /\ to'[c] = to[c]
        /\ pc[c] = "persist" /\ pc'[c] = "advance"
        /\ content' = Applied(at[c], to[c])
    BY <1>5 DEF Persist, Goto, TypeOK, external, item
  <2>2. at[c] \in 0..latest /\ to[c] \in at[c]..latest /\ cursor \in Nat
    BY <2>1 DEF PageInv, TypeOK
  <2>3. cursor <= at[c] /\ NotOlder(at[c])
    BY <1>1, <2>1 DEF RowsInv
  <2>4. \A t \in Txn : \E k \in to[c]..latest : content'[t] = history[k][t]
    BY <2>1, <2>2, <2>3, PageNotOlder
  <2>5. cursor <= to[c] /\ \A k \in to[c]..latest : k \in cursor..latest
    BY <2>2, <2>3 DEF TypeOK
  <2> QED
    BY <2>1, <2>4, <2>5 DEF NotOlder, TypeOK
<1>6. CASE Advance(c)
  <2>1. /\ UNCHANGED <<history, latest, content>> /\ to'[c] = to[c]
        /\ pc[c] = "advance" /\ pc'[c] = "health"
        /\ cursor' \in {cursor, to[c]}
    BY <1>6 DEF Advance, Goto, TypeOK, external, table
  <2>2. NotOlder(cursor) /\ cursor <= to[c] /\ NotOlder(to[c])
    BY <1>1, <2>1 DEF RowsInv
  <2> QED
    BY <2>1, <2>2 DEF NotOlder, TypeOK
<1>7. CASE NextPage(c)
  <2>1. /\ UNCHANGED <<history, latest, content, cursor>> /\ at'[c] = to[c]
        /\ pc[c] = "health" /\ pc'[c] = "fetch"
    BY <1>7 DEF NextPage, Goto, TypeOK, external, table
  <2>2. NotOlder(cursor) /\ cursor <= to[c] /\ NotOlder(to[c])
    BY <1>1, <2>1 DEF RowsInv
  <2> QED
    BY <2>1, <2>2 DEF NotOlder, TypeOK
<1>8. CASE Finish(c)
  <2>1. UNCHANGED <<history, latest, content, cursor>> /\ pc'[c] = "idle"
    BY <1>8 DEF Finish, Return, Goto, TypeOK, external, table
  <2>2. NotOlder(cursor)
    BY <1>1 DEF RowsInv
  <2> QED
    BY <2>1, <2>2 DEF NotOlder, TypeOK
<1> QED
  BY <1>3, <1>4, <1>5, <1>6, <1>7, <1>8 DEF Step

LEMMA RowsNext ==
  ASSUME TypeOK, OneRunning, PageInv, RowsInv, [Next]_vars
  PROVE  RowsInv'
<1>1. CASE UNCHANGED <<history, latest, content, cursor, pc, at, to, overlapped>>
  BY <1>1 DEF RowsInv, NotOlder
<1>2. CASE Publish
  <2>1. UNCHANGED <<content, cursor, pc, at, to, overlapped>>
    BY <1>2 DEF Publish, table, item, callVars, ghosts
  <2>2. ASSUME NEW v \in 0..latest, NEW w, w = v, NotOlder(v)
        PROVE  \A t \in Txn : \E k \in w..latest' : content'[t] = history'[k][t]
    <3> TAKE t \in Txn
    <3>1. PICK k \in v..latest : content[t] = history[k][t]
      BY <2>2 DEF NotOlder
    <3>2. k \in 0..latest /\ k \in w..latest'
      BY <1>2, <2>2, PublishKeeps DEF TypeOK
    <3> QED
      BY <1>2, <2>1, <3>1, <3>2, PublishKeeps
  <2>3. SUFFICES ASSUME ~overlapped
                 PROVE  RowsInv'
    BY <2>1 DEF RowsInv
  <2>4. NotOlder(cursor)'
    BY <2>1, <2>2, <2>3 DEF RowsInv, NotOlder, TypeOK
  <2>5. ASSUME NEW c \in Call, pc[c] \in {"accounts", "fetch", "persist"}
        PROVE  cursor' <= at'[c] /\ NotOlder(at[c])'
    <3>1. cursor <= at[c] /\ NotOlder(at[c]) /\ at[c] \in 0..latest
      BY <2>3, <2>5 DEF RowsInv, TypeOK
    <3> QED
      BY <2>1, <2>2, <3>1 DEF NotOlder
  <2>6. ASSUME NEW c \in Call, pc[c] \in {"advance", "health"}
        PROVE  cursor' <= to'[c] /\ NotOlder(to[c])'
    <3>1. cursor <= to[c] /\ NotOlder(to[c]) /\ to[c] \in 0..latest
      BY <2>3, <2>6 DEF RowsInv, TypeOK
    <3> QED
      BY <2>1, <2>2, <3>1 DEF NotOlder
  <2> QED
    BY <2>1, <2>4, <2>5, <2>6 DEF RowsInv
<1>3. CASE Relink
  <2>1. /\ UNCHANGED <<history, latest, content, pc, at, to, overlapped>>
        /\ cursor' = 0
    BY <1>3 DEF Relink, external, table, callVars, ghosts
  <2>2. NotOlder(cursor) => NotOlder(cursor)'
    BY <2>1 DEF NotOlder, TypeOK
  <2>3. \A v : NotOlder(v) <=> \A t \in Txn : \E k \in v..latest' :
                                content'[t] = history'[k][t]
    BY <2>1 DEF NotOlder
  <2> QED
    BY <2>1, <2>2, <2>3 DEF RowsInv, NotOlder, TypeOK
<1>4. ASSUME NEW c \in Call, Start(c) PROVE RowsInv'
  <2>1. /\ UNCHANGED <<history, latest, content, cursor, at, to>>
        /\ pc' = [pc EXCEPT ![c] = "load"] /\ (~overlapped' => ~overlapped)
    BY <1>4, StartIsBegin DEF Begin, Goto, external, table
  <2> QED
    BY <2>1 DEF RowsInv, NotOlder, TypeOK
<1>5. ASSUME NEW c \in Call, Step(c) PROVE RowsInv'
  BY <1>5, RowsStep
<1>6. ASSUME NEW c \in Call, Abort(c) PROVE RowsInv'
  <2>1. /\ UNCHANGED <<history, latest, content, cursor, overlapped>>
        /\ pc' = [pc EXCEPT ![c] = "idle"]
        /\ \A d \in Call : d # c => at'[d] = at[d] /\ to'[d] = to[d]
    BY <1>6, AbortReturns DEF Return, Goto, external, table, ghosts, TypeOK
  <2> QED
    BY <2>1 DEF RowsInv, NotOlder, TypeOK
<1>7. CASE Crash
  BY <1>7 DEF Crash, RowsInv, NotOlder, external, table, ghosts
<1>8. CASE Tick \/ FaultsEnd
  BY <1>1, <1>8 DEF Tick, FaultsEnd, external, table, item, callVars, ghosts
<1>9. ASSUME UserHides PROVE RowsInv'
  BY <1>1, <1>9 DEF UserHides, SetHidden, SetRowsHidden, external, item, callVars
<1>10. ASSUME NEW c \in Call, Mutated(c) PROVE RowsInv'
  BY <1>1, <1>10 DEF Mutated, external, table, item, ghosts
<1>11. CASE UNCHANGED vars
  BY <1>1, <1>11 DEF vars, external, table, item, callVars, ghosts
<1> QED
  BY <1>2, <1>3, <1>4, <1>5, <1>6, <1>7, <1>8, <1>9, <1>10, <1>11
  DEF Next, Start, Abort, UserHides

-----------------------------------------------------------------------------
(* One version *)

LEMMA VersionStep ==
  ASSUME TypeOK, OneRunning, PageInv, VersionInv, NEW c \in Call, Step(c),
         ~overlapped, relinks = 0
  PROVE  VersionInv'
<1>1. pc[c] # "idle" /\ relinks \in Nat /\ PageSize \in Nat
  BY BoundAssumption DEF TypeOK, Step, LoadCursor, LoadHidden, Fetch, Persist,
     Advance, NextPage, Finish
<1>2. \A d \in Call : d # c => pc'[d] = "idle"
  <2>1. \A d \in Call : d # c => pc'[d] = pc[d]
    BY DEF Step, LoadCursor, LoadHidden, Fetch, Persist, Advance, NextPage,
           Finish, Return, Goto, TypeOK
  <2> QED
    BY <1>1, <2>1, OthersIdle
<1>3. /\ content = history[position]
      /\ cursor <= position /\ position <= cursor + PageSize
      /\ pc[c] \in {"accounts", "fetch", "persist", "advance"} => at[c] = cursor
      /\ pc[c] = "persist" => position <= to[c]
      /\ pc[c] \in {"advance", "health"} => position = to[c]
      /\ pc[c] = "health" => to[c] = cursor
  BY DEF VersionInv
<1> DEFINE Goal ==
      /\ content' = history'[position']
      /\ cursor' <= position' /\ position' <= cursor' + PageSize
      /\ pc'[c] \in {"accounts", "fetch", "persist", "advance"} =>
           at'[c] = cursor'
      /\ pc'[c] = "persist" => position' <= to'[c]
      /\ pc'[c] \in {"advance", "health"} => position' = to'[c]
      /\ pc'[c] = "health" => to'[c] = cursor'
<1>4. SUFFICES Goal
  BY <1>2 DEF VersionInv
<1>5. CASE LoadCursor(c) \/ LoadHidden(c)
  BY <1>3, <1>5 DEF LoadCursor, LoadHidden, Goto, TypeOK, external, table, item,
                    ghosts
<1>6. CASE Fetch(c)
  <2>1. at[c] = cursor /\ cursor \in 0..latest /\ position \in 0..latest
    BY <1>3, <1>6 DEF Fetch, TypeOK
  <2>2. position <= PageEnd(at[c])
    BY <1>3, <2>1, PageEndRange DEF TypeOK
  <2> QED
    BY <1>3, <1>6, <2>2 DEF Fetch, Goto, TypeOK, external, table, item, ghosts
<1>7. CASE Persist(c)
  <2>1. /\ pc[c] = "persist" /\ pc'[c] = "advance" /\ position' = to[c]
        /\ content' = Applied(at[c], to[c])
        /\ UNCHANGED <<history, cursor, at, to>>
    BY <1>7 DEF Persist, Goto, TypeOK, external, item
  <2>2. /\ at[c] = cursor /\ at[c] \in 0..latest /\ to[c] \in at[c]..latest
        /\ position \in at[c]..to[c]
    BY <1>3, <2>1 DEF PageInv, TypeOK
  <2>3. content' = history[to[c]]
    BY <1>3, <2>1, <2>2, PageBringsVersion
  <2>4. to[c] <= cursor + PageSize
    BY <2>1, <2>2 DEF PageInv
  <2> QED
    BY <2>1, <2>2, <2>3, <2>4 DEF TypeOK
<1>8. CASE Advance(c)
  <2>1. at[c] = cursor /\ position = to[c] /\ cursor <= to[c]
    BY <1>3, <1>8 DEF Advance
  <2>2. cursor' = to[c]
    BY <1>8, <2>1 DEF Advance, TypeOK
  <2> QED
    BY <1>1, <1>3, <1>8, <2>1, <2>2
    DEF Advance, Goto, TypeOK, external, table, ghosts
<1>9. CASE NextPage(c) \/ Finish(c)
  BY <1>3, <1>9 DEF NextPage, Finish, Return, Goto, TypeOK, external, table, ghosts
<1> QED
  BY <1>5, <1>6, <1>7, <1>8, <1>9 DEF Step

LEMMA VersionNext ==
  ASSUME TypeOK, OneRunning, PageInv, VersionInv, [Next]_vars
  PROVE  VersionInv'
<1>1. CASE UNCHANGED <<content, history, cursor, position, pc, at, to, relinks,
                       overlapped>>
  BY <1>1 DEF VersionInv
<1>2. CASE Publish
  <2>1. UNCHANGED <<content, cursor, position, pc, at, to, relinks, overlapped>>
    BY <1>2 DEF Publish, table, item, callVars, ghosts
  <2>2. history'[position] = history[position]
    BY <1>2, PublishKeeps DEF TypeOK
  <2> QED
    BY <2>1, <2>2 DEF VersionInv
<1>3. CASE Relink
  <2>1. relinks' # 0
    BY <1>3 DEF Relink, TypeOK
  <2> QED
    BY <2>1 DEF VersionInv
<1>4. ASSUME NEW c \in Call, Start(c) PROVE VersionInv'
  <2>1. /\ UNCHANGED <<history, content, cursor, position, at, to, relinks>>
        /\ pc' = [pc EXCEPT ![c] = "load"] /\ (~overlapped' => ~overlapped)
    BY <1>4, StartIsBegin DEF Begin, Goto, external, table
  <2> QED
    BY <2>1 DEF VersionInv, TypeOK
<1>5. ASSUME NEW c \in Call, Step(c) PROVE VersionInv'
  <2>1. overlapped' = overlapped /\ relinks' = relinks
    BY <1>5 DEF Step, LoadCursor, LoadHidden, Fetch, Persist, Advance, NextPage,
                Finish, ghosts
  <2>2. CASE ~overlapped /\ relinks = 0
    BY <1>5, <2>2, VersionStep
  <2>3. CASE overlapped \/ relinks # 0
    BY <2>1, <2>3 DEF VersionInv
  <2> QED
    BY <2>2, <2>3
<1>6. ASSUME NEW c \in Call, Abort(c) PROVE VersionInv'
  <2>1. /\ UNCHANGED <<history, content, cursor, position, relinks, overlapped>>
        /\ pc' = [pc EXCEPT ![c] = "idle"]
        /\ \A d \in Call : d # c => at'[d] = at[d] /\ to'[d] = to[d]
    BY <1>6, AbortReturns DEF Return, Goto, external, table, ghosts, TypeOK
  <2> QED
    BY <2>1 DEF VersionInv, TypeOK
<1>7. CASE Crash
  BY <1>7 DEF Crash, VersionInv, external, table, ghosts
<1>8. CASE Tick \/ FaultsEnd
  BY <1>1, <1>8 DEF Tick, FaultsEnd, external, table, item, callVars, ghosts
<1>9. ASSUME UserHides PROVE VersionInv'
  BY <1>1, <1>9 DEF UserHides, SetHidden, SetRowsHidden, external, item, callVars
<1>10. ASSUME NEW c \in Call, Mutated(c) PROVE VersionInv'
  BY <1>1, <1>10 DEF Mutated, external, table, item, ghosts
<1>11. CASE UNCHANGED vars
  BY <1>1, <1>11 DEF vars, external, table, item, callVars, ghosts
<1> QED
  BY <1>2, <1>3, <1>4, <1>5, <1>6, <1>7, <1>8, <1>9, <1>10, <1>11
  DEF Next, Start, Abort, UserHides

-----------------------------------------------------------------------------
(* Hidden rows *)

\* A page leaves the rows it finds as they are and marks those it inserts.
LEMMA HiddenPersist ==
  ASSUME TypeOK, HiddenFollowsAccount, NEW c \in Call, Persist(c)
  PROVE  HiddenFollowsAccount'
<1> PICK ruled \in SUBSET Apart :
      /\ hidden' = HiddenAfter(c, ruled)
      /\ own' = KeptOf(own) \cup {t \in Inserted : t \in ruled /\ ~hide[c]}
  BY DEF Persist
<1>1. stale' = KeptOf(stale) \cup {t \in Inserted : hide[c] # accountHidden}
  BY DEF Persist
<1>2. /\ accountHidden' = accountHidden
      /\ accountHidden \in BOOLEAN /\ hide[c] \in BOOLEAN
  BY DEF Persist, TypeOK
<1> SUFFICES ASSUME NEW t \in Txn, content'[t] # Absent, t \notin stale'
             PROVE  t \in hidden' <=> accountHidden # (t \in own')
  BY <1>2 DEF HiddenFollowsAccount, Present
<1>3. CASE t \in Present
  <2>1. /\ t \in hidden' <=> t \in hidden
        /\ t \in own' <=> t \in own
        /\ t \notin stale
    BY <1>1, <1>3 DEF HiddenAfter, KeptOf, Inserted
  <2>2. t \in hidden <=> accountHidden # (t \in own)
    BY <1>3, <2>1 DEF HiddenFollowsAccount
  <2>3. (t \in own') = (t \in own)
    BY <2>1
  <2> QED
    BY <2>1, <2>2, <2>3
<1>4. CASE t \notin Present
  <2>1. t \in Inserted
    BY <1>4 DEF Inserted
  <2>2. /\ t \in hidden' <=> hide[c] \/ t \in ruled
        /\ t \in own' <=> t \in ruled /\ ~hide[c]
    BY <1>4, <2>1 DEF HiddenAfter, KeptOf
  <2>3. hide[c] = accountHidden
    BY <1>1, <2>1
  <2> QED
    BY <1>2, <2>2, <2>3
<1> QED
  BY <1>3, <1>4

LEMMA HiddenUser ==
  ASSUME TypeOK, HiddenFollowsAccount, UserHides
  PROVE  HiddenFollowsAccount'
<1>1. ASSUME NEW flag \in BOOLEAN, SetHidden(flag)
      PROVE  HiddenFollowsAccount'
  BY <1>1 DEF SetHidden, HiddenFollowsAccount, Present
<1>2. ASSUME NEW flag \in BOOLEAN, NEW ids, SetRowsHidden(ids, flag)
      PROVE  HiddenFollowsAccount'
  <2> SUFFICES ASSUME NEW t \in Present, t \notin stale'
               PROVE  t \in hidden' <=> accountHidden # (t \in own')
    BY <1>2 DEF SetRowsHidden, HiddenFollowsAccount, Present
  <2>1. accountHidden \in BOOLEAN
    BY DEF TypeOK
  <2>2. CASE t \in ids
    BY <1>2, <2>1, <2>2 DEF SetRowsHidden
  <2>3. CASE t \notin ids
    <3>1. /\ t \in hidden' <=> t \in hidden
          /\ t \in own' <=> t \in own
          /\ t \notin stale
      BY <1>2, <2>3 DEF SetRowsHidden
    <3>2. (t \in own') = (t \in own)
      BY <3>1
    <3> QED
      BY <3>1, <3>2 DEF HiddenFollowsAccount
  <2> QED
    BY <2>2, <2>3
<1> QED
  BY <1>1, <1>2 DEF UserHides

LEMMA HiddenNext ==
  ASSUME TypeOK, HiddenFollowsAccount, [Next]_vars
  PROVE  HiddenFollowsAccount'
<1>1. CASE UNCHANGED <<table, own, stale>>
  BY <1>1 DEF HiddenFollowsAccount, Present, table
<1>2. CASE Publish \/ Tick \/ Relink \/ Crash \/ FaultsEnd \/ UNCHANGED vars
  BY <1>1, <1>2 DEF Publish, Tick, Relink, Crash, FaultsEnd, vars, ghosts
<1>3. ASSUME NEW c \in Call, Mutated(c) PROVE HiddenFollowsAccount'
  BY <1>1, <1>3 DEF Mutated, ghosts
<1>4. ASSUME NEW c \in Call, Start(c) PROVE HiddenFollowsAccount'
  BY <1>1, <1>4, StartIsBegin DEF Begin
<1>5. ASSUME NEW c \in Call, Step(c) PROVE HiddenFollowsAccount'
  <2>1. CASE Persist(c)
    BY <2>1, HiddenPersist
  <2>2. CASE ~Persist(c)
    BY <1>1, <1>5, <2>2 DEF Step, LoadCursor, LoadHidden, Fetch, Advance, NextPage,
                            Finish, ghosts
  <2> QED
    BY <2>1, <2>2
<1>6. ASSUME NEW c \in Call, Abort(c) PROVE HiddenFollowsAccount'
  BY <1>1, <1>6, AbortReturns DEF ghosts
<1>7. CASE UserHides
  BY <1>7, HiddenUser
<1> QED
  BY <1>2, <1>3, <1>4, <1>5, <1>6, <1>7 DEF Next, Start, Abort, UserHides

-----------------------------------------------------------------------------
(* Theorems *)

LEMMA InitInv == Init => IInv
<1> SUFFICES ASSUME Init PROVE IInv
  OBVIOUS
<1>1. TypeOK
  BY InitType
<1>2. OneRunning /\ PageInv
  BY DEF Init, OneRunning, PageInv, Running
<1>3. RowsInv
  <2>1. 0 \in cursor..latest /\ history[0] = content
    BY DEF Init
  <2> QED
    BY <2>1 DEF Init, RowsInv, NotOlder
<1>4. VersionInv
  BY BoundAssumption DEF Init, VersionInv
<1>5. HiddenFollowsAccount
  BY DEF Init, HiddenFollowsAccount, Present
<1> QED
  BY <1>1, <1>2, <1>3, <1>4, <1>5 DEF IInv

LEMMA NextInv == IInv /\ [Next]_vars => IInv'
BY NextType, OneRunningNext, PageInvNext, RowsNext, VersionNext, HiddenNext
DEF IInv

LEMMA Invariance == Spec => []IInv
<1>1. Init => IInv
  BY InitInv
<1>2. IInv /\ [Next]_vars => IInv'
  BY NextInv
<1> QED
  BY <1>1, <1>2, PTL DEF Spec

\* No change of the provider is lost while calls of the item do not overlap:
\* no row is ever older than the stored cursor, whatever fails and however
\* often the item is linked again (sync_pages).
THEOREM NothingIsMissed == Spec => []NothingMissed
<1>1. IInv => NothingMissed
  BY DEF IInv, RowsInv, NothingMissed
<1> QED
  BY <1>1, Invariance, PTL

\* Until the item is linked again its rows are exactly the version of the last
\* page written (sync_pages).
THEOREM RowsAreOneVersion == Spec => []OneVersion
<1>1. IInv => OneVersion
  BY DEF IInv, VersionInv, OneVersion
<1> QED
  BY <1>1, Invariance, PTL

\* A row is hidden exactly when its account is, but for what the user or a rule
\* says of it alone, whatever pages update, replay or insert it; excused are rows
\* inserted with a flag read before it was changed (update_account, sync_pages).
THEOREM HiddenAgrees == Spec => []HiddenFollowsAccount
<1>1. IInv => HiddenFollowsAccount
  BY DEF IInv
<1> QED
  BY <1>1, Invariance, PTL

-----------------------------------------------------------------------------
(* With one caller, and no second link, the sync implements ProviderMirror *)

OnlyCaller == MaxRelinks = 0 /\ \A c, d \in Call : c = d

Undisturbed == ~overlapped /\ relinks = 0

LEMMA UndisturbedNext ==
  ASSUME OnlyCaller, TypeOK, Undisturbed, [Next]_vars
  PROVE  Undisturbed'
<1>1. CASE UNCHANGED <<overlapped, relinks>>
  BY <1>1 DEF Undisturbed
<1>2. ~Relink
  BY DEF OnlyCaller, Relink, TypeOK
<1>3. ASSUME NEW c \in Call, Start(c) PROVE Undisturbed'
  <2>1. Begin(c)
    BY <1>3, StartIsBegin
  <2>2. Running = {}
    BY <2>1 DEF Begin, Running, OnlyCaller
  <2> QED
    BY <2>1, <2>2 DEF Begin, Undisturbed
<1>4. ASSUME NEW c \in Call, Step(c) PROVE Undisturbed'
  BY <1>1, <1>4 DEF Step, LoadCursor, LoadHidden, Fetch, Persist, Advance,
                    NextPage, Finish, ghosts
<1>5. ASSUME NEW c \in Call, Abort(c) PROVE Undisturbed'
  BY <1>1, <1>5, AbortReturns DEF ghosts
<1>6. CASE Publish \/ Tick \/ Crash \/ FaultsEnd \/ UNCHANGED vars
  BY <1>1, <1>6 DEF Publish, Tick, Crash, FaultsEnd, vars, ghosts
<1>7. ASSUME UserHides PROVE Undisturbed'
  BY <1>1, <1>7 DEF UserHides, SetHidden, SetRowsHidden
<1>8. ASSUME NEW c \in Call, Mutated(c) PROVE Undisturbed'
  BY <1>1, <1>8 DEF Mutated, ghosts
<1> QED
  BY <1>2, <1>3, <1>4, <1>5, <1>6, <1>7, <1>8 DEF Next, Start, Abort, UserHides

LEMMA MirrorInit == Init => Mirror!Init
BY DEF Init, Mirror!Init

LEMMA MirrorNext ==
  ASSUME IInv, Undisturbed, [Next]_vars
  PROVE  [Mirror!Next]_(Mirror!vars)
<1>1. CASE UNCHANGED <<history, latest, content, position>>
  BY <1>1 DEF Mirror!vars
<1>2. CASE Publish
  <2>1. PICK t \in Txn, new \in Content \cup {Absent} :
          history' = [k \in 0..latest' |->
                        IF k = latest' THEN [history[latest] EXCEPT ![t] = new]
                        ELSE history[k]]
    BY <1>2 DEF Publish
  <2>2. [history[latest] EXCEPT ![t] = new] \in Mirror!State
    BY DEF IInv, TypeOK, State, Mirror!State
  <2>3. latest' = latest + 1 /\ UNCHANGED <<content, position>>
    BY <1>2 DEF Publish, table, ghosts
  <2> QED
    BY <2>1, <2>2, <2>3 DEF Mirror!Next, Mirror!Publish
<1>3. ASSUME NEW c \in Call, Persist(c) PROVE Mirror!CatchUp
  <2>1. UNCHANGED <<history, latest>> /\ position' = to[c]
    BY <1>3 DEF Persist, external
  <2>2. position <= to[c] /\ position' \in position..latest
    BY <1>3, <2>1 DEF Persist, IInv, VersionInv, Undisturbed, TypeOK
  <2>3. at[c] = cursor /\ at[c] \in 0..latest /\ to[c] \in at[c]..latest
        /\ position \in at[c]..to[c] /\ content = history[position]
    BY <1>3, <2>2 DEF Persist, IInv, VersionInv, PageInv, Undisturbed, TypeOK
  <2>4. content' = history[to[c]]
    BY <1>3, <2>3, PageBringsVersion DEF Persist, IInv
  <2> QED
    BY <2>1, <2>2, <2>4 DEF Mirror!CatchUp
<1>4. ASSUME NEW c \in Call, Step(c) PROVE [Mirror!Next]_(Mirror!vars)
  <2>1. CASE Persist(c)
    BY <1>3, <2>1 DEF Mirror!Next
  <2>2. CASE ~Persist(c)
    BY <1>1, <1>4, <2>2 DEF Step, LoadCursor, LoadHidden, Fetch, Advance,
       NextPage, Finish, external, table, ghosts
  <2> QED
    BY <2>1, <2>2
<1>5. ASSUME NEW c \in Call, Start(c) PROVE [Mirror!Next]_(Mirror!vars)
  BY <1>1, <1>5, StartIsBegin DEF Begin, external, table
<1>6. ASSUME NEW c \in Call, Abort(c) PROVE [Mirror!Next]_(Mirror!vars)
  BY <1>1, <1>6, AbortReturns DEF external, table, ghosts
<1>7. CASE Tick \/ Relink \/ Crash \/ FaultsEnd \/ UNCHANGED vars
  BY <1>1, <1>7 DEF Tick, Relink, Crash, FaultsEnd, vars, external, table, ghosts
<1>8. ASSUME UserHides
      PROVE  [Mirror!Next]_(Mirror!vars)
  BY <1>1, <1>8 DEF UserHides, SetHidden, SetRowsHidden, external
<1>9. ASSUME NEW c \in Call, Mutated(c) PROVE [Mirror!Next]_(Mirror!vars)
  BY <1>1, <1>9 DEF Mutated, external, table, ghosts
<1> QED
  BY <1>2, <1>4, <1>5, <1>6, <1>7, <1>8, <1>9 DEF Next, Start, Abort, UserHides,
  Mirror!Next

\* A sync that runs alone on an item linked once shows its reader nothing but
\* versions of the provider's data, in order, under every failure.
THEOREM ImplementsMirror ==
  ASSUME OnlyCaller
  PROVE  Spec => MirrorsProvider
<1>1. Init => Undisturbed /\ Mirror!Init
  BY MirrorInit DEF Init, Undisturbed
<1>2. IInv /\ Undisturbed /\ [Next]_vars => Undisturbed'
  BY OnlyCaller, UndisturbedNext DEF IInv
<1>3. IInv /\ Undisturbed /\ [Next]_vars => [Mirror!Next]_(Mirror!vars)
  BY MirrorNext
<1> QED
  BY <1>1, <1>2, <1>3, Invariance, PTL DEF Spec, MirrorsProvider, Mirror!Spec

-----------------------------------------------------------------------------
(* What holds for any number of callers *)

LEMMA NextPublished ==
  ASSUME TypeOK, RowsArePublished, [Next]_vars
  PROVE  RowsArePublished'
<1>1. CASE UNCHANGED <<history, latest, content>>
  BY <1>1 DEF RowsArePublished, NotOlder
<1>2. CASE Publish
  <2> SUFFICES ASSUME NEW t \in Txn
               PROVE  \E k \in 0..latest' : content'[t] = history'[k][t]
    BY DEF RowsArePublished, NotOlder
  <2>1. PICK k \in 0..latest : content[t] = history[k][t]
    BY DEF RowsArePublished, NotOlder
  <2>2. k \in 0..latest' /\ history'[k] = history[k] /\ content' = content
    BY <1>2, PublishKeeps DEF TypeOK, Publish, table
  <2> QED
    BY <2>1, <2>2
<1>3. ASSUME NEW c \in Call, Persist(c) PROVE RowsArePublished'
  <2> SUFFICES ASSUME NEW t \in Txn
               PROVE  \E k \in 0..latest' : content'[t] = history'[k][t]
    BY DEF RowsArePublished, NotOlder
  <2>1. UNCHANGED <<history, latest>> /\ to[c] \in 0..latest
    BY <1>3 DEF Persist, external, TypeOK
  <2>2. content'[t] \in {content[t], history[to[c]][t]}
    BY <1>3 DEF Persist, Applied
  <2> QED
    BY <2>1, <2>2 DEF RowsArePublished, NotOlder
<1>4. ASSUME NEW c \in Call, Step(c), ~Persist(c) PROVE RowsArePublished'
  BY <1>1, <1>4 DEF Step, LoadCursor, LoadHidden, Fetch, Advance, NextPage,
                    Finish, external, table
<1>5. ASSUME NEW c \in Call, Start(c) PROVE RowsArePublished'
  BY <1>1, <1>5, StartIsBegin DEF Begin, external, table
<1>6. ASSUME NEW c \in Call, Abort(c) PROVE RowsArePublished'
  BY <1>1, <1>6, AbortReturns DEF external, table
<1>7. CASE Tick \/ Relink \/ Crash \/ FaultsEnd \/ UNCHANGED vars
  BY <1>1, <1>7 DEF Tick, Relink, Crash, FaultsEnd, vars, external, table
<1>8. ASSUME UserHides PROVE RowsArePublished'
  BY <1>1, <1>8 DEF UserHides, SetHidden, SetRowsHidden, external
<1>9. ASSUME NEW c \in Call, Mutated(c) PROVE RowsArePublished'
  BY <1>1, <1>9 DEF Mutated, external, table
<1> QED
  BY <1>2, <1>3, <1>4, <1>5, <1>6, <1>7, <1>8, <1>9 DEF Next, Start, Abort, UserHides

\* Every row is one the provider published, whichever calls overlap.
THEOREM RowsPublished == Spec => []RowsArePublished
<1>1. Init => RowsArePublished
  <2>1. Init => 0 \in 0..latest /\ history[0] = content
    BY DEF Init
  <2> QED
    BY <2>1 DEF RowsArePublished, NotOlder
<1>2. TypeOK /\ RowsArePublished /\ [Next]_vars => RowsArePublished'
  BY NextPublished
<1> QED
  BY <1>1, <1>2, TypeCorrect, PTL DEF Spec

\* Only a new link takes the stored cursor back while calls do not overlap.
THEOREM CursorAdvances == Spec => OnlyALinkRewinds
<1> DEFINE Forward == ~overlapped' /\ cursor' < cursor => relinks' > relinks
<1>1. IInv /\ [Next]_vars => Forward
  <2> SUFFICES ASSUME IInv, [Next]_vars, ~overlapped', cursor' < cursor
               PROVE  relinks' > relinks
    OBVIOUS
  <2>1. cursor' # cursor
    BY DEF IInv, TypeOK
  <2>2. CASE Relink
    BY <2>2 DEF Relink, IInv, TypeOK
  <2>3. ASSUME NEW c \in Call, Advance(c) PROVE FALSE
    <3>1. ~overlapped /\ cursor <= to[c] /\ cursor' \in {cursor, to[c]}
      BY <2>3 DEF Advance, IInv, RowsInv, ghosts
    <3> QED
      BY <2>1, <3>1 DEF IInv, TypeOK
  <2>4. ASSUME NEW c \in Call, Step(c) PROVE FALSE
    BY <2>1, <2>3, <2>4 DEF Step, LoadCursor, LoadHidden, Fetch, Persist,
       NextPage, Finish, item
  <2>5. ASSUME NEW c \in Call, Start(c) PROVE FALSE
    BY <2>1, <2>5, StartIsBegin DEF Begin
  <2>6. ASSUME NEW c \in Call, Abort(c) PROVE FALSE
    BY <2>1, <2>6, AbortReturns
  <2>7. ASSUME NEW c \in Call, Mutated(c) PROVE FALSE
    BY <2>1, <2>7 DEF Mutated, item
  <2>8. ASSUME UserHides PROVE FALSE
    BY <2>1, <2>8 DEF UserHides, SetHidden, SetRowsHidden, item
  <2>9. ~(Publish \/ Tick \/ Crash \/ FaultsEnd \/ UNCHANGED vars)
    BY <2>1 DEF Publish, Tick, Crash, FaultsEnd, vars, item
  <2> QED
    BY <2>2, <2>4, <2>5, <2>6, <2>7, <2>8, <2>9 DEF Next, Start, Abort, UserHides
<1>2. IInv /\ [Next]_vars => [Forward]_cursor
  BY <1>1
<1> QED
  BY <1>2, Invariance, PTL DEF Spec, OnlyALinkRewinds

\* Calls that overlapped and links made again stay on record.
LEMMA DisturbedStays ==
  ASSUME TypeOK, [Next]_vars, Undisturbed'
  PROVE  Undisturbed
<1>1. CASE UNCHANGED <<overlapped, relinks>>
  BY <1>1 DEF Undisturbed
<1>2. CASE Relink
  BY <1>2 DEF Relink, Undisturbed, TypeOK
<1>3. ASSUME NEW c \in Call, Start(c) PROVE Undisturbed
  BY <1>3, StartIsBegin DEF Begin, Undisturbed
<1>4. ASSUME NEW c \in Call, Step(c) PROVE Undisturbed
  BY <1>1, <1>4 DEF Step, LoadCursor, LoadHidden, Fetch, Persist, Advance,
                    NextPage, Finish, ghosts
<1>5. ASSUME NEW c \in Call, Abort(c) PROVE Undisturbed
  BY <1>1, <1>5, AbortReturns DEF ghosts
<1>6. CASE Publish \/ Tick \/ Crash \/ FaultsEnd \/ UNCHANGED vars
  BY <1>1, <1>6 DEF Publish, Tick, Crash, FaultsEnd, vars, ghosts
<1>7. ASSUME UserHides PROVE Undisturbed
  BY <1>1, <1>7 DEF UserHides, SetHidden, SetRowsHidden
<1>8. ASSUME NEW c \in Call, Mutated(c) PROVE Undisturbed
  BY <1>1, <1>8 DEF Mutated, ghosts
<1> QED
  BY <1>2, <1>3, <1>4, <1>5, <1>6, <1>7, <1>8 DEF Next, Start, Abort, UserHides

\* With any number of callers the rows mirror the provider's versions until two
\* calls overlap or the item is linked again.
THEOREM MirrorsUntilDisturbed == Spec => MirrorsUndisturbed
<1>1. IInv /\ [Next]_vars
        => [~overlapped' /\ relinks' = 0 => Mirror!Next]_(Mirror!vars)
  <2> SUFFICES ASSUME IInv, [Next]_vars, Undisturbed'
               PROVE  [Mirror!Next]_(Mirror!vars)
    BY DEF Undisturbed
  <2>1. Undisturbed
    BY DisturbedStays DEF IInv
  <2> QED
    BY <2>1, MirrorNext
<1> QED
  BY <1>1, Invariance, PTL DEF Spec, MirrorsUndisturbed

-----------------------------------------------------------------------------
(* What the end of a sync leaves *)

\* A sync that runs alone to its end leaves the rows as the provider has them,
\* however the item's cursor was lost, kept back or reset before (sync_pages).
THEOREM EndsCurrent == Spec => SyncEndsCurrent
<1>1. ASSUME IInv, NEW c \in Call, Finish(c), ~overlapped, to[c] = latest
      PROVE  content = history[latest]
  <2>1. NotOlder(latest)
    BY <1>1 DEF IInv, RowsInv, Finish
  <2>2. latest \in Nat /\ content \in State /\ history[latest] \in State
    BY <1>1 DEF IInv, TypeOK
  <2>3. \A t \in Txn : content[t] = history[latest][t]
    BY <2>1, <2>2 DEF NotOlder
  <2> QED
    BY <2>2, <2>3 DEF State
<1>2. IInv /\ [Next]_vars
        => [\A c \in Call : Finish(c) /\ ~overlapped /\ to[c] = latest =>
              content = history[latest]]_vars
  BY <1>1
<1> QED
  BY <1>2, Invariance, PTL DEF Spec, SyncEndsCurrent
=============================================================================
