------------------------- MODULE SimpleFinSyncProofs -------------------------
(***************************************************************************)
(* What a SimpleFIN sync promises about the rows of a token, for any       *)
(* transactions, number of calls, windows and bounds.                      *)
(***************************************************************************)
EXTENDS SimpleFinSync, TLAPS

\* A transaction a hold settled as exists only after the hold has gone.
HoldsGo == \A h \in Hold : bank[Settles[h]] # "none" => bank[h] = "gone"

\* Rows and pages show what the bank has said, and what is posted stays so.
Said(s) == \A t \in Txn : /\ s[t] # "none" => bank[t] # "none"
                          /\ s[t] = "posted" => bank[t] = "posted"

RowsSaid == Said(rows)
PagesSaid == \A c \in Caller : Said(page[c])

\* A call that no other one has crossed is alone.
Alone == \A c \in Running : c \notin crossed => Running = {c}

\* It holds exactly the pending rows when it writes.
HeldIsPending ==
  \A c \in Caller : pc[c] = "persist" /\ c \notin crossed
     => held[c] = {t \in Txn : rows[t] = "pending"}

\* Its page and the rows show a hold or what it settled as, not both.
PageIsOneTime ==
  \A c \in Caller : pc[c] \in {"pending", "persist"} /\ c \notin crossed
     => \A h \in Hold : page[c][h] # "none"
          => rows[Settles[h]] = "none" /\ page[c][Settles[h]] = "none"

IInv == /\ TypeOK /\ HoldsGo /\ RowsSaid /\ PagesSaid /\ Alone /\ HeldIsPending
        /\ PageIsOneTime /\ NotTwice

\* The steps of the bank, those of a call before it writes, and those that end
\* a call or leave the calls alone.
BankStep ==
  \/ \E t \in Txn, d \in Day : Appear(t, d)
  \/ \E h \in Hold : (\E d \in Day : Settle(h, d) \/ Post(h, d)) \/ Release(h)

TokenStep == Tick \/ Schedule \/ Reset

-----------------------------------------------------------------------------
LEMMA StartDateType ==
  ASSUME NEW l \in Day \cup {Never}, NEW d \in Day
  PROVE  StartDate(l, d) \in Int
BY WindowAssumption DEF StartDate, Day

LEMMA WrittenType ==
  ASSUME TypeOK, NEW c \in Caller
  PROVE  Written(c) \in [Txn -> Status]
<1>1. page[c] \in [Txn -> Status] /\ rows \in [Txn -> Status]
  BY DEF TypeOK
<1> QED BY <1>1 DEF Written, Status

LEMMA TypeBank ==
  ASSUME TypeOK, BankStep
  PROVE  TypeOK'
<1>1. CASE \E t \in Txn, d \in Day : Appear(t, d)
  BY <1>1 DEF TypeOK, Appear, Dated, Status, calls
<1>2. CASE \E h \in Hold : \E d \in Day : Settle(h, d)
  BY <1>2, SettlesAssumption DEF TypeOK, Settle, Dated, Status, calls
<1>3. CASE \E h \in Hold : \E d \in Day : Post(h, d)
  BY <1>3, SettlesAssumption DEF TypeOK, Post, Dated, Status, calls
<1>4. CASE \E h \in Hold : Release(h)
  BY <1>4, SettlesAssumption DEF TypeOK, Release, Status, calls
<1> QED BY <1>1, <1>2, <1>3, <1>4 DEF BankStep

LEMMA TypeIdle ==
  ASSUME TypeOK, NEW c \in Caller, Idle(c)
  PROVE  /\ pc' \in [Caller -> {"idle", "fetch", "pending", "persist", "synced"}]
         /\ began' \in [Caller -> Day \X Int] /\ page' \in [Caller -> [Txn -> Status]]
         /\ partial' \in [Caller -> BOOLEAN] /\ held' \in [Caller -> SUBSET Txn]
<1>1. <<0, 0>> \in Day \X Int
  BY WindowAssumption DEF Day
<1>2. [t \in Txn |-> "none"] \in [Txn -> Status]
  BY DEF Status
<1> QED BY <1>1, <1>2 DEF TypeOK, Idle

LEMMA TypeCall ==
  ASSUME TypeOK, NEW c \in Caller,
         (\E e \in BOOLEAN : Start(c, e)) \/ Sync(c) \/ Fail(c)
  PROVE  TypeOK'
<1>1. CASE \E e \in BOOLEAN : Start(c, e)
  <2>1. PICK e \in BOOLEAN : Start(c, e)
    BY <1>1
  <2>2. StartDate(last, day) \in Int
    BY StartDateType DEF TypeOK
  <2>3. began' \in [Caller -> Day \X Int]
    BY <2>1, <2>2 DEF TypeOK, Start
  <2>4. crossed' \subseteq Caller
    BY <2>1 DEF TypeOK, Start, Running
  <2>5. gap' \in BOOLEAN
    BY <2>1 DEF TypeOK, Start
  <2> QED BY <2>1, <2>3, <2>4, <2>5 DEF TypeOK, Start, provider
<1>2. CASE FetchAll(c) \/ FetchSome(c)
  <2>1. PICK missing \in SUBSET Txn, e \in BOOLEAN : Answer(c, missing, e)
    BY <1>2 DEF FetchAll, FetchSome
  <2>2. [t \in Txn |-> IF t \in missing THEN "none" ELSE Shown(began[c][2])[t]]
          \in [Txn -> Status]
    BY DEF Shown, Status
  <2> QED BY <2>1, <2>2 DEF TypeOK, Answer, provider
<1>3. CASE ReadPending(c)
  BY <1>3 DEF TypeOK, ReadPending, provider
<1>4. CASE Persist(c)
  <2>1. rows' \in [Txn -> Status]
    BY <1>4, WrittenType DEF Persist
  <2>2. CASE partial[c]
    BY <1>4, <2>1, <2>2, TypeIdle DEF TypeOK, Persist, provider
  <2>3. CASE ~partial[c]
    BY <1>4, <2>1, <2>3 DEF TypeOK, Persist, provider
  <2> QED BY <2>2, <2>3
<1>5. CASE SetSynced(c)
  <2>1. began[c][1] \in Day
    BY DEF TypeOK
  <2> QED BY <1>5, <2>1, TypeIdle DEF TypeOK, SetSynced, provider
<1>6. CASE Fail(c)
  BY <1>6, TypeIdle DEF TypeOK, Fail, provider
<1> QED BY <1>1, <1>2, <1>3, <1>4, <1>5, <1>6 DEF Sync

LEMMA TypeToken ==
  ASSUME TypeOK, TokenStep \/ Crash
  PROVE  TypeOK'
<1>1. CASE Tick
  BY <1>1, WindowAssumption DEF TypeOK, Tick, provider, calls, Day
<1>2. CASE Schedule
  BY <1>2 DEF TypeOK, Schedule, provider, calls
<1>3. CASE Reset
  BY <1>3, WindowAssumption DEF TypeOK, Reset, provider, calls
<1>4. CASE Crash
  <2>1. <<0, 0>> \in Day \X Int
    BY WindowAssumption DEF Day
  <2>2. [t \in Txn |-> "none"] \in [Txn -> Status]
    BY DEF Status
  <2> QED BY <1>4, <2>1, <2>2 DEF TypeOK, Crash, provider
<1> QED BY <1>1, <1>2, <1>3, <1>4 DEF TokenStep

LEMMA TypeNext == TypeOK /\ [Next]_vars => TypeOK'
<1> SUFFICES ASSUME TypeOK, [Next]_vars PROVE TypeOK'
  OBVIOUS
<1>1. CASE UNCHANGED vars
  BY <1>1 DEF TypeOK, vars, provider, calls
<1> QED BY <1>1, TypeBank, TypeCall, TypeToken DEF Next, BankStep, TokenStep

LEMMA TypeInit == Init => TypeOK
<1> SUFFICES ASSUME Init PROVE TypeOK
  OBVIOUS
<1>1. 0 \in Day /\ <<0, 0>> \in Day \X Int /\ 0 \in 0..MaxResets
  BY WindowAssumption DEF Day
<1>2. page \in [Caller -> [Txn -> Status]] /\ rows \in [Txn -> Status]
      /\ bank \in [Txn -> Status \cup {"gone"}]
  BY DEF Init, Status
<1> QED BY <1>1, <1>2 DEF Init, TypeOK

\* The type invariant, for any constants that satisfy the assumptions.
THEOREM TypeCorrect == Spec => []TypeOK
<1>1. Init => TypeOK
  BY TypeInit
<1>2. TypeOK /\ [Next]_vars => TypeOK'
  BY TypeNext
<1> QED BY <1>1, <1>2, PTL DEF Spec

-----------------------------------------------------------------------------
\* What the bank does leaves rows and pages true: nothing returns to "none" and
\* what is posted stays.
LEMMA BankMoves ==
  ASSUME TypeOK, HoldsGo, BankStep
  PROVE  /\ HoldsGo'
         /\ \A t \in Txn : /\ bank[t] # "none" => bank'[t] # "none"
                           /\ bank[t] = "posted" => bank'[t] = "posted"
         /\ UNCHANGED <<rows, last, due, calls, crossed, clean, reach, gap, resets, day>>
<1>0. /\ Hold \subseteq Txn /\ bank \in [Txn -> Status \cup {"gone"}]
      /\ \A h \in Hold : Settles[h] \in Txn \ Hold
      /\ \A g, h \in Hold : Settles[g] = Settles[h] => g = h
  BY SettlesAssumption DEF TypeOK
<1>1. CASE \E t \in Txn, d \in Day : Appear(t, d)
  <2>1. PICK t \in Txn, d \in Day : Appear(t, d)
    BY <1>1
  <2> QED BY <1>0, <2>1 DEF Appear, HoldsGo
<1>2. CASE \E h \in Hold : \E d \in Day : Settle(h, d)
  <2>1. PICK h \in Hold, d \in Day : Settle(h, d)
    BY <1>2
  <2>2. /\ bank[h] = "pending" /\ bank[Settles[h]] = "none"
        /\ bank' = [bank EXCEPT ![h] = "gone", ![Settles[h]] = "posted"]
    BY <2>1 DEF Settle, HoldsGo
  <2>3. bank'[Settles[h]] = "posted" /\ bank'[h] = "gone"
        /\ \A t \in Txn \ {h, Settles[h]} : bank'[t] = bank[t]
    BY <1>0, <2>2
  <2>4. HoldsGo'
    <3> SUFFICES ASSUME NEW g \in Hold, bank'[Settles[g]] # "none"
                 PROVE  bank'[g] = "gone"
      BY DEF HoldsGo
    <3>1. CASE g = h
      BY <2>3, <3>1
    <3>2. CASE g # h
      <4>1. /\ Settles[g] \in Txn \ {h, Settles[h]} /\ g \in Txn \ {h, Settles[h]}
        BY <1>0, <3>2
      <4> QED BY <2>3, <4>1 DEF HoldsGo
    <3> QED BY <3>1, <3>2
  <2> QED BY <2>1, <2>2, <2>3, <2>4 DEF Settle
<1>3. CASE \E h \in Hold : \E d \in Day : Post(h, d)
  <2>1. PICK h \in Hold, d \in Day : Post(h, d)
    BY <1>3
  <2> QED BY <1>0, <2>1 DEF Post, HoldsGo
<1>4. CASE \E h \in Hold : Release(h)
  <2>1. PICK h \in Hold : Release(h)
    BY <1>4
  <2> QED BY <1>0, <2>1 DEF Release, HoldsGo
<1> QED BY <1>1, <1>2, <1>3, <1>4 DEF BankStep

LEMMA InvBank ==
  ASSUME IInv, BankStep
  PROVE  IInv'
<1>1. TypeOK'
  BY TypeBank DEF IInv
<1>2. /\ HoldsGo'
      /\ \A t \in Txn : /\ bank[t] # "none" => bank'[t] # "none"
                        /\ bank[t] = "posted" => bank'[t] = "posted"
      /\ UNCHANGED <<rows, calls, crossed, clean>>
  BY BankMoves DEF IInv
<1>3. RowsSaid'
  <2>1. rows' = rows /\ RowsSaid
    BY <1>2 DEF IInv
  <2> SUFFICES ASSUME NEW t \in Txn
               PROVE  /\ rows[t] # "none" => bank'[t] # "none"
                      /\ rows[t] = "posted" => bank'[t] = "posted"
    BY <2>1 DEF RowsSaid, Said
  <2> QED BY <1>2, <2>1 DEF RowsSaid, Said
<1>5. PagesSaid'
  <2>1. page' = page /\ PagesSaid
    BY <1>2 DEF calls, IInv
  <2> SUFFICES ASSUME NEW c \in Caller, NEW t \in Txn
               PROVE  /\ page[c][t] # "none" => bank'[t] # "none"
                      /\ page[c][t] = "posted" => bank'[t] = "posted"
    BY <2>1 DEF PagesSaid, Said
  <2> QED BY <1>2, <2>1 DEF PagesSaid, Said
<1>4. Alone' /\ HeldIsPending' /\ PageIsOneTime' /\ NotTwice'
  BY <1>2 DEF IInv, Alone, Running, HeldIsPending, PageIsOneTime, NotTwice, calls
<1> QED BY <1>1, <1>2, <1>3, <1>4, <1>5 DEF IInv

\* A call that becomes idle takes nothing from the others.
LEMMA InvIdle ==
  ASSUME IInv, TypeOK', NEW c \in Caller, Idle(c),
         UNCHANGED <<bank, rows, crossed, clean>>
  PROVE  IInv'
<1>1. /\ pc' = [pc EXCEPT ![c] = "idle"]
      /\ page' = [page EXCEPT ![c] = [t \in Txn |-> "none"]]
      /\ held' = [held EXCEPT ![c] = {}]
  BY DEF Idle
<1>2. /\ \A b \in Caller \ {c} : pc'[b] = pc[b] /\ page'[b] = page[b] /\ held'[b] = held[b]
      /\ pc'[c] = "idle" /\ \A t \in Txn : page'[c][t] = "none"
  BY <1>1 DEF IInv, TypeOK
<1>3. Running' = Running \ {c}
  BY <1>2 DEF Running
<1>4. HoldsGo' /\ RowsSaid' /\ NotTwice'
  BY DEF IInv, HoldsGo, RowsSaid, Said, NotTwice
<1>5. PagesSaid'
  BY <1>2 DEF IInv, PagesSaid, Said
<1>6. Alone'
  BY <1>3 DEF IInv, Alone
<1>7. HeldIsPending' /\ PageIsOneTime'
  BY <1>2 DEF IInv, HeldIsPending, PageIsOneTime
<1> QED BY <1>4, <1>5, <1>6, <1>7 DEF IInv

LEMMA InvStart ==
  ASSUME IInv, NEW c \in Caller, NEW e \in BOOLEAN, Start(c, e)
  PROVE  IInv'
<1>1. TypeOK'
  BY TypeCall DEF IInv
<1>2. /\ pc[c] = "idle" /\ UNCHANGED <<bank, rows, page, held, clean>>
      /\ pc' = [pc EXCEPT ![c] = "fetch"]
      /\ crossed' = IF Running = {} THEN crossed \ {c} ELSE crossed \cup Running \cup {c}
  BY DEF Start, provider
<1>3. Running' = Running \cup {c}
  BY <1>2 DEF Running, IInv, TypeOK
<1>4. Alone'
  BY <1>2, <1>3 DEF Alone
<1>5. \A b \in Caller : pc'[b] \in {"pending", "persist"} /\ b \notin crossed'
        => pc'[b] = pc[b] /\ b \notin crossed
  BY <1>2 DEF Running, IInv, TypeOK
<1>6. HeldIsPending' /\ PageIsOneTime'
  BY <1>2, <1>5 DEF IInv, HeldIsPending, PageIsOneTime
<1>7. HoldsGo' /\ RowsSaid' /\ PagesSaid' /\ NotTwice'
  BY <1>2 DEF IInv, HoldsGo, RowsSaid, PagesSaid, Said, NotTwice
<1> QED BY <1>1, <1>4, <1>6, <1>7 DEF IInv

\* The page is what the bank shows at one moment, or less.
LEMMA InvAnswer ==
  ASSUME IInv, NEW c \in Caller, NEW missing \in SUBSET Txn, NEW e \in BOOLEAN,
         Answer(c, missing, e), TypeOK'
  PROVE  IInv'
<1>1. /\ pc[c] = "fetch" /\ UNCHANGED <<bank, rows, held, clean, crossed>>
      /\ pc' = [pc EXCEPT ![c] = "pending"]
      /\ \A b \in Caller \ {c} : page'[b] = page[b]
      /\ page'[c] = [t \in Txn |-> IF t \in missing THEN "none"
                                    ELSE Shown(began[c][2])[t]]
  BY DEF Answer, provider, IInv, TypeOK
<1>2. \A t \in Txn : page'[c][t] # "none"
        => page'[c][t] = bank[t] /\ bank[t] \in {"pending", "posted"}
  BY <1>1 DEF Shown
<1>3. Running' = Running
  BY <1>1 DEF Running, IInv, TypeOK
<1>4. Alone'
  BY <1>1, <1>3 DEF Alone, IInv
<1>5. PagesSaid'
  BY <1>1, <1>2 DEF IInv, PagesSaid, Said
<1>6. HeldIsPending'
  BY <1>1 DEF IInv, TypeOK, HeldIsPending
<1>7. PageIsOneTime'
  <2>1. \A h \in Hold : page'[c][h] # "none"
          => rows[Settles[h]] = "none" /\ page'[c][Settles[h]] = "none"
    <3> SUFFICES ASSUME NEW h \in Hold, page'[c][h] # "none"
                 PROVE  rows[Settles[h]] = "none" /\ page'[c][Settles[h]] = "none"
      OBVIOUS
    <3>1. h \in Txn /\ Settles[h] \in Txn
      BY SettlesAssumption
    <3>2. bank[Settles[h]] = "none"
      BY <1>2, <3>1 DEF IInv, HoldsGo
    <3> QED BY <1>2, <3>1, <3>2 DEF IInv, RowsSaid, Said
  <2>2. \A b \in Caller \ {c} : pc'[b] = pc[b]
    BY <1>1 DEF IInv, TypeOK
  <2> QED BY <1>1, <2>1, <2>2 DEF IInv, PageIsOneTime
<1>8. HoldsGo' /\ RowsSaid' /\ NotTwice'
  BY <1>1 DEF IInv, HoldsGo, RowsSaid, Said, NotTwice
<1> QED BY <1>4, <1>5, <1>6, <1>7, <1>8 DEF IInv

LEMMA InvReadPending ==
  ASSUME IInv, NEW c \in Caller, ReadPending(c)
  PROVE  IInv'
<1>1. TypeOK'
  BY TypeCall DEF IInv, Sync
<1>2. /\ pc[c] = "pending" /\ UNCHANGED <<bank, rows, page, clean, crossed>>
      /\ pc' = [pc EXCEPT ![c] = "persist"]
      /\ held' = [held EXCEPT ![c] = {t \in Txn : rows[t] = "pending"}]
  BY DEF ReadPending, provider
<1>3. Running' = Running
  BY <1>2 DEF Running, IInv, TypeOK
<1>4. Alone'
  BY <1>2, <1>3 DEF Alone, IInv
<1>5. HeldIsPending'
  BY <1>2 DEF IInv, TypeOK, HeldIsPending
<1>6. PageIsOneTime'
  BY <1>2 DEF IInv, TypeOK, PageIsOneTime
<1>7. HoldsGo' /\ RowsSaid' /\ PagesSaid' /\ NotTwice'
  BY <1>2 DEF IInv, HoldsGo, RowsSaid, PagesSaid, Said, NotTwice
<1> QED BY <1>1, <1>4, <1>5, <1>6, <1>7 DEF IInv

\* What a call that ran alone, with a whole answer, writes.
LEMMA WrittenOnce ==
  ASSUME IInv, NEW c \in Caller, pc[c] = "persist", c \notin crossed, ~partial[c],
         NEW h \in Hold
  PROVE  Written(c)[h] = "none" \/ Written(c)[Settles[h]] = "none"
<1>1. h \in Txn /\ Settles[h] \in Txn
  BY SettlesAssumption
<1>2. held[c] = {t \in Txn : rows[t] = "pending"}
  BY DEF IInv, HeldIsPending
<1>3. \A t \in Txn : Written(c)[t] =
        CASE t \in held[c] \ Fetched(c) -> "none"
          [] t \in Fetched(c) -> page[c][t]
          [] OTHER -> rows[t]
  BY DEF Written, Removed
<1>4. CASE h \in Fetched(c)
  <2>1. rows[Settles[h]] = "none" /\ page[c][Settles[h]] = "none"
    BY <1>4 DEF IInv, PageIsOneTime, Fetched
  <2> QED BY <1>1, <1>3, <2>1 DEF Fetched
<1>5. CASE h \notin Fetched(c) /\ rows[h] = "posted"
  <2>1. bank[h] = "posted"
    BY <1>1, <1>5 DEF IInv, RowsSaid, Said
  <2>2. bank[Settles[h]] = "none"
    BY <2>1 DEF IInv, HoldsGo
  <2>3. rows[Settles[h]] = "none" /\ page[c][Settles[h]] = "none"
    BY <1>1, <2>2 DEF IInv, RowsSaid, PagesSaid, Said
  <2> QED BY <1>1, <1>3, <2>3 DEF Fetched
<1>6. CASE h \notin Fetched(c) /\ rows[h] # "posted"
  <2>1. rows[h] \in {"none", "pending"}
    BY <1>1, <1>6 DEF IInv, TypeOK, Status
  <2> QED BY <1>1, <1>2, <1>3, <1>6, <2>1
<1> QED BY <1>4, <1>5, <1>6

LEMMA InvPersist ==
  ASSUME IInv, NEW c \in Caller, Persist(c)
  PROVE  IInv'
<1>1. TypeOK'
  BY TypeCall DEF IInv, Sync
<1>2. /\ pc[c] = "persist" /\ rows' = Written(c)
      /\ clean' = (c \notin crossed /\ ~partial[c])
      /\ UNCHANGED <<bank, crossed>>
  BY DEF Persist, provider
<1>3. /\ \A b \in Caller \ {c} : pc'[b] = pc[b] /\ page'[b] = page[b] /\ held'[b] = held[b]
      /\ pc'[c] \in {"idle", "synced"}
      /\ \A t \in Txn : page'[c][t] \in {"none", page[c][t]}
  <2>1. CASE partial[c]
    BY <2>1 DEF Persist, Idle, IInv, TypeOK
  <2>2. CASE ~partial[c]
    BY <2>2 DEF Persist, IInv, TypeOK
  <2> QED BY <2>1, <2>2
<1>4. Running' = Running \/ Running' = Running \ {c}
  BY <1>2, <1>3 DEF Running
<1>5. Alone'
  BY <1>2, <1>4 DEF IInv, Alone
<1>6. \A b \in Caller : pc'[b] \in {"pending", "persist"} => b \in crossed
  <2> SUFFICES ASSUME NEW b \in Caller, pc'[b] \in {"pending", "persist"}
               PROVE  b \in crossed
    OBVIOUS
  <2>1. b # c /\ pc[b] = pc'[b]
    BY <1>3
  <2>2. b \in Running /\ c \in Running
    BY <1>2, <2>1 DEF Running
  <2> QED BY <2>1, <2>2 DEF IInv, Alone
<1>7. HeldIsPending' /\ PageIsOneTime'
  BY <1>2, <1>6 DEF HeldIsPending, PageIsOneTime
<1>8. RowsSaid'
  <2>1. \A t \in Txn : rows'[t] \in {"none", page[c][t], rows[t]}
    BY <1>2 DEF Written
  <2> QED BY <1>2, <2>1 DEF IInv, RowsSaid, PagesSaid, Said
<1>9. PagesSaid'
  BY <1>2, <1>3 DEF IInv, PagesSaid, Said
<1>10. NotTwice'
  BY <1>2, WrittenOnce DEF NotTwice
<1>11. HoldsGo'
  BY <1>2 DEF IInv, HoldsGo
<1> QED BY <1>1, <1>5, <1>7, <1>8, <1>9, <1>10, <1>11 DEF IInv

LEMMA InvCrash ==
  ASSUME IInv, Crash
  PROVE  IInv'
<1>1. TypeOK'
  BY TypeToken DEF IInv
<1>2. /\ \A c \in Caller : pc'[c] = "idle" /\ \A t \in Txn : page'[c][t] = "none"
      /\ UNCHANGED <<bank, rows, clean, crossed>>
  BY DEF Crash, provider
<1>3. Alone' /\ HeldIsPending' /\ PageIsOneTime' /\ PagesSaid'
  BY <1>2 DEF Alone, Running, HeldIsPending, PageIsOneTime, PagesSaid, Said
<1>4. HoldsGo' /\ RowsSaid' /\ NotTwice'
  BY <1>2 DEF IInv, HoldsGo, RowsSaid, Said, NotTwice
<1> QED BY <1>1, <1>3, <1>4 DEF IInv

LEMMA InvRest ==
  ASSUME IInv, UNCHANGED <<bank, rows, calls, crossed, clean>>, TypeOK'
  PROVE  IInv'
BY DEF IInv, HoldsGo, RowsSaid, PagesSaid, Said, Alone, Running, HeldIsPending,
       PageIsOneTime, NotTwice, calls

LEMMA InvCall ==
  ASSUME IInv, NEW c \in Caller,
         (\E e \in BOOLEAN : Start(c, e)) \/ Sync(c) \/ Fail(c)
  PROVE  IInv'
<1>0. TypeOK'
  BY TypeCall DEF IInv
<1>1. CASE \E e \in BOOLEAN : Start(c, e)
  BY <1>1, InvStart
<1>2. CASE FetchAll(c) \/ FetchSome(c)
  <2>1. PICK missing \in SUBSET Txn, e \in BOOLEAN : Answer(c, missing, e)
    BY <1>2 DEF FetchAll, FetchSome
  <2> QED BY <1>0, <2>1, InvAnswer
<1>3. CASE ReadPending(c)
  BY <1>3, InvReadPending
<1>4. CASE Persist(c)
  BY <1>4, InvPersist
<1>5. CASE SetSynced(c)
  BY <1>0, <1>5, InvIdle DEF SetSynced, provider
<1>6. CASE Fail(c)
  BY <1>0, <1>6, InvIdle DEF Fail, provider
<1> QED BY <1>1, <1>2, <1>3, <1>4, <1>5, <1>6 DEF Sync

LEMMA InvNext == IInv /\ [Next]_vars => IInv'
<1> SUFFICES ASSUME IInv, [Next]_vars PROVE IInv'
  OBVIOUS
<1>0. TypeOK'
  BY TypeNext DEF IInv
<1>1. CASE UNCHANGED vars
  BY <1>0, <1>1, InvRest DEF vars, provider
<1>2. CASE TokenStep
  BY <1>0, <1>2, InvRest DEF TokenStep, Tick, Schedule, Reset, provider
<1> QED BY <1>1, <1>2, InvBank, InvCall, InvCrash DEF Next, BankStep, TokenStep

LEMMA InvInit == Init => IInv
<1> SUFFICES ASSUME Init PROVE IInv
  OBVIOUS
<1>1. TypeOK
  BY TypeInit
<1>2. /\ \A t \in Txn : bank[t] = "none" /\ rows[t] = "none"
      /\ \A c \in Caller : pc[c] = "idle" /\ \A t \in Txn : page[c][t] = "none"
  BY DEF Init
<1>3. \A h \in Hold : h \in Txn /\ Settles[h] \in Txn
  BY SettlesAssumption
<1> QED BY <1>1, <1>2, <1>3 DEF IInv, HoldsGo, RowsSaid, PagesSaid, Said, Alone, Running,
             HeldIsPending, PageIsOneTime, NotTwice

\* A hold and what it settled as are never both kept by a call that ran alone
\* on a whole answer: the call's page is of one time, and its pending rows are
\* all of those the table has when it writes.
THEOREM HoldsAreReplaced == Spec => []NotTwice
<1>1. IInv => NotTwice
  BY DEF IInv
<1> QED BY <1>1, InvInit, InvNext, PTL DEF Spec

\* Only a call that overlaps with another removes a posted row.
THEOREM PostedStays == Spec => PostedIsKept
<1>1. IInv /\ [Next]_vars
        => [\A t \in Txn : rows[t] = "posted" /\ rows'[t] = "none"
              => crossed \cap Running # {}]_vars
  <2> SUFFICES ASSUME IInv, [Next]_vars, NEW t \in Txn,
                      rows[t] = "posted", rows'[t] = "none"
               PROVE  crossed \cap Running # {}
    OBVIOUS
  <2>1. PICK c \in Caller : Persist(c)
    <3>1. rows' # rows
      OBVIOUS
    <3> QED BY <3>1 DEF Next, vars, provider, Appear, Settle, Post, Release, Start,
                 Sync, FetchAll, FetchSome, Answer, ReadPending, SetSynced, Fail, Tick,
                 Crash, Schedule, Reset
  <2>2. c \in Running
    BY <2>1 DEF Persist, Running
  <2>3. t \in held[c]
    <3>1. Written(c)[t] = "none"
      BY <2>1 DEF Persist
    <3>2. t \in Removed(c)
      BY <3>1 DEF Written, Fetched
    <3> QED BY <3>2 DEF Removed
  <2>4. c \in crossed
    BY <2>1, <2>3 DEF IInv, HeldIsPending, Persist
  <2> QED BY <2>2, <2>4
<1> QED BY <1>1, InvInit, InvNext, PTL DEF Spec, PostedIsKept

-----------------------------------------------------------------------------
\* Calls are over in time, windows reach back far enough, and the last sync is
\* not in the future.
Clock ==
  /\ \A c \in Running : /\ began[c][1] <= day /\ day <= began[c][1] + Lasts
                        /\ began[c][2] <= began[c][1] - Overlap
  /\ reach # Never => reach <= day
  /\ last # Never => last = reach

Lacking == {t \in Txn : bank[t] = "posted" /\ rows[t] # "posted"}

\* What the table lacks is as young as the last completed sync's window, and as
\* that of a call about to complete.
ReachCovers == reach # Never => \A t \in Lacking : date[t] >= reach - Overlap
SyncedCovers ==
  \A c \in Caller : pc[c] = "synced"
     => \A t \in Lacking : date[t] >= began[c][1] - Overlap

\* What is posted and older than a call's window is in the table, and the call
\* will not remove it.
WindowCovers ==
  \A c \in Running, t \in Txn : bank[t] = "posted" /\ date[t] < began[c][2]
     => rows[t] = "posted" /\ t \notin held[c]

\* A page without something posted is a page whose window is too short, or it
\* was posted after the answer.
PageLacks ==
  \A c \in Caller, t \in Txn : pc[c] \in {"pending", "persist"} /\ bank[t] = "posted"
     => /\ page[c][t] = "pending" => date[t] >= began[c][1] - Lag
        /\ (page[c][t] = "none" /\ ~partial[c])
             => date[t] < began[c][2] \/ date[t] >= began[c][1] - Lag

\* Between two calls nothing is held.
IdleHolds == \A c \in Caller : pc[c] \in {"idle", "fetch", "pending"} => held[c] = {}

WInv == /\ TypeOK /\ HoldsGo /\ Clock /\ IdleHolds /\ PageLacks
        /\ ~gap => ReachCovers /\ SyncedCovers /\ WindowCovers

LEMMA Numbers ==
  /\ Overlap \in Nat /\ Lookback \in Nat /\ Lag \in Nat /\ Lasts \in Nat
  /\ Lag + Lasts <= Overlap /\ Overlap <= Lookback /\ Never \notin Int
BY WindowAssumption

LEMMA WTypes ==
  ASSUME TypeOK
  PROVE  /\ day \in Int /\ \A t \in Txn : date[t] \in Int
         /\ \A c \in Caller : began[c][1] \in Int /\ began[c][2] \in Int
         /\ reach # Never => reach \in Int
         /\ last # Never => last \in Int
BY DEF TypeOK, Day

\* What is posted stays as it is; what becomes posted is dated lately.
LEMMA Posts ==
  ASSUME TypeOK, HoldsGo, BankStep, NEW t \in Txn
  PROVE  /\ bank[t] = "posted" => bank'[t] = "posted" /\ date'[t] = date[t]
         /\ bank'[t] = "posted" /\ bank[t] # "posted" => date'[t] >= day - Lag
<1>0. /\ Hold \subseteq Txn /\ bank \in [Txn -> Status \cup {"gone"}]
      /\ \A h \in Hold : Settles[h] \in Txn /\ Settles[h] # h
      /\ date \in [Txn -> Day] /\ day \in Int /\ Lag \in Int
      /\ \A d \in Day : d \in Int
  BY SettlesAssumption, Numbers DEF TypeOK, Day
<1>1. CASE \E u \in Txn, d \in Day : Appear(u, d)
  <2>1. PICK u \in Txn, d \in Day : Appear(u, d)
    BY <1>1
  <2>2. /\ bank[u] = "none" /\ day <= d + Lag
        /\ date' = [date EXCEPT ![u] = d]
        /\ \A v \in Txn \ {u} : bank'[v] = bank[v]
    BY <1>0, <2>1 DEF Appear, Dated
  <2> QED BY <1>0, <2>2
<1>2. CASE \E h \in Hold : \E d \in Day : Settle(h, d)
  <2>1. PICK h \in Hold, d \in Day : Settle(h, d)
    BY <1>2
  <2>2. /\ bank[h] = "pending" /\ bank[Settles[h]] = "none" /\ day <= d + Lag
        /\ date' = [date EXCEPT ![Settles[h]] = d]
        /\ bank' = [bank EXCEPT ![h] = "gone", ![Settles[h]] = "posted"]
    BY <2>1 DEF Settle, HoldsGo, Dated
  <2>3. bank'[h] = "gone" /\ \A v \in Txn \ {h, Settles[h]} : bank'[v] = bank[v]
    BY <1>0, <2>2
  <2> QED BY <1>0, <2>2, <2>3
<1>3. CASE \E h \in Hold : \E d \in Day : Post(h, d)
  <2>1. PICK h \in Hold, d \in Day : Post(h, d)
    BY <1>3
  <2>2. /\ bank[h] = "pending" /\ day <= d + Lag
        /\ date' = [date EXCEPT ![h] = d]
        /\ \A v \in Txn \ {h} : bank'[v] = bank[v]
    BY <1>0, <2>1 DEF Post, Dated
  <2> QED BY <1>0, <2>2
<1>4. CASE \E h \in Hold : Release(h)
  <2>1. PICK h \in Hold : Release(h)
    BY <1>4
  <2> QED BY <1>0, <2>1 DEF Release
<1> QED BY <1>1, <1>2, <1>3, <1>4 DEF BankStep

LEMMA WBank ==
  ASSUME WInv, BankStep
  PROVE  WInv'
<1>1. TypeOK' /\ HoldsGo' /\ UNCHANGED <<rows, last, calls, reach, gap, day>>
  BY TypeBank, BankMoves DEF WInv
<1>2. \A t \in Txn :
        /\ bank[t] = "posted" => bank'[t] = "posted" /\ date'[t] = date[t]
        /\ bank'[t] = "posted" /\ bank[t] # "posted" => date'[t] >= day - Lag
  BY Posts DEF WInv
<1>3. Clock' /\ IdleHolds'
  BY <1>1 DEF WInv, Clock, IdleHolds, Running, calls
<1>4. PageLacks'
  <2> SUFFICES ASSUME NEW c \in Caller, NEW t \in Txn,
                      pc[c] \in {"pending", "persist"}, bank'[t] = "posted"
               PROVE  /\ page[c][t] = "pending" => date'[t] >= began[c][1] - Lag
                      /\ (page[c][t] = "none" /\ ~partial[c])
                           => \/ date'[t] < began[c][2]
                              \/ date'[t] >= began[c][1] - Lag
    BY <1>1 DEF PageLacks, calls
  <2>1. CASE bank[t] = "posted"
    BY <1>2, <2>1 DEF WInv, PageLacks
  <2>2. CASE bank[t] # "posted"
    <3>1. date'[t] >= day - Lag /\ date'[t] \in Int
      BY <1>1, <1>2, <2>2, WTypes DEF TypeOK, Day
    <3>2. began[c][1] <= day
      BY DEF WInv, Clock, Running
    <3> QED BY <3>1, <3>2, WTypes, Numbers DEF WInv
  <2> QED BY <2>1, <2>2
<1>5. ASSUME ~gap', NEW t \in Lacking'
      PROVE  (t \in Lacking /\ date'[t] = date[t]) \/ date'[t] >= day - Lag
  BY <1>1, <1>2, <1>5 DEF Lacking
<1>6. ~gap' => ReachCovers'
  <2> SUFFICES ASSUME ~gap', reach # Never, NEW t \in Lacking'
               PROVE  date'[t] >= reach - Overlap
    BY <1>1 DEF ReachCovers
  <2>1. date'[t] \in Int /\ reach <= day
    BY <1>1, WTypes DEF Lacking, WInv, Clock, TypeOK, Day
  <2>2. CASE t \in Lacking /\ date'[t] = date[t]
    BY <1>1, <2>2 DEF WInv, ReachCovers
  <2>3. CASE date'[t] >= day - Lag
    BY <2>1, <2>3, WTypes, Numbers DEF WInv
  <2> QED BY <1>5, <2>2, <2>3
<1>7. ~gap' => SyncedCovers'
  <2> SUFFICES ASSUME ~gap', NEW c \in Caller, pc[c] = "synced", NEW t \in Lacking'
               PROVE  date'[t] >= began[c][1] - Overlap
    BY <1>1 DEF SyncedCovers, calls
  <2>1. date'[t] \in Int /\ began[c][1] <= day
    BY <1>1, WTypes DEF Lacking, WInv, Clock, TypeOK, Day, Running
  <2>2. CASE t \in Lacking /\ date'[t] = date[t]
    BY <1>1, <2>2 DEF WInv, SyncedCovers
  <2>3. CASE date'[t] >= day - Lag
    BY <2>1, <2>3, WTypes, Numbers DEF WInv
  <2> QED BY <1>5, <2>2, <2>3
<1>8. ~gap' => WindowCovers'
  <2> SUFFICES ASSUME ~gap', NEW c \in Running, NEW t \in Txn,
                      bank'[t] = "posted", date'[t] < began[c][2]
               PROVE  rows[t] = "posted" /\ t \notin held[c]
    BY <1>1 DEF WindowCovers, Running, calls
  <2>1. CASE bank[t] = "posted"
    BY <1>1, <1>2, <2>1 DEF WInv, WindowCovers
  <2>2. CASE bank[t] # "posted"
    <3>1. /\ date'[t] >= day - Lag /\ date'[t] \in Int /\ c \in Caller
          /\ began[c][1] <= day /\ began[c][2] <= began[c][1] - Overlap
      BY <1>1, <1>2, <2>2 DEF WInv, Clock, TypeOK, Day, Running
    <3> QED BY <3>1, WTypes, Numbers DEF WInv
  <2> QED BY <2>1, <2>2
<1> QED BY <1>1, <1>3, <1>4, <1>6, <1>7, <1>8 DEF WInv

\* A step that leaves bank and rows alone, keeps or ends calls, and neither moves
\* reach nor last (but to Never).
LEMMA WKeep ==
  ASSUME WInv, TypeOK', UNCHANGED <<bank, date, rows, day, reach>>,
         last' \in {last, Never}, gap' = gap, IdleHolds',
         \A c \in Caller : \/ pc'[c] = "idle"
                           \/ /\ pc'[c] = pc[c] /\ began'[c] = began[c] /\ page'[c] = page[c]
                              /\ partial'[c] = partial[c] /\ held'[c] = held[c]
  PROVE  WInv'
<1>1. HoldsGo' /\ Lacking' = Lacking
  BY DEF WInv, HoldsGo, Lacking
<1>2. Clock'
  BY DEF WInv, Clock, Running
<1>3. PageLacks'
  BY DEF WInv, PageLacks
<1>4. ~gap' => ReachCovers' /\ SyncedCovers'
  BY <1>1 DEF WInv, ReachCovers, SyncedCovers
<1>5. ~gap' => WindowCovers'
  BY DEF WInv, WindowCovers, Running
<1> QED BY <1>1, <1>2, <1>3, <1>4, <1>5 DEF WInv

LEMMA WIdle ==
  ASSUME WInv, TypeOK', NEW c \in Caller, Idle(c),
         UNCHANGED <<bank, date, rows, day, reach, last, gap>>
  PROVE  WInv'
<1>1. /\ pc'[c] = "idle" /\ held'[c] = {}
      /\ \A b \in Caller \ {c} :
           /\ pc'[b] = pc[b] /\ began'[b] = began[b] /\ page'[b] = page[b]
           /\ partial'[b] = partial[b] /\ held'[b] = held[b]
  BY DEF Idle, WInv, TypeOK
<1>2. IdleHolds'
  BY <1>1 DEF WInv, IdleHolds
<1> QED BY <1>1, <1>2, WKeep

LEMMA WRest ==
  ASSUME WInv, TypeOK', TokenStep \/ Crash \/ UNCHANGED vars
  PROVE  WInv'
<1>1. CASE Schedule \/ Reset \/ Crash \/ UNCHANGED vars
  <2>1. /\ UNCHANGED <<bank, date, rows, day, reach, gap>> /\ last' \in {last, Never}
        /\ \/ UNCHANGED calls
           \/ \A c \in Caller : pc'[c] = "idle" /\ held'[c] = {}
    BY <1>1 DEF Schedule, Reset, Crash, provider, vars
  <2>2. IdleHolds'
    BY <2>1 DEF WInv, IdleHolds, calls
  <2> QED BY <2>1, <2>2, WKeep DEF calls
<1>2. CASE Tick
  <2>1. /\ day' = day + 1 /\ \A c \in Running : day < began[c][1] + Lasts
        /\ UNCHANGED <<bank, date, rows, last, pc, began, page, partial, held, reach, gap>>
    BY <1>2 DEF Tick, provider, calls
  <2>2. Clock'
    <3>1. \A c \in Running : /\ began[c][1] <= day + 1 /\ day + 1 <= began[c][1] + Lasts
                             /\ began[c][2] <= began[c][1] - Overlap
      <4> SUFFICES ASSUME NEW c \in Running
                   PROVE  /\ began[c][1] <= day + 1 /\ day + 1 <= began[c][1] + Lasts
                          /\ began[c][2] <= began[c][1] - Overlap
        OBVIOUS
      <4>1. c \in Caller /\ day < began[c][1] + Lasts /\ began[c][1] <= day
            /\ began[c][2] <= began[c][1] - Overlap
        BY <2>1 DEF Running, WInv, Clock
      <4> QED BY <4>1, WTypes, Numbers DEF WInv
    <3>2. reach # Never => reach <= day + 1
      BY WTypes DEF WInv, Clock
    <3> QED BY <2>1, <3>1, <3>2 DEF WInv, Clock, Running
  <2>3. HoldsGo' /\ IdleHolds' /\ PageLacks'
    BY <2>1 DEF WInv, HoldsGo, IdleHolds, PageLacks
  <2>4. ~gap' => ReachCovers' /\ SyncedCovers' /\ WindowCovers'
    BY <2>1 DEF WInv, ReachCovers, SyncedCovers, WindowCovers, Running, Lacking
  <2> QED BY <2>2, <2>3, <2>4 DEF WInv
<1> QED BY <1>1, <1>2 DEF TokenStep

LEMMA WStart ==
  ASSUME WInv, TypeOK', NEW c \in Caller, NEW e \in BOOLEAN, Start(c, e)
  PROVE  WInv'
<1>0. day \in Day /\ last \in Day \cup {Never} /\ date \in [Txn -> Day]
      /\ \A d \in Day : d \in Int /\ d >= 0
  BY DEF WInv, TypeOK, Day
<1>1. /\ pc[c] = "idle" /\ UNCHANGED <<bank, date, rows, day, last, reach, page, partial, held>>
      /\ pc' = [pc EXCEPT ![c] = "fetch"]
      /\ began' = [began EXCEPT ![c] = <<day, StartDate(last, day)>>]
      /\ gap' = (gap \/ StartDate(last, day) > IF reach = Never THEN 0 ELSE reach - Overlap)
  BY DEF Start, provider
<1>2. /\ pc'[c] = "fetch" /\ began'[c] = <<day, StartDate(last, day)>>
      /\ \A b \in Caller \ {c} : pc'[b] = pc[b] /\ began'[b] = began[b]
      /\ Running' = Running \cup {c}
  BY <1>1 DEF WInv, TypeOK, Running
<1>3. StartDate(last, day) \in Int /\ StartDate(last, day) <= day - Overlap
  <2>1. CASE last = Never
    BY <1>0, <2>1, Numbers DEF StartDate
  <2>2. CASE last # Never
    <3>1. last \in Int /\ last <= day
      BY <1>0, <2>2 DEF WInv, Clock
    <3> QED BY <1>0, <2>2, <3>1, Numbers DEF StartDate
  <2> QED BY <2>1, <2>2
<1>4. Clock'
  <2>1. /\ began'[c][1] <= day /\ day <= began'[c][1] + Lasts
        /\ began'[c][2] <= began'[c][1] - Overlap
    BY <1>0, <1>2, <1>3, Numbers
  <2> QED BY <1>1, <1>2, <2>1 DEF WInv, Clock
<1>5. HoldsGo' /\ IdleHolds' /\ Lacking' = Lacking
  BY <1>1, <1>2 DEF WInv, HoldsGo, IdleHolds, Lacking
<1>6. PageLacks'
  BY <1>1, <1>2 DEF WInv, PageLacks
<1>7. ~gap' => ReachCovers' /\ SyncedCovers'
  BY <1>1, <1>2, <1>5 DEF WInv, ReachCovers, SyncedCovers
<1>8. ~gap' => WindowCovers'
  <2> SUFFICES ASSUME ~gap', NEW b \in Running \cup {c}, NEW t \in Txn,
                      bank[t] = "posted", date[t] < began'[b][2]
               PROVE  rows[t] = "posted" /\ t \notin held[b]
    BY <1>1, <1>2 DEF WindowCovers
  <2>1. CASE b # c
    BY <1>1, <1>2, <2>1 DEF WInv, WindowCovers, Running
  <2>2. CASE b = c
    <3>1. held[c] = {}
      BY <1>1 DEF WInv, IdleHolds
    <3>2. date[t] < StartDate(last, day) /\ date[t] \in Day
      BY <1>0, <1>2, <2>2
    <3>3. reach # Never /\ date[t] < reach - Overlap
      <4>1. ~(StartDate(last, day) > IF reach = Never THEN 0 ELSE reach - Overlap)
        BY <1>1
      <4>2. CASE reach = Never
        BY <1>0, <1>3, <3>2, <4>1, <4>2
      <4>3. CASE reach # Never
        <5>1. reach \in Int
          BY <4>3, WTypes DEF WInv
        <5> QED BY <1>0, <1>3, <3>2, <4>1, <4>3, <5>1, Numbers
      <4> QED BY <4>2, <4>3
    <3>4. ReachCovers
      BY <1>1 DEF WInv
    <3>5. t \notin Lacking
      <4>1. date[t] \in Int /\ reach \in Int
        BY <1>0, <3>2, <3>3, WTypes DEF WInv
      <4> QED BY <3>3, <3>4, <4>1, Numbers DEF ReachCovers
    <3> QED BY <2>2, <3>1, <3>5 DEF Lacking
  <2> QED BY <2>1, <2>2
<1> QED BY <1>4, <1>5, <1>6, <1>7, <1>8 DEF WInv

LEMMA WAnswer ==
  ASSUME WInv, TypeOK', NEW c \in Caller, FetchAll(c) \/ FetchSome(c)
  PROVE  WInv'
<1>1. PICK missing \in SUBSET Txn, e \in BOOLEAN : Answer(c, missing, e) /\ (~e => missing = {})
  BY DEF FetchAll, FetchSome
<1>2. /\ pc[c] = "fetch" /\ pc'[c] = "pending" /\ partial'[c] = e
      /\ UNCHANGED <<bank, date, rows, day, last, reach, gap, began, held>>
      /\ \A b \in Caller \ {c} : /\ pc'[b] = pc[b] /\ page'[b] = page[b]
                                 /\ partial'[b] = partial[b]
      /\ page'[c] = [t \in Txn |-> IF t \in missing THEN "none"
                                    ELSE Shown(began[c][2])[t]]
      /\ Running' = Running
  BY <1>1 DEF Answer, provider, WInv, TypeOK, Running
<1>3. \A t \in Txn : bank[t] = "posted"
        => /\ page'[c][t] # "pending"
           /\ page'[c][t] = "none" /\ ~e => date[t] < began[c][2]
  BY <1>1, <1>2, WTypes DEF Shown, WInv
<1>4. PageLacks'
  BY <1>2, <1>3 DEF WInv, PageLacks
<1>5. HoldsGo' /\ IdleHolds' /\ Clock' /\ Lacking' = Lacking
  BY <1>2 DEF WInv, HoldsGo, IdleHolds, Clock, Lacking
<1>6. ~gap' => ReachCovers' /\ SyncedCovers' /\ WindowCovers'
  BY <1>2, <1>5 DEF WInv, ReachCovers, SyncedCovers, WindowCovers
<1> QED BY <1>4, <1>5, <1>6 DEF WInv

LEMMA WReadPending ==
  ASSUME WInv, TypeOK', NEW c \in Caller, ReadPending(c)
  PROVE  WInv'
<1>1. /\ pc[c] = "pending" /\ pc'[c] = "persist"
      /\ UNCHANGED <<bank, date, rows, day, last, reach, gap, began, page, partial>>
      /\ \A b \in Caller \ {c} : pc'[b] = pc[b] /\ held'[b] = held[b]
      /\ held'[c] = {t \in Txn : rows[t] = "pending"}
      /\ Running' = Running
  BY DEF ReadPending, provider, WInv, TypeOK, Running
<1>2. HoldsGo' /\ IdleHolds' /\ Clock' /\ PageLacks' /\ Lacking' = Lacking
  BY <1>1 DEF WInv, HoldsGo, IdleHolds, Clock, PageLacks, Lacking
<1>3. ~gap' => ReachCovers' /\ SyncedCovers'
  BY <1>1, <1>2 DEF WInv, ReachCovers, SyncedCovers
<1>4. ~gap' => WindowCovers'
  <2> SUFFICES ASSUME ~gap', NEW b \in Running, NEW t \in Txn,
                      bank[t] = "posted", date[t] < began[b][2]
               PROVE  rows[t] = "posted" /\ t \notin held'[b]
    BY <1>1 DEF WindowCovers
  <2>1. rows[t] = "posted" /\ t \notin held[b]
    BY <1>1 DEF WInv, WindowCovers
  <2> QED BY <1>1, <2>1 DEF Running
<1> QED BY <1>2, <1>3, <1>4 DEF WInv

\* A posted row is taken back only by a call that began, and so asked, before it
\* was posted: it is as young as any window.
LEMMA Losses ==
  ASSUME WInv, NEW c \in Caller, Persist(c), ~gap, NEW t \in Txn,
         bank[t] = "posted", rows'[t] # "posted"
  PROVE  date[t] >= began[c][1] - Lag \/ (rows[t] # "posted" /\ partial[c])
<1>1. c \in Running /\ pc[c] = "persist" /\ rows' = Written(c)
  BY DEF Persist, Running
<1>2. rows'[t] = CASE t \in Removed(c) -> "none"
                   [] t \in Fetched(c) -> page[c][t]
                   [] OTHER -> rows[t]
  BY <1>1 DEF Written
<1>3. page[c][t] \in Status
  BY DEF WInv, TypeOK
<1>4. WindowCovers /\ PageLacks
  BY DEF WInv
<1>5. CASE page[c][t] = "pending"
  BY <1>1, <1>4, <1>5 DEF PageLacks
<1>6. CASE page[c][t] = "posted"
  <2>1. t \in Fetched(c) /\ t \notin Removed(c)
    BY <1>6 DEF Fetched, Removed
  <2> QED BY <1>2, <1>6, <2>1
<1>7. CASE page[c][t] = "none"
  <2>1. t \notin Fetched(c)
    BY <1>7 DEF Fetched
  <2>2. CASE date[t] < began[c][2]
    <3>1. rows[t] = "posted" /\ t \notin held[c]
      BY <1>1, <1>4, <2>2 DEF WindowCovers
    <3> QED BY <1>2, <2>1, <3>1 DEF Removed
  <2>3. CASE ~(date[t] < began[c][2]) /\ ~partial[c]
    BY <1>1, <1>4, <1>7, <2>3 DEF PageLacks
  <2>4. CASE ~(date[t] < began[c][2]) /\ partial[c]
    <3>1. rows[t] # "posted"
      BY <1>2, <2>1, <2>4 DEF Removed
    <3> QED BY <2>4, <3>1
  <2> QED BY <2>2, <2>3, <2>4
<1> QED BY <1>3, <1>5, <1>6, <1>7 DEF Status

LEMMA WPersist ==
  ASSUME WInv, TypeOK', NEW c \in Caller, Persist(c)
  PROVE  WInv'
<1>1. /\ c \in Running /\ pc[c] = "persist" /\ pc'[c] \in {"idle", "synced"}
      /\ pc'[c] = "synced" => ~partial[c] /\ began'[c] = began[c]
      /\ UNCHANGED <<bank, date, day, last, reach, gap>>
      /\ held'[c] \in {{}, held[c]} /\ (pc'[c] = "idle" => held'[c] = {})
      /\ \A b \in Caller \ {c} :
           /\ pc'[b] = pc[b] /\ began'[b] = began[b] /\ page'[b] = page[b]
           /\ partial'[b] = partial[b] /\ held'[b] = held[b]
  <2>1. CASE partial[c]
    BY <2>1 DEF Persist, Idle, provider, WInv, TypeOK, Running
  <2>2. CASE ~partial[c]
    BY <2>2 DEF Persist, provider, WInv, TypeOK, Running
  <2> QED BY <2>1, <2>2
<1>2. /\ day \in Int /\ began[c][1] \in Int /\ \A t \in Txn : date[t] \in Int
      /\ began[c][1] <= day /\ day <= began[c][1] + Lasts
  BY <1>1, WTypes DEF WInv, Clock
<1>3. ASSUME ~gap, NEW t \in Lacking'
      PROVE  /\ t \in Txn
             /\ \/ date[t] >= began[c][1] - Lag
                \/ t \in Lacking /\ partial[c]
  BY <1>1, <1>3, Losses DEF Lacking
<1>4. \A t \in Txn : date[t] >= began[c][1] - Lag
         => date[t] >= day - Overlap /\ date[t] >= began[c][1] - Overlap
  BY <1>2, Numbers
<1>5. Clock'
  <2> SUFFICES ASSUME NEW b \in Running'
               PROVE  /\ began'[b][1] <= day /\ day <= began'[b][1] + Lasts
                      /\ began'[b][2] <= began'[b][1] - Overlap
    BY <1>1 DEF WInv, Clock
  <2>1. b \in Running /\ began'[b] = began[b]
    BY <1>1 DEF Running
  <2> QED BY <2>1 DEF WInv, Clock
<1>6. HoldsGo' /\ IdleHolds' /\ PageLacks'
  BY <1>1 DEF WInv, HoldsGo, IdleHolds, PageLacks
<1>7. ~gap' => ReachCovers'
  <2> SUFFICES ASSUME ~gap, reach # Never, NEW t \in Lacking'
               PROVE  date[t] >= reach - Overlap
    BY <1>1 DEF ReachCovers
  <2>1. reach \in Int /\ reach <= day
    BY WTypes DEF WInv, Clock
  <2>2. CASE t \in Lacking
    BY <2>2 DEF WInv, ReachCovers
  <2>3. CASE date[t] >= began[c][1] - Lag
    BY <1>2, <1>3, <1>4, <2>1, <2>3, Numbers
  <2> QED BY <1>3, <2>2, <2>3
<1>8. ~gap' => SyncedCovers'
  <2> SUFFICES ASSUME ~gap, NEW b \in Caller, pc'[b] = "synced", NEW t \in Lacking'
               PROVE  date[t] >= began'[b][1] - Overlap
    BY <1>1 DEF SyncedCovers
  <2>1. CASE b = c
    BY <1>1, <1>3, <1>4, <2>1
  <2>2. CASE b # c
    <3>1. /\ pc[b] = "synced" /\ began'[b] = began[b] /\ began[b][1] \in Int
          /\ b \in Running
      BY <1>1, <2>2, WTypes DEF WInv, Running
    <3>2. began[b][1] <= day
      BY <3>1 DEF WInv, Clock
    <3>3. CASE t \in Lacking
      BY <3>1, <3>3 DEF WInv, SyncedCovers
    <3>4. CASE date[t] >= began[c][1] - Lag
      BY <1>2, <1>3, <1>4, <3>1, <3>2, <3>4, Numbers
    <3> QED BY <1>3, <3>3, <3>4
  <2> QED BY <2>1, <2>2
<1>9. ~gap' => WindowCovers'
  <2> SUFFICES ASSUME ~gap, NEW b \in Running', NEW t \in Txn,
                      bank[t] = "posted", date[t] < began'[b][2]
               PROVE  rows'[t] = "posted" /\ t \notin held'[b]
    BY <1>1 DEF WindowCovers
  <2>1. b \in Running /\ began'[b] = began[b] /\ held'[b] \in {{}, held[b]}
    BY <1>1 DEF Running
  <2>2. rows[t] = "posted" /\ t \notin held[b]
    BY <2>1 DEF WInv, WindowCovers
  <2>3. began[b][1] <= day /\ began[b][2] <= began[b][1] - Overlap
        /\ began[b][1] \in Int /\ began[b][2] \in Int
    BY <2>1, WTypes DEF WInv, Clock, Running
  <2>4. ~(date[t] >= began[c][1] - Lag)
    BY <1>2, <1>4, <2>1, <2>3, Numbers
  <2>5. rows'[t] = "posted"
    BY <2>2, <2>4, Losses
  <2> QED BY <2>1, <2>2, <2>5
<1> QED BY <1>5, <1>6, <1>7, <1>8, <1>9 DEF WInv

LEMMA WSetSynced ==
  ASSUME WInv, TypeOK', NEW c \in Caller, SetSynced(c)
  PROVE  WInv'
<1>1. /\ pc[c] = "synced" /\ last' = began[c][1] /\ reach' = began[c][1]
      /\ UNCHANGED <<bank, date, rows, day, gap>>
      /\ pc'[c] = "idle" /\ held'[c] = {}
      /\ \A b \in Caller \ {c} :
           /\ pc'[b] = pc[b] /\ began'[b] = began[b] /\ page'[b] = page[b]
           /\ partial'[b] = partial[b] /\ held'[b] = held[b]
  BY DEF SetSynced, Idle, provider, WInv, TypeOK
<1>2. HoldsGo' /\ IdleHolds' /\ PageLacks' /\ Lacking' = Lacking
  BY <1>1 DEF WInv, HoldsGo, IdleHolds, PageLacks, Lacking
<1>3. Clock'
  BY <1>1 DEF WInv, Clock, Running
<1>4. ~gap' => ReachCovers' /\ SyncedCovers'
  BY <1>1, <1>2 DEF WInv, ReachCovers, SyncedCovers
<1>5. ~gap' => WindowCovers'
  BY <1>1 DEF WInv, WindowCovers, Running
<1> QED BY <1>2, <1>3, <1>4, <1>5 DEF WInv

LEMMA WNext == WInv /\ [Next]_vars => WInv'
<1> SUFFICES ASSUME WInv, [Next]_vars PROVE WInv'
  OBVIOUS
<1>0. TypeOK'
  BY TypeNext DEF WInv
<1>1. CASE \E c \in Caller : (\E e \in BOOLEAN : Start(c, e)) \/ Sync(c) \/ Fail(c)
  <2>1. PICK c \in Caller : (\E e \in BOOLEAN : Start(c, e)) \/ Sync(c) \/ Fail(c)
    BY <1>1
  <2>2. CASE Fail(c)
    BY <1>0, <2>2, WIdle DEF Fail, provider
  <2> QED BY <1>0, <2>1, <2>2, WStart, WAnswer, WReadPending, WPersist, WSetSynced DEF Sync
<1> QED BY <1>0, <1>1, WBank, WRest DEF Next, BankStep, TokenStep

LEMMA WInit == Init => WInv
<1> SUFFICES ASSUME Init PROVE WInv
  OBVIOUS
<1>1. TypeOK
  BY TypeInit
<1>2. /\ \A t \in Txn : bank[t] = "none" /\ rows[t] = "none"
      /\ \A c \in Caller : pc[c] = "idle" /\ held[c] = {}
      /\ reach = Never /\ last = Never
  BY DEF Init
<1>3. \A h \in Hold : h \in Txn /\ Settles[h] \in Txn
  BY SettlesAssumption
<1> QED BY <1>1, <1>2, <1>3 DEF WInv, HoldsGo, Clock, Running, IdleHolds, PageLacks,
             ReachCovers, SyncedCovers, WindowCovers, Lacking

\* Overlapping windows catch up: whatever was missed, taken back or lost by
\* crossing and failing calls lies within the next window.
THEOREM WindowsCatchUp == Spec => []MissingIsAhead
<1>1. WInv => MissingIsAhead
  <2> SUFFICES ASSUME WInv, last # Never, ~gap, NEW t \in Txn,
                      bank[t] = "posted", rows[t] = "none"
               PROVE  date[t] >= StartDate(last, day)
    BY DEF MissingIsAhead
  <2>1. last = reach /\ t \in Lacking
    BY DEF WInv, Clock, Lacking
  <2> QED BY <2>1 DEF WInv, ReachCovers, StartDate
<1> QED BY <1>1, WInit, WNext, PTL DEF Spec

-----------------------------------------------------------------------------
(* Rows that are posted *)

\* What the table says the bank has said.
THEOREM NothingInvented == Spec => []RowsWereReported
<1>1. IInv => RowsWereReported
  BY DEF IInv, RowsSaid, Said, RowsWereReported
<1> QED BY <1>1, InvInit, InvNext, PTL DEF Spec

\* The page of a call that runs alone is no older than the table.
PageIsFresh ==
  \A c \in Caller : pc[c] \in {"pending", "persist"} /\ c \notin crossed
    => \A t \in Txn : rows[t] = "posted" => page[c][t] # "pending"

LEMMA FreshKeep ==
  ASSUME PageIsFresh, rows' = rows,
         \A c \in Caller : pc'[c] \in {"pending", "persist"} /\ c \notin crossed'
           => pc[c] \in {"pending", "persist"} /\ c \notin crossed /\ page'[c] = page[c]
  PROVE  PageIsFresh'
BY DEF PageIsFresh

LEMMA FreshNext ==
  ASSUME IInv, PageIsFresh, [Next]_vars
  PROVE  PageIsFresh'
<1>0. TypeOK
  BY DEF IInv
<1>1. CASE BankStep
  BY <1>0, <1>1, BankMoves, FreshKeep DEF IInv, calls
<1>2. CASE TokenStep \/ UNCHANGED vars
  BY <1>2, FreshKeep DEF TokenStep, Tick, Schedule, Reset, vars, calls
<1>3. CASE Crash
  BY <1>3, FreshKeep DEF Crash
<1>4. ASSUME NEW c \in Caller, NEW e \in BOOLEAN, Start(c, e) PROVE PageIsFresh'
  <2>1. rows' = rows /\ page' = page
    BY <1>4 DEF Start
  <2>2. ASSUME NEW b \in Caller, pc'[b] \in {"pending", "persist"}, b \notin crossed'
        PROVE  pc[b] \in {"pending", "persist"} /\ b \notin crossed
    <3>1. b # c /\ pc'[b] = pc[b]
      BY <1>0, <1>4, <2>2 DEF Start, TypeOK
    <3>2. b \in Running
      BY <2>2, <3>1 DEF Running
    <3> QED BY <1>4, <2>2, <3>1, <3>2 DEF Start
  <2> QED BY <2>1, <2>2, FreshKeep
<1>5. ASSUME NEW c \in Caller, FetchAll(c) \/ FetchSome(c) PROVE PageIsFresh'
  <2>1. PICK missing \in SUBSET Txn, e \in BOOLEAN : Answer(c, missing, e)
    BY <1>5 DEF FetchAll, FetchSome
  <2>2. /\ rows' = rows /\ crossed' = crossed
        /\ \A b \in Caller \ {c} : pc'[b] = pc[b] /\ page'[b] = page[b]
        /\ \A t \in Txn : page'[c][t] \in {"none", Shown(began[c][2])[t]}
    BY <1>0, <2>1 DEF Answer, TypeOK
  <2>3. \A t \in Txn : rows[t] = "posted" => page'[c][t] # "pending"
    <3>1. \A t \in Txn : rows[t] = "posted" => bank[t] = "posted"
      BY DEF IInv, RowsSaid, Said
    <3>2. \A t \in Txn : Shown(began[c][2])[t] \in {"none", bank[t]}
      BY DEF Shown
    <3> QED BY <2>2, <3>1, <3>2
  <2> SUFFICES ASSUME NEW b \in Caller, pc'[b] \in {"pending", "persist"},
                      b \notin crossed', NEW t \in Txn, rows'[t] = "posted"
               PROVE  page'[b][t] # "pending"
    BY DEF PageIsFresh
  <2>4. CASE b = c
    BY <2>2, <2>3, <2>4
  <2>5. CASE b # c
    BY <2>2, <2>5 DEF PageIsFresh
  <2> QED BY <2>4, <2>5
<1>6. ASSUME NEW c \in Caller, ReadPending(c) PROVE PageIsFresh'
  <2>1. /\ UNCHANGED <<rows, page, crossed>> /\ pc[c] = "pending"
        /\ \A b \in Caller \ {c} : pc'[b] = pc[b]
    BY <1>0, <1>6 DEF ReadPending, TypeOK
  <2> QED BY <2>1, FreshKeep
<1>7. ASSUME NEW c \in Caller, Persist(c) PROVE PageIsFresh'
  <2>1. /\ crossed' = crossed /\ pc'[c] \in {"idle", "synced"} /\ pc[c] = "persist"
        /\ \A b \in Caller \ {c} : pc'[b] = pc[b]
    BY <1>0, <1>7 DEF Persist, Idle, TypeOK
  <2> SUFFICES ASSUME NEW b \in Caller, pc'[b] \in {"pending", "persist"}
               PROVE  b \in crossed
    BY <2>1 DEF PageIsFresh
  <2>2. b # c /\ b \in Running /\ c \in Running
    BY <2>1 DEF Running
  <2> QED BY <2>2 DEF IInv, Alone
<1>8. ASSUME NEW c \in Caller, SetSynced(c) \/ Fail(c) PROVE PageIsFresh'
  <2>1. /\ UNCHANGED <<rows, crossed>> /\ pc'[c] = "idle"
        /\ \A b \in Caller \ {c} : pc'[b] = pc[b] /\ page'[b] = page[b]
    BY <1>0, <1>8 DEF SetSynced, Fail, Idle, TypeOK
  <2> QED BY <2>1, FreshKeep
<1> QED BY <1>1, <1>2, <1>3, <1>4, <1>5, <1>6, <1>7, <1>8
        DEF Next, BankStep, TokenStep, Sync

\* A posted row becomes pending again, or goes, only when calls overlap.
THEOREM PostedStaysPut == Spec => PostedStaysPosted
<1>1. IInv /\ PageIsFresh /\ [Next]_vars
        => (\A t \in Txn : rows[t] = "posted" /\ rows'[t] # "posted"
              => crossed \cap Running # {})
  <2> SUFFICES ASSUME IInv, PageIsFresh, [Next]_vars, NEW t \in Txn,
                      rows[t] = "posted", rows'[t] # "posted"
               PROVE  crossed \cap Running # {}
    OBVIOUS
  <2>1. PICK c \in Caller : Persist(c)
    <3>1. rows' # rows
      OBVIOUS
    <3> QED BY <3>1 DEF Next, vars, provider, Appear, Settle, Post, Release, Start,
                 Sync, FetchAll, FetchSome, Answer, ReadPending, SetSynced, Fail, Tick,
                 Crash, Schedule, Reset
  <2>2. c \in Running /\ pc[c] = "persist" /\ rows'[t] = Written(c)[t]
    BY <2>1 DEF Persist, Running
  <2> SUFFICES ASSUME c \notin crossed PROVE FALSE
    BY <2>2
  <2>3. t \notin held[c] /\ page[c][t] # "pending"
    BY <2>2 DEF IInv, HeldIsPending, PageIsFresh
  <2>4. page[c][t] \in {"none", "posted"}
    BY <2>3 DEF IInv, TypeOK, Status
  <2>5. Written(c)[t] \in {page[c][t], rows[t]} /\ (t \notin Fetched(c) => Written(c)[t] = rows[t])
    BY <2>3 DEF Written, Removed
  <2> QED BY <2>2, <2>4, <2>5 DEF Fetched
<1>2. Init => PageIsFresh
  BY DEF Init, PageIsFresh
<1>3. IInv /\ PageIsFresh /\ [Next]_vars => PageIsFresh'
  BY FreshNext
<1> QED BY <1>1, <1>2, <1>3, InvInit, InvNext, PTL DEF Spec, PostedStaysPosted

-----------------------------------------------------------------------------
(* A complete answer is the window *)

\* What is posted in the table is posted in the page of a call that runs alone,
\* or older than its window.
PageIsWhole ==
  \A c \in Caller : pc[c] \in {"pending", "persist"} /\ c \notin crossed /\ ~partial[c]
    => \A t \in Txn : rows[t] = "posted"
         => page[c][t] = "posted" \/ date[t] < began[c][2]

LEMMA WholeKeep ==
  ASSUME PageIsWhole, rows' = rows,
         \A t \in Txn : rows[t] = "posted" => date'[t] = date[t],
         \A c \in Caller : pc'[c] \in {"pending", "persist"} /\ c \notin crossed'
           => /\ pc[c] \in {"pending", "persist"} /\ c \notin crossed
              /\ page'[c] = page[c] /\ partial'[c] = partial[c]
              /\ began'[c] = began[c]
  PROVE  PageIsWhole'
BY DEF PageIsWhole

LEMMA WholeNext ==
  ASSUME IInv, PageIsWhole, [Next]_vars
  PROVE  PageIsWhole'
<1>0. TypeOK
  BY DEF IInv
<1>1. CASE BankStep
  <2>1. UNCHANGED <<rows, calls, crossed>>
    BY <1>0, <1>1, BankMoves DEF IInv, BankStep, Appear, Settle, Post, Release
  <2>2. \A t \in Txn : rows[t] = "posted" => date'[t] = date[t]
    BY <1>0, <1>1, Posts DEF IInv, RowsSaid, Said
  <2> QED BY <2>1, <2>2, WholeKeep DEF calls
<1>2. CASE TokenStep \/ UNCHANGED vars
  BY <1>2, WholeKeep DEF TokenStep, Tick, Schedule, Reset, vars, calls, provider
<1>3. CASE Crash
  BY <1>3, WholeKeep DEF Crash, provider
<1>4. ASSUME NEW c \in Caller, NEW e \in BOOLEAN, Start(c, e) PROVE PageIsWhole'
  <2>1. UNCHANGED <<rows, date, page, partial>>
        /\ \A b \in Caller \ {c} : began'[b] = began[b]
    BY <1>0, <1>4 DEF Start, provider, TypeOK
  <2>2. ASSUME NEW b \in Caller, pc'[b] \in {"pending", "persist"}, b \notin crossed'
        PROVE  pc[b] \in {"pending", "persist"} /\ b \notin crossed /\ b # c
    <3>1. b # c /\ pc'[b] = pc[b]
      BY <1>0, <1>4, <2>2 DEF Start, TypeOK
    <3>2. b \in Running
      BY <2>2, <3>1 DEF Running
    <3> QED BY <1>4, <2>2, <3>1, <3>2 DEF Start
  <2> QED BY <2>1, <2>2, WholeKeep
<1>5. ASSUME NEW c \in Caller, FetchAll(c) \/ FetchSome(c) PROVE PageIsWhole'
  <2>1. /\ UNCHANGED <<rows, date, crossed, began>>
        /\ \A b \in Caller \ {c} :
             pc'[b] = pc[b] /\ page'[b] = page[b] /\ partial'[b] = partial[b]
        /\ ~partial'[c] => page'[c] = Shown(began[c][2])
    BY <1>0, <1>5 DEF FetchAll, FetchSome, Answer, Shown, provider, TypeOK
  <2>2. ASSUME ~partial'[c], NEW t \in Txn, rows[t] = "posted"
        PROVE  page'[c][t] = "posted" \/ date[t] < began[c][2]
    <3>1. bank[t] = "posted"
      BY <2>2 DEF IInv, RowsSaid, Said
    <3>2. date[t] \in Int /\ began[c][2] \in Int
      BY <1>0, WTypes
    <3> QED BY <2>1, <2>2, <3>1, <3>2 DEF Shown
  <2> SUFFICES ASSUME NEW b \in Caller, pc'[b] \in {"pending", "persist"},
                      b \notin crossed', ~partial'[b],
                      NEW t \in Txn, rows'[t] = "posted"
               PROVE  page'[b][t] = "posted" \/ date'[t] < began'[b][2]
    BY DEF PageIsWhole
  <2>4. CASE b = c
    BY <2>1, <2>2, <2>4
  <2>5. CASE b # c
    BY <2>1, <2>5 DEF PageIsWhole
  <2> QED BY <2>4, <2>5
<1>6. ASSUME NEW c \in Caller, ReadPending(c) PROVE PageIsWhole'
  <2>1. /\ UNCHANGED <<rows, date, page, partial, began, crossed>> /\ pc[c] = "pending"
        /\ \A b \in Caller \ {c} : pc'[b] = pc[b]
    BY <1>0, <1>6 DEF ReadPending, provider, TypeOK
  <2> QED BY <2>1, WholeKeep
<1>7. ASSUME NEW c \in Caller, Persist(c) PROVE PageIsWhole'
  <2>1. /\ crossed' = crossed /\ pc'[c] \in {"idle", "synced"} /\ pc[c] = "persist"
        /\ \A b \in Caller \ {c} : pc'[b] = pc[b]
    BY <1>0, <1>7 DEF Persist, Idle, TypeOK
  <2> SUFFICES ASSUME NEW b \in Caller, pc'[b] \in {"pending", "persist"}
               PROVE  b \in crossed
    BY <2>1 DEF PageIsWhole
  <2>2. b # c /\ b \in Running /\ c \in Running
    BY <2>1 DEF Running
  <2> QED BY <2>2 DEF IInv, Alone
<1>8. ASSUME NEW c \in Caller, SetSynced(c) \/ Fail(c) PROVE PageIsWhole'
  <2>1. /\ UNCHANGED <<rows, date, crossed>> /\ pc'[c] = "idle"
        /\ \A b \in Caller \ {c} :
             /\ pc'[b] = pc[b] /\ page'[b] = page[b]
             /\ partial'[b] = partial[b] /\ began'[b] = began[b]
    BY <1>0, <1>8 DEF SetSynced, Fail, Idle, provider, TypeOK
  <2> QED BY <2>1, WholeKeep
<1> QED BY <1>1, <1>2, <1>3, <1>4, <1>5, <1>6, <1>7, <1>8
        DEF Next, BankStep, TokenStep, Sync

\* A complete sync that runs alone leaves the table as the bank showed its
\* window, with posted rows from before it and nothing else (Persister::persist).
THEOREM CompleteAnswers == Spec => WindowIsMirrored
<1>1. ASSUME IInv, PageIsWhole, NEW c \in Caller, Persist(c), c \notin crossed,
             ~partial[c], NEW t \in Txn
      PROVE  \/ rows'[t] = page[c][t]
             \/ rows'[t] = "posted" /\ date[t] < began[c][2]
  <2>1. /\ pc[c] = "persist" /\ rows'[t] = Written(c)[t]
        /\ t \in held[c] <=> rows[t] = "pending"
    BY <1>1 DEF Persist, IInv, HeldIsPending
  <2>2. CASE page[c][t] # "none"
    BY <1>1, <2>1, <2>2 DEF Written, Removed, Fetched
  <2>3. CASE page[c][t] = "none" /\ rows[t] = "pending"
    BY <1>1, <2>1, <2>3 DEF Written, Removed, Fetched
  <2>4. CASE page[c][t] = "none" /\ rows[t] = "none"
    BY <1>1, <2>1, <2>4 DEF Written, Removed, Fetched
  <2>5. CASE page[c][t] = "none" /\ rows[t] = "posted"
    <3>1. rows'[t] = "posted"
      BY <1>1, <2>1, <2>5 DEF Written, Removed, Fetched
    <3> QED BY <1>1, <2>1, <2>5, <3>1 DEF PageIsWhole
  <2>6. rows[t] \in {"none", "pending", "posted"}
    BY <1>1 DEF IInv, TypeOK, Status
  <2> QED BY <2>2, <2>3, <2>4, <2>5, <2>6
<1>2. IInv /\ PageIsWhole /\ [Next]_vars
        => [\A c \in Caller : Persist(c) /\ c \notin crossed /\ ~partial[c] =>
              \A t \in Txn : \/ rows'[t] = page[c][t]
                             \/ rows'[t] = "posted" /\ date[t] < began[c][2]]_vars
  BY <1>1
<1>3. Init => PageIsWhole
  BY DEF Init, PageIsWhole
<1>4. IInv /\ PageIsWhole /\ [Next]_vars => PageIsWhole'
  BY WholeNext
<1> QED BY <1>2, <1>3, <1>4, InvInit, InvNext, PTL DEF Spec, WindowIsMirrored
=============================================================================
