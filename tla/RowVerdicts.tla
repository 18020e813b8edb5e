---------------------------- MODULE RowVerdicts ----------------------------
(***************************************************************************)
(* What everyone who decides categories promises together, without pages,  *)
(* guards, batches or late answers: a row has a verdict, is open, or waits *)
(* for one; a verdict is changed by the user alone; rows begin to wait     *)
(* only while somebody is there to decide them.                            *)
(***************************************************************************)
CONSTANTS Txn, Category, Uncategorized, Nobody

VARIABLES
  verdict,  \* a decided row's category, Uncategorized for an open row, or Nobody
            \* for no row
  waiting,  \* open rows that are kept back for the categorizer
  chosen,   \* what the user last chose for a row
  on        \* is there a categorizer?

vars == <<verdict, waiting, chosen, on>>

Init ==
  /\ verdict = [i \in Txn |-> Nobody] /\ waiting = {}
  /\ chosen = [i \in Txn |-> Nobody] /\ on \in BOOLEAN

\* The user writes some rows; what has no category is open again.
Choose(ids, choice) ==
  /\ verdict' = [i \in Txn |-> IF i \notin ids THEN verdict[i]
                               ELSE IF choice[i] \in Category THEN choice[i] ELSE Uncategorized]
  /\ chosen' = [i \in Txn |-> IF i \in ids THEN choice[i] ELSE chosen[i]]
  /\ waiting' = waiting \ ids
  /\ UNCHANGED on

Stays(i) == verdict'[i] = verdict[i] /\ chosen'[i] = chosen[i]

Goes(i) == verdict'[i] = Nobody /\ chosen'[i] = Nobody

\* A rule, the provider or the LLM has its say about a row without a verdict.
Decided(i) ==
  /\ verdict[i] \notin Category
  /\ verdict'[i] \in Category \cup {Uncategorized} /\ chosen'[i] = chosen[i]

\* Any number of rows are decided, go, begin to wait or stop waiting at once.
Process ==
  /\ \A i \in Txn : Stays(i) \/ Goes(i) \/ Decided(i)
  /\ waiting' \subseteq {i \in Txn : verdict'[i] = Uncategorized}
  /\ waiting' \subseteq waiting \/ on
  /\ UNCHANGED on

Switch == on' = ~on /\ UNCHANGED <<verdict, waiting, chosen>>

Next ==
  \/ \E ids \in SUBSET Txn : \E choice \in [ids -> Category \cup {Uncategorized, Nobody}] :
       Choose(ids, choice)
  \/ Process \/ Switch

Spec == Init /\ [][Next]_vars
=============================================================================
