--------------------------- MODULE ProviderMirror ---------------------------
(***************************************************************************)
(* What an incremental sync promises, without cursors, pages or failures:  *)
(* the stored rows are always one published version of the provider's      *)
(* data, and they move from it only to a later one.                        *)
(***************************************************************************)
EXTENDS Naturals

CONSTANTS Txn, Content, Absent

VARIABLES
  history,  \* versions the provider has published
  latest,   \* number of the last one
  shown,    \* rows a reader of the ledger sees
  position  \* the version they are

vars == <<history, latest, shown, position>>

State == [Txn -> Content \cup {Absent}]

Init ==
  /\ latest = 0 /\ position = 0
  /\ shown = [t \in Txn |-> Absent]
  /\ history = [k \in {0} |-> shown]

Publish ==
  /\ latest' = latest + 1
  /\ \E next \in State :
       history' = [k \in 0..latest' |-> IF k = latest' THEN next ELSE history[k]]
  /\ UNCHANGED <<shown, position>>

CatchUp ==
  /\ position' \in position..latest
  /\ shown' = history[position']
  /\ UNCHANGED <<history, latest>>

Next == Publish \/ CatchUp

Spec == Init /\ [][Next]_vars
=============================================================================
