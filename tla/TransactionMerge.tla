-------------------------- MODULE TransactionMerge --------------------------
(***************************************************************************)
(* The folding of contract events over the mock rows:                      *)
(* mergeTransactionEvents() of lib/soroban/transactionMerge.ts.            *)
(*                                                                         *)
(* A row keeps what the code decides on: whether it is a placeholder       *)
(* (asset = PLACEHOLDER_MARKER) and its status. The order of the rows is   *)
(* left out.                                                               *)
(***************************************************************************)
EXTENDS Naturals, Sequences, SequencesExt

CONSTANTS
  TxIds,    \* transaction ids
  MockIds,  \* the ids of MOCK_TXS
  None      \* undefined

ASSUME MergeAssumption == MockIds \subseteq TxIds /\ None \notin TxIds

Status == {"PENDING", "PROCESSING", "COMPLETED", "FAILED"}

(* txId may be missing from an event, and toStatus may be unknown to the   *)
(* app: toTxStatus() maps it to null.                                      *)
Event == [type: {"TransactionRegistered", "StatusChanged"},
          txId: TxIds \cup {None}, toStatus: Status \cup {"UNKNOWN"}]

Registered(t)       == [type |-> "TransactionRegistered", txId |-> t, toStatus |-> "UNKNOWN"]
StatusChanged(t, s) == [type |-> "StatusChanged", txId |-> t, toStatus |-> s]

NoRow       == [placeholder |-> FALSE, status |-> "NONE"]
MockRow     == [placeholder |-> FALSE, status |-> "PROCESSING"]
Placeholder == [placeholder |-> TRUE, status |-> "PENDING"]

MOCK_TXS == [t \in TxIds |-> IF t \in MockIds THEN MockRow ELSE NoRow]

(* One round of the loop over the events. *)
Fold(rows, e) ==
  CASE e.txId = None -> rows
    [] e.type = "TransactionRegistered" /\ rows[e.txId] = NoRow ->
         [rows EXCEPT ![e.txId] = Placeholder]
    [] e.type = "StatusChanged" /\ rows[e.txId] # NoRow /\ e.toStatus \in Status ->
         [rows EXCEPT ![e.txId].status = e.toStatus]
    [] OTHER -> rows

(* The rows after all events, one after the other. *)
mergeTransactionEvents(events) ==
  LET rows[n \in 0..Len(events)] ==
        IF n = 0 THEN MOCK_TXS ELSE Fold(rows[n - 1], events[n])
  IN  rows[Len(events)]
=============================================================================
