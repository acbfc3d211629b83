---------------------------- MODULE LdcOperations ----------------------------
(***************************************************************************)
(* The driver implements the operation ledger: the active job is the       *)
(* admitted operation, the occupied slots of the result ring, from the     *)
(* head on, are the queue.                                                 *)
(***************************************************************************)
EXTENDS LdcDriver, Sequences

AsOperation(r) == [operationId |-> r.operationId, kind |-> r.kind]

AdmittedOperation == IF progress.active THEN <<AsOperation(progress)>> ELSE <<>>

ResultQueue ==
  [k \in 1 .. resultCount |-> AsOperation(results[(resultHead + k - 1) % ResultCapacity])]

Ledger == INSTANCE OperationLedger WITH
  Kinds <- JobKind, Capacity <- ResultCapacity,
  admitted <- AdmittedOperation, queue <- ResultQueue

\* Every step of the driver is a step of the ledger or leaves it alone.
ImplementsLedger == Ledger!LedgerSpec
=============================================================================
