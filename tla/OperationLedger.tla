--------------------------- MODULE OperationLedger ---------------------------
(***************************************************************************)
(* What the driver promises about operations, with no notion of how a job  *)
(* runs: at most one operation is admitted at a time under an identity not *)
(* in use, it terminates exactly once into a bounded first-in first-out    *)
(* queue that always has room for it, and the owner takes every result at  *)
(* most once, in order of termination.                                     *)
(***************************************************************************)
EXTENDS Naturals, Sequences

CONSTANTS OperationIds, Kinds, Capacity

VARIABLES
  admitted,   \* the active operation as a sequence of length at most one
  queue       \* terminated operations not yet taken, oldest first

ledger == <<admitted, queue>>

Operation == [operationId : OperationIds, kind : Kinds]

LedgerTypeOK ==
  /\ admitted \in {<<>>} \cup {<<o>> : o \in Operation}
  /\ queue \in UNION {[1 .. n -> Operation] : n \in 0 .. Capacity}

LedgerInit == admitted = <<>> /\ queue = <<>>

Admit(id, kind) ==
  /\ admitted = <<>> /\ Len(queue) < Capacity
  /\ \A k \in 1 .. Len(queue) : queue[k].operationId # id
  /\ admitted' = <<[operationId |-> id, kind |-> kind]>>
  /\ UNCHANGED queue

Terminate ==
  /\ admitted # <<>>
  /\ queue' = Append(queue, admitted[1])
  /\ admitted' = <<>>

Take ==
  /\ queue # <<>>
  /\ queue' = Tail(queue)
  /\ UNCHANGED admitted

\* end(): the owner gives up everything that is pending.
Abandon == admitted' = <<>> /\ queue' = <<>>

LedgerNext ==
  \/ \E id \in OperationIds, kind \in Kinds : Admit(id, kind)
  \/ Terminate \/ Take \/ Abandon

LedgerSpec == LedgerInit /\ [][LedgerNext]_ledger
=============================================================================
