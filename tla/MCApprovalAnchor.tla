--------------------------- MODULE MCApprovalAnchor ----------------------------
(* Small instances of ApprovalAnchor for TLC. *)
EXTENDS ApprovalAnchor

CONSTANTS w1, w2, w3, w4, w5   \* calls

MCReceipt(id, sequence) ==
  [kind |-> "Receipt", id |-> id, epoch |-> 0, sequence |-> sequence]

MCRevocation(epochNumber, sequence) ==
  [kind |-> "Revocation", id |-> 0, epoch |-> epochNumber, sequence |-> sequence]

\* A receipt, an older one, one that differs under the same id, and two
\* revocation states.
MCWork == [w \in Writer |->
  CASE w = w1 -> MCReceipt(1, 2)
    [] w = w2 -> MCReceipt(2, 1)
    [] w = w3 -> MCReceipt(1, 3)
    [] w = w4 -> MCRevocation(1, 1)
    [] w = w5 -> MCRevocation(2, 2)]

================================================================================
