-------------------------- MODULE MCGatewayAdmission ---------------------------
(* Small instances of GatewayAdmission for TLC. *)
EXTENDS GatewayAdmission, TLC

CONSTANTS
  approving,   \* the receipt installed when the gateway is built
  renewing,    \* another that approves the same deployment
  refusing     \* a receipt that rejects it, or binds other identities

MCRenewal == (approving :> "Approved") @@ (renewing :> "Approved")

MCMismatch == (approving :> "Approved") @@ (refusing :> "Mismatch")

\* The requests are interchangeable in the safety runs.
RequestSymmetry == Permutations(Request)

================================================================================
