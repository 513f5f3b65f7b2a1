--------------------------- MODULE MCApprovalGate ---------------------------
(* Small instances of ApprovalGate: one key for each tier.                  *)
EXTENDS ApprovalGate

CONSTANTS r1, r2

MCTier == [k \in Keys |-> k]
=============================================================================
