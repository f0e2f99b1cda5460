--------------------------- MODULE MCApprovalGate ---------------------------
(* Two conversations with one run each.                                    *)
EXTENDS ApprovalGate, TLC
CONSTANTS k1, k2, r1, r2
MCConvOf == (r1 :> k1) @@ (r2 :> k2)
=============================================================================
