-------------------------- MODULE MCVaultRotation ---------------------------
(* VaultRotation for TLC: rows are model values.                           *)
EXTENDS VaultRotation

CONSTANTS r1, r2
=============================================================================
