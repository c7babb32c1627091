---------------------------- MODULE MCReceiptSigning ----------------------------
(***************************************************************************)
(* Small instances of ReceiptSigning for TLC; the constants are in the     *)
(* configurations.  Liveness is checked, so no symmetry is used.           *)
(***************************************************************************)
EXTENDS ReceiptSigning, TLC
=============================================================================
