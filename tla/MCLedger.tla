------------------------------ MODULE MCLedger ------------------------------
(***************************************************************************)
(* Ledger for TLC: a recorder process and the rotation CLI (or a second,   *)
(* strict recorder) on one file.                                           *)
(***************************************************************************)
EXTENDS Ledger
=============================================================================
