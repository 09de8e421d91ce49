----------------------------- MODULE MCSasPoll -----------------------------
(***************************************************************************)
(* The thread that makes transfers, and another one that competes with it  *)
(* for the line.                                                           *)
(***************************************************************************)
EXTENDS SasPoll

=============================================================================
