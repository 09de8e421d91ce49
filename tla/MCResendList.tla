---------------------------- MODULE MCResendList ----------------------------
(***************************************************************************)
(* ResendList on two blocks and four transactions, of which two have the *)
(* same unique id (an id is used again once the first owner has gone) and  *)
(* two need more than one piece, one of each kind being a printed ticket.  *)
(***************************************************************************)
EXTENDS ResendList, TLC

CONSTANTS t1, t2, t3, t4

MCTx == {t1, t2, t3, t4}
MCIdOf == (t1 :> 1) @@ (t2 :> 2) @@ (t3 :> 3) @@ (t4 :> 1)
MCLenOf == (t1 :> 2) @@ (t2 :> 1) @@ (t3 :> 2) @@ (t4 :> 1)
MCOutOf == (t1 :> TRUE) @@ (t2 :> FALSE) @@ (t3 :> FALSE) @@ (t4 :> TRUE)
=============================================================================
