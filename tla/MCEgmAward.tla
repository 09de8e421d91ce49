----------------------------- MODULE MCEgmAward -----------------------------
(***************************************************************************)
(* Two jackpots, which exclude each other, on machines of either kind.  An *)
(* AFT machine sees two of the offers and restarts, a legacy one, which    *)
(* has fewer states, five, and of a legacy machine a notice of expiry may  *)
(* be repeated before it is answered.                                      *)
(***************************************************************************)
EXTENDS EgmAward, TLC

MCMaxEvents == [b \in Bonusing |-> IF b = "aft" THEN 2 ELSE 5]

MCMaxNotices == [b \in Bonusing |-> IF b = "aft" THEN 1 ELSE 2]

\* A single award, from its offer to its end.
MCOneEvent == [b \in Bonusing |-> 1]

Symmetry == Permutations(Hit)
=============================================================================
