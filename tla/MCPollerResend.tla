--------------------------- MODULE MCPollerResend ---------------------------
(***************************************************************************)
(* PollerResend with a few transactions of chosen kinds.                   *)
(***************************************************************************)
EXTENDS PollerResend, TLC

Good(kind) == [kind |-> kind, bad |-> FALSE]
Bad(kind) == [kind |-> kind, bad |-> TRUE]

\* A ticket-in differs from a printed ticket only in what is counted.
AllOffers ==
    {Good(kind) : kind \in AllKinds \ {"ticketIn"}}
        \cup {Bad(kind) : kind \in {"plain"} \cup SlotMastId}

\* Changes to either slot master id are alike.
Symmetry == Permutations(SlotMastId)

LiveOffers == {Good("plain"), Good("ticketOut"), Bad("plain")}
TicketOffers == {Good("ticketOut"), Good("ticketIn")}
SlotmastOffers == {Good("plain")} \cup {Good(id) : id \in SlotMastId}
PlainOffers == {Good("plain")}
=============================================================================
