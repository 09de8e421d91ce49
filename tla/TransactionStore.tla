-------------------------- MODULE TransactionStore --------------------------
(***************************************************************************)
(* What the rest of the Sentinel relies on when a transaction is handed to *)
(* the resend list: a set of transactions that survives a power failure.   *)
(* A transaction is taken in one indivisible step, is confirmed to its     *)
(* sender only once it is held, and leaves only when somebody releases it  *)
(* or when the non-volatile memory as a whole is declared invalid and      *)
(* wiped.  A crash and a restart change nothing but the phase.             *)
(*                                                                         *)
(* ResendList.tla is the detailed design that implements this module.      *)
(***************************************************************************)
CONSTANT Tx                  \* the transactions that may be handed over

VARIABLES
    phase,                   \* "down", "clearing" (wiping) or "up"
    held,                    \* the transactions that survive a restart
    confirmed                \* the transactions whose sender was told "stored"

storeVars == <<phase, held, confirmed>>

StoreTypeOK ==
    /\ phase \in {"down", "clearing", "up"}
    /\ held \subseteq Tx
    /\ confirmed \subseteq Tx

StoreInit ==
    /\ phase = "down"
    /\ held = {}
    /\ confirmed = {}

Accept(t) ==
    /\ phase = "up"
    /\ t \notin held
    /\ held' = held \cup {t}
    /\ UNCHANGED <<phase, confirmed>>

Confirm(t) ==
    /\ phase = "up"
    /\ t \in held
    /\ confirmed' = confirmed \cup {t}
    /\ UNCHANGED <<phase, held>>

Release(t) ==
    /\ phase = "up"
    /\ t \in held
    /\ held' = held \ {t}
    /\ confirmed' = confirmed \ {t}
    /\ UNCHANGED phase

Wipe(t) ==
    /\ phase = "clearing"
    /\ t \in held
    /\ held' = held \ {t}
    /\ confirmed' = confirmed \ {t}
    /\ UNCHANGED phase

ChangePhase ==
    /\ phase' \in {"down", "clearing", "up"}
    /\ UNCHANGED <<held, confirmed>>

StoreNext ==
    \/ \E t \in Tx : Accept(t) \/ Confirm(t) \/ Release(t) \/ Wipe(t)
    \/ ChangePhase

StoreSpec == StoreInit /\ [][StoreNext]_storeVars

=============================================================================
