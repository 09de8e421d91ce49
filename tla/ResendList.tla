----------------------------- MODULE ResendList -----------------------------
(***************************************************************************)
(* CTransactionResendList (PollerProtocol/TransactionResendList.cpp): the  *)
(* list of transactions that must be sent to the casino host again until   *)
(* the host has answered them.  Every entry has a copy in one fixed-size   *)
(* block of battery-backed memory (NVRAM), from which the list is rebuilt  *)
(* after a restart.                                                        *)
(*                                                                         *)
(* The object has one lock.  AddTransaction tests the size of the list     *)
(* before it takes the lock and then performs several NVRAM writes under   *)
(* it; power may fail between any two of them.  Only the thread that reads *)
(* the internal queue adds; the sending, the reading and the internal      *)
(* queue thread all remove.                                                *)
(*                                                                         *)
(* A transaction is an element t of Tx; IdOf[t] is its unique id, LenOf[t] *)
(* the number of 256-byte pieces its buffer is written in, OutOf[t] tells  *)
(* a printed ticket ("ticket out").                                        *)
(***************************************************************************)
EXTENDS Integers, Sequences, FiniteSets

CONSTANTS
    NumBlocks,     \* MAX_NUMBER_OF_TRANSACTIONS
    Id,            \* the unique ids
    Tx,            \* the transactions that may be added
    MaxPieces,     \* pieces a block has room for
    IdOf, LenOf, OutOf,
    WriteResults,  \* what one NVRAM write may report: {TRUE} or BOOLEAN
    NoTx           \* the content of a piece that was never written

ASSUME ResendListAssumption ==
    /\ NumBlocks \in Nat \ {0}
    /\ MaxPieces \in Nat \ {0}
    /\ IdOf \in [Tx -> Id]
    /\ LenOf \in [Tx -> 1..MaxPieces]
    /\ OutOf \in [Tx -> BOOLEAN]
    /\ WriteResults \subseteq BOOLEAN
    /\ NoTx \notin Tx

VARIABLES
    mode,          \* "down", "clearing" (BuildYourself on invalid NVRAM), "up"
    nvram,         \* the blocks, in address order
    list,          \* m_resendList: unique id -> item
    freeNv,        \* m_freeNvList
    add,           \* the AddTransaction call in progress
    scan,          \* the block BuildYourself clears next
    initialOut,    \* m_initialTicketOutCount
    confirmed      \* the transactions for which AddTransaction returned true

vars == <<mode, nvram, list, freeNv, add, scan, initialOut, confirmed>>

-----------------------------------------------------------------------------
Blocks == 1..NumBlocks
Pieces == 1..MaxPieces

Block == [used : BOOLEAN, len : 0..MaxPieces,
          data : [Pieces -> Tx \cup {NoTx}], out : BOOLEAN]

EmptyBlock ==
    [used |-> FALSE, len |-> 0, data |-> [i \in Pieces |-> NoTx], out |-> FALSE]

Item == [body : UNION {[1..n -> Tx \cup {NoTx}] : n \in 0..MaxPieces},
         out : BOOLEAN, block : Blocks]

AddPc == {"idle", "checked", "writing", "flagging", "committing", "inserting"}

Add == [pc : AddPc, tx : Tx \cup {NoTx}, block : Blocks, n : 0..MaxPieces]

Idle == [pc |-> "idle", tx |-> NoTx, block |-> 1, n |-> 0]

\* The lock is held from taking the block to inserting the item.
Locked == add.pc \notin {"idle", "checked"}

UsedBlocks == {b \in Blocks : nvram[b].used}

\* The transaction a used block belongs to: its first piece has the header.
OwnerOf(b) == nvram[b].data[1]

\* Mutant of ItemOf: BuildYourself forgets that the ticket was a printed one.
ItemWithoutFlag(b) ==
    [body  |-> [i \in 1..nvram[b].len |-> nvram[b].data[i]],
     out   |-> FALSE,
     block |-> b]

\* The item BuildYourself makes of a used block.
ItemOf(b) ==
    [body  |-> [i \in 1..nvram[b].len |-> nvram[b].data[i]],
     out   |-> nvram[b].out,
     block |-> b]

\* The block of id that BuildYourself reads last: it replaces the others.
LastBlockOf(id) ==
    CHOOSE b \in UsedBlocks :
        /\ IdOf[OwnerOf(b)] = id
        /\ \A c \in UsedBlocks : IdOf[OwnerOf(c)] = id => c <= b

FreeBlocks == Blocks \ UsedBlocks

\* The unused blocks in address order, as the scan appends them.
InAddressOrder(s) ==
    /\ {s[i] : i \in DOMAIN s} = FreeBlocks
    /\ \A i, j \in DOMAIN s : i < j => s[i] < s[j]

-----------------------------------------------------------------------------
Init ==
    /\ mode = "down"
    /\ nvram = [b \in Blocks |-> EmptyBlock]
    /\ list = [id \in {} |-> Idle]
    /\ freeNv = <<>>
    /\ add = Idle
    /\ scan = 1
    /\ initialOut = 0
    /\ confirmed = {}

\* BuildYourself when the NVRAM passed its integrity check.
BuildFromNvram ==
    /\ mode = "down"
    /\ mode' = "up"
    /\ list' = [id \in {IdOf[OwnerOf(b)] : b \in UsedBlocks} |-> ItemOf(LastBlockOf(id))]
    /\ \E s \in [1..Cardinality(FreeBlocks) -> FreeBlocks] :
           InAddressOrder(s) /\ freeNv' = s
    /\ initialOut' = Cardinality({b \in UsedBlocks : nvram[b].out})
    /\ UNCHANGED <<nvram, add, scan, confirmed>>

\* BuildYourself when it did not: the blocks are cleared one by one.
BeginClearing ==
    /\ mode = "down"
    /\ mode' = "clearing"
    /\ scan' = 1
    /\ initialOut' = 0
    /\ UNCHANGED <<nvram, list, freeNv, add, confirmed>>

ClearBlock ==
    /\ mode = "clearing"
    /\ scan <= NumBlocks
    /\ \E ok \in WriteResults :
           nvram' = [nvram EXCEPT ![scan].used = @ /\ ~ok]
    /\ confirmed' = IF nvram[scan].used THEN confirmed \ {OwnerOf(scan)} ELSE confirmed
    /\ freeNv' = Append(freeNv, scan)
    /\ scan' = scan + 1
    /\ UNCHANGED <<mode, list, add, initialOut>>

EndClearing ==
    /\ mode = "clearing"
    /\ scan > NumBlocks
    /\ mode' = "up"
    /\ UNCHANGED <<nvram, list, freeNv, add, scan, initialOut, confirmed>>

-----------------------------------------------------------------------------
(* AddTransaction, called by QueueToPoller with an id GetUniqueId just made. *)

\* Mutant of AddCheckSize: <= for <.
AddCheckSizeOffByOne(t) ==
    /\ mode = "up"
    /\ add.pc = "idle"
    /\ IdOf[t] \notin DOMAIN list
    /\ Cardinality(DOMAIN list) <= NumBlocks
    /\ add' = [add EXCEPT !.pc = "checked", !.tx = t]
    /\ UNCHANGED <<mode, nvram, list, freeNv, scan, initialOut, confirmed>>

AddCheckSize(t) ==
    /\ mode = "up"
    /\ add.pc = "idle"
    /\ IdOf[t] \notin DOMAIN list
    /\ Cardinality(DOMAIN list) < NumBlocks
    /\ add' = [add EXCEPT !.pc = "checked", !.tx = t]
    /\ UNCHANGED <<mode, nvram, list, freeNv, scan, initialOut, confirmed>>

\* With no free block left the call only logs, and still returns true.
AddTakeBlock ==
    /\ add.pc = "checked"
    /\ IF freeNv # <<>>
       THEN /\ add' = [add EXCEPT !.pc = "writing", !.block = Head(freeNv), !.n = 0]
            /\ freeNv' = Tail(freeNv)
            /\ UNCHANGED confirmed
       ELSE /\ add' = Idle
            /\ confirmed' = confirmed \cup {add.tx}
            /\ UNCHANGED freeNv
    /\ UNCHANGED <<mode, nvram, list, scan, initialOut>>

\* Mutants of AddWritePiece: one piece too many, one too few (the number of
\* pieces rounded down).
WritePiecesUntil(last) ==
    /\ add.pc = "writing"
    /\ \E ok \in WriteResults :
           nvram' = [nvram EXCEPT ![add.block].data[add.n + 1] = IF ok THEN add.tx ELSE @]
    /\ add' = [add EXCEPT !.n = @ + 1,
                          !.pc = IF add.n + 1 >= last THEN "flagging" ELSE "writing"]
    /\ UNCHANGED <<mode, list, freeNv, scan, initialOut, confirmed>>

AddWritePieceTooMany == WritePiecesUntil(LenOf[add.tx] + 1)
AddWritePieceTooFew == WritePiecesUntil(LenOf[add.tx] - 1)

\* One 256-byte piece.  The result of Write is not looked at.
AddWritePiece ==
    /\ add.pc = "writing"
    /\ \E ok \in WriteResults :
           nvram' = [nvram EXCEPT ![add.block].data[add.n + 1] = IF ok THEN add.tx ELSE @]
    /\ add' = [add EXCEPT !.n = @ + 1,
                          !.pc = IF add.n + 1 = LenOf[add.tx] THEN "flagging" ELSE "writing"]
    /\ UNCHANGED <<mode, list, freeNv, scan, initialOut, confirmed>>

AddWriteTicketFlag ==
    /\ add.pc = "flagging"
    /\ \E ok \in WriteResults :
           nvram' = [nvram EXCEPT ![add.block].out = IF ok THEN OutOf[add.tx] ELSE @]
    /\ add' = [add EXCEPT !.pc = "committing"]
    /\ UNCHANGED <<mode, list, freeNv, scan, initialOut, confirmed>>

\* One write sets the used mark and the length together.
AddCommitBlock ==
    /\ add.pc = "committing"
    /\ \E ok \in WriteResults :
           nvram' = IF ok
                    THEN [nvram EXCEPT ![add.block].used = TRUE,
                                       ![add.block].len = LenOf[add.tx]]
                    ELSE nvram
    /\ add' = [add EXCEPT !.pc = "inserting"]
    /\ UNCHANGED <<mode, list, freeNv, scan, initialOut, confirmed>>

AddInsertItem ==
    /\ add.pc = "inserting"
    /\ LET item == [body  |-> [i \in 1..LenOf[add.tx] |-> add.tx],
                    out   |-> OutOf[add.tx],
                    block |-> add.block]
       IN  list' = [id \in DOMAIN list \cup {IdOf[add.tx]} |->
                        IF id = IdOf[add.tx] THEN item ELSE list[id]]
    /\ confirmed' = confirmed \cup {add.tx}
    /\ add' = Idle
    /\ UNCHANGED <<mode, nvram, freeNv, scan, initialOut>>

-----------------------------------------------------------------------------
\* Mutants of RemoveTransaction: the block is not given back, or it is given
\* back but stays marked as used.
RemoveLosesBlock(id) ==
    /\ mode = "up" /\ ~Locked /\ id \in DOMAIN list
    /\ nvram' = [nvram EXCEPT ![list[id].block].used = FALSE]
    /\ list' = [other \in DOMAIN list \ {id} |-> list[other]]
    /\ confirmed' = confirmed \ {list[id].body[1]}
    /\ UNCHANGED <<mode, freeNv, add, scan, initialOut>>

RemoveKeepsMark(id) ==
    /\ mode = "up" /\ ~Locked /\ id \in DOMAIN list
    /\ freeNv' = Append(freeNv, list[id].block)
    /\ list' = [other \in DOMAIN list \ {id} |-> list[other]]
    /\ confirmed' = confirmed \ {list[id].body[1]}
    /\ UNCHANGED <<mode, nvram, add, scan, initialOut>>

RemoveTransaction(id) ==
    /\ mode = "up"
    /\ ~Locked
    /\ id \in DOMAIN list
    /\ \E ok \in WriteResults :
           nvram' = [nvram EXCEPT ![list[id].block].used = @ /\ ~ok]
    /\ freeNv' = Append(freeNv, list[id].block)
    /\ list' = [other \in DOMAIN list \ {id} |-> list[other]]
    /\ confirmed' = confirmed \ {list[id].body[1]}
    /\ UNCHANGED <<mode, add, scan, initialOut>>

\* Power failure or watchdog reset: everything but the NVRAM is gone.
Crash ==
    /\ mode # "down"
    /\ mode' = "down"
    /\ list' = [id \in {} |-> Idle]
    /\ freeNv' = <<>>
    /\ add' = Idle
    /\ scan' = 1
    /\ initialOut' = 0
    /\ UNCHANGED <<nvram, confirmed>>

Next ==
    \/ BuildFromNvram
    \/ BeginClearing
    \/ ClearBlock
    \/ EndClearing
    \/ \E t \in Tx : AddCheckSize(t)
    \/ AddTakeBlock
    \/ AddWritePiece
    \/ AddWriteTicketFlag
    \/ AddCommitBlock
    \/ AddInsertItem
    \/ \E id \in Id : RemoveTransaction(id)
    \/ Crash

Spec == Init /\ [][Next]_vars

-----------------------------------------------------------------------------
(* Properties *)

\* Block b carries the whole of transaction t.
Holds(b, t) ==
    /\ nvram[b].used
    /\ nvram[b].len = LenOf[t]
    /\ \A i \in 1..LenOf[t] : nvram[b].data[i] = t
    /\ nvram[b].out = OutOf[t]

Held == {t \in Tx : \E b \in Blocks : Holds(b, t)}

\* The block an AddTransaction call has taken and not yet marked used.
PendingBlocks ==
    IF add.pc \in {"writing", "flagging", "committing"} THEN {add.block} ELSE {}

\* The type of every variable.
TypeOK ==
    /\ mode \in {"down", "clearing", "up"}
    /\ nvram \in [Blocks -> Block]
    /\ DOMAIN list \subseteq Id
    /\ \A id \in DOMAIN list : list[id] \in Item
    /\ freeNv \in Seq(Blocks)
    /\ add \in Add
    /\ scan \in 1..(NumBlocks + 1)
    /\ initialOut \in Nat
    /\ confirmed \subseteq Tx

\* A block that is marked used carries one whole transaction, at every moment
\* at which the power may fail: a half-written AddTransaction is never
\* recovered, nor is a mixture with what the block held before.
UsedBlocksWhole == \A b \in UsedBlocks : \E t \in Tx : Holds(b, t)

\* While the list is in use its entries, the free list and the block being
\* filled share the NVRAM out among them: no block is in two places, none is
\* lost, and an entry's block carries that entry's transaction.
BlockAccounting ==
    mode = "up" =>
        /\ \A id \in DOMAIN list :
               \E t \in Tx : IdOf[t] = id /\ list[id].body[1] = t /\ Holds(list[id].block, t)
        /\ \A i, j \in DOMAIN list : list[i].block = list[j].block => i = j
        /\ \A i, j \in DOMAIN freeNv : freeNv[i] = freeNv[j] => i = j
        /\ {freeNv[i] : i \in DOMAIN freeNv} = FreeBlocks \ PendingBlocks
        /\ UsedBlocks = {list[id].block : id \in DOMAIN list}
                            \cup (IF add.pc = "inserting" THEN {add.block} ELSE {})

\* Whatever AddTransaction answered true for - the caller then tells its own
\* client that the transaction is stored - is in the NVRAM until it is
\* removed, over any number of power failures.
ConfirmedIsDurable == confirmed \subseteq Held

\* The number of printed tickets BuildYourself counts is the number of entries
\* that are printed tickets in the list it builds.
TicketOutCountAtBoot ==
    [][mode # "up" /\ mode' = "up" =>
         initialOut' = Cardinality({id \in DOMAIN list' : list'[id].out})]_vars

\* The list as its users see it.
Store == INSTANCE TransactionStore WITH phase <- mode, held <- Held

\* Every step of the list is a step of TransactionStore or changes nothing it
\* shows: a transaction appears and disappears as a whole, and only there.
StoreSpec == Store!StoreSpec

-----------------------------------------------------------------------------
(* The inductive invariant of ResendListProofs *)

\* No two used blocks have the same unique id: BuildYourself replaces nothing.
OneBlockPerId ==
    \A b, c \in UsedBlocks : IdOf[OwnerOf(b)] = IdOf[OwnerOf(c)] => b = c

\* How far the call in progress has got, and what it has written by then.
AddProgress ==
    /\ add.pc # "idle" =>
           mode = "up" /\ add.tx \in Tx /\ IdOf[add.tx] \notin DOMAIN list
    /\ add.pc = "checked" =>
           IsFiniteSet(DOMAIN list) /\ Cardinality(DOMAIN list) < NumBlocks
    /\ add.pc = "writing" =>
           /\ add.n < LenOf[add.tx]
           /\ \A i \in 1..add.n : nvram[add.block].data[i] = add.tx
    /\ add.pc \in {"flagging", "committing"} =>
           \A i \in 1..LenOf[add.tx] : nvram[add.block].data[i] = add.tx
    /\ add.pc = "committing" => nvram[add.block].out = OutOf[add.tx]
    /\ PendingBlocks \cap UsedBlocks = {}
    /\ add.pc = "inserting" => Holds(add.block, add.tx)

\* Before the list is in use it is empty; the scan of invalid NVRAM has
\* cleared, and put on the free list, the blocks before scan.
NotYetUp ==
    /\ mode # "up" => DOMAIN list = {} /\ add = Idle
    /\ mode = "down" => freeNv = <<>>
    /\ mode = "clearing" =>
           /\ DOMAIN freeNv = 1..(scan - 1)
           /\ \A i \in DOMAIN freeNv : freeNv[i] = i /\ ~nvram[i].used
           /\ initialOut = 0

IInv ==
    /\ TypeOK
    /\ UsedBlocksWhole
    /\ OneBlockPerId
    /\ AddProgress
    /\ NotYetUp
    /\ BlockAccounting
    /\ ConfirmedIsDurable

=============================================================================
