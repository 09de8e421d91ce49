-------------------------- MODULE ResendListProofs --------------------------
(***************************************************************************)
(* Proofs about ResendList, for any number of blocks, ids and transactions *)
(* and any sizes, as long as an NVRAM write that returns has been done.    *)
(*                                                                         *)
(* IInv is the inductive invariant.  The steps that write to a block keep  *)
(* it because the block being filled is not marked used before its last    *)
(* write; AddTakeBlock keeps it because the size test that AddTransaction  *)
(* makes before it takes the lock still guarantees a free block under it.  *)
(***************************************************************************)
EXTENDS ResendList, TLAPS, FiniteSetTheorems

NvramObeys == WriteResults = {TRUE}

-----------------------------------------------------------------------------
(* Blocks and transactions *)

\* There are NumBlocks blocks.
LEMMA BlocksFinite == IsFiniteSet(Blocks) /\ Cardinality(Blocks) = NumBlocks
<1>1. NumBlocks \in Nat /\ NumBlocks >= 1
  BY ResendListAssumption
<1> QED
  BY <1>1, FS_Interval DEF Blocks

\* The unused blocks can be counted.
LEMMA FreeBlocksFinite == IsFiniteSet(FreeBlocks) /\ Cardinality(FreeBlocks) \in Nat
BY BlocksFinite, FS_Subset, FS_CardinalityType DEF FreeBlocks

\* A transaction is written in one piece at least and fits its block.
LEMMA Lengths == \A t \in Tx : LenOf[t] \in Nat /\ 1 <= LenOf[t] /\ LenOf[t] <= MaxPieces
BY ResendListAssumption

\* A block carries at most one transaction, and tells which in its first piece.
LEMMA HoldsOwner ==
  ASSUME NEW b \in Blocks, NEW t \in Tx, Holds(b, t)
  PROVE  OwnerOf(b) = t
BY Lengths DEF Holds, OwnerOf

-----------------------------------------------------------------------------
(* The initial states *)

\* Empty NVRAM, before the first start.
LEMMA InitInv == ASSUME Init PROVE IInv
<1>1. NumBlocks \in Nat /\ NumBlocks >= 1 /\ MaxPieces \in Nat /\ MaxPieces >= 1
  BY ResendListAssumption
<1>2. \A b \in Blocks : ~nvram[b].used
  BY DEF Init, EmptyBlock
<1>3. TypeOK
  <2>1. EmptyBlock \in Block
    BY <1>1 DEF EmptyBlock, Block
  <2>2. Idle \in Add
    BY <1>1 DEF Idle, Add, AddPc, Blocks
  <2> QED
    BY <1>1, <2>1, <2>2 DEF Init, TypeOK
<1>4. UsedBlocksWhole /\ OneBlockPerId /\ UsedBlocks = {}
  BY <1>2 DEF UsedBlocksWhole, OneBlockPerId, UsedBlocks
<1>5. AddProgress
  BY <1>4 DEF AddProgress, Init, Idle, PendingBlocks
<1>6. NotYetUp
  BY DEF NotYetUp, Init
<1>7. BlockAccounting /\ ConfirmedIsDurable
  BY DEF BlockAccounting, ConfirmedIsDurable, Init
<1> QED
  BY <1>3, <1>4, <1>5, <1>6, <1>7 DEF IInv

-----------------------------------------------------------------------------
(* The steps before the list is in use *)

\* A used block is a whole transaction: what BuildYourself makes of it.
LEMMA BuiltItem ==
  ASSUME TypeOK, UsedBlocksWhole, NEW b \in UsedBlocks
  PROVE  /\ b \in Blocks
         /\ OwnerOf(b) \in Tx
         /\ Holds(b, OwnerOf(b))
         /\ IdOf[OwnerOf(b)] \in Id
         /\ ItemOf(b) \in Item
         /\ ItemOf(b).body[1] = OwnerOf(b)
<1>1. b \in Blocks /\ nvram[b] \in Block
  BY DEF UsedBlocks, TypeOK
<1>2. PICK t \in Tx : Holds(b, t)
  BY DEF UsedBlocksWhole
<1>3. OwnerOf(b) = t
  BY <1>1, <1>2, HoldsOwner
<1>4. nvram[b].len = LenOf[t] /\ nvram[b].len \in 0..MaxPieces /\ nvram[b].len >= 1
  BY <1>1, <1>2, Lengths DEF Holds, Block
<1>5. ItemOf(b).body \in [1..nvram[b].len -> Tx \cup {NoTx}]
  BY <1>1, <1>4, ResendListAssumption DEF ItemOf, Block, Pieces
<1>6. ItemOf(b) \in Item
  BY <1>1, <1>4, <1>5 DEF ItemOf, Item, Block
<1>7. ItemOf(b).body[1] = OwnerOf(b)
  BY <1>4 DEF ItemOf, OwnerOf
<1> QED
  BY <1>1, <1>2, <1>3, <1>6, <1>7, ResendListAssumption

\* BuildYourself finds one block for each id, whatever the order of its scan.
LEMMA LastBlockIsTheBlock ==
  ASSUME OneBlockPerId, NEW b \in UsedBlocks
  PROVE  LastBlockOf(IdOf[OwnerOf(b)]) = b
<1> DEFINE id == IdOf[OwnerOf(b)]
           Last(x) == /\ IdOf[OwnerOf(x)] = id
                      /\ \A c \in UsedBlocks : IdOf[OwnerOf(c)] = id => c <= x
<1>1. b \in Int
  BY ResendListAssumption DEF UsedBlocks, Blocks
<1>2. \A c \in UsedBlocks : IdOf[OwnerOf(c)] = id => c = b
  BY DEF OneBlockPerId
<1>3. Last(b)
  BY <1>1, <1>2
<1>4. \A x \in UsedBlocks : Last(x) => x = b
  BY <1>2
<1>5. LastBlockOf(id) = CHOOSE x \in UsedBlocks : Last(x)
  BY DEF LastBlockOf
<1> QED
  BY <1>3, <1>4, <1>5

\* The restart on valid NVRAM: the list, the free list and the marks agree.
LEMMA BuildFromNvramInv == ASSUME IInv, BuildFromNvram PROVE IInv'
<1> USE DEF IInv
<1>1. /\ mode = "down" /\ mode' = "up" /\ nvram' = nvram /\ add' = add /\ add = Idle
      /\ scan' = scan /\ confirmed' = confirmed
  BY DEF BuildFromNvram, NotYetUp
<1>2. UsedBlocks' = UsedBlocks /\ FreeBlocks' = FreeBlocks
  BY <1>1 DEF UsedBlocks, FreeBlocks
<1>3. /\ DOMAIN list' = {IdOf[OwnerOf(b)] : b \in UsedBlocks}
      /\ \A b \in UsedBlocks : list'[IdOf[OwnerOf(b)]] = ItemOf(b)
  BY LastBlockIsTheBlock DEF BuildFromNvram
<1>4. \A b \in UsedBlocks : LET id == IdOf[OwnerOf(b)]
                            IN  /\ id \in Id /\ OwnerOf(b) \in Tx
                                /\ list'[id] \in Item
                                /\ list'[id].block = b
                                /\ list'[id].body[1] = OwnerOf(b)
                                /\ Holds(b, OwnerOf(b))
  <2> SUFFICES ASSUME NEW b \in UsedBlocks
               PROVE  LET id == IdOf[OwnerOf(b)]
                      IN  /\ id \in Id /\ OwnerOf(b) \in Tx
                          /\ list'[id] \in Item
                          /\ list'[id].block = b
                          /\ list'[id].body[1] = OwnerOf(b)
                          /\ Holds(b, OwnerOf(b))
    OBVIOUS
  <2>1. list'[IdOf[OwnerOf(b)]] = ItemOf(b) /\ ItemOf(b).block = b
    BY <1>3 DEF ItemOf
  <2> QED
    BY <2>1, BuiltItem
<1>5. PICK s \in [1..Cardinality(FreeBlocks) -> FreeBlocks] : InAddressOrder(s) /\ freeNv' = s
  BY DEF BuildFromNvram
<1>6. TypeOK'
  <2>1. freeNv' \in Seq(Blocks)
    <3> DEFINE n == Cardinality(FreeBlocks)
    <3>1. n \in Nat /\ freeNv' \in [1..n -> FreeBlocks] /\ FreeBlocks \subseteq Blocks
      BY <1>5, FreeBlocksFinite DEF FreeBlocks
    <3> HIDE DEF n
    <3> QED
      BY <3>1
  <2>2. initialOut' \in Nat
    <3>1. {b \in UsedBlocks : nvram[b].out} \in SUBSET Blocks
      BY DEF UsedBlocks
    <3> QED
      BY <3>1, BlocksFinite, FS_Subset, FS_CardinalityType DEF BuildFromNvram
  <2>3. DOMAIN list' \subseteq Id /\ \A id \in DOMAIN list' : list'[id] \in Item
    BY <1>3, <1>4
  <2> QED
    BY <1>1, <2>1, <2>2, <2>3 DEF TypeOK
<1>7. UsedBlocksWhole' /\ OneBlockPerId' /\ ConfirmedIsDurable'
  BY <1>1, <1>2 DEF UsedBlocksWhole, OneBlockPerId, OwnerOf, ConfirmedIsDurable, Held, Holds
<1>8. AddProgress' /\ NotYetUp' /\ PendingBlocks' = {}
  BY <1>1 DEF AddProgress, NotYetUp, Idle, PendingBlocks
<1>9. BlockAccounting'
  <2>1. \A id \in DOMAIN list' :
            \E t \in Tx : IdOf[t] = id /\ list'[id].body[1] = t /\ Holds(list[id].block, t)'
    <3>1. \A b, t : Holds(b, t)' = Holds(b, t)
      BY <1>1 DEF Holds
    <3> QED
      BY <1>3, <1>4, <3>1
  <2>2. \A i, j \in DOMAIN list' : list'[i].block = list'[j].block => i = j
    BY <1>3, <1>4
  <2>3. \A i, j \in DOMAIN freeNv' : freeNv'[i] = freeNv'[j] => i = j
    <3> SUFFICES ASSUME NEW i \in DOMAIN s, NEW j \in DOMAIN s, i < j
                 PROVE  s[i] # s[j]
      BY <1>5, FreeBlocksFinite
    <3>1. s[i] \in FreeBlocks /\ s[j] \in FreeBlocks
      OBVIOUS
    <3>2. s[i] \in Int /\ s[j] \in Int
      BY <3>1, ResendListAssumption DEF FreeBlocks, Blocks
    <3> QED
      BY <1>5, <3>2 DEF InAddressOrder
  <2>4. {freeNv'[i] : i \in DOMAIN freeNv'} = FreeBlocks
    BY <1>5 DEF InAddressOrder
  <2>5. UsedBlocks = {list'[id].block : id \in DOMAIN list'}
    BY <1>3, <1>4
  <2> QED
    BY <1>1, <1>2, <1>8, <2>1, <2>2, <2>3, <2>4, <2>5 DEF BlockAccounting, Idle
<1> QED
  BY <1>6, <1>7, <1>8, <1>9

\* The restart on invalid NVRAM begins with the first block.
LEMMA BeginClearingInv == ASSUME IInv, BeginClearing PROVE IInv'
<1> USE DEF IInv
<1>1. /\ mode = "down" /\ mode' = "clearing" /\ scan' = 1 /\ initialOut' = 0
      /\ UNCHANGED <<nvram, list, freeNv, add, confirmed>>
      /\ DOMAIN list = {} /\ add = Idle /\ freeNv = <<>>
  BY DEF BeginClearing, NotYetUp
<1>2. UsedBlocks' = UsedBlocks
  BY <1>1 DEF UsedBlocks
<1>3. TypeOK'
  BY <1>1, ResendListAssumption DEF TypeOK
<1>4. UsedBlocksWhole' /\ OneBlockPerId' /\ ConfirmedIsDurable'
  BY <1>1, <1>2 DEF UsedBlocksWhole, OneBlockPerId, OwnerOf, ConfirmedIsDurable, Held, Holds
<1>5. AddProgress' /\ NotYetUp' /\ BlockAccounting'
  BY <1>1 DEF AddProgress, NotYetUp, BlockAccounting, Idle, PendingBlocks
<1> QED
  BY <1>3, <1>4, <1>5

\* Once every block is cleared all of them are free.
LEMMA EndClearingInv == ASSUME IInv, EndClearing PROVE IInv'
<1> USE DEF IInv
<1>1. /\ mode = "clearing" /\ mode' = "up" /\ scan > NumBlocks
      /\ UNCHANGED <<nvram, list, freeNv, add, scan, initialOut, confirmed>>
      /\ DOMAIN list = {} /\ add = Idle
  BY DEF EndClearing, NotYetUp
<1>2. scan = NumBlocks + 1
  BY <1>1, ResendListAssumption DEF TypeOK
<1>3. DOMAIN freeNv = Blocks /\ \A i \in Blocks : freeNv[i] = i /\ ~nvram[i].used
  BY <1>1, <1>2, ResendListAssumption DEF NotYetUp, Blocks
<1>4. UsedBlocks = {} /\ UsedBlocks' = {} /\ FreeBlocks' = Blocks
  BY <1>1, <1>3 DEF UsedBlocks, FreeBlocks
<1>5. TypeOK'
  BY <1>1 DEF TypeOK
<1>6. UsedBlocksWhole' /\ OneBlockPerId' /\ ConfirmedIsDurable'
  BY <1>1, <1>4 DEF UsedBlocksWhole, OneBlockPerId, ConfirmedIsDurable, Held, Holds
<1>7. AddProgress' /\ NotYetUp' /\ PendingBlocks' = {}
  BY <1>1 DEF AddProgress, NotYetUp, Idle, PendingBlocks
<1>8. BlockAccounting'
  BY <1>1, <1>3, <1>4, <1>7 DEF BlockAccounting, Idle
<1> QED
  BY <1>5, <1>6, <1>7, <1>8

\* Clearing a block releases its transaction, and frees the block.
LEMMA ClearBlockInv == ASSUME NvramObeys, IInv, ClearBlock PROVE IInv'
<1> USE DEF IInv
<1>1. /\ mode = "clearing" /\ mode' = "clearing" /\ scan <= NumBlocks /\ scan' = scan + 1
      /\ freeNv' = Append(freeNv, scan)
      /\ UNCHANGED <<list, add, initialOut>>
      /\ DOMAIN list = {} /\ add = Idle /\ initialOut = 0
      /\ nvram' = [nvram EXCEPT ![scan].used = FALSE]
  BY DEF ClearBlock, NotYetUp, NvramObeys
<1>2. scan \in Blocks /\ scan \in Nat /\ nvram[scan] \in Block
  BY <1>1, ResendListAssumption DEF TypeOK, Blocks
<1>3. \A b \in Blocks : b # scan => nvram'[b] = nvram[b]
  BY <1>1 DEF TypeOK
<1>4. nvram'[scan] = [nvram[scan] EXCEPT !.used = FALSE]
  BY <1>1, <1>2 DEF TypeOK
<1>5. ~nvram'[scan].used
  BY <1>2, <1>4 DEF Block
<1>6. TypeOK'
  <2>1. nvram' \in [Blocks -> Block]
    BY <1>1, <1>2 DEF TypeOK, Block
  <2>2. confirmed' \subseteq Tx
    BY DEF ClearBlock, TypeOK
  <2> QED
    BY <1>1, <1>2, <2>1, <2>2, ResendListAssumption DEF TypeOK, Blocks
<1>7. UsedBlocks' = UsedBlocks \ {scan}
  BY <1>2, <1>3, <1>5 DEF UsedBlocks
<1>8. \A b \in UsedBlocks' : nvram'[b] = nvram[b] /\ b \in UsedBlocks
  BY <1>3, <1>7 DEF UsedBlocks
<1>9. UsedBlocksWhole' /\ OneBlockPerId'
  BY <1>8 DEF UsedBlocksWhole, OneBlockPerId, OwnerOf, Holds
<1>10. ConfirmedIsDurable'
  <2> SUFFICES ASSUME NEW t \in confirmed'
               PROVE  \E b \in Blocks : Holds(b, t)'
    BY <1>6 DEF ConfirmedIsDurable, Held, TypeOK
  <2>1. PICK b \in Blocks : Holds(b, t)
    BY DEF ClearBlock, ConfirmedIsDurable, Held
  <2>2. t \in Tx /\ nvram[b].used
    BY <1>6, <2>1 DEF TypeOK, Holds
  <2>3. b # scan
    BY <2>1, <2>2, HoldsOwner DEF ClearBlock
  <2> QED
    BY <1>3, <2>1, <2>3 DEF Holds
<1>11. NotYetUp'
  <2>1. /\ DOMAIN freeNv = 1..(scan - 1)
        /\ \A i \in DOMAIN freeNv : freeNv[i] = i /\ ~nvram[i].used
    BY <1>1 DEF NotYetUp
  <2>2. freeNv \in Seq(Blocks) /\ Len(freeNv) = scan - 1
    BY <1>2, <2>1 DEF TypeOK
  <2>3. /\ DOMAIN freeNv' = 1..scan
        /\ \A i \in 1..scan : freeNv'[i] = i
    BY <1>1, <1>2, <2>1, <2>2
  <2>4. \A i \in 1..scan : ~nvram'[i].used
    <3> SUFFICES ASSUME NEW i \in 1..scan, i # scan
                 PROVE  ~nvram'[i].used
      BY <1>5
    <3>1. i \in Blocks /\ i \in DOMAIN freeNv
      BY <1>1, <1>2, <2>1, ResendListAssumption DEF Blocks
    <3> QED
      BY <1>3, <2>1, <3>1
  <2> QED
    BY <1>1, <1>2, <2>3, <2>4 DEF NotYetUp
<1>12. AddProgress' /\ BlockAccounting'
  BY <1>1 DEF AddProgress, BlockAccounting, Idle, PendingBlocks
<1> QED
  BY <1>6, <1>9, <1>10, <1>11, <1>12

\* Power failure: what is in the NVRAM is whole, so nothing else matters.
LEMMA CrashInv == ASSUME IInv, Crash PROVE IInv'
<1> USE DEF IInv
<1>1. /\ mode' = "down" /\ DOMAIN list' = {} /\ freeNv' = <<>> /\ add' = Idle /\ scan' = 1
      /\ initialOut' = 0 /\ UNCHANGED <<nvram, confirmed>>
  BY DEF Crash
<1>2. UsedBlocks' = UsedBlocks
  BY <1>1 DEF UsedBlocks
<1>3. Idle \in Add /\ 1 \in 1..(NumBlocks + 1)
  BY ResendListAssumption DEF Idle, Add, AddPc, Blocks
<1>4. TypeOK'
  BY <1>1, <1>3 DEF TypeOK
<1>5. UsedBlocksWhole' /\ OneBlockPerId' /\ ConfirmedIsDurable'
  BY <1>1, <1>2 DEF UsedBlocksWhole, OneBlockPerId, OwnerOf, ConfirmedIsDurable, Held, Holds
<1>6. AddProgress' /\ NotYetUp' /\ BlockAccounting'
  BY <1>1 DEF AddProgress, NotYetUp, BlockAccounting, Idle, PendingBlocks
<1> QED
  BY <1>4, <1>5, <1>6

-----------------------------------------------------------------------------
(* AddTransaction *)

\* The entries of a list in use are as many as the blocks they own.
LEMMA ListFinite ==
  ASSUME IInv, mode = "up"
  PROVE  IsFiniteSet(DOMAIN list) /\ Cardinality(DOMAIN list) \in Nat
<1> DEFINE f == [id \in DOMAIN list |-> list[id].block]
<1>1. f \in [DOMAIN list -> Blocks]
  BY DEF IInv, TypeOK, Item
<1>2. \A i, j \in DOMAIN list : f[i] = f[j] => i = j
  BY DEF IInv, BlockAccounting
<1>3. f \in Injection(DOMAIN list, Blocks)
  BY <1>1, <1>2 DEF Injection, IsInjective
<1> HIDE DEF f
<1> QED
  BY <1>3, BlocksFinite, FS_Injection, FS_CardinalityType

\* With room in the list at the size test there is a free block under the lock.
LEMMA RoomMeansFreeBlock ==
  ASSUME IInv, add.pc = "checked"
  PROVE  freeNv # <<>>
<1> SUFFICES ASSUME freeNv = <<>> PROVE FALSE
  OBVIOUS
<1> DEFINE f == [id \in DOMAIN list |-> list[id].block]
<1>1. /\ mode = "up" /\ IsFiniteSet(DOMAIN list) /\ Cardinality(DOMAIN list) < NumBlocks
      /\ PendingBlocks = {}
  BY DEF IInv, AddProgress, PendingBlocks
<1>2. FreeBlocks = {} /\ UsedBlocks = {list[id].block : id \in DOMAIN list}
  BY <1>1 DEF IInv, BlockAccounting
<1>3. Blocks = {list[id].block : id \in DOMAIN list}
  BY <1>2 DEF FreeBlocks, UsedBlocks
<1>4. f \in Surjection(DOMAIN list, Blocks)
  BY <1>3 DEF Surjection
<1> HIDE DEF f
<1>5. Cardinality(Blocks) <= Cardinality(DOMAIN list)
  BY <1>1, <1>4, FS_Surjection
<1> QED
  BY <1>1, <1>5, BlocksFinite, ResendListAssumption, FS_CardinalityType

\* The size test, outside the lock.
LEMMA AddCheckSizeInv == ASSUME IInv, NEW t \in Tx, AddCheckSize(t) PROVE IInv'
<1> USE DEF IInv
<1>1. /\ mode = "up" /\ add.pc = "idle" /\ IdOf[t] \notin DOMAIN list
      /\ Cardinality(DOMAIN list) < NumBlocks
      /\ add' = [add EXCEPT !.pc = "checked", !.tx = t]
      /\ UNCHANGED <<mode, nvram, list, freeNv, scan, initialOut, confirmed>>
  BY DEF AddCheckSize
<1>2. add'.pc = "checked" /\ add'.tx = t /\ add' \in Add
  BY <1>1 DEF TypeOK, Add, AddPc
<1>3. UsedBlocks' = UsedBlocks /\ PendingBlocks' = {} /\ PendingBlocks = {}
  BY <1>1, <1>2 DEF UsedBlocks, PendingBlocks
<1>4. TypeOK'
  BY <1>1, <1>2 DEF TypeOK
<1>5. UsedBlocksWhole' /\ OneBlockPerId' /\ ConfirmedIsDurable'
  BY <1>1, <1>3 DEF UsedBlocksWhole, OneBlockPerId, OwnerOf, ConfirmedIsDurable, Held, Holds
<1>6. AddProgress'
  BY <1>1, <1>2, <1>3, ListFinite DEF AddProgress
<1>7. NotYetUp'
  BY <1>1 DEF NotYetUp
<1>8. BlockAccounting'
  BY <1>1, <1>2, <1>3 DEF BlockAccounting, FreeBlocks, Holds
<1> QED
  BY <1>4, <1>5, <1>6, <1>7, <1>8

\* The block is taken from the free list, which is not empty.
LEMMA AddTakeBlockInv == ASSUME IInv, AddTakeBlock PROVE IInv'
<1> USE DEF IInv
<1> DEFINE b == Head(freeNv)
<1>1. /\ add.pc = "checked" /\ mode = "up" /\ add.tx \in Tx /\ IdOf[add.tx] \notin DOMAIN list
      /\ freeNv # <<>> /\ freeNv \in Seq(Blocks)
      /\ add' = [add EXCEPT !.pc = "writing", !.block = b, !.n = 0]
      /\ freeNv' = Tail(freeNv)
      /\ UNCHANGED <<mode, nvram, list, scan, initialOut, confirmed>>
  BY RoomMeansFreeBlock DEF AddTakeBlock, AddProgress, TypeOK
<1>2. b \in Blocks /\ freeNv' \in Seq(Blocks) /\ 0 \in 0..MaxPieces
  BY <1>1, ResendListAssumption
<1>3. /\ add'.pc = "writing" /\ add'.tx = add.tx /\ add'.block = b /\ add'.n = 0
      /\ add' \in Add
  BY <1>1, <1>2 DEF TypeOK, Add, AddPc
<1>4. /\ UsedBlocks' = UsedBlocks /\ FreeBlocks' = FreeBlocks
      /\ PendingBlocks = {} /\ PendingBlocks' = {b}
  BY <1>1, <1>3 DEF UsedBlocks, FreeBlocks, PendingBlocks
<1>5. /\ {freeNv[i] : i \in DOMAIN freeNv} = FreeBlocks
      /\ \A i, j \in DOMAIN freeNv : freeNv[i] = freeNv[j] => i = j
  BY <1>1, <1>4 DEF BlockAccounting
<1>6. /\ b = freeNv[1] /\ Len(freeNv) \in Nat /\ Len(freeNv) >= 1
      /\ DOMAIN freeNv = 1..Len(freeNv) /\ DOMAIN freeNv' = 1..(Len(freeNv) - 1)
      /\ \A i \in DOMAIN freeNv' : freeNv'[i] = freeNv[i + 1]
  BY <1>1
<1>7. b \in FreeBlocks
  BY <1>5, <1>6
<1>8. TypeOK'
  BY <1>1, <1>2, <1>3 DEF TypeOK
<1>9. UsedBlocksWhole' /\ OneBlockPerId' /\ ConfirmedIsDurable'
  BY <1>1, <1>4 DEF UsedBlocksWhole, OneBlockPerId, OwnerOf, ConfirmedIsDurable, Held, Holds
<1>10. AddProgress'
  BY <1>1, <1>3, <1>4, <1>7, Lengths DEF AddProgress, FreeBlocks
<1>11. NotYetUp'
  BY <1>1 DEF NotYetUp
<1>12. BlockAccounting'
  <2>1. \A i, j \in DOMAIN freeNv' : freeNv'[i] = freeNv'[j] => i = j
    BY <1>5, <1>6
  <2>2. {freeNv'[i] : i \in DOMAIN freeNv'} = FreeBlocks \ {b}
    <3>1. \A i \in DOMAIN freeNv' : freeNv'[i] \in FreeBlocks \ {b}
      BY <1>5, <1>6
    <3>2. ASSUME NEW c \in FreeBlocks, c # b
          PROVE  \E i \in DOMAIN freeNv' : freeNv'[i] = c
      <4>1. PICK j \in DOMAIN freeNv : freeNv[j] = c
        BY <1>5
      <4>2. j - 1 \in DOMAIN freeNv' /\ freeNv'[j - 1] = c
        BY <1>6, <3>2, <4>1
      <4> QED
        BY <4>2
    <3> QED
      BY <3>1, <3>2
  <2> QED
    BY <1>1, <1>3, <1>4, <2>1, <2>2 DEF BlockAccounting, Holds
<1> QED
  BY <1>8, <1>9, <1>10, <1>11, <1>12

\* A step that writes only to the block being filled, which is not marked used.
LEMMA WriteToPending ==
  ASSUME IInv, PendingBlocks = {add.block}, add'.block = add.block, nvram' \in [Blocks -> Block],
         \A b \in Blocks : b # add.block => nvram'[b] = nvram[b],
         ~nvram'[add.block].used,
         PendingBlocks' = PendingBlocks,
         UNCHANGED <<mode, list, freeNv, scan, initialOut, confirmed>>,
         add.pc # "inserting", add'.pc # "inserting", mode = "up"
  PROVE  /\ UsedBlocks' = UsedBlocks
         /\ UsedBlocksWhole' /\ OneBlockPerId' /\ ConfirmedIsDurable' /\ BlockAccounting'
         /\ NotYetUp'
<1> USE DEF IInv
<1>1. ~nvram[add.block].used /\ add.block \in Blocks
  BY DEF AddProgress, UsedBlocks, TypeOK, Add
<1>2. UsedBlocks' = UsedBlocks /\ FreeBlocks' = FreeBlocks
  BY <1>1 DEF UsedBlocks, FreeBlocks
<1>3. \A b \in Blocks, t \in Tx : Holds(b, t) => Holds(b, t)'
  BY <1>1 DEF Holds
<1>4. \A b \in UsedBlocks : OwnerOf(b)' = OwnerOf(b)
  BY <1>1 DEF OwnerOf, UsedBlocks
<1>5. UsedBlocksWhole'
  BY <1>2, <1>3 DEF UsedBlocksWhole, UsedBlocks
<1>6. OneBlockPerId'
  BY <1>2, <1>4 DEF OneBlockPerId
<1>7. ConfirmedIsDurable'
  BY <1>3 DEF ConfirmedIsDurable, Held
<1>8. \A id \in DOMAIN list : list[id].block \in Blocks
  BY DEF TypeOK, Item
<1>9. BlockAccounting'
  BY <1>2, <1>3, <1>8 DEF BlockAccounting
<1>10. NotYetUp'
  BY DEF NotYetUp
<1> QED
  BY <1>2, <1>5, <1>6, <1>7, <1>9, <1>10

\* A piece goes to a block that is not marked used.
LEMMA AddWritePieceInv == ASSUME NvramObeys, IInv, AddWritePiece PROVE IInv'
<1> USE DEF IInv
<1> DEFINE b == add.block
           t == add.tx
<1>1. /\ add.pc = "writing" /\ mode = "up" /\ t \in Tx /\ IdOf[t] \notin DOMAIN list
      /\ add.n \in Nat /\ add.n < LenOf[t] /\ b \in Blocks /\ nvram[b] \in Block
      /\ nvram' = [nvram EXCEPT ![b].data[add.n + 1] = t]
      /\ add' = [add EXCEPT !.n = @ + 1,
                            !.pc = IF add.n + 1 = LenOf[t] THEN "flagging" ELSE "writing"]
      /\ UNCHANGED <<mode, list, freeNv, scan, initialOut, confirmed>>
  BY ResendListAssumption DEF AddWritePiece, AddProgress, TypeOK, Add, NvramObeys
<1>2. add.n + 1 \in Pieces /\ add.n + 1 \in 0..MaxPieces /\ add.n + 1 <= LenOf[t]
  BY <1>1, Lengths, ResendListAssumption DEF Pieces
<1>3. /\ add'.pc \in {"writing", "flagging"} /\ add'.tx = t /\ add'.block = b
      /\ add'.n = add.n + 1 /\ add' \in Add
      /\ add'.pc = "flagging" <=> add.n + 1 = LenOf[t]
  BY <1>1, <1>2 DEF TypeOK, Add, AddPc
<1>4. nvram'[b] = [nvram[b] EXCEPT !.data[add.n + 1] = t]
  BY <1>1 DEF TypeOK
<1>5. nvram'[b] \in Block /\ nvram'[b].used = nvram[b].used
  BY <1>1, <1>2, <1>4 DEF Block
<1>6. nvram' \in [Blocks -> Block] /\ \A c \in Blocks : c # b => nvram'[c] = nvram[c]
  BY <1>1, <1>5 DEF TypeOK
<1>7. \A i \in 1..(add.n + 1) : nvram'[b].data[i] = t
  <2> SUFFICES ASSUME NEW i \in 1..(add.n + 1) PROVE nvram'[b].data[i] = t
    OBVIOUS
  <2>1. i \in Pieces /\ nvram[b].data \in [Pieces -> Tx \cup {NoTx}]
    BY <1>1, <1>2, ResendListAssumption DEF Pieces, Block
  <2>2. i # add.n + 1 => nvram[b].data[i] = t
    BY <1>1 DEF AddProgress
  <2> QED
    BY <1>4, <2>1, <2>2 DEF Block
<1>8. PendingBlocks = {b} /\ PendingBlocks' = {b} /\ ~nvram[b].used
  BY <1>1, <1>3 DEF PendingBlocks, AddProgress, UsedBlocks
<1>9. /\ UsedBlocks' = UsedBlocks
      /\ UsedBlocksWhole' /\ OneBlockPerId' /\ ConfirmedIsDurable' /\ BlockAccounting'
      /\ NotYetUp'
  BY <1>1, <1>3, <1>5, <1>6, <1>8, WriteToPending
<1>10. TypeOK'
  BY <1>1, <1>3, <1>6 DEF TypeOK
<1>11. AddProgress'
  BY <1>1, <1>2, <1>3, <1>7, <1>8, <1>9, Lengths DEF AddProgress
<1> QED
  BY <1>9, <1>10, <1>11

\* So does the flag of a printed ticket.
LEMMA AddWriteTicketFlagInv == ASSUME NvramObeys, IInv, AddWriteTicketFlag PROVE IInv'
<1> USE DEF IInv
<1> DEFINE b == add.block
           t == add.tx
<1>1. /\ add.pc = "flagging" /\ mode = "up" /\ t \in Tx /\ IdOf[t] \notin DOMAIN list
      /\ b \in Blocks /\ nvram[b] \in Block
      /\ nvram' = [nvram EXCEPT ![b].out = OutOf[t]]
      /\ add' = [add EXCEPT !.pc = "committing"]
      /\ UNCHANGED <<mode, list, freeNv, scan, initialOut, confirmed>>
  BY DEF AddWriteTicketFlag, AddProgress, TypeOK, Add, NvramObeys
<1>2. add'.pc = "committing" /\ add'.tx = t /\ add'.block = b /\ add' \in Add
  BY <1>1 DEF TypeOK, Add, AddPc
<1>3. nvram'[b] = [nvram[b] EXCEPT !.out = OutOf[t]] /\ OutOf[t] \in BOOLEAN
  BY <1>1, ResendListAssumption DEF TypeOK
<1>4. /\ nvram'[b] \in Block /\ nvram'[b].used = nvram[b].used
      /\ nvram'[b].data = nvram[b].data /\ nvram'[b].out = OutOf[t]
  BY <1>1, <1>3 DEF Block
<1>5. nvram' \in [Blocks -> Block] /\ \A c \in Blocks : c # b => nvram'[c] = nvram[c]
  BY <1>1, <1>4 DEF TypeOK
<1>6. PendingBlocks = {b} /\ PendingBlocks' = {b} /\ ~nvram[b].used
  BY <1>1, <1>2 DEF PendingBlocks, AddProgress, UsedBlocks
<1>7. /\ UsedBlocks' = UsedBlocks
      /\ UsedBlocksWhole' /\ OneBlockPerId' /\ ConfirmedIsDurable' /\ BlockAccounting'
      /\ NotYetUp'
  BY <1>1, <1>2, <1>4, <1>5, <1>6, WriteToPending
<1>8. TypeOK'
  BY <1>1, <1>2, <1>5 DEF TypeOK
<1>9. AddProgress'
  BY <1>1, <1>2, <1>4, <1>6, <1>7 DEF AddProgress
<1> QED
  BY <1>7, <1>8, <1>9

\* The mark is set on a block that carries the whole transaction.
LEMMA AddCommitBlockInv == ASSUME NvramObeys, IInv, AddCommitBlock PROVE IInv'
<1> USE DEF IInv
<1> DEFINE b == add.block
           t == add.tx
<1>1. /\ add.pc = "committing" /\ mode = "up" /\ t \in Tx /\ IdOf[t] \notin DOMAIN list
      /\ b \in Blocks /\ nvram[b] \in Block
      /\ nvram' = [nvram EXCEPT ![b].used = TRUE, ![b].len = LenOf[t]]
      /\ add' = [add EXCEPT !.pc = "inserting"]
      /\ UNCHANGED <<mode, list, freeNv, scan, initialOut, confirmed>>
  BY DEF AddCommitBlock, AddProgress, TypeOK, Add, NvramObeys
<1>2. add'.pc = "inserting" /\ add'.tx = t /\ add'.block = b /\ add' \in Add
  BY <1>1 DEF TypeOK, Add, AddPc
<1>3. nvram'[b] = [nvram[b] EXCEPT !.used = TRUE, !.len = LenOf[t]]
  BY <1>1 DEF TypeOK
<1>4. /\ nvram'[b] \in Block /\ nvram'[b].used /\ nvram'[b].len = LenOf[t]
      /\ nvram'[b].data = nvram[b].data /\ nvram'[b].out = nvram[b].out
  <2>1. LenOf[t] \in 0..MaxPieces
    BY <1>1, Lengths, ResendListAssumption
  <2> QED
    BY <1>1, <1>3, <2>1 DEF Block
<1>5. nvram' \in [Blocks -> Block] /\ \A c \in Blocks : c # b => nvram'[c] = nvram[c]
  BY <1>1, <1>4 DEF TypeOK
<1>6. PendingBlocks = {b} /\ PendingBlocks' = {} /\ b \notin UsedBlocks
  BY <1>1, <1>2 DEF PendingBlocks, AddProgress
<1>7. UsedBlocks' = UsedBlocks \cup {b} /\ FreeBlocks' = FreeBlocks \ {b}
  BY <1>1, <1>4, <1>5 DEF UsedBlocks, FreeBlocks
<1>8. Holds(b, t)'
  <2>1. /\ nvram[b].out = OutOf[t]
        /\ \A i \in 1..LenOf[t] : nvram[b].data[i] = t
    BY <1>1 DEF AddProgress
  <2> QED
    BY <1>2, <1>4, <2>1 DEF Holds
<1>9. \A c \in Blocks, u \in Tx : Holds(c, u) => c # b /\ Holds(c, u)'
  BY <1>5, <1>6 DEF Holds, UsedBlocks
<1>10. OwnerOf(b)' = t /\ \A c \in UsedBlocks : OwnerOf(c)' = OwnerOf(c)
  BY <1>1, <1>2, <1>5, <1>6, <1>8, Lengths DEF OwnerOf, Holds, UsedBlocks
<1>11. TypeOK'
  BY <1>1, <1>2, <1>5 DEF TypeOK
<1>12. UsedBlocksWhole'
  BY <1>1, <1>7, <1>8, <1>9 DEF UsedBlocksWhole, UsedBlocks
<1>13. \A c \in UsedBlocks : IdOf[OwnerOf(c)] # IdOf[t]
  <2> SUFFICES ASSUME NEW c \in UsedBlocks PROVE IdOf[OwnerOf(c)] \in DOMAIN list
    BY <1>1
  <2>1. PICK id \in DOMAIN list : c = list[id].block
    BY <1>1 DEF BlockAccounting
  <2>2. PICK u \in Tx : IdOf[u] = id /\ Holds(c, u)
    BY <1>1, <2>1 DEF BlockAccounting
  <2> QED
    BY <2>2, HoldsOwner DEF UsedBlocks
<1>14. OneBlockPerId'
  <2> SUFFICES ASSUME NEW c \in UsedBlocks', NEW d \in UsedBlocks',
                      IdOf[OwnerOf(c)'] = IdOf[OwnerOf(d)']
               PROVE  c = d
    BY DEF OneBlockPerId
  <2>1. CASE c = b \/ d = b
    BY <1>2, <1>7, <1>10, <1>13, <2>1
  <2>2. CASE c # b /\ d # b
    BY <1>7, <1>10, <2>2 DEF OneBlockPerId
  <2> QED
    BY <2>1, <2>2
<1>15. AddProgress' /\ NotYetUp'
  BY <1>1, <1>2, <1>6, <1>8 DEF AddProgress, NotYetUp
<1>16. BlockAccounting'
  <2>1. \A id \in DOMAIN list : list[id].block \in Blocks
    BY DEF TypeOK, Item
  <2>2. /\ {freeNv[i] : i \in DOMAIN freeNv} = FreeBlocks \ {b}
        /\ UsedBlocks = {list[id].block : id \in DOMAIN list}
    BY <1>1, <1>6 DEF BlockAccounting
  <2> QED
    BY <1>1, <1>2, <1>6, <1>7, <1>9, <2>1, <2>2 DEF BlockAccounting
<1>17. ConfirmedIsDurable'
  BY <1>1, <1>9 DEF ConfirmedIsDurable, Held
<1> QED
  BY <1>11, <1>12, <1>14, <1>15, <1>16, <1>17

\* The entry made is the one of the block just marked.
LEMMA AddInsertItemInv == ASSUME IInv, AddInsertItem PROVE IInv'
<1> USE DEF IInv
<1> DEFINE b == add.block
           t == add.tx
           item == [body |-> [i \in 1..LenOf[t] |-> t], out |-> OutOf[t], block |-> b]
<1>1. /\ add.pc = "inserting" /\ mode = "up" /\ t \in Tx /\ IdOf[t] \notin DOMAIN list
      /\ b \in Blocks /\ Holds(b, t)
      /\ list' = [id \in DOMAIN list \cup {IdOf[t]} |-> IF id = IdOf[t] THEN item ELSE list[id]]
      /\ confirmed' = confirmed \cup {t} /\ add' = Idle
      /\ UNCHANGED <<mode, nvram, freeNv, scan, initialOut>>
  BY DEF AddInsertItem, AddProgress, TypeOK, Add
<1>2. UsedBlocks' = UsedBlocks /\ FreeBlocks' = FreeBlocks
  BY <1>1 DEF UsedBlocks, FreeBlocks
<1>3. PendingBlocks = {} /\ PendingBlocks' = {} /\ add'.pc = "idle"
  BY <1>1 DEF PendingBlocks, Idle
<1>4. item \in Item /\ item.block = b /\ item.body[1] = t /\ IdOf[t] \in Id
  <2>1. item.body \in [1..LenOf[t] -> Tx \cup {NoTx}] /\ LenOf[t] \in 0..MaxPieces
    BY <1>1, Lengths, ResendListAssumption
  <2>2. item.body[1] = t
    BY <1>1, Lengths
  <2> QED
    BY <1>1, <2>1, <2>2, ResendListAssumption DEF Item
<1>5. /\ DOMAIN list' = DOMAIN list \cup {IdOf[t]}
      /\ list'[IdOf[t]] = item
      /\ \A id \in DOMAIN list : list'[id] = list[id]
  BY <1>1
<1> HIDE DEF item
<1>6. Idle \in Add
  BY ResendListAssumption DEF Idle, Add, AddPc, Blocks
<1>7. TypeOK'
  BY <1>1, <1>4, <1>5, <1>6 DEF TypeOK
<1>8. UsedBlocksWhole' /\ OneBlockPerId'
  BY <1>1, <1>2 DEF UsedBlocksWhole, OneBlockPerId, OwnerOf, Holds
<1>9. ConfirmedIsDurable'
  BY <1>1 DEF ConfirmedIsDurable, Held, Holds
<1>10. AddProgress' /\ NotYetUp'
  BY <1>1, <1>3 DEF AddProgress, NotYetUp
<1>11. BlockAccounting'
  <2>1. /\ UsedBlocks = {list[id].block : id \in DOMAIN list} \cup {b}
        /\ \A i, j \in DOMAIN list : list[i].block = list[j].block => i = j
    BY <1>1 DEF BlockAccounting
  <2>2. \A id \in DOMAIN list : list[id].block # b
    <3> SUFFICES ASSUME NEW id \in DOMAIN list, list[id].block = b PROVE FALSE
      OBVIOUS
    <3>1. PICK u \in Tx : IdOf[u] = id /\ Holds(b, u)
      BY <1>1 DEF BlockAccounting
    <3>2. u = t
      BY <1>1, <3>1, HoldsOwner
    <3> QED
      BY <1>1, <3>1, <3>2
  <2>3. UsedBlocks' = {list'[id].block : id \in DOMAIN list'}
    BY <1>2, <1>4, <1>5, <2>1
  <2>4. \A i, j \in DOMAIN list' : list'[i].block = list'[j].block => i = j
    BY <1>4, <1>5, <2>1, <2>2
  <2>5. \A id \in DOMAIN list' :
            \E u \in Tx : IdOf[u] = id /\ list'[id].body[1] = u /\ Holds(list[id].block, u)'
    BY <1>1, <1>4, <1>5 DEF BlockAccounting, Holds
  <2>6. /\ \A i, j \in DOMAIN freeNv' : freeNv'[i] = freeNv'[j] => i = j
        /\ {freeNv'[i] : i \in DOMAIN freeNv'} = FreeBlocks' \ PendingBlocks'
    BY <1>1, <1>2, <1>3 DEF BlockAccounting
  <2>7. UsedBlocks' = {list'[id].block : id \in DOMAIN list'}
                          \cup (IF add'.pc = "inserting" THEN {add'.block} ELSE {})
    BY <1>3, <2>3
  <2> QED
    BY <2>4, <2>5, <2>6, <2>7 DEF BlockAccounting
<1> QED
  BY <1>7, <1>8, <1>9, <1>10, <1>11

-----------------------------------------------------------------------------
(* RemoveTransaction *)

\* A removal gives the block of its entry back, and no other.
LEMMA RemoveTransactionInv ==
  ASSUME NvramObeys, IInv, NEW id \in Id, RemoveTransaction(id)
  PROVE  IInv'
<1> USE DEF IInv
<1> DEFINE b == list[id].block
           t == list[id].body[1]
<1>1. /\ mode = "up" /\ add.pc \in {"idle", "checked"} /\ id \in DOMAIN list
      /\ nvram' = [nvram EXCEPT ![b].used = FALSE]
      /\ freeNv' = Append(freeNv, b)
      /\ list' = [other \in DOMAIN list \ {id} |-> list[other]]
      /\ confirmed' = confirmed \ {t}
      /\ UNCHANGED <<mode, add, scan, initialOut>>
  BY DEF RemoveTransaction, Locked, TypeOK, Add, NvramObeys
<1>2. b \in Blocks /\ nvram[b] \in Block /\ t \in Tx /\ IdOf[t] = id /\ Holds(b, t)
  BY <1>1 DEF TypeOK, Item, BlockAccounting
<1>3. nvram'[b] = [nvram[b] EXCEPT !.used = FALSE]
  BY <1>1, <1>2 DEF TypeOK
<1>4. nvram'[b] \in Block /\ ~nvram'[b].used
  BY <1>2, <1>3 DEF Block
<1>5. nvram' \in [Blocks -> Block] /\ \A c \in Blocks : c # b => nvram'[c] = nvram[c]
  BY <1>1, <1>4 DEF TypeOK
<1>6. PendingBlocks = {} /\ PendingBlocks' = {}
  BY <1>1 DEF PendingBlocks
<1>7. /\ b \in UsedBlocks
      /\ UsedBlocks' = UsedBlocks \ {b} /\ FreeBlocks' = FreeBlocks \cup {b}
  BY <1>2, <1>4, <1>5 DEF UsedBlocks, FreeBlocks, Holds
<1>8. \A c \in Blocks, u \in Tx : Holds(c, u) /\ c # b => Holds(c, u)'
  BY <1>5 DEF Holds
<1>9. /\ DOMAIN list' = DOMAIN list \ {id}
      /\ \A other \in DOMAIN list' : list'[other] = list[other]
  BY <1>1
<1>10. TypeOK'
  BY <1>1, <1>2, <1>5, <1>9 DEF TypeOK
<1>11. UsedBlocksWhole' /\ OneBlockPerId'
  BY <1>5, <1>7, <1>8 DEF UsedBlocksWhole, OneBlockPerId, OwnerOf, UsedBlocks
<1>12. ConfirmedIsDurable'
  <2> SUFFICES ASSUME NEW u \in confirmed, u # t
               PROVE  u \in Tx /\ \E c \in Blocks : Holds(c, u)'
    BY <1>1 DEF ConfirmedIsDurable, Held
  <2>1. PICK c \in Blocks : Holds(c, u)
    BY DEF ConfirmedIsDurable, Held
  <2>2. u \in Tx
    BY DEF TypeOK
  <2>3. c # b
    BY <1>2, <2>1, <2>2, HoldsOwner
  <2> QED
    BY <1>8, <2>1, <2>2, <2>3
<1>13. AddProgress'
  <2>1. add.pc = "checked" =>
          IsFiniteSet(DOMAIN list') /\ Cardinality(DOMAIN list') < NumBlocks
    <3> SUFFICES ASSUME add.pc = "checked"
                 PROVE  IsFiniteSet(DOMAIN list') /\ Cardinality(DOMAIN list') < NumBlocks
      OBVIOUS
    <3>1. IsFiniteSet(DOMAIN list) /\ Cardinality(DOMAIN list) < NumBlocks
      BY DEF AddProgress
    <3>2. Cardinality(DOMAIN list) \in Nat
      BY <1>1, ListFinite
    <3>3. /\ IsFiniteSet(DOMAIN list \ {id})
          /\ Cardinality(DOMAIN list \ {id}) = Cardinality(DOMAIN list) - 1
      BY <1>1, <3>1, FS_RemoveElement
    <3> QED
      BY <1>1, <1>9, <3>1, <3>2, <3>3, ResendListAssumption
  <2> QED
    BY <1>1, <1>6, <1>9, <2>1 DEF AddProgress
<1>14. NotYetUp'
  BY <1>1 DEF NotYetUp
<1>15. BlockAccounting'
  <2>1. /\ \A i, j \in DOMAIN list : list[i].block = list[j].block => i = j
        /\ \A i, j \in DOMAIN freeNv : freeNv[i] = freeNv[j] => i = j
        /\ {freeNv[i] : i \in DOMAIN freeNv} = FreeBlocks
        /\ UsedBlocks = {list[i].block : i \in DOMAIN list}
    BY <1>1, <1>6 DEF BlockAccounting
  <2>2. \A i \in DOMAIN list' : list'[i].block \in Blocks /\ list'[i].block # b
    BY <1>1, <1>9, <2>1 DEF TypeOK, Item
  <2>3. \A i \in DOMAIN list' :
            \E u \in Tx : IdOf[u] = i /\ list'[i].body[1] = u /\ Holds(list[i].block, u)'
    BY <1>1, <1>8, <1>9, <2>2 DEF BlockAccounting
  <2>4. \A i, j \in DOMAIN list' : list'[i].block = list'[j].block => i = j
    BY <1>9, <2>1
  <2>5. /\ DOMAIN freeNv' = DOMAIN freeNv \cup {Len(freeNv) + 1}
        /\ Len(freeNv) + 1 \notin DOMAIN freeNv
        /\ \A i \in DOMAIN freeNv : freeNv'[i] = freeNv[i]
        /\ freeNv'[Len(freeNv) + 1] = b
    BY <1>1, <1>2 DEF TypeOK
  <2>6. b \notin FreeBlocks
    BY <1>7 DEF FreeBlocks
  <2>7. /\ \A i, j \in DOMAIN freeNv' : freeNv'[i] = freeNv'[j] => i = j
        /\ {freeNv'[i] : i \in DOMAIN freeNv'} = FreeBlocks' \ PendingBlocks'
    BY <1>6, <1>7, <2>1, <2>5, <2>6
  <2>8. UsedBlocks' = {list'[i].block : i \in DOMAIN list'}
                          \cup (IF add'.pc = "inserting" THEN {add'.block} ELSE {})
    BY <1>1, <1>7, <1>9, <2>1, <2>2
  <2> QED
    BY <2>3, <2>4, <2>7, <2>8 DEF BlockAccounting
<1> QED
  BY <1>10, <1>11, <1>12, <1>13, <1>14, <1>15

-----------------------------------------------------------------------------
(* The theorems *)

\* Nothing changes.
LEMMA StutterInv == ASSUME IInv, UNCHANGED vars PROVE IInv'
BY DEF IInv, vars, TypeOK, UsedBlocksWhole, OneBlockPerId, AddProgress, NotYetUp,
       BlockAccounting, ConfirmedIsDurable, Held, Holds, OwnerOf, UsedBlocks, FreeBlocks,
       PendingBlocks

\* Every step keeps the inductive invariant.
LEMMA NextInv == ASSUME NvramObeys, IInv, [Next]_vars PROVE IInv'
<1>1. CASE UNCHANGED vars
  BY <1>1, StutterInv
<1>2. CASE BuildFromNvram
  BY <1>2, BuildFromNvramInv
<1>3. CASE BeginClearing
  BY <1>3, BeginClearingInv
<1>4. CASE ClearBlock
  BY <1>4, ClearBlockInv
<1>5. CASE EndClearing
  BY <1>5, EndClearingInv
<1>6. CASE \E t \in Tx : AddCheckSize(t)
  BY <1>6, AddCheckSizeInv
<1>7. CASE AddTakeBlock
  BY <1>7, AddTakeBlockInv
<1>8. CASE AddWritePiece
  BY <1>8, AddWritePieceInv
<1>9. CASE AddWriteTicketFlag
  BY <1>9, AddWriteTicketFlagInv
<1>10. CASE AddCommitBlock
  BY <1>10, AddCommitBlockInv
<1>11. CASE AddInsertItem
  BY <1>11, AddInsertItemInv
<1>12. CASE \E id \in Id : RemoveTransaction(id)
  BY <1>12, RemoveTransactionInv
<1>13. CASE Crash
  BY <1>13, CrashInv
<1> QED
  BY <1>1, <1>2, <1>3, <1>4, <1>5, <1>6, <1>7, <1>8, <1>9, <1>10, <1>11, <1>12, <1>13 DEF Next

\* IInv holds in every reachable state, if the NVRAM does what it is told.
THEOREM Invariance == ASSUME NvramObeys PROVE Spec => []IInv
<1>1. Init => IInv
  BY InitInv
<1>2. IInv /\ [Next]_vars => IInv'
  BY NextInv
<1> QED
  BY <1>1, <1>2, PTL DEF Spec

\* The type of every variable, in every reachable state.
THEOREM TypeCorrect == ASSUME NvramObeys PROVE Spec => []TypeOK
<1>1. IInv => TypeOK
  BY DEF IInv
<1> QED
  BY <1>1, Invariance, PTL

\* Whenever the power fails, every block marked used is one whole transaction.
THEOREM NoTornTransaction == ASSUME NvramObeys PROVE Spec => []UsedBlocksWhole
<1>1. IInv => UsedBlocksWhole
  BY DEF IInv
<1> QED
  BY <1>1, Invariance, PTL

\* No block of the NVRAM is lost, owned twice, or owned by the wrong entry.
THEOREM NoBlockLost == ASSUME NvramObeys PROVE Spec => []BlockAccounting
<1>1. IInv => BlockAccounting
  BY DEF IInv
<1> QED
  BY <1>1, Invariance, PTL

\* What AddTransaction answered true for survives every power failure until it
\* is removed.
THEOREM StoredIsStored == ASSUME NvramObeys PROVE Spec => []ConfirmedIsDurable
<1>1. IInv => ConfirmedIsDurable
  BY DEF IInv
<1> QED
  BY <1>1, Invariance, PTL

-----------------------------------------------------------------------------
(* The list implements TransactionStore *)

\* A block that is not in use carries no transaction, so a step that leaves
\* every used block alone leaves the transactions held alone.
LEMMA HeldByUsedBlocks ==
  ASSUME UsedBlocks' = UsedBlocks,
         \A b \in UsedBlocks : nvram'[b] = nvram[b]
  PROVE  Held' = Held
<1>1. \A b \in Blocks, t \in Tx : Holds(b, t)' <=> Holds(b, t)
  BY DEF Holds, UsedBlocks
<1> QED
  BY <1>1 DEF Held

\* Marking the block adds its transaction to those held, and no other.
LEMMA CommitHeld ==
  ASSUME NvramObeys, IInv, IInv', AddCommitBlock
  PROVE  add.tx \in Tx /\ Held' = Held \cup {add.tx}
<1> DEFINE b == add.block
<1>1. /\ add.pc = "committing" /\ add.tx \in Tx /\ b \in Blocks /\ ~nvram[b].used
      /\ add'.pc = "inserting" /\ add'.tx = add.tx /\ add'.block = b
      /\ nvram' = [nvram EXCEPT ![b].used = TRUE, ![b].len = LenOf[add.tx]]
  BY DEF AddCommitBlock, NvramObeys, IInv, AddProgress, PendingBlocks, UsedBlocks, TypeOK, Add
<1>2. \A c \in Blocks : c # b => nvram'[c] = nvram[c]
  BY <1>1 DEF IInv, TypeOK
<1>3. Holds(b, add.tx)'
  BY <1>1 DEF IInv, AddProgress
<1>4. \A c \in Blocks, u \in Tx : Holds(c, u)' <=> Holds(c, u) \/ (c = b /\ u = add.tx)
  <2> SUFFICES ASSUME NEW c \in Blocks, NEW u \in Tx
               PROVE  Holds(c, u)' <=> Holds(c, u) \/ (c = b /\ u = add.tx)
    OBVIOUS
  <2>1. CASE c # b
    BY <1>2, <2>1 DEF Holds
  <2>2. CASE c = b
    <3>1. ~Holds(c, u)
      BY <1>1, <2>2 DEF Holds
    <3>2. nvram'[b].data[1] = add.tx
      <4>1. 1 \in 1..LenOf[add.tx]
        BY <1>1, Lengths
      <4> QED
        BY <1>1, <1>3, <4>1 DEF Holds
    <3>3. Holds(b, u)' => u = add.tx
      <4>1. 1 \in 1..LenOf[u] /\ add'.block = b
        BY <1>1, Lengths
      <4> QED
        BY <3>2, <4>1 DEF Holds
    <3> QED
      BY <1>1, <1>3, <2>2, <3>1, <3>3
  <2> QED
    BY <2>1, <2>2
<1> QED
  BY <1>1, <1>4 DEF Held

\* Marking a used block unused releases its transaction and no other.
LEMMA UnmarkHeld ==
  ASSUME IInv, NEW b \in UsedBlocks, nvram' = [nvram EXCEPT ![b].used = FALSE]
  PROVE  OwnerOf(b) \in Held /\ Held' = Held \ {OwnerOf(b)}
<1>1. b \in Blocks /\ OwnerOf(b) \in Tx /\ Holds(b, OwnerOf(b))
  BY BuiltItem DEF IInv
<1>2. nvram[b] \in Block /\ nvram'[b] = [nvram[b] EXCEPT !.used = FALSE]
  BY <1>1 DEF IInv, TypeOK
<1>3. ~nvram'[b].used /\ \A c \in Blocks : c # b => nvram'[c] = nvram[c]
  BY <1>1, <1>2 DEF IInv, TypeOK, Block
<1>4. \A c \in Blocks, u \in Tx :
         (nvram'[c].used /\ Holds(c, u)) <=> (Holds(c, u) /\ u # OwnerOf(b))
  <2> SUFFICES ASSUME NEW c \in Blocks, NEW u \in Tx, Holds(c, u)
               PROVE  nvram'[c].used <=> u # OwnerOf(b)
    OBVIOUS
  <2>1. OwnerOf(c) = u /\ c \in UsedBlocks
    BY HoldsOwner DEF Holds, UsedBlocks
  <2>2. u = OwnerOf(b) => c = b
    BY <2>1 DEF IInv, OneBlockPerId
  <2> QED
    BY <1>3, <2>1, <2>2 DEF Holds
<1>5. Held' = {u \in Tx : \E c \in Blocks : nvram'[c].used /\ Holds(c, u)}
  BY <1>3 DEF Held, Holds
<1> QED
  BY <1>1, <1>4, <1>5 DEF Held

\* Each step of the list is one of TransactionStore's or shows nothing.
LEMMA StoreStep ==
  ASSUME NvramObeys, IInv, IInv', [Next]_vars
  PROVE  [Store!StoreNext]_(Store!storeVars)
<1> SUFFICES Store!StoreNext \/ UNCHANGED <<mode, Held, confirmed>>
  BY DEF Store!storeVars
<1>1. ASSUME UNCHANGED <<nvram, confirmed>>, mode' \in {"down", "clearing", "up"}
      PROVE  Store!StoreNext
  <2>1. Held' = Held
    BY <1>1 DEF Held, Holds
  <2> QED
    BY <1>1, <2>1 DEF Store!StoreNext, Store!ChangePhase
<1>2. CASE UNCHANGED vars
  BY <1>2 DEF vars, Held, Holds
<1>3. CASE BuildFromNvram \/ BeginClearing \/ EndClearing \/ Crash
  BY <1>1, <1>3 DEF BuildFromNvram, BeginClearing, EndClearing, Crash
<1>4. CASE ClearBlock
  <2>1. /\ scan \in Blocks /\ mode = "clearing" /\ mode' = "clearing"
        /\ nvram' = [nvram EXCEPT ![scan].used = FALSE]
    <3>1. /\ mode = "clearing" /\ mode' = "clearing" /\ scan <= NumBlocks
          /\ nvram' = [nvram EXCEPT ![scan].used = FALSE]
      BY <1>4 DEF ClearBlock, NvramObeys
    <3> QED
      BY <3>1, ResendListAssumption DEF IInv, TypeOK, Blocks
  <2>2. CASE scan \in UsedBlocks
    <3>1. confirmed' = confirmed \ {OwnerOf(scan)}
      BY <1>4, <2>2 DEF ClearBlock, UsedBlocks
    <3>2. OwnerOf(scan) \in Held /\ Held' = Held \ {OwnerOf(scan)} /\ OwnerOf(scan) \in Tx
      BY <2>1, <2>2, UnmarkHeld DEF Held
    <3> QED
      BY <2>1, <3>1, <3>2 DEF Store!StoreNext, Store!Wipe
  <2>3. CASE scan \notin UsedBlocks
    <3>1. confirmed' = confirmed
      BY <1>4, <2>1, <2>3 DEF ClearBlock, UsedBlocks
    <3>2. UsedBlocks' = UsedBlocks /\ \A c \in UsedBlocks : nvram'[c] = nvram[c]
      <4>1. \A c \in Blocks : c # scan => nvram'[c] = nvram[c]
        BY <2>1 DEF IInv, TypeOK
      <4>2. ~nvram'[scan].used
        BY <2>1 DEF IInv, TypeOK, Block
      <4> QED
        BY <2>1, <2>3, <4>1, <4>2 DEF UsedBlocks
    <3> QED
      BY <2>1, <3>1, <3>2, HeldByUsedBlocks
  <2> QED
    BY <2>2, <2>3
<1>5. CASE (\E t \in Tx : AddCheckSize(t)) \/ AddTakeBlock
  <2>1. UNCHANGED <<mode, nvram, confirmed>>
    BY <1>5, RoomMeansFreeBlock DEF AddCheckSize, AddTakeBlock
  <2> QED
    BY <2>1 DEF Held, Holds
<1>6. CASE AddWritePiece \/ AddWriteTicketFlag
  <2>1. /\ UNCHANGED <<mode, confirmed>>
        /\ add.block \in Blocks /\ add.block \notin UsedBlocks
        /\ \A c \in Blocks : c # add.block => nvram'[c] = nvram[c]
        /\ nvram'[add.block].used = nvram[add.block].used
    BY <1>6 DEF AddWritePiece, AddWriteTicketFlag, NvramObeys, IInv, TypeOK, Add, Block,
                AddProgress, PendingBlocks
  <2>2. UsedBlocks' = UsedBlocks /\ \A c \in UsedBlocks : nvram'[c] = nvram[c]
    BY <2>1 DEF UsedBlocks
  <2> QED
    BY <2>1, <2>2, HeldByUsedBlocks
<1>7. CASE AddCommitBlock
  <2>1. mode = "up" /\ mode' = "up" /\ confirmed' = confirmed /\ add.tx \notin Held
    <3>1. mode = "up" /\ mode' = "up" /\ confirmed' = confirmed
      BY <1>7 DEF AddCommitBlock, IInv, AddProgress
    <3>2. ASSUME add.tx \in Held PROVE FALSE
      <4>1. PICK c \in Blocks : Holds(c, add.tx)
        BY <3>2 DEF Held
      <4>2. /\ add.pc = "committing" /\ add.tx \in Tx
            /\ IdOf[add.tx] \notin DOMAIN list
            /\ UsedBlocks = {list[id].block : id \in DOMAIN list}
        BY <1>7, <3>1 DEF AddCommitBlock, IInv, AddProgress, BlockAccounting
      <4>3. PICK id \in DOMAIN list : list[id].block = c
        BY <4>1, <4>2 DEF UsedBlocks, Holds
      <4>4. PICK u \in Tx : IdOf[u] = id /\ Holds(c, u)
        BY <3>1, <4>3 DEF IInv, BlockAccounting
      <4>5. u = add.tx
        BY <4>1, <4>2, <4>4, HoldsOwner
      <4> QED
        BY <4>2, <4>4, <4>5
    <3> QED
      BY <3>1, <3>2
  <2> QED
    BY <1>7, <2>1, CommitHeld DEF Store!StoreNext, Store!Accept
<1>8. CASE AddInsertItem
  <2>1. /\ mode = "up" /\ mode' = "up" /\ nvram' = nvram /\ add.tx \in Tx
        /\ confirmed' = confirmed \cup {add.tx}
        /\ add.block \in Blocks /\ Holds(add.block, add.tx)
    BY <1>8 DEF AddInsertItem, IInv, AddProgress, TypeOK, Add
  <2>2. add.tx \in Held /\ Held' = Held
    BY <2>1 DEF Held, Holds
  <2> QED
    BY <2>1, <2>2 DEF Store!StoreNext, Store!Confirm
<1>9. CASE \E id \in Id : RemoveTransaction(id)
  <2>1. PICK id \in Id : RemoveTransaction(id)
    BY <1>9
  <2> DEFINE b == list[id].block
             t == list[id].body[1]
  <2>2. /\ mode = "up" /\ mode' = "up" /\ id \in DOMAIN list
        /\ nvram' = [nvram EXCEPT ![b].used = FALSE] /\ confirmed' = confirmed \ {t}
    BY <2>1 DEF RemoveTransaction, NvramObeys
  <2>3. b \in Blocks /\ t \in Tx /\ Holds(b, t)
    BY <2>2 DEF IInv, BlockAccounting, TypeOK, Item
  <2>4. b \in UsedBlocks /\ OwnerOf(b) = t
    BY <2>3, HoldsOwner DEF UsedBlocks, Holds
  <2>5. t \in Held /\ Held' = Held \ {t}
    BY <2>2, <2>4, UnmarkHeld
  <2> QED
    BY <2>2, <2>3, <2>5 DEF Store!StoreNext, Store!Release
<1> QED
  BY <1>2, <1>3, <1>4, <1>5, <1>6, <1>7, <1>8, <1>9 DEF Next

\* ResendList implements TransactionStore: transactions come and go as a whole.
THEOREM ImplementsStore == ASSUME NvramObeys PROVE Spec => StoreSpec
<1>1. Init => Store!StoreInit
  <2> SUFFICES ASSUME Init PROVE Store!StoreInit
    OBVIOUS
  <2>1. \A b \in Blocks : ~nvram[b].used
    BY DEF Init, EmptyBlock
  <2>2. Held = {}
    BY <2>1 DEF Held, Holds
  <2> QED
    BY <2>2 DEF Init, Store!StoreInit
<1>2. IInv /\ IInv' /\ [Next]_vars => [Store!StoreNext]_(Store!storeVars)
  BY StoreStep
<1> QED
  BY <1>1, <1>2, Invariance, PTL DEF Spec, StoreSpec, Store!StoreSpec

-----------------------------------------------------------------------------
(* The number of printed tickets *)

\* The used blocks of printed tickets are as many as the entries made of them.
LEMMA CountAtBoot ==
  ASSUME IInv, BuildFromNvram
  PROVE  initialOut' = Cardinality({id \in DOMAIN list' : list'[id].out})
<1> DEFINE S == {b \in UsedBlocks : nvram[b].out}
           T == {id \in DOMAIN list' : list'[id].out}
           f == [b \in S |-> IdOf[OwnerOf(b)]]
<1>1. /\ DOMAIN list' = {IdOf[OwnerOf(b)] : b \in UsedBlocks}
      /\ \A b \in UsedBlocks : list'[IdOf[OwnerOf(b)]] = ItemOf(b)
      /\ initialOut' = Cardinality(S)
  BY LastBlockIsTheBlock DEF BuildFromNvram, IInv
<1>2. \A b \in UsedBlocks : list'[IdOf[OwnerOf(b)]].out = nvram[b].out
  <2>1. \A b : ItemOf(b).out = nvram[b].out
    BY DEF ItemOf
  <2> QED
    BY <1>1, <2>1
<1>3. f \in [S -> T]
  BY <1>1, <1>2
<1>4. \A b, c \in S : f[b] = f[c] => b = c
  BY DEF IInv, OneBlockPerId
<1>5. \A id \in T : \E b \in S : f[b] = id
  BY <1>1, <1>2
<1>6. IsFiniteSet(S)
  BY BlocksFinite, FS_Subset DEF UsedBlocks
<1> HIDE DEF S, T, f
<1>7. f \in Bijection(S, T)
  BY <1>3, <1>4, <1>5 DEF Bijection, Injection, Surjection, IsInjective
<1>8. Cardinality(T) = Cardinality(S)
  BY <1>6, <1>7, FS_Bijection DEF ExistsBijection
<1> QED
  BY <1>1, <1>8 DEF T

\* The count BuildYourself reports is that of the list it builds.
THEOREM BootCountIsExact == ASSUME NvramObeys PROVE Spec => TicketOutCountAtBoot
<1> DEFINE Exact == mode # "up" /\ mode' = "up" =>
                      initialOut' = Cardinality({id \in DOMAIN list' : list'[id].out})
<1>1. ASSUME IInv, [Next]_vars PROVE [Exact]_vars
  <2> SUFFICES ASSUME mode # "up", mode' = "up", Next
               PROVE  initialOut' = Cardinality({id \in DOMAIN list' : list'[id].out})
    BY <1>1
  <2>1. BuildFromNvram \/ EndClearing
    BY <1>1 DEF Next, BeginClearing, ClearBlock, AddCheckSize, AddTakeBlock, AddWritePiece,
                AddWriteTicketFlag, AddCommitBlock, AddInsertItem, RemoveTransaction, Crash,
                IInv, AddProgress
  <2>2. CASE BuildFromNvram
    BY <1>1, <2>2, CountAtBoot
  <2>3. CASE EndClearing
    <3>1. DOMAIN list' = {} /\ initialOut' = 0
      BY <1>1, <2>3 DEF EndClearing, IInv, NotYetUp
    <3> QED
      BY <3>1, FS_EmptySet
  <2> QED
    BY <2>1, <2>2, <2>3
<1> QED
  BY <1>1, Invariance, PTL DEF Spec, TicketOutCountAtBoot

=============================================================================
