----------------------------- MODULE FreeStore -----------------------------
(***************************************************************************)
(* FreeStore<Size, StorageType>: slots of one size, cut from a storage one *)
(* after the other and, once deallocated, reused last in, first out.  The  *)
(* free list lives in the freed slots themselves: the first word of each   *)
(* holds the address of the next.                                          *)
(*                                                                         *)
(* A slot is known by its index in the storage.  A FixedSizeStorage is one *)
(* block of OBJECTS_PER_BLOCK slots; a BlockListStorage asks the system    *)
(* for another block when it needs one and may be refused                  *)
(* (std::bad_alloc).  Memory outside the storage is Elsewhere.             *)
(*                                                                         *)
(* Clients deallocate only what they hold.                                 *)
(***************************************************************************)
EXTENDS Integers, Sequences, FiniteSets

CONSTANTS
  StorageTypes,      (* the kinds of storage the store may be made with    *)
  Size,              (* sizeof(T)                                          *)
  StorageSize,       (* the bytes a block may have: MaxSize, BlockSize     *)
  PointerSize,       (* sizeof(void* )                                     *)
  Elsewhere,         (* addresses outside the storage                      *)
  NULL,
  ClientData,        (* a first word that a client wrote                   *)
  MaxLast,           (* bound: how far mLast is followed                   *)
  MaxRefusals        (* bound: how often the system refuses a block        *)

(* Definitions named Bug... are what the one they precede could have been  *)
(* by mistake: the properties are tested against them.                     *)
BugObjectSizeUnrounded == Size

(* A slot has room for an object and for a link, aligned for both.         *)
OBJECT_SIZE == ((Size + PointerSize - 1) \div PointerSize) * PointerSize
OBJECTS_PER_BLOCK == StorageSize \div OBJECT_SIZE
BLOCK_SIZE == OBJECTS_PER_BLOCK * OBJECT_SIZE

(* A BlockListStorage whose blocks hold no object divides by zero.         *)
ASSUME ConstantsAssumption ==
  /\ StorageTypes \subseteq {"FixedSizeStorage", "BlockListStorage"}
  /\ Size \in Nat \ {0} /\ PointerSize \in Nat \ {0} /\ StorageSize \in Nat
  /\ "BlockListStorage" \in StorageTypes => StorageSize >= OBJECT_SIZE
  /\ MaxLast \in Nat /\ MaxRefusals \in Nat
  /\ Elsewhere \cap Nat = {} /\ NULL \notin Nat \cup Elsewhere
  /\ ClientData \notin Nat \cup Elsewhere \cup {NULL}

VARIABLES
  storageType,       (* StorageType                                        *)
  mFreeStore,        (* head of the free list, a slot or NULL              *)
  mLast,             (* the next index to ask the storage for              *)
  blocks,            (* mBlocks.size(); 1 for a fixed storage              *)
  word,              (* the first word of the memory at every address      *)
  undefined,         (* memory past the last block was used as a block     *)
  held,              (* history: the slots clients hold                    *)
  freed,             (* history: the slots to reuse, the next one first    *)
  skipped,           (* history: the indices asked for in vain             *)
  refusals           (* history: how often a block was refused             *)

vars == <<storageType, mFreeStore, mLast, blocks, word, undefined, held, freed, skipped, refusals>>

-----------------------------------------------------------------------------
Slot == 0 .. MaxLast - 1
Address == Slot \cup Elsewhere
Words == Address \cup {NULL, ClientData}

Growable == storageType = "BlockListStorage"
Capacity == blocks * OBJECTS_PER_BLOCK

(* The constructors zero the memory of a block. *)
ZeroedMemory == [a \in Address |-> NULL]

(* The store as get() makes it. *)
Init ==
  /\ storageType \in StorageTypes
  /\ mFreeStore = NULL
  /\ mLast = 0
  /\ blocks = 1
  /\ word = ZeroedMemory
  /\ undefined = FALSE
  /\ held = {}
  /\ freed = <<>>
  /\ skipped = {}
  /\ refusals = 0

-----------------------------------------------------------------------------
(* Storage. *)

Block(index) == index \div OBJECTS_PER_BLOCK
Offset(index) == (index % OBJECTS_PER_BLOCK) * OBJECT_SIZE

(* operator[] that grows before the last slot is used. *)
BugBlocksWantedEarly(index) ==
  IF ~Growable THEN 0 ELSE IF Block(index + 1) >= blocks THEN 1 ELSE 0

(* operator[] that grows only when it is past the next block already.      *)
BugBlocksWantedLate(index) ==
  IF Growable /\ Block(index) > blocks THEN 1 ELSE 0

(* How many blocks operator[] adds.  One if the index is in the next one;  *)
(* if it is further, its loop compares i with a distance that shrinks as i *)
(* grows, and stops half way (rounded up).                                 *)
BlocksWanted(index) ==
  IF ~Growable \/ Block(index) < blocks THEN 0
  ELSE IF Block(index) = blocks THEN 1
  ELSE (Block(index) - blocks + 1) \div 2

BugOutOfBoundsLate(index) == ~Growable /\ index > OBJECTS_PER_BLOCK
BugOutOfBoundsEarly(index) == ~Growable /\ index >= OBJECTS_PER_BLOCK - 1

(* FixedSizeStorage's bound; each block of a BlockListStorage is one, and  *)
(* the index within it is always below the bound.                          *)
OutOfBounds(index) == ~Growable /\ index >= OBJECTS_PER_BLOCK

-----------------------------------------------------------------------------
(* Operations. *)

(* allocate, from the free list. *)
allocateFreed ==
  /\ ~undefined
  /\ mFreeStore # NULL
  /\ mFreeStore' = word[mFreeStore]
  /\ held' = held \cup {mFreeStore}
  /\ freed' = Tail(freed)
  /\ UNCHANGED <<storageType, mLast, blocks, word, undefined, skipped, refusals>>

BugLastKept == mLast

(* `mLast++`, whether or not the storage then throws. *)
NextLast == mLast + 1

(* allocate, from the storage. *)
allocateFresh ==
  /\ ~undefined
  /\ mFreeStore = NULL
  /\ mLast < MaxLast
  /\ ~OutOfBounds(mLast)
  /\ blocks' = blocks + BlocksWanted(mLast)
  /\ ~Growable \/ Block(mLast) < blocks'
  /\ mLast' = NextLast
  /\ held' = held \cup {mLast}
  /\ UNCHANGED <<storageType, mFreeStore, word, undefined, freed, skipped, refusals>>

(* allocate throws: `mStorage[mLast++]` has moved mLast by then, and the   *)
(* blocks added before the refused one stay.                               *)
allocateThrows ==
  /\ ~undefined
  /\ mFreeStore = NULL
  /\ mLast < MaxLast
  /\ \/ /\ OutOfBounds(mLast)
        /\ UNCHANGED <<blocks, refusals>>
     \/ /\ refusals < MaxRefusals
        /\ \E added \in 0 .. BlocksWanted(mLast) - 1 : blocks' = blocks + added
        /\ refusals' = refusals + 1
  /\ mLast' = NextLast
  /\ skipped' = skipped \cup {mLast}
  /\ UNCHANGED <<storageType, mFreeStore, word, undefined, held, freed>>

(* operator[] has added its blocks and still takes one past the last: the  *)
(* program goes on with whatever is there.                                 *)
allocateUndefined ==
  /\ ~undefined
  /\ mFreeStore = NULL
  /\ mLast < MaxLast
  /\ Growable /\ Block(mLast) >= blocks + BlocksWanted(mLast)
  /\ undefined' = TRUE
  /\ UNCHANGED <<storageType, mFreeStore, mLast, blocks, word, held, freed, skipped, refusals>>

(* Leaves the client's word in the slot; links the old head to the slot;   *)
(* writes past the slot.                                                   *)
BugNotLinked(s) == word
BugLinkedBackwards(s) ==
  [word EXCEPT ![IF mFreeStore = NULL THEN s ELSE mFreeStore] = s]
BugLinkedOverruns(s) ==
  [word EXCEPT ![s] = mFreeStore, ![(s + 1) % MaxLast] = mFreeStore]

(* The old head is written into the slot. *)
Linked(s) == [word EXCEPT ![s] = mFreeStore]

deallocate(ptr) ==
  /\ ~undefined
  /\ word' = Linked(ptr)
  /\ mFreeStore' = ptr
  /\ held' = held \ {ptr}
  /\ freed' = <<ptr>> \o freed
  /\ UNCHANGED <<storageType, mLast, blocks, undefined, skipped, refusals>>

(* A client uses the slot it holds. *)
clientWrites(s) ==
  /\ ~undefined
  /\ s \in held
  /\ word' = [word EXCEPT ![s] = ClientData]
  /\ UNCHANGED <<storageType, mFreeStore, mLast, blocks, undefined, held, freed, skipped, refusals>>

Next ==
  \/ allocateFreed
  \/ allocateFresh
  \/ allocateThrows
  \/ allocateUndefined
  \/ \E s \in held : deallocate(s)
  \/ \E s \in Slot : clientWrites(s)

Spec == Init /\ [][Next]_vars

-----------------------------------------------------------------------------
(* Properties. *)

Freed == { freed[k] : k \in 1 .. Len(freed) }

(* The head of the list is always a slot or NULL, never what a client left *)
(* in the memory of a freed slot.                                          *)
TypeOK ==
  /\ storageType \in StorageTypes
  /\ mFreeStore \in Slot \cup {NULL}
  /\ mLast \in 0 .. MaxLast
  /\ blocks \in Nat /\ blocks >= 1
  /\ word \in [Address -> Words]
  /\ undefined \in BOOLEAN
  /\ held \subseteq Slot
  /\ freed \in Seq(Slot)
  /\ skipped \subseteq Slot
  /\ refusals \in 0 .. MaxRefusals

(* The words of the freed slots chain them in the order they are reused,   *)
(* the last freed first, whatever clients wrote in them before.            *)
FreeChain ==
  /\ mFreeStore = IF freed = <<>> THEN NULL ELSE freed[1]
  /\ \A k \in 1 .. Len(freed) :
       word[freed[k]] = IF k = Len(freed) THEN NULL ELSE freed[k + 1]

(* Every index below mLast is in exactly one place: with a client, once on *)
(* the free list, or lost in an allocate that threw.  So no slot is handed *)
(* out twice, and none is lost otherwise.                                  *)
SlotsConserved ==
  /\ held \cup Freed \cup skipped = 0 .. mLast - 1
  /\ held \cap Freed = {} /\ held \cap skipped = {} /\ Freed \cap skipped = {}
  /\ Cardinality(Freed) = Len(freed)

(* Every slot a client holds or will get again lies in a block that        *)
(* exists, is aligned for a pointer, has room for the object and for the   *)
(* link, and shares no byte with another.                                  *)
LastByte(s) == Offset(s) + (IF Size > PointerSize THEN Size ELSE PointerSize) - 1
SlotsInStorage ==
  \A s \in held \cup Freed :
    /\ Block(s) < blocks
    /\ Offset(s) % PointerSize = 0
    /\ LastByte(s) < BLOCK_SIZE
    /\ \A t \in held \cup Freed :
         Block(t) = Block(s) /\ t # s =>
           LastByte(s) < Offset(t) \/ LastByte(t) < Offset(s)

(* A fixed storage refuses only when every slot of it is held, and losing  *)
(* an index then costs nothing: it was out of bounds.                      *)
FixedThrowsOnlyWhenFull ==
  ~Growable =>
    /\ mFreeStore = NULL /\ OutOfBounds(mLast) => held = 0 .. OBJECTS_PER_BLOCK - 1
    /\ \A s \in skipped : s >= OBJECTS_PER_BLOCK

(* A block is added only when every slot before it has been asked for; and *)
(* without a refusal, capacity always covers what was asked for.           *)
GrowsOnlyWhenUsedUp ==
  Growable =>
    /\ blocks > 1 => (blocks - 1) * OBJECTS_PER_BLOCK < mLast
    /\ refusals = 0 => mLast <= Capacity /\ skipped = {}

(* operator[] never uses a block it does not have until the system has     *)
(* refused one at least OBJECTS_PER_BLOCK times.                             *)
UndefinedOnlyAfterRefusals == undefined => refusals >= OBJECTS_PER_BLOCK

(* What clients have in their slots is theirs: the store is a HandleTable  *)
(* keyed by slot, whose values only clients change.                        *)
Contents == [s \in held |-> word[s]]
Table == INSTANCE HandleTable WITH Key <- Slot, Value <- Words, live <- Contents
ImplementsTable == Table!Spec
=============================================================================
