---------------------- MODULE FreeStoreAllocatorProofs ----------------------
(***************************************************************************)
(* Two allocators on one heap leave a FreeStore a FreeStore: each of their *)
(* steps is one of its steps or none, so all that FreeStoreProofs shows of *)
(* it holds under them.                                                    *)
(***************************************************************************)
EXTENDS FreeStoreAllocator, FreeStoreProofs

(* What the clients hold of the heap.  A block that FreeStoreAllocator     *)
(* lent is never one of a single object, so its count sends it back to the *)
(* heap: MemoryGoesBack rests on that and does not say it.                 *)
LentInv ==
  /\ DOMAIN heap = DOMAIN lent
  /\ \A a \in DOMAIN lent :
       /\ lent[a].count \in Nat
       /\ heap[a] = (lent[a].count * Size) % SizeMod
       /\ lent[a].by = "FreeStoreAllocator" => lent[a].count # 1
       /\ lent[a].by # "FreeStoreAllocator" => lent[a].count <= max_allocations

LEMMA LentInit == AllocatorInit => LentInv
  BY DEF AllocatorInit, LentInv

LEMMA LentAllocates ==
  ASSUME LentInv, NEW count \in Nat, NEW by, heapAllocate(count, by),
         by = "FreeStoreAllocator" => count # 1,
         by # "FreeStoreAllocator" => count <= max_allocations
  PROVE  LentInv' /\ UNCHANGED vars
<1> DEFINE block == [count |-> count, by |-> by]
           size == (count * Size) % SizeMod
<1>1. PICK a \in Elsewhere \ (DOMAIN heap \cup held) :
        heap' = With(heap, a, size) /\ lent' = With(lent, a, block)
  BY DEF heapAllocate
<1>2. block.count = count /\ block.by = by
  OBVIOUS
<1> HIDE DEF block, size
<1>3. DOMAIN heap' = DOMAIN heap \cup {a} /\ DOMAIN lent' = DOMAIN lent \cup {a}
  BY <1>1 DEF With
<1>4. heap'[a] = size /\ lent'[a] = block
  BY <1>1 DEF With
<1>5. \A b \in DOMAIN lent : heap'[b] = heap[b] /\ lent'[b] = lent[b]
  BY <1>1 DEF With, LentInv
<1>6. LentInv'
  BY <1>2, <1>3, <1>4, <1>5 DEF LentInv, size
<1>7. UNCHANGED vars
  BY DEF heapAllocate
<1> QED
  BY <1>6, <1>7

LEMMA LentDeallocates ==
  ASSUME LentInv, NEW a \in DOMAIN lent, lent' = Without(lent, a), heapDeallocate(a)
  PROVE  LentInv' /\ UNCHANGED vars
<1>1. heap' = Without(heap, a) /\ UNCHANGED vars
  BY DEF heapDeallocate
<1>2. /\ DOMAIN heap' = DOMAIN heap \ {a} /\ DOMAIN lent' = DOMAIN lent \ {a}
      /\ \A b \in DOMAIN lent \ {a} : heap'[b] = heap[b] /\ lent'[b] = lent[b]
  BY <1>1 DEF Without, LentInv
<1>3. LentInv'
  BY <1>2 DEF LentInv
<1> QED
  BY <1>1, <1>3

(* A step of the allocators is a step of the store or leaves it alone.     *)
LEMMA AllocatorStep ==
  ASSUME ListInv, LentInv, [AllocatorNext]_allocatorVars
  PROVE  LentInv' /\ [Next]_vars
<1>1. ASSUME UNCHANGED heapVars
      PROVE  LentInv'
  BY <1>1 DEF heapVars, LentInv
<1>2. CASE allocateOne
  BY <1>1, <1>2 DEF allocateOne, Next
<1>3. ASSUME NEW count \in Counts, allocateMany(count) \/ heapAllocatorAllocate(count)
      PROVE  LentInv' /\ UNCHANGED vars
  <2>1. count \in Nat
    BY AllocatorAssumption
  <2>2. CASE allocateMany(count)
    BY <2>1, <2>2, LentAllocates DEF allocateMany
  <2>3. CASE heapAllocatorAllocate(count)
    BY <2>1, <2>3, LentAllocates DEF heapAllocatorAllocate
  <2> QED
    BY <1>3, <2>2, <2>3
<1>4. ASSUME NEW s \in held, deallocateMemory(s, 1), UNCHANGED lent
      PROVE  LentInv' /\ [Next]_vars
  <2>1. deallocate(s) /\ UNCHANGED heap
    BY <1>4 DEF deallocateMemory, GoesToFreeStore
  <2> QED
    BY <1>1, <1>4, <2>1 DEF heapVars, Next
<1>5. ASSUME NEW a \in DOMAIN lent, lent' = Without(lent, a),
             \/ lent[a].by = "FreeStoreAllocator" /\ deallocateMemory(a, lent[a].count)
             \/ lent[a].by = "HeapAllocator" /\ heapAllocatorDeallocate(a)
      PROVE  LentInv' /\ UNCHANGED vars
  <2>1. heapDeallocate(a)
    BY <1>5 DEF deallocateMemory, GoesToFreeStore, heapAllocatorDeallocate, LentInv
  <2> QED
    BY <1>5, <2>1, LentDeallocates
<1>6. ASSUME NEW s \in held, clientWrites(s), UNCHANGED heapVars
      PROVE  LentInv' /\ [Next]_vars
  BY <1>1, <1>6 DEF Next, ListInv, TypeOK
<1>7. CASE UNCHANGED allocatorVars
  BY <1>1, <1>7 DEF allocatorVars
<1> QED
  BY <1>2, <1>3, <1>4, <1>5, <1>6, <1>7 DEF AllocatorNext

LEMMA AllocatorInvariant == AllocatorSpec => [](ListInv /\ StoreInv /\ LentInv)
<1>1. AllocatorInit => ListInv /\ StoreInv /\ LentInv
  BY ListInit, StoreInit, LentInit DEF AllocatorInit
<1>2. ListInv /\ StoreInv /\ LentInv /\ [AllocatorNext]_allocatorVars
        => (ListInv /\ StoreInv /\ LentInv)'
  BY AllocatorStep, ListNext, StoreNext
<1> QED
  BY <1>1, <1>2, PTL DEF AllocatorSpec

(* The allocators use the free store as FreeStore allows: nothing reaches  *)
(* it that did not come from it.                                           *)
THEOREM AllocatorImplementsStore == AllocatorSpec => Spec
<1>1. AllocatorInit => Init
  BY DEF AllocatorInit
<1>2. ListInv /\ LentInv /\ [AllocatorNext]_allocatorVars => [Next]_vars
  BY AllocatorStep
<1> QED
  BY <1>1, <1>2, AllocatorInvariant, PTL DEF AllocatorSpec, Spec

(* So the free list, the conservation of slots, the layout and the growth  *)
(* of the storage, and the table of slots hold under the allocators.       *)
THEOREM StoreHoldsUnderAllocators ==
  AllocatorSpec =>
    /\ [](TypeOK /\ FreeChain /\ SlotsConserved /\ SlotsInStorage)
    /\ [](FixedThrowsOnlyWhenFull /\ GrowsOnlyWhenUsedUp /\ UndefinedOnlyAfterRefusals)
    /\ ImplementsTable
  BY AllocatorImplementsStore, StoreTypeCorrect, FreeChainCorrect, SlotsAreConserved,
     SlotsLieInStorage, FixedStorageFillsUp, StorageGrowsWhenUsedUp,
     UndefinedNeedsRefusals, StoreImplementsTable, PTL

(* Memory goes back where it came from.                                    *)
THEOREM MemoryReturns == AllocatorSpec => []MemoryGoesBack
<1>1. ListInv /\ LentInv => MemoryGoesBack
  <2> SUFFICES ASSUME ListInv, LentInv
               PROVE  held \cup Freed \subseteq Slot
    BY DEF MemoryGoesBack, LentInv
  <2>1. freed \in Seq(Slot) /\ held \subseteq Slot
    BY DEF ListInv, TypeOK
  <2> QED
    BY <2>1 DEF Freed
<1> QED
  BY <1>1, AllocatorInvariant, PTL

(* Up to max_allocations the size asked of operator new does not wrap.     *)
LEMMA NoWrap ==
  ASSUME NEW count \in Nat, count <= max_allocations
  PROVE  (count * Size) % SizeMod = count * Size
<1> DEFINE q == (SizeMod - 1) \div Size
           r == (SizeMod - 1) % Size
           n == count * Size
<1>1. Size \in Nat \ {0} /\ SizeMod \in Nat /\ SizeMod - 1 \in Nat /\ SizeMod \in Nat \ {0}
  BY ConstantsAssumption, AllocatorAssumption
<1>2. q \in Nat /\ r \in 0 .. Size - 1 /\ SizeMod - 1 = Size * q + r /\ count <= q
  BY <1>1, Division DEF max_allocations
<1>3. n <= q * Size /\ n \in Nat /\ q * Size \in Nat /\ q * Size = Size * q
  BY <1>1, <1>2, ProductMonotone
<1>4. n < SizeMod
  <2> HIDE DEF q, r, n
  <2> QED
    BY <1>1, <1>2, <1>3
<1> HIDE DEF n
<1>5. n % SizeMod = n
  BY <1>1, <1>3, <1>4
<1> QED
  BY <1>5 DEF n

(* A block has room for the objects it was asked for, unless               *)
(* FreeStoreAllocator was asked for more than max_allocations.             *)
THEOREM BlocksHold == AllocatorSpec => []BlocksHoldWhatWasAsked
<1>1. LentInv => BlocksHoldWhatWasAsked
  <2> SUFFICES ASSUME LentInv, NEW a \in DOMAIN lent,
                      ~(lent[a].by = "FreeStoreAllocator" /\ lent[a].count > max_allocations)
               PROVE  heap[a] = lent[a].count * Size
    BY DEF BlocksHoldWhatWasAsked
  <2>1. lent[a].count \in Nat /\ heap[a] = (lent[a].count * Size) % SizeMod
    BY DEF LentInv
  <2>2. max_allocations \in Int
    BY ConstantsAssumption, AllocatorAssumption DEF max_allocations
  <2>3. lent[a].count <= max_allocations
    BY <2>1, <2>2 DEF LentInv
  <2> QED
    BY <2>1, <2>3, NoWrap
<1> QED
  BY <1>1, AllocatorInvariant, PTL
=============================================================================
