------------------------- MODULE FreeStoreAllocator -------------------------
(***************************************************************************)
(* FreeStoreAllocator<T, StorageType, StorageSize>: one object at a time   *)
(* comes from the FreeStore of its size, any other number from the Heap.   *)
(* deallocate is told the number again and has only that to go by.  Beside *)
(* it, HeapAllocator<T>, whose memory always comes from operator new.      *)
(*                                                                         *)
(* Clients give memory back to the allocator it came from, with the count  *)
(* they asked for.  A refused request to operator new (nothrow) returns    *)
(* null and changes nothing.                                               *)
(***************************************************************************)
EXTENDS FreeStore

CONSTANTS
  Counts,   (* how many objects clients ask for at once                    *)
  SizeMod   (* 2^w, the range of size_t                                    *)

ASSUME AllocatorAssumption == Counts \subseteq Nat /\ SizeMod \in Nat /\ SizeMod > Size

VARIABLES
  heap,     (* the blocks operator new has given out and not got back: a   *)
            (* function from their addresses to their bytes                *)
  lent      (* history: the blocks clients hold, from their addresses to   *)
            (* [count, by]: what they asked for and of which allocator     *)

heapVars == <<heap, lent>>
allocatorVars == <<vars, heapVars>>

Allocators == {"FreeStoreAllocator", "HeapAllocator"}

AllocatorInit ==
  /\ Init
  /\ heap = [a \in {} |-> 0]
  /\ lent = [a \in {} |-> [count |-> 0, by |-> "HeapAllocator"]]

-----------------------------------------------------------------------------
With(f, a, v) == [x \in DOMAIN f \cup {a} |-> IF x = a THEN v ELSE f[x]]
Without(f, a) == [x \in DOMAIN f \ {a} |-> f[x]]

(* ::operator new(count * Size, nothrow): the product is a size_t.         *)
heapAllocate(count, by) ==
  /\ ~undefined
  /\ \E a \in Elsewhere \ (DOMAIN heap \cup held) :
       /\ heap' = With(heap, a, (count * Size) % SizeMod)
       /\ lent' = With(lent, a, [count |-> count, by |-> by])
  /\ UNCHANGED vars

heapDeallocate(ptr) ==
  /\ ~undefined
  /\ heap' = Without(heap, ptr)
  /\ UNCHANGED vars

allocateOne ==
  /\ allocateFreed \/ allocateFresh \/ allocateThrows \/ allocateUndefined
  /\ UNCHANGED heapVars

allocateMany(count) == count # 1 /\ heapAllocate(count, "FreeStoreAllocator")

(* deallocate that takes a block of no objects for a slot. *)
BugGoesToFreeStore(count) == count <= 1

GoesToFreeStore(count) == count = 1

deallocateMemory(ptr, count) ==
  \/ GoesToFreeStore(count) /\ deallocate(ptr) /\ UNCHANGED heap
  \/ ~GoesToFreeStore(count) /\ heapDeallocate(ptr)

BugMaxAllocations == SizeMod \div Size + 1
max_allocations == (SizeMod - 1) \div Size

(* HeapAllocator throws above its max_size(). *)
heapAllocatorAllocate(count) ==
  count <= max_allocations /\ heapAllocate(count, "HeapAllocator")

heapAllocatorDeallocate(ptr) == heapDeallocate(ptr)

AllocatorNext ==
  \/ allocateOne
  \/ \E count \in Counts : allocateMany(count) \/ heapAllocatorAllocate(count)
  \/ \E s \in held : deallocateMemory(s, 1) /\ UNCHANGED lent
  \/ \E a \in DOMAIN lent :
       /\ lent' = Without(lent, a)
       /\ \/ lent[a].by = "FreeStoreAllocator" /\ deallocateMemory(a, lent[a].count)
          \/ lent[a].by = "HeapAllocator" /\ heapAllocatorDeallocate(a)
  \/ \E s \in held : clientWrites(s) /\ UNCHANGED heapVars

AllocatorSpec == AllocatorInit /\ [][AllocatorNext]_allocatorVars

-----------------------------------------------------------------------------
(* Properties. *)

(* Memory goes back where it came from: what the free store holds or has   *)
(* given out are its slots, and operator new has got back exactly the      *)
(* blocks that clients no longer hold.                                     *)
MemoryGoesBack ==
  /\ held \cup Freed \subseteq Slot
  /\ DOMAIN heap = DOMAIN lent

(* A block has room for the objects it was asked for.  FreeStoreAllocator  *)
(* does not look at max_allocations, and above it gives out less.          *)
BlocksHoldWhatWasAsked ==
  \A a \in DOMAIN heap \cap DOMAIN lent :
    \/ heap[a] = lent[a].count * Size
    \/ lent[a].by = "FreeStoreAllocator" /\ lent[a].count > max_allocations
=============================================================================
