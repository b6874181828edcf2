-------------------------- MODULE FreeStoreProofs --------------------------
(***************************************************************************)
(* What FreeStore guarantees for every object, pointer and block size, and *)
(* however often the system refuses a block.                               *)
(***************************************************************************)
EXTENDS FreeStore, Facts, FiniteSetTheorems, TLAPS

-----------------------------------------------------------------------------
(* The layout of a block. *)

(* The size of a slot covers the object and a link, in whole pointers.     *)
LEMMA ObjectSize ==
  /\ OBJECT_SIZE \in Nat \ {0}
  /\ OBJECT_SIZE >= Size /\ OBJECT_SIZE >= PointerSize
  /\ \E q \in Nat : OBJECT_SIZE = q * PointerSize
<1> USE ConstantsAssumption
<1> DEFINE a == Size + PointerSize - 1
           q == a \div PointerSize
<1>1. a \in Nat /\ a >= PointerSize
  OBVIOUS
<1>2. q \in Nat /\ a % PointerSize \in 0 .. PointerSize - 1 /\ a = PointerSize * q + (a % PointerSize)
  BY <1>1, Division
<1>3. OBJECT_SIZE = q * PointerSize
  BY DEF OBJECT_SIZE
<1>4. q # 0
  BY <1>1, <1>2
<1>5. q * PointerSize = PointerSize * q /\ q * PointerSize \in Nat
  BY <1>2, ProductMonotone
<1>6. 1 * PointerSize <= q * PointerSize
  BY <1>2, <1>4, ProductMonotone
<1> HIDE DEF q
<1>7. q * PointerSize >= Size
  BY <1>1, <1>2, <1>5
<1> QED
  BY <1>2, <1>3, <1>5, <1>6, <1>7

LEMMA ObjectsPerBlock ==
  /\ OBJECTS_PER_BLOCK \in Nat
  /\ "BlockListStorage" \in StorageTypes => OBJECTS_PER_BLOCK >= 1
<1> USE ConstantsAssumption, ObjectSize
<1>1. /\ OBJECTS_PER_BLOCK \in Nat /\ StorageSize % OBJECT_SIZE \in 0 .. OBJECT_SIZE - 1
      /\ StorageSize = OBJECT_SIZE * OBJECTS_PER_BLOCK + (StorageSize % OBJECT_SIZE)
  BY Division DEF OBJECTS_PER_BLOCK
<1>2. OBJECTS_PER_BLOCK = 0 => StorageSize < OBJECT_SIZE
  BY <1>1
<1> QED
  BY <1>1, <1>2

(* An index is in a block before the n-th exactly if it is below n blocks' *)
(* worth of slots.                                                         *)
LEMMA BlockBelow ==
  ASSUME NEW i \in Nat, NEW n \in Nat, OBJECTS_PER_BLOCK >= 1
  PROVE  /\ Block(i) \in Nat
         /\ Block(i) < n <=> i < n * OBJECTS_PER_BLOCK
         /\ n * OBJECTS_PER_BLOCK \in Nat
<1> DEFINE P == OBJECTS_PER_BLOCK
           d == i \div P
           r == i % P
<1>1. P \in Nat \ {0}
  BY ObjectsPerBlock
<1>2. d \in Nat /\ r \in 0 .. P - 1 /\ i = P * d + r
  BY <1>1, Division
<1>3. Block(i) = d
  BY DEF Block
<1>4. n * P \in Nat /\ d * P \in Nat /\ d * P = P * d
  BY <1>1, <1>2, ProductMonotone
<1>5. ASSUME d < n
      PROVE  i < n * P
  <2>1. (d + 1) * P <= n * P
    BY <1>1, <1>2, <1>5, ProductMonotone
  <2>2. (d + 1) * P = P * d + P
    BY <1>1, <1>2
  <2> HIDE DEF P, d, r
  <2> QED
    BY <1>1, <1>2, <1>4, <2>1, <2>2
<1>6. ASSUME n <= d
      PROVE  n * P <= i
  <2>1. n * P <= d * P
    BY <1>1, <1>2, <1>6, ProductMonotone
  <2> HIDE DEF P, d, r
  <2> QED
    BY <1>1, <1>2, <1>4, <2>1
<1> HIDE DEF P, d
<1>7. d < n <=> i < n * P
  BY <1>2, <1>4, <1>5, <1>6
<1> QED
  BY <1>2, <1>3, <1>4, <1>7 DEF P

-----------------------------------------------------------------------------
(* The free list.                                                          *)
(*                                                                         *)
(* The type of the head rests on the chain: allocate takes the new head    *)
(* out of memory that clients write in.  The chain survives the clients    *)
(* because no slot is held and freed at once, and a deallocation because   *)
(* no slot is freed twice.                                                 *)

ListInv == TypeOK /\ FreeChain /\ SlotsConserved /\ Distinct(freed)

LEMMA AddressFacts ==
  /\ \A s \in Slot : s \in Address /\ s \in Words /\ s \in Nat /\ s < MaxLast
  /\ NULL \notin Slot /\ NULL \in Words /\ ClientData \in Words
  /\ ClientData \notin Slot \cup {NULL}
  BY ConstantsAssumption DEF Slot, Address, Words

LEMMA FreedElements ==
  /\ Freed = Elements(freed)
  /\ Freed' = Elements(freed')
  BY DEF Freed, Elements

(* The chain link by link. *)
Link(w, s, k) == /\ k = Len(s) => w[s[k]] = NULL
                 /\ k # Len(s) => w[s[k]] = s[k + 1]

Chained(head, w, s) ==
  /\ s = <<>> => head = NULL
  /\ s # <<>> => head = s[1]
  /\ \A k \in 1 .. Len(s) : Link(w, s, k)

LEMMA FreeChainLinks ==
  /\ FreeChain <=> Chained(mFreeStore, word, freed)
  /\ FreeChain' <=> Chained(mFreeStore', word', freed')
<1>1. /\ FreeChain <=> Chained(mFreeStore, word, freed)
  <2>1. (mFreeStore = IF freed = <<>> THEN NULL ELSE freed[1])
          <=> (freed = <<>> => mFreeStore = NULL) /\ (freed # <<>> => mFreeStore = freed[1])
    BY Zenon
  <2>2. ASSUME NEW k
        PROVE  (word[freed[k]] = IF k = Len(freed) THEN NULL ELSE freed[k + 1])
                 <=> Link(word, freed, k)
    BY Zenon DEF Link
  <2> QED
    BY <2>1, <2>2, Zenon DEF FreeChain, Chained
<1>2. FreeChain' <=> Chained(mFreeStore', word', freed')
  <2>1. (mFreeStore' = IF freed' = <<>> THEN NULL ELSE freed'[1])
          <=> (freed' = <<>> => mFreeStore' = NULL) /\ (freed' # <<>> => mFreeStore' = freed'[1])
    BY Zenon
  <2>2. ASSUME NEW k
        PROVE  (word'[freed'[k]] = IF k = Len(freed') THEN NULL ELSE freed'[k + 1])
                 <=> Link(word', freed', k)
    BY Zenon DEF Link
  <2> QED
    BY <2>1, <2>2, Zenon DEF FreeChain, Chained
<1> QED
  BY <1>1, <1>2

(* Following the first link leaves a chain.                                *)
LEMMA ChainTail ==
  ASSUME NEW S, NEW s \in Seq(S), NEW w, NEW head, s # <<>>, Chained(head, w, s)
  PROVE  Chained(w[head], w, Tail(s))
<1> DEFINE t == Tail(s)
<1>1. /\ t \in Seq(S) /\ Len(s) \in Nat /\ Len(s) >= 1 /\ Len(t) = Len(s) - 1
      /\ \A k \in 1 .. Len(s) - 1 : t[k] = s[k + 1]
  BY TailShifts
<1>2. head = s[1] /\ \A k \in 1 .. Len(s) : Link(w, s, k)
  BY DEF Chained
<1> HIDE DEF t
<1>3. t = <<>> <=> Len(s) = 1
  <2>1. t = <<>> <=> Len(t) = 0
    BY <1>1
  <2> QED
    BY <1>1, <2>1
<1>4. Link(w, s, 1)
  BY <1>1, <1>2
<1>5. t = <<>> => w[head] = NULL
  BY <1>2, <1>3, <1>4 DEF Link
<1>6. t # <<>> => w[head] = t[1]
  <2>1. t # <<>> => t[1] = s[2]
    BY <1>1, <1>3
  <2> QED
    BY <1>2, <1>3, <1>4, <2>1 DEF Link
<1>7. ASSUME NEW k \in 1 .. Len(t)
      PROVE  Link(w, t, k)
  <2>1. k + 1 \in 1 .. Len(s) /\ t[k] = s[k + 1] /\ (k = Len(t) <=> k + 1 = Len(s))
    BY <1>1
  <2>2. Link(w, s, k + 1)
    BY <1>2, <2>1
  <2>3. k # Len(t) => t[k + 1] = s[(k + 1) + 1]
    BY <1>1
  <2> QED
    BY <2>1, <2>2, <2>3 DEF Link
<1>8. Chained(w[head], w, t)
  BY <1>5, <1>6, <1>7 DEF Chained
<1> QED
  BY <1>8 DEF t

(* Linking the head from a slot that is not in the chain extends it.       *)
LEMMA ChainCons ==
  ASSUME NEW S, NEW s \in Seq(S), NEW x \in S, NEW w, NEW v, NEW head,
         Chained(head, w, s), v[x] = head, \A y \in Elements(s) : v[y] = w[y]
  PROVE  Chained(x, v, <<x>> \o s)
<1> DEFINE t == <<x>> \o s
<1>1. /\ t \in Seq(S) /\ Len(s) \in Nat /\ Len(t) = Len(s) + 1 /\ t[1] = x /\ t # <<>>
      /\ \A k \in 2 .. Len(s) + 1 : t[k] = s[k - 1]
  BY ConsShifts
<1>2. /\ s = <<>> => head = NULL
      /\ s # <<>> => head = s[1]
      /\ \A k \in 1 .. Len(s) : Link(w, s, k)
  BY DEF Chained
<1>3. s = <<>> <=> Len(s) = 0
  OBVIOUS
<1> HIDE DEF t
<1>4. Link(v, t, 1)
  <2>1. Len(s) # 0 => t[2] = s[1]
    BY <1>1
  <2>2. 1 = Len(t) <=> Len(s) = 0
    BY <1>1
  <2> QED
    BY <1>1, <1>2, <1>3, <2>1, <2>2 DEF Link
<1>5. ASSUME NEW k \in 2 .. Len(t)
      PROVE  Link(v, t, k)
  <2> DEFINE j == k - 1
  <2>1. j \in 1 .. Len(s) /\ t[k] = s[j] /\ (k = Len(t) <=> j = Len(s)) /\ j + 1 = k
    BY <1>1
  <2>2. k # Len(t) => t[k + 1] = s[j + 1]
    <3>1. k # Len(t) => k + 1 \in 2 .. Len(s) + 1 /\ (k + 1) - 1 = j + 1
      BY <1>1
    <3> HIDE DEF j
    <3> QED
      BY <1>1, <3>1
  <2> HIDE DEF j
  <2>3. Link(w, s, j)
    BY <1>2, <2>1
  <2>4. v[s[j]] = w[s[j]]
    BY <2>1 DEF Elements
  <2> QED
    BY <2>1, <2>2, <2>3, <2>4 DEF Link
<1>6. \A k \in 1 .. Len(t) : k = 1 \/ k \in 2 .. Len(t)
  BY <1>1
<1>7. Chained(x, v, t)
  BY <1>1, <1>4, <1>5, <1>6 DEF Chained
<1> QED
  BY <1>7 DEF t

LEMMA ListInit == Init => ListInv
<1> SUFFICES ASSUME Init
             PROVE  ListInv
  OBVIOUS
<1>1. /\ mFreeStore = NULL /\ freed = <<>> /\ Len(freed) = 0
      /\ held = {} /\ skipped = {} /\ mLast = 0
  BY DEF Init
<1>2. Freed = {}
  BY <1>1 DEF Freed
<1>3. Cardinality(Freed) = Len(freed)
  BY <1>1, <1>2, FS_EmptySet
<1>4. SlotsConserved
  BY <1>1, <1>2, <1>3 DEF SlotsConserved
<1>5. FreeChain /\ Distinct(freed)
  BY <1>1, FreeChainLinks DEF Chained, Distinct
<1>6. TypeOK
  <2>1. word \in [Address -> Words]
    BY AddressFacts DEF Init, ZeroedMemory
  <2>2. freed \in Seq(Slot)
    BY <1>1
  <2>3. mFreeStore \in Slot \cup {NULL} /\ held \subseteq Slot /\ skipped \subseteq Slot
    BY <1>1
  <2>4. mLast = 0 /\ refusals = 0 /\ blocks = 1
    BY DEF Init
  <2>5. mLast \in 0 .. MaxLast /\ refusals \in 0 .. MaxRefusals
        /\ blocks \in Nat /\ blocks >= 1
    <3>1. MaxLast \in Nat /\ MaxRefusals \in Nat
      BY ConstantsAssumption
    <3> QED
      BY <2>4, <3>1
  <2>6. storageType \in StorageTypes /\ undefined \in BOOLEAN
    BY DEF Init
  <2> QED
    BY <2>1, <2>2, <2>3, <2>5, <2>6 DEF TypeOK
<1> QED
  BY <1>4, <1>5, <1>6 DEF ListInv

(* What a step that leaves the list and the memory alone must still do.    *)
LEMMA ListUntouched ==
  ASSUME ListInv, UNCHANGED <<mFreeStore, word, freed>>
  PROVE  /\ FreeChain' /\ Distinct(freed)' /\ Freed' = Freed
         /\ Cardinality(Freed') = Len(freed')
<1>1. FreeChain'
  BY FreeChainLinks DEF ListInv
<1>2. Distinct(freed)'
  BY DEF ListInv, Distinct
<1>3. Freed' = Freed
  BY DEF Freed
<1>4. Cardinality(Freed') = Len(freed')
  BY <1>3 DEF ListInv, SlotsConserved
<1> QED
  BY <1>1, <1>2, <1>3, <1>4

LEMMA ListAllocateFreed ==
  ASSUME ListInv, allocateFreed
  PROVE  ListInv'
<1>1. freed \in Seq(Slot) /\ Chained(mFreeStore, word, freed)
  BY FreeChainLinks DEF ListInv, TypeOK
<1>2. freed # <<>> /\ mFreeStore = freed[1]
  BY <1>1 DEF allocateFreed, Chained
<1>3. /\ freed' = Tail(freed) /\ freed' \in Seq(Slot)
      /\ Len(freed) \in Nat /\ Len(freed) >= 1 /\ Len(freed') = Len(freed) - 1
      /\ \A k \in 1 .. Len(freed) - 1 : freed'[k] = freed[k + 1]
  BY <1>1, <1>2, TailShifts DEF allocateFreed
<1>4. Elements(freed') = Elements(freed) \ {mFreeStore} /\ Distinct(freed')
  BY <1>1, <1>2, <1>3, TailElements DEF ListInv
<1>5. Cardinality(Elements(freed')) = Len(freed')
  BY <1>3, <1>4, DistinctCounted
<1>6. mFreeStore \in Elements(freed)
  BY <1>2, <1>3 DEF Elements
<1>7. word' = word /\ mFreeStore' = word[freed[1]]
  BY <1>2 DEF allocateFreed
<1>8. Chained(mFreeStore', word', freed')
  BY <1>1, <1>2, <1>3, <1>7, ChainTail
<1>9. FreeChain'
  BY <1>8, FreeChainLinks
<1>10. SlotsConserved'
  <2>1. Freed' = Freed \ {mFreeStore} /\ Cardinality(Freed') = Len(freed') /\ mFreeStore \in Freed
    BY <1>4, <1>5, <1>6, FreedElements
  <2> QED
    BY <2>1 DEF ListInv, allocateFreed, SlotsConserved
<1>11. TypeOK'
  <2>1. mFreeStore' \in Slot \cup {NULL}
    <3>1. freed' # <<>> => freed'[1] \in Slot
      BY <1>3
    <3> QED
      BY <1>8, <3>1 DEF Chained
  <2>2. held' \subseteq Slot
    BY <1>1, <1>2, <1>3 DEF ListInv, allocateFreed, TypeOK
  <2> QED
    BY <1>3, <2>1, <2>2 DEF ListInv, allocateFreed, TypeOK
<1> QED
  BY <1>4, <1>9, <1>10, <1>11 DEF ListInv

LEMMA ListDeallocate ==
  ASSUME ListInv, NEW ptr \in held, deallocate(ptr)
  PROVE  ListInv'
<1>1. /\ freed \in Seq(Slot) /\ ptr \in Slot /\ word \in [Address -> Words]
      /\ mFreeStore \in Slot \cup {NULL}
      /\ Chained(mFreeStore, word, freed)
  BY FreeChainLinks DEF ListInv, TypeOK
<1>2. ptr \notin Elements(freed)
  BY FreedElements DEF ListInv, SlotsConserved
<1>3. /\ freed' = <<ptr>> \o freed /\ freed' \in Seq(Slot)
      /\ Len(freed) \in Nat /\ Len(freed') = Len(freed) + 1 /\ freed'[1] = ptr
      /\ \A k \in 2 .. Len(freed) + 1 : freed'[k] = freed[k - 1]
  BY <1>1, ConsShifts DEF deallocate
<1>4. Elements(freed') = Elements(freed) \cup {ptr} /\ Distinct(freed')
  BY <1>1, <1>2, <1>3, ConsElements DEF ListInv
<1>5. Cardinality(Elements(freed')) = Len(freed')
  BY <1>3, <1>4, DistinctCounted
<1>6. ptr \in Address /\ mFreeStore \in Words
  BY <1>1, AddressFacts
<1>7. /\ word' = [word EXCEPT ![ptr] = mFreeStore] /\ mFreeStore' = ptr
      /\ word'[ptr] = mFreeStore
      /\ \A s \in Elements(freed) : word'[s] = word[s]
  <2>1. \A s \in Elements(freed) : s \in Address
    BY <1>1, AddressFacts DEF Elements
  <2> QED
    BY <1>1, <1>2, <1>6, <2>1 DEF deallocate, Linked
<1>8. Chained(mFreeStore', word', freed')
  BY <1>1, <1>3, <1>7, ChainCons
<1>9. FreeChain'
  BY <1>8, FreeChainLinks
<1>10. SlotsConserved'
  <2>1. Freed' = Freed \cup {ptr} /\ Cardinality(Freed') = Len(freed') /\ ptr \notin Freed
    BY <1>2, <1>4, <1>5, FreedElements
  <2> QED
    BY <2>1 DEF ListInv, deallocate, SlotsConserved
<1>11. TypeOK'
  <2>1. word' \in [Address -> Words]
    BY <1>1, <1>6, <1>7
  <2> QED
    BY <1>1, <1>3, <1>7, <2>1 DEF ListInv, deallocate, TypeOK
<1> QED
  BY <1>4, <1>9, <1>10, <1>11 DEF ListInv

(* How many blocks the next index calls for: none if it has one, and never *)
(* so many that the last of them would begin past the index.               *)
LEMMA BlocksWantedFacts ==
  ASSUME TypeOK
  PROVE  /\ Growable => OBJECTS_PER_BLOCK >= 1 /\ Block(mLast) \in Nat
         /\ BlocksWanted(mLast) \in Nat
         /\ BlocksWanted(mLast) = 0 <=> ~Growable \/ Block(mLast) < blocks
         /\ BlocksWanted(mLast) # 0 =>
              /\ blocks + BlocksWanted(mLast) - 1 <= Block(mLast)
              /\ Block(mLast) = blocks => BlocksWanted(mLast) = 1
<1>1. mLast \in Nat /\ blocks \in Nat
  BY ConstantsAssumption DEF TypeOK
<1>2. Growable => OBJECTS_PER_BLOCK >= 1
  BY ObjectsPerBlock DEF TypeOK, Growable
<1>3. Growable => Block(mLast) \in Nat
  BY <1>1, <1>2, BlockBelow
<1>4. CASE ~Growable \/ Block(mLast) < blocks
  BY <1>2, <1>3, <1>4 DEF BlocksWanted
<1>5. CASE Growable /\ ~(Block(mLast) < blocks)
  <2> DEFINE B == Block(mLast)
  <2>1. B \in Nat /\ blocks <= B
    BY <1>1, <1>3, <1>5
  <2>2. BlocksWanted(mLast) = IF B = blocks THEN 1 ELSE (B - blocks + 1) \div 2
    BY <1>5 DEF BlocksWanted
  <2> HIDE DEF B
  <2>3. BlocksWanted(mLast) \in Nat \ {0} /\ blocks + BlocksWanted(mLast) - 1 <= B
    BY <1>1, <2>1, <2>2
  <2> QED
    BY <1>2, <1>5, <2>1, <2>2, <2>3 DEF B
<1> QED
  BY <1>4, <1>5

(* What allocate does to the number of blocks.                             *)
LEMMA BlocksGrow ==
  ASSUME TypeOK, allocateFresh \/ allocateThrows
  PROVE  /\ blocks \in Nat /\ blocks' \in Nat /\ blocks <= blocks'
         /\ mLast \in Nat /\ mLast \in Slot /\ mLast' = mLast + 1 /\ mLast < MaxLast
         /\ ~Growable => blocks' = blocks
         /\ blocks' # blocks => blocks' - 1 <= Block(mLast)
<1>1. mLast \in Nat /\ blocks \in Nat
  BY ConstantsAssumption DEF TypeOK
<1>2. mLast < MaxLast /\ mLast' = mLast + 1
  BY DEF allocateFresh, allocateThrows, NextLast
<1>3. mLast \in Slot
  BY <1>1, <1>2, ConstantsAssumption DEF Slot
<1>4. \E w \in 0 .. BlocksWanted(mLast) : blocks' = blocks + w
  <2>1. BlocksWanted(mLast) \in Nat
    BY BlocksWantedFacts
  <2>2. CASE allocateFresh
    BY <2>1, <2>2 DEF allocateFresh
  <2>3. CASE allocateThrows /\ UNCHANGED <<blocks, refusals>>
    <3>1. blocks' = blocks + 0
      BY <1>1, <2>3
    <3> QED
      BY <2>1, <3>1
  <2>4. CASE \E added \in 0 .. BlocksWanted(mLast) - 1 : blocks' = blocks + added
    BY <2>1, <2>4
  <2> QED
    BY <2>2, <2>3, <2>4 DEF allocateThrows
<1>5. PICK w \in 0 .. BlocksWanted(mLast) : blocks' = blocks + w
  BY <1>4
<1>6. CASE BlocksWanted(mLast) = 0
  BY <1>1, <1>2, <1>3, <1>5, <1>6
<1>7. CASE BlocksWanted(mLast) # 0
  <2>1. Growable /\ Block(mLast) \in Nat /\ BlocksWanted(mLast) \in Nat
        /\ blocks + BlocksWanted(mLast) - 1 <= Block(mLast)
    BY <1>7, BlocksWantedFacts
  <2> QED
    BY <1>1, <1>2, <1>3, <1>5, <2>1
<1> QED
  BY <1>6, <1>7

(* The index allocate takes from the storage is new, whether it becomes a  *)
(* slot or is lost.                                                        *)
LEMMA ListMoves ==
  ASSUME ListInv, allocateFresh \/ allocateThrows
  PROVE  ListInv'
<1>1. UNCHANGED <<mFreeStore, word, freed, storageType, undefined>>
  BY DEF allocateFresh, allocateThrows
<1>2. TypeOK /\ mLast \in Slot /\ mLast \in Nat /\ mLast' = mLast + 1 /\ mLast < MaxLast
      /\ blocks \in Nat /\ blocks' \in Nat /\ blocks <= blocks'
  BY BlocksGrow DEF ListInv
<1>3. \/ held' = held \cup {mLast} /\ skipped' = skipped
      \/ held' = held /\ skipped' = skipped \cup {mLast}
  BY DEF allocateFresh, allocateThrows
<1>4. FreeChain' /\ Distinct(freed)' /\ Freed' = Freed /\ Cardinality(Freed') = Len(freed')
  BY <1>1, ListUntouched
<1>5. SlotsConserved'
  <2>1. /\ held \cup Freed \cup skipped = 0 .. mLast - 1
        /\ held \cap Freed = {} /\ held \cap skipped = {} /\ Freed \cap skipped = {}
    BY DEF ListInv, SlotsConserved
  <2>2. 0 .. mLast' - 1 = (0 .. mLast - 1) \cup {mLast} /\ mLast \notin 0 .. mLast - 1
    BY <1>2
  <2>3. held' \cup Freed \cup skipped' = 0 .. mLast' - 1
    BY <1>3, <2>1, <2>2
  <2>4. held' \cap Freed = {} /\ held' \cap skipped' = {} /\ Freed \cap skipped' = {}
    BY <1>3, <2>1, <2>2
  <2> QED
    BY <1>4, <2>3, <2>4 DEF SlotsConserved
<1>6. TypeOK'
  <2>1. held' \subseteq Slot /\ skipped' \subseteq Slot
    BY <1>2, <1>3 DEF TypeOK
  <2>2. mLast' \in 0 .. MaxLast /\ blocks' >= 1
    BY <1>2, ConstantsAssumption DEF TypeOK
  <2>3. refusals' \in 0 .. MaxRefusals
    <3>1. refusals' = refusals \/ (refusals < MaxRefusals /\ refusals' = refusals + 1)
      BY DEF allocateFresh, allocateThrows
    <3>2. refusals \in 0 .. MaxRefusals /\ MaxRefusals \in Nat
      BY <1>2, ConstantsAssumption DEF TypeOK
    <3> QED
      BY <3>1, <3>2
  <2> QED
    BY <1>1, <1>2, <2>1, <2>2, <2>3 DEF TypeOK
<1> QED
  BY <1>4, <1>5, <1>6 DEF ListInv

(* What a client writes is outside the chain.                              *)
LEMMA ListClientWrites ==
  ASSUME ListInv, NEW s \in Slot, clientWrites(s)
  PROVE  ListInv'
<1>1. UNCHANGED <<mFreeStore, freed, held, skipped, mLast, storageType, blocks, undefined, refusals>>
      /\ word' = [word EXCEPT ![s] = ClientData] /\ s \in held
  BY DEF clientWrites
<1>2. /\ freed \in Seq(Slot) /\ Chained(mFreeStore, word, freed)
      /\ word \in [Address -> Words] /\ s \notin Elements(freed)
  BY <1>1, FreeChainLinks, FreedElements DEF ListInv, TypeOK, SlotsConserved
<1>3. \A k \in 1 .. Len(freed) : word'[freed[k]] = word[freed[k]]
  <2> TAKE k \in 1 .. Len(freed)
  <2>1. freed[k] \in Slot /\ freed[k] # s
    BY <1>2 DEF Elements
  <2> QED
    BY <1>1, <1>2, <2>1, AddressFacts
<1>4. FreeChain'
  <2>1. \A k \in 1 .. Len(freed) : Link(word, freed, k) => Link(word', freed, k)
    BY <1>3 DEF Link
  <2>2. Chained(mFreeStore, word', freed)
    BY <1>2, <2>1 DEF Chained
  <2> QED
    BY <1>1, <2>2, FreeChainLinks
<1>5. Distinct(freed)' /\ SlotsConserved'
  <2>1. Freed' = Freed
    BY <1>1 DEF Freed
  <2> QED
    BY <1>1, <2>1 DEF ListInv, SlotsConserved, Distinct
<1>6. TypeOK'
  <2>1. word' \in [Address -> Words]
    BY <1>1, <1>2, AddressFacts
  <2> QED
    BY <1>1, <2>1 DEF ListInv, TypeOK
<1> QED
  BY <1>4, <1>5, <1>6 DEF ListInv

LEMMA ListNext == ListInv /\ [Next]_vars => ListInv'
<1> SUFFICES ASSUME ListInv, [Next]_vars
             PROVE  ListInv'
  OBVIOUS
<1>1. CASE allocateFreed
  BY <1>1, ListAllocateFreed
<1>2. CASE allocateFresh \/ allocateThrows
  BY <1>2, ListMoves
<1>3. CASE allocateUndefined
  <2>1. /\ UNCHANGED <<storageType, mFreeStore, mLast, blocks, word, held, freed, skipped, refusals>>
        /\ undefined' \in BOOLEAN
    BY <1>3 DEF allocateUndefined
  <2>2. FreeChain' /\ Distinct(freed)' /\ Freed' = Freed
    BY <2>1, ListUntouched
  <2> QED
    BY <2>1, <2>2 DEF ListInv, TypeOK, SlotsConserved
<1>4. CASE \E s \in held : deallocate(s)
  BY <1>4, ListDeallocate
<1>5. CASE \E s \in Slot : clientWrites(s)
  BY <1>5, ListClientWrites
<1>6. CASE UNCHANGED vars
  <2>1. FreeChain' /\ Distinct(freed)' /\ Freed' = Freed
    BY <1>6, ListUntouched DEF vars
  <2> QED
    BY <1>6, <2>1 DEF vars, ListInv, TypeOK, SlotsConserved
<1> QED
  BY <1>1, <1>2, <1>3, <1>4, <1>5, <1>6 DEF Next

-----------------------------------------------------------------------------
(* The storage.                                                            *)
(*                                                                         *)
(* That a block is added only when it is needed, and never used before it  *)
(* is there, does not carry over a step: a refusal leaves mLast ahead of   *)
(* the blocks.  GrowthInv bounds by how much: by one index for each        *)
(* refusal, while every slot handed out lies below the capacity.           *)

FixedInv ==
  ~Growable =>
    /\ blocks = 1
    /\ \A s \in held \cup Freed : s < OBJECTS_PER_BLOCK
    /\ \A s \in skipped : s >= OBJECTS_PER_BLOCK

GrowthInv ==
  Growable =>
    /\ \A s \in held \cup Freed : s < Capacity
    /\ blocks > 1 => (blocks - 1) * OBJECTS_PER_BLOCK < mLast
    /\ mLast <= Capacity + refusals
    /\ refusals = 0 => skipped = {}

StoreInv ==
  /\ FixedInv
  /\ GrowthInv
  /\ undefined => refusals >= OBJECTS_PER_BLOCK

LEMMA StoreInit == Init => StoreInv
<1> SUFFICES ASSUME Init
             PROVE  StoreInv
  OBVIOUS
<1>1. held \cup Freed = {} /\ skipped = {} /\ blocks = 1 /\ ~undefined /\ mLast = 0 /\ refusals = 0
  BY DEF Init, Freed
<1>2. FixedInv /\ (undefined => refusals >= OBJECTS_PER_BLOCK)
  BY <1>1 DEF FixedInv
<1>3. Capacity \in Nat
  BY <1>1, ObjectsPerBlock DEF Capacity
<1>4. GrowthInv
  BY <1>1, <1>3 DEF GrowthInv
<1> QED
  BY <1>2, <1>4 DEF StoreInv

(* A slot that passes between the clients and the free list stays where it *)
(* is.                                                                     *)
LEMMA StoreKept ==
  ASSUME StoreInv, held' \cup Freed' = held \cup Freed,
         UNCHANGED <<storageType, mLast, blocks, undefined, skipped, refusals>>
  PROVE  StoreInv'
  BY DEF StoreInv, FixedInv, GrowthInv, Growable, Capacity

LEMMA CapacityMonotone ==
  ASSUME NEW m \in Nat, NEW n \in Nat, m <= n
  PROVE  /\ m * OBJECTS_PER_BLOCK <= n * OBJECTS_PER_BLOCK
         /\ m * OBJECTS_PER_BLOCK \in Nat /\ n * OBJECTS_PER_BLOCK \in Nat
  BY ProductMonotone, ObjectsPerBlock

LEMMA StoreMoves ==
  ASSUME ListInv, StoreInv, allocateFresh \/ allocateThrows
  PROVE  StoreInv'
<1>1. /\ blocks \in Nat /\ blocks' \in Nat /\ blocks <= blocks' /\ blocks >= 1
      /\ mLast \in Nat /\ mLast' = mLast + 1
      /\ blocks' # blocks => blocks' - 1 <= Block(mLast)
      /\ ~Growable => blocks' = blocks
      /\ refusals \in Nat /\ held \cup Freed \subseteq Nat
  <2>1. refusals \in Nat /\ held \cup skipped \subseteq Nat /\ blocks >= 1
    BY ConstantsAssumption, AddressFacts DEF ListInv, TypeOK
  <2>2. held \cup Freed \subseteq Nat
    BY <2>1 DEF ListInv, SlotsConserved
  <2> QED
    BY <2>1, <2>2, BlocksGrow DEF ListInv
<1>2. UNCHANGED <<mFreeStore, word, freed, storageType, undefined>> /\ ~undefined /\ Freed' = Freed
  BY DEF allocateFresh, allocateThrows, Freed
<1>3. Growable' <=> Growable
  BY <1>2 DEF Growable
<1>4. FixedInv'
  <2> SUFFICES ASSUME ~Growable
               PROVE  /\ blocks' = 1
                      /\ \A s \in held' \cup Freed : s < OBJECTS_PER_BLOCK
                      /\ \A s \in skipped' : s >= OBJECTS_PER_BLOCK
    BY <1>2, <1>3 DEF FixedInv
  <2>1. /\ blocks = 1
        /\ \A s \in held \cup Freed : s < OBJECTS_PER_BLOCK
        /\ \A s \in skipped : s >= OBJECTS_PER_BLOCK
    BY DEF StoreInv, FixedInv
  <2>2. OBJECTS_PER_BLOCK \in Nat
    BY ObjectsPerBlock
  <2>3. CASE allocateFresh
    BY <1>1, <2>1, <2>2, <2>3 DEF allocateFresh, OutOfBounds
  <2>4. CASE allocateThrows
    <3>1. mLast >= OBJECTS_PER_BLOCK
      <4>1. BlocksWanted(mLast) = 0
        BY DEF BlocksWanted
      <4>2. OutOfBounds(mLast)
        BY <2>4, <4>1 DEF allocateThrows
      <4> QED
        BY <4>2 DEF OutOfBounds
    <3> QED
      BY <1>1, <2>1, <2>2, <2>4, <3>1 DEF allocateThrows
  <2> QED
    BY <2>3, <2>4
<1>5. GrowthInv'
  <2> DEFINE P == OBJECTS_PER_BLOCK
             C == blocks * P
             D == blocks' * P
  <2> SUFFICES ASSUME Growable
               PROVE  /\ \A s \in held' \cup Freed : s < D
                      /\ blocks' > 1 => (blocks' - 1) * P < mLast'
                      /\ mLast' <= D + refusals'
                      /\ refusals' = 0 => skipped' = {}
    BY <1>2, <1>3 DEF GrowthInv, Capacity
  <2>1. /\ \A s \in held \cup Freed : s < C
        /\ blocks > 1 => (blocks - 1) * P < mLast
        /\ mLast <= C + refusals
        /\ refusals = 0 => skipped = {}
    BY DEF StoreInv, GrowthInv, Capacity
  <2>2. P \in Nat /\ P >= 1
    BY ObjectsPerBlock DEF ListInv, TypeOK, Growable
  <2>3. C <= D /\ C \in Nat /\ D \in Nat
    BY <1>1, CapacityMonotone
  <2>4. blocks' > 1 => (blocks' - 1) * P < mLast'
    <3>1. CASE blocks' = blocks
      <4>1. (blocks' - 1) * P = (blocks - 1) * P /\ (blocks - 1) * P \in Nat
        BY <1>1, <3>1, CapacityMonotone
      <4> HIDE DEF P
      <4> QED
        BY <1>1, <2>1, <3>1, <4>1
    <3>2. CASE blocks' # blocks
      <4>1. blocks' - 1 \in Nat /\ ~(Block(mLast) < blocks' - 1)
        <5>1. Block(mLast) \in Nat
          BY <1>1, <2>2, BlockBelow
        <5>2. blocks' \in Nat /\ blocks' >= 1
          BY <1>1
        <5>3. blocks' - 1 <= Block(mLast)
          BY <1>1, <3>2, Zenon
        <5>4. \A m, n \in Nat : n >= 1 /\ n - 1 <= m => n - 1 \in Nat /\ ~(m < n - 1)
          OBVIOUS
        <5> QED
          BY <5>1, <5>2, <5>3, <5>4, Zenon
      <4>2. ~(mLast < (blocks' - 1) * P) /\ (blocks' - 1) * P \in Nat
        BY <1>1, <2>2, <4>1, BlockBelow
      <4> HIDE DEF P
      <4> QED
        BY <1>1, <4>2
    <3> QED
      BY <3>1, <3>2
  <2>5. CASE allocateFresh
    <3>1. mLast < D
      <4>1. Block(mLast) < blocks'
        BY <2>5 DEF allocateFresh
      <4> QED
        BY <1>1, <2>2, <4>1, BlockBelow
    <3>2. held' = held \cup {mLast} /\ UNCHANGED <<skipped, refusals>>
      BY <2>5 DEF allocateFresh
    <3> HIDE DEF P, C, D
    <3> QED
      BY <1>1, <2>1, <2>3, <2>4, <3>1, <3>2
  <2>6. CASE allocateThrows
    <3>1. held' = held /\ refusals' = refusals + 1
      BY <2>6 DEF allocateThrows, OutOfBounds
    <3> HIDE DEF P, C, D
    <3> QED
      BY <1>1, <2>1, <2>3, <2>4, <3>1
  <2> QED
    BY <2>5, <2>6
<1> QED
  BY <1>2, <1>4, <1>5 DEF StoreInv

(* A block that is used before it is there is at least the second one that *)
(* is missing: what was refused meanwhile is a block's worth of indices.   *)
LEMMA StoreUndefined ==
  ASSUME ListInv, StoreInv, allocateUndefined
  PROVE  StoreInv'
<1> DEFINE P == OBJECTS_PER_BLOCK
<1>1. /\ blocks \in Nat /\ mLast \in Nat /\ refusals \in Nat /\ Growable
      /\ Block(mLast) >= blocks + BlocksWanted(mLast)
      /\ P \in Nat /\ P >= 1 /\ Block(mLast) \in Nat
  BY ConstantsAssumption, ObjectsPerBlock, BlocksWantedFacts
     DEF ListInv, TypeOK, allocateUndefined, Growable
<1>2. Block(mLast) >= blocks + 1
  BY <1>1, BlocksWantedFacts DEF ListInv
<1>3. mLast >= (blocks + 1) * P
  <2>1. ~(Block(mLast) < blocks + 1)
    BY <1>1, <1>2
  <2>2. ~(mLast < (blocks + 1) * P) /\ (blocks + 1) * P \in Nat
    BY <1>1, <2>1, BlockBelow
  <2> HIDE DEF P
  <2> QED
    BY <1>1, <2>2
<1>4. mLast <= blocks * P + refusals
  BY <1>1 DEF StoreInv, GrowthInv, Capacity
<1>5. refusals >= P
  <2>1. blocks * P \in Nat
    BY <1>1, CapacityMonotone
  <2> HIDE DEF P
  <2>2. (blocks + 1) * P = blocks * P + P
    BY <1>1
  <2> QED
    BY <1>1, <1>3, <1>4, <2>1, <2>2
<1> QED
  BY <1>5 DEF allocateUndefined, StoreInv, FixedInv, GrowthInv, Growable, Capacity, Freed

LEMMA StoreNext == ListInv /\ StoreInv /\ [Next]_vars => StoreInv'
<1> SUFFICES ASSUME ListInv, StoreInv, [Next]_vars
             PROVE  StoreInv'
  OBVIOUS
<1>1. CASE allocateFreed
  <2>1. Freed' = Freed \ {mFreeStore} /\ mFreeStore \in Freed
    <3>1. Chained(mFreeStore, word, freed) /\ freed # <<>> /\ freed \in Seq(Slot) /\ mFreeStore = freed[1]
      BY <1>1, FreeChainLinks DEF ListInv, TypeOK, allocateFreed, Chained
    <3>2. Elements(Tail(freed)) = Elements(freed) \ {mFreeStore} /\ Len(freed) \in Nat /\ Len(freed) >= 1
      BY <3>1, TailElements, TailShifts DEF ListInv
    <3>3. mFreeStore \in Elements(freed)
      BY <3>1, <3>2 DEF Elements
    <3> QED
      BY <1>1, <3>2, <3>3, FreedElements DEF allocateFreed
  <2> QED
    BY <1>1, <2>1, StoreKept DEF allocateFreed
<1>2. CASE allocateFresh \/ allocateThrows
  BY <1>2, StoreMoves
<1>3. CASE allocateUndefined
  BY <1>3, StoreUndefined
<1>4. ASSUME NEW s \in held, deallocate(s)
      PROVE  StoreInv'
  <2>1. Freed' = Freed \cup {s}
    <3>1. freed \in Seq(Slot) /\ s \in Slot /\ s \notin Elements(freed) /\ Distinct(freed)
      BY FreedElements DEF ListInv, TypeOK, SlotsConserved
    <3> QED
      BY <1>4, <3>1, ConsElements, FreedElements DEF deallocate
  <2> QED
    BY <1>4, <2>1, StoreKept DEF deallocate
<1>5. ASSUME NEW s \in Slot, clientWrites(s)
      PROVE  StoreInv'
  BY <1>5, StoreKept DEF clientWrites, Freed
<1>6. CASE UNCHANGED vars
  BY <1>6, StoreKept DEF vars, Freed
<1> QED
  BY <1>1, <1>2, <1>3, <1>4, <1>5, <1>6 DEF Next

(* What the invariants say of a slot that was handed out.                  *)
LEMMA StoreSlots ==
  ASSUME ListInv, StoreInv, NEW s \in held \cup Freed
  PROVE  s \in Nat /\ OBJECTS_PER_BLOCK >= 1 /\ Block(s) \in Nat /\ Block(s) < blocks
<1>1. s \in Nat /\ blocks \in Nat /\ mLast \in Nat
  <2>1. held \cup Freed \subseteq 0 .. mLast - 1 /\ mLast \in Nat /\ blocks \in Nat
    BY ConstantsAssumption DEF ListInv, SlotsConserved, TypeOK
  <2> QED
    BY <2>1
<1>2. CASE Growable
  <2>1. OBJECTS_PER_BLOCK >= 1
    BY <1>2, ObjectsPerBlock DEF ListInv, TypeOK, Growable
  <2>2. s < blocks * OBJECTS_PER_BLOCK
    BY <1>2 DEF StoreInv, GrowthInv, Capacity
  <2> QED
    BY <1>1, <2>1, <2>2, BlockBelow
<1>3. CASE ~Growable
  <2>1. blocks = 1 /\ s < OBJECTS_PER_BLOCK
    BY <1>3 DEF StoreInv, FixedInv
  <2>2. OBJECTS_PER_BLOCK >= 1
    BY <1>1, <2>1, ObjectsPerBlock
  <2>3. s < 1 * OBJECTS_PER_BLOCK
    BY <2>1, ObjectsPerBlock
  <2> QED
    BY <1>1, <2>1, <2>2, <2>3, BlockBelow
<1> QED
  BY <1>2, <1>3

LEMMA StoreImpliesInStorage == ListInv /\ StoreInv => SlotsInStorage
<1> SUFFICES ASSUME ListInv, StoreInv, NEW s \in held \cup Freed
             PROVE  /\ Block(s) < blocks
                    /\ Offset(s) % PointerSize = 0
                    /\ LastByte(s) < BLOCK_SIZE
                    /\ \A t \in held \cup Freed :
                         Block(t) = Block(s) /\ t # s =>
                           LastByte(s) < Offset(t) \/ LastByte(t) < Offset(s)
  BY DEF SlotsInStorage
<1> DEFINE P == OBJECTS_PER_BLOCK
           O == OBJECT_SIZE
           used == IF Size > PointerSize THEN Size ELSE PointerSize
<1>1. O \in Nat \ {0} /\ used \in Nat \ {0} /\ used <= O
  BY ObjectSize, ConstantsAssumption
<1>2. P \in Nat /\ P >= 1 /\ P \in Nat \ {0}
  BY StoreSlots, ObjectsPerBlock
<1>3. ASSUME NEW t \in held \cup Freed
      PROVE  /\ t \in Nat /\ t % P \in Nat /\ t % P <= P - 1 /\ t = P * Block(t) + (t % P)
             /\ Offset(t) = (t % P) * O /\ Offset(t) \in Nat
             /\ LastByte(t) = Offset(t) + used - 1
  <2>1. t \in Nat
    BY StoreSlots
  <2>2. t % P \in 0 .. P - 1 /\ t = P * (t \div P) + (t % P)
    BY <1>2, <2>1, Division
  <2>3. t % P \in Nat /\ t % P <= P - 1
    BY <1>2, <2>2
  <2>4. (t % P) * O \in Nat
    BY <1>1, <2>3, ProductMonotone
  <2> QED
    BY <2>1, <2>2, <2>3, <2>4 DEF Offset, LastByte, Block
<1>4. Block(s) < blocks
  BY StoreSlots
<1>5. Offset(s) % PointerSize = 0
  <2>1. PICK q \in Nat : O = q * PointerSize
    BY ObjectSize
  <2> DEFINE m == s % P
  <2>2. m \in Nat /\ Offset(s) = m * O
    BY <1>3
  <2> HIDE DEF m
  <2>3. m * q \in Nat
    BY <2>1, <2>2, ProductMonotone
  <2>4. Offset(s) = (m * q) * PointerSize
    BY <2>1, <2>2, ConstantsAssumption
  <2> QED
    BY <2>3, <2>4, ProductDivides, ConstantsAssumption
<1>6. LastByte(s) < BLOCK_SIZE
  <2> DEFINE m == s % P
  <2>1. m \in Nat /\ m <= P - 1 /\ LastByte(s) = m * O + used - 1
    BY <1>3
  <2>2. BLOCK_SIZE = P * O
    BY DEF BLOCK_SIZE
  <2> HIDE DEF m, P, O, used
  <2>3. m + 1 \in Nat /\ m + 1 <= P
    BY <1>2, <2>1
  <2>4. (m + 1) * O <= P * O /\ P * O \in Nat /\ (m + 1) * O \in Nat
    BY <1>1, <1>2, <2>3, ProductMonotone
  <2>5. (m + 1) * O = m * O + O /\ m * O \in Nat
    BY <1>1, <2>1, ProductMonotone
  <2> QED
    BY <1>1, <2>1, <2>2, <2>4, <2>5
<1>7. ASSUME NEW t \in held \cup Freed, NEW u \in held \cup Freed, t % P < u % P
      PROVE  LastByte(t) < Offset(u)
  <2> DEFINE m == t % P
             n == u % P
  <2>1. m \in Nat /\ n \in Nat /\ m < n /\ LastByte(t) = m * O + used - 1 /\ Offset(u) = n * O
    BY <1>3, <1>7
  <2> HIDE DEF m, n, P, O, used
  <2>2. (m + 1) * O <= n * O /\ n * O \in Nat
    BY <1>1, <2>1, ProductMonotone
  <2>3. (m + 1) * O = m * O + O /\ m * O \in Nat
    BY <1>1, <2>1, ProductMonotone
  <2> QED
    BY <1>1, <2>1, <2>2, <2>3
<1>8. ASSUME NEW t \in held \cup Freed, Block(t) = Block(s), t # s
      PROVE  LastByte(s) < Offset(t) \/ LastByte(t) < Offset(s)
  <2>1. t % P # s % P
    BY <1>3, <1>8
  <2>2. t % P \in Nat /\ s % P \in Nat
    BY <1>3
  <2>3. t % P < s % P \/ s % P < t % P
    <3>1. \A m, n \in Nat : m # n => m < n \/ n < m
      OBVIOUS
    <3> QED
      BY <2>1, <2>2, <3>1
  <2> QED
    BY <1>7, <2>3
<1> QED
  BY <1>4, <1>5, <1>6, <1>8

LEMMA StoreImpliesFixed == ListInv /\ StoreInv => FixedThrowsOnlyWhenFull
<1> SUFFICES ASSUME ListInv, StoreInv, ~Growable
             PROVE  /\ mFreeStore = NULL /\ OutOfBounds(mLast) => held = 0 .. OBJECTS_PER_BLOCK - 1
                    /\ \A s \in skipped : s >= OBJECTS_PER_BLOCK
  BY DEF FixedThrowsOnlyWhenFull
<1>1. /\ \A s \in held \cup Freed : s < OBJECTS_PER_BLOCK
      /\ \A s \in skipped : s >= OBJECTS_PER_BLOCK
  BY DEF StoreInv, FixedInv
<1>2. ASSUME mFreeStore = NULL, OutOfBounds(mLast)
      PROVE  held = 0 .. OBJECTS_PER_BLOCK - 1
  <2>1. Freed = {}
    <3>1. freed \in Seq(Slot) /\ Chained(mFreeStore, word, freed)
      BY FreeChainLinks DEF ListInv, TypeOK
    <3>2. freed # <<>> => freed[1] \in Slot
      BY <3>1
    <3>3. freed = <<>>
      BY <1>2, <3>1, <3>2, AddressFacts DEF Chained
    <3> QED
      BY <3>3 DEF Freed
  <2>2. mLast >= OBJECTS_PER_BLOCK /\ mLast \in Nat /\ OBJECTS_PER_BLOCK \in Nat
    BY <1>2, ObjectsPerBlock, ConstantsAssumption DEF OutOfBounds, ListInv, TypeOK
  <2>3. held \cup skipped = 0 .. mLast - 1
    BY <2>1 DEF ListInv, SlotsConserved
  <2> HIDE DEF OBJECTS_PER_BLOCK
  <2>4. \A s \in held : s \in 0 .. OBJECTS_PER_BLOCK - 1
    BY <1>1, <2>2, <2>3
  <2>5. \A s \in 0 .. OBJECTS_PER_BLOCK - 1 : s \in held
    BY <1>1, <2>2, <2>3
  <2> QED
    BY <2>4, <2>5
<1> QED
  BY <1>1, <1>2

LEMMA StoreImpliesGrows == StoreInv /\ TypeOK => GrowsOnlyWhenUsedUp
<1> SUFFICES ASSUME StoreInv, TypeOK, Growable
             PROVE  /\ blocks > 1 => (blocks - 1) * OBJECTS_PER_BLOCK < mLast
                    /\ refusals = 0 => mLast <= Capacity /\ skipped = {}
  BY DEF GrowsOnlyWhenUsedUp
<1>1. blocks \in Nat /\ Capacity \in Nat
  BY CapacityMonotone DEF TypeOK, Capacity
<1> QED
  BY <1>1 DEF StoreInv, GrowthInv

-----------------------------------------------------------------------------
(* FreeStore implements HandleTable, keyed by slot: allocate inserts,      *)
(* deallocate deletes and only clients change what a slot holds.           *)

LEMMA FreedHeadNotHeld ==
  ASSUME ListInv, allocateFreed
  PROVE  mFreeStore \in Slot /\ mFreeStore \notin held
<1>1. freed \in Seq(Slot) /\ Chained(mFreeStore, word, freed) /\ freed # <<>> /\ mFreeStore = freed[1]
  BY FreeChainLinks DEF ListInv, TypeOK, allocateFreed, Chained
<1>2. mFreeStore \in Elements(freed) /\ mFreeStore \in Slot
  BY <1>1, TailShifts DEF Elements
<1> QED
  BY <1>2, FreedElements DEF ListInv, SlotsConserved

LEMMA AllocateInserts ==
  ASSUME ListInv, allocateFreed \/ allocateFresh
  PROVE  \E k \in Slot, v \in Words : Table!Insert(k, v)
<1>1. PICK k \in Slot : k \notin held /\ held' = held \cup {k} /\ word' = word
  <2>1. CASE allocateFreed
    BY <2>1, FreedHeadNotHeld DEF allocateFreed
  <2>2. CASE allocateFresh
    <3>1. mLast \in Slot /\ mLast \in Nat
      BY <2>2, BlocksGrow DEF ListInv
    <3>2. mLast \notin held
      BY <3>1 DEF ListInv, SlotsConserved
    <3> QED
      BY <2>2, <3>1, <3>2 DEF allocateFresh
  <2> QED
    BY <2>1, <2>2
<1>2. word[k] \in Words
  BY AddressFacts DEF ListInv, TypeOK
<1>3. Contents' = [x \in DOMAIN Contents \cup {k} |-> IF x = k THEN word[k] ELSE Contents[x]]
  BY <1>1 DEF Contents
<1> QED
  BY <1>1, <1>2, <1>3 DEF Table!Insert, Contents

LEMMA DeallocateDeletes ==
  ASSUME ListInv, NEW s \in held, deallocate(s)
  PROVE  s \in Slot /\ Table!Delete(s)
<1>1. word \in [Address -> Words] /\ held \subseteq Slot /\ held \subseteq Address
  BY AddressFacts DEF ListInv, TypeOK
<1>2. \A x \in held \ {s} : word'[x] = word[x]
  BY <1>1 DEF deallocate, Linked
<1>3. Contents' = [x \in DOMAIN Contents \ {s} |-> Contents[x]]
  BY <1>2 DEF Contents, deallocate
<1> QED
  BY <1>1, <1>3 DEF Table!Delete, Contents

LEMMA ClientWritesAssigns ==
  ASSUME ListInv, NEW s \in Slot, clientWrites(s)
  PROVE  Table!Assign(s, ClientData)
<1>1. word \in [Address -> Words] /\ held \subseteq Address /\ s \in held
  BY AddressFacts DEF ListInv, TypeOK, clientWrites
<1>2. held' = held /\ word'[s] = ClientData /\ \A x \in held \ {s} : word'[x] = word[x]
  BY <1>1 DEF clientWrites
<1>3. Contents' = [Contents EXCEPT ![s] = ClientData]
  BY <1>1, <1>2 DEF Contents
<1> QED
  BY <1>1, <1>3 DEF Table!Assign, Contents

LEMMA StoreStepsTable == ListInv /\ [Next]_vars => [Table!Next]_Contents
<1> SUFFICES ASSUME ListInv, [Next]_vars
             PROVE  Table!Next \/ Contents' = Contents
  OBVIOUS
<1>1. CASE allocateFreed \/ allocateFresh
  BY <1>1, AllocateInserts DEF Table!Next
<1>2. ASSUME NEW s \in held, deallocate(s)
      PROVE  Table!Next
  BY <1>2, DeallocateDeletes DEF Table!Next
<1>3. ASSUME NEW s \in Slot, clientWrites(s)
      PROVE  Table!Next
  BY <1>3, ClientWritesAssigns, AddressFacts DEF Table!Next
<1>4. CASE allocateThrows \/ allocateUndefined \/ UNCHANGED vars
  BY <1>4 DEF allocateThrows, allocateUndefined, vars, Contents
<1> QED
  BY <1>1, <1>2, <1>3, <1>4 DEF Next

LEMMA StoreInitTable == Init => Table!Init
<1> SUFFICES ASSUME Init
             PROVE  Contents = Table!Empty
  BY DEF Table!Init
<1> QED
  BY DEF Init, Contents, Table!Empty

-----------------------------------------------------------------------------
(* The theorems. *)

LEMMA StoreInvariant == Spec => [](ListInv /\ StoreInv)
<1>1. Init => ListInv /\ StoreInv
  BY ListInit, StoreInit
<1>2. ListInv /\ StoreInv /\ [Next]_vars => (ListInv /\ StoreInv)'
  BY ListNext, StoreNext
<1> QED
  BY <1>1, <1>2, PTL DEF Spec

(* The head of the free list is always a slot or NULL, whatever clients    *)
(* left in the memory of freed slots.                                      *)
THEOREM StoreTypeCorrect == Spec => []TypeOK
<1>1. ListInv => TypeOK
  BY DEF ListInv
<1> QED
  BY <1>1, StoreInvariant, PTL

(* The words of the freed slots chain them in the order they are reused.   *)
THEOREM FreeChainCorrect == Spec => []FreeChain
<1>1. ListInv => FreeChain
  BY DEF ListInv
<1> QED
  BY <1>1, StoreInvariant, PTL

(* No slot is handed out twice, freed twice or lost but by an allocate     *)
(* that threw.                                                             *)
THEOREM SlotsAreConserved == Spec => []SlotsConserved
<1>1. ListInv => SlotsConserved
  BY DEF ListInv
<1> QED
  BY <1>1, StoreInvariant, PTL

(* Every slot handed out lies in a block that exists, aligned, with room   *)
(* for the object and for the link, and shares no byte with another, for   *)
(* every size of object, pointer and block.                                *)
THEOREM SlotsLieInStorage == Spec => []SlotsInStorage
  BY StoreImpliesInStorage, StoreInvariant, PTL

(* A fixed storage throws only when every slot of it is held.              *)
THEOREM FixedStorageFillsUp == Spec => []FixedThrowsOnlyWhenFull
  BY StoreImpliesFixed, StoreInvariant, PTL

(* A block is added only when every slot before it has been asked for.     *)
THEOREM StorageGrowsWhenUsedUp == Spec => []GrowsOnlyWhenUsedUp
<1>1. ListInv /\ StoreInv => GrowsOnlyWhenUsedUp
  BY StoreImpliesGrows DEF ListInv
<1> QED
  BY <1>1, StoreInvariant, PTL

(* A block that does not exist is used only after a block's worth of       *)
(* refusals.                                                               *)
THEOREM UndefinedNeedsRefusals == Spec => []UndefinedOnlyAfterRefusals
<1>1. StoreInv => UndefinedOnlyAfterRefusals
  BY DEF StoreInv, UndefinedOnlyAfterRefusals
<1> QED
  BY <1>1, StoreInvariant, PTL

(* Every behaviour of the store, read through its slots, is one of         *)
(* HandleTable.                                                            *)
THEOREM StoreImplementsTable == Spec => ImplementsTable
<1>1. Init => Table!Init
  BY StoreInitTable
<1>2. ListInv /\ StoreInv /\ [Next]_vars => [Table!Next]_Contents
  BY StoreStepsTable
<1> QED
  BY <1>1, <1>2, StoreInvariant, PTL DEF Spec, ImplementsTable, Table!Spec
=============================================================================
