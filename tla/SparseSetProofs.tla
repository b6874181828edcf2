-------------------------- MODULE SparseSetProofs --------------------------
(***************************************************************************)
(* What SparseSet guarantees for every capacity, every width of a serial   *)
(* and every growth, to clients that call collect, reserve and clear in    *)
(* the states they are made for.                                           *)
(***************************************************************************)
EXTENDS SparseSet, Facts, FiniteSetTheorems, TLAPS

Careful == Habits = {}

-----------------------------------------------------------------------------
(* The invariant.                                                          *)
(*                                                                         *)
(* IndexMapsInverse relates a position to its slot; a step that starts     *)
(* from a handle needs the other direction too, and alloc, when it grows   *)
(* the set, that a slot without a position is as good as new: Pairs.       *)

Shape(sparse, dense, back, top) ==
  \E n \in back .. top, m \in back .. top :
    /\ m <= n
    /\ sparse \in [0 .. n - 1 -> SparseSlotIndex]
    /\ dense \in [0 .. m - 1 -> DenseSlotIndex]

Pairs(sparse, dense) ==
  /\ \A d \in DOMAIN dense :
       /\ dense[d].sparse_slot_index \in DOMAIN dense
       /\ sparse[dense[d].sparse_slot_index].dense_slot_index = d
       /\ sparse[dense[d].sparse_slot_index].alive <=> dense[d].alive
  /\ \A s \in DOMAIN dense :
       /\ sparse[s].dense_slot_index \in DOMAIN dense
       /\ dense[sparse[s].dense_slot_index].sparse_slot_index = s
  /\ \A s \in DOMAIN sparse \ DOMAIN dense : sparse[s] = NewSparse

Alive == {d \in DOMAIN mDense : mDense[d].alive}

(* A handle that names a live object, set or not. *)
KnownIn(sparse, h) ==
  /\ h.slot_index \in DOMAIN sparse
  /\ sparse[h.slot_index].alive
  /\ sparse[h.slot_index].slot_serial = h.slot_serial
Known(h) == KnownIn(mSparse, h)

(* There is one such handle for every object the clients have not freed,   *)
(* or could not be given.                                                  *)
HandlesInv ==
  /\ DOMAIN live \cap lost = {}
  /\ DOMAIN live \cup lost = {h \in Handle : Known(h)}
  /\ \A h \in DOMAIN live : live[h] \in Values /\ get(h) = live[h]

CountInv ==
  /\ \A d \in Alive : d < mBack
  /\ IsFiniteSet(DOMAIN live) /\ IsFiniteSet(lost)
  /\ Cardinality(Alive) = Cardinality(DOMAIN live) + Cardinality(lost)
  /\ Idle => Cardinality(Alive) = mBack - mUncollected

(* Why the loop of collect does not run past the live objects: as long as  *)
(* there is a hole left of i, the object whose position is the number of   *)
(* live ones is a live one.                                                *)
CollectInv ==
  ~Idle =>
    /\ i <= mBack
    /\ \A d \in DOMAIN mDense : d < i => mDense[d].alive
    /\ Cardinality(Alive) \in Alive \/ mBack = Cardinality(Alive)
    /\ pc = "trim" => i < mBack /\ ~mDense[i].alive

SetInv ==
  /\ TypeOK
  /\ Pairs(mSparse, mDense)
  /\ HandlesInv
  /\ CountInv
  /\ CollectInv

-----------------------------------------------------------------------------
(* The two vectors of indices. *)

LEMMA TypeShape ==
  TypeOK <=> /\ capacity \in 0 .. MaxCapacity
             /\ mBack \in 0 .. MaxCapacity
             /\ mUncollected \in Nat
             /\ Shape(mSparse, mDense, mBack, capacity)
             /\ mData \in [Positions -> Values \cup {NoValue}]
             /\ pc \in {"idle", "scan", "trim"}
             /\ i \in 0 .. MaxCapacity
  BY DEF TypeOK, Shape

LEMMA ShapeFacts ==
  ASSUME NEW b \in Nat, NEW c \in 0 .. MaxCapacity, NEW sparse, NEW dense,
         Shape(sparse, dense, b, c)
  PROVE  /\ b <= c
         /\ \E n \in b .. c, m \in b .. c :
              m <= n /\ DOMAIN sparse = 0 .. n - 1 /\ DOMAIN dense = 0 .. m - 1
         /\ DOMAIN dense \subseteq DOMAIN sparse
         /\ DOMAIN sparse \subseteq Slot /\ DOMAIN sparse \subseteq 0 .. c - 1
         /\ 0 .. b - 1 \subseteq DOMAIN dense
         /\ IsFiniteSet(DOMAIN dense)
         /\ sparse \in [DOMAIN sparse -> SparseSlotIndex]
         /\ dense \in [DOMAIN dense -> DenseSlotIndex]
<1>1. PICK n \in b .. c, m \in b .. c :
        /\ m <= n
        /\ sparse \in [0 .. n - 1 -> SparseSlotIndex]
        /\ dense \in [0 .. m - 1 -> DenseSlotIndex]
  BY DEF Shape
<1>2. DOMAIN sparse = 0 .. n - 1 /\ DOMAIN dense = 0 .. m - 1
  BY <1>1
<1>3. n \in Int /\ m \in Int /\ b <= m /\ m <= n /\ n <= c /\ c <= MaxCapacity /\ MaxCapacity \in Nat
  BY <1>1, ConstantsAssumption
<1>4. IsFiniteSet(0 .. m - 1)
  BY <1>3, FS_Interval
<1>5. /\ 0 .. m - 1 \subseteq 0 .. n - 1 /\ 0 .. n - 1 \subseteq Slot /\ 0 .. n - 1 \subseteq 0 .. c - 1
      /\ 0 .. b - 1 \subseteq 0 .. m - 1
  BY <1>3 DEF Slot
<1>6. \E k \in b .. c, l \in b .. c :
        l <= k /\ DOMAIN sparse = 0 .. k - 1 /\ DOMAIN dense = 0 .. l - 1
  BY <1>1, <1>2
<1>7. b <= c
  BY <1>3
<1> QED
  BY <1>1, <1>2, <1>4, <1>5, <1>6, <1>7

(* The fields of the elements. *)
LEMMA Fields ==
  /\ \A e \in SparseSlotIndex :
       e.alive \in BOOLEAN /\ e.slot_serial \in Serial /\ e.dense_slot_index \in Slot
  /\ \A e \in DenseSlotIndex : e.alive \in BOOLEAN /\ e.sparse_slot_index \in Slot
  BY DEF SparseSlotIndex, DenseSlotIndex

LEMMA AliveFinite ==
  ASSUME SetInv
  PROVE  IsFiniteSet(Alive) /\ Cardinality(Alive) \in Nat
<1>1. IsFiniteSet(DOMAIN mDense)
  BY TypeShape, ShapeFacts, ConstantsAssumption DEF SetInv
<1>2. IsFiniteSet(Alive)
  BY <1>1, FS_Subset DEF Alive
<1> QED
  BY <1>2, FS_CardinalityType

(* If the unused positions are paired with unused slots, then with all of  *)
(* them: the others have the rest.                                         *)
LEMMA UsedPairs ==
  ASSUME SetInv, ReserveSafe, NEW d \in DOMAIN mDense, d < mBack
  PROVE  mDense[d].sparse_slot_index < mBack
<1>1. PICK n \in mBack .. capacity, m \in mBack .. capacity :
        m <= n /\ DOMAIN mSparse = 0 .. n - 1 /\ DOMAIN mDense = 0 .. m - 1
  BY TypeShape, ShapeFacts, ConstantsAssumption DEF SetInv
<1>2. mBack \in Nat /\ m \in Nat
  BY <1>1, ConstantsAssumption DEF SetInv, TypeOK
<1> DEFINE T == mBack .. m - 1
           f == [e \in T |-> mDense[e].sparse_slot_index]
<1>3. \A e \in DOMAIN mDense :
        /\ mDense[e].sparse_slot_index \in DOMAIN mDense
        /\ mSparse[mDense[e].sparse_slot_index].dense_slot_index = e
  BY DEF SetInv, Pairs
<1>4. T \subseteq DOMAIN mDense
  BY <1>1, <1>2
<1>5. \A e \in T : mDense[e].sparse_slot_index \in T
  BY <1>1, <1>2, <1>3, <1>4 DEF ReserveSafe
<1>6. f \in Injection(T, T)
  <2>1. f \in [T -> T]
    BY <1>5
  <2>2. \A x, y \in T : f[x] = f[y] => x = y
    BY <1>3, <1>4
  <2> QED
    BY <2>1, <2>2 DEF Injection, IsInjective
<1>7. f \in Surjection(T, T)
  BY <1>2, <1>6, FS_Interval, FS_Injection
<1> SUFFICES ASSUME ~(mDense[d].sparse_slot_index < mBack)
             PROVE  FALSE
  OBVIOUS
<1>8. mDense[d].sparse_slot_index \in T
  BY <1>1, <1>2, <1>3
<1>9. PICK e \in T : f[e] = mDense[d].sparse_slot_index
  BY <1>7, <1>8 DEF Surjection
<1>10. e = d
  BY <1>3, <1>4, <1>9
<1> QED
  BY <1>2, <1>10

-----------------------------------------------------------------------------
(* reserve.  What it does to one element of each vector.                   *)

LEMMA ReservedElements ==
  ASSUME TypeOK, NEW n \in 0 .. MaxCapacity, n >= capacity
  PROVE  /\ DOMAIN ReservedSparse(n) = 0 .. n - 1
         /\ DOMAIN ReservedDense(n) = 0 .. n - 1
         /\ DOMAIN mSparse \subseteq 0 .. n - 1
         /\ \A s \in 0 .. n - 1 :
              LET e == ReservedSparse(n)[s]
              IN  /\ e \in SparseSlotIndex
                  /\ s < mBack => s \in DOMAIN mSparse /\ s \in DOMAIN mDense /\ e = mSparse[s]
                  /\ s >= mBack => e.dense_slot_index = s
                  /\ s \in DOMAIN mSparse =>
                       /\ e.alive = mSparse[s].alive
                       /\ e.slot_serial = mSparse[s].slot_serial
                  /\ s \notin DOMAIN mSparse => ~e.alive
         /\ \A d \in 0 .. n - 1 :
              LET e == ReservedDense(n)[d]
              IN  /\ e \in DenseSlotIndex
                  /\ d < mBack => e = mDense[d]
                  /\ d >= mBack => e.sparse_slot_index = d
                  /\ d \in DOMAIN mDense => e.alive = mDense[d].alive
                  /\ d \notin DOMAIN mDense => ~e.alive
<1>1. /\ mBack \in Nat /\ capacity \in 0 .. MaxCapacity /\ n \in Nat /\ capacity \in Nat
      /\ MaxCapacity \in Nat
  BY ConstantsAssumption DEF TypeOK
<1>2. /\ DOMAIN mSparse \subseteq 0 .. n - 1 /\ 0 .. mBack - 1 \subseteq DOMAIN mDense
      /\ DOMAIN mDense \subseteq DOMAIN mSparse
      /\ mSparse \in [DOMAIN mSparse -> SparseSlotIndex]
      /\ mDense \in [DOMAIN mDense -> DenseSlotIndex]
  <2>1. DOMAIN mSparse \subseteq 0 .. capacity - 1 /\ 0 .. capacity - 1 \subseteq 0 .. n - 1
    BY <1>1, TypeShape, ShapeFacts
  <2> QED
    BY <1>1, <2>1, TypeShape, ShapeFacts
<1>3. 0 .. n - 1 \subseteq Slot
  BY <1>1 DEF Slot
<1>4. ASSUME NEW s \in 0 .. n - 1
      PROVE  NewSparse \in SparseSlotIndex /\ NewDense \in DenseSlotIndex
  <2>1. 0 \in Slot
    BY <1>1 DEF Slot
  <2>2. 0 \in Serial
    BY ConstantsAssumption DEF Serial
  <2> QED
    BY <2>1, <2>2 DEF NewSparse, NewDense, SparseSlotIndex, DenseSlotIndex
<1>5. ASSUME NEW s \in 0 .. n - 1
      PROVE  LET e == ReservedSparse(n)[s]
              IN  /\ e \in SparseSlotIndex
                  /\ s < mBack => s \in DOMAIN mSparse /\ s \in DOMAIN mDense /\ e = mSparse[s]
                  /\ s >= mBack => e.dense_slot_index = s
                  /\ s \in DOMAIN mSparse =>
                       /\ e.alive = mSparse[s].alive
                       /\ e.slot_serial = mSparse[s].slot_serial
                  /\ s \notin DOMAIN mSparse => ~e.alive
  <2> DEFINE old == IF s \in DOMAIN mSparse THEN mSparse[s] ELSE NewSparse
             e == IF s >= mBack THEN [old EXCEPT !.dense_slot_index = s] ELSE old
  <2>1. ReservedSparse(n)[s] = e
    BY DEF ReservedSparse, Resized
  <2>2. old \in SparseSlotIndex /\ s \in Slot
    BY <1>2, <1>3, <1>4
  <2>3. s < mBack => s \in DOMAIN mSparse /\ s \in DOMAIN mDense
    BY <1>1, <1>2
  <2>4. ~NewSparse.alive
    BY DEF NewSparse
  <2>5. e \in SparseSlotIndex
    BY <2>2 DEF SparseSlotIndex
  <2>6. e.alive = old.alive /\ e.slot_serial = old.slot_serial /\ (s >= mBack => e.dense_slot_index = s)
    BY <2>2 DEF SparseSlotIndex
  <2>7. s < mBack => e = old
    BY <1>1
  <2> HIDE DEF e
  <2> QED
    BY <2>1, <2>3, <2>4, <2>5, <2>6, <2>7
<1>6. ASSUME NEW d \in 0 .. n - 1
      PROVE  LET e == ReservedDense(n)[d]
              IN  /\ e \in DenseSlotIndex
                  /\ d < mBack => e = mDense[d]
                  /\ d >= mBack => e.sparse_slot_index = d
                  /\ d \in DOMAIN mDense => e.alive = mDense[d].alive
                  /\ d \notin DOMAIN mDense => ~e.alive
  <2> DEFINE old == IF d \in DOMAIN mDense THEN mDense[d] ELSE NewDense
             e == IF d >= mBack THEN [old EXCEPT !.sparse_slot_index = d] ELSE old
  <2>1. ReservedDense(n)[d] = e
    BY DEF ReservedDense, Resized
  <2>2. old \in DenseSlotIndex /\ d \in Slot
    BY <1>2, <1>3, <1>4
  <2>3. d < mBack => d \in DOMAIN mDense
    BY <1>1, <1>2
  <2>4. ~NewDense.alive
    BY DEF NewDense
  <2>5. e \in DenseSlotIndex
    BY <2>2 DEF DenseSlotIndex
  <2>6. e.alive = old.alive /\ (d >= mBack => e.sparse_slot_index = d)
    BY <2>2 DEF DenseSlotIndex
  <2>7. d < mBack => e = old
    BY <1>1
  <2> HIDE DEF e
  <2> QED
    BY <2>1, <2>3, <2>4, <2>5, <2>6, <2>7
<1>7. DOMAIN ReservedSparse(n) = 0 .. n - 1 /\ DOMAIN ReservedDense(n) = 0 .. n - 1
  BY DEF ReservedSparse, ReservedDense
<1> QED
  BY <1>2, <1>5, <1>6, <1>7

LEMMA ReservedFunctions ==
  ASSUME NEW n \in Nat
  PROVE  /\ ReservedSparse(n) = [s \in 0 .. n - 1 |-> ReservedSparse(n)[s]]
         /\ ReservedDense(n) = [d \in 0 .. n - 1 |-> ReservedDense(n)[d]]
  BY DEF ReservedSparse, ReservedDense

(* A reserve that is safe keeps the pairing and what is in use.            *)
LEMMA ReservePairs ==
  ASSUME SetInv, Idle, ReserveSafe, NEW n \in 0 .. MaxCapacity, n >= capacity
  PROVE  /\ Shape(ReservedSparse(n), ReservedDense(n), mBack, n)
         /\ Pairs(ReservedSparse(n), ReservedDense(n))
         /\ {d \in 0 .. n - 1 : ReservedDense(n)[d].alive} = Alive
         /\ \A s \in DOMAIN mSparse :
              mSparse[s].alive =>
                ReservedSparse(n)[s].dense_slot_index = mSparse[s].dense_slot_index
<1> DEFINE sparse == ReservedSparse(n)
           dense == ReservedDense(n)
           R == 0 .. n - 1
<1>1. TypeOK
  BY DEF SetInv
<1>2. /\ DOMAIN sparse = R /\ DOMAIN dense = R
      /\ DOMAIN mSparse \subseteq R
      /\ \A s \in R :
           /\ sparse[s] \in SparseSlotIndex
           /\ s < mBack => s \in DOMAIN mSparse /\ s \in DOMAIN mDense /\ sparse[s] = mSparse[s]
           /\ s >= mBack => sparse[s].dense_slot_index = s
           /\ s \in DOMAIN mSparse => sparse[s].alive = mSparse[s].alive
           /\ s \notin DOMAIN mSparse => ~sparse[s].alive
      /\ \A d \in R :
           /\ dense[d] \in DenseSlotIndex
           /\ d < mBack => dense[d] = mDense[d]
           /\ d >= mBack => dense[d].sparse_slot_index = d
           /\ d \in DOMAIN mDense => dense[d].alive = mDense[d].alive
           /\ d \notin DOMAIN mDense => ~dense[d].alive
  BY <1>1, ReservedElements
<1>3. /\ \A d \in DOMAIN mDense :
           /\ mDense[d].sparse_slot_index \in DOMAIN mDense
           /\ mSparse[mDense[d].sparse_slot_index].dense_slot_index = d
           /\ mSparse[mDense[d].sparse_slot_index].alive <=> mDense[d].alive
      /\ \A s \in DOMAIN mDense :
           /\ mSparse[s].dense_slot_index \in DOMAIN mDense
           /\ mDense[mSparse[s].dense_slot_index].sparse_slot_index = s
      /\ \A s \in DOMAIN mSparse \ DOMAIN mDense : mSparse[s] = NewSparse
  BY DEF SetInv, Pairs
<1>4. mBack \in Nat /\ n \in Nat /\ mBack <= n /\ capacity \in Nat
  <2>1. mBack \in 0 .. MaxCapacity /\ capacity \in 0 .. MaxCapacity /\ MaxCapacity \in Nat
    BY <1>1, ConstantsAssumption DEF TypeOK
  <2>2. mBack <= capacity
    BY <1>1, <2>1, TypeShape, ShapeFacts
  <2> QED
    BY <2>1, <2>2
<1>5. \A d \in Alive : d < mBack /\ d \in R /\ d \in DOMAIN mDense
  <2>1. DOMAIN mDense \subseteq DOMAIN mSparse
    BY <1>1, <1>4, TypeShape, ShapeFacts
  <2> QED
    BY <1>2, <2>1 DEF SetInv, CountInv, Alive
<1> HIDE DEF sparse, dense
<1>6. ASSUME NEW d \in R, d < mBack
      PROVE  /\ d \in DOMAIN mDense
             /\ dense[d].sparse_slot_index < mBack
             /\ dense[d].sparse_slot_index \in R
             /\ sparse[dense[d].sparse_slot_index].dense_slot_index = d
             /\ sparse[dense[d].sparse_slot_index].alive <=> dense[d].alive
  <2> DEFINE s == mDense[d].sparse_slot_index
  <2>1. d \in DOMAIN mDense /\ dense[d] = mDense[d]
    BY <1>2, <1>6
  <2>2. s < mBack /\ s \in DOMAIN mDense
    BY <1>3, <1>6, <2>1, UsedPairs
  <2>3. s \in R
    BY <1>1, <1>2, <1>4, <2>2, TypeShape, ShapeFacts
  <2>4. sparse[s] = mSparse[s]
    BY <1>2, <2>2, <2>3
  <2> QED
    BY <1>3, <2>1, <2>2, <2>3, <2>4
<1>7. ASSUME NEW s \in R, s < mBack
      PROVE  /\ sparse[s].dense_slot_index < mBack
             /\ sparse[s].dense_slot_index \in R
             /\ dense[sparse[s].dense_slot_index].sparse_slot_index = s
  <2> DEFINE d == mSparse[s].dense_slot_index
  <2>1. s \in DOMAIN mDense /\ sparse[s] = mSparse[s]
    BY <1>2, <1>7
  <2>2. d \in DOMAIN mDense /\ mDense[d].sparse_slot_index = s
    BY <1>3, <2>1
  <2>3. d \in R /\ d \in Nat
    BY <1>1, <1>2, <1>4, <2>2, TypeShape, ShapeFacts
  <2>4. d < mBack
    BY <1>4, <1>7, <2>2, <2>3 DEF ReserveSafe
  <2> QED
    BY <1>2, <2>1, <2>2, <2>3, <2>4
<1>8. ASSUME NEW d \in R, d >= mBack
      PROVE  ~dense[d].alive /\ ~sparse[d].alive
  <2>1. ~dense[d].alive
    BY <1>2, <1>4, <1>5, <1>8 DEF Alive
  <2>2. ~sparse[d].alive
    <3>1. CASE d \in DOMAIN mDense
      <4> DEFINE e == mSparse[d].dense_slot_index
      <4>1. d \in DOMAIN mSparse
        BY <1>1, <1>4, <3>1, TypeShape, ShapeFacts
      <4>2. e \in DOMAIN mDense /\ mDense[e].sparse_slot_index = d
        BY <1>3, <3>1
      <4>3. mSparse[d].alive <=> mDense[e].alive
        BY <1>3, <4>2
      <4>4. ~mDense[e].alive
        <5> SUFFICES ASSUME mDense[e].alive
                     PROVE  FALSE
          OBVIOUS
        <5>1. e < mBack
          BY <1>5, <4>2 DEF Alive
        <5>2. d < mBack
          BY <4>2, <5>1, UsedPairs
        <5> QED
          BY <1>4, <1>8, <5>2
      <4> QED
        BY <1>2, <4>1, <4>3, <4>4
    <3>2. CASE d \notin DOMAIN mDense /\ d \in DOMAIN mSparse
      BY <1>2, <1>3, <3>2 DEF NewSparse
    <3>3. CASE d \notin DOMAIN mSparse
      BY <1>2, <3>3
    <3> QED
      BY <3>1, <3>2, <3>3
  <2> QED
    BY <2>1, <2>2
<1>9. Pairs(sparse, dense)
  <2>1. \A d \in R : d < mBack \/ d >= mBack
    BY <1>4
  <2>2. ASSUME NEW d \in R, d >= mBack
        PROVE  dense[d].sparse_slot_index = d /\ sparse[d].dense_slot_index = d
    BY <1>2, <2>2
  <2>3. R \ R = {}
    OBVIOUS
  <2> QED
    BY <1>2, <1>6, <1>7, <1>8, <2>1, <2>2, <2>3 DEF Pairs
<1>10. Shape(sparse, dense, mBack, n)
  <2>1. n \in mBack .. n /\ n <= n
    BY <1>4
  <2>2. sparse \in [R -> SparseSlotIndex] /\ dense \in [R -> DenseSlotIndex]
    BY <1>2, ReservedFunctions DEF sparse, dense
  <2> QED
    BY <2>1, <2>2 DEF Shape
<1>11. {d \in R : dense[d].alive} = Alive
  <2>1. ASSUME NEW d \in R, dense[d].alive
        PROVE  d \in Alive
    BY <1>2, <2>1 DEF Alive
  <2>2. ASSUME NEW d \in Alive
        PROVE  d \in R /\ dense[d].alive
    BY <1>2, <1>5, <2>2 DEF Alive
  <2> QED
    BY <2>1, <2>2
<1>12. ASSUME NEW s \in DOMAIN mSparse, mSparse[s].alive
       PROVE  sparse[s].dense_slot_index = mSparse[s].dense_slot_index
  <2>1. s \in R /\ sparse[s].alive
    BY <1>2, <1>12
  <2>2. s < mBack
    BY <1>4, <1>8, <2>1
  <2> QED
    BY <1>2, <2>1, <2>2
<1> QED
  BY <1>9, <1>10, <1>11, <1>12 DEF sparse, dense

(* What handles find does not change.                                      *)
LEMMA ReserveLookup ==
  ASSUME SetInv, Idle, ReserveSafe, NEW n \in 0 .. MaxCapacity, n >= capacity,
         NEW h \in Handle
  PROVE  /\ KnownIn(ReservedSparse(n), h) <=> Known(h)
         /\ Known(h) => ReservedSparse(n)[h.slot_index].dense_slot_index
                          = mSparse[h.slot_index].dense_slot_index
<1>1. TypeOK
  BY DEF SetInv
<1>2. KnownIn(ReservedSparse(n), h) <=> Known(h)
  BY <1>1, ReservedElements DEF Known, KnownIn
<1>3. Known(h) => ReservedSparse(n)[h.slot_index].dense_slot_index
                    = mSparse[h.slot_index].dense_slot_index
  BY ReservePairs DEF Known, KnownIn
<1> QED
  BY <1>2, <1>3

-----------------------------------------------------------------------------
(* Handles and the objects they name. *)

LEMMA Domains ==
  ASSUME SetInv
  PROVE  /\ mBack \in Nat /\ capacity \in Nat /\ mBack <= capacity /\ capacity <= MaxCapacity
         /\ MaxCapacity \in Nat /\ mUncollected \in Nat /\ i \in Nat
         /\ \E n \in mBack .. capacity, m \in mBack .. capacity :
              m <= n /\ DOMAIN mSparse = 0 .. n - 1 /\ DOMAIN mDense = 0 .. m - 1
         /\ DOMAIN mDense \subseteq DOMAIN mSparse
         /\ DOMAIN mSparse \subseteq Slot /\ DOMAIN mSparse \subseteq Positions
         /\ 0 .. mBack - 1 \subseteq DOMAIN mDense
         /\ mSparse \in [DOMAIN mSparse -> SparseSlotIndex]
         /\ mDense \in [DOMAIN mDense -> DenseSlotIndex]
         /\ mData \in [Positions -> Values \cup {NoValue}]
<1>1. mBack \in Nat /\ capacity \in 0 .. MaxCapacity /\ capacity \in Nat /\ MaxCapacity \in Nat
      /\ mUncollected \in Nat /\ i \in Nat /\ capacity <= MaxCapacity
      /\ mData \in [Positions -> Values \cup {NoValue}]
  BY ConstantsAssumption DEF SetInv, TypeOK
<1>2. Shape(mSparse, mDense, mBack, capacity)
  BY TypeShape DEF SetInv
<1> QED
  BY <1>1, <1>2, ShapeFacts DEF Positions

LEMMA KnownPosition ==
  ASSUME SetInv, NEW h \in Handle, Known(h),
         NEW p, p = mSparse[h.slot_index].dense_slot_index
  PROVE  /\ h.slot_index \in DOMAIN mDense
         /\ p \in DOMAIN mDense /\ p \in Positions
         /\ mDense[p].sparse_slot_index = h.slot_index
         /\ p \in Alive
<1>1. h.slot_index \in DOMAIN mSparse /\ mSparse[h.slot_index].alive
  BY DEF Known, KnownIn
<1>2. h.slot_index \in DOMAIN mDense
  BY <1>1 DEF SetInv, Pairs, NewSparse
<1>3. p \in DOMAIN mDense /\ mDense[p].sparse_slot_index = h.slot_index
  BY <1>2 DEF SetInv, Pairs
<1>4. mDense[p].alive
  BY <1>1, <1>3 DEF SetInv, Pairs
<1> QED
  BY <1>2, <1>3, <1>4, Domains DEF Alive

(* Two handles to one slot that both name its object are one.              *)
LEMMA KnownUnique ==
  ASSUME NEW h \in Handle, NEW g \in Handle, Known(h), Known(g),
         h.slot_index = g.slot_index
  PROVE  h = g
  BY DEF Known, KnownIn, Handle

LEMMA KnownDistinct ==
  ASSUME SetInv, NEW h \in Handle, NEW g \in Handle, Known(h), Known(g), h # g
  PROVE  mSparse[h.slot_index].dense_slot_index # mSparse[g.slot_index].dense_slot_index
  BY KnownPosition, KnownUnique

(* A step that no handle notices. *)
Transparent ==
  /\ UNCHANGED clients
  /\ \A h \in Handle : /\ Known(h)' <=> Known(h)
                       /\ Known(h) => get(h)' = get(h)

LEMMA TransparentHandles == ASSUME HandlesInv, Transparent PROVE HandlesInv'
<1>1. live' = live /\ lost' = lost
  BY DEF Transparent, clients
<1>2. {h \in Handle : Known(h)'} = {h \in Handle : Known(h)}
  BY DEF Transparent
<1>3. \A h \in DOMAIN live : h \in Handle /\ Known(h)
  BY DEF HandlesInv
<1>4. \A h \in DOMAIN live : get(h)' = get(h)
  BY <1>3 DEF Transparent
<1> QED
  BY <1>1, <1>2, <1>4 DEF HandlesInv

(* A step between operations that no handle notices.                       *)
LEMMA IdleTransparent ==
  ASSUME SetInv, TypeOK', Pairs(mSparse, mDense)', Transparent, Alive' = Alive,
         UNCHANGED <<mBack, mUncollected, pc>>, Idle
  PROVE  SetInv'
<1>1. HandlesInv'
  BY TransparentHandles DEF SetInv
<1>2. CountInv'
  BY DEF SetInv, CountInv, Transparent, clients, Idle
<1>3. CollectInv'
  BY DEF CollectInv, Idle
<1> QED
  BY <1>1, <1>2, <1>3 DEF SetInv

LEMMA ReservedDataElements ==
  ASSUME TypeOK, NEW n \in 0 .. MaxCapacity, n >= capacity
  PROVE  /\ ReservedData(n) \in [0 .. n - 1 -> Values \cup {NoValue}]
         /\ Positions \subseteq 0 .. n - 1
         /\ \A k \in Positions : ReservedData(n)[k] = mData[k]
<1>1. mData \in [Positions -> Values \cup {NoValue}] /\ capacity \in Nat /\ n \in Nat
  BY ConstantsAssumption DEF TypeOK
<1>2. Positions \subseteq 0 .. n - 1
  BY <1>1 DEF Positions
<1> QED
  BY <1>1, <1>2 DEF ReservedData, Resized

LEMMA ReserveStep ==
  ASSUME SetInv, Careful, NEW n \in 0 .. MaxCapacity, reserve(n)
  PROVE  SetInv' /\ Transparent
<1>1. /\ Idle /\ ReserveSafe /\ n >= capacity /\ TypeOK
      /\ capacity' = n /\ mSparse' = ReservedSparse(n) /\ mDense' = ReservedDense(n)
      /\ mData' = ReservedData(n) /\ UNCHANGED <<mBack, mUncollected, pc, i, clients>>
  BY DEF reserve, Careful, SetInv
<1>2. TypeOK'
  <2>1. Shape(mSparse', mDense', mBack', capacity')
    BY <1>1, ReservePairs
  <2>2. mData' \in [Positions' -> Values \cup {NoValue}]
    BY <1>1, ReservedDataElements DEF Positions
  <2> QED
    BY <1>1, <2>1, <2>2 DEF TypeOK, Shape
<1>3. Pairs(mSparse, mDense)'
  BY <1>1, ReservePairs
<1>4. Alive' = Alive
  <2>1. DOMAIN mDense' = 0 .. n - 1
    BY <1>1, ReservedElements
  <2> QED
    BY <1>1, <2>1, ReservePairs DEF Alive
<1>5. Transparent
  <2> SUFFICES ASSUME NEW h \in Handle
               PROVE  /\ Known(h)' <=> Known(h)
                      /\ Known(h) => get(h)' = get(h)
    BY <1>1 DEF Transparent
  <2>1. Known(h)' <=> Known(h)
    BY <1>1, ReserveLookup DEF Known
  <2>2. ASSUME Known(h)
        PROVE  get(h)' = get(h)
    <3>1. mSparse'[h.slot_index].dense_slot_index = mSparse[h.slot_index].dense_slot_index
      BY <1>1, <2>2, ReserveLookup
    <3>2. mSparse[h.slot_index].dense_slot_index \in Positions
      BY <2>2, KnownPosition
    <3> QED
      BY <1>1, <3>1, <3>2, ReservedDataElements DEF get
  <2> QED
    BY <2>1, <2>2
<1> QED
  BY <1>1, <1>2, <1>3, <1>4, <1>5, IdleTransparent

(* A reserve that throws may leave slots without positions: they are new.  *)
LEMMA ReserveThrowsStep ==
  ASSUME SetInv, Careful, NEW n \in 0 .. MaxCapacity, reserveThrows(n)
  PROVE  SetInv' /\ Transparent
<1>1. /\ Idle /\ n >= capacity /\ TypeOK
      /\ capacity' = n /\ mSparse' \in {mSparse, Resized(mSparse, NewSparse, n)}
      /\ mData' = ReservedData(n) /\ UNCHANGED <<mDense, mBack, mUncollected, pc, i, clients>>
  BY DEF reserveThrows, SetInv
<1>2. PICK k \in mBack .. capacity, m \in mBack .. capacity :
        m <= k /\ DOMAIN mSparse = 0 .. k - 1 /\ DOMAIN mDense = 0 .. m - 1
  BY Domains
<1>3. mBack \in Nat /\ capacity \in Nat /\ n \in Nat /\ k \in Nat /\ m \in Nat
      /\ m <= k /\ k <= capacity /\ capacity <= n /\ mBack <= m
  BY <1>1, <1>2, Domains
<1>4. \E l \in k .. n :
        /\ mSparse' \in [0 .. l - 1 -> SparseSlotIndex]
        /\ \A s \in DOMAIN mSparse : mSparse'[s] = mSparse[s]
        /\ \A s \in 0 .. l - 1 : s \in DOMAIN mSparse \/ mSparse'[s] = NewSparse
  <2>1. CASE mSparse' = mSparse
    BY <1>2, <1>3, <2>1, Domains
  <2>2. CASE mSparse' = Resized(mSparse, NewSparse, n)
    <3>1. DOMAIN mSparse \subseteq 0 .. n - 1
      BY <1>2, <1>3
    <3>2. \A s \in 0 .. n - 1 : mSparse'[s] = IF s \in DOMAIN mSparse THEN mSparse[s] ELSE NewSparse
      BY <2>2 DEF Resized
    <3>3. \A s \in 0 .. n - 1 : NewSparse \in SparseSlotIndex
      <4> TAKE s \in 0 .. n - 1
      <4>1. 0 \in Slot /\ 0 \in Serial
        BY ConstantsAssumption DEF Slot, Serial
      <4> QED
        BY <4>1 DEF NewSparse, SparseSlotIndex
    <3>4. mSparse' \in [0 .. n - 1 -> SparseSlotIndex]
      BY <2>2, <3>2, <3>3, Domains DEF Resized
    <3>5. n \in k .. n
      BY <1>3
    <3> QED
      BY <3>1, <3>2, <3>4, <3>5
  <2> QED
    BY <1>1, <2>1, <2>2
<1>5. PICK l \in k .. n :
        /\ mSparse' \in [0 .. l - 1 -> SparseSlotIndex]
        /\ \A s \in DOMAIN mSparse : mSparse'[s] = mSparse[s]
        /\ \A s \in 0 .. l - 1 : s \in DOMAIN mSparse \/ mSparse'[s] = NewSparse
  BY <1>4
<1>6. DOMAIN mSparse' = 0 .. l - 1 /\ DOMAIN mSparse \subseteq DOMAIN mSparse'
  BY <1>2, <1>3, <1>5
<1>7. TypeOK'
  <2>1. Shape(mSparse', mDense', mBack', capacity')
    <3>1. l \in mBack .. n /\ m \in mBack .. n /\ m <= l
      BY <1>3, <1>5
    <3>2. mDense' \in [0 .. m - 1 -> DenseSlotIndex]
      BY <1>1, <1>2, Domains
    <3> QED
      BY <1>1, <1>5, <3>1, <3>2 DEF Shape
  <2>2. mData' \in [Positions' -> Values \cup {NoValue}]
    BY <1>1, ReservedDataElements DEF Positions
  <2> QED
    BY <1>1, <2>1, <2>2 DEF TypeOK, Shape
<1>8. Pairs(mSparse, mDense)'
  <2>1. DOMAIN mDense \subseteq DOMAIN mSparse /\ mDense' = mDense
    BY <1>1, Domains
  <2>2. \A s \in DOMAIN mDense : mSparse'[s] = mSparse[s]
    BY <1>5, <2>1
  <2>3. \A s \in DOMAIN mSparse' \ DOMAIN mDense : mSparse'[s] = NewSparse
    BY <1>5, <1>6 DEF SetInv, Pairs
  <2> QED
    BY <2>1, <2>2, <2>3 DEF SetInv, Pairs
<1>9. Transparent
  <2> SUFFICES ASSUME NEW h \in Handle
               PROVE  /\ Known(h)' <=> Known(h)
                      /\ Known(h) => get(h)' = get(h)
    BY <1>1 DEF Transparent
  <2>1. Known(h)' <=> Known(h)
    BY <1>5, <1>6 DEF Known, KnownIn, NewSparse
  <2>2. ASSUME Known(h)
        PROVE  get(h)' = get(h)
    <3>1. h.slot_index \in DOMAIN mSparse /\ mSparse[h.slot_index].dense_slot_index \in Positions
      BY <2>2, KnownPosition, Domains
    <3> QED
      BY <1>1, <1>5, <3>1, ReservedDataElements DEF get
  <2> QED
    BY <2>1, <2>2
<1> QED
  BY <1>1, <1>7, <1>8, <1>9, IdleTransparent DEF Alive

-----------------------------------------------------------------------------
(* alloc.  Full or not, it works on vectors that pair as they did and have *)
(* a position to give.                                                     *)

LEMMA RoomFacts ==
  ASSUME SetInv, NEW content \in Values \cup {NoValue}, allocSlot(content)
  PROVE  /\ Idle /\ room \in 0 .. MaxCapacity /\ room >= capacity
         /\ Shape(roomSparse, roomDense, mBack, room)
         /\ Pairs(roomSparse, roomDense)
         /\ {d \in DOMAIN roomDense : roomDense[d].alive} = Alive
         /\ mBack \in DOMAIN roomDense /\ mBack \notin Alive
         /\ \A h \in Handle :
              /\ KnownIn(roomSparse, h) <=> Known(h)
              /\ Known(h) => roomSparse[h.slot_index].dense_slot_index
                               = mSparse[h.slot_index].dense_slot_index
<1>1. Idle /\ room <= MaxCapacity /\ mBack \in DOMAIN roomDense
  BY DEF allocSlot
<1>2. mBack \notin Alive
  <2>1. \A d \in Alive : d < mBack
    BY DEF SetInv, CountInv
  <2> QED
    BY <2>1, Domains
<1>3. CASE full
  <2>1. room = capacity + Growth /\ roomSparse = ReservedSparse(room) /\ roomDense = ReservedDense(room)
    BY <1>3 DEF room, roomSparse, roomDense
  <2>2. room \in 0 .. MaxCapacity /\ room >= capacity
    BY <1>1, <2>1, Domains, ConstantsAssumption
  <2>3. ReserveSafe
    <3>1. PICK m \in mBack .. capacity : DOMAIN mDense = 0 .. m - 1
      BY Domains
    <3>2. \A d \in DOMAIN mDense : ~(d >= mBack)
      BY <1>3, <3>1, Domains DEF full
    <3> QED
      BY <3>2 DEF ReserveSafe
  <2>4. DOMAIN roomDense = 0 .. room - 1
    BY <2>1, <2>2, ReservedElements DEF SetInv
  <2> QED
    BY <1>1, <1>2, <2>1, <2>2, <2>3, <2>4, ReservePairs, ReserveLookup
<1>4. CASE ~full
  <2>1. room = capacity /\ roomSparse = mSparse /\ roomDense = mDense
    BY <1>4 DEF room, roomSparse, roomDense
  <2>2. room \in 0 .. MaxCapacity /\ room >= capacity
    BY <2>1, Domains
  <2>3. Shape(roomSparse, roomDense, mBack, room)
    BY <2>1, TypeShape DEF SetInv
  <2> QED
    BY <1>1, <1>2, <2>1, <2>2, <2>3 DEF SetInv, Alive, Known
<1> QED
  BY <1>3, <1>4

(* The slot alloc takes is new to every handle but the one it returns.     *)
LEMMA AllocSlotStep ==
  ASSUME SetInv, NEW content \in Values \cup {NoValue}, allocSlot(content)
  PROVE  /\ TypeOK' /\ Pairs(mSparse, mDense)'
         /\ Alive' = Alive \cup {mBack} /\ mBack \notin Alive
         /\ mBack' = mBack + 1 /\ UNCHANGED <<mUncollected, pc, i>> /\ Idle
         /\ hndl \in Handle /\ ~Known(hndl)
         /\ mData'[mSparse'[hndl.slot_index].dense_slot_index] = content
         /\ \A h \in Handle :
              /\ Known(h)' <=> Known(h) \/ h = hndl
              /\ Known(h) => get(h)' = get(h)
<1> DEFINE sp == roomSparse
           de == roomDense
           a == available
           A == [sp EXCEPT ![a].alive = TRUE]
           D == [de EXCEPT ![mBack].alive = TRUE]
<1>1. /\ Idle /\ room \in 0 .. MaxCapacity /\ room >= capacity
      /\ Shape(sp, de, mBack, room)
      /\ Pairs(sp, de)
      /\ {d \in DOMAIN de : de[d].alive} = Alive
      /\ mBack \in DOMAIN de /\ mBack \notin Alive
      /\ \A h \in Handle :
           /\ KnownIn(sp, h) <=> Known(h)
           /\ Known(h) => sp[h.slot_index].dense_slot_index
                            = mSparse[h.slot_index].dense_slot_index
  BY RoomFacts
<1>2. /\ capacity' = room /\ mDense' = D /\ mSparse' = A
      /\ mData' = [ReservedData(room) EXCEPT ![mBack] = content]
      /\ mBack' = mBack + 1 /\ UNCHANGED <<mUncollected, pc, i>>
  BY DEF allocSlot
<1>3. a = de[mBack].sparse_slot_index /\ hndl = [slot_index |-> a, slot_serial |-> sp[a].slot_serial]
  BY DEF available, hndl
<1>4. PICK n \in mBack .. room, m \in mBack .. room :
        /\ m <= n
        /\ DOMAIN sp = 0 .. n - 1 /\ DOMAIN de = 0 .. m - 1
  BY <1>1, Domains, ShapeFacts
<1>5. /\ DOMAIN de \subseteq DOMAIN sp /\ DOMAIN sp \subseteq Slot /\ DOMAIN sp \subseteq 0 .. room - 1
      /\ sp \in [DOMAIN sp -> SparseSlotIndex]
      /\ de \in [DOMAIN de -> DenseSlotIndex]
      /\ mBack \in Nat /\ room \in Nat /\ n \in Nat /\ m \in Nat /\ MaxCapacity \in Nat
      /\ room <= MaxCapacity
  BY <1>1, <1>4, Domains, ShapeFacts
<1>6. /\ \A d \in DOMAIN de :
           /\ de[d].sparse_slot_index \in DOMAIN de
           /\ sp[de[d].sparse_slot_index].dense_slot_index = d
           /\ sp[de[d].sparse_slot_index].alive <=> de[d].alive
      /\ \A s \in DOMAIN de :
           /\ sp[s].dense_slot_index \in DOMAIN de
           /\ de[sp[s].dense_slot_index].sparse_slot_index = s
      /\ \A s \in DOMAIN sp \ DOMAIN de : sp[s] = NewSparse
  BY <1>1 DEF Pairs
<1>7. /\ a \in DOMAIN de /\ a \in DOMAIN sp /\ sp[a].dense_slot_index = mBack /\ ~sp[a].alive
      /\ ~de[mBack].alive
  BY <1>1, <1>3, <1>5, <1>6
<1> HIDE DEF sp, de, a
<1>8. /\ DOMAIN A = DOMAIN sp
      /\ A \in [DOMAIN sp -> SparseSlotIndex]
      /\ A[a].alive
      /\ \A s \in DOMAIN sp :
           /\ A[s].dense_slot_index = sp[s].dense_slot_index
           /\ A[s].slot_serial = sp[s].slot_serial
           /\ s # a => A[s] = sp[s]
  BY <1>5, <1>7 DEF SparseSlotIndex
<1>9. /\ DOMAIN D = DOMAIN de
      /\ D \in [DOMAIN de -> DenseSlotIndex]
      /\ D[mBack].alive
      /\ \A d \in DOMAIN de :
           /\ D[d].sparse_slot_index = de[d].sparse_slot_index
           /\ d # mBack => D[d] = de[d]
  BY <1>1, <1>5 DEF DenseSlotIndex
<1> HIDE DEF A, D
<1>10. Pairs(A, D)
  <2>1. ASSUME NEW d \in DOMAIN D
        PROVE  /\ D[d].sparse_slot_index \in DOMAIN D
               /\ A[D[d].sparse_slot_index].dense_slot_index = d
               /\ A[D[d].sparse_slot_index].alive <=> D[d].alive
    <3> DEFINE e == de[d].sparse_slot_index
    <3>1. /\ d \in DOMAIN de /\ D[d].sparse_slot_index = e
          /\ e \in DOMAIN de /\ e \in DOMAIN sp
          /\ sp[e].dense_slot_index = d
      BY <1>5, <1>6, <1>9
    <3>2. sp[e].alive <=> de[d].alive
      BY <1>6, <3>1
    <3>3. d = mBack => e = a
      BY <1>3
    <3> HIDE DEF e
    <3>4. d # mBack => e # a
      BY <1>7, <3>1
    <3>5. A[e].dense_slot_index = d
      BY <1>8, <3>1
    <3>6. e \in DOMAIN D
      BY <1>9, <3>1
    <3>7. A[e].alive <=> D[d].alive
      <4>1. CASE d = mBack
        BY <1>8, <1>9, <3>3, <4>1
      <4>2. CASE d # mBack
        <5>1. A[e] = sp[e] /\ D[d] = de[d]
          BY <1>8, <1>9, <3>1, <3>4, <4>2
        <5> QED
          BY <3>2, <5>1
      <4> QED
        BY <4>1, <4>2
    <3> QED
      BY <3>1, <3>5, <3>6, <3>7
  <2>2. ASSUME NEW s \in DOMAIN D
        PROVE  /\ A[s].dense_slot_index \in DOMAIN D
               /\ D[A[s].dense_slot_index].sparse_slot_index = s
    <3> DEFINE q == sp[s].dense_slot_index
    <3>1. s \in DOMAIN de /\ s \in DOMAIN sp
      BY <1>5, <1>9
    <3>2. q \in DOMAIN de /\ de[q].sparse_slot_index = s
      BY <1>6, <3>1
    <3>3. A[s].dense_slot_index = q
      BY <1>8, <3>1
    <3> HIDE DEF q
    <3> QED
      BY <1>9, <3>2, <3>3
  <2>3. \A s \in DOMAIN A \ DOMAIN D : A[s] = NewSparse
    BY <1>6, <1>7, <1>8, <1>9
  <2> QED
    BY <2>1, <2>2, <2>3 DEF Pairs
<1>11. TypeOK'
  <2>1. mBack + 1 <= m
    BY <1>1, <1>4, <1>5
  <2>2. Shape(A, D, mBack + 1, room)
    <3>1. n \in mBack + 1 .. room /\ m \in mBack + 1 .. room /\ m <= n
      BY <1>4, <1>5, <2>1
    <3> QED
      BY <1>4, <1>8, <1>9, <3>1 DEF Shape
  <2>3. mData' \in [0 .. room - 1 -> Values \cup {NoValue}]
    BY <1>1, <1>2, ReservedDataElements DEF SetInv
  <2>4. mBack + 1 \in 0 .. MaxCapacity
    BY <1>4, <1>5, <2>1
  <2> QED
    BY <1>1, <1>2, <2>2, <2>3, <2>4 DEF SetInv, TypeOK, Shape, Positions
<1>12. Alive' = Alive \cup {mBack}
  <2>1. Alive' = {d \in DOMAIN D : D[d].alive}
    BY <1>2 DEF Alive
  <2> QED
    BY <1>1, <1>9, <2>1
<1>13. hndl \in Handle
  <2>1. a \in Slot /\ sp[a].slot_serial \in Serial
    BY <1>5, <1>7, Fields
  <2> QED
    BY <1>3, <2>1 DEF Handle, sp, a
<1>14. hndl.slot_index = a /\ hndl.slot_serial = sp[a].slot_serial
  BY <1>3 DEF sp, a
<1>15. ~Known(hndl)
  <2>1. ~KnownIn(sp, hndl)
    BY <1>7, <1>14 DEF KnownIn
  <2> QED
    BY <1>1, <1>13, <2>1
<1>16. ASSUME NEW h \in Handle
       PROVE  Known(h)' <=> Known(h) \/ h = hndl
  <2>1. Known(h)' <=> KnownIn(A, h)
    BY <1>2 DEF Known
  <2>2. CASE h.slot_index = a
    <3>1. h = hndl <=> h.slot_serial = sp[a].slot_serial
      BY <1>13, <1>14, <2>2 DEF Handle
    <3>2. ~KnownIn(sp, h)
      BY <1>7, <2>2 DEF KnownIn
    <3> QED
      BY <1>1, <1>7, <1>8, <2>1, <2>2, <3>1, <3>2 DEF KnownIn
  <2>3. CASE h.slot_index # a
    <3>1. h # hndl
      BY <1>14, <2>3
    <3>2. KnownIn(A, h) <=> KnownIn(sp, h)
      BY <1>8, <2>3 DEF KnownIn
    <3> QED
      BY <1>1, <2>1, <3>1, <3>2
  <2> QED
    BY <2>2, <2>3
<1>17. ReservedData(room) \in [0 .. room - 1 -> Values \cup {NoValue}]
       /\ Positions \subseteq 0 .. room - 1
       /\ \A k \in Positions : ReservedData(room)[k] = mData[k]
  BY <1>1, ReservedDataElements DEF SetInv
<1>18. ASSUME NEW h \in Handle, Known(h)
       PROVE  get(h)' = get(h)
  <2> DEFINE p == mSparse[h.slot_index].dense_slot_index
  <2>1. p \in Positions /\ p \in Alive
    BY <1>18, KnownPosition
  <2>2. p # mBack
    BY <1>1, <2>1
  <2>3. A[h.slot_index].dense_slot_index = p
    <3>1. KnownIn(sp, h) /\ sp[h.slot_index].dense_slot_index = p
      BY <1>1, <1>18
    <3> QED
      BY <1>8, <3>1 DEF KnownIn
  <2>4. mData'[p] = mData[p]
    BY <1>2, <1>17, <2>1, <2>2
  <2> QED
    BY <1>2, <2>3, <2>4 DEF get
<1>19. mData'[mSparse'[hndl.slot_index].dense_slot_index] = content
  <2>1. mSparse'[hndl.slot_index].dense_slot_index = mBack
    BY <1>2, <1>7, <1>8, <1>14
  <2>2. mBack \in 0 .. room - 1
    BY <1>1, <1>5
  <2> QED
    BY <1>2, <1>17, <2>1, <2>2
<1> QED
  BY <1>1, <1>2, <1>10, <1>11, <1>12, <1>13, <1>15, <1>16, <1>18, <1>19

(* The set has one more object, or as many as before.                      *)
LEMMA OneMoreAlive ==
  ASSUME SetInv, NEW d, d \notin Alive
  PROVE  IsFiniteSet(Alive \cup {d}) /\ Cardinality(Alive \cup {d}) = Cardinality(Alive) + 1
  BY AliveFinite, FS_AddElement

LEMMA AllocStep ==
  ASSUME SetInv, NEW v \in Values, alloc(v)
  PROVE  SetInv' /\ hndl \in Handle /\ hndl \notin DOMAIN live
<1>1. /\ allocSlot(v) /\ v \in Values \cup {NoValue}
      /\ live' = [h \in DOMAIN live \cup {hndl} |-> IF h = hndl THEN v ELSE live[h]]
      /\ lost' = lost
  BY DEF alloc
<1>2. /\ TypeOK' /\ Pairs(mSparse, mDense)'
      /\ Alive' = Alive \cup {mBack} /\ mBack \notin Alive
      /\ mBack' = mBack + 1 /\ UNCHANGED <<mUncollected, pc, i>> /\ Idle
      /\ hndl \in Handle /\ ~Known(hndl)
      /\ mData'[mSparse'[hndl.slot_index].dense_slot_index] = v
      /\ \A h \in Handle :
           /\ Known(h)' <=> Known(h) \/ h = hndl
           /\ Known(h) => get(h)' = get(h)
  BY <1>1, AllocSlotStep
<1>3. /\ DOMAIN live \cap lost = {}
      /\ DOMAIN live \cup lost = {h \in Handle : Known(h)}
      /\ \A h \in DOMAIN live : live[h] \in Values /\ get(h) = live[h]
  BY DEF SetInv, HandlesInv
<1>4. hndl \notin DOMAIN live /\ hndl \notin lost
  BY <1>2, <1>3
<1>5. HandlesInv'
  <2>1. DOMAIN live' = DOMAIN live \cup {hndl}
    BY <1>1
  <2>2. {h \in Handle : Known(h)'} = {h \in Handle : Known(h)} \cup {hndl}
    BY <1>2
  <2>3. ASSUME NEW h \in DOMAIN live'
        PROVE  live'[h] \in Values /\ get(h)' = live'[h]
    <3>1. CASE h = hndl
      BY <1>1, <1>2, <3>1 DEF get
    <3>2. CASE h # hndl
      BY <1>1, <1>2, <1>3, <2>1, <3>2
    <3> QED
      BY <3>1, <3>2
  <2> QED
    BY <1>1, <1>3, <1>4, <2>1, <2>2, <2>3 DEF HandlesInv
<1>6. CountInv'
  <2>1. /\ DOMAIN live' = DOMAIN live \cup {hndl}
        /\ IsFiniteSet(DOMAIN live) /\ IsFiniteSet(lost)
    BY <1>1 DEF SetInv, CountInv
  <2>2. /\ IsFiniteSet(DOMAIN live') /\ Cardinality(DOMAIN live') = Cardinality(DOMAIN live) + 1
        /\ Cardinality(DOMAIN live) \in Nat /\ Cardinality(lost) \in Nat
    BY <1>4, <2>1, FS_AddElement, FS_CardinalityType
  <2>3. Cardinality(Alive') = Cardinality(Alive) + 1
    BY <1>2, OneMoreAlive
  <2>4. \A d \in Alive' : d < mBack'
    <3>1. \A d \in Alive : d < mBack /\ d \in Nat
      BY Domains DEF SetInv, CountInv, Alive
    <3> QED
      BY <1>2, <3>1, Domains
  <2>5. Cardinality(Alive) = Cardinality(DOMAIN live) + Cardinality(lost)
        /\ Cardinality(Alive) = mBack - mUncollected
    BY <1>2 DEF SetInv, CountInv
  <2>6. Cardinality(Alive') = mBack' - mUncollected'
    BY <1>2, <2>3, <2>5, Domains
  <2>7. Cardinality(Alive') = Cardinality(DOMAIN live') + Cardinality(lost')
    BY <1>1, <2>2, <2>3, <2>5
  <2> QED
    BY <1>1, <2>1, <2>2, <2>4, <2>6, <2>7 DEF CountInv
<1>7. CollectInv'
  BY <1>2 DEF CollectInv, Idle
<1> QED
  BY <1>2, <1>4, <1>5, <1>6, <1>7 DEF SetInv

LEMMA ConstructorThrowsStep ==
  ASSUME SetInv, constructorThrows
  PROVE  SetInv'
<1>1. allocSlot(NoValue) /\ NoValue \in Values \cup {NoValue} /\ lost' = lost \cup {hndl} /\ live' = live
  BY DEF constructorThrows
<1>2. /\ TypeOK' /\ Pairs(mSparse, mDense)'
      /\ Alive' = Alive \cup {mBack} /\ mBack \notin Alive
      /\ mBack' = mBack + 1 /\ UNCHANGED <<mUncollected, pc, i>> /\ Idle
      /\ hndl \in Handle /\ ~Known(hndl)
      /\ \A h \in Handle :
           /\ Known(h)' <=> Known(h) \/ h = hndl
           /\ Known(h) => get(h)' = get(h)
  BY <1>1, AllocSlotStep
<1>3. /\ DOMAIN live \cap lost = {}
      /\ DOMAIN live \cup lost = {h \in Handle : Known(h)}
      /\ \A h \in DOMAIN live : live[h] \in Values /\ get(h) = live[h]
  BY DEF SetInv, HandlesInv
<1>4. hndl \notin DOMAIN live /\ hndl \notin lost
  BY <1>2, <1>3
<1>5. HandlesInv'
  <2>1. {h \in Handle : Known(h)'} = {h \in Handle : Known(h)} \cup {hndl}
    BY <1>2
  <2>2. \A h \in DOMAIN live' : live'[h] \in Values /\ get(h)' = live'[h]
    BY <1>1, <1>2, <1>3
  <2> QED
    BY <1>1, <1>3, <1>4, <2>1, <2>2 DEF HandlesInv
<1>6. CountInv'
  <2>1. IsFiniteSet(DOMAIN live) /\ IsFiniteSet(lost)
    BY DEF SetInv, CountInv
  <2>2. /\ IsFiniteSet(lost') /\ Cardinality(lost') = Cardinality(lost) + 1
        /\ Cardinality(DOMAIN live) \in Nat /\ Cardinality(lost) \in Nat
    BY <1>1, <1>4, <2>1, FS_AddElement, FS_CardinalityType
  <2>3. Cardinality(Alive') = Cardinality(Alive) + 1
    BY <1>2, OneMoreAlive
  <2>4. \A d \in Alive' : d < mBack'
    <3>1. \A d \in Alive : d < mBack /\ d \in Nat
      BY Domains DEF SetInv, CountInv, Alive
    <3> QED
      BY <1>2, <3>1, Domains
  <2>5. Cardinality(Alive) = Cardinality(DOMAIN live) + Cardinality(lost)
        /\ Cardinality(Alive) = mBack - mUncollected
    BY <1>2 DEF SetInv, CountInv
  <2>6. Cardinality(Alive') = mBack' - mUncollected'
    BY <1>2, <2>3, <2>5, Domains
  <2>7. Cardinality(Alive') = Cardinality(DOMAIN live') + Cardinality(lost')
    BY <1>1, <2>2, <2>3, <2>5
  <2> QED
    BY <1>1, <2>1, <2>2, <2>4, <2>6, <2>7 DEF CountInv
<1>7. CollectInv'
  BY <1>2 DEF CollectInv, Idle
<1> QED
  BY <1>2, <1>5, <1>6, <1>7 DEF SetInv

-----------------------------------------------------------------------------
(* A client writes, frees an object, or clears the set. *)

LEMMA SetValStep ==
  ASSUME SetInv, NEW h \in Handle, NEW v \in Values, setVal(h, v)
  PROVE  SetInv' /\ h \in DOMAIN live
<1> DEFINE p == mSparse[h.slot_index].dense_slot_index
<1>1. /\ Idle /\ Known(h) /\ h \notin lost
      /\ mData' = [mData EXCEPT ![p] = v]
      /\ live' = [x \in DOMAIN live |-> IF x = h THEN v ELSE live[x]]
      /\ UNCHANGED <<capacity, mSparse, mDense, mBack, mUncollected, pc, i, lost>>
  BY DEF setVal, isValid, Known, KnownIn
<1>2. p \in Positions
  BY <1>1, KnownPosition
<1>3. /\ DOMAIN live \cap lost = {}
      /\ DOMAIN live \cup lost = {x \in Handle : Known(x)}
      /\ \A x \in DOMAIN live : live[x] \in Values /\ get(x) = live[x]
  BY DEF SetInv, HandlesInv
<1>4. h \in DOMAIN live
  BY <1>1, <1>3
<1>5. TypeOK'
  <2>1. mData' \in [Positions -> Values \cup {NoValue}]
    BY <1>1, Domains
  <2> QED
    BY <1>1, <2>1 DEF SetInv, TypeOK, Positions
<1>6. HandlesInv'
  <2>1. DOMAIN live' = DOMAIN live
    BY <1>1
  <2>2. \A x \in Handle : Known(x)' <=> Known(x)
    BY <1>1 DEF Known
  <2>3. ASSUME NEW x \in DOMAIN live'
        PROVE  live'[x] \in Values /\ get(x)' = live'[x]
    <3>1. x \in DOMAIN live /\ x \in Handle /\ Known(x)
      BY <1>3, <2>1
    <3>2. get(x)' = mData'[mSparse[x.slot_index].dense_slot_index]
      BY <1>1 DEF get
    <3>3. CASE x = h
      BY <1>1, <1>2, <1>4, <3>2, <3>3, Domains
    <3>4. CASE x # h
      <4>1. mSparse[x.slot_index].dense_slot_index # p
        BY <1>1, <3>1, <3>4, KnownDistinct
      <4>2. get(x)' = get(x)
        BY <1>1, <1>2, <3>2, <4>1, Domains DEF get
      <4> QED
        BY <1>1, <1>3, <3>1, <3>4, <4>2
    <3> QED
      BY <3>3, <3>4
  <2>4. {x \in Handle : Known(x)'} = {x \in Handle : Known(x)}
    BY <2>2
  <2> QED
    BY <1>1, <1>3, <2>1, <2>3, <2>4 DEF HandlesInv
<1>7. CountInv'
  <2>1. DOMAIN live' = DOMAIN live /\ Alive' = Alive
    BY <1>1 DEF Alive
  <2> QED
    BY <1>1, <2>1 DEF SetInv, CountInv, Idle
<1>8. Pairs(mSparse, mDense)' /\ CollectInv'
  BY <1>1 DEF SetInv, CollectInv, Idle
<1> QED
  BY <1>4, <1>5, <1>6, <1>7, <1>8 DEF SetInv

(* What freeing h does to its slot s and to the position d of its object:  *)
(* the two stay paired, and the serial goes up.                            *)
FreeEffect(h, s, d) ==
  /\ Idle /\ Known(h) /\ h \in DOMAIN live
  /\ DOMAIN mSparse' = DOMAIN mSparse /\ DOMAIN mDense' = DOMAIN mDense
  /\ mSparse' \in [DOMAIN mSparse -> SparseSlotIndex]
  /\ mDense' \in [DOMAIN mDense -> DenseSlotIndex]
  /\ s \in DOMAIN mDense /\ s \in DOMAIN mSparse /\ d \in DOMAIN mDense /\ d \in Positions
  /\ d \in Alive /\ mDense[d].sparse_slot_index = s
  /\ ~mSparse'[s].alive
  /\ mSparse'[s].slot_serial = mSparse[s].slot_serial + 1
  /\ mSparse[s].slot_serial = h.slot_serial /\ h.slot_serial \in Nat
  /\ ~mDense'[d].alive
  /\ \A r \in DOMAIN mSparse :
       /\ mSparse'[r].dense_slot_index = mSparse[r].dense_slot_index
       /\ r # s => mSparse'[r] = mSparse[r]
  /\ \A e \in DOMAIN mDense :
       /\ mDense'[e].sparse_slot_index = mDense[e].sparse_slot_index
       /\ e # d => mDense'[e] = mDense[e]
  /\ mData' = [mData EXCEPT ![d] = NoValue]
  /\ mUncollected' = mUncollected + 1
  /\ live' = [x \in DOMAIN live \ {h} |-> live[x]]
  /\ UNCHANGED <<capacity, mBack, pc, i, lost>>

LEMMA FreeFacts ==
  ASSUME SetInv, NEW h \in Handle, free(h),
         NEW s, NEW d, s = h.slot_index, d = mSparse[s].dense_slot_index
  PROVE  FreeEffect(h, s, d)
<1> DEFINE F == SlotFreed(mSparse[s])
<1>1. /\ Idle /\ Known(h) /\ isSet(h) /\ h \notin lost
      /\ mSparse' = [mSparse EXCEPT ![s] = F]
      /\ mDense' = [mDense EXCEPT ![d].alive = FALSE]
      /\ mData' = [mData EXCEPT ![d] = NoValue]
      /\ mUncollected' = mUncollected + 1
      /\ live' = [x \in DOMAIN live \ {h} |-> live[x]]
      /\ UNCHANGED <<capacity, mBack, pc, i, lost>>
  BY DEF free, isValid, Known, KnownIn, OneMoreDead
<1>2. s \in DOMAIN mDense /\ d \in DOMAIN mDense /\ d \in Positions
      /\ d \in Alive /\ mDense[d].sparse_slot_index = s
  BY <1>1, KnownPosition
<1>3. s \in DOMAIN mSparse
  BY <1>2, Domains
<1>4. mSparse[s].slot_serial = h.slot_serial
  BY <1>1 DEF Known, KnownIn
<1>5. h.slot_serial \in Serial /\ h.slot_serial # SerialMod - 1
  BY <1>1 DEF Handle, isSet
<1>6. /\ h.slot_serial \in Nat
      /\ h.slot_serial + 1 \in Serial
      /\ (h.slot_serial + 1) % SerialMod = h.slot_serial + 1
  BY <1>5, ConstantsAssumption DEF Serial
<1>7. mSparse[s] \in SparseSlotIndex /\ mDense[d] \in DenseSlotIndex
  BY <1>2, <1>3, Domains
<1>8. /\ F = [mSparse[s] EXCEPT !.alive = FALSE, !.slot_serial = h.slot_serial + 1]
  BY <1>4, <1>6, <1>7 DEF SlotFreed, SparseSlotIndex
<1>9. /\ F \in SparseSlotIndex
      /\ F.slot_serial = h.slot_serial + 1
      /\ F.dense_slot_index = mSparse[s].dense_slot_index
  BY <1>6, <1>7, <1>8 DEF SparseSlotIndex
<1>10. F.alive = FALSE
  BY <1>7, <1>8 DEF SparseSlotIndex
<1> HIDE DEF F
<1>11. /\ DOMAIN mSparse' = DOMAIN mSparse
       /\ mSparse' \in [DOMAIN mSparse -> SparseSlotIndex]
       /\ mSparse'[s] = F
       /\ \A r \in DOMAIN mSparse :
            /\ mSparse'[r].dense_slot_index = mSparse[r].dense_slot_index
            /\ r # s => mSparse'[r] = mSparse[r]
  BY <1>1, <1>3, <1>9, Domains
<1>12. /\ DOMAIN mDense' = DOMAIN mDense
       /\ mDense' \in [DOMAIN mDense -> DenseSlotIndex]
       /\ \A e \in DOMAIN mDense :
            /\ mDense'[e].sparse_slot_index = mDense[e].sparse_slot_index
            /\ e # d => mDense'[e] = mDense[e]
  BY <1>1, <1>2, Domains DEF DenseSlotIndex
<1>13. ~mDense'[d].alive
  BY <1>1, <1>2, <1>7, Domains DEF DenseSlotIndex
<1>14. h \in DOMAIN live
  BY <1>1 DEF SetInv, HandlesInv
<1>15. ~mSparse'[s].alive
  BY <1>10, <1>11
<1>16. mSparse'[s].slot_serial = mSparse[s].slot_serial + 1
  BY <1>4, <1>9, <1>11
<1> QED
  BY <1>1, <1>2, <1>3, <1>4, <1>6, <1>11, <1>12, <1>13, <1>14, <1>15, <1>16 DEF FreeEffect

LEMMA FreeStep ==
  ASSUME SetInv, NEW h \in Handle, free(h)
  PROVE  SetInv' /\ h \in DOMAIN live
<1>1. PICK s, d : s = h.slot_index /\ d = mSparse[s].dense_slot_index
  OBVIOUS
<1>2. /\ Idle /\ Known(h) /\ h \in DOMAIN live
      /\ DOMAIN mSparse' = DOMAIN mSparse /\ DOMAIN mDense' = DOMAIN mDense
      /\ mSparse' \in [DOMAIN mSparse -> SparseSlotIndex]
      /\ mDense' \in [DOMAIN mDense -> DenseSlotIndex]
      /\ s \in DOMAIN mDense /\ s \in DOMAIN mSparse /\ d \in DOMAIN mDense /\ d \in Positions
      /\ d \in Alive /\ mDense[d].sparse_slot_index = s
      /\ ~mSparse'[s].alive
      /\ ~mDense'[d].alive
      /\ \A r \in DOMAIN mSparse :
           /\ mSparse'[r].dense_slot_index = mSparse[r].dense_slot_index
           /\ r # s => mSparse'[r] = mSparse[r]
      /\ \A e \in DOMAIN mDense :
           /\ mDense'[e].sparse_slot_index = mDense[e].sparse_slot_index
           /\ e # d => mDense'[e] = mDense[e]
      /\ mData' = [mData EXCEPT ![d] = NoValue]
      /\ mUncollected' = mUncollected + 1
      /\ live' = [x \in DOMAIN live \ {h} |-> live[x]]
      /\ UNCHANGED <<capacity, mBack, pc, i, lost>>
  <2>1. FreeEffect(h, s, d)
    BY <1>1, FreeFacts
  <2> QED
    BY <2>1 DEF FreeEffect
<1>3. /\ DOMAIN mDense \subseteq DOMAIN mSparse
      /\ \A e \in DOMAIN mDense :
           /\ mDense[e].sparse_slot_index \in DOMAIN mDense
           /\ mSparse[mDense[e].sparse_slot_index].dense_slot_index = e
           /\ mSparse[mDense[e].sparse_slot_index].alive <=> mDense[e].alive
      /\ \A r \in DOMAIN mDense :
           /\ mSparse[r].dense_slot_index \in DOMAIN mDense
           /\ mDense[mSparse[r].dense_slot_index].sparse_slot_index = r
      /\ \A r \in DOMAIN mSparse \ DOMAIN mDense : mSparse[r] = NewSparse
  <2>1. DOMAIN mDense \subseteq DOMAIN mSparse
    BY Domains
  <2>2. Pairs(mSparse, mDense)
    BY DEF SetInv
  <2> QED
    BY <2>1, <2>2 DEF Pairs
<1>4. TypeOK'
  <2>1. Shape(mSparse, mDense, mBack, capacity)
    BY TypeShape DEF SetInv
  <2>2. Shape(mSparse', mDense', mBack, capacity)
    BY <1>2, <2>1 DEF Shape
  <2>3. mData' \in [Positions -> Values \cup {NoValue}]
    BY <1>2, Domains
  <2> QED
    <3>1. mUncollected' \in Nat /\ mData' \in [Positions' -> Values \cup {NoValue}]
      BY <1>2, <2>3, Domains DEF Positions
    <3>2. TypeOK
      BY DEF SetInv
    <3> QED
      BY <1>2, <2>2, <3>1, <3>2 DEF TypeOK, Shape
<1>5. Pairs(mSparse, mDense)'
  <2>1. ASSUME NEW e \in DOMAIN mDense
        PROVE  /\ mDense'[e].sparse_slot_index \in DOMAIN mDense
               /\ mSparse'[mDense'[e].sparse_slot_index].dense_slot_index = e
               /\ mSparse'[mDense'[e].sparse_slot_index].alive <=> mDense'[e].alive
    <3> DEFINE r == mDense[e].sparse_slot_index
    <3>1. r \in DOMAIN mDense /\ r \in DOMAIN mSparse /\ mSparse[r].dense_slot_index = e
      BY <1>3
    <3>2. mSparse[r].alive <=> mDense[e].alive
      BY <1>3
    <3>3. mDense'[e].sparse_slot_index = r
      BY <1>2
    <3>4. e = d => r = s
      BY <1>2
    <3>5. e # d => r # s
      BY <1>1, <1>2, <3>1
    <3> HIDE DEF r
    <3>6. mSparse'[r].alive <=> mDense'[e].alive
      <4>1. CASE e = d
        BY <1>2, <3>4, <4>1
      <4>2. CASE e # d
        BY <1>2, <3>1, <3>2, <3>5, <4>2
      <4> QED
        BY <4>1, <4>2
    <3> QED
      BY <1>2, <3>1, <3>3, <3>6
  <2>2. ASSUME NEW r \in DOMAIN mDense
        PROVE  /\ mSparse'[r].dense_slot_index \in DOMAIN mDense
               /\ mDense'[mSparse'[r].dense_slot_index].sparse_slot_index = r
    <3> DEFINE q == mSparse[r].dense_slot_index
    <3>1. q \in DOMAIN mDense /\ mDense[q].sparse_slot_index = r /\ r \in DOMAIN mSparse
      BY <1>3
    <3>2. mSparse'[r].dense_slot_index = q
      BY <1>2, <3>1
    <3> HIDE DEF q
    <3>3. mDense'[q].sparse_slot_index = r
      BY <1>2, <3>1
    <3> QED
      BY <3>1, <3>2, <3>3
  <2>3. \A r \in DOMAIN mSparse \ DOMAIN mDense : mSparse'[r] = NewSparse
    BY <1>2, <1>3
  <2> QED
    BY <1>2, <2>1, <2>2, <2>3 DEF Pairs
<1>6. \A x \in Handle : Known(x)' <=> Known(x) /\ x # h
  <2> TAKE x \in Handle
  <2>1. CASE x.slot_index = s
    <3>1. ~Known(x)'
      BY <1>2, <2>1 DEF Known, KnownIn
    <3>2. ~(Known(x) /\ x # h)
      BY <1>1, <1>2, <2>1, KnownUnique
    <3> QED
      BY <3>1, <3>2
  <2>2. CASE x.slot_index # s
    <3>1. Known(x)' <=> Known(x)
      BY <1>2, <2>2 DEF Known, KnownIn
    <3>2. x # h
      BY <1>1, <2>2
    <3> QED
      BY <3>1, <3>2
  <2> QED
    BY <2>1, <2>2
<1>7. HandlesInv'
  <2>1. /\ DOMAIN live \cap lost = {}
        /\ DOMAIN live \cup lost = {x \in Handle : Known(x)}
        /\ \A x \in DOMAIN live : live[x] \in Values /\ get(x) = live[x]
    BY DEF SetInv, HandlesInv
  <2>2. DOMAIN live' = DOMAIN live \ {h}
    BY <1>2
  <2>3. {x \in Handle : Known(x)'} = {x \in Handle : Known(x)} \ {h}
    BY <1>6
  <2>4. ASSUME NEW x \in DOMAIN live'
        PROVE  live'[x] \in Values /\ get(x)' = live'[x]
    <3> DEFINE p == mSparse[x.slot_index].dense_slot_index
    <3>1. x \in DOMAIN live /\ x # h /\ x \in Handle /\ Known(x)
      BY <2>1, <2>2
    <3>2. p # d
      BY <1>1, <1>2, <3>1, KnownDistinct
    <3>3. p \in Positions /\ x.slot_index \in DOMAIN mSparse
      BY <3>1, KnownPosition, Domains
    <3>4. mSparse'[x.slot_index].dense_slot_index = p
      BY <1>2, <3>3
    <3>5. mData'[p] = mData[p]
      BY <1>2, <3>2, <3>3, Domains
    <3>6. get(x)' = get(x)
      BY <3>4, <3>5 DEF get
    <3> QED
      BY <1>2, <2>1, <3>1, <3>6
  <2> QED
    BY <1>2, <2>1, <2>2, <2>3, <2>4 DEF HandlesInv
<1>8. CountInv'
  <2>1. Alive' = Alive \ {d}
    BY <1>2 DEF Alive
  <2>2. DOMAIN live' = DOMAIN live \ {h} /\ IsFiniteSet(DOMAIN live) /\ IsFiniteSet(lost)
    BY <1>2 DEF SetInv, CountInv
  <2>3. /\ IsFiniteSet(DOMAIN live') /\ Cardinality(DOMAIN live') = Cardinality(DOMAIN live) - 1
        /\ Cardinality(DOMAIN live) \in Nat /\ Cardinality(lost) \in Nat
    BY <1>2, <2>2, FS_RemoveElement, FS_CardinalityType
  <2>4. Cardinality(Alive') = Cardinality(Alive) - 1 /\ Cardinality(Alive) \in Nat
    BY <1>2, <2>1, AliveFinite, FS_RemoveElement
  <2>5. \A e \in Alive' : e < mBack'
    BY <1>2, <2>1 DEF SetInv, CountInv
  <2>6. Cardinality(Alive) = Cardinality(DOMAIN live) + Cardinality(lost)
        /\ Cardinality(Alive) = mBack - mUncollected
    BY <1>2 DEF SetInv, CountInv
  <2>7. Cardinality(Alive') = mBack' - mUncollected'
    BY <1>2, <2>4, <2>6, Domains
  <2>8. Cardinality(Alive') = Cardinality(DOMAIN live') + Cardinality(lost')
    BY <1>2, <2>3, <2>4, <2>6
  <2> QED
    BY <1>2, <2>2, <2>3, <2>5, <2>7, <2>8 DEF CountInv
<1>9. CollectInv'
  BY <1>2 DEF CollectInv, Idle
<1> QED
  BY <1>2, <1>4, <1>5, <1>7, <1>8, <1>9 DEF SetInv

(* An empty set has no slots, no handles and no objects.                   *)
LEMMA EmptySet ==
  ASSUME capacity = 0, mBack = 0, mUncollected = 0, pc = "idle", i = 0, lost = {},
         mSparse = [s \in {} |-> NewSparse], mDense = [d \in {} |-> NewDense],
         mData = [d \in {} |-> NoValue], live = [h \in {} |-> NoValue]
  PROVE  SetInv
<1>1. DOMAIN mSparse = {} /\ DOMAIN mDense = {} /\ DOMAIN live = {}
  OBVIOUS
<1>2. TypeOK
  <2>1. 0 .. 0 - 1 = {}
    OBVIOUS
  <2>2. mSparse \in [0 .. 0 - 1 -> SparseSlotIndex] /\ mDense \in [0 .. 0 - 1 -> DenseSlotIndex]
        /\ mData \in [0 .. 0 - 1 -> Values \cup {NoValue}]
    BY <2>1
  <2>3. 0 \in 0 .. 0 /\ 0 \in 0 .. MaxCapacity /\ 0 \in Nat
    BY ConstantsAssumption
  <2> QED
    BY <2>2, <2>3 DEF TypeOK, Positions
<1>3. Pairs(mSparse, mDense)
  BY <1>1 DEF Pairs
<1>4. HandlesInv
  BY <1>1 DEF HandlesInv, Known, KnownIn
<1>5. CountInv
  <2>1. Alive = {}
    BY <1>1 DEF Alive
  <2> QED
    BY <1>1, <2>1, FS_EmptySet DEF CountInv
<1>6. CollectInv
  BY DEF CollectInv, Idle
<1> QED
  BY <1>2, <1>3, <1>4, <1>5, <1>6 DEF SetInv

LEMMA ClearStep ==
  ASSUME SetInv, Careful, clear
  PROVE  SetInv'
<1>1. /\ capacity' = 0 /\ mBack' = 0 /\ mUncollected' = 0 /\ pc' = "idle"
      /\ mSparse' = [s \in {} |-> NewSparse] /\ mDense' = [d \in {} |-> NewDense]
      /\ mData' = [d \in {} |-> NoValue] /\ live' = [h \in {} |-> NoValue]
      /\ lost' = {} /\ i' \in 0 .. MaxCapacity
  BY DEF clear, Careful, Idle, SetInv, TypeOK
<1>2. /\ mBack' = 0 /\ mUncollected' = 0 /\ pc' = "idle" /\ lost' = {}
      /\ DOMAIN mSparse' = {} /\ DOMAIN mDense' = {} /\ DOMAIN live' = {}
  BY <1>1
<1>3. TypeOK'
  <2>1. 0 .. 0 - 1 = {}
    OBVIOUS
  <2>2. mSparse' \in [0 .. 0 - 1 -> SparseSlotIndex] /\ mDense' \in [0 .. 0 - 1 -> DenseSlotIndex]
        /\ mData' \in [0 .. 0 - 1 -> Values \cup {NoValue}]
    BY <1>1, <2>1
  <2>3. 0 \in 0 .. 0 /\ 0 \in 0 .. MaxCapacity /\ 0 \in Nat
    BY ConstantsAssumption
  <2> QED
    BY <1>1, <2>2, <2>3 DEF TypeOK, Positions
<1>4. Pairs(mSparse, mDense)'
  BY <1>2 DEF Pairs
<1>5. HandlesInv'
  BY <1>2 DEF HandlesInv, Known, KnownIn
<1>6. CountInv'
  <2>1. Alive' = {}
    BY <1>2 DEF Alive
  <2> QED
    BY <1>2, <2>1, FS_EmptySet DEF CountInv
<1>7. CollectInv'
  BY <1>2 DEF CollectInv, Idle
<1> QED
  BY <1>3, <1>4, <1>5, <1>6, <1>7 DEF SetInv

-----------------------------------------------------------------------------
(* collect.  Where the objects are when they are so many.                  *)

LEMMA AliveCounted ==
  ASSUME SetInv, NEW k \in Nat, \A d \in Alive : d < k
  PROVE  /\ Cardinality(Alive) <= k
         /\ Cardinality(Alive) = k => Alive = 0 .. k - 1
<1>1. Alive \subseteq 0 .. k - 1
  <2>1. \A d \in Alive : d \in Nat
    BY Domains DEF Alive
  <2> QED
    BY <2>1
<1> DEFINE S == 0 .. k - 1
<1>2. IsFiniteSet(S) /\ Cardinality(S) = k
  BY CountedBelow
<1>3. Alive \in SUBSET S
  BY <1>1
<1> HIDE DEF S
<1>4. Cardinality(Alive) <= Cardinality(S) /\ (Cardinality(S) = Cardinality(Alive) => S = Alive)
  BY <1>2, <1>3, FS_Subset
<1> QED
  BY <1>2, <1>4 DEF S

(* A step that moves no object. *)
LEMMA StillTransparent ==
  ASSUME UNCHANGED <<vectors, clients>>
  PROVE  Transparent /\ Alive' = Alive
<1>1. /\ mSparse' = mSparse /\ mDense' = mDense /\ mData' = mData
  BY DEF vectors
<1>2. Alive' = Alive
  BY <1>1 DEF Alive
<1>3. \A h \in Handle : /\ Known(h)' <=> Known(h)
                        /\ Known(h) => get(h)' = get(h)
  BY <1>1 DEF Known, get
<1> QED
  BY <1>2, <1>3 DEF Transparent

(* ... keeps the invariant if it keeps the counters and the loops right.   *)
LEMMA StillStep ==
  ASSUME SetInv, UNCHANGED <<vectors, clients>>,
         mBack' \in 0 .. mBack, mUncollected' \in Nat, pc' \in {"idle", "scan", "trim"},
         i' \in 0 .. MaxCapacity,
         \A d \in Alive : d < mBack',
         Idle' => Cardinality(Alive) = mBack' - mUncollected',
         CollectInv'
  PROVE  SetInv'
<1>1. Transparent /\ Alive' = Alive
  BY StillTransparent
<1>2. HandlesInv'
  BY <1>1, TransparentHandles DEF SetInv
<1>3. CountInv'
  BY <1>1 DEF SetInv, CountInv, clients
<1>4. Pairs(mSparse, mDense)'
  BY DEF SetInv, vectors
<1>5. TypeOK'
  <2>1. PICK n \in mBack .. capacity, m \in mBack .. capacity :
          /\ m <= n
          /\ mSparse \in [0 .. n - 1 -> SparseSlotIndex]
          /\ mDense \in [0 .. m - 1 -> DenseSlotIndex]
    BY TypeShape DEF SetInv, Shape
  <2>2. n \in mBack' .. capacity /\ m \in mBack' .. capacity /\ mBack' \in 0 .. MaxCapacity
    BY <2>1, Domains
  <2>3. Shape(mSparse', mDense', mBack', capacity')
    BY <2>1, <2>2 DEF Shape, vectors
  <2>4. capacity' \in 0 .. MaxCapacity /\ mData' \in [Positions' -> Values \cup {NoValue}]
    BY DEF SetInv, TypeOK, Positions, vectors
  <2> QED
    BY <2>2, <2>3, <2>4 DEF TypeOK, Shape
<1> QED
  BY <1>2, <1>3, <1>4, <1>5 DEF SetInv

LEMMA CollectAllStep ==
  ASSUME SetInv, collectAll
  PROVE  SetInv' /\ Transparent
<1>1. /\ Idle /\ mUncollected = mBack /\ mUncollected' = 0 /\ mBack' = 0
      /\ UNCHANGED <<vectors, pc, i, clients>>
  BY DEF collectAll
<1>2. Cardinality(Alive) = 0
  BY <1>1, Domains DEF SetInv, CountInv
<1>3. Alive = {}
  BY <1>2, AliveFinite, FS_EmptySet
<1>4. mBack' \in 0 .. mBack /\ mUncollected' \in Nat /\ i' \in 0 .. MaxCapacity
      /\ pc' \in {"idle", "scan", "trim"} /\ Cardinality(Alive) = mBack' - mUncollected'
  BY <1>1, <1>2, Domains DEF SetInv, TypeOK
<1>5. CollectInv'
  BY <1>1 DEF CollectInv, Idle
<1> QED
  BY <1>1, <1>3, <1>4, <1>5, StillStep, StillTransparent

LEMMA CollectStartStep ==
  ASSUME SetInv, Careful, collectStart
  PROVE  SetInv' /\ Transparent
<1>1. /\ Idle /\ mUncollected # 0 /\ mUncollected # mBack /\ CollectSafe
      /\ pc' = "scan" /\ i' = 0 /\ UNCHANGED <<vectors, mBack, mUncollected, clients>>
  BY DEF collectStart, Careful
<1>2. size = Cardinality(Alive) /\ Cardinality(Alive) \in Nat
  BY <1>1, AliveFinite DEF SetInv, CountInv, size
<1>3. size \in 0 .. mBack - 1
  BY <1>1, <1>2, Domains DEF size
<1>4. Cardinality(Alive) \in Alive
  BY <1>1, <1>2, <1>3, Domains DEF Alive, CollectSafe
<1>5. /\ mBack' \in 0 .. mBack /\ mUncollected' \in Nat /\ i' \in 0 .. MaxCapacity
      /\ \A d \in Alive : d < mBack'
  BY <1>1, Domains DEF SetInv, CountInv
<1>6. CollectInv'
  <2>1. Alive' = Alive
    BY <1>1, StillTransparent
  <2>2. \A d \in DOMAIN mDense' : ~(d < i')
    BY <1>1, Domains DEF vectors
  <2>3. i' <= mBack'
    BY <1>1, Domains
  <2> QED
    BY <1>1, <1>4, <2>1, <2>2, <2>3 DEF CollectInv
<1> QED
  BY <1>1, <1>5, <1>6, StillStep, StillTransparent DEF Idle

LEMMA CollectSkipStep ==
  ASSUME SetInv, collectSkip
  PROVE  SetInv' /\ Transparent
<1>1. /\ pc = "scan" /\ i < mBack /\ mDense[i].alive /\ i' = i + 1
      /\ UNCHANGED <<vectors, mBack, mUncollected, pc, clients>>
  BY DEF collectSkip
<1>2. /\ mBack' \in 0 .. mBack /\ mUncollected' \in Nat /\ i' \in 0 .. MaxCapacity
      /\ \A d \in Alive : d < mBack'
  BY <1>1, Domains DEF SetInv, CountInv
<1>3. CollectInv'
  <2>1. Alive' = Alive
    BY <1>1, StillTransparent
  <2>2. \A d \in DOMAIN mDense' : d < i' => mDense'[d].alive
    <3>1. \A d \in DOMAIN mDense : d < i => mDense[d].alive
      BY <1>1 DEF SetInv, CollectInv, Idle
    <3>2. \A d \in DOMAIN mDense : d < i + 1 => d < i \/ d = i
      BY Domains
    <3> QED
      BY <1>1, <3>1, <3>2 DEF vectors
  <2>3. i' <= mBack'
    BY <1>1, Domains
  <2>4. Cardinality(Alive) \in Alive \/ mBack = Cardinality(Alive)
    BY <1>1 DEF SetInv, CollectInv, Idle
  <2> QED
    BY <1>1, <2>1, <2>2, <2>3, <2>4 DEF CollectInv
<1> QED
  BY <1>1, <1>2, <1>3, StillStep, StillTransparent DEF Idle

LEMMA CollectHoleStep ==
  ASSUME SetInv, collectHole
  PROVE  SetInv' /\ Transparent
<1>1. /\ pc = "scan" /\ i < mBack /\ ~mDense[i].alive /\ pc' = "trim"
      /\ UNCHANGED <<vectors, mBack, mUncollected, i, clients>>
  BY DEF collectHole
<1>2. /\ mBack' \in 0 .. mBack /\ mUncollected' \in Nat /\ i' \in 0 .. MaxCapacity
      /\ \A d \in Alive : d < mBack'
  BY <1>1, Domains DEF SetInv, CountInv, TypeOK
<1>3. CollectInv'
  <2>1. Alive' = Alive
    BY <1>1, StillTransparent
  <2>2. CollectInv
    BY DEF SetInv
  <2> QED
    BY <1>1, <2>1, <2>2 DEF CollectInv, Idle, vectors
<1> QED
  BY <1>1, <1>2, <1>3, StillStep, StillTransparent DEF Idle

(* The while loop stops before it gets to the hole: were there no live     *)
(* object left above it, the live ones would be exactly those below.       *)
LEMMA CollectTrimStep ==
  ASSUME SetInv, collectTrim
  PROVE  SetInv' /\ Transparent
<1>1. /\ pc = "trim" /\ ~mDense[mBack - 1].alive /\ mBack' = mBack - 1
      /\ UNCHANGED <<vectors, mUncollected, pc, i, clients>>
  BY DEF collectTrim
<1> DEFINE n == Cardinality(Alive)
<1>2. /\ i < mBack /\ ~mDense[i].alive
      /\ \A d \in DOMAIN mDense : d < i => mDense[d].alive
      /\ n \in Alive \/ mBack = n
  BY <1>1 DEF SetInv, CollectInv, Idle
<1>3. /\ \A d \in Alive : d < mBack /\ d \in Nat /\ d \in DOMAIN mDense /\ mDense[d].alive
      /\ n \in Nat
  BY Domains, AliveFinite DEF SetInv, CountInv, Alive
<1>4. \A d \in Alive : d < mBack - 1
  BY <1>1, <1>3, Domains
<1>5. mBack - 1 \in Nat /\ mBack - 1 \in 0 .. mBack
  BY <1>2, Domains
<1>6. n # mBack
  <2>1. n <= mBack - 1
    BY <1>4, <1>5, AliveCounted
  <2> QED
    BY <1>3, <2>1, Domains
<1>7. i # mBack - 1
  <2> SUFFICES ASSUME i = mBack - 1
               PROVE  FALSE
    OBVIOUS
  <2>1. 0 .. i - 1 \subseteq Alive
    <3>1. 0 .. i - 1 \subseteq DOMAIN mDense
      BY Domains
    <3> QED
      BY <1>2, <3>1 DEF Alive
  <2>2. i \in Nat
    BY Domains
  <2>3. \A d \in Alive : d \in 0 .. i - 1
    BY <1>3, <1>4, <2>2
  <2>4. Alive = 0 .. i - 1
    BY <2>1, <2>3
  <2>5. n = i
    BY <2>2, <2>4, CountedBelow
  <2> QED
    BY <1>2, <1>4, <1>6, <2>5, Domains
<1>8. CollectInv'
  <2>1. Alive' = Alive
    BY <1>1, StillTransparent
  <2>2. i < mBack'
    BY <1>1, <1>2, <1>7, Domains
  <2> QED
    BY <1>1, <1>2, <1>6, <2>1, <2>2, Domains DEF CollectInv, vectors
<1>9. /\ mBack' \in 0 .. mBack /\ mUncollected' \in Nat /\ i' \in 0 .. MaxCapacity
      /\ \A d \in Alive : d < mBack'
  BY <1>1, <1>4, <1>5, Domains DEF SetInv, TypeOK
<1> QED
  BY <1>1, <1>8, <1>9, StillStep, StillTransparent DEF Idle

(* When the for loop ends there is no hole left. *)
LEMMA CollectEndStep ==
  ASSUME SetInv, collectEnd
  PROVE  SetInv' /\ Transparent
<1>1. /\ pc = "scan" /\ i >= mBack /\ mUncollected' = 0 /\ pc' = "idle" /\ i' = 0
      /\ UNCHANGED <<vectors, mBack, clients>>
  BY DEF collectEnd
<1>2. i = mBack /\ \A d \in DOMAIN mDense : d < i => mDense[d].alive
  BY <1>1, Domains DEF SetInv, CollectInv, Idle
<1>3. Alive = 0 .. mBack - 1
  <2>1. \A d \in Alive : d < mBack /\ d \in Nat
    BY Domains DEF SetInv, CountInv, Alive
  <2>2. 0 .. mBack - 1 \subseteq DOMAIN mDense
    BY Domains
  <2>3. 0 .. mBack - 1 \subseteq Alive
    BY <1>2, <2>2, Domains DEF Alive
  <2>4. mBack \in Nat
    BY Domains
  <2>5. \A d \in Alive : d \in 0 .. mBack - 1
    BY <2>1, <2>4
  <2> QED
    BY <2>3, <2>5
<1>4. Cardinality(Alive) = mBack
  BY <1>3, CountedBelow, Domains
<1>5. /\ mBack' \in 0 .. mBack /\ mUncollected' \in Nat /\ i' \in 0 .. MaxCapacity
      /\ \A d \in Alive : d < mBack'
      /\ Cardinality(Alive) = mBack' - mUncollected'
  BY <1>1, <1>4, Domains, ConstantsAssumption DEF SetInv, CountInv
<1>6. CollectInv'
  BY <1>1 DEF CollectInv, Idle
<1> QED
  BY <1>1, <1>5, <1>6, StillStep, StillTransparent

(* "just swap sparse indices, not slot serial": the handles of the object  *)
(* that moves find it in the hole, those of the others where it was.       *)
LEMMA CollectSwapStep ==
  ASSUME SetInv, collectSwap
  PROVE  SetInv' /\ Transparent
<1>1. PICK last, cur, other :
        /\ last = mBack - 1
        /\ cur = mDense[i].sparse_slot_index
        /\ other = mDense[last].sparse_slot_index
  OBVIOUS
<1>2. /\ pc = "trim" /\ mDense[last].alive
      /\ mData' = SwappedData(mSparse[cur].dense_slot_index, last)
      /\ mDense' = [mDense EXCEPT ![i] = mDense[last], ![last] = mDense[i]]
      /\ mSparse' = SwappedSparse(cur, other)
      /\ mBack' = last /\ i' = i + 1 /\ pc' = "scan"
      /\ UNCHANGED <<capacity, mUncollected, clients>>
  BY <1>1 DEF collectSwap
<1> DEFINE n == Cardinality(Alive)
<1>3. /\ i < mBack /\ ~mDense[i].alive
      /\ \A d \in DOMAIN mDense : d < i => mDense[d].alive
      /\ n \in Alive \/ mBack = n
  BY <1>2 DEF SetInv, CollectInv, Idle
<1>4. /\ \A e \in DOMAIN mDense :
           /\ mDense[e].sparse_slot_index \in DOMAIN mDense
           /\ mSparse[mDense[e].sparse_slot_index].dense_slot_index = e
           /\ mSparse[mDense[e].sparse_slot_index].alive <=> mDense[e].alive
      /\ \A r \in DOMAIN mDense :
           /\ mSparse[r].dense_slot_index \in DOMAIN mDense
           /\ mDense[mSparse[r].dense_slot_index].sparse_slot_index = r
      /\ \A r \in DOMAIN mSparse \ DOMAIN mDense : mSparse[r] = NewSparse
  <2>1. Pairs(mSparse, mDense)
    BY DEF SetInv
  <2> QED
    BY <2>1 DEF Pairs
<1>5. i \in Nat /\ last \in Nat /\ i < last /\ last < mBack /\ mBack \in Nat
  <2>1. i # last
    BY <1>2, <1>3
  <2> QED
    BY <1>1, <1>3, <2>1, Domains
<1>6. i \in DOMAIN mDense /\ last \in DOMAIN mDense
  <2>1. i \in 0 .. mBack - 1 /\ last \in 0 .. mBack - 1
    BY <1>1, <1>3, <1>5
  <2> QED
    BY <2>1, Domains
<1>7. /\ cur \in DOMAIN mDense /\ other \in DOMAIN mDense
      /\ mSparse[cur].dense_slot_index = i /\ mSparse[other].dense_slot_index = last
      /\ cur # other
  <2>1. /\ cur \in DOMAIN mDense /\ other \in DOMAIN mDense
        /\ mSparse[cur].dense_slot_index = i /\ mSparse[other].dense_slot_index = last
    BY <1>1, <1>4, <1>6
  <2> QED
    BY <1>5, <2>1
<1>8. ~mSparse[cur].alive /\ mSparse[other].alive
  BY <1>1, <1>2, <1>3, <1>4, <1>6
<1>9. /\ DOMAIN mDense \subseteq DOMAIN mSparse
      /\ mSparse \in [DOMAIN mSparse -> SparseSlotIndex]
      /\ mDense \in [DOMAIN mDense -> DenseSlotIndex]
      /\ mData \in [Positions -> Values \cup {NoValue}]
      /\ DOMAIN mSparse \subseteq Positions /\ DOMAIN mSparse \subseteq Slot
  BY Domains
<1>10. /\ DOMAIN mDense' = DOMAIN mDense
       /\ mDense' \in [DOMAIN mDense -> DenseSlotIndex]
       /\ mDense'[i] = mDense[last] /\ mDense'[last] = mDense[i]
       /\ \A d \in DOMAIN mDense : d # i /\ d # last => mDense'[d] = mDense[d]
  BY <1>2, <1>5, <1>6, <1>9
<1>11. /\ mData' \in [Positions -> Values \cup {NoValue}]
       /\ mData'[i] = mData[last]
       /\ \A d \in Positions : d # i /\ d # last => mData'[d] = mData[d]
  <2>1. i \in Positions /\ last \in Positions
    BY <1>6, <1>9
  <2> QED
    BY <1>2, <1>5, <1>7, <1>9, <2>1 DEF SwappedData
<1>12. /\ DOMAIN mSparse' = DOMAIN mSparse
       /\ mSparse' \in [DOMAIN mSparse -> SparseSlotIndex]
       /\ mSparse'[cur].dense_slot_index = last
       /\ mSparse'[other].dense_slot_index = i
       /\ \A s \in DOMAIN mSparse :
            /\ mSparse'[s].slot_serial = mSparse[s].slot_serial
            /\ s # cur /\ s # other => mSparse'[s] = mSparse[s]
  <2>1. i \in Slot /\ last \in Slot /\ cur \in DOMAIN mSparse /\ other \in DOMAIN mSparse
    BY <1>6, <1>7, <1>9
  <2>2. mSparse' = [mSparse EXCEPT ![cur].dense_slot_index = last, ![other].dense_slot_index = i]
    BY <1>2, <1>7 DEF SwappedSparse
  <2> QED
    BY <1>7, <1>9, <2>1, <2>2 DEF SparseSlotIndex
<1>13. \A s \in DOMAIN mSparse : mSparse'[s].alive = mSparse[s].alive
  <2>1. mSparse' = [mSparse EXCEPT ![cur].dense_slot_index = last, ![other].dense_slot_index = i]
    BY <1>2, <1>7 DEF SwappedSparse
  <2> QED
    BY <1>7, <1>9, <2>1 DEF SparseSlotIndex
<1>14. TypeOK'
  <2>1. PICK k \in mBack .. capacity, m \in mBack .. capacity :
          /\ m <= k
          /\ mSparse \in [0 .. k - 1 -> SparseSlotIndex]
          /\ mDense \in [0 .. m - 1 -> DenseSlotIndex]
    BY TypeShape DEF SetInv, Shape
  <2>2. k \in last .. capacity /\ m \in last .. capacity /\ last \in 0 .. MaxCapacity
        /\ i + 1 \in 0 .. MaxCapacity
    BY <1>5, <2>1, Domains
  <2>3. Shape(mSparse', mDense', last, capacity)
    BY <1>10, <1>12, <2>1, <2>2 DEF Shape
  <2>4. capacity \in 0 .. MaxCapacity /\ mUncollected \in Nat
    BY DEF SetInv, TypeOK
  <2> QED
    BY <1>2, <1>11, <2>2, <2>3, <2>4 DEF TypeOK, Shape, Positions
<1>15. Pairs(mSparse, mDense)'
  <2>1. ASSUME NEW d \in DOMAIN mDense
        PROVE  /\ mDense'[d].sparse_slot_index \in DOMAIN mDense
               /\ mSparse'[mDense'[d].sparse_slot_index].dense_slot_index = d
               /\ mSparse'[mDense'[d].sparse_slot_index].alive <=> mDense'[d].alive
    <3>1. CASE d = i
      <4>1. mDense'[d].sparse_slot_index = other
        BY <1>1, <1>10, <3>1
      <4>2. mSparse'[other].alive = mSparse[other].alive
        BY <1>7, <1>9, <1>13
      <4> QED
        BY <1>2, <1>7, <1>8, <1>10, <1>12, <3>1, <4>1, <4>2
    <3>2. CASE d = last
      <4>1. mDense'[d].sparse_slot_index = cur
        BY <1>1, <1>10, <3>2
      <4>2. mSparse'[cur].alive = mSparse[cur].alive
        BY <1>7, <1>9, <1>13
      <4> QED
        BY <1>3, <1>7, <1>8, <1>10, <1>12, <3>2, <4>1, <4>2
    <3>3. CASE d # i /\ d # last
      <4>1. PICK s : s = mDense[d].sparse_slot_index
        OBVIOUS
      <4>2. /\ mDense'[d] = mDense[d]
            /\ s \in DOMAIN mDense /\ s \in DOMAIN mSparse
            /\ mSparse[s].dense_slot_index = d
        BY <1>4, <1>9, <1>10, <3>3, <4>1
      <4>3. mSparse[s].alive <=> mDense[d].alive
        BY <1>4, <4>1
      <4>4. s # cur /\ s # other
        BY <1>7, <3>3, <4>2
      <4>5. mSparse'[s] = mSparse[s]
        BY <1>12, <4>2, <4>4
      <4> QED
        BY <4>1, <4>2, <4>3, <4>5
    <3> QED
      BY <3>1, <3>2, <3>3
  <2>2. ASSUME NEW s \in DOMAIN mDense
        PROVE  /\ mSparse'[s].dense_slot_index \in DOMAIN mDense
               /\ mDense'[mSparse'[s].dense_slot_index].sparse_slot_index = s
    <3>1. CASE s = cur
      BY <1>1, <1>6, <1>10, <1>12, <3>1
    <3>2. CASE s = other
      BY <1>1, <1>6, <1>10, <1>12, <3>2
    <3>3. CASE s # cur /\ s # other
      <4>1. PICK d : d = mSparse[s].dense_slot_index
        OBVIOUS
      <4>2. /\ mSparse'[s] = mSparse[s]
            /\ d \in DOMAIN mDense /\ mDense[d].sparse_slot_index = s
        BY <1>4, <1>9, <1>12, <3>3, <4>1
      <4>3. d # i /\ d # last
        BY <1>1, <3>3, <4>2
      <4> QED
        BY <1>10, <4>1, <4>2, <4>3
    <3> QED
      BY <3>1, <3>2, <3>3
  <2>3. \A s \in DOMAIN mSparse \ DOMAIN mDense : mSparse'[s] = NewSparse
    BY <1>4, <1>7, <1>12
  <2> QED
    BY <1>10, <1>12, <2>1, <2>2, <2>3 DEF Pairs
<1>16. Alive' = (Alive \ {last}) \cup {i}
  <2>1. Alive' = {d \in DOMAIN mDense : mDense'[d].alive}
    BY <1>10 DEF Alive
  <2>2. mDense'[i].alive /\ ~mDense'[last].alive
    BY <1>2, <1>3, <1>10
  <2>3. \A d \in DOMAIN mDense : d # i /\ d # last => (mDense'[d].alive <=> mDense[d].alive)
    BY <1>10
  <2> QED
    BY <1>6, <2>1, <2>2, <2>3 DEF Alive
<1>17. /\ Cardinality(Alive') = n
       /\ last \in Alive /\ i \notin Alive /\ n \in Nat
  <2>1. last \in Alive /\ i \notin Alive
    BY <1>2, <1>3, <1>6 DEF Alive
  <2>2. IsFiniteSet(Alive \ {last}) /\ Cardinality(Alive \ {last}) = n - 1
    BY <2>1, AliveFinite, FS_RemoveElement
  <2>3. Cardinality((Alive \ {last}) \cup {i}) = (n - 1) + 1
    BY <2>1, <2>2, FS_AddElement
  <2> QED
    BY <1>16, <2>1, <2>3, AliveFinite
<1>18. Transparent
  <2> SUFFICES ASSUME NEW h \in Handle
               PROVE  /\ Known(h)' <=> Known(h)
                      /\ Known(h) => get(h)' = get(h)
    BY <1>2 DEF Transparent
  <2>1. Known(h)' <=> Known(h)
    BY <1>12, <1>13 DEF Known, KnownIn
  <2>2. ASSUME Known(h)
        PROVE  get(h)' = get(h)
    <3>1. PICK s, p : s = h.slot_index /\ p = mSparse[s].dense_slot_index
      OBVIOUS
    <3>2. s \in DOMAIN mSparse /\ mSparse[s].alive
      BY <2>2, <3>1 DEF Known, KnownIn
    <3>3. /\ p \in Positions /\ mDense[p].sparse_slot_index = s
      BY <2>2, <3>1, KnownPosition
    <3>4. s # cur
      BY <1>8, <3>2
    <3>5. CASE s = other
      <4>1. get(h)' = mData'[i] /\ get(h) = mData[last]
        BY <1>7, <1>12, <3>1, <3>5 DEF get
      <4> QED
        BY <1>11, <4>1
    <3>6. CASE s # other
      <4>1. p # i /\ p # last
        BY <1>1, <3>3, <3>4, <3>6
      <4>2. mSparse'[s] = mSparse[s]
        BY <1>12, <3>2, <3>4, <3>6
      <4>3. get(h)' = mData'[p] /\ get(h) = mData[p]
        BY <3>1, <4>2 DEF get
      <4> QED
        BY <1>11, <3>3, <4>1, <4>3
    <3> QED
      BY <3>5, <3>6
  <2> QED
    BY <2>1, <2>2
<1>19. \A d \in Alive : d < mBack /\ d \in Nat
  BY Domains DEF SetInv, CountInv, Alive
<1>20. n # mBack
  <2> SUFFICES ASSUME n = mBack
               PROVE  FALSE
    OBVIOUS
  <2>1. Alive = 0 .. mBack - 1
    BY <1>5, <1>19, AliveCounted
  <2> QED
    BY <1>5, <1>17, <2>1
<1>21. HandlesInv'
  BY <1>18, TransparentHandles DEF SetInv
<1>22. CountInv'
  <2>1. \A d \in Alive' : d < mBack'
    BY <1>1, <1>2, <1>5, <1>16, <1>19
  <2> QED
    BY <1>2, <1>17, <2>1 DEF SetInv, CountInv, clients, Idle
<1>23. CollectInv'
  <2>1. \A d \in DOMAIN mDense' : d < i' => mDense'[d].alive
    <3>1. DOMAIN mDense \subseteq Slot
      BY <1>9
    <3>2. \A d \in DOMAIN mDense : d < i + 1 => d = i \/ (d < i /\ d # i /\ d # last)
      BY <1>5, <3>1 DEF Slot
    <3>3. mDense'[i].alive
      BY <1>2, <1>10
    <3> QED
      BY <1>2, <1>3, <1>10, <3>2, <3>3
  <2>2. i' <= mBack'
    BY <1>2, <1>5
  <2>3. n \in Alive' \/ mBack' = n
    BY <1>2, <1>3, <1>16, <1>20
  <2> QED
    BY <1>2, <1>17, <2>1, <2>2, <2>3 DEF CollectInv
<1> QED
  BY <1>14, <1>15, <1>18, <1>21, <1>22, <1>23 DEF SetInv

-----------------------------------------------------------------------------
(* The invariant holds. *)

LEMMA SetInit == Init => SetInv
<1> SUFFICES ASSUME Init
             PROVE  SetInv
  OBVIOUS
<1>1. /\ capacity = 0 /\ mBack = 0 /\ mUncollected = 0 /\ pc = "idle" /\ i = 0 /\ lost = {}
      /\ mSparse = [s \in {} |-> NewSparse] /\ mDense = [d \in {} |-> NewDense]
      /\ mData = [d \in {} |-> NoValue] /\ live = [h \in {} |-> NoValue]
  BY DEF Init
<1>2. DOMAIN mSparse = {} /\ DOMAIN mDense = {} /\ DOMAIN live = {}
  BY <1>1
<1>3. TypeOK
  <2>1. 0 .. 0 - 1 = {}
    OBVIOUS
  <2>2. mSparse \in [0 .. 0 - 1 -> SparseSlotIndex] /\ mDense \in [0 .. 0 - 1 -> DenseSlotIndex]
        /\ mData \in [0 .. 0 - 1 -> Values \cup {NoValue}]
    BY <1>1, <2>1
  <2>3. 0 \in 0 .. 0 /\ 0 \in 0 .. MaxCapacity /\ 0 \in Nat
    BY ConstantsAssumption
  <2> QED
    BY <1>1, <2>2, <2>3 DEF TypeOK, Positions
<1>4. Pairs(mSparse, mDense)
  BY <1>2 DEF Pairs
<1>5. HandlesInv
  BY <1>1, <1>2 DEF HandlesInv, Known, KnownIn
<1>6. CountInv
  <2>1. Alive = {}
    BY <1>2 DEF Alive
  <2> QED
    BY <1>1, <1>2, <2>1, FS_EmptySet DEF CountInv
<1>7. CollectInv
  BY <1>1 DEF CollectInv, Idle
<1> QED
  BY <1>3, <1>4, <1>5, <1>6, <1>7 DEF SetInv

(* One turn of a loop of collect. *)
LEMMA CollectStepStep ==
  ASSUME SetInv, collectStep
  PROVE  SetInv' /\ Transparent
  BY CollectSkipStep, CollectHoleStep, CollectTrimStep, CollectSwapStep, CollectEndStep
     DEF collectStep

LEMMA SetNext ==
  ASSUME Careful
  PROVE  SetInv /\ [Next]_vars => SetInv'
<1> SUFFICES ASSUME SetInv, [Next]_vars
             PROVE  SetInv'
  OBVIOUS
<1>1. ASSUME NEW n \in 0 .. MaxCapacity, reserve(n)
      PROVE  SetInv'
  BY <1>1, ReserveStep
<1>2. ASSUME NEW n \in 0 .. MaxCapacity, reserveThrows(n)
      PROVE  SetInv'
  BY <1>2, ReserveThrowsStep
<1>3. ASSUME NEW v \in Values, alloc(v)
      PROVE  SetInv'
  BY <1>3, AllocStep
<1>4. CASE constructorThrows
  BY <1>4, ConstructorThrowsStep
<1>5. ASSUME NEW h \in Handle, NEW v \in Values, setVal(h, v)
      PROVE  SetInv'
  BY <1>5, SetValStep
<1>6. ASSUME NEW h \in Handle, free(h)
      PROVE  SetInv'
  BY <1>6, FreeStep
<1>7. CASE clear
  BY <1>7, ClearStep
<1>8. CASE collectAll
  BY <1>8, CollectAllStep
<1>9. CASE collectStart
  BY <1>9, CollectStartStep
<1>10. CASE collectStep
  BY <1>10, CollectStepStep
<1>11. CASE UNCHANGED vars
  <2>1. mBack \in 0 .. mBack
    BY Domains
  <2> QED
    BY <1>11, <2>1, StillTransparent, StillStep
       DEF vars, SetInv, TypeOK, CountInv, CollectInv, Idle, vectors
<1> QED
  BY <1>1, <1>2, <1>3, <1>4, <1>5, <1>6, <1>7, <1>8, <1>9, <1>10, <1>11 DEF Next

LEMMA SetInvariant ==
  ASSUME Careful
  PROVE  Spec => []SetInv
  BY SetInit, SetNext, PTL DEF Spec

-----------------------------------------------------------------------------
(* What it implies. *)

LEMMA KnownIsValid ==
  ASSUME NEW h
  PROVE  isValid(h) <=> isSet(h) /\ Known(h)
  BY DEF isValid, Known, KnownIn

LEMMA InvIndexMaps == SetInv => IndexMapsInverse
  BY DEF SetInv, Pairs, IndexMapsInverse

LEMMA InvDenseCounted == SetInv => DenseCounted
  BY DEF SetInv, CountInv, Alive, DenseCounted

LEMMA InvLiveHandles == SetInv => LiveHandlesResolve
  BY KnownIsValid DEF SetInv, HandlesInv, LiveHandlesResolve

LEMMA InvSizeCounts == SetInv => SizeCountsLive
  BY DEF SetInv, CountInv, SizeCountsLive, size

LEMMA InvAccesses == SetInv => AccessesInRange
<1> SUFFICES ASSUME SetInv
             PROVE  AccessesInRange
  OBVIOUS
<1>1. mBack <= Cardinality(DOMAIN mDense)
  <2>1. PICK m \in mBack .. capacity : DOMAIN mDense = 0 .. m - 1
    BY Domains
  <2>2. m \in Nat /\ mBack <= m
    BY <2>1, Domains
  <2> QED
    BY <2>1, <2>2, CountedBelow
<1>2. \A h \in DOMAIN live : h.slot_index \in DOMAIN mSparse
  BY DEF SetInv, HandlesInv, Known, KnownIn
<1>3. \A d \in DOMAIN mDense : mDense[d].sparse_slot_index \in DOMAIN mSparse
  BY Domains DEF SetInv, Pairs
<1>4. ASSUME NEW s \in DOMAIN mSparse
      PROVE  mSparse[s].dense_slot_index \in Positions
  <2>1. CASE s \in DOMAIN mDense
    BY <2>1, Domains DEF SetInv, Pairs
  <2>2. CASE s \notin DOMAIN mDense
    <3>1. mSparse[s].dense_slot_index = 0
      BY <2>2 DEF SetInv, Pairs, NewSparse
    <3>2. s \in Positions /\ capacity \in Nat
      BY Domains
    <3>3. 0 \in Positions
      BY <3>2 DEF Positions
    <3> QED
      BY <3>1, <3>3
  <2> QED
    BY <2>1, <2>2
<1>5. pc = "trim" => mBack > i
  BY Domains DEF SetInv, CollectInv, Idle
<1> QED
  BY <1>1, <1>2, <1>3, <1>4, <1>5 DEF AccessesInRange

-----------------------------------------------------------------------------
(* Serials. *)

(* Only clear takes slots away, and only free changes a serial.            *)
SerialsKept ==
  \A s \in DOMAIN mSparse : /\ s \in DOMAIN mSparse'
                            /\ mSparse'[s].slot_serial = mSparse[s].slot_serial

LEMMA ReserveKeepsSerials ==
  ASSUME SetInv, NEW n \in 0 .. MaxCapacity, n >= capacity
  PROVE  \A s \in DOMAIN mSparse :
           /\ s \in DOMAIN ReservedSparse(n)
           /\ ReservedSparse(n)[s].slot_serial = mSparse[s].slot_serial
  BY ReservedElements DEF SetInv

LEMMA AllocKeepsSerials ==
  ASSUME SetInv, NEW content \in Values \cup {NoValue}, allocSlot(content)
  PROVE  SerialsKept
<1>1. \A s \in DOMAIN mSparse : /\ s \in DOMAIN roomSparse
                                /\ roomSparse[s].slot_serial = mSparse[s].slot_serial
  <2>1. room \in 0 .. MaxCapacity /\ room >= capacity
    BY RoomFacts
  <2> QED
    BY <2>1, ReserveKeepsSerials DEF roomSparse
<1>2. mSparse' = [roomSparse EXCEPT ![available].alive = TRUE]
  BY DEF allocSlot
<1>3. \A s \in DOMAIN roomSparse : /\ s \in DOMAIN mSparse'
                                   /\ mSparse'[s].slot_serial = roomSparse[s].slot_serial
  <2>1. roomSparse \in [DOMAIN roomSparse -> SparseSlotIndex]
    BY RoomFacts, ShapeFacts, Domains
  <2> QED
    BY <1>2, <2>1 DEF SparseSlotIndex
<1> QED
  BY <1>1, <1>3 DEF SerialsKept

LEMMA SwapKeepsSerials ==
  ASSUME SetInv, collectSwap
  PROVE  SerialsKept
<1>1. PICK a, b : mSparse' = SwappedSparse(a, b)
  BY DEF collectSwap
<1>2. mSparse \in [DOMAIN mSparse -> SparseSlotIndex]
  BY Domains
<1> QED
  BY <1>1, <1>2 DEF SwappedSparse, SerialsKept, SparseSlotIndex

LEMMA OthersKeepSerials ==
  ASSUME Careful, SetInv, [Next]_vars, ~clear, \A h \in Handle : ~free(h)
  PROVE  SerialsKept /\ DOMAIN live \subseteq DOMAIN live'
<1>1. ASSUME NEW n \in 0 .. MaxCapacity, reserve(n)
      PROVE  SerialsKept /\ DOMAIN live \subseteq DOMAIN live'
  <2>1. n >= capacity /\ mSparse' = ReservedSparse(n) /\ live' = live
    BY <1>1 DEF reserve, Careful, clients
  <2> QED
    BY <2>1, ReserveKeepsSerials DEF SerialsKept
<1>2. ASSUME NEW n \in 0 .. MaxCapacity, reserveThrows(n)
      PROVE  SerialsKept /\ DOMAIN live \subseteq DOMAIN live'
  <2>1. n >= capacity /\ mSparse' \in {mSparse, Resized(mSparse, NewSparse, n)} /\ live' = live
    BY <1>2 DEF reserveThrows, clients
  <2>2. DOMAIN mSparse \subseteq 0 .. n - 1
    BY <2>1, ReservedElements DEF SetInv
  <2> QED
    BY <2>1, <2>2 DEF SerialsKept, Resized
<1>3. ASSUME NEW v \in Values, alloc(v)
      PROVE  SerialsKept /\ DOMAIN live \subseteq DOMAIN live'
  BY <1>3, AllocKeepsSerials DEF alloc
<1>4. CASE constructorThrows
  BY <1>4, AllocKeepsSerials DEF constructorThrows
<1>5. ASSUME NEW h \in Handle, NEW v \in Values, setVal(h, v)
      PROVE  SerialsKept /\ DOMAIN live \subseteq DOMAIN live'
  BY <1>5 DEF setVal, SerialsKept
<1>6. CASE collectSwap
  BY <1>6, SwapKeepsSerials DEF collectSwap, clients
<1>7. CASE collectAll \/ collectStart \/ collectSkip \/ collectHole \/ collectTrim \/ collectEnd
           \/ UNCHANGED vars
  BY <1>7 DEF collectAll, collectStart, collectSkip, collectHole, collectTrim, collectEnd,
              vars, vectors, clients, SerialsKept
<1> QED
  BY <1>1, <1>2, <1>3, <1>4, <1>5, <1>6, <1>7 DEF Next, collectStep

(* A stale handle stays stale and is not valid: its slot's serial is       *)
(* greater.                                                                *)
LEMMA StaleStep ==
  ASSUME Careful, SetInv, [Next]_vars, ~clear, NEW h \in Handle, Stale(h) \/ Freed(h)
  PROVE  (Stale(h) /\ ~isValid(h))'
<1>1. mSparse \in [DOMAIN mSparse -> SparseSlotIndex]
  BY Domains
<1>2. /\ h.slot_serial \in Nat
      /\ \A s \in DOMAIN mSparse : mSparse[s].slot_serial \in Nat
  BY <1>1, ConstantsAssumption DEF Handle, SparseSlotIndex, Serial
<1>3. CASE \A g \in Handle : ~free(g)
  <2>1. SerialsKept /\ DOMAIN live \subseteq DOMAIN live'
    BY <1>3, OthersKeepSerials
  <2>2. Stale(h)
    BY <2>1 DEF Freed
  <2> QED
    BY <1>2, <2>1, <2>2 DEF Stale, SerialsKept, isValid
<1>4. ASSUME NEW g \in Handle, free(g)
      PROVE  (Stale(h) /\ ~isValid(h))'
  <2>1. PICK s, d : s = g.slot_index /\ d = mSparse[s].dense_slot_index
    OBVIOUS
  <2>2. FreeEffect(g, s, d)
    BY <1>4, <2>1, FreeFacts
  <2>3. /\ DOMAIN mSparse' = DOMAIN mSparse /\ s \in DOMAIN mSparse
        /\ mSparse'[s].slot_serial = mSparse[s].slot_serial + 1
        /\ mSparse[s].slot_serial = g.slot_serial
        /\ \A r \in DOMAIN mSparse : r # s => mSparse'[r] = mSparse[r]
        /\ DOMAIN live' = DOMAIN live \ {g}
    BY <2>2 DEF FreeEffect
  <2>4. CASE Stale(h)
    <3>1. h.slot_index \in DOMAIN mSparse /\ h.slot_serial < mSparse[h.slot_index].slot_serial
      BY <2>4 DEF Stale
    <3>2. mSparse'[h.slot_index].slot_serial \in Nat
          /\ h.slot_serial < mSparse'[h.slot_index].slot_serial
      BY <1>2, <2>3, <3>1
    <3> QED
      BY <1>2, <2>3, <3>1, <3>2 DEF Stale, isValid
  <2>5. CASE Freed(h)
    <3>1. h = g
      BY <2>3, <2>5 DEF Freed
    <3> QED
      BY <1>2, <2>1, <2>3, <3>1 DEF Stale, isValid
  <2> QED
    BY <2>4, <2>5
<1> QED
  BY <1>3, <1>4

-----------------------------------------------------------------------------
(* The set as a table: what the clients hold, but for handles that carry   *)
(* the mark of an unset one.                                               *)

Shown == [h \in {x \in DOMAIN live : isSet(x)} |-> live[h]]

LEMMA ValidIsShown == ASSUME SetInv PROVE Valid = Shown
<1>1. {x \in Handle \ lost : isValid(x)} = {x \in DOMAIN live : isSet(x)}
  BY KnownIsValid DEF SetInv, HandlesInv
<1>2. \A x \in {y \in DOMAIN live : isSet(y)} : get(x) = live[x]
  BY DEF SetInv, HandlesInv
<1> QED
  BY <1>1, <1>2 DEF Valid, Shown

(* What a step may do to it. *)
ShownStep ==
  \/ Shown' = Shown
  \/ \E k \in Handle, v \in Values :
       /\ k \notin DOMAIN Shown
       /\ Shown' = [x \in DOMAIN Shown \cup {k} |-> IF x = k THEN v ELSE Shown[x]]
  \/ \E k \in Handle, v \in Values :
       k \in DOMAIN Shown /\ Shown' = [Shown EXCEPT ![k] = v]
  \/ \E k \in Handle :
       k \in DOMAIN Shown /\ Shown' = [x \in DOMAIN Shown \ {k} |-> Shown[x]]
  \/ DOMAIN Shown' = {}

LEMMA ShownSteps ==
  ASSUME Careful, SetInv, [Next]_vars
  PROVE  ShownStep
<1>1. ASSUME NEW v \in Values, alloc(v)
      PROVE  \/ Shown' = Shown
             \/ \E k \in Handle :
                  /\ k \notin DOMAIN Shown
                  /\ Shown' = [x \in DOMAIN Shown \cup {k} |-> IF x = k THEN v ELSE Shown[x]]
  <2>1. PICK k : k = hndl
    OBVIOUS
  <2>2. /\ k \in Handle /\ k \notin DOMAIN live
        /\ live' = [h \in DOMAIN live \cup {k} |-> IF h = k THEN v ELSE live[h]]
    BY <1>1, <2>1, AllocStep DEF alloc
  <2>3. CASE isSet(k)
    BY <2>2, <2>3 DEF Shown, isSet
  <2>4. CASE ~isSet(k)
    BY <2>2, <2>4 DEF Shown, isSet
  <2> QED
    BY <2>2, <2>3, <2>4
<1>2. ASSUME NEW h \in Handle, NEW v \in Values, setVal(h, v)
      PROVE  h \in DOMAIN Shown /\ Shown' = [Shown EXCEPT ![h] = v]
  <2>1. h \in DOMAIN live /\ isSet(h)
        /\ live' = [x \in DOMAIN live |-> IF x = h THEN v ELSE live[x]]
    BY <1>2, SetValStep DEF setVal, isValid
  <2> QED
    BY <2>1 DEF Shown, isSet
<1>3. ASSUME NEW h \in Handle, free(h)
      PROVE  h \in DOMAIN Shown /\ Shown' = [x \in DOMAIN Shown \ {h} |-> Shown[x]]
  <2>1. h \in DOMAIN live /\ isSet(h) /\ live' = [x \in DOMAIN live \ {h} |-> live[x]]
    BY <1>3, FreeStep DEF free, isValid
  <2> QED
    BY <2>1 DEF Shown, isSet
<1>4. clear => DOMAIN Shown' = {}
  BY DEF clear, Shown
<1>5. ASSUME NEW n \in 0 .. MaxCapacity, reserve(n) \/ reserveThrows(n)
      PROVE  Shown' = Shown
  BY <1>5 DEF reserve, reserveThrows, clients, Shown, isSet
<1>6. ASSUME constructorThrows \/ collectAll \/ collectStart \/ collectStep \/ UNCHANGED vars
      PROVE  Shown' = Shown
  BY <1>6 DEF constructorThrows, collectAll, collectStart, collectStep, collectSkip, collectHole,
              collectTrim, collectSwap, collectEnd, vars, clients, Shown, isSet
<1>7. ASSUME NEW v \in Values, alloc(v)
      PROVE  ShownStep
  <2>1. CASE Shown' = Shown
    BY <2>1 DEF ShownStep
  <2>2. ASSUME NEW k \in Handle, k \notin DOMAIN Shown,
               Shown' = [x \in DOMAIN Shown \cup {k} |-> IF x = k THEN v ELSE Shown[x]]
        PROVE  ShownStep
    <3>1. \E g \in Handle, w \in Values :
            /\ g \notin DOMAIN Shown
            /\ Shown' = [x \in DOMAIN Shown \cup {g} |-> IF x = g THEN w ELSE Shown[x]]
      BY <2>2, Zenon
    <3> QED
      BY <3>1 DEF ShownStep
  <2> QED
    BY <1>1, <1>7, <2>1, <2>2
<1>8. ASSUME NEW h \in Handle, NEW v \in Values, setVal(h, v)
      PROVE  ShownStep
  <2>1. h \in DOMAIN Shown /\ Shown' = [Shown EXCEPT ![h] = v]
    BY <1>2, <1>8
  <2>2. \E k \in Handle, w \in Values : k \in DOMAIN Shown /\ Shown' = [Shown EXCEPT ![k] = w]
    BY <2>1, Zenon
  <2> QED
    BY <2>2 DEF ShownStep
<1>9. ASSUME NEW h \in Handle, free(h)
      PROVE  ShownStep
  <2>1. h \in DOMAIN Shown /\ Shown' = [x \in DOMAIN Shown \ {h} |-> Shown[x]]
    BY <1>3, <1>9
  <2>2. \E k \in Handle : k \in DOMAIN Shown /\ Shown' = [x \in DOMAIN Shown \ {k} |-> Shown[x]]
    BY <2>1, Zenon
  <2> QED
    BY <2>2 DEF ShownStep
<1>10. CASE clear
  BY <1>4, <1>10 DEF ShownStep
<1>11. (Shown' = Shown) => ShownStep
  BY DEF ShownStep
<1> QED
  BY <1>5, <1>6, <1>7, <1>8, <1>9, <1>10, <1>11 DEF Next

LEMMA SetStepsTable ==
  ASSUME Careful, SetInv, SetInv', [Next]_vars
  PROVE  [Table!Next]_Valid
<1>1. Valid = Shown /\ Valid' = Shown'
  <2>1. Valid' = Shown'
    <3>1. {x \in Handle \ lost' : isValid(x)'} = {x \in DOMAIN live' : isSet(x)}
      BY KnownIsValid DEF SetInv, HandlesInv, isValid, isSet, Known, KnownIn
    <3>2. \A x \in {y \in DOMAIN live' : isSet(y)} : get(x)' = live'[x]
      BY DEF SetInv, HandlesInv
    <3> QED
      BY <3>1, <3>2 DEF Valid, Shown, isSet
  <2> QED
    BY <2>1, ValidIsShown
<1>2. ASSUME NEW k \in Handle, NEW v \in Values, k \notin DOMAIN Shown,
             Shown' = [x \in DOMAIN Shown \cup {k} |-> IF x = k THEN v ELSE Shown[x]]
      PROVE  Table!Next
  BY <1>1, <1>2 DEF Table!Next, Table!Insert
<1>3. ASSUME NEW k \in Handle, NEW v \in Values, k \in DOMAIN Shown,
             Shown' = [Shown EXCEPT ![k] = v]
      PROVE  Table!Next
  BY <1>1, <1>3 DEF Table!Next, Table!Assign
<1>4. ASSUME NEW k \in Handle, k \in DOMAIN Shown, Shown' = [x \in DOMAIN Shown \ {k} |-> Shown[x]]
      PROVE  Table!Next
  BY <1>1, <1>4 DEF Table!Next, Table!Delete
<1>5. ASSUME DOMAIN Shown' = {}
      PROVE  Table!Next
  <2>1. Shown' = [x \in {} |-> CHOOSE v \in Values : TRUE]
    BY <1>5 DEF Shown
  <2> QED
    BY <1>1, <2>1 DEF Table!Next, Table!DeleteAll, Table!Empty
<1> QED
  BY <1>1, <1>2, <1>3, <1>4, <1>5, ShownSteps DEF ShownStep

LEMMA SetInitTable == Init => Table!Init
<1> SUFFICES ASSUME Init
             PROVE  Valid = Table!Empty
  BY DEF Table!Init
<1>1. \A h \in Handle : ~isValid(h)
  BY DEF Init, isValid
<1> QED
  BY <1>1 DEF Valid, Table!Empty

-----------------------------------------------------------------------------
(* The theorems. *)

(* No vector is ever shorter than mBack, or than one resized after it.     *)
THEOREM SetTypeCorrect ==
  ASSUME Careful
  PROVE  Spec => []TypeOK
<1>1. SetInv => TypeOK
  BY DEF SetInv
<1> QED
  BY <1>1, SetInvariant, PTL

(* Positions and slots stay paired, in the middle of collect and after a   *)
(* reserve that threw.                                                     *)
THEOREM IndexMapsStayInverse ==
  ASSUME Careful
  PROVE  Spec => []IndexMapsInverse
  BY InvIndexMaps, SetInvariant, PTL

(* mBack and mUncollected describe the dense array between operations.     *)
THEOREM DenseArrayCounted ==
  ASSUME Careful
  PROVE  Spec => []DenseCounted
  BY InvDenseCounted, SetInvariant, PTL

(* A client's handle leads to what the client stored, through growth and   *)
(* collection.                                                             *)
THEOREM LiveHandlesCorrect ==
  ASSUME Careful
  PROVE  Spec => []LiveHandlesResolve
  BY InvLiveHandles, SetInvariant, PTL

(* size() counts the objects in use, and those nobody can free.            *)
THEOREM SizeCorrect ==
  ASSUME Careful
  PROVE  Spec => []SizeCountsLive
  BY InvSizeCounts, SetInvariant, PTL

(* No operation indexes a vector past its end.                             *)
THEOREM AccessesCorrect ==
  ASSUME Careful
  PROVE  Spec => []AccessesInRange
  BY InvAccesses, SetInvariant, PTL

(* A freed handle is never valid again before the set is cleared.          *)
THEOREM FreedHandlesStayStale ==
  ASSUME Careful
  PROVE  Spec => StaleForever
<1>1. SetInv /\ [Next]_vars =>
        [clear \/ \A h \in Handle : Stale(h) \/ Freed(h) => (Stale(h) /\ ~isValid(h))']_vars
  BY StaleStep
<1> QED
  BY <1>1, SetInvariant, PTL DEF Spec, StaleForever

(* Every behaviour of the set, read through its valid handles, is one of   *)
(* HandleTable.                                                            *)
THEOREM SetImplementsTable ==
  ASSUME Careful
  PROVE  Spec => ImplementsTable
<1>1. Init => Table!Init
  BY SetInitTable
<1>2. SetInv /\ SetInv' /\ [Next]_vars => [Table!Next]_Valid
  BY SetStepsTable
<1> QED
  BY <1>1, <1>2, SetInvariant, PTL DEF Spec, ImplementsTable, Table!Spec

-----------------------------------------------------------------------------
(* A handle converted to uint64_t and back, which SparseSet-test.cpp:65-71 *)
(* does and requires its serial afterwards, is what it was in some build   *)
(* if and only if its serial is 0: in no build does another one survive.   *)
THEOREM ConversionLosesSerials ==
  ASSUME NEW h \in Handle
  PROVE  (\E w \in Serialized(h) : Deserialized(w) = h) <=> h.slot_serial = 0
<1>1. /\ MaxCapacity \in Nat /\ IndexMod \in Nat /\ IndexMod >= MaxCapacity
      /\ SerialMod \in Nat \ {0}
  BY ConstantsAssumption
<1>2. PICK index \in Slot, serial \in Serial :
        h = [slot_index |-> index, slot_serial |-> serial]
  BY DEF Handle
<1>3. index \in 0 .. IndexMod - 1 /\ IndexMod \in Nat \ {0}
  BY <1>1, <1>2 DEF Slot
<1>4. ASSUME NEW w \in 0 .. IndexMod - 1
      PROVE  Deserialized(w) = [slot_index |-> w, slot_serial |-> 0]
  <2>1. w % IndexMod = w /\ w \div IndexMod = 0
    BY <1>3
  <2>2. 0 % SerialMod = 0
    BY <1>1
  <2> QED
    BY <2>1, <2>2 DEF Deserialized
<1>5. CASE serial = 0
  <2>1. index \in Serialized(h) /\ Deserialized(index) = h
    BY <1>2, <1>3, <1>4, <1>5 DEF Serialized
  <2> QED
    BY <1>2, <1>5, <2>1
<1>6. CASE serial # 0
  <2>1. \A w \in Serialized(h) : Deserialized(w).slot_serial = 0
    BY <1>4 DEF Serialized
  <2> QED
    BY <1>2, <1>6, <2>1
<1> QED
  BY <1>5, <1>6
=============================================================================
