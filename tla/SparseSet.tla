----------------------------- MODULE SparseSet -----------------------------
(***************************************************************************)
(* SparseSet<T>: objects packed in mData, mDense beside them, and mSparse, *)
(* which a handle indexes.  mSparse[s] points to the position of the       *)
(* object in mData, and mDense at that position points back to s.  free    *)
(* only marks an object dead; collect later moves the last live objects    *)
(* into the holes.                                                         *)
(*                                                                         *)
(* The vectors are modelled as functions on 0 .. size() - 1; they have the *)
(* same size() unless a reserve has thrown.  An operation is an action;    *)
(* collect is a run of steps that nothing interrupts, one per turn of its  *)
(* two loops, so that what holds in the middle of it can be stated.        *)
(*                                                                         *)
(* collect, reserve and clear keep what they promise only when they are    *)
(* called in certain states, and reserve only if it does not shrink the    *)
(* set.  Habits lists the ones the clients call in any state ("shrink": a  *)
(* reserve of less than the capacity); the others they call in those       *)
(* states only.  After a reserve that threw, clients let one succeed       *)
(* before they use the room it was to make.                                *)
(***************************************************************************)
EXTENDS Integers, FiniteSets

CONSTANTS
  Values,        (* what clients store                                     *)
  NoValue,       (* the content of a slot no client has constructed, or    *)
                 (* whose object free has destroyed                        *)
  SerialMod,     (* 2^16, the width of slot_serial                         *)
  IndexMod,      (* 2^32, the width of slot_index and of an unsigned int   *)
  Growth,        (* 1024: how much alloc grows a full set                  *)
  Habits,        (* of "collect", "reserve", "shrink" and "clear", above   *)
  MaxCapacity,   (* bound: the largest capacity followed                   *)
  MaxLost        (* bound: how many objects have a constructor that throws *)

ASSUME ConstantsAssumption ==
  /\ SerialMod \in Nat /\ SerialMod >= 2
  /\ Growth \in Nat /\ Growth >= 1
  /\ MaxCapacity \in Nat /\ IndexMod \in Nat /\ IndexMod >= MaxCapacity
  /\ MaxLost \in Nat
  /\ Habits \subseteq {"collect", "reserve", "shrink", "clear"}
  /\ NoValue \notin Values

VARIABLES
  capacity,      (* capacity(): the size() of mData                        *)
  mBack,         (* objects are alive or dead below, unused from here on   *)
  mUncollected,  (* how many of them were freed since the last collect     *)
  mSparse, mDense, mData,
  pc, i,         (* collect: the loop it is in, and its index              *)
  live,          (* history: what the clients hold, a function from the    *)
                 (* handles alloc returned and they have not freed to the  *)
                 (* values they stored                                     *)
  lost           (* history: the handles of the objects whose constructor  *)
                 (* threw, which no client has                             *)

vectors == <<capacity, mSparse, mDense, mData>>
clients == <<live, lost>>
vars == <<vectors, mBack, mUncollected, pc, i, clients>>

-----------------------------------------------------------------------------
Slot   == 0 .. MaxCapacity - 1
Serial == 0 .. SerialMod - 1

(* A handle; pool_id is always 0 ("TODO pool ids") and is left out.        *)
Handle == [slot_index : Slot, slot_serial : Serial]

SparseSlotIndex == [alive : BOOLEAN, slot_serial : Serial, dense_slot_index : Slot]
DenseSlotIndex  == [alive : BOOLEAN, sparse_slot_index : Slot]

(* operator uint64_t.  The bit-fields promote to int and unsigned int      *)
(* before they are shifted, so the result is an unsigned int whatever is   *)
(* in it: shifts by its width or more are undefined, and builds differ,    *)
(* unless there is nothing to shift.                                       *)
Serialized(h) ==
  { w \in 0 .. IndexMod - 1 : h.slot_serial = 0 => w = h.slot_index }

(* Handle(uint64_t).                                                       *)
Deserialized(w) ==
  [slot_index |-> w % IndexMod, slot_serial |-> (w \div IndexMod) % SerialMod]

Positions == 0 .. capacity - 1

(* An element resize adds is zero. *)
NewSparse == [alive |-> FALSE, slot_serial |-> 0, dense_slot_index |-> 0]
NewDense  == [alive |-> FALSE, sparse_slot_index |-> 0]

Init ==
  /\ capacity = 0
  /\ mBack = 0
  /\ mUncollected = 0
  /\ mSparse = [s \in {} |-> NewSparse]
  /\ mDense = [d \in {} |-> NewDense]
  /\ mData = [d \in {} |-> NoValue]
  /\ pc = "idle"
  /\ i = 0
  /\ live = [h \in {} |-> NoValue]
  /\ lost = {}

-----------------------------------------------------------------------------
(* Queries. *)

(* The largest serial is the mark of a handle that is not set.             *)
isSet(h) == h.slot_serial # SerialMod - 1

(* isValid reads mSparse at the handle's index, unchecked: what it does    *)
(* past the end of the vector is not modelled (see AccessesInRange).       *)
isValid(h) ==
  /\ isSet(h)
  /\ h.slot_index \in DOMAIN mSparse
  /\ mSparse[h.slot_index].alive
  /\ mSparse[h.slot_index].slot_serial = h.slot_serial

(* What get points to; isValid(h). *)
get(h) == mData[mSparse[h.slot_index].dense_slot_index]

(* size() is this difference in size_t: a negative one is a huge size.     *)
size == mBack - mUncollected

Idle == pc = "idle"

-----------------------------------------------------------------------------
(* Allocation. *)

Resized(vector, new, n) ==
  [k \in 0 .. n - 1 |-> IF k \in DOMAIN vector THEN vector[k] ELSE new]

(* reserve(n): the vectors are resized, and the slots from mBack on are    *)
(* paired with the positions of the same number.                           *)
ReservedSparse(n) ==
  LET old == Resized(mSparse, NewSparse, n)
  IN  [s \in 0 .. n - 1 |->
         IF s >= mBack THEN [old[s] EXCEPT !.dense_slot_index = s] ELSE old[s]]

(* Definitions named Bug... are what the one they precede could have been  *)
(* by mistake: the properties are tested against them.                     *)
(* Pairs position d with slot d + 1, or all positions anew. *)
BugReservedDenseShifted(n) ==
  [d \in 0 .. n - 1 |-> IF d < mBack THEN mDense[d] ELSE
                         [alive |-> FALSE, sparse_slot_index |-> d + 1]]
BugReservedDenseFromZero(n) ==
  [d \in 0 .. n - 1 |-> [alive |-> d \in DOMAIN mDense /\ mDense[d].alive, sparse_slot_index |-> d]]

ReservedDense(n) ==
  LET old == Resized(mDense, NewDense, n)
  IN  [d \in 0 .. n - 1 |->
         IF d >= mBack THEN [old[d] EXCEPT !.sparse_slot_index = d] ELSE old[d]]

BugDataNotResized(n) == mData

ReservedData(n) == Resized(mData, NoValue, n)

(* reserve pairs the unused slots and positions anew.  That is harmless if *)
(* no slot in use is among them.                                           *)
ReserveSafe ==
  \A d \in DOMAIN mDense : d >= mBack => mDense[d].sparse_slot_index >= mBack

reserve(n) ==
  /\ Idle
  /\ "reserve" \in Habits \/ ReserveSafe
  /\ "shrink" \in Habits \/ n >= capacity
  /\ capacity' = n
  /\ mSparse' = ReservedSparse(n)
  /\ mDense' = ReservedDense(n)
  /\ mData' = ReservedData(n)
  /\ UNCHANGED <<mBack, mUncollected, pc, i, clients>>

(* reserve, by a client or in alloc, is refused memory for mSparse or      *)
(* mDense (std::bad_alloc): what was resized before stays so.              *)
reserveThrows(n) ==
  /\ Idle
  /\ "reserve" \in Habits \/ ReserveSafe
  /\ n >= capacity
  /\ capacity' = n
  /\ mData' = ReservedData(n)
  /\ mSparse' \in {mSparse, Resized(mSparse, NewSparse, n)}
  /\ UNCHANGED <<mDense, mBack, mUncollected, pc, i, clients>>

(* alloc, which first reserves more room if the set is full, and takes the *)
(* slot the next position is paired with.  When it constructs the object   *)
(* all else is done, should the constructor throw.                         *)
full == mBack >= capacity
room == IF full THEN capacity + Growth ELSE capacity
roomSparse == IF full THEN ReservedSparse(room) ELSE mSparse
roomDense == IF full THEN ReservedDense(room) ELSE mDense
available == roomDense[mBack].sparse_slot_index
hndl == [slot_index |-> available, slot_serial |-> roomSparse[available].slot_serial]

allocSlot(content) ==
  /\ Idle
  /\ room <= MaxCapacity
  /\ mBack \in DOMAIN roomDense
  /\ capacity' = room
  /\ mDense' = [roomDense EXCEPT ![mBack].alive = TRUE]
  /\ mSparse' = [roomSparse EXCEPT ![available].alive = TRUE]
  /\ mData' = [ReservedData(room) EXCEPT ![mBack] = content]
  /\ mBack' = mBack + 1
  /\ UNCHANGED <<mUncollected, pc, i>>

alloc(v) ==
  /\ allocSlot(v)
  /\ live' = [h \in DOMAIN live \cup {hndl} |-> IF h = hndl THEN v ELSE live[h]]
  /\ UNCHANGED lost

constructorThrows ==
  /\ Cardinality(lost) < MaxLost
  /\ allocSlot(NoValue)
  /\ lost' = lost \cup {hndl}
  /\ UNCHANGED live

(* A client writes through the pointer get returned. *)
setVal(h, v) ==
  /\ Idle
  /\ isValid(h) /\ h \notin lost
  /\ mData' = [mData EXCEPT ![mSparse[h.slot_index].dense_slot_index] = v]
  /\ live' = [x \in DOMAIN live |-> IF x = h THEN v ELSE live[x]]
  /\ UNCHANGED <<capacity, mSparse, mDense, mBack, mUncollected, pc, i, lost>>

BugSerialKept(e) == [e EXCEPT !.alive = FALSE]

(* A slot is dead, and the handles to it are invalid.                      *)
SlotFreed(e) == [e EXCEPT !.alive = FALSE, !.slot_serial = (@ + 1) % SerialMod]

BugUncounted == mUncollected

OneMoreDead == mUncollected + 1

(* free returns false, changing nothing, for a handle that is not valid.   *)
free(h) ==
  LET d == mSparse[h.slot_index].dense_slot_index
  IN  /\ Idle
      /\ isValid(h) /\ h \notin lost /\ mBack >= 1
      /\ mSparse' = [mSparse EXCEPT ![h.slot_index] = SlotFreed(@)]
      /\ mDense' = [mDense EXCEPT ![d].alive = FALSE]
      /\ mData' = [mData EXCEPT ![d] = NoValue]
      /\ mUncollected' = OneMoreDead
      /\ live' = [x \in DOMAIN live \ {h} |-> live[x]]
      /\ UNCHANGED <<capacity, mBack, pc, i, lost>>

(* The clients drop their handles when they clear a set. *)
clear ==
  /\ Idle
  /\ "clear" \in Habits \/ mUncollected = 0
  /\ capacity' = 0
  /\ mSparse' = [s \in {} |-> NewSparse]
  /\ mDense' = [d \in {} |-> NewDense]
  /\ mData' = [d \in {} |-> NoValue]
  /\ mBack' = 0
  /\ live' = [h \in {} |-> NoValue]
  /\ lost' = {}
  /\ UNCHANGED <<mUncollected, pc, i>>

-----------------------------------------------------------------------------
(* Collection. *)

(* The loop of collect assumes that a dead object always has a live one    *)
(* somewhere after it.  It does until the live ones fit below `size` if    *)
(* and only if the object at `size` is a live one.                         *)
CollectSafe == mDense[size].alive

(* collect of a set of dead objects that leaves mBack. *)
BugCollectAllKeepsBack ==
  /\ Idle
  /\ mUncollected # 0
  /\ mUncollected = mBack
  /\ mUncollected' = 0
  /\ UNCHANGED <<vectors, mBack, pc, i, clients>>

(* Everything below mBack is dead. *)
collectAll ==
  /\ Idle
  /\ mUncollected # 0
  /\ mUncollected = mBack
  /\ mUncollected' = 0
  /\ mBack' = 0
  /\ UNCHANGED <<vectors, pc, i, clients>>

collectStart ==
  /\ Idle
  /\ mUncollected # 0
  /\ mUncollected # mBack
  /\ "collect" \in Habits \/ CollectSafe
  /\ pc' = "scan"
  /\ i' = 0
  /\ UNCHANGED <<vectors, mBack, mUncollected, clients>>

(* for: skip a live object. *)
collectSkip ==
  /\ pc = "scan"
  /\ i < mBack
  /\ mDense[i].alive
  /\ i' = i + 1
  /\ UNCHANGED <<vectors, mBack, mUncollected, pc, clients>>

(* for: a dead object, to be swapped. *)
collectHole ==
  /\ pc = "scan"
  /\ i < mBack
  /\ ~mDense[i].alive
  /\ pc' = "trim"
  /\ UNCHANGED <<vectors, mBack, mUncollected, i, clients>>

(* while without --mBack. *)
BugTrimStays ==
  /\ pc = "trim"
  /\ ~mDense[mBack - 1].alive
  /\ UNCHANGED vars

(* while: "need a live one to swap with". *)
collectTrim ==
  /\ pc = "trim"
  /\ ~mDense[mBack - 1].alive
  /\ mBack' = mBack - 1
  /\ UNCHANGED <<vectors, mUncollected, pc, i, clients>>

BugDataKept(a, b) == mData
BugSparseKept(a, b) == mSparse

SwappedData(a, b) == [mData EXCEPT ![a] = mData[b], ![b] = mData[a]]

(* "just swap sparse indices, not slot serial".                            *)
SwappedSparse(a, b) ==
  [mSparse EXCEPT ![a].dense_slot_index = mSparse[b].dense_slot_index,
                  ![b].dense_slot_index = mSparse[a].dense_slot_index]

(* Swap the dead object i with the last one.                               *)
collectSwap ==
  LET last == mBack - 1
      cur_sparse == mDense[i].sparse_slot_index
      other_sparse == mDense[last].sparse_slot_index
  IN  /\ pc = "trim"
      /\ mDense[last].alive
      /\ mData' = SwappedData(mSparse[cur_sparse].dense_slot_index, last)
      /\ mDense' = [mDense EXCEPT ![i] = mDense[last], ![last] = mDense[i]]
      /\ mSparse' = SwappedSparse(cur_sparse, other_sparse)
      /\ mBack' = last
      /\ i' = i + 1
      /\ pc' = "scan"
      /\ UNCHANGED <<capacity, mUncollected, clients>>

collectEnd ==
  /\ pc = "scan"
  /\ i >= mBack
  /\ mUncollected' = 0
  /\ pc' = "idle"
  /\ i' = 0
  /\ UNCHANGED <<vectors, mBack, clients>>

collectStep == collectSkip \/ collectHole \/ collectTrim \/ collectSwap \/ collectEnd

Next ==
  \/ \E n \in 0 .. MaxCapacity : reserve(n) \/ reserveThrows(n)
  \/ \E v \in Values : alloc(v)
  \/ constructorThrows
  \/ \E h \in Handle, v \in Values : setVal(h, v)
  \/ \E h \in Handle : free(h)
  \/ clear
  \/ collectAll
  \/ collectStart
  \/ collectStep

Spec == Init /\ [][Next]_vars

(* The loops of collect run to their end. *)
FairSpec == Spec /\ WF_vars(collectStep)

-----------------------------------------------------------------------------
(* Properties. *)

(* No vector is shorter than mBack, or than one that is resized after it.  *)
TypeOK ==
  /\ capacity \in 0 .. MaxCapacity
  /\ mBack \in 0 .. MaxCapacity
  /\ mUncollected \in Nat
  /\ \E sparses \in mBack .. capacity, denses \in mBack .. capacity :
       /\ denses <= sparses
       /\ mSparse \in [0 .. sparses - 1 -> SparseSlotIndex]
       /\ mDense \in [0 .. denses - 1 -> DenseSlotIndex]
  /\ mData \in [Positions -> Values \cup {NoValue}]
  /\ pc \in {"idle", "scan", "trim"}
  /\ i \in 0 .. MaxCapacity

(* The two index maps are inverse, and both say the same objects are       *)
(* alive: in the middle of collect, and after a reserve that threw.        *)
IndexMapsInverse ==
  \A d \in DOMAIN mDense :
    LET s == mDense[d].sparse_slot_index
    IN  /\ s \in DOMAIN mDense
        /\ mSparse[s].dense_slot_index = d
        /\ mSparse[s].alive <=> mDense[d].alive

(* Between operations the counters describe the dense array: nothing from  *)
(* mBack on is alive, and below it mUncollected objects are dead.  So once *)
(* collect has run, begin() .. end() are the live objects and no others.   *)
DenseCounted ==
  Idle => /\ \A d \in DOMAIN mDense : mDense[d].alive => d < mBack
          /\ Cardinality({d \in DOMAIN mDense : mDense[d].alive}) = mBack - mUncollected

(* A handle the clients hold leads to the value they stored under it,      *)
(* wherever collect has moved it; only a handle with the serial that marks *)
(* an unset one is not accepted back.                                      *)
LiveHandlesResolve ==
  \A h \in DOMAIN live : isSet(h) => isValid(h) /\ get(h) = live[h]

(* size() is the number of objects the clients have not freed, and of      *)
(* those whose constructor threw: nobody can ever free these.              *)
SizeCountsLive == Idle => size = Cardinality(DOMAIN live) + Cardinality(lost)

(* No operation the clients can call next, nor collect's next step, reads  *)
(* outside a vector.                                                       *)
AccessesInRange ==
  /\ mBack <= Cardinality(DOMAIN mDense)
  /\ \A h \in DOMAIN live : h.slot_index \in DOMAIN mSparse
  /\ \A d \in DOMAIN mDense : mDense[d].sparse_slot_index \in DOMAIN mSparse
  /\ \A s \in DOMAIN mSparse : mSparse[s].dense_slot_index \in Positions
  /\ pc = "trim" => mBack > i

(* A handle that was freed never becomes valid again, until the set is     *)
(* cleared: serials only grow, and the slot that reaches the last one is   *)
(* never freed, so no serial wraps.                                        *)
Stale(h) == h.slot_index \in DOMAIN mSparse /\ h.slot_serial < mSparse[h.slot_index].slot_serial
Freed(h) == h \in DOMAIN live /\ h \notin DOMAIN live'
StaleForever ==
  [][clear \/ \A h \in Handle : Stale(h) \/ Freed(h) => (Stale(h) /\ ~isValid(h))']_vars

(* Read through its valid handles, the set is a HandleTable; collect,      *)
(* reserve and calls that throw are invisible.                             *)
Valid == [h \in {x \in Handle \ lost : isValid(x)} |-> get(h)]
Table == INSTANCE HandleTable WITH Key <- Handle, Value <- Values, live <- Valid
ImplementsTable == Table!Spec

(* "REQUIRE(h2.isSet())" for a handle alloc just returned                  *)
(* (SparseSet-test.cpp:34).                                                *)
AllocatedHandlesAreSet == \A h \in DOMAIN live : isSet(h)

(* collect returns. *)
CollectTerminates == ~Idle ~> Idle
=============================================================================
