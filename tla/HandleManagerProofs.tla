------------------------ MODULE HandleManagerProofs ------------------------
(***************************************************************************)
(* What HandleManager guarantees for every number of entries, every        *)
(* counter width and every bound on the uses of an entry.                  *)
(***************************************************************************)
EXTENDS HandleManager, Facts, FiniteSetTheorems, TLAPS

-----------------------------------------------------------------------------
(* Counters. *)

(* A counter is never 0 after an increment, and wraps from its largest     *)
(* value to 1.                                                             *)
LEMMA NextCounterValue ==
  ASSUME NEW c \in Counter
  PROVE  /\ NextCounter(c) \in Counter \ {0}
         /\ NextCounter(c) = IF c = CounterMod - 1 THEN 1 ELSE c + 1
<1> USE ConstantsAssumption DEF Counter
<1>1. CASE c = CounterMod - 1
  <2>1. (c + 1) % CounterMod = 0
    BY <1>1
  <2> QED
    BY <1>1, <2>1 DEF NextCounter
<1>2. CASE c # CounterMod - 1
  <2>1. (c + 1) % CounterMod = c + 1
    BY <1>2
  <2> QED
    BY <1>2, <2>1 DEF NextCounter
<1> QED
  BY <1>1, <1>2

-----------------------------------------------------------------------------
(* Every field keeps the range of its bit-field, under any handlers.       *)

LEMMA ResetTypes == ResetEntries \in [Index -> HandleEntry] /\ ResetFreeList \in Seq(Index)
<1> USE ConstantsAssumption
<1>1. ResetEntries \in [Index -> HandleEntry]
  <2> SUFFICES ASSUME NEW i \in Index
               PROVE  ResetEntries[i] \in HandleEntry
    BY DEF ResetEntries
  <2> QED
    BY DEF ResetEntries, Index, Counter, HandleEntry, FreshEntry
<1>2. ResetFreeList \in Seq(Index)
  BY DEF ResetFreeList, Index
<1> QED
  BY <1>1, <1>2

LEMMA TypeInit == Init => TypeOK
<1> SUFFICES ASSUME Init
             PROVE  TypeOK
  OBVIOUS
<1>1. issued \in [Index -> Seq(Counter \ {0})]
  BY DEF Init
<1>2. m_firstFreeEntry \in Index
  BY ConstantsAssumption DEF Init, Index
<1> QED
  BY <1>1, <1>2, ResetTypes, ConstantsAssumption DEF Init, TypeOK

LEMMA TypeNext == TypeOK /\ [Next]_vars => TypeOK'
<1> SUFFICES ASSUME TypeOK, [Next]_vars
             PROVE  TypeOK'
  OBVIOUS
<1> USE ConstantsAssumption
<1>1. CASE Reset
  BY <1>1, ResetTypes DEF Reset, TypeOK, Index
<1>2. ASSUME NEW h \in Handlers, SetHandler(h)
      PROVE  TypeOK'
  BY <1>2 DEF SetHandler, TypeOK, managerVars, history
<1>3. ASSUME NEW p \in Pointers, NEW t \in Types, Add(p, t)
      PROVE  TypeOK'
  <2> DEFINE e == m_entries[m_firstFreeEntry]
             c == NextCounter(e.m_counter)
  <2>1. m_firstFreeEntry \in Index /\ e \in HandleEntry
    BY DEF TypeOK
  <2>2. c \in Counter \ {0}
    BY <2>1, NextCounterValue DEF HandleEntry
  <2>3. m_entries' \in [Index -> HandleEntry]
    <3> DEFINE new == [m_nextFreeIndex |-> 0, m_counter |-> c, m_active |-> TRUE,
                       m_endOfList |-> e.m_endOfList, m_entry |-> p]
    <3>1. new \in HandleEntry
      BY <2>1, <2>2 DEF HandleEntry, Index
    <3>2. m_entries' = [m_entries EXCEPT ![m_firstFreeEntry] = new]
      BY <1>3 DEF Add
    <3> QED
      BY <2>1, <3>1, <3>2 DEF TypeOK
  <2>4. m_firstFreeEntry' \in Index
    BY <1>3, <2>1 DEF Add, HandleEntry
  <2>5. freeList' \in Seq(Index)
    BY <1>3, TailShifts DEF Add, TypeOK
  <2>6. issued' \in [Index -> Seq(Counter \ {0})]
    BY <1>3, <2>1, <2>2 DEF Add, TypeOK
  <2> QED
    BY <1>3, <2>3, <2>4, <2>5, <2>6 DEF Add, TypeOK
<1>4. ASSUME NEW ok \in BOOLEAN, Asserts(ok)
      PROVE  TypeOK'
  BY <1>4 DEF Asserts, TypeOK, managerVars, history
<1>5. ASSUME NEW h \in Handle, NEW p \in Pointers, Update(h, p)
      PROVE  TypeOK'
  <2>1. m_entries' \in [Index -> HandleEntry]
    BY <1>5 DEF Update, TypeOK, Handle, HandleEntry
  <2> QED
    BY <1>5, <2>1 DEF Update, TypeOK, history
<1>6. ASSUME NEW h \in Handle, Remove(h)
      PROVE  TypeOK'
  <2>1. m_entries' \in [Index -> HandleEntry]
    BY <1>6 DEF Remove, TypeOK, Handle, HandleEntry
  <2>2. freeList' \in Seq(Index)
    BY <1>6, ConsShifts DEF Remove, TypeOK, Handle
  <2> QED
    BY <1>6, <2>1, <2>2 DEF Remove, TypeOK, Handle
<1>7. CASE UNCHANGED vars
  BY <1>7 DEF vars, managerVars, history, TypeOK
<1> QED
  BY <1>1, <1>2, <1>3, <1>4, <1>5, <1>6, <1>7 DEF Next, AddOk, Resolves

(* Indices stay below MaxEntries and counters in their width; no issued    *)
(* counter is 0.                                                           *)
THEOREM TypeCorrect == Spec => []TypeOK
  BY TypeInit, TypeNext, PTL DEF Spec

-----------------------------------------------------------------------------
(* Stale handles, under any handlers.                                      *)
(*                                                                         *)
(* StaleHandleRejected is not inductive: it speaks of the last counter     *)
(* only.  IssuedInv adds that an entry's counter is the last one issued    *)
(* for it, and that counters fewer than a period apart differ by their     *)
(* distance, less a period if the counter wrapped between them.            *)

Period == CounterMod - 1

Spaced(s) ==
  \A v \in 1 .. Len(s) : \A u \in 1 .. v :
    v - u < Period => s[v] - s[u] \in {v - u, v - u - Period}

IssuedInv ==
  \A i \in Index :
    /\ m_entries[i].m_counter = LastIssued(i)
    /\ Spaced(issued[i])

(* Issuing the next counter keeps the counters of an entry spaced.         *)
LEMMA AppendSpaced ==
  ASSUME NEW s \in Seq(Counter \ {0}), Spaced(s),
         NEW c \in Counter \ {0}, s # <<>> => c = s[Len(s)],
         NEW n, n = NextCounter(c)
  PROVE  Spaced(Append(s, n))
<1> DEFINE t == Append(s, n)
           L == Len(s)
<1> USE ConstantsAssumption
<1>1. /\ n \in Counter \ {0}
      /\ n = IF c = CounterMod - 1 THEN 1 ELSE c + 1
  BY NextCounterValue
<1>2. L \in Nat /\ Len(t) = L + 1 /\ t[L + 1] = n /\ \A k \in 1 .. L : t[k] = s[k]
  BY <1>1
<1>3. \A k \in 1 .. L : s[k] \in 1 .. Period
  BY DEF Counter, Period
<1> SUFFICES ASSUME NEW v \in 1 .. L + 1, NEW u \in 1 .. v, v - u < Period
             PROVE  t[v] - t[u] \in {v - u, v - u - Period}
  BY <1>2 DEF Spaced
<1>4. CASE v <= L
  BY <1>2, <1>4 DEF Spaced
<1>5. CASE v = L + 1 /\ u = v
  BY <1>1, <1>2, <1>5 DEF Counter
<1>6. CASE v = L + 1 /\ u # v
  <2>1. u \in 1 .. L /\ L >= 1 /\ L - u < Period /\ s # <<>>
    <3> HIDE DEF t
    <3>1. L \in Nat /\ u \in 1 .. L /\ L >= 1
      BY <1>2, <1>6
    <3>2. L - u < Period
      <4> HIDE DEF L
      <4> QED
        BY <3>1, <1>6 DEF Period
    <3> QED
      BY <3>1, <3>2
  <2>2. c - s[u] \in {L - u, L - u - Period}
    BY <2>1, <1>2 DEF Spaced
  <2>3. s[u] \in 1 .. Period /\ n \in 1 .. Period /\ c \in 1 .. Period
    BY <2>1, <1>1, <1>3 DEF Counter, Period
  <2>4. t[v] = n /\ t[u] = s[u]
    BY <2>1, <1>2, <1>6
  <2>5. Period \in Nat /\ Period >= 2 /\ n = IF c = Period THEN 1 ELSE c + 1
    BY <1>1 DEF Period
  <2> HIDE DEF t, L
  <2> QED
    BY <1>2, <1>6, <2>1, <2>2, <2>3, <2>4, <2>5
<1> QED
  BY <1>2, <1>4, <1>5, <1>6

LEMMA IssuedInit == Init => IssuedInv
<1> SUFFICES ASSUME Init, NEW i \in Index
             PROVE  m_entries[i].m_counter = LastIssued(i) /\ Spaced(issued[i])
  BY DEF IssuedInv
<1> QED
  BY DEF Init, ResetEntries, FreshEntry, LastIssued, Spaced

LEMMA IssuedNext == TypeOK /\ IssuedInv /\ [Next]_vars => IssuedInv'
<1> SUFFICES ASSUME TypeOK, IssuedInv, [Next]_vars, NEW i \in Index
             PROVE  (m_entries[i].m_counter = LastIssued(i) /\ Spaced(issued[i]))'
  BY DEF IssuedInv
<1>1. m_entries[i].m_counter = LastIssued(i) /\ Spaced(issued[i])
  BY DEF IssuedInv
<1>2. CASE Reset
  BY <1>2 DEF Reset, ResetEntries, FreshEntry, LastIssued, Spaced
<1>3. ASSUME NEW p \in Pointers, NEW t \in Types, Add(p, t)
      PROVE  (m_entries[i].m_counter = LastIssued(i) /\ Spaced(issued[i]))'
  <2>1. CASE i # m_firstFreeEntry
    BY <1>1, <1>3, <2>1 DEF Add, LastIssued, TypeOK
  <2>2. CASE i = m_firstFreeEntry
    <3> DEFINE c == m_entries[i].m_counter
               n == NextCounter(c)
    <3>1. issued'[i] = Append(issued[i], n) /\ m_entries'[i].m_counter = n
      BY <1>3, <2>2 DEF Add, TypeOK
    <3>2. issued[i] \in Seq(Counter \ {0}) /\ c \in Counter
      BY DEF TypeOK, HandleEntry
    <3>3. c \in Counter \ {0} /\ (issued[i] # <<>> => c = issued[i][Len(issued[i])])
      BY <1>1, <3>2, ConstantsAssumption DEF LastIssued, Counter
    <3>4. Spaced(Append(issued[i], n))
      BY <1>1, <3>2, <3>3, AppendSpaced
    <3>5. n \in Counter \ {0}
      BY <3>2, NextCounterValue
    <3>6. LastIssued(i)' = n
      BY <3>1, <3>2, <3>5 DEF LastIssued
    <3> QED
      BY <3>1, <3>4, <3>6 DEF Spaced
  <2> QED
    BY <2>1, <2>2
<1>4. ASSUME NEW h \in Handle,
             Remove(h) \/ \E p \in Pointers : Update(h, p)
      PROVE  (m_entries[i].m_counter = LastIssued(i) /\ Spaced(issued[i]))'
  <2>1. m_entries'[i].m_counter = m_entries[i].m_counter /\ issued' = issued
    <3>1. h.m_index \in Index /\ m_entries \in [Index -> HandleEntry]
      BY DEF Handle, TypeOK
    <3>2. CASE Remove(h)
      BY <3>1, <3>2 DEF Remove
    <3>3. ASSUME NEW p \in Pointers, Update(h, p)
          PROVE  m_entries'[i].m_counter = m_entries[i].m_counter /\ issued' = issued
      BY <3>1, <3>3 DEF Update, history
    <3> QED
      BY <1>4, <3>2, <3>3
  <2> QED
    BY <1>1, <2>1 DEF LastIssued, Spaced
<1>5. CASE UNCHANGED <<managerVars, history>>
  BY <1>1, <1>5 DEF managerVars, history, LastIssued, Spaced
<1> QED
  BY <1>2, <1>3, <1>4, <1>5 DEF Next, vars, Asserts, SetHandler

LEMMA IssuedImpliesStaleRejected == TypeOK /\ IssuedInv => StaleHandleRejected
<1> SUFFICES ASSUME TypeOK, IssuedInv, NEW i \in Index, NEW u \in 1 .. Len(issued[i]),
                    Resolves([m_index |-> i, m_counter |-> issued[i][u]]),
                    u # Len(issued[i]), Len(issued[i]) - u < CounterMod - 1
             PROVE  FALSE
  BY ConstantsAssumption DEF StaleHandleRejected, TypeOK
<1> DEFINE L == Len(issued[i])
<1>1. L \in Nat /\ L >= 1 /\ issued[i] # <<>> /\ u \in 1 .. L
  BY DEF TypeOK
<1>2. issued[i][L] = issued[i][u]
  BY <1>1 DEF Resolves, IssuedInv, LastIssued
<1>3. issued[i][L] - issued[i][u] \in {L - u, L - u - Period}
  BY <1>1 DEF IssuedInv, Spaced, Period
<1>4. issued[i][u] \in Int
  BY ConstantsAssumption DEF TypeOK, Counter
<1> HIDE DEF L
<1> QED
  BY <1>1, <1>2, <1>3, <1>4, ConstantsAssumption DEF Period, L

(* A removed handle is rejected until its entry has been handed out        *)
(* CounterMod - 1 more times, whatever the assertion handlers do.          *)
THEOREM StaleHandlesAreRejected == Spec => []StaleHandleRejected
<1>1. Init => TypeOK /\ IssuedInv
  BY TypeInit, IssuedInit
<1>2. TypeOK /\ IssuedInv /\ [Next]_vars => (TypeOK /\ IssuedInv)'
  BY TypeNext, IssuedNext
<1>3. TypeOK /\ IssuedInv => StaleHandleRejected
  BY IssuedImpliesStaleRejected
<1> QED
  BY <1>1, <1>2, <1>3, PTL DEF Spec

(* The handle of the default constructor never resolves.                   *)
THEOREM NullHandlesAreRejected == Spec => []NullHandleRejected
<1>1. TypeOK /\ IssuedInv => NullHandleRejected
  <2> SUFFICES ASSUME TypeOK, IssuedInv, NEW i \in Index
               PROVE  m_entries[i].m_counter # 0
    BY DEF NullHandleRejected, Resolves
  <2>1. issued[i] \in Seq(Counter \ {0}) /\ m_entries[i].m_counter = LastIssued(i)
    BY DEF TypeOK, IssuedInv
  <2> QED
    BY <2>1 DEF LastIssued
<1>2. Init => TypeOK /\ IssuedInv
  BY TypeInit, IssuedInit
<1>3. TypeOK /\ IssuedInv /\ [Next]_vars => (TypeOK /\ IssuedInv)'
  BY TypeNext, IssuedNext
<1> QED
  BY <1>1, <1>2, <1>3, PTL DEF Spec

-----------------------------------------------------------------------------
(* The free list, when a failed assertion stops the operation.             *)

Strict == "ignoring" \notin Handlers

(* After the constructor or Reset the list holds every index in order.     *)
LEMMA ResetList ==
  /\ ResetFreeList # <<>> /\ Len(ResetFreeList) = MaxEntries
  /\ \A k \in 1 .. MaxEntries : ResetFreeList[k] = k - 1
  /\ Entries(ResetFreeList) = Index
  /\ \A k \in 1 .. MaxEntries - 1 :
       ResetEntries[ResetFreeList[k]].m_nextFreeIndex = ResetFreeList[k + 1]
  /\ \A i \in Index : /\ ~ResetEntries[i].m_active
                      /\ ResetEntries[i].m_endOfList <=> i = MaxEntries - 1
<1> USE ConstantsAssumption
<1>1. /\ Len(ResetFreeList) = MaxEntries
      /\ \A k \in 1 .. MaxEntries : ResetFreeList[k] = k - 1
  BY ResetTypes DEF ResetFreeList
<1>2. ResetFreeList # <<>>
  BY <1>1
<1>3. Entries(ResetFreeList) = Index
  <2>1. ASSUME NEW i \in Index
        PROVE  i \in Entries(ResetFreeList)
    <3>1. i + 1 \in 1 .. MaxEntries /\ i = (i + 1) - 1
      BY DEF Index
    <3>2. ResetFreeList[i + 1] = i
      BY <1>1, <3>1
    <3> QED
      BY <1>1, <3>1, <3>2 DEF Entries
  <2>2. ASSUME NEW k \in 1 .. MaxEntries
        PROVE  ResetFreeList[k] \in Index
    BY <1>1 DEF Index
  <2> QED
    BY <1>1, <2>1, <2>2 DEF Entries
<1>4. ASSUME NEW i \in Index, i < MaxEntries - 1
      PROVE  ResetEntries[i] = FreshEntry(i + 1, FALSE)
  BY <1>4 DEF ResetEntries
<1>5. ASSUME NEW i \in Index, ~(i < MaxEntries - 1)
      PROVE  i = MaxEntries - 1 /\ ResetEntries[i] = FreshEntry(0, TRUE)
  BY <1>5 DEF ResetEntries, Index
<1>6. ASSUME NEW k \in 1 .. MaxEntries - 1
      PROVE  ResetEntries[ResetFreeList[k]].m_nextFreeIndex = ResetFreeList[k + 1]
  <2>1. ResetFreeList[k] = k - 1 /\ ResetFreeList[k + 1] = k
    BY <1>1
  <2>2. k - 1 \in Index /\ k - 1 < MaxEntries - 1 /\ (k - 1) + 1 = k
    BY DEF Index
  <2>3. ResetEntries[k - 1] = FreshEntry(k, FALSE)
    BY <1>4, <2>2
  <2> QED
    BY <2>1, <2>3 DEF FreshEntry
<1>7. ASSUME NEW i \in Index
      PROVE  /\ ~ResetEntries[i].m_active
             /\ ResetEntries[i].m_endOfList <=> i = MaxEntries - 1
  <2>1. CASE i < MaxEntries - 1
    <3>1. ResetEntries[i] = FreshEntry(i + 1, FALSE)
      BY <1>4, <2>1
    <3>2. i # MaxEntries - 1
      BY <2>1 DEF Index
    <3> QED
      BY <3>1, <3>2 DEF FreshEntry
  <2>2. CASE ~(i < MaxEntries - 1)
    <3>1. ResetEntries[i] = FreshEntry(0, TRUE) /\ i = MaxEntries - 1
      BY <1>5, <2>2
    <3> QED
      BY <3>1 DEF FreshEntry
  <2> QED
    BY <2>1, <2>2
<1> QED
  BY <1>1, <1>2, <1>3, <1>6, <1>7

LEMMA FreeListInit == Init => FreeListInv
<1> SUFFICES ASSUME Init
             PROVE  FreeListInv
  OBVIOUS
<1>1. \A j, k \in 1 .. MaxEntries : ResetFreeList[j] = ResetFreeList[k] => j = k
  BY ResetList, ConstantsAssumption
<1>2. ResetFreeList[MaxEntries] = MaxEntries - 1 /\ ResetFreeList[1] = 0
  BY ResetList, ConstantsAssumption
<1> QED
  BY <1>1, <1>2, ResetList DEF Init, FreeListInv

LEMMA FreeListReset == Reset => FreeListInv'
<1> SUFFICES ASSUME Reset
             PROVE  FreeListInv'
  OBVIOUS
<1>1. \A j, k \in 1 .. MaxEntries : ResetFreeList[j] = ResetFreeList[k] => j = k
  BY ResetList, ConstantsAssumption
<1>2. ResetFreeList[MaxEntries] = MaxEntries - 1 /\ ResetFreeList[1] = 0
  BY ResetList, ConstantsAssumption
<1> QED
  BY <1>1, <1>2, ResetList DEF Reset, FreeListInv

(* An Add whose assertions hold finds a list with at least two entries, so *)
(* it never takes the last one.                                            *)
LEMMA AddTakesTheHead ==
  ASSUME TypeOK, FreeListInv, NEW t \in Types, AddOk(t)
  PROVE  /\ Len(freeList) \in Nat /\ Len(freeList) >= 2
         /\ m_firstFreeEntry = freeList[1] /\ m_firstFreeEntry \in Index
         /\ m_entries[m_firstFreeEntry].m_nextFreeIndex = freeList[2]
<1>1. freeList \in Seq(Index) /\ freeList # <<>> /\ Len(freeList) \in Nat /\ Len(freeList) >= 1
  BY DEF TypeOK, FreeListInv
<1>2. m_firstFreeEntry = freeList[1] /\ m_firstFreeEntry \in Index
  BY DEF TypeOK, FreeListInv
<1>3. Len(freeList) # 1
  <2>1. ~m_entries[m_firstFreeEntry].m_endOfList
    BY DEF AddOk
  <2>2. m_entries[freeList[Len(freeList)]].m_endOfList
    BY ConstantsAssumption DEF FreeListInv, Index
  <2> QED
    BY <1>2, <2>1, <2>2
<1>4. Len(freeList) >= 2 /\ 1 \in 1 .. Len(freeList) - 1
  <2>1. \A n \in Nat : n >= 1 /\ n # 1 => n >= 2 /\ 1 \in 1 .. n - 1
    OBVIOUS
  <2> QED
    BY <1>1, <1>3, <2>1
<1>5. m_entries[freeList[1]].m_nextFreeIndex = freeList[1 + 1]
  BY <1>4 DEF FreeListInv
<1> QED
  BY <1>1, <1>2, <1>4, <1>5

LEMMA FreeListAdd ==
  ASSUME TypeOK, FreeListInv, Strict,
         NEW p \in Pointers, NEW t \in Types, Add(p, t)
  PROVE  FreeListInv'
<1> DEFINE L == Len(freeList)
           f == m_firstFreeEntry
<1>1. AddOk(t)
  BY DEF Add, Proceeds, Strict, TypeOK
<1>2. L \in Nat /\ L >= 2 /\ f = freeList[1] /\ f \in Index
      /\ m_entries[f].m_nextFreeIndex = freeList[2]
  BY <1>1, AddTakesTheHead
<1>3. freeList \in Seq(Index) /\ freeList # <<>>
  BY DEF TypeOK, FreeListInv
<1>4. /\ freeList' \in Seq(Index)
      /\ Len(freeList') = L - 1
      /\ \A k \in 1 .. L - 1 : freeList'[k] = freeList[k + 1]
  BY <1>3, TailShifts DEF Add
<1>5. /\ m_entries \in [Index -> HandleEntry]
      /\ m_entries'[f].m_active
      /\ m_entries'[f].m_endOfList = m_entries[f].m_endOfList
      /\ \A i \in Index \ {f} : m_entries'[i] = m_entries[i]
      /\ m_firstFreeEntry' = m_entries[f].m_nextFreeIndex
  BY <1>2 DEF Add, TypeOK
<1>6. \A j, k \in 1 .. L : freeList[j] = freeList[k] => j = k
  BY DEF FreeListInv
<1>7. \A k \in 1 .. L : freeList[k] \in Index
  BY <1>3
<1>8. freeList' # <<>> /\ m_firstFreeEntry' = freeList'[1]
  <2> HIDE DEF L, f
  <2>1. freeList'[1] = freeList[2]
    BY <1>2, <1>4
  <2> QED
    BY <1>2, <1>4, <1>5, <2>1
<1>9. \A k \in 1 .. Len(freeList') - 1 :
        m_entries'[freeList'[k]].m_nextFreeIndex = freeList'[k + 1]
  <2> SUFFICES ASSUME NEW k \in 1 .. L - 2
               PROVE  m_entries'[freeList'[k]].m_nextFreeIndex = freeList'[k + 1]
    BY <1>2, <1>4
  <2> HIDE DEF L, f
  <2>1. freeList'[k] = freeList[k + 1] /\ freeList'[k + 1] = freeList[k + 2]
    BY <1>2, <1>4
  <2>2. freeList[k + 1] \in Index \ {f}
    BY <1>2, <1>6, <1>7
  <2>3. m_entries[freeList[k + 1]].m_nextFreeIndex = freeList[(k + 1) + 1]
    BY <1>2 DEF FreeListInv, L
  <2> QED
    BY <1>2, <1>5, <2>1, <2>2, <2>3
<1>10. \A j, k \in 1 .. Len(freeList') : freeList'[j] = freeList'[k] => j = k
  <2> HIDE DEF L, f
  <2> QED
    BY <1>2, <1>4, <1>6
<1>11. Entries(freeList') = Entries(freeList) \ {f}
  <2> HIDE DEF L, f
  <2>1. ASSUME NEW k \in 1 .. L - 1
        PROVE  freeList'[k] \in Entries(freeList) \ {f}
    <3>1. freeList'[k] = freeList[k + 1] /\ k + 1 \in 1 .. L
      BY <1>2, <1>4
    <3>2. freeList[k + 1] # f
      BY <1>2, <1>6, <3>1
    <3> QED
      BY <3>1, <3>2 DEF Entries, L
  <2>2. ASSUME NEW k \in 1 .. L, freeList[k] # f
        PROVE  freeList[k] \in Entries(freeList')
    <3>1. k # 1 /\ k - 1 \in 1 .. L - 1
      BY <1>2, <2>2
    <3>2. freeList'[k - 1] = freeList[(k - 1) + 1]
      BY <1>4, <3>1
    <3> QED
      BY <1>2, <1>4, <3>1, <3>2 DEF Entries
  <2> QED
    BY <1>4, <2>1, <2>2 DEF Entries, L
<1>12. \A i \in Index : m_entries'[i].m_active <=> i \notin Entries(freeList')
  BY <1>5, <1>11 DEF FreeListInv
<1>13. freeList'[Len(freeList')] = MaxEntries - 1
  <2>1. freeList[L] = MaxEntries - 1
    BY DEF FreeListInv
  <2> HIDE DEF L, f
  <2> QED
    BY <1>2, <1>4, <2>1
<1>14. \A i \in Index : m_entries'[i].m_endOfList <=> i = MaxEntries - 1
  BY <1>5 DEF FreeListInv
<1> QED
  BY <1>8, <1>9, <1>10, <1>12, <1>13, <1>14 DEF FreeListInv

LEMMA FreeListRemove ==
  ASSUME TypeOK, FreeListInv, Strict, NEW h \in Handle, Remove(h)
  PROVE  FreeListInv'
<1> DEFINE L == Len(freeList)
           f == h.m_index
<1>1. f \in Index /\ m_entries[f].m_active
  BY DEF Remove, Proceeds, Resolves, Strict, TypeOK, Handle
<1>2. freeList \in Seq(Index) /\ freeList # <<>> /\ L \in Nat /\ L >= 1
  BY DEF TypeOK, FreeListInv
<1>3. /\ Len(freeList') = L + 1
      /\ freeList' \in Seq(Index)
      /\ freeList'[1] = f
      /\ \A k \in 2 .. L + 1 : freeList'[k] = freeList[k - 1]
  BY <1>1, <1>2, ConsShifts DEF Remove
<1>4. /\ m_entries'[f].m_nextFreeIndex = m_firstFreeEntry
      /\ ~m_entries'[f].m_active
      /\ m_entries'[f].m_endOfList = m_entries[f].m_endOfList
      /\ \A i \in Index \ {f} : m_entries'[i] = m_entries[i]
      /\ m_firstFreeEntry' = f
  BY <1>1 DEF Remove, TypeOK
<1>5. f \notin Entries(freeList)
  BY <1>1 DEF FreeListInv
<1>6. \A k \in 1 .. L : freeList[k] \in Index \ {f}
  BY <1>2, <1>5 DEF Entries
<1>7. freeList' # <<>> /\ m_firstFreeEntry' = freeList'[1]
  BY <1>2, <1>3, <1>4
<1>8. \A k \in 1 .. Len(freeList') - 1 :
        m_entries'[freeList'[k]].m_nextFreeIndex = freeList'[k + 1]
  <2> SUFFICES ASSUME NEW k \in 1 .. L
               PROVE  m_entries'[freeList'[k]].m_nextFreeIndex = freeList'[k + 1]
    BY <1>2, <1>3
  <2>1. freeList'[k + 1] = freeList[k]
    <3> HIDE DEF L, f
    <3> QED
      BY <1>2, <1>3
  <2>2. CASE k = 1
    BY <1>3, <1>4, <2>1, <2>2 DEF FreeListInv
  <2>3. CASE k # 1
    <3>1. m_entries[freeList[k - 1]].m_nextFreeIndex = freeList[(k - 1) + 1]
      BY <1>2, <2>3 DEF FreeListInv
    <3> HIDE DEF L, f
    <3>2. freeList'[k] = freeList[k - 1] /\ freeList[k - 1] \in Index \ {f}
      BY <1>2, <1>3, <1>6, <2>3
    <3> QED
      BY <1>4, <2>1, <3>1, <3>2
  <2> QED
    BY <2>2, <2>3
<1>9. \A j, k \in 1 .. Len(freeList') : freeList'[j] = freeList'[k] => j = k
  <2>1. \A j, k \in 1 .. L : freeList[j] = freeList[k] => j = k
    BY DEF FreeListInv
  <2> HIDE DEF L, f
  <2> SUFFICES ASSUME NEW j \in 1 .. L + 1, NEW k \in 1 .. L + 1, freeList'[j] = freeList'[k]
               PROVE  j = k
    BY <1>3
  <2>2. ASSUME NEW m \in 2 .. L + 1
        PROVE  freeList'[m] = freeList[m - 1] /\ m - 1 \in 1 .. L /\ freeList'[m] # f
    BY <1>2, <1>3, <1>6
  <2>3. CASE j = 1 \/ k = 1
    BY <1>2, <1>3, <2>2, <2>3
  <2>4. CASE j # 1 /\ k # 1
    <3>1. j \in 2 .. L + 1 /\ k \in 2 .. L + 1
      BY <1>2, <2>4
    <3>2. j - 1 = k - 1
      BY <2>1, <2>2, <3>1
    <3> QED
      BY <3>1, <3>2
  <2> QED
    BY <2>3, <2>4
<1>10. Entries(freeList') = Entries(freeList) \cup {f}
  <2> HIDE DEF L, f
  <2>1. ASSUME NEW k \in 1 .. L + 1
        PROVE  freeList'[k] \in Entries(freeList) \cup {f}
    <3>1. CASE k = 1
      BY <1>3, <3>1
    <3>2. CASE k # 1
      <4>1. k - 1 \in 1 .. L /\ freeList'[k] = freeList[k - 1]
        BY <1>2, <1>3, <3>2
      <4> QED
        BY <4>1 DEF Entries, L
    <3> QED
      BY <3>1, <3>2
  <2>2. ASSUME NEW k \in 1 .. L
        PROVE  freeList[k] \in Entries(freeList')
    <3>1. k + 1 \in 2 .. L + 1 /\ k + 1 \in 1 .. L + 1
      BY <1>2
    <3>2. freeList'[k + 1] = freeList[(k + 1) - 1]
      BY <1>3, <3>1
    <3>3. freeList'[k + 1] = freeList[k]
      BY <3>2
    <3> QED
      BY <1>3, <3>1, <3>3 DEF Entries
  <2>3. f \in Entries(freeList')
    <3>1. 1 \in 1 .. L + 1
      BY <1>2
    <3> QED
      BY <1>3, <3>1 DEF Entries
  <2> QED
    BY <1>3, <2>1, <2>2, <2>3 DEF Entries, L
<1>11. \A i \in Index : m_entries'[i].m_active <=> i \notin Entries(freeList')
  BY <1>4, <1>10 DEF FreeListInv
<1>12. freeList'[Len(freeList')] = MaxEntries - 1
  <2>1. freeList[L] = MaxEntries - 1
    BY DEF FreeListInv
  <2> HIDE DEF L, f
  <2> QED
    BY <1>2, <1>3, <2>1
<1>13. \A i \in Index : m_entries'[i].m_endOfList <=> i = MaxEntries - 1
  BY <1>4 DEF FreeListInv
<1> QED
  BY <1>7, <1>8, <1>9, <1>11, <1>12, <1>13 DEF FreeListInv

LEMMA FreeListNext ==
  ASSUME TypeOK, FreeListInv, Strict, [Next]_vars
  PROVE  FreeListInv'
<1>1. CASE Reset
  BY <1>1, FreeListReset
<1>2. ASSUME NEW p \in Pointers, NEW t \in Types, Add(p, t)
      PROVE  FreeListInv'
  BY <1>2, FreeListAdd
<1>3. ASSUME NEW h \in Handle, NEW p \in Pointers, Update(h, p)
      PROVE  FreeListInv'
  <2>1. /\ h.m_index \in Index
        /\ freeList \in Seq(Index)
        /\ m_entries \in [Index -> HandleEntry]
    BY DEF Handle, TypeOK
  <2>2. /\ freeList' = freeList /\ m_firstFreeEntry' = m_firstFreeEntry
        /\ \A i \in Index :
             /\ m_entries'[i].m_nextFreeIndex = m_entries[i].m_nextFreeIndex
             /\ m_entries'[i].m_active = m_entries[i].m_active
             /\ m_entries'[i].m_endOfList = m_entries[i].m_endOfList
    BY <1>3, <2>1 DEF Update, history
  <2>3. \A k \in 1 .. Len(freeList) - 1 : freeList[k] \in Index
    BY <2>1
  <2> QED
    BY <2>2, <2>3 DEF FreeListInv
<1>4. ASSUME NEW h \in Handle, Remove(h)
      PROVE  FreeListInv'
  BY <1>4, FreeListRemove
<1>5. CASE UNCHANGED <<managerVars, history>>
  BY <1>5 DEF managerVars, history, FreeListInv
<1> QED
  BY <1>1, <1>2, <1>3, <1>4, <1>5 DEF Next, vars, Asserts, SetHandler

(* The free list threads exactly the unused entries and ends in the        *)
(* sentinel, as long as failed assertions stop the operation.              *)
THEOREM FreeListCorrect == ASSUME Strict PROVE Spec => []FreeListInv
<1>1. Init => TypeOK /\ FreeListInv
  BY TypeInit, FreeListInit
<1>2. TypeOK /\ FreeListInv /\ [Next]_vars => (TypeOK /\ FreeListInv)'
  BY TypeNext, FreeListNext
<1> QED
  BY <1>1, <1>2, PTL DEF Spec

-----------------------------------------------------------------------------
(* The count, and the assertions of Add. *)

LEMMA ActiveFinite == IsFiniteSet(Active) /\ Cardinality(Active) \in Nat
<1>1. IsFiniteSet(Index)
  BY FS_Interval, ConstantsAssumption DEF Index
<1>2. IsFiniteSet(Active)
  BY <1>1, FS_Subset DEF Active
<1> QED
  BY <1>2, FS_CardinalityType

LEMMA CountEmpty ==
  ASSUME \A i \in Index : ~m_entries[i].m_active
  PROVE  Cardinality(Active) = 0
<1>1. Active = {}
  BY DEF Active
<1> QED
  BY <1>1, FS_EmptySet

LEMMA CountNext ==
  ASSUME TypeOK, FreeListInv, CountInv, Strict, [Next]_vars
  PROVE  CountInv'
<1>1. freeList \in Seq(Index) /\ Len(freeList) \in Nat /\ freeList # <<>>
      /\ m_activeEntryCount \in Int /\ m_entries \in [Index -> HandleEntry]
  BY DEF TypeOK, FreeListInv
<1>2. m_activeEntryCount = Cardinality(Active)
      /\ m_activeEntryCount + Len(freeList) = MaxEntries
  BY DEF CountInv
<1>3. CASE Reset
  <2>1. Active' = {}
    BY <1>3, ResetList DEF Reset, Active
  <2>2. Len(freeList') = MaxEntries /\ m_activeEntryCount' = 0
    BY <1>3, ResetList DEF Reset
  <2> QED
    BY <2>1, <2>2, FS_EmptySet, ConstantsAssumption DEF CountInv
<1>4. ASSUME NEW p \in Pointers, NEW t \in Types, Add(p, t)
      PROVE  CountInv'
  <2>1. m_firstFreeEntry \in Index /\ ~m_entries[m_firstFreeEntry].m_active
    BY <1>4 DEF Add, Proceeds, Strict, TypeOK, AddOk
  <2>2. Active' = Active \cup {m_firstFreeEntry} /\ m_firstFreeEntry \notin Active
    BY <1>1, <1>4, <2>1 DEF Add, Active
  <2>3. Cardinality(Active') = Cardinality(Active) + 1
    BY <2>2, ActiveFinite, FS_AddElement
  <2>4. Len(freeList') = Len(freeList) - 1 /\ m_activeEntryCount' = m_activeEntryCount + 1
    BY <1>1, <1>4, TailShifts DEF Add
  <2> QED
    BY <1>1, <1>2, <2>3, <2>4, ConstantsAssumption DEF CountInv
<1>5. ASSUME NEW h \in Handle, Remove(h)
      PROVE  CountInv'
  <2>1. h.m_index \in Index /\ m_entries[h.m_index].m_active
    BY <1>5 DEF Remove, Proceeds, Resolves, Strict, TypeOK, Handle
  <2>2. Active' = Active \ {h.m_index} /\ h.m_index \in Active
    BY <1>1, <1>5, <2>1 DEF Remove, Active
  <2>3. Cardinality(Active') = Cardinality(Active) - 1
    BY <2>2, ActiveFinite, FS_RemoveElement
  <2>4. Len(freeList') = Len(freeList) + 1 /\ m_activeEntryCount' = m_activeEntryCount - 1
    BY <1>1, <1>5, <2>1, ConsShifts DEF Remove
  <2> QED
    BY <1>1, <1>2, <2>3, <2>4, ConstantsAssumption DEF CountInv
<1>6. ASSUME NEW h \in Handle, NEW p \in Pointers, Update(h, p)
      PROVE  CountInv'
  <2>1. h.m_index \in Index
    BY DEF Handle
  <2>2. Active' = Active
    BY <1>1, <1>6, <2>1 DEF Update, Active
  <2> QED
    BY <1>2, <1>6, <2>2 DEF Update, history, CountInv
<1>7. CASE UNCHANGED <<managerVars, history>>
  BY <1>2, <1>7 DEF managerVars, history, CountInv, Active
<1> QED
  BY <1>3, <1>4, <1>5, <1>6, <1>7 DEF Next, vars, Asserts, SetHandler

LEMMA StrictInvariant == ASSUME Strict PROVE Spec => [](TypeOK /\ FreeListInv /\ CountInv)
<1>1. Init => TypeOK /\ FreeListInv /\ CountInv
  <2> SUFFICES ASSUME Init
               PROVE  CountInv
    BY TypeInit, FreeListInit
  <2>1. Cardinality(Active) = 0
    BY CountEmpty, ResetList DEF Init
  <2>2. Len(freeList) = MaxEntries /\ m_activeEntryCount = 0
    BY ResetList DEF Init
  <2> QED
    BY <2>1, <2>2, ConstantsAssumption DEF CountInv
<1>2. TypeOK /\ FreeListInv /\ CountInv /\ [Next]_vars => (TypeOK /\ FreeListInv /\ CountInv)'
  BY TypeNext, FreeListNext, CountNext
<1> QED
  BY <1>1, <1>2, PTL DEF Spec

(* GetCount is the number of live handles, and no entry is lost.           *)
THEOREM CountCorrect == ASSUME Strict PROVE Spec => []CountInv
  BY StrictInvariant, PTL

(* With a valid type Add asserts exactly when MaxEntries - 1 handles are   *)
(* live: its three last assertions never fail on their own.                *)
THEOREM AddAssertsOnlyOnAFullTable == ASSUME Strict PROVE Spec => []AddAssertsOnlyWhenFull
<1>1. ASSUME TypeOK, FreeListInv, CountInv
      PROVE  AddAssertsOnlyWhenFull
  <2> SUFFICES ASSUME NEW t \in Types \cap (0 .. MaxType)
               PROVE  AddOk(t) <=> Cardinality(Active) < MaxEntries - 1
    BY <1>1 DEF AddAssertsOnlyWhenFull
  <2> USE <1>1, ConstantsAssumption
  <2>1. m_activeEntryCount = Cardinality(Active) /\ m_activeEntryCount \in Int
    BY DEF CountInv, TypeOK
  <2>2. freeList \in Seq(Index) /\ Len(freeList) \in Nat /\ freeList # <<>>
        /\ m_activeEntryCount + Len(freeList) = MaxEntries
    BY DEF TypeOK, FreeListInv, CountInv
  <2>3. ASSUME Cardinality(Active) < MaxEntries - 1
        PROVE  AddOk(t)
    <3>1. Len(freeList) >= 2
      BY <2>1, <2>2, <2>3
    <3>2. /\ m_firstFreeEntry = freeList[1] /\ m_firstFreeEntry \in Index
          /\ freeList[Len(freeList)] = MaxEntries - 1
          /\ \A j, k \in 1 .. Len(freeList) : freeList[j] = freeList[k] => j = k
      BY DEF FreeListInv, TypeOK
    <3>3. 1 \in 1 .. Len(freeList) /\ Len(freeList) \in 1 .. Len(freeList) /\ 1 # Len(freeList)
      <4>1. \A n \in Nat : n >= 2 => 1 \in 1 .. n /\ n \in 1 .. n /\ 1 # n
        OBVIOUS
      <4> QED
        BY <2>2, <3>1, <4>1
    <3>4. m_firstFreeEntry # MaxEntries - 1
      BY <3>2, <3>3
    <3>5. m_firstFreeEntry \in Entries(freeList)
      BY <3>2, <3>3 DEF Entries
    <3>6. ~m_entries[m_firstFreeEntry].m_active /\ ~m_entries[m_firstFreeEntry].m_endOfList
      BY <3>2, <3>4, <3>5 DEF FreeListInv
    <3>7. m_firstFreeEntry < MaxEntries
      BY <3>2 DEF Index
    <3> QED
      BY <2>1, <2>3, <3>6, <3>7 DEF AddOk
  <2>4. ASSUME AddOk(t)
        PROVE  Cardinality(Active) < MaxEntries - 1
    BY <2>1, <2>4 DEF AddOk
  <2> QED
    BY <2>3, <2>4
<1> QED
  BY <1>1, StrictInvariant, PTL

-----------------------------------------------------------------------------
(* HandleManager implements HandleTable: each operation is the one step of *)
(* the table its name suggests, on the very key it was given.              *)

LEMMA SameHandle ==
  ASSUME NEW x \in Handle, NEW h \in Handle,
         x.m_index = h.m_index, x.m_counter = h.m_counter
  PROVE  x = h
  BY DEF Handle

LEMMA LiveDomain ==
  /\ DOMAIN Live = {x \in Handle : Resolves(x)}
  /\ \A x \in DOMAIN Live : Live[x] = m_entries[x.m_index].m_entry
  BY DEF Live, Get

LEMMA ResetDeletesAll == Reset => Table!DeleteAll
<1> SUFFICES ASSUME Reset
             PROVE  Live' = Table!Empty
  BY DEF Table!DeleteAll
<1>1. \A x \in Handle : ~Resolves(x)'
  BY ResetList DEF Reset, Resolves, Handle
<1>2. Live' = [x \in {} |-> Get(x)']
  BY <1>1 DEF Live
<1> QED
  BY <1>2 DEF Table!Empty

LEMMA AddInserts ==
  ASSUME TypeOK, Strict, NEW p \in Pointers, NEW t \in Types, Add(p, t)
  PROVE  \E k \in Handle : Table!Insert(k, p)
<1> DEFINE f == m_firstFreeEntry
           n == NextCounter(m_entries[f].m_counter)
           key == [m_index |-> f, m_counter |-> n]
<1>1. f \in Index /\ m_entries \in [Index -> HandleEntry] /\ ~m_entries[f].m_active
  BY DEF Add, Proceeds, Strict, TypeOK, AddOk
<1>2. n \in Counter
  BY <1>1, NextCounterValue DEF HandleEntry
<1>3. key \in Handle /\ key.m_index = f /\ key.m_counter = n
  BY <1>1, <1>2 DEF Handle
<1>4. /\ m_entries'[f].m_counter = n /\ m_entries'[f].m_active /\ m_entries'[f].m_entry = p
      /\ \A i \in Index \ {f} : m_entries'[i] = m_entries[i]
  BY <1>1 DEF Add
<1> HIDE DEF n
<1>5. ASSUME NEW x \in Handle
      PROVE  Resolves(x)' <=> Resolves(x) \/ x = key
  <2>1. x.m_index \in Index
    BY DEF Handle
  <2>2. CASE x.m_index = f
    <3>1. x = key <=> x.m_counter = n
      BY <1>3, <2>2 DEF Handle
    <3> QED
      BY <1>1, <1>4, <2>2, <3>1 DEF Resolves
  <2>3. CASE x.m_index # f
    BY <1>3, <1>4, <2>1, <2>3 DEF Resolves
  <2> QED
    BY <2>2, <2>3
<1>6. key \notin DOMAIN Live
  BY <1>1, <1>3, LiveDomain DEF Resolves
<1>7. Live' = [x \in DOMAIN Live \cup {key} |-> IF x = key THEN p ELSE Live[x]]
  <2> HIDE DEF key
  <2>1. {x \in Handle : Resolves(x)'} = DOMAIN Live \cup {key}
    BY <1>3, <1>5, LiveDomain
  <2>2. ASSUME NEW x \in DOMAIN Live \cup {key}
        PROVE  m_entries'[x.m_index].m_entry = IF x = key THEN p ELSE Live[x]
    <3>1. CASE x = key
      BY <1>3, <1>4, <3>1
    <3>2. CASE x # key
      <4>1. x \in DOMAIN Live /\ x.m_index \in Index \ {f}
        BY <1>1, <3>2, LiveDomain DEF Handle, Resolves
      <4> QED
        BY <1>4, <3>2, <4>1, LiveDomain
    <3> QED
      BY <3>1, <3>2
  <2>3. Live' = [x \in {y \in Handle : Resolves(y)'} |-> m_entries'[x.m_index].m_entry]
    BY DEF Live, Get
  <2> QED
    BY <2>1, <2>2, <2>3
<1> QED
  BY <1>3, <1>6, <1>7 DEF Table!Insert

LEMMA UpdateAssigns ==
  ASSUME TypeOK, Strict, NEW h \in Handle, NEW p \in Pointers, Update(h, p)
  PROVE  Table!Assign(h, p)
<1>1. h.m_index \in Index /\ m_entries \in [Index -> HandleEntry] /\ Resolves(h)
  BY DEF Update, Proceeds, Strict, TypeOK, Handle
<1>2. h \in DOMAIN Live
  BY <1>1, LiveDomain
<1>3. /\ m_entries'[h.m_index].m_counter = m_entries[h.m_index].m_counter
      /\ m_entries'[h.m_index].m_active = m_entries[h.m_index].m_active
      /\ m_entries'[h.m_index].m_entry = p
      /\ \A i \in Index \ {h.m_index} : m_entries'[i] = m_entries[i]
  BY <1>1 DEF Update
<1>4. ASSUME NEW x \in Handle
      PROVE  Resolves(x)' <=> Resolves(x)
  <2>1. x.m_index \in Index
    BY DEF Handle
  <2> QED
    BY <1>3, <2>1 DEF Resolves
<1>5. {x \in Handle : Resolves(x)'} = DOMAIN Live
  BY <1>4, LiveDomain
<1>6. ASSUME NEW x \in DOMAIN Live
      PROVE  m_entries'[x.m_index].m_entry = [Live EXCEPT ![h] = p][x]
  <2>1. x \in Handle /\ Resolves(x) /\ x.m_index \in Index
    BY LiveDomain DEF Handle
  <2>2. CASE x = h
    BY <1>2, <1>3, <2>2
  <2>3. CASE x # h
    <3>1. x.m_index # h.m_index
      BY <1>1, <2>1, <2>3 DEF Handle, Resolves
    <3> QED
      BY <1>3, <2>1, <2>3, <3>1, LiveDomain
  <2> QED
    BY <2>2, <2>3
<1>7. Live' = [x \in {y \in Handle : Resolves(y)'} |-> m_entries'[x.m_index].m_entry]
  BY DEF Live, Get
<1>8. Live' = [x \in DOMAIN Live |-> [Live EXCEPT ![h] = p][x]]
  BY <1>5, <1>6, <1>7
<1>9. Live = [x \in DOMAIN Live |-> Live[x]]
  BY DEF Live
<1> QED
  BY <1>2, <1>8, <1>9 DEF Table!Assign

LEMMA RemoveDeletes ==
  ASSUME TypeOK, Strict, NEW h \in Handle, Remove(h)
  PROVE  Table!Delete(h)
<1>1. h.m_index \in Index /\ m_entries \in [Index -> HandleEntry] /\ Resolves(h)
  BY DEF Remove, Proceeds, Strict, TypeOK, Handle
<1>2. h \in DOMAIN Live
  BY <1>1, LiveDomain
<1>3. /\ ~m_entries'[h.m_index].m_active
      /\ \A i \in Index \ {h.m_index} : m_entries'[i] = m_entries[i]
  BY <1>1 DEF Remove
<1>4. ASSUME NEW x \in Handle
      PROVE  /\ Resolves(x)' <=> Resolves(x) /\ x # h
             /\ Resolves(x)' => x.m_index \in Index \ {h.m_index}
  <2>1. x.m_index \in Index
    BY DEF Handle
  <2>2. CASE x.m_index = h.m_index
    <3>1. Resolves(x) => x = h
      BY <1>1, <2>2, SameHandle DEF Resolves
    <3> QED
      BY <1>3, <2>2, <3>1 DEF Resolves
  <2>3. CASE x.m_index # h.m_index
    BY <1>3, <2>1, <2>3 DEF Resolves
  <2> QED
    BY <2>2, <2>3
<1>5. {x \in Handle : Resolves(x)'} = DOMAIN Live \ {h}
  BY <1>4, LiveDomain
<1>6. ASSUME NEW x \in DOMAIN Live \ {h}
      PROVE  m_entries'[x.m_index].m_entry = Live[x]
  BY <1>3, <1>4, LiveDomain
<1>7. Live' = [x \in {y \in Handle : Resolves(y)'} |-> m_entries'[x.m_index].m_entry]
  BY DEF Live, Get
<1>8. Live' = [x \in DOMAIN Live \ {h} |-> Live[x]]
  BY <1>5, <1>6, <1>7
<1> QED
  BY <1>2, <1>8 DEF Table!Delete

(* Every behaviour of the manager, read through its handles, is one of     *)
(* HandleTable, as long as failed assertions stop the operation.           *)
THEOREM ManagerImplementsTable == ASSUME Strict PROVE Spec => ImplementsTable
<1>1. Init => Table!Init
  <2> SUFFICES ASSUME Init
               PROVE  Live = Table!Empty
    BY DEF Table!Init
  <2>1. \A x \in Handle : ~Resolves(x)
    BY ResetList DEF Init, Resolves, Handle
  <2>2. Live = [x \in {} |-> Get(x)]
    BY <2>1 DEF Live
  <2> QED
    BY <2>2 DEF Table!Empty
<1>2. TypeOK /\ [Next]_vars => [Table!Next]_Live
  <2> SUFFICES ASSUME TypeOK, [Next]_vars
               PROVE  Table!Next \/ Live' = Live
    OBVIOUS
  <2>1. CASE Reset
    BY <2>1, ResetDeletesAll DEF Table!Next
  <2>2. ASSUME NEW p \in Pointers, NEW t \in Types, Add(p, t)
        PROVE  Table!Next
    BY <2>2, AddInserts DEF Table!Next
  <2>3. ASSUME NEW h \in Handle, NEW p \in Pointers, Update(h, p)
        PROVE  Table!Next
    BY <2>3, UpdateAssigns DEF Table!Next
  <2>4. ASSUME NEW h \in Handle, Remove(h)
        PROVE  Table!Next
    BY <2>4, RemoveDeletes DEF Table!Next
  <2>5. CASE UNCHANGED managerVars
    BY <2>5 DEF managerVars, Live, Resolves, Get
  <2> QED
    BY <2>1, <2>2, <2>3, <2>4, <2>5 DEF Next, vars, Asserts, SetHandler
<1>3. Spec => []TypeOK
  BY TypeCorrect
<1> QED
  BY <1>1, <1>2, <1>3, PTL DEF Spec, ImplementsTable, Table!Spec

-----------------------------------------------------------------------------
(* What clients store of handles. *)

(* Words of handles with a counter that is not 0 are distinct and not 0:   *)
(* no field overlaps another.                                              *)
LEMMA WordDistinct ==
  ASSUME NEW h \in Handle, NEW t \in Nat, h.m_counter # 0,
         NEW g \in Handle, NEW u \in Nat
  PROVE  /\ Word(h, t) # 0
         /\ Word(h, t) = Word(g, u) => h = g /\ t = u
<1> USE ConstantsAssumption
<1>1. /\ h.m_index \in 0 .. MaxEntries - 1 /\ h.m_counter \in 0 .. CounterMod - 1
      /\ g.m_index \in 0 .. MaxEntries - 1 /\ g.m_counter \in 0 .. CounterMod - 1
      /\ MaxEntries \in Nat \ {0} /\ CounterMod \in Nat \ {0}
  BY DEF Handle, Index, Counter
<1>2. \A n \in Nat : n * CounterMod \in Nat /\ n * MaxEntries \in Nat
  BY ProductMonotone
<1> DEFINE x == t * CounterMod + h.m_counter
           y == u * CounterMod + g.m_counter
<1>3. x \in Nat /\ y \in Nat /\ x >= 1
  <2>1. t * CounterMod \in Nat /\ u * CounterMod \in Nat
    BY <1>2
  <2> QED
    BY <1>1, <2>1
<1>4. x = y => t = u /\ h.m_counter = g.m_counter
  BY <1>1, RadixUnique
<1>5. Word(h, t) = x * MaxEntries + h.m_index /\ Word(g, u) = y * MaxEntries + g.m_index
  BY DEF Word
<1> HIDE DEF x, y
<1>6. Word(h, t) = Word(g, u) => x = y /\ h.m_index = g.m_index
  BY <1>1, <1>3, <1>5, RadixUnique
<1>7. Word(h, t) # 0
  <2>1. 1 * MaxEntries <= x * MaxEntries /\ x * MaxEntries \in Nat
    BY <1>1, <1>3, ProductMonotone
  <2> QED
    BY <1>1, <1>5, <2>1
<1> QED
  BY <1>4, <1>6, <1>7, SameHandle

(* The words clients store tell apart the handles issued since the last    *)
(* Reset and their types, and none is the word of no handle.               *)
THEOREM WordsAreDistinct == Spec => []IssuedWordsDistinct
<1>1. TypeOK => IssuedWordsDistinct
  <2> DEFINE Typed == IssuedHandles \X (Types \cap (0 .. MaxType))
  <2> SUFFICES ASSUME TypeOK
               PROVE  /\ \A x \in Typed : Word(x[1], x[2]) # 0
                      /\ \A x, y \in Typed : Word(x[1], x[2]) = Word(y[1], y[2]) => x = y
    BY DEF IssuedWordsDistinct
  <2>1. \A h \in IssuedHandles : h \in Handle /\ h.m_counter # 0
    <3> TAKE h \in IssuedHandles
    <3>1. PICK i \in Index : \E c \in Entries(issued[i]) : h = [m_index |-> i, m_counter |-> c]
      BY DEF IssuedHandles
    <3>2. Entries(issued[i]) \subseteq Counter \ {0}
      BY DEF TypeOK, Entries
    <3> QED
      BY <3>1, <3>2 DEF Handle
  <2>2. ASSUME NEW x \in Typed
        PROVE  /\ x[1] \in Handle /\ x[1].m_counter # 0 /\ x[2] \in Nat
               /\ x = <<x[1], x[2]>>
    <3>1. x[1] \in IssuedHandles /\ x[2] \in 0 .. MaxType /\ x = <<x[1], x[2]>>
      OBVIOUS
    <3> QED
      BY <2>1, <3>1, ConstantsAssumption
  <2> HIDE DEF Typed
  <2>3. \A x \in Typed : Word(x[1], x[2]) # 0
    BY <2>2, WordDistinct
  <2>4. ASSUME NEW x \in Typed, NEW y \in Typed, Word(x[1], x[2]) = Word(y[1], y[2])
        PROVE  x = y
    <3>1. x[1] = y[1] /\ x[2] = y[2]
      BY <2>2, <2>4, WordDistinct
    <3> QED
      BY <2>2, <3>1
  <2> QED
    BY <2>3, <2>4
<1> QED
  BY <1>1, TypeCorrect, PTL
=============================================================================
