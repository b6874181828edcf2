--------------------------- MODULE HandleManager ---------------------------
(***************************************************************************)
(* pow2::HandleManager: a fixed array of entries, a free list threaded     *)
(* through the unused ones, and a counter per entry that tells a handle in *)
(* use from the handles issued earlier for the same entry.  The bit-fields *)
(* keep their widths: an index has MaxEntries values, a counter CounterMod.*)
(*                                                                         *)
(* Every operation first runs its POW2_ASSERTs.  What a failed assertion   *)
(* does is up to the installed handler (Pow2Assert): the default one stops *)
(* the program, the test suite's throws out of the operation, and one that *)
(* returns false lets the operation go on.                                 *)
(***************************************************************************)
EXTENDS Integers, Sequences, FiniteSets

CONSTANTS
  MaxEntries,   (* HandleManager::MaxEntries, 2^12 in the code           *)
  CounterMod,   (* 2^15, the width of m_counter                          *)
  Pointers,     (* the values clients store                              *)
  NULL,
  Types,        (* the type arguments clients pass to Add                *)
  MaxType,      (* 31, the width of Handle::m_type                       *)
  Handlers,     (* the assertion handlers that may be installed          *)
  MaxUses,      (* bound: how often one entry is handed out between      *)
                (* Resets                                                *)
  MaxBelowZero  (* bound: how far below zero the count is followed       *)

ASSUME ConstantsAssumption ==
  /\ MaxEntries \in Nat /\ MaxEntries >= 2
  /\ CounterMod \in Nat /\ CounterMod >= 3
  /\ MaxUses \in Nat /\ MaxBelowZero \in Nat
  /\ MaxType \in Nat /\ Types \subseteq Int
  /\ Handlers \subseteq {"default", "throwing", "ignoring"}
  /\ "default" \in Handlers

VARIABLES
  m_entries,            (* [Index -> HandleEntry]                        *)
  m_activeEntryCount,
  m_firstFreeEntry,
  handler,              (* the installed assertion handler               *)
  halted,               (* POW2_HALT was reached                         *)
  freeList,             (* history: the indices freed and not yet reused,*)
                        (* the next one to reuse first                   *)
  issued                (* history: the counters issued for each entry   *)
                        (* since the last Reset, oldest first            *)

managerVars == <<m_entries, m_activeEntryCount, m_firstFreeEntry>>
history == <<freeList, issued>>
vars == <<managerVars, handler, halted, history>>

-----------------------------------------------------------------------------
Index   == 0 .. MaxEntries - 1
Counter == 0 .. CounterMod - 1

(* The part of a Handle the manager looks at: it ignores m_type. *)
Handle == [m_index : Index, m_counter : Counter]

BugWordOverlaps(h, type) ==
  (type * CounterMod + h.m_counter) * (MaxEntries \div 2) + h.m_index

(* operator uint32: the type above the counter above the index.  Each is   *)
(* shifted by the widths of those below it.                                *)
Word(h, type) == (type * CounterMod + h.m_counter) * MaxEntries + h.m_index

HandleEntry ==
  [m_nextFreeIndex : Index,  m_counter   : Counter,
   m_active        : BOOLEAN, m_endOfList : BOOLEAN,
   m_entry         : Pointers \cup {NULL}]

FreshEntry(nextFreeIndex, endOfList) ==
  [m_nextFreeIndex |-> nextFreeIndex, m_counter |-> 1,
   m_active |-> FALSE, m_endOfList |-> endOfList, m_entry |-> NULL]

BugSentinelTooEarly ==
  [i \in Index |-> IF i < MaxEntries - 2 THEN FreshEntry(i + 1, FALSE)
                                         ELSE FreshEntry(0, TRUE)]

ResetEntries ==
  [i \in Index |-> IF i < MaxEntries - 1 THEN FreshEntry(i + 1, FALSE)
                                         ELSE FreshEntry(0, TRUE)]

ResetFreeList == [k \in 1 .. MaxEntries |-> k - 1]

Init ==
  /\ m_entries = ResetEntries
  /\ m_activeEntryCount = 0
  /\ m_firstFreeEntry = 0
  /\ handler = "default"
  /\ halted = FALSE
  /\ freeList = ResetFreeList
  /\ issued = [i \in Index |-> <<>>]

-----------------------------------------------------------------------------
(* Assertions. *)

Running == ~halted

(* An operation whose assertions are `ok` or reported to a handler that    *)
(* returns false goes on.                                                  *)
Proceeds(ok) == Running /\ (ok \/ handler = "ignoring")

(* One whose assertion is reported to another handler ends there, having   *)
(* changed nothing: in every operation the assertions come first.          *)
Asserts(ok) ==
  /\ Running
  /\ ~ok
  /\ handler # "ignoring"
  /\ halted' = (handler = "default")
  /\ UNCHANGED <<managerVars, handler, history>>

SetHandler(h) ==
  /\ Running
  /\ handler' = h
  /\ UNCHANGED <<managerVars, halted, history>>

-----------------------------------------------------------------------------
(* Operations.  A definition named Bug... is what the next one could have  *)
(* been by mistake: the properties are tested against it.                  *)

(* Reset that leaves the count. *)
BugResetKeepsCount ==
  /\ Running
  /\ m_entries' = ResetEntries
  /\ m_firstFreeEntry' = 0
  /\ freeList' = ResetFreeList
  /\ issued' = [i \in Index |-> <<>>]
  /\ UNCHANGED <<m_activeEntryCount, handler, halted>>

Reset ==
  /\ Running
  /\ m_entries' = ResetEntries
  /\ m_activeEntryCount' = 0
  /\ m_firstFreeEntry' = 0
  /\ freeList' = ResetFreeList
  /\ issued' = [i \in Index |-> <<>>]
  /\ UNCHANGED <<handler, halted>>

BugCounterUnbounded(c) == c + 1
BugCounterKept(c) == c
BugCounterReachesZero(c) == (c + 1) % CounterMod

(* m_counter + 1 in 15 bits, skipping 0. *)
NextCounter(c) == IF (c + 1) % CounterMod = 0 THEN 1 ELSE (c + 1) % CounterMod

(* Add that checks its argument and not the table. *)
BugAddUnchecked(type) == type >= 0 /\ type <= MaxType

AddOk(type) ==
  /\ m_activeEntryCount < MaxEntries - 1
  /\ type >= 0 /\ type <= MaxType
  /\ m_firstFreeEntry < MaxEntries
  /\ ~m_entries[m_firstFreeEntry].m_active
  /\ ~m_entries[m_firstFreeEntry].m_endOfList

Add(p, type) ==
  LET newIndex == m_firstFreeEntry
      e == m_entries[newIndex]
      counter == NextCounter(e.m_counter)
  IN  /\ Proceeds(AddOk(type))
      /\ Len(issued[newIndex]) < MaxUses
      /\ m_firstFreeEntry' = e.m_nextFreeIndex
      /\ m_entries' = [m_entries EXCEPT ![newIndex] =
           [m_nextFreeIndex |-> 0, m_counter |-> counter, m_active |-> TRUE,
            m_endOfList |-> e.m_endOfList, m_entry |-> p]]
      /\ m_activeEntryCount' = m_activeEntryCount + 1
      /\ freeList' = IF freeList = <<>> THEN <<>> ELSE Tail(freeList)
      /\ issued' = [issued EXCEPT ![newIndex] = Append(@, counter)]
      /\ UNCHANGED <<handler, halted>>

(* Get succeeds on the handle; Update and Remove assert the same. *)
Resolves(h) ==
  /\ m_entries[h.m_index].m_counter = h.m_counter
  /\ m_entries[h.m_index].m_active

Get(h) == IF Resolves(h) THEN m_entries[h.m_index].m_entry ELSE NULL

Update(h, p) ==
  /\ Proceeds(Resolves(h))
  /\ m_entries' = [m_entries EXCEPT ![h.m_index] =
       [m_nextFreeIndex |-> @.m_nextFreeIndex, m_counter |-> @.m_counter,
        m_active |-> @.m_active, m_endOfList |-> @.m_endOfList, m_entry |-> p]]
  /\ UNCHANGED <<m_activeEntryCount, m_firstFreeEntry, handler, halted, history>>

(* Remove that moves the head of the free list before it links the entry. *)
BugRemoveLinksToItself(h) ==
  /\ Proceeds(Resolves(h))
  /\ m_entries' = [m_entries EXCEPT ![h.m_index].m_nextFreeIndex = h.m_index,
                                    ![h.m_index].m_active = FALSE]
  /\ m_firstFreeEntry' = h.m_index
  /\ m_activeEntryCount' = m_activeEntryCount - 1
  /\ freeList' = <<h.m_index>> \o freeList
  /\ UNCHANGED <<handler, halted, issued>>

Remove(h) ==
  /\ Proceeds(Resolves(h))
  /\ m_activeEntryCount > - MaxBelowZero
  /\ m_entries' = [m_entries EXCEPT ![h.m_index] =
       [m_nextFreeIndex |-> m_firstFreeEntry, m_counter |-> @.m_counter,
        m_active |-> FALSE, m_endOfList |-> @.m_endOfList,
        m_entry |-> @.m_entry]]
  /\ m_firstFreeEntry' = h.m_index
  /\ m_activeEntryCount' = m_activeEntryCount - 1
  /\ freeList' = <<h.m_index>> \o freeList
  /\ UNCHANGED <<handler, halted, issued>>

Next ==
  \/ Reset
  \/ \E h \in Handlers : SetHandler(h)
  \/ \E p \in Pointers, t \in Types : Add(p, t)
  \/ \E t \in Types : Asserts(AddOk(t))
  \/ \E h \in Handle, p \in Pointers : Update(h, p)
  \/ \E h \in Handle : Remove(h)
  \/ \E h \in Handle : Asserts(Resolves(h))

Spec == Init /\ [][Next]_vars

-----------------------------------------------------------------------------
(* Properties. *)

Entries(s) == { s[k] : k \in 1 .. Len(s) }
Active == { i \in Index : m_entries[i].m_active }
LastIssued(i) == IF issued[i] = <<>> THEN 1 ELSE issued[i][Len(issued[i])]

(* Every field keeps its bit-field's range; no issued counter is 0.        *)
TypeOK ==
  /\ m_entries \in [Index -> HandleEntry]
  /\ m_activeEntryCount \in Int
  /\ m_firstFreeEntry \in Index
  /\ handler \in Handlers
  /\ halted \in BOOLEAN
  /\ freeList \in Seq(Index)
  /\ issued \in [Index -> Seq(Counter \ {0})]

(* The links in the entries thread exactly the entries that are not in     *)
(* use, each once, in the order they will be reused, and end in the one    *)
(* entry marked m_endOfList, which is therefore never handed out.          *)
FreeListInv ==
  /\ freeList # <<>>
  /\ m_firstFreeEntry = freeList[1]
  /\ \A k \in 1 .. Len(freeList) - 1 :
        m_entries[freeList[k]].m_nextFreeIndex = freeList[k + 1]
  /\ \A j, k \in 1 .. Len(freeList) : freeList[j] = freeList[k] => j = k
  /\ \A i \in Index : m_entries[i].m_active <=> i \notin Entries(freeList)
  /\ freeList[Len(freeList)] = MaxEntries - 1
  /\ \A i \in Index : m_entries[i].m_endOfList <=> i = MaxEntries - 1

(* GetCount is the number of handles that resolve, and no entry is lost:   *)
(* each one is in use or on the free list.                                 *)
CountInv ==
  /\ m_activeEntryCount = Cardinality(Active)
  /\ m_activeEntryCount + Len(freeList) = MaxEntries

(* The assertions of Add after the first two are redundant: with a valid   *)
(* type, Add asserts exactly when MaxEntries - 1 handles are live.         *)
AddAssertsOnlyWhenFull ==
  \A t \in Types \cap (0 .. MaxType) :
    AddOk(t) <=> Cardinality(Active) < MaxEntries - 1

(* A handle that was removed does not resolve again until its entry has    *)
(* been handed out CounterMod - 1 more times; below that, a handle         *)
(* resolves only if it is the last one issued for its entry.               *)
StaleHandleRejected ==
  \A i \in Index : \A u \in 1 .. Len(issued[i]) :
    Resolves([m_index |-> i, m_counter |-> issued[i][u]]) =>
      \/ u = Len(issued[i])
      \/ Len(issued[i]) - u >= CounterMod - 1

(* A handle the default constructor made (counter 0) never resolves,       *)
(* however often the counters wrap.                                        *)
NullHandleRejected ==
  \A i \in Index : ~Resolves([m_index |-> i, m_counter |-> 0])

(* As integers, the handles Add returns are never 0, which is what a       *)
(* default-constructed one converts to, and tell each other apart.         *)
IssuedHandles ==
  UNION { { [m_index |-> i, m_counter |-> c] : c \in Entries(issued[i]) } : i \in Index }
IssuedWordsDistinct ==
  LET Typed == IssuedHandles \X (Types \cap (0 .. MaxType))
  IN  /\ \A x \in Typed : Word(x[1], x[2]) # 0
      /\ \A x, y \in Typed : Word(x[1], x[2]) = Word(y[1], y[2]) => x = y

(* The table of values that can be read through handles changes only as    *)
(* HandleTable says: one key per Add, Update or Remove, all of them in     *)
(* Reset, and never under a key that is in use.                            *)
Live == [h \in {x \in Handle : Resolves(x)} |-> Get(h)]
Table == INSTANCE HandleTable WITH Key <- Handle, Value <- Pointers, live <- Live
ImplementsTable == Table!Spec
=============================================================================
