-------------------------- MODULE MemoryOutStream --------------------------
(***************************************************************************)
(* MemoryOutStream with UNITTEST_USE_CUSTOM_STREAMS: text in a buffer that *)
(* grows by chunks.  A text is known by its length.                        *)
(***************************************************************************)
EXTENDS Integers

CONSTANTS
  GROW_CHUNK_SIZE,  (* 32                                                  *)
  InitialSize,      (* 256, the default of the constructor                 *)
  NumberSize,       (* 32, the bytes numbers are formatted in              *)
  MaxText           (* bound: the length of the stream's text              *)

(* A buffer of no bytes would not hold the NUL the constructor writes.     *)
ASSUME StreamAssumption ==
  /\ GROW_CHUNK_SIZE \in Nat \ {0} /\ InitialSize \in Nat \ {0}
  /\ NumberSize \in Nat /\ MaxText \in Nat

VARIABLES
  m_capacity,
  m_buffer          (* strlen(m_buffer)                                    *)

streamVars == <<m_capacity, m_buffer>>

RoundUpToMultipleOfPow2Number(n) ==
  ((n + GROW_CHUNK_SIZE - 1) \div GROW_CHUNK_SIZE) * GROW_CHUNK_SIZE

(* The new buffer takes over the text of the old one. *)
GrowBuffer(desiredCapacity) ==
  m_capacity' = RoundUpToMultipleOfPow2Number(desiredCapacity)

StreamInit ==
  /\ m_capacity = RoundUpToMultipleOfPow2Number(InitialSize)
  /\ m_buffer = 0

BugNoRoomForNul(txt) == txt
bytesRequired(txt) == txt + 1

Write(txt) ==
  LET bytesLeft == m_capacity - m_buffer
  IN  /\ m_buffer + txt <= MaxText
      /\ IF bytesRequired(txt) > bytesLeft
         THEN GrowBuffer(bytesRequired(txt) + m_capacity - bytesLeft)
         ELSE UNCHANGED m_capacity
      /\ m_buffer' = m_buffer + txt

(* A number is formatted first, and its text has to fit there. *)
WriteNumber(txt) == txt < NumberSize /\ Write(txt)

StreamNext == \E txt \in 0 .. MaxText : Write(txt) \/ WriteNumber(txt)

-----------------------------------------------------------------------------
(* The buffer always has room for the text and its NUL, and is never more  *)
(* than a chunk larger than what it had to hold at first or has to now.    *)
TextFits ==
  /\ m_buffer + 1 <= m_capacity
  /\ m_capacity % GROW_CHUNK_SIZE = 0
  /\ m_capacity < GROW_CHUNK_SIZE + (IF m_buffer + 1 > InitialSize THEN m_buffer + 1 ELSE InitialSize)
=============================================================================
