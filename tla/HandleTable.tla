---------------------------- MODULE HandleTable ----------------------------
(***************************************************************************)
(* What a table of generational handles promises its clients: a partial    *)
(* map from the handles that are in use to the values stored under them.   *)
(* A key handed out is never one that is still in use, an operation on one *)
(* key leaves every other key alone, and nothing else ever changes the     *)
(* map: compaction, growth and free-list surgery are invisible.            *)
(*                                                                         *)
(* HandleManager (pow2), SparseSet (ObjectPooling) and FreeStore implement *)
(* it.                                                                     *)
(***************************************************************************)

CONSTANTS
  Key,      (* every handle the table can hand out *)
  Value     (* every value a client can store      *)

VARIABLE live    (* the map, a function whose domain is a subset of Key *)

(* live maps keys to values. *)
TypeOK == live \in UNION { [K -> Value] : K \in SUBSET Key }

Empty == [k \in {} |-> CHOOSE v \in Value : TRUE]

Init == live = Empty

(* A new value is stored under a key that is not in use. *)
Insert(k, v) ==
  /\ k \notin DOMAIN live
  /\ live' = [x \in DOMAIN live \cup {k} |-> IF x = k THEN v ELSE live[x]]

(* The value under a key in use is replaced. *)
Assign(k, v) ==
  /\ k \in DOMAIN live
  /\ live' = [live EXCEPT ![k] = v]

(* A key in use is given back. *)
Delete(k) ==
  /\ k \in DOMAIN live
  /\ live' = [x \in DOMAIN live \ {k} |-> live[x]]

(* All keys are given back at once. *)
DeleteAll == live' = Empty

Next ==
  \/ \E k \in Key, v \in Value : Insert(k, v) \/ Assign(k, v)
  \/ \E k \in Key : Delete(k)
  \/ DeleteAll

Spec == Init /\ [][Next]_live
=============================================================================
