------------------------ MODULE HandleManagerResets ------------------------
(***************************************************************************)
(* HandleManager together with the handles its clients still hold from     *)
(* before a Reset.  Reset puts every counter back to 1, so it is not a     *)
(* step of the generational scheme: the same entries are handed out again  *)
(* with the same counters.                                                 *)
(***************************************************************************)
EXTENDS HandleManager

VARIABLE orphans   (* history: the handles that were live when a Reset ran *)

ResetsInit == Init /\ orphans = {}

ResetOrphans == Reset /\ orphans' = orphans \cup DOMAIN Live

ResetsNext ==
  \/ ResetOrphans
  \/ \E p \in Pointers, t \in Types : Add(p, t) /\ UNCHANGED orphans
  \/ \E h \in Handle, p \in Pointers : Update(h, p) /\ UNCHANGED orphans
  \/ \E h \in Handle : Remove(h) /\ UNCHANGED orphans

ResetsSpec == ResetsInit /\ [][ResetsNext]_<<vars, orphans>>

(* "ResetRemovesAllHandles" (TestHandleManager.cpp:228): a handle that was *)
(* live when Reset ran does not resolve any more.                          *)
ResetRemovesAllHandles == \A h \in orphans : ~Resolves(h)
=============================================================================
