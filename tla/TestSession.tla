---------------------------- MODULE TestSession ----------------------------
(***************************************************************************)
(* What running a program's tests promises: of the registered tests those  *)
(* that are wanted run, each once and in the order of registration, and    *)
(* each is found to have failed or not.  A test may end the program.       *)
(***************************************************************************)
EXTENDS Integers, Sequences

CONSTANT Tests

VARIABLES
  status,      (* "registering", "running", "ended" or "aborted"           *)
  registered,
  todo,        (* the wanted tests that are still to finish, each by its   *)
               (* place among the registered ones                          *)
  outcomes,    (* of the tests that have finished: [test, failed]          *)
  passed       (* whether the session ended without a failure              *)

vars == <<status, registered, todo, outcomes, passed>>

Init ==
  /\ status = "registering"
  /\ registered = <<>> /\ todo = {} /\ outcomes = <<>>
  /\ passed = FALSE

Register(t) ==
  /\ status = "registering"
  /\ \A i \in DOMAIN registered : registered[i] # t
  /\ registered' = Append(registered, t)
  /\ UNCHANGED <<status, todo, outcomes, passed>>

Start(wanted) ==
  /\ status = "registering"
  /\ status' = "running"
  /\ todo' = {i \in DOMAIN registered : registered[i] \in wanted}
  /\ UNCHANGED <<registered, outcomes, passed>>

Run(i, failed) ==
  /\ status = "running" /\ \A j \in todo : i <= j
  /\ outcomes' = Append(outcomes, [test |-> registered[i], failed |-> failed])
  /\ todo' = todo \ {i}
  /\ UNCHANGED <<status, registered, passed>>

Abort ==
  /\ status = "running" /\ todo # {}
  /\ status' = "aborted"
  /\ UNCHANGED <<registered, todo, outcomes, passed>>

End ==
  /\ status = "running" /\ todo = {}
  /\ status' = "ended"
  /\ passed' = \A i \in DOMAIN outcomes : ~outcomes[i].failed
  /\ UNCHANGED <<registered, todo, outcomes>>

Next ==
  \/ \E t \in Tests : Register(t)
  \/ \E wanted \in SUBSET Tests : Start(wanted)
  \/ \E i \in todo, failed \in BOOLEAN : Run(i, failed)
  \/ Abort
  \/ End

Spec == Init /\ [][Next]_vars
=============================================================================
