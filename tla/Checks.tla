------------------------------- MODULE Checks -------------------------------
(***************************************************************************)
(* The checks of UnitTest++: for the arguments of a check, whether it      *)
(* reports a failure.  An argument that Throws is an expression that ends  *)
(* with an exception when the macro evaluates it.                          *)
(*                                                                         *)
(* Arithmetic is that of the arguments' type: exact for the signed and     *)
(* floating-point ones as long as they neither overflow nor round, modulo  *)
(* WordMod for the unsigned ones.                                          *)
(***************************************************************************)
EXTENDS Integers

CONSTANTS
  WordMod,   (* 2^w, the range of an unsigned type                         *)
  Throws

ASSUME ChecksAssumption == WordMod \in Nat \ {0} /\ Throws \notin Int

Kinds == {"exact", "unsigned"}
In(kind, n) == IF kind = "unsigned" THEN n % WordMod ELSE n

-----------------------------------------------------------------------------
(* Checks.h, Checks.cpp. *)

Check(value) == value # 0

CheckEqual(expected, actual) == expected # actual

(* C strings are equal if their characters are; two pointers need not be.  *)
CheckStringsEqual(expected, actual) == expected.text # actual.text

(* Definitions named Bug... are what the one they precede could have been  *)
(* by mistake: the properties are tested against them.                     *)
BugAreCloseByDifference(kind, expected, actual, tolerance) ==
  In(kind, expected - actual) <= tolerance

AreClose(kind, expected, actual, tolerance) ==
  /\ actual >= In(kind, expected - tolerance)
  /\ actual <= In(kind, expected + tolerance)

CheckClose(kind, expected, actual, tolerance) == ~AreClose(kind, expected, actual, tolerance)

(* Arrays are indexed from 0.  Every element is compared, and none beyond  *)
(* the count.                                                              *)
CheckArrayEqual(expected, actual, count) ==
  \E i \in 0 .. count - 1 : expected[i] # actual[i]

ArrayAreClose(kind, expected, actual, count, tolerance) ==
  \A i \in 0 .. count - 1 : AreClose(kind, expected[i], actual[i], tolerance)

CheckArrayClose(kind, expected, actual, count, tolerance) ==
  ~ArrayAreClose(kind, expected, actual, count, tolerance)

CheckArray2DClose(kind, expected, actual, rows, columns, tolerance) ==
  \E i \in 0 .. rows - 1 : ~ArrayAreClose(kind, expected[i], actual[i], columns, tolerance)

-----------------------------------------------------------------------------
(* CheckMacros.h: an exception in an argument is a failure of its own, and *)
(* does not leave the macro.                                               *)

CHECK(value) == value = Throws \/ ~Check(value)

CHECK_EQUAL(expected, actual) ==
  Throws \in {expected, actual} \/ CheckEqual(expected, actual)

CHECK_CLOSE(kind, expected, actual, tolerance) ==
  Throws \in {expected, actual, tolerance} \/ CheckClose(kind, expected, actual, tolerance)

CHECK_ARRAY_EQUAL(expected, actual, count) ==
  Throws \in {expected, actual, count} \/ CheckArrayEqual(expected, actual, count)

CHECK_ARRAY_CLOSE(kind, expected, actual, count, tolerance) ==
  \/ Throws \in {expected, actual, count, tolerance}
  \/ CheckArrayClose(kind, expected, actual, count, tolerance)

CHECK_ARRAY2D_CLOSE(kind, expected, actual, rows, columns, tolerance) ==
  \/ Throws \in {expected, actual, rows, columns, tolerance}
  \/ CheckArray2DClose(kind, expected, actual, rows, columns, tolerance)

(* A type catches itself and what derives from it, "..." everything.       *)
Exceptions == {"AssertException", "std::exception", "other"}
BugCatchesTypesOnly(type, thrown) ==
  type = thrown \/ (type = "std::exception" /\ thrown = "AssertException")
Catches(type, thrown) ==
  type \in {thrown, "..."} \/ (type = "std::exception" /\ thrown = "AssertException")

(* `thrown' is an exception, or "nothing".                                 *)
CHECK_THROW(thrown, ExpectedExceptionType) == ~Catches(ExpectedExceptionType, thrown)
CHECK_ASSERT(thrown) == CHECK_THROW(thrown, "AssertException")
=============================================================================
