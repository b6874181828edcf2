------------------------------- MODULE Facts -------------------------------
(***************************************************************************)
(* Facts the proofs share: about arithmetic with a divisor that is not     *)
(* known, and about sequences used as stacks and free lists.               *)
(***************************************************************************)
EXTENDS Integers, Sequences, FiniteSetTheorems, TLAPS

-----------------------------------------------------------------------------
(* Arithmetic. *)

(* The quotient and the remainder of a division make up the dividend.      *)
LEMMA Division ==
  ASSUME NEW a \in Nat, NEW b \in Nat \ {0}
  PROVE  /\ a \div b \in Nat /\ a % b \in 0 .. b - 1
         /\ a = b * (a \div b) + (a % b)
  OBVIOUS

(* A product grows with its factor.                                        *)
LEMMA ProductMonotone ==
  ASSUME NEW x \in Nat, NEW y \in Nat, NEW b \in Nat, x <= y
  PROVE  x * b <= y * b /\ x * b \in Nat /\ y * b \in Nat
<1>1. \A z \in Nat : z * b \in Nat
  OBVIOUS
<1>2. y - x \in Nat /\ y * b = x * b + (y - x) * b
  OBVIOUS
<1> QED
  BY <1>1, <1>2

(* A multiple leaves no remainder.                                         *)
LEMMA ProductDivides ==
  ASSUME NEW k \in Nat, NEW b \in Nat \ {0}
  PROVE  (k * b) % b = 0
<1> DEFINE a == k * b
           d == a \div b
           r == a % b
<1>1. a \in Nat
  BY ProductMonotone
<1>2. d \in Nat /\ r \in 0 .. b - 1 /\ a = b * d + r
  BY <1>1, Division
<1>3. CASE k >= d + 1
  <2>1. (d + 1) * b <= k * b
    BY <1>2, <1>3, ProductMonotone
  <2>2. (d + 1) * b = b * d + b
    BY <1>2
  <2>3. b * d \in Nat
    BY <1>2, ProductMonotone
  <2> HIDE DEF d, r
  <2>4. b * d + b <= b * d + r
    BY <1>2, <2>1, <2>2
  <2> QED
    BY <1>2, <2>3, <2>4
<1>4. CASE d >= k
  <2>1. k * b <= d * b
    BY <1>2, <1>4, ProductMonotone
  <2>2. d * b = b * d /\ b * d \in Nat
    BY <1>2, ProductMonotone
  <2> HIDE DEF d, r
  <2> QED
    BY <1>1, <1>2, <2>1, <2>2
<1> QED
  BY <1>2, <1>3, <1>4

(* A number in a mixed radix determines its digits.                        *)
LEMMA RadixUnique ==
  ASSUME NEW b \in Nat \ {0}, NEW x \in Nat, NEW y \in Nat,
         NEW r \in 0 .. b - 1, NEW q \in 0 .. b - 1,
         x * b + r = y * b + q
  PROVE  x = y /\ r = q
<1>1. ASSUME NEW m \in Nat, NEW n \in Nat, m < n,
             NEW u \in 0 .. b - 1, NEW v \in 0 .. b - 1
      PROVE  m * b + u # n * b + v
  <2>1. (m + 1) * b <= n * b /\ n * b \in Nat
    BY <1>1, ProductMonotone
  <2>2. (m + 1) * b = m * b + b /\ m * b \in Nat
    BY ProductMonotone
  <2> QED
    BY <2>1, <2>2
<1>2. ~(x < y) /\ ~(y < x)
  BY <1>1
<1>3. x = y
  BY <1>2
<1> QED
  BY <1>3, ProductMonotone

(* There are k numbers below k.                                            *)
LEMMA CountedBelow ==
  ASSUME NEW k \in Nat
  PROVE  IsFiniteSet(0 .. k - 1) /\ Cardinality(0 .. k - 1) = k
<1>1. k = 0 => 0 > k - 1
  OBVIOUS
<1>2. k # 0 => ~(0 > k - 1) /\ (k - 1) - 0 + 1 = k
  OBVIOUS
<1> QED
  BY <1>1, <1>2, FS_Interval

-----------------------------------------------------------------------------
(* Sequences. *)

(* Taking the first element off a sequence shifts the others down.         *)
LEMMA TailShifts ==
  ASSUME NEW S, NEW s \in Seq(S), s # <<>>
  PROVE  /\ Tail(s) \in Seq(S)
         /\ Len(s) \in Nat /\ Len(s) >= 1
         /\ Len(Tail(s)) = Len(s) - 1
         /\ \A k \in 1 .. Len(s) - 1 : Tail(s)[k] = s[k + 1]
  OBVIOUS

(* Putting an element in front of a sequence shifts the others up.         *)
LEMMA ConsShifts ==
  ASSUME NEW S, NEW s \in Seq(S), NEW x \in S
  PROVE  /\ <<x>> \o s \in Seq(S)
         /\ Len(s) \in Nat
         /\ Len(<<x>> \o s) = Len(s) + 1
         /\ (<<x>> \o s)[1] = x
         /\ \A k \in 2 .. Len(s) + 1 : (<<x>> \o s)[k] = s[k - 1]
  OBVIOUS

(* Putting an element behind a sequence leaves the others where they are.  *)
LEMMA AppendKeeps ==
  ASSUME NEW S, NEW s \in Seq(S), NEW x \in S
  PROVE  /\ Append(s, x) \in Seq(S) /\ Append(s, x) # <<>>
         /\ Len(s) \in Nat /\ Len(Append(s, x)) = Len(s) + 1
         /\ DOMAIN s = 1 .. Len(s) /\ DOMAIN Append(s, x) = 1 .. Len(s) + 1
         /\ \A k \in DOMAIN s : Append(s, x)[k] = s[k]
         /\ Append(s, x)[Len(s) + 1] = x
  OBVIOUS

(* The positions at which a sequence has an element of a set.              *)
LEMMA AppendCounted ==
  ASSUME NEW S, NEW s \in Seq(S), NEW x \in S, NEW T
  PROVE  LET at(t) == {k \in DOMAIN t : t[k] \in T}
         IN  /\ Cardinality(at(s)) \in Nat
             /\ x \in T => Cardinality(at(Append(s, x))) = Cardinality(at(s)) + 1
             /\ x \notin T => Cardinality(at(Append(s, x))) = Cardinality(at(s))
<1> DEFINE t == Append(s, x)
           n == Len(s)
           A == {k \in DOMAIN s : s[k] \in T}
           B == {k \in DOMAIN t : t[k] \in T}
<1>1. /\ n \in Nat /\ DOMAIN s = 1 .. n /\ DOMAIN t = 1 .. n + 1
      /\ \A k \in DOMAIN s : t[k] = s[k]
      /\ t[n + 1] = x
  BY AppendKeeps
<1> HIDE DEF t, n
<1>2. DOMAIN t = DOMAIN s \cup {n + 1} /\ n + 1 \notin DOMAIN s
  BY <1>1
<1>3. IsFiniteSet(A) /\ Cardinality(A) \in Nat
  <2>1. IsFiniteSet(DOMAIN s)
    BY <1>1, FS_Interval
  <2> QED
    BY <2>1, FS_Subset, FS_CardinalityType
<1>4. x \in T => B = A \cup {n + 1} /\ n + 1 \notin A
  BY <1>1, <1>2
<1>5. x \notin T => B = A
  BY <1>1, <1>2
<1> HIDE DEF A, B
<1>6. x \in T => Cardinality(B) = Cardinality(A) + 1
  BY <1>3, <1>4, FS_AddElement
<1> QED
  BY <1>3, <1>5, <1>6 DEF A, B, t

Elements(s) == { s[k] : k \in 1 .. Len(s) }
Distinct(s) == \A j, k \in 1 .. Len(s) : s[j] = s[k] => j = k

(* A sequence without repetitions has as many elements as it is long.      *)
LEMMA DistinctCounted ==
  ASSUME NEW S, NEW s \in Seq(S), Distinct(s)
  PROVE  Cardinality(Elements(s)) = Len(s)
<1>1. Len(s) \in Nat
  OBVIOUS
<1>2. s \in [1 .. Len(s) -> Elements(s)]
  <2>1. s \in [1 .. Len(s) -> S]
    OBVIOUS
  <2>2. \A k \in 1 .. Len(s) : s[k] \in Elements(s)
    BY DEF Elements
  <2> QED
    BY <2>1, <2>2
<1>3. s \in Bijection(1 .. Len(s), Elements(s))
  BY <1>2 DEF Bijection, Injection, IsInjective, Surjection, Distinct, Elements
<1>4. ExistsBijection(1 .. Len(s), Elements(s))
  BY <1>3 DEF ExistsBijection
<1> QED
  BY <1>1, <1>4, FS_CountingElements

(* What becomes of the elements when one leaves at the front.              *)
LEMMA TailElements ==
  ASSUME NEW S, NEW s \in Seq(S), s # <<>>, Distinct(s)
  PROVE  /\ Elements(Tail(s)) = Elements(s) \ {s[1]}
         /\ Distinct(Tail(s))
<1>1. /\ Len(s) \in Nat /\ Len(s) >= 1 /\ Len(Tail(s)) = Len(s) - 1
      /\ \A k \in 1 .. Len(s) - 1 : Tail(s)[k] = s[k + 1]
  BY TailShifts
<1>2. Distinct(Tail(s))
  BY <1>1 DEF Distinct
<1>3. ASSUME NEW x \in Elements(Tail(s))
      PROVE  x \in Elements(s) \ {s[1]}
  BY <1>1 DEF Elements, Distinct
<1>4. ASSUME NEW x \in Elements(s) \ {s[1]}
      PROVE  x \in Elements(Tail(s))
  <2>1. PICK k \in 1 .. Len(s) : x = s[k] /\ k # 1
    BY <1>1 DEF Elements
  <2>2. k - 1 \in 1 .. Len(Tail(s)) /\ Tail(s)[k - 1] = x
    BY <1>1, <2>1
  <2> QED
    BY <2>2 DEF Elements
<1> QED
  BY <1>2, <1>3, <1>4

(* What becomes of the elements when one is put in front.                  *)
LEMMA ConsElements ==
  ASSUME NEW S, NEW s \in Seq(S), NEW x \in S, Distinct(s), x \notin Elements(s)
  PROVE  /\ Elements(<<x>> \o s) = Elements(s) \cup {x}
         /\ Distinct(<<x>> \o s)
<1> DEFINE t == <<x>> \o s
<1>1. /\ Len(s) \in Nat /\ Len(t) = Len(s) + 1 /\ t[1] = x
      /\ \A k \in 2 .. Len(s) + 1 : t[k] = s[k - 1]
  BY ConsShifts
<1> HIDE DEF t
<1>2. \A k \in 2 .. Len(t) : t[k] \in Elements(s)
  BY <1>1 DEF Elements
<1>3. Distinct(t)
  <2> SUFFICES ASSUME NEW j \in 1 .. Len(t), NEW k \in 1 .. Len(t), t[j] = t[k]
               PROVE  j = k
    BY DEF Distinct
  <2>1. CASE j = 1 \/ k = 1
    BY <1>1, <1>2, <2>1
  <2>2. CASE j # 1 /\ k # 1
    <3>1. j - 1 \in 1 .. Len(s) /\ k - 1 \in 1 .. Len(s) /\ s[j - 1] = s[k - 1]
      BY <1>1, <2>2
    <3>2. j - 1 = k - 1
      BY <3>1 DEF Distinct
    <3> QED
      BY <1>1, <3>2
  <2> QED
    BY <2>1, <2>2
<1>4. ASSUME NEW y \in Elements(s)
      PROVE  y \in Elements(t)
  <2>1. PICK k \in 1 .. Len(s) : y = s[k]
    BY DEF Elements
  <2>2. k + 1 \in 1 .. Len(t) /\ t[k + 1] = y
    BY <1>1, <2>1
  <2> QED
    BY <2>2 DEF Elements
<1>5. x \in Elements(t)
  BY <1>1 DEF Elements
<1>6. ASSUME NEW y \in Elements(t)
      PROVE  y \in Elements(s) \cup {x}
  BY <1>1, <1>2 DEF Elements
<1>7. Elements(t) = Elements(s) \cup {x} /\ Distinct(t)
  BY <1>3, <1>4, <1>5, <1>6
<1> QED
  BY <1>7 DEF t
=============================================================================
