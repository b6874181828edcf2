------------------------- MODULE TestSessionProofs -------------------------
(***************************************************************************)
(* What a session reports: the XML report has what was printed.            *)
(***************************************************************************)
EXTENDS TestRunnerProofs, WellFoundedInduction

-----------------------------------------------------------------------------
(* Induction: a set of natural numbers has a least element.                *)
LEMMA Least ==
  ASSUME NEW T, T \subseteq Nat, T # {}
  PROVE  \E x \in T : \A y \in T : x <= y
<1> DEFINE R == {p \in Nat \X Nat : p[1] < p[2]}
<1>1. IsWellFoundedOn(R, Nat)
  BY NatLessThanWellFounded DEF OpToRel
<1>2. PICK x \in T : \A y \in T : ~(<<y, x>> \in R)
  BY <1>1, WFMin
<1>3. \A y \in T : ~(y < x)
  BY <1>2
<1> QED
  BY <1>2, <1>3

-----------------------------------------------------------------------------
(* FlattenSeq, by induction over the sequences it joins.                   *)
IsFlat(f, s) == f = [i \in 1 .. Len(s) |-> IF i = 1 THEN s[i] ELSE f[i - 1] \o s[i]]

LEMMA FlatStart ==
  ASSUME NEW S, NEW s \in Seq(Seq(S)), NEW x \in Seq(S), NEW f, IsFlat(f, s)
  PROVE  \E g : IsFlat(g, Append(s, x))
<1> DEFINE n == Len(s)
           t == Append(s, x)
           g == [i \in 1 .. n + 1 |->
                  IF i = n + 1 THEN (IF i = 1 THEN x ELSE f[n] \o x) ELSE f[i]]
<1>1. /\ n \in Nat /\ Len(t) = n + 1 /\ t[n + 1] = x
      /\ \A i \in 1 .. n : t[i] = s[i]
  BY AppendKeeps
<1>2. \A i \in 1 .. n : f[i] = IF i = 1 THEN s[i] ELSE f[i - 1] \o s[i]
  BY DEF IsFlat
<1> HIDE DEF t, n
<1>3. ASSUME NEW i \in 1 .. n + 1
      PROVE  g[i] = IF i = 1 THEN t[i] ELSE g[i - 1] \o t[i]
  <2>1. CASE i = n + 1
    BY <1>1, <2>1
  <2>2. CASE i # n + 1
    <3>1. i \in 1 .. n /\ g[i] = f[i] /\ t[i] = s[i]
      BY <1>1, <2>2
    <3>2. i # 1 => i - 1 \in 1 .. n /\ i - 1 # n + 1 /\ i - 1 \in 1 .. n + 1
      BY <1>1, <3>1
    <3>3. i # 1 => g[i - 1] = f[i - 1]
      BY <3>2
    <3> QED
      BY <1>2, <3>1, <3>3
  <2> QED
    BY <2>1, <2>2
<1>4. g = [i \in 1 .. n + 1 |-> IF i = 1 THEN t[i] ELSE g[i - 1] \o t[i]]
  BY <1>3
<1>5. IsFlat(g, t)
  BY <1>1, <1>4 DEF IsFlat
<1> QED
  BY <1>5 DEF t

LEMMA FlatExists ==
  ASSUME NEW S, NEW s \in Seq(Seq(S))
  PROVE  \E f : IsFlat(f, s)
<1> DEFINE T == {n \in Nat : \E t \in Seq(Seq(S)) : Len(t) = n /\ ~\E f : IsFlat(f, t)}
<1>1. SUFFICES ASSUME T # {}
               PROVE  FALSE
  BY <1>1
<1>2. PICK n \in T : \A m \in T : n <= m
  BY <1>1, Least
<1>3. PICK t \in Seq(Seq(S)) : Len(t) = n /\ ~\E f : IsFlat(f, t)
  BY <1>2
<1>4. n # 0
  <2>1. ASSUME n = 0
        PROVE  IsFlat(<<>>, t)
    BY <1>3, <2>1 DEF IsFlat
  <2> QED
    BY <1>3, <2>1
<1>5. PICK u \in Seq(Seq(S)), x \in Seq(S) : t = Append(u, x) /\ Len(u) = n - 1
  <2> DEFINE u == SubSeq(t, 1, n - 1)
  <2>1. n \in Nat \ {0} /\ n - 1 \in Nat
    BY <1>2, <1>4
  <2>2. /\ u \in Seq(Seq(S)) /\ Len(u) = n - 1
        /\ \A i \in 1 .. n - 1 : u[i] = t[i]
        /\ t[n] \in Seq(S)
    BY <1>3, <2>1
  <2>3. t = Append(u, t[n])
    BY <1>3, <2>1, <2>2
  <2> QED
    BY <2>2, <2>3
<1>6. n - 1 \in Nat /\ n - 1 \notin T
  BY <1>2, <1>4
<1>7. \E f : IsFlat(f, u)
  BY <1>5, <1>6
<1> QED
  BY <1>3, <1>5, <1>7, FlatStart

(* There is only one, and it joins sequences to a sequence.                *)
LEMMA FlatUnique ==
  ASSUME NEW s, Len(s) \in Nat, NEW f, IsFlat(f, s), NEW g, IsFlat(g, s)
  PROVE  \A i \in 1 .. Len(s) : f[i] = g[i]
<1> DEFINE T == {i \in 1 .. Len(s) : f[i] # g[i]}
<1>1. SUFFICES ASSUME T # {}
               PROVE  FALSE
  BY <1>1
<1>2. T \subseteq Nat
  OBVIOUS
<1>3. PICK i \in T : \A j \in T : i <= j
  BY <1>1, <1>2, Least
<1>4. /\ f[i] = IF i = 1 THEN s[i] ELSE f[i - 1] \o s[i]
      /\ g[i] = IF i = 1 THEN s[i] ELSE g[i - 1] \o s[i]
  BY <1>3 DEF IsFlat
<1>5. i # 1 => i - 1 \in 1 .. Len(s) /\ i - 1 \notin T
  BY <1>3
<1>6. i # 1 => f[i - 1] = g[i - 1]
  BY <1>5
<1> QED
  BY <1>3, <1>4, <1>6

LEMMA FlatType ==
  ASSUME NEW S, NEW s \in Seq(Seq(S)), NEW f, IsFlat(f, s)
  PROVE  \A i \in 1 .. Len(s) : f[i] \in Seq(S)
<1> DEFINE T == {i \in 1 .. Len(s) : f[i] \notin Seq(S)}
<1>1. SUFFICES ASSUME T # {}
               PROVE  FALSE
  BY <1>1
<1>2. T \subseteq Nat
  OBVIOUS
<1>3. PICK i \in T : \A j \in T : i <= j
  BY <1>1, <1>2, Least
<1>4. f[i] = IF i = 1 THEN s[i] ELSE f[i - 1] \o s[i]
  BY <1>3 DEF IsFlat
<1>5. i # 1 => i - 1 \in 1 .. Len(s) /\ i - 1 \notin T
  BY <1>3
<1>6. s[i] \in Seq(S) /\ (i # 1 => f[i - 1] \in Seq(S))
  BY <1>3, <1>5
<1>7. \A a \in Seq(S), b \in Seq(S) : a \o b \in Seq(S)
  OBVIOUS
<1>8. f[i] \in Seq(S)
  BY <1>4, <1>6, <1>7
<1> QED
  BY <1>3, <1>8

LEMMA FlatPrefix ==
  ASSUME NEW S, NEW s \in Seq(Seq(S)), NEW x \in Seq(S), NEW f, IsFlat(f, Append(s, x))
  PROVE  IsFlat([i \in 1 .. Len(s) |-> f[i]], s)
<1> DEFINE n == Len(s)
           t == Append(s, x)
           g == [i \in 1 .. n |-> f[i]]
<1>1. /\ n \in Nat /\ Len(t) = n + 1
      /\ \A i \in 1 .. n : t[i] = s[i]
  BY AppendKeeps
<1>2. \A i \in 1 .. n + 1 : f[i] = IF i = 1 THEN t[i] ELSE f[i - 1] \o t[i]
  BY <1>1 DEF IsFlat
<1> HIDE DEF t, n
<1>3. ASSUME NEW i \in 1 .. n
      PROVE  g[i] = IF i = 1 THEN s[i] ELSE g[i - 1] \o s[i]
  <2>1. i \in 1 .. n + 1 /\ (i # 1 => i - 1 \in 1 .. n)
    BY <1>1
  <2>2. g[i] = f[i] /\ (i # 1 => g[i - 1] = f[i - 1])
    BY <2>1
  <2> QED
    BY <1>1, <1>2, <2>1, <2>2
<1>4. g = [i \in 1 .. n |-> IF i = 1 THEN s[i] ELSE g[i - 1] \o s[i]]
  BY <1>3
<1> QED
  BY <1>4 DEF IsFlat, n

LEMMA FlattenSeqDef ==
  ASSUME NEW s, Len(s) # 0
  PROVE  FlattenSeq(s) = (CHOOSE f : IsFlat(f, s))[Len(s)]
  BY DEF FlattenSeq, IsFlat

(* What FlattenSeq does.                                                   *)
LEMMA FlattenType ==
  ASSUME NEW S, NEW s \in Seq(Seq(S))
  PROVE  FlattenSeq(s) \in Seq(S)
<1>1. CASE Len(s) = 0
  <2>1. s = <<>> /\ FlattenSeq(s) = s
    BY <1>1 DEF FlattenSeq
  <2>2. <<>> \in Seq(S)
    OBVIOUS
  <2> QED
    BY <2>1, <2>2
<1>2. CASE Len(s) # 0
  <2>1. PICK f : f = (CHOOSE g : IsFlat(g, s)) /\ IsFlat(f, s)
    BY FlatExists
  <2>2. FlattenSeq(s) = f[Len(s)] /\ Len(s) \in 1 .. Len(s)
    BY <1>2, <2>1, FlattenSeqDef
  <2> QED
    BY <2>1, <2>2, FlatType
<1> QED
  BY <1>1, <1>2

LEMMA FlattenAppend ==
  ASSUME NEW S, NEW s \in Seq(Seq(S)), NEW x \in Seq(S)
  PROVE  FlattenSeq(Append(s, x)) = FlattenSeq(s) \o x
<1> DEFINE t == Append(s, x)
           n == Len(s)
<1>1. n \in Nat /\ t \in Seq(Seq(S)) /\ Len(t) = n + 1 /\ t[n + 1] = x
  BY AppendKeeps
<1>2. PICK f : f = (CHOOSE g : IsFlat(g, t)) /\ IsFlat(f, t)
  BY <1>1, FlatExists
<1> HIDE DEF t
<1>3. FlattenSeq(t) = f[n + 1]
  <2>1. Len(t) # 0
    BY <1>1
  <2> QED
    BY <1>1, <1>2, <2>1, FlattenSeqDef
<1>4. f[n + 1] = IF n + 1 = 1 THEN x ELSE f[n] \o x
  <2>1. n + 1 \in 1 .. n + 1 /\ (n + 1) - 1 = n
    BY <1>1
  <2>2. f[n + 1] = IF n + 1 = 1 THEN t[n + 1] ELSE f[(n + 1) - 1] \o t[n + 1]
    BY <1>1, <1>2, <2>1 DEF IsFlat
  <2> QED
    BY <1>1, <2>1, <2>2
<1>5. CASE n = 0
  <2>1. s = <<>> /\ FlattenSeq(s) = s
    BY <1>5 DEF FlattenSeq
  <2>2. FlattenSeq(t) = x /\ <<>> \o x = x
    BY <1>3, <1>4, <1>5
  <2> QED
    BY <2>1, <2>2 DEF t
<1>6. CASE n # 0
  <2>1. PICK h : h = (CHOOSE g : IsFlat(g, s)) /\ IsFlat(h, s)
    BY FlatExists
  <2>2. FlattenSeq(s) = h[n] /\ n \in 1 .. n
    BY <1>1, <1>6, <2>1, FlattenSeqDef
  <2>3. PICK g : g = [i \in 1 .. n |-> f[i]] /\ IsFlat(g, s)
    BY <1>2, FlatPrefix DEF t
  <2>4. h[n] = g[n] /\ g[n] = f[n]
    <3>1. \A i \in 1 .. Len(s) : h[i] = g[i]
      BY <1>1, <2>1, <2>3, FlatUnique
    <3> QED
      BY <2>2, <2>3, <3>1
  <2> QED
    BY <1>1, <1>3, <1>4, <1>6, <2>2, <2>4 DEF t
<1> QED
  BY <1>5, <1>6 DEF t

-----------------------------------------------------------------------------
(* The XML report. *)

Element ==
  [testName : Tests, filename : {"", "own", "other", "garbage"}, lineNumber : Lines]
ElementsOf(r) == IF r.failed THEN AddFailure(r) ELSE <<>>
AllElements(rs) == [i \in DOMAIN rs |-> ElementsOf(rs[i])]

(* A test has an element for each of its failures.                         *)
LEMMA ElementsType ==
  ASSUME NEW r \in Result
  PROVE  /\ ElementsOf(r) \in Seq(Element)
         /\ (r.failed <=> r.failures # <<>>) =>
              /\ Len(ElementsOf(r)) = Len(r.failures)
              /\ \A k \in 1 .. Len(r.failures) :
                   /\ ElementsOf(r)[k].testName = r.testName
                   /\ ElementsOf(r)[k].filename = r.failureFile
                   /\ ElementsOf(r)[k].lineNumber = r.failures[k]
<1>1. /\ r.failures \in Seq(Lines) /\ r.testName \in Tests
      /\ r.failureFile \in {"", "own", "other", "garbage"}
  BY DEF Result
<1>2. PICK n \in Nat : /\ n = Len(r.failures) /\ DOMAIN r.failures = 1 .. n
                      /\ \A k \in 1 .. n : r.failures[k] \in Lines
  <2>1. PICK s \in Seq(Lines) : s = r.failures
    BY <1>1
  <2>2. Len(s) \in Nat /\ DOMAIN s = 1 .. Len(s) /\ \A k \in 1 .. Len(s) : s[k] \in Lines
    OBVIOUS
  <2> QED
    BY <2>1, <2>2
<1>3. /\ AddFailure(r) \in [1 .. n -> Element]
      /\ \A k \in 1 .. n : /\ AddFailure(r)[k].testName = r.testName
                           /\ AddFailure(r)[k].filename = r.failureFile
                           /\ AddFailure(r)[k].lineNumber = r.failures[k]
  <2>1. AddFailure(r) = [k \in 1 .. n |->
          [testName |-> r.testName, filename |-> r.failureFile, lineNumber |-> r.failures[k]]]
    BY <1>2 DEF AddFailure
  <2>2. \A k \in 1 .. n :
          [testName |-> r.testName, filename |-> r.failureFile, lineNumber |-> r.failures[k]]
            \in Element
    BY <1>1, <1>2 DEF Element
  <2>3. AddFailure(r) \in [1 .. n -> Element]
    BY <2>1, <2>2
  <2> QED
    BY <2>1, <2>3
<1>4. AddFailure(r) \in Seq(Element) /\ Len(AddFailure(r)) = n
  BY <1>2, <1>3
<1>5. ElementsOf(r) \in Seq(Element)
  BY <1>4 DEF ElementsOf
<1>6. ASSUME r.failed <=> r.failures # <<>>
      PROVE  Len(ElementsOf(r)) = n /\ \A k \in 1 .. n : ElementsOf(r)[k] = AddFailure(r)[k]
  <2>1. CASE r.failed
    BY <1>4, <2>1 DEF ElementsOf
  <2>2. CASE ~r.failed
    <3>1. r.failures = <<>> /\ ElementsOf(r) = <<>>
      BY <1>6, <2>2 DEF ElementsOf
    <3> QED
      BY <1>2, <3>1
  <2> QED
    BY <2>1, <2>2
<1> QED
  BY <1>2, <1>3, <1>5, <1>6

LEMMA ElementsAppend ==
  ASSUME NEW rs \in Seq(Result), NEW r \in Result
  PROVE  /\ AllElements(rs) \in Seq(Seq(Element))
         /\ AllElements(Append(rs, r)) = Append(AllElements(rs), ElementsOf(r))
<1> DEFINE n == Len(rs)
           t == Append(rs, r)
           u == Append(AllElements(rs), ElementsOf(r))
<1>1. /\ n \in Nat /\ DOMAIN rs = 1 .. n /\ DOMAIN t = 1 .. n + 1 /\ t[n + 1] = r
      /\ \A i \in 1 .. n : rs[i] \in Result /\ t[i] = rs[i]
  BY AppendKeeps
<1>2. AllElements(rs) \in [1 .. n -> Seq(Element)]
  BY <1>1, ElementsType DEF AllElements
<1>3. AllElements(rs) \in Seq(Seq(Element)) /\ Len(AllElements(rs)) = n
  BY <1>1, <1>2
<1>4. ElementsOf(r) \in Seq(Element)
  BY ElementsType
<1>5. /\ u \in Seq(Seq(Element)) /\ DOMAIN u = 1 .. n + 1 /\ u[n + 1] = ElementsOf(r)
      /\ \A i \in 1 .. n : u[i] = AllElements(rs)[i]
  BY <1>3, <1>4, AppendKeeps
<1> HIDE DEF t, u
<1>6. u = [i \in 1 .. n + 1 |-> u[i]]
  BY <1>5
<1>7. \A i \in 1 .. n + 1 : ElementsOf(t[i]) = u[i]
  <2>1. \A i \in 1 .. n : ElementsOf(t[i]) = u[i]
    BY <1>1, <1>5 DEF AllElements
  <2>2. \A i \in 1 .. n + 1 : i \in 1 .. n \/ i = n + 1
    BY <1>1
  <2> QED
    BY <1>1, <1>5, <2>1, <2>2
<1>8. AllElements(t) = u
  BY <1>1, <1>6, <1>7 DEF AllElements
<1> QED
  BY <1>3, <1>8 DEF t, u

LEMMA XmlAppend ==
  ASSUME NEW rs \in Seq(Result), NEW r \in Result
  PROVE  /\ FlattenSeq(AllElements(rs)) \in Seq(Element) /\ ElementsOf(r) \in Seq(Element)
         /\ FlattenSeq(AllElements(Append(rs, r))) = FlattenSeq(AllElements(rs)) \o ElementsOf(r)
  BY ElementsAppend, ElementsType, FlattenType, FlattenAppend

LEMMA XmlReportIs ==
  /\ XmlReport = FlattenSeq(AllElements(m_results))
  /\ XmlReport' = FlattenSeq(AllElements(m_results'))
  BY DEF XmlReport, AllElements, ElementsOf

(* A sequence is what precedes its last element, and that.                 *)
LEMMA LastApart ==
  ASSUME NEW S, NEW s \in Seq(S), s # <<>>
  PROVE  LET n == Len(s)
             t == SubSeq(s, 1, n - 1)
         IN  /\ t \in Seq(S) /\ Len(t) + 1 = n /\ s[n] \in S
             /\ s = Append(t, s[n])
<1>1. PICK n \in Nat \ {0} : n = Len(s) /\ n - 1 \in Nat
  OBVIOUS
<1>2. s[n] \in S
  BY <1>1
<1>3. PICK t \in Seq(S) : t = SubSeq(s, 1, n - 1)
  <2>1. SubSeq(s, 1, n - 1) \in Seq(S)
    BY <1>1
  <2> QED
    BY <2>1
<1>4. Len(t) = n - 1 /\ \A i \in 1 .. n - 1 : t[i] = s[i]
  BY <1>1, <1>3
<1>5. s = Append(t, s[n])
  BY <1>1, <1>4
<1>6. Len(t) + 1 = n
  BY <1>1, <1>4
<1> QED
  BY <1>1, <1>2, <1>3, <1>5, <1>6

LEMMA LastReplaced ==
  ASSUME NEW S, NEW s \in Seq(S), NEW x \in S, NEW y \in S
  PROVE  [Append(s, x) EXCEPT ![Len(s) + 1] = y] = Append(s, y)
<1> DEFINE a == Append(s, x)
           b == Append(s, y)
           c == [a EXCEPT ![Len(s) + 1] = y]
<1>1. PICK n \in Nat : n = Len(s)
  OBVIOUS
<1>2. /\ a \in Seq(S) /\ DOMAIN a = 1 .. n + 1 /\ \A i \in 1 .. n : a[i] = s[i]
      /\ b \in Seq(S) /\ DOMAIN b = 1 .. n + 1 /\ \A i \in 1 .. n : b[i] = s[i]
      /\ b[n + 1] = y
  BY <1>1, AppendKeeps
<1> HIDE DEF a, b
<1>3. /\ a = [i \in 1 .. n + 1 |-> a[i]] /\ b = [i \in 1 .. n + 1 |-> b[i]]
  BY <1>2
<1>4. c = [i \in 1 .. n + 1 |-> IF i = n + 1 THEN y ELSE a[i]]
  BY <1>1, <1>2, <1>3
<1>5. \A i \in 1 .. n + 1 : (IF i = n + 1 THEN y ELSE a[i]) = b[i]
  <2>1. \A i \in 1 .. n + 1 : i \in 1 .. n \/ i = n + 1
    OBVIOUS
  <2> QED
    BY <1>2, <2>1
<1>6. c = b
  BY <1>3, <1>4, <1>5
<1> QED
  BY <1>6 DEF a, b

(* The report so far: those of the tests that are over, and the last one.  *)
LEMMA XmlSplit ==
  ASSUME ReportInv, m_results # <<>>
  PROVE  \E done \in Seq(Result), r \in Result :
           /\ m_results = Append(done, r) /\ r = Last(m_results) /\ r = m_results[Len(m_results)]
           /\ Len(done) + 1 = Len(m_results)
           /\ r.failed <=> r.failures # <<>>
<1> DEFINE n == Len(m_results)
<1>1. m_results \in Seq(Result) /\ n \in DOMAIN m_results
  BY ReportFacts DEF ReportInv
<1>2. PICK done \in Seq(Result), r \in Result :
        m_results = Append(done, r) /\ r = m_results[n] /\ Len(done) + 1 = n
  BY <1>1, LastApart
<1>3. m_results[n].failed <=> m_results[n].failures # <<>>
  BY <1>1 DEF ReportInv, CountsAgree
<1>4. m_results[n] = Last(m_results)
  BY DEF Last
<1>5. r = Last(m_results) /\ (r.failed <=> r.failures # <<>>)
  BY <1>2, <1>3, <1>4
<1> QED
  BY <1>2, <1>5

(* A test that starts adds nothing to it.                                  *)
LEMMA XmlStart ==
  ASSUME ReportInv, NEW test \in Tests, OnTestStart(test)
  PROVE  XmlReport' = XmlReport
<1>1. PICK r \in Result : r = DeferredTestResult(test) /\ r.failed = FALSE
  <2>1. DeferredTestResult(test) \in Result
    BY DEF DeferredTestResult, Result
  <2>2. DeferredTestResult(test).failed = FALSE
    BY DEF DeferredTestResult
  <2> QED
    BY <2>1, <2>2
<1>2. ElementsOf(r) = <<>>
  BY <1>1 DEF ElementsOf
<1>3. m_results' = Append(m_results, r) /\ m_results \in Seq(Result)
  BY <1>1 DEF OnTestStart, ReportInv
<1>4. PICK x \in Seq(Element) : x = FlattenSeq(AllElements(m_results))
  BY <1>3, XmlAppend
<1>5. FlattenSeq(AllElements(m_results')) = x
  <2>1. FlattenSeq(AllElements(m_results')) = x \o <<>>
    BY <1>2, <1>3, <1>4, XmlAppend
  <2> QED
    BY <2>1
<1>6. XmlReport' = x
  BY <1>5, XmlReportIs
<1> QED
  BY <1>4, <1>6, XmlReportIs

(* The results before and after a failure.                                 *)
LEMMA FailureLast ==
  ASSUME ReportInv, m_results # <<>>, NEW details \in Details, OnTestFailure(details)
  PROVE  \E done \in Seq(Result), r \in Result, w \in Result :
           /\ m_results = Append(done, r) /\ m_results' = Append(done, w)
           /\ r = Last(m_results) /\ w.testName = r.testName /\ w.failed = TRUE
<1>1. PICK done \in Seq(Result), r \in Result :
        /\ m_results = Append(done, r) /\ r = Last(m_results) /\ r = m_results[Len(m_results)]
        /\ Len(done) + 1 = Len(m_results)
  BY XmlSplit
<1>2. PICK w : w = WithFailure(r, details)
  OBVIOUS
<1>3. w \in Result /\ w.testName = r.testName /\ w.failed = TRUE
  BY <1>2, FailureRecorded
<1>4. m_results' = [m_results EXCEPT ![Len(m_results)] = w]
  <2>1. m_results' =
          [m_results EXCEPT ![Len(m_results)] = WithFailure(m_results[Len(m_results)], details)]
    BY DEF OnTestFailure
  <2> QED
    BY <1>1, <1>2, <2>1
<1>5. m_results' = Append(done, w)
  BY <1>1, <1>3, <1>4, LastReplaced
<1> QED
  BY <1>1, <1>3, <1>5

(* The test the last result is about is the one that runs.                 *)
CurrentInv == pc \in InTest => Last(m_results).testName = curTest

(* A test is entered only by RunTest.                                      *)
LEMMA TestEntered ==
  ASSUME [RunnerNext]_runnerVars, pc' \in InTest
  PROVE  curTest' = curTest /\ (pc \in InTest \/ OnTestStart(curTest))
<1>1. ASSUME NEW test \in Tests, Add(test)
      PROVE  FALSE
  BY <1>1 DEF Add, InTest
<1>2. ASSUME NEW opts \in Options, RunAllTestsIf(opts)
      PROVE  FALSE
  BY <1>2 DEF RunAllTestsIf, InTest
<1>3. ~SkipTest /\ ~Finish /\ ~aborts /\ \A late \in BOOLEAN : ~FinishTest(late)
  BY DEF SkipTest, Finish, aborts, FinishTest, InTest
<1>4. RunTest => curTest' = curTest /\ OnTestStart(curTest)
  BY DEF RunTest
<1>5. setupOk \/ teardownOk \/ fixtureThrows \/ checkFails \/ nestedTest \/ setExempt
        \/ openConstraint \/ bodyReturns \/ catchException
        => curTest' = curTest /\ pc \in InTest
  BY DEF setupOk, teardownOk, fixtureThrows, checkFails, nestedTest, setExempt, openConstraint,
     bodyReturns, catchException, Acts, InTest
<1>6. \A late \in BOOLEAN : closeConstraint(late) => curTest' = curTest /\ pc \in InTest
  BY DEF closeConstraint, InTest
<1>7. \A exception \in Exceptions : bodyThrows(exception) => curTest' = curTest /\ pc \in InTest
  BY DEF bodyThrows, InTest
<1>8. \A s \in Signals : signalInTest(s) => curTest' = curTest /\ pc \in InTest
  BY DEF signalInTest, InTest
<1>9. UNCHANGED runnerVars => curTest' = curTest /\ pc' = pc
  BY DEF runnerVars
<1> QED
  BY <1>1, <1>2, <1>3, <1>4, <1>5, <1>6, <1>7, <1>8, <1>9 DEF RunnerNext, RunStep

LEMMA CurrentInvNext ==
  ASSUME RunnerInv, CurrentInv, [RunnerNext]_runnerVars
  PROVE  CurrentInv'
<1>1. RegistryInv /\ BodyInv /\ ReportInv /\ MishapInv /\ ReportStep
  BY ReportSteps DEF RunnerInv
<1>2. pc' \in InTest => curTest' = curTest /\ (pc \in InTest \/ OnTestStart(curTest))
  BY TestEntered
<1>3. CASE UNCHANGED reportVars
  <2>1. m_results' = m_results
    BY <1>3 DEF reportVars
  <2>2. Last(m_results)' = Last(m_results)
    BY <2>1 DEF Last
  <2>3. OnTestStart(curTest) => FALSE
    <3>1. m_results \in Seq(Result)
      BY <1>1 DEF ReportInv
    <3>2. OnTestStart(curTest) => Len(m_results') = Len(m_results) + 1
      BY <3>1, AppendKeeps DEF OnTestStart
    <3> QED
      BY <2>1, <3>1, <3>2
  <2> QED
    BY <1>2, <2>1, <2>2, <2>3 DEF CurrentInv
<1>4. CASE curTest \in Tests /\ OnTestStart(curTest)
  <2>1. m_results' = Append(m_results, DeferredTestResult(curTest)) /\ m_results \in Seq(Result)
    BY <1>1, <1>4 DEF OnTestStart, ReportInv
  <2>2. Last(m_results)' = DeferredTestResult(curTest)
    BY <2>1 DEF Last
  <2>3. DeferredTestResult(curTest).testName = curTest
    BY DEF DeferredTestResult
  <2> QED
    BY <1>2, <2>2, <2>3 DEF CurrentInv
<1>5. ASSUME NEW details \in Details, pc \in InTest, m_results # <<>>, OnTestFailure(details)
      PROVE  CurrentInv'
  <2>1. PICK done \in Seq(Result), w \in Result :
          m_results' = Append(done, w) /\ w.testName = Last(m_results).testName
    BY <1>1, <1>5, FailureLast
  <2>2. Last(m_results)' = w
    BY <2>1, AppendKeeps DEF Last
  <2> QED
    BY <1>2, <1>5, <2>1, <2>2 DEF CurrentInv
<1> QED
  BY <1>1, <1>3, <1>4, <1>5 DEF ReportStep

LEMMA CurrentInvariant == RunnerSpec => []CurrentInv
<1>1. RunnerInit => CurrentInv
  BY DEF RunnerInit, CurrentInv, InTest
<1>2. RunnerInv /\ CurrentInv /\ [RunnerNext]_runnerVars => CurrentInv'
  BY CurrentInvNext
<1> QED
  BY <1>1, <1>2, RunnerInvariant, PTL DEF RunnerSpec

-----------------------------------------------------------------------------
(* The tests in the order of registration, as TestList chains them.        *)
Chain(order, nxt) ==
  /\ order \in Seq(Tests) /\ Distinct(order)
  /\ \A i \in 1 .. Len(order) : nxt[order[i]] = IF i = Len(order) THEN NULL ELSE order[i + 1]
  /\ \A t \in Tests \ Elements(order) : nxt[t] = NULL

Walk(nxt) ==
  CHOOSE f : f = [t \in Tests \cup {NULL} |-> IF t = NULL THEN <<>> ELSE <<t>> \o f[nxt[t]]]

LEMMA WalkIs == walk = Walk(next) /\ walk' = Walk(next')
  BY DEF walk, Walk

(* A sequence from one of its elements on.                                 *)
LEMMA FromOn ==
  ASSUME NEW S, NEW s \in Seq(S), NEW i \in 1 .. Len(s)
  PROVE  /\ <<s[i]>> \o SubSeq(s, i + 1, Len(s)) = SubSeq(s, i, Len(s))
         /\ i = Len(s) => <<s[i]>> \o <<>> = SubSeq(s, i, Len(s))
         /\ Len(SubSeq(s, i, Len(s))) = Len(s) - i + 1
<1>1. PICK n \in Nat : n = Len(s) /\ i \in 1 .. n
  OBVIOUS
<1>2. PICK x \in S : x = s[i]
  OBVIOUS
<1>3. PICK r \in Seq(S) : r = SubSeq(s, i + 1, n)
  <2>1. SubSeq(s, i + 1, n) \in Seq(S)
    BY <1>1
  <2> QED
    BY <2>1
<1>4. PICK u \in Seq(S) : u = SubSeq(s, i, n)
  <2>1. SubSeq(s, i, n) \in Seq(S)
    BY <1>1
  <2> QED
    BY <2>1
<1>5. Len(r) = n - i /\ \A k \in 1 .. n - i : r[k] = s[k + i]
  <2>1. Len(r) = n - i
    BY <1>1, <1>3
  <2>2. \A k \in 1 .. n - i : r[k] = s[k + i]
    BY <1>1, <1>3
  <2> QED
    BY <2>1, <2>2
<1>6. Len(u) = n - i + 1 /\ \A k \in 1 .. n - i + 1 : u[k] = s[k + i - 1]
  <2>1. Len(u) = n - i + 1
    BY <1>1, <1>4
  <2>2. \A k \in 1 .. n - i + 1 : u[k] = s[k + i - 1]
    BY <1>1, <1>4
  <2> QED
    BY <2>1, <2>2
<1>7. PICK v : v = <<x>> \o r
  OBVIOUS
<1>8. /\ v \in Seq(S) /\ Len(v) = n - i + 1 /\ v[1] = x
      /\ \A k \in 2 .. n - i + 1 : v[k] = r[k - 1]
  <2>1. /\ <<x>> \o r \in Seq(S) /\ Len(<<x>> \o r) = Len(r) + 1 /\ (<<x>> \o r)[1] = x
        /\ \A k \in 2 .. Len(r) + 1 : (<<x>> \o r)[k] = r[k - 1]
    BY ConsShifts
  <2>2. /\ v \in Seq(S) /\ Len(v) = Len(r) + 1 /\ v[1] = x
        /\ \A k \in 2 .. Len(r) + 1 : v[k] = r[k - 1]
    BY <1>7, <2>1, Zenon
  <2>3. Len(r) + 1 = n - i + 1
    BY <1>1, <1>5
  <2> QED
    BY <2>2, <2>3, Zenon
<1>9. \A k \in 1 .. n - i + 1 : v[k] = u[k]
  <2>1. v[1] = u[1]
    <3>1. 1 \in 1 .. n - i + 1 /\ 1 + i - 1 = i
      BY <1>1
    <3>2. u[1] = s[1 + i - 1]
      BY <1>6, <3>1
    <3> QED
      BY <1>2, <1>8, <3>1, <3>2
  <2>2. ASSUME NEW k \in 2 .. n - i + 1
        PROVE  v[k] = u[k]
    <3>1. v[k] = r[k - 1] /\ k - 1 \in 1 .. n - i /\ k \in 1 .. n - i + 1
      BY <1>1, <1>8
    <3>2. r[k - 1] = s[k - 1 + i] /\ u[k] = s[k + i - 1] /\ k - 1 + i = k + i - 1
      BY <1>1, <1>5, <1>6, <3>1
    <3> QED
      BY <3>1, <3>2
  <2> QED
    BY <1>1, <2>1, <2>2
<1>10. v = u
  BY <1>6, <1>8, <1>9
<1>11. i = Len(s) => r = <<>>
  BY <1>1, <1>5
<1> QED
  BY <1>1, <1>2, <1>3, <1>4, <1>6, <1>7, <1>10, <1>11

(* Walking the chain: what a walk gives for an order, and that it does.    *)
WalkOf(order, t) ==
  IF t = NULL THEN <<>>
  ELSE IF t \in Elements(order)
  THEN SubSeq(order, CHOOSE i \in 1 .. Len(order) : order[i] = t, Len(order))
  ELSE <<t>>

LEMMA WalkOfPlace ==
  ASSUME NEW order \in Seq(Tests), Distinct(order), NEW i \in 1 .. Len(order)
  PROVE  /\ order[i] \in Tests /\ order[i] # NULL /\ order[i] \in Elements(order)
         /\ WalkOf(order, order[i]) = SubSeq(order, i, Len(order))
<1>1. order[i] \in Tests /\ order[i] # NULL
  BY RunnerAssumption
<1>2. order[i] \in Elements(order)
  BY DEF Elements
<1>3. PICK j \in 1 .. Len(order) :
        order[j] = order[i] /\ j = CHOOSE k \in 1 .. Len(order) : order[k] = order[i]
  OBVIOUS
<1>4. j = i
  BY <1>3 DEF Distinct
<1> QED
  BY <1>1, <1>2, <1>3, <1>4 DEF WalkOf

LEMMA WalkExists ==
  ASSUME NEW order, NEW nxt \in [Tests -> Tests \cup {NULL}], Chain(order, nxt)
  PROVE  Walk(nxt) = [t \in Tests \cup {NULL} |->
                       IF t = NULL THEN <<>> ELSE <<t>> \o Walk(nxt)[nxt[t]]]
<1> DEFINE D == Tests \cup {NULL}
           W == [t \in D |-> WalkOf(order, t)]
<1>1. order \in Seq(Tests) /\ Distinct(order)
  BY DEF Chain
<1>2. ASSUME NEW t \in D
      PROVE  WalkOf(order, t) = IF t = NULL THEN <<>> ELSE <<t>> \o W[nxt[t]]
  <2>1. CASE t = NULL
    BY <2>1 DEF WalkOf
  <2>2. CASE t \in Elements(order)
    <3>1. PICK i \in 1 .. Len(order) : t = order[i]
      BY <2>2 DEF Elements
    <3>2. t # NULL /\ WalkOf(order, t) = SubSeq(order, i, Len(order))
      BY <1>1, <3>1, WalkOfPlace
    <3>3. CASE i = Len(order)
      <4>1. nxt[t] = NULL
        BY <3>1, <3>3 DEF Chain
      <4>2. W[nxt[t]] = <<>>
        BY <4>1 DEF WalkOf
      <4>3. <<t>> \o <<>> = SubSeq(order, i, Len(order))
        BY <1>1, <3>1, <3>3, FromOn
      <4> QED
        BY <3>2, <4>2, <4>3
    <3>4. CASE i # Len(order)
      <4>1. i + 1 \in 1 .. Len(order)
        BY <1>1, <3>4
      <4>2. nxt[t] = order[i + 1]
        BY <3>1, <3>4 DEF Chain
      <4>3. nxt[t] \in D /\ WalkOf(order, nxt[t]) = SubSeq(order, i + 1, Len(order))
        BY <1>1, <4>1, <4>2, WalkOfPlace
      <4>4. W[nxt[t]] = SubSeq(order, i + 1, Len(order))
        BY <4>3
      <4>5. <<t>> \o SubSeq(order, i + 1, Len(order)) = SubSeq(order, i, Len(order))
        BY <1>1, <3>1, FromOn
      <4> QED
        BY <3>2, <4>4, <4>5
    <3> QED
      BY <3>3, <3>4
  <2>3. CASE t \in Tests \ Elements(order)
    <3>1. nxt[t] = NULL /\ t # NULL
      BY <2>3, RunnerAssumption DEF Chain
    <3>2. W[nxt[t]] = <<>> /\ WalkOf(order, t) = <<t>>
      BY <2>3, <3>1 DEF WalkOf
    <3>3. <<t>> \o <<>> = <<t>>
      OBVIOUS
    <3> QED
      BY <3>1, <3>2, <3>3
  <2> QED
    BY <2>1, <2>2, <2>3
<1>3. W = [t \in D |-> IF t = NULL THEN <<>> ELSE <<t>> \o W[nxt[t]]]
  BY <1>2
<1> HIDE DEF W
<1>4. \E f : f = [t \in D |-> IF t = NULL THEN <<>> ELSE <<t>> \o f[nxt[t]]]
  BY <1>3
<1> QED
  BY <1>4 DEF Walk

(* From any test of the chain a walk goes through the rest of it.          *)
LEMMA WalkChain ==
  ASSUME NEW order, NEW nxt \in [Tests -> Tests \cup {NULL}], Chain(order, nxt)
  PROVE  /\ Walk(nxt)[NULL] = <<>>
         /\ \A i \in 1 .. Len(order) : Walk(nxt)[order[i]] = SubSeq(order, i, Len(order))
<1> DEFINE f == Walk(nxt)
           n == Len(order)
<1>1. order \in Seq(Tests) /\ Distinct(order) /\ n \in Nat
  BY DEF Chain
<1>2. f = [t \in Tests \cup {NULL} |-> IF t = NULL THEN <<>> ELSE <<t>> \o f[nxt[t]]]
  BY WalkExists
<1> HIDE DEF f
<1>3. f[NULL] = <<>> /\ \A t \in Tests : t # NULL => f[t] = <<t>> \o f[nxt[t]]
  BY <1>2
<1> DEFINE T == {k \in Nat : \E i \in 1 .. n : k = n - i /\ f[order[i]] # SubSeq(order, i, n)}
<1>4. ASSUME T # {}
      PROVE  FALSE
  <2>1. PICK k \in T : \A y \in T : k <= y
    <3>1. T \subseteq Nat
      OBVIOUS
    <3> HIDE DEF T
    <3> QED
      BY <1>4, <3>1, Least
  <2>2. PICK i \in 1 .. n : k \in Nat /\ k = n - i /\ f[order[i]] # SubSeq(order, i, n)
    BY <2>1
  <2>3. f[order[i]] = <<order[i]>> \o f[nxt[order[i]]]
    BY <1>1, <1>3, WalkOfPlace
  <2>4. CASE i = n
    <3>1. nxt[order[i]] = NULL
      BY <2>4 DEF Chain
    <3>2. <<order[i]>> \o <<>> = SubSeq(order, i, n)
      BY <1>1, <2>4, FromOn
    <3> QED
      BY <1>3, <2>2, <2>3, <3>1, <3>2
  <2>5. CASE i # n
    <3>1. nxt[order[i]] = order[i + 1]
      BY <2>5 DEF Chain
    <3>2. i + 1 \in 1 .. n /\ n - (i + 1) \in Nat /\ ~(k <= n - (i + 1))
      BY <1>1, <2>2, <2>5
    <3>3. n - (i + 1) \notin T
      BY <2>1, <3>2
    <3>4. f[order[i + 1]] = SubSeq(order, i + 1, n)
      BY <3>2, <3>3
    <3>5. <<order[i]>> \o SubSeq(order, i + 1, n) = SubSeq(order, i, n)
      BY <1>1, FromOn
    <3> QED
      BY <2>2, <2>3, <3>1, <3>4, <3>5
  <2> QED
    BY <2>4, <2>5
<1>5. \A i \in 1 .. n : f[order[i]] = SubSeq(order, i, n)
  <2>1. \A i \in 1 .. n : n - i \in Nat
    BY <1>1
  <2> QED
    BY <1>4, <2>1
<1> QED
  BY <1>3, <1>5 DEF f

(* TestList is a chain from m_head to m_tail.                              *)
InOrder(order, head, tail, nxt) ==
  /\ Chain(order, nxt)
  /\ head = IF Len(order) = 0 THEN NULL ELSE order[1]
  /\ tail = IF Len(order) = 0 THEN NULL ELSE order[Len(order)]

(* The places of the tests that are not over when cur is the current one.  *)
PlacesFrom(f, head, cur) == {i \in DOMAIN f[head] : i > Len(f[head]) - Len(f[cur])}

LEMMA Places ==
  ASSUME NEW order, NEW head, NEW tail, NEW nxt \in [Tests -> Tests \cup {NULL}],
         InOrder(order, head, tail, nxt)
  PROVE  /\ Walk(nxt)[head] = order
         /\ PlacesFrom(Walk(nxt), head, NULL) = {}
         /\ \A k \in 1 .. Len(order) :
              PlacesFrom(Walk(nxt), head, order[k]) = {i \in 1 .. Len(order) : k <= i}
<1> DEFINE f == Walk(nxt)
<1>1. order \in Seq(Tests) /\ Chain(order, nxt)
  BY DEF InOrder, Chain
<1>2. PICK n \in Nat : n = Len(order) /\ DOMAIN order = 1 .. n
  BY <1>1
<1>3. f[NULL] = <<>> /\ \A i \in 1 .. n : f[order[i]] = SubSeq(order, i, n)
  BY <1>1, <1>2, WalkChain
<1> HIDE DEF f
<1>4. f[head] = order
  <2>1. CASE n = 0
    <3>1. head = NULL /\ order = <<>>
      BY <1>1, <1>2, <2>1 DEF InOrder
    <3> QED
      BY <1>3, <3>1
  <2>2. CASE n # 0
    <3>1. head = order[1] /\ 1 \in 1 .. n
      BY <1>2, <2>2 DEF InOrder
    <3>2. SubSeq(order, 1, n) = order
      BY <1>1, <1>2
    <3> QED
      BY <1>3, <3>1, <3>2
  <2> QED
    BY <2>1, <2>2
<1>5. PlacesFrom(f, head, NULL) = {}
  <2>1. Len(f[NULL]) = 0
    BY <1>3
  <2>2. \A i \in 1 .. n : ~(i > n - 0)
    BY <1>2
  <2> QED
    BY <1>2, <1>4, <2>1, <2>2 DEF PlacesFrom
<1>6. ASSUME NEW k \in 1 .. n
      PROVE  PlacesFrom(f, head, order[k]) = {i \in 1 .. n : k <= i}
  <2>1. Len(f[order[k]]) = n - k + 1
    BY <1>1, <1>2, <1>3, FromOn
  <2>2. \A i \in 1 .. n : i > n - (n - k + 1) <=> k <= i
    BY <1>2
  <2> QED
    BY <1>2, <1>4, <2>1, <2>2 DEF PlacesFrom
<1> QED
  BY <1>2, <1>4, <1>5, <1>6 DEF f

LEMMA AheadIs ==
  /\ Ahead = PlacesFrom(Walk(next), m_head, curTest)
  /\ Ahead' = PlacesFrom(Walk(next'), m_head', curTest')
  BY WalkIs DEF Ahead, PlacesFrom

(* A test that is registered comes last.                                   *)
LEMMA Registered ==
  ASSUME NEW order, NEW nxt \in [Tests -> Tests \cup {NULL}], NEW head, NEW tail,
         InOrder(order, head, tail, nxt),
         NEW test \in Tests, test \notin Elements(order), NEW head2, NEW nxt2,
         IF tail = NULL THEN head2 = test /\ nxt2 = nxt
         ELSE head2 = head /\ nxt2 = [nxt EXCEPT ![tail] = test]
  PROVE  /\ InOrder(Append(order, test), head2, test, nxt2)
         /\ Elements(Append(order, test)) = Elements(order) \cup {test}
<1>1. order \in Seq(Tests) /\ Chain(order, nxt) /\ Distinct(order)
  BY DEF InOrder, Chain
<1>2. PICK n \in Nat : n = Len(order)
  BY <1>1
<1>3. PICK long \in Seq(Tests) :
        /\ long = Append(order, test) /\ Len(long) = n + 1 /\ long[n + 1] = test
        /\ \A i \in 1 .. n : long[i] = order[i]
  <2>1. /\ Append(order, test) \in Seq(Tests) /\ DOMAIN order = 1 .. n
        /\ Len(Append(order, test)) = n + 1 /\ Append(order, test)[n + 1] = test
        /\ \A i \in DOMAIN order : Append(order, test)[i] = order[i]
    BY <1>1, <1>2, AppendKeeps
  <2>2. PICK long \in Seq(Tests) : long = Append(order, test)
    BY <2>1
  <2> QED
    BY <2>1, <2>2
<1>4. \A i \in 1 .. n + 1 : i \in 1 .. n \/ i = n + 1
  BY <1>2
<1>5. \A i \in 1 .. n : i \in 1 .. n + 1 /\ i # n + 1 /\ order[i] \in Elements(order)
  BY <1>2 DEF Elements
<1>6. Elements(long) = Elements(order) \cup {test}
  BY <1>2, <1>3, <1>4, <1>5 DEF Elements
<1>7. Distinct(long)
  <2>1. ASSUME NEW j \in 1 .. n + 1, NEW k \in 1 .. n + 1, long[j] = long[k]
        PROVE  j = k
    <3>1. CASE j \in 1 .. n /\ k \in 1 .. n
      BY <1>1, <1>2, <1>3, <2>1, <3>1 DEF Distinct
    <3>2. CASE j = n + 1 \/ k = n + 1
      BY <1>3, <1>4, <1>5, <2>1, <3>2
    <3> QED
      BY <1>4, <3>1, <3>2
  <2> QED
    BY <1>3, <2>1 DEF Distinct
<1>8. test # NULL /\ \A i \in 1 .. n : order[i] # NULL
  BY <1>1, <1>2, RunnerAssumption
<1>9. /\ \A i \in 1 .. n + 1 : nxt2[long[i]] = IF i = n + 1 THEN NULL ELSE long[i + 1]
      /\ \A t \in Tests \ Elements(long) : nxt2[t] = NULL
      /\ head2 = long[1]
  <2>1. nxt[test] = NULL
    BY <1>1 DEF Chain
  <2>2. CASE n = 0
    <3>1. nxt2 = nxt /\ head2 = test
      BY <1>2, <2>2 DEF InOrder
    <3>2. \A t \in Tests \ Elements(long) : t \in Tests \ Elements(order)
      BY <1>6
    <3>3. \A i \in 1 .. n + 1 : i = n + 1
      BY <1>4, <2>2
    <3> QED
      BY <1>1, <1>3, <2>1, <2>2, <3>1, <3>2, <3>3 DEF Chain
  <2>3. CASE n # 0
    <3>1. tail = order[n] /\ head = order[1] /\ n \in 1 .. n /\ 1 \in 1 .. n
      BY <1>2, <2>3 DEF InOrder
    <3>2. nxt2 = [nxt EXCEPT ![order[n]] = test] /\ head2 = order[1] /\ order[n] \in Tests
      BY <1>1, <1>2, <1>8, <3>1
    <3>3. \A i \in 1 .. n : i # n => nxt2[order[i]] = order[i + 1] /\ i + 1 \in 1 .. n
      <4>1. \A i \in 1 .. n : i # n => order[i] # order[n] /\ i + 1 \in 1 .. n /\ order[i] \in Tests
        BY <1>1, <1>2, <3>1 DEF Distinct
      <4>2. \A i \in 1 .. n : i # n => nxt[order[i]] = order[i + 1]
        BY <1>1, <1>2 DEF Chain
      <4> QED
        BY <3>2, <4>1, <4>2
    <3>4. nxt2[order[n]] = test /\ nxt2[test] = NULL
      BY <1>5, <2>1, <3>1, <3>2
    <3>5. \A t \in Tests \ Elements(long) : nxt2[t] = NULL
      BY <1>1, <1>5, <1>6, <3>1, <3>2 DEF Chain
    <3>6. ASSUME NEW i \in 1 .. n + 1
          PROVE  nxt2[long[i]] = IF i = n + 1 THEN NULL ELSE long[i + 1]
      BY <1>3, <1>4, <3>3, <3>4
    <3> QED
      BY <1>3, <3>1, <3>2, <3>5, <3>6
  <2> QED
    BY <2>2, <2>3
<1>10. Len(long) # 0
  BY <1>2, <1>3
<1>11. InOrder(long, head2, test, nxt2)
  BY <1>3, <1>7, <1>9, <1>10 DEF InOrder, Chain
<1> QED
  BY <1>3, <1>6, <1>11

-----------------------------------------------------------------------------
(* What a session sees of the results: those of the tests that are over.   *)
OutcomesOf(rs) == [i \in DOMAIN rs |-> [test |-> rs[i].testName, failed |-> rs[i].failed]]

LEMMA OutcomesAppend ==
  ASSUME NEW rs \in Seq(Result), NEW r \in Result
  PROVE  OutcomesOf(Append(rs, r))
           = Append(OutcomesOf(rs), [test |-> r.testName, failed |-> r.failed])
<1> DEFINE Outcome == [test : Tests, failed : BOOLEAN]
           at(x) == [test |-> x.testName, failed |-> x.failed]
<1>1. PICK n \in Nat : n = Len(rs) /\ DOMAIN rs = 1 .. n
  OBVIOUS
<1>2. PICK t : /\ t = Append(rs, r) /\ DOMAIN t = 1 .. n + 1 /\ t[n + 1] = r
              /\ \A i \in 1 .. n : rs[i] \in Result /\ t[i] = rs[i]
  <2>1. PICK t : t = Append(rs, r)
    OBVIOUS
  <2>2. DOMAIN t = 1 .. n + 1 /\ t[n + 1] = r /\ \A i \in 1 .. n : t[i] = rs[i]
    BY <1>1, <2>1, AppendKeeps
  <2>3. \A i \in 1 .. n : rs[i] \in Result
    BY <1>1
  <2> QED
    BY <2>1, <2>2, <2>3
<1>3. \A x \in Result : at(x) \in Outcome
  BY DEF Result
<1> HIDE DEF at, Outcome
<1>4. OutcomesOf(rs) = [i \in 1 .. n |-> at(rs[i])]
  BY <1>1 DEF OutcomesOf, at
<1>5. OutcomesOf(t) = [i \in 1 .. n + 1 |-> at(t[i])]
  BY <1>2 DEF OutcomesOf, at
<1>6. OutcomesOf(rs) \in Seq(Outcome) /\ Len(OutcomesOf(rs)) = n
  <2>1. \A i \in 1 .. n : at(rs[i]) \in Outcome
    BY <1>2, <1>3
  <2>2. OutcomesOf(rs) \in [1 .. n -> Outcome]
    BY <1>4, <2>1
  <2> QED
    BY <2>2
<1>7. PICK u : /\ u = Append(OutcomesOf(rs), at(r)) /\ u \in Seq(Outcome)
              /\ DOMAIN u = 1 .. n + 1 /\ u[n + 1] = at(r)
              /\ \A i \in 1 .. n : u[i] = OutcomesOf(rs)[i]
  <2>1. PICK s \in Seq(Outcome), x \in Outcome :
          s = OutcomesOf(rs) /\ x = at(r) /\ Len(s) = n /\ DOMAIN s = 1 .. n
    BY <1>3, <1>6
  <2>2. PICK u : u = Append(s, x)
    OBVIOUS
  <2>3. /\ u \in Seq(Outcome) /\ DOMAIN u = 1 .. n + 1 /\ u[n + 1] = x
        /\ \A i \in 1 .. n : u[i] = s[i]
    BY <2>1, <2>2, AppendKeeps
  <2> QED
    BY <2>1, <2>2, <2>3
<1>8. u = [i \in 1 .. n + 1 |-> u[i]]
  <2>1. \A s \in Seq(Outcome) : DOMAIN s = 1 .. n + 1 => s = [i \in 1 .. n + 1 |-> s[i]]
    OBVIOUS
  <2> QED
    BY <1>7, <2>1, Zenon
<1>9. \A i \in 1 .. n + 1 : u[i] = at(t[i])
  <2>1. \A i \in 1 .. n : u[i] = at(t[i])
    BY <1>2, <1>4, <1>7
  <2>2. \A i \in 1 .. n + 1 : i \in 1 .. n \/ i = n + 1
    BY <1>1
  <2> QED
    BY <1>2, <1>7, <2>1, <2>2
<1> QED
  BY <1>2, <1>5, <1>7, <1>8, <1>9 DEF at

LEMMA FrontAppend ==
  ASSUME NEW rs \in Seq(Result), NEW r \in Result
  PROVE  Front(Append(rs, r)) = rs
<1>1. PICK n \in Nat : n = Len(rs)
  OBVIOUS
<1>2. PICK t \in Seq(Result) : /\ t = Append(rs, r) /\ Len(t) = n + 1
                              /\ \A i \in 1 .. n : t[i] = rs[i]
  <2>1. Append(rs, r) \in Seq(Result) /\ Len(Append(rs, r)) = n + 1 /\ DOMAIN rs = 1 .. n
    BY <1>1, AppendKeeps
  <2>2. PICK t \in Seq(Result) : t = Append(rs, r)
    BY <2>1
  <2> QED
    BY <2>1, <2>2, AppendKeeps
<1>3. PICK u \in Seq(Result) : u = SubSeq(t, 1, n)
  <2>1. SubSeq(t, 1, n) \in Seq(Result)
    BY <1>2
  <2> QED
    BY <2>1
<1>4. Len(u) = n
  BY <1>2, <1>3
<1>5. \A i \in 1 .. n : u[i] = t[i]
  BY <1>2, <1>3
<1>6. u = rs
  BY <1>1, <1>2, <1>4, <1>5
<1>7. Front(t) = SubSeq(t, 1, n)
  BY <1>2 DEF Front
<1> QED
  BY <1>2, <1>3, <1>6, <1>7

(* While a test runs only its own result, the last one, changes.           *)
LEMMA TestReports ==
  ASSUME RunnerInv, CurrentInv, pc \in InTest, [RunnerNext]_runnerVars
  PROVE  \E done \in Seq(Result), r \in Result, w \in Result :
           /\ m_results = Append(done, r) /\ m_results' = Append(done, w)
           /\ Front(m_results) = done /\ Front(m_results') = done
           /\ w.testName = curTest
<1>1. RegistryInv /\ BodyInv /\ ReportInv /\ MishapInv /\ ReportStep
  BY ReportSteps DEF RunnerInv
<1>2. m_results # <<>> /\ Last(m_results).testName = curTest
  BY <1>1, TestRuns DEF CurrentInv
<1>3. PICK done \in Seq(Result), r \in Result :
        m_results = Append(done, r) /\ r = Last(m_results)
  BY <1>1, <1>2, XmlSplit
<1>4. CASE UNCHANGED reportVars
  <2>1. m_results' = Append(done, r)
    BY <1>3, <1>4 DEF reportVars
  <2>2. r.testName = curTest
    BY <1>2, <1>3
  <2>3. Front(m_results) = done /\ Front(m_results') = done
    BY <1>3, <2>1, FrontAppend
  <2> QED
    BY <1>3, <2>1, <2>2, <2>3
<1>5. ASSUME NEW details \in Details, OnTestFailure(details)
      PROVE  \E d \in Seq(Result), x \in Result, w \in Result :
               /\ m_results = Append(d, x) /\ m_results' = Append(d, w)
               /\ Front(m_results) = d /\ Front(m_results') = d
               /\ w.testName = curTest
  <2>1. PICK d \in Seq(Result), x \in Result, w \in Result :
          /\ m_results = Append(d, x) /\ m_results' = Append(d, w)
          /\ x = Last(m_results) /\ w.testName = x.testName
    BY <1>1, <1>2, <1>5, FailureLast
  <2>2. w.testName = curTest
    BY <1>2, <2>1
  <2>3. Front(m_results) = d /\ Front(m_results') = d
    BY <2>1, FrontAppend
  <2> QED
    BY <2>1, <2>2, <2>3
<1>6. pc # "select"
  BY DEF InTest
<1> QED
  BY <1>1, <1>4, <1>5, <1>6 DEF ReportStep

-----------------------------------------------------------------------------
(* The kinds of steps: those of the session, and those within a test.      *)
WithinTest ==
  pc \in InTest /\ pc' \in InTest /\ UNCHANGED <<listVars, options, curTest, endVars>>

LEMMA StepKinds ==
  ASSUME [RunnerNext]_runnerVars
  PROVE  \/ \E test \in Tests : Add(test)
         \/ \E opts \in Options : RunAllTestsIf(opts)
         \/ SkipTest \/ RunTest \/ Finish
         \/ \E late \in BOOLEAN : FinishTest(late)
         \/ aborts
         \/ WithinTest
         \/ UNCHANGED runnerVars
<1>1. Behind \in InTest
  BY DEF Behind, InTest
<1>2. setupOk \/ teardownOk \/ fixtureThrows \/ checkFails \/ nestedTest \/ setExempt
        \/ openConstraint \/ bodyReturns \/ catchException => WithinTest
  BY <1>1 DEF setupOk, teardownOk, fixtureThrows, checkFails, nestedTest, setExempt,
     openConstraint, bodyReturns, catchException, Acts, InTest, WithinTest
<1>3. \A late \in BOOLEAN : closeConstraint(late) => WithinTest
  BY DEF closeConstraint, InTest, WithinTest
<1>4. \A exception \in Exceptions : bodyThrows(exception) => WithinTest
  BY DEF bodyThrows, Flies, InTest, WithinTest
<1>5. \A s \in Signals : signalInTest(s) => WithinTest
  BY DEF signalInTest, Flies, InTest, WithinTest
<1> QED
  BY <1>2, <1>3, <1>4, <1>5 DEF RunnerNext, RunStep

(* The list is a chain, a run starts with the first test of it, the test   *)
(* that runs is wanted, and nothing is printed unless a test has failed.   *)
AnyFailed == \E i \in DOMAIN m_results : m_results[i].failed
SessionInv ==
  /\ \E order : InOrder(order, m_head, m_tail, next) /\ Elements(order) = Listed
  /\ pc = "main" => curTest = NULL
  /\ pc \in InTest => Wanted(curTest)
  /\ printed = <<>> <=> ~AnyFailed

LEMMA WantedIs ==
  ASSUME NEW test
  PROVE  Wanted(test) <=> IsTestInSuite(test) /\ test \in options.predicate
  BY DEF Wanted, IsTestInSuite

LEMMA SessionInvInit ==
  ASSUME RunnerInit
  PROVE  SessionInv
<1>1. /\ m_head = NULL /\ m_tail = NULL /\ next = [t \in Tests |-> NULL]
      /\ pc = "main" /\ curTest = NULL /\ m_results = <<>> /\ printed = <<>>
  BY DEF RunnerInit, ContextInit
<1>2. Listed = {}
  BY <1>1, RunnerAssumption DEF Listed
<1>3. Len(<<>>) = 0 /\ <<>> \in Seq(Tests) /\ Elements(<<>>) = {} /\ Distinct(<<>>)
  BY DEF Elements, Distinct
<1>4. \A i \in 1 .. Len(<<>>) : FALSE
  BY <1>3
<1>5. Chain(<<>>, next)
  BY <1>1, <1>3, <1>4 DEF Chain
<1>6. InOrder(<<>>, m_head, m_tail, next) /\ Elements(<<>>) = Listed
  BY <1>1, <1>2, <1>3, <1>5 DEF InOrder
<1>7. ~AnyFailed
  BY <1>1 DEF AnyFailed
<1> QED
  BY <1>1, <1>6, <1>7 DEF SessionInv, InTest

LEMMA FailuresPrinted ==
  ASSUME ReportInv, SessionInv, ReportStep
  PROVE  printed' = <<>> <=> ~AnyFailed'
<1>1. m_results \in Seq(Result) /\ printed \in Seq(Details)
  BY DEF ReportInv
<1>2. CASE UNCHANGED reportVars
  BY <1>2 DEF reportVars, SessionInv, AnyFailed
<1>3. CASE curTest \in Tests /\ OnTestStart(curTest)
  <2>1. PICK r \in Result : r = DeferredTestResult(curTest) /\ ~r.failed
    <3>1. DeferredTestResult(curTest) \in Result
      BY <1>3 DEF DeferredTestResult, Result
    <3>2. ~DeferredTestResult(curTest).failed
      BY DEF DeferredTestResult
    <3> QED
      BY <3>1, <3>2
  <2>2. m_results' = Append(m_results, r) /\ printed' = printed
    BY <1>3, <2>1 DEF OnTestStart
  <2>3. PICK n \in Nat : n = Len(m_results) /\ DOMAIN m_results = 1 .. n
    BY <1>1
  <2>4. DOMAIN m_results' = 1 .. n + 1 /\ m_results'[n + 1] = r
        /\ \A i \in 1 .. n : m_results'[i] = m_results[i]
    BY <1>1, <2>2, <2>3, AppendKeeps
  <2>5. \A i \in 1 .. n + 1 : i \in 1 .. n \/ i = n + 1
    BY <2>3
  <2>6. \A i \in 1 .. n : i \in 1 .. n + 1
    BY <2>3
  <2>7. AnyFailed' <=> AnyFailed
    BY <2>1, <2>3, <2>4, <2>5, <2>6 DEF AnyFailed
  <2> QED
    BY <2>2, <2>7 DEF SessionInv
<1>4. ASSUME m_results # <<>>, NEW details \in Details, OnTestFailure(details)
      PROVE  printed' = <<>> <=> ~AnyFailed'
  <2>1. PICK done \in Seq(Result), w \in Result : m_results' = Append(done, w) /\ w.failed = TRUE
    BY <1>4, FailureLast
  <2>2. Len(done) + 1 \in DOMAIN m_results' /\ m_results'[Len(done) + 1] = w
    BY <2>1, AppendKeeps
  <2>3. AnyFailed'
    BY <2>1, <2>2 DEF AnyFailed
  <2>4. printed' = Append(printed, details)
    BY <1>4 DEF OnTestFailure, ReportFailure
  <2>5. printed' # <<>>
    BY <1>1, <2>4, AppendKeeps
  <2> QED
    BY <2>3, <2>5
<1> QED
  BY <1>2, <1>3, <1>4 DEF ReportStep

LEMMA SessionInvNext ==
  ASSUME RunnerInv, SessionInv, [RunnerNext]_runnerVars
  PROVE  SessionInv'
<1>1. RegistryInv /\ BodyInv /\ ReportInv /\ MishapInv /\ ReportStep
  BY ReportSteps DEF RunnerInv
<1>2. printed' = <<>> <=> ~AnyFailed'
  BY <1>1, FailuresPrinted
<1>3. PICK order : InOrder(order, m_head, m_tail, next) /\ Elements(order) = Listed
  BY DEF SessionInv
<1>4. ASSUME UNCHANGED listVars
      PROVE  \E o : InOrder(o, m_head, m_tail, next)' /\ (Elements(o) = Listed)'
  <2>1. m_head' = m_head /\ m_tail' = m_tail /\ next' = next /\ Listed' = Listed
    BY <1>4 DEF listVars, Listed
  <2> QED
    BY <1>3, <2>1
<1>5. ASSUME NEW test \in Tests, Add(test)
      PROVE  SessionInv'
  <2>1. /\ test \notin Elements(order) /\ m_tail' = test /\ next \in [Tests -> Tests \cup {NULL}]
        /\ IF m_tail = NULL THEN m_head' = test /\ next' = next
           ELSE m_head' = m_head /\ next' = [next EXCEPT ![m_tail] = test]
        /\ pc' = pc /\ pc = "main" /\ curTest' = curTest
    BY <1>1, <1>3, <1>5 DEF Add, NewTail, RegistryInv
  <2>2. /\ InOrder(Append(order, test), m_head', test, next')
        /\ Elements(Append(order, test)) = Elements(order) \cup {test}
    BY <1>3, <2>1, Registered
  <2>3. Listed' = Listed \cup {test}
    BY <1>1, <1>5, AddStep
  <2>4. \E o : InOrder(o, m_head', m_tail', next') /\ Elements(o) = Listed'
    BY <1>3, <2>1, <2>2, <2>3
  <2> QED
    BY <1>2, <2>1, <2>4 DEF SessionInv, InTest
<1>6. ASSUME UNCHANGED listVars, pc' # "main", pc' \notin InTest
      PROVE  SessionInv'
  BY <1>2, <1>4, <1>6 DEF SessionInv
<1>7. CASE RunTest
  <2>1. /\ pc' \in {"setup", "body"} /\ UNCHANGED listVars /\ options' = options
        /\ curTest' = curTest /\ IsTestInSuite(curTest) /\ curTest \in options.predicate
    BY <1>7 DEF RunTest
  <2>2. Wanted(curTest)'
    BY <2>1, WantedIs DEF Wanted
  <2> QED
    BY <1>2, <1>4, <2>1, <2>2 DEF SessionInv, InTest
<1>8. CASE WithinTest \/ UNCHANGED runnerVars
  <2>1. /\ UNCHANGED listVars /\ options' = options /\ curTest' = curTest
        /\ pc' = pc \/ (pc \in InTest /\ pc' \in InTest)
    BY <1>8 DEF WithinTest, runnerVars
  <2>2. Wanted(curTest)' <=> Wanted(curTest)
    BY <2>1 DEF Wanted
  <2> QED
    BY <1>2, <1>4, <2>1, <2>2 DEF SessionInv, InTest
<1>9. CASE SkipTest \/ Finish \/ aborts
  <2>1. UNCHANGED listVars /\ pc' \in {"select", "exited", "aborted"}
    BY <1>9 DEF SkipTest, Finish, aborts
  <2> QED
    BY <1>6, <2>1 DEF InTest
<1>10. ASSUME NEW opts \in Options, RunAllTestsIf(opts)
       PROVE  SessionInv'
  BY <1>6, <1>10 DEF RunAllTestsIf, InTest
<1>11. ASSUME NEW late \in BOOLEAN, FinishTest(late)
       PROVE  SessionInv'
  BY <1>6, <1>11 DEF FinishTest, InTest
<1> QED
  BY <1>5, <1>7, <1>8, <1>9, <1>10, <1>11, StepKinds

-----------------------------------------------------------------------------
(* The session, in the order of registration.                              *)
Status == CASE pc = "main" -> "registering"
            [] pc = "exited" -> "ended"
            [] pc = "aborted" -> "aborted"
            [] OTHER -> "running"
Todo == {i \in Ahead : Wanted(walk[m_head][i])}
Outcomes == OutcomesOf(Finished)
Passed == pc = "exited" /\ summary = "Success"

LEMMA SessionIs ==
  /\ Session!vars = <<Status, walk[m_head], Todo, Outcomes, Passed>>
  /\ Session!vars' = <<Status', walk'[m_head'], Todo', Outcomes', Passed'>>
  BY DEF Session!vars, Status, Todo, Outcomes, OutcomesOf, Passed

LEMMA StatusIs ==
  /\ pc = "main" => Status = "registering"
  /\ pc = "exited" => Status = "ended"
  /\ pc = "aborted" => Status = "aborted"
  /\ pc \in {"select"} \cup InTest => Status = "running"
  /\ pc' = "main" => Status' = "registering"
  /\ pc' = "exited" => Status' = "ended"
  /\ pc' = "aborted" => Status' = "aborted"
  /\ pc' \in {"select"} \cup InTest => Status' = "running"
  BY DEF Status, InTest

LEMMA OutcomesAre ==
  /\ pc \in InTest \cup {"aborted"} => Outcomes = OutcomesOf(Front(m_results))
  /\ pc \notin InTest \cup {"aborted"} => Outcomes = OutcomesOf(m_results)
  /\ pc' \in InTest \cup {"aborted"} => Outcomes' = OutcomesOf(Front(m_results'))
  /\ pc' \notin InTest \cup {"aborted"} => Outcomes' = OutcomesOf(m_results')
  BY DEF Outcomes, Finished

(* The wanted tests from the current one on.                               *)
LEMMA TodoIs ==
  ASSUME RegistryInv, NEW order, InOrder(order, m_head, m_tail, next), Elements(order) = Listed
  PROVE  /\ walk[m_head] = order
         /\ curTest = NULL => Todo = {}
         /\ curTest # NULL =>
              \E k \in 1 .. Len(order) :
                /\ curTest = order[k]
                /\ Todo = {i \in 1 .. Len(order) : k <= i /\ Wanted(order[i])}
<1>1. next \in [Tests -> Tests \cup {NULL}] /\ curTest \in Listed \cup {NULL}
  BY DEF RegistryInv
<1>2. walk[m_head] = order
  BY <1>1, Places, WalkIs
<1>3. curTest = NULL => Ahead = {}
  BY <1>1, Places, AheadIs
<1>4. curTest # NULL => \E k \in 1 .. Len(order) :
        curTest = order[k] /\ Ahead = {i \in 1 .. Len(order) : k <= i}
  BY <1>1, Places, AheadIs DEF Elements
<1> QED
  BY <1>2, <1>3, <1>4 DEF Todo

(* The same after a step that leaves the list alone.                       *)
LEMMA TodoBecomes ==
  ASSUME RegistryInv, NEW order, InOrder(order, m_head, m_tail, next), Elements(order) = Listed,
         UNCHANGED listVars
  PROVE  /\ walk'[m_head'] = order
         /\ curTest' = NULL => Todo' = {}
         /\ \A k \in 1 .. Len(order) :
              curTest' = order[k] =>
                Todo' = {i \in 1 .. Len(order) : k <= i /\ Wanted(order[i])'}
<1>1. /\ next \in [Tests -> Tests \cup {NULL}]
      /\ next' = next /\ m_head' = m_head /\ m_tail' = m_tail
  BY DEF RegistryInv, listVars
<1>2. walk'[m_head'] = order
  BY <1>1, Places, WalkIs
<1>3. curTest' = NULL => Ahead' = {}
  BY <1>1, Places, AheadIs
<1>4. \A k \in 1 .. Len(order) :
        curTest' = order[k] => Ahead' = {i \in 1 .. Len(order) : k <= i}
  BY <1>1, Places, AheadIs
<1> QED
  BY <1>2, <1>3, <1>4 DEF Todo

LEMMA NothingMoves ==
  ASSUME RegistryInv, NEW order, InOrder(order, m_head, m_tail, next), Elements(order) = Listed,
         UNCHANGED <<listVars, options, curTest>>
  PROVE  walk'[m_head'] = order /\ walk[m_head] = order /\ Todo' = Todo
<1>1. UNCHANGED listVars /\ curTest' = curTest
      /\ \A t : Wanted(t)' <=> Wanted(t)
  BY DEF Wanted
<1>2. walk[m_head] = order /\ walk'[m_head'] = order
  BY <1>1, TodoIs, TodoBecomes
<1>3. curTest = NULL => Todo' = Todo
  BY <1>1, TodoIs, TodoBecomes
<1>4. ASSUME curTest # NULL
      PROVE  Todo' = Todo
  <2>1. PICK k \in 1 .. Len(order) :
          /\ curTest = order[k]
          /\ Todo = {i \in 1 .. Len(order) : k <= i /\ Wanted(order[i])}
    BY <1>4, TodoIs
  <2>2. Todo' = {i \in 1 .. Len(order) : k <= i /\ Wanted(order[i])'}
    BY <1>1, <2>1, TodoBecomes
  <2> QED
    BY <1>1, <2>1, <2>2
<1> QED
  BY <1>2, <1>3, <1>4

(* The steps of the session.                                               *)
SessionStep == Session!Next \/ UNCHANGED Session!vars

LEMMA AddRegisters ==
  ASSUME RunnerInv, SessionInv, NEW test \in Tests, Add(test)
  PROVE  SessionStep
<1>1. PICK order : InOrder(order, m_head, m_tail, next) /\ Elements(order) = Listed
  BY DEF SessionInv
<1>2. /\ RegistryInv /\ next \in [Tests -> Tests \cup {NULL}] /\ pc = "main" /\ curTest = NULL
      /\ order \in Seq(Tests)
  BY <1>1 DEF RunnerInv, RegistryInv, SessionInv, Add, InOrder, Chain
<1>3. /\ test \notin Elements(order) /\ m_tail' = test
      /\ IF m_tail = NULL THEN m_head' = test /\ next' = next
         ELSE m_head' = m_head /\ next' = [next EXCEPT ![m_tail] = test]
      /\ pc' = pc /\ curTest' = curTest /\ m_results' = m_results
  BY <1>1 DEF Add, NewTail, reportVars
<1>4. InOrder(Append(order, test), m_head', m_tail', next')
  BY <1>1, <1>2, <1>3, Registered
<1>5. next' \in [Tests -> Tests \cup {NULL}]
  BY <1>2, <1>3
<1>6. /\ walk[m_head] = order /\ walk'[m_head'] = Append(order, test)
      /\ Ahead = {} /\ Ahead' = {}
  BY <1>1, <1>2, <1>3, <1>4, <1>5, Places, WalkIs, AheadIs
<1>7. Todo = {} /\ Todo' = {}
  BY <1>6 DEF Todo
<1>8. Status = "registering" /\ Status' = "registering" /\ Passed' = Passed
  BY <1>2, <1>3, StatusIs DEF Passed
<1>9. Outcomes' = Outcomes
  BY <1>2, <1>3, OutcomesAre DEF InTest
<1>10. \A i \in DOMAIN order : order[i] # test
  BY <1>2, <1>3 DEF Elements
<1>11. Session!Register(test)
  BY <1>6, <1>7, <1>8, <1>9, <1>10
     DEF Session!Register, Status, Todo, Outcomes, OutcomesOf, Passed
<1> QED
  BY <1>11 DEF SessionStep, Session!Next

LEMMA RunAllTestsStarts ==
  ASSUME RunnerInv, SessionInv, NEW opts \in Options, RunAllTestsIf(opts)
  PROVE  SessionStep
<1>1. PICK order : InOrder(order, m_head, m_tail, next) /\ Elements(order) = Listed
  BY DEF SessionInv
<1>2. /\ RegistryInv /\ UNCHANGED listVars /\ pc = "main" /\ pc' = "select" /\ curTest' = m_head
      /\ order \in Seq(Tests) /\ m_results' = m_results
  BY <1>1 DEF RunnerInv, RunAllTestsIf, InOrder, Chain, reportVars
<1>3. walk[m_head] = order /\ walk'[m_head'] = order
  BY <1>1, <1>2, TodoIs, TodoBecomes
<1> DEFINE wanted == {t \in Tests : Wanted(t)'}
<1>4. Todo' = {i \in DOMAIN order : order[i] \in wanted}
  <2>1. PICK n \in Nat : n = Len(order) /\ DOMAIN order = 1 .. n
    BY <1>2
  <2>2. CASE n = 0
    <3>1. curTest' = NULL
      BY <1>1, <1>2, <2>1, <2>2 DEF InOrder
    <3>2. Todo' = {}
      BY <1>1, <1>2, <3>1, TodoBecomes
    <3> QED
      BY <2>1, <2>2, <3>2
  <2>3. CASE n # 0
    <3>1. curTest' = order[1] /\ 1 \in 1 .. Len(order)
      BY <1>1, <1>2, <2>1, <2>3 DEF InOrder
    <3>2. Todo' = {i \in 1 .. Len(order) : 1 <= i /\ Wanted(order[i])'}
      BY <1>1, <1>2, <3>1, TodoBecomes
    <3>3. \A i \in 1 .. n : 1 <= i /\ order[i] \in Tests
      BY <1>2, <2>1
    <3> QED
      BY <2>1, <3>2, <3>3
  <2> QED
    BY <2>2, <2>3
<1>5. wanted \in SUBSET Tests
  OBVIOUS
<1> HIDE DEF wanted
<1>6. Status = "registering" /\ Status' = "running" /\ Passed' = Passed
  BY <1>2, StatusIs DEF Passed
<1>7. Outcomes' = Outcomes
  BY <1>2, OutcomesAre DEF InTest
<1>8. Session!Start(wanted)
  BY <1>3, <1>4, <1>6, <1>7 DEF Session!Start, Status, Todo, Outcomes, OutcomesOf, Passed
<1> QED
  BY <1>5, <1>8 DEF SessionStep, Session!Next

(* The steps a session does not see.                                       *)
LEMMA Unseen ==
  ASSUME RunnerInv, CurrentInv, SessionInv, [RunnerNext]_runnerVars,
         SkipTest \/ RunTest \/ WithinTest \/ UNCHANGED runnerVars
  PROVE  SessionStep
<1>1. PICK order : InOrder(order, m_head, m_tail, next) /\ Elements(order) = Listed
  BY DEF SessionInv
<1>2. RegistryInv /\ ReportInv
  BY DEF RunnerInv
<1>3. ASSUME walk'[m_head'] = walk[m_head], Todo' = Todo, Status' = Status,
             Outcomes' = Outcomes, Passed' = Passed
      PROVE  SessionStep
  BY <1>3, SessionIs DEF SessionStep
<1>4. CASE SkipTest
  <2>1. /\ UNCHANGED listVars /\ options' = options /\ curTest' = next[curTest]
        /\ curTest # NULL /\ ~Wanted(curTest) /\ pc = "select" /\ pc' = "select"
        /\ m_results' = m_results
    BY <1>4, WantedIs DEF SkipTest, reportVars
  <2>2. PICK k \in 1 .. Len(order) :
          /\ curTest = order[k]
          /\ Todo = {i \in 1 .. Len(order) : k <= i /\ Wanted(order[i])}
    BY <1>1, <1>2, <2>1, TodoIs
  <2>3. PICK n \in Nat : n = Len(order)
    BY <1>1 DEF InOrder, Chain
  <2>4. \A i \in 1 .. n : Wanted(order[i])' <=> Wanted(order[i])
    BY <2>1 DEF Wanted
  <2>5. CASE k = n
    <3>1. next[order[k]] = NULL
      BY <1>1, <2>3, <2>5 DEF InOrder, Chain
    <3>2. Todo' = {}
      BY <1>1, <1>2, <2>1, <2>2, <3>1, TodoBecomes
    <3>3. \A i \in 1 .. n : k <= i => i = k
      BY <2>3, <2>5
    <3> QED
      BY <1>1, <1>2, <1>3, <2>1, <2>2, <2>3, <3>2, <3>3, TodoIs, TodoBecomes, StatusIs,
         OutcomesAre DEF InTest, Passed
  <2>6. CASE k # n
    <3>1. next[order[k]] = order[k + 1] /\ k + 1 \in 1 .. n
      BY <1>1, <2>2, <2>3, <2>6 DEF InOrder, Chain
    <3>2. Todo' = {i \in 1 .. Len(order) : k + 1 <= i /\ Wanted(order[i])'}
      BY <1>1, <1>2, <2>1, <2>2, <2>3, <3>1, TodoBecomes
    <3>3. \A i \in 1 .. n : k <= i <=> i = k \/ k + 1 <= i
      BY <2>2, <2>3
    <3>4. Todo' = Todo
      BY <2>1, <2>2, <2>3, <2>4, <3>2, <3>3
    <3>5. walk'[m_head'] = walk[m_head]
      BY <1>1, <1>2, <2>1, TodoIs, TodoBecomes
    <3>6. Status' = Status /\ Outcomes' = Outcomes /\ Passed' = Passed
      BY <2>1, StatusIs, OutcomesAre DEF InTest, Passed
    <3> QED
      BY <1>3, <3>4, <3>5, <3>6
  <2> QED
    BY <2>5, <2>6
<1>5. ASSUME UNCHANGED <<listVars, options, curTest>>
      PROVE  walk'[m_head'] = walk[m_head] /\ Todo' = Todo
  BY <1>1, <1>2, <1>5, NothingMoves
<1>6. CASE RunTest
  <2>1. /\ UNCHANGED <<listVars, options, curTest>> /\ pc = "select" /\ pc' \in InTest
        /\ curTest # NULL /\ OnTestStart(curTest)
    BY <1>6 DEF RunTest, InTest
  <2>2. curTest \in Tests
    BY <1>2, <2>1, RegistryFacts DEF RegistryInv
  <2>3. DeferredTestResult(curTest) \in Result
    BY <2>2 DEF DeferredTestResult, Result
  <2>4. m_results' = Append(m_results, DeferredTestResult(curTest)) /\ m_results \in Seq(Result)
    BY <1>2, <2>1 DEF OnTestStart, ReportInv
  <2>5. Front(m_results') = m_results
    BY <2>3, <2>4, FrontAppend
  <2>6. Outcomes' = Outcomes
    BY <2>1, <2>5, OutcomesAre DEF InTest
  <2>7. Status' = Status /\ Passed' = Passed
    BY <2>1, StatusIs DEF InTest, Passed
  <2> QED
    BY <1>3, <1>5, <2>1, <2>6, <2>7
<1>7. CASE WithinTest
  <2>1. /\ UNCHANGED <<listVars, options, curTest>> /\ pc \in InTest /\ pc' \in InTest
    BY <1>7 DEF WithinTest
  <2>2. Front(m_results') = Front(m_results)
    BY <2>1, TestReports
  <2>3. Outcomes' = Outcomes
    BY <2>1, <2>2, OutcomesAre
  <2>4. Status' = Status /\ Passed' = Passed
    BY <2>1, StatusIs DEF InTest, Passed
  <2> QED
    BY <1>3, <1>5, <2>1, <2>3, <2>4
<1>8. CASE UNCHANGED runnerVars
  <2>1. /\ UNCHANGED <<listVars, options, curTest>> /\ pc' = pc /\ m_results' = m_results
        /\ summary' = summary
    BY <1>8 DEF runnerVars, reportVars, endVars
  <2>2. Status' = Status /\ Passed' = Passed
    BY <2>1 DEF Status, Passed
  <2>3. Outcomes' = Outcomes
    BY <2>1, OutcomesAre
  <2> QED
    BY <1>3, <1>5, <2>1, <2>2, <2>3
<1> QED
  BY <1>4, <1>6, <1>7, <1>8

LEMMA FinishTestRuns ==
  ASSUME RunnerInv, CurrentInv, SessionInv, [RunnerNext]_runnerVars,
         NEW late \in BOOLEAN, FinishTest(late)
  PROVE  SessionStep
<1>1. PICK order : InOrder(order, m_head, m_tail, next) /\ Elements(order) = Listed
  BY DEF SessionInv
<1>2. /\ RegistryInv /\ UNCHANGED listVars /\ options' = options /\ curTest' = next[curTest]
      /\ pc = "finish" /\ pc \in InTest /\ pc' = "select" /\ curTest # NULL /\ Wanted(curTest)
  BY DEF RunnerInv, BodyInv, FinishTest, SessionInv, InTest
<1>3. PICK k \in 1 .. Len(order) :
        /\ curTest = order[k]
        /\ Todo = {i \in 1 .. Len(order) : k <= i /\ Wanted(order[i])}
  BY <1>1, <1>2, TodoIs
<1>4. PICK n \in Nat : n = Len(order) /\ DOMAIN order = 1 .. n
  BY <1>1 DEF InOrder, Chain
<1>5. \A i \in 1 .. n : Wanted(order[i])' <=> Wanted(order[i])
  BY <1>2 DEF Wanted
<1>6. k \in Todo /\ \A j \in Todo : k <= j
  BY <1>2, <1>3, <1>4
<1>7. Todo' = Todo \ {k}
  <2>1. CASE k = n
    <3>1. next[order[k]] = NULL
      BY <1>1, <1>4, <2>1 DEF InOrder, Chain
    <3>2. Todo' = {}
      BY <1>1, <1>2, <1>3, <3>1, TodoBecomes
    <3>3. \A i \in 1 .. n : k <= i => i = k
      BY <1>4, <2>1
    <3> QED
      BY <1>3, <1>4, <3>2, <3>3
  <2>2. CASE k # n
    <3>1. next[order[k]] = order[k + 1] /\ k + 1 \in 1 .. n
      BY <1>1, <1>3, <1>4, <2>2 DEF InOrder, Chain
    <3>2. Todo' = {i \in 1 .. Len(order) : k + 1 <= i /\ Wanted(order[i])'}
      BY <1>1, <1>2, <1>3, <1>4, <3>1, TodoBecomes
    <3>3. \A i \in 1 .. n : (k <= i /\ i # k) <=> k + 1 <= i
      BY <1>3, <1>4
    <3> QED
      BY <1>3, <1>4, <1>5, <3>2, <3>3
  <2> QED
    BY <2>1, <2>2
<1>8. PICK done \in Seq(Result), w \in Result :
        m_results' = Append(done, w) /\ Front(m_results) = done /\ w.testName = curTest
  BY <1>2, TestReports
<1>9. Outcomes' = Append(Outcomes, [test |-> order[k], failed |-> w.failed])
  <2>1. Outcomes = OutcomesOf(done) /\ Outcomes' = OutcomesOf(m_results')
    BY <1>2, <1>8, OutcomesAre DEF InTest
  <2> QED
    BY <1>3, <1>8, <2>1, OutcomesAppend
<1>10. PICK failed \in BOOLEAN : failed = w.failed
  BY DEF Result
<1>11. Status = "running" /\ Status' = "running" /\ Passed' = Passed
  BY <1>2, StatusIs DEF InTest, Passed
<1>12. walk[m_head] = order /\ walk'[m_head'] = order
  BY <1>1, <1>2, TodoIs, TodoBecomes
<1>13. Session!Run(k, failed)
  BY <1>6, <1>7, <1>9, <1>10, <1>11, <1>12
     DEF Session!Run, Status, Todo, Outcomes, OutcomesOf, Passed
<1>14. \E i \in Todo, f \in BOOLEAN : Session!Run(i, f)
  BY <1>6, <1>10, <1>13
<1> QED
  BY <1>14 DEF SessionStep, Session!Next, Todo

LEMMA AbortAborts ==
  ASSUME RunnerInv, CurrentInv, SessionInv, [RunnerNext]_runnerVars, aborts
  PROVE  SessionStep
<1>1. PICK order : InOrder(order, m_head, m_tail, next) /\ Elements(order) = Listed
  BY DEF SessionInv
<1>2. /\ RegistryInv /\ UNCHANGED <<listVars, options, curTest>> /\ pc \in InTest
      /\ pc' = "aborted" /\ curTest # NULL /\ Wanted(curTest) /\ m_results' = m_results
  BY DEF RunnerInv, BodyInv, aborts, SessionInv, InTest, reportVars
<1>3. PICK k \in 1 .. Len(order) :
        /\ curTest = order[k]
        /\ Todo = {i \in 1 .. Len(order) : k <= i /\ Wanted(order[i])}
  BY <1>1, <1>2, TodoIs
<1>4. Todo # {}
  <2>1. PICK n \in Nat : n = Len(order)
    BY <1>1 DEF InOrder, Chain
  <2>2. k \in Todo
    BY <1>2, <1>3, <2>1
  <2> QED
    BY <2>2
<1>5. Todo' = Todo /\ walk[m_head] = order /\ walk'[m_head'] = order
  BY <1>1, <1>2, NothingMoves
<1>6. Outcomes' = Outcomes
  BY <1>2, OutcomesAre
<1>7. Status = "running" /\ Status' = "aborted" /\ Passed' = Passed
  BY <1>2, StatusIs DEF InTest, Passed
<1>8. Session!Abort
  BY <1>4, <1>5, <1>6, <1>7 DEF Session!Abort, Status, Todo, Outcomes, OutcomesOf, Passed
<1> QED
  BY <1>8 DEF SessionStep, Session!Next

LEMMA FinishEnds ==
  ASSUME RunnerInv, CurrentInv, SessionInv, Finish
  PROVE  SessionStep
<1>1. PICK order : InOrder(order, m_head, m_tail, next) /\ Elements(order) = Listed
  BY DEF SessionInv
<1>2. /\ RegistryInv /\ UNCHANGED <<listVars, options, curTest>> /\ pc = "select"
      /\ pc' = "exited" /\ curTest = NULL /\ m_results' = m_results /\ summary' = ReportSummary
  BY DEF RunnerInv, Finish, reportVars
<1>3. Todo = {}
  BY <1>1, <1>2, TodoIs
<1>4. Todo' = Todo /\ walk[m_head] = order /\ walk'[m_head'] = order
  BY <1>1, <1>2, NothingMoves
<1>5. Outcomes' = Outcomes /\ Outcomes = OutcomesOf(m_results)
  BY <1>2, OutcomesAre DEF InTest
<1>6. Status = "running" /\ Status' = "ended"
  BY <1>2, StatusIs
<1>7. (\A i \in DOMAIN Outcomes : ~Outcomes[i].failed) <=> ~AnyFailed
  BY <1>5 DEF OutcomesOf, AnyFailed
<1>8. Passed' <=> ~AnyFailed
  <2>1. PICK n \in Nat : n = Len(printed) /\ (n = 0 <=> printed = <<>>)
    BY DEF RunnerInv, ReportInv
  <2>2. results.m_failureCount = n
    BY <2>1 DEF RunnerInv, ReportInv, CountsAgree
  <2>3. ReportSummary = "Success" <=> printed = <<>>
    BY <2>1, <2>2 DEF ReportSummary
  <2>4. Passed' <=> ReportSummary = "Success"
    BY <1>2 DEF Passed
  <2> QED
    BY <2>3, <2>4 DEF SessionInv
<1>9. Passed' = \A i \in DOMAIN Outcomes : ~Outcomes[i].failed
  BY <1>7, <1>8 DEF Passed
<1>10. Session!End
  BY <1>3, <1>4, <1>5, <1>6, <1>9 DEF Session!End, Status, Todo, Outcomes, OutcomesOf, Passed
<1> QED
  BY <1>10 DEF SessionStep, Session!Next

LEMMA SessionStarts ==
  ASSUME RunnerInit
  PROVE  Session!Init
<1>1. RunnerInv /\ SessionInv
  BY RunnerInvInit, SessionInvInit
<1>2. /\ m_head = NULL /\ pc = "main" /\ curTest = NULL /\ m_results = <<>>
  BY DEF RunnerInit, ContextInit
<1>3. PICK order : InOrder(order, m_head, m_tail, next) /\ Elements(order) = Listed
  BY <1>1 DEF SessionInv
<1>4. order = <<>>
  <2>1. PICK n \in Nat : n = Len(order) /\ order \in Seq(Tests)
    BY <1>3 DEF InOrder, Chain
  <2>2. \A s \in Seq(Tests) : Len(s) = 0 => s = <<>>
    OBVIOUS
  <2>3. CASE n # 0
    <3>1. order[1] \in Tests /\ m_head = order[1]
      BY <1>3, <2>1, <2>3 DEF InOrder
    <3> QED
      BY <1>2, <3>1, RunnerAssumption
  <2>4. CASE n = 0
    BY <2>1, <2>2, <2>4
  <2> QED
    BY <2>3, <2>4
<1>5. walk[m_head] = <<>> /\ Todo = {}
  BY <1>1, <1>2, <1>3, <1>4, TodoIs DEF RunnerInv
<1>6. Outcomes = <<>>
  <2>1. Outcomes = OutcomesOf(<<>>)
    BY <1>2, OutcomesAre DEF InTest
  <2> QED
    BY <2>1 DEF OutcomesOf
<1>7. Status = "registering" /\ Passed = FALSE
  BY <1>2, StatusIs DEF Passed
<1> QED
  BY <1>5, <1>6, <1>7 DEF Session!Init, Status, Todo, Outcomes, OutcomesOf, Passed

LEMMA SessionNext ==
  ASSUME RunnerInv, CurrentInv, SessionInv, [RunnerNext]_runnerVars
  PROVE  SessionStep
  BY AddRegisters, RunAllTestsStarts, Unseen, FinishTestRuns, AbortAborts, FinishEnds, StepKinds

LEMMA SessionInvariant == RunnerSpec => []SessionInv
<1>1. RunnerInit => SessionInv
  BY SessionInvInit
<1>2. RunnerInv /\ SessionInv /\ [RunnerNext]_runnerVars => SessionInv'
  BY SessionInvNext
<1> QED
  BY <1>1, <1>2, RunnerInvariant, PTL DEF RunnerSpec

(* A run is a session, for any tests, any of which may be wanted and may   *)
(* fail in any way: they run once each in the order of registration, and   *)
(* Success is printed if and only if none of them failed.                  *)
THEOREM RunIsASession == RunnerSpec => ImplementsSession
<1>1. RunnerInit => Session!Init
  BY SessionStarts
<1>2. RunnerInv /\ CurrentInv /\ SessionInv /\ [RunnerNext]_runnerVars
        => [Session!Next]_(Session!vars)
  BY SessionNext DEF SessionStep
<1> QED
  BY <1>1, <1>2, RunnerInvariant, CurrentInvariant, SessionInvariant, PTL
     DEF RunnerSpec, ImplementsSession, Session!Spec

-----------------------------------------------------------------------------
(* The two reports. *)

(* A failure adds an element and moves the others of its test to its file. *)
(* Those of the tests before, n of them, stay as they are.                 *)
XmlGrows(x, y, details, test, n) ==
  LET all == Len(x)
  IN  /\ n \in 0 .. all /\ Len(y) = all + 1
      /\ y[all + 1] = [testName |-> test, filename |-> details.filename,
                       lineNumber |-> details.lineNumber]
      /\ \A i \in 1 .. n : y[i] = x[i] /\ x[i].testName # test
      /\ \A i \in n + 1 .. all :
           /\ x[i].testName = test /\ y[i].testName = test
           /\ y[i].lineNumber = x[i].lineNumber
           /\ y[i].filename = details.filename

LEMMA OtherElements ==
  ASSUME NEW test, NEW rs \in Seq(Result), \A i \in DOMAIN rs : rs[i].testName # test
  PROVE  \A i \in DOMAIN FlattenSeq(AllElements(rs)) :
           FlattenSeq(AllElements(rs))[i].testName # test
<1> DEFINE Other == {e \in Element : e.testName # test}
<1>1. PICK n \in Nat : n = Len(rs) /\ DOMAIN rs = 1 .. n /\ \A i \in 1 .. n : rs[i] \in Result
  OBVIOUS
<1>2. ASSUME NEW i \in 1 .. n
      PROVE  ElementsOf(rs[i]) \in Seq(Other)
  <2>1. PICK r \in Result : r = rs[i] /\ r.testName # test
    BY <1>1
  <2>2. /\ ElementsOf(r) \in Seq(Element)
        /\ r.failures \in Seq(Lines) /\ r.testName \in Tests
    BY ElementsType DEF Result
  <2>3. \A k \in DOMAIN ElementsOf(r) : ElementsOf(r)[k].testName = r.testName
    <3>1. CASE r.failed
      BY <3>1 DEF ElementsOf, AddFailure
    <3>2. CASE ~r.failed
      BY <3>2 DEF ElementsOf
    <3> QED
      BY <3>1, <3>2
  <2>4. PICK u \in Seq(Element) : u = ElementsOf(r) /\ \A k \in DOMAIN u : u[k].testName # test
    BY <2>1, <2>2, <2>3
  <2>5. u \in Seq(Other)
    BY <2>4
  <2> QED
    BY <2>1, <2>4, <2>5
<1> HIDE DEF Other
<1>3. AllElements(rs) \in [1 .. n -> Seq(Other)]
  BY <1>1, <1>2 DEF AllElements
<1>4. AllElements(rs) \in Seq(Seq(Other))
  BY <1>3
<1>5. PICK u \in Seq(Other) : u = FlattenSeq(AllElements(rs))
  BY <1>4, FlattenType
<1> QED
  BY <1>5 DEF Other

LEMMA XmlFailure ==
  ASSUME ReportInv, m_results # <<>>, NEW details \in Details, OnTestFailure(details),
         \A i \in DOMAIN m_results : i # Len(m_results) =>
           m_results[i].testName # Last(m_results).testName
  PROVE  \E n \in Nat :
           XmlGrows(XmlReport, XmlReport', details, Last(m_results).testName, n)
<1>1. PICK done \in Seq(Result), r \in Result :
        /\ m_results = Append(done, r) /\ r = Last(m_results) /\ r = m_results[Len(m_results)]
        /\ Len(done) + 1 = Len(m_results)
        /\ r.failed <=> r.failures # <<>>
  BY XmlSplit
<1>2. PICK w : w = WithFailure(r, details)
  OBVIOUS
<1>3. m_results' = [m_results EXCEPT ![Len(m_results)] = w]
  <2>1. m_results' =
          [m_results EXCEPT ![Len(m_results)] = WithFailure(m_results[Len(m_results)], details)]
    BY DEF OnTestFailure
  <2> QED
    BY <1>1, <1>2, <2>1
<1>4. /\ w \in Result /\ w.failed = TRUE
      /\ w.failures = Append(r.failures, details.lineNumber) /\ w.failures # <<>>
      /\ w.testName = r.testName /\ w.failureFile = details.filename
  BY <1>2, FailureRecorded
<1>5. m_results' = Append(done, w)
  BY <1>1, <1>3, <1>4, LastReplaced
<1>6. PICK x \in Seq(Element), a \in Seq(Element), b \in Seq(Element) :
        /\ x = FlattenSeq(AllElements(done)) /\ a = ElementsOf(r) /\ b = ElementsOf(w)
        /\ XmlReport = x \o a /\ XmlReport' = x \o b
  BY <1>1, <1>4, <1>5, XmlAppend, XmlReportIs
<1>7. PICK k \in Nat : /\ k = Len(r.failures) /\ Len(a) = k
                      /\ \A i \in 1 .. k : /\ a[i].testName = r.testName
                                          /\ a[i].lineNumber = r.failures[i]
  <2>1. /\ Len(ElementsOf(r)) = Len(r.failures)
        /\ \A i \in 1 .. Len(r.failures) : /\ ElementsOf(r)[i].testName = r.testName
                                           /\ ElementsOf(r)[i].lineNumber = r.failures[i]
    BY <1>1, ElementsType
  <2>2. Len(r.failures) \in Nat
    BY <2>1, ElementsType
  <2> QED
    BY <1>6, <2>1, <2>2
<1>8. /\ Len(w.failures) = k + 1 /\ w.failures[k + 1] = details.lineNumber
      /\ \A i \in 1 .. k : w.failures[i] = r.failures[i]
  <2>1. r.failures \in Seq(Lines) /\ details.lineNumber \in Lines
    BY DEF Result, Details
  <2> QED
    BY <1>4, <1>7, <2>1, AppendKeeps
<1>9. /\ Len(b) = k + 1
      /\ \A i \in 1 .. k + 1 : /\ b[i].testName = r.testName
                              /\ b[i].filename = details.filename
                              /\ b[i].lineNumber = w.failures[i]
  <2>1. w.failed <=> w.failures # <<>>
    BY <1>4
  <2>2. /\ Len(ElementsOf(w)) = Len(w.failures)
        /\ \A i \in 1 .. Len(w.failures) : /\ ElementsOf(w)[i].testName = w.testName
                                           /\ ElementsOf(w)[i].filename = w.failureFile
                                           /\ ElementsOf(w)[i].lineNumber = w.failures[i]
    BY <1>4, <2>1, ElementsType
  <2> QED
    BY <1>4, <1>6, <1>8, <2>2
<1>10. b[k + 1] \in Element
  BY <1>6, <1>9
<1>11. PICK n \in Nat : n = Len(x) /\ \A i \in 1 .. n : x[i].testName # r.testName
  <2>1. \A i \in DOMAIN done : done[i].testName # r.testName
    <3>1. PICK m \in Nat : m = Len(done) /\ DOMAIN done = 1 .. m
      OBVIOUS
    <3>2. /\ DOMAIN m_results = 1 .. m + 1 /\ Len(m_results) = m + 1
          /\ \A i \in 1 .. m : m_results[i] = done[i]
      BY <1>1, <3>1, AppendKeeps
    <3>3. \A i \in 1 .. m : i \in 1 .. m + 1 /\ i # m + 1
      BY <3>1
    <3> QED
      BY <1>1, <3>1, <3>2, <3>3
  <2>2. \A i \in DOMAIN FlattenSeq(AllElements(done)) :
          FlattenSeq(AllElements(done))[i].testName # r.testName
    BY <2>1, OtherElements
  <2>3. \A i \in DOMAIN x : x[i].testName # r.testName
    BY <1>6, <2>2
  <2>4. PICK n \in Nat : n = Len(x) /\ DOMAIN x = 1 .. n
    OBVIOUS
  <2> QED
    BY <2>3, <2>4
<1>12. /\ Len(x \o a) = n + k /\ Len(x \o b) = n + k + 1
       /\ \A i \in 1 .. n : (x \o a)[i] = x[i] /\ (x \o b)[i] = x[i]
       /\ \A i \in 1 .. k : (x \o a)[n + i] = a[i] /\ (x \o b)[n + i] = b[i]
       /\ (x \o b)[n + (k + 1)] = b[k + 1]
  <2>1. Len(x \o a) = Len(x) + Len(a) /\ Len(x \o b) = Len(x) + Len(b)
    OBVIOUS
  <2>2. \A i \in 1 .. Len(x) : (x \o a)[i] = x[i] /\ (x \o b)[i] = x[i]
    OBVIOUS
  <2>3. \A i \in 1 .. Len(a) : (x \o a)[Len(x) + i] = a[i]
    OBVIOUS
  <2>4. \A i \in 1 .. Len(b) : (x \o b)[Len(x) + i] = b[i]
    OBVIOUS
  <2> QED
    BY <1>7, <1>9, <1>11, <2>1, <2>2, <2>3, <2>4
<1>13. PICK X \in Seq(Element), Y \in Seq(Element) : X = x \o a /\ Y = x \o b
  <2>1. x \o a \in Seq(Element)
    OBVIOUS
  <2>2. x \o b \in Seq(Element)
    OBVIOUS
  <2> QED
    BY <2>1, <2>2
<1>14. /\ Len(X) = n + k /\ Len(Y) = Len(X) + 1
       /\ Y[Len(X) + 1] = b[k + 1]
       /\ \A i \in 1 .. n : X[i] = x[i] /\ Y[i] = x[i]
       /\ \A i \in 1 .. k : X[n + i] = a[i] /\ Y[n + i] = b[i]
  <2>1. /\ Len(X) = n + k /\ Len(Y) = n + k + 1 /\ Y[n + (k + 1)] = b[k + 1]
        /\ \A i \in 1 .. n : X[i] = x[i] /\ Y[i] = x[i]
        /\ \A i \in 1 .. k : X[n + i] = a[i] /\ Y[n + i] = b[i]
    BY <1>12, <1>13
  <2>2. n + (k + 1) = Len(X) + 1 /\ Len(Y) = Len(X) + 1
    BY <2>1
  <2> QED
    BY <2>1, <2>2
<1>15. b[k + 1] = [testName |-> r.testName, filename |-> details.filename,
                   lineNumber |-> details.lineNumber]
  <2>1. /\ b[k + 1].testName = r.testName /\ b[k + 1].filename = details.filename
        /\ b[k + 1].lineNumber = details.lineNumber
    BY <1>8, <1>9
  <2> QED
    BY <1>10, <2>1 DEF Element
<1>16. \A i \in 1 .. n : Y[i] = X[i] /\ X[i].testName # r.testName
  BY <1>11, <1>14
<1>17. ASSUME NEW i \in n + 1 .. n + k
       PROVE  /\ X[i].testName = r.testName /\ Y[i].testName = r.testName
              /\ Y[i].lineNumber = X[i].lineNumber /\ Y[i].filename = details.filename
  <2>1. PICK j \in 1 .. k : i = n + j
    <3>1. i - n \in 1 .. k /\ i = n + (i - n)
      OBVIOUS
    <3> QED
      BY <3>1
  <2>2. j \in 1 .. k + 1 /\ X[i] = a[j] /\ Y[i] = b[j]
    BY <1>14, <2>1
  <2> QED
    BY <1>7, <1>8, <1>9, <2>1, <2>2
<1>18. n \in 0 .. Len(X)
  BY <1>14
<1>19. XmlGrows(X, Y, details, r.testName, n)
  BY <1>14, <1>15, <1>16, <1>17, <1>18 DEF XmlGrows
<1> QED
  BY <1>1, <1>6, <1>13, <1>19

(* Tests from the current one on have no result yet, but for the one that  *)
(* runs.                                                                   *)
Coming == Elements(walk[curTest])
OnceInv ==
  /\ pc = "main" => m_results = <<>>
  /\ pc = "select" => \A i \in DOMAIN m_results : m_results[i].testName \notin Coming
  /\ pc \in InTest => \A i \in DOMAIN m_results :
       i # Len(m_results) => m_results[i].testName \notin Coming

LEMMA ComingIs ==
  ASSUME RegistryInv, SessionInv
  PROVE  /\ curTest # NULL => curTest \in Coming
         /\ UNCHANGED <<listVars, curTest>> => Coming' = Coming
         /\ UNCHANGED listVars /\ curTest # NULL /\ curTest' = next[curTest]
              => Coming' \subseteq Coming \ {curTest}
<1>1. PICK order : InOrder(order, m_head, m_tail, next) /\ Elements(order) = Listed
  BY DEF SessionInv
<1>2. /\ next \in [Tests -> Tests \cup {NULL}] /\ curTest \in Listed \cup {NULL}
  BY DEF RegistryInv
<1>3. order \in Seq(Tests) /\ Distinct(order) /\ Chain(order, next)
  BY <1>1 DEF InOrder, Chain
<1>4. PICK n \in Nat : n = Len(order)
  BY <1>3
<1>5. /\ walk[NULL] = <<>>
      /\ \A i \in 1 .. n : walk[order[i]] = SubSeq(order, i, n)
      /\ UNCHANGED listVars => walk' = walk
  BY <1>2, <1>3, <1>4, WalkIs, WalkChain DEF listVars
<1>6. ASSUME NEW k \in 1 .. n
      PROVE  Elements(walk[order[k]]) = {order[i] : i \in k .. n}
  <2>1. PICK u \in Seq(Tests) :
          u = SubSeq(order, k, n) /\ Len(u) = n - k + 1
          /\ \A i \in 1 .. n - k + 1 : u[i] = order[k + i - 1]
    <3>1. SubSeq(order, k, n) \in Seq(Tests)
      BY <1>3, <1>4
    <3>2. PICK u \in Seq(Tests) : u = SubSeq(order, k, n)
      BY <3>1
    <3>3. Len(u) = n - k + 1
      BY <1>3, <1>4, <3>2
    <3>4. \A i \in 1 .. n - k + 1 : u[i] = order[k + i - 1]
      BY <1>3, <1>4, <3>2
    <3> QED
      BY <3>2, <3>3, <3>4
  <2>2. ASSUME NEW i \in k .. n
        PROVE  i - k + 1 \in 1 .. n - k + 1 /\ k + (i - k + 1) - 1 = i
    OBVIOUS
  <2>3. ASSUME NEW i \in 1 .. n - k + 1
        PROVE  k + i - 1 \in k .. n
    OBVIOUS
  <2>4. Elements(u) = {order[i] : i \in k .. n}
    <3>1. ASSUME NEW t \in Elements(u)
          PROVE  t \in {order[i] : i \in k .. n}
      BY <2>1, <2>3 DEF Elements
    <3>2. ASSUME NEW i \in k .. n
          PROVE  order[i] \in Elements(u)
      <4>1. u[i - k + 1] = order[i] /\ i - k + 1 \in 1 .. Len(u)
        BY <2>1, <2>2
      <4> QED
        BY <4>1 DEF Elements
    <3> QED
      BY <3>1, <3>2
  <2> QED
    BY <1>5, <2>1, <2>4
<1>7. UNCHANGED <<listVars, curTest>> => Coming' = Coming
  BY <1>5 DEF Coming
<1>8. ASSUME curTest # NULL
      PROVE  /\ curTest \in Coming
             /\ UNCHANGED listVars /\ curTest' = next[curTest]
                  => Coming' \subseteq Coming \ {curTest}
  <2>1. PICK k \in 1 .. n : curTest = order[k]
    BY <1>1, <1>2, <1>4, <1>8 DEF Elements
  <2>2. Coming = {order[i] : i \in k .. n} /\ k \in k .. n
    BY <1>6, <2>1 DEF Coming
  <2>3. CASE k = n
    <3>1. next[curTest] = NULL
      BY <1>3, <1>4, <2>1, <2>3 DEF Chain
    <3>2. UNCHANGED listVars /\ curTest' = NULL => Coming' = {}
      BY <1>5 DEF Coming, Elements
    <3> QED
      BY <2>1, <2>2, <3>1, <3>2
  <2>4. CASE k # n
    <3>1. next[curTest] = order[k + 1] /\ k + 1 \in 1 .. n
      BY <1>3, <1>4, <2>1, <2>4 DEF Chain
    <3>2. UNCHANGED listVars /\ curTest' = order[k + 1] => Coming' = {order[i] : i \in k + 1 .. n}
      BY <1>5, <1>6, <3>1 DEF Coming
    <3>3. \A i \in k + 1 .. n : i \in k .. n /\ i \in 1 .. n /\ i # k
      BY <2>1
    <3>4. \A i \in k + 1 .. n : order[i] # order[k]
      BY <1>3, <1>4, <2>1, <3>3 DEF Distinct
    <3> QED
      BY <2>1, <2>2, <3>1, <3>2, <3>3, <3>4
  <2> QED
    BY <2>2, <2>1, <2>3, <2>4
<1> QED
  BY <1>7, <1>8

LEMMA OnceInvNext ==
  ASSUME RunnerInv, CurrentInv, SessionInv, OnceInv, [RunnerNext]_runnerVars
  PROVE  OnceInv'
<1>1. RegistryInv /\ BodyInv /\ ReportInv
  BY DEF RunnerInv
<1>2. ASSUME UNCHANGED <<listVars, curTest, m_results>>, pc' = pc
      PROVE  OnceInv'
  BY <1>1, <1>2, ComingIs DEF OnceInv
<1>3. ASSUME NEW test \in Tests, Add(test)
      PROVE  OnceInv'
  BY <1>3 DEF Add, reportVars, OnceInv, InTest
<1>4. ASSUME NEW opts \in Options, RunAllTestsIf(opts)
      PROVE  OnceInv'
  BY <1>4 DEF RunAllTestsIf, reportVars, OnceInv, InTest
<1>5. CASE SkipTest
  <2>1. /\ UNCHANGED listVars /\ curTest # NULL /\ curTest' = next[curTest] /\ pc = "select"
        /\ pc' = "select" /\ m_results' = m_results
    BY <1>5 DEF SkipTest, reportVars
  <2>2. Coming' \subseteq Coming
    BY <1>1, <2>1, ComingIs
  <2> QED
    BY <2>1, <2>2 DEF OnceInv, InTest
<1>6. CASE RunTest
  <2>1. /\ UNCHANGED <<listVars, curTest>> /\ pc = "select" /\ pc' \in InTest
        /\ curTest \in Tests /\ OnTestStart(curTest)
    BY <1>1, <1>6, RegistryFacts DEF RunTest, RegistryInv, InTest
  <2>2. Coming' = Coming
    BY <1>1, <2>1, ComingIs
  <2>3. /\ m_results' = Append(m_results, DeferredTestResult(curTest)) /\ m_results \in Seq(Result)
    BY <1>1, <2>1 DEF OnTestStart, ReportInv
  <2>4. /\ DOMAIN m_results' = 1 .. Len(m_results) + 1 /\ Len(m_results') = Len(m_results) + 1
        /\ DOMAIN m_results = 1 .. Len(m_results)
        /\ \A i \in DOMAIN m_results : m_results'[i] = m_results[i]
    BY <2>3, AppendKeeps
  <2>5. \A i \in DOMAIN m_results' : i # Len(m_results') => i \in DOMAIN m_results
    BY <2>4
  <2> QED
    BY <2>1, <2>2, <2>4, <2>5 DEF OnceInv, InTest
<1>7. ASSUME NEW late \in BOOLEAN, FinishTest(late)
      PROVE  OnceInv'
  <2>1. /\ UNCHANGED listVars /\ curTest' = next[curTest] /\ pc \in InTest /\ pc' = "select"
        /\ curTest # NULL
    BY <1>1, <1>7 DEF FinishTest, BodyInv, InTest
  <2>2. PICK done \in Seq(Result), r \in Result, w \in Result :
          /\ m_results = Append(done, r) /\ m_results' = Append(done, w) /\ w.testName = curTest
    BY <2>1, TestReports
  <2>3. PICK n \in Nat : n = Len(done) /\ DOMAIN done = 1 .. n
    BY <2>2
  <2>4. /\ DOMAIN m_results = 1 .. n + 1 /\ Len(m_results) = n + 1
        /\ DOMAIN m_results' = 1 .. n + 1 /\ m_results'[n + 1] = w
        /\ \A i \in 1 .. n : m_results[i] = done[i] /\ m_results'[i] = done[i]
    BY <2>2, <2>3, AppendKeeps
  <2>5. Coming' \subseteq Coming \ {curTest}
    BY <1>1, <2>1, ComingIs
  <2>6. \A i \in 1 .. n : m_results'[i].testName \notin Coming
    <3>1. \A i \in 1 .. n : i \in 1 .. n + 1 /\ i # n + 1
      BY <2>3
    <3> QED
      BY <2>1, <2>4, <3>1 DEF OnceInv
  <2>7. \A i \in 1 .. n + 1 : i \in 1 .. n \/ i = n + 1
    BY <2>3
  <2>8. \A i \in 1 .. n + 1 : m_results'[i].testName \notin Coming'
    BY <2>2, <2>4, <2>5, <2>6, <2>7
  <2> QED
    BY <2>1, <2>4, <2>8 DEF OnceInv, InTest
<1>8. CASE WithinTest
  <2>1. UNCHANGED <<listVars, curTest>> /\ pc \in InTest /\ pc' \in InTest
    BY <1>8 DEF WithinTest
  <2>2. PICK done \in Seq(Result), r \in Result, w \in Result :
          m_results = Append(done, r) /\ m_results' = Append(done, w)
    BY <2>1, TestReports
  <2>3. PICK n \in Nat : n = Len(done) /\ DOMAIN done = 1 .. n
    BY <2>2
  <2>4. /\ DOMAIN m_results = 1 .. n + 1 /\ Len(m_results) = n + 1
        /\ DOMAIN m_results' = 1 .. n + 1 /\ Len(m_results') = n + 1
        /\ \A i \in 1 .. n : m_results[i] = done[i] /\ m_results'[i] = done[i]
    BY <2>2, <2>3, AppendKeeps
  <2>5. Coming' = Coming
    BY <1>1, <2>1, ComingIs
  <2>6. \A i \in 1 .. n + 1 : i # n + 1 => i \in 1 .. n
    BY <2>3
  <2> QED
    BY <2>1, <2>4, <2>5, <2>6 DEF OnceInv, InTest
<1>9. CASE Finish \/ aborts
  BY <1>9 DEF Finish, aborts, OnceInv, InTest
<1>10. CASE UNCHANGED runnerVars
  BY <1>2, <1>10 DEF runnerVars, reportVars
<1> QED
  BY <1>3, <1>4, <1>5, <1>6, <1>7, <1>8, <1>9, <1>10, StepKinds

LEMMA OnceInvariant == RunnerSpec => []OnceInv
<1>1. RunnerInit => OnceInv
  BY DEF RunnerInit, ContextInit, OnceInv, InTest
<1>2. RunnerInv /\ CurrentInv /\ SessionInv /\ OnceInv /\ [RunnerNext]_runnerVars => OnceInv'
  BY OnceInvNext
<1> QED
  BY <1>1, <1>2, RunnerInvariant, CurrentInvariant, SessionInvariant, PTL DEF RunnerSpec

(* The two reports agree after a failure if they did before: only the      *)
(* elements of the test that failed have moved, and the last of them is    *)
(* where the failure was printed to be.                                    *)
Agree(x, p) ==
  /\ Len(x) = Len(p)
  /\ \A i \in DOMAIN p :
       /\ x[i].lineNumber = p[i].lineNumber
       /\ x[i].testName = p[i].testName
       /\ IF i = Len(p) \/ p[i + 1].testName # p[i].testName
          THEN x[i].filename = p[i].filename
          ELSE x[i].filename = x[i + 1].filename

LEMMA AgreeIs ==
  /\ XmlAgreesWithStdout <=> Agree(XmlReport, printed)
  /\ XmlAgreesWithStdout' <=> Agree(XmlReport', printed')
  BY DEF XmlAgreesWithStdout, Agree

LEMMA AgreeStep ==
  ASSUME NEW x, NEW p \in Seq(Details), NEW y, NEW details \in Details, NEW n \in Nat,
         Agree(x, p), XmlGrows(x, y, details, details.testName, n)
  PROVE  Agree(y, Append(p, details))
<1> DEFINE q == Append(p, details)
           test == details.testName
<1>1. PICK all \in Nat : all = Len(p) /\ all = Len(x) /\ DOMAIN p = 1 .. all
  BY DEF Agree
<1>2. /\ Len(q) = all + 1 /\ DOMAIN q = 1 .. all + 1
      /\ q[all + 1] = details /\ \A i \in 1 .. all : q[i] = p[i]
  BY <1>1, AppendKeeps
<1> HIDE DEF q
<1>3. /\ Len(y) = all + 1 /\ n \in 0 .. all
      /\ y[all + 1] = [testName |-> test, filename |-> details.filename,
                       lineNumber |-> details.lineNumber]
      /\ \A i \in 1 .. n : y[i] = x[i] /\ x[i].testName # test
      /\ \A i \in n + 1 .. all :
           /\ x[i].testName = test /\ y[i].testName = test
           /\ y[i].lineNumber = x[i].lineNumber
           /\ y[i].filename = details.filename
  BY <1>1 DEF XmlGrows
<1>4. \A i \in 1 .. all :
        /\ x[i].lineNumber = p[i].lineNumber
        /\ x[i].testName = p[i].testName
        /\ IF i = all \/ p[i + 1].testName # p[i].testName
           THEN x[i].filename = p[i].filename
           ELSE x[i].filename = x[i + 1].filename
  BY <1>1 DEF Agree
<1>5. /\ y[all + 1].testName = test /\ y[all + 1].filename = details.filename
      /\ y[all + 1].lineNumber = details.lineNumber
  BY <1>3
<1>6. \A i \in n + 1 .. all + 1 : y[i].testName = test /\ y[i].filename = details.filename
  <2>1. \A i \in n + 1 .. all + 1 : i \in n + 1 .. all \/ i = all + 1
    OBVIOUS
  <2> QED
    BY <1>3, <1>5, <2>1
<1>7. \A i \in 1 .. all + 1 :
        y[i].lineNumber = q[i].lineNumber /\ y[i].testName = q[i].testName
  <2>1. \A i \in 1 .. all + 1 : i \in 1 .. n \/ i \in n + 1 .. all \/ i = all + 1
    BY <1>3
  <2>2. ASSUME NEW i \in 1 .. n
        PROVE  y[i].lineNumber = q[i].lineNumber /\ y[i].testName = q[i].testName
    <3>1. i \in 1 .. all
      BY <1>3
    <3> QED
      BY <1>2, <1>3, <1>4, <3>1
  <2>3. ASSUME NEW i \in n + 1 .. all
        PROVE  y[i].lineNumber = q[i].lineNumber /\ y[i].testName = q[i].testName
    <3>1. i \in 1 .. all
      BY <1>3
    <3> QED
      BY <1>2, <1>3, <1>4, <3>1
  <2> QED
    BY <1>2, <1>5, <2>1, <2>2, <2>3
<1>8. ASSUME NEW i \in 1 .. all + 1
      PROVE  IF i = all + 1 \/ q[i + 1].testName # q[i].testName
             THEN y[i].filename = q[i].filename
             ELSE y[i].filename = y[i + 1].filename
  <2>1. CASE i = all + 1
    BY <1>2, <1>5, <2>1
  <2>2. CASE i \in n + 1 .. all
    <3>1. i \in n + 1 .. all + 1 /\ i + 1 \in n + 1 .. all + 1 /\ i # all + 1
          /\ i + 1 \in 1 .. all + 1
      BY <1>3, <2>2
    <3>2. q[i].testName = test /\ q[i + 1].testName = test
      BY <1>6, <1>7, <3>1
    <3>3. y[i].filename = y[i + 1].filename
      BY <1>6, <3>1
    <3> QED
      BY <3>1, <3>2, <3>3
  <2>3. CASE i \in 1 .. n /\ i # n
    <3>1. i \in 1 .. all /\ i + 1 \in 1 .. n /\ i + 1 \in 1 .. all /\ i # all /\ i # all + 1
      BY <1>3, <2>3
    <3>2. y[i] = x[i] /\ y[i + 1] = x[i + 1] /\ q[i] = p[i] /\ q[i + 1] = p[i + 1]
      BY <1>2, <1>3, <2>3, <3>1
    <3> QED
      BY <1>4, <3>1, <3>2
  <2>4. CASE i \in 1 .. n /\ i = n
    <3>1. i \in 1 .. all /\ i + 1 \in n + 1 .. all + 1 /\ i + 1 \in 1 .. all + 1
      BY <1>3, <2>4
    <3>2. y[i] = x[i] /\ q[i] = p[i] /\ x[i].testName # test
      BY <1>2, <1>3, <2>4, <3>1
    <3>3. q[i].testName # test /\ q[i + 1].testName = test
      BY <1>4, <1>6, <1>7, <3>1, <3>2
    <3>4. x[i].filename = p[i].filename
      <4>1. CASE i = all
        BY <1>4, <3>1, <4>1
      <4>2. CASE i # all
        <5>1. i + 1 \in 1 .. all
          BY <3>1, <4>2
        <5>2. p[i + 1].testName # p[i].testName
          BY <1>2, <3>2, <3>3, <5>1
        <5> QED
          BY <1>4, <3>1, <5>2
      <4> QED
        BY <4>1, <4>2
    <3> QED
      BY <3>2, <3>3, <3>4
  <2>5. i = all + 1 \/ i \in n + 1 .. all \/ i \in 1 .. n
    BY <1>3
  <2> QED
    BY <2>1, <2>2, <2>3, <2>4, <2>5
<1>9. Agree(y, q)
  BY <1>2, <1>3, <1>7, <1>8 DEF Agree
<1> QED
  BY <1>9 DEF q

LEMMA AgreeInit ==
  ASSUME RunnerInit
  PROVE  XmlAgreesWithStdout
<1>1. m_results = <<>> /\ printed = <<>>
  BY DEF RunnerInit, ContextInit
<1>2. AllElements(m_results) = <<>>
  BY <1>1 DEF AllElements
<1>3. XmlReport = <<>>
  BY <1>2, XmlReportIs DEF FlattenSeq
<1> QED
  BY <1>1, <1>3 DEF XmlAgreesWithStdout

LEMMA AgreeNext ==
  ASSUME MacroUsers = {}, RunnerInv, CurrentInv, SessionInv, OnceInv, XmlAgreesWithStdout,
         [RunnerNext]_runnerVars
  PROVE  XmlAgreesWithStdout'
<1>1. RegistryInv /\ BodyInv /\ ReportInv /\ MishapInv /\ ReportStep
  BY ReportSteps DEF RunnerInv
<1>2. Agree(XmlReport, printed)
  BY AgreeIs
<1>3. CASE UNCHANGED reportVars
  <2>1. printed' = printed /\ XmlReport' = XmlReport
    BY <1>3, XmlReportIs DEF reportVars
  <2> QED
    BY <1>2, <2>1, AgreeIs
<1>4. CASE curTest \in Tests /\ OnTestStart(curTest)
  <2>1. XmlReport' = XmlReport /\ printed' = printed
    BY <1>1, <1>4, XmlStart DEF OnTestStart
  <2> QED
    BY <1>2, <2>1, AgreeIs
<1>5. ASSUME NEW details \in Details, pc \in InTest, m_results # <<>>,
             details.testName = curTest, OnTestFailure(details)
      PROVE  XmlAgreesWithStdout'
  <2>1. Last(m_results).testName = curTest /\ curTest # NULL
    BY <1>1, <1>5 DEF CurrentInv, BodyInv
  <2>2. curTest \in Coming
    BY <1>1, <2>1, ComingIs
  <2>3. \A i \in DOMAIN m_results : i # Len(m_results) =>
          m_results[i].testName # Last(m_results).testName
    BY <1>5, <2>1, <2>2 DEF OnceInv
  <2>4. PICK n \in Nat : XmlGrows(XmlReport, XmlReport', details, details.testName, n)
    BY <1>1, <1>5, <2>1, <2>3, XmlFailure
  <2>5. printed' = Append(printed, details) /\ printed \in Seq(Details)
    BY <1>1, <1>5 DEF OnTestFailure, ReportFailure, ReportInv
  <2> QED
    BY <1>2, <2>4, <2>5, AgreeStep, AgreeIs
<1> QED
  BY <1>1, <1>3, <1>4, <1>5 DEF ReportStep

(* The XML report at the end has the failures that were printed, in the    *)
(* same order, of the same tests and at the same lines, each test's in the *)
(* file of its last one, provided no test uses UNITTEST_TIME_CONSTRAINT.   *)
THEOREM XmlReportAgrees ==
  ASSUME MacroUsers = {}
  PROVE  RunnerSpec => []XmlAgreesWithStdout
<1>1. RunnerInit => XmlAgreesWithStdout
  BY AgreeInit
<1>2. RunnerInv /\ CurrentInv /\ SessionInv /\ OnceInv /\ XmlAgreesWithStdout
        /\ [RunnerNext]_runnerVars => XmlAgreesWithStdout'
  BY AgreeNext
<1> QED
  BY <1>1, <1>2, RunnerInvariant, CurrentInvariant, SessionInvariant, OnceInvariant, PTL
     DEF RunnerSpec
=============================================================================
