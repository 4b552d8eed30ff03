---------------------------- MODULE EncodingProofs ----------------------------
(***************************************************************************)
(* The lines of steps that the response helpers are made of: which checks  *)
(* they make, how many bytes they append, and that the count-driven reader *)
(* of ResponseRefinement gets back what they appended, for arrays of any   *)
(* length.                                                                 *)
(***************************************************************************)
EXTENDS ResponseRefinement, DataLemmas

-----------------------------------------------------------------------------
(* Lines of steps *)

\* c is the call that a helper makes of its arguments.
Makes(c, x) == c = x

IsSeq(s) == s \in Seq(Range(s))

\* A line of steps that can be run.
Line(s) == IsSeq(s) /\ \A x \in Range(s) : x.kind = "emit" => x.size \in Nat

\* All its checks pass.
Pass(s) == \A x \in Range(s) : x.kind = "require" => x.ok

\* What IsSeq says.
LEMMA SeqFacts ==
    ASSUME NEW s, IsSeq(s)
    PROVE  Len(s) \in Nat /\ DOMAIN s = 1..Len(s) /\ \A i \in 1..Len(s) : s[i] \in Range(s)
BY DEF IsSeq

\* Every sequence is one.
LEMMA SeqIs == ASSUME NEW A, NEW s \in Seq(A) PROVE IsSeq(s) /\ Range(s) \subseteq A
<1>1. PICK n \in Nat : n = Len(s) /\ DOMAIN s = 1..n /\ s \in [1..n -> A]
  OBVIOUS
<1>2. ASSUME NEW i \in 1..n PROVE s[i] \in Range(s)
  BY <1>1, Zenon DEF Range
<1>3. s \in [1..n -> Range(s)]
  BY <1>1, <1>2
<1>4. s \in Seq(Range(s))
  BY <1>3
<1>5. Range(s) \subseteq A
  BY <1>1, Zenon DEF Range
<1> QED
  BY <1>4, <1>5 DEF IsSeq

\* Sequences of numbers with the same entries are the same.
LEMMA SameSeq ==
    ASSUME NEW A, NEW s \in Seq(A), NEW t \in Seq(A), Len(s) = Len(t), \A i \in 1..Len(s) : s[i] = t[i]
    PROVE  s = t
OBVIOUS

\* u is s and then t.
Follows(u, s, t) ==
    /\ IsSeq(u) /\ Len(u) = Len(s) + Len(t) /\ Range(u) = Range(s) \cup Range(t)
    /\ \A i \in 1..Len(s) : u[i] = s[i]
    /\ \A i \in 1..Len(t) : u[Len(s) + i] = t[i]

\* What two sequences one after the other hold.
LEMMA ConcatSet == ASSUME NEW s, NEW t, IsSeq(s), IsSeq(t) PROVE Follows(s \o t, s, t)
<1>1. PICK A : A = Range(s) \cup Range(t)
  BY Zenon
<1>2. s \in Seq(A) /\ t \in Seq(A)
  BY <1>1 DEF IsSeq
<1>3. PICK u \in Seq(A) : u = s \o t
  BY <1>2, Concat, Zenon
<1>4. PICK m \in Nat : m = Len(s) /\ DOMAIN s = 1..m
  BY SeqFacts
<1>5. PICK n \in Nat : n = Len(t) /\ DOMAIN t = 1..n
  BY SeqFacts
<1>6. /\ Len(u) = m + n /\ DOMAIN u = 1..(m + n)
      /\ \A i \in 1..m : u[i] = s[i]
      /\ \A i \in 1..n : u[m + i] = t[i]
  BY <1>2, <1>3, <1>4, <1>5
<1>7. IsSeq(u) /\ Range(u) \subseteq A
  BY <1>3, SeqIs, Zenon
<1>8. ASSUME NEW x \in Range(s) PROVE x \in Range(u)
  <2>1. PICK i \in 1..m : x = s[i]
    BY <1>4, <1>8, Zenon DEF Range
  <2>2. i \in 1..(m + n) /\ x = u[i]
    BY <1>6, <2>1
  <2> QED
    BY <1>6, <2>2, Zenon DEF Range
<1>9. ASSUME NEW x \in Range(t) PROVE x \in Range(u)
  <2>1. PICK i \in 1..n : x = t[i]
    BY <1>5, <1>9, Zenon DEF Range
  <2>2. m + i \in 1..(m + n) /\ x = u[m + i]
    BY <1>6, <2>1
  <2> QED
    BY <1>6, <2>2, Zenon DEF Range
<1>10. Range(u) = Range(s) \cup Range(t)
  BY <1>1, <1>7, <1>8, <1>9, Zenon
<1> QED
  BY <1>3, <1>4, <1>5, <1>6, <1>7, <1>10, Zenon DEF Follows

\* The sizes of a line's fields are numbers.
LEMMA SizesAre ==
    ASSUME NEW s, Line(s)
    PROVE  /\ FieldSizes(s) \in Seq(Nat) /\ Len(FieldSizes(s)) = Len(s) /\ Encoded(s) \in Nat
<1>1. PICK n \in Nat : n = Len(s) /\ \A i \in 1..n : s[i] \in Range(s)
  BY SeqFacts DEF Line
<1>2. PICK w : w = FieldSizes(s)
  OBVIOUS
<1>3. ASSUME NEW i \in 1..n PROVE (IF s[i].kind = "emit" THEN s[i].size ELSE 0) \in Nat
  BY <1>1 DEF Line
<1>4. w = [i \in 1..n |-> IF s[i].kind = "emit" THEN s[i].size ELSE 0]
  BY <1>1, <1>2, Zenon DEF FieldSizes
<1>5. w \in [1..n -> Nat]
  BY <1>3, <1>4, Zenon
<1>6. w \in Seq(Nat) /\ Len(w) = n
  BY <1>4, <1>5
<1>7. Sum(w) \in Nat
  BY <1>6, PartialSumsAdd, SumIs
<1> QED
  BY <1>1, <1>2, <1>6, <1>7 DEF Encoded

\* u does what s and then t do.
Joins(u, s, t) == Line(u) /\ (Pass(u) <=> Pass(s) /\ Pass(t)) /\ Encoded(u) = Encoded(s) + Encoded(t)

\* Lines can be joined.
LEMMA LineConcat == ASSUME NEW s, NEW t, Line(s), Line(t) PROVE Joins(s \o t, s, t)
<1>1. IsSeq(s) /\ IsSeq(t)
  BY DEF Line
<1>2. PICK u : u = s \o t
  BY Zenon
<1>a. Follows(u, s, t)
  BY <1>1, <1>2, ConcatSet, Zenon
<1>3. /\ IsSeq(u) /\ Len(u) = Len(s) + Len(t) /\ Range(u) = Range(s) \cup Range(t)
      /\ \A i \in 1..Len(s) : u[i] = s[i]
      /\ \A i \in 1..Len(t) : u[Len(s) + i] = t[i]
  BY <1>a, Zenon DEF Follows
<1>4. Line(u)
  BY <1>3 DEF Line
<1>5. Pass(u) <=> Pass(s) /\ Pass(t)
  BY <1>3 DEF Pass
<1>6. PICK m \in Nat : m = Len(s)
  BY <1>1, SeqFacts
<1>7. PICK n \in Nat : n = Len(t)
  BY <1>1, SeqFacts
<1>8. PICK a \in Seq(Nat) : a = FieldSizes(s) /\ Len(a) = m
  BY <1>6, SizesAre
<1>9. PICK b \in Seq(Nat) : b = FieldSizes(t) /\ Len(b) = n
  BY <1>7, SizesAre
<1>10. PICK w \in Seq(Nat) : w = FieldSizes(u) /\ Len(w) = m + n
  BY <1>3, <1>4, <1>6, <1>7, SizesAre
<1>11. /\ \A i \in 1..m : a[i] = IF s[i].kind = "emit" THEN s[i].size ELSE 0
       /\ \A i \in 1..n : b[i] = IF t[i].kind = "emit" THEN t[i].size ELSE 0
       /\ \A i \in 1..(m + n) : w[i] = IF u[i].kind = "emit" THEN u[i].size ELSE 0
  <2>1. u = u /\ Len(u) = m + n
    BY <1>3, <1>6, <1>7
  <2> QED
    BY <1>6, <1>7, <1>8, <1>9, <1>10, <2>1, Zenon DEF FieldSizes
<1>b. IsSeq(a) /\ IsSeq(b)
  BY SeqIs, Zenon
<1>12. PICK v \in Seq(Nat) : v = a \o b
  BY Concat, Zenon
<1>c. Follows(v, a, b)
  BY <1>b, <1>12, ConcatSet, Zenon
<1>13. Len(v) = m + n /\ (\A i \in 1..m : v[i] = a[i]) /\ \A i \in 1..n : v[m + i] = b[i]
  BY <1>8, <1>9, <1>c, Zenon DEF Follows
<1>14. ASSUME NEW i \in 1..(m + n) PROVE w[i] = v[i]
  <2>1. CASE i \in 1..m
    <3>1. u[i] = s[i] /\ v[i] = a[i]
      BY <1>3, <1>6, <1>13, <2>1, Zenon
    <3>2. w[i] = a[i]
      BY <1>11, <2>1, <3>1, Zenon
    <3> QED
      BY <3>1, <3>2, Zenon
  <2>2. CASE i \notin 1..m
    <3>1. PICK k \in 1..n : i = m + k
      <4>1. i - m \in 1..n /\ i = m + (i - m)
        BY <2>2
      <4> QED
        BY <4>1
    <3>2. u[m + k] = t[k]
      BY <1>3, <1>6, <1>7, Zenon
    <3>3. w[m + k] = IF t[k].kind = "emit" THEN t[k].size ELSE 0
      BY <1>11, <3>1, <3>2, Zenon
    <3> QED
      BY <1>11, <1>13, <3>1, <3>3, Zenon
  <2> QED
    BY <2>1, <2>2
<1>15. w = v
  <2>1. Len(w) = Len(v) /\ \A i \in 1..Len(w) : w[i] = v[i]
    BY <1>10, <1>13, <1>14, Zenon
  <2> QED
    BY <2>1, SameSeq, Zenon
<1>16. Sum(w) = Sum(a) + Sum(b)
  BY <1>8, <1>9, <1>12, <1>15, SumConcat, Zenon
<1>17. Encoded(u) = Encoded(s) + Encoded(t)
  BY <1>8, <1>9, <1>10, <1>16, Zenon DEF Encoded
<1> QED
  BY <1>2, <1>4, <1>5, <1>17, Zenon DEF Joins

\* The lines of no step and of one.
LEMMA NoSteps == IsSeq(<<>>) /\ Range(<<>>) = {} /\ Line(<<>>) /\ Pass(<<>>) /\ Encoded(<<>>) = 0
<1>1. PICK s : s = <<>>
  OBVIOUS
<1>2. DOMAIN s = {} /\ Len(s) = 0 /\ s \in Seq(Range(s))
  BY <1>1
<1>3. IsSeq(s) /\ Range(s) = {}
  BY <1>2 DEF IsSeq, Range
<1>4. Line(s) /\ Pass(s)
  BY <1>3 DEF Line, Pass
<1>5. PICK w \in Seq(Nat) : w = FieldSizes(s) /\ Len(w) = 0
  BY <1>2, <1>4, SizesAre
<1>6. AddUp(PartialSums(w), w, 0)
  BY <1>5, PartialSumsAdd, Zenon
<1>7. Sum(w) = 0
  BY <1>5, <1>6 DEF Sum, AddUp
<1> QED
  BY <1>1, <1>3, <1>4, <1>5, <1>7 DEF Encoded

\* A sequence of one element.
LEMMA OneElement == ASSUME NEW x PROVE IsSeq(<<x>>) /\ Len(<<x>>) = 1 /\ <<x>>[1] = x /\ Range(<<x>>) = {x}
<1>1. PICK s : s = <<x>>
  BY Zenon
<1>2. s \in Seq({x}) /\ Len(s) = 1 /\ s[1] = x
  BY <1>1
<1>3. IsSeq(s) /\ Range(s) \subseteq {x}
  BY <1>2, SeqIs
<1>4. x \in Range(s)
  BY <1>2, <1>3, SeqFacts
<1> QED
  BY <1>1, <1>2, <1>3, <1>4

\* A line of one step passes when the step does, and has its bytes.
LEMMA OneStep ==
    ASSUME NEW x, x.kind = "emit" => x.size \in Nat
    PROVE  /\ Line(<<x>>)
           /\ Pass(<<x>>) <=> (x.kind = "require" => x.ok)
           /\ Encoded(<<x>>) = IF x.kind = "emit" THEN x.size ELSE 0
<1>1. PICK s : s = <<x>> /\ IsSeq(s) /\ Len(s) = 1 /\ s[1] = x /\ Range(s) = {x}
  BY OneElement, Zenon
<1>2. Line(s) /\ (Pass(s) <=> (x.kind = "require" => x.ok))
  BY <1>1, Zenon DEF Line, Pass
<1>3. PICK w \in Seq(Nat) : w = FieldSizes(s) /\ Len(w) = 1
  BY <1>1, <1>2, SizesAre
<1>4. w[1] = IF x.kind = "emit" THEN x.size ELSE 0
  <2>1. w = [n \in 1..1 |-> IF s[n].kind = "emit" THEN s[n].size ELSE 0]
    BY <1>1, <1>3, Zenon DEF FieldSizes
  <2> QED
    BY <1>1, <2>1
<1>5. AddUp(PartialSums(w), w, 1)
  BY <1>3, PartialSumsAdd, Zenon
<1>6. Sum(w) = w[1]
  BY <1>3, <1>5 DEF Sum, AddUp
<1> QED
  BY <1>1, <1>2, <1>3, <1>4, <1>6, Zenon DEF Encoded

\* A check, and a field.
LEMMA CheckStep ==
    ASSUME NEW ok \in BOOLEAN
    PROVE  Line(Check(ok)) /\ (Pass(Check(ok)) <=> ok) /\ Encoded(Check(ok)) = 0
<1>1. PICK x : x = [kind |-> "require", ok |-> ok, errno |-> "EINVAL"]
  BY Zenon
<1>2. x.kind = "require" /\ (x.ok <=> ok) /\ x.kind # "emit"
  BY <1>1
<1>3. Check(ok) = <<x>>
  BY <1>1 DEF Check
<1> QED
  BY <1>2, <1>3, OneStep

\* A field has its bytes and checks nothing.
LEMMA EmitStep ==
    ASSUME NEW val, NEW size \in Nat
    PROVE  Line(Emit(val, size)) /\ Pass(Emit(val, size)) /\ Encoded(Emit(val, size)) = size
<1>1. PICK x : x = [kind |-> "emit", val |-> val, size |-> size]
  BY Zenon
<1>2. x.kind = "emit" /\ x.size = size /\ x.kind # "require"
  BY <1>1
<1>3. Emit(val, size) = <<x>>
  BY <1>1 DEF Emit
<1> QED
  BY <1>2, <1>3, OneStep

\* require_array refuses a NULL array with a count.
LEMMA ArrayCheck ==
    ASSUME NEW a, WellSized(a)
    PROVE  Line(require_array(a)) /\ (Pass(require_array(a)) <=> ArrayOk(a)) /\ Encoded(require_array(a)) = 0
BY CheckStep, Zenon DEF require_array, ArrayOk, WellSized

\* Lines put end to end.
LEMMA LineFlatten ==
    ASSUME NEW N \in Nat, NEW seqs, IsSeq(seqs), N = Len(seqs), \A i \in 1..N : Line(seqs[i])
    PROVE  /\ Line(Flatten(seqs))
           /\ Pass(Flatten(seqs)) <=> \A i \in 1..N : Pass(seqs[i])
           /\ Encoded(Flatten(seqs)) = Sum([i \in 1..N |-> Encoded(seqs[i])])
<1>1. PICK A : A = UNION { Range(seqs[i]) : i \in 1..N }
  BY Zenon
<1>2. ASSUME NEW i \in 1..N PROVE IsSeq(seqs[i]) /\ Range(seqs[i]) \subseteq A
  BY <1>1 DEF Line
<1>3. ASSUME NEW i \in 1..N PROVE seqs[i] \in Seq(A)
  BY <1>2 DEF IsSeq
<1>4. seqs \in Seq(Seq(A)) /\ seqs \in [1..N -> Seq(A)]
  BY <1>3 DEF IsSeq
<1>5. PICK h \in [0..N -> Seq(A)] : Grows(h, seqs, N)
  BY <1>4, GrowthExists
<1>6. PICK u : u = Flatten(seqs) /\ u = h[N]
  BY <1>4, <1>5, FlattenGrows
<1>7. \A x \in A : x.kind = "emit" => x.size \in Nat
  BY <1>1 DEF Line
<1>8. ASSUME NEW n \in 0..N PROVE Line(h[n])
  <2>1. h[n] \in Seq(A)
    OBVIOUS
  <2>2. IsSeq(h[n]) /\ Range(h[n]) \subseteq A
    BY <2>1, SeqIs, Zenon
  <2> QED
    BY <1>7, <2>2, Zenon DEF Line
<1>9. Line(u)
  BY <1>6, <1>8
<1>10. Pass(u) <=> \A i \in 1..N : Pass(seqs[i])
  <2>1. /\ \A i \in 1..N : Range(seqs[i]) \subseteq Range(u)
        /\ \A x \in Range(u) : \E i \in 1..N : x \in Range(seqs[i])
    BY <1>4, <1>6, FlattenedSet, Zenon
  <2> QED
    BY <2>1, Zenon DEF Pass
<1>11. PICK at : at = [n \in 0..N |-> Encoded(h[n])]
  BY Zenon
<1>12. PICK w : w = [i \in 1..N |-> Encoded(seqs[i])]
  OBVIOUS
<1>13. \A n \in 0..N : at[n] = Encoded(h[n]) /\ at[n] \in Nat
  BY <1>8, <1>11, SizesAre, Zenon
<1>14. \A i \in 1..N : w[i] = Encoded(seqs[i]) /\ w[i] \in Nat
  BY <1>12, SizesAre, Zenon
<1>15. w \in Seq(Nat) /\ Len(w) = N
  BY <1>12, <1>14
<1>16. at \in [0..N -> Nat]
  BY <1>11, <1>13, Zenon
<1>17. at[0] = 0
  BY <1>5, <1>13, NoSteps DEF Grows
<1>18. ASSUME NEW i \in 1..N PROVE at[i] = at[i - 1] + w[i]
  <2>1. i - 1 \in 0..N /\ i \in 0..N
    OBVIOUS
  <2>2. h[i] = h[i - 1] \o seqs[i]
    BY <1>5, Zenon DEF Grows
  <2>3. Joins(h[i], h[i - 1], seqs[i])
    BY <1>8, <2>1, <2>2, LineConcat, Zenon
  <2> QED
    BY <1>13, <1>14, <2>1, <2>3, Zenon DEF Joins
<1>19. AddUp(at, w, N)
  BY <1>16, <1>17, <1>18, Zenon DEF AddUp
<1>20. Sum(w) = at[N]
  BY <1>15, <1>19, SumIs
<1>21. Encoded(u) = Sum(w)
  BY <1>6, <1>13, <1>20
<1> QED
  BY <1>6, <1>9, <1>10, <1>12, <1>21, Zenon

\* Three, four and five lines one after the other.
Joins3(u, a, b, c) == /\ Line(u) /\ (Pass(u) <=> Pass(a) /\ Pass(b) /\ Pass(c))
                      /\ Encoded(u) = Encoded(a) + Encoded(b) + Encoded(c)
Joins4(u, a, b, c, d) == /\ Line(u) /\ (Pass(u) <=> Pass(a) /\ Pass(b) /\ Pass(c) /\ Pass(d))
                         /\ Encoded(u) = Encoded(a) + Encoded(b) + Encoded(c) + Encoded(d)
Joins5(u, a, b, c, d, e) ==
    /\ Line(u) /\ (Pass(u) <=> Pass(a) /\ Pass(b) /\ Pass(c) /\ Pass(d) /\ Pass(e))
    /\ Encoded(u) = Encoded(a) + Encoded(b) + Encoded(c) + Encoded(d) + Encoded(e)

\* Three lines one after the other.
LEMMA Join3 ==
    ASSUME NEW a, NEW b, NEW c, Line(a), Line(b), Line(c) PROVE Joins3(a \o b \o c, a, b, c)
<1>1. PICK p : p = a \o b /\ Joins(p, a, b)
  BY LineConcat, Zenon
<1>2. Joins(p \o c, p, c)
  BY <1>1, LineConcat, Zenon DEF Joins
<1> QED
  BY <1>1, <1>2, Zenon DEF Joins, Joins3

\* Four lines.
LEMMA Join4 ==
    ASSUME NEW a, NEW b, NEW c, NEW d, Line(a), Line(b), Line(c), Line(d)
    PROVE  Joins4(a \o b \o c \o d, a, b, c, d)
<1>1. PICK p : p = a \o b \o c /\ Joins3(p, a, b, c)
  BY Join3, Zenon
<1>2. Joins(p \o d, p, d)
  BY <1>1, LineConcat, Zenon DEF Joins3
<1> QED
  BY <1>1, <1>2, Zenon DEF Joins, Joins3, Joins4

\* Five lines.
LEMMA Join5 ==
    ASSUME NEW a, NEW b, NEW c, NEW d, NEW e, Line(a), Line(b), Line(c), Line(d), Line(e)
    PROVE  Joins5(a \o b \o c \o d \o e, a, b, c, d, e)
<1>1. PICK p : p = a \o b \o c \o d /\ Joins4(p, a, b, c, d)
  BY Join4, Zenon
<1>2. Joins(p \o e, p, e)
  BY <1>1, LineConcat, Zenon DEF Joins4
<1> QED
  BY <1>1, <1>2, Zenon DEF Joins, Joins4, Joins5

\* A line of n bytes without a check, one of no byte with checks, and one of both.
Plain(s, n)  == Line(s) /\ Pass(s) /\ Encoded(s) = n
Only(s)      == Line(s) /\ Encoded(s) = 0
Sized(s, n)  == Line(s) /\ Encoded(s) = n

\* The fields the encoders append, by width.
LEMMA Fields ==
    /\ \A x : Plain(u8(x), 1) /\ Plain(u32(x), 4) /\ Plain(u64(x), 8) /\ Plain(guid(x), 16)
    /\ \A x : \A n \in Nat : Plain(Emit(x, n), n)
    /\ Plain(new_writer, 18)
<1>1. ASSUME NEW x, NEW n \in Nat PROVE Plain(Emit(x, n), n)
  BY EmitStep, Zenon DEF Plain
<1>2. 1 \in Nat /\ 4 \in Nat /\ 8 \in Nat /\ 16 \in Nat /\ 18 \in Nat
  OBVIOUS
<1> QED
  BY <1>1, <1>2, Zenon DEF u8, u32, u64, guid, new_writer, STATUS_FRAME_LEN

\* require_array was ArrayCheck; the other checks.
LEMMA FieldCheck == ASSUME NEW f, IsField(f) PROVE Only(require_lpf(f)) /\ (Pass(require_lpf(f)) <=> LpfOk(f))
BY CheckStep, Zenon DEF require_lpf, LpfOk, IsField, Only

\* require_bool lets 0 and 1 pass.
LEMMA BoolCheck == ASSUME NEW b PROVE Only(require_bool(b)) /\ (Pass(require_bool(b)) <=> BoolOk(b))
<1>1. PICK x : x = [kind |-> "require", ok |-> (b \in {0, 1}), errno |-> "EINVAL"]
  BY Zenon
<1>2. x.kind = "require" /\ (x.ok <=> b \in {0, 1}) /\ x.kind # "emit"
  BY <1>1, Zenon
<1>3. require_bool(b) = <<x>>
  BY <1>1 DEF require_bool, Check
<1> QED
  BY <1>2, <1>3, OneStep DEF BoolOk, Only

TargetOk(e) == \/ e.target_type = RSI_PATH_TARGET_GUID
               \/ e.target_type = RSI_PATH_TARGET_HIDDEN /\ e.target_guid = NilGuid

\* require_path_target lets the two target types pass, the hidden one with the nil GUID.
LEMMA TargetCheck == ASSUME NEW e PROVE Only(require_path_target(e)) /\ (Pass(require_path_target(e)) <=> TargetOk(e))
BY CheckStep, Zenon DEF require_path_target, TargetOk, Only

\* require_response_req refuses a NULL request and one of another op-code.
LEMMA RequestCheck ==
    ASSUME NEW req, NEW op
    PROVE  /\ Only(require_response_req(req, op))
           /\ Pass(require_response_req(req, op)) <=> (req # NULL /\ OpOf(req) = op)
<1>1. PICK a : a = Check(req # NULL) /\ Only(a) /\ (Pass(a) <=> req # NULL)
  BY CheckStep, Zenon DEF Only
<1>2. PICK b : b = Check(OpOf(req) = op) /\ Only(b) /\ (Pass(b) <=> OpOf(req) = op)
  BY CheckStep, Zenon DEF Only
<1>3. Joins(require_response_req(req, op), a, b)
  BY <1>1, <1>2, LineConcat, Zenon DEF require_response_req, Only
<1> QED
  BY <1>1, <1>2, <1>3 DEF Joins, Only

\* A length-prefixed field.
LEMMA FieldLine ==
    ASSUME NEW f, IsField(f)
    PROVE  Sized(lpf(f), 4 + f.len) /\ (Pass(lpf(f)) <=> LpfOk(f))
<1>1. PICK a : a = require_lpf(f) /\ Only(a) /\ (Pass(a) <=> LpfOk(f))
  BY FieldCheck, Zenon
<1>2. PICK b : b = u32(f.len) /\ Plain(b, 4)
  BY Fields, Zenon
<1>3. f.len \in Nat
  BY DEF IsField
<1>4. PICK c : c = (IF f.len # 0 THEN Emit(f.bytes, f.len) ELSE <<>>) /\ Plain(c, f.len)
  <2>1. Plain(Emit(f.bytes, f.len), f.len)
    BY <1>3, Fields, Zenon
  <2>2. Plain(<<>>, 0)
    BY NoSteps, Zenon DEF Plain
  <2> QED
    BY <2>1, <2>2
<1>5. Joins3(lpf(f), a, b, c)
  BY <1>1, <1>2, <1>4, Join3, Zenon DEF lpf, Only, Plain
<1>6. Encoded(lpf(f)) = 0 + 4 + f.len
  BY <1>1, <1>2, <1>4, <1>5, Zenon DEF Joins3, Only, Plain
<1>7. Encoded(lpf(f)) = 4 + f.len
  BY <1>3, <1>6
<1> QED
  BY <1>1, <1>2, <1>4, <1>5, <1>7, Zenon DEF Joins3, Plain, Sized

-----------------------------------------------------------------------------
(* Arrays *)

\* The elements of an array by number.
LEMMA ArrayShape ==
    ASSUME NEW a, WellSized(a)
    PROVE  /\ Len(a.elems) \in Nat /\ DOMAIN a.elems = 1..Len(a.elems) /\ a.count \in Nat
           /\ ArrayOk(a) => a.count = Len(a.elems)
<1>1. IsSeq(a.elems)
  BY DEF WellSized, IsSeq
<1>2. Len(a.elems) \in Nat /\ DOMAIN a.elems = 1..Len(a.elems)
  BY <1>1, SeqFacts, Zenon
<1>3. a.count \in Nat /\ (ArrayOk(a) => a.count = Len(a.elems))
  BY DEF WellSized, ArrayOk
<1> QED
  BY <1>2, <1>3

\* u has the steps that f gives for each element of a, n[i] bytes for the i-th.
Repeats(u, a, f, n) == /\ Sized(u, Sum(n))
                       /\ Pass(u) <=> \A i \in DOMAIN a.elems : Pass(f[i])

\* The steps for each element of an array.
LEMMA EachLine ==
    ASSUME NEW a, WellSized(a), NEW f, NEW n,
           f = [i \in DOMAIN a.elems |-> f[i]], n = [i \in DOMAIN a.elems |-> n[i]],
           \A i \in 1..Len(a.elems) : Sized(f[i], n[i])
    PROVE  Repeats(Flatten(f), a, f, n)
<1>1. PICK N \in Nat : N = Len(a.elems) /\ DOMAIN a.elems = 1..N
  BY ArrayShape, Zenon
<1>2. f = [i \in 1..N |-> f[i]] /\ n = [i \in 1..N |-> n[i]]
  BY <1>1, Zenon
<1>3. \A i \in 1..N : Line(f[i]) /\ Encoded(f[i]) = n[i]
  BY <1>1, Zenon DEF Sized
<1>4. PICK A : A = { f[i] : i \in 1..N }
  BY Zenon
<1>5. f \in [1..N -> A]
  BY <1>2, <1>4
<1>6. f \in Seq(A) /\ Len(f) = N
  BY <1>5
<1>7. IsSeq(f)
  BY <1>6, SeqIs, Zenon
<1>8. PICK u : u = Flatten(f)
  BY Zenon
<1>9. /\ Line(u) /\ (Pass(u) <=> \A i \in 1..N : Pass(f[i]))
      /\ Encoded(u) = Sum([i \in 1..N |-> Encoded(f[i])])
  BY <1>3, <1>6, <1>7, <1>8, LineFlatten, Zenon
<1>10. [i \in 1..N |-> Encoded(f[i])] = n
  BY <1>2, <1>3, Zenon
<1> QED
  BY <1>1, <1>8, <1>9, <1>10, Zenon DEF Repeats, Sized

\* Steps of no bytes for each.
LEMMA EachOnly ==
    ASSUME NEW a, WellSized(a), NEW f, f = [i \in DOMAIN a.elems |-> f[i]],
           \A i \in 1..Len(a.elems) : Only(f[i])
    PROVE  /\ Only(Flatten(f))
           /\ Pass(Flatten(f)) <=> \A i \in DOMAIN a.elems : Pass(f[i])
<1>1. PICK N \in Nat : N = Len(a.elems) /\ DOMAIN a.elems = 1..N
  BY ArrayShape, Zenon
<1>2. PICK n : n = [i \in DOMAIN a.elems |-> 0]
  BY Zenon
<1>3. n \in Seq(Nat) /\ Len(n) = N /\ \A i \in 1..N : n[i] = 0
  BY <1>1, <1>2
<1>4. n = [i \in DOMAIN a.elems |-> n[i]] /\ \A i \in 1..Len(a.elems) : Sized(f[i], n[i])
  BY <1>1, <1>2, <1>3, Zenon DEF Only, Sized
<1>5. Repeats(Flatten(f), a, f, n)
  BY <1>4, EachLine, Zenon
<1>6. PICK at : at = [k \in 0..N |-> 0]
  BY Zenon
<1>7. AddUp(at, n, N) /\ at[N] = 0
  BY <1>3, <1>6 DEF AddUp
<1>8. Sum(n) = 0
  BY <1>3, <1>7, SumIs
<1> QED
  BY <1>5, <1>8, Zenon DEF Repeats, Sized, Only
-----------------------------------------------------------------------------
(* Encoders *)

\* The steps for one element.
EntrySteps(e) == lpf(e.layer) \o require_path_target(e)
                 \o u8(e.target_type) \o guid(e.target_guid) \o u64(e.sequence)
MetadataSteps(m) == guid(m.guid) \o lpf(m.sd) \o require_bool(m.volatile_key) \o require_bool(m.symlink)
                    \o u8(m.volatile_key) \o u8(m.symlink) \o u64(m.last_write_time)
ValueSteps(e) == lpf(e.value_name) \o lpf(e.layer_name) \o u32(e.value_type) \o lpf(e.data) \o u64(e.sequence)
BlanketSteps(b) == lpf(b.layer_name) \o u64(b.sequence)
ChildSteps(c) == lpf(c.child_name) \o encode_path_entry_block(c.entries)

\* encode_path_entry: the bytes and the checks of one entry.
LEMMA EntryLine ==
    ASSUME NEW e, IsEntry(e)
    PROVE  Sized(EntrySteps(e), EntrySize(e)) /\ (Pass(EntrySteps(e)) <=> LpfOk(e.layer) /\ TargetOk(e))
<1>1. IsField(e.layer) /\ e.layer.len \in Nat
  BY DEF IsEntry, IsField
<1>2. PICK a : a = lpf(e.layer) /\ Sized(a, 4 + e.layer.len) /\ (Pass(a) <=> LpfOk(e.layer))
  BY <1>1, FieldLine, Zenon
<1>3. PICK b : b = require_path_target(e) /\ Only(b) /\ (Pass(b) <=> TargetOk(e))
  BY TargetCheck, Zenon
<1>4. PICK c : c = u8(e.target_type) /\ Plain(c, 1)
  BY Fields, Zenon
<1>5. PICK d : d = guid(e.target_guid) /\ Plain(d, 16)
  BY Fields, Zenon
<1>6. PICK g : g = u64(e.sequence) /\ Plain(g, 8)
  BY Fields, Zenon
<1>7. PICK u : u = EntrySteps(e)
  OBVIOUS
<1>8. Joins5(u, a, b, c, d, g)
  BY <1>2, <1>3, <1>4, <1>5, <1>6, <1>7, Join5, Zenon DEF EntrySteps, Sized, Only, Plain
<1>9. Encoded(u) = (4 + e.layer.len) + 0 + 1 + 16 + 8
  BY <1>2, <1>3, <1>4, <1>5, <1>6, <1>8, Zenon DEF Joins5, Sized, Only, Plain
<1>10. Encoded(u) = EntrySize(e)
  BY <1>1, <1>9 DEF EntrySize
<1>11. Line(u) /\ (Pass(u) <=> LpfOk(e.layer) /\ TargetOk(e))
  BY <1>2, <1>3, <1>4, <1>5, <1>6, <1>8, Zenon DEF Joins5, Plain
<1> QED
  BY <1>7, <1>10, <1>11, Zenon DEF Sized

\* encode_key_metadata: those of one key's metadata.
LEMMA MetadataLine ==
    ASSUME NEW m, IsMetadata(m)
    PROVE  Sized(MetadataSteps(m), MetadataSize(m)) /\ (Pass(MetadataSteps(m)) <=> MetadataOk(m))
<1>1. IsField(m.sd) /\ m.sd.len \in Nat
  BY DEF IsMetadata, IsField
<1>2. PICK a : a = guid(m.guid) /\ Plain(a, 16)
  BY Fields, Zenon
<1>3. PICK b : b = lpf(m.sd) /\ Sized(b, 4 + m.sd.len) /\ (Pass(b) <=> LpfOk(m.sd))
  BY <1>1, FieldLine, Zenon
<1>4. PICK c : c = require_bool(m.volatile_key) /\ Only(c) /\ (Pass(c) <=> BoolOk(m.volatile_key))
  BY BoolCheck, Zenon
<1>5. PICK d : d = require_bool(m.symlink) /\ Only(d) /\ (Pass(d) <=> BoolOk(m.symlink))
  BY BoolCheck, Zenon
<1>6. PICK e : e = u8(m.volatile_key) /\ Plain(e, 1)
  BY Fields, Zenon
<1>7. PICK f : f = u8(m.symlink) /\ Plain(f, 1)
  BY Fields, Zenon
<1>8. PICK g : g = u64(m.last_write_time) /\ Plain(g, 8)
  BY Fields, Zenon
<1>9. PICK p : p = a \o b \o c \o d /\ Joins4(p, a, b, c, d)
  BY <1>2, <1>3, <1>4, <1>5, Join4, Zenon DEF Sized, Only, Plain
<1>10. PICK u : u = MetadataSteps(m)
  OBVIOUS
<1>11. Joins4(u, p, e, f, g)
  <2>1. u = p \o e \o f \o g
    BY <1>2, <1>3, <1>4, <1>5, <1>6, <1>7, <1>8, <1>9, <1>10, Zenon DEF MetadataSteps
  <2>2. Line(p) /\ Line(e) /\ Line(f) /\ Line(g)
    BY <1>6, <1>7, <1>8, <1>9, Zenon DEF Joins4, Plain
  <2> QED
    BY <2>1, <2>2, Join4, Zenon
<1>12. Encoded(p) = 16 + (4 + m.sd.len) + 0 + 0
  BY <1>2, <1>3, <1>4, <1>5, <1>9, Zenon DEF Joins4, Sized, Only, Plain
<1>13. Encoded(u) = Encoded(p) + 1 + 1 + 8
  BY <1>6, <1>7, <1>8, <1>11, Zenon DEF Joins4, Plain
<1>14. Encoded(u) = MetadataSize(m)
  BY <1>1, <1>12, <1>13 DEF MetadataSize
<1>15. Line(u) /\ (Pass(u) <=> MetadataOk(m))
  BY <1>2, <1>3, <1>4, <1>5, <1>6, <1>7, <1>8, <1>9, <1>11, Zenon DEF Joins4, Plain, MetadataOk
<1> QED
  BY <1>10, <1>14, <1>15, Zenon DEF Sized

\* Those of one value.
LEMMA ValueLine ==
    ASSUME NEW e, IsValue(e)
    PROVE  /\ Sized(ValueSteps(e), 12 + e.value_name.len + e.layer_name.len + 4 + e.data.len + 8)
           /\ Pass(ValueSteps(e)) <=> LpfOk(e.value_name) /\ LpfOk(e.layer_name) /\ LpfOk(e.data)
<1>1. /\ IsField(e.value_name) /\ IsField(e.layer_name) /\ IsField(e.data)
      /\ e.value_name.len \in Nat /\ e.layer_name.len \in Nat /\ e.data.len \in Nat
  BY DEF IsValue, IsField
<1>2. PICK a : a = lpf(e.value_name) /\ Sized(a, 4 + e.value_name.len) /\ (Pass(a) <=> LpfOk(e.value_name))
  BY <1>1, FieldLine, Zenon
<1>3. PICK b : b = lpf(e.layer_name) /\ Sized(b, 4 + e.layer_name.len) /\ (Pass(b) <=> LpfOk(e.layer_name))
  BY <1>1, FieldLine, Zenon
<1>4. PICK c : c = u32(e.value_type) /\ Plain(c, 4)
  BY Fields, Zenon
<1>5. PICK d : d = lpf(e.data) /\ Sized(d, 4 + e.data.len) /\ (Pass(d) <=> LpfOk(e.data))
  BY <1>1, FieldLine, Zenon
<1>6. PICK g : g = u64(e.sequence) /\ Plain(g, 8)
  BY Fields, Zenon
<1>7. PICK u : u = ValueSteps(e)
  OBVIOUS
<1>8. Joins5(u, a, b, c, d, g)
  BY <1>2, <1>3, <1>4, <1>5, <1>6, <1>7, Join5, Zenon DEF ValueSteps, Sized, Only, Plain
<1>9. Encoded(u) = (4 + e.value_name.len) + (4 + e.layer_name.len) + 4 + (4 + e.data.len) + 8
  BY <1>2, <1>3, <1>4, <1>5, <1>6, <1>8, Zenon DEF Joins5, Sized, Plain
<1>10. Encoded(u) = 12 + e.value_name.len + e.layer_name.len + 4 + e.data.len + 8
  BY <1>1, <1>9
<1>11. Line(u) /\ (Pass(u) <=> LpfOk(e.value_name) /\ LpfOk(e.layer_name) /\ LpfOk(e.data))
  BY <1>2, <1>3, <1>4, <1>5, <1>6, <1>8, Zenon DEF Joins5, Plain
<1> QED
  BY <1>7, <1>10, <1>11, Zenon DEF Sized

\* Those of one blanket.
LEMMA BlanketLine ==
    ASSUME NEW b, IsBlanket(b)
    PROVE  /\ Sized(BlanketSteps(b), 4 + b.layer_name.len + 8)
           /\ Pass(BlanketSteps(b)) <=> LpfOk(b.layer_name)
<1>1. IsField(b.layer_name)
  BY DEF IsBlanket
<1>2. PICK a : a = lpf(b.layer_name) /\ Sized(a, 4 + b.layer_name.len) /\ (Pass(a) <=> LpfOk(b.layer_name))
  BY <1>1, FieldLine, Zenon
<1>3. PICK c : c = u64(b.sequence) /\ Plain(c, 8)
  BY Fields, Zenon
<1>4. Joins(BlanketSteps(b), a, c)
  BY <1>2, <1>3, LineConcat, Zenon DEF BlanketSteps, Sized, Plain
<1> QED
  BY <1>2, <1>3, <1>4, Zenon DEF Joins, Sized, Plain

\* A count and the elements.
LEMMA EntryBlock ==
    ASSUME NEW a, IsArray(a, IsEntry)
    PROVE  /\ Sized(encode_path_entry_block(a), Total(a, EntrySize))
           /\ Pass(encode_path_entry_block(a)) <=>
                 ArrayOk(a) /\ \A i \in DOMAIN a.elems : LpfOk(a.elems[i].layer) /\ TargetOk(a.elems[i])
<1>1. WellSized(a) /\ \A i \in 1..Len(a.elems) : IsEntry(a.elems[i])
  BY Zenon DEF IsArray
<1>2. DOMAIN a.elems = 1..Len(a.elems)
  BY <1>1, ArrayShape, Zenon
<1>3. PICK f : f = [i \in DOMAIN a.elems |-> EntrySteps(a.elems[i])]
  BY Zenon
<1>4. PICK n : n = [i \in DOMAIN a.elems |-> EntrySize(a.elems[i])]
  BY Zenon
<1>5. \A i \in DOMAIN a.elems : Sized(f[i], n[i]) /\ (Pass(f[i]) <=> LpfOk(a.elems[i].layer) /\ TargetOk(a.elems[i]))
  BY <1>1, <1>2, <1>3, <1>4, EntryLine, Zenon
<1>6. f = [i \in DOMAIN a.elems |-> f[i]] /\ n = [i \in DOMAIN a.elems |-> n[i]]
  BY <1>3, <1>4, Zenon
<1>7. PICK r : r = Flatten(f) /\ Repeats(r, a, f, n)
  BY <1>1, <1>2, <1>5, <1>6, EachLine, Zenon
<1>8. PICK p : p = require_array(a) /\ Only(p) /\ (Pass(p) <=> ArrayOk(a))
  BY <1>1, ArrayCheck, Zenon DEF Only
<1>9. PICK q : q = u32(a.count) /\ Plain(q, 4)
  BY Fields, Zenon
<1>10. PICK u : u = encode_path_entry_block(a)
  OBVIOUS
<1>11. u = p \o q \o r
  BY <1>3, <1>7, <1>8, <1>9, <1>10, Zenon DEF encode_path_entry_block, ForEach, EntrySteps
<1>12. Joins3(u, p, q, r)
  BY <1>7, <1>8, <1>9, <1>11, Join3, Zenon DEF Repeats, Sized, Only, Plain
<1>13. Encoded(u) = 0 + 4 + Sum(n)
  BY <1>7, <1>8, <1>9, <1>12, Zenon DEF Joins3, Repeats, Sized, Only, Plain
<1>14. Total(a, EntrySize) = 4 + Sum(n)
  BY <1>4, Zenon DEF Total, Map
<1>15. Encoded(u) = Total(a, EntrySize)
  BY <1>13, <1>14
<1>16. Line(u) /\ (Pass(u) <=> ArrayOk(a) /\ \A i \in DOMAIN a.elems : Pass(f[i]))
  BY <1>7, <1>8, <1>9, <1>12, Zenon DEF Joins3, Repeats, Plain
<1> QED
  BY <1>5, <1>10, <1>15, <1>16, Zenon DEF Sized

\* The path entries of a child are a block.
EntriesOk(a) == ArrayOk(a) /\ \A i \in DOMAIN a.elems : LpfOk(a.elems[i].layer) /\ TargetOk(a.elems[i])
ChildSize(c) == 4 + c.child_name.len + Total(c.entries, EntrySize)

\* Those of one child with its entries.
LEMMA ChildLine ==
    ASSUME NEW c, IsChild(c)
    PROVE  /\ Sized(ChildSteps(c), ChildSize(c))
           /\ Pass(ChildSteps(c)) <=> LpfOk(c.child_name) /\ EntriesOk(c.entries)
<1>1. IsField(c.child_name) /\ IsArray(c.entries, IsEntry)
  BY Zenon DEF IsChild
<1>2. PICK a : a = lpf(c.child_name) /\ Sized(a, 4 + c.child_name.len) /\ (Pass(a) <=> LpfOk(c.child_name))
  BY <1>1, FieldLine, Zenon
<1>3. PICK b : b = encode_path_entry_block(c.entries)
  OBVIOUS
<1>4. Sized(b, Total(c.entries, EntrySize)) /\ (Pass(b) <=> EntriesOk(c.entries))
  BY <1>1, <1>3, EntryBlock, Zenon DEF EntriesOk
<1>5. Joins(ChildSteps(c), a, b)
  BY <1>2, <1>3, <1>4, LineConcat, Zenon DEF ChildSteps, Sized
<1> QED
  BY <1>2, <1>4, <1>5, Zenon DEF Joins, Sized, ChildSize

ValueSize(e)   == 12 + e.value_name.len + e.layer_name.len + 4 + e.data.len + 8
BlanketSize(b) == 4 + b.layer_name.len + 8
ValueOk(e)     == LpfOk(e.value_name) /\ LpfOk(e.layer_name) /\ LpfOk(e.data)

\* The elements of an array.
LEMMA EachChild ==
    ASSUME NEW a, IsArray(a, IsChild), NEW r, r = Flatten([i \in DOMAIN a.elems |-> ChildSteps(a.elems[i])])
    PROVE  /\ Sized(r, Sum(Map(a, ChildSize)))
           /\ Pass(r) <=> \A i \in DOMAIN a.elems : (LpfOk(a.elems[i].child_name) /\ EntriesOk(a.elems[i].entries))
<1>1. WellSized(a) /\ \A i \in 1..Len(a.elems) : IsChild(a.elems[i])
  BY Zenon DEF IsArray
<1>2. DOMAIN a.elems = 1..Len(a.elems)
  BY <1>1, ArrayShape, Zenon
<1>3. PICK f : f = [i \in DOMAIN a.elems |-> ChildSteps(a.elems[i])]
  OBVIOUS
<1>4. PICK n : n = [i \in DOMAIN a.elems |-> ChildSize(a.elems[i])]
  BY Zenon
<1>5. \A i \in DOMAIN a.elems :
         Sized(f[i], n[i]) /\ (Pass(f[i]) <=> (LpfOk(a.elems[i].child_name) /\ EntriesOk(a.elems[i].entries)))
  BY <1>1, <1>2, <1>3, <1>4, ChildLine, Zenon
<1>6. f = [i \in DOMAIN a.elems |-> f[i]] /\ n = [i \in DOMAIN a.elems |-> n[i]]
  BY <1>3, <1>4, Zenon
<1>7. Repeats(r, a, f, n)
  BY <1>1, <1>2, <1>3, <1>5, <1>6, EachLine, Zenon
<1>8. Map(a, ChildSize) = n
  BY <1>4, Zenon DEF Map
<1> QED
  BY <1>5, <1>7, <1>8, Zenon DEF Repeats

\* So for metadata.
LEMMA EachMetadata ==
    ASSUME NEW a, IsArray(a, IsMetadata), NEW r, r = Flatten([i \in DOMAIN a.elems |-> MetadataSteps(a.elems[i])])
    PROVE  /\ Sized(r, Sum(Map(a, MetadataSize)))
           /\ Pass(r) <=> \A i \in DOMAIN a.elems : MetadataOk(a.elems[i])
<1>1. WellSized(a) /\ \A i \in 1..Len(a.elems) : IsMetadata(a.elems[i])
  BY Zenon DEF IsArray
<1>2. DOMAIN a.elems = 1..Len(a.elems)
  BY <1>1, ArrayShape, Zenon
<1>3. PICK f : f = [i \in DOMAIN a.elems |-> MetadataSteps(a.elems[i])]
  OBVIOUS
<1>4. PICK n : n = [i \in DOMAIN a.elems |-> MetadataSize(a.elems[i])]
  BY Zenon
<1>5. \A i \in DOMAIN a.elems : Sized(f[i], n[i]) /\ (Pass(f[i]) <=> MetadataOk(a.elems[i]))
  BY <1>1, <1>2, <1>3, <1>4, MetadataLine, Zenon
<1>6. f = [i \in DOMAIN a.elems |-> f[i]] /\ n = [i \in DOMAIN a.elems |-> n[i]]
  BY <1>3, <1>4, Zenon
<1>7. Repeats(r, a, f, n)
  BY <1>1, <1>2, <1>3, <1>5, <1>6, EachLine, Zenon
<1>8. Map(a, MetadataSize) = n
  BY <1>4, Zenon DEF Map
<1> QED
  BY <1>5, <1>7, <1>8, Zenon DEF Repeats

\* So for values.
LEMMA EachValue ==
    ASSUME NEW a, IsArray(a, IsValue), NEW r, r = Flatten([i \in DOMAIN a.elems |-> ValueSteps(a.elems[i])])
    PROVE  /\ Sized(r, Sum(Map(a, ValueSize)))
           /\ Pass(r) <=> \A i \in DOMAIN a.elems : ValueOk(a.elems[i])
<1>1. WellSized(a) /\ \A i \in 1..Len(a.elems) : IsValue(a.elems[i])
  BY Zenon DEF IsArray
<1>2. DOMAIN a.elems = 1..Len(a.elems)
  BY <1>1, ArrayShape, Zenon
<1>3. PICK f : f = [i \in DOMAIN a.elems |-> ValueSteps(a.elems[i])]
  OBVIOUS
<1>4. PICK n : n = [i \in DOMAIN a.elems |-> ValueSize(a.elems[i])]
  BY Zenon
<1>5. \A i \in DOMAIN a.elems : Sized(f[i], n[i]) /\ (Pass(f[i]) <=> ValueOk(a.elems[i]))
  BY <1>1, <1>2, <1>3, <1>4, ValueLine, Zenon DEF ValueSize, ValueOk
<1>6. f = [i \in DOMAIN a.elems |-> f[i]] /\ n = [i \in DOMAIN a.elems |-> n[i]]
  BY <1>3, <1>4, Zenon
<1>7. Repeats(r, a, f, n)
  BY <1>1, <1>2, <1>3, <1>5, <1>6, EachLine, Zenon
<1>8. Map(a, ValueSize) = n
  BY <1>4, Zenon DEF Map
<1> QED
  BY <1>5, <1>7, <1>8, Zenon DEF Repeats

\* So for blankets.
LEMMA EachBlanket ==
    ASSUME NEW a, IsArray(a, IsBlanket), NEW r, r = Flatten([i \in DOMAIN a.elems |-> BlanketSteps(a.elems[i])])
    PROVE  /\ Sized(r, Sum(Map(a, BlanketSize)))
           /\ Pass(r) <=> \A i \in DOMAIN a.elems : LpfOk(a.elems[i].layer_name)
<1>1. WellSized(a) /\ \A i \in 1..Len(a.elems) : IsBlanket(a.elems[i])
  BY Zenon DEF IsArray
<1>2. DOMAIN a.elems = 1..Len(a.elems)
  BY <1>1, ArrayShape, Zenon
<1>3. PICK f : f = [i \in DOMAIN a.elems |-> BlanketSteps(a.elems[i])]
  OBVIOUS
<1>4. PICK n : n = [i \in DOMAIN a.elems |-> BlanketSize(a.elems[i])]
  BY Zenon
<1>5. \A i \in DOMAIN a.elems : Sized(f[i], n[i]) /\ (Pass(f[i]) <=> LpfOk(a.elems[i].layer_name))
  BY <1>1, <1>2, <1>3, <1>4, BlanketLine, Zenon DEF BlanketSize
<1>6. f = [i \in DOMAIN a.elems |-> f[i]] /\ n = [i \in DOMAIN a.elems |-> n[i]]
  BY <1>3, <1>4, Zenon
<1>7. Repeats(r, a, f, n)
  BY <1>1, <1>2, <1>3, <1>5, <1>6, EachLine, Zenon
<1>8. Map(a, BlanketSize) = n
  BY <1>4, Zenon DEF Map
<1> QED
  BY <1>5, <1>7, <1>8, Zenon DEF Repeats

\* encode_metadata_block: a count and the metadata.
LEMMA MetadataBlock ==
    ASSUME NEW a, IsArray(a, IsMetadata)
    PROVE  /\ Sized(encode_metadata_block(a), Total(a, MetadataSize))
           /\ Pass(encode_metadata_block(a)) <=> ArrayOk(a) /\ \A i \in DOMAIN a.elems : MetadataOk(a.elems[i])
<1>1. WellSized(a)
  BY Zenon DEF IsArray
<1>2. PICK r : r = Flatten([i \in DOMAIN a.elems |-> MetadataSteps(a.elems[i])])
  OBVIOUS
<1>3. Sized(r, Sum(Map(a, MetadataSize))) /\ (Pass(r) <=> \A i \in DOMAIN a.elems : MetadataOk(a.elems[i]))
  BY <1>2, EachMetadata, Zenon
<1>4. PICK p : p = require_array(a) /\ Only(p) /\ (Pass(p) <=> ArrayOk(a))
  BY <1>1, ArrayCheck, Zenon DEF Only
<1>5. PICK q : q = u32(a.count) /\ Plain(q, 4)
  BY Fields, Zenon
<1>6. PICK u : u = encode_metadata_block(a)
  OBVIOUS
<1>7. u = p \o q \o r
  BY <1>2, <1>4, <1>5, <1>6, Zenon DEF encode_metadata_block, ForEach, MetadataSteps
<1>8. Joins3(u, p, q, r)
  BY <1>3, <1>4, <1>5, <1>7, Join3, Zenon DEF Sized, Only, Plain
<1>9. Encoded(u) = 0 + 4 + Sum(Map(a, MetadataSize))
  BY <1>3, <1>4, <1>5, <1>8, Zenon DEF Joins3, Sized, Only, Plain
<1>10. Encoded(u) = Total(a, MetadataSize)
  BY <1>9 DEF Total
<1>11. Line(u) /\ (Pass(u) <=> ArrayOk(a) /\ \A i \in DOMAIN a.elems : MetadataOk(a.elems[i]))
  BY <1>3, <1>4, <1>5, <1>8, Zenon DEF Joins3, Sized, Plain
<1> QED
  BY <1>6, <1>10, <1>11, Zenon DEF Sized
-----------------------------------------------------------------------------
(* The steps of each helper *)

\* The target of an entry.
TargetSteps(e) == require_path_target(e) \o IF is_guid_target(e) THEN <<[kind |-> "push_guid"]>> ELSE <<>>

\* The elements of an array.
ChildLines(a)   == Flatten([i \in DOMAIN a.elems |-> ChildSteps(a.elems[i])])
ValueLines(a)   == Flatten([i \in DOMAIN a.elems |-> ValueSteps(a.elems[i])])
BlanketLines(a) == Flatten([i \in DOMAIN a.elems |-> BlanketSteps(a.elems[i])])

\* The lines of the six calls.
LookupSteps(req, a, b) ==
    require_response_req(req, "LOOKUP") \o validate_lookup_metadata(a, b) \o new_writer
    \o encode_path_entry_block(a) \o encode_metadata_block(b)

EnumSteps(req, a, b) ==
    require_response_req(req, "ENUM_CHILDREN") \o validate_enum_children_metadata(a, b)
    \o new_writer \o u32(a.count) \o ChildLines(a) \o encode_metadata_block(b)

DeleteLayerSteps(req, a) ==
    require_response_req(req, "DELETE_LAYER") \o orphaned_guid_bytes(a)
    \o new_writer \o u32(a.count) \o Emit(a.elems, 16 * a.count)

ReadKeySteps(req, name, parent, sd, vol, sym, lwt) ==
    require_response_req(req, "READ_KEY") \o Check(parent # NULL) \o new_writer
    \o lpf(name) \o Emit(parent, 16) \o lpf(sd) \o require_bool(vol) \o require_bool(sym)
    \o u8(vol) \o u8(sym) \o u64(lwt)

QuerySteps(req, a, b) ==
    require_response_req(req, "QUERY_VALUES") \o require_array(a) \o require_array(b)
    \o new_writer \o u32(a.count) \o ValueLines(a) \o u32(b.count) \o BlanketLines(b)

StatusSteps(req, status) ==
    Check(req # NULL) \o Check(OpOf(req) \in OpCodes) \o validate_status_response(req, status)
-----------------------------------------------------------------------------
(* Lines in the frame *)

\* The fields of a line of steps are those of the frame from position p to the
\* one before q, which h gives step by step.
Track(h, s, p, q) ==
    /\ h \in [0..Len(s) -> 1..(Len(Body) + 1)] /\ h[0] = p /\ h[Len(s)] = q
    /\ \A i \in 1..Len(s) : IF s[i].kind = "emit"
                            THEN h[i] = h[i - 1] + 1 /\ h[i - 1] \in DOMAIN Body /\ Body[h[i - 1]] = s[i]
                            ELSE h[i] = h[i - 1]

Spans(s, p, q) == \E h : Track(h, s, p, q)

\* t is the part of s after its first k steps.
Part(t, s, k) == k \in Nat /\ Len(t) \in Nat /\ k + Len(t) <= Len(s) /\ \A i \in 1..Len(t) : t[i] = s[k + i]

\* So are the fields of a part of it.
LEMMA PartTrack ==
    ASSUME NEW s, NEW t, NEW k, Part(t, s, k), Len(s) \in Nat, NEW h, NEW p, NEW q, Track(h, s, p, q)
    PROVE  Spans(t, h[k], h[k + Len(t)])
<1>1. PICK n \in Nat : n = Len(t)
  BY DEF Part
<1>2. k \in Nat /\ k + n <= Len(s) /\ \A i \in 1..n : t[i] = s[k + i]
  BY <1>1 DEF Part
<1>3. PICK R : R = 1..(Len(Body) + 1)
  BY Zenon
<1>4. h \in [0..Len(s) -> R]
  BY <1>3, Zenon DEF Track
<1>5. PICK g : g = [i \in 0..n |-> h[k + i]]
  BY Zenon
<1>6. \A i \in 0..n : g[i] = h[k + i]
  BY <1>5, Zenon
<1>7. ASSUME NEW i \in 0..n PROVE h[k + i] \in R
  <2>1. k + i \in 0..Len(s)
    BY <1>2
  <2> QED
    BY <1>4, <2>1, Zenon
<1>8. g \in [0..n -> R]
  BY <1>5, <1>7, Zenon
<1>9. g[0] = h[k] /\ g[n] = h[k + n]
  <2>1. 0 \in 0..n /\ n \in 0..n /\ k + 0 = k
    BY <1>2
  <2> QED
    BY <1>6, <2>1, Zenon
<1>10. ASSUME NEW i \in 1..n
       PROVE  IF t[i].kind = "emit"
              THEN g[i] = g[i - 1] + 1 /\ g[i - 1] \in DOMAIN Body /\ Body[g[i - 1]] = t[i]
              ELSE g[i] = g[i - 1]
  <2>1. i \in 0..n /\ i - 1 \in 0..n /\ k + i \in 1..Len(s) /\ k + (i - 1) = (k + i) - 1
    BY <1>2
  <2>2. g[i] = h[k + i] /\ g[i - 1] = h[(k + i) - 1]
    BY <1>6, <2>1, Zenon
  <2>3. PICK j \in 1..Len(s) : j = k + i
    BY <2>1, Zenon
  <2>4. IF s[j].kind = "emit" THEN h[j] = h[j - 1] + 1 /\ h[j - 1] \in DOMAIN Body /\ Body[h[j - 1]] = s[j]
        ELSE h[j] = h[j - 1]
    BY Zenon DEF Track
  <2>5. t[i] = s[j] /\ g[i] = h[j] /\ g[i - 1] = h[j - 1]
    BY <1>2, <2>2, <2>3, Zenon
  <2> QED
    BY <2>4, <2>5, Zenon
<1> QED
  BY <1>1, <1>3, <1>8, <1>9, <1>10, Zenon DEF Spans, Track

\* Two lines one after the other.
LEMMA SplitSpan ==
    ASSUME NEW s, NEW t, IsSeq(s), IsSeq(t), NEW p, NEW q, Spans(s \o t, p, q)
    PROVE  \E m : Spans(s, p, m) /\ Spans(t, m, q)
<1>1. PICK u : u = s \o t /\ Follows(u, s, t)
  BY ConcatSet, Zenon
<1>2. PICK m \in Nat : m = Len(s)
  BY SeqFacts
<1>3. PICK n \in Nat : n = Len(t)
  BY SeqFacts
<1>4. Len(u) = m + n /\ (\A i \in 1..m : u[i] = s[i]) /\ \A i \in 1..n : u[m + i] = t[i]
  BY <1>1, <1>2, <1>3, Zenon DEF Follows
<1>5. PICK h : Track(h, u, p, q)
  BY <1>1, Zenon DEF Spans
<1>6. Part(s, u, 0) /\ 0 + Len(s) = m
  BY <1>2, <1>4 DEF Part
<1>7. Part(t, u, m) /\ m + Len(t) = Len(u) /\ Len(u) \in Nat
  BY <1>3, <1>4 DEF Part
<1>8. h[0] = p /\ h[Len(u)] = q
  BY <1>5, Zenon DEF Track
<1>9. Spans(s, h[0], h[0 + Len(s)]) /\ Spans(t, h[m], h[m + Len(t)])
  BY <1>5, <1>6, <1>7, PartTrack, Zenon
<1> QED
  BY <1>6, <1>7, <1>8, <1>9, Zenon

\* The ends of lines put end to end.
Ends(at, seqs, N, p, q) ==
    /\ at \in [0..N -> 1..(Len(Body) + 1)] /\ at[0] = p /\ at[N] = q
    /\ \A i \in 1..N : Spans(seqs[i], at[i - 1], at[i])

\* Lines put end to end.
LEMMA FlattenSpan ==
    ASSUME NEW N \in Nat, NEW seqs, IsSeq(seqs), N = Len(seqs), \A i \in 1..N : IsSeq(seqs[i]),
           NEW p, NEW q, Spans(Flatten(seqs), p, q)
    PROVE  \E at : Ends(at, seqs, N, p, q)
<1>1. PICK A : A = UNION { Range(seqs[i]) : i \in 1..N }
  BY Zenon
<1>2. ASSUME NEW i \in 1..N PROVE seqs[i] \in Seq(A)
  <2>1. IsSeq(seqs[i]) /\ Range(seqs[i]) \subseteq A
    BY <1>1
  <2> QED
    BY <2>1 DEF IsSeq
<1>3. seqs \in Seq(Seq(A))
  BY <1>2 DEF IsSeq
<1>4. PICK u \in Seq(A) : u = Flatten(seqs)
  BY <1>3, Flattened, Zenon
<1>5. PICK off : Starts(off, seqs) /\ off[N] = Len(u) /\ Placed(u, off, seqs, N)
  BY <1>3, <1>4, Flattened, Zenon
<1>6. PICK h : Track(h, u, p, q)
  BY <1>4, Zenon DEF Spans
<1>7. Len(u) \in Nat /\ off \in [0..N -> Nat] /\ off[0] = 0
  BY <1>5 DEF Starts
<1>8. ASSUME NEW i \in 1..N PROVE /\ Spans(seqs[i], h[off[i - 1]], h[off[i]])
                                  /\ off[i - 1] \in 0..Len(u) /\ off[i] \in 0..Len(u)
  <2>1. PICK a \in Nat : a = off[i - 1]
    BY <1>7
  <2>2. PICK b \in Nat : b = off[i]
    BY <1>7
  <2>3. PICK n \in Nat : n = Len(seqs[i])
    BY <1>2
  <2>4. b = a + n
    BY <1>5, <2>1, <2>2, <2>3, Zenon DEF Starts
  <2>5. b <= Len(u)
    <3>1. i \in 0..Len(seqs) /\ N \in 0..Len(seqs) /\ i <= N
      OBVIOUS
    <3>2. off[i] <= off[N]
      BY <1>3, <1>5, <3>1, StartsOrdered, Zenon
    <3> QED
      BY <1>5, <2>2, <3>2, Zenon
  <2>6. \A j \in 1..n : u[a + j] = seqs[i][j]
    BY <1>5, <2>1, <2>3, Zenon DEF Placed
  <2>7. Part(seqs[i], u, a)
    BY <2>3, <2>4, <2>5, <2>6 DEF Part
  <2>8. Spans(seqs[i], h[a], h[a + Len(seqs[i])])
    BY <1>6, <1>7, <2>7, PartTrack, Zenon
  <2>9. a \in 0..Len(u) /\ b \in 0..Len(u)
    BY <1>7, <2>4, <2>5
  <2> QED
    BY <2>1, <2>2, <2>3, <2>4, <2>8, <2>9, Zenon
<1>9. PICK R : R = 1..(Len(Body) + 1)
  BY Zenon
<1>10. h \in [0..Len(u) -> R] /\ h[0] = p /\ h[Len(u)] = q
  BY <1>6, <1>9, Zenon DEF Track
<1>11. PICK at : at = [i \in 0..N |-> h[off[i]]]
  BY Zenon
<1>12. \A i \in 0..N : at[i] = h[off[i]]
  BY <1>11, Zenon
<1>13. 0 \in 0..N /\ N \in 0..N /\ \A i \in 1..N : i \in 0..N /\ i - 1 \in 0..N
  OBVIOUS
<1>14. at[0] = p /\ at[N] = q
  BY <1>5, <1>7, <1>10, <1>12, <1>13, Zenon
<1>15. ASSUME NEW i \in 1..N PROVE Spans(seqs[i], at[i - 1], at[i])
  BY <1>8, <1>12, <1>13, Zenon
<1>16. ASSUME NEW i \in 0..N PROVE h[off[i]] \in R
  <2>1. CASE i = 0
    <3>1. 0 \in 0..Len(u)
      BY <1>7
    <3> QED
      BY <1>7, <1>10, <2>1, <3>1, Zenon
  <2>2. CASE i # 0
    <3>1. i \in 1..N
      BY <2>2
    <3> QED
      BY <1>8, <1>10, <3>1, Zenon
  <2> QED
    BY <2>1, <2>2, Zenon
<1>17. at \in [0..N -> R]
  BY <1>11, <1>16, Zenon
<1> QED
  BY <1>9, <1>14, <1>15, <1>17, Zenon DEF Ends
-----------------------------------------------------------------------------
(* Reading single fields *)

\* A line that appends nothing.
Quiet(s) == IsSeq(s) /\ \A x \in Range(s) : x.kind # "emit"

\* Such a line takes up nothing of the frame.
LEMMA QuietSpan == ASSUME NEW s, Quiet(s), NEW p, NEW q, Spans(s, p, q) PROVE q = p
<1>1. PICK N \in Nat : N = Len(s) /\ \A i \in 1..N : s[i].kind # "emit"
  BY SeqFacts DEF Quiet
<1>2. PICK h : Track(h, s, p, q)
  BY Zenon DEF Spans
<1>3. h[0] = p /\ h[N] = q /\ \A i \in 1..N : h[i] = h[i - 1]
  BY <1>1, <1>2, Zenon DEF Track
<1>4. PICK S : S = { n \in 0..N : h[n] = p }
  BY Zenon
<1>5. 0 \in S
  BY <1>3, <1>4
<1>6. ASSUME NEW n \in 0..(N - 1), n \in S PROVE n + 1 \in S
  <2>1. n + 1 \in 1..N /\ n + 1 \in 0..N /\ (n + 1) - 1 = n
    OBVIOUS
  <2>2. h[n + 1] = h[n]
    BY <1>3, <2>1
  <2> QED
    BY <1>4, <1>6, <2>1, <2>2, Zenon
<1>7. N \in S
  BY <1>5, <1>6, BoundedInduction
<1> QED
  BY <1>3, <1>4, <1>7, Zenon

\* Quiet lines can be joined.
LEMMA QuietConcat == ASSUME NEW s, NEW t, Quiet(s), Quiet(t) PROVE Quiet(s \o t)
<1>1. IsSeq(s \o t) /\ Range(s \o t) = Range(s) \cup Range(t)
  BY ConcatSet, Zenon DEF Quiet, Follows
<1> QED
  BY <1>1, Zenon DEF Quiet

\* The reading r ends at position q with the value v.
Gets(r, q, v) == r.next = q /\ r.val = v

\* A field is read as it was appended.
LEMMA EmitSpan ==
    ASSUME NEW v, NEW n, NEW p, NEW q, Spans(Emit(v, n), p, q)
    PROVE  Gets(ReadField(p, n), q, v) /\ q = p + 1
<1>1. PICK x : x = [kind |-> "emit", val |-> v, size |-> n]
  BY Zenon
<1>2. PICK s : s = Emit(v, n) /\ Len(s) = 1 /\ s[1] = x
  BY <1>1, OneElement, Zenon DEF Emit
<1>3. x.kind = "emit" /\ x.val = v /\ x.size = n
  BY <1>1
<1>4. PICK h : Track(h, s, p, q)
  BY <1>2, Zenon DEF Spans
<1>5. h[0] = p /\ h[1] = q
  BY <1>2, <1>4 DEF Track
<1>6. h[1] = h[1 - 1] + 1 /\ h[1 - 1] \in DOMAIN Body /\ Body[h[1 - 1]] = x
  <2>1. 1 \in 1..Len(s)
    BY <1>2
  <2> QED
    BY <1>2, <1>3, <1>4, <2>1, Zenon DEF Track
<1>7. q = p + 1 /\ p \in DOMAIN Body /\ Body[p] = x
  BY <1>5, <1>6
<1> QED
  BY <1>3, <1>7, Zenon DEF ReadField, Gets

\* Integers of all widths and GUIDs are fields.
LEMMA FixedSpan ==
    ASSUME NEW v, NEW p, NEW q
    PROVE  /\ Spans(u8(v), p, q)   => Gets(ReadField(p, 1), q, v)
           /\ Spans(u32(v), p, q)  => Gets(ReadField(p, 4), q, v)
           /\ Spans(u64(v), p, q)  => Gets(ReadField(p, 8), q, v)
           /\ Spans(guid(v), p, q) => Gets(ReadField(p, 16), q, v)
BY EmitSpan, Zenon DEF u8, u32, u64, guid

\* A check appends nothing, and neither does no step at all.
LEMMA QuietCheck == ASSUME NEW ok PROVE Quiet(Check(ok))
<1>1. PICK x : x = [kind |-> "require", ok |-> ok, errno |-> "EINVAL"]
  BY Zenon
<1>2. x.kind # "emit"
  BY <1>1
<1>3. IsSeq(Check(ok)) /\ Range(Check(ok)) = {x}
  BY <1>1, OneElement, Zenon DEF Check
<1> QED
  BY <1>2, <1>3, Zenon DEF Quiet

\* No steps append nothing.
LEMMA QuietNone == Quiet(<<>>)
BY NoSteps, Zenon DEF Quiet

\* A field's line is a sequence.
LEMMA EmitSeq == ASSUME NEW v, NEW n PROVE IsSeq(Emit(v, n))
BY OneElement, Zenon DEF Emit

\* A length-prefixed field is read back as its bytes; an empty one has none.
LEMMA LpfSpan ==
    ASSUME NEW f, IsField(f), NEW p, NEW q, Spans(lpf(f), p, q)
    PROVE  Gets(ReadLpf(p), q, Bytes(f))
<1>1. PICK a : a = require_lpf(f) /\ Quiet(a)
  BY QuietCheck, Zenon DEF require_lpf
<1>2. PICK b : b = u32(f.len) /\ IsSeq(b)
  BY EmitSeq, Zenon DEF u32
<1>3. PICK c : c = (IF f.len # 0 THEN Emit(f.bytes, f.len) ELSE <<>>) /\ IsSeq(c)
  BY EmitSeq, NoSteps, Zenon
<1>4. PICK d : d = a \o b /\ IsSeq(d)
  BY <1>1, <1>2, ConcatSet, Zenon DEF Quiet, Follows
<1>5. Spans(d \o c, p, q)
  BY <1>1, <1>2, <1>3, <1>4, Zenon DEF lpf
<1>6. PICK m : Spans(d, p, m) /\ Spans(c, m, q)
  BY <1>3, <1>4, <1>5, SplitSpan, Zenon
<1>7. PICK l : Spans(a, p, l) /\ Spans(b, l, m)
  BY <1>1, <1>2, <1>4, <1>6, SplitSpan, Zenon DEF Quiet
<1>8. l = p
  BY <1>1, <1>7, QuietSpan, Zenon
<1>9. Gets(ReadField(p, 4), m, f.len)
  BY <1>2, <1>7, <1>8, FixedSpan, Zenon
<1>10. CASE f.len = 0
  <2>1. q = m
    BY <1>3, <1>6, <1>10, QuietNone, QuietSpan, Zenon
  <2> QED
    BY <1>9, <1>10, <2>1, Zenon DEF ReadLpf, Bytes, Gets
<1>11. CASE f.len # 0
  <2>1. Gets(ReadField(m, f.len), q, f.bytes)
    BY <1>3, <1>6, <1>11, EmitSpan, Zenon
  <2> QED
    BY <1>9, <1>11, <2>1, Zenon DEF ReadLpf, Bytes, Gets
<1> QED
  BY <1>10, <1>11, Zenon

\* A field's line is a sequence.
LEMMA LpfSeq == ASSUME NEW f, IsField(f) PROVE IsSeq(lpf(f))
BY FieldLine, Zenon DEF Sized, Line

\* Sequences can be joined.
LEMMA ConcatSeq == ASSUME NEW s, NEW t, IsSeq(s), IsSeq(t) PROVE IsSeq(s \o t)
BY ConcatSet, Zenon DEF Follows

\* Three, four and five lines fill the frame from p to q in turn.
InTurn3(a, b, c, p, q) == \E i, j : Spans(a, p, i) /\ Spans(b, i, j) /\ Spans(c, j, q)
InTurn4(a, b, c, d, p, q) ==
    \E i, j, k : Spans(a, p, i) /\ Spans(b, i, j) /\ Spans(c, j, k) /\ Spans(d, k, q)
InTurn5(a, b, c, d, e, p, q) ==
    \E i, j, k, l : Spans(a, p, i) /\ Spans(b, i, j) /\ Spans(c, j, k) /\ Spans(d, k, l) /\ Spans(e, l, q)

\* Three, four and five lines one after the other.
LEMMA Split3 ==
    ASSUME NEW a, NEW b, NEW c, IsSeq(a), IsSeq(b), IsSeq(c), NEW p, NEW q, Spans(a \o b \o c, p, q)
    PROVE  InTurn3(a, b, c, p, q)
<1>1. PICK u : u = a \o b /\ IsSeq(u)
  BY ConcatSeq, Zenon
<1>2. PICK j : Spans(u, p, j) /\ Spans(c, j, q)
  BY <1>1, SplitSpan, Zenon
<1>3. PICK i : Spans(a, p, i) /\ Spans(b, i, j)
  BY <1>1, <1>2, SplitSpan, Zenon
<1> QED
  BY <1>2, <1>3, Zenon DEF InTurn3

\* Four lines.
LEMMA Split4 ==
    ASSUME NEW a, NEW b, NEW c, NEW d, IsSeq(a), IsSeq(b), IsSeq(c), IsSeq(d),
           NEW p, NEW q, Spans(a \o b \o c \o d, p, q)
    PROVE  InTurn4(a, b, c, d, p, q)
<1>1. PICK u : u = a \o b /\ IsSeq(u)
  BY ConcatSeq, Zenon
<1>2. PICK j, k : Spans(u, p, j) /\ Spans(c, j, k) /\ Spans(d, k, q)
  BY <1>1, Split3, Zenon DEF InTurn3
<1>3. PICK i : Spans(a, p, i) /\ Spans(b, i, j)
  BY <1>1, <1>2, SplitSpan, Zenon
<1> QED
  BY <1>2, <1>3, Zenon DEF InTurn4

\* Five lines.
LEMMA Split5 ==
    ASSUME NEW a, NEW b, NEW c, NEW d, NEW e, IsSeq(a), IsSeq(b), IsSeq(c), IsSeq(d), IsSeq(e),
           NEW p, NEW q, Spans(a \o b \o c \o d \o e, p, q)
    PROVE  InTurn5(a, b, c, d, e, p, q)
<1>1. PICK u : u = a \o b /\ IsSeq(u)
  BY ConcatSeq, Zenon
<1>2. PICK j, k, l : Spans(u, p, j) /\ Spans(c, j, k) /\ Spans(d, k, l) /\ Spans(e, l, q)
  BY <1>1, Split4, Zenon DEF InTurn4
<1>3. PICK i : Spans(a, p, i) /\ Spans(b, i, j)
  BY <1>1, <1>2, SplitSpan, Zenon
<1> QED
  BY <1>2, <1>3, Zenon DEF InTurn5

\* The lines of fixed fields are sequences.
LEMMA FixedSeq == ASSUME NEW v PROVE IsSeq(u8(v)) /\ IsSeq(u32(v)) /\ IsSeq(u64(v)) /\ IsSeq(guid(v))
BY EmitSeq, Zenon DEF u8, u32, u64, guid

-----------------------------------------------------------------------------
(* Reading elements *)

\* A path entry.
LEMMA EntrySpan ==
    ASSUME NEW e, IsEntry(e), NEW p, NEW q, Spans(EntrySteps(e), p, q)
    PROVE  Gets(ReadPathEntry(p), q, EntrySays(e))
<1>1. PICK a : a = lpf(e.layer) /\ IsSeq(a) /\ IsField(e.layer)
  BY LpfSeq, Zenon DEF IsEntry
<1>2. PICK b : b = require_path_target(e) /\ Quiet(b) /\ IsSeq(b)
  BY QuietCheck, Zenon DEF require_path_target, Quiet
<1>3. PICK c, d, g : /\ c = u8(e.target_type) /\ d = guid(e.target_guid) /\ g = u64(e.sequence)
                     /\ IsSeq(c) /\ IsSeq(d) /\ IsSeq(g)
  BY FixedSeq, Zenon
<1>4. Spans(a \o b \o c \o d \o g, p, q)
  BY <1>1, <1>2, <1>3, Zenon DEF EntrySteps
<1>5. InTurn5(a, b, c, d, g, p, q)
  BY <1>1, <1>2, <1>3, <1>4, Split5, Zenon
<1>6. PICK i, j, k, l : /\ Spans(a, p, i) /\ Spans(b, i, j) /\ Spans(c, j, k)
                        /\ Spans(d, k, l) /\ Spans(g, l, q)
  BY <1>5, Zenon DEF InTurn5
<1>7. j = i
  BY <1>2, <1>6, QuietSpan, Zenon
<1>8. Gets(ReadLpf(p), i, Bytes(e.layer))
  BY <1>1, <1>6, LpfSpan, Zenon
<1>9. /\ Gets(ReadField(i, 1), k, e.target_type) /\ Gets(ReadField(k, 16), l, e.target_guid)
      /\ Gets(ReadField(l, 8), q, e.sequence)
  BY <1>3, <1>6, <1>7, FixedSpan, Zenon
<1> QED
  BY <1>8, <1>9, Zenon DEF ReadPathEntry, EntrySays, Gets

\* The metadata of a key.
LEMMA MetadataSpan ==
    ASSUME NEW m, IsMetadata(m), NEW p, NEW q, Spans(MetadataSteps(m), p, q)
    PROVE  Gets(ReadMetadata(p), q, MetadataSays(m))
<1>1. PICK a, e, f, g : /\ a = guid(m.guid) /\ e = u8(m.volatile_key) /\ f = u8(m.symlink)
                        /\ g = u64(m.last_write_time)
                        /\ IsSeq(a) /\ IsSeq(e) /\ IsSeq(f) /\ IsSeq(g)
  BY FixedSeq, Zenon
<1>2. PICK b : b = lpf(m.sd) /\ IsSeq(b) /\ IsField(m.sd)
  BY LpfSeq, Zenon DEF IsMetadata
<1>3. PICK c, d : /\ c = require_bool(m.volatile_key) /\ d = require_bool(m.symlink)
                  /\ Quiet(c) /\ IsSeq(c) /\ Quiet(d) /\ IsSeq(d)
  BY QuietCheck, Zenon DEF require_bool, Quiet
<1>4. PICK u : u = a \o b \o c \o d /\ IsSeq(u)
  BY <1>1, <1>2, <1>3, ConcatSeq, Zenon
<1>5. Spans(u \o e \o f \o g, p, q)
  BY <1>1, <1>2, <1>3, <1>4, Zenon DEF MetadataSteps
<1>6. InTurn4(u, e, f, g, p, q)
  BY <1>1, <1>4, <1>5, Split4, Zenon
<1>7. PICK l, n, o : Spans(u, p, l) /\ Spans(e, l, n) /\ Spans(f, n, o) /\ Spans(g, o, q)
  BY <1>6, Zenon DEF InTurn4
<1>8. InTurn4(a, b, c, d, p, l)
  BY <1>1, <1>2, <1>3, <1>4, <1>7, Split4, Zenon
<1>9. PICK i, j, k : Spans(a, p, i) /\ Spans(b, i, j) /\ Spans(c, j, k) /\ Spans(d, k, l)
  BY <1>8, Zenon DEF InTurn4
<1>10. k = j /\ l = j
  BY <1>3, <1>9, QuietSpan, Zenon
<1>11. Gets(ReadLpf(i), j, Bytes(m.sd))
  BY <1>2, <1>9, LpfSpan, Zenon
<1>12. /\ Gets(ReadField(p, 16), i, m.guid) /\ Gets(ReadField(j, 1), n, m.volatile_key)
       /\ Gets(ReadField(n, 1), o, m.symlink) /\ Gets(ReadField(o, 8), q, m.last_write_time)
  BY <1>1, <1>7, <1>9, <1>10, FixedSpan, Zenon
<1> QED
  BY <1>11, <1>12, Zenon DEF ReadMetadata, MetadataSays, Gets

\* What the kernel must read of a child, a value and a blanket tombstone.
ChildSays(c)   == <<Bytes(c.child_name), Map(c.entries, EntrySays)>>
ValueSays(e)   == <<Bytes(e.value_name), Bytes(e.layer_name), e.value_type, Bytes(e.data), e.sequence>>
BlanketSays(b) == <<Bytes(b.layer_name), b.sequence>>

\* A value.
LEMMA ValueSpan ==
    ASSUME NEW e, IsValue(e), NEW p, NEW q, Spans(ValueSteps(e), p, q)
    PROVE  Gets(ReadValue(p), q, ValueSays(e))
<1>1. IsField(e.value_name) /\ IsField(e.layer_name) /\ IsField(e.data)
  BY Zenon DEF IsValue
<1>2. PICK a, b, d : /\ a = lpf(e.value_name) /\ b = lpf(e.layer_name) /\ d = lpf(e.data)
                     /\ IsSeq(a) /\ IsSeq(b) /\ IsSeq(d)
  BY <1>1, LpfSeq, Zenon
<1>3. PICK c, g : c = u32(e.value_type) /\ g = u64(e.sequence) /\ IsSeq(c) /\ IsSeq(g)
  BY FixedSeq, Zenon
<1>4. Spans(a \o b \o c \o d \o g, p, q)
  BY <1>2, <1>3, Zenon DEF ValueSteps
<1>5. InTurn5(a, b, c, d, g, p, q)
  BY <1>2, <1>3, <1>4, Split5, Zenon
<1>6. PICK i, j, k, l : /\ Spans(a, p, i) /\ Spans(b, i, j) /\ Spans(c, j, k)
                        /\ Spans(d, k, l) /\ Spans(g, l, q)
  BY <1>5, Zenon DEF InTurn5
<1>7. /\ Gets(ReadLpf(p), i, Bytes(e.value_name)) /\ Gets(ReadLpf(i), j, Bytes(e.layer_name))
      /\ Gets(ReadLpf(k), l, Bytes(e.data))
  BY <1>1, <1>2, <1>6, LpfSpan, Zenon
<1>8. Gets(ReadField(j, 4), k, e.value_type) /\ Gets(ReadField(l, 8), q, e.sequence)
  BY <1>3, <1>6, FixedSpan, Zenon
<1> QED
  BY <1>7, <1>8, Zenon DEF ReadValue, ValueSays, Gets

\* A blanket tombstone.
LEMMA BlanketSpan ==
    ASSUME NEW b, IsBlanket(b), NEW p, NEW q, Spans(BlanketSteps(b), p, q)
    PROVE  Gets(ReadBlanket(p), q, BlanketSays(b))
<1>1. PICK a : a = lpf(b.layer_name) /\ IsSeq(a) /\ IsField(b.layer_name)
  BY LpfSeq, Zenon DEF IsBlanket
<1>2. PICK c : c = u64(b.sequence) /\ IsSeq(c)
  BY FixedSeq, Zenon
<1>3. Spans(a \o c, p, q)
  BY <1>1, <1>2, Zenon DEF BlanketSteps
<1>4. PICK i : Spans(a, p, i) /\ Spans(c, i, q)
  BY <1>1, <1>2, <1>3, SplitSpan, Zenon
<1>5. Gets(ReadLpf(p), i, Bytes(b.layer_name))
  BY <1>1, <1>4, LpfSpan, Zenon
<1>6. Gets(ReadField(i, 8), q, b.sequence)
  BY <1>2, <1>4, FixedSpan, Zenon
<1> QED
  BY <1>5, <1>6, Zenon DEF ReadBlanket, BlanketSays, Gets

-----------------------------------------------------------------------------
(* Reading arrays *)

\* The first n of the values says.
First(says, n) == [j \in 1..n |-> says[j]]

\* One more value.
LEMMA FirstGrows ==
    ASSUME NEW says, NEW n \in Nat
    PROVE  First(says, 0) = <<>> /\ First(says, n + 1) = Append(First(says, n), says[n + 1])
<1>1. PICK A : A = { says[j] : j \in 1..(n + 1) }
  BY Zenon
<1>2. \A j \in 1..(n + 1) : says[j] \in A
  BY <1>1, Zenon
<1>3. PICK s : s = First(says, n)
  BY Zenon
<1>4. PICK t : t = First(says, n + 1)
  BY Zenon
<1>5. \A j \in 1..n : j \in 1..(n + 1)
  OBVIOUS
<1>6. s \in [1..n -> A] /\ t \in [1..(n + 1) -> A]
  BY <1>2, <1>3, <1>4, <1>5, Zenon DEF First
<1>7. s \in Seq(A) /\ t \in Seq(A) /\ Len(s) = n /\ Len(t) = n + 1
  BY <1>6
<1>8. (\A j \in 1..n : s[j] = says[j]) /\ \A j \in 1..(n + 1) : t[j] = says[j]
  BY <1>3, <1>4, Zenon DEF First
<1>9. PICK x \in A : x = says[n + 1]
  BY <1>2
<1>10. PICK u \in Seq(A) : u = Append(s, x) /\ Len(u) = n + 1 /\ u[n + 1] = x /\ \A j \in 1..n : u[j] = s[j]
  <2>1. PICK u : u = Append(s, x)
    BY Zenon
  <2>2. u \in Seq(A) /\ Len(u) = n + 1
    BY <1>7, <2>1
  <2>3. \A j \in 1..(n + 1) : u[j] = IF j <= n THEN s[j] ELSE x
    BY <1>7, <2>1
  <2>4. u[n + 1] = x /\ \A j \in 1..n : u[j] = s[j]
    BY <2>3
  <2> QED
    BY <2>1, <2>2, <2>4, Zenon
<1>11. ASSUME NEW j \in 1..(n + 1) PROVE t[j] = u[j]
  BY <1>8, <1>9, <1>10
<1>12. t = u
  BY <1>7, <1>10, <1>11, SameSeq
<1>13. First(says, 0) = <<>>
  BY DEF First
<1> QED
  BY <1>3, <1>4, <1>9, <1>10, <1>12, <1>13, Zenon

\* The recursion of Counted.
Counts(f, i, first, read) ==
    IF i = 0 THEN [next |-> first, val |-> <<>>]
    ELSE [next |-> read[f[i - 1].next].next, val |-> Append(f[i - 1].val, read[f[i - 1].next].val)]

\* The readings of the elements, one after the other, between the positions at.
ReadsEach(read, at, says, N) == \A i \in 1..N : Gets(read[at[i - 1]], at[i], says[i])

\* A count and its elements are read to the last of them.
LEMMA CountedReads ==
    ASSUME NEW N \in Nat, NEW at, NEW says, NEW read, NEW p,
           Gets(ReadField(p, 4), at[0], N), ReadsEach(read, at, says, N)
    PROVE  Gets(Counted(p, read), at[N], First(says, N))
<1> DEFINE Eq(f) == f = [i \in 0..N |-> Counts(f, i, at[0], read)]
<1> HIDE DEF Eq
<1>1. PICK h : h = [i \in 0..N |-> [next |-> at[i], val |-> First(says, i)]]
  BY Zenon
<1>2. \A i \in 0..N : h[i] = [next |-> at[i], val |-> First(says, i)]
  BY <1>1, Zenon
<1>3. ASSUME NEW i \in 0..N PROVE h[i].next = at[i] /\ h[i].val = First(says, i)
  <2>1. PICK a, v : a = at[i] /\ v = First(says, i)
    BY Zenon
  <2>2. h[i] = [next |-> a, val |-> v]
    BY <1>2, <2>1, Zenon
  <2>3. h[i].next = a /\ h[i].val = v
    BY <2>2
  <2> QED
    BY <2>1, <2>3, Zenon
<1>4. ASSUME NEW i \in 0..N PROVE h[i] = Counts(h, i, at[0], read)
  <2>1. CASE i = 0
    BY <1>2, <2>1, FirstGrows, Zenon DEF Counts
  <2>2. CASE i # 0
    <3>1. PICK n \in Nat : i = n + 1 /\ n = i - 1 /\ n \in 0..N /\ i \in 1..N
      <4>1. i - 1 \in Nat /\ i = (i - 1) + 1 /\ i - 1 \in 0..N /\ i \in 1..N
        BY <2>2
      <4> QED
        BY <4>1, Zenon
    <3>2. h[i - 1].next = at[n] /\ h[i - 1].val = First(says, n)
      BY <1>3, <3>1, Zenon
    <3>3. read[at[n]].next = at[i] /\ read[at[n]].val = says[i]
      BY <3>1, Zenon DEF ReadsEach, Gets
    <3>4. First(says, i) = Append(First(says, n), says[i])
      BY <3>1, FirstGrows, Zenon
    <3>5. Counts(h, i, at[0], read) = [next |-> at[i], val |-> First(says, i)]
      BY <2>2, <3>2, <3>3, <3>4, Zenon DEF Counts
    <3> QED
      BY <1>2, <3>5, Zenon
  <2> QED
    BY <2>1, <2>2, Zenon
<1>5. Eq(h)
  BY <1>1, <1>2, <1>4, Zenon DEF Eq
<1>6. PICK f : Eq(f) /\ Counted(p, read) = f[N]
  <2>1. ReadField(p, 4).val = N /\ ReadField(p, 4).next = at[0]
    BY Zenon DEF Gets
  <2>2. Counted(p, read) = (CHOOSE f : Eq(f))[N]
    BY <2>1, Zenon DEF Counted, Eq, Counts
  <2>3. Eq(CHOOSE f : Eq(f))
    BY <1>5
  <2> QED
    BY <2>2, <2>3, Zenon
<1>7. ASSUME NEW i \in 0..N PROVE f[i] = Counts(f, i, at[0], read)
  BY <1>6, Zenon DEF Eq
<1> DEFINE S == { n \in 0..N : f[n] = h[n] }
<1> HIDE DEF S
<1>8. 0 \in S
  <2>1. 0 \in 0..N
    OBVIOUS
  <2>2. f[0] = h[0]
    BY <1>4, <1>7, <2>1, Zenon DEF Counts
  <2> QED
    BY <2>1, <2>2, Zenon DEF S
<1>9. ASSUME NEW n \in 0..(N - 1), n \in S PROVE n + 1 \in S
  <2>1. n + 1 \in 0..N /\ (n + 1) - 1 = n /\ n + 1 # 0
    OBVIOUS
  <2>2. f[n] = h[n]
    BY <1>9, Zenon DEF S
  <2>3. Counts(f, n + 1, at[0], read) = Counts(h, n + 1, at[0], read)
    BY <2>1, <2>2, Zenon DEF Counts
  <2>4. f[n + 1] = h[n + 1]
    BY <1>4, <1>7, <2>1, <2>3, Zenon
  <2> QED
    BY <2>1, <2>4, Zenon DEF S
<1>10. N \in S
  BY <1>8, <1>9, BoundedInduction, Zenon
<1>11. N \in 0..N
  OBVIOUS
<1> QED
  BY <1>3, <1>6, <1>10, <1>11, Zenon DEF S, Gets

\* Every position is one that a reader is asked for.
LEMMA Position == ASSUME NEW x \in 1..(Len(Body) + 1) PROVE x \in 0..(Len(Body) + 1)
<1>1. PICK n : n = Len(Body) + 1
  BY Zenon
<1>2. ASSUME NEW y \in 1..n PROVE y \in 0..n
  OBVIOUS
<1> QED
  BY <1>1, <1>2, Zenon

\* The function read reads the line s as v.
ReadsLine(read, s, v) ==
    IsSeq(s) /\ \A x, y : x \in 1..(Len(Body) + 1) /\ Spans(s, x, y) => Gets(read[x], y, v)

\* The lines of the elements of an array are read as says, which holds as many.
ReadsLines(read, a, lines, says) ==
    /\ lines = [i \in DOMAIN a.elems |-> lines[i]] /\ says = [i \in DOMAIN a.elems |-> says[i]]
    /\ \A i \in DOMAIN a.elems : ReadsLine(read, lines[i], says[i])

\* A count and the elements of an array after it.
LEMMA ArrayReads ==
    ASSUME NEW a, WellSized(a), ArrayOk(a), NEW read, NEW lines, NEW says, ReadsLines(read, a, lines, says),
           NEW p, NEW m, NEW q, Spans(u32(a.count), p, m), Spans(Flatten(lines), m, q)
    PROVE  Gets(Counted(p, read), q, says)
<1>1. PICK N \in Nat : N = Len(a.elems) /\ DOMAIN a.elems = 1..N /\ a.count = N
  BY ArrayShape, Zenon
<1>2. lines = [i \in 1..N |-> lines[i]] /\ says = [i \in 1..N |-> says[i]]
  BY <1>1, Zenon DEF ReadsLines
<1>3. \A i \in 1..N : ReadsLine(read, lines[i], says[i])
  BY <1>1, Zenon DEF ReadsLines
<1>4. PICK A : A = { lines[i] : i \in 1..N }
  BY Zenon
<1>5. lines \in [1..N -> A]
  BY <1>2, <1>4
<1>6. lines \in Seq(A) /\ Len(lines) = N
  BY <1>5
<1>7. IsSeq(lines)
  BY <1>6, SeqIs, Zenon
<1>8. \A i \in 1..N : IsSeq(lines[i])
  BY <1>3, Zenon DEF ReadsLine
<1>9. PICK at : Ends(at, lines, N, m, q)
  BY <1>6, <1>7, <1>8, FlattenSpan, Zenon
<1>10. at[0] = m /\ at[N] = q /\ at \in [0..N -> 1..(Len(Body) + 1)]
  BY <1>9, Zenon DEF Ends
<1>11. ASSUME NEW i \in 1..N PROVE Gets(read[at[i - 1]], at[i], says[i])
  <2>1. i - 1 \in 0..N
    OBVIOUS
  <2>2. at[i - 1] \in 1..(Len(Body) + 1)
    BY <1>10, <2>1, Zenon
  <2>3. Spans(lines[i], at[i - 1], at[i])
    BY <1>9, Zenon DEF Ends
  <2> QED
    BY <1>3, <2>2, <2>3, Zenon DEF ReadsLine
<1>12. ReadsEach(read, at, says, N)
  BY <1>11, Zenon DEF ReadsEach
<1>13. Gets(ReadField(p, 4), at[0], N)
  BY <1>1, <1>10, FixedSpan, Zenon
<1>14. Gets(Counted(p, read), at[N], First(says, N))
  BY <1>12, <1>13, CountedReads, Zenon
<1>15. First(says, N) = says
  BY <1>2, Zenon DEF First
<1> QED
  BY <1>10, <1>14, <1>15, Zenon

\* An entry's line, and that of the metadata of a key, are sequences.
LEMMA ElementSeqs ==
    /\ \A e : IsEntry(e) => IsSeq(EntrySteps(e))
    /\ \A m : IsMetadata(m) => IsSeq(MetadataSteps(m))
    /\ \A e : IsValue(e) => IsSeq(ValueSteps(e))
    /\ \A b : IsBlanket(b) => IsSeq(BlanketSteps(b))
    /\ \A c : IsChild(c) => IsSeq(ChildSteps(c))
<1>1. ASSUME NEW e, IsEntry(e) PROVE IsSeq(EntrySteps(e))
  BY <1>1, EntryLine, Zenon DEF Sized, Line
<1>2. ASSUME NEW m, IsMetadata(m) PROVE IsSeq(MetadataSteps(m))
  BY <1>2, MetadataLine, Zenon DEF Sized, Line
<1>3. ASSUME NEW e, IsValue(e) PROVE IsSeq(ValueSteps(e))
  BY <1>3, ValueLine, Zenon DEF Sized, Line
<1>4. ASSUME NEW b, IsBlanket(b) PROVE IsSeq(BlanketSteps(b))
  BY <1>4, BlanketLine, Zenon DEF Sized, Line
<1>5. ASSUME NEW c, IsChild(c) PROVE IsSeq(ChildSteps(c))
  BY <1>5, ChildLine, Zenon DEF Sized, Line
<1> QED
  BY <1>1, <1>2, <1>3, <1>4, <1>5, Zenon

\* The lines of an array are a sequence.
LEMMA LinesSeq ==
    ASSUME NEW a, WellSized(a), NEW read, NEW lines, NEW says, ReadsLines(read, a, lines, says)
    PROVE  IsSeq(Flatten(lines))
<1>1. PICK N \in Nat : N = Len(a.elems) /\ DOMAIN a.elems = 1..N
  BY ArrayShape, Zenon
<1>2. lines = [i \in 1..N |-> lines[i]] /\ \A i \in 1..N : IsSeq(lines[i])
  BY <1>1, Zenon DEF ReadsLines, ReadsLine
<1>3. PICK A : A = UNION { Range(lines[i]) : i \in 1..N }
  BY Zenon
<1>4. ASSUME NEW i \in 1..N PROVE lines[i] \in Seq(A)
  <2>1. IsSeq(lines[i]) /\ Range(lines[i]) \subseteq A
    BY <1>2, <1>3
  <2> QED
    BY <2>1 DEF IsSeq
<1>5. lines \in [1..N -> Seq(A)]
  BY <1>2, <1>4, Zenon
<1>6. lines \in Seq(Seq(A))
  BY <1>5
<1> QED
  BY <1>6, Flattened, SeqIs, Zenon

\* The block of an array.
LEMMA BlockReads ==
    ASSUME NEW a, WellSized(a), ArrayOk(a), NEW read, NEW lines, NEW says, ReadsLines(read, a, lines, says),
           NEW p, NEW q, Spans(require_array(a) \o u32(a.count) \o Flatten(lines), p, q)
    PROVE  Gets(Counted(p, read), q, says)
<1>1. PICK b : b = require_array(a) /\ Quiet(b) /\ IsSeq(b)
  BY QuietCheck, Zenon DEF require_array, Quiet
<1>2. PICK c : c = u32(a.count) /\ IsSeq(c)
  BY FixedSeq, Zenon
<1>3. PICK r : r = Flatten(lines) /\ IsSeq(r)
  BY LinesSeq, Zenon
<1>4. InTurn3(b, c, r, p, q)
  BY <1>1, <1>2, <1>3, Split3, Zenon
<1>5. PICK l, m : Spans(b, p, l) /\ Spans(c, l, m) /\ Spans(r, m, q)
  BY <1>4, Zenon DEF InTurn3
<1>6. l = p
  BY <1>1, <1>5, QuietSpan, Zenon
<1> QED
  BY <1>2, <1>3, <1>5, <1>6, ArrayReads, Zenon

\* Path entries.
LEMMA EntriesRead ==
    ASSUME NEW a, IsArray(a, IsEntry)
    PROVE  ReadsLines([x \in 0..(Len(Body) + 1) |-> ReadPathEntry(x)], a,
                      [i \in DOMAIN a.elems |-> EntrySteps(a.elems[i])], Map(a, EntrySays))
<1>1. \A i \in DOMAIN a.elems : IsEntry(a.elems[i])
  BY ArrayShape, Zenon DEF IsArray
<1>2. PICK lines : lines = [i \in DOMAIN a.elems |-> EntrySteps(a.elems[i])]
  BY Zenon
<1>3. PICK says : says = Map(a, EntrySays) /\ says = [i \in DOMAIN a.elems |-> EntrySays(a.elems[i])]
  BY Zenon DEF Map
<1>4. PICK read : read = [x \in 0..(Len(Body) + 1) |-> ReadPathEntry(x)]
  BY Zenon
<1>5. ASSUME NEW i \in DOMAIN a.elems PROVE ReadsLine(read, lines[i], says[i])
  <2>1. lines[i] = EntrySteps(a.elems[i]) /\ says[i] = EntrySays(a.elems[i]) /\ IsEntry(a.elems[i])
    BY <1>1, <1>2, <1>3, Zenon
  <2>2. ASSUME NEW x \in 1..(Len(Body) + 1), NEW y, Spans(lines[i], x, y) PROVE Gets(read[x], y, says[i])
    <3>1. read[x] = ReadPathEntry(x)
      BY <1>4, Position, Zenon
    <3> QED
      BY <2>1, <2>2, <3>1, EntrySpan, Zenon
  <2> QED
    BY <2>1, <2>2, ElementSeqs, Zenon DEF ReadsLine
<1>6. lines = [i \in DOMAIN a.elems |-> lines[i]] /\ says = [i \in DOMAIN a.elems |-> says[i]]
  BY <1>2, <1>3, Zenon
<1> QED
  BY <1>2, <1>3, <1>4, <1>5, <1>6, Zenon DEF ReadsLines

\* Metadata.
LEMMA MetadataRead ==
    ASSUME NEW a, IsArray(a, IsMetadata)
    PROVE  ReadsLines([x \in 0..(Len(Body) + 1) |-> ReadMetadata(x)], a,
                      [i \in DOMAIN a.elems |-> MetadataSteps(a.elems[i])], Map(a, MetadataSays))
<1>1. \A i \in DOMAIN a.elems : IsMetadata(a.elems[i])
  BY ArrayShape, Zenon DEF IsArray
<1>2. PICK lines : lines = [i \in DOMAIN a.elems |-> MetadataSteps(a.elems[i])]
  BY Zenon
<1>3. PICK says : says = Map(a, MetadataSays) /\ says = [i \in DOMAIN a.elems |-> MetadataSays(a.elems[i])]
  BY Zenon DEF Map
<1>4. PICK read : read = [x \in 0..(Len(Body) + 1) |-> ReadMetadata(x)]
  BY Zenon
<1>5. ASSUME NEW i \in DOMAIN a.elems PROVE ReadsLine(read, lines[i], says[i])
  <2>1. lines[i] = MetadataSteps(a.elems[i]) /\ says[i] = MetadataSays(a.elems[i]) /\ IsMetadata(a.elems[i])
    BY <1>1, <1>2, <1>3, Zenon
  <2>2. ASSUME NEW x \in 1..(Len(Body) + 1), NEW y, Spans(lines[i], x, y) PROVE Gets(read[x], y, says[i])
    <3>1. read[x] = ReadMetadata(x)
      BY <1>4, Position, Zenon
    <3> QED
      BY <2>1, <2>2, <3>1, MetadataSpan, Zenon
  <2> QED
    BY <2>1, <2>2, ElementSeqs, Zenon DEF ReadsLine
<1>6. lines = [i \in DOMAIN a.elems |-> lines[i]] /\ says = [i \in DOMAIN a.elems |-> says[i]]
  BY <1>2, <1>3, Zenon
<1> QED
  BY <1>2, <1>3, <1>4, <1>5, <1>6, Zenon DEF ReadsLines

\* Values.
LEMMA ValuesRead ==
    ASSUME NEW a, IsArray(a, IsValue)
    PROVE  ReadsLines([x \in 0..(Len(Body) + 1) |-> ReadValue(x)], a,
                      [i \in DOMAIN a.elems |-> ValueSteps(a.elems[i])], Map(a, ValueSays))
<1>1. \A i \in DOMAIN a.elems : IsValue(a.elems[i])
  BY ArrayShape, Zenon DEF IsArray
<1>2. PICK lines : lines = [i \in DOMAIN a.elems |-> ValueSteps(a.elems[i])]
  BY Zenon
<1>3. PICK says : says = Map(a, ValueSays) /\ says = [i \in DOMAIN a.elems |-> ValueSays(a.elems[i])]
  BY Zenon DEF Map
<1>4. PICK read : read = [x \in 0..(Len(Body) + 1) |-> ReadValue(x)]
  BY Zenon
<1>5. ASSUME NEW i \in DOMAIN a.elems PROVE ReadsLine(read, lines[i], says[i])
  <2>1. lines[i] = ValueSteps(a.elems[i]) /\ says[i] = ValueSays(a.elems[i]) /\ IsValue(a.elems[i])
    BY <1>1, <1>2, <1>3, Zenon
  <2>2. ASSUME NEW x \in 1..(Len(Body) + 1), NEW y, Spans(lines[i], x, y) PROVE Gets(read[x], y, says[i])
    <3>1. read[x] = ReadValue(x)
      BY <1>4, Position, Zenon
    <3> QED
      BY <2>1, <2>2, <3>1, ValueSpan, Zenon
  <2> QED
    BY <2>1, <2>2, ElementSeqs, Zenon DEF ReadsLine
<1>6. lines = [i \in DOMAIN a.elems |-> lines[i]] /\ says = [i \in DOMAIN a.elems |-> says[i]]
  BY <1>2, <1>3, Zenon
<1> QED
  BY <1>2, <1>3, <1>4, <1>5, <1>6, Zenon DEF ReadsLines

\* Blanket tombstones.
LEMMA BlanketsRead ==
    ASSUME NEW a, IsArray(a, IsBlanket)
    PROVE  ReadsLines([x \in 0..(Len(Body) + 1) |-> ReadBlanket(x)], a,
                      [i \in DOMAIN a.elems |-> BlanketSteps(a.elems[i])], Map(a, BlanketSays))
<1>1. \A i \in DOMAIN a.elems : IsBlanket(a.elems[i])
  BY ArrayShape, Zenon DEF IsArray
<1>2. PICK lines : lines = [i \in DOMAIN a.elems |-> BlanketSteps(a.elems[i])]
  BY Zenon
<1>3. PICK says : says = Map(a, BlanketSays) /\ says = [i \in DOMAIN a.elems |-> BlanketSays(a.elems[i])]
  BY Zenon DEF Map
<1>4. PICK read : read = [x \in 0..(Len(Body) + 1) |-> ReadBlanket(x)]
  BY Zenon
<1>5. ASSUME NEW i \in DOMAIN a.elems PROVE ReadsLine(read, lines[i], says[i])
  <2>1. lines[i] = BlanketSteps(a.elems[i]) /\ says[i] = BlanketSays(a.elems[i]) /\ IsBlanket(a.elems[i])
    BY <1>1, <1>2, <1>3, Zenon
  <2>2. ASSUME NEW x \in 1..(Len(Body) + 1), NEW y, Spans(lines[i], x, y) PROVE Gets(read[x], y, says[i])
    <3>1. read[x] = ReadBlanket(x)
      BY <1>4, Position, Zenon
    <3> QED
      BY <2>1, <2>2, <3>1, BlanketSpan, Zenon
  <2> QED
    BY <2>1, <2>2, ElementSeqs, Zenon DEF ReadsLine
<1>6. lines = [i \in DOMAIN a.elems |-> lines[i]] /\ says = [i \in DOMAIN a.elems |-> says[i]]
  BY <1>2, <1>3, Zenon
<1> QED
  BY <1>2, <1>3, <1>4, <1>5, <1>6, Zenon DEF ReadsLines

\* A block of path entries.
LEMMA EntriesSpan ==
    ASSUME NEW a, IsArray(a, IsEntry), ArrayOk(a), NEW p, NEW q, Spans(encode_path_entry_block(a), p, q)
    PROVE  Gets(ReadCounted(p, ReadPathEntry), q, Map(a, EntrySays))
<1>1. WellSized(a)
  BY Zenon DEF IsArray
<1>2. PICK lines : lines = [i \in DOMAIN a.elems |-> EntrySteps(a.elems[i])]
  BY Zenon
<1>3. PICK read : read = [x \in 0..(Len(Body) + 1) |-> ReadPathEntry(x)]
  BY Zenon
<1>4. ReadsLines(read, a, lines, Map(a, EntrySays))
  BY <1>2, <1>3, EntriesRead, Zenon
<1>5. Spans(require_array(a) \o u32(a.count) \o Flatten(lines), p, q)
  BY <1>2, Zenon DEF encode_path_entry_block, ForEach, EntrySteps
<1>6. Gets(Counted(p, read), q, Map(a, EntrySays))
  BY <1>1, <1>4, <1>5, BlockReads, Zenon
<1> QED
  BY <1>3, <1>6, Zenon DEF ReadCounted

\* A block of metadata.
LEMMA MetadataBlockSpan ==
    ASSUME NEW a, IsArray(a, IsMetadata), ArrayOk(a), NEW p, NEW q, Spans(encode_metadata_block(a), p, q)
    PROVE  Gets(ReadCounted(p, ReadMetadata), q, Map(a, MetadataSays))
<1>1. WellSized(a)
  BY Zenon DEF IsArray
<1>2. PICK lines : lines = [i \in DOMAIN a.elems |-> MetadataSteps(a.elems[i])]
  BY Zenon
<1>3. PICK read : read = [x \in 0..(Len(Body) + 1) |-> ReadMetadata(x)]
  BY Zenon
<1>4. ReadsLines(read, a, lines, Map(a, MetadataSays))
  BY <1>2, <1>3, MetadataRead, Zenon
<1>5. Spans(require_array(a) \o u32(a.count) \o Flatten(lines), p, q)
  BY <1>2, Zenon DEF encode_metadata_block, ForEach, MetadataSteps
<1>6. Gets(Counted(p, read), q, Map(a, MetadataSays))
  BY <1>1, <1>4, <1>5, BlockReads, Zenon
<1> QED
  BY <1>3, <1>6, Zenon DEF ReadCounted

\* A child.
LEMMA ChildSpan ==
    ASSUME NEW c, IsChild(c), ArrayOk(c.entries), NEW p, NEW q, Spans(ChildSteps(c), p, q)
    PROVE  Gets(ReadChild(p), q, ChildSays(c))
<1>1. IsField(c.child_name) /\ IsArray(c.entries, IsEntry)
  BY Zenon DEF IsChild
<1>2. PICK a : a = lpf(c.child_name) /\ IsSeq(a)
  BY <1>1, LpfSeq, Zenon
<1>3. PICK b : b = encode_path_entry_block(c.entries) /\ IsSeq(b)
  BY <1>1, EntryBlock, Zenon DEF Sized, Line
<1>4. Spans(a \o b, p, q)
  BY <1>2, <1>3, Zenon DEF ChildSteps
<1>5. PICK i : Spans(a, p, i) /\ Spans(b, i, q)
  BY <1>2, <1>3, <1>4, SplitSpan, Zenon
<1>6. Gets(ReadLpf(p), i, Bytes(c.child_name))
  BY <1>1, <1>2, <1>5, LpfSpan, Zenon
<1>7. PICK says : says = Map(c.entries, EntrySays)
  BY Zenon
<1>8. Gets(ReadCounted(i, ReadPathEntry), q, says)
  BY <1>1, <1>3, <1>5, <1>7, EntriesSpan, Zenon
<1> QED
  BY <1>6, <1>7, <1>8, Zenon DEF ReadChild, ChildSays, Gets

\* Children.
LEMMA ChildrenRead ==
    ASSUME NEW a, IsArray(a, IsChild), \A i \in DOMAIN a.elems : ArrayOk(a.elems[i].entries)
    PROVE  ReadsLines([x \in 0..(Len(Body) + 1) |-> ReadChild(x)], a,
                      [i \in DOMAIN a.elems |-> ChildSteps(a.elems[i])], Map(a, ChildSays))
<1>1. \A i \in DOMAIN a.elems : IsChild(a.elems[i]) /\ ArrayOk(a.elems[i].entries)
  BY ArrayShape, Zenon DEF IsArray
<1>2. PICK lines : lines = [i \in DOMAIN a.elems |-> ChildSteps(a.elems[i])]
  BY Zenon
<1>3. PICK says : says = Map(a, ChildSays) /\ says = [i \in DOMAIN a.elems |-> ChildSays(a.elems[i])]
  BY Zenon DEF Map
<1>4. PICK read : read = [x \in 0..(Len(Body) + 1) |-> ReadChild(x)]
  BY Zenon
<1>5. ASSUME NEW i \in DOMAIN a.elems PROVE ReadsLine(read, lines[i], says[i])
  <2>1. lines[i] = ChildSteps(a.elems[i]) /\ says[i] = ChildSays(a.elems[i]) /\ IsChild(a.elems[i]) /\ ArrayOk(a.elems[i].entries)
    BY <1>1, <1>2, <1>3, Zenon
  <2>2. ASSUME NEW x \in 1..(Len(Body) + 1), NEW y, Spans(lines[i], x, y) PROVE Gets(read[x], y, says[i])
    <3>1. read[x] = ReadChild(x)
      BY <1>4, Position, Zenon
    <3> QED
      BY <2>1, <2>2, <3>1, ChildSpan, Zenon
  <2> QED
    BY <2>1, <2>2, ElementSeqs, Zenon DEF ReadsLine
<1>6. lines = [i \in DOMAIN a.elems |-> lines[i]] /\ says = [i \in DOMAIN a.elems |-> says[i]]
  BY <1>2, <1>3, Zenon
<1> QED
  BY <1>2, <1>3, <1>4, <1>5, <1>6, Zenon DEF ReadsLines

-----------------------------------------------------------------------------
(* Validation appends nothing *)

\* One step that is no field.
LEMMA QuietOne == ASSUME NEW x, x.kind # "emit" PROVE Quiet(<<x>>)
<1>1. IsSeq(<<x>>) /\ Range(<<x>>) = {x}
  BY OneElement, Zenon
<1> QED
  BY <1>1, Zenon DEF Quiet

\* The steps for each element of an array.
LEMMA QuietEach ==
    ASSUME NEW a, WellSized(a), NEW f, f = [i \in DOMAIN a.elems |-> f[i]],
           \A i \in DOMAIN a.elems : Quiet(f[i])
    PROVE  Quiet(Flatten(f))
<1>1. PICK N \in Nat : N = Len(a.elems) /\ DOMAIN a.elems = 1..N
  BY ArrayShape, Zenon
<1>2. f = [i \in 1..N |-> f[i]] /\ \A i \in 1..N : Quiet(f[i])
  BY <1>1, Zenon
<1>3. PICK A : A = UNION { Range(f[i]) : i \in 1..N }
  BY Zenon
<1>4. ASSUME NEW i \in 1..N PROVE f[i] \in Seq(A)
  <2>1. IsSeq(f[i]) /\ Range(f[i]) \subseteq A
    BY <1>2, <1>3, Zenon DEF Quiet
  <2> QED
    BY <2>1 DEF IsSeq
<1>5. f \in [1..N -> Seq(A)]
  BY <1>2, <1>4, Zenon
<1>6. f \in Seq(Seq(A)) /\ Len(f) = N
  BY <1>5
<1>7. IsSeq(Flatten(f))
  BY <1>6, Flattened, SeqIs, Zenon
<1>8. \A x \in Range(Flatten(f)) : \E i \in 1..N : x \in Range(f[i])
  BY <1>6, FlattenedSet, Zenon
<1> QED
  BY <1>2, <1>7, <1>8, Zenon DEF Quiet

\* require_response_req.
LEMMA QuietRequest == ASSUME NEW req, NEW op PROVE Quiet(require_response_req(req, op))
BY QuietCheck, QuietConcat, Zenon DEF require_response_req

\* The loop over path entries.
LEMMA QuietCollect == ASSUME NEW a, WellSized(a) PROVE Quiet(CollectTargets(a))
<1>1. PICK x : x = [kind |-> "push_guid"]
  BY Zenon
<1>2. x.kind # "emit"
  BY <1>1
<1>3. ASSUME NEW e PROVE Quiet(TargetSteps(e))
  <2>1. PICK b : b = (IF is_guid_target(e) THEN <<x>> ELSE <<>>) /\ Quiet(b)
    BY <1>2, QuietOne, QuietNone, Zenon
  <2>2. TargetSteps(e) = require_path_target(e) \o b
    BY <1>1, <2>1, Zenon DEF TargetSteps
  <2>3. Quiet(require_path_target(e))
    BY QuietCheck, Zenon DEF require_path_target
  <2> QED
    BY <2>1, <2>2, <2>3, QuietConcat, Zenon
<1>4. PICK f : f = [i \in DOMAIN a.elems |-> TargetSteps(a.elems[i])]
  BY Zenon
<1>5. f = [i \in DOMAIN a.elems |-> f[i]] /\ \A i \in DOMAIN a.elems : Quiet(f[i])
  BY <1>3, <1>4, Zenon
<1>6. Quiet(Flatten(f))
  BY <1>5, QuietEach, Zenon
<1>7. CollectTargets(a) = require_array(a) \o Flatten(f)
  BY <1>4, Zenon DEF CollectTargets, ForEach, TargetSteps
<1>8. Quiet(require_array(a))
  BY QuietCheck, Zenon DEF require_array
<1> QED
  BY <1>6, <1>7, <1>8, QuietConcat, Zenon

\* validate_unique_nonzero_guids and metadata_guid_set.
LEMMA QuietUnique == ASSUME NEW s PROVE Quiet(validate_unique_nonzero_guids(s))
<1>1. PICK t : t = Sorted(s)
  BY Zenon
<1>2. PICK b : b = Check(t # <<>> => t[1] # NilGuid) /\ Quiet(b)
  BY QuietCheck, Zenon
<1>3. PICK c : c = Check(\A i \in 1..(Len(t) - 1) : t[i] # t[i + 1]) /\ Quiet(c)
  BY QuietCheck, Zenon
<1>4. validate_unique_nonzero_guids(s) = b \o c
  BY <1>1, <1>2, <1>3, Zenon DEF validate_unique_nonzero_guids
<1> QED
  BY <1>2, <1>3, <1>4, QuietConcat, Zenon

\* Nor does the reserving of a vector.
LEMMA QuietCapacity == ASSUME NEW k, NEW n PROVE Quiet(<<[kind |-> "collect", cap |-> k, n |-> n]>>)
<1>1. PICK x : x = [kind |-> "collect", cap |-> k, n |-> n]
  BY Zenon
<1>2. x.kind # "emit"
  BY <1>1
<1> QED
  BY <1>1, <1>2, QuietOne, Zenon

\* Nor does metadata_guid_set.
LEMMA QuietGuidSet == ASSUME NEW b PROVE Quiet(metadata_guid_set(b))
<1>1. Quiet(require_array(b))
  BY QuietCheck, Zenon DEF require_array
<1>2. PICK x : x = <<[kind |-> "collect", cap |-> b.count, n |-> Len(b.elems)]>> /\ Quiet(x)
  BY QuietCapacity, Zenon
<1>3. PICK y : y = validate_unique_nonzero_guids(Guids(b.elems)) /\ Quiet(y)
  BY QuietUnique, Zenon
<1>4. metadata_guid_set(b) = require_array(b) \o x \o y
  BY <1>2, <1>3, Zenon DEF metadata_guid_set
<1>5. Quiet(require_array(b) \o x)
  BY <1>1, <1>2, QuietConcat, Zenon
<1> QED
  BY <1>3, <1>4, <1>5, QuietConcat, Zenon

\* The validations of the helpers.
LEMMA QuietLookup == ASSUME NEW a, NEW b, WellSized(a) PROVE Quiet(validate_lookup_metadata(a, b))
<1>1. PICK x, y : x = CollectTargets(a) /\ y = metadata_guid_set(b) /\ Quiet(x) /\ Quiet(y)
  BY QuietCollect, QuietGuidSet, Zenon
<1>2. PICK z : z = Check(Sorted(Guids(b.elems)) = sort_dedup_guids(TargetGuids(a))) /\ Quiet(z)
  BY QuietCheck, Zenon
<1>3. validate_lookup_metadata(a, b) = x \o y \o z
  BY <1>1, <1>2, Zenon DEF validate_lookup_metadata
<1>4. Quiet(x \o y)
  BY <1>1, QuietConcat, Zenon
<1>5. Quiet(z)
  BY <1>2, Zenon
<1>6. Quiet(x \o y \o z)
  BY <1>4, <1>5, QuietConcat, Zenon
<1> QED
  BY <1>3, <1>6, Zenon

\* Nor does the validation of rsi_respond_enum_children.
LEMMA QuietEnum ==
    ASSUME NEW a, NEW b, IsArray(a, IsChild) PROVE Quiet(validate_enum_children_metadata(a, b))
<1>1. WellSized(a) /\ \A i \in DOMAIN a.elems : WellSized(a.elems[i].entries)
  BY ArrayShape, Zenon DEF IsArray, IsChild
<1>2. PICK f : f = [i \in DOMAIN a.elems |-> CollectTargets(a.elems[i].entries)]
  BY Zenon
<1>3. f = [i \in DOMAIN a.elems |-> f[i]] /\ \A i \in DOMAIN a.elems : Quiet(f[i])
  BY <1>1, <1>2, QuietCollect, Zenon
<1>4. PICK w : w = require_array(a) /\ Quiet(w)
  BY QuietCheck, Zenon DEF require_array
<1>5. PICK x, y : x = Flatten(f) /\ y = metadata_guid_set(b) /\ Quiet(x) /\ Quiet(y)
  BY <1>1, <1>3, QuietEach, QuietGuidSet, Zenon
<1>6. PICK z : z = Check(Sorted(Guids(b.elems)) = sort_dedup_guids(ChildTargetGuids(a))) /\ Quiet(z)
  BY QuietCheck, Zenon
<1>7. validate_enum_children_metadata(a, b) = w \o x \o y \o z
  BY <1>2, <1>4, <1>5, <1>6, Zenon DEF validate_enum_children_metadata, ForEach
<1>8. Quiet(w \o x)
  BY <1>4, <1>5, QuietConcat, Zenon
<1>9. Quiet(w \o x \o y)
  BY <1>5, <1>8, QuietConcat, Zenon
<1>10. Quiet(z)
  BY <1>6, Zenon
<1>11. Quiet(w \o x \o y \o z)
  BY <1>9, <1>10, QuietConcat, Zenon
<1> QED
  BY <1>7, <1>11, Zenon

\* Nor does that of rsi_respond_delete_layer.
LEMMA QuietOrphans == ASSUME NEW a PROVE Quiet(orphaned_guid_bytes(a))
<1>1. PICK x : x = Check(~a.null) /\ Quiet(x)
  BY QuietCheck, Zenon
<1>2. PICK y : y = <<[kind |-> "collect", cap |-> a.count, n |-> Len(a.elems)]>> /\ Quiet(y)
  BY QuietCapacity, Zenon
<1>3. PICK z : z = validate_unique_nonzero_guids(a.elems) /\ Quiet(z)
  BY QuietUnique, Zenon
<1>4. orphaned_guid_bytes(a) = IF a.count = 0 THEN <<>> ELSE x \o y \o z
  BY <1>1, <1>2, <1>3, Zenon DEF orphaned_guid_bytes
<1>5. Quiet(x \o y)
  BY <1>1, <1>2, QuietConcat, Zenon
<1>6. Quiet(x \o y \o z)
  BY <1>3, <1>5, QuietConcat, Zenon
<1> QED
  BY <1>4, <1>6, QuietNone, Zenon
=============================================================================
