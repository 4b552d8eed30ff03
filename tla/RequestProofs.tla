----------------------------- MODULE RequestProofs -----------------------------
(***************************************************************************)
(* Theorems about Request, for any number of slots, any requests and any   *)
(* sizes.  The first part is about the operators: what lcs-core and the    *)
(* decoders make of the payload that the kernel wrote for a request, for   *)
(* every request and every layout, by induction over the fields.  The      *)
(* second is about the behaviours.                                         *)
(***************************************************************************)
EXTENDS Request, DataLemmas

-----------------------------------------------------------------------------
(* The layouts *)

Kinds == {"fixed", "flag", "lpf"}

HasMask(field) == "mask" \in DOMAIN field

\* What the proofs need of a layout L: names that differ, a first field that is
\* always there, and a field mask in front of the fields it is about.
GoodLayout(L) ==
    /\ Len(L) \in Nat \ {0} /\ DOMAIN L = 1..Len(L)
    /\ ~HasMask(L[1])
    /\ \A i \in 1..Len(L) : L[i].kind \in Kinds
    /\ \A i \in 1..Len(L) : \A j \in 1..Len(L) : L[i].name = L[j].name => i = j
    /\ \A i \in 1..Len(L) : HasMask(L[i]) =>
          /\ L[i].kind # "flag"
          /\ \E j \in 1..(i - 1) : L[j].name = "field_mask" /\ L[j].kind = "fixed" /\ ~HasMask(L[j])

\* The 18 layouts are good.
LEMMA LayoutsGood == ASSUME NEW op \in OpCodes PROVE GoodLayout(Layout[op])
<1> USE DEF GoodLayout, Layout, Fixed, Flag, Lpf, HasMask, Kinds
<1>1. ASSUME NEW L, L = Layout["LOOKUP"] PROVE GoodLayout(L) BY <1>1
<1>2. ASSUME NEW L, L = Layout["CREATE_ENTRY"] PROVE GoodLayout(L) BY <1>2
<1>3. ASSUME NEW L, L = Layout["HIDE_ENTRY"] PROVE GoodLayout(L) BY <1>3
<1>4. ASSUME NEW L, L = Layout["DELETE_ENTRY"] PROVE GoodLayout(L) BY <1>4
<1>5. ASSUME NEW L, L = Layout["ENUM_CHILDREN"] PROVE GoodLayout(L) BY <1>5
<1>6. ASSUME NEW L, L = Layout["CREATE_KEY"] PROVE GoodLayout(L) BY <1>6
<1>7. ASSUME NEW L, L = Layout["READ_KEY"] PROVE GoodLayout(L) BY <1>7
<1>8. ASSUME NEW L, L = Layout["DROP_KEY"] PROVE GoodLayout(L) BY <1>8
<1>9. ASSUME NEW L, L = Layout["WRITE_KEY"] PROVE GoodLayout(L) BY <1>9
<1>10. ASSUME NEW L, L = Layout["QUERY_VALUES"] PROVE GoodLayout(L) BY <1>10
<1>11. ASSUME NEW L, L = Layout["SET_VALUE"] PROVE GoodLayout(L) BY <1>11
<1>12. ASSUME NEW L, L = Layout["DELETE_VALUE_ENTRY"] PROVE GoodLayout(L) BY <1>12
<1>13. ASSUME NEW L, L = Layout["SET_BLANKET_TOMBSTONE"] PROVE GoodLayout(L) BY <1>13
<1>14. ASSUME NEW L, L = Layout["BEGIN_TRANSACTION"] PROVE GoodLayout(L) BY <1>14
<1>15. ASSUME NEW L, L = Layout["COMMIT_TRANSACTION"] PROVE GoodLayout(L) BY <1>15
<1>16. ASSUME NEW L, L = Layout["ABORT_TRANSACTION"] PROVE GoodLayout(L) BY <1>16
<1>17. ASSUME NEW L, L = Layout["DELETE_LAYER"] PROVE GoodLayout(L) BY <1>17
<1>18. ASSUME NEW L, L = Layout["FLUSH"] PROVE GoodLayout(L) BY <1>18
<1> HIDE DEF GoodLayout, Layout, Fixed, Flag, Lpf, HasMask, Kinds
<1> QED
  BY <1>1, <1>2, <1>3, <1>4, <1>5, <1>6, <1>7, <1>8, <1>9, <1>10, <1>11, <1>12, <1>13, <1>14,
     <1>15, <1>16, <1>17, <1>18 DEF OpCodes
-----------------------------------------------------------------------------
(* Parsing what was encoded *)

\* The first cell of a field, and how many cells it has.
HeadCell(field, A) == IF field.kind = "lpf" THEN Len(A[field.name]) ELSE A[field.name]

CellsOf(field, A) == IF IsAbsent(field, A) THEN 0
                     ELSE IF field.kind = "lpf" THEN 1 + Len(A[field.name]) ELSE 1

\* The arguments A, laid out by L, begin at cell 5 of m and field i ends with cell
\* 4 + off[i]; but the payload has n cells only, and so may have lost its end.
Wire(L, A, off, m, n) ==
    /\ n \in Nat /\ off \in [0..Len(L) -> Nat] /\ off[0] = 0
    /\ \A i \in 1..Len(L) : off[i] = off[i - 1] + CellsOf(L[i], A)
    /\ \A i \in 1..Len(L) : HeadCell(L[i], A) \in Nat
    /\ \A i \in 1..Len(L) : ~IsAbsent(L[i], A) /\ off[i - 1] + 1 <= n =>
                               m[5 + off[i - 1]] = HeadCell(L[i], A)

\* What is parsed for a field at cell pos.
ParsedAs(field, A, pos) == IF IsAbsent(field, A) THEN NULL
                           ELSE IF field.kind = "lpf" THEN [ptr |-> pos + 1, len |-> Len(A[field.name])]
                           ELSE A[field.name]

\* A field that ends with cell 4 + end of a payload of n cells is well formed.
WellFormed(field, A, end, n) ==
    ~IsAbsent(field, A) => end <= n /\ (field.kind = "flag" => A[field.name] \in {0, 1})

\* Fields 1..i were parsed, and r is what of it there is.
Stage(r, L, A, off, i) ==
    /\ r.ok = TRUE /\ r.pos = 5 + off[i]
    /\ r.v = [x \in { L[j].name : j \in 1..Len(L) } |-> r.v[x]]
    /\ \A j \in 1..i : r.v[L[j].name] = ParsedAs(L[j], A, 5 + off[j - 1])

\* They were, if all of them are well formed.
ParsedSoFar(r, L, A, off, n, i) ==
    IF \A j \in 1..i : WellFormed(L[j], A, off[j], n) THEN Stage(r, L, A, off, i)
    ELSE r = Malformed

\* The field that the parser takes next.
LEMMA TakeField ==
    ASSUME NEW L, NEW A, NEW off, NEW r, NEW q, GoodLayout(L), NEW i \in 0..(Len(L) - 1),
           Stage(r, L, A, off, i), NEW val, val = ParsedAs(L[i + 1], A, 5 + off[i]),
           q = [ok |-> TRUE, pos |-> 5 + off[i + 1], v |-> [r.v EXCEPT ![L[i + 1].name] = val]]
    PROVE  Stage(q, L, A, off, i + 1)
<1>0. Len(L) \in Nat /\ i + 1 \in 1..Len(L) /\ (i + 1) - 1 = i
  BY DEF GoodLayout
<1>1. PICK N : N = { L[j].name : j \in 1..Len(L) }
  BY Zenon
<1>2. PICK v : v = r.v
  OBVIOUS
<1>3. PICK nm : nm = L[i + 1].name
  OBVIOUS
<1>4. v = [x \in N |-> v[x]] /\ nm \in N
  BY <1>0, <1>1, <1>2, <1>3 DEF Stage
<1>5. PICK w : w = [v EXCEPT ![nm] = val]
  BY Zenon
<1>6. w = [x \in N |-> w[x]] /\ w[nm] = val /\ \A x \in N \ {nm} : w[x] = v[x]
  BY <1>4, <1>5
<1>7. q.ok = TRUE /\ q.pos = 5 + off[i + 1] /\ q.v = w
  BY <1>2, <1>3, <1>5
<1>8. ASSUME NEW j \in 1..(i + 1) PROVE w[L[j].name] = ParsedAs(L[j], A, 5 + off[j - 1])
  <2>1. CASE j = i + 1
    BY <1>0, <1>3, <1>6, <2>1, Zenon
  <2>2. CASE j # i + 1
    <3>1. j \in 1..i /\ j \in 1..Len(L)
      BY <1>0, <2>2
    <3>2. L[j].name \in N \ {nm}
      BY <1>0, <1>1, <1>3, <2>2, <3>1, Zenon DEF GoodLayout
    <3>3. v[L[j].name] = ParsedAs(L[j], A, 5 + off[j - 1])
      BY <1>2, <3>1, Zenon DEF Stage
    <3> QED
      BY <1>6, <3>2, <3>3, Zenon
  <2> QED
    BY <2>1, <2>2
<1> QED
  BY <1>1, <1>6, <1>7, <1>8, Zenon DEF Stage

\* The mask that decides is the one that was sent.
LEMMA SameMask ==
    ASSUME NEW L, NEW A, NEW off, NEW r, GoodLayout(L), NEW i \in 0..(Len(L) - 1),
           Stage(r, L, A, off, i)
    PROVE  IsAbsent(L[i + 1], r.v) <=> IsAbsent(L[i + 1], A)
<1>0. Len(L) \in Nat /\ i + 1 \in 1..Len(L) /\ (i + 1) - 1 = i
  BY DEF GoodLayout
<1>1. CASE HasMask(L[i + 1])
  <2>1. PICK j \in 1..i : L[j].name = "field_mask" /\ L[j].kind = "fixed" /\ ~HasMask(L[j])
    BY <1>0, <1>1, Zenon DEF GoodLayout
  <2>2. r.v[L[j].name] = ParsedAs(L[j], A, 5 + off[j - 1])
    BY <2>1, Zenon DEF Stage
  <2>3. ~IsAbsent(L[j], A) /\ L[j].kind # "lpf"
    BY <2>1 DEF IsAbsent, HasMask
  <2>4. ParsedAs(L[j], A, 5 + off[j - 1]) = A[L[j].name]
    BY <2>3, Zenon DEF ParsedAs
  <2>5. r.v.field_mask = A.field_mask
    BY <2>1, <2>2, <2>4
  <2> QED
    BY <2>5 DEF IsAbsent
<1>2. CASE ~HasMask(L[i + 1])
  BY <1>2 DEF IsAbsent, HasMask
<1> QED
  BY <1>1, <1>2

\* Where a length-prefixed field of k cells at cell 5 + p ends.
LEMMA EndOfField ==
    ASSUME NEW p \in Nat, NEW k \in Nat, NEW n \in Nat, p + 1 <= n
    PROVE  /\ ~(5 + p > 4 + n) /\ (5 + p + k > 4 + n <=> ~(p + 1 + k <= n))
           /\ 5 + p + k + 1 = 5 + (p + 1 + k) /\ p + (1 + k) = p + 1 + k
OBVIOUS

\* One field more.
LEMMA ParseStep ==
    ASSUME NEW L, NEW A, NEW off, NEW m, NEW n, NEW r, GoodLayout(L), Wire(L, A, off, m, n),
           NEW i \in 0..(Len(L) - 1), ParsedSoFar(r, L, A, off, n, i)
    PROVE  ParsedSoFar(ParseField(r, L[i + 1], m, 4 + n), L, A, off, n, i + 1)
<1>0. Len(L) \in Nat /\ i + 1 \in 1..Len(L) /\ (i + 1) - 1 = i /\ \A j \in 1..i : j \in 1..(i + 1)
  BY DEF GoodLayout
<1>1. PICK q : q = ParseField(r, L[i + 1], m, 4 + n)
  OBVIOUS
<1>2. CASE ~ \A j \in 1..i : WellFormed(L[j], A, off[j], n)
  <2>1. r = Malformed /\ r.ok = FALSE
    BY <1>2 DEF ParsedSoFar, Malformed
  <2>2. ParseField(r, L[i + 1], m, 4 + n) = Malformed
    BY <2>1, Zenon DEF ParseField
  <2> QED
    BY <1>0, <1>2, <2>2, Zenon DEF ParsedSoFar
<1>3. CASE \A j \in 1..i : WellFormed(L[j], A, off[j], n)
  <2>0. Stage(r, L, A, off, i)
    BY <1>3, Zenon DEF ParsedSoFar
  <2>1. r.ok = TRUE /\ r.pos = 5 + off[i]
    BY <2>0, Zenon DEF Stage
  <2>2. PICK field : field = L[i + 1]
    OBVIOUS
  <2>3. /\ n \in Nat /\ off[i] \in Nat /\ off[i + 1] = off[i] + CellsOf(field, A)
        /\ HeadCell(field, A) \in Nat
        /\ ~IsAbsent(field, A) /\ off[i] + 1 <= n => m[5 + off[i]] = HeadCell(field, A)
        /\ field.kind \in Kinds
    BY <1>0, <2>2 DEF Wire, GoodLayout
  <2>4. IsAbsent(field, r.v) <=> IsAbsent(field, A)
    BY <2>0, <2>2, SameMask
  <2>5. PICK val : val = ParsedAs(field, A, 5 + off[i])
    OBVIOUS
  <2>6. PICK t : t = [ok |-> TRUE, pos |-> 5 + off[i + 1], v |-> [r.v EXCEPT ![field.name] = val]]
    BY Zenon
  <2>7. Stage(t, L, A, off, i + 1)
    BY <2>0, <2>2, <2>5, <2>6, TakeField, Zenon
  <2>8. q = IF WellFormed(field, A, off[i + 1], n) THEN t ELSE Malformed
    <3>1. CASE IsAbsent(field, A)
      <4>1. off[i + 1] = off[i] /\ val = NULL /\ WellFormed(field, A, off[i + 1], n)
        BY <2>3, <2>5, <3>1 DEF CellsOf, ParsedAs, WellFormed
      <4> QED
        BY <1>1, <2>1, <2>2, <2>4, <2>6, <3>1, <4>1, Zenon DEF ParseField
    <3>2. CASE ~IsAbsent(field, A) /\ off[i] + 1 > n
      <4>1. CellsOf(field, A) >= 1
        BY <2>3, <3>2 DEF CellsOf, HeadCell
      <4>2. ~WellFormed(field, A, off[i + 1], n) /\ 5 + off[i] > 4 + n
        BY <2>3, <3>2, <4>1, SMTT(30) DEF WellFormed, CellsOf, HeadCell
      <4> QED
        BY <1>1, <2>1, <2>2, <2>4, <3>2, <4>2, Zenon DEF ParseField
    <3>3. CASE ~IsAbsent(field, A) /\ off[i] + 1 <= n /\ field.kind = "lpf"
      <4>1. PICK k \in Nat : k = Len(A[field.name]) /\ m[5 + off[i]] = k
        BY <2>3, <3>3 DEF HeadCell
      <4>7. k \in Nat /\ off[i] \in Nat /\ n \in Nat /\ off[i] + 1 <= n
        BY <2>3, <3>3, <4>1, Zenon
      <4>2. CellsOf(field, A) = 1 + k /\ val = [ptr |-> 5 + off[i] + 1, len |-> k]
        BY <2>5, <3>3, <4>1, Zenon DEF CellsOf, ParsedAs
      <4>6. off[i] \in Nat /\ off[i + 1] = off[i] + 1 + k
        <5>1. off[i + 1] = off[i] + (1 + k)
          BY <2>3, <4>2, Zenon
        <5> QED
          BY <4>7, <5>1, EndOfField, Zenon
      <4>3. WellFormed(field, A, off[i + 1], n) <=> off[i] + 1 + k <= n
        BY <3>3, <4>6, Zenon DEF WellFormed
      <4>4. /\ ~(5 + off[i] > 4 + n) /\ (5 + off[i] + k > 4 + n <=> ~(off[i] + 1 + k <= n))
            /\ 5 + off[i] + k + 1 = 5 + off[i + 1]
        <5>1. /\ ~(5 + off[i] > 4 + n) /\ (5 + off[i] + k > 4 + n <=> ~(off[i] + 1 + k <= n))
              /\ 5 + off[i] + k + 1 = 5 + (off[i] + 1 + k)
          BY <4>7, EndOfField, Zenon
        <5> QED
          BY <4>6, <5>1
      <4>5. q = IF 5 + off[i] + k > 4 + n THEN Malformed
                ELSE [ok |-> TRUE, pos |-> 5 + off[i] + k + 1, v |-> [r.v EXCEPT ![field.name] = val]]
        BY <1>1, <2>1, <2>2, <2>4, <3>3, <4>1, <4>2, <4>4, Zenon DEF ParseField
      <4> QED
        BY <2>6, <4>3, <4>4, <4>5, Zenon
    <3>4. CASE ~IsAbsent(field, A) /\ off[i] + 1 <= n /\ field.kind # "lpf"
      <4>1. m[5 + off[i]] = A[field.name] /\ val = A[field.name]
        BY <2>3, <2>5, <3>4 DEF HeadCell, ParsedAs
      <4>2. off[i + 1] = off[i] + 1
        BY <2>3, <3>4 DEF CellsOf
      <4>3. WellFormed(field, A, off[i + 1], n) <=> (field.kind = "flag" => A[field.name] \in {0, 1})
        BY <3>4, <4>2 DEF WellFormed
      <4>4. ~(5 + off[i] > 4 + n) /\ 5 + off[i] + 1 = 5 + off[i + 1]
        BY <2>3, <3>4, <4>2
      <4>5. q = IF field.kind = "flag" /\ A[field.name] \notin {0, 1} THEN Malformed
                ELSE [ok |-> TRUE, pos |-> 5 + off[i] + 1, v |-> [r.v EXCEPT ![field.name] = val]]
        BY <1>1, <2>1, <2>2, <2>4, <3>4, <4>1, <4>4, Zenon DEF ParseField
      <4> QED
        BY <2>6, <4>3, <4>4, <4>5, Zenon
    <3> QED
      BY <2>3, <3>1, <3>2, <3>3, <3>4
  <2>9. (\A j \in 1..(i + 1) : WellFormed(L[j], A, off[j], n)) <=> WellFormed(field, A, off[i + 1], n)
    <3>1. \A j \in 1..(i + 1) : j = i + 1 \/ j \in 1..i
      BY <1>0
    <3>2. i + 1 \in 1..(i + 1)
      BY <1>0
    <3> QED
      BY <1>3, <2>2, <3>1, <3>2, Zenon
  <2> QED
    BY <1>1, <2>7, <2>8, <2>9, Zenon DEF ParsedSoFar
<1> QED
  BY <1>2, <1>3

\* The parser's states, one for each field and one before them.
Run(f, L, m, start, end, k) ==
    f = [i \in 0..k |-> IF i = 0 THEN start ELSE ParseField(f[i - 1], L[i], m, end)]

\* They exist.
LEMMA RunExists ==
    ASSUME NEW L, NEW N \in Nat, NEW m, NEW start, NEW end
    PROVE  \E f : Run(f, L, m, start, end, N)
<1> DEFINE S == { k \in 0..N : \E f : Run(f, L, m, start, end, k) }
<1> HIDE DEF S
<1>1. 0 \in S
  <2>1. PICK f : f = [i \in 0..0 |-> start]
    BY Zenon
  <2>2. \A i \in 0..0 : i = 0
    OBVIOUS
  <2>3. f = [i \in 0..0 |-> IF i = 0 THEN start ELSE ParseField(f[i - 1], L[i], m, end)]
    BY <2>1, <2>2, Zenon
  <2>4. 0 \in 0..N
    OBVIOUS
  <2> QED
    BY <2>3, <2>4, Zenon DEF S, Run
<1>2. ASSUME NEW k \in 0..(N - 1), k \in S PROVE k + 1 \in S
  <2>1. PICK f : Run(f, L, m, start, end, k)
    BY <1>2 DEF S
  <2>2. PICK e : e = IF k + 1 = 0 THEN start ELSE ParseField(f[k], L[k + 1], m, end)
    OBVIOUS
  <2>3. PICK g : g = [i \in 0..(k + 1) |-> IF i = k + 1 THEN e ELSE f[i]]
    BY Zenon
  <2>4. ASSUME NEW i \in 0..(k + 1)
        PROVE  g[i] = IF i = 0 THEN start ELSE ParseField(g[i - 1], L[i], m, end)
    <3>1. CASE i = k + 1
      <4>1. i - 1 = k /\ k \in 0..(k + 1) /\ k # k + 1
        BY <3>1
      <4>2. g[k] = f[k] /\ g[i] = e
        BY <2>3, <3>1, <4>1, Zenon
      <4> QED
        BY <2>2, <3>1, <4>1, <4>2, Zenon
    <3>2. CASE i # k + 1
      <4>1. i \in 0..k /\ (i # 0 => i - 1 \in 0..(k + 1) /\ i - 1 # k + 1)
        BY <3>2
      <4>2. f[i] = IF i = 0 THEN start ELSE ParseField(f[i - 1], L[i], m, end)
        BY <2>1, <4>1, Zenon DEF Run
      <4>3. g[i] = f[i] /\ (i # 0 => g[i - 1] = f[i - 1])
        BY <2>3, <3>2, <4>1, Zenon
      <4> QED
        BY <4>2, <4>3, Zenon
    <3> QED
      BY <3>1, <3>2
  <2>5. g = [i \in 0..(k + 1) |-> g[i]]
    BY <2>3, Zenon
  <2>6. Run(g, L, m, start, end, k + 1)
    BY <2>4, <2>5, Zenon DEF Run
  <2>7. k + 1 \in 0..N
    OBVIOUS
  <2> QED
    BY <2>6, <2>7, Zenon DEF S
<1>3. N \in S
  BY <1>1, <1>2, BoundedInduction, Zenon
<1> QED
  BY <1>3 DEF S

\* What the parser starts from.
Begins(start, op, ptr) == start = [ok |-> TRUE, pos |-> ptr, v |-> [x \in FieldNames(op) |-> NULL]]

\* ParsePayload is the last of them.
LEMMA ParseRuns ==
    ASSUME NEW op, NEW m, NEW ptr, NEW n, NEW L, L = Layout[op], NEW N \in Nat, N = Len(Layout[op]),
           NEW start, Begins(start, op, ptr),
           NEW end, end = ptr + n - 1
    PROVE  \E f : Run(f, L, m, start, end, N) /\ ParsePayload(op, m, ptr, n) = f[N]
<1>1. ParsePayload(op, m, ptr, n) = (CHOOSE f : Run(f, L, m, start, end, N))[N]
  BY Zenon DEF ParsePayload, Run, Begins
<1>2. \E f : Run(f, L, m, start, end, N)
  BY RunExists, Zenon
<1>3. Run(CHOOSE f : Run(f, L, m, start, end, N), L, m, start, end, N)
  BY <1>2, Zenon
<1> QED
  BY <1>1, <1>3, Zenon

\* What the parser makes of arguments that were laid out.
LEMMA PayloadParsed ==
    ASSUME NEW op \in OpCodes, NEW A, NEW off, NEW m, NEW n, Wire(Layout[op], A, off, m, n)
    PROVE  ParsedSoFar(ParsePayload(op, m, 5, n), Layout[op], A, off, n, Len(Layout[op]))
<1>1. PICK L : L = Layout[op]
  OBVIOUS
<1>2. GoodLayout(L) /\ Wire(L, A, off, m, n)
  BY <1>1, LayoutsGood, Zenon
<1>3. PICK N \in Nat : N = Len(L) /\ DOMAIN L = 1..N
  BY <1>2, Zenon DEF GoodLayout
<1>4. PICK start : Begins(start, op, 5)
  BY Zenon DEF Begins
<1>a. n \in Nat /\ off[0] = 0
  BY <1>2, Zenon DEF Wire
<1>5. 5 + n - 1 = 4 + n
  BY <1>a
<1>6. PICK f : Run(f, L, m, start, 4 + n, N) /\ ParsePayload(op, m, 5, n) = f[N]
  <2>1. \E f : Run(f, L, m, start, 4 + n, N) /\ ParsePayload(op, m, 5, n) = f[N]
    <3>1. PICK end : end = 4 + n /\ end = 5 + n - 1
      BY <1>5
    <3>2. N = Len(Layout[op])
      BY <1>1, <1>3, Zenon
    <3>3. \E f : Run(f, L, m, start, end, N) /\ ParsePayload(op, m, 5, n) = f[N]
      BY <1>1, <1>4, <3>1, <3>2, ParseRuns
    <3> QED
      BY <3>1, <3>3, Zenon
  <2> QED
    BY <2>1, Zenon
<1> DEFINE S == { i \in 0..N : ParsedSoFar(f[i], L, A, off, n, i) }
<1> HIDE DEF S
<1>7. 0 \in S
  <2>1. 0 \in 0..N /\ \A j \in 1..0 : FALSE
    BY <1>3
  <2>2. f[0] = start
    BY <1>6, <2>1, Zenon DEF Run
  <2>3. start.ok = TRUE /\ start.pos = 5 /\ start.v = [x \in FieldNames(op) |-> NULL]
    BY <1>4 DEF Begins
  <2>4. FieldNames(op) = { L[j].name : j \in 1..Len(L) }
    BY <1>1, <1>3, Zenon DEF FieldNames
  <2>5. 5 = 5 + off[0]
    BY <1>a
  <2>6. start.v = [x \in FieldNames(op) |-> start.v[x]]
    BY <2>3
  <2>7. Stage(start, L, A, off, 0)
    BY <2>1, <2>3, <2>4, <2>5, <2>6, Zenon DEF Stage
  <2> QED
    BY <2>1, <2>2, <2>7, Zenon DEF S, ParsedSoFar
<1>8. ASSUME NEW i \in 0..(N - 1), i \in S PROVE i + 1 \in S
  <2>1. i + 1 \in 0..N /\ i + 1 # 0 /\ (i + 1) - 1 = i /\ i \in 0..(Len(L) - 1)
    BY <1>3
  <2>2. f[i + 1] = ParseField(f[i], L[i + 1], m, 4 + n)
    BY <1>6, <2>1, Zenon DEF Run
  <2>3. ParsedSoFar(f[i], L, A, off, n, i)
    BY <1>8 DEF S
  <2>4. ParsedSoFar(f[i + 1], L, A, off, n, i + 1)
    BY <1>2, <2>1, <2>2, <2>3, ParseStep, Zenon
  <2> QED
    BY <2>1, <2>4 DEF S
<1>9. N \in S
  BY <1>3, <1>7, <1>8, BoundedInduction, Zenon
<1>10. ParsedSoFar(f[N], L, A, off, n, N)
  BY <1>9 DEF S
<1> QED
  BY <1>1, <1>3, <1>6, <1>10, Zenon

\* No payload is too short for the first field, which no request goes without.
LEMMA EmptyMalformed ==
    ASSUME NEW op \in OpCodes, NEW m PROVE ParsePayload(op, m, 1, 0) = Malformed
<1>1. PICK L : L = Layout[op]
  OBVIOUS
<1>2. GoodLayout(L)
  BY <1>1, LayoutsGood, Zenon
<1>3. PICK N \in Nat : N = Len(L) /\ N # 0
  BY <1>2, Zenon DEF GoodLayout
<1>4. PICK start : Begins(start, op, 1)
  BY Zenon DEF Begins
<1>5. PICK f : Run(f, L, m, start, 0, N) /\ ParsePayload(op, m, 1, 0) = f[N]
  <2>1. 0 = 1 + 0 - 1
    OBVIOUS
  <2> QED
    BY <1>1, <1>3, <1>4, <2>1, ParseRuns
<1>6. Malformed.ok = FALSE
  BY DEF Malformed
<1> DEFINE S == { i \in 0..N : i # 0 => f[i] = Malformed }
<1> HIDE DEF S
<1>7. 0 \in S
  BY <1>3 DEF S
<1>8. ASSUME NEW i \in 0..(N - 1), i \in S PROVE i + 1 \in S
  <2>1. i + 1 \in 0..N /\ i + 1 # 0 /\ (i + 1) - 1 = i
    BY <1>3
  <2>2. f[i + 1] = ParseField(f[i], L[i + 1], m, 0)
    BY <1>5, <2>1, Zenon DEF Run
  <2>3. CASE i = 0
    <3>1. 0 \in 0..N /\ 1 \in 1..Len(L) /\ 0 + 1 = 1
      BY <1>3
    <3>2. f[0] = start
      BY <1>5, <3>1, Zenon DEF Run
    <3>3. start.ok = TRUE /\ start.pos > 0
      BY <1>4 DEF Begins
    <3>4. ~IsAbsent(L[1], start.v)
      BY <1>2, Zenon DEF GoodLayout, HasMask, IsAbsent
    <3>5. f[i + 1] = Malformed
      BY <2>2, <2>3, <3>1, <3>2, <3>3, <3>4, Zenon DEF ParseField
    <3> QED
      BY <2>1, <3>5 DEF S
  <2>4. CASE i # 0
    <3>1. f[i] = Malformed
      BY <1>8, <2>4 DEF S
    <3>2. f[i + 1] = Malformed
      BY <1>6, <2>2, <3>1, Zenon DEF ParseField
    <3> QED
      BY <2>1, <3>2 DEF S
  <2> QED
    BY <2>3, <2>4
<1>9. N \in S
  BY <1>3, <1>7, <1>8, BoundedInduction, Zenon
<1> QED
  BY <1>3, <1>5, <1>9 DEF S
-----------------------------------------------------------------------------
(* What the kernel writes *)

\* Arguments for the fields of L.
ArgsFor(L, A) == \A i \in 1..Len(L) : IF L[i].kind = "lpf" THEN A[L[i].name] \in Seq(Nat)
                                      ELSE A[L[i].name] \in Nat

\* The cells of a field.
LEMMA FieldCells ==
    ASSUME NEW field, NEW A,
           IF field.kind = "lpf" THEN A[field.name] \in Seq(Nat) ELSE A[field.name] \in Nat
    PROVE  /\ EncodeField(field, A) \in Seq(Nat)
           /\ Len(EncodeField(field, A)) = CellsOf(field, A)
           /\ CellsOf(field, A) \in Nat /\ (~IsAbsent(field, A) => CellsOf(field, A) >= 1)
           /\ HeadCell(field, A) \in Nat
           /\ ~IsAbsent(field, A) => EncodeField(field, A)[1] = HeadCell(field, A)
           /\ ~IsAbsent(field, A) /\ field.kind = "lpf" =>
                 \A k \in 1..Len(A[field.name]) : EncodeField(field, A)[1 + k] = A[field.name][k]
<1>1. PICK a : a = A[field.name]
  OBVIOUS
<1>2. PICK e : e = EncodeField(field, A)
  OBVIOUS
<1>3. CASE IsAbsent(field, A)
  <2>1. e = <<>> /\ CellsOf(field, A) = 0
    BY <1>2, <1>3, Zenon DEF EncodeField, CellsOf
  <2>2. HeadCell(field, A) \in Nat
    <3>1. CASE field.kind = "lpf"
      <4>1. a \in Seq(Nat) /\ HeadCell(field, A) = Len(a)
        BY <1>1, <3>1, Zenon DEF HeadCell
      <4> QED
        BY <4>1
    <3>2. CASE field.kind # "lpf"
      BY <3>2, Zenon DEF HeadCell
    <3> QED
      BY <3>1, <3>2
  <2>3. <<>> \in Seq(Nat) /\ Len(<<>>) = 0 /\ 0 \in Nat
    OBVIOUS
  <2> QED
    BY <1>2, <1>3, <2>1, <2>2, <2>3, Zenon
<1>4. CASE ~IsAbsent(field, A) /\ field.kind = "lpf"
  <2>1. a \in Seq(Nat) /\ e = <<Len(a)>> \o a /\ CellsOf(field, A) = 1 + Len(a) /\ HeadCell(field, A) = Len(a)
    BY <1>1, <1>2, <1>4, Zenon DEF EncodeField, CellsOf, HeadCell
  <2>2. /\ e \in Seq(Nat) /\ Len(e) = 1 + Len(a) /\ Len(a) \in Nat /\ 1 + Len(a) \in Nat /\ 1 + Len(a) >= 1
        /\ e[1] = Len(a) /\ \A k \in 1..Len(a) : e[1 + k] = a[k]
    <3>1. a \in Seq(Nat) /\ e = <<Len(a)>> \o a
      BY <2>1
    <3> QED
      BY <3>1
  <2> QED
    BY <1>1, <1>2, <1>4, <2>1, <2>2, Zenon
<1>5. CASE ~IsAbsent(field, A) /\ field.kind # "lpf"
  <2>1. a \in Nat /\ e = <<a>> /\ CellsOf(field, A) = 1 /\ HeadCell(field, A) = a
    BY <1>1, <1>2, <1>5, Zenon DEF EncodeField, CellsOf, HeadCell
  <2>2. <<a>> \in Seq(Nat) /\ Len(<<a>>) = 1 /\ 1 \in Nat /\ 1 >= 1 /\ <<a>>[1] = a
    BY <2>1
  <2> QED
    BY <1>1, <1>2, <1>5, <2>1, <2>2, Zenon
<1> QED
  BY <1>3, <1>4, <1>5
\* The cells of r's fields, one sequence for each.
Encoded(r) == [i \in DOMAIN Layout[r.op_code] |-> EncodeField(Layout[r.op_code][i], r.args)]

\* They are sequences of numbers.
LEMMA EncodedSeqs ==
    ASSUME NEW r \in Requests
    PROVE  /\ Encoded(r) \in Seq(Seq(Nat)) /\ Len(Encoded(r)) = Len(Layout[r.op_code])
           /\ \A i \in 1..Len(Layout[r.op_code]) :
                 Encoded(r)[i] = EncodeField(Layout[r.op_code][i], r.args)
           /\ ArgsFor(Layout[r.op_code], r.args)
<1>1. PICK L : L = Layout[r.op_code]
  OBVIOUS
<1>2. r.op_code \in OpCodes
  BY RequestAssumption, Zenon
<1>3. GoodLayout(L)
  BY <1>1, <1>2, LayoutsGood, Zenon
<1>4. PICK N \in Nat : N = Len(L) /\ DOMAIN L = 1..N
  BY <1>3, Zenon DEF GoodLayout
<1>5. ArgsFor(L, r.args)
  BY <1>1, <1>4, RequestAssumption, Zenon DEF ArgsFor
<1>6. PICK e : e = Encoded(r)
  OBVIOUS
<1>7. e = [i \in 1..N |-> EncodeField(L[i], r.args)]
  BY <1>1, <1>4, <1>6, Zenon DEF Encoded
<1>8. ASSUME NEW i \in 1..N PROVE EncodeField(L[i], r.args) \in Seq(Nat)
  BY <1>4, <1>5, FieldCells, Zenon DEF ArgsFor
<1>9. e \in [1..N -> Seq(Nat)] /\ \A i \in 1..N : e[i] = EncodeField(L[i], r.args)
  BY <1>7, <1>8, Zenon
<1>10. e \in Seq(Seq(Nat)) /\ Len(e) = N
  BY <1>4, <1>9
<1> QED
  BY <1>1, <1>4, <1>5, <1>6, <1>9, <1>10, Zenon

\* Where the cells of a request's fields are in its payload, which has lost its last
\* cell if its fault is "short".
PayloadAt(r, off) ==
    LET L == Layout[r.op_code] IN
    /\ off \in [0..Len(L) -> Nat] /\ off[0] = 0
    /\ \A i \in 1..Len(L) : off[i] = off[i - 1] + CellsOf(L[i], r.args)
    /\ Len(Payload(r)) = IF r.fault = "short" THEN off[Len(L)] - 1 ELSE off[Len(L)]
    /\ off[Len(L)] >= 1
    /\ \A i \in 1..Len(L) : \A k \in 1..CellsOf(L[i], r.args) :
          /\ off[i - 1] + k \in 1..off[Len(L)]
          /\ off[i - 1] + k <= Len(Payload(r)) =>
                Payload(r)[off[i - 1] + k] = EncodeField(L[i], r.args)[k]
    /\ \E i \in 1..Len(L) : CellsOf(L[i], r.args) >= 1 /\ off[i] >= off[Len(L)]

\* A payload without its last cell.
LEMMA FrontOf ==
    ASSUME NEW w \in Seq(Nat), Len(w) >= 1
    PROVE  /\ SubSeq(w, 1, Len(w) - 1) \in Seq(Nat) /\ Len(SubSeq(w, 1, Len(w) - 1)) = Len(w) - 1
           /\ \A p \in 1..(Len(w) - 1) : SubSeq(w, 1, Len(w) - 1)[p] = w[p]
<1>1. PICK n \in Nat : n = Len(w) - 1
  OBVIOUS
<1>2. SubSeq(w, 1, n) \in Seq(Nat) /\ Len(SubSeq(w, 1, n)) = n
  BY <1>1
<1>3. \A p \in 1..n : SubSeq(w, 1, n)[p] = w[p]
  BY <1>1
<1> QED
  BY <1>1, <1>2, <1>3, Zenon

\* The payload of a request is its fields, end to end.
LEMMA PayloadCells ==
    ASSUME NEW r \in Requests
    PROVE  Payload(r) \in Seq(Nat) /\ \E off : PayloadAt(r, off)
<1>1. PICK L : L = Layout[r.op_code]
  OBVIOUS
<1>2. GoodLayout(L)
  BY <1>1, RequestAssumption, LayoutsGood, Zenon
<1>3. PICK N \in Nat : N = Len(L) /\ N # 0
  BY <1>2, Zenon DEF GoodLayout
<1>4. PICK e : e = Encoded(r)
  OBVIOUS
<1>5. /\ e \in Seq(Seq(Nat)) /\ Len(e) = N /\ ArgsFor(L, r.args)
      /\ \A i \in 1..N : e[i] = EncodeField(L[i], r.args)
  BY <1>1, <1>3, <1>4, EncodedSeqs, Zenon
<1>6. PICK w : w = Flatten(e)
  OBVIOUS
<1>7. w \in Seq(Nat)
  BY <1>5, <1>6, Flattened, Zenon
<1>8. PICK off : Starts(off, e) /\ off[N] = Len(w) /\ Placed(w, off, e, N) /\ Covered(off, e, N)
  BY <1>5, <1>6, Flattened
<1>9. ASSUME NEW i \in 1..N
      PROVE  /\ Len(e[i]) = CellsOf(L[i], r.args) /\ CellsOf(L[i], r.args) \in Nat
             /\ ~IsAbsent(L[i], r.args) => CellsOf(L[i], r.args) >= 1
  <2>1. IF L[i].kind = "lpf" THEN r.args[L[i].name] \in Seq(Nat) ELSE r.args[L[i].name] \in Nat
    BY <1>3, <1>5, Zenon DEF ArgsFor
  <2>2. /\ Len(EncodeField(L[i], r.args)) = CellsOf(L[i], r.args)
        /\ CellsOf(L[i], r.args) \in Nat
    BY <2>1, FieldCells, Zenon
  <2>3. ~IsAbsent(L[i], r.args) => CellsOf(L[i], r.args) >= 1
    BY <2>1, FieldCells, Zenon
  <2>4. e[i] = EncodeField(L[i], r.args)
    BY <1>5, Zenon
  <2> QED
    BY <2>2, <2>3, <2>4, Zenon
<1>10. /\ off \in [0..N -> Nat] /\ off[0] = 0
       /\ \A i \in 1..N : off[i] = off[i - 1] + CellsOf(L[i], r.args)
  BY <1>5, <1>8, <1>9, Zenon DEF Starts
<1>11. off[N] \in Nat /\ off[N] >= 1
  <2>1. 1 \in 1..N /\ ~IsAbsent(L[1], r.args)
    BY <1>2, <1>3 DEF GoodLayout, HasMask, IsAbsent
  <2>2. CellsOf(L[1], r.args) \in Nat /\ CellsOf(L[1], r.args) >= 1 /\ Len(e[1]) = CellsOf(L[1], r.args)
    BY <1>9, <2>1
  <2>3. 1 \in 1..CellsOf(L[1], r.args)
    BY <2>2
  <2>4. off[1 - 1] + 1 \in 1..off[N]
    BY <1>8, <2>1, <2>2, <2>3, Zenon DEF Placed
  <2>5. off[N] \in Nat
    BY <1>3, <1>10
  <2> QED
    BY <2>4, <2>5
<1>12. PICK p : p = Payload(r)
  OBVIOUS
<1>13. p = IF r.fault = "short" THEN SubSeq(w, 1, Len(w) - 1) ELSE w
  BY <1>4, <1>6, <1>12, Zenon DEF Payload, Encoded
<1>14. /\ p \in Seq(Nat) /\ Len(p) = IF r.fault = "short" THEN off[N] - 1 ELSE off[N]
       /\ \A q \in 1..Len(p) : p[q] = w[q]
  <2>1. CASE r.fault = "short"
    BY <1>7, <1>8, <1>11, <1>13, <2>1, FrontOf
  <2>2. CASE r.fault # "short"
    BY <1>7, <1>8, <1>13, <2>2, Zenon
  <2> QED
    BY <2>1, <2>2
<1>15. ASSUME NEW i \in 1..N, NEW k \in 1..CellsOf(L[i], r.args)
       PROVE  /\ off[i - 1] + k \in 1..off[N]
              /\ off[i - 1] + k <= Len(p) => p[off[i - 1] + k] = EncodeField(L[i], r.args)[k]
  <2>1. off[i - 1] + k \in 1..off[N] /\ w[off[i - 1] + k] = e[i][k]
    BY <1>8, <1>9, Zenon DEF Placed
  <2>2. off[i - 1] + k <= Len(p) => off[i - 1] + k \in 1..Len(p)
    BY <1>14, <2>1
  <2> QED
    BY <1>5, <1>14, <2>1, <2>2, Zenon
<1>16. \E i \in 1..N : CellsOf(L[i], r.args) >= 1 /\ off[i] >= off[N]
  <2>1. off[N] \in 1..off[N]
    BY <1>11
  <2>2. PICK i \in 1..N : \E k \in 1..Len(e[i]) : off[N] = off[i - 1] + k
    BY <1>8, <2>1, Zenon DEF Covered
  <2>3. PICK k \in 1..CellsOf(L[i], r.args) : off[N] = off[i - 1] + k
    BY <1>9, <2>2, Zenon
  <2>4. CellsOf(L[i], r.args) \in Nat /\ off[i] = off[i - 1] + CellsOf(L[i], r.args) /\ off[i - 1] \in Nat
    <3>1. i - 1 \in 0..N
      BY <1>3
    <3> QED
      BY <1>9, <1>10, <3>1, Zenon
  <2> QED
    BY <2>3, <2>4
<1>17. PayloadAt(r, off)
  BY <1>1, <1>3, <1>10, <1>11, <1>12, <1>14, <1>15, <1>16, Zenon DEF PayloadAt
<1> QED
  BY <1>12, <1>14, <1>17, Zenon

\* m begins with the frame of r.
Holds(m, r) == \A i \in 1..Len(Frame(r)) : m[i] = Frame(r)[i]

\* The payload follows the header.
LEMMA PayloadInFrame ==
    ASSUME NEW r \in Requests, r.fault # "stub", NEW m, Holds(m, r)
    PROVE  /\ Len(Frame(r)) = 4 + Len(Payload(r)) /\ Len(Payload(r)) \in Nat
           /\ \A p \in 1..Len(Payload(r)) : m[4 + p] = Payload(r)[p]
<1>1. PICK w : w = Payload(r)
  OBVIOUS
<1>2. w \in Seq(Nat)
  BY <1>1, PayloadCells, Zenon
<1>3. PICK a, b, c, d : Frame(r) = <<a, b, c, d>> \o w
  BY <1>1, Zenon DEF Frame
<1>4. PICK C : w \in Seq(C) /\ <<a, b, c, d>> \in Seq(C)
  <2>1. w \in Seq(Nat \cup {a, b, c, d}) /\ <<a, b, c, d>> \in Seq(Nat \cup {a, b, c, d})
    BY <1>2
  <2> QED
    BY <2>1, Zenon
<1>5. PICK f : f = <<a, b, c, d>> \o w
  BY Zenon
<1>6. Len(f) = 4 + Len(w) /\ Len(w) \in Nat /\ \A p \in 1..Len(w) : f[4 + p] = w[p]
  BY <1>4, <1>5
<1>7. ASSUME NEW p \in 1..Len(w) PROVE m[4 + p] = w[p]
  <2>1. 4 + p \in 1..Len(f)
    BY <1>6
  <2> QED
    BY <1>3, <1>5, <1>6, <2>1, Zenon DEF Holds
<1> QED
  BY <1>1, <1>3, <1>5, <1>6, <1>7, Zenon

\* The cells a follow cell 5 + q.
CellsAt(m, q, a) == \A k \in 1..Len(a) : m[5 + q + k] = a[k]

\* What the buffer holds, field by field.
LEMMA FieldsInFrame ==
    ASSUME NEW r \in Requests, r.fault # "stub", NEW m, Holds(m, r), NEW off, PayloadAt(r, off)
    PROVE  /\ Wire(Layout[r.op_code], r.args, off, m, Len(Payload(r)))
           /\ \A i \in 1..Len(Layout[r.op_code]) :
                 /\ ~IsAbsent(Layout[r.op_code][i], r.args) /\ Layout[r.op_code][i].kind = "lpf"
                 /\ off[i] <= Len(Payload(r))
                 => CellsAt(m, off[i - 1], r.args[Layout[r.op_code][i].name])
<1>1. PICK L : L = Layout[r.op_code]
  OBVIOUS
<1>2. GoodLayout(L)
  BY <1>1, RequestAssumption, LayoutsGood, Zenon
<1>3. PICK N \in Nat : N = Len(L)
  BY <1>2, Zenon DEF GoodLayout
<1>4. PICK n \in Nat : n = Len(Payload(r)) /\ \A p \in 1..n : m[4 + p] = Payload(r)[p]
  BY PayloadInFrame, Zenon
<1>5. /\ off \in [0..N -> Nat] /\ off[0] = 0
      /\ \A i \in 1..N : off[i] = off[i - 1] + CellsOf(L[i], r.args)
  BY <1>1, <1>3, Zenon DEF PayloadAt
<1>6. ASSUME NEW i \in 1..N, NEW k \in 1..CellsOf(L[i], r.args), off[i - 1] + k <= n
      PROVE  m[4 + (off[i - 1] + k)] = EncodeField(L[i], r.args)[k]
  <2>1. off[i - 1] + k \in 1..off[N] /\ Payload(r)[off[i - 1] + k] = EncodeField(L[i], r.args)[k]
    BY <1>1, <1>3, <1>4, <1>6, Zenon DEF PayloadAt
  <2>2. off[N] \in Nat
    BY <1>5
  <2>a. PICK x \in 1..off[N] : x = off[i - 1] + k
    BY <2>1, Zenon
  <2>b. x <= n
    BY <1>6, <2>a, Zenon
  <2>3. off[i - 1] + k \in 1..n
    BY <2>2, <2>a, <2>b
  <2> QED
    BY <1>4, <2>1, <2>3, Zenon
<1>7. ASSUME NEW i \in 1..N
      PROVE  IF L[i].kind = "lpf" THEN r.args[L[i].name] \in Seq(Nat) ELSE r.args[L[i].name] \in Nat
  BY <1>1, <1>3, EncodedSeqs, Zenon DEF ArgsFor
<1>8. ASSUME NEW i \in 1..N PROVE HeadCell(L[i], r.args) \in Nat
  BY <1>7, FieldCells, Zenon
<1>9. ASSUME NEW i \in 1..N, ~IsAbsent(L[i], r.args), off[i - 1] + 1 <= n
      PROVE  m[5 + off[i - 1]] = HeadCell(L[i], r.args)
  <2>1. CellsOf(L[i], r.args) \in Nat /\ CellsOf(L[i], r.args) >= 1
    BY <1>7, <1>9, FieldCells, Zenon
  <2>2. 1 \in 1..CellsOf(L[i], r.args)
    BY <2>1
  <2>3. m[4 + (off[i - 1] + 1)] = EncodeField(L[i], r.args)[1]
    BY <1>6, <1>9, <2>2, Zenon
  <2>4. EncodeField(L[i], r.args)[1] = HeadCell(L[i], r.args)
    BY <1>7, <1>9, FieldCells, Zenon
  <2>5. i - 1 \in 0..N
    OBVIOUS
  <2>6. off[i - 1] \in Nat
    BY <1>5, <2>5, Zenon
  <2>7. 4 + (off[i - 1] + 1) = 5 + off[i - 1]
    BY <2>6
  <2> QED
    BY <2>3, <2>4, <2>7, Zenon
<1>10. Wire(L, r.args, off, m, n)
  BY <1>3, <1>4, <1>5, <1>8, <1>9, Zenon DEF Wire
<1>11. ASSUME NEW i \in 1..N, ~IsAbsent(L[i], r.args), L[i].kind = "lpf", off[i] <= n,
              NEW k \in 1..Len(r.args[L[i].name])
       PROVE  m[5 + off[i - 1] + k] = r.args[L[i].name][k]
  <2>1. PICK l : l = Len(r.args[L[i].name])
    OBVIOUS
  <2>2. CellsOf(L[i], r.args) = 1 + l /\ HeadCell(L[i], r.args) = l
    BY <1>11, <2>1, Zenon DEF CellsOf, HeadCell
  <2>3. l \in Nat /\ k \in 1..l
    BY <1>8, <2>1, <2>2, Zenon
  <2>4. i - 1 \in 0..N
    OBVIOUS
  <2>5. off[i - 1] \in Nat /\ off[i] = off[i - 1] + (1 + l)
    BY <1>5, <2>2, <2>4, Zenon
  <2>6. 1 + k \in 1..(1 + l) /\ off[i - 1] + (1 + k) <= n /\ 4 + (off[i - 1] + (1 + k)) = 5 + off[i - 1] + k
    <3>1. off[i] <= n /\ n \in Nat
      BY <1>4, <1>11
    <3> QED
      BY <2>3, <2>5, <3>1
  <2>7. m[4 + (off[i - 1] + (1 + k))] = EncodeField(L[i], r.args)[1 + k]
    BY <1>6, <2>2, <2>6, Zenon
  <2>8. EncodeField(L[i], r.args)[1 + k] = r.args[L[i].name][k]
    <3>1. PICK field, A : field = L[i] /\ A = r.args
      OBVIOUS
    <3>2. IF field.kind = "lpf" THEN A[field.name] \in Seq(Nat) ELSE A[field.name] \in Nat
      BY <1>7, <3>1, Zenon
    <3>3. ~IsAbsent(field, A) /\ field.kind = "lpf"
      BY <1>11, <3>1, Zenon
    <3>4. \A j \in 1..Len(A[field.name]) : EncodeField(field, A)[1 + j] = A[field.name][j]
      BY <3>2, <3>3, FieldCells
    <3> QED
      BY <3>1, <3>4, Zenon
  <2> QED
    BY <2>6, <2>7, <2>8, Zenon
<1>12. ASSUME NEW i \in 1..N, ~IsAbsent(L[i], r.args), L[i].kind = "lpf", off[i] <= n
       PROVE  CellsAt(m, off[i - 1], r.args[L[i].name])
  BY <1>11, <1>12, Zenon DEF CellsAt
<1> QED
  BY <1>1, <1>3, <1>4, <1>10, <1>12, Zenon

\* The parser accepts the payload of a well-formed request, and no other.
LEMMA ParseOutcome ==
    ASSUME NEW r \in Requests, r.fault \notin {"stub", "op"}, NEW m, Holds(m, r),
           NEW off, PayloadAt(r, off), NEW p, p = ParsePayload(r.op_code, m, 5, Len(Payload(r)))
    PROVE  IF r.fault = "none"
           THEN Stage(p, Layout[r.op_code], r.args, off, Len(Layout[r.op_code]))
           ELSE p = Malformed
<1>1. PICK L, A : L = Layout[r.op_code] /\ A = r.args
  OBVIOUS
<1>2. r.op_code \in OpCodes /\ GoodLayout(L) /\ r.fault \in {"none", "short", "op", "stub", "flag"}
  BY <1>1, RequestAssumption, LayoutsGood, Zenon
<1>3. PICK N \in Nat : N = Len(L) /\ DOMAIN L = 1..N
  BY <1>2, Zenon DEF GoodLayout
<1>4. PICK n : n = Len(Payload(r))
  OBVIOUS
<1>5. r.fault # "stub"
  OBVIOUS
<1>6. n \in Nat
  BY <1>4, <1>5, PayloadInFrame, Zenon
<1>7. Wire(L, A, off, m, n)
  BY <1>1, <1>4, <1>5, FieldsInFrame, Zenon
<1>8. ParsedSoFar(p, L, A, off, n, N)
  BY <1>1, <1>2, <1>3, <1>4, <1>7, PayloadParsed, Zenon
<1>9. /\ off \in [0..N -> Nat] /\ off[N] >= 1
      /\ \A i \in 1..N : off[i] = off[i - 1] + CellsOf(L[i], A)
      /\ n = IF r.fault = "short" THEN off[N] - 1 ELSE off[N]
      /\ \A i \in 1..N : \A k \in 1..CellsOf(L[i], A) : off[i - 1] + k \in 1..off[N]
      /\ \E i \in 1..N : CellsOf(L[i], A) >= 1 /\ off[i] >= off[N]
  BY <1>1, <1>3, <1>4, Zenon DEF PayloadAt
<1>10. ASSUME NEW i \in 1..N PROVE CellsOf(L[i], A) \in Nat /\ (~IsAbsent(L[i], A) => CellsOf(L[i], A) >= 1)
  <2>1. IF L[i].kind = "lpf" THEN A[L[i].name] \in Seq(Nat) ELSE A[L[i].name] \in Nat
    BY <1>1, <1>3, EncodedSeqs, Zenon DEF ArgsFor
  <2> QED
    BY <2>1, FieldCells, Zenon
<1>11. CASE r.fault = "none"
  <2>1. ASSUME NEW i \in 1..N PROVE WellFormed(L[i], A, off[i], n)
    <3>1. SUFFICES ASSUME ~IsAbsent(L[i], A)
                   PROVE  off[i] <= n /\ (L[i].kind = "flag" => A[L[i].name] \in {0, 1})
      BY Zenon DEF WellFormed
    <3>2. CellsOf(L[i], A) \in 1..CellsOf(L[i], A)
      BY <1>10, <3>1
    <3>3. off[i] \in 1..off[N]
      BY <1>9, <3>2, Zenon
    <3>4. off[i] <= n
      BY <1>6, <1>9, <1>11, <3>3
    <3>5. L[i].kind = "flag" => A[L[i].name] \in {0, 1}
      <4>1. i \in DOMAIN Layout[r.op_code] /\ r.fault # "flag"
        BY <1>1, <1>3, <1>11
      <4> QED
        BY <1>1, <4>1, RequestAssumption, Zenon
    <3> QED
      BY <3>4, <3>5
  <2> QED
    BY <1>1, <1>3, <1>8, <1>11, <2>1, Zenon DEF ParsedSoFar
<1>12. CASE r.fault = "short"
  <2>1. PICK i \in 1..N : CellsOf(L[i], A) >= 1 /\ off[i] >= off[N]
    BY <1>9, Zenon
  <2>2. ~IsAbsent(L[i], A)
    <3>1. ~(0 >= 1)
      OBVIOUS
    <3> QED
      BY <2>1, <3>1, Zenon DEF CellsOf
  <2>3. off[i] \in Nat /\ off[N] \in Nat /\ n = off[N] - 1
    <3>1. i \in 0..N /\ N \in 0..N
      BY <1>3
    <3> QED
      BY <1>9, <1>12, <3>1, Zenon
  <2>4. ~(off[i] <= n)
    BY <2>1, <2>3
  <2>5. ~WellFormed(L[i], A, off[i], n)
    BY <2>2, <2>4, Zenon DEF WellFormed
  <2>6. r.fault # "none"
    BY <1>12
  <2> QED
    BY <1>8, <2>5, <2>6, Zenon DEF ParsedSoFar
<1>13. CASE r.fault = "flag"
  <2>1. PICK i \in 1..N : L[i].kind = "flag" /\ A[L[i].name] \notin {0, 1}
    BY <1>1, <1>3, <1>13, RequestAssumption, Zenon
  <2>2. ~IsAbsent(L[i], A)
    BY <1>2, <1>3, <2>1, Zenon DEF GoodLayout, HasMask, IsAbsent
  <2>3. ~WellFormed(L[i], A, off[i], n)
    BY <2>1, <2>2, Zenon DEF WellFormed
  <2>4. r.fault # "none"
    BY <1>13
  <2> QED
    BY <1>8, <2>3, <2>4, Zenon DEF ParsedSoFar
<1> QED
  BY <1>2, <1>11, <1>12, <1>13
-----------------------------------------------------------------------------
(* The decoders *)

\* What a struct's field is given for a parsed x.
StructValue(field, x) ==
    IF HasMask(field) /\ x = NULL THEN IF field.kind = "lpf" THEN NullView ELSE 0
    ELSE IF field.kind = "lpf" THEN lpf(x) ELSE x

\* The record has a value for every field of op's layout, and it is the parsed one.
DecodesAs(L, op, record, v) == \A i \in 1..Len(L) :
    /\ FieldOf(op, L[i]) \in DOMAIN record
    /\ record[FieldOf(op, L[i])] = StructValue(L[i], v[L[i].name])
Decodes(op, record, v) == DecodesAs(Layout[op], op, record, v)

\* Each of the 18 decoders assigns every field of its layout, from the parsed field
\* of its own name.
LEMMA AssignedDecodes == ASSUME NEW op \in OpCodes, NEW v PROVE Decodes(op, Assigned(op, v), v)
<1> USE DEF DecodesAs, StructValue, FieldOf, Layout, Fixed, Flag, Lpf, HasMask
<1>1. ASSUME NEW L, L = Layout["LOOKUP"] PROVE DecodesAs(L, "LOOKUP", rsi_request_lookup(v), v)
  BY <1>1 DEF rsi_request_lookup
<1>2. ASSUME NEW L, L = Layout["CREATE_ENTRY"] PROVE DecodesAs(L, "CREATE_ENTRY", rsi_request_create_entry(v), v)
  BY <1>2 DEF rsi_request_create_entry
<1>3. ASSUME NEW L, L = Layout["HIDE_ENTRY"] PROVE DecodesAs(L, "HIDE_ENTRY", rsi_request_hide_entry(v), v)
  BY <1>3 DEF rsi_request_hide_entry
<1>4. ASSUME NEW L, L = Layout["DELETE_ENTRY"] PROVE DecodesAs(L, "DELETE_ENTRY", rsi_request_delete_entry(v), v)
  BY <1>4 DEF rsi_request_delete_entry
<1>5. ASSUME NEW L, L = Layout["ENUM_CHILDREN"] PROVE DecodesAs(L, "ENUM_CHILDREN", rsi_request_enum_children(v), v)
  BY <1>5 DEF rsi_request_enum_children
<1>6. ASSUME NEW L, L = Layout["CREATE_KEY"] PROVE DecodesAs(L, "CREATE_KEY", rsi_request_create_key(v), v)
  BY <1>6 DEF rsi_request_create_key
<1>7. ASSUME NEW L, L = Layout["READ_KEY"] PROVE DecodesAs(L, "READ_KEY", rsi_request_read_key(v), v)
  BY <1>7 DEF rsi_request_read_key
<1>8. ASSUME NEW L, L = Layout["DROP_KEY"] PROVE DecodesAs(L, "DROP_KEY", rsi_request_drop_key(v), v)
  BY <1>8 DEF rsi_request_drop_key
<1>9. ASSUME NEW L, L = Layout["WRITE_KEY"] PROVE DecodesAs(L, "WRITE_KEY", rsi_request_write_key(v), v)
  BY <1>9 DEF rsi_request_write_key, NullView
<1>10. ASSUME NEW L, L = Layout["QUERY_VALUES"] PROVE DecodesAs(L, "QUERY_VALUES", rsi_request_query_values(v), v)
  BY <1>10 DEF rsi_request_query_values
<1>11. ASSUME NEW L, L = Layout["SET_VALUE"] PROVE DecodesAs(L, "SET_VALUE", rsi_request_set_value(v), v)
  BY <1>11 DEF rsi_request_set_value
<1>12. ASSUME NEW L, L = Layout["DELETE_VALUE_ENTRY"] PROVE DecodesAs(L, "DELETE_VALUE_ENTRY", rsi_request_delete_value_entry(v), v)
  BY <1>12 DEF rsi_request_delete_value_entry
<1>13. ASSUME NEW L, L = Layout["SET_BLANKET_TOMBSTONE"] PROVE DecodesAs(L, "SET_BLANKET_TOMBSTONE", rsi_request_set_blanket_tombstone(v), v)
  BY <1>13 DEF rsi_request_set_blanket_tombstone
<1>14. ASSUME NEW L, L = Layout["BEGIN_TRANSACTION"] PROVE DecodesAs(L, "BEGIN_TRANSACTION", rsi_request_begin_transaction(v), v)
  BY <1>14 DEF rsi_request_begin_transaction
<1>15. ASSUME NEW L, L = Layout["COMMIT_TRANSACTION"] PROVE DecodesAs(L, "COMMIT_TRANSACTION", rsi_request_commit_transaction(v), v)
  BY <1>15 DEF rsi_request_commit_transaction
<1>16. ASSUME NEW L, L = Layout["ABORT_TRANSACTION"] PROVE DecodesAs(L, "ABORT_TRANSACTION", rsi_request_abort_transaction(v), v)
  BY <1>16 DEF rsi_request_abort_transaction
<1>17. ASSUME NEW L, L = Layout["DELETE_LAYER"] PROVE DecodesAs(L, "DELETE_LAYER", rsi_request_delete_layer(v), v)
  BY <1>17 DEF rsi_request_delete_layer
<1>18. ASSUME NEW L, L = Layout["FLUSH"] PROVE DecodesAs(L, "FLUSH", rsi_request_flush(v), v)
  BY <1>18 DEF rsi_request_flush
<1> HIDE DEF DecodesAs, StructValue, FieldOf, Layout, Fixed, Flag, Lpf, HasMask
<1>19. CASE op = "LOOKUP"
  BY <1>1, <1>19, Zenon DEF Assigned, Decodes
<1>20. CASE op = "CREATE_ENTRY"
  BY <1>2, <1>20, Zenon DEF Assigned, Decodes
<1>21. CASE op = "HIDE_ENTRY"
  BY <1>3, <1>21, Zenon DEF Assigned, Decodes
<1>22. CASE op = "DELETE_ENTRY"
  BY <1>4, <1>22, Zenon DEF Assigned, Decodes
<1>23. CASE op = "ENUM_CHILDREN"
  BY <1>5, <1>23, Zenon DEF Assigned, Decodes
<1>24. CASE op = "CREATE_KEY"
  BY <1>6, <1>24, Zenon DEF Assigned, Decodes
<1>25. CASE op = "READ_KEY"
  BY <1>7, <1>25, Zenon DEF Assigned, Decodes
<1>26. CASE op = "DROP_KEY"
  BY <1>8, <1>26, Zenon DEF Assigned, Decodes
<1>27. CASE op = "WRITE_KEY"
  BY <1>9, <1>27, Zenon DEF Assigned, Decodes
<1>28. CASE op = "QUERY_VALUES"
  BY <1>10, <1>28, Zenon DEF Assigned, Decodes
<1>29. CASE op = "SET_VALUE"
  BY <1>11, <1>29, Zenon DEF Assigned, Decodes
<1>30. CASE op = "DELETE_VALUE_ENTRY"
  BY <1>12, <1>30, Zenon DEF Assigned, Decodes
<1>31. CASE op = "SET_BLANKET_TOMBSTONE"
  BY <1>13, <1>31, Zenon DEF Assigned, Decodes
<1>32. CASE op = "BEGIN_TRANSACTION"
  BY <1>14, <1>32, Zenon DEF Assigned, Decodes
<1>33. CASE op = "COMMIT_TRANSACTION"
  BY <1>15, <1>33, Zenon DEF Assigned, Decodes
<1>34. CASE op = "ABORT_TRANSACTION"
  BY <1>16, <1>34, Zenon DEF Assigned, Decodes
<1>35. CASE op = "DELETE_LAYER"
  BY <1>17, <1>35, Zenon DEF Assigned, Decodes
<1>36. CASE op = "FLUSH"
  BY <1>18, <1>36, Zenon DEF Assigned, Decodes
<1> QED
  BY <1>19, <1>20, <1>21, <1>22, <1>23, <1>24, <1>25, <1>26, <1>27,
     <1>28, <1>29, <1>30, <1>31, <1>32, <1>33, <1>34, <1>35, <1>36 DEF OpCodes

\* A window of a sequence that has the elements of another, in its length, is it.
LEMMA WindowIs ==
    ASSUME NEW C, NEW m \in Seq(C), NEW a, NEW ptr \in Nat \ {0}, NEW n \in Nat, a \in Seq(Nat), Len(a) = n,
           ptr + n - 1 <= Len(m), \A k \in 1..n : m[ptr - 1 + k] = a[k]
    PROVE  SubSeq(m, ptr, ptr + n - 1) = a
<1>1. PICK w : w = SubSeq(m, ptr, ptr + n - 1)
  BY Zenon
<1>2. w = [k \in 1..n |-> m[ptr - 1 + k]]
  BY <1>1
<1>3. a = [k \in 1..n |-> a[k]]
  OBVIOUS
<1> QED
  BY <1>1, <1>2, <1>3, Zenon

\* The data of a length-prefixed field are in the buffer.
LEMMA DataInFrame ==
    ASSUME NEW r \in Requests, r.fault # "stub", NEW m, Holds(m, r), NEW off, PayloadAt(r, off),
           NEW i \in 1..Len(Layout[r.op_code]), ~IsAbsent(Layout[r.op_code][i], r.args),
           Layout[r.op_code][i].kind = "lpf", off[i] <= Len(Payload(r))
    PROVE  CellsAt(m, off[i - 1], r.args[Layout[r.op_code][i].name])
BY FieldsInFrame, Zenon

\* The view x shows the cells a, in front of cell end of a frame and behind its header.
Shows(m, x, a, end) == /\ x.ptr \in Nat /\ SubSeq(m, x.ptr, x.ptr + x.len - 1) = a
                       /\ x.ptr > 4 /\ x.ptr + x.len - 1 <= end

\* The view that is parsed for cells a shows them, and ends with the payload's n cells.
LEMMA ViewShows ==
    ASSUME NEW C, NEW m \in Seq(C), NEW a \in Seq(Nat), NEW q \in Nat, NEW n \in Nat,
           4 + n <= Len(m), q + (1 + Len(a)) <= n, CellsAt(m, q, a),
           NEW x, x.ptr = 5 + q + 1, x.len = Len(a)
    PROVE  Shows(m, x, a, 4 + n)
<1>1. PICK l \in Nat : l = Len(a)
  OBVIOUS
<1>2. PICK ptr \in Nat \ {0} : ptr = 5 + q + 1
  OBVIOUS
<1>3. Len(m) \in Nat
  OBVIOUS
<1>4. ptr + l - 1 <= 4 + n /\ ptr + l - 1 <= Len(m) /\ ptr > 4
  BY <1>1, <1>2, <1>3
<1>5. ASSUME NEW k \in 1..l PROVE m[ptr - 1 + k] = a[k]
  <2>1. ptr - 1 + k = 5 + q + k
    BY <1>2
  <2> QED
    BY <1>1, <2>1, Zenon DEF CellsAt
<1>6. SubSeq(m, ptr, ptr + l - 1) = a
  BY <1>1, <1>4, <1>5, WindowIs
<1> QED
  BY <1>1, <1>2, <1>4, <1>6 DEF Shows

\* lpf copies a slice, and no slice is NULL.
LEMMA LpfCopies ==
    ASSUME NEW a \in Nat, NEW b \in Nat
    PROVE  /\ [ptr |-> a, len |-> b] # NULL
           /\ lpf([ptr |-> a, len |-> b]).ptr = a /\ lpf([ptr |-> a, len |-> b]).len = b
<1>1. [ptr |-> a, len |-> b] \in [ptr : Nat, len : Nat]
  OBVIOUS
<1>2. [ptr |-> a, len |-> b] # NULL
  BY <1>1, NullAssumption, Zenon
<1>3. lpf([ptr |-> a, len |-> b]).ptr = a /\ lpf([ptr |-> a, len |-> b]).len = b
  BY DEF lpf
<1> QED
  BY <1>2, <1>3

\* What a length-prefixed field that was parsed becomes.
LEMMA LpfValue ==
    ASSUME NEW field, field.kind = "lpf", NEW a \in Nat, NEW b \in Nat,
           NEW y, y = StructValue(field, [ptr |-> a, len |-> b])
    PROVE  y.ptr = a /\ y.len = b
<1>1. StructValue(field, [ptr |-> a, len |-> b]) = lpf([ptr |-> a, len |-> b])
  BY LpfCopies, Zenon DEF StructValue
<1> QED
  BY <1>1, LpfCopies

\* x is what a struct should have for a field of r, whose frame is in m: the argument
\* itself, or a view of the cells of the frame that hold it.
ValueShows(r, m, field, x) ==
    /\ field.kind # "lpf" => x = IF IsAbsent(field, r.args) THEN 0 ELSE r.args[field.name]
    /\ field.kind = "lpf" /\ IsAbsent(field, r.args) => x = NullView
    /\ field.kind = "lpf" /\ ~IsAbsent(field, r.args) =>
          Shows(m, x, r.args[field.name], Len(Frame(r)))

\* And it has.
LEMMA FieldDecoded ==
    ASSUME NEW r \in Requests, r.fault = "none", NEW C, NEW m \in Seq(C), Holds(m, r),
           Len(Frame(r)) <= Len(m), NEW i \in 1..Len(Layout[r.op_code])
    PROVE  LET p == ParsePayload(r.op_code, m, 5, Len(Frame(r)) - 4)
               field == Layout[r.op_code][i]
           IN p.ok = TRUE /\ ValueShows(r, m, field, StructValue(field, p.v[field.name]))
<1>p. PICK p : p = ParsePayload(r.op_code, m, 5, Len(Frame(r)) - 4)
  OBVIOUS
<1>f. PICK field : field = Layout[r.op_code][i]
  OBVIOUS
<1>x. PICK x : x = StructValue(field, p.v[field.name])
  OBVIOUS
<1>1. PICK L, A : L = Layout[r.op_code] /\ A = r.args
  OBVIOUS
<1>2. GoodLayout(L)
  BY <1>1, RequestAssumption, LayoutsGood, Zenon
<1>3. PICK N \in Nat : N = Len(L)
  BY <1>2, Zenon DEF GoodLayout
<1>4. PICK off : PayloadAt(r, off)
  BY PayloadCells, Zenon
<1>5. r.fault # "stub" /\ r.fault \notin {"stub", "op"} /\ r.fault # "short"
  OBVIOUS
<1>6. PICK n \in Nat : n = Len(Payload(r)) /\ Len(Frame(r)) = 4 + n
  BY <1>5, PayloadInFrame, Zenon
<1>7. Len(Frame(r)) - 4 = n
  BY <1>6
<1>8. p = ParsePayload(r.op_code, m, 5, Len(Payload(r)))
  BY <1>p, <1>6, <1>7, Zenon
<1>9. Stage(p, L, A, off, N)
  BY <1>1, <1>3, <1>4, <1>5, <1>8, ParseOutcome, Zenon
<1>10. /\ p.ok = TRUE /\ i \in 1..N /\ field = L[i]
       /\ p.v[field.name] = ParsedAs(field, A, 5 + off[i - 1])
  BY <1>f, <1>1, <1>3, <1>9, Zenon DEF Stage
<1>11. /\ off \in [0..N -> Nat] /\ off[i] = off[i - 1] + CellsOf(field, A) /\ n = off[N]
       /\ \A k \in 1..CellsOf(field, A) : off[i - 1] + k \in 1..off[N]
  BY <1>1, <1>3, <1>4, <1>5, <1>6, <1>10, Zenon DEF PayloadAt
<1>12. IF field.kind = "lpf" THEN A[field.name] \in Seq(Nat) ELSE A[field.name] \in Nat
  BY <1>f, <1>1, EncodedSeqs, Zenon DEF ArgsFor
<1>13. ASSUME IsAbsent(field, A) PROVE ValueShows(r, m, field, x)
  <2>1. p.v[field.name] = NULL /\ HasMask(field)
    BY <1>10, <1>13, Zenon DEF ParsedAs, IsAbsent, HasMask
  <2> QED
    BY <1>x, <1>1, <1>13, <2>1, Zenon DEF StructValue, ValueShows
<1>14. ASSUME ~IsAbsent(field, A), field.kind # "lpf" PROVE ValueShows(r, m, field, x)
  <2>1. p.v[field.name] = A[field.name] /\ A[field.name] \in Nat
    BY <1>10, <1>12, <1>14, Zenon DEF ParsedAs
  <2>2. A[field.name] # NULL
    BY <2>1, NullAssumption, Zenon
  <2> QED
    BY <1>x, <1>1, <1>14, <2>1, <2>2, Zenon DEF StructValue, ValueShows
<1>15. ASSUME ~IsAbsent(field, A), field.kind = "lpf" PROVE ValueShows(r, m, field, x)
  <2>1. PICK a \in Seq(Nat) : a = A[field.name]
    BY <1>12, <1>15, Zenon
  <2>2. PICK q \in Nat : q = off[i - 1]
    <3>1. i - 1 \in 0..N
      BY <1>3, <1>10
    <3> QED
      BY <1>11, <3>1, Zenon
  <2>3. Len(a) \in Nat /\ 5 + q + 1 \in Nat
    BY <2>1, <2>2
  <2>4. p.v[field.name] = [ptr |-> 5 + q + 1, len |-> Len(a)]
    BY <1>10, <1>15, <2>1, <2>2, Zenon DEF ParsedAs
  <2>5. x.ptr = 5 + q + 1 /\ x.len = Len(a)
    <3>1. PICK y : y = StructValue(field, [ptr |-> 5 + q + 1, len |-> Len(a)])
      OBVIOUS
    <3>2. y.ptr = 5 + q + 1 /\ y.len = Len(a)
      <4>1. PICK b \in Nat : b = 5 + q + 1
        BY <2>3
      <4>2. PICK l \in Nat : l = Len(a)
        BY <2>3
      <4>3. y = StructValue(field, [ptr |-> b, len |-> l])
        BY <3>1, <4>1, <4>2, Zenon
      <4>4. y.ptr = b /\ y.len = l
        BY <1>15, <4>3, LpfValue
      <4> QED
        BY <4>1, <4>2, <4>4, Zenon
    <3>3. x = y
      BY <1>x, <2>4, <3>1, Zenon
    <3> QED
      BY <3>2, <3>3, Zenon
  <2>6. CellsOf(field, A) = 1 + Len(a)
    BY <1>15, <2>1, Zenon DEF CellsOf
  <2>7. q + (1 + Len(a)) \in 1..n /\ off[i] = q + (1 + Len(a))
    <3>1. 1 + Len(a) \in 1..(1 + Len(a))
      BY <2>3
    <3> QED
      BY <1>11, <2>2, <2>6, <3>1, Zenon
  <2>8. q + (1 + Len(a)) <= n
    BY <1>6, <2>7
  <2>9. CellsAt(m, q, a)
    <3>1. off[i] <= Len(Payload(r))
      BY <1>6, <2>7, <2>8, Zenon
    <3>2. ~IsAbsent(Layout[r.op_code][i], r.args) /\ Layout[r.op_code][i].kind = "lpf"
      BY <1>f, <1>1, <1>15, Zenon
    <3>3. CellsAt(m, off[i - 1], r.args[Layout[r.op_code][i].name])
      BY <1>4, <1>5, <3>1, <3>2, DataInFrame, Zenon
    <3> QED
      BY <1>f, <1>1, <2>1, <2>2, <3>3, Zenon
  <2>10. 4 + n <= Len(m)
    BY <1>6
  <2>11. Shows(m, x, a, 4 + n)
    BY <1>6, <2>1, <2>2, <2>5, <2>8, <2>9, <2>10, ViewShows, Zenon
  <2> QED
    BY <1>1, <1>6, <1>15, <2>1, <2>11, Zenon DEF ValueShows
<1>16. ValueShows(r, m, field, x)
  BY <1>13, <1>14, <1>15
<1> QED
  BY <1>p, <1>f, <1>x, <1>10, <1>16, Zenon
-----------------------------------------------------------------------------
(* The slots *)

\* What a cell of a buffer may hold.
Cells == Nat \cup OpCodes \cup {"unknown"} \cup { r.request_id : r \in Requests }
         \cup { r.txn_id : r \in Requests }

\* The variables are per slot.
PerSlot ==
    /\ mem \in [Slots -> Seq(Cells)] /\ len \in [Slots -> Nat]
    /\ sent \in [Slots -> Requests \cup {NULL}]
    /\ req = [s \in Slots |-> req[s]] /\ of = [s \in Slots |-> of[s]]
    /\ out = [s \in Slots |-> out[s]] /\ decoded = [s \in Slots |-> decoded[s]]
    /\ ret = [s \in Slots |-> ret[s]] /\ errno = [s \in Slots |-> errno[s]]

\* The front of a buffer is the frame that was read into it last.
FrameInv == \A s \in Slots : sent[s] # NULL =>
               /\ len[s] = Len(Frame(sent[s]))
               /\ \A i \in 1..len[s] : mem[s][i] = Frame(sent[s])[i]

\* An rsi_request in force was parsed from a frame that was read.
ParsedInv == \A s \in Slots : of[s] = "frame" => sent[s] # NULL

\* A request waits only while there are frames left to read.
QueueInv == pending # NULL => reads < MaxReads

\* The inductive invariant.
IInv == TypeOK /\ PerSlot /\ QueueInv /\ FrameInv /\ ParsedInv /\ IdentifiesRequest

\* The narrowing of a length that fits loses nothing.
LEMMA ModFits == ASSUME NEW n \in Nat, NEW x \in 0..n PROVE x % (n + 1) = x
  BY SMT

\* A frame is a sequence of cells, of its request's header and payload unless it is
\* cut off within the header.
LEMMA FrameCells ==
    ASSUME NEW r \in Requests
    PROVE  /\ Frame(r) \in Seq(Cells)
           /\ Len(Frame(r)) >= RSI_REQUEST_HEADER_SIZE <=> r.fault # "stub"
           /\ Len(Frame(r)) >= RSI_REQUEST_HEADER_SIZE =>
                 /\ Frame(r)[2] = r.request_id /\ Frame(r)[4] = r.txn_id
                 /\ Frame(r)[3] = IF r.fault = "op" THEN "unknown" ELSE r.op_code
<1> DEFINE op == IF r.fault = "op" THEN "unknown" ELSE r.op_code
           total == RSI_REQUEST_HEADER_SIZE + Len(Payload(r))
           header == <<total, r.request_id, op, r.txn_id>>
           cells == header \o Payload(r)
<1>1. Payload(r) \in Seq(Nat) /\ r.op_code \in OpCodes /\ total \in Nat
  BY RequestAssumption, PayloadCells DEF RSI_REQUEST_HEADER_SIZE
<1>2. header \in Seq(Cells) /\ Len(header) = 4
  BY <1>1 DEF Cells
<1>3. Payload(r) \in Seq(Cells)
  BY <1>1 DEF Cells
<1>4. cells \in Seq(Cells) /\ Len(cells) >= 4
  BY <1>2, <1>3
<1>5. cells[2] = r.request_id /\ cells[3] = op /\ cells[4] = r.txn_id
  BY <1>2, <1>3
<1>6. Frame(r) = IF r.fault = "stub" THEN SubSeq(cells, 1, 3) ELSE cells
  BY DEF Frame, RSI_REQUEST_HEADER_SIZE
<1>7. SubSeq(cells, 1, 3) \in Seq(Cells) /\ Len(SubSeq(cells, 1, 3)) = 3
  BY <1>4
<1> QED
  BY <1>4, <1>5, <1>6, <1>7 DEF RSI_REQUEST_HEADER_SIZE

\* Reading a frame over a buffer leaves it as long as it was, with the frame in front.
LEMMA ReadBuffer ==
    ASSUME NEW f \in Seq(Cells), NEW m \in Seq(Cells), Len(m) = BufSize, Len(f) <= BufSize
    PROVE  /\ f \o SubSeq(m, Len(f) + 1, BufSize) \in Seq(Cells)
           /\ Len(f \o SubSeq(m, Len(f) + 1, BufSize)) = BufSize
           /\ \A i \in 1..Len(f) : (f \o SubSeq(m, Len(f) + 1, BufSize))[i] = f[i]
<1> DEFINE rest == SubSeq(m, Len(f) + 1, BufSize)
<1>1. rest \in Seq(Cells) /\ Len(rest) = BufSize - Len(f)
  BY BufferAssumption
<1> HIDE DEF rest
<1>2. /\ f \o rest \in Seq(Cells) /\ Len(f \o rest) = Len(f) + Len(rest)
      /\ \A i \in 1..Len(f) : (f \o rest)[i] = f[i]
  BY <1>1
<1> QED
  BY <1>1, <1>2, BufferAssumption DEF rest

\* Nothing was read at first.
LEMMA InitIInv == Init => IInv
<1> SUFFICES ASSUME Init PROVE IInv
  OBVIOUS
<1>1. [i \in 1..BufSize |-> 0] \in Seq(Cells) /\ Len([i \in 1..BufSize |-> 0]) = BufSize
  BY BufferAssumption DEF Cells
<1>2. PerSlot
  BY <1>1 DEF Init, PerSlot
<1>3. TypeOK
  BY <1>1, BufferAssumption DEF Init, TypeOK, Zeroed
<1>4. QueueInv /\ FrameInv /\ ParsedInv /\ IdentifiesRequest
  BY DEF Init, QueueInv, FrameInv, ParsedInv, IdentifiesRequest
<1> QED
  BY <1>2, <1>3, <1>4 DEF IInv

\* fail_errno changes nothing but the return value.
LEMMA FailKeeps ==
    ASSUME IInv, NEW s \in Slots, NEW e \in {"EINVAL", "EBADMSG", "EMSGSIZE"}, FailErrno(s, e)
    PROVE  IInv'
<1>1. /\ UNCHANGED <<pending, reads, mem, len, sent, req, of, out, decoded>>
      /\ ret' = [ret EXCEPT ![s] = -1] /\ errno' = [errno EXCEPT ![s] = e]
  BY DEF FailErrno, Return
<1>2. PerSlot'
  BY <1>1, Zenon DEF IInv, PerSlot
<1>3. TypeOK'
  BY <1>1 DEF IInv, PerSlot, TypeOK
<1>4. (QueueInv /\ FrameInv /\ ParsedInv /\ IdentifiesRequest)'
  BY <1>1 DEF IInv, QueueInv, FrameInv, ParsedInv, IdentifiesRequest
<1> QED
  BY <1>2, <1>3, <1>4 DEF IInv

\* A frame that is read takes the place of the one before it, and the rsi_request
\* of that one is no longer in force.
LEMMA ReadKeeps == ASSUME IInv, NEW s \in Slots, Read(s) PROVE IInv'
<1>1. PICK cap \in Caps :
          \/ /\ Len(Frame(pending)) <= cap
             /\ mem' = [mem EXCEPT ![s] = Frame(pending) \o SubSeq(@, Len(Frame(pending)) + 1, BufSize)]
             /\ len' = [len EXCEPT ![s] = Len(Frame(pending))]
             /\ sent' = [sent EXCEPT ![s] = pending]
             /\ of' = [of EXCEPT ![s] = IF @ = "frame" THEN "reused" ELSE @]
             /\ decoded' = [decoded EXCEPT ![s] = NULL]
             /\ pending' = NULL /\ reads' = reads + 1
             /\ Return(s, 0, "none") /\ UNCHANGED <<req, out>>
          \/ FailErrno(s, "EMSGSIZE")
  BY Zenon DEF Read
<1>2. CASE FailErrno(s, "EMSGSIZE")
  BY <1>2, FailKeeps
<1>3. CASE ~FailErrno(s, "EMSGSIZE")
  <2>1. PICK r \in Requests : r = pending
    BY DEF Read, IInv, TypeOK
  <2>2. PICK f \in Seq(Cells) : f = Frame(r)
    BY <2>1, FrameCells
  <2>3. PICK m \in Seq(Cells) : /\ Len(m) = BufSize /\ \A i \in 1..Len(f) : m[i] = f[i]
                                /\ mem' = [mem EXCEPT ![s] = m]
    <3>1. Len(f) <= BufSize /\ mem[s] \in Seq(Cells) /\ Len(mem[s]) = BufSize
      BY <1>1, <1>3, <2>1, <2>2, BufferAssumption DEF IInv, TypeOK, PerSlot
    <3>2. PICK m : m = f \o SubSeq(mem[s], Len(f) + 1, BufSize)
      BY Zenon
    <3>3. m \in Seq(Cells) /\ Len(m) = BufSize /\ \A i \in 1..Len(f) : m[i] = f[i]
      BY <3>1, <3>2, ReadBuffer
    <3>4. mem' = [mem EXCEPT ![s] = m]
      BY <1>1, <1>3, <2>1, <2>2, <3>2, Zenon
    <3> QED
      BY <3>3, <3>4, Zenon
  <2>4. /\ Len(f) \in 0..BufSize /\ len' = [len EXCEPT ![s] = Len(f)]
        /\ sent' = [sent EXCEPT ![s] = r] /\ r # NULL /\ r \in Requests
        /\ of' = [of EXCEPT ![s] = IF @ = "frame" THEN "reused" ELSE @]
        /\ decoded' = [decoded EXCEPT ![s] = NULL]
        /\ pending' = NULL /\ reads' = reads + 1 /\ UNCHANGED <<req, out>>
        /\ ret' = [ret EXCEPT ![s] = 0] /\ errno' = [errno EXCEPT ![s] = "none"]
    BY <1>1, <1>3, <2>1, <2>2, BufferAssumption, NullAssumption DEF Return
  <2>5. PerSlot'
    <3>1. mem' \in [Slots -> Seq(Cells)]
      BY <2>3 DEF IInv, PerSlot
    <3>2. len' \in [Slots -> Nat] /\ sent' \in [Slots -> Requests \cup {NULL}]
      BY <2>4 DEF IInv, PerSlot
    <3>3. /\ req' = [u \in Slots |-> req'[u]] /\ of' = [u \in Slots |-> of'[u]]
          /\ out' = [u \in Slots |-> out'[u]] /\ decoded' = [u \in Slots |-> decoded'[u]]
      BY <2>4, Zenon DEF IInv, PerSlot
    <3>4. ret' = [u \in Slots |-> ret'[u]] /\ errno' = [u \in Slots |-> errno'[u]]
      BY <2>4, Zenon DEF IInv, PerSlot
    <3> QED
      BY <3>1, <3>2, <3>3, <3>4 DEF PerSlot
  <2>6. FrameInv'
    BY <2>2, <2>3, <2>4 DEF IInv, PerSlot, FrameInv
  <2>7. (QueueInv /\ ParsedInv /\ IdentifiesRequest)'
    BY <2>4 DEF IInv, PerSlot, QueueInv, ParsedInv, IdentifiesRequest
  <2>8. TypeOK'
    <3>1. reads' \in 0..MaxReads /\ pending' = NULL
      BY <2>4, BufferAssumption DEF Read, IInv, QueueInv, TypeOK
    <3>2. ASSUME NEW u \in Slots
          PROVE  /\ Len(mem'[u]) = BufSize /\ len'[u] \in 0..BufSize
                 /\ sent'[u] \in Requests \cup {NULL}
      BY <2>3, <2>4 DEF IInv, PerSlot, TypeOK
    <3>3. ASSUME NEW u \in Slots
          PROVE  /\ of'[u] \in {"zeroed", "forged", "frame", "reused"}
                 /\ decoded'[u] \in OpCodes \cup {NULL}
                 /\ ret'[u] \in {-1, 0}
                 /\ errno'[u] \in {"none", "EINVAL", "EBADMSG", "EMSGSIZE"}
      BY <2>4, Zenon DEF IInv, PerSlot, TypeOK
    <3> QED
      BY <2>4, <3>1, <3>2, <3>3 DEF IInv, TypeOK
  <2> QED
    BY <2>5, <2>6, <2>7, <2>8 DEF IInv
<1> QED
  BY <1>2, <1>3

\* The kernel's queue is no business of the slots.
LEMMA EnqueueKeeps == ASSUME IInv, Enqueue PROVE IInv'
<1>1. /\ pending' \in Requests /\ reads < MaxReads
      /\ UNCHANGED <<reads, mem, len, sent, req, of, out, decoded, ret, errno>>
  BY DEF Enqueue
<1>2. TypeOK' /\ PerSlot' /\ QueueInv'
  BY <1>1 DEF IInv, TypeOK, PerSlot, QueueInv
<1>3. (FrameInv /\ ParsedInv /\ IdentifiesRequest)'
  BY <1>1 DEF IInv, FrameInv, ParsedInv, IdentifiesRequest
<1> QED
  BY <1>2, <1>3 DEF IInv

\* What rsi_parse_request makes of a frame is its request.
LEMMA ParsedIsSent ==
    ASSUME IInv, NEW s \in Slots, sent[s] # NULL, HeaderOk(mem[s], len[s])
    PROVE  /\ Parsed(s).request_id = sent[s].request_id
           /\ Parsed(s).txn_id = sent[s].txn_id
           /\ Parsed(s).op_code = sent[s].op_code
           /\ Parsed(s).payload = 5 /\ Parsed(s).payload_len = len[s] - 4
           /\ len[s] \in 4..BufSize
<1>1. PICK r \in Requests : r = sent[s]
  BY DEF IInv, TypeOK
<1>2. len[s] \in 4..BufSize /\ mem[s][3] \in OpCodes
  BY DEF HeaderOk, RSI_REQUEST_HEADER_SIZE, IInv, TypeOK
<1>3. mem[s][2] = Frame(r)[2] /\ mem[s][3] = Frame(r)[3] /\ mem[s][4] = Frame(r)[4]
  BY <1>1, <1>2 DEF IInv, FrameInv
<1>4. Len(Frame(r)) >= RSI_REQUEST_HEADER_SIZE
  BY <1>1, <1>2 DEF IInv, FrameInv, RSI_REQUEST_HEADER_SIZE
<1>5. mem[s][2] = r.request_id /\ mem[s][3] = r.op_code /\ mem[s][4] = r.txn_id
  <2>1. "unknown" \notin OpCodes
    BY DEF OpCodes
  <2> QED
    BY <1>2, <1>3, <1>4, <2>1, FrameCells
<1>6. (len[s] - 4) % (U32Max + 1) = len[s] - 4
  BY <1>2, ModFits, BufferAssumption
<1> QED
  BY <1>1, <1>2, <1>5, <1>6 DEF Parsed, RSI_REQUEST_HEADER_SIZE

\* A call that touches only the structs of slot s keeps the rest.
LEMMA StructStep ==
    ASSUME IInv, NEW s \in Slots, UNCHANGED <<pending, reads, mem, len, sent>>,
           NEW q, req' = [req EXCEPT ![s] = q],
           q.payload \in Nat \cup {NULL}, q.payload_len \in 0..U32Max,
           NEW o \in {"zeroed", "forged", "frame", "reused"}, of' = [of EXCEPT ![s] = o],
           out' = [u \in Slots |-> out'[u]],
           NEW d \in OpCodes \cup {NULL}, decoded' = [decoded EXCEPT ![s] = d],
           Return(s, 0, "none"),
           o = "frame" => /\ sent[s] # NULL /\ q.request_id = sent[s].request_id
                          /\ q.txn_id = sent[s].txn_id /\ q.op_code = sent[s].op_code
                          /\ q.payload + q.payload_len = len[s] + 1
    PROVE  IInv'
<1>1. ret' = [ret EXCEPT ![s] = 0] /\ errno' = [errno EXCEPT ![s] = "none"]
  BY DEF Return
<1>2. PerSlot'
  BY <1>1, Zenon DEF IInv, PerSlot
<1>3. TypeOK'
  <2>1. ASSUME NEW u \in Slots
        PROVE  /\ req'[u].payload \in Nat \cup {NULL} /\ req'[u].payload_len \in 0..U32Max
               /\ of'[u] \in {"zeroed", "forged", "frame", "reused"}
               /\ decoded'[u] \in OpCodes \cup {NULL}
    BY Zenon DEF IInv, PerSlot, TypeOK
  <2>2. ASSUME NEW u \in Slots
        PROVE  ret'[u] \in {-1, 0} /\ errno'[u] \in {"none", "EINVAL", "EBADMSG", "EMSGSIZE"}
    BY <1>1, Zenon DEF IInv, PerSlot, TypeOK
  <2> QED
    BY <2>1, <2>2 DEF IInv, TypeOK
<1>4. (QueueInv /\ FrameInv)'
  BY DEF IInv, QueueInv, FrameInv
<1>5. (ParsedInv /\ IdentifiesRequest)'
  BY DEF IInv, PerSlot, ParsedInv, IdentifiesRequest
<1> QED
  BY <1>2, <1>3, <1>4, <1>5 DEF IInv

\* rsi_parse_request fills *out from the frame in the buffer, or fails.
LEMMA ParseKeeps ==
    ASSUME IInv, NEW s \in Slots, NEW n \in BOOLEAN, NEW m \in BOOLEAN, Parse(s, n, m) PROVE IInv'
<1>1. CASE FailErrno(s, "EINVAL") \/ FailErrno(s, "EBADMSG")
  BY <1>1, FailKeeps
<1>2. CASE /\ HeaderOk(mem[s], len[s])
           /\ req' = [req EXCEPT ![s] = Parsed(s)] /\ of' = [of EXCEPT ![s] = "frame"]
           /\ Return(s, 0, "none") /\ UNCHANGED <<pending, reads, mem, len, sent, out, decoded>>
  <2>1. PICK q : q = Parsed(s)
    OBVIOUS
  <2>2. /\ sent[s] # NULL /\ q.request_id = sent[s].request_id /\ q.txn_id = sent[s].txn_id
        /\ q.op_code = sent[s].op_code /\ q.payload = 5 /\ q.payload_len = len[s] - 4
        /\ len[s] \in 4..BufSize
    BY <1>2, <2>1, ParsedIsSent DEF Parse
  <2>3. /\ q.payload \in Nat \cup {NULL} /\ q.payload_len \in 0..U32Max
        /\ q.payload + q.payload_len = len[s] + 1
    BY <2>2, BufferAssumption
  <2>4. PICK d \in OpCodes \cup {NULL} : d = decoded[s]
    BY DEF IInv, TypeOK
  <2>5. decoded' = [decoded EXCEPT ![s] = d] /\ out' = [u \in Slots |-> out'[u]]
    BY <1>2, <2>4 DEF IInv, PerSlot
  <2>6. req' = [req EXCEPT ![s] = q]
    BY <1>2, <2>1
  <2> QED
    BY <1>2, <2>2, <2>3, <2>5, <2>6, StructStep, Zenon
<1> QED
  BY <1>1, <1>2 DEF Parse

\* A made-up rsi_request claims nothing about a frame.
LEMMA ForgeKeeps == ASSUME IInv, NEW s \in Slots, Forge(s) PROVE IInv'
<1>1. PICK op \in ForgedOps, n \in {0, 1} :
          req' = [req EXCEPT ![s] = [Zeroed EXCEPT !.op_code = op, !.payload_len = n]]
  BY Zenon DEF Forge
<1>2. PICK q : q = [Zeroed EXCEPT !.op_code = op, !.payload_len = n]
  OBVIOUS
<1>3. q.payload = NULL /\ q.payload_len = n /\ n \in 0..U32Max
  BY <1>2, BufferAssumption DEF Zeroed
<1>4. out' = [u \in Slots |-> out'[u]]
  BY DEF Forge, IInv, PerSlot
<1> QED
  BY <1>1, <1>2, <1>3, <1>4, StructStep, Zenon DEF Forge

\* A decoder fills its struct and leaves the rsi_request as it was.
LEMMA DecodeKeeps ==
    ASSUME IInv, NEW s \in Slots, NEW op \in OpCodes, NEW n \in BOOLEAN, NEW m \in BOOLEAN,
           Decode(s, op, n, m)
    PROVE  IInv'
<1>1. CASE FailErrno(s, "EINVAL") \/ FailErrno(s, "EBADMSG")
  BY <1>1, FailKeeps
<1>2. CASE /\ out' = [out EXCEPT ![s] = Assign(@, Assigned(op, ParsedPayload(s, op).v))]
           /\ decoded' = [decoded EXCEPT ![s] = op] /\ Return(s, 0, "none")
           /\ UNCHANGED <<pending, reads, mem, len, sent, req, of>>
  <2>1. out' = [u \in Slots |-> out'[u]]
    BY <1>2, Zenon DEF IInv, PerSlot
  <2>2. PICK q : q = req[s]
    OBVIOUS
  <2>3. PICK o \in {"zeroed", "forged", "frame", "reused"} : o = of[s]
    BY DEF IInv, TypeOK
  <2>4. req' = [req EXCEPT ![s] = q] /\ of' = [of EXCEPT ![s] = o]
    BY <1>2, <2>2, <2>3, Zenon DEF IInv, PerSlot
  <2>5. q.payload \in Nat \cup {NULL} /\ q.payload_len \in 0..U32Max
    BY <2>2 DEF IInv, TypeOK
  <2>6. o = "frame" => /\ sent[s] # NULL /\ q.request_id = sent[s].request_id
                       /\ q.txn_id = sent[s].txn_id /\ q.op_code = sent[s].op_code
                       /\ q.payload + q.payload_len = len[s] + 1
    BY <2>2, <2>3, Zenon DEF IInv, ParsedInv, IdentifiesRequest
  <2> QED
    BY <1>2, <2>1, <2>4, <2>5, <2>6, StructStep, Zenon
<1> QED
  BY <1>1, <1>2 DEF Decode

\* Every step keeps the inductive invariant.
LEMMA NextKeeps == IInv /\ [Next]_vars => IInv'
<1> SUFFICES ASSUME IInv, [Next]_vars PROVE IInv'
  OBVIOUS
<1>1. CASE UNCHANGED vars
  BY <1>1 DEF vars, IInv, TypeOK, PerSlot, QueueInv, FrameInv, ParsedInv, IdentifiesRequest
<1> QED
  BY <1>1, EnqueueKeeps, ReadKeeps, ForgeKeeps, ParseKeeps, DecodeKeeps DEF Next

\* The inductive invariant holds throughout.
THEOREM Inductive == Spec => []IInv
  BY InitIInv, NextKeeps, PTL DEF Spec

\* The variables keep their types.
THEOREM TypeCorrect == Spec => []TypeOK
<1>1. IInv => TypeOK
  BY DEF IInv
<1> QED
  BY <1>1, Inductive, PTL

\* Whatever was read, parsed, decoded, made up or failed before, an rsi_request in
\* force has the id, the op-code and the payload bounds of the frame in its buffer.
THEOREM IdentifiesItsFrame == Spec => []IdentifiesRequest
<1>1. IInv => IdentifiesRequest
  BY DEF IInv
<1> QED
  BY <1>1, Inductive, PTL

\* A function that fails has left its caller's structs alone.
THEOREM FailsWithoutTrace == Spec => FailureLeavesStructs
<1> DEFINE Leaves == \A s \in Slots : ret'[s] = -1 => req'[s] = req[s] /\ out'[s] = out[s]
<1>1. IInv /\ [Next]_vars => [Leaves]_vars
  <2> SUFFICES ASSUME IInv, Next, NEW s \in Slots, ret'[s] = -1
               PROVE  req'[s] = req[s] /\ out'[s] = out[s]
    OBVIOUS
  <2>1. CASE UNCHANGED <<req, out>>
    BY <2>1
  <2>2. ASSUME NEW u \in Slots, Return(u, 0, "none") PROVE u # s
    BY <2>2 DEF Return, IInv, PerSlot
  <2>3. ASSUME NEW u \in Slots, Forge(u) PROVE req'[s] = req[s] /\ UNCHANGED out
    BY <2>2, <2>3, Zenon DEF Forge, IInv, PerSlot
  <2>4. ASSUME NEW u \in Slots, NEW n \in BOOLEAN, NEW m \in BOOLEAN, Parse(u, n, m)
        PROVE  req'[s] = req[s] /\ UNCHANGED out
    BY <2>2, <2>4 DEF Parse, FailErrno, IInv, PerSlot
  <2>5. ASSUME NEW u \in Slots, NEW op \in OpCodes, NEW n \in BOOLEAN, NEW m \in BOOLEAN,
               Decode(u, op, n, m)
        PROVE  UNCHANGED req /\ out'[s] = out[s]
    BY <2>2, <2>5 DEF Decode, FailErrno, IInv, PerSlot
  <2>6. ASSUME Enqueue \/ \E u \in Slots : Read(u) PROVE UNCHANGED <<req, out>>
    BY <2>6 DEF Enqueue, Read, FailErrno
  <2> QED
    BY <2>1, <2>3, <2>4, <2>5, <2>6 DEF Next
<1> QED
  BY <1>1, Inductive, PTL DEF Spec, FailureLeavesStructs
-----------------------------------------------------------------------------
(* What the decoders leave *)

\* The decode struct in force shows the request whose frame is in the buffer.
Intact(s) == decoded[s] # NULL =>
    /\ sent[s] \in Requests /\ sent[s].op_code = decoded[s] /\ sent[s].fault = "none"
    /\ len[s] = Len(Frame(sent[s]))
    /\ \A i \in 1..Len(Layout[decoded[s]]) :
          ValueShows(sent[s], mem[s], Layout[decoded[s]][i], out[s][FieldOf(decoded[s], Layout[decoded[s]][i])])

\* Where an rsi_request's payload is: nowhere, or behind the header of a frame that
\* has one.
PayloadPlace(s) ==
    /\ of[s] = "zeroed" => req[s].op_code = "none"
    /\ of[s] \in {"zeroed", "forged"} => req[s].payload = NULL
    /\ of[s] = "frame" => /\ req[s].payload = 5 /\ req[s].payload_len = len[s] - 4
                          /\ sent[s].fault \notin {"stub", "op"}

\* EBADMSG was the kernel's fault.
Blamed(s) == errno[s] = "EBADMSG" /\ of[s] # "forged" => sent[s].fault # "none"

\* The inductive invariant of the decoders.
DInv == \A s \in Slots : Intact(s) /\ PayloadPlace(s) /\ Blamed(s)

\* The header of a frame is good unless it was made otherwise.
LEMMA HeaderSays ==
    ASSUME IInv, NEW s \in Slots, sent[s] # NULL
    PROVE  /\ sent[s] \in Requests /\ Holds(mem[s], sent[s]) /\ len[s] = Len(Frame(sent[s]))
           /\ HeaderOk(mem[s], len[s]) <=> sent[s].fault \notin {"stub", "op"}
<1>1. PICK r \in Requests : r = sent[s]
  BY DEF IInv, TypeOK
<1>2. len[s] = Len(Frame(r)) /\ Holds(mem[s], r)
  BY <1>1, Zenon DEF IInv, FrameInv, Holds
<1>3. /\ len[s] >= 4 <=> r.fault # "stub"
      /\ len[s] >= 4 => Frame(r)[3] = IF r.fault = "op" THEN "unknown" ELSE r.op_code
  BY <1>2, FrameCells DEF RSI_REQUEST_HEADER_SIZE
<1>4. len[s] >= 4 => mem[s][3] = Frame(r)[3]
  <2>1. len[s] >= 4 => 3 \in 1..len[s]
    BY DEF IInv, TypeOK
  <2> QED
    BY <1>2, <2>1, Zenon DEF Holds
<1>5. "unknown" \notin OpCodes /\ r.op_code \in OpCodes
  BY RequestAssumption DEF OpCodes
<1>6. HeaderOk(mem[s], len[s]) <=> r.fault \notin {"stub", "op"}
  BY <1>3, <1>4, <1>5 DEF HeaderOk, RSI_REQUEST_HEADER_SIZE
<1> QED
  BY <1>1, <1>2, <1>6, Zenon

\* A slot that a step leaves alone stays as it is.
LEMMA OtherSlot ==
    ASSUME NEW s, Intact(s), PayloadPlace(s), Blamed(s),
           mem'[s] = mem[s], len'[s] = len[s], sent'[s] = sent[s], req'[s] = req[s], of'[s] = of[s],
           out'[s] = out[s], decoded'[s] = decoded[s], errno'[s] = errno[s]
    PROVE  Intact(s)' /\ PayloadPlace(s)' /\ Blamed(s)'
<1>1. Intact(s)'
  BY Zenon DEF Intact
<1>2. PayloadPlace(s)' /\ Blamed(s)'
  BY Zenon DEF PayloadPlace, Blamed
<1> QED
  BY <1>1, <1>2

\* A call that fails blames the kernel only for its own mistake.
LEMMA FailBlames ==
    ASSUME IInv, DInv, NEW s \in Slots, NEW e, FailErrno(s, e),
           e = "EBADMSG" /\ of[s] # "forged" => sent[s].fault # "none"
    PROVE  DInv'
<1>1. /\ UNCHANGED <<mem, len, sent, req, of, out, decoded>>
      /\ errno' = [errno EXCEPT ![s] = e] /\ errno = [u \in Slots |-> errno[u]]
  BY DEF FailErrno, Return, IInv, PerSlot
<1>2. SUFFICES ASSUME NEW u \in Slots PROVE Intact(u)' /\ PayloadPlace(u)' /\ Blamed(u)'
  BY DEF DInv
<1>3. Intact(u) /\ PayloadPlace(u) /\ Blamed(u)
  BY DEF DInv
<1>4. CASE u # s
  <2>1. errno'[u] = errno[u]
    BY <1>1, <1>4
  <2> QED
    BY <1>1, <1>3, <2>1, OtherSlot
<1>5. CASE u = s
  <2>1. errno'[s] = e
    BY <1>1
  <2>2. Intact(u)' /\ PayloadPlace(u)'
    BY <1>1, <1>3, Zenon DEF Intact, PayloadPlace
  <2>3. Blamed(u)'
    BY <1>1, <1>5, <2>1, Zenon DEF Blamed
  <2> QED
    BY <2>2, <2>3
<1> QED
  BY <1>4, <1>5

\* A step at slot s, which leaves the others alone.
LEMMA SlotStep ==
    ASSUME DInv, NEW s \in Slots, Intact(s)', PayloadPlace(s)', Blamed(s)',
           \A u \in Slots \ {s} :
              /\ mem'[u] = mem[u] /\ len'[u] = len[u] /\ sent'[u] = sent[u] /\ req'[u] = req[u]
              /\ of'[u] = of[u] /\ out'[u] = out[u] /\ decoded'[u] = decoded[u] /\ errno'[u] = errno[u]
    PROVE  DInv'
<1> SUFFICES ASSUME NEW u \in Slots PROVE Intact(u)' /\ PayloadPlace(u)' /\ Blamed(u)'
  BY DEF DInv
<1>1. CASE u = s
  BY <1>1
<1>2. CASE u # s
  <2>1. Intact(u) /\ PayloadPlace(u) /\ Blamed(u)
    BY DEF DInv
  <2> QED
    BY <1>2, <2>1, OtherSlot
<1> QED
  BY <1>1, <1>2

\* Nothing is decoded when a frame was just read.
LEMMA ReadShows == ASSUME IInv, DInv, NEW s \in Slots, Read(s) PROVE DInv'
<1>1. CASE FailErrno(s, "EMSGSIZE")
  BY <1>1, FailBlames
<1>2. CASE ~FailErrno(s, "EMSGSIZE")
  <2>1. PICK m, n, r :
          /\ mem' = [mem EXCEPT ![s] = m] /\ len' = [len EXCEPT ![s] = n]
          /\ sent' = [sent EXCEPT ![s] = r]
          /\ of' = [of EXCEPT ![s] = IF @ = "frame" THEN "reused" ELSE @]
          /\ decoded' = [decoded EXCEPT ![s] = NULL]
          /\ Return(s, 0, "none") /\ UNCHANGED <<req, out>>
    BY <1>2, Zenon DEF Read
  <2>2. /\ mem = [u \in Slots |-> mem[u]] /\ len = [u \in Slots |-> len[u]]
        /\ sent = [u \in Slots |-> sent[u]] /\ of = [u \in Slots |-> of[u]]
        /\ decoded = [u \in Slots |-> decoded[u]] /\ errno = [u \in Slots |-> errno[u]]
    BY DEF IInv, PerSlot
  <2>3. errno' = [errno EXCEPT ![s] = "none"]
    BY <2>1 DEF Return
  <2>4. /\ decoded'[s] = NULL /\ errno'[s] = "none" /\ req'[s] = req[s]
        /\ of'[s] = IF of[s] = "frame" THEN "reused" ELSE of[s]
    BY <2>1, <2>2, <2>3
  <2>5. Intact(s)' /\ Blamed(s)'
    BY <2>4 DEF Intact, Blamed
  <2>6. PayloadPlace(s)'
    <3>1. PayloadPlace(s)
      BY DEF DInv
    <3> QED
      BY <2>4, <3>1 DEF PayloadPlace
  <2>7. ASSUME NEW u \in Slots \ {s}
        PROVE  /\ mem'[u] = mem[u] /\ len'[u] = len[u] /\ sent'[u] = sent[u] /\ req'[u] = req[u]
               /\ of'[u] = of[u] /\ out'[u] = out[u] /\ decoded'[u] = decoded[u] /\ errno'[u] = errno[u]
    BY <2>1, <2>2, <2>3, Zenon
  <2> QED
    BY <2>5, <2>6, <2>7, SlotStep
<1> QED
  BY <1>1, <1>2

\* Nor of a request that was made up.
LEMMA ForgeShows == ASSUME IInv, DInv, NEW s \in Slots, Forge(s) PROVE DInv'
<1>1. PICK op, n : req' = [req EXCEPT ![s] = [Zeroed EXCEPT !.op_code = op, !.payload_len = n]]
  BY Zenon DEF Forge
<1>2. PICK q : q = [Zeroed EXCEPT !.op_code = op, !.payload_len = n]
  OBVIOUS
<1>3. q.payload = NULL /\ req' = [req EXCEPT ![s] = q]
  BY <1>1, <1>2 DEF Zeroed
<1>4. /\ of' = [of EXCEPT ![s] = "forged"] /\ decoded' = [decoded EXCEPT ![s] = NULL]
      /\ errno' = [errno EXCEPT ![s] = "none"] /\ UNCHANGED <<mem, len, sent, out>>
  BY DEF Forge, Return
<1>5. /\ req = [u \in Slots |-> req[u]] /\ of = [u \in Slots |-> of[u]]
      /\ decoded = [u \in Slots |-> decoded[u]] /\ errno = [u \in Slots |-> errno[u]]
  BY DEF IInv, PerSlot
<1>6. decoded'[s] = NULL /\ errno'[s] = "none" /\ req'[s] = q /\ of'[s] = "forged"
  BY <1>3, <1>4, <1>5
<1>7. Intact(s)' /\ Blamed(s)' /\ PayloadPlace(s)'
  BY <1>3, <1>6 DEF Intact, Blamed, PayloadPlace
<1>8. ASSUME NEW u \in Slots \ {s}
      PROVE  /\ mem'[u] = mem[u] /\ len'[u] = len[u] /\ sent'[u] = sent[u] /\ req'[u] = req[u]
             /\ of'[u] = of[u] /\ out'[u] = out[u] /\ decoded'[u] = decoded[u] /\ errno'[u] = errno[u]
  BY <1>3, <1>4, <1>5, Zenon
<1> QED
  BY <1>7, <1>8, SlotStep

\* Parsing a header again leaves a decode struct in force.
LEMMA ParseShows ==
    ASSUME IInv, DInv, NEW s \in Slots, NEW n \in BOOLEAN, NEW m \in BOOLEAN, Parse(s, n, m) PROVE DInv'
<1>0. sent[s] # NULL
  BY DEF Parse
<1>1. CASE FailErrno(s, "EINVAL")
  BY <1>1, FailBlames
<1>2. CASE FailErrno(s, "EBADMSG") /\ ~HeaderOk(mem[s], len[s])
  <2>1. sent[s].fault # "none"
    BY <1>0, <1>2, HeaderSays
  <2> QED
    BY <1>2, <2>1, FailBlames
<1>3. CASE /\ HeaderOk(mem[s], len[s])
           /\ req' = [req EXCEPT ![s] = Parsed(s)] /\ of' = [of EXCEPT ![s] = "frame"]
           /\ Return(s, 0, "none") /\ UNCHANGED <<pending, reads, mem, len, sent, out, decoded>>
  <2>1. /\ req = [u \in Slots |-> req[u]] /\ of = [u \in Slots |-> of[u]]
        /\ errno = [u \in Slots |-> errno[u]] /\ errno' = [errno EXCEPT ![s] = "none"]
    BY <1>3 DEF IInv, PerSlot, Return
  <2>2. PICK q : q = Parsed(s)
    OBVIOUS
  <2>3. q.payload = 5 /\ q.payload_len = len[s] - 4
    BY <1>0, <1>3, <2>2, ParsedIsSent
  <2>4. req'[s] = q /\ of'[s] = "frame" /\ errno'[s] = "none"
    BY <1>3, <2>1, <2>2
  <2>5. sent[s].fault \notin {"stub", "op"}
    BY <1>0, <1>3, HeaderSays
  <2>6. PayloadPlace(s)' /\ Blamed(s)'
    BY <1>3, <2>3, <2>4, <2>5 DEF PayloadPlace, Blamed
  <2>7. Intact(s)'
    <3>1. Intact(s)
      BY DEF DInv
    <3> QED
      BY <1>3, <3>1, Zenon DEF Intact
  <2>8. ASSUME NEW u \in Slots \ {s}
        PROVE  /\ mem'[u] = mem[u] /\ len'[u] = len[u] /\ sent'[u] = sent[u] /\ req'[u] = req[u]
               /\ of'[u] = of[u] /\ out'[u] = out[u] /\ decoded'[u] = decoded[u] /\ errno'[u] = errno[u]
    BY <1>3, <2>1, Zenon
  <2> QED
    BY <2>6, <2>7, <2>8, SlotStep
<1> QED
  BY <1>1, <1>2, <1>3 DEF Parse

\* The payload that a decoder is given: none of a made-up request, or what follows
\* the header of the frame in the buffer.
LEMMA PayloadGiven ==
    ASSUME IInv, DInv, NEW s \in Slots, NEW op \in OpCodes, NEW n \in BOOLEAN,
           of[s] # "reused", ~PayloadError(s, op, n)
    PROVE  \/ of[s] = "forged" /\ ParsedPayload(s, op) = Malformed
           \/ /\ of[s] = "frame" /\ sent[s] # NULL /\ sent[s].op_code = op
              /\ sent[s].fault \notin {"stub", "op"}
              /\ ParsedPayload(s, op) = ParsePayload(op, mem[s], 5, len[s] - 4)
<1>1. req[s].op_code = op /\ (req[s].payload = NULL => req[s].payload_len = 0)
  BY DEF PayloadError
<1>2. PayloadPlace(s) /\ of[s] \in {"zeroed", "forged", "frame"}
  BY DEF DInv, IInv, TypeOK
<1>3. op # "none"
  BY DEF OpCodes
<1>4. CASE of[s] = "zeroed"
  BY <1>1, <1>2, <1>3, <1>4 DEF PayloadPlace
<1>5. CASE of[s] = "forged"
  <2>1. req[s].payload = NULL /\ req[s].payload_len = 0
    BY <1>1, <1>2, <1>5 DEF PayloadPlace
  <2>2. ParsedPayload(s, op) = ParsePayload(op, mem[s], 1, 0)
    BY <2>1, Zenon DEF ParsedPayload
  <2> QED
    BY <1>5, <2>2, EmptyMalformed, Zenon
<1>6. CASE of[s] = "frame"
  <2>1. req[s].payload = 5 /\ req[s].payload_len = len[s] - 4 /\ sent[s].fault \notin {"stub", "op"}
    BY <1>2, <1>6 DEF PayloadPlace
  <2>2. 5 # NULL
    BY NullAssumption
  <2>3. ParsedPayload(s, op) = ParsePayload(op, mem[s], 5, len[s] - 4)
    BY <2>1, <2>2, Zenon DEF ParsedPayload
  <2>4. sent[s] # NULL /\ sent[s].op_code = op
    BY <1>1, <1>6, Zenon DEF IInv, ParsedInv, IdentifiesRequest
  <2> QED
    BY <1>6, <2>1, <2>3, <2>4
<1> QED
  BY <1>2, <1>4, <1>5, <1>6

\* A number of an interval is not above it.
LEMMA InInterval == ASSUME NEW N, NEW n \in 0..N PROVE n <= N
OBVIOUS

\* What a decoder makes of a frame: all of it, or nothing and then for a reason.
LEMMA FrameDecoded ==
    ASSUME IInv, NEW s \in Slots, sent[s] # NULL, sent[s].fault \notin {"stub", "op"},
           NEW op \in OpCodes, sent[s].op_code = op,
           NEW p, p = ParsePayload(op, mem[s], 5, len[s] - 4)
    PROVE  IF sent[s].fault = "none"
           THEN /\ p.ok = TRUE
                /\ \A i \in 1..Len(Layout[op]) :
                      ValueShows(sent[s], mem[s], Layout[op][i],
                                 StructValue(Layout[op][i], p.v[Layout[op][i].name]))
           ELSE p.ok = FALSE
<1>1. PICK r \in Requests : r = sent[s]
  BY HeaderSays, Zenon
<1>2. PICK m : m = mem[s]
  OBVIOUS
<1>3. Holds(m, r) /\ len[s] = Len(Frame(r)) /\ r.fault \notin {"stub", "op"} /\ r.op_code = op
  BY <1>1, <1>2, HeaderSays, Zenon
<1>4. p = ParsePayload(r.op_code, m, 5, Len(Frame(r)) - 4)
  BY <1>2, <1>3, Zenon
<1>5. m \in Seq(Cells) /\ Len(Frame(r)) <= Len(m)
  <2>1. m \in Seq(Cells) /\ len[s] \in 0..BufSize /\ Len(m) = BufSize
    BY <1>2 DEF IInv, PerSlot, TypeOK
  <2>2. len[s] <= BufSize
    BY <2>1, InInterval, Zenon
  <2> QED
    BY <1>3, <2>1, <2>2, Zenon
<1>6. CASE r.fault = "none"
  <2>0. \A n \in Nat \ {0} : 1 \in 1..n
    OBVIOUS
  <2>1. 1 \in 1..Len(Layout[op])
    BY <2>0, LayoutsGood, Zenon DEF GoodLayout
  <2>2. ASSUME NEW i \in 1..Len(Layout[op])
        PROVE  /\ p.ok = TRUE
               /\ ValueShows(r, m, Layout[op][i], StructValue(Layout[op][i], p.v[Layout[op][i].name]))
    BY <1>3, <1>4, <1>5, <1>6, FieldDecoded, Zenon
  <2> QED
    BY <1>1, <1>2, <1>6, <2>1, <2>2, Zenon
<1>7. CASE r.fault # "none"
  <2>1. PICK off : PayloadAt(r, off)
    BY PayloadCells, Zenon
  <2>2. r.fault # "stub"
    BY <1>3
  <2>3. Len(Frame(r)) = 4 + Len(Payload(r)) /\ Len(Payload(r)) \in Nat
    BY <1>3, <2>2, PayloadInFrame, Zenon
  <2>4. Len(Frame(r)) - 4 = Len(Payload(r))
    BY <2>3
  <2>5. p = ParsePayload(r.op_code, m, 5, Len(Payload(r)))
    BY <1>4, <2>4, Zenon
  <2>6. p = Malformed
    BY <1>3, <1>7, <2>1, <2>5, ParseOutcome, Zenon
  <2>7. Malformed.ok = FALSE
    BY DEF Malformed
  <2> QED
    BY <1>1, <1>7, <2>6, <2>7, Zenon
<1> QED
  BY <1>6, <1>7, Zenon

\* Assigning a record gives the struct its values.
LEMMA AssignGives ==
    ASSUME NEW struct, NEW record, NEW x \in DOMAIN record PROVE Assign(struct, record)[x] = record[x]
BY DEF Assign

\* A decoder that succeeds leaves a struct that shows the request; one that calls
\* the frame malformed is right.
LEMMA DecodeShows ==
    ASSUME IInv, DInv, NEW s \in Slots, NEW op \in OpCodes, NEW n \in BOOLEAN, NEW m \in BOOLEAN,
           Decode(s, op, n, m)
    PROVE  DInv'
<1>1. CASE FailErrno(s, "EINVAL")
  BY <1>1, FailBlames
<1>2. CASE ~PayloadError(s, op, n) /\ FailErrno(s, "EBADMSG") /\ ~ParsedPayload(s, op).ok
  <2>1. of[s] # "reused"
    BY DEF Decode
  <2>2. of[s] # "forged" => sent[s].fault # "none"
    <3> SUFFICES ASSUME of[s] # "forged" PROVE sent[s].fault # "none"
      OBVIOUS
    <3>1. /\ sent[s] # NULL /\ sent[s].op_code = op /\ sent[s].fault \notin {"stub", "op"}
          /\ ParsedPayload(s, op) = ParsePayload(op, mem[s], 5, len[s] - 4)
      BY <1>2, <2>1, PayloadGiven
    <3> QED
      BY <1>2, <3>1, FrameDecoded, Zenon
  <2> QED
    BY <1>2, <2>2, FailBlames
<1>3. CASE /\ ~PayloadError(s, op, n) /\ ParsedPayload(s, op).ok
           /\ out' = [out EXCEPT ![s] = Assign(@, Assigned(op, ParsedPayload(s, op).v))]
           /\ decoded' = [decoded EXCEPT ![s] = op] /\ Return(s, 0, "none")
           /\ UNCHANGED <<pending, reads, mem, len, sent, req, of>>
  <2>1. of[s] # "reused"
    BY DEF Decode
  <2>2. PICK p : p = ParsedPayload(s, op)
    OBVIOUS
  <2>3. p # Malformed
    <3>1. Malformed.ok = FALSE
      BY DEF Malformed
    <3> QED
      BY <1>3, <2>2, <3>1, Zenon
  <2>4. /\ of[s] = "frame" /\ sent[s] # NULL /\ sent[s].op_code = op
        /\ sent[s].fault \notin {"stub", "op"} /\ p = ParsePayload(op, mem[s], 5, len[s] - 4)
    BY <1>3, <2>1, <2>2, <2>3, PayloadGiven, Zenon
  <2>5. sent[s].fault = "none"
    BY <1>3, <2>2, <2>4, FrameDecoded, Zenon
  <2>6. ASSUME NEW i \in 1..Len(Layout[op])
        PROVE  ValueShows(sent[s], mem[s], Layout[op][i], StructValue(Layout[op][i], p.v[Layout[op][i].name]))
    BY <2>4, <2>5, FrameDecoded, Zenon
  <2>7. PICK record : record = Assigned(op, p.v)
    OBVIOUS
  <2>8. PICK struct : struct = Assign(out[s], record)
    OBVIOUS
  <2>9. Decodes(op, record, p.v)
    BY <2>7, AssignedDecodes, Zenon
  <2>10. ASSUME NEW i \in 1..Len(Layout[op])
         PROVE  struct[FieldOf(op, Layout[op][i])] = StructValue(Layout[op][i], p.v[Layout[op][i].name])
    <3>1. /\ FieldOf(op, Layout[op][i]) \in DOMAIN record
          /\ record[FieldOf(op, Layout[op][i])] = StructValue(Layout[op][i], p.v[Layout[op][i].name])
      BY <2>9, Zenon DEF Decodes, DecodesAs
    <3>2. struct[FieldOf(op, Layout[op][i])] = record[FieldOf(op, Layout[op][i])]
      BY <2>8, <3>1, AssignGives, Zenon
    <3> QED
      BY <3>1, <3>2, Zenon
  <2>11. /\ out = [u \in Slots |-> out[u]] /\ decoded = [u \in Slots |-> decoded[u]]
         /\ errno = [u \in Slots |-> errno[u]] /\ errno' = [errno EXCEPT ![s] = "none"]
    BY <1>3 DEF IInv, PerSlot, Return
  <2>12. out' = [out EXCEPT ![s] = struct]
    BY <1>3, <2>2, <2>7, <2>8, <2>11
  <2>13. out'[s] = struct /\ decoded'[s] = op /\ errno'[s] = "none"
    BY <1>3, <2>11, <2>12
  <2>14. sent[s] \in Requests /\ len[s] = Len(Frame(sent[s]))
    BY <2>4, HeaderSays
  <2>15. Intact(s)'
    <3>1. ASSUME NEW i \in 1..Len(Layout[op])
          PROVE  ValueShows(sent[s], mem[s], Layout[op][i], struct[FieldOf(op, Layout[op][i])])
      BY <2>6, <2>10, Zenon
    <3> QED
      BY <1>3, <2>4, <2>5, <2>13, <2>14, <3>1, Zenon DEF Intact
  <2>16. PayloadPlace(s)' /\ Blamed(s)'
    <3>1. PayloadPlace(s)
      BY DEF DInv
    <3> QED
      BY <1>3, <2>13, <3>1 DEF PayloadPlace, Blamed
  <2>17. ASSUME NEW u \in Slots \ {s}
         PROVE  /\ mem'[u] = mem[u] /\ len'[u] = len[u] /\ sent'[u] = sent[u] /\ req'[u] = req[u]
                /\ of'[u] = of[u] /\ out'[u] = out[u] /\ decoded'[u] = decoded[u] /\ errno'[u] = errno[u]
    BY <1>3, <2>11, <2>12, Zenon
  <2> QED
    BY <2>15, <2>16, <2>17, SlotStep
<1> QED
  BY <1>1, <1>2, <1>3 DEF Decode

\* The decoders' invariant holds at first.
LEMMA InitDInv == Init => DInv
<1> SUFFICES ASSUME Init, NEW s \in Slots PROVE Intact(s) /\ PayloadPlace(s) /\ Blamed(s)
  BY DEF DInv
<1>1. decoded[s] = NULL /\ of[s] = "zeroed" /\ errno[s] = "none" /\ req[s] = Zeroed
  BY DEF Init
<1>2. Intact(s) /\ Blamed(s)
  BY <1>1, Zenon DEF Intact, Blamed
<1>3. Zeroed.op_code = "none" /\ Zeroed.payload = NULL
  BY DEF Zeroed
<1>4. PayloadPlace(s)
  BY <1>1, <1>3 DEF PayloadPlace
<1> QED
  BY <1>2, <1>4

\* Every step keeps it.
LEMMA NextKeepsDInv == IInv /\ DInv /\ [Next]_vars => DInv'
<1> SUFFICES ASSUME IInv, DInv, [Next]_vars PROVE DInv'
  OBVIOUS
<1>1. ASSUME UNCHANGED <<mem, len, sent, req, of, out, decoded, errno>> PROVE DInv'
  <2> SUFFICES ASSUME NEW s \in Slots PROVE Intact(s)' /\ PayloadPlace(s)' /\ Blamed(s)'
    BY DEF DInv
  <2>1. Intact(s) /\ PayloadPlace(s) /\ Blamed(s)
    BY DEF DInv
  <2> QED
    BY <1>1, <2>1, OtherSlot
<1>2. CASE UNCHANGED vars
  BY <1>1, <1>2 DEF vars
<1>3. CASE Enqueue
  BY <1>1, <1>3 DEF Enqueue
<1> QED
  BY <1>2, <1>3, ReadShows, ForgeShows, ParseShows, DecodeShows DEF Next

\* The decoders' invariant holds throughout.
THEOREM DecodersInductive == Spec => []DInv
  BY InitDInv, NextKeepsDInv, Inductive, PTL DEF Spec

\* Reading a struct's field through the buffer gives what the request says.
LEMMA ShownValue ==
    ASSUME NEW s \in Slots, NEW field, NEW x, ValueShows(sent[s], mem[s], field, x), len[s] = Len(Frame(sent[s]))
    PROVE  /\ IF field.kind = "lpf"
              THEN Deref(s, x) = IF IsAbsent(field, sent[s].args) THEN NULL ELSE sent[s].args[field.name]
              ELSE x = IF IsAbsent(field, sent[s].args) THEN 0 ELSE sent[s].args[field.name]
           /\ field.kind = "lpf" /\ x.ptr # NULL /\ x.len # 0 =>
                 x.ptr > RSI_REQUEST_HEADER_SIZE /\ x.ptr + x.len - 1 <= len[s]
<1>1. CASE field.kind # "lpf"
  BY <1>1, Zenon DEF ValueShows
<1>2. CASE field.kind = "lpf" /\ IsAbsent(field, sent[s].args)
  <2>1. x = NullView
    BY <1>2, Zenon DEF ValueShows
  <2>2. x.ptr = NULL
    BY <2>1 DEF NullView
  <2> QED
    BY <1>2, <2>2, Zenon DEF Deref
<1>3. CASE field.kind = "lpf" /\ ~IsAbsent(field, sent[s].args)
  <2>1. Shows(mem[s], x, sent[s].args[field.name], len[s])
    BY <1>3, Zenon DEF ValueShows
  <2>2. x.ptr # NULL
    BY <2>1, NullAssumption DEF Shows
  <2>3. Deref(s, x) = sent[s].args[field.name]
    BY <2>1, <2>2, Zenon DEF Shows, Deref
  <2>4. x.ptr > RSI_REQUEST_HEADER_SIZE /\ x.ptr + x.len - 1 <= len[s]
    BY <2>1, Zenon DEF Shows, RSI_REQUEST_HEADER_SIZE
  <2> QED
    BY <1>3, <2>3, <2>4, Zenon
<1> QED
  BY <1>1, <1>2, <1>3, Zenon

\* The invariant gives each field of a struct in force the value ShownValue reads.
LEMMA StructShows ==
    ASSUME DInv, NEW s \in Slots, decoded[s] # NULL, NEW i \in DOMAIN Layout[decoded[s]]
    PROVE  /\ ValueShows(sent[s], mem[s], Layout[decoded[s]][i],
                         out[s][FieldOf(decoded[s], Layout[decoded[s]][i])])
           /\ len[s] = Len(Frame(sent[s]))
<1>1. Intact(s)
  BY DEF DInv
<1>2. sent[s] \in Requests /\ sent[s].op_code = decoded[s]
  BY <1>1, Zenon DEF Intact
<1>3. sent[s].op_code \in OpCodes
  BY <1>2, RequestAssumption
<1>4. DOMAIN Layout[decoded[s]] = 1..Len(Layout[decoded[s]])
  BY <1>2, <1>3, LayoutsGood, Zenon DEF GoodLayout
<1> QED
  BY <1>1, <1>4, Zenon DEF Intact

\* A decode struct in force, read through its views out of the buffer as it is now,
\* is the request the kernel sent, for any requests, buffers and numbers of slots:
\* the decoders take every layout apart the way the kernel put it together.
THEOREM DecodesWhatWasSent == Spec => []DecodedIsSent
<1>1. DInv => DecodedIsSent
  <2> SUFFICES ASSUME DInv, NEW s \in Slots, decoded[s] # NULL
               PROVE  /\ sent[s].op_code = decoded[s] /\ sent[s].fault = "none"
                      /\ \A i \in DOMAIN Layout[decoded[s]] :
                            LET field == Layout[decoded[s]][i]
                                value == out[s][FieldOf(decoded[s], field)]
                            IN IF field.kind = "lpf"
                               THEN Deref(s, value) = IF IsAbsent(field, sent[s].args) THEN NULL
                                                      ELSE sent[s].args[field.name]
                               ELSE value = IF IsAbsent(field, sent[s].args) THEN 0
                                            ELSE sent[s].args[field.name]
    BY Zenon DEF DecodedIsSent
  <2>1. sent[s].op_code = decoded[s] /\ sent[s].fault = "none"
    BY Zenon DEF DInv, Intact
  <2> QED
    BY <2>1, StructShows, ShownValue, Zenon
<1> QED
  BY <1>1, DecodersInductive, PTL

\* Every non-empty view of a decode struct in force lies behind the header and inside
\* the frame that was read.
THEOREM ViewsInFrame == Spec => []ViewsStayInFrame
<1>1. DInv => ViewsStayInFrame
  <2> SUFFICES ASSUME DInv, NEW s \in Slots, decoded[s] # NULL, NEW i \in DOMAIN Layout[decoded[s]]
               PROVE  LET field == Layout[decoded[s]][i]
                          view == out[s][FieldOf(decoded[s], field)]
                      IN field.kind = "lpf" /\ view.ptr # NULL /\ view.len # 0 =>
                            view.ptr > RSI_REQUEST_HEADER_SIZE /\ view.ptr + view.len - 1 <= len[s]
    BY Zenon DEF ViewsStayInFrame
  <2> QED
    BY StructShows, ShownValue, Zenon
<1> QED
  BY <1>1, DecodersInductive, PTL

\* rsi_request_parse and the decoders answer EBADMSG only to a frame that the kernel
\* sent malformed, unless the caller made the rsi_request up.
THEOREM BlamesTheKernel == Spec => []BadMsgMeansMalformed
<1>1. DInv => BadMsgMeansMalformed
  BY DEF DInv, Blamed, BadMsgMeansMalformed
<1> QED
  BY <1>1, DecodersInductive, PTL
=============================================================================
