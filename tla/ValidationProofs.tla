---------------------------- MODULE ValidationProofs ----------------------------
(***************************************************************************)
(* The validation of each response helper decides the rules of response.h. *)
(* The code sorts GUID vectors, compares neighbours and compares vectors;  *)
(* the rules speak of sets.                                                *)
(***************************************************************************)
EXTENDS EncodingProofs

-----------------------------------------------------------------------------
(* Validation *)

\* The GUIDs of s are all different, and none is nil.
Names(s) == Distinct(s) /\ NilGuid \notin Range(s)

\* Comparing neighbours of the sorted vector, and its first element with the nil
\* GUID, is enough.
LEMMA UniqueCheck ==
    ASSUME NEW s \in Seq(Nat)
    PROVE  /\ Only(validate_unique_nonzero_guids(s))
           /\ Pass(validate_unique_nonzero_guids(s)) <=> Names(s)
<1>1. PICK t \in Seq(Nat) : t = Sorted(s) /\ Len(t) = Len(s) /\ Ascending(t) /\ Shuffled(t, s)
  BY Sorts
<1>2. Range(t) = Range(s) /\ (Distinct(t) <=> Distinct(s))
  BY <1>1, ShuffledSet
<1>3. /\ (\A i \in 1..(Len(t) - 1) : t[i] # t[i + 1]) <=> Distinct(t)
      /\ (t # <<>> => t[1] # 0) <=> 0 \notin Range(t)
  BY <1>1, Neighbours, Zenon
<1>4. PICK x : x = [kind |-> "require", ok |-> (t # <<>> => t[1] # NilGuid), errno |-> "EINVAL"]
  BY Zenon
<1>5. PICK y : y = [kind |-> "require", ok |-> (\A i \in 1..(Len(t) - 1) : t[i] # t[i + 1]), errno |-> "EINVAL"]
  BY Zenon
<1>6. x.kind = "require" /\ x.kind # "emit" /\ (x.ok <=> 0 \notin Range(s))
  BY <1>2, <1>3, <1>4, Zenon DEF NilGuid
<1>7. y.kind = "require" /\ y.kind # "emit" /\ (y.ok <=> Distinct(s))
  <2>1. y.kind = "require" /\ (y.ok <=> \A i \in 1..(Len(t) - 1) : t[i] # t[i + 1])
    BY <1>5
  <2>2. y.kind # "emit"
    BY <2>1
  <2> QED
    BY <1>2, <1>3, <2>1, <2>2, Zenon
<1>8. Only(<<x>>) /\ (Pass(<<x>>) <=> 0 \notin Range(s))
  BY <1>6, OneStep DEF Only
<1>9. Only(<<y>>) /\ (Pass(<<y>>) <=> Distinct(s))
  BY <1>7, OneStep DEF Only
<1>10. validate_unique_nonzero_guids(s) = <<x>> \o <<y>>
  BY <1>1, <1>4, <1>5, Zenon DEF validate_unique_nonzero_guids, Check
<1>11. Joins(<<x>> \o <<y>>, <<x>>, <<y>>)
  BY <1>8, <1>9, LineConcat, Zenon DEF Only
<1>12. Encoded(<<x>> \o <<y>>) = 0
  <2>1. Encoded(<<x>> \o <<y>>) = 0 + 0
    BY <1>8, <1>9, <1>11, Zenon DEF Joins, Only
  <2> QED
    BY <2>1
<1> QED
  BY <1>8, <1>9, <1>10, <1>11, <1>12, Zenon DEF Joins, Only, Names, NilGuid

\* The sorted vectors are the same when the sets are, if the GUIDs of s differ.
LEMMA SameNames ==
    ASSUME NEW s \in Seq(Nat), NEW t \in Seq(Nat), Distinct(s)
    PROVE  Sorted(s) = sort_dedup_guids(t) <=> Range(s) = Range(t)
<1>1. PICK u \in Seq(Nat) : u = Sorted(s) /\ Len(u) = Len(s) /\ Ascending(u) /\ Shuffled(u, s)
  BY Sorts
<1>2. PICK v \in Seq(Nat) : v = Sorted(t) /\ Len(v) = Len(t) /\ Ascending(v) /\ Shuffled(v, t)
  BY Sorts
<1>3. Range(u) = Range(s) /\ Distinct(u) /\ Range(v) = Range(t)
  BY <1>1, <1>2, ShuffledSet
<1>4. Strict(u)
  BY <1>1, <1>3, Neighbours
<1>5. PICK w \in Seq(Nat) : w = Dedup(v) /\ Strict(w) /\ Range(w) = Range(v)
  BY <1>2, Dedups
<1>6. sort_dedup_guids(t) = w
  BY <1>2, <1>5, Zenon DEF sort_dedup_guids
<1>7. Range(u) = Range(w) => u = w
  BY <1>4, <1>5, StrictUnique, Zenon
<1> QED
  BY <1>1, <1>3, <1>5, <1>6, <1>7, Zenon

\* A check that the vectors are the same, after one that the GUIDs of s differ.
LEMMA SameCheck ==
    ASSUME NEW s \in Seq(Nat), NEW t \in Seq(Nat)
    PROVE  /\ Only(Check(Sorted(s) = sort_dedup_guids(t)))
           /\ Names(s) => (Pass(Check(Sorted(s) = sort_dedup_guids(t))) <=> Range(s) = Range(t))
<1>1. PICK a : a = Sorted(s)
  OBVIOUS
<1>2. PICK b : b = sort_dedup_guids(t)
  OBVIOUS
<1>3. Only(Check(a = b)) /\ (Pass(Check(a = b)) <=> a = b)
  BY CheckStep, Zenon DEF Only
<1>4. Names(s) => (a = b <=> Range(s) = Range(t))
  BY <1>1, <1>2, SameNames, Zenon DEF Names
<1> QED
  BY <1>1, <1>2, <1>3, <1>4, Zenon

\* The GUIDs of an array of metadata.
LEMMA MetadataGuids ==
    ASSUME NEW a, IsArray(a, IsMetadata)
    PROVE  /\ Guids(a.elems) \in Seq(Nat) /\ Len(Guids(a.elems)) = Len(a.elems)
           /\ Range(Guids(a.elems)) = { a.elems[i].guid : i \in DOMAIN a.elems }
<1>1. WellSized(a) /\ \A i \in 1..Len(a.elems) : IsMetadata(a.elems[i])
  BY Zenon DEF IsArray
<1>2. PICK N \in Nat : N = Len(a.elems) /\ DOMAIN a.elems = 1..N
  BY <1>1, ArrayShape, Zenon
<1>3. PICK g : g = Guids(a.elems)
  OBVIOUS
<1>4. g = [i \in 1..N |-> a.elems[i].guid]
  BY <1>2, <1>3, Zenon DEF Guids
<1>5. \A i \in 1..N : a.elems[i].guid \in Nat
  BY <1>1, <1>2, Zenon DEF IsMetadata
<1>6. g \in [1..N -> Nat]
  BY <1>4, <1>5, Zenon
<1>7. g \in Seq(Nat) /\ Len(g) = N
  BY <1>4, <1>6
<1>8. DOMAIN g = 1..N
  BY <1>4, Zenon
<1>9. Range(g) = { a.elems[i].guid : i \in 1..N }
  BY <1>4, <1>8 DEF Range
<1> QED
  BY <1>2, <1>3, <1>7, <1>9, Zenon

\* metadata_guid_set passes when the keys are all different and none is nil.
LEMMA GuidSetCheck ==
    ASSUME NEW a, IsArray(a, IsMetadata)
    PROVE  /\ Only(metadata_guid_set(a))
           /\ Pass(metadata_guid_set(a)) <=> ArrayOk(a) /\ Names(Guids(a.elems))
<1>1. WellSized(a)
  BY Zenon DEF IsArray
<1>2. PICK p : p = require_array(a) /\ Only(p) /\ (Pass(p) <=> ArrayOk(a))
  BY <1>1, ArrayCheck, Zenon DEF Only
<1>3. PICK x : x = [kind |-> "collect", cap |-> a.count, n |-> Len(a.elems)]
  BY Zenon
<1>4. x.kind # "emit" /\ x.kind # "require"
  BY <1>3
<1>5. Only(<<x>>) /\ Pass(<<x>>)
  BY <1>4, OneStep DEF Only
<1>6. PICK g \in Seq(Nat) : g = Guids(a.elems)
  BY MetadataGuids
<1>7. PICK v : v = validate_unique_nonzero_guids(g) /\ Only(v) /\ (Pass(v) <=> Names(g))
  BY UniqueCheck, Zenon
<1>8. metadata_guid_set(a) = p \o <<x>> \o v
  BY <1>2, <1>3, <1>6, <1>7, Zenon DEF metadata_guid_set
<1>9. Joins3(p \o <<x>> \o v, p, <<x>>, v)
  BY <1>2, <1>5, <1>7, Join3, Zenon DEF Only
<1>10. Encoded(p \o <<x>> \o v) = 0
  <2>1. Encoded(p \o <<x>> \o v) = 0 + 0 + 0
    BY <1>2, <1>5, <1>7, <1>9, Zenon DEF Joins3, Only
  <2> QED
    BY <2>1
<1> QED
  BY <1>2, <1>5, <1>6, <1>7, <1>8, <1>9, <1>10, Zenon DEF Joins3, Only

\* Sequences put end to end are a sequence.
LEMMA FlattenedSeq == ASSUME NEW A, NEW seqs \in Seq(Seq(A)) PROVE Flatten(seqs) \in Seq(A)
<1>1. PICK N \in Nat : N = Len(seqs) /\ seqs \in [1..N -> Seq(A)]
  OBVIOUS
<1>2. PICK h \in [0..N -> Seq(A)] : Grows(h, seqs, N)
  BY <1>1, GrowthExists
<1>3. Flatten(seqs) = h[N] /\ N \in 0..N
  BY <1>1, <1>2, FlattenGrows
<1> QED
  BY <1>3

\* The GUIDs collected of an entry.
TargetOf(e) == IF is_guid_target(e) THEN <<e.target_guid>> ELSE <<>>

\* The steps for one entry pass when its target does.
LEMMA TargetLine == ASSUME NEW e PROVE Only(TargetSteps(e)) /\ (Pass(TargetSteps(e)) <=> TargetOk(e))
<1>1. PICK a : a = require_path_target(e) /\ Only(a) /\ (Pass(a) <=> TargetOk(e))
  BY TargetCheck, Zenon
<1>2. PICK x : x = [kind |-> "push_guid"]
  BY Zenon
<1>3. x.kind # "emit" /\ x.kind # "require"
  BY <1>2
<1>4. Only(<<x>>) /\ Pass(<<x>>)
  BY <1>3, OneStep DEF Only
<1>5. Only(<<>>) /\ Pass(<<>>)
  BY NoSteps, Zenon DEF Only
<1>6. PICK b : b = (IF is_guid_target(e) THEN <<x>> ELSE <<>>) /\ Only(b) /\ Pass(b)
  BY <1>4, <1>5
<1>7. PICK u : u = TargetSteps(e) /\ Joins(u, a, b)
  BY <1>1, <1>2, <1>6, LineConcat, Zenon DEF TargetSteps, Only
<1>8. Encoded(u) = 0
  <2>1. Encoded(u) = 0 + 0
    BY <1>1, <1>6, <1>7, Zenon DEF Joins, Only
  <2> QED
    BY <2>1
<1> QED
  BY <1>1, <1>6, <1>7, <1>8, Zenon DEF Joins, Only

\* The loop over the entries passes when every target does.
LEMMA CollectCheck ==
    ASSUME NEW a, IsArray(a, IsEntry)
    PROVE  /\ Only(CollectTargets(a))
           /\ Pass(CollectTargets(a)) <=> ArrayOk(a) /\ \A i \in DOMAIN a.elems : TargetOk(a.elems[i])
<1>1. WellSized(a)
  BY Zenon DEF IsArray
<1>2. PICK p : p = require_array(a) /\ Only(p) /\ (Pass(p) <=> ArrayOk(a))
  BY <1>1, ArrayCheck, Zenon DEF Only
<1>3. PICK f : f = [i \in DOMAIN a.elems |-> TargetSteps(a.elems[i])]
  BY Zenon
<1>4. \A i \in DOMAIN a.elems : Only(f[i]) /\ (Pass(f[i]) <=> TargetOk(a.elems[i]))
  BY <1>3, TargetLine, Zenon
<1>5. f = [i \in DOMAIN a.elems |-> f[i]] /\ \A i \in 1..Len(a.elems) : Only(f[i])
  BY <1>1, <1>3, <1>4, ArrayShape, Zenon
<1>6. PICK r : r = Flatten(f) /\ Only(r) /\ (Pass(r) <=> \A i \in DOMAIN a.elems : Pass(f[i]))
  BY <1>1, <1>5, EachOnly, Zenon
<1>7. PICK u : u = CollectTargets(a) /\ u = p \o r
  BY <1>2, <1>3, <1>6, Zenon DEF CollectTargets, ForEach, TargetSteps
<1>8. Joins(u, p, r)
  BY <1>2, <1>6, <1>7, LineConcat, Zenon DEF Only
<1>9. Encoded(u) = 0
  <2>1. Encoded(u) = 0 + 0
    BY <1>2, <1>6, <1>8, Zenon DEF Joins, Only
  <2> QED
    BY <2>1
<1> QED
  BY <1>2, <1>4, <1>6, <1>7, <1>8, <1>9, Zenon DEF Joins, Only

\* One entry adds its GUID to the vector, if it has one.
LEMMA TargetOfIs ==
    ASSUME NEW e, IsEntry(e)
    PROVE  /\ TargetOf(e) \in Seq(Nat)
           /\ Range(TargetOf(e)) = IF e.target_type = RSI_PATH_TARGET_GUID THEN {e.target_guid} ELSE {}
<1>1. PICK g \in Nat : g = e.target_guid
  BY DEF IsEntry
<1>2. <<g>> \in Seq(Nat) /\ <<>> \in Seq(Nat)
  OBVIOUS
<1>3. Range(<<g>>) = {g} /\ Range(<<>>) = {}
  BY OneElement, NoSteps, Zenon
<1>4. TargetOf(e) = IF e.target_type = RSI_PATH_TARGET_GUID THEN <<g>> ELSE <<>>
  BY <1>1, Zenon DEF TargetOf, is_guid_target
<1>5. CASE e.target_type = RSI_PATH_TARGET_GUID
  BY <1>1, <1>2, <1>3, <1>4, <1>5, Zenon
<1>6. CASE e.target_type # RSI_PATH_TARGET_GUID
  BY <1>1, <1>2, <1>3, <1>4, <1>6, Zenon
<1> QED
  BY <1>5, <1>6

\* The GUIDs that are collected are the targets of the rules.
LEMMA TargetsCollected ==
    ASSUME NEW a, IsArray(a, IsEntry)
    PROVE  TargetGuids(a) \in Seq(Nat) /\ Range(TargetGuids(a)) = Targets(a)
<1>1. WellSized(a) /\ \A i \in 1..Len(a.elems) : IsEntry(a.elems[i])
  BY Zenon DEF IsArray
<1>2. PICK N \in Nat : N = Len(a.elems) /\ DOMAIN a.elems = 1..N
  BY <1>1, ArrayShape, Zenon
<1>3. PICK f : f = [i \in 1..N |-> TargetOf(a.elems[i])]
  BY Zenon
<1>4. \A i \in 1..N : f[i] = TargetOf(a.elems[i]) /\ f[i] \in Seq(Nat)
  BY <1>1, <1>2, <1>3, TargetOfIs, Zenon
<1>5. f \in [1..N -> Seq(Nat)]
  BY <1>3, <1>4, Zenon
<1>6. f \in Seq(Seq(Nat)) /\ Len(f) = N
  BY <1>3, <1>5
<1>7. PICK u : u = Flatten(f) /\ u = TargetGuids(a)
  BY <1>2, <1>3, Zenon DEF TargetGuids, ForEach, TargetOf
<1>8. u \in Seq(Nat)
  BY <1>6, <1>7, FlattenedSeq, Zenon
<1>9. /\ \A i \in 1..N : Range(f[i]) \subseteq Range(u)
      /\ \A x \in Range(u) : \E i \in 1..N : x \in Range(f[i])
  BY <1>6, <1>7, FlattenedSet, Zenon
<1>10. \A i \in 1..N : Range(f[i]) = IF a.elems[i].target_type = RSI_PATH_TARGET_GUID
                                     THEN {a.elems[i].target_guid} ELSE {}
  BY <1>1, <1>2, <1>4, TargetOfIs, Zenon
<1>11. ASSUME NEW x \in Range(u) PROVE x \in Targets(a)
  <2>1. PICK i \in 1..N : x \in Range(f[i])
    BY <1>9, Zenon
  <2>2. a.elems[i].target_type = RSI_PATH_TARGET_GUID /\ x = a.elems[i].target_guid
    BY <1>10, <2>1, Zenon
  <2> QED
    BY <1>2, <2>2, Zenon DEF Targets
<1>12. ASSUME NEW x \in Targets(a) PROVE x \in Range(u)
  <2>1. PICK i \in 1..N : a.elems[i].target_type = RSI_PATH_TARGET_GUID /\ x = a.elems[i].target_guid
    BY <1>2, Zenon DEF Targets
  <2>2. x \in Range(f[i])
    BY <1>10, <2>1, Zenon
  <2> QED
    BY <1>9, <2>2, Zenon
<1> QED
  BY <1>7, <1>8, <1>11, <1>12, Zenon

\* A vector has as many different elements as elements when they all differ.
LEMMA CountDistinct ==
    ASSUME NEW s \in Seq(Nat) PROVE Cardinality(Range(s)) = Len(s) <=> Distinct(s)
<1>1. PICK n \in Nat : n = Len(s) /\ DOMAIN s = 1..n
  OBVIOUS
<1>2. Range(s) = { s[i] : i \in 1..n }
  BY <1>1, Zenon DEF Range
<1>3. s \in [1..n -> Range(s)]
  BY <1>1, <1>2
<1>4. s \in Surjection(1..n, Range(s))
  BY <1>2, <1>3 DEF Surjection
<1>5. IsFiniteSet(1..n) /\ Cardinality(1..n) = n
  BY FS_Interval
<1>6. Cardinality(Range(s)) = n <=> s \in Injection(1..n, Range(s))
  BY <1>4, <1>5, FS_Surjection
<1>7. s \in Injection(1..n, Range(s)) <=> Distinct(s)
  BY <1>1, <1>3 DEF Injection, IsInjective, Distinct
<1> QED
  BY <1>1, <1>6, <1>7

\* What it takes for metadata to cover the keys T.
LEMMA CoversIs ==
    ASSUME NEW a, IsArray(a, IsMetadata), ArrayOk(a), NEW T
    PROVE  ExactlyCovers(a, T) <=> Distinct(Guids(a.elems)) /\ Range(Guids(a.elems)) = T
<1>1. PICK g \in Seq(Nat) : g = Guids(a.elems)
  BY MetadataGuids, Zenon
<1>2. Len(g) = Len(a.elems) /\ Range(g) = { a.elems[i].guid : i \in DOMAIN a.elems }
  BY <1>1, MetadataGuids, Zenon
<1>3. a.count = Len(g)
  BY <1>2, ArrayShape, Zenon DEF IsArray
<1>4. Cardinality(Range(g)) = Len(g) <=> Distinct(g)
  BY CountDistinct, Zenon
<1> QED
  BY <1>1, <1>2, <1>3, <1>4, Zenon DEF ExactlyCovers

\* Entries keep the rules when what is encoded is well-formed and no target is nil.
LEMMA EntryRules ==
    ASSUME NEW a
    PROVE  EachOk(a, EntryOk) <=> EntriesOk(a) /\ NilGuid \notin Targets(a)
<1>1. ASSUME EachOk(a, EntryOk) PROVE EntriesOk(a)
  BY <1>1 DEF EachOk, EntryOk, EntriesOk, TargetOk
<1>2. ASSUME EachOk(a, EntryOk) PROVE NilGuid \notin Targets(a)
  BY <1>2 DEF EachOk, EntryOk, Targets, RSI_PATH_TARGET_GUID, RSI_PATH_TARGET_HIDDEN
<1>3. ASSUME EntriesOk(a), NilGuid \notin Targets(a), NEW i \in DOMAIN a.elems PROVE EntryOk(a.elems[i])
  <2>1. LpfOk(a.elems[i].layer) /\ TargetOk(a.elems[i])
    BY <1>3, Zenon DEF EntriesOk
  <2>2. a.elems[i].target_type = RSI_PATH_TARGET_GUID => a.elems[i].target_guid # NilGuid
    BY <1>3, Zenon DEF Targets
  <2> QED
    BY <2>1, <2>2, Zenon DEF EntryOk, TargetOk
<1>4. ASSUME EntriesOk(a), NilGuid \notin Targets(a) PROVE EachOk(a, EntryOk)
  BY <1>3, <1>4, Zenon DEF EachOk, EntriesOk
<1> QED
  BY <1>1, <1>2, <1>4, Zenon

\* A call's checks pass.
LEMMA PassesIs == ASSUME NEW c, Line(c.steps) PROVE Passes(c) <=> Pass(c.steps)
<1>1. PICK s : s = c.steps
  OBVIOUS
<1>2. s \in Seq(Range(s))
  BY <1>1 DEF Line, IsSeq
<1>3. /\ \A i \in 1..Len(s) : s[i] \in Range(s)
      /\ \A x \in Range(s) : \E i \in 1..Len(s) : x = s[i]
  BY <1>2, ElementOf, Zenon
<1>4. Passes(c) <=> \A i \in 1..Len(s) : s[i].kind = "require" => s[i].ok
  BY <1>1, Zenon DEF Passes
<1>5. Pass(s) <=> \A i \in 1..Len(s) : s[i].kind = "require" => s[i].ok
  BY <1>3 DEF Pass
<1> QED
  BY <1>1, <1>4, <1>5, Zenon
-----------------------------------------------------------------------------
(* The helpers *)

\* The validation of rsi_respond_lookup.
LEMMA LookupValidation ==
    ASSUME NEW a, NEW b, IsArray(a, IsEntry), IsArray(b, IsMetadata)
    PROVE  /\ Only(validate_lookup_metadata(a, b))
           /\ Pass(validate_lookup_metadata(a, b)) <=>
                 /\ ArrayOk(a) /\ \A i \in DOMAIN a.elems : TargetOk(a.elems[i])
                 /\ ArrayOk(b) /\ NilGuid \notin Targets(a) /\ ExactlyCovers(b, Targets(a))
<1>1. PICK t \in Seq(Nat) : t = TargetGuids(a) /\ Range(t) = Targets(a)
  BY TargetsCollected, Zenon
<1>2. PICK g \in Seq(Nat) : g = Guids(b.elems)
  BY MetadataGuids, Zenon
<1>3. PICK p : p = CollectTargets(a)
  OBVIOUS
<1>4. Only(p) /\ (Pass(p) <=> ArrayOk(a) /\ \A i \in DOMAIN a.elems : TargetOk(a.elems[i]))
  BY <1>3, CollectCheck, Zenon
<1>5. PICK q : q = metadata_guid_set(b) /\ Only(q) /\ (Pass(q) <=> ArrayOk(b) /\ Names(g))
  BY <1>2, GuidSetCheck, Zenon
<1>6. PICK r : r = Check(Sorted(g) = sort_dedup_guids(t))
  OBVIOUS
<1>7. Only(r) /\ (Names(g) => (Pass(r) <=> Range(g) = Targets(a)))
  BY <1>1, <1>6, SameCheck, Zenon
<1>8. PICK u : u = validate_lookup_metadata(a, b) /\ u = p \o q \o r
  BY <1>1, <1>2, <1>3, <1>5, <1>6, Zenon DEF validate_lookup_metadata
<1>9. Joins3(u, p, q, r)
  BY <1>4, <1>5, <1>7, <1>8, Join3, Zenon DEF Only
<1>10. Encoded(u) = 0
  <2>1. Encoded(u) = 0 + 0 + 0
    BY <1>4, <1>5, <1>7, <1>9, Zenon DEF Joins3, Only
  <2> QED
    BY <2>1
<1>11. ArrayOk(b) => (ExactlyCovers(b, Targets(a)) <=> Distinct(g) /\ Range(g) = Targets(a))
  BY <1>2, CoversIs, Zenon
<1>12. Pass(u) <=> Pass(p) /\ ArrayOk(b) /\ Distinct(g) /\ NilGuid \notin Range(g) /\ Range(g) = Targets(a)
  BY <1>5, <1>7, <1>9, Zenon DEF Joins3, Names
<1>13. Pass(u) <=> Pass(p) /\ ArrayOk(b) /\ NilGuid \notin Targets(a) /\ ExactlyCovers(b, Targets(a))
  BY <1>11, <1>12, Zenon
<1> QED
  BY <1>4, <1>8, <1>9, <1>10, <1>13, Zenon DEF Joins3, Only

\* The rules for rsi_respond_lookup.
LEMMA LookupRules ==
    ASSUME NEW a
    PROVE  ArgsOk("rsi_respond_lookup", a) <=>
              /\ EachOk(a.entries, EntryOk) /\ EachOk(a.metadata, MetadataOk)
              /\ ExactlyCovers(a.metadata, Targets(a.entries))
BY DEF ArgsOk

\* The length of its payload.
LEMMA LookupSize ==
    ASSUME NEW a
    PROVE  PayloadSize("rsi_respond_lookup", a) = Total(a.entries, EntrySize) + Total(a.metadata, MetadataSize)
BY Zenon DEF PayloadSize

\* What its call holds.
LEMMA LookupCall ==
    ASSUME NEW req, NEW a, NEW b, NEW c, Makes(c, rsi_respond_lookup(req, a, b))
    PROVE  /\ c.helper = "rsi_respond_lookup" /\ c.req = req /\ c.args.entries = a /\ c.args.metadata = b
           /\ c.steps = LookupSteps(req, a, b)
BY Zenon DEF Makes, rsi_respond_lookup, LookupSteps

\* Its checks decide the rules, and its fields have that length.
LEMMA LookupDecides ==
    ASSUME NEW req, NEW a, NEW b, IsArray(a, IsEntry), IsArray(b, IsMetadata),
           NEW c, Makes(c, rsi_respond_lookup(req, a, b))
    PROVE  Decides(c)
<1>1. /\ c.helper = "rsi_respond_lookup" /\ c.req = req /\ c.args.entries = a /\ c.args.metadata = b
      /\ c.steps = LookupSteps(req, a, b)
  BY LookupCall
<1>3. PICK p : /\ p = require_response_req(req, "LOOKUP") /\ Only(p)
               /\ Pass(p) <=> (req # NULL /\ OpOf(req) = "LOOKUP")
  BY RequestCheck, Zenon
<1>4. PICK q : q = validate_lookup_metadata(a, b)
  OBVIOUS
<1>5. /\ Only(q)
      /\ Pass(q) <=> /\ ArrayOk(a) /\ \A i \in DOMAIN a.elems : TargetOk(a.elems[i])
                     /\ ArrayOk(b) /\ NilGuid \notin Targets(a) /\ ExactlyCovers(b, Targets(a))
  BY <1>4, LookupValidation, Zenon
<1>6. PICK w : w = new_writer /\ Plain(w, 18)
  BY Fields, Zenon
<1>7. PICK x : x = encode_path_entry_block(a)
  OBVIOUS
<1>8. Sized(x, Total(a, EntrySize)) /\ (Pass(x) <=> EntriesOk(a))
  BY <1>7, EntryBlock, Zenon DEF EntriesOk
<1>9. PICK y : y = encode_metadata_block(b)
  OBVIOUS
<1>10. Sized(y, Total(b, MetadataSize)) /\ (Pass(y) <=> EachOk(b, MetadataOk))
  BY <1>9, MetadataBlock, Zenon DEF EachOk
<1>11. PICK u : u = c.steps /\ u = p \o q \o w \o x \o y
  BY <1>1, <1>3, <1>4, <1>6, <1>7, <1>9, Zenon DEF LookupSteps
<1>12. Joins5(u, p, q, w, x, y)
  BY <1>3, <1>5, <1>6, <1>8, <1>10, <1>11, Join5, Zenon DEF Only, Sized, Plain
<1>13. Pass(u) <=> /\ req # NULL /\ OpOf(req) = "LOOKUP"
                   /\ EachOk(a, EntryOk) /\ EachOk(b, MetadataOk) /\ ExactlyCovers(b, Targets(a))
  <2>1. Pass(u) <=> Pass(p) /\ Pass(q) /\ EntriesOk(a) /\ EachOk(b, MetadataOk)
    BY <1>6, <1>8, <1>10, <1>12, Zenon DEF Joins5, Plain
  <2>2. EachOk(a, EntryOk) <=> EntriesOk(a) /\ NilGuid \notin Targets(a)
    BY EntryRules, Zenon
  <2>3. /\ EntriesOk(a) => ArrayOk(a) /\ \A i \in DOMAIN a.elems : TargetOk(a.elems[i])
        /\ EachOk(b, MetadataOk) => ArrayOk(b)
    BY Zenon DEF EntriesOk, EachOk
  <2> QED
    BY <1>3, <1>5, <2>1, <2>2, <2>3, Zenon
<1>14. Encoded(u) = FrameSize(c)
  <2>1. Encoded(u) = 0 + 0 + 18 + Total(a, EntrySize) + Total(b, MetadataSize)
    BY <1>3, <1>5, <1>6, <1>8, <1>10, <1>12, Zenon DEF Joins5, Only, Sized, Plain
  <2>2. FrameSize(c) = 18 + (Total(a, EntrySize) + Total(b, MetadataSize))
    BY <1>1, LookupSize, Zenon DEF FrameSize, STATUS_FRAME_LEN
  <2>3. Total(a, EntrySize) \in Nat /\ Total(b, MetadataSize) \in Nat
    BY <1>8, <1>10, SizesAre, Zenon DEF Sized
  <2> QED
    BY <2>1, <2>2, <2>3
<1>15. Passes(c) <=> Pass(u)
  BY <1>11, <1>12, PassesIs, Zenon DEF Joins5
<1>16. Valid(c) <=> req # NULL /\ req.op_code = "LOOKUP" /\ ArgsOk("rsi_respond_lookup", c.args)
  BY <1>1 DEF Valid, HelperOp
<1>17. ArgsOk("rsi_respond_lookup", c.args) <=>
          EachOk(a, EntryOk) /\ EachOk(b, MetadataOk) /\ ExactlyCovers(b, Targets(a))
  BY <1>1, LookupRules, Zenon
<1>18. req # NULL => (OpOf(req) = "LOOKUP" <=> req.op_code = "LOOKUP")
  BY Zenon DEF OpOf
<1>19. Valid(c) <=> Passes(c)
  BY <1>13, <1>15, <1>16, <1>17, <1>18, Zenon
<1>20. Valid(c) => req.op_code \in OpCodes
  BY <1>16 DEF OpCodes
<1>21. c.helper # "rsi_respond_status"
  BY <1>1
<1> QED
  BY <1>1, <1>11, <1>14, <1>19, <1>20, <1>21, Zenon DEF Decides

\* The keys that the path entries of children refer to.
ChildTargets(a) == UNION { Targets(a.elems[i].entries) : i \in DOMAIN a.elems }

\* The vector of all children's targets holds the GUIDs that the rules name.
LEMMA ChildTargetsCollected ==
    ASSUME NEW a, IsArray(a, IsChild)
    PROVE  ChildTargetGuids(a) \in Seq(Nat) /\ Range(ChildTargetGuids(a)) = ChildTargets(a)
<1>1. WellSized(a) /\ \A i \in 1..Len(a.elems) : IsChild(a.elems[i])
  BY Zenon DEF IsArray
<1>2. PICK N \in Nat : N = Len(a.elems) /\ DOMAIN a.elems = 1..N
  BY <1>1, ArrayShape, Zenon
<1>3. PICK f : f = [i \in 1..N |-> TargetGuids(a.elems[i].entries)]
  BY Zenon
<1>4. \A i \in 1..N : f[i] \in Seq(Nat) /\ Range(f[i]) = Targets(a.elems[i].entries)
  BY <1>1, <1>2, <1>3, TargetsCollected, Zenon DEF IsChild
<1>5. f \in [1..N -> Seq(Nat)]
  BY <1>3, <1>4, Zenon
<1>6. f \in Seq(Seq(Nat)) /\ Len(f) = N
  BY <1>5
<1>7. PICK u : u = Flatten(f) /\ u = ChildTargetGuids(a)
  BY <1>2, <1>3, Zenon DEF ChildTargetGuids, ForEach
<1>8. u \in Seq(Nat)
  BY <1>6, <1>7, FlattenedSeq, Zenon
<1>9. /\ \A i \in 1..N : Range(f[i]) \subseteq Range(u)
      /\ \A x \in Range(u) : \E i \in 1..N : x \in Range(f[i])
  BY <1>6, <1>7, FlattenedSet, Zenon
<1>10. Range(u) = ChildTargets(a)
  <2>1. ASSUME NEW x \in Range(u) PROVE x \in ChildTargets(a)
    <3>1. PICK i \in DOMAIN a.elems : x \in Targets(a.elems[i].entries)
      BY <1>2, <1>4, <1>9, Zenon
    <3> QED
      BY <3>1, Zenon DEF ChildTargets
  <2>2. ASSUME NEW x \in ChildTargets(a) PROVE x \in Range(u)
    <3>1. PICK i \in DOMAIN a.elems : x \in Targets(a.elems[i].entries)
      BY Zenon DEF ChildTargets
    <3> QED
      BY <1>2, <1>4, <1>9, <3>1, Zenon
  <2> QED
    BY <2>1, <2>2, Zenon
<1> QED
  BY <1>7, <1>8, <1>10, Zenon

\* The checks of a child's path entries.
LEMMA EachCollect ==
    ASSUME NEW a, IsArray(a, IsChild),
           NEW r, r = Flatten([i \in DOMAIN a.elems |-> CollectTargets(a.elems[i].entries)])
    PROVE  Only(r) /\ ((\A i \in DOMAIN a.elems : EntriesOk(a.elems[i].entries)) => Pass(r))
<1>1. WellSized(a) /\ \A i \in 1..Len(a.elems) : IsChild(a.elems[i])
  BY Zenon DEF IsArray
<1>2. DOMAIN a.elems = 1..Len(a.elems)
  BY <1>1, ArrayShape, Zenon
<1>3. PICK f : f = [i \in DOMAIN a.elems |-> CollectTargets(a.elems[i].entries)]
  OBVIOUS
<1>4. ASSUME NEW i \in DOMAIN a.elems PROVE Only(f[i]) /\ (EntriesOk(a.elems[i].entries) => Pass(f[i]))
  <2>1. PICK e : e = a.elems[i].entries /\ IsArray(e, IsEntry)
    BY <1>1, <1>2, Zenon DEF IsChild
  <2>2. f[i] = CollectTargets(e)
    BY <1>3, <2>1, Zenon
  <2> QED
    BY <2>1, <2>2, CollectCheck, Zenon DEF EntriesOk
<1>5. f = [i \in DOMAIN a.elems |-> f[i]] /\ \A i \in 1..Len(a.elems) : Only(f[i])
  BY <1>2, <1>3, <1>4, Zenon
<1>6. Only(r) /\ (Pass(r) <=> \A i \in DOMAIN a.elems : Pass(f[i]))
  BY <1>1, <1>3, <1>5, EachOnly, Zenon
<1> QED
  BY <1>4, <1>6, Zenon

\* The validation of rsi_respond_enum_children.
LEMMA EnumValidation ==
    ASSUME NEW a, NEW b, IsArray(a, IsChild), IsArray(b, IsMetadata)
    PROVE  /\ Only(validate_enum_children_metadata(a, b))
           /\ Pass(validate_enum_children_metadata(a, b)) =>
                 /\ ArrayOk(a) /\ ArrayOk(b) /\ NilGuid \notin ChildTargets(a)
                 /\ ExactlyCovers(b, ChildTargets(a))
           /\ /\ ArrayOk(a) /\ \A i \in DOMAIN a.elems : EntriesOk(a.elems[i].entries)
              /\ ArrayOk(b) /\ NilGuid \notin ChildTargets(a) /\ ExactlyCovers(b, ChildTargets(a))
              => Pass(validate_enum_children_metadata(a, b))
<1>1. PICK t \in Seq(Nat) : t = ChildTargetGuids(a) /\ Range(t) = ChildTargets(a)
  BY ChildTargetsCollected, Zenon
<1>2. PICK g \in Seq(Nat) : g = Guids(b.elems)
  BY MetadataGuids, Zenon
<1>3. PICK o : o = require_array(a) /\ Only(o) /\ (Pass(o) <=> ArrayOk(a))
  <2>1. WellSized(a)
    BY Zenon DEF IsArray
  <2> QED
    BY <2>1, ArrayCheck, Zenon DEF Only
<1>4. PICK p : p = Flatten([i \in DOMAIN a.elems |-> CollectTargets(a.elems[i].entries)])
  BY Zenon
<1>5. Only(p) /\ ((\A i \in DOMAIN a.elems : EntriesOk(a.elems[i].entries)) => Pass(p))
  BY <1>4, EachCollect, Zenon
<1>6. PICK q : q = metadata_guid_set(b) /\ Only(q) /\ (Pass(q) <=> ArrayOk(b) /\ Names(g))
  BY <1>2, GuidSetCheck, Zenon
<1>7. PICK r : r = Check(Sorted(g) = sort_dedup_guids(t))
  OBVIOUS
<1>8. Only(r) /\ (Names(g) => (Pass(r) <=> Range(g) = ChildTargets(a)))
  BY <1>1, <1>7, SameCheck, Zenon
<1>9. PICK u : u = validate_enum_children_metadata(a, b) /\ u = o \o p \o q \o r
  BY <1>1, <1>2, <1>3, <1>4, <1>6, <1>7, Zenon DEF validate_enum_children_metadata, ForEach
<1>10. Joins4(u, o, p, q, r)
  BY <1>3, <1>5, <1>6, <1>8, <1>9, Join4, Zenon DEF Only
<1>11. Encoded(u) = 0
  <2>1. Encoded(u) = 0 + 0 + 0 + 0
    BY <1>3, <1>5, <1>6, <1>8, <1>10, Zenon DEF Joins4, Only
  <2> QED
    BY <2>1
<1>12. ArrayOk(b) => (ExactlyCovers(b, ChildTargets(a)) <=> Distinct(g) /\ Range(g) = ChildTargets(a))
  BY <1>2, CoversIs, Zenon
<1>13. Pass(u) <=> /\ Pass(o) /\ Pass(p) /\ ArrayOk(b) /\ Distinct(g) /\ NilGuid \notin Range(g)
                   /\ Range(g) = ChildTargets(a)
  BY <1>6, <1>8, <1>10, Zenon DEF Joins4, Names
<1>14. Pass(u) <=> /\ Pass(o) /\ Pass(p) /\ ArrayOk(b) /\ NilGuid \notin ChildTargets(a)
                   /\ ExactlyCovers(b, ChildTargets(a))
  BY <1>12, <1>13, Zenon
<1> QED
  BY <1>3, <1>5, <1>9, <1>10, <1>11, <1>14, Zenon DEF Joins4, Only

ChildOk(c) == LpfOk(c.child_name) /\ EachOk(c.entries, EntryOk)

\* The rules for rsi_respond_enum_children.
LEMMA EnumRules ==
    ASSUME NEW a
    PROVE  ArgsOk("rsi_respond_enum_children", a) <=>
              /\ EachOk(a.children, ChildOk) /\ EachOk(a.metadata, MetadataOk)
              /\ ExactlyCovers(a.metadata, ChildTargets(a.children))
BY DEF ArgsOk, ChildOk, ChildTargets, EachOk

\* Children keep the rules when what is encoded is well-formed and no target is nil.
LEMMA ChildRules ==
    ASSUME NEW a
    PROVE  EachOk(a, ChildOk) <=>
              /\ ArrayOk(a) /\ \A i \in DOMAIN a.elems : LpfOk(a.elems[i].child_name) /\ EntriesOk(a.elems[i].entries)
              /\ NilGuid \notin ChildTargets(a)
<1>1. \A i \in DOMAIN a.elems : EachOk(a.elems[i].entries, EntryOk) <=>
         EntriesOk(a.elems[i].entries) /\ NilGuid \notin Targets(a.elems[i].entries)
  BY EntryRules, Zenon
<1>2. NilGuid \notin ChildTargets(a) <=> \A i \in DOMAIN a.elems : NilGuid \notin Targets(a.elems[i].entries)
  BY DEF ChildTargets
<1>3. EachOk(a, ChildOk) <=>
         ArrayOk(a) /\ \A i \in DOMAIN a.elems : LpfOk(a.elems[i].child_name) /\ EachOk(a.elems[i].entries, EntryOk)
  BY Zenon DEF EachOk, ChildOk
<1> QED
  BY <1>1, <1>2, <1>3, Zenon

\* The length of its payload.
LEMMA EnumSize ==
    ASSUME NEW a
    PROVE  PayloadSize("rsi_respond_enum_children", a) =
              (4 + Sum(Map(a.children, ChildSize))) + Total(a.metadata, MetadataSize)
BY DEF PayloadSize, ChildSize, Total, Map

\* What its call holds.
LEMMA EnumCall ==
    ASSUME NEW req, NEW a, NEW b, NEW c, Makes(c, rsi_respond_enum_children(req, a, b))
    PROVE  /\ c.helper = "rsi_respond_enum_children" /\ c.req = req /\ c.args.children = a /\ c.args.metadata = b
           /\ c.steps = EnumSteps(req, a, b)
BY Zenon DEF Makes, rsi_respond_enum_children, ForEach, ChildSteps, ChildLines, EnumSteps

\* Its checks decide the rules, and its fields have that length.
LEMMA EnumDecides ==
    ASSUME NEW req, NEW a, NEW b, IsArray(a, IsChild), IsArray(b, IsMetadata),
           NEW c, Makes(c, rsi_respond_enum_children(req, a, b))
    PROVE  Decides(c)
<1>1. /\ c.helper = "rsi_respond_enum_children" /\ c.req = req /\ c.args.children = a /\ c.args.metadata = b
      /\ c.steps = EnumSteps(req, a, b)
  BY EnumCall
<1>3. PICK p : /\ p = require_response_req(req, "ENUM_CHILDREN") /\ Only(p)
               /\ Pass(p) <=> (req # NULL /\ OpOf(req) = "ENUM_CHILDREN")
  BY RequestCheck, Zenon
<1>4. PICK q : q = validate_enum_children_metadata(a, b)
  OBVIOUS
<1>5. /\ Only(q)
      /\ Pass(q) => /\ ArrayOk(a) /\ ArrayOk(b) /\ NilGuid \notin ChildTargets(a)
                    /\ ExactlyCovers(b, ChildTargets(a))
      /\ /\ ArrayOk(a) /\ \A i \in DOMAIN a.elems : EntriesOk(a.elems[i].entries)
         /\ ArrayOk(b) /\ NilGuid \notin ChildTargets(a) /\ ExactlyCovers(b, ChildTargets(a))
         => Pass(q)
  BY <1>4, EnumValidation, Zenon
<1>6. PICK w : w = new_writer /\ Plain(w, 18)
  BY Fields, Zenon
<1>7. PICK v : v = u32(a.count) /\ Plain(v, 4)
  BY Fields, Zenon
<1>8. PICK x : x = ChildLines(a)
  OBVIOUS
<1>9. /\ Sized(x, Sum(Map(a, ChildSize)))
      /\ Pass(x) <=> \A i \in DOMAIN a.elems : (LpfOk(a.elems[i].child_name) /\ EntriesOk(a.elems[i].entries))
  BY <1>8, EachChild, Zenon DEF ChildLines
<1>10. PICK y : y = encode_metadata_block(b)
  OBVIOUS
<1>11. Sized(y, Total(b, MetadataSize)) /\ (Pass(y) <=> EachOk(b, MetadataOk))
  BY <1>10, MetadataBlock, Zenon DEF EachOk
<1>12. PICK u : u = c.steps /\ u = p \o q \o w \o v \o x \o y
  BY <1>1, <1>3, <1>4, <1>6, <1>7, <1>8, <1>10, Zenon DEF EnumSteps
<1>13. PICK k : k = p \o q \o w \o v \o x /\ Joins5(k, p, q, w, v, x)
  BY <1>3, <1>5, <1>6, <1>7, <1>9, Join5, Zenon DEF Only, Sized, Plain
<1>14. Joins(u, k, y)
  <2>1. Line(k) /\ Line(y) /\ u = k \o y
    BY <1>11, <1>12, <1>13, Zenon DEF Joins5, Sized
  <2> QED
    BY <2>1, LineConcat, Zenon
<1>15. Pass(u) <=> /\ req # NULL /\ OpOf(req) = "ENUM_CHILDREN"
                   /\ EachOk(a, ChildOk) /\ EachOk(b, MetadataOk) /\ ExactlyCovers(b, ChildTargets(a))
  <2>1. Pass(u) <=> /\ Pass(p) /\ Pass(q) /\ EachOk(b, MetadataOk)
                    /\ \A i \in DOMAIN a.elems : (LpfOk(a.elems[i].child_name) /\ EntriesOk(a.elems[i].entries))
    BY <1>6, <1>7, <1>9, <1>11, <1>13, <1>14, Zenon DEF Joins5, Joins, Plain
  <2>2. EachOk(a, ChildOk) <=>
           /\ ArrayOk(a) /\ \A i \in DOMAIN a.elems : LpfOk(a.elems[i].child_name) /\ EntriesOk(a.elems[i].entries)
           /\ NilGuid \notin ChildTargets(a)
    BY ChildRules, Zenon
  <2>3. EachOk(b, MetadataOk) => ArrayOk(b)
    BY Zenon DEF EachOk
  <2> QED
    BY <1>3, <1>5, <2>1, <2>2, <2>3, Zenon
<1>16. Encoded(u) = FrameSize(c)
  <2>1. Encoded(u) = 0 + 0 + 18 + 4 + Sum(Map(a, ChildSize)) + Total(b, MetadataSize)
    BY <1>3, <1>5, <1>6, <1>7, <1>9, <1>11, <1>13, <1>14, Zenon DEF Joins5, Joins, Only, Sized, Plain
  <2>2. FrameSize(c) = 18 + ((4 + Sum(Map(a, ChildSize))) + Total(b, MetadataSize))
    BY <1>1, EnumSize, Zenon DEF FrameSize, STATUS_FRAME_LEN
  <2>3. Sum(Map(a, ChildSize)) \in Nat /\ Total(b, MetadataSize) \in Nat
    BY <1>9, <1>11, SizesAre, Zenon DEF Sized
  <2> QED
    BY <2>1, <2>2, <2>3
<1>17. Passes(c) <=> Pass(u)
  BY <1>12, <1>14, PassesIs, Zenon DEF Joins
<1>18. Valid(c) <=> req # NULL /\ req.op_code = "ENUM_CHILDREN" /\ ArgsOk("rsi_respond_enum_children", c.args)
  BY <1>1 DEF Valid, HelperOp
<1>19. ArgsOk("rsi_respond_enum_children", c.args) <=>
          EachOk(a, ChildOk) /\ EachOk(b, MetadataOk) /\ ExactlyCovers(b, ChildTargets(a))
  BY <1>1, EnumRules, Zenon
<1>20. req # NULL => (OpOf(req) = "ENUM_CHILDREN" <=> req.op_code = "ENUM_CHILDREN")
  BY Zenon DEF OpOf
<1>21. Valid(c) <=> Passes(c)
  BY <1>15, <1>17, <1>18, <1>19, <1>20, Zenon
<1>22. Valid(c) => req.op_code \in OpCodes
  BY <1>18 DEF OpCodes
<1>23. c.helper # "rsi_respond_status"
  BY <1>1
<1> QED
  BY <1>1, <1>12, <1>16, <1>21, <1>22, <1>23, Zenon DEF Decides

\* The orphans of rsi_respond_delete_layer.
OrphanOk(g) == g # NilGuid

\* The rules for rsi_respond_delete_layer.
LEMMA OrphanRules ==
    ASSUME NEW a
    PROVE  ArgsOk("rsi_respond_delete_layer", a) <=>
              EachOk(a.orphans, OrphanOk) /\ Cardinality(Range(a.orphans.elems)) = a.orphans.count
BY DEF ArgsOk, EachOk, OrphanOk

\* The length of its payload.
LEMMA OrphanSize ==
    ASSUME NEW a PROVE PayloadSize("rsi_respond_delete_layer", a) = 4 + 16 * a.orphans.count
BY Zenon DEF PayloadSize

\* orphaned_guid_bytes passes when the orphans are all different and none is nil.
LEMMA OrphanCheck ==
    ASSUME NEW a, IsArray(a, IsGuid)
    PROVE  /\ Only(orphaned_guid_bytes(a))
           /\ Pass(orphaned_guid_bytes(a)) <=>
                 EachOk(a, OrphanOk) /\ Cardinality(Range(a.elems)) = a.count
<1>1. WellSized(a) /\ \A i \in 1..Len(a.elems) : a.elems[i] \in Nat
  BY Zenon DEF IsArray, IsGuid
<1>2. PICK N \in Nat : N = Len(a.elems) /\ DOMAIN a.elems = 1..N
  BY <1>1, ArrayShape, Zenon
<1>3. PICK s : s = a.elems
  OBVIOUS
<1>4. s \in Seq(Nat)
  <2>1. IsSeq(s)
    BY <1>1, <1>3 DEF WellSized, IsSeq
  <2>2. s \in Seq(Range(s)) /\ DOMAIN s = 1..N /\ Len(s) = N /\ \A i \in 1..N : s[i] \in Nat
    BY <1>1, <1>2, <1>3, <2>1, Zenon DEF IsSeq
  <2> QED
    BY <2>2
<1>5. Cardinality(Range(s)) = Len(s) <=> Distinct(s)
  BY <1>4, CountDistinct, Zenon
<1>6. (\A i \in DOMAIN s : OrphanOk(s[i])) <=> NilGuid \notin Range(s)
  BY DEF OrphanOk, Range
<1>7. a.count \in Nat /\ (ArrayOk(a) => a.count = Len(s))
  BY <1>1, <1>3, ArrayShape, Zenon
<1>8. CASE a.count = 0
  <2>1. s = <<>>
    <3>1. Len(s) = 0
      BY <1>1, <1>3, <1>8 DEF WellSized
    <3> QED
      BY <1>4, <3>1
  <2>2. Range(s) = {} /\ ArrayOk(a)
    BY <1>8, <2>1, NoSteps DEF ArrayOk
  <2>3. Cardinality(Range(s)) = 0
    BY <2>2, FS_EmptySet
  <2>4. EachOk(a, OrphanOk)
    BY <1>3, <1>6, <2>2 DEF EachOk
  <2>5. orphaned_guid_bytes(a) = <<>>
    BY <1>8, Zenon DEF orphaned_guid_bytes
  <2>6. Only(<<>>) /\ Pass(<<>>)
    BY NoSteps, Zenon DEF Only
  <2> QED
    BY <1>3, <1>8, <2>3, <2>4, <2>5, <2>6
<1>9. CASE a.count # 0
  <2>1. PICK p : p = Check(~a.null) /\ Only(p) /\ (Pass(p) <=> ~a.null)
    BY <1>1, CheckStep, Zenon DEF Only, WellSized
  <2>2. Pass(p) <=> ArrayOk(a)
    BY <1>9, <2>1 DEF ArrayOk
  <2>3. PICK x : x = [kind |-> "collect", cap |-> a.count, n |-> Len(a.elems)]
    BY Zenon
  <2>4. x.kind # "emit" /\ x.kind # "require"
    BY <2>3
  <2>5. Only(<<x>>) /\ Pass(<<x>>)
    BY <2>4, OneStep DEF Only
  <2>6. PICK v : v = validate_unique_nonzero_guids(s) /\ Only(v) /\ (Pass(v) <=> Names(s))
    BY <1>4, UniqueCheck, Zenon
  <2>7. orphaned_guid_bytes(a) = p \o <<x>> \o v
    BY <1>3, <1>9, <2>1, <2>3, <2>6, Zenon DEF orphaned_guid_bytes
  <2>8. Joins3(p \o <<x>> \o v, p, <<x>>, v)
    BY <2>1, <2>5, <2>6, Join3, Zenon DEF Only
  <2>9. Encoded(p \o <<x>> \o v) = 0
    <3>1. Encoded(p \o <<x>> \o v) = 0 + 0 + 0
      BY <2>1, <2>5, <2>6, <2>8, Zenon DEF Joins3, Only
    <3> QED
      BY <3>1
  <2>10. Pass(p \o <<x>> \o v) <=> ArrayOk(a) /\ Distinct(s) /\ NilGuid \notin Range(s)
    BY <2>2, <2>5, <2>6, <2>8, Zenon DEF Joins3, Names
  <2>11. EachOk(a, OrphanOk) /\ Cardinality(Range(s)) = a.count <=>
            ArrayOk(a) /\ Distinct(s) /\ NilGuid \notin Range(s)
    BY <1>3, <1>5, <1>6, <1>7, Zenon DEF EachOk
  <2> QED
    BY <1>3, <2>7, <2>8, <2>9, <2>10, <2>11, Zenon DEF Joins3, Only
<1> QED
  BY <1>8, <1>9, Zenon

\* What its call holds.
LEMMA DeleteLayerCall ==
    ASSUME NEW req, NEW a, NEW c, Makes(c, rsi_respond_delete_layer(req, a))
    PROVE  /\ c.helper = "rsi_respond_delete_layer" /\ c.req = req /\ c.args.orphans = a
           /\ c.steps = DeleteLayerSteps(req, a)
BY Zenon DEF Makes, rsi_respond_delete_layer, DeleteLayerSteps

\* Its checks decide the rules, and its fields have that length.
LEMMA DeleteLayerDecides ==
    ASSUME NEW req, NEW a, IsArray(a, IsGuid), NEW c, Makes(c, rsi_respond_delete_layer(req, a))
    PROVE  Decides(c)
<1>1. /\ c.helper = "rsi_respond_delete_layer" /\ c.req = req /\ c.args.orphans = a
      /\ c.steps = DeleteLayerSteps(req, a)
  BY DeleteLayerCall
<1>2. a.count \in Nat
  BY DEF IsArray, WellSized
<1>3. PICK p : /\ p = require_response_req(req, "DELETE_LAYER") /\ Only(p)
               /\ Pass(p) <=> (req # NULL /\ OpOf(req) = "DELETE_LAYER")
  BY RequestCheck, Zenon
<1>4. PICK q : q = orphaned_guid_bytes(a)
  OBVIOUS
<1>5. Only(q) /\ (Pass(q) <=> EachOk(a, OrphanOk) /\ Cardinality(Range(a.elems)) = a.count)
  BY <1>4, OrphanCheck, Zenon
<1>6. PICK w : w = new_writer /\ Plain(w, 18)
  BY Fields, Zenon
<1>7. PICK v : v = u32(a.count) /\ Plain(v, 4)
  BY Fields, Zenon
<1>8. PICK n \in Nat : n = 16 * a.count
  BY <1>2
<1>9. PICK x : x = Emit(a.elems, 16 * a.count) /\ Plain(x, n)
  BY <1>8, Fields, Zenon
<1>10. PICK u : u = c.steps /\ u = p \o q \o w \o v \o x
  BY <1>1, <1>3, <1>4, <1>6, <1>7, <1>9, Zenon DEF DeleteLayerSteps
<1>11. Joins5(u, p, q, w, v, x)
  BY <1>3, <1>5, <1>6, <1>7, <1>9, <1>10, Join5, Zenon DEF Only, Plain
<1>12. Pass(u) <=> /\ req # NULL /\ OpOf(req) = "DELETE_LAYER"
                   /\ EachOk(a, OrphanOk) /\ Cardinality(Range(a.elems)) = a.count
  BY <1>3, <1>5, <1>6, <1>7, <1>9, <1>11, Zenon DEF Joins5, Plain
<1>13. Encoded(u) = FrameSize(c)
  <2>1. Encoded(u) = 0 + 0 + 18 + 4 + n
    BY <1>3, <1>5, <1>6, <1>7, <1>9, <1>11, Zenon DEF Joins5, Only, Plain
  <2>2. FrameSize(c) = 18 + (4 + n)
    BY <1>1, <1>8, OrphanSize, Zenon DEF FrameSize, STATUS_FRAME_LEN
  <2> QED
    BY <2>1, <2>2
<1>14. Passes(c) <=> Pass(u)
  BY <1>10, <1>11, PassesIs, Zenon DEF Joins5
<1>15. Valid(c) <=> req # NULL /\ req.op_code = "DELETE_LAYER" /\ ArgsOk("rsi_respond_delete_layer", c.args)
  BY <1>1 DEF Valid, HelperOp
<1>16. ArgsOk("rsi_respond_delete_layer", c.args) <=>
          EachOk(a, OrphanOk) /\ Cardinality(Range(a.elems)) = a.count
  BY <1>1, OrphanRules, Zenon
<1>17. req # NULL => (OpOf(req) = "DELETE_LAYER" <=> req.op_code = "DELETE_LAYER")
  BY Zenon DEF OpOf
<1>18. Valid(c) <=> Passes(c)
  BY <1>12, <1>14, <1>15, <1>16, <1>17, Zenon
<1>19. Valid(c) => req.op_code \in OpCodes
  BY <1>15 DEF OpCodes
<1>20. c.helper # "rsi_respond_status"
  BY <1>1
<1> QED
  BY <1>1, <1>10, <1>13, <1>18, <1>19, <1>20, Zenon DEF Decides

\* The rules for rsi_respond_read_key.
LEMMA ReadKeyRules ==
    ASSUME NEW a
    PROVE  ArgsOk("rsi_respond_read_key", a) <=>
              /\ a.parent_guid # NULL /\ LpfOk(a.name) /\ LpfOk(a.sd)
              /\ BoolOk(a.volatile_key) /\ BoolOk(a.symlink)
BY DEF ArgsOk

\* The length of its payload.
LEMMA ReadKeySize ==
    ASSUME NEW a
    PROVE  PayloadSize("rsi_respond_read_key", a) = 4 + a.name.len + 16 + 4 + a.sd.len + 1 + 1 + 8
BY Zenon DEF PayloadSize

\* What its call holds.
LEMMA ReadKeyCall ==
    ASSUME NEW req, NEW name, NEW parent, NEW sd, NEW vol, NEW sym, NEW lwt,
           NEW c, Makes(c, rsi_respond_read_key(req, name, parent, sd, vol, sym, lwt))
    PROVE  /\ c.helper = "rsi_respond_read_key" /\ c.req = req
           /\ c.args.name = name /\ c.args.parent_guid = parent /\ c.args.sd = sd
           /\ c.args.volatile_key = vol /\ c.args.symlink = sym /\ c.args.last_write_time = lwt
           /\ c.steps = ReadKeySteps(req, name, parent, sd, vol, sym, lwt)
BY Zenon DEF Makes, rsi_respond_read_key, ReadKeySteps

\* Its checks, the last of which come after fields, decide the rules.
LEMMA ReadKeyDecides ==
    ASSUME NEW req, NEW name, NEW parent, NEW sd, NEW vol, NEW sym, NEW lwt, IsField(name), IsField(sd),
           NEW c, Makes(c, rsi_respond_read_key(req, name, parent, sd, vol, sym, lwt))
    PROVE  Decides(c)
<1>1. /\ c.helper = "rsi_respond_read_key" /\ c.req = req
      /\ c.args.name = name /\ c.args.parent_guid = parent /\ c.args.sd = sd
      /\ c.args.volatile_key = vol /\ c.args.symlink = sym
      /\ c.steps = ReadKeySteps(req, name, parent, sd, vol, sym, lwt)
  BY ReadKeyCall
<1>2. name.len \in Nat /\ sd.len \in Nat
  BY DEF IsField
<1>3. PICK p : /\ p = require_response_req(req, "READ_KEY") /\ Only(p)
               /\ Pass(p) <=> (req # NULL /\ OpOf(req) = "READ_KEY")
  BY RequestCheck, Zenon
<1>4. PICK q : q = Check(parent # NULL) /\ Only(q) /\ (Pass(q) <=> parent # NULL)
  BY CheckStep, Zenon DEF Only
<1>5. PICK w : w = new_writer /\ Plain(w, 18)
  BY Fields, Zenon
<1>6. PICK n : n = lpf(name) /\ Sized(n, 4 + name.len) /\ (Pass(n) <=> LpfOk(name))
  BY FieldLine, Zenon
<1>7. PICK g : g = Emit(parent, 16) /\ Plain(g, 16)
  <2>1. 16 \in Nat
    OBVIOUS
  <2> QED
    BY <2>1, Fields, Zenon
<1>8. PICK s : s = lpf(sd) /\ Sized(s, 4 + sd.len) /\ (Pass(s) <=> LpfOk(sd))
  BY FieldLine, Zenon
<1>9. PICK d : d = require_bool(vol) /\ Only(d) /\ (Pass(d) <=> BoolOk(vol))
  BY BoolCheck, Zenon
<1>10. PICK e : e = require_bool(sym) /\ Only(e) /\ (Pass(e) <=> BoolOk(sym))
  BY BoolCheck, Zenon
<1>11. PICK x : x = u8(vol) /\ Plain(x, 1)
  BY Fields, Zenon
<1>12. PICK y : y = u8(sym) /\ Plain(y, 1)
  BY Fields, Zenon
<1>13. PICK z : z = u64(lwt) /\ Plain(z, 8)
  BY Fields, Zenon
<1>14. PICK u : u = c.steps /\ u = p \o q \o w \o n \o g \o s \o d \o e \o x \o y \o z
  BY <1>1, <1>3, <1>4, <1>5, <1>6, <1>7, <1>8, <1>9, <1>10, <1>11, <1>12, <1>13, Zenon DEF ReadKeySteps
<1>15. PICK k : k = p \o q \o w \o n \o g /\ Joins5(k, p, q, w, n, g)
  BY <1>3, <1>4, <1>5, <1>6, <1>7, Join5, Zenon DEF Only, Sized, Plain
<1>16. PICK l : l = k \o s \o d \o e /\ Joins4(l, k, s, d, e)
  <2>1. Line(k) /\ Line(s) /\ Line(d) /\ Line(e)
    BY <1>8, <1>9, <1>10, <1>15, Zenon DEF Joins5, Only, Sized
  <2> QED
    BY <2>1, Join4, Zenon
<1>17. Joins4(u, l, x, y, z)
  <2>1. Line(l) /\ Line(x) /\ Line(y) /\ Line(z)
    BY <1>11, <1>12, <1>13, <1>16, Zenon DEF Joins4, Plain
  <2>2. u = l \o x \o y \o z
    BY <1>14, <1>15, <1>16, Zenon
  <2> QED
    BY <2>1, <2>2, Join4, Zenon
<1>18. Pass(u) <=> /\ req # NULL /\ OpOf(req) = "READ_KEY" /\ parent # NULL
                   /\ LpfOk(name) /\ LpfOk(sd) /\ BoolOk(vol) /\ BoolOk(sym)
  <2>1. Pass(k) <=> /\ req # NULL /\ OpOf(req) = "READ_KEY" /\ parent # NULL /\ LpfOk(name)
    BY <1>3, <1>4, <1>5, <1>6, <1>7, <1>15, Zenon DEF Joins5, Plain
  <2>2. Pass(l) <=> Pass(k) /\ LpfOk(sd) /\ BoolOk(vol) /\ BoolOk(sym)
    BY <1>8, <1>9, <1>10, <1>16, Zenon DEF Joins4
  <2>3. Pass(u) <=> Pass(l)
    BY <1>11, <1>12, <1>13, <1>17, Zenon DEF Joins4, Plain
  <2> QED
    BY <2>1, <2>2, <2>3, Zenon
<1>19. Encoded(u) = FrameSize(c)
  <2>1. Encoded(k) = 0 + 0 + 18 + (4 + name.len) + 16
    BY <1>3, <1>4, <1>5, <1>6, <1>7, <1>15, Zenon DEF Joins5, Only, Sized, Plain
  <2>2. Encoded(l) = Encoded(k) + (4 + sd.len) + 0 + 0
    BY <1>8, <1>9, <1>10, <1>16, Zenon DEF Joins4, Only, Sized
  <2>3. Encoded(u) = Encoded(l) + 1 + 1 + 8
    BY <1>11, <1>12, <1>13, <1>17, Zenon DEF Joins4, Plain
  <2>4. FrameSize(c) = 18 + (4 + name.len + 16 + 4 + sd.len + 1 + 1 + 8)
    BY <1>1, ReadKeySize, Zenon DEF FrameSize, STATUS_FRAME_LEN
  <2> QED
    BY <1>2, <2>1, <2>2, <2>3, <2>4
<1>20. Passes(c) <=> Pass(u)
  BY <1>14, <1>17, PassesIs, Zenon DEF Joins4
<1>21. Valid(c) <=> req # NULL /\ req.op_code = "READ_KEY" /\ ArgsOk("rsi_respond_read_key", c.args)
  BY <1>1 DEF Valid, HelperOp
<1>22. ArgsOk("rsi_respond_read_key", c.args) <=>
          parent # NULL /\ LpfOk(name) /\ LpfOk(sd) /\ BoolOk(vol) /\ BoolOk(sym)
  BY <1>1, ReadKeyRules, Zenon
<1>23. req # NULL => (OpOf(req) = "READ_KEY" <=> req.op_code = "READ_KEY")
  BY Zenon DEF OpOf
<1>24. Valid(c) <=> Passes(c)
  BY <1>18, <1>20, <1>21, <1>22, <1>23, Zenon
<1>25. Valid(c) => req.op_code \in OpCodes
  BY <1>21 DEF OpCodes
<1>26. c.helper # "rsi_respond_status"
  BY <1>1
<1> QED
  BY <1>1, <1>14, <1>19, <1>24, <1>25, <1>26, Zenon DEF Decides

BlanketOk(b) == LpfOk(b.layer_name)


\* The rules for rsi_respond_query_values.
LEMMA QueryRules ==
    ASSUME NEW a
    PROVE  ArgsOk("rsi_respond_query_values", a) <=> EachOk(a.entries, ValueOk) /\ EachOk(a.blankets, BlanketOk)
BY DEF ArgsOk, EachOk, ValueOk, BlanketOk

\* The length of its payload.
LEMMA QuerySize ==
    ASSUME NEW a
    PROVE  PayloadSize("rsi_respond_query_values", a) =
              (4 + Sum(Map(a.entries, ValueSize))) + (4 + Sum(Map(a.blankets, BlanketSize)))
BY DEF PayloadSize, Total, Map, ValueSize, BlanketSize

\* What its call holds.
LEMMA QueryCall ==
    ASSUME NEW req, NEW a, NEW b, NEW c, Makes(c, rsi_respond_query_values(req, a, b))
    PROVE  /\ c.helper = "rsi_respond_query_values" /\ c.req = req /\ c.args.entries = a /\ c.args.blankets = b
           /\ c.steps = QuerySteps(req, a, b)
BY Zenon DEF Makes, rsi_respond_query_values, ForEach, ValueLines, BlanketLines, ValueSteps, BlanketSteps, QuerySteps

\* Its checks decide the rules, and its fields have that length.
LEMMA QueryDecides ==
    ASSUME NEW req, NEW a, NEW b, IsArray(a, IsValue), IsArray(b, IsBlanket),
           NEW c, Makes(c, rsi_respond_query_values(req, a, b))
    PROVE  Decides(c)
<1>1. /\ c.helper = "rsi_respond_query_values" /\ c.req = req /\ c.args.entries = a /\ c.args.blankets = b
      /\ c.steps = QuerySteps(req, a, b)
  BY QueryCall
<1>2. WellSized(a) /\ WellSized(b)
  BY Zenon DEF IsArray
<1>3. PICK p : /\ p = require_response_req(req, "QUERY_VALUES") /\ Only(p)
               /\ Pass(p) <=> (req # NULL /\ OpOf(req) = "QUERY_VALUES")
  BY RequestCheck, Zenon
<1>4. PICK q : q = require_array(a) /\ Only(q) /\ (Pass(q) <=> ArrayOk(a))
  BY <1>2, ArrayCheck, Zenon DEF Only
<1>5. PICK r : r = require_array(b) /\ Only(r) /\ (Pass(r) <=> ArrayOk(b))
  BY <1>2, ArrayCheck, Zenon DEF Only
<1>6. PICK w : w = new_writer /\ Plain(w, 18)
  BY Fields, Zenon
<1>7. PICK m : m = u32(a.count) /\ Plain(m, 4)
  BY Fields, Zenon
<1>8. PICK n : n = u32(b.count) /\ Plain(n, 4)
  BY Fields, Zenon
<1>9. PICK x : x = ValueLines(a)
  OBVIOUS
<1>10. Sized(x, Sum(Map(a, ValueSize))) /\ (Pass(x) <=> \A i \in DOMAIN a.elems : ValueOk(a.elems[i]))
  BY <1>9, EachValue, Zenon DEF ValueLines
<1>11. PICK y : y = BlanketLines(b)
  OBVIOUS
<1>12. Sized(y, Sum(Map(b, BlanketSize))) /\ (Pass(y) <=> \A i \in DOMAIN b.elems : BlanketOk(b.elems[i]))
  BY <1>11, EachBlanket, Zenon DEF BlanketLines, BlanketOk
<1>13. PICK u : u = c.steps /\ u = p \o q \o r \o w \o m \o x \o n \o y
  BY <1>1, <1>3, <1>4, <1>5, <1>6, <1>7, <1>8, <1>9, <1>11, Zenon DEF QuerySteps
<1>14. PICK k : k = p \o q \o r \o w \o m /\ Joins5(k, p, q, r, w, m)
  BY <1>3, <1>4, <1>5, <1>6, <1>7, Join5, Zenon DEF Only, Plain
<1>15. Joins4(u, k, x, n, y)
  <2>1. Line(k) /\ Line(x) /\ Line(n) /\ Line(y)
    BY <1>8, <1>10, <1>12, <1>14, Zenon DEF Joins5, Sized, Plain
  <2>2. u = k \o x \o n \o y
    BY <1>13, <1>14, Zenon
  <2> QED
    BY <2>1, <2>2, Join4, Zenon
<1>16. Pass(u) <=> /\ req # NULL /\ OpOf(req) = "QUERY_VALUES"
                   /\ EachOk(a, ValueOk) /\ EachOk(b, BlanketOk)
  <2>1. Pass(k) <=> req # NULL /\ OpOf(req) = "QUERY_VALUES" /\ ArrayOk(a) /\ ArrayOk(b)
    BY <1>3, <1>4, <1>5, <1>6, <1>7, <1>14, Zenon DEF Joins5, Plain
  <2>2. Pass(u) <=> Pass(k) /\ Pass(x) /\ Pass(y)
    BY <1>8, <1>15, Zenon DEF Joins4, Plain
  <2> QED
    BY <1>10, <1>12, <2>1, <2>2, Zenon DEF EachOk
<1>17. Encoded(u) = FrameSize(c)
  <2>1. Encoded(k) = 0 + 0 + 0 + 18 + 4
    BY <1>3, <1>4, <1>5, <1>6, <1>7, <1>14, Zenon DEF Joins5, Only, Plain
  <2>2. Encoded(u) = Encoded(k) + Sum(Map(a, ValueSize)) + 4 + Sum(Map(b, BlanketSize))
    BY <1>8, <1>10, <1>12, <1>15, Zenon DEF Joins4, Sized, Plain
  <2>3. FrameSize(c) = 18 + ((4 + Sum(Map(a, ValueSize))) + (4 + Sum(Map(b, BlanketSize))))
    BY <1>1, QuerySize, Zenon DEF FrameSize, STATUS_FRAME_LEN
  <2>4. Sum(Map(a, ValueSize)) \in Nat /\ Sum(Map(b, BlanketSize)) \in Nat
    BY <1>10, <1>12, SizesAre, Zenon DEF Sized
  <2> QED
    BY <2>1, <2>2, <2>3, <2>4
<1>18. Passes(c) <=> Pass(u)
  BY <1>13, <1>15, PassesIs, Zenon DEF Joins4
<1>19. Valid(c) <=> req # NULL /\ req.op_code = "QUERY_VALUES" /\ ArgsOk("rsi_respond_query_values", c.args)
  BY <1>1 DEF Valid, HelperOp
<1>20. ArgsOk("rsi_respond_query_values", c.args) <=> EachOk(a, ValueOk) /\ EachOk(b, BlanketOk)
  BY <1>1, QueryRules, Zenon
<1>21. req # NULL => (OpOf(req) = "QUERY_VALUES" <=> req.op_code = "QUERY_VALUES")
  BY Zenon DEF OpOf
<1>22. Valid(c) <=> Passes(c)
  BY <1>16, <1>18, <1>19, <1>20, <1>21, Zenon
<1>23. Valid(c) => req.op_code \in OpCodes
  BY <1>19 DEF OpCodes
<1>24. c.helper # "rsi_respond_status"
  BY <1>1
<1> QED
  BY <1>1, <1>13, <1>17, <1>22, <1>23, <1>24, Zenon DEF Decides

\* rsi_respond_status: its checks, which decide what it refuses.
LEMMA MemberCheck == ASSUME NEW x, NEW S PROVE Only(Check(x \in S)) /\ (Pass(Check(x \in S)) <=> x \in S)
<1>1. PICK y : y = [kind |-> "require", ok |-> (x \in S), errno |-> "EINVAL"]
  BY Zenon
<1>2. y.kind = "require" /\ (y.ok <=> x \in S) /\ y.kind # "emit"
  BY <1>1, Zenon
<1>3. Check(x \in S) = <<y>>
  BY <1>1 DEF Check
<1> QED
  BY <1>2, <1>3, OneStep DEF Only

\* RSI_OK is let pass only for the op-codes that have no payload.
LEMMA OnlyOkCheck ==
    ASSUME NEW status, NEW op
    PROVE  /\ Only(Check(status = "RSI_OK" => HasStatusOnlyResponse(op)))
           /\ Pass(Check(status = "RSI_OK" => HasStatusOnlyResponse(op))) <=>
                 (status = "RSI_OK" => HasStatusOnlyResponse(op))
<1>1. PICK y : y = [kind |-> "require", ok |-> (status = "RSI_OK" => HasStatusOnlyResponse(op)), errno |-> "EINVAL"]
  BY Zenon
<1>2. y.kind = "require" /\ (y.ok <=> (status = "RSI_OK" => HasStatusOnlyResponse(op))) /\ y.kind # "emit"
  BY <1>1, Zenon
<1>3. Check(status = "RSI_OK" => HasStatusOnlyResponse(op)) = <<y>>
  BY <1>1 DEF Check
<1> QED
  BY <1>2, <1>3, OneStep DEF Only

\* What the call of rsi_respond_status holds.
LEMMA StatusCall ==
    ASSUME NEW req, NEW status, NEW c, Makes(c, rsi_respond_status(req, status))
    PROVE  /\ c.helper = "rsi_respond_status" /\ c.req = req /\ c.args.status = status
           /\ c.steps = StatusSteps(req, status)
BY Zenon DEF Makes, rsi_respond_status, StatusSteps

\* Its checks decide the rules, and its frame has the one length.
LEMMA StatusDecides ==
    ASSUME NEW req, NEW status, NEW c, Makes(c, rsi_respond_status(req, status)) PROVE Decides(c)
<1>1. /\ c.helper = "rsi_respond_status" /\ c.req = req /\ c.args.status = status
      /\ c.steps = StatusSteps(req, status)
  BY StatusCall
<1>2. PICK p : p = Check(req # NULL) /\ Only(p) /\ (Pass(p) <=> req # NULL)
  BY CheckStep, Zenon DEF Only
<1>3. PICK q : q = Check(OpOf(req) \in OpCodes) /\ Only(q) /\ (Pass(q) <=> OpOf(req) \in OpCodes)
  BY MemberCheck, Zenon
<1>4. PICK r : r = Check(status \in Statuses) /\ Only(r) /\ (Pass(r) <=> status \in Statuses)
  BY MemberCheck, Zenon
<1>5. PICK t : /\ t = Check(status = "RSI_OK" => HasStatusOnlyResponse(OpOf(req))) /\ Only(t)
               /\ Pass(t) <=> (status = "RSI_OK" => HasStatusOnlyResponse(OpOf(req)))
  BY OnlyOkCheck, Zenon
<1>6. PICK v : v = validate_status_response(req, status) /\ Joins(v, r, t)
  BY <1>4, <1>5, LineConcat, Zenon DEF validate_status_response, Only
<1>7. PICK u : u = c.steps /\ u = p \o q \o v
  BY <1>1, <1>2, <1>3, <1>6, Zenon DEF StatusSteps
<1>8. Joins3(u, p, q, v)
  <2>1. Line(p) /\ Line(q) /\ Line(v)
    BY <1>2, <1>3, <1>6, Zenon DEF Only, Joins
  <2> QED
    BY <1>7, <2>1, Join3, Zenon
<1>9. Pass(u) <=> /\ req # NULL /\ OpOf(req) \in OpCodes /\ status \in Statuses
                  /\ status = "RSI_OK" => HasStatusOnlyResponse(OpOf(req))
  BY <1>2, <1>3, <1>4, <1>5, <1>6, <1>8, Zenon DEF Joins, Joins3
<1>10. Passes(c) <=> Pass(u)
  BY <1>7, <1>8, PassesIs, Zenon DEF Joins3
<1>11. Valid(c) <=> /\ req # NULL /\ req.op_code \in OpCodes /\ status \in Statuses
                    /\ status = "RSI_OK" => req.op_code \notin PayloadOps
  BY <1>1, Zenon DEF Valid
<1>12. req # NULL => OpOf(req) = req.op_code
  BY Zenon DEF OpOf
<1>13. Valid(c) <=> Passes(c)
  BY <1>9, <1>10, <1>11, <1>12, Zenon DEF HasStatusOnlyResponse
<1>14. PayloadSize("rsi_respond_status", c.args) = 0
  BY Zenon DEF PayloadSize
<1>15. FrameSize(c) = STATUS_FRAME_LEN
  BY <1>1, <1>14 DEF FrameSize, STATUS_FRAME_LEN
<1> QED
  BY <1>1, <1>13, <1>15, Zenon DEF Decides
-----------------------------------------------------------------------------
\* The checks of every helper decide the rules of response.h, and its encoder
\* appends the bytes the rules give the frame: for every call, whatever arrays
\* it passes.
LEMMA CallsDecide == ASSUME NEW c \in Calls PROVE Decides(c)
<1>1. PICK a : a = c.args
  OBVIOUS
<1>2. PICK req : req = c.req
  OBVIOUS
<1>3. CASE /\ c = rsi_respond_lookup(req, a.entries, a.metadata)
           /\ IsArray(a.entries, IsEntry) /\ IsArray(a.metadata, IsMetadata)
  BY <1>3, LookupDecides, Zenon DEF Makes
<1>4. CASE /\ c = rsi_respond_enum_children(req, a.children, a.metadata)
           /\ IsArray(a.children, IsChild) /\ IsArray(a.metadata, IsMetadata)
  BY <1>4, EnumDecides, Zenon DEF Makes
<1>5. CASE c = rsi_respond_delete_layer(req, a.orphans) /\ IsArray(a.orphans, IsGuid)
  BY <1>5, DeleteLayerDecides, Zenon DEF Makes
<1>6. CASE /\ c = rsi_respond_read_key(req, a.name, a.parent_guid, a.sd, a.volatile_key, a.symlink,
                                       a.last_write_time)
           /\ IsField(a.name) /\ IsField(a.sd)
  BY <1>6, ReadKeyDecides, Zenon DEF Makes
<1>7. CASE /\ c = rsi_respond_query_values(req, a.entries, a.blankets)
           /\ IsArray(a.entries, IsValue) /\ IsArray(a.blankets, IsBlanket)
  BY <1>7, QueryDecides, Zenon DEF Makes
<1>8. CASE c = rsi_respond_status(req, a.status)
  BY <1>8, StatusDecides, Zenon DEF Makes
<1>9. IsCall(c)
  BY HelperAssumption, Zenon
<1> QED
  BY <1>1, <1>2, <1>3, <1>4, <1>5, <1>6, <1>7, <1>8, <1>9, Zenon DEF IsCall
=============================================================================
