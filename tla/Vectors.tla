-------------------------------- MODULE Vectors --------------------------------
(***************************************************************************)
(* What the helpers of src/response.rs use of Rust's vectors, and sums.    *)
(***************************************************************************)
EXTENDS Integers, Sequences, FiniteSets, Functions

\* The sequences of seqs end to end.
Flatten(seqs) ==
    LET upto[i \in 0..Len(seqs)] == IF i = 0 THEN <<>> ELSE upto[i - 1] \o seqs[i]
    IN upto[Len(seqs)]

\* The place of s[i] among the elements of s; equal ones keep their order.
Rank(s, i) == Cardinality({ j \in DOMAIN s : s[j] < s[i] \/ (s[j] = s[i] /\ j <= i) })

\* sort_unstable: numbers that are equal cannot be told apart.
Sorted(s) == [k \in DOMAIN s |-> s[CHOOSE i \in DOMAIN s : Rank(s, i) = k]]

\* dedup: an element that is equal to the one before it is dropped.
Dedup(s) == Flatten([i \in DOMAIN s |-> IF i > 1 /\ s[i] = s[i - 1] THEN <<>> ELSE <<s[i]>>])

\* PartialSums(w)[n] is the sum of the first n numbers of w.
PartialSums(w) == LET at[n \in 0..Len(w)] == IF n = 0 THEN 0 ELSE at[n - 1] + w[n] IN at
Sum(w) == PartialSums(w)[Len(w)]
=============================================================================
