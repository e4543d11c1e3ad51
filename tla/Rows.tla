-------------------------------- MODULE Rows --------------------------------
(***************************************************************************)
(* Rows and queues of requests, as src/fork_patches/gpu_model_runner.py    *)
(* and its scheduler keep them: places, subsequences, the persistent       *)
(* batch's rows, sums over requests, and rows laid end to end.             *)
(***************************************************************************)
EXTENDS Integers, Sequences, FiniteSets

\* The place of i among the members of S, and the member at a place.
Rank(S, i) == Cardinality({j \in S : j <= i})
Nth(S, c) == CHOOSE i \in S : Rank(S, i) = c

\* Places of q that hold a member of S, and the members in the order of q.
Holding(q, S) == {i \in DOMAIN q : q[i] \in S}
Only(q, S) ==
    LET kept == Holding(q, S) IN [n \in 1 .. Cardinality(kept) |-> q[Nth(kept, n)]]

\* When only the requests of S keep their rows and k join: the rows freed, the
\* rows there will be, and the rows that are kept although they are beyond.
Freed(q, S) == DOMAIN q \ Holding(q, S)
NewLen(q, S, k) == Cardinality(Holding(q, S)) + k
Beyond(q, S, k) == {i \in Holding(q, S) : i > NewLen(q, S, k)}

\* The requests added take the smallest free rows, then new ones, and the last
\* rows move into the rest.
Condensed(q, S, added) ==
    LET k    == Len(added)
        late == Beyond(q, S, k)
        fill(c) == IF c <= k THEN added[c] ELSE q[Nth(late, Cardinality(late) + 1 + k - c)]
    IN  [i \in 1 .. NewLen(q, S, k) |->
            IF i > Len(q) THEN added[Cardinality(Freed(q, S)) + i - Len(q)]
            ELSE IF i \in Freed(q, S) THEN fill(Rank(Freed(q, S), i)) ELSE q[i]]

\* The sum of f over a finite set: f[r] tokens, or blocks, of each member.
Total(f, S) == Cardinality(UNION {{r} \X (1 .. f[r]) : r \in S})

\* Rows laid end to end, row j of w[j] places: where each of them ends (0: the
\* beginning), the row a place belongs to, and its place there.
Ends(w) == LET e[j \in 0 .. Len(w)] == IF j = 0 THEN 0 ELSE e[j - 1] + w[j] IN e
RowAt(w, i) == CHOOSE j \in 1 .. Len(w) : Ends(w)[j - 1] < i /\ i <= Ends(w)[j]
OffsetAt(w, i) == i - Ends(w)[RowAt(w, i) - 1]
=============================================================================
