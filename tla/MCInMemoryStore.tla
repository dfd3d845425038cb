-------------------------- MODULE MCInMemoryStore --------------------------
(***************************************************************************)
(* Small instances of the in-memory store for TLC.                         *)
(***************************************************************************)
EXTENDS InMemoryStoreProperties, TLC

CONSTANTS s1, s2, a, b, d, c1, c2

SingleBatches == {<<a>>, <<b>>, <<d>>}
TwoBatches == {<<a>>, <<b>>}
DoubledBatches == {<<a, a>>, <<b>>}
MixedBatches == {<< >>, <<a>>, <<b>>, <<a, b>>, <<b, a>>, <<b, d>>}

Keep(n) == [NoPolicy EXCEPT !.maxCount = n]
TruncateBefore(v) == [NoPolicy EXCEPT !.truncateBefore = v]
Expire(t) == [NoPolicy EXCEPT !.maxAge = t]

AgePolicies == {Keep(1), TruncateBefore(1), Expire(1)}
RetentionPolicies == {Keep(1), Expire(1)}

\* Nothing tells the callers apart, nor the ids where every id is a batch of its own.
Symmetry == Permutations({c1, c2}) \cup Permutations({a, b})

NoStreams == {}
=============================================================================
