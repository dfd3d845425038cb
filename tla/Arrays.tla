------------------------------- MODULE Arrays -------------------------------
(***************************************************************************)
(* What Array.prototype.splice and Array.prototype.filter leave of an      *)
(* array.  The in-memory store keeps its messages in arrays and deletes    *)
(* from them with `messages.splice(messages.indexOf(message), 1)`.  The    *)
(* operators below say which elements stay, and that they stay in order;   *)
(* they are written without recursion (and so without SelectSeq, which is  *)
(* defined by recursion) so that ArraysProofs can prove what they return.  *)
(***************************************************************************)
EXTENDS Integers, Sequences, FiniteSets

\* The n-th smallest of the set of integers I.
Nth(I, n) == CHOOSE i \in I : Cardinality({j \in I : j <= i}) = n

\* The greatest of the set of integers I.
Greatest(I) == Nth(I, Cardinality(I))

\* The elements of seq at the indices I, in the order of seq.
ElementsAt(seq, I) == [n \in 1..Cardinality(I) |-> seq[Nth(I, n)]]

\* seq once the elements of the set gone have been spliced out of it.
Without(seq, gone) == ElementsAt(seq, {i \in DOMAIN seq : seq[i] \notin gone})

\* The elements of a sequence.
Elements(seq) == {seq[i] : i \in DOMAIN seq}

=============================================================================
