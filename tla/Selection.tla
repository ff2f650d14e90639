----------------------------- MODULE Selection -----------------------------
(***************************************************************************)
(* Parts of sequences.  Kept is SelectSeq for a set in place of a test,    *)
(* defined by recursion so that theorems about it can be proved.           *)
(***************************************************************************)
EXTENDS Naturals, Sequences, Functions

\* The elements of a sequence that are in a set, in their order.
Kept(s, X) ==
  LET kept[n \in 0 .. Len(s)] ==
        IF n = 0 THEN <<>>
        ELSE IF s[n] \in X THEN Append(kept[n - 1], s[n]) ELSE kept[n - 1]
  IN  kept[Len(s)]

Increasing(k) == \A i, j \in DOMAIN k : i < j => k[i] < k[j]

\* The numbers from low to high in their order, apart from those that are lost.
Numbers(k, low, high, lost) == Increasing(k) /\ Range(k) = (low .. high) \ lost
=============================================================================
