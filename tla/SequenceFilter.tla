--------------------------- MODULE SequenceFilter ---------------------------
(* A comprehension that keeps the order of a list; the provers know no       *)
(* SelectSeq.                                                                *)
EXTENDS Naturals, Sequences

\* The members of S in s, in their order.
Only(s, S) ==
  LET kept[i \in 0..Len(s)] ==
        IF i = 0 THEN <<>>
        ELSE IF s[i] \in S THEN Append(kept[i - 1], s[i]) ELSE kept[i - 1]
  IN  kept[Len(s)]
=============================================================================
