----------------------------- MODULE Filtering -----------------------------
(* A loop that goes over a list and keeps what belongs to S, in its order. *)
EXTENDS Naturals, Sequences

Filtered(s, S) ==
  LET kept[n \in 0..Len(s)] ==
        IF n = 0 THEN <<>>
        ELSE IF s[n] \in S THEN Append(kept[n - 1], s[n])
        ELSE kept[n - 1]
  IN  kept[Len(s)]
=============================================================================
