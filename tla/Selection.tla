------------------------------ MODULE Selection ------------------------------
(***************************************************************************)
(* Filters, as std::remove_if and loops with push_back are: what SelectSeq *)
(* says, in a form that can be reasoned about.                             *)
(***************************************************************************)
EXTENDS Naturals, Sequences

\* The entries of s at the positions in D, in their order.
EntriesAt(s, D) ==
  LET kept[n \in 0 .. Len(s)] ==
        IF n = 0 THEN <<>>
        ELSE IF n \in D THEN Append(kept[n - 1], s[n]) ELSE kept[n - 1]
  IN kept[Len(s)]
=============================================================================
