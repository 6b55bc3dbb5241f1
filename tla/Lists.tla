------------------------------- MODULE Lists -------------------------------
(* What the stores of the browser do with their arrays: filter() by the id *)
(* of an item, and slice(0, n).                                            *)
EXTENDS Integers, Sequences

IdsOf(s) == {s[i].id : i \in DOMAIN s}

\* items.filter(): the items whose id is one of ids, in their order.
Keeping(s, ids) ==
  LET rest[n \in 0..Len(s)] ==
        IF n = 0 THEN <<>>
        ELSE IF s[n].id \in ids THEN Append(rest[n - 1], s[n]) ELSE rest[n - 1]
  IN  rest[Len(s)]

\* items.slice(0, n)
FirstOf(s, n) == SubSeq(s, 1, IF Len(s) < n THEN Len(s) ELSE n)
=============================================================================
