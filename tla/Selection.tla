----------------------------- MODULE Selection -----------------------------
(***************************************************************************)
(* The elements of a list at some places of it, in their order: what is    *)
(* left when the program takes the others out one by one.                  *)
(***************************************************************************)
EXTENDS Naturals, Sequences

Picked(seq, places) ==
    LET upTo[n \in 0 .. Len(seq)] ==
            IF n = 0 THEN <<>>
            ELSE IF n \in places THEN Append(upTo[n - 1], seq[n]) ELSE upTo[n - 1]
    IN  upTo[Len(seq)]

Places(seq, Is(_)) == {x \in 1 .. Len(seq) : Is(seq[x])}
Where(seq, Is(_)) == Picked(seq, Places(seq, Is))
=============================================================================
