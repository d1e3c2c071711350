----------------------------- MODULE Collections -----------------------------
(***************************************************************************)
(* What a comprehension with a condition and sum() return, as functions of *)
(* data: the elements of a sequence at some of its indices, in their       *)
(* order, and the sum of a function over some of its arguments.            *)
(***************************************************************************)
EXTENDS Naturals, Sequences, Functions

Picked(s, indices) ==
    LET upto[n \in 0 .. Len(s)] ==
            IF n = 0 THEN <<>>
            ELSE IF n \in indices THEN Append(upto[n - 1], s[n]) ELSE upto[n - 1]
    IN  upto[Len(s)]

SumOver(weight, set) == FoldFunctionOnSet(+, 0, weight, set)
=============================================================================
