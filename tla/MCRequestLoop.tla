--------------------------- MODULE MCRequestLoop ---------------------------
(* RequestLoop with the usages of a small endpoint. *)
EXTENDS RequestLoop

Usage(prompt, completion, total) ==
    [prompt |-> prompt, completion |-> completion, total |-> total]

\* Nothing, one counter left out, everything.
SmallUsages == {Usage(Missing, Missing, Missing), Usage(3, Missing, 0),
                Usage(3, 2, 5)}
=============================================================================
