-------------------------------- MODULE Lists --------------------------------
(***************************************************************************)
(* What the backend's lists have in common: Array.filter.                  *)
(***************************************************************************)
EXTENDS Integers, Sequences, FiniteSets, Functions

(* The elements of s that are in keep, in their order. *)
Filtered(s, keep) ==
    LET f[k \in 0 .. Len(s)] == IF k = 0 THEN <<>>
                                ELSE IF s[k] \in keep THEN Append(f[k - 1], s[k]) ELSE f[k - 1]
    IN  f[Len(s)]

=============================================================================
