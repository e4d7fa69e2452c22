----------------------------- MODULE Filtering -----------------------------
(* What is left of a Map, a Set or an array of the code when some members go. A
   recursive function, of which the proofs can use the equations. *)
EXTENDS Naturals, Sequences

\* The members of S in the sequence s, in its order.
Only(s, S) ==
    LET f[i \in 0..Len(s)] ==
            IF i = 0 THEN <<>>
            ELSE IF s[i] \in S THEN Append(f[i - 1], s[i]) ELSE f[i - 1]
    IN  f[Len(s)]
=============================================================================
