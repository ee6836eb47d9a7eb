------------------------------ MODULE Filtering ------------------------------
(***************************************************************************)
(* The members of a set in the order of a sequence.  The same as SelectSeq *)
(* with a membership test, as a recursive function of the prefixes, which  *)
(* is the form the proofs reason about.                                    *)
(***************************************************************************)
EXTENDS Integers, Sequences

\* For every n, what is left of the first n elements of s.
FilteredPrefixes(s, W) ==
    LET kept[n \in 0..Len(s)] ==
            IF n = 0 THEN <<>>
            ELSE IF s[n] \in W THEN Append(kept[n - 1], s[n]) ELSE kept[n - 1]
    IN kept

Filtered(s, W) == FilteredPrefixes(s, W)[Len(s)]
=============================================================================
