------------------------------ MODULE MCClient ------------------------------
(***************************************************************************)
(* An instance of Client for TLC: every text with every stamp, and one     *)
(* value without a text.  The callers are interchangeable.                 *)
(***************************************************************************)
EXTENDS Client, TLC

MCEmitted ==
    {raw \in WarningValues :
        raw.text = NoText => raw.stamp = CHOOSE n \in Stamps : TRUE}

MCSymmetry == Permutations(Callers)
=============================================================================
