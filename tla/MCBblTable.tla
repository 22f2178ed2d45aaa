----------------------------- MODULE MCBblTable -----------------------------
(* Keys, string contents and hash values of the table's runs.  Strings are *)
(* allocated at multiples of 16, so up to that capacity every string has   *)
(* the first slot for home (HomeLow).  The largest integer key is wider    *)
(* than Word, with a low half that is past the array: it is hashed.        *)
EXTENDS BblTable, TLC

CONSTANTS x, x2, y

Contents3 == [s \in {x, x2, y} |-> s]

HomeLow == [k \in Keys |-> IF k \in Strings THEN 0 ELSE IF k > 1 THEN 15 ELSE k]

IntsSmall == {0, 1, 4, 31}

TableSymmetry == Permutations(Vals) \cup Permutations(Strings)
=============================================================================
