------------------------------- MODULE Filter -------------------------------
(***************************************************************************)
(* The sequence operations of the lanes.  Only is SelectSeq for membership *)
(* in a set, as a recursive function that can be proved about.             *)
(***************************************************************************)
EXTENDS Naturals, Sequences

Elements(s) == {s[n] : n \in DOMAIN s}

\* What filtering leaves of each prefix of s.
Filtered(s, S) ==
  LET f[n \in 0..Len(s)] ==
        IF n = 0 THEN <<>>
        ELSE IF s[n] \in S THEN Append(f[n - 1], s[n]) ELSE f[n - 1]
  IN  f

Only(s, S) == Filtered(s, S)[Len(s)]
Without(s, S) == Only(s, Elements(s) \ S)
=============================================================================
