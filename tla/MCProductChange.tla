-------------------------- MODULE MCProductChange --------------------------
(* Two claims that share a piece of Evidence, and one more source.         *)
EXTENDS ProductChange, TLC

CONSTANTS r1, r2, e1, e2, s1, s2

MCCites == [r \in Records |-> IF r = r1 THEN {e1} ELSE {e1, e2}]
MCSourceOf == [e \in Evidence |-> IF e = e1 THEN s1 ELSE s2]

KeySymmetry == Permutations(Keys)

=============================================================================
