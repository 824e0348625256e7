--------------------------- MODULE MCProfileStore ---------------------------
(* Two instances of the application over one metadata file.                 *)
EXTENDS ProfileStore, TLC

CONSTANTS i1, i2, p1, p2, database, key, s1, s2, direct, inline, r1, r2, r3

\* A pasted SSH key belongs to an inline tunnel alone, a password to any profile.
MCUsable == [c \in {direct, inline} |-> IF c = inline THEN {database, key} ELSE {database}]
Symmetric == Permutations(References) \cup Permutations(Instances) \cup Permutations(Ids)
             \cup Permutations(Secrets)
=============================================================================
