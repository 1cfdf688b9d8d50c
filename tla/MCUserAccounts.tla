--------------------------- MODULE MCUserAccounts ---------------------------
(* UserAccounts instantiated for TLC. *)
EXTENDS UserAccounts, TLC

CONSTANTS u1, u2, g1, s1, s2, r1, r2

TwoReqs == {r1, r2}
TwoSessions == {s1, s2}
\* Requests, sessions and users are never compared but for equality.
AccountSymmetry == Permutations(TwoReqs) \cup Permutations(TwoSessions)
                     \cup Permutations({u1, u2})

\* Sessions that end, and groups, apart from each other.
TwoScopes == {[epochs |-> 1, managed |-> 2, groups |-> FALSE],
              [epochs |-> 0, managed |-> 4, groups |-> TRUE]}

=============================================================================
