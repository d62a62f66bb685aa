--------------------------- MODULE MCSessionStore ---------------------------
\* Instances of SessionStore for TLC.
EXTENDS SessionStore, TLC

CONSTANTS k1, k2, v1, v2, t1, t2

\* Every key in one bucket; every key in a bucket of its own.
OneBucket == [k \in Keys |-> 1]
TwoBuckets == [k \in Keys |-> IF k = k1 THEN 1 ELSE 2]

ProgramCalls == {"get_sync", "get_hot_or_cold_sync", "session_set", "session_set_with_ttl"}
LibraryCalls == Kinds
SessionCalls == {"get_hot_or_cold_sync", "session_set"}

Symmetry == Permutations(Threads)

=============================================================================
