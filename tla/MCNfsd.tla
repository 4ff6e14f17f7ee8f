------------------------------- MODULE MCNfsd -------------------------------
(* Small instances of Nfsd for TLC. *)
EXTENDS Nfsd, TLC

CONSTANT Pair    \* names whose hash_str is the same

\* The 32-bit hash tells paths apart but for Pair, the 64-bit one all of them.
MCHashStr == [p \in Paths |-> IF p \in Pair THEN Pair ELSE {p}]
MCHash64 == [p \in Paths |-> p]

\* Bound: the clock ticks or the server is restarted, which empties the cache
\* whose entries would expire.
Apart == now + lives <= MaxTime + 1

\* Clients are interchangeable, and so are names that hash alike or not at all alike.
Swap == Permutations(Clients) \cup Permutations(Pair) \cup Permutations(Names \ Pair)
=============================================================================
