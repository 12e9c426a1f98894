-------------------------- MODULE MCShardedHistory --------------------------
\* Small instances of ShardedHistory for TLC.
EXTENDS ShardedHistory, TLC

\* Two keys on different workers, and the highest hash.
TwoHashes == [k \in Keys |-> HashSize - IF k = CHOOSE j \in Keys : TRUE THEN 1 ELSE 2]

ASSUME TokensAssumption == ShardsOfTokens

Symmetry == Permutations(Clients) \cup Permutations(Channels)
=============================================================================
