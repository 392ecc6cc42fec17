--------------------------- MODULE MCNetworkHealth ---------------------------
EXTENDS NetworkHealth
CONSTANTS l1
MCRank == [l \in Lines |-> IF l = l1 THEN 1 ELSE 2]
MCGroup == [p \in Lines \cup {Direct} |-> IF p = l1 THEN "" ELSE "home"]
=============================================================================
