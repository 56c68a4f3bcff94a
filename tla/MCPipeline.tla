------------------------------ MODULE MCPipeline ------------------------------
EXTENDS Pipeline
CONSTANTS n1, n2, r1, r2
OneRelease == [n \in Nzbs |-> r1]
OwnReleases == [n \in Nzbs |-> IF n = n1 THEN r1 ELSE r2]
=============================================================================
