-------------------------- MODULE MCRemoteExecutor --------------------------
EXTENDS RemoteExecutor

CONSTANTS p1, p2

MCPapers == {p1, p2}
=============================================================================
