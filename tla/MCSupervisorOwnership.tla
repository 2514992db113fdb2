----------------------- MODULE MCSupervisorOwnership -----------------------
EXTENDS SupervisorOwnership, TLC

CONSTANTS s1, s2, s3, k1, k2, sock1, sock2, dir1, dir2

\* s1 and s2 compete for a socket, s3 reaches s1's directory through another.
MCSupervisor == {s1, s2, s3}
MCPair == {s1, s2}
MCCoordinator == {k1, k2}
MCSocketOf == [p \in MCSupervisor |-> IF p = s3 THEN sock2 ELSE sock1]
MCDescriptorOf == [p \in MCSupervisor |-> IF p = s2 THEN dir2 ELSE dir1]
MCSocketOfPair == [p \in MCPair |-> sock1]
MCDescriptorOfPair == [p \in MCPair |-> dir1]
MCSymmetry == Permutations(MCCoordinator)
=============================================================================
