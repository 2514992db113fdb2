------------------------ MODULE MCCommandRecovery ------------------------
EXTENDS CommandRecovery

CONSTANTS c1, c2, cl1, cl2

MCCommand == {c1, c2}
MCClient == {cl1, cl2}
MCOwner == [c \in MCCommand |-> IF c = c1 THEN cl1 ELSE cl2]
MCDrainCommand == {c2}
=============================================================================
