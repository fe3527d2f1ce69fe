------------------------ MODULE MCCrossMemoryServer ------------------------
EXTENDS CrossMemoryServer
MCSpaces == 1..2
MCUserKind == [s \in MCSpaces |-> IF s = 1 THEN "ss" ELSE "cp"]
MCLXs == {2}
=============================================================================
