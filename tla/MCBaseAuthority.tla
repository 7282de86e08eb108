--------------------------- MODULE MCBaseAuthority ---------------------------
\* Instances of BaseAuthority for TLC: every command writes one record; the
\* commands either all expect it absent, or c2 expects the version c1 writes.
EXTENDS BaseAuthority

CONSTANTS e1, c2

MCEntityOf == [c \in Command |-> e1]
AllCreate == [c \in Command |-> 0]
Successive == [c \in Command |-> IF c = c2 THEN 1 ELSE 0]
=============================================================================
