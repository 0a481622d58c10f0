----------------------------- MODULE MCSQSSource -----------------------------
EXTENDS SQSSource
CONSTANTS m1, m2
MCNumEvents == [m \in Messages |-> IF m = m1 THEN 2 ELSE 1]
=============================================================================
