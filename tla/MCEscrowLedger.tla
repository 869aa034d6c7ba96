--------------------------- MODULE MCEscrowLedger ---------------------------
EXTENDS EscrowLedger

\* Three Puts; the last one is dearer than any refill can cover at once with another.
MCAmount == [p \in Puts |-> IF p = "p3" THEN 2 ELSE 1]

\* A client without a grace period that is restarted, and one in its grace period.
MCConfigs == {[grace |-> FALSE, restarts |-> 1, failures |-> 1],
              [grace |-> TRUE, restarts |-> 0, failures |-> 0]}
GraceConfigs == {c \in MCConfigs : c.grace}
=============================================================================
