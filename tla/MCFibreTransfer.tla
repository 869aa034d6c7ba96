--------------------------- MODULE MCFibreTransfer --------------------------
EXTENDS FibreTransfer

Ordered(p) == \A i \in 1..(Len(p) - 1) : p[i] >= p[i + 1]

\* Validator sets of up to five members.
Small == {p \in UNION {[1..n -> 1..4] : n \in 1..5} : Ordered(p)}

MCTransferSets == {<<5, 2, 2>>}

\* One large validator and many small ones, each raised to the row floor.
LongTail == {<<7>> \o [i \in 1..17 |-> 1]}

MCPowerSets == Small \cup MCTransferSets \cup LongTail
=============================================================================
