--------------------------- MODULE MCFibreServer ---------------------------
(***************************************************************************)
(* Two uploads at a time, one download, and two promises over the same     *)
(* blob that do not fit the small budget together.  Two ticks a minute.    *)
(***************************************************************************)
EXTENDS FibreServer

MCPromises == {[id |-> 1, com |-> 1, stripe |-> 1, size |-> 1, creation |-> 0],
               [id |-> 2, com |-> 1, stripe |-> 2, size |-> 2, creation |-> 1]}

Early == [timeout |-> 1, retention |-> 1]

\* Governance raises the timeout at the second tick: a promise that is due, or was
\* pruned, may be stored again with a later prune time.
Raised == <<Early, Early, [timeout |-> 3, retention |-> 1]>>
=============================================================================
