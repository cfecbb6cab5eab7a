----------------------------- MODULE MCTaskLoop -----------------------------
\* An instance of TaskLoop: tasks have the numbers of their places in the list.
EXTENDS TaskLoop

CONSTANTS f, g

InOrder == [t \in 1..NumTasks |-> t]
=============================================================================
