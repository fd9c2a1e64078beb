--------------------------- MODULE MCSessionLoop ---------------------------
(* Model values for the run of SessionLoop. *)
EXTENDS SessionLoop

\* A regular day, a half day, and a day the table knows nothing of.
MCTables == {5, 4, NoTable}

\* A same_session run buys one lot and sees a second day; a multi_session run
\* is watched up to its night.
MCMaxHeld == [same |-> 1, multi |-> 0]
MCMaxNow == [same |-> 12, multi |-> 9]
=============================================================================
