------------------------------ MODULE MCBench -------------------------------
(* Model values for Bench: two CLI operators, or one worker of the GUI.    *)
EXTENDS Bench

CONSTANTS c1, c2, gui

Rosters == {{c1, c2}, {gui}}
GoodOrCovered == {<<TRUE, FALSE>>, <<FALSE, TRUE>>}

=============================================================================
