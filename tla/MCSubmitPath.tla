---------------------------- MODULE MCSubmitPath ----------------------------
(* Strategies, symbols, intents, symmetry and the two scenarios of the run *)
(* of SubmitPath.                                                          *)
EXTENDS SubmitPath, TLC

CONSTANTS A, B, s1, s2

VARIABLE scenario   \* what this behaviour is about

\* "caps": two strategies enter two symbols, the first also exits; nobody dies
\* and no operator interferes.  "faults": one entry, deaths and an operator.
OneEntry == {[strategy |-> s1, symbol |-> A, side |-> "buy"]}
EntryExit == OneEntry \cup {[strategy |-> s1, symbol |-> A, side |-> "sell"],
                            [strategy |-> s2, symbol |-> B, side |-> "buy"]}

MCInit == Init /\ scenario \in {"caps", "faults"}

Undisturbed == /\ \A p \in Procs : pc'[p] # "dead"
               /\ halting' = {}
               /\ killed => killed'

OneEntryOnly == \A p \in Procs : cur'[p].intent \in OneEntry \cup {NoIntent}

MCNext == /\ Next
          /\ UNCHANGED scenario
          /\ IF scenario = "caps" THEN Undisturbed ELSE OneEntryOnly

MCSpec == MCInit /\ [][MCNext]_<<vars, scenario>>

MCSymmetry == Permutations(Ids) \cup Permutations(Procs)
=============================================================================
