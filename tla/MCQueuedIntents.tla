--------------------------- MODULE MCQueuedIntents ---------------------------
(* A behaviour is about one entry, which sessions hand over and may race for, *)
(* or about one exit of the same close in the hands of one session: the       *)
(* lock-in decides nothing else.  It starts with the config h1: the contents  *)
(* of the file are interchangeable.                                           *)
EXTENDS QueuedIntents, AdvisoryLock

CONSTANTS r1, h1

On(d, c) == [day |-> d, class |-> c]

EntryOrExit == {On(0, "entry"), On(0, "exit")}

VARIABLE scenario

OfScenario == {k \in Keys : k.class = scenario}

MCInit == /\ scenario \in {"entry", "exit", "lock"}
          /\ Init /\ config = h1
          /\ LockFileInit

Alone(s) == \A r \in Sessions \ {s} : At(r, "unborn")'

Stage == /\ \A s \in Sessions : At(s, "persist")' => sess'[s].todo \subseteq OfScenario
         /\ scenario = "exit" => Alone(r1)

MCNext == /\ UNCHANGED scenario
          /\ \/ scenario = "lock" /\ LockFileNext /\ UNCHANGED vars
             \/ scenario # "lock" /\ Next /\ Stage /\ UNCHANGED lockVars

MCFairSpec == MCInit /\ [][MCNext]_<<vars, lockVars, scenario>>
                  /\ IF scenario = "lock" THEN LockFairness ELSE Fairness
==============================================================================
