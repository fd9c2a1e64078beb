---------------------------- MODULE MCQueueExits ----------------------------
(* The queue's exits and the account they leave from: a behaviour is either *)
(* one of QueuedIntents, which decides what the drain sends, or one of      *)
(* RiskDesk, which decides whether the account's limits let it pass.        *)
EXTENDS QueuedIntents, RiskDesk, TLC

CONSTANT Y

VARIABLE scenario

On(d, c) == [day |-> d, class |-> c]

\* Two lock-ins of one exit: the second supersedes the first.
TwoExits == {On(0, "exit"), On(1, "exit")}

\* The shipped limits, scaled to two symbols.
Base == [positionPct |-> 10, orderPct |-> 15, exposurePct |-> 15, lossPct |-> 20,
         drawdownPct |-> 25, maxPositions |-> 2, killEnabled |-> TRUE, maxTrades |-> 20,
         maxStaleness |-> 300]
Overlay == [conservative |-> [exposurePct |-> 10, maxPositions |-> 1, lossPct |-> 2,
                              drawdownPct |-> 4],
            standard |-> << >>,
            aggressive |-> [exposurePct |-> 25, maxPositions |-> 3, lossPct |-> 30]]
Ceiling == [exposurePct |-> 85, lossPct |-> 80]

\* A strategy that has ended left the account short of Y by the size of one lot.
Short == [y \in Tickers |-> IF y = Y THEN -5 ELSE 0]

MCInit == /\ Init /\ DeskInit
          /\ scenario \in {"queue", "desk"}
          /\ scenario = "queue" => price = [y \in Tickers |-> 1]

MCNext == \/ scenario = "queue" /\ Next /\ UNCHANGED <<deskVars, scenario>>
          \/ scenario = "desk" /\ DeskNext /\ UNCHANGED <<vars, scenario>>

MCSpec == MCInit /\ [][MCNext]_<<vars, deskVars, scenario>>

MCSymmetry == Permutations(Sessions) \cup Permutations(Traders)
=============================================================================
