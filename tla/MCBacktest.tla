----------------------------- MODULE MCBacktest -----------------------------
(* A behaviour is a walk of one strategy over one price history, module     *)
(* Backtest, or backtests and a compaction over one store, BacktestRuns.    *)
(* The two share no state.  The assumptions check the operators of          *)
(* WalkForward and BarQuality.                                              *)
EXTENDS Backtest, BacktestRuns, TLC

Quality == INSTANCE BarQuality

CONSTANTS p1, w1

VARIABLE scenario

\* Two symbols A (primary) and B (defensive).
Bar(o, h, l, c, v) == [o |-> o, h |-> h, l |-> l, c |-> c, v |-> v]
Up == Bar(2, 4, 2, 4, 2)
Down == Bar(2, 2, 1, 1, 1)
Mid == Bar(1, 4, 1, 2, 1)
High == Bar(3, 4, 2, 4, 2)
Low == Bar(1, 2, 1, 2, 0)

MCUniverse == <<"A", "B">>
MCCandles == [daily |-> [A |-> {Up, Down, Mid}, B |-> {Up, Down}],
              intraday |-> [A |-> {High, Low}]]
MCMaxDays == [daily |-> 4, intraday |-> 2]
MCFamilies == DailyFamilies \cup IntradayFamilies

TwoStrategies == <<"x", "y">>

\* The out-of-sample return over all the test days is the windows' own returns
\* compounded, whatever the curves of two windows that start with 2
\* (walk_forward_runner.py:412-490): the seed carries each window's first day.
Curves == UNION {[1..n -> 1..3] : n \in 0..2}
Returns(ws) == [i \in DOMAIN ws |-> TotalReturn(ws[i], 2)]

ASSUME StitchAgrees ==
    \A ws \in Curves \X Curves :
        SameRatio(AggregateOos(ws, 2), Compound(Returns(ws)))

\* A gain that depends on one window is gone without some window, and the other
\* way round only if that window is not the best.
ASSUME DependencyIsReal ==
    \A ws \in Curves \X Curves :
        SingleWindowDependency(ws, 2) <=>
            /\ ~AtMostOne(AggregateOos(ws, 2))
            /\ \E i \in 1..2 : AtMostOne(Returns(ws)[i])

\* The table is a permutation of the rows, sorted; an error never comes before a
\* strategy that passed its gate.
Rows == {ErrorRow} \cup [gate : BOOLEAN, sharpe : {NoSharpe, <<-1>>, <<1>>}, ret : {0, 1}]

ASSUME RankingIsSorted ==
    \A t \in Rows \X Rows \X Rows :
        LET ranked == RankRows(t)
        IN  /\ \A row \in Rows : Cardinality({i \in 1..3 : ranked[i] = row})
                                    = Cardinality({i \in 1..3 : t[i] = row})
            /\ \A i, j \in 1..3 : i < j => ~RanksBefore(ranked[j], ranked[i])
            /\ \A i, j \in 1..3 : ranked[i] = ErrorRow /\ ranked[j].gate => j < i

\* The daily scan blocks none of the candles of these histories.
ASSUME CandlesPassTheScan ==
    \A kind \in DOMAIN MCCandles : \A s \in DOMAIN MCCandles[kind] :
        \A b \in MCCandles[kind][s] : Quality!StructuralIssues(<<b @@ [time |-> 0]>>) = {}

\* A day that no symbol has a bar of is no gap: the scan learns the sessions from
\* the bars (bar_quality.py:121-123).
Daily(days) == SelectSeq([d \in 1..8 |-> [day |-> d, time |-> d] @@ Up],
                         LAMBDA b : b.day \in days)

ASSUME CommonGapIsInvisible ==
    \A days \in SUBSET (1..8) \ {{}} :
        LET report == Quality!ScanBacktestBars([s \in {"A", "B"} |-> Daily(days)], 1, 8)
        IN  ~Quality!Blocks(report) /\ \A s \in {"A", "B"} : report[s].warnings = {}

\* A session without an issue is whole while it has less than ten slots; of ten
\* or more it may lack any one between the first and the last.
Bars(offsets) == SelectSeq([i \in 1..20 |-> [off |-> i - 1, vol |-> 1]],
                           LAMBDA b : b.off \in offsets)
GridSlots(close, tf) == {o \in 0..(close - 1) : o % tf = 0}

ASSUME CleanSessionIsWhole ==
    \A close \in 1..8, tf \in 1..3 : \A offsets \in SUBSET (0..(close - 1)) :
        Quality!SessionIssues(Bars(offsets), close, tf) = {}
            <=> offsets = GridSlots(close, tf)

ASSUME OneHoleIsSilent ==
    \A tf \in 1..2, hole \in 1..8 :
        Quality!SessionIssues(Bars(GridSlots(10 * tf, tf) \ {hole * tf}), 10 * tf, tf) = {}

\* What the runs of BacktestRuns are about.  "sweep": one worker and one single
\* run of the same strategy; "screen": the batch alone, in one process or two;
\* "compact": a single run of two orders beside two compactions.
Only(ps) == \A p \in Processes \ ps : proc'[p] = Idle
OneOrder == \A p \in Processes : proc'[p].orders <= 1 /\ proc'[p].buffered = 0

Stage == CASE scenario = "sweep" -> /\ compacted' = 0 /\ OneOrder
                                    /\ Only({p1, w1}) /\ proc'[w1].strategy # "y"
           [] scenario = "screen" -> compacted' = 0 /\ OneOrder /\ Only(Workers)
           [] scenario = "compact" -> Only({p1})

MCInit ==
    /\ scenario \in {"walk", "sweep", "screen", "compact"}
    /\ Init /\ RunsInit
    /\ scenario # "screen" => batch.pool = {w1} /\ ~batch.failFast
    /\ scenario # "walk" => /\ family = "gem" /\ ~half /\ draw = 0

MCNext == /\ UNCHANGED scenario
          /\ \/ scenario = "walk" /\ Next /\ UNCHANGED runsVars
             \/ scenario # "walk" /\ RunsNext /\ Stage /\ UNCHANGED vars

MCSpec == MCInit /\ [][MCNext]_<<vars, runsVars, scenario>>
=============================================================================
