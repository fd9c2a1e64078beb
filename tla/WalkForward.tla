----------------------------- MODULE WalkForward -----------------------------
(***************************************************************************)
(* Walk-forward validation without its state: how a history of trading     *)
(* days is cut into training and test windows, and what the out-of-sample  *)
(* windows add up to.  Days are indices from 0; equities are integers and  *)
(* a ratio of equities is a record, so nothing is rounded.                 *)
(***************************************************************************)
EXTENDS Integers, SequencesExt, FiniteSetsExt

----------------------------------------------------------------------------
\* The cut.

AtLeastOne(n) == IF n < 1 THEN 1 ELSE n

ComputeWindowSpans(total, windows) ==
    LET test == AtLeastOne(total \div (windows + 1))
    IN  [train |-> total - windows * test, test |-> test, step |-> test]

\* Whether it returns: otherwise it raises ValueError.
SpansExist(total, windows) ==
    total >= 2 /\ ComputeWindowSpans(total, windows).train >= 1

\* Where the windows of the splitter begin, and the window that begins at i.
Starts(total, s) ==
    {i \in 0..total : i % s.step = 0 /\ i + s.train + s.test <= total}

WindowAt(i, s) == [trainStart |-> i, trainEnd |-> i + s.train - 1,
                   testStart |-> i + s.train, testEnd |-> i + s.train + s.test - 1]

Split(total, s) == {WindowAt(i, s) : i \in Starts(total, s)}

----------------------------------------------------------------------------
\* The aggregate.  A window is its equity curve: what the account is worth at
\* the end of each of its test days; every window starts from the same equity.

Ratio(n, d) == [n |-> n, d |-> d]
One == Ratio(1, 1)
Times(a, b) == Ratio(a.n * b.n, a.d * b.d)
SameRatio(a, b) == a.n * b.d = b.n * a.d
AtMostOne(a) == a.n <= a.d

\* The window's first day counts: the curve is seeded when that day moved it.
Seeded(curve, start) == IF Head(curve) # start THEN <<start>> \o curve ELSE curve

\* 1 + the return of a day; a day that begins with nothing returns nothing.
Growth(prev, curr) == IF prev > 0 THEN Ratio(curr, prev) ELSE One

GrowthsOf(curve) ==
    [i \in 1..(Len(curve) - 1) |-> Growth(curve[i], curve[i + 1])]

\* final_equity / initial_equity after all the windows' days in a row.
AggregateOos(windows, start) ==
    FoldLeft(Times, One,
             FlattenSeq([i \in DOMAIN windows |->
                            IF windows[i] = << >> THEN << >>
                            ELSE GrowthsOf(Seeded(windows[i], start))]))

TotalReturn(curve, start) == IF curve = << >> THEN One ELSE Ratio(Last(curve), start)

\* The windows' own returns, compounded.
Compound(returns) == FoldLeft(Times, One, returns)

\* TRUE if the aggregate gains, and does not gain without its best window.
SingleWindowDependency(windows, start) ==
    LET returns == [i \in DOMAIN windows |-> TotalReturn(windows[i], start)]
        Better(i, j) == returns[i].n * returns[j].d > returns[j].n * returns[i].d
        best == CHOOSE i \in DOMAIN windows :
                   \A j \in DOMAIN windows : ~Better(j, i) /\ (j < i => Better(i, j))
    IN  /\ Len(windows) >= 2
        /\ ~AtMostOne(Compound(returns))
        /\ AtMostOne(Compound(RemoveAt(returns, best)))

----------------------------------------------------------------------------
\* The screening table.  A row is gate (a verdict), sharpe (<<n>>, or << >> when
\* there is none) and ret; it sorts by the gate, then by sharpe, then by ret.

NoSharpe == << >>

RanksBefore(a, b) ==
    LET Missing(r) == r.sharpe = NoSharpe
        Key(r) == <<IF r.gate THEN 0 ELSE 1, IF Missing(r) THEN 1 ELSE 0,
                    IF Missing(r) THEN 0 ELSE -Head(r.sharpe), -r.ret>>
    IN  \E k \in 1..4 : Key(a)[k] < Key(b)[k] /\ \A i \in 1..(k - 1) : Key(a)[i] = Key(b)[i]

\* A stable sort.
RankRows(rows) ==
    LET Before(i, j) == \/ RanksBefore(rows[i], rows[j])
                        \/ ~RanksBefore(rows[j], rows[i]) /\ i <= j
        Position(i) == Cardinality({j \in DOMAIN rows : Before(j, i)})
    IN  [k \in DOMAIN rows |-> rows[CHOOSE i \in DOMAIN rows : Position(i) = k]]

ErrorRow == [gate |-> FALSE, sharpe |-> NoSharpe, ret |-> 0]
=============================================================================
