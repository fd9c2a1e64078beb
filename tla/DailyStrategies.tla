-------------------------- MODULE DailyStrategies --------------------------
(***************************************************************************)
(* The end-of-day strategies of strategies/*.py as functions of what their *)
(* evaluate() is given: the bars up to the decision day, the open          *)
(* positions with their entry state, and the equity.                       *)
(*                                                                         *)
(* A bar is [day, slot, o, h, l, c, v] with small whole prices; money is   *)
(* counted in tenths of the price unit, so that a slippage of a tenth of   *)
(* the price is exact.  Conditions on means, ratios and deviations are     *)
(* multiplied out.  Orders are [sym, side, qty]; a decision is a sequence  *)
(* of them.  Reasons, narratives and rejected alternatives are left out.   *)
(***************************************************************************)
EXTENDS Integers, SequencesExt

CONSTANTS Universe,      \* the strategy's symbols in sorted order; the first is
                         \* the primary and risk-on one, the last the defensive one
          MaxPositions,  \* max_concurrent_positions, and target_positions
          MaxHold,       \* max_hold_days
          StopTenths,    \* stop_loss_pct, in tenths
          AllocTenths    \* the share of equity a position gets, in tenths

ASSUME DailyAssumption ==
    /\ Universe # << >> /\ Universe \in Seq({Universe[i] : i \in DOMAIN Universe})
    /\ \A i, j \in DOMAIN Universe : i # j => Universe[i] # Universe[j]
    /\ MaxPositions \in Nat \ {0} /\ MaxHold \in Nat \ {0}
    /\ StopTenths \in 0..10 /\ AllocTenths \in 1..10

Symbols == {Universe[i] : i \in DOMAIN Universe}
RiskOn == Universe[1]
RiskOff == Universe[Len(Universe)]

\* Lookbacks of the small instance: the shortest that let every rule fire.
MaLength == 2
RsiLength == 2
BandLength == 3
Lookback == 1

-----------------------------------------------------------------------------
(* Indicators                                                              *)

Total(q) == LET s[i \in 0..Len(q)] == IF i = 0 THEN 0 ELSE s[i - 1] + q[i]
            IN  s[Len(q)]

LastN(q, n) == SubSeq(q, Len(q) - n + 1, Len(q))
Closes(b) == [i \in DOMAIN b |-> b[i].c]
Close(b) == Last(b).c
Back(b, n) == b[Len(b) - n]
Least(S) == CHOOSE x \in S : \A y \in S : x <= y
Most(S) == CHOOSE x \in S : \A y \in S : x >= y

\* The sign of close - mean of the last n closes.
AboveMean(b, n) == n * Close(b) > Total(LastN(Closes(b), n))
BelowMean(b, n) == n * Close(b) < Total(LastN(Closes(b), n))

\* Wilder's average of a sequence of moves: the mean of the first n, then
\* the recursion; scaled, by a power of n that depends on their number only.
Smoothed(moves, n) ==
    LET s[i \in n..Len(moves)] ==
            IF i = n THEN [num |-> Total(SubSeq(moves, 1, n)), unit |-> n]
            ELSE [num |-> s[i - 1].num * (n - 1) + moves[i] * s[i - 1].unit,
                  unit |-> s[i - 1].unit * n]
    IN  s[Len(moves)].num

Gains(q) == [i \in 1..(Len(q) - 1) |-> IF q[i + 1] > q[i] THEN q[i + 1] - q[i] ELSE 0]
Losses(q) == [i \in 1..(Len(q) - 1) |-> IF q[i + 1] < q[i] THEN q[i] - q[i + 1] ELSE 0]

\* The RSI in thousandths; 50 when nothing moved.
HasRsi(q) == Len(q) > RsiLength
Rsi(q) == LET g == Smoothed(Gains(q), RsiLength)
              l == Smoothed(Losses(q), RsiLength)
          IN  IF g + l = 0 THEN 500 ELSE (1000 * g) \div (g + l)

\* ema[0] = close[0]; ema += 2/(span+1) * (close - ema), as a fraction.
Ema(q, span) ==
    LET e[i \in 1..Len(q)] ==
            IF i = 1 THEN [num |-> q[1], den |-> 1]
            ELSE [num |-> e[i - 1].num * (span - 1) + 2 * q[i] * e[i - 1].den,
                  den |-> e[i - 1].den * (span + 1)]
    IN  e[Len(q)]

TrueRange(b, i) == Most({b[i].h - b[i].l, b[i].h - b[i - 1].c, b[i - 1].c - b[i].h,
                         b[i].l - b[i - 1].c, b[i - 1].c - b[i].l})
\* With a lookback of one bar the average true range is the last one.
Atr(b) == TrueRange(b, Len(b))

Return(b, n) == (1000 * (Close(b) - Back(b, n).c)) \div Back(b, n).c

\* The close against the last closes: how far below their mean it is, and
\* their spread, both scaled.  The band is a quarter of a deviation wide.
Bands(b) == LET q == LastN(Closes(b), BandLength)
            IN  [gap |-> Total(q) - BandLength * Close(b),
                 spread |-> BandLength * Total([i \in DOMAIN q |-> q[i] * q[i]])
                            - Total(q) * Total(q)]
BelowBand(b) == Bands(b).gap > 0 /\ 16 * Bands(b).gap * Bands(b).gap > Bands(b).spread
ZScore(b) == - ((1000 * Bands(b).gap * Bands(b).gap) \div Bands(b).spread)

-----------------------------------------------------------------------------
(* What the families share                                                 *)

Order(sym, side, qty) == [sym |-> sym, side |-> side, qty |-> qty]
None == << >>

\* shares_for_notional_pct: rounded down, and none for a small account.
Shares(equity, price) == (equity * AllocTenths) \div (100 * price)
Entry(sym, equity, price) ==
    IF Shares(equity, price) > 0 THEN <<Order(sym, "buy", Shares(equity, price))>> ELSE None
Sale(pos, sym) == Order(sym, "sell", pos[sym].qty)

Stopped(p, b) == 100 * Close(b) <= p.price * (10 - StopTenths)
Aged(p, day) == day - p.opened >= MaxHold

\* The elements of q at the places P.
Kept(q, P) ==
    LET f[i \in 0..Len(q)] == IF i = 0 THEN None
                              ELSE IF i \in P THEN Append(f[i - 1], q[i]) ELSE f[i - 1]
    IN  f[Len(q)]
Among(q, S) == Kept(q, {i \in DOMAIN q : q[i] \in S})

InOrder(S) == Among(Universe, S)
Sales(pos, S) == LET q == InOrder(S) IN [i \in DOMAIN q |-> Sale(pos, q[i])]

\* The symbols key is defined for from the smallest key up, ties by symbol:
\* each goes behind those that are not greater.
Placed(q, s, key) ==
    InsertAt(q, 1 + Cardinality({i \in DOMAIN q : key[q[i]] <= key[s]}), s)
Ranked(key) ==
    LET q == InOrder(DOMAIN key)
        r[i \in 0..Len(q)] == IF i = 0 THEN None ELSE Placed(r[i - 1], q[i], key)
    IN  r[Len(q)]

First(q, n) == SubSeq(q, 1, IF n < Len(q) THEN n ELSE Len(q))

\* market_regime_is_bullish: a missing or short history does not stop entries.
Bullish(v) == \/ Len(v.bars[RiskOn]) < MaLength
              \/ AboveMean(v.bars[RiskOn], MaLength)

\* Entries in the order of q.
Entries(v, q) ==
    LET e[i \in 0..Len(q)] ==
            IF i = 0 THEN None
            ELSE e[i - 1] \o Entry(q[i], v.equity, Close(v.bars[q[i]]))
    IN  e[Len(q)]

Known(v) == {s \in Symbols : v.bars[s] # None}
Free(v) == Known(v) \ DOMAIN v.pos

-----------------------------------------------------------------------------
(* The cross-sectional families: exits come alone, entries fill the        *)
(* remaining capacity in rank order.                                       *)

\* evaluate_pre_entry_gates
EntriesGated(v, filtered) == \/ Cardinality(DOMAIN v.pos) >= MaxPositions
                             \/ filtered /\ ~Bullish(v)

\* What the evaluate() of these families share: sell what must go, or else
\* buy the first of the candidates, which key ranks.
CrossSectional(v, exits, key, filtered) ==
    LET best == First(Ranked(key), MaxPositions - Cardinality(DOMAIN v.pos))
    IN  IF exits # {} THEN Sales(v.pos, exits)
        ELSE IF EntriesGated(v, filtered) THEN None
        ELSE Entries(v, best)

Rsi2Exit(b, p, day) == \/ Stopped(p, b) \/ Aged(p, day)
                       \/ HasRsi(Closes(b)) /\ Rsi(Closes(b)) > 700
Rsi2Candidate(b) == Len(b) > RsiLength /\ AboveMean(b, MaLength) /\ Rsi(Closes(b)) < 300
Rsi2Pullback(v) ==
    LET candidates == {s \in Free(v) : Rsi2Candidate(v.bars[s])}
    IN  CrossSectional(v, {s \in DOMAIN v.pos : Rsi2Exit(v.bars[s], v.pos[s], v.day)},
                       [s \in candidates |-> Rsi(Closes(v.bars[s]))], TRUE)

IbsExit(b, p, day) == \/ Stopped(p, b) \/ Aged(p, day)
                      \/ Len(b) >= 2 /\ Close(b) > Back(b, 1).h
Ibs(b) == (1000 * (Close(b) - Last(b).l)) \div (Last(b).h - Last(b).l)
IbsCandidate(b) == /\ Len(b) >= MaLength /\ AboveMean(b, MaLength)
                   /\ Last(b).h > Last(b).l /\ Ibs(b) < 500
IbsLowClose(v) ==
    LET candidates == {s \in Free(v) : IbsCandidate(v.bars[s])}
    IN  CrossSectional(v, {s \in DOMAIN v.pos : IbsExit(v.bars[s], v.pos[s], v.day)},
                       [s \in candidates |-> Ibs(v.bars[s])], FALSE)

BandsExit(b, p, day) == /\ Len(b) >= BandLength
                        /\ Stopped(p, b) \/ Aged(p, day) \/ AboveMean(b, BandLength)
BandsCandidate(b) == Len(b) >= BandLength /\ AboveMean(b, MaLength) /\ BelowBand(b)
BandsLowerBand(v) ==
    LET candidates == {s \in Free(v) : BandsCandidate(v.bars[s])}
    IN  CrossSectional(v, {s \in DOMAIN v.pos : BandsExit(v.bars[s], v.pos[s], v.day)},
                       [s \in candidates |-> ZScore(v.bars[s])], FALSE)

Width(bar) == bar.h - bar.l
\* The entry state never carries a stop price, so the initial stop cannot fire.
Nr7Exit(b, p, day) == /\ Len(b) >= 2
                      /\ \/ Aged(p, day)
                         \/ 10 * Close(b) > p.price /\ Close(b) <= Back(b, 1).l
Nr7Candidate(b) == /\ Len(b) >= MaLength
                   /\ Width(Last(b)) <= Width(Back(b, 1))
                   /\ Close(b) > Last(b).o /\ AboveMean(b, MaLength)
Nr7Inside(v) ==
    LET candidates == {s \in Free(v) : Nr7Candidate(v.bars[s])}
    IN  CrossSectional(v, {s \in DOMAIN v.pos : Nr7Exit(v.bars[s], v.pos[s], v.day)},
                       [s \in candidates |-> Width(Last(v.bars[s]))], FALSE)

\* The upper channel line is a quarter of the range above the average.
AtrUpper(b) == LET e == Ema(Closes(b), MaLength)
               IN  [num |-> 4 * e.num + e.den * Atr(b), den |-> 4 * e.den]
BelowEma(b) == Close(b) * Ema(Closes(b), MaLength).den < Ema(Closes(b), MaLength).num
AtrStopped(p, b) == 10 * Close(b) <= p.price - 20 * Atr(b)
AtrExit(b, p, day) == /\ Len(b) >= MaLength
                      /\ AtrStopped(p, b) \/ Aged(p, day) \/ BelowEma(b)
AtrCandidate(b) == Len(b) >= MaLength /\ Close(b) * AtrUpper(b).den > AtrUpper(b).num
AtrStrength(b) == (1000 * Close(b) * AtrUpper(b).den) \div AtrUpper(b).num
AtrChannel(v) ==
    LET candidates == {s \in Free(v) : AtrCandidate(v.bars[s])}
    IN  CrossSectional(v, {s \in DOMAIN v.pos : AtrExit(v.bars[s], v.pos[s], v.day)},
                       [s \in candidates |-> - AtrStrength(v.bars[s])], TRUE)

DonchianExit(b, p, day) == \/ Len(b) >= 2 /\ Atr(b) > 0 /\ AtrStopped(p, b)
                           \/ Stopped(p, b) \/ Aged(p, day)
                           \/ Len(b) >= 2 /\ Close(b) < Back(b, 1).l
DonchianCandidate(b) == /\ Len(b) >= MaLength
                        /\ AboveMean(b, MaLength) /\ Close(b) > Back(b, 1).h
Breakout(b) == (1000 * Close(b)) \div Back(b, 1).h
Donchian(v) ==
    LET candidates == {s \in Free(v) : DonchianCandidate(v.bars[s])}
    IN  CrossSectional(v, {s \in DOMAIN v.pos : DonchianExit(v.bars[s], v.pos[s], v.day)},
                       [s \in candidates |-> - Breakout(v.bars[s])], TRUE)

TsmomExit(b, p, day) == \/ Stopped(p, b) \/ Aged(p, day)
                        \/ Len(b) > Lookback /\ Return(b, Lookback) < 0
TsmomCandidate(b) == /\ Len(b) >= MaLength
                     /\ AboveMean(b, MaLength) /\ Return(b, Lookback) >= 200
DailyTsmom(v) ==
    LET candidates == {s \in Free(v) : TsmomCandidate(v.bars[s])}
    IN  CrossSectional(v, {s \in DOMAIN v.pos : TsmomExit(v.bars[s], v.pos[s], v.day)},
                       [s \in candidates |-> - Return(v.bars[s], Lookback)], TRUE)

HighExit(b, p, day) == /\ Len(b) >= MaLength
                       /\ Stopped(p, b) \/ Aged(p, day) \/ BelowMean(b, MaLength)
YearHigh(b) == Most({b[i].h : i \in (Len(b) - MaLength + 1)..Len(b)})
HighCandidate(b) == /\ Len(b) >= MaLength
                    /\ 10 * Close(b) > 9 * YearHigh(b) /\ Close(b) > Back(b, 1).c
Proximity(b) == (1000 * Close(b)) \div YearHigh(b)
High52w(v) ==
    LET candidates == {s \in Free(v) : HighCandidate(v.bars[s])}
    IN  CrossSectional(v, {s \in DOMAIN v.pos : HighExit(v.bars[s], v.pos[s], v.day)},
                       [s \in candidates |-> - Proximity(v.bars[s])], FALSE)

CrossSectionalFamilies == {"rsi2_pullback", "ibs_lowclose", "bbands", "nr7",
                           "atr_channel", "donchian", "tsmom", "high_52w"}

-----------------------------------------------------------------------------
(* The ranking families: stops come alone; otherwise what fell out of the  *)
(* ranking is sold and what leads it is bought in one decision.            *)

\* _stop_intents
Stops(v) == {s \in DOMAIN v.pos : Stopped(v.pos[s], v.bars[s]) \/ Aged(v.pos[s], v.day)}

\* out: the held symbols that lost their place; leaders: what may be entered,
\* in order.
Rotate(v, out, leaders) ==
    LET kept == DOMAIN v.pos \ out
        new == Among(leaders, Symbols \ kept)
    IN  Sales(v.pos, out) \o Entries(v, First(new, MaxPositions - Cardinality(kept)))

\* Held symbols behind the leading places, or not ranked at all.
Behind(v, ranking) ==
    DOMAIN v.pos \ {First(ranking, MaxPositions)[i] : i \in DOMAIN First(ranking, MaxPositions)}

\* Every second day is the rebalancing weekday.
Rebalancing(day) == day % 2 = 0

HasReturn(b) == Len(b) > Lookback

\* Symbols without a full lookback rank last.
XsecRanking(v) ==
    Ranked([s \in Known(v) |-> IF HasReturn(v.bars[s]) THEN - Return(v.bars[s], Lookback)
                               ELSE 100000])

\* Only leaders above their own mean are bought, and only in a bullish market.
XsecRotation(v) ==
    LET ranking == XsecRanking(v)
        enterable == {s \in Known(v) : /\ Bullish(v) /\ Len(v.bars[s]) >= MaLength
                                       /\ AboveMean(v.bars[s], MaLength)}
    IN  IF Stops(v) # {} THEN Sales(v.pos, Stops(v))
        ELSE IF ~Rebalancing(v.day) THEN None
        ELSE Rotate(v, Behind(v, ranking), Among(First(ranking, MaxPositions), enterable))

Sign(x) == IF x > 0 THEN 1 ELSE IF x < 0 THEN -1 ELSE 0

MaDistance(b) == (1000 * MaLength * Close(b)) \div Total(LastN(Closes(b), MaLength))
\* Two returns: their deviation is half their distance.
RealizedVol(b) == Most({Return(b, 1) - Return(Front(b), 1), Return(Front(b), 1) - Return(b, 1)})

Scorable(v) == {s \in Known(v) : Len(v.bars[s]) > RsiLength}
\* cross_sectional_zscore: of two symbols it is the sign of the difference.
Zscore(value, s) ==
    Total([i \in DOMAIN Universe |->
              IF Universe[i] \in DOMAIN value THEN Sign(value[s] - value[Universe[i]]) ELSE 0])
\* The weighted sum of the features' z-scores over the scorable symbols.
Score(v, s) ==
    2 * Zscore([t \in Scorable(v) |-> Return(v.bars[t], Lookback)], s)
    - Zscore([t \in Scorable(v) |-> Rsi(Closes(v.bars[t]))], s)
    + Zscore([t \in Scorable(v) |-> MaDistance(v.bars[t])], s)
    - Zscore([t \in Scorable(v) |-> RealizedVol(v.bars[t])], s)

Sizable(v) == {s \in Known(v) : Shares(v.equity, Close(v.bars[s])) > 0}

ScoredLinear(v) ==
    LET ranking == Ranked([s \in Scorable(v) |-> - Score(v, s)])
    IN  IF Stops(v) # {} THEN Sales(v.pos, Stops(v))
        ELSE IF ranking = None THEN None
        ELSE Rotate(v, Behind(v, ranking),
                    Among(First(ranking, MaxPositions), Sizable(v)))

\* _traverse_tree, a leaf being its priority; 0 is the leaf to skip.
Leaf(b) == IF Return(b, Lookback) >= 0
           THEN IF Rsi(Closes(b)) <= 700 THEN 3 ELSE 2
           ELSE IF Rsi(Closes(b)) <= 300 THEN 1 ELSE 0
TreeRanking(v) ==
    Ranked([s \in {t \in Scorable(v) : Leaf(v.bars[t]) > 0} |->
               - (100000 * Leaf(v.bars[s]) + Return(v.bars[s], Lookback))])

\* A held symbol stays as long as its leaf is not the one to skip.
TreeBucketed(v) ==
    LET ranking == TreeRanking(v)
        out == DOMAIN v.pos \ {ranking[i] : i \in DOMAIN ranking}
    IN  IF Stops(v) # {} THEN Sales(v.pos, Stops(v))
        ELSE Rotate(v, out, Among(ranking, Sizable(v)))

-----------------------------------------------------------------------------
(* Families that hold one symbol at a time                                 *)

\* The position that entered first.
Held(pos) == CHOOSE s \in DOMAIN pos : \A t \in DOMAIN pos : pos[s].opened <= pos[t].opened

Gem(v) ==
    LET rated == {s \in Known(v) : HasReturn(v.bars[s])}
        ret(s) == Return(v.bars[s], Lookback)
        top == Ranked([s \in rated \ {RiskOff} |-> - ret(s)])[1]
        target == IF ret(top) > ret(RiskOff) THEN top ELSE RiskOff
    IN  IF \/ ~Rebalancing(v.day)
           \/ RiskOff \notin rated \/ rated = {RiskOff}
        THEN None
        ELSE IF DOMAIN v.pos # {} /\ Held(v.pos) = target THEN None
        ELSE (IF DOMAIN v.pos = {} THEN None ELSE <<Sale(v.pos, Held(v.pos))>>)
             \o Entry(target, v.equity, Close(v.bars[target]))

\* The switch is sized with the primary symbol's close, whichever is bought.
Regime(v) ==
    LET primary == v.bars[RiskOn]
        target == IF AboveMean(primary, MaLength) THEN RiskOn ELSE RiskOff
    IN  IF Len(primary) < MaLength THEN None
        ELSE Sales(v.pos, DOMAIN v.pos \ {target})
             \o (IF target \in DOMAIN v.pos THEN None
                 ELSE Entry(target, v.equity, Close(primary)))

\* Months of three business days; the exit is on the first trading day.
Month(day) == (day - 1) \div 3
TurnOfMonth(v) ==
    LET b == v.bars[RiskOn]
        month(bar) == Month(bar.day)
        traded == {i \in DOMAIN b : month(b[i]) = month(Last(b))}
    IN  IF b = None THEN None
        ELSE IF RiskOn \in DOMAIN v.pos
        THEN IF Cardinality(traded) = 1 THEN <<Sale(v.pos, RiskOn)>> ELSE None
        ELSE IF Month(Last(b).day + 1) # month(Last(b))
        THEN Entry(RiskOn, v.equity, Close(b)) ELSE None

\* The crypto families; their fractional units are counted in whole ones.
CryptoRsi2(v) ==
    LET b == v.bars[RiskOn]
        q == Closes(b)
    IN  IF b = None THEN None
        ELSE IF RiskOn \in DOMAIN v.pos
        THEN IF \/ Stopped(v.pos[RiskOn], b) \/ Aged(v.pos[RiskOn], v.day)
                \/ HasRsi(q) /\ Rsi(q) >= 700
             THEN <<Sale(v.pos, RiskOn)>> ELSE None
        ELSE IF HasRsi(q) /\ Rsi(q) <= 300 THEN Entry(RiskOn, v.equity, Close(b)) ELSE None

\* The fast average of span 1 is the close itself.
CryptoEmaCross(v) ==
    LET b == v.bars[RiskOn]
        slow == Ema(Closes(b), MaLength)
        above == Close(b) * slow.den - slow.num
    IN  IF Len(b) <= MaLength THEN None
        ELSE IF RiskOn \in DOMAIN v.pos
        THEN IF Stopped(v.pos[RiskOn], b) \/ above < 0 THEN <<Sale(v.pos, RiskOn)>> ELSE None
        ELSE IF above > 0 THEN Entry(RiskOn, v.equity, Close(b)) ELSE None

DailyFamilies == CrossSectionalFamilies
                 \cup {"xsec_rotation", "scored_linear", "tree_bucketed", "gem", "regime",
                       "turn_of_month", "crypto_rsi2", "crypto_ema_cross", "no_trade"}

\* strategy.evaluate of the family f.
DailyDecision(f, v) ==
    CASE f = "rsi2_pullback" -> Rsi2Pullback(v)
      [] f = "ibs_lowclose" -> IbsLowClose(v)
      [] f = "bbands" -> BandsLowerBand(v)
      [] f = "nr7" -> Nr7Inside(v)
      [] f = "atr_channel" -> AtrChannel(v)
      [] f = "donchian" -> Donchian(v)
      [] f = "tsmom" -> DailyTsmom(v)
      [] f = "high_52w" -> High52w(v)
      [] f = "xsec_rotation" -> XsecRotation(v)
      [] f = "scored_linear" -> ScoredLinear(v)
      [] f = "tree_bucketed" -> TreeBucketed(v)
      [] f = "gem" -> Gem(v)
      [] f = "regime" -> Regime(v)
      [] f = "turn_of_month" -> TurnOfMonth(v)
      [] f = "crypto_rsi2" -> CryptoRsi2(v)
      [] f = "crypto_ema_cross" -> CryptoEmaCross(v)
      [] f = "no_trade" -> None
=============================================================================
