------------------------ MODULE IntradayStrategies -------------------------
(***************************************************************************)
(* The same-session strategies of strategies/*_intraday.py and their       *)
(* benchmarks, as functions of the bars completed so far.  They trade one  *)
(* symbol.  A session is cut into slots of one bar; the offsets and        *)
(* windows of _session_intraday are numbers of slots.                      *)
(***************************************************************************)
EXTENDS DailyStrategies

CONSTANTS Slots,         \* bars of a full session
          HalfSlots,     \* bars of a half day
          EntryWindow    \* entry_window, in bars

ASSUME IntradayAssumption ==
    /\ Slots \in Nat /\ HalfSlots \in 1..Slots /\ EntryWindow \in 1..(Slots - 1)

OpeningRange == 1        \* opening_range, in bars
StopSlot == Slots - 1    \* the bar a time stop fires on: the last

OfDays(v, D) ==
    Kept(v.bars[RiskOn], {i \in DOMAIN v.bars[RiskOn] : v.bars[RiskOn][i].day \in D})
Session(v) == OfDays(v, {v.day})
InRange(x) == x.slot < OpeningRange
InWindow(x) == x.slot \in OpeningRange..(OpeningRange + EntryWindow - 1)

\* The bars of the entry window before the latest one.
Earlier(q) == Kept(Front(q), {i \in DOMAIN Front(q) : InWindow(q[i])})
TimeStop(q) == Last(q).slot = StopSlot

RangeHigh(q) == Most({q[i].h : i \in {j \in DOMAIN q : InRange(q[j])}})
RangeLow(q) == Least({q[i].l : i \in {j \in DOMAIN q : InRange(q[j])}})
HasRange(q) == \E i \in DOMAIN q : InRange(q[i])

\* session_vwap: vwap = pv / v, the typical price times three.
Vwap(q) == [pv |-> Total([i \in DOMAIN q |-> (q[i].h + q[i].l + q[i].c) * q[i].v]),
            v |-> 3 * Total([i \in DOMAIN q |-> q[i].v])]
\* It is undefined until the session has traded some volume.
HasVwap(q) == Vwap(q).v > 0
OffVwap(q) == Close(q) * Vwap(q).v - Vwap(q).pv
\* entry_deviation_pct and min_above_vwap_pct.
FarBelow(q) == HasVwap(q) /\ 10 * OffVwap(q) <= -2 * Vwap(q).pv
FarAbove(q) == HasVwap(q) /\ 10 * OffVwap(q) >= Vwap(q).pv

\* The session as it was seen at each bar of the window, and now.
Views(q) == {SubSeq(q, 1, i) : i \in {j \in 1..Len(q) : j = Len(q) \/ InWindow(q[j])}}

-----------------------------------------------------------------------------
(* Every family sells at its time stop or its own exit signal, and buys on *)
(* its entry signal inside the entry window.  On a half day only the       *)
(* defensive exit is left.  An entry signal counts at its first bar of the *)
(* window only: of all the views of the session it fires in this one.      *)

SessionRule(v, exit, entry) ==
    LET q == Session(v)
        holding == RiskOn \in DOMAIN v.pos
        sell == <<Sale(v.pos, RiskOn)>>
    IN  IF v.half THEN IF holding THEN sell ELSE None
        ELSE IF holding THEN IF TimeStop(q) \/ exit THEN sell ELSE None
        ELSE IF InWindow(Last(q)) /\ entry THEN Entry(RiskOn, v.equity, Close(q)) ELSE None

StoppedOut(v) == Stopped(v.pos[RiskOn], Session(v))

\* On a full session without a complete opening range nothing is decided: a
\* position held over from the night before is left alone.
NeedsRange(v, decision) == IF v.half \/ HasRange(Session(v)) THEN decision ELSE None

OrbEntryAgain(q) == Close(q) > RangeHigh(q)

OrbEntry(q) == /\ Close(q) > RangeHigh(q)
               /\ \A i \in DOMAIN Earlier(q) : Earlier(q)[i].c <= RangeHigh(q)
OrbIntraday(v) ==
    IF ~v.half /\ InRange(Last(Session(v))) THEN None
    ELSE NeedsRange(v, LET q == Session(v)
                       IN  SessionRule(v, Last(q).l <= RangeLow(q), OrbEntry(q)))

\* A breakout, then a close back inside, then the reclaim: at i, j and k.
Reclaimed(w, high, k) == /\ w[k].c > high /\ 8 * high <= 10 * w[k].l
                         /\ \E i, j \in 1..(k - 1) :
                               /\ i < j /\ w[i].c > high /\ w[j].c <= high
RetestEntry(q) == LET w == Earlier(q)
                      high == RangeHigh(q)
                      now == Append(w, Last(q))
                  IN  /\ Reclaimed(now, high, Len(now))
                      /\ \A k \in DOMAIN w : ~Reclaimed(w, high, k)
OpeningRangeRetest(v) ==
    NeedsRange(v, LET q == Session(v)
                  IN  SessionRule(v, Last(q).l <= RangeLow(q) \/ StoppedOut(v), RetestEntry(q)))

PriorClose(v) == OfDays(v, 0..(v.day - 1))
GapEntry(v, q) == /\ 10 * q[1].o >= 12 * Close(PriorClose(v))
                  /\ Close(q) > q[1].o
                  /\ \A i \in DOMAIN Earlier(q) : Earlier(q)[i].c <= q[1].o
\* Without a prior close a full session is left alone too.
GapContinuation(v) ==
    IF ~v.half /\ PriorClose(v) = None THEN None
    ELSE LET q == Session(v)
         IN  SessionRule(v, StoppedOut(v) \/ Close(q) < q[1].o, GapEntry(v, q))

ReversionEntry(q) == {e \in Views(q) : FarBelow(e)} = {q}
VwapReversion(v) ==
    LET q == Session(v)
    IN  SessionRule(v, StoppedOut(v) \/ (HasVwap(q) /\ OffVwap(q) >= 0), ReversionEntry(q))

TrendEntry(q) == /\ {e \in Views(q) : FarAbove(e)} = {q}
                 /\ Len(q) > Lookback
                 /\ Close(q) > Back(q, Lookback).c
                 /\ Last(q).v > Back(q, 1).v
VwapTrend(v) ==
    LET q == Session(v)
    IN  SessionRule(v, StoppedOut(v) \/ (HasVwap(q) /\ OffVwap(q) < 0), TrendEntry(q))

LateEntry(q) ==
    {e \in Views(q) : Len(e) > Lookback /\ Close(e) > Back(e, Lookback).c} = {q}
LateSession(v) == SessionRule(v, StoppedOut(v), LateEntry(Session(v)))

OversoldEntry(q) ==
    {e \in Views(q) : HasRsi(Closes(e)) /\ Rsi(Closes(e)) <= 300} = {q}
Rsi2Intraday(v) ==
    LET q == Closes(Session(v))
    IN  SessionRule(v, StoppedOut(v) \/ (HasRsi(q) /\ Rsi(q) >= 700),
                    OversoldEntry(Session(v)))

\* The draw of bench_random_matched, a function of the symbol, the session
\* and the seed: the slot to enter at, or none.
RandomEntry(v, q) == /\ v.draw # 0 /\ Last(q).slot >= v.draw
                     /\ \A i \in DOMAIN Earlier(q) : Earlier(q)[i].slot < v.draw
RandomMatched(v) == SessionRule(v, FALSE, RandomEntry(v, Session(v)))

\* The two benchmarks that enter at one bar of every session.
TimeOfDayNull(v) == SessionRule(v, FALSE, Last(Session(v)).slot = OpeningRange)
UnconditionalLong(v) == TimeOfDayNull(v)

IntradayFamilies == {"orb", "orb_retest", "gap_continuation", "vwap_reversion", "vwap_trend",
                     "late_session", "rsi2_intraday", "random_matched", "time_of_day",
                     "unconditional"}

\* strategy.evaluate of the family f.
IntradayDecision(f, v) ==
    CASE f = "orb" -> OrbIntraday(v)
      [] f = "orb_retest" -> OpeningRangeRetest(v)
      [] f = "gap_continuation" -> GapContinuation(v)
      [] f = "vwap_reversion" -> VwapReversion(v)
      [] f = "vwap_trend" -> VwapTrend(v)
      [] f = "late_session" -> LateSession(v)
      [] f = "rsi2_intraday" -> Rsi2Intraday(v)
      [] f = "random_matched" -> RandomMatched(v)
      [] f = "time_of_day" -> TimeOfDayNull(v)
      [] f = "unconditional" -> UnconditionalLong(v)
=============================================================================
