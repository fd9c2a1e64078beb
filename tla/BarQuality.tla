----------------------------- MODULE BarQuality -----------------------------
(***************************************************************************)
(* The two scans of bar data, as operators.  The daily scan runs before a  *)
(* backtest writes anything: blockers fail the run, warnings are recorded. *)
(* The intraday scan measures each session against its grid of bars and    *)
(* only warns.                                                             *)
(*                                                                         *)
(* Days are integers, offsets are minutes from the open.  A value that is  *)
(* no finite number counts as -1: every test refuses it alike.             *)
(***************************************************************************)
EXTENDS Integers, SequencesExt, FiniteSetsExt

REQUESTED_WINDOW_EDGE_TOLERANCE == 7
STALE_TAIL_TOLERANCE == 7

\* The longest run of consecutive members of "all" that are not in "present".
Between(all, a, b) == {d \in all : a <= d /\ d <= b}

Gaps(all, present) ==
    {gap \in {Between(all, ab[1], ab[2]) : ab \in all \X all} : gap \cap present = {}}

LongestGap(all, present) == Max({0} \cup {Cardinality(gap) : gap \in Gaps(all, present)})

-----------------------------------------------------------------------------
\* Daily.  A symbol's bars are a sequence of [time, day, o, h, l, c, v].

Prices(b) == {b.o, b.h, b.l, b.c}
InvalidPrice(b) == \E p \in Prices(b) : p <= 0
InvalidOhlc(b) == ~InvalidPrice(b) /\ \E p \in Prices(b) : p > b.h \/ p < b.l
Duplicated(bars) == \E i, j \in DOMAIN bars : i < j /\ bars[i].time = bars[j].time
Unsorted(bars) == \E i, j \in DOMAIN bars : i < j /\ bars[i].time > bars[j].time

StructuralIssues(bars) ==
    {issue \in {"duplicate_timestamps", "non_monotonic_timestamps", "invalid_price",
                "invalid_ohlc_relationship", "invalid_volume"} :
        CASE issue = "duplicate_timestamps" -> Duplicated(bars)
          [] issue = "non_monotonic_timestamps" -> ~Duplicated(bars) /\ Unsorted(bars)
          [] issue = "invalid_price" -> \E i \in DOMAIN bars : InvalidPrice(bars[i])
          [] issue = "invalid_ohlc_relationship" -> \E i \in DOMAIN bars : InvalidOhlc(bars[i])
          [] issue = "invalid_volume" -> \E i \in DOMAIN bars : bars[i].v < 0}

RequestedDates(bars, start, end) == {bars[i].day : i \in DOMAIN bars} \cap (start..end)

\* A day counts as a session when any symbol has a bar of it.
ExpectedDates(universe, start, end) ==
    UNION {RequestedDates(universe[s], start, end) : s \in DOMAIN universe}

WindowWarnings(observed, expected, start, end) ==
    {issue \in {"requested_window_starts_after_requested_start",
                "requested_window_ends_before_requested_end",
                "requested_window_coverage_below_98pct",
                "requested_window_gap_over_2_sessions"} :
        CASE issue = "requested_window_starts_after_requested_start" ->
                observed # {} /\ Min(observed) > start + REQUESTED_WINDOW_EDGE_TOLERANCE
          [] issue = "requested_window_ends_before_requested_end" ->
                observed # {} /\ Max(observed) < end - REQUESTED_WINDOW_EDGE_TOLERANCE
          [] issue = "requested_window_coverage_below_98pct" ->
                100 * Cardinality(observed) < 98 * Cardinality(expected)
          [] issue = "requested_window_gap_over_2_sessions" ->
                LongestGap(expected, observed) > 2}

ScanBacktestBars(universe, start, end) ==
    LET Observed(s) == RequestedDates(universe[s], start, end)
    IN  [s \in DOMAIN universe |->
            [blockers |-> StructuralIssues(universe[s]),
             warnings |-> WindowWarnings(Observed(s), ExpectedDates(universe, start, end), start, end)]]

Blocks(report) == \E s \in DOMAIN report : report[s].blockers # {}

-----------------------------------------------------------------------------
\* Intraday.  A session is a sequence of [off, vol], its bars in [0, close).

ExpectedBars(close, tf) == (close + tf - 1) \div tf
LastGridOffset(close, tf) == (ExpectedBars(close, tf) - 1) * tf
Offsets(session) == {session[i].off : i \in DOMAIN session}

OnGrid(offsets, close, tf) ==
    {off \in offsets : off % tf = 0 /\ 0 <= off /\ off <= LastGridOffset(close, tf)}

\* What lies between the first and the last bar on the grid.
Spanned(grid, tf) ==
    {off \in Min(grid)..Max(grid) : (off - Min(grid)) % tf = 0}

SessionIssues(session, close, tf) ==
    LET offsets == Offsets(session)
        grid == OnGrid(offsets, close, tf)
        expected == ExpectedBars(close, tf)
    IN  {issue \in {"intraday_offgrid_or_duplicate_bars", "intraday_missing_session_open_bar",
                    "intraday_missing_session_close_bar",
                    "intraday_session_coverage_below_threshold",
                    "intraday_intra_session_gap", "intraday_zero_volume_bars"} :
            CASE issue = "intraday_offgrid_or_duplicate_bars" ->
                    \/ \E off \in offsets : off % tf # 0
                    \/ Len(session) > Cardinality(offsets)
              [] issue = "intraday_missing_session_open_bar" -> 0 \notin offsets
              [] issue = "intraday_missing_session_close_bar" ->
                    LastGridOffset(close, tf) \notin offsets
              [] issue = "intraday_session_coverage_below_threshold" ->
                    10 * Cardinality(grid) < 9 * expected
              [] issue = "intraday_intra_session_gap" ->
                    grid # {} /\ LongestGap(Spanned(grid, tf), grid) > 1
              [] issue = "intraday_zero_volume_bars" ->
                    grid # {} /\ \E i \in DOMAIN session : session[i].vol = 0}

StaleTail(days, end) == Max(days) < end - STALE_TAIL_TOLERANCE
=============================================================================
