------------------------------ MODULE Backtest ------------------------------
(***************************************************************************)
(* A backtest: backtesting/engine.py walks a price history bar by bar, and *)
(* backtesting/simulation_kernel.py keeps cash, positions and the orders   *)
(* decided but not yet filled.  What is decided at the close of one bar    *)
(* fills at the open of the next; the daily walk drops an order whose      *)
(* symbol did not open, the intraday walk keeps it, and a same-session     *)
(* strategy is flattened at the close of every session.                    *)
(*                                                                         *)
(* The history is not given: every bar is chosen when its time comes, so a *)
(* behaviour is a run over one price history.  A daily session is one bar  *)
(* of each symbol; an intraday one is a number of bars of one symbol.      *)
(* Prices are whole units, money is in tenths of one.  The risk policy is  *)
(* BYPASS, the default: every order reaches the simulated broker.          *)
(***************************************************************************)
EXTENDS IntradayStrategies

CONSTANTS Families,      \* the strategies that may be run
          Candles,       \* Candles[kind][s]: the bars s may print, by kind of walk
          NoBar,         \* s did not trade
          InitialCash,
          Slip,          \* slippage_pct, in tenths
          Commission,    \* commission_per_trade
          MaxDays        \* bound: trading days of the window, by kind of walk

\* What bar_quality.py lets pass: prices are positive.
Price == Nat \ {0}
Candle == [o : Price, h : Price, l : Price, c : Price, v : Nat]

ASSUME BacktestAssumption ==
    /\ Families \subseteq DailyFamilies \cup IntradayFamilies
    /\ {InitialCash, Slip, Commission} \subseteq Nat /\ Slip <= 10
    /\ \A s \in Symbols : Candles["daily"][s] \subseteq Candle
    /\ Candles["intraday"][RiskOn] \subseteq Candle
    /\ {MaxDays["daily"], MaxDays["intraday"]} \subseteq Nat \ {0}

VARIABLES family, day, slot, phase, half, draw,
          bars,          \* bars[s]: what s has printed so far
          cash, pos,     \* the kernel's books
          pending,       \* orders waiting for an open
          tally,         \* orders decided, filled, skipped, forced
          entries        \* entry decisions of this session
vars == <<family, day, slot, phase, half, draw, bars, cash, pos, pending, tally, entries>>
walk == <<family, day, half, draw>>

SameSession == family \in IntradayFamilies
Walked == IF SameSession THEN {RiskOn} ELSE Symbols
LastSlot == IF ~SameSession THEN 0 ELSE IF half THEN HalfSlots - 1 ELSE Slots - 1
Kind == IF SameSession THEN "intraday" ELSE "daily"
LastDay == MaxDays[Kind]

\* s has traded today.
Today(s) == bars[s] # None /\ Last(bars[s]).day = day

\* Whoever prints a bar, and what it opens at.
Printed(new) == {s \in Walked : new[s] # NoBar}
Opens(new) == [s \in Printed(new) |-> new[s].o]

\* Every session a strategy sees is drawn: its length, and the entry slot of
\* the random benchmark.
Halves == IF SameSession THEN BOOLEAN ELSE {FALSE}
Draws == IF family = "random_matched"
         THEN 0..(OpeningRange + EntryWindow - 1) ELSE {0}

Init == /\ family \in Families
        /\ day = 1 /\ slot = 0 /\ phase = "open"
        /\ half \in Halves /\ draw \in Draws
        /\ bars = [s \in Symbols |-> None]
        /\ cash = InitialCash /\ pos = << >> /\ pending = None
        /\ tally = [decided |-> 0, filled |-> 0, skipped |-> 0, forced |-> 0]
        /\ entries = 0

\* The bar is over: the next one opens, or the session ends.
Advance == IF slot < LastSlot THEN phase' = "open" /\ slot' = slot + 1
           ELSE phase' = (IF SameSession THEN "close" ELSE "night") /\ UNCHANGED slot

-----------------------------------------------------------------------------
(* The kernel                                                              *)

\* compute_equity: a symbol without a close counts at its entry price.
Equity == LET worth(i) == IF Universe[i] \notin DOMAIN pos THEN 0
                          ELSE pos[Universe[i]].qty * 10 * Close(bars[Universe[i]])
          IN  cash + Total([i \in DOMAIN Universe |-> worth(i)])

BuyFill(price) == price * (10 + Slip)
SellFill(price) == price * (10 - Slip)

Without(f, s) == [t \in DOMAIN f \ {s} |-> f[t]]

\* A position is gone and its proceeds are in.
Sold(k, s, price) ==
    [k EXCEPT !.cash = @ + SellFill(price) * k.pos[s].qty - Commission,
              !.pos = Without(@, s), !.filled = @ + 1]

\* _skip_missing_or_invalid_sell
SellSkipped(k, o, opens) == \/ o.sym \notin DOMAIN k.pos
                            \/ o.sym \notin DOMAIN opens
                            \/ opens[o.sym] <= 0

AffordableBeforeCosts(k, o, price) == k.cash >= 10 * price * o.qty

Affordable(k, o, price) == k.cash >= BuyFill(price) * o.qty + Commission

\* _buy_skip_reason
BuySkipped(k, o, opens) == \/ o.sym \in DOMAIN k.pos
                           \/ o.sym \notin DOMAIN opens
                           \/ opens[o.sym] <= 0
                           \/ ~Affordable(k, o, opens[o.sym])

Bought(k, o, price) ==
    [k EXCEPT !.cash = @ - BuyFill(price) * o.qty - Commission,
              !.pos = [t \in DOMAIN @ \cup {o.sym} |->
                          IF t = o.sym
                          THEN [qty |-> o.qty, price |-> BuyFill(price), opened |-> day]
                          ELSE k.pos[t]],
              !.filled = @ + 1]

Skip(k) == [k EXCEPT !.skipped = @ + 1]

Filled(k, o, opens) ==
    IF o.side = "sell"
    THEN IF SellSkipped(k, o, opens) THEN Skip(k) ELSE Sold(k, o.sym, opens[o.sym])
    ELSE IF BuySkipped(k, o, opens) THEN Skip(k) ELSE Bought(k, o, opens[o.sym])

OfSide(q, side) == {i \in DOMAIN q : q[i].side = side}

\* The orders a drain leaves in the queue: MissingOpenPolicy.RETAIN keeps
\* those whose symbol does not open, SKIP none.
Waiting(q, opens) == {i \in DOMAIN q : SameSession /\ q[i].sym \notin DOMAIN opens}
Retained(q, opens) == Kept(q, Waiting(q, opens))
Drainable(q, opens) == DOMAIN q \ Waiting(q, opens)

Books == [cash |-> cash, pos |-> pos, filled |-> 0, skipped |-> 0]

\* The orders at the places P, one after the other, on the books k.
FilledAll(k, q, P, opens) ==
    LET f[i \in 0..Len(q)] == IF i = 0 THEN k
                              ELSE IF i \in P THEN Filled(f[i - 1], q[i], opens)
                              ELSE f[i - 1]
    IN  f[Len(q)]

\* drain_pending_orders: the sells, then the buys, on the books they leave.
Drained(q, opens) ==
    LET due == Drainable(q, opens)
        sold == FilledAll(Books, q, due \cap OfSide(q, "sell"), opens)
    IN  FilledAll(sold, q, due \cap OfSide(q, "buy"), opens)

Posted(k) == /\ cash' = k.cash /\ pos' = k.pos
             /\ tally' = [tally EXCEPT !.filled = @ + k.filled, !.skipped = @ + k.skipped]

-----------------------------------------------------------------------------
(* The walk                                                                *)

Stamped(b) == [day |-> day, slot |-> slot,
               o |-> b.o, h |-> b.h, l |-> b.l, c |-> b.c, v |-> b.v]

\* A new bar starts for some symbols; what was pending fills at its open.
\* A day on which nothing prints is not a trading day.
Open(new) ==
    /\ phase = "open"
    /\ slot = LastSlot => \E s \in Walked : s \in Printed(new) \/ Today(s)
    /\ bars' = [s \in Symbols |-> IF s \in Printed(new)
                                 THEN Append(bars[s], Stamped(new[s])) ELSE bars[s]]
    /\ Posted(Drained(pending, Opens(new)))
    /\ pending' = Retained(pending, Opens(new))
    /\ IF Printed(new) = {} THEN Advance ELSE phase' = "decide" /\ UNCHANGED slot
    /\ UNCHANGED <<walk, entries>>

Decision ==
    LET view == [bars |-> bars, pos |-> pos, equity |-> Equity, day |-> day,
                 draw |-> draw, half |-> half]
    IN  IF SameSession THEN IntradayDecision(family, view) ELSE DailyDecision(family, view)

\* simulate_decision_step, when the bars just printed are complete.
Decide ==
    LET orders == Decision
    IN  /\ phase = "decide"
        /\ pending' = pending \o orders
        /\ tally' = [tally EXCEPT !.decided = @ + Len(orders)]
        /\ entries' = entries + Cardinality(OfSide(orders, "buy"))
        /\ Advance
        /\ UNCHANGED <<walk, bars, cash, pos>>

LiquidatedWithoutExit ==
    {s \in DOMAIN pos : /\ Today(s)
                        /\ \A i \in DOMAIN pending : pending[i].sym # s}

\* liquidate_open_positions: every position with a close of this session.
Liquidated == {s \in DOMAIN pos : Today(s)}

\* The symbols of q sold at their closes, one after the other.
SoldOff(k, q) ==
    LET f[i \in 0..Len(q)] ==
            IF i = 0 THEN k ELSE Sold(f[i - 1], q[i], Close(bars[q[i]]))
    IN  f[Len(q)]

SupersededWhole == DOMAIN pending

\* A pending sell of a flattened symbol goes with its position.
Superseded == {i \in OfSide(pending, "sell") : pending[i].sym \in Liquidated}

\* The positions somebody already ordered out of.
Leaving == {pending[i].sym : i \in OfSide(pending, "sell")}

\* The end of a same-session strategy's session: a position without an order
\* of its own is forced out.
Flatten ==
    LET k == SoldOff(Books, InOrder(Liquidated))
    IN  /\ phase = "close" /\ phase' = "night"
        /\ cash' = k.cash /\ pos' = k.pos
        /\ pending' = Kept(pending, DOMAIN pending \ Superseded)
        /\ tally' = [tally EXCEPT !.filled = @ + k.filled,
                                  !.forced = @ + Cardinality(Liquidated \ Leaving)]
        /\ UNCHANGED <<walk, slot, bars, entries>>

\* Of an earlier session a same-session strategy sees only the last close.
Remembered(q) == IF SameSession /\ q # None THEN <<Last(q)>> ELSE q

NextDay ==
    /\ phase = "night" /\ day < LastDay
    /\ day' = day + 1 /\ slot' = 0 /\ phase' = "open"
    /\ half' \in Halves /\ draw' \in Draws
    /\ bars' = [s \in Symbols |-> Remembered(bars[s])]
    /\ entries' = 0
    /\ UNCHANGED <<family, cash, pos, pending, tally>>

\* _finalize_simulation: an order with no next bar is recorded as skipped.
Finish ==
    /\ phase = "night" /\ day = LastDay
    /\ phase' = "done"
    /\ tally' = [tally EXCEPT !.skipped = @ + Len(pending)]
    /\ pending' = None
    /\ UNCHANGED <<walk, slot, bars, cash, pos, entries>>

Printable == UNION {Candles[Kind][s] : s \in Walked} \cup {NoBar}

Next == \/ \E new \in [Walked -> Printable] :
              /\ \A s \in Walked : new[s] \in Candles[Kind][s] \cup {NoBar}
              /\ Open(new)
        \/ Decide
        \/ Flatten
        \/ NextDay
        \/ Finish

Spec == Init /\ [][Next]_vars

-----------------------------------------------------------------------------

\* Types: the books, the queue and the walk have the shape the engine keeps.
TypeOK ==
    /\ family \in Families /\ day \in 1..LastDay /\ slot \in 0..LastSlot
    /\ phase \in {"open", "decide", "close", "night", "done"}
    /\ cash \in Int
    /\ DOMAIN pos \subseteq Walked
    /\ \A s \in DOMAIN pos : pos[s].qty > 0 /\ pos[s].opened \in 1..day
    /\ \A i \in DOMAIN pending : pending[i].sym \in Walked /\ pending[i].qty > 0

\* The kernel never spends money it does not have: a buy that the opening
\* price, its slippage and the commission make too expensive is skipped, even
\* though it was sized at an earlier close, and even when several orders of
\* one decision draw on the same cash.
NoBorrowing == cash >= 0

\* A same-session strategy is flat once its session is over, whether its exit
\* signal never came, came on the last bar, or its order found no open.
FlatAtClose == (SameSession /\ phase \in {"night", "done"}) => pos = << >>

\* An intraday rule enters at most once a session: the first breakout, dip or
\* crossing of the entry window, never a later one after its exit.
OneEntryPerSession == SameSession => entries <= 1

\* Every order a strategy decided is filled, recorded as skipped or still
\* waiting; the only other fills are the positions the session's end forces out
\* without an order.  A sell that the flattening overtakes is filled by it, once,
\* and a buy it overtakes waits for the next session.
OrdersAccounted ==
    tally.decided + tally.forced = tally.filled + tally.skipped + Len(pending)

\* The single-symbol families promise at most one position (the comment of
\* momentum_dual_absolute_gem.py calls it an invariant).
SingleAsset == family = "gem" => Cardinality(DOMAIN pos) <= 1
=============================================================================
