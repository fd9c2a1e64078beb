------------------------------- MODULE RiskDesk -------------------------------
(***************************************************************************)
(* One paper account under an operator's risk profile.  Traders whose   *)
(* runners are up enter and exit; every order is judged by RiskRules under *)
(* the limits that risk_profile.txt selects at that moment, is placed as   *)
(* an unpriced market order and fills later, at the price of then.  The    *)
(* GUI switches the profile in steps: it looks at the runners and the kill *)
(* switch, replaces the file, writes the audit row; the file may also be   *)
(* edited by hand.                                                         *)
(*                                                                         *)
(* A submit is one action here: SubmitPath has its steps, its lock, its    *)
(* duplicates and its failures.  Bounds: MaxOrders orders, MaxMoves price  *)
(* moves, MaxSwitches changes of the selector.                             *)
(***************************************************************************)
EXTENDS RiskRules

CONSTANTS Traders,       \* strategies of the account
          Tickers,       \* symbols they trade
          Quantities,    \* bound: the sizes of an entry
          Prices,        \* bound: the prices a symbol may have
          StartCash,     \* what the account is worth when it is opened
          Elsewhere,     \* shares by symbol that are in no trader's ledger: the
                         \* operator's own, or a short of a strategy that is gone
          BaseLimits,    \* configs/risk_defaults.yaml
          Overlays,      \* configs/risk_profiles, by profile
          Ceilings,      \* _ABSOLUTE_CEILINGS
          StrategyMax,   \* risk.max_positions of every strategy
          MaxOrders, MaxMoves, MaxSwitches

\* Money and shares are counted, and so are the accounts that hold them.
ASSUME DeskAssumption ==
    /\ IsFiniteSet(Traders) /\ IsFiniteSet(Tickers)
    /\ Quantities \subseteq Nat /\ Prices \subseteq Nat /\ StartCash \in Int
    /\ Elsewhere \in [Tickers -> Int]

\* Whichever profile is merged over the defaults, its exposure cap is a number:
\* _risk_defaults_from_dict converts it, and raises on anything else.
ASSUME CapAssumption ==
    /\ "exposurePct" \in DOMAIN BaseLimits /\ BaseLimits.exposurePct \in Int
    /\ \A p \in Profiles : Overlays[p] # None /\ "exposurePct" \in DOMAIN Overlays[p]
                              => Overlays[p].exposurePct \in Int

VARIABLES selector,  \* risk_profile.txt
          audited,   \* to_profile of the last successful row
          gui,       \* a switch in flight
          running,   \* strategies with an open run
          halted,    \* the kill switch
          cash, price,
          lots,      \* shares by strategy and symbol
          orders,    \* market orders at the broker
          spent      \* orders, price moves and selector changes so far

account == <<cash, lots, orders>>
profile == <<selector, audited, gui>>
deskVars == <<profile, running, halted, account, price, spent>>

\* The broker nets what everybody holds of a symbol: it may hold nothing, or be
\* short, while a trader's ledger has a lot (ADR 0055).
Shares(y) == Elsewhere[y] + SumFunction([s \in Traders |-> lots[s][y]])
Invested == SumFunction([y \in Tickers |-> Shares(y) * price[y]])
PortfolioValue == cash + Invested

NoSwitch == [at |-> "idle", to |-> None]

DeskInit ==
    /\ selector = None /\ audited = None /\ gui = NoSwitch
    /\ running = {} /\ halted = FALSE
    /\ price \in [Tickers -> Prices]
    /\ lots = [s \in Traders |-> [y \in Tickers |-> 0]]
    /\ cash = StartCash - Invested
    /\ orders = {}
    /\ spent = [orders |-> 0, moves |-> 0, switches |-> 0]

-----------------------------------------------------------------------------

Limits == LoadProfile(selector, BaseLimits, Overlays, Ceilings)

\* The context of strategy s's order, with fresh data, an open market and a
\* matching manifest: those checks are SubmitPath's and Governance's matter.
Context(s, intent) ==
    [intent |-> intent,
     price |-> price[intent.symbol],
     portfolioValue |-> PortfolioValue, dailyPnl |-> PortfolioValue - StartCash,
     positions |-> [y \in Tickers |-> [quantity |-> Shares(y), value |-> Shares(y) * price[y]]],
     orders |-> {[symbol |-> o.symbol, side |-> o.side, remaining |-> None] : o \in orders},
     owned |-> lots[s],
     limits |-> Limits,
     strategy |-> [barSize |-> "1D", family |-> "meanrev", additional |-> {}, enabled |-> TRUE,
                   stage |-> "paper", positionPct |-> BaseLimits.positionPct,
                   lossPct |-> BaseLimits.lossPct],
     boundStage |-> "paper", boundMaxPositions |-> StrategyMax,
     boundPositionPct |-> None, boundLossPct |-> None,
     killed |-> halted, tradingMode |-> "paper", previewOnly |-> FALSE, backtest |-> FALSE,
     ready |-> TRUE, runtimeHash |-> "frozen", frozenHash |-> "frozen",
     marketOpen |-> TRUE, bar |-> [session |-> 0, time |-> 0], latestSession |-> 0,
     stalenessNow |-> 0, disableNow |-> 0, dailyCeiling |-> 0,
     tradesToday |-> 0, recentMatches |-> 0, broken |-> {}]

Intent(y, side, quantity) == [symbol |-> y, side |-> side, quantity |-> quantity]

\* An exit sells the strategy's own lot in full.
Exit(s, y) == Intent(y, "sell", lots[s][y])

Wanted(s) ==
    {Intent(y, "buy", q) : y \in {z \in Tickers : lots[s][z] = 0}, q \in Quantities}
        \cup {Exit(s, y) : y \in {z \in Tickers : lots[s][z] > 0}}

Waiting(s, y) == \E o \in orders : o.strategy = s /\ o.symbol = y

\* An order is blind when what it fills into is not what it was judged on: a
\* pending market order has no price, and no cap on money counts it.
Blind(os) == {[o EXCEPT !.blind = TRUE] : o \in os}

Spend(what) == spent' = [spent EXCEPT ![what] = @ + 1]

-----------------------------------------------------------------------------

Place(s, intent) ==
    /\ s \in running /\ intent \in Wanted(s) /\ ~Waiting(s, intent.symbol)
    /\ spent.orders < MaxOrders
    /\ Limits # None /\ Allowed(Context(s, intent))
    /\ orders' = (IF intent.side = "buy" THEN Blind(orders) ELSE orders) \cup
          {[id |-> spent.orders, strategy |-> s, symbol |-> intent.symbol,
            side |-> intent.side, quantity |-> intent.quantity,
            blind |-> \E o \in orders : o.side = "buy"]}
    /\ Spend("orders")
    /\ UNCHANGED <<profile, running, halted, cash, lots, price>>

\* A veto for a loss beyond the profile's drawdown halts trading.
Trip(s, intent) ==
    /\ s \in running /\ intent \in Wanted(s) /\ ~Waiting(s, intent.symbol)
    /\ ~halted /\ Limits # None /\ BreachesKillSwitch(Context(s, intent))
    /\ halted' = TRUE /\ orders' = {}
    /\ UNCHANGED <<profile, running, cash, lots, price, spent>>

Filled(o) ==
    LET signed == IF o.side = "buy" THEN o.quantity ELSE -o.quantity
    IN  /\ o \in orders
        /\ orders' = orders \ {o}
        /\ lots' = [lots EXCEPT ![o.strategy][o.symbol] = @ + signed]
        /\ cash' = cash - signed * price[o.symbol]
        /\ UNCHANGED <<profile, running, halted, price, spent>>

MovePrice(y, to) ==
    /\ spent.moves < MaxMoves /\ to # price[y]
    /\ price' = [price EXCEPT ![y] = to]
    /\ orders' = Blind(orders)
    /\ Spend("moves")
    /\ UNCHANGED <<profile, running, halted, cash, lots>>

\* The operator's reset; a loss that is still there trips again.
ResetKillSwitch ==
    /\ halted /\ halted' = FALSE
    /\ UNCHANGED <<profile, running, account, price, spent>>

StartRunner(s) == /\ s \notin running /\ ~halted /\ running' = running \cup {s}
                  /\ UNCHANGED <<profile, halted, account, price, spent>>

StopRunner(s) == /\ s \in running /\ running' = running \ {s}
                 /\ UNCHANGED <<profile, halted, account, price, spent>>

-----------------------------------------------------------------------------
(* The profile                                                             *)

\* attempt_switch reads the selector, the open runs and the kill switch.  The
\* token is the one the dialog asks for.
AttemptSwitch(target) ==
    /\ gui = NoSwitch /\ spent.switches < MaxSwitches
    /\ \E token \in {target, "reduction"} :
          SwitchRefusal(selector, target, running, halted, token) = None
    /\ gui' = [at |-> "write", to |-> target]
    /\ Spend("switches")
    /\ UNCHANGED <<selector, audited, running, halted, account, price>>

\* One os.replace.
WriteProfileFile ==
    /\ gui.at = "write"
    /\ selector' = gui.to /\ gui' = [gui EXCEPT !.at = "audit"]
    /\ orders' = Blind(orders)
    /\ UNCHANGED <<audited, running, halted, cash, lots, price, spent>>

Audit ==
    /\ gui.at = "audit"
    /\ audited' = gui.to /\ gui' = NoSwitch
    /\ UNCHANGED <<selector, running, halted, account, price, spent>>

GuiDies ==
    /\ gui # NoSwitch /\ gui' = NoSwitch
    /\ UNCHANGED <<selector, audited, running, halted, account, price, spent>>

HandEdit(name) ==
    /\ spent.switches < MaxSwitches /\ name # selector
    /\ selector' = name
    /\ orders' = Blind(orders)
    /\ Spend("switches")
    /\ UNCHANGED <<audited, gui, running, halted, cash, lots, price>>

DeskNext ==
    \/ \E s \in Traders :
          \/ \E intent \in Wanted(s) : Place(s, intent) \/ Trip(s, intent)
          \/ StartRunner(s) \/ StopRunner(s)
    \/ \E o \in orders : Filled(o)
    \/ \E y \in Tickers, to \in Prices : MovePrice(y, to)
    \/ \E p \in Profiles : AttemptSwitch(p)
    \/ \E name \in Profiles \cup {"unknown"} : HandEdit(name)
    \/ WriteProfileFile \/ Audit \/ GuiDies \/ ResetKillSwitch

DeskSpec == DeskInit /\ [][DeskNext]_deskVars

-----------------------------------------------------------------------------

\* Types: a lot is never short, the selector holds a profile, junk or nothing.
DeskTypeOK ==
    /\ selector \in Profiles \cup {None, "unknown"} /\ audited \in Profiles \cup {None}
    /\ gui.at \in {"idle", "write", "audit"}
    /\ running \subseteq Traders /\ halted \in BOOLEAN
    /\ \A s \in Traders, y \in Tickers : lots[s][y] >= 0

Held == {h \in Traders \X Tickers : lots[h[1]][h[2]] > 0}

\* A held lot that the broker's net position covers passes the caps on money and
\* the reconciliation gate on its way out, however prices moved, whatever else is
\* held of the symbol and whichever profile is in force since: evaluator.py:601
\* tells of positions that those caps had made impossible to sell.  A lot that
\* others have sold from under its strategy is to the evaluator a naked short.
ExitsPassCaps ==
    \A h \in Held :
        Limits # None /\ lots[h[1]][h[2]] <= Shares(h[2]) =>
            Failing([Context(h[1], Exit(h[1], h[2])) EXCEPT !.ready = FALSE])
                \cap {"order_value", "single_position_limit", "total_exposure",
                      "reconciliation_readiness"} = {}

\* "a held position must ALWAYS be exitable in full" (risk/evaluator.py:645):
\* while trading is not halted and nothing is pending, no check stops its exit.
HeldIsExitable ==
    \A h \in Held :
        LET c == Context(h[1], Exit(h[1], h[2]))
        IN  ~halted /\ orders = {} /\ Limits # None /\ DailyLoss(c) => Failing(c) = {}

\* A buy that filled as it was judged leaves the account within the exposure cap
\* in force, with every earlier fill of the same account counted.
FillsWithinExposure ==
    [][\A o \in orders :
          o.side = "buy" /\ ~o.blind /\ lots' # lots /\ orders' = orders \ {o} =>
              Invested' * 100 <= PortfolioValue' * Limits'.exposurePct]_deskVars

\* "a 'no running runners' precondition before writing a new profile"
\* (docs/adr/0054-risk-profiles-bounded-operator-preferences.md:84): no session is under way when the selector
\* is replaced.
SwitchesBetweenSessions == [][gui'.at = "audit" /\ gui.at = "write" => running = {}]_deskVars
=============================================================================
