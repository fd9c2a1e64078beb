------------------------------ MODULE RiskRules ------------------------------
(***************************************************************************)
(* What the risk layer decides, as operators: the seventeen checks of      *)
(* risk/evaluator.py over one EvaluationContext, the staleness and disable *)
(* condition policies they consult, the structural subset of the backtest  *)
(* policy, and the operator's risk profile: how the selector file becomes  *)
(* limits, when it may be switched and when its audit trail disagrees.     *)
(*                                                                         *)
(* A context c is a record.  Positions and the strategy's own lots are     *)
(* functions of every symbol, open orders a set; money and percentages are *)
(* integers and a cap compares value * 100 with portfolio value * percent. *)
(* None stands for every value that was not supplied.                      *)
(***************************************************************************)
EXTENDS Integers, FiniteSets, Functions

CONSTANT None

NonNegative(n) == IF n > 0 THEN n ELSE 0
Least(a, b) == IF a < b THEN a ELSE b

-----------------------------------------------------------------------------
(* risk/exposure.py                                                        *)

Buys(c) == c.intent.side = "buy"

\* _held_long_qty: a short counts as nothing.
HeldLong(c) == NonNegative(c.positions[c.intent.symbol].quantity)

IsExposureIncreasing(c) == Buys(c) \/ c.intent.quantity > HeldLong(c)

\* estimated_order_value, at the larger of the candidate prices.
OrderNotional(c) == c.price * c.intent.quantity

\* exposure_increasing_notional: a buy, or what a sell takes beyond the long.
IncreasingNotional(c) ==
    IF Buys(c) THEN OrderNotional(c)
    ELSE c.price * NonNegative(c.intent.quantity - HeldLong(c))

-----------------------------------------------------------------------------
(* The caps of risk/evaluator.py                                           *)

Within(c, value, percent) == value * 100 <= c.portfolioValue * percent

\* The smaller of the account's cap and the strategy's, as bound by its runner
\* if there is one.
Effective(c, account, bound, declared) ==
    IF c.strategy = None THEN account
    ELSE Least(account, IF bound # None THEN bound ELSE declared)

PositionPct(c) ==
    Effective(c, c.limits.positionPct, c.boundPositionPct, c.strategy.positionPct)
DailyLossPct(c) == Effective(c, c.limits.lossPct, c.boundLossPct, c.strategy.lossPct)

\* What is held now, after the order.
Projected(c, current) ==
    IF Buys(c) THEN current + OrderNotional(c)
    ELSE NonNegative(current - (OrderNotional(c) - IncreasingNotional(c)))
             + IncreasingNotional(c)

\* Fault: the cap also judges a covered sell, as it did before DC-1.
OrderValueOfAll(c) == Within(c, OrderNotional(c), c.limits.orderPct)

OrderValue(c) ==
    IsExposureIncreasing(c) => Within(c, OrderNotional(c), c.limits.orderPct)

SinglePosition(c) ==
    IsExposureIncreasing(c) =>
        Within(c, Projected(c, c.positions[c.intent.symbol].value), PositionPct(c))

OpenBuys(c) == {o \in c.orders : o.side = "buy"}

\* Every position, and the unfilled part of every priced open buy.
Exposure(c) ==
    SumFunction([s \in DOMAIN c.positions |-> c.positions[s].value])
  + SumFunction([o \in {b \in OpenBuys(c) : b.remaining # None} |-> o.remaining])

\* Fault: what is already held is left out.
TotalExposureOfOrders(c) ==
    IsExposureIncreasing(c) => Within(c, Projected(c, 0), c.limits.exposurePct)

TotalExposure(c) ==
    IsExposureIncreasing(c) => Within(c, Projected(c, Exposure(c)), c.limits.exposurePct)

\* A buy of a new symbol takes a slot, a full exit frees one.
ProjectedCount(c, occupied, held, frees) ==
    Cardinality(occupied)
  + (IF Buys(c) /\ c.intent.symbol \notin occupied THEN 1 ELSE 0)
  - (IF ~Buys(c) /\ frees /\ c.intent.quantity >= held[c.intent.symbol] THEN 1 ELSE 0)

\* Account-wide, an open buy holds its slot before it fills.
ConcurrentPositions(c) ==
    LET existing == {s \in DOMAIN c.positions : c.positions[s].quantity > 0}
        pending == {o.symbol : o \in OpenBuys(c)}
        held == [s \in DOMAIN c.positions |-> c.positions[s].quantity]
    IN  ProjectedCount(c, existing \cup pending, held, c.intent.symbol \in existing \ pending)
            <= c.limits.maxPositions

\* The strategy's own cap, over its own ledger.
StrategyConcurrentPositions(c) ==
    LET owned == {s \in DOMAIN c.owned : c.owned[s] > 0}
    IN  c.boundMaxPositions # None /\ c.strategy # None =>
            ProjectedCount(c, owned, c.owned, c.intent.symbol \in owned)
                <= c.boundMaxPositions

-----------------------------------------------------------------------------
(* Loss, staleness and disable conditions                                  *)

LossExceeds(c, percent) ==
    NonNegative(-c.dailyPnl) * 100
        > percent * (IF c.portfolioValue - c.dailyPnl > 1
                     THEN c.portfolioValue - c.dailyPnl ELSE 1)

\* kill_switch_threshold_breached: the service then halts trading.
BreachesKillSwitch(c) == c.limits.killEnabled /\ LossExceeds(c, c.limits.drawdownPct)

DailyLoss(c) == ~BreachesKillSwitch(c) /\ ~LossExceeds(c, DailyLossPct(c))

\* staleness_verdict: a daily bar must be the latest completed session's, any
\* other bar at most so many seconds old.
IsStale(c, now) ==
    \/ c.bar = None
    \/ IF c.strategy # None /\ c.strategy.barSize = "1D"
       THEN \/ c.latestSession = None
            \/ c.bar.session # c.latestSession
            \/ now - c.bar.time > c.dailyCeiling
       ELSE now - c.bar.time > c.limits.maxStaleness

Universal == {"data_quality_issue", "broker_execution_instability", "operator_declared_pause"}
EightConditions == Universal \cup
    {"abnormal_market_regime", "spread_liquidity_deterioration",
     "corporate_action_uncertainty", "fill_divergence", "drawdown_risk_budget_breach"}

DefaultConditions(family) ==
    CASE family \in {"meanrev", "momentum", "breakout"} -> EightConditions
      [] family = "seasonality" -> Universal \cup {"exchange_calendar_uncertainty"}
      [] OTHER -> Universal

EffectiveConditions(c) == DefaultConditions(c.strategy.family) \cup c.strategy.additional

\* _evaluate_drawdown_breach, written beside the check it mirrors.
DrawdownBreach(c) ==
    LET cap == IF c.strategy = None THEN c.limits.lossPct
               ELSE Least(c.limits.lossPct, IF c.boundLossPct # None THEN c.boundLossPct
                                            ELSE c.strategy.lossPct)
    IN  (c.limits.killEnabled /\ LossExceeds(c, c.limits.drawdownPct)) \/ LossExceeds(c, cap)

\* The three conditions that are evaluated; the others are only declared.
IsActive(c, condition, now) ==
    \/ condition = "data_quality_issue" /\ IsStale(c, now)
    \/ condition = "drawdown_risk_budget_breach" /\ DrawdownBreach(c)
    \/ condition = "operator_declared_pause" /\ c.killed

DisableConditions(c) ==
    c.backtest \/ c.strategy = None
        \/ \A k \in EffectiveConditions(c) : ~IsActive(c, k, c.disableNow)

-----------------------------------------------------------------------------
(* The checks about the strategy and the session                           *)

ReconciliationReadiness(c) == c.backtest \/ ~IsExposureIncreasing(c) \/ c.ready

\* The runner's stage, when it has one.
EffectiveStage(c) == IF c.boundStage # None THEN c.boundStage ELSE c.strategy.stage

AllowedStages(mode) == IF mode = "paper" THEN {"paper"} ELSE {}

StrategyStage(c) ==
    c.strategy = None
        \/ (c.strategy.enabled /\ EffectiveStage(c) \in AllowedStages(c.tradingMode))

AnchorsManifest(c) ==
    ~c.backtest /\ c.strategy # None /\ EffectiveStage(c) \in {"paper", "micro_live", "live"}

\* A promoted stage without a runtime hash is an error that leaves evaluate.
Raises(c) == AnchorsManifest(c) /\ c.runtimeHash = None

ManifestDrift(c) ==
    AnchorsManifest(c) => c.frozenHash # None /\ c.runtimeHash = c.frozenHash

OppositeSide(c) ==
    \A o \in c.orders : o.symbol = c.intent.symbol => o.side = c.intent.side

Verdicts(c) ==
    [kill_switch |-> ~c.killed,
     trading_mode |-> c.previewOnly \/ c.tradingMode = "paper",
     reconciliation_readiness |-> ReconciliationReadiness(c),
     strategy_stage |-> StrategyStage(c),
     manifest_drift |-> ManifestDrift(c),
     disable_conditions |-> DisableConditions(c),
     market_open |-> c.previewOnly \/ c.marketOpen,
     data_staleness |-> ~IsStale(c, c.stalenessNow),
     daily_loss |-> DailyLoss(c),
     max_trades_per_day |-> c.tradesToday < c.limits.maxTrades,
     order_value |-> OrderValue(c),
     single_position_limit |-> SinglePosition(c),
     total_exposure |-> TotalExposure(c),
     concurrent_positions |-> ConcurrentPositions(c),
     strategy_concurrent_positions |-> StrategyConcurrentPositions(c),
     duplicate_order |-> c.recentMatches = 0,
     opposite_side_order |-> OppositeSide(c)]

Checks == {"kill_switch", "trading_mode", "reconciliation_readiness", "strategy_stage",
           "manifest_drift", "disable_conditions", "market_open", "data_staleness",
           "daily_loss", "max_trades_per_day", "order_value", "single_position_limit",
           "total_exposure", "concurrent_positions", "strategy_concurrent_positions",
           "duplicate_order", "opposite_side_order"}

\* A check that raises has failed: c.broken names them.
Failing(c) == LET verdict == Verdicts(c)
              IN  {k \in Checks : k \in c.broken \/ ~verdict[k]}

Allowed(c) == ~Raises(c) /\ Failing(c) = {}

\* BacktestStructuralRiskEvaluator.
Structural == {"order_value", "single_position_limit", "total_exposure",
               "concurrent_positions", "strategy_concurrent_positions"}
StructurallyAllowed(c) == \A k \in Structural : Verdicts(c)[k]

-----------------------------------------------------------------------------
(* The risk profile: risk/config.py and risk/profile_activation.py         *)

Profiles == {"conservative", "standard", "aggressive"}
RiskOrder == [conservative |-> 0, standard |-> 1, aggressive |-> 2]

\* get_active_profile_name: no file, or none that can be read.
ActiveName(selector) == IF selector = None THEN "conservative" ELSE selector

\* An overlay wins over the base; None is a malformed one.  The result is None
\* when the profile is refused: no limits, no trading.
LoadProfile(selector, base, overlay, ceilings) ==
    LET name == IF ActiveName(selector) \in Profiles THEN ActiveName(selector)
                ELSE "conservative"
        chosen == IF overlay[name] # None THEN overlay[name] ELSE overlay["conservative"]
        merged == [f \in DOMAIN base |->
                      IF f \in DOMAIN chosen THEN chosen[f] ELSE base[f]]
    IN  IF chosen = None \/ \E f \in DOMAIN ceilings : merged[f] > ceilings[f]
        THEN None ELSE merged

\* attempt_switch's verdict; confirmed is the typed name or the reduction token.
SwitchRefusal(selector, target, running, killed, confirmed) ==
    IF target \notin Profiles THEN "unknown_profile"
    ELSE IF ActiveName(selector) \notin Profiles THEN "invalid_current_profile"
    ELSE IF running # {} THEN "active_runners"
    ELSE IF killed THEN "kill_switch_open"
    ELSE IF RiskOrder[target] > RiskOrder[ActiveName(selector)]
         THEN IF confirmed = target THEN None ELSE "typed_confirmation_mismatch"
         ELSE IF confirmed = "reduction" THEN None ELSE "reduction_confirmation_missing"

\* reconcile_profile_against_audit: audited is the last successful row's profile.
Diverges(selector, audited) ==
    ~ \/ audited = None /\ ActiveName(selector) = "conservative"
      \/ ActiveName(selector) \in Profiles /\ ActiveName(selector) = audited
=============================================================================
