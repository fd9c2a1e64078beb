--------------------------- MODULE Reconciliation ---------------------------
(***************************************************************************)
(* Broker against store: operations/reconciliation.py with its callers (a  *)
(* runner's start, day rollover and shutdown, the CLI's reconcile), the    *)
(* verdict the risk gate reads, and the per-strategy ledger of             *)
(* risk/attribution.py, beside strategies that trade and a broker that     *)
(* fills, cancels and rejects.  Incidents and explanations are audit rows  *)
(* that no step reads back, and are left out.                              *)
(*                                                                         *)
(* One log stands for the trades and the adjustments.  Time inside a day   *)
(* is the length of the log: a pass folds what was stamped before it       *)
(* began.  SubmitPath has the submission step by step; here it is the      *)
(* broker's acceptance and, apart, the trade row.                          *)
(***************************************************************************)
EXTENDS Integers, Sequences, FiniteSets, FiniteSetsExt, SequencesExt, Functions

CONSTANTS Runners,  \* the strategies, one session each
          Operator,    \* the CLI: it holds milodex.runtime, so one at a time
          Symbols,
          Lot,         \* the size of an order; a part of it may fill alone
          OpenPage,    \* get_orders(limit=100)
          MaxOrders, MaxPasses, MaxDay   \* bounds

ASSUME ReconciliationAssumption ==
    /\ IsFiniteSet(Runners) /\ Operator \notin Runners
    /\ {Lot, OpenPage} \subseteq Nat \ {0}
    /\ {MaxOrders, MaxPasses, MaxDay} \subseteq Nat

VARIABLES book,      \* the broker's orders, oldest first
          log,       \* trades and adjustments, in the order of their ids
          latest,    \* the newest reconciliation_runs row
          pass,      \* what each process is doing
          up,        \* the sessions that run
          seenDay,   \* _last_reconcile_ny_day of each session
          day,       \* the New York trading day
          passes     \* how many passes have begun

vars == <<book, log, latest, pass, up, seenDay, day, passes>>

Never == -1
Parties == Runners \cup {Operator}
Kinds == {"startup", "rollover", "reconcile", "resolve", "sync"}
Orders == 1..Len(book)

AtRest == [at |-> "idle"]

\* A total that is carried on from start, over the values of f.
Running(start, f) == FoldFunction(+, start, f)

-----------------------------------------------------------------------------
(* The broker's side                                                       *)

IsOpen(o) == book[o].status \in {"pending", "partial"}
Signed(o) == IF book[o].side = "buy" THEN 1 ELSE -1
Held(sym) ==
    Running(0, [o \in {p \in Orders : book[p].sym = sym /\ book[p].got # 0}
                    |-> Signed(o) * book[o].got])

\* The newest open orders, as many as one page has.
OpenOrders == LET open == {o \in Orders : IsOpen(o)}
              IN  {o \in open : Cardinality({p \in open : p > o}) < OpenPage}

-----------------------------------------------------------------------------
(* The folds over the log                                                  *)

PositionAffecting == {"submitted", "accepted", "filled"}
OpenStatuses == {"submitted", "accepted"}

TradeRow(o, status, known, at) ==
    [order |-> o, status |-> status, known |-> known, at |-> at, day |-> day]
Adjustment(sym, delta) == [sym |-> sym, delta |-> delta, at |-> Len(log) + 1]

IsTrade(r) == "order" \in DOMAIN r

\* The rows stamped up to an instant; a fold is over a set of ids like this.
Before(n) == {i \in DOMAIN log : log[i].at <= n}
All == DOMAIN log

RowsOf(rows, o) == {i \in rows : IsTrade(log[i]) /\ log[i].order = o}
Recorded(rows) == {o \in Orders : RowsOf(rows, o) # {}}

\* The latest row of an order wins.
LastRow(rows, o) == log[Max(RowsOf(rows, o))]

Adjusted(rows, sym) ==
    Running(0, [i \in {j \in rows : ~IsTrade(log[j]) /\ log[j].sym = sym} |-> log[i].delta])

OfSymbol(rows, sym) == {o \in Recorded(rows) : book[o].sym = sym}

FoldOrders(rows, sym) ==
    [o \in {p \in OfSymbol(rows, sym) : LastRow(rows, p).status \in PositionAffecting}
        |-> Signed(o) * Lot]

FoldEveryRow(rows, sym) ==
    Running(Adjusted(rows, sym),
            [i \in {j \in rows : /\ IsTrade(log[j])
                                 /\ book[log[j].order].sym = sym
                                 /\ log[j].status \in PositionAffecting}
                |-> Signed(log[i].order) * Lot])

FoldPositions(rows, sym) == Running(Adjusted(rows, sym), FoldOrders(rows, sym))

LocalOpen(rows) == {o \in Recorded(rows) : LastRow(rows, o).status \in OpenStatuses}

\* The orders of S one after the other; a sale leaves no less than nothing.
Balance(S) ==
    LET held[o \in 0..Len(book)] ==
            IF o = 0 THEN 0
            ELSE IF o \notin S THEN held[o - 1]
            ELSE IF book[o].side = "buy" THEN held[o - 1] + Lot
            ELSE IF held[o - 1] > Lot THEN held[o - 1] - Lot ELSE 0
    IN  held[Len(book)]
LedgerOfSubmitted(s, sym) == Balance({o \in OfSymbol(All, sym) : book[o].by = s})

\* strategy_positions: the strategy's own orders, oldest first, never short.
Ledger(s, sym) == Balance({o \in OfSymbol(All, sym) :
                     book[o].by = s /\ LastRow(All, o).status \in PositionAffecting})

-----------------------------------------------------------------------------
(* The comparison                                                          *)

Kind(local, broker) == CASE local = broker -> "ok"
                         [] local = 0 /\ broker # 0 -> "broker_only"
                         [] local # 0 /\ broker = 0 -> "local_only"
                         [] OTHER -> "qty_mismatch"

PositionRow(rows, seen, sym) ==
    [sym |-> sym, kind |-> Kind(FoldPositions(rows, sym), seen[sym]),
     local |-> FoldPositions(rows, sym), broker |-> seen[sym]]
RowsOfLocal(rows, seen) ==
    {PositionRow(rows, seen, s) : s \in {t \in Symbols : FoldPositions(rows, t) # 0}}
PositionRows(rows, seen) == {PositionRow(rows, seen, s) : s \in Symbols}
ComparePositions(rows, seen) == {r \in PositionRows(rows, seen) : r.kind # "ok"}

LocalOnly(rows, page) == LocalOpen(rows) \ page

\* A local-only order is an incident for a day; whether that day is over for
\* an order of yesterday depends on the hour.
CompareOrders(rows, page, aged) ==
    {<<o, "broker_only">> : o \in page \ LocalOpen(rows)}
    \cup {<<o, "local_only">> : o \in {p \in LocalOnly(rows, page) :
            \/ LastRow(rows, p).day = day
            \/ LastRow(rows, p).day = day - 1 /\ ~aged}}

\* latest_readiness
Ready == latest.status = "clean" /\ latest.day = day

-----------------------------------------------------------------------------
\* A flat account; the sessions are about to begin their first day, or have
\* begun it and found the account so.
Init == /\ book = << >>
        /\ log = << >>
        /\ \/ /\ seenDay = [s \in Runners |-> Never]
              /\ latest = [status |-> "none"]
           \/ /\ seenDay = [s \in Runners |-> 0]
              /\ latest = [status |-> "clean", day |-> 0, asOf |-> 0, book |-> book]
        /\ pass = [p \in Parties |-> AtRest]
        /\ up = Runners
        /\ day = 0
        /\ passes = 0

(* Trading                                                                 *)

Increasing(sym, side) == side = "buy" \/ Held(sym) < Lot

NoOppositeOrder(sym, side) ==
    \A o \in Orders : IsOpen(o) /\ book[o].sym = sym => book[o].side = side

\* A cycle begins with the reconciliation of its day; then a strategy enters
\* what it does not have and leaves what it has, by its own ledger.
Place(s, sym, side) ==
    /\ s \in up /\ pass[s] = AtRest /\ seenDay[s] = day
    /\ Len(book) < MaxOrders
    /\ side = IF Ledger(s, sym) = 0 THEN "buy" ELSE "sell"
    /\ Increasing(sym, side) => Ready
    /\ NoOppositeOrder(sym, side)
    /\ book' = Append(book, [sym |-> sym, side |-> side, by |-> s,
                             status |-> "pending", got |-> 0])
    /\ pass' = [pass EXCEPT ![s] = [at |-> "record", order |-> Len(book) + 1]]
    /\ UNCHANGED <<log, latest, up, seenDay, day, passes>>

Record(s) ==
    /\ pass[s].at = "record"
    /\ log' = Append(log, TradeRow(pass[s].order, "submitted", TRUE, Len(log) + 1))
    /\ pass' = [pass EXCEPT ![s] = AtRest]
    /\ UNCHANGED <<book, latest, up, seenDay, day, passes>>

\* What the broker does with an open order; "cancelled" is also an order it
\* rejects or lets expire: neither the folds nor the sync treat them apart.
Settle(o, status, got) ==
    /\ IsOpen(o)
    /\ \/ status = "partial" /\ book[o].got < got /\ got < Lot
       \/ status = "filled" /\ got = Lot
       \/ status = "cancelled" /\ got = book[o].got
    /\ book' = [book EXCEPT ![o].status = status, ![o].got = got]
    /\ UNCHANGED <<log, latest, pass, up, seenDay, day, passes>>

\* Bound: a night after the last order has at most one session to outlive it.
NightBound == Len(book) < MaxOrders \/ Cardinality(up) <= 1

NewDay == /\ day < MaxDay /\ NightBound
          /\ day' = day + 1
          /\ UNCHANGED <<book, log, latest, pass, up, seenDay, passes>>

-----------------------------------------------------------------------------
(* A pass: run_reconciliation, and what the caller does with it            *)

\* The pass takes its instant and reads the broker's positions.
BeginPass(p, kind) ==
    /\ pass[p] = AtRest /\ passes < MaxPasses
    /\ CASE kind = "startup" -> p \in up /\ seenDay[p] = Never
         [] kind = "rollover" -> p \in up /\ seenDay[p] \notin {Never, day}
         [] kind = "sync" -> p \in up \cup {Operator}
         [] OTHER -> p = Operator
    /\ pass' = [pass EXCEPT ![p] = [at |-> "orders", kind |-> kind, asOf |-> Len(log),
                                    seen |-> [s \in Symbols |-> Held(s)],
                                    day |-> day, book |-> book]]
    /\ passes' = passes + 1
    /\ UNCHANGED <<book, log, latest, up, seenDay, day>>

Persisting(p) == pass[p].kind \notin {"resolve", "sync"}

\* The rows of a resolve-position, the orders of a sync: the session's own;
\* all of them, or one, for the operator.
Corrections(rows, seen) == {r \in ComparePositions(rows, seen) : r.kind = "local_only"}
Candidates(p, local) == IF p = Operator THEN {local} \cup {{o} : o \in local}
                        ELSE {{o \in local : book[o].by = p}}

\* What the caller goes on to: write the run, correct a position, or look the
\* orders up.
Follow(p, rows, verdict) ==
    CASE pass[p].kind = "resolve" ->
           {[at |-> "adjust", kind |-> "resolve", rows |-> Corrections(rows, pass[p].seen)]}
      [] pass[p].kind = "sync" ->
           {[at |-> "lookup", kind |-> "sync", todo |-> S, rows |-> << >>,
             stamp |-> Len(log) + 1] : S \in Candidates(p, LocalOnly(rows, OpenOrders))}
      [] OTHER -> {[at |-> "persist", kind |-> pass[p].kind, verdict |-> verdict]}

\* The open orders are read and everything is compared.
Compare(p) ==
    /\ pass[p].at = "orders"
    /\ \E aged \in BOOLEAN :
          LET rows == Before(pass[p].asOf)
              verdict == IF ComparePositions(rows, pass[p].seen) = {}
                            /\ CompareOrders(rows, OpenOrders, aged) = {}
                         THEN [status |-> "clean", day |-> pass[p].day,
                               asOf |-> pass[p].asOf, book |-> pass[p].book]
                         ELSE [status |-> "dirty", day |-> pass[p].day]
          IN  \E next \in Follow(p, rows, verdict) : pass' = [pass EXCEPT ![p] = next]
    /\ UNCHANGED <<book, log, latest, up, seenDay, day, passes>>

\* A session whose shutdown sync is over, however it ended, closes.
Leave(p) == /\ pass' = [pass EXCEPT ![p] = AtRest]
            /\ up' = IF pass[p].kind = "sync" THEN up \ {p} ELSE up

\* _ensure_startup_reconciliation looks at the clock again when it is done.
SeenDay(p, began) == CASE pass[p].kind = "startup" -> [seenDay EXCEPT ![p] = day]
                       [] pass[p].kind = "rollover" -> [seenDay EXCEPT ![p] = began]
                       [] OTHER -> seenDay

\* append_reconciliation_run
Persisted(p, verdict) == latest' = verdict /\ seenDay' = SeenDay(p, verdict.day)

\* A broker that cannot be read: a run is recorded as incomplete, a
\* correction and a sync are refused.
Unreachable(p) ==
    /\ pass[p].at = "orders"
    /\ IF Persisting(p) THEN Persisted(p, [status |-> "incomplete", day |-> pass[p].day])
       ELSE UNCHANGED <<latest, seenDay>>
    /\ Leave(p)
    /\ UNCHANGED <<book, log, day, passes>>

Persist(p) == /\ pass[p].at = "persist"
              /\ Persisted(p, pass[p].verdict)
              /\ Leave(p)
              /\ UNCHANGED <<book, log, day, passes>>

\* resolve_position: only a position the broker does not have is corrected.
Adjust(p, sym) ==
    /\ pass[p].at = "adjust"
    /\ \E r \in pass[p].rows :
          r.sym = sym /\ log' = Append(log, Adjustment(sym, r.broker - r.local))
    /\ Leave(p)
    /\ UNCHANGED <<book, latest, seenDay, day, passes>>

Refuse(p) == /\ pass[p].at = "adjust"
             /\ Symbols # {r.sym : r \in pass[p].rows}
             /\ Leave(p)
             /\ UNCHANGED <<book, log, latest, seenDay, day, passes>>

-----------------------------------------------------------------------------
(* sync_local_only_orders                                                  *)

Next1(p) == Min(pass[p].todo)
LookedUp(p, rows) ==
    pass' = [pass EXCEPT ![p].todo = @ \ {Next1(p)}, ![p].rows = @ \o rows]

\* The broker's word on the order.  A live order is left alone, and a fill of
\* a symbol that is still offset by an adjustment is not recorded.
Lookup(p) ==
    LET o == Next1(p)
        blocked == book[o].status = "filled" /\ Adjusted(All, book[o].sym) # 0
    IN  /\ pass[p].at = "lookup" /\ pass[p].todo # {}
        /\ LookedUp(p, IF IsOpen(o) \/ blocked THEN << >>
                       ELSE <<TradeRow(o, book[o].status, TRUE, pass[p].stamp)>>)
        /\ UNCHANGED <<book, log, latest, up, seenDay, day, passes>>

\* get_order raises a BrokerError, for an order it has purged or for any
\* other refusal of the API: the order is put down as cancelled.
LookupFails(p) ==
    /\ pass[p].at = "lookup" /\ pass[p].todo # {}
    /\ LookedUp(p, <<TradeRow(Next1(p), "cancelled", FALSE, pass[p].stamp)>>)
    /\ UNCHANGED <<book, log, latest, up, seenDay, day, passes>>

\* The rows go in one by one.
AppendRow(p) ==
    /\ pass[p].at = "lookup" /\ pass[p].todo = {} /\ pass[p].rows # << >>
    /\ log' = Append(log, Head(pass[p].rows))
    /\ pass' = [pass EXCEPT ![p].rows = Tail(@)]
    /\ UNCHANGED <<book, latest, up, seenDay, day, passes>>

SyncDone(p) == /\ pass[p].at = "lookup" /\ pass[p].todo = {} /\ pass[p].rows = << >>
               /\ Leave(p)
               /\ UNCHANGED <<book, log, latest, seenDay, day, passes>>

\* A death, or an error that is no BrokerError, ends whatever was going on.
DieInPass(p) == /\ pass[p] # AtRest
          /\ pass' = [pass EXCEPT ![p] = AtRest]
          /\ up' = up \ {p}
          /\ UNCHANGED <<book, log, latest, seenDay, day, passes>>

-----------------------------------------------------------------------------
Trade == \/ \E s \in Runners : \/ \E sym \in Symbols, side \in {"buy", "sell"} : Place(s, sym, side)
                                  \/ Record(s)
         \/ \E o \in Orders, got \in 0..Lot,
               status \in {"partial", "filled", "cancelled"} : Settle(o, status, got)
         \/ NewDay

Pass(p) == \/ \E kind \in Kinds : BeginPass(p, kind)
           \/ Compare(p) \/ Unreachable(p) \/ Persist(p)
           \/ \E sym \in Symbols : Adjust(p, sym)
           \/ Refuse(p)
           \/ Lookup(p) \/ LookupFails(p) \/ AppendRow(p) \/ SyncDone(p)
           \/ DieInPass(p)

Next == Trade \/ \E p \in Parties : Pass(p)

Spec == Init /\ [][Next]_vars

-----------------------------------------------------------------------------
Statuses == {"pending", "partial", "filled", "cancelled"}

TypeOK ==
    /\ \A o \in Orders : /\ book[o].sym \in Symbols /\ book[o].by \in Runners
                         /\ book[o].status \in Statuses /\ book[o].got \in 0..Lot
    /\ \A i \in All : IsTrade(log[i]) => log[i].order \in Orders
    /\ latest.status \in {"none", "clean", "dirty", "incomplete"}
    /\ up \subseteq Runners
    /\ seenDay \in [Runners -> {Never} \cup 0..MaxDay]
    /\ passes \in 0..MaxPasses /\ day \in 0..MaxDay

\* No row was written for an order the broker would not tell about.
AllKnown == \A i \in DOMAIN log : IsTrade(log[i]) => log[i].known

\* Once every order is over at the broker and, unless it filled, closed in the
\* store, none was cancelled half filled and no adjustment is left, the store
\* and the broker agree on every position: whoever synced, whenever, and
\* whichever of them died half way (fold_positions, sync_local_only_orders).
Over(o) == /\ ~IsOpen(o)
           /\ book[o].got \in {0, Lot}
           /\ o \in Recorded(All)
           /\ book[o].status # "filled" => o \notin LocalOpen(All)
SettledAgrees ==
    AllKnown /\ (\A o \in Orders : Over(o)) =>
        \A sym \in Symbols : Adjusted(All, sym) = 0 => FoldPositions(All, sym) = Held(sym)

\* As long as every purchase comes, the ledgers that feed the strategies and
\* their cap add up to the store's own fold, whatever became of the sales
\* (strategy_positions against fold_positions).
PurchasesCame == \A o \in Orders : book[o].side = "buy" =>
                    book[o].status # "cancelled"
LedgersAgree ==
    AllKnown /\ PurchasesCame => \A sym \in Symbols :
        Running(0, FoldOrders(All, sym)) = Running(0, [s \in Runners |-> Ledger(s, sym)])

\* Nothing is sold that the account does not have: the comment in
\* attribute_position, a broker position cannot be net-short in this system.
NeverShort == \A sym \in Symbols : Held(sym) >= 0

\* A clean verdict is right about everything that did not move after its pass
\* began: the broker's positions are the store's, and no open order is
\* unknown, although positions, orders and rows were read one after another.
CleanUnlessMoved ==
    latest.status = "clean" /\ latest.book = book /\ latest.asOf = Len(log) =>
        /\ \A sym \in Symbols : FoldPositions(All, sym) = Held(sym)
        /\ OpenOrders \subseteq LocalOpen(All)
=============================================================================
