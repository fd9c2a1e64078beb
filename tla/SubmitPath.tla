----------------------------- MODULE SubmitPath -----------------------------
(***************************************************************************)
(* The order path of execution/service.py: several processes (one runner   *)
(* per strategy, the operator's CLI) submit through ExecutionService to one*)
(* broker account and one event store.                                     *)
(*                                                                         *)
(* A submit holds the account's submit lock while it reads a snapshot,     *)
(* evaluates the risk checks, writes an outbox row (execution_attempts),   *)
(* calls the broker, finalizes the row and writes the explanation and the  *)
(* trade.  Each of those is an action, because each is a separate read,    *)
(* transaction or network call, and a process may be killed between any    *)
(* two.  Around it: the broker (which may land, refuse or lose a request,  *)
(* and answer late or wrongly), and the kill switch, which the operator    *)
(* trips and resets without taking the submit lock.                        *)
(*                                                                         *)
(* Bounds: one UTC day, at most one order per element of Ids, orders of    *)
(* one unit.  Data left out: prices, the checks that read neither the      *)
(* account nor the order history (they may veto any intent).  The lock is  *)
(* that of LockSpec: what AdvisoryLock implements while its takeovers      *)
(* remove orphans only.                                                    *)
(***************************************************************************)
EXTENDS Integers, FiniteSets

CONSTANTS Procs,         \* processes that submit
          Nobody,        \* the free submit lock
          Symbols,
          Strategies,
          Intents,       \* the trade intents they submit
          Ids,           \* client_order_ids, one per attempt
          NoId, NoIntent,
          Crashable,     \* the processes that may be killed
          Operators,     \* who may halt and reset: milodex halt, the GUI
          MaxPositions,  \* risk_defaults.max_concurrent_positions
          MaxTrades,     \* risk_defaults.max_trades_per_day
          HeldAtStart    \* the sets of symbols that may be held at the start

Sides == {"buy", "sell"}

ASSUME SubmitPathAssumption ==
    /\ Nobody \notin Procs
    /\ NoId \notin Ids
    /\ Intents \subseteq [strategy : Strategies, symbol : Symbols, side : Sides]
    /\ NoIntent \notin Intents
    /\ MaxPositions \in Nat /\ MaxTrades \in Nat
    /\ HeldAtStart \subseteq SUBSET Symbols /\ Crashable \subseteq Procs

\* The symbols are those of the strategies' universes.
ASSUME SymbolsAssumption == IsFiniteSet(Symbols)

VARIABLES
    submitLock,  \* the process in the submit section, or Nobody
    pc,          \* where each process is in _submit
    cur,         \* its locals: intent, snapshot, client_order_id, outcome
    attempt,     \* execution_attempts.status by client_order_id
    intentOf,    \* the intent an attempt carries
    recent,      \* the attempt is younger than duplicate_order_window_seconds
    trade,       \* trades.status of the attempt's trade row
    order,       \* the order at the broker
    pos,         \* broker position per symbol
    killed,      \* KillSwitchStateStore.get_state().active
    halting,     \* the operators between cancel_all_orders and activate
    raced,       \* history: a fill or a late landing escaped some snapshot
    late         \* history: orders sent since the last trip, while tripped

local  == <<pc, cur, submitLock>>
store  == <<attempt, intentOf, recent, trade>>
broker == <<order, pos>>
switch == <<killed, halting, late>>
vars   == <<local, store, broker, switch, raced>>

Steps == {"idle", "acquire", "positions", "orders", "decide", "append", "send",
          "sent", "finalize", "record", "haltCancel", "haltFlip", "release",
          "dead"}

AttemptStatus == {"none", "pending", "submitted", "rejected", "error"}
OrderStatus   == {"none", "inflight", "gone", "open", "filled", "cancelled"}

\* The order exists, or existed, at the broker.
Landed(id) == order[id] \in {"open", "filled", "cancelled"}

Open == {id \in Ids : order[id] = "open"}

NoView == [breach |-> FALSE, pos |-> [s \in Symbols |-> 0], open |-> {}]

NoCur == [intent |-> NoIntent, id |-> NoId, outcome |-> "none", view |-> NoView]

Init == /\ submitLock = Nobody
        /\ pc = [p \in Procs |-> "idle"]
        /\ cur = [p \in Procs |-> NoCur]
        /\ attempt = [id \in Ids |-> "none"]
        /\ intentOf = [id \in Ids |-> NoIntent]
        /\ recent = [id \in Ids |-> FALSE]
        /\ trade = [id \in Ids |-> "none"]
        /\ order = [id \in Ids |-> "none"]
        /\ \E held \in HeldAtStart : pos = [s \in Symbols |-> IF s \in held THEN 1 ELSE 0]
        /\ killed = FALSE /\ halting = {}
        /\ raced = FALSE /\ late = {}

Lock == INSTANCE LockSpec WITH owner <- submitLock

Goto(p, step) == pc' = [pc EXCEPT ![p] = step]

-----------------------------------------------------------------------------
(* The submit lock                                                         *)

Submit(p, i) ==
    /\ pc[p] = "idle"
    /\ cur' = [cur EXCEPT ![p].intent = i]
    /\ Goto(p, "acquire")
    /\ UNCHANGED <<submitLock, store, broker, switch, raced>>

\* Fault: the paper account submits lock-free (ADR 0056 before its amendment).
LockFree(p) ==
    /\ pc[p] = "acquire"
    /\ Goto(p, "positions")
    /\ UNCHANGED <<cur, submitLock, store, broker, switch, raced>>

AcquireLock(p) ==
    /\ pc[p] = "acquire"
    /\ Lock!Enter(p)
    /\ Goto(p, "positions")
    /\ UNCHANGED <<cur, store, broker, switch, raced>>

\* acquire_blocking timed out: declined, nothing but an audit row is written.
LockTimeout(p) ==
    /\ pc[p] = "acquire"
    /\ submitLock # Nobody
    /\ Goto(p, "idle")
    /\ cur' = [cur EXCEPT ![p] = NoCur]
    /\ UNCHANGED <<submitLock, store, broker, switch, raced>>

ReleaseLock(p) ==
    /\ pc[p] = "release"
    /\ Lock!Leave(p)
    /\ Goto(p, "idle")
    /\ cur' = [cur EXCEPT ![p] = NoCur]
    /\ UNCHANGED <<store, broker, switch, raced>>

-----------------------------------------------------------------------------
(* _evaluate and the risk checks                                           *)

\* get_account and get_positions: the day's loss may be past the kill-switch
\* threshold at any time.
ReadPositions(p) ==
    /\ pc[p] = "positions"
    /\ \E breach \in BOOLEAN :
           cur' = [cur EXCEPT ![p].view.pos = pos, ![p].view.breach = breach]
    /\ Goto(p, "orders")
    /\ UNCHANGED <<submitLock, store, broker, switch, raced>>

ReadOrders(p) ==
    /\ pc[p] = "orders"
    /\ cur' = [cur EXCEPT ![p].view.open =
                   {<<intentOf[id].symbol, intentOf[id].side>> : id \in Open}]
    /\ Goto(p, "decide")
    /\ UNCHANGED <<submitLock, store, broker, switch, raced>>

\* Fault: pending buys take no slot.
WithinHeld(i, view) ==
    Cardinality({s \in Symbols : view.pos[s] > 0}
                    \cup (IF i.side = "buy" THEN {i.symbol} ELSE {})) <= MaxPositions

\* _check_concurrent_positions
WithinPositions(i, view) ==
    LET sym      == i.symbol
        existing == {s \in Symbols : view.pos[s] > 0}
        pending  == {s \in Symbols : <<s, "buy">> \in view.open}
        occupied == existing \cup pending
        after    == IF i.side = "buy" THEN occupied \cup {sym}
                    ELSE IF sym \in pending \/ view.pos[sym] > 1 THEN occupied
                    ELSE occupied \ {sym}
    IN  Cardinality(after) <= MaxPositions

\* Fault: unresolved broker calls do not count.
DuplicateOfRecorded(i) ==
    \E id \in Ids : recent[id] /\ intentOf[id] = i /\ attempt[id] = "submitted"

\* _check_duplicate_order over count_recent_submitted_orders.
Duplicate(i) ==
    \E id \in Ids : /\ recent[id]
                    /\ intentOf[id] = i
                    /\ attempt[id] \in {"pending", "submitted", "error"}

\* Fault: only this side of the book is looked at.
SameOpen(i, view) == <<i.symbol, i.side>> \in view.open

\* _check_opposite_side_order
OppositeOpen(i, view) ==
    \E side \in Sides \ {i.side} : <<i.symbol, side>> \in view.open

\* count_submitted_trades_today
TradesToday == Cardinality({id \in Ids : trade[id] = "submitted"})

Admissible(i, view) ==
    /\ ~killed
    /\ ~view.breach
    /\ WithinPositions(i, view)
    /\ ~Duplicate(i)
    /\ ~OppositeOpen(i, view)
    /\ TradesToday < MaxTrades

Allow(p) ==
    /\ pc[p] = "decide"
    /\ Admissible(cur[p].intent, cur[p].view)
    /\ \E id \in Ids : attempt[id] = "none"    \* the bound on orders
    /\ Goto(p, "append")
    /\ cur' = [cur EXCEPT ![p].view = NoView]
    /\ UNCHANGED <<submitLock, store, broker, switch, raced>>

\* A veto, by a check above or by one left out; a loss breach halts first.
Veto(p) ==
    /\ pc[p] = "decide"
    /\ Goto(p, IF cur[p].view.breach /\ ~killed THEN "haltCancel" ELSE "release")
    /\ cur' = [cur EXCEPT ![p].view = NoView]
    /\ UNCHANGED <<submitLock, store, broker, switch, raced>>

-----------------------------------------------------------------------------
(* The outbox, the broker call and the record                              *)

\* Fault: the outbox row is left to the recording step.
AppendLater(p) ==
    /\ pc[p] = "append"
    /\ \E id \in Ids : attempt[id] = "none" /\ cur' = [cur EXCEPT ![p].id = id]
    /\ Goto(p, "send")
    /\ UNCHANGED <<submitLock, store, broker, switch, raced>>

AppendAttempt(p) ==
    /\ pc[p] = "append"
    /\ \E id \in Ids :
           /\ attempt[id] = "none"
           /\ attempt' = [attempt EXCEPT ![id] = "pending"]
           /\ intentOf' = [intentOf EXCEPT ![id] = cur[p].intent]
           /\ recent' = [recent EXCEPT ![id] = TRUE]
           /\ cur' = [cur EXCEPT ![p].id = id]
    /\ Goto(p, "send")
    /\ UNCHANGED <<submitLock, trade, broker, switch, raced>>

SendOrder(p) ==
    /\ pc[p] = "send"
    /\ order' = [order EXCEPT ![cur[p].id] = "inflight"]
    /\ late' = IF killed THEN late \cup {cur[p].id} ELSE late
    /\ Goto(p, "sent")
    /\ UNCHANGED <<cur, submitLock, store, pos, killed, halting, raced>>

\* Fault: the trade is recorded before the outbox row is finalized.
AnswerThenRecord(p, outcome) ==
    /\ pc[p] = "sent"
    /\ outcome = "submitted" => Landed(cur[p].id)
    /\ cur' = [cur EXCEPT ![p].outcome = outcome]
    /\ Goto(p, IF outcome = "error" THEN "finalize" ELSE "record")
    /\ UNCHANGED <<submitLock, store, broker, switch, raced>>

\* What submit_order returns or raises.  A refusal is an APIError; so is a
\* 5xx, which says nothing about the order.  Anything else that is raised
\* (timeout, connection, authorization) says nothing either.
Answer(p, outcome) ==
    /\ pc[p] = "sent"
    /\ outcome = "submitted" => Landed(cur[p].id)
    /\ cur' = [cur EXCEPT ![p].outcome = outcome]
    /\ Goto(p, "finalize")
    /\ UNCHANGED <<submitLock, store, broker, switch, raced>>

\* finalize_execution_attempt; after an unexpected exception _submit re-raises.
Finalize(p) ==
    /\ pc[p] = "finalize"
    /\ attempt' = [attempt EXCEPT ![cur[p].id] = cur[p].outcome]
    /\ Goto(p, IF cur[p].outcome = "error" THEN "release" ELSE "record")
    /\ UNCHANGED <<cur, submitLock, intentOf, recent, trade, broker, switch, raced>>

\* _record_execution: explanation and trade in one transaction.
Record(p) ==
    /\ pc[p] = "record"
    /\ trade' = [trade EXCEPT ![cur[p].id] = cur[p].outcome]
    /\ Goto(p, "release")
    /\ UNCHANGED <<cur, submitLock, attempt, intentOf, recent, broker, switch, raced>>

-----------------------------------------------------------------------------
(* halt_trading, by a submit that met a loss breach or by the operator     *)

\* cancel_all_orders, best effort: it may fail and cancel nothing.
CancelAll == \/ order' = [id \in Ids |-> IF order[id] = "open"
                                         THEN "cancelled" ELSE order[id]]
             \/ order' = order

\* KillSwitchStateStore.activate: the latest event wins.
Activate == /\ killed' = TRUE
            /\ late' = IF killed THEN late ELSE {}

HaltCancel(p) ==
    /\ pc[p] = "haltCancel"
    /\ CancelAll
    /\ Goto(p, "haltFlip")
    /\ UNCHANGED <<cur, submitLock, store, pos, switch, raced>>

HaltFlip(p) ==
    /\ pc[p] = "haltFlip"
    /\ Activate
    /\ Goto(p, "release")
    /\ UNCHANGED <<cur, submitLock, store, broker, halting, raced>>

OperatorCancel(o) ==
    /\ o \notin halting
    /\ CancelAll
    /\ halting' = halting \cup {o}
    /\ UNCHANGED <<local, store, pos, killed, late, raced>>

OperatorFlip(o) ==
    /\ o \in halting
    /\ Activate
    /\ halting' = halting \ {o}
    /\ UNCHANGED <<local, store, broker, raced>>

OperatorReset(o) ==
    /\ o \notin halting /\ killed
    /\ killed' = FALSE
    /\ UNCHANGED <<local, store, broker, halting, late, raced>>

-----------------------------------------------------------------------------
(* The broker, the clock and process death                                 *)

\* The submitter of id still waits for the broker's answer.
Awaited(id) == \E p \in Procs : pc[p] = "sent" /\ cur[p].id = id

Arrive(id) ==
    /\ order[id] = "inflight"
    /\ \E status \in {"open", "gone"} :
           /\ order' = [order EXCEPT ![id] = status]
           /\ raced' = (raced \/ (status = "open" /\ ~Awaited(id)))
    /\ UNCHANGED <<local, store, pos, switch>>

\* A process between its two broker reads sees a filling order in neither.
Fill(id) ==
    /\ order[id] = "open"
    /\ order' = [order EXCEPT ![id] = "filled"]
    /\ LET i == intentOf[id]
       IN  pos' = [pos EXCEPT ![i.symbol] = @ + IF i.side = "buy" THEN 1 ELSE -1]
    /\ raced' = (raced \/ \E p \in Procs : pc[p] = "orders")
    /\ UNCHANGED <<local, store, switch>>

\* Expiry at the close, or ExecutionService.cancel_order.
CloseOrder(id) ==
    /\ order[id] = "open"
    /\ order' = [order EXCEPT ![id] = "cancelled"]
    /\ UNCHANGED <<local, store, pos, switch, raced>>

WindowPasses(id) ==
    /\ recent[id]
    /\ recent' = [recent EXCEPT ![id] = FALSE]
    /\ UNCHANGED <<local, attempt, intentOf, trade, broker, switch, raced>>

\* kill -9.  The lock file outlives the process, and the next acquire() takes it
\* over: the lock of LockSpec is free at once.  AdvisoryLock implements LockSpec
\* as long as no takeover removes a living process's file, which one acquire()
\* at a time never does.  Two waiters that judge the same orphan may, and then
\* both submit: the run lock_race, of which this module says nothing.
Crash(p) ==
    /\ p \in Crashable /\ pc[p] # "dead"
    /\ submitLock' = IF submitLock = p THEN Nobody ELSE submitLock
    /\ Goto(p, "dead")
    /\ cur' = [cur EXCEPT ![p] = NoCur]
    /\ UNCHANGED <<store, broker, switch, raced>>

Restart(p) ==
    /\ pc[p] = "dead"
    /\ Goto(p, "idle")
    /\ UNCHANGED <<cur, submitLock, store, broker, switch, raced>>

-----------------------------------------------------------------------------
Evaluate(p) == ReadPositions(p) \/ ReadOrders(p) \/ Allow(p) \/ Veto(p)

CallBroker(p) ==
    \/ AppendAttempt(p) \/ SendOrder(p)
    \/ \E outcome \in {"submitted", "rejected", "error"} : Answer(p, outcome)
    \/ Finalize(p) \/ Record(p)

Halt(p) == HaltCancel(p) \/ HaltFlip(p)

Operator(o) == OperatorCancel(o) \/ OperatorFlip(o) \/ OperatorReset(o)

Broker == \E id \in Ids : Arrive(id) \/ Fill(id) \/ CloseOrder(id)

Next == \/ \E p \in Procs : \/ \E i \in Intents : Submit(p, i)
                            \/ AcquireLock(p) \/ LockTimeout(p) \/ ReleaseLock(p)
                            \/ Evaluate(p) \/ CallBroker(p) \/ Halt(p)
                            \/ Crash(p) \/ Restart(p)
        \/ \E o \in Operators : Operator(o)
        \/ Broker
        \/ \E id \in Ids : WindowPasses(id)

Spec == Init /\ [][Next]_vars

-----------------------------------------------------------------------------
(* Properties                                                              *)

Views == [breach : BOOLEAN, pos : [Symbols -> Int], open : SUBSET (Symbols \X Sides)]

Locals == [intent : Intents \cup {NoIntent}, id : Ids \cup {NoId},
           outcome : AttemptStatus, view : Views]

TypeOK == /\ submitLock \in Procs \cup {Nobody}
          /\ pc \in [Procs -> Steps]
          /\ cur \in [Procs -> Locals]
          /\ attempt \in [Ids -> AttemptStatus]
          /\ intentOf \in [Ids -> Intents \cup {NoIntent}]
          /\ recent \in [Ids -> BOOLEAN]
          /\ trade \in [Ids -> {"none", "submitted", "rejected"}]
          /\ order \in [Ids -> OrderStatus]
          /\ pos \in [Symbols -> Int]
          /\ killed \in BOOLEAN /\ raced \in BOOLEAN
          /\ halting \subseteq Operators
          /\ late \subseteq Ids

Occupied == {s \in Symbols : pos[s] > 0}
                \cup {intentOf[id].symbol : id \in {j \in Open : intentOf[j].side = "buy"}}

\* The account never occupies more position slots than the cap, however many
\* processes submit (ADR 0056), unless the broker filled or landed an order
\* behind a snapshot.
PositionCap == Cardinality(Occupied) <= MaxPositions \/ raced

\* No two recorded orders rest on opposite sides of a symbol (a wash trade),
\* under the same reservation.
NoWashTrade ==
    raced \/ \A i, j \in Open : intentOf[i].symbol = intentOf[j].symbol
                                  => intentOf[i].side = intentOf[j].side

\* Every request the broker ever got is on record, with its intent, before
\* and whatever happens after: a crash leaves no unknown order.
OutboxFirst ==
    \A id \in Ids : order[id] # "none" =>
        attempt[id] # "none" /\ intentOf[id] \in Intents

\* One strategy's equal orders are not sent twice inside the duplicate window,
\* across crashes, timeouts and restarts, save after a recorded rejection.
NoDuplicateInWindow ==
    \A i, j \in Ids :
        /\ i # j /\ intentOf[i] = intentOf[j]
        /\ recent[i] /\ recent[j]
        /\ order[i] # "none" /\ order[j] # "none"
        => "rejected" \in {attempt[i], attempt[j]}

\* A trade row is written only once the outbox row is final and agrees with
\* it, and a trade that counts as submitted has an order at the broker.
TradeFollowsAttempt ==
    \A id \in Ids : trade[id] # "none" =>
        /\ attempt[id] = trade[id]
        /\ trade[id] = "submitted" => Landed(id)

\* A trip stops the account: at most the one order that had already passed its
\* checks is still sent while the switch is on.
AtMostOneStraggler == \A i, j \in late : killed => i = j

\* "While active, ExecutionService refuses all new orders"
\* (docs/adr/0005-kill-switch-manual-reset.md:12).
KilledSendsNothing == killed => late = {}

\* "blocked if it would create materially the same exposure change for the
\* same strategy while an equivalent order is already pending"
\* (docs/RISK_POLICY.md:131).
NoEquivalentPending ==
    \A i, j \in Open : intentOf[i] = intentOf[j] => i = j

=============================================================================
