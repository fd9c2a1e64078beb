---------------------------- MODULE BacktestRuns ----------------------------
(***************************************************************************)
(* The rows a backtest leaves behind: backtest_runs, explanations, trades. *)
(* A process runs one strategy over one window (`milodex backtest`, the    *)
(* Bench), or screens a list of strategies over walk-forward windows: one  *)
(* process after the other, or a pool of worker processes under a parent.  *)
(* Nothing keeps two runs of one strategy apart, and `maintenance compact` *)
(* deletes explanations beside them: it takes the runtime lock, they take  *)
(* none.                                                                   *)
(*                                                                         *)
(* An action is one transaction.  What a window decides is left open; what *)
(* it writes is not: a fill and its explanation are one transaction, a     *)
(* skipped order takes two, and explanations of "no action" wait in memory *)
(* until the window ends.                                                  *)
(***************************************************************************)
EXTENDS WalkForward

CONSTANTS Singles,       \* processes that run one backtest
          Workers,       \* processes a screening batch may use
          Screened,      \* the batch's strategies, in order
          Strategies,
          Totals,        \* the trading days a universe may have
          Windows,       \* backtest.walk_forward_windows
          BatchSize,     \* rows per DELETE of a compaction
          MaxSignals,    \* bound: orders of one window
          MaxCompactions \* bound

\* A process works alone or for the batch; the batch lists some of the strategies.
ASSUME RunsAssumption ==
    /\ Singles \cap Workers = {}
    /\ Screened \in Seq(Strategies)
    /\ Totals \subseteq Nat
    /\ Windows \in Nat \ {0}

VARIABLES rows,      \* backtest_runs, by id
          expl,      \* explanations of backtest runs, and whether a trade is linked
          proc,      \* what a process holds in memory
          batch,     \* the parent of the batch
          compactor, \* a compaction: where it is, the ids it selected
          compacted, \* compactions started
          orphaned   \* runs whose explanation was selected before its trade came

runsVars == <<rows, expl, proc, batch, compactor, compacted, orphaned>>
store == <<rows, expl>>
compaction == <<compactor, compacted, orphaned>>

Processes == Singles \cup Workers
Parallel == Cardinality(batch.pool) > 1

NoRun == 0
Unheard == -1
NoExpl == << >>
Idle == [at |-> "idle", strategy |-> "none", run |-> NoRun, left |-> 0, orders |-> 0,
         count |-> 0, wrote |-> 0, buffered |-> 0, half |-> NoExpl]
Resting == [at |-> "rest", ids |-> {}]

RunsInit ==
    /\ rows = << >> /\ expl = {}
    /\ proc = [p \in Processes |-> Idle]
    /\ batch \in [pool : SUBSET Workers \ {{}}, todo : {Screened}, failFast : BOOLEAN, raised : {FALSE},
                  finished : {{}}, result : {[s \in Strategies |-> Unheard]}]
    /\ compactor = Resting /\ compacted = 0 /\ orphaned = {}

-----------------------------------------------------------------------------

Alive(p) == proc[p].at # "dead"
Goes(p, at) == proc' = [proc EXCEPT ![p].at = at]
RowOf(p) == rows[proc[p].run]

\* The next explanation of p's run.  The table numbers explanations across runs;
\* here a run numbers its own: an id is only ever compared.
NextId(p) == <<proc[p].run, proc[p].wrote + 1>>
Explains(p, traded) == [id |-> NextId(p), run |-> proc[p].run, traded |-> traded]

\* A row's metadata: the signal count once the run's figures are in, and the
\* batch's stamp.
Planned == [signals |-> -1, screened |-> FALSE]

\* Status, ended_at and metadata of row r.
Write(r, status, meta) ==
    rows' = [rows EXCEPT ![r].status = status, ![r].ended = TRUE, ![r].meta = meta]

\* What the batch hears of strategy s: the run that was returned, or an error.
Hears(s, r) == batch' = [batch EXCEPT !.finished = @ \cup {<<s, r>>}]

\* Process p is through with its strategy.
Leaves(p, r) ==
    /\ proc' = [proc EXCEPT ![p] = IF p \in Singles THEN [Idle EXCEPT !.at = "done"] ELSE Idle]
    /\ IF p \in Workers THEN Hears(proc[p].strategy, r) ELSE UNCHANGED batch

-----------------------------------------------------------------------------
\* Starting.

\* A single backtest begins: sweep first, so that the sweep spares its own row.
\* Whatever row of the strategy still says running is taken for a dead one's.
Swept(s) ==
    [r \in DOMAIN rows |->
        IF rows[r].strategy = s /\ rows[r].status = "running" /\ ~rows[r].ended
        THEN [rows[r] EXCEPT !.status = "orphan_recovered", !.ended = TRUE] ELSE rows[r]]

RunSingle(p, s) ==
    /\ p \in Singles /\ proc[p].at = "idle"
    /\ rows' = Swept(s)
    /\ proc' = [proc EXCEPT ![p] = [Idle EXCEPT !.at = "append", !.strategy = s, !.left = 1]]
    /\ UNCHANGED <<expl, batch, compaction>>

\* A worker takes the next strategy; a batch of one worker has heard of the last.
TakeStrategy(p) ==
    /\ p \in batch.pool /\ proc[p].at = "idle"
    /\ batch.todo # << >>
    /\ Parallel \/ (~batch.raised /\ batch.finished = {})
    /\ batch' = [batch EXCEPT !.todo = Tail(@)]
    /\ proc' = [proc EXCEPT ![p] = [Idle EXCEPT !.at = "spans", !.strategy = Head(batch.todo)]]
    /\ UNCHANGED <<store, compaction>>

\* Bars are fetched and cut into windows before the run has a row: an uncovered
\* universe, or too few days, leaves no trace in the store.
Frame(p, total) ==
    /\ proc[p].at = "spans" /\ SpansExist(total, Windows)
    /\ rows' = Swept(proc[p].strategy)
    /\ proc' = [proc EXCEPT ![p].at = "append",
                            ![p].left = Cardinality(Split(total, ComputeWindowSpans(total, Windows)))]
    /\ UNCHANGED <<expl, batch, compaction>>

RefuseFrame(p, total) ==
    /\ proc[p].at = "spans" /\ ~SpansExist(total, Windows)
    /\ Leaves(p, NoRun)
    /\ UNCHANGED <<store, compaction>>

AppendRun(p) ==
    /\ proc[p].at = "append"
    /\ rows' = Append(rows, [strategy |-> proc[p].strategy, status |-> "running",
                             ended |-> FALSE, meta |-> Planned])
    /\ proc' = [proc EXCEPT ![p].at = "scan", ![p].run = Len(rows) + 1]
    /\ UNCHANGED <<expl, batch, compaction>>

-----------------------------------------------------------------------------
\* Simulating.

ScanClean(p) ==
    /\ proc[p].at = "scan"
    /\ Goes(p, "window")
    /\ UNCHANGED <<store, batch, compaction>>

\* The data-quality scan blocks the run: failed, with the report.
ScanBlocked(p) ==
    /\ proc[p].at = "scan"
    /\ Write(proc[p].run, "failed", RowOf(p).meta)
    /\ Leaves(p, NoRun)
    /\ UNCHANGED <<expl, compaction>>

\* An order fills, or is refused by the risk policy, in one transaction; only a
\* fill is counted.
Execute(p) ==
    /\ proc[p].at = "window" /\ proc[p].orders < MaxSignals
    /\ expl' = expl \cup {Explains(p, TRUE)}
    /\ \E filled \in {0, 1} :
          proc' = [proc EXCEPT ![p].orders = @ + 1, ![p].wrote = @ + 1, ![p].count = @ + filled]
    /\ UNCHANGED <<rows, batch, compaction>>

\* An order is skipped: its explanation commits, then its trade.
ExplainSkip(p) ==
    /\ proc[p].at = "window" /\ proc[p].orders < MaxSignals
    /\ expl' = expl \cup {Explains(p, FALSE)}
    /\ proc' = [proc EXCEPT ![p].at = "skip", ![p].half = NextId(p), ![p].wrote = @ + 1]
    /\ UNCHANGED <<rows, batch, compaction>>

Halved(p) == {e \in expl : e.id = proc[p].half}

TradeSkip(p) ==
    /\ proc[p].at = "skip" /\ Halved(p) # {}
    /\ expl' = (expl \ Halved(p)) \cup {[e EXCEPT !.traded = TRUE] : e \in Halved(p)}
    /\ proc' = [proc EXCEPT ![p].at = "window", ![p].half = NoExpl,
                            ![p].orders = @ + 1, ![p].count = @ + 1]
    /\ UNCHANGED <<rows, batch, compaction>>

\* The explanation is gone: the foreign key refuses the trade.
SkipRefused(p) ==
    /\ proc[p].at = "skip" /\ Halved(p) = {}
    /\ Goes(p, "flushFail")
    /\ UNCHANGED <<store, batch, compaction>>

\* A bar without an order: buffered.
NoAction(p) ==
    /\ proc[p].at = "window" /\ proc[p].buffered = 0
    /\ proc' = [proc EXCEPT ![p].buffered = 1]
    /\ UNCHANGED <<store, batch, compaction>>

SimulationFails(p) ==
    /\ proc[p].at = "window"
    /\ Goes(p, "flushFail")
    /\ UNCHANGED <<store, batch, compaction>>

\* The buffer is written when the window ends, however it ends.
Flush(p, at) ==
    /\ expl' = expl \cup (IF proc[p].buffered = 1 THEN {Explains(p, FALSE)} ELSE {})
    /\ proc' = [proc EXCEPT ![p].at = at, ![p].wrote = @ + proc[p].buffered, ![p].buffered = 0,
                            ![p].orders = 0, ![p].left = @ - 1]
    /\ UNCHANGED <<rows, batch, compaction>>

EndWindow(p) ==
    /\ proc[p].at = "window"
    /\ Flush(p, IF proc[p].left > 1 THEN "window" ELSE "finalize")

AbandonWindow(p) == proc[p].at = "flushFail" /\ Flush(p, "fail")

-----------------------------------------------------------------------------
\* Closing.

MarkFailed(p) ==
    /\ proc[p].at = "fail"
    /\ Write(proc[p].run, "failed", RowOf(p).meta)
    /\ Leaves(p, NoRun)
    /\ UNCHANGED <<expl, compaction>>

\* Mutant: a close-out that only closes a row that still says running.
FinalizeRunning(p) ==
    /\ proc[p].at = "finalize"
    /\ IF RowOf(p).status = "running"
       THEN Write(proc[p].run, "completed", [Planned EXCEPT !.signals = proc[p].count])
       ELSE UNCHANGED rows
    /\ IF p \in Workers THEN Goes(p, "stamp") /\ UNCHANGED batch ELSE Leaves(p, proc[p].run)
    /\ UNCHANGED <<expl, compaction>>

\* Status, ended_at and metadata in one transaction, whatever the row says: a run
\* that another one's sweep took for dead is completed all the same.
Finalize(p) ==
    /\ proc[p].at = "finalize"
    /\ Write(proc[p].run, "completed", [Planned EXCEPT !.signals = proc[p].count])
    /\ IF p \in Workers THEN Goes(p, "stamp") /\ UNCHANGED batch ELSE Leaves(p, proc[p].run)
    /\ UNCHANGED <<expl, compaction>>

\* The aggregate, the manifest or the close-out itself raises, beyond the handlers:
\* the row keeps saying running.
CloseOutFails(p) ==
    /\ proc[p].at = "finalize"
    /\ Leaves(p, NoRun)
    /\ UNCHANGED <<store, compaction>>

\* The batch stamps the run it was returned: read the metadata, write it back.
ReadForStamp(p) ==
    /\ proc[p].at = "stamp"
    /\ proc' = [proc EXCEPT ![p].at = "write", ![p].count = RowOf(p).meta.signals]
    /\ UNCHANGED <<store, batch, compaction>>

Stamp(p) ==
    /\ proc[p].at = "write"
    /\ rows' = [rows EXCEPT ![proc[p].run].meta = [signals |-> proc[p].count, screened |-> TRUE]]
    /\ Leaves(p, proc[p].run)
    /\ UNCHANGED <<expl, compaction>>

-----------------------------------------------------------------------------
\* The batch's parent.

Told(s, r) == [batch.result EXCEPT ![s] = r]
Answered == {s \in Strategies : batch.result[s] # Unheard}

\* A strategy's outcome arrives.  With fail_fast an error ends the batch: what
\* waits is cancelled, except a call the pool has already handed to a queue.
Collect(s, r) ==
    /\ <<s, r>> \in batch.finished /\ ~batch.raised
    /\ LET heard == [batch EXCEPT !.finished = @ \ {<<s, r>>}, !.result = Told(s, r)]
           Cut(n) == [heard EXCEPT !.raised = TRUE, !.todo = SubSeq(@, 1, n)]
       IN  IF r = NoRun /\ batch.failFast
           THEN \E n \in 0..(IF Parallel /\ batch.todo # << >> THEN 1 ELSE 0) : batch' = Cut(n)
           ELSE batch' = heard
    /\ UNCHANGED <<store, proc, compaction>>

\* A process dies.  The batch's only process takes the batch with it; a pool that
\* loses a worker is broken: the others are terminated and whatever they had, or
\* was still to come, is an error.
Orphans(p) == IF p \in Workers THEN batch.pool ELSE {p}

Unanswered == {Screened[i] : i \in DOMAIN Screened}
                  \ (Answered \cup {f[1] : f \in batch.finished})

Die(p) ==
    /\ proc[p].at \notin {"idle", "done", "dead"}
    /\ proc' = [q \in Processes |-> IF q \in Orphans(p) THEN [Idle EXCEPT !.at = "dead"] ELSE proc[q]]
    /\ batch' = IF p \notin Workers THEN batch
                ELSE [batch EXCEPT !.todo = << >>, !.raised = ~Parallel \/ @,
                                   !.finished = IF Parallel THEN @ \cup (Unanswered \X {NoRun}) ELSE {}]
    /\ UNCHANGED <<store, compaction>>

-----------------------------------------------------------------------------
\* Compaction.

\* Mutant: the NOT IN clause is lost.
PrunableAll == expl

Prunable == {e \in expl : ~e.traded}

Selected(ids) ==
    /\ ids # {} /\ Cardinality(ids) <= BatchSize
    /\ Cardinality(ids) = BatchSize \/ Cardinality(ids) = Cardinality(Prunable)

\* The rows of the next DELETE are selected, outside its transaction.
SelectRows(ids) ==
    /\ \/ compactor.at = "rest" /\ compacted < MaxCompactions
       \/ compactor.at = "again"
    /\ ids \subseteq {e.id : e \in Prunable} /\ Selected(ids)
    /\ compactor' = [at |-> "delete", ids |-> ids]
    /\ compacted' = IF compactor.at = "rest" THEN compacted + 1 ELSE compacted
    /\ orphaned' = orphaned \cup {proc[p].run : p \in {q \in Processes : proc[q].half \in ids}}
    /\ UNCHANGED <<store, proc, batch>>

NothingLeft ==
    /\ compactor.at = "again" /\ Prunable = {}
    /\ compactor' = Resting
    /\ UNCHANGED <<store, proc, batch, compacted, orphaned>>

\* ON DELETE CASCADE: an explanation's trade goes with it.
DeleteRows ==
    /\ compactor.at = "delete"
    /\ expl' = {e \in expl : e.id \notin compactor.ids}
    /\ compactor' = [at |-> "again", ids |-> {}]
    /\ UNCHANGED <<rows, proc, batch, compacted, orphaned>>

CompactorDies ==
    /\ compactor.at # "rest"
    /\ compactor' = Resting
    /\ UNCHANGED <<store, proc, batch, compacted, orphaned>>

-----------------------------------------------------------------------------

Simulate(p) == \/ Execute(p) \/ ExplainSkip(p) \/ TradeSkip(p) \/ SkipRefused(p) \/ NoAction(p)
               \/ SimulationFails(p) \/ EndWindow(p) \/ AbandonWindow(p)

Begin(p) == \/ \E s \in Strategies : RunSingle(p, s)
            \/ TakeStrategy(p)
            \/ \E total \in Totals : Frame(p, total) \/ RefuseFrame(p, total)
            \/ AppendRun(p) \/ ScanClean(p) \/ ScanBlocked(p)

CloseOut(p) == MarkFailed(p) \/ Finalize(p) \/ CloseOutFails(p) \/ ReadForStamp(p) \/ Stamp(p)

Compact == \/ \E ids \in SUBSET {e.id : e \in Prunable} : SelectRows(ids)
           \/ NothingLeft \/ DeleteRows \/ CompactorDies

RunsNext == \/ \E p \in Processes : Begin(p) \/ Simulate(p) \/ CloseOut(p) \/ Die(p)
            \/ \E f \in batch.finished : Collect(f[1], f[2])
            \/ Compact

RunsSpec == RunsInit /\ [][RunsNext]_runsVars

-----------------------------------------------------------------------------

RunsTypeOK ==
    /\ \A r \in DOMAIN rows :
          /\ rows[r].strategy \in Strategies
          /\ rows[r].status \in {"running", "orphan_recovered", "failed", "completed"}
          /\ rows[r].ended \in BOOLEAN
          /\ rows[r].meta \in [signals : Nat \cup {-1}, screened : BOOLEAN]
    /\ \A e \in expl : e.run \in DOMAIN rows /\ e.traded \in BOOLEAN
    /\ orphaned \subseteq DOMAIN rows
    /\ \A p \in Processes : proc[p].run \in {NoRun} \cup DOMAIN rows

\* The orders of run r on record.  Criterion (b) of a promotion asks for as many
\* explanations as signals (lifecycle_criteria.py:186-207); only these last.
Traded(r) == Cardinality({e \in expl : e.run = r /\ e.traded})

\* A completed run has its figures, and for every order they count an explanation
\* with its trade, whatever died, was swept or was compacted (engine.py:592-601,
\* event_store.py:1596-1640): unless a compaction selected one of its
\* explanations between the two commits of a skipped order.
CompletedIsExplained ==
    \A r \in DOMAIN rows \ orphaned :
        rows[r].status = "completed" =>
            rows[r].meta.signals # -1 /\ Traded(r) >= rows[r].meta.signals

\* A run that the batch was returned is a completed run of that strategy and
\* bears the batch's stamp, though another run of the strategy may have swept it
\* in the meantime (engine.py:495-513, walk_forward_batch.py:448-453).
ResultIsOnRecord ==
    \A s \in Answered : batch.result[s] # NoRun =>
        LET row == rows[batch.result[s]]
        IN  row.strategy = s /\ row.status = "completed" /\ row.meta.screened

\* "Never deletes a trade (the prune predicate guarantees no ON DELETE CASCADE
\* fires)" (operations/maintenance.py:6): no completed run lacks the trade of an
\* order it counted.
PruneSparesTrades ==
    \A r \in DOMAIN rows :
        rows[r].status = "completed" => Traded(r) >= rows[r].meta.signals

=============================================================================
