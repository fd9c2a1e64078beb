---------------------------- MODULE StoreProofs ----------------------------
(***************************************************************************)
(* What the event store promises, in two parts.                            *)
(*                                                                         *)
(* Backtest runs.  First the windows, for every history and every number   *)
(* of windows: the spans that compute_window_spans derives make the        *)
(* splitter produce exactly the windows asked for, and their test days     *)
(* cover the end of the history once each, with training days before       *)
(* them.  Then the rows: the invariant RunsInv, one lemma for each action  *)
(* that it is kept (AppendRunKeeps, FlushKeeps, ...), and the properties   *)
(* of BacktestRuns that follow from it.                                    *)
(*                                                                         *)
(* Reconciliation.  The invariant AgreeInv: no row of a trade contradicts  *)
(* the broker, and no verdict is older than the book and the log it is     *)
(* about.  Then, what is settled agrees and a clean verdict is right.      *)
(* Last the ledgers: totals do not depend on the order they are taken in,  *)
(* a ledger none of whose beginnings is overdrawn is a plain total         *)
(* (BalanceIsNet), and LedgerInv says that none is while purchases come.   *)
(***************************************************************************)
EXTENDS BacktestRuns, Reconciliation, SequenceTheorems, FiniteSetTheorems,
        WellFoundedInduction, TLAPS

\* Products of naturals respect the order.
LEMMA TimesMonotone ==
    ASSUME NEW a \in Nat, NEW b \in Nat, NEW c \in Nat, a <= b
    PROVE  a * c <= b * c
  <1>1. PICK d \in Nat : b = a + d
    BY SMT
  <1>2. (a + d) * c = a * c + d * c
    BY SMT
  <1>3. d * c >= 0
    BY SMT
  <1>4. QED BY <1>1, <1>2, <1>3, SMT

\* One more multiple of c.
LEMMA OneMore ==
    ASSUME NEW a \in Nat, NEW c \in Nat
    PROVE  (a + 1) * c = a * c + c /\ a * c \in Nat
  BY SMT

\* A quotient's multiple fits, and one more does not.
LEMMA QuotientBounds ==
    ASSUME NEW n \in Nat, NEW k \in Nat \ {0}
    PROVE  /\ n \div k \in Nat
           /\ (n \div k) * k <= n
           /\ n < (n \div k) * k + k
  BY SMT

\* The test span is at least a day and, times the windows plus one, fits in any
\* history long enough for a day each (walk_forward_runner.py:126-133).
LEMMA TestSpan ==
    ASSUME NEW total \in Nat, NEW windows \in Nat \ {0}
    PROVE  LET s == ComputeWindowSpans(total, windows)
           IN  /\ s.test \in Nat \ {0}
               /\ s.train \in Int
               /\ s.step = s.test
               /\ total = s.train + windows * s.test
               /\ total >= windows + 1 => (windows + 1) * s.test <= total
               /\ total < windows + 1 => s.test = 1
  <1> DEFINE q == total \div (windows + 1)
             t == AtLeastOne(q)
  <1>1. windows + 1 \in Nat \ {0} /\ total \in Nat
    OBVIOUS
  <1>2. q \in Nat /\ q * (windows + 1) <= total /\ total < q * (windows + 1) + (windows + 1)
    BY <1>1, QuotientBounds
  <1>3. t \in Nat \ {0}
    BY <1>2 DEF AtLeastOne
  <1>4. windows * t \in Nat
    BY <1>3
  <1>5. total >= windows + 1 => (windows + 1) * t <= total
    <2> SUFFICES ASSUME total >= windows + 1
                 PROVE  (windows + 1) * t <= total
      OBVIOUS
    <2>1. q # 0
      <3>1. q = 0 => q * (windows + 1) = 0
        OBVIOUS
      <3>2. QED BY <3>1, <1>2
    <2>2. t = q
      BY <2>1, <1>2 DEF AtLeastOne
    <2>3. (windows + 1) * q = q * (windows + 1)
      BY <1>2, SMT
    <2>4. QED BY <2>2, <2>3, <1>2
  <1>6. total < windows + 1 => t = 1
    <2> SUFFICES ASSUME total < windows + 1
                 PROVE  q = 0
      BY DEF AtLeastOne
    <2>1. CASE q >= 1
      <3>1. 1 * (windows + 1) <= q * (windows + 1)
        BY <2>1, <1>1, <1>2, TimesMonotone
      <3>2. QED BY <3>1, <1>2
    <2>2. QED BY <2>1, <1>2
  <1>7. ComputeWindowSpans(total, windows) = [train |-> total - windows * t, test |-> t, step |-> t]
    BY DEF ComputeWindowSpans
  <1> HIDE DEF q, t
  <1>8. QED BY <1>3, <1>4, <1>5, <1>6, <1>7

\* The spans exist exactly when the history has a day for every window and one
\* more: no longer history is refused (walk_forward_runner.py:123-133).
THEOREM SpansExistExactly ==
    ASSUME NEW total \in Nat, NEW windows \in Nat \ {0}
    PROVE  SpansExist(total, windows) <=> total >= windows + 1
  <1> DEFINE s == ComputeWindowSpans(total, windows)
  <1>1. /\ s.test \in Nat \ {0} /\ s.train \in Int
        /\ total = s.train + windows * s.test
        /\ total >= windows + 1 => (windows + 1) * s.test <= total
        /\ total < windows + 1 => s.test = 1
    BY TestSpan
  <1>2. (windows + 1) * s.test = windows * s.test + s.test /\ windows * s.test \in Nat
    BY <1>1, SMT
  <1>3. CASE total >= windows + 1
    BY <1>1, <1>2, <1>3 DEF SpansExist
  <1>4. CASE total < windows + 1
    <2>1. windows * s.test = windows
      BY <1>1, <1>4
    <2>2. QED BY <1>1, <1>4, <2>1 DEF SpansExist
  <1>5. QED BY <1>3, <1>4

\* The splitter yields the windows asked for, one test span apart
\* (walk_forward.py:61-76 on the spans of compute_window_spans).
THEOREM WindowsAsPlanned ==
    ASSUME NEW total \in Nat, NEW windows \in Nat \ {0}, SpansExist(total, windows)
    PROVE  LET s == ComputeWindowSpans(total, windows)
           IN  Starts(total, s) = {k * s.test : k \in 0..(windows - 1)}
  <1> DEFINE s == ComputeWindowSpans(total, windows)
  <1>1. /\ s.test \in Nat \ {0} /\ s.train \in Nat \ {0} /\ s.step = s.test
        /\ total = s.train + windows * s.test
    BY TestSpan DEF SpansExist
  <1> HIDE DEF s
  <1>2. ASSUME NEW i \in Starts(total, s)
        PROVE  \E k \in 0..(windows - 1) : i = k * s.test
    <2>1. i \in 0..total /\ i % s.test = 0 /\ i + s.train + s.test <= total
      BY <1>1, <1>2 DEF Starts
    <2> DEFINE k == i \div s.test
    <2>2. i = s.test * k /\ k \in Nat
      BY <2>1, <1>1, SMT
    <2>3. i = k * s.test
      BY <2>2, <1>1, SMT
    <2>4. k < windows
      <3>1. CASE k >= windows
        <4>1. windows * s.test <= k * s.test
          BY <3>1, <2>2, <1>1, TimesMonotone
        <4>2. windows * s.test \in Nat
          BY <1>1
        <4>3. QED BY <4>1, <4>2, <2>1, <2>3, <1>1
      <3>2. QED BY <3>1, <2>2
    <2>5. k \in 0..(windows - 1)
      BY <2>2, <2>4
    <2> HIDE DEF k
    <2>6. QED BY <2>3, <2>5
  <1>3. ASSUME NEW k \in 0..(windows - 1)
        PROVE  k * s.test \in Starts(total, s)
    <2>1. k + 1 \in Nat /\ k \in Nat /\ k + 1 <= windows
      OBVIOUS
    <2>2. (k + 1) * s.test <= windows * s.test
      BY <2>1, <1>1, TimesMonotone
    <2>3. (k + 1) * s.test = k * s.test + s.test /\ k * s.test \in Nat /\ windows * s.test \in Nat
      BY <2>1, <1>1, SMT
    <2>4. (k * s.test) % s.test = 0
      BY <2>1, <1>1, SMT
    <2>5. k * s.test \in 0..total /\ k * s.test + s.train + s.test <= total
      BY <2>2, <2>3, <1>1
    <2>6. QED BY <2>4, <2>5, <1>1 DEF Starts
  <1>4. QED BY <1>2, <1>3 DEF s

\* Every day after the first training span is tested, in one window only, and
\* after all the days that window trains on: nothing is tested twice, skipped or
\* seen before its test (walk_forward_runner.py:107-119, walk_forward.py:61-76).
THEOREM TestDaysTile ==
    ASSUME NEW total \in Nat, NEW windows \in Nat \ {0}, SpansExist(total, windows)
    PROVE  LET s == ComputeWindowSpans(total, windows)
               Tests(i, d) == WindowAt(i, s).testStart <= d /\ d <= WindowAt(i, s).testEnd
           IN  \A d \in s.train..(total - 1) :
                  /\ \E i \in Starts(total, s) : Tests(i, d) /\ WindowAt(i, s).trainEnd < d
                  /\ \A i, j \in Starts(total, s) : Tests(i, d) /\ Tests(j, d) => i = j
  <1> DEFINE s == ComputeWindowSpans(total, windows)
             Tests(i, d) == WindowAt(i, s).testStart <= d /\ d <= WindowAt(i, s).testEnd
  <1>1. /\ s.test \in Nat \ {0} /\ s.train \in Nat \ {0} /\ s.step = s.test
        /\ total = s.train + windows * s.test
    BY TestSpan DEF SpansExist
  <1>2. Starts(total, s) = {k * s.test : k \in 0..(windows - 1)}
    BY WindowsAsPlanned
  <1> HIDE DEF s
  <1>3. ASSUME NEW i \in Int, NEW d \in Int
        PROVE  /\ Tests(i, d) <=> i + s.train <= d /\ d < i + s.train + s.test
               /\ WindowAt(i, s).trainEnd = i + s.train - 1
    BY <1>1 DEF WindowAt
  <1> HIDE DEF Tests
  <1>4. ASSUME NEW d \in s.train..(total - 1)
        PROVE  \E i \in Starts(total, s) : Tests(i, d) /\ WindowAt(i, s).trainEnd < d
    <2> DEFINE n == d - s.train
               k == n \div s.test
    <2>1. n \in Nat /\ n < windows * s.test
      <3>1. windows * s.test \in Nat
        BY <1>1
      <3>2. QED BY <3>1, <1>1
    <2>2. k \in Nat /\ k * s.test <= n /\ n < k * s.test + s.test
      BY <2>1, <1>1, QuotientBounds
    <2>3. k < windows
      <3>1. CASE k >= windows
        <4>1. windows * s.test <= k * s.test
          BY <3>1, <2>2, <1>1, TimesMonotone
        <4>2. windows * s.test \in Nat /\ k * s.test \in Nat
          BY <1>1, <2>2
        <4>3. QED BY <4>1, <4>2, <2>1, <2>2
      <3>2. QED BY <3>1, <2>2
    <2>4. k * s.test \in Starts(total, s) /\ k * s.test \in Nat
      BY <2>2, <2>3, <1>1, <1>2
    <2>5. d \in Int /\ d = n + s.train
      BY <1>1
    <2> HIDE DEF n, k
    <2>6. Tests(k * s.test, d) /\ WindowAt(k * s.test, s).trainEnd < d
      <3>1. k * s.test \in Int
        BY <2>4
      <3>2. /\ Tests(k * s.test, d) <=> k * s.test + s.train <= d /\ d < k * s.test + s.train + s.test
            /\ WindowAt(k * s.test, s).trainEnd = k * s.test + s.train - 1
        BY <3>1, <2>5, <1>3
      <3>3. k * s.test + s.train <= d /\ d < k * s.test + s.train + s.test
        BY <2>1, <2>2, <2>4, <2>5, <1>1
      <3>4. QED BY <3>2, <3>3, <2>4, <2>5, <1>1
    <2>7. QED BY <2>4, <2>6
  <1>5. ASSUME NEW d \in s.train..(total - 1), NEW i \in Starts(total, s), NEW j \in Starts(total, s),
               Tests(i, d), Tests(j, d)
        PROVE  i = j
    <2>1. PICK k \in 0..(windows - 1) : i = k * s.test
      BY <1>2
    <2>2. PICK m \in 0..(windows - 1) : j = m * s.test
      BY <1>2
    <2>3. i \in Nat /\ j \in Nat /\ d \in Int /\ k \in Nat /\ m \in Nat
      BY <2>1, <2>2, <1>1
    <2>4. i < j + s.test /\ j < i + s.test
      BY <2>3, <1>1, <1>3, <1>5
    <2>5. CASE k < m
      <3>1. (k + 1) * s.test <= m * s.test
        BY <2>5, <1>1, TimesMonotone
      <3>2. (k + 1) * s.test = k * s.test + s.test
        BY <2>3, <1>1, OneMore
      <3>3. QED BY <3>1, <3>2, <2>1, <2>2, <2>3, <2>4, <1>1
    <2>6. CASE m < k
      <3>1. (m + 1) * s.test <= k * s.test
        BY <2>6, <1>1, TimesMonotone
      <3>2. (m + 1) * s.test = m * s.test + s.test
        BY <2>3, <1>1, OneMore
      <3>3. QED BY <3>1, <3>2, <2>1, <2>2, <2>3, <2>4, <1>1
    <2>7. CASE k = m
      BY <2>7, <2>1, <2>2
    <2>8. QED BY <2>5, <2>6, <2>7
  <1>6. QED BY <1>4, <1>5 DEF s, Tests

-----------------------------------------------------------------------------
(* The store: what processes, compactions and the batch keep true of it.    *)

\* Where a process has a row that is not closed out, and one that is.
Unclosed == {"scan", "window", "skip", "flushFail", "fail", "finalize"}
Closed == {"stamp", "write"}
Halfway == {"skip", "flushFail", "fail"}
Holding == Unclosed \cup Closed

Ids == Nat \X Nat
RunRows == [strategy : Strategies,
            status : {"running", "orphan_recovered", "failed", "completed"},
            ended : BOOLEAN,
            meta : [signals : Nat \cup {-1}, screened : BOOLEAN]]
Explanations == [id : Ids, run : Nat, traded : BOOLEAN]
Procs == [at : {"idle", "spans", "append", "done", "dead"} \cup Holding,
          strategy : Strategies \cup {"none"}, run : Nat, left : Int, orders : Nat,
          count : Nat, wrote : Nat, buffered : {0, 1}, half : Ids \cup {NoExpl}]
Batches == [pool : SUBSET Workers, todo : Seq(Strategies), failFast : BOOLEAN,
            raised : BOOLEAN, finished : SUBSET (Strategies \X Nat),
            result : [Strategies -> Nat \cup {Unheard}]]

StateTypes ==
    /\ rows \in Seq(RunRows)
    /\ expl \subseteq Explanations /\ IsFiniteSet(expl)
    /\ proc \in [Processes -> Procs]
    /\ batch \in Batches
    /\ compactor \in [at : {"rest", "delete", "again"}, ids : SUBSET Ids]
    /\ orphaned \subseteq DOMAIN rows

\* What process p knows of its row.
HoldsRow(p) ==
    /\ proc[p].at \notin {"idle", "done", "dead"} => proc[p].strategy \in Strategies
    /\ proc[p].at \in {"spans", "append"} => proc[p].count = 0
    /\ proc[p].at \notin Holding => proc[p].run = NoRun
    /\ proc[p].at \in Holding => /\ proc[p].run \in DOMAIN rows
                                 /\ RowOf(p).strategy = proc[p].strategy
    /\ proc[p].at \in Unclosed => RowOf(p).status # "completed"
    /\ proc[p].at \in Closed => p \in Workers /\ RowOf(p).status = "completed"
    /\ proc[p].at = "write" => proc[p].count = RowOf(p).meta.signals

\* What is on record of the orders of process p's run.
KeepsCount(p) ==
    /\ proc[p].at \in Holding =>
          \A e \in expl : e.run = proc[p].run => e.id[2] <= proc[p].wrote
    /\ proc[p].half # NoExpl => /\ proc[p].at \in Halfway
                                /\ proc[p].half[1] = proc[p].run
                                /\ proc[p].half[2] <= proc[p].wrote
                                /\ \A e \in expl : e.id = proc[p].half => ~e.traded
    /\ proc[p].half \in compactor.ids => proc[p].run \in orphaned
    /\ proc[p].at \in Unclosed /\ proc[p].run \notin orphaned =>
          proc[p].count <= Traded(proc[p].run)

ProcessInv == \A p \in Processes : HoldsRow(p) /\ KeepsCount(p)

\* No two processes hold one row.
OwnRows == \A p, q \in Processes :
    proc[p].at \in Holding /\ proc[q].at \in Holding /\ proc[p].run = proc[q].run => p = q

\* Ids are unique; what a compaction selected has no trade, unless it came late.
ExplInv ==
    /\ \A e \in expl : e.run \in DOMAIN rows /\ e.id[1] = e.run
    /\ \A e, f \in expl : e.id = f.id => e = f
    /\ compactor.ids \subseteq {e.id : e \in expl}
    /\ compactor.at # "delete" => compactor.ids = {}
    /\ \A e \in expl : e.id \in compactor.ids /\ e.traded => e.run \in orphaned

RowInv ==
    \A r \in DOMAIN rows : rows[r].status = "completed" =>
        /\ rows[r].meta.signals # -1
        /\ r \notin orphaned => rows[r].meta.signals <= Traded(r)

OnRecord(s, r) ==
    /\ r \in DOMAIN rows
    /\ rows[r].strategy = s /\ rows[r].status = "completed" /\ rows[r].meta.screened

BatchInv ==
    /\ \A f \in batch.finished : f[2] # NoRun => OnRecord(f[1], f[2])
    /\ \A s \in Strategies, r \in Nat : batch.result[s] = r /\ r # NoRun => OnRecord(s, r)

RunsInv == StateTypes /\ ProcessInv /\ OwnRows /\ ExplInv /\ RowInv /\ BatchInv

-----------------------------------------------------------------------------
\* Rows and explanations.

\* The orders of run r that kept their trade.
TradesOf(r) == {e \in expl : e.run = r /\ e.traded}

LEMMA NoExplIsNoId == NoExpl \notin Ids
  <1>1. ASSUME NEW a \in Nat, NEW b \in Nat PROVE <<a, b>> # << >>
    <2>1. Len(<<a, b>>) = 2 /\ Len(<< >>) = 0
      OBVIOUS
    <2>2. QED BY <2>1
  <1>2. \A x \in Nat \X Nat : x # << >>
    BY <1>1
  <1>3. QED BY <1>2 DEF Ids, NoExpl

LEMMA TypedRows ==
    ASSUME StateTypes, NEW r \in DOMAIN rows
    PROVE  rows[r] \in RunRows /\ DOMAIN rows = 1..Len(rows) /\ Len(rows) \in Nat /\ r \in Nat
  BY DEF StateTypes

\* Row r set to another: the others stay.
LEMMA RowSet ==
    ASSUME StateTypes, NEW r \in DOMAIN rows, NEW row \in RunRows, rows' = [rows EXCEPT ![r] = row]
    PROVE  /\ rows' \in Seq(RunRows)
           /\ DOMAIN rows' = DOMAIN rows
           /\ rows'[r] = row
           /\ \A q \in DOMAIN rows : q # r => rows'[q] = rows[q]
  BY ExceptSeq DEF StateTypes

\* What a sweep makes of the rows.
LEMMA SweptRows ==
    ASSUME StateTypes, NEW s, rows' = Swept(s)
    PROVE  /\ rows' \in Seq(RunRows)
           /\ DOMAIN rows' = DOMAIN rows
           /\ \A r \in DOMAIN rows :
                 /\ rows'[r].strategy = rows[r].strategy /\ rows'[r].meta = rows[r].meta
                 /\ rows'[r].status = "completed" <=> rows[r].status = "completed"
  <1>1. DOMAIN rows = 1..Len(rows) /\ Len(rows) \in Nat
    BY DEF StateTypes
  <1>2. DOMAIN rows' = DOMAIN rows
    BY DEF Swept
  <1>3. ASSUME NEW r \in DOMAIN rows
        PROVE  /\ rows'[r] \in RunRows
               /\ rows'[r].strategy = rows[r].strategy /\ rows'[r].meta = rows[r].meta
               /\ rows'[r].status = "completed" <=> rows[r].status = "completed"
    <2>1. rows[r] \in RunRows
      BY <1>3, TypedRows
    <2>2. CASE rows[r].strategy = s /\ rows[r].status = "running" /\ ~rows[r].ended
      BY <2>1, <2>2 DEF Swept, RunRows
    <2>3. CASE ~(rows[r].strategy = s /\ rows[r].status = "running" /\ ~rows[r].ended)
      BY <2>1, <2>3 DEF Swept, RunRows
    <2>4. QED BY <2>2, <2>3
  <1>4. rows' \in [1..Len(rows) -> RunRows]
    BY <1>1, <1>2, <1>3 DEF Swept
  <1>5. rows' \in Seq(RunRows)
    BY <1>1, <1>4
  <1>6. QED BY <1>2, <1>3, <1>5

\* One more explanation of run r.
LEMMA ExplAdded ==
    ASSUME IsFiniteSet(expl), NEW e, e \notin expl, expl' = expl \cup {e}
    PROVE  /\ IsFiniteSet(expl')
           /\ e.traded => Traded(e.run)' = Traded(e.run) + 1
           /\ ~e.traded => Traded(e.run)' = Traded(e.run)
           /\ \A r : r # e.run => Traded(r)' = Traded(r)
  <1>1. IsFiniteSet(expl')
    BY FS_AddElement
  <1>2. ASSUME e.traded PROVE Traded(e.run)' = Traded(e.run) + 1
    <2>1. TradesOf(e.run)' = TradesOf(e.run) \cup {e} /\ e \notin TradesOf(e.run)
      BY <1>2 DEF TradesOf
    <2>2. IsFiniteSet(TradesOf(e.run))
      BY FS_Subset DEF TradesOf
    <2>3. Cardinality(TradesOf(e.run) \cup {e}) = Cardinality(TradesOf(e.run)) + 1
      BY <2>1, <2>2, FS_AddElement
    <2>4. QED BY <2>1, <2>3 DEF Traded, TradesOf
  <1>3. ASSUME ~e.traded PROVE Traded(e.run)' = Traded(e.run)
    <2>1. TradesOf(e.run)' = TradesOf(e.run)
      BY <1>3 DEF TradesOf
    <2>2. QED BY <2>1 DEF Traded, TradesOf
  <1>4. ASSUME NEW r, r # e.run PROVE Traded(r)' = Traded(r)
    <2>1. TradesOf(r)' = TradesOf(r)
      BY <1>4 DEF TradesOf
    <2>2. QED BY <2>1 DEF Traded, TradesOf
  <1>5. QED BY <1>1, <1>2, <1>3, <1>4

\* The number of orders on record is a number.
LEMMA TradedIsNat ==
    ASSUME IsFiniteSet(expl), NEW r
    PROVE  Traded(r) \in Nat
  <1>1. IsFiniteSet(TradesOf(r))
    BY FS_Subset DEF TradesOf
  <1>2. QED BY <1>1, FS_CardinalityType DEF Traded, TradesOf

-----------------------------------------------------------------------------
\* A step of one process.

\* The row a process may write.
Own(p) == IF proc[p].at \in Holding THEN {proc[p].run} ELSE {}

\* What a step of p leaves alone: the other processes, the rows and orders of
\* other runs, and whatever is complete.
OthersAlone(p) ==
    /\ compactor' = compactor /\ orphaned' = orphaned
    /\ \A q \in Processes : q # p => proc'[q] = proc[q]
    /\ DOMAIN rows \subseteq DOMAIN rows'
    /\ \A r \in DOMAIN rows :
          /\ rows'[r].strategy = rows[r].strategy
          /\ rows[r].status = "completed" =>
                /\ rows'[r].status = "completed"
                /\ rows[r].meta.screened => rows'[r].meta.screened
          /\ r \notin Own(p) => /\ rows'[r].meta = rows[r].meta
                                /\ rows'[r].status = "completed" => rows[r].status = "completed"
    /\ \A r \in DOMAIN rows' \ DOMAIN rows : rows'[r].status # "completed"
    /\ \A e \in expl' : e.run \notin Own(p) => e \in expl
    /\ \A r : r \notin Own(p) => Traded(r)' = Traded(r)

\* What it makes of its own.
OwnKept(p) ==
    /\ HoldsRow(p)' /\ KeepsCount(p)'
    /\ proc'[p].at \in Holding =>
          \/ proc[p].at \in Holding /\ proc'[p].run = proc[p].run
          \/ proc'[p].run \notin DOMAIN rows
    /\ \A r \in Own(p) : rows'[r].status = "completed" =>
          /\ rows'[r].meta.signals # -1
          /\ r \notin orphaned => rows'[r].meta.signals <= Traded(r)'

BatchKept ==
    /\ batch'.result = batch.result
    /\ \A f \in batch'.finished : f \in batch.finished \/ f[2] = NoRun \/ OnRecord(f[1], f[2])'

LEMMA OtherProcesses ==
    ASSUME RunsInv, StateTypes', ExplInv', NEW p \in Processes, OthersAlone(p),
           NEW q \in Processes, q # p
    PROVE  HoldsRow(q)' /\ KeepsCount(q)'
  <1>1. proc'[q] = proc[q] /\ HoldsRow(q) /\ KeepsCount(q)
    BY DEF OthersAlone, RunsInv, ProcessInv
  <1>2. proc[q].at \in Holding => proc[q].run \notin Own(p)
    BY DEF RunsInv, OwnRows, Own
  <1>3. Unclosed \subseteq Holding /\ Closed \subseteq Holding /\ "write" \in Closed
    BY DEF Holding, Closed
  <1>4. HoldsRow(q)'
    <2>1. proc[q].at \in Holding =>
             /\ proc[q].run \in DOMAIN rows'
             /\ rows'[proc[q].run].strategy = rows[proc[q].run].strategy
             /\ rows'[proc[q].run].status = "completed" <=> rows[proc[q].run].status = "completed"
             /\ rows'[proc[q].run].meta = rows[proc[q].run].meta
      BY <1>1, <1>2 DEF OthersAlone, HoldsRow, RowOf
    <2>2. QED BY <1>1, <1>3, <2>1 DEF HoldsRow, RowOf
  <1>5. KeepsCount(q)'
    <2>1. compactor' = compactor /\ orphaned' = orphaned
      BY DEF OthersAlone
    <2>2. proc[q].at \in Holding =>
             /\ \A e \in expl' : e.run = proc[q].run => e \in expl
             /\ Traded(proc[q].run)' = Traded(proc[q].run)
      BY <1>2 DEF OthersAlone
    <2>3. proc[q].half # NoExpl => \A e \in expl' : e.id = proc[q].half => ~e.traded
      <3>1. SUFFICES ASSUME proc[q].half # NoExpl, NEW e \in expl', e.id = proc[q].half
                     PROVE  ~e.traded
        OBVIOUS
      <3>2. proc[q].at \in Holding /\ e.run = proc[q].run
        BY <1>1, <3>1 DEF KeepsCount, Halfway, Holding, Unclosed, ExplInv
      <3>3. QED BY <1>1, <2>2, <3>1, <3>2 DEF KeepsCount
    <2>4. QED BY <1>1, <1>3, <2>1, <2>2, <2>3 DEF KeepsCount
  <1>6. QED BY <1>4, <1>5

LEMMA ProcessStep ==
    ASSUME RunsInv, StateTypes', NEW p \in Processes,
           OthersAlone(p), OwnKept(p), ExplInv', BatchKept
    PROVE  RunsInv'
  <1>1. ProcessInv'
    BY OtherProcesses DEF OwnKept, ProcessInv
  <1>2. OwnRows'
    <2>1. SUFFICES ASSUME NEW q \in Processes, NEW s \in Processes, q # s,
                          proc'[q].at \in Holding, proc'[s].at \in Holding,
                          proc'[q].run = proc'[s].run
                   PROVE  FALSE
      BY DEF OwnRows
    <2>2. ASSUME NEW t \in Processes, t # p, proc'[t].at \in Holding, proc'[p].at \in Holding,
                 proc'[t].run = proc'[p].run
          PROVE  FALSE
      <3>1. proc'[t] = proc[t] /\ proc[t].run \in DOMAIN rows
        BY <2>2 DEF OthersAlone, RunsInv, ProcessInv, HoldsRow
      <3>2. QED BY <2>2, <3>1 DEF OwnKept, RunsInv, OwnRows
    <2>3. CASE q = p \/ s = p
      BY <2>1, <2>2, <2>3
    <2>4. CASE q # p /\ s # p
      BY <2>1, <2>4 DEF OthersAlone, RunsInv, OwnRows
    <2>5. QED BY <2>3, <2>4
  <1>3. RowInv'
    <2>1. SUFFICES ASSUME NEW r \in DOMAIN rows', rows'[r].status = "completed"
                   PROVE  /\ rows'[r].meta.signals # -1
                          /\ r \notin orphaned' => rows'[r].meta.signals <= Traded(r)'
      BY DEF RowInv
    <2>2. r \in DOMAIN rows
      BY <2>1 DEF OthersAlone
    <2>3. CASE r \in Own(p)
      BY <2>1, <2>3 DEF OwnKept, OthersAlone
    <2>4. CASE r \notin Own(p)
      BY <2>1, <2>2, <2>4 DEF OthersAlone, RunsInv, RowInv
    <2>5. QED BY <2>3, <2>4
  <1>4. BatchInv'
    <2>1. ASSUME NEW s, NEW r, OnRecord(s, r) PROVE OnRecord(s, r)'
      BY <2>1 DEF OnRecord, OthersAlone
    <2>2. QED BY <2>1 DEF BatchKept, RunsInv, BatchInv
  <1>5. QED BY <1>1, <1>2, <1>3, <1>4 DEF RunsInv

\* A process and its types.
LEMMA TypedProcess ==
    ASSUME RunsInv, NEW p \in Processes
    PROVE  /\ proc[p] \in Procs /\ HoldsRow(p) /\ KeepsCount(p)
           /\ proc[p].at \in Holding =>
                 proc[p].run \in DOMAIN rows /\ RowOf(p) \in RunRows /\ proc[p].strategy \in Strategies
           /\ NoExpl \notin compactor.ids
           /\ Unclosed \cap Closed = {}
           /\ Unclosed \subseteq Holding /\ Closed \subseteq Holding
           /\ Halfway \subseteq Unclosed
  <1>1. StateTypes /\ proc[p] \in Procs /\ HoldsRow(p) /\ KeepsCount(p)
    BY DEF RunsInv, StateTypes, ProcessInv
  <1>2. proc[p].at \in Holding =>
           proc[p].run \in DOMAIN rows /\ RowOf(p) \in RunRows /\ proc[p].strategy \in Strategies
    BY <1>1, TypedRows DEF HoldsRow, RowOf, Holding, Unclosed, Closed
  <1>3. NoExpl \notin compactor.ids
    BY <1>1, NoExplIsNoId DEF StateTypes
  <1>4. QED BY <1>1, <1>2, <1>3 DEF Holding, Unclosed, Closed, Halfway

\* A step that leaves the store alone.
LEMMA QuietStep ==
    ASSUME RunsInv, StateTypes', NEW p \in Processes,
           UNCHANGED <<store, compaction>>, \A q \in Processes : q # p => proc'[q] = proc[q],
           HoldsRow(p)', KeepsCount(p)', BatchKept,
           proc'[p].at \in Holding => proc[p].at \in Holding /\ proc'[p].run = proc[p].run
    PROVE  RunsInv'
  <1>1. rows' = rows /\ expl' = expl /\ compactor' = compactor /\ orphaned' = orphaned
    BY DEF store, compaction
  <1>2. \A r : Traded(r)' = Traded(r)
    BY <1>1 DEF Traded
  <1>3. OthersAlone(p)
    BY <1>1, <1>2 DEF OthersAlone
  <1>4. ExplInv'
    BY <1>1 DEF RunsInv, ExplInv
  <1>5. \A r \in Own(p) : rows'[r].status = "completed" =>
           /\ rows'[r].meta.signals # -1
           /\ r \notin orphaned => rows'[r].meta.signals <= Traded(r)'
    BY <1>1, <1>2 DEF RunsInv, RowInv, Own, ProcessInv, HoldsRow
  <1>6. OwnKept(p)
    BY <1>5 DEF OwnKept
  <1>7. QED BY <1>3, <1>4, <1>6, ProcessStep

\* A process that keeps to its open row and counts nothing.
LEMMA StaysOpen ==
    ASSUME RunsInv, NEW p \in Processes, UNCHANGED <<store, compaction>>,
           proc[p].at \in Unclosed, proc'[p].at \in Unclosed,
           proc'[p].run = proc[p].run, proc'[p].strategy = proc[p].strategy,
           proc'[p].count = proc[p].count, proc'[p].wrote = proc[p].wrote,
           proc'[p].half = proc[p].half, proc[p].half # NoExpl => proc'[p].at \in Halfway
    PROVE  HoldsRow(p)' /\ KeepsCount(p)'
  <1>1. rows' = rows /\ expl' = expl /\ compactor' = compactor /\ orphaned' = orphaned
    BY DEF store, compaction
  <1>2. Traded(proc[p].run)' = Traded(proc[p].run)
    BY <1>1 DEF Traded
  <1>3. HoldsRow(p)'
    BY <1>1, TypedProcess DEF HoldsRow, RowOf, Unclosed, Holding, Closed
  <1>4. KeepsCount(p)'
    BY <1>1, <1>2, TypedProcess DEF KeepsCount
  <1>5. QED BY <1>3, <1>4

\* A process without a row holds nothing.
LEMMA HoldsNothing ==
    ASSUME RunsInv, StateTypes', NEW p \in Processes, compactor' = compactor,
           proc'[p].at \notin Holding, proc'[p].half = NoExpl,
           proc'[p].at \notin {"idle", "done", "dead"} => proc'[p].strategy \in Strategies,
           proc'[p].count = 0, proc'[p].run = NoRun
    PROVE  HoldsRow(p)' /\ KeepsCount(p)'
  BY TypedProcess DEF HoldsRow, KeepsCount, Holding, Unclosed, Closed

\* A process is through with its strategy.
LEMMA LeavesNothing ==
    ASSUME RunsInv, NEW p \in Processes, NEW r \in Nat, Leaves(p, r),
           NEW s \in Strategies, proc[p].strategy = s
    PROVE  /\ proc' \in [Processes -> Procs]
           /\ \A q \in Processes : q # p => proc'[q] = proc[q]
           /\ proc'[p].at \notin Holding /\ proc'[p].half = NoExpl /\ proc'[p].count = 0
           /\ proc'[p].run = NoRun
           /\ proc'[p].at \in {"idle", "done"}
           /\ batch' \in Batches
           /\ r = NoRun \/ OnRecord(s, r)' \/ p \notin Workers => BatchKept
  <1>1. proc \in [Processes -> Procs] /\ batch \in Batches
    BY DEF RunsInv, StateTypes
  <1>2. Idle \in Procs /\ [Idle EXCEPT !.at = "done"] \in Procs
    BY DEF Idle, Procs, NoRun
  <1>3. proc' \in [Processes -> Procs] /\ \A q \in Processes : q # p => proc'[q] = proc[q]
    BY <1>1, <1>2 DEF Leaves
  <1>4. proc'[p] = Idle \/ proc'[p] = [Idle EXCEPT !.at = "done"]
    BY <1>1 DEF Leaves
  <1>5. /\ proc'[p].at \notin Holding /\ proc'[p].half = NoExpl /\ proc'[p].count = 0
        /\ proc'[p].run = NoRun
        /\ proc'[p].at \in {"idle", "done"}
    BY <1>4 DEF Idle, Holding, Unclosed, Closed
  <1>6. CASE p \in Workers
    <2>1. batch' = [batch EXCEPT !.finished = @ \cup {<<s, r>>}]
      BY <1>6 DEF Leaves, Hears
    <2>2. batch' \in Batches /\ batch'.result = batch.result
          /\ batch'.finished = batch.finished \cup {<<s, r>>}
      <3> DEFINE more == batch.finished \cup {<<s, r>>}
      <3>1. more \in SUBSET (Strategies \X Nat)
        BY <1>1 DEF Batches
      <3>2. batch' = [batch EXCEPT !.finished = more]
        BY <2>1
      <3> HIDE DEF more
      <3>3. batch' \in Batches /\ batch'.result = batch.result /\ batch'.finished = more
        BY <1>1, <3>1, <3>2 DEF Batches
      <3>4. QED BY <3>3 DEF more
    <2>3. r = NoRun \/ OnRecord(s, r)' => BatchKept
      <3>1. SUFFICES ASSUME r = NoRun \/ OnRecord(s, r)',
                            NEW f \in batch'.finished
                     PROVE  f \in batch.finished \/ f[2] = NoRun \/ OnRecord(f[1], f[2])'
        BY <2>2 DEF BatchKept
      <3>2. CASE f = <<s, r>>
        <4>1. f[1] = s /\ f[2] = r
          BY <3>2
        <4>2. QED BY <3>1, <4>1 DEF OnRecord
      <3>3. QED BY <2>2, <3>2
    <2>4. QED BY <1>3, <1>5, <1>6, <2>2, <2>3
  <1>7. CASE p \notin Workers
    BY <1>1, <1>3, <1>5, <1>7 DEF Leaves, BatchKept
  <1>8. QED BY <1>6, <1>7

-----------------------------------------------------------------------------
\* Steps that leave the store alone.

LEMMA MovesOn ==
    ASSUME RunsInv, NEW p \in Processes, NEW next \in Procs,
           proc' = [proc EXCEPT ![p] = next],
           UNCHANGED <<store, batch, compaction>>,
           proc[p].at \in Unclosed, next.at \in Unclosed, next.run = proc[p].run,
           next.strategy = proc[p].strategy, next.count = proc[p].count,
           next.wrote = proc[p].wrote, next.half = proc[p].half,
           proc[p].half # NoExpl => next.at \in Halfway
    PROVE  RunsInv'
  <1>1. proc'[p] = next /\ \A q \in Processes : q # p => proc'[q] = proc[q]
    BY DEF RunsInv, StateTypes
  <1>2. StateTypes'
    BY DEF RunsInv, StateTypes, store, compaction
  <1>3. HoldsRow(p)' /\ KeepsCount(p)'
    BY <1>1, StaysOpen
  <1>4. BatchKept
    BY DEF BatchKept
  <1>5. QED BY <1>1, <1>2, <1>3, <1>4, QuietStep DEF Holding

LEMMA ScanCleanKeeps ==
    ASSUME RunsInv, NEW p \in Processes, ScanClean(p)
    PROVE  RunsInv'
  <1> DEFINE next == [proc[p] EXCEPT !.at = "window"]
  <1>1. proc[p] \in Procs
    BY TypedProcess
  <1>2. next \in Procs /\ next.at = "window" /\ next.run = proc[p].run
        /\ next.strategy = proc[p].strategy /\ next.count = proc[p].count
        /\ next.wrote = proc[p].wrote /\ next.half = proc[p].half
    BY <1>1 DEF Procs, Holding, Unclosed
  <1>3. proc' = [proc EXCEPT ![p] = next] /\ proc[p].at \in Unclosed /\ next.at \in Unclosed
        /\ proc[p].half = NoExpl
    BY <1>2, TypedProcess DEF ScanClean, Goes, Unclosed, KeepsCount, Halfway
  <1> HIDE DEF next
  <1>4. QED BY <1>2, <1>3, MovesOn DEF ScanClean

LEMMA FailsKeeps ==
    ASSUME RunsInv, NEW p \in Processes, SkipRefused(p) \/ SimulationFails(p)
    PROVE  RunsInv'
  <1> DEFINE next == [proc[p] EXCEPT !.at = "flushFail"]
  <1>1. proc[p] \in Procs
    BY TypedProcess
  <1>2. next \in Procs /\ next.at = "flushFail" /\ next.run = proc[p].run
        /\ next.strategy = proc[p].strategy /\ next.count = proc[p].count
        /\ next.wrote = proc[p].wrote /\ next.half = proc[p].half
    BY <1>1 DEF Procs, Holding, Unclosed
  <1>3. proc' = [proc EXCEPT ![p] = next] /\ proc[p].at \in Unclosed /\ next.at \in Unclosed
        /\ next.at \in Halfway
    BY <1>2 DEF SkipRefused, SimulationFails, Goes, Unclosed, Halfway
  <1> HIDE DEF next
  <1>4. QED BY <1>2, <1>3, MovesOn DEF SkipRefused, SimulationFails

LEMMA NoActionKeeps ==
    ASSUME RunsInv, NEW p \in Processes, NoAction(p)
    PROVE  RunsInv'
  <1> DEFINE next == [proc[p] EXCEPT !.buffered = 1]
  <1>1. proc[p] \in Procs
    BY TypedProcess
  <1>2. next \in Procs /\ next.at = proc[p].at /\ next.run = proc[p].run
        /\ next.strategy = proc[p].strategy /\ next.count = proc[p].count
        /\ next.wrote = proc[p].wrote /\ next.half = proc[p].half
    BY <1>1 DEF Procs
  <1>3. proc' = [proc EXCEPT ![p] = next] /\ proc[p].at \in Unclosed /\ next.at \in Unclosed
        /\ proc[p].half = NoExpl
    BY <1>2, TypedProcess DEF NoAction, Unclosed, KeepsCount, Halfway
  <1> HIDE DEF next
  <1>4. QED BY <1>2, <1>3, MovesOn DEF NoAction

LEMMA ReadForStampKeeps ==
    ASSUME RunsInv, NEW p \in Processes, ReadForStamp(p)
    PROVE  RunsInv'
  <1>1. /\ proc[p] \in Procs /\ HoldsRow(p) /\ KeepsCount(p)
        /\ proc[p].at = "stamp" /\ proc[p].at \in Closed /\ proc[p].at \in Holding
        /\ proc[p].run \in DOMAIN rows /\ RowOf(p) \in RunRows /\ proc[p].strategy \in Strategies
    BY TypedProcess DEF ReadForStamp, Closed, Holding
  <1>2. RowOf(p).meta.signals \in Nat
    BY <1>1 DEF HoldsRow, RunsInv, RowInv, RowOf, RunRows
  <1>3. proc' = [proc EXCEPT ![p] = [proc[p] EXCEPT !.at = "write",
                                                    !.count = RowOf(p).meta.signals]]
    BY DEF ReadForStamp
  <1> DEFINE next == [proc[p] EXCEPT !.at = "write", !.count = RowOf(p).meta.signals]
  <1>4. next \in Procs /\ next.at = "write" /\ next.run = proc[p].run
        /\ next.strategy = proc[p].strategy /\ next.count = RowOf(p).meta.signals
        /\ next.wrote = proc[p].wrote /\ next.half = proc[p].half
    BY <1>1, <1>2 DEF Procs, Holding, Closed
  <1> HIDE DEF next
  <1>5. proc'[p] = next /\ \A q \in Processes : q # p => proc'[q] = proc[q]
    BY <1>3 DEF RunsInv, StateTypes, next
  <1>6. rows' = rows /\ expl' = expl /\ batch' = batch /\ compactor' = compactor
        /\ orphaned' = orphaned
    BY DEF ReadForStamp, store, compaction
  <1>7. StateTypes'
    BY <1>3, <1>4, <1>6 DEF RunsInv, StateTypes, next
  <1>8. HoldsRow(p)'
    BY <1>1, <1>4, <1>5, <1>6 DEF HoldsRow, RowOf, Closed, Unclosed, Holding
  <1>9. KeepsCount(p)'
    BY <1>1, <1>4, <1>5, <1>6 DEF KeepsCount, Closed, Unclosed, Holding, Halfway
  <1>10. BatchKept
    BY <1>6 DEF BatchKept
  <1>11. QED BY <1>1, <1>4, <1>5, <1>7, <1>8, <1>9, <1>10, QuietStep DEF ReadForStamp

LEMMA CloseOutFailsKeeps ==
    ASSUME RunsInv, NEW p \in Processes, CloseOutFails(p)
    PROVE  RunsInv'
  <1>1. proc[p].at = "finalize" /\ Leaves(p, NoRun) /\ UNCHANGED <<store, compaction>>
        /\ NoRun \in Nat /\ proc[p].strategy \in Strategies
    BY TypedProcess DEF CloseOutFails, HoldsRow, NoRun
  <1>2. /\ proc' \in [Processes -> Procs] /\ \A q \in Processes : q # p => proc'[q] = proc[q]
        /\ proc'[p].at \notin Holding /\ proc'[p].half = NoExpl /\ proc'[p].count = 0
        /\ proc'[p].run = NoRun
        /\ proc'[p].at \in {"idle", "done"} /\ batch' \in Batches /\ BatchKept
    BY <1>1, LeavesNothing
  <1>3. StateTypes'
    BY <1>1, <1>2 DEF RunsInv, StateTypes, store, compaction
  <1>4. HoldsRow(p)' /\ KeepsCount(p)'
    BY <1>1, <1>2, <1>3, HoldsNothing DEF compaction
  <1>5. QED BY <1>1, <1>2, <1>3, <1>4, QuietStep

LEMMA RefuseFrameKeeps ==
    ASSUME RunsInv, NEW p \in Processes, NEW total, RefuseFrame(p, total)
    PROVE  RunsInv'
  <1>1. proc[p].at = "spans" /\ Leaves(p, NoRun) /\ UNCHANGED <<store, compaction>>
        /\ NoRun \in Nat /\ proc[p].strategy \in Strategies
    BY TypedProcess DEF RefuseFrame, HoldsRow, NoRun
  <1>2. /\ proc' \in [Processes -> Procs] /\ \A q \in Processes : q # p => proc'[q] = proc[q]
        /\ proc'[p].at \notin Holding /\ proc'[p].half = NoExpl /\ proc'[p].count = 0
        /\ proc'[p].run = NoRun
        /\ proc'[p].at \in {"idle", "done"} /\ batch' \in Batches /\ BatchKept
    BY <1>1, LeavesNothing
  <1>3. StateTypes'
    BY <1>1, <1>2 DEF RunsInv, StateTypes, store, compaction
  <1>4. HoldsRow(p)' /\ KeepsCount(p)'
    BY <1>1, <1>2, <1>3, HoldsNothing DEF compaction
  <1>5. QED BY <1>1, <1>2, <1>3, <1>4, QuietStep

\* A process that has just begun.
LEMMA Begun ==
    ASSUME NEW s \in Strategies
    PROVE  /\ LET next == [Idle EXCEPT !.at = "spans", !.strategy = s]
              IN  next \in Procs /\ next.at = "spans" /\ next.strategy \in Strategies
                  /\ next.half = NoExpl /\ next.count = 0 /\ next.run = NoRun
           /\ LET next == [Idle EXCEPT !.at = "append", !.strategy = s, !.left = 1]
              IN  next \in Procs /\ next.at = "append" /\ next.strategy \in Strategies
                  /\ next.half = NoExpl /\ next.count = 0 /\ next.run = NoRun
  <1>1. Idle \in Procs /\ Idle.half = NoExpl /\ Idle.count = 0 /\ Idle.run = NoRun
    BY DEF Idle, Procs, NoRun
  <1> DEFINE named == [Idle EXCEPT !.strategy = s]
  <1>2. named \in Procs /\ named.strategy = s /\ named.half = NoExpl /\ named.count = 0 /\ named.run = NoRun
    BY <1>1 DEF Procs
  <1>3. /\ [Idle EXCEPT !.at = "spans", !.strategy = s] = [named EXCEPT !.at = "spans"]
        /\ [Idle EXCEPT !.at = "append", !.strategy = s, !.left = 1]
              = [named EXCEPT !.at = "append", !.left = 1]
    BY <1>1 DEF Procs
  <1> HIDE DEF named
  <1>4. LET next == [named EXCEPT !.at = "spans"]
        IN  next \in Procs /\ next.at = "spans" /\ next.strategy = s
            /\ next.half = NoExpl /\ next.count = 0 /\ next.run = NoRun
    BY <1>2 DEF Procs
  <1>5. LET next == [named EXCEPT !.at = "append", !.left = 1]
        IN  next \in Procs /\ next.at = "append" /\ next.strategy = s
            /\ next.half = NoExpl /\ next.count = 0 /\ next.run = NoRun
    <2> DEFINE one == [named EXCEPT !.left = 1]
    <2>1. one \in Procs /\ one.strategy = s /\ one.half = NoExpl /\ one.count = 0 /\ one.run = NoRun
      BY <1>2 DEF Procs
    <2>2. [named EXCEPT !.at = "append", !.left = 1] = [one EXCEPT !.at = "append"]
      BY <1>2 DEF Procs
    <2> HIDE DEF one
    <2>3. QED BY <2>1, <2>2 DEF Procs
  <1>6. QED BY <1>3, <1>4, <1>5

LEMMA TakeStrategyKeeps ==
    ASSUME RunsInv, NEW p \in Processes, TakeStrategy(p)
    PROVE  RunsInv'
  <1>1. /\ batch.todo # << >> /\ UNCHANGED <<store, compaction>>
        /\ batch' = [batch EXCEPT !.todo = Tail(@)]
        /\ proc' = [proc EXCEPT ![p] = [Idle EXCEPT !.at = "spans", !.strategy = Head(batch.todo)]]
    BY DEF TakeStrategy
  <1>2. batch \in Batches /\ batch.todo \in Seq(Strategies) /\ proc \in [Processes -> Procs]
    BY DEF RunsInv, StateTypes, Batches
  <1>3. Head(batch.todo) \in Strategies /\ Tail(batch.todo) \in Seq(Strategies)
    BY <1>1, <1>2, HeadTailProperties
  <1> DEFINE next == [Idle EXCEPT !.at = "spans", !.strategy = Head(batch.todo)]
  <1>4. next \in Procs /\ next.at = "spans" /\ next.strategy \in Strategies
        /\ next.half = NoExpl /\ next.count = 0 /\ next.run = NoRun
    BY <1>3, Begun
  <1>5. batch' \in Batches /\ BatchKept
    BY <1>1, <1>2, <1>3 DEF Batches, BatchKept
  <1> HIDE DEF next
  <1>6. proc' \in [Processes -> Procs] /\ proc'[p] = next
        /\ \A q \in Processes : q # p => proc'[q] = proc[q]
    BY <1>1, <1>2, <1>4 DEF next
  <1>7. StateTypes'
    BY <1>1, <1>5, <1>6 DEF RunsInv, StateTypes, store, compaction
  <1>8. proc'[p].at \notin Holding
    BY <1>4, <1>6 DEF Holding, Unclosed, Closed
  <1>9. HoldsRow(p)' /\ KeepsCount(p)'
    BY <1>1, <1>4, <1>6, <1>7, <1>8, HoldsNothing DEF compaction
  <1>10. QED BY <1>1, <1>5, <1>6, <1>7, <1>8, <1>9, QuietStep

-----------------------------------------------------------------------------
\* Steps that write rows.

\* A sweep, of a process that has no row yet.
LEMMA SweepStep ==
    ASSUME RunsInv, StateTypes', NEW p \in Processes, NEW s, rows' = Swept(s), expl' = expl,
           UNCHANGED compaction, \A q \in Processes : q # p => proc'[q] = proc[q],
           proc[p].at \notin Holding, proc'[p].at \notin Holding,
           HoldsRow(p)', KeepsCount(p)', BatchKept
    PROVE  RunsInv'
  <1>1. /\ DOMAIN rows' = DOMAIN rows
        /\ \A r \in DOMAIN rows :
              /\ rows'[r].strategy = rows[r].strategy /\ rows'[r].meta = rows[r].meta
              /\ rows'[r].status = "completed" <=> rows[r].status = "completed"
    BY SweptRows DEF RunsInv
  <1>2. \A r : Traded(r)' = Traded(r)
    BY DEF Traded
  <1>3. OthersAlone(p)
    BY <1>1, <1>2 DEF OthersAlone, compaction
  <1>4. ExplInv'
    BY <1>1 DEF RunsInv, ExplInv, compaction
  <1>5. OwnKept(p)
    BY DEF OwnKept, Own
  <1>6. QED BY <1>3, <1>4, <1>5, ProcessStep

LEMMA RunSingleKeeps ==
    ASSUME RunsInv, NEW p \in Processes, NEW s \in Strategies, RunSingle(p, s)
    PROVE  RunsInv'
  <1>1. /\ proc[p].at = "idle" /\ rows' = Swept(s) /\ expl' = expl /\ batch' = batch
        /\ UNCHANGED compaction
        /\ proc' = [proc EXCEPT ![p] = [Idle EXCEPT !.at = "append", !.strategy = s, !.left = 1]]
    BY DEF RunSingle
  <1> DEFINE next == [Idle EXCEPT !.at = "append", !.strategy = s, !.left = 1]
  <1>2. next \in Procs /\ next.at = "append" /\ next.strategy \in Strategies
        /\ next.half = NoExpl /\ next.count = 0 /\ next.run = NoRun
    BY Begun
  <1> HIDE DEF next
  <1>3. proc' \in [Processes -> Procs] /\ proc'[p] = next
        /\ \A q \in Processes : q # p => proc'[q] = proc[q]
    BY <1>1, <1>2 DEF next, RunsInv, StateTypes
  <1>4. rows' \in Seq(RunRows) /\ DOMAIN rows' = DOMAIN rows
    BY <1>1, SweptRows DEF RunsInv
  <1>5. StateTypes'
    BY <1>1, <1>3, <1>4 DEF RunsInv, StateTypes, compaction
  <1>6. proc[p].at \notin Holding /\ proc'[p].at \notin Holding
    BY <1>1, <1>2, <1>3 DEF Holding, Unclosed, Closed
  <1>7. HoldsRow(p)' /\ KeepsCount(p)'
    BY <1>1, <1>2, <1>3, <1>5, <1>6, HoldsNothing DEF compaction
  <1>8. BatchKept
    BY <1>1 DEF BatchKept
  <1>9. QED BY <1>1, <1>3, <1>5, <1>6, <1>7, <1>8, SweepStep

\* As many windows as the splitter cuts is a number.
LEMMA WindowsCounted ==
    ASSUME NEW total \in Totals
    PROVE  Cardinality(Split(total, ComputeWindowSpans(total, Windows))) \in Nat
  <1> DEFINE s == ComputeWindowSpans(total, Windows)
             Begins == Starts(total, s)
             Cut == [i \in Begins |-> WindowAt(i, s)]
  <1>1. total \in Nat
    BY RunsAssumption
  <1>2. IsFiniteSet(0..total)
    BY <1>1, FS_Interval
  <1>3. IsFiniteSet(Begins)
    <2>1. Begins \subseteq 0..total
      BY DEF Starts
    <2>2. QED BY <1>2, <2>1, FS_Subset
  <1>4. Cut \in Surjection(Begins, Split(total, s))
    BY DEF Surjection, Split
  <1>5. IsFiniteSet(Split(total, s))
    BY <1>3, <1>4, FS_Surjection
  <1>6. QED BY <1>5, FS_CardinalityType

LEMMA FrameKeeps ==
    ASSUME RunsInv, NEW p \in Processes, NEW total \in Totals, Frame(p, total)
    PROVE  RunsInv'
  <1> DEFINE n == Cardinality(Split(total, ComputeWindowSpans(total, Windows)))
             next == [proc[p] EXCEPT !.at = "append", !.left = n]
  <1>1. /\ proc[p].at = "spans" /\ rows' = Swept(proc[p].strategy) /\ expl' = expl
        /\ batch' = batch /\ UNCHANGED compaction /\ proc' = [proc EXCEPT ![p] = next]
    BY DEF Frame
  <1>2. n \in Nat
    BY WindowsCounted
  <1>3. proc[p] \in Procs /\ HoldsRow(p) /\ KeepsCount(p)
    BY TypedProcess
  <1> HIDE DEF n
  <1> DEFINE counted == [proc[p] EXCEPT !.left = n]
  <1>4. counted \in Procs /\ counted.strategy = proc[p].strategy
        /\ counted.half = proc[p].half /\ counted.count = proc[p].count
        /\ counted.run = proc[p].run
    BY <1>2, <1>3 DEF Procs
  <1>5. next = [counted EXCEPT !.at = "append"]
    BY <1>3 DEF Procs
  <1> HIDE DEF counted, next
  <1>6. next \in Procs /\ next.at = "append" /\ next.strategy = proc[p].strategy
        /\ next.half = proc[p].half /\ next.count = proc[p].count
        /\ next.run = proc[p].run
    BY <1>4, <1>5 DEF Procs
  <1>7. proc[p].strategy \in Strategies /\ proc[p].half = NoExpl /\ proc[p].count = 0
        /\ proc[p].run = NoRun
    BY <1>1, <1>3 DEF HoldsRow, KeepsCount, Halfway, Holding, Unclosed, Closed
  <1>8. proc' \in [Processes -> Procs] /\ proc'[p] = next
        /\ \A q \in Processes : q # p => proc'[q] = proc[q]
    BY <1>1, <1>6 DEF RunsInv, StateTypes
  <1>9. rows' \in Seq(RunRows) /\ DOMAIN rows' = DOMAIN rows
    BY <1>1, SweptRows DEF RunsInv
  <1>10. StateTypes'
    BY <1>1, <1>8, <1>9 DEF RunsInv, StateTypes, compaction
  <1>11. proc[p].at \notin Holding /\ proc'[p].at \notin Holding
    BY <1>1, <1>6, <1>8 DEF Holding, Unclosed, Closed
  <1>12. HoldsRow(p)' /\ KeepsCount(p)'
    BY <1>1, <1>6, <1>7, <1>8, <1>10, <1>11, HoldsNothing DEF compaction
  <1>13. BatchKept
    BY <1>1 DEF BatchKept
  <1>14. QED BY <1>1, <1>8, <1>10, <1>11, <1>12, <1>13, SweepStep

LEMMA AppendRunKeeps ==
    ASSUME RunsInv, NEW p \in Processes, AppendRun(p)
    PROVE  RunsInv'
  <1> DEFINE row == [strategy |-> proc[p].strategy, status |-> "running",
                     ended |-> FALSE, meta |-> Planned]
             id == Len(rows) + 1
             next == [proc[p] EXCEPT !.at = "scan", !.run = id]
  <1>1. /\ proc[p].at = "append" /\ rows' = Append(rows, row) /\ expl' = expl /\ batch' = batch
        /\ UNCHANGED compaction /\ proc' = [proc EXCEPT ![p] = next]
    BY DEF AppendRun
  <1>2. proc[p] \in Procs /\ proc[p].strategy \in Strategies /\ proc[p].half = NoExpl
        /\ proc[p].count = 0
    BY <1>1, TypedProcess DEF HoldsRow, KeepsCount, Halfway
  <1>3. rows \in Seq(RunRows) /\ DOMAIN rows = 1..Len(rows) /\ Len(rows) \in Nat
    BY DEF RunsInv, StateTypes
  <1>4. row \in RunRows /\ row.status = "running" /\ row.strategy = proc[p].strategy
    BY <1>2 DEF RunRows, Planned
  <1> HIDE DEF row
  <1>5. /\ rows' \in Seq(RunRows) /\ DOMAIN rows' = DOMAIN rows \cup {id} /\ rows'[id] = row
        /\ id \notin DOMAIN rows /\ id \in Nat
        /\ \A r \in DOMAIN rows : rows'[r] = rows[r]
    <2>1. /\ rows' \in Seq(RunRows) /\ Len(rows') = id /\ rows'[id] = row
          /\ \A r \in 1..Len(rows) : rows'[r] = rows[r]
      BY <1>1, <1>3, <1>4, AppendProperties
    <2>2. DOMAIN rows' = 1..id
      BY <2>1
    <2>3. QED BY <1>3, <2>1, <2>2
  <1> HIDE DEF id
  <1> DEFINE numbered == [proc[p] EXCEPT !.run = id]
  <1>6. numbered \in Procs /\ numbered.run = id /\ numbered.strategy = proc[p].strategy
        /\ numbered.half = proc[p].half /\ numbered.count = proc[p].count
    BY <1>2, <1>5 DEF Procs
  <1>7. next = [numbered EXCEPT !.at = "scan"]
    BY <1>2 DEF Procs
  <1> HIDE DEF numbered, next
  <1>8. next \in Procs /\ next.at = "scan" /\ next.run = id /\ next.strategy = proc[p].strategy
        /\ next.half = NoExpl /\ next.count = 0
    BY <1>2, <1>6, <1>7 DEF Procs, Holding, Unclosed
  <1>9. proc' \in [Processes -> Procs] /\ proc'[p] = next
        /\ \A q \in Processes : q # p => proc'[q] = proc[q]
    BY <1>1, <1>8 DEF RunsInv, StateTypes
  <1>10. StateTypes'
    BY <1>1, <1>5, <1>9 DEF RunsInv, StateTypes, compaction
  <1>11. \A r : Traded(r)' = Traded(r)
    BY <1>1 DEF Traded
  <1>12. OthersAlone(p)
    <2>1. \A r \in DOMAIN rows' \ DOMAIN rows : rows'[r].status # "completed"
      BY <1>4, <1>5
    <2>2. QED BY <1>1, <1>5, <1>9, <1>11, <2>1 DEF OthersAlone, compaction
  <1>13. ExplInv'
    BY <1>1, <1>5 DEF RunsInv, ExplInv, compaction
  <1>14. HoldsRow(p)'
    BY <1>2, <1>4, <1>5, <1>8, <1>9 DEF HoldsRow, RowOf, Holding, Unclosed, Closed
  <1>15. KeepsCount(p)'
    <2>1. \A e \in expl' : e.run # id
      BY <1>1, <1>5 DEF RunsInv, ExplInv
    <2>2. Traded(proc[p].run)' \in Nat
      <3>1. \A r : Cardinality({e \in expl : e.run = r /\ e.traded}) \in Nat
        BY TradedIsNat DEF Traded, RunsInv, StateTypes
      <3>2. QED BY <1>1, <3>1 DEF Traded
    <2>3. NoExpl \notin compactor'.ids
      BY <1>1, TypedProcess DEF compaction
    <2>4. QED BY <1>8, <1>9, <2>1, <2>2, <2>3 DEF KeepsCount
  <1>16. OwnKept(p)
    BY <1>1, <1>5, <1>8, <1>9, <1>14, <1>15 DEF OwnKept, Own, Holding, Unclosed, Closed
  <1>17. BatchKept
    BY <1>1 DEF BatchKept
  <1>18. QED BY <1>10, <1>12, <1>13, <1>16, <1>17, ProcessStep

\* A process writes its own row.
LEMMA OwnRowStep ==
    ASSUME RunsInv, StateTypes', NEW p \in Processes, NEW row \in RunRows,
           proc[p].at \in Holding, rows' = [rows EXCEPT ![proc[p].run] = row], expl' = expl,
           UNCHANGED compaction, \A q \in Processes : q # p => proc'[q] = proc[q],
           row.strategy = RowOf(p).strategy,
           RowOf(p).status = "completed" => row.status = "completed",
           RowOf(p).status = "completed" /\ RowOf(p).meta.screened => row.meta.screened,
           row.status = "completed" =>
              /\ row.meta.signals # -1
              /\ proc[p].run \notin orphaned => row.meta.signals <= Traded(proc[p].run),
           HoldsRow(p)', KeepsCount(p)', BatchKept,
           proc'[p].at \in Holding => proc'[p].run = proc[p].run
    PROVE  RunsInv'
  <1> DEFINE id == proc[p].run
  <1>1. id \in DOMAIN rows /\ RowOf(p) = rows[id]
    BY TypedProcess DEF RowOf
  <1>2. /\ DOMAIN rows' = DOMAIN rows /\ rows'[id] = row
        /\ \A r \in DOMAIN rows : r # id => rows'[r] = rows[r]
    BY <1>1, RowSet DEF RunsInv
  <1>3. \A r : Traded(r)' = Traded(r)
    BY DEF Traded
  <1>4. Own(p) = {id}
    BY DEF Own
  <1>5. OthersAlone(p)
    <2>1. \A r \in DOMAIN rows :
             /\ rows'[r].strategy = rows[r].strategy
             /\ rows[r].status = "completed" =>
                   /\ rows'[r].status = "completed"
                   /\ rows[r].meta.screened => rows'[r].meta.screened
             /\ r \notin Own(p) => /\ rows'[r].meta = rows[r].meta
                                   /\ rows'[r].status = "completed" => rows[r].status = "completed"
      BY <1>1, <1>2, <1>4
    <2>2. QED BY <1>2, <1>3, <2>1 DEF OthersAlone, compaction
  <1>6. ExplInv'
    BY <1>2 DEF RunsInv, ExplInv, compaction
  <1>7. OwnKept(p)
    BY <1>2, <1>3, <1>4 DEF OwnKept
  <1>8. QED BY <1>5, <1>6, <1>7, ProcessStep

LEMMA FailedKeeps ==
    ASSUME RunsInv, NEW p \in Processes, ScanBlocked(p) \/ MarkFailed(p)
    PROVE  RunsInv'
  <1> DEFINE row == [rows[proc[p].run] EXCEPT !.status = "failed", !.ended = TRUE]
             id == proc[p].run
  <1>1. /\ proc[p].at \in {"scan", "fail"} /\ Write(id, "failed", RowOf(p).meta)
        /\ Leaves(p, NoRun) /\ UNCHANGED <<expl, compaction>> /\ NoRun \in Nat
    BY DEF ScanBlocked, MarkFailed, NoRun
  <1>2. /\ proc[p].at \in Holding /\ proc[p].at \in Unclosed /\ id \in DOMAIN rows
        /\ rows[id] \in RunRows /\ RowOf(p) = rows[id] /\ proc[p].strategy \in Strategies
        /\ RowOf(p).status # "completed"
    BY <1>1, TypedProcess DEF Holding, Unclosed, RowOf, HoldsRow
  <1>3. row \in RunRows /\ row.status = "failed" /\ row.strategy = rows[id].strategy
    BY <1>2 DEF RunRows
  <1>4. rows' = [rows EXCEPT ![id] = row]
    <2>1. [rows[id] EXCEPT !.status = "failed", !.ended = TRUE, !.meta = rows[id].meta] = row
      BY <1>2 DEF RunRows
    <2>2. rows' = [rows EXCEPT ![id] = [rows[id] EXCEPT !.status = "failed", !.ended = TRUE,
                                                        !.meta = rows[id].meta]]
      BY <1>1, <1>2 DEF Write
    <2>3. QED BY <2>1, <2>2
  <1> HIDE DEF row
  <1>5. /\ proc' \in [Processes -> Procs] /\ \A q \in Processes : q # p => proc'[q] = proc[q]
        /\ proc'[p].at \notin Holding /\ proc'[p].half = NoExpl /\ proc'[p].count = 0
        /\ proc'[p].run = NoRun
        /\ proc'[p].at \in {"idle", "done"} /\ batch' \in Batches /\ BatchKept
    BY <1>1, <1>2, LeavesNothing
  <1>6. rows' \in Seq(RunRows) /\ DOMAIN rows' = DOMAIN rows
    BY <1>2, <1>3, <1>4, RowSet DEF RunsInv
  <1>7. StateTypes'
    BY <1>1, <1>5, <1>6 DEF RunsInv, StateTypes, compaction
  <1>8. HoldsRow(p)' /\ KeepsCount(p)'
    BY <1>1, <1>5, <1>7, HoldsNothing DEF compaction
  <1>9. QED BY <1>1, <1>2, <1>3, <1>4, <1>5, <1>7, <1>8, OwnRowStep

LEMMA FinalizeKeeps ==
    ASSUME RunsInv, NEW p \in Processes, Finalize(p)
    PROVE  RunsInv'
  <1> DEFINE id == proc[p].run
             meta == [Planned EXCEPT !.signals = proc[p].count]
             row == [rows[id] EXCEPT !.status = "completed", !.ended = TRUE, !.meta = meta]
  <1>1. /\ proc[p].at = "finalize" /\ Write(id, "completed", meta)
        /\ UNCHANGED <<expl, compaction>>
        /\ p \in Workers => Goes(p, "stamp") /\ UNCHANGED batch
        /\ p \notin Workers => Leaves(p, id)
    BY DEF Finalize
  <1>2. /\ proc[p].at \in Holding /\ proc[p].at \in Unclosed /\ id \in DOMAIN rows
        /\ rows[id] \in RunRows /\ RowOf(p) = rows[id] /\ proc[p].strategy \in Strategies
        /\ RowOf(p).status # "completed" /\ proc[p] \in Procs /\ HoldsRow(p) /\ KeepsCount(p)
    BY <1>1, TypedProcess DEF Holding, Unclosed, RowOf, HoldsRow
  <1>3. /\ proc[p].count \in Nat
        /\ id \notin orphaned => proc[p].count <= Traded(id)
    BY <1>2 DEF KeepsCount, Procs
  <1>4. meta \in [signals : Nat \cup {-1}, screened : BOOLEAN] /\ meta.signals = proc[p].count
    BY <1>3 DEF Planned
  <1> HIDE DEF meta
  <1>5. row \in RunRows /\ row.status = "completed" /\ row.strategy = rows[id].strategy
        /\ row.meta.signals = proc[p].count
    BY <1>2, <1>4 DEF RunRows
  <1>6. rows' = [rows EXCEPT ![id] = row]
    BY <1>1, <1>2 DEF Write
  <1> HIDE DEF row
  <1>7. rows' \in Seq(RunRows) /\ DOMAIN rows' = DOMAIN rows /\ rows'[id] = row
    BY <1>2, <1>5, <1>6, RowSet DEF RunsInv
  <1>8. /\ row.status = "completed" =>
              /\ row.meta.signals # -1
              /\ id \notin orphaned => row.meta.signals <= Traded(id)
    BY <1>3, <1>5
  <1>9. CASE p \notin Workers
    <2>1. id \in Nat
      BY <1>2, TypedRows DEF RunsInv
    <2>2. /\ proc' \in [Processes -> Procs] /\ \A q \in Processes : q # p => proc'[q] = proc[q]
          /\ proc'[p].at \notin Holding /\ proc'[p].half = NoExpl /\ proc'[p].count = 0
          /\ proc'[p].run = NoRun
          /\ proc'[p].at \in {"idle", "done"} /\ batch' \in Batches /\ BatchKept
      BY <1>1, <1>2, <1>9, <2>1, LeavesNothing
    <2>3. StateTypes'
      BY <1>1, <1>7, <2>2 DEF RunsInv, StateTypes, compaction
    <2>4. HoldsRow(p)' /\ KeepsCount(p)'
      BY <1>1, <2>2, <2>3, HoldsNothing DEF compaction
    <2>5. QED BY <1>1, <1>2, <1>5, <1>6, <1>8, <2>2, <2>3, <2>4, OwnRowStep
  <1>10. CASE p \in Workers
    <2> DEFINE next == [proc[p] EXCEPT !.at = "stamp"]
    <2>1. proc' = [proc EXCEPT ![p] = next] /\ batch' = batch
      BY <1>1, <1>10 DEF Goes
    <2>2. next \in Procs /\ next.at = "stamp" /\ next.run = id /\ next.wrote = proc[p].wrote
          /\ next.strategy = proc[p].strategy /\ next.half = proc[p].half
      BY <1>2 DEF Procs, Holding, Closed
    <2> HIDE DEF next
    <2>3. proc' \in [Processes -> Procs] /\ proc'[p] = next
          /\ \A q \in Processes : q # p => proc'[q] = proc[q]
      BY <2>1, <2>2 DEF RunsInv, StateTypes
    <2>4. StateTypes'
      BY <1>1, <1>7, <2>1, <2>3 DEF RunsInv, StateTypes, compaction
    <2>5. HoldsRow(p)'
      BY <1>2, <1>5, <1>7, <1>10, <2>2, <2>3 DEF HoldsRow, RowOf, Holding, Unclosed, Closed
    <2>6. KeepsCount(p)'
      <3>1. \A e \in expl' : e.run = id => e.id[2] <= proc[p].wrote
        BY <1>1, <1>2 DEF KeepsCount
      <3>2. next.half = NoExpl
        BY <1>1, <1>2, <2>2 DEF KeepsCount, Halfway
      <3>3. QED BY <1>1, <1>2, <2>2, <2>3, <3>1, <3>2, TypedProcess
              DEF KeepsCount, Holding, Unclosed, Closed, compaction
    <2>7. BatchKept
      BY <2>1 DEF BatchKept
    <2>8. QED BY <1>1, <1>2, <1>5, <1>6, <1>8, <2>2, <2>3, <2>4, <2>5, <2>6, <2>7, OwnRowStep
  <1>11. QED BY <1>9, <1>10

LEMMA StampKeeps ==
    ASSUME RunsInv, NEW p \in Processes, Stamp(p)
    PROVE  RunsInv'
  <1> DEFINE id == proc[p].run
             meta == [signals |-> proc[p].count, screened |-> TRUE]
             row == [rows[id] EXCEPT !.meta = meta]
  <1>1. /\ proc[p].at = "write" /\ rows' = [rows EXCEPT ![id].meta = meta]
        /\ UNCHANGED <<expl, compaction>> /\ Leaves(p, id)
    BY DEF Stamp
  <1>2. /\ proc[p].at \in Holding /\ proc[p].at \in Closed /\ id \in DOMAIN rows
        /\ rows[id] \in RunRows /\ RowOf(p) = rows[id] /\ proc[p].strategy \in Strategies
        /\ RowOf(p).status = "completed" /\ proc[p].count = RowOf(p).meta.signals
        /\ RowOf(p).strategy = proc[p].strategy
    BY <1>1, TypedProcess DEF Holding, Closed, RowOf, HoldsRow
  <1>3. meta \in [signals : Nat \cup {-1}, screened : BOOLEAN] /\ meta.signals = rows[id].meta.signals
        /\ meta.screened
    BY <1>2 DEF RunRows
  <1>4. rows' = [rows EXCEPT ![id] = row]
    BY <1>1, <1>2
  <1> HIDE DEF meta
  <1>5. row \in RunRows /\ row.status = "completed" /\ row.strategy = proc[p].strategy
        /\ row.meta.signals = rows[id].meta.signals /\ row.meta.screened
    BY <1>2, <1>3 DEF RunRows
  <1> HIDE DEF row
  <1>6. rows' \in Seq(RunRows) /\ DOMAIN rows' = DOMAIN rows /\ rows'[id] = row
    BY <1>2, <1>4, <1>5, RowSet DEF RunsInv
  <1>7. id \in Nat
    BY <1>2, TypedRows DEF RunsInv
  <1>8. \E r \in Nat, s \in Strategies : /\ r = id /\ s = proc[p].strategy
    BY <1>2, <1>7
  <1>9. PICK r \in Nat, s \in Strategies : r = id /\ s = proc[p].strategy
    BY <1>8
  <1>10. OnRecord(s, r)'
    BY <1>2, <1>5, <1>6, <1>9 DEF OnRecord
  <1>11. /\ proc' \in [Processes -> Procs] /\ \A q \in Processes : q # p => proc'[q] = proc[q]
         /\ proc'[p].at \notin Holding /\ proc'[p].half = NoExpl /\ proc'[p].count = 0
         /\ proc'[p].run = NoRun
         /\ proc'[p].at \in {"idle", "done"} /\ batch' \in Batches /\ BatchKept
    BY <1>1, <1>9, <1>10, LeavesNothing
  <1>12. StateTypes'
    BY <1>1, <1>6, <1>11 DEF RunsInv, StateTypes, compaction
  <1>13. HoldsRow(p)' /\ KeepsCount(p)'
    BY <1>1, <1>11, <1>12, HoldsNothing DEF compaction
  <1>14. /\ row.meta.signals # -1
         /\ id \notin orphaned => row.meta.signals <= Traded(id)
    BY <1>2, <1>5 DEF RunsInv, RowInv
  <1>15. /\ proc[p].at \in Holding /\ rows' = [rows EXCEPT ![proc[p].run] = row] /\ expl' = expl
         /\ UNCHANGED compaction
         /\ row.strategy = RowOf(p).strategy /\ row.status = "completed" /\ row.meta.screened
         /\ proc'[p].at \notin Holding
    BY <1>1, <1>2, <1>4, <1>5, <1>11
  <1>16. /\ row.meta.signals # -1
         /\ proc[p].run \notin orphaned => row.meta.signals <= Traded(proc[p].run)
    BY <1>14
  <1>17. BatchKept /\ \A q \in Processes : q # p => proc'[q] = proc[q]
    BY <1>11
  <1> HIDE DEF row, id
  <1>18. QED BY <1>5, <1>12, <1>13, <1>15, <1>16, <1>17, OwnRowStep

-----------------------------------------------------------------------------
\* Steps that write explanations.

\* A process writes of its own open run.
LEMMA OwnOrdersStep ==
    ASSUME RunsInv, StateTypes', NEW p \in Processes, proc[p].at \in Unclosed,
           UNCHANGED <<rows, batch, compaction>>,
           \A q \in Processes : q # p => proc'[q] = proc[q],
           \A e \in expl' : e.run # proc[p].run => e \in expl,
           \A r : r # proc[p].run => Traded(r)' = Traded(r),
           HoldsRow(p)', KeepsCount(p)', ExplInv',
           proc'[p].at \in Holding => proc'[p].run = proc[p].run
    PROVE  RunsInv'
  <1>1. proc[p].at \in Holding /\ Own(p) = {proc[p].run} /\ HoldsRow(p)
        /\ RowOf(p).status # "completed"
    BY TypedProcess DEF Own, HoldsRow
  <1>2. OthersAlone(p)
    BY <1>1 DEF OthersAlone, compaction
  <1>3. OwnKept(p)
    BY <1>1 DEF OwnKept, RowOf
  <1>4. BatchKept
    BY DEF BatchKept
  <1>5. QED BY <1>2, <1>3, <1>4, ProcessStep

\* The next explanation of a run is a new one.
LEMMA NextIsNew ==
    ASSUME RunsInv, NEW p \in Processes, proc[p].at \in Unclosed, NEW traded \in BOOLEAN,
           NEW e, e = Explains(p, traded), expl' = expl \cup {e}, UNCHANGED <<rows, compaction>>
    PROVE  /\ e \in Explanations /\ e \notin expl /\ e.run = proc[p].run /\ e.traded = traded
           /\ e.id = NextId(p) /\ e.id[1] = proc[p].run /\ e.id[2] = proc[p].wrote + 1
           /\ NextId(p) \in Ids /\ NextId(p) \notin compactor.ids
           /\ expl' \subseteq Explanations
           /\ ExplInv'
  <1>1. /\ proc[p] \in Procs /\ KeepsCount(p) /\ proc[p].run \in DOMAIN rows
        /\ proc[p].at \in Holding /\ proc[p].run \in Nat /\ proc[p].wrote \in Nat
    BY TypedProcess DEF Procs
  <1>2. /\ e.run = proc[p].run /\ e.traded = traded /\ e.id = NextId(p)
        /\ e.id[1] = proc[p].run /\ e.id[2] = proc[p].wrote + 1
        /\ NextId(p) \in Ids
    BY <1>1 DEF Explains, NextId, Ids
  <1>3. e \in Explanations
    BY <1>1, <1>2 DEF Explains, Explanations
  <1>4. \A f \in expl : f.id # e.id
    <2>1. SUFFICES ASSUME NEW f \in expl, f.id = e.id PROVE FALSE
      OBVIOUS
    <2>2. f.run = proc[p].run
      BY <1>2, <2>1 DEF RunsInv, ExplInv
    <2>3. f.id[2] <= proc[p].wrote
      BY <1>1, <2>2 DEF KeepsCount
    <2>4. QED BY <1>1, <1>2, <2>1, <2>3
  <1>5. NextId(p) \notin compactor.ids
    BY <1>2, <1>4 DEF RunsInv, ExplInv
  <1>6. ExplInv'
    <2>1. rows' = rows /\ compactor' = compactor /\ orphaned' = orphaned
      BY DEF compaction
    <2>2. QED BY <1>1, <1>2, <1>4, <1>5, <2>1 DEF RunsInv, ExplInv
  <1>7. expl' \subseteq Explanations
    BY <1>3 DEF RunsInv, StateTypes
  <1>8. QED BY <1>2, <1>3, <1>4, <1>5, <1>6, <1>7

LEMMA ExecuteKeeps ==
    ASSUME RunsInv, NEW p \in Processes, Execute(p)
    PROVE  RunsInv'
  <1>1. PICK filled \in {0, 1} :
           proc' = [proc EXCEPT ![p].orders = @ + 1, ![p].wrote = @ + 1, ![p].count = @ + filled]
    BY DEF Execute
  <1>2. /\ proc[p].at = "window" /\ expl' = expl \cup {Explains(p, TRUE)}
        /\ UNCHANGED <<rows, batch, compaction>>
    BY DEF Execute
  <1> DEFINE id == proc[p].run
             next == [proc[p] EXCEPT !.orders = @ + 1, !.wrote = @ + 1, !.count = @ + filled]
  <1>3. /\ proc[p] \in Procs /\ KeepsCount(p) /\ HoldsRow(p)
        /\ proc[p].at \in Holding /\ proc[p].at \in Unclosed /\ proc[p].half = NoExpl
    BY <1>2, TypedProcess DEF Unclosed, KeepsCount, Halfway
  <1>4. /\ next \in Procs /\ next.at = "window" /\ next.run = id
        /\ next.strategy = proc[p].strategy /\ next.half = NoExpl
        /\ next.wrote = proc[p].wrote + 1 /\ next.count = proc[p].count + filled
        /\ proc[p].count \in Nat /\ proc[p].wrote \in Nat
    <2>1. proc[p].count \in Nat /\ proc[p].wrote \in Nat /\ proc[p].orders \in Nat
          /\ filled \in Nat
      BY <1>3 DEF Procs
    <2> DEFINE o == proc[p].orders + 1
               w == proc[p].wrote + 1
               c == proc[p].count + filled
               one == [proc[p] EXCEPT !.orders = o]
               two == [one EXCEPT !.wrote = w]
    <2>2. next = [two EXCEPT !.count = c]
      BY <1>3 DEF Procs
    <2>3. o \in Nat /\ w \in Nat /\ c \in Nat
      BY <2>1
    <2> HIDE DEF o, w, c
    <2>4. /\ one \in Procs /\ one.at = "window" /\ one.run = id
          /\ one.strategy = proc[p].strategy /\ one.half = NoExpl
      BY <1>2, <1>3, <2>3 DEF Procs
    <2> HIDE DEF one
    <2>5. /\ two \in Procs /\ two.at = "window" /\ two.run = id
          /\ two.strategy = proc[p].strategy /\ two.half = NoExpl /\ two.wrote = w
      BY <2>3, <2>4 DEF Procs
    <2> HIDE DEF two, next
    <2>6. /\ next \in Procs /\ next.at = "window" /\ next.run = id
          /\ next.strategy = proc[p].strategy /\ next.half = NoExpl
          /\ next.wrote = w /\ next.count = c
      BY <2>2, <2>3, <2>5 DEF Procs
    <2>7. QED BY <2>1, <2>6 DEF o, w, c
  <1>5. proc' = [proc EXCEPT ![p] = next]
    BY <1>1 DEF RunsInv, StateTypes
  <1> HIDE DEF next
  <1>6. proc' \in [Processes -> Procs] /\ proc'[p] = next
        /\ \A q \in Processes : q # p => proc'[q] = proc[q]
    BY <1>4, <1>5 DEF RunsInv, StateTypes
  <1>7. PICK e : e = Explains(p, TRUE)
    OBVIOUS
  <1>8. /\ e \notin expl /\ e.run = id /\ e.traded = TRUE /\ e.id[2] = proc[p].wrote + 1
        /\ expl' \subseteq Explanations /\ expl' = expl \cup {e} /\ ExplInv'
    BY <1>2, <1>3, <1>7, NextIsNew
  <1>9. /\ IsFiniteSet(expl') /\ Traded(e.run)' = Traded(e.run) + 1
        /\ \A r : r # e.run => Traded(r)' = Traded(r)
    BY <1>8, ExplAdded DEF RunsInv, StateTypes
  <1>10. StateTypes'
    BY <1>2, <1>6, <1>8, <1>9 DEF RunsInv, StateTypes, compaction
  <1>11. HoldsRow(p)'
    BY <1>2, <1>3, <1>4, <1>6 DEF HoldsRow, RowOf, Holding, Unclosed, Closed
  <1>12. KeepsCount(p)'
    <2>1. \A f \in expl' : f.run = id => f.id[2] <= proc[p].wrote + 1
      <3>1. \A f \in expl : f.id[2] \in Nat
        BY DEF RunsInv, StateTypes, Explanations, Ids
      <3>2. QED BY <1>3, <1>4, <1>8, <3>1 DEF KeepsCount
    <2>2. Traded(id) \in Nat
      BY TradedIsNat DEF RunsInv, StateTypes
    <2>3. id \notin orphaned => next.count <= Traded(id) + 1
      BY <1>3, <1>4, <2>2 DEF KeepsCount
    <2>4. Traded(e.run)' = Traded(id) + 1
      BY <1>8, <1>9
    <2>5. Traded(proc[p].run)' = Traded(id) + 1
      BY <1>4, <1>6, <1>8, <2>4 DEF Traded
    <2>6. QED BY <1>2, <1>4, <1>6, <2>1, <2>3, <2>5, TypedProcess
            DEF KeepsCount, compaction
  <1>13. \A r : r # id => Traded(r)' = Traded(r)
    BY <1>8, <1>9
  <1>14. QED BY <1>2, <1>3, <1>4, <1>6, <1>8, <1>10, <1>11, <1>12, <1>13, OwnOrdersStep

LEMMA ExplainSkipKeeps ==
    ASSUME RunsInv, NEW p \in Processes, ExplainSkip(p)
    PROVE  RunsInv'
  <1> DEFINE id == proc[p].run
             next == [proc[p] EXCEPT !.at = "skip", !.half = NextId(p), !.wrote = @ + 1]
  <1>1. /\ proc[p].at = "window" /\ expl' = expl \cup {Explains(p, FALSE)}
        /\ UNCHANGED <<rows, batch, compaction>> /\ proc' = [proc EXCEPT ![p] = next]
    BY DEF ExplainSkip, RunsInv, StateTypes
  <1>2. /\ proc[p] \in Procs /\ KeepsCount(p) /\ HoldsRow(p)
        /\ proc[p].at \in Holding /\ proc[p].at \in Unclosed
        /\ proc[p].count \in Nat /\ proc[p].wrote \in Nat
    BY <1>1, TypedProcess DEF Unclosed, Procs
  <1>3. PICK e : e = Explains(p, FALSE)
    OBVIOUS
  <1>4. /\ e \notin expl /\ e.run = id /\ e.traded = FALSE /\ e.id[2] = proc[p].wrote + 1
        /\ e.id[1] = id /\ e.id = NextId(p) /\ NextId(p) \in Ids /\ NextId(p) \notin compactor.ids
        /\ expl' \subseteq Explanations /\ expl' = expl \cup {e} /\ ExplInv'
    BY <1>1, <1>2, <1>3, NextIsNew
  <1> DEFINE moved == [proc[p] EXCEPT !.at = "skip"]
             wrote == [moved EXCEPT !.wrote = @ + 1]
  <1>5. moved \in Procs /\ moved.at = "skip" /\ moved.run = id /\ moved.wrote = proc[p].wrote
        /\ moved.strategy = proc[p].strategy /\ moved.count = proc[p].count
    BY <1>2 DEF Procs, Holding, Unclosed
  <1>6. next = [wrote EXCEPT !.half = NextId(p)]
    BY <1>2 DEF Procs
  <1> HIDE DEF next, moved
  <1>7. wrote \in Procs /\ wrote.at = "skip" /\ wrote.run = id /\ wrote.wrote = proc[p].wrote + 1
        /\ wrote.strategy = proc[p].strategy /\ wrote.count = proc[p].count
    BY <1>2, <1>5 DEF Procs
  <1> HIDE DEF wrote
  <1>8. /\ next \in Procs /\ next.at = "skip" /\ next.run = id
        /\ next.strategy = proc[p].strategy /\ next.half = NextId(p)
        /\ next.wrote = proc[p].wrote + 1 /\ next.count = proc[p].count
    BY <1>4, <1>6, <1>7 DEF Procs
  <1>9. proc' \in [Processes -> Procs] /\ proc'[p] = next
        /\ \A q \in Processes : q # p => proc'[q] = proc[q]
    BY <1>1, <1>8 DEF RunsInv, StateTypes
  <1>10. /\ IsFiniteSet(expl') /\ Traded(e.run)' = Traded(e.run)
         /\ \A r : r # e.run => Traded(r)' = Traded(r)
    BY <1>4, ExplAdded DEF RunsInv, StateTypes
  <1>11. StateTypes'
    BY <1>1, <1>4, <1>9, <1>10 DEF RunsInv, StateTypes, compaction
  <1>12. HoldsRow(p)'
    BY <1>1, <1>2, <1>8, <1>9 DEF HoldsRow, RowOf, Holding, Unclosed, Closed
  <1>13. KeepsCount(p)'
    <2>1. \A f \in expl' : f.run = id => f.id[2] <= proc[p].wrote + 1
      <3>1. \A f \in expl : f.id[2] \in Nat
        BY DEF RunsInv, StateTypes, Explanations, Ids
      <3>2. QED BY <1>2, <1>4, <3>1 DEF KeepsCount
    <2>2. Traded(e.run)' = Traded(id)
      BY <1>4, <1>10
    <2>3. Traded(proc[p].run)' = Traded(id)
      BY <1>4, <1>8, <1>9, <2>2 DEF Traded
    <2>4. next.half[1] = id /\ next.half[2] = proc[p].wrote + 1 /\ next.half \notin compactor.ids
      BY <1>4, <1>8
    <2>5. id \notin orphaned => next.count <= Traded(id)
      BY <1>2, <1>8 DEF KeepsCount
    <2>6. compactor' = compactor /\ orphaned' = orphaned
      BY <1>1 DEF compaction
    <2>7. (proc[p].half # NoExpl => /\ proc[p].at \in Halfway
                                    /\ proc[p].half[1] = proc[p].run
                                    /\ proc[p].half[2] <= proc[p].wrote
                                    /\ \A f \in expl : f.id = proc[p].half => ~f.traded)'
      <3>1. \A f \in expl' : f.id = NextId(p) => ~f.traded
        BY <1>4 DEF ExplInv
      <3>2. QED BY <1>2, <1>8, <1>9, <2>4, <3>1 DEF Halfway
    <2>8. proc'[p].half \notin compactor'.ids
      BY <1>9, <2>4, <2>6
    <2>9. (proc[p].at \in Unclosed /\ proc[p].run \notin orphaned =>
              proc[p].count <= Traded(proc[p].run))'
      BY <1>8, <1>9, <2>3, <2>5, <2>6
    <2>10. QED BY <1>8, <1>9, <2>1, <2>7, <2>8, <2>9 DEF KeepsCount
  <1>14. \A r : r # id => Traded(r)' = Traded(r)
    BY <1>4, <1>10
  <1>15. QED BY <1>1, <1>2, <1>4, <1>8, <1>9, <1>11, <1>12, <1>13, <1>14, OwnOrdersStep

LEMMA TradeSkipKeeps ==
    ASSUME RunsInv, NEW p \in Processes, TradeSkip(p)
    PROVE  RunsInv'
  <1> DEFINE id == proc[p].run
             next == [proc[p] EXCEPT !.at = "window", !.half = NoExpl,
                                     !.orders = @ + 1, !.count = @ + 1]
  <1>1. /\ proc[p].at = "skip" /\ Halved(p) # {}
        /\ expl' = (expl \ Halved(p)) \cup {[e EXCEPT !.traded = TRUE] : e \in Halved(p)}
        /\ UNCHANGED <<rows, batch, compaction>> /\ proc' = [proc EXCEPT ![p] = next]
    BY DEF TradeSkip, RunsInv, StateTypes
  <1>2. /\ proc[p] \in Procs /\ KeepsCount(p) /\ HoldsRow(p)
        /\ proc[p].at \in Holding /\ proc[p].at \in Unclosed
        /\ proc[p].count \in Nat /\ proc[p].orders \in Nat
    BY <1>1, TypedProcess DEF Unclosed, Procs
  <1>3. /\ next \in Procs /\ next.at = "window" /\ next.run = id
        /\ next.strategy = proc[p].strategy /\ next.half = NoExpl
        /\ next.wrote = proc[p].wrote /\ next.count = proc[p].count + 1
    <2> DEFINE o == proc[p].orders + 1
               c == proc[p].count + 1
               one == [proc[p] EXCEPT !.at = "window"]
               two == [one EXCEPT !.half = NoExpl]
               three == [two EXCEPT !.orders = o]
    <2>1. next = [three EXCEPT !.count = c]
      BY <1>2 DEF Procs
    <2>2. o \in Nat /\ c \in Nat
      BY <1>2
    <2> HIDE DEF o, c
    <2>3. /\ one \in Procs /\ one.at = "window" /\ one.run = id /\ one.wrote = proc[p].wrote
          /\ one.strategy = proc[p].strategy
      BY <1>2 DEF Procs, Holding, Unclosed
    <2> HIDE DEF one
    <2>4. /\ two \in Procs /\ two.at = "window" /\ two.run = id /\ two.wrote = proc[p].wrote
          /\ two.strategy = proc[p].strategy /\ two.half = NoExpl
      BY <2>3 DEF Procs
    <2> HIDE DEF two
    <2>5. /\ three \in Procs /\ three.at = "window" /\ three.run = id /\ three.wrote = proc[p].wrote
          /\ three.strategy = proc[p].strategy /\ three.half = NoExpl
      BY <2>2, <2>4 DEF Procs
    <2> HIDE DEF three, next
    <2>6. /\ next \in Procs /\ next.at = "window" /\ next.run = id /\ next.wrote = proc[p].wrote
          /\ next.strategy = proc[p].strategy /\ next.half = NoExpl /\ next.count = c
      BY <2>1, <2>2, <2>5 DEF Procs
    <2>7. QED BY <2>6 DEF c
  <1> HIDE DEF next
  <1>4. proc' \in [Processes -> Procs] /\ proc'[p] = next
        /\ \A q \in Processes : q # p => proc'[q] = proc[q]
    BY <1>1, <1>3 DEF RunsInv, StateTypes
  <1>5. PICK f \in Halved(p) : TRUE
    BY <1>1
  <1>6. Halved(p) = {f} /\ f \in expl /\ f \in Explanations /\ f.id = proc[p].half
    BY <1>5 DEF Halved, RunsInv, ExplInv, StateTypes
  <1>7. /\ proc[p].half # NoExpl /\ f.id[1] = f.run /\ f.run = id /\ ~f.traded
        /\ f.run \in DOMAIN rows
    <2>1. proc[p].half # NoExpl
      BY <1>6, NoExplIsNoId DEF Explanations
    <2>2. QED BY <1>2, <1>6, <2>1 DEF KeepsCount, RunsInv, ExplInv
  <1> DEFINE g == [f EXCEPT !.traded = TRUE]
             others == expl \ {f}
  <1>8. g \in Explanations /\ g.id = f.id /\ g.run = id /\ g.traded = TRUE
    BY <1>6, <1>7 DEF Explanations
  <1>9. expl' = others \cup {g}
    BY <1>1, <1>6
  <1> HIDE DEF g, others
  <1>10. others \subseteq expl /\ f \notin others /\ g \notin expl /\ g # f
         /\ \A e \in others : e.id # f.id
    BY <1>6, <1>7, <1>8 DEF others, RunsInv, ExplInv
  <1>11. IsFiniteSet(expl') /\ expl' \subseteq Explanations
    <2>1. IsFiniteSet(others)
      BY <1>10, FS_Subset DEF RunsInv, StateTypes
    <2>2. QED BY <1>8, <1>9, <1>10, <2>1, FS_AddElement DEF RunsInv, StateTypes
  <1>12. \A r : r # id => Traded(r)' = Traded(r)
    <2>1. SUFFICES ASSUME NEW r, r # id PROVE Traded(r)' = Traded(r)
      OBVIOUS
    <2>2. TradesOf(r)' = TradesOf(r)
      BY <1>7, <1>8, <1>9, <2>1 DEF TradesOf, others
    <2>3. QED BY <2>2 DEF Traded, TradesOf
  <1>13. Cardinality({e \in expl' : e.run = id /\ e.traded}) = Traded(id) + 1
    <2>1. {e \in expl' : e.run = id /\ e.traded} = TradesOf(id) \cup {g}
      BY <1>7, <1>8, <1>9 DEF TradesOf, others
    <2>2. g \notin TradesOf(id) /\ IsFiniteSet(TradesOf(id))
      BY <1>10, FS_Subset DEF TradesOf, RunsInv, StateTypes
    <2>3. Cardinality(TradesOf(id) \cup {g}) = Cardinality(TradesOf(id)) + 1
      BY <2>2, FS_AddElement
    <2>4. QED BY <2>1, <2>3 DEF Traded, TradesOf
  <1>14. StateTypes'
    BY <1>1, <1>4, <1>11 DEF RunsInv, StateTypes, compaction
  <1>15. HoldsRow(p)'
    BY <1>1, <1>2, <1>3, <1>4 DEF HoldsRow, RowOf, Holding, Unclosed, Closed
  <1>16. KeepsCount(p)'
    <2>1. \A e \in expl' : e.run = id => e.id[2] <= proc[p].wrote
      BY <1>2, <1>6, <1>7, <1>8, <1>9, <1>10 DEF KeepsCount
    <2>2. Traded(proc[p].run)' = Traded(id) + 1
      BY <1>3, <1>4, <1>13 DEF Traded
    <2>3. Traded(id) \in Nat
      BY TradedIsNat DEF RunsInv, StateTypes
    <2>4. id \notin orphaned => next.count <= Traded(id) + 1
      BY <1>2, <1>3, <2>3 DEF KeepsCount
    <2>5. QED BY <1>1, <1>3, <1>4, <2>1, <2>2, <2>4, TypedProcess DEF KeepsCount, compaction
  <1>17. ExplInv'
    <2>1. rows' = rows /\ compactor' = compactor /\ orphaned' = orphaned
      BY <1>1 DEF compaction
    <2>2. \A e \in expl' : e.run \in DOMAIN rows /\ e.id[1] = e.run
      BY <1>7, <1>8, <1>9, <1>10 DEF RunsInv, ExplInv
    <2>3. \A e, h \in expl' : e.id = h.id => e = h
      BY <1>8, <1>9, <1>10 DEF RunsInv, ExplInv
    <2>4. compactor.ids \subseteq {e.id : e \in expl'}
      <3>1. SUFFICES ASSUME NEW i \in compactor.ids PROVE \E e \in expl' : e.id = i
        OBVIOUS
      <3>2. PICK e \in expl : e.id = i
        BY DEF RunsInv, ExplInv
      <3>3. CASE e = f
        BY <1>8, <1>9, <3>2, <3>3
      <3>4. CASE e # f
        BY <1>9, <3>2, <3>4 DEF others
      <3>5. QED BY <3>3, <3>4
    <2>5. \A e \in expl' : e.id \in compactor.ids /\ e.traded => e.run \in orphaned
      BY <1>2, <1>6, <1>8, <1>9, <1>10 DEF KeepsCount, RunsInv, ExplInv
    <2>6. QED BY <2>1, <2>2, <2>3, <2>4, <2>5 DEF RunsInv, ExplInv
  <1>18. \A e \in expl' : e.run # id => e \in expl
    BY <1>8, <1>9, <1>10
  <1>19. QED BY <1>1, <1>2, <1>3, <1>4, <1>12, <1>14, <1>15, <1>16, <1>17, <1>18, OwnOrdersStep

\* The buffer of a window is written, or is empty.
LEMMA FlushKeeps ==
    ASSUME RunsInv, NEW p \in Processes, NEW at \in Unclosed, proc[p].at \in Unclosed,
           proc[p].half # NoExpl => at \in Halfway, Flush(p, at)
    PROVE  RunsInv'
  <1> DEFINE id == proc[p].run
             n == proc[p].buffered
             next == [proc[p] EXCEPT !.at = at, !.wrote = @ + n, !.buffered = 0,
                                     !.orders = 0, !.left = @ - 1]
  <1>1. /\ expl' = expl \cup (IF n = 1 THEN {Explains(p, FALSE)} ELSE {})
        /\ UNCHANGED <<rows, batch, compaction>> /\ proc' = [proc EXCEPT ![p] = next]
    BY DEF Flush, RunsInv, StateTypes
  <1>2. /\ proc[p] \in Procs /\ KeepsCount(p) /\ HoldsRow(p) /\ proc[p].at \in Holding
        /\ proc[p].wrote \in Nat /\ n \in {0, 1} /\ proc[p].left \in Int
    BY TypedProcess DEF Procs
  <1>3. /\ next \in Procs /\ next.at = at /\ next.run = id
        /\ next.strategy = proc[p].strategy /\ next.half = proc[p].half
        /\ next.wrote = proc[p].wrote + n /\ next.count = proc[p].count
    <2> DEFINE w == proc[p].wrote + n
               l == proc[p].left - 1
               one == [proc[p] EXCEPT !.at = at]
               two == [one EXCEPT !.wrote = w]
               three == [two EXCEPT !.buffered = 0]
               four == [three EXCEPT !.orders = 0]
    <2>1. next = [four EXCEPT !.left = l]
      BY <1>2 DEF Procs
    <2>2. w \in Nat /\ l \in Int
      BY <1>2
    <2> HIDE DEF w, l
    <2>3. /\ one \in Procs /\ one.at = at /\ one.run = id /\ one.count = proc[p].count
          /\ one.strategy = proc[p].strategy /\ one.half = proc[p].half
      BY <1>2 DEF Procs, Holding
    <2> HIDE DEF one
    <2>4. /\ two \in Procs /\ two.at = at /\ two.run = id /\ two.count = proc[p].count
          /\ two.strategy = proc[p].strategy /\ two.half = proc[p].half /\ two.wrote = w
      BY <2>2, <2>3 DEF Procs
    <2> HIDE DEF two
    <2>5. /\ three \in Procs /\ three.at = at /\ three.run = id /\ three.count = proc[p].count
          /\ three.strategy = proc[p].strategy /\ three.half = proc[p].half /\ three.wrote = w
      BY <2>4 DEF Procs
    <2> HIDE DEF three
    <2>6. /\ four \in Procs /\ four.at = at /\ four.run = id /\ four.count = proc[p].count
          /\ four.strategy = proc[p].strategy /\ four.half = proc[p].half /\ four.wrote = w
      BY <2>5 DEF Procs
    <2> HIDE DEF four, next
    <2>7. /\ next \in Procs /\ next.at = at /\ next.run = id /\ next.count = proc[p].count
          /\ next.strategy = proc[p].strategy /\ next.half = proc[p].half /\ next.wrote = w
      BY <2>1, <2>2, <2>6 DEF Procs
    <2>8. QED BY <2>7 DEF w
  <1> HIDE DEF next
  <1>4. proc' \in [Processes -> Procs] /\ proc'[p] = next
        /\ \A q \in Processes : q # p => proc'[q] = proc[q]
    BY <1>1, <1>3 DEF RunsInv, StateTypes
  <1>5. /\ expl' \subseteq Explanations /\ IsFiniteSet(expl') /\ ExplInv'
        /\ \A e \in expl' : e \in expl \/ (/\ e.run = id /\ ~e.traded
                                           /\ e.id[2] = proc[p].wrote + n /\ e.id # proc[p].half)
        /\ \A r : Traded(r)' = Traded(r)
    <2>1. CASE n = 1
      <3>1. PICK e : e = Explains(p, FALSE)
        OBVIOUS
      <3>2. expl' = expl \cup {e}
        BY <1>1, <2>1, <3>1
      <3>3. /\ e \notin expl /\ e.run = id /\ e.traded = FALSE /\ e.id[2] = proc[p].wrote + 1
            /\ expl' \subseteq Explanations /\ ExplInv'
        BY <1>1, <3>1, <3>2, NextIsNew
      <3>4. /\ IsFiniteSet(expl') /\ Traded(e.run)' = Traded(e.run)
            /\ \A r : r # e.run => Traded(r)' = Traded(r)
        BY <3>2, <3>3, ExplAdded DEF RunsInv, StateTypes
      <3>5. e.id # proc[p].half
        <4>1. proc[p].half # NoExpl => proc[p].half[2] <= proc[p].wrote
          BY <1>2 DEF KeepsCount
        <4>2. e.id # NoExpl
          BY <3>2, <3>3, NoExplIsNoId DEF Explanations
        <4>3. proc[p].half # NoExpl => proc[p].half[2] \in Nat
          BY <1>2 DEF Procs, Ids
        <4>4. QED BY <1>2, <3>3, <4>1, <4>2, <4>3
      <3>6. QED BY <2>1, <3>2, <3>3, <3>4, <3>5
    <2>2. CASE n = 0
      <3>1. expl' = expl
        BY <1>1, <2>2
      <3>2. ExplInv'
        BY <1>1, <3>1 DEF RunsInv, ExplInv, compaction
      <3>3. \A r : Traded(r)' = Traded(r)
        BY <3>1 DEF Traded
      <3>4. QED BY <3>1, <3>2, <3>3 DEF RunsInv, StateTypes
    <2>3. QED BY <1>2, <2>1, <2>2
  <1>6. StateTypes'
    BY <1>1, <1>4, <1>5 DEF RunsInv, StateTypes, compaction
  <1>7. HoldsRow(p)'
    BY <1>1, <1>2, <1>3, <1>4, TypedProcess DEF HoldsRow, RowOf, Unclosed, Closed
  <1>8. KeepsCount(p)'
    <2>1. \A e \in expl' : e.run = id => e.id[2] <= proc[p].wrote + n
      <3>1. \A e \in expl : e.id[2] \in Nat
        BY DEF RunsInv, StateTypes, Explanations, Ids
      <3>2. QED BY <1>2, <1>5, <3>1 DEF KeepsCount
    <2>2. Traded(proc[p].run)' = Traded(id)
      <3>1. Cardinality({e \in expl' : e.run = id /\ e.traded}) = Traded(id)
        BY <1>5 DEF Traded
      <3>2. QED BY <1>3, <1>4, <3>1 DEF Traded
    <2>3. proc[p].half # NoExpl => /\ proc[p].half[1] = id
                                   /\ proc[p].half[2] <= proc[p].wrote + n
                                   /\ \A e \in expl' : e.id = proc[p].half => ~e.traded
      <3>1. proc[p].half # NoExpl => proc[p].half[2] \in Nat
        BY <1>2 DEF Procs, Ids
      <3>2. QED BY <1>2, <1>5, <3>1 DEF KeepsCount
    <2>4. compactor' = compactor /\ orphaned' = orphaned
      BY <1>1 DEF compaction
    <2>5. (proc[p].at \in Unclosed /\ proc[p].run \notin orphaned =>
              proc[p].count <= Traded(proc[p].run))'
      BY <1>2, <1>3, <1>4, <2>2, <2>4 DEF KeepsCount
    <2>6. (proc[p].half \in compactor.ids => proc[p].run \in orphaned)'
      BY <1>2, <1>3, <1>4, <2>4 DEF KeepsCount
    <2>7. (proc[p].half # NoExpl => /\ proc[p].at \in Halfway
                                    /\ proc[p].half[1] = proc[p].run
                                    /\ proc[p].half[2] <= proc[p].wrote
                                    /\ \A e \in expl : e.id = proc[p].half => ~e.traded)'
      BY <1>3, <1>4, <2>3
    <2>8. QED BY <1>3, <1>4, <2>1, <2>5, <2>6, <2>7 DEF KeepsCount
  <1>9. /\ \A e \in expl' : e.run # id => e \in expl
        /\ \A r : r # id => Traded(r)' = Traded(r)
    BY <1>5
  <1>10. QED BY <1>1, <1>3, <1>4, <1>5, <1>6, <1>7, <1>8, <1>9, OwnOrdersStep

LEMMA EndWindowKeeps ==
    ASSUME RunsInv, NEW p \in Processes, EndWindow(p)
    PROVE  RunsInv'
  <1>1. proc[p].at = "window" /\ proc[p].half = NoExpl
    BY TypedProcess DEF EndWindow, KeepsCount, Halfway
  <1>2. CASE proc[p].left > 1
    <2>1. Flush(p, "window")
      BY <1>2 DEF EndWindow
    <2>2. QED BY <1>1, <2>1, FlushKeeps DEF Unclosed
  <1>3. CASE ~(proc[p].left > 1)
    <2>1. Flush(p, "finalize")
      BY <1>3 DEF EndWindow
    <2>2. QED BY <1>1, <2>1, FlushKeeps DEF Unclosed
  <1>4. QED BY <1>2, <1>3

LEMMA AbandonWindowKeeps ==
    ASSUME RunsInv, NEW p \in Processes, AbandonWindow(p)
    PROVE  RunsInv'
  BY FlushKeeps DEF AbandonWindow, Unclosed, Halfway

-----------------------------------------------------------------------------
\* The batch, deaths and compactions.

\* A process that a step leaves alone, with everything in the store.
LEMMA SameProcess ==
    ASSUME RunsInv, NEW q \in Processes, proc'[q] = proc[q], rows' = rows, expl' = expl,
           compactor' = compactor, orphaned' = orphaned
    PROVE  HoldsRow(q)' /\ KeepsCount(q)'
  <1>1. HoldsRow(q) /\ KeepsCount(q)
    BY DEF RunsInv, ProcessInv
  <1>2. Traded(proc[q].run)' = Traded(proc[q].run)
    BY DEF Traded
  <1>3. HoldsRow(q)'
    BY <1>1 DEF HoldsRow, RowOf
  <1>4. KeepsCount(q)'
    BY <1>1, <1>2 DEF KeepsCount
  <1>5. QED BY <1>3, <1>4

LEMMA CollectKeeps ==
    ASSUME RunsInv, NEW s, NEW r, Collect(s, r)
    PROVE  RunsInv'
  <1>1. /\ <<s, r>> \in batch.finished
        /\ rows' = rows /\ expl' = expl /\ proc' = proc /\ compactor' = compactor
        /\ orphaned' = orphaned
    BY DEF Collect, store, compaction
  <1>2. batch \in Batches /\ s \in Strategies /\ r \in Nat
    BY <1>1 DEF RunsInv, StateTypes, Batches
  <1> DEFINE heard == [batch EXCEPT !.finished = @ \ {<<s, r>>}, !.result = Told(s, r)]
             Cut(n) == [heard EXCEPT !.raised = TRUE, !.todo = SubSeq(@, 1, n)]
  <1>3. /\ Told(s, r) \in [Strategies -> Nat \cup {Unheard}]
        /\ \A t \in Strategies : Told(s, r)[t] = IF t = s THEN r ELSE batch.result[t]
    BY <1>2 DEF Told, Batches
  <1>4. /\ heard \in Batches /\ heard.result = Told(s, r) /\ heard.finished \subseteq batch.finished
        /\ heard.todo = batch.todo
    <2> DEFINE asked == [batch EXCEPT !.finished = @ \ {<<s, r>>}]
    <2>1. asked \in Batches /\ asked.finished \subseteq batch.finished /\ asked.todo = batch.todo
      BY <1>2 DEF Batches
    <2>2. heard = [asked EXCEPT !.result = Told(s, r)]
      BY <1>2 DEF Batches
    <2> HIDE DEF asked, heard
    <2>3. QED BY <1>3, <2>1, <2>2 DEF Batches
  <1> HIDE DEF heard
  <1>5. ASSUME NEW n \in 0..1, n = 0 \/ batch.todo # << >>
        PROVE  /\ Cut(n) \in Batches /\ Cut(n).result = heard.result
               /\ Cut(n).finished = heard.finished
    <2>1. SubSeq(heard.todo, 1, n) \in Seq(Strategies)
      <3>1. batch.todo \in Seq(Strategies)
        BY <1>2 DEF Batches
      <3>2. \A i \in 1..n : heard.todo[i] \in Strategies
        BY <1>4, <1>5, <3>1
      <3>3. QED BY <3>2, SubSeqProperties
    <2>2. QED BY <1>4, <2>1 DEF Batches
  <1>6. batch' = heard \/ \E n \in 0..1 : (n = 0 \/ batch.todo # << >>) /\ batch' = Cut(n)
    <2>1. CASE r = NoRun /\ batch.failFast
      <3>1. \E n \in 0..(IF Parallel /\ batch.todo # << >> THEN 1 ELSE 0) : batch' = Cut(n)
        BY <2>1 DEF Collect, heard
      <3>2. PICK n \in 0..(IF Parallel /\ batch.todo # << >> THEN 1 ELSE 0) : batch' = Cut(n)
        BY <3>1
      <3>3. n \in 0..1 /\ (n = 0 \/ batch.todo # << >>)
        <4>1. CASE Parallel /\ batch.todo # << >>
          BY <4>1
        <4>2. CASE ~(Parallel /\ batch.todo # << >>)
          BY <4>2
        <4>3. QED BY <4>1, <4>2
      <3> HIDE DEF Cut
      <3>4. QED BY <3>2, <3>3
    <2>2. CASE ~(r = NoRun /\ batch.failFast)
      BY <2>2 DEF Collect, heard
    <2>3. QED BY <2>1, <2>2
  <1>7. batch' \in Batches /\ batch'.result = Told(s, r) /\ batch'.finished \subseteq batch.finished
    BY <1>4, <1>5, <1>6
  <1>8. BatchInv'
    <2>1. \A t, q : OnRecord(t, q)' <=> OnRecord(t, q)
      BY <1>1 DEF OnRecord
    <2>2. \A f \in batch'.finished : f[2] # NoRun => OnRecord(f[1], f[2])'
      BY <1>7, <2>1 DEF RunsInv, BatchInv
    <2>3. \A t \in Strategies, q \in Nat : batch'.result[t] = q /\ q # NoRun => OnRecord(t, q)'
      <3>1. SUFFICES ASSUME NEW t \in Strategies, NEW q \in Nat, batch'.result[t] = q, q # NoRun
                     PROVE  OnRecord(t, q)
        BY <2>1
      <3>2. CASE t = s
        <4>1. q = r
          BY <1>3, <1>7, <3>1, <3>2
        <4>2. \A f \in batch.finished : f[2] # NoRun => OnRecord(f[1], f[2])
          BY DEF RunsInv, BatchInv
        <4>3. <<s, r>>[2] # NoRun => OnRecord(<<s, r>>[1], <<s, r>>[2])
          BY <1>1, <4>2
        <4>4. QED BY <3>1, <3>2, <4>1, <4>3
      <3>3. CASE t # s
        BY <1>3, <1>7, <3>1, <3>3 DEF RunsInv, BatchInv
      <3>4. QED BY <3>2, <3>3
    <2>4. QED BY <2>2, <2>3 DEF BatchInv
  <1>9. StateTypes'
    BY <1>1, <1>7 DEF RunsInv, StateTypes
  <1>10. ProcessInv' /\ OwnRows' /\ ExplInv' /\ RowInv'
    <2>1. ProcessInv'
      BY <1>1, SameProcess DEF ProcessInv
    <2>2. QED BY <1>1, <2>1 DEF RunsInv, OwnRows, ExplInv, RowInv, Traded
  <1>11. QED BY <1>8, <1>9, <1>10 DEF RunsInv

LEMMA DieKeeps ==
    ASSUME RunsInv, NEW p \in Processes, Die(p)
    PROVE  RunsInv'
  <1>1. /\ rows' = rows /\ expl' = expl /\ compactor' = compactor /\ orphaned' = orphaned
        /\ proc' = [q \in Processes |-> IF q \in Orphans(p) THEN [Idle EXCEPT !.at = "dead"] ELSE proc[q]]
    BY DEF Die, store, compaction
  <1>2. /\ [Idle EXCEPT !.at = "dead"] \in Procs /\ [Idle EXCEPT !.at = "dead"].at = "dead"
        /\ [Idle EXCEPT !.at = "dead"].half = NoExpl /\ [Idle EXCEPT !.at = "dead"].count = 0
        /\ [Idle EXCEPT !.at = "dead"].run = NoRun
    BY DEF Idle, Procs, NoRun
  <1>3. \A q \in Processes : \/ proc'[q] = proc[q]
                             \/ /\ proc'[q].at = "dead" /\ proc'[q].half = NoExpl
                                /\ proc'[q].count = 0 /\ proc'[q].run = NoRun
    BY <1>1, <1>2
  <1>4. proc' \in [Processes -> Procs]
    BY <1>1, <1>2 DEF RunsInv, StateTypes
  <1>5. /\ batch' \in Batches /\ batch'.result = batch.result
        /\ \A f \in batch'.finished : f \in batch.finished \/ f[2] = NoRun
    <2>1. batch \in Batches
      BY DEF RunsInv, StateTypes
    <2>2. CASE p \notin Workers
      BY <2>1, <2>2 DEF Die
    <2>3. CASE p \in Workers
      <3> DEFINE told == IF Parallel THEN batch.finished \cup (Unanswered \X {NoRun}) ELSE {}
                 failed == ~Parallel \/ batch.raised
      <3>1. batch' = [batch EXCEPT !.todo = << >>, !.raised = failed, !.finished = told]
        BY <2>1, <2>3 DEF Die, Batches
      <3>2. Unanswered \subseteq Strategies
        BY RunsAssumption DEF Unanswered
      <3>3. told \subseteq Strategies \X Nat /\ \A f \in told : f \in batch.finished \/ f[2] = NoRun
        BY <2>1, <3>2 DEF Batches, NoRun
      <3>4. failed \in BOOLEAN /\ << >> \in Seq(Strategies)
        BY <2>1 DEF Batches
      <3> HIDE DEF told, failed
      <3>5. QED BY <2>1, <3>1, <3>3, <3>4 DEF Batches
    <2>4. QED BY <2>2, <2>3
  <1>6. StateTypes'
    BY <1>1, <1>4, <1>5 DEF RunsInv, StateTypes
  <1>7. ProcessInv'
    <2>1. SUFFICES ASSUME NEW q \in Processes PROVE HoldsRow(q)' /\ KeepsCount(q)'
      BY DEF ProcessInv
    <2>2. CASE proc'[q] = proc[q]
      BY <1>1, <2>2, SameProcess
    <2>3. CASE proc'[q].at = "dead" /\ proc'[q].half = NoExpl /\ proc'[q].count = 0
             /\ proc'[q].run = NoRun
      <3>1. proc'[q].at \notin Holding
        BY <2>3 DEF Holding, Unclosed, Closed
      <3>2. QED BY <1>1, <1>6, <2>3, <3>1, HoldsNothing
    <2>4. QED BY <1>3, <2>2, <2>3
  <1>8. OwnRows'
    <2>1. \A q \in Processes : proc'[q].at \in Holding => proc'[q] = proc[q]
      BY <1>3 DEF Holding, Unclosed, Closed
    <2>2. QED BY <2>1 DEF RunsInv, OwnRows
  <1>9. ExplInv' /\ RowInv'
    BY <1>1 DEF RunsInv, ExplInv, RowInv, Traded
  <1>10. BatchInv'
    <2>1. \A t, q : OnRecord(t, q)' <=> OnRecord(t, q)
      BY <1>1 DEF OnRecord
    <2>2. QED BY <1>5, <2>1 DEF RunsInv, BatchInv
  <1>11. QED BY <1>6, <1>7, <1>8, <1>9, <1>10 DEF RunsInv

\* A step of a compaction: explanations go, of orders that have no trade or of
\* runs that are given up.
LEMMA CompactionStep ==
    ASSUME RunsInv, rows' = rows, proc' = proc, batch' = batch,
           compactor' \in [at : {"rest", "delete", "again"}, ids : SUBSET Ids],
           expl' \subseteq expl, orphaned \subseteq orphaned', orphaned' \subseteq DOMAIN rows,
           compactor'.ids \subseteq {e.id : e \in expl'},
           compactor'.at # "delete" => compactor'.ids = {},
           \A e \in expl : e.traded /\ e.run \notin orphaned' =>
              e \in expl' /\ e.id \notin compactor'.ids,
           \A p \in Processes : proc[p].half \in compactor'.ids => proc[p].run \in orphaned'
    PROVE  RunsInv'
  <1>1. StateTypes'
    BY FS_Subset DEF RunsInv, StateTypes
  <1>2. \A r : r \notin orphaned' => Traded(r)' = Traded(r)
    <2>1. SUFFICES ASSUME NEW r, r \notin orphaned' PROVE Traded(r)' = Traded(r)
      OBVIOUS
    <2>2. TradesOf(r)' = TradesOf(r)
      BY <2>1 DEF TradesOf
    <2>3. QED BY <2>2 DEF Traded, TradesOf
  <1>3. ProcessInv'
    <2>1. SUFFICES ASSUME NEW p \in Processes PROVE HoldsRow(p)' /\ KeepsCount(p)'
      BY DEF ProcessInv
    <2>2. HoldsRow(p) /\ KeepsCount(p)
      BY DEF RunsInv, ProcessInv
    <2>3. HoldsRow(p)'
      BY <2>2 DEF HoldsRow, RowOf
    <2>4. proc[p].run \notin orphaned' => Traded(proc[p].run)' = Traded(proc[p].run)
      <3>1. proc[p].run \notin orphaned' =>
               Cardinality({e \in expl' : e.run = proc[p].run /\ e.traded}) = Traded(proc[p].run)
        BY <1>2 DEF Traded
      <3>2. QED BY <3>1 DEF Traded
    <2>5. KeepsCount(p)'
      BY <2>2, <2>4 DEF KeepsCount
    <2>6. QED BY <2>3, <2>5
  <1>4. OwnRows' /\ BatchInv'
    BY DEF RunsInv, OwnRows, BatchInv, OnRecord
  <1>5. ExplInv'
    BY DEF RunsInv, ExplInv
  <1>6. RowInv'
    BY <1>2 DEF RunsInv, RowInv
  <1>7. QED BY <1>1, <1>3, <1>4, <1>5, <1>6 DEF RunsInv

LEMMA SelectRowsKeeps ==
    ASSUME RunsInv, NEW ids, SelectRows(ids)
    PROVE  RunsInv'
  <1> DEFINE hit == {proc[p].run : p \in {q \in Processes : proc[q].half \in ids}}
  <1>1. /\ rows' = rows /\ expl' = expl /\ proc' = proc /\ batch' = batch
        /\ compactor' = [at |-> "delete", ids |-> ids] /\ orphaned' = orphaned \cup hit
        /\ ids \subseteq {e.id : e \in Prunable}
    BY DEF SelectRows, store
  <1>2. ids \subseteq Ids /\ ids \subseteq {e.id : e \in expl}
    BY <1>1 DEF Prunable, RunsInv, StateTypes, Explanations
  <1>3. compactor' \in [at : {"rest", "delete", "again"}, ids : SUBSET Ids]
        /\ compactor'.ids = ids /\ compactor'.at = "delete"
    BY <1>1, <1>2
  <1>4. hit \subseteq DOMAIN rows
    <2>1. SUFFICES ASSUME NEW p \in Processes, proc[p].half \in ids
                   PROVE  proc[p].run \in DOMAIN rows
      OBVIOUS
    <2>2. proc[p].at \in Holding
      BY <1>2, <2>1, NoExplIsNoId, TypedProcess DEF KeepsCount
    <2>3. QED BY <2>2, TypedProcess
  <1>5. \A e \in expl : e.traded => e.id \notin ids
    BY <1>1 DEF Prunable, RunsInv, ExplInv
  <1>6. orphaned \subseteq orphaned' /\ orphaned' \subseteq DOMAIN rows
    BY <1>1, <1>4 DEF RunsInv, StateTypes
  <1>7. \A p \in Processes : proc[p].half \in ids => proc[p].run \in orphaned'
    BY <1>1
  <1> HIDE DEF hit
  <1>8. QED BY <1>1, <1>2, <1>3, <1>5, <1>6, <1>7, CompactionStep

LEMMA CompactorRests ==
    ASSUME RunsInv, NothingLeft \/ CompactorDies
    PROVE  RunsInv'
  <1>1. /\ rows' = rows /\ expl' = expl /\ proc' = proc /\ batch' = batch
        /\ compactor' = Resting /\ orphaned' = orphaned
    BY DEF NothingLeft, CompactorDies, store
  <1>2. compactor' \in [at : {"rest", "delete", "again"}, ids : SUBSET Ids]
        /\ compactor'.ids = {}
    BY <1>1 DEF Resting
  <1>3. orphaned \subseteq DOMAIN rows
    BY DEF RunsInv, StateTypes
  <1>4. QED BY <1>1, <1>2, <1>3, CompactionStep

LEMMA DeleteRowsKeeps ==
    ASSUME RunsInv, DeleteRows
    PROVE  RunsInv'
  <1>1. /\ rows' = rows /\ proc' = proc /\ batch' = batch /\ orphaned' = orphaned
        /\ expl' = {e \in expl : e.id \notin compactor.ids}
        /\ compactor' = [at |-> "again", ids |-> {}]
    BY DEF DeleteRows
  <1>2. compactor' \in [at : {"rest", "delete", "again"}, ids : SUBSET Ids]
        /\ compactor'.ids = {}
    BY <1>1
  <1>3. orphaned \subseteq DOMAIN rows
    BY DEF RunsInv, StateTypes
  <1>4. \A e \in expl : e.traded /\ e.run \notin orphaned => e \in expl'
    BY <1>1 DEF RunsInv, ExplInv
  <1>5. QED BY <1>1, <1>2, <1>3, <1>4, CompactionStep

-----------------------------------------------------------------------------
\* The specification.

LEMMA RunsInitInv ==
    ASSUME RunsInit
    PROVE  RunsInv
  <1>1. /\ rows = << >> /\ expl = {} /\ proc = [p \in Processes |-> Idle]
        /\ compactor = Resting /\ orphaned = {}
        /\ batch \in [pool : SUBSET Workers \ {{}}, todo : {Screened}, failFast : BOOLEAN,
                      raised : {FALSE}, finished : {{}},
                      result : {[s \in Strategies |-> Unheard]}]
    BY DEF RunsInit
  <1>2. /\ Idle \in Procs /\ Idle.at = "idle" /\ Idle.half = NoExpl /\ Idle.at \notin Holding
        /\ Idle.run = NoRun
    BY DEF Idle, Procs, NoRun, Holding, Unclosed, Closed
  <1>3. batch \in Batches /\ batch.finished = {} /\ \A s \in Strategies : batch.result[s] = Unheard
    BY <1>1, RunsAssumption DEF Batches
  <1>4. StateTypes
    <2>1. rows \in Seq(RunRows) /\ DOMAIN rows = {}
      BY <1>1
    <2>2. expl \subseteq Explanations /\ IsFiniteSet(expl)
      BY <1>1, FS_EmptySet
    <2>3. compactor \in [at : {"rest", "delete", "again"}, ids : SUBSET Ids]
      BY <1>1 DEF Resting
    <2>4. QED BY <1>1, <1>2, <1>3, <2>1, <2>2, <2>3 DEF StateTypes
  <1>5. ProcessInv /\ OwnRows
    BY <1>1, <1>2 DEF ProcessInv, OwnRows, HoldsRow, KeepsCount, Resting, Holding, Unclosed, Closed
  <1>6. ExplInv /\ RowInv
    BY <1>1 DEF ExplInv, RowInv, Resting
  <1>7. BatchInv
    BY <1>3 DEF BatchInv, Unheard
  <1>8. QED BY <1>4, <1>5, <1>6, <1>7 DEF RunsInv

LEMMA RunsNextInv ==
    ASSUME RunsInv, [RunsNext]_runsVars
    PROVE  RunsInv'
  <1>1. CASE UNCHANGED runsVars
    <2>1. /\ rows' = rows /\ expl' = expl /\ proc' = proc /\ batch' = batch
          /\ compactor' = compactor /\ orphaned' = orphaned
      BY <1>1 DEF runsVars
    <2>2. ProcessInv'
      BY <2>1, SameProcess DEF ProcessInv
    <2>3. StateTypes' /\ OwnRows' /\ ExplInv'
      BY <2>1 DEF RunsInv, StateTypes, OwnRows, ExplInv
    <2>4. RowInv'
      BY <2>1 DEF RunsInv, RowInv, Traded
    <2>5. BatchInv'
      BY <2>1 DEF RunsInv, BatchInv, OnRecord
    <2>6. QED BY <2>2, <2>3, <2>4, <2>5 DEF RunsInv
  <1>2. ASSUME NEW p \in Processes, Begin(p) PROVE RunsInv'
    BY <1>2, RunSingleKeeps, TakeStrategyKeeps, FrameKeeps, RefuseFrameKeeps, AppendRunKeeps,
       ScanCleanKeeps, FailedKeeps DEF Begin
  <1>3. ASSUME NEW p \in Processes, Simulate(p) PROVE RunsInv'
    BY <1>3, ExecuteKeeps, ExplainSkipKeeps, TradeSkipKeeps, FailsKeeps, NoActionKeeps,
       EndWindowKeeps, AbandonWindowKeeps DEF Simulate
  <1>4. ASSUME NEW p \in Processes, CloseOut(p) PROVE RunsInv'
    BY <1>4, FailedKeeps, FinalizeKeeps, CloseOutFailsKeeps, ReadForStampKeeps, StampKeeps
       DEF CloseOut
  <1>5. ASSUME Compact PROVE RunsInv'
    BY <1>5, SelectRowsKeeps, CompactorRests, DeleteRowsKeeps DEF Compact
  <1>6. QED BY <1>1, <1>2, <1>3, <1>4, <1>5, DieKeeps, CollectKeeps DEF RunsNext

\* The rows, explanations and results have their types, whatever runs, dies and
\* is compacted (event_store.py, maintenance.py, walk_forward_batch.py).
THEOREM TypeCorrect == RunsSpec => []RunsTypeOK
  <1>1. RunsInv => RunsTypeOK
    <2>1. SUFFICES ASSUME RunsInv PROVE RunsTypeOK
      OBVIOUS
    <2>2. \A r \in DOMAIN rows : rows[r] \in RunRows
      BY <2>1, TypedRows DEF RunsInv
    <2>3. \A e \in expl : e.run \in DOMAIN rows /\ e.traded \in BOOLEAN
      BY <2>1 DEF RunsInv, StateTypes, Explanations, ExplInv
    <2>4. orphaned \subseteq DOMAIN rows
      BY <2>1 DEF RunsInv, StateTypes
    <2>5. \A p \in Processes : proc[p].run \in {NoRun} \cup DOMAIN rows
      BY <2>1 DEF RunsInv, ProcessInv, HoldsRow
    <2>6. \A r \in DOMAIN rows : /\ rows[r].strategy \in Strategies
                                 /\ rows[r].status \in {"running", "orphan_recovered", "failed", "completed"}
                                 /\ rows[r].ended \in BOOLEAN
                                 /\ rows[r].meta \in [signals : Nat \cup {-1}, screened : BOOLEAN]
      BY <2>2 DEF RunRows
    <2>7. QED BY <2>3, <2>4, <2>5, <2>6 DEF RunsTypeOK
  <1>2. QED BY <1>1, RunsInitInv, RunsNextInv, PTL DEF RunsSpec

\* Every order a completed run counts is on record with its trade, whatever
\* died, was swept or was compacted, unless a compaction selected one of its
\* explanations between the two commits of a skipped order (engine.py:592-601,
\* event_store.py:1596-1640).
THEOREM CompletedRunsAreExplained == RunsSpec => []CompletedIsExplained
  <1>1. RunsInv => CompletedIsExplained
    <2>1. SUFFICES ASSUME RunsInv PROVE CompletedIsExplained
      OBVIOUS
    <2>2. \A r \in DOMAIN rows : rows[r].meta.signals \in Int /\ Traded(r) \in Nat
      BY <2>1, TypedRows, TradedIsNat DEF RunsInv, StateTypes, RunRows
    <2>3. QED BY <2>1, <2>2 DEF RunsInv, RowInv, CompletedIsExplained
  <1>2. QED BY <1>1, RunsInitInv, RunsNextInv, PTL DEF RunsSpec

\* A run the batch was returned is a completed, stamped run of the strategy it
\* was returned for, though other runs sweep and write beside it
\* (engine.py:495-513, walk_forward_batch.py:448-453).
THEOREM ResultsAreOnRecord == RunsSpec => []ResultIsOnRecord
  <1>1. RunsInv => ResultIsOnRecord
    <2>1. SUFFICES ASSUME RunsInv, NEW s \in Answered, batch.result[s] # NoRun
                   PROVE  LET row == rows[batch.result[s]]
                          IN  row.strategy = s /\ row.status = "completed" /\ row.meta.screened
      BY DEF ResultIsOnRecord
    <2>2. s \in Strategies /\ batch.result[s] \in Nat
      BY <2>1 DEF Answered, RunsInv, StateTypes, Batches
    <2>3. QED BY <2>1, <2>2 DEF RunsInv, BatchInv, OnRecord
  <1>2. QED BY <1>1, RunsInitInv, RunsNextInv, PTL DEF RunsSpec

-----------------------------------------------------------------------------
(* The rows and the orders                                                 *)

OrderRecords == [sym : Symbols, side : {"buy", "sell"}, by : Runners,
                 status : Statuses, got : 0..Lot]
TradeRows == [order : Nat, status : {"submitted", "filled", "cancelled"},
              known : BOOLEAN, at : Nat, day : Nat]

BookInv ==
    /\ book \in Seq(OrderRecords)
    /\ \A o \in Orders : book[o].status = "filled" <=> book[o].got = Lot

\* A row the broker was asked for says what the broker's order has come to.
Truthful(r) ==
    /\ r \in TradeRows /\ r.order \in Orders
    /\ r.known /\ r.status = "filled" => book[r.order].status = "filled"
    /\ r.known /\ r.status = "cancelled" => book[r.order].status = "cancelled"

Sound(r, i) == /\ r.at \in Nat /\ r.at <= i
               /\ IsTrade(r) => Truthful(r)

LogInv ==
    /\ \E S : log \in Seq(S)
    /\ \A i \in 1..Len(log) : \A r : r = log[i] => Sound(r, i)

\* How far an order has come: it never goes back.
Rank(r) == CASE r.status = "pending" -> 0
             [] r.status = "partial" -> r.got
             [] OTHER -> Lot + 1

\* What the broker's orders were at some time.
Precedes(b) ==
    /\ b \in Seq(OrderRecords) /\ Len(b) <= Len(book)
    /\ \A o \in 1..Len(b) : Rank(b[o]) <= Rank(book[o])

\* What a clean verdict claims.
Right == /\ \A sym \in Symbols : FoldPositions(All, sym) = Held(sym)
         /\ OpenOrders \subseteq LocalOpen(All)

VerdictInv(v) ==
    v.status = "clean" =>
        /\ v.asOf \in Nat /\ v.asOf <= Len(log)
        /\ Precedes(v.book)
        /\ v.asOf = Len(log) /\ v.book = book => Right

\* A pass between its two reads: what it saw is what there was.
Saw(me) ==
    /\ me.asOf \in Nat /\ me.asOf <= Len(log)
    /\ Precedes(me.book)
    /\ me.book = book => me.seen = [s \in Symbols |-> Held(s)]

\* A sync: the orders it asks about exist, the rows it will write are true.
Syncs(me) ==
    /\ me \in [at : {"lookup"}, kind : {"sync"}, todo : SUBSET Orders,
               rows : Seq(TradeRows), stamp : Nat]
    /\ me.stamp <= Len(log) + 1
    /\ \A i \in 1..Len(me.rows) : Truthful(me.rows[i]) /\ me.rows[i].at <= Len(log) + 1

\* What a party has in hand, by the step it is at.
Fits(me) ==
    /\ me.at = "record" => me.order \in Orders
    /\ me.at = "orders" => Saw(me)
    /\ me.at = "persist" => VerdictInv(me.verdict)
    /\ me.at = "lookup" => Syncs(me)

InHand == {pass[p] : p \in Parties}

AgreeInv ==
    /\ day \in Nat
    /\ pass = [p \in Parties |-> pass[p]]
    /\ BookInv
    /\ LogInv
    /\ VerdictInv(latest)
    /\ \A me \in InHand : Fits(me)

-----------------------------------------------------------------------------
(* The latest row of an order                                              *)

LEMMA LeastOf ==
    ASSUME NEW S \in SUBSET Nat, S # {}
    PROVE  Min(S) \in S
  <1>1. PICK d \in S : \A e \in S : ~(<<e, d>> \in OpToRel(<, Nat))
    BY NatLessThanWellFounded, WFMin
  <1>2. ASSUME NEW e \in S, e < d PROVE FALSE
    BY <1>1, <1>2 DEF OpToRel
  <1>3. \A e \in S : d <= e
    BY <1>2
  <1>4. QED BY <1>3 DEF Min

LEMMA GreatestOf ==
    ASSUME NEW n \in Nat, NEW S \in SUBSET (1..n), S # {}
    PROVE  Max(S) \in S
  <1> DEFINE T == {n - e : e \in S}
  <1>1. T \in SUBSET Nat /\ T # {}
    <2>1. \A e \in S : n - e \in Nat
      OBVIOUS
    <2>2. QED BY <2>1
  <1>2. PICK d \in T : \A e \in T : ~(<<e, d>> \in OpToRel(<, Nat))
    BY <1>1, NatLessThanWellFounded, WFMin
  <1>3. PICK m \in S : d = n - m
    BY <1>2
  <1>4. ASSUME NEW e \in S PROVE m >= e
    <2>1. n - e \in T
      OBVIOUS
    <2>2. ASSUME n - e < n - m PROVE FALSE
      BY <1>1, <1>2, <1>3, <2>1, <2>2 DEF OpToRel
    <2>3. QED BY <2>2
  <1>5. QED BY <1>4 DEF Max

LEMMA Sizes == Lot \in Nat \ {0} /\ OpenPage \in Nat \ {0}
  BY ReconciliationAssumption

\* The log's rows by their ids.
LEMMA Rows ==
    ASSUME LogInv
    PROVE  Len(log) \in Nat /\ All = 1..Len(log)
  BY LenProperties DEF LogInv, All

LEMMA LastIsARow ==
    ASSUME LogInv, NEW o \in Recorded(All)
    PROVE  \E i \in 1..Len(log) : /\ IsTrade(log[i]) /\ log[i].order = o
                                  /\ LastRow(All, o) = log[i]
  <1>1. Len(log) \in Nat /\ All = 1..Len(log)
    BY Rows
  <1>2. RowsOf(All, o) \in SUBSET (1..Len(log)) /\ RowsOf(All, o) # {}
    BY <1>1 DEF RowsOf, Recorded
  <1>3. Max(RowsOf(All, o)) \in RowsOf(All, o)
    BY <1>1, <1>2, GreatestOf
  <1>4. QED BY <1>1, <1>3 DEF RowsOf, LastRow

-----------------------------------------------------------------------------
(* What is settled agrees                                                  *)

\* The order moves the store's position if and only if it moved the broker's.
LEMMA OverIsTold ==
    ASSUME BookInv, LogInv, AllKnown, NEW o \in Orders, Over(o)
    PROVE  /\ o \in Recorded(All)
           /\ LastRow(All, o).status \in PositionAffecting <=> book[o].got # 0
           /\ book[o].got # 0 => book[o].got = Lot
  <1>1. o \in Recorded(All) /\ ~IsOpen(o) /\ book[o].got \in {0, Lot}
    BY DEF Over
  <1>2. PICK i \in 1..Len(log) : /\ IsTrade(log[i]) /\ log[i].order = o
                                 /\ LastRow(All, o) = log[i]
    BY <1>1, LastIsARow
  <1>3. Truthful(log[i]) /\ log[i].known
    BY <1>2, Rows DEF LogInv, Sound, AllKnown
  <1>4. /\ log[i].status \in {"submitted", "filled", "cancelled"}
        /\ log[i].status = "filled" => book[o].status = "filled"
        /\ log[i].status = "cancelled" => book[o].status = "cancelled"
    BY <1>2, <1>3 DEF Truthful, TradeRows
  <1>5. book[o].status = "filled" <=> book[o].got = Lot
    BY DEF BookInv
  <1>6. book[o].status # "filled" => LastRow(All, o).status \notin OpenStatuses
    BY <1>1 DEF Over, LocalOpen
  <1>7. QED BY <1>1, <1>2, <1>4, <1>5, <1>6, Sizes DEF PositionAffecting, OpenStatuses

LEMMA Settled == BookInv /\ LogInv => SettledAgrees
  <1> SUFFICES ASSUME BookInv, LogInv, AllKnown, \A o \in Orders : Over(o),
                      NEW sym \in Symbols, Adjusted(All, sym) = 0
               PROVE  FoldPositions(All, sym) = Held(sym)
    BY DEF SettledAgrees
  <1> DEFINE Filled == {o \in Orders : book[o].sym = sym /\ book[o].got # 0}
             Tallied == {o \in OfSymbol(All, sym) : LastRow(All, o).status \in PositionAffecting}
  <1>1. Tallied = Filled
    BY OverIsTold DEF OfSymbol, Recorded
  <1>2. \A o \in Filled : Signed(o) * Lot = Signed(o) * book[o].got
    BY OverIsTold
  <1>3. [o \in Tallied |-> Signed(o) * Lot] = [o \in Filled |-> Signed(o) * book[o].got]
    BY <1>1, <1>2
  <1>4. QED BY <1>3 DEF FoldPositions, FoldOrders, Held

-----------------------------------------------------------------------------
(* What moves and what does not                                            *)

\* Steps that leave the broker and the store alone leave the verdict's claim.
LEMMA HeldStays ==
    ASSUME UNCHANGED book
    PROVE  \A sym \in Symbols : Held(sym)' = Held(sym)
  BY DEF Held, Orders, Signed

LEMMA FoldsStay ==
    ASSUME UNCHANGED <<book, log>>
    PROVE  /\ Recorded(All)' = Recorded(All)
           /\ \A o : LastRow(All, o)' = LastRow(All, o)
           /\ \A sym \in Symbols : FoldPositions(All, sym)' = FoldPositions(All, sym)
  <1>1. All' = All /\ Orders' = Orders
    BY DEF All, Orders
  <1>2. \A o : RowsOf(All, o)' = RowsOf(All, o)
    BY <1>1 DEF RowsOf, IsTrade
  <1>3. \A o : LastRow(All, o)' = LastRow(All, o)
    BY <1>2 DEF LastRow
  <1>4. Recorded(All)' = Recorded(All)
    BY <1>1, <1>2 DEF Recorded
  <1>5. \A sym \in Symbols : Adjusted(All, sym)' = Adjusted(All, sym)
    BY <1>1 DEF Adjusted, IsTrade
  <1>6. ASSUME NEW sym \in Symbols PROVE FoldOrders(All, sym)' = FoldOrders(All, sym)
    <2>1. OfSymbol(All, sym)' = OfSymbol(All, sym)
      BY <1>4 DEF OfSymbol
    <2>2. QED BY <1>3, <2>1 DEF FoldOrders, Signed
  <1>7. QED BY <1>3, <1>4, <1>5, <1>6 DEF FoldPositions

LEMMA RightStays ==
    ASSUME UNCHANGED <<book, log>>, Right
    PROVE  Right'
  <1>1. OpenOrders' = OpenOrders
    BY DEF OpenOrders, IsOpen, Orders
  <1>2. LocalOpen(All)' = LocalOpen(All)
    BY FoldsStay DEF LocalOpen
  <1>3. QED BY <1>1, <1>2, FoldsStay, HeldStays DEF Right

\* A pass that finds everything alike, over a log and a book that are still
\* what they were when it began, is right.
LEMMA SeenIsRight ==
    ASSUME LogInv, NEW p \in Parties, Saw(pass[p]),
           pass[p].asOf = Len(log), pass[p].book = book, NEW aged \in BOOLEAN,
           ComparePositions(Before(pass[p].asOf), pass[p].seen) = {},
           CompareOrders(Before(pass[p].asOf), OpenOrders, aged) = {}
    PROVE  Right
  <1>1. Before(pass[p].asOf) = All
    <2>1. Len(log) \in Nat /\ All = 1..Len(log)
      BY Rows
    <2>2. \A i \in All : log[i].at \in Nat /\ log[i].at <= i
      BY <2>1 DEF LogInv, Sound
    <2>3. QED BY <2>1, <2>2 DEF Before, All
  <1>2. pass[p].seen = [s \in Symbols |-> Held(s)]
    BY DEF Saw
  <1>3. ASSUME NEW sym \in Symbols PROVE FoldPositions(All, sym) = Held(sym)
    <2>1. PositionRow(All, pass[p].seen, sym).kind = "ok"
      BY <1>1 DEF ComparePositions, PositionRows
    <2>2. Kind(FoldPositions(All, sym), pass[p].seen[sym]) = "ok"
      BY <2>1 DEF PositionRow
    <2>3. FoldPositions(All, sym) = pass[p].seen[sym]
      BY <2>2 DEF Kind
    <2>4. QED BY <1>2, <2>3
  <1>4. ASSUME NEW o \in OpenOrders PROVE o \in LocalOpen(All)
    BY <1>1 DEF CompareOrders
  <1>5. QED BY <1>3, <1>4 DEF Right

\* The broker's book has moved on: some order came or got further.
Moved ==
    /\ BookInv' /\ Len(book) <= Len(book')
    /\ \A o \in Orders : /\ Rank(book[o]) <= Rank(book'[o])
                         /\ book[o].status \in {"filled", "cancelled"} => book'[o] = book[o]
    /\ \/ Len(book) < Len(book')
       \/ \E o \in Orders : Rank(book[o]) < Rank(book'[o])

LEMMA RankIsNat == \A r \in OrderRecords : Rank(r) \in 0..(Lot + 1)
  BY Sizes DEF Rank, OrderRecords

LEMMA MovedOn ==
    ASSUME BookInv, Moved, NEW b, Precedes(b)
    PROVE  Precedes(b)' /\ b # book'
  <1>1. /\ Len(b) \in Nat /\ Len(book) \in Nat /\ Len(book') \in Nat
        /\ \A o \in 1..Len(b) : b[o] \in OrderRecords
        /\ \A o \in 1..Len(book) : book[o] \in OrderRecords
        /\ \A o \in 1..Len(book') : book'[o] \in OrderRecords
    BY LenProperties, ElementOfSeq DEF Precedes, BookInv, Moved
  <1>2. Len(b) <= Len(book) /\ Len(book) <= Len(book')
    BY DEF Precedes, Moved
  <1>3. ASSUME NEW o \in 1..Len(b) PROVE Rank(b[o]) <= Rank(book'[o])
    <2>1. o \in 1..Len(book) /\ o \in 1..Len(book')
      BY <1>1, <1>2
    <2>2. Rank(b[o]) <= Rank(book[o]) /\ Rank(book[o]) <= Rank(book'[o])
      BY <2>1 DEF Precedes, Moved, Orders
    <2>3. Rank(b[o]) \in Nat /\ Rank(book[o]) \in Nat /\ Rank(book'[o]) \in Nat
      BY <1>1, <2>1, RankIsNat, Sizes
    <2>4. QED BY <2>2, <2>3
  <1>4. Precedes(b)'
    <2>1. b \in Seq(OrderRecords)
      BY DEF Precedes
    <2>2. QED BY <1>1, <1>2, <1>3, <2>1 DEF Precedes, Rank
  <1>5. b # book'
    <2>1. CASE Len(book) < Len(book')
      BY <1>1, <1>2, <2>1
    <2>2. CASE \E o \in Orders : Rank(book[o]) < Rank(book'[o])
      <3>1. PICK o \in 1..Len(book) : Rank(book[o]) < Rank(book'[o])
        BY <2>2 DEF Orders
      <3>2. o \in 1..Len(book')
        BY <1>1, <1>2, <3>1
      <3>3. SUFFICES ASSUME b = book' PROVE FALSE
        OBVIOUS
      <3>4. o \in 1..Len(b) /\ b[o] = book'[o]
        BY <3>2, <3>3
      <3>5. Rank(b[o]) <= Rank(book[o])
        BY <3>4 DEF Precedes
      <3>6. Rank(b[o]) \in Nat /\ Rank(book[o]) \in Nat
        BY <1>1, <3>1, <3>4, RankIsNat, Sizes
      <3>7. Rank(book'[o]) = Rank(b[o])
        BY <3>4
      <3>8. QED BY <3>1, <3>5, <3>6, <3>7
    <2>3. QED BY <2>1, <2>2 DEF Moved
  <1>6. QED BY <1>4, <1>5

-----------------------------------------------------------------------------
(* What every step keeps                                                   *)

\* A row goes into the log: a trade that is true, or an adjustment.
Logged ==
    /\ BookInv' /\ UNCHANGED book
    /\ LogInv' /\ Len(log') = Len(log) + 1

\* The log and the book keep what is known of them, and so does whatever is in
\* a party's hand.
Kept ==
    /\ BookInv' /\ LogInv'
    /\ \A r : Truthful(r) => Truthful(r)'
    /\ \A v : VerdictInv(v) => VerdictInv(v)'
    /\ \A me : Fits(me) => Fits(me)'

LEMMA OrdersStay ==
    ASSUME BookInv, Moved \/ UNCHANGED book
    PROVE  Orders \subseteq Orders'
  <1>1. CASE UNCHANGED book
    BY <1>1 DEF Orders
  <1>2. CASE Moved
    <2>1. Len(book) \in Nat /\ Len(book') \in Nat /\ Len(book) <= Len(book')
      BY <1>2, LenProperties DEF BookInv, Moved
    <2>2. QED BY <2>1 DEF Orders
  <1>3. QED BY <1>1, <1>2

LEMMA TruthStays ==
    ASSUME BookInv, Moved \/ UNCHANGED book, NEW r, Truthful(r)
    PROVE  Truthful(r)'
  <1>1. CASE UNCHANGED book
    BY <1>1 DEF Truthful, Orders
  <1>2. CASE Moved
    <2>1. r \in TradeRows /\ r.order \in Orders
      BY DEF Truthful
    <2>2. book[r.order].status \in {"filled", "cancelled"} => book'[r.order] = book[r.order]
      BY <1>2, <2>1 DEF Moved
    <2>3. QED BY <1>2, <2>1, <2>2, OrdersStay DEF Truthful
  <1>3. QED BY <1>1, <1>2

LEMMA PrecedesStays ==
    ASSUME BookInv, Moved \/ UNCHANGED book, NEW b, Precedes(b)
    PROVE  Precedes(b)'
  <1>1. CASE UNCHANGED book
    BY <1>1 DEF Precedes, Rank
  <1>2. CASE Moved
    BY <1>2, MovedOn
  <1>3. QED BY <1>1, <1>2

LEMMA SyncsStay ==
    ASSUME BookInv, Moved \/ UNCHANGED book, LogInv, LogInv', Len(log) <= Len(log'),
           NEW me, Syncs(me)
    PROVE  Syncs(me)'
  <1>1. Len(log) \in Nat /\ Len(log') \in Nat
    BY LenProperties DEF LogInv
  <1>2. /\ me.todo \subseteq Orders /\ me.stamp \in Nat /\ me.stamp <= Len(log) + 1
        /\ me.rows \in Seq(TradeRows)
    BY DEF Syncs
  <1>3. ASSUME NEW i \in 1..Len(me.rows)
        PROVE  Truthful(me.rows[i])' /\ me.rows[i].at <= Len(log') + 1
    <2>1. PICK r : r = me.rows[i] /\ Truthful(r) /\ r.at <= Len(log) + 1
      BY DEF Syncs
    <2>2. r.at \in Nat
      BY <2>1 DEF Truthful, TradeRows
    <2>3. Truthful(r)'
      BY <2>1, TruthStays
    <2>4. QED BY <1>1, <2>1, <2>2, <2>3 DEF Truthful
  <1>4. QED BY <1>1, <1>2, <1>3, OrdersStay DEF Syncs

\* A step that adds to the book or to the log: no verdict of before claims
\* anything of what is now.
LEMMA WhenNews ==
    ASSUME BookInv, LogInv, LogInv', (Moved /\ UNCHANGED log) \/ Logged
    PROVE  Kept
  <1>1. BookInv' /\ (Moved \/ UNCHANGED book)
    BY DEF Moved, Logged
  <1>2. /\ Len(log) \in Nat /\ Len(log') \in Nat /\ Len(log) <= Len(log')
        /\ ~Moved => Len(log') = Len(log) + 1
    BY LenProperties DEF LogInv, Logged
  <1>3. ASSUME NEW b, Precedes(b), NEW n \in Nat, n <= Len(log)
        PROVE  Precedes(b)' /\ n <= Len(log') /\ (b # book' \/ n # Len(log'))
    BY <1>1, <1>2, <1>3, PrecedesStays, MovedOn
  <1>4. ASSUME NEW v, VerdictInv(v) PROVE VerdictInv(v)'
    <2>1. SUFFICES ASSUME v.status = "clean" PROVE VerdictInv(v)'
      BY DEF VerdictInv
    <2>2. Precedes(v.book) /\ v.asOf \in Nat /\ v.asOf <= Len(log)
      BY <1>4, <2>1 DEF VerdictInv
    <2>3. PICK b : b = v.book
      OBVIOUS
    <2>4. Precedes(b)' /\ v.asOf <= Len(log') /\ (b # book' \/ v.asOf # Len(log'))
      BY <1>3, <2>2, <2>3
    <2>5. QED BY <2>2, <2>3, <2>4 DEF VerdictInv, Precedes
  <1>5. ASSUME NEW me, Saw(me) PROVE Saw(me)'
    <2>1. Precedes(me.book) /\ me.asOf \in Nat /\ me.asOf <= Len(log)
      BY <1>5 DEF Saw
    <2>2. PICK b : b = me.book
      OBVIOUS
    <2>3. Precedes(b)' /\ me.asOf <= Len(log')
      BY <1>3, <2>1, <2>2
    <2>4. b = book' => me.seen = [s \in Symbols |-> Held(s)]'
      <3>1. SUFFICES ASSUME b = book' PROVE me.seen = [s \in Symbols |-> Held(s)]'
        OBVIOUS
      <3>2. UNCHANGED book
        BY <1>1, <2>1, <2>2, <3>1, MovedOn
      <3>3. me.seen = [s \in Symbols |-> Held(s)]
        BY <1>5, <2>2, <3>1, <3>2 DEF Saw
      <3>4. QED BY <3>2, <3>3, HeldStays
    <2>5. QED BY <2>1, <2>2, <2>3, <2>4 DEF Saw, Precedes
  <1>6. ASSUME NEW me, Fits(me) PROVE Fits(me)'
    <2>1. CASE me.at = "persist"
      <3>1. PICK v : v = me.verdict
        OBVIOUS
      <3>2. VerdictInv(v)'
        BY <1>4, <1>6, <2>1, <3>1 DEF Fits
      <3>3. QED BY <2>1, <3>1, <3>2 DEF Fits, VerdictInv
    <2>2. CASE me.at # "persist"
      BY <1>1, <1>2, <1>5, <1>6, <2>2, SyncsStay, OrdersStay DEF Fits
    <2>3. QED BY <2>1, <2>2
  <1>7. \A r : Truthful(r) => Truthful(r)'
    BY <1>1, TruthStays
  <1>8. QED BY <1>1, <1>4, <1>6, <1>7 DEF Kept

LEMMA WhenQuiet ==
    ASSUME BookInv, LogInv, UNCHANGED <<book, log>>
    PROVE  Kept
  <1>1. BookInv'
    BY DEF BookInv, Orders
  <1>2. \A r : Truthful(r) => Truthful(r)'
    BY TruthStays
  <1>3. LogInv'
    BY <1>2 DEF LogInv, Sound, IsTrade
  <1>4. Len(log) \in Nat /\ Len(log') = Len(log)
    BY LenProperties DEF LogInv
  <1>5. ASSUME NEW v, VerdictInv(v) PROVE VerdictInv(v)'
    <2>1. SUFFICES ASSUME v.status = "clean" PROVE VerdictInv(v)'
      BY DEF VerdictInv
    <2>2. /\ Precedes(v.book) /\ v.asOf \in Nat /\ v.asOf <= Len(log)
          /\ v.asOf = Len(log) /\ v.book = book => Right
      BY <1>5, <2>1 DEF VerdictInv
    <2>3. PICK b : b = v.book
      OBVIOUS
    <2>4. Precedes(b)'
      BY <2>2, <2>3, PrecedesStays
    <2>5. v.asOf = Len(log') /\ v.book = book' => Right'
      BY <1>4, <2>2, RightStays
    <2>6. QED BY <1>4, <2>2, <2>3, <2>4, <2>5 DEF VerdictInv, Precedes
  <1>6. ASSUME NEW me, Saw(me) PROVE Saw(me)'
    <2>1. /\ Precedes(me.book) /\ me.asOf \in Nat /\ me.asOf <= Len(log)
          /\ me.book = book => me.seen = [s \in Symbols |-> Held(s)]
      BY <1>6 DEF Saw
    <2>2. PICK b : b = me.book
      OBVIOUS
    <2>3. Precedes(b)'
      BY <2>1, <2>2, PrecedesStays
    <2>4. me.book = book' => me.seen = [s \in Symbols |-> Held(s)]'
      BY <2>1, HeldStays
    <2>5. QED BY <1>4, <2>1, <2>2, <2>3, <2>4 DEF Saw, Precedes
  <1>7. ASSUME NEW me, Fits(me) PROVE Fits(me)'
    <2>1. CASE me.at = "persist"
      <3>1. PICK v : v = me.verdict
        OBVIOUS
      <3>2. VerdictInv(v)'
        BY <1>5, <1>7, <2>1, <3>1 DEF Fits
      <3>3. QED BY <2>1, <3>1, <3>2 DEF Fits, VerdictInv
    <2>2. CASE me.at # "persist"
      BY <1>3, <1>4, <1>6, <1>7, <2>2, SyncsStay, OrdersStay DEF Fits
    <2>3. QED BY <2>1, <2>2
  <1>8. QED BY <1>1, <1>2, <1>3, <1>5, <1>7 DEF Kept

-----------------------------------------------------------------------------
(* The steps                                                               *)

HandsFit == /\ pass = [p \in Parties |-> pass[p]]
            /\ \A me \in InHand : Fits(me)

LEMMA OneHand ==
    ASSUME HandsFit, Kept, NEW p \in Parties, NEW mine,
           pass' = [pass EXCEPT ![p] = mine], Fits(mine)'
    PROVE  HandsFit'
  <1>1. pass' = [q \in Parties |-> IF q = p THEN mine ELSE pass[q]]
    BY DEF HandsFit
  <1>2. ASSUME NEW me \in InHand' PROVE Fits(me)'
    <2>1. PICK q \in Parties : me = pass'[q]
      BY <1>2 DEF InHand, Parties
    <2>2. CASE q = p
      BY <1>1, <2>1, <2>2 DEF Fits
    <2>3. CASE q # p
      <3>1. me = pass[q]
        BY <1>1, <2>1, <2>3
      <3>2. Fits(me)
        BY <3>1 DEF HandsFit, InHand
      <3>3. QED BY <3>2 DEF Kept
    <2>4. QED BY <2>2, <2>3
  <1>3. Parties' = Parties
    BY DEF Parties
  <1>4. pass' = [q \in Parties |-> pass'[q]]
    BY <1>1
  <1>5. QED BY <1>2, <1>3, <1>4 DEF HandsFit

LEMMA SameHands ==
    ASSUME HandsFit, Kept, UNCHANGED pass
    PROVE  HandsFit'
  <1>1. Parties' = Parties /\ InHand' = InHand
    BY DEF Parties, InHand
  <1>2. ASSUME NEW me \in InHand' PROVE Fits(me)'
    BY <1>1, <1>2 DEF HandsFit, Kept
  <1>3. QED BY <1>1, <1>2 DEF HandsFit

LEMMA RestFits == Fits(AtRest)'
  BY DEF Fits, AtRest

\* The hand of a party is a value that fits.
LEMMA MyHand ==
    ASSUME HandsFit, NEW p \in Parties
    PROVE  \E me : me = pass[p] /\ Fits(me)
  BY DEF HandsFit, InHand

LEMMA GrownLog ==
    ASSUME BookInv, LogInv, NEW r, r.at \in Nat, r.at <= Len(log) + 1,
           IsTrade(r) => Truthful(r), log' = Append(log, r), UNCHANGED book
    PROVE  Kept
  <1>1. PICK S : log \in Seq(S)
    BY DEF LogInv
  <1>2. DEFINE T == S \cup {r}
  <1>3. log \in Seq(T) /\ r \in T
    BY <1>1, SeqMonotonic
  <1>4. /\ log' \in Seq(T) /\ Len(log') = Len(log) + 1
        /\ \A i \in 1..Len(log) : log'[i] = log[i]
        /\ log'[Len(log) + 1] = r
    BY <1>3, AppendProperties
  <1>5. Len(log) \in Nat
    BY <1>1, LenProperties
  <1>6. BookInv'
    BY DEF BookInv, Orders
  <1>7. ASSUME NEW i \in 1..Len(log'), NEW q, q = log'[i] PROVE Sound(q, i)'
    <2>1. Truthful(q) => Truthful(q)'
      BY TruthStays
    <2>2. CASE i \in 1..Len(log)
      <3>1. Sound(q, i)
        BY <1>4, <1>7, <2>2 DEF LogInv
      <3>2. QED BY <2>1, <3>1 DEF Sound, IsTrade
    <2>3. CASE i = Len(log) + 1
      <3>1. q = r /\ q.at <= i
        BY <1>4, <1>7, <2>3
      <3>2. QED BY <2>1, <3>1 DEF Sound, IsTrade
    <2>4. QED BY <1>4, <1>5, <2>2, <2>3
  <1>8. \E U : log' \in Seq(U)
    BY <1>4
  <1>9. LogInv'
    BY <1>7, <1>8 DEF LogInv
  <1>10. QED BY <1>4, <1>6, <1>9, WhenNews DEF Logged

LEMMA PlaceKeeps ==
    ASSUME AgreeInv, NEW s \in Runners, NEW sym \in Symbols, NEW side \in {"buy", "sell"},
           Place(s, sym, side)
    PROVE  Kept /\ HandsFit'
  <1>1. BookInv /\ LogInv /\ HandsFit
    BY DEF AgreeInv, HandsFit
  <1> DEFINE o == [sym |-> sym, side |-> side, by |-> s, status |-> "pending", got |-> 0]
  <1>2. book' = Append(book, o) /\ UNCHANGED log
    BY DEF Place
  <1>3. o \in OrderRecords /\ o.status = "pending" /\ o.got = 0
    BY Sizes DEF OrderRecords, Statuses
  <1>4. /\ book' \in Seq(OrderRecords) /\ Len(book') = Len(book) + 1 /\ Len(book) \in Nat
        /\ \A i \in 1..Len(book) : book'[i] = book[i] /\ book[i] \in OrderRecords
        /\ book'[Len(book) + 1] = o
    BY <1>1, <1>2, <1>3, AppendProperties, LenProperties, ElementOfSeq DEF BookInv
  <1>5. Moved
    <2>1. ASSUME NEW i \in 1..Len(book') PROVE book'[i].status = "filled" <=> book'[i].got = Lot
      <3>1. CASE i \in 1..Len(book)
        BY <1>1, <1>4, <3>1 DEF BookInv, Orders
      <3>2. CASE i = Len(book) + 1
        BY <1>3, <1>4, <3>2, Sizes
      <3>3. QED BY <1>4, <3>1, <3>2
    <2>2. BookInv'
      BY <1>4, <2>1 DEF BookInv, Orders
    <2>3. ASSUME NEW i \in Orders PROVE Rank(book[i]) <= Rank(book'[i]) /\ book'[i] = book[i]
      <3>1. book'[i] = book[i] /\ Rank(book[i]) \in 0..(Lot + 1)
        BY <1>4, RankIsNat DEF Orders
      <3>2. QED BY <3>1, Sizes
    <2>4. QED BY <1>4, <2>2, <2>3 DEF Moved
  <1>6. LogInv'
    <2>1. \A r : Truthful(r) => Truthful(r)'
      BY <1>1, <1>5, TruthStays
    <2>2. QED BY <1>1, <1>2, <2>1 DEF LogInv, Sound, IsTrade
  <1>7. Kept
    BY <1>1, <1>2, <1>5, <1>6, WhenNews
  <1>8. PICK mine : /\ mine = [at |-> "record", order |-> Len(book) + 1]
                    /\ pass' = [pass EXCEPT ![s] = mine]
    BY DEF Place
  <1>9. Fits(mine)'
    <2>1. mine.at = "record" /\ mine.order \in 1..Len(book')
      BY <1>4, <1>8
    <2>2. QED BY <2>1 DEF Fits, Orders
  <1>10. s \in Parties
    BY DEF Parties
  <1>11. QED BY <1>1, <1>7, <1>8, <1>9, <1>10, OneHand

LEMMA RecordKeeps ==
    ASSUME AgreeInv, NEW s \in Runners, Record(s)
    PROVE  Kept /\ HandsFit'
  <1>1. BookInv /\ LogInv /\ HandsFit /\ day \in Nat /\ s \in Parties
    BY DEF AgreeInv, HandsFit, Parties
  <1>2. PICK me : me = pass[s] /\ Fits(me)
    BY <1>1, MyHand
  <1>3. me.order \in Orders /\ me.at = "record" /\ Len(log) \in Nat /\ me.order \in Nat
    BY <1>1, <1>2, LenProperties DEF Record, Fits, Orders, LogInv, BookInv
  <1>4. PICK r : r = TradeRow(me.order, "submitted", TRUE, Len(log) + 1)
    OBVIOUS
  <1>5. log' = Append(log, r) /\ UNCHANGED book
    BY <1>2, <1>4 DEF Record
  <1>6. Kept
    <2>1. /\ r.at \in Nat /\ r.at <= Len(log) + 1
          /\ r \in TradeRows /\ r.order = me.order /\ r.status = "submitted"
      BY <1>1, <1>3, <1>4 DEF TradeRow, TradeRows
    <2>2. Truthful(r)
      BY <1>3, <2>1 DEF Truthful
    <2>3. QED BY <1>1, <1>5, <2>1, <2>2, GrownLog
  <1>7. pass' = [pass EXCEPT ![s] = AtRest]
    BY DEF Record
  <1>8. QED BY <1>1, <1>6, <1>7, OneHand, RestFits

\* The broker's step: the order gets further, and a closed one never moves.
LEMMA SettleMoves ==
    ASSUME BookInv, NEW o \in Orders, NEW got \in 0..Lot,
           NEW status \in {"partial", "filled", "cancelled"}, Settle(o, status, got)
    PROVE  Moved
  <1>1. Len(book) \in Nat /\ \A i \in 1..Len(book) : book[i] \in OrderRecords
    BY LenProperties, ElementOfSeq DEF BookInv
  <1>2. PICK old \in OrderRecords : old = book[o] /\ old.status \in {"pending", "partial"}
    BY <1>1 DEF Settle, IsOpen, Orders
  <1>3. PICK new : new = [old EXCEPT !.status = status, !.got = got]
    OBVIOUS
  <1>4. /\ new \in OrderRecords /\ new.status = status /\ new.got = got
        /\ new.status = "filled" <=> new.got = Lot
    <2>1. old.got \in 0..Lot /\ (old.status = "filled" <=> old.got = Lot)
      BY <1>2 DEF OrderRecords, BookInv
    <2>2. status = "filled" <=> got = Lot
      BY <1>2, <2>1, Sizes DEF Settle
    <2>3. status \in Statuses
      BY DEF Statuses
    <2>4. QED BY <1>2, <1>3, <2>2, <2>3 DEF OrderRecords
  <1>5. book' = [book EXCEPT ![o] = new]
    <2>1. book' = [book EXCEPT ![o].status = status, ![o].got = got]
      BY DEF Settle
    <2>2. book' = [book EXCEPT ![o] = [[@ EXCEPT !.status = status] EXCEPT !.got = got]]
      BY <1>1, <2>1 DEF Orders, BookInv
    <2>3. QED BY <1>2, <1>3, <2>2
  <1>6. /\ book' \in Seq(OrderRecords) /\ Len(book') = Len(book)
        /\ \A i \in 1..Len(book) : book'[i] = IF i = o THEN new ELSE book[i]
    BY <1>4, <1>5, ExceptSeq DEF BookInv, Orders
  <1>7. BookInv'
    <2>1. ASSUME NEW i \in 1..Len(book') PROVE book'[i].status = "filled" <=> book'[i].got = Lot
      BY <1>4, <1>6 DEF BookInv, Orders
    <2>2. QED BY <1>6, <2>1 DEF BookInv, Orders
  <1>8. Rank(old) < Rank(new)
    <2>1. old.got \in 0..Lot
      BY <1>2 DEF OrderRecords
    <2>2. CASE status = "partial"
      <3>1. old.got < got /\ got < Lot
        BY <1>2, <2>2 DEF Settle
      <3>2. Rank(new) = got
        BY <1>4, <2>2 DEF Rank
      <3>3. Rank(old) = 0 \/ Rank(old) = old.got
        BY <1>2 DEF Rank
      <3>4. QED BY <2>1, <3>1, <3>2, <3>3, Sizes
    <2>3. CASE status # "partial"
      <3>1. Rank(new) = Lot + 1
        BY <1>4, <2>3 DEF Rank
      <3>2. Rank(old) = 0 \/ Rank(old) = old.got
        BY <1>2 DEF Rank
      <3>3. QED BY <2>1, <3>1, <3>2, Sizes
    <2>4. QED BY <2>2, <2>3
  <1>9. ASSUME NEW i \in Orders
        PROVE  /\ Rank(book[i]) <= Rank(book'[i])
               /\ book[i].status \in {"filled", "cancelled"} => book'[i] = book[i]
    <2>1. CASE i = o
      <3>1. Rank(old) \in Nat /\ Rank(new) \in Nat
        BY <1>4, RankIsNat, Sizes
      <3>2. Rank(book[i]) = Rank(old) /\ Rank(book'[i]) = Rank(new)
        BY <1>2, <1>6, <2>1 DEF Orders
      <3>3. QED BY <1>2, <1>8, <2>1, <3>1, <3>2
    <2>2. CASE i # o
      <3>1. book'[i] = book[i] /\ Rank(book[i]) \in 0..(Lot + 1)
        BY <1>1, <1>6, <2>2, RankIsNat DEF Orders
      <3>2. QED BY <3>1, Sizes
    <2>3. QED BY <2>1, <2>2
  <1>10. \E i \in Orders : Rank(book[i]) < Rank(book'[i])
    <2>1. Rank(book[o]) = Rank(old) /\ Rank(book'[o]) = Rank(new)
      BY <1>2, <1>6 DEF Orders
    <2>2. QED BY <1>8, <2>1
  <1>11. QED BY <1>1, <1>6, <1>7, <1>9, <1>10 DEF Moved

LEMMA SettleKeeps ==
    ASSUME AgreeInv, NEW o \in Orders, NEW got \in 0..Lot,
           NEW status \in {"partial", "filled", "cancelled"}, Settle(o, status, got)
    PROVE  Kept /\ HandsFit'
  <1>1. BookInv /\ LogInv /\ HandsFit /\ Moved
    BY SettleMoves DEF AgreeInv, HandsFit
  <1>2. UNCHANGED <<log, pass>>
    BY DEF Settle
  <1>3. \A r : Truthful(r) => Truthful(r)'
    BY <1>1, TruthStays
  <1>4. LogInv'
    BY <1>1, <1>2, <1>3 DEF LogInv, Sound, IsTrade
  <1>5. Kept
    BY <1>1, <1>2, <1>4, WhenNews
  <1>6. QED BY <1>1, <1>2, <1>5, SameHands

LEMMA BeginKeeps ==
    ASSUME AgreeInv, NEW p \in Parties, NEW kind \in Kinds, BeginPass(p, kind)
    PROVE  Kept /\ HandsFit'
  <1>1. BookInv /\ LogInv /\ HandsFit
    BY DEF AgreeInv, HandsFit
  <1>2. UNCHANGED <<book, log>>
    BY DEF BeginPass
  <1>3. Kept
    BY <1>1, <1>2, WhenQuiet
  <1>4. PICK mine : /\ mine = [at |-> "orders", kind |-> kind, asOf |-> Len(log),
                               seen |-> [s \in Symbols |-> Held(s)],
                               day |-> day, book |-> book]
                    /\ pass' = [pass EXCEPT ![p] = mine]
    BY DEF BeginPass
  <1>5. Saw(mine)
    <2>1. Len(log) \in Nat /\ Len(book) \in Nat
          /\ \A o \in 1..Len(book) : Rank(book[o]) \in 0..(Lot + 1)
      BY <1>1, LenProperties, ElementOfSeq, RankIsNat DEF LogInv, BookInv
    <2>2. PICK b : b = book
      OBVIOUS
    <2>3. Precedes(b)
      <3>1. \A o \in 1..Len(b) : Rank(b[o]) <= Rank(book[o])
        BY <2>1, <2>2, Sizes
      <3>2. QED BY <1>1, <2>1, <2>2, <3>1 DEF Precedes, BookInv
    <2>4. mine.asOf = Len(log) /\ mine.book = b /\ mine.seen = [s \in Symbols |-> Held(s)]
      BY <1>4, <2>2
    <2>5. QED BY <2>1, <2>3, <2>4 DEF Saw
  <1>6. Fits(mine)
    BY <1>4, <1>5 DEF Fits
  <1>7. QED BY <1>1, <1>3, <1>4, <1>6, OneHand DEF Kept

LEMMA CompareKeeps ==
    ASSUME AgreeInv, NEW p \in Parties, Compare(p)
    PROVE  Kept /\ HandsFit'
  <1>1. BookInv /\ LogInv /\ HandsFit
    BY DEF AgreeInv, HandsFit
  <1>2. UNCHANGED <<book, log>>
    BY DEF Compare
  <1>3. Kept
    BY <1>1, <1>2, WhenQuiet
  <1>4. Saw(pass[p])
    BY <1>1, MyHand DEF Compare, Fits
  <1> DEFINE upto == Before(pass[p].asOf)
             Clean(aged) == /\ ComparePositions(upto, pass[p].seen) = {}
                            /\ CompareOrders(upto, OpenOrders, aged) = {}
             Verdict(aged) ==
                 IF Clean(aged)
                 THEN [status |-> "clean", day |-> pass[p].day,
                       asOf |-> pass[p].asOf, book |-> pass[p].book]
                 ELSE [status |-> "dirty", day |-> pass[p].day]
  <1>5. PICK aged \in BOOLEAN : \E next \in Follow(p, upto, Verdict(aged)) :
                                    pass' = [pass EXCEPT ![p] = next]
    BY DEF Compare
  <1>6. PICK next \in Follow(p, upto, Verdict(aged)) : pass' = [pass EXCEPT ![p] = next]
    BY <1>5
  <1>7. Fits(next)
    <2>1. CASE pass[p].kind = "resolve"
      BY <1>6, <2>1 DEF Follow, Fits
    <2>2. CASE pass[p].kind = "sync"
      <3>1. PICK S \in Candidates(p, LocalOnly(upto, OpenOrders)) :
                next = [at |-> "lookup", kind |-> "sync", todo |-> S, rows |-> << >>,
                        stamp |-> Len(log) + 1]
        BY <1>6, <2>2 DEF Follow
      <3>2. S \subseteq Orders
        BY <3>1 DEF Candidates, LocalOnly, LocalOpen, Recorded
      <3>3. Len(log) \in Nat
        BY <1>1, LenProperties DEF LogInv
      <3>4. Len(next.rows) = 0 /\ next.rows \in Seq(TradeRows)
        BY <3>1, EmptySeq
      <3>5. Syncs(next)
        BY <3>1, <3>2, <3>3, <3>4 DEF Syncs
      <3>6. QED BY <3>1, <3>5 DEF Fits
    <2>3. CASE pass[p].kind \notin {"resolve", "sync"}
      <3>1. PICK v : v = Verdict(aged)
        OBVIOUS
      <3>2. next.at = "persist" /\ next.verdict = v
        BY <1>6, <2>3, <3>1 DEF Follow
      <3>3. VerdictInv(v)
        <4>1. CASE ~Clean(aged)
          BY <3>1, <4>1 DEF VerdictInv
        <4>2. CASE Clean(aged)
          <5>1. v.asOf = pass[p].asOf /\ v.book = pass[p].book
            BY <3>1, <4>2
          <5>2. v.asOf = Len(log) /\ v.book = book => Right
            BY <1>1, <1>4, <4>2, <5>1, SeenIsRight
          <5>3. QED BY <1>4, <5>1, <5>2 DEF VerdictInv, Saw
        <4>3. QED BY <4>1, <4>2
      <3>4. QED BY <3>2, <3>3 DEF Fits
    <2>4. QED BY <2>1, <2>2, <2>3
  <1>8. QED BY <1>1, <1>3, <1>6, <1>7, OneHand DEF Kept

\* A step that touches neither the store's rows nor the broker, and after which
\* the party has nothing in hand.
LEMMA LeaveKeeps ==
    ASSUME AgreeInv, NEW p \in Parties, UNCHANGED <<book, log>>,
           pass' = [pass EXCEPT ![p] = AtRest]
    PROVE  Kept /\ HandsFit'
  <1>1. BookInv /\ LogInv /\ HandsFit
    BY DEF AgreeInv, HandsFit
  <1>2. Kept
    BY <1>1, WhenQuiet
  <1>3. QED BY <1>1, <1>2, OneHand, RestFits

LEMMA AdjustKeeps ==
    ASSUME AgreeInv, NEW p \in Parties, NEW sym \in Symbols, Adjust(p, sym)
    PROVE  Kept /\ HandsFit'
  <1>1. BookInv /\ LogInv /\ HandsFit
    BY DEF AgreeInv, HandsFit
  <1>2. Len(log) \in Nat
    BY <1>1, LenProperties DEF LogInv
  <1>3. PICK r \in pass[p].rows : log' = Append(log, Adjustment(sym, r.broker - r.local))
    BY DEF Adjust
  <1>4. PICK d : d = r.broker - r.local
    OBVIOUS
  <1>5. PICK a : a = [sym |-> sym, delta |-> d, at |-> Len(log) + 1]
    OBVIOUS
  <1>6. log' = Append(log, a) /\ UNCHANGED book
    BY <1>3, <1>4, <1>5 DEF Adjustment, Adjust
  <1>7. a.at \in Nat /\ a.at <= Len(log) + 1 /\ ~IsTrade(a)
    BY <1>2, <1>5 DEF IsTrade
  <1>8. Kept
    BY <1>1, <1>6, <1>7, GrownLog
  <1>9. pass' = [pass EXCEPT ![p] = AtRest]
    BY DEF Adjust, Leave
  <1>10. QED BY <1>1, <1>8, <1>9, OneHand, RestFits

\* A look at one order: it is off the list, and what it has come to is a true
\* row, or one that is marked as nobody's word.
LEMMA LookedUpFits ==
    ASSUME AgreeInv, NEW p \in Parties, UNCHANGED <<book, log>>,
           pass[p].at = "lookup", pass[p].todo # {},
           NEW found \in Seq(TradeRows), LookedUp(p, found),
           \A i \in 1..Len(found) : Truthful(found[i]) /\ found[i].at = pass[p].stamp
    PROVE  Kept /\ HandsFit'
  <1>1. BookInv /\ LogInv /\ HandsFit
    BY DEF AgreeInv, HandsFit
  <1>2. Kept
    BY <1>1, WhenQuiet
  <1>3. PICK me : me = pass[p] /\ Syncs(me) /\ me.at = "lookup"
    BY <1>1, MyHand DEF Fits
  <1>4. PICK mine : /\ mine = [me EXCEPT !.todo = @ \ {Next1(p)}, !.rows = @ \o found]
                    /\ pass' = [pass EXCEPT ![p] = mine]
    <2>1. pass' = [pass EXCEPT ![p] = [me EXCEPT !.todo = @ \ {Next1(p)}, !.rows = @ \o found]]
      BY <1>1, <1>3 DEF LookedUp, HandsFit
    <2>2. QED BY <2>1
  <1>5. Syncs(mine) /\ mine.at = "lookup"
    <2>1. /\ me.todo \subseteq Orders /\ me.stamp \in Nat /\ me.stamp <= Len(log) + 1
          /\ me.rows \in Seq(TradeRows)
          /\ \A i \in 1..Len(me.rows) : Truthful(me.rows[i]) /\ me.rows[i].at <= Len(log) + 1
      BY <1>3 DEF Syncs
    <2>2. /\ mine.at = me.at /\ mine.stamp = me.stamp /\ mine.todo \subseteq me.todo
          /\ mine.rows = me.rows \o found
      <3>1. me \in [at : {"lookup"}, kind : {"sync"}, todo : SUBSET Orders,
                    rows : Seq(TradeRows), stamp : Nat]
        BY <1>3 DEF Syncs
      <3>2. QED BY <1>4, <3>1
    <2>3. PICK both : both = mine.rows
      OBVIOUS
    <2>4. /\ both \in Seq(TradeRows) /\ Len(me.rows) \in Nat /\ Len(found) \in Nat
          /\ Len(both) = Len(me.rows) + Len(found)
          /\ \A i \in 1..Len(both) : both[i] = IF i <= Len(me.rows) THEN me.rows[i]
                                               ELSE found[i - Len(me.rows)]
      BY <2>1, <2>2, <2>3, ConcatProperties, LenProperties
    <2>5. ASSUME NEW i \in 1..Len(both) PROVE Truthful(both[i]) /\ both[i].at <= Len(log) + 1
      <3>1. CASE i <= Len(me.rows)
        <4>1. i \in 1..Len(me.rows) /\ both[i] = me.rows[i]
          BY <2>4, <3>1
        <4>2. QED BY <2>1, <4>1
      <3>2. CASE ~(i <= Len(me.rows))
        <4>1. i - Len(me.rows) \in 1..Len(found)
          BY <2>4, <3>2
        <4>2. both[i] = found[i - Len(me.rows)]
          BY <2>4, <3>2
        <4>3. QED BY <1>3, <2>1, <4>1, <4>2
      <3>3. QED BY <3>1, <3>2
    <2>6. mine \in [at : {"lookup"}, kind : {"sync"}, todo : SUBSET Orders,
                    rows : Seq(TradeRows), stamp : Nat]
      <3>1. me \in [at : {"lookup"}, kind : {"sync"}, todo : SUBSET Orders,
                    rows : Seq(TradeRows), stamp : Nat]
        BY <1>3 DEF Syncs
      <3>2. me.todo \ {Next1(p)} \in SUBSET Orders /\ me.rows \o found \in Seq(TradeRows)
        BY <2>1, <2>2, <2>3, <2>4
      <3>3. QED BY <1>4, <3>1, <3>2
    <2>7. QED BY <1>3, <2>1, <2>2, <2>3, <2>4, <2>5, <2>6 DEF Syncs
  <1>6. Fits(mine)
    BY <1>5 DEF Fits
  <1>7. QED BY <1>1, <1>2, <1>4, <1>6, OneHand DEF Kept

LEMMA LookupKeeps ==
    ASSUME AgreeInv, NEW p \in Parties, Lookup(p) \/ LookupFails(p)
    PROVE  Kept /\ HandsFit'
  <1>1. BookInv /\ LogInv /\ HandsFit /\ day \in Nat
    BY DEF AgreeInv, HandsFit
  <1>2. PICK me : me = pass[p] /\ Syncs(me) /\ me.at = "lookup" /\ me.todo # {}
    BY <1>1, MyHand DEF Fits, Lookup, LookupFails
  <1>3. UNCHANGED <<book, log>>
    BY DEF Lookup, LookupFails
  <1>4. PICK o : o = Next1(p) /\ o \in me.todo /\ o \in Orders /\ o \in Nat
    <2>1. me.todo \subseteq Orders /\ Len(book) \in Nat
      BY <1>1, <1>2, LenProperties DEF Syncs, BookInv
    <2>2. me.todo \in SUBSET Nat
      BY <2>1 DEF Orders
    <2>3. Min(me.todo) \in me.todo
      BY <1>2, <2>2, LeastOf
    <2>4. QED BY <1>2, <2>1, <2>2, <2>3 DEF Next1
  <1>5. me.stamp \in Nat
    BY <1>2 DEF Syncs
  <1>6. CASE Lookup(p)
    <2>1. CASE LookedUp(p, << >>)
      <3>1. << >> \in Seq(TradeRows) /\ Len(<< >>) = 0
        BY EmptySeq
      <3>2. PICK found : found = << >>
        OBVIOUS
      <3>3. found \in Seq(TradeRows) /\ Len(found) = 0 /\ LookedUp(p, found)
        BY <2>1, <3>1, <3>2
      <3>4. \A i \in 1..Len(found) : Truthful(found[i]) /\ found[i].at = pass[p].stamp
        BY <3>3
      <3>5. QED BY <1>2, <1>3, <3>3, <3>4, LookedUpFits
    <2>2. CASE ~IsOpen(o) /\ LookedUp(p, <<TradeRow(o, book[o].status, TRUE, pass[p].stamp)>>)
      <3>1. PICK r : r = [order |-> o, status |-> book[o].status, known |-> TRUE,
                          at |-> me.stamp, day |-> day]
        OBVIOUS
      <3>2. book[o].status \in {"filled", "cancelled"}
        <4>1. book[o] \in OrderRecords
          BY <1>1, <1>4, ElementOfSeq DEF BookInv, Orders
        <4>2. QED BY <2>2, <4>1 DEF OrderRecords, Statuses, IsOpen
      <3>3. r \in TradeRows /\ r.order = o /\ r.status = book[o].status /\ r.at = me.stamp
        BY <1>1, <1>4, <1>5, <3>1, <3>2 DEF TradeRows
      <3>4. Truthful(r)
        BY <1>4, <3>3 DEF Truthful
      <3>5. PICK found : found = <<r>>
        OBVIOUS
      <3>6. found \in Seq(TradeRows) /\ Len(found) = 1 /\ found[1] = r
        BY <3>3, <3>5
      <3>7. LookedUp(p, found)
        BY <1>2, <2>2, <3>1, <3>5 DEF TradeRow
      <3>8. \A i \in 1..Len(found) : Truthful(found[i]) /\ found[i].at = pass[p].stamp
        BY <1>2, <3>3, <3>4, <3>6
      <3>9. QED BY <1>2, <1>3, <3>6, <3>7, <3>8, LookedUpFits
    <2>3. QED BY <1>4, <1>6, <2>1, <2>2 DEF Lookup
  <1>7. CASE LookupFails(p)
    <2>1. PICK r : r = [order |-> o, status |-> "cancelled", known |-> FALSE,
                        at |-> me.stamp, day |-> day]
      OBVIOUS
    <2>2. r \in TradeRows /\ r.order = o /\ r.known = FALSE /\ r.at = me.stamp
      BY <1>1, <1>4, <1>5, <2>1 DEF TradeRows
    <2>3. Truthful(r)
      BY <1>4, <2>2 DEF Truthful
    <2>4. PICK found : found = <<r>>
      OBVIOUS
    <2>5. found \in Seq(TradeRows) /\ Len(found) = 1 /\ found[1] = r
      BY <2>2, <2>4
    <2>6. LookedUp(p, found)
      BY <1>2, <1>4, <1>7, <2>1, <2>4 DEF LookupFails, TradeRow
    <2>7. \A i \in 1..Len(found) : Truthful(found[i]) /\ found[i].at = pass[p].stamp
      BY <1>2, <2>2, <2>3, <2>5
    <2>8. QED BY <1>2, <1>3, <2>5, <2>6, <2>7, LookedUpFits
  <1>8. QED BY <1>6, <1>7

LEMMA AppendKeeps ==
    ASSUME AgreeInv, NEW p \in Parties, AppendRow(p)
    PROVE  Kept /\ HandsFit'
  <1>1. BookInv /\ LogInv /\ HandsFit
    BY DEF AgreeInv, HandsFit
  <1>2. PICK me : me = pass[p] /\ Fits(me) /\ Syncs(me) /\ me.at = "lookup" /\ me.rows # << >>
    BY <1>1, MyHand DEF Fits, AppendRow
  <1>3. /\ me.rows \in Seq(TradeRows)
        /\ \A i \in 1..Len(me.rows) : Truthful(me.rows[i]) /\ me.rows[i].at <= Len(log) + 1
    BY <1>2 DEF Syncs
  <1>4. PICK r : r = Head(me.rows)
    OBVIOUS
  <1>5. /\ Len(me.rows) \in Nat \ {0} /\ r = me.rows[1]
        /\ Tail(me.rows) \in Seq(TradeRows) /\ Len(Tail(me.rows)) = Len(me.rows) - 1
        /\ \A i \in 1..Len(Tail(me.rows)) : Tail(me.rows)[i] = me.rows[i + 1]
    BY <1>2, <1>3, <1>4, HeadTailProperties, LenProperties, EmptySeq
  <1>6. Truthful(r) /\ r.at <= Len(log) + 1 /\ r.at \in Nat
    BY <1>3, <1>5 DEF Truthful, TradeRows
  <1>7. log' = Append(log, r) /\ UNCHANGED book
    BY <1>2, <1>4 DEF AppendRow
  <1>8. Kept
    BY <1>1, <1>6, <1>7, GrownLog
  <1>9. PICK mine : /\ mine = [me EXCEPT !.rows = Tail(@)]
                    /\ pass' = [pass EXCEPT ![p] = mine]
    <2>1. pass' = [pass EXCEPT ![p] = [me EXCEPT !.rows = Tail(@)]]
      BY <1>1, <1>2 DEF AppendRow, HandsFit
    <2>2. QED BY <2>1
  <1>10. /\ mine \in [at : {"lookup"}, kind : {"sync"}, todo : SUBSET Orders,
                      rows : Seq(TradeRows), stamp : Nat]
         /\ mine.at = "lookup" /\ mine.todo = me.todo /\ mine.stamp = me.stamp
         /\ mine.rows = Tail(me.rows)
    BY <1>2, <1>5, <1>9 DEF Syncs
  <1>11. Syncs(mine)
    <2>1. PICK rest : rest = mine.rows
      OBVIOUS
    <2>2. ASSUME NEW i \in 1..Len(rest) PROVE Truthful(rest[i]) /\ rest[i].at <= Len(log) + 1
      <3>1. i + 1 \in 1..Len(me.rows) /\ rest[i] = me.rows[i + 1]
        BY <1>5, <1>10, <2>1
      <3>2. QED BY <1>3, <3>1
    <2>3. QED BY <1>2, <1>5, <1>10, <2>1, <2>2 DEF Syncs
  <1>12. Fits(mine)
    BY <1>10, <1>11 DEF Fits
  <1>13. QED BY <1>1, <1>8, <1>9, <1>12, OneHand DEF Kept

-----------------------------------------------------------------------------
(* The invariant                                                           *)

LEMMA NothingToAdd ==
    ASSUME NEW f, DOMAIN f = {}
    PROVE  Running(0, f) = 0
  <1> DEFINE Body(g) == [s \in SUBSET {} |->
                            IF s = {} THEN 0
                            ELSE f[CHOOSE x \in s : TRUE] + g[s \ {CHOOSE x \in s : TRUE}]]
             sum == CHOOSE g : g = Body(g)
  <1>1. Running(0, f) = sum[{}]
    BY DEF Running, FoldFunction, FoldFunctionOnSet, MapThenFoldSet
  <1>2. [s \in SUBSET {} |-> 0] = Body([s \in SUBSET {} |-> 0])
    OBVIOUS
  <1>3. sum = Body(sum)
    BY <1>2
  <1>4. sum[{}] = 0
    BY <1>3
  <1>5. QED BY <1>1, <1>4

LEMMA InitInv == Init => AgreeInv
  <1> SUFFICES ASSUME Init PROVE AgreeInv
    OBVIOUS
  <1>1. Len(log) = 0 /\ Len(book) = 0 /\ log \in Seq({}) /\ book \in Seq(OrderRecords)
    BY EmptySeq DEF Init
  <1>2. BookInv /\ LogInv
    BY <1>1 DEF BookInv, LogInv, Orders
  <1>3. VerdictInv(latest)
    <2>1. SUFFICES ASSUME latest = [status |-> "clean", day |-> 0, asOf |-> 0, book |-> book]
                   PROVE  VerdictInv(latest)
      BY DEF Init, VerdictInv
    <2>2. Precedes(book)
      BY <1>1 DEF Precedes
    <2>3. Right
      <3>1. All = {}
        BY <1>1, Rows, <1>2
      <3>2. Orders = {}
        BY <1>1 DEF Orders
      <3>3. ASSUME NEW sym \in Symbols PROVE FoldPositions(All, sym) = Held(sym)
        <4>1. FoldOrders(All, sym) = [o \in {} |-> Signed(o) * Lot]
          BY <3>2 DEF FoldOrders, OfSymbol, Recorded
        <4>2. Adjusted(All, sym) = Running(0, [i \in {} |-> log[i].delta])
          BY <3>1 DEF Adjusted
        <4>3. Held(sym) = Running(0, [o \in {} |-> Signed(o) * book[o].got])
          BY <3>2 DEF Held
        <4>4. Adjusted(All, sym) = 0 /\ Held(sym) = 0
          BY <4>2, <4>3, NothingToAdd
        <4>5. Running(0, FoldOrders(All, sym)) = 0
          BY <4>1, NothingToAdd
        <4>6. QED BY <4>4, <4>5 DEF FoldPositions
      <3>4. OpenOrders = {}
        BY <3>2 DEF OpenOrders
      <3>5. QED BY <3>3, <3>4 DEF Right
    <2>4. QED BY <1>1, <2>1, <2>2, <2>3 DEF VerdictInv
  <1>4. \A me \in InHand : Fits(me)
    BY DEF Init, InHand, Fits, AtRest
  <1>5. QED BY <1>2, <1>3, <1>4 DEF AgreeInv, Init

LEMMA LatestKeeps ==
    ASSUME AgreeInv, Kept, NEW v, VerdictInv(v), latest' = v
    PROVE  VerdictInv(latest)'
  <1>1. VerdictInv(v)'
    BY DEF Kept
  <1>2. QED BY <1>1 DEF VerdictInv

LEMMA StepKeeps ==
    ASSUME AgreeInv, [Next]_vars
    PROVE  Kept /\ HandsFit' /\ VerdictInv(latest)' /\ day' \in Nat
  <1> USE DEF AgreeInv
  <1>1. BookInv /\ LogInv /\ HandsFit
    BY DEF HandsFit
  <1>2. ASSUME Kept, UNCHANGED latest PROVE VerdictInv(latest)'
    <2>1. PICK v : v = latest
      OBVIOUS
    <2>2. VerdictInv(v)
      BY <2>1 DEF VerdictInv
    <2>3. QED BY <1>2, <2>1, <2>2, LatestKeeps
  <1>3. CASE UNCHANGED vars
    <2>1. Kept
      BY <1>1, <1>3, WhenQuiet DEF vars
    <2>2. QED BY <1>1, <1>2, <1>3, <2>1, SameHands DEF vars
  <1>4. ASSUME NEW s \in Runners, NEW sym \in Symbols, NEW side \in {"buy", "sell"},
               Place(s, sym, side)
        PROVE  Kept /\ HandsFit' /\ VerdictInv(latest)' /\ day' \in Nat
    BY <1>2, <1>4, PlaceKeeps DEF Place
  <1>5. ASSUME NEW s \in Runners, Record(s)
        PROVE  Kept /\ HandsFit' /\ VerdictInv(latest)' /\ day' \in Nat
    BY <1>2, <1>5, RecordKeeps DEF Record
  <1>6. ASSUME NEW o \in Orders, NEW got \in 0..Lot,
               NEW status \in {"partial", "filled", "cancelled"}, Settle(o, status, got)
        PROVE  Kept /\ HandsFit' /\ VerdictInv(latest)' /\ day' \in Nat
    BY <1>2, <1>6, SettleKeeps DEF Settle
  <1>7. CASE NewDay
    <2>1. UNCHANGED <<book, log, pass, latest>> /\ day' = day + 1
      BY <1>7 DEF NewDay
    <2>2. Kept
      BY <1>1, <2>1, WhenQuiet
    <2>3. QED BY <1>1, <1>2, <2>1, <2>2, SameHands
  <1>8. ASSUME NEW p \in Parties, Pass(p)
        PROVE  Kept /\ HandsFit' /\ VerdictInv(latest)' /\ day' \in Nat
    <2>1. day' \in Nat
      BY <1>8 DEF Pass, BeginPass, Compare, Unreachable, Persist, Adjust, Refuse, Lookup,
                  LookupFails, AppendRow, SyncDone, DieInPass
    <2>2. ASSUME NEW kind \in Kinds, BeginPass(p, kind)
          PROVE  Kept /\ HandsFit' /\ VerdictInv(latest)'
      BY <1>2, <2>2, BeginKeeps DEF BeginPass
    <2>3. CASE Compare(p)
      BY <1>2, <2>3, CompareKeeps DEF Compare
    <2>4. CASE Unreachable(p)
      <3>1. Kept /\ HandsFit'
        BY <2>4, LeaveKeeps DEF Unreachable, Leave
      <3>2. CASE UNCHANGED latest
        BY <1>2, <2>1, <3>1, <3>2
      <3>3. CASE latest' = [status |-> "incomplete", day |-> pass[p].day]
        <4>1. PICK v : v = latest' /\ v.status = "incomplete"
          BY <3>3
        <4>2. VerdictInv(v)
          BY <4>1 DEF VerdictInv
        <4>3. QED BY <2>1, <3>1, <4>1, <4>2, LatestKeeps
      <3>4. QED BY <2>4, <3>1, <3>2, <3>3 DEF Unreachable, Persisted
    <2>5. CASE Persist(p)
      <3>1. Kept /\ HandsFit'
        BY <2>5, LeaveKeeps DEF Persist, Leave
      <3>2. PICK me : me = pass[p] /\ Fits(me)
        BY <1>1, MyHand
      <3>3. PICK v : v = me.verdict
        OBVIOUS
      <3>4. VerdictInv(v) /\ latest' = v
        BY <2>5, <3>2, <3>3 DEF Persist, Persisted, Fits
      <3>5. QED BY <2>1, <3>1, <3>4, LatestKeeps
    <2>6. ASSUME NEW sym \in Symbols, Adjust(p, sym)
          PROVE  Kept /\ HandsFit' /\ VerdictInv(latest)'
      BY <1>2, <2>6, AdjustKeeps DEF Adjust
    <2>7. CASE Refuse(p)
      BY <1>2, <2>7, LeaveKeeps DEF Refuse, Leave
    <2>8. CASE Lookup(p) \/ LookupFails(p)
      BY <1>2, <2>8, LookupKeeps DEF Lookup, LookupFails
    <2>9. CASE AppendRow(p)
      BY <1>2, <2>9, AppendKeeps DEF AppendRow
    <2>10. CASE SyncDone(p)
      BY <1>2, <2>10, LeaveKeeps DEF SyncDone, Leave
    <2>11. CASE DieInPass(p)
      BY <1>2, <2>11, LeaveKeeps DEF DieInPass
    <2>12. QED BY <1>8, <2>1, <2>2, <2>3, <2>4, <2>5, <2>6, <2>7, <2>8, <2>9, <2>10, <2>11
               DEF Pass
  <1>9. QED BY <1>3, <1>4, <1>5, <1>6, <1>7, <1>8 DEF Next, Trade

LEMMA StepInv == AgreeInv /\ [Next]_vars => AgreeInv'
  <1> SUFFICES ASSUME AgreeInv, [Next]_vars PROVE AgreeInv'
    OBVIOUS
  <1>1. Kept /\ HandsFit' /\ VerdictInv(latest)' /\ day' \in Nat
    BY StepKeeps
  <1>2. QED BY <1>1 DEF AgreeInv, HandsFit, Kept

-----------------------------------------------------------------------------
(* Types                                                                   *)

Days == 0..MaxDay

Dated(me) ==
    /\ me.at = "orders" => me.day \in Days
    /\ me.at = "persist" => me.verdict.status \in {"clean", "dirty"} /\ me.verdict.day \in Days

Counted ==
    /\ latest.status \in {"none", "clean", "dirty", "incomplete"}
    /\ up \subseteq Runners
    /\ seenDay \in [Runners -> {Never} \cup Days]
    /\ passes \in 0..MaxPasses /\ day \in Days
    /\ \A p \in Parties : Dated(pass[p])

LEMMA DatedHands ==
    ASSUME AgreeInv, Counted, NEW p \in Parties, NEW mine, Dated(mine),
           pass' = [pass EXCEPT ![p] = mine]
    PROVE  \A q \in Parties : Dated(pass'[q])
  <1>1. pass' = [q \in Parties |-> IF q = p THEN mine ELSE pass[q]]
    BY DEF AgreeInv
  <1>2. QED BY <1>1 DEF Counted

LEMMA CountedStep ==
    ASSUME AgreeInv, Counted, [Next]_vars
    PROVE  Counted'
  <1> DEFINE Dates == /\ latest' = latest \/ latest'.status \in {"clean", "dirty", "incomplete"}
                      /\ up' \subseteq up /\ passes' \in 0..MaxPasses /\ day' \in Days
                      /\ seenDay' \in [Runners -> {Never} \cup Days]
                      /\ \A q \in Parties : Dated(pass'[q])
  <1>1. Dates => Counted'
    BY DEF Counted, Parties
  <1>2. MaxPasses \in Nat /\ MaxDay \in Nat
    BY ReconciliationAssumption
  <1>3. Dated(AtRest)
    BY DEF Dated, AtRest
  <1>4. CASE UNCHANGED vars
    BY <1>1, <1>4 DEF Counted, vars
  <1>5. ASSUME NEW s \in Runners, NEW sym \in Symbols, NEW side \in {"buy", "sell"},
               Place(s, sym, side)
        PROVE  Dates
    <2>1. PICK mine : /\ mine = [at |-> "record", order |-> Len(book) + 1]
                      /\ pass' = [pass EXCEPT ![s] = mine]
      BY <1>5 DEF Place
    <2>2. Dated(mine) /\ s \in Parties
      BY <2>1 DEF Dated, Parties
    <2>3. QED BY <1>5, <2>1, <2>2, DatedHands DEF Place, Counted
  <1>6. ASSUME NEW s \in Runners, Record(s) PROVE Dates
    <2>1. s \in Parties
      BY DEF Parties
    <2>2. QED BY <1>3, <1>6, <2>1, DatedHands DEF Record, Counted
  <1>7. ASSUME NEW o \in Orders, NEW got \in 0..Lot,
               NEW status \in {"partial", "filled", "cancelled"}, Settle(o, status, got)
        PROVE  Dates
    BY <1>7 DEF Settle, Counted
  <1>8. CASE NewDay
    BY <1>2, <1>8 DEF NewDay, Counted, Days
  <1>9. ASSUME NEW p \in Parties, Pass(p) PROVE Dates
    <2>1. ASSUME NEW kind \in Kinds, BeginPass(p, kind) PROVE Dates
      <3>1. PICK mine : /\ mine.at = "orders" /\ mine.day = day
                        /\ pass' = [pass EXCEPT ![p] = mine]
        BY <2>1 DEF BeginPass
      <3>2. Dated(mine)
        BY <3>1 DEF Dated, Counted
      <3>3. QED BY <1>2, <2>1, <3>1, <3>2, DatedHands DEF BeginPass, Counted
    <2>2. CASE Compare(p)
      <3>1. pass[p].day \in Days
        BY <2>2 DEF Compare, Counted, Dated
      <3>2. PICK verdict :
                /\ verdict.status \in {"clean", "dirty"} /\ verdict.day = pass[p].day
                /\ \E next \in Follow(p, Before(pass[p].asOf), verdict) :
                       pass' = [pass EXCEPT ![p] = next]
        <4>1. PICK aged \in BOOLEAN :
                LET upto == Before(pass[p].asOf)
                    verdict == IF ComparePositions(upto, pass[p].seen) = {}
                                  /\ CompareOrders(upto, OpenOrders, aged) = {}
                               THEN [status |-> "clean", day |-> pass[p].day,
                                     asOf |-> pass[p].asOf, book |-> pass[p].book]
                               ELSE [status |-> "dirty", day |-> pass[p].day]
                IN  \E next \in Follow(p, upto, verdict) : pass' = [pass EXCEPT ![p] = next]
          BY <2>2 DEF Compare
        <4>2. QED BY <4>1
      <3>3. PICK next \in Follow(p, Before(pass[p].asOf), verdict) :
                pass' = [pass EXCEPT ![p] = next]
        BY <3>2
      <3>4. Dated(next)
        <4>1. CASE pass[p].kind \in {"resolve", "sync"}
          <5>1. next.at \in {"adjust", "lookup"}
            BY <3>3, <4>1 DEF Follow
          <5>2. QED BY <5>1 DEF Dated
        <4>2. CASE pass[p].kind \notin {"resolve", "sync"}
          <5>1. next.at = "persist" /\ next.verdict = verdict
            BY <3>3, <4>2 DEF Follow
          <5>2. QED BY <3>1, <3>2, <5>1 DEF Dated
        <4>3. QED BY <4>1, <4>2
      <3>5. QED BY <2>2, <3>3, <3>4, DatedHands DEF Compare, Counted
    <2>3. CASE Unreachable(p)
      <3>1. pass[p].day \in Days /\ day \in Days
        BY <2>3 DEF Unreachable, Counted, Dated
      <3>2. seenDay' \in [Runners -> {Never} \cup Days]
        BY <2>3, <3>1 DEF Unreachable, Persisted, SeenDay, Counted
      <3>3. latest' = latest \/ latest'.status \in {"clean", "dirty", "incomplete"}
        BY <2>3 DEF Unreachable, Persisted
      <3>4. pass' = [pass EXCEPT ![p] = AtRest] /\ up' \subseteq up /\ UNCHANGED <<passes, day>>
        BY <2>3 DEF Unreachable, Leave
      <3>5. QED BY <1>3, <3>2, <3>3, <3>4, DatedHands DEF Counted
    <2>4. CASE Persist(p)
      <3>1. pass[p].verdict.day \in Days /\ pass[p].verdict.status \in {"clean", "dirty"}
        BY <2>4 DEF Persist, Counted, Dated
      <3>2. seenDay' \in [Runners -> {Never} \cup Days]
        BY <2>4, <3>1 DEF Persist, Persisted, SeenDay, Counted
      <3>3. latest'.status \in {"clean", "dirty"}
        BY <2>4, <3>1 DEF Persist, Persisted
      <3>4. pass' = [pass EXCEPT ![p] = AtRest] /\ up' \subseteq up /\ UNCHANGED <<passes, day>>
        BY <2>4 DEF Persist, Leave
      <3>5. QED BY <1>3, <3>2, <3>3, <3>4, DatedHands DEF Counted
    <2>5. CASE (\E sym \in Symbols : Adjust(p, sym)) \/ Refuse(p) \/ SyncDone(p) \/ DieInPass(p)
      <3>1. /\ pass' = [pass EXCEPT ![p] = AtRest] /\ up' \subseteq up
            /\ UNCHANGED <<latest, seenDay, day, passes>>
        BY <2>5 DEF Adjust, Refuse, SyncDone, DieInPass, Leave
      <3>2. QED BY <1>3, <3>1, DatedHands DEF Counted
    <2>6. CASE Lookup(p) \/ LookupFails(p) \/ AppendRow(p)
      <3>1. PICK me : me = pass[p] /\ me.at = "lookup" /\ Syncs(me)
        BY <2>6, MyHand DEF Lookup, LookupFails, AppendRow, Fits, HandsFit, AgreeInv
      <3>2. PICK mine : mine.at = "lookup" /\ pass' = [pass EXCEPT ![p] = mine]
        <4>1. CASE \E found : LookedUp(p, found)
          <5>1. PICK found : LookedUp(p, found)
            BY <4>1
          <5>2. pass' = [pass EXCEPT ![p] = [me EXCEPT !.todo = @ \ {Next1(p)}, !.rows = @ \o found]]
            BY <3>1, <5>1 DEF LookedUp, AgreeInv
          <5>3. QED BY <3>1, <5>2 DEF Syncs
        <4>2. CASE AppendRow(p)
          <5>1. pass' = [pass EXCEPT ![p] = [me EXCEPT !.rows = Tail(@)]]
            BY <3>1, <4>2 DEF AppendRow, AgreeInv
          <5>2. QED BY <3>1, <5>1 DEF Syncs
        <4>3. QED BY <2>6, <4>1, <4>2 DEF Lookup, LookupFails
      <3>3. Dated(mine)
        BY <3>2 DEF Dated
      <3>4. UNCHANGED <<latest, up, seenDay, day, passes>>
        BY <2>6 DEF Lookup, LookupFails, AppendRow
      <3>5. QED BY <3>2, <3>3, <3>4, DatedHands DEF Counted
    <2>7. QED BY <1>9, <2>1, <2>2, <2>3, <2>4, <2>5, <2>6 DEF Pass
  <1>10. QED BY <1>1, <1>4, <1>5, <1>6, <1>7, <1>8, <1>9 DEF Next, Trade

LEMMA CountedInit == Init => Counted
  <1> SUFFICES ASSUME Init PROVE Counted
    OBVIOUS
  <1>1. MaxPasses \in Nat /\ MaxDay \in Nat
    BY ReconciliationAssumption
  <1>2. seenDay \in [Runners -> {Never} \cup Days]
    BY <1>1 DEF Init, Days
  <1>3. \A p \in Parties : Dated(pass[p])
    BY DEF Init, Dated, AtRest
  <1>4. QED BY <1>1, <1>2, <1>3 DEF Counted, Init, Days

\* The inductive invariant of reconciliation.
THEOREM ReconciliationInvariant == Spec => []AgreeInv
  BY InitInv, StepInv, PTL DEF Spec

\* Orders, rows, verdicts, sessions and days keep their types.
THEOREM ReconciliationTypes == Spec => []TypeOK
  <1>1. AgreeInv /\ Counted => TypeOK
    <2> SUFFICES ASSUME AgreeInv, Counted PROVE TypeOK
      OBVIOUS
    <2>1. \A o \in Orders : book[o] \in OrderRecords
      BY ElementOfSeq DEF AgreeInv, BookInv, Orders
    <2>2. \A i \in All : IsTrade(log[i]) => log[i].order \in Orders
      <3>1. All = 1..Len(log)
        BY Rows DEF AgreeInv
      <3>2. QED BY <3>1 DEF AgreeInv, LogInv, Sound, Truthful
    <2>3. QED BY <2>1, <2>2 DEF TypeOK, OrderRecords, Counted, Days
  <1>2. QED BY <1>1, CountedInit, CountedStep, ReconciliationInvariant, PTL DEF Spec

\* However orders fill, passes die and syncs fail half way, the store's fold is
\* the broker's position once every order is over and closed in the store.
THEOREM SettledStoreAgrees == Spec => []SettledAgrees
  <1>1. AgreeInv => SettledAgrees
    BY Settled DEF AgreeInv
  <1>2. QED BY <1>1, ReconciliationInvariant, PTL

\* A clean verdict is right as long as neither the broker's book nor the
\* store's log has moved since the pass began.
THEOREM CleanIsRight == Spec => []CleanUnlessMoved
  <1>1. AgreeInv => CleanUnlessMoved
    BY DEF AgreeInv, CleanUnlessMoved, VerdictInv, Right
  <1>2. QED BY <1>1, ReconciliationInvariant, PTL

-----------------------------------------------------------------------------
(* Running totals, as FoldFunction computes them: an element is chosen,    *)
(* and the rest is summed.                                                 *)

LEMMA UpThroughNat ==
    ASSUME NEW T, 0 \in T, \A n \in Nat : n \in T => n + 1 \in T
    PROVE  Nat \subseteq T
  <1> DEFINE Rest == Nat \ T
  <1> SUFFICES ASSUME Rest # {} PROVE FALSE
    OBVIOUS
  <1>1. PICK d \in Rest : \A e \in Rest : ~(<<e, d>> \in OpToRel(<, Nat))
    BY NatLessThanWellFounded, WFMin
  <1>2. d - 1 \in Nat /\ d - 1 < d
    OBVIOUS
  <1>3. d - 1 \notin Rest
    BY <1>1, <1>2 DEF OpToRel
  <1>4. QED BY <1>2, <1>3

\* The element that a fold takes first.
Foremost(s) == CHOOSE x \in s : TRUE

LEMMA ForemostOf == ASSUME NEW s, s # {} PROVE Foremost(s) \in s
  BY DEF Foremost

\* T has every subset all of whose smaller ones it has.
Inductive(S, T) == \A s \in SUBSET S : (\A x \in s : s \ {x} \in T) => s \in T

LEMMA UpBySize ==
    ASSUME NEW S, IsFiniteSet(S), NEW T, Inductive(S, T)
    PROVE  SUBSET S \subseteq T
  <1> DEFINE Sized == {n \in Nat : \A s \in SUBSET S : Cardinality(s) = n => s \in T}
  <1>1. \A s \in SUBSET S : IsFiniteSet(s) /\ Cardinality(s) \in Nat
    BY FS_Subset, FS_CardinalityType
  <1>2. 0 \in Sized
    <2>1. \A s \in SUBSET S : Cardinality(s) = 0 => s = {}
      BY <1>1, FS_EmptySet
    <2>2. {} \in T
      BY DEF Inductive
    <2>3. QED BY <2>1, <2>2
  <1>3. ASSUME NEW n \in Nat, n \in Sized PROVE n + 1 \in Sized
    <2>1. ASSUME NEW s \in SUBSET S, Cardinality(s) = n + 1 PROVE s \in T
      <3>1. ASSUME NEW x \in s PROVE s \ {x} \in T
        <4>1. Cardinality(s \ {x}) = n
          BY <1>1, <2>1, FS_RemoveElement
        <4>2. QED BY <1>3, <4>1
      <3>2. QED BY <3>1 DEF Inductive
    <2>2. QED BY <2>1
  <1>4. Nat \subseteq Sized
    <2> HIDE DEF Sized
    <2>1. QED BY <1>2, <1>3, UpThroughNat
  <1>5. QED BY <1>1, <1>4

\* What a fold with + computes, subset by subset.
Adds(f, g, s) == g[s] = IF s = {} THEN 0 ELSE f[Foremost(s)] + g[s \ {Foremost(s)}]

LEMMA SumsExist ==
    ASSUME NEW S, IsFiniteSet(S), NEW f \in [S -> Int]
    PROVE  \E g \in [SUBSET S -> Int] : \A s \in SUBSET S : Adds(f, g, s)
  <1> DEFINE Upto(n) == {s \in SUBSET S : Cardinality(s) <= n}
             Done == {n \in Nat : \E g \in [SUBSET S -> Int] : \A s \in Upto(n) : Adds(f, g, s)}
  <1>1. \A s \in SUBSET S : IsFiniteSet(s) /\ Cardinality(s) \in Nat
    BY FS_Subset, FS_CardinalityType
  <1>2. 0 \in Done
    <2>1. PICK g : g = [s \in SUBSET S |-> 0]
      OBVIOUS
    <2>2. g \in [SUBSET S -> Int]
      BY <2>1
    <2>3. \A s \in Upto(0) : s = {}
      BY <1>1, FS_EmptySet
    <2>4. \A s \in Upto(0) : Adds(f, g, s)
      BY <2>1, <2>3 DEF Adds
    <2>5. QED BY <2>2, <2>4
  <1>3. ASSUME NEW n \in Nat, n \in Done PROVE n + 1 \in Done
    <2>1. PICK g \in [SUBSET S -> Int] : \A s \in Upto(n) : Adds(f, g, s)
      BY <1>3
    <2>2. PICK h : h = [s \in SUBSET S |-> IF s = {} THEN 0
                                           ELSE f[Foremost(s)] + g[s \ {Foremost(s)}]]
      OBVIOUS
    <2>3. \A s \in SUBSET S : s # {} => Foremost(s) \in S /\ s \ {Foremost(s)} \in SUBSET S
      BY ForemostOf
    <2>4. h \in [SUBSET S -> Int]
      BY <2>2, <2>3
    <2>5. \A s \in Upto(n) : h[s] = g[s]
      BY <2>1, <2>2 DEF Adds
    <2>6. ASSUME NEW s \in Upto(n + 1) PROVE Adds(f, h, s)
      <3>1. CASE s = {}
        BY <2>2, <3>1 DEF Adds
      <3>2. CASE s # {}
        <4>1. Foremost(s) \in s
          BY <3>2, ForemostOf
        <4>2. Cardinality(s \ {Foremost(s)}) = Cardinality(s) - 1
          BY <1>1, <4>1, FS_RemoveElement
        <4>3. s \ {Foremost(s)} \in Upto(n)
          BY <1>1, <4>2
        <4>4. h[s \ {Foremost(s)}] = g[s \ {Foremost(s)}]
          BY <2>5, <4>3
        <4>5. QED BY <2>2, <3>2, <4>4 DEF Adds
      <3>3. QED BY <3>1, <3>2
    <2>7. QED BY <2>4, <2>6
  <1>4. Nat \subseteq Done
    <2> HIDE DEF Done
    <2>1. QED BY <1>2, <1>3, UpThroughNat
  <1>5. PICK g \in [SUBSET S -> Int] : \A s \in Upto(Cardinality(S)) : Adds(f, g, s)
    BY <1>1, <1>4
  <1>6. \A s \in SUBSET S : Cardinality(s) <= Cardinality(S)
    BY FS_Subset
  <1>7. QED BY <1>1, <1>5, <1>6

\* A running total over S is one of those.
LEMMA RunningIsOne ==
    ASSUME NEW S, IsFiniteSet(S), NEW f \in [S -> Int],
           NEW g \in [SUBSET S -> Int], \A s \in SUBSET S : Adds(f, g, s)
    PROVE  Running(0, f) = g[S]
  <1> DEFINE Chosen == CHOOSE k : k = [s \in SUBSET S |->
                          IF s = {} THEN 0
                          ELSE f[CHOOSE x \in s : TRUE] + k[s \ {CHOOSE x \in s : TRUE}]]
  <1>1. DOMAIN f = S
    OBVIOUS
  <1>2. Running(0, f) = Chosen[S]
    BY <1>1 DEF Running, FoldFunction, FoldFunctionOnSet, MapThenFoldSet
  <1>3. g = [s \in SUBSET S |-> g[s]]
    OBVIOUS
  <1>4. g = [s \in SUBSET S |-> IF s = {} THEN 0
                       ELSE f[CHOOSE x \in s : TRUE] + g[s \ {CHOOSE x \in s : TRUE}]]
    BY <1>3 DEF Adds, Foremost
  <1>5. Chosen = [s \in SUBSET S |-> IF s = {} THEN 0
                       ELSE f[CHOOSE x \in s : TRUE] + Chosen[s \ {CHOOSE x \in s : TRUE}]]
    BY <1>4
  <1> HIDE DEF Chosen
  <1>6. \A s \in SUBSET S : Adds(f, Chosen, s)
    BY <1>5 DEF Adds, Foremost
  <1>7. PICK Same : Same = {s \in SUBSET S : Chosen[s] = g[s]}
    OBVIOUS
  <1>8. SUBSET S \subseteq Same
    <2>1. ASSUME NEW s \in SUBSET S, \A x \in s : s \ {x} \in Same PROVE s \in Same
      <3>1. CASE s = {}
        BY <1>6, <1>7, <3>1 DEF Adds
      <3>2. CASE s # {}
        <4>1. Chosen[s \ {Foremost(s)}] = g[s \ {Foremost(s)}]
          BY <1>7, <2>1, <3>2, ForemostOf
        <4>2. QED BY <1>6, <1>7, <3>2, <4>1 DEF Adds
      <3>3. QED BY <3>1, <3>2
    <2>2. Inductive(S, Same)
      BY <2>1 DEF Inductive
    <2>3. QED BY <2>2, UpBySize
  <1>9. S \in SUBSET S
    OBVIOUS
  <1>10. QED BY <1>2, <1>7, <1>8, <1>9

\* The total of w over O.
Net(w, O) == Running(0, [o \in O |-> w[o]])

LEMMA NetOfNone == ASSUME NEW w PROVE Net(w, {}) = 0
  BY NothingToAdd DEF Net

\* Any element may be taken first.
LEMMA NetWithout ==
    ASSUME NEW S, IsFiniteSet(S), NEW w, \A x \in S : w[x] \in Int, NEW y \in S
    PROVE  /\ Net(w, S) \in Int /\ Net(w, S \ {y}) \in Int
           /\ Net(w, S) = w[y] + Net(w, S \ {y})
  <1>1. PICK f \in [S -> Int] : f = [x \in S |-> w[x]]
    <2>1. [x \in S |-> w[x]] \in [S -> Int]
      OBVIOUS
    <2>2. QED BY <2>1
  <1>2. PICK g \in [SUBSET S -> Int] : \A s \in SUBSET S : Adds(f, g, s)
    BY SumsExist
  <1>3. PICK T : T = {s \in SUBSET S : \A x \in s : g[s] = f[x] + g[s \ {x}]}
    OBVIOUS
  <1>4. ASSUME NEW s \in SUBSET S, \A x \in s : s \ {x} \in T PROVE s \in T
    <2>1. ASSUME NEW x \in s PROVE g[s] = f[x] + g[s \ {x}]
      <3>1. PICK c : c = Foremost(s)
        OBVIOUS
      <3>2. c \in s /\ g[s] = f[c] + g[s \ {c}]
        BY <1>2, <2>1, <3>1, ForemostOf DEF Adds
      <3>3. CASE x = c
        BY <3>2, <3>3
      <3>4. CASE x # c
        <4>1. s \ {c} \in T /\ s \ {x} \in T /\ x \in s \ {c} /\ c \in s \ {x}
          BY <1>4, <2>1, <3>2, <3>4
        <4>2. g[s \ {c}] = f[x] + g[(s \ {c}) \ {x}] /\ g[s \ {x}] = f[c] + g[(s \ {x}) \ {c}]
          BY <1>3, <4>1
        <4>3. PICK r \in SUBSET S : r = (s \ {c}) \ {x}
          OBVIOUS
        <4>4. (s \ {x}) \ {c} = r
          BY <4>3
        <4>5. f[x] \in Int /\ f[c] \in Int /\ g[r] \in Int
          BY <2>1, <3>2
        <4>6. g[s \ {c}] = f[x] + g[r] /\ g[s \ {x}] = f[c] + g[r]
          BY <4>2, <4>3, <4>4
        <4>7. QED BY <3>2, <4>5, <4>6
      <3>5. QED BY <3>3, <3>4
    <2>2. QED BY <1>3, <2>1
  <1>5. SUBSET S \subseteq T
    <2>1. Inductive(S, T)
      BY <1>4 DEF Inductive
    <2>2. QED BY <2>1, UpBySize
  <1>6. g[S] = f[y] + g[S \ {y}] /\ g[S] \in Int /\ g[S \ {y}] \in Int
    BY <1>3, <1>5
  <1>7. Net(w, S) = g[S]
    BY <1>1, <1>2, RunningIsOne DEF Net
  <1>8. Net(w, S \ {y}) = g[S \ {y}]
    <2>1. PICK R : R = S \ {y}
      OBVIOUS
    <2>2. IsFiniteSet(R) /\ R \subseteq S
      BY <2>1, FS_Subset
    <2>3. PICK e \in [R -> Int] : e = [x \in R |-> w[x]]
      <3>1. [x \in R |-> w[x]] \in [R -> Int]
        BY <2>2
      <3>2. QED BY <3>1
    <2>4. PICK h \in [SUBSET R -> Int] : h = [s \in SUBSET R |-> g[s]]
      <3>1. [s \in SUBSET R |-> g[s]] \in [SUBSET R -> Int]
        BY <2>2
      <3>2. QED BY <3>1
    <2>5. ASSUME NEW s \in SUBSET R PROVE Adds(e, h, s)
      <3>1. Adds(f, g, s) /\ s \ {Foremost(s)} \in SUBSET R /\ h[s] = g[s]
        BY <1>2, <2>2, <2>4
      <3>2. s # {} => e[Foremost(s)] = f[Foremost(s)]
        BY <1>1, <2>2, <2>3, ForemostOf
      <3>3. h[s \ {Foremost(s)}] = g[s \ {Foremost(s)}]
        BY <2>4, <3>1
      <3>4. QED BY <3>1, <3>2, <3>3 DEF Adds
    <2>6. Running(0, e) = h[R]
      BY <2>2, <2>5, RunningIsOne
    <2>7. h[R] = g[R]
      BY <2>4
    <2>8. QED BY <2>1, <2>3, <2>6, <2>7 DEF Net
  <1>9. QED BY <1>1, <1>6, <1>7, <1>8

\* One term changes, and the total by as much.
LEMMA NetMoves ==
    ASSUME NEW S, IsFiniteSet(S), NEW v, NEW w, \A x \in S : v[x] \in Int /\ w[x] \in Int,
           NEW y \in S, \A x \in S : x # y => v[x] = w[x]
    PROVE  Net(w, S) - Net(v, S) = w[y] - v[y]
  <1>1. /\ Net(w, S) = w[y] + Net(w, S \ {y}) /\ Net(w, S \ {y}) \in Int
        /\ Net(v, S) = v[y] + Net(v, S \ {y}) /\ Net(v, S \ {y}) \in Int
    BY NetWithout
  <1>2. [x \in S \ {y} |-> w[x]] = [x \in S \ {y} |-> v[x]]
    OBVIOUS
  <1>3. Net(w, S \ {y}) = Net(v, S \ {y})
    BY <1>2 DEF Net
  <1>4. v[y] \in Int /\ w[y] \in Int
    OBVIOUS
  <1>5. QED BY <1>1, <1>3, <1>4

LEMMA NetOfNothing ==
    ASSUME NEW S, IsFiniteSet(S), NEW w, \A x \in S : w[x] = 0
    PROVE  Net(w, S) = 0
  <1>1. PICK T : T = {s \in SUBSET S : Net(w, s) = 0}
    OBVIOUS
  <1>2. ASSUME NEW s \in SUBSET S, \A x \in s : s \ {x} \in T PROVE s \in T
    <2>1. CASE s = {}
      BY <1>1, <2>1, NetOfNone
    <2>2. CASE s # {}
      <3>1. PICK x \in s : TRUE
        BY <2>2
      <3>2. IsFiniteSet(s) /\ \A y \in s : w[y] \in Int
        BY FS_Subset
      <3>3. Net(w, s) = w[x] + Net(w, s \ {x})
        BY <3>1, <3>2, NetWithout
      <3>4. Net(w, s \ {x}) = 0 /\ w[x] = 0
        BY <1>1, <1>2, <3>1
      <3>5. QED BY <1>1, <3>3, <3>4
    <2>3. QED BY <2>1, <2>2
  <1>3. Inductive(S, T)
    BY <1>2 DEF Inductive
  <1>4. SUBSET S \subseteq T
    BY <1>3, UpBySize
  <1>5. QED BY <1>1, <1>4

\* The total over everything is the total of the totals by owner.
LEMMA NetByOwner ==
    ASSUME NEW S, IsFiniteSet(S), NEW w, \A x \in S : w[x] \in Int,
           NEW P, IsFiniteSet(P), NEW owner, \A x \in S : owner[x] \in P
    PROVE  Net(w, S) = Net([p \in P |-> Net(w, {x \in S : owner[x] = p})], P)
  <1> DEFINE Of(s, p) == {x \in s : owner[x] = p}
             Each(s) == [p \in P |-> Net(w, Of(s, p))]
  <1>1. PICK T : T = {s \in SUBSET S : Net(w, s) = Net(Each(s), P)}
    OBVIOUS
  <1>2. ASSUME NEW s \in SUBSET S, NEW p PROVE IsFiniteSet(Of(s, p)) /\ Net(w, Of(s, p)) \in Int
    <2>1. PICK q : q = Of(s, p)
      OBVIOUS
    <2>2. q \in SUBSET S /\ IsFiniteSet(q) /\ \A x \in q : w[x] \in Int
      BY <2>1, FS_Subset
    <2>3. Net(w, q) \in Int
      <3>1. CASE q = {}
        BY <3>1, NetOfNone
      <3>2. CASE q # {}
        BY <2>2, <3>2, NetWithout
      <3>3. QED BY <3>1, <3>2
    <2>4. QED BY <2>1, <2>2, <2>3
  <1>3. ASSUME NEW s \in SUBSET S, \A x \in s : s \ {x} \in T PROVE s \in T
    <2>1. CASE s = {}
      <3>1. PICK v : v = Each({})
        OBVIOUS
      <3>2. \A p \in P : v[p] = 0
        <4>1. \A p \in P : Of({}, p) = {}
          OBVIOUS
        <4>2. QED BY <3>1, <4>1, NetOfNone
      <3>3. Net(v, P) = 0
        BY <3>2, NetOfNothing
      <3>4. QED BY <1>1, <2>1, <3>1, <3>3, NetOfNone
    <2>2. CASE s # {}
      <3>1. PICK y \in s : TRUE
        BY <2>2
      <3>2. PICK r \in SUBSET S : r = s \ {y}
        OBVIOUS
      <3>3. IsFiniteSet(s) /\ \A x \in s : w[x] \in Int
        BY FS_Subset
      <3>4. /\ Net(w, s) = w[y] + Net(w, r) /\ Net(w, r) \in Int /\ w[y] \in Int
            /\ Net(w, r) = Net(Each(r), P)
        BY <1>1, <1>3, <3>1, <3>2, <3>3, NetWithout
      <3>5. PICK v : v = Each(r)
        OBVIOUS
      <3>6. PICK u : u = Each(s)
        OBVIOUS
      <3>7. PICK q \in P : q = owner[y]
        OBVIOUS
      <3>8. \A p \in P : v[p] = Net(w, Of(r, p)) /\ v[p] \in Int
        BY <1>2, <3>5
      <3>9. \A p \in P : u[p] = Net(w, Of(s, p)) /\ u[p] \in Int
        BY <1>2, <3>6
      <3>10. ASSUME NEW p \in P, p # q PROVE v[p] = u[p]
        <4>1. Of(r, p) = Of(s, p)
          BY <3>2, <3>7, <3>10
        <4>2. QED BY <3>8, <3>9, <4>1
      <3>11. u[q] = w[y] + v[q]
        <4>1. PICK m : m = Of(s, q)
          OBVIOUS
        <4>2. m \in SUBSET S /\ IsFiniteSet(m) /\ y \in m /\ Of(r, q) = m \ {y}
          BY <1>2, <3>2, <3>7, <4>1
        <4>3. Net(w, m) = w[y] + Net(w, m \ {y})
          BY <4>2, NetWithout
        <4>4. QED BY <3>8, <3>9, <4>1, <4>2, <4>3
      <3>12. Net(u, P) - Net(v, P) = u[q] - v[q]
        <4>1. \A p \in P : v[p] \in Int /\ u[p] \in Int
          BY <3>8, <3>9
        <4>2. \A p \in P : p # q => v[p] = u[p]
          BY <3>10
        <4>3. QED BY <4>1, <4>2, NetMoves
      <3>13. Net(u, P) \in Int /\ Net(v, P) \in Int
        BY <3>8, <3>9, <3>7, NetWithout
      <3>14. v[q] \in Int
        BY <3>8
      <3>15. Net(u, P) = Net(w, s)
        BY <3>4, <3>5, <3>11, <3>12, <3>13, <3>14
      <3>16. QED BY <1>1, <3>6, <3>15
    <2>3. QED BY <2>1, <2>2
  <1>4. SUBSET S \subseteq T
    <2>1. Inductive(S, T)
      BY <1>3 DEF Inductive
    <2>2. QED BY <2>1, UpBySize
  <1>5. QED BY <1>1, <1>4

-----------------------------------------------------------------------------
(* What no prefix overdraws                                                *)

UpTo(O, n) == {o \in O : o <= n}

\* One after the other, the orders of O never sell what is not there.
Covered(w, O) == \A n \in Nat : Net(w, UpTo(O, n)) >= 0

\* A total of an initial part.
LEMMA NetOfPart ==
    ASSUME NEW O \in SUBSET Nat, IsFiniteSet(O), NEW w, \A o \in O : w[o] \in Int, NEW n \in Nat
    PROVE  /\ UpTo(O, n) \in SUBSET O /\ IsFiniteSet(UpTo(O, n)) /\ Net(w, UpTo(O, n)) \in Int
           /\ Net(w, O) \in Int
           /\ \A x \in O : Net(w, UpTo(O, n)) = Net(w, UpTo(O \ {x}, n)) +
                                                (IF x <= n THEN w[x] ELSE 0)
  <1>1. PICK q \in SUBSET O : q = UpTo(O, n)
    BY DEF UpTo
  <1>2. IsFiniteSet(q) /\ \A o \in q : w[o] \in Int
    BY <1>1, FS_Subset
  <1>3. ASSUME NEW s \in SUBSET O PROVE Net(w, s) \in Int
    <2>1. CASE s = {}
      BY <2>1, NetOfNone
    <2>2. CASE s # {}
      <3>1. IsFiniteSet(s) /\ \A o \in s : w[o] \in Int
        BY FS_Subset
      <3>2. QED BY <2>2, <3>1, NetWithout
    <2>3. QED BY <2>1, <2>2
  <1>4. ASSUME NEW x \in O
        PROVE  Net(w, q) = Net(w, UpTo(O \ {x}, n)) + (IF x <= n THEN w[x] ELSE 0)
    <2>1. CASE x <= n
      <3>1. x \in q /\ UpTo(O \ {x}, n) = q \ {x}
        BY <1>1, <2>1 DEF UpTo
      <3>2. Net(w, q) = w[x] + Net(w, q \ {x}) /\ Net(w, q \ {x}) \in Int
        BY <1>2, <3>1, NetWithout
      <3>3. QED BY <2>1, <3>1, <3>2
    <2>2. CASE ~(x <= n)
      <3>1. UpTo(O \ {x}, n) = q
        BY <1>1, <2>2 DEF UpTo
      <3>2. QED BY <1>3, <2>2, <3>1
    <2>3. QED BY <2>1, <2>2
  <1>5. QED BY <1>1, <1>2, <1>3, <1>4

\* A sale that falls away leaves the others covered, and no less in the end.
LEMMA CoveredWithout ==
    ASSUME NEW O \in SUBSET Nat, IsFiniteSet(O), NEW w, \A o \in O : w[o] \in Int,
           Covered(w, O), NEW x \in O, w[x] <= 0
    PROVE  Covered(w, O \ {x}) /\ Net(w, O \ {x}) >= Net(w, O)
  <1>1. ASSUME NEW n \in Nat PROVE Net(w, UpTo(O \ {x}, n)) >= 0
    <2>1. O \ {x} \in SUBSET Nat /\ IsFiniteSet(O \ {x})
      BY FS_Subset
    <2>2. Net(w, UpTo(O \ {x}, n)) \in Int
      BY <2>1, NetOfPart
    <2>3. Net(w, UpTo(O, n)) = Net(w, UpTo(O \ {x}, n)) + (IF x <= n THEN w[x] ELSE 0)
      BY NetOfPart
    <2>4. Net(w, UpTo(O, n)) >= 0 /\ Net(w, UpTo(O, n)) \in Int
      BY NetOfPart DEF Covered
    <2>5. w[x] \in Int
      OBVIOUS
    <2>6. QED BY <2>2, <2>3, <2>4, <2>5
  <1>2. Net(w, O) = w[x] + Net(w, O \ {x}) /\ Net(w, O \ {x}) \in Int /\ w[x] \in Int
    BY NetWithout
  <1>3. QED BY <1>1, <1>2 DEF Covered

\* A purchase, or a sale of what there is, may follow.
LEMMA CoveredAfter ==
    ASSUME NEW O \in SUBSET Nat, IsFiniteSet(O), NEW w, \A o \in O : w[o] \in Int,
           Covered(w, O), NEW x \in Nat, w[x] \in Int, \A o \in O : o < x,
           Net(w, O) + w[x] >= 0
    PROVE  Covered(w, O \cup {x})
  <1>1. PICK Q : Q = O \cup {x}
    OBVIOUS
  <1>2. /\ Q \in SUBSET Nat /\ IsFiniteSet(Q) /\ x \in Q /\ Q \ {x} = O
        /\ \A o \in Q : w[o] \in Int
    BY <1>1, FS_AddElement
  <1>3. ASSUME NEW n \in Nat PROVE Net(w, UpTo(Q, n)) >= 0
    <2>1. Net(w, UpTo(Q, n)) = Net(w, UpTo(O, n)) + (IF x <= n THEN w[x] ELSE 0)
      BY <1>2, NetOfPart
    <2>2. Net(w, UpTo(O, n)) \in Int /\ Net(w, UpTo(O, n)) >= 0 /\ Net(w, O) \in Int
      BY NetOfPart DEF Covered
    <2>3. CASE x <= n
      <3>1. UpTo(O, n) = O
        <4>1. \A o \in O : o \in Nat /\ o < x
          OBVIOUS
        <4>2. \A o \in O : o <= n
          BY <2>3, <4>1
        <4>3. QED BY <4>2 DEF UpTo
      <3>2. QED BY <2>1, <2>2, <2>3, <3>1
    <2>4. CASE ~(x <= n)
      BY <2>1, <2>2, <2>4
    <2>5. QED BY <2>3, <2>4
  <1>4. QED BY <1>1, <1>3 DEF Covered

-----------------------------------------------------------------------------
(* The balance                                                             *)

LEMMA Multiples ==
    /\ Lot * 0 = 0
    /\ \A k \in Int : Lot * k \in Int /\ Lot * (k + 1) = Lot * k + Lot
                                      /\ Lot * (k - 1) = Lot * k - Lot
    /\ \A k \in Nat : k > 1 => Lot * k > Lot
    /\ \A k \in Int : Lot * k >= 0 => k >= 0
  <1>1. PICK n \in Nat : n = Lot /\ n > 0
    BY Sizes
  <1>2. \A k \in Int : n * k \in Int /\ n * (k + 1) = n * k + n /\ n * (k - 1) = n * k - n
    BY <1>1, SMT
  <1>3. \A k \in Nat : k > 1 => n * k > n
    BY <1>1, SMT
  <1>4. \A k \in Int : n * k >= 0 => k >= 0
    BY <1>1, SMT
  <1>5. n * 0 = 0
    BY <1>1, SMT
  <1>6. QED BY <1>1, <1>2, <1>3, <1>4, <1>5

Worth == [o \in Orders |-> Signed(o) * Lot]

LEMMA WorthIs ==
    ASSUME BookInv, NEW o \in Orders
    PROVE  /\ Worth[o] = (IF book[o].side = "buy" THEN Lot ELSE -Lot)
           /\ Worth[o] \in Int
  <1>1. Worth[o] = Signed(o) * Lot
    BY DEF Worth
  <1>2. Lot \in Int /\ 1 * Lot = Lot /\ (-1) * Lot = -Lot
    BY Sizes
  <1>3. QED BY <1>1, <1>2 DEF Signed

\* Where no prefix is overdrawn, the balance is the plain total, and a
\* multiple of the order size.
LEMMA BalanceIsNet ==
    ASSUME BookInv, NEW S \in SUBSET Orders, Covered(Worth, S)
    PROVE  Balance(S) = Net(Worth, S) /\ \E k \in Nat : Net(Worth, S) = Lot * k
  <1> DEFINE Next2(f, o) == IF o = 0 THEN 0
                            ELSE IF o \notin S THEN f[o - 1]
                            ELSE IF book[o].side = "buy" THEN f[o - 1] + Lot
                            ELSE IF f[o - 1] > Lot THEN f[o - 1] - Lot ELSE 0
             Chosen == CHOOSE f : f = [o \in 0..Len(book) |-> Next2(f, o)]
  <1>1. Balance(S) = Chosen[Len(book)]
    BY DEF Balance
  <1> HIDE DEF Chosen
  <1>2. PICK n \in Nat : n = Len(book) /\ Orders = 1..n
    BY LenProperties DEF BookInv, Orders
  <1>3. S \in SUBSET Nat /\ IsFiniteSet(S) /\ \A o \in S : Worth[o] \in Int
    <2>1. IsFiniteSet(1..n)
      BY FS_Interval
    <2>2. S \subseteq 1..n
      BY <1>2
    <2>3. IsFiniteSet(S)
      BY <2>1, <2>2, FS_Subset
    <2>4. \A o \in S : Worth[o] \in Int
      BY WorthIs
    <2>5. QED BY <2>2, <2>3, <2>4
  <1>s. \A o \in S : o \in 1..n
    BY <1>2
  <1>4. PICK f : f = [o \in 0..n |-> Net(Worth, UpTo(S, o))]
    OBVIOUS
  <1>5. \A o \in 0..n : f[o] \in Int /\ f[o] >= 0
    <2>1. ASSUME NEW o \in 0..n
          PROVE  Net(Worth, UpTo(S, o)) \in Int /\ Net(Worth, UpTo(S, o)) >= 0
      <3>1. o \in Nat
        OBVIOUS
      <3>2. Net(Worth, UpTo(S, o)) \in Int
        BY <1>3, <3>1, NetOfPart
      <3>3. QED BY <3>1, <3>2 DEF Covered
    <2>2. QED BY <1>4, <2>1
  <1>6. f[0] = 0
    <2>1. UpTo(S, 0) = {}
      BY <1>s DEF UpTo
    <2>2. QED BY <1>2, <1>4, <2>1, NetOfNone
  <1>7. ASSUME NEW o \in 1..n
        PROVE  /\ o \notin S => f[o] = f[o - 1]
               /\ o \in S => f[o] = f[o - 1] + Worth[o]
    <2>1. o - 1 \in 0..n /\ o \in 0..n
      OBVIOUS
    <2>2. CASE o \notin S
      <3>1. UpTo(S, o) = UpTo(S, o - 1)
        <4>1. \A x \in S : x \in Nat /\ x # o
          BY <1>3, <2>2
        <4>2. \A x \in S : x <= o <=> x <= o - 1
          BY <4>1
        <4>3. QED BY <4>2 DEF UpTo
      <3>2. QED BY <1>4, <2>1, <2>2, <3>1
    <2>3. CASE o \in S
      <3>1. UpTo(S \ {o}, o) = UpTo(S, o - 1)
        <4>1. \A x \in S : x \in Nat
          BY <1>3
        <4>2. \A x \in S : (x # o /\ x <= o) <=> x <= o - 1
          BY <4>1
        <4>3. QED BY <4>2 DEF UpTo
      <3>2. Net(Worth, UpTo(S, o)) = Net(Worth, UpTo(S \ {o}, o)) + Worth[o]
        BY <1>3, <2>3, NetOfPart
      <3>3. QED BY <1>4, <2>1, <2>3, <3>1, <3>2
    <2>4. QED BY <2>2, <2>3
  <1>8. PICK M : M = {o \in Nat : o <= n => \E k \in Nat : f[o] = Lot * k}
    OBVIOUS
  <1>9. Nat \subseteq M
    <2>1. 0 \in M
      BY <1>6, <1>8, Multiples
    <2>2. ASSUME NEW o \in Nat, o \in M PROVE o + 1 \in M
      <3>1. SUFFICES ASSUME o + 1 <= n PROVE \E k \in Nat : f[o + 1] = Lot * k
        BY <1>8
      <3>2. PICK k \in Nat : f[o] = Lot * k
        BY <1>8, <2>2, <3>1
      <3>3. o + 1 \in 1..n /\ o + 1 \in 0..n /\ (o + 1) - 1 = o
        BY <3>1
      <3>4. f[o + 1] = f[o] \/ f[o + 1] = f[o] + Lot \/ f[o + 1] = f[o] - Lot
        <4>1. o + 1 \in S => Worth[o + 1] = Lot \/ Worth[o + 1] = -Lot
          BY <1>2, <3>3, WorthIs
        <4>2. f[o] \in Int /\ Lot \in Int
          BY <1>5, <3>1, Sizes
        <4>3. QED BY <1>7, <3>3, <4>1, <4>2
      <3>5. f[o + 1] = Lot * k \/ f[o + 1] = Lot * (k + 1) \/ f[o + 1] = Lot * (k - 1)
        BY <3>2, <3>4, Multiples
      <3>6. f[o + 1] >= 0
        BY <1>5, <3>3
      <3>7. CASE f[o + 1] = Lot * (k - 1)
        <4>1. k - 1 \in Int
          OBVIOUS
        <4>2. k - 1 \in Nat
          BY <3>6, <3>7, <4>1, Multiples
        <4>3. QED BY <3>7, <4>2
      <3>8. k + 1 \in Nat
        OBVIOUS
      <3>9. QED BY <3>5, <3>7, <3>8
    <2>3. QED BY <2>1, <2>2, UpThroughNat
  <1>10. ASSUME NEW o \in 1..n PROVE f[o] = Next2(f, o)
    <2>1. o - 1 \in 0..n /\ o \in 0..n /\ o # 0 /\ o \in Orders
      BY <1>2
    <2>2. CASE o \notin S
      BY <1>7, <2>1, <2>2
    <2>3. CASE o \in S /\ book[o].side = "buy"
      <3>1. f[o] = f[o - 1] + Lot
        BY <1>7, <2>1, <2>3, WorthIs
      <3>2. QED BY <2>1, <2>3, <3>1
    <2>4. CASE o \in S /\ book[o].side # "buy"
      <3>1. f[o - 1] \in Int /\ f[o] \in Int /\ f[o] >= 0 /\ Lot \in Int
        BY <1>5, <2>1, Sizes
      <3>2. f[o] = f[o - 1] - Lot
        BY <1>7, <2>1, <2>4, <3>1, WorthIs
      <3>3. QED BY <2>1, <2>4, <3>1, <3>2
    <2>5. QED BY <2>2, <2>3, <2>4
  <1>11. f = [o \in 0..n |-> Next2(f, o)]
    <2>1. ASSUME NEW o \in 0..n PROVE f[o] = Next2(f, o)
      <3>1. CASE o = 0
        BY <1>6, <3>1
      <3>2. CASE o # 0
        <4>1. o \in 1..n
          BY <3>2
        <4>2. QED BY <1>10, <4>1
      <3>3. QED BY <3>1, <3>2
    <2>2. f = [o \in 0..n |-> f[o]]
      BY <1>4
    <2> HIDE DEF Next2
    <2>3. QED BY <2>1, <2>2
  <1>12. Chosen = [o \in 0..n |-> Next2(Chosen, o)]
    BY <1>2, <1>11 DEF Chosen
  <1>13. PICK E : E = {o \in Nat : o <= n => Chosen[o] = f[o]}
    OBVIOUS
  <1>14. Nat \subseteq E
    <2>1. 0 \in E
      BY <1>6, <1>12, <1>13
    <2>2. ASSUME NEW o \in Nat, o \in E PROVE o + 1 \in E
      <3>1. SUFFICES ASSUME o + 1 <= n PROVE Chosen[o + 1] = f[o + 1]
        BY <1>13
      <3>2. o + 1 \in 1..n /\ o + 1 \in 0..n /\ (o + 1) - 1 = o /\ o + 1 # 0
        BY <3>1
      <3>3. Chosen[o] = f[o]
        BY <1>13, <2>2, <3>1
      <3>4. Chosen[o + 1] = Next2(Chosen, o + 1)
        BY <1>12, <3>2
      <3>5. f[o + 1] = Next2(f, o + 1)
        BY <1>10, <3>2
      <3>6. QED BY <3>2, <3>3, <3>4, <3>5
    <2>3. QED BY <2>1, <2>2, UpThroughNat
  <1>15. UpTo(S, n) = S
    BY <1>s DEF UpTo
  <1>16. n \in 0..n /\ f[n] = Net(Worth, S)
    BY <1>4, <1>15
  <1>17. Chosen[n] = f[n]
    BY <1>13, <1>14
  <1>18. \E k \in Nat : f[n] = Lot * k
    BY <1>8, <1>9
  <1>19. QED BY <1>1, <1>2, <1>16, <1>17, <1>18

\* The total of everything is one of the prefixes'.
LEMMA CoveredInAll ==
    ASSUME BookInv, NEW S \in SUBSET Orders, Covered(Worth, S)
    PROVE  /\ S \in SUBSET Nat /\ IsFiniteSet(S) /\ \A o \in S : Worth[o] \in Int
           /\ Net(Worth, S) >= 0 /\ Net(Worth, S) \in Int
  <1>1. PICK n \in Nat : n = Len(book) /\ Orders = 1..n
    BY LenProperties DEF BookInv, Orders
  <1>2. IsFiniteSet(1..n)
    BY FS_Interval
  <1>s. S \subseteq 1..n
    BY <1>1
  <1>i. \A o \in S : o \in 1..n
    BY <1>s
  <1>f. IsFiniteSet(S)
    BY <1>2, <1>s, FS_Subset
  <1>3. S \in SUBSET Nat /\ IsFiniteSet(S)
    BY <1>i, <1>f
  <1>4. \A o \in S : Worth[o] \in Int
    BY WorthIs
  <1>5. UpTo(S, n) = S
    BY <1>i DEF UpTo
  <1>6. Net(Worth, S) >= 0
    BY <1>5 DEF Covered
  <1>7. Net(Worth, S) \in Int
    BY <1>3, <1>4, NetOfPart
  <1>8. QED BY <1>3, <1>4, <1>6, <1>7

-----------------------------------------------------------------------------
(* The ledgers                                                             *)

\* The orders that move the ledger of s.
Standing(s, sym) == {o \in OfSymbol(All, sym) :
                        book[o].by = s /\ LastRow(All, o).status \in PositionAffecting}

\* What LedgersAgree supposes; once false, it stays so.
Trusted == AllKnown /\ PurchasesCame

\* A strategy between its order and the row: it comes after all that are on
\* record, and a sale is of what there still is.
RecordFits(s, me) ==
    me.at = "record" =>
        /\ me.order \in Orders /\ book[me.order].by = s /\ me.order \notin Recorded(All)
        /\ \A o \in Recorded(All) : book[o].by = s => o < me.order
        /\ Trusted /\ book[me.order].side = "sell" =>
               Net(Worth, Standing(s, book[me.order].sym)) >= Lot

\* A sync writes its rows about orders on record, and calls them over.
SyncFits(me) ==
    me.at = "lookup" =>
        /\ me.todo \subseteq Recorded(All)
        /\ \A i \in 1..Len(me.rows) : /\ me.rows[i].order \in Recorded(All)
                                      /\ me.rows[i].status \in {"filled", "cancelled"}

HandFits(p, me) == SyncFits(me) /\ (p \in Runners => RecordFits(p, me))

\* No ledger is overdrawn by any of its beginnings.
AllCovered == Trusted => \A s \in Runners, sym \in Symbols : Covered(Worth, Standing(s, sym))

LedgerInv == AllCovered /\ \A p \in Parties : HandFits(p, pass[p])

LEMMA StandingOrders ==
    ASSUME NEW s, NEW sym
    PROVE  Standing(s, sym) \in SUBSET Orders /\ Standing(s, sym) \subseteq Recorded(All)
  BY DEF Standing, OfSymbol, Recorded

\* What a step may do to the orders: they stay, and there may be more.
SameOrders == /\ Orders \subseteq Orders'
              /\ \A o \in Orders : /\ book'[o].sym = book[o].sym
                                   /\ book'[o].side = book[o].side
                                   /\ book'[o].by = book[o].by

LEMMA WorthStays ==
    ASSUME SameOrders, NEW S \in SUBSET Orders
    PROVE  /\ Net(Worth', S) = Net(Worth, S)
           /\ Covered(Worth, S) => Covered(Worth', S)
  <1>1. \A o \in Orders : Worth'[o] = Worth[o]
    BY DEF SameOrders, Worth, Signed
  <1>2. ASSUME NEW R \in SUBSET S PROVE Net(Worth', R) = Net(Worth, R)
    <2>1. [o \in R |-> Worth'[o]] = [o \in R |-> Worth[o]]
      BY <1>1
    <2>2. QED BY <2>1 DEF Net
  <1>3. \A n \in Nat : UpTo(S, n) \in SUBSET S
    BY DEF UpTo
  <1>4. QED BY <1>2, <1>3 DEF Covered

\* The ledger's orders stay, or a sale falls away.
Shrinks(old, new) == new = old \/ \E o \in old : Worth[o] <= 0 /\ new = old \ {o}

LEMMA ShrinkingKeeps ==
    ASSUME BookInv, SameOrders, NEW old \in SUBSET Orders, NEW new, Shrinks(old, new),
           Covered(Worth, old)
    PROVE  /\ Covered(Worth', new) /\ Net(Worth', new) >= Net(Worth, old)
           /\ Net(Worth', new) \in Int /\ Net(Worth, old) \in Int
  <1>1. /\ old \in SUBSET Nat /\ IsFiniteSet(old) /\ \A o \in old : Worth[o] \in Int
        /\ Net(Worth, old) \in Int
    BY CoveredInAll
  <1>2. Covered(Worth, new) /\ Net(Worth, new) >= Net(Worth, old)
    <2>1. CASE new = old
      BY <1>1, <2>1
    <2>2. CASE new # old
      <3>1. PICK o \in old : Worth[o] <= 0 /\ new = old \ {o}
        BY <2>2 DEF Shrinks
      <3>2. QED BY <1>1, <3>1, CoveredWithout
    <2>3. QED BY <2>1, <2>2
  <1>3. new \in SUBSET Orders
    BY DEF Shrinks
  <1>4. Net(Worth, new) \in Int
    BY <1>2, <1>3, CoveredInAll
  <1>5. QED BY <1>1, <1>2, <1>3, <1>4, WorthStays

\* A step that puts no order on record, and takes at most sales from ledgers.
Steady == /\ SameOrders
          /\ Recorded(All)' = Recorded(All)
          /\ Trusted' => Trusted
          /\ Trusted' => \A s \in Runners, sym \in Symbols :
                             Shrinks(Standing(s, sym), Standing(s, sym)')

LEMMA SteadyKeeps ==
    ASSUME AgreeInv, LedgerInv, Steady
    PROVE  /\ AllCovered'
           /\ \A p : \A me : HandFits(p, me) => HandFits(p, me)'
  <1>1. BookInv /\ SameOrders
    BY DEF AgreeInv, Steady
  <1>2. ASSUME Trusted', NEW s \in Runners, NEW sym \in Symbols
        PROVE  /\ Covered(Worth, Standing(s, sym))'
               /\ Net(Worth, Standing(s, sym))' >= Net(Worth, Standing(s, sym))
               /\ Net(Worth, Standing(s, sym))' \in Int /\ Net(Worth, Standing(s, sym)) \in Int
    <2>1. PICK old \in SUBSET Orders : old = Standing(s, sym)
      BY StandingOrders
    <2>2. PICK new : new = Standing(s, sym)'
      OBVIOUS
    <2>3. Covered(Worth, old) /\ Shrinks(old, new)
      BY <1>2, <2>1, <2>2 DEF Steady, LedgerInv, AllCovered
    <2>4. /\ Covered(Worth', new) /\ Net(Worth', new) >= Net(Worth, old)
          /\ Net(Worth', new) \in Int /\ Net(Worth, old) \in Int
      BY <1>1, <2>3, ShrinkingKeeps
    <2>5. QED BY <2>1, <2>2, <2>4 DEF Covered, Net
  <1>3. AllCovered'
    BY <1>2 DEF AllCovered
  <1>4. ASSUME NEW p \in Runners, NEW me, RecordFits(p, me) PROVE RecordFits(p, me)'
    <2>1. SUFFICES ASSUME me.at = "record" PROVE RecordFits(p, me)'
      BY DEF RecordFits
    <2>2. PICK o : o = me.order
      OBVIOUS
    <2>3. /\ o \in Orders /\ book[o].by = p /\ o \notin Recorded(All)
          /\ \A x \in Recorded(All) : book[x].by = p => x < o
          /\ Trusted /\ book[o].side = "sell" => Net(Worth, Standing(p, book[o].sym)) >= Lot
      BY <1>4, <2>1, <2>2 DEF RecordFits
    <2>4. PICK y \in Symbols : y = book[o].sym
      <3>1. book[o] \in OrderRecords
        BY <1>1, <2>3, ElementOfSeq DEF BookInv, Orders
      <3>2. QED BY <3>1 DEF OrderRecords
    <2>5. /\ o \in Orders' /\ book'[o].by = p /\ o \notin Recorded(All)'
          /\ book'[o].side = book[o].side /\ book'[o].sym = y
      BY <1>1, <2>3, <2>4 DEF SameOrders, Steady
    <2>6. ASSUME NEW x \in Recorded(All)', book'[x].by = p PROVE x < o
      <3>1. x \in Recorded(All) /\ x \in Orders
        BY <2>6 DEF Steady, Recorded
      <3>2. book[x].by = p
        BY <1>1, <2>6, <3>1 DEF SameOrders
      <3>3. QED BY <2>3, <3>1, <3>2
    <2>7. ASSUME Trusted', book'[o].side = "sell"
          PROVE  Net(Worth, Standing(p, y))' >= Lot
      <3>1. Net(Worth, Standing(p, y)) >= Lot
        BY <2>3, <2>4, <2>5, <2>7 DEF Steady
      <3>2. Net(Worth, Standing(p, y))' >= Net(Worth, Standing(p, y))
        BY <1>2, <2>7
      <3>3. Net(Worth, Standing(p, y))' \in Int /\ Net(Worth, Standing(p, y)) \in Int /\ Lot \in Int
        BY <1>2, <2>7, Sizes
      <3>4. QED BY <3>1, <3>2, <3>3
    <2>8. QED BY <2>2, <2>5, <2>6, <2>7 DEF RecordFits
  <1>5. ASSUME NEW me, SyncFits(me) PROVE SyncFits(me)'
    BY <1>5 DEF SyncFits, Steady
  <1>6. QED BY <1>3, <1>4, <1>5 DEF HandFits

-----------------------------------------------------------------------------
(* A new row                                                               *)

LEMMA GreatestIsLast ==
    ASSUME NEW n \in Nat, NEW S \in SUBSET (1..n), n \in S
    PROVE  Max(S) = n
  <1>i. \A x \in S : x \in 1..n
    OBVIOUS
  <1>m. Max(S) \in S
    <2>1. S # {}
      OBVIOUS
    <2>2. QED BY <2>1, GreatestOf
  <1>1. \A x \in S : x \in Nat /\ x <= n
    BY <1>i
  <1>2. \A x \in S : Max(S) >= x
    <2>1. n \in S /\ \A x \in S : n >= x
      BY <1>1
    <2>2. QED BY <2>1 DEF Max
  <1>3. Max(S) >= n /\ Max(S) <= n /\ Max(S) \in Nat
    BY <1>m, <1>1, <1>2
  <1>4. QED BY <1>3

LEMMA RowAdded ==
    ASSUME LogInv, NEW r, log' = Append(log, r), UNCHANGED book,
           IsTrade(r) => r.order \in Orders
    PROVE  /\ IsTrade(r) => /\ Recorded(All)' = Recorded(All) \cup {r.order}
                            /\ LastRow(All, r.order)' = r
           /\ ~IsTrade(r) => Recorded(All)' = Recorded(All)
           /\ \A o \in Recorded(All) : ~(IsTrade(r) /\ r.order = o) =>
                  LastRow(All, o)' = LastRow(All, o)
           /\ AllKnown' => AllKnown /\ (IsTrade(r) => r.known)
  <1>1. PICK n \in Nat : n = Len(log) /\ All = 1..n
    BY Rows
  <1>2. /\ Len(log') = n + 1 /\ log'[n + 1] = r
        /\ \A i \in 1..n : log'[i] = log[i]
        /\ All' = 1..(n + 1) /\ All' = DOMAIN log'
    <2>1. PICK S : log \in Seq(S)
      BY DEF LogInv
    <2>2. PICK T : T = S \cup {r}
      OBVIOUS
    <2>3. log \in Seq(T) /\ r \in T
      BY <2>1, <2>2, SeqMonotonic
    <2>4. /\ log' \in Seq(T) /\ Len(log') = n + 1 /\ log'[n + 1] = r
          /\ \A i \in 1..n : log'[i] = log[i]
      BY <1>1, <2>3, AppendProperties
    <2>5. DOMAIN log' = 1..(n + 1)
      BY <2>4, LenProperties
    <2>6. QED BY <2>4, <2>5 DEF All
  <1>3. Orders' = Orders
    BY DEF Orders
  <1>4. ASSUME NEW o PROVE RowsOf(All, o)' = RowsOf(All, o) \cup
                              (IF IsTrade(r) /\ r.order = o THEN {n + 1} ELSE {})
    <2>1. RowsOf(All, o) = {i \in 1..n : IsTrade(log[i]) /\ log[i].order = o}
      BY <1>1 DEF RowsOf
    <2>2. RowsOf(All, o)' = {i \in 1..(n + 1) : IsTrade(log'[i]) /\ log'[i].order = o}
      BY <1>2 DEF RowsOf, IsTrade
    <2>3. \A i \in 1..(n + 1) : i \in 1..n \/ i = n + 1
      OBVIOUS
    <2>4. 1..n \subseteq 1..(n + 1) /\ n + 1 \in 1..(n + 1) /\ n + 1 \notin 1..n
      OBVIOUS
    <2>5. QED BY <1>2, <2>1, <2>2, <2>3, <2>4
  <1>5. \A o : o \in Recorded(All) <=> o \in Orders /\ RowsOf(All, o) # {}
    BY DEF Recorded
  <1>6. \A o : o \in Recorded(All)' <=> o \in Orders /\ RowsOf(All, o)' # {}
    BY <1>3 DEF Recorded
  <1>7. ASSUME IsTrade(r)
        PROVE  Recorded(All)' = Recorded(All) \cup {r.order} /\ LastRow(All, r.order)' = r
    <2>1. PICK R : R = RowsOf(All, r.order)'
      OBVIOUS
    <2>2. R \in SUBSET (1..(n + 1)) /\ n + 1 \in R
      BY <1>2, <1>4, <1>7, <2>1 DEF RowsOf
    <2>3. Max(R) = n + 1
      BY <2>2, GreatestIsLast
    <2>4. LastRow(All, r.order)' = r
      BY <1>2, <2>1, <2>3 DEF LastRow
    <2>5. ASSUME NEW o PROVE o \in Recorded(All)' <=> o \in Recorded(All) \cup {r.order}
      BY <1>4, <1>5, <1>6, <1>7
    <2>6. QED BY <2>4, <2>5
  <1>8. ASSUME ~IsTrade(r) PROVE Recorded(All)' = Recorded(All)
    <2>1. ASSUME NEW o PROVE o \in Recorded(All)' <=> o \in Recorded(All)
      BY <1>4, <1>5, <1>6, <1>8
    <2>2. QED BY <2>1
  <1>9. ASSUME NEW o \in Recorded(All), ~(IsTrade(r) /\ r.order = o)
        PROVE  LastRow(All, o)' = LastRow(All, o)
    <2>1. PICK R : R = RowsOf(All, o)
      OBVIOUS
    <2>2. RowsOf(All, o)' = R
      BY <1>4, <1>9, <2>1
    <2>3. R \in SUBSET (1..n) /\ R # {}
      BY <1>1, <1>5, <1>9, <2>1 DEF RowsOf
    <2>4. Max(R) \in 1..n
      BY <2>3, GreatestOf
    <2>5. QED BY <1>2, <2>1, <2>2, <2>4 DEF LastRow
  <1>10. AllKnown' => AllKnown /\ (IsTrade(r) => r.known)
    <2>1. ASSUME AllKnown' PROVE AllKnown /\ (IsTrade(r) => r.known)
      <3>1. \A i \in 1..(n + 1) : IsTrade(log'[i]) => log'[i].known
        BY <1>2, <2>1 DEF AllKnown, IsTrade
      <3>2. \A i \in 1..n : IsTrade(log[i]) => log[i].known
        BY <1>2, <3>1
      <3>3. QED BY <1>1, <1>2, <3>1, <3>2 DEF AllKnown, All
    <2>2. QED BY <2>1
  <1>11. QED BY <1>7, <1>8, <1>9, <1>10

\* A row that is no trade, or that calls an order on record over.
Closing(r) == IsTrade(r) => /\ Truthful(r) /\ r.order \in Recorded(All)
                            /\ r.status \in {"filled", "cancelled"}

LEMMA ClosingIsSteady ==
    ASSUME AgreeInv, NEW r, Closing(r), log' = Append(log, r), UNCHANGED book
    PROVE  Steady
  <1>1. BookInv /\ LogInv
    BY DEF AgreeInv
  <1>2. SameOrders
    BY DEF SameOrders, Orders
  <1>3. IsTrade(r) => r.order \in Orders
    BY DEF Closing, Truthful
  <1>4. /\ IsTrade(r) => /\ Recorded(All)' = Recorded(All) \cup {r.order}
                         /\ LastRow(All, r.order)' = r
        /\ ~IsTrade(r) => Recorded(All)' = Recorded(All)
        /\ \A o \in Recorded(All) : ~(IsTrade(r) /\ r.order = o) =>
               LastRow(All, o)' = LastRow(All, o)
        /\ AllKnown' => AllKnown /\ (IsTrade(r) => r.known)
    BY <1>1, <1>3, RowAdded
  <1>5. Recorded(All)' = Recorded(All)
    BY <1>4 DEF Closing
  <1>6. Trusted' => Trusted /\ (IsTrade(r) => r.known)
    BY <1>4 DEF Trusted, PurchasesCame, Orders
  <1>7. ASSUME Trusted', NEW s \in Runners, NEW sym \in Symbols
        PROVE  Shrinks(Standing(s, sym), Standing(s, sym)')
    <2>1. PICK old \in SUBSET Orders : old = Standing(s, sym)
      BY StandingOrders
    <2>2. PICK new : new = Standing(s, sym)'
      OBVIOUS
    <2>3. \A o : o \in old <=> /\ o \in Recorded(All) /\ book[o].sym = sym /\ book[o].by = s
                               /\ LastRow(All, o).status \in PositionAffecting
      BY <2>1 DEF Standing, OfSymbol
    <2>4. \A o : o \in new <=> /\ o \in Recorded(All) /\ book[o].sym = sym /\ book[o].by = s
                               /\ LastRow(All, o)'.status \in PositionAffecting
      BY <1>5, <2>2 DEF Standing, OfSymbol
    <2>5. CASE ~IsTrade(r)
      <3>1. \A o : o \in new <=> o \in old
        BY <1>4, <2>3, <2>4, <2>5
      <3>2. QED BY <2>1, <2>2, <3>1 DEF Shrinks
    <2>6. CASE IsTrade(r)
      <3>1. PICK x \in Orders : /\ x = r.order /\ x \in Recorded(All)
                                /\ LastRow(All, x)' = r
        BY <1>3, <1>4, <2>6 DEF Closing
      <3>2. \A o : o # x => (o \in new <=> o \in old)
        BY <1>4, <2>3, <2>4, <3>1
      <3>3. CASE r.status = "filled"
        <4>1. PICK i \in 1..Len(log) : /\ IsTrade(log[i]) /\ log[i].order = x
                                       /\ LastRow(All, x) = log[i]
          BY <1>1, <3>1, LastIsARow
        <4>2. Truthful(log[i]) /\ log[i].known
          BY <1>1, <1>6, <1>7, <4>1, Rows DEF LogInv, Sound, Trusted, AllKnown
        <4>3. book[x].status = "filled"
          BY <1>6, <1>7, <2>6, <3>1, <3>3 DEF Closing, Truthful
        <4>4. log[i].status \in {"submitted", "filled"}
          BY <4>1, <4>2, <4>3 DEF Truthful, TradeRows
        <4>5. x \in new <=> x \in old
          BY <2>3, <2>4, <3>1, <3>3, <4>1, <4>4 DEF PositionAffecting
        <4>6. \A o : o \in new <=> o \in old
          BY <3>2, <4>5
        <4>7. QED BY <2>1, <2>2, <4>6 DEF Shrinks
      <3>4. CASE r.status = "cancelled"
        <4>1. x \notin new
          BY <2>4, <3>1, <3>4 DEF PositionAffecting
        <4>2. book[x].status = "cancelled"
          BY <1>6, <1>7, <2>6, <3>1, <3>4 DEF Closing, Truthful
        <4>3. book[x].side # "buy"
          BY <1>6, <1>7, <3>1, <4>2 DEF Trusted, PurchasesCame
        <4>4. Worth[x] <= 0
          BY <1>1, <3>1, <4>3, WorthIs, Sizes
        <4>5. CASE x \in old
          <5>1. new = old \ {x}
            BY <3>2, <4>1
          <5>2. QED BY <2>1, <2>2, <4>4, <4>5, <5>1 DEF Shrinks
        <4>6. CASE x \notin old
          <5>1. \A o : o \in new <=> o \in old
            BY <3>2, <4>1, <4>6
          <5>2. QED BY <2>1, <2>2, <5>1 DEF Shrinks
        <4>7. QED BY <4>5, <4>6
      <3>5. QED BY <2>6, <3>3, <3>4 DEF Closing
    <2>7. QED BY <2>5, <2>6
  <1>8. QED BY <1>2, <1>5, <1>6, <1>7 DEF Steady

\* A step that leaves the log alone, and of the book what ledgers are about.
LEMMA QuietIsSteady ==
    ASSUME AgreeInv, SameOrders, UNCHANGED log, \A o \in Orders' : o \notin Orders =>
               book'[o].status # "cancelled",
           \A o \in Orders : book[o].status = "cancelled" => book'[o].status = "cancelled"
    PROVE  Steady
  <1>1. BookInv /\ LogInv
    BY DEF AgreeInv
  <1>2. All' = All /\ All = 1..Len(log)
    BY <1>1, Rows DEF All
  <1>3. \A o : RowsOf(All, o)' = RowsOf(All, o) /\ LastRow(All, o)' = LastRow(All, o)
    BY <1>2 DEF RowsOf, LastRow, IsTrade
  <1>4. \A o : RowsOf(All, o) # {} => o \in Orders
    <2>1. ASSUME NEW o, NEW i \in RowsOf(All, o) PROVE o \in Orders
      BY <1>1, <1>2, <2>1 DEF RowsOf, LogInv, Sound, Truthful
    <2>2. QED BY <2>1
  <1>5. \A o : o \in Recorded(All)' <=> o \in Recorded(All)
    BY <1>3, <1>4 DEF Recorded, SameOrders
  <1>6. Recorded(All)' = Recorded(All)
    BY <1>5
  <1>7. Trusted' => Trusted
    <2>1. AllKnown' => AllKnown
      BY DEF AllKnown
    <2>2. PurchasesCame' => PurchasesCame
      BY DEF PurchasesCame, SameOrders
    <2>3. QED BY <2>1, <2>2 DEF Trusted
  <1>8. ASSUME NEW s \in Runners, NEW sym \in Symbols
        PROVE  Shrinks(Standing(s, sym), Standing(s, sym)')
    <2>1. ASSUME NEW o PROVE o \in Standing(s, sym)' <=> o \in Standing(s, sym)
      <3>1. o \in Recorded(All) => o \in Orders
        BY DEF Recorded
      <3>2. QED BY <1>3, <1>5, <3>1 DEF Standing, OfSymbol, SameOrders
    <2>2. Standing(s, sym)' = Standing(s, sym)
      BY <2>1
    <2>3. QED BY <2>2 DEF Shrinks
  <1>9. QED BY <1>6, <1>7, <1>8 DEF Steady

\* Nothing that ledgers are about moves.
LEMMA StillIsSteady ==
    ASSUME AgreeInv, UNCHANGED <<book, log>>
    PROVE  Steady
  BY QuietIsSteady DEF SameOrders, Orders

\* After a steady step the hands that did not move still fit.
LEMMA HandsAfter ==
    ASSUME AgreeInv, LedgerInv, Steady, NEW p \in Parties, NEW mine,
           pass' = [pass EXCEPT ![p] = mine], HandFits(p, mine)'
    PROVE  LedgerInv'
  <1>1. pass' = [q \in Parties |-> IF q = p THEN mine ELSE pass[q]]
    BY DEF AgreeInv
  <1>2. \A q \in Parties : HandFits(q, pass[q])
    BY DEF LedgerInv
  <1>3. AllCovered' /\ \A q : \A me : HandFits(q, me) => HandFits(q, me)'
    BY SteadyKeeps
  <1>4. Parties' = Parties
    BY DEF Parties
  <1>5. ASSUME NEW q \in Parties PROVE HandFits(q, pass[q])'
    <2>1. PICK me : me = pass[q]
      OBVIOUS
    <2>2. CASE q = p
      BY <1>1, <2>2
    <2>3. CASE q # p
      <3>1. HandFits(q, me)' /\ pass'[q] = me
        BY <1>1, <1>2, <1>3, <2>1, <2>3
      <3>2. QED BY <3>1
    <2>4. QED BY <2>2, <2>3
  <1>6. QED BY <1>3, <1>4, <1>5 DEF LedgerInv

\* What is neither about to record nor syncing fits.
LEMMA OtherHandFits ==
    ASSUME NEW p, NEW mine, mine.at \notin {"record", "lookup"}
    PROVE  HandFits(p, mine)'
  BY DEF HandFits, RecordFits, SyncFits

LEMMA PlaceLedger ==
    ASSUME AgreeInv, AgreeInv', LedgerInv,
           NEW s \in Runners, NEW sym \in Symbols, NEW side \in {"buy", "sell"},
           Place(s, sym, side)
    PROVE  LedgerInv'
  <1>1. BookInv /\ BookInv'
    BY DEF AgreeInv
  <1> DEFINE order == [sym |-> sym, side |-> side, by |-> s, status |-> "pending", got |-> 0]
  <1>2. PICK n \in Nat : n = Len(book) /\ Orders = 1..n
    BY <1>1, LenProperties DEF BookInv, Orders
  <1>3. book' = Append(book, order) /\ UNCHANGED log
    BY DEF Place
  <1>4. /\ Len(book') = n + 1 /\ book'[n + 1] = order /\ \A i \in 1..n : book'[i] = book[i]
        /\ Orders' = 1..(n + 1)
    <2>1. order \in OrderRecords
      BY Sizes DEF OrderRecords, Statuses
    <2>2. QED BY <1>1, <1>2, <1>3, <2>1, AppendProperties DEF BookInv, Orders
  <1>5. \A o \in Orders' : o \in Orders \/ o = n + 1
    BY <1>2, <1>4
  <1>6. SameOrders
    BY <1>2, <1>4 DEF SameOrders
  <1>7. Steady
    BY <1>2, <1>3, <1>4, <1>5, <1>6, QuietIsSteady
  <1>8. PICK mine : mine = [at |-> "record", order |-> n + 1]
    OBVIOUS
  <1>9. pass' = [pass EXCEPT ![s] = mine]
    BY <1>2, <1>8 DEF Place
  <1>10. \A o \in Recorded(All)' : o \in 1..n
    BY <1>2, <1>7 DEF Steady, Recorded
  <1>11. ASSUME Trusted', side = "sell" PROVE Net(Worth, Standing(s, sym))' >= Lot
    <2>1. PICK old \in SUBSET Orders : old = Standing(s, sym)
      BY StandingOrders
    <2>2. PICK new : new = Standing(s, sym)'
      OBVIOUS
    <2>3. Covered(Worth, old) /\ Shrinks(old, new)
      BY <1>7, <1>11, <2>1, <2>2 DEF Steady, LedgerInv, AllCovered
    <2>4. Balance(old) = Net(Worth, old) /\ \E k \in Nat : Net(Worth, old) = Lot * k
      BY <1>1, <2>3, BalanceIsNet
    <2>5. Balance(old) # 0
      <3>1. Ledger(s, sym) = Balance(old)
        BY <2>1 DEF Ledger, Standing
      <3>2. QED BY <1>11, <3>1 DEF Place
    <2>6. Net(Worth, old) >= Lot
      <3>1. PICK k \in Nat : Net(Worth, old) = Lot * k
        BY <2>4
      <3>2. k # 0
        BY <2>4, <2>5, <3>1, Multiples
      <3>3. Lot * k \in Int /\ Lot * (0 + 1) = Lot * 0 + Lot /\ Lot \in Int
        BY Multiples, Sizes
      <3>4. k = 1 \/ k > 1
        BY <3>2
      <3>5. Lot * 1 = Lot
        BY <3>3, Multiples
      <3>6. Lot * k >= Lot
        BY <3>3, <3>4, <3>5, Multiples
      <3>7. QED BY <3>1, <3>6
    <2>7. /\ Net(Worth', new) >= Net(Worth, old)
          /\ Net(Worth', new) \in Int /\ Net(Worth, old) \in Int
      BY <1>1, <1>6, <2>3, ShrinkingKeeps
    <2>8. Net(Worth, Standing(s, sym))' = Net(Worth', new)
      BY <2>2 DEF Net
    <2>9. QED BY <2>6, <2>7, <2>8, Sizes
  <1>12. RecordFits(s, mine)'
    <2>1. /\ mine.order \in Orders' /\ book'[mine.order].by = s
          /\ book'[mine.order].side = side /\ book'[mine.order].sym = sym
      BY <1>4, <1>8
    <2>2. mine.order \notin Recorded(All)' /\ \A o \in Recorded(All)' : o < mine.order
      BY <1>8, <1>10
    <2>3. QED BY <1>11, <2>1, <2>2 DEF RecordFits
  <1>13. HandFits(s, mine)'
    BY <1>8, <1>12 DEF HandFits, SyncFits
  <1>14. s \in Parties
    BY DEF Parties
  <1>15. QED BY <1>7, <1>9, <1>13, <1>14, HandsAfter

LEMMA RecordLedger ==
    ASSUME AgreeInv, LedgerInv, NEW s \in Runners, Record(s)
    PROVE  LedgerInv'
  <1>1. BookInv /\ LogInv /\ s \in Parties
    BY DEF AgreeInv, Parties
  <1>2. PICK me : me = pass[s] /\ HandFits(s, me) /\ me.at = "record"
    BY <1>1 DEF LedgerInv, Record
  <1>3. PICK n \in Orders : n = me.order
    BY <1>2 DEF HandFits, RecordFits
  <1>4. /\ book[n].by = s /\ n \notin Recorded(All)
        /\ \A o \in Recorded(All) : book[o].by = s => o < n
        /\ Trusted /\ book[n].side = "sell" => Net(Worth, Standing(s, book[n].sym)) >= Lot
    BY <1>2, <1>3 DEF HandFits, RecordFits
  <1>5. PICK r : r = TradeRow(n, "submitted", TRUE, Len(log) + 1)
    OBVIOUS
  <1>6. /\ log' = Append(log, r) /\ UNCHANGED book /\ pass' = [pass EXCEPT ![s] = AtRest]
        /\ IsTrade(r) /\ r.order = n /\ r.status = "submitted"
    BY <1>2, <1>3, <1>5 DEF Record, TradeRow, IsTrade
  <1>7. /\ Recorded(All)' = Recorded(All) \cup {n} /\ LastRow(All, n)' = r
        /\ \A o \in Recorded(All) : LastRow(All, o)' = LastRow(All, o)
        /\ AllKnown' => AllKnown
    BY <1>1, <1>4, <1>6, RowAdded
  <1>8. Orders' = Orders /\ Worth' = Worth /\ (Trusted' => Trusted)
    BY <1>6, <1>7 DEF Orders, Worth, Signed, Trusted, PurchasesCame
  <1>9. PICK y \in Symbols : y = book[n].sym
    <2>1. book[n] \in OrderRecords
      BY <1>1, ElementOfSeq DEF BookInv, Orders
    <2>2. QED BY <2>1 DEF OrderRecords
  <1>10. ASSUME NEW t \in Runners, NEW sym \in Symbols
         PROVE  Standing(t, sym)' = Standing(t, sym) \cup (IF t = s /\ sym = y THEN {n} ELSE {})
    <2>1. ASSUME NEW o PROVE o \in Standing(t, sym)' <=>
                                 o \in Standing(t, sym) \/ (o = n /\ t = s /\ sym = y)
      <3>1. CASE o = n
        BY <1>4, <1>6, <1>7, <1>9, <3>1 DEF Standing, OfSymbol, PositionAffecting
      <3>2. CASE o # n
        <4>1. o \in Recorded(All)' <=> o \in Recorded(All)
          BY <1>7, <3>2
        <4>2. QED BY <1>6, <1>7, <3>2, <4>1 DEF Standing, OfSymbol
      <3>3. QED BY <3>1, <3>2
    <2>2. QED BY <2>1
  <1>11. AllCovered'
    <2>1. SUFFICES ASSUME Trusted', NEW t \in Runners, NEW sym \in Symbols
                   PROVE  Covered(Worth, Standing(t, sym)')
      BY <1>8 DEF AllCovered, Covered, Net
    <2>2. PICK old \in SUBSET Orders : old = Standing(t, sym) /\ old \subseteq Recorded(All)
      BY StandingOrders
    <2>3. Covered(Worth, old)
      BY <1>8, <2>1, <2>2 DEF LedgerInv, AllCovered
    <2>4. CASE ~(t = s /\ sym = y)
      BY <1>10, <2>2, <2>3, <2>4
    <2>5. CASE t = s /\ sym = y
      <3>1. /\ old \in SUBSET Nat /\ IsFiniteSet(old) /\ \A o \in old : Worth[o] \in Int
            /\ Net(Worth, old) >= 0 /\ Net(Worth, old) \in Int
        BY <1>1, <2>3, CoveredInAll
      <3>2. \A o \in old : o < n
        BY <1>4, <2>2, <2>5 DEF Standing
      <3>3. n \in Nat /\ Worth[n] \in Int
        BY <1>1, WorthIs, LenProperties DEF Orders, BookInv
      <3>4. Net(Worth, old) + Worth[n] >= 0
        <4>1. CASE book[n].side = "buy"
          <5>1. Worth[n] = Lot /\ Lot \in Nat
            BY <1>1, <4>1, WorthIs, Sizes
          <5>2. QED BY <3>1, <5>1
        <4>2. CASE book[n].side # "buy"
          <5>1. Worth[n] = -Lot /\ Lot \in Nat
            BY <1>1, <4>2, WorthIs, Sizes
          <5>2. book[n].side = "sell"
            <6>1. book[n] \in OrderRecords
              BY <1>1, ElementOfSeq DEF BookInv, Orders
            <6>2. QED BY <4>2, <6>1 DEF OrderRecords
          <5>3. Net(Worth, old) >= Lot
            BY <1>4, <1>8, <1>9, <2>1, <2>2, <2>5, <5>2
          <5>4. QED BY <3>1, <5>1, <5>3
        <4>3. QED BY <4>1, <4>2
      <3>5. Covered(Worth, old \cup {n})
        BY <2>3, <3>1, <3>2, <3>3, <3>4, CoveredAfter
      <3>6. QED BY <1>10, <2>2, <2>5, <3>5
    <2>6. QED BY <2>4, <2>5
  <1>12. ASSUME NEW q \in Parties PROVE HandFits(q, pass[q])'
    <2>1. pass' = [p \in Parties |-> IF p = s THEN AtRest ELSE pass[p]]
      BY <1>6 DEF AgreeInv
    <2>2. CASE q = s
      <3>1. HandFits(s, AtRest)'
        BY OtherHandFits DEF AtRest
      <3>2. QED BY <2>1, <2>2, <3>1
    <2>3. CASE q # s
      <3>1. PICK hand : hand = pass[q] /\ HandFits(q, hand)
        BY DEF LedgerInv
      <3>2. SyncFits(hand)'
        BY <1>7, <3>1 DEF HandFits, SyncFits
      <3>3. ASSUME q \in Runners, hand.at = "record" PROVE RecordFits(q, hand)'
        <4>1. PICK o : o = hand.order
          OBVIOUS
        <4>2. /\ o \in Orders /\ book[o].by = q /\ o \notin Recorded(All)
              /\ \A x \in Recorded(All) : book[x].by = q => x < o
              /\ Trusted /\ book[o].side = "sell" => Net(Worth, Standing(q, book[o].sym)) >= Lot
          BY <3>1, <3>3, <4>1 DEF HandFits, RecordFits
        <4>3. o # n /\ book[n].by # q
          BY <1>4, <2>3, <4>2
        <4>4. o \notin Recorded(All)' /\ \A x \in Recorded(All)' : book[x].by = q => x < o
          BY <1>7, <4>2, <4>3
        <4>5. PICK z \in Symbols : z = book[o].sym
          <5>1. book[o] \in OrderRecords
            BY <1>1, <4>2, ElementOfSeq DEF BookInv, Orders
          <5>2. QED BY <5>1 DEF OrderRecords
        <4>6. Standing(q, z)' = Standing(q, z)
          <5>1. Standing(q, z)' = Standing(q, z) \cup
                                    (IF q = s /\ z = y THEN {n} ELSE {})
            BY <1>10, <3>3
          <5>2. QED BY <2>3, <5>1
        <4>7. Net(Worth, Standing(q, z))' = Net(Worth, Standing(q, z))
          BY <1>8, <4>6 DEF Net
        <4>8. QED BY <1>6, <1>8, <4>1, <4>2, <4>4, <4>5, <4>7 DEF RecordFits
      <3>4. HandFits(q, hand)'
        BY <3>2, <3>3 DEF HandFits, RecordFits
      <3>5. QED BY <2>1, <2>3, <3>1, <3>4
    <2>4. QED BY <2>2, <2>3
  <1>13. Parties' = Parties
    BY DEF Parties
  <1>14. QED BY <1>11, <1>12, <1>13 DEF LedgerInv

LEMMA SettleLedger ==
    ASSUME AgreeInv, LedgerInv, NEW o \in Orders, NEW got \in 0..Lot,
           NEW status \in {"partial", "filled", "cancelled"}, Settle(o, status, got)
    PROVE  LedgerInv'
  <1>1. BookInv
    BY DEF AgreeInv
  <1>2. PICK n \in Nat : n = Len(book) /\ Orders = 1..n
    BY <1>1, LenProperties DEF BookInv, Orders
  <1>3. \A i \in Orders : book[i] \in OrderRecords
    BY <1>1, ElementOfSeq DEF BookInv, Orders
  <1>4. book' = [book EXCEPT ![o] = [[book[o] EXCEPT !.status = status] EXCEPT !.got = got]]
    <2>1. book' = [book EXCEPT ![o].status = status, ![o].got = got]
      BY DEF Settle
    <2>2. DOMAIN book = 1..n
      BY <1>1, <1>2, LenProperties DEF BookInv
    <2>3. QED BY <1>2, <2>1, <2>2
  <1>5. PICK new \in OrderRecords :
            /\ new = [[book[o] EXCEPT !.status = status] EXCEPT !.got = got]
            /\ new.sym = book[o].sym /\ new.side = book[o].side /\ new.by = book[o].by
    <2>1. PICK old \in OrderRecords : old = book[o]
      BY <1>3
    <2>2. PICK new : new = [[old EXCEPT !.status = status] EXCEPT !.got = got]
      OBVIOUS
    <2>3. new \in OrderRecords /\ new.sym = old.sym /\ new.side = old.side /\ new.by = old.by
      BY <2>1, <2>2 DEF OrderRecords, Statuses
    <2>4. QED BY <2>1, <2>2, <2>3
  <1>6. Len(book') = n /\ \A i \in 1..n : book'[i] = IF i = o THEN new ELSE book[i]
    BY <1>1, <1>2, <1>4, <1>5, ExceptSeq DEF BookInv
  <1>7. Orders' = Orders /\ SameOrders
    BY <1>2, <1>5, <1>6 DEF SameOrders, Orders
  <1>8. book[o].status # "cancelled"
    BY DEF Settle, IsOpen
  <1>9. \A i \in Orders : book[i].status = "cancelled" => book'[i].status = "cancelled"
    BY <1>2, <1>6, <1>8
  <1>10. UNCHANGED <<log, pass>>
    BY DEF Settle
  <1>11. Steady
    BY <1>7, <1>9, <1>10, QuietIsSteady
  <1>12. AllCovered' /\ \A q : \A me : HandFits(q, me) => HandFits(q, me)'
    BY <1>11, SteadyKeeps
  <1>13. ASSUME NEW q \in Parties PROVE HandFits(q, pass[q])'
    <2>1. PICK me : me = pass[q] /\ HandFits(q, me)
      BY DEF LedgerInv
    <2>2. HandFits(q, me)'
      BY <1>12, <2>1
    <2>3. QED BY <1>10, <2>1, <2>2
  <1>14. Parties' = Parties
    BY DEF Parties
  <1>15. QED BY <1>12, <1>13, <1>14 DEF LedgerInv

\* Nothing moves that hands or ledgers are about.
LEMMA StillLedger ==
    ASSUME AgreeInv, LedgerInv, UNCHANGED <<book, log, pass>>
    PROVE  LedgerInv'
  <1>1. AllCovered' /\ \A q : \A me : HandFits(q, me) => HandFits(q, me)'
    BY StillIsSteady, SteadyKeeps
  <1>2. ASSUME NEW q \in Parties PROVE HandFits(q, pass[q])'
    <2>1. PICK me : me = pass[q] /\ HandFits(q, me)
      BY DEF LedgerInv
    <2>2. HandFits(q, me)'
      BY <1>1, <2>1
    <2>3. QED BY <2>1, <2>2
  <1>3. Parties' = Parties
    BY DEF Parties
  <1>4. QED BY <1>1, <1>2, <1>3 DEF LedgerInv

\* A party goes on to something that is neither a record nor a sync.
LEMMA PassLedger ==
    ASSUME AgreeInv, LedgerInv, UNCHANGED <<book, log>>, NEW p \in Parties, NEW mine,
           mine.at \notin {"record", "lookup"}, pass' = [pass EXCEPT ![p] = mine]
    PROVE  LedgerInv'
  BY StillIsSteady, OtherHandFits, HandsAfter

LEMMA CompareLedger ==
    ASSUME AgreeInv, LedgerInv, NEW p \in Parties, Compare(p)
    PROVE  LedgerInv'
  <1>1. PICK rows0, verdict : \E next \in Follow(p, Before(rows0), verdict) :
                                  pass' = [pass EXCEPT ![p] = next]
    <2>1. PICK aged \in BOOLEAN :
            LET upto == Before(pass[p].asOf)
                verdict == IF ComparePositions(upto, pass[p].seen) = {}
                              /\ CompareOrders(upto, OpenOrders, aged) = {}
                           THEN [status |-> "clean", day |-> pass[p].day,
                                 asOf |-> pass[p].asOf, book |-> pass[p].book]
                           ELSE [status |-> "dirty", day |-> pass[p].day]
            IN  \E next \in Follow(p, upto, verdict) : pass' = [pass EXCEPT ![p] = next]
      BY DEF Compare
    <2>2. QED BY <2>1
  <1>2. PICK next \in Follow(p, Before(rows0), verdict) : pass' = [pass EXCEPT ![p] = next]
    BY <1>1
  <1>3. UNCHANGED <<book, log>>
    BY DEF Compare
  <1>4. CASE pass[p].kind # "sync"
    <2>1. next.at \in {"adjust", "persist"}
      BY <1>2, <1>4 DEF Follow
    <2>2. QED BY <1>2, <1>3, <2>1, PassLedger
  <1>5. CASE pass[p].kind = "sync"
    <2>1. PICK S \in Candidates(p, LocalOnly(Before(rows0), OpenOrders)) :
              next = [at |-> "lookup", kind |-> "sync", todo |-> S, rows |-> << >>,
                      stamp |-> Len(log) + 1]
      BY <1>2, <1>5 DEF Follow
    <2>2. LocalOnly(Before(rows0), OpenOrders) \subseteq Recorded(All)
      BY DEF LocalOnly, LocalOpen, Recorded, RowsOf, Before, All
    <2>3. S \subseteq Recorded(All)
      <3>1. S \subseteq LocalOnly(Before(rows0), OpenOrders)
        BY <2>1 DEF Candidates
      <3>2. QED BY <2>2, <3>1
    <2>4. HandFits(p, next)
      <3>1. next.at = "lookup" /\ next.todo = S /\ Len(next.rows) = 0
        BY <2>1, EmptySeq
      <3>2. QED BY <2>3, <3>1 DEF HandFits, SyncFits, RecordFits
    <2>5. HandFits(p, next)'
      BY <1>3, <2>4, StillIsSteady, SteadyKeeps
    <2>6. QED BY <1>2, <1>3, <2>5, StillIsSteady, HandsAfter
  <1>6. QED BY <1>4, <1>5

LEMMA LookupLedger ==
    ASSUME AgreeInv, LedgerInv, NEW p \in Parties, Lookup(p) \/ LookupFails(p)
    PROVE  LedgerInv'
  <1>1. BookInv /\ LogInv /\ HandsFit /\ UNCHANGED <<book, log>>
    BY DEF AgreeInv, HandsFit, Lookup, LookupFails
  <1>2. PICK me : /\ me = pass[p] /\ Syncs(me) /\ me.at = "lookup" /\ me.todo # {}
                  /\ SyncFits(me)
    <2>1. pass[p].at = "lookup" /\ pass[p].todo # {}
      BY DEF Lookup, LookupFails
    <2>2. QED BY <1>1, <2>1, MyHand DEF Fits, LedgerInv, HandFits
  <1>3. PICK o : o = Min(me.todo)
    OBVIOUS
  <1>4. me.todo \in SUBSET Orders /\ me.rows \in Seq(TradeRows)
    BY <1>2 DEF Syncs
  <1>5. o \in me.todo /\ o \in Orders
    <2>1. Orders \subseteq Nat
      BY <1>1, LenProperties DEF BookInv, Orders
    <2>2. me.todo \in SUBSET Nat
      BY <1>4, <2>1
    <2>3. o \in me.todo
      BY <1>2, <1>3, <2>2, LeastOf
    <2>4. QED BY <1>4, <2>3
  <1>6. PICK found : /\ LookedUp(p, found)
                     /\ \/ found = << >>
                        \/ \E r : /\ found = <<r>> /\ r \in TradeRows /\ r.order = o
                                  /\ r.status \in {"filled", "cancelled"}
    <2>1. Next1(p) = o
      BY <1>2, <1>3 DEF Next1
    <2>2. \A known \in BOOLEAN, status \in {"filled", "cancelled"} :
              LET r == TradeRow(o, status, known, me.stamp)
              IN  r \in TradeRows /\ r.order = o /\ r.status = status
      <3>1. me.stamp \in Nat /\ day \in Nat /\ o \in Nat
        BY <1>1, <1>2, <1>5, LenProperties DEF Syncs, AgreeInv, Orders, BookInv
      <3>2. QED BY <3>1 DEF TradeRow, TradeRows
    <2>3. CASE LookupFails(p)
      <3>1. LookedUp(p, <<TradeRow(o, "cancelled", FALSE, me.stamp)>>)
        BY <1>2, <2>1, <2>3 DEF LookupFails
      <3>2. QED BY <2>2, <3>1
    <2>4. CASE Lookup(p)
      <3>1. LookedUp(p, << >>) \/ /\ ~IsOpen(o)
                                  /\ LookedUp(p, <<TradeRow(o, book[o].status, TRUE, me.stamp)>>)
        BY <1>2, <2>1, <2>4, Zenon DEF Lookup
      <3>2. ~IsOpen(o) => book[o].status \in {"filled", "cancelled"}
        <4>1. book[o] \in OrderRecords
          BY <1>1, <1>5, ElementOfSeq DEF BookInv, Orders
        <4>2. QED BY <4>1 DEF IsOpen, OrderRecords, Statuses
      <3>3. QED BY <2>2, <3>1, <3>2
    <2>5. QED BY <2>3, <2>4
  <1>7. PICK mine : /\ mine = [me EXCEPT !.todo = @ \ {o}, !.rows = @ \o found]
                    /\ pass' = [pass EXCEPT ![p] = mine]
    <2>1. pass' = [pass EXCEPT ![p].todo = @ \ {o}, ![p].rows = @ \o found]
      BY <1>2, <1>3, <1>6 DEF LookedUp, Next1
    <2>2. pass' = [pass EXCEPT ![p] = [me EXCEPT !.todo = @ \ {o}, !.rows = @ \o found]]
      BY <1>2, <2>1 DEF AgreeInv
    <2>3. QED BY <2>2
  <1>8. mine.at = "lookup" /\ mine.todo = me.todo \ {o} /\ mine.rows = me.rows \o found
    BY <1>2, <1>7 DEF Syncs
  <1>9. ASSUME NEW i \in 1..Len(mine.rows)
        PROVE  mine.rows[i].order \in Recorded(All) /\ mine.rows[i].status \in {"filled", "cancelled"}
    <2>1. \A j \in 1..Len(me.rows) : /\ me.rows[j].order \in Recorded(All)
                                     /\ me.rows[j].status \in {"filled", "cancelled"}
      BY <1>2 DEF SyncFits
    <2>2. CASE found = << >>
      <3>1. mine.rows = me.rows
        BY <1>4, <1>8, <2>2, ConcatEmptySeq
      <3>2. QED BY <1>9, <2>1, <3>1
    <2>3. CASE found # << >>
      <3>1. PICK r \in TradeRows : /\ found = <<r>> /\ r.order = o
                                   /\ r.status \in {"filled", "cancelled"}
        BY <1>6, <2>3
      <3>2. PICK m \in Nat : m = Len(me.rows)
        BY <1>4, LenProperties
      <3>3. /\ Len(mine.rows) = m + 1 /\ mine.rows[m + 1] = r
            /\ \A j \in 1..m : mine.rows[j] = me.rows[j]
        BY <1>4, <1>8, <3>1, <3>2, AppendIsConcat, AppendProperties
      <3>4. o \in Recorded(All)
        BY <1>2, <1>5 DEF SyncFits
      <3>5. i \in 1..m \/ i = m + 1
        BY <1>9, <3>3
      <3>6. QED BY <2>1, <3>1, <3>2, <3>3, <3>4, <3>5
    <2>4. QED BY <2>2, <2>3
  <1>10. HandFits(p, mine)
    BY <1>2, <1>8, <1>9 DEF HandFits, SyncFits, RecordFits
  <1>11. HandFits(p, mine)'
    BY <1>1, <1>10, StillIsSteady, SteadyKeeps
  <1>12. QED BY <1>1, <1>7, <1>11, StillIsSteady, HandsAfter

LEMMA AppendLedger ==
    ASSUME AgreeInv, LedgerInv, NEW p \in Parties, AppendRow(p)
    PROVE  LedgerInv'
  <1>1. BookInv /\ LogInv /\ HandsFit
    BY DEF AgreeInv, HandsFit
  <1>2. PICK me : /\ me = pass[p] /\ Syncs(me) /\ SyncFits(me)
                  /\ me.at = "lookup" /\ me.rows # << >>
    <2>1. pass[p].at = "lookup" /\ pass[p].rows # << >>
      BY DEF AppendRow
    <2>2. QED BY <1>1, <2>1, MyHand DEF Fits, LedgerInv, HandFits
  <1>3. /\ me.rows \in Seq(TradeRows) /\ me.todo \subseteq Recorded(All)
        /\ \A i \in 1..Len(me.rows) : Truthful(me.rows[i])
        /\ \A i \in 1..Len(me.rows) : /\ me.rows[i].order \in Recorded(All)
                                      /\ me.rows[i].status \in {"filled", "cancelled"}
    BY <1>2 DEF Syncs, SyncFits
  <1>4. PICK r : r = Head(me.rows)
    OBVIOUS
  <1>5. /\ Len(me.rows) \in Nat \ {0} /\ r = me.rows[1]
        /\ Len(Tail(me.rows)) = Len(me.rows) - 1
        /\ \A i \in 1..Len(Tail(me.rows)) : Tail(me.rows)[i] = me.rows[i + 1]
    BY <1>2, <1>3, <1>4, HeadTailProperties, LenProperties, EmptySeq
  <1>6. Closing(r)
    BY <1>3, <1>5 DEF Closing
  <1>7. log' = Append(log, r) /\ UNCHANGED book
    BY <1>2, <1>4 DEF AppendRow
  <1>8. Steady
    BY <1>6, <1>7, ClosingIsSteady
  <1>9. PICK mine : /\ mine = [me EXCEPT !.rows = Tail(@)]
                    /\ pass' = [pass EXCEPT ![p] = mine]
    <2>1. pass' = [pass EXCEPT ![p] = [me EXCEPT !.rows = Tail(@)]]
      BY <1>1, <1>2 DEF AppendRow, HandsFit
    <2>2. QED BY <2>1
  <1>10. mine.at = "lookup" /\ mine.todo = me.todo /\ mine.rows = Tail(me.rows)
    BY <1>2, <1>9 DEF Syncs
  <1>11. HandFits(p, mine)
    <2>1. PICK rest : rest = mine.rows
      OBVIOUS
    <2>2. ASSUME NEW i \in 1..Len(rest)
          PROVE  rest[i].order \in Recorded(All) /\ rest[i].status \in {"filled", "cancelled"}
      <3>1. i + 1 \in 1..Len(me.rows) /\ rest[i] = me.rows[i + 1]
        BY <1>5, <1>10, <2>1
      <3>2. QED BY <1>3, <3>1
    <2>3. QED BY <1>3, <1>10, <2>1, <2>2 DEF HandFits, SyncFits, RecordFits
  <1>12. HandFits(p, mine)'
    BY <1>8, <1>11, SteadyKeeps
  <1>13. QED BY <1>8, <1>9, <1>12, HandsAfter

LEMMA AdjustLedger ==
    ASSUME AgreeInv, LedgerInv, NEW p \in Parties, NEW sym \in Symbols, Adjust(p, sym)
    PROVE  LedgerInv'
  <1>1. PICK r \in pass[p].rows : log' = Append(log, Adjustment(sym, r.broker - r.local))
    BY DEF Adjust
  <1>2. PICK d : d = r.broker - r.local
    OBVIOUS
  <1>3. PICK a : a = [sym |-> sym, delta |-> d, at |-> Len(log) + 1]
    OBVIOUS
  <1>4. log' = Append(log, a) /\ UNCHANGED book /\ pass' = [pass EXCEPT ![p] = AtRest]
    BY <1>1, <1>2, <1>3 DEF Adjustment, Adjust, Leave
  <1>5. Closing(a)
    BY <1>3 DEF Closing, IsTrade
  <1>6. Steady
    BY <1>4, <1>5, ClosingIsSteady
  <1>7. HandFits(p, AtRest)'
    BY OtherHandFits DEF AtRest
  <1>8. QED BY <1>4, <1>6, <1>7, HandsAfter

\* A party that comes to rest.
LEMMA LeaveLedger ==
    ASSUME AgreeInv, LedgerInv, UNCHANGED <<book, log>>, NEW p \in Parties,
           pass' = [pass EXCEPT ![p] = AtRest]
    PROVE  LedgerInv'
  BY PassLedger DEF AtRest

LEMMA LedgerStep ==
    ASSUME AgreeInv, AgreeInv', LedgerInv, [Next]_vars
    PROVE  LedgerInv'
  <1>1. CASE UNCHANGED vars
    BY <1>1, StillLedger DEF vars
  <1>2. ASSUME NEW s \in Runners, NEW sym \in Symbols, NEW side \in {"buy", "sell"},
               Place(s, sym, side)
        PROVE  LedgerInv'
    BY <1>2, PlaceLedger
  <1>3. ASSUME NEW s \in Runners, Record(s) PROVE LedgerInv'
    BY <1>3, RecordLedger
  <1>4. ASSUME NEW o \in Orders, NEW got \in 0..Lot,
               NEW status \in {"partial", "filled", "cancelled"}, Settle(o, status, got)
        PROVE  LedgerInv'
    BY <1>4, SettleLedger
  <1>5. CASE NewDay
    BY <1>5, StillLedger DEF NewDay
  <1>6. ASSUME NEW p \in Parties, Pass(p) PROVE LedgerInv'
    <2>1. ASSUME NEW kind \in Kinds, BeginPass(p, kind) PROVE LedgerInv'
      <3>1. PICK mine : mine.at = "orders" /\ pass' = [pass EXCEPT ![p] = mine]
        BY <2>1 DEF BeginPass
      <3>2. QED BY <2>1, <3>1, PassLedger DEF BeginPass
    <2>2. CASE Compare(p)
      BY <2>2, CompareLedger
    <2>3. ASSUME NEW sym \in Symbols, Adjust(p, sym) PROVE LedgerInv'
      BY <2>3, AdjustLedger
    <2>4. CASE Unreachable(p)
      BY <2>4, LeaveLedger DEF Unreachable, Leave
    <2>5. CASE Persist(p)
      BY <2>5, LeaveLedger DEF Persist, Leave
    <2>6. CASE Refuse(p)
      BY <2>6, LeaveLedger DEF Refuse, Leave
    <2>7. CASE Lookup(p) \/ LookupFails(p)
      BY <2>7, LookupLedger
    <2>8. CASE AppendRow(p)
      BY <2>8, AppendLedger
    <2>9. CASE SyncDone(p)
      BY <2>9, LeaveLedger DEF SyncDone, Leave
    <2>10. CASE DieInPass(p)
      BY <2>10, LeaveLedger DEF DieInPass
    <2>11. QED BY <1>6, <2>1, <2>2, <2>3, <2>4, <2>5, <2>6, <2>7, <2>8, <2>9, <2>10 DEF Pass
  <1>7. QED BY <1>1, <1>2, <1>3, <1>4, <1>5, <1>6 DEF Next, Trade

LEMMA LedgerInit == Init => LedgerInv
  <1> SUFFICES ASSUME Init PROVE LedgerInv
    OBVIOUS
  <1>1. Len(book) = 0 /\ Orders = {}
    BY EmptySeq DEF Init, Orders
  <1>2. \A s, sym : Standing(s, sym) = {}
    BY <1>1 DEF Standing, OfSymbol, Recorded
  <1>3. Covered(Worth, {})
    <2>1. \A n : UpTo({}, n) = {}
      BY DEF UpTo
    <2>2. QED BY <2>1, NetOfNone DEF Covered
  <1>4. AllCovered
    BY <1>2, <1>3 DEF AllCovered
  <1>5. \A p \in Parties : HandFits(p, pass[p])
    BY DEF Init, AtRest, HandFits, SyncFits, RecordFits
  <1>6. QED BY <1>4, <1>5 DEF LedgerInv

\* While purchases come, the ledgers are the fold, owner by owner.
LEMMA LedgersAddTo ==
    ASSUME AgreeInv, LedgerInv
    PROVE  LedgersAgree
  <1> SUFFICES ASSUME Trusted, NEW sym \in Symbols
               PROVE  Running(0, FoldOrders(All, sym)) =
                          Running(0, [s \in Runners |-> Ledger(s, sym)])
    BY DEF LedgersAgree, Trusted
  <1>1. BookInv
    BY DEF AgreeInv
  <1>2. PICK n \in Nat : n = Len(book) /\ Orders = 1..n
    BY <1>1, LenProperties DEF BookInv, Orders
  <1>3. PICK S \in SUBSET Orders :
            S = {o \in OfSymbol(All, sym) : LastRow(All, o).status \in PositionAffecting}
    BY DEF OfSymbol, Recorded
  <1>4. PICK owner : owner = [o \in S |-> book[o].by]
    OBVIOUS
  <1>5. IsFiniteSet(S)
    <2>1. IsFiniteSet(1..n)
      BY FS_Interval
    <2>2. S \subseteq 1..n
      BY <1>2
    <2>3. QED BY <2>1, <2>2, FS_Subset
  <1>6. \A o \in S : Worth[o] \in Int
    BY <1>1, <1>3, WorthIs
  <1>7. \A o \in S : owner[o] \in Runners
    <2>1. \A o \in Orders : book[o] \in OrderRecords
      BY <1>1, ElementOfSeq DEF BookInv, Orders
    <2>2. QED BY <1>4, <2>1 DEF OrderRecords
  <1>8. ASSUME NEW s \in Runners
        PROVE  Ledger(s, sym) = Net(Worth, {o \in S : owner[o] = s})
    <2>1. Standing(s, sym) = {o \in S : owner[o] = s}
      BY <1>3, <1>4 DEF Standing
    <2>2. Ledger(s, sym) = Balance(Standing(s, sym))
      BY DEF Ledger, Standing
    <2>3. Covered(Worth, Standing(s, sym)) /\ Standing(s, sym) \in SUBSET Orders
      BY StandingOrders DEF LedgerInv, AllCovered
    <2>4. QED BY <1>1, <2>1, <2>2, <2>3, BalanceIsNet
  <1>9. [s \in Runners |-> Ledger(s, sym)]
            = [s \in Runners |-> Net(Worth, {o \in S : owner[o] = s})]
    BY <1>8
  <1>10. Running(0, FoldOrders(All, sym)) = Net(Worth, S)
    <2>1. FoldOrders(All, sym) = [o \in S |-> Signed(o) * Lot]
      BY <1>3 DEF FoldOrders
    <2>2. \A o \in S : Worth[o] = Signed(o) * Lot
      BY <1>3 DEF Worth
    <2>3. FoldOrders(All, sym) = [o \in S |-> Worth[o]]
      BY <2>1, <2>2
    <2>4. QED BY <2>3 DEF Net
  <1>11. PICK each : each = [s \in Runners |-> Net(Worth, {o \in S : owner[o] = s})]
    OBVIOUS
  <1>12. Net(Worth, S) = Net(each, Runners)
    BY <1>5, <1>6, <1>7, <1>11, NetByOwner, ReconciliationAssumption
  <1>13. Net(each, Runners) = Running(0, [s \in Runners |-> Ledger(s, sym)])
    <2>1. [s \in Runners |-> each[s]] = each
      BY <1>11
    <2>2. QED BY <1>9, <1>11, <2>1 DEF Net
  <1>14. QED BY <1>10, <1>12, <1>13

\* As long as every purchase comes, the ledgers of the strategies add up to the
\* store's own fold, whichever sales are cancelled, recorded or lost.
THEOREM LedgersAddUp == Spec => []LedgersAgree
  <1>1. AgreeInv /\ LedgerInv /\ AgreeInv' /\ [Next]_vars => LedgerInv'
    BY LedgerStep
  <1>2. AgreeInv /\ LedgerInv => LedgersAgree
    BY LedgersAddTo
  <1>3. QED BY <1>1, <1>2, LedgerInit, ReconciliationInvariant, PTL DEF Spec
=============================================================================
