---------------------------- MODULE SessionLoop ----------------------------
(***************************************************************************)
(* The poll loop of an intraday runner (strategies/runner.py) with the     *)
(* session rules of data/sessions.py: one strategy, one symbol, a session  *)
(* policy that is either same_session (flatten before the close, freeze on *)
(* an unknown sale) or multi_session (truncate, and rest once the session  *)
(* is drained), a vendor that publishes bars late, a broker whose close    *)
(* moves and whose answers cannot be trusted, and deaths at every step.    *)
(*                                                                         *)
(* The daily path of the same loop is QueuedIntents; reconciliation at the *)
(* start and at the rollover is Reconciliation; what the risk gate asks is *)
(* SubmitPath, and here it may veto anything.  An alert is the row it      *)
(* writes; telling the same thing twice is a set's union.                  *)
(***************************************************************************)
EXTENDS Integers, FiniteSets, FiniteSetsExt

CONSTANTS DayLen,      \* ticks of a day
          Open, Close, \* the regular session, in ticks of the day
          Bars, Bar,   \* the bars of a session and the width of one
          Lead,        \* flatten_lead
          MaxLag,      \* how late a bar may be published, in order
          Allowance,   \* max(3 * bar, 10 minutes)
          Budget,      \* _CONNECTIVITY_RETRY_BUDGET_SECONDS
          Tables,      \* what the session table may say of a day
          NoTable,     \* outside its coverage, or closed while the broker is not
          EarlyCloses, \* the ticks an unscheduled close may fall on
          MaxHeld, MaxNow  \* bounds, by mode

\* A night is longer than a bar, and a session than its first bar and the lag.
ASSUME SessionLoopAssumption ==
    /\ {DayLen, Open, Close, Allowance, MaxLag} \subseteq Nat
    /\ {Bar, Bars, Budget} \subseteq Nat \ {0}
    /\ Open + Bars * Bar = Close /\ Lead \in 1..Close
    /\ {MaxHeld, MaxNow} \subseteq [{"same", "multi"} -> Nat]
    /\ MaxLag + Bar < Allowance /\ Close + MaxLag < DayLen /\ Close + Bar <= DayLen + Open
    /\ Tables \ {NoTable} \subseteq Open..Close
    /\ EarlyCloses \cup {Close} \subseteq (Open + Bar + MaxLag + 1)..Close

VARIABLES mode,      \* same or multi: tempo.position_lifecycle
          now,
          close,     \* when the broker closes today, as far as it knows
          table,     \* when the table says that today closes
          shown,     \* how many of today's bars the vendor has published
          lot,       \* the strategy's open lot in its ledger
          attempt,   \* its unresolved SELL attempt
          placed,    \* the BUY orders accepted, less the SELL orders accepted
          alerts,    \* the days with an alert about the lot
          run,       \* the process
          carried    \* the last day a cycle past its deadline left the lot open

vars == <<mode, now, close, table, shown, lot, attempt, placed, alerts, run, carried>>
world == <<mode, now, close, table, shown>>
books == <<lot, attempt, placed, alerts>>

Never == -1
Later == DayLen        \* next_close falls on a later day
Unread == DayLen + 1   \* next_close could not be read

NoLot == [day |-> Never]
NoAttempt == [status |-> "none"]
Unresolved == {"pending", "error", "rejected", "submitted"}

Day == now \div DayLen
TickOf(t) == t % DayLen
BarStart(k) == Open + (k - 1) * Bar
BarEnd(k) == BarStart(k) + Bar

IsOpen == TickOf(now) \in Open..(close - 1)
Live == run.pc # "off"

-----------------------------------------------------------------------------
(* The session policy                                                      *)

\* The earlier of the table's close and the broker's next one, less the lead.
FlattenDeadline(nc) == Min({table, nc}) - Lead

EvaluationOpen(nc) == /\ table # NoTable /\ nc # Later
                      /\ TickOf(run.at) \in Open..(FlattenDeadline(nc) - 1)

Overdue == lot.day < Day

\* Without a trustworthy deadline every lot is due.
PastDeadline(nc) == table = NoTable \/ TickOf(run.at) >= FlattenDeadline(nc)

BasisToday(nc) == IF table = NoTable THEN "calendar_fail_closed"
                  ELSE IF PastDeadline(nc) THEN "deadline" ELSE "none"
Basis(nc) == IF Overdue THEN "overdue"
             ELSE IF table = NoTable THEN "calendar_fail_closed"
             ELSE IF PastDeadline(nc) THEN "deadline" ELSE "none"

Due(nc) == lot # NoLot /\ Basis(nc) # "none" /\ run.retry <= run.at

FrozenUnlessRejected == lot # NoLot /\ attempt.status \in Unresolved \ {"rejected"}
\* unresolved_sell_attempt_ids: any of these may have sold the lot already.
Frozen == lot # NoLot /\ attempt.status \in Unresolved

\* The instant up to which a bar must be complete: a same_session run takes the
\* clock of its cycle, a multi_session run reads it again after the fetch.
Cutoff == IF mode = "same" THEN run.at ELSE now

\* The bars of today that the fetch brought and that are complete by then.
Visible == {k \in 1..run.n : BarEnd(k) <= TickOf(Cutoff)}

\* Bars are numbered through: the last one of yesterday is number Day * Bars.
Latest == Day * Bars + Cardinality(Visible)
StartOf(b) == ((b - 1) \div Bars) * DayLen + BarStart(((b - 1) % Bars) + 1)

-----------------------------------------------------------------------------
Off == [pc |-> "off", why |-> "none"]
Fresh == [pc |-> "poll", at |-> 0, open |-> FALSE, n |-> 0, fetched |-> 0,
          side |-> "none", basis |-> "none", answer |-> "none", proceed |-> FALSE,
          past |-> FALSE, refused |-> Never, watermark |-> Never, quiet |-> 0, drained |-> Never,
          retry |-> 0, outage |-> Never]

Init == /\ mode \in {"same", "multi"}
        /\ now = 0
        /\ close = Close /\ table \in Tables /\ shown = 0
        /\ lot = NoLot /\ attempt = NoAttempt /\ placed = 0 /\ alerts = {}
        /\ run = Fresh
        /\ carried = Never

Become(r) == run' = r
Goto(pc) == [run EXCEPT !.pc = pc]

\* The fields one cycle leaves to the next.
Rested(r) == [r EXCEPT !.pc = "poll", !.at = 0, !.open = FALSE, !.n = 0, !.fetched = 0,
                       !.side = "none", !.basis = "none", !.answer = "none",
                       !.proceed = FALSE, !.past = FALSE,
                       !.refused = IF @ = Day THEN @ ELSE Never]

\* The cycle returns: the outage, if there was one, is over.
Finish(r) == /\ Become([Rested(r) EXCEPT !.outage = Never])
             /\ carried' = IF r.past /\ r.refused # Day /\ lot' # NoLot THEN Day ELSE carried

\* An alert about the lot, once a day.  Every one is fail-soft: the store may
\* refuse the row, and the cycle goes on without it.
Tell(told) == /\ told \/ (Day \notin alerts /\ now + Bar <= MaxNow[mode])
              /\ alerts' = IF told THEN alerts \cup {Day} ELSE alerts
              /\ UNCHANGED <<lot, attempt, placed>>
\* The day of a refusal that no alert has made good.
Told(r, told) == [r EXCEPT !.refused = IF told \/ Day \in alerts THEN Never ELSE Day]

\* A broker or data connection error ends the cycle; the first of an episode
\* starts its clock, and past the budget the process dies of it.
Disconnect ==
    /\ Become(IF run.outage = Never THEN [Rested(run) EXCEPT !.outage = now]
              ELSE IF now - run.outage > Budget THEN [Off EXCEPT !.why = "outage"]
              ELSE Rested(run))
    /\ UNCHANGED <<world, books, carried>>

-----------------------------------------------------------------------------
(* run_cycle, up to the fetch                                              *)

\* A drained multi_session runner does not fetch while the market is closed.
Poll ==
    /\ run.pc = "poll"
    /\ LET r == [run EXCEPT !.at = now, !.open = IsOpen]
           Enter(x) == Become(x) /\ UNCHANGED carried
       IN  CASE mode = "same" /\ IsOpen -> Enter([r EXCEPT !.pc = "gate"])
             [] mode = "multi" /\ IsOpen ->
                  Enter([r EXCEPT !.pc = "fetch", !.drained = Never, !.quiet = 0])
             [] mode = "multi" /\ ~IsOpen /\ run.drained = Never -> Enter([r EXCEPT !.pc = "fetch"])
             [] OTHER -> Finish(run)
    /\ UNCHANGED <<world, books>>

PollFails == run.pc = "poll" /\ Disconnect

\* next_close is read, or the read fails and the table decides alone.
NextClose == {Unread, IF TickOf(now) < close THEN close ELSE Later}

\* The delivery check cannot read the store: an alert, and nothing else.
GateUnchecked(told) ==
    /\ run.pc = "gate" /\ lot # NoLot
    /\ Tell(told)
    /\ Finish(Told(run, FALSE))
    /\ UNCHANGED world

\* A frozen lot is neither flattened nor evaluated over.
GateFrozen(told) ==
    /\ run.pc = "gate" /\ Frozen
    /\ Tell(told)
    /\ \E nc \in NextClose : Finish([Told(run, told) EXCEPT !.past = PastDeadline(nc)])
    /\ UNCHANGED world

\* A lot that is due is sold whole, before anything is fetched.
GateFlatten ==
    /\ run.pc = "gate" /\ ~Frozen
    /\ \E nc \in NextClose :
          /\ Due(nc)
          /\ Become([run EXCEPT !.pc = "submit", !.side = "sell", !.basis = Basis(nc),
                                !.proceed = EvaluationOpen(nc), !.past = PastDeadline(nc)])
    /\ UNCHANGED <<world, books, carried>>

GateEvaluate ==
    /\ run.pc = "gate" /\ ~Frozen
    /\ \E nc \in NextClose :
          /\ ~Due(nc)
          /\ IF EvaluationOpen(nc) THEN Become(Goto("fetch")) /\ UNCHANGED <<lot, carried>>
             ELSE UNCHANGED lot /\ Finish([run EXCEPT !.past = PastDeadline(nc)])
    /\ UNCHANGED <<world, attempt, placed, alerts>>

-----------------------------------------------------------------------------
(* The fetch and the evaluation                                            *)

\* What the vendor has by now, the bar that is still forming included.
Fetch ==
    /\ run.pc = "fetch"
    /\ Become([run EXCEPT !.pc = "decide", !.n = shown, !.fetched = now])
    /\ UNCHANGED <<world, books, carried>>

FetchFails == run.pc = "fetch" /\ Disconnect

\* The previous-session guard of a same_session run.
Unevaluable == mode = "same" /\ Visible = {}
AlreadySeen == Latest <= run.watermark

\* A quiet cycle of a closed market; two of them, long enough after the last
\* bar, and no straggler can be pending any more.
MarginOfOne == Bar + Allowance
Margin == 2 * Bar + Allowance
Quietened ==
    LET quiet == Min({run.quiet + 1, 2})
    IN  IF mode = "same" \/ run.open THEN run
        ELSE [run EXCEPT !.quiet = quiet,
                !.drained = IF quiet = 2 /\ now - StartOf(Latest) >= Margin THEN now ELSE @]

NothingNew ==
    /\ run.pc = "decide" /\ (Unevaluable \/ AlreadySeen)
    /\ UNCHANGED books
    /\ Finish(IF Unevaluable THEN run ELSE Quietened)
    /\ UNCHANGED world

\* get_account fails before the strategy is asked.
DecideFails == run.pc = "decide" /\ ~Unevaluable /\ ~AlreadySeen /\ Disconnect

\* What the strategy may want: an entry, or the exit of its lot.
Wishes == {"none"} \cup IF lot = NoLot THEN (IF placed < MaxHeld[mode] THEN {"buy"} ELSE {}) ELSE {"sell"}

Evaluate ==
    /\ run.pc = "decide" /\ ~Unevaluable /\ ~AlreadySeen
    /\ UNCHANGED books
    /\ \E side \in Wishes :
          LET r == [run EXCEPT !.watermark = Latest, !.quiet = 0]
          IN  IF side = "none" THEN Finish(r)
              ELSE /\ Become([r EXCEPT !.pc = "submit", !.side = side])
                   /\ UNCHANGED carried
    /\ UNCHANGED world

-----------------------------------------------------------------------------
(* submit_paper                                                            *)

\* A veto, or a raise before the attempt row.
Veto ==
    /\ run.pc = "submit"
    /\ Become([run EXCEPT !.pc = "result", !.answer = "not_sent"])
    /\ UNCHANGED <<world, books, carried>>

AppendAttempt ==
    /\ run.pc = "submit" /\ IsOpen
    /\ attempt' = IF run.side = "sell" THEN [status |-> "pending", sold |-> FALSE] ELSE attempt
    /\ Become(Goto("send"))
    /\ UNCHANGED <<world, lot, placed, alerts, carried>>

\* The broker takes the order or not; only an acceptance is certain.
Send(taken, answer) ==
    /\ run.pc = "send"
    /\ answer = "submitted" => taken
    /\ placed' = IF ~taken THEN placed ELSE IF run.side = "buy" THEN placed + 1 ELSE placed - 1
    /\ attempt' = IF run.side = "sell" THEN [attempt EXCEPT !.sold = taken] ELSE attempt
    /\ Become([run EXCEPT !.pc = "finalize", !.answer = answer])
    /\ UNCHANGED <<world, lot, alerts, carried>>

Finalize ==
    /\ run.pc = "finalize"
    /\ attempt' = IF run.side = "sell" THEN [attempt EXCEPT !.status = run.answer] ELSE attempt
    /\ Become(Goto(IF run.answer = "submitted" THEN "record" ELSE "result"))
    /\ UNCHANGED <<world, lot, placed, alerts, carried>>

\* The trade row: the ledger opens the lot or closes it.
Record ==
    /\ run.pc = "record"
    /\ lot' = IF run.side = "buy" THEN [day |-> Day] ELSE NoLot
    /\ attempt' = IF run.side = "sell" THEN NoAttempt ELSE attempt
    /\ Become(Goto("result"))
    /\ UNCHANGED <<world, placed, alerts, carried>>

RecordFails ==
    /\ run.pc = "record"
    /\ Become([run EXCEPT !.pc = "result", !.answer = "error"])
    /\ UNCHANGED <<world, books, carried>>

-----------------------------------------------------------------------------
(* What becomes of it                                                      *)

\* An order of the strategy: whatever happened, the cycle is over.
Submitted ==
    /\ run.pc = "result" /\ run.basis = "none"
    /\ UNCHANGED books /\ Finish(run)
    /\ UNCHANGED world

Proceed(r) == IF run.proceed THEN /\ Become([r EXCEPT !.pc = "fetch", !.basis = "none"])
                                  /\ UNCHANGED carried
              ELSE Finish(r)

FlattenSent ==
    /\ run.pc = "result" /\ run.basis # "none" /\ run.answer = "submitted"
    /\ UNCHANGED books /\ Proceed(run)
    /\ UNCHANGED world

\* The outcome is checked against the attempts: unresolved, and the lot
\* freezes in this very cycle.
FlattenUnknown(told) ==
    /\ run.pc = "result" /\ run.basis # "none" /\ run.answer # "submitted" /\ Frozen
    /\ Tell(told)
    /\ Finish(Told(run, told))
    /\ UNCHANGED world

\* That check cannot read the store: taken for frozen, and nobody is told yet.
FlattenUnchecked ==
    /\ run.pc = "result" /\ run.basis # "none" /\ run.answer # "submitted"
    /\ UNCHANGED books /\ Finish(Told(run, FALSE))
    /\ UNCHANGED world

\* Tried again every cycle of the deadline window, otherwise after a bar.
PutOff(r) == IF r.basis = "deadline" THEN r ELSE [r EXCEPT !.retry = r.at + Bar]

FlattenBlockedUntold(told) ==
    /\ run.pc = "result" /\ run.basis # "none" /\ run.answer # "submitted" /\ ~Frozen
    /\ UNCHANGED books
    /\ Proceed(PutOff(run))
    /\ UNCHANGED world
\* Not sent: told, and put off.
FlattenBlocked(told) ==
    /\ run.pc = "result" /\ run.basis # "none" /\ run.answer # "submitted" /\ ~Frozen
    /\ Tell(told)
    /\ Proceed(Told(PutOff(run), told))
    /\ UNCHANGED world

-----------------------------------------------------------------------------
(* The process and the world                                               *)

Die == /\ Live
       /\ Become(Off)
       /\ UNCHANGED <<world, books, carried>>

Start == /\ ~Live
         /\ Become(Fresh)
         /\ UNCHANGED <<world, books, carried>>

\* The operator asks the broker about an attempt the runner told of, and
\* records the truth.
Resolve == /\ run.pc \in {"off", "poll"} /\ attempt # NoAttempt
           /\ lot' = IF attempt.sold THEN NoLot ELSE lot
           /\ attempt' = NoAttempt
           /\ UNCHANGED <<world, placed, alerts, run, carried>>

\* A bar appears once it has begun, in order, and at the latest MaxLag after
\* its end; it is final from its end on.
Started(k) == k <= Bars /\ BarStart(k) < Min({close, TickOf(now) + 1})
Publish == /\ Started(shown + 1)
           /\ shown' = shown + 1
           /\ UNCHANGED <<mode, now, close, table, books, run, carried>>

\* A cycle takes no longer than a bar, and less than a night.
Tick == /\ now < MaxNow[mode]
        /\ Started(shown + 1) => TickOf(now) < BarEnd(shown + 1) + MaxLag
        /\ run.pc \notin {"off", "poll"} => now < run.at + Bar
        /\ now' = now + 1
        /\ IF TickOf(now') # 0 THEN UNCHANGED <<close, table, shown>>
           ELSE /\ run.pc \in {"off", "poll"}
                /\ close' = Close /\ table' \in Tables /\ shown' = 0
        /\ UNCHANGED <<mode, books, run, carried>>

\* An unscheduled close, announced some time before.
CloseEarly == /\ \E c \in EarlyCloses : TickOf(now) < c /\ c < close /\ close' = c
              /\ UNCHANGED <<mode, now, table, shown, books, run, carried>>

Gate == \/ \E told \in BOOLEAN : GateUnchecked(told) \/ GateFrozen(told)
        \/ GateFlatten \/ GateEvaluate
Outcome == \/ Submitted \/ FlattenSent \/ FlattenUnchecked
           \/ \E told \in BOOLEAN : FlattenUnknown(told) \/ FlattenBlocked(told)

Cycle == \/ Poll \/ PollFails \/ Gate \/ Fetch \/ FetchFails
         \/ NothingNew \/ DecideFails \/ Evaluate
         \/ Veto \/ AppendAttempt \/ Finalize \/ Record \/ RecordFails
         \/ \E taken \in BOOLEAN, answer \in {"submitted", "rejected", "error"} :
               Send(taken, answer)
         \/ Outcome

Next == Cycle \/ Die \/ Start \/ Resolve \/ Publish \/ Tick \/ CloseEarly

Spec == Init /\ [][Next]_vars

\* The loop never stops polling, time passes, bars are published, and the store
\* does not fail for ever: not the delivery check of every cycle, nor the alert
\* of every flatten that was not sent.
FairSpec == /\ Spec /\ WF_vars(Cycle) /\ WF_vars(Publish \/ Tick)
            /\ SF_vars(GateFrozen(TRUE) \/ GateFlatten \/ GateEvaluate)
            /\ SF_vars(FlattenUnknown(TRUE) \/ FlattenBlocked(TRUE))

-----------------------------------------------------------------------------
PCs == {"off", "poll", "gate", "fetch", "decide", "submit", "send", "finalize",
        "record", "result"}

TypeOK ==
    /\ mode \in {"same", "multi"} /\ now \in 0..MaxNow[mode]
    /\ close \in EarlyCloses \cup {Close} /\ table \in Tables /\ shown \in 0..Bars
    /\ lot = NoLot \/ lot.day \in 0..Day
    /\ attempt.status \in Unresolved \cup {"none"}
    /\ placed \in Int /\ alerts \subseteq 0..Day
    /\ run.pc \in PCs
    /\ Live => /\ run.watermark \in Never..(Day + 1) * Bars /\ run.refused \in Never..Day
               /\ run.outage \in Never..now /\ run.drained \in Never..now

\* Nothing is sold a second time: the broker never accepts more SELL orders of
\* a same_session strategy than BUY orders, whoever sold, whatever the broker
\* answered, wherever the process died and however often it came back (the
\* delivery freeze).  What becomes of an accepted order is Reconciliation's.
NeverOversold == mode = "same" => placed >= 0

\* A bar that is about to be evaluated was final when the frame was fetched: "a
\* completed intraday bar is final by construction" (runner.py:588).
EvaluatesFinalBars ==
    run.pc = "decide" /\ ~Unevaluable /\ ~AlreadySeen
        => \A k \in Visible : BarEnd(k) <= TickOf(run.fetched)

\* A same_session lot that outlives its session is on record with an alert of
\* that day, if a cycle past its deadline ended with the lot still open in a
\* process to which the store had refused nothing about the lot that day: no
\* alert row and no delivery check.  Where the store refused one the carry may
\* be silent: every alert is fail-soft.
NoSilentCarry ==
    lot # NoLot /\ Overdue /\ lot.day \notin alerts => carried # lot.day

\* A multi_session runner that rests after the close misses no bar.
NothingAfterDrained ==
    [][shown' > shown /\ Live /\ ~IsOpen
         => run.drained < Day * DayLen + close]_vars

\* A lot carried into an open market is sold, or somebody is told, unless the
\* process is gone, cut off, or the market closes again.  It rests on a store
\* that does not fail for ever.
OverdueSettled ==
    (mode = "same" /\ lot # NoLot /\ Overdue /\ IsOpen)
      ~> (lot = NoLot \/ Day \in alerts \/ ~IsOpen \/ ~Live \/ run.outage # Never)
=============================================================================
