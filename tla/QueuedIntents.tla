---------------------------- MODULE QueuedIntents ----------------------------
(***************************************************************************)
(* Queue-at-open (ADR 0057) for one daily strategy and one symbol.  After  *)
(* the close a runner session locks in the day's decision and persists it  *)
(* as a queued row; while the market is open a session drains the rows it  *)
(* may drain, re-evaluates each one and submits it.  A session is one      *)
(* start of the runner process (StrategyRunner).  Nothing here assumes     *)
(* that the runner lock works: sessions of the strategy may overlap, and a *)
(* session may die between any two commits.                                *)
(*                                                                         *)
(* A key stands for the UNIQUE idempotency_key strategy|session|side|      *)
(* symbol: with strategy and symbol fixed, the session day and the intent  *)
(* class (entry = buy, exit = sell).  The seven-day expires_at is the      *)
(* action TimePasses, which may come at any time but takes older rows      *)
(* first.  The clock is the trading day and whether the market is open.    *)
(***************************************************************************)
EXTENDS Naturals

CONSTANTS Sessions,   \* runner processes of the strategy, one per start
          NoSession,
          MaxDay,     \* bound: the last trading day of the model
          Keys,       \* bound: the decisions the strategy may come to
          Hashes,     \* contents of the strategy's config file
          NoDay       \* "no bar processed yet" (_last_processed_bar_at is None)

ASSUME BoundAssumption == MaxDay \in Nat
ASSUME NoDayAssumption == NoDay \notin Nat
ASSUME NoSessionAssumption == NoSession \notin Sessions

Days == 0..MaxDay
Classes == {"entry", "exit"}

ASSUME KeysAssumption == Keys # {} /\ Keys \subseteq [day : Days, class : Classes]

VARIABLES
  today, open,   \* the trading day and whether its market is open
  config,        \* hash of the config file on disk
  rows,          \* queued_intents, by key
  runs,          \* strategy_runs by session: no row, open, or ended with
                 \* exit_reason controlled_stop or any other ("unclean")
  claims,        \* execution_attempts written by the consume CAS, by key
  sent,          \* calls of broker.submit_order, by key
  alerts,        \* keys with an exit_intent_dropped operator alert
  flat,          \* exits retired because the position was already closed
  unsuperseded,  \* keys whose lock-in failed to retire its elders
  sess           \* what each process holds in memory

vars == <<today, open, config, rows, runs, claims, sent, alerts, flat,
          unsuperseded, sess>>
market == <<today, open>>
history == <<claims, sent, alerts, flat, unsuperseded>>

NoRow == [status |-> "none", owner |-> NoSession, hash |-> config, stale |-> FALSE]
NoClaim == [n |-> 0, by |-> NoSession, day |-> 0]
SomeKey == CHOOSE k \in Keys : TRUE

\* A process before its first step, and after its last.
Fresh(pc) == [pc |-> pc, todo |-> {}, stranded |-> {}, cur |-> SomeKey,
              to |-> "queued", vetoed |-> {}, kept |-> {}, watermark |-> NoDay]

Live(s) == sess[s].pc \notin {"unborn", "over"}
At(s, pc) == sess[s].pc = pc
Become(s, r) == sess' = [sess EXCEPT ![s] = r]
Goto(s, pc) == Become(s, [sess[s] EXCEPT !.pc = pc])

Queued(k) == rows[k].status = "queued"
Exits == {k \in Keys : k.class = "exit"}
Elders(k) == {e \in Keys : e.class = k.class /\ e.day < k.day}

------------------------------------------------------------------------------
(* The predicates of get_active_queued_intents and of the consume CAS.     *)

\* Fault: any run that has ended hands its intents over.
AnyEndedRun(s, k) == rows[k].owner = s \/ runs[rows[k].owner] # "open"

CleanlyHanded(s, k) == rows[k].owner = s \/ runs[rows[k].owner] = "controlled_stop"

\* What SQL can ask of a row ...
Consumable(s, k) == Queued(k) /\ ~rows[k].stale /\ CleanlyHanded(s, k)

\* ... and, with the file hashed, of the decision behind it.
Drainable(s, k) == Consumable(s, k) /\ rows[k].hash = config

\* A row that has left the queue: its expiry no longer matters.
Left(k, status) == [rows[k] EXCEPT !.status = status, !.stale = FALSE]

\* Blind update by row id: mark_queued_intent_obsolete / _dropped.
Settle(k, status) == rows' = [rows EXCEPT ![k] = Left(k, status)]

------------------------------------------------------------------------------
(* Start, stop, death.                                                      *)

\* __init__: every run of the strategy still open is closed as an orphan ...
Start(s) ==
  /\ At(s, "unborn")
  /\ runs' = [r \in Sessions |-> IF runs[r] = "open" THEN "unclean" ELSE runs[r]]
  /\ Goto(s, "register")
  /\ UNCHANGED <<market, config, rows, history>>

\* ... and then, in a second commit, the session's own run is appended.
Register(s) ==
  /\ At(s, "register")
  /\ runs' = [runs EXCEPT ![s] = "open"]
  /\ Goto(s, "idle")
  /\ UNCHANGED <<market, config, rows, history>>

\* update_strategy_run_end closes the row only while ended_at is NULL.
EndRun(s, reason) ==
  runs' = [runs EXCEPT ![s] = IF @ = "open" THEN reason ELSE @]

\* shutdown("controlled" | "interrupted" | "kill_switch") between two cycles.
Stop(s) ==
  /\ At(s, "idle")
  /\ \E reason \in {"controlled_stop", "unclean"} : EndRun(s, reason)
  /\ Become(s, Fresh("over"))
  /\ UNCHANGED <<market, config, rows, history>>

\* The process is killed, or an exception ends run(): shutdown("crashed:...").
Die(s) ==
  /\ Live(s)
  /\ EndRun(s, "unclean") \/ UNCHANGED runs
  /\ Become(s, Fresh("over"))
  /\ UNCHANGED <<market, config, rows, history>>

------------------------------------------------------------------------------
(* One poll: sweep the expired rows, then drain or lock in.                 *)

\* Fault: the sweep takes only the rows its own session queued.
SweepOwn(s) ==
  /\ At(s, "idle")
  /\ LET swept == {k \in Keys : Queued(k) /\ rows[k].stale /\ rows[k].owner = s} IN
     /\ rows' = [k \in Keys |-> IF k \in swept THEN Left(k, "expired") ELSE rows[k]]
     /\ Become(s, [sess[s] EXCEPT !.pc = "swept", !.todo = swept \cap Exits])
  /\ UNCHANGED <<market, config, runs, history>>

\* expire_stale_queued_intents: one commit flips and returns the stale rows.
Sweep(s) ==
  /\ At(s, "idle")
  /\ LET swept == {k \in Keys : Queued(k) /\ rows[k].stale} IN
     /\ rows' = [k \in Keys |-> IF k \in swept THEN Left(k, "expired") ELSE rows[k]]
     /\ Become(s, [sess[s] EXCEPT !.pc = "swept", !.todo = swept \cap Exits])
  /\ UNCHANGED <<market, config, runs, history>>

\* Every swept exit is then alerted, each in a commit of its own.
AlertSwept(s) ==
  /\ At(s, "swept")
  /\ \E k \in sess[s].todo :
       /\ alerts' = alerts \cup {k}
       /\ Become(s, [sess[s] EXCEPT !.todo = @ \ {k}])
  /\ UNCHANGED <<market, config, rows, runs, claims, sent, flat, unsuperseded>>

Polling(s) == At(s, "swept") /\ sess[s].todo = {}

\* Market closed and a bar already processed: nothing until the open.  Market
\* closed and the bar stale or not yet confirmed, or the broker out of reach:
\* poll again.
Idle(s) ==
  /\ Polling(s)
  /\ Goto(s, "idle")
  /\ UNCHANGED <<market, config, rows, runs, history>>

\* The close bar is confirmed: the strategy decides, and the decisions this
\* process has not persisted yet are queued one at a time.
LockIn(s) ==
  /\ Polling(s)
  /\ ~open
  /\ sess[s].watermark = NoDay
  /\ \E decided \in SUBSET Classes :
       LET new == {k \in Keys : k.day = today /\ k.class \in decided} \ sess[s].kept IN
       Become(s, IF new = {}
                 THEN [sess[s] EXCEPT !.pc = "idle", !.watermark = today]
                 ELSE [sess[s] EXCEPT !.pc = "persist", !.todo = new])
  /\ UNCHANGED <<market, config, rows, runs, history>>

\* append_queued_intent; a key that exists already is swallowed.
Persist(s) ==
  /\ At(s, "persist")
  /\ \E k \in sess[s].todo :
       /\ rows' = IF rows[k].status # "none" THEN rows
                  ELSE [rows EXCEPT ![k] = [status |-> "queued", owner |-> s,
                                            hash |-> config, stale |-> FALSE]]
       /\ Become(s, [sess[s] EXCEPT !.pc = "supersede", !.cur = k])
  /\ UNCHANGED <<market, config, runs, history>>

\* The append raises (store locked, config unreadable): an alert, and the
\* watermark stays, so a later cycle decides again.
PersistFails(s) ==
  /\ At(s, "persist")
  /\ Become(s, [sess[s] EXCEPT !.pc = "idle", !.todo = {}])
  /\ UNCHANGED <<market, config, rows, runs, history>>

\* After an append the next decision follows; the last one ends the lock-in.
Persisted(s) ==
  LET k == sess[s].cur  left == sess[s].todo \ {k} IN
  Become(s, [sess[s] EXCEPT !.kept = @ \cup {k}, !.todo = left, !.cur = SomeKey,
                            !.pc = IF left = {} THEN "idle" ELSE "persist",
                            !.watermark = IF left = {} THEN k.day ELSE @])

\* Fault: the other class of the day is retired, not the older rows.
SameDay(k) == {e \in Keys : e.day = k.day /\ e # k}

\* The rows of the same class other than the kept one (an older day, or none).
Superseded(k) == {e \in Keys : e.class = k.class /\ e # k}

\* supersede_queued_intents.
Supersede(s) ==
  /\ At(s, "supersede")
  /\ rows' = [e \in Keys |-> IF e \in Superseded(sess[s].cur) /\ Queued(e)
                             THEN Left(e, "obsolete") ELSE rows[e]]
  /\ Persisted(s)
  /\ UNCHANGED <<market, config, runs, history>>

\* Retiring the elders raises: only a warning, the lock-in goes on.
SupersedeFails(s) ==
  /\ At(s, "supersede")
  /\ unsuperseded' = unsuperseded \cup {sess[s].cur}
  /\ Persisted(s)
  /\ UNCHANGED <<market, config, rows, runs, claims, sent, alerts, flat>>

------------------------------------------------------------------------------
(* The drain: _drain_queued_intents.                                        *)

Enumerate(s) ==
  /\ Polling(s)
  /\ open
  /\ Become(s, [sess[s] EXCEPT !.pc = "listed", !.todo = {k \in Keys : Drainable(s, k)}])
  /\ UNCHANGED <<market, config, rows, runs, history>>

\* _alert_stranded_exit_intents: queued exits this session may not drain.
ListStranded(s) ==
  /\ At(s, "listed")
  /\ Become(s, [sess[s] EXCEPT !.pc = "drain",
                               !.stranded = {k \in Exits : Queued(k)} \ sess[s].todo])
  /\ UNCHANGED <<market, config, rows, runs, history>>

\* Fault: the stranded exit is retired and nobody is told.
RetireUnalerted(s) ==
  /\ At(s, "drain")
  /\ \E k \in sess[s].stranded :
       Become(s, [sess[s] EXCEPT !.pc = "retire", !.cur = k])
  /\ UNCHANGED <<market, config, rows, runs, history>>

AlertStranded(s) ==
  /\ At(s, "drain")
  /\ \E k \in sess[s].stranded :
       /\ alerts' = alerts \cup {k}
       /\ Become(s, [sess[s] EXCEPT !.pc = "retire", !.cur = k])
  /\ UNCHANGED <<market, config, rows, runs, claims, sent, flat, unsuperseded>>

RetireStranded(s) ==
  /\ At(s, "retire")
  /\ Settle(sess[s].cur, "obsolete")
  /\ Become(s, [sess[s] EXCEPT !.pc = "drain", !.stranded = @ \ {sess[s].cur},
                               !.cur = SomeKey])
  /\ UNCHANGED <<market, config, runs, history>>

Draining(s) == At(s, "drain") /\ sess[s].stranded = {}

\* The loop is over, or reading the account failed before it began.
EndDrain(s) ==
  /\ Draining(s)
  /\ Become(s, [sess[s] EXCEPT !.pc = "idle", !.todo = {}])
  /\ UNCHANGED <<market, config, rows, runs, history>>

Next1(s, k) == [sess[s] EXCEPT !.pc = "drain", !.todo = @ \ {k}, !.cur = SomeKey]

\* Vetoed earlier by this process, no fresh price yet, or a raise before the
\* submit: the row stays queued for a later poll.
Defer(s) ==
  /\ Draining(s)
  /\ \E k \in sess[s].todo : Become(s, Next1(s, k))
  /\ UNCHANGED <<market, config, rows, runs, history>>

\* A row is about to be settled as status.
Settling(s, k, status) == [sess[s] EXCEPT !.pc = "settle", !.cur = k, !.to = status]

\* _mark_drain_entry_dropped: not tradable, no matching signal, zero shares.
\* The audit explanation is written first.
DropEntry(s) ==
  /\ Draining(s)
  /\ \E k \in sess[s].todo \ (Exits \cup sess[s].vetoed) :
       Become(s, Settling(s, k, "dropped"))
  /\ UNCHANGED <<market, config, rows, runs, history>>

\* The strategy no longer exits because the position is gone.
ExitAlreadyFlat(s) ==
  /\ Draining(s)
  /\ \E k \in sess[s].todo \cap Exits :
       /\ flat' = flat \cup {k}
       /\ Become(s, Settling(s, k, "obsolete"))
  /\ UNCHANGED <<market, config, rows, runs, claims, sent, alerts, unsuperseded>>

\* Not tradable, no exit signal with the position open, no price in time.
DropExit(s) ==
  /\ Draining(s)
  /\ \E k \in sess[s].todo \cap Exits :
       /\ alerts' = alerts \cup {k}
       /\ Become(s, Settling(s, k, "obsolete"))
  /\ UNCHANGED <<market, config, rows, runs, claims, sent, flat, unsuperseded>>

SettleRow(s) ==
  /\ At(s, "settle")
  /\ Settle(sess[s].cur, sess[s].to)
  /\ Become(s, [Next1(s, sess[s].cur) EXCEPT !.to = "queued"])
  /\ UNCHANGED <<market, config, runs, history>>

------------------------------------------------------------------------------
(* The submit of a drained row: submit_paper with its idempotency key.     *)

SubmitRow(s) ==
  /\ Draining(s)
  /\ \E k \in sess[s].todo \ sess[s].vetoed :
       Become(s, [sess[s] EXCEPT !.pc = "submit", !.cur = k])
  /\ UNCHANGED <<market, config, rows, runs, history>>

\* The submit returned BLOCKED: an entry is not tried again by this process,
\* an exit is.
Blocked(s, k) ==
  [Next1(s, k) EXCEPT !.vetoed = IF k \in Exits THEN @ ELSE @ \cup {k}]

\* A risk veto.
Block(s) ==
  /\ At(s, "submit")
  /\ Become(s, Blocked(s, sess[s].cur))
  /\ UNCHANGED <<market, config, rows, runs, history>>

\* The stale_market_data veto judges the frozen bar and is final.
BlockStale(s) ==
  /\ At(s, "submit")
  /\ LET k == sess[s].cur IN
     /\ alerts' = IF k \in Exits THEN alerts \cup {k} ELSE alerts
     /\ Become(s, Settling(s, k, IF k \in Exits THEN "obsolete" ELSE "dropped"))
  /\ UNCHANGED <<market, config, rows, runs, claims, sent, flat, unsuperseded>>

NewClaim(s, k) == [n |-> claims[k].n + 1, by |-> s, day |-> today]

Unedited(k) == Queued(k) /\ rows[k].hash = config

\* consume_queued_intent_and_append_attempt reads the row's hash and hashes the
\* file on disk ...
Rehash(s) ==
  /\ At(s, "submit")
  /\ Unedited(sess[s].cur)
  /\ Goto(s, "consume")
  /\ UNCHANGED <<market, config, rows, runs, history>>

\* ... and then, without the file, one transaction asks the other predicates
\* again, consumes the row and writes the pending attempt.
Claim(s) ==
  /\ At(s, "consume")
  /\ LET k == sess[s].cur IN
     /\ Consumable(s, k)
     /\ Settle(k, "consumed")
     /\ claims' = [claims EXCEPT ![k] = NewClaim(s, k)]
     /\ Goto(s, "send")
  /\ UNCHANGED <<market, config, runs, sent, alerts, flat, unsuperseded>>

\* The hash differs, or the CAS found nothing to consume: no attempt, no order,
\* and BLOCKED too.
Suppress(s) ==
  /\ \/ At(s, "submit") /\ ~Unedited(sess[s].cur)
     \/ At(s, "consume") /\ ~Consumable(s, sess[s].cur)
  /\ Become(s, Blocked(s, sess[s].cur))
  /\ UNCHANGED <<market, config, rows, runs, history>>

Send(s) ==
  /\ At(s, "send")
  /\ sent' = [sent EXCEPT ![sess[s].cur] = @ + 1]
  /\ Goto(s, "answer")
  /\ UNCHANGED <<market, config, rows, runs, claims, alerts, flat, unsuperseded>>

Accepted(s) ==
  /\ At(s, "answer")
  /\ Become(s, Next1(s, sess[s].cur))
  /\ UNCHANGED <<market, config, rows, runs, history>>

\* Fault: an exit whose submit raised is sent again.
FailedResent(s) ==
  /\ At(s, "answer")
  /\ Goto(s, "send")
  /\ UNCHANGED <<market, config, rows, runs, history>>

\* Rejected, or the submit raised: an exit is alerted, nothing is retried.
Failed(s) ==
  /\ At(s, "answer")
  /\ LET k == sess[s].cur IN
     /\ alerts' = IF k \in Exits THEN alerts \cup {k} ELSE alerts
     /\ Become(s, Next1(s, k))
  /\ UNCHANGED <<market, config, rows, runs, claims, sent, flat, unsuperseded>>

------------------------------------------------------------------------------
(* The world: the market's clock, the operator's editor, the seven days.   *)

CloseMarket ==
  /\ open
  /\ open' = FALSE
  /\ UNCHANGED <<today, config, rows, runs, history, sess>>

\* A lock-in takes far less than a night: none spans an opening.
OpenMarket ==
  /\ ~open
  /\ today < MaxDay
  /\ \A s \in Sessions : sess[s].pc \notin {"persist", "supersede"}
  /\ open' = TRUE
  /\ today' = today + 1
  /\ UNCHANGED <<config, rows, runs, history, sess>>

EditConfig ==
  /\ config' \in Hashes \ {config}
  /\ UNCHANGED <<market, rows, runs, history, sess>>

TimePasses ==
  /\ \E k \in Keys :
       /\ Queued(k) /\ ~rows[k].stale
       /\ \A e \in Keys : e.day < k.day => ~Queued(e) \/ rows[e].stale
       /\ rows' = [rows EXCEPT ![k].stale = TRUE]
  /\ UNCHANGED <<market, config, runs, history, sess>>

------------------------------------------------------------------------------
Init ==
  /\ today = 0 /\ open = FALSE
  /\ config \in Hashes
  /\ rows = [k \in Keys |-> NoRow]
  /\ runs = [s \in Sessions |-> "none"]
  /\ claims = [k \in Keys |-> NoClaim]
  /\ sent = [k \in Keys |-> 0]
  /\ alerts = {} /\ flat = {} /\ unsuperseded = {}
  /\ sess = [s \in Sessions |-> Fresh("unborn")]

Poll(s) ==
  \/ Sweep(s) \/ AlertSwept(s) \/ Idle(s) \/ LockIn(s)
  \/ Persist(s) \/ PersistFails(s) \/ Supersede(s) \/ SupersedeFails(s)

Drain(s) ==
  \/ Enumerate(s) \/ ListStranded(s) \/ AlertStranded(s) \/ RetireStranded(s)
  \/ EndDrain(s) \/ Defer(s) \/ DropEntry(s)
  \/ ExitAlreadyFlat(s) \/ DropExit(s) \/ SettleRow(s)

Submit(s) ==
  \/ SubmitRow(s) \/ Block(s) \/ BlockStale(s) \/ Rehash(s) \/ Claim(s) \/ Suppress(s)
  \/ Send(s) \/ Accepted(s) \/ Failed(s)

World == CloseMarket \/ OpenMarket \/ EditConfig \/ TimePasses

Next ==
  \/ World
  \/ \E s \in Sessions :
       \/ Start(s) \/ Register(s) \/ Stop(s) \/ Die(s)
       \/ Poll(s) \/ Drain(s) \/ Submit(s)

Spec == Init /\ [][Next]_vars

\* run() polls for as long as the process lives, and a confirmed bar is in
\* the end decided on (_close_lockin_max_wait_seconds opens the gate anyway).
Fairness == \A s \in Sessions : /\ WF_vars(Register(s) \/ Poll(s) \/ Drain(s) \/ Submit(s))
                                /\ SF_vars(LockIn(s))

FairSpec == Spec /\ Fairness

------------------------------------------------------------------------------
Statuses == {"none", "queued", "consumed", "expired", "obsolete", "dropped"}
Steps == {"unborn", "register", "idle", "swept", "persist", "supersede", "listed",
          "drain", "retire", "settle", "submit", "consume", "send", "answer", "over"}

QueueRows == [status : Statuses, owner : Sessions \cup {NoSession},
              hash : Hashes, stale : BOOLEAN]
Claims == [n : Nat, by : Sessions \cup {NoSession}, day : Days]
Memory == [pc : Steps, todo : SUBSET Keys, stranded : SUBSET Exits, cur : Keys,
           to : Statuses, vetoed : SUBSET (Keys \ Exits), kept : SUBSET Keys,
           watermark : Days \cup {NoDay}]

\* Every variable has its type (the rows of queued_intents, the exit reasons
\* of strategy_runs, the runner's memory).
TypeOK ==
  /\ today \in Days /\ open \in BOOLEAN /\ config \in Hashes
  /\ rows \in [Keys -> QueueRows]
  /\ runs \in [Sessions -> {"none", "open", "controlled_stop", "unclean"}]
  /\ claims \in [Keys -> Claims]
  /\ sent \in [Keys -> Nat]
  /\ alerts \subseteq Keys /\ flat \subseteq Keys /\ unsuperseded \subseteq Keys
  /\ sess \in [Sessions -> Memory]

\* A queued intent reaches the broker at most once, whatever sessions overlap,
\* race for it or die (the exactly-once claim of the consume CAS).
AtMostOneOrder == \A k \in Keys : sent[k] <= 1

\* A consumed row always has its execution attempt, and an attempt never
\* leaves its row queued: the two are one transaction, so that a crash after
\* it leaves something for reconciliation to find.
ClaimedTogether ==
  \A k \in Keys : /\ rows[k].status = "consumed" => claims[k].n = 1
                  /\ claims[k].n > 0 => ~Queued(k)

\* Only a deliberate stop hands an intent to a successor, and the record of
\* it stands: whoever claimed a row queued by another session, that session's
\* run still reads controlled_stop (orphan recovery never rewrites it).
CleanHandoff ==
  \A k \in Keys : claims[k].n > 0 /\ claims[k].by # rows[k].owner
                  => runs[rows[k].owner] = "controlled_stop"

\* Of two lock-ins of the same logical intent only one goes to the market on
\* a day, unless retiring the older one failed (supersede_queued_intents).
OneOrderPerOpen ==
  \A k \in Keys : \A e \in Elders(k) :
     claims[k].n > 0 /\ claims[e].n > 0 /\ claims[k].day = claims[e].day
     => k \in unsuperseded

\* An exit leaves the queue unsent only with a reason on record: an alert, a
\* closed position, or a later lock-in of the same exit.
ExitRetiredForReason ==
  \A k \in Exits : rows[k].status \in {"obsolete", "dropped"} =>
     \/ k \in alerts
     \/ k \in flat
     \/ \E y \in Exits : k \in Elders(y) /\ rows[y].status # "none"

\* An expired row does not linger: while any session lives, a sweep settles it
\* (or it was settled some other way first).
NothingLingers ==
  \A k \in Keys : (Queued(k) /\ rows[k].stale)
                    ~> (~Queued(k) \/ \A s \in Sessions : ~Live(s))

\* (violated) "The sweep therefore emits an exit_intent_dropped alert for
\* every swept EXIT": an expired exit is alerted, or its sweeper is about to.
SweptExitAlerted ==
  \A k \in Exits : rows[k].status = "expired" =>
     k \in alerts \/ \E s \in Sessions : At(s, "swept") /\ k \in sess[s].todo

\* (violated) "the runner goes inert for the rest of the closed-market
\* period": after every close a live session comes to decide on that close.
EveryCloseDecided ==
  \A s \in Sessions : \A d \in Days :
     (Live(s) /\ ~open /\ today = d)
       ~> (sess[s].watermark = d \/ At(s, "persist") \/ open \/ ~Live(s))
==============================================================================
