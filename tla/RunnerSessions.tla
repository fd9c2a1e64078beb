--------------------------- MODULE RunnerSessions ---------------------------
(***************************************************************************)
(* The processes around one strategy: runners started by the CLI or by the *)
(* GUI's PaperRunnerControl, the operator's controlled stop, and the       *)
(* reaper of strategies/orphan_reconciliation.py.  They meet in three      *)
(* places: the runner lock file, the controlled-stop request file and the  *)
(* strategy_runs table.                                                    *)
(*                                                                         *)
(* A runner is a process that runs once.  Looking at a lock file and       *)
(* removing a stale one is a single step here: AdvisoryLock has the race   *)
(* between the two, and the reuse of pids.  Creating the file and writing  *)
(* the holder into it are two steps, because others read in between.       *)
(***************************************************************************)
EXTENDS Naturals, FiniteSets

CONSTANTS Runners,    \* runner processes
          Nobody,     \* no process, no readable holder, no request
          MaxEvents   \* bound: stop requests, and suspensions of the machine

ASSUME RunnerSessionsAssumption ==
    /\ Nobody \notin Runners
    /\ MaxEvents \in Nat

VARIABLES pc,        \* where each runner is
          mode,      \* _requested_shutdown / the exit mode of run()
          row,       \* its strategy_runs row: none, open, or the exit reason
          latest,    \* the session whose row was appended last
          lock,      \* the runner lock file
          stop,      \* the controlled-stop request file: whom it names
          launcher,  \* PaperRunnerControl.start: idle, clear, spawn
          asking,    \* the holder the operator saw and is about to stop
          reaper,    \* the reaper's step and holder snapshot
          exposed,   \* runners whose file the reaper's last re-check could not see
          stolen,    \* live runners whose lock file somebody else removed
          events     \* how many of them there were

vars == <<pc, mode, row, latest, lock, stop, launcher, asking, reaper,
          exposed, stolen, events>>

NoFile == [by |-> Nobody, pid |-> Nobody, aged |-> FALSE]

Modes == {"controlled", "kill_switch", "interrupted", "crashed"}
Orphan == {"orphan_recovered", "orphaned_no_live_runner"}
Reasons == {"controlled_stop", "kill_switch", "interrupted", "crashed"} \cup Orphan

Section == {"register", "append", "loop", "closing", "release"}
PCs == Section \cup {"idle", "acquire", "create", "write", "done", "dead"}
Reaping == {"idle", "listed", "guard1", "close", "guard2", "unlink"}

Alive(r) == pc[r] \notin {"idle", "done", "dead"}

\* holder_is_live: an unreadable or missing file has no live holder.
Live(h) == h # Nobody /\ Alive(h)

Goto(r, label) == pc' = [pc EXCEPT ![r] = label]

Removed(by) == IF Live(lock.by) /\ lock.by # by THEN stolen \cup {lock.by} ELSE stolen

Init == /\ pc = [r \in Runners |-> "idle"]
        /\ mode = [r \in Runners |-> "none"]
        /\ row = [r \in Runners |-> "none"]
        /\ latest = Nobody
        /\ lock = NoFile
        /\ stop = Nobody
        /\ launcher = "idle"
        /\ asking = Nobody
        /\ reaper = [at |-> "idle", snap |-> Nobody]
        /\ exposed = {}
        /\ stolen = {}
        /\ events = 0

others == <<launcher, asking, events>>

-----------------------------------------------------------------------------
(* A runner: `milodex strategy run`                                        *)

\* Started from a terminal: neither a probe nor a cleared request.
RunFromCli(r) ==
    /\ pc[r] = "idle"
    /\ Goto(r, "acquire")
    /\ UNCHANGED <<mode, row, latest, lock, stop, reaper, exposed, stolen, others>>

\* Fault: a live holder is no obstacle.
TakeAnyway(r) ==
    /\ pc[r] = "acquire"
    /\ lock' = IF lock.pid = Nobody THEN lock ELSE NoFile
    /\ Goto(r, "create")
    /\ UNCHANGED <<mode, row, latest, stop, reaper, exposed, stolen, others>>

\* AdvisoryLock.acquire up to the unlink: a live, recent holder refuses.
TakeOver(r) ==
    /\ pc[r] = "acquire"
    /\ IF Live(lock.pid) /\ ~lock.aged
       THEN Goto(r, "done") /\ UNCHANGED <<lock, stolen>>
       ELSE /\ Goto(r, "create")
            /\ lock' = IF lock.pid = Nobody THEN lock ELSE NoFile
            /\ stolen' = IF lock.pid = Nobody THEN stolen ELSE Removed(r)
    /\ UNCHANGED <<mode, row, latest, stop, reaper, exposed, others>>

Create(r) ==
    /\ pc[r] = "create"
    /\ IF lock.by = Nobody
       THEN /\ lock' = [NoFile EXCEPT !.by = r]
            /\ Goto(r, "write")
            /\ exposed' = IF reaper.at = "unlink" THEN exposed \cup {r} ELSE exposed
       ELSE Goto(r, "done") /\ UNCHANGED <<lock, exposed>>
    /\ UNCHANGED <<mode, row, latest, stop, reaper, stolen, others>>

WriteHolder(r) ==
    /\ pc[r] = "write"
    /\ lock' = IF lock.by = r THEN [lock EXCEPT !.pid = r] ELSE lock
    /\ Goto(r, "register")
    /\ UNCHANGED <<mode, row, latest, stop, reaper, exposed, stolen, others>>

\* StrategyRunner.__init__ closes what dead sessions left open ...
Register(r) ==
    /\ pc[r] = "register"
    /\ row' = [q \in Runners |-> IF row[q] = "open" THEN "orphan_recovered" ELSE row[q]]
    /\ Goto(r, "append")
    /\ UNCHANGED <<mode, latest, lock, stop, reaper, exposed, stolen, others>>

\* ... and appends its own row, in a second transaction.
AppendRow(r) ==
    /\ pc[r] = "append"
    /\ row' = [row EXCEPT ![r] = "open"]
    /\ latest' = r
    /\ Goto(r, "loop")
    /\ UNCHANGED <<mode, lock, stop, reaper, exposed, stolen, others>>

\* The strategy cannot be built; the with block still releases the lock.
BuildFails(r) ==
    /\ pc[r] = "register"
    /\ Goto(r, "release")
    /\ UNCHANGED <<mode, row, latest, lock, stop, reaper, exposed, stolen, others>>

\* consume_controlled_stop_request does not look at the holder the request
\* names.  A garbled file is moved aside.  The watch ends when a shutdown was
\* already requested; then the request stays.
Poll(r) ==
    /\ pc[r] = "loop"
    /\ lock' = [lock EXCEPT !.aged = FALSE]
    /\ IF mode[r] = "none"
       THEN /\ mode' = [mode EXCEPT ![r] = IF stop \in Runners THEN "controlled" ELSE "none"]
            /\ stop' = Nobody
       ELSE UNCHANGED <<mode, stop>>
    /\ Goto(r, IF mode'[r] = "none" THEN "loop" ELSE "closing")
    /\ UNCHANGED <<row, latest, reaper, exposed, stolen, others>>

\* The dialog of _handle_sigint: c, or k (and any second Ctrl-C).
Sigint(r) ==
    /\ pc[r] = "loop"
    /\ \E m \in {"controlled", "kill_switch"} : mode' = [mode EXCEPT ![r] = m]
    /\ UNCHANGED <<pc, row, latest, lock, stop, reaper, exposed, stolen, others>>

\* A raw KeyboardInterrupt, or any exception out of run_cycle (a spent
\* connectivity budget included).
Break(r) ==
    /\ pc[r] = "loop"
    /\ \E m \in {"interrupted", "crashed"} : mode' = [mode EXCEPT ![r] = m]
    /\ Goto(r, "closing")
    /\ UNCHANGED <<row, latest, lock, stop, reaper, exposed, stolen, others>>

\* shutdown(): the row, if it is still open.  The halt that the kill_switch
\* mode makes first is SubmitPath's.
Shutdown(r) ==
    /\ pc[r] = "closing"
    /\ row' = [row EXCEPT ![r] = IF @ # "open" THEN @
                                 ELSE IF mode[r] = "controlled" THEN "controlled_stop"
                                 ELSE mode[r]]
    /\ Goto(r, "release")
    /\ UNCHANGED <<mode, latest, lock, stop, reaper, exposed, stolen, others>>

\* Fault: the error path frees the lock before the process is over.
FailsUnlocked(r) ==
    /\ pc[r] = "closing"
    /\ lock' = IF lock.pid = r THEN NoFile ELSE lock
    /\ Goto(r, "release")
    /\ UNCHANGED <<mode, row, latest, stop, reaper, exposed, stolen, others>>

\* The event store refuses (a lock timeout): the row stays open.
ShutdownFails(r) ==
    /\ pc[r] = "closing"
    /\ Goto(r, "release")
    /\ UNCHANGED <<mode, row, latest, lock, stop, reaper, exposed, stolen, others>>

Release(r) ==
    /\ pc[r] = "release"
    /\ lock' = IF lock.pid = r THEN NoFile ELSE lock
    /\ Goto(r, "done")
    /\ UNCHANGED <<mode, row, latest, stop, reaper, exposed, stolen, others>>

Kill(r) ==
    /\ Alive(r)
    /\ Goto(r, "dead")
    /\ UNCHANGED <<mode, row, latest, lock, stop, reaper, exposed, stolen, others>>

-----------------------------------------------------------------------------
(* PaperRunnerControl and the operator                                     *)

runners == <<mode, row, latest, lock, exposed, stolen>>

\* _existing_live_runner refuses; a dead holder does not.
Probe ==
    /\ launcher = "idle"
    /\ ~Live(lock.pid)
    /\ launcher' = "clear"
    /\ UNCHANGED <<runners, pc, stop, asking, reaper, events>>

\* The pending request is deleted, whoever wrote it and for whom.
ClearRequest ==
    /\ launcher = "clear"
    /\ stop' = Nobody
    /\ launcher' = "spawn"
    /\ UNCHANGED <<runners, pc, asking, reaper, events>>

Spawn(r) ==
    /\ launcher = "spawn"
    /\ pc[r] = "idle"
    /\ Goto(r, "acquire")
    /\ launcher' = "idle"
    /\ UNCHANGED <<runners, stop, asking, reaper, events>>

\* Popen fails.
SpawnFails ==
    /\ launcher = "spawn"
    /\ launcher' = "idle"
    /\ UNCHANGED <<runners, pc, stop, asking, reaper, events>>

\* Stop Trading, or one runner of `milodex halt`: the live holder is read ...
SeeHolder ==
    /\ asking = Nobody
    /\ events < MaxEvents
    /\ Live(lock.pid)
    /\ asking' = lock.pid
    /\ events' = events + 1
    /\ UNCHANGED <<runners, pc, stop, launcher, reaper>>

\* ... and the request written, replacing any other.
RequestStop ==
    /\ asking # Nobody
    /\ stop' = asking
    /\ asking' = Nobody
    /\ UNCHANGED <<runners, pc, launcher, reaper, events>>

\* A request written by hand that does not parse.
GarbledRequest ==
    /\ events < MaxEvents
    /\ stop' = "garbled"
    /\ events' = events + 1
    /\ UNCHANGED <<runners, pc, launcher, asking, reaper>>

-----------------------------------------------------------------------------
(* reconcile_orphaned_runs_on_bootstrap                                    *)

sessions == <<pc, mode, latest, stop, others>>

ReapAt(label) == reaper' = [reaper EXCEPT !.at = label]

ListOpen ==
    /\ reaper.at = "idle"
    /\ \E r \in Runners : row[r] = "open"
    /\ ReapAt("listed")
    /\ UNCHANGED <<sessions, row, lock, exposed, stolen>>

Classify ==
    /\ reaper.at = "listed"
    /\ reaper' = IF Live(lock.pid) THEN [at |-> "idle", snap |-> Nobody]
                 ELSE [at |-> "guard1", snap |-> lock.pid]
    /\ UNCHANGED <<sessions, row, lock, exposed, stolen>>

\* Fault: the comparison is the wrong way round.
Guard1Inverted ==
    /\ reaper.at = "guard1"
    /\ ReapAt(IF lock.pid # reaper.snap THEN "close" ELSE "idle")
    /\ UNCHANGED <<sessions, row, lock, exposed, stolen>>

Guard1 ==
    /\ reaper.at = "guard1"
    /\ ReapAt(IF lock.pid = reaper.snap THEN "close" ELSE "idle")
    /\ UNCHANGED <<sessions, row, lock, exposed, stolen>>

\* The UPDATE takes every open row of the strategy.
CloseRows ==
    /\ reaper.at = "close"
    /\ row' = [r \in Runners |-> IF row[r] = "open" THEN "orphaned_no_live_runner"
                                 ELSE row[r]]
    /\ ReapAt("guard2")
    /\ UNCHANGED <<sessions, lock, exposed, stolen>>

\* Fault: the second re-check is dropped.
NoGuard2 ==
    /\ reaper.at = "guard2"
    /\ ReapAt("unlink")
    /\ UNCHANGED <<sessions, row, lock, exposed, stolen>>

Guard2 ==
    /\ reaper.at = "guard2"
    /\ ReapAt(IF lock.pid = reaper.snap THEN "unlink" ELSE "idle")
    /\ exposed' = IF lock.pid = Nobody /\ lock.by # Nobody THEN {lock.by} ELSE {}
    /\ UNCHANGED <<sessions, row, lock, stolen>>

UnlinkLock ==
    /\ reaper.at = "unlink"
    /\ stolen' = Removed(Nobody)
    /\ lock' = NoFile
    /\ ReapAt("idle")
    /\ UNCHANGED <<sessions, row, exposed>>

-----------------------------------------------------------------------------
\* A suspended machine wakes up after more than _STALE_LOCK_MAX_AGE_SECONDS.
Sleep ==
    /\ events < MaxEvents
    /\ lock.by # Nobody
    /\ lock' = [lock EXCEPT !.aged = TRUE]
    /\ events' = events + 1
    /\ UNCHANGED <<pc, mode, row, latest, stop, launcher, asking, reaper,
                   exposed, stolen>>

StartUp(r) == TakeOver(r) \/ Create(r) \/ WriteHolder(r) \/ Register(r) \/ AppendRow(r)

Finish(r) == Shutdown(r) \/ ShutdownFails(r) \/ Release(r)

Reap == ListOpen \/ Classify \/ Guard1 \/ CloseRows \/ Guard2 \/ UnlinkLock

Launch == Probe \/ ClearRequest \/ (\E r \in Runners : Spawn(r)) \/ SpawnFails

Next == \/ \E r \in Runners : \/ RunFromCli(r) \/ StartUp(r) \/ BuildFails(r)
                              \/ Poll(r) \/ Sigint(r) \/ Break(r)
                              \/ Finish(r) \/ Kill(r)
        \/ Launch
        \/ SeeHolder \/ RequestStop \/ GarbledRequest
        \/ Reap
        \/ Sleep

Spec == Init /\ [][Next]_vars

\* A running process goes on and the GUI's timer drives the reaper.  Nobody
\* has to start, stop or die.
Fairness == /\ \A r \in Runners : /\ WF_vars(StartUp(r))
                                  /\ WF_vars(Poll(r))
                                  /\ WF_vars(Finish(r))
            /\ WF_vars(Reap)

FairSpec == Spec /\ Fairness

-----------------------------------------------------------------------------
(* runner_status.py                                                        *)

\* resolve_runner_liveness for the session `milodex strategy status` shows.
Status ==
    IF latest = Nobody
    THEN IF Live(lock.pid) THEN "running" ELSE "never_ran"
    ELSE IF row[latest] = "open"
         THEN IF Live(lock.pid) THEN "running" ELSE "phantom"
         ELSE IF row[latest] \in {"kill_switch", "crashed"} \cup Orphan
              THEN "failed" ELSE "stopped"

\* classify_stop_request; a request that is not consumed in time is wedged.
StopState(old) ==
    IF stop = Nobody THEN "none"
    ELSE IF ~Live(lock.pid) THEN "moot"
    ELSE IF old THEN "wedged" ELSE "pending"

-----------------------------------------------------------------------------
(* Properties                                                              *)

TypeOK == /\ pc \in [Runners -> PCs]
          /\ mode \in [Runners -> Modes \cup {"none"}]
          /\ row \in [Runners -> Reasons \cup {"none", "open"}]
          /\ latest \in Runners \cup {Nobody}
          /\ lock \in [by : Runners \cup {Nobody}, pid : Runners \cup {Nobody}, aged : BOOLEAN]
          /\ stop \in Runners \cup {Nobody, "garbled"}
          /\ launcher \in {"idle", "clear", "spawn"}
          /\ asking \in Runners \cup {Nobody}
          /\ reaper \in [at : Reaping, snap : Runners \cup {Nobody}]
          /\ exposed \subseteq Runners
          /\ stolen \subseteq Runners
          /\ events \in 0..MaxEvents

\* Two runners of one strategy never trade at once, however the GUI and the
\* CLI start them and the reaper cleans up, unless somebody removed the lock
\* file of a live one (the reaper's window, or a machine that slept).
OneRunner ==
    \A p, q \in {r \in Runners : pc[r] \in Section} \ stolen : p = q

\* The reaper removes the lock of a live runner only if that runner created it
\* after the second re-check, or had not written it yet when the re-check read
\* it; a runner whose lock it could see keeps it.
StealsOnlyUnseen ==
    [][\A r \in stolen' \ stolen : reaper.at = "unlink" /\ reaper'.at = "idle"
                                     => r \in exposed]_vars

\* A session displayed as a phantom ("open session row with no live process")
\* has no process any more, unless its lock was taken from it.
PhantomIsDead ==
    Status = "phantom" /\ latest \notin stolen => ~Alive(latest)

\* The row of a runner that was killed does not stay open: its successor or
\* the reaper closes it, unless another runner took its lock while it lived
\* and now goes on for ever.
OrphanClosed ==
    \A r \in Runners : (pc[r] = "dead" /\ row[r] = "open" /\ r \notin stolen)
                          ~> (row[r] # "open")

\* "a genuinely-running runner is never reaped"
\* (strategies/orphan_reconciliation.py:14).
NeverReapsRunning ==
    [][\A r \in Runners \ stolen :
          row[r] = "open" /\ row'[r] = "orphaned_no_live_runner" => ~Alive(r)]_vars

\* A moot request "can never be consumed but is harmless"
\* (strategies/runner_status.py, classify_stop_request).
MootIsHarmless ==
    [][\A r \in Runners :
          stop \in Runners /\ pc[stop] = "dead" /\ pc[r] = "loop" =>
             pc'[r] # "closing" \/ stop' = stop]_vars

=============================================================================
