------------------------------- MODULE Bench --------------------------------
(***************************************************************************)
(* The GUI's command desk: BenchCommandBridge (gui/) in front of           *)
(* BenchCommandFacade (commands/bench.py), on top of Governance.  A        *)
(* proposal is previewed, waits in the bridge, is taken once by a worker   *)
(* of the thread pool, revalidated against the state of that moment, and   *)
(* dispatched: to the governance calls, to a backtest, or to the control   *)
(* of the paper runner, whose process and session row are here in short    *)
(* (RunnerSessions has them in full).                                      *)
(*                                                                         *)
(* What workflow readiness finds wrong is chosen anew at each evaluation:  *)
(* reconciliation, the kill switch, the data and the broker may all change *)
(* between two of them.                                                    *)
(***************************************************************************)
EXTENDS Governance

CONSTANTS Proposals,   \* places for a proposal on the bridge's desk
          Crews        \* who is at work: one of these sets in each behaviour

ASSUME BenchAssumption == \A c \in Crews : c \subseteq Operators

VARIABLES crew,      \* the operators of this behaviour
          desk,      \* the bridge's proposals, one after another in each place
          work,      \* what each worker of the bridge's pool is doing
          jobs,      \* the orchestration job of each proposal
          results,   \* what each submit returned
          proc,      \* the runner process: none, starting, up
          open,      \* the latest open strategy_runs row: none, own, orphan
          asked,     \* a controlled-stop request is pending
          stopped    \* the bridge was shut down

session == <<proc, open, asked>>
bvars == <<gvars, crew, desk, work, jobs, results, session, stopped>>

Dimensions == {"reconciliation", "kill_switch", "data_freshness", "broker_reachability"}

Request(f, args) == [family : {f}, arg : args]
Requests ==
    Request("backtest", {"none"}) \cup Request("freeze_manifest", {"none"})
    \cup Request("promote_to_paper", {"statistical", "lifecycle_exempt"})
    \cup Request("demote", {"idle", "backtest", "disabled"})
    \cup Request("start_paper_runner", {"none"}) \cup Request("stop_paper_runner", {"none"})

Empty == [family |-> "none"]
Popped == [family |-> "taken"]

BenchInit ==
    /\ Init
    /\ crew \in Crews
    /\ desk = [p \in Proposals |-> Empty]
    /\ work = [w \in Awaited |-> Idle]
    /\ jobs = [p \in Proposals |-> "none"]
    /\ results = [p \in Proposals |-> "none"]
    /\ proc = "none"
    /\ open \in {"none", "orphan"}
    /\ asked = FALSE
    /\ stopped = FALSE

\* _peek_runner_lock: a live process holds the runner lock.
HolderIsLive == proc # "none"

Dead == [at |-> "dead"]
Tasks == [at : {"revalidate", "dispatch", "await", "returning", "engine", "launch", "link"},
          of : Proposals, request : Requests,
          seen : Stages \cup {None}]   \* the stage its revalidation read
Work(w, step) == work' = [work EXCEPT ![w] = step]

-----------------------------------------------------------------------------
(* Proposals                                                               *)

\* The readiness each family asks for; the rest is only shown.
Required(family) ==
    CASE family = "promote_to_paper" -> Dimensions
      [] family = "start_paper_runner" -> Dimensions \ {"data_freshness"}
      [] family = "demote" ->
            IF HolderIsLive THEN {"reconciliation", "kill_switch"} ELSE {}
      [] OTHER -> {}

\* The blockers of propose_*, apart from the readiness.
BacktestAdmissible == TRUE
FreezeAdmissible == file.stage = "paper"
PromoteAdmissible(kind) == /\ file.stage = "backtest"
                           /\ kind = "statistical" => tests # {}
DemoteAdmissible(to) == to # "disabled" /\ to # file.stage
StartAdmissible == file.stage = "paper" /\ ~HolderIsLive
StopAdmissible == HolderIsLive

Admissible(r, issues) ==
    /\ Required(r.family) \cap issues = {}
    /\ CASE r.family = "backtest" -> BacktestAdmissible
         [] r.family = "freeze_manifest" -> FreezeAdmissible
         [] r.family = "promote_to_paper" -> PromoteAdmissible(r.arg)
         [] r.family = "demote" -> DemoteAdmissible(r.arg)
         [] r.family = "start_paper_runner" -> StartAdmissible
         [] r.family = "stop_paper_runner" -> StopAdmissible

\* The proposal is kept whatever its preview says: the submit decides again.
\* Its place on the desk may be that of one that was dealt with.
Propose(p, r) ==
    /\ ~stopped
    /\ desk[p] \in {Empty, Popped}
    /\ \A w \in Awaited : work[w] \notin {Idle, Dead} => work[w].of # p
    /\ desk' = [desk EXCEPT ![p] = r]
    /\ jobs' = [jobs EXCEPT ![p] = "none"]
    /\ results' = [results EXCEPT ![p] = "none"]
    /\ UNCHANGED <<gvars, crew, work, session, stopped>>

-----------------------------------------------------------------------------
(* Submission                                                              *)

\* _submit_sync and _submit_async pop the proposal; a second click finds none.
Take(w, p) ==
    /\ ~stopped
    /\ work[w] = Idle
    /\ desk[p] \in Requests
    /\ desk' = [desk EXCEPT ![p] = Popped]
    /\ Work(w, [at |-> "revalidate", of |-> p, request |-> desk[p], seen |-> None])
    /\ UNCHANGED <<gvars, crew, jobs, results, session, stopped>>

\* The submit_* methods propose again: what was admissible may have gone stale.
Revalidate(w, issues) ==
    /\ work[w].at = "revalidate"
    /\ IF Admissible(work[w].request, issues)
       THEN /\ Work(w, [work[w] EXCEPT !.at = "dispatch", !.seen = file.stage])
            /\ UNCHANGED results
       ELSE /\ Work(w, Idle)
            /\ results' = [results EXCEPT ![work[w].of] = "blocked"]
    /\ UNCHANGED <<gvars, crew, desk, jobs, session, stopped>>

\* The job is created as running, unless journaling fails.
Journal(w) == \E journaled \in BOOLEAN :
    jobs' = [jobs EXCEPT ![work[w].of] = IF journaled THEN "running" ELSE "none"]

\* The state a job ends in.
Ended == [submitted |-> "completed", blocked |-> "blocked", error |-> "failed"]

\* Fault: what is not blocked is completed.
FinishUnlessBlocked(p, said) ==
    /\ results' = [results EXCEPT ![p] = said]
    /\ \/ jobs' = [jobs EXCEPT ![p] = IF @ = "none" THEN @
                                      ELSE IF said = "blocked" THEN "blocked" ELSE "completed"]
       \/ UNCHANGED jobs

\* The result, and the job's state with it (_finish_orchestration_job), unless
\* the store refuses: the result stands.
Finish(p, said) ==
    /\ results' = [results EXCEPT ![p] = said]
    /\ \/ jobs' = [jobs EXCEPT ![p] = IF @ = "none" THEN @ ELSE Ended[said]]
       \/ UNCHANGED jobs

\* promote, demote and freeze begin their governance call ...
DispatchPromote(w, kind) ==
    \/ kind = "statistical" /\ \E t \in tests : Promote(w, kind, t)
    \/ kind = "lifecycle_exempt" /\ Promote(w, kind, None)

DispatchGovernance(w) ==
    LET r == work[w].request IN
    /\ work[w].at = "dispatch"
    /\ \/ r.family = "promote_to_paper" /\ DispatchPromote(w, r.arg)
       \/ r.family = "demote" /\ Demote(w, r.arg)
       \/ r.family = "freeze_manifest" /\ Freeze(w)
    /\ Work(w, [work[w] EXCEPT !.at = "await"])
    /\ UNCHANGED <<crew, desk, jobs, results, session, stopped>>

\* ... which may refuse: no valid transition, or a gate that stays shut.
PromoteRefused(kind) ==
    \/ ~ValidTransition(kind)
    \/ kind = "lifecycle_exempt" /\ ~Gate(kind, None)
    \/ kind = "statistical" /\ \E t \in tests \cup {None} : ~Gate(kind, t)
DemoteRefused(to) == file.stage = to
FreezeRefused == file.stage # "paper"

RefusedByGovernance(w) ==
    LET r == work[w].request IN
    /\ work[w].at = "dispatch"
    /\ \/ r.family = "promote_to_paper" /\ PromoteRefused(r.arg)
       \/ r.family = "demote" /\ DemoteRefused(r.arg)
       \/ r.family = "freeze_manifest" /\ FreezeRefused
    /\ Work(w, Idle)
    /\ results' = [results EXCEPT ![work[w].of] = "blocked"]
    /\ UNCHANGED <<gvars, crew, desk, jobs, session, stopped>>

\* The governance call returned; one that raised leaves the bridge's slot
\* without a result.
Answer(w) ==
    /\ work[w].at = "await"
    /\ op[w].at = "over"
    /\ op' = [op EXCEPT ![w] = Idle]
    /\ Work(w, Idle)
    /\ results' = [results EXCEPT ![work[w].of] = IF op[w].said = "raised" THEN @
                                                 ELSE op[w].said]
    /\ UNCHANGED <<file, rows, around, crew, desk, jobs, session, stopped>>

\* submit_backtest: the job first (unless journaling fails), then a strategy
\* that was idle when the proposal was revalidated is returned to backtest, and
\* not taken back if the run fails.
AcceptBacktest(w) ==
    /\ work[w].at = "dispatch"
    /\ work[w].request.family = "backtest"
    /\ ~Full
    /\ Journal(w)
    /\ IF work[w].seen = "idle"
       THEN Begin(w, [at |-> "rewrite"]) /\ Work(w, [work[w] EXCEPT !.at = "returning"])
       ELSE UNCHANGED op /\ Work(w, [work[w] EXCEPT !.at = "engine"])
    /\ UNCHANGED <<file, rows, around, crew, desk, results, session, stopped>>

\* A record-return that raises reaches the bridge's worker past the job, which
\* goes on saying that it runs.
Returned(w) ==
    /\ work[w].at = "returning"
    /\ op[w].at = "over"
    /\ op' = [op EXCEPT ![w] = Idle]
    /\ CASE op[w].said = "submitted" ->
              Work(w, [work[w] EXCEPT !.at = "engine"]) /\ UNCHANGED <<jobs, results>>
         [] op[w].said = "raised" ->
              /\ Work(w, Idle)
              /\ results' = [results EXCEPT ![work[w].of] = "error"]
              /\ UNCHANGED jobs
         [] OTHER -> Work(w, Idle) /\ Finish(work[w].of, "error")
    /\ UNCHANGED <<file, rows, around, crew, desk, session, stopped>>

EngineRuns(w, v) ==
    /\ work[w].at = "engine"
    /\ RunBacktest(v)
    /\ Work(w, Idle)
    /\ Finish(work[w].of, "submitted")
    /\ UNCHANGED <<crew, desk, session, stopped>>

EngineFails(w) ==
    /\ work[w].at = "engine"
    /\ Work(w, Idle)
    /\ Finish(work[w].of, "error")
    /\ UNCHANGED <<gvars, crew, desk, session, stopped>>

-----------------------------------------------------------------------------
(* The runner's process                                                    *)

LaunchRunner(w) ==
    /\ work[w].at = "dispatch"
    /\ work[w].request.family = "start_paper_runner"
    /\ Journal(w)
    /\ Work(w, [work[w] EXCEPT !.at = "launch"])
    /\ UNCHANGED <<gvars, crew, desk, results, session, stopped>>

\* PaperRunnerControl.start refuses beside a live holder, clears a pending
\* stop request, and spawns; before and after the clearing it may fail.
Spawned(w) ==
    /\ work[w].at = "launch"
    /\ \/ /\ ~HolderIsLive
          /\ proc' = "starting"
          /\ asked' = FALSE
          /\ Work(w, [work[w] EXCEPT !.at = "link"])
          /\ UNCHANGED <<jobs, results>>
       \/ /\ Work(w, Idle)
          /\ Finish(work[w].of, "error")
          /\ asked' \in IF HolderIsLive THEN {asked} ELSE {asked, FALSE}
          /\ UNCHANGED proc
    /\ UNCHANGED <<gvars, crew, desk, open, stopped>>

\* The poll takes the latest open row, whoever's it is ...
Linked(w) ==
    /\ work[w].at = "link"
    /\ open # "none"
    /\ Work(w, Idle)
    /\ Finish(work[w].of, "submitted")
    /\ UNCHANGED <<gvars, crew, desk, session, stopped>>

\* ... and gives up after fifteen seconds; the process goes on regardless.
LinkTimesOut(w) ==
    /\ work[w].at = "link"
    /\ open = "none"
    /\ Work(w, Idle)
    /\ Finish(work[w].of, "error")
    /\ UNCHANGED <<gvars, crew, desk, session, stopped>>

\* submit_stop_paper_runner looks again: holder, then session; then the request
\* is written, or is not.
RequestStop(w) ==
    /\ work[w].at = "dispatch"
    /\ work[w].request.family = "stop_paper_runner"
    /\ IF HolderIsLive /\ open # "none"
       THEN \E said \in {"submitted", "error"} :
            /\ asked' = (asked \/ said = "submitted")
            /\ \E state \in {"none", "running", Ended[said]} :
                 jobs' = [jobs EXCEPT ![work[w].of] = state]
            /\ results' = [results EXCEPT ![work[w].of] = said]
       ELSE /\ results' = [results EXCEPT ![work[w].of] = "blocked"]
            /\ UNCHANGED <<asked, jobs>>
    /\ Work(w, Idle)
    /\ UNCHANGED <<gvars, crew, desk, proc, open, stopped>>

\* The process loads the file, closes the orphans' rows and opens its own.
RunnerUp ==
    /\ proc = "starting"
    /\ IF file.stage = "paper"
       THEN proc' = "up" /\ open' = "own" /\ runner' = file.stage
       ELSE proc' = "none" /\ UNCHANGED <<open, runner>>
    /\ UNCHANGED <<file, rows, tests, vetoed, edits, op, asked>>
    /\ UNCHANGED <<crew, desk, work, jobs, results, stopped>>

\* It finds a stop request at the end of a cycle.
RunnerStops ==
    /\ proc = "up" /\ asked
    /\ proc' = "none" /\ open' = "none" /\ asked' = FALSE
    /\ StopRunner
    /\ UNCHANGED <<crew, desk, work, jobs, results, stopped>>

RunnerDies ==
    /\ proc # "none"
    /\ proc' = "none"
    /\ open' = IF open = "own" THEN "orphan" ELSE open
    /\ runner' = None
    /\ UNCHANGED <<file, rows, tests, vetoed, edits, op, asked>>
    /\ UNCHANGED <<crew, desk, work, jobs, results, stopped>>

\* BenchCommandBridge.stop: what was taken goes on, nothing more is taken.
StopBridge ==
    /\ ~stopped
    /\ stopped' = TRUE
    /\ UNCHANGED <<gvars, crew, desk, work, jobs, results, session>>

\* The GUI's process dies with its workers, between two of their steps.
GuiDies ==
    /\ work' = [w \in Awaited |-> Dead]
    /\ op' = [o \in Operators |-> IF o \in Awaited THEN Idle ELSE op[o]]
    /\ stopped' = TRUE
    /\ UNCHANGED <<file, rows, around, crew, desk, jobs, results, session>>

Submit(w) ==
    \/ \E p \in Proposals : Take(w, p)
    \/ \E issues \in SUBSET Dimensions : Revalidate(w, issues)
    \/ DispatchGovernance(w)
    \/ RefusedByGovernance(w)
    \/ Answer(w)
    \/ AcceptBacktest(w)
    \/ Returned(w)
    \/ \E v \in Verdicts : EngineRuns(w, v)
    \/ EngineFails(w)
    \/ LaunchRunner(w)
    \/ Spawned(w)
    \/ Linked(w)
    \/ LinkTimesOut(w)
    \/ RequestStop(w)

Bystanders == <<crew, desk, work, jobs, results, session, stopped>>

\* A worker's calls go on by Progress; it begins none of its own.
BenchNext ==
    \/ \E o \in crew \ Awaited : Govern(o) /\ UNCHANGED Bystanders
    \/ \E w \in crew \cap Awaited : (Progress(w) \/ Returning(w)) /\ UNCHANGED Bystanders
    \/ \E w \in crew \cap Awaited : Submit(w)
    \/ crew \cap Awaited = {} /\ (StartRunner \/ StopRunner) /\ UNCHANGED Bystanders
    \/ World /\ UNCHANGED Bystanders
    \/ /\ crew \cap Awaited # {}
       /\ \/ \E p \in Proposals, r \in Requests : Propose(p, r)
          \/ RunnerUp
          \/ RunnerStops
          \/ RunnerDies
          \/ StopBridge
          \/ GuiDies

BenchSpec == BenchInit /\ [][BenchNext]_bvars

-----------------------------------------------------------------------------
(* Properties                                                              *)

TypeOK ==
    /\ GovernanceTypeOK
    /\ crew \subseteq Operators
    /\ desk \in [Proposals -> Requests \cup {Empty, Popped}]
    /\ work \in [Awaited -> {Idle, Dead} \cup Tasks]
    /\ jobs \in [Proposals -> {"none", "running", "completed", "blocked", "failed"}]
    /\ results \in [Proposals -> {"none", "submitted", "blocked", "error"}]
    /\ proc \in {"none", "starting", "up"}
    /\ open \in {"none", "own", "orphan"}
    /\ asked \in BOOLEAN /\ stopped \in BOOLEAN
    /\ (proc = "up") = (runner # None) \/ crew \cap Awaited = {}

\* A job that is over says what its submit returned; one that says running has
\* a worker, or the GUI died on it, or its submit returned without noting it:
\* the store refused, or an exception went past the job
\* (_finish_orchestration_job, submit_backtest).
JobsTellTheTruth ==
    \A p \in Proposals :
        /\ jobs[p] = "completed" => results[p] = "submitted"
        /\ jobs[p] = "failed" => results[p] = "error"
        /\ jobs[p] = "blocked" => results[p] = "blocked"
        /\ jobs[p] = "running" /\ results[p] = "none" => \E w \in Awaited :
              work[w] = Dead \/ (work[w] # Idle /\ work[w].of = p)

\* Claimed (docs/adr/0051): a submitted start names the session it started.
StartNamesItsSession ==
    [][\A w \in Awaited :
          /\ work[w].at = "link" /\ work'[w] = Idle
          /\ open # "none"
          => open = "own"]_bvars

=============================================================================
