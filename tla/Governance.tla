----------------------------- MODULE Governance -----------------------------
(***************************************************************************)
(* The lifecycle of one strategy (milodex.promotion): its YAML file, the   *)
(* promotion ledger, the frozen manifests, and the paper runner that is    *)
(* bound to them.  Operators promote, demote, freeze and return the        *)
(* strategy to backtest, each in several steps and with no lock between    *)
(* them; the file may be edited by hand at any time; any step may be the   *)
(* last one of its process, or its file write may fail.                    *)
(*                                                                         *)
(* A configuration is its stage and its parameters, and stands for its own *)
(* hash (the canonical hash covers both).  Promotion is to paper only:     *)
(* validate_stage_transition refuses skips and Phase 1 blocks the rest.    *)
(***************************************************************************)
EXTENDS Naturals, Sequences, SequencesExt

CONSTANTS Operators,   \* processes that govern: CLI invocations, GUI workers
          Awaited,     \* those whose caller waits for the outcome: the GUI's
          Params,      \* versions of the parameters in the YAML file
          Scoped,      \* whether the lifecycle exemption applies to this strategy
          Verdicts,    \* what a backtest may show: <<passes, explained>>
          None,        \* no run, no manifest, no runner
          MaxRows,     \* bound: rows of the ledger and of the manifests
          MaxEdits     \* bound: edits of the file by hand

ASSUME GovernanceAssumption ==
    /\ Awaited \subseteq Operators
    /\ Verdicts \subseteq BOOLEAN \X BOOLEAN
    /\ Scoped \in BOOLEAN
    /\ Params # {} /\ None \notin Params
    /\ MaxRows \in Nat
    /\ MaxEdits \in Nat

VARIABLES file,       \* the YAML file
          ledger,     \* promotions, in id order
          manifests,  \* strategy_manifests, in id order
          tests,      \* the backtest runs on record
          vetoed,     \* a fresh synthetic fault-injection veto is on record
          op,         \* what each operator's process is doing
          runner,     \* the stage the paper runner was bound to when it started
          edits       \* how often the file was edited by hand

rows == <<ledger, manifests>>
around == <<tests, vetoed, runner, edits>>
gvars == <<file, rows, around, op>>

Stages == {"idle", "backtest", "paper"}
Config == [stage : Stages, params : Params]

ASSUME ConfigAssumption == None \notin Config \cup Stages

\* policy.py and evidence.py: what a run on record says to the gates.
Test == [params : Params, passes : BOOLEAN, explained : BOOLEAN, fresh : BOOLEAN]

Bypasses == {"statistical", "lifecycle_exempt", "operator_override"}
Row == [from : Stages, to : Stages \cup {"disabled"},
        kind : Bypasses \cup {"demotion", "stage_return"},
        reviewed : Params \cup {None}, test : Test \cup {None},
        manifest : Nat, reverses : Nat]

Idle == [at |-> "idle"]

\* What a call knows at each of its steps: what it read, and when it is over
\* what it said.
Promoting == [at : {"reread", "prepare", "commit"}, kind : Bypasses,
              test : Test \cup {None}, reviewed : Params, from : Stages \cup {None},
              frozen : Params \cup {None}, text : Config \cup {None}]
Below == {"idle", "backtest"}
Lowered == [stage : Below, params : Params]
Demoting == [at : {"prepareDown"}, from : Stages, to : Below, reverses : Nat, text : {None}]
            \cup [at : {"append"}, from : Stages, to : Below \cup {"disabled"},
                  reverses : Nat, text : Lowered \cup {None}]
Writing == [at : {"write"}, call : {"promote", "demote"}, text : Config]
Freezing == [at : {"freeze"}, loaded : [stage : {"paper"}, params : Params]]
ReturningUp == [at : {"rewrite"}] \cup [at : {"record"}, from : Stages]
Over == [at : {"over"}, said : {"submitted", "error", "blocked", "raised"}, wrote : BOOLEAN]
Calls == {Idle} \cup Promoting \cup Demoting \cup Writing \cup Freezing
         \cup ReturningUp \cup Over

Steps == {"reread", "prepare", "commit", "prepareDown", "append", "write",
          "freeze", "rewrite", "record"}

\* A strategy nobody promoted yet, or one that an override promoted.
Init == /\ LET p == CHOOSE p \in Params : TRUE IN
           \/ /\ file \in [stage : {"backtest", "idle"}, params : {p}]
              /\ ledger = <<>> /\ manifests = <<>>
           \/ /\ file = [stage |-> "paper", params |-> p]
              /\ ledger = <<[from |-> "backtest", to |-> "paper",
                             kind |-> "operator_override", reviewed |-> p, test |-> None,
                             manifest |-> 1, reverses |-> 0]>>
              /\ manifests = <<file>>
        /\ tests = {}
        /\ vetoed = FALSE
        /\ op = [o \in Operators |-> Idle]
        /\ runner = None
        /\ edits = 0

Begin(o, step) == op[o] = Idle /\ op' = [op EXCEPT ![o] = step]
Continue(o, step) == op' = [op EXCEPT ![o] = step]

\* The call ends; a process that only exists for it goes with it.
Return(o, said, wrote) ==
    op' = [op EXCEPT ![o] = IF o \in Awaited
                            THEN [at |-> "over", said |-> said, wrote |-> wrote]
                            ELSE Idle]
Full == Len(ledger) >= MaxRows \/ Len(manifests) >= MaxRows

\* get_active_manifest_for_strategy: the latest row of the stage.
ActiveManifest(stage) ==
    LET at == {i \in DOMAIN manifests : manifests[i].stage = stage}
    IN  IF at = {} THEN None ELSE manifests[CHOOSE i \in at : \A j \in at : j <= i]

-----------------------------------------------------------------------------
(* Promotion                                                               *)

\* A record-only catch-up: the file claims paper, no row ever did.
RecordOnlyCatchup(kind) ==
    /\ kind = "operator_override"
    /\ file.stage = "paper"
    /\ \A i \in DOMAIN ledger : ledger[i].to # "paper"

ValidTransition(kind) == file.stage = "backtest" \/ RecordOnlyCatchup(kind)

\* The R-PRM-004 criteria: a fresh run, explained signals, a fresh veto.
LifecycleCriteria ==
    /\ \E t \in tests : t.fresh /\ t.explained
    /\ vetoed

Gate(kind, test) ==
    CASE kind = "operator_override" -> TRUE
      [] kind = "lifecycle_exempt" -> Scoped /\ LifecycleCriteria
      [] kind = "statistical" -> test # None /\ test.passes

\* prepare_and_record_promotion up to the evidence package.
Promote(o, kind, test) ==
    /\ ~Full
    /\ ValidTransition(kind)
    /\ Gate(kind, test)
    /\ Begin(o, [at |-> "reread", kind |-> kind, test |-> test, reviewed |-> file.params,
                 from |-> None, frozen |-> None, text |-> None])
    /\ UNCHANGED <<file, rows, around>>

\* Fault: the evidence is not compared with what is on disk by then.
RereadAnything(o) ==
    /\ op[o].at = "reread"
    /\ Continue(o, [op[o] EXCEPT !.at = "prepare", !.from = file.stage, !.frozen = file.params])
    /\ UNCHANGED <<file, rows, around>>

\* transition loads the file again: other parameters than the evidence refuse.
\* The facade calls a PromoteError a block, like a refusal of the gate.
Reread(o) ==
    /\ op[o].at = "reread"
    /\ IF file.params = op[o].reviewed
       THEN Continue(o, [op[o] EXCEPT !.at = "prepare", !.from = file.stage,
                                      !.frozen = file.params])
       ELSE Return(o, "blocked", FALSE)
    /\ UNCHANGED <<file, rows, around>>

\* ... and a third time, for the content it will write.
Prepare(o) ==
    /\ op[o].at = "prepare"
    /\ IF file.stage = op[o].from
       THEN Continue(o, [op[o] EXCEPT !.at = "commit", !.text = [file EXCEPT !.stage = "paper"]])
       ELSE Return(o, "blocked", FALSE)
    /\ UNCHANGED <<file, rows, around>>

\* Fault: the file first, the rows afterwards.
WriteThenCommit(o) ==
    /\ op[o].at = "commit"
    /\ file' = op[o].text
    /\ Continue(o, [at |-> "record", from |-> op[o].from])
    /\ UNCHANGED <<rows, around>>

\* append_manifest_and_promotion: one transaction.
Commit(o) ==
    /\ op[o].at = "commit"
    /\ manifests' = Append(manifests, [stage |-> "paper", params |-> op[o].frozen])
    /\ ledger' = Append(ledger, [from |-> op[o].from, to |-> "paper", kind |-> op[o].kind,
                                 reviewed |-> op[o].reviewed, test |-> op[o].test,
                                 manifest |-> Len(manifests'), reverses |-> 0])
    /\ Continue(o, [at |-> "write", call |-> "promote", text |-> op[o].text])
    /\ UNCHANGED <<file, around>>

\* _write_stage_yaml: the whole content that was prepared.
Write(o) ==
    /\ op[o].at = "write"
    /\ file' = op[o].text
    /\ Return(o, "submitted", TRUE)
    /\ UNCHANGED <<rows, around>>

-----------------------------------------------------------------------------
(* Demotion, freezing, and the return from idle to backtest                *)

\* The latest row, unless it is a demotion itself.
Reversed == IF ledger # <<>> /\ Last(ledger).kind # "demotion" THEN Len(ledger) ELSE 0

Demote(o, to) ==
    /\ ~Full
    /\ file.stage # to
    /\ Begin(o, [at |-> IF to = "disabled" THEN "append" ELSE "prepareDown",
              from |-> file.stage, to |-> to, reverses |-> Reversed, text |-> None])
    /\ UNCHANGED <<file, rows, around>>

PrepareDemotion(o) ==
    /\ op[o].at = "prepareDown"
    /\ IF file.stage = op[o].from
       THEN Continue(o, [op[o] EXCEPT !.at = "append",
                                      !.text = [file EXCEPT !.stage = op[o].to]])
       ELSE Return(o, "blocked", FALSE)
    /\ UNCHANGED <<file, rows, around>>

\* `disabled` leaves the file alone.
AppendDemotion(o) ==
    /\ op[o].at = "append"
    /\ ledger' = Append(ledger, [from |-> op[o].from, to |-> op[o].to, kind |-> "demotion",
                                 reviewed |-> None, test |-> None, manifest |-> 0,
                                 reverses |-> op[o].reverses])
    /\ IF op[o].text = None
       THEN Return(o, "submitted", TRUE)
       ELSE Continue(o, [at |-> "write", call |-> "demote", text |-> op[o].text])
    /\ UNCHANGED <<file, manifests, around>>

\* freeze_manifest: load, then append what was loaded.
Freeze(o) ==
    /\ ~Full
    /\ file.stage = "paper"
    /\ Begin(o, [at |-> "freeze", loaded |-> file])
    /\ UNCHANGED <<file, rows, around>>

AppendManifest(o) ==
    /\ op[o].at = "freeze"
    /\ manifests' = Append(manifests, op[o].loaded)
    /\ Return(o, "submitted", TRUE)
    /\ UNCHANGED <<file, ledger, around>>

\* A backtest submitted for an idle strategy rewrites the file first, if it
\* still says idle and the write succeeds ...
ReturnToBacktest(o) ==
    /\ op[o].at = "rewrite"
    /\ \/ /\ file.stage = "idle"
          /\ file' = [file EXCEPT !.stage = "backtest"]
          /\ Continue(o, [at |-> "record", from |-> "idle"])
       \/ Return(o, "error", FALSE) /\ UNCHANGED file
    /\ UNCHANGED <<rows, around>>

\* ... and records the return afterwards.
RecordReturn(o) ==
    /\ op[o].at = "record"
    /\ ledger' = Append(ledger, [from |-> op[o].from, to |-> "backtest",
                                 kind |-> "stage_return", reviewed |-> None, test |-> None,
                                 manifest |-> 0, reverses |-> 0])
    /\ Return(o, "submitted", TRUE)
    /\ UNCHANGED <<file, manifests, around>>

\* OSError from the write: the rows stay, and the caller hears of a ValueError,
\* which the facade calls a block of the promotion and of the demotion alike.
WriteFails(o) ==
    /\ op[o].at = "write"
    /\ Return(o, "blocked", TRUE)
    /\ UNCHANGED <<file, rows, around>>

\* The store refuses an append: that is no ValueError, and nobody on the way
\* catches it.  A return to backtest has rewritten the file by then.
StoreRaises(o) ==
    /\ op[o].at \in {"commit", "append", "freeze", "record"}
    /\ Return(o, "raised", op[o].at = "record")
    /\ UNCHANGED <<file, rows, around>>

\* The process dies between two steps.
Die(o) ==
    /\ op[o].at \in Steps
    /\ Continue(o, Idle)
    /\ UNCHANGED <<file, rows, around>>

-----------------------------------------------------------------------------
(* The world around: evidence, editors, the runner                         *)

\* A backtest reads the file as it is when it starts (ADR 0030).
RunBacktest(v) ==
    /\ tests = {}
    /\ tests' = {[params |-> file.params, passes |-> v[1], explained |-> v[2], fresh |-> TRUE]}
    /\ UNCHANGED <<file, ledger, manifests, vetoed, op, runner, edits>>

\* run_synthetic_fault_injection against the paper defaults: a veto on record.
FaultCheck ==
    /\ ~vetoed
    /\ vetoed' = TRUE
    /\ UNCHANGED <<file, ledger, manifests, tests, op, runner, edits>>

\* The evidence passes its maximum age.
NinetyDays ==
    /\ tests # {} \/ vetoed
    /\ tests' = {[t EXCEPT !.fresh = FALSE] : t \in tests}
    /\ vetoed' = FALSE
    /\ UNCHANGED <<file, ledger, manifests, op, runner, edits>>

EditConfig(p) ==
    /\ file.params # p
    /\ edits < MaxEdits
    /\ file' = [file EXCEPT !.params = p]
    /\ edits' = edits + 1
    /\ UNCHANGED <<rows, tests, vetoed, op, runner>>

\* StrategyRunner.__init__ loads the file once, and binds its orders to its stage.
StartRunner ==
    /\ runner = None
    /\ file.stage = "paper"
    /\ runner' = file.stage
    /\ UNCHANGED <<file, ledger, manifests, tests, vetoed, op, edits>>

StopRunner ==
    /\ runner # None
    /\ runner' = None
    /\ UNCHANGED <<file, ledger, manifests, tests, vetoed, op, edits>>

\* _check_manifest_drift: the file on disk against the manifest of the stage
\* the runner was bound to.
NoDrift == file = ActiveManifest(runner)

\* _check_strategy_stage and _check_manifest_drift let an order through.
OrderPasses == runner = "paper" /\ NoDrift

\* A call under way.
Progress(o) ==
    \/ Reread(o)
    \/ Prepare(o)
    \/ Commit(o)
    \/ Write(o)
    \/ PrepareDemotion(o)
    \/ AppendDemotion(o)
    \/ AppendManifest(o)
    \/ WriteFails(o)
    \/ StoreRaises(o)

Returning(o) == ReturnToBacktest(o) \/ RecordReturn(o)

\* The CLI: any call, in a process that may die on the way.
Govern(o) ==
    \/ \E t \in tests : Promote(o, "statistical", t)
    \/ \E kind \in {"lifecycle_exempt", "operator_override"} : Promote(o, kind, None)
    \/ \E to \in {"idle", "backtest", "disabled"} : Demote(o, to)
    \/ Freeze(o)
    \/ Progress(o)
    \/ Die(o)

World ==
    \/ \E v \in Verdicts : RunBacktest(v)
    \/ FaultCheck
    \/ NinetyDays
    \/ \E p \in Params : EditConfig(p)

-----------------------------------------------------------------------------
(* Properties                                                              *)

GovernanceTypeOK ==
    /\ file \in Config
    /\ ledger \in Seq(Row)
    /\ manifests \in Seq(Config)
    /\ tests \in SUBSET Test
    /\ vetoed \in BOOLEAN
    /\ op \in [Operators -> Calls]
    /\ runner \in Stages \cup {None}
    /\ edits \in 0..MaxEdits

\* Every row that opens paper rests on what its gate asked for: a run that
\* passes, or the exemption of a scoped strategy; and it names the manifest
\* of exactly the parameters that were reviewed, although the file is read
\* three times on the way (prepare_and_record_promotion, transition).
PromotionsAreEarned ==
    \A i \in DOMAIN ledger : ledger[i].to = "paper" =>
        /\ ledger[i].kind = "statistical" => ledger[i].test # None /\ ledger[i].test.passes
        /\ ledger[i].kind = "lifecycle_exempt" => Scoped
        /\ manifests[ledger[i].manifest].params = ledger[i].reviewed

\* Durable log first: a file that claims paper has its row and its manifest,
\* whatever step was the last of a process (transition, demote).
DurableFirst ==
    file.stage = "paper" => /\ \E i \in DOMAIN ledger : ledger[i].to = "paper"
                            /\ ActiveManifest("paper") # None

\* Claimed (docs/adr/0015): the hash-match gate closes the gap between what
\* was backtested and what is being promoted.
PromotedWasTested ==
    \A i \in DOMAIN ledger : ledger[i].kind = "statistical" =>
        ledger[i].test.params = manifests[ledger[i].manifest].params

\* Claimed (_write_stage_yaml): when the file could not be updated, the next
\* cycle's drift check flags the discrepancy; so no order follows a demotion.
DemotionFlagged ==
    /\ ledger # <<>>
    /\ Last(ledger).to \in {"idle", "backtest"}
    /\ \A o \in Operators : op[o].at # "write"
    => ~OrderPasses

\* Claimed (validate_stage_transition): skipping stages is not allowed.
NoStageSkipped ==
    \A i \in DOMAIN ledger : ledger[i].to = "paper" => ledger[i].from # "idle"

\* Claimed (PromoteBlocked, docs/adr/0051): a blocked call wrote nothing.
BlockedWroteNothing ==
    \A o \in Awaited : op[o].at = "over" /\ op[o].said = "blocked" => ~op[o].wrote

=============================================================================
