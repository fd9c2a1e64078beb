----------------------------- MODULE BenchProofs -----------------------------
(***************************************************************************)
(* Proofs about governance under the GUI's command desk, for any operators,*)
(* parameters, rows and edits: promotions are earned, the log comes before *)
(* the file, and a job tells the truth.                                    *)
(*                                                                         *)
(* The inductive invariant follows a call from step to step: a promotion   *)
(* under way passed its gate, froze what was reviewed, and whoever is      *)
(* about to write a file that says paper has the rows on record.           *)
(***************************************************************************)
EXTENDS Bench, TLAPS

\* What passed its gate.
Earned(c) ==
    /\ c.kind = "statistical" => c.test # None /\ c.test.passes
    /\ c.kind = "lifecycle_exempt" => Scoped

\* What a promotion has established when it reaches a step.
CallOk(c) ==
    /\ c.at \in {"reread", "prepare", "commit"} => Earned(c)
    /\ c.at \in {"prepare", "commit"} => c.frozen = c.reviewed /\ c.from \in Stages
    /\ c.at = "commit" => c.text \in Config

\* A call that is about to write a file that says paper.
OpensPaper(c) == c.at = "write" /\ c.text.stage = "paper"

\* There is a row that opens paper, and a manifest.
PaperOnRecord ==
    /\ \E i \in DOMAIN ledger : ledger[i].to = "paper"
    /\ manifests # <<>>

CallInv == \A o \in Operators : /\ CallOk(op[o])
                                /\ OpensPaper(op[o]) => PaperOnRecord

\* The rows that open paper, and the manifests.
LedgerInv ==
    /\ \A i \in DOMAIN ledger : ledger[i].to = "paper" =>
          /\ Earned(ledger[i])
          /\ ledger[i].manifest \in DOMAIN manifests
          /\ manifests[ledger[i].manifest].params = ledger[i].reviewed
    /\ \A i \in DOMAIN manifests : manifests[i].stage = "paper"

FileInv == file.stage = "paper" => PaperOnRecord

GovernanceInv == GovernanceTypeOK /\ CallInv /\ LedgerInv /\ FileInv

-----------------------------------------------------------------------------
(* Calls and rows                                                          *)

\* A call that goes on to an admissible step keeps CallInv, as long as no row
\* is taken away.
LEMMA CallStep ==
    ASSUME GovernanceInv, NEW o \in Operators, NEW c \in Calls,
           op' = [op EXCEPT ![o] = c], CallOk(c),
           PaperOnRecord => PaperOnRecord', OpensPaper(c) => PaperOnRecord'
    PROVE  op' \in [Operators -> Calls] /\ CallInv'
<1>1. op \in [Operators -> Calls] /\ CallInv
  BY DEF GovernanceInv, GovernanceTypeOK
<1>2. op' \in [Operators -> Calls]
  BY <1>1
<1>3. ASSUME NEW q \in Operators
      PROVE  CallOk(op'[q]) /\ (OpensPaper(op'[q]) => PaperOnRecord')
  <2>1. CASE q = o
    BY <1>1, <2>1
  <2>2. CASE q # o
    <3>1. op'[q] = op[q]
      BY <1>1, <2>2
    <3> QED BY <1>1, <3>1 DEF CallInv
  <2> QED BY <2>1, <2>2
<1> QED BY <1>2, <1>3 DEF CallInv, CallOk, OpensPaper, Earned

\* So does a call that returns.
LEMMA ReturnStep ==
    ASSUME GovernanceInv, NEW o \in Operators,
           NEW said \in {"submitted", "error", "blocked", "raised"}, NEW wrote \in BOOLEAN,
           Return(o, said, wrote), PaperOnRecord => PaperOnRecord'
    PROVE  op' \in [Operators -> Calls] /\ CallInv'
<1> DEFINE c == IF o \in Awaited THEN [at |-> "over", said |-> said, wrote |-> wrote]
                                 ELSE Idle
<1>1. c \in Calls
  BY DEF Calls, Over
<1>2. c.at \in {"idle", "over"}
  BY DEF Idle
<1>3. CallOk(c) /\ ~OpensPaper(c)
  BY <1>2 DEF CallOk, OpensPaper
<1>4. op' = [op EXCEPT ![o] = c]
  BY DEF Return
<1> HIDE DEF c
<1> QED BY <1>1, <1>3, <1>4, CallStep

\* A row that does not open paper changes nothing that LedgerInv says.
LEMMA OtherRow ==
    ASSUME GovernanceInv, NEW row \in Row, row.to # "paper",
           ledger' = Append(ledger, row), manifests' = manifests
    PROVE  ledger' \in Seq(Row) /\ LedgerInv' /\ (PaperOnRecord => PaperOnRecord')
<1>1. ledger \in Seq(Row)
  BY DEF GovernanceInv, GovernanceTypeOK
<1>2. /\ ledger' \in Seq(Row)
      /\ DOMAIN ledger' = 1..(Len(ledger) + 1) /\ DOMAIN ledger = 1..Len(ledger)
      /\ ledger'[Len(ledger) + 1] = row
      /\ \A i \in DOMAIN ledger : i \in DOMAIN ledger' /\ ledger'[i] = ledger[i]
  BY <1>1
<1>3. \A i \in DOMAIN ledger' : i \in DOMAIN ledger \/ ledger'[i] = row
  BY <1>1, <1>2
<1>4. LedgerInv'
  BY <1>2, <1>3 DEF GovernanceInv, LedgerInv, Earned
<1>5. PaperOnRecord => PaperOnRecord'
  BY <1>2 DEF PaperOnRecord
<1> QED BY <1>2, <1>4, <1>5

\* A new manifest is read by no row that is there.
LEMMA NewManifest ==
    ASSUME GovernanceInv, NEW m \in Config, manifests' = Append(manifests, m)
    PROVE  /\ manifests' \in Seq(Config)
           /\ DOMAIN manifests' = 1..(Len(manifests) + 1)
           /\ Len(manifests') = Len(manifests) + 1 /\ Len(manifests) \in Nat
           /\ manifests'[Len(manifests) + 1] = m
           /\ \A i \in DOMAIN manifests : i \in DOMAIN manifests' /\ manifests'[i] = manifests[i]
           /\ \A i \in DOMAIN manifests' : i \in DOMAIN manifests \/ manifests'[i] = m
           /\ manifests' # <<>>
<1>1. manifests \in Seq(Config)
  BY DEF GovernanceInv, GovernanceTypeOK
<1> QED BY <1>1

\* What the fields of a call are, by the step it is at.
LEMMA CallTypes ==
    ASSUME NEW c \in Calls
    PROVE  /\ c.at \in {"reread", "prepare", "commit"} => c \in Promoting
           /\ c.at \in {"prepareDown", "append"} => c \in Demoting
           /\ c.at = "write" => c \in Writing
           /\ c.at = "freeze" => c \in Freezing
           /\ c.at \in {"rewrite", "record"} => c \in ReturningUp
           /\ c.at = "over" => c \in Over
BY DEF Calls, Idle, Promoting, Demoting, Writing, Freezing, ReturningUp, Over

-----------------------------------------------------------------------------
(* The governance actions                                                  *)

\* A promotion begins behind its gate.
LEMMA PromoteKeeps ==
    ASSUME GovernanceInv, NEW o \in Operators, NEW kind \in Bypasses,
           NEW test \in Test \cup {None}, Promote(o, kind, test)
    PROVE  GovernanceInv'
<1> DEFINE c == [at |-> "reread", kind |-> kind, test |-> test, reviewed |-> file.params,
                 from |-> None, frozen |-> None, text |-> None]
<1>1. c \in Calls
  BY DEF Calls, Promoting, GovernanceInv, GovernanceTypeOK, Config
<1>2. CallOk(c) /\ ~OpensPaper(c)
  BY DEF Promote, Gate, CallOk, Earned, OpensPaper, Bypasses
<1>3. op' = [op EXCEPT ![o] = c] /\ UNCHANGED <<file, rows, around>>
  BY DEF Promote, Begin
<1>4. UNCHANGED <<ledger, manifests, PaperOnRecord>>
  BY <1>3 DEF rows, PaperOnRecord
<1> HIDE DEF c
<1>5. op' \in [Operators -> Calls] /\ CallInv'
  BY <1>1, <1>2, <1>3, <1>4, CallStep
<1> QED BY <1>3, <1>4, <1>5 DEF GovernanceInv, GovernanceTypeOK, LedgerInv, FileInv, around, Earned

\* The second read: what is frozen is what was reviewed.
LEMMA RereadKeeps ==
    ASSUME GovernanceInv, NEW o \in Operators, Reread(o)
    PROVE  GovernanceInv'
<1> DEFINE c == [op[o] EXCEPT !.at = "prepare", !.from = file.stage, !.frozen = file.params]
<1>1. op[o] \in Promoting /\ CallOk(op[o]) /\ file \in Config
  BY CallTypes DEF Reread, GovernanceInv, GovernanceTypeOK, CallInv
<1>2. UNCHANGED <<file, rows, around, ledger, manifests, PaperOnRecord>>
  BY DEF Reread, rows, PaperOnRecord
<1>3. CASE file.params = op[o].reviewed
  <2>1. c \in Promoting /\ c.at = "prepare"
    BY <1>1 DEF Promoting, Config
  <2>2. CallOk(c) /\ ~OpensPaper(c)
    BY <1>1, <1>3 DEF CallOk, OpensPaper, Earned, Promoting, Config, Reread
  <2>3. c \in Calls /\ op' = [op EXCEPT ![o] = c]
    BY <1>3, <2>1 DEF Calls, Reread, Continue
  <2> HIDE DEF c
  <2>4. op' \in [Operators -> Calls] /\ CallInv'
    BY <1>2, <2>2, <2>3, CallStep
  <2> QED BY <1>2, <2>4 DEF GovernanceInv, GovernanceTypeOK, LedgerInv, FileInv, around, Earned
<1>4. CASE file.params # op[o].reviewed
  <2>1. op' \in [Operators -> Calls] /\ CallInv'
    BY <1>2, <1>4, ReturnStep DEF Reread
  <2> QED BY <1>2, <2>1 DEF GovernanceInv, GovernanceTypeOK, LedgerInv, FileInv, around, Earned
<1> QED BY <1>3, <1>4

\* The third read: the content that will be written.
LEMMA PrepareKeeps ==
    ASSUME GovernanceInv, NEW o \in Operators, Prepare(o)
    PROVE  GovernanceInv'
<1> DEFINE c == [op[o] EXCEPT !.at = "commit", !.text = [file EXCEPT !.stage = "paper"]]
<1>1. op[o] \in Promoting /\ CallOk(op[o]) /\ file \in Config
  BY CallTypes DEF Prepare, GovernanceInv, GovernanceTypeOK, CallInv
<1>2. UNCHANGED <<file, rows, around, ledger, manifests, PaperOnRecord>>
  BY DEF Prepare, rows, PaperOnRecord
<1>3. CASE file.stage = op[o].from
  <2>1. [file EXCEPT !.stage = "paper"] \in Config
    BY <1>1 DEF Config, Stages
  <2>2. c \in Promoting /\ c.at = "commit"
    BY <1>1, <2>1 DEF Promoting
  <2>3. CallOk(c) /\ ~OpensPaper(c)
    BY <1>1, <1>3, <2>1 DEF CallOk, OpensPaper, Earned, Promoting, Prepare
  <2>4. c \in Calls /\ op' = [op EXCEPT ![o] = c]
    BY <1>3, <2>2 DEF Calls, Prepare, Continue
  <2> HIDE DEF c
  <2>5. op' \in [Operators -> Calls] /\ CallInv'
    BY <1>2, <2>3, <2>4, CallStep
  <2> QED BY <1>2, <2>5 DEF GovernanceInv, GovernanceTypeOK, LedgerInv, FileInv, around, Earned
<1>4. CASE file.stage # op[o].from
  <2>1. op' \in [Operators -> Calls] /\ CallInv'
    BY <1>2, <1>4, ReturnStep DEF Prepare
  <2> QED BY <1>2, <2>1 DEF GovernanceInv, GovernanceTypeOK, LedgerInv, FileInv, around, Earned
<1> QED BY <1>3, <1>4

\* One transaction appends the manifest of what was reviewed and the row that
\* names it; from here on the file may say paper.
LEMMA CommitKeeps ==
    ASSUME GovernanceInv, NEW o \in Operators, Commit(o)
    PROVE  GovernanceInv'
<1> DEFINE m == [stage |-> "paper", params |-> op[o].frozen]
           n == Len(manifests) + 1
           row == [from |-> op[o].from, to |-> "paper", kind |-> op[o].kind,
                   reviewed |-> op[o].reviewed, test |-> op[o].test,
                   manifest |-> n, reverses |-> 0]
           c == [at |-> "write", call |-> "promote", text |-> op[o].text]
<1>1. op[o] \in Promoting /\ op[o].at = "commit" /\ CallOk(op[o])
  BY CallTypes DEF Commit, GovernanceInv, GovernanceTypeOK, CallInv
<1>2. Earned(op[o]) /\ op[o].frozen = op[o].reviewed /\ op[o].from \in Stages
      /\ op[o].text \in Config
  BY <1>1 DEF CallOk
<1>3. m \in Config
  BY <1>1, <1>2 DEF Config, Stages, Promoting
<1>4. manifests' = Append(manifests, m) /\ UNCHANGED <<file, around>>
  BY DEF Commit
<1>5. /\ manifests' \in Seq(Config) /\ DOMAIN manifests' = 1..n
      /\ Len(manifests') = n /\ n \in Nat /\ n \in DOMAIN manifests'
      /\ manifests'[n] = m
      /\ \A i \in DOMAIN manifests : i \in DOMAIN manifests' /\ manifests'[i] = manifests[i]
      /\ \A i \in DOMAIN manifests' : i \in DOMAIN manifests \/ manifests'[i] = m
      /\ manifests' # <<>>
  BY <1>3, <1>4, NewManifest
<1>6. ledger' = Append(ledger, row)
  BY <1>5 DEF Commit
<1>7. row \in Row
  <2>1. op[o].kind \in Bypasses /\ op[o].reviewed \in Params /\ op[o].test \in Test \cup {None}
    BY <1>1 DEF Promoting
  <2>2. n \in Nat
    BY <1>5
  <2> HIDE DEF n
  <2> QED BY <1>2, <2>1, <2>2 DEF Row, Stages
<1>8. Earned(row) /\ row.to = "paper" /\ row.manifest = n /\ row.reviewed = op[o].frozen
  BY <1>2 DEF Earned
<1>9. m.stage = "paper" /\ m.params = op[o].frozen
  OBVIOUS
<1>10. c \in Calls /\ CallOk(c) /\ op' = [op EXCEPT ![o] = c]
  BY <1>1, <1>2 DEF Calls, Writing, CallOk, Commit, Continue
<1> HIDE DEF m, n, row, c
<1>11. ledger \in Seq(Row) /\ LedgerInv
  BY DEF GovernanceInv, GovernanceTypeOK
<1>12. /\ ledger' \in Seq(Row)
       /\ \A i \in DOMAIN ledger : i \in DOMAIN ledger' /\ ledger'[i] = ledger[i]
       /\ \E i \in DOMAIN ledger' : ledger'[i] = row
       /\ \A i \in DOMAIN ledger' : i \in DOMAIN ledger \/ ledger'[i] = row
  BY <1>6, <1>7, <1>11
<1>13. LedgerInv'
  <2>1. ASSUME NEW i \in DOMAIN ledger', ledger'[i].to = "paper"
        PROVE  /\ Earned(ledger'[i])
               /\ ledger'[i].manifest \in DOMAIN manifests'
               /\ manifests'[ledger'[i].manifest].params = ledger'[i].reviewed
    <3>1. CASE ledger'[i] = row
      BY <1>5, <1>8, <1>9, <3>1
    <3>2. CASE i \in DOMAIN ledger /\ ledger'[i] = ledger[i]
      BY <1>5, <1>11, <2>1, <3>2 DEF LedgerInv
    <3> QED BY <1>12, <3>1, <3>2
  <2>2. \A i \in DOMAIN manifests' : manifests'[i].stage = "paper"
    BY <1>5, <1>9, <1>11 DEF LedgerInv
  <2> QED BY <2>1, <2>2 DEF LedgerInv, Earned
<1>14. PaperOnRecord'
  BY <1>5, <1>8, <1>12 DEF PaperOnRecord
<1>15. op' \in [Operators -> Calls] /\ CallInv'
  BY <1>10, <1>14, CallStep
<1> QED BY <1>4, <1>5, <1>12, <1>13, <1>14, <1>15
        DEF GovernanceInv, GovernanceTypeOK, FileInv, around

\* The file is written when the rows that allow it are there.
LEMMA WriteKeeps ==
    ASSUME GovernanceInv, NEW o \in Operators, Write(o)
    PROVE  GovernanceInv'
<1>1. op[o] \in Writing /\ (OpensPaper(op[o]) => PaperOnRecord)
  BY CallTypes DEF Write, GovernanceInv, GovernanceTypeOK, CallInv
<1>2. UNCHANGED <<rows, around, ledger, manifests, PaperOnRecord>> /\ file' = op[o].text
  BY DEF Write, rows, PaperOnRecord
<1>3. op' \in [Operators -> Calls] /\ CallInv'
  BY <1>2, ReturnStep DEF Write
<1>4. file' \in Config /\ FileInv'
  BY <1>1, <1>2 DEF Writing, OpensPaper, FileInv
<1> QED BY <1>2, <1>3, <1>4 DEF GovernanceInv, GovernanceTypeOK, LedgerInv, around, Earned

LEMMA WriteFailsKeeps ==
    ASSUME GovernanceInv, NEW o \in Operators, WriteFails(o)
    PROVE  GovernanceInv'
<1>1. UNCHANGED <<file, rows, around, ledger, manifests, PaperOnRecord>>
  BY DEF WriteFails, rows, PaperOnRecord
<1>2. op' \in [Operators -> Calls] /\ CallInv'
  BY <1>1, ReturnStep DEF WriteFails
<1> QED BY <1>1, <1>2 DEF GovernanceInv, GovernanceTypeOK, LedgerInv, FileInv, around, Earned

LEMMA StoreRaisesKeeps ==
    ASSUME GovernanceInv, NEW o \in Operators, StoreRaises(o)
    PROVE  GovernanceInv'
<1>1. UNCHANGED <<file, rows, around, ledger, manifests, PaperOnRecord>>
  BY DEF StoreRaises, rows, PaperOnRecord
<1>2. op' \in [Operators -> Calls] /\ CallInv'
  <2>1. (op[o].at = "record") \in BOOLEAN
    OBVIOUS
  <2> QED BY <1>1, <2>1, ReturnStep DEF StoreRaises
<1> QED BY <1>1, <1>2 DEF GovernanceInv, GovernanceTypeOK, LedgerInv, FileInv, around, Earned

\* A demotion begins; the row it reverses is the latest, if any.
LEMMA DemoteKeeps ==
    ASSUME GovernanceInv, NEW o \in Operators, NEW to \in Below \cup {"disabled"},
           Demote(o, to)
    PROVE  GovernanceInv'
<1> DEFINE c == [at |-> IF to = "disabled" THEN "append" ELSE "prepareDown",
                 from |-> file.stage, to |-> to, reverses |-> Reversed, text |-> None]
<1>1. file \in Config /\ Reversed \in Nat
  BY DEF GovernanceInv, GovernanceTypeOK, Reversed
<1>2. c \in Demoting /\ c.at \in {"append", "prepareDown"}
  <2>1. CASE to = "disabled"
    BY <1>1, <2>1 DEF Demoting, Config, Below
  <2>2. CASE to # "disabled"
    BY <1>1, <2>2 DEF Demoting, Config, Below
  <2> QED BY <2>1, <2>2
<1>3. c \in Calls /\ CallOk(c) /\ ~OpensPaper(c)
  BY <1>2 DEF Calls, CallOk, OpensPaper
<1>4. op' = [op EXCEPT ![o] = c] /\ UNCHANGED <<file, rows, around>>
  BY DEF Demote, Begin
<1>5. UNCHANGED <<ledger, manifests, PaperOnRecord>>
  BY <1>4 DEF rows, PaperOnRecord
<1> HIDE DEF c
<1>6. op' \in [Operators -> Calls] /\ CallInv'
  BY <1>3, <1>4, <1>5, CallStep
<1> QED BY <1>4, <1>5, <1>6 DEF GovernanceInv, GovernanceTypeOK, LedgerInv, FileInv, around, Earned

\* The content a demotion prepares does not say paper.
LEMMA PrepareDemotionKeeps ==
    ASSUME GovernanceInv, NEW o \in Operators, PrepareDemotion(o)
    PROVE  GovernanceInv'
<1> DEFINE c == [op[o] EXCEPT !.at = "append", !.text = [file EXCEPT !.stage = op[o].to]]
<1>1. op[o] \in Demoting /\ op[o].at = "prepareDown" /\ file \in Config
  BY CallTypes DEF PrepareDemotion, GovernanceInv, GovernanceTypeOK
<1>2. UNCHANGED <<file, rows, around, ledger, manifests, PaperOnRecord>>
  BY DEF PrepareDemotion, rows, PaperOnRecord
<1>3. CASE file.stage = op[o].from
  <2>1. op[o].to \in Below
    BY <1>1 DEF Demoting
  <2>2. [file EXCEPT !.stage = op[o].to] \in Lowered
    BY <1>1, <2>1 DEF Config, Lowered
  <2>3. c \in Demoting /\ c.at = "append"
    BY <1>1, <2>1, <2>2 DEF Demoting
  <2>4. c \in Calls /\ CallOk(c) /\ ~OpensPaper(c) /\ op' = [op EXCEPT ![o] = c]
    BY <1>3, <2>3 DEF Calls, PrepareDemotion, Continue, CallOk, OpensPaper
  <2> HIDE DEF c
  <2>5. op' \in [Operators -> Calls] /\ CallInv'
    BY <1>2, <2>4, CallStep
  <2> QED BY <1>2, <2>5 DEF GovernanceInv, GovernanceTypeOK, LedgerInv, FileInv, around, Earned
<1>4. CASE file.stage # op[o].from
  <2>1. op' \in [Operators -> Calls] /\ CallInv'
    BY <1>2, <1>4, ReturnStep DEF PrepareDemotion
  <2> QED BY <1>2, <2>1 DEF GovernanceInv, GovernanceTypeOK, LedgerInv, FileInv, around, Earned
<1> QED BY <1>3, <1>4

\* The row of a demotion does not open paper, and neither does its content.
LEMMA AppendDemotionKeeps ==
    ASSUME GovernanceInv, NEW o \in Operators, AppendDemotion(o)
    PROVE  GovernanceInv'
<1> DEFINE row == [from |-> op[o].from, to |-> op[o].to, kind |-> "demotion",
                   reviewed |-> None, test |-> None, manifest |-> 0,
                   reverses |-> op[o].reverses]
           c == [at |-> "write", call |-> "demote", text |-> op[o].text]
<1>1. op[o] \in Demoting /\ op[o].at = "append"
  BY CallTypes DEF AppendDemotion, GovernanceInv, GovernanceTypeOK
<1>2. op[o].to \in Below \cup {"disabled"} /\ op[o].from \in Stages /\ op[o].reverses \in Nat
  BY <1>1 DEF Demoting
<1>3. row \in Row /\ row.to # "paper"
  BY <1>2 DEF Row, Below, Stages
<1>4. ledger' = Append(ledger, row) /\ UNCHANGED <<file, manifests, around>>
  BY DEF AppendDemotion
<1>5. ledger' \in Seq(Row) /\ LedgerInv' /\ (PaperOnRecord => PaperOnRecord')
  <2> HIDE DEF row
  <2> QED BY <1>3, <1>4, OtherRow
<1>6. op' \in [Operators -> Calls] /\ CallInv'
  <2>1. CASE op[o].text = None
    BY <1>5, <2>1, ReturnStep DEF AppendDemotion
  <2>2. CASE op[o].text # None
    <3>1. op[o].text \in Lowered
      BY <1>1, <2>2 DEF Demoting
    <3>2. op[o].text \in Config /\ op[o].text.stage # "paper"
      BY <3>1 DEF Lowered, Below, Config, Stages
    <3>3. c \in Calls /\ CallOk(c) /\ ~OpensPaper(c) /\ op' = [op EXCEPT ![o] = c]
      BY <2>2, <3>2 DEF Calls, Writing, CallOk, OpensPaper, AppendDemotion, Continue
    <3> HIDE DEF c
    <3> QED BY <1>5, <3>3, CallStep
  <2> QED BY <2>1, <2>2
<1> QED BY <1>4, <1>5, <1>6 DEF GovernanceInv, GovernanceTypeOK, FileInv, around

LEMMA FreezeKeeps ==
    ASSUME GovernanceInv, NEW o \in Operators, Freeze(o)
    PROVE  GovernanceInv'
<1> DEFINE c == [at |-> "freeze", loaded |-> file]
<1>1. c \in Calls /\ CallOk(c) /\ ~OpensPaper(c)
  BY DEF Calls, Freezing, CallOk, OpensPaper, Freeze, GovernanceInv, GovernanceTypeOK, Config
<1>2. op' = [op EXCEPT ![o] = c] /\ UNCHANGED <<file, rows, around>>
  BY DEF Freeze, Begin
<1>3. UNCHANGED <<ledger, manifests, PaperOnRecord>>
  BY <1>2 DEF rows, PaperOnRecord
<1> HIDE DEF c
<1>4. op' \in [Operators -> Calls] /\ CallInv'
  BY <1>1, <1>2, <1>3, CallStep
<1> QED BY <1>2, <1>3, <1>4 DEF GovernanceInv, GovernanceTypeOK, LedgerInv, FileInv, around, Earned

\* A manifest frozen by itself is of the stage paper, and no row names it.
LEMMA AppendManifestKeeps ==
    ASSUME GovernanceInv, NEW o \in Operators, AppendManifest(o)
    PROVE  GovernanceInv'
<1> DEFINE m == op[o].loaded
<1>1. m \in Config /\ m.stage = "paper"
  <2>1. op[o] \in Freezing
    BY CallTypes DEF AppendManifest, GovernanceInv, GovernanceTypeOK
  <2> QED BY <2>1 DEF Freezing, Config, Stages
<1>2. manifests' = Append(manifests, m) /\ UNCHANGED <<file, ledger, around>>
  BY DEF AppendManifest
<1> HIDE DEF m
<1>3. /\ manifests' \in Seq(Config)
      /\ \A i \in DOMAIN manifests : i \in DOMAIN manifests' /\ manifests'[i] = manifests[i]
      /\ \A i \in DOMAIN manifests' : i \in DOMAIN manifests \/ manifests'[i] = m
      /\ manifests' # <<>>
  BY <1>1, <1>2, NewManifest
<1>4. LedgerInv'
  BY <1>1, <1>2, <1>3 DEF GovernanceInv, LedgerInv, Earned
<1>5. PaperOnRecord => PaperOnRecord'
  BY <1>2, <1>3 DEF PaperOnRecord
<1>6. op' \in [Operators -> Calls] /\ CallInv'
  BY <1>5, ReturnStep DEF AppendManifest
<1> QED BY <1>2, <1>3, <1>4, <1>5, <1>6 DEF GovernanceInv, GovernanceTypeOK, FileInv, around

LEMMA ReturnToBacktestKeeps ==
    ASSUME GovernanceInv, NEW o \in Operators, ReturnToBacktest(o)
    PROVE  GovernanceInv'
<1> DEFINE c == [at |-> "record", from |-> "idle"]
<1>1. UNCHANGED <<rows, around, ledger, manifests, PaperOnRecord>>
  BY DEF ReturnToBacktest, rows, PaperOnRecord
<1>2. c \in Calls /\ CallOk(c) /\ ~OpensPaper(c)
  BY DEF Calls, ReturningUp, Stages, CallOk, OpensPaper
<1> HIDE DEF c
<1>3. CASE Continue(o, c) /\ file' = [file EXCEPT !.stage = "backtest"]
  <2>1. op' = [op EXCEPT ![o] = c] /\ file' = [file EXCEPT !.stage = "backtest"]
    BY <1>3 DEF Continue
  <2>2. op' \in [Operators -> Calls] /\ CallInv'
    BY <1>1, <1>2, <2>1, CallStep
  <2>3. file' \in Config /\ FileInv'
    BY <2>1 DEF GovernanceInv, GovernanceTypeOK, Config, Stages, FileInv
  <2> QED BY <1>1, <2>2, <2>3 DEF GovernanceInv, GovernanceTypeOK, LedgerInv, around, Earned
<1>4. CASE Return(o, "error", FALSE) /\ UNCHANGED file
  <2>1. op' \in [Operators -> Calls] /\ CallInv' /\ UNCHANGED file
    BY <1>1, <1>4, ReturnStep
  <2> QED BY <1>1, <2>1 DEF GovernanceInv, GovernanceTypeOK, LedgerInv, FileInv, around, Earned
<1> QED BY <1>3, <1>4 DEF ReturnToBacktest, c

LEMMA RecordReturnKeeps ==
    ASSUME GovernanceInv, NEW o \in Operators, RecordReturn(o)
    PROVE  GovernanceInv'
<1> DEFINE row == [from |-> op[o].from, to |-> "backtest", kind |-> "stage_return",
                   reviewed |-> None, test |-> None, manifest |-> 0, reverses |-> 0]
<1>1. op[o].from \in Stages
  BY CallTypes DEF RecordReturn, GovernanceInv, GovernanceTypeOK, ReturningUp
<1>2. row \in Row /\ row.to # "paper"
  BY <1>1 DEF Row, Stages
<1>3. ledger' = Append(ledger, row) /\ UNCHANGED <<file, manifests, around>>
  BY DEF RecordReturn
<1> HIDE DEF row
<1>4. ledger' \in Seq(Row) /\ LedgerInv' /\ (PaperOnRecord => PaperOnRecord')
  BY <1>2, <1>3, OtherRow
<1>5. op' \in [Operators -> Calls] /\ CallInv'
  BY <1>4, ReturnStep DEF RecordReturn
<1> QED BY <1>3, <1>4, <1>5 DEF GovernanceInv, GovernanceTypeOK, FileInv, around

\* A process that dies, is answered, or begins to return a strategy.
LEMMA BareCallKeeps ==
    ASSUME GovernanceInv, NEW o \in Operators, NEW c \in {Idle, [at |-> "rewrite"]},
           op' = [op EXCEPT ![o] = c], UNCHANGED <<file, rows, around>>
    PROVE  GovernanceInv'
<1>1. UNCHANGED <<ledger, manifests, PaperOnRecord>>
  BY DEF rows, PaperOnRecord
<1>2. c \in Calls /\ CallOk(c) /\ ~OpensPaper(c)
  BY DEF Calls, ReturningUp, Idle, CallOk, OpensPaper
<1>3. op' \in [Operators -> Calls] /\ CallInv'
  BY <1>1, <1>2, CallStep
<1> QED BY <1>1, <1>3 DEF GovernanceInv, GovernanceTypeOK, LedgerInv, FileInv, around, Earned

\* Evidence comes and goes, the file is edited within its stage, the runner
\* starts and ends, and the GUI dies with its workers' calls.
LEMMA WorldKeeps ==
    ASSUME GovernanceInv, UNCHANGED <<ledger, manifests>>,
           file' \in Config, file'.stage = file.stage, tests' \in SUBSET Test,
           vetoed' \in BOOLEAN, runner' \in Stages \cup {None}, edits' \in 0..MaxEdits,
           \/ UNCHANGED op
           \/ op' = [o \in Operators |-> IF o \in Awaited THEN Idle ELSE op[o]]
    PROVE  GovernanceInv'
<1>1. op \in [Operators -> Calls] /\ CallInv
  BY DEF GovernanceInv, GovernanceTypeOK
<1>2. op' \in [Operators -> Calls]
  BY <1>1 DEF Calls
<1>3. ASSUME NEW o \in Operators
      PROVE  CallOk(op'[o]) /\ (OpensPaper(op'[o]) => PaperOnRecord')
  <2>1. UNCHANGED PaperOnRecord
    BY DEF PaperOnRecord
  <2>2. CASE op'[o] = op[o]
    BY <1>1, <2>1, <2>2 DEF CallInv
  <2>3. CASE op'[o] = Idle
    BY <2>3 DEF CallOk, OpensPaper, Idle
  <2> QED BY <2>2, <2>3
<1>4. CallInv'
  BY <1>3 DEF CallInv, CallOk, OpensPaper, Earned
<1> QED BY <1>2, <1>4 DEF GovernanceInv, GovernanceTypeOK, LedgerInv, FileInv, PaperOnRecord, Earned

-----------------------------------------------------------------------------
(* The desk                                                                *)

DeskTypes ==
    /\ crew \subseteq Operators
    /\ desk \in [Proposals -> Requests \cup {Empty, Popped}]
    /\ work \in [Awaited -> {Idle, Dead} \cup Tasks]
    /\ jobs \in [Proposals -> {"none", "running", "completed", "blocked", "failed"}]
    /\ results \in [Proposals -> {"none", "submitted", "blocked", "error"}]

Busy(w) == work[w] \notin {Idle, Dead}

\* A proposal at work is off the desk and with one worker, and its job is not
\* over; before the dispatch, and during a governance call, it has no job, and
\* neither has one on the desk.
DeskInv ==
    /\ \A w \in Awaited : Busy(w) =>
          /\ desk[work[w].of] = Popped
          /\ jobs[work[w].of] \in {"none", "running"}
          /\ work[w].at \in {"revalidate", "dispatch", "await"} => jobs[work[w].of] = "none"
    /\ \A v, w \in Awaited : Busy(v) /\ Busy(w) /\ work[v].of = work[w].of => v = w
    /\ \A p \in Proposals : desk[p] # Popped => jobs[p] = "none"

BenchInv == GovernanceInv /\ DeskTypes /\ DeskInv /\ JobsTellTheTruth

\* A worker's task.
LEMMA TaskTypes ==
    ASSUME DeskTypes, NEW w \in Awaited, work[w].at \notin {"idle", "dead"}
    PROVE  work[w] \in Tasks /\ work[w].of \in Proposals /\ work[w].request \in Requests
BY DEF DeskTypes, Idle, Dead, Tasks

\* The requests of the governance families.
LEMMA DemotionRequests ==
    ASSUME NEW r \in Requests, r.family = "demote"
    PROVE  r.arg \in Below \cup {"disabled"}
BY DEF Requests, Request, Below

\* A governance step of any call.
LEMMA ProgressKeeps ==
    ASSUME GovernanceInv, NEW o \in Operators, Progress(o) \/ Returning(o) \/ Die(o)
    PROVE  GovernanceInv'
<1>1. ASSUME Die(o) PROVE GovernanceInv'
  BY <1>1, BareCallKeeps DEF Die, Continue
<1> QED BY <1>1, RereadKeeps, PrepareKeeps, CommitKeeps, WriteKeeps, PrepareDemotionKeeps,
           AppendDemotionKeeps, AppendManifestKeeps, WriteFailsKeeps, StoreRaisesKeeps,
           ReturnToBacktestKeeps, RecordReturnKeeps DEF Progress, Returning

\* Any call of the CLI.
LEMMA GovernKeeps ==
    ASSUME GovernanceInv, NEW o \in Operators, Govern(o)
    PROVE  GovernanceInv'
<1>1. ASSUME NEW t \in tests, Promote(o, "statistical", t) PROVE GovernanceInv'
  <2>1. t \in Test \cup {None} /\ "statistical" \in Bypasses
    BY DEF GovernanceInv, GovernanceTypeOK, Bypasses
  <2> QED BY <1>1, <2>1, PromoteKeeps
<1>2. ASSUME NEW kind \in {"lifecycle_exempt", "operator_override"}, Promote(o, kind, None)
      PROVE  GovernanceInv'
  <2>1. kind \in Bypasses /\ None \in Test \cup {None}
    BY DEF Bypasses
  <2> QED BY <1>2, <2>1, PromoteKeeps
<1>3. ASSUME NEW to \in {"idle", "backtest", "disabled"}, Demote(o, to) PROVE GovernanceInv'
  <2>1. to \in Below \cup {"disabled"}
    BY DEF Below
  <2> QED BY <1>3, <2>1, DemoteKeeps
<1> QED BY <1>1, <1>2, <1>3, FreezeKeeps, ProgressKeeps DEF Govern

\* What a worker of the desk dispatches.
LEMMA DispatchKeeps ==
    ASSUME GovernanceInv, DeskTypes, NEW w \in Awaited, DispatchGovernance(w)
    PROVE  GovernanceInv'
<1>1. w \in Operators
  BY GovernanceAssumption
<1>2. work[w].request \in Requests
  BY TaskTypes DEF DispatchGovernance
<1>3. ASSUME NEW t \in tests, Promote(w, "statistical", t) PROVE GovernanceInv'
  <2>1. t \in Test \cup {None} /\ "statistical" \in Bypasses
    BY DEF GovernanceInv, GovernanceTypeOK, Bypasses
  <2> QED BY <1>1, <1>3, <2>1, PromoteKeeps
<1>4. ASSUME Promote(w, "lifecycle_exempt", None) PROVE GovernanceInv'
  <2>1. "lifecycle_exempt" \in Bypasses /\ None \in Test \cup {None}
    BY DEF Bypasses
  <2> QED BY <1>1, <1>4, <2>1, PromoteKeeps
<1>5. ASSUME work[w].request.family = "demote", Demote(w, work[w].request.arg)
      PROVE  GovernanceInv'
  BY <1>1, <1>2, <1>5, DemotionRequests, DemoteKeeps
<1>6. ASSUME Freeze(w) PROVE GovernanceInv'
  BY <1>1, <1>6, FreezeKeeps
<1> QED BY <1>3, <1>4, <1>5, <1>6 DEF DispatchGovernance, DispatchPromote

\* The evidence and the editors.
LEMMA WorldStep ==
    ASSUME GovernanceInv, World
    PROVE  GovernanceInv'
<1>1. /\ file \in Config /\ tests \in SUBSET Test /\ vetoed \in BOOLEAN
      /\ runner \in Stages \cup {None} /\ edits \in 0..MaxEdits
  BY DEF GovernanceInv, GovernanceTypeOK
<1>2. ASSUME NEW v \in Verdicts, RunBacktest(v) PROVE GovernanceInv'
  <2>1. v[1] \in BOOLEAN /\ v[2] \in BOOLEAN
    BY GovernanceAssumption
  <2>2. tests' \in SUBSET Test
    BY <1>1, <1>2, <2>1 DEF RunBacktest, Config, Test
  <2> QED BY <1>1, <1>2, <2>2, WorldKeeps DEF RunBacktest
<1>3. ASSUME FaultCheck PROVE GovernanceInv'
  BY <1>1, <1>3, WorldKeeps DEF FaultCheck
<1>4. ASSUME NinetyDays PROVE GovernanceInv'
  <2>1. \A t \in tests : [t EXCEPT !.fresh = FALSE] \in Test
    BY <1>1 DEF Test
  <2>2. tests' \in SUBSET Test
    BY <1>4, <2>1 DEF NinetyDays
  <2> QED BY <1>1, <1>4, <2>2, WorldKeeps DEF NinetyDays
<1>5. ASSUME NEW p \in Params, EditConfig(p) PROVE GovernanceInv'
  <2>1. file' \in Config /\ file'.stage = file.stage
    BY <1>1, <1>5 DEF EditConfig, Config
  <2>2. edits' \in 0..MaxEdits
    BY <1>1, <1>5, GovernanceAssumption DEF EditConfig
  <2> QED BY <1>1, <1>5, <2>1, <2>2, WorldKeeps DEF EditConfig, rows
<1> QED BY <1>2, <1>3, <1>4, <1>5 DEF World

\* A step that leaves governance alone.
LEMMA GovernanceRests ==
    ASSUME GovernanceInv, UNCHANGED gvars
    PROVE  GovernanceInv'
BY DEF gvars, rows, around, GovernanceInv, GovernanceTypeOK, CallInv, LedgerInv, FileInv,
       PaperOnRecord, CallOk, OpensPaper, Earned

\* Every step keeps GovernanceInv.
LEMMA GovernanceStep ==
    ASSUME GovernanceInv, DeskTypes, [BenchNext]_bvars
    PROVE  GovernanceInv'
<1>1. /\ file \in Config /\ tests \in SUBSET Test /\ vetoed \in BOOLEAN
      /\ runner \in Stages \cup {None} /\ edits \in 0..MaxEdits
  BY DEF GovernanceInv, GovernanceTypeOK
<1>2. crew \subseteq Operators /\ Awaited \subseteq Operators
  BY GovernanceAssumption DEF DeskTypes
<1>3. ASSUME NEW o \in crew \ Awaited, Govern(o) PROVE GovernanceInv'
  BY <1>2, <1>3, GovernKeeps
<1>4. ASSUME NEW w \in crew \cap Awaited, Progress(w) \/ Returning(w) PROVE GovernanceInv'
  BY <1>2, <1>4, ProgressKeeps
<1>5. ASSUME NEW w \in crew \cap Awaited, Submit(w) PROVE GovernanceInv'
  <2>1. CASE DispatchGovernance(w)
    BY <2>1, DispatchKeeps
  <2>2. CASE Answer(w) \/ Returned(w)
    BY <1>2, <2>2, BareCallKeeps DEF Answer, Returned
  <2>3. CASE AcceptBacktest(w)
    <3>1. CASE work[w].seen = "idle"
      BY <1>2, <2>3, <3>1, BareCallKeeps DEF AcceptBacktest, Begin
    <3>2. CASE work[w].seen # "idle"
      BY <2>3, <3>2, GovernanceRests DEF AcceptBacktest, gvars
    <3> QED BY <3>1, <3>2
  <2>4. ASSUME NEW v \in Verdicts, EngineRuns(w, v) PROVE GovernanceInv'
    BY <2>4, WorldStep DEF EngineRuns, World
  <2>5. CASE (\E p \in Proposals : Take(w, p))
             \/ (\E issues \in SUBSET Dimensions : Revalidate(w, issues))
             \/ RefusedByGovernance(w) \/ EngineFails(w) \/ LaunchRunner(w) \/ Spawned(w)
             \/ Linked(w) \/ LinkTimesOut(w) \/ RequestStop(w)
    BY <2>5, GovernanceRests DEF Take, Revalidate, RefusedByGovernance, EngineFails,
       LaunchRunner, Spawned, Linked, LinkTimesOut, RequestStop
  <2> QED BY <1>5, <2>1, <2>2, <2>3, <2>4, <2>5 DEF Submit
<1>6. ASSUME StartRunner \/ StopRunner PROVE GovernanceInv'
  <2>1. runner' \in Stages \cup {None}
    BY <1>6 DEF StartRunner, StopRunner, Stages
  <2> QED BY <1>1, <1>6, <2>1, WorldKeeps DEF StartRunner, StopRunner
<1>7. ASSUME World PROVE GovernanceInv'
  BY <1>7, WorldStep
<1>8. ASSUME NEW p \in Proposals, NEW r \in Requests, Propose(p, r) PROVE GovernanceInv'
  BY <1>8, GovernanceRests DEF Propose
<1>9. ASSUME RunnerUp PROVE GovernanceInv'
  BY <1>1, <1>9, WorldKeeps DEF RunnerUp, rows, Stages
<1>10. ASSUME RunnerStops \/ RunnerDies PROVE GovernanceInv'
  BY <1>1, <1>10, WorldKeeps DEF RunnerStops, StopRunner, RunnerDies, rows
<1>11. ASSUME StopBridge PROVE GovernanceInv'
  BY <1>11, GovernanceRests DEF StopBridge
<1>12. ASSUME GuiDies PROVE GovernanceInv'
  BY <1>1, <1>12, WorldKeeps DEF GuiDies, rows, around
<1>13. CASE UNCHANGED bvars
  BY <1>13, GovernanceRests DEF bvars
<1> QED BY <1>3, <1>4, <1>5, <1>6, <1>7, <1>8, <1>9, <1>10, <1>11, <1>12, <1>13 DEF BenchNext

\* A busy worker goes on with its proposal, or is through with it: then the job
\* says what the result says.
LEMMA WorkerStep ==
    ASSUME DeskTypes, DeskInv, JobsTellTheTruth, NEW w \in Awaited, Busy(w),
           NEW x \in {Idle} \cup Tasks,
           NEW j \in {"none", "running", "completed", "blocked", "failed"},
           NEW r \in {"none", "submitted", "blocked", "error"},
           work' = [work EXCEPT ![w] = x],
           jobs' = [jobs EXCEPT ![work[w].of] = j],
           results' = [results EXCEPT ![work[w].of] = r],
           UNCHANGED <<desk, crew>>,
           x # Idle => /\ x.of = work[w].of /\ j \in {"none", "running"}
                       /\ x.at \in {"revalidate", "dispatch", "await"} => j = "none",
           j = "completed" => r = "submitted",
           j = "blocked" => r = "blocked",
           j = "failed" => r = "error",
           j = "running" => x # Idle \/ r # "none"
    PROVE  (DeskTypes /\ DeskInv /\ JobsTellTheTruth)'
<1> DEFINE p == work[w].of
<1>1. work[w] \in Tasks /\ p \in Proposals
  BY DEF DeskTypes, Busy, Tasks
<1>2. /\ work' \in [Awaited -> {Idle, Dead} \cup Tasks] /\ work'[w] = x
      /\ \A v \in Awaited \ {w} : work'[v] = work[v]
  BY DEF DeskTypes
<1>3. /\ jobs' \in [Proposals -> {"none", "running", "completed", "blocked", "failed"}]
      /\ jobs'[p] = j /\ \A q \in Proposals \ {p} : jobs'[q] = jobs[q]
  BY <1>1 DEF DeskTypes
<1>4. /\ results' \in [Proposals -> {"none", "submitted", "blocked", "error"}]
      /\ results'[p] = r /\ \A q \in Proposals \ {p} : results'[q] = results[q]
  BY <1>1 DEF DeskTypes
<1>5. DeskTypes'
  BY <1>2, <1>3, <1>4 DEF DeskTypes
<1>6. x \in Tasks => x # Idle /\ x # Dead
  BY DEF Tasks, Idle, Dead
<1>7. Idle # Dead
  BY DEF Idle, Dead
<1>8. \A v \in Awaited \ {w} : Busy(v) => work[v] \in Tasks /\ work[v].of \in Proposals \ {p}
  BY DEF DeskTypes, Busy, DeskInv, Tasks
<1> HIDE DEF p
<1>9. DeskInv'
  <2>1. ASSUME NEW v \in Awaited, Busy(v)'
        PROVE  /\ desk'[work'[v].of] = Popped
               /\ jobs'[work'[v].of] \in {"none", "running"}
               /\ work'[v].at \in {"revalidate", "dispatch", "await"} => jobs'[work'[v].of] = "none"
    <3>1. CASE v = w
      BY <1>2, <1>3, <2>1, <3>1 DEF Busy, DeskInv, p
    <3>2. CASE v # w
      BY <1>2, <1>3, <1>8, <2>1, <3>2 DEF Busy, DeskInv
    <3> QED BY <3>1, <3>2
  <2>2. ASSUME NEW u \in Awaited, NEW v \in Awaited, Busy(u)', Busy(v)',
               work'[u].of = work'[v].of
        PROVE  u = v
    BY <1>2, <1>8, <2>2 DEF Busy, DeskInv, p
  <2>3. ASSUME NEW q \in Proposals, desk'[q] # Popped
        PROVE  jobs'[q] = "none"
    BY <1>3, <2>3 DEF DeskInv, p
  <2> QED BY <2>1, <2>2, <2>3 DEF DeskInv, Busy
<1>10. JobsTellTheTruth'
  <2> SUFFICES ASSUME NEW q \in Proposals
               PROVE  /\ jobs'[q] = "completed" => results'[q] = "submitted"
                      /\ jobs'[q] = "failed" => results'[q] = "error"
                      /\ jobs'[q] = "blocked" => results'[q] = "blocked"
                      /\ jobs'[q] = "running" /\ results'[q] = "none" => \E v \in Awaited :
                            work'[v] = Dead \/ (work'[v] # Idle /\ work'[v].of = q)
    BY DEF JobsTellTheTruth
  <2>1. CASE q = p
    BY <1>2, <1>3, <1>4, <2>1 DEF p
  <2>2. CASE q # p
    <3>1. jobs'[q] = jobs[q] /\ results'[q] = results[q]
      BY <1>3, <1>4, <2>2
    <3>2. ASSUME jobs[q] = "running", results[q] = "none"
          PROVE  \E v \in Awaited : work'[v] = Dead \/ (work'[v] # Idle /\ work'[v].of = q)
      <4>1. PICK v \in Awaited : work[v] = Dead \/ (work[v] # Idle /\ work[v].of = q)
        BY <3>2 DEF JobsTellTheTruth
      <4>2. v # w
        BY <2>2, <4>1 DEF p, Busy
      <4> QED BY <1>2, <4>1, <4>2
    <3> QED BY <3>1, <3>2 DEF JobsTellTheTruth
  <2> QED BY <2>1, <2>2
<1> QED BY <1>5, <1>9, <1>10

\* A proposal is taken off the desk by one worker.
LEMMA TakeStep ==
    ASSUME DeskTypes, DeskInv, JobsTellTheTruth,
           NEW w \in Awaited, NEW p \in Proposals, Take(w, p)
    PROVE  (DeskTypes /\ DeskInv /\ JobsTellTheTruth)'
<1> DEFINE x == [at |-> "revalidate", of |-> p, request |-> desk[p], seen |-> None]
<1>1. x \in Tasks /\ x.of = p /\ x.at = "revalidate"
  BY DEF Take, Tasks
<1>2. /\ work' \in [Awaited -> {Idle, Dead} \cup Tasks] /\ work'[w] = x
      /\ \A v \in Awaited \ {w} : work'[v] = work[v]
  BY <1>1 DEF Take, Work, DeskTypes
<1>3. /\ desk' \in [Proposals -> Requests \cup {Empty, Popped}] /\ desk'[p] = Popped
      /\ \A q \in Proposals \ {p} : desk'[q] = desk[q]
  BY DEF Take, DeskTypes
<1>4. UNCHANGED <<crew, jobs, results>> /\ work[w] = Idle /\ desk[p] # Popped /\ jobs[p] = "none"
  BY DEF Take, Requests, Request, Popped, DeskInv
<1>5. Idle # Dead /\ x # Idle /\ x # Dead
  BY <1>1 DEF Idle, Dead
<1>6. \A v \in Awaited : Busy(v) => v # w /\ work[v] \in Tasks /\ work[v].of \in Proposals \ {p}
  BY <1>4 DEF DeskTypes, Busy, DeskInv, Tasks
<1> HIDE DEF x
<1>7. DeskTypes'
  BY <1>2, <1>3, <1>4 DEF DeskTypes
<1>8. DeskInv'
  <2>1. ASSUME NEW v \in Awaited, Busy(v)'
        PROVE  /\ desk'[work'[v].of] = Popped
               /\ jobs'[work'[v].of] \in {"none", "running"}
               /\ work'[v].at \in {"revalidate", "dispatch", "await"} => jobs'[work'[v].of] = "none"
    <3>1. CASE v = w
      BY <1>1, <1>2, <1>3, <1>4, <3>1
    <3>2. CASE v # w
      BY <1>2, <1>3, <1>4, <1>6, <2>1, <3>2 DEF Busy, DeskInv
    <3> QED BY <3>1, <3>2
  <2>2. ASSUME NEW u \in Awaited, NEW v \in Awaited, Busy(u)', Busy(v)',
               work'[u].of = work'[v].of
        PROVE  u = v
    BY <1>1, <1>2, <1>6, <2>2 DEF Busy, DeskInv
  <2>3. \A q \in Proposals : desk'[q] # Popped => jobs'[q] = "none"
    BY <1>3, <1>4 DEF DeskInv
  <2> QED BY <2>1, <2>2, <2>3 DEF DeskInv, Busy
<1>9. JobsTellTheTruth'
  <2>1. ASSUME NEW q \in Proposals, jobs[q] = "running", results[q] = "none"
        PROVE  \E v \in Awaited : work'[v] = Dead \/ (work'[v] # Idle /\ work'[v].of = q)
    <3>1. PICK v \in Awaited : work[v] = Dead \/ (work[v] # Idle /\ work[v].of = q)
      BY <2>1 DEF JobsTellTheTruth
    <3>2. v # w
      BY <1>4, <1>5, <3>1
    <3> QED BY <1>2, <3>1, <3>2
  <2> QED BY <1>4, <2>1 DEF JobsTellTheTruth
<1> QED BY <1>7, <1>8, <1>9

\* A new proposal, in a place where none is waiting or at work.
LEMMA ProposeStep ==
    ASSUME DeskTypes, DeskInv, JobsTellTheTruth,
           NEW p \in Proposals, NEW r \in Requests, Propose(p, r)
    PROVE  (DeskTypes /\ DeskInv /\ JobsTellTheTruth)'
<1>1. UNCHANGED <<crew, work>> /\ \A w \in Awaited : Busy(w) => work[w].of # p
  BY DEF Propose, Busy
<1>2. /\ desk' \in [Proposals -> Requests \cup {Empty, Popped}]
      /\ \A q \in Proposals \ {p} : desk'[q] = desk[q]
  BY DEF Propose, DeskTypes
<1>3. /\ jobs' \in [Proposals -> {"none", "running", "completed", "blocked", "failed"}]
      /\ jobs'[p] = "none" /\ \A q \in Proposals \ {p} : jobs'[q] = jobs[q]
  BY DEF Propose, DeskTypes
<1>4. /\ results' \in [Proposals -> {"none", "submitted", "blocked", "error"}]
      /\ \A q \in Proposals \ {p} : results'[q] = results[q]
  BY DEF Propose, DeskTypes
<1>5. \A w \in Awaited : Busy(w) => work[w].of \in Proposals \ {p}
  BY <1>1 DEF DeskTypes, Busy, Tasks
<1>6. DeskInv'
  BY <1>1, <1>2, <1>3, <1>5 DEF DeskInv, Busy
<1>7. JobsTellTheTruth'
  BY <1>1, <1>3, <1>4 DEF JobsTellTheTruth
<1> QED BY <1>1, <1>2, <1>3, <1>4, <1>6, <1>7 DEF DeskTypes

\* The GUI dies: nobody is busy any more.
LEMMA GuiDiesStep ==
    ASSUME DeskTypes, DeskInv, JobsTellTheTruth, GuiDies
    PROVE  (DeskTypes /\ DeskInv /\ JobsTellTheTruth)'
<1>1. UNCHANGED <<crew, desk, jobs, results>> /\ \A w \in Awaited : work'[w] = Dead
  BY DEF GuiDies
<1>2. DeskTypes'
  BY <1>1 DEF GuiDies, DeskTypes
<1>3. DeskInv'
  BY <1>1 DEF DeskInv, Busy
<1>4. JobsTellTheTruth'
  BY <1>1 DEF JobsTellTheTruth
<1> QED BY <1>2, <1>3, <1>4

\* A step that leaves the desk alone.
LEMMA DeskRests ==
    ASSUME DeskTypes, DeskInv, JobsTellTheTruth,
           UNCHANGED <<crew, desk, work, jobs, results>>
    PROVE  (DeskTypes /\ DeskInv /\ JobsTellTheTruth)'
BY DEF DeskTypes, DeskInv, Busy, JobsTellTheTruth

\* What the end of a submit says of the job.
LEMMA FinishSays ==
    ASSUME DeskTypes, NEW p \in Proposals, NEW said \in {"submitted", "blocked", "error"},
           jobs[p] \in {"none", "running"}, Finish(p, said)
    PROVE  \E j \in {"none", "running", "completed", "blocked", "failed"} :
              /\ jobs' = [jobs EXCEPT ![p] = j]
              /\ results' = [results EXCEPT ![p] = said]
              /\ j = "blocked" => said = "blocked"
              /\ j = "completed" => said = "submitted"
              /\ j = "failed" => said = "error"
<1>1. CASE jobs' = [jobs EXCEPT ![p] = jobs[p]]
  BY <1>1 DEF Finish
<1>2. CASE jobs[p] = "running" /\ jobs' = [jobs EXCEPT ![p] = Ended[said]]
  <2>1. results' = [results EXCEPT ![p] = said]
    BY DEF Finish
  <2>2. \/ said = "submitted" /\ Ended[said] = "completed"
        \/ said = "blocked" /\ Ended[said] = "blocked"
        \/ said = "error" /\ Ended[said] = "failed"
    BY DEF Ended
  <2> QED BY <1>2, <2>1, <2>2
<1>3. UNCHANGED jobs => jobs' = [jobs EXCEPT ![p] = jobs[p]]
  BY DEF DeskTypes
<1> QED BY <1>1, <1>2, <1>3 DEF Finish

\* A worker is through with its proposal.
LEMMA ThroughStep ==
    ASSUME DeskTypes, DeskInv, JobsTellTheTruth, NEW w \in Awaited, Busy(w),
           NEW said \in {"submitted", "blocked", "error"},
           Work(w, Idle), Finish(work[w].of, said), UNCHANGED <<desk, crew>>
    PROVE  (DeskTypes /\ DeskInv /\ JobsTellTheTruth)'
<1>1. work[w].of \in Proposals /\ jobs[work[w].of] \in {"none", "running"}
  BY DEF DeskTypes, DeskInv, Busy, Tasks
<1>2. PICK j \in {"none", "running", "completed", "blocked", "failed"} :
              /\ jobs' = [jobs EXCEPT ![work[w].of] = j]
              /\ results' = [results EXCEPT ![work[w].of] = said]
              /\ j = "blocked" => said = "blocked"
              /\ j = "completed" => said = "submitted"
              /\ j = "failed" => said = "error"
  BY <1>1, FinishSays
<1>3. work' = [work EXCEPT ![w] = Idle]
  BY DEF Work
<1> QED BY <1>2, <1>3, WorkerStep

\* A worker goes on to another step, with its job or without, and without a
\* result yet.
LEMMA GoesOnStep ==
    ASSUME DeskTypes, DeskInv, JobsTellTheTruth, NEW w \in Awaited, work[w] \in Tasks,
           NEW at \in {"dispatch", "await", "returning", "engine", "launch", "link"},
           Work(w, [work[w] EXCEPT !.at = at]),
           NEW j \in {"none", "running"}, jobs' = [jobs EXCEPT ![work[w].of] = j],
           at \in {"dispatch", "await"} => j = "none",
           UNCHANGED <<results, desk, crew>>
    PROVE  (DeskTypes /\ DeskInv /\ JobsTellTheTruth)'
<1> DEFINE x == [work[w] EXCEPT !.at = at]
           r == results[work[w].of]
<1>1. x \in Tasks /\ x.of = work[w].of /\ x.at = at /\ work[w].of \in Proposals
  BY DEF Tasks
<1>2. Busy(w) /\ x # Idle
  BY <1>1 DEF Busy, Tasks, Idle, Dead
<1>3. r \in {"none", "submitted", "blocked", "error"} /\ results' = [results EXCEPT ![work[w].of] = r]
  BY <1>1 DEF DeskTypes
<1>4. work' = [work EXCEPT ![w] = x]
  BY DEF Work
<1> HIDE DEF x, r
<1> QED BY <1>1, <1>2, <1>3, <1>4, WorkerStep

\* Every step of a worker keeps the desk in order.
LEMMA SubmitStep ==
    ASSUME DeskTypes, DeskInv, JobsTellTheTruth, GovernanceInv, NEW w \in Awaited, Submit(w)
    PROVE  (DeskTypes /\ DeskInv /\ JobsTellTheTruth)'
<1> DEFINE p == work[w].of
           Good == DeskTypes /\ DeskInv /\ JobsTellTheTruth
<1> USE TaskTypes
<1>1. work[w].at \notin {"idle", "dead"} => Busy(w) /\ work[w] \in Tasks /\ p \in Proposals
  BY DEF Busy, Idle, Dead
<1>2. ASSUME work[w] \in Tasks
      PROVE  /\ jobs = [jobs EXCEPT ![p] = jobs[p]] /\ jobs[p] \in {"none", "running"}
             /\ results[p] \in {"none", "submitted", "blocked", "error"}
             /\ work[w].at \in {"revalidate", "dispatch", "await"} => jobs[p] = "none"
  BY <1>2 DEF DeskTypes, DeskInv, Busy, Tasks, Idle, Dead
<1> HIDE DEF Good
<1>3. ASSUME NEW q \in Proposals, Take(w, q) PROVE Good'
  BY <1>3, TakeStep DEF Good
<1>4. ASSUME NEW issues \in SUBSET Dimensions, Revalidate(w, issues) PROVE Good'
  <2>1. work[w] \in Tasks /\ Busy(w) /\ jobs[p] = "none" /\ jobs' = [jobs EXCEPT ![p] = "none"]
        /\ UNCHANGED <<desk, crew>>
    BY <1>1, <1>2, <1>4 DEF Revalidate
  <2>2. CASE Admissible(work[w].request, issues)
    <3> DEFINE x == [work[w] EXCEPT !.at = "dispatch", !.seen = file.stage]
    <3>1. work' = [work EXCEPT ![w] = x] /\ UNCHANGED results
      BY <1>4, <2>2 DEF Revalidate, Work
    <3>2. file.stage \in Stages
      BY DEF GovernanceInv, GovernanceTypeOK, Config
    <3>3. x \in Tasks /\ x.of = p /\ x.at = "dispatch" /\ p \in Proposals
      BY <2>1, <3>2 DEF Tasks
    <3>4. x # Idle /\ results' = [results EXCEPT ![p] = results[p]]
          /\ results[p] \in {"none", "submitted", "blocked", "error"}
      BY <2>1, <3>1, <3>3 DEF Idle, DeskTypes, Tasks
    <3> HIDE DEF x
    <3> QED BY <2>1, <3>1, <3>3, <3>4, WorkerStep DEF Good
  <2>3. CASE ~Admissible(work[w].request, issues)
    <3>1. Work(w, Idle) /\ results' = [results EXCEPT ![p] = "blocked"]
      BY <1>4, <2>3 DEF Revalidate
    <3> QED BY <2>1, <3>1, WorkerStep DEF Good, Work
  <2> QED BY <2>2, <2>3
<1>5. ASSUME DispatchGovernance(w) PROVE Good'
  BY <1>1, <1>2, <1>5, GoesOnStep DEF DispatchGovernance, Good
<1>6. ASSUME RefusedByGovernance(w) PROVE Good'
  BY <1>1, <1>2, <1>6, WorkerStep DEF RefusedByGovernance, Work, Good
<1>7. ASSUME Answer(w) PROVE Good'
  <2>1. op[w].said \in {"submitted", "error", "blocked", "raised"}
    BY <1>7, CallTypes, GovernanceAssumption DEF Answer, GovernanceInv, GovernanceTypeOK, Over
  <2>2. PICK said \in {"none", "submitted", "blocked", "error"} :
           results' = [results EXCEPT ![p] = said]
    BY <1>1, <1>2, <1>7, <2>1 DEF Answer
  <2> QED BY <1>1, <1>2, <1>7, <2>2, WorkerStep DEF Answer, Work, Good
<1>8. ASSUME AcceptBacktest(w) PROVE Good'
  <2>1. PICK j \in {"none", "running"} : jobs' = [jobs EXCEPT ![p] = j]
    BY <1>8 DEF AcceptBacktest, Journal
  <2>2. PICK at \in {"returning", "engine"} : Work(w, [work[w] EXCEPT !.at = at])
    BY <1>8 DEF AcceptBacktest
  <2> QED BY <1>1, <1>8, <2>1, <2>2, GoesOnStep DEF AcceptBacktest, Good
<1>9. ASSUME Returned(w) PROVE Good'
  <2>1. work[w] \in Tasks /\ Busy(w) /\ UNCHANGED <<desk, crew>>
    BY <1>1, <1>9 DEF Returned
  <2>2. CASE op[w].said = "submitted"
    <3>1. Work(w, [work[w] EXCEPT !.at = "engine"]) /\ UNCHANGED <<jobs, results>>
      BY <1>9, <2>2 DEF Returned
    <3> QED BY <1>2, <2>1, <3>1, GoesOnStep DEF Good
  <2>3. CASE op[w].said \notin {"submitted", "raised"}
    <3>1. Work(w, Idle) /\ Finish(p, "error")
      BY <1>9, <2>3 DEF Returned
    <3> QED BY <2>1, <3>1, ThroughStep DEF Good
  <2>4. CASE op[w].said = "raised"
    <3>1. work' = [work EXCEPT ![w] = Idle] /\ UNCHANGED jobs
          /\ results' = [results EXCEPT ![p] = "error"]
      BY <1>9, <2>4 DEF Returned, Work
    <3> QED BY <1>2, <2>1, <3>1, WorkerStep DEF Good
  <2> QED BY <2>2, <2>3, <2>4
<1>10. ASSUME NEW v \in Verdicts, EngineRuns(w, v) PROVE Good'
  BY <1>1, <1>10, ThroughStep DEF EngineRuns, Good
<1>11. ASSUME EngineFails(w) PROVE Good'
  BY <1>1, <1>11, ThroughStep DEF EngineFails, Good
<1>12. ASSUME LaunchRunner(w) PROVE Good'
  <2>1. PICK j \in {"none", "running"} : jobs' = [jobs EXCEPT ![p] = j]
    BY <1>12 DEF LaunchRunner, Journal
  <2> QED BY <1>1, <1>12, <2>1, GoesOnStep DEF LaunchRunner, Good
<1>13. ASSUME Spawned(w) PROVE Good'
  <2>1. work[w] \in Tasks /\ Busy(w) /\ UNCHANGED <<desk, crew>>
    BY <1>1, <1>13 DEF Spawned
  <2>2. CASE Work(w, Idle) /\ Finish(p, "error")
    BY <2>1, <2>2, ThroughStep DEF Good
  <2>3. CASE Work(w, [work[w] EXCEPT !.at = "link"]) /\ UNCHANGED <<jobs, results>>
    BY <1>2, <2>1, <2>3, GoesOnStep DEF Good
  <2> QED BY <1>13, <2>2, <2>3 DEF Spawned
<1>14. ASSUME Linked(w) PROVE Good'
  BY <1>1, <1>14, ThroughStep DEF Linked, Good
<1>15. ASSUME LinkTimesOut(w) PROVE Good'
  BY <1>1, <1>15, ThroughStep DEF LinkTimesOut, Good
<1>16. ASSUME RequestStop(w) PROVE Good'
  <2>1. work[w] \in Tasks /\ Busy(w) /\ jobs[p] = "none" /\ UNCHANGED <<desk, crew>>
        /\ work' = [work EXCEPT ![w] = Idle]
    BY <1>1, <1>2, <1>16 DEF RequestStop, Work
  <2>2. CASE HolderIsLive /\ open # "none"
    <3>1. PICK said \in {"submitted", "error"} :
             /\ results' = [results EXCEPT ![p] = said]
             /\ \E j \in {"none", "running", Ended[said]} : jobs' = [jobs EXCEPT ![p] = j]
      BY <1>16, <2>2 DEF RequestStop
    <3>2. PICK j \in {"none", "running", Ended[said]} : jobs' = [jobs EXCEPT ![p] = j]
      BY <3>1
    <3>3. /\ j \in {"none", "running", "completed", "failed"}
          /\ j = "completed" => said = "submitted"
          /\ j = "failed" => said = "error"
      BY DEF Ended
    <3> QED BY <2>1, <3>1, <3>2, <3>3, WorkerStep DEF Good
  <2>3. CASE ~(HolderIsLive /\ open # "none")
    <3>1. results' = [results EXCEPT ![p] = "blocked"] /\ UNCHANGED jobs
      BY <1>16, <2>3 DEF RequestStop
    <3> QED BY <1>2, <2>1, <3>1, WorkerStep DEF Good
  <2> QED BY <2>2, <2>3
<1> QED BY <1>3, <1>4, <1>5, <1>6, <1>7, <1>8, <1>9, <1>10, <1>11, <1>12, <1>13, <1>14,
           <1>15, <1>16 DEF Submit, Good

-----------------------------------------------------------------------------
(* The theorems                                                            *)

\* BenchInv is inductive.
LEMMA Invariance == BenchSpec => []BenchInv
<1>1. BenchInit => BenchInv
  <2> SUFFICES ASSUME BenchInit PROVE BenchInv
    OBVIOUS
  <2>1. /\ tests = {} /\ vetoed = FALSE /\ op = [o \in Operators |-> Idle]
        /\ runner = None /\ edits = 0
    BY DEF BenchInit, Init
  <2>2. PICK p \in Params :
           \/ /\ file \in [stage : {"backtest", "idle"}, params : {p}]
              /\ ledger = <<>> /\ manifests = <<>>
           \/ /\ file = [stage |-> "paper", params |-> p]
              /\ ledger = <<[from |-> "backtest", to |-> "paper",
                             kind |-> "operator_override", reviewed |-> p, test |-> None,
                             manifest |-> 1, reverses |-> 0]>>
              /\ manifests = <<file>>
    BY GovernanceAssumption DEF BenchInit, Init
  <2>3. file \in Config /\ ledger \in Seq(Row) /\ manifests \in Seq(Config)
    <3>1. CASE ledger = <<>> /\ manifests = <<>> /\ file \in [stage : {"backtest", "idle"}, params : {p}]
      BY <3>1 DEF Config, Stages
    <3>2. CASE ledger # <<>>
      <4> DEFINE row == [from |-> "backtest", to |-> "paper", kind |-> "operator_override",
                         reviewed |-> p, test |-> None, manifest |-> 1, reverses |-> 0]
      <4>1. file = [stage |-> "paper", params |-> p] /\ ledger = <<row>> /\ manifests = <<file>>
        BY <2>2, <3>2
      <4>2. row \in Row
        BY DEF Row, Stages, Bypasses
      <4>3. file \in Config
        BY <4>1 DEF Config, Stages
      <4> HIDE DEF row
      <4> QED BY <4>1, <4>2, <4>3
    <3> QED BY <2>2, <3>1, <3>2
  <2>4. LedgerInv /\ FileInv
    BY <2>2 DEF LedgerInv, FileInv, PaperOnRecord, Earned
  <2>5. \A o \in Operators : CallOk(op[o]) /\ ~OpensPaper(op[o])
    BY <2>1 DEF CallOk, OpensPaper, Idle
  <2>6. GovernanceInv
    <3>1. op \in [Operators -> Calls] /\ CallInv
      BY <2>1, <2>5 DEF Calls, CallInv
    <3>2. tests \in SUBSET Test /\ edits \in 0..MaxEdits
      BY <2>1, GovernanceAssumption
    <3> QED BY <2>1, <2>3, <2>4, <3>1, <3>2 DEF GovernanceInv, GovernanceTypeOK
  <2>7. DeskTypes /\ DeskInv /\ JobsTellTheTruth
    BY BenchAssumption DEF BenchInit, DeskTypes, DeskInv, JobsTellTheTruth, Busy, Empty, Popped
  <2> QED BY <2>6, <2>7 DEF BenchInv
<1>2. BenchInv /\ [BenchNext]_bvars => BenchInv'
  <2> SUFFICES ASSUME BenchInv, [BenchNext]_bvars PROVE BenchInv'
    OBVIOUS
  <2>1. GovernanceInv'
    BY GovernanceStep DEF BenchInv
  <2>2. DeskTypes /\ DeskInv /\ JobsTellTheTruth /\ GovernanceInv
    BY DEF BenchInv
  <2>3. ASSUME NEW w \in crew \cap Awaited, Submit(w)
        PROVE  (DeskTypes /\ DeskInv /\ JobsTellTheTruth)'
    BY <2>2, <2>3, SubmitStep
  <2>4. ASSUME NEW p \in Proposals, NEW r \in Requests, Propose(p, r)
        PROVE  (DeskTypes /\ DeskInv /\ JobsTellTheTruth)'
    BY <2>2, <2>4, ProposeStep
  <2>5. ASSUME GuiDies
        PROVE  (DeskTypes /\ DeskInv /\ JobsTellTheTruth)'
    BY <2>2, <2>5, GuiDiesStep
  <2>6. ASSUME RunnerUp \/ RunnerStops \/ RunnerDies \/ StopBridge \/ UNCHANGED bvars
                 \/ UNCHANGED Bystanders
        PROVE  (DeskTypes /\ DeskInv /\ JobsTellTheTruth)'
    BY <2>2, <2>6, DeskRests
       DEF RunnerUp, RunnerStops, RunnerDies, StopBridge, bvars, Bystanders
  <2>7. (DeskTypes /\ DeskInv /\ JobsTellTheTruth)'
    BY <2>3, <2>4, <2>5, <2>6 DEF BenchNext
  <2> QED BY <2>1, <2>7 DEF BenchInv
<1> QED BY <1>1, <1>2, PTL DEF BenchSpec

\* prepare_and_record_promotion and transition: every row that opens paper rests
\* on what its gate asked for and names a manifest of what was reviewed.
THEOREM PromotionsEarned == BenchSpec => []PromotionsAreEarned
<1>1. BenchInv => PromotionsAreEarned
  BY DEF BenchInv, GovernanceInv, LedgerInv, Earned, PromotionsAreEarned
<1> QED BY <1>1, Invariance, PTL

\* With a manifest on record the active one is the last.
LEMMA ActiveIsLast ==
    ASSUME GovernanceInv, manifests # <<>>
    PROVE  ActiveManifest("paper") \in Config /\ ActiveManifest("paper").stage = "paper"
<1> DEFINE at == {i \in DOMAIN manifests : manifests[i].stage = "paper"}
<1>1. manifests \in Seq(Config) /\ \A i \in DOMAIN manifests : manifests[i].stage = "paper"
  BY DEF GovernanceInv, GovernanceTypeOK, LedgerInv
<1>2. at = 1..Len(manifests) /\ Len(manifests) \in at
  BY <1>1
<1>3. \E i \in at : \A j \in at : j <= i
  BY <1>2
<1>4. (CHOOSE i \in at : \A j \in at : j <= i) \in DOMAIN manifests
  BY <1>3
<1>5. at # {} /\ ActiveManifest("paper") = manifests[CHOOSE i \in at : \A j \in at : j <= i]
  BY <1>2 DEF ActiveManifest
<1> QED BY <1>1, <1>4, <1>5

\* transition, demote, freeze_manifest: a file that claims paper has its row and
\* its manifest, whatever step was the last of a process.
THEOREM LogBeforeFile == BenchSpec => []DurableFirst
<1>1. BenchInv => DurableFirst
  <2> SUFFICES ASSUME BenchInv, file.stage = "paper"
               PROVE  /\ \E i \in DOMAIN ledger : ledger[i].to = "paper"
                      /\ ActiveManifest("paper") # None
    BY DEF DurableFirst
  <2>1. PaperOnRecord
    BY DEF BenchInv, GovernanceInv, FileInv
  <2>2. ActiveManifest("paper") \in Config
    BY <2>1, ActiveIsLast DEF BenchInv, PaperOnRecord
  <2> QED BY <2>1, <2>2, ConfigAssumption DEF PaperOnRecord
<1> QED BY <1>1, Invariance, PTL

\* BenchCommandFacade: a job says what its submit returned, and one that says
\* running has a worker, or the GUI died on it.
THEOREM TruthfulJobs == BenchSpec => []JobsTellTheTruth
<1>1. BenchInv => JobsTellTheTruth
  BY DEF BenchInv
<1> QED BY <1>1, Invariance, PTL

=============================================================================
