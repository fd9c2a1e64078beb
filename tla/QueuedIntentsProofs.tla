------------------------ MODULE QueuedIntentsProofs ------------------------
(***************************************************************************)
(* Safety of queue-at-open for any number of sessions, days, decisions and *)
(* config contents, whatever overlaps and whenever a session dies: the     *)
(* types, at most one order for a queued intent, the consumed row and its  *)
(* attempt together, claims only across a deliberate stop, one order per   *)
(* open of what was locked in twice, and no exit out of the queue without  *)
(* a reason on record.  The last parts are about the account the exits     *)
(* leave from: the single checks of the risk evaluator for every context   *)
(* they are given, what a sum over a function is, and the desk on which    *)
(* orders are judged now and filled later.                                 *)
(***************************************************************************)
EXTENDS QueuedIntents, RiskDesk, FiniteSetTheorems, WellFoundedInduction, TLAPS

-----------------------------------------------------------------------------
(* Type correctness                                                        *)

LEMMA SomeKeyIsKey == SomeKey \in Keys
  BY KeysAssumption DEF SomeKey

LEMMA FreshIsMemory == \A p \in Steps : Fresh(p) \in Memory
  BY SomeKeyIsKey DEF Fresh, Memory, Steps, Statuses

LEMMA KeyDays == \A k \in Keys : k.day \in Days
  BY KeysAssumption

LEMMA InitTypes == Init => TypeOK
<1> SUFFICES ASSUME Init PROVE TypeOK
  OBVIOUS
<1>1. NoRow \in QueueRows
  BY DEF Init, NoRow, QueueRows, Statuses
<1>2. NoClaim \in Claims /\ today \in Days
  BY BoundAssumption DEF Init, NoClaim, Claims, Days
<1>3. Fresh("unborn") \in Memory
  BY FreshIsMemory DEF Steps
<1> QED
  BY <1>1, <1>2, <1>3 DEF Init, TypeOK

LEMMA MemoryUpdate ==
    ASSUME TypeOK, NEW s \in Sessions, NEW m \in Memory, Become(s, m)
    PROVE  sess' \in [Sessions -> Memory]
  BY DEF TypeOK, Become

LEMMA GotoIsMemory ==
    ASSUME TypeOK, NEW s \in Sessions, NEW p \in Steps
    PROVE  [sess[s] EXCEPT !.pc = p] \in Memory
<1>1. sess[s] \in Memory
  BY DEF TypeOK
<1> QED
  BY <1>1 DEF Memory

LEMMA NextRowIsMemory ==
    ASSUME TypeOK, NEW s \in Sessions, NEW k \in Keys
    PROVE  Next1(s, k) \in Memory
<1>1. sess[s] \in Memory
  BY DEF TypeOK
<1> QED
  BY <1>1, SomeKeyIsKey DEF Memory, Next1, Steps

LEMMA SettlingIsMemory ==
    ASSUME TypeOK, NEW s \in Sessions, NEW k \in Keys, NEW st \in Statuses
    PROVE  Settling(s, k, st) \in Memory
<1>1. sess[s] \in Memory
  BY DEF TypeOK
<1> QED
  BY <1>1 DEF Memory, Settling, Steps

LEMMA LeftIsRow ==
    ASSUME TypeOK, NEW k \in Keys, NEW st \in Statuses
    PROVE  Left(k, st) \in QueueRows
<1>1. rows[k] \in QueueRows
  BY DEF TypeOK
<1> QED
  BY <1>1 DEF QueueRows, Left

LEMMA StepTypes == TypeOK /\ [Next]_vars => TypeOK'
<1> SUFFICES ASSUME TypeOK, [Next]_vars PROVE TypeOK'
  OBVIOUS
<1> USE DEF market, history
<1>1. ASSUME NEW s \in Sessions, Start(s) PROVE TypeOK'
  <2>1. sess' \in [Sessions -> Memory]
    BY <1>1, GotoIsMemory, MemoryUpdate DEF Start, Goto, Steps
  <2> QED
    BY <1>1, <2>1 DEF Start, TypeOK
<1>2. ASSUME NEW s \in Sessions, Register(s) PROVE TypeOK'
  <2>1. sess' \in [Sessions -> Memory]
    BY <1>2, GotoIsMemory, MemoryUpdate DEF Register, Goto, Steps
  <2> QED
    BY <1>2, <2>1 DEF Register, TypeOK
<1>3. ASSUME NEW s \in Sessions, Stop(s) PROVE TypeOK'
  <2>1. sess' \in [Sessions -> Memory]
    BY <1>3, FreshIsMemory, MemoryUpdate DEF Stop, Steps
  <2> QED
    BY <1>3, <2>1 DEF Stop, EndRun, TypeOK
<1>4. ASSUME NEW s \in Sessions, Die(s) PROVE TypeOK'
  <2>1. sess' \in [Sessions -> Memory]
    BY <1>4, FreshIsMemory, MemoryUpdate DEF Die, Steps
  <2> QED
    BY <1>4, <2>1 DEF Die, EndRun, TypeOK
<1>5. ASSUME NEW s \in Sessions, Poll(s) PROVE TypeOK'
  <2>m. sess[s] \in Memory /\ today \in Days
    BY DEF TypeOK
  <2>1. CASE Sweep(s)
    <3> DEFINE swept == {k \in Keys : Queued(k) /\ rows[k].stale}
    <3>1. [sess[s] EXCEPT !.pc = "swept", !.todo = swept \cap Exits] \in Memory
      BY <2>m DEF Memory, Steps
    <3>2. sess' \in [Sessions -> Memory]
      BY <2>1, <3>1, MemoryUpdate DEF Sweep
    <3>3. rows' \in [Keys -> QueueRows]
      <4>1. \A k \in Keys : Left(k, "expired") \in QueueRows
        BY LeftIsRow DEF Statuses
      <4> QED
        BY <2>1, <4>1 DEF Sweep, TypeOK
    <3> QED
      BY <2>1, <3>2, <3>3 DEF Sweep, TypeOK
  <2>2. CASE AlertSwept(s)
    <3>1. PICK k \in sess[s].todo : /\ alerts' = alerts \cup {k}
                                   /\ Become(s, [sess[s] EXCEPT !.todo = @ \ {k}])
      BY <2>2 DEF AlertSwept
    <3>2. [sess[s] EXCEPT !.todo = @ \ {k}] \in Memory
      BY <2>m DEF Memory
    <3>3. sess' \in [Sessions -> Memory]
      BY <3>1, <3>2, MemoryUpdate
    <3>4. k \in Keys
      BY <2>m DEF Memory
    <3> QED
      BY <2>2, <3>1, <3>3, <3>4 DEF AlertSwept, TypeOK
  <2>3. CASE Idle(s)
    <3>1. sess' \in [Sessions -> Memory]
      BY <2>3, GotoIsMemory, MemoryUpdate DEF Idle, Goto, Steps
    <3> QED
      BY <2>3, <3>1 DEF Idle, TypeOK
  <2>4. CASE LockIn(s)
    <3>1. PICK decided \in SUBSET Classes :
            LET new == {k \in Keys : k.day = today /\ k.class \in decided} \ sess[s].kept IN
            Become(s, IF new = {}
                      THEN [sess[s] EXCEPT !.pc = "idle", !.watermark = today]
                      ELSE [sess[s] EXCEPT !.pc = "persist", !.todo = new])
      BY <2>4 DEF LockIn
    <3> DEFINE new == {k \in Keys : k.day = today /\ k.class \in decided} \ sess[s].kept
    <3>2. [sess[s] EXCEPT !.pc = "idle", !.watermark = today] \in Memory
      BY <2>m DEF Memory, Steps
    <3>3. [sess[s] EXCEPT !.pc = "persist", !.todo = new] \in Memory
      BY <2>m DEF Memory, Steps
    <3>4. sess' \in [Sessions -> Memory]
      BY <3>1, <3>2, <3>3, MemoryUpdate
    <3> QED
      BY <2>4, <3>4 DEF LockIn, TypeOK
  <2>5. CASE Persist(s)
    <3>1. PICK k \in sess[s].todo :
            /\ rows' = IF rows[k].status # "none" THEN rows
                       ELSE [rows EXCEPT ![k] = [status |-> "queued", owner |-> s,
                                                 hash |-> config, stale |-> FALSE]]
            /\ Become(s, [sess[s] EXCEPT !.pc = "supersede", !.cur = k])
      BY <2>5 DEF Persist
    <3>2. k \in Keys
      BY <2>m DEF Memory
    <3>3. [sess[s] EXCEPT !.pc = "supersede", !.cur = k] \in Memory
      BY <2>m, <3>2 DEF Memory, Steps
    <3>4. sess' \in [Sessions -> Memory]
      BY <3>1, <3>3, MemoryUpdate
    <3>5. [status |-> "queued", owner |-> s, hash |-> config, stale |-> FALSE] \in QueueRows
      BY DEF TypeOK, QueueRows, Statuses
    <3>6. rows' \in [Keys -> QueueRows]
      BY <3>1, <3>2, <3>5 DEF TypeOK
    <3> QED
      BY <2>5, <3>4, <3>6 DEF Persist, TypeOK
  <2>6. CASE PersistFails(s)
    <3>1. [sess[s] EXCEPT !.pc = "idle", !.todo = {}] \in Memory
      BY <2>m DEF Memory, Steps
    <3>2. sess' \in [Sessions -> Memory]
      BY <2>6, <3>1, MemoryUpdate DEF PersistFails
    <3> QED
      BY <2>6, <3>2 DEF PersistFails, TypeOK
  <2>7. ASSUME Persisted(s) PROVE sess' \in [Sessions -> Memory]
    <3> DEFINE k == sess[s].cur
    <3> DEFINE left == sess[s].todo \ {k}
    <3>1. k \in Keys /\ k.day \in Days
      BY <2>m, KeyDays DEF Memory
    <3> DEFINE step == IF left = {} THEN "idle" ELSE "persist"
    <3> DEFINE mark == IF left = {} THEN k.day ELSE sess[s].watermark
    <3>2. sess[s] \in Memory
      BY DEF TypeOK
    <3>3. step \in Steps /\ mark \in Days \cup {NoDay} /\ left \in SUBSET Keys
      BY <3>1, <3>2 DEF Memory, Steps
    <3> HIDE DEF k, left, step, mark
    <3>4. [sess[s] EXCEPT !.kept = @ \cup {k}, !.todo = left, !.cur = SomeKey,
                          !.pc = step, !.watermark = mark] \in Memory
      BY <3>1, <3>2, <3>3, SomeKeyIsKey DEF Memory
    <3> QED
      BY <2>7, <3>4, MemoryUpdate DEF Persisted, k, left, step, mark
  <2>8. CASE Supersede(s)
    <3>1. \A e \in Keys : Left(e, "obsolete") \in QueueRows
      BY LeftIsRow DEF Statuses
    <3>2. rows' \in [Keys -> QueueRows]
      BY <2>8, <3>1 DEF Supersede, TypeOK
    <3> QED
      BY <2>7, <2>8, <3>2 DEF Supersede, TypeOK
  <2>9. CASE SupersedeFails(s)
    <3>1. sess[s].cur \in Keys
      BY <2>m DEF Memory
    <3> QED
      BY <2>7, <2>9, <3>1 DEF SupersedeFails, TypeOK
  <2> QED
    BY <1>5, <2>1, <2>2, <2>3, <2>4, <2>5, <2>6, <2>8, <2>9 DEF Poll
<1>6. ASSUME NEW s \in Sessions, Drain(s) PROVE TypeOK'
  <2>m. sess[s] \in Memory /\ today \in Days
    BY DEF TypeOK
  <2>1. CASE Enumerate(s)
    <3>1. [sess[s] EXCEPT !.pc = "listed", !.todo = {k \in Keys : Drainable(s, k)}] \in Memory
      BY <2>m DEF Memory, Steps
    <3>2. sess' \in [Sessions -> Memory]
      BY <2>1, <3>1, MemoryUpdate DEF Enumerate
    <3> QED
      BY <2>1, <3>2 DEF Enumerate, TypeOK
  <2>2. CASE ListStranded(s)
    <3>1. [sess[s] EXCEPT !.pc = "drain",
                          !.stranded = {k \in Exits : Queued(k)} \ sess[s].todo] \in Memory
      BY <2>m DEF Memory, Steps
    <3>2. sess' \in [Sessions -> Memory]
      BY <2>2, <3>1, MemoryUpdate DEF ListStranded
    <3> QED
      BY <2>2, <3>2 DEF ListStranded, TypeOK
  <2>3. CASE AlertStranded(s)
    <3>1. PICK k \in sess[s].stranded :
            /\ alerts' = alerts \cup {k}
            /\ Become(s, [sess[s] EXCEPT !.pc = "retire", !.cur = k])
      BY <2>3 DEF AlertStranded
    <3>2. k \in Keys
      BY <2>m DEF Memory, Exits
    <3>3. [sess[s] EXCEPT !.pc = "retire", !.cur = k] \in Memory
      BY <2>m, <3>2 DEF Memory, Steps
    <3>4. sess' \in [Sessions -> Memory]
      BY <3>1, <3>3, MemoryUpdate
    <3> QED
      BY <2>3, <3>1, <3>2, <3>4 DEF AlertStranded, TypeOK
  <2>4. CASE RetireStranded(s)
    <3>1. [sess[s] EXCEPT !.pc = "drain", !.stranded = @ \ {sess[s].cur},
                          !.cur = SomeKey] \in Memory
      BY <2>m, SomeKeyIsKey DEF Memory, Steps
    <3>2. sess' \in [Sessions -> Memory]
      BY <2>4, <3>1, MemoryUpdate DEF RetireStranded
    <3>3. Left(sess[s].cur, "obsolete") \in QueueRows
      BY <2>m, LeftIsRow DEF Memory, Statuses
    <3> QED
      BY <2>4, <3>2, <3>3 DEF RetireStranded, Settle, TypeOK
  <2>5. CASE EndDrain(s)
    <3>1. [sess[s] EXCEPT !.pc = "idle", !.todo = {}] \in Memory
      BY <2>m DEF Memory, Steps
    <3>2. sess' \in [Sessions -> Memory]
      BY <2>5, <3>1, MemoryUpdate DEF EndDrain
    <3> QED
      BY <2>5, <3>2 DEF EndDrain, TypeOK
  <2>6. \A k \in sess[s].todo : k \in Keys
    BY <2>m DEF Memory
  <2>7. CASE Defer(s)
    <3>1. sess' \in [Sessions -> Memory]
      BY <2>6, <2>7, NextRowIsMemory, MemoryUpdate DEF Defer
    <3> QED
      BY <2>7, <3>1 DEF Defer, TypeOK
  <2>8. CASE DropEntry(s)
    <3>1. sess' \in [Sessions -> Memory]
      BY <2>6, <2>8, SettlingIsMemory, MemoryUpdate DEF DropEntry, Statuses
    <3> QED
      BY <2>8, <3>1 DEF DropEntry, TypeOK
  <2>9. CASE ExitAlreadyFlat(s)
    <3>1. sess' \in [Sessions -> Memory]
      BY <2>6, <2>9, SettlingIsMemory, MemoryUpdate DEF ExitAlreadyFlat, Statuses
    <3> QED
      BY <2>6, <2>9, <3>1 DEF ExitAlreadyFlat, TypeOK
  <2>10. CASE DropExit(s)
    <3>1. sess' \in [Sessions -> Memory]
      BY <2>6, <2>10, SettlingIsMemory, MemoryUpdate DEF DropExit, Statuses
    <3> QED
      BY <2>6, <2>10, <3>1 DEF DropExit, TypeOK
  <2>11. CASE SettleRow(s)
    <3> DEFINE k == sess[s].cur
    <3>1. k \in Keys /\ sess[s].to \in Statuses
      BY <2>m DEF Memory
    <3>2. Next1(s, k) \in Memory
      BY <3>1, NextRowIsMemory
    <3>3. [Next1(s, k) EXCEPT !.to = "queued"] \in Memory
      BY <3>2 DEF Memory, Statuses
    <3>4. sess' \in [Sessions -> Memory]
      BY <2>11, <3>3, MemoryUpdate DEF SettleRow
    <3>5. Left(k, sess[s].to) \in QueueRows
      BY <3>1, LeftIsRow
    <3> QED
      BY <2>11, <3>4, <3>5 DEF SettleRow, Settle, TypeOK
  <2> QED
    BY <1>6, <2>1, <2>2, <2>3, <2>4, <2>5, <2>7, <2>8, <2>9, <2>10, <2>11 DEF Drain
<1>7. ASSUME NEW s \in Sessions, Submit(s) PROVE TypeOK'
  <2>m. sess[s] \in Memory /\ today \in Days
    BY DEF TypeOK
  <2>1. sess[s].cur \in Keys /\ \A k \in sess[s].todo : k \in Keys
    BY <2>m DEF Memory
  <2>2. Next1(s, sess[s].cur) \in Memory
    BY <2>1, NextRowIsMemory
  <2>3. CASE SubmitRow(s)
    <3>1. PICK k \in sess[s].todo : Become(s, [sess[s] EXCEPT !.pc = "submit", !.cur = k])
      BY <2>3 DEF SubmitRow
    <3>2. [sess[s] EXCEPT !.pc = "submit", !.cur = k] \in Memory
      BY <2>m, <2>1 DEF Memory, Steps
    <3>3. sess' \in [Sessions -> Memory]
      BY <3>1, <3>2, MemoryUpdate
    <3> QED
      BY <2>3, <3>3 DEF SubmitRow, TypeOK
  <2>0. Blocked(s, sess[s].cur) \in Memory
    BY <2>1, <2>2 DEF Blocked, Memory
  <2>4. CASE Block(s)
    <3>1. sess' \in [Sessions -> Memory]
      BY <2>0, <2>4, MemoryUpdate DEF Block
    <3> QED
      BY <2>4, <3>1 DEF Block, TypeOK
  <2>5. CASE BlockStale(s)
    <3>1. sess' \in [Sessions -> Memory]
      BY <2>1, <2>5, SettlingIsMemory, MemoryUpdate DEF BlockStale, Statuses
    <3> QED
      BY <2>1, <2>5, <3>1 DEF BlockStale, TypeOK
  <2>6. CASE Claim(s)
    <3>1. sess' \in [Sessions -> Memory]
      BY <2>6, GotoIsMemory, MemoryUpdate DEF Claim, Goto, Steps
    <3>2. Left(sess[s].cur, "consumed") \in QueueRows
      BY <2>1, LeftIsRow DEF Statuses
    <3>3. NewClaim(s, sess[s].cur) \in Claims
      BY <2>1 DEF NewClaim, Claims, TypeOK
    <3> QED
      BY <2>6, <3>1, <3>2, <3>3 DEF Claim, Settle, TypeOK
  <2>11. CASE Rehash(s)
    <3>1. sess' \in [Sessions -> Memory]
      BY <2>11, GotoIsMemory, MemoryUpdate DEF Rehash, Goto, Steps
    <3> QED
      BY <2>11, <3>1 DEF Rehash, TypeOK
  <2>7. CASE Suppress(s)
    <3>1. sess' \in [Sessions -> Memory]
      BY <2>0, <2>7, MemoryUpdate DEF Suppress
    <3> QED
      BY <2>7, <3>1 DEF Suppress, TypeOK
  <2>8. CASE Send(s)
    <3>1. sess' \in [Sessions -> Memory]
      BY <2>8, GotoIsMemory, MemoryUpdate DEF Send, Goto, Steps
    <3> QED
      BY <2>1, <2>8, <3>1 DEF Send, TypeOK
  <2>9. CASE Accepted(s)
    <3>1. sess' \in [Sessions -> Memory]
      BY <2>2, <2>9, MemoryUpdate DEF Accepted
    <3> QED
      BY <2>9, <3>1 DEF Accepted, TypeOK
  <2>10. CASE Failed(s)
    <3>1. sess' \in [Sessions -> Memory]
      BY <2>2, <2>10, MemoryUpdate DEF Failed
    <3> QED
      BY <2>1, <2>10, <3>1 DEF Failed, TypeOK
  <2> QED
    BY <1>7, <2>3, <2>4, <2>5, <2>6, <2>7, <2>8, <2>9, <2>10, <2>11 DEF Submit
<1>8. ASSUME World PROVE TypeOK'
  <2>1. CASE CloseMarket
    BY <2>1 DEF CloseMarket, TypeOK
  <2>2. CASE OpenMarket
    <3>1. today + 1 \in Days
      BY <2>2, BoundAssumption DEF OpenMarket, Days, TypeOK
    <3> QED
      BY <2>2, <3>1 DEF OpenMarket, TypeOK
  <2>3. CASE EditConfig
    BY <2>3 DEF EditConfig, TypeOK
  <2>4. CASE TimePasses
    <3>1. PICK k \in Keys : rows' = [rows EXCEPT ![k].stale = TRUE]
      BY <2>4 DEF TimePasses
    <3>2. [rows[k] EXCEPT !.stale = TRUE] \in QueueRows
      BY DEF TypeOK, QueueRows
    <3> QED
      BY <2>4, <3>1, <3>2 DEF TimePasses, TypeOK
  <2> QED
    BY <1>8, <2>1, <2>2, <2>3, <2>4 DEF World
<1>9. CASE UNCHANGED vars
  BY <1>9 DEF vars, TypeOK
<1> QED
  BY <1>1, <1>2, <1>3, <1>4, <1>5, <1>6, <1>7, <1>8, <1>9 DEF Next

\* TypeOK: in every state each variable has its type.
THEOREM TypeCorrect == Spec => []TypeOK
<1> QED
  BY InitTypes, StepTypes, PTL DEF Spec

-----------------------------------------------------------------------------
(* The inductive invariant                                                 *)

\* A session that has not registered has no run yet.
RunInv == \A s \in Sessions : sess[s].pc \in {"unborn", "register"} => runs[s] = "none"

\* Whatever a session is about to touch is a row that exists.
Exists(k) == rows[k].status # "none"
KnownInv ==
  \A s \in Sessions :
    /\ sess[s].pc \notin {"persist", "supersede"} => \A k \in sess[s].todo : Exists(k)
    /\ \A k \in sess[s].stranded : Exists(k)
    /\ sess[s].pc \in {"retire", "settle", "submit", "consume", "send", "answer"}
         => Exists(sess[s].cur)
    /\ sess[s].pc = "settle" => sess[s].to \in {"obsolete", "dropped"}

\* A row has an owner; it is claimed at most once, and never while queued.
RowInv ==
  \A k \in Keys :
    /\ Exists(k) => rows[k].owner \in Sessions
    /\ rows[k].status = "consumed" => claims[k].n = 1
    /\ claims[k].n > 0 => /\ claims[k].n = 1
                          /\ rows[k].status \notin {"none", "queued"}

\* The session about to call the broker is the one that claimed the row, and
\* nobody has sent the order before it.
SendInv ==
  \A s \in Sessions : sess[s].pc = "send" =>
    LET k == sess[s].cur IN claims[k].n = 1 /\ claims[k].by = s /\ sent[k] = 0

SentInv == \A k \in Keys : sent[k] <= claims[k].n

IInv == TypeOK /\ RunInv /\ KnownInv /\ RowInv /\ SendInv /\ SentInv /\ CleanHandoff

LEMMA InitInv == Init => IInv
<1> SUFFICES ASSUME Init PROVE IInv
  OBVIOUS
<1>1. TypeOK
  BY InitTypes
<1>2. RunInv /\ KnownInv /\ SendInv
  BY DEF Init, RunInv, KnownInv, SendInv, Fresh
<1>3. RowInv /\ SentInv /\ CleanHandoff
  BY DEF Init, RowInv, SentInv, CleanHandoff, NoRow, NoClaim, Exists
<1> QED
  BY <1>1, <1>2, <1>3 DEF IInv

-----------------------------------------------------------------------------
(* Steps that leave rows, runs, claims and orders alone                    *)

\* Such a step keeps the invariant when what the session now holds in memory
\* satisfies its part of it.
MemoryInv(s, m) ==
  /\ m \in Memory
  /\ m.pc \in {"unborn", "register"} => runs[s] = "none"
  /\ m.pc \notin {"persist", "supersede"} => \A k \in m.todo : Exists(k)
  /\ \A k \in m.stranded : Exists(k)
  /\ m.pc \in {"retire", "settle", "submit", "consume", "send", "answer"} => Exists(m.cur)
  /\ m.pc = "settle" => m.to \in {"obsolete", "dropped"}
  /\ m.pc # "send"

LEMMA MemoryHolds ==
    ASSUME IInv, NEW s \in Sessions, NEW m, Become(s, m), MemoryInv(s, m), TypeOK',
           UNCHANGED <<rows, runs, claims, sent>>
    PROVE  IInv'
<1>1. \A t \in Sessions : sess'[t] = IF t = s THEN m ELSE sess[t]
  BY DEF Become, IInv, TypeOK
<1>2. RunInv'
  BY <1>1 DEF MemoryInv, IInv, RunInv
<1>3. KnownInv'
  BY <1>1 DEF MemoryInv, IInv, KnownInv, Exists
<1>4. SendInv'
  BY <1>1 DEF MemoryInv, IInv, SendInv
<1>5. RowInv' /\ SentInv' /\ CleanHandoff'
  BY DEF IInv, RowInv, SentInv, CleanHandoff, Exists
<1> QED
  BY <1>2, <1>3, <1>4, <1>5 DEF IInv

\* Leaving a row for the next one.
LEMMA NextRowHolds ==
    ASSUME IInv, NEW s \in Sessions, NEW k \in Keys,
           sess[s].pc \in {"drain", "submit", "consume", "settle", "answer"}
    PROVE  MemoryInv(s, Next1(s, k))
<1>1. Next1(s, k) \in Memory
  BY NextRowIsMemory DEF IInv
<1>2. sess[s] \in Memory
  BY DEF IInv, TypeOK
<1> QED
  BY <1>1, <1>2 DEF MemoryInv, Next1, Memory, IInv, KnownInv, Steps

LEMMA SettlingHolds ==
    ASSUME IInv, NEW s \in Sessions, NEW k \in Keys, Exists(k),
           NEW st \in {"obsolete", "dropped"},
           sess[s].pc \in {"drain", "submit"}
    PROVE  MemoryInv(s, Settling(s, k, st))
<1>1. Settling(s, k, st) \in Memory
  BY SettlingIsMemory DEF IInv, Statuses
<1>2. sess[s] \in Memory
  BY DEF IInv, TypeOK
<1> QED
  BY <1>1, <1>2 DEF MemoryInv, Settling, Memory, IInv, KnownInv, Steps

\* A row that leaves the queue unclaimed keeps the invariant, for whatever
\* memory the session goes on with.
LEMMA RowsLeave ==
    ASSUME IInv, NEW gone \in SUBSET Keys, \A k \in gone : Exists(k),
           NEW st \in {"expired", "obsolete", "dropped"},
           rows' = [k \in Keys |-> IF k \in gone THEN Left(k, st) ELSE rows[k]],
           UNCHANGED <<runs, claims, sent>>
    PROVE  /\ RowInv' /\ SentInv' /\ CleanHandoff'
           /\ \A k \in Keys : Exists(k)' <=> Exists(k)
<1>1. \A k \in Keys : /\ rows'[k].owner = rows[k].owner
                      /\ rows'[k].status = IF k \in gone THEN st ELSE rows[k].status
  BY DEF IInv, TypeOK, QueueRows, Left
<1> QED
  BY <1>1 DEF IInv, RowInv, SentInv, CleanHandoff, Exists

LEMMA MemoryAndRows ==
    ASSUME IInv, NEW s \in Sessions, NEW m, Become(s, m), MemoryInv(s, m), TypeOK',
           RowInv', SentInv', CleanHandoff',
           \A k \in Keys : Exists(k) => Exists(k)',
           UNCHANGED <<runs, claims, sent>>
    PROVE  IInv'
<1>1. \A t \in Sessions : sess'[t] = IF t = s THEN m ELSE sess[t]
  BY DEF Become, IInv, TypeOK
<1>2. RunInv'
  BY <1>1 DEF MemoryInv, IInv, RunInv
<1>3. KnownInv'
  <2>1. \A t \in Sessions : sess[t] \in Memory
    BY DEF IInv, TypeOK
  <2> QED
    BY <1>1, <2>1 DEF MemoryInv, IInv, KnownInv, Memory, Exits
<1>4. SendInv'
  BY <1>1 DEF MemoryInv, IInv, SendInv
<1> QED
  BY <1>2, <1>3, <1>4 DEF IInv

-----------------------------------------------------------------------------
(* Every step                                                              *)

LEMMA StepInv == IInv /\ [Next]_vars => IInv'
<1> SUFFICES ASSUME IInv, [Next]_vars PROVE IInv'
  OBVIOUS
<1>0. TypeOK /\ TypeOK'
  BY StepTypes DEF IInv
<1>m. \A s \in Sessions : sess[s] \in Memory
  BY <1>0 DEF TypeOK
<1> USE DEF market, history
<1>1. ASSUME NEW s \in Sessions, Start(s) PROVE IInv'
  <2>0. \A t \in Sessions : sess'[t] = IF t = s THEN [sess[s] EXCEPT !.pc = "register"]
                                       ELSE sess[t]
    BY <1>0, <1>1 DEF Start, Goto, Become, TypeOK
  <2>1. RunInv' /\ KnownInv' /\ SendInv'
    <3>1. \A t \in Sessions : runs[t] = "none" => runs'[t] = "none"
      BY <1>1 DEF Start
    <3>2. UNCHANGED <<rows, claims, sent>> /\ sess[s].pc = "unborn"
      BY <1>1 DEF Start, At
    <3>3. RunInv'
      BY <1>m, <2>0, <3>1, <3>2 DEF IInv, RunInv, Memory
    <3>4. KnownInv'
      BY <1>m, <2>0, <3>2 DEF IInv, KnownInv, Exists, Memory
    <3>5. SendInv'
      BY <1>m, <2>0, <3>2 DEF IInv, SendInv, Memory
    <3> QED
      BY <3>3, <3>4, <3>5
  <2>2. RowInv' /\ SentInv' /\ CleanHandoff'
    BY <1>1, <1>0 DEF Start, IInv, RowInv, SentInv, CleanHandoff, Exists, TypeOK
  <2> QED
    BY <1>0, <2>1, <2>2 DEF IInv
<1>2. ASSUME NEW s \in Sessions, Register(s) PROVE IInv'
  <2>1. RunInv' /\ KnownInv' /\ SendInv'
    BY <1>0, <1>2, <1>m DEF Register, At, Goto, Become, IInv, RunInv, KnownInv, SendInv,
       Exists, TypeOK, Memory
  <2>2. RowInv' /\ SentInv' /\ CleanHandoff'
    BY <1>2, <1>0 DEF Register, At, IInv, RunInv, RowInv, SentInv, CleanHandoff, Exists, TypeOK
  <2> QED
    BY <1>0, <2>1, <2>2 DEF IInv
<1>3. ASSUME NEW s \in Sessions, Stop(s) \/ Die(s) PROVE IInv'
  <2>0. \A t \in Sessions : sess'[t] = IF t = s THEN Fresh("over") ELSE sess[t]
    BY <1>0, <1>3 DEF Stop, Die, Become, TypeOK
  <2>1. RunInv' /\ KnownInv' /\ SendInv'
    <3>1. \A t \in Sessions : runs[t] = "none" => runs'[t] = "none"
      BY <1>0, <1>3 DEF Stop, Die, EndRun, TypeOK
    <3>2. UNCHANGED <<rows, claims, sent>>
      BY <1>3 DEF Stop, Die
    <3>3. Fresh("over").pc = "over" /\ Fresh("over").todo = {} /\ Fresh("over").stranded = {}
      BY DEF Fresh
    <3>4. RunInv'
      BY <2>0, <3>1, <3>3 DEF IInv, RunInv
    <3>5. KnownInv'
      BY <2>0, <3>2, <3>3 DEF IInv, KnownInv, Exists
    <3>6. SendInv'
      BY <2>0, <3>2, <3>3 DEF IInv, SendInv
    <3> QED
      BY <3>4, <3>5, <3>6
  <2>2. RowInv' /\ SentInv' /\ CleanHandoff'
    BY <1>3, <1>0 DEF Stop, Die, EndRun, IInv, RowInv, SentInv, CleanHandoff, Exists, TypeOK
  <2> QED
    BY <1>0, <2>1, <2>2 DEF IInv
<1>4. ASSUME NEW s \in Sessions, Poll(s) PROVE IInv'
  <2>1. CASE Sweep(s)
    <3> DEFINE swept == {k \in Keys : Queued(k) /\ rows[k].stale}
    <3> DEFINE m == [sess[s] EXCEPT !.pc = "swept", !.todo = swept \cap Exits]
    <3>1. RowInv' /\ SentInv' /\ CleanHandoff' /\ \A k \in Keys : Exists(k)' <=> Exists(k)
      <4>1. \A k \in swept : Exists(k)
        BY DEF Queued, Exists
      <4>2. swept \in SUBSET Keys
        OBVIOUS
      <4> HIDE DEF swept
      <4>3. rows' = [k \in Keys |-> IF k \in swept THEN Left(k, "expired") ELSE rows[k]]
        BY <2>1 DEF Sweep, swept
      <4>4. UNCHANGED <<runs, claims, sent>>
        BY <2>1 DEF Sweep
      <4> QED
        BY <4>1, <4>2, <4>3, <4>4, RowsLeave
    <3>2. m \in Memory
      BY <1>m DEF Memory, Steps
    <3>3. MemoryInv(s, m)
      BY <1>m, <3>2 DEF MemoryInv, Memory, IInv, KnownInv, Queued, Exists
    <3> QED
      BY <1>0, <2>1, <3>1, <3>3, MemoryAndRows DEF Sweep
  <2>2. CASE AlertSwept(s)
    <3>1. PICK k \in sess[s].todo : Become(s, [sess[s] EXCEPT !.todo = @ \ {k}])
      BY <2>2 DEF AlertSwept
    <3>2. MemoryInv(s, [sess[s] EXCEPT !.todo = @ \ {k}])
      BY <1>m, <2>2 DEF AlertSwept, At, MemoryInv, Memory, IInv, KnownInv
    <3> QED
      BY <1>0, <2>2, <3>1, <3>2, MemoryHolds DEF AlertSwept
  <2>3. CASE Idle(s)
    <3>1. MemoryInv(s, [sess[s] EXCEPT !.pc = "idle"])
      BY <1>m, <2>3 DEF Idle, Polling, At, MemoryInv, Memory, Steps, IInv, KnownInv
    <3> QED
      BY <1>0, <2>3, <3>1, MemoryHolds DEF Idle, Goto
  <2>4. CASE LockIn(s)
    <3>1. PICK decided \in SUBSET Classes :
            LET new == {k \in Keys : k.day = today /\ k.class \in decided} \ sess[s].kept IN
            Become(s, IF new = {}
                      THEN [sess[s] EXCEPT !.pc = "idle", !.watermark = today]
                      ELSE [sess[s] EXCEPT !.pc = "persist", !.todo = new])
      BY <2>4 DEF LockIn
    <3> DEFINE new == {k \in Keys : k.day = today /\ k.class \in decided} \ sess[s].kept
    <3>2. MemoryInv(s, [sess[s] EXCEPT !.pc = "idle", !.watermark = today])
      <4>1. [sess[s] EXCEPT !.pc = "idle", !.watermark = today] \in Memory
        <5>1. today \in Days
          BY <1>0 DEF TypeOK
        <5> QED
          BY <1>m, <5>1 DEF Memory, Steps
      <4>2. sess[s].todo = {}
        BY <2>4 DEF LockIn, Polling
      <4> QED
        BY <1>m, <4>1, <4>2 DEF MemoryInv, Memory, IInv, KnownInv
    <3>3. MemoryInv(s, [sess[s] EXCEPT !.pc = "persist", !.todo = new])
      BY <1>m DEF MemoryInv, Memory, Steps, IInv, KnownInv
    <3> QED
      BY <1>0, <2>4, <3>1, <3>2, <3>3, MemoryHolds DEF LockIn
  <2>5. CASE Persist(s)
    <3>1. PICK k \in sess[s].todo :
            /\ rows' = IF rows[k].status # "none" THEN rows
                       ELSE [rows EXCEPT ![k] = [status |-> "queued", owner |-> s,
                                                 hash |-> config, stale |-> FALSE]]
            /\ Become(s, [sess[s] EXCEPT !.pc = "supersede", !.cur = k])
      BY <2>5 DEF Persist
    <3>2. k \in Keys
      BY <1>m DEF Memory
    <3>3. MemoryInv(s, [sess[s] EXCEPT !.pc = "supersede", !.cur = k])
      BY <1>m, <3>2 DEF MemoryInv, Memory, Steps, IInv, KnownInv
    <3>4. \A e \in Keys : Exists(e) => Exists(e)' /\ rows'[e] = rows[e]
      BY <1>0, <3>1, <3>2 DEF Exists, TypeOK
    <3>5. \A e \in Keys : 
           ~Exists(e) => (rows'[e] = rows[e]
                          \/ (rows'[e].status = "queued" /\ rows'[e].owner = s))
      <4>1. CASE rows[k].status # "none"
        BY <3>1, <4>1
      <4>2. CASE rows[k].status = "none"
        <5>1. rows' = [rows EXCEPT ![k] = [status |-> "queued", owner |-> s,
                                           hash |-> config, stale |-> FALSE]]
          BY <3>1, <4>2
        <5>2. \A e \in Keys : e # k => rows'[e] = rows[e]
          BY <1>0, <5>1 DEF TypeOK
        <5>3. rows'[k].status = "queued" /\ rows'[k].owner = s
          BY <1>0, <3>2, <5>1 DEF TypeOK
        <5> QED
          BY <5>2, <5>3
      <4> QED
        BY <4>1, <4>2
    <3>6. UNCHANGED <<runs, claims, sent>>
      BY <2>5 DEF Persist
    <3>7. \A e \in Keys : ~Exists(e) => claims[e].n = 0
      BY <1>0 DEF IInv, RowInv, Exists, TypeOK, Claims
    <3>8. RowInv' /\ SentInv' /\ CleanHandoff'
      BY <1>0, <3>4, <3>5, <3>6, <3>7 DEF IInv, RowInv, SentInv, CleanHandoff, Exists
    <3> QED
      BY <1>0, <3>1, <3>3, <3>4, <3>6, <3>8, MemoryAndRows
  <2>6. CASE PersistFails(s)
    <3>1. MemoryInv(s, [sess[s] EXCEPT !.pc = "idle", !.todo = {}])
      BY <1>m, <2>6 DEF MemoryInv, Memory, Steps, IInv, KnownInv
    <3> QED
      BY <1>0, <2>6, <3>1, MemoryHolds DEF PersistFails
  <2>7. ASSUME Persisted(s) PROVE \E m : Become(s, m) /\ MemoryInv(s, m)
    <3> DEFINE k == sess[s].cur
    <3> DEFINE left == sess[s].todo \ {k}
    <3> DEFINE step == IF left = {} THEN "idle" ELSE "persist"
    <3> DEFINE mark == IF left = {} THEN k.day ELSE sess[s].watermark
    <3> DEFINE m == [sess[s] EXCEPT !.kept = @ \cup {k}, !.todo = left, !.cur = SomeKey,
                                    !.pc = step, !.watermark = mark]
    <3>1. k \in Keys /\ k.day \in Days
      BY <1>m, KeyDays DEF Memory
    <3>2. /\ step \in {"idle", "persist"} /\ mark \in Days \cup {NoDay}
          /\ left \in SUBSET Keys
          /\ step = "idle" => left = {}
      BY <1>m, <3>1 DEF Memory
    <3>3. Become(s, m)
      BY <2>7 DEF Persisted
    <3> HIDE DEF k, left, step, mark
    <3>4. m \in Memory
      <4>1. sess[s] \in Memory /\ step \in Steps
        BY <1>m, <3>2 DEF Steps
      <4> QED
        BY <3>1, <3>2, <4>1, SomeKeyIsKey DEF Memory
    <3>5. m.pc = step /\ m.todo = left /\ m.stranded = sess[s].stranded
      BY <1>m DEF Memory
    <3>6. MemoryInv(s, m)
      BY <3>2, <3>4, <3>5 DEF MemoryInv, IInv, KnownInv
    <3> QED
      BY <3>3, <3>6
  <2>8. CASE Supersede(s)
    <3> DEFINE gone == {e \in Superseded(sess[s].cur) : Queued(e)}
    <3>1. \A e \in gone : Exists(e)
      BY DEF Queued, Exists
    <3>2. gone \in SUBSET Keys
      BY DEF Superseded
    <3>3. rows' = [e \in Keys |-> IF e \in gone THEN Left(e, "obsolete") ELSE rows[e]]
      BY <2>8 DEF Supersede
    <3>4. Persisted(s) /\ UNCHANGED <<runs, claims, sent>>
      BY <2>8 DEF Supersede
    <3> HIDE DEF gone
    <3>5. RowInv' /\ SentInv' /\ CleanHandoff' /\ \A k \in Keys : Exists(k)' <=> Exists(k)
      BY <3>1, <3>2, <3>3, <3>4, RowsLeave
    <3>6. PICK m : Become(s, m) /\ MemoryInv(s, m)
      BY <2>7, <3>4
    <3> QED
      BY <1>0, <3>4, <3>5, <3>6, MemoryAndRows
  <2>9. CASE SupersedeFails(s)
    <3>1. PICK m : Become(s, m) /\ MemoryInv(s, m)
      BY <2>7, <2>9 DEF SupersedeFails
    <3> QED
      BY <1>0, <2>9, <3>1, MemoryHolds DEF SupersedeFails
  <2> QED
    BY <1>4, <2>1, <2>2, <2>3, <2>4, <2>5, <2>6, <2>8, <2>9 DEF Poll
<1>5. ASSUME NEW s \in Sessions, NEW st \in {"expired", "obsolete", "dropped"},
             Exists(sess[s].cur), Settle(sess[s].cur, st), UNCHANGED <<runs, claims, sent>>
      PROVE  /\ RowInv' /\ SentInv' /\ CleanHandoff'
             /\ \A k \in Keys : Exists(k)' <=> Exists(k)
  <2> DEFINE gone == {sess[s].cur}
  <2>1. gone \in SUBSET Keys /\ \A k \in gone : Exists(k)
    BY <1>m, <1>5 DEF Memory
  <2>2. rows' = [k \in Keys |-> IF k \in gone THEN Left(k, st) ELSE rows[k]]
    BY <1>0, <1>5 DEF Settle, TypeOK
  <2> HIDE DEF gone
  <2> QED
    BY <1>5, <2>1, <2>2, RowsLeave
<1>6. ASSUME NEW s \in Sessions, Drain(s) PROVE IInv'
  <2>1. CASE Enumerate(s)
    <3>1. MemoryInv(s, [sess[s] EXCEPT !.pc = "listed",
                                       !.todo = {k \in Keys : Drainable(s, k)}])
      BY <1>m DEF MemoryInv, Memory, Steps, IInv, KnownInv, Drainable, Consumable,
         Queued, Exists
    <3> QED
      BY <1>0, <2>1, <3>1, MemoryHolds DEF Enumerate
  <2>2. CASE ListStranded(s)
    <3> DEFINE m == [sess[s] EXCEPT !.pc = "drain",
                           !.stranded = {k \in Exits : Queued(k)} \ sess[s].todo]
    <3>2. m \in Memory
      BY <1>m DEF Memory, Steps
    <3>3. \A k \in sess[s].todo : Exists(k)
      BY <2>2 DEF ListStranded, At, IInv, KnownInv
    <3>4. /\ m.pc = "drain" /\ m.todo = sess[s].todo
          /\ m.stranded = {k \in Exits : Queued(k)} \ sess[s].todo
      BY <1>m DEF Memory
    <3> HIDE DEF m
    <3>1. MemoryInv(s, m)
      BY <3>2, <3>3, <3>4 DEF MemoryInv, Queued, Exists
    <3> QED
      BY <1>0, <2>2, <3>1, MemoryHolds DEF ListStranded, m
  <2>3. CASE AlertStranded(s)
    <3>1. PICK k \in sess[s].stranded : Become(s, [sess[s] EXCEPT !.pc = "retire", !.cur = k])
      BY <2>3 DEF AlertStranded
    <3>2. k \in Keys
      BY <1>m DEF Memory, Exits
    <3>3. MemoryInv(s, [sess[s] EXCEPT !.pc = "retire", !.cur = k])
      <4>1. [sess[s] EXCEPT !.pc = "retire", !.cur = k] \in Memory
        <5> DEFINE m == [sess[s] EXCEPT !.pc = "retire"]
        <5>1. m \in Memory
          BY <1>m DEF Memory, Steps
        <5> HIDE DEF m
        <5>2. [m EXCEPT !.cur = k] \in Memory
          BY <3>2, <5>1 DEF Memory
        <5>3. [sess[s] EXCEPT !.pc = "retire", !.cur = k] = [m EXCEPT !.cur = k]
          BY <1>m DEF m
        <5> QED
          BY <5>2, <5>3
      <4>2. /\ \A e \in sess[s].todo : Exists(e)
            /\ \A e \in sess[s].stranded : Exists(e)
        BY <2>3 DEF AlertStranded, At, IInv, KnownInv
      <4> QED
        BY <1>m, <4>1, <4>2 DEF MemoryInv, Memory
    <3> QED
      BY <1>0, <2>3, <3>1, <3>3, MemoryHolds DEF AlertStranded
  <2>4. CASE RetireStranded(s)
    <3> DEFINE m == [sess[s] EXCEPT !.pc = "drain", !.stranded = @ \ {sess[s].cur},
                                    !.cur = SomeKey]
    <3>1. MemoryInv(s, m)
      <4>1. m \in Memory
        BY <1>m, SomeKeyIsKey DEF Memory, Steps
      <4>2. /\ \A e \in sess[s].todo : Exists(e)
            /\ \A e \in sess[s].stranded : Exists(e)
        BY <2>4 DEF RetireStranded, At, IInv, KnownInv
      <4> QED
        BY <1>m, <4>1, <4>2 DEF MemoryInv, Memory
    <3>2. Exists(sess[s].cur)
      BY <2>4 DEF RetireStranded, At, IInv, KnownInv
    <3> QED
      BY <1>0, <1>5, <2>4, <3>1, <3>2, MemoryAndRows DEF RetireStranded
  <2>5. CASE EndDrain(s)
    <3>1. MemoryInv(s, [sess[s] EXCEPT !.pc = "idle", !.todo = {}])
      BY <1>m DEF MemoryInv, Memory, Steps, IInv, KnownInv
    <3> QED
      BY <1>0, <2>5, <3>1, MemoryHolds DEF EndDrain
  <2>6. Draining(s) => \A k \in sess[s].todo : k \in Keys /\ Exists(k)
    BY <1>m DEF Memory, Draining, At, IInv, KnownInv
  <2>7. CASE Defer(s)
    <3>1. PICK k \in sess[s].todo : Become(s, Next1(s, k))
      BY <2>7 DEF Defer
    <3>2. MemoryInv(s, Next1(s, k))
      BY <2>6, <2>7, NextRowHolds DEF Defer, Draining, At
    <3> QED
      BY <1>0, <2>7, <3>1, <3>2, MemoryHolds DEF Defer
  <2>8. CASE DropEntry(s)
    <3>1. PICK k \in sess[s].todo : Become(s, Settling(s, k, "dropped"))
      BY <2>8 DEF DropEntry
    <3>2. MemoryInv(s, Settling(s, k, "dropped"))
      BY <2>6, <2>8, SettlingHolds DEF DropEntry, Draining, At
    <3> QED
      BY <1>0, <2>8, <3>1, <3>2, MemoryHolds DEF DropEntry
  <2>9. CASE ExitAlreadyFlat(s) \/ DropExit(s)
    <3>1. PICK k \in sess[s].todo : Become(s, Settling(s, k, "obsolete"))
      BY <2>9 DEF ExitAlreadyFlat, DropExit
    <3>2. MemoryInv(s, Settling(s, k, "obsolete"))
      BY <2>6, <2>9, SettlingHolds DEF ExitAlreadyFlat, DropExit, Draining, At
    <3> QED
      BY <1>0, <2>9, <3>1, <3>2, MemoryHolds DEF ExitAlreadyFlat, DropExit
  <2>10. CASE SettleRow(s)
    <3> DEFINE m == [Next1(s, sess[s].cur) EXCEPT !.to = "queued"]
    <3>1. MemoryInv(s, Next1(s, sess[s].cur))
      BY <1>m, <2>10, NextRowHolds DEF SettleRow, At, Memory
    <3>2. Next1(s, sess[s].cur).pc = "drain"
      BY <1>m DEF Next1, Memory
    <3>3. MemoryInv(s, m)
      BY <3>1, <3>2 DEF MemoryInv, Memory, Statuses
    <3>4. Exists(sess[s].cur) /\ sess[s].to \in {"obsolete", "dropped"}
      BY <2>10 DEF SettleRow, At, IInv, KnownInv
    <3> QED
      BY <1>0, <1>5, <2>10, <3>3, <3>4, MemoryAndRows DEF SettleRow
  <2> QED
    BY <1>6, <2>1, <2>2, <2>3, <2>4, <2>5, <2>7, <2>8, <2>9, <2>10 DEF Drain
<1>7. ASSUME NEW s \in Sessions, Submit(s) PROVE IInv'
  <2>1. sess[s].cur \in Keys
    BY <1>m DEF Memory
  <2>2. sess[s].pc \in {"submit", "consume", "answer"} => MemoryInv(s, Next1(s, sess[s].cur))
    BY <2>1, NextRowHolds
  <2>3. CASE SubmitRow(s)
    <3>1. PICK k \in sess[s].todo : Become(s, [sess[s] EXCEPT !.pc = "submit", !.cur = k])
      BY <2>3 DEF SubmitRow
    <3>2. MemoryInv(s, [sess[s] EXCEPT !.pc = "submit", !.cur = k])
      <4>1. k \in Keys
        BY <1>m DEF Memory
      <4>2. [sess[s] EXCEPT !.pc = "submit", !.cur = k] \in Memory
        BY <1>m, <4>1 DEF Memory, Steps
      <4>3. /\ \A e \in sess[s].todo : Exists(e)
            /\ \A e \in sess[s].stranded : Exists(e)
        BY <2>3 DEF SubmitRow, Draining, At, IInv, KnownInv
      <4> QED
        BY <1>m, <4>2, <4>3 DEF MemoryInv, Memory
    <3> QED
      BY <1>0, <2>3, <3>1, <3>2, MemoryHolds DEF SubmitRow
  <2>0. sess[s].pc \in {"submit", "consume"} => MemoryInv(s, Blocked(s, sess[s].cur))
    <3> DEFINE k == sess[s].cur
    <3> SUFFICES ASSUME sess[s].pc \in {"submit", "consume"} PROVE MemoryInv(s, Blocked(s, k))
      OBVIOUS
    <3>1. MemoryInv(s, Next1(s, k)) /\ Next1(s, k).pc = "drain"
      BY <1>m, <2>2 DEF Next1, Memory
    <3> QED
      BY <2>1, <3>1 DEF Blocked, MemoryInv, Memory
  <2>4. CASE Block(s)
    BY <1>0, <2>0, <2>4, MemoryHolds DEF Block, At
  <2>5. CASE BlockStale(s)
    <3> DEFINE k == sess[s].cur
    <3> DEFINE st == IF k \in Exits THEN "obsolete" ELSE "dropped"
    <3>1. Exists(k)
      BY <2>5 DEF BlockStale, At, IInv, KnownInv
    <3>2. MemoryInv(s, Settling(s, k, st))
      BY <2>1, <2>5, <3>1, SettlingHolds DEF BlockStale, At
    <3> QED
      BY <1>0, <2>5, <3>2, MemoryHolds DEF BlockStale
  <2>6. CASE Claim(s)
    <3> DEFINE k == sess[s].cur
    <3>1. /\ rows[k].status = "queued" /\ CleanlyHanded(s, k) /\ rows[k].owner \in Sessions
          /\ claims[k].n = 0 /\ sent[k] = 0
      BY <1>0, <2>1, <2>6 DEF Claim, Consumable, Queued, IInv, RowInv, SentInv, Exists, TypeOK,
         Claims
    <3>2. /\ rows' = [rows EXCEPT ![k] = Left(k, "consumed")]
          /\ claims' = [claims EXCEPT ![k] = [n |-> 1, by |-> s, day |-> today]]
          /\ UNCHANGED <<runs, sent>>
          /\ sess' = [sess EXCEPT ![s] = [sess[s] EXCEPT !.pc = "send"]]
      BY <2>6, <3>1 DEF Claim, Settle, NewClaim, Goto, Become
    <3>3. \A e \in Keys : /\ rows'[e].owner = rows[e].owner
                          /\ e # k => rows'[e] = rows[e] /\ claims'[e] = claims[e]
      BY <1>0, <2>1, <3>2 DEF Left, TypeOK, QueueRows
    <3>4. /\ rows'[k].status = "consumed" /\ claims'[k] = [n |-> 1, by |-> s, day |-> today]
      BY <1>0, <2>1, <3>2 DEF Left, TypeOK, QueueRows
    <3>5. \A t \in Sessions : sess'[t] = IF t = s THEN [sess[s] EXCEPT !.pc = "send"]
                                         ELSE sess[t]
      BY <1>0, <3>2 DEF TypeOK
    <3>6. /\ sess'[s].pc = "send" /\ sess'[s].cur = k /\ sess'[s].todo = sess[s].todo
          /\ sess'[s].stranded = sess[s].stranded
      BY <1>m, <3>5 DEF Memory
    <3> HIDE DEF k
    <3>7. RunInv'
      BY <3>2, <3>5, <3>6 DEF IInv, RunInv
    <3>8. KnownInv'
      <4>1. \A e \in Keys : Exists(e) => Exists(e)'
        BY <3>3, <3>4 DEF Exists
      <4>2. rows'[k].status # "none" /\ sess[s].pc = "consume"
        BY <2>6, <3>4 DEF Claim, At
      <4>3. \A t \in Sessions : t # s => sess'[t] = sess[t]
        BY <3>5
      <4>4. \A t \in Sessions : /\ sess[t].todo \subseteq Keys /\ sess[t].stranded \subseteq Keys
                                /\ sess[t].cur \in Keys
        BY <1>m DEF Memory, Exits
      <4> QED
        BY <3>6, <4>1, <4>2, <4>3, <4>4 DEF IInv, KnownInv, Exists
    <3>9. RowInv' /\ SentInv'
      BY <2>1, <3>1, <3>2, <3>3, <3>4 DEF IInv, RowInv, SentInv, Exists, k
    <3>10. SendInv'
      BY <1>m, <3>1, <3>2, <3>3, <3>4, <3>5, <3>6 DEF IInv, SendInv, Memory
    <3>11. CleanHandoff'
      BY <3>1, <3>2, <3>3, <3>4 DEF IInv, CleanHandoff, CleanlyHanded
    <3> QED
      BY <1>0, <3>7, <3>8, <3>9, <3>10, <3>11 DEF IInv
  <2>10. CASE Rehash(s)
    <3>1. sess[s].pc = "submit" /\ Become(s, [sess[s] EXCEPT !.pc = "consume"])
      BY <2>10 DEF Rehash, Goto, At
    <3>2. MemoryInv(s, [sess[s] EXCEPT !.pc = "consume"])
      <4>1. [sess[s] EXCEPT !.pc = "consume"] \in Memory
        BY <1>0, GotoIsMemory DEF Steps
      <4> QED
        BY <1>m, <3>1, <4>1 DEF MemoryInv, Memory, IInv, KnownInv
    <3> QED
      BY <1>0, <2>10, <3>1, <3>2, MemoryHolds DEF Rehash
  <2>7. CASE Suppress(s)
    BY <1>0, <2>0, <2>7, MemoryHolds DEF Suppress, At
  <2>8. CASE Send(s)
    <3> DEFINE k == sess[s].cur
    <3>1. claims[k].n = 1 /\ claims[k].by = s /\ sent[k] = 0
      BY <2>8 DEF Send, At, IInv, SendInv
    <3>2. /\ sent' = [sent EXCEPT ![k] = 1]
          /\ UNCHANGED <<rows, runs, claims>>
      BY <2>8, <3>1 DEF Send
    <3>3. \A t \in Sessions : sess'[t] = IF t = s THEN [sess[s] EXCEPT !.pc = "answer"]
                                         ELSE sess[t]
      BY <1>0, <2>8 DEF Send, Goto, Become, TypeOK
    <3>4. /\ sess'[s].pc = "answer" /\ sess'[s].cur = k /\ sess'[s].todo = sess[s].todo
          /\ sess'[s].stranded = sess[s].stranded /\ sess[s].pc = "send"
      BY <1>m, <2>8, <3>3 DEF Memory, Send, At
    <3>5. \A e \in Keys : sent'[e] = IF e = k THEN 1 ELSE sent[e]
      BY <1>0, <3>2 DEF TypeOK
    <3> HIDE DEF k
    <3>6. RunInv' /\ RowInv' /\ CleanHandoff'
      BY <3>2, <3>3, <3>4 DEF IInv, RunInv, RowInv, CleanHandoff, Exists
    <3>7. KnownInv'
      BY <3>2, <3>3, <3>4 DEF IInv, KnownInv, Exists, k
    <3>8. SentInv'
      BY <2>1, <3>1, <3>2, <3>5 DEF IInv, SentInv
    <3>9. SendInv'
      BY <1>m, <3>1, <3>2, <3>3, <3>4, <3>5 DEF IInv, SendInv, Memory
    <3> QED
      BY <1>0, <3>6, <3>7, <3>8, <3>9 DEF IInv
  <2>9. CASE Accepted(s) \/ Failed(s)
    BY <1>0, <2>2, <2>9, MemoryHolds DEF Accepted, Failed, At
  <2> QED
    BY <1>7, <2>3, <2>4, <2>5, <2>6, <2>7, <2>8, <2>9, <2>10 DEF Submit
<1>8. ASSUME World PROVE IInv'
  <2>1. \A k \in Keys : rows'[k].owner = rows[k].owner /\ rows'[k].status = rows[k].status
    BY <1>0, <1>8 DEF World, CloseMarket, OpenMarket, EditConfig, TimePasses, TypeOK, QueueRows
  <2>2. UNCHANGED <<runs, claims, sent, sess>>
    BY <1>8 DEF World, CloseMarket, OpenMarket, EditConfig, TimePasses
  <2>3. RunInv' /\ SendInv' /\ RowInv' /\ SentInv' /\ CleanHandoff'
    BY <2>1, <2>2 DEF IInv, RunInv, SendInv, RowInv, SentInv, CleanHandoff, Exists
  <2>4. KnownInv'
    BY <1>m, <2>1, <2>2 DEF IInv, KnownInv, Exists, Memory, Exits
  <2> QED
    BY <1>0, <2>3, <2>4 DEF IInv
<1>9. CASE UNCHANGED vars
  BY <1>0, <1>9 DEF vars, IInv, RunInv, KnownInv, RowInv, SendInv, SentInv, CleanHandoff, Exists
<1> QED
  BY <1>1, <1>2, <1>3, <1>4, <1>6, <1>7, <1>8, <1>9 DEF Next

LEMMA Inductive == Spec => []IInv
<1> QED
  BY InitInv, StepInv, PTL DEF Spec

\* AtMostOneOrder: a queued intent reaches the broker at most once, with any
\* number of overlapping and dying sessions.
THEOREM ExactlyOnce == Spec => []AtMostOneOrder
<1>1. IInv => AtMostOneOrder
  BY DEF IInv, RowInv, SentInv, AtMostOneOrder, TypeOK, Claims
<1> QED
  BY <1>1, Inductive, PTL

\* ClaimedTogether: consuming a row and writing its attempt are never apart.
THEOREM NoClaimWithoutAttempt == Spec => []ClaimedTogether
<1>1. IInv => ClaimedTogether
  BY DEF IInv, RowInv, ClaimedTogether, Queued
<1> QED
  BY <1>1, Inductive, PTL

\* CleanHandoff: a row claimed by another session than the one that queued it
\* was left by a deliberate stop, and the record of that stop stands.
THEOREM OnlyDeliberateHandoffs == Spec => []CleanHandoff
<1>1. IInv => CleanHandoff
  BY DEF IInv
<1> QED
  BY <1>1, Inductive, PTL

-----------------------------------------------------------------------------
(* The order of lock-ins and claims                                        *)

\* A row is locked in after the close of its day and claimed on a later day.
DayInv ==
  \A k \in Keys : /\ Exists(k) => k.day <= today /\ (open => k.day < today)
                  /\ claims[k].n > 0 => k.day < claims[k].day /\ claims[k].day <= today

\* A run is closed as a deliberate stop only by the process that ends with it.
StopInv == \A s \in Sessions : runs[s] = "controlled_stop" => sess[s].pc = "over"

\* What a session holds in memory: a lock-in is of today, with the market
\* closed; a drain is of earlier days; an exit about to be retired has its
\* reason on record already.
DrainSteps == {"listed", "drain", "retire", "settle", "submit", "consume", "send", "answer"}
Sound(m) ==
  /\ m.pc \in {"persist", "supersede"} => ~open /\ \A k \in m.todo : k.day = today
  /\ m.pc = "supersede" => Exists(m.cur) /\ m.cur.day = today
  /\ m.pc \in DrainSteps => \A k \in m.todo : k.day < today
  /\ m.pc \in {"submit", "consume"} => m.cur.day < today
  /\ m.pc = "retire" => m.cur \in alerts
  /\ m.pc = "settle" /\ m.cur \in Exits => m.cur \in alerts \cup flat
SoundInv == \A s \in Sessions : Sound(sess[s])

\* The same of what a session is about to hold, in the state after its step.
SoundThen(m) ==
  /\ m.pc \in {"persist", "supersede"} => ~open' /\ \A k \in m.todo : k.day = today'
  /\ m.pc = "supersede" => rows'[m.cur].status # "none" /\ m.cur.day = today'
  /\ m.pc \in DrainSteps => \A k \in m.todo : k.day < today'
  /\ m.pc \in {"submit", "consume"} => m.cur.day < today'
  /\ m.pc = "retire" => m.cur \in alerts'
  /\ m.pc = "settle" /\ m.cur \in Exits => m.cur \in (alerts \cup flat)'

\* The process that locked the row in died, so that nobody may ever claim it.
Abandoned(k) ==
  LET o == rows[k].owner IN
  sess[o].pc = "over" /\ runs[o] # "controlled_stop" /\ claims[k].n = 0

Superseding(k) ==
  LET o == rows[k].owner IN sess[o].pc = "supersede" /\ sess[o].cur = k

\* Once a row is locked in its elders have left the queue, or are about to, or
\* retiring them failed, or the lock-in was cut short and the row is lost.
ElderInv ==
  \A k \in Keys : Exists(k) =>
    \/ Superseding(k)
    \/ Abandoned(k)
    \/ k \in unsuperseded
    \/ \A e \in Elders(k) : ~Queued(e)

\* An elder claimed although the younger row was there: only in those cases.
ClaimedElderInv ==
  \A k \in Keys : \A e \in Elders(k) :
    Exists(k) /\ claims[e].n > 0 /\ k.day < claims[e].day
      => k \in unsuperseded \/ Abandoned(k)

OrderInv == DayInv /\ StopInv /\ SoundInv /\ ElderInv /\ ClaimedElderInv

LEMMA InitOrder == Init => OrderInv
  BY DEF Init, OrderInv, DayInv, StopInv, SoundInv, Sound, ElderInv, ClaimedElderInv,
     NoRow, NoClaim, Exists, Fresh, DrainSteps

LEMMA ElderIsKey == \A k \in Keys : \A e \in Elders(k) : e \in Keys /\ e.day < k.day
  BY DEF Elders

LEMMA DaysAreOrdered == \A k \in Keys : k.day \in Nat /\ k.day <= MaxDay
  BY KeyDays, BoundAssumption DEF Days

\* A session's step that claims and locks in nothing: rows may leave the
\* queue, reasons may be recorded.
LEMMA LocalOrder ==
    ASSUME IInv, OrderInv, NEW s \in Sessions, NEW m, Become(s, m), SoundThen(m),
           sess[s].pc \notin {"supersede", "over"},
           UNCHANGED <<today, open, runs, claims, unsuperseded>>,
           alerts \subseteq alerts', flat \subseteq flat',
           \A k \in Keys : /\ Exists(k)' <=> Exists(k)
                           /\ rows'[k].owner = rows[k].owner
                           /\ Queued(k)' => Queued(k)
    PROVE  OrderInv'
<1>0. \A t \in Sessions : sess[t] \in Memory
  BY DEF IInv, TypeOK
<1>1. \A t \in Sessions : sess'[t] = IF t = s THEN m ELSE sess[t]
  BY DEF Become, IInv, TypeOK
<1>2. DayInv' /\ StopInv'
  BY <1>1 DEF OrderInv, DayInv, StopInv
<1>3. SoundInv'
  <2>2. Sound(sess[s])'
    BY <1>1 DEF Sound, SoundThen, Exists
  <2> SUFFICES ASSUME NEW t \in Sessions, t # s PROVE Sound(sess[t])'
    BY <2>2 DEF SoundInv
  <2>1. Sound(sess[t]) /\ sess'[t] = sess[t]
    BY <1>1 DEF OrderInv, SoundInv
  <2> QED
    BY <1>0, <2>1 DEF Sound, Memory
<1>4. \A k \in Keys : Exists(k) => rows[k].owner \in Sessions
  BY DEF IInv, RowInv
<1>5. \A k \in Keys : Exists(k) => /\ Superseding(k) => Superseding(k)'
                                   /\ Abandoned(k) => Abandoned(k)'
  BY <1>1, <1>4 DEF Superseding, Abandoned
<1>6. ElderInv' /\ ClaimedElderInv'
  BY <1>5, ElderIsKey DEF OrderInv, ElderInv, ClaimedElderInv, Elders
<1> QED
  BY <1>2, <1>3, <1>6 DEF OrderInv

\* Start, registration, stop and death: only the runs change, and a session
\* that dies before it could retire the elders of its lock-in abandons it.
LEMMA RunsOrder ==
    ASSUME IInv, OrderInv, NEW s \in Sessions, NEW m, Become(s, m),
           m.pc \in {"register", "idle", "over"},
           sess[s].pc # "over",
           sess[s].pc = "supersede" => m.pc = "over",
           UNCHANGED <<today, open, rows, claims, alerts, flat, unsuperseded>>,
           \A r \in Sessions : runs'[r] = "controlled_stop" =>
              runs[r] = "controlled_stop" \/ (r = s /\ sess[s].pc = "idle" /\ m.pc = "over")
    PROVE  OrderInv'
<1>0. \A t \in Sessions : sess[t] \in Memory
  BY DEF IInv, TypeOK
<1>1. \A t \in Sessions : sess'[t] = IF t = s THEN m ELSE sess[t]
  BY DEF Become, IInv, TypeOK
<1>2. DayInv' /\ StopInv'
  BY <1>1 DEF OrderInv, DayInv, StopInv, Exists
<1>3. SoundInv'
  <2>1. Sound(m)'
    BY DEF Sound, DrainSteps
  <2> SUFFICES ASSUME NEW t \in Sessions, t # s PROVE Sound(sess[t])'
    BY <1>1, <2>1 DEF SoundInv
  <2>2. Sound(sess[t]) /\ sess'[t] = sess[t]
    BY <1>1 DEF OrderInv, SoundInv
  <2> QED
    BY <1>0, <2>2 DEF Sound, Memory, Exists
<1>4. \A k \in Keys : Exists(k) => rows[k].owner \in Sessions
  BY DEF IInv, RowInv
<1>5. \A k \in Keys : Exists(k) /\ Abandoned(k) => Abandoned(k)'
  BY <1>1, <1>4 DEF Abandoned
<1>6. ASSUME NEW k \in Keys, Exists(k), Superseding(k) PROVE Superseding(k)' \/ Abandoned(k)'
  <2> DEFINE o == rows[k].owner
  <2>1. o \in Sessions /\ sess[o].pc = "supersede" /\ sess[o].cur = k
    BY <1>4, <1>6 DEF Superseding
  <2>2. CASE o # s
    BY <1>1, <2>1, <2>2 DEF Superseding
  <2>3. CASE o = s
    <3>1. k.day = today
      BY <2>1 DEF OrderInv, SoundInv, Sound
    <3>2. claims[k].n = 0
      <4>1. claims[k].n \in Nat /\ claims[k].day \in Nat /\ k.day \in Nat
        BY DaysAreOrdered DEF IInv, TypeOK, Claims, Days
      <4> QED
        BY <3>1, <4>1 DEF OrderInv, DayInv
    <3>3. runs[s] # "controlled_stop"
      BY <2>1, <2>3 DEF OrderInv, StopInv
    <3> QED
      BY <1>1, <2>1, <2>3, <3>2, <3>3 DEF Abandoned
  <2> QED
    BY <2>2, <2>3
<1>7. ElderInv' /\ ClaimedElderInv'
  BY <1>5, <1>6, ElderIsKey DEF OrderInv, ElderInv, ClaimedElderInv, Elders, Exists, Queued
<1> QED
  BY <1>2, <1>3, <1>7 DEF OrderInv

\* A new row, or a key that is taken already.
LEMMA PersistOrder ==
    ASSUME IInv, OrderInv, NEW s \in Sessions, Persist(s), TypeOK'
    PROVE  OrderInv'
<1> USE DEF market, history
<1>0. \A t \in Sessions : sess[t] \in Memory
  BY DEF IInv, TypeOK
<1>1. PICK k \in sess[s].todo :
        /\ rows' = IF rows[k].status # "none" THEN rows
                   ELSE [rows EXCEPT ![k] = [status |-> "queued", owner |-> s,
                                             hash |-> config, stale |-> FALSE]]
        /\ Become(s, [sess[s] EXCEPT !.pc = "supersede", !.cur = k])
  BY DEF Persist
<1>2. /\ k \in Keys /\ k.day = today /\ ~open
      /\ \A e \in sess[s].todo : e.day = today
  BY <1>0 DEF OrderInv, SoundInv, Sound, Persist, At, Memory
<1>3. /\ \A t \in Sessions : t # s => sess'[t] = sess[t]
      /\ sess'[s].pc = "supersede" /\ sess'[s].cur = k /\ sess'[s].todo = sess[s].todo
      /\ sess[s].pc = "persist"
  <2>1. \A t \in Sessions :
           sess'[t] = IF t = s THEN [sess[s] EXCEPT !.pc = "supersede", !.cur = k] ELSE sess[t]
    BY <1>1 DEF Become, IInv, TypeOK
  <2>2. sess[s].pc = "persist"
    BY DEF Persist, At
  <2> QED
    BY <1>0, <2>1, <2>2 DEF Memory
<1>4. UNCHANGED <<today, open, runs, claims, unsuperseded, alerts, flat>>
  BY DEF Persist
<1>5. /\ \A e \in Keys : e # k => rows'[e] = rows[e]
      /\ rows'[k] = rows[k] \/ (rows[k].status = "none" /\ rows'[k].owner = s)
      /\ rows'[k].status # "none"
  BY <1>1, <1>2 DEF IInv, TypeOK
<1>6. \A e \in Keys : Exists(e) => rows'[e] = rows[e] /\ Exists(e)'
  BY <1>1, <1>5 DEF Exists
<1>7. \A e \in Keys : Exists(e)' => Exists(e) \/ (e = k /\ rows'[k].owner = s)
  BY <1>5 DEF Exists
<1>8. DayInv'
  BY <1>2, <1>4, <1>7, DaysAreOrdered DEF OrderInv, DayInv
<1>9. StopInv'
  BY <1>3, <1>4 DEF OrderInv, StopInv
<1>10. SoundInv'
  <2>1. Sound(sess[s])'
    BY <1>2, <1>3, <1>4, <1>5 DEF Sound, Exists, DrainSteps
  <2> SUFFICES ASSUME NEW t \in Sessions, t # s PROVE Sound(sess[t])'
    BY <2>1 DEF SoundInv
  <2>2. Sound(sess[t]) /\ sess'[t] = sess[t]
    BY <1>3 DEF OrderInv, SoundInv
  <2> QED
    BY <1>0, <1>4, <1>6, <2>2 DEF Sound, Memory
<1>11. \A e \in Keys : Exists(e) => rows[e].owner \in Sessions
  BY DEF IInv, RowInv
<1>12. \A e \in Keys : Exists(e) => /\ Superseding(e) => Superseding(e)'
                                    /\ Abandoned(e) => Abandoned(e)'
  BY <1>3, <1>4, <1>6, <1>11 DEF Superseding, Abandoned
<1>13. ElderInv'
  <2> SUFFICES ASSUME NEW e \in Keys, Exists(e)'
               PROVE  \/ Superseding(e)' \/ Abandoned(e)' \/ e \in unsuperseded'
                      \/ \A x \in Elders(e) : ~Queued(x)'
    BY DEF ElderInv, Elders
  <2>1. CASE ~Exists(e)
    BY <1>3, <1>7, <2>1 DEF Superseding
  <2>2. CASE Exists(e)
    <3>1. \A x \in Elders(e) : x # k
      BY <1>2, <2>2, DaysAreOrdered, ElderIsKey DEF OrderInv, DayInv, IInv, TypeOK, Days
    <3>2. \A x \in Elders(e) : Queued(x)' => Queued(x)
      BY <1>5, <3>1, ElderIsKey DEF Queued
    <3> QED
      BY <1>4, <1>12, <2>2, <3>2 DEF OrderInv, ElderInv
  <2> QED
    BY <2>1, <2>2
<1>14. ClaimedElderInv'
  <2> SUFFICES ASSUME NEW e \in Keys, NEW x \in Elders(e), Exists(e)', claims'[x].n > 0,
                      e.day < claims'[x].day
               PROVE  e \in unsuperseded' \/ Abandoned(e)'
    BY DEF ClaimedElderInv, Elders
  <2>1. Exists(e)
    <3>1. claims[x].n > 0 => claims[x].day <= today
      BY ElderIsKey DEF OrderInv, DayInv
    <3>2. today \in Nat /\ claims[x].day \in Nat
      BY ElderIsKey DEF IInv, TypeOK, Claims, Days
    <3> QED
      BY <1>2, <1>4, <1>7, <3>1, <3>2
  <2> QED
    BY <1>4, <1>12, <2>1 DEF OrderInv, ClaimedElderInv
<1> QED
  BY <1>8, <1>9, <1>10, <1>13, <1>14 DEF OrderInv

\* What Persisted(s) leaves in memory is the rest of today's lock-in.
LEMMA PersistedSound ==
    ASSUME IInv, OrderInv, NEW s \in Sessions, Persisted(s), sess[s].pc = "supersede",
           UNCHANGED <<today, open>>
    PROVE  /\ \A t \in Sessions : t # s => sess'[t] = sess[t]
           /\ sess'[s].pc \in {"idle", "persist"}
           /\ Sound(sess[s])'
<1> DEFINE k == sess[s].cur
<1> DEFINE left == sess[s].todo \ {k}
<1> DEFINE step == IF left = {} THEN "idle" ELSE "persist"
<1> DEFINE mark == IF left = {} THEN k.day ELSE sess[s].watermark
<1> DEFINE m == [sess[s] EXCEPT !.kept = @ \cup {k}, !.todo = left, !.cur = SomeKey,
                                !.pc = step, !.watermark = mark]
<1>1. \A t \in Sessions : sess'[t] = IF t = s THEN m ELSE sess[t]
  BY DEF Persisted, Become, IInv, TypeOK
<1>2. ~open /\ \A e \in left : e.day = today
  BY DEF OrderInv, SoundInv, Sound
<1>3. step \in {"idle", "persist"}
  OBVIOUS
<1> HIDE DEF k, left, step, mark
<1>4. m.pc = step /\ m.todo = left
  BY DEF IInv, TypeOK, Memory
<1> HIDE DEF m
<1> QED
  BY <1>1, <1>2, <1>3, <1>4 DEF Sound, DrainSteps

\* Retiring the elders, or failing to.
LEMMA SupersedeOrder ==
    ASSUME IInv, OrderInv, NEW s \in Sessions, Supersede(s) \/ SupersedeFails(s)
    PROVE  OrderInv'
<1> USE DEF market, history
<1> DEFINE k == sess[s].cur
<1>0. \A t \in Sessions : sess[t] \in Memory
  BY DEF IInv, TypeOK
<1>1. /\ sess[s].pc = "supersede" /\ Persisted(s)
      /\ UNCHANGED <<today, open, runs, claims, alerts, flat>>
      /\ unsuperseded \subseteq unsuperseded'
  BY DEF Supersede, SupersedeFails, At
<1>2. /\ \A t \in Sessions : t # s => sess'[t] = sess[t]
      /\ sess'[s].pc \in {"idle", "persist"}
      /\ Sound(sess[s])'
  BY <1>1, PersistedSound
<1>3. k \in Keys /\ Exists(k) /\ k.day = today
  BY <1>0, <1>1 DEF OrderInv, SoundInv, Sound, Memory
<1>4. \A e \in Keys : /\ Exists(e)' <=> Exists(e)
                      /\ rows'[e].owner = rows[e].owner
                      /\ Queued(e)' => Queued(e)
  <2>1. \A e \in Keys :
           rows'[e] = rows[e] \/ (Queued(e) /\ rows'[e] = Left(e, "obsolete"))
    <3>1. rows \in [Keys -> QueueRows]
      BY DEF IInv, TypeOK
    <3> QED
      BY <3>1 DEF Supersede, SupersedeFails
  <2>2. \A e \in Keys :
           Left(e, "obsolete").status = "obsolete" /\ Left(e, "obsolete").owner = rows[e].owner
    BY DEF Left, IInv, TypeOK, QueueRows
  <2> QED
    BY <2>1, <2>2 DEF Exists, Queued
<1>5. \/ k \in unsuperseded'
      \/ \A e \in Elders(k) : ~Queued(e)'
  <2>1. CASE SupersedeFails(s)
    BY <2>1 DEF SupersedeFails
  <2>2. CASE Supersede(s)
    <3>1. \A e \in Keys : e \in Superseded(k) /\ Queued(e) => rows'[e] = Left(e, "obsolete")
      BY <2>2 DEF Supersede
    <3>2. \A e \in Keys : rows[e] \in QueueRows
      BY DEF IInv, TypeOK
    <3>3. \A e \in Elders(k) : e \in Superseded(k) /\ e \in Keys
      BY <1>3, DaysAreOrdered DEF Elders, Superseded
    <3>4. \A e \in Keys : Left(e, "obsolete").status = "obsolete"
      BY <3>2 DEF Left, QueueRows
    <3> QED
      BY <1>4, <3>1, <3>3, <3>4 DEF Queued
  <2> QED
    BY <2>1, <2>2
<1>6. DayInv'
  BY <1>1, <1>4 DEF OrderInv, DayInv
<1>7. StopInv'
  BY <1>1, <1>2 DEF OrderInv, StopInv
<1>8. SoundInv'
  <2> SUFFICES ASSUME NEW t \in Sessions, t # s PROVE Sound(sess[t])'
    BY <1>2 DEF SoundInv
  <2>1. Sound(sess[t]) /\ sess'[t] = sess[t]
    BY <1>2 DEF OrderInv, SoundInv
  <2> QED
    BY <1>0, <1>1, <1>4, <2>1 DEF Sound, Memory
<1>9. \A e \in Keys : Exists(e) => rows[e].owner \in Sessions
  BY DEF IInv, RowInv
<1>10. \A e \in Keys : Exists(e) => /\ e # k /\ Superseding(e) => Superseding(e)'
                                    /\ Abandoned(e) => Abandoned(e)'
  BY <1>1, <1>2, <1>4, <1>9 DEF Superseding, Abandoned
<1> HIDE DEF k
<1>11. ElderInv'
  <2> SUFFICES ASSUME NEW e \in Keys, Exists(e)
               PROVE  \/ Superseding(e)' \/ Abandoned(e)' \/ e \in unsuperseded'
                      \/ \A x \in Elders(e) : ~Queued(x)'
    BY <1>4 DEF ElderInv, Elders
  <2>1. CASE e = k
    BY <1>5, <2>1
  <2>2. CASE e # k
    <3>1. \A x \in Elders(e) : Queued(x)' => Queued(x)
      BY <1>4, ElderIsKey
    <3> QED
      BY <1>1, <1>10, <2>2, <3>1 DEF OrderInv, ElderInv
  <2> QED
    BY <2>1, <2>2
<1>12. ClaimedElderInv'
  BY <1>1, <1>4, <1>10 DEF OrderInv, ClaimedElderInv, Elders
<1> QED
  BY <1>6, <1>7, <1>8, <1>11, <1>12 DEF OrderInv

\* The claim: its row is neither abandoned nor about to supersede, and a
\* younger row it was not retired for is lost or failed to retire it.
LEMMA ClaimOrder ==
    ASSUME IInv, OrderInv, NEW s \in Sessions, Claim(s)
    PROVE  OrderInv'
<1> USE DEF market, history
<1> DEFINE k == sess[s].cur
<1>0. \A t \in Sessions : sess[t] \in Memory
  BY DEF IInv, TypeOK
<1>1. /\ k \in Keys /\ Consumable(s, k) /\ sess[s].pc = "consume" /\ k.day < today
      /\ rows[k].status = "queued" /\ claims[k].n = 0
  <2>1. k \in Keys /\ Consumable(s, k) /\ sess[s].pc = "consume"
    BY <1>0 DEF Claim, At, Memory
  <2>2. rows[k].status = "queued" /\ k.day < today
    BY <2>1 DEF Consumable, Queued, OrderInv, SoundInv, Sound
  <2> QED
    BY <2>1, <2>2 DEF IInv, RowInv, TypeOK, Claims
<1>2. /\ rows' = [rows EXCEPT ![k] = Left(k, "consumed")]
      /\ claims' = [claims EXCEPT ![k] = [n |-> 1, by |-> s, day |-> today]]
      /\ UNCHANGED <<today, open, runs, alerts, flat, unsuperseded>>
  BY <1>1 DEF Claim, Settle, NewClaim
<1>3. /\ \A t \in Sessions : t # s => sess'[t] = sess[t]
      /\ sess'[s].pc = "send" /\ sess'[s].todo = sess[s].todo
  <2>1. \A t \in Sessions : sess'[t] = IF t = s THEN [sess[s] EXCEPT !.pc = "send"] ELSE sess[t]
    BY DEF Claim, Goto, Become, IInv, TypeOK
  <2> QED
    BY <1>0, <2>1 DEF Memory
<1>4. \A e \in Keys : /\ Exists(e)' <=> Exists(e)
                      /\ rows'[e].owner = rows[e].owner
                      /\ Queued(e)' => Queued(e) /\ e # k
                      /\ e # k => claims'[e] = claims[e]
  BY <1>1, <1>2 DEF Exists, Queued, Left, IInv, TypeOK, QueueRows
<1>5. claims'[k].n = 1 /\ claims'[k].day = today
  BY <1>1, <1>2 DEF IInv, TypeOK
<1>t. today \in Nat
  BY DEF IInv, TypeOK, Days
<1> HIDE DEF k
<1>6. DayInv'
  BY <1>1, <1>2, <1>4, <1>5, <1>t, DaysAreOrdered DEF OrderInv, DayInv
<1>7. StopInv'
  BY <1>1, <1>2, <1>3 DEF OrderInv, StopInv
<1>8. SoundInv'
  <2>1. Sound(sess[s])'
    BY <1>1, <1>2, <1>3 DEF OrderInv, SoundInv, Sound, DrainSteps
  <2> SUFFICES ASSUME NEW t \in Sessions, t # s PROVE Sound(sess[t])'
    BY <2>1 DEF SoundInv
  <2>2. Sound(sess[t]) /\ sess'[t] = sess[t]
    BY <1>3 DEF OrderInv, SoundInv
  <2> QED
    BY <1>0, <1>2, <1>4, <2>2 DEF Sound, Memory
<1>9. \A e \in Keys : Exists(e) => rows[e].owner \in Sessions
  BY DEF IInv, RowInv
<1>10. ~Abandoned(k) /\ ~Superseding(k)
  <2> DEFINE o == rows[k].owner
  <2>1. o = s \/ runs[o] = "controlled_stop"
    BY <1>1 DEF Consumable, CleanlyHanded
  <2>2. o \in Sessions
    BY <1>1, <1>9 DEF Exists
  <2>3. sess[o].pc \notin {"supersede"}
    BY <1>1, <2>1, <2>2 DEF OrderInv, StopInv
  <2>4. sess[o].pc = "over" => runs[o] = "controlled_stop"
    BY <1>1, <2>1
  <2> QED
    BY <2>3, <2>4 DEF Abandoned, Superseding
<1>11. \A e \in Keys : Exists(e) => /\ Superseding(e) => Superseding(e)'
                                    /\ Abandoned(e) => Abandoned(e)'
  BY <1>1, <1>2, <1>3, <1>4, <1>9, <1>10 DEF Superseding, Abandoned
<1>12. ElderInv'
  BY <1>2, <1>4, <1>11, ElderIsKey DEF OrderInv, ElderInv, Elders
<1>13. ClaimedElderInv'
  <2> SUFFICES ASSUME NEW y \in Keys, NEW e \in Elders(y), Exists(y), claims'[e].n > 0,
                      y.day < claims'[e].day
               PROVE  y \in unsuperseded' \/ Abandoned(y)'
    BY <1>4 DEF ClaimedElderInv, Elders
  <2>1. CASE e # k
    BY <1>2, <1>4, <1>11, <2>1, ElderIsKey DEF OrderInv, ClaimedElderInv
  <2>2. CASE e = k
    <3>1. y.day < today /\ Queued(e)
      BY <1>1, <1>5, <2>2 DEF Queued
    <3>2. ~Superseding(y)
      <4>1. rows[y].owner \in Sessions
        BY <1>9
      <4>2. ASSUME Superseding(y) PROVE y.day = today
        BY <4>1, <4>2 DEF Superseding, OrderInv, SoundInv, Sound
      <4> QED
        BY <1>t, <3>1, <4>2, DaysAreOrdered
    <3> QED
      BY <1>2, <1>11, <3>1, <3>2 DEF OrderInv, ElderInv
  <2> QED
    BY <2>1, <2>2
<1> QED
  BY <1>6, <1>7, <1>8, <1>12, <1>13 DEF OrderInv

\* The market's clock, the editor and the seven days.
LEMMA WorldOrder == IInv /\ OrderInv /\ World => OrderInv'
<1> SUFFICES ASSUME IInv, OrderInv, World PROVE OrderInv'
  OBVIOUS
<1> USE DEF market, history
<1>0. (\A t \in Sessions : sess[t] \in Memory) /\ today \in Nat
  BY DEF IInv, TypeOK, Days
<1>1. UNCHANGED <<runs, claims, sent, alerts, flat, unsuperseded, sess>>
  BY DEF World, CloseMarket, OpenMarket, EditConfig, TimePasses
<1>2. \A k \in Keys : rows'[k].owner = rows[k].owner /\ rows'[k].status = rows[k].status
  BY DEF World, CloseMarket, OpenMarket, EditConfig, TimePasses, IInv, TypeOK, QueueRows
<1>3. \/ UNCHANGED today /\ (open' => open)
      \/ /\ today' = today + 1 /\ open'
         /\ \A s \in Sessions : sess[s].pc \notin {"persist", "supersede"}
  BY DEF World, CloseMarket, OpenMarket, EditConfig, TimePasses
<1>4. DayInv'
  <2>1. \A k \in Keys : claims[k].day \in Nat
    BY DEF IInv, TypeOK, Claims, Days
  <2> QED
    BY <1>0, <1>1, <1>2, <1>3, <2>1, DaysAreOrdered DEF OrderInv, DayInv, Exists
<1>5. StopInv' /\ ElderInv' /\ ClaimedElderInv'
  BY <1>1, <1>2, ElderIsKey DEF OrderInv, StopInv, ElderInv, ClaimedElderInv, Exists, Queued,
     Superseding, Abandoned, Elders
<1>6. SoundInv'
  <2> SUFFICES ASSUME NEW s \in Sessions PROVE Sound(sess[s])'
    BY DEF SoundInv
  <2> DEFINE m == sess[s]
  <2>1. Sound(m) /\ m' = m
    BY <1>1 DEF OrderInv, SoundInv
  <2>2. \A k \in m.todo : k.day \in Nat
    BY <1>0, DaysAreOrdered DEF Memory
  <2>3. m.cur \in Keys /\ m.cur.day \in Nat
    BY <1>0, DaysAreOrdered DEF Memory
  <2>4. Exists(m.cur)' <=> Exists(m.cur)
    BY <1>1, <1>2, <2>3 DEF Exists
  <2>5. CASE UNCHANGED today /\ (open' => open)
    BY <1>1, <2>1, <2>4, <2>5 DEF Sound
  <2>6. CASE today' = today + 1 /\ sess[s].pc \notin {"persist", "supersede"}
    BY <1>0, <1>1, <2>1, <2>2, <2>3, <2>6 DEF Sound
  <2> QED
    BY <1>3, <2>5, <2>6
<1> QED
  BY <1>4, <1>5, <1>6 DEF OrderInv

\* The reason of an exit that left the queue stays on record.
LEMMA ReasonStays ==
    ASSUME IInv, ExitRetiredForReason, TypeOK',
           alerts \subseteq alerts', flat \subseteq flat',
           \A k \in Keys : Exists(k) => Exists(k)',
           \A k \in Exits : rows'[k].status \in {"obsolete", "dropped"} =>
             \/ rows[k].status \in {"obsolete", "dropped"}
             \/ k \in alerts' \cup flat'
             \/ \E y \in Exits : k \in Elders(y) /\ Exists(y)'
    PROVE  ExitRetiredForReason'
<1> SUFFICES ASSUME NEW k \in Exits, rows'[k].status \in {"obsolete", "dropped"}
             PROVE  \/ k \in alerts' \/ k \in flat'
                    \/ \E y \in Exits : k \in Elders(y) /\ rows'[y].status # "none"
  BY DEF ExitRetiredForReason, Exits, Elders
<1>1. CASE rows[k].status \in {"obsolete", "dropped"}
  <2>1. CASE k \in alerts \cup flat
    BY <2>1
  <2>2. CASE k \notin alerts \cup flat
    <3>1. PICK y \in Exits : k \in Elders(y) /\ rows[y].status # "none"
      BY <1>1, <2>2 DEF ExitRetiredForReason
    <3>2. rows'[y].status # "none"
      BY <3>1 DEF Exists, Exits
    <3> QED
      BY <3>1, <3>2
  <2> QED
    BY <2>1, <2>2
<1>2. CASE rows[k].status \notin {"obsolete", "dropped"}
  BY <1>2 DEF Exists
<1> QED
  BY <1>1, <1>2

\* Next1 and Settling as OrderInv sees them.
LEMMA NextRowSound ==
    ASSUME IInv, OrderInv, NEW s \in Sessions, NEW k, UNCHANGED today,
           sess[s].pc \in DrainSteps
    PROVE  SoundThen(Next1(s, k))
<1>1. \A e \in sess[s].todo : e.day < today
  BY DEF OrderInv, SoundInv, Sound
<1>2. /\ Next1(s, k).pc = "drain" /\ Next1(s, k).todo \subseteq sess[s].todo
  BY DEF Next1, IInv, TypeOK, Memory
<1> QED
  BY <1>1, <1>2 DEF SoundThen

LEMMA StepOrder == IInv /\ OrderInv /\ ExitRetiredForReason /\ [Next]_vars
                     => OrderInv' /\ ExitRetiredForReason'
<1> SUFFICES ASSUME IInv, OrderInv, ExitRetiredForReason, [Next]_vars
             PROVE  OrderInv' /\ ExitRetiredForReason'
  OBVIOUS
<1>0. IInv' /\ TypeOK' /\ (\A t \in Sessions : sess[t] \in Memory)
  BY StepInv DEF IInv, TypeOK
<1> USE DEF market, history
<1>r. ASSUME UNCHANGED rows, alerts \subseteq alerts', flat \subseteq flat'
      PROVE  ExitRetiredForReason'
  BY <1>0, <1>r, ReasonStays DEF Exists
<1>1. ASSUME NEW s \in Sessions, Start(s) \/ Register(s) \/ Stop(s) \/ Die(s)
      PROVE  OrderInv' /\ ExitRetiredForReason'
  <2>1. UNCHANGED <<today, open, rows, claims, alerts, flat, unsuperseded>>
    BY <1>1 DEF Start, Register, Stop, Die
  <2>2. CASE Start(s)
    <3>1. [sess[s] EXCEPT !.pc = "register"].pc = "register"
      BY <1>0 DEF Memory
    <3>2. \A r \in Sessions : runs'[r] = "controlled_stop" => runs[r] = "controlled_stop"
      BY <2>2 DEF Start
    <3> QED
      BY <1>r, <2>1, <2>2, <3>1, <3>2, RunsOrder DEF Start, At, Goto
  <2>3. CASE Register(s)
    <3>1. [sess[s] EXCEPT !.pc = "idle"].pc = "idle"
      BY <1>0 DEF Memory
    <3>2. \A r \in Sessions : runs'[r] = "controlled_stop" => runs[r] = "controlled_stop"
      BY <2>3 DEF Register, IInv, TypeOK
    <3> QED
      BY <1>r, <2>1, <2>3, <3>1, <3>2, RunsOrder DEF Register, At, Goto
  <2>4. CASE Stop(s) \/ Die(s)
    <3>1. Fresh("over").pc = "over" /\ Become(s, Fresh("over")) /\ sess[s].pc # "over"
      BY <2>4 DEF Fresh, Stop, Die, At, Live
    <3>2. \A r \in Sessions : runs'[r] = "controlled_stop" =>
             runs[r] = "controlled_stop" \/ (r = s /\ sess[s].pc = "idle")
      BY <2>4 DEF Stop, Die, EndRun, At, IInv, TypeOK
    <3> QED
      BY <1>r, <2>1, <3>1, <3>2, RunsOrder
  <2> QED
    BY <1>1, <2>2, <2>3, <2>4
<1>2. ASSUME NEW s \in Sessions, Poll(s) PROVE OrderInv' /\ ExitRetiredForReason'
  <2>1. CASE Sweep(s)
    <3> DEFINE swept == {k \in Keys : Queued(k) /\ rows[k].stale}
    <3>1. \A k \in Keys : rows'[k] = rows[k] \/ (Queued(k) /\ rows'[k] = Left(k, "expired"))
      BY <2>1 DEF Sweep
    <3>2. \A k \in Keys :
             Left(k, "expired").status = "expired" /\ Left(k, "expired").owner = rows[k].owner
      BY DEF Left, IInv, TypeOK, QueueRows
    <3>3. \A k \in Keys : /\ Exists(k)' <=> Exists(k)
                          /\ rows'[k].owner = rows[k].owner
                          /\ Queued(k)' => Queued(k)
                          /\ rows'[k].status # rows[k].status => rows'[k].status = "expired"
      BY <3>1, <3>2 DEF Exists, Queued
    <3>4. SoundThen([sess[s] EXCEPT !.pc = "swept", !.todo = swept \cap Exits])
      BY <1>0 DEF SoundThen, Memory, DrainSteps
    <3>5. OrderInv'
      BY <2>1, <3>3, <3>4, LocalOrder DEF Sweep, At
    <3>6. ExitRetiredForReason'
      BY <1>0, <2>1, <3>3, ReasonStays DEF Sweep, Exits
    <3> QED
      BY <3>5, <3>6
  <2>2. CASE AlertSwept(s)
    <3>1. PICK k \in sess[s].todo : /\ alerts' = alerts \cup {k}
                                   /\ Become(s, [sess[s] EXCEPT !.todo = @ \ {k}])
      BY <2>2 DEF AlertSwept
    <3>2. SoundThen([sess[s] EXCEPT !.todo = @ \ {k}])
      BY <1>0, <2>2 DEF AlertSwept, At, SoundThen, Memory, DrainSteps
    <3> QED
      BY <1>r, <2>2, <3>1, <3>2, LocalOrder DEF AlertSwept, At, Exists, Queued
  <2>3. CASE Idle(s)
    <3>1. SoundThen([sess[s] EXCEPT !.pc = "idle"])
      BY <1>0 DEF SoundThen, Memory, DrainSteps
    <3> QED
      BY <1>r, <2>3, <3>1, LocalOrder DEF Idle, Polling, At, Goto, Exists, Queued
  <2>4. CASE LockIn(s)
    <3>1. PICK decided \in SUBSET Classes :
            LET new == {k \in Keys : k.day = today /\ k.class \in decided} \ sess[s].kept IN
            Become(s, IF new = {}
                      THEN [sess[s] EXCEPT !.pc = "idle", !.watermark = today]
                      ELSE [sess[s] EXCEPT !.pc = "persist", !.todo = new])
      BY <2>4 DEF LockIn
    <3> DEFINE new == {k \in Keys : k.day = today /\ k.class \in decided} \ sess[s].kept
    <3>2. ~open /\ UNCHANGED <<today, open>>
      BY <2>4 DEF LockIn
    <3>3. SoundThen([sess[s] EXCEPT !.pc = "idle", !.watermark = today])
      BY <1>0, <3>2 DEF SoundThen, Memory, DrainSteps
    <3>4. SoundThen([sess[s] EXCEPT !.pc = "persist", !.todo = new])
      BY <1>0, <3>2 DEF SoundThen, Memory, DrainSteps
    <3> QED
      BY <1>r, <2>4, <3>1, <3>3, <3>4, LocalOrder DEF LockIn, Polling, At, Exists, Queued
  <2>5. CASE Persist(s)
    <3>1. PICK k \in sess[s].todo :
            rows' = IF rows[k].status # "none" THEN rows
                    ELSE [rows EXCEPT ![k] = [status |-> "queued", owner |-> s,
                                              hash |-> config, stale |-> FALSE]]
      BY <2>5 DEF Persist
    <3>2. \A k2 \in Keys : rows'[k2] = rows[k2] \/ (~Exists(k2) /\ rows'[k2].status = "queued")
      BY <3>1 DEF Exists, IInv, TypeOK
    <3>3. ExitRetiredForReason'
      BY <1>0, <2>5, <3>2, ReasonStays DEF Persist, Exists, Exits
    <3> QED
      BY <1>0, <2>5, <3>3, PersistOrder
  <2>6. CASE PersistFails(s)
    <3>1. SoundThen([sess[s] EXCEPT !.pc = "idle", !.todo = {}])
      BY <1>0 DEF SoundThen, Memory, DrainSteps
    <3> QED
      BY <1>r, <2>6, <3>1, LocalOrder DEF PersistFails, At, Exists, Queued
  <2>7. CASE Supersede(s)
    <3> DEFINE c == sess[s].cur
    <3>1. c \in Keys /\ Exists(c) /\ c.day = today
      BY <1>0, <2>7 DEF Supersede, At, OrderInv, SoundInv, Sound, Memory
    <3>2. \A k \in Keys : rows'[k] = rows[k]
              \/ (k \in Superseded(c) /\ Queued(k) /\ rows'[k] = Left(k, "obsolete"))
      BY <2>7 DEF Supersede
    <3>3. \A k \in Keys : Left(k, "obsolete").status = "obsolete"
      BY DEF Left, IInv, TypeOK, QueueRows
    <3>4. \A k \in Keys : Exists(k) => Exists(k)'
      BY <3>2, <3>3 DEF Exists
    <3>5. ASSUME NEW k \in Exits, rows'[k] # rows[k] PROVE c \in Exits /\ k \in Elders(c)
      <4>1. k \in Keys /\ k \in Superseded(c) /\ Exists(k)
        BY <3>2, <3>5 DEF Exits, Queued, Exists
      <4>2. k.class = c.class /\ k # c /\ k.day <= c.day
        BY <3>1, <4>1 DEF Superseded, OrderInv, DayInv
      <4>3. k.day # c.day
        BY <3>1, <4>1, <4>2, KeysAssumption
      <4> QED
        BY <3>1, <3>5, <4>1, <4>2, <4>3, DaysAreOrdered DEF Elders, Exits
    <3>6. ExitRetiredForReason'
      BY <1>0, <2>7, <3>1, <3>4, <3>5, ReasonStays DEF Supersede
    <3> QED
      BY <2>7, <3>6, SupersedeOrder
  <2>8. CASE SupersedeFails(s)
    BY <1>r, <2>8, SupersedeOrder DEF SupersedeFails
  <2> QED
    BY <1>2, <2>1, <2>2, <2>3, <2>4, <2>5, <2>6, <2>7, <2>8 DEF Poll
\* A row settled by its own session has its reason on record, when it is an exit.
<1>3. ASSUME NEW s \in Sessions, NEW st \in {"obsolete", "dropped"}, NEW m,
             Settle(sess[s].cur, st), Become(s, m), SoundThen(m),
             sess[s].pc \in {"retire", "settle"},
             UNCHANGED <<today, open, runs, claims, unsuperseded, alerts, flat>>
      PROVE  OrderInv' /\ ExitRetiredForReason'
  <2> DEFINE c == sess[s].cur
  <2>1. c \in Keys /\ Exists(c) /\ (c \in Exits => c \in alerts \cup flat)
    BY <1>0, <1>3 DEF Memory, OrderInv, SoundInv, Sound, IInv, KnownInv
  <2>2. Left(c, st).status = st /\ Left(c, st).owner = rows[c].owner
    BY <2>1 DEF Left, IInv, TypeOK, QueueRows
  <2>3. \A k \in Keys : rows'[k] = IF k = c THEN Left(c, st) ELSE rows[k]
    BY <1>3, <2>1 DEF Settle, IInv, TypeOK
  <2> HIDE DEF c
  <2>4. \A k \in Keys : /\ Exists(k)' <=> Exists(k)
                        /\ rows'[k].owner = rows[k].owner
                        /\ Queued(k)' => Queued(k)
    BY <2>1, <2>2, <2>3 DEF Exists, Queued
  <2>5. OrderInv'
    BY <1>3, <2>4, LocalOrder
  <2>6. ExitRetiredForReason'
    BY <1>0, <1>3, <2>1, <2>3, <2>4, ReasonStays DEF Exits
  <2> QED
    BY <2>5, <2>6
<1>4. ASSUME NEW s \in Sessions, Drain(s) PROVE OrderInv' /\ ExitRetiredForReason'
  <2>1. CASE Enumerate(s)
    <3> DEFINE m == [sess[s] EXCEPT !.pc = "listed", !.todo = {k \in Keys : Drainable(s, k)}]
    <3>1. \A k \in Keys : Drainable(s, k) => k.day < today
      BY <2>1 DEF Enumerate, Drainable, Consumable, Queued, Exists, OrderInv, DayInv
    <3>2. m.pc = "listed" /\ m.todo = {k \in Keys : Drainable(s, k)}
      BY <1>0 DEF Memory
    <3>3. Become(s, m) /\ UNCHANGED today
      BY <2>1 DEF Enumerate
    <3> HIDE DEF m
    <3>4. SoundThen(m)
      BY <3>1, <3>2, <3>3 DEF SoundThen
    <3> QED
      BY <1>r, <2>1, <3>3, <3>4, LocalOrder DEF Enumerate, Polling, At, Exists, Queued
  <2>2. CASE ListStranded(s)
    <3> DEFINE m == [sess[s] EXCEPT !.pc = "drain",
                           !.stranded = {k \in Exits : Queued(k)} \ sess[s].todo]
    <3>1. \A k \in sess[s].todo : k.day < today
      BY <2>2 DEF ListStranded, At, OrderInv, SoundInv, Sound, DrainSteps
    <3>2. m.pc = "drain" /\ m.todo = sess[s].todo
      BY <1>0 DEF Memory
    <3>3. Become(s, m) /\ UNCHANGED today
      BY <2>2 DEF ListStranded
    <3> HIDE DEF m
    <3>4. SoundThen(m)
      BY <3>1, <3>2, <3>3 DEF SoundThen
    <3> QED
      BY <1>r, <2>2, <3>3, <3>4, LocalOrder DEF ListStranded, At, Exists, Queued
  <2>3. CASE AlertStranded(s)
    <3>1. PICK k \in sess[s].stranded : /\ alerts' = alerts \cup {k}
                                       /\ Become(s, [sess[s] EXCEPT !.pc = "retire", !.cur = k])
      BY <2>3 DEF AlertStranded
    <3> DEFINE m == [sess[s] EXCEPT !.pc = "retire", !.cur = k]
    <3>2. \A e \in sess[s].todo : e.day < today
      BY <2>3 DEF AlertStranded, At, OrderInv, SoundInv, Sound, DrainSteps
    <3>3. m.pc = "retire" /\ m.todo = sess[s].todo /\ m.cur = k
      BY <1>0 DEF Memory
    <3>4. Become(s, m) /\ UNCHANGED today /\ k \in alerts'
      BY <2>3, <3>1 DEF AlertStranded
    <3> HIDE DEF m
    <3>5. SoundThen(m)
      BY <3>2, <3>3, <3>4 DEF SoundThen
    <3> QED
      BY <1>r, <2>3, <3>1, <3>4, <3>5, LocalOrder DEF AlertStranded, At, Exists, Queued
  <2>4. CASE RetireStranded(s)
    <3> DEFINE m == [sess[s] EXCEPT !.pc = "drain", !.stranded = @ \ {sess[s].cur},
                                    !.cur = SomeKey]
    <3>1. \A e \in sess[s].todo : e.day < today
      BY <2>4 DEF RetireStranded, At, OrderInv, SoundInv, Sound, DrainSteps
    <3>2. m.pc = "drain" /\ m.todo = sess[s].todo
      BY <1>0 DEF Memory
    <3>3. Become(s, m) /\ UNCHANGED today
      BY <2>4 DEF RetireStranded
    <3> HIDE DEF m
    <3>4. SoundThen(m)
      BY <3>1, <3>2, <3>3 DEF SoundThen
    <3> QED
      BY <1>3, <2>4, <3>3, <3>4 DEF RetireStranded, At
  <2>5. CASE EndDrain(s)
    <3>1. SoundThen([sess[s] EXCEPT !.pc = "idle", !.todo = {}])
      BY <1>0 DEF SoundThen, Memory, DrainSteps
    <3> QED
      BY <1>r, <2>5, <3>1, LocalOrder DEF EndDrain, Draining, At, Exists, Queued
  <2>6. CASE Defer(s)
    <3>1. PICK k \in sess[s].todo : Become(s, Next1(s, k))
      BY <2>6 DEF Defer
    <3>2. SoundThen(Next1(s, k))
      BY <2>6, NextRowSound DEF Defer, Draining, At, DrainSteps
    <3> QED
      BY <1>r, <2>6, <3>1, <3>2, LocalOrder DEF Defer, Draining, At, Exists, Queued
  <2>7. CASE DropEntry(s) \/ ExitAlreadyFlat(s) \/ DropExit(s)
    <3>1. PICK k \in sess[s].todo, st \in {"obsolete", "dropped"} :
            /\ Become(s, Settling(s, k, st))
            /\ k \in Exits => k \in alerts' \cup flat'
      BY <2>7 DEF DropEntry, ExitAlreadyFlat, DropExit
    <3> DEFINE m == Settling(s, k, st)
    <3>2. /\ UNCHANGED <<today, open, rows, runs, claims, unsuperseded>>
          /\ alerts \subseteq alerts' /\ flat \subseteq flat'
          /\ sess[s].pc = "drain"
      BY <2>7 DEF DropEntry, ExitAlreadyFlat, DropExit, Draining, At
    <3>3. \A e \in sess[s].todo : e.day < today
      BY <3>2 DEF OrderInv, SoundInv, Sound, DrainSteps
    <3>4. m.pc = "settle" /\ m.todo = sess[s].todo /\ m.cur = k
      BY <1>0 DEF Settling, Memory
    <3> HIDE DEF m
    <3>5. SoundThen(m)
      BY <3>1, <3>2, <3>3, <3>4 DEF SoundThen, Exits
    <3> QED
      BY <1>r, <3>1, <3>2, <3>5, LocalOrder DEF Exists, Queued, m
  <2>8. CASE SettleRow(s)
    <3> DEFINE c == sess[s].cur
    <3> DEFINE m == [Next1(s, c) EXCEPT !.to = "queued"]
    <3>1. Next1(s, c).pc = "drain" /\ Next1(s, c).todo = sess[s].todo \ {c}
      BY <1>0 DEF Next1, Memory
    <3>2. m.pc = "drain" /\ m.todo \subseteq sess[s].todo
      BY <1>0, <3>1 DEF Next1, Memory
    <3>3. \A e \in sess[s].todo : e.day < today
      BY <2>8 DEF SettleRow, At, OrderInv, SoundInv, Sound, DrainSteps
    <3>4. Become(s, m) /\ UNCHANGED today
      BY <2>8 DEF SettleRow
    <3> HIDE DEF m
    <3>5. SoundThen(m)
      BY <3>2, <3>3, <3>4 DEF SoundThen
    <3>6. sess[s].to \in {"obsolete", "dropped"}
      BY <2>8 DEF SettleRow, At, IInv, KnownInv
    <3> QED
      BY <1>3, <2>8, <3>4, <3>5, <3>6 DEF SettleRow, At
  <2> QED
    BY <1>4, <2>1, <2>2, <2>3, <2>4, <2>5, <2>6, <2>7, <2>8 DEF Drain
<1>5. ASSUME NEW s \in Sessions, Submit(s) PROVE OrderInv' /\ ExitRetiredForReason'
  <2> DEFINE c == sess[s].cur
  <2>0. sess[s].pc \in DrainSteps => \A e \in sess[s].todo : e.day < today
    BY DEF OrderInv, SoundInv, Sound
  <2>1. CASE SubmitRow(s)
    <3>1. PICK k \in sess[s].todo : Become(s, [sess[s] EXCEPT !.pc = "submit", !.cur = k])
      BY <2>1 DEF SubmitRow
    <3> DEFINE m == [sess[s] EXCEPT !.pc = "submit", !.cur = k]
    <3>2. m.pc = "submit" /\ m.todo = sess[s].todo /\ m.cur = k
      BY <1>0 DEF Memory
    <3>3. \A e \in sess[s].todo : e.day < today
      BY <2>0, <2>1 DEF SubmitRow, Draining, At, DrainSteps
    <3>4. Become(s, m) /\ UNCHANGED today
      BY <2>1, <3>1 DEF SubmitRow
    <3> HIDE DEF m
    <3>5. SoundThen(m)
      BY <3>2, <3>3, <3>4 DEF SoundThen
    <3> QED
      BY <1>r, <2>1, <3>4, <3>5, LocalOrder DEF SubmitRow, Draining, At, Exists, Queued
  <2>2. CASE Block(s) \/ Suppress(s)
    <3> DEFINE m == Blocked(s, c)
    <3>1. /\ Become(s, m) /\ sess[s].pc \in {"submit", "consume"}
          /\ UNCHANGED <<today, open, rows, runs, claims, unsuperseded, alerts, flat>>
      BY <2>2 DEF Block, Suppress, At
    <3>2. m.pc = "drain" /\ m.todo \subseteq sess[s].todo
      <4>1. Next1(s, c).pc = "drain" /\ Next1(s, c).todo = sess[s].todo \ {c}
        BY <1>0 DEF Next1, Memory
      <4> QED
        BY <4>1 DEF Blocked, Next1
    <3>3. \A e \in sess[s].todo : e.day < today
      BY <2>0, <3>1 DEF DrainSteps
    <3> HIDE DEF m
    <3>4. SoundThen(m)
      BY <3>1, <3>2, <3>3 DEF SoundThen
    <3> QED
      BY <1>r, <3>1, <3>4, LocalOrder DEF Exists, Queued
  <2>3. CASE BlockStale(s)
    <3> DEFINE st == IF c \in Exits THEN "obsolete" ELSE "dropped"
    <3> DEFINE m == Settling(s, c, st)
    <3>1. /\ Become(s, m) /\ sess[s].pc = "submit"
          /\ UNCHANGED <<today, open, rows, runs, claims, unsuperseded, flat>>
          /\ alerts \subseteq alerts'
          /\ c \in Exits => c \in alerts'
      BY <2>3 DEF BlockStale, At
    <3>2. m.pc = "settle" /\ m.todo = sess[s].todo /\ m.cur = c
      BY <1>0 DEF Settling, Memory
    <3>3. \A e \in sess[s].todo : e.day < today
      BY <2>0, <3>1 DEF DrainSteps
    <3> HIDE DEF m
    <3>4. SoundThen(m)
      BY <3>1, <3>2, <3>3 DEF SoundThen, Exits
    <3> QED
      BY <1>r, <3>1, <3>4, LocalOrder DEF Exists, Queued
  <2>4. CASE Claim(s)
    <3>1. c \in Keys /\ rows' = [rows EXCEPT ![c] = Left(c, "consumed")]
      BY <1>0, <2>4 DEF Claim, Settle, Memory
    <3>2. Left(c, "consumed").status = "consumed"
      BY <3>1 DEF Left, IInv, TypeOK, QueueRows
    <3>3. \A k \in Keys : rows'[k] = rows[k] \/ rows'[k].status = "consumed"
      BY <3>1, <3>2 DEF IInv, TypeOK
    <3>4. ExitRetiredForReason'
      BY <1>0, <2>4, <3>3, ReasonStays DEF Claim, Exists, Exits
    <3> QED
      BY <2>4, <3>4, ClaimOrder
  <2>7. CASE Rehash(s)
    <3> DEFINE m == [sess[s] EXCEPT !.pc = "consume"]
    <3>1. m.pc = "consume" /\ m.todo = sess[s].todo /\ m.cur = sess[s].cur
      BY <1>0 DEF Memory
    <3>2. /\ Become(s, m) /\ sess[s].pc = "submit"
          /\ UNCHANGED <<today, open, rows, runs, claims, unsuperseded, alerts, flat>>
      BY <2>7 DEF Rehash, Goto, At
    <3>3. sess[s].cur.day < today
      BY <3>2 DEF OrderInv, SoundInv, Sound
    <3> HIDE DEF m
    <3>4. SoundThen(m)
      BY <2>0, <3>1, <3>2, <3>3 DEF SoundThen, DrainSteps
    <3> QED
      BY <1>r, <3>2, <3>4, LocalOrder DEF Exists, Queued
  <2>5. CASE Send(s)
    <3>1. /\ [sess[s] EXCEPT !.pc = "answer"].pc = "answer"
          /\ [sess[s] EXCEPT !.pc = "answer"].todo = sess[s].todo
      BY <1>0 DEF Memory
    <3>2. UNCHANGED today /\ sess[s].pc = "send"
      BY <2>5 DEF Send, At
    <3>3. SoundThen([sess[s] EXCEPT !.pc = "answer"])
      BY <2>0, <3>1, <3>2 DEF SoundThen, DrainSteps
    <3> QED
      BY <1>r, <2>5, <3>3, LocalOrder DEF Send, At, Goto, Exists, Queued
  <2>6. CASE Accepted(s) \/ Failed(s)
    <3>1. /\ Become(s, Next1(s, c)) /\ sess[s].pc = "answer"
          /\ UNCHANGED <<today, open, rows, runs, claims, unsuperseded, flat>>
          /\ alerts \subseteq alerts'
      BY <2>6 DEF Accepted, Failed, At
    <3>2. SoundThen(Next1(s, c))
      BY <3>1, NextRowSound DEF DrainSteps
    <3> QED
      BY <1>r, <3>1, <3>2, LocalOrder DEF Exists, Queued
  <2> QED
    BY <1>5, <2>1, <2>2, <2>3, <2>4, <2>5, <2>6, <2>7 DEF Submit
<1>6. ASSUME World PROVE OrderInv' /\ ExitRetiredForReason'
  <2>1. \A k \in Keys : rows'[k].status = rows[k].status
    BY <1>6 DEF World, CloseMarket, OpenMarket, EditConfig, TimePasses, IInv, TypeOK, QueueRows
  <2>2. UNCHANGED <<alerts, flat>>
    BY <1>6 DEF World, CloseMarket, OpenMarket, EditConfig, TimePasses
  <2>3. ExitRetiredForReason'
    BY <1>0, <2>1, <2>2, ReasonStays DEF Exists, Exits
  <2> QED
    BY <1>6, <2>3, WorldOrder
<1>7. CASE UNCHANGED vars
  <2>1. OrderInv'
    BY <1>7 DEF vars, OrderInv, DayInv, StopInv, SoundInv, Sound, ElderInv, ClaimedElderInv,
       Exists, Queued, Superseding, Abandoned, Elders, Exits
  <2> QED
    BY <1>r, <1>7, <2>1 DEF vars
<1> QED
  BY <1>1, <1>2, <1>4, <1>5, <1>6, <1>7 DEF Next

LEMMA OrderIsInvariant == Spec => [](OrderInv /\ ExitRetiredForReason)
<1>1. Init => ExitRetiredForReason
  BY DEF Init, ExitRetiredForReason, NoRow, Exits
<1> QED
  BY <1>1, InitOrder, StepOrder, Inductive, PTL DEF Spec

\* OneOrderPerOpen: of two lock-ins of one logical intent only one goes to the
\* market on a day, unless retiring the older one failed.  The younger one was
\* locked in on an earlier day, with the market closed; by the time the market
\* opens it has retired its elder, or its process died in between and then
\* nobody may claim it (only a deliberate stop hands a row over).
THEOREM OneOrderADay == Spec => []OneOrderPerOpen
<1>1. IInv /\ OrderInv => OneOrderPerOpen
  <2> SUFFICES ASSUME IInv, OrderInv, NEW k \in Keys, NEW e \in Elders(k),
                      claims[k].n > 0, claims[e].n > 0, claims[k].day = claims[e].day
               PROVE  k \in unsuperseded
    BY DEF OneOrderPerOpen
  <2>1. k.day < claims[e].day /\ Exists(k)
    BY DEF OrderInv, DayInv, IInv, RowInv, Exists
  <2>2. ~Abandoned(k)
    BY DEF Abandoned, IInv, TypeOK, Claims
  <2> QED
    BY <2>1, <2>2 DEF OrderInv, ClaimedElderInv
<1> QED
  BY <1>1, OrderIsInvariant, Inductive, PTL

\* ExitRetiredForReason: an exit leaves the queue unsent only with an alert, a
\* closed position or a later lock-in of the same exit on record, wherever a
\* session dies between recording the reason and retiring the row.
THEOREM NoExitLostSilently == Spec => []ExitRetiredForReason
<1> QED
  BY OrderIsInvariant, PTL

-----------------------------------------------------------------------------
(* The risk rules that judge the exits of the queue, for every context:    *)
(* which checks an exit can meet, what an allowed order leaves behind,     *)
(* which vetoes are redundant, what a selector file can and cannot do.     *)


\* A context whose order, account and limits are numbers.
Numbers(c) ==
    /\ c.price \in Nat /\ c.intent.quantity \in Nat
    /\ c.positions[c.intent.symbol].quantity \in Int
    /\ c.portfolioValue \in Int /\ c.dailyPnl \in Int
    /\ Exposure(c) \in Int

\* A sell of no more than the long the broker holds.
CoveredSell(c) == ~Buys(c) /\ c.intent.quantity <= HeldLong(c)

-----------------------------------------------------------------------------

\* The split of an order into what opens and what closes: a covered sell opens
\* nothing.
LEMMA CoveredOpensNothing ==
    ASSUME NEW c, Numbers(c), CoveredSell(c)
    PROVE  ~IsExposureIncreasing(c) /\ IncreasingNotional(c) = 0
<1>1. HeldLong(c) \in Nat /\ c.intent.quantity \in Nat /\ c.price \in Nat
  BY DEF Numbers, HeldLong, NonNegative
<1>2. ~(c.intent.quantity > HeldLong(c)) /\ ~(c.intent.quantity - HeldLong(c) > 0)
  BY <1>1 DEF CoveredSell
<1>3. IncreasingNotional(c) = c.price * 0
  BY <1>2 DEF CoveredSell, IncreasingNotional, NonNegative
<1> QED BY <1>1, <1>2, <1>3 DEF CoveredSell, IsExposureIncreasing

\* A covered sell is refused neither by a cap on money nor by an unreconciled
\* account, whatever the positions are worth and whichever limits are loaded.
THEOREM CoveredExitMeetsNoCap ==
    ASSUME NEW c, Numbers(c), CoveredSell(c)
    PROVE  OrderValue(c) /\ SinglePosition(c) /\ TotalExposure(c) /\ ReconciliationReadiness(c)
BY CoveredOpensNothing
   DEF OrderValue, SinglePosition, TotalExposure, ReconciliationReadiness

\* The one account-wide cap a full exit can meet is the number of positions, and
\* it meets it exactly when the account holds more than one too many: then no
\* single exit is allowed, which evaluator.py:645 excludes ("must ALWAYS be
\* exitable in full").
THEOREM ExitBlockedByCount ==
    ASSUME NEW c, ~Buys(c),
           NEW existing, existing = {s \in DOMAIN c.positions : c.positions[s].quantity > 0},
           NEW pending, pending = {o.symbol : o \in OpenBuys(c)},
           c.intent.symbol \in DOMAIN c.positions,
           c.intent.symbol \in existing \ pending,
           c.intent.quantity = c.positions[c.intent.symbol].quantity,
           c.intent.quantity \in Nat,
           Cardinality(existing \cup pending) \in Nat, c.limits.maxPositions \in Nat
    PROVE  ConcurrentPositions(c) <=>
               Cardinality(existing \cup pending) <= c.limits.maxPositions + 1
<1> DEFINE held == [s \in DOMAIN c.positions |-> c.positions[s].quantity]
<1>1. held[c.intent.symbol] = c.intent.quantity
  OBVIOUS
<1>2. ConcurrentPositions(c) <=>
        ProjectedCount(c, existing \cup pending, held, c.intent.symbol \in existing \ pending)
            <= c.limits.maxPositions
  BY DEF ConcurrentPositions
<1> HIDE DEF held
<1>3. ProjectedCount(c, existing \cup pending, held, c.intent.symbol \in existing \ pending)
        = Cardinality(existing \cup pending) - 1
  BY <1>1 DEF ProjectedCount
<1> QED BY <1>2, <1>3

\* An allowed buy leaves positions, priced pending buys and itself within the
\* exposure cap; an allowed sell beyond what is held has the excess counted.
THEOREM AllowedOrderFitsExposure ==
    ASSUME NEW c, Numbers(c), TotalExposure(c), IsExposureIncreasing(c),
           c.limits.exposurePct \in Nat
    PROVE  /\ Buys(c) => Within(c, Exposure(c) + OrderNotional(c), c.limits.exposurePct)
           /\ ~Buys(c) => Within(c, IncreasingNotional(c), c.limits.exposurePct)
<1>1. Within(c, Projected(c, Exposure(c)), c.limits.exposurePct)
  BY DEF TotalExposure
<1>2. CASE Buys(c)
  BY <1>1, <1>2 DEF Projected
<1>3. CASE ~Buys(c)
  <2> DEFINE rest == Exposure(c) - (OrderNotional(c) - IncreasingNotional(c))
             inc == IncreasingNotional(c)
  <2>1. Projected(c, Exposure(c)) = NonNegative(rest) + inc
    BY <1>3 DEF Projected
  <2>2. OrderNotional(c) \in Int /\ inc \in Int
    <3>1. NonNegative(c.intent.quantity - HeldLong(c)) \in Int
      BY DEF Numbers, NonNegative, HeldLong
    <3> QED BY <3>1 DEF Numbers, OrderNotional, IncreasingNotional
  <2>3. rest \in Int
    BY <2>2 DEF Numbers
  <2> HIDE DEF rest, inc
  <2>4. NonNegative(rest) \in Nat
    BY <2>3 DEF NonNegative
  <2>5. (NonNegative(rest) + inc) * 100 <= c.portfolioValue * c.limits.exposurePct
    BY <1>1, <2>1 DEF Within
  <2>6. inc * 100 <= (NonNegative(rest) + inc) * 100
    BY <2>2, <2>4
  <2>7. c.portfolioValue * c.limits.exposurePct \in Int
    BY DEF Numbers
  <2>8. inc * 100 <= c.portfolioValue * c.limits.exposurePct
    BY <2>2, <2>4, <2>5, <2>6, <2>7
  <2> QED BY <1>3, <2>8 DEF Within, inc
<1> QED BY <1>2, <1>3

-----------------------------------------------------------------------------

\* The disable condition on drawdown and the daily-loss check give one verdict,
\* as disable_conditions.py:150 says of them.
THEOREM LossGatesAgree ==
    ASSUME NEW c
    PROVE  DrawdownBreach(c) <=> ~DailyLoss(c)
BY DEF DrawdownBreach, DailyLoss, BreachesKillSwitch, DailyLossPct, Effective

\* A stale bar stays stale, so the gate that reads the clock later refuses
\* whatever the earlier one refused.
LEMMA StaleStaysStale ==
    ASSUME NEW c, NEW earlier \in Nat, NEW later \in Nat, earlier <= later,
           c.bar # None => c.bar.time \in Int,
           c.dailyCeiling \in Int, c.limits.maxStaleness \in Int,
           IsStale(c, earlier)
    PROVE  IsStale(c, later)
<1>1. CASE c.bar = None
  BY <1>1 DEF IsStale
<1>2. CASE c.bar # None
  <2> DEFINE Old(limit, now) == now - c.bar.time > limit
  <2>1. \A limit \in Int : Old(limit, earlier) => Old(limit, later)
    BY <1>2
  <2> QED BY <1>2, <2>1 DEF IsStale
<1> QED BY <1>1, <1>2

\* The disable-condition check never stands alone: whenever it vetoes, the kill
\* switch, the daily-loss or the staleness check vetoes too, because its three
\* evaluated conditions repeat them on an earlier reading of the clock.
THEOREM DisableConditionsAddNoVeto ==
    ASSUME NEW c, c.disableNow \in Nat, c.stalenessNow \in Nat,
           c.disableNow <= c.stalenessNow,
           c.bar # None => c.bar.time \in Int,
           c.dailyCeiling \in Int, c.limits.maxStaleness \in Int,
           ~DisableConditions(c)
    PROVE  Failing(c) \cap {"kill_switch", "daily_loss", "data_staleness"} # {}
<1>1. PICK k \in EffectiveConditions(c) : IsActive(c, k, c.disableNow)
  BY DEF DisableConditions
<1>2. \/ IsStale(c, c.stalenessNow)
      \/ ~DailyLoss(c)
      \/ c.killed
  BY <1>1, StaleStaysStale, LossGatesAgree DEF IsActive
<1>3. /\ Verdicts(c)["kill_switch"] = ~c.killed
      /\ Verdicts(c)["daily_loss"] = DailyLoss(c)
      /\ Verdicts(c)["data_staleness"] = ~IsStale(c, c.stalenessNow)
  BY Zenon DEF Verdicts
<1>4. {"kill_switch", "daily_loss", "data_staleness"} \subseteq Checks
  BY DEF Checks
<1>5. \/ "kill_switch" \in Failing(c)
      \/ "daily_loss" \in Failing(c)
      \/ "data_staleness" \in Failing(c)
  BY <1>2, <1>3, <1>4 DEF Failing
<1> QED BY <1>5

\* Whatever a paper account may do, the structural replay of a backtest allows.
THEOREM PaperImpliesStructural ==
    ASSUME NEW c, Allowed(c)
    PROVE  StructurallyAllowed(c)
<1>1. Structural \subseteq Checks
  BY DEF Structural, Checks
<1> QED BY <1>1 DEF Allowed, Failing, StructurallyAllowed

-----------------------------------------------------------------------------

\* No selector and no overlay can load limits above the ceilings: such a profile
\* is refused.
THEOREM LoadedWithinCeilings ==
    ASSUME NEW file, NEW base, NEW overlay, NEW ceilings,
           NEW loaded, loaded = LoadProfile(file, base, overlay, ceilings),
           loaded # None,
           \A f \in DOMAIN ceilings : loaded[f] \in Int /\ ceilings[f] \in Int
    PROVE  \A f \in DOMAIN ceilings : loaded[f] <= ceilings[f]
<1> DEFINE name == IF ActiveName(file) \in Profiles THEN ActiveName(file)
                   ELSE "conservative"
           chosen == IF overlay[name] # None THEN overlay[name] ELSE overlay["conservative"]
           merged == [f \in DOMAIN base |->
                         IF f \in DOMAIN chosen THEN chosen[f] ELSE base[f]]
           refused == chosen = None \/ \E f \in DOMAIN ceilings : merged[f] > ceilings[f]
<1>1. loaded = IF refused THEN None ELSE merged
  BY Zenon DEF LoadProfile
<1> HIDE DEF merged, chosen
<1>2. loaded = merged /\ \A f \in DOMAIN ceilings : ~(merged[f] > ceilings[f])
  BY <1>1
<1> QED BY <1>2

\* When the limits in force are not those of the last audited profile, the
\* start-up comparison reports it, however the selector came to be what it is.
THEOREM UnauditedIsReported ==
    ASSUME NEW file, NEW row, NEW base, NEW overlay, NEW ceilings,
           LoadProfile(file, base, overlay, ceilings)
               # LoadProfile(row, base, overlay, ceilings)
    PROVE  Diverges(file, row)
<1> SUFFICES ASSUME ~Diverges(file, row)
             PROVE  FALSE
  OBVIOUS
<1>1. ActiveName(file) = ActiveName(row)
  BY Zenon DEF Diverges, ActiveName
<1> QED BY <1>1, Zenon DEF LoadProfile

\* What attempt_switch answers when it refuses.
Refusals == {"unknown_profile", "invalid_current_profile", "active_runners",
             "kill_switch_open", "typed_confirmation_mismatch",
             "reduction_confirmation_missing"}

\* A switch that is let through finds no runner, no halt and two shipped profiles,
\* and a riskier one is typed by name.
THEOREM SwitchIsGuarded ==
    ASSUME NEW file, NEW target, NEW active, NEW killed, NEW confirmed,
           SwitchRefusal(file, target, active, killed, confirmed) = None,
           None \notin Refusals, killed \in BOOLEAN
    PROVE  /\ active = {} /\ ~killed
           /\ target \in Profiles /\ ActiveName(file) \in Profiles
           /\ RiskOrder[target] > RiskOrder[ActiveName(file)] => confirmed = target
<1> DEFINE riskier == RiskOrder[target] > RiskOrder[ActiveName(file)]
<1>1. /\ "unknown_profile" # None /\ "invalid_current_profile" # None
      /\ "active_runners" # None /\ "kill_switch_open" # None
      /\ "typed_confirmation_mismatch" # None
  BY Zenon DEF Refusals
<1>2. (IF target \notin Profiles THEN "unknown_profile"
       ELSE IF ActiveName(file) \notin Profiles THEN "invalid_current_profile"
       ELSE IF active # {} THEN "active_runners"
       ELSE IF killed THEN "kill_switch_open"
       ELSE IF riskier
            THEN IF confirmed = target THEN None ELSE "typed_confirmation_mismatch"
            ELSE IF confirmed = "reduction" THEN None
                 ELSE "reduction_confirmation_missing") = None
  BY Zenon DEF SwitchRefusal
<1> HIDE DEF riskier
<1>3. /\ active = {} /\ ~killed
      /\ target \in Profiles /\ ActiveName(file) \in Profiles
      /\ riskier => confirmed = target
  BY <1>1, <1>2, Zenon
<1> QED BY <1>3 DEF riskier

-----------------------------------------------------------------------------
(* Sums over a function, as FoldFunction computes them: an element is      *)
(* chosen, and the rest is summed.                                         *)

LEMMA UpThroughNat ==
    ASSUME NEW T, 0 \in T, \A n \in Nat : n \in T => n + 1 \in T
    PROVE  Nat \subseteq T
<1> DEFINE Rest == Nat \ T
<1> SUFFICES ASSUME Rest # {} PROVE FALSE
  OBVIOUS
<1>1. PICK d \in Rest : \A e \in Rest : ~(<<e, d>> \in OpToRel(<, Nat))
  BY NatLessThanWellFounded, WFMin
<1>2. d - 1 \in Nat /\ d - 1 < d
  OBVIOUS
<1>3. d - 1 \notin Rest
  BY <1>1, <1>2 DEF OpToRel
<1> QED
  BY <1>2, <1>3

\* The element that a fold takes first.
First(s) == CHOOSE x \in s : TRUE

LEMMA FirstOf == ASSUME NEW s, s # {} PROVE First(s) \in s
  BY DEF First

LEMMA UpThroughSubsets ==
    ASSUME NEW S, IsFiniteSet(S), NEW T, {} \in T,
           \A s \in SUBSET S : s # {} /\ s \ {First(s)} \in T => s \in T
    PROVE  SUBSET S \subseteq T
<1> DEFINE Sized == {n \in Nat : \A s \in SUBSET S : Cardinality(s) = n => s \in T}
<1>1. \A s \in SUBSET S : IsFiniteSet(s) /\ Cardinality(s) \in Nat
  BY FS_Subset, FS_CardinalityType
<1>2. 0 \in Sized
  BY <1>1, FS_EmptySet
<1>3. ASSUME NEW n \in Nat, n \in Sized PROVE n + 1 \in Sized
  <2> SUFFICES ASSUME NEW s \in SUBSET S, Cardinality(s) = n + 1 PROVE s \in T
    OBVIOUS
  <2>1. s # {}
    BY FS_EmptySet
  <2>2. First(s) \in s
    BY <2>1, FirstOf
  <2>3. Cardinality(s \ {First(s)}) = n
    BY <1>1, <2>2, FS_RemoveElement
  <2> QED
    BY <1>3, <2>1, <2>3
<1>4. Nat \subseteq Sized
  <2> HIDE DEF Sized
  <2> QED
    BY <1>2, <1>3, UpThroughNat
<1> QED
  BY <1>1, <1>4

\* What a fold with + computes, subset by subset.
Adds(f, g, s) == g[s] = IF s = {} THEN 0 ELSE f[First(s)] + g[s \ {First(s)}]

LEMMA SumsExist ==
    ASSUME NEW S, IsFiniteSet(S), NEW f \in [S -> Int]
    PROVE  \E g \in [SUBSET S -> Int] : \A s \in SUBSET S : Adds(f, g, s)
<1> DEFINE Upto(n) == {s \in SUBSET S : Cardinality(s) <= n}
           Done == {n \in Nat : \E g \in [SUBSET S -> Int] : \A s \in Upto(n) : Adds(f, g, s)}
<1>1. \A s \in SUBSET S : IsFiniteSet(s) /\ Cardinality(s) \in Nat
  BY FS_Subset, FS_CardinalityType
<1>2. 0 \in Done
  <2>1. PICK g : g = [s \in SUBSET S |-> 0]
    OBVIOUS
  <2>2. g \in [SUBSET S -> Int]
    BY <2>1
  <2>3. \A s \in Upto(0) : s = {}
    BY <1>1, FS_EmptySet
  <2>4. \A s \in Upto(0) : Adds(f, g, s)
    BY <2>1, <2>3 DEF Adds
  <2> QED
    BY <2>2, <2>4
<1>3. ASSUME NEW n \in Nat, n \in Done PROVE n + 1 \in Done
  <2>1. PICK g \in [SUBSET S -> Int] : \A s \in Upto(n) : Adds(f, g, s)
    BY <1>3
  <2>2. PICK h : h = [s \in SUBSET S |-> IF s = {} THEN 0
                                         ELSE f[First(s)] + g[s \ {First(s)}]]
    OBVIOUS
  <2>3. \A s \in SUBSET S : s # {} => First(s) \in S /\ s \ {First(s)} \in SUBSET S
    BY FirstOf
  <2>4. h \in [SUBSET S -> Int]
    BY <2>2, <2>3
  <2>5. \A s \in Upto(n) : h[s] = g[s]
    BY <2>1, <2>2 DEF Adds
  <2>6. ASSUME NEW s \in Upto(n + 1) PROVE Adds(f, h, s)
    <3>1. CASE s = {}
      BY <2>2, <3>1 DEF Adds
    <3>2. CASE s # {}
      <4>1. First(s) \in s
        BY <3>2, FirstOf
      <4>2. Cardinality(s \ {First(s)}) = Cardinality(s) - 1
        BY <1>1, <4>1, FS_RemoveElement
      <4>3. s \ {First(s)} \in Upto(n)
        BY <1>1, <4>2
      <4>4. h[s \ {First(s)}] = g[s \ {First(s)}]
        BY <2>5, <4>3
      <4> QED
        BY <2>2, <3>2, <4>4 DEF Adds
    <3> QED
      BY <3>1, <3>2
  <2> QED
    BY <2>4, <2>6
<1>4. Nat \subseteq Done
  <2> HIDE DEF Done
  <2> QED
    BY <1>2, <1>3, UpThroughNat
<1>5. PICK g \in [SUBSET S -> Int] : \A s \in Upto(Cardinality(S)) : Adds(f, g, s)
  BY <1>1, <1>4
<1>6. \A s \in SUBSET S : Cardinality(s) <= Cardinality(S)
  BY FS_Subset
<1> QED
  BY <1>1, <1>5, <1>6

\* A sum over a function is one of those.
LEMMA SumIsOne ==
    ASSUME NEW S, IsFiniteSet(S), NEW f \in [S -> Int]
    PROVE  \E g \in [SUBSET S -> Int] : /\ \A s \in SUBSET S : Adds(f, g, s)
                                        /\ SumFunction(f) = g[S]
<1> DEFINE Chosen == CHOOSE g : g = [s \in SUBSET S |->
                        IF s = {} THEN 0
                        ELSE f[CHOOSE x \in s : TRUE] + g[s \ {CHOOSE x \in s : TRUE}]]
<1>0. DOMAIN f = S
  OBVIOUS
<1>1. SumFunction(f) = Chosen[S]
  BY <1>0 DEF SumFunction, SumFunctionOnSet, FoldFunctionOnSet, MapThenFoldSet
<1>2. PICK g \in [SUBSET S -> Int] : \A s \in SUBSET S : Adds(f, g, s)
  BY SumsExist
<1>3. g = [s \in SUBSET S |-> g[s]]
  OBVIOUS
<1>4. g = [s \in SUBSET S |-> IF s = {} THEN 0
                        ELSE f[CHOOSE x \in s : TRUE] + g[s \ {CHOOSE x \in s : TRUE}]]
  BY <1>2, <1>3 DEF Adds, First
<1>5. Chosen = [s \in SUBSET S |-> IF s = {} THEN 0
                        ELSE f[CHOOSE x \in s : TRUE] + Chosen[s \ {CHOOSE x \in s : TRUE}]]
  BY <1>4
<1> HIDE DEF Chosen
<1>6. \A s \in SUBSET S : Adds(f, Chosen, s)
  BY <1>5 DEF Adds, First
<1>7. PICK Same : Same = {s \in SUBSET S : Chosen[s] = g[s]}
  OBVIOUS
<1>8. SUBSET S \subseteq Same
  <2>1. {} \in Same
    BY <1>2, <1>6, <1>7 DEF Adds
  <2>2. ASSUME NEW s \in SUBSET S, s # {}, s \ {First(s)} \in Same
        PROVE  s \in Same
    BY <1>2, <1>6, <1>7, <2>2 DEF Adds
  <2> QED
    BY <2>1, <2>2, UpThroughSubsets
<1>9. Chosen[S] = g[S]
  BY <1>7, <1>8
<1> QED
  BY <1>1, <1>2, <1>9

LEMMA SumIsInt ==
    ASSUME NEW S, IsFiniteSet(S), NEW f \in [S -> Int]
    PROVE  SumFunction(f) \in Int
<1>1. PICK g \in [SUBSET S -> Int] : SumFunction(f) = g[S]
  BY SumIsOne
<1>2. S \in SUBSET S
  OBVIOUS
<1> QED
  BY <1>1, <1>2

LEMMA SumOfNone == ASSUME NEW f, DOMAIN f = {} PROVE SumFunction(f) = 0
<1>1. f \in [{} -> Int] /\ IsFiniteSet({})
  <2>1. f = [x \in {} |-> 0]
    OBVIOUS
  <2> QED
    BY <2>1, FS_EmptySet
<1> QED
  BY <1>1, SumIsOne DEF Adds

\* One term changes, and the sum by as much.
LEMMA SumChanges ==
    ASSUME NEW S, IsFiniteSet(S), NEW f \in [S -> Int], NEW h \in [S -> Int],
           NEW x \in S, NEW d \in Int, h[x] = f[x] + d,
           \A y \in S : y # x => h[y] = f[y]
    PROVE  SumFunction(h) = SumFunction(f) + d
<1>1. PICK g \in [SUBSET S -> Int] : /\ \A s \in SUBSET S : Adds(f, g, s)
                                     /\ SumFunction(f) = g[S]
  BY SumIsOne
<1>2. PICK k \in [SUBSET S -> Int] : /\ \A s \in SUBSET S : Adds(h, k, s)
                                     /\ SumFunction(h) = k[S]
  BY SumIsOne
<1>3. PICK T : T = {s \in SUBSET S : k[s] = g[s] + (IF x \in s THEN d ELSE 0)}
  OBVIOUS
<1>i. {} \in SUBSET S /\ S \in SUBSET S
  OBVIOUS
<1>4. {} \in T
  <2>1. g[{}] = 0 /\ k[{}] = 0
    BY <1>1, <1>2, <1>i DEF Adds
  <2> QED
    BY <1>3, <1>i, <2>1
<1>5. ASSUME NEW s \in SUBSET S, s # {}, s \ {First(s)} \in T PROVE s \in T
  <2>1. First(s) \in s
    BY <1>5, FirstOf
  <2>2. /\ g[s] = f[First(s)] + g[s \ {First(s)}]
        /\ k[s] = h[First(s)] + k[s \ {First(s)}]
    BY <1>1, <1>2, <1>5 DEF Adds
  <2>3. k[s \ {First(s)}] = g[s \ {First(s)}] + (IF x \in s \ {First(s)} THEN d ELSE 0)
    BY <1>3, <1>5
  <2>4. g[s \ {First(s)}] \in Int /\ f[First(s)] \in Int
    BY <2>1
  <2>5. CASE First(s) = x
    BY <1>3, <2>1, <2>2, <2>3, <2>4, <2>5
  <2>6. CASE First(s) # x
    BY <1>3, <2>1, <2>2, <2>3, <2>4, <2>6
  <2> QED
    BY <2>5, <2>6
<1>6. S \in T
  BY <1>4, <1>5, UpThroughSubsets
<1> QED
  BY <1>1, <1>2, <1>3, <1>6

-----------------------------------------------------------------------------
(* The desk's account                                                      *)

PendingOrders == [id : Nat, strategy : Traders, symbol : Tickers, side : {"buy", "sell"},
                  quantity : Nat, blind : BOOLEAN]

DeskTypes ==
    /\ lots \in [Traders -> [Tickers -> Nat]]
    /\ price \in [Tickers -> Prices] /\ cash \in Int
    /\ orders \subseteq PendingOrders
    /\ spent \in [orders : Nat, moves : Nat, switches : Nat]

\* One order waits for a strategy and a symbol ...
OnePerLot(os) == \A o, q \in os : o.strategy = q.strategy /\ o.symbol = q.symbol => o = q

\* ... so that the lot an order sells is still there when it fills.
LotsCovered ==
    /\ OnePerLot(orders)
    /\ \A o \in orders : o.side = "sell" => o.quantity = lots[o.strategy][o.symbol]

\* What an order would leave invested is within the cap in force.
Fits(o) == (Invested + o.quantity * price[o.symbol]) * 100
               <= PortfolioValue * Limits.exposurePct

\* A buy that is not blind is the only one, and the verdict on it stands.
VerdictStands(o) ==
    o.side = "buy" /\ ~o.blind =>
        /\ \A q \in orders : q.side = "buy" => q = o
        /\ Limits # None /\ Fits(o)

DeskInv == DeskTypes /\ LotsCovered /\ \A o \in orders : VerdictStands(o)

LEMMA CapIsNumber ==
    ASSUME NEW file, NEW loaded, loaded = LoadProfile(file, BaseLimits, Overlays, Ceilings),
           loaded # None
    PROVE  loaded.exposurePct \in Int
<1>1. PICK name : name = IF ActiveName(file) \in Profiles THEN ActiveName(file)
                         ELSE "conservative"
  OBVIOUS
<1>2. name \in Profiles /\ "conservative" \in Profiles
  BY <1>1 DEF Profiles
<1>3. PICK chosen : chosen = IF Overlays[name] # None THEN Overlays[name]
                             ELSE Overlays["conservative"]
  OBVIOUS
<1>4. PICK merged : merged = [f \in DOMAIN BaseLimits |->
                         IF f \in DOMAIN chosen THEN chosen[f] ELSE BaseLimits[f]]
  OBVIOUS
<1>5. loaded = IF chosen = None \/ \E f \in DOMAIN Ceilings : merged[f] > Ceilings[f]
               THEN None ELSE merged
  BY <1>1, <1>3, <1>4, Zenon DEF LoadProfile
<1>6. chosen # None /\ loaded = merged
  BY <1>5
<1>7. "exposurePct" \in DOMAIN chosen => chosen.exposurePct \in Int
  BY <1>2, <1>3, <1>6, CapAssumption
<1> QED
  BY <1>4, <1>6, <1>7, CapAssumption

LEMMA PricesCount == DeskTypes => \A y \in Tickers : price[y] \in Nat
  BY DeskAssumption DEF DeskTypes

\* Shares and their worth are whole numbers, below zero where the account is short.
LEMMA SharesCount ==
    ASSUME lots \in [Traders -> [Tickers -> Nat]], NEW y \in Tickers
    PROVE  Shares(y) \in Int
<1>1. PICK f : f = [s \in Traders |-> lots[s][y]]
  OBVIOUS
<1>2. f \in [Traders -> Int] /\ Shares(y) = Elsewhere[y] + SumFunction(f)
  BY <1>1 DEF Shares
<1>3. SumFunction(f) \in Int /\ Elsewhere[y] \in Int
  BY <1>2, SumIsInt, DeskAssumption
<1> QED
  BY <1>2, <1>3

LEMMA InvestedIsNumber ==
    ASSUME lots \in [Traders -> [Tickers -> Nat]], price \in [Tickers -> Prices]
    PROVE  Invested \in Int
<1>1. PICK f : f = [y \in Tickers |-> Shares(y) * price[y]]
  OBVIOUS
<1>2. \A y \in Tickers : price[y] \in Nat
  BY DeskAssumption
<1>3. \A y \in Tickers : Shares(y) \in Int
  BY SharesCount
<1>4. f \in [Tickers -> Int] /\ Invested = SumFunction(f)
  BY <1>1, <1>2, <1>3 DEF Invested
<1> QED
  BY <1>4, SumIsInt, DeskAssumption

LEMMA AccountIsNumber ==
    ASSUME DeskTypes
    PROVE  Invested \in Int /\ PortfolioValue \in Int
<1>1. Invested \in Int /\ cash \in Int
  BY InvestedIsNumber DEF DeskTypes
<1> QED
  BY <1>1 DEF PortfolioValue

LEMMA ContextFields ==
    ASSUME NEW s, NEW intent, NEW c, c = Context(s, intent)
    PROVE  /\ c.intent = intent /\ c.price = price[intent.symbol]
           /\ c.portfolioValue = PortfolioValue
           /\ c.positions =
                [y \in Tickers |-> [quantity |-> Shares(y), value |-> Shares(y) * price[y]]]
           /\ c.orders =
                {[symbol |-> o.symbol, side |-> o.side, remaining |-> None] : o \in orders}
           /\ c.limits = Limits
  BY DEF Context

\* With no priced order pending, the exposure of a context is what is invested.
LEMMA ExposureIsInvested ==
    ASSUME NEW c,
           c.positions = [y \in Tickers |-> [quantity |-> Shares(y), value |-> Shares(y) * price[y]]],
           c.orders = {[symbol |-> o.symbol, side |-> o.side, remaining |-> None] : o \in orders},
           DeskTypes
    PROVE  Exposure(c) = Invested
<1>1. [y \in DOMAIN c.positions |-> c.positions[y].value] = [y \in Tickers |-> Shares(y) * price[y]]
  OBVIOUS
<1>2. {b \in OpenBuys(c) : b.remaining # None} = {}
  BY DEF OpenBuys
<1>3. PICK f : f = [b \in {b \in OpenBuys(c) : b.remaining # None} |-> b.remaining]
  OBVIOUS
<1>4. SumFunction(f) = 0
  BY <1>2, <1>3, SumOfNone
<1>5. Exposure(c) = Invested + 0
  BY <1>1, <1>3, <1>4 DEF Exposure, Invested
<1> QED
  BY <1>5, AccountIsNumber

LEMMA AllowedMeetsExposure ==
    ASSUME NEW c, Allowed(c)
    PROVE  TotalExposure(c)
<1>1. Verdicts(c)["total_exposure"] = TotalExposure(c)
  BY Zenon DEF Verdicts
<1>2. "total_exposure" \in Checks
  BY DEF Checks
<1> QED
  BY <1>1, <1>2 DEF Allowed, Failing

LEMMA PassedAreNotFailing ==
    ASSUME NEW c, c.broken = {},
           OrderValue(c), SinglePosition(c), TotalExposure(c), ReconciliationReadiness(c)
    PROVE  Failing(c) \cap {"order_value", "single_position_limit", "total_exposure",
                            "reconciliation_readiness"} = {}
<1>1. /\ Verdicts(c)["order_value"] = OrderValue(c)
      /\ Verdicts(c)["single_position_limit"] = SinglePosition(c)
      /\ Verdicts(c)["total_exposure"] = TotalExposure(c)
      /\ Verdicts(c)["reconciliation_readiness"] = ReconciliationReadiness(c)
  BY Zenon DEF Verdicts
<1> QED
  BY <1>1 DEF Failing

LEMMA HeldExitPasses ==
    ASSUME DeskTypes, NEW s \in Traders, NEW y \in Tickers, lots[s][y] <= Shares(y), NEW c,
           c = [Context(s, Exit(s, y)) EXCEPT !.ready = FALSE]
    PROVE  Failing(c) \cap {"order_value", "single_position_limit", "total_exposure",
                            "reconciliation_readiness"} = {}
<1>1. /\ c.intent = Exit(s, y) /\ c.price = price[Exit(s, y).symbol]
      /\ c.portfolioValue = PortfolioValue /\ c.dailyPnl = PortfolioValue - StartCash
      /\ c.positions =
            [z \in Tickers |-> [quantity |-> Shares(z), value |-> Shares(z) * price[z]]]
      /\ c.orders = {[symbol |-> o.symbol, side |-> o.side, remaining |-> None] : o \in orders}
      /\ c.broken = {}
  BY DEF Context
<1>2. /\ Exit(s, y).symbol = y /\ Exit(s, y).side = "sell"
      /\ Exit(s, y).quantity = lots[s][y]
  BY DEF Exit, Intent
<1>3. lots[s][y] \in Nat /\ price[y] \in Nat /\ Shares(y) \in Int
  BY SharesCount, DeskAssumption DEF DeskTypes
<1>4. c.positions[c.intent.symbol].quantity = Shares(y)
  BY <1>1, <1>2
<1>5. Exposure(c) \in Int /\ PortfolioValue \in Int
  BY <1>1, ExposureIsInvested, AccountIsNumber
<1>6. Numbers(c)
  BY <1>1, <1>2, <1>3, <1>4, <1>5, DeskAssumption DEF Numbers
<1>7. HeldLong(c) = Shares(y)
  BY <1>3, <1>4 DEF HeldLong, NonNegative
<1>8. CoveredSell(c)
  BY <1>1, <1>2, <1>7 DEF CoveredSell, Buys
<1>9. c.broken = {}
  BY <1>1
<1> QED
  BY <1>6, <1>8, <1>9, CoveredExitMeetsNoCap, PassedAreNotFailing

LEMMA BlindKeeps ==
    ASSUME NEW os \in SUBSET PendingOrders, NEW b \in Blind(os)
    PROVE  /\ b \in PendingOrders /\ b.blind
           /\ \E o \in os : /\ b = [o EXCEPT !.blind = TRUE]
                            /\ b.strategy = o.strategy /\ b.symbol = o.symbol
                            /\ b.side = o.side /\ b.quantity = o.quantity
<1>1. PICK o \in os : b = [o EXCEPT !.blind = TRUE]
  BY DEF Blind
<1>2. o \in PendingOrders
  OBVIOUS
<1> QED
  BY <1>1, <1>2 DEF PendingOrders

LEMMA BlindOnePerLot ==
    ASSUME NEW os \in SUBSET PendingOrders, OnePerLot(os)
    PROVE  OnePerLot(Blind(os))
<1> SUFFICES ASSUME NEW a \in Blind(os), NEW b \in Blind(os),
                    a.strategy = b.strategy, a.symbol = b.symbol
             PROVE  a = b
  BY DEF OnePerLot
<1>1. PICK o \in os : /\ a = [o EXCEPT !.blind = TRUE]
                      /\ a.strategy = o.strategy /\ a.symbol = o.symbol
  BY BlindKeeps
<1>2. PICK q \in os : /\ b = [q EXCEPT !.blind = TRUE]
                      /\ b.strategy = q.strategy /\ b.symbol = q.symbol
  BY BlindKeeps
<1>3. o = q
  BY <1>1, <1>2 DEF OnePerLot
<1> QED
  BY <1>1, <1>2, <1>3

\* When every pending order goes blind, the lots are still covered and no
\* verdict is left to stand.
LEMMA BlindedDesk ==
    ASSUME DeskInv, orders' = Blind(orders), UNCHANGED lots
    PROVE  LotsCovered' /\ (\A o \in orders : VerdictStands(o))'
<1>1. PICK os : os = orders
  OBVIOUS
<1>2. os \in SUBSET PendingOrders /\ orders' = Blind(os)
  BY <1>1 DEF DeskInv, DeskTypes
<1>3. \A b \in Blind(os) : b.blind /\ \E o \in os : /\ b = [o EXCEPT !.blind = TRUE]
                            /\ b.strategy = o.strategy /\ b.symbol = o.symbol
                            /\ b.side = o.side /\ b.quantity = o.quantity
  BY <1>2, BlindKeeps
<1>4. LotsCovered'
  <2>1. OnePerLot(Blind(os))
    BY <1>1, <1>2, BlindOnePerLot DEF DeskInv, LotsCovered
  <2>2. \A o \in os : o.side = "sell" => o.quantity = lots[o.strategy][o.symbol]
    BY <1>1 DEF DeskInv, LotsCovered
  <2>3. \A b \in Blind(os) : b.side = "sell" => b.quantity = lots[b.strategy][b.symbol]
    BY <1>3, <2>2
  <2> QED
    BY <1>2, <2>1, <2>3 DEF LotsCovered, OnePerLot
<1>5. (\A o \in orders : VerdictStands(o))'
  BY <1>2, <1>3 DEF VerdictStands
<1> QED
  BY <1>4, <1>5

\* Steps that leave the account, the prices and the selector alone.
LEMMA QuietDesk ==
    ASSUME DeskInv, UNCHANGED <<selector, account, price>>
    PROVE  LotsCovered' /\ (\A o \in orders : VerdictStands(o))'
<1>1. UNCHANGED <<selector, cash, lots, orders, price>>
  BY DEF account
<1> QED
  BY <1>1 DEF DeskInv, LotsCovered, OnePerLot, VerdictStands, Fits, PortfolioValue, Invested, Shares, Limits

LEMMA PlacedTypes ==
    ASSUME DeskInv, NEW s \in Traders, NEW intent \in Wanted(s), Place(s, intent)
    PROVE  /\ DeskTypes' /\ intent.symbol \in Tickers /\ intent.quantity \in Nat
           /\ intent.side \in {"buy", "sell"}
           /\ intent.side = "sell" => intent.quantity = lots[s][intent.symbol]
<1>1. /\ intent.symbol \in Tickers /\ intent.quantity \in Nat
      /\ intent.side \in {"buy", "sell"}
      /\ intent.side = "sell" => intent.quantity = lots[s][intent.symbol]
  BY DeskAssumption DEF Wanted, Intent, Exit, DeskInv, DeskTypes
<1>2. PICK o : o = [id |-> spent.orders, strategy |-> s, symbol |-> intent.symbol,
            side |-> intent.side, quantity |-> intent.quantity,
            blind |-> \E q \in orders : q.side = "buy"]
  OBVIOUS
<1>3. (\E q \in orders : q.side = "buy") \in BOOLEAN
  BY Zenon
<1>4. o \in PendingOrders
  <2>1. spent.orders \in Nat
    BY DEF DeskInv, DeskTypes
  <2> QED
    BY <1>1, <1>2, <1>3, <2>1, Zenon DEF PendingOrders
<1>5. \A b \in Blind(orders) : b \in PendingOrders
  <2>1. PICK os : os = orders
    OBVIOUS
  <2>2. \A b \in Blind(os) : b \in PendingOrders
    BY <2>1, BlindKeeps DEF DeskInv, DeskTypes
  <2> QED
    BY <2>1, <2>2
<1>6. orders' \subseteq PendingOrders
  BY <1>2, <1>4, <1>5 DEF Place, DeskInv, DeskTypes
<1>7. spent' \in [orders : Nat, moves : Nat, switches : Nat]
  BY DEF Place, Spend, DeskInv, DeskTypes
<1> QED
  BY <1>1, <1>6, <1>7 DEF Place, DeskInv, DeskTypes

LEMMA PlacedVerdict ==
    ASSUME DeskInv, NEW s \in Traders, NEW intent \in Wanted(s), Place(s, intent)
    PROVE  DeskInv'
<1>1. PICK o : o = [id |-> spent.orders, strategy |-> s, symbol |-> intent.symbol,
            side |-> intent.side, quantity |-> intent.quantity,
            blind |-> \E q \in orders : q.side = "buy"]
  OBVIOUS
<1>2. PICK os : os = orders
  OBVIOUS
<1>3. PICK blinded : blinded = IF intent.side = "buy" THEN Blind(os) ELSE os
  OBVIOUS
<1>4. orders' = blinded \cup {o}
  BY <1>1, <1>2, <1>3 DEF Place
<1>5. /\ o.strategy = s /\ o.symbol = intent.symbol /\ o.side = intent.side
      /\ o.quantity = intent.quantity
  BY <1>1
<1>6. o.blind <=> \E q \in os : q.side = "buy"
  BY <1>1, <1>2, Zenon
<1>7. os \in SUBSET PendingOrders
  BY <1>2 DEF DeskInv, DeskTypes
<1>8. \A b \in blinded : \E q \in os : /\ b = q \/ b = [q EXCEPT !.blind = TRUE]
                            /\ b.strategy = q.strategy /\ b.symbol = q.symbol
                            /\ b.side = q.side /\ b.quantity = q.quantity
  BY <1>3, <1>7, BlindKeeps
<1>9. \A q \in os : ~(q.strategy = s /\ q.symbol = intent.symbol)
  BY <1>2 DEF Place, Waiting
<1>10. UNCHANGED <<lots, price, cash, selector>>
  BY DEF Place, profile
<1>11. LotsCovered'
  <2>1. OnePerLot(blinded)
    BY <1>2, <1>3, <1>7, BlindOnePerLot DEF DeskInv, LotsCovered
  <2>2. \A a, b \in orders' : a.strategy = b.strategy /\ a.symbol = b.symbol => a = b
    BY <1>4, <1>5, <1>8, <1>9, <2>1 DEF OnePerLot
  <2>3. \A b \in orders' : b.side = "sell" => b.quantity = lots[b.strategy][b.symbol]
    BY <1>2, <1>4, <1>5, <1>8, PlacedTypes DEF DeskInv, LotsCovered
  <2> QED
    BY <1>10, <2>2, <2>3 DEF LotsCovered, OnePerLot
<1>12. /\ Limits' = Limits /\ PortfolioValue' = PortfolioValue /\ Invested' = Invested
  BY <1>10 DEF Limits, PortfolioValue, Invested, Shares
<1>13. ASSUME NEW b \in orders' PROVE VerdictStands(b)'
  <2>1. CASE intent.side = "buy"
    <3>1. \A a \in blinded : a.blind
      BY <1>3, <1>7, <2>1, BlindKeeps
    <3>2. CASE b = o
      <4>1. SUFFICES ASSUME ~o.blind
                     PROVE  /\ \A q \in orders' : q.side = "buy" => q = o
                            /\ Limits # None /\ Fits(o)
        BY <1>10, <1>12, <3>2 DEF VerdictStands, Fits
      <4>2. \A a \in blinded : a.side # "buy"
        BY <1>6, <1>8, <4>1
      <4>3. PICK c : c = Context(s, intent)
        OBVIOUS
      <4>4. Limits # None /\ Allowed(c)
        BY <4>3 DEF Place
      <4>5. /\ c.intent = intent /\ c.price = price[intent.symbol]
            /\ c.limits = Limits /\ c.portfolioValue = PortfolioValue
        BY <4>3 DEF Context
      <4>6. TotalExposure(c) /\ Buys(c)
        BY <2>1, <4>4, <4>5, AllowedMeetsExposure DEF Buys
      <4>7. Within(c, Exposure(c) + OrderNotional(c), Limits.exposurePct)
        BY <4>5, <4>6 DEF TotalExposure, IsExposureIncreasing, Projected
      <4>8. Exposure(c) = Invested
        <5>1. /\ c.positions =
                [y \in Tickers |-> [quantity |-> Shares(y), value |-> Shares(y) * price[y]]]
              /\ c.orders =
                {[symbol |-> q.symbol, side |-> q.side, remaining |-> None] : q \in orders}
          BY <4>3, ContextFields
        <5>2. DeskTypes
          BY DEF DeskInv
        <5> QED
          BY <5>1, <5>2, ExposureIsInvested
      <4>9. OrderNotional(c) = price[o.symbol] * o.quantity
        BY <1>5, <4>5 DEF OrderNotional
      <4>10. price[o.symbol] * o.quantity = o.quantity * price[o.symbol]
        <5>1. intent.symbol \in Tickers /\ intent.quantity \in Nat
          BY PlacedTypes
        <5>2. price[intent.symbol] \in Nat
          BY <5>1, PricesCount DEF DeskInv
        <5> QED
          BY <1>5, <5>1, <5>2
      <4>11. Fits(o)
        BY <4>5, <4>7, <4>8, <4>9, <4>10 DEF Within, Fits
      <4> QED
        BY <1>4, <4>2, <4>4, <4>11
    <3> QED
      BY <1>4, <3>1, <3>2 DEF VerdictStands
  <2>2. CASE intent.side # "buy"
    <3>1. blinded = os
      BY <1>3, <2>2
    <3>2. b # o => VerdictStands(b)
      BY <1>2, <1>4, <3>1 DEF DeskInv
    <3> QED
      BY <1>2, <1>4, <1>5, <1>10, <1>12, <2>2, <3>1, <3>2 DEF VerdictStands, Fits
  <2> QED
    BY <2>1, <2>2
<1> QED
  BY <1>11, <1>13, PlacedTypes DEF DeskInv

-----------------------------------------------------------------------------

Signed(o) == IF o.side = "buy" THEN o.quantity ELSE -o.quantity

LEMMA FilledLots ==
    ASSUME DeskInv, NEW o \in orders, Filled(o)
    PROVE  /\ DeskTypes' /\ o \in PendingOrders
           /\ \A s \in Traders, y \in Tickers :
                 lots'[s][y] = IF s = o.strategy /\ y = o.symbol THEN lots[s][y] + Signed(o)
                               ELSE lots[s][y]
<1>1. o \in PendingOrders
  BY DEF DeskInv, DeskTypes
<1>2. o.side = "sell" => o.quantity = lots[o.strategy][o.symbol]
  BY DEF DeskInv, LotsCovered
<1>3. lots[o.strategy][o.symbol] + Signed(o) \in Nat
  BY <1>1, <1>2 DEF Signed, PendingOrders, DeskInv, DeskTypes
<1>4. lots' = [lots EXCEPT ![o.strategy][o.symbol] = @ + Signed(o)]
  BY DEF Filled, Signed
<1>5. lots' \in [Traders -> [Tickers -> Nat]]
  BY <1>1, <1>3, <1>4 DEF PendingOrders, DeskInv, DeskTypes
<1>6. \A s \in Traders, y \in Tickers :
                 lots'[s][y] = IF s = o.strategy /\ y = o.symbol THEN lots[s][y] + Signed(o)
                               ELSE lots[s][y]
  BY <1>1, <1>4 DEF PendingOrders, DeskInv, DeskTypes
<1>7. cash' = cash - Signed(o) * price[o.symbol]
  BY DEF Filled, Signed
<1>8. Signed(o) \in Int /\ price[o.symbol] \in Nat
  <2>1. o.quantity \in Nat /\ o.symbol \in Tickers
    BY <1>1 DEF PendingOrders
  <2> QED
    BY <2>1, PricesCount DEF Signed, DeskInv
<1>9. cash' \in Int
  BY <1>7, <1>8 DEF DeskInv, DeskTypes
<1> QED
  BY <1>1, <1>5, <1>6, <1>9 DEF Filled, DeskInv, DeskTypes

\* A fill turns cash into stock, or back, at one price.
LEMMA FilledValue ==
    ASSUME DeskInv, NEW o \in orders, Filled(o)
    PROVE  /\ Invested' = Invested + Signed(o) * price[o.symbol]
           /\ PortfolioValue' = PortfolioValue
<1>0. PICK y, s, d, p : y = o.symbol /\ s = o.strategy /\ d = Signed(o) /\ p = price[o.symbol]
  OBVIOUS
<1>1. y \in Tickers /\ s \in Traders /\ d \in Int /\ p \in Nat
  BY <1>0, FilledLots, DeskAssumption DEF Signed, PendingOrders, DeskInv, DeskTypes
<1>2. DeskTypes /\ DeskTypes' /\ price' = price
  BY FilledLots DEF DeskInv, Filled
<1>3. \A z \in Tickers \ {y} : Shares(z)' = Shares(z)
  <2> SUFFICES ASSUME NEW z \in Tickers \ {y} PROVE Shares(z)' = Shares(z)
    OBVIOUS
  <2>1. [t \in Traders |-> lots'[t][z]] = [t \in Traders |-> lots[t][z]]
    BY <1>0, FilledLots
  <2> QED
    BY <2>1 DEF Shares
<1>4. Shares(y)' = Shares(y) + d
  <2>1. PICK f, h : f = [t \in Traders |-> lots[t][y]] /\ h = [t \in Traders |-> lots'[t][y]]
    OBVIOUS
  <2>2. f \in [Traders -> Int] /\ h \in [Traders -> Int]
    BY <1>1, <1>2, <2>1 DEF DeskTypes
  <2>3. h[s] = f[s] + d /\ \A t \in Traders : t # s => h[t] = f[t]
    BY <1>0, <1>1, <2>1, FilledLots
  <2>4. SumFunction(h) = SumFunction(f) + d
    BY <1>1, <2>2, <2>3, SumChanges, DeskAssumption
  <2>5. SumFunction(f) \in Int /\ Elsewhere[y] \in Int
    BY <1>1, <2>2, SumIsInt, DeskAssumption
  <2>6. Elsewhere[y] + (SumFunction(f) + d) = (Elsewhere[y] + SumFunction(f)) + d
    BY <1>1, <2>5
  <2> QED
    BY <2>1, <2>4, <2>6 DEF Shares
<1>5. Invested' = Invested + d * p
  <2>1. PICK f, h : /\ f = [z \in Tickers |-> Shares(z) * price[z]]
                    /\ h = [z \in Tickers |-> Shares(z)' * price[z]]
    OBVIOUS
  <2>2. \A z \in Tickers : price[z] \in Nat /\ Shares(z) \in Int
    <3>1. \A z \in Tickers : Shares(z) \in Int
      BY <1>2, SharesCount DEF DeskTypes
    <3> QED
      BY <1>2, <3>1, PricesCount
  <2>3. \A z \in Tickers : Shares(z)' \in Int
    BY <1>1, <1>3, <1>4, <2>2
  <2>4. f \in [Tickers -> Int] /\ h \in [Tickers -> Int]
    BY <2>1, <2>2, <2>3
  <2>5. h[y] = f[y] + d * p
    <3>1. h[y] = (Shares(y) + d) * p /\ f[y] = Shares(y) * p
      BY <1>0, <1>1, <1>4, <2>1
    <3>2. PICK n \in Int : n = Shares(y)
      BY <1>1, <2>2
    <3>3. (n + d) * p = n * p + d * p
      BY <1>1, <3>2
    <3> QED
      BY <3>1, <3>2, <3>3
  <2>6. \A z \in Tickers : z # y => h[z] = f[z]
    BY <1>3, <2>1
  <2>7. d * p \in Int
    BY <1>1
  <2>8. SumFunction(h) = SumFunction(f) + d * p
    BY <1>1, <2>4, <2>5, <2>6, <2>7, SumChanges, DeskAssumption
  <2> QED
    BY <1>2, <2>1, <2>8 DEF Invested
<1>6. cash' = cash - d * p
  BY <1>0 DEF Filled, Signed
<1>7. PortfolioValue' = PortfolioValue
  <2>1. PICK n, m, k : n = Invested /\ m = cash /\ k = d * p
    OBVIOUS
  <2>2. n \in Int /\ m \in Int /\ k \in Int
    BY <1>1, <1>2, <2>1, AccountIsNumber DEF DeskTypes
  <2>3. (m - k) + (n + k) = m + n
    BY <2>2
  <2> QED
    BY <1>5, <1>6, <2>1, <2>3 DEF PortfolioValue
<1> QED
  BY <1>0, <1>5, <1>7

LEMMA FilledDesk ==
    ASSUME DeskInv, NEW o \in orders, Filled(o)
    PROVE  DeskInv'
<1>1. DeskTypes' /\ o \in PendingOrders
  BY FilledLots
<1>2. orders' = orders \ {o} /\ price' = price /\ Limits' = Limits
  BY DEF Filled, profile, Limits
<1>3. LotsCovered'
  <2>1. \A a, b \in orders' : a.strategy = b.strategy /\ a.symbol = b.symbol => a = b
    BY <1>2 DEF DeskInv, LotsCovered, OnePerLot
  <2>2. ASSUME NEW b \in orders', b.side = "sell"
        PROVE  b.quantity = lots'[b.strategy][b.symbol]
    <3>1. b \in orders /\ b # o /\ b \in PendingOrders
      BY <1>2 DEF DeskInv, DeskTypes
    <3>2. ~(b.strategy = o.strategy /\ b.symbol = o.symbol)
      BY <3>1 DEF DeskInv, LotsCovered, OnePerLot
    <3>3. b.strategy \in Traders /\ b.symbol \in Tickers
      BY <3>1 DEF PendingOrders
    <3>4. lots'[b.strategy][b.symbol] = lots[b.strategy][b.symbol]
      BY <3>2, <3>3, FilledLots
    <3> QED
      BY <2>2, <3>1, <3>4 DEF DeskInv, LotsCovered
  <2> QED
    BY <2>1, <2>2 DEF LotsCovered, OnePerLot
<1>4. ASSUME NEW b \in orders' PROVE VerdictStands(b)'
  <2>1. SUFFICES ASSUME b.side = "buy", ~b.blind
                 PROVE  /\ \A q \in orders' : q.side = "buy" => q = b
                        /\ Limits # None /\ Fits(b)'
    BY <1>2 DEF VerdictStands
  <2>2. b \in orders /\ b # o /\ VerdictStands(b)
    BY <1>2 DEF DeskInv
  <2>3. /\ \A q \in orders : q.side = "buy" => q = b
        /\ Limits # None /\ Fits(b)
    BY <2>1, <2>2 DEF VerdictStands
  <2>4. o.side = "sell"
    BY <1>1, <2>2, <2>3 DEF PendingOrders
  <2>5. PICK n, v, x, k, r : /\ n = Invested /\ v = PortfolioValue * Limits.exposurePct
                          /\ x = b.quantity * price[b.symbol]
                          /\ k = o.quantity /\ r = price[o.symbol]
    OBVIOUS
  <2>6. /\ n \in Int /\ v \in Int /\ x \in Int /\ k \in Nat /\ r \in Nat
    <3>1. b \in PendingOrders
      BY <2>2 DEF DeskInv, DeskTypes
    <3>2. Limits.exposurePct \in Int
      BY <2>3, CapIsNumber DEF Limits
    <3>3. \A y \in Tickers : price[y] \in Nat
      BY DeskAssumption DEF DeskInv, DeskTypes
    <3>4. Invested \in Int /\ PortfolioValue \in Int
      BY AccountIsNumber DEF DeskInv
    <3> QED
      BY <1>1, <2>5, <3>1, <3>2, <3>3, <3>4 DEF PendingOrders
  <2>7. (n + x) * 100 <= v
    BY <2>3, <2>5 DEF Fits
  <2>8. (n + (-k) * r + x) * 100 <= v
    <3>1. k * r \in Nat /\ (-k) * r = -(k * r)
      BY <2>6
    <3>2. PICK w \in Nat : w = k * r
      BY <3>1
    <3>3. (n + (-w) + x) * 100 <= (n + x) * 100
      BY <2>6, <3>2
    <3>4. (n + (-w) + x) * 100 <= v
      BY <2>6, <2>7, <3>3
    <3> QED
      BY <3>1, <3>2, <3>4
  <2>9. Invested' = n + (-k) * r /\ PortfolioValue' = PortfolioValue
    BY <2>4, <2>5, FilledValue DEF Signed
  <2>10. Fits(b)'
    BY <1>2, <2>5, <2>8, <2>9 DEF Fits
  <2> QED
    BY <1>2, <2>3, <2>10
<1> QED
  BY <1>1, <1>3, <1>4 DEF DeskInv

-----------------------------------------------------------------------------
(* Every step of the desk                                                  *)

LEMMA DeskStarts == DeskInit => DeskInv
<1> SUFFICES ASSUME DeskInit PROVE DeskInv
  OBVIOUS
<1>1. DeskTypes
  <2>1. lots \in [Traders -> [Tickers -> Nat]] /\ price \in [Tickers -> Prices]
    BY DEF DeskInit
  <2>2. cash \in Int
    BY <2>1, InvestedIsNumber, DeskAssumption DEF DeskInit
  <2> QED
    BY <2>1, <2>2 DEF DeskInit, DeskTypes
<1>2. orders = {}
  BY DEF DeskInit
<1> QED
  BY <1>1, <1>2 DEF DeskInv, LotsCovered, OnePerLot

LEMMA MovedTypes ==
    ASSUME DeskInv, NEW y \in Tickers, NEW to \in Prices, MovePrice(y, to)
    PROVE  DeskInv'
<1>1. orders' = Blind(orders) /\ UNCHANGED <<lots, cash>>
  BY DEF MovePrice
<1>2. orders' \subseteq PendingOrders
  <2>1. PICK os : os = orders
    OBVIOUS
  <2>2. \A b \in Blind(os) : b \in PendingOrders
    BY <2>1, BlindKeeps DEF DeskInv, DeskTypes
  <2> QED
    BY <1>1, <2>1, <2>2
<1>3. price' \in [Tickers -> Prices]
  BY DEF MovePrice, DeskInv, DeskTypes
<1>4. spent' \in [orders : Nat, moves : Nat, switches : Nat]
  BY DEF MovePrice, Spend, DeskInv, DeskTypes
<1>5. DeskTypes'
  BY <1>1, <1>2, <1>3, <1>4 DEF DeskInv, DeskTypes
<1> QED
  BY <1>1, <1>5, BlindedDesk DEF DeskInv

LEMMA SelectedDesk ==
    ASSUME DeskInv, NEW name, WriteProfileFile \/ HandEdit(name)
    PROVE  DeskInv'
<1>1. orders' = Blind(orders) /\ UNCHANGED <<lots, cash, price>>
  BY DEF WriteProfileFile, HandEdit
<1>2. orders' \subseteq PendingOrders
  <2>1. PICK os : os = orders
    OBVIOUS
  <2>2. \A b \in Blind(os) : b \in PendingOrders
    BY <2>1, BlindKeeps DEF DeskInv, DeskTypes
  <2> QED
    BY <1>1, <2>1, <2>2
<1>3. spent' \in [orders : Nat, moves : Nat, switches : Nat]
  BY DEF WriteProfileFile, HandEdit, Spend, DeskInv, DeskTypes
<1>4. DeskTypes'
  BY <1>1, <1>2, <1>3 DEF DeskInv, DeskTypes
<1> QED
  BY <1>1, <1>4, BlindedDesk DEF DeskInv

LEMMA TrippedDesk ==
    ASSUME DeskInv, NEW s, NEW intent, Trip(s, intent)
    PROVE  DeskInv'
<1>1. orders' = {} /\ UNCHANGED <<lots, cash, price, spent>>
  BY DEF Trip
<1>2. DeskTypes'
  BY <1>1 DEF DeskInv, DeskTypes
<1> QED
  BY <1>1, <1>2 DEF DeskInv, LotsCovered, OnePerLot

LEMMA QuietInv ==
    ASSUME DeskInv, UNCHANGED <<selector, account, price>>,
           spent' \in [orders : Nat, moves : Nat, switches : Nat]
    PROVE  DeskInv'
<1>1. DeskTypes'
  BY DEF DeskInv, DeskTypes, account
<1> QED
  BY <1>1, QuietDesk DEF DeskInv

\* What fills as it was judged is within the cap.
LEMMA SightedFill ==
    ASSUME DeskInv, NEW o \in orders, Filled(o), o.side = "buy", ~o.blind
    PROVE  Invested' * 100 <= PortfolioValue' * Limits'.exposurePct
<1>1. Fits(o)
  BY DEF DeskInv, VerdictStands
<1>2. Invested' = Invested + o.quantity * price[o.symbol] /\ PortfolioValue' = PortfolioValue
  BY FilledValue DEF Signed
<1>3. Limits' = Limits
  BY DEF Filled, profile, Limits
<1> QED
  BY <1>1, <1>2, <1>3 DEF Fits

LEMMA DeskStep == DeskInv /\ [DeskNext]_deskVars => DeskInv'
<1> SUFFICES ASSUME DeskInv, [DeskNext]_deskVars PROVE DeskInv'
  OBVIOUS
<1>t. spent \in [orders : Nat, moves : Nat, switches : Nat]
  BY DEF DeskInv, DeskTypes
<1>1. ASSUME NEW s \in Traders, NEW intent \in Wanted(s), Place(s, intent) PROVE DeskInv'
  BY <1>1, PlacedVerdict
<1>2. ASSUME NEW s \in Traders, NEW intent \in Wanted(s), Trip(s, intent) PROVE DeskInv'
  BY <1>2, TrippedDesk
<1>3. ASSUME NEW s \in Traders, StartRunner(s) \/ StopRunner(s) PROVE DeskInv'
  BY <1>3, <1>t, QuietInv DEF StartRunner, StopRunner, profile
<1>4. ASSUME NEW o \in orders, Filled(o) PROVE DeskInv'
  BY <1>4, FilledDesk
<1>5. ASSUME NEW y \in Tickers, NEW to \in Prices, MovePrice(y, to) PROVE DeskInv'
  BY <1>5, MovedTypes
<1>6. ASSUME NEW p \in Profiles, AttemptSwitch(p) PROVE DeskInv'
  <2>1. UNCHANGED <<selector, account, price>>
    BY <1>6 DEF AttemptSwitch
  <2>2. spent' \in [orders : Nat, moves : Nat, switches : Nat]
    BY <1>6, <1>t DEF AttemptSwitch, Spend
  <2> QED
    BY <2>1, <2>2, QuietInv
<1>7. ASSUME NEW name, HandEdit(name) \/ WriteProfileFile PROVE DeskInv'
  BY <1>7, SelectedDesk
<1>8. CASE Audit \/ GuiDies \/ ResetKillSwitch
  <2>1. UNCHANGED <<selector, account, price>> /\ spent' = spent
    BY <1>8 DEF Audit, GuiDies, ResetKillSwitch, profile
  <2> QED
    BY <1>t, <2>1, QuietInv
<1>9. CASE UNCHANGED deskVars
  <2>1. UNCHANGED <<selector, account, price>> /\ spent' = spent
    BY <1>9 DEF deskVars, profile
  <2> QED
    BY <1>t, <2>1, QuietInv
<1> QED
  BY <1>1, <1>2, <1>3, <1>4, <1>5, <1>6, <1>7, <1>8, <1>9 DEF DeskNext

LEMMA DeskInvariant == DeskSpec => []DeskInv
  BY DeskStarts, DeskStep, PTL DEF DeskSpec

\* ExitsPassCaps: whoever trades what, whatever the account holds elsewhere and
\* however many lots of one symbol the strategies hold, no cap on money and no
\* unreconciled account stops the exit of a held lot that the broker's net
\* position covers, under any profile and at any prices.
THEOREM ExitsAlwaysPassCaps == DeskSpec => []ExitsPassCaps
<1>1. DeskInv => ExitsPassCaps
  <2> SUFFICES ASSUME DeskInv, NEW h \in Held, lots[h[1]][h[2]] <= Shares(h[2])
               PROVE  Failing([Context(h[1], Exit(h[1], h[2])) EXCEPT !.ready = FALSE])
                          \cap {"order_value", "single_position_limit", "total_exposure",
                                "reconciliation_readiness"} = {}
    BY DEF ExitsPassCaps
  <2>1. h[1] \in Traders /\ h[2] \in Tickers
    BY DEF Held
  <2> QED
    BY <2>1, HeldExitPasses DEF DeskInv
<1> QED
  BY <1>1, DeskInvariant, PTL

\* FillsWithinExposure: a buy whose verdict nothing has overtaken is the only
\* one pending, and its fill leaves the account within the exposure cap; what
\* the other orders do meanwhile is sell, which lowers what is invested.
THEOREM SightedFillsFit == DeskSpec => FillsWithinExposure
<1>1. ASSUME DeskInv, [DeskNext]_deskVars, NEW o \in orders,
             o.side = "buy", ~o.blind, lots' # lots, orders' = orders \ {o}
      PROVE  Invested' * 100 <= PortfolioValue' * Limits'.exposurePct
  <2>1. \E q \in orders : Filled(q)
    BY <1>1 DEF DeskNext, Place, Trip, StartRunner, StopRunner, MovePrice, AttemptSwitch,
                HandEdit, WriteProfileFile, Audit, GuiDies, ResetKillSwitch, deskVars, account
  <2>2. Filled(o)
    BY <1>1, <2>1 DEF Filled
  <2> QED
    BY <1>1, <2>2, SightedFill
<1>2. DeskInv /\ [DeskNext]_deskVars =>
        \A o \in orders :
          o.side = "buy" /\ ~o.blind /\ lots' # lots /\ orders' = orders \ {o} =>
              Invested' * 100 <= PortfolioValue' * Limits'.exposurePct
  BY <1>1
<1> QED
  BY <1>2, DeskInvariant, PTL DEF DeskSpec, FillsWithinExposure
=============================================================================
