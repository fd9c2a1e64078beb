-------------------------- MODULE SubmitPathProofs --------------------------
(***************************************************************************)
(* Safety of the order path for any number of processes, operators,        *)
(* symbols, intents and orders, with crashes at every step: the outbox     *)
(* knows every order, no unrejected order is repeated inside the duplicate *)
(* window, trade rows agree with the outbox, a trip of the kill switch     *)
(* lets at most one more order through, and the position cap and the rule  *)
(* against wash trades hold for as long as no order lands or fills behind  *)
(* a snapshot.                                                             *)
(***************************************************************************)
EXTENDS SubmitPath, FiniteSetTheorems, TLAPS

Outside == {"idle", "acquire", "dead"}

-----------------------------------------------------------------------------
(* Type correctness                                                        *)

LEMMA InitTypes == Init => TypeOK
<1> SUFFICES ASSUME Init PROVE TypeOK
  OBVIOUS
<1> USE SubmitPathAssumption DEF Init
<1>1. NoView \in Views
  BY DEF NoView, Views
<1>2. NoCur \in Locals
  BY <1>1 DEF NoCur, Locals, AttemptStatus
<1>3. cur \in [Procs -> Locals] /\ pc \in [Procs -> Steps]
  BY <1>2 DEF Steps
<1>4. /\ attempt \in [Ids -> AttemptStatus]
      /\ intentOf \in [Ids -> Intents \cup {NoIntent}]
      /\ recent \in [Ids -> BOOLEAN]
      /\ trade \in [Ids -> {"none", "submitted", "rejected"}]
      /\ order \in [Ids -> OrderStatus]
      /\ pos \in [Symbols -> Int]
  BY DEF AttemptStatus, OrderStatus
<1> QED
  BY <1>3, <1>4 DEF TypeOK

LEMMA EmptyLocals == NoView \in Views /\ NoCur \in Locals
<1>1. NoView \in Views
  BY DEF NoView, Views
<1> QED
  BY <1>1 DEF NoCur, Locals, AttemptStatus

LEMMA LocalUpdate ==
    ASSUME TypeOK, NEW p \in Procs, NEW c \in Locals, cur' = [cur EXCEPT ![p] = c]
    PROVE  cur' \in [Procs -> Locals]
  BY DEF TypeOK

-----------------------------------------------------------------------------
(* The inductive invariant                                                 *)

\* The process that holds the submit lock is the only one in the section.
SectionInv == \A p \in Procs : pc[p] \notin Outside <=> submitLock = p

IntentInv == \A p \in Procs : pc[p] \notin {"idle", "dead"} => cur[p].intent \in Intents

\* From the outbox append to the trade row, the attempt a process works on is
\* its own: nothing else moves it on.
AttemptInv ==
    \A p \in Procs : pc[p] \in {"send", "sent", "finalize", "record"} =>
        /\ cur[p].id \in Ids
        /\ trade[cur[p].id] = "none"
        /\ pc[p] # "record" => attempt[cur[p].id] = "pending"
        /\ pc[p] = "send" => order[cur[p].id] = "none"
        /\ pc[p] \in {"finalize", "record"} =>
               /\ cur[p].outcome \in {"submitted", "rejected", "error"}
               /\ cur[p].outcome = "submitted" => Landed(cur[p].id)
        /\ pc[p] = "record" => /\ attempt[cur[p].id] = cur[p].outcome
                               /\ cur[p].outcome # "error"

\* An unused client_order_id is unknown everywhere.
RowInv ==
    \A id \in Ids : IF attempt[id] = "none"
                    THEN order[id] = "none" /\ trade[id] = "none" /\ ~recent[id]
                    ELSE intentOf[id] \in Intents

\* The duplicate check still holds when the outbox row is appended ...
NotDuplicateInv == \A p \in Procs : pc[p] = "append" => ~Duplicate(cur[p].intent)

\* ... and so do its consequences for every pair of rows in the window.
WindowInv ==
    \A i, j \in Ids :
        i # j /\ intentOf[i] = intentOf[j] /\ recent[i] /\ recent[j]
            => "rejected" \in {attempt[i], attempt[j]}

\* Who passed the kill-switch check before a trip has not sent yet, or is the
\* one straggler.
StragglerInv ==
    killed => /\ \A i, j \in late : i = j
              /\ \A p \in Procs : pc[p] \in {"append", "send"} => late = {}

IInv == /\ TypeOK /\ SectionInv /\ IntentInv /\ AttemptInv /\ RowInv
        /\ TradeFollowsAttempt /\ NotDuplicateInv /\ WindowInv /\ StragglerInv

LEMMA InitIInv == Init => IInv
<1> SUFFICES ASSUME Init PROVE IInv
  OBVIOUS
<1>1. TypeOK
  BY InitTypes
<1> QED
  BY <1>1, SubmitPathAssumption
     DEF Init, IInv, SectionInv, IntentInv, AttemptInv, RowInv,
         TradeFollowsAttempt, NotDuplicateInv, WindowInv, StragglerInv, Outside

LEMMA IInvImplies ==
    IInv => /\ TypeOK /\ OutboxFirst /\ NoDuplicateInWindow
            /\ TradeFollowsAttempt /\ AtMostOneStraggler
  BY DEF IInv, RowInv, WindowInv, StragglerInv, TypeOK, OutboxFirst,
         NoDuplicateInWindow, AtMostOneStraggler

-----------------------------------------------------------------------------
(* Each step keeps it                                                      *)

LEMMA SnapshotTypes ==
    ASSUME IInv, NEW p \in Procs, ReadPositions(p) \/ ReadOrders(p)
    PROVE  cur' \in [Procs -> Locals]
<1>1. cur[p] \in Locals /\ cur[p].view \in Views
  BY DEF IInv, TypeOK, Locals
<1>2. CASE ReadPositions(p)
  <2>1. PICK b \in BOOLEAN :
            cur' = [cur EXCEPT ![p].view.pos = pos, ![p].view.breach = b]
    BY <1>2 DEF ReadPositions
  <2>2. pos \in [Symbols -> Int]
    BY DEF IInv, TypeOK
  <2>3. [[cur[p] EXCEPT !.view.pos = pos] EXCEPT !.view.breach = b] \in Locals
    BY <1>1, <2>2 DEF Locals, Views
  <2> QED
    BY <2>1, <2>3 DEF IInv, TypeOK
<1>3. CASE ReadOrders(p)
  <2> DEFINE seen == {<<intentOf[id].symbol, intentOf[id].side>> : id \in Open}
  <2>1. \A id \in Open : intentOf[id] \in [strategy : Strategies,
                                           symbol : Symbols, side : Sides]
    BY SubmitPathAssumption DEF IInv, RowInv, Open
  <2>2. seen \subseteq Symbols \X Sides
    BY <2>1
  <2>3. [cur[p] EXCEPT !.view.open = seen] \in Locals
    BY <1>1, <2>2 DEF Locals, Views
  <2>4. cur' = [cur EXCEPT ![p].view.open = seen]
    BY <1>3 DEF ReadOrders
  <2> QED
    BY <2>3, <2>4 DEF IInv, TypeOK
<1> QED
  BY <1>2, <1>3

\* The locals stay well-typed ...
LEMMA LocalTypes ==
    ASSUME IInv, [Next]_vars
    PROVE  cur' \in [Procs -> Locals]
<1> USE DEF IInv
<1>1. cur \in [Procs -> Locals]
  BY DEF TypeOK
<1>2. ASSUME NEW p \in Procs, NEW i \in Intents, Submit(p, i)
      PROVE  cur' \in [Procs -> Locals]
  <2>1. [cur[p] EXCEPT !.intent = i] \in Locals
    BY <1>1 DEF Locals
  <2>2. cur' = [cur EXCEPT ![p] = [cur[p] EXCEPT !.intent = i]]
    BY <1>2 DEF Submit
  <2> QED
    BY <2>1, <2>2, LocalUpdate
<1>3. ASSUME NEW p \in Procs, Allow(p) \/ Veto(p)
      PROVE  cur' \in [Procs -> Locals]
  <2>1. [cur[p] EXCEPT !.view = NoView] \in Locals
    BY <1>1, EmptyLocals DEF Locals
  <2>2. cur' = [cur EXCEPT ![p] = [cur[p] EXCEPT !.view = NoView]]
    BY <1>3 DEF Allow, Veto
  <2> QED
    BY <2>1, <2>2, LocalUpdate
<1>4. ASSUME NEW p \in Procs, AppendAttempt(p)
      PROVE  cur' \in [Procs -> Locals]
  <2>1. PICK id \in Ids : cur' = [cur EXCEPT ![p].id = id]
    BY <1>4 DEF AppendAttempt
  <2>2. [cur[p] EXCEPT !.id = id] \in Locals
    BY <1>1 DEF Locals
  <2> QED
    BY <2>1, <2>2, LocalUpdate
<1>5. ASSUME NEW p \in Procs, NEW outcome \in {"submitted", "rejected", "error"},
             Answer(p, outcome)
      PROVE  cur' \in [Procs -> Locals]
  <2>1. [cur[p] EXCEPT !.outcome = outcome] \in Locals
    BY <1>1 DEF Locals, AttemptStatus
  <2>2. cur' = [cur EXCEPT ![p] = [cur[p] EXCEPT !.outcome = outcome]]
    BY <1>5 DEF Answer
  <2> QED
    BY <2>1, <2>2, LocalUpdate
<1>6. ASSUME NEW p \in Procs, LockTimeout(p) \/ ReleaseLock(p) \/ Crash(p)
      PROVE  cur' \in [Procs -> Locals]
  <2>1. cur' = [cur EXCEPT ![p] = NoCur]
    BY <1>6 DEF LockTimeout, ReleaseLock, Crash
  <2> QED
    BY <2>1, EmptyLocals, LocalUpdate
<1>7. CASE UNCHANGED cur
  BY <1>1, <1>7
<1>8. ASSUME NEW p \in Procs,
             \/ AcquireLock(p) \/ SendOrder(p) \/ Finalize(p) \/ Record(p)
             \/ HaltCancel(p) \/ HaltFlip(p) \/ Restart(p)
      PROVE  UNCHANGED cur
  BY <1>8 DEF AcquireLock, SendOrder, Finalize, Record, HaltCancel, HaltFlip, Restart
<1>9. ASSUME NEW id \in Ids,
             Arrive(id) \/ Fill(id) \/ CloseOrder(id) \/ WindowPasses(id)
      PROVE  UNCHANGED cur
  BY <1>9 DEF Arrive, Fill, CloseOrder, WindowPasses, local
<1>10. ASSUME NEW o \in Operators, Operator(o)
       PROVE  UNCHANGED cur
  BY <1>10 DEF Operator, OperatorCancel, OperatorFlip, OperatorReset, local
<1>11. CASE UNCHANGED vars
  BY <1>1, <1>11 DEF vars, local
<1> QED
  BY <1>2, <1>3, <1>4, <1>5, <1>6, <1>7, <1>8, <1>9, <1>10, <1>11, SnapshotTypes
     DEF Next, Evaluate, CallBroker, Halt, Broker

\* ... and so does everything else.
LEMMA StepTypes == IInv /\ [Next]_vars => TypeOK'
<1> SUFFICES ASSUME IInv, [Next]_vars PROVE TypeOK'
  OBVIOUS
<1> USE DEF TypeOK, Goto, Steps, IInv, local, store, broker, switch
<1>0. cur' \in [Procs -> Locals]
  BY LocalTypes
<1>1. ASSUME NEW p \in Procs, NEW i \in Intents, Submit(p, i)
      PROVE  TypeOK'
  BY <1>0, <1>1 DEF Submit
<1>2. ASSUME NEW p \in Procs, AcquireLock(p) \/ LockTimeout(p) \/ ReleaseLock(p)
      PROVE  TypeOK'
  BY <1>0, <1>2 DEF AcquireLock, LockTimeout, ReleaseLock, Lock!Enter, Lock!Leave
<1>3. ASSUME NEW p \in Procs, Evaluate(p)
      PROVE  TypeOK'
  BY <1>0, <1>3 DEF Evaluate, ReadPositions, ReadOrders, Allow, Veto
<1>4. ASSUME NEW p \in Procs, AppendAttempt(p)
      PROVE  TypeOK'
  <2>1. cur[p].intent \in Intents
    BY <1>4 DEF AppendAttempt, IntentInv
  <2> QED
    BY <1>0, <1>4, <2>1 DEF AppendAttempt, AttemptStatus
<1>5. ASSUME NEW p \in Procs, SendOrder(p)
      PROVE  TypeOK'
  <2>1. cur[p].id \in Ids
    BY <1>5 DEF SendOrder, AttemptInv
  <2> QED
    BY <1>0, <1>5, <2>1 DEF SendOrder, OrderStatus
<1>6. ASSUME NEW p \in Procs, NEW outcome \in {"submitted", "rejected", "error"},
             Answer(p, outcome)
      PROVE  TypeOK'
  BY <1>0, <1>6 DEF Answer
<1>7. ASSUME NEW p \in Procs, Finalize(p) \/ Record(p)
      PROVE  TypeOK'
  <2>1. /\ cur[p].outcome \in {"submitted", "rejected", "error"}
        /\ pc[p] = "record" => cur[p].outcome # "error"
    BY <1>7 DEF Finalize, Record, AttemptInv
  <2>2. cur[p].outcome \in AttemptStatus
    BY <2>1 DEF AttemptStatus
  <2> QED
    BY <1>0, <1>7, <2>1, <2>2 DEF Finalize, Record
<1>8. ASSUME NEW p \in Procs, Halt(p)
      PROVE  TypeOK'
  BY <1>0, <1>8 DEF Halt, HaltCancel, HaltFlip, CancelAll, Activate, OrderStatus
<1>9. ASSUME NEW p \in Procs, Crash(p) \/ Restart(p)
      PROVE  TypeOK'
  BY <1>0, <1>9 DEF Crash, Restart
<1>10. ASSUME NEW o \in Operators, Operator(o)
       PROVE  TypeOK'
  BY <1>0, <1>10 DEF Operator, OperatorCancel, OperatorFlip, OperatorReset,
                     CancelAll, Activate, OrderStatus
<1>11. ASSUME NEW id \in Ids, Arrive(id) \/ CloseOrder(id)
       PROVE  TypeOK'
  <2>1. CASE Arrive(id)
    BY <1>0, <2>1 DEF Arrive, OrderStatus
  <2>2. CASE CloseOrder(id)
    BY <1>0, <2>2 DEF CloseOrder, OrderStatus
  <2> QED
    BY <1>11, <2>1, <2>2
<1>12. ASSUME NEW id \in Ids, Fill(id)
       PROVE  TypeOK'
  <2>1. raced' \in BOOLEAN
    BY <1>12 DEF Fill
  <2>2. intentOf[id].symbol \in Symbols
    BY <1>12, SubmitPathAssumption DEF Fill, RowInv
  <2> DEFINE d == IF intentOf[id].side = "buy" THEN 1 ELSE -1
  <2>3. pos' = [pos EXCEPT ![intentOf[id].symbol] = pos[intentOf[id].symbol] + d]
    BY <1>12 DEF Fill
  <2>5. d \in Int
    OBVIOUS
  <2> HIDE DEF d
  <2>6. pos' \in [Symbols -> Int]
    BY <2>2, <2>3, <2>5
  <2>4. order' \in [Ids -> OrderStatus]
    BY <1>12 DEF Fill, OrderStatus
  <2> QED
    BY <1>0, <1>12, <2>1, <2>4, <2>6 DEF Fill
<1>13. ASSUME NEW id \in Ids, WindowPasses(id)
       PROVE  TypeOK'
  BY <1>0, <1>13 DEF WindowPasses
<1>14. CASE UNCHANGED vars
  BY <1>0, <1>14 DEF vars
<1> HIDE DEF TypeOK, Goto, Steps, IInv, local, store, broker, switch
<1> QED
  BY <1>1, <1>2, <1>3, <1>4, <1>5, <1>6, <1>7, <1>8, <1>9, <1>10, <1>11, <1>12,
     <1>13, <1>14
     DEF Next, CallBroker, Broker


-----------------------------------------------------------------------------
(* The other conjuncts                                                     *)

\* A step that changes neither the store nor the orders nor the switch, and
\* leaves every process before its append or after its record, keeps the
\* conjuncts on rows.
Rest == /\ SectionInv /\ IntentInv /\ AttemptInv /\ RowInv
        /\ TradeFollowsAttempt /\ NotDuplicateInv /\ WindowInv /\ StragglerInv

LEMMA StepRest == IInv /\ TypeOK' /\ [Next]_vars => Rest'
<1> SUFFICES ASSUME IInv, TypeOK', [Next]_vars PROVE Rest'
  OBVIOUS
<1> USE SubmitPathAssumption
    DEF TypeOK, Goto, IInv, local, store, broker, switch, Rest, Outside,
        SectionInv, IntentInv, AttemptInv, RowInv, TradeFollowsAttempt,
        NotDuplicateInv, WindowInv, StragglerInv, Duplicate, Landed
<1>1. ASSUME NEW p \in Procs, NEW i \in Intents, Submit(p, i)
      PROVE  Rest'
  BY <1>1 DEF Submit
<1>2. ASSUME NEW p \in Procs, AcquireLock(p) \/ LockTimeout(p) \/ ReleaseLock(p)
      PROVE  Rest'
  <2>1. CASE AcquireLock(p)
    BY <2>1 DEF AcquireLock, Lock!Enter
  <2>2. CASE LockTimeout(p)
    BY <2>2 DEF LockTimeout
  <2>3. CASE ReleaseLock(p)
    BY <2>3 DEF ReleaseLock, Lock!Leave
  <2> QED
    BY <1>2, <2>1, <2>2, <2>3
<1>3. ASSUME NEW p \in Procs, ReadPositions(p) \/ ReadOrders(p)
      PROVE  Rest'
  <2>0. cur \in [Procs -> Locals] /\ cur[p] \in Locals
    OBVIOUS
  <2>1. \A q \in Procs : cur'[q].intent = cur[q].intent
    <3>1. CASE ReadPositions(p)
      BY <2>0, <3>1 DEF ReadPositions, Locals
    <3>2. CASE ReadOrders(p)
      BY <2>0, <3>2 DEF ReadOrders, Locals
    <3> QED
      BY <1>3, <3>1, <3>2
  <2>2. \A q \in Procs : q # p => cur'[q] = cur[q]
    BY <1>3 DEF ReadPositions, ReadOrders
  <2>3. /\ pc[p] \in {"positions", "orders"}
        /\ \E step \in {"orders", "decide"} : Goto(p, step)
        /\ UNCHANGED <<submitLock, store, broker, switch, raced>>
    BY <1>3 DEF ReadPositions, ReadOrders
  <2> QED
    BY <2>1, <2>2, <2>3
<1>4. ASSUME NEW p \in Procs, Allow(p)
      PROVE  Rest'
  BY <1>4 DEF Allow, Admissible
<1>5. ASSUME NEW p \in Procs, Veto(p)
      PROVE  Rest'
  BY <1>5 DEF Veto
<1>6. ASSUME NEW p \in Procs, AppendAttempt(p)
      PROVE  Rest'
  <2>1. PICK id \in Ids :
            /\ attempt[id] = "none"
            /\ attempt' = [attempt EXCEPT ![id] = "pending"]
            /\ intentOf' = [intentOf EXCEPT ![id] = cur[p].intent]
            /\ recent' = [recent EXCEPT ![id] = TRUE]
            /\ cur' = [cur EXCEPT ![p].id = id]
    BY <1>6 DEF AppendAttempt
  <2>2. /\ pc[p] = "append" /\ Goto(p, "send")
        /\ UNCHANGED <<submitLock, trade, broker, switch, raced>>
    BY <1>6 DEF AppendAttempt
  <2>3. order[id] = "none" /\ trade[id] = "none" /\ ~recent[id]
    BY <2>1
  <2>4. SectionInv' /\ IntentInv'
    BY <2>1, <2>2
  <2>5. AttemptInv'
    BY <2>1, <2>2, <2>3
  <2>6. RowInv' /\ TradeFollowsAttempt'
    BY <2>1, <2>2, <2>3
  <2>7. NotDuplicateInv'
    BY <2>1, <2>2
  <2>8. WindowInv'
    <3> SUFFICES ASSUME NEW j \in Ids, j # id, recent[j], intentOf[j] = cur[p].intent
                 PROVE  attempt[j] = "rejected"
      BY <2>1, <2>2
    <3> QED
      BY <2>2 DEF AttemptStatus
  <2>9. StragglerInv'
    BY <2>1, <2>2
  <2> QED
    BY <2>4, <2>5, <2>6, <2>7, <2>8, <2>9
<1>7. ASSUME NEW p \in Procs, SendOrder(p)
      PROVE  Rest'
  BY <1>7 DEF SendOrder
<1>8. ASSUME NEW p \in Procs, NEW outcome \in {"submitted", "rejected", "error"},
             Answer(p, outcome)
      PROVE  Rest'
  BY <1>8 DEF Answer
<1>9. ASSUME NEW p \in Procs, Finalize(p)
      PROVE  Rest'
  BY <1>9 DEF Finalize
<1>10. ASSUME NEW p \in Procs, Record(p)
      PROVE  Rest'
  BY <1>10 DEF Record
<1>11. ASSUME NEW p \in Procs, Halt(p)
      PROVE  Rest'
  BY <1>11 DEF Halt, HaltCancel, HaltFlip, CancelAll, Activate
<1>12. ASSUME NEW p \in Procs, Crash(p) \/ Restart(p)
       PROVE  Rest'
  BY <1>12 DEF Crash, Restart
<1>13. ASSUME NEW o \in Operators, Operator(o)
       PROVE  Rest'
  BY <1>13 DEF Operator, OperatorCancel, OperatorFlip, OperatorReset,
               CancelAll, Activate
<1>14. ASSUME NEW id \in Ids, Arrive(id) \/ CloseOrder(id) \/ Fill(id)
       PROVE  Rest'
  <2>1. CASE Arrive(id)
    BY <2>1 DEF Arrive
  <2>2. CASE CloseOrder(id)
    BY <2>2 DEF CloseOrder
  <2>3. CASE Fill(id)
    BY <2>3 DEF Fill
  <2> QED
    BY <1>14, <2>1, <2>2, <2>3
<1>15. ASSUME NEW id \in Ids, WindowPasses(id)
       PROVE  Rest'
  BY <1>15 DEF WindowPasses
<1>16. CASE UNCHANGED vars
  BY <1>16 DEF vars
<1> HIDE DEF TypeOK, Goto, IInv, local, store, broker, switch, Rest, Outside,
        SectionInv, IntentInv, AttemptInv, RowInv, TradeFollowsAttempt,
        NotDuplicateInv, WindowInv, StragglerInv, Duplicate, Landed
<1> QED
  BY <1>1, <1>2, <1>3, <1>4, <1>5, <1>6, <1>7, <1>8, <1>9, <1>10, <1>11, <1>12,
     <1>13, <1>14, <1>15, <1>16
     DEF Next, Evaluate, CallBroker, Broker

LEMMA Invariance == Spec => []IInv
<1>1. IInv /\ [Next]_vars => IInv'
  BY StepTypes, StepRest DEF IInv, Rest
<1> QED
  BY InitIInv, <1>1, PTL DEF Spec

-----------------------------------------------------------------------------
(* The account's limits: from the snapshot to the book                      *)

\* What a snapshot still covers: the account changes behind it only by orders
\* that leave the book, or a fill turns a seen order into a position.
Within(view) ==
    /\ \A s \in Symbols : pos[s] > 0 => view.pos[s] > 0 \/ <<s, "buy">> \in view.open
    /\ \A id \in Open : <<intentOf[id].symbol, intentOf[id].side>> \in view.open

\* A slot is free for the intent, and nothing rests against it.
Room(i) == i.side = "buy" => Cardinality(Occupied \cup {i.symbol}) <= MaxPositions
Clear(i) == \A id \in Open : intentOf[id].symbol = i.symbol => intentOf[id].side = i.side

\* The process has passed its checks and its order may still come to rest.
Unsettled(p) ==
    pc[p] \in {"append", "send"} \/ (pc[p] = "sent" /\ order[cur[p].id] = "inflight")

SnapshotInv(p) ==
    /\ pc[p] = "orders" => cur[p].view.pos = pos
    /\ pc[p] = "decide" => Within(cur[p].view)
    /\ Unsettled(p) => Room(cur[p].intent) /\ Clear(cur[p].intent)
    /\ pc[p] \in {"send", "sent"} => intentOf[cur[p].id] = cur[p].intent

NoOpposites ==
    \A i, j \in Open : intentOf[i].symbol = intentOf[j].symbol
                         => intentOf[i].side = intentOf[j].side

\* The account starts within its cap.
StartsWithinCap == \A held \in HeldAtStart : Cardinality(held) <= MaxPositions

AccountInv ==
    raced \/ /\ StartsWithinCap => Cardinality(Occupied) <= MaxPositions
             /\ NoOpposites
             /\ \A p \in Procs : SnapshotInv(p)

LEMMA OpenIntents ==
    ASSUME IInv, NEW id \in Open
    PROVE  /\ id \in Ids /\ intentOf[id] \in Intents
           /\ intentOf[id].symbol \in Symbols /\ intentOf[id].side \in Sides
  BY SubmitPathAssumption DEF IInv, RowInv, Open

LEMMA OccupiedIsFinite == IInv => Occupied \subseteq Symbols /\ IsFiniteSet(Occupied)
<1> SUFFICES ASSUME IInv PROVE Occupied \subseteq Symbols /\ IsFiniteSet(Occupied)
  OBVIOUS
<1>1. Occupied \subseteq Symbols
  BY OpenIntents DEF Occupied
<1> QED
  BY <1>1, SymbolsAssumption, FS_Subset

\* Cardinality grows with the set.
LEMMA FewerFit ==
    ASSUME NEW S, NEW T, IsFiniteSet(T), S \subseteq T, NEW n \in Nat, Cardinality(T) <= n
    PROVE  Cardinality(S) <= n
<1>1. S \in SUBSET T
  OBVIOUS
<1>2. /\ Cardinality(S) <= Cardinality(T) /\ IsFiniteSet(S)
  BY <1>1, FS_Subset
<1>3. Cardinality(S) \in Nat /\ Cardinality(T) \in Nat
  BY <1>2, FS_CardinalityType
<1> QED
  BY <1>2, <1>3

\* A book that only shrinks leaves every limit as it was.
LEMMA SmallerBook ==
    ASSUME IInv, Open' \subseteq Open, \A id \in Open' : intentOf'[id] = intentOf[id],
           \A s \in Symbols : pos'[s] > 0 => s \in Occupied
    PROVE  /\ Cardinality(Occupied) <= MaxPositions => Cardinality(Occupied') <= MaxPositions
           /\ NoOpposites => NoOpposites'
           /\ \A i \in Intents : (Room(i) => Room(i)') /\ (Clear(i) => Clear(i)')
<1>1. Occupied' \subseteq Occupied
  BY DEF Occupied
<1>2. IsFiniteSet(Occupied) /\ MaxPositions \in Nat
  BY OccupiedIsFinite, SubmitPathAssumption
<1>3. Cardinality(Occupied) <= MaxPositions => Cardinality(Occupied') <= MaxPositions
  BY <1>1, <1>2, FewerFit
<1>4. NoOpposites => NoOpposites'
  BY DEF NoOpposites
<1>5. ASSUME NEW i \in Intents PROVE (Room(i) => Room(i)') /\ (Clear(i) => Clear(i)')
  <2>1. /\ Occupied' \cup {i.symbol} \subseteq Occupied \cup {i.symbol}
        /\ IsFiniteSet(Occupied \cup {i.symbol})
    BY <1>1, <1>2, FS_AddElement
  <2>2. Cardinality(Occupied \cup {i.symbol}) <= MaxPositions
          => Cardinality(Occupied' \cup {i.symbol}) <= MaxPositions
    BY <1>2, <2>1, FewerFit
  <2> QED
    BY <2>2 DEF Room, Clear
<1> QED
  BY <1>3, <1>4, <1>5

LEMMA InitAccount == Init => AccountInv
<1> SUFFICES ASSUME Init PROVE AccountInv
  OBVIOUS
<1>1. Open = {}
  BY DEF Init, Open
<1>2. PICK held \in HeldAtStart : pos = [s \in Symbols |-> IF s \in held THEN 1 ELSE 0]
  BY DEF Init
<1>3. held \subseteq Symbols
  BY SubmitPathAssumption
<1>4. Occupied = held
  BY <1>1, <1>2, <1>3 DEF Occupied
<1> QED
  BY <1>1, <1>4 DEF Init, AccountInv, StartsWithinCap, NoOpposites, SnapshotInv, Unsettled

\* Who is outside the section has no snapshot and nothing under way.
LEMMA OutsideIsQuiet ==
    ASSUME NEW p \in Procs, pc[p] \notin {"orders", "decide", "append", "send", "sent"}
    PROVE  SnapshotInv(p)
  BY DEF SnapshotInv, Unsettled

LEMMA OthersAreOutside ==
    ASSUME IInv, NEW p \in Procs, pc[p] \notin Outside, NEW q \in Procs, q # p
    PROVE  pc[q] \in Outside
  BY SubmitPathAssumption DEF IInv, SectionInv

\* A step of one process that changes neither the account nor the intents.
LEMMA LocalStep ==
    ASSUME AccountInv, NEW p \in Procs, UNCHANGED <<order, pos, intentOf, raced>>,
           \A q \in Procs : q # p => pc'[q] = pc[q] /\ cur'[q] = cur[q],
           ~raced => SnapshotInv(p)'
    PROVE  AccountInv'
<1> SUFFICES ASSUME ~raced PROVE AccountInv'
  BY DEF AccountInv
<1>1. Open' = Open /\ Occupied' = Occupied
  BY DEF Open, Occupied
<1>2. (StartsWithinCap => Cardinality(Occupied') <= MaxPositions) /\ NoOpposites'
  BY <1>1 DEF AccountInv, NoOpposites
<1>3. ASSUME NEW q \in Procs, q # p PROVE SnapshotInv(q)'
  <2>1. SnapshotInv(q) /\ pc'[q] = pc[q] /\ cur'[q] = cur[q]
    BY <1>3 DEF AccountInv
  <2> QED
    BY <1>1, <2>1 DEF SnapshotInv, Within, Unsettled, Room, Clear
<1> QED
  BY <1>2, <1>3 DEF AccountInv

\* A step by which the book only shrinks: the halt, the close, a fill.
LEMMA ShrinkStep ==
    ASSUME IInv, AccountInv, UNCHANGED <<cur, intentOf>>, raced => raced',
           Open' \subseteq Open,
           \A id \in Ids : order'[id] = "inflight" => order[id] = "inflight",
           \A s \in Symbols : pos'[s] > 0 => s \in Occupied,
           \A q \in Procs : \/ pc'[q] = pc[q]
                            \/ pc'[q] \notin {"orders", "decide", "append", "send", "sent"},
           ~raced' => UNCHANGED pos \/ \A q \in Procs : pc'[q] # "orders"
    PROVE  AccountInv'
<1> SUFFICES ASSUME ~raced' PROVE AccountInv'
  BY DEF AccountInv
<1>1. /\ StartsWithinCap => Cardinality(Occupied') <= MaxPositions
      /\ NoOpposites'
      /\ \A i \in Intents : (Room(i) => Room(i)') /\ (Clear(i) => Clear(i)')
  BY SmallerBook DEF AccountInv
<1>2. ASSUME NEW q \in Procs PROVE SnapshotInv(q)'
  <2>1. CASE pc'[q] \notin {"orders", "decide", "append", "send", "sent"}
    BY <2>1 DEF SnapshotInv, Unsettled
  <2>2. CASE pc'[q] = pc[q] /\ pc[q] \in {"orders", "decide", "append", "send", "sent"}
    <3>1. SnapshotInv(q) /\ cur'[q] = cur[q]
      BY DEF AccountInv
    <3>2. cur[q].intent \in Intents
      BY <2>2 DEF IInv, IntentInv
    <3>3. pc[q] = "sent" => cur[q].id \in Ids
      BY DEF IInv, AttemptInv
    <3>4. Unsettled(q)' => Unsettled(q)
      BY <2>2, <3>1, <3>3 DEF Unsettled
    <3>5. Unsettled(q)' => Room(cur[q].intent)' /\ Clear(cur[q].intent)'
      <4> DEFINE i == cur[q].intent
      <4>1. Unsettled(q)' => Room(i) /\ Clear(i)
        BY <3>1, <3>4 DEF SnapshotInv
      <4>2. cur'[q].intent = i
        BY <3>1
      <4> HIDE DEF i
      <4> QED
        BY <1>1, <3>2, <4>1, <4>2 DEF i, Room, Clear
    <3>6. pc[q] = "decide" => Within(cur[q].view)'
      <4> SUFFICES ASSUME pc[q] = "decide" PROVE Within(cur[q].view)'
        OBVIOUS
      <4>1. Within(cur[q].view)
        BY <3>1 DEF SnapshotInv
      <4>2. \A s \in Occupied : pos[s] > 0 \/ \E id \in Open : /\ intentOf[id].side = "buy"
                                                              /\ intentOf[id].symbol = s
        BY DEF Occupied
      <4> QED
        BY <3>1, <4>1, <4>2 DEF Within
    <3> QED
      BY <2>2, <3>1, <3>5, <3>6 DEF SnapshotInv
  <2> QED
    BY <2>1, <2>2
<1> QED
  BY <1>1, <1>2 DEF AccountInv

\* The checks were made on a snapshot that still covers the account.
LEMMA CheckedFits ==
    ASSUME IInv, NEW i \in Intents, NEW view, Within(view), Admissible(i, view)
    PROVE  Room(i) /\ Clear(i)
<1>0. i.symbol \in Symbols /\ i.side \in Sides
  BY SubmitPathAssumption
<1>1. Room(i)
  <2> SUFFICES ASSUME i.side = "buy"
               PROVE  Cardinality(Occupied \cup {i.symbol}) <= MaxPositions
    BY DEF Room
  <2> DEFINE seen == {s \in Symbols : view.pos[s] > 0} \cup {s \in Symbols : <<s, "buy">> \in view.open}
  <2>1. Cardinality(seen \cup {i.symbol}) <= MaxPositions
    BY DEF Admissible, WithinPositions
  <2>2. Occupied \subseteq seen
    <3>1. \A s \in Symbols : pos[s] > 0 => s \in seen
      BY DEF Within
    <3>2. ASSUME NEW id \in Open, intentOf[id].side = "buy" PROVE intentOf[id].symbol \in seen
      BY <3>2, OpenIntents DEF Within
    <3> QED
      BY <3>1, <3>2 DEF Occupied
  <2>3. IsFiniteSet(seen \cup {i.symbol})
    <3>1. seen \cup {i.symbol} \in SUBSET Symbols
      BY <1>0
    <3> QED
      BY <3>1, SymbolsAssumption, FS_Subset
  <2> HIDE DEF seen
  <2> QED
    BY <2>1, <2>2, <2>3, FewerFit, SubmitPathAssumption
<1>2. Clear(i)
  <2> SUFFICES ASSUME NEW id \in Open, intentOf[id].symbol = i.symbol,
                      intentOf[id].side # i.side
               PROVE  FALSE
    BY DEF Clear
  <2>1. <<i.symbol, intentOf[id].side>> \in view.open /\ intentOf[id].side \in Sides \ {i.side}
    BY OpenIntents DEF Within
  <2> QED
    BY <2>1 DEF Admissible, OppositeOpen
<1> QED
  BY <1>1, <1>2

LEMMA EvaluateStep ==
    ASSUME IInv, AccountInv, NEW p \in Procs, Evaluate(p)
    PROVE  AccountInv'
<1> USE DEF store, broker, switch
<1>0. cur \in [Procs -> Locals] /\ pc \in [Procs -> Steps]
  BY DEF IInv, TypeOK
<1>1. CASE ReadPositions(p)
  <2>1. PICK b \in BOOLEAN : cur' = [cur EXCEPT ![p].view.pos = pos, ![p].view.breach = b]
    BY <1>1 DEF ReadPositions
  <2>2. cur'[p].view.pos = pos /\ pc'[p] = "orders" /\ UNCHANGED pos
    BY <1>0, <1>1, <2>1 DEF ReadPositions, Goto, Locals, Views
  <2>3. SnapshotInv(p)'
    BY <2>2 DEF SnapshotInv, Unsettled
  <2> QED
    BY <1>0, <1>1, <2>1, <2>3, LocalStep DEF ReadPositions, Goto
<1>2. CASE ReadOrders(p)
  <2> DEFINE book == {<<intentOf[id].symbol, intentOf[id].side>> : id \in Open}
  <2>1. cur' = [cur EXCEPT ![p].view.open = book] /\ UNCHANGED <<pos, order, intentOf>>
    BY <1>2 DEF ReadOrders
  <2>2. cur'[p].view.open = book /\ cur'[p].view.pos = cur[p].view.pos
    BY <1>0, <2>1 DEF Locals, Views
  <2>3. pc'[p] = "decide" /\ pc[p] = "orders"
    BY <1>0, <1>2 DEF ReadOrders, Goto
  <2>4. ~raced => cur[p].view.pos = pos
    BY <2>3 DEF AccountInv, SnapshotInv
  <2>5. \A id \in Open : <<intentOf[id].symbol, intentOf[id].side>> \in book
    OBVIOUS
  <2> HIDE DEF book
  <2>6. Open' = Open
    BY <2>1 DEF Open
  <2>7. ~raced => Within(cur[p].view)'
    BY <2>1, <2>2, <2>4, <2>5, <2>6 DEF Within
  <2>8. ~raced => SnapshotInv(p)'
    BY <2>3, <2>7 DEF SnapshotInv, Unsettled
  <2> QED
    BY <1>0, <1>2, <2>1, <2>8, LocalStep DEF ReadOrders, Goto
<1>3. CASE Allow(p)
  <2> DEFINE i == cur[p].intent
  <2>1. /\ pc[p] = "decide" /\ pc'[p] = "append" /\ Admissible(i, cur[p].view)
        /\ UNCHANGED <<order, pos, intentOf, raced>>
    BY <1>0, <1>3 DEF Allow, Goto
  <2>2. i \in Intents
    BY <2>1 DEF IInv, IntentInv
  <2>3. cur'[p].intent = i
    BY <1>0, <1>3 DEF Allow, Locals
  <2>4. ~raced => Room(i) /\ Clear(i)
    BY <2>1, <2>2, CheckedFits DEF AccountInv, SnapshotInv
  <2>5. Open' = Open /\ Occupied' = Occupied
    BY <2>1 DEF Open, Occupied
  <2> HIDE DEF i
  <2>6. ~raced => SnapshotInv(p)'
    BY <2>1, <2>3, <2>4, <2>5 DEF SnapshotInv, Room, Clear
  <2> QED
    BY <1>0, <1>3, <2>6, LocalStep DEF Allow, Goto
<1>4. CASE Veto(p)
  <2>1. pc'[p] \in {"haltCancel", "release"}
    BY <1>0, <1>4 DEF Veto, Goto
  <2>2. SnapshotInv(p)'
    BY <2>1 DEF SnapshotInv, Unsettled
  <2> QED
    BY <1>0, <1>4, <2>2, LocalStep DEF Veto, Goto
<1> QED
  BY <1>1, <1>2, <1>3, <1>4 DEF Evaluate

LEMMA CallStep ==
    ASSUME IInv, AccountInv, NEW p \in Procs, CallBroker(p)
    PROVE  AccountInv'
<1> USE DEF store, broker, switch
<1>0. cur \in [Procs -> Locals] /\ pc \in [Procs -> Steps]
  BY DEF IInv, TypeOK
<1>1. CASE AppendAttempt(p)
  <2>1. PICK id \in Ids :
            /\ attempt[id] = "none"
            /\ intentOf' = [intentOf EXCEPT ![id] = cur[p].intent]
            /\ cur' = [cur EXCEPT ![p].id = id]
    BY <1>1 DEF AppendAttempt
  <2>2. pc[p] = "append" /\ pc'[p] = "send" /\ UNCHANGED <<order, pos, raced>>
    BY <1>0, <1>1 DEF AppendAttempt, Goto
  <2>3. order[id] = "none"
    BY <2>1 DEF IInv, RowInv
  <2>4. Open' = Open /\ \A j \in Open : j \in Ids /\ j # id
    BY <2>2, <2>3 DEF Open
  <2>5. \A j \in Open' : intentOf'[j] = intentOf[j]
    BY <2>1, <2>4 DEF IInv, TypeOK
  <2>6. \A s \in Symbols : pos'[s] > 0 => s \in Occupied
    BY <2>2 DEF Occupied
  <2>7. /\ Cardinality(Occupied) <= MaxPositions => Cardinality(Occupied') <= MaxPositions
        /\ NoOpposites => NoOpposites'
        /\ \A i \in Intents : (Room(i) => Room(i)') /\ (Clear(i) => Clear(i)')
    BY <2>4, <2>5, <2>6, SmallerBook
  <2> DEFINE i == cur[p].intent
  <2>8. i \in Intents /\ cur'[p].intent = i /\ cur'[p].id = id /\ intentOf'[id] = i
    BY <1>0, <2>1, <2>2 DEF IInv, IntentInv, Locals, TypeOK
  <2>9. ~raced => Room(i) /\ Clear(i)
    BY <2>2 DEF AccountInv, SnapshotInv, Unsettled
  <2> HIDE DEF i
  <2>10. ~raced => SnapshotInv(p)'
    BY <2>2, <2>7, <2>8, <2>9 DEF SnapshotInv, Room, Clear
  <2>11. ASSUME NEW q \in Procs, q # p PROVE SnapshotInv(q)'
    <3>1. pc'[q] \in Outside
      BY <1>0, <1>1, <2>2, <2>11, OthersAreOutside DEF AppendAttempt, Goto, Outside
    <3> QED
      BY <3>1 DEF SnapshotInv, Unsettled, Outside
  <2> QED
    BY <2>2, <2>7, <2>10, <2>11 DEF AccountInv
<1>2. CASE SendOrder(p)
  <2> DEFINE id == cur[p].id
  <2>1. /\ id \in Ids /\ order[id] = "none"
        /\ order' = [order EXCEPT ![id] = "inflight"]
        /\ pc[p] = "send" /\ pc'[p] = "sent"
        /\ UNCHANGED <<cur, pos, intentOf, raced>>
    BY <1>0, <1>2 DEF SendOrder, Goto, IInv, AttemptInv
  <2>2. Open' = Open
    BY <2>1 DEF Open, IInv, TypeOK
  <2>3. Occupied' = Occupied
    BY <2>1, <2>2 DEF Occupied
  <2>4. NoOpposites => NoOpposites'
    BY <2>1, <2>2 DEF NoOpposites
  <2>5. ~raced => Room(cur[p].intent) /\ Clear(cur[p].intent) /\ intentOf[id] = cur[p].intent
    BY <2>1 DEF AccountInv, SnapshotInv, Unsettled
  <2>6. ~raced => SnapshotInv(p)'
    BY <2>1, <2>2, <2>3, <2>5 DEF SnapshotInv, Room, Clear
  <2>7. ASSUME NEW q \in Procs, q # p PROVE SnapshotInv(q)'
    <3>1. pc'[q] \in Outside
      BY <1>0, <1>2, <2>1, <2>7, OthersAreOutside DEF SendOrder, Goto, Outside
    <3> QED
      BY <3>1 DEF SnapshotInv, Unsettled, Outside
  <2> QED
    BY <2>1, <2>3, <2>4, <2>6, <2>7 DEF AccountInv
<1>3. CASE \/ \E outcome \in {"submitted", "rejected", "error"} : Answer(p, outcome)
           \/ Finalize(p) \/ Record(p)
  <2>1. /\ pc'[p] \in {"finalize", "record", "release"}
        /\ UNCHANGED <<order, pos, intentOf, raced>>
        /\ \A q \in Procs : q # p => pc'[q] = pc[q] /\ cur'[q] = cur[q]
    BY <1>0, <1>3 DEF Answer, Finalize, Record, Goto
  <2>2. SnapshotInv(p)'
    BY <2>1 DEF SnapshotInv, Unsettled
  <2> QED
    BY <2>1, <2>2, LocalStep
<1> QED
  BY <1>1, <1>2, <1>3 DEF CallBroker

LEMMA BrokerStep ==
    ASSUME IInv, AccountInv, NEW id \in Ids, Arrive(id) \/ Fill(id) \/ CloseOrder(id)
    PROVE  AccountInv'
<1> USE DEF local, store, broker, switch
<1>0. order \in [Ids -> OrderStatus] /\ pos \in [Symbols -> Int]
  BY DEF IInv, TypeOK
<1>1. CASE Arrive(id)
  <2>1. PICK status \in {"open", "gone"} :
            /\ order' = [order EXCEPT ![id] = status]
            /\ raced' = (raced \/ (status = "open" /\ ~Awaited(id)))
    BY <1>1 DEF Arrive
  <2>2. order[id] = "inflight" /\ UNCHANGED <<pc, cur, intentOf, pos>>
    BY <1>1 DEF Arrive
  <2>3. CASE status = "gone"
    <3>1. Open' \subseteq Open
      BY <1>0, <2>1, <2>3 DEF Open
    <3>2. \A j \in Ids : order'[j] = "inflight" => order[j] = "inflight"
      BY <1>0, <2>1, <2>3
    <3>3. \A s \in Symbols : pos'[s] > 0 => s \in Occupied
      BY <2>2 DEF Occupied
    <3> QED
      BY <2>1, <2>2, <3>1, <3>2, <3>3, ShrinkStep
  <2>4. CASE status = "open" /\ (raced \/ ~Awaited(id))
    BY <2>1, <2>4 DEF AccountInv
  <2>5. CASE status = "open" /\ ~raced /\ Awaited(id)
    <3>1. PICK p \in Procs : pc[p] = "sent" /\ cur[p].id = id
      BY <2>5 DEF Awaited
    <3> DEFINE i == intentOf[id]
    <3>2. cur[p].intent = i /\ Room(i) /\ Clear(i)
      BY <2>2, <2>5, <3>1 DEF AccountInv, SnapshotInv, Unsettled
    <3>3. Open' = Open \cup {id}
      BY <1>0, <2>1, <2>5 DEF Open
    <3>4. StartsWithinCap => Cardinality(Occupied') <= MaxPositions
      <4>1. CASE i.side = "buy"
        <5>1. Occupied' = Occupied \cup {i.symbol}
          BY <2>2, <3>3, <4>1 DEF Occupied
        <5> QED
          BY <3>2, <4>1, <5>1 DEF Room
      <4>2. CASE i.side # "buy"
        <5>1. Occupied' = Occupied
          BY <2>2, <3>3, <4>2 DEF Occupied
        <5> QED
          BY <2>5, <5>1 DEF AccountInv
      <4> QED
        BY <4>1, <4>2
    <3>5. NoOpposites'
      BY <2>2, <2>5, <3>2, <3>3 DEF AccountInv, NoOpposites, Clear
    <3>6. SnapshotInv(p)'
      <4>1. ~Unsettled(p)'
        BY <1>0, <2>1, <2>2, <2>5, <3>1 DEF Unsettled
      <4> QED
        BY <2>2, <3>1, <3>2, <4>1 DEF SnapshotInv
    <3>7. ASSUME NEW q \in Procs, q # p PROVE SnapshotInv(q)'
      <4>1. pc'[q] \in Outside
        BY <2>2, <3>1, <3>7, OthersAreOutside DEF Outside
      <4> QED
        BY <4>1 DEF SnapshotInv, Unsettled, Outside
    <3> QED
      BY <3>4, <3>5, <3>6, <3>7 DEF AccountInv
  <2> QED
    BY <2>1, <2>3, <2>4, <2>5
<1>2. CASE Fill(id)
  <2> DEFINE i == intentOf[id]
  <2>1. /\ order[id] = "open" /\ order' = [order EXCEPT ![id] = "filled"]
        /\ pos' = [pos EXCEPT ![i.symbol] = @ + IF i.side = "buy" THEN 1 ELSE -1]
        /\ raced' = (raced \/ \E p \in Procs : pc[p] = "orders")
        /\ UNCHANGED <<pc, cur, intentOf>>
    BY <1>2 DEF Fill
  <2>2. id \in Open /\ i.symbol \in Symbols
    BY <2>1, OpenIntents DEF Open
  <2>3. Open' \subseteq Open /\ \A j \in Ids : order'[j] = "inflight" => order[j] = "inflight"
    BY <1>0, <2>1 DEF Open
  <2>4. ASSUME NEW s \in Symbols, pos'[s] > 0 PROVE s \in Occupied
    <3>1. CASE s = i.symbol /\ i.side = "buy"
      BY <2>2, <3>1 DEF Occupied
    <3>2. CASE s # i.symbol
      BY <1>0, <2>1, <2>4, <3>2 DEF Occupied
    <3>3. CASE s = i.symbol /\ i.side # "buy"
      <4>1. pos'[s] = pos[s] + (-1)
        BY <1>0, <2>1, <3>3
      <4>2. pos[s] \in Int
        BY <1>0
      <4>3. pos[s] > 0
        BY <2>4, <4>1, <4>2
      <4> QED
        BY <4>3 DEF Occupied
    <3> QED
      BY <3>1, <3>2, <3>3
  <2> QED
    BY <2>1, <2>3, <2>4, ShrinkStep
<1>3. CASE CloseOrder(id)
  <2>1. /\ order' = [order EXCEPT ![id] = "cancelled"]
        /\ UNCHANGED <<pc, cur, intentOf, pos, raced>>
    BY <1>3 DEF CloseOrder
  <2>2. Open' \subseteq Open /\ \A j \in Ids : order'[j] = "inflight" => order[j] = "inflight"
    BY <1>0, <2>1 DEF Open
  <2>3. \A s \in Symbols : pos'[s] > 0 => s \in Occupied
    BY <2>1 DEF Occupied
  <2> QED
    BY <2>1, <2>2, <2>3, ShrinkStep
<1> QED
  BY <1>1, <1>2, <1>3

LEMMA CancelStep ==
    ASSUME IInv, AccountInv, CancelAll, UNCHANGED <<cur, intentOf, pos, raced>>,
           \A q \in Procs : pc'[q] = pc[q] \/ pc'[q] = "haltFlip"
    PROVE  AccountInv'
<1>1. Open' \subseteq Open /\ \A j \in Ids : order'[j] = "inflight" => order[j] = "inflight"
  BY DEF CancelAll, Open, IInv, TypeOK
<1>2. \A s \in Symbols : pos'[s] > 0 => s \in Occupied
  BY DEF Occupied
<1> QED
  BY <1>1, <1>2, ShrinkStep

LEMMA StepAccount == IInv /\ AccountInv /\ [Next]_vars => AccountInv'
<1> SUFFICES ASSUME IInv, AccountInv, [Next]_vars PROVE AccountInv'
  OBVIOUS
<1> USE DEF local, store, broker, switch
<1>0. cur \in [Procs -> Locals] /\ pc \in [Procs -> Steps]
  BY DEF IInv, TypeOK
<1>1. ASSUME NEW p \in Procs, NEW i \in Intents, Submit(p, i) PROVE AccountInv'
  <2>1. /\ pc'[p] = "acquire" /\ UNCHANGED <<order, pos, intentOf, raced>>
        /\ \A q \in Procs : q # p => pc'[q] = pc[q] /\ cur'[q] = cur[q]
    BY <1>0, <1>1 DEF Submit, Goto
  <2> QED
    BY <2>1, LocalStep DEF SnapshotInv, Unsettled
<1>2. ASSUME NEW p \in Procs, \/ AcquireLock(p) \/ LockTimeout(p) \/ ReleaseLock(p)
                              \/ HaltFlip(p) \/ Crash(p) \/ Restart(p)
      PROVE  AccountInv'
  <2>1. /\ pc'[p] \in {"positions", "idle", "release", "dead"}
        /\ UNCHANGED <<order, pos, intentOf, raced>>
        /\ \A q \in Procs : q # p => pc'[q] = pc[q] /\ cur'[q] = cur[q]
    BY <1>0, <1>2 DEF AcquireLock, LockTimeout, ReleaseLock, HaltFlip, Crash, Restart, Goto
  <2>2. SnapshotInv(p)'
    BY <2>1 DEF SnapshotInv, Unsettled
  <2> QED
    BY <2>1, <2>2, LocalStep
<1>3. ASSUME NEW p \in Procs, HaltCancel(p) PROVE AccountInv'
  BY <1>0, <1>3, CancelStep DEF HaltCancel, Goto
<1>4. ASSUME NEW o \in Operators, OperatorCancel(o) PROVE AccountInv'
  BY <1>4, CancelStep DEF OperatorCancel
<1>5. ASSUME UNCHANGED <<pc, cur, order, pos, intentOf, raced>> PROVE AccountInv'
  BY <1>5 DEF AccountInv, NoOpposites, Occupied, Open, SnapshotInv, Within, Unsettled, Room, Clear
<1>6. ASSUME \/ \E o \in Operators : OperatorFlip(o) \/ OperatorReset(o)
             \/ \E id \in Ids : WindowPasses(id)
             \/ UNCHANGED vars
      PROVE  AccountInv'
  BY <1>5, <1>6 DEF OperatorFlip, OperatorReset, WindowPasses, vars
<1> QED
  BY <1>1, <1>2, <1>3, <1>4, <1>6, EvaluateStep, CallStep, BrokerStep
     DEF Next, Halt, Operator, Broker

-----------------------------------------------------------------------------
(* The results                                                             *)

\* The type invariant.
THEOREM TypeCorrect == Spec => []TypeOK
  BY Invariance, IInvImplies, PTL

\* The outbox knows every order request, whichever process dies at which step
\* of _submit.
THEOREM OutboxKnowsEveryOrder == Spec => []OutboxFirst
  BY Invariance, IInvImplies, PTL

\* No order is repeated inside the duplicate window unless the broker was
\* understood to reject it.
THEOREM NoDuplicates == Spec => []NoDuplicateInWindow
  BY Invariance, IInvImplies, PTL

\* Trade rows agree with final outbox rows, and submitted ones with orders.
THEOREM TradesAgree == Spec => []TradeFollowsAttempt
  BY Invariance, IInvImplies, PTL

\* A trip of the kill switch lets at most one more order through.
THEOREM TripStopsTheAccount == Spec => []AtMostOneStraggler
  BY Invariance, IInvImplies, PTL

\* PositionCap: from an account within its cap, however many processes submit
\* and crash, the positions and the resting buys never occupy more slots than
\* the cap allows, unless the broker filled or landed an order behind a
\* snapshot.  The checks read the account in two calls and act on it much
\* later; what makes them binding is that behind them the book can only
\* shrink, until the order they let through is at rest or lost.
THEOREM CapHolds ==
    ASSUME StartsWithinCap
    PROVE  Spec => []PositionCap
<1>1. Init => AccountInv
  BY InitAccount
<1>2. IInv /\ AccountInv => PositionCap
  BY DEF AccountInv, PositionCap
<1> QED
  BY <1>1, <1>2, StepAccount, Invariance, PTL DEF Spec

\* NoWashTrade: under the same reservation no two orders of the account rest
\* on opposite sides of a symbol.
THEOREM NoWashTrades == Spec => []NoWashTrade
<1>1. Init => AccountInv
  BY InitAccount
<1>2. AccountInv => NoWashTrade
  BY DEF AccountInv, NoOpposites, NoWashTrade
<1> QED
  BY <1>1, <1>2, StepAccount, Invariance, PTL DEF Spec

=============================================================================
