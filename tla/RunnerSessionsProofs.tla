------------------------ MODULE RunnerSessionsProofs ------------------------
(***************************************************************************)
(* Proofs about the processes around one strategy, for any number of       *)
(* runners, stop requests and suspensions: at most one runner trades, a    *)
(* phantom is dead, and the reaper takes only the locks it could not see.  *)
(***************************************************************************)
EXTENDS RunnerSessions, TLAPS

\* A lock file that names a holder names its creator, who got that far.
HolderInv ==
    /\ lock.pid # Nobody => lock.pid = lock.by
    /\ lock.by # Nobody => pc[lock.by] \notin {"idle", "acquire", "create"}
    /\ \A r \in Runners : pc[r] = "write" => lock.pid # r

\* Whoever works under the lock, and was not robbed of it, has the file; and
\* so has the one that is about to write its pid into it.
OwnerInv ==
    \A r \in Runners \ stolen :
        /\ pc[r] \in Section => lock.by = r /\ lock.pid = r
        /\ pc[r] = "write" => lock.by = r

\* An open row belongs to a runner that appended it, and may have ended since.
RowInv ==
    \A r \in Runners :
        row[r] = "open" => pc[r] \in {"loop", "closing", "release", "done", "dead"}

\* The holder that the reaper classified has ended for good, and when the
\* reaper is about to unlink, the file is not that of a live runner unless it
\* could not see that one at the second re-check.
ReaperInv ==
    /\ reaper.at \in {"guard1", "close", "guard2", "unlink"} /\ reaper.snap # Nobody
          => pc[reaper.snap] \in {"done", "dead"}
    /\ reaper.at = "unlink" /\ Live(lock.by) => lock.by \in exposed

SessionInv == TypeOK /\ HolderInv /\ OwnerInv /\ RowInv /\ ReaperInv


\* Every action keeps the types.
LEMMA TypeStep == TypeOK /\ [Next]_vars => TypeOK'
<1> SUFFICES ASSUME TypeOK, [Next]_vars PROVE TypeOK'
  OBVIOUS
<1> USE RunnerSessionsAssumption
<1> USE DEF Goto, others, runners, sessions, ReapAt, NoFile, Removed, Live,
            Alive, vars, TypeOK, PCs, Section, Reaping, Reasons, Modes,
            Orphan
<1>1. ASSUME NEW r \in Runners, TakeOver(r) PROVE TypeOK'
  <2>1. pc' \in [Runners -> PCs]
    BY <1>1 DEF TakeOver
  <2>2. lock' \in [by : Runners \cup {Nobody}, pid : Runners \cup {Nobody}, aged : BOOLEAN]
    <3>1. lock' = lock \/ lock' = NoFile
      BY <1>1 DEF TakeOver
    <3>2. CASE lock' = lock
      BY <3>2
    <3>3. CASE lock' = NoFile
      BY <3>3
    <3> QED BY <3>1, <3>2, <3>3
  <2>3. stolen' \subseteq Runners
    BY <1>1 DEF TakeOver
  <2> QED BY <1>1, <2>1, <2>2, <2>3 DEF TakeOver
<1>2. ASSUME NEW r \in Runners, Create(r) PROVE TypeOK'
  <2>1. lock' \in [by : Runners \cup {Nobody}, pid : Runners \cup {Nobody}, aged : BOOLEAN]
    BY <1>2 DEF Create
  <2>2. pc' \in [Runners -> PCs] /\ exposed' \subseteq Runners
    BY <1>2 DEF Create
  <2> QED BY <1>2, <2>1, <2>2 DEF Create
<1>3. ASSUME NEW r \in Runners, WriteHolder(r) PROVE TypeOK'
  BY <1>3 DEF WriteHolder
<1>4. ASSUME NEW r \in Runners, Register(r) PROVE TypeOK'
  BY <1>4 DEF Register
<1>5. ASSUME NEW r \in Runners, AppendRow(r) PROVE TypeOK'
  BY <1>5 DEF AppendRow
<1>6. ASSUME NEW r \in Runners, Poll(r) PROVE TypeOK'
  BY <1>6 DEF Poll
<1>7. ASSUME NEW r \in Runners, Shutdown(r) PROVE TypeOK'
  BY <1>7 DEF Shutdown
<1>8. ASSUME NEW r \in Runners, Release(r) PROVE TypeOK'
  BY <1>8 DEF Release
<1>9. ASSUME NEW r \in Runners,
            RunFromCli(r) \/ BuildFails(r) \/ Sigint(r) \/ Break(r) \/
            ShutdownFails(r) \/ Kill(r) \/ Spawn(r)
     PROVE  TypeOK'
  BY <1>9 DEF RunFromCli, BuildFails, Sigint, Break, ShutdownFails, Kill,
         Spawn
<1>10. CASE Probe
  BY <1>10 DEF Probe
<1>11. CASE ClearRequest
  BY <1>11 DEF ClearRequest
<1>12. CASE SpawnFails
  BY <1>12 DEF SpawnFails
<1>13. CASE SeeHolder
  BY <1>13 DEF SeeHolder
<1>14. CASE RequestStop
  BY <1>14 DEF RequestStop
<1>15. CASE GarbledRequest
  BY <1>15 DEF GarbledRequest
<1>16. CASE ListOpen
  BY <1>16 DEF ListOpen
<1>17. CASE Classify
  BY <1>17 DEF Classify
<1>18. CASE Guard1
  BY <1>18 DEF Guard1
<1>19. CASE CloseRows
  BY <1>19 DEF CloseRows
<1>20. CASE Guard2
  BY <1>20 DEF Guard2
<1>21. CASE UnlinkLock
  BY <1>21 DEF UnlinkLock
<1>22. CASE Sleep
  <2>1. events' \in 0..MaxEvents
    BY <1>22 DEF Sleep
  <2>2. lock' \in [by : Runners \cup {Nobody}, pid : Runners \cup {Nobody}, aged : BOOLEAN]
    BY <1>22 DEF Sleep
  <2> QED BY <1>22, <2>1, <2>2 DEF Sleep
<1>23. CASE UNCHANGED vars
  BY <1>23
<1> QED BY <1>1, <1>2, <1>3, <1>4, <1>5, <1>6, <1>7, <1>8, <1>9, <1>10,
           <1>11, <1>12, <1>13, <1>14, <1>15, <1>16, <1>17, <1>18, <1>19,
           <1>20, <1>21, <1>22, <1>23 DEF Next, StartUp, Finish, Reap, Launch

\* The lock file says of its creator what is true, whoever writes it.
LEMMA HolderStep == TypeOK /\ HolderInv /\ [Next]_vars => HolderInv'
<1> SUFFICES ASSUME TypeOK /\ HolderInv, [Next]_vars PROVE HolderInv'
  OBVIOUS
<1> USE RunnerSessionsAssumption
<1> USE DEF Goto, others, runners, sessions, ReapAt, NoFile, Removed, Live,
            Alive, vars, TypeOK, PCs, Section, Reaping, Reasons, Modes,
            Orphan, HolderInv
<1>1. ASSUME NEW r \in Runners, TakeOver(r) PROVE HolderInv'
  BY <1>1 DEF TakeOver
<1>2. ASSUME NEW r \in Runners, Create(r) PROVE HolderInv'
  BY <1>2 DEF Create
<1>3. ASSUME NEW r \in Runners, WriteHolder(r) PROVE HolderInv'
  BY <1>3 DEF WriteHolder
<1>4. ASSUME NEW r \in Runners, Poll(r) PROVE HolderInv'
  BY <1>4 DEF Poll
<1>5. ASSUME NEW r \in Runners, Release(r) PROVE HolderInv'
  BY <1>5 DEF Release
<1>6. ASSUME NEW r \in Runners,
            RunFromCli(r) \/ Register(r) \/ AppendRow(r) \/ BuildFails(r) \/
            Sigint(r) \/ Break(r) \/ Shutdown(r) \/ ShutdownFails(r) \/
            Kill(r) \/ Spawn(r)
     PROVE  HolderInv'
  BY <1>6 DEF RunFromCli, Register, AppendRow, BuildFails, Sigint, Break,
         Shutdown, ShutdownFails, Kill, Spawn
<1>7. CASE UnlinkLock
  BY <1>7 DEF UnlinkLock
<1>8. CASE Sleep
  BY <1>8 DEF Sleep
<1>9. CASE Probe \/ ClearRequest \/ SpawnFails \/ SeeHolder \/ RequestStop \/
            GarbledRequest \/ ListOpen \/ Classify \/ Guard1 \/ CloseRows \/
            Guard2 \/ UNCHANGED vars
  BY <1>9 DEF Probe, ClearRequest, SpawnFails, SeeHolder, RequestStop,
         GarbledRequest, ListOpen, Classify, Guard1, CloseRows, Guard2
<1> QED BY <1>1, <1>2, <1>3, <1>4, <1>5, <1>6, <1>7, <1>8, <1>9 DEF Next,
           StartUp, Finish, Reap, Launch

\* Every action leaves the file to the one who works under it, or robs him.
LEMMA OwnerStep == TypeOK /\ HolderInv /\ OwnerInv /\ [Next]_vars => OwnerInv'
<1> SUFFICES ASSUME TypeOK /\ HolderInv /\ OwnerInv, [Next]_vars PROVE OwnerInv'
  OBVIOUS
<1> USE RunnerSessionsAssumption
<1> USE DEF Goto, others, runners, sessions, ReapAt, NoFile, Removed, Live,
            Alive, vars, TypeOK, PCs, Section, Reaping, Reasons, Modes,
            Orphan, HolderInv, OwnerInv
<1>1. ASSUME NEW r \in Runners, TakeOver(r) PROVE OwnerInv'
  BY <1>1 DEF TakeOver
<1>2. ASSUME NEW r \in Runners, Create(r) PROVE OwnerInv'
  BY <1>2 DEF Create
<1>3. ASSUME NEW r \in Runners, WriteHolder(r) PROVE OwnerInv'
  BY <1>3 DEF WriteHolder
<1>4. ASSUME NEW r \in Runners, Poll(r) PROVE OwnerInv'
  BY <1>4 DEF Poll
<1>5. ASSUME NEW r \in Runners, Release(r) PROVE OwnerInv'
  BY <1>5 DEF Release
<1>6. ASSUME NEW r \in Runners,
            RunFromCli(r) \/ Register(r) \/ AppendRow(r) \/ BuildFails(r) \/
            Sigint(r) \/ Break(r) \/ Shutdown(r) \/ ShutdownFails(r) \/
            Kill(r) \/ Spawn(r)
     PROVE  OwnerInv'
  BY <1>6 DEF RunFromCli, Register, AppendRow, BuildFails, Sigint, Break,
         Shutdown, ShutdownFails, Kill, Spawn
<1>7. CASE UnlinkLock
  BY <1>7 DEF UnlinkLock
<1>8. CASE Sleep
  BY <1>8 DEF Sleep
<1>9. CASE Probe \/ ClearRequest \/ SpawnFails \/ SeeHolder \/ RequestStop \/
            GarbledRequest \/ ListOpen \/ Classify \/ Guard1 \/ CloseRows \/
            Guard2 \/ UNCHANGED vars
  BY <1>9 DEF Probe, ClearRequest, SpawnFails, SeeHolder, RequestStop,
         GarbledRequest, ListOpen, Classify, Guard1, CloseRows, Guard2
<1> QED BY <1>1, <1>2, <1>3, <1>4, <1>5, <1>6, <1>7, <1>8, <1>9 DEF Next,
           StartUp, Finish, Reap, Launch

\* A row is opened by a runner that registered, and by no other step.
LEMMA RowStep == TypeOK /\ RowInv /\ [Next]_vars => RowInv'
<1> SUFFICES ASSUME TypeOK /\ RowInv, [Next]_vars PROVE RowInv'
  OBVIOUS
<1> USE RunnerSessionsAssumption
<1> USE DEF Goto, others, runners, sessions, ReapAt, NoFile, Removed, Live,
            Alive, vars, TypeOK, PCs, Section, Reaping, Reasons, Modes,
            Orphan, RowInv
<1>1. ASSUME NEW r \in Runners, Register(r) PROVE RowInv'
  BY <1>1 DEF Register
<1>2. ASSUME NEW r \in Runners, AppendRow(r) PROVE RowInv'
  BY <1>2 DEF AppendRow
<1>3. ASSUME NEW r \in Runners, Shutdown(r) PROVE RowInv'
  BY <1>3 DEF Shutdown
<1>4. ASSUME NEW r \in Runners,
            RunFromCli(r) \/ TakeOver(r) \/ Create(r) \/ WriteHolder(r) \/
            BuildFails(r) \/ Poll(r) \/ Sigint(r) \/ Break(r) \/
            ShutdownFails(r) \/ Release(r) \/ Kill(r) \/ Spawn(r)
     PROVE  RowInv'
  BY <1>4 DEF RunFromCli, TakeOver, Create, WriteHolder, BuildFails, Poll,
         Sigint, Break, ShutdownFails, Release, Kill, Spawn
<1>5. CASE CloseRows
  BY <1>5 DEF CloseRows
<1>6. CASE Probe \/ ClearRequest \/ SpawnFails \/ SeeHolder \/ RequestStop \/
            GarbledRequest \/ ListOpen \/ Classify \/ Guard1 \/ Guard2 \/
            UnlinkLock \/ Sleep \/ UNCHANGED vars
  BY <1>6 DEF Probe, ClearRequest, SpawnFails, SeeHolder, RequestStop,
         GarbledRequest, ListOpen, Classify, Guard1, Guard2, UnlinkLock,
         Sleep
<1> QED BY <1>1, <1>2, <1>3, <1>4, <1>5, <1>6 DEF Next, StartUp, Finish,
           Reap, Launch

\* What the reaper learned stays true until it unlinks.
LEMMA ReaperStep == TypeOK /\ HolderInv /\ ReaperInv /\ [Next]_vars => ReaperInv'
<1> SUFFICES ASSUME TypeOK /\ HolderInv /\ ReaperInv, [Next]_vars PROVE ReaperInv'
  OBVIOUS
<1> USE RunnerSessionsAssumption
<1> USE DEF Goto, others, runners, sessions, ReapAt, NoFile, Removed, Live,
            Alive, vars, TypeOK, PCs, Section, Reaping, Reasons, Modes,
            Orphan, HolderInv, ReaperInv
<1>1. ASSUME NEW r \in Runners, TakeOver(r) PROVE ReaperInv'
  BY <1>1 DEF TakeOver
<1>2. ASSUME NEW r \in Runners, Create(r) PROVE ReaperInv'
  BY <1>2 DEF Create
<1>3. ASSUME NEW r \in Runners, WriteHolder(r) PROVE ReaperInv'
  BY <1>3 DEF WriteHolder
<1>4. ASSUME NEW r \in Runners, Poll(r) PROVE ReaperInv'
  BY <1>4 DEF Poll
<1>5. ASSUME NEW r \in Runners, Release(r) PROVE ReaperInv'
  BY <1>5 DEF Release
<1>6. ASSUME NEW r \in Runners,
            RunFromCli(r) \/ Register(r) \/ AppendRow(r) \/ BuildFails(r) \/
            Sigint(r) \/ Break(r) \/ Shutdown(r) \/ ShutdownFails(r) \/
            Kill(r) \/ Spawn(r)
     PROVE  ReaperInv'
  BY <1>6 DEF RunFromCli, Register, AppendRow, BuildFails, Sigint, Break,
         Shutdown, ShutdownFails, Kill, Spawn
<1>7. CASE Classify
  BY <1>7 DEF Classify
<1>8. CASE Guard1
  BY <1>8 DEF Guard1
<1>9. CASE Guard2
  BY <1>9 DEF Guard2
<1>10. CASE UnlinkLock
  BY <1>10 DEF UnlinkLock
<1>11. CASE Sleep
  BY <1>11 DEF Sleep
<1>12. CASE Probe \/ ClearRequest \/ SpawnFails \/ SeeHolder \/ RequestStop
            \/ GarbledRequest \/ ListOpen \/ CloseRows \/ UNCHANGED vars
  BY <1>12 DEF Probe, ClearRequest, SpawnFails, SeeHolder, RequestStop,
         GarbledRequest, ListOpen, CloseRows
<1> QED BY <1>1, <1>2, <1>3, <1>4, <1>5, <1>6, <1>7, <1>8, <1>9, <1>10,
           <1>11, <1>12 DEF Next, StartUp, Finish, Reap, Launch

\* SessionInv is inductive.
LEMMA Invariance == Spec => []SessionInv
<1>1. Init => SessionInv
  BY RunnerSessionsAssumption DEF Init, SessionInv, TypeOK, PCs, Section, Reaping,
     HolderInv, OwnerInv, RowInv, ReaperInv, NoFile, Live
<1>2. SessionInv /\ [Next]_vars => SessionInv'
  BY TypeStep, HolderStep, OwnerStep, RowStep, ReaperStep DEF SessionInv
<1> QED BY <1>1, <1>2, PTL DEF Spec

\* The state always has the types TypeOK gives it.
THEOREM TypeCorrect == Spec => []TypeOK
<1>1. SessionInv => TypeOK
  BY DEF SessionInv
<1> QED BY <1>1, Invariance, PTL

\* AdvisoryLock.acquire under the CLI and the GUI's PaperRunnerControl: two
\* runners of one strategy never trade at once, for any number of them, unless
\* somebody removed the lock file of a live one.
THEOREM OneRunnerAtATime == Spec => []OneRunner
<1>1. SessionInv => OneRunner
  BY DEF SessionInv, OwnerInv, OneRunner
<1> QED BY <1>1, Invariance, PTL

\* resolve_runner_liveness: a session displayed as a phantom has no process any
\* more, unless its lock was taken from it.
THEOREM PhantomsAreDead == Spec => []PhantomIsDead
<1>1. SessionInv => PhantomIsDead
  <2> SUFFICES ASSUME SessionInv, Status = "phantom", latest \notin stolen
               PROVE  ~Alive(latest)
    BY DEF PhantomIsDead
  <2>1. latest # Nobody /\ row[latest] = "open" /\ ~Live(lock.pid)
    BY DEF Status
  <2>2. latest \in Runners \ stolen
    BY <2>1 DEF SessionInv, TypeOK
  <2>3. CASE pc[latest] \in Section
    BY <2>1, <2>2, <2>3 DEF SessionInv, OwnerInv, Live
  <2>4. CASE pc[latest] \notin Section
    BY <2>1, <2>2, <2>4 DEF SessionInv, RowInv, Section, Alive
  <2> QED BY <2>3, <2>4
<1> QED BY <1>1, Invariance, PTL

\* reconcile_orphaned_runs_on_bootstrap, with its two re-checks: the reaper
\* removes the lock of a live runner only if it could not see that runner.
THEOREM ReaperStealsOnlyUnseen == Spec => StealsOnlyUnseen
<1> DEFINE Step == \A r \in stolen' \ stolen :
                      reaper.at = "unlink" /\ reaper'.at = "idle" => r \in exposed
<1>1. SessionInv /\ [Next]_vars => [Step]_vars
  <2> SUFFICES ASSUME SessionInv, Next, NEW r \in stolen' \ stolen,
                      reaper.at = "unlink", reaper'.at = "idle"
               PROVE  r \in exposed
    OBVIOUS
  <2>1. stolen' = Removed(Nobody)
    BY DEF SessionInv, TypeOK, Reaping, Next, StartUp, Finish, Reap, Launch, others,
       runners, sessions, ReapAt, RunFromCli, TakeOver, Create, WriteHolder, Register,
       AppendRow, BuildFails, Poll, Sigint, Break, Shutdown, ShutdownFails, Release,
       Kill, Probe, ClearRequest, Spawn, SpawnFails, SeeHolder, RequestStop,
       GarbledRequest, ListOpen, Classify, Guard1, CloseRows, Guard2, UnlinkLock, Sleep
  <2> QED BY <2>1 DEF Removed, SessionInv, ReaperInv
<1> QED BY <1>1, Invariance, PTL DEF Spec, StealsOnlyUnseen

=============================================================================
