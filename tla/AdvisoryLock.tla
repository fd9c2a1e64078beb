---------------------------- MODULE AdvisoryLock ----------------------------
(***************************************************************************)
(* The lock file of core/advisory_lock.py, one system call per action.     *)
(*                                                                         *)
(* A lock is a path.  `file` is the inode the path names: who created it,  *)
(* the pid readable in it (nothing until json.dump has run), and whether   *)
(* its mtime is past _STALE_LOCK_MAX_AGE_SECONDS.  A process keeps its own *)
(* file descriptor, so a write after somebody unlinked the path is         *)
(* invisible.  Processes may end at any step (their pc becomes "dead");    *)
(* the OS may give a dead pid to an unrelated program ("recycled"), after  *)
(* which _process_exists answers True for it.                              *)
(***************************************************************************)
EXTENDS Naturals, FiniteSets

CONSTANTS Procs,      \* processes that contend for the lock
          Nobody,     \* no process, no readable pid, no file
          Mortal      \* those that may end, by exiting or being killed

ASSUME AdvisoryLockAssumption ==
    /\ Nobody \notin Procs
    /\ Mortal \subseteq Procs

VARIABLES file,   \* the inode at the lock path, NoFile if there is none
          pc,     \* where each process is in acquire / release
          seen    \* the pid each process read in _read_holder

lockVars == <<file, pc, seen>>

NoFile == [by |-> Nobody, pid |-> Nobody, aged |-> FALSE]

File == [by : Procs \cup {Nobody}, pid : Procs \cup {Nobody}, aged : BOOLEAN]

PCs == {"idle", "read", "judge", "unlink", "create", "write", "refused",
        "held", "unlinkOwn", "dead", "recycled"}

\* _process_exists: a recycled pid is indistinguishable from a live holder.
ProcessExists(p) == pc[p] # "dead"

Running(p) == pc[p] \notin {"dead", "recycled"}

To(p, label) == pc' = [pc EXCEPT ![p] = label]

LockFileInit == /\ file = NoFile
                /\ pc = [p \in Procs |-> "idle"]
                /\ seen = [p \in Procs |-> Nobody]

-----------------------------------------------------------------------------
(* acquire() and the poll loop of acquire_blocking()                       *)

Call(p) == /\ pc[p] = "idle"
           /\ To(p, "read")
           /\ UNCHANGED <<file, seen>>

\* _read_holder: a missing, empty or half-written file has no holder.
ReadHolder(p) ==
    /\ pc[p] = "read"
    /\ seen' = [seen EXCEPT ![p] = file.pid]
    /\ To(p, IF file.pid = Nobody THEN "create" ELSE "judge")
    /\ UNCHANGED file

\* Fault: a lock is never too old.
JudgeByPid(p) ==
    /\ pc[p] = "judge"
    /\ To(p, IF ProcessExists(seen[p]) THEN "refused" ELSE "unlink")
    /\ UNCHANGED <<file, seen>>

\* The age test stats the path again: it may no longer be the file read.
Judge(p) ==
    /\ pc[p] = "judge"
    /\ To(p, IF ProcessExists(seen[p]) /\ ~file.aged THEN "refused" ELSE "unlink")
    /\ UNCHANGED <<file, seen>>

\* unlink(missing_ok=True) removes whatever the path names by now.
UnlinkStale(p) ==
    /\ pc[p] = "unlink"
    /\ file' = NoFile
    /\ To(p, "create")
    /\ UNCHANGED seen

\* Fault: O_EXCL is missing.
CreateOver(p) ==
    /\ pc[p] = "create"
    /\ file' = [by |-> p, pid |-> Nobody, aged |-> FALSE]
    /\ To(p, "write")
    /\ UNCHANGED seen

\* os.open(O_CREAT | O_EXCL)
Create(p) ==
    /\ pc[p] = "create"
    /\ IF file.by = Nobody
       THEN /\ file' = [by |-> p, pid |-> Nobody, aged |-> FALSE]
            /\ To(p, "write")
       ELSE /\ To(p, "refused")
            /\ UNCHANGED file
    /\ UNCHANGED seen

WriteHolder(p) ==
    /\ pc[p] = "write"
    /\ file' = IF file.by = p THEN [file EXCEPT !.pid = p, !.aged = FALSE]
                              ELSE file
    /\ To(p, "held")
    /\ UNCHANGED seen

\* The except branch around json.dump.
WriteFails(p) ==
    /\ pc[p] = "write"
    /\ file' = NoFile
    /\ To(p, "idle")
    /\ UNCHANGED seen

\* acquire_blocking sleeps and tries again ...
Retry(p) == /\ pc[p] = "refused"
            /\ To(p, "read")
            /\ UNCHANGED <<file, seen>>

\* ... until its deadline; acquire() gives up at once.
GiveUp(p) == /\ pc[p] = "refused"
             /\ To(p, "idle")
             /\ UNCHANGED <<file, seen>>

-----------------------------------------------------------------------------
(* refresh() and release()                                                 *)

Refresh(p) ==
    /\ pc[p] = "held"
    /\ file.by # Nobody
    /\ file' = [file EXCEPT !.aged = FALSE]
    /\ UNCHANGED <<pc, seen>>

ReleaseCheck(p) ==
    /\ pc[p] = "held"
    /\ To(p, IF file.pid = p THEN "unlinkOwn" ELSE "idle")
    /\ UNCHANGED <<file, seen>>

ReleaseUnlink(p) ==
    /\ pc[p] = "unlinkOwn"
    /\ file' = NoFile
    /\ To(p, "idle")
    /\ UNCHANGED seen

-----------------------------------------------------------------------------
(* The operating system                                                    *)

End(p) == /\ p \in Mortal
          /\ Running(p)
          /\ To(p, "dead")
          /\ UNCHANGED <<file, seen>>

RecyclePid(p) == /\ pc[p] = "dead"
                 /\ To(p, "recycled")
                 /\ UNCHANGED <<file, seen>>

\* Twelve hours without a heartbeat.  A running holder refreshes (the runner)
\* or holds for seconds (a submit), so only an orphaned file gets old.
Age == /\ file.by # Nobody
       /\ ~Running(file.by)
       /\ file' = [file EXCEPT !.aged = TRUE]
       /\ UNCHANGED <<pc, seen>>

Acquire(p) == \/ ReadHolder(p) \/ Judge(p) \/ UnlinkStale(p)
              \/ Create(p) \/ WriteHolder(p)

Release(p) == ReleaseCheck(p) \/ ReleaseUnlink(p)

LockFileNext ==
    \/ \E p \in Procs : \/ Call(p) \/ Acquire(p) \/ WriteFails(p)
                        \/ Retry(p) \/ GiveUp(p)
                        \/ Refresh(p) \/ Release(p)
                        \/ End(p) \/ RecyclePid(p)
    \/ Age

LockFileSpec == LockFileInit /\ [][LockFileNext]_lockVars

\* A running process takes its next step: it keeps asking for the lock and does
\* not stay in its section for ever.  Not every write of a holder fails, and an
\* orphaned file gets old.  Giving up and dying are never forced.
LockFairness == /\ \A p \in Procs : WF_lockVars(Call(p) \/ Retry(p) \/ Acquire(p) \/ Release(p))
                /\ SF_lockVars(\E p \in Procs : WriteHolder(p))
                /\ WF_lockVars(Age)

LockFairSpec == LockFileSpec /\ LockFairness

-----------------------------------------------------------------------------
(* Properties                                                              *)

LockTypeOK == /\ file \in File
              /\ pc \in [Procs -> PCs]
              /\ seen \in [Procs -> Procs \cup {Nobody}]

Holders == {p \in Procs : pc[p] = "held"}

\* Two processes never run the protected section at once: the reason
\* AdvisoryLock exists ("refuse to start while another Milodex process
\* already holds the lock").
MutualExclusion == \A p, q \in Holders : p = q

\* While a process is in its section the path keeps naming its own, written
\* file, so every other acquire() sees who holds the lock.
HolderOwnsFile ==
    \A p \in Holders : file.by = p /\ file.pid = p

\* The abstract lock: its owner is the process in the section.
AbstractOwner == IF Holders = {} THEN Nobody ELSE CHOOSE p \in Holders : TRUE

Abstract == INSTANCE LockSpec WITH owner <- AbstractOwner

\* The file protocol implements the lock its callers assume.
ImplementsLock == Abstract!LockSafety

Survives(p) == Running(p) /\ \A q \in Procs \ {p} : ~Running(q)

\* A lock file naming a killed holder is taken over by the survivor: at once,
\* or, when the pid was recycled onto a live program, after the file got old.
OrphanReclaimed ==
    (\E p \in Procs : Survives(p) /\ file.pid \notin {p, Nobody})
        ~> (\E p \in Holders : Survives(p))

\* "a crashed process never leaves the system permanently blocked"
\* (core/advisory_lock.py:11-13), wherever in acquire() it crashed.
NeverBlockedByCrash ==
    \A p \in Procs : Survives(p) ~> (p \in Holders)

=============================================================================
