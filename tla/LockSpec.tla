------------------------------ MODULE LockSpec ------------------------------
(***************************************************************************)
(* What the callers of core/advisory_lock.py rely on: at any time at most  *)
(* one process is inside the section the named lock protects.  The lock    *)
(* passes only through its free state: a process enters a free lock, and   *)
(* a lock becomes free when its owner leaves or dies.  AdvisoryLock is     *)
(* checked against this module; SubmitPath takes its actions.              *)
(***************************************************************************)
CONSTANTS Procs, Nobody

VARIABLE owner

LockInit == owner = Nobody

Enter(p) == /\ owner = Nobody
            /\ owner' = p

\* release(), or the death of the owner.
Leave(p) == /\ owner = p
            /\ owner' = Nobody

LockNext == \E p \in Procs : Enter(p) \/ Leave(p)

LockSafety == LockInit /\ [][LockNext]_owner

=============================================================================
