-------------------------- MODULE MCRunnerSessions --------------------------
(* Model values for RunnerSessions.                                        *)
EXTENDS RunnerSessions

CONSTANTS r1, r2

TwoRunners == {r1, r2}

=============================================================================
