------------------------------- MODULE MCProc -------------------------------
(* Model-checking instance of Proc: two CPUs for the safety runs, one CPU   *)
(* for the liveness run.                                                    *)
EXTENDS Proc

CONSTANTS c0, c1

MCCPUS == {c0, c1}

\* one CPU: every RUNNABLE process competes for the same scan
MCCPUS1 == {c0}
=============================================================================
