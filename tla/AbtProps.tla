------------------------------ MODULE AbtProps ------------------------------
(* What abt's command runner must guarantee.                                 *)
EXTENDS AbtBuild

\* Type invariant.
TypeOK ==
    /\ DagTypeOK
    /\ maxerr \in Nat /\ nfail \in Nat /\ last_signal \in BOOLEAN
    /\ at \in {"loop", "built", "dependency loop", "thrown"}

\* A command is given up only because a prerequisite failed, a signal came or
\* -maxerr commands had failed before it: a failure spreads no further, and
\* the build goes on for all the other commands (Build_RunDag's prefail).
GivenUpForCause ==
    [][\A c \in heap \ heap' :
         c \in Done' /\ status'[c] # Ok =>
             \/ \E p \in prior[c] : status[p] # Ok
             \/ last_signal
             \/ nfail >= maxerr]_vars

\* Exit code 0 means that every command of the build was done and succeeded,
\* although commands that are given up are not counted as errors ("prevents
\* abt from reporting n_err:0 if a command silently failed").
ZeroMeansBuilt ==
    at # "loop" /\ ExitCode = 0 => \A c \in Cmd : c \in Done /\ status[c] = Ok

\* "dependency loop" is reported for a loop and for nothing else.
LoopReported ==
    /\ at = "built" => ~HasLoop
    /\ at = "dependency loop" => HasLoop

\* Liveness: the build comes to an end, with a loop in it or without.
BuildEnds == <>(at # "loop")
=============================================================================
