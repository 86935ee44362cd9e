------------------------------ MODULE AbtBuild ------------------------------
(* abt's Main_Build and Build_RunDag: run the commands of a build, as many   *)
(* together as -maxjobs allows, until none is left, and tell by the exit     *)
(* code whether the build is good.  A signal (SIGINT, SIGTERM, SIGHUP) may   *)
(* arrive at any time; its handler only notes it.                            *)
EXTENDS CommandDag

CONSTANT MaxErr     \* the values of cmdline.maxerr

ASSUME MaxErrAssumption == MaxErr \subseteq Nat

VARIABLES maxerr, nfail,
          last_signal,   \* a signal was noted
          at             \* where abt is: in the loop, or how it ended

abtvars == <<maxerr, nfail, last_signal, at>>
vars == <<dagvars, abtvars>>

Init ==
    /\ DagInit
    /\ maxerr \in MaxErr /\ nfail = 0 /\ last_signal = FALSE /\ at = "loop"

\* Slip: one process too many.
CanStartOneMore(c) ==
    /\ FirstReady(c)
    /\ Cardinality(Running) <= maxjobs

\* can_start, for the first command of the heap.
CanStart(c) ==
    /\ FirstReady(c)
    /\ Cardinality(Running) < maxjobs
Startable == \E c \in Cmd : CanStart(c)

\* Slip: it gives up a failure too early.
PrefailEarly(c) == fail_prereq[c] \/ last_signal \/ nfail + 1 >= maxerr

\* fail_prereq as it is when c is taken from the heap.
Prefail(c) == fail_prereq[c] \/ last_signal \/ nfail >= maxerr

StartCmd(c) ==
    /\ at = "loop" /\ CanStart(c)
    /\ c \notin empty /\ ~Prefail(c)
    /\ Fork(c)
    /\ UNCHANGED abtvars

\* errno_vrfy after fork throws: abt ends, and its children with it.
ForkFails(c) ==
    /\ at = "loop" /\ CanStart(c)
    /\ c \notin empty /\ ~Prefail(c)
    /\ at' = "thrown"
    /\ UNCHANGED <<dagvars, maxerr, nfail, last_signal>>

CountFailure(st) == nfail' = IF st # Ok THEN nfail + 1 ELSE nfail

\* A command that is not run completes at once.
SettleCmd(c) ==
    LET st == IF Prefail(c) THEN Failed ELSE Ok IN
    /\ at = "loop" /\ CanStart(c)
    /\ c \in empty \/ Prefail(c)
    /\ heap' = heap \ {c}
    /\ AdvanceDependent(c, st, [fail_prereq EXCEPT ![c] = Prefail(c)])
    /\ CountFailure(st)
    /\ UNCHANGED <<proc, maxerr, last_signal, at>>

\* The blocking waitpid, when nothing can be started.
WaitCmd(c) ==
    /\ at = "loop" /\ ~Startable
    /\ c \in Exited
    /\ Reap(c)
    /\ CountFailure(ExitStatus(c))
    /\ UNCHANGED <<maxerr, last_signal, at>>

\* Slip: the loop goes on while the heap is not empty, as lib_exec's does.
LeaveLoopEmpty ==
    /\ at = "loop" /\ heap = {} /\ Running = {}
    /\ at' = "built"
    /\ UNCHANGED <<dagvars, maxerr, nfail, last_signal>>

\* keepgoing is false: Main_Build throws if the heap is not empty.
LeaveLoop ==
    /\ at = "loop" /\ ~Startable /\ Running = {}
    /\ at' = IF heap = {} THEN "built" ELSE "dependency loop"
    /\ UNCHANGED <<dagvars, maxerr, nfail, last_signal>>

SignalHandler ==
    /\ at = "loop" /\ ~last_signal
    /\ last_signal' = TRUE
    /\ UNCHANGED <<dagvars, maxerr, nfail, at>>

\* Slip: a signal is not an error.
ExitCodeUnsignalled ==
    IF at # "built" \/ \E c \in Cmd : status[c] # Ok /\ ~fail_prereq[c]
    THEN 1 ELSE 0

\* Main_Build counts the commands that failed for a reason of their own in
\* report.n_err; main and Main make an exit code of that, of a signal and of
\* an exception.  ("error:" in the output of a command counts too; such a
\* command is left out.)
ExitCode ==
    IF last_signal \/ at # "built" \/ \E c \in Cmd : status[c] # Ok /\ ~fail_prereq[c]
    THEN 1 ELSE 0

Loop == LeaveLoop \/ \E c \in Cmd : StartCmd(c) \/ ForkFails(c) \/ SettleCmd(c) \/ WaitCmd(c)
Kernel == \E c \in Cmd : at = "loop" /\ ProcessExits(c) /\ UNCHANGED abtvars

Next == Loop \/ Kernel \/ SignalHandler

Spec == Init /\ [][Next]_vars

\* abt's only thread never rests, and every command ends by itself.
FairSpec == Spec /\ WF_vars(Loop) /\ WF_vars(Kernel)
=============================================================================
