------------------------------- MODULE LibExec -------------------------------
(* lib_exec's SyscmdExecute: the same runner as abt's, for the test drivers. *)
(* It also keeps the output of every command in a temporary file until the   *)
(* commands started before it are shown, and holds back new commands while   *)
(* too many such files are open.                                             *)
EXTENDS CommandDag, Sequences, SequencesExt

CONSTANT ComplOoo    \* the values of cmdline.complooo

ASSUME ComplOooAssumption == ComplOoo \subseteq BOOLEAN

VARIABLES complooo,
          started,   \* zd_started: oldest first
          shown,     \* history: the commands whose output was shown
          at         \* in SyscmdExecuteStep, before or at waitpid

execvars == <<complooo, started, shown, at>>
vars == <<dagvars, execvars>>

Init ==
    /\ DagInit
    /\ complooo \in ComplOoo /\ started = <<>> /\ shown = <<>> /\ at = "step"

\* Slip: the files are forgotten.
PotentialUnlimited(c) == FirstReady(c)

\* potential_cmd: the first command, unless the files of the commands started
\* hold it back.
Potential(c) ==
    /\ FirstReady(c)
    /\ Len(started) \div 2 <= maxjobs
CanStart(c) == Potential(c) /\ Cardinality(Running) < maxjobs

\* SyscmdExecute's loop condition.
Busy == heap # {} \/ Running # {}

\* StartCmd; the wait that follows blocks if no other command could start.
StartCmd(c) ==
    /\ at = "step" /\ CanStart(c)
    /\ c \notin empty /\ ~fail_prereq[c]
    /\ Fork(c)
    /\ started' = Append(started, c)
    /\ at' = IF Cardinality(Running) + 1 >= maxjobs THEN "block" ELSE "poll"
    /\ UNCHANGED <<complooo, shown>>

\* StartCmd without a process: an empty command, one whose prerequisite
\* failed, or a fork that failed.  It completes at once, and has written no
\* output that MarkStopped could show.
SettleCmd(c) ==
    /\ at = "step" /\ CanStart(c)
    /\ heap' = heap \ {c}
    /\ \E st \in IF c \in empty /\ ~fail_prereq[c] THEN {Ok} ELSE {Failed} :
          AdvanceDependent(c, st, fail_prereq)
    /\ UNCHANGED <<proc, execvars>>

\* Nothing can be started: wait for a command.
StartNothing ==
    /\ at = "step" /\ Busy
    /\ ~ \E c \in Cmd : CanStart(c)
    /\ Running # {}
    /\ at' = "block"
    /\ UNCHANGED <<dagvars, complooo, started, shown>>

\* Slip: it stops one command short at the end of the list.
RetiredShort(list, compl) ==
    CHOOSE n \in 0 .. Len(list) :
        /\ \A i \in 1 .. n : list[i] \in compl
        /\ n + 1 < Len(list) => list[n + 1] \notin compl

\* Slip: it takes off the whole list once its head has completed.
RetiredAll(list, compl) ==
    IF list # <<>> /\ list[1] \in compl THEN Len(list) ELSE 0

\* MarkStoppedInorder: the length of the part of `list` it takes off the
\* front, when the commands of `compl` have completed.
Retired(list, compl) ==
    CHOOSE n \in 0 .. Len(list) :
        /\ \A i \in 1 .. n : list[i] \in compl
        /\ n < Len(list) => list[n + 1] \notin compl

\* MarkStopped for a command that completed, if out of order is allowed, and
\* MarkStoppedInorder.
ShowCompleted(c) ==
    LET rest == IF complooo THEN RemoveFirst(started, c) ELSE started
        n == Retired(rest, Done \cup {c})
    IN /\ started' = SubSeq(rest, n + 1, Len(rest))
       /\ shown' = (IF complooo THEN Append(shown, c) ELSE shown) \o SubSeq(rest, 1, n)

\* waitpid returns a child.
WaitCmd(c) ==
    /\ at \in {"poll", "block"}
    /\ c \in Exited
    /\ Reap(c)
    /\ ShowCompleted(c)
    /\ at' = "step"
    /\ UNCHANGED complooo

\* waitpid with WNOHANG returns no child.
WaitNothing ==
    /\ at = "poll" /\ Exited = {}
    /\ at' = "step"
    /\ UNCHANGED <<dagvars, complooo, started, shown>>

Return ==
    /\ at = "step" /\ ~Busy
    /\ at' = "returned"
    /\ UNCHANGED <<dagvars, complooo, started, shown>>

\* The result: how many commands failed for a reason of their own.
NFail == Cardinality({c \in Cmd : status[c] # Ok /\ ~fail_prereq[c]})

Step == \/ \E c \in Cmd : StartCmd(c) \/ SettleCmd(c) \/ WaitCmd(c)
        \/ StartNothing \/ WaitNothing \/ Return
Kernel == \E c \in Cmd : ProcessExits(c) /\ UNCHANGED execvars

Next == Step \/ Kernel

Spec == Init /\ [][Next]_vars

\* The caller's thread goes round the loop, and every command ends by itself.
FairSpec == Spec /\ WF_vars(Step) /\ WF_vars(Kernel)
=============================================================================
