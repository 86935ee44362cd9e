----------------------------- MODULE CommandDag -----------------------------
(* The commands of a build and the heap they wait in: the tables syscmd,     *)
(* syscmddep and bh_syscmd that abt's Build_RunDag and lib_exec's            *)
(* SyscmdExecute, "a copy of the code in abt.cpp", both work on.             *)
(*                                                                           *)
(* A command is its rowid.  Every nonzero status counts as Failed: nothing   *)
(* looks further into it.  The texts, the outputs and the times are left     *)
(* out.                                                                      *)
EXTENDS Naturals, FiniteSets

CONSTANTS NCmd,     \* syscmd_N()
          Graphs,   \* the dependencies to consider: prior commands of each
          Empties,  \* the sets of commands without a text to consider
          MaxJobs   \* the values of cmdline.maxjobs, at least 1 in both

Cmd == 1 .. NCmd

ASSUME DagAssumption ==
    /\ NCmd \in Nat
    /\ Graphs \subseteq [Cmd -> SUBSET Cmd]
    /\ Empties \subseteq SUBSET Cmd
    /\ MaxJobs \subseteq Nat \ {0}

VARIABLES prior,        \* c_prior of each command
          empty,        \* commands that only order others
          maxjobs,
          heap,         \* bh_syscmd
          nprereq,
          fail_prereq,
          status,
          proc          \* the process of each command, as the kernel sees it

dag == <<prior, empty, maxjobs>>
dagvars == <<prior, empty, maxjobs, heap, nprereq, fail_prereq, status, proc>>

Ok == 0
Failed == 1

\* ind_running: the commands with a process that was not waited for.
Running == {c \in Cmd : proc[c] # "none"}
Exited == {c \in Cmd : proc[c] \in {"ok", "failed"}}
Done == Cmd \ (heap \cup Running)

\* Every command is in the heap and counts its prerequisites.
DagInit ==
    /\ prior \in Graphs /\ empty \in Empties /\ maxjobs \in MaxJobs
    /\ heap = Cmd
    /\ nprereq = [c \in Cmd |-> Cardinality(prior[c])]
    /\ fail_prereq = [c \in Cmd |-> FALSE]
    /\ status = [c \in Cmd |-> Ok]
    /\ proc = [c \in Cmd |-> "none"]

\* Slip: by age only.
BeforeByAge(c, d) == c <= d

\* execkey orders the heap by nprereq, then by age.
Before(c, d) == nprereq[c] < nprereq[d] \/ (nprereq[c] = nprereq[d] /\ c <= d)
First(c) == c \in heap /\ \A d \in heap : Before(c, d)
FirstReady(c) == First(c) /\ nprereq[c] = 0

\* Slip: the command is taken for one of those that depend on it.
AdvanceSelf(c, st, pre) ==
    /\ status' = [status EXCEPT ![c] = st]
    /\ nprereq' = [d \in Cmd |-> IF c \in prior[d] \cup {d} THEN nprereq[d] - 1 ELSE nprereq[d]]
    /\ fail_prereq' = [d \in Cmd |-> pre[d] \/ (c \in prior[d] \cup {d} /\ st # Ok)]
    /\ UNCHANGED dag

\* Build_AdvanceDependent: command c completed with status st; `pre` are the
\* fail_prereq flags as they are by then.
AdvanceDependent(c, st, pre) ==
    /\ status' = [status EXCEPT ![c] = st]
    /\ nprereq' = [d \in Cmd |-> IF c \in prior[d] THEN nprereq[d] - 1 ELSE nprereq[d]]
    /\ fail_prereq' = [d \in Cmd |-> pre[d] \/ (c \in prior[d] /\ st # Ok)]
    /\ UNCHANGED dag

\* fork and exec.
Fork(c) ==
    /\ heap' = heap \ {c}
    /\ proc' = [proc EXCEPT ![c] = "alive"]
    /\ UNCHANGED <<prior, empty, maxjobs, nprereq, fail_prereq, status>>

ExitStatus(c) == IF proc[c] = "ok" THEN Ok ELSE Failed

\* waitpid gives the status of c, and c leaves ind_running.
Reap(c) ==
    /\ proc' = [proc EXCEPT ![c] = "none"]
    /\ AdvanceDependent(c, ExitStatus(c), fail_prereq)
    /\ UNCHANGED heap

\* The kernel: a process ends by itself or by a signal.
ProcessExits(c) ==
    /\ proc[c] = "alive"
    /\ \E how \in {"ok", "failed"} : proc' = [proc EXCEPT ![c] = how]
    /\ UNCHANGED <<prior, empty, maxjobs, heap, nprereq, fail_prereq, status>>

-----------------------------------------------------------------------------
\* A loop is a set of commands that each come after another one of it.
HasLoop == \E S \in SUBSET Cmd : S # {} /\ \A c \in S : prior[c] \cap S # {}

DagTypeOK ==
    /\ prior \in [Cmd -> SUBSET Cmd] /\ empty \subseteq Cmd /\ maxjobs \in Nat
    /\ heap \subseteq Cmd
    /\ nprereq \in [Cmd -> Nat]
    /\ fail_prereq \in [Cmd -> BOOLEAN]
    /\ status \in [Cmd -> {Ok, Failed}]
    /\ proc \in [Cmd -> {"none", "alive", "ok", "failed"}]

\* nprereq, which is counted down, is the number of prerequisites still to
\* complete, and fail_prereq of a waiting command tells whether one that
\* completed has failed (Build_AdvanceDependent).
PrereqsCounted ==
    \A c \in heap :
        /\ nprereq[c] = Cardinality(prior[c] \ Done)
        /\ fail_prereq[c] <=> \E p \in prior[c] \cap Done : status[p] # Ok

\* No command is run before everything it depends on has succeeded
\* (Build_RunDag: "either start a new process, or wait for one").
RunsAfterPrereqs ==
    \A c \in Running : \A p \in prior[c] : p \in Done /\ status[p] = Ok

\* What is done to the heap is what a runner of dependent commands may do: at
\* most maxjobs at a time, nothing twice, nothing too early, and what depends
\* on a failure fails (Build_RunDag, SyscmdExecuteStep).
Dag == INSTANCE DagRun WITH
    jobs <- maxjobs, running <- Running, done <- Done,
    failed <- {c \in Done : status[c] # Ok}
DagSpec == Dag!Spec
=============================================================================
