------------------------------- MODULE DagRun -------------------------------
(* What a runner of dependent commands promises: no more than `jobs` of them *)
(* run at a time, each is run once at most, and only when every command it   *)
(* depends on has finished well; a command that depends on a failure fails.  *)
EXTENDS Naturals, FiniteSets

CONSTANT Cmd

VARIABLES prior,    \* prior[c]: the commands c must come after
          jobs,     \* how many may run together
          running,
          done,     \* finished, or given up
          failed    \* those of them that count as failures

vars == <<prior, jobs, running, done, failed>>

Init ==
    /\ prior \in [Cmd -> SUBSET Cmd]
    /\ jobs \in Nat
    /\ running = {} /\ done = {} /\ failed = {}

Ready(c) == c \notin running \cup done /\ prior[c] \subseteq done

Start(c) ==
    /\ Ready(c) /\ prior[c] \cap failed = {}
    /\ Cardinality(running) < jobs
    /\ running' = running \cup {c}
    /\ UNCHANGED <<prior, jobs, done, failed>>

Finish(c) ==
    /\ c \in running
    /\ running' = running \ {c} /\ done' = done \cup {c}
    /\ failed' \in {failed, failed \cup {c}}
    /\ UNCHANGED <<prior, jobs>>

\* A command that is never run: there is nothing to run, or it is given up.
Skip(c) ==
    /\ Ready(c)
    /\ done' = done \cup {c}
    /\ failed' \in {failed, failed \cup {c}}
    /\ prior[c] \cap failed # {} => c \in failed'
    /\ UNCHANGED <<prior, jobs, running>>

Next == \E c \in Cmd : Start(c) \/ Finish(c) \/ Skip(c)

Spec == Init /\ [][Next]_vars
=============================================================================
