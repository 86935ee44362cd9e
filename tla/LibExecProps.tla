---------------------------- MODULE LibExecProps ----------------------------
(* What lib_exec's command runner must guarantee.                            *)
EXTENDS LibExec

\* The commands whose files are open are bounded by maxjobs, whatever the
\* order they end in: "limit max # of started but un-completed commands,
\* these hold fds open and cause eventual out-of-fds error".
OpenFilesBounded ==
    /\ Len(started) <= 2 * maxjobs + 2
    /\ \A c \in Running : \E i \in DOMAIN started : started[i] = c

\* No result is both a success and a surprise: 0 is returned exactly when
\* every command completed and is CompletedOKQ ("successful run -> return
\* value 0").
ZeroMeansAllOk ==
    at = "returned" =>
        (NFail = 0 <=> \A c \in Cmd : c \in Done /\ status[c] = Ok /\ ~fail_prereq[c])

\* Outputs are shown in the order the commands were started in, each once and
\* whole, after its command has ended: what is shown or waits to be shown only
\* grows at its end ("Output appears in order of spawning, so it is immune to
\* racing conditions").
ShownInOrder ==
    [][/\ \A i \in DOMAIN shown' : shown'[i] \in Done'
       /\ ~complooo =>
            LET old == shown \o started
                new == shown' \o started'
            IN Len(old) <= Len(new) /\ SubSeq(new, 1, Len(old)) = old]_vars

\* Liveness: without a loop among the dependencies SyscmdExecute returns with
\* everything shown; the limits on processes and on files never lock it up.
ExecReturns == <>(HasLoop \/ (at = "returned" /\ started = <<>>))

\* The comment above SyscmdExecuteStep lists what ends a run early:
\* "exceptions: - dependency loop".
LoopEndsRun == <>(at = "returned")
=============================================================================
