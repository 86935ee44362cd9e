------------------------------ MODULE MCLibExec ------------------------------
(* Instances of lib_exec's command runner for TLC.                           *)
EXTENDS LibExecProps

\* No dependencies, a chain, a fork with a join, and the start and end
\* commands the test drivers put around their scripts.
After(pairs) == [c \in Cmd |-> {p \in Cmd : <<p, c>> \in pairs}]
MCGraphs == {After(pairs) : pairs \in
    {{}, {<<1, c>> : c \in 2 .. NCmd}, {<<c, NCmd>> : c \in 1 .. NCmd - 1},
     {<<1, 2>>, <<1, 3>>, <<2, 4>>, <<3, 4>>, <<4, 5>>, <<5, 6>>, <<5, 7>>}}}
MCLoops == {After({<<1, 2>>, <<2, 1>>}), After({<<1, 1>>})}
MCEmpties == {{}, {1}}
MCMaxJobs == {1, 2}
MCBoth == BOOLEAN
=============================================================================
