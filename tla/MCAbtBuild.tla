----------------------------- MODULE MCAbtBuild -----------------------------
(* Instances of abt's command runner for TLC.                                *)
EXTENDS AbtProps

\* The dependencies among NCmd commands, loops included, of which each comes
\* after two others at most and at least two after none or themselves.
MCGraphs == {g \in [Cmd -> {S \in SUBSET Cmd : Cardinality(S) <= 2}] :
                Cardinality({c \in Cmd : g[c] \subseteq {c}}) >= 2}
MCEmpties == {{}, {1}}
MCMaxJobs == {1, 2}
MCMaxErr == {1, 2}
=============================================================================
