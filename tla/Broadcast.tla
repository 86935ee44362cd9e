----------------------------- MODULE Broadcast -----------------------------
(* What a lib_ams shm promises to the processes attached to it: one writer   *)
(* appends messages, and every reader receives all of them, in the order of  *)
(* writing, each exactly once and as it was written.                         *)
EXTENDS Sequences, Naturals

CONSTANTS Reader,   \* the reading processes
          Msg       \* what can be written

VARIABLES log,      \* every message written, oldest first
          received  \* received[r]: what reader r was handed, oldest first

vars == <<log, received>>

Init == log = <<>> /\ received = [r \in Reader |-> <<>>]

Write == /\ \E m \in Msg : log' = Append(log, m)
         /\ UNCHANGED received

Receive(r) ==
    /\ Len(received[r]) < Len(log)
    /\ received' = [received EXCEPT ![r] = Append(@, log[Len(@) + 1])]
    /\ UNCHANGED log

Next == Write \/ \E r \in Reader : Receive(r)

Spec == Init /\ [][Next]_vars
=============================================================================
