------------------------------ MODULE ShmProps -----------------------------
(* What the shared-memory ring must guarantee.                               *)
EXTENDS ShmRing

\* Type invariant.
TypeOK ==
    /\ mem \in [Unit -> [own : Nat \cup {NoMsg}, len : Nat]]
    /\ writer \in [off : Nat, limit : Nat, len : Nat,
                   at : {"idle", "spin", "fill", "seal", "publish"},
                   blocking : BOOLEAN]
    /\ member \in [Reader -> Nat]
    /\ sent \in Seq([off : Nat, len : Nat])
    /\ reader \in [Reader -> [off : Nat, ack : Nat,
                              at : {"poll", "peeked", "handled", "error", "gone"}]]
    /\ received \in [Reader -> Seq([off : Nat \cup {NoMsg}, len : Nat])]
    /\ ctl \in [Reader -> Seq(Nat)]
    /\ ctlcur \in [Reader -> BOOLEAN]

Writing == writer.at \in {"fill", "seal", "publish"}

\* The bytes being written, the next message's length field included, never
\* come round the ring to a message some registered reader has not skipped
\* yet, dead readers included: "overwrite data not yet consumed by one of the
\* read members" (UpdateWriteLimit, BeginWrite).
NoOverwrite ==
    Writing => \A r \in Reader :
        AddOffset(writer.off, writer.len) < reader[r].off + RingSize

\* No reader ever meets a header that is not the next message: ShmError,
\* which stops reading for good, is never raised (PeekMsg, EndWrite).
NoShmError == \A r \in Reader : reader[r].at # "error"

\* The ring is a broadcast: a handler is never given a message torn by a
\* later one, twice, out of order or before it is complete, and none is
\* skipped (EndWrite's fences, PeekMsg, SkipMsg).
Broadcast == INSTANCE Broadcast WITH
    log <- sent, received <- received, Msg <- [off : 0 .. NMsg * MaxMsg, len : MsgLen]
BroadcastSpec == Broadcast!Spec

NoneDied == \A r \in Reader : reader[r].at = "gone" => Len(received[r]) = NMsg

\* Liveness: every reader that stays alive catches up with the writer again
\* and again, so no published message is lost to it, whatever the other
\* readers do or die of.
EveryMessageArrives ==
    \A r \in Reader : []<>(Len(received[r]) = Len(sent) \/ ~Running(r))

OutOfRoom == Sending /\ ~HasRoom

\* Liveness: while no reader has died, a sender that found no room gets room
\* again, although heartbeats are dropped when a control shm is full (the
\* nonblocking mode, SendMsg's retries).
SenderResumes ==
    (OutOfRoom /\ ~writer.blocking) ~> (HasRoom \/ ~NoneDied)

\* The comment above WaitBudget says of the blocking mode: "poll indefinitely
\* all control shms (zd_ctlin list) for heartbeats that indicate that the shm
\* write space is finally available".
BlockedWriterResumes ==
    (writer.at = "spin") ~> (writer.at # "spin" \/ ~NoneDied)
=============================================================================
