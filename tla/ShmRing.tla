------------------------------ MODULE ShmRing ------------------------------
(* A shared-memory segment of lib_ams as ams_sendtest uses it: the parent    *)
(* writes the ring of shm log0, one child process per reader polls it, and   *)
(* the children report how far they have read by heartbeats (ShmHbMsg) that  *)
(* the parent reads from their control shms.                                 *)
(*                                                                           *)
(* Offsets and lengths are in units of 64 bytes, the cache line AddOffset    *)
(* rounds to.  A cell of the region is a header (the offset and the length   *)
(* of the message that starts there) or payload of the message `own`.  The   *)
(* control shms are rings of the same kind; here they are the FIFOs that     *)
(* rings implement, with room for CtlRoom unread heartbeats.  Only the       *)
(* heartbeats about log0 are kept: the others leave its write limit alone.   *)
EXTENDS Integers, Sequences

CONSTANTS Reader,    \* the children, registered with AddReadShmember
          RingSize,  \* offset_mask + 1
          MaxMsg,    \* _db.max_msg_size
          MsgLen,    \* the lengths SendMsg composes, header included
          NMsg,      \* cmdline.nmsg, which bounds the run
          CtlRoom,   \* unread heartbeats a control shm has room for
          MayCrash,  \* the readers that may die
          Blocking,  \* the values of cmdline.blocking
          Huge       \* ULLONG_MAX/2: the read offset of no reader at all

\* What ams_sendtest gives the ring: SetDfltShmSize rounds the ring up to a
\* power of two that holds two messages.
ASSUME RingAssumption ==
    /\ MaxMsg \in Nat \ {0} /\ RingSize \in Nat /\ RingSize >= 2 * MaxMsg
    /\ MsgLen \subseteq 1 .. MaxMsg
    /\ NMsg \in Nat /\ CtlRoom \in Nat /\ Huge \in Nat
    /\ MayCrash \subseteq Reader /\ Blocking \subseteq BOOLEAN

VARIABLES mem,       \* the shared region: ring and spill-over
          writer,    \* c_write of the parent, and where its thread is
          member,    \* member[r]: the parent's FShmember.off for reader r
          sent,      \* history: the messages published
          reader,    \* reader[r]: c_read of child r
          received,  \* history: what each child's handler was handed
          ctl,       \* ctl[r]: unread heartbeats on the control shm of r
          ctlcur     \* ctlcur[r]: the parent's c_cur_msg for ctl[r] is set

vars == <<mem, writer, member, sent, reader, received, ctl, ctlcur>>

-----------------------------------------------------------------------------
\* Positions and offsets.
Unit == 0 .. RingSize + MaxMsg - 1
Slot(off) == off % RingSize
Cells(off, len) == Slot(off) .. Slot(off) + len - 1
AddOffset(off, len) == off + len
NoMsg == -1

\* Bytes of the ring a reader may consume before it must report, rounded up
\* to the unit offsets move by.
AckStep == (RingSize + 7) \div 8

\* Slip: the message being written and the next header are forgotten.
WriteLimitsWhole(offs) ==
    {low + RingSize :
        low \in {o \in {offs[r] : r \in Reader} \cup {Huge} :
                   o <= Huge /\ \A r \in Reader : o <= offs[r]}}

\* Slip: the members are not asked.
WriteLimitsUnread(offs) == {Huge + RingSize - 2 * MaxMsg}

\* UpdateWriteLimit: the smallest read offset among the members decides.  The
\* set has one element.
WriteLimits(offs) ==
    {low + RingSize - 2 * MaxMsg :
        low \in {o \in {offs[r] : r \in Reader} \cup {Huge} :
                   o <= Huge /\ \A r \in Reader : o <= offs[r]}}

Init ==
    /\ mem = [u \in Unit |-> [own |-> NoMsg, len |-> 0]]
    /\ member = [r \in Reader |-> 0]
    /\ \E l \in WriteLimits(member), b \in Blocking :
          writer = [off |-> 0, limit |-> l, len |-> 0, at |-> "idle", blocking |-> b]
    /\ sent = <<>>
    /\ reader = [r \in Reader |-> [off |-> 0, ack |-> AckStep, at |-> "poll"]]
    /\ received = [r \in Reader |-> <<>>]
    /\ ctl = [r \in Reader |-> <<>>]
    /\ ctlcur = [r \in Reader |-> FALSE]

-----------------------------------------------------------------------------
\* The parent.

HasRoom == writer.off < writer.limit
Sending == Len(sent) < NMsg

\* SendMsg -> BeginWrite: without room a nonblocking writer drops the message
\* and tries again at the next timer, which changes nothing; a blocking one
\* enters the loop of WaitBudget.
BeginWrite(len) ==
    /\ writer.at = "idle" /\ Sending
    /\ HasRoom \/ writer.blocking
    /\ writer' = [writer EXCEPT !.len = len, !.at = IF HasRoom THEN "fill" ELSE "spin"]
    /\ UNCHANGED <<mem, member, sent, reader, received, ctl, ctlcur>>

\* CtlMsg_ShmHbMsg for the oldest heartbeat of every reader in R.
CtlMsg_ShmHbMsg(R) ==
    member' = [r \in Reader |-> IF r \in R THEN Head(ctl[r]) ELSE member[r]]

\* One turn of WaitBudget's loop: PollCtlIn peeks at every control shm,
\* handles what it finds, and SkipMsg moves on only where c_cur_msg was set
\* before.
PollCtlIn ==
    /\ writer.at = "spin"
    /\ LET R == {r \in Reader : ctl[r] # <<>>} IN
       /\ CtlMsg_ShmHbMsg(R)
       /\ ctl' = [r \in Reader |-> IF r \in R /\ ctlcur[r] THEN Tail(ctl[r]) ELSE ctl[r]]
       /\ ctlcur' = [r \in Reader |-> ctlcur[r] /\ r \notin R]
    /\ \E l \in WriteLimits(member') :
          writer' = [writer EXCEPT !.limit = l,
                                   !.at = IF writer.off < l THEN "fill" ELSE "spin"]
    /\ UNCHANGED <<mem, sent, reader, received>>

\* The message is composed in place and EndWrite fills its header, except for
\* the length.
FillMessage ==
    /\ writer.at = "fill"
    /\ mem' = [u \in Unit |->
                 CASE u = Slot(writer.off) -> [mem[u] EXCEPT !.own = writer.off]
                   [] u \in Cells(writer.off, writer.len) \ {Slot(writer.off)}
                        -> [own |-> writer.off, len |-> writer.len]
                   [] OTHER -> mem[u]]
    /\ writer' = [writer EXCEPT !.at = "seal"]
    /\ UNCHANGED <<member, sent, reader, received, ctl, ctlcur>>

\* next->length = 0, before the fence.
SealNext ==
    /\ writer.at = "seal"
    /\ mem' = [mem EXCEPT ![Slot(AddOffset(writer.off, writer.len))].len = 0]
    /\ writer' = [writer EXCEPT !.at = "publish"]
    /\ UNCHANGED <<member, sent, reader, received, ctl, ctlcur>>

\* shmmsg->length = L, after the fence: the message is ready.  c_write->off
\* is the parent's own, so moving it here is the same as before the fence.
PublishLength ==
    /\ writer.at = "publish"
    /\ mem' = [mem EXCEPT ![Slot(writer.off)].len = writer.len]
    /\ sent' = Append(sent, [off |-> writer.off, len |-> writer.len])
    /\ writer' = [writer EXCEPT !.off = AddOffset(@, writer.len), !.at = "idle"]
    /\ UNCHANGED <<member, reader, received, ctl, ctlcur>>

\* cd_poll_read_Step on a control shm.
PeekCtl(r) ==
    /\ writer.at = "idle" /\ ctl[r] # <<>> /\ ~ctlcur[r]
    /\ ctlcur' = [ctlcur EXCEPT ![r] = TRUE]
    /\ UNCHANGED <<mem, writer, member, sent, reader, received, ctl>>

\* bh_shmember_read_Step on a control shm: handle, skip, peek at the next.
ReadCtl(r) ==
    /\ writer.at = "idle" /\ ctlcur[r]
    /\ CtlMsg_ShmHbMsg({r})
    /\ \E l \in WriteLimits(member') : writer' = [writer EXCEPT !.limit = l]
    /\ ctl' = [ctl EXCEPT ![r] = Tail(@)]
    /\ ctlcur' = [ctlcur EXCEPT ![r] = Tail(ctl[r]) # <<>>]
    /\ UNCHANGED <<mem, sent, reader, received>>

-----------------------------------------------------------------------------
\* The children.

\* SendHb: a control shm without room refuses the heartbeat.
SendHb(r, off) ==
    ctl' = IF Len(ctl[r]) < CtlRoom THEN [ctl EXCEPT ![r] = Append(@, off)] ELSE ctl

\* Slip: a message of the least length is taken for none.
PeekMsgLong(r) ==
    /\ reader[r].at = "poll"
    /\ LET head == mem[Slot(reader[r].off)] IN
       /\ head.len > 1
       /\ reader' = [reader EXCEPT ![r].at =
                        IF head.own = reader[r].off THEN "peeked" ELSE "error"]
    /\ UNCHANGED <<mem, writer, member, sent, received, ctl, ctlcur>>

\* PeekMsg on log0, by cd_poll_read_Step or after the previous message.
PeekMsg(r) ==
    /\ reader[r].at = "poll"
    /\ LET head == mem[Slot(reader[r].off)] IN
       /\ head.len > 0
       /\ reader' = [reader EXCEPT ![r].at =
                        IF head.own = reader[r].off THEN "peeked" ELSE "error"]
    /\ UNCHANGED <<mem, writer, member, sent, received, ctl, ctlcur>>

\* h_amsmsg_Call: the handler reads the message where it lies in the ring.
\* What it gets is named by the owners of the cells.
HandleMsg(r) ==
    /\ reader[r].at = "peeked"
    /\ LET head == mem[Slot(reader[r].off)]
           owns == {mem[u].own : u \in Cells(reader[r].off, head.len) \cap Unit}
       IN received' = [received EXCEPT ![r] =
              Append(@, [off |-> IF owns = {head.own} THEN head.own ELSE NoMsg,
                         len |-> head.len])]
    /\ reader' = [reader EXCEPT ![r].at = "handled"]
    /\ UNCHANGED <<mem, writer, member, sent, ctl, ctlcur>>

\* SkipMsg: it reads the length again and reports every AckStep.
SkipMsg(r) ==
    /\ reader[r].at = "handled"
    /\ LET off == AddOffset(reader[r].off, mem[Slot(reader[r].off)].len) IN
       IF off >= reader[r].ack
       THEN /\ reader' = [reader EXCEPT ![r] = [off |-> off, ack |-> off + AckStep, at |-> "poll"]]
            /\ SendHb(r, off)
       ELSE /\ reader' = [reader EXCEPT ![r].off = off, ![r].at = "poll"]
            /\ UNCHANGED ctl
    /\ UNCHANGED <<mem, writer, member, sent, received, ctlcur>>

Running(r) == reader[r].at # "gone"

\* Slip: the timer reports nothing.
HeartbeatMute(r) ==
    /\ Running(r)
    /\ UNCHANGED vars

\* cd_hb_Step, every cd_hb_delay.
Heartbeat(r) ==
    /\ Running(r)
    /\ SendHb(r, reader[r].off)
    /\ UNCHANGED <<mem, writer, member, sent, reader, received, ctlcur>>

\* A child leaves its main loop when it has all messages; it may also die.
Leave(r) ==
    /\ Running(r)
    /\ \/ Len(received[r]) = NMsg /\ reader[r].at = "poll"
       \/ r \in MayCrash
    /\ reader' = [reader EXCEPT ![r].at = "gone"]
    /\ UNCHANGED <<mem, writer, member, sent, received, ctl, ctlcur>>

-----------------------------------------------------------------------------
Parent == \/ \E len \in MsgLen : BeginWrite(len)
          \/ PollCtlIn
          \/ FillMessage
          \/ SealNext
          \/ PublishLength
          \/ \E r \in Reader : PeekCtl(r) \/ ReadCtl(r)

Child(r) == PeekMsg(r) \/ HandleMsg(r) \/ SkipMsg(r)

Next == Parent \/ \E r \in Reader : Child(r) \/ Heartbeat(r) \/ Leave(r)

Spec == Init /\ [][Next]_vars

\* Every process runs a polling main loop: each of its steps is taken again
\* and again while it is possible.
FairSpec ==
    /\ Spec
    /\ WF_vars(\E len \in MsgLen : BeginWrite(len))
    /\ WF_vars(PollCtlIn) /\ WF_vars(FillMessage) /\ WF_vars(SealNext)
    /\ WF_vars(PublishLength)
    /\ \A r \in Reader : /\ SF_vars(PeekCtl(r)) /\ SF_vars(ReadCtl(r))
                         /\ WF_vars(Child(r)) /\ WF_vars(Heartbeat(r))
=============================================================================
