----------------------------- MODULE ShmProofs -----------------------------
(* The shared-memory ring, for every ring size, every set of readers and     *)
(* every choice of message lengths: the writer never overwrites a message    *)
(* that a reader still needs, no reader meets a bad header, and the ring is  *)
(* a broadcast.                                                              *)
EXTENDS ShmProps, TLAPS

-----------------------------------------------------------------------------
(* Offsets and the cells they fall on. *)

LEMMA ModFact ==
    ASSUME NEW n \in Nat \ {0}, NEW a \in Nat
    PROVE  (a % n) \in 0 .. n - 1 /\ a = n * (a \div n) + (a % n) /\ a \div n \in Nat
OBVIOUS

\* Two numbers less than n apart are as far apart modulo n, or one turn less.
LEMMA ModNear ==
    ASSUME NEW n \in Nat \ {0}, NEW a \in Nat, NEW b \in Nat, a <= b, b < a + n
    PROVE  b % n \in {(a % n) + (b - a), (a % n) + (b - a) - n}
<1> DEFINE p == a \div n
           q == b \div n
<1>1. /\ (a % n) \in 0 .. n - 1 /\ a = n * p + (a % n) /\ p \in Nat
      /\ (b % n) \in 0 .. n - 1 /\ b = n * q + (b % n) /\ q \in Nat
  BY ModFact
<1> HIDE DEF p, q
<1>2. CASE q < p
  <2>1. PICK d \in Nat : p = q + 1 + d
    <3>1. p - q - 1 \in Nat /\ p = q + 1 + (p - q - 1)
      BY <1>1, <1>2
    <3> QED
      BY <3>1
  <2>2. n * p = n * q + n + n * d /\ n * d \in Nat
    BY <1>1, <2>1
  <2> QED
    BY <1>1, <2>2
<1>3. CASE q = p
  BY <1>1, <1>3
<1>4. CASE q = p + 1
  <2>1. n * q = n * p + n
    BY <1>1, <1>4
  <2> QED
    BY <1>1, <2>1
<1>5. CASE q > p + 1
  <2>1. PICK d \in Nat : q = p + 2 + d
    <3>1. q - p - 2 \in Nat /\ q = p + 2 + (q - p - 2)
      BY <1>1, <1>5
    <3> QED
      BY <3>1
  <2>2. n * q = n * p + n + n + n * d /\ n * d \in Nat
    BY <1>1, <2>1
  <2> QED
    BY <1>1, <2>2
<1> QED
  BY <1>1, <1>2, <1>3, <1>4, <1>5

LEMMA Sizes ==
    /\ RingSize \in Nat \ {0} /\ MaxMsg \in Nat \ {0} /\ RingSize >= 2 * MaxMsg
    /\ \A len \in MsgLen : len \in 1 .. MaxMsg
    /\ NMsg \in Nat /\ CtlRoom \in Nat /\ Huge \in Nat
BY RingAssumption

LEMMA SlotType == \A a \in Nat : Slot(a) \in 0 .. RingSize - 1
BY Sizes, ModFact DEF Slot

LEMMA SlotNear ==
    ASSUME NEW a \in Nat, NEW b \in Nat, a <= b, b < a + RingSize
    PROVE  Slot(b) = Slot(a) + (b - a) \/ Slot(b) = Slot(a) + (b - a) - RingSize
BY Sizes, ModNear DEF Slot

\* Offsets less than a ring apart have different slots.
LEMMA SlotsDiffer ==
    ASSUME NEW a \in Nat, NEW b \in Nat, a < b, b < a + RingSize
    PROVE  Slot(a) # Slot(b)
<1>1. Slot(a) \in 0 .. RingSize - 1 /\ RingSize \in Nat
  BY SlotType, Sizes
<1>2. Slot(b) = Slot(a) + (b - a) \/ Slot(b) = Slot(a) + (b - a) - RingSize
  BY SlotNear
<1> QED
  BY <1>1, <1>2

\* A message that ends where another begins, or before, shares no cell with
\* it while both lie within one ring.
LEMMA CellsApart ==
    ASSUME NEW a \in Nat, NEW m \in Nat, NEW b \in Nat, NEW n \in Nat,
           a + m <= b, b + n < a + RingSize
    PROVE  Cells(a, m) \cap Cells(b, n) = {}
<1>1. Slot(a) \in 0 .. RingSize - 1 /\ Slot(b) \in 0 .. RingSize - 1
  BY SlotType
<1>2. Slot(b) = Slot(a) + (b - a) \/ Slot(b) = Slot(a) + (b - a) - RingSize
  BY SlotNear, Sizes
<1> QED
  BY <1>1, <1>2, Sizes DEF Cells

LEMMA CellsInRegion ==
    ASSUME NEW a \in Nat, NEW len \in MsgLen
    PROVE  /\ Cells(a, len) \subseteq Unit /\ Slot(a) \in Cells(a, len)
           /\ Slot(a) \in Unit
BY SlotType, Sizes DEF Cells, Unit

LEMMA LimitFacts ==
    ASSUME NEW offs \in [Reader -> Nat], NEW l \in WriteLimits(offs)
    PROVE  /\ l \in Nat
           /\ \A r \in Reader : l <= offs[r] + RingSize - 2 * MaxMsg
<1>1. PICK low \in {offs[r] : r \in Reader} \cup {Huge} :
         /\ \A r \in Reader : low <= offs[r]
         /\ l = low + RingSize - 2 * MaxMsg
  BY DEF WriteLimits
<1>2. low \in Nat
  BY Sizes
<1>3. l \in Nat
  BY <1>1, <1>2, Sizes
<1>4. ASSUME NEW r \in Reader PROVE l <= offs[r] + RingSize - 2 * MaxMsg
  <2>1. offs[r] \in Nat /\ low <= offs[r]
    BY <1>1
  <2> QED
    BY <1>1, <1>2, <2>1, Sizes
<1> QED
  BY <1>3, <1>4

-----------------------------------------------------------------------------
\* How far the writing reaches: to the next header once a message is begun.
Reach == IF Writing THEN AddOffset(writer.off, writer.len) ELSE writer.off

\* Where message i ends.
EndOf(i) == IF i = 0 THEN 0 ELSE AddOffset(sent[i].off, sent[i].len)

\* No heartbeat is ahead of its reader, and the limit not ahead of any.
Limited ==
    \A r \in Reader :
        /\ member[r] <= reader[r].off
        /\ \A i \in DOMAIN ctl[r] : ctl[r][i] <= reader[r].off
        /\ ctlcur[r] => ctl[r] # <<>>
        /\ writer.limit <= member[r] + RingSize - 2 * MaxMsg
        /\ Reach < reader[r].off + RingSize

\* The message being written, or waiting for room to be.
Prepared ==
    /\ Writing => HasRoom
    /\ writer.at # "idle" => writer.len \in MsgLen /\ Len(sent) < NMsg

\* The messages lie end to end.
Tiled ==
    /\ Len(sent) <= NMsg
    /\ writer.off = EndOf(Len(sent))
    /\ \A i \in DOMAIN sent : sent[i].off = EndOf(i - 1) /\ sent[i].len \in MsgLen
    /\ \A i \in 0 .. Len(sent) : EndOf(i) <= i * MaxMsg /\ EndOf(i) <= writer.off

\* The region holds every message the writing has not come round to.
Intact(m) ==
    /\ \A u \in Cells(m.off, m.len) : mem[u].own = m.off
    /\ mem[Slot(m.off)].len = m.len
Stored ==
    /\ \A i \in DOMAIN sent : Reach < sent[i].off + RingSize => Intact(sent[i])
    /\ mem[Slot(writer.off)].len = 0
    /\ writer.at \in {"seal", "publish"} =>
          \A u \in Cells(writer.off, writer.len) : mem[u].own = writer.off
    /\ writer.at = "publish" => mem[Slot(AddOffset(writer.off, writer.len))].len = 0

\* Every reader has received the first messages and stands after them.
Follows(r) ==
    LET n == Len(received[r]) IN
    /\ n <= Len(sent)
    /\ \A i \in 1 .. n : received[r][i] = sent[i]
    /\ reader[r].at # "error"
    /\ reader[r].at \in {"poll", "peeked"} => reader[r].off = EndOf(n)
    /\ reader[r].at = "peeked" => n < Len(sent)
    /\ reader[r].at = "handled" => n > 0 /\ reader[r].off = EndOf(n - 1)
Following == \A r \in Reader : Follows(r)

IInv == TypeOK /\ Limited /\ Prepared /\ Tiled /\ Stored /\ Following

-----------------------------------------------------------------------------
(* Types. *)

LEMMA InitTypeOK == Init => TypeOK
<1> SUFFICES ASSUME Init PROVE TypeOK
  OBVIOUS
<1>1. member \in [Reader -> Nat]
  BY DEF Init
<1>2. writer \in [off : Nat, limit : Nat, len : Nat,
                  at : {"idle", "spin", "fill", "seal", "publish"},
                  blocking : BOOLEAN]
  <2>1. PICK l \in WriteLimits(member), b \in Blocking :
           writer = [off |-> 0, limit |-> l, len |-> 0, at |-> "idle", blocking |-> b]
    BY DEF Init
  <2>2. l \in Nat /\ b \in BOOLEAN
    BY <1>1, LimitFacts, RingAssumption
  <2> QED
    BY <2>1, <2>2
<1>3. AckStep \in Nat
  BY Sizes DEF AckStep
<1>4. mem \in [Unit -> [own : Nat \cup {NoMsg}, len : Nat]]
  BY DEF Init
<1>5. reader \in [Reader -> [off : Nat, ack : Nat,
                             at : {"poll", "peeked", "handled", "error", "gone"}]]
  BY <1>3 DEF Init
<1> QED
  BY <1>1, <1>2, <1>4, <1>5 DEF Init, TypeOK

\* The heartbeats that are read are numbers.
LEMMA HeadType ==
    ASSUME TypeOK, NEW r \in Reader, ctl[r] # <<>>
    PROVE  /\ Head(ctl[r]) \in Nat /\ Tail(ctl[r]) \in Seq(Nat)
           /\ 1 \in DOMAIN ctl[r] /\ Head(ctl[r]) = ctl[r][1]
           /\ \A i \in DOMAIN Tail(ctl[r]) : i + 1 \in DOMAIN ctl[r]
                                             /\ Tail(ctl[r])[i] = ctl[r][i + 1]
BY DEF TypeOK

LEMMA BeginTypeOK ==
    ASSUME TypeOK, NEW len \in MsgLen, BeginWrite(len)
    PROVE  TypeOK'
<1>1. len \in Nat
  BY Sizes
<1>2. PICK at \in {"fill", "spin"} : writer' = [writer EXCEPT !.len = len, !.at = at]
  BY DEF BeginWrite
<1>3. writer' \in [off : Nat, limit : Nat, len : Nat,
                   at : {"idle", "spin", "fill", "seal", "publish"},
                   blocking : BOOLEAN]
  BY <1>1, <1>2 DEF TypeOK
<1> QED
  BY <1>3 DEF BeginWrite, TypeOK

LEMMA PollTypeOK ==
    ASSUME TypeOK, PollCtlIn
    PROVE  TypeOK'
<1> DEFINE R == {r \in Reader : ctl[r] # <<>>}
<1>1. member' \in [Reader -> Nat]
  <2>1. member' = [r \in Reader |-> IF r \in R THEN Head(ctl[r]) ELSE member[r]]
    BY DEF PollCtlIn, CtlMsg_ShmHbMsg
  <2> QED
    BY <2>1, HeadType DEF TypeOK
<1>2. writer' \in [off : Nat, limit : Nat, len : Nat,
                   at : {"idle", "spin", "fill", "seal", "publish"},
                   blocking : BOOLEAN]
  BY <1>1, LimitFacts DEF PollCtlIn, TypeOK
<1>3. ctl' \in [Reader -> Seq(Nat)]
  <2>1. ctl' = [r \in Reader |-> IF r \in R /\ ctlcur[r] THEN Tail(ctl[r]) ELSE ctl[r]]
    BY DEF PollCtlIn
  <2> QED
    BY <2>1, HeadType DEF TypeOK
<1>4. ctlcur' \in [Reader -> BOOLEAN]
  BY DEF PollCtlIn, TypeOK
<1>5. UNCHANGED <<mem, sent, reader, received>>
  BY DEF PollCtlIn
<1> QED
  BY <1>1, <1>2, <1>3, <1>4, <1>5 DEF TypeOK

LEMMA FillTypeOK ==
    ASSUME TypeOK, FillMessage
    PROVE  TypeOK'
<1>1. /\ writer.off \in Nat /\ writer.len \in Nat
      /\ mem \in [Unit -> [own : Nat \cup {NoMsg}, len : Nat]]
  BY DEF TypeOK
<1>2. mem' \in [Unit -> [own : Nat \cup {NoMsg}, len : Nat]]
  BY <1>1 DEF FillMessage
<1>3. writer' \in [off : Nat, limit : Nat, len : Nat,
                   at : {"idle", "spin", "fill", "seal", "publish"},
                   blocking : BOOLEAN]
  BY DEF FillMessage, TypeOK
<1> QED
  BY <1>2, <1>3 DEF FillMessage, TypeOK

LEMMA SealTypeOK ==
    ASSUME TypeOK, SealNext
    PROVE  TypeOK'
BY DEF SealNext, TypeOK

LEMMA PublishTypeOK ==
    ASSUME TypeOK, PublishLength
    PROVE  TypeOK'
<1>1. writer.off \in Nat /\ writer.len \in Nat
  BY DEF TypeOK
<1>2. mem' \in [Unit -> [own : Nat \cup {NoMsg}, len : Nat]]
  BY <1>1 DEF PublishLength, TypeOK
<1>3. sent' \in Seq([off : Nat, len : Nat])
  BY <1>1 DEF PublishLength, TypeOK
<1>4. writer' \in [off : Nat, limit : Nat, len : Nat,
                   at : {"idle", "spin", "fill", "seal", "publish"},
                   blocking : BOOLEAN]
  <2>1. writer.off + writer.len \in Nat
    BY <1>1
  <2>2. writer' = [writer EXCEPT !.off = writer.off + writer.len, !.at = "idle"]
    BY DEF PublishLength, AddOffset
  <2> QED
    BY <2>1, <2>2 DEF TypeOK
<1> QED
  BY <1>2, <1>3, <1>4 DEF PublishLength, TypeOK

LEMMA PeekCtlTypeOK ==
    ASSUME TypeOK, NEW r \in Reader, PeekCtl(r)
    PROVE  TypeOK'
BY DEF PeekCtl, TypeOK

LEMMA ReadCtlTypeOK ==
    ASSUME TypeOK, NEW r \in Reader, ReadCtl(r), ctl[r] # <<>>
    PROVE  TypeOK'
<1>1. member' \in [Reader -> Nat]
  <2>1. member' = [q \in Reader |-> IF q \in {r} THEN Head(ctl[q]) ELSE member[q]]
    BY DEF ReadCtl, CtlMsg_ShmHbMsg
  <2> QED
    BY <2>1, HeadType DEF TypeOK
<1>2. writer' \in [off : Nat, limit : Nat, len : Nat,
                   at : {"idle", "spin", "fill", "seal", "publish"},
                   blocking : BOOLEAN]
  BY <1>1, LimitFacts DEF ReadCtl, TypeOK
<1>3. ctl' \in [Reader -> Seq(Nat)]
  BY HeadType DEF ReadCtl, TypeOK
<1>4. ctlcur' \in [Reader -> BOOLEAN]
  BY DEF ReadCtl, TypeOK
<1>5. UNCHANGED <<mem, sent, reader, received>>
  BY DEF ReadCtl
<1> QED
  BY <1>1, <1>2, <1>3, <1>4, <1>5 DEF TypeOK

LEMMA SendHbType ==
    ASSUME TypeOK, NEW r \in Reader, NEW off \in Nat, SendHb(r, off)
    PROVE  /\ ctl' \in [Reader -> Seq(Nat)]
           /\ \A q \in Reader : ctl'[q] = ctl[q] \/ (q = r /\ ctl'[q] = Append(ctl[q], off))
<1>1. ctl \in [Reader -> Seq(Nat)]
  BY DEF TypeOK
<1>2. CASE ctl' = ctl
  BY <1>1, <1>2
<1>3. CASE ctl' = [ctl EXCEPT ![r] = Append(@, off)]
  BY <1>1, <1>3
<1> QED
  BY <1>2, <1>3 DEF SendHb

LEMMA PeekTypeOK ==
    ASSUME TypeOK, NEW r \in Reader, PeekMsg(r)
    PROVE  TypeOK'
BY DEF PeekMsg, TypeOK

\* The header a reader looks at is a cell.
LEMMA HeaderType ==
    ASSUME TypeOK, NEW r \in Reader
    PROVE  /\ reader[r].off \in Nat /\ reader[r].ack \in Nat
           /\ mem[Slot(reader[r].off)] \in [own : Nat \cup {NoMsg}, len : Nat]
           /\ received[r] \in Seq([off : Nat \cup {NoMsg}, len : Nat])
<1>1. reader[r].off \in Nat
  BY DEF TypeOK
<1>2. Slot(reader[r].off) \in Unit
  BY <1>1, SlotType, Sizes DEF Unit
<1> QED
  BY <1>1, <1>2 DEF TypeOK

LEMMA HandleTypeOK ==
    ASSUME TypeOK, NEW r \in Reader, HandleMsg(r)
    PROVE  TypeOK'
<1> DEFINE head == mem[Slot(reader[r].off)]
           owns == {mem[u].own : u \in Cells(reader[r].off, head.len) \cap Unit}
           msg == [off |-> IF owns = {head.own} THEN head.own ELSE NoMsg, len |-> head.len]
<1>1. head \in [own : Nat \cup {NoMsg}, len : Nat]
  BY HeaderType
<1>2. received' = [received EXCEPT ![r] = Append(@, msg)]
  BY DEF HandleMsg
<1> HIDE DEF owns, head
<1>3. msg \in [off : Nat \cup {NoMsg}, len : Nat]
  BY <1>1
<1> HIDE DEF msg
<1>4. received' \in [Reader -> Seq([off : Nat \cup {NoMsg}, len : Nat])]
  <2> DEFINE S == [off : Nat \cup {NoMsg}, len : Nat]
  <2> HIDE DEF S
  <2>0. received[r] \in Seq(S) /\ msg \in S
    BY <1>3, HeaderType DEF S
  <2>1. Append(received[r], msg) \in Seq([off : Nat \cup {NoMsg}, len : Nat])
    <3>1. Append(received[r], msg) \in Seq(S)
      BY <2>0
    <3> QED
      BY <3>1 DEF S
  <2>2. received' = [received EXCEPT ![r] = Append(received[r], msg)]
    BY <1>2
  <2> QED
    BY <2>1, <2>2 DEF TypeOK
<1>5. reader' \in [Reader -> [off : Nat, ack : Nat,
                              at : {"poll", "peeked", "handled", "error", "gone"}]]
  BY DEF HandleMsg, TypeOK
<1> QED
  BY <1>4, <1>5 DEF HandleMsg, TypeOK

\* What SkipMsg does, in both of its cases.
LEMMA SkipFacts ==
    ASSUME TypeOK, NEW r \in Reader, SkipMsg(r)
    PROVE  LET off == reader[r].off + mem[Slot(reader[r].off)].len IN
           /\ off \in Nat /\ off >= reader[r].off
           /\ reader' \in [Reader -> [off : Nat, ack : Nat,
                                      at : {"poll", "peeked", "handled", "error", "gone"}]]
           /\ reader'[r].off = off /\ reader'[r].at = "poll"
           /\ \A q \in Reader \ {r} : reader'[q] = reader[q]
           /\ UNCHANGED ctl \/ SendHb(r, off)
           /\ UNCHANGED <<mem, writer, member, sent, received, ctlcur>>
           /\ reader[r].at = "handled"
<1> DEFINE off == reader[r].off + mem[Slot(reader[r].off)].len
<1>1. off \in Nat /\ off >= reader[r].off /\ reader[r].ack \in Nat
  BY HeaderType
<1>2. AckStep \in Nat
  BY Sizes DEF AckStep
<1>3. \/ /\ reader' = [reader EXCEPT ![r] = [off |-> off, ack |-> off + AckStep, at |-> "poll"]]
         /\ SendHb(r, off)
      \/ /\ reader' = [reader EXCEPT ![r].off = off, ![r].at = "poll"]
         /\ UNCHANGED ctl
  BY DEF SkipMsg, AddOffset
<1>4. reader \in [Reader -> [off : Nat, ack : Nat,
                             at : {"poll", "peeked", "handled", "error", "gone"}]]
  BY DEF TypeOK
<1> HIDE DEF off
<1>5. /\ reader' \in [Reader -> [off : Nat, ack : Nat,
                                 at : {"poll", "peeked", "handled", "error", "gone"}]]
      /\ reader'[r].off = off /\ reader'[r].at = "poll"
      /\ \A q \in Reader \ {r} : reader'[q] = reader[q]
  BY <1>1, <1>2, <1>3, <1>4
<1>6. /\ UNCHANGED <<mem, writer, member, sent, received, ctlcur>>
      /\ reader[r].at = "handled"
  BY DEF SkipMsg
<1> QED
  BY <1>1, <1>3, <1>5, <1>6 DEF off

LEMMA SkipTypeOK ==
    ASSUME TypeOK, NEW r \in Reader, SkipMsg(r)
    PROVE  TypeOK'
<1> DEFINE off == reader[r].off + mem[Slot(reader[r].off)].len
<1>1. /\ off \in Nat
      /\ reader' \in [Reader -> [off : Nat, ack : Nat,
                                 at : {"poll", "peeked", "handled", "error", "gone"}]]
      /\ UNCHANGED ctl \/ SendHb(r, off)
      /\ UNCHANGED <<mem, writer, member, sent, received, ctlcur>>
  BY SkipFacts
<1> HIDE DEF off
<1>2. ctl' \in [Reader -> Seq(Nat)]
  BY <1>1, SendHbType DEF TypeOK
<1> QED
  BY <1>1, <1>2 DEF TypeOK

LEMMA HeartbeatTypeOK ==
    ASSUME TypeOK, NEW r \in Reader, Heartbeat(r)
    PROVE  TypeOK'
<1>1. ctl' \in [Reader -> Seq(Nat)]
  BY HeaderType, SendHbType DEF Heartbeat
<1> QED
  BY <1>1 DEF Heartbeat, TypeOK

LEMMA LeaveTypeOK ==
    ASSUME TypeOK, NEW r \in Reader, Leave(r)
    PROVE  TypeOK'
BY DEF Leave, TypeOK

-----------------------------------------------------------------------------
(* The limit.  What a reader reports is never ahead of it, so the room the   *)
(* parent reckons with is really free.                                       *)

\* The numbers the limit is about.
LEMMA Numbers ==
    ASSUME TypeOK
    PROVE  /\ writer.off \in Nat /\ writer.len \in Nat /\ writer.limit \in Nat /\ Reach \in Nat
           /\ Reach >= writer.off
           /\ \A r \in Reader : /\ reader[r].off \in Nat /\ member[r] \in Nat
                                /\ \A i \in DOMAIN ctl[r] : ctl[r][i] \in Nat
<1>1. /\ writer.off \in Nat /\ writer.len \in Nat /\ writer.limit \in Nat
      /\ \A r \in Reader : /\ reader[r].off \in Nat /\ member[r] \in Nat
                           /\ \A i \in DOMAIN ctl[r] : ctl[r][i] \in Nat
  BY DEF TypeOK
<1> QED
  BY <1>1 DEF Reach, AddOffset

\* The steps of the readers: they only go on, and report where they are.
LEMMA ReaderLimited ==
    ASSUME TypeOK, Limited, UNCHANGED <<writer, member, ctlcur>>, NEW r \in Reader,
           \A q \in Reader : reader'[q].off \in Nat /\ reader'[q].off >= reader[q].off,
           \A q \in Reader : ctl'[q] = ctl[q]
                             \/ (q = r /\ ctl'[q] = Append(ctl[q], reader'[q].off))
    PROVE  Limited'
<1> SUFFICES ASSUME NEW q \in Reader
             PROVE  /\ member[q] <= reader'[q].off
                    /\ \A i \in DOMAIN ctl'[q] : ctl'[q][i] <= reader'[q].off
                    /\ ctlcur[q] => ctl'[q] # <<>>
                    /\ writer.limit <= member[q] + RingSize - 2 * MaxMsg
                    /\ Reach < reader'[q].off + RingSize
  BY DEF Limited, Reach, Writing
<1>1. /\ member[q] <= reader[q].off
      /\ \A i \in DOMAIN ctl[q] : ctl[q][i] <= reader[q].off
      /\ ctlcur[q] => ctl[q] # <<>>
      /\ writer.limit <= member[q] + RingSize - 2 * MaxMsg
      /\ Reach < reader[q].off + RingSize
  BY DEF Limited
<1>2. /\ reader'[q].off \in Nat /\ reader'[q].off >= reader[q].off /\ reader[q].off \in Nat
      /\ member[q] \in Nat /\ Reach \in Nat /\ \A i \in DOMAIN ctl[q] : ctl[q][i] \in Nat
  BY Numbers
<1>3. member[q] <= reader'[q].off /\ Reach < reader'[q].off + RingSize
  BY <1>1, <1>2, Sizes
<1>4. ctl[q] \in Seq(Nat)
  BY DEF TypeOK
<1>5. (\A i \in DOMAIN ctl'[q] : ctl'[q][i] <= reader'[q].off) /\ (ctlcur[q] => ctl'[q] # <<>>)
  <2>1. CASE ctl'[q] = ctl[q]
    BY <1>1, <1>2, <2>1
  <2>2. CASE ctl'[q] = Append(ctl[q], reader'[q].off)
    <3>1. ASSUME NEW i \in DOMAIN ctl'[q] PROVE ctl'[q][i] <= reader'[q].off
      <4>1. CASE i \in DOMAIN ctl[q]
        <5>1. ctl'[q][i] = ctl[q][i]
          BY <1>4, <2>2, <4>1
        <5> QED
          BY <1>1, <1>2, <4>1, <5>1
      <4>2. CASE i \notin DOMAIN ctl[q]
        <5>1. i = Len(ctl[q]) + 1 /\ ctl'[q][i] = reader'[q].off
          BY <1>2, <1>4, <2>2, <4>2
        <5> QED
          BY <1>2, <5>1
      <4> QED
        BY <4>1, <4>2
    <3>2. ctl'[q] # <<>>
      BY <1>4, <2>2
    <3> QED
      BY <3>1, <3>2
  <2> QED
    BY <2>1, <2>2
<1> QED
  BY <1>1, <1>3, <1>5

\* The parent reads the oldest heartbeat of the readers in R, and takes it
\* off those in T.
LEMMA HeartbeatsLimited ==
    ASSUME TypeOK, Limited, NEW R \in SUBSET Reader, \A r \in R : ctl[r] # <<>>,
           CtlMsg_ShmHbMsg(R), member' \in [Reader -> Nat],
           writer'.limit \in WriteLimits(member'),
           \A r \in Reader : ctl'[r] = ctl[r] \/ (r \in R /\ ctl'[r] = Tail(ctl[r])),
           \A r \in Reader : ctlcur'[r] => ctl'[r] # <<>>,
           UNCHANGED reader,
           \A r \in Reader : Reach' < reader[r].off + RingSize
    PROVE  Limited'
<1> SUFFICES ASSUME NEW q \in Reader
             PROVE  /\ member'[q] <= reader[q].off
                    /\ \A i \in DOMAIN ctl'[q] : ctl'[q][i] <= reader[q].off
                    /\ ctlcur'[q] => ctl'[q] # <<>>
                    /\ writer'.limit <= member'[q] + RingSize - 2 * MaxMsg
                    /\ Reach' < reader[q].off + RingSize
  BY DEF Limited
<1>1. /\ member[q] <= reader[q].off
      /\ \A i \in DOMAIN ctl[q] : ctl[q][i] <= reader[q].off
  BY DEF Limited
<1>2. member'[q] = IF q \in R THEN Head(ctl[q]) ELSE member[q]
  BY DEF CtlMsg_ShmHbMsg
<1>3. member'[q] <= reader[q].off
  BY <1>1, <1>2, HeadType
<1>4. \A i \in DOMAIN ctl'[q] : ctl'[q][i] <= reader[q].off
  <2>1. CASE ctl'[q] = ctl[q]
    BY <1>1, <2>1
  <2>2. CASE q \in R /\ ctl'[q] = Tail(ctl[q])
    BY <1>1, <2>2, HeadType
  <2> QED
    BY <2>1, <2>2
<1>5. writer'.limit <= member'[q] + RingSize - 2 * MaxMsg
  BY LimitFacts
<1> QED
  BY <1>3, <1>4, <1>5

\* A message that is begun below the limit stays clear of every reader.
LEMMA RoomIsFree ==
    ASSUME TypeOK, NEW len \in MsgLen, NEW r \in Reader, NEW limit \in Nat,
           NEW low \in Nat, low <= reader[r].off, limit <= low + RingSize - 2 * MaxMsg,
           writer.off < limit
    PROVE  writer.off + len < reader[r].off + RingSize
<1>1. /\ len \in Nat /\ len <= MaxMsg /\ MaxMsg \in Nat /\ RingSize \in Nat
      /\ writer.off \in Nat /\ reader[r].off \in Nat
  BY Sizes, Numbers
<1> QED
  BY <1>1

LEMMA BeginLimited ==
    ASSUME TypeOK, Limited, NEW len \in MsgLen, BeginWrite(len)
    PROVE  Limited' /\ Reach' >= Reach
<1>1. /\ writer' = [writer EXCEPT !.len = len, !.at = IF HasRoom THEN "fill" ELSE "spin"]
      /\ writer.at = "idle" /\ UNCHANGED <<member, reader, ctl, ctlcur>>
  BY DEF BeginWrite
<1>2. /\ writer'.off = writer.off /\ writer'.len = len /\ writer'.limit = writer.limit
      /\ writer'.at = IF HasRoom THEN "fill" ELSE "spin"
  BY <1>1 DEF TypeOK
<1>3. Reach = writer.off /\ Reach' = IF HasRoom THEN writer.off + len ELSE writer.off
  BY <1>1, <1>2 DEF Reach, Writing, AddOffset
<1>4. ASSUME NEW r \in Reader PROVE Reach' < reader[r].off + RingSize
  <2>1. CASE HasRoom
    BY <1>3, <2>1, RoomIsFree, Numbers DEF HasRoom, Limited
  <2>2. CASE ~HasRoom
    BY <1>3, <2>2 DEF Limited
  <2> QED
    BY <2>1, <2>2
<1>5. Reach' >= Reach
  BY <1>3, Numbers, Sizes
<1> QED
  BY <1>1, <1>2, <1>4, <1>5 DEF Limited

LEMMA PollLimited ==
    ASSUME TypeOK, Limited, Prepared, PollCtlIn
    PROVE  Limited' /\ Reach' >= Reach
<1> DEFINE R == {r \in Reader : ctl[r] # <<>>}
<1>1. /\ CtlMsg_ShmHbMsg(R) /\ UNCHANGED <<reader, sent>> /\ writer.at = "spin"
      /\ ctl' = [r \in Reader |-> IF r \in R /\ ctlcur[r] THEN Tail(ctl[r]) ELSE ctl[r]]
      /\ ctlcur' = [r \in Reader |-> ctlcur[r] /\ r \notin R]
  BY DEF PollCtlIn
<1>2. member' \in [Reader -> Nat]
  BY PollTypeOK DEF TypeOK
<1>3. PICK l \in WriteLimits(member') :
        writer' = [writer EXCEPT !.limit = l, !.at = IF writer.off < l THEN "fill" ELSE "spin"]
  BY DEF PollCtlIn
<1>4. /\ writer'.off = writer.off /\ writer'.len = writer.len /\ writer'.limit = l
      /\ writer'.at = IF writer.off < l THEN "fill" ELSE "spin"
  BY <1>3 DEF TypeOK
<1>5. /\ Reach = writer.off
      /\ Reach' = IF writer.off < l THEN writer.off + writer.len ELSE writer.off
  BY <1>1, <1>4 DEF Reach, Writing, AddOffset
<1>6. ASSUME NEW r \in Reader PROVE Reach' < reader[r].off + RingSize
  <2>1. CASE writer.off < l
    <3>1. member'[r] <= reader[r].off /\ member'[r] \in Nat
      <4>1. member'[r] = IF r \in R THEN Head(ctl[r]) ELSE member[r]
        BY <1>1 DEF CtlMsg_ShmHbMsg
      <4> QED
        BY <1>2, <4>1, HeadType DEF Limited
    <3>2. l \in Nat /\ l <= member'[r] + RingSize - 2 * MaxMsg
      BY <1>2, LimitFacts
    <3>3. writer.len \in MsgLen
      BY <1>1 DEF Prepared
    <3> QED
      BY <1>5, <2>1, <3>1, <3>2, <3>3, RoomIsFree
  <2>2. CASE ~(writer.off < l)
    BY <1>5, <2>2 DEF Limited
  <2> QED
    BY <2>1, <2>2
<1>7. \A r \in Reader : ctlcur'[r] => ctl'[r] # <<>>
  BY <1>1 DEF Limited
<1>8. \A r \in Reader : ctl'[r] = ctl[r] \/ (r \in R /\ ctl'[r] = Tail(ctl[r]))
  BY <1>1
<1>9. \A r \in R : ctl[r] # <<>>
  OBVIOUS
<1> HIDE DEF R
<1>10. R \in SUBSET Reader
  BY DEF R
<1>11. Limited'
  BY <1>1, <1>2, <1>4, <1>6, <1>7, <1>8, <1>9, <1>10, HeartbeatsLimited
<1> QED
  BY <1>5, <1>11, Numbers

LEMMA ReadCtlLimited ==
    ASSUME TypeOK, Limited, NEW r \in Reader, ReadCtl(r)
    PROVE  Limited' /\ Reach' = Reach /\ ctl[r] # <<>>
<1>1. /\ CtlMsg_ShmHbMsg({r}) /\ UNCHANGED reader /\ writer.at = "idle" /\ ctlcur[r]
      /\ ctl' = [ctl EXCEPT ![r] = Tail(@)]
      /\ ctlcur' = [ctlcur EXCEPT ![r] = Tail(ctl[r]) # <<>>]
  BY DEF ReadCtl
<1>2. ctl[r] # <<>>
  BY <1>1 DEF Limited
<1>3. member' \in [Reader -> Nat]
  BY <1>2, ReadCtlTypeOK DEF TypeOK
<1>4. PICK l \in WriteLimits(member') : writer' = [writer EXCEPT !.limit = l]
  BY DEF ReadCtl
<1>5. writer'.off = writer.off /\ writer'.at = writer.at /\ writer'.limit = l
  BY <1>4 DEF TypeOK
<1>6. Reach' = Reach
  BY <1>1, <1>5 DEF Reach, Writing
<1>7. /\ ctl \in [Reader -> Seq(Nat)] /\ ctlcur \in [Reader -> BOOLEAN]
  BY DEF TypeOK
<1>8. \A q \in Reader : ctlcur'[q] => ctl'[q] # <<>>
  <2> SUFFICES ASSUME NEW q \in Reader, ctlcur'[q] PROVE ctl'[q] # <<>>
    OBVIOUS
  <2>1. CASE q = r
    BY <1>1, <1>7, <2>1
  <2>2. CASE q # r
    BY <1>1, <1>7, <2>2 DEF Limited
  <2> QED
    BY <2>1, <2>2
<1>9. \A q \in Reader : ctl'[q] = ctl[q] \/ (q \in {r} /\ ctl'[q] = Tail(ctl[q]))
  BY <1>1, <1>7
<1>10. \A q \in Reader : Reach' < reader[q].off + RingSize
  BY <1>6 DEF Limited
<1>11. Limited'
  BY <1>1, <1>2, <1>3, <1>5, <1>8, <1>9, <1>10, HeartbeatsLimited
<1> QED
  BY <1>2, <1>6, <1>11

\* The other steps of the parent leave the reach of the writing alone.
LEMMA WriterLimited ==
    ASSUME TypeOK, Limited, UNCHANGED <<member, reader, ctl>>,
           writer'.limit = writer.limit, Reach' = Reach,
           \A r \in Reader : ctlcur'[r] => ctl[r] # <<>>
    PROVE  Limited'
BY DEF Limited

-----------------------------------------------------------------------------
(* The messages lie end to end in the ring. *)

LEMMA TiledFrame ==
    ASSUME Tiled, sent' = sent, writer'.off = writer.off
    PROVE  Tiled'
BY DEF Tiled, EndOf

\* A published message has a place after those before it.
LEMMA SentType ==
    ASSUME TypeOK, NEW i \in DOMAIN sent
    PROVE  /\ sent[i] \in [off : Nat, len : Nat] /\ i \in 1 .. Len(sent)
           /\ Len(sent) \in Nat /\ DOMAIN sent = 1 .. Len(sent)
<1> DEFINE S == [off : Nat, len : Nat]
<1>1. sent \in Seq(S)
  BY DEF TypeOK
<1> HIDE DEF S
<1>2. sent[i] \in S /\ i \in 1 .. Len(sent) /\ Len(sent) \in Nat /\ DOMAIN sent = 1 .. Len(sent)
  BY <1>1
<1> QED
  BY <1>2 DEF S

LEMMA SentLength ==
    ASSUME TypeOK
    PROVE  /\ Len(sent) \in Nat /\ DOMAIN sent = 1 .. Len(sent)
           /\ \A i \in 0 .. Len(sent) : EndOf(i) \in Nat
<1>1. Len(sent) \in Nat /\ DOMAIN sent = 1 .. Len(sent)
  BY DEF TypeOK
<1>2. ASSUME NEW i \in 0 .. Len(sent) PROVE EndOf(i) \in Nat
  <2>1. CASE i = 0
    BY <2>1 DEF EndOf
  <2>2. CASE i # 0
    <3>1. i \in DOMAIN sent
      BY <1>1, <2>2
    <3>2. sent[i].off \in Nat /\ sent[i].len \in Nat
      BY <3>1, SentType
    <3> QED
      BY <2>2, <3>2 DEF EndOf, AddOffset
  <2> QED
    BY <2>1, <2>2
<1> QED
  BY <1>1, <1>2

\* What PublishLength adds to the history.
LEMMA PublishFacts ==
    ASSUME TypeOK, Prepared, PublishLength
    PROVE  /\ writer.len \in MsgLen /\ Len(sent) < NMsg
           /\ Len(sent') = Len(sent) + 1
           /\ \A i \in DOMAIN sent : sent'[i] = sent[i]
           /\ sent'[Len(sent) + 1] = [off |-> writer.off, len |-> writer.len]
           /\ DOMAIN sent' = 1 .. Len(sent) + 1
           /\ writer'.off = writer.off + writer.len /\ writer'.at = "idle"
           /\ Reach = writer.off + writer.len /\ Reach' = Reach
<1>1. /\ writer.at = "publish"
      /\ sent' = Append(sent, [off |-> writer.off, len |-> writer.len])
      /\ writer' = [writer EXCEPT !.off = writer.off + writer.len, !.at = "idle"]
  BY DEF PublishLength, AddOffset
<1>2. writer'.off = writer.off + writer.len /\ writer'.at = "idle"
  BY <1>1 DEF TypeOK
<1>3. Reach = writer.off + writer.len /\ Reach' = Reach
  BY <1>1, <1>2 DEF Reach, Writing, AddOffset
<1>4. /\ Len(sent') = Len(sent) + 1
      /\ \A i \in DOMAIN sent : sent'[i] = sent[i]
      /\ sent'[Len(sent) + 1] = [off |-> writer.off, len |-> writer.len]
      /\ DOMAIN sent' = 1 .. Len(sent) + 1
  BY <1>1 DEF TypeOK
<1>5. writer.len \in MsgLen /\ Len(sent) < NMsg
  BY <1>1 DEF Prepared
<1> QED
  BY <1>2, <1>3, <1>4, <1>5

\* The ends of the old messages do not move.
LEMMA EndsStay ==
    ASSUME TypeOK, Prepared, PublishLength, NEW i \in 0 .. Len(sent)
    PROVE  EndOf(i)' = EndOf(i)
<1>1. i # 0 => i \in DOMAIN sent
  BY SentLength
<1> QED
  BY <1>1, PublishFacts DEF EndOf

LEMMA PublishTiled ==
    ASSUME TypeOK, Prepared, Tiled, PublishLength
    PROVE  Tiled'
<1>0. PICK n \in Nat : n = Len(sent)
  BY SentLength
<1>1. /\ DOMAIN sent = 1 .. n
      /\ \A i \in 0 .. n : EndOf(i) \in Nat /\ EndOf(i)' = EndOf(i)
  BY <1>0, SentLength, EndsStay
<1>2. /\ writer.len \in MsgLen /\ n < NMsg /\ Len(sent') = n + 1
      /\ \A i \in DOMAIN sent : sent'[i] = sent[i]
      /\ sent'[n + 1].off = writer.off /\ sent'[n + 1].len = writer.len
      /\ DOMAIN sent' = 1 .. n + 1
      /\ writer'.off = writer.off + writer.len
  BY <1>0, PublishFacts
<1>3. writer.off = EndOf(n)
  BY <1>0 DEF Tiled
<1>4. EndOf(n + 1)' = writer.off + writer.len
  BY <1>1, <1>2 DEF EndOf, AddOffset
<1>5. Len(sent') <= NMsg
  BY <1>1, <1>2, Sizes
<1>6. ASSUME NEW i \in 1 .. n + 1 PROVE sent'[i].off = EndOf(i - 1)' /\ sent'[i].len \in MsgLen
  <2>1. CASE i = n + 1
    BY <1>1, <1>2, <1>3, <2>1
  <2>2. CASE i # n + 1
    <3>1. i \in DOMAIN sent /\ i - 1 \in 0 .. n
      BY <1>1, <2>2
    <3>2. sent[i].off = EndOf(i - 1) /\ sent[i].len \in MsgLen
      BY <3>1 DEF Tiled
    <3> QED
      BY <1>1, <1>2, <3>1, <3>2
  <2> QED
    BY <2>1, <2>2
<1>7. ASSUME NEW i \in 0 .. n + 1
      PROVE  EndOf(i)' <= i * MaxMsg /\ EndOf(i)' <= writer'.off
  <2>1. CASE i = n + 1
    <3>1. EndOf(n) <= n * MaxMsg
      BY <1>0, <1>1 DEF Tiled
    <3>2. (n + 1) * MaxMsg = n * MaxMsg + MaxMsg /\ n * MaxMsg \in Nat
      BY Sizes
    <3>3. writer.len <= MaxMsg /\ writer.len \in Nat /\ MaxMsg \in Nat /\ writer.off \in Nat
      BY <1>2, Numbers, Sizes
    <3>4. writer.off + writer.len <= (n + 1) * MaxMsg
      BY <1>3, <3>1, <3>2, <3>3
    <3> QED
      BY <1>2, <1>4, <2>1, <3>3, <3>4
  <2>2. CASE i # n + 1
    <3>1. i \in 0 .. n
      BY <1>1, <2>2
    <3>2. EndOf(i) <= i * MaxMsg /\ EndOf(i) <= writer.off
      BY <1>0, <3>1 DEF Tiled
    <3> QED
      BY <1>1, <1>2, <3>1, <3>2, Numbers, Sizes
  <2> QED
    BY <2>1, <2>2
<1> QED
  <2>1. writer'.off = EndOf(Len(sent))'
    BY <1>2, <1>4
  <2>2. DOMAIN sent' = 1 .. n + 1 /\ Len(sent') = n + 1
    BY <1>2
  <2> QED
    BY <1>5, <1>6, <1>7, <2>1, <2>2 DEF Tiled

-----------------------------------------------------------------------------
(* The region holds the messages. *)

\* A step that writes nothing, however far the next one will reach.
LEMMA StoredFrame ==
    ASSUME TypeOK, Stored, UNCHANGED <<mem, sent>>, writer'.off = writer.off,
           Reach' \in Nat, Reach' >= Reach,
           \/ writer'.at = writer.at /\ writer'.len = writer.len
           \/ writer'.at \notin {"seal", "publish"}
    PROVE  Stored'
<1>1. ASSUME NEW i \in DOMAIN sent, Reach' < sent[i].off + RingSize PROVE Intact(sent[i])'
  <2>1. sent[i].off \in Nat
    BY SentType
  <2>2. Reach < sent[i].off + RingSize
    BY <1>1, <2>1, Numbers, Sizes
  <2> QED
    BY <2>2 DEF Stored, Intact
<1> QED
  BY <1>1 DEF Stored, AddOffset

\* The messages still in the ring lie before the one that is written.
LEMMA KeptBefore ==
    ASSUME TypeOK, Tiled, NEW i \in DOMAIN sent
    PROVE  /\ sent[i].off \in Nat /\ sent[i].len \in Nat /\ sent[i].len > 0
           /\ sent[i].off + sent[i].len <= writer.off
           /\ sent[i].len \in MsgLen
<1>1. /\ sent[i].off \in Nat /\ sent[i].len \in MsgLen
      /\ EndOf(i) <= writer.off /\ i # 0
  BY SentType DEF Tiled
<1> QED
  BY <1>1, Sizes DEF EndOf, AddOffset

LEMMA FillStored ==
    ASSUME TypeOK, Prepared, Tiled, Stored, FillMessage
    PROVE  Stored' /\ Reach' = Reach
<1> DEFINE own == Cells(writer.off, writer.len)
<1>1. /\ writer.at = "fill" /\ writer' = [writer EXCEPT !.at = "seal"]
      /\ mem' = [u \in Unit |->
                   CASE u = Slot(writer.off) -> [mem[u] EXCEPT !.own = writer.off]
                     [] u \in own \ {Slot(writer.off)} -> [own |-> writer.off, len |-> writer.len]
                     [] OTHER -> mem[u]]
      /\ UNCHANGED sent
  BY DEF FillMessage
<1>2. /\ writer'.off = writer.off /\ writer'.len = writer.len /\ writer'.at = "seal"
      /\ writer.off \in Nat /\ writer.len \in MsgLen
      /\ mem \in [Unit -> [own : Nat \cup {NoMsg}, len : Nat]]
  BY <1>1 DEF TypeOK, Prepared
<1>3. Reach = writer.off + writer.len /\ Reach' = Reach
  BY <1>1, <1>2 DEF Reach, Writing, AddOffset
<1>4. own \subseteq Unit /\ Slot(writer.off) \in own
  BY <1>2, CellsInRegion
<1> HIDE DEF own
<1>5. /\ \A u \in own : mem'[u].own = writer.off
      /\ \A u \in Unit \ own : mem'[u] = mem[u]
      /\ mem'[Slot(writer.off)].len = mem[Slot(writer.off)].len
  BY <1>1, <1>2, <1>4
<1>6. ASSUME NEW i \in DOMAIN sent, Reach < sent[i].off + RingSize
      PROVE  Intact(sent[i])'
  <2>1. /\ sent[i].off \in Nat /\ sent[i].len \in Nat /\ sent[i].len \in MsgLen
        /\ sent[i].off + sent[i].len <= writer.off
    BY KeptBefore
  <2>2. Cells(sent[i].off, sent[i].len) \cap own = {}
    BY <1>2, <1>3, <1>6, <2>1, CellsApart, Sizes DEF own
  <2>3. /\ Cells(sent[i].off, sent[i].len) \subseteq Unit
        /\ Slot(sent[i].off) \in Cells(sent[i].off, sent[i].len)
    BY <2>1, CellsInRegion
  <2>4. Intact(sent[i])
    BY <1>6 DEF Stored
  <2> QED
    BY <1>1, <1>5, <2>2, <2>3, <2>4 DEF Intact
<1>7. mem'[Slot(writer.off)].len = 0
  BY <1>5 DEF Stored
<1> QED
  BY <1>1, <1>2, <1>3, <1>5, <1>6, <1>7 DEF Stored, own

LEMMA SealStored ==
    ASSUME TypeOK, Prepared, Tiled, Stored, SealNext
    PROVE  Stored' /\ Reach' = Reach
<1> DEFINE end == writer.off + writer.len
<1>1. /\ writer.at = "seal" /\ writer' = [writer EXCEPT !.at = "publish"]
      /\ mem' = [mem EXCEPT ![Slot(end)].len = 0]
      /\ UNCHANGED sent
  BY DEF SealNext, AddOffset
<1>2. /\ writer'.off = writer.off /\ writer'.len = writer.len /\ writer'.at = "publish"
      /\ writer.off \in Nat /\ writer.len \in MsgLen
      /\ mem \in [Unit -> [own : Nat \cup {NoMsg}, len : Nat]]
  BY <1>1 DEF TypeOK, Prepared
<1>3. Reach = end /\ Reach' = Reach /\ end \in Nat /\ end > writer.off
  BY <1>1, <1>2, Sizes DEF Reach, Writing, AddOffset
<1>4. Slot(end) \in Unit
  BY <1>3, SlotType, Sizes DEF Unit
<1> HIDE DEF end
<1>5. /\ \A u \in Unit : mem'[u].own = mem[u].own
      /\ \A u \in Unit \ {Slot(end)} : mem'[u].len = mem[u].len
      /\ mem'[Slot(end)].len = 0
  BY <1>1, <1>2, <1>4
<1>6. ASSUME NEW i \in DOMAIN sent, Reach < sent[i].off + RingSize
      PROVE  Intact(sent[i])'
  <2>1. /\ sent[i].off \in Nat /\ sent[i].len \in Nat /\ sent[i].len \in MsgLen
        /\ sent[i].off + sent[i].len <= writer.off
    BY KeptBefore
  <2>2. sent[i].off < end
    BY <1>2, <1>3, <2>1
  <2>3. Slot(sent[i].off) # Slot(end)
    BY <1>3, <1>6, <2>1, <2>2, SlotsDiffer
  <2>4. Cells(sent[i].off, sent[i].len) \subseteq Unit /\ Slot(sent[i].off) \in Unit
    BY <2>1, CellsInRegion
  <2>5. Intact(sent[i])
    BY <1>6 DEF Stored
  <2> QED
    BY <1>1, <1>5, <2>3, <2>4, <2>5 DEF Intact
<1>7. Slot(writer.off) \in Unit /\ Cells(writer.off, writer.len) \subseteq Unit
  BY <1>2, CellsInRegion
<1>8. mem'[Slot(writer.off)].len = 0
  BY <1>5, <1>7 DEF Stored
<1>9. \A u \in Cells(writer.off, writer.len) : mem'[u].own = writer.off
  BY <1>1, <1>5, <1>7 DEF Stored
<1> QED
  BY <1>1, <1>2, <1>3, <1>5, <1>6, <1>8, <1>9 DEF Stored, AddOffset, end

LEMMA PublishStored ==
    ASSUME TypeOK, Prepared, Tiled, Stored, PublishLength
    PROVE  Stored'
<1> DEFINE end == writer.off + writer.len
<1>0. PICK n \in Nat : n = Len(sent)
  BY SentLength
<1>1. writer.at = "publish" /\ mem' = [mem EXCEPT ![Slot(writer.off)].len = writer.len]
  BY DEF PublishLength
<1>2. /\ writer.len \in MsgLen
      /\ \A i \in DOMAIN sent : sent'[i] = sent[i]
      /\ sent'[n + 1] = [off |-> writer.off, len |-> writer.len]
      /\ DOMAIN sent' = 1 .. n + 1
      /\ writer'.off = end /\ writer'.at = "idle" /\ Reach = end /\ Reach' = Reach
  BY <1>0, PublishFacts
<1>3. /\ writer.off \in Nat /\ end \in Nat /\ end > writer.off /\ end < writer.off + RingSize
      /\ writer.len \in Nat
      /\ mem \in [Unit -> [own : Nat \cup {NoMsg}, len : Nat]]
  BY <1>2, Sizes DEF TypeOK
<1>4. /\ Slot(writer.off) \in Unit /\ Cells(writer.off, writer.len) \subseteq Unit
  BY <1>2, <1>3, CellsInRegion
<1>5. Slot(end) \in Unit /\ Slot(end) # Slot(writer.off)
  <2>1. Slot(end) \in 0 .. RingSize - 1
    BY <1>3, SlotType
  <2>2. Slot(writer.off) # Slot(end)
    BY <1>3, SlotsDiffer
  <2> QED
    BY <2>1, <2>2, Sizes DEF Unit
<1>6. DOMAIN sent = 1 .. n
  BY <1>0, SentLength
<1>7. mem[Slot(end)].len = 0 /\ \A u \in Cells(writer.off, writer.len) : mem[u].own = writer.off
  BY <1>1 DEF Stored, AddOffset
<1> HIDE DEF end
<1>8. /\ \A u \in Unit : mem'[u].own = mem[u].own
      /\ \A u \in Unit \ {Slot(writer.off)} : mem'[u].len = mem[u].len
      /\ mem'[Slot(writer.off)].len = writer.len
  BY <1>1, <1>3, <1>4
<1>9. ASSUME NEW i \in DOMAIN sent', Reach' < sent'[i].off + RingSize
      PROVE  Intact(sent[i])'
  <2>1. CASE i = n + 1
    <3>1. sent'[i].off = writer.off /\ sent'[i].len = writer.len
      BY <1>2, <2>1
    <3> QED
      BY <1>4, <1>7, <1>8, <3>1 DEF Intact
  <2>2. CASE i # n + 1
    <3>1. i \in DOMAIN sent /\ sent'[i] = sent[i]
      BY <1>2, <1>6, <2>2
    <3>2. /\ sent[i].off \in Nat /\ sent[i].len \in Nat /\ sent[i].len \in MsgLen
          /\ sent[i].len > 0 /\ sent[i].off + sent[i].len <= writer.off
      BY <3>1, KeptBefore
    <3>3. sent[i].off < writer.off /\ writer.off < sent[i].off + RingSize
      BY <1>2, <1>3, <1>9, <3>1, <3>2, Sizes
    <3>4. Slot(sent[i].off) # Slot(writer.off)
      BY <1>3, <3>2, <3>3, SlotsDiffer
    <3>5. Cells(sent[i].off, sent[i].len) \subseteq Unit /\ Slot(sent[i].off) \in Unit
      BY <3>2, CellsInRegion
    <3>6. Intact(sent[i])
      BY <1>2, <1>9, <3>1 DEF Stored
    <3> QED
      BY <1>8, <3>1, <3>4, <3>5, <3>6 DEF Intact
  <2> QED
    BY <2>1, <2>2
<1>10. mem'[Slot(end)].len = 0
  BY <1>5, <1>7, <1>8
<1> QED
  BY <1>2, <1>9, <1>10 DEF Stored

-----------------------------------------------------------------------------
(* Where the readers are. *)

\* What a reader was handed, as a sequence of known length.
LEMMA ReceivedLength ==
    ASSUME TypeOK, NEW r \in Reader
    PROVE  Len(received[r]) \in Nat
<1> DEFINE S == [off : Nat \cup {NoMsg}, len : Nat]
<1>1. received[r] \in Seq(S)
  BY DEF TypeOK
<1> HIDE DEF S
<1> QED
  BY <1>1

LEMMA FollowingFrame ==
    ASSUME Following, UNCHANGED <<sent, reader, received>>
    PROVE  Following'
BY DEF Following, Follows, EndOf

\* Only reader r moves.
LEMMA OthersFollow ==
    ASSUME Following, sent' = sent, NEW r \in Reader, Follows(r)',
           \A q \in Reader \ {r} : reader'[q] = reader[q] /\ received'[q] = received[q]
    PROVE  Following'
<1> SUFFICES ASSUME NEW q \in Reader PROVE Follows(q)'
  BY DEF Following
<1>1. CASE q = r
  BY <1>1
<1>2. CASE q # r
  <2>1. Follows(q) /\ reader'[q] = reader[q] /\ received'[q] = received[q]
    BY <1>2 DEF Following
  <2> QED
    BY <2>1 DEF Follows, EndOf
<1> QED
  BY <1>1, <1>2

\* A reader that has not received everything finds the next message whole.
LEMMA NextIsIntact ==
    ASSUME TypeOK, Limited, Tiled, Stored, NEW r \in Reader,
           NEW k \in Nat, k < Len(sent), reader[r].off = EndOf(k)
    PROVE  /\ sent[k + 1] \in [off : Nat, len : Nat]
           /\ sent[k + 1].off = reader[r].off /\ sent[k + 1].len \in MsgLen
           /\ mem[Slot(reader[r].off)].len = sent[k + 1].len
           /\ mem[Slot(reader[r].off)].own = reader[r].off
           /\ \A u \in Cells(reader[r].off, sent[k + 1].len) : mem[u].own = reader[r].off
           /\ EndOf(k + 1) = reader[r].off + sent[k + 1].len
<1>1. k + 1 \in DOMAIN sent /\ k + 1 # 0 /\ (k + 1) - 1 = k
  BY SentLength
<1>2. /\ sent[k + 1] \in [off : Nat, len : Nat]
      /\ sent[k + 1].off = reader[r].off /\ sent[k + 1].len \in MsgLen
  BY <1>1, SentType DEF Tiled
<1>3. Reach < sent[k + 1].off + RingSize
  BY <1>2 DEF Limited
<1>4. Intact(sent[k + 1])
  BY <1>1, <1>3 DEF Stored
<1>5. Slot(reader[r].off) \in Cells(reader[r].off, sent[k + 1].len)
  BY <1>2, Numbers, CellsInRegion
<1> QED
  BY <1>1, <1>2, <1>4, <1>5 DEF Intact, EndOf, AddOffset

LEMMA PeekFollows ==
    ASSUME TypeOK, Limited, Tiled, Stored, Following, NEW r \in Reader, PeekMsg(r)
    PROVE  Following'
<1>0. PICK n \in Nat : n = Len(received[r])
  BY ReceivedLength
<1>1. /\ reader[r].at = "poll" /\ reader[r].off = EndOf(n) /\ n <= Len(sent)
      /\ \A i \in 1 .. n : received[r][i] = sent[i]
  BY <1>0 DEF PeekMsg, Following, Follows
<1>2. /\ mem[Slot(reader[r].off)].len > 0
      /\ reader' = [reader EXCEPT ![r].at =
                       IF mem[Slot(reader[r].off)].own = reader[r].off THEN "peeked" ELSE "error"]
      /\ UNCHANGED <<sent, received>>
  BY DEF PeekMsg
<1>3. n < Len(sent)
  <2>1. n # Len(sent)
    BY <1>1, <1>2 DEF Tiled, Stored
  <2>2. PICK k \in Nat : k = Len(sent)
    BY SentLength
  <2> QED
    BY <1>1, <2>1, <2>2
<1>4. mem[Slot(reader[r].off)].own = reader[r].off
  BY <1>1, <1>3, NextIsIntact
<1>5. /\ reader'[r].at = "peeked" /\ reader'[r].off = reader[r].off
      /\ \A q \in Reader \ {r} : reader'[q] = reader[q]
  BY <1>2, <1>4 DEF TypeOK
<1>6. Follows(r)'
  BY <1>0, <1>1, <1>2, <1>3, <1>5 DEF Follows, EndOf
<1> QED
  BY <1>2, <1>5, <1>6, OthersFollow

\* A handler is given the next message, as it was sent.
LEMMA HandleFacts ==
    ASSUME TypeOK, Limited, Tiled, Stored, Following, NEW r \in Reader, HandleMsg(r)
    PROVE  /\ Len(received[r]) < Len(sent) /\ reader[r].off = EndOf(Len(received[r]))
           /\ received' = [received EXCEPT ![r] = Append(@, sent[Len(@) + 1])]
           /\ \A i \in 1 .. Len(received[r]) : received[r][i] = sent[i]
           /\ UNCHANGED sent
<1>0. PICK n \in Nat : n = Len(received[r])
  BY ReceivedLength
<1>1. /\ reader[r].at = "peeked" /\ reader[r].off = EndOf(n) /\ n < Len(sent)
      /\ \A i \in 1 .. n : received[r][i] = sent[i]
  BY <1>0 DEF HandleMsg, Following, Follows
<1> DEFINE head == mem[Slot(reader[r].off)]
           cells == Cells(reader[r].off, head.len)
           owns == {mem[u].own : u \in cells \cap Unit}
           msg == [off |-> IF owns = {head.own} THEN head.own ELSE NoMsg, len |-> head.len]
<1>2. received' = [received EXCEPT ![r] = Append(@, msg)] /\ UNCHANGED sent
  BY DEF HandleMsg
<1>3. /\ sent[n + 1] \in [off : Nat, len : Nat]
      /\ sent[n + 1].off = reader[r].off /\ sent[n + 1].len \in MsgLen
      /\ head.len = sent[n + 1].len /\ head.own = reader[r].off
      /\ \A u \in cells : mem[u].own = reader[r].off
  BY <1>1, NextIsIntact
<1>4. cells \subseteq Unit /\ Slot(reader[r].off) \in cells
  BY <1>3, Numbers, CellsInRegion
<1> HIDE DEF cells, head
<1>5. owns = {head.own}
  BY <1>3, <1>4
<1>6. msg = sent[n + 1]
  BY <1>3, <1>5
<1> HIDE DEF msg
<1> QED
  BY <1>0, <1>1, <1>2, <1>6

LEMMA HandleFollows ==
    ASSUME TypeOK, Limited, Tiled, Stored, Following, NEW r \in Reader, HandleMsg(r)
    PROVE  Following'
<1>0. PICK n \in Nat : n = Len(received[r])
  BY ReceivedLength
<1>1. /\ n < Len(sent) /\ reader[r].off = EndOf(n)
      /\ received' = [received EXCEPT ![r] = Append(@, sent[n + 1])]
      /\ \A i \in 1 .. n : received[r][i] = sent[i]
      /\ UNCHANGED sent
  BY <1>0, HandleFacts
<1>2. /\ received'[r] = Append(received[r], sent[n + 1])
      /\ \A q \in Reader \ {r} : received'[q] = received[q]
  BY <1>1 DEF TypeOK
<1>3. /\ Len(received'[r]) = n + 1
      /\ \A i \in 1 .. n + 1 : received'[r][i] = sent[i]
  <2> DEFINE S == [off : Nat \cup {NoMsg}, len : Nat]
  <2>1. received[r] \in Seq(S)
    BY DEF TypeOK
  <2> HIDE DEF S
  <2> QED
    BY <1>0, <1>1, <1>2, <2>1
<1>4. /\ reader'[r].at = "handled" /\ reader'[r].off = reader[r].off
      /\ \A q \in Reader \ {r} : reader'[q] = reader[q]
  BY DEF HandleMsg, TypeOK
<1>5. n + 1 <= Len(sent) /\ n + 1 > 0 /\ (n + 1) - 1 = n
  BY <1>1, SentLength
<1>6. Follows(r)'
  BY <1>1, <1>3, <1>4, <1>5 DEF Follows, EndOf
<1> QED
  BY <1>1, <1>2, <1>4, <1>6, OthersFollow

LEMMA SkipFollows ==
    ASSUME TypeOK, Limited, Tiled, Stored, Following, NEW r \in Reader, SkipMsg(r)
    PROVE  Following'
<1>0. PICK n \in Nat : n = Len(received[r])
  BY ReceivedLength
<1>1. /\ n <= Len(sent) /\ n > 0 /\ reader[r].off = EndOf(n - 1)
      /\ \A i \in 1 .. n : received[r][i] = sent[i]
  BY <1>0 DEF SkipMsg, Following, Follows
<1>2. /\ n - 1 \in Nat /\ n - 1 < Len(sent) /\ (n - 1) + 1 = n
  BY <1>1, SentLength
<1>3. EndOf(n) = reader[r].off + mem[Slot(reader[r].off)].len
  BY <1>1, <1>2, NextIsIntact
<1>4. /\ reader'[r].off = EndOf(n) /\ reader'[r].at = "poll"
      /\ \A q \in Reader \ {r} : reader'[q] = reader[q]
      /\ UNCHANGED <<sent, received>>
  BY <1>3, SkipFacts
<1>5. Follows(r)'
  BY <1>0, <1>1, <1>4 DEF Follows, EndOf
<1> QED
  BY <1>4, <1>5, OthersFollow

LEMMA LeaveFollows ==
    ASSUME TypeOK, Following, NEW r \in Reader, Leave(r)
    PROVE  Following'
<1>1. /\ reader'[r].at = "gone" /\ UNCHANGED <<sent, received>>
      /\ \A q \in Reader \ {r} : reader'[q] = reader[q]
  BY DEF Leave, TypeOK
<1>2. Follows(r)'
  BY <1>1 DEF Following, Follows, EndOf
<1> QED
  BY <1>1, <1>2, OthersFollow

LEMMA PublishFollows ==
    ASSUME TypeOK, Prepared, Following, PublishLength
    PROVE  Following'
<1> SUFFICES ASSUME NEW r \in Reader PROVE Follows(r)'
  BY DEF Following
<1>0. PICK n \in Nat : n = Len(received[r])
  BY ReceivedLength
<1>1. PICK k \in Nat : k = Len(sent)
  BY SentLength
<1>2. Follows(r) /\ n <= k
  BY <1>0, <1>1 DEF Following, Follows
<1>3. UNCHANGED <<reader, received>>
  BY DEF PublishLength
<1>4. /\ Len(sent') = k + 1 /\ DOMAIN sent = 1 .. k
      /\ \A i \in DOMAIN sent : sent'[i] = sent[i]
      /\ \A i \in 0 .. k : EndOf(i)' = EndOf(i)
  BY <1>1, PublishFacts, EndsStay, SentLength
<1>5. \A i \in 1 .. n : received[r][i] = sent'[i]
  BY <1>0, <1>2, <1>4 DEF Follows
<1>6. EndOf(n)' = EndOf(n) /\ (n > 0 => EndOf(n - 1)' = EndOf(n - 1))
  BY <1>2, <1>4
<1>7. n <= k + 1 /\ (reader[r].at = "peeked" => n < k + 1)
  BY <1>2
<1> QED
  BY <1>0, <1>2, <1>3, <1>4, <1>5, <1>6, <1>7 DEF Follows

-----------------------------------------------------------------------------
(* The invariant. *)

LEMMA PreparedFrame ==
    ASSUME Prepared, UNCHANGED <<writer, sent>>
    PROVE  Prepared'
BY DEF Prepared, Writing, HasRoom

LEMMA InitInv == Init => IInv
<1> SUFFICES ASSUME Init PROVE IInv
  OBVIOUS
<1>1. TypeOK
  BY InitTypeOK
<1>2. /\ sent = <<>> /\ writer.off = 0 /\ writer.at = "idle" /\ writer.limit \in WriteLimits(member)
      /\ member \in [Reader -> Nat] /\ \A u \in Unit : mem[u].len = 0
  BY DEF Init
<1>3. ASSUME NEW r \in Reader PROVE member[r] = 0 /\ reader[r].off = 0
  BY DEF Init
<1>4. \A r \in Reader : reader[r].at = "poll"
  BY DEF Init
<1>5. \A r \in Reader : ctl[r] = <<>> /\ received[r] = <<>>
  BY DEF Init
<1>6. \A r \in Reader : ~ctlcur[r]
  BY DEF Init
<1>7. Limited
  <2>1. Reach = 0
    BY <1>2 DEF Reach, Writing
  <2>2. \A r \in Reader : writer.limit <= member[r] + RingSize - 2 * MaxMsg
    BY <1>2, LimitFacts
  <2>3. ASSUME NEW r \in Reader PROVE \A i \in DOMAIN ctl[r] : ctl[r][i] <= reader[r].off
    <3>1. ctl[r] = <<>>
      BY <1>5
    <3> QED
      BY <3>1
  <2>4. ASSUME NEW r \in Reader
        PROVE  member[r] <= reader[r].off /\ Reach < reader[r].off + RingSize
    <3>1. member[r] = 0 /\ reader[r].off = 0
      BY <1>3
    <3> QED
      BY <2>1, <3>1, Sizes
  <2> QED
    BY <1>6, <2>2, <2>3, <2>4 DEF Limited
<1>8. Prepared
  BY <1>2 DEF Prepared, Writing
<1>9. Tiled
  <2>1. Len(sent) = 0 /\ DOMAIN sent = {}
    BY <1>2
  <2> QED
    BY <1>2, <2>1, Sizes DEF Tiled, EndOf
<1>10. Stored
  <2>1. Slot(writer.off) \in Unit
    BY <1>2, SlotType, Sizes DEF Unit
  <2> QED
    BY <1>2, <2>1 DEF Stored
<1>11. Following
  <2>1. ASSUME NEW r \in Reader PROVE Len(received[r]) = 0 /\ Len(sent) = 0
    <3>1. received[r] = <<>> /\ sent = <<>>
      BY <1>2, <1>5
    <3> QED
      BY <3>1
  <2>2. EndOf(0) = 0
    BY DEF EndOf
  <2> QED
    <3> SUFFICES ASSUME NEW r \in Reader PROVE Follows(r)
      BY DEF Following
    <3>1. reader[r].at = "poll"
      BY <1>4
    <3>2. reader[r].off = 0
      BY <1>3
    <3>3. Len(sent) = 0 /\ Len(received[r]) = 0
      BY <2>1
    <3> QED
      BY <2>2, <3>1, <3>2, <3>3 DEF Follows
<1> QED
  BY <1>1, <1>7, <1>8, <1>9, <1>10, <1>11 DEF IInv

LEMMA BeginInv ==
    ASSUME IInv, NEW len \in MsgLen, BeginWrite(len)
    PROVE  IInv'
<1> USE DEF IInv
<1>1. TypeOK' /\ Limited' /\ Reach' >= Reach
  BY BeginTypeOK, BeginLimited
<1>2. /\ writer' = [writer EXCEPT !.len = len, !.at = IF HasRoom THEN "fill" ELSE "spin"]
      /\ UNCHANGED <<mem, sent, reader, received>> /\ Len(sent) < NMsg
  BY DEF BeginWrite, Sending
<1>3. /\ writer'.off = writer.off /\ writer'.len = len /\ writer'.limit = writer.limit
      /\ writer'.at = IF HasRoom THEN "fill" ELSE "spin"
  BY <1>2 DEF TypeOK
<1>4. Prepared'
  BY <1>2, <1>3 DEF Prepared, Writing, HasRoom
<1>5. Reach' \in Nat
  BY <1>1, Numbers DEF Reach, TypeOK, AddOffset
<1> QED
  BY <1>1, <1>2, <1>3, <1>4, <1>5, TiledFrame, StoredFrame, FollowingFrame

LEMMA PollInv ==
    ASSUME IInv, PollCtlIn
    PROVE  IInv'
<1> USE DEF IInv
<1>1. TypeOK' /\ Limited' /\ Reach' >= Reach
  BY PollTypeOK, PollLimited
<1>2. PICK l \in WriteLimits(member') :
         writer' = [writer EXCEPT !.limit = l, !.at = IF writer.off < l THEN "fill" ELSE "spin"]
  BY DEF PollCtlIn
<1>3. /\ writer'.off = writer.off /\ writer'.len = writer.len /\ writer'.limit = l
      /\ writer'.at = IF writer.off < l THEN "fill" ELSE "spin"
  BY <1>2 DEF TypeOK
<1>4. UNCHANGED <<mem, sent, reader, received>> /\ writer.at = "spin"
  BY DEF PollCtlIn
<1>5. Prepared'
  BY <1>3, <1>4 DEF Prepared, Writing, HasRoom
<1>6. Reach' \in Nat
  BY <1>1, Numbers DEF Reach, TypeOK, AddOffset
<1> QED
  BY <1>1, <1>3, <1>4, <1>5, <1>6, TiledFrame, StoredFrame, FollowingFrame

LEMMA FillInv ==
    ASSUME IInv, FillMessage
    PROVE  IInv'
<1> USE DEF IInv
<1>1. TypeOK' /\ Stored' /\ Reach' = Reach
  BY FillTypeOK, FillStored
<1>2. /\ writer' = [writer EXCEPT !.at = "seal"] /\ writer.at = "fill"
      /\ UNCHANGED <<member, sent, reader, received, ctl, ctlcur>>
  BY DEF FillMessage
<1>3. /\ writer'.off = writer.off /\ writer'.len = writer.len /\ writer'.at = "seal"
      /\ writer'.limit = writer.limit
  BY <1>2 DEF TypeOK
<1>4. Prepared'
  BY <1>2, <1>3 DEF Prepared, Writing, HasRoom
<1>5. Limited'
  <2>1. \A r \in Reader : ctlcur'[r] => ctl[r] # <<>>
    BY <1>2 DEF Limited
  <2> QED
    BY <1>1, <1>2, <1>3, <2>1, WriterLimited
<1> QED
  BY <1>1, <1>2, <1>3, <1>4, <1>5, TiledFrame, FollowingFrame

LEMMA SealInv ==
    ASSUME IInv, SealNext
    PROVE  IInv'
<1> USE DEF IInv
<1>1. TypeOK' /\ Stored' /\ Reach' = Reach
  BY SealTypeOK, SealStored
<1>2. /\ writer' = [writer EXCEPT !.at = "publish"] /\ writer.at = "seal"
      /\ UNCHANGED <<member, sent, reader, received, ctl, ctlcur>>
  BY DEF SealNext
<1>3. /\ writer'.off = writer.off /\ writer'.len = writer.len /\ writer'.at = "publish"
      /\ writer'.limit = writer.limit
  BY <1>2 DEF TypeOK
<1>4. Prepared'
  BY <1>2, <1>3 DEF Prepared, Writing, HasRoom
<1>5. Limited'
  <2>1. \A r \in Reader : ctlcur'[r] => ctl[r] # <<>>
    BY <1>2 DEF Limited
  <2> QED
    BY <1>1, <1>2, <1>3, <2>1, WriterLimited
<1> QED
  BY <1>1, <1>2, <1>3, <1>4, <1>5, TiledFrame, FollowingFrame

LEMMA PublishInv ==
    ASSUME IInv, PublishLength
    PROVE  IInv'
<1> USE DEF IInv
<1>1. TypeOK' /\ Tiled' /\ Stored' /\ Following'
  BY PublishTypeOK, PublishTiled, PublishStored, PublishFollows
<1>2. writer'.at = "idle" /\ Reach' = Reach
  BY PublishFacts
<1>3. /\ UNCHANGED <<member, reader, ctl, ctlcur>> /\ writer'.limit = writer.limit
  BY DEF PublishLength, TypeOK
<1>4. Limited'
  <2>1. \A r \in Reader : ctlcur'[r] => ctl[r] # <<>>
    BY <1>3 DEF Limited
  <2> QED
    BY <1>2, <1>3, <2>1, WriterLimited
<1>5. Prepared'
  BY <1>2 DEF Prepared, Writing
<1> QED
  BY <1>1, <1>4, <1>5

LEMMA PeekCtlInv ==
    ASSUME IInv, NEW r \in Reader, PeekCtl(r)
    PROVE  IInv'
<1> USE DEF IInv
<1>1. /\ ctlcur' = [ctlcur EXCEPT ![r] = TRUE] /\ ctl[r] # <<>>
      /\ UNCHANGED <<mem, writer, member, sent, reader, received, ctl>>
  BY DEF PeekCtl
<1>2. Reach' = Reach
  BY <1>1 DEF Reach, Writing
<1>3. \A q \in Reader : ctlcur'[q] => ctl[q] # <<>>
  BY <1>1 DEF Limited, TypeOK
<1>4. Limited'
  BY <1>1, <1>2, <1>3, WriterLimited
<1>5. Reach \in Nat
  BY Numbers
<1> QED
  BY <1>1, <1>2, <1>4, <1>5, PeekCtlTypeOK, PreparedFrame, TiledFrame, StoredFrame, FollowingFrame

LEMMA ReadCtlInv ==
    ASSUME IInv, NEW r \in Reader, ReadCtl(r)
    PROVE  IInv'
<1> USE DEF IInv
<1>1. TypeOK' /\ Limited' /\ Reach' = Reach
  BY ReadCtlTypeOK, ReadCtlLimited
<1>2. UNCHANGED <<mem, sent, reader, received>> /\ writer.at = "idle"
  BY DEF ReadCtl
<1>3. /\ writer'.off = writer.off /\ writer'.len = writer.len /\ writer'.at = "idle"
  BY DEF ReadCtl, TypeOK
<1>4. Prepared'
  BY <1>2, <1>3 DEF Prepared, Writing
<1>5. Reach \in Nat
  BY Numbers
<1> QED
  BY <1>1, <1>2, <1>3, <1>4, <1>5, TiledFrame, StoredFrame, FollowingFrame

\* The steps of a reader leave the parent and the region alone.
LEMMA ReaderInv ==
    ASSUME IInv, NEW r \in Reader, TypeOK', Following',
           UNCHANGED <<mem, writer, member, sent, ctlcur>>,
           \A q \in Reader : reader'[q].off >= reader[q].off,
           \A q \in Reader : ctl'[q] = ctl[q]
                             \/ (q = r /\ ctl'[q] = Append(ctl[q], reader'[q].off))
    PROVE  IInv'
<1> USE DEF IInv
<1>1. \A q \in Reader : reader'[q].off \in Nat
  BY DEF TypeOK
<1>2. Limited'
  BY <1>1, ReaderLimited
<1>3. Reach' = Reach /\ Reach \in Nat
  BY Numbers DEF Reach, Writing
<1> QED
  BY <1>2, <1>3, PreparedFrame, TiledFrame, StoredFrame

LEMMA PeekInv ==
    ASSUME IInv, NEW r \in Reader, PeekMsg(r)
    PROVE  IInv'
<1> USE DEF IInv
<1>1. \A q \in Reader : reader[q].off \in Nat /\ reader'[q].off = reader[q].off
  BY DEF PeekMsg, TypeOK
<1>2. TypeOK' /\ Following'
  BY PeekTypeOK, PeekFollows
<1>3. UNCHANGED <<mem, writer, member, sent, ctlcur, ctl>>
  BY DEF PeekMsg
<1>4. \A q \in Reader : reader'[q].off >= reader[q].off
  BY <1>1
<1> QED
  BY <1>2, <1>3, <1>4, ReaderInv

LEMMA HandleInv ==
    ASSUME IInv, NEW r \in Reader, HandleMsg(r)
    PROVE  IInv'
<1> USE DEF IInv
<1>1. \A q \in Reader : reader[q].off \in Nat /\ reader'[q].off = reader[q].off
  BY DEF HandleMsg, TypeOK
<1>2. TypeOK' /\ Following'
  BY HandleTypeOK, HandleFollows
<1>3. UNCHANGED <<mem, writer, member, sent, ctlcur, ctl>>
  BY DEF HandleMsg
<1>4. \A q \in Reader : reader'[q].off >= reader[q].off
  BY <1>1
<1> QED
  BY <1>2, <1>3, <1>4, ReaderInv

LEMMA SkipInv ==
    ASSUME IInv, NEW r \in Reader, SkipMsg(r)
    PROVE  IInv'
<1> USE DEF IInv
<1> DEFINE off == reader[r].off + mem[Slot(reader[r].off)].len
<1>1. /\ off \in Nat /\ off >= reader[r].off /\ reader'[r].off = off
      /\ \A q \in Reader \ {r} : reader'[q] = reader[q]
      /\ UNCHANGED ctl \/ SendHb(r, off)
      /\ UNCHANGED <<mem, writer, member, sent, ctlcur>>
  BY SkipFacts
<1> HIDE DEF off
<1>2. TypeOK' /\ Following'
  BY SkipTypeOK, SkipFollows
<1>3. \A q \in Reader : reader[q].off \in Nat /\ reader'[q].off >= reader[q].off
  BY <1>1, Numbers
<1>4. \A q \in Reader : ctl'[q] = ctl[q] \/ (q = r /\ ctl'[q] = Append(ctl[q], reader'[q].off))
  BY <1>1, SendHbType
<1> QED
  BY <1>1, <1>2, <1>3, <1>4, ReaderInv

LEMMA HeartbeatInv ==
    ASSUME IInv, NEW r \in Reader, Heartbeat(r)
    PROVE  IInv'
<1> USE DEF IInv
<1>1. SendHb(r, reader[r].off) /\ UNCHANGED <<mem, writer, member, sent, reader, received, ctlcur>>
  BY DEF Heartbeat
<1>2. \A q \in Reader : reader[q].off \in Nat /\ reader'[q].off >= reader[q].off
  BY <1>1, Numbers
<1>3. \A q \in Reader : ctl'[q] = ctl[q] \/ (q = r /\ ctl'[q] = Append(ctl[q], reader'[q].off))
  BY <1>1, <1>2, SendHbType
<1> QED
  BY <1>1, <1>2, <1>3, HeartbeatTypeOK, FollowingFrame, ReaderInv

LEMMA LeaveInv ==
    ASSUME IInv, NEW r \in Reader, Leave(r)
    PROVE  IInv'
<1> USE DEF IInv
<1>1. \A q \in Reader : reader[q].off \in Nat /\ reader'[q].off = reader[q].off
  BY DEF Leave, TypeOK
<1>2. TypeOK' /\ Following'
  BY LeaveTypeOK, LeaveFollows
<1>3. UNCHANGED <<mem, writer, member, sent, ctlcur, ctl>>
  BY DEF Leave
<1>4. \A q \in Reader : reader'[q].off >= reader[q].off
  BY <1>1
<1> QED
  BY <1>2, <1>3, <1>4, ReaderInv

LEMMA StutterInv ==
    ASSUME IInv, UNCHANGED vars
    PROVE  IInv'
BY DEF vars, IInv, TypeOK, Limited, Prepared, Tiled, Stored, Following, Follows, Intact,
       Reach, EndOf, Writing, HasRoom

LEMMA NextInv == IInv /\ [Next]_vars => IInv'
<1> SUFFICES ASSUME IInv, [Next]_vars PROVE IInv'
  OBVIOUS
<1>1. ASSUME NEW len \in MsgLen, BeginWrite(len) PROVE IInv'
  BY <1>1, BeginInv
<1>2. CASE PollCtlIn
  BY <1>2, PollInv
<1>3. CASE FillMessage
  BY <1>3, FillInv
<1>4. CASE SealNext
  BY <1>4, SealInv
<1>5. CASE PublishLength
  BY <1>5, PublishInv
<1>6. ASSUME NEW r \in Reader, PeekCtl(r) PROVE IInv'
  BY <1>6, PeekCtlInv
<1>7. ASSUME NEW r \in Reader, ReadCtl(r) PROVE IInv'
  BY <1>7, ReadCtlInv
<1>8. ASSUME NEW r \in Reader, PeekMsg(r) PROVE IInv'
  BY <1>8, PeekInv
<1>9. ASSUME NEW r \in Reader, HandleMsg(r) PROVE IInv'
  BY <1>9, HandleInv
<1>10. ASSUME NEW r \in Reader, SkipMsg(r) PROVE IInv'
  BY <1>10, SkipInv
<1>11. ASSUME NEW r \in Reader, Heartbeat(r) PROVE IInv'
  BY <1>11, HeartbeatInv
<1>12. ASSUME NEW r \in Reader, Leave(r) PROVE IInv'
  BY <1>12, LeaveInv
<1>13. CASE UNCHANGED vars
  BY <1>13, StutterInv
<1> QED
  BY <1>1, <1>2, <1>3, <1>4, <1>5, <1>6, <1>7, <1>8, <1>9, <1>10, <1>11, <1>12, <1>13
     DEF Next, Parent, Child

-----------------------------------------------------------------------------
(* What follows. *)

\* The parts of the state are of their types in every run of ams_sendtest.
THEOREM TypeOKHolds == Spec => []TypeOK
<1>1. IInv => TypeOK
  BY DEF IInv
<1> QED
  BY <1>1, InitInv, NextInv, PTL DEF Spec

\* The write limit keeps the writer, its next length field included, from
\* coming round to a message some reader has not skipped (UpdateWriteLimit).
THEOREM NoOverwriteHolds == Spec => []NoOverwrite
<1>1. IInv => NoOverwrite
  BY DEF IInv, Limited, Reach, NoOverwrite
<1> QED
  BY <1>1, InitInv, NextInv, PTL DEF Spec

\* ShmError is never raised: a nonzero length is always that of the message
\* whose offset the header carries (PeekMsg).
THEOREM NoShmErrorHolds == Spec => []NoShmError
<1>1. IInv => NoShmError
  BY DEF IInv, Following, Follows, NoShmError
<1> QED
  BY <1>1, InitInv, NextInv, PTL DEF Spec

\* Publishing a message is writing it to the broadcast's log.
LEMMA PublishWrites ==
    ASSUME IInv, PublishLength
    PROVE  Broadcast!Write
<1> USE DEF IInv
<1>1. /\ sent' = Append(sent, [off |-> writer.off, len |-> writer.len]) /\ UNCHANGED received
  BY DEF PublishLength
<1>2. writer.len \in MsgLen
  BY PublishFacts
<1>3. writer.off \in 0 .. NMsg * MaxMsg
  <2>1. PICK k \in Nat : k = Len(sent)
    BY SentLength
  <2>2. k <= NMsg /\ EndOf(k) = writer.off /\ EndOf(k) <= k * MaxMsg
    BY <2>1 DEF Tiled
  <2>3. k * MaxMsg <= NMsg * MaxMsg /\ k * MaxMsg \in Nat /\ NMsg * MaxMsg \in Nat
    <3>1. NMsg - k \in Nat /\ MaxMsg \in Nat
      BY <2>2, Sizes
    <3>2. (NMsg - k) * MaxMsg \in Nat /\ NMsg * MaxMsg = k * MaxMsg + (NMsg - k) * MaxMsg
      BY <2>1, <3>1, Sizes
    <3>3. k * MaxMsg \in Nat /\ NMsg * MaxMsg \in Nat
      BY <2>1, Sizes
    <3> QED
      BY <3>2, <3>3
  <2> QED
    BY <2>2, <2>3, Numbers
<1> QED
  BY <1>1, <1>2, <1>3 DEF Broadcast!Write

\* The ring implements the broadcast: publishing writes, handling receives,
\* and every other step stutters.
THEOREM BroadcastSpecHolds == Spec => BroadcastSpec
<1>1. Init => Broadcast!Init
  BY DEF Init, Broadcast!Init
<1>2. IInv /\ [Next]_vars => [Broadcast!Next]_(Broadcast!vars)
  <2> SUFFICES ASSUME IInv, [Next]_vars
               PROVE  Broadcast!Next \/ UNCHANGED <<sent, received>>
    BY DEF Broadcast!vars
  <2>1. CASE PublishLength
    BY <2>1, PublishWrites DEF Broadcast!Next
  <2>2. ASSUME NEW r \in Reader, HandleMsg(r) PROVE Broadcast!Next
    BY <2>2, HandleFacts DEF Broadcast!Next, Broadcast!Receive, IInv
  <2>3. ASSUME NEW len \in MsgLen, BeginWrite(len) PROVE UNCHANGED <<sent, received>>
    BY <2>3 DEF BeginWrite
  <2>4. CASE PollCtlIn \/ FillMessage \/ SealNext \/ UNCHANGED vars
    BY <2>4 DEF PollCtlIn, FillMessage, SealNext, vars
  <2>5. ASSUME NEW r \in Reader,
               PeekCtl(r) \/ ReadCtl(r) \/ PeekMsg(r) \/ SkipMsg(r) \/ Heartbeat(r) \/ Leave(r)
        PROVE  UNCHANGED <<sent, received>>
    BY <2>5 DEF PeekCtl, ReadCtl, PeekMsg, SkipMsg, Heartbeat, Leave
  <2> QED
    BY <2>1, <2>2, <2>3, <2>4, <2>5 DEF Next, Parent, Child
<1> QED
  BY <1>1, <1>2, InitInv, NextInv, PTL DEF Spec, BroadcastSpec, Broadcast!Spec
=============================================================================
