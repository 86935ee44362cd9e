------------------------------- MODULE MsgFile -------------------------------
(* The message files of lib_ams: messages are appended to a file in blocks,  *)
(* each headed by the sequence number of its first message, and read back by *)
(* sequence number.  One process writes; its crash loses what it has not     *)
(* written, and a failing write (a full disk) or a crash leaves a torn block *)
(* at the end of the file.  Another process reads; it and OpenAppend, which  *)
(* looks for the last block, scan the file in the same way.                  *)
(*                                                                           *)
(* The file is a sequence of cells: the header of a block, or one message of *)
(* its compressed payload.  A header (24 bytes) is read in two parts, its    *)
(* MsgHeader (8 bytes) first; torn right between the two it is the cell      *)
(* "bare", and torn anywhere else the cell "half".  Messages of other types  *)
(* between the blocks, which nothing writes, are left out.                   *)
EXTENDS Integers, Sequences, FiniteSets

CONSTANTS NMsg,       \* messages the writer is given, which bounds the run
          NOpen,      \* times the file is opened for appending, likewise
          Thr,        \* buf_thr, in messages
          TornPayload,\* may a block be torn within its payload?
          Strays,     \* numbers read from what is no header
          Beyond      \* how far past the end readers ask

ASSUME FileAssumption ==
    /\ NMsg \in Nat /\ NOpen \in Nat /\ Thr \in Nat \ {0}
    /\ TornPayload \in BOOLEAN /\ Strays \subseteq Nat /\ Beyond \in Nat

VARIABLES file,
          wf,      \* the writer's FWritefile
          rf,      \* FReadfile: OpenAppend's ("append") and the reader's
          given,   \* history: how many messages WriteMsg was given
          since,   \* history: those given since OpenAppend
          began,   \* history: OkQ(wf) as OpenAppend returned
          opens    \* history: calls of OpenAppend

vars == <<file, wf, rf, given, since, began, opens>>

Scanner == {"append", "reader"}
End == -1
Garbage == 0     \* what is read is no message; messages are 1 .. NMsg
NoResult == -1   \* ReadMsg returns NULL

HeadCell(first, n) == [t |-> "head", first |-> first, n |-> n, msg |-> Garbage]
HalfCell == [t |-> "half", first |-> 0, n |-> 0, msg |-> Garbage]
BareCell == [t |-> "bare", first |-> 0, n |-> 0, msg |-> Garbage]
PayCell(m) == [t |-> "pay", first |-> 0, n |-> 0, msg |-> m]

Block(first, msgs) ==
    <<HeadCell(first, Len(msgs))>> \o [i \in DOMAIN msgs |-> PayCell(msgs[i])]

\* What a write of block b that does not complete may leave in the file.
Torn(b) ==
    {<<>>, <<HalfCell>>, <<BareCell>>} \cup
    IF TornPayload THEN {SubSeq(b, 1, k) : k \in 1 .. Len(b) - 1} ELSE {}

\* OpenRead.  The field fail stands for ~OkQ(rf): a failure, or a file that
\* could not be opened.
OpenedRead == [at |-> "idle", seek |-> End, pos |-> 0, eof |-> FALSE, fail |-> FALSE,
               first |-> 0, n |-> 0, cbuf |-> <<>>, buf |-> <<>>, result |-> NoResult]
UnopenedRead == [OpenedRead EXCEPT !.fail = TRUE]
ClosedRead == [OpenedRead EXCEPT !.at = "closed"]

Init ==
    /\ file = <<>>
    /\ wf = [at |-> "closed", fail |-> FALSE, first |-> 0, buf |-> <<>>]
    /\ rf = [w \in Scanner |-> ClosedRead]
    /\ given = 0 /\ since = <<>> /\ began = FALSE /\ opens = 0

-----------------------------------------------------------------------------
\* The blocks in the file.

Heads == {i \in DOMAIN file : file[i].t = "head"}

\* The n cells after cell i are the payload of a block; otherwise the block
\* headed there is torn.
PayloadAt(i, n) == i + n <= Len(file) /\ \A j \in i + 1 .. i + n : file[j].t = "pay"

\* The block headed at cell i is all there.
Whole(i) == PayloadAt(i, file[i].n)
\* The cells before the first torn block.
Sound == {i \in DOMAIN file :
            \A j \in 1 .. i : file[j].t \notin {"half", "bare"} /\ (j \in Heads => Whole(j))}
SoundHeads == Heads \cap Sound

-----------------------------------------------------------------------------
\* Scan, one read or seek of a scanner at a time.

\* Slip: the end of the file stays reached.
RewoundAtEof(f, s) ==
    IF s # End /\ s < f.first THEN [f EXCEPT !.first = 0, !.n = 0, !.pos = 0]
    ELSE f

\* Rewind if needed.
Rewound(f, s) ==
    IF s # End /\ s < f.first THEN [f EXCEPT !.eof = FALSE, !.first = 0, !.n = 0, !.pos = 0]
    ELSE f
BeginScan(f, s) == [Rewound(f, s) EXCEPT !.seek = s, !.at = "scan"]

Reached(f) == f.seek # End /\ f.first + f.n > f.seek
CanRead(f) == ~f.fail /\ ~f.eof
Scanned(f) == [f EXCEPT !.at = "found"]

\* Where a seek over the n cells of a payload lands: if the block is torn, in
\* the midst of what was appended after it or past the end of the file.
SkipTo(i, n) == IF PayloadAt(i, n) THEN {i + n} ELSE i .. Len(file) + 1

Failed(f) == [Scanned(f) EXCEPT !.fail = TRUE]
Ended(f) == [Scanned(f) EXCEPT !.eof = TRUE]
Onward(f) == f.pos + 1 .. Len(file) + 1

\* The sequence number in what is read as a header and is none.  Behind a torn
\* header these bytes are its own number, or have the type and length of the
\* next header in their upper half: either way the number is past those of
\* the sound part, in files of fewer than 2^16 messages.  That payloads are no
\* better a header than this is assumed.
Misnumbers == {x \in Strays : \A i \in SoundHeads : file[i].first + file[i].n <= x}

\* The rest of a torn header and what follows it are read as one header, of n
\* messages from x on.
MistakenFor(f, x, n, p) ==
    LET g == [f EXCEPT !.pos = p, !.first = x, !.n = n]
    IN [g EXCEPT !.at = IF Reached(g) THEN "load" ELSE "scan"]
Mistaken(f) == {MistakenFor(f, x, n, p) : x \in Misnumbers, n \in Strays, p \in Onward(f)}

\* A header: the loop of Scan ends at the block that was sought, at the end
\* of the file and at a failure.  A header torn at the end of the file is a
\* short read and fails, but torn right behind its MsgHeader it leaves nothing
\* for the second Read, which takes that for the end of the file.
ReadHead(f) ==
    IF Reached(f) \/ ~CanRead(f) THEN {Scanned(f)}
    ELSE IF f.pos >= Len(file) THEN {Ended(f)}
    ELSE LET cell == file[f.pos + 1]
             last == f.pos + 1 = Len(file)
         IN CASE cell.t = "head" ->
                   LET g == [f EXCEPT !.pos = @ + 1, !.first = cell.first, !.n = cell.n] IN
                   IF Reached(g) THEN {[g EXCEPT !.at = "load"]}
                   ELSE {[g EXCEPT !.pos = p] : p \in SkipTo(g.pos, g.n)}
              [] cell.t = "half" /\ last -> {Failed(f)}
              [] cell.t = "bare" /\ last -> {[Ended(f) EXCEPT !.pos = @ + 1]}
              [] cell.t = "bare" /\ ~last -> {Failed(f)} \cup Mistaken(f)
              [] OTHER -> {Failed(f), Ended(f)} \cup {[f EXCEPT !.pos = p] : p \in Onward(f)}
                          \cup Mistaken(f)

\* The header that was read is that of the block whose payload comes next.
Headed(f) ==
    /\ f.pos \in Heads /\ file[f.pos].first = f.first /\ file[f.pos].n = f.n
    /\ PayloadAt(f.pos, f.n)

\* Read, Uncompress and Reindex of a payload: what is not one fails to
\* uncompress, or gives anything.
Unpacked(f, msgs) == {[Scanned(f) EXCEPT !.cbuf = msgs, !.buf = msgs]}
NotUnpacked(f) == {[Failed(f) EXCEPT !.buf = <<>>]}

\* The block that was sought.  At the end of the file nothing is read and
\* nothing fails: what cbuf held before is uncompressed in its place.
LoadBlock(f) ==
    LET g == [f EXCEPT !.pos = IF @ + f.n <= Len(file) THEN @ + f.n ELSE Len(file)] IN
    IF Headed(f) THEN Unpacked(g, [i \in 1 .. f.n |-> file[f.pos + i].msg])
    ELSE IF f.pos >= Len(file)
    THEN NotUnpacked([g EXCEPT !.eof = TRUE]) \cup Unpacked([g EXCEPT !.eof = TRUE], f.cbuf)
    ELSE NotUnpacked(g) \cup Unpacked(g, [i \in 1 .. f.n |-> Garbage])

ScanStep(w) ==
    /\ \/ rf[w].at = "scan" /\ \E g \in ReadHead(rf[w]) : rf' = [rf EXCEPT ![w] = g]
       \/ rf[w].at = "load" /\ \E g \in LoadBlock(rf[w]) : rf' = [rf EXCEPT ![w] = g]
    /\ UNCHANGED <<file, wf, given, since, began, opens>>

-----------------------------------------------------------------------------
\* The writer.

OkQ == wf.at = "open" /\ ~wf.fail

\* Slip: a write that fails is not noted.
FlushUnchecked(w) ==
    \/ /\ file' = file \o Block(w.first, w.buf)
       /\ wf' = [w EXCEPT !.first = @ + Len(w.buf), !.buf = <<>>]
    \/ /\ \E part \in Torn(Block(w.first, w.buf)) : file' = file \o part
       /\ wf' = [w EXCEPT !.first = @ + Len(w.buf), !.buf = <<>>]

\* Flush: Compress, WriteMsgBlock, StartNextMsgBlock.  A write that fails
\* leaves a part of the block in the file and the messages in the buffer.
Flush(w) ==
    \/ /\ file' = file \o Block(w.first, w.buf)
       /\ wf' = [w EXCEPT !.first = @ + Len(w.buf), !.buf = <<>>]
    \/ /\ \E part \in Torn(Block(w.first, w.buf)) : file' = file \o part
       /\ wf' = [w EXCEPT !.fail = TRUE]

\* OpenAppend of a file that is not open: a scan to the end, by a reader of
\* its own.  A file that cannot be opened leaves an FWritefile without a file
\* and without a failure; one that cannot be opened for the scan is taken for
\* a broken file.
OpenAppend ==
    /\ wf.at = "closed" /\ opens < NOpen
    /\ opens' = opens + 1 /\ since' = <<>> /\ began' = FALSE
    /\ \/ /\ wf' = [at |-> "unopened", fail |-> FALSE, first |-> 0, buf |-> <<>>]
          /\ UNCHANGED rf
       \/ /\ wf' = [at |-> "opening", fail |-> FALSE, first |-> 0, buf |-> <<>>]
          /\ \E f \in {OpenedRead, UnopenedRead} :
                rf' = [rf EXCEPT !["append"] = BeginScan(f, End)]
    /\ UNCHANGED <<file, given>>

\* Slip: numbers go on with the last block's own, as if it was to be redone.
OpenAppendedAtLast ==
    LET f == rf["append"] IN
    /\ wf.at = "opening" /\ f.at = "found"
    /\ wf' = [wf EXCEPT !.at = "open", !.fail = f.fail, !.first = f.first]
    /\ rf' = [rf EXCEPT !["append"] = ClosedRead] /\ began' = ~wf'.fail
    /\ UNCHANGED <<file, given, since, opens>>

\* Slip: a scan that failed is not noted.
OpenAppendedBroken ==
    LET f == rf["append"] IN
    /\ wf.at = "opening" /\ f.at = "found"
    /\ wf' = [wf EXCEPT !.at = "open", !.first = f.first + f.n]
    /\ rf' = [rf EXCEPT !["append"] = ClosedRead] /\ began' = ~wf'.fail
    /\ UNCHANGED <<file, given, since, opens>>

\* The numbers go on after the last block; a failed scan "means broken file".
OpenAppended ==
    LET f == rf["append"] IN
    /\ wf.at = "opening" /\ f.at = "found"
    /\ wf' = [wf EXCEPT !.at = "open", !.fail = f.fail,
                        !.first = IF f.fail THEN f.first ELSE f.first + f.n]
    /\ rf' = [rf EXCEPT !["append"] = ClosedRead] /\ began' = ~wf'.fail
    /\ UNCHANGED <<file, given, since, opens>>

\* WriteMsg; the caller learns nothing of a message that is dropped.
WriteMsg ==
    LET m == given + 1
        w == [wf EXCEPT !.buf = Append(@, m)]
    IN /\ wf.at \in {"open", "unopened"} /\ given < NMsg
       /\ given' = m /\ since' = Append(since, m)
       /\ IF ~OkQ THEN UNCHANGED <<file, wf>>
          ELSE IF Len(w.buf) >= Thr THEN Flush(w)
          ELSE wf' = w /\ UNCHANGED file
       /\ UNCHANGED <<rf, began, opens>>

\* Slip: the timer waits for a full buffer.
FlushStepFull ==
    /\ OkQ /\ Len(wf.buf) >= Thr
    /\ Flush(wf)
    /\ UNCHANGED <<rf, given, since, began, opens>>

\* zd_flush_Step, the timer.
FlushStep ==
    /\ OkQ /\ wf.buf # <<>>
    /\ Flush(wf)
    /\ UNCHANGED <<rf, given, since, began, opens>>

\* Close: what is left is written, and close() fails or not.
Close ==
    /\ wf.at \in {"open", "unopened"}
    /\ \E ok \in BOOLEAN :
          /\ wf.at = "unopened" => ok
          /\ \E w \in {[wf EXCEPT !.at = "closed", !.fail = @ \/ ~ok]} :
                IF OkQ /\ wf.buf # <<>> THEN Flush(w) ELSE wf' = w /\ UNCHANGED file
    /\ UNCHANGED <<rf, given, since, began, opens>>

\* The writer dies, perhaps while it writes a block.
Crash ==
    /\ wf.at # "closed"
    /\ \E part \in IF OkQ /\ wf.buf # <<>> THEN Torn(Block(wf.first, wf.buf)) ELSE {<<>>} :
          file' = file \o part
    /\ wf' = [wf EXCEPT !.at = "closed", !.fail = TRUE, !.buf = <<>>]
    /\ rf' = [rf EXCEPT !["append"] = ClosedRead]
    /\ UNCHANGED <<given, since, began, opens>>

-----------------------------------------------------------------------------
\* The reader.

OpenRead ==
    /\ rf["reader"].at \in {"closed", "idle"} /\ rf["reader"] # OpenedRead
    /\ \E f \in {OpenedRead, UnopenedRead} : rf' = [rf EXCEPT !["reader"] = f]
    /\ UNCHANGED <<file, wf, given, since, began, opens>>

\* The sequence numbers of the blocks in the file.
InBlock(i, s) == file[i].first <= s /\ s < file[i].first + file[i].n
Seqnos == UNION {file[i].first .. file[i].first + file[i].n - 1 : i \in Heads}

ReadMsg(s) ==
    /\ rf["reader"].at = "idle"
    /\ rf' = [rf EXCEPT !["reader"] =
                 IF rf["reader"].fail THEN [@ EXCEPT !.seek = s, !.at = "found"]
                 ELSE BeginScan(@, s)]
    /\ UNCHANGED <<file, wf, given, since, began, opens>>

\* The message is looked up in the payload that was loaded last.
Lookup(f) ==
    IF ~f.fail /\ f.first <= f.seek /\ f.seek < f.first + f.n
       /\ f.seek - f.first < Len(f.buf)
    THEN f.buf[f.seek - f.first + 1] ELSE NoResult

ReadMsgReturns ==
    /\ rf["reader"].at = "found"
    /\ rf' = [rf EXCEPT !["reader"].at = "returned", !["reader"].result = Lookup(rf["reader"])]
    /\ UNCHANGED <<file, wf, given, since, began, opens>>

ReaderTakes ==
    /\ rf["reader"].at = "returned"
    /\ rf' = [rf EXCEPT !["reader"].at = "idle", !["reader"].result = NoResult,
                        !["reader"].seek = End]
    /\ UNCHANGED <<file, wf, given, since, began, opens>>

Asked == {s \in 0 .. NMsg - 1 + Beyond : s \in Seqnos \/ s - Beyond \in Seqnos}

-----------------------------------------------------------------------------
Writer == OpenAppend \/ OpenAppended \/ WriteMsg \/ FlushStep \/ Close
Reader == OpenRead \/ (\E s \in Asked : ReadMsg(s)) \/ ReadMsgReturns \/ ReaderTakes

Next == Writer \/ Crash \/ Reader \/ \E w \in Scanner : ScanStep(w)

Spec == Init /\ [][Next]_vars

\* The writer's main loop runs its steps, and scans go on; whether anybody
\* writes, reads or closes is up to the callers.
FairSpec ==
    /\ Spec
    /\ WF_vars(FlushStep) /\ WF_vars(OpenAppended)
    /\ \A w \in Scanner : WF_vars(ScanStep(w))
=============================================================================
