---------------------------- MODULE MsgFileProps ----------------------------
(* What a message file must guarantee.                                       *)
EXTENDS MsgFile

\* How many messages there are in the first i cells.
Pays(cells, i) == Cardinality({j \in 1 .. i : cells[j].t = "pay"})

\* The messages of the sound part of the file are numbered from 0 without a
\* gap or a repetition, whatever crashes and restarts the writer has had
\* (OpenAppend, StartNextMsgBlock).
NumberedOnce ==
    \A i \in SoundHeads : file[i].first = Pays(file, i)

\* What ReadMsg returns for a number in the sound part of the file is the
\* message of that number; with a torn block further on, and while the
\* writer appends ("Read message by sequence number").
ReadsBySeqno ==
    LET f == rf["reader"] IN
    f.at = "returned" =>
        \A i \in SoundHeads :
            InBlock(i, f.seek) =>
                f.result \in {file[i + 1 + (f.seek - file[i].first)].msg}
                             \cup IF f.fail THEN {NoResult} ELSE {}

\* A caller that found the file OkQ after OpenAppend, and closes it without
\* FailQ, finds in it all it has given to WriteMsg in between, in order:
\* messages that are dropped are told of ("failure flag is preserved, and
\* could be retrieved with FailQ").  Without that look at OkQ nothing tells
\* of a file that could not be opened.
CloseTells ==
    wf.at = "closed" /\ began /\ ~wf.fail =>
        LET before == Pays(file, Len(file)) - Len(since) IN
        /\ before >= 0
        /\ \A i \in DOMAIN file :
              file[i].t = "pay" /\ Pays(file, i) > before =>
                  file[i].msg = since[Pays(file, i) - before]

\* The file is sound but for its last cell, which is torn in one of these ways.
TornAt(kinds) ==
    file # <<>> /\ file[Len(file)].t \in kinds /\ DOMAIN file \ Sound = {Len(file)}

\* A sound file whose last header is torn within one of the two parts it is
\* read in is recognised as broken and never written to again ("check message
\* blocks for integrity").
BrokenIsLeft ==
    [][TornAt({"half"}) => UNCHANGED file]_vars

\* The same of every torn header does not hold: one torn right behind its
\* MsgHeader is taken for the end of the file, and the writer appends to it.
TornHeaderLeft ==
    [][TornAt({"half", "bare"}) => UNCHANGED file]_vars

\* Liveness: a message in the buffer is written by the timer at the latest,
\* unless the write fails or the writer dies.
FlushedInTheEnd ==
    wf.buf # <<>> ~> (wf.buf = <<>> \/ wf.fail)
=============================================================================
