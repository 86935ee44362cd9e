----------------------------- MODULE KeyDecoder ----------------------------
(* How acr_nav turns the bytes of a VT100 terminal into key names.  There    *)
(* are two decoders for one protocol.  "loop": with -ipc or -connect, stdin  *)
(* is a non-blocking file under epoll, the decoder keeps its place between   *)
(* bytes in acr_nav_keybuf, and a 50 ms timer tells a lone Escape from the   *)
(* start of a sequence.  "blocking": the plain program reads stdin with      *)
(* blocking reads, and tells the two apart with a 50 ms poll.                *)
(*                                                                           *)
(* The terminal sends the bytes of one key less than 50 ms apart, whereas    *)
(* the user waits for an Escape to take effect before the next key.          *)
EXTENDS Sequences, Functions, SequencesExt, FiniteSetsExt, Integers

CONSTANTS Modes,     \* the decoders to run: a subset of {"loop", "blocking"}
          Keyboard,  \* what a key press sends: a set of byte sequences
          MaxKeys    \* bound on the number of keys typed

\* The names of the keys.  A byte above 32 that is not listed is its own name.
Plain == [cr |-> "Enter", nl |-> "Enter", del |-> "Backspace", bs |-> "Backspace",
          tab |-> "Tab", sp |-> "Space", soh |-> "Ctrl-A"]
Csi   == [A |-> "Up", B |-> "Down", C |-> "Right", D |-> "Left", H |-> "Home", F |-> "End"]
Page  == [x \in {"5", "6"} |-> IF x = "5" THEN "PgUp" ELSE "PgDown"]

NameOf(byte) == IF byte \in DOMAIN Plain THEN Plain[byte] ELSE byte

\* The name of the key that sends seq; Ctrl-C has none, it stops the program.
CtrlC == <<"etx">>
KeyName(seq) ==
    CASE Len(seq) = 1 -> IF seq[1] = "esc" THEN "Escape" ELSE NameOf(seq[1])
      [] Len(seq) = 3 -> Csi[seq[3]]
      [] Len(seq) = 4 -> Page[seq[3]]

\* A byte is not the empty string, the name of no key.
ASSUME KeyboardAssumption ==
    /\ Modes \subseteq {"loop", "blocking"} /\ MaxKeys \in Nat
    /\ \A seq \in Keyboard :
          \/ seq = <<seq[1]>> /\ seq[1] # ""
          \/ \E x \in DOMAIN Csi : seq = <<"esc", "[", x>>
          \/ \E x \in DOMAIN Page : seq = <<"esc", "[", x, "~">>

VARIABLES mode,     \* which decoder runs
          term,     \* typed: history of the keys; part: bytes still to come;
                    \* tty: bytes that came; eof: the terminal hung up
          dec,      \* buf: acr_nav_keybuf; armed: acr_nav_esc_timer_armed;
                    \* keys: history of the keys ProcessKey was given; running
          reader,   \* the blocking loop: at, the key being read, errno
          win       \* sigwinch: acr_nav_sigwinch; stale: the terminal has
                    \* changed its size since it was last asked for it

vars == <<mode, term, dec, reader, win>>

Init ==
    /\ mode \in Modes
    /\ term = [typed |-> <<>>, part |-> <<>>, tty |-> <<>>, eof |-> FALSE]
    /\ dec = [buf |-> <<>>, armed |-> FALSE, keys |-> <<>>, running |-> TRUE]
    /\ reader = [at |-> "call", key |-> "", errno |-> "0"]
    /\ win = [sigwinch |-> FALSE, stale |-> FALSE]

-----------------------------------------------------------------------------
\* The user and the terminal.

Delivered == term.part = <<>>
Incoming  == term.tty # <<>>
Caught    == Delivered /\ ~Incoming   \* all that was sent has been read

Unhurried == term.typed # <<>> /\ Last(term.typed) = "Escape" => dec.keys = term.typed

Type(seq) ==
    /\ Delivered /\ ~term.eof /\ Unhurried
    /\ Len(term.typed) < MaxKeys
    /\ term' = [term EXCEPT !.part = seq,
                            !.typed = Append(@, IF seq = CtrlC THEN "Ctrl-C" ELSE KeyName(seq))]
    /\ UNCHANGED <<mode, dec, reader, win>>

Deliver ==
    /\ ~Delivered
    /\ term' = [term EXCEPT !.part = Tail(@), !.tty = Append(@, Head(term.part))]
    /\ UNCHANGED <<mode, dec, reader, win>>

Hangup ==
    /\ Delivered /\ ~term.eof
    /\ term' = [term EXCEPT !.eof = TRUE]
    /\ UNCHANGED <<mode, dec, reader, win>>

\* SigwinchHandler.  A blocked read returns EINTR, a poll for the rest of a
\* sequence says that there is none; the signal does not fall between the
\* bytes of one key.
Resize ==
    /\ Delivered
    /\ mode = "blocking" /\ reader.at \in {"escape", "bracket", "page"} => Caught
    /\ win' = [sigwinch |-> TRUE, stale |-> TRUE]
    /\ reader' =
         CASE mode = "blocking" /\ reader.at = "read" /\ Caught /\ ~term.eof
                -> [at |-> "key", key |-> "", errno |-> "EINTR"]
           [] mode = "blocking" /\ reader.at = "escape" /\ ~term.eof
                -> [at |-> "key", key |-> "Escape", errno |-> "EINTR"]
           [] OTHER -> reader
    /\ UNCHANGED <<mode, term, dec>>

-----------------------------------------------------------------------------
\* The decoder under epoll.

Report(d, key) == [d EXCEPT !.buf = <<>>, !.armed = FALSE, !.keys = Append(@, key)]

\* Slip: the timer is not started.
StartKeyUnarmed(d, byte) ==
    CASE byte = "etx" -> [d EXCEPT !.running = FALSE]
      [] byte = "esc" -> [d EXCEPT !.buf = <<byte>>]
      [] OTHER        -> Report(d, NameOf(byte))

StartKey(d, byte) ==
    CASE byte = "etx" -> [d EXCEPT !.running = FALSE]
      [] byte = "esc" -> [d EXCEPT !.buf = <<byte>>, !.armed = TRUE]
      [] OTHER        -> Report(d, NameOf(byte))

AfterEscape(d, byte) ==
    IF byte = "[" THEN [d EXCEPT !.buf = Append(@, byte), !.armed = FALSE]
                  ELSE Report(d, "Escape")

AfterBracket(d, byte) ==
    CASE byte \in DOMAIN Csi  -> Report(d, Csi[byte])
      [] byte \in DOMAIN Page -> [d EXCEPT !.buf = Append(@, byte)]
      [] OTHER                -> [d EXCEPT !.buf = <<>>]

AfterPage(d, byte) ==
    IF byte = "~" THEN Report(d, Page[d.buf[3]]) ELSE [d EXCEPT !.buf = <<>>]

DecodeKeyByte(d, byte) ==
    CASE Len(d.buf) = 0 -> StartKey(d, byte)
      [] Len(d.buf) = 1 -> AfterEscape(d, byte)
      [] Len(d.buf) = 2 -> AfterBracket(d, byte)
      [] Len(d.buf) = 3 -> AfterPage(d, byte)

\* What a run of bytes makes of the decoder, until the program is stopped: a set
\* of one element, after[i] being what the first i bytes make of it.
Step(d, byte) == IF d.running THEN DecodeKeyByte(d, byte) ELSE d

Drain(d, bytes) ==
    LET after[i \in 0 .. Len(bytes)] ==
            IF i = 0 THEN {d} ELSE {Step(x, bytes[i]) : x \in after[i - 1]}
    IN  after[Len(bytes)]

\* A key may cause a repaint, which asks for the size of the terminal.
Repainted == \E seen \in BOOLEAN : win' = [win EXCEPT !.stale = @ /\ ~seen]

\* TuiStdinReadCallback: reads until nothing is left.
TuiStdinReadCallback ==
    /\ mode = "loop" /\ dec.running
    /\ Incoming \/ term.eof
    /\ \E d \in Drain(dec, term.tty) : dec' = [d EXCEPT !.running = @ /\ ~term.eof]
    /\ term' = [term EXCEPT !.tty = <<>>]
    /\ IF dec'.keys # dec.keys /\ dec'.running THEN Repainted ELSE UNCHANGED win
    /\ UNCHANGED <<mode, reader>>

\* EscTimeoutCallback, 50 ms after the Escape.
EscTimeoutCallback ==
    /\ mode = "loop" /\ dec.running
    /\ dec.armed /\ Caught
    /\ dec' = Report(dec, "Escape")
    /\ Repainted
    /\ UNCHANGED <<mode, term, reader>>

\* SigwinchCheckCallback, every 50 ms.
SigwinchCheckCallback ==
    /\ mode = "loop" /\ dec.running /\ win.sigwinch
    /\ win' = [sigwinch |-> FALSE, stale |-> FALSE]
    /\ UNCHANGED <<mode, term, dec, reader>>

-----------------------------------------------------------------------------
\* The blocking decoder: Main's loop around ReadKeyName.

Blocking(at) == mode = "blocking" /\ dec.running /\ reader.at = at

Consume(at, key) ==
    /\ term' = [term EXCEPT !.tty = Tail(@)]
    /\ reader' = [reader EXCEPT !.at = at, !.key = key]

\* The process enters read().
CallRead ==
    /\ Blocking("call")
    /\ reader' = [reader EXCEPT !.at = "read"]
    /\ UNCHANGED <<mode, term, dec, win>>

ReadFirst ==
    /\ Blocking("read") /\ Incoming
    /\ LET byte == Head(term.tty) IN
       CASE byte = "etx" -> Consume("key", "") /\ dec' = [dec EXCEPT !.running = FALSE]
         [] byte = "esc" -> Consume("escape", "") /\ UNCHANGED dec
         [] OTHER        -> Consume("key", NameOf(byte)) /\ UNCHANGED dec
    /\ UNCHANGED <<mode, win>>

\* Slip: any errno left by an earlier call keeps the program running.
ReadEofAnyErrno ==
    /\ Blocking("read") /\ Caught /\ term.eof
    /\ dec' = [dec EXCEPT !.running = reader.errno # "0"]
    /\ reader' = [reader EXCEPT !.at = "key", !.key = ""]
    /\ UNCHANGED <<mode, term, win>>

\* read returns 0, which sets no errno: an EINTR of an earlier read is taken
\* for one of this read.
ReadEof ==
    /\ Blocking("read") /\ Caught /\ term.eof
    /\ dec' = [dec EXCEPT !.running = reader.errno = "EINTR"]
    /\ reader' = [reader EXCEPT !.at = "key", !.key = ""]
    /\ UNCHANGED <<mode, term, win>>

\* ByteAvailable, 50 ms after the Escape.
PollTimeout ==
    /\ Blocking("escape") /\ Caught /\ ~term.eof
    /\ reader' = [reader EXCEPT !.at = "key", !.key = "Escape"]
    /\ UNCHANGED <<mode, term, dec, win>>

\* The second byte; at the end of the input, seq[0] stays 0.
ReadSecond ==
    /\ Blocking("escape")
    /\ \/ /\ Incoming
          /\ Consume(IF Head(term.tty) = "[" THEN "bracket" ELSE "key", "")
       \/ /\ Caught /\ term.eof
          /\ reader' = [reader EXCEPT !.at = "key", !.key = ""]
          /\ UNCHANGED term
    /\ UNCHANGED <<mode, dec, win>>

\* Slip: the tilde is left for the next read.
ReadThirdShort ==
    /\ Blocking("bracket") /\ Incoming
    /\ LET byte == Head(term.tty) IN
       Consume("key", IF byte \in DOMAIN Csi THEN Csi[byte]
                      ELSE IF byte \in DOMAIN Page THEN Page[byte] ELSE "")
    /\ UNCHANGED <<mode, dec, win>>

ReadThird ==
    /\ Blocking("bracket") /\ Incoming
    /\ LET byte == Head(term.tty) IN
       CASE byte \in DOMAIN Csi  -> Consume("key", Csi[byte])
         [] byte \in DOMAIN Page -> Consume("page", Page[byte])
         [] OTHER                -> Consume("key", "")
    /\ UNCHANGED <<mode, dec, win>>

ReadTilde ==
    /\ Blocking("page") /\ Incoming
    /\ Consume("key", reader.key)
    /\ UNCHANGED <<mode, dec, win>>

Handled(keys, key) == IF key = "" THEN keys ELSE Append(keys, key)

\* Main calls ProcessKey, which may fail to open a file, and repaints.
HandleKey ==
    /\ Blocking("key")
    /\ dec' = [dec EXCEPT !.keys = Handled(@, reader.key)]
    /\ \E errno \in {reader.errno} \cup (IF reader.key = "" THEN {} ELSE {"ENOENT"}) :
          reader' = [at |-> "call", key |-> "", errno |-> errno]
    /\ \E seen \in BOOLEAN :
          /\ win.sigwinch => seen
          /\ seen => reader.key # "" \/ win.sigwinch
          /\ win' = [sigwinch |-> FALSE, stale |-> win.stale /\ ~seen]
    /\ UNCHANGED <<mode, term>>

-----------------------------------------------------------------------------
Decode == \/ TuiStdinReadCallback
          \/ CallRead \/ ReadFirst \/ ReadEof \/ ReadSecond \/ ReadThird \/ ReadTilde
          \/ HandleKey

Timeout == EscTimeoutCallback \/ PollTimeout

Next == \/ \E seq \in Keyboard : Type(seq)
        \/ Deliver \/ Hangup \/ Resize
        \/ Decode \/ Timeout \/ SigwinchCheckCallback

Spec == Init /\ [][Next]_vars

\* The bytes of a key all arrive, and the program and its timers run.
FairSpec == Spec /\ WF_vars(Deliver) /\ WF_vars(Decode) /\ WF_vars(Timeout)
                 /\ WF_vars(SigwinchCheckCallback)
=============================================================================
