----------------------------- MODULE KeyProps ------------------------------
(* What both key decoders must do.                                           *)
EXTENDS KeyDecoder

\* However the bytes are split into reads and whenever the timer runs, the
\* program is given the keys that were typed: none is invented, none becomes
\* another, no Escape is made of a sequence (DecodeKeyByte, ReadKeyName,
\* EscTimeoutCallback).
DecodedIsTyped == IsPrefix(dec.keys, term.typed)

\* Liveness: every key that is typed reaches ProcessKey, an Escape without a
\* further byte too, and Ctrl-C stops the program; neither decoder is left
\* waiting inside a key that was sent.
EveryKeyHandled == []<>(dec.keys = term.typed \/ ~dec.running \/ term.eof)

\* Liveness: when the terminal hangs up the program stops and does not poll
\* a dead terminal for ever (ReadKeyName, TuiStdinReadCallback) - unless a
\* read was interrupted before, see ReadEof.
HangupStops == (term.eof /\ reader.errno # "EINTR") ~> ~dec.running

\* ReadKeyName says of the blocking loop: "interrupted by signal (e.g.
\* SIGWINCH) - return empty key, caller repaints".
ResizeNoticed == win.stale ~> (~win.stale \/ ~dec.running)
=============================================================================
