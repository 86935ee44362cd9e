----------------------------- MODULE LiveProps -----------------------------
(* What a live view promises.                                                *)
EXTENDS LiveView

Live(c) == client[c].connected /\ Up(c)

\* What is under way for c: the request, or the rest of one response, on its
\* way through server, socket and staging buffer.
Underway(c) == client[c].staging \o wire[c] \o (IF server.at = c THEN server.out ELSE <<>>)

\* Back-pressure: a request or one response is under way exactly while
\* live_poll_pending is set, so two responses never meet in the staging buffer
\* ("Keep anything after sentinel+2 for next response (shouldn't happen with
\* backpressure)", LiveReadCallback, LivePollCallback).
BackPressure ==
    \A c \in Client : Live(c) =>
        /\ req[c] <= 1
        /\ ~client[c].pending => req[c] = 0 /\ Underway(c) = <<>>
        /\ client[c].pending /\ ~Gone =>
              \/ req[c] = 1 /\ Underway(c) = <<>>
              \/ req[c] = 0 /\ \E v \in Version : Underway(c) = Response(v)

\* What is shown comes from one whole response, never from a torn one or from
\* pieces of two, however the socket cuts it and whenever the server dies
\* (LiveReadCallback).
DataWhole ==
    \A c \in Client : client[c].data # <<>> =>
        \E v \in Version : client[c].data = SubSeq(Response(v), 1, Parts)

\* A rebuild under the user's hand never moves the cursor to another pool
\* while the one it was on is still listed (BuildLiveLeftItems).
CursorFollowsPool ==
    [][\A c \in Client :
          panel'[c].items # panel[c].items /\ panel[c].items # <<>> =>
             LET pool == panel[c].items[panel[c].row] IN
             pool \in Range(panel'[c].items) => panel'[c].items[panel'[c].row] = pool]_vars

\* Liveness: what a connected client shows is never older for ever than what
\* the server holds: the poll recurs, also after a change at any point of the
\* previous one (LivePollCallback, Ipc_RequestStateDump).
Shows(c, v) == client[c].data # <<>> /\ client[c].data[1].version >= v

ChangesShown ==
    \A c \in Client : \A v \in Version :
        (Now >= v) ~> (Shows(c, v) \/ ~Live(c))

\* Liveness: when the server is gone, the client says so: it does not wait for
\* the rest of a response or for the answer to a poll (LiveReadCallback,
\* LivePollCallback).
DisconnectNoticed == \A c \in Client : Gone ~> ~Live(c)

\* Ipc_RequestStateDump says of its loop "local socket drains fast": the
\* server gets out of it.
ServerComesBack == []<>(server.at \in {"idle", "gone"})
=============================================================================
