------------------------------ MODULE LiveView ------------------------------
(* acr_nav -connect: a client polls a running program over a Unix socket     *)
(* every 100 ms and shows the pools it reports.  The program answers in its  *)
(* only thread, one client at a time, in a loop that does not return before  *)
(* the whole dump is in the socket.                                          *)
(*                                                                           *)
(* A response is cut into chunks; the last one is the sentinel, an empty     *)
(* line.  The server's pools change between two requests.  A request is one  *)
(* short line; while one is in flight no other is sent, so it always fits.   *)
EXTENDS Integers, Sequences, FiniteSets, SequencesExt

CONSTANTS Client,    \* the connected viewers
          Pool,      \* the pools of the server
          Static,    \* those that are finput tables
          Rank,      \* Rank[p]: the place of p in alphabetical order
          NoPool,    \* the ctype of the namespace header: the empty string
          Parts,     \* the chunks of a response before the sentinel
          Room,      \* chunks the socket holds
          MaxVersion,\* bound on the number of changes of the server's pools
          MayStop,   \* the clients that may be stopped (SIGSTOP, a slow tty)
          MayDie     \* whether the server may die

ASSUME LiveAssumption ==
    /\ Static \subseteq Pool /\ NoPool \notin Pool
    /\ \A p, q \in Pool : p # q => Rank[p] # Rank[q]
    /\ Parts \in Nat \ {0} /\ Room \in Nat \ {0} /\ MaxVersion \in Nat \ {0}
    /\ MayStop \subseteq Client /\ MayDie \in BOOLEAN
    /\ "idle" \notin Client /\ "gone" \notin Client

VARIABLES world,   \* history: world[v] is the set of non-empty pools at version v
          server,  \* at: "idle", "gone", or the client it writes to; out: what
                   \* is left to write
          req,     \* req[c]: requests of c the server has not read
          wire,    \* wire[c]: chunks in the socket to c
          client,  \* client[c]: connected, pending, staging, data, and the
                   \* state of its thread: at, stopped, running
          panel    \* panel[c]: live_show_static, the rows, the selected row

vars == <<world, server, req, wire, client, panel>>

Version == 1 .. MaxVersion
Now     == Len(world)

Response(v) == [i \in 1 .. Parts + 1 |-> [version |-> v, last |-> i = Parts + 1]]

-----------------------------------------------------------------------------
\* The left panel.

\* The pools a response reports on.
Census(data) == UNION {world[chunk.version] : chunk \in Range(data)}

Header == <<NoPool>>

\* The rows BuildLiveLeftItems makes: the namespace header, then the pools by
\* name.
Rows(data, show_static) ==
    Header \o SetToSortSeq({p \in Census(data) : p \notin Static \/ show_static},
                           LAMBDA p, q : Rank[p] < Rank[q])

\* Slip: the row number is kept, whatever is on it now.
RestoredRowKept(old, rows) == IF old.row > Len(rows) THEN Len(rows) ELSE old.row

\* Where the selection goes: with its pool, else it keeps its row, else the
\* last one.
RestoredRow(old, rows) ==
    LET at == {i \in DOMAIN rows : old.items # <<>> /\ rows[i] = old.items[old.row]} IN
    IF at # {} THEN CHOOSE i \in at : TRUE
    ELSE IF old.row > Len(rows) THEN Len(rows) ELSE old.row

BuildLiveLeftItems(old, data) ==
    LET rows == Rows(data, old.show_static) IN
    [old EXCEPT !.items = rows, !.row = RestoredRow(old, rows)]

\* TuiLiveInit: an empty panel until the first response.
Init ==
    /\ \E pools \in SUBSET Pool : world = <<pools>>
    /\ server = [at |-> "idle", out |-> <<>>]
    /\ req = [c \in Client |-> 0]
    /\ wire = [c \in Client |-> <<>>]
    /\ client = [c \in Client |-> [connected |-> TRUE, pending |-> FALSE,
                                   staging |-> <<>>, data |-> <<>>,
                                   at |-> "loop", stopped |-> FALSE, running |-> TRUE]]
    /\ panel = [c \in Client |-> [show_static |-> FALSE, items |-> <<>>, row |-> 1]]

-----------------------------------------------------------------------------
\* The server.

Gone == server.at = "gone"

\* The program being inspected does its work between two steps of its loop.
Change ==
    /\ server.at = "idle" /\ Now < MaxVersion
    /\ \E pools \in SUBSET Pool : world' = Append(world, pools)
    /\ UNCHANGED <<server, req, wire, client, panel>>

\* cd_ipcconn_read_Step: one line of one connection, and StateDump.
Ipc_RequestStateDump(c) ==
    /\ server.at = "idle" /\ req[c] > 0
    /\ req' = [req EXCEPT ![c] = @ - 1]
    /\ server' = [at |-> c, out |-> Response(Now)]
    /\ UNCHANGED <<world, wire, client, panel>>

\* The write loop: as much as there is room for; EAGAIN tries again; a client
\* that has closed its end breaks the loop.
WriteDump(c) ==
    /\ server.at = c
    /\ IF ~client[c].running
       THEN server' = [at |-> "idle", out |-> <<>>] /\ UNCHANGED wire
       ELSE \E n \in 1 .. Len(server.out) :
              /\ Len(wire[c]) + n <= Room
              /\ wire' = [wire EXCEPT ![c] = @ \o SubSeq(server.out, 1, n)]
              /\ server' = IF n = Len(server.out) THEN [at |-> "idle", out |-> <<>>]
                           ELSE [server EXCEPT !.out = SubSeq(@, n + 1, Len(@))]
    /\ UNCHANGED <<world, req, client, panel>>

\* The server may end at any point of a response; what it wrote stays.
Die ==
    /\ MayDie /\ ~Gone
    /\ server' = [at |-> "gone", out |-> <<>>]
    /\ UNCHANGED <<world, req, wire, client, panel>>

-----------------------------------------------------------------------------
\* A client.

Up(c) == client[c].running /\ ~client[c].stopped

\* Slip: polls whether or not the last response has come.
LivePollCallbackEager(c) ==
    /\ Up(c) /\ client[c].at = "loop" /\ client[c].connected /\ req[c] < 2
    /\ IF Gone THEN client' = [client EXCEPT ![c].connected = FALSE] /\ UNCHANGED req
       ELSE /\ client' = [client EXCEPT ![c].pending = TRUE]
            /\ req' = [req EXCEPT ![c] = @ + 1]
    /\ UNCHANGED <<world, server, wire, panel>>

\* LivePollCallback, every 100 ms: a write to a dead server disconnects.
LivePollCallback(c) ==
    /\ Up(c) /\ client[c].at = "loop"
    /\ client[c].connected /\ ~client[c].pending
    /\ IF Gone THEN client' = [client EXCEPT ![c].connected = FALSE] /\ UNCHANGED req
       ELSE /\ client' = [client EXCEPT ![c].pending = TRUE]
            /\ req' = [req EXCEPT ![c] = @ + 1]
    /\ UNCHANGED <<world, server, wire, panel>>

\* LiveReadCallback reads until the socket is empty; the server may write
\* meanwhile.
LiveRead(c) ==
    /\ Up(c) /\ wire[c] # <<>>
    /\ client' = [client EXCEPT ![c].at = "read", ![c].staging = @ \o wire[c]]
    /\ wire' = [wire EXCEPT ![c] = <<>>]
    /\ UNCHANGED <<world, server, req, panel>>

Sentinels(staging) == {i \in DOMAIN staging : staging[i].last}
First(at) == CHOOSE i \in at : \A j \in at : i <= j

\* Slip: what was read is taken for a response, complete or not.
ScannedUnterminated(me) ==
    [me EXCEPT !.data = SelectSeq(me.staging, LAMBDA chunk : ~chunk.last),
               !.staging = <<>>, !.pending = FALSE]

\* Slip: the response is shown, but the next poll is not allowed.
ScannedPending(me) ==
    LET at == Sentinels(me.staging) IN
    IF at = {} THEN me
    ELSE [me EXCEPT !.data = SubSeq(me.staging, 1, First(at) - 1),
                    !.staging = SubSeq(@, First(at) + 1, Len(@))]

\* The part of LiveReadCallback that looks for the sentinel.
Scanned(me) ==
    LET at == Sentinels(me.staging) IN
    IF at = {} THEN me
    ELSE [me EXCEPT !.data = SubSeq(me.staging, 1, First(at) - 1),
                    !.staging = SubSeq(@, First(at) + 1, Len(@)),
                    !.pending = FALSE]

\* Slip: the end of the file is taken for "nothing more to read".
LiveReadCallbackAtEof(c) ==
    /\ Up(c) /\ wire[c] = <<>>
    /\ client[c].at = "read"
    /\ LET me == Scanned(client[c]) IN
       /\ client' = [client EXCEPT ![c] = [me EXCEPT !.at = "loop"]]
       /\ panel' = IF me.staging # client[c].staging
                   THEN [panel EXCEPT ![c] = BuildLiveLeftItems(@, me.data)]
                   ELSE panel
    /\ UNCHANGED <<world, server, req, wire>>

\* LiveReadCallback after the last read, which said EAGAIN or end of file.
LiveReadCallback(c) ==
    /\ Up(c) /\ wire[c] = <<>>
    /\ client[c].at = "read" \/ (Gone /\ client[c].connected)
    /\ LET me    == Scanned(client[c])
           got   == me.staging # client[c].staging
           after == IF Gone THEN [me EXCEPT !.staging = <<>>, !.connected = FALSE] ELSE me
       IN /\ client' = [client EXCEPT ![c] = [after EXCEPT !.at = "loop"]]
          /\ panel' = IF got \/ Gone
                      THEN [panel EXCEPT ![c] = BuildLiveLeftItems(@, after.data)]
                      ELSE panel
    /\ UNCHANGED <<world, server, req, wire>>

\* The user moves the cursor, toggles the static pools, quits.
Move(c) ==
    /\ Up(c) /\ client[c].at = "loop"
    /\ \E i \in DOMAIN panel[c].items : panel' = [panel EXCEPT ![c].row = i]
    /\ UNCHANGED <<world, server, req, wire, client>>

navaction_filter_static(c) ==
    /\ Up(c) /\ client[c].at = "loop"
    /\ LET toggled == [panel[c] EXCEPT !.show_static = ~panel[c].show_static] IN
       panel' = [panel EXCEPT ![c] = BuildLiveLeftItems(toggled, client[c].data)]
    /\ UNCHANGED <<world, server, req, wire, client>>

Quit(c) ==
    /\ Up(c) /\ client[c].at = "loop"
    /\ client' = [client EXCEPT ![c].running = FALSE]
    /\ req' = [req EXCEPT ![c] = 0]
    /\ wire' = [wire EXCEPT ![c] = <<>>]
    /\ UNCHANGED <<world, server, panel>>

Stop(c) ==
    /\ Up(c) /\ c \in MayStop
    /\ client' = [client EXCEPT ![c].stopped = TRUE]
    /\ UNCHANGED <<world, server, req, wire, panel>>

-----------------------------------------------------------------------------
Serve(c)    == Ipc_RequestStateDump(c) \/ WriteDump(c)
Callback(c) == LiveRead(c) \/ LiveReadCallback(c)

Next == \/ Change \/ Die
        \/ \E c \in Client : \/ Serve(c) \/ Callback(c) \/ LivePollCallback(c)
                             \/ Move(c) \/ navaction_filter_static(c)
                             \/ Quit(c) \/ Stop(c)

Spec == Init /\ [][Next]_vars

\* The server's loop, the timer and the event loop of every client run; the
\* server takes its connections in turn.
FairSpec == /\ Spec
            /\ \A c \in Client : /\ SF_vars(Ipc_RequestStateDump(c))
                                 /\ WF_vars(WriteDump(c))
                                 /\ WF_vars(Callback(c))
                                 /\ WF_vars(LivePollCallback(c))
=============================================================================
