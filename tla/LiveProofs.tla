----------------------------- MODULE LiveProofs -----------------------------
(* The live view, for any number of clients, any size of responses and       *)
(* sockets: back-pressure keeps two responses apart, what is shown is one    *)
(* whole response, and the cursor stays with its pool.                       *)
EXTENDS LiveProps, SequenceTheorems, TLAPS

Chunk == [version : Version, last : BOOLEAN]

\* u is the beginning of the response with version v.
Begins(u, v) ==
    /\ Len(u) <= Parts + 1
    /\ \A i \in 1 .. Len(u) : u[i] = Response(v)[i]

ClientOK(me) ==
    /\ me \in [connected : BOOLEAN, pending : BOOLEAN, staging : Seq(Chunk), data : Seq(Chunk),
               at : {"loop", "read"}, stopped : BOOLEAN, running : BOOLEAN]
    /\ me.data # <<>> => \E v \in Version : me.data = SubSeq(Response(v), 1, Parts)

PanelOK(p) == p = [show_static |-> p.show_static, items |-> p.items, row |-> p.row]

LiveTypeOK ==
    /\ world \in Seq(SUBSET Pool) /\ Now \in Version
    /\ server \in [at : Client \cup {"idle", "gone"}, out : Seq(Chunk)]
    /\ req \in [Client -> Nat]
    /\ wire \in [Client -> Seq(Chunk)]
    /\ client = [c \in Client |-> client[c]]
    /\ \A c \in Client : ClientOK(client[c])
    /\ panel = [c \in Client |-> panel[c]]
    /\ \A c \in Client : PanelOK(panel[c])

\* What a poll brings: nothing, the request, or a response.  Of a response that
\* the server's end cut off there is a beginning.  It holds for a stopped
\* client too.
Polls(c) ==
    /\ req[c] <= 1
    /\ ~client[c].pending => req[c] = 0 /\ Underway(c) = <<>>
    /\ client[c].pending =>
          \/ req[c] = 1 /\ Underway(c) = <<>>
          \/ req[c] = 0 /\ \E v \in Version : /\ Begins(Underway(c), v)
                                              /\ ~Gone => Len(Underway(c)) = Parts + 1

\* A client that runs polls, or has noticed that the server is gone.
Served(c) ==
    client[c].running =>
        IF client[c].connected THEN Polls(c)
        ELSE Gone /\ wire[c] = <<>> /\ client[c].at = "loop"

\* The inductive invariant.
IInv == LiveTypeOK /\ \A c \in Client : Served(c)

-----------------------------------------------------------------------------
(* Sequences of chunks. *)

LEMMA ConcatAssoc == \A a, b, c \in Seq(Chunk) : (a \o b) \o c = a \o (b \o c)
BY ConcatAssociative

LEMMA ConcatEmpty == \A a \in Seq(Chunk) : a \o <<>> = a /\ <<>> \o a = a
BY ConcatEmptySeq

LEMMA EmptyInSeq == <<>> \in Seq(Chunk) /\ Len(<<>>) = 0
BY EmptySeq

LEMMA ConcatSeq == \A a, b \in Seq(Chunk) : a \o b \in Seq(Chunk) /\ Len(a \o b) = Len(a) + Len(b)
BY ConcatProperties

LEMMA ResponseFacts ==
    ASSUME NEW v \in Version
    PROVE  /\ Response(v) \in Seq(Chunk) /\ Len(Response(v)) = Parts + 1
           /\ \A i \in 1 .. Parts + 1 : Response(v)[i] = [version |-> v, last |-> i = Parts + 1]
<1>1. Parts + 1 \in Nat
  BY LiveAssumption
<1>2. Response(v) \in [1 .. Parts + 1 -> Chunk]
  BY DEF Response, Chunk
<1>3. Response(v) \in Seq(Chunk)
  BY <1>1, <1>2
<1>4. \A i \in 1 .. Parts + 1 : Response(v)[i] = [version |-> v, last |-> i = Parts + 1]
  BY DEF Response
<1>5. Len(Response(v)) = Parts + 1
  <2>1. DOMAIN Response(v) = 1 .. Parts + 1
    BY <1>2
  <2>2. DOMAIN Response(v) = 1 .. Len(Response(v)) /\ Len(Response(v)) \in Nat
    BY <1>3, LenProperties
  <2> QED
    BY <1>1, <2>1, <2>2
<1> QED
  BY <1>3, <1>4, <1>5

\* Cutting a list in two.
LEMMA CutFacts ==
    ASSUME NEW list \in Seq(Chunk), NEW n \in 0 .. Len(list)
    PROVE  /\ SubSeq(list, 1, n) \in Seq(Chunk) /\ Len(SubSeq(list, 1, n)) = n
           /\ \A i \in 1 .. n : SubSeq(list, 1, n)[i] = list[i]
           /\ SubSeq(list, n + 1, Len(list)) \in Seq(Chunk)
           /\ Len(SubSeq(list, n + 1, Len(list))) = Len(list) - n
           /\ SubSeq(list, 1, n) \o SubSeq(list, n + 1, Len(list)) = list
<1>1. Len(list) \in Nat /\ n \in Nat /\ n <= Len(list)
  OBVIOUS
<1>2. \A i \in 1 .. n : list[i] \in Chunk
  BY <1>1, ElementOfSeq
<1>3. \A i \in n + 1 .. Len(list) : list[i] \in Chunk
  BY <1>1, ElementOfSeq
<1>4. /\ SubSeq(list, 1, n) \in Seq(Chunk) /\ Len(SubSeq(list, 1, n)) = n
      /\ \A i \in 1 .. n : SubSeq(list, 1, n)[i] = list[i]
  BY <1>1, <1>2, SubSeqProperties
<1>5. /\ SubSeq(list, n + 1, Len(list)) \in Seq(Chunk)
      /\ Len(SubSeq(list, n + 1, Len(list))) = Len(list) - n
  BY <1>1, <1>3, SubSeqProperties
<1>6. SubSeq(list, 1, n) \o SubSeq(list, n + 1, Len(list)) = SubSeq(list, 1, Len(list))
  <2>1. 1 \in 1 .. Len(list) + 1 /\ n \in 1 - 1 .. Len(list) /\ Len(list) \in n .. Len(list)
    BY <1>1
  <2> QED
    BY <2>1, ConcatAdjacentSubSeq
<1>7. SubSeq(list, 1, Len(list)) = list
  BY SubSeqFull
<1> QED
  BY <1>4, <1>5, <1>6, <1>7

\* What the server still has to write to c.
Unwritten(c) == IF server.at = c THEN server.out ELSE <<>>

LEMMA UnderwayFacts ==
    ASSUME LiveTypeOK, NEW c \in Client
    PROVE  /\ client[c].staging \in Seq(Chunk) /\ wire[c] \in Seq(Chunk) /\ Unwritten(c) \in Seq(Chunk)
           /\ Underway(c) = (client[c].staging \o wire[c]) \o Unwritten(c)
           /\ Underway(c) \in Seq(Chunk)
           /\ Len(Underway(c)) = Len(client[c].staging) + Len(wire[c]) + Len(Unwritten(c))
<1>1. client[c].staging \in Seq(Chunk) /\ wire[c] \in Seq(Chunk) /\ Unwritten(c) \in Seq(Chunk)
  BY EmptyInSeq DEF LiveTypeOK, ClientOK, Unwritten
<1>3. Underway(c) = (client[c].staging \o wire[c]) \o Unwritten(c)
  BY DEF Underway, Unwritten
<1>4. client[c].staging \o wire[c] \in Seq(Chunk)
      /\ Len(client[c].staging \o wire[c]) = Len(client[c].staging) + Len(wire[c])
  BY <1>1, ConcatSeq
<1>5. Underway(c) \in Seq(Chunk)
      /\ Len(Underway(c)) = Len(client[c].staging \o wire[c]) + Len(Unwritten(c))
  BY <1>1, <1>3, <1>4, ConcatSeq
<1> QED
  BY <1>1, <1>3, <1>4, <1>5
LEMMA UnderwayEmpty ==
    ASSUME LiveTypeOK, NEW c \in Client, Underway(c) = <<>>
    PROVE  client[c].staging = <<>> /\ wire[c] = <<>> /\ Unwritten(c) = <<>>
<1>1. \A a, b \in Seq(Chunk) : a \o b = <<>> <=> a = <<>> /\ b = <<>>
  BY ConcatEqualIffEmpty
<1>2. /\ client[c].staging \in Seq(Chunk) /\ wire[c] \in Seq(Chunk) /\ Unwritten(c) \in Seq(Chunk)
      /\ (client[c].staging \o wire[c]) \o Unwritten(c) = <<>>
  BY UnderwayFacts
<1>3. client[c].staging \o wire[c] \in Seq(Chunk)
  BY <1>2, ConcatSeq
<1>4. client[c].staging \o wire[c] = <<>> /\ Unwritten(c) = <<>>
  BY <1>1, <1>2, <1>3, Zenon
<1> QED
  BY <1>1, <1>2, <1>4, Zenon

-----------------------------------------------------------------------------
(* The steps. *)

LEMMA InitInv == Init => IInv
<1> SUFFICES ASSUME Init PROVE IInv
  OBVIOUS
<1>1. /\ client = [c \in Client |-> client[c]]
      /\ \A c \in Client : client[c] = [connected |-> TRUE, pending |-> FALSE,
                                        staging |-> <<>>, data |-> <<>>, at |-> "loop",
                                        stopped |-> FALSE, running |-> TRUE]
  BY DEF Init
<1>2. /\ panel = [c \in Client |-> panel[c]]
      /\ \A c \in Client : PanelOK(panel[c])
  BY DEF Init, PanelOK
<1>3. world \in Seq(SUBSET Pool) /\ Now = 1 /\ Now \in Version
  <2>1. PICK pools \in SUBSET Pool : world = <<pools>>
    BY DEF Init
  <2> QED
    BY <2>1, LiveAssumption DEF Now, Version
<1>4. \A c \in Client : ClientOK(client[c])
  <2> DEFINE me == [connected |-> TRUE, pending |-> FALSE, staging |-> <<>>, data |-> <<>>,
                    at |-> "loop", stopped |-> FALSE, running |-> TRUE]
  <2>1. ClientOK(me)
    BY EmptyInSeq DEF ClientOK
  <2> HIDE DEF me
  <2>2. \A c \in Client : client[c] = me
    BY <1>1 DEF me
  <2> QED
    BY <2>1, <2>2
<1>5. /\ req = [c \in Client |-> 0] /\ wire = [c \in Client |-> <<>>]
      /\ server = [at |-> "idle", out |-> <<>>]
  BY DEF Init
<1>6. LiveTypeOK
  BY <1>1, <1>2, <1>3, <1>4, <1>5, EmptyInSeq DEF LiveTypeOK
<1>7. ASSUME NEW c \in Client PROVE Served(c)
  <2>1. Unwritten(c) = <<>> /\ wire[c] = <<>> /\ client[c].staging = <<>>
    BY <1>1, <1>5 DEF Unwritten
  <2>2. Underway(c) = <<>>
    BY <1>6, <2>1, UnderwayFacts, ConcatEmpty, EmptyInSeq
  <2> QED
    BY <1>1, <1>5, <2>2 DEF Served, Polls
<1> QED
  BY <1>6, <1>7 DEF IInv

\* A client that a step does not touch.
LEMMA OthersServed ==
    ASSUME NEW d \in Client, Served(d),
           client'[d] = client[d], req'[d] = req[d], wire'[d] = wire[d],
           Unwritten(d)' = Unwritten(d), Gone' <=> Gone
    PROVE  Served(d)'
<1>1. Underway(d)' = Underway(d)
  BY DEF Underway, Unwritten
<1>2. ASSUME NEW v \in Version PROVE Begins(Underway(d), v)' <=> Begins(Underway(d), v)
  BY <1>1 DEF Begins, Response
<1>3. Polls(d)' <=> Polls(d)
  BY <1>1, <1>2 DEF Polls
<1> QED
  BY <1>3 DEF Served

LEMMA ChangeInv == ASSUME IInv, Change PROVE IInv'
<1>1. world' \in Seq(SUBSET Pool) /\ Now' \in Version
  <2>1. PICK pools \in SUBSET Pool : world' = Append(world, pools)
    BY DEF Change
  <2>2. world \in Seq(SUBSET Pool) /\ Len(world) \in 1 .. MaxVersion /\ Len(world) < MaxVersion
    BY DEF Change, IInv, LiveTypeOK, Now, Version
  <2>3. world' \in Seq(SUBSET Pool) /\ Len(world') = Len(world) + 1
    BY <2>1, <2>2, AppendProperties
  <2> QED
    BY <2>2, <2>3, LiveAssumption DEF Now, Version
<1>2. UNCHANGED <<server, req, wire, client, panel>>
  BY DEF Change
<1>3. LiveTypeOK'
  BY <1>1, <1>2 DEF IInv, LiveTypeOK, ClientOK, PanelOK, Chunk, Version, Response
<1>4. \A d \in Client : Served(d)'
  BY <1>2, OthersServed DEF IInv, Unwritten, Gone
<1> QED
  BY <1>3, <1>4 DEF IInv

LEMMA RequestInv ==
    ASSUME IInv, NEW c \in Client, Ipc_RequestStateDump(c)
    PROVE  IInv'
<1>1. /\ server.at = "idle" /\ req[c] > 0
      /\ req' = [req EXCEPT ![c] = @ - 1] /\ server' = [at |-> c, out |-> Response(Now)]
      /\ UNCHANGED <<world, wire, client, panel>>
  BY DEF Ipc_RequestStateDump
<1>2. c # "idle" /\ c # "gone"
  BY LiveAssumption
<1>3. req[c] \in Nat /\ req' \in [Client -> Nat] /\ req'[c] = req[c] - 1
      /\ \A d \in Client \ {c} : req'[d] = req[d]
  BY <1>1 DEF IInv, LiveTypeOK
<1>4. Now \in Version /\ Response(Now) \in Seq(Chunk)
  BY ResponseFacts DEF IInv, LiveTypeOK
<1>5. LiveTypeOK'
  BY <1>1, <1>3, <1>4 DEF IInv, LiveTypeOK, ClientOK, PanelOK, Chunk, Version, Response, Now
<1>6. ~Gone /\ ~Gone'
  BY <1>1, <1>2 DEF Gone
<1>7. ASSUME NEW d \in Client, d # c PROVE Served(d)'
  <2>1. Unwritten(d) = <<>> /\ Unwritten(d)' = <<>>
    BY <1>1, <1>7, LiveAssumption DEF Unwritten
  <2> QED
    BY <1>1, <1>3, <1>6, <1>7, <2>1, OthersServed DEF IInv
<1>8. Served(c)'
  <2> SUFFICES ASSUME client[c].running PROVE client[c].connected /\ Polls(c)'
    BY <1>1 DEF Served
  <2>1. client[c].connected /\ Polls(c)
    BY <1>6 DEF IInv, Served
  <2>2. req[c] = 1 /\ client[c].pending /\ Underway(c) = <<>>
    BY <1>1, <1>3, <2>1 DEF Polls
  <2>3. client[c].staging = <<>> /\ wire[c] = <<>>
    BY <2>2, UnderwayEmpty DEF IInv
  <2>4. Underway(c)' = Response(Now)
    <3>1. Unwritten(c)' = Response(Now)
      BY <1>1 DEF Unwritten
    <3>2. Underway(c)' = (client'[c].staging \o wire'[c]) \o Unwritten(c)'
      BY DEF Underway, Unwritten
    <3>3. (<<>> \o <<>>) \o Response(Now) = Response(Now)
      BY <1>4, EmptyInSeq, ConcatEmpty
    <3> QED
      BY <1>1, <2>3, <3>1, <3>2, <3>3
  <2>5. Begins(Response(Now), Now) /\ Len(Response(Now)) = Parts + 1
    <3>1. Parts \in Nat
      BY LiveAssumption
    <3> QED
      BY <1>4, <3>1, ResponseFacts DEF Begins
  <2>6. Begins(Underway(c), Now)' /\ Len(Underway(c)') = Parts + 1
    BY <1>1, <2>4, <2>5 DEF Begins, Response, Now
  <2>7. Now' \in Version'
    BY <1>5 DEF LiveTypeOK
  <2> QED
    BY <1>1, <1>3, <2>1, <2>2, <2>6, <2>7 DEF Polls
<1> QED
  BY <1>5, <1>7, <1>8 DEF IInv
\* The chunks the server writes move from one end of what is under way to the
\* other.
LEMMA WriteInv ==
    ASSUME IInv, NEW c \in Client, WriteDump(c)
    PROVE  IInv'
<1>1. /\ server.at = c /\ UNCHANGED <<world, req, client, panel>>
      /\ c # "idle" /\ c # "gone" /\ ~Gone
  BY LiveAssumption DEF WriteDump, Gone
<1>2. CASE ~client[c].running
  <2>1. server' = [at |-> "idle", out |-> <<>>] /\ UNCHANGED wire
    BY <1>2 DEF WriteDump
  <2>2. LiveTypeOK'
    BY <1>1, <2>1, EmptyInSeq DEF IInv, LiveTypeOK, ClientOK, PanelOK, Chunk, Version, Response, Now
  <2>3. ASSUME NEW d \in Client, d # c PROVE Served(d)'
    BY <1>1, <2>1, <2>3, OthersServed, LiveAssumption DEF IInv, Unwritten, Gone
  <2>4. Served(c)'
    BY <1>1, <1>2 DEF Served
  <2> QED
    BY <2>2, <2>3, <2>4 DEF IInv
<1>3. CASE client[c].running
  <2>1. PICK n \in 1 .. Len(server.out) :
              /\ wire' = [wire EXCEPT ![c] = @ \o SubSeq(server.out, 1, n)]
              /\ server' = IF n = Len(server.out) THEN [at |-> "idle", out |-> <<>>]
                           ELSE [server EXCEPT !.out = SubSeq(@, n + 1, Len(@))]
    BY <1>3 DEF WriteDump
  <2>2. /\ server \in [at : Client \cup {"idle", "gone"}, out : Seq(Chunk)]
        /\ server.out \in Seq(Chunk) /\ wire \in [Client -> Seq(Chunk)] /\ wire[c] \in Seq(Chunk)
        /\ client[c].staging \in Seq(Chunk)
    BY DEF IInv, LiveTypeOK, ClientOK
  <2> DEFINE front == SubSeq(server.out, 1, n)
             back == SubSeq(server.out, n + 1, Len(server.out))
  <2>3. /\ front \in Seq(Chunk) /\ back \in Seq(Chunk) /\ front \o back = server.out
        /\ Len(back) = Len(server.out) - n
    BY <2>2, CutFacts
  <2>4. n = Len(server.out) => back = <<>>
    <3>1. n = Len(server.out) => Len(back) = 0
      BY <2>2, <2>3
    <3> QED
      BY <2>3, <3>1, EmptySeq
  <2> HIDE DEF front, back
  <2>5. /\ wire' = [wire EXCEPT ![c] = wire[c] \o front]
        /\ server' = IF n = Len(server.out) THEN [at |-> "idle", out |-> <<>>]
                     ELSE [server EXCEPT !.out = back]
    BY <2>1 DEF front, back
  <2>6. wire[c] \o front \in Seq(Chunk)
    BY <2>2, <2>3, ConcatSeq
  <2>7. /\ wire' \in [Client -> Seq(Chunk)] /\ wire'[c] = wire[c] \o front
        /\ \A d \in Client \ {c} : wire'[d] = wire[d]
    BY <2>2, <2>5, <2>6
  <2>8. server' \in [at : Client \cup {"idle", "gone"}, out : Seq(Chunk)]
    BY <2>2, <2>3, <2>5, EmptyInSeq
  <2>9. LiveTypeOK'
    BY <1>1, <2>7, <2>8 DEF IInv, LiveTypeOK, ClientOK, PanelOK, Chunk, Version, Response, Now
  <2>10. server'.at \in {c, "idle"} /\ Unwritten(c)' = back
    BY <1>1, <2>2, <2>4, <2>5 DEF Unwritten
  <2>11. ~Gone'
    BY <1>1, <2>10 DEF Gone
  <2>12. ASSUME NEW d \in Client, d # c PROVE Served(d)'
    <3>1. Unwritten(d) = <<>> /\ Unwritten(d)' = <<>>
      BY <1>1, <2>10, <2>12, LiveAssumption DEF Unwritten
    <3> QED
      BY <1>1, <2>7, <2>11, <2>12, <3>1, OthersServed DEF IInv
  <2>13. Served(c)'
    <3>1. Underway(c)' = (client[c].staging \o (wire[c] \o front)) \o back
      BY <1>1, <2>7, <2>10 DEF Underway, Unwritten
    <3>2. (client[c].staging \o (wire[c] \o front)) \o back
             = ((client[c].staging \o wire[c]) \o front) \o back
      BY <2>2, <2>3, ConcatAssoc
    <3>3. client[c].staging \o wire[c] \in Seq(Chunk)
      BY <2>2, ConcatSeq
    <3>4. ((client[c].staging \o wire[c]) \o front) \o back
             = (client[c].staging \o wire[c]) \o (front \o back)
      BY <2>3, <3>3, ConcatAssoc
    <3>5. Underway(c) = (client[c].staging \o wire[c]) \o server.out
      BY <1>1 DEF Underway
    <3>6. Underway(c)' = Underway(c)
      BY <2>3, <3>1, <3>2, <3>4, <3>5
    <3>7. ASSUME NEW v \in Version PROVE Begins(Underway(c), v)' <=> Begins(Underway(c), v)
      BY <3>6 DEF Begins, Response
    <3>8. client[c].connected => (Polls(c)' <=> Polls(c))
      BY <1>1, <2>11, <3>6, <3>7 DEF Polls
    <3> QED
      BY <1>1, <3>8 DEF IInv, Served
  <2> QED
    BY <2>9, <2>12, <2>13 DEF IInv
<1> QED
  BY <1>2, <1>3

\* What the server has not written is lost when it dies.
LEMMA DieInv == ASSUME IInv, Die PROVE IInv'
<1>1. /\ ~Gone /\ server' = [at |-> "gone", out |-> <<>>]
      /\ UNCHANGED <<world, req, wire, client, panel>>
  BY DEF Die
<1>2. LiveTypeOK'
  BY <1>1, EmptyInSeq DEF IInv, LiveTypeOK, ClientOK, PanelOK, Chunk, Version, Response, Now
<1>3. ASSUME NEW c \in Client PROVE Served(c)'
  <2> SUFFICES ASSUME client[c].running PROVE client[c].connected /\ Polls(c)'
    BY <1>1 DEF Served
  <2>1. client[c].connected /\ Polls(c)
    BY <1>1 DEF IInv, Served
  <2> DEFINE read == client[c].staging \o wire[c]
  <2>2. /\ client[c].staging \in Seq(Chunk) /\ wire[c] \in Seq(Chunk) /\ Unwritten(c) \in Seq(Chunk)
        /\ Underway(c) = read \o Unwritten(c)
    BY UnderwayFacts DEF IInv
  <2>3. read \in Seq(Chunk)
    BY <2>2, ConcatSeq
  <2>4. Underway(c)' = read
    <3>1. Unwritten(c)' = <<>>
      BY <1>1 DEF Unwritten
    <3>2. Underway(c)' = read \o Unwritten(c)'
      BY <1>1 DEF Underway, Unwritten
    <3> QED
      BY <2>3, <3>1, <3>2, ConcatEmpty
  <2>5. Underway(c) = <<>> => read = <<>>
    <3>1. Underway(c) = <<>> => client[c].staging = <<>> /\ wire[c] = <<>>
      BY UnderwayEmpty DEF IInv
    <3> QED
      BY <3>1, EmptyInSeq, ConcatEmpty
  <2>6. ASSUME NEW v \in Version, Begins(Underway(c), v) PROVE Begins(read, v)
    <3> HIDE DEF read
    <3>1. /\ Len(Underway(c)) = Len(read) + Len(Unwritten(c))
          /\ \A i \in 1 .. Len(read) + Len(Unwritten(c)) :
                Underway(c)[i] = IF i <= Len(read) THEN read[i] ELSE Unwritten(c)[i - Len(read)]
      BY <2>2, <2>3, ConcatProperties
    <3>2. Len(read) \in Nat /\ Len(Unwritten(c)) \in Nat /\ Parts \in Nat
      BY <2>2, <2>3, LenProperties, LiveAssumption
    <3>3. \A i \in 1 .. Len(read) : read[i] = Underway(c)[i] /\ i \in 1 .. Len(Underway(c))
      BY <3>1, <3>2
    <3> QED
      BY <2>6, <3>1, <3>2, <3>3 DEF Begins
  <2>7. \A v \in Version : Begins(read, v) => Begins(Underway(c), v)'
    BY <2>4 DEF Begins, Response
  <2>8. Gone'
    BY <1>1 DEF Gone
  <2>9. client[c].pending => \/ req[c] = 1 /\ read = <<>>
                             \/ req[c] = 0 /\ \E v \in Version : Begins(Underway(c), v)'
    BY <2>1, <2>5, <2>6, <2>7 DEF Polls
  <2> HIDE DEF read
  <2> QED
    BY <1>1, <2>1, <2>4, <2>5, <2>8, <2>9 DEF Polls
<1> QED
  BY <1>2, <1>3 DEF IInv
\* One client changes.
LEMMA ClientStep ==
    ASSUME LiveTypeOK, NEW c \in Client, NEW me, ClientOK(me),
           client' = [client EXCEPT ![c] = me]
    PROVE  /\ client' = [d \in Client |-> client'[d]] /\ client'[c] = me
           /\ \A d \in Client \ {c} : client'[d] = client[d]
           /\ \A d \in Client : ClientOK(client[d])'
<1>1. client = [d \in Client |-> client[d]] /\ \A d \in Client : ClientOK(client[d])
  BY DEF LiveTypeOK
<1>2. /\ client' = [d \in Client |-> client'[d]] /\ client'[c] = me
      /\ \A d \in Client \ {c} : client'[d] = client[d]
  BY <1>1
<1>3. \A d \in Client : ClientOK(client'[d])
  BY <1>1, <1>2
<1>4. \A d \in Client : ClientOK(client[d])' <=> ClientOK(client'[d])
  BY DEF ClientOK, Chunk, Version, Response
<1> QED
  BY <1>2, <1>3, <1>4

LEMMA PollInv ==
    ASSUME IInv, NEW c \in Client, LivePollCallback(c)
    PROVE  IInv'
<1> DEFINE lost == [client[c] EXCEPT !.connected = FALSE]
           polled == [client[c] EXCEPT !.pending = TRUE]
           me == IF Gone THEN lost ELSE polled
<1>1. /\ client[c].running /\ client[c].at = "loop"
      /\ client[c].connected /\ ~client[c].pending
      /\ client' = [client EXCEPT ![c] = me]
      /\ req' = IF Gone THEN req ELSE [req EXCEPT ![c] = @ + 1]
      /\ UNCHANGED <<world, server, wire, panel>>
  BY DEF LivePollCallback, Up
<1>2. ClientOK(client[c]) /\ req \in [Client -> Nat]
  BY DEF IInv, LiveTypeOK
<1>3. /\ ClientOK(me) /\ me.staging = client[c].staging /\ me.at = "loop"
      /\ (Gone => ~me.connected) /\ (~Gone => me.connected /\ me.pending)
  BY <1>1, <1>2 DEF ClientOK
<1> HIDE DEF me
<1>4. /\ client' = [d \in Client |-> client'[d]] /\ client'[c] = me
      /\ \A d \in Client \ {c} : client'[d] = client[d]
      /\ \A d \in Client : ClientOK(client[d])'
  BY <1>1, <1>3, ClientStep DEF IInv
<1>5. /\ req' \in [Client -> Nat] /\ (~Gone => req'[c] = req[c] + 1)
      /\ \A d \in Client \ {c} : req'[d] = req[d]
  BY <1>1, <1>2
<1>6. LiveTypeOK'
  BY <1>1, <1>4, <1>5 DEF IInv, LiveTypeOK, PanelOK, Chunk, Version, Now
<1>7. ASSUME NEW d \in Client, d # c PROVE Served(d)'
  BY <1>1, <1>4, <1>5, <1>7, OthersServed DEF IInv, Unwritten, Gone
<1>8. Polls(c) /\ req[c] = 0 /\ Underway(c) = <<>>
  BY <1>1 DEF IInv, Served, Polls
<1>9. Underway(c)' = <<>> /\ wire'[c] = <<>>
  <2>1. Underway(c)' = Underway(c)
    BY <1>1, <1>3, <1>4 DEF Underway
  <2> QED
    BY <1>1, <1>8, <2>1, UnderwayEmpty DEF IInv
<1>10. Served(c)'
  <2>1. CASE Gone
    BY <1>1, <1>3, <1>4, <1>9, <2>1 DEF Served, Gone
  <2>2. CASE ~Gone
    <3>1. req'[c] = 1 /\ client'[c].pending /\ client'[c].connected
      BY <1>3, <1>4, <1>5, <1>8, <2>2
    <3>2. Polls(c)'
      BY <1>9, <3>1 DEF Polls
    <3> QED
      BY <3>1, <3>2 DEF Served
  <2> QED
    BY <2>1, <2>2
<1> QED
  BY <1>6, <1>7, <1>10 DEF IInv

LEMMA ReadInv ==
    ASSUME IInv, NEW c \in Client, LiveRead(c)
    PROVE  IInv'
<1> DEFINE me == [client[c] EXCEPT !.at = "read", !.staging = client[c].staging \o wire[c]]
<1>1. /\ client[c].running /\ wire[c] # <<>>
      /\ client' = [client EXCEPT ![c] = me]
      /\ wire' = [wire EXCEPT ![c] = <<>>]
      /\ UNCHANGED <<world, server, req, panel>>
  BY DEF LiveRead, Up
<1>2. /\ ClientOK(client[c]) /\ wire \in [Client -> Seq(Chunk)]
      /\ client[c].staging \in Seq(Chunk) /\ wire[c] \in Seq(Chunk)
  BY DEF IInv, LiveTypeOK, ClientOK
<1>3. client[c].staging \o wire[c] \in Seq(Chunk)
  BY <1>2, ConcatSeq
<1>4. /\ ClientOK(me) /\ me.staging = client[c].staging \o wire[c]
      /\ me.pending = client[c].pending /\ me.connected = client[c].connected
  BY <1>2, <1>3 DEF ClientOK
<1> HIDE DEF me
<1>5. /\ client' = [d \in Client |-> client'[d]] /\ client'[c] = me
      /\ \A d \in Client \ {c} : client'[d] = client[d]
      /\ \A d \in Client : ClientOK(client[d])'
  BY <1>1, <1>4, ClientStep DEF IInv
<1>6. /\ wire' \in [Client -> Seq(Chunk)] /\ wire'[c] = <<>>
      /\ \A d \in Client \ {c} : wire'[d] = wire[d]
  BY <1>1, <1>2, EmptyInSeq
<1>7. LiveTypeOK'
  BY <1>1, <1>5, <1>6 DEF IInv, LiveTypeOK, PanelOK, Chunk, Version, Now
<1>8. ASSUME NEW d \in Client, d # c PROVE Served(d)'
  BY <1>1, <1>5, <1>6, <1>8, OthersServed DEF IInv, Unwritten, Gone
<1>9. client[c].connected /\ Polls(c)
  BY <1>1 DEF IInv, Served
<1>10. Underway(c)' = Underway(c)
  <2>1. Underway(c)' = ((client[c].staging \o wire[c]) \o <<>>) \o Unwritten(c)
    BY <1>1, <1>4, <1>5, <1>6 DEF Underway, Unwritten
  <2>2. (client[c].staging \o wire[c]) \o <<>> = client[c].staging \o wire[c]
    BY <1>3, ConcatEmpty
  <2> QED
    BY <2>1, <2>2 DEF Underway, Unwritten
<1>11. Served(c)'
  <2>1. ASSUME NEW v \in Version PROVE Begins(Underway(c), v)' <=> Begins(Underway(c), v)
    BY <1>10 DEF Begins, Response
  <2>2. Gone' <=> Gone
    BY <1>1 DEF Gone
  <2>3. Polls(c)' <=> Polls(c)
    BY <1>1, <1>4, <1>5, <1>10, <2>1, <2>2 DEF Polls
  <2> QED
    BY <1>4, <1>5, <1>9, <2>3 DEF Served
<1> QED
  BY <1>7, <1>8, <1>11 DEF IInv

\* In what is under way the sentinel comes last, and only in a whole response.
LEMMA SentinelFacts ==
    ASSUME LiveTypeOK, NEW c \in Client, Sentinels(client[c].staging) # {},
           NEW v \in Version, Begins(Underway(c), v)
    PROVE  /\ First(Sentinels(client[c].staging)) = Parts + 1
           /\ client[c].staging = Response(v) /\ Len(client[c].staging) = Parts + 1
           /\ Underway(c) = client[c].staging /\ wire[c] = <<>>
           /\ Unwritten(c) = <<>>
<1> DEFINE staging == client[c].staging
           rest == wire[c] \o Unwritten(c)
<1>1. /\ staging \in Seq(Chunk) /\ wire[c] \in Seq(Chunk) /\ Unwritten(c) \in Seq(Chunk)
      /\ rest \in Seq(Chunk) /\ Underway(c) = staging \o rest
  BY UnderwayFacts, ConcatAssoc, ConcatSeq
<1> HIDE DEF rest
<1>2. /\ Len(staging) \in Nat /\ Len(rest) \in Nat /\ Parts \in Nat
      /\ DOMAIN staging = 1 .. Len(staging)
  BY <1>1, LenProperties, LiveAssumption
<1>3. /\ Len(Underway(c)) = Len(staging) + Len(rest)
      /\ \A i \in 1 .. Len(staging) : Underway(c)[i] = staging[i] /\ i \in 1 .. Len(Underway(c))
  <2>1. /\ Len(Underway(c)) = Len(staging) + Len(rest)
        /\ \A i \in 1 .. Len(staging) + Len(rest) :
              Underway(c)[i] = IF i <= Len(staging) THEN staging[i] ELSE rest[i - Len(staging)]
    BY <1>1, ConcatProperties
  <2> QED
    BY <1>2, <2>1
<1>4. \A i \in 1 .. Len(staging) : i \in 1 .. Parts + 1 /\ staging[i] = Response(v)[i]
  BY <1>2, <1>3 DEF Begins
<1>5. ASSUME NEW i \in 1 .. Len(staging) PROVE staging[i].last <=> i = Parts + 1
  <2>1. i \in 1 .. Parts + 1 /\ staging[i] = Response(v)[i]
    BY <1>4
  <2>2. Response(v)[i] = [version |-> v, last |-> i = Parts + 1]
    BY <2>1, ResponseFacts
  <2> QED
    <3>1. staging[i] = [version |-> v, last |-> i = Parts + 1]
      BY <2>1, <2>2
    <3>2. staging[i].last = (i = Parts + 1)
      BY <3>1
    <3> QED
      BY <3>2
<1>6. Sentinels(staging) = {Parts + 1} /\ Parts + 1 \in 1 .. Len(staging)
  BY <1>2, <1>5 DEF Sentinels
<1>7. Len(staging) = Parts + 1 /\ Len(rest) = 0
  BY <1>2, <1>3, <1>6 DEF Begins
<1>8. staging = Response(v)
  <2>1. Response(v) \in Seq(Chunk) /\ Len(Response(v)) = Len(staging)
    BY <1>7, ResponseFacts
  <2>2. \A i \in 1 .. Len(staging) : staging[i] = Response(v)[i]
    BY <1>4
  <2> QED
    BY <1>1, <2>1, <2>2, SeqEqual
<1>9. rest = <<>>
  BY <1>1, <1>7, EmptySeq
<1>10. Underway(c) = staging
  BY <1>1, <1>9, ConcatEmpty
<1>11. wire[c] = <<>> /\ Unwritten(c) = <<>>
  <2>1. \A a, b \in Seq(Chunk) : a \o b = <<>> <=> a = <<>> /\ b = <<>>
    BY ConcatEqualIffEmpty
  <2> QED
    BY <1>1, <1>9, <2>1, Zenon DEF rest
<1>12. First({Parts + 1}) = Parts + 1
  BY <1>2 DEF First
<1> QED
  BY <1>6, <1>7, <1>8, <1>10, <1>11, <1>12
\* One panel changes.
LEMMA PanelStep ==
    ASSUME LiveTypeOK, NEW c \in Client, NEW p, PanelOK(p),
           panel' = [panel EXCEPT ![c] = p]
    PROVE  /\ panel' = [d \in Client |-> panel'[d]] /\ panel'[c] = p
           /\ \A d \in Client \ {c} : panel'[d] = panel[d]
           /\ \A d \in Client : PanelOK(panel[d])'
<1>1. panel = [d \in Client |-> panel[d]] /\ \A d \in Client : PanelOK(panel[d])
  BY DEF LiveTypeOK
<1>2. /\ panel' = [d \in Client |-> panel'[d]] /\ panel'[c] = p
      /\ \A d \in Client \ {c} : panel'[d] = panel[d]
  BY <1>1
<1>3. \A d \in Client : PanelOK(panel'[d])
  BY <1>1, <1>2
<1>4. \A d \in Client : PanelOK(panel[d])' <=> PanelOK(panel'[d])
  BY DEF PanelOK
<1> QED
  BY <1>2, <1>3, <1>4

LEMMA BuildFacts ==
    ASSUME NEW old, PanelOK(old), NEW data
    PROVE  LET new == BuildLiveLeftItems(old, data) IN
           /\ PanelOK(new) /\ new.items = Rows(data, old.show_static)
           /\ new.row = RestoredRow(old, new.items)
<1> DEFINE rows == Rows(data, old.show_static)
           new == [show_static |-> old.show_static, items |-> rows, row |-> RestoredRow(old, rows)]
<1>1. \A x, y : [old EXCEPT !.items = x, !.row = y]
                  = [show_static |-> old.show_static, items |-> x, row |-> y]
  <2> TAKE x, y
  <2> DEFINE flag == old.show_static
             its == old.items
             row == old.row
             changed == [old EXCEPT !.items = x, !.row = y]
  <2>1. old = [show_static |-> flag, items |-> its, row |-> row]
    BY DEF PanelOK
  <2> HIDE DEF flag, its, row
  <2>2. old \in [show_static : {flag}, items : {its}, row : {row}]
    BY <2>1
  <2>3. changed \in [show_static : {flag}, items : {x}, row : {y}]
    BY <2>2
  <2> HIDE DEF changed
  <2>4. changed = [show_static |-> flag, items |-> x, row |-> y]
    BY <2>3
  <2> QED
    BY <2>4 DEF flag, changed
<1>2. BuildLiveLeftItems(old, data) = new
  BY <1>1 DEF BuildLiveLeftItems
<1> HIDE DEF rows
<1>3. PanelOK(new) /\ new.items = rows /\ new.row = RestoredRow(old, new.items)
  BY DEF PanelOK
<1> QED
  BY <1>2, <1>3 DEF rows

\* What the scan for the sentinel makes of a client that waits for a response.
LEMMA ScannedFacts ==
    ASSUME IInv, NEW c \in Client, client[c].running, client[c].connected, wire[c] = <<>>
    PROVE  LET me == Scanned(client[c]) IN
           /\ ClientOK(me) /\ me.connected /\ me.running
           /\ me = client[c] \/ (/\ ~me.pending /\ me.staging = <<>>
                                 /\ Unwritten(c) = <<>> /\ req[c] = 0)
<1> DEFINE old == client[c]
           at == Sentinels(old.staging)
<1>1. LiveTypeOK /\ ClientOK(old) /\ Polls(c)
  BY DEF IInv, LiveTypeOK, Served
<1>2. CASE at = {}
  <2>1. Scanned(old) = old
    BY <1>2 DEF Scanned
  <2> QED
    BY <1>1, <2>1
<1>3. CASE at # {}
  <2>1. old.staging # <<>>
    BY <1>3 DEF Sentinels
  <2>2. Underway(c) # <<>>
    BY <1>1, <2>1, UnderwayEmpty
  <2>3. req[c] = 0 /\ \E v \in Version : Begins(Underway(c), v)
    BY <1>1, <2>2 DEF Polls
  <2>4. PICK v \in Version : Begins(Underway(c), v)
    BY <2>3
  <2>5. /\ First(at) = Parts + 1 /\ old.staging = Response(v)
        /\ Len(old.staging) = Parts + 1 /\ Unwritten(c) = <<>>
    BY <1>1, <1>3, <2>4, SentinelFacts
  <2>6. Parts \in Nat /\ Response(v) \in Seq(Chunk) /\ Len(Response(v)) = Parts + 1
    BY LiveAssumption, ResponseFacts
  <2> DEFINE whole == SubSeq(Response(v), 1, Parts)
             me == [old EXCEPT !.data = whole, !.staging = <<>>, !.pending = FALSE]
  <2>7. whole \in Seq(Chunk)
    <3>1. Parts \in 0 .. Len(Response(v))
      BY <2>6
    <3> QED
      BY <2>6, <3>1, CutFacts
  <2>8. Scanned(old) = me
    <3>1. SubSeq(old.staging, Parts + 1 + 1, Len(old.staging)) = <<>>
      BY <2>5, <2>6, SubSeqEmpty
    <3>2. First(at) - 1 = Parts
      BY <2>5, <2>6
    <3>3. Scanned(old) = [old EXCEPT !.data = SubSeq(old.staging, 1, First(at) - 1),
                                     !.staging = SubSeq(old.staging, First(at) + 1, Len(old.staging)),
                                     !.pending = FALSE]
      BY <1>3 DEF Scanned
    <3>4. SubSeq(old.staging, 1, First(at) - 1) = whole
      BY <2>5, <3>2
    <3>5. SubSeq(old.staging, First(at) + 1, Len(old.staging)) = <<>>
      BY <2>5, <3>1
    <3> HIDE DEF whole, at, old
    <3> QED
      BY <3>3, <3>4, <3>5
  <2> HIDE DEF whole
  <2>9. /\ me.staging = <<>> /\ ~me.pending /\ me.data = whole
        /\ me \in [connected : BOOLEAN, pending : BOOLEAN, staging : Seq(Chunk), data : Seq(Chunk),
                   at : {"loop", "read"}, stopped : BOOLEAN, running : BOOLEAN]
        /\ me.connected /\ me.running
    BY <1>1, <2>7, EmptyInSeq DEF ClientOK
  <2>10. ClientOK(me)
    BY <2>9 DEF ClientOK, whole
  <2> QED
    BY <2>3, <2>5, <2>8, <2>9, <2>10
<1> QED
  BY <1>2, <1>3

LEMMA CallbackInv ==
    ASSUME IInv, NEW c \in Client, LiveReadCallback(c)
    PROVE  IInv'
<1> DEFINE me == Scanned(client[c])
           got == me.staging # client[c].staging
           after == IF Gone THEN [me EXCEPT !.staging = <<>>, !.connected = FALSE] ELSE me
           new == [after EXCEPT !.at = "loop"]
<1>1. /\ client[c].running /\ wire[c] = <<>>
      /\ client[c].at = "read" \/ client[c].connected
      /\ client' = [client EXCEPT ![c] = new]
      /\ panel' = IF got \/ Gone
                  THEN [panel EXCEPT ![c] = BuildLiveLeftItems(panel[c], after.data)] ELSE panel
      /\ UNCHANGED <<world, server, req, wire>>
  BY DEF LiveReadCallback, Up
<1>2. client[c].connected /\ Polls(c)
  BY <1>1 DEF IInv, Served
<1>3. /\ ClientOK(me) /\ me.connected /\ me.running
      /\ me = client[c] \/ (/\ ~me.pending /\ me.staging = <<>>
                            /\ Unwritten(c) = <<>> /\ req[c] = 0)
  BY <1>1, <1>2, ScannedFacts
<1> HIDE DEF me
<1>4. /\ ClientOK(new) /\ new.running /\ new.at = "loop"
      /\ Gone => ~new.connected
      /\ ~Gone => new.connected /\ new.staging = me.staging /\ new.pending = me.pending
  BY <1>3, EmptyInSeq DEF ClientOK
<1> HIDE DEF new
<1>5. /\ client' = [d \in Client |-> client'[d]] /\ client'[c] = new
      /\ \A d \in Client \ {c} : client'[d] = client[d]
      /\ \A d \in Client : ClientOK(client[d])'
  BY <1>1, <1>4, ClientStep DEF IInv
<1>6. panel' = [d \in Client |-> panel'[d]] /\ \A d \in Client : PanelOK(panel[d])'
  <2>1. panel = [d \in Client |-> panel[d]] /\ \A d \in Client : PanelOK(panel[d])
    BY DEF IInv, LiveTypeOK
  <2>2. PanelOK(BuildLiveLeftItems(panel[c], after.data))
    BY <2>1, BuildFacts
  <2>3. CASE panel' = panel
    BY <2>1, <2>3 DEF PanelOK
  <2>4. CASE panel' = [panel EXCEPT ![c] = BuildLiveLeftItems(panel[c], after.data)]
    <3> HIDE DEF after
    <3> QED
      BY <2>2, <2>4, PanelStep DEF IInv
  <2> QED
    BY <1>1, <2>3, <2>4
<1>7. LiveTypeOK'
  BY <1>1, <1>5, <1>6 DEF IInv, LiveTypeOK, Chunk, Version, Now
<1>8. ASSUME NEW d \in Client, d # c PROVE Served(d)'
  BY <1>1, <1>5, <1>8, OthersServed DEF IInv, Unwritten, Gone
<1>9. Served(c)'
  <2>1. CASE Gone
    BY <1>1, <1>4, <1>5, <2>1 DEF Served, Gone
  <2>2. CASE ~Gone
    <3>1. client'[c].connected /\ client'[c].staging = me.staging
          /\ client'[c].pending = me.pending
      BY <1>4, <1>5, <2>2
    <3>2. CASE me = client[c]
      <4>1. Underway(c)' = Underway(c)
        BY <1>1, <3>1, <3>2 DEF Underway
      <4>2. ASSUME NEW v \in Version PROVE Begins(Underway(c), v)' <=> Begins(Underway(c), v)
        BY <4>1 DEF Begins, Response
      <4>3. Gone' <=> Gone
        BY <1>1 DEF Gone
      <4>4. client'[c].pending = client[c].pending /\ req'[c] = req[c]
        BY <1>1, <3>1, <3>2
      <4>5. Polls(c)'
        BY <1>2, <4>1, <4>2, <4>3, <4>4 DEF Polls
      <4> QED
        BY <3>1, <4>5 DEF Served
    <3>3. CASE ~me.pending /\ me.staging = <<>> /\ Unwritten(c) = <<>> /\ req[c] = 0
      <4>1. Underway(c)' = (<<>> \o <<>>) \o <<>>
        BY <1>1, <3>1, <3>3 DEF Underway, Unwritten
      <4>2. Underway(c)' = <<>>
        BY <4>1, EmptyInSeq, ConcatEmpty
      <4>3. ~client'[c].pending /\ req'[c] = 0
        BY <1>1, <3>1, <3>3
      <4>4. Polls(c)'
        BY <4>2, <4>3 DEF Polls
      <4> QED
        BY <3>1, <4>4 DEF Served
    <3> QED
      BY <1>3, <3>2, <3>3
  <2> QED
    BY <2>1, <2>2
<1> QED
  BY <1>7, <1>8, <1>9 DEF IInv
\* The user's actions touch only what is on the screen.
LEMMA PanelInv ==
    ASSUME IInv, NEW c \in Client, NEW p, PanelOK(p),
           panel' = [panel EXCEPT ![c] = p],
           UNCHANGED <<world, server, req, wire, client>>
    PROVE  IInv'
<1>1. panel' = [d \in Client |-> panel'[d]] /\ \A d \in Client : PanelOK(panel[d])'
  BY PanelStep DEF IInv
<1>2. LiveTypeOK'
  BY <1>1 DEF IInv, LiveTypeOK, ClientOK, Chunk, Version, Response, Now
<1>3. \A d \in Client : Served(d)'
  BY OthersServed DEF IInv, Unwritten, Gone
<1> QED
  BY <1>2, <1>3 DEF IInv

LEMMA MoveInv == ASSUME IInv, NEW c \in Client, Move(c) PROVE IInv'
<1>1. PICK i \in DOMAIN panel[c].items : panel' = [panel EXCEPT ![c].row = i]
  BY DEF Move
<1>2. PanelOK(panel[c])
  BY DEF IInv, LiveTypeOK
<1>3. PanelOK([panel[c] EXCEPT !.row = i])
  BY <1>2 DEF PanelOK
<1> QED
  BY <1>1, <1>3, PanelInv DEF Move

LEMMA FilterInv == ASSUME IInv, NEW c \in Client, navaction_filter_static(c) PROVE IInv'
<1> DEFINE flipped == [panel[c] EXCEPT !.show_static = ~panel[c].show_static]
           p == BuildLiveLeftItems(flipped, client[c].data)
<1>1. PanelOK(panel[c])
  BY DEF IInv, LiveTypeOK
<1>2. PanelOK(flipped)
  BY <1>1 DEF PanelOK
<1>3. PanelOK(p)
  BY <1>2, BuildFacts
<1>4. panel' = [panel EXCEPT ![c] = p] /\ UNCHANGED <<world, server, req, wire, client>>
  BY DEF navaction_filter_static
<1> HIDE DEF p
<1> QED
  BY <1>3, <1>4, PanelInv

\* A client that stops running, or is stopped: nothing is asked of the first,
\* and the second keeps what it had.
LEMMA LeaveInv ==
    ASSUME IInv, NEW c \in Client, Quit(c) \/ Stop(c)
    PROVE  IInv'
<1> DEFINE quit == [client[c] EXCEPT !.running = FALSE]
           stopped == [client[c] EXCEPT !.stopped = TRUE]
<1>1. ClientOK(client[c]) /\ req \in [Client -> Nat] /\ wire \in [Client -> Seq(Chunk)]
  BY DEF IInv, LiveTypeOK
<1>2. ClientOK(quit) /\ ~quit.running
  BY <1>1 DEF ClientOK
<1>3. /\ ClientOK(stopped) /\ stopped.running = client[c].running
      /\ stopped.connected = client[c].connected /\ stopped.pending = client[c].pending
      /\ stopped.staging = client[c].staging /\ stopped.at = client[c].at
  BY <1>1 DEF ClientOK
<1> HIDE DEF quit, stopped
<1>4. UNCHANGED <<world, server, panel>>
  BY DEF Quit, Stop
<1>5. CASE Quit(c)
  <2>1. /\ client' = [client EXCEPT ![c] = quit]
        /\ req' = [req EXCEPT ![c] = 0] /\ wire' = [wire EXCEPT ![c] = <<>>]
    BY <1>5 DEF Quit, quit
  <2>2. /\ client' = [d \in Client |-> client'[d]] /\ client'[c] = quit
        /\ \A d \in Client \ {c} : client'[d] = client[d]
        /\ \A d \in Client : ClientOK(client[d])'
    BY <1>2, <2>1, ClientStep DEF IInv
  <2>3. /\ req' \in [Client -> Nat] /\ wire' \in [Client -> Seq(Chunk)]
        /\ \A d \in Client \ {c} : req'[d] = req[d] /\ wire'[d] = wire[d]
    BY <1>1, <2>1, EmptyInSeq
  <2>4. LiveTypeOK'
    BY <1>4, <2>2, <2>3 DEF IInv, LiveTypeOK, PanelOK, Chunk, Version, Now
  <2>5. ASSUME NEW d \in Client, d # c PROVE Served(d)'
    BY <1>4, <2>2, <2>3, <2>5, OthersServed DEF IInv, Unwritten, Gone
  <2>6. Served(c)'
    BY <1>2, <2>2 DEF Served
  <2> QED
    BY <2>4, <2>5, <2>6 DEF IInv
<1>6. CASE Stop(c)
  <2>1. client' = [client EXCEPT ![c] = stopped] /\ UNCHANGED <<req, wire>>
    BY <1>6 DEF Stop, stopped
  <2>2. /\ client' = [d \in Client |-> client'[d]] /\ client'[c] = stopped
        /\ \A d \in Client \ {c} : client'[d] = client[d]
        /\ \A d \in Client : ClientOK(client[d])'
    BY <1>3, <2>1, ClientStep DEF IInv
  <2>3. LiveTypeOK'
    BY <1>4, <2>1, <2>2 DEF IInv, LiveTypeOK, PanelOK, Chunk, Version, Now
  <2>4. ASSUME NEW d \in Client, d # c PROVE Served(d)'
    BY <1>4, <2>1, <2>2, <2>4, OthersServed DEF IInv, Unwritten, Gone
  <2>5. Served(c)'
    <3>1. Underway(c)' = Underway(c)
      BY <1>3, <1>4, <2>1, <2>2 DEF Underway
    <3>2. ASSUME NEW v \in Version PROVE Begins(Underway(c), v)' <=> Begins(Underway(c), v)
      BY <3>1 DEF Begins, Response
    <3>3. Gone' <=> Gone
      BY <1>4 DEF Gone
    <3>4. Polls(c)' <=> Polls(c)
      BY <1>3, <2>1, <2>2, <3>1, <3>2, <3>3 DEF Polls
    <3> QED
      BY <1>3, <2>1, <2>2, <3>3, <3>4 DEF IInv, Served
  <2> QED
    BY <2>3, <2>4, <2>5 DEF IInv
<1> QED
  BY <1>5, <1>6

LEMMA StutterInv == ASSUME IInv, UNCHANGED vars PROVE IInv'
<1>1. UNCHANGED <<world, server, req, wire, client, panel>>
  BY DEF vars
<1>2. LiveTypeOK'
  BY <1>1 DEF IInv, LiveTypeOK, ClientOK, PanelOK, Chunk, Version, Response, Now
<1>3. \A d \in Client : Served(d)'
  BY <1>1, OthersServed DEF IInv, Unwritten, Gone
<1> QED
  BY <1>2, <1>3 DEF IInv

LEMMA NextInv == ASSUME IInv, [Next]_vars PROVE IInv'
BY ChangeInv, DieInv, RequestInv, WriteInv, PollInv, ReadInv, CallbackInv, MoveInv, FilterInv,
   LeaveInv, StutterInv DEF Next, Serve, Callback

LEMMA InvHolds == Spec => []IInv
<1>1. IInv /\ [Next]_vars => IInv'
  BY NextInv
<1> QED
  BY <1>1, InitInv, PTL DEF Spec

-----------------------------------------------------------------------------
(* The properties. *)

\* At any moment at most one request or one response is under way for a client,
\* and exactly while its live_poll_pending is set, whatever the sizes of the
\* sockets and however many other clients there are (LivePollCallback,
\* LiveReadCallback).
THEOREM BackPressureHolds == Spec => []BackPressure
<1>1. IInv => BackPressure
  <2> SUFFICES ASSUME IInv, NEW c \in Client, Live(c)
               PROVE  /\ req[c] <= 1
                      /\ ~client[c].pending => req[c] = 0 /\ Underway(c) = <<>>
                      /\ client[c].pending /\ ~Gone =>
                            \/ req[c] = 1 /\ Underway(c) = <<>>
                            \/ req[c] = 0 /\ \E v \in Version : Underway(c) = Response(v)
    BY DEF BackPressure
  <2>1. Polls(c)
    BY DEF IInv, Served, Live, Up
  <2>2. ASSUME NEW v \in Version, Begins(Underway(c), v), Len(Underway(c)) = Parts + 1
        PROVE  Underway(c) = Response(v)
    <3>1. /\ Underway(c) \in Seq(Chunk) /\ Response(v) \in Seq(Chunk)
          /\ Len(Response(v)) = Parts + 1
      BY ResponseFacts, UnderwayFacts DEF IInv
    <3>2. \A i \in 1 .. Len(Underway(c)) : Underway(c)[i] = Response(v)[i]
      BY <2>2 DEF Begins
    <3> QED
      BY <2>2, <3>1, <3>2, SeqEqual
  <2> QED
    BY <2>1, <2>2 DEF Polls
<1> QED
  BY <1>1, InvHolds, PTL

\* What a client shows is one whole response of the server, whatever the socket
\* did to it and whenever the server died (LiveReadCallback).
THEOREM DataWholeHolds == Spec => []DataWhole
<1>1. IInv => DataWhole
  BY DEF IInv, LiveTypeOK, ClientOK, DataWhole
<1> QED
  BY <1>1, InvHolds, PTL

\* A restored selection is on the pool it was on, if the new rows have it.
LEMMA RestoredFollows ==
    ASSUME NEW old, NEW rows, old.items # <<>>, old.items[old.row] \in Range(rows)
    PROVE  rows[RestoredRow(old, rows)] = old.items[old.row]
<1> DEFINE at == {i \in DOMAIN rows : old.items # <<>> /\ rows[i] = old.items[old.row]}
<1>1. at # {}
  BY DEF Range
<1>2. (CHOOSE i \in at : TRUE) \in at
  BY <1>1
<1>3. RestoredRow(old, rows) = CHOOSE i \in at : TRUE
  BY <1>1 DEF RestoredRow
<1> QED
  BY <1>2, <1>3

\* However the pools of the server change, and whichever of them are shown, the
\* cursor stays on its pool as long as that is listed (BuildLiveLeftItems).
THEOREM CursorFollowsPoolHolds == Spec => CursorFollowsPool
<1> DEFINE Follows(c) ==
       panel'[c].items # panel[c].items /\ panel[c].items # <<>> =>
          LET pool == panel[c].items[panel[c].row] IN
          pool \in Range(panel'[c].items) => panel'[c].items[panel'[c].row] = pool
<1>1. ASSUME IInv, NEW c \in Client, NEW d \in Client, NEW old, PanelOK(old), NEW data,
             old.items = panel[d].items, old.row = panel[d].row,
             panel' = [panel EXCEPT ![d] = BuildLiveLeftItems(old, data)]
      PROVE  Follows(c)
  <2> DEFINE new == BuildLiveLeftItems(old, data)
  <2>1. PanelOK(new) /\ new.row = RestoredRow(old, new.items)
    BY <1>1, BuildFacts
  <2> HIDE DEF new
  <2>2. panel'[d] = new /\ \A e \in Client \ {d} : panel'[e] = panel[e]
    BY <1>1, <2>1, PanelStep DEF IInv, new
  <2>3. CASE c = d
    BY <1>1, <2>1, <2>2, <2>3, RestoredFollows
  <2>4. CASE c # d
    BY <2>2, <2>4
  <2> QED
    BY <2>3, <2>4
<1>2. ASSUME IInv, [Next]_vars, NEW c \in Client PROVE Follows(c)
  <2>1. CASE UNCHANGED panel
    BY <2>1
  <2>2. ASSUME NEW d \in Client, LiveReadCallback(d) PROVE Follows(c)
    <3>1. PICK data : panel' = [panel EXCEPT ![d] = BuildLiveLeftItems(panel[d], data)]
                      \/ UNCHANGED panel
      BY <2>2 DEF LiveReadCallback
    <3>2. PanelOK(panel[d])
      BY <1>2 DEF IInv, LiveTypeOK
    <3> QED
      BY <1>1, <1>2, <2>1, <3>1, <3>2
  <2>3. ASSUME NEW d \in Client, navaction_filter_static(d) PROVE Follows(c)
    <3> DEFINE flipped == [panel[d] EXCEPT !.show_static = ~panel[d].show_static]
    <3>1. panel' = [panel EXCEPT ![d] = BuildLiveLeftItems(flipped, client[d].data)]
      BY <2>3 DEF navaction_filter_static
    <3>2. PanelOK(panel[d])
      BY <1>2 DEF IInv, LiveTypeOK
    <3>3. PanelOK(flipped) /\ flipped.items = panel[d].items /\ flipped.row = panel[d].row
      BY <3>2 DEF PanelOK
    <3> HIDE DEF flipped
    <3> QED
      BY <1>1, <1>2, <3>1, <3>3
  <2>4. ASSUME NEW d \in Client, Move(d) PROVE Follows(c)
    <3>1. PICK i \in DOMAIN panel[d].items : panel' = [panel EXCEPT ![d].row = i]
      BY <2>4 DEF Move
    <3>2. PanelOK(panel[d]) /\ panel = [e \in Client |-> panel[e]]
      BY <1>2 DEF IInv, LiveTypeOK
    <3>3. panel'[c].items = panel[c].items
      BY <3>1, <3>2 DEF PanelOK
    <3> QED
      BY <3>3
  <2> QED
    BY <1>2, <2>1, <2>2, <2>3, <2>4
    DEF Next, Serve, Callback, Change, Die, Ipc_RequestStateDump, WriteDump, LiveRead,
        LivePollCallback, Quit, Stop, vars
<1>3. IInv /\ [Next]_vars => [\A c \in Client : Follows(c)]_vars
  BY <1>2
<1> QED
  BY <1>3, InvHolds, PTL DEF Spec, CursorFollowsPool
=============================================================================
