----------------------------- MODULE EnetSession -----------------------------
(***************************************************************************)
(* ENet as the game uses it (thirdparty/enet, NetClient, NetServer): a       *)
(* player's client connects to the server, again and again, over a network   *)
(* that loses, repeats and delays datagrams.  Handshake, session ids,         *)
(* acknowledgements, timeouts and the three ways to end a connection.        *)
(*                                                                         *)
(* A datagram carries one command here: the code puts several into one, to   *)
(* be handled one after another.  The network keeps every datagram ever sent *)
(* and may hand any of them out at any time, or never: sending one again     *)
(* changes nothing, so that only the giving up is left of                    *)
(* enet_protocol_check_timeouts(), and an acknowledgement may be sent at once: *)
(* one that is late or thrown away is one the network has not handed out.    *)
(* A packet that comes too early is dropped and comes again in its turn.     *)
(* Pings are left out but for their effect: a connection that hears nothing  *)
(* times out, idle or not.  The game always passes an event to                *)
(* enet_host_service(), so CONNECTION_PENDING and _SUCCEEDED are not reached, *)
(* and it never calls enet_peer_disconnect_later().                          *)
(***************************************************************************)
EXTENDS Integers, Sequences, FiniteSets

CONSTANTS
    maxClients,    \* peers of the server's host; kMaxPlayers in the code
    Addresses,     \* the addresses the client's sockets are given
    MaxAttempts,   \* bound: connections the client attempts
    PacketBound,   \* bound: packets each side gives to one connection
    ConnectBound   \* bound: C_CONNECTs the server accepts, repeated ones included

SessionIds == 4    \* ENET_PROTOCOL_HEADER_SESSION_MASK
FreshId    == 255  \* the session id of a peer that was never connected
NoPeer     == -1   \* ENET_PROTOCOL_MAXIMUM_PEER_ID
Control    == 255  \* the channel of commands that carry no packet
Server     == 0    \* the server's address

ASSUME SessionAssumption ==
    /\ maxClients \in Nat \ {0} /\ MaxAttempts \in Nat /\ PacketBound \in Nat
    /\ ConnectBound \in Nat
    /\ Addresses \subseteq Nat \ {Server} /\ Addresses # {}

Slots    == 0 .. maxClients - 1
Attempts == 1 .. MaxAttempts
Client   == maxClients           \* the client's end, beside the server's slots
Ends     == Slots \union {Client}

States == {"DISCONNECTED", "CONNECTING", "ACKNOWLEDGING_CONNECT", "CONNECTED",
           "DISCONNECTING", "ACKNOWLEDGING_DISCONNECT", "ZOMBIE"}

VARIABLES
    peer,     \* the peer at every end
    here,     \* the address of the client's socket
    attempt,  \* connections attempted so far; also their connectIDs
    accepts,  \* C_CONNECTs the server accepted so far
    net,      \* datagrams sent
    idRepeated, \* an address was given a session id it had had before
    open, taken, past, given   \* what the game has seen and done, as in PeerEvents

seen == <<open, taken, past, given>>
vars == <<peer, here, attempt, accepts, net, idRepeated, open, taken, past, given>>

HostOf(e) == IF e = Client THEN "client" ELSE "server"
Hosts == {"client", "server"}

-----------------------------------------------------------------------------
(* Peers.                                                                  *)

Command(cmd, ch, seq, acked) ==
    [cmd |-> cmd, ch |-> ch, seq |-> seq, acked |-> acked,
     connectID |-> 0, slot |-> NoPeer, inS |-> FreshId, outS |-> FreshId]

Unconnected ==
    [state |-> "DISCONNECTED", connectID |-> 0, address |-> Server, outgoingPeerID |-> NoPeer,
     inS |-> FreshId, outS |-> FreshId, controlSeq |-> 0, outSeq |-> 0, inSeq |-> 0,
     queued |-> {}, sent |-> {}, dispatched |-> <<>>]

ResetQueues(p) ==
    [p EXCEPT !.queued = {}, !.sent = {}, !.dispatched = <<>>, !.outSeq = 0, !.inSeq = 0]

\* Mutated form: what was queued for the old connection stays.
ResetKeepsQueues(p) == [Unconnected EXCEPT !.inS = p.inS, !.outS = p.outS, !.queued = p.queued]

\* The session ids are all that a peer keeps.
Reset(p) == [Unconnected EXCEPT !.inS = p.inS, !.outS = p.outS]

QueueControl(p, cmd, acked, c) ==
    [p EXCEPT !.controlSeq = @ + 1,
              !.queued = @ \union {[c EXCEPT !.cmd = cmd, !.ch = Control, !.acked = acked,
                                             !.seq = p.controlSeq + 1]}]

\* enet_peer_send() of a reliable packet; connectID tells whose packet it is.
PeerSend(p) ==
    [p EXCEPT !.outSeq = @ + 1,
              !.queued = @ \union {[Command("SEND_RELIABLE", 0, p.outSeq + 1, TRUE)
                                    EXCEPT !.connectID = p.connectID]}]

\* enet_peer_disconnect() of a connected peer.
Disconnect(p) ==
    [QueueControl(ResetQueues(p), "DISCONNECT", TRUE, Command("DISCONNECT", Control, 0, TRUE))
     EXCEPT !.state = "DISCONNECTING"]

AddressOf(e) == IF e = Client THEN here ELSE Server

\* The datagrams that carry these commands from the end e, whose peer is p.
Datagrams(e, p, commands) ==
    {[to |-> p.address, from |-> AddressOf(e), slot |-> p.outgoingPeerID,
      session |-> IF p.outgoingPeerID = NoPeer THEN FreshId ELSE p.outS, command |-> c]
        : c \in commands}

\* enet_host_flush(): the end e sends what its peer, which was p, has queued.
Flush(e, p) ==
    /\ peer' = [peer EXCEPT ![e] = [p EXCEPT !.queued = {},
                                             !.sent = @ \union {c \in p.queued : c.acked}]]
    /\ net' = net \union Datagrams(e, p, p.queued)

\* A command was handled, which left the peer p: it is acknowledged, or not.
Acknowledge(e, p, c) ==
    /\ peer' = [peer EXCEPT ![e] = p]
    /\ net' = IF c.acked /\ p.state = "CONNECTED"
              THEN net \union Datagrams(e, p, {Command("ACKNOWLEDGE", c.ch, c.seq, FALSE)})
              ELSE net

-----------------------------------------------------------------------------
(* Events.                                                                 *)

ConnectEvent(e, a) ==
    /\ open' = [open EXCEPT ![e] = a]
    /\ taken' = [taken EXCEPT ![e] = <<>>]
    /\ past' = [past EXCEPT ![HostOf(e)] = @ \union {a}]
    /\ UNCHANGED given

DisconnectEvent(e) ==
    /\ open' = [open EXCEPT ![e] = 0]
    /\ taken' = [taken EXCEPT ![e] = <<>>]
    /\ UNCHANGED <<past, given>>

Give(e) ==
    /\ given' = [given EXCEPT ![HostOf(e)][peer[e].connectID] = @ + 1]
    /\ UNCHANGED <<open, taken, past>>

\* Mutated form: only a peer that is disconnecting is reported.
NotifyDisconnecting(e) ==
    /\ peer' = [peer EXCEPT ![e] = Reset(@)]
    /\ IF peer[e].state = "DISCONNECTING" THEN DisconnectEvent(e) ELSE UNCHANGED seen

\* enet_protocol_notify_disconnect(): a peer that was never reported goes silently.
NotifyDisconnect(e) ==
    /\ peer' = [peer EXCEPT ![e] = Reset(@)]
    /\ IF peer[e].state \in {"ACKNOWLEDGING_CONNECT", "CONNECTING"} THEN UNCHANGED seen
                                                                    ELSE DisconnectEvent(e)

-----------------------------------------------------------------------------
(* Receiving.  m is a datagram for the end e.                              *)

\* Mutated form: a datagram of any session is taken.
AcceptsAnySession(e, m) ==
    /\ m.to = AddressOf(e) /\ m.slot = (IF e = Client THEN 0 ELSE e)
    /\ peer[e].state \notin {"DISCONNECTED", "ZOMBIE"}
    /\ m.from = peer[e].address

\* The header of a datagram, in enet_protocol_handle_incoming_commands().
Accepts(e, m) ==
    /\ m.to = AddressOf(e) /\ m.slot = (IF e = Client THEN 0 ELSE e)
    /\ peer[e].state \notin {"DISCONNECTED", "ZOMBIE"}
    /\ m.from = peer[e].address
    /\ peer[e].outgoingPeerID # NoPeer => m.session = peer[e].inS

NextId(s) == (s + 1) % SessionIds

\* A connect that was repeated on the way, of a connection that lasts.
ConnectedAlready(m) ==
    \E q \in Slots :
        /\ peer[q].state # "DISCONNECTED"
        /\ peer[q].address = m.from /\ peer[q].connectID = m.command.connectID

(* The address has, or had, a connection with these session ids: nothing else  *)
(* tells its datagrams from those of another.  The ids have two bits, and each  *)
(* of the server's peers counts its own.                                      *)
HadId(a, ids) ==
    \/ \E d \in net : d.to = a /\ d.session = ids
    \/ \E q \in Slots : peer[q].address = a /\ peer[q].outS = ids

\* enet_protocol_handle_connect(): the first free peer, or none.  idRepeated is not
\* the code's: it tells the properties that two connections look alike.
HandleConnect(q, m) ==
    LET c   == m.command
        ids == NextId(peer[q].outS)
    IN  /\ m.to = Server /\ m.slot = NoPeer /\ c.cmd = "CONNECT"
        /\ accepts < ConnectBound /\ accepts' = accepts + 1
        /\ ~ConnectedAlready(m)
        /\ peer[q].state = "DISCONNECTED"
        /\ \A r \in Slots : r < q => peer[r].state # "DISCONNECTED"
        /\ peer' = [peer EXCEPT ![q] =
               QueueControl([@ EXCEPT !.state = "ACKNOWLEDGING_CONNECT", !.connectID = c.connectID,
                                      !.address = m.from, !.outgoingPeerID = 0,
                                      !.outS = ids, !.inS = ids],
                            "VERIFY_CONNECT", TRUE,
                            [c EXCEPT !.slot = q, !.inS = ids, !.outS = ids])]
        /\ idRepeated' = (idRepeated \/ HadId(m.from, ids))
        /\ UNCHANGED <<here, attempt, net, open, taken, past, given>>

\* Mutated form: a VERIFY_CONNECT is not asked whose connection it answers.
VerifiesAnything(p, c) == TRUE

Verifies(p, c) == c.connectID = p.connectID

HandleVerifyConnect(e, m) ==
    LET p == peer[e]
        c == m.command
    IN  /\ c.cmd = "VERIFY_CONNECT" /\ Accepts(e, m)
        /\ IF p.state # "CONNECTING"
           THEN Acknowledge(e, p, c) /\ UNCHANGED seen
           ELSE IF Verifies(p, c)
           THEN /\ Acknowledge(e, [p EXCEPT !.state = "CONNECTED", !.outgoingPeerID = c.slot,
                                            !.inS = c.inS, !.outS = c.outS,
                                            !.sent = {s \in @ : s.cmd # "CONNECT"}], c)
                /\ ConnectEvent(e, p.connectID)
           ELSE peer' = [peer EXCEPT ![e].state = "ZOMBIE"] /\ UNCHANGED <<net, open, taken, past, given>>
        /\ UNCHANGED <<here, attempt, accepts, idRepeated>>

Completes(p, done) ==
    p.state = "ACKNOWLEDGING_CONNECT" /\ \E c \in done : c.cmd = "VERIFY_CONNECT"

HandleAcknowledge(e, m) ==
    LET p    == peer[e]
        done == {c \in p.sent : c.ch = m.command.ch /\ c.seq = m.command.seq}
        rest == [p EXCEPT !.sent = @ \ done]
    IN  /\ m.command.cmd = "ACKNOWLEDGE" /\ Accepts(e, m)
        /\ IF Completes(p, done)
           THEN /\ peer' = [peer EXCEPT ![e] = [rest EXCEPT !.state = "CONNECTED"]]
                /\ ConnectEvent(e, p.connectID)
           ELSE IF p.state = "DISCONNECTING" /\ \E c \in done : c.cmd = "DISCONNECT"
           THEN NotifyDisconnect(e)
           ELSE peer' = [peer EXCEPT ![e] = rest] /\ UNCHANGED seen
        /\ UNCHANGED <<here, attempt, accepts, idRepeated, net>>

\* The peer after a DISCONNECT was handled.
AfterDisconnect(p, c) ==
    IF p.state = "ACKNOWLEDGING_DISCONNECT" THEN p
    ELSE IF p.state \in {"DISCONNECTING", "CONNECTING"}
    THEN [ResetQueues(p) EXCEPT !.state = "ZOMBIE"]
    ELSE IF p.state # "CONNECTED" THEN Reset(p)
    ELSE [ResetQueues(p) EXCEPT !.state = IF c.acked THEN "ACKNOWLEDGING_DISCONNECT" ELSE "ZOMBIE"]

HandleDisconnect(e, m) ==
    LET c == m.command
    IN  /\ c.cmd = "DISCONNECT" /\ Accepts(e, m)
        /\ peer' = [peer EXCEPT ![e] = AfterDisconnect(@, c)]
        /\ UNCHANGED <<here, attempt, accepts, idRepeated, net, open, taken, past, given>>

Dispatches(p, c) == c.seq = p.inSeq + 1

HandleSendReliable(e, m) ==
    LET p == peer[e]
        c == m.command
    IN  /\ c.cmd = "SEND_RELIABLE" /\ Accepts(e, m)
        /\ p.state = "CONNECTED" /\ c.seq <= p.inSeq + 1
        /\ Acknowledge(e,
               IF Dispatches(p, c)
               THEN [p EXCEPT !.inSeq = c.seq, !.dispatched = Append(@, <<c.connectID, c.seq>>)]
               ELSE p, c)
        /\ UNCHANGED <<here, attempt, accepts, idRepeated, open, taken, past, given>>

Receive(e) ==
    \E m \in net :
        \/ HandleVerifyConnect(e, m)
        \/ HandleAcknowledge(e, m)
        \/ HandleDisconnect(e, m)
        \/ HandleSendReliable(e, m)

-----------------------------------------------------------------------------
(* Sending, timeouts and the dispatch queue.                               *)

SendOutgoing(e) ==
    /\ peer[e].state \notin {"DISCONNECTED", "ZOMBIE"} /\ peer[e].queued # {}
    /\ Flush(e, peer[e])
    /\ UNCHANGED <<here, attempt, accepts, idRepeated, open, taken, past, given>>

\* enet_protocol_send_acknowledgements() of a DISCONNECT.
AcknowledgeDisconnect(e) ==
    \E m \in net :
        /\ peer[e].state = "ACKNOWLEDGING_DISCONNECT"
        /\ m.command.cmd = "DISCONNECT" /\ m.command.acked /\ Accepts(e, m)
        /\ peer' = [peer EXCEPT ![e].state = "ZOMBIE"]
        /\ net' = net \union Datagrams(e, peer[e],
                       {Command("ACKNOWLEDGE", Control, m.command.seq, FALSE)})
        /\ UNCHANGED <<here, attempt, accepts, idRepeated, open, taken, past, given>>

\* Mutated form: an idle connection is not pinged.
UnansweredUnlessIdle(p) == p.sent # {}

\* What is neither answered nor resent for ever; a ping, if the connection is idle.
Unanswered(p) == p.sent # {} \/ p.state = "CONNECTED"

CheckTimeouts(e) ==
    /\ peer[e].state \notin {"DISCONNECTED", "ZOMBIE"} /\ Unanswered(peer[e])
    /\ NotifyDisconnect(e)
    /\ UNCHANGED <<here, attempt, accepts, idRepeated, net>>

DispatchReceive(e) ==
    /\ peer[e].state = "CONNECTED" /\ peer[e].dispatched # <<>>
    /\ peer' = [peer EXCEPT ![e].dispatched = Tail(@)]
    /\ taken' = [taken EXCEPT ![e] = Append(@, Head(peer[e].dispatched))]
    /\ UNCHANGED <<here, attempt, accepts, idRepeated, net, open, past, given>>

DispatchDisconnect(e) ==
    /\ peer[e].state = "ZOMBIE"
    /\ peer' = [peer EXCEPT ![e] = Reset(@)]
    /\ IF open[e] = 0 THEN UNCHANGED seen ELSE DisconnectEvent(e)
    /\ UNCHANGED <<here, attempt, accepts, idRepeated, net>>

-----------------------------------------------------------------------------
(* The game.                                                               *)

Init ==
    /\ peer = [e \in Ends |-> Unconnected]
    /\ here = Server /\ attempt = 0 /\ accepts = 0 /\ net = {}
    /\ idRepeated = FALSE
    /\ open = [e \in Ends |-> 0] /\ taken = [e \in Ends |-> <<>>]
    /\ past = [h \in Hosts |-> {}] /\ given = [h \in Hosts |-> [a \in Attempts |-> 0]]

\* Addresses are interchangeable: the one of the first connection goes by this name.
FirstAddress == CHOOSE a \in Addresses : TRUE

(* NetClient::connect(): a new host, whose only peer was never connected.     *)
(* Its port may be one used before, even that of a connection the server holds. *)
ClientConnects ==
    /\ peer[Client].state = "DISCONNECTED" /\ attempt < MaxAttempts
    /\ attempt' = attempt + 1
    /\ here' \in IF attempt = 0 THEN {FirstAddress} ELSE Addresses
    /\ peer' = [peer EXCEPT ![Client] =
           QueueControl([Unconnected EXCEPT !.state = "CONNECTING", !.connectID = attempt + 1],
                        "CONNECT", TRUE,
                        [Command("CONNECT", Control, 0, TRUE) EXCEPT !.connectID = attempt + 1])]
    /\ UNCHANGED <<accepts, net, idRepeated, open, taken, past, given>>

\* The time to connect is over: enet_peer_reset(), and the host is destroyed.
ClientGivesUp ==
    /\ peer[Client].state = "CONNECTING"
    /\ peer' = [peer EXCEPT ![Client] = Reset(@)]
    /\ UNCHANGED <<here, attempt, accepts, idRepeated, net, open, taken, past, given>>

\* sendPacket() on either side: the packet, and enet_host_flush().
Sends(e) ==
    /\ peer[e].state = "CONNECTED" /\ open[e] # 0
    /\ given[HostOf(e)][peer[e].connectID] < PacketBound
    /\ Flush(e, PeerSend(peer[e])) /\ Give(e)
    /\ UNCHANGED <<here, attempt, accepts, idRepeated>>

\* NetClient::disconnect(): one DISCONNECT nobody acknowledges, and the host is gone.
ClientDisconnects ==
    LET p   == peer[Client]
        bye == QueueControl(ResetQueues(p), "DISCONNECT", FALSE,
                            Command("DISCONNECT", Control, 0, FALSE))
    IN  /\ open[Client] # 0 /\ p.state # "DISCONNECTED"
        /\ net' = net \union (IF p.state = "ZOMBIE" THEN {} ELSE Datagrams(Client, bye, bye.queued))
        /\ peer' = [peer EXCEPT ![Client] = Reset(@)]
        /\ DisconnectEvent(Client)
        /\ UNCHANGED <<here, attempt, accepts, idRepeated>>

\* The client's process ends without a word.
ClientVanishes ==
    /\ open[Client] # 0
    /\ peer' = [peer EXCEPT ![Client] = Reset(@)]
    /\ DisconnectEvent(Client)
    /\ UNCHANGED <<here, attempt, accepts, idRepeated, net>>

\* NetServer::disconnectPeer(), of a client that leaves or was refused.
ServerCloses(q) ==
    /\ peer[q].state = "CONNECTED" /\ open[q] # 0
    /\ peer' = [peer EXCEPT ![q] = Disconnect(@)]
    /\ UNCHANGED <<here, attempt, accepts, idRepeated, net, open, taken, past, given>>

\* NetServer::disconnectPlayer(): S_KICK is queued, and the queues are reset.
ServerKicks(q) ==
    /\ peer[q].state = "CONNECTED" /\ open[q] # 0
    /\ given["server"][peer[q].connectID] < PacketBound
    /\ peer' = [peer EXCEPT ![q] = Disconnect(PeerSend(@))] /\ Give(q)
    /\ UNCHANGED <<here, attempt, accepts, idRepeated, net>>

Service(e) ==
    \/ Receive(e) \/ SendOutgoing(e) \/ AcknowledgeDisconnect(e) \/ CheckTimeouts(e)
    \/ DispatchReceive(e) \/ DispatchDisconnect(e)

Next ==
    \/ ClientConnects \/ ClientGivesUp \/ ClientDisconnects \/ ClientVanishes
    \/ \E e \in Ends : Service(e) \/ Sends(e)
    \/ \E q \in Slots : ServerCloses(q) \/ ServerKicks(q) \/ \E m \in net : HandleConnect(q, m)

\* The peer an end is connected to, as far as it goes.
Gone(e) ==
    LET others == IF e = Client THEN Slots ELSE {Client}
    IN  \A f \in others : peer[f].connectID # peer[e].connectID

\* A command that is never acknowledged times out, and so does a connection whose
\* other end is gone; hosts are serviced every frame, and the client's only while
\* it has one.
Fairness ==
    \A e \in Ends :
        /\ WF_vars(SendOutgoing(e)) /\ WF_vars(AcknowledgeDisconnect(e))
        /\ WF_vars(DispatchDisconnect(e))
        /\ WF_vars((Gone(e) \/ peer[e].state # "CONNECTED") /\ CheckTimeouts(e))

Spec == Init /\ [][Next]_vars /\ Fairness

-----------------------------------------------------------------------------
(* Properties.                                                             *)

Channels == {0, Control}
PeerType ==
    [state : States, connectID : Attempts \union {0}, address : Addresses \union {Server},
     outgoingPeerID : Slots \union {NoPeer},
     inS : 0 .. SessionIds - 1 \union {FreshId}, outS : 0 .. SessionIds - 1 \union {FreshId},
     controlSeq : 0 .. 2, outSeq : 0 .. PacketBound, inSeq : 0 .. PacketBound]

(* Every peer is in one of ENet's states and its numbers are in range; one    *)
(* that is free holds no command, no packet and no acknowledgement.           *)
TypeOK ==
    /\ \A e \in Ends :
         /\ [f \in {"state", "connectID", "address", "outgoingPeerID", "inS", "outS",
                    "controlSeq", "outSeq", "inSeq"} |-> peer[e][f]] \in PeerType
         /\ peer[e].state = "DISCONNECTED"
              => peer[e] = [Unconnected EXCEPT !.inS = peer[e].inS, !.outS = peer[e].outS]
    /\ here \in Addresses \union {Server}
    /\ attempt \in 0 .. MaxAttempts /\ accepts \in 0 .. ConnectBound
    /\ idRepeated \in BOOLEAN

(* What the game was told of an end is what ENet has there: between CONNECT   *)
(* and DISCONNECT the peer is that connection's and is not given to another,   *)
(* and no connection is up without the game having been told.                 *)
EventsMatchPeers ==
    \A e \in Ends :
        /\ open[e] # 0 => /\ peer[e].connectID = open[e]
                          /\ peer[e].state \notin {"DISCONNECTED", "CONNECTING",
                                                   "ACKNOWLEDGING_CONNECT"}
        /\ peer[e].state \in {"CONNECTED", "DISCONNECTING"} => open[e] # 0

(* A connection the server's game is told of was told to the client's game    *)
(* before, however often the connect is repeated and whatever else is late,    *)
(* until an address is given a session id again: then an old acknowledgement   *)
(* may complete a connection the client never had.                           *)
ConnectIsMutual == idRepeated \/ past["server"] \subseteq past["client"]

Events == INSTANCE PeerEvents WITH Host <- HostOf, NoAttempt <- 0

(* The events at every end are those the game's transport code is written      *)
(* for (PeerEvents): CONNECT, packets of this connection in order and each     *)
(* once, DISCONNECT; never the same attempt twice.  Once an address was given a *)
(* session id again, packets and acknowledgements of its connections can be    *)
(* mistaken for one another's, but the events still alternate at every end.    *)
IsPeerEvents ==
    /\ Events!EventInit
    /\ [][Events!EventNext \/ (idRepeated' /\ Events!MixedNext)]_(Events!eventVars)

(* The server lets go of every peer that it disconnects or whose client is     *)
(* gone, in whatever state, and the game is told of those it knew.            *)
PeersAreFreed ==
    \A q \in Slots :
        (peer[q].state = "DISCONNECTING" \/ Gone(q))
            ~> (peer[q].state = "DISCONNECTED" /\ open[q] = 0)

(* A client whose connection the server has ended is told so sooner or later.  *)
ClientIsTold ==
    (open[Client] \in past["server"] /\ \A q \in Slots : open[q] # open[Client])
        ~> open[Client] = 0
=============================================================================
