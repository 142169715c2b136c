----------------------------- MODULE StreamLink -----------------------------
(***************************************************************************)
(* One stream connection at the level of bytes: length-prefixed frames, the  *)
(* send and receive buffers of both ends, and the TCP connection between     *)
(* them, which delivers bytes in order but cuts them anywhere, takes only     *)
(* part of a write, and may break.  "up" is client to server.               *)
(*                                                                         *)
(* The server's end is NetStreamServer.  The client's end is NetStreamClient *)
(* or, for browsers, the relay's TCP socket, which frames the same way, but  *)
(* asks for no size, and writes when it can.  The WebSocket behind the relay *)
(* keeps whole messages in order and is left out, as is a connection attempt *)
(* that fails.                                                             *)
(***************************************************************************)
EXTENDS Integers, Sequences, SequencesExt

CONSTANTS
    ByteBase,      \* values of a byte; 256 in the code
    kMaxPayload,   \* 60000 in the code: two bytes can say more
    Payloads,      \* the packets given to sendPacket() and sendToPeer(), some
                   \* larger than that
    BrowserPackets, \* the messages the relay gets from the game in a browser
    PipeBytes,     \* what the kernel holds of one direction
    ChunkBytes,    \* what one recv() takes; 4096 in the code
    SendBound,     \* bound: no packet that would leave more unsent bytes than this
    Breaks         \* whether the connection may break

Dirs  == {"up", "down"}
Byte  == 0 .. ByteBase - 1
Bytes == Seq(Byte)
Fits(p) == Len(p) <= kMaxPayload

ASSUME FrameAssumption ==
    /\ ByteBase \in Nat \ {0} /\ kMaxPayload \in Nat
    /\ kMaxPayload < ByteBase * ByteBase
    /\ Payloads \subseteq Bytes \ {<<>>}
    /\ PipeBytes \in Nat \ {0} /\ ChunkBytes \in Nat \ {0}
    /\ Breaks \in BOOLEAN

\* NetWebSession sends the fixed structs NetCJoin to NetCSpectate of NetCommon.h,
\* some forty bytes at most: the relay itself would frame anything.
ASSUME BrowserAssumption ==
    BrowserPackets \subseteq {p \in Payloads : Fits(p)}

VARIABLES
    end,      \* what is at the client's end: "client" or "relay"
    snd,      \* sendBuffer of the sending end
    net,      \* bytes between the ends
    rcv,      \* recvBuffer of the receiving end
    cOpen,    \* the client's end has a socket
    sSock,    \* the server's end: "closed", "backlog" (not accepted yet), "open"
    broken,   \* the connection is lost
    polling,  \* the ends that are inside their recv() loop
    out       \* the packets the last step gave to a packet handler

buffers  == <<snd, net, rcv>>
ends     == <<end, cOpen, sSock, broken>>
linkVars == <<end, snd, net, rcv, cOpen, sSock, broken, polling, out>>

Nothing == [d \in Dirs |-> <<>>]
Receiver(d) == IF d = "up" THEN "server" ELSE "client"
Receiving(d) == IF d = "up" THEN sSock = "open" ELSE cOpen

-----------------------------------------------------------------------------
(* Frames.                                                                 *)

\* Mutated form: the length is written as if it were one byte.
encodeFrameUnsplit(p) == IF Fits(p) THEN <<0, Len(p)>> \o p ELSE <<>>

\* The relay's, for any payload whose length two bytes can say.
writeFrame(p) == <<Len(p) \div ByteBase, Len(p) % ByteBase>> \o p

encodeFrame(p) == IF Fits(p) THEN writeFrame(p) ELSE <<>>

PayloadLen(b) == ByteBase * b[1] + b[2]

HasFrame(b) == Len(b) >= 2 /\ Len(b) >= 2 + PayloadLen(b)

Oversize(b) == Len(b) >= 2 /\ PayloadLen(b) > kMaxPayload

(* feed(): the packets that are complete in the buffer, and what remains.    *)
Feed[b \in Bytes] ==
    IF Oversize(b) THEN [packets |-> <<>>, rest |-> <<>>]
    ELSE IF ~HasFrame(b) THEN [packets |-> <<>>, rest |-> b]
    ELSE LET size == 2 + PayloadLen(b)
             more == Feed[SubSeq(b, size + 1, Len(b))]
         IN  [packets |-> <<SubSeq(b, 3, size)>> \o more.packets, rest |-> more.rest]

\* Mutated form: at most one packet is taken out of a read.
FeedOnce(b) ==
    IF Oversize(b) \/ ~HasFrame(b) THEN Feed[b]
    ELSE LET size == 2 + PayloadLen(b)
         IN  [packets |-> <<SubSeq(b, 3, size)>>, rest |-> SubSeq(b, size + 1, Len(b))]

Fed(b) == Feed[b]

-----------------------------------------------------------------------------
(* Sockets.                                                                *)

Alive == cOpen /\ sSock # "closed" /\ ~broken

\* Mutated form: what was written stays in the buffer too.
WriteKeeping(d, bytes, n) ==
    /\ net' = [net EXCEPT ![d] = @ \o SubSeq(bytes, 1, n)]
    /\ snd' = [snd EXCEPT ![d] = bytes]

\* The first n of these bytes are written, the others stay in sendBuffer.
Write(d, bytes, n) ==
    /\ net' = [net EXCEPT ![d] = @ \o SubSeq(bytes, 1, n)]
    /\ snd' = [snd EXCEPT ![d] = SubSeq(bytes, n + 1, Len(bytes))]

Smaller(a, b) == IF a < b THEN a ELSE b

\* How much one send() may take; none if the kernel has no room (WouldBlock).
Takes(d, bytes) ==
    LET room == Smaller(Len(bytes), PipeBytes - Len(net[d]))
    IN  IF room > 0 THEN 1 .. room ELSE {0}

\* The bound on what a model's sender may leave unsent.
WithinBound(d, bytes) == Len(bytes) <= SendBound + PipeBytes - Len(net[d])

(* The client's send(); it keeps sendBuffer when the connection is lost.     *)
SendOnce(bytes) ==
    IF Alive THEN \E n \in Takes("up", bytes) : Write("up", bytes, n)
    ELSE snd' = [snd EXCEPT !["up"] = bytes] /\ UNCHANGED net

(* flushSendBuffer(): until all is written or the kernel is full; an error  *)
(* empties the buffer.                                                     *)
FlushSendBuffer(bytes) ==
    IF Alive THEN Write("down", bytes, Smaller(Len(bytes), PipeBytes - Len(net["down"])))
    ELSE snd' = [snd EXCEPT !["down"] = <<>>] /\ UNCHANGED net

\* Mutated form: the bytes of an unfinished frame survive disconnect().
ClientDisconnectKeepsBuffer ==
    /\ cOpen' = FALSE
    /\ snd' = [snd EXCEPT !["up"] = <<>>]
    /\ net' = [net EXCEPT !["down"] = <<>>]
    /\ UNCHANGED rcv

ClientDisconnect ==
    /\ cOpen' = FALSE
    /\ snd' = [snd EXCEPT !["up"] = <<>>]
    /\ rcv' = [rcv EXCEPT !["down"] = <<>>]
    /\ net' = [net EXCEPT !["down"] = <<>>]

ServerClose ==
    /\ sSock' = "closed"
    /\ snd' = [snd EXCEPT !["down"] = <<>>]
    /\ rcv' = [rcv EXCEPT !["up"] = <<>>]
    /\ net' = [net EXCEPT !["up"] = <<>>]

-----------------------------------------------------------------------------
LinkInit ==
    /\ end \in {"client", "relay"}
    /\ snd = Nothing /\ net = Nothing /\ rcv = Nothing /\ out = Nothing
    /\ cOpen = FALSE /\ sSock = "closed" /\ broken = FALSE
    /\ polling = {}

(* connect(), which disconnects first; the end of the last connection has   *)
(* been seen on both sides.                                                *)
Connect ==
    /\ ~cOpen /\ sSock = "closed"
    /\ cOpen' = TRUE /\ sSock' = "backlog" /\ broken' = FALSE
    /\ snd' = [snd EXCEPT !["up"] = <<>>]
    /\ net' = Nothing
    /\ out' = Nothing
    /\ UNCHANGED <<end, rcv, polling>>

(* poll() accepts the connection and gives the descriptor new buffers.       *)
Accept ==
    /\ sSock = "backlog"
    /\ sSock' = "open"
    /\ snd' = [snd EXCEPT !["down"] = <<>>]
    /\ rcv' = [rcv EXCEPT !["up"] = <<>>]
    /\ out' = Nothing
    /\ UNCHANGED <<end, net, cOpen, broken, polling>>

(* sendPacket() of NetStreamClient, not from a handler; nothing is added of a *)
(* packet that is too large.                                               *)
ClientSend(p) ==
    /\ end = "client" /\ cOpen /\ "client" \notin polling
    /\ WithinBound("up", snd["up"] \o encodeFrame(p))
    /\ SendOnce(snd["up"] \o encodeFrame(p))
    /\ out' = Nothing
    /\ UNCHANGED <<ends, rcv, polling>>

(* The relay's handler of a WebSocket message, whatever size it has.         *)
RelayForwards(p) ==
    /\ end = "relay" /\ cOpen
    /\ WithinBound("up", snd["up"] \o writeFrame(p))
    /\ SendOnce(snd["up"] \o writeFrame(p))
    /\ out' = Nothing
    /\ UNCHANGED <<ends, rcv, polling>>

(* sendToPeer(), from a handler or the main loop; too large is not sent.     *)
ServerSend(p) ==
    /\ sSock = "open" /\ Fits(p)
    /\ WithinBound("down", snd["down"] \o encodeFrame(p))
    /\ FlushSendBuffer(snd["down"] \o encodeFrame(p))
    /\ out' = Nothing
    /\ UNCHANGED <<ends, rcv, polling>>

(* One recv() of a poll() loop, and the packet handlers for what it makes   *)
(* complete.                                                               *)
Receive(d) ==
    /\ Receiving(d) /\ net[d] # <<>>
    /\ \E n \in 1 .. Smaller(ChunkBytes, Len(net[d])) :
         LET fed == Fed(rcv[d] \o SubSeq(net[d], 1, n))
         IN  /\ rcv' = [rcv EXCEPT ![d] = fed.rest]
             /\ net' = [net EXCEPT ![d] = SubSeq(@, n + 1, Len(@))]
             /\ out' = [Nothing EXCEPT ![d] = fed.packets]
    /\ polling' = polling \cup {Receiver(d)}
    /\ UNCHANGED <<ends, snd>>

(* As Receive, where the client's handler calls disconnect(): the packets    *)
(* taken out of this read are all given to the handler all the same.         *)
ReceiveAndDisconnect ==
    /\ cOpen /\ end = "client" /\ net["down"] # <<>>
    /\ \E n \in 1 .. Smaller(ChunkBytes, Len(net["down"])) :
         LET fed == Fed(rcv["down"] \o SubSeq(net["down"], 1, n))
         IN  fed.packets # <<>> /\ out' = [Nothing EXCEPT !["down"] = fed.packets]
    /\ ClientDisconnect
    /\ polling' = polling \ {"client"}
    /\ UNCHANGED <<end, sSock, broken>>

\* Mutated form: poll() of the client does not send what is left.
ClientDoneNoFlush ==
    /\ "client" \in polling /\ net["down"] = <<>> /\ Alive
    /\ polling' = polling \ {"client"}
    /\ out' = Nothing
    /\ UNCHANGED <<ends, buffers>>

(* recv() would block: the loop ends and what is left of sendBuffer is sent. *)
ClientDone ==
    /\ "client" \in polling /\ net["down"] = <<>> /\ Alive
    /\ IF snd["up"] = <<>> THEN UNCHANGED <<snd, net>> ELSE SendOnce(snd["up"])
    /\ polling' = polling \ {"client"}
    /\ out' = Nothing
    /\ UNCHANGED <<ends, rcv>>

ServerDone ==
    /\ "server" \in polling /\ net["up"] = <<>> /\ Alive
    /\ FlushSendBuffer(snd["down"])
    /\ polling' = polling \ {"server"}
    /\ out' = Nothing
    /\ UNCHANGED <<ends, rcv>>

(* The relay's socket writes on as soon as there is room.                    *)
RelayWrites ==
    /\ end = "relay" /\ cOpen /\ snd["up"] # <<>> /\ Alive
    /\ Len(net["up"]) < PipeBytes
    /\ SendOnce(snd["up"])
    /\ out' = Nothing
    /\ UNCHANGED <<ends, rcv, polling>>

(* recv() reports the end or an error, or the end decides to leave.          *)
ClientCloses ==
    /\ cOpen
    /\ ClientDisconnect
    /\ polling' = polling \ {"client"}
    /\ out' = Nothing
    /\ UNCHANGED <<end, sSock, broken>>

ServerCloses ==
    /\ sSock = "open"
    /\ ServerClose
    /\ polling' = polling \ {"server"}
    /\ out' = Nothing
    /\ UNCHANGED <<end, cOpen, broken>>

(* The bytes under way are lost, and neither end has been told.              *)
Break ==
    /\ Breaks
    /\ cOpen \/ sSock # "closed"
    /\ ~broken
    /\ broken' = TRUE
    /\ net' = Nothing
    /\ sSock' = IF sSock = "backlog" THEN "closed" ELSE sSock
    /\ out' = Nothing
    /\ UNCHANGED <<end, snd, rcv, cOpen, polling>>

LinkNext ==
    \/ Connect \/ Accept
    \/ \E p \in Payloads : ClientSend(p) \/ ServerSend(p)
    \/ \E p \in BrowserPackets : RelayForwards(p)
    \/ \E d \in Dirs : Receive(d)
    \/ ReceiveAndDisconnect
    \/ ClientDone \/ ServerDone \/ RelayWrites
    \/ ClientCloses \/ ServerCloses \/ Break

LinkSpec == LinkInit /\ [][LinkNext]_linkVars

(* Both ends poll again and again and, reading faster than the other writes, *)
(* find nothing left again and again; the server, which broadcasts ten       *)
(* times a second or more, goes on sending to a player.                      *)
FairLinkSpec ==
    /\ LinkSpec
    /\ WF_linkVars(Accept)
    /\ \A d \in Dirs : WF_linkVars(Receive(d)) /\ SF_linkVars(Receive(d) /\ net'[d] = <<>>)
    /\ SF_linkVars(ClientDone) /\ SF_linkVars(ServerDone) /\ WF_linkVars(RelayWrites)
    /\ SF_linkVars(\E p \in Payloads : ServerSend(p))

-----------------------------------------------------------------------------
(* Properties.                                                             *)

LinkTypeOK ==
    /\ end \in {"client", "relay"}
    /\ \A d \in Dirs :
         snd[d] \in Bytes /\ net[d] \in Bytes /\ rcv[d] \in Bytes /\ out[d] \in Seq(Bytes)
    /\ cOpen \in BOOLEAN /\ broken \in BOOLEAN
    /\ sSock \in {"closed", "backlog", "open"}
    /\ polling \subseteq {"client", "server"}

(* The packets of a direction that are under way, and can still arrive.      *)
Queue(d) ==
    IF broken \/ (IF d = "up" THEN sSock = "closed" ELSE ~cOpen) THEN <<>>
    ELSE Feed[rcv[d] \o net[d] \o snd[d]].packets

(* However the bytes are cut, and over any number of connections between the *)
(* same two ends, packets come out whole, unchanged, in order, and never in  *)
(* a later connection; one too large for sendPacket() or sendToPeer() does   *)
(* not go out, and disturbs nothing.                                        *)
Fifo == INSTANCE PacketFifo WITH
    Packets <- {p \in Payloads : Fits(p)},
    queue <- [d \in Dirs |-> Queue(d)]

IsPacketFifo == Fifo!FifoSpec

(* Bytes no frame accounts for never arise: while both ends are there, the   *)
(* buffers and the connection together hold whole frames.                    *)
WholeFrames ==
    Alive => \A d \in Dirs : Feed[rcv[d] \o net[d] \o snd[d]].rest = <<>>

(* The receiver never sits on a packet that is complete.                     *)
NoPacketWaits == \A d \in Dirs : ~HasFrame(rcv[d])

(* A packet on its way arrives or the connection ends, although the client   *)
(* sends its left-over bytes only after it has received something.           *)
PacketsGetThrough ==
    \A d \in Dirs : (Alive /\ Queue(d) # <<>>) ~> (out[d] # <<>> \/ ~Alive)
=============================================================================
