----------------------------- MODULE EnetProofs -----------------------------
(***************************************************************************)
(* Proofs about EnetSession, for any number of peers, connections, packets   *)
(* and addresses: what the game was told of an end of a connection is what    *)
(* ENet has there, the events are those of PeerEvents, and the server's game   *)
(* hears of no connection before the client's.                               *)
(***************************************************************************)
EXTENDS EnetSession, TLAPS

(***************************************************************************)
(* Types.  A connect carries the id of an attempt, which is never zero.       *)
(***************************************************************************)
CommandNames == {"CONNECT", "VERIFY_CONNECT", "ACKNOWLEDGE", "DISCONNECT", "SEND_RELIABLE"}

AnyCommand ==
    [cmd : CommandNames, ch : Nat, seq : Nat, acked : BOOLEAN,
     connectID : Nat, slot : Int, inS : Int, outS : Int]

Commands == {c \in AnyCommand : c.cmd = "CONNECT" => c.connectID \in Attempts}

Peers ==
    [state : States, connectID : Nat, address : Nat, outgoingPeerID : Int,
     inS : Int, outS : Int, controlSeq : Nat, outSeq : Nat, inSeq : Nat,
     queued : SUBSET Commands, sent : SUBSET Commands, dispatched : Seq(Nat \X Nat)]

AnyDatagram == [to : Nat, from : Nat, slot : Int, session : Int, command : Commands]

Types ==
    /\ peer \in [Ends -> Peers] /\ net \subseteq AnyDatagram
    /\ here \in Nat /\ attempt \in Nat /\ open \in [Ends -> Nat]

(***************************************************************************)
(* What holds at every end, between its peer p and the attempt o the game     *)
(* knows of.                                                                *)
(***************************************************************************)
PeerOK(p, o) ==
    /\ p.state # "DISCONNECTED" => p.connectID \in Attempts
    /\ o # 0 => /\ p.connectID = o
                /\ p.state \notin {"DISCONNECTED", "CONNECTING", "ACKNOWLEDGING_CONNECT"}
    /\ p.state \in {"CONNECTED", "DISCONNECTING", "ACKNOWLEDGING_DISCONNECT"} => o # 0

EnetInv == Types /\ \A e \in Ends : PeerOK(peer[e], open[e])

-----------------------------------------------------------------------------
(* The operators on peers and commands.                                     *)

LEMMA FirstIsAnAddress == FirstAddress \in Addresses
BY SessionAssumption DEF FirstAddress

LEMMA NewCommand ==
    ASSUME NEW cmd \in CommandNames \ {"CONNECT"}, NEW ch \in Nat, NEW seq \in Nat,
           NEW acked \in BOOLEAN
    PROVE  Command(cmd, ch, seq, acked) \in Commands
BY DEF Command, Commands, AnyCommand, NoPeer, FreshId

LEMMA FreshPeer ==
    ASSUME NEW p \in Peers
    PROVE  /\ Reset(p) \in Peers /\ Reset(p).state = "DISCONNECTED"
           /\ Unconnected \in Peers /\ Unconnected.state = "DISCONNECTED"
<1>1. Unconnected \in Peers
  BY DEF Unconnected, Peers, States, Server, NoPeer, FreshId
<1>2. QED
  BY <1>1 DEF Reset, Peers, Unconnected

LEMMA EmptyQueues ==
    ASSUME NEW p \in Peers
    PROVE  /\ ResetQueues(p) \in Peers
           /\ ResetQueues(p).state = p.state /\ ResetQueues(p).connectID = p.connectID
           /\ ResetQueues(p).queued = {}
<1>1. ResetQueues(p) = [p EXCEPT !.queued = {}, !.sent = {}, !.dispatched = <<>>,
                                 !.outSeq = 0, !.inSeq = 0]
  BY DEF ResetQueues
<1>2. {} \in SUBSET Commands /\ <<>> \in Seq(Nat \X Nat) /\ 0 \in Nat
  OBVIOUS
<1>3. ResetQueues(p) \in Peers
  BY <1>1, <1>2 DEF Peers
<1>4. ResetQueues(p).state = p.state /\ ResetQueues(p).connectID = p.connectID
  BY <1>1 DEF Peers
<1>5. ResetQueues(p).queued = {}
  BY <1>1 DEF Peers
<1>6. QED
  BY <1>3, <1>4, <1>5

LEMMA ControlQueued ==
    ASSUME NEW p \in Peers, NEW cmd \in CommandNames, NEW acked \in BOOLEAN,
           NEW c \in AnyCommand, cmd = "CONNECT" => c.connectID \in Attempts
    PROVE  /\ QueueControl(p, cmd, acked, c) \in Peers
           /\ QueueControl(p, cmd, acked, c).state = p.state
           /\ QueueControl(p, cmd, acked, c).connectID = p.connectID
<1> DEFINE n == [c EXCEPT !.cmd = cmd, !.ch = Control, !.acked = acked, !.seq = p.controlSeq + 1]
<1>1. p.controlSeq + 1 \in Nat /\ p.queued \subseteq Commands
  BY DEF Peers
<1>2. n \in AnyCommand /\ n.cmd = cmd /\ n.connectID = c.connectID
  <2>1. Control \in Nat
    BY DEF Control
  <2>2. QED
    BY <1>1, <2>1 DEF AnyCommand
<1>3. n \in Commands
  BY <1>2 DEF Commands
<1>4. QueueControl(p, cmd, acked, c)
          = [p EXCEPT !.controlSeq = p.controlSeq + 1, !.queued = p.queued \union {n}]
  BY DEF QueueControl
<1>5. QED
  BY <1>1, <1>3, <1>4 DEF Peers

LEMMA PacketQueued ==
    ASSUME NEW p \in Peers
    PROVE  /\ PeerSend(p) \in Peers
           /\ PeerSend(p).state = p.state /\ PeerSend(p).connectID = p.connectID
<1> DEFINE n == [Command("SEND_RELIABLE", 0, p.outSeq + 1, TRUE) EXCEPT !.connectID = p.connectID]
<1>1. p.outSeq + 1 \in Nat /\ p.queued \subseteq Commands /\ p.connectID \in Nat
  BY DEF Peers
<1>2. n \in Commands
  <2> DEFINE k == Command("SEND_RELIABLE", 0, p.outSeq + 1, TRUE)
  <2>1. k \in Commands /\ k.cmd = "SEND_RELIABLE"
    BY <1>1, NewCommand DEF CommandNames, Command
  <2>2. n \in AnyCommand /\ n.cmd = "SEND_RELIABLE"
    BY <1>1, <2>1 DEF Commands, AnyCommand
  <2>3. QED
    BY <2>2 DEF Commands
<1>3. PeerSend(p) = [p EXCEPT !.outSeq = p.outSeq + 1, !.queued = p.queued \union {n}]
  BY DEF PeerSend
<1>4. QED
  BY <1>1, <1>2, <1>3 DEF Peers

LEMMA PeerDisconnected ==
    ASSUME NEW p \in Peers
    PROVE  /\ Disconnect(p) \in Peers
           /\ Disconnect(p).state = "DISCONNECTING" /\ Disconnect(p).connectID = p.connectID
<1> DEFINE c == Command("DISCONNECT", Control, 0, TRUE)
           q == QueueControl(ResetQueues(p), "DISCONNECT", TRUE, c)
<1>1. c \in AnyCommand
  BY NewCommand DEF CommandNames, Control, Commands
<1>2. q \in Peers /\ q.connectID = p.connectID
  <2>1. ResetQueues(p) \in Peers /\ ResetQueues(p).connectID = p.connectID
    BY EmptyQueues
  <2>2. "DISCONNECT" \in CommandNames /\ "DISCONNECT" # "CONNECT"
    BY DEF CommandNames
  <2>3. QED
    BY <1>1, <2>1, <2>2, ControlQueued
<1>3. Disconnect(p) = [q EXCEPT !.state = "DISCONNECTING"]
  BY DEF Disconnect
<1>4. QED
  BY <1>2, <1>3 DEF Peers, States

LEMMA DatagramsTyped ==
    ASSUME NEW e \in Ends, NEW p \in Peers, NEW cs \in SUBSET Commands, here \in Nat
    PROVE  Datagrams(e, p, cs) \subseteq AnyDatagram
BY DEF Datagrams, AnyDatagram, AddressOf, Server, Peers, FreshId

-----------------------------------------------------------------------------
(* A step changes one end, and the game hears of that end or of none.          *)

LEMMA OneEnd ==
    ASSUME EnetInv, NEW e \in Ends, NEW p \in Peers, NEW o \in Nat,
           peer' = [peer EXCEPT ![e] = p], open' = [open EXCEPT ![e] = o], PeerOK(p, o),
           net' \subseteq AnyDatagram, here' \in Nat, attempt' \in Nat
    PROVE  EnetInv'
<1>1. peer' \in [Ends -> Peers] /\ open' \in [Ends -> Nat]
  BY DEF EnetInv, Types
<1>2. ASSUME NEW f \in Ends PROVE PeerOK(peer'[f], open'[f])
  <2>1. CASE f = e
    BY <2>1 DEF EnetInv, Types
  <2>2. CASE f # e
    BY <2>2 DEF EnetInv, Types
  <2>3. QED
    BY <2>1, <2>2
<1>3. QED
  BY <1>1, <1>2 DEF EnetInv, Types, PeerOK

LEMMA OneEndSilent ==
    ASSUME EnetInv, NEW e \in Ends, NEW p \in Peers,
           peer' = [peer EXCEPT ![e] = p], open' = open, PeerOK(p, open[e]),
           net' \subseteq AnyDatagram, here' \in Nat, attempt' \in Nat
    PROVE  EnetInv'
<1>1. open[e] \in Nat /\ open' = [open EXCEPT ![e] = open[e]]
  BY DEF EnetInv, Types
<1>2. QED
  BY <1>1, OneEnd

(* What is known of an end before the step.                                  *)
LEMMA AtEnd ==
    ASSUME EnetInv, NEW e \in Ends
    PROVE  /\ peer[e] \in Peers /\ open[e] \in Nat /\ PeerOK(peer[e], open[e])
           /\ net \subseteq AnyDatagram /\ here \in Nat /\ attempt \in Nat
           /\ peer[e].connectID \in Nat /\ peer[e].state \in States
           /\ Client \in Ends
BY DEF EnetInv, Types, Peers, Ends

LEMMA InNet ==
    ASSUME EnetInv, NEW m \in net
    PROVE  /\ m.command \in Commands /\ m.command \in AnyCommand /\ m.from \in Nat
           /\ m.command.ch \in Nat /\ m.command.seq \in Nat /\ m.command.connectID \in Nat
           /\ m.command.slot \in Int /\ m.command.inS \in Int /\ m.command.outS \in Int
           /\ m.command.cmd = "CONNECT" => m.command.connectID \in Attempts
BY DEF EnetInv, Types, AnyDatagram, Commands, AnyCommand

(* A peer that is free, when nothing is open there any more.                   *)
LEMMA FreedOK == ASSUME NEW p \in Peers PROVE PeerOK(Reset(p), 0)
BY FreshPeer DEF PeerOK

LEMMA FlushTyped ==
    ASSUME EnetInv, NEW e \in Ends, NEW p \in Peers, Flush(e, p)
    PROVE  \E q \in Peers : /\ peer' = [peer EXCEPT ![e] = q]
                           /\ q.state = p.state /\ q.connectID = p.connectID
                           /\ net' \subseteq AnyDatagram
<1> DEFINE q == [p EXCEPT !.queued = {}, !.sent = @ \union {c \in p.queued : c.acked}]
<1>1. q \in Peers
  BY DEF Peers
<1>2. q.state = p.state /\ q.connectID = p.connectID
  BY DEF Peers
<1>3. net' \subseteq AnyDatagram
  <2>1. p.queued \in SUBSET Commands /\ here \in Nat
    BY AtEnd DEF Peers
  <2>2. Datagrams(e, p, p.queued) \subseteq AnyDatagram
    BY <2>1, DatagramsTyped
  <2>3. QED
    BY <2>2, AtEnd DEF Flush
<1>4. peer' = [peer EXCEPT ![e] = q]
  BY DEF Flush
<1>5. QED
  BY <1>1, <1>2, <1>3, <1>4

LEMMA AcknowledgeTyped ==
    ASSUME EnetInv, NEW e \in Ends, NEW p \in Peers, NEW c \in Commands, Acknowledge(e, p, c)
    PROVE  peer' = [peer EXCEPT ![e] = p] /\ net' \subseteq AnyDatagram
<1>1. c.ch \in Nat /\ c.seq \in Nat
  BY DEF Commands, AnyCommand
<1>2. Command("ACKNOWLEDGE", c.ch, c.seq, FALSE) \in Commands
  BY <1>1, NewCommand DEF CommandNames
<1>3. here \in Nat /\ net \subseteq AnyDatagram
  BY AtEnd
<1>4. Datagrams(e, p, {Command("ACKNOWLEDGE", c.ch, c.seq, FALSE)}) \subseteq AnyDatagram
  BY <1>2, <1>3, DatagramsTyped
<1>5. QED
  BY <1>3, <1>4 DEF Acknowledge

(* A peer is dropped: the game is told unless it never knew of it.               *)
LEMMA NotifyKeepsInv ==
    ASSUME EnetInv, NEW e \in Ends, NotifyDisconnect(e), peer[e].state # "DISCONNECTED",
           UNCHANGED <<here, attempt, net>>
    PROVE  EnetInv'
<1>1. Reset(peer[e]) \in Peers /\ PeerOK(Reset(peer[e]), 0)
  BY AtEnd, FreshPeer, FreedOK
<1>2. CASE peer[e].state \in {"ACKNOWLEDGING_CONNECT", "CONNECTING"}
  <2>1. open[e] = 0 /\ open' = open
    BY <1>2, AtEnd DEF NotifyDisconnect, PeerOK, seen
  <2>2. QED
    BY <1>1, <2>1, OneEndSilent, AtEnd DEF NotifyDisconnect
<1>3. CASE peer[e].state \notin {"ACKNOWLEDGING_CONNECT", "CONNECTING"}
  BY <1>1, <1>3, OneEnd, AtEnd DEF NotifyDisconnect, DisconnectEvent
<1>4. QED
  BY <1>2, <1>3

-----------------------------------------------------------------------------
(* Receiving.                                                              *)

(* A free peer is taken for a connection from an address.                       *)
LEMMA PeerTaken ==
    ASSUME NEW p \in Peers, NEW id \in Nat, NEW from \in Nat, NEW s \in Int
    PROVE  [p EXCEPT !.state = "ACKNOWLEDGING_CONNECT", !.connectID = id, !.address = from,
                     !.outgoingPeerID = 0, !.outS = s, !.inS = s] \in Peers
<1>1. [p EXCEPT !.state = "ACKNOWLEDGING_CONNECT", !.connectID = id, !.address = from] \in Peers
  BY DEF Peers, States
<1>2. ASSUME NEW q \in Peers
      PROVE  [q EXCEPT !.outgoingPeerID = 0, !.outS = s, !.inS = s] \in Peers
  <2>1. [q EXCEPT !.outgoingPeerID = 0] \in Peers
    <3>1. ASSUME NEW i \in Int PROVE [q EXCEPT !.outgoingPeerID = i] \in Peers
      BY DEF Peers
    <3>2. QED
      BY <3>1
  <2>2. ASSUME NEW r \in Peers PROVE [r EXCEPT !.outS = s, !.inS = s] \in Peers
    BY DEF Peers
  <2>3. QED
    BY <2>1, <2>2
<1>3. QED
  BY <1>1, <1>2

LEMMA ConnectKeepsInv ==
    ASSUME EnetInv, NEW q \in Slots, NEW m \in net, HandleConnect(q, m)
    PROVE  EnetInv'
<1> DEFINE c == m.command
           ids == NextId(peer[q].outS)
           p == [peer[q] EXCEPT !.state = "ACKNOWLEDGING_CONNECT", !.connectID = c.connectID,
                                !.address = m.from, !.outgoingPeerID = 0,
                                !.outS = ids, !.inS = ids]
           v == [c EXCEPT !.slot = q, !.inS = ids, !.outS = ids]
           new == QueueControl(p, "VERIFY_CONNECT", TRUE, v)
<1>1. q \in Ends /\ q \in Int
  BY SessionAssumption DEF Ends, Slots
<1>2. /\ peer[q] \in Peers /\ peer[q].state = "DISCONNECTED" /\ c.connectID \in Attempts
      /\ c \in AnyCommand /\ m.from \in Nat /\ c.connectID \in Nat
  BY <1>1, AtEnd, InNet DEF HandleConnect
<1>3. ids \in Int
  BY <1>2 DEF NextId, SessionIds, Peers
<1>4. p \in Peers /\ p.state = "ACKNOWLEDGING_CONNECT" /\ p.connectID = c.connectID
  <2>1. "ACKNOWLEDGING_CONNECT" \in States
    BY DEF States
  <2>2. p \in Peers
    BY <1>2, <1>3, PeerTaken
  <2>3. p.state = "ACKNOWLEDGING_CONNECT"
    BY <1>2 DEF Peers
  <2>4. p.connectID = c.connectID
    BY <1>2 DEF Peers
  <2>5. QED
    BY <2>2, <2>3, <2>4
<1>5. v \in AnyCommand
  BY <1>1, <1>2, <1>3 DEF AnyCommand
<1>6. new \in Peers /\ new.state = "ACKNOWLEDGING_CONNECT" /\ new.connectID = c.connectID
  <2>1. "VERIFY_CONNECT" \in CommandNames /\ "VERIFY_CONNECT" # "CONNECT"
    BY DEF CommandNames
  <2>2. QED
    BY <1>4, <1>5, <2>1, ControlQueued
<1>7. peer' = [peer EXCEPT ![q] = new]
  BY DEF HandleConnect
<1>8. open[q] = 0
  BY <1>1, <1>2, AtEnd DEF PeerOK
<1>9. PeerOK(new, open[q])
  BY <1>2, <1>6, <1>8 DEF PeerOK
<1>10. open' = open /\ net' = net /\ here' = here /\ attempt' = attempt
  BY DEF HandleConnect
<1>11. QED
  BY <1>1, <1>6, <1>7, <1>9, <1>10, OneEndSilent, AtEnd

LEMMA VerifyKeepsInv ==
    ASSUME EnetInv, NEW e \in Ends, NEW m \in net, HandleVerifyConnect(e, m)
    PROVE  EnetInv'
<1> DEFINE p == peer[e]
           c == m.command
<1>0. /\ p \in Peers /\ PeerOK(p, open[e]) /\ c \in Commands /\ p.connectID \in Nat
      /\ here' = here /\ attempt' = attempt /\ 0 \notin Attempts
  BY AtEnd, InNet DEF HandleVerifyConnect, Attempts
<1>1. CASE p.state # "CONNECTING"
  <2>1. Acknowledge(e, p, c) /\ open' = open
    BY <1>1 DEF HandleVerifyConnect, seen
  <2>2. QED
    BY <1>0, <2>1, AcknowledgeTyped, OneEndSilent, AtEnd
<1>2. CASE p.state = "CONNECTING" /\ Verifies(p, c)
  <2> DEFINE new == [p EXCEPT !.state = "CONNECTED", !.outgoingPeerID = c.slot,
                              !.inS = c.inS, !.outS = c.outS,
                              !.sent = {s \in @ : s.cmd # "CONNECT"}]
  <2>1. Acknowledge(e, new, c) /\ ConnectEvent(e, p.connectID)
    BY <1>2 DEF HandleVerifyConnect
  <2>2. new \in Peers /\ new.state = "CONNECTED" /\ new.connectID = p.connectID
    <3>1. c.slot \in Int /\ c.inS \in Int /\ c.outS \in Int
      BY InNet
    <3>2. QED
      BY <1>0, <3>1 DEF Peers, States
  <2>3. PeerOK(new, p.connectID)
    BY <1>0, <1>2, <2>2 DEF PeerOK
  <2>4. peer' = [peer EXCEPT ![e] = new] /\ net' \subseteq AnyDatagram
    BY <1>0, <2>1, <2>2, AcknowledgeTyped
  <2>5. open' = [open EXCEPT ![e] = p.connectID]
    BY <2>1 DEF ConnectEvent
  <2>6. QED
    BY <1>0, <2>2, <2>3, <2>4, <2>5, OneEnd, AtEnd
<1>3. CASE p.state = "CONNECTING" /\ ~Verifies(p, c)
  <2> DEFINE new == [p EXCEPT !.state = "ZOMBIE"]
  <2>1. new \in Peers /\ new.state = "ZOMBIE" /\ new.connectID = p.connectID
    BY <1>0 DEF Peers, States
  <2>2. PeerOK(new, open[e])
    BY <1>0, <1>3, <2>1 DEF PeerOK
  <2>3. peer' = [peer EXCEPT ![e] = new] /\ net' = net /\ open' = open
    BY <1>3 DEF HandleVerifyConnect
  <2>4. QED
    BY <1>0, <2>1, <2>2, <2>3, OneEndSilent, AtEnd
<1>4. QED
  BY <1>1, <1>2, <1>3

LEMMA AcknowledgeKeepsInv ==
    ASSUME EnetInv, NEW e \in Ends, NEW m \in net, HandleAcknowledge(e, m)
    PROVE  EnetInv'
<1> DEFINE p == peer[e]
           done == {c \in p.sent : c.ch = m.command.ch /\ c.seq = m.command.seq}
           rest == [p EXCEPT !.sent = @ \ done]
           up == [rest EXCEPT !.state = "CONNECTED"]
<1>0. /\ p \in Peers /\ PeerOK(p, open[e]) /\ p.connectID \in Nat
      /\ here' = here /\ attempt' = attempt /\ net' = net /\ p.state # "DISCONNECTED"
      /\ 0 \notin Attempts
  BY AtEnd DEF HandleAcknowledge, Accepts, Attempts
<1>1. rest \in Peers /\ rest.state = p.state /\ rest.connectID = p.connectID
  BY <1>0 DEF Peers
<1>2. up \in Peers /\ up.state = "CONNECTED" /\ up.connectID = p.connectID
  BY <1>1 DEF Peers, States
<1>3. CASE Completes(p, done)
  <2>1. peer' = [peer EXCEPT ![e] = up] /\ ConnectEvent(e, p.connectID)
    BY <1>3 DEF HandleAcknowledge
  <2>2. PeerOK(up, p.connectID)
    BY <1>0, <1>2 DEF PeerOK
  <2>3. open' = [open EXCEPT ![e] = p.connectID]
    BY <2>1 DEF ConnectEvent
  <2>4. QED
    BY <1>0, <1>2, <2>1, <2>2, <2>3, OneEnd, AtEnd
<1>4. CASE NotifyDisconnect(e)
  BY <1>0, <1>4, NotifyKeepsInv
<1>5. CASE peer' = [peer EXCEPT ![e] = rest] /\ UNCHANGED seen
  <2>1. PeerOK(rest, open[e]) /\ open' = open
    BY <1>0, <1>1, <1>5 DEF PeerOK, seen
  <2>2. QED
    BY <1>0, <1>1, <1>5, <2>1, OneEndSilent, AtEnd
<1>6. QED
  BY <1>3, <1>4, <1>5 DEF HandleAcknowledge

LEMMA DisconnectKeepsInv ==
    ASSUME EnetInv, NEW e \in Ends, NEW m \in net, HandleDisconnect(e, m)
    PROVE  EnetInv'
<1> DEFINE p == peer[e]
           c == m.command
           r == ResetQueues(p)
           new == AfterDisconnect(p, c)
<1>0. /\ p \in Peers /\ PeerOK(p, open[e]) /\ p.state \in States \ {"DISCONNECTED", "ZOMBIE"}
      /\ peer' = [peer EXCEPT ![e] = new]
      /\ here' = here /\ attempt' = attempt /\ net' = net /\ open' = open
  BY AtEnd DEF HandleDisconnect, Accepts
<1>1. r \in Peers /\ r.connectID = p.connectID
  BY <1>0, EmptyQueues
<1>2. ASSUME NEW s \in States \ {"DISCONNECTED"}
      PROVE  /\ [r EXCEPT !.state = s] \in Peers
             /\ [r EXCEPT !.state = s].state = s /\ [r EXCEPT !.state = s].connectID = p.connectID
  BY <1>1 DEF Peers
<1>3. CASE p.state = "ACKNOWLEDGING_DISCONNECT"
  BY <1>0, <1>3, OneEndSilent, AtEnd DEF AfterDisconnect
<1>4. CASE p.state \in {"DISCONNECTING", "CONNECTING"}
  <2>1. new = [r EXCEPT !.state = "ZOMBIE"] /\ "ZOMBIE" \in States \ {"DISCONNECTED"}
    BY <1>4 DEF AfterDisconnect, States
  <2>2. new \in Peers /\ PeerOK(new, open[e])
    BY <1>0, <1>2, <1>4, <2>1 DEF PeerOK
  <2>3. QED
    BY <1>0, <2>2, OneEndSilent, AtEnd
<1>5. CASE p.state = "ACKNOWLEDGING_CONNECT"
  <2>1. new = Reset(p) /\ open[e] = 0
    BY <1>0, <1>5 DEF AfterDisconnect, PeerOK
  <2>2. QED
    BY <1>0, <2>1, FreshPeer, FreedOK, OneEndSilent, AtEnd
<1>6. CASE p.state = "CONNECTED"
  <2>1. PICK s \in {"ACKNOWLEDGING_DISCONNECT", "ZOMBIE"} : new = [r EXCEPT !.state = s]
    BY <1>6 DEF AfterDisconnect
  <2>2. s \in States \ {"DISCONNECTED"}
    BY DEF States
  <2>3. new \in Peers /\ PeerOK(new, open[e])
    BY <1>0, <1>2, <1>6, <2>1, <2>2 DEF PeerOK
  <2>4. QED
    BY <1>0, <2>3, OneEndSilent, AtEnd
<1>7. QED
  BY <1>0, <1>3, <1>4, <1>5, <1>6 DEF States

LEMMA PacketKeepsInv ==
    ASSUME EnetInv, NEW e \in Ends, NEW m \in net, HandleSendReliable(e, m)
    PROVE  EnetInv'
<1> DEFINE p == peer[e]
           c == m.command
           next == [p EXCEPT !.inSeq = c.seq, !.dispatched = Append(@, <<c.connectID, c.seq>>)]
           new == IF Dispatches(p, c) THEN next ELSE p
<1>0. /\ p \in Peers /\ PeerOK(p, open[e]) /\ c \in Commands
      /\ c.seq \in Nat /\ c.connectID \in Nat
      /\ here' = here /\ attempt' = attempt /\ open' = open
      /\ Acknowledge(e, new, c)
  BY AtEnd, InNet DEF HandleSendReliable
<1>1. next \in Peers /\ next.state = p.state /\ next.connectID = p.connectID
  <2>1. <<c.connectID, c.seq>> \in Nat \X Nat /\ p.dispatched \in Seq(Nat \X Nat)
    BY <1>0 DEF Peers
  <2>2. Append(p.dispatched, <<c.connectID, c.seq>>) \in Seq(Nat \X Nat)
    BY <2>1
  <2>3. QED
    BY <1>0, <2>2 DEF Peers
<1>2. new \in Peers /\ PeerOK(new, open[e])
  BY <1>0, <1>1 DEF PeerOK
<1>3. QED
  BY <1>0, <1>2, AcknowledgeTyped, OneEndSilent, AtEnd

-----------------------------------------------------------------------------
(* Sending, timeouts, the dispatch queue and the game.                        *)

LEMMA ServiceKeepsInv ==
    ASSUME EnetInv, NEW e \in Ends, Service(e)
    PROVE  EnetInv'
<1> DEFINE p == peer[e]
<1>0. p \in Peers /\ PeerOK(p, open[e])
  BY AtEnd
<1>1. CASE Receive(e)
  BY <1>1, VerifyKeepsInv, AcknowledgeKeepsInv, DisconnectKeepsInv, PacketKeepsInv DEF Receive
<1>2. CASE SendOutgoing(e)
  <2>1. Flush(e, p) /\ here' = here /\ attempt' = attempt /\ open' = open
    BY <1>2 DEF SendOutgoing
  <2>2. PICK q \in Peers : /\ peer' = [peer EXCEPT ![e] = q] /\ net' \subseteq AnyDatagram
                          /\ q.state = p.state /\ q.connectID = p.connectID
    BY <1>0, <2>1, FlushTyped
  <2>3. PeerOK(q, open[e])
    BY <1>0, <2>2 DEF PeerOK
  <2>4. QED
    BY <2>1, <2>2, <2>3, OneEndSilent, AtEnd
<1>3. CASE AcknowledgeDisconnect(e)
  <2> DEFINE new == [p EXCEPT !.state = "ZOMBIE"]
  <2>1. PICK m \in net : /\ p.state = "ACKNOWLEDGING_DISCONNECT"
                        /\ peer' = [peer EXCEPT ![e] = new]
                        /\ net' = net \union Datagrams(e, p,
                               {Command("ACKNOWLEDGE", Control, m.command.seq, FALSE)})
                        /\ here' = here /\ attempt' = attempt /\ open' = open
    BY <1>3 DEF AcknowledgeDisconnect
  <2>2. Command("ACKNOWLEDGE", Control, m.command.seq, FALSE) \in Commands
    BY InNet, NewCommand DEF CommandNames, Control
  <2>3. net' \subseteq AnyDatagram
    BY <1>0, <2>1, <2>2, DatagramsTyped, AtEnd
  <2>4. new \in Peers /\ PeerOK(new, open[e])
    BY <1>0, <2>1 DEF Peers, States, PeerOK
  <2>5. QED
    BY <2>1, <2>3, <2>4, OneEndSilent, AtEnd
<1>4. CASE CheckTimeouts(e)
  BY <1>4, NotifyKeepsInv DEF CheckTimeouts
<1>5. CASE DispatchReceive(e)
  <2> DEFINE new == [p EXCEPT !.dispatched = Tail(@)]
  <2>1. /\ peer' = [peer EXCEPT ![e] = new] /\ p.dispatched # <<>>
        /\ here' = here /\ attempt' = attempt /\ open' = open /\ net' = net
    BY <1>5 DEF DispatchReceive
  <2>2. Tail(p.dispatched) \in Seq(Nat \X Nat)
    BY <1>0, <2>1 DEF Peers
  <2>3. new \in Peers /\ new.state = p.state /\ new.connectID = p.connectID
    BY <1>0, <2>2 DEF Peers
  <2>4. PeerOK(new, open[e])
    BY <1>0, <2>3 DEF PeerOK
  <2>5. QED
    BY <2>1, <2>3, <2>4, OneEndSilent, AtEnd
<1>6. CASE DispatchDisconnect(e)
  <2>1. /\ peer' = [peer EXCEPT ![e] = Reset(p)]
        /\ here' = here /\ attempt' = attempt /\ net' = net
    BY <1>6 DEF DispatchDisconnect
  <2>2. Reset(p) \in Peers /\ PeerOK(Reset(p), 0)
    BY <1>0, FreshPeer, FreedOK
  <2>3. CASE open[e] = 0
    BY <1>6, <2>1, <2>2, <2>3, OneEndSilent, AtEnd DEF DispatchDisconnect, seen
  <2>4. CASE open[e] # 0
    BY <1>6, <2>1, <2>2, <2>4, OneEnd, AtEnd DEF DispatchDisconnect, DisconnectEvent
  <2>5. QED
    BY <2>3, <2>4
<1>7. QED
  BY <1>1, <1>2, <1>3, <1>4, <1>5, <1>6 DEF Service

LEMMA SendsKeepsInv ==
    ASSUME EnetInv, NEW e \in Ends, Sends(e)
    PROVE  EnetInv'
<1> DEFINE p == PeerSend(peer[e])
<1>1. Flush(e, p) /\ here' = here /\ attempt' = attempt /\ open' = open
  BY DEF Sends, Give
<1>2. p \in Peers /\ p.state = peer[e].state /\ p.connectID = peer[e].connectID
  BY AtEnd, PacketQueued
<1>3. PICK q \in Peers : /\ peer' = [peer EXCEPT ![e] = q] /\ net' \subseteq AnyDatagram
                        /\ q.state = p.state /\ q.connectID = p.connectID
  BY <1>1, <1>2, FlushTyped
<1>4. PeerOK(q, open[e])
  BY <1>2, <1>3, AtEnd DEF PeerOK
<1>5. QED
  BY <1>1, <1>3, <1>4, OneEndSilent, AtEnd

LEMMA ConnectingKeepsInv ==
    ASSUME EnetInv, ClientConnects
    PROVE  EnetInv'
<1> DEFINE p == [Unconnected EXCEPT !.state = "CONNECTING", !.connectID = attempt + 1]
           c == [Command("CONNECT", Control, 0, TRUE) EXCEPT !.connectID = attempt + 1]
           new == QueueControl(p, "CONNECT", TRUE, c)
<1>1. /\ peer[Client] \in Peers /\ peer[Client].state = "DISCONNECTED" /\ open[Client] = 0
      /\ Client \in Ends /\ attempt \in Nat /\ attempt + 1 \in Attempts
  <2>1. Client \in Ends /\ peer[Client].state = "DISCONNECTED"
    BY AtEnd, SessionAssumption DEF ClientConnects, Ends
  <2>2. peer[Client] \in Peers /\ PeerOK(peer[Client], open[Client]) /\ attempt \in Nat
    BY <2>1, AtEnd
  <2>3. open[Client] = 0
    BY <2>1, <2>2 DEF PeerOK
  <2>4. attempt + 1 \in Attempts
    BY <2>2, SessionAssumption DEF ClientConnects, Attempts
  <2>5. QED
    BY <2>1, <2>2, <2>3, <2>4
<1>2. p \in Peers /\ p.state = "CONNECTING" /\ p.connectID = attempt + 1
  <2>1. Unconnected \in Peers /\ "CONNECTING" \in States /\ attempt + 1 \in Nat
    BY <1>1, FreshPeer DEF States
  <2>2. p \in Peers
    BY <2>1 DEF Peers
  <2>3. p.state = "CONNECTING"
    BY <2>1 DEF Peers
  <2>4. p.connectID = attempt + 1
    BY <2>1 DEF Peers
  <2>5. QED
    BY <2>2, <2>3, <2>4
<1>3. c \in AnyCommand /\ c.connectID \in Attempts
  <2>1. Command("CONNECT", Control, 0, TRUE) \in AnyCommand
    BY DEF Command, AnyCommand, CommandNames, Control, NoPeer, FreshId
  <2>2. c.connectID = attempt + 1
    BY <2>1 DEF AnyCommand
  <2>3. c \in AnyCommand
    <3>1. ASSUME NEW k \in AnyCommand, NEW id \in Nat PROVE [k EXCEPT !.connectID = id] \in AnyCommand
      BY DEF AnyCommand
    <3>2. attempt + 1 \in Nat
      BY <1>1
    <3>3. QED
      BY <2>1, <3>1, <3>2, Zenon
  <2>4. QED
    BY <1>1, <2>2, <2>3
<1>4. new \in Peers /\ new.state = "CONNECTING" /\ new.connectID = attempt + 1
  BY <1>2, <1>3, ControlQueued DEF CommandNames
<1>5. /\ peer' = [peer EXCEPT ![Client] = new] /\ attempt' \in Nat /\ here' \in Nat
      /\ net' = net /\ open' = open
  BY <1>1, SessionAssumption, FirstIsAnAddress DEF ClientConnects
<1>6. PeerOK(new, open[Client])
  BY <1>1, <1>4 DEF PeerOK
<1>7. QED
  BY <1>1, <1>4, <1>5, <1>6, OneEndSilent, AtEnd

LEMMA ClientEndsKeepInv ==
    ASSUME EnetInv, ClientGivesUp \/ ClientDisconnects \/ ClientVanishes
    PROVE  EnetInv'
<1> DEFINE p == peer[Client]
<1>0. /\ Client \in Ends /\ p \in Peers /\ Reset(p) \in Peers /\ PeerOK(Reset(p), 0)
      /\ peer' = [peer EXCEPT ![Client] = Reset(p)] /\ here' = here /\ attempt' = attempt
  <2>1. Client \in Ends
    BY DEF Ends
  <2>2. p \in Peers
    BY <2>1, AtEnd
  <2>3. Reset(p) \in Peers /\ PeerOK(Reset(p), 0)
    BY <2>2, FreshPeer, FreedOK
  <2>4. peer' = [peer EXCEPT ![Client] = Reset(p)] /\ here' = here /\ attempt' = attempt
    BY DEF ClientGivesUp, ClientDisconnects, ClientVanishes
  <2>5. QED
    BY <2>1, <2>2, <2>3, <2>4
<1>1. CASE ClientGivesUp
  <2>1. open[Client] = 0 /\ open' = open /\ net' = net
    BY <1>0, <1>1, AtEnd DEF ClientGivesUp, PeerOK
  <2>2. QED
    BY <1>0, <2>1, OneEndSilent, AtEnd
<1>2. CASE ClientDisconnects
  <2> DEFINE bye == QueueControl(ResetQueues(p), "DISCONNECT", FALSE,
                                 Command("DISCONNECT", Control, 0, FALSE))
  <2>1. ResetQueues(p) \in Peers
    BY <1>0, EmptyQueues
  <2>2. Command("DISCONNECT", Control, 0, FALSE) \in AnyCommand
    BY NewCommand DEF CommandNames, Control, Commands
  <2>3. bye \in Peers
    BY <2>1, <2>2, ControlQueued DEF CommandNames
  <2>4. Datagrams(Client, bye, bye.queued) \subseteq AnyDatagram
    <3>1. bye.queued \in SUBSET Commands
      BY <2>3 DEF Peers
    <3>2. QED
      BY <1>0, <2>3, <3>1, DatagramsTyped, AtEnd
  <2>5. net' \subseteq AnyDatagram
    BY <1>0, <1>2, <2>4, AtEnd DEF ClientDisconnects
  <2>6. open' = [open EXCEPT ![Client] = 0]
    BY <1>2 DEF ClientDisconnects, DisconnectEvent
  <2>7. QED
    BY <1>0, <2>5, <2>6, OneEnd, AtEnd
<1>3. CASE ClientVanishes
  <2>1. open' = [open EXCEPT ![Client] = 0] /\ net' = net
    BY <1>3 DEF ClientVanishes, DisconnectEvent
  <2>2. QED
    BY <1>0, <2>1, OneEnd, AtEnd
<1>4. QED
  BY <1>1, <1>2, <1>3

LEMMA ServerEndsKeepInv ==
    ASSUME EnetInv, NEW q \in Slots, ServerCloses(q) \/ ServerKicks(q)
    PROVE  EnetInv'
<1> DEFINE p == peer[q]
<1>0. q \in Ends /\ p \in Peers /\ PeerOK(p, open[q]) /\ open[q] # 0
  BY AtEnd DEF Ends, ServerCloses, ServerKicks
<1>1. PICK r \in Peers : /\ peer' = [peer EXCEPT ![q] = Disconnect(r)]
                        /\ r.connectID = p.connectID
  <2>1. CASE ServerCloses(q)
    BY <1>0, <2>1 DEF ServerCloses
  <2>2. CASE ServerKicks(q)
    BY <1>0, <2>2, PacketQueued DEF ServerKicks
  <2>3. QED
    BY <2>1, <2>2
<1>2. /\ Disconnect(r) \in Peers /\ Disconnect(r).state = "DISCONNECTING"
      /\ Disconnect(r).connectID = p.connectID
  BY <1>1, PeerDisconnected
<1>3. PeerOK(Disconnect(r), open[q])
  BY <1>0, <1>2 DEF PeerOK
<1>4. open' = open /\ net' = net /\ here' = here /\ attempt' = attempt
  BY DEF ServerCloses, ServerKicks, Give
<1>5. QED
  BY <1>0, <1>1, <1>2, <1>3, <1>4, OneEndSilent, AtEnd

-----------------------------------------------------------------------------
LEMMA EnetInit == Init => EnetInv
<1> SUFFICES ASSUME Init PROVE EnetInv
  OBVIOUS
<1>1. Unconnected \in Peers /\ Unconnected.state = "DISCONNECTED"
  BY DEF Unconnected, Peers, States, Server, NoPeer, FreshId
<1>2. Types
  BY <1>1 DEF Init, Types, Server
<1>3. ASSUME NEW e \in Ends PROVE PeerOK(peer[e], open[e])
  BY <1>1 DEF Init, PeerOK
<1>4. QED
  BY <1>2, <1>3 DEF EnetInv

LEMMA EnetStep == EnetInv /\ [Next]_vars => EnetInv'
<1> SUFFICES ASSUME EnetInv, [Next]_vars PROVE EnetInv'
  OBVIOUS
<1>1. CASE ClientConnects
  BY <1>1, ConnectingKeepsInv
<1>2. CASE ClientGivesUp \/ ClientDisconnects \/ ClientVanishes
  BY <1>2, ClientEndsKeepInv
<1>3. CASE \E e \in Ends : Service(e) \/ Sends(e)
  BY <1>3, ServiceKeepsInv, SendsKeepsInv
<1>4. CASE \E q \in Slots : ServerCloses(q) \/ ServerKicks(q)
  BY <1>4, ServerEndsKeepInv
<1>5. CASE \E q \in Slots : \E m \in net : HandleConnect(q, m)
  BY <1>5, ConnectKeepsInv
<1>6. CASE UNCHANGED vars
  BY <1>6 DEF vars, EnetInv, Types, PeerOK
<1>7. QED
  BY <1>1, <1>2, <1>3, <1>4, <1>5, <1>6 DEF Next

(* The invariant in every reachable state.                                    *)
THEOREM EnetInvariant == Spec => []EnetInv
BY EnetInit, EnetStep, PTL DEF Spec

(* Every field of every peer and of every datagram keeps its type, and a connect *)
(* under way names an attempt that was made.                                   *)
THEOREM EnetTypes == Spec => []Types
<1>1. EnetInv => Types
  BY DEF EnetInv
<1>2. QED
  BY <1>1, EnetInvariant, PTL

(* Between CONNECT and DISCONNECT a peer is that of the connection the game was  *)
(* told of, and no connection is up that it was not told of.                    *)
THEOREM EventsAreTrue == Spec => []EventsMatchPeers
<1>1. EnetInv => EventsMatchPeers
  BY DEF EnetInv, EventsMatchPeers, PeerOK
<1>2. QED
  BY <1>1, EnetInvariant, PTL

-----------------------------------------------------------------------------
(***************************************************************************)
(* Connections and their datagrams.  A connection the server has accepted is  *)
(* known to others by its client's address and its session id: these two name *)
(* one peer of the server and one attempt.  Whether a peer still is in that    *)
(* connection or a VERIFY_CONNECT of it is under way, it is a claim.          *)
(***************************************************************************)
Live(e) == peer[e].state # "DISCONNECTED"

Claim(q) == <<peer[q].address, peer[q].outS, peer[q].connectID, q>>

Answered ==
    {<<d.to, d.session, d.command.connectID, d.command.slot>> :
        d \in {m \in net : m.command.cmd = "VERIFY_CONNECT"}}

Claims == Answered \union {Claim(q) : q \in {r \in Slots : Live(r)}}

ClaimsAgree ==
    /\ \A c, d \in Claims : c[1] = d[1] /\ c[2] = d[2] => c = d
    /\ \A c \in Claims, d \in net :
          d.to = c[1] /\ d.session = c[2] /\ d.command.cmd = "SEND_RELIABLE"
             => d.command.connectID = c[3]

(* The connections the client has used, by address and session: an attempt has *)
(* used one at most, and one that the server's game knows of is not under way  *)
(* a second time.                                                          *)
Uses ==
    {<<d.from, d.session>> : d \in {m \in net : m.from # Server /\ m.slot # NoPeer}}
    \union (IF peer[Client].outgoingPeerID # NoPeer THEN {<<here, peer[Client].outS>>} ELSE {})

UsesAgree ==
    /\ \A c, d \in Answered :
          <<c[1], c[2]>> \in Uses /\ <<d[1], d[2]>> \in Uses /\ c[3] = d[3] => c = d
    /\ \A c \in Answered : <<c[1], c[2]>> \in Uses => c[3] \in past["client"]
    /\ \A q \in Slots :
          peer[q].state = "ACKNOWLEDGING_CONNECT" /\ peer[q].connectID \in past["server"]
             => <<peer[q].address, peer[q].outS>> \notin Uses

(* A command a peer p of the end e has queued, when g packets were given.       *)
CommandOK(e, p, c, g) ==
    /\ c.cmd = "CONNECT" => e = Client /\ c.connectID = p.connectID
    /\ c.cmd = "VERIFY_CONNECT" => /\ e # Client /\ c.slot = e /\ c.connectID = p.connectID
                                   /\ c.inS = p.outS /\ c.outS = p.outS
    /\ c.cmd = "SEND_RELIABLE" => /\ c.connectID = p.connectID
                                  /\ c.seq <= g[HostOf(e)][p.connectID]

OtherHost(e) == IF e = Client THEN "server" ELSE "client"

(* The packets received, those the game has taken (t) and those it has not, are *)
(* the first ones of this connection.                                        *)
Delivered(e, p, g, t) ==
    /\ p.inSeq = Len(t) + Len(p.dispatched)
    /\ p.inSeq <= g[OtherHost(e)][p.connectID]
    /\ \A i \in 1 .. Len(p.dispatched) : p.dispatched[i] = <<p.connectID, Len(t) + i>>

(* The peer p of the end e, after n attempts, when the game has taken the       *)
(* packets t there.                                                         *)
EndOK(e, p, g, t, n) ==
    /\ p.state # "DISCONNECTED" => /\ p.connectID \in 1 .. n
                                   /\ p.outSeq <= g[HostOf(e)][p.connectID]
    /\ \A c \in p.queued : CommandOK(e, p, c, g)
    /\ p.state \in {"DISCONNECTED", "CONNECTING", "ACKNOWLEDGING_CONNECT"}
          => p.inSeq = 0 /\ p.dispatched = <<>>
    /\ p.state = "DISCONNECTED" => p.outSeq = 0 /\ p.queued = {}
    /\ p.state = "CONNECTED" => Delivered(e, p, g, t)

SlotOK(q) ==
    /\ peer[q].state # "CONNECTING"
    /\ Live(q) => /\ peer[q].outgoingPeerID = 0 /\ peer[q].inS = peer[q].outS
                  /\ peer[q].address \in Addresses

(* The client knows its peer at the server from the server's answer only.      *)
ClientOK ==
    LET p == peer[Client]
    IN  /\ p.state # "ACKNOWLEDGING_CONNECT"
        /\ p.state = "DISCONNECTED" => p.outgoingPeerID = NoPeer
        /\ p.state # "DISCONNECTED" =>
              here \in Addresses /\ p.address = Server /\ p.connectID = attempt
        /\ p.state = "CONNECTING" => p.outgoingPeerID = NoPeer /\ attempt \notin past["client"]
        /\ p.state \notin {"DISCONNECTED", "CONNECTING", "ZOMBIE"} => p.outgoingPeerID # NoPeer
        /\ p.outgoingPeerID # NoPeer =>
              /\ p.inS = p.outS /\ <<here, p.outS, attempt, p.outgoingPeerID>> \in Answered
              /\ attempt \in past["client"]

FromServer(d) ==
    /\ d.to \in Addresses /\ d.command.cmd # "CONNECT"
    /\ d.command.cmd = "VERIFY_CONNECT" =>
          d.command.slot \in Slots /\ d.command.inS = d.session /\ d.command.outS = d.session
    /\ d.command.cmd = "SEND_RELIABLE" =>
          /\ d.command.connectID \in Attempts
          /\ d.command.seq <= given["server"][d.command.connectID]

FromClient(d) ==
    /\ d.to = Server /\ d.from \in Addresses /\ d.command.cmd # "VERIFY_CONNECT"
    /\ d.command.cmd = "CONNECT" => d.command.connectID \in 1 .. attempt
    /\ d.slot # NoPeer =>
          \E c \in Answered :
              /\ c[1] = d.from /\ c[2] = d.session /\ c[4] = d.slot
              /\ d.command.cmd = "SEND_RELIABLE" =>
                    /\ d.command.connectID = c[3]
                    /\ d.command.seq <= given["client"][c[3]]

NetOK == \A d \in net : IF d.from = Server THEN FromServer(d) ELSE FromClient(d)

Counts ==
    /\ given \in [Hosts -> [Attempts -> Nat]] /\ past \in [Hosts -> SUBSET Nat]
    /\ taken \in [Ends -> Seq(Nat \X Nat)]
    /\ attempt <= MaxAttempts
    /\ past["client"] \subseteq 1 .. attempt /\ past["server"] \subseteq past["client"]

EndsOK == \A e \in Ends : EndOK(e, peer[e], given, taken[e], attempt)
AckingIsKnown == \A e \in Ends : peer[e].state = "ACKNOWLEDGING_DISCONNECT" => open[e] # 0
SlotsOK == \A q \in Slots : SlotOK(q)

LinkOK ==
    /\ EnetInv /\ Counts /\ EndsOK /\ AckingIsKnown /\ SlotsOK /\ ClientOK
    /\ NetOK /\ ClaimsAgree /\ UsesAgree

-----------------------------------------------------------------------------
(* What the operators do to the fields of a peer.                             *)

SameLink(p, r) ==
    /\ p.address = r.address /\ p.outgoingPeerID = r.outgoingPeerID
    /\ p.inS = r.inS /\ p.outS = r.outS /\ p.connectID = r.connectID

LEMMA ResetFields ==
    ASSUME NEW p \in Peers
    PROVE  /\ Reset(p) \in Peers /\ Reset(p).state = "DISCONNECTED"
           /\ Reset(p).outgoingPeerID = NoPeer /\ Reset(p).queued = {}
           /\ Reset(p).outSeq = 0 /\ Reset(p).inSeq = 0 /\ Reset(p).dispatched = <<>>
BY FreshPeer DEF Reset, Unconnected, Peers

LEMMA EmptyQueuesFields ==
    ASSUME NEW p \in Peers
    PROVE  /\ ResetQueues(p) \in Peers /\ SameLink(ResetQueues(p), p)
           /\ ResetQueues(p).state = p.state /\ ResetQueues(p).queued = {}
           /\ ResetQueues(p).outSeq = 0 /\ ResetQueues(p).dispatched = <<>>
<1>1. ResetQueues(p) \in Peers
  BY EmptyQueues
<1>2. QED
  BY <1>1 DEF ResetQueues, Peers, SameLink

LEMMA ControlFields ==
    ASSUME NEW p \in Peers, NEW cmd, NEW acked, NEW c
    PROVE  /\ SameLink(QueueControl(p, cmd, acked, c), p)
           /\ QueueControl(p, cmd, acked, c).state = p.state
           /\ QueueControl(p, cmd, acked, c).outSeq = p.outSeq
           /\ QueueControl(p, cmd, acked, c).inSeq = p.inSeq
           /\ QueueControl(p, cmd, acked, c).dispatched = p.dispatched
BY DEF QueueControl, Peers, SameLink

LEMMA ControlQueue ==
    ASSUME NEW p \in Peers, NEW cmd \in CommandNames, NEW acked \in BOOLEAN,
           NEW c \in AnyCommand, NEW k \in QueueControl(p, cmd, acked, c).queued
    PROVE  \/ k \in p.queued
           \/ /\ k.cmd = cmd /\ k.connectID = c.connectID /\ k.slot = c.slot
              /\ k.inS = c.inS /\ k.outS = c.outS
<1> DEFINE n == [c EXCEPT !.cmd = cmd, !.ch = Control, !.acked = acked, !.seq = p.controlSeq + 1]
<1>1. /\ n.cmd = cmd /\ n.connectID = c.connectID /\ n.slot = c.slot
      /\ n.inS = c.inS /\ n.outS = c.outS
  BY DEF AnyCommand
<1>2. QueueControl(p, cmd, acked, c).queued = p.queued \union {n}
  BY DEF QueueControl, Peers
<1>3. QED
  BY <1>1, <1>2

LEMMA SendFields ==
    ASSUME NEW p \in Peers, NEW n, n = PeerSend(p)
    PROVE  /\ n \in Peers /\ SameLink(n, p) /\ n.state = p.state
           /\ n.outSeq = p.outSeq + 1 /\ n.inSeq = p.inSeq /\ n.dispatched = p.dispatched
           /\ \A k \in n.queued :
                \/ k \in p.queued
                \/ k.cmd = "SEND_RELIABLE" /\ k.connectID = p.connectID /\ k.seq = p.outSeq + 1
<1> DEFINE b == Command("SEND_RELIABLE", 0, p.outSeq + 1, TRUE)
           k == [b EXCEPT !.connectID = p.connectID]
<1>1. n \in Peers
  BY PacketQueued
<1>2. p.outSeq + 1 \in Nat /\ p.connectID \in Nat
  BY DEF Peers
<1>3. b \in AnyCommand /\ b.cmd = "SEND_RELIABLE" /\ b.seq = p.outSeq + 1
  BY <1>2, NewCommand DEF CommandNames, Command, Commands
<1> HIDE DEF b
<1>4. k \in AnyCommand /\ k.cmd = "SEND_RELIABLE" /\ k.seq = p.outSeq + 1 /\ k.connectID = p.connectID
  BY <1>2, <1>3 DEF AnyCommand
<1>5. k \in Commands
  BY <1>4 DEF Commands
<1>6. n = [p EXCEPT !.outSeq = p.outSeq + 1, !.queued = p.queued \union {k}]
  BY DEF PeerSend, b
<1> HIDE DEF k
<1>7. /\ SameLink(n, p) /\ n.state = p.state /\ n.outSeq = p.outSeq + 1 /\ n.inSeq = p.inSeq
      /\ n.dispatched = p.dispatched /\ n.queued = p.queued \union {k}
  BY <1>6 DEF Peers, SameLink
<1>8. QED
  BY <1>1, <1>4, <1>5, <1>7

LEMMA DisconnectFields ==
    ASSUME NEW p \in Peers, NEW n, n = Disconnect(p)
    PROVE  /\ n \in Peers /\ SameLink(n, p) /\ n.state = "DISCONNECTING"
           /\ n.outSeq = 0 /\ \A k \in n.queued : k.cmd = "DISCONNECT"
<1> DEFINE yes == TRUE
           c == Command("DISCONNECT", Control, 0, TRUE)
           r == ResetQueues(p)
           q == QueueControl(r, "DISCONNECT", yes, c)
<1>1. c \in AnyCommand
  BY NewCommand DEF CommandNames, Control, Commands
<1>2. r \in Peers /\ SameLink(r, p) /\ r.outSeq = 0 /\ r.queued = {}
  BY EmptyQueuesFields
<1>3. "DISCONNECT" \in CommandNames /\ "DISCONNECT" # "CONNECT" /\ yes \in BOOLEAN
  BY DEF CommandNames
<1>4. n = [q EXCEPT !.state = "DISCONNECTING"]
  BY DEF Disconnect
<1> HIDE DEF yes, c, r
<1>5. q \in Peers /\ SameLink(q, r) /\ q.outSeq = r.outSeq
  BY <1>1, <1>2, <1>3, ControlQueued, ControlFields
<1>6. \A k \in q.queued : k.cmd = "DISCONNECT"
  BY <1>1, <1>2, <1>3, ControlQueue
<1> HIDE DEF q
<1>7. n \in Peers /\ n.state = "DISCONNECTING" /\ n.outSeq = q.outSeq /\ n.queued = q.queued
  BY <1>4, <1>5 DEF Peers, States
<1>8. SameLink(n, q)
  BY <1>4, <1>5 DEF Peers, SameLink
<1>9. QED
  BY <1>2, <1>5, <1>6, <1>7, <1>8 DEF SameLink

-----------------------------------------------------------------------------
(* Steps of one end within its connection, or out of it: all but the three     *)
(* that begin one (HandleConnect, ClientConnects, a VERIFY_CONNECT awaited).    *)

MayBecome(s, t) ==
    \/ t \in {s, "DISCONNECTED", "ZOMBIE"}
    \/ s = "CONNECTED" /\ t \in {"DISCONNECTING", "ACKNOWLEDGING_DISCONNECT"}
    \/ s = "ACKNOWLEDGING_CONNECT" /\ t = "CONNECTED"

GivenGrows ==
    /\ given' \in [Hosts -> [Attempts -> Nat]]
    /\ \A h \in Hosts, a \in Attempts : given[h][a] <= given'[h][a]

\* What the game hears and does at the end e, which becomes p.
OnlyAt(e, p) ==
    /\ taken' \in [Ends -> Seq(Nat \X Nat)]
    /\ \A f \in Ends \ {e} : taken'[f] = taken[f] /\ open'[f] = open[f]
    /\ EndOK(e, p, given', taken'[e], attempt')
    /\ p.state = "ACKNOWLEDGING_DISCONNECT" => open'[e] # 0

\* The server's game is told of the connection of the end e, or neither game of any.
Told(e, p) ==
    \/ past' = past
    \/ /\ e \in Slots /\ peer[e].state = "ACKNOWLEDGING_CONNECT" /\ p.state = "CONNECTED"
       /\ <<peer[e].address, peer[e].outS>> \in Uses
       /\ peer[e].connectID \in past["client"]
       /\ past' = [past EXCEPT !["server"] = @ \union {peer[e].connectID}]

EndStep(e, p, cs) ==
    /\ Live(e) /\ p \in Peers /\ cs \subseteq Commands
    /\ peer' = [peer EXCEPT ![e] = p]
    /\ net' = net \union Datagrams(e, peer[e], cs)
    /\ here' = here /\ attempt' = attempt
    /\ MayBecome(peer[e].state, p.state)
    /\ IF p.state = "DISCONNECTED" THEN p.outgoingPeerID = NoPeer ELSE SameLink(p, peer[e])
    /\ \A c \in cs : CommandOK(e, peer[e], c, given')
    /\ GivenGrows /\ OnlyAt(e, p) /\ Told(e, p)

LEMMA EndGrows ==
    ASSUME Counts, GivenGrows, attempt \in Nat, attempt' \in Nat, attempt <= attempt',
           NEW e \in Ends, NEW p \in Peers, NEW t,
           EndOK(e, p, given, t, attempt)
    PROVE  EndOK(e, p, given', t, attempt')
<1>1. HostOf(e) \in Hosts /\ OtherHost(e) \in Hosts
  BY DEF HostOf, OtherHost, Hosts
<1>2. CASE p.state = "DISCONNECTED"
  BY <1>2 DEF EndOK
<1>3. CASE p.state # "DISCONNECTED"
  <2> DEFINE k == p.connectID
  <2>1. k \in 1 .. attempt /\ k \in 1 .. attempt' /\ k \in Attempts
    BY <1>3, SessionAssumption DEF EndOK, Counts, Attempts
  <2>2. /\ given[HostOf(e)][k] \in Nat /\ given'[HostOf(e)][k] \in Nat
        /\ given[HostOf(e)][k] <= given'[HostOf(e)][k]
        /\ given[OtherHost(e)][k] \in Nat /\ given'[OtherHost(e)][k] \in Nat
        /\ given[OtherHost(e)][k] <= given'[OtherHost(e)][k]
    BY <1>1, <2>1 DEF Counts, GivenGrows
  <2>3. p.outSeq \in Nat /\ p.inSeq \in Nat /\ p.queued \subseteq Commands
    BY DEF Peers
  <2>4. \A c \in p.queued : c.seq \in Nat
    BY <2>3 DEF Commands, AnyCommand
  <2>5. \A c \in p.queued : CommandOK(e, p, c, given')
    BY <2>2, <2>4 DEF EndOK, CommandOK
  <2>6. p.outSeq <= given'[HostOf(e)][k]
    BY <1>3, <2>2, <2>3 DEF EndOK
  <2>7. p.state = "CONNECTED" => Delivered(e, p, given', t)
    BY <2>2, <2>3 DEF EndOK, Delivered
  <2>8. QED
    BY <1>3, <2>1, <2>5, <2>6, <2>7 DEF EndOK
<1>4. QED
  BY <1>2, <1>3

LEMMA EndsKept ==
    ASSUME LinkOK, GivenGrows, attempt' \in Nat, attempt <= attempt',
           NEW e \in Ends, NEW p \in Peers, peer' = [peer EXCEPT ![e] = p], OnlyAt(e, p)
    PROVE  EndsOK' /\ AckingIsKnown'
<1>1. peer \in [Ends -> Peers] /\ attempt \in Nat /\ Counts
  BY DEF LinkOK, EnetInv, Types
<1>2. ASSUME NEW f \in Ends
      PROVE  /\ EndOK(f, peer'[f], given', taken'[f], attempt')
             /\ peer'[f].state = "ACKNOWLEDGING_DISCONNECT" => open'[f] # 0
  <2>1. CASE f = e
    BY <1>1, <2>1 DEF OnlyAt
  <2>2. CASE f # e
    <3>1. peer'[f] = peer[f] /\ taken'[f] = taken[f] /\ open'[f] = open[f] /\ peer[f] \in Peers
      BY <1>1, <2>2 DEF OnlyAt
    <3>2. EndOK(f, peer[f], given, taken[f], attempt)
      BY DEF LinkOK, EndsOK
    <3>3. EndOK(f, peer[f], given', taken[f], attempt')
      BY <1>1, <3>1, <3>2, EndGrows
    <3>4. QED
      BY <3>1, <3>3 DEF LinkOK, AckingIsKnown
  <2>3. QED
    BY <2>1, <2>2
<1>3. QED
  BY <1>2 DEF EndsOK, AckingIsKnown

(* A connection the client uses was answered.                                 *)
LEMMA UsesAnswered ==
    ASSUME LinkOK, NEW u \in Uses
    PROVE  \E c \in Answered : c[1] = u[1] /\ c[2] = u[2]
<1>1. CASE \E d \in net : d.from # Server /\ d.slot # NoPeer /\ u = <<d.from, d.session>>
  BY <1>1 DEF LinkOK, NetOK, FromClient
<1>2. CASE peer[Client].outgoingPeerID # NoPeer /\ u = <<here, peer[Client].outS>>
  BY <1>2 DEF LinkOK, ClientOK
<1>3. QED
  BY <1>1, <1>2 DEF Uses

(* A step of the server's peer q: the datagrams it sends are of its claim.      *)
LEMMA SlotSends ==
    ASSUME LinkOK, NEW q \in Slots, NEW p, NEW cs, EndStep(q, p, cs)
    PROVE  /\ q \in Ends /\ q # Client /\ Client \in Ends
           /\ net \subseteq net'
           /\ \A d \in net' : d \in net \/ /\ d.from = Server /\ d.to = peer[q].address
                                           /\ d.session = peer[q].outS /\ d.command \in cs
<1>1. q \in Ends /\ q # Client /\ Client \in Ends
  BY SessionAssumption DEF Slots, Ends, Client
<1>2. peer[q].outgoingPeerID = 0
  BY DEF LinkOK, SlotsOK, SlotOK, EndStep
<1>3. \A d \in Datagrams(q, peer[q], cs) :
          /\ d.from = Server /\ d.to = peer[q].address
          /\ d.session = peer[q].outS /\ d.command \in cs
  BY <1>1, <1>2 DEF Datagrams, AddressOf, NoPeer
<1>4. QED
  BY <1>1, <1>3 DEF EndStep

LEMMA SlotClaims ==
    ASSUME LinkOK, NEW q \in Slots, NEW p, NEW cs, EndStep(q, p, cs)
    PROVE  /\ Answered \subseteq Answered' /\ Answered' \subseteq Answered \union {Claim(q)}
           /\ Claims' \subseteq Claims /\ Claim(q) \in Claims
           /\ Uses' = Uses
<1>1. Claim(q) \in Claims
  BY DEF EndStep, Claims
<1>2. Answered \subseteq Answered'
  BY SlotSends DEF Answered
<1>3. Answered' \subseteq Answered \union {Claim(q)}
  <2> SUFFICES ASSUME NEW d \in net', d.command.cmd = "VERIFY_CONNECT", d \notin net
               PROVE  <<d.to, d.session, d.command.connectID, d.command.slot>> = Claim(q)
    BY DEF Answered
  <2>1. d.to = peer[q].address /\ d.session = peer[q].outS /\ d.command \in cs
    BY SlotSends
  <2>2. d.command.slot = q /\ d.command.connectID = peer[q].connectID
    BY <2>1 DEF EndStep, CommandOK
  <2>3. QED
    BY <2>1, <2>2 DEF Claim
<1>4. ASSUME NEW r \in Slots, Live(r)' PROVE Live(r) /\ Claim(r)' = Claim(r)
  <2>0. peer \in [Ends -> Peers] /\ r \in Ends
    BY DEF LinkOK, EnetInv, Types, Ends
  <2>1. CASE r = q
    BY <1>4, <2>0, <2>1 DEF EndStep, Live, SameLink, Claim
  <2>2. CASE r # q
    BY <1>4, <2>0, <2>2 DEF EndStep, Live, Claim
  <2>3. QED
    BY <2>1, <2>2
<1>5. Claims' \subseteq Claims
  BY <1>1, <1>3, <1>4 DEF Claims
<1>6. Uses' = Uses
  <2>1. peer'[Client] = peer[Client] /\ here' = here
    BY SlotSends DEF EndStep, LinkOK, EnetInv, Types
  <2>2. {m \in net' : m.from # Server /\ m.slot # NoPeer} = {m \in net : m.from # Server /\ m.slot # NoPeer}
    BY SlotSends
  <2>3. QED
    BY <2>1, <2>2 DEF Uses
<1>7. QED
  BY <1>1, <1>2, <1>3, <1>5, <1>6

LEMMA SlotNetKept ==
    ASSUME LinkOK, NEW q \in Slots, NEW p, NEW cs, EndStep(q, p, cs)
    PROVE  NetOK' /\ SlotsOK' /\ Counts' /\ ClientOK'
<1>0. /\ peer \in [Ends -> Peers] /\ Counts /\ attempt \in Nat /\ net \subseteq AnyDatagram
      /\ Server \notin Addresses
  BY SessionAssumption DEF LinkOK, EnetInv, Types
<1>1. Counts'
  <2>1. past' \in [Hosts -> SUBSET Nat] /\ past'["client"] = past["client"]
        /\ past'["server"] \subseteq past["client"]
    <3>1. CASE past' = past
      BY <1>0, <3>1 DEF Counts
    <3>2. CASE past' # past
      <4>1. /\ past' = [past EXCEPT !["server"] = @ \union {peer[q].connectID}]
            /\ peer[q].connectID \in past["client"]
        BY <3>2 DEF EndStep, Told
      <4>2. QED
        BY <1>0, <4>1 DEF Counts, Hosts
    <3>3. QED
      BY <3>1, <3>2
  <2>2. QED
    BY <1>0, <2>1 DEF Counts, EndStep, GivenGrows, OnlyAt
<1>2. SlotsOK'
  <2> SUFFICES ASSUME NEW r \in Slots PROVE SlotOK(r)'
    BY DEF SlotsOK
  <2>0. r \in Ends /\ SlotOK(r) /\ SlotOK(q)
    BY DEF LinkOK, SlotsOK, Ends
  <2>1. CASE r = q
    BY <1>0, <2>0, <2>1 DEF EndStep, SlotOK, SameLink, Live, MayBecome
  <2>2. CASE r # q
    BY <1>0, <2>0, <2>2 DEF EndStep, SlotOK, Live
  <2>3. QED
    BY <2>1, <2>2
<1>3. ASSUME NEW d \in net, d.from # Server PROVE FromClient(d)'
  <2>1. FromClient(d)
    BY <1>3 DEF LinkOK, NetOK
  <2>2. CASE d.slot = NoPeer
    BY <2>1, <2>2 DEF FromClient, EndStep
  <2>3. CASE d.slot # NoPeer
    <3>1. PICK c \in Answered : /\ c[1] = d.from /\ c[2] = d.session /\ c[4] = d.slot
                                /\ d.command.cmd = "SEND_RELIABLE" =>
                                      /\ d.command.connectID = c[3]
                                      /\ d.command.seq <= given["client"][c[3]]
      BY <2>1, <2>3 DEF FromClient
    <3>2. c \in Answered' /\ c[3] \in past["client"]
      <4>1. <<c[1], c[2]>> \in Uses
        BY <1>3, <2>3, <3>1 DEF Uses
      <4>2. QED
        BY <4>1, SlotClaims DEF LinkOK, UsesAgree
    <3>3. given["client"][c[3]] <= given'["client"][c[3]]
          /\ given["client"][c[3]] \in Nat /\ given'["client"][c[3]] \in Nat
      <4>1. c[3] \in Attempts /\ "client" \in Hosts
        BY <1>0, <3>2, SessionAssumption DEF Counts, Attempts, Hosts
      <4>2. QED
        BY <1>0, <4>1 DEF Counts, EndStep, GivenGrows
    <3>4. d.command.seq \in Nat
      BY <1>0 DEF AnyDatagram, Commands, AnyCommand
    <3>5. d.command.cmd = "SEND_RELIABLE" =>
              d.command.connectID = c[3] /\ d.command.seq <= given'["client"][c[3]]
      BY <3>1, <3>3, <3>4
    <3>6. QED
      BY <2>1, <3>1, <3>2, <3>5 DEF FromClient, EndStep
  <2>4. QED
    BY <2>2, <2>3
<1>4. ASSUME NEW d \in net, d.from = Server PROVE FromServer(d)'
  <2>1. FromServer(d) /\ d.command.seq \in Nat
    BY <1>0, <1>4 DEF LinkOK, NetOK, AnyDatagram, Commands, AnyCommand
  <2>2. d.command.cmd = "SEND_RELIABLE" => d.command.seq <= given'["server"][d.command.connectID]
    BY <1>0, <2>1 DEF FromServer, Counts, EndStep, GivenGrows, Hosts
  <2>3. QED
    BY <2>1, <2>2 DEF FromServer
<1>5. ASSUME NEW d \in net', d \notin net PROVE d.from = Server /\ FromServer(d)'
  <2>1. /\ d.from = Server /\ d.to = peer[q].address
        /\ d.session = peer[q].outS /\ d.command \in cs
    BY <1>5, SlotSends
  <2>2. CommandOK(q, peer[q], d.command, given')
    BY <2>1 DEF EndStep
  <2>3. peer[q].address \in Addresses /\ HostOf(q) = "server" /\ q # Client
    BY SlotSends DEF EndStep, LinkOK, SlotsOK, SlotOK, HostOf
  <2>4. peer[q].connectID \in Attempts
    <3>1. EndOK(q, peer[q], given, taken[q], attempt) /\ attempt <= MaxAttempts
      BY SlotSends DEF LinkOK, EndsOK, Counts
    <3>2. QED
      BY <1>0, <3>1, SessionAssumption DEF EndOK, EndStep, Live, Attempts
  <2>5. QED
    BY <2>1, <2>2, <2>3, <2>4 DEF CommandOK, FromServer
<1>6. NetOK'
  BY <1>3, <1>4, <1>5 DEF NetOK
<1>7. ClientOK'
  <2>1. peer'[Client] = peer[Client] /\ here' = here /\ attempt' = attempt
    BY <1>0, SlotSends DEF EndStep
  <2>2. past'["client"] = past["client"]
    BY <1>0 DEF EndStep, Told, Counts, Hosts
  <2>3. QED
    BY <2>1, <2>2, SlotClaims DEF LinkOK, ClientOK
<1>8. QED
  BY <1>1, <1>2, <1>6, <1>7

LEMMA SlotAgreementKept ==
    ASSUME LinkOK, NEW q \in Slots, NEW p, NEW cs, EndStep(q, p, cs)
    PROVE  ClaimsAgree' /\ UsesAgree'
<1>0. peer \in [Ends -> Peers] /\ ClaimsAgree /\ UsesAgree /\ Counts
  BY DEF LinkOK, EnetInv, Types
<1>1. ClaimsAgree'
  <2>1. ASSUME NEW c \in Claims', NEW d \in net', d.to = c[1], d.session = c[2],
               d.command.cmd = "SEND_RELIABLE"
        PROVE  d.command.connectID = c[3]
    <3>1. c \in Claims
      BY SlotClaims
    <3>2. CASE d \in net
      BY <1>0, <2>1, <3>1, <3>2 DEF ClaimsAgree
    <3>3. CASE d \notin net
      <4>1. d.to = peer[q].address /\ d.session = peer[q].outS /\ d.command \in cs
        BY <3>3, SlotSends
      <4>2. d.command.connectID = peer[q].connectID
        BY <2>1, <4>1 DEF EndStep, CommandOK
      <4>3. c = Claim(q)
        BY <1>0, <2>1, <3>1, <4>1, SlotClaims DEF ClaimsAgree, Claim
      <4>4. QED
        BY <4>2, <4>3 DEF Claim
    <3>4. QED
      BY <3>2, <3>3
  <2>2. \A c, d \in Claims' : c[1] = d[1] /\ c[2] = d[2] => c = d
    BY <1>0, SlotClaims DEF ClaimsAgree
  <2>3. \A c \in Claims', d \in net' :
            d.to = c[1] /\ d.session = c[2] /\ d.command.cmd = "SEND_RELIABLE"
              => d.command.connectID = c[3]
    BY <2>1
  <2>4. QED
    BY <2>2, <2>3 DEF ClaimsAgree
<1>2. ASSUME NEW c \in Answered', <<c[1], c[2]>> \in Uses' PROVE c \in Answered /\ <<c[1], c[2]>> \in Uses
  <2>1. <<c[1], c[2]>> \in Uses /\ c \in Claims /\ Answered \subseteq Claims
    BY <1>2, SlotClaims DEF Claims
  <2>2. PICK k \in Answered : k[1] = c[1] /\ k[2] = c[2]
    BY <2>1, UsesAnswered
  <2>3. k = c
    BY <1>0, <2>1, <2>2 DEF ClaimsAgree
  <2>4. QED
    BY <2>1, <2>2, <2>3
<1>3. ASSUME NEW r \in Slots, peer'[r].state = "ACKNOWLEDGING_CONNECT",
             peer'[r].connectID \in past'["server"],
             <<peer'[r].address, peer'[r].outS>> \in Uses'
      PROVE  FALSE
  <2>1. /\ peer[r].state = "ACKNOWLEDGING_CONNECT"
        /\ peer'[r].connectID = peer[r].connectID /\ peer'[r].address = peer[r].address
        /\ peer'[r].outS = peer[r].outS
    <3>1. r \in Ends
      BY DEF Ends
    <3>2. CASE r = q
      BY <1>0, <1>3, <3>1, <3>2 DEF EndStep, MayBecome, SameLink
    <3>3. CASE r # q
      BY <1>0, <1>3, <3>1, <3>3 DEF EndStep
    <3>4. QED
      BY <3>2, <3>3
  <2>2. <<peer[r].address, peer[r].outS>> \in Uses
    BY <1>3, <2>1, SlotClaims
  <2>3. peer[r].connectID \notin past["server"]
    BY <1>0, <2>1, <2>2 DEF UsesAgree
  <2>4. /\ peer[r].connectID = peer[q].connectID /\ p.state = "CONNECTED"
        /\ <<peer[q].address, peer[q].outS>> \in Uses
    BY <1>0, <1>3, <2>1, <2>3 DEF EndStep, Told, Counts, Hosts
  <2>5. r # q
    BY <1>0, <1>3, <2>4, SlotSends DEF EndStep
  <2>6. Claim(r) \in Claims /\ Claim(q) \in Claims
    BY <2>1, SlotClaims DEF Claims, Live
  <2>7. PICK c \in Answered : c[1] = peer[r].address /\ c[2] = peer[r].outS
    BY <2>2, UsesAnswered
  <2>8. PICK d \in Answered : d[1] = peer[q].address /\ d[2] = peer[q].outS
    BY <2>4, UsesAnswered
  <2>9. c = Claim(r) /\ d = Claim(q)
    BY <1>0, <2>6, <2>7, <2>8 DEF ClaimsAgree, Claims, Claim
  <2>10. c = d
    <3>1. c[3] = d[3]
      BY <2>4, <2>9 DEF Claim
    <3>2. QED
      BY <1>0, <2>2, <2>4, <2>7, <2>8, <3>1 DEF UsesAgree
  <2>11. QED
    BY <2>5, <2>9, <2>10 DEF Claim
<1>4. past["client"] \subseteq past'["client"]
  BY <1>0 DEF EndStep, Told, Counts, Hosts
<1>5. UsesAgree'
  BY <1>0, <1>2, <1>3, <1>4 DEF UsesAgree
<1>6. QED
  BY <1>1, <1>5

(* A step of the client: what it sends is of the connection it knows.          *)
LEMMA ClientSends ==
    ASSUME LinkOK, NEW p, NEW cs, EndStep(Client, p, cs)
    PROVE  /\ Client \in Ends /\ Client \notin Slots
           /\ net \subseteq net'
           /\ \A d \in net' :
                d \in net \/ /\ d.from = here /\ d.to = Server /\ d.command \in cs
                             /\ d.slot = peer[Client].outgoingPeerID
                             /\ d.slot # NoPeer => d.session = peer[Client].outS
           /\ here \in Addresses /\ here # Server
<1>1. Client \in Ends /\ Client \notin Slots
  BY SessionAssumption DEF Slots, Ends, Client
<1>2. here \in Addresses /\ here # Server /\ peer[Client].address = Server
  BY SessionAssumption DEF LinkOK, ClientOK, EndStep, Live
<1>3. \A d \in Datagrams(Client, peer[Client], cs) :
          /\ d.from = here /\ d.to = Server /\ d.command \in cs
          /\ d.slot = peer[Client].outgoingPeerID
          /\ d.slot # NoPeer => d.session = peer[Client].outS
  BY <1>2 DEF Datagrams, AddressOf
<1>4. QED
  BY <1>1, <1>2, <1>3 DEF EndStep

LEMMA ClientClaims ==
    ASSUME LinkOK, NEW p, NEW cs, EndStep(Client, p, cs)
    PROVE  /\ Answered' = Answered /\ Claims' = Claims /\ Uses' \subseteq Uses
           /\ past' = past /\ \A q \in Slots : peer'[q] = peer[q]
<1>0. peer \in [Ends -> Peers] /\ Slots \subseteq Ends
  BY DEF LinkOK, EnetInv, Types, Ends
<1>1. past' = past /\ \A q \in Slots : peer'[q] = peer[q]
  BY <1>0, ClientSends DEF EndStep, Told
<1>2. Answered' = Answered
  <2>1. ASSUME NEW d \in net', d \notin net PROVE d.command.cmd # "VERIFY_CONNECT"
    BY <2>1, ClientSends DEF EndStep, CommandOK
  <2>2. QED
    BY <2>1, ClientSends DEF Answered
<1>3. Claims' = Claims
  BY <1>1, <1>2 DEF Claims, Claim, Live
<1>4. Uses' \subseteq Uses
  <2>1. ASSUME NEW d \in net', d.from # Server, d.slot # NoPeer
        PROVE  <<d.from, d.session>> \in Uses
    BY <2>1, ClientSends DEF Uses
  <2>2. ASSUME peer'[Client].outgoingPeerID # NoPeer
        PROVE  <<here', peer'[Client].outS>> \in Uses
    <3>1. SameLink(p, peer[Client]) /\ peer'[Client] = p
      BY <1>0, <2>2, ClientSends DEF EndStep
    <3>2. QED
      BY <2>2, <3>1 DEF SameLink, Uses, EndStep
  <2>3. QED
    BY <2>1, <2>2 DEF Uses
<1>5. QED
  BY <1>1, <1>2, <1>3, <1>4

LEMMA ClientNetKept ==
    ASSUME LinkOK, NEW p, NEW cs, EndStep(Client, p, cs)
    PROVE  NetOK' /\ SlotsOK' /\ Counts' /\ ClientOK'
<1>0. /\ peer \in [Ends -> Peers] /\ Counts /\ attempt \in Nat /\ net \subseteq AnyDatagram
      /\ Server \notin Addresses
  BY SessionAssumption DEF LinkOK, EnetInv, Types
<1>1. Counts'
  BY <1>0, ClientClaims DEF Counts, EndStep, GivenGrows, OnlyAt
<1>2. SlotsOK'
  BY ClientClaims DEF LinkOK, SlotsOK, SlotOK, Live
<1>3. \A a \in Attempts : /\ given["client"][a] \in Nat /\ given'["client"][a] \in Nat
                          /\ given["client"][a] <= given'["client"][a]
                          /\ given["server"][a] \in Nat /\ given'["server"][a] \in Nat
                          /\ given["server"][a] <= given'["server"][a]
  BY <1>0 DEF Counts, EndStep, GivenGrows, Hosts
<1>4. ASSUME NEW d \in net, d.from # Server PROVE FromClient(d)'
  <2>1. FromClient(d) /\ d.command.seq \in Nat
    BY <1>0, <1>4 DEF LinkOK, NetOK, AnyDatagram, Commands, AnyCommand
  <2>2. ASSUME NEW c \in Answered, d.slot # NoPeer, c[1] = d.from, c[2] = d.session
        PROVE  c[3] \in Attempts
    <3>1. <<c[1], c[2]>> \in Uses
      BY <1>4, <2>2 DEF Uses
    <3>2. QED
      BY <1>0, <3>1, SessionAssumption DEF LinkOK, UsesAgree, Counts, Attempts
  <2>3. CASE d.slot = NoPeer
    BY <2>1, <2>3 DEF FromClient, EndStep
  <2>4. CASE d.slot # NoPeer
    <3>1. PICK c \in Answered : /\ c[1] = d.from /\ c[2] = d.session /\ c[4] = d.slot
                                /\ d.command.cmd = "SEND_RELIABLE" =>
                                      /\ d.command.connectID = c[3]
                                      /\ d.command.seq <= given["client"][c[3]]
      BY <2>1, <2>4 DEF FromClient
    <3>2. c \in Answered' /\ c[3] \in Attempts
      BY <2>2, <2>4, <3>1, ClientClaims
    <3>3. d.command.cmd = "SEND_RELIABLE" =>
              d.command.connectID = c[3] /\ d.command.seq <= given'["client"][c[3]]
      BY <1>3, <2>1, <3>1, <3>2
    <3>4. QED
      BY <2>1, <3>1, <3>2, <3>3 DEF FromClient, EndStep
  <2>5. QED
    BY <2>3, <2>4
<1>5. ASSUME NEW d \in net, d.from = Server PROVE FromServer(d)'
  <2>1. FromServer(d) /\ d.command.seq \in Nat
    BY <1>0, <1>5 DEF LinkOK, NetOK, AnyDatagram, Commands, AnyCommand
  <2>2. QED
    BY <1>3, <2>1 DEF FromServer
<1>6. ASSUME NEW d \in net', d \notin net PROVE d.from # Server /\ FromClient(d)'
  <2>1. /\ d.from = here /\ d.from \in Addresses /\ d.from # Server /\ d.to = Server /\ d.command \in cs
        /\ d.slot = peer[Client].outgoingPeerID
        /\ d.slot # NoPeer => d.session = peer[Client].outS
    BY <1>6, ClientSends
  <2>2. CommandOK(Client, peer[Client], d.command, given')
    BY <2>1 DEF EndStep
  <2>3. HostOf(Client) = "client" /\ peer[Client].connectID = attempt /\ attempt' = attempt
    BY DEF EndStep, LinkOK, ClientOK, HostOf, Live
  <2>4. attempt \in 1 .. attempt
    BY <2>3, ClientSends DEF LinkOK, EndsOK, EndOK, EndStep, Live
  <2>5. d.slot # NoPeer => <<here, peer[Client].outS, attempt, d.slot>> \in Answered'
    BY <2>1, ClientClaims DEF LinkOK, ClientOK
  <2>6. QED
    BY <2>1, <2>2, <2>3, <2>4, <2>5 DEF CommandOK, FromClient
<1>7. NetOK'
  BY <1>4, <1>5, <1>6 DEF NetOK
<1>8. ClientOK'
  <2>1. /\ here' = here /\ attempt' = attempt /\ past' = past /\ Answered' = Answered
        /\ peer'[Client] = p /\ Live(Client) /\ ClientOK
        /\ MayBecome(peer[Client].state, p.state)
    BY <1>0, ClientSends, ClientClaims DEF EndStep, LinkOK
  <2>2. CASE p.state = "DISCONNECTED"
    BY <2>1, <2>2 DEF ClientOK, EndStep
  <2>3. CASE p.state # "DISCONNECTED"
    <3>1. SameLink(p, peer[Client])
      BY <2>3 DEF EndStep
    <3>2. QED
      BY <2>1, <2>3, <3>1 DEF ClientOK, SameLink, MayBecome, Live
  <2>4. QED
    BY <2>2, <2>3
<1>9. QED
  BY <1>1, <1>2, <1>7, <1>8

LEMMA ClientAgreementKept ==
    ASSUME LinkOK, NEW p, NEW cs, EndStep(Client, p, cs)
    PROVE  ClaimsAgree' /\ UsesAgree'
<1>0. ClaimsAgree /\ UsesAgree
  BY DEF LinkOK
<1>1. ClaimsAgree'
  <2>1. ASSUME NEW c \in Claims, NEW d \in net', d \notin net PROVE d.to # c[1]
    <3>1. d.to = Server
      BY <2>1, ClientSends
    <3>2. c[1] \in Addresses
      BY DEF Claims, Answered, Claim, LinkOK, SlotsOK, SlotOK, NetOK, FromServer, FromClient
    <3>3. QED
      BY <3>1, <3>2, SessionAssumption
  <2>2. \A c \in Claims', d \in net' :
            d.to = c[1] /\ d.session = c[2] /\ d.command.cmd = "SEND_RELIABLE"
              => d.command.connectID = c[3]
    BY <1>0, <2>1, ClientClaims DEF ClaimsAgree
  <2>3. QED
    BY <1>0, <2>2, ClientClaims DEF ClaimsAgree
<1>2. UsesAgree'
  BY <1>0, ClientClaims DEF UsesAgree
<1>3. QED
  BY <1>1, <1>2

LEMMA EndStepKept ==
    ASSUME LinkOK, EnetInv', NEW e \in Ends, NEW p, NEW cs, EndStep(e, p, cs)
    PROVE  LinkOK'
<1>1. EndsOK' /\ AckingIsKnown'
  <2>1. /\ GivenGrows /\ p \in Peers /\ peer' = [peer EXCEPT ![e] = p] /\ OnlyAt(e, p)
        /\ attempt' = attempt
    BY DEF EndStep
  <2>2. attempt' \in Nat /\ attempt <= attempt'
    BY <2>1 DEF LinkOK, EnetInv, Types
  <2>3. QED
    BY <2>1, <2>2, EndsKept
<1>2. CASE e \in Slots
  BY <1>1, <1>2, SlotNetKept, SlotAgreementKept DEF LinkOK
<1>3. CASE e = Client
  BY <1>1, <1>3, ClientNetKept, ClientAgreementKept DEF LinkOK
<1>4. QED
  BY <1>2, <1>3 DEF Ends

-----------------------------------------------------------------------------
(* The server accepts a connect: a new claim, of an address and a session id    *)
(* that no datagram and no peer has.                                         *)
LEMMA AcceptedPeer ==
    ASSUME EnetInv, NEW q \in Slots, NEW m \in net, HandleConnect(q, m),
           NEW ids, ids = NextId(peer[q].outS)
    PROVE  \E n \in Peers :
              /\ peer' = [peer EXCEPT ![q] = n]
              /\ n.state = "ACKNOWLEDGING_CONNECT" /\ n.connectID = m.command.connectID
              /\ n.address = m.from /\ n.outgoingPeerID = 0 /\ n.outS = ids /\ n.inS = ids
              /\ n.outSeq = peer[q].outSeq /\ n.inSeq = peer[q].inSeq
              /\ n.dispatched = peer[q].dispatched
              /\ \A k \in n.queued :
                    \/ k \in peer[q].queued
                    \/ /\ k.cmd = "VERIFY_CONNECT" /\ k.slot = q
                       /\ k.connectID = m.command.connectID /\ k.inS = ids /\ k.outS = ids
<1> DEFINE yes == TRUE
           c == m.command
           p == [peer[q] EXCEPT !.state = "ACKNOWLEDGING_CONNECT", !.connectID = c.connectID,
                                !.address = m.from, !.outgoingPeerID = 0,
                                !.outS = ids, !.inS = ids]
           v == [c EXCEPT !.slot = q, !.inS = ids, !.outS = ids]
           n == QueueControl(p, "VERIFY_CONNECT", yes, v)
<1>1. q \in Ends /\ q \in Int
  BY SessionAssumption DEF Ends, Slots
<1>2. peer[q] \in Peers /\ c \in AnyCommand /\ m.from \in Nat /\ c.connectID \in Nat
  BY <1>1, AtEnd, InNet
<1>3. ids \in Int
  BY <1>2 DEF NextId, SessionIds, Peers
<1>4. peer' = [peer EXCEPT ![q] = n]
  BY DEF HandleConnect
<1>5. p \in Peers
  BY <1>2, <1>3, PeerTaken
<1>6. /\ p.state = "ACKNOWLEDGING_CONNECT" /\ p.connectID = c.connectID /\ p.address = m.from
      /\ p.outgoingPeerID = 0 /\ p.outS = ids /\ p.inS = ids
      /\ p.queued = peer[q].queued /\ p.outSeq = peer[q].outSeq /\ p.inSeq = peer[q].inSeq
      /\ p.dispatched = peer[q].dispatched
  BY <1>2 DEF Peers
<1>7. v \in AnyCommand /\ v.slot = q /\ v.inS = ids /\ v.outS = ids /\ v.connectID = c.connectID
  BY <1>1, <1>2, <1>3 DEF AnyCommand
<1>8. "VERIFY_CONNECT" \in CommandNames /\ "VERIFY_CONNECT" # "CONNECT" /\ yes \in BOOLEAN
  BY DEF CommandNames
<1> HIDE DEF yes, p, v
<1>9. n \in Peers
  BY <1>5, <1>7, <1>8, ControlQueued
<1>10. /\ SameLink(n, p) /\ n.state = p.state /\ n.outSeq = p.outSeq /\ n.inSeq = p.inSeq
       /\ n.dispatched = p.dispatched
  BY <1>5, ControlFields
<1>11. \A k \in n.queued : \/ k \in p.queued
                           \/ /\ k.cmd = "VERIFY_CONNECT" /\ k.connectID = v.connectID
                              /\ k.slot = v.slot /\ k.inS = v.inS /\ k.outS = v.outS
  BY <1>5, <1>7, <1>8, ControlQueue
<1> HIDE DEF n
<1>12. QED
  BY <1>4, <1>6, <1>7, <1>9, <1>10, <1>11 DEF SameLink

LEMMA ConnectKept ==
    ASSUME LinkOK, EnetInv', NEW q \in Slots, NEW m \in net, HandleConnect(q, m), ~idRepeated'
    PROVE  LinkOK'
<1> DEFINE ids == NextId(peer[q].outS)
           k == m.command.connectID
<1>0. /\ peer \in [Ends -> Peers] /\ attempt \in Nat /\ q \in Ends /\ Client \in Ends
      /\ q # Client /\ Slots \subseteq Ends
      /\ Counts /\ EndsOK /\ SlotsOK /\ ClientOK /\ NetOK /\ ClaimsAgree /\ UsesAgree /\ AckingIsKnown
      /\ EnetInv
  BY SessionAssumption DEF LinkOK, EnetInv, Types, Ends, Slots, Client
<1>1. /\ peer[q].state = "DISCONNECTED" /\ ~HadId(m.from, ids)
      /\ UNCHANGED <<here, attempt, net, open, taken, past, given>>
      /\ m.to = Server /\ m.command.cmd = "CONNECT"
  BY DEF HandleConnect
<1>2. PICK n \in Peers :
              /\ peer' = [peer EXCEPT ![q] = n]
              /\ n.state = "ACKNOWLEDGING_CONNECT" /\ n.connectID = k
              /\ n.address = m.from /\ n.outgoingPeerID = 0 /\ n.outS = ids /\ n.inS = ids
              /\ n.outSeq = peer[q].outSeq /\ n.inSeq = peer[q].inSeq
              /\ n.dispatched = peer[q].dispatched
              /\ \A c \in n.queued :
                    \/ c \in peer[q].queued
                    \/ /\ c.cmd = "VERIFY_CONNECT" /\ c.slot = q
                       /\ c.connectID = k /\ c.inS = ids /\ c.outS = ids
  BY <1>0, AcceptedPeer
<1> HIDE DEF ids, k
<1>3. m.from \in Addresses /\ k \in 1 .. attempt
  BY <1>0, <1>1, SessionAssumption DEF NetOK, FromServer, FromClient, k
<1>4. peer'[q] = n /\ \A r \in Ends \ {q} : peer'[r] = peer[r]
  BY <1>0, <1>2
<1>5. GivenGrows
  BY <1>0, <1>1 DEF GivenGrows, Counts
<1>6. EndOK(q, n, given', taken'[q], attempt')
  <2>1. EndOK(q, peer[q], given, taken[q], attempt)
    BY <1>0 DEF EndsOK
  <2>2. peer[q].queued = {} /\ n.outSeq = 0 /\ n.inSeq = 0 /\ n.dispatched = <<>>
    BY <1>1, <1>2, <2>1 DEF EndOK
  <2>3. \A c \in n.queued : CommandOK(q, n, c, given')
    BY <1>0, <1>2, <2>2 DEF CommandOK
  <2>4. 0 <= given'[HostOf(q)][k]
    <3>1. HostOf(q) \in Hosts /\ k \in Attempts
      BY <1>0, <1>3, SessionAssumption DEF Counts, HostOf, Hosts, Attempts
    <3>2. QED
      BY <1>5, <3>1 DEF GivenGrows
  <2>5. QED
    BY <1>1, <1>2, <1>3, <2>2, <2>3, <2>4 DEF EndOK
<1>7. EndsOK' /\ AckingIsKnown'
  <2>1. OnlyAt(q, n)
    BY <1>0, <1>1, <1>2, <1>6 DEF OnlyAt, Counts
  <2>2. attempt' \in Nat /\ attempt <= attempt'
    BY <1>0, <1>1
  <2>3. QED
    BY <1>0, <1>2, <1>5, <2>1, <2>2, EndsKept
<1>8. Counts'
  BY <1>0, <1>1 DEF Counts
<1>9. SlotsOK'
  BY <1>0, <1>2, <1>3, <1>4 DEF SlotsOK, SlotOK, Live
<1>10. Answered' = Answered
  BY <1>1 DEF Answered
<1>11. ClientOK' /\ Uses' = Uses
  BY <1>0, <1>1, <1>4, <1>10 DEF ClientOK, Uses
<1>12. NetOK'
  BY <1>0, <1>1, <1>10 DEF NetOK, FromServer, FromClient
<1>13. Claims' \subseteq Claims \union {Claim(q)'}
  BY <1>0, <1>4, <1>10 DEF Claims, Claim, Live
<1>14. Claim(q)' = <<m.from, ids, k, q>>
  BY <1>2, <1>4 DEF Claim
<1>15. \A c \in Claims : ~(c[1] = m.from /\ c[2] = ids)
  BY <1>1 DEF HadId, Claims, Answered, Claim
<1>16. ClaimsAgree'
  <2>1. \A c, d \in Claims' : c[1] = d[1] /\ c[2] = d[2] => c = d
    BY <1>0, <1>13, <1>14, <1>15 DEF ClaimsAgree
  <2>2. \A c \in Claims', d \in net' :
            d.to = c[1] /\ d.session = c[2] /\ d.command.cmd = "SEND_RELIABLE"
              => d.command.connectID = c[3]
    BY <1>0, <1>1, <1>13, <1>14 DEF ClaimsAgree, HadId
  <2>3. QED
    BY <2>1, <2>2 DEF ClaimsAgree
<1>17. UsesAgree'
  <2>1. <<m.from, ids>> \notin Uses
    BY <1>0, <1>15, UsesAnswered DEF Claims, LinkOK
  <2>2. \A r \in Slots :
            peer'[r].state = "ACKNOWLEDGING_CONNECT" /\ peer'[r].connectID \in past'["server"]
               => <<peer'[r].address, peer'[r].outS>> \notin Uses
    BY <1>0, <1>1, <1>2, <1>4, <2>1 DEF UsesAgree
  <2>3. QED
    BY <1>0, <1>1, <1>10, <1>11, <2>2 DEF UsesAgree
<1>18. QED
  BY <1>7, <1>8, <1>9, <1>11, <1>12, <1>16, <1>17 DEF LinkOK

(* The client begins an attempt: it knows of no peer at the server.            *)
LEMMA NewClientPeer ==
    ASSUME EnetInv, ClientConnects
    PROVE  \E n \in Peers :
              /\ peer' = [peer EXCEPT ![Client] = n]
              /\ n.state = "CONNECTING" /\ n.connectID = attempt + 1
              /\ n.address = Server /\ n.outgoingPeerID = NoPeer
              /\ n.outSeq = 0 /\ n.inSeq = 0 /\ n.dispatched = <<>>
              /\ \A k \in n.queued : k.cmd = "CONNECT" /\ k.connectID = attempt + 1
<1> DEFINE yes == TRUE
           p == [Unconnected EXCEPT !.state = "CONNECTING", !.connectID = attempt + 1]
           b == Command("CONNECT", Control, 0, TRUE)
           c == [b EXCEPT !.connectID = attempt + 1]
           n == QueueControl(p, "CONNECT", yes, c)
<1>1. attempt + 1 \in Nat /\ attempt + 1 \in Attempts /\ Unconnected \in Peers /\ "CONNECTING" \in States
  <2>1. attempt \in Nat
    BY DEF EnetInv, Types
  <2>2. Unconnected \in Peers
    BY DEF Unconnected, Peers, States, Server, NoPeer, FreshId
  <2>3. attempt + 1 \in Attempts
    BY <2>1, SessionAssumption DEF ClientConnects, Attempts
  <2>4. QED
    BY <2>1, <2>2, <2>3 DEF States
<1>2. p \in Peers
  BY <1>1 DEF Peers
<1>3. /\ p.state = "CONNECTING" /\ p.connectID = attempt + 1 /\ p.address = Server
      /\ p.outgoingPeerID = NoPeer /\ p.outSeq = 0 /\ p.inSeq = 0 /\ p.dispatched = <<>>
      /\ p.queued = {}
  BY DEF Unconnected
<1>4. b \in AnyCommand
  BY DEF Command, AnyCommand, CommandNames, Control, NoPeer, FreshId
<1> HIDE DEF b
<1>5. c \in AnyCommand /\ c.connectID = attempt + 1
  BY <1>1, <1>4 DEF AnyCommand
<1>6. "CONNECT" \in CommandNames /\ yes \in BOOLEAN
  BY DEF CommandNames
<1>7. peer' = [peer EXCEPT ![Client] = n]
  BY DEF ClientConnects, b
<1> HIDE DEF yes, p, c
<1>8. n \in Peers
  BY <1>1, <1>2, <1>5, <1>6, ControlQueued
<1>9. /\ SameLink(n, p) /\ n.state = p.state /\ n.outSeq = p.outSeq /\ n.inSeq = p.inSeq
      /\ n.dispatched = p.dispatched
  BY <1>2, ControlFields
<1>10. \A k \in n.queued : k.cmd = "CONNECT" /\ k.connectID = attempt + 1
  BY <1>2, <1>3, <1>5, <1>6, ControlQueue
<1> HIDE DEF n
<1>11. QED
  BY <1>3, <1>7, <1>8, <1>9, <1>10 DEF SameLink

LEMMA AttemptKept ==
    ASSUME LinkOK, EnetInv', ClientConnects
    PROVE  LinkOK'
<1>0. /\ peer \in [Ends -> Peers] /\ attempt \in Nat /\ Client \in Ends
      /\ Client \notin Slots /\ Slots \subseteq Ends
      /\ Counts /\ EndsOK /\ SlotsOK /\ ClientOK /\ NetOK /\ ClaimsAgree /\ UsesAgree /\ AckingIsKnown
      /\ EnetInv
  BY SessionAssumption DEF LinkOK, EnetInv, Types, Ends, Slots, Client
<1>1. /\ peer[Client].state = "DISCONNECTED" /\ attempt' = attempt + 1 /\ attempt + 1 <= MaxAttempts
      /\ here' \in Addresses /\ UNCHANGED <<net, open, taken, past, given>>
  BY <1>0, SessionAssumption, FirstIsAnAddress DEF ClientConnects
<1>2. PICK n \in Peers :
              /\ peer' = [peer EXCEPT ![Client] = n]
              /\ n.state = "CONNECTING" /\ n.connectID = attempt + 1
              /\ n.address = Server /\ n.outgoingPeerID = NoPeer
              /\ n.outSeq = 0 /\ n.inSeq = 0 /\ n.dispatched = <<>>
              /\ \A k \in n.queued : k.cmd = "CONNECT" /\ k.connectID = attempt + 1
  BY <1>0, NewClientPeer
<1>3. peer'[Client] = n /\ \A r \in Ends \ {Client} : peer'[r] = peer[r]
  BY <1>0, <1>2
<1>4. \A r \in Slots : peer'[r] = peer[r]
  BY <1>0, <1>3
<1>5. GivenGrows
  BY <1>0, <1>1 DEF GivenGrows, Counts
<1>6. EndOK(Client, n, given', taken'[Client], attempt')
  <2>1. \A c \in n.queued : CommandOK(Client, n, c, given')
    BY <1>2 DEF CommandOK
  <2>2. 0 <= given'[HostOf(Client)][attempt + 1]
    <3>1. HostOf(Client) \in Hosts /\ attempt + 1 \in Attempts
      BY <1>0, <1>1, SessionAssumption DEF HostOf, Hosts, Attempts
    <3>2. QED
      BY <1>5, <3>1 DEF GivenGrows
  <2>3. attempt + 1 \in 1 .. attempt'
    BY <1>0, <1>1
  <2>4. QED
    BY <1>2, <2>1, <2>2, <2>3 DEF EndOK
<1>7. EndsOK' /\ AckingIsKnown'
  <2>1. OnlyAt(Client, n)
    BY <1>0, <1>1, <1>2, <1>6 DEF OnlyAt, Counts
  <2>2. attempt' \in Nat /\ attempt <= attempt'
    BY <1>0, <1>1
  <2>3. QED
    BY <1>0, <1>2, <1>5, <2>1, <2>2, EndsKept
<1>8. Counts'
  BY <1>0, <1>1 DEF Counts
<1>9. SlotsOK'
  BY <1>0, <1>4 DEF SlotsOK, SlotOK, Live
<1>10. Answered' = Answered
  BY <1>1 DEF Answered
<1>11. Claims' = Claims
  BY <1>4, <1>10 DEF Claims, Claim, Live
<1>12. Uses' \subseteq Uses
  BY <1>1, <1>2, <1>3 DEF Uses
<1>13. ClientOK'
  <2>1. attempt' \notin past'["client"]
    BY <1>0, <1>1 DEF Counts
  <2>2. QED
    BY <1>1, <1>2, <1>3, <2>1 DEF ClientOK
<1>14. NetOK'
  <2>1. \A d \in net : FromServer(d) => FromServer(d)'
    BY <1>1 DEF FromServer
  <2>2. \A d \in net : FromClient(d) => FromClient(d)'
    BY <1>0, <1>1, <1>10 DEF FromClient
  <2>3. QED
    BY <1>0, <1>1, <2>1, <2>2 DEF NetOK
<1>15. ClaimsAgree'
  BY <1>0, <1>1, <1>11 DEF ClaimsAgree
<1>16. UsesAgree'
  BY <1>0, <1>1, <1>4, <1>10, <1>12 DEF UsesAgree
<1>17. QED
  BY <1>7, <1>8, <1>9, <1>13, <1>14, <1>15, <1>16 DEF LinkOK

-----------------------------------------------------------------------------
(* The client takes the server's answer: from now on it uses this connection.   *)
LEMMA AnswerTaken ==
    ASSUME LinkOK, EnetInv', NEW e \in Ends, NEW m \in net, HandleVerifyConnect(e, m),
           peer[e].state = "CONNECTING", Verifies(peer[e], m.command)
    PROVE  LinkOK' /\ e = Client /\ ConnectEvent(e, peer[e].connectID)
<1> DEFINE p == peer[e]
           c == m.command
           n == [p EXCEPT !.state = "CONNECTED", !.outgoingPeerID = c.slot,
                          !.inS = c.inS, !.outS = c.outS, !.sent = {s \in @ : s.cmd # "CONNECT"}]
           link == <<here, m.session, attempt, c.slot>>
<1>0. /\ peer \in [Ends -> Peers] /\ attempt \in Nat /\ Client \in Ends
      /\ Client \notin Slots /\ Slots \subseteq Ends /\ net \subseteq AnyDatagram
      /\ Counts /\ EndsOK /\ SlotsOK /\ ClientOK /\ NetOK /\ ClaimsAgree /\ UsesAgree /\ AckingIsKnown
      /\ EnetInv /\ Server \notin Addresses
  <2>1. Client \in Ends /\ Slots \subseteq Ends
    BY DEF Ends
  <2>2. Client \notin Slots
    BY SessionAssumption DEF Slots, Client
  <2>3. Server \notin Addresses
    BY SessionAssumption
  <2>4. QED
    BY <2>1, <2>2, <2>3 DEF LinkOK, EnetInv, Types
<1>1. e = Client
  BY <1>0 DEF Ends, SlotsOK, SlotOK
<1>2. /\ Acknowledge(e, n, c) /\ ConnectEvent(e, p.connectID)
      /\ here' = here /\ attempt' = attempt /\ Accepts(e, m) /\ c.cmd = "VERIFY_CONNECT"
  BY DEF HandleVerifyConnect
<1>3. /\ p.connectID = attempt /\ p.address = Server /\ here \in Addresses /\ here # Server
      /\ p.outgoingPeerID = NoPeer /\ attempt \notin past["client"]
  BY <1>0, <1>1 DEF ClientOK
<1>4. m.from = Server /\ m.to = here
  BY <1>1, <1>2, <1>3 DEF Accepts, AddressOf
<1>5. c.slot \in Slots /\ c.inS = m.session /\ c.outS = m.session /\ c.connectID = attempt
  BY <1>0, <1>2, <1>3, <1>4 DEF NetOK, FromServer, Verifies
<1>6. /\ n.state = "CONNECTED" /\ n.outgoingPeerID = c.slot
      /\ n.inS = m.session /\ n.outS = m.session /\ n.connectID = attempt /\ n.address = Server
      /\ n.outSeq = p.outSeq /\ n.inSeq = p.inSeq /\ n.dispatched = p.dispatched
      /\ n.queued = p.queued
  BY <1>0, <1>3, <1>5 DEF Peers
<1>7. n \in Peers
  <2>1. c.slot \in Int /\ c.inS \in Int /\ c.outS \in Int /\ p \in Peers
    BY <1>0, InNet
  <2>2. QED
    BY <2>1 DEF Peers, States
<1> HIDE DEF n
<1>8. peer' = [peer EXCEPT ![Client] = n]
  BY <1>1, <1>2 DEF Acknowledge
<1>9. c.slot # NoPeer
  BY <1>5 DEF Slots, NoPeer
<1>10. /\ net \subseteq net'
       /\ \A d \in net' : d \in net \/ /\ d.from = here /\ d.to = Server /\ d.slot = c.slot
                                       /\ d.session = m.session /\ d.command.cmd = "ACKNOWLEDGE"
  BY <1>1, <1>2, <1>3, <1>6, <1>9 DEF Acknowledge, Datagrams, AddressOf, Command
<1>11. link \in Answered
  BY <1>2, <1>4, <1>5 DEF Answered
<1>12. /\ open' = [open EXCEPT ![Client] = attempt] /\ taken' = [taken EXCEPT ![Client] = <<>>]
       /\ past' = [past EXCEPT !["client"] = @ \union {attempt}] /\ given' = given
  BY <1>1, <1>2, <1>3 DEF ConnectEvent, HostOf
<1>13. GivenGrows
  BY <1>0, <1>12 DEF GivenGrows, Counts
<1>14. peer'[Client] = n /\ \A r \in Slots : peer'[r] = peer[r]
  BY <1>0, <1>8
<1>15. taken' \in [Ends -> Seq(Nat \X Nat)] /\ taken'[Client] = <<>>
  <2>1. <<>> \in Seq(Nat \X Nat)
    OBVIOUS
  <2>2. QED
    BY <1>0, <1>12, <2>1 DEF Counts
<1>16. /\ past' \in [Hosts -> SUBSET Nat] /\ past'["server"] = past["server"]
       /\ past'["client"] = past["client"] \union {attempt}
  BY <1>0, <1>12 DEF Counts, Hosts
<1>17. EndOK(Client, n, given', taken'[Client], attempt')
  <2>1. EndOK(Client, p, given, taken[Client], attempt)
    BY <1>0, <1>1 DEF EndsOK
  <2>2. n.inSeq = 0 /\ n.dispatched = <<>>
    BY <1>6, <2>1 DEF EndOK
  <2>3. \A k \in p.queued : k.cmd # "VERIFY_CONNECT"
    BY <2>1 DEF EndOK, CommandOK
  <2>4. \A k \in n.queued : CommandOK(Client, n, k, given')
    BY <1>3, <1>6, <1>12, <2>1, <2>3 DEF EndOK, CommandOK
  <2>5. attempt \in 1 .. attempt /\ n.outSeq <= given[HostOf(Client)][attempt]
    BY <1>3, <1>6, <2>1 DEF EndOK
  <2>6. 0 <= given[OtherHost(Client)][attempt]
    <3>1. attempt \in Attempts /\ OtherHost(Client) \in Hosts
      BY <1>0, <2>5, SessionAssumption DEF Counts, Attempts, OtherHost, Hosts
    <3>2. QED
      BY <1>0, <3>1 DEF Counts
  <2>7. Len(taken'[Client]) = 0 /\ Len(n.dispatched) = 0
    BY <1>15, <2>2
  <2>8. Delivered(Client, n, given', taken'[Client])
    BY <1>6, <1>12, <2>2, <2>6, <2>7 DEF Delivered
  <2>9. QED
    BY <1>2, <1>6, <1>12, <2>4, <2>5, <2>8 DEF EndOK
<1>18. EndsOK' /\ AckingIsKnown'
  <2>1. OnlyAt(Client, n)
    BY <1>0, <1>6, <1>12, <1>15, <1>17 DEF OnlyAt, Counts, EnetInv, Types
  <2>2. attempt' \in Nat /\ attempt <= attempt'
    BY <1>0, <1>2
  <2>3. QED
    BY <1>0, <1>7, <1>8, <1>13, <2>1, <2>2, EndsKept
<1>19. attempt \in 1 .. attempt
  BY <1>17, <1>2, <1>6 DEF EndOK
<1>20. Counts'
  BY <1>0, <1>2, <1>12, <1>15, <1>16, <1>19 DEF Counts
<1>21. SlotsOK'
  BY <1>0, <1>14 DEF SlotsOK, SlotOK, Live
<1>22. Answered' = Answered
  BY <1>10 DEF Answered
<1>23. Claims' = Claims
  BY <1>14, <1>22 DEF Claims, Claim, Live
<1>24. Uses' \subseteq Uses \union {<<here, m.session>>}
  BY <1>2, <1>6, <1>10, <1>14 DEF Uses
<1>25. ClientOK'
  BY <1>2, <1>3, <1>6, <1>9, <1>11, <1>14, <1>16, <1>22 DEF ClientOK
<1>26. NetOK'
  <2>1. ASSUME NEW d \in net' PROVE IF d.from = Server THEN FromServer(d)' ELSE FromClient(d)'
    <3>1. CASE d \in net
      BY <1>0, <1>2, <1>12, <1>22, <3>1 DEF NetOK, FromServer, FromClient
    <3>2. CASE d \notin net
      <4>1. /\ d.from = here /\ d.to = Server /\ d.slot = c.slot
            /\ d.session = m.session /\ d.command.cmd = "ACKNOWLEDGE"
        BY <1>10, <3>2
      <4>2. FromClient(d)'
        BY <1>3, <1>11, <1>22, <4>1 DEF FromClient
      <4>3. QED
        BY <1>3, <4>1, <4>2
    <3>3. QED
      BY <3>1, <3>2
  <2>2. QED
    BY <2>1 DEF NetOK
<1>27. ClaimsAgree'
  <2>1. \A k \in Claims', d \in net' :
            d.to = k[1] /\ d.session = k[2] /\ d.command.cmd = "SEND_RELIABLE"
              => d.command.connectID = k[3]
    BY <1>0, <1>10, <1>23 DEF ClaimsAgree
  <2>2. QED
    BY <1>0, <1>23, <2>1 DEF ClaimsAgree
<1>28. ASSUME NEW k \in Claims, k[1] = here, k[2] = m.session PROVE k = link
  BY <1>0, <1>11, <1>28 DEF ClaimsAgree, Claims
<1>29. UsesAgree'
  <2>1. ASSUME NEW k \in Answered, NEW d \in Answered, <<k[1], k[2]>> \in Uses',
               <<d[1], d[2]>> \in Uses', k[3] = d[3]
        PROVE  k = d
    <3>1. ASSUME NEW x \in Answered, <<x[1], x[2]>> \in Uses'
          PROVE  x = link \/ (<<x[1], x[2]>> \in Uses /\ x[3] # attempt)
      <4>1. CASE <<x[1], x[2]>> \in Uses
        BY <1>0, <1>3, <4>1 DEF UsesAgree
      <4>2. CASE <<x[1], x[2]>> \notin Uses
        <5>1. <<x[1], x[2]>> = <<here, m.session>>
          BY <1>24, <3>1, <4>2
        <5>2. x[1] = here /\ x[2] = m.session /\ x \in Claims
          BY <5>1 DEF Claims
        <5>3. QED
          BY <1>28, <5>2
      <4>3. QED
        BY <4>1, <4>2
    <3>2. QED
      BY <1>0, <2>1, <3>1 DEF UsesAgree
  <2>2. ASSUME NEW k \in Answered, <<k[1], k[2]>> \in Uses' PROVE k[3] \in past'["client"]
    BY <1>0, <1>16, <1>24, <1>28, <2>2 DEF UsesAgree, Claims
  <2>3. ASSUME NEW q \in Slots, peer[q].state = "ACKNOWLEDGING_CONNECT",
               peer[q].connectID \in past["server"]
        PROVE  <<peer[q].address, peer[q].outS>> \notin Uses'
    <3>1. Claim(q) \in Claims
      BY <2>3 DEF Claims, Live
    <3>2. peer[q].connectID # attempt
      BY <1>0, <1>3, <2>3 DEF Counts
    <3>3. <<peer[q].address, peer[q].outS>> # <<here, m.session>>
      BY <1>28, <3>1, <3>2 DEF Claim
    <3>4. QED
      BY <1>0, <1>24, <2>3, <3>3 DEF UsesAgree
  <2>4. QED
    BY <1>14, <1>16, <1>22, <2>1, <2>2, <2>3 DEF UsesAgree
<1>30. QED
  BY <1>1, <1>2, <1>18, <1>20, <1>21, <1>25, <1>26, <1>27, <1>29 DEF LinkOK

-----------------------------------------------------------------------------
(* Every other action is a step of one end.                                   *)

LEMMA AtLink ==
    ASSUME LinkOK, NEW e \in Ends
    PROVE  /\ peer \in [Ends -> Peers] /\ peer[e] \in Peers /\ PeerOK(peer[e], open[e])
           /\ EndOK(e, peer[e], given, taken[e], attempt)
           /\ peer[e].state = "ACKNOWLEDGING_DISCONNECT" => open[e] # 0
           /\ attempt \in Nat /\ EnetInv /\ Counts /\ taken[e] \in Seq(Nat \X Nat)
           /\ HostOf(e) \in Hosts /\ OtherHost(e) \in Hosts
           /\ Live(e) => /\ peer[e].connectID \in Attempts
                         /\ given[HostOf(e)][peer[e].connectID] \in Nat
                         /\ given[OtherHost(e)][peer[e].connectID] \in Nat
<1>1. peer \in [Ends -> Peers] /\ attempt \in Nat /\ EnetInv /\ Counts
  BY DEF LinkOK, EnetInv, Types
<1>2. PeerOK(peer[e], open[e]) /\ EndOK(e, peer[e], given, taken[e], attempt)
  BY DEF LinkOK, EnetInv, EndsOK
<1>3. HostOf(e) \in Hosts /\ OtherHost(e) \in Hosts
  BY DEF HostOf, OtherHost, Hosts
<1>4. Live(e) => peer[e].connectID \in Attempts
  BY <1>1, <1>2, SessionAssumption DEF Counts, Attempts, EndOK, Live
<1>5. taken[e] \in Seq(Nat \X Nat)
  BY <1>1 DEF Counts
<1>6. \A h \in Hosts, a \in Attempts : given[h][a] \in Nat
  BY <1>1 DEF Counts
<1>7. peer[e].state = "ACKNOWLEDGING_DISCONNECT" => open[e] # 0
  BY DEF LinkOK, AckingIsKnown
<1>8. QED
  BY <1>1, <1>2, <1>3, <1>4, <1>5, <1>6, <1>7

LEMMA GivenStays == ASSUME Counts, given' = given PROVE GivenGrows
BY DEF Counts, GivenGrows

LEMMA SameDatagrams ==
    ASSUME NEW e \in Ends, NEW p, NEW r, SameLink(p, r), NEW cs
    PROVE  Datagrams(e, p, cs) = Datagrams(e, r, cs)
BY DEF Datagrams, SameLink

(* A step the game does not notice.                                          *)
LEMMA SilentStep ==
    ASSUME LinkOK, NEW e \in Ends, Live(e), NEW p \in Peers, NEW cs \in SUBSET Commands,
           peer' = [peer EXCEPT ![e] = p], net' = net \union Datagrams(e, peer[e], cs),
           UNCHANGED <<here, attempt, open, taken, past>>, GivenGrows,
           MayBecome(peer[e].state, p.state),
           IF p.state = "DISCONNECTED" THEN p.outgoingPeerID = NoPeer ELSE SameLink(p, peer[e]),
           \A c \in cs : CommandOK(e, peer[e], c, given'),
           EndOK(e, p, given', taken[e], attempt),
           p.state = "ACKNOWLEDGING_DISCONNECT" => open[e] # 0
    PROVE  EndStep(e, p, cs)
BY AtLink DEF EndStep, OnlyAt, Told, Counts

(* A peer that is free again, whether the game hears of it or knew nothing.     *)
LEMMA EndGone ==
    ASSUME LinkOK, NEW e \in Ends, Live(e), NEW cs \in SUBSET Commands,
           peer' = [peer EXCEPT ![e] = Reset(@)],
           net' = net \union Datagrams(e, peer[e], cs),
           UNCHANGED <<here, attempt, past, given>>, UNCHANGED seen \/ DisconnectEvent(e),
           \A c \in cs : CommandOK(e, peer[e], c, given)
    PROVE  EndStep(e, Reset(peer[e]), cs)
<1> DEFINE p == Reset(peer[e])
<1>1. /\ p \in Peers /\ p.state = "DISCONNECTED" /\ p.outgoingPeerID = NoPeer
      /\ p.queued = {} /\ p.outSeq = 0 /\ p.inSeq = 0 /\ p.dispatched = <<>>
  BY AtLink, ResetFields
<1> HIDE DEF p
<1>2. EndOK(e, p, given', taken'[e], attempt')
  BY <1>1 DEF EndOK
<1>3. /\ taken' \in [Ends -> Seq(Nat \X Nat)]
      /\ \A f \in Ends \ {e} : taken'[f] = taken[f] /\ open'[f] = open[f]
  <2>1. taken \in [Ends -> Seq(Nat \X Nat)] /\ open \in [Ends -> Nat]
    BY DEF LinkOK, Counts, EnetInv, Types
  <2>2. CASE UNCHANGED seen
    BY <2>1, <2>2 DEF seen
  <2>3. CASE DisconnectEvent(e)
    <3>1. <<>> \in Seq(Nat \X Nat)
      OBVIOUS
    <3>2. QED
      BY <2>1, <2>3, <3>1 DEF DisconnectEvent
  <2>4. QED
    BY <2>2, <2>3
<1>4. GivenGrows
  BY AtLink, GivenStays
<1>5. OnlyAt(e, p)
  BY <1>1, <1>2, <1>3 DEF OnlyAt
<1>6. peer' = [peer EXCEPT ![e] = p]
  BY DEF p
<1>7. EndStep(e, p, cs)
  BY <1>1, <1>4, <1>5, <1>6 DEF EndStep, MayBecome, Told
<1>8. QED
  BY <1>7 DEF p

LEMMA NoDatagrams ==
    ASSUME NEW e \in Ends
    PROVE  /\ {} \in SUBSET Commands /\ net = net \union Datagrams(e, peer[e], {})
           /\ \A g : \A c \in {} : CommandOK(e, peer[e], c, g)
BY DEF Datagrams

LEMMA AckSends ==
    ASSUME EnetInv, NEW e \in Ends, NEW p \in Peers, NEW c \in Commands, Acknowledge(e, p, c),
           SameLink(p, peer[e])
    PROVE  \E cs \in SUBSET Commands :
              /\ net' = net \union Datagrams(e, peer[e], cs)
              /\ \A g : \A k \in cs : CommandOK(e, peer[e], k, g)
<1> DEFINE a == Command("ACKNOWLEDGE", c.ch, c.seq, FALSE)
<1>1. a \in Commands /\ a.cmd = "ACKNOWLEDGE"
  <2>1. c.ch \in Nat /\ c.seq \in Nat
    BY DEF Commands, AnyCommand
  <2>2. QED
    BY <2>1, NewCommand DEF CommandNames, Command
<1> HIDE DEF a
<1>2. CASE net' = net
  BY <1>2, NoDatagrams
<1>3. CASE net' = net \union Datagrams(e, p, {a})
  <2>1. net' = net \union Datagrams(e, peer[e], {a})
    BY <1>3, SameDatagrams
  <2>2. \A g : \A k \in {a} : CommandOK(e, peer[e], k, g)
    BY <1>1 DEF CommandOK
  <2>3. QED
    BY <1>1, <2>1, <2>2
<1>4. QED
  BY <1>2, <1>3 DEF Acknowledge, a

LEMMA FlushSends ==
    ASSUME NEW e \in Ends, NEW p \in Peers, Flush(e, p), SameLink(p, peer[e])
    PROVE  /\ net' = net \union Datagrams(e, peer[e], p.queued)
           /\ \E n \in Peers :
                /\ peer' = [peer EXCEPT ![e] = n]
                /\ SameLink(n, p) /\ n.state = p.state /\ n.queued = {}
                /\ n.outSeq = p.outSeq /\ n.inSeq = p.inSeq /\ n.dispatched = p.dispatched
<1> DEFINE n == [p EXCEPT !.queued = {}, !.sent = @ \union {c \in p.queued : c.acked}]
<1>1. n \in Peers
  BY DEF Peers
<1>2. /\ SameLink(n, p) /\ n.state = p.state /\ n.queued = {}
      /\ n.outSeq = p.outSeq /\ n.inSeq = p.inSeq /\ n.dispatched = p.dispatched
  BY DEF Peers, SameLink
<1>3. peer' = [peer EXCEPT ![e] = n]
  BY DEF Flush
<1>4. net' = net \union Datagrams(e, peer[e], p.queued)
  BY SameDatagrams DEF Flush
<1>5. QED
  BY <1>1, <1>2, <1>3, <1>4

(* A peer in another state, or with other commands to be acknowledged, is as    *)
(* good as before if nothing else has changed.                               *)
LEMMA EndStays ==
    ASSUME NEW e \in Ends, NEW p, NEW r, NEW g, NEW t, NEW n,
           EndOK(e, r, g, t, n), SameLink(p, r), p.queued \subseteq r.queued,
           p.outSeq = r.outSeq, p.inSeq = r.inSeq, p.dispatched = r.dispatched,
           r.state # "DISCONNECTED", p.state \in {r.state, "ZOMBIE"}
    PROVE  EndOK(e, p, g, t, n)
BY DEF EndOK, CommandOK, Delivered, SameLink

(* A peer whose queues were emptied, on its way out.                           *)
LEMMA EmptiedOK ==
    ASSUME LinkOK, NEW e \in Ends, Live(e), NEW p \in Peers, NEW g, NEW t,
           g[HostOf(e)][peer[e].connectID] \in Nat,
           SameLink(p, peer[e]), p.outSeq = 0, \A c \in p.queued : c.cmd = "DISCONNECT",
           p.state \in {"ZOMBIE", "ACKNOWLEDGING_DISCONNECT", "DISCONNECTING"}
    PROVE  EndOK(e, p, g, t, attempt)
<1>1. peer[e].connectID \in 1 .. attempt
  BY AtLink DEF EndOK, Live
<1>2. QED
  BY <1>1 DEF EndOK, CommandOK, SameLink

(* What a peer accepts is of its connection.                                  *)
LEMMA AcceptedIsUsed ==
    ASSUME LinkOK, NEW q \in Slots, NEW m \in net, Accepts(q, m)
    PROVE  /\ <<peer[q].address, peer[q].outS>> \in Uses
           /\ peer[q].connectID \in past["client"]
           /\ m.command.cmd = "SEND_RELIABLE" =>
                 /\ m.command.connectID = peer[q].connectID
                 /\ m.command.seq <= given["client"][peer[q].connectID]
<1>1. /\ Live(q) /\ peer[q].inS = peer[q].outS /\ peer[q].address \in Addresses
      /\ peer[q].outgoingPeerID # NoPeer /\ q # Client /\ q # NoPeer
  BY SessionAssumption DEF LinkOK, SlotsOK, SlotOK, Accepts, Live, NoPeer, Slots, Client
<1>2. m.from = peer[q].address /\ m.session = peer[q].outS /\ m.slot = q /\ m.from # Server
  BY <1>1, SessionAssumption DEF Accepts
<1>3. <<peer[q].address, peer[q].outS>> \in Uses
  BY <1>1, <1>2 DEF Uses
<1>4. PICK c \in Answered : /\ c[1] = m.from /\ c[2] = m.session /\ c[4] = m.slot
                            /\ m.command.cmd = "SEND_RELIABLE" =>
                                  /\ m.command.connectID = c[3]
                                  /\ m.command.seq <= given["client"][c[3]]
  BY <1>1, <1>2 DEF LinkOK, NetOK, FromClient
<1>5. c = Claim(q)
  <2>1. c \in Claims /\ Claim(q) \in Claims
    BY <1>1 DEF Claims
  <2>2. Claim(q)[1] = peer[q].address /\ Claim(q)[2] = peer[q].outS
    BY DEF Claim
  <2>3. QED
    BY <1>2, <1>4, <2>1, <2>2 DEF LinkOK, ClaimsAgree
<1>6. c[3] = peer[q].connectID
  BY <1>5 DEF Claim
<1>7. c[3] \in past["client"]
  BY <1>2, <1>3, <1>4 DEF LinkOK, UsesAgree
<1>8. QED
  BY <1>3, <1>4, <1>6, <1>7

LEMMA PacketIsOurs ==
    ASSUME LinkOK, NEW e \in Ends, NEW m \in net, Accepts(e, m), peer[e].state = "CONNECTED",
           m.command.cmd = "SEND_RELIABLE"
    PROVE  /\ m.command.connectID = peer[e].connectID
           /\ m.command.seq <= given[OtherHost(e)][peer[e].connectID]
<1>1. CASE e \in Slots
  <2>1. OtherHost(e) = "client"
    BY <1>1, SessionAssumption DEF OtherHost, Slots, Client
  <2>2. QED
    BY <1>1, <2>1, AcceptedIsUsed
<1>2. CASE e = Client
  <2> DEFINE p == peer[Client]
             k == <<here, p.outS, attempt, p.outgoingPeerID>>
  <2>1. /\ here \in Addresses /\ p.address = Server /\ p.connectID = attempt
        /\ p.outgoingPeerID # NoPeer /\ p.inS = p.outS /\ k \in Answered
    BY <1>2 DEF LinkOK, ClientOK
  <2>2. m.from = Server /\ m.to = here /\ m.session = p.outS
    BY <1>2, <2>1 DEF Accepts, AddressOf
  <2>3. m.command.connectID = attempt
    <3>1. k \in Claims /\ k[1] = here /\ k[2] = p.outS /\ k[3] = attempt
      BY <2>1 DEF Claims
    <3>2. QED
      BY <2>2, <3>1 DEF LinkOK, ClaimsAgree
  <2>4. m.command.seq <= given["server"][m.command.connectID]
    BY <2>2 DEF LinkOK, NetOK, FromServer
  <2>5. QED
    BY <1>2, <2>1, <2>3, <2>4 DEF OtherHost
<1>3. QED
  BY <1>1, <1>2 DEF Ends

(* A connection is completed once: the game hears of a new attempt.             *)
LEMMA CompletedIsNew ==
    ASSUME LinkOK, NEW e \in Ends, NEW m \in net, Accepts(e, m), NEW done,
           Completes(peer[e], done)
    PROVE  /\ e \in Slots /\ peer[e].connectID \notin past["server"]
           /\ peer[e].connectID \in past["client"]
           /\ <<peer[e].address, peer[e].outS>> \in Uses
<1>1. e \in Slots
  BY DEF LinkOK, ClientOK, Completes, Ends
<1>2. QED
  BY <1>1, AcceptedIsUsed DEF LinkOK, UsesAgree, Completes

-----------------------------------------------------------------------------
(* What the game hears is an event PeerEvents allows.                          *)
Noticed == Events!EventNext \/ UNCHANGED seen

LEMMA GoneNoticed ==
    ASSUME NEW e \in Ends, DisconnectEvent(e), open[e] # 0
    PROVE  Noticed
BY DEF Noticed, DisconnectEvent, Events!EventNext, Events!Disconnected

LEMMA ConnectNoticed ==
    ASSUME NEW e \in Ends, NEW a \in Attempts, ConnectEvent(e, a), open[e] = 0, a \notin past[HostOf(e)]
    PROVE  Noticed
BY DEF Noticed, ConnectEvent, Events!EventNext, Events!Connected, Events!Reported

LEMMA GiveNoticed ==
    ASSUME NEW e \in Ends, Give(e), peer[e].connectID \in Attempts
    PROVE  Noticed
<1>1. HostOf(e) \in Events!Hosts
  BY DEF Events!Hosts
<1>2. Events!Give(HostOf(e), peer[e].connectID)
  BY DEF Give, Events!Give
<1>3. QED
  BY <1>1, <1>2 DEF Noticed, Events!EventNext

LEMMA ReceiveNoticed ==
    ASSUME NEW e \in Ends, NEW n, n = Len(taken[e]) + 1, open[e] # 0,
           n <= given[OtherHost(e)][open[e]],
           taken' = [taken EXCEPT ![e] = Append(@, <<open[e], n>>)],
           UNCHANGED <<open, past, given>>
    PROVE  Noticed
<1>1. OtherHost(e) \in Events!Hosts \ {HostOf(e)}
  <2>1. 0 \in Slots /\ 0 # Client /\ Client \in Ends /\ 0 \in Ends
    BY SessionAssumption DEF Slots, Client, Ends
  <2>2. HostOf(0) = "server" /\ HostOf(Client) = "client"
    BY <2>1 DEF HostOf
  <2>3. "server" \in Events!Hosts /\ "client" \in Events!Hosts
    BY <2>1, <2>2 DEF Events!Hosts
  <2>4. QED
    BY <2>3 DEF OtherHost, HostOf
<1>2. Events!Received(e)
  BY <1>1 DEF Events!Received
<1>3. QED
  BY <1>2 DEF Noticed, Events!EventNext

-----------------------------------------------------------------------------
LEMMA VerifyStep ==
    ASSUME LinkOK, NEW e \in Ends, NEW m \in net, HandleVerifyConnect(e, m),
           ~(peer[e].state = "CONNECTING" /\ Verifies(peer[e], m.command))
    PROVE  (\E p, cs : EndStep(e, p, cs)) /\ Noticed
<1> DEFINE p == peer[e]
           c == m.command
<1>1. /\ p \in Peers /\ Live(e) /\ c \in Commands /\ EnetInv /\ GivenGrows
      /\ UNCHANGED <<here, attempt>> /\ UNCHANGED seen /\ SameLink(p, p)
  BY AtLink, InNet, GivenStays DEF HandleVerifyConnect, Accepts, Live, seen, SameLink
<1>2. UNCHANGED <<open, taken, past, given>>
  BY <1>1 DEF seen
<1>3. EndOK(e, p, given', taken[e], attempt)
  BY <1>2, AtLink
<1>4. CASE p.state # "CONNECTING"
  <2>1. Acknowledge(e, p, c)
    BY <1>4 DEF HandleVerifyConnect
  <2>2. PICK cs \in SUBSET Commands : /\ net' = net \union Datagrams(e, peer[e], cs)
                                     /\ \A g : \A k \in cs : CommandOK(e, peer[e], k, g)
    BY <1>1, <2>1, AckSends
  <2>3. peer' = [peer EXCEPT ![e] = p]
    BY <2>1 DEF Acknowledge
  <2>4. /\ MayBecome(p.state, p.state) /\ p.state # "DISCONNECTED"
        /\ p.state = "ACKNOWLEDGING_DISCONNECT" => open[e] # 0
    BY <1>1, AtLink DEF MayBecome, Live
  <2>5. EndStep(e, p, cs)
    BY <1>1, <1>2, <1>3, <2>2, <2>3, <2>4, SilentStep
  <2>6. QED
    BY <1>1, <2>5 DEF Noticed
<1>5. CASE p.state = "CONNECTING"
  <2> DEFINE n == [p EXCEPT !.state = "ZOMBIE"]
  <2>1. peer' = [peer EXCEPT ![e] = n] /\ net' = net
    BY <1>1, <1>5 DEF HandleVerifyConnect
  <2>2. /\ n \in Peers /\ SameLink(n, p) /\ n.state = "ZOMBIE" /\ n.queued = p.queued
        /\ n.outSeq = p.outSeq /\ n.inSeq = p.inSeq /\ n.dispatched = p.dispatched
    BY <1>1 DEF Peers, States, SameLink
  <2> HIDE DEF n
  <2>3. EndOK(e, n, given', taken[e], attempt)
    BY <1>1, <1>3, <2>2, EndStays DEF Live
  <2>4. MayBecome(p.state, n.state)
    BY <2>2 DEF MayBecome
  <2>5. EndStep(e, n, {})
    BY <1>1, <1>2, <2>1, <2>2, <2>3, <2>4, NoDatagrams, SilentStep
  <2>6. QED
    BY <1>1, <2>5 DEF Noticed
<1>6. QED
  BY <1>4, <1>5

LEMMA GoneQuietly ==
    ASSUME LinkOK, NEW e \in Ends, Live(e), peer' = [peer EXCEPT ![e] = Reset(@)],
           UNCHANGED <<here, attempt, past, given>>, net' = net,
           UNCHANGED seen \/ DisconnectEvent(e)
    PROVE  EndStep(e, Reset(peer[e]), {})
<1>1. {} \in SUBSET Commands /\ net' = net \union Datagrams(e, peer[e], {})
  BY NoDatagrams
<1>2. \A c \in {} : CommandOK(e, peer[e], c, given)
  OBVIOUS
<1>3. QED
  BY <1>1, <1>2, EndGone

LEMMA NotifyStep ==
    ASSUME LinkOK, NEW e \in Ends, NotifyDisconnect(e), UNCHANGED <<here, attempt, net>>,
           peer[e].state \notin {"DISCONNECTED", "ZOMBIE"}
    PROVE  (\E p, cs : EndStep(e, p, cs)) /\ Noticed
<1>1. UNCHANGED seen \/ (DisconnectEvent(e) /\ open[e] # 0)
  <2>1. CASE peer[e].state \in {"ACKNOWLEDGING_CONNECT", "CONNECTING"}
    BY <2>1 DEF NotifyDisconnect
  <2>2. CASE peer[e].state \in {"CONNECTED", "DISCONNECTING", "ACKNOWLEDGING_DISCONNECT"}
    BY <2>2, AtLink DEF NotifyDisconnect, PeerOK
  <2>3. QED
    BY <2>1, <2>2, AtEnd DEF States, LinkOK
<1>2. /\ peer' = [peer EXCEPT ![e] = Reset(@)] /\ Live(e)
      /\ UNCHANGED <<here, attempt, past, given>> /\ net' = net
  BY <1>1 DEF NotifyDisconnect, seen, DisconnectEvent, Live
<1>3. EndStep(e, Reset(peer[e]), {})
  BY <1>1, <1>2, GoneQuietly
<1>4. QED
  BY <1>1, <1>3, GoneNoticed DEF Noticed

LEMMA AcknowledgeStep ==
    ASSUME LinkOK, NEW e \in Ends, NEW m \in net, HandleAcknowledge(e, m)
    PROVE  (\E p, cs : EndStep(e, p, cs)) /\ Noticed
<1> DEFINE p == peer[e]
           done == {c \in p.sent : c.ch = m.command.ch /\ c.seq = m.command.seq}
           rest == [p EXCEPT !.sent = @ \ done]
           up == [rest EXCEPT !.state = "CONNECTED"]
<1>0. /\ p \in Peers /\ Accepts(e, m) /\ UNCHANGED <<here, attempt, net>>
      /\ p.state \notin {"DISCONNECTED", "ZOMBIE"} /\ Live(e) /\ Counts
  BY AtLink DEF HandleAcknowledge, Accepts, Live
<1>1. /\ rest \in Peers /\ SameLink(rest, p) /\ rest.state = p.state /\ rest.queued = p.queued
      /\ rest.outSeq = p.outSeq /\ rest.inSeq = p.inSeq /\ rest.dispatched = p.dispatched
  BY <1>0 DEF Peers, SameLink
<1>2. /\ up \in Peers /\ SameLink(up, p) /\ up.state = "CONNECTED" /\ up.queued = p.queued
      /\ up.outSeq = p.outSeq /\ up.inSeq = p.inSeq /\ up.dispatched = p.dispatched
  <2> HIDE DEF rest
  <2>1. QED
    BY <1>1 DEF Peers, States, SameLink
<1>3. CASE Completes(p, done)
  <2>1. peer' = [peer EXCEPT ![e] = up] /\ ConnectEvent(e, p.connectID)
    BY <1>3 DEF HandleAcknowledge
  <2>2. /\ e \in Slots /\ p.connectID \notin past["server"] /\ p.connectID \in past["client"]
        /\ <<p.address, p.outS>> \in Uses /\ p.state = "ACKNOWLEDGING_CONNECT"
    BY <1>0, <1>3, CompletedIsNew DEF Completes
  <2>3. HostOf(e) = "server"
    BY <2>2, SessionAssumption DEF HostOf, Slots, Client
  <2> HIDE DEF rest, up, done
  <2>4. /\ taken' = [taken EXCEPT ![e] = <<>>] /\ open' = [open EXCEPT ![e] = p.connectID]
        /\ given' = given /\ past' = [past EXCEPT !["server"] = @ \union {p.connectID}]
    BY <2>1, <2>3 DEF ConnectEvent
  <2>5. /\ taken' \in [Ends -> Seq(Nat \X Nat)] /\ taken'[e] = <<>>
        /\ \A f \in Ends \ {e} : taken'[f] = taken[f] /\ open'[f] = open[f]
    <3>1. <<>> \in Seq(Nat \X Nat) /\ open \in [Ends -> Nat]
      BY AtLink DEF EnetInv, Types
    <3>2. QED
      BY <1>0, <2>4, <3>1 DEF Counts
  <2>6. EndOK(e, up, given', taken'[e], attempt')
    <3>1. EndOK(e, p, given, taken[e], attempt) /\ given[OtherHost(e)][p.connectID] \in Nat
      BY <1>0, AtLink
    <3>2. up.inSeq = 0 /\ up.dispatched = <<>> /\ Len(<<>>) = 0
      BY <1>2, <2>2, <3>1 DEF EndOK
    <3>3. Delivered(e, up, given', taken'[e])
      BY <1>2, <2>4, <2>5, <3>1, <3>2 DEF Delivered, SameLink
    <3>4. \A c \in up.queued : CommandOK(e, up, c, given')
      BY <1>2, <2>4, <3>1 DEF EndOK, CommandOK, SameLink
    <3>5. QED
      BY <1>0, <1>2, <2>2, <2>4, <3>1, <3>3, <3>4 DEF EndOK, SameLink
  <2>7. OnlyAt(e, up)
    BY <1>2, <2>5, <2>6 DEF OnlyAt
  <2>8. Told(e, up)
    BY <1>2, <2>2, <2>4 DEF Told
  <2>9. GivenGrows
    BY <1>0, <2>4, GivenStays
  <2>10. EndStep(e, up, {})
    BY <1>0, <1>2, <2>1, <2>2, <2>7, <2>8, <2>9, NoDatagrams DEF EndStep, MayBecome
  <2>11. Noticed
    <3>1. open[e] = 0 /\ p.connectID \in Attempts
      BY <1>0, <2>2, AtLink DEF PeerOK
    <3>2. QED
      BY <2>1, <2>2, <2>3, <3>1, ConnectNoticed
  <2>12. QED
    BY <2>10, <2>11
<1>4. CASE NotifyDisconnect(e)
  BY <1>0, <1>4, NotifyStep
<1>5. CASE peer' = [peer EXCEPT ![e] = rest] /\ UNCHANGED seen
  <2> HIDE DEF rest, up, done
  <2>1. UNCHANGED <<open, taken, past, given>> /\ GivenGrows
    BY <1>0, <1>5, GivenStays DEF seen
  <2>2. EndOK(e, rest, given', taken[e], attempt)
    BY <1>0, <1>1, <2>1, AtLink, EndStays
  <2>3. MayBecome(p.state, rest.state) /\ rest.state # "DISCONNECTED"
    BY <1>0, <1>1 DEF MayBecome
  <2>4. rest.state = "ACKNOWLEDGING_DISCONNECT" => open[e] # 0
    BY <1>1, AtLink
  <2>5. EndStep(e, rest, {})
    BY <1>0, <1>1, <1>5, <2>1, <2>2, <2>3, <2>4, NoDatagrams, SilentStep
  <2>6. QED
    BY <1>5, <2>5 DEF Noticed
<1>6. QED
  BY <1>3, <1>4, <1>5 DEF HandleAcknowledge

LEMMA DisconnectStep ==
    ASSUME LinkOK, NEW e \in Ends, NEW m \in net, HandleDisconnect(e, m)
    PROVE  (\E p, cs : EndStep(e, p, cs)) /\ Noticed
<1> DEFINE p == peer[e]
           c == m.command
           n == AfterDisconnect(p, c)
<1>1. /\ p \in Peers /\ Live(e) /\ Counts /\ UNCHANGED <<here, attempt, open, taken, past>>
      /\ given' = given /\ net' = net /\ peer' = [peer EXCEPT ![e] = n] /\ UNCHANGED seen
      /\ p.state \in {"CONNECTING", "ACKNOWLEDGING_CONNECT", "CONNECTED", "DISCONNECTING",
                      "ACKNOWLEDGING_DISCONNECT"}
  BY AtLink, AtEnd DEF HandleDisconnect, Accepts, Live, seen, States
<1>2. GivenGrows
  BY <1>1, GivenStays
<1>3. /\ EndOK(e, p, given', taken[e], attempt) /\ given'[HostOf(e)][p.connectID] \in Nat
      /\ p.state \in {"ACKNOWLEDGING_DISCONNECT", "CONNECTED"} => open[e] # 0
  BY <1>1, AtLink DEF PeerOK
<1>4. {} \in SUBSET Commands /\ net' = net \union Datagrams(e, peer[e], {})
  BY <1>1, NoDatagrams
<1>5. CASE p.state = "ACKNOWLEDGING_DISCONNECT"
  <2>1. n = p /\ SameLink(p, p) /\ MayBecome(p.state, p.state)
    BY <1>5 DEF AfterDisconnect, SameLink, MayBecome
  <2>2. EndStep(e, p, {})
    BY <1>1, <1>2, <1>3, <1>4, <1>5, <2>1, SilentStep
  <2>3. QED
    BY <1>1, <2>2 DEF Noticed
<1>6. CASE p.state \in {"CONNECTING", "DISCONNECTING", "CONNECTED"}
  <2>1. PICK s \in {"ZOMBIE", "ACKNOWLEDGING_DISCONNECT"} :
           /\ n = [ResetQueues(p) EXCEPT !.state = s]
           /\ s = "ACKNOWLEDGING_DISCONNECT" => p.state = "CONNECTED"
    BY <1>6 DEF AfterDisconnect
  <2>2. /\ n \in Peers /\ SameLink(n, p) /\ n.state = s /\ n.outSeq = 0 /\ n.queued = {}
    <3>1. ASSUME NEW r \in Peers
          PROVE  /\ [r EXCEPT !.state = s] \in Peers /\ SameLink([r EXCEPT !.state = s], r)
                 /\ [r EXCEPT !.state = s].state = s
                 /\ [r EXCEPT !.state = s].outSeq = r.outSeq
                 /\ [r EXCEPT !.state = s].queued = r.queued
      BY DEF Peers, States, SameLink
    <3>2. /\ ResetQueues(p) \in Peers /\ SameLink(ResetQueues(p), p)
          /\ ResetQueues(p).queued = {} /\ ResetQueues(p).outSeq = 0
      BY <1>1, EmptyQueuesFields
    <3>3. QED
      BY <2>1, <3>1, <3>2 DEF SameLink
  <2> HIDE DEF n
  <2>3. EndOK(e, n, given', taken[e], attempt)
    BY <1>1, <1>3, <2>2, EmptiedOK
  <2>4. MayBecome(p.state, n.state) /\ n.state # "DISCONNECTED"
    BY <2>1, <2>2 DEF MayBecome
  <2>5. n.state = "ACKNOWLEDGING_DISCONNECT" => open[e] # 0
    BY <1>3, <2>1, <2>2
  <2>6. EndStep(e, n, {})
    BY <1>1, <1>2, <1>4, <2>2, <2>3, <2>4, <2>5, SilentStep
  <2>7. QED
    BY <1>1, <2>6 DEF Noticed
<1>7. CASE p.state = "ACKNOWLEDGING_CONNECT"
  <2>1. n = Reset(p)
    BY <1>7 DEF AfterDisconnect
  <2>2. EndStep(e, Reset(p), {})
    BY <1>1, <2>1, GoneQuietly
  <2>3. QED
    BY <1>1, <2>2 DEF Noticed
<1>8. QED
  BY <1>1, <1>5, <1>6, <1>7

LEMMA PacketStep ==
    ASSUME LinkOK, NEW e \in Ends, NEW m \in net, HandleSendReliable(e, m)
    PROVE  (\E p, cs : EndStep(e, p, cs)) /\ Noticed
<1> DEFINE p == peer[e]
           c == m.command
           next == [p EXCEPT !.inSeq = c.seq, !.dispatched = Append(@, <<c.connectID, c.seq>>)]
           n == IF Dispatches(p, c) THEN next ELSE p
<1>1. /\ p \in Peers /\ Live(e) /\ Counts /\ EnetInv /\ UNCHANGED <<here, attempt, open, taken, past>>
      /\ given' = given /\ UNCHANGED seen /\ p.state = "CONNECTED" /\ c \in Commands
      /\ c.seq \in Nat /\ c.connectID \in Nat /\ c.cmd = "SEND_RELIABLE"
      /\ Accepts(e, m) /\ Acknowledge(e, n, c) /\ SameLink(p, p)
  BY AtLink, InNet DEF HandleSendReliable, Accepts, Live, seen, SameLink
<1>2. GivenGrows
  BY <1>1, GivenStays
<1>3. /\ EndOK(e, p, given', taken[e], attempt) /\ taken[e] \in Seq(Nat \X Nat)
      /\ given'[OtherHost(e)][p.connectID] \in Nat
  BY <1>1, AtLink
<1>4. c.connectID = p.connectID /\ c.seq <= given'[OtherHost(e)][p.connectID]
  BY <1>1, PacketIsOurs
<1>5. p.dispatched \in Seq(Nat \X Nat) /\ p.inSeq \in Nat
  BY <1>1 DEF Peers
<1>6. /\ next \in Peers /\ SameLink(next, p) /\ next.state = p.state /\ next.queued = p.queued
      /\ next.outSeq = p.outSeq /\ next.inSeq = c.seq
      /\ next.dispatched = Append(p.dispatched, <<c.connectID, c.seq>>)
  <2>1. Append(p.dispatched, <<c.connectID, c.seq>>) \in Seq(Nat \X Nat)
    <3>1. <<c.connectID, c.seq>> \in Nat \X Nat
      BY <1>1
    <3>2. QED
      BY <1>5, <3>1
  <2>2. QED
    BY <1>1, <2>1 DEF Peers, SameLink
<1> HIDE DEF next
<1>7. CASE Dispatches(p, c)
  <2>1. c.seq = p.inSeq + 1
    BY <1>7 DEF Dispatches
  <2>2. Delivered(e, p, given', taken[e]) /\ p.inSeq = Len(taken[e]) + Len(p.dispatched)
    BY <1>1, <1>3 DEF EndOK, Delivered
  <2>3. Len(next.dispatched) = Len(p.dispatched) + 1 /\ Len(p.dispatched) \in Nat /\ Len(taken[e]) \in Nat
    BY <1>3, <1>5, <1>6
  <2>4. c.seq = Len(taken[e]) + (Len(p.dispatched) + 1)
    <3> DEFINE a == Len(taken[e])
               b == Len(p.dispatched)
    <3>1. a \in Nat /\ b \in Nat /\ c.seq = (a + b) + 1
      BY <2>1, <2>2, <2>3
    <3> HIDE DEF a, b
    <3>2. c.seq = a + (b + 1)
      BY <3>1
    <3>3. QED
      BY <3>2 DEF a, b
  <2>5. ASSUME NEW i \in 1 .. Len(next.dispatched)
        PROVE  next.dispatched[i] = <<p.connectID, Len(taken[e]) + i>>
    <3>1. CASE i <= Len(p.dispatched)
      <4>1. next.dispatched[i] = p.dispatched[i] /\ i \in 1 .. Len(p.dispatched)
        BY <1>5, <1>6, <2>3, <3>1
      <4>2. QED
        BY <2>2, <4>1 DEF Delivered
    <3>2. CASE i = Len(p.dispatched) + 1
      <4>1. next.dispatched[i] = <<c.connectID, c.seq>>
        BY <1>5, <1>6, <3>2
      <4>2. c.seq = Len(taken[e]) + i
        BY <2>4, <3>2
      <4>3. QED
        BY <1>4, <4>1, <4>2
    <3>3. QED
      BY <2>3, <3>1, <3>2
  <2>6. next.inSeq = Len(taken[e]) + Len(next.dispatched)
    BY <1>6, <2>3, <2>4
  <2>7. Delivered(e, next, given', taken[e])
    BY <1>4, <1>6, <2>5, <2>6 DEF Delivered, SameLink
  <2>8. EndOK(e, next, given', taken[e], attempt)
    BY <1>1, <1>3, <1>6, <2>7 DEF EndOK, CommandOK, SameLink
  <2>9. SameLink(next, p) /\ MayBecome(p.state, next.state) /\ next.state # "DISCONNECTED"
    BY <1>1, <1>6 DEF MayBecome
  <2>10. Acknowledge(e, next, c)
    BY <1>1, <1>7
  <2>11. PICK cs \in SUBSET Commands : /\ net' = net \union Datagrams(e, peer[e], cs)
                                      /\ \A g : \A k \in cs : CommandOK(e, peer[e], k, g)
    BY <1>1, <1>6, <2>10, AckSends
  <2>12. peer' = [peer EXCEPT ![e] = next]
    BY <2>10 DEF Acknowledge
  <2>13. next.state # "ACKNOWLEDGING_DISCONNECT"
    BY <1>1, <1>6
  <2>14. EndStep(e, next, cs)
    BY <1>1, <1>2, <1>6, <2>8, <2>9, <2>11, <2>12, <2>13, SilentStep
  <2>15. QED
    BY <1>1, <2>14 DEF Noticed
<1>8. CASE ~Dispatches(p, c)
  <2>1. Acknowledge(e, p, c)
    BY <1>1, <1>8
  <2>2. PICK cs \in SUBSET Commands : /\ net' = net \union Datagrams(e, peer[e], cs)
                                     /\ \A g : \A k \in cs : CommandOK(e, peer[e], k, g)
    BY <1>1, <2>1, AckSends
  <2>3. peer' = [peer EXCEPT ![e] = p] /\ MayBecome(p.state, p.state)
    BY <2>1 DEF Acknowledge, MayBecome
  <2>4. EndStep(e, p, cs)
    BY <1>1, <1>2, <1>3, <2>2, <2>3, SilentStep
  <2>5. QED
    BY <1>1, <2>4 DEF Noticed
<1>9. QED
  BY <1>7, <1>8

LEMMA SendOutgoingStep ==
    ASSUME LinkOK, NEW e \in Ends, SendOutgoing(e)
    PROVE  (\E p, cs : EndStep(e, p, cs)) /\ Noticed
<1> DEFINE p == peer[e]
<1>1. /\ p \in Peers /\ Live(e) /\ Counts /\ UNCHANGED <<here, attempt, open, taken, past>>
      /\ given' = given /\ UNCHANGED seen /\ Flush(e, p) /\ SameLink(p, p)
      /\ p.queued \in SUBSET Commands
  BY AtLink DEF SendOutgoing, Live, seen, SameLink, Peers
<1>2. GivenGrows /\ EndOK(e, p, given', taken[e], attempt)
  BY <1>1, GivenStays, AtLink
<1>3. PICK n \in Peers : /\ peer' = [peer EXCEPT ![e] = n]
                        /\ SameLink(n, p) /\ n.state = p.state /\ n.queued = {}
                        /\ n.outSeq = p.outSeq /\ n.inSeq = p.inSeq /\ n.dispatched = p.dispatched
  BY <1>1, FlushSends
<1>4. net' = net \union Datagrams(e, peer[e], p.queued)
  BY <1>1, FlushSends
<1>5. \A c \in p.queued : CommandOK(e, peer[e], c, given')
  BY <1>2 DEF EndOK
<1>6. EndOK(e, n, given', taken[e], attempt)
  BY <1>1, <1>2, <1>3, EndStays DEF Live
<1>7. MayBecome(p.state, n.state) /\ n.state # "DISCONNECTED"
  BY <1>1, <1>3 DEF MayBecome, Live
<1>8. n.state = "ACKNOWLEDGING_DISCONNECT" => open[e] # 0
  BY <1>3, AtLink
<1>9. EndStep(e, n, p.queued)
  BY <1>1, <1>2, <1>3, <1>4, <1>5, <1>6, <1>7, <1>8, SilentStep
<1>10. QED
  BY <1>1, <1>9 DEF Noticed

LEMMA AcknowledgeDisconnectStep ==
    ASSUME LinkOK, NEW e \in Ends, AcknowledgeDisconnect(e)
    PROVE  (\E p, cs : EndStep(e, p, cs)) /\ Noticed
<1> DEFINE p == peer[e]
           n == [p EXCEPT !.state = "ZOMBIE"]
<1>1. /\ p \in Peers /\ Live(e) /\ Counts /\ EnetInv
      /\ UNCHANGED <<here, attempt, open, taken, past>> /\ given' = given /\ UNCHANGED seen
      /\ p.state = "ACKNOWLEDGING_DISCONNECT" /\ peer' = [peer EXCEPT ![e] = n]
  BY AtLink DEF AcknowledgeDisconnect, Live, seen
<1>2. PICK k \in Commands : k.cmd = "ACKNOWLEDGE" /\ net' = net \union Datagrams(e, p, {k})
  <2>1. PICK m \in net : net' = net \union Datagrams(e, p,
                               {Command("ACKNOWLEDGE", Control, m.command.seq, FALSE)})
    BY DEF AcknowledgeDisconnect
  <2>2. Command("ACKNOWLEDGE", Control, m.command.seq, FALSE) \in Commands
    <3>1. m.command.seq \in Nat /\ Control \in Nat
      BY <1>1, InNet DEF Control
    <3>2. QED
      BY <3>1, NewCommand DEF CommandNames
  <2>3. Command("ACKNOWLEDGE", Control, m.command.seq, FALSE).cmd = "ACKNOWLEDGE"
    BY DEF Command
  <2>4. QED
    BY <2>1, <2>2, <2>3
<1>3. GivenGrows /\ EndOK(e, p, given', taken[e], attempt)
  BY <1>1, GivenStays, AtLink
<1>4. /\ n \in Peers /\ SameLink(n, p) /\ n.state = "ZOMBIE" /\ n.queued = p.queued
      /\ n.outSeq = p.outSeq /\ n.inSeq = p.inSeq /\ n.dispatched = p.dispatched
  BY <1>1 DEF Peers, States, SameLink
<1> HIDE DEF n
<1>5. EndOK(e, n, given', taken[e], attempt)
  BY <1>1, <1>3, <1>4, EndStays
<1>6. MayBecome(p.state, n.state) /\ n.state # "DISCONNECTED" /\ n.state # "ACKNOWLEDGING_DISCONNECT"
  BY <1>4 DEF MayBecome
<1>7. \A c \in {k} : CommandOK(e, peer[e], c, given')
  BY <1>2 DEF CommandOK
<1>8. EndStep(e, n, {k})
  BY <1>1, <1>2, <1>3, <1>4, <1>5, <1>6, <1>7, SilentStep
<1>9. QED
  BY <1>1, <1>8 DEF Noticed

LEMMA ReceiveStep ==
    ASSUME LinkOK, NEW e \in Ends, DispatchReceive(e)
    PROVE  (\E p, cs : EndStep(e, p, cs)) /\ Noticed
<1> DEFINE p == peer[e]
           n == [p EXCEPT !.dispatched = Tail(@)]
           d == p.dispatched
           t == taken[e]
           k == p.connectID
<1>1. /\ p \in Peers /\ Live(e) /\ Counts /\ UNCHANGED <<here, attempt, open, past>>
      /\ given' = given /\ net' = net /\ p.state = "CONNECTED" /\ d # <<>>
      /\ peer' = [peer EXCEPT ![e] = n] /\ taken' = [taken EXCEPT ![e] = Append(t, Head(d))]
  BY AtLink DEF DispatchReceive, Live
<1>2. GivenGrows
  BY <1>1, GivenStays
<1>3. /\ EndOK(e, p, given', t, attempt) /\ t \in Seq(Nat \X Nat) /\ PeerOK(p, open[e])
      /\ d \in Seq(Nat \X Nat) /\ taken \in [Ends -> Seq(Nat \X Nat)]
  BY <1>1, AtLink DEF Counts, Peers
<1>4. open[e] = k /\ open[e] # 0
  BY <1>1, <1>3 DEF PeerOK
<1>5. /\ p.inSeq = Len(t) + Len(d) /\ p.inSeq <= given'[OtherHost(e)][k]
      /\ \A i \in 1 .. Len(d) : d[i] = <<k, Len(t) + i>>
  BY <1>1, <1>3 DEF EndOK, Delivered
<1> DEFINE l == Len(d)
           s == Len(t)
<1>6. l \in Nat /\ l > 0 /\ s \in Nat
  BY <1>1, <1>3
<1>7. Head(d) = <<k, s + 1>> /\ Head(d) \in Nat \X Nat
  <2>1. Head(d) = d[1] /\ 1 \in 1 .. l
    BY <1>1, <1>3, <1>6
  <2>2. d[1] = <<k, s + 1>> /\ d[1] \in Nat \X Nat
    <3>1. d[1] = <<k, s + 1>>
      BY <1>5, <2>1
    <3>2. d[1] \in Nat \X Nat
      BY <1>3, <2>1
    <3>3. QED
      BY <3>1, <3>2
  <2>3. QED
    BY <2>1, <2>2
<1>8. /\ Tail(d) \in Seq(Nat \X Nat) /\ Len(Tail(d)) = l - 1
      /\ \A i \in 1 .. Len(Tail(d)) : Tail(d)[i] = d[i + 1]
  BY <1>1, <1>3
<1>9. Append(t, Head(d)) \in Seq(Nat \X Nat) /\ Len(Append(t, Head(d))) = s + 1
  BY <1>3, <1>7
<1>10. /\ n \in Peers /\ SameLink(n, p) /\ n.state = p.state /\ n.queued = p.queued
       /\ n.outSeq = p.outSeq /\ n.inSeq = p.inSeq /\ n.dispatched = Tail(d)
  BY <1>1, <1>8 DEF Peers, SameLink
<1> HIDE DEF n
<1>11. Delivered(e, n, given', Append(t, Head(d)))
  <2>1. n.inSeq = (s + 1) + (l - 1)
    <3>1. s + l = (s + 1) + (l - 1)
      <4> HIDE DEF s, l
      <4>1. QED
        BY <1>6
    <3>2. QED
      BY <1>5, <1>10, <3>1
  <2>2. ASSUME NEW i \in 1 .. Len(Tail(d)) PROVE Tail(d)[i] = <<k, (s + 1) + i>>
    <3>1. i \in Nat /\ i + 1 \in 1 .. l /\ Tail(d)[i] = d[i + 1]
      BY <1>6, <1>8
    <3>2. d[i + 1] = <<k, s + (i + 1)>>
      BY <1>5, <3>1
    <3>3. s + (i + 1) = (s + 1) + i
      <4> HIDE DEF s
      <4>1. QED
        BY <1>6, <3>1
    <3>4. QED
      BY <3>1, <3>2, <3>3
  <2>3. QED
    BY <1>5, <1>8, <1>9, <1>10, <2>1, <2>2 DEF Delivered, SameLink
<1>12. EndOK(e, n, given', taken'[e], attempt')
  <2>1. taken'[e] = Append(t, Head(d))
    BY <1>1, <1>3
  <2>2. QED
    BY <1>1, <1>3, <1>10, <1>11, <2>1 DEF EndOK, CommandOK, SameLink
<1>13. OnlyAt(e, n)
  BY <1>1, <1>3, <1>9, <1>10, <1>12 DEF OnlyAt
<1>14. EndStep(e, n, {})
  <2>1. /\ {} \subseteq Commands /\ net' = net \union Datagrams(e, peer[e], {})
    BY <1>1, NoDatagrams
  <2>2. MayBecome(p.state, n.state) /\ n.state # "DISCONNECTED" /\ Told(e, n)
    BY <1>1, <1>10 DEF MayBecome, Told
  <2>3. QED
    BY <1>1, <1>2, <1>10, <1>13, <2>1, <2>2 DEF EndStep
<1>15. Noticed
  <2>1. s + 1 <= given[OtherHost(e)][open[e]]
    <3>1. given[OtherHost(e)][k] \in Nat
      BY <1>1, AtLink
    <3>2. s + l <= given[OtherHost(e)][k]
      BY <1>1, <1>5
    <3> HIDE DEF s, l
    <3>3. QED
      BY <1>4, <1>6, <3>1, <3>2
  <2>2. taken' = [taken EXCEPT ![e] = Append(@, <<open[e], s + 1>>)]
    BY <1>1, <1>4, <1>7
  <2>3. QED
    BY <1>1, <1>4, <2>1, <2>2, ReceiveNoticed
<1>16. QED
  BY <1>14, <1>15

LEMMA DispatchDisconnectStep ==
    ASSUME LinkOK, NEW e \in Ends, DispatchDisconnect(e)
    PROVE  (\E p, cs : EndStep(e, p, cs)) /\ Noticed
<1>1. UNCHANGED seen \/ (DisconnectEvent(e) /\ open[e] # 0)
  BY DEF DispatchDisconnect
<1>2. /\ peer' = [peer EXCEPT ![e] = Reset(@)] /\ Live(e)
      /\ UNCHANGED <<here, attempt, past, given>> /\ net' = net
  BY <1>1 DEF DispatchDisconnect, seen, DisconnectEvent, Live
<1>3. EndStep(e, Reset(peer[e]), {})
  BY <1>1, <1>2, GoneQuietly
<1>4. QED
  BY <1>1, <1>3, GoneNoticed DEF Noticed

LEMMA ServiceStep ==
    ASSUME LinkOK, NEW e \in Ends, Service(e),
           ~ \E m \in net : /\ HandleVerifyConnect(e, m) /\ peer[e].state = "CONNECTING"
                            /\ Verifies(peer[e], m.command)
    PROVE  (\E p, cs : EndStep(e, p, cs)) /\ Noticed
<1>1. CASE Receive(e)
  BY <1>1, VerifyStep, AcknowledgeStep, DisconnectStep, PacketStep DEF Receive
<1>2. CASE CheckTimeouts(e)
  <2>1. /\ NotifyDisconnect(e) /\ UNCHANGED <<here, attempt, net>>
        /\ peer[e].state \notin {"DISCONNECTED", "ZOMBIE"}
    BY <1>2 DEF CheckTimeouts
  <2>2. QED
    BY <2>1, NotifyStep
<1>3. QED
  BY <1>1, <1>2, SendOutgoingStep, AcknowledgeDisconnectStep, ReceiveStep, DispatchDisconnectStep
     DEF Service

-----------------------------------------------------------------------------
(* The game sends, and ends connections.                                      *)

LEMMA OneMoreGiven ==
    ASSUME LinkOK, NEW e \in Ends, Live(e), Give(e)
    PROVE  /\ GivenGrows
           /\ given'[HostOf(e)][peer[e].connectID] = given[HostOf(e)][peer[e].connectID] + 1
           /\ given'[OtherHost(e)] = given[OtherHost(e)]
<1> DEFINE k == peer[e].connectID
           h == HostOf(e)
<1>1. given \in [Hosts -> [Attempts -> Nat]] /\ h \in Hosts /\ k \in Attempts /\ given[h][k] \in Nat
  BY AtLink DEF Counts
<1>2. given' = [given EXCEPT ![h][k] = @ + 1]
  BY DEF Give
<1>3. OtherHost(e) # h /\ OtherHost(e) \in Hosts
  BY DEF OtherHost, HostOf, Hosts
<1> HIDE DEF h, k
<1>4. /\ given' \in [Hosts -> [Attempts -> Nat]] /\ given'[h][k] = given[h][k] + 1
      /\ \A g \in Hosts, a \in Attempts : given[g][a] <= given'[g][a]
  BY <1>1, <1>2
<1>5. given'[OtherHost(e)] = given[OtherHost(e)]
  BY <1>1, <1>2, <1>3
<1>6. QED
  BY <1>4, <1>5 DEF GivenGrows, h, k

(* The packets queued are among those given.                                  *)
LEMMA PacketQueuedOK ==
    ASSUME LinkOK, NEW e \in Ends, Live(e), Give(e), NEW n, n = PeerSend(peer[e])
    PROVE  /\ \A c \in n.queued : CommandOK(e, peer[e], c, given')
           /\ n.outSeq <= given'[HostOf(e)][peer[e].connectID]
<1> DEFINE p == peer[e]
           b == given[HostOf(e)][p.connectID]
<1>1. /\ p \in Peers /\ EndOK(e, p, given, taken[e], attempt) /\ b \in Nat /\ p.outSeq \in Nat
  BY AtLink DEF Peers
<1>2. p.outSeq <= b /\ given'[HostOf(e)][p.connectID] = b + 1
  BY <1>1, OneMoreGiven DEF EndOK, Live
<1>3. /\ n.outSeq = p.outSeq + 1
      /\ \A k \in n.queued :
            \/ k \in p.queued
            \/ k.cmd = "SEND_RELIABLE" /\ k.connectID = p.connectID /\ k.seq = p.outSeq + 1
  BY <1>1, SendFields
<1>4. \A k \in p.queued : CommandOK(e, p, k, given) /\ k.seq \in Nat
  BY <1>1 DEF EndOK, Peers, Commands, AnyCommand
<1> HIDE DEF b
<1>5. p.outSeq + 1 <= b + 1
  BY <1>1, <1>2
<1>6. ASSUME NEW c \in n.queued PROVE CommandOK(e, p, c, given')
  <2>1. CASE c \in p.queued
    <3>1. c.seq <= b => c.seq <= b + 1
      BY <1>1, <1>4, <2>1
    <3>2. QED
      BY <1>2, <1>4, <2>1, <3>1 DEF CommandOK, b
  <2>2. CASE c.cmd = "SEND_RELIABLE" /\ c.connectID = p.connectID /\ c.seq = p.outSeq + 1
    BY <1>2, <1>5, <2>2 DEF CommandOK
  <2>3. QED
    BY <1>3, <2>1, <2>2
<1>7. QED
  BY <1>2, <1>3, <1>5, <1>6

LEMMA SendsStep ==
    ASSUME LinkOK, NEW e \in Ends, Sends(e)
    PROVE  (\E p, cs : EndStep(e, p, cs)) /\ Noticed
<1> DEFINE p == peer[e]
           r == PeerSend(p)
<1>1. /\ p \in Peers /\ Live(e) /\ Counts /\ UNCHANGED <<here, attempt, open, taken, past>>
      /\ p.state = "CONNECTED" /\ Flush(e, r) /\ Give(e) /\ EndOK(e, p, given, taken[e], attempt)
      /\ p.connectID \in Attempts /\ attempt \in Nat
  BY AtLink DEF Sends, Live, Give
<1>2. /\ r \in Peers /\ SameLink(r, p) /\ r.state = p.state /\ r.inSeq = p.inSeq
      /\ r.dispatched = p.dispatched /\ r.queued \in SUBSET Commands
  <2>1. /\ r \in Peers /\ SameLink(r, p) /\ r.state = p.state /\ r.inSeq = p.inSeq
        /\ r.dispatched = p.dispatched
    BY <1>1, SendFields
  <2>2. QED
    BY <2>1 DEF Peers
<1>3. /\ \A c \in r.queued : CommandOK(e, p, c, given')
      /\ r.outSeq <= given'[HostOf(e)][p.connectID]
  BY <1>1, PacketQueuedOK
<1>4. GivenGrows /\ given'[OtherHost(e)] = given[OtherHost(e)]
  BY <1>1, OneMoreGiven
<1> HIDE DEF r
<1>5. PICK n \in Peers : /\ peer' = [peer EXCEPT ![e] = n]
                        /\ SameLink(n, r) /\ n.state = r.state /\ n.queued = {}
                        /\ n.outSeq = r.outSeq /\ n.inSeq = r.inSeq /\ n.dispatched = r.dispatched
  BY <1>1, <1>2, FlushSends
<1>6. net' = net \union Datagrams(e, peer[e], r.queued)
  BY <1>1, <1>2, FlushSends
<1>7. SameLink(n, p) /\ n.state = "CONNECTED" /\ MayBecome(p.state, n.state)
  BY <1>1, <1>2, <1>5 DEF SameLink, MayBecome
<1>8. EndOK(e, n, given', taken[e], attempt)
  <2>1. Delivered(e, n, given', taken[e])
    BY <1>1, <1>2, <1>4, <1>5, <1>7 DEF EndOK, Delivered, SameLink
  <2>2. QED
    BY <1>1, <1>3, <1>5, <1>7, <2>1 DEF EndOK, SameLink
<1>9. EndStep(e, n, r.queued)
  BY <1>1, <1>2, <1>3, <1>4, <1>5, <1>6, <1>7, <1>8, SilentStep
<1>10. QED
  BY <1>1, <1>9, GiveNoticed

(* A step that ends the client's connection without a word, or with one that     *)
(* nobody will acknowledge.                                                  *)
LEMMA ClientEndStep ==
    ASSUME LinkOK, ClientGivesUp \/ ClientDisconnects \/ ClientVanishes
    PROVE  (\E p, cs : EndStep(Client, p, cs)) /\ Noticed
<1> DEFINE p == peer[Client]
<1>1. /\ Client \in Ends /\ p \in Peers /\ Live(Client)
      /\ peer' = [peer EXCEPT ![Client] = Reset(@)] /\ UNCHANGED <<here, attempt>>
  <2>1. Client \in Ends
    BY DEF Ends
  <2>2. p \in Peers /\ PeerOK(p, open[Client])
    BY <2>1, AtLink
  <2>3. QED
    BY <2>1, <2>2 DEF ClientGivesUp, ClientDisconnects, ClientVanishes, PeerOK, Live
<1>2. CASE ClientGivesUp
  <2>1. UNCHANGED seen /\ UNCHANGED <<here, attempt, past, given>> /\ net' = net
    BY <1>2 DEF ClientGivesUp, seen
  <2>2. EndStep(Client, Reset(p), {})
    BY <1>1, <2>1, GoneQuietly
  <2>3. QED
    BY <2>1, <2>2 DEF Noticed
<1>3. CASE ClientVanishes
  <2>1. /\ DisconnectEvent(Client) /\ open[Client] # 0
        /\ UNCHANGED <<here, attempt, past, given>> /\ net' = net
    BY <1>3 DEF ClientVanishes, DisconnectEvent
  <2>2. EndStep(Client, Reset(p), {})
    BY <1>1, <2>1, GoneQuietly
  <2>3. QED
    BY <1>1, <2>1, <2>2, GoneNoticed
<1>4. CASE ClientDisconnects
  <2> DEFINE no == FALSE
             c == Command("DISCONNECT", Control, 0, FALSE)
             r == ResetQueues(p)
             bye == QueueControl(r, "DISCONNECT", no, c)
  <2>1. /\ DisconnectEvent(Client) /\ open[Client] # 0
        /\ UNCHANGED <<here, attempt, past, given>>
        /\ net' = net \union (IF p.state = "ZOMBIE" THEN {} ELSE Datagrams(Client, bye, bye.queued))
    BY <1>4 DEF ClientDisconnects, DisconnectEvent
  <2>2. c \in AnyCommand
    BY NewCommand DEF CommandNames, Control, Commands
  <2>3. r \in Peers /\ SameLink(r, p) /\ r.queued = {}
    BY <1>1, EmptyQueuesFields
  <2>4. "DISCONNECT" \in CommandNames /\ "DISCONNECT" # "CONNECT" /\ no \in BOOLEAN
    BY DEF CommandNames
  <2> HIDE DEF no, c, r
  <2>5. bye \in Peers /\ SameLink(bye, r)
    BY <2>2, <2>3, <2>4, ControlQueued, ControlFields
  <2>6. \A k \in bye.queued : k.cmd = "DISCONNECT"
    BY <2>2, <2>3, <2>4, ControlQueue
  <2> HIDE DEF bye
  <2>7. bye.queued \in SUBSET Commands /\ SameLink(bye, p)
    BY <2>3, <2>5 DEF Peers, SameLink
  <2>8. PICK cs \in SUBSET Commands : /\ net' = net \union Datagrams(Client, p, cs)
                                     /\ \A k \in cs : k.cmd = "DISCONNECT"
    <3>1. CASE p.state = "ZOMBIE"
      <4>1. net' = net \union Datagrams(Client, p, {}) /\ {} \in SUBSET Commands
        BY <1>1, <2>1, <3>1, NoDatagrams
      <4>2. QED
        BY <4>1
    <3>2. CASE p.state # "ZOMBIE"
      <4>1. net' = net \union Datagrams(Client, p, bye.queued)
        BY <1>1, <2>1, <2>7, <3>2, SameDatagrams
      <4>2. QED
        BY <2>6, <2>7, <4>1
    <3>3. QED
      BY <3>1, <3>2
  <2>9. \A k \in cs : CommandOK(Client, p, k, given)
    BY <2>8 DEF CommandOK
  <2>10. EndStep(Client, Reset(p), cs)
    BY <1>1, <2>1, <2>8, <2>9, EndGone
  <2>11. QED
    BY <1>1, <2>1, <2>10, GoneNoticed
<1>5. QED
  BY <1>2, <1>3, <1>4

LEMMA ServerEndStep ==
    ASSUME LinkOK, NEW q \in Slots, ServerCloses(q) \/ ServerKicks(q)
    PROVE  (\E p, cs : EndStep(q, p, cs)) /\ Noticed
<1> DEFINE p == peer[q]
<1>1. /\ q \in Ends /\ p \in Peers /\ Live(q) /\ p.state = "CONNECTED" /\ Counts
      /\ UNCHANGED <<here, attempt, open, taken, past>> /\ net' = net /\ p.connectID \in Attempts
  <2>1. q \in Ends
    BY DEF Ends
  <2>2. /\ p.state = "CONNECTED" /\ UNCHANGED <<here, attempt, open, taken, past>> /\ net' = net
    BY DEF ServerCloses, ServerKicks, Give
  <2>3. Live(q)
    BY <2>2 DEF Live
  <2>4. QED
    BY <2>1, <2>2, <2>3, AtLink
<1>2. GivenGrows /\ Noticed
  <2>1. CASE ServerCloses(q)
    <3>1. given' = given /\ UNCHANGED seen
      BY <2>1 DEF ServerCloses, seen
    <3>2. QED
      BY <1>1, <3>1, GivenStays DEF Noticed
  <2>2. CASE ServerKicks(q)
    BY <1>1, <2>2, OneMoreGiven, GiveNoticed DEF ServerKicks
  <2>3. QED
    BY <2>1, <2>2
<1>3. PICK r \in Peers : SameLink(r, p) /\ peer' = [peer EXCEPT ![q] = Disconnect(r)]
  <2>1. CASE ServerCloses(q)
    BY <1>1, <2>1 DEF ServerCloses, SameLink
  <2>2. CASE ServerKicks(q)
    <3>1. peer' = [peer EXCEPT ![q] = Disconnect(PeerSend(p))]
      BY <2>2 DEF ServerKicks
    <3>2. QED
      BY <1>1, <3>1, SendFields
  <2>3. QED
    BY <2>1, <2>2
<1> DEFINE n == Disconnect(r)
<1>4. /\ n \in Peers /\ SameLink(n, r) /\ n.state = "DISCONNECTING" /\ n.outSeq = 0
      /\ \A k \in n.queued : k.cmd = "DISCONNECT"
  BY DisconnectFields
<1>5. peer' = [peer EXCEPT ![q] = n]
  BY <1>3
<1> HIDE DEF n
<1>6. SameLink(n, p)
  BY <1>3, <1>4 DEF SameLink
<1>7. EndOK(q, n, given', taken[q], attempt)
  <2>1. given'[HostOf(q)][p.connectID] \in Nat
    BY <1>1, <1>2, AtLink DEF GivenGrows
  <2>2. QED
    BY <1>1, <1>4, <1>6, <2>1, EmptiedOK
<1>8. MayBecome(p.state, n.state)
  BY <1>1, <1>4 DEF MayBecome
<1>9. {} \in SUBSET Commands /\ net' = net \union Datagrams(q, peer[q], {})
  BY <1>1, NoDatagrams
<1>10. EndStep(q, n, {})
  BY <1>1, <1>2, <1>4, <1>5, <1>6, <1>7, <1>8, <1>9, SilentStep
<1>11. QED
  BY <1>2, <1>10

-----------------------------------------------------------------------------
(* The invariant, and what the games are told.                                *)

LEMMA LinkInit == Init => LinkOK
<1> SUFFICES ASSUME Init PROVE LinkOK
  OBVIOUS
<1>1. /\ \A e \in Ends : peer[e] = Unconnected /\ taken[e] = <<>> /\ open[e] = 0
      /\ net = {} /\ attempt = 0 /\ here = Server
      /\ Client \in Ends /\ Slots \subseteq Ends
  BY DEF Init, Ends
<1>2. /\ Unconnected.state = "DISCONNECTED" /\ Unconnected.outgoingPeerID = NoPeer
      /\ Unconnected.outSeq = 0 /\ Unconnected.inSeq = 0 /\ Unconnected.queued = {}
      /\ Unconnected.dispatched = <<>>
  BY DEF Unconnected
<1>3. EnetInv
  BY EnetInit
<1>4. Counts
  <2>1. <<>> \in Seq(Nat \X Nat) /\ taken = [e \in Ends |-> <<>>]
    BY DEF Init
  <2>2. past = [h \in Hosts |-> {}] /\ given = [h \in Hosts |-> [a \in Attempts |-> 0]]
    BY DEF Init
  <2>3. attempt <= MaxAttempts
    BY <1>1, SessionAssumption
  <2>4. QED
    BY <2>1, <2>2, <2>3 DEF Counts, Hosts
<1>5. EndsOK /\ AckingIsKnown
  BY <1>1, <1>2 DEF EndsOK, EndOK, AckingIsKnown
<1>6. SlotsOK /\ ClientOK
  BY <1>1, <1>2 DEF SlotsOK, SlotOK, ClientOK, Live
<1>7. NetOK
  BY <1>1 DEF NetOK
<1>8. Answered = {} /\ {r \in Slots : Live(r)} = {}
  BY <1>1, <1>2 DEF Answered, Live
<1>9. ClaimsAgree
  BY <1>1, <1>8 DEF ClaimsAgree, Claims
<1>10. UsesAgree
  BY <1>1, <1>2, <1>8 DEF UsesAgree
<1>11. QED
  BY <1>3, <1>4, <1>5, <1>6, <1>7, <1>9, <1>10 DEF LinkOK

LEMMA LinkUnchanged == ASSUME LinkOK, UNCHANGED vars PROVE LinkOK'
<1>1. /\ peer' = peer /\ here' = here /\ attempt' = attempt /\ net' = net /\ open' = open
      /\ taken' = taken /\ past' = past /\ given' = given
  BY DEF vars
<1>2. EnetInv' /\ Counts' /\ EndsOK' /\ AckingIsKnown'
  BY <1>1 DEF LinkOK, EnetInv, Types, Counts, EndsOK, AckingIsKnown
<1>3. SlotsOK' /\ ClientOK'
  <2>1. Answered' = Answered
    BY <1>1 DEF Answered
  <2>2. QED
    BY <1>1, <2>1 DEF LinkOK, SlotsOK, SlotOK, ClientOK, Live
<1>4. Answered' = Answered /\ Claims' = Claims /\ Uses' = Uses
  BY <1>1 DEF Answered, Claims, Claim, Live, Uses
<1>5. NetOK'
  BY <1>1, <1>4 DEF LinkOK, NetOK, FromServer, FromClient
<1>6. ClaimsAgree' /\ UsesAgree'
  BY <1>1, <1>4 DEF LinkOK, ClaimsAgree, UsesAgree
<1>7. QED
  BY <1>2, <1>3, <1>5, <1>6 DEF LinkOK

LEMMA LinkStep ==
    ASSUME LinkOK, [Next]_vars, ~idRepeated'
    PROVE  LinkOK' /\ Noticed
<1>1. EnetInv'
  BY EnetStep DEF LinkOK
<1>2. ASSUME NEW e \in Ends, (\E p, cs : EndStep(e, p, cs)) /\ Noticed
      PROVE  LinkOK' /\ Noticed
  BY <1>1, <1>2, EndStepKept
<1>3. CASE \E e \in Ends : Service(e) \/ Sends(e)
  <2>1. PICK e \in Ends : Service(e) \/ Sends(e)
    BY <1>3
  <2>2. ASSUME NEW m \in net, HandleVerifyConnect(e, m), peer[e].state = "CONNECTING",
               Verifies(peer[e], m.command)
        PROVE  LinkOK' /\ Noticed
    <3>1. LinkOK' /\ e = Client /\ ConnectEvent(e, peer[e].connectID)
      BY <1>1, <2>2, AnswerTaken
    <3>2. Live(e) /\ HostOf(e) = "client"
      BY <2>2, <3>1 DEF Live, HostOf
    <3>3. open[e] = 0 /\ peer[e].connectID \in Attempts
      BY <2>2, <3>2, AtLink DEF PeerOK
    <3>4. peer[e].connectID \notin past[HostOf(e)]
      BY <2>2, <3>1, <3>2 DEF LinkOK, ClientOK
    <3>5. QED
      BY <3>1, <3>3, <3>4, ConnectNoticed
  <2>3. QED
    BY <1>2, <2>1, <2>2, ServiceStep, SendsStep
<1>4. CASE ClientGivesUp \/ ClientDisconnects \/ ClientVanishes
  <2>1. Client \in Ends
    BY DEF Ends
  <2>2. QED
    BY <1>2, <1>4, <2>1, ClientEndStep
<1>5. CASE \E q \in Slots : ServerCloses(q) \/ ServerKicks(q)
  <2>1. Slots \subseteq Ends
    BY DEF Ends
  <2>2. QED
    BY <1>2, <1>5, <2>1, ServerEndStep
<1>6. CASE ClientConnects
  BY <1>1, <1>6, AttemptKept DEF ClientConnects, Noticed, seen
<1>7. CASE \E q \in Slots : \E m \in net : HandleConnect(q, m)
  BY <1>1, <1>7, ConnectKept DEF HandleConnect, Noticed, seen
<1>8. CASE UNCHANGED vars
  BY <1>8, LinkUnchanged DEF vars, Noticed, seen
<1>9. QED
  BY <1>3, <1>4, <1>5, <1>6, <1>7, <1>8 DEF Next

-----------------------------------------------------------------------------
(* With session ids that come again, the events still alternate at every end.  *)
TakenOK == taken \in [Ends -> Seq(Nat \X Nat)]

Alternates == Events!MixedNext \/ UNCHANGED seen

LEMMA TakenStays ==
    ASSUME TakenOK, UNCHANGED seen
    PROVE  TakenOK' /\ Alternates
BY DEF TakenOK, Alternates, seen

LEMMA GoneAlternates ==
    ASSUME TakenOK, NEW e \in Ends, DisconnectEvent(e), open[e] # 0
    PROVE  TakenOK' /\ Alternates
<1>1. Events!Disconnected(e)
  BY DEF DisconnectEvent, Events!Disconnected
<1>2. TakenOK'
  BY DEF TakenOK, DisconnectEvent
<1>3. QED
  BY <1>1, <1>2 DEF Alternates, Events!MixedNext

LEMMA ReportAlternates ==
    ASSUME TakenOK, NEW e \in Ends, NEW a \in Attempts, ConnectEvent(e, a), open[e] = 0
    PROVE  TakenOK' /\ Alternates
<1>1. Events!Reported(e, a)
  BY DEF ConnectEvent, Events!Reported
<1>2. TakenOK'
  BY DEF TakenOK, ConnectEvent
<1>3. QED
  BY <1>1, <1>2 DEF Alternates, Events!MixedNext

LEMMA GiveAlternates ==
    ASSUME TakenOK, NEW e \in Ends, Give(e), peer[e].connectID \in Attempts
    PROVE  TakenOK' /\ Alternates
<1>1. HostOf(e) \in Events!Hosts
  BY DEF Events!Hosts
<1>2. Events!Give(HostOf(e), peer[e].connectID)
  BY DEF Give, Events!Give
<1>3. TakenOK'
  BY DEF TakenOK, Give
<1>4. QED
  BY <1>1, <1>2, <1>3 DEF Alternates, Events!MixedNext

LEMMA TakeAlternates ==
    ASSUME EnetInv, TakenOK, NEW e \in Ends, DispatchReceive(e)
    PROVE  TakenOK' /\ Alternates
<1> DEFINE t == taken[e]
           x == Head(peer[e].dispatched)
<1>1. t \in Seq(Nat \X Nat) /\ x \in Nat \X Nat
  <2>1. peer[e].dispatched \in Seq(Nat \X Nat) /\ peer[e].dispatched # <<>>
    BY DEF EnetInv, Types, Peers, DispatchReceive
  <2>2. QED
    BY <2>1 DEF TakenOK
<1>2. taken' = [taken EXCEPT ![e] = Append(t, x)] /\ UNCHANGED <<open, past, given>>
  BY DEF DispatchReceive
<1>3. open[e] # 0
  BY DEF EnetInv, PeerOK, DispatchReceive
<1> HIDE DEF t, x
<1>4. /\ Append(t, x) \in Seq(Nat \X Nat) /\ Len(Append(t, x)) = Len(t) + 1
      /\ Append(t, x)[Len(t) + 1] = x
  BY <1>1
<1>5. taken'[e] = Append(t, x)
  BY <1>2 DEF TakenOK
<1>6. Events!Strayed(e)
  BY <1>2, <1>3, <1>4, <1>5 DEF Events!Strayed, t
<1>7. TakenOK'
  BY <1>2, <1>4 DEF TakenOK
<1>8. QED
  BY <1>6, <1>7 DEF Alternates, Events!MixedNext

LEMMA NotifyAlternates ==
    ASSUME EnetInv, TakenOK, NEW e \in Ends, NotifyDisconnect(e),
           peer[e].state \notin {"DISCONNECTED", "ZOMBIE"}
    PROVE  TakenOK' /\ Alternates
<1>1. CASE peer[e].state \in {"ACKNOWLEDGING_CONNECT", "CONNECTING"}
  BY <1>1, TakenStays DEF NotifyDisconnect
<1>2. CASE peer[e].state \notin {"ACKNOWLEDGING_CONNECT", "CONNECTING"}
  <2>1. peer[e].state \in States
    BY DEF EnetInv, Types, Peers
  <2>2. peer[e].state \in {"CONNECTED", "DISCONNECTING", "ACKNOWLEDGING_DISCONNECT"}
    BY <1>2, <2>1 DEF States
  <2>3. open[e] # 0
    BY <2>2 DEF EnetInv, PeerOK
  <2>4. QED
    BY <1>2, <2>3, GoneAlternates DEF NotifyDisconnect
<1>3. QED
  BY <1>1, <1>2

LEMMA ServiceAlternates ==
    ASSUME EnetInv, TakenOK, NEW e \in Ends, Service(e)
    PROVE  TakenOK' /\ Alternates
<1>1. ASSUME NEW m \in net, HandleVerifyConnect(e, m) PROVE TakenOK' /\ Alternates
  <2>1. CASE peer[e].state = "CONNECTING" /\ Verifies(peer[e], m.command)
    <3>1. ConnectEvent(e, peer[e].connectID)
      BY <1>1, <2>1 DEF HandleVerifyConnect
    <3>2. open[e] = 0 /\ peer[e].connectID \in Attempts
      BY <2>1 DEF EnetInv, PeerOK
    <3>3. QED
      BY <3>1, <3>2, ReportAlternates
  <2>2. CASE ~(peer[e].state = "CONNECTING" /\ Verifies(peer[e], m.command))
    <3>1. UNCHANGED seen
      BY <1>1, <2>2 DEF HandleVerifyConnect, seen
    <3>2. QED
      BY <3>1, TakenStays
  <2>3. QED
    BY <2>1, <2>2
<1>2. ASSUME NEW m \in net, HandleAcknowledge(e, m) PROVE TakenOK' /\ Alternates
  <2> DEFINE done == {c \in peer[e].sent : c.ch = m.command.ch /\ c.seq = m.command.seq}
  <2>1. CASE Completes(peer[e], done)
    <3>1. ConnectEvent(e, peer[e].connectID)
      BY <1>2, <2>1 DEF HandleAcknowledge
    <3>2. open[e] = 0 /\ peer[e].connectID \in Attempts
      BY <2>1 DEF EnetInv, PeerOK, Completes
    <3>3. QED
      BY <3>1, <3>2, ReportAlternates
  <2>2. CASE ~Completes(peer[e], done)
    <3>1. NotifyDisconnect(e) \/ UNCHANGED seen
      BY <1>2, <2>2 DEF HandleAcknowledge
    <3>2. peer[e].state \notin {"DISCONNECTED", "ZOMBIE"}
      BY <1>2 DEF HandleAcknowledge, Accepts
    <3>3. QED
      BY <3>1, <3>2, NotifyAlternates, TakenStays
  <2>3. QED
    BY <2>1, <2>2
<1>3. ASSUME \/ \E m \in net : HandleDisconnect(e, m) \/ HandleSendReliable(e, m)
             \/ SendOutgoing(e) \/ AcknowledgeDisconnect(e)
      PROVE  TakenOK' /\ Alternates
  <2>1. UNCHANGED seen
    BY <1>3 DEF HandleDisconnect, HandleSendReliable, SendOutgoing, AcknowledgeDisconnect, seen
  <2>2. QED
    BY <2>1, TakenStays
<1>4. CASE CheckTimeouts(e)
  BY <1>4, NotifyAlternates DEF CheckTimeouts
<1>5. CASE DispatchReceive(e)
  BY <1>5, TakeAlternates
<1>6. CASE DispatchDisconnect(e)
  BY <1>6, GoneAlternates, TakenStays DEF DispatchDisconnect
<1>7. QED
  BY <1>1, <1>2, <1>3, <1>4, <1>5, <1>6 DEF Service, Receive

LEMMA GameAlternates ==
    ASSUME EnetInv, TakenOK,
           \/ ClientConnects \/ ClientGivesUp \/ ClientDisconnects \/ ClientVanishes
           \/ \E e \in Ends : Sends(e)
           \/ \E q \in Slots : ServerCloses(q) \/ ServerKicks(q) \/ \E m \in net : HandleConnect(q, m)
    PROVE  TakenOK' /\ Alternates
<1>1. Client \in Ends /\ Slots \subseteq Ends
  BY DEF Ends
<1>2. CASE \/ ClientConnects \/ ClientGivesUp
           \/ \E q \in Slots : ServerCloses(q) \/ \E m \in net : HandleConnect(q, m)
  <2>1. UNCHANGED seen
    BY <1>2 DEF ClientConnects, ClientGivesUp, ServerCloses, HandleConnect, seen
  <2>2. QED
    BY <2>1, TakenStays
<1>3. CASE ClientDisconnects \/ ClientVanishes
  BY <1>1, <1>3, GoneAlternates DEF ClientDisconnects, ClientVanishes
<1>4. ASSUME NEW e \in Ends, Sends(e) \/ (e \in Slots /\ ServerKicks(e))
      PROVE  TakenOK' /\ Alternates
  <2>1. Give(e) /\ peer[e].state = "CONNECTED"
    BY <1>4 DEF Sends, ServerKicks
  <2>2. peer[e].connectID \in Attempts
    BY <2>1 DEF EnetInv, PeerOK
  <2>3. QED
    BY <2>1, <2>2, GiveAlternates
<1>5. QED
  BY <1>1, <1>2, <1>3, <1>4

LEMMA AlternateStep ==
    ASSUME EnetInv, TakenOK, [Next]_vars
    PROVE  TakenOK' /\ Alternates
<1>1. CASE UNCHANGED vars
  BY <1>1, TakenStays DEF vars, seen
<1>2. QED
  BY <1>1, ServiceAlternates, GameAlternates DEF Next

(***************************************************************************)
(* The results.                                                            *)
(***************************************************************************)

(* Until an address is given a session id again, no two of the server's peers    *)
(* and the answers under way share an address and a session id, and every        *)
(* datagram is of one of them.                                               *)
SoFarApart == TakenOK /\ (idRepeated \/ LinkOK)

LEMMA RepeatedStays ==
    ASSUME [Next]_vars, idRepeated
    PROVE  idRepeated'
<1>1. CASE Next
  <2>1. CASE \E e \in Ends : Service(e) \/ Sends(e)
    BY <2>1 DEF Service, Receive, HandleVerifyConnect, HandleAcknowledge, HandleDisconnect,
                HandleSendReliable, SendOutgoing, AcknowledgeDisconnect, CheckTimeouts,
                DispatchReceive, DispatchDisconnect, Sends
  <2>2. CASE \/ ClientConnects \/ ClientGivesUp \/ ClientDisconnects \/ ClientVanishes
             \/ \E q \in Slots : ServerCloses(q) \/ ServerKicks(q)
    BY <2>2 DEF ClientConnects, ClientGivesUp, ClientDisconnects, ClientVanishes, ServerCloses,
                ServerKicks
  <2>3. CASE \E q \in Slots : \E m \in net : HandleConnect(q, m)
    BY <2>3 DEF HandleConnect
  <2>4. QED
    BY <1>1, <2>1, <2>2, <2>3 DEF Next
<1>2. CASE UNCHANGED vars
  BY <1>2 DEF vars
<1>3. QED
  BY <1>1, <1>2

LEMMA ConnectionsAgree == Spec => [](EnetInv /\ SoFarApart)
<1>1. Init => EnetInv /\ SoFarApart
  <2>1. Init => TakenOK
    BY DEF Init, TakenOK
  <2>2. QED
    BY <2>1, EnetInit, LinkInit DEF SoFarApart
<1>2. EnetInv /\ SoFarApart /\ [Next]_vars => EnetInv' /\ SoFarApart'
  BY EnetStep, LinkStep, RepeatedStays, AlternateStep DEF SoFarApart
<1>3. QED
  BY <1>1, <1>2, PTL DEF Spec

(* As long as no address was given a session id again, the server's game is told *)
(* of a connection only after the client's game was; over any number of attempts, *)
(* repeated connects and lost or late datagrams.                               *)
THEOREM ConnectsAreMutual == Spec => []ConnectIsMutual
<1>1. SoFarApart => ConnectIsMutual
  BY DEF SoFarApart, LinkOK, Counts, ConnectIsMutual
<1>2. QED
  BY <1>1, ConnectionsAgree, PTL

(* The events of enet_host_service() alternate at every end, CONNECT, packets and *)
(* DISCONNECT, whatever the session ids; and as long as no address was given a     *)
(* session id again they are one CONNECT for each attempt and host and the        *)
(* packets given to that connection, in order and each once.  For any number of   *)
(* peers, addresses and packets, and a network that loses, repeats and delays.    *)
THEOREM SessionIsPeerEvents == Spec => IsPeerEvents
<1>1. Init => Events!EventInit
  <2>1. Events!Hosts = Hosts
    <3>1. 0 \in Slots /\ 0 # Client /\ Client \in Ends /\ 0 \in Ends
      BY SessionAssumption DEF Slots, Client, Ends
    <3>2. HostOf(0) = "server" /\ HostOf(Client) = "client"
      BY <3>1 DEF HostOf
    <3>3. "server" \in Events!Hosts /\ "client" \in Events!Hosts
      BY <3>1, <3>2 DEF Events!Hosts
    <3>4. QED
      BY <3>3 DEF Events!Hosts, Hosts, HostOf
  <2>2. QED
    BY <2>1 DEF Init, Events!EventInit
<1>2. EnetInv /\ SoFarApart /\ [Next]_vars
        => [Events!EventNext \/ (idRepeated' /\ Events!MixedNext)]_(Events!eventVars)
  <2> SUFFICES ASSUME EnetInv, SoFarApart, [Next]_vars
               PROVE  \/ Events!EventNext \/ (idRepeated' /\ Events!MixedNext)
                      \/ UNCHANGED seen
    BY DEF seen, Events!eventVars
  <2>1. CASE idRepeated'
    BY <2>1, AlternateStep DEF SoFarApart, Alternates
  <2>2. CASE ~idRepeated'
    BY <2>2, RepeatedStays, LinkStep DEF SoFarApart, Noticed
  <2>3. QED
    BY <2>1, <2>2
<1>3. QED
  BY <1>1, <1>2, ConnectionsAgree, PTL DEF Spec, IsPeerEvents
=============================================================================
