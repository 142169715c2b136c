----------------------------- MODULE GameServer -----------------------------
(***************************************************************************)
(* The dedicated server: MatchFlow driven by the packets and disconnects of *)
(* its two transports.  NetServer (ENet) and NetStreamServer (TCP behind    *)
(* the relay) each keep a registry, clientsByPlayerId and playerIdByPeer;   *)
(* NetGameHost joins them; server_main.cpp has the handlers.                *)
(*                                                                         *)
(* A peer is the handle the registries are keyed by: an ENetPeer of the     *)
(* host's fixed array, or the descriptor of an accepted socket.  Both are   *)
(* reused for later connections.  The server is single threaded: a handler  *)
(* runs to its end, and events arrive in any order.  Packets to the clients *)
(* are left out, and so are C_INPUT and what poll() does to its own list    *)
(* of sockets when a handler closes one of them.                           *)
(***************************************************************************)
EXTENDS MatchFlow

CONSTANTS
    EnetPeers,       \* the peer structures of the ENet host
    StreamPeers,     \* the socket descriptors accept() hands out
    NoPeer

Peers == EnetPeers \cup StreamPeers
Kinds == {"Enet", "Stream"}
KindOf(peer) == IF peer \in EnetPeers THEN "Enet" ELSE "Stream"

ASSUME PeerAssumption ==
    /\ EnetPeers \cap StreamPeers = {}
    /\ NoPeer \notin Peers

VARIABLES
    conn,                \* "free"; "open": connected; "joined": told S_JOIN_OK;
                         \* "closing": an ENet disconnect is under way
    clientsByPlayerId,   \* of each kind: the peer registered for an id, or NoPeer
    playerIdByPeer,      \* the id registered for a peer, or NoPlayer
    kicked               \* history: a match has ended and its players were kicked

hostVars   == <<conn, clientsByPlayerId, playerIdByPeer, kicked>>
serverVars == <<vars, hostVars>>

-----------------------------------------------------------------------------
(* The registries.                                                         *)

Listening(peer)  == conn[peer] \in {"open", "joined"}
Registered(peer) == playerIdByPeer[peer] # NoPlayer

RegisterClient(peer, id) ==
    /\ clientsByPlayerId' = [clientsByPlayerId EXCEPT ![KindOf(peer)][id] = peer]
    /\ playerIdByPeer' = [playerIdByPeer EXCEPT ![peer] = id]

\* Mutated form: the entry of the player id is left behind.
UnregisterHalf(peer) ==
    /\ playerIdByPeer' = [playerIdByPeer EXCEPT ![peer] = NoPlayer]
    /\ UNCHANGED clientsByPlayerId

\* The entry of the peer's id goes, whichever peer is registered for that id.
UnregisterPeer(peer) ==
    /\ clientsByPlayerId' =
         IF Registered(peer)
         THEN [clientsByPlayerId EXCEPT ![KindOf(peer)][playerIdByPeer[peer]] = NoPeer]
         ELSE clientsByPlayerId
    /\ playerIdByPeer' = [playerIdByPeer EXCEPT ![peer] = NoPlayer]

\* Mutated form: a socket is only shut down, and waits for a report as ENet does.
AfterShutdownOnly(peer) == IF Listening(peer) THEN "closing" ELSE conn[peer]

(* disconnectPeer(): ENet reports the end of the connection later, as an    *)
(* event; a socket is closed on the spot, and nothing is reported.          *)
AfterDisconnect(peer) ==
    IF peer \in StreamPeers THEN "free"
    ELSE IF Listening(peer) THEN "closing" ELSE conn[peer]

DisconnectPeer(peer) == conn' = [conn EXCEPT ![peer] = AfterDisconnect(peer)]

\* getConnectedPlayerIds(), and the peers disconnectPlayer() closes for them.
KickedPeers ==
    {clientsByPlayerId[k][id] : k \in Kinds, id \in Ids} \ {NoPeer}

\* Mutated form: nobody is removed from a match that is on.
RemoveBeforeMatchOnly(id) ==
    IF id \in Slots /\ phase \in {"IDLE", "QUEUE", "COUNTDOWN"}
    THEN RemovePlayer(id) ELSE UNCHANGED vars

\* removePlayer() with its range check: a stale id may be beyond the slots.
RemovePlayerChecked(id) ==
    IF id \in Slots THEN RemovePlayer(id) ELSE UNCHANGED vars

-----------------------------------------------------------------------------
ServerInit ==
    /\ Init
    /\ conn = [peer \in Peers |-> "free"]
    /\ clientsByPlayerId = [k \in Kinds |-> [id \in Ids |-> NoPeer]]
    /\ playerIdByPeer = [peer \in Peers |-> NoPlayer]
    /\ kicked = FALSE

(* A client connects; the stream server accepts at most kMaxPlayers sockets. *)
Connect(peer) ==
    /\ conn[peer] = "free"
    /\ peer \in StreamPeers =>
         Cardinality({s \in StreamPeers : Listening(s)}) < kMaxPlayers
    /\ conn' = [conn EXCEPT ![peer] = "open"]
    /\ UNCHANGED <<vars, clientsByPlayerId, playerIdByPeer, kicked>>

(* C_JOIN that succeeds.  A peer the registry takes for a player already is *)
(* ignored: no action.                                                     *)
HandleJoin(peer) ==
    /\ Listening(peer)
    /\ ~Registered(peer)
    /\ TryJoinQueue
    /\ RegisterClient(peer, FirstFreeSlot)
    /\ conn' = [conn EXCEPT ![peer] = "joined"]
    /\ UNCHANGED kicked

(* C_JOIN that is refused: S_JOIN_FAIL, and the connection is closed.       *)
HandleJoinRefused(peer, nameIsValid) ==
    /\ Listening(peer)
    /\ ~Registered(peer)
    /\ JoinResult(nameIsValid) # "OK"
    /\ DisconnectPeer(peer)
    /\ UNCHANGED <<vars, clientsByPlayerId, playerIdByPeer, kicked>>

HandleReady(peer) ==
    /\ Listening(peer)
    /\ Registered(peer)
    /\ PressReadyForPlayer(playerIdByPeer[peer])
    /\ UNCHANGED hostVars

\* Mutated form: the registration outlives the player.
HandleLeaveStaysRegistered(peer) ==
    /\ Listening(peer)
    /\ Registered(peer)
    /\ RemovePlayerChecked(playerIdByPeer[peer])
    /\ DisconnectPeer(peer)
    /\ UNCHANGED <<clientsByPlayerId, playerIdByPeer, kicked>>

HandleLeave(peer) ==
    /\ Listening(peer)
    /\ Registered(peer)
    /\ RemovePlayerChecked(playerIdByPeer[peer])
    /\ UnregisterPeer(peer)
    /\ DisconnectPeer(peer)
    /\ UNCHANGED kicked

HandleSpectate(peer, direction) ==
    /\ Listening(peer)
    /\ Registered(peer)
    /\ SpectateForPlayer(direction)
    /\ UNCHANGED hostVars

(* The end of a connection is reported: the client left or was lost, or, of *)
(* ENet, the disconnect the server asked for is complete.                   *)
HandleDisconnect(peer) ==
    /\ conn[peer] # "free"
    /\ IF Registered(peer) THEN RemovePlayerChecked(playerIdByPeer[peer])
                           ELSE UNCHANGED vars
    /\ UnregisterPeer(peer)
    /\ conn' = [conn EXCEPT ![peer] = "free"]
    /\ UNCHANGED kicked

(* A tick of the main loop that ends no match.                              *)
TickOnly ==
    /\ \/ TickCountdown
       \/ StartMatch
       \/ \E dead \in SUBSET Ids : TickMatch(dead)
       \/ EndMatch
       \/ TickResults
    /\ UNCHANGED hostVars

(* The tick that ends the results: every registered player is disconnected,  *)
(* nobody is unregistered, and the room is cleared.                         *)
KickEverybody ==
    /\ ReturnPlayersToMenu
    /\ conn' = [peer \in Peers |->
                  IF peer \in KickedPeers THEN AfterDisconnect(peer) ELSE conn[peer]]
    /\ kicked' = TRUE
    /\ UNCHANGED <<clientsByPlayerId, playerIdByPeer>>

ServerNext ==
    \/ \E peer \in Peers :
        \/ Connect(peer)
        \/ HandleJoin(peer)
        \/ \E nameIsValid \in BOOLEAN : HandleJoinRefused(peer, nameIsValid)
        \/ HandleReady(peer)
        \/ HandleLeave(peer)
        \/ \E direction \in {-1, 1} : HandleSpectate(peer, direction)
        \/ HandleDisconnect(peer)
    \/ TickOnly
    \/ KickEverybody

ServerSpec == ServerInit /\ [][ServerNext]_serverVars

(* The main loop never stops ticking; nothing obliges a client to act.       *)
FairServerSpec == ServerSpec /\ WF_serverVars(TickOnly \/ KickEverybody)

-----------------------------------------------------------------------------
(* Properties.                                                             *)

ServerTypeOK ==
    /\ conn \in [Peers -> {"free", "open", "joined", "closing"}]
    /\ \A s \in StreamPeers : conn[s] # "closing"
    /\ clientsByPlayerId \in [Kinds -> [Ids -> Peers \cup {NoPeer}]]
    /\ playerIdByPeer \in [Peers -> Ids \cup {NoPlayer}]
    /\ kicked \in BOOLEAN

(* Nobody is left in the room without a connection: every connected slot     *)
(* was given to a peer that is still there and registered for it, so that    *)
(* the end of that connection frees the slot.  This also holds while stale   *)
(* registrations of kicked players are around.                              *)
NoGhostPlayers ==
    \A id \in connected : \E peer \in Peers :
        conn[peer] = "joined" /\ playerIdByPeer[peer] = id

(* What a broadcast or a kick addresses as player id is a peer of that       *)
(* transport whose own packets are taken for id's.                          *)
RegistriesAgree ==
    \A k \in Kinds : \A id \in Ids :
        LET peer == clientsByPlayerId[k][id]
        IN  peer # NoPeer => KindOf(peer) = k /\ playerIdByPeer[peer] = id

(* Until the first match has ended, registered peers and connected players   *)
(* correspond one to one over both transports, and each player is reached    *)
(* by the broadcasts of the transport it came by.                           *)
OneToOneInFirstMatch ==
    ~kicked =>
        /\ \A peer \in Peers : Registered(peer) <=> conn[peer] = "joined"
        /\ \A peer \in Peers : Registered(peer) =>
             /\ playerIdByPeer[peer] \in connected
             /\ clientsByPlayerId[KindOf(peer)][playerIdByPeer[peer]] = peer
        /\ \A p, q \in Peers :
             Registered(p) /\ playerIdByPeer[p] = playerIdByPeer[q] => p = q

-----------------------------------------------------------------------------
(* A claim of the design document that the code does not keep.             *)

(* PLAN.md: "players must press Join Queue again from title" after a match:  *)
(* a new connection that has not joined yet is not taken for a player, or    *)
(* its C_JOIN would be ignored.                                             *)
FreshConnectionMayJoin ==
    \A peer \in Peers : conn[peer] = "open" => ~Registered(peer)
=============================================================================
