-------------------------- MODULE GameServerProofs --------------------------
(***************************************************************************)
(* The server's registries, for any number of peers of both transports: the *)
(* server runs MatchFlow, whose theorems therefore hold of it, and the      *)
(* registries keep their promises.                                          *)
(***************************************************************************)
EXTENDS GameServer, MatchFlowProofs

(***************************************************************************)
(* The inductive invariant.  The registries' invariants rest on each other  *)
(* and on the match flow's: a join registers a slot nobody has, so that two *)
(* registered peers share an id only once kicked players are among them.   *)
(***************************************************************************)
ServerInv ==
    IInv /\ ServerTypeOK /\ NoGhostPlayers /\ RegistriesAgree /\ OneToOneInFirstMatch

(* A registered peer has an id of the room.                                 *)
LEMMA RegisteredId ==
    ASSUME ServerTypeOK, NEW peer \in Peers, Registered(peer)
    PROVE  playerIdByPeer[peer] \in Ids
  BY DEF ServerTypeOK, Registered

(* removePlayer() with its range check: no more than that player leaves.    *)
LEMMA RemovalRemoves ==
    ASSUME IInv, NEW id \in Ids, RemovePlayerChecked(id)
    PROVE  /\ [Next]_vars
           /\ connected' = connected \ {id}
<1>1. TypeOK /\ connected \subseteq Slots
  BY DEF IInv, TypeOK
<1>2. CASE id \in Slots
  BY <1>2 DEF RemovePlayerChecked, RemovePlayer, Next
<1>3. CASE id \notin Slots
  BY <1>1, <1>3 DEF RemovePlayerChecked, vars, slotVars
<1>4. QED
  BY <1>2, <1>3

(* A join is the match flow's, and gives a free slot to one player more.     *)
LEMMA JoinConnects ==
    ASSUME IInv, NEW peer \in Peers, HandleJoin(peer)
    PROVE  /\ [Next]_vars
           /\ FirstFreeSlot \in Ids \ connected
           /\ connected' = connected \cup {FirstFreeSlot}
  BY FreeSlotExists DEF IInv, HandleJoin, TryJoinQueue, Next

\* A connection, a refusal, a Ready, a spectator's click, a tick that ends no match.
Bystander ==
    \/ \E peer \in Peers :
        \/ Connect(peer)
        \/ \E nameIsValid \in BOOLEAN : HandleJoinRefused(peer, nameIsValid)
        \/ HandleReady(peer)
        \/ \E direction \in {-1, 1} : HandleSpectate(peer, direction)
    \/ TickOnly

(* These move nobody in or out of the room.                                 *)
LEMMA BystanderKeepsRoom ==
    ASSUME IInv, ServerTypeOK, Bystander
    PROVE  [Next]_vars /\ connected' = connected
<1>1. CASE \E peer \in Peers : Connect(peer)
  BY <1>1 DEF Connect, vars, slotVars
<1>2. CASE \E peer \in Peers : \E b \in BOOLEAN : HandleJoinRefused(peer, b)
  BY <1>2 DEF HandleJoinRefused, vars, slotVars
<1>3. ASSUME NEW peer \in Peers, HandleReady(peer)
      PROVE  [Next]_vars /\ connected' = connected
  BY <1>3, RegisteredId DEF HandleReady, PressReadyForPlayer, PlacePlayersAtSpawn, Next
<1>4. CASE \E peer \in Peers : \E d \in {-1, 1} : HandleSpectate(peer, d)
  BY <1>4 DEF HandleSpectate, SpectateForPlayer, slotVars, Next
<1>5. CASE TickOnly
  <2>1. ServerTick
    BY <1>5 DEF TickOnly, ServerTick
  <2>2. connected' = connected
    BY <1>5 DEF TickOnly, TickCountdown, StartMatch, TickMatch, EndMatch, TickResults, slotVars
  <2>3. QED
    BY <2>1, <2>2 DEF Next
<1>6. QED
  BY <1>1, <1>2, <1>3, <1>4, <1>5 DEF Bystander

(* The entries unregisterPeer() leaves, one by one.                          *)
LEMMA UnregisterErases ==
    ASSUME ServerTypeOK, NEW peer \in Peers, UnregisterPeer(peer)
    PROVE  /\ playerIdByPeer' \in [Peers -> Ids \cup {NoPlayer}]
           /\ clientsByPlayerId' \in [Kinds -> [Ids -> Peers \cup {NoPeer}]]
           /\ playerIdByPeer'[peer] = NoPlayer
           /\ \A q \in Peers \ {peer} : playerIdByPeer'[q] = playerIdByPeer[q]
           /\ \A k \in Kinds : \A id \in Ids :
                clientsByPlayerId'[k][id] =
                  IF Registered(peer) /\ k = KindOf(peer) /\ id = playerIdByPeer[peer]
                  THEN NoPeer ELSE clientsByPlayerId[k][id]
<1>1. KindOf(peer) \in Kinds
  BY DEF KindOf, Kinds
<1>2. playerIdByPeer' = [playerIdByPeer EXCEPT ![peer] = NoPlayer]
  BY DEF UnregisterPeer
<1>3. CASE Registered(peer)
  <2>1. playerIdByPeer[peer] \in Ids
    BY <1>3, RegisteredId
  <2>2. clientsByPlayerId' =
          [clientsByPlayerId EXCEPT ![KindOf(peer)][playerIdByPeer[peer]] = NoPeer]
    BY <1>3 DEF UnregisterPeer
  <2>3. QED
    BY <1>1, <1>2, <1>3, <2>1, <2>2 DEF ServerTypeOK
<1>4. CASE ~Registered(peer)
  BY <1>2, <1>4 DEF ServerTypeOK, UnregisterPeer
<1>5. QED
  BY <1>3, <1>4

(* The entries registerClient() leaves, one by one.                          *)
LEMMA RegisterAdds ==
    ASSUME ServerTypeOK, NEW peer \in Peers, NEW new \in Ids, RegisterClient(peer, new)
    PROVE  /\ playerIdByPeer' \in [Peers -> Ids \cup {NoPlayer}]
           /\ clientsByPlayerId' \in [Kinds -> [Ids -> Peers \cup {NoPeer}]]
           /\ playerIdByPeer'[peer] = new
           /\ \A q \in Peers \ {peer} : playerIdByPeer'[q] = playerIdByPeer[q]
           /\ \A k \in Kinds : \A id \in Ids :
                clientsByPlayerId'[k][id] =
                  IF k = KindOf(peer) /\ id = new THEN peer ELSE clientsByPlayerId[k][id]
<1>1. KindOf(peer) \in Kinds
  BY DEF KindOf, Kinds
<1>2. QED
  BY <1>1 DEF ServerTypeOK, RegisterClient

(* What closing a connection makes of its state.                             *)
LEMMA Closed ==
    ASSUME ServerTypeOK, NEW peer \in Peers
    PROVE  /\ AfterDisconnect(peer) \in {"free", "open", "joined", "closing"}
           /\ peer \in StreamPeers => AfterDisconnect(peer) = "free"
           /\ AfterDisconnect(peer) # "joined"
  BY DEF AfterDisconnect, Listening, ServerTypeOK

-----------------------------------------------------------------------------
(* The registries are empty, and so is the room.                             *)
LEMMA ServerInitInv == ServerInit => ServerInv
<1> SUFFICES ASSUME ServerInit PROVE ServerInv
  OBVIOUS
<1>1. IInv /\ connected = {}
  BY InitIInv DEF ServerInit, Init
<1>2. ServerTypeOK
  BY DEF ServerInit, ServerTypeOK, Peers
<1>3. NoGhostPlayers /\ RegistriesAgree /\ OneToOneInFirstMatch
  BY <1>1 DEF ServerInit, NoGhostPlayers, RegistriesAgree, OneToOneInFirstMatch, Registered
<1>4. QED
  BY <1>1, <1>2, <1>3 DEF ServerInv

(* A connection that is not registered comes, or is refused.                 *)
LEMMA ConnectionInv ==
    ASSUME ServerInv, NEW peer \in Peers,
           \/ Connect(peer)
           \/ \E nameIsValid \in BOOLEAN : HandleJoinRefused(peer, nameIsValid)
    PROVE  ServerInv'
<1>1. IInv /\ ServerTypeOK /\ NoGhostPlayers /\ RegistriesAgree /\ OneToOneInFirstMatch
  BY DEF ServerInv
<1>2. IInv' /\ connected' = connected
  <2>1. [Next]_vars /\ connected' = connected
    BY <1>1, BystanderKeepsRoom DEF Bystander
  <2>2. QED
    BY <1>1, <2>1, NextIInv
<1>3. /\ conn' \in [Peers -> {"free", "open", "joined", "closing"}]
      /\ \A s \in StreamPeers : conn'[s] # "closing"
      /\ conn[peer] # "joined" \/ (Listening(peer) /\ ~Registered(peer))
      /\ conn'[peer] # "joined"
      /\ \A q \in Peers \ {peer} : conn'[q] = conn[q]
      /\ UNCHANGED <<clientsByPlayerId, playerIdByPeer, kicked>>
  <2>1. CASE Connect(peer)
    BY <1>1, <2>1 DEF Connect, ServerTypeOK
  <2>2. CASE \E b \in BOOLEAN : HandleJoinRefused(peer, b)
    BY <1>1, <2>2, Closed DEF HandleJoinRefused, DisconnectPeer, ServerTypeOK
  <2>3. QED
    BY <2>1, <2>2
<1>4. ServerTypeOK'
  BY <1>1, <1>3 DEF ServerTypeOK
<1>5. conn[peer] = "joined" => playerIdByPeer[peer] \notin connected
  BY <1>1, <1>3 DEF Registered, IInv, TypeOK, Slots, NoPlayer
<1>6. NoGhostPlayers'
  BY <1>1, <1>2, <1>3, <1>5 DEF NoGhostPlayers
<1>7. RegistriesAgree'
  BY <1>1, <1>3 DEF RegistriesAgree
<1>8. OneToOneInFirstMatch'
  BY <1>1, <1>2, <1>3 DEF OneToOneInFirstMatch, Registered
<1>9. QED
  BY <1>2, <1>4, <1>6, <1>7, <1>8 DEF ServerInv

(* A join registers a free slot for a peer that had none.                    *)
LEMMA JoinInv ==
    ASSUME ServerInv, NEW peer \in Peers, HandleJoin(peer)
    PROVE  ServerInv'
<1> DEFINE new == FirstFreeSlot
<1>1. IInv /\ ServerTypeOK /\ NoGhostPlayers /\ RegistriesAgree /\ OneToOneInFirstMatch
  BY DEF ServerInv
<1>2. /\ [Next]_vars
      /\ new \in Ids /\ new \notin connected
      /\ connected' = connected \cup {new}
  BY <1>1, JoinConnects
<1>3. RegisterClient(peer, new) /\ ~Registered(peer) /\ kicked' = kicked
  BY DEF HandleJoin
<1> HIDE DEF new
<1>4. IInv'
  BY <1>1, <1>2, NextIInv
<1>5. /\ conn' \in [Peers -> {"free", "open", "joined", "closing"}]
      /\ conn'[peer] = "joined"
      /\ \A q \in Peers \ {peer} : conn'[q] = conn[q]
  BY <1>1 DEF HandleJoin, ServerTypeOK
<1>6. /\ playerIdByPeer' \in [Peers -> Ids \cup {NoPlayer}]
      /\ clientsByPlayerId' \in [Kinds -> [Ids -> Peers \cup {NoPeer}]]
      /\ playerIdByPeer'[peer] = new
      /\ \A q \in Peers \ {peer} : playerIdByPeer'[q] = playerIdByPeer[q]
      /\ \A k \in Kinds : \A id \in Ids :
           clientsByPlayerId'[k][id] =
             IF k = KindOf(peer) /\ id = new THEN peer ELSE clientsByPlayerId[k][id]
  BY <1>1, <1>2, <1>3, RegisterAdds
<1>7. ServerTypeOK'
  <2>1. \A s \in StreamPeers : conn'[s] # "closing"
    BY <1>1, <1>5 DEF ServerTypeOK, Peers
  <2>2. kicked' \in BOOLEAN
    BY <1>1, <1>3 DEF ServerTypeOK
  <2>3. QED
    BY <1>5, <1>6, <2>1, <2>2, Zenon DEF ServerTypeOK
<1>8. NoGhostPlayers'
  BY <1>1, <1>2, <1>3, <1>5, <1>6 DEF NoGhostPlayers, Registered, IInv, TypeOK, Slots, NoPlayer
<1>9. RegistriesAgree'
  <2> SUFFICES ASSUME NEW k \in Kinds, NEW id \in Ids, clientsByPlayerId'[k][id] # NoPeer
               PROVE  /\ KindOf(clientsByPlayerId'[k][id]) = k
                      /\ playerIdByPeer'[clientsByPlayerId'[k][id]] = id
    BY DEF RegistriesAgree, KindOf
  <2>1. CASE k = KindOf(peer) /\ id = new
    BY <1>6, <2>1
  <2>2. CASE ~(k = KindOf(peer) /\ id = new)
    <3> DEFINE q == clientsByPlayerId[k][id]
    <3>1. clientsByPlayerId'[k][id] = q /\ q # NoPeer /\ q \in Peers
      BY <1>1, <1>6, <2>2 DEF ServerTypeOK
    <3>2. KindOf(q) = k /\ playerIdByPeer[q] = id
      BY <1>1, <3>1 DEF RegistriesAgree
    <3>3. q # peer
      BY <1>3, <3>2 DEF Registered, Ids, NoPlayer
    <3>4. QED
      BY <1>6, <3>1, <3>2, <3>3
  <2>3. QED
    BY <2>1, <2>2
<1>10. OneToOneInFirstMatch'
  <2> SUFFICES ASSUME ~kicked PROVE OneToOneInFirstMatch'
    BY <1>3 DEF OneToOneInFirstMatch
  <2>1. \A q \in Peers \ {peer} : Registered(q) =>
           /\ playerIdByPeer[q] \in connected /\ playerIdByPeer[q] \in Ids
           /\ playerIdByPeer[q] # new /\ KindOf(q) \in Kinds
           /\ clientsByPlayerId[KindOf(q)][playerIdByPeer[q]] = q
    BY <1>1, <1>2, RegisteredId DEF OneToOneInFirstMatch, KindOf, Kinds
  <2>2. KindOf(peer) \in Kinds /\ Registered(peer)'
    BY <1>2, <1>6 DEF KindOf, Kinds, Registered, Ids, NoPlayer
  <2>3. \A q \in Peers \ {peer} : Registered(q)' <=> Registered(q)
    BY <1>6 DEF Registered
  <2>4. \A q \in Peers : Registered(q)' <=> conn'[q] = "joined"
    BY <1>1, <1>5, <2>2, <2>3 DEF OneToOneInFirstMatch
  <2>5. \A q \in Peers : Registered(q)' =>
           /\ playerIdByPeer'[q] \in connected'
           /\ clientsByPlayerId'[KindOf(q)][playerIdByPeer'[q]] = q
    BY <1>2, <1>6, <2>1, <2>2, <2>3
  <2>6. \A p, q \in Peers :
           Registered(p)' /\ playerIdByPeer'[p] = playerIdByPeer'[q] => p = q
    BY <1>1, <1>2, <1>6, <2>1, <2>3 DEF OneToOneInFirstMatch, Registered, Ids, NoPlayer
  <2>7. QED
    BY <2>4, <2>5, <2>6 DEF OneToOneInFirstMatch, KindOf
<1>11. QED
  BY <1>4, <1>7, <1>8, <1>9, <1>10 DEF ServerInv

(* A peer goes: its registration goes with its player, and with nobody else  *)
(* as long as no kicked player is still registered.                         *)
LEMMA GoneInv ==
    ASSUME ServerInv, NEW peer \in Peers, HandleLeave(peer) \/ HandleDisconnect(peer)
    PROVE  ServerInv'
<1> DEFINE gone == playerIdByPeer[peer]
<1>1. IInv /\ ServerTypeOK /\ NoGhostPlayers /\ RegistriesAgree /\ OneToOneInFirstMatch
  BY DEF ServerInv
<1>2. ASSUME ~Registered(peer) PROVE [Next]_vars /\ connected' = connected
  <2>1. UNCHANGED vars
    BY <1>2 DEF HandleLeave, HandleDisconnect
  <2>2. QED
    BY <2>1 DEF vars, slotVars
<1>3. ASSUME Registered(peer) PROVE [Next]_vars /\ connected' = connected \ {gone}
  <2>1. gone \in Ids
    BY <1>1, <1>3, RegisteredId
  <2>2. RemovePlayerChecked(gone)
    BY <1>3 DEF HandleLeave, HandleDisconnect
  <2>3. QED
    BY <1>1, <2>1, <2>2, RemovalRemoves
<1>4. UnregisterPeer(peer) /\ kicked' = kicked
  BY DEF HandleLeave, HandleDisconnect
<1> HIDE DEF gone
<1>5. IInv'
  BY <1>1, <1>2, <1>3, NextIInv
<1>6. /\ conn' \in [Peers -> {"free", "open", "joined", "closing"}]
      /\ conn'[peer] # "joined"
      /\ peer \in StreamPeers => conn'[peer] = "free"
      /\ \A q \in Peers \ {peer} : conn'[q] = conn[q]
  <2>1. CASE HandleLeave(peer)
    BY <1>1, <2>1, Closed DEF HandleLeave, DisconnectPeer, ServerTypeOK
  <2>2. CASE HandleDisconnect(peer)
    BY <1>1, <2>2 DEF HandleDisconnect, ServerTypeOK
  <2>3. QED
    BY <2>1, <2>2
<1>7. /\ playerIdByPeer' \in [Peers -> Ids \cup {NoPlayer}]
      /\ clientsByPlayerId' \in [Kinds -> [Ids -> Peers \cup {NoPeer}]]
      /\ playerIdByPeer'[peer] = NoPlayer
      /\ \A q \in Peers \ {peer} : playerIdByPeer'[q] = playerIdByPeer[q]
      /\ \A k \in Kinds : \A id \in Ids :
           clientsByPlayerId'[k][id] =
             IF Registered(peer) /\ k = KindOf(peer) /\ id = gone
             THEN NoPeer ELSE clientsByPlayerId[k][id]
  BY <1>1, <1>4, UnregisterErases DEF gone
<1>8. ServerTypeOK'
  <2>1. \A s \in StreamPeers : conn'[s] # "closing"
    BY <1>1, <1>6 DEF ServerTypeOK, Peers
  <2>2. kicked' \in BOOLEAN
    BY <1>1, <1>4 DEF ServerTypeOK
  <2>3. QED
    BY <1>6, <1>7, <2>1, <2>2, Zenon DEF ServerTypeOK
<1>9. NoGhostPlayers'
  <2> SUFFICES ASSUME NEW id \in connected'
               PROVE  \E q \in Peers : conn'[q] = "joined" /\ playerIdByPeer'[q] = id
    BY DEF NoGhostPlayers
  <2>1. id \in connected /\ id \in Ids /\ (Registered(peer) => id # gone)
    BY <1>1, <1>2, <1>3, SlotsAreIds DEF IInv
  <2>2. PICK q \in Peers : conn[q] = "joined" /\ playerIdByPeer[q] = id
    BY <1>1, <2>1 DEF NoGhostPlayers
  <2>3. q # peer
    BY <2>1, <2>2 DEF gone, Registered, Ids, NoPlayer
  <2>4. QED
    BY <1>6, <1>7, <2>2, <2>3
<1>10. RegistriesAgree'
  <2> SUFFICES ASSUME NEW k \in Kinds, NEW id \in Ids, clientsByPlayerId'[k][id] # NoPeer
               PROVE  /\ KindOf(clientsByPlayerId'[k][id]) = k
                      /\ playerIdByPeer'[clientsByPlayerId'[k][id]] = id
    BY DEF RegistriesAgree, KindOf
  <2> DEFINE q == clientsByPlayerId[k][id]
  <2>1. /\ clientsByPlayerId'[k][id] = q /\ q # NoPeer /\ q \in Peers
        /\ ~(Registered(peer) /\ k = KindOf(peer) /\ id = gone)
    BY <1>1, <1>7 DEF ServerTypeOK
  <2>2. KindOf(q) = k /\ playerIdByPeer[q] = id
    BY <1>1, <2>1 DEF RegistriesAgree
  <2>3. q # peer
    BY <2>1, <2>2 DEF gone, Registered, Ids, NoPlayer
  <2>4. QED
    BY <1>7, <2>1, <2>2, <2>3
<1>11. OneToOneInFirstMatch'
  <2> SUFFICES ASSUME ~kicked PROVE OneToOneInFirstMatch'
    BY <1>4 DEF OneToOneInFirstMatch
  <2>1. ~Registered(peer)' /\ \A q \in Peers \ {peer} : Registered(q)' <=> Registered(q)
    BY <1>7 DEF Registered
  <2>2. \A q \in Peers : Registered(q)' => q # peer /\ Registered(q)
    BY <2>1
  <2>3. \A q \in Peers : Registered(q)' =>
           /\ playerIdByPeer[q] \in connected /\ playerIdByPeer[q] \in Ids
           /\ Registered(peer) => playerIdByPeer[q] # gone
           /\ KindOf(q) \in Kinds /\ clientsByPlayerId[KindOf(q)][playerIdByPeer[q]] = q
    BY <1>1, <2>2, RegisteredId DEF OneToOneInFirstMatch, KindOf, Kinds, gone
  <2>4. \A q \in Peers : Registered(q)' <=> conn'[q] = "joined"
    BY <1>1, <1>6, <2>1 DEF OneToOneInFirstMatch
  <2>5. \A q \in Peers : Registered(q)' =>
           /\ playerIdByPeer'[q] \in connected'
           /\ clientsByPlayerId'[KindOf(q)][playerIdByPeer'[q]] = q
    BY <1>2, <1>3, <1>7, <2>2, <2>3
  <2>6. \A p, q \in Peers :
           Registered(p)' /\ playerIdByPeer'[p] = playerIdByPeer'[q] => p = q
    BY <1>1, <1>7, <2>2 DEF OneToOneInFirstMatch, Registered
  <2>7. QED
    BY <2>4, <2>5, <2>6 DEF OneToOneInFirstMatch, KindOf
<1>12. QED
  BY <1>5, <1>8, <1>9, <1>10, <1>11 DEF ServerInv

(* Ready, spectating and the ticks of a match leave the registries alone.    *)
LEMMA InGameInv ==
    ASSUME ServerInv,
           \/ \E peer \in Peers :
                \/ HandleReady(peer)
                \/ \E direction \in {-1, 1} : HandleSpectate(peer, direction)
           \/ TickOnly
    PROVE  ServerInv'
<1>1. IInv /\ ServerTypeOK /\ NoGhostPlayers /\ RegistriesAgree /\ OneToOneInFirstMatch
  BY DEF ServerInv
<1>2. [Next]_vars /\ connected' = connected
  BY <1>1, BystanderKeepsRoom DEF Bystander
<1>3. UNCHANGED hostVars
  BY DEF HandleReady, HandleSpectate, TickOnly
<1>4. IInv'
  BY <1>1, <1>2, NextIInv
<1>5. ServerTypeOK'
  BY <1>1, <1>3 DEF ServerTypeOK, hostVars
<1>6. NoGhostPlayers' /\ RegistriesAgree' /\ OneToOneInFirstMatch'
  BY <1>1, <1>2, <1>3 DEF hostVars, NoGhostPlayers, RegistriesAgree, OneToOneInFirstMatch,
                          Registered
<1>7. QED
  BY <1>4, <1>5, <1>6 DEF ServerInv

(* The kick empties the room, and leaves the registries as they are.         *)
LEMMA KickInv == ASSUME ServerInv, KickEverybody PROVE ServerInv'
<1>1. IInv /\ ServerTypeOK /\ NoGhostPlayers /\ RegistriesAgree
  BY DEF ServerInv
<1>2. /\ [Next]_vars /\ connected' = {} /\ kicked' = TRUE
      /\ UNCHANGED <<clientsByPlayerId, playerIdByPeer>>
  BY DEF KickEverybody, ReturnPlayersToMenu, Next, ServerTick
<1>3. IInv'
  BY <1>1, <1>2, NextIInv
<1>4. /\ conn' \in [Peers -> {"free", "open", "joined", "closing"}]
      /\ \A s \in StreamPeers : conn'[s] # "closing"
  BY <1>1, Closed DEF KickEverybody, ServerTypeOK, Peers
<1>5. ServerTypeOK'
  BY <1>1, <1>2, <1>4 DEF ServerTypeOK
<1>6. NoGhostPlayers' /\ RegistriesAgree' /\ OneToOneInFirstMatch'
  BY <1>1, <1>2 DEF NoGhostPlayers, RegistriesAgree, OneToOneInFirstMatch
<1>7. QED
  BY <1>3, <1>5, <1>6 DEF ServerInv

(* The inductive step of the server.                                         *)
LEMMA ServerNextInv == ServerInv /\ [ServerNext]_serverVars => ServerInv'
<1> SUFFICES ASSUME ServerInv, [ServerNext]_serverVars PROVE ServerInv'
  OBVIOUS
<1>1. CASE UNCHANGED serverVars
  <2>1. IInv' /\ connected' = connected
    BY <1>1, NextIInv DEF ServerInv, serverVars, vars, slotVars
  <2>2. QED
    BY <1>1, <2>1 DEF ServerInv, serverVars, hostVars, ServerTypeOK, NoGhostPlayers,
                      RegistriesAgree, OneToOneInFirstMatch, Registered
<1>2. CASE ServerNext
  BY <1>2, ConnectionInv, JoinInv, GoneInv, InGameInv, KickInv DEF ServerNext
<1>3. QED
  BY <1>1, <1>2

-----------------------------------------------------------------------------
(* ServerInv holds in every reachable state of the server.                   *)
THEOREM ServerInvariance == ServerSpec => []ServerInv
  BY ServerInitInv, ServerNextInv, PTL DEF ServerSpec

(* Peers, registries and connections keep their types; a stream socket is     *)
(* never waiting for its end to be reported.                                  *)
THEOREM ServerTypeCorrect == ServerSpec => []ServerTypeOK
<1>1. ServerInv => ServerTypeOK
  BY DEF ServerInv
<1>2. QED
  BY <1>1, ServerInvariance, PTL

(* Every player in the room is held there by a connection that is still       *)
(* there and registered for it, however stale the registries are.            *)
THEOREM NoGhosts == ServerSpec => []NoGhostPlayers
<1>1. ServerInv => NoGhostPlayers
  BY DEF ServerInv
<1>2. QED
  BY <1>1, ServerInvariance, PTL

(* Whom the server addresses as a player is a peer it hears as that player.   *)
THEOREM RegistriesStayInverse == ServerSpec => []RegistriesAgree
<1>1. ServerInv => RegistriesAgree
  BY DEF ServerInv
<1>2. QED
  BY <1>1, ServerInvariance, PTL

(* Peers and players correspond one to one until the first kick.             *)
THEOREM FirstMatchOneToOne == ServerSpec => []OneToOneInFirstMatch
<1>1. ServerInv => OneToOneInFirstMatch
  BY DEF ServerInv
<1>2. QED
  BY <1>1, ServerInvariance, PTL
=============================================================================
