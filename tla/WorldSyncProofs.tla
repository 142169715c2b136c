--------------------------- MODULE WorldSyncProofs ---------------------------
(***************************************************************************)
(* Proofs about WorldSync, for rooms, numbers, snapshots and restarts without *)
(* bound: the client's copy of the server's room.                            *)
(***************************************************************************)
EXTENDS WorldSync, SequenceTheorems, FiniteSetTheorems, TLAPS

(***************************************************************************)
(* Types.                                                                  *)
(***************************************************************************)
Stages == {"open", "starting", "playing", "showing"}
Ticks  == 0 .. TickSpan - 1

JoinOks   == [type : {"S_JOIN_OK"}, playerId : Member]
JoinFails == [type : {"S_JOIN_FAIL"}]
Lobbies   == [type : {"S_LOBBY_SYNC"}, phase : Phases, connected : SUBSET Member,
              inMatch : SUBSET Member]
Worlds    == [type : {"S_WORLD_STATE"}, tick : Ticks, phase : Phases, mapSeed : Nat,
              connected : SUBSET Member, inMatch : SUBSET Member, dead : SUBSET Member,
              strike : 0 .. Frames, over : BOOLEAN]
Packets == JoinOks \union JoinFails \union Lobbies \union Worlds

Strikes == [predicted : BOOLEAN, left : 0 .. Frames]

Sims ==
    [local : Member \union {NoId}, phase : Phases, connected : SUBSET Member,
     inMatch : SUBSET Member, dead : SUBSET Member, strikes : SUBSET Strikes,
     playerThunderCasting : BOOLEAN, mapSeed : Nat, lastWorldStateTick : Ticks,
     snapshotBuffer : 0 .. kInterpBufferMaxSnapshots, awaitingSpawnSync : BOOLEAN]

RoomTypes ==
    /\ stage \in Stages /\ members \subseteq Member
    /\ placed \subseteq members /\ contestants \subseteq placed /\ survivors \subseteq contestants
    /\ worldStateTick \in Ticks /\ mapSeed \in Nat
    /\ link \in members \union {NoId} /\ strike \in 0 .. Frames

ClientTypes ==
    /\ chan \in Seq(Packets) /\ session \in {"none", "asked", "joined"} /\ sim \in Sims

-----------------------------------------------------------------------------
(* The server's side.                                                       *)

LEMMA Constants ==
    /\ TickSpan \in Nat /\ TickSpan > 1 /\ Frames \in Nat /\ Frames > 0
    /\ kInterpBufferMaxSnapshots \in Nat /\ kMinSnapshotsForPlay \in Nat
    /\ 1 < kMinSnapshotsForPlay /\ kMinSnapshotsForPlay <= kInterpBufferMaxSnapshots
    /\ NoId \notin Member
BY SyncAssumption DEF NoId

LEMMA NextTickTyped == worldStateTick \in Ticks => (worldStateTick + 1) % TickSpan \in Ticks
BY Constants DEF Ticks

LEMMA PhaseTyped == stage \in Stages => phase \in Phases
<1>1. CASE stage = "open"
  BY <1>1 DEF phase, Phases
<1>2. CASE stage = "starting"
  BY <1>2 DEF phase, Phases
<1>3. CASE stage = "playing"
  BY <1>3 DEF phase, Phases
<1>4. CASE stage = "showing"
  BY <1>4 DEF phase, Phases
<1>5. QED
  BY <1>1, <1>2, <1>3, <1>4 DEF Stages

LEMMA RoomStep == RoomTypes /\ [Next]_vars => RoomTypes'
<1> SUFFICES ASSUME RoomTypes, [Next]_vars PROVE RoomTypes'
  OBVIOUS
<1> USE DEF RoomTypes, Stages
<1>0. (worldStateTick + 1) % TickSpan \in Ticks /\ 0 \in Ticks /\ Frames \in Nat /\ NoId \notin Member
  BY NextTickTyped, Constants DEF Ticks
<1>1. ASSUME NEW m \in Member, OtherJoins(m) PROVE RoomTypes'
  BY <1>1 DEF OtherJoins, Enter, NoTick
<1>2. ASSUME NEW m \in Member, HandleJoin(m) PROVE RoomTypes'
  BY <1>2 DEF HandleJoin, Enter, NoTick
<1>3. ASSUME NEW m \in Member, PlayerLeaves(m) PROVE RoomTypes'
  <2>1. stage' \in Stages /\ members' = members \ {m} /\ placed' = placed \ {m} /\ link # m
    BY <1>3 DEF PlayerLeaves, Leave
  <2>2. contestants' \subseteq contestants \ {m} /\ survivors' \subseteq contestants'
    BY <1>3 DEF PlayerLeaves, Leave
  <2>3. worldStateTick' \in Ticks /\ UNCHANGED <<mapSeed, link, strike>>
    BY <1>0, <1>3 DEF PlayerLeaves, NextTick, NoTick
  <2>4. QED
    BY <2>1, <2>2, <2>3
<1>4. CASE HandleReady
  BY <1>0, <1>4 DEF HandleReady, Announce, NextTick
<1>5. CASE LobbyTick
  BY <1>5 DEF LobbyTick, serverVars
<1>6. CASE CountdownTick
  BY <1>0, <1>6 DEF CountdownTick, Begin, NextTick, roomVars
<1>7. CASE MatchTick
  BY <1>0, <1>7 DEF MatchTick, Finish, Die, StrikesAfter, NextTick
<1>8. CASE ResultsTick
  BY <1>0, <1>8 DEF ResultsTick, NextTick, roomVars
<1>9. CASE KickEverybody
  BY <1>0, <1>9 DEF KickEverybody, SendHome, Unlink, NextTick
<1>10. CASE ServerRestarts
  BY <1>0, <1>10 DEF ServerRestarts, LoseSession, Hangup, Unlink
<1>11. CASE HandleJoinRefused \/ ReceiveJoinOk \/ ReceiveLobbySync \/ Asks \/ PressThunder \/ Frame \/ Prune
  BY <1>11 DEF HandleJoinRefused, ReceiveJoinOk, ReceiveLobbySync, Asks, PressThunder, Frame, Prune, serverVars
<1>12. CASE ReceiveJoinFail \/ Lost \/ LeaveQueue
  BY <1>0, <1>12 DEF ReceiveJoinFail, Lost, LeaveQueue, LoseSession, Hangup, Unlink, serverVars
<1>13. CASE ReceiveWorldState
  BY <1>0, <1>13 DEF ReceiveWorldState, Hangup, Unlink, serverVars
<1>14. CASE UNCHANGED vars
  BY <1>14 DEF vars, serverVars
<1>15. QED
  BY <1>1, <1>2, <1>3, <1>4, <1>5, <1>6, <1>7, <1>8, <1>9, <1>10, <1>11, <1>12, <1>13, <1>14
     DEF Next, ServerTick, Receive

-----------------------------------------------------------------------------
(* Packets.                                                                *)

LEMMA PacketsTyped ==
    RoomTypes => /\ LobbySync \in Lobbies
                 /\ WorldState(FALSE) \in Worlds /\ WorldState(TRUE) \in Worlds
<1> SUFFICES ASSUME RoomTypes
             PROVE  /\ LobbySync \in Lobbies
                    /\ WorldState(FALSE) \in Worlds /\ WorldState(TRUE) \in Worlds
  OBVIOUS
<1>1. phase \in Phases
  BY PhaseTyped DEF RoomTypes
<1>2. /\ members \in SUBSET Member /\ placed \in SUBSET Member
      /\ contestants \ survivors \in SUBSET Member
      /\ worldStateTick \in Ticks /\ mapSeed \in Nat /\ strike \in 0 .. Frames
  BY DEF RoomTypes
<1>3. LobbySync \in Lobbies
  BY <1>1, <1>2 DEF LobbySync, Lobbies
<1>4. WorldState(FALSE) \in Worlds /\ WorldState(TRUE) \in Worlds
  BY <1>1, <1>2 DEF WorldState, Worlds
<1>5. QED
  BY <1>3, <1>4

LEMMA PacketsTypedNext ==
    RoomTypes' => LobbySync' \in Lobbies /\ WorldState(FALSE)' \in Worlds
<1>1. (RoomTypes => LobbySync \in Lobbies /\ WorldState(FALSE) \in Worlds)'
  BY PacketsTyped, PTL
<1>2. Lobbies' = Lobbies /\ Worlds' = Worlds
  BY DEF Lobbies, Worlds
<1>3. QED
  BY <1>1, <1>2

-----------------------------------------------------------------------------
(* The client's side, field by field.                                        *)

Starts(s, p) == s.phase = "QUEUE" /\ p = "COUNTDOWN"

LEMMA SyncReset ==
    ASSUME NEW s \in Sims
    PROVE  LET r == resetWorldStateSync(s) IN
           /\ r \in Sims
           /\ r.lastWorldStateTick = 0 /\ r.snapshotBuffer = 0 /\ r.awaitingSpawnSync = FALSE
           /\ r.local = s.local /\ r.phase = s.phase /\ r.connected = s.connected
           /\ r.inMatch = s.inMatch /\ r.strikes = s.strikes /\ r.mapSeed = s.mapSeed
           /\ r.playerThunderCasting = s.playerThunderCasting
<1>1. 0 \in Ticks /\ 0 \in 0 .. kInterpBufferMaxSnapshots
  BY Constants DEF Ticks
<1>2. resetWorldStateSync(s) \in Sims
  BY <1>1 DEF resetWorldStateSync, Sims
<1>3. QED
  BY <1>2 DEF resetWorldStateSync, Sims

LEMMA ToMenu ==
    ASSUME NEW s \in Sims
    PROVE  LET r == returnPlayersToMenu(s) IN
           /\ r \in Sims /\ Fresh \in Sims
           /\ r.phase = "IDLE" /\ r.strikes = {} /\ r.playerThunderCasting = FALSE
<1>1. 0 \in Ticks /\ 0 \in 0 .. kInterpBufferMaxSnapshots
  BY Constants DEF Ticks
<1>2. Fresh \in Sims
  BY <1>1 DEF Fresh, Sims, Phases
<1>3. returnPlayersToMenu(s) \in Sims
  BY <1>2 DEF returnPlayersToMenu, Sims
<1>4. QED
  BY <1>2, <1>3 DEF returnPlayersToMenu, Fresh, Sims

LEMMA PhaseSet ==
    ASSUME NEW s \in Sims, NEW p \in Phases
    PROVE  LET r == WithPhase(s, p) IN
           /\ r \in Sims
           /\ r.phase = p /\ r.local = s.local /\ r.connected = s.connected
           /\ r.inMatch = s.inMatch /\ r.strikes = s.strikes /\ r.mapSeed = s.mapSeed
           /\ r.playerThunderCasting = s.playerThunderCasting
           /\ Starts(s, p) => /\ r.lastWorldStateTick = 0 /\ r.snapshotBuffer = 0
                              /\ r.awaitingSpawnSync = TRUE
           /\ ~Starts(s, p) => /\ r.lastWorldStateTick = s.lastWorldStateTick
                               /\ r.snapshotBuffer = s.snapshotBuffer
                               /\ r.awaitingSpawnSync = s.awaitingSpawnSync
<1> DEFINE t == [s EXCEPT !.phase = p]
           b == beginMatchPrewarm(t)
<1>1. 0 \in Ticks /\ 0 \in 0 .. kInterpBufferMaxSnapshots
  BY Constants DEF Ticks
<1>2. /\ t \in Sims
      /\ t.phase = p /\ t.local = s.local /\ t.connected = s.connected
      /\ t.inMatch = s.inMatch /\ t.strikes = s.strikes /\ t.mapSeed = s.mapSeed
      /\ t.playerThunderCasting = s.playerThunderCasting
      /\ t.lastWorldStateTick = s.lastWorldStateTick
      /\ t.snapshotBuffer = s.snapshotBuffer /\ t.awaitingSpawnSync = s.awaitingSpawnSync
  BY DEF Sims
<1> HIDE DEF t
<1>3. b \in Sims
  BY <1>1, <1>2 DEF beginMatchPrewarm, Sims
<1>4. /\ b.phase = t.phase /\ b.local = t.local /\ b.connected = t.connected
      /\ b.inMatch = t.inMatch /\ b.strikes = t.strikes /\ b.mapSeed = t.mapSeed
      /\ b.playerThunderCasting = t.playerThunderCasting
      /\ b.lastWorldStateTick = 0 /\ b.snapshotBuffer = 0 /\ b.awaitingSpawnSync = TRUE
  BY <1>2 DEF beginMatchPrewarm, Sims
<1> HIDE DEF b
<1>5. WithPhase(s, p) = IF Starts(s, p) THEN b ELSE t
  BY DEF WithPhase, Starts, b, t
<1>6. CASE Starts(s, p)
  BY <1>2, <1>3, <1>4, <1>5, <1>6
<1>7. CASE ~Starts(s, p)
  BY <1>2, <1>5, <1>7
<1>8. QED
  BY <1>6, <1>7

LEMMA JoinAcked ==
    ASSUME NEW s \in Sims, NEW id \in Member
    PROVE  LET r == applyJoinAck(s, id) IN
           /\ r \in Sims
           /\ r.local = id /\ r.connected = s.connected \union {id} /\ r.inMatch = s.inMatch \ {id}
           /\ r.phase = IF s.phase = "IDLE" THEN "QUEUE" ELSE s.phase
           /\ r.strikes = s.strikes /\ r.mapSeed = s.mapSeed
           /\ r.playerThunderCasting = s.playerThunderCasting
           /\ r.lastWorldStateTick = s.lastWorldStateTick
           /\ r.snapshotBuffer = s.snapshotBuffer
           /\ r.awaitingSpawnSync = s.awaitingSpawnSync
BY DEF applyJoinAck, Sims, Phases

LEMMA LobbyApplied ==
    ASSUME NEW s \in Sims, NEW p \in Lobbies
    PROVE  LET r == applyLobbySync(s, p) IN
           /\ r \in Sims
           /\ r.phase = p.phase /\ r.local = s.local /\ r.connected = p.connected
           /\ r.inMatch = p.inMatch /\ r.strikes = s.strikes /\ r.mapSeed = s.mapSeed
           /\ r.playerThunderCasting = s.playerThunderCasting
           /\ Starts(s, p.phase) => /\ r.lastWorldStateTick = 0 /\ r.snapshotBuffer = 0
                                    /\ r.awaitingSpawnSync = TRUE
           /\ ~Starts(s, p.phase) => /\ r.lastWorldStateTick = s.lastWorldStateTick
                                     /\ r.snapshotBuffer = s.snapshotBuffer
                                     /\ r.awaitingSpawnSync = s.awaitingSpawnSync
<1> DEFINE q == WithPhase(s, p.phase)
<1>1. p.phase \in Phases /\ p.connected \in SUBSET Member /\ p.inMatch \in SUBSET Member
  BY DEF Lobbies
<1>2. q \in Sims
  BY <1>1, PhaseSet
<1>3. applyLobbySync(s, p) = [q EXCEPT !.connected = p.connected, !.inMatch = p.inMatch]
  BY DEF applyLobbySync, WithSlots
<1> HIDE DEF q
<1>4. LET r == [q EXCEPT !.connected = p.connected, !.inMatch = p.inMatch] IN
      /\ r \in Sims
      /\ r.connected = p.connected /\ r.inMatch = p.inMatch
      /\ r.phase = q.phase /\ r.local = q.local /\ r.strikes = q.strikes /\ r.mapSeed = q.mapSeed
      /\ r.playerThunderCasting = q.playerThunderCasting
      /\ r.lastWorldStateTick = q.lastWorldStateTick
      /\ r.snapshotBuffer = q.snapshotBuffer /\ r.awaitingSpawnSync = q.awaitingSpawnSync
  BY <1>1, <1>2 DEF Sims
<1>5. /\ q.phase = p.phase /\ q.local = s.local /\ q.strikes = s.strikes
      /\ q.mapSeed = s.mapSeed /\ q.playerThunderCasting = s.playerThunderCasting
      /\ Starts(s, p.phase) => /\ q.lastWorldStateTick = 0 /\ q.snapshotBuffer = 0
                               /\ q.awaitingSpawnSync = TRUE
      /\ ~Starts(s, p.phase) => /\ q.lastWorldStateTick = s.lastWorldStateTick
                                /\ q.snapshotBuffer = s.snapshotBuffer
                                /\ q.awaitingSpawnSync = s.awaitingSpawnSync
  BY <1>1, PhaseSet DEF q
<1>6. QED
  BY <1>3, <1>4, <1>5

LEMMA WorldApplied ==
    ASSUME NEW s \in Sims, NEW p \in Worlds
    PROVE  LET r == applyWorldState(s, p) IN
           /\ r \in Sims
           /\ r.phase = p.phase /\ r.local = s.local /\ r.connected = p.connected
           /\ r.inMatch = p.inMatch /\ r.dead = p.dead /\ r.mapSeed = p.mapSeed
           /\ r.strikes = ServerStrike(p) \union KeptPredicted(s, p)
           /\ r.playerThunderCasting = (r.strikes # {})
           /\ r.lastWorldStateTick = IF Starts(s, p.phase) THEN 0 ELSE p.tick
           /\ r.snapshotBuffer > 0
           /\ s.local \in p.connected /\ s.local \in s.inMatch => r.awaitingSpawnSync = FALSE
<1> DEFINE atTick  == [s EXCEPT !.lastWorldStateTick = p.tick, !.mapSeed = p.mapSeed]
           t       == WithPhase(atTick, p.phase)
           spawned == IF t.local \in p.connected THEN SpawnSynced(t) ELSE t
           strikes == ServerStrike(p) \union KeptPredicted(s, p)
           w       == WithSlots(spawned, p)
           full    == kInterpBufferMaxSnapshots
           count   == IF w.snapshotBuffer = full THEN w.snapshotBuffer ELSE w.snapshotBuffer + 1
<1>1. /\ p.phase \in Phases /\ p.connected \in SUBSET Member /\ p.inMatch \in SUBSET Member
      /\ p.dead \in SUBSET Member /\ p.tick \in Ticks /\ p.mapSeed \in Nat
      /\ p.strike \in 0 .. Frames
  BY DEF Worlds
<1>2. strikes \in SUBSET Strikes
  <2>1. KeptPredicted(s, p) \subseteq Strikes
    BY DEF KeptPredicted, Sims
  <2>2. [predicted |-> FALSE, left |-> p.strike] \in Strikes
    BY <1>1 DEF Strikes
  <2>3. ServerStrike(p) \subseteq Strikes
    BY <2>2 DEF ServerStrike
  <2>4. QED
    BY <2>1, <2>3
<1>3. /\ atTick \in Sims /\ atTick.lastWorldStateTick = p.tick /\ atTick.mapSeed = p.mapSeed
      /\ atTick.phase = s.phase /\ atTick.local = s.local
      /\ atTick.snapshotBuffer = s.snapshotBuffer /\ atTick.inMatch = s.inMatch
  BY <1>1 DEF Sims
<1> HIDE DEF atTick, strikes
<1>4. /\ t \in Sims /\ t.phase = p.phase /\ t.local = s.local /\ t.mapSeed = p.mapSeed
      /\ t.inMatch = s.inMatch
      /\ t.lastWorldStateTick = IF Starts(s, p.phase) THEN 0 ELSE p.tick
  <2>1. Starts(atTick, p.phase) = Starts(s, p.phase)
    BY <1>3 DEF Starts
  <2>2. QED
    BY <1>1, <1>3, <2>1, PhaseSet
<1> HIDE DEF t
<1>5. /\ spawned \in Sims /\ spawned.phase = p.phase /\ spawned.local = s.local
      /\ spawned.mapSeed = p.mapSeed
      /\ spawned.lastWorldStateTick = IF Starts(s, p.phase) THEN 0 ELSE p.tick
      /\ s.local \in p.connected /\ s.local \in s.inMatch => spawned.awaitingSpawnSync = FALSE
  <2>1. /\ SpawnSynced(t) \in Sims /\ SpawnSynced(t).phase = t.phase
        /\ SpawnSynced(t).local = t.local /\ SpawnSynced(t).mapSeed = t.mapSeed
        /\ SpawnSynced(t).lastWorldStateTick = t.lastWorldStateTick
        /\ t.local \in t.inMatch => SpawnSynced(t).awaitingSpawnSync = FALSE
    BY <1>4 DEF SpawnSynced, Sims
  <2>2. QED
    BY <1>4, <2>1
<1> HIDE DEF spawned
<1>6. /\ w \in Sims /\ w.phase = p.phase /\ w.local = s.local /\ w.mapSeed = p.mapSeed
      /\ w.lastWorldStateTick = spawned.lastWorldStateTick
      /\ w.connected = p.connected /\ w.inMatch = p.inMatch
      /\ w.awaitingSpawnSync = spawned.awaitingSpawnSync
  BY <1>1, <1>5 DEF WithSlots, Sims
<1> HIDE DEF w
<1> DEFINE r == [w EXCEPT !.dead = p.dead, !.strikes = strikes,
                          !.playerThunderCasting = strikes # {},
                          !.snapshotBuffer = IF @ = full THEN @ ELSE @ + 1]
<1>7. applyWorldState(s, p) = r
  BY DEF applyWorldState, MapOf, w, spawned, t, atTick, strikes
<1>8. count \in 1 .. full /\ count \in 0 .. full
  BY <1>6, Constants DEF Sims
<1> HIDE DEF count
<1>9. r \in Sims
  <2>1. (strikes # {}) \in BOOLEAN
    OBVIOUS
  <2>2. r = [w EXCEPT !.dead = p.dead, !.strikes = strikes,
                      !.playerThunderCasting = strikes # {}, !.snapshotBuffer = count]
    BY <1>6 DEF Sims, count
  <2>3. QED
    BY <1>1, <1>2, <1>6, <1>8, <2>1, <2>2 DEF Sims
<1>10. /\ r.phase = w.phase /\ r.local = w.local /\ r.connected = w.connected
       /\ r.inMatch = w.inMatch /\ r.mapSeed = w.mapSeed
       /\ r.lastWorldStateTick = w.lastWorldStateTick
       /\ r.awaitingSpawnSync = w.awaitingSpawnSync
       /\ r.dead = p.dead /\ r.strikes = strikes
       /\ r.playerThunderCasting = (strikes # {})
       /\ r.snapshotBuffer \in 1 .. full
  BY <1>6, <1>8 DEF Sims, count
<1> HIDE DEF r
<1>11. QED
  BY <1>5, <1>6, <1>7, <1>9, <1>10, Constants DEF strikes

-----------------------------------------------------------------------------
(* The type of the whole state.                                             *)

LEMMA BroadcastTyped ==
    ASSUME chan \in Seq(Packets), NEW ps \in Seq(Packets), Broadcast(ps)
    PROVE  chan' \in Seq(Packets)
BY ConcatProperties DEF Broadcast

LEMMA Tuples ==
    ASSUME NEW a \in Packets, NEW b \in Packets
    PROVE  <<a>> \in Seq(Packets) /\ <<a, b>> \in Seq(Packets)
OBVIOUS

LEMMA TailTyped ==
    ASSUME chan \in Seq(Packets), chan # <<>>
    PROVE  Head(chan) \in Packets /\ Tail(chan) \in Seq(Packets)
BY HeadTailProperties

LEMMA Delivered ==
    ASSUME ClientTypes, NEW T, chan # <<>>, Head(chan).type = T
    PROVE  /\ T = "S_JOIN_OK" => Head(chan) \in JoinOks
           /\ T = "S_LOBBY_SYNC" => Head(chan) \in Lobbies
           /\ T = "S_WORLD_STATE" => Head(chan) \in Worlds
BY TailTyped DEF ClientTypes, Packets, JoinOks, JoinFails, Lobbies, Worlds

LEMMA MenuTyped == ClientTypes /\ LoseSession => ClientTypes'
<1> SUFFICES ASSUME ClientTypes, LoseSession PROVE ClientTypes'
  OBVIOUS
<1>1. session' = "none" /\ chan' = <<>> /\ sim' \in {sim, returnPlayersToMenu(sim)}
  BY DEF LoseSession, Hangup
<1>2. returnPlayersToMenu(sim) \in Sims
  BY ToMenu DEF ClientTypes
<1>3. QED
  BY <1>1, <1>2 DEF ClientTypes

LEMMA ClientStep == RoomTypes /\ RoomTypes' /\ ClientTypes /\ [Next]_vars => ClientTypes'
<1> SUFFICES ASSUME RoomTypes, RoomTypes', ClientTypes, [Next]_vars PROVE ClientTypes'
  OBVIOUS
<1>0. /\ chan \in Seq(Packets) /\ session \in {"none", "asked", "joined"} /\ sim \in Sims
      /\ LobbySync' \in Packets /\ WorldState(FALSE)' \in Packets /\ LobbySync \in Packets
  BY PacketsTyped, PacketsTypedNext DEF ClientTypes, Packets
<1>1. ASSUME NEW m \in Member, OtherJoins(m) PROVE ClientTypes'
  <2>1. <<LobbySync'>> \in Seq(Packets)
    BY <1>0, Tuples
  <2>2. QED
    BY <1>0, <1>1, <2>1, BroadcastTyped DEF OtherJoins, clientVars, ClientTypes
<1>2. ASSUME NEW m \in Member, HandleJoin(m) PROVE ClientTypes'
  <2>1. [type |-> "S_JOIN_OK", playerId |-> m] \in Packets
    BY DEF Packets, JoinOks
  <2>2. JoinAnswer(m) \in Seq(Packets)
    BY <1>0, <2>1 DEF JoinAnswer
  <2>3. QED
    BY <1>0, <1>2, <2>2 DEF HandleJoin, clientVars, ClientTypes
<1>3. ASSUME NEW m \in Member, PlayerLeaves(m) PROVE ClientTypes'
  <2>1. <<LobbySync', WorldState(FALSE)'>> \in Seq(Packets) /\ <<LobbySync'>> \in Seq(Packets)
    BY <1>0, Tuples
  <2>2. chan' \in Seq(Packets)
    BY <1>0, <1>3, <2>1, BroadcastTyped DEF PlayerLeaves
  <2>3. QED
    BY <1>0, <1>3, <2>2 DEF PlayerLeaves, clientVars, ClientTypes
<1>4. CASE HandleReady
  <2>1. <<LobbySync', WorldState(FALSE)'>> \in Seq(Packets)
    BY <1>0, Tuples
  <2>2. QED
    BY <1>0, <1>4, <2>1, BroadcastTyped DEF HandleReady, clientVars, ClientTypes
<1>5. CASE LobbyTick
  <2>1. <<LobbySync>> \in Seq(Packets)
    BY <1>0, Tuples
  <2>2. QED
    BY <1>0, <1>5, <2>1, BroadcastTyped DEF LobbyTick, clientVars, ClientTypes
<1>6. CASE CountdownTick \/ MatchTick \/ ResultsTick
  <2>1. <<WorldState(FALSE)'>> \in Seq(Packets)
    BY <1>0, Tuples
  <2>2. QED
    BY <1>0, <1>6, <2>1, BroadcastTyped
       DEF CountdownTick, MatchTick, ResultsTick, clientVars, ClientTypes
<1>7. CASE KickEverybody
  <2>1. WorldState(TRUE) \in Worlds /\ worldStateTick' \in Ticks
    BY PacketsTyped DEF RoomTypes, Ticks
  <2>2. [WorldState(TRUE) EXCEPT !.tick = worldStateTick'] \in Worlds
    BY <2>1 DEF Worlds
  <2>3. <<[WorldState(TRUE) EXCEPT !.tick = worldStateTick']>> \in Seq(Packets)
    BY <2>2 DEF Packets
  <2>4. QED
    BY <1>0, <1>7, <2>3, BroadcastTyped DEF KickEverybody, clientVars, ClientTypes
<1>8. CASE HandleJoinRefused
  <2>1. [type |-> "S_JOIN_FAIL"] \in Packets
    BY DEF Packets, JoinFails
  <2>2. QED
    BY <1>0, <1>8, <2>1 DEF HandleJoinRefused, clientVars, ClientTypes
<1>9. CASE ServerRestarts \/ Lost
  BY <1>9, MenuTyped DEF ServerRestarts, Lost
<1>10. CASE ReceiveJoinOk
  <2>1. Head(chan) \in JoinOks /\ chan' \in Seq(Packets)
    BY <1>10, TailTyped, Delivered DEF ReceiveJoinOk, Take, ClientTypes
  <2>2. applyJoinAck(resetWorldStateSync(sim), Head(chan).playerId) \in Sims
    BY <1>0, <2>1, SyncReset, JoinAcked DEF JoinOks
  <2>3. QED
    BY <1>10, <2>1, <2>2 DEF ReceiveJoinOk, ClientTypes
<1>11. CASE ReceiveJoinFail
  <2>1. returnPlayersToMenu(sim) \in Sims
    BY <1>0, ToMenu
  <2>2. QED
    BY <1>11, <2>1 DEF ReceiveJoinFail, Hangup, ClientTypes
<1>12. CASE ReceiveLobbySync
  <2>1. Head(chan) \in Lobbies /\ chan' \in Seq(Packets)
    BY <1>12, TailTyped, Delivered DEF ReceiveLobbySync, Take, ClientTypes
  <2>2. applyLobbySync(sim, Head(chan)) \in Sims
    BY <1>0, <2>1, LobbyApplied
  <2>3. QED
    BY <1>0, <1>12, <2>1, <2>2 DEF ReceiveLobbySync, ClientTypes
<1>13. CASE ReceiveWorldState
  <2>1. Head(chan) \in Worlds /\ Tail(chan) \in Seq(Packets)
    BY <1>13, TailTyped, Delivered DEF ReceiveWorldState, ClientTypes
  <2>2. applyWorldState(sim, Head(chan)) \in Sims
    BY <1>0, <2>1, WorldApplied
  <2>3. returnPlayersToMenu(applyWorldState(sim, Head(chan))) \in Sims
    BY <2>2, ToMenu
  <2>4. sim' \in Sims
    BY <1>0, <1>13, <2>2, <2>3 DEF ReceiveWorldState
  <2>5. CASE session' = "none" /\ chan' = <<>>
    BY <2>4, <2>5 DEF ClientTypes
  <2>6. CASE session' = session /\ chan' = Tail(chan)
    BY <1>0, <2>1, <2>4, <2>6 DEF ClientTypes
  <2>7. QED
    BY <1>13, <2>5, <2>6 DEF ReceiveWorldState, Hangup
<1>14. CASE Asks
  BY <1>0, <1>14 DEF Asks, ClientTypes
<1>15. CASE LeaveQueue
  <2>1. sim' \in Sims
    BY <1>0, <1>15 DEF LeaveQueue, Sims, Phases
  <2>2. QED
    BY <1>15, <2>1 DEF LeaveQueue, Hangup, ClientTypes
<1>16. CASE PressThunder
  <2>1. [predicted |-> TRUE, left |-> Frames] \in Strikes
    BY Constants DEF Strikes
  <2>2. sim' \in Sims
    BY <1>0, <1>16, <2>1 DEF PressThunder, Sims
  <2>3. QED
    BY <1>0, <1>16, <2>2 DEF PressThunder, ClientTypes
<1>17. CASE Frame
  <2> DEFINE next(k) == [k EXCEPT !.left = IF @ = 0 THEN 0 ELSE @ - 1]
  <2>1. \A k \in Strikes : next(k) \in Strikes
    BY Constants DEF Strikes
  <2>2. {next(k) : k \in sim.strikes} \in SUBSET Strikes
    BY <1>0, <2>1 DEF Sims
  <2>3. sim' = [sim EXCEPT !.strikes = {next(k) : k \in sim.strikes}]
    BY <1>0, <1>17 DEF Frame, Sims
  <2> HIDE DEF next
  <2>4. sim' \in Sims
    BY <1>0, <2>2, <2>3 DEF Sims
  <2>5. QED
    BY <1>0, <1>17, <2>4 DEF Frame, ClientTypes
<1>18. CASE Prune
  <2>1. sim.snapshotBuffer \in 0 .. kInterpBufferMaxSnapshots /\ sim.snapshotBuffer > 2
    BY <1>0, <1>18 DEF Prune, Prunable, Sims
  <2>2. sim.snapshotBuffer - 1 \in 0 .. kInterpBufferMaxSnapshots
    BY <2>1, Constants
  <2>3. sim' \in Sims
    BY <1>0, <1>18, <2>2 DEF Prune, Sims
  <2>4. QED
    BY <1>0, <1>18, <2>3 DEF Prune, ClientTypes
<1>19. CASE UNCHANGED vars
  BY <1>0, <1>19 DEF vars, clientVars, ClientTypes
<1>20. QED
  BY <1>1, <1>2, <1>3, <1>4, <1>5, <1>6, <1>7, <1>8, <1>9, <1>10, <1>11, <1>12, <1>13, <1>14,
     <1>15, <1>16, <1>17, <1>18, <1>19 DEF Next, ServerTick, Receive

AllTypes == RoomTypes /\ ClientTypes

LEMMA InitTyped == Init => AllTypes
<1>1. 0 \in Ticks /\ 0 \in 0 .. Frames /\ Fresh \in Sims
  <2>1. 0 \in Ticks /\ 0 \in 0 .. Frames /\ 0 \in 0 .. kInterpBufferMaxSnapshots
    BY Constants DEF Ticks
  <2>2. QED
    BY <2>1 DEF Fresh, Sims, Phases
<1>2. QED
  BY <1>1 DEF Init, RoomInit, AllTypes, RoomTypes, ClientTypes, Stages

(* Every state of the server, of the connection and of the client's copy has  *)
(* its type: numbers of world states stay below their width, the snapshot      *)
(* buffer below its size, and every packet is one the client understands.      *)
THEOREM SyncTypeCorrect == Spec => []AllTypes
<1>1. AllTypes /\ [Next]_vars => AllTypes'
  BY RoomStep, ClientStep DEF AllTypes
<1>2. QED
  BY InitTyped, <1>1, PTL DEF Spec

(* TypeOK of the module follows.                                             *)
THEOREM SyncTypeOK == Spec => []TypeOK
<1>1. AllTypes => TypeOK
  BY DEF AllTypes, RoomTypes, ClientTypes, Sims, TypeOK, Ticks
<1>2. QED
  BY SyncTypeCorrect, <1>1, PTL
-----------------------------------------------------------------------------
(***************************************************************************)
(* The order of packets: what is on its way to the client, and the copy before *)
(* and the server behind it.  The copy, the packets and the server's room are  *)
(* successive views of one room, and most invariants say how a view differs    *)
(* from the one before.                                                     *)
(***************************************************************************)

(***************************************************************************)
(* What a step does to the connection.                                      *)
(***************************************************************************)
World(p) == p.type = "S_WORLD_STATE"

\* The session is over, and with it what was on its way.
Ends == session' = "none" /\ chan' = <<>> /\ link' = NoId

\* Nothing of the connection changes; the copy by a frame or a key press.
Quiet ==
    /\ UNCHANGED <<session, link, chan, mapSeed, worldStateTick, placed>> /\ phase' = phase
    /\ sim' = sim \/ PressThunder \/ Frame \/ Prune

\* The server does something the client does not hear of.
Unheard == link = NoId /\ UNCHANGED <<session, link, chan, sim>>

Sends(packets) ==
    /\ link # NoId /\ chan' = chan \o packets
    /\ UNCHANGED <<session, link, sim, mapSeed>>

SendsLobby ==
    /\ Sends(<<LobbySync'>>)
    /\ UNCHANGED worldStateTick /\ placed' \subseteq placed

SendsWorld ==
    /\ Sends(<<WorldState(FALSE)'>>)
    /\ NextTick /\ UNCHANGED placed

SendsBoth ==
    /\ Sends(<<LobbySync', WorldState(FALSE)'>>)
    /\ NextTick
    /\ placed' \subseteq placed \/ (phase = "QUEUE" /\ phase' = "COUNTDOWN")

Kicks ==
    /\ link # NoId /\ link' = NoId
    /\ chan' = chan \o <<[WorldState(TRUE) EXCEPT !.tick = worldStateTick']>>
    /\ NextTick /\ UNCHANGED <<session, sim>>

LetsIn(m) == HandleJoin(m) /\ m \notin placed /\ UNCHANGED placed

\* A world state that does not end the session.
GoesOn ==
    /\ ReceiveWorldState /\ session' = session /\ UNCHANGED <<link, mapSeed>>
    /\ UNCHANGED <<serverVars, strike>> /\ chan' = Tail(chan)

LEMMA SamePhase == UNCHANGED serverVars => phase' = phase
BY DEF serverVars, phase

LEMMA PhaseNow ==
    /\ stage = "open" /\ members # {} => phase = "QUEUE"
    /\ stage = "starting" => phase = "COUNTDOWN"
<1>1. ASSUME stage = "open", members # {} PROVE phase = "QUEUE"
  BY <1>1 DEF phase
<1>2. ASSUME stage = "starting" PROVE phase = "COUNTDOWN"
  BY <1>2 DEF phase
<1>3. QED
  BY <1>1, <1>2

LEMMA PhaseThen == stage' = "starting" => phase' = "COUNTDOWN"
<1>1. (stage = "starting" => phase = "COUNTDOWN")'
  BY PhaseNow, PTL
<1>2. QED
  BY <1>1

LEMMA Steps ==
    ASSUME AllTypes, AllTypes', [Next]_vars
    PROVE  \/ Ends \/ Quiet \/ Unheard
           \/ SendsLobby \/ SendsWorld \/ SendsBoth \/ Kicks
           \/ \E m \in Member : LetsIn(m)
           \/ HandleJoinRefused \/ Asks \/ ReceiveJoinOk \/ ReceiveLobbySync \/ GoesOn
<1>0. /\ link \in members \union {NoId} /\ NoId \notin Member /\ members \subseteq Member
      /\ placed \subseteq members
  BY Constants DEF AllTypes, RoomTypes
<1>1. ASSUME NEW m \in Member, OtherJoins(m) PROVE SendsLobby \/ Unheard
  BY <1>1 DEF OtherJoins, NoTick, Broadcast, clientVars, SendsLobby, Unheard, Sends
<1>2. ASSUME NEW m \in Member, HandleJoin(m) PROVE LetsIn(m)
  BY <1>0, <1>2 DEF HandleJoin, Enter, LetsIn
<1>3. ASSUME NEW m \in Member, PlayerLeaves(m) PROVE SendsLobby \/ SendsBoth \/ Unheard
  BY <1>3 DEF PlayerLeaves, NoTick, Broadcast, clientVars, SendsLobby, SendsBoth, Unheard, Sends
<1>4. CASE HandleReady
  <2>1. CASE link = NoId
    BY <1>4, <2>1 DEF HandleReady, Broadcast, clientVars, Unheard
  <2>2. CASE link # NoId
    <3>1. phase = "QUEUE" /\ phase' = "COUNTDOWN"
      BY <1>0, <1>4, <2>2, PhaseNow, PhaseThen DEF HandleReady, Announce
    <3>2. QED
      BY <1>4, <2>2, <3>1 DEF HandleReady, Broadcast, clientVars, SendsBoth, Sends
  <2>3. QED
    BY <2>1, <2>2
<1>5. CASE LobbyTick
  <2>1. LobbySync' = LobbySync
    BY <1>5, SamePhase DEF LobbyTick, serverVars, LobbySync
  <2>2. QED
    BY <1>5, <2>1 DEF LobbyTick, Broadcast, serverVars, clientVars, SendsLobby, Sends
<1>6. CASE CountdownTick \/ MatchTick \/ ResultsTick
  BY <1>6 DEF CountdownTick, MatchTick, ResultsTick, Broadcast, clientVars, SendsWorld, Unheard, Sends
<1>7. CASE KickEverybody
  BY <1>7 DEF KickEverybody, Unlink, Broadcast, clientVars, Kicks, Unheard
<1>8. CASE ServerRestarts \/ Lost \/ LeaveQueue \/ ReceiveJoinFail
  BY <1>8 DEF ServerRestarts, Lost, LeaveQueue, ReceiveJoinFail, LoseSession, Hangup, Unlink, Ends
<1>9. CASE ReceiveWorldState
  BY <1>9 DEF ReceiveWorldState, Hangup, Unlink, Ends, GoesOn, serverVars
<1>10. CASE PressThunder \/ Frame \/ Prune
  BY <1>10, SamePhase DEF PressThunder, Frame, Prune, serverVars, Quiet
<1>11. CASE UNCHANGED vars
  BY <1>11, SamePhase DEF vars, serverVars, clientVars, Quiet
<1>12. QED
  BY <1>1, <1>2, <1>3, <1>4, <1>5, <1>6, <1>7, <1>8, <1>9, <1>10, <1>11
     DEF Next, ServerTick, Receive

-----------------------------------------------------------------------------
(* Sequences, element by element.                                           *)

LEMMA OneMore ==
    ASSUME chan \in Seq(Packets), NEW a, chan' = chan \o <<a>>
    PROVE  /\ Len(chan') = Len(chan) + 1 /\ chan' # <<>> /\ chan'[Len(chan) + 1] = a
           /\ \A i \in 1 .. Len(chan) : chan'[i] = chan[i]
           /\ \A i \in 1 .. Len(chan') : i \in 1 .. Len(chan) \/ i = Len(chan) + 1
OBVIOUS

LEMMA TwoMore ==
    ASSUME chan \in Seq(Packets), NEW a, NEW b, chan' = chan \o <<a, b>>
    PROVE  /\ Len(chan') = Len(chan) + 2 /\ chan' # <<>>
           /\ chan'[Len(chan) + 1] = a /\ chan'[Len(chan) + 2] = b
           /\ \A i \in 1 .. Len(chan) : chan'[i] = chan[i]
           /\ \A i \in 1 .. Len(chan') :
                 i \in 1 .. Len(chan) \/ i = Len(chan) + 1 \/ i = Len(chan) + 2
OBVIOUS

LEMMA OneByOne ==
    ASSUME NEW c \in Seq(Packets), NEW a \in Packets, NEW b \in Packets
    PROVE  c \o <<a, b>> = (c \o <<a>>) \o <<b>>
<1> DEFINE l == c \o <<a, b>>
           r == (c \o <<a>>) \o <<b>>
           n == Len(c)
<1>1. l \in Seq(Packets) /\ r \in Seq(Packets) /\ n \in Nat
  BY Tuples, ConcatProperties
<1>2. /\ Len(l) = n + 2 /\ l[n + 1] = a /\ l[n + 2] = b
      /\ \A i \in 1 .. n : l[i] = c[i]
  OBVIOUS
<1>3. /\ Len(r) = n + 2 /\ r[n + 1] = a /\ r[n + 2] = b
      /\ \A i \in 1 .. n : r[i] = c[i]
  OBVIOUS
<1>4. \A i \in 1 .. n + 2 : i \in 1 .. n \/ i = n + 1 \/ i = n + 2
  BY <1>1
<1> HIDE DEF l, r
<1>5. l = r
  BY <1>1, <1>2, <1>3, <1>4, SeqEqual
<1>6. QED
  BY <1>5 DEF l, r

LEMMA OneLess ==
    ASSUME chan \in Seq(Packets), chan # <<>>, chan' = Tail(chan)
    PROVE  /\ Len(chan) > 0 /\ Len(chan') = Len(chan) - 1 /\ Head(chan) = chan[1]
           /\ \A i \in 1 .. Len(chan') : chan'[i] = chan[i + 1]
OBVIOUS

LEMMA Typed ==
    ASSUME AllTypes
    PROVE  /\ chan \in Seq(Packets) /\ sim \in Sims
           /\ session \in {"none", "asked", "joined"} /\ Len(chan) \in Nat
           /\ link \in members \union {NoId} /\ members \subseteq Member
           /\ worldStateTick \in Ticks /\ mapSeed \in Nat
           /\ \A i \in 1 .. Len(chan) : chan[i] \in Packets
BY DEF AllTypes, ClientTypes, RoomTypes

\* What is delivered, and what becomes of the copy.
LEMMA TakesLobby ==
    ASSUME AllTypes, ReceiveLobbySync
    PROVE  /\ Head(chan) \in Lobbies /\ chan # <<>> /\ chan' = Tail(chan)
           /\ session = "joined" /\ sim' = applyLobbySync(sim, Head(chan))
           /\ UNCHANGED <<session, link, mapSeed, worldStateTick, placed>> /\ phase' = phase
  BY Delivered, SamePhase DEF ReceiveLobbySync, Take, AllTypes, serverVars

LEMMA TakesWorld ==
    ASSUME AllTypes, GoesOn
    PROVE  /\ Head(chan) \in Worlds /\ chan # <<>> /\ chan' = Tail(chan)
           /\ session = "joined"
           /\ sim' = IF Applies(Head(chan).tick, sim.lastWorldStateTick)
                     THEN applyWorldState(sim, Head(chan)) ELSE sim
           /\ UNCHANGED <<session, link, mapSeed, worldStateTick, placed>> /\ phase' = phase
<1>1. /\ ReceiveWorldState /\ session' = session /\ chan' = Tail(chan)
      /\ UNCHANGED <<serverVars, link, mapSeed>>
  BY DEF GoesOn
<1>2. chan # <<>> /\ session = "joined" /\ Head(chan) \in Worlds
  BY <1>1, Delivered DEF ReceiveWorldState, AllTypes
<1>3. sim' = IF Applies(Head(chan).tick, sim.lastWorldStateTick)
             THEN applyWorldState(sim, Head(chan)) ELSE sim
  BY <1>1, <1>2 DEF ReceiveWorldState, Hangup
<1>4. QED
  BY <1>1, <1>2, <1>3, SamePhase DEF serverVars

LEMMA TakesJoinOk ==
    ASSUME AllTypes, ReceiveJoinOk
    PROVE  /\ Head(chan) \in JoinOks /\ chan # <<>> /\ chan' = Tail(chan)
           /\ session' = "joined"
           /\ sim' = applyJoinAck(resetWorldStateSync(sim), Head(chan).playerId)
           /\ sim'.local = Head(chan).playerId /\ sim'.local \in sim'.connected
           /\ sim'.local \notin sim'.inMatch
           /\ sim'.lastWorldStateTick = 0 /\ sim'.snapshotBuffer = 0
           /\ sim'.awaitingSpawnSync = FALSE
           /\ sim'.phase = (IF sim.phase = "IDLE" THEN "QUEUE" ELSE sim.phase)
           /\ sim'.strikes = sim.strikes /\ sim'.playerThunderCasting = sim.playerThunderCasting
           /\ UNCHANGED <<link, mapSeed, worldStateTick, placed>> /\ phase' = phase
<1> DEFINE s == resetWorldStateSync(sim)
           p == Head(chan)
<1>1. /\ p \in JoinOks /\ chan # <<>> /\ chan' = Tail(chan)
      /\ session' = "joined" /\ sim' = applyJoinAck(s, p.playerId)
      /\ UNCHANGED serverVars /\ UNCHANGED link
  BY Delivered DEF ReceiveJoinOk, Take, AllTypes
<1>2. /\ s \in Sims /\ s.lastWorldStateTick = 0 /\ s.snapshotBuffer = 0
      /\ s.awaitingSpawnSync = FALSE /\ s.phase = sim.phase
      /\ s.strikes = sim.strikes /\ s.playerThunderCasting = sim.playerThunderCasting
  BY Typed, SyncReset
<1> HIDE DEF s
<1>3. p.playerId \in Member
  BY <1>1 DEF JoinOks
<1> HIDE DEF p
<1>4. LET r == applyJoinAck(s, p.playerId) IN
      /\ r.local = p.playerId /\ r.connected = s.connected \union {p.playerId}
      /\ r.inMatch = s.inMatch \ {p.playerId}
      /\ r.phase = (IF s.phase = "IDLE" THEN "QUEUE" ELSE s.phase)
      /\ r.strikes = s.strikes /\ r.playerThunderCasting = s.playerThunderCasting
      /\ r.lastWorldStateTick = s.lastWorldStateTick
      /\ r.snapshotBuffer = s.snapshotBuffer /\ r.awaitingSpawnSync = s.awaitingSpawnSync
  BY <1>2, <1>3, JoinAcked
<1>5. UNCHANGED <<link, mapSeed, worldStateTick, placed>> /\ phase' = phase
  BY <1>1, SamePhase DEF serverVars
<1>6. QED
  BY <1>1, <1>2, <1>4, <1>5 DEF p, s

-----------------------------------------------------------------------------
(* One strike of his own.                                                   *)

StrikeInv ==
    /\ \A k, l \in sim.strikes : k = l
    /\ sim.playerThunderCasting = (sim.strikes # {})

LEMMA StrikeStep == AllTypes /\ AllTypes' /\ StrikeInv /\ [Next]_vars => StrikeInv'
<1> SUFFICES ASSUME AllTypes, AllTypes', StrikeInv, [Next]_vars PROVE StrikeInv'
  OBVIOUS
<1>0. sim \in Sims /\ returnPlayersToMenu(sim).strikes = {}
      /\ returnPlayersToMenu(sim).playerThunderCasting = FALSE
  BY Typed, ToMenu
<1>1. ASSUME sim' = sim PROVE StrikeInv'
  BY <1>1 DEF StrikeInv
<1>2. ASSUME sim' = returnPlayersToMenu(sim) PROVE StrikeInv'
  BY <1>0, <1>2 DEF StrikeInv
<1>3. ASSUME sim'.strikes = sim.strikes, sim'.playerThunderCasting = sim.playerThunderCasting
      PROVE  StrikeInv'
  BY <1>3 DEF StrikeInv
<1>4. CASE ReceiveJoinOk
  BY <1>3, <1>4, TakesJoinOk
<1>5. CASE ReceiveLobbySync
  <2>1. Head(chan) \in Lobbies /\ sim' = applyLobbySync(sim, Head(chan))
    BY <1>5, TakesLobby
  <2>2. QED
    BY <1>0, <1>3, <2>1, LobbyApplied
<1>6. CASE ReceiveWorldState
  <2> DEFINE p == Head(chan)
  <2>1. p \in Worlds
    BY <1>6, Delivered DEF ReceiveWorldState, AllTypes
  <2> HIDE DEF p
  <2>2. LET r == applyWorldState(sim, p) IN
        /\ r \in Sims /\ r.strikes = ServerStrike(p) \union KeptPredicted(sim, p)
        /\ r.playerThunderCasting = (r.strikes # {})
    BY <1>0, <2>1, WorldApplied
  <2>3. \A k, l \in ServerStrike(p) \union KeptPredicted(sim, p) : k = l
    BY DEF ServerStrike, KeptPredicted, StrikeInv
  <2>4. LET r == returnPlayersToMenu(applyWorldState(sim, p)) IN
        r.strikes = {} /\ r.playerThunderCasting = FALSE
    BY <2>2, ToMenu
  <2>5. CASE sim' = applyWorldState(sim, p)
    BY <2>2, <2>3, <2>5 DEF StrikeInv
  <2>6. CASE sim' = returnPlayersToMenu(applyWorldState(sim, p))
    BY <2>4, <2>6 DEF StrikeInv
  <2>7. QED
    BY <1>1, <1>6, <2>5, <2>6 DEF ReceiveWorldState, p
<1>7. CASE ReceiveJoinFail \/ Lost \/ ServerRestarts
  BY <1>1, <1>2, <1>7 DEF ReceiveJoinFail, Lost, ServerRestarts, LoseSession
<1>8. CASE LeaveQueue
  BY <1>0, <1>3, <1>8 DEF LeaveQueue, Sims
<1>9. CASE PressThunder
  <2>1. sim.strikes = {}
    BY <1>9 DEF PressThunder, StrikeInv
  <2>2. sim'.strikes = {[predicted |-> TRUE, left |-> Frames]} /\ sim'.playerThunderCasting = TRUE
    BY <1>0, <1>9, <2>1 DEF PressThunder, Sims
  <2>3. QED
    BY <2>2 DEF StrikeInv
<1>10. CASE Frame
  <2> DEFINE next(k) == [k EXCEPT !.left = IF @ = 0 THEN 0 ELSE @ - 1]
  <2>1. /\ sim'.strikes = {next(k) : k \in sim.strikes}
        /\ sim'.playerThunderCasting = sim.playerThunderCasting
    BY <1>0, <1>10 DEF Frame, Sims
  <2> HIDE DEF next
  <2>2. QED
    BY <2>1 DEF StrikeInv
<1>11. CASE Prune
  BY <1>0, <1>3, <1>11 DEF Prune, Sims
<1>12. ASSUME UNCHANGED clientVars PROVE StrikeInv'
  BY <1>1, <1>12 DEF clientVars
<1>13. ASSUME NEW m \in Member, OtherJoins(m) \/ HandleJoin(m) \/ PlayerLeaves(m) PROVE StrikeInv'
  BY <1>12, <1>13 DEF OtherJoins, HandleJoin, PlayerLeaves, clientVars
<1>14. CASE HandleReady \/ HandleJoinRefused \/ ServerTick
  BY <1>12, <1>14 DEF HandleReady, HandleJoinRefused, ServerTick, LobbyTick, CountdownTick,
                      MatchTick, ResultsTick, KickEverybody, clientVars
<1>15. CASE Asks \/ UNCHANGED vars
  BY <1>1, <1>15 DEF Asks, vars, clientVars
<1>16. QED
  BY <1>4, <1>5, <1>6, <1>7, <1>8, <1>9, <1>10, <1>11, <1>13, <1>14, <1>15 DEF Next, Receive

(* The player sees one strike of his own at most, and may cast when there is    *)
(* none: applyWorldStatePacket() keeps a predicted strike only if the server    *)
(* has none, and predictLocalThunderCast() begins none beside another.         *)
THEOREM OneStrikeSeen == Spec => []OneOwnStrike
<1>1. Init => StrikeInv
  <2>1. Init => sim.strikes = {} /\ sim.playerThunderCasting = FALSE
    BY DEF Init, Fresh
  <2>2. QED
    BY <2>1 DEF StrikeInv
<1>2. StrikeInv => OneOwnStrike
  <2> SUFFICES ASSUME StrikeInv PROVE OneOwnStrike
    OBVIOUS
  <2>1. CASE sim.strikes = {}
    BY <2>1, FS_EmptySet DEF StrikeInv, OneOwnStrike
  <2>2. ASSUME NEW k \in sim.strikes PROVE OneOwnStrike
    <3>1. sim.strikes = {k}
      BY <2>2 DEF StrikeInv
    <3>2. Cardinality(sim.strikes) = 1
      BY <3>1, FS_Singleton
    <3>3. QED
      BY <3>2 DEF StrikeInv, OneOwnStrike
  <2>3. QED
    BY <2>1, <2>2
<1>3. AllTypes /\ AllTypes' /\ StrikeInv /\ [Next]_vars => StrikeInv'
  BY StrikeStep
<1>4. QED
  BY <1>1, <1>2, <1>3, SyncTypeCorrect, PTL DEF Spec

-----------------------------------------------------------------------------
(* What the steps leave of the copy, and what the packets say.                *)

LEMMA QuietCopy ==
    ASSUME AllTypes, Quiet
    PROVE  /\ sim'.local = sim.local /\ sim'.phase = sim.phase
           /\ sim'.connected = sim.connected /\ sim'.inMatch = sim.inMatch
           /\ sim'.mapSeed = sim.mapSeed /\ sim'.lastWorldStateTick = sim.lastWorldStateTick
           /\ sim'.awaitingSpawnSync = sim.awaitingSpawnSync
           /\ sim'.snapshotBuffer \in Nat /\ sim.snapshotBuffer \in Nat
           /\ sim'.snapshotBuffer = sim.snapshotBuffer
              \/ (sim.snapshotBuffer > 2 /\ sim'.snapshotBuffer = sim.snapshotBuffer - 1)
<1>1. sim \in Sims /\ sim.snapshotBuffer \in Nat
  BY Typed DEF Sims
<1>2. CASE PressThunder \/ Frame \/ sim' = sim
  BY <1>1, <1>2 DEF PressThunder, Frame, Sims
<1>3. CASE Prune
  BY <1>1, <1>3 DEF Prune, Prunable, Sims
<1>4. QED
  BY <1>2, <1>3 DEF Quiet

LEMMA LobbySays ==
    /\ LobbySync.type = "S_LOBBY_SYNC" /\ LobbySync.phase = phase
    /\ LobbySync.connected = members /\ LobbySync.inMatch = placed
BY DEF LobbySync

LEMMA WorldSays ==
    /\ WorldState(FALSE).type = "S_WORLD_STATE" /\ WorldState(FALSE).phase = phase
    /\ WorldState(FALSE).connected = members /\ WorldState(FALSE).inMatch = placed
    /\ WorldState(FALSE).tick = worldStateTick /\ WorldState(FALSE).mapSeed = mapSeed
BY DEF WorldState

LEMMA KickSays ==
    LET w == [WorldState(TRUE) EXCEPT !.tick = worldStateTick'] IN
    /\ w.type = "S_WORLD_STATE" /\ w.phase = phase /\ w.tick = worldStateTick'
    /\ w.connected = members /\ w.inMatch = placed /\ w.mapSeed = mapSeed
BY DEF WorldState

\* A packet about the server's room as it is after the step.
IsLobby(p) ==
    /\ p.type = "S_LOBBY_SYNC" /\ p.phase = phase' /\ p.connected = members'
    /\ p.inMatch = placed'

IsWorld(p) ==
    /\ p.type = "S_WORLD_STATE" /\ p.phase = phase' /\ p.connected = members'
    /\ p.inMatch = placed' /\ p.tick = worldStateTick' /\ p.mapSeed = mapSeed'

LEMMA SaysThen == IsLobby(LobbySync') /\ IsWorld(WorldState(FALSE)')
<1>1. (LobbySync.type = "S_LOBBY_SYNC" /\ LobbySync.phase = phase
       /\ LobbySync.connected = members /\ LobbySync.inMatch = placed)'
  BY LobbySays, PTL
<1>2. (/\ WorldState(FALSE).type = "S_WORLD_STATE" /\ WorldState(FALSE).phase = phase
       /\ WorldState(FALSE).connected = members /\ WorldState(FALSE).inMatch = placed
       /\ WorldState(FALSE).tick = worldStateTick /\ WorldState(FALSE).mapSeed = mapSeed)'
  BY WorldSays, PTL
<1>3. QED
  BY <1>1, <1>2 DEF IsLobby, IsWorld

\* The packets after a step of the server that the client hears of.
LEMMA LobbySent ==
    ASSUME AllTypes, SendsLobby
    PROVE  /\ Len(chan') = Len(chan) + 1 /\ chan' # <<>>
           /\ IsLobby(chan'[Len(chan) + 1])
           /\ \A i \in 1 .. Len(chan) : chan'[i] = chan[i]
           /\ \A i \in 1 .. Len(chan') : i \in 1 .. Len(chan) \/ i = Len(chan) + 1
BY Typed, OneMore, SaysThen DEF SendsLobby, Sends

LEMMA WorldSent ==
    ASSUME AllTypes, SendsWorld
    PROVE  /\ Len(chan') = Len(chan) + 1 /\ chan' # <<>>
           /\ IsWorld(chan'[Len(chan) + 1])
           /\ \A i \in 1 .. Len(chan) : chan'[i] = chan[i]
           /\ \A i \in 1 .. Len(chan') : i \in 1 .. Len(chan) \/ i = Len(chan) + 1
BY Typed, OneMore, SaysThen DEF SendsWorld, Sends

LEMMA BothSent ==
    ASSUME AllTypes, SendsBoth
    PROVE  /\ Len(chan') = Len(chan) + 2 /\ chan' # <<>>
           /\ IsLobby(chan'[Len(chan) + 1]) /\ IsWorld(chan'[Len(chan) + 2])
           /\ \A i \in 1 .. Len(chan) : chan'[i] = chan[i]
           /\ \A i \in 1 .. Len(chan') :
                 i \in 1 .. Len(chan) \/ i = Len(chan) + 1 \/ i = Len(chan) + 2
BY Typed, TwoMore, SaysThen DEF SendsBoth, Sends

LEMMA KickSent ==
    ASSUME AllTypes, Kicks
    PROVE  /\ Len(chan') = Len(chan) + 1 /\ chan' # <<>>
           /\ chan'[Len(chan) + 1] = [WorldState(TRUE) EXCEPT !.tick = worldStateTick']
           /\ \A i \in 1 .. Len(chan) : chan'[i] = chan[i]
           /\ \A i \in 1 .. Len(chan') : i \in 1 .. Len(chan) \/ i = Len(chan) + 1
BY Typed, OneMore DEF Kicks

LEMMA Answered ==
    ASSUME NEW m \in Member, LetsIn(m)
    PROVE  /\ session = "asked" /\ session' = "asked" /\ sim' = sim /\ link = NoId /\ link' = m
           /\ m \in members' /\ m \notin placed' /\ chan' # <<>>
           /\ UNCHANGED <<mapSeed, worldStateTick>>
           /\ Len(chan') = 2 /\ (\A i \in 1 .. Len(chan') : i = 1 \/ i = 2) 
           /\ chan'[1].type = "S_JOIN_OK" /\ chan'[1].playerId = m
           /\ Head(chan') = chan'[1] /\ IsLobby(chan'[2])
BY SaysThen DEF LetsIn, HandleJoin, Enter, JoinAnswer, NoTick, clientVars

-----------------------------------------------------------------------------
(* The map.                                                                *)

MapInv ==
    link # NoId =>
       /\ \A i \in 1 .. Len(chan) : World(chan[i]) => chan[i].mapSeed = mapSeed
       /\ session = "joined" /\ sim.snapshotBuffer > 0 => sim.mapSeed = mapSeed

LEMMA MapStep == AllTypes /\ AllTypes' /\ MapInv /\ [Next]_vars => MapInv'
<1> SUFFICES ASSUME AllTypes, AllTypes', MapInv, [Next]_vars, link' # NoId PROVE MapInv'
  BY DEF MapInv
<1>0. chan \in Seq(Packets) /\ Len(chan) \in Nat /\ sim \in Sims
  BY Typed
<1>1. CASE Ends \/ Unheard \/ Kicks
  BY <1>1 DEF Ends, Unheard, Kicks
<1>2. CASE Quiet
  <2>1. sim'.mapSeed = sim.mapSeed /\ (sim'.snapshotBuffer > 0 => sim.snapshotBuffer > 0)
    BY <1>2, QuietCopy
  <2>2. QED
    BY <1>2, <2>1 DEF Quiet, MapInv
<1>3. CASE SendsLobby
  BY <1>0, <1>3, LobbySent DEF SendsLobby, Sends, MapInv, World, IsLobby
<1>4. CASE SendsWorld
  BY <1>0, <1>4, WorldSent DEF SendsWorld, Sends, MapInv, World, IsWorld
<1>5. CASE SendsBoth
  BY <1>0, <1>5, BothSent DEF SendsBoth, Sends, MapInv, World, IsWorld, IsLobby
<1>6. ASSUME NEW m \in Member, LetsIn(m) PROVE MapInv'
  <2>1. session' = "asked" /\ \A i \in 1 .. Len(chan') : i = 1 \/ i = 2
    BY <1>6, Answered
  <2>2. chan'[1].type = "S_JOIN_OK" /\ chan'[2].type = "S_LOBBY_SYNC"
    BY <1>6, Answered DEF IsLobby
  <2>3. QED
    BY <2>1, <2>2 DEF MapInv, World
<1>7. CASE HandleJoinRefused
  BY <1>7 DEF HandleJoinRefused
<1>8. CASE Asks
  BY <1>8 DEF Asks, serverVars, MapInv
<1>9. CASE ReceiveJoinOk
  BY <1>0, <1>9, TakesJoinOk, OneLess DEF MapInv
<1>10. CASE ReceiveLobbySync
  <2>1. LET r == applyLobbySync(sim, Head(chan)) IN
        r.mapSeed = sim.mapSeed /\ r.snapshotBuffer \in {sim.snapshotBuffer, 0}
    BY <1>0, <1>10, TakesLobby, LobbyApplied
  <2>2. QED
    BY <1>0, <1>10, <2>1, TakesLobby, OneLess DEF MapInv
<1>11. CASE GoesOn
  <2>1. World(Head(chan)) /\ Head(chan).mapSeed = mapSeed
    BY <1>0, <1>11, TakesWorld, OneLess DEF MapInv, Worlds, World
  <2>2. applyWorldState(sim, Head(chan)).mapSeed = Head(chan).mapSeed
    BY <1>0, <1>11, TakesWorld, WorldApplied
  <2>3. QED
    BY <1>0, <1>11, <2>1, <2>2, TakesWorld, OneLess DEF MapInv
<1>12. QED
  BY <1>1, <1>2, <1>3, <1>4, <1>5, <1>6, <1>7, <1>8, <1>9, <1>10, <1>11, Steps

(* In a match the client moves on the server's map, also after the server has   *)
(* begun again with another one: the snapshots it waits for carry the seed.     *)
THEOREM MapsAgree == Spec => []SameMap
<1>1. Init => MapInv
  BY DEF Init, MapInv
<1>2. AllTypes /\ MapInv => SameMap
  BY Constants DEF AllTypes, ClientTypes, Sims, MapInv, SameMap, AppliesInput, isMatchSyncReady
<1>3. AllTypes /\ AllTypes' /\ MapInv /\ [Next]_vars => MapInv'
  BY MapStep
<1>4. QED
  BY <1>1, <1>2, <1>3, SyncTypeCorrect, PTL DEF Spec

-----------------------------------------------------------------------------
(* Who the client is.                                                       *)

\* The server has let the client in, and its answer is on its way or arrived.
Accepted == session = "asked" /\ chan # <<>> /\ Head(chan).type = "S_JOIN_OK"
Playing  == session = "joined" \/ Accepted

\* The client's player, and the first packet about his room.
Me    == IF session = "joined" THEN sim.local ELSE Head(chan).playerId
First == IF session = "joined" THEN 1 ELSE 2

News(p)      == p.type \in {"S_LOBBY_SYNC", "S_WORLD_STATE"}
Names(p, id) == News(p) /\ id \in p.connected

LinkInv ==
    /\ session = "none" => chan = <<>>
    /\ ~Playing => link = NoId /\ \A i \in 1 .. Len(chan) : chan[i].type = "S_JOIN_FAIL"
    /\ Playing => link \in {NoId, Me} /\ \A i \in First .. Len(chan) : Names(chan[i], Me)
    /\ Accepted => Len(chan) > 1
    /\ session = "joined" => sim.local \in sim.connected

\* The same, where the client is known to be in the room.
LEMMA FirstOfQueue ==
    ASSUME AllTypes, chan # <<>>
    PROVE  Head(chan) = chan[1] /\ Len(chan) \in Nat \ {0} /\ 1 \in 1 .. Len(chan)
BY Typed

LEMMA MeStays ==
    ASSUME AllTypes, AllTypes', Playing, UNCHANGED session, sim'.local = sim.local,
           chan # <<>> => chan' # <<>> /\ chan'[1] = chan[1]
    PROVE  Playing' /\ First' = First /\ Me' = Me /\ Accepted' = Accepted
<1>1. CASE session = "joined"
  BY <1>1 DEF Playing, First, Me, Accepted
<1>2. CASE Accepted
  <2>1. Head(chan)' = Head(chan)
    BY <1>2, FirstOfQueue, Typed DEF Accepted, AllTypes, ClientTypes
  <2>2. QED
    BY <1>2, <2>1 DEF Playing, First, Me, Accepted
<1>3. QED
  BY <1>1, <1>2 DEF Playing

\* An answer that is taken names whom the following packets name.
LEMMA NowJoined ==
    ASSUME AllTypes, AllTypes', LinkInv, ReceiveJoinOk
    PROVE  /\ session = "asked" /\ Accepted /\ Playing /\ Playing' /\ ~Accepted'
           /\ First = 2 /\ First' = 1 /\ Me' = Me /\ sim'.local = Me /\ Len(chan) > 1
           /\ chan[1].type = "S_JOIN_OK"
<1>1. Head(chan).type = "S_JOIN_OK" /\ chan # <<>> /\ session' = "joined"
      /\ sim'.local = Head(chan).playerId
  BY TakesJoinOk DEF JoinOks
<1>2. chan[1].type = "S_JOIN_OK" /\ 1 \in 1 .. Len(chan)
  BY <1>1, FirstOfQueue
<1>3. session # "joined" /\ session # "none"
  BY <1>1, <1>2 DEF LinkInv, Playing, First, Names, News
<1>4. session = "asked"
  BY <1>3, Typed
<1>5. QED
  BY <1>1, <1>2, <1>4 DEF LinkInv, Playing, Accepted, Me, First

LEMMA LinkStep == AllTypes /\ AllTypes' /\ LinkInv /\ [Next]_vars => LinkInv'
<1> SUFFICES ASSUME AllTypes, AllTypes', LinkInv, [Next]_vars PROVE LinkInv'
  OBVIOUS
<1>0. /\ chan \in Seq(Packets) /\ Len(chan) \in Nat /\ sim \in Sims
      /\ link \in members \union {NoId} /\ link' \in members' \union {NoId}
      /\ session \in {"none", "asked", "joined"}
  BY Typed DEF AllTypes, RoomTypes, ClientTypes
<1>1. CASE Ends
  BY <1>1 DEF Ends, LinkInv, Playing, Accepted
<1>2. CASE Quiet
  <2>1. CASE Playing
    <3>1. Playing' /\ First' = First /\ Me' = Me /\ Accepted' = Accepted
      BY <1>2, <2>1, QuietCopy, MeStays DEF Quiet
    <3>2. QED
      BY <1>2, <2>1, <3>1, QuietCopy DEF Quiet, LinkInv
  <2>2. CASE ~Playing
    BY <1>2, <2>2 DEF Quiet, LinkInv, Playing, Accepted
  <2>3. QED
    BY <2>1, <2>2
<1>3. CASE Unheard
  BY <1>3 DEF Unheard, LinkInv, Playing, Accepted, Me, First
\* Packets are sent to a client in the room, and name everybody in it.
<1>4. ASSUME link # NoId, chan' # <<>>, UNCHANGED <<session, sim>>, link' \in {link, NoId},
             \A i \in 1 .. Len(chan) : chan'[i] = chan[i],
             \A i \in 1 .. Len(chan') : i \in 1 .. Len(chan) \/ Names(chan'[i], link),
             Len(chan') >= Len(chan), Len(chan') \in Nat
      PROVE  LinkInv'
  <2>1. Playing /\ link = Me
    BY <1>4 DEF LinkInv
  <2>2. chan # <<>> => chan' # <<>> /\ chan'[1] = chan[1]
    BY <1>0, <1>4
  <2>3. Playing' /\ First' = First /\ Me' = Me /\ Accepted' = Accepted
    BY <1>4, <2>1, <2>2, MeStays
  <2>4. \A i \in First .. Len(chan') : Names(chan'[i], Me)
    <3> SUFFICES ASSUME NEW i \in First .. Len(chan') PROVE Names(chan'[i], Me)
      OBVIOUS
    <3>1. First \in Nat \ {0} /\ i \in 1 .. Len(chan')
      BY <1>4 DEF First
    <3>2. QED
      BY <1>0, <1>4, <2>1, <3>1 DEF LinkInv
  <2>5. session # "none"
    BY <2>1 DEF Playing, Accepted
  <2>6. QED
    BY <1>0, <1>4, <2>1, <2>3, <2>4, <2>5 DEF LinkInv
<1>5. CASE SendsLobby
  <2>1. Names(chan'[Len(chan) + 1], link)
    BY <1>0, <1>5, LobbySent, Constants DEF SendsLobby, Sends, IsLobby, Names, News
  <2>2. QED
    BY <1>0, <1>4, <1>5, <2>1, LobbySent DEF SendsLobby, Sends
<1>6. CASE SendsWorld
  <2>1. Names(chan'[Len(chan) + 1], link)
    BY <1>0, <1>6, WorldSent, Constants DEF SendsWorld, Sends, IsWorld, Names, News
  <2>2. /\ \A i \in 1 .. Len(chan) : chan'[i] = chan[i]
        /\ \A i \in 1 .. Len(chan') : i \in 1 .. Len(chan) \/ Names(chan'[i], link)
        /\ Len(chan') \in Nat /\ Len(chan') >= Len(chan) /\ chan' # <<>>
    BY <1>0, <1>6, <2>1, WorldSent
  <2>3. QED
    BY <1>4, <1>6, <2>2 DEF SendsWorld, Sends
<1>7. CASE SendsBoth
  <2>1. Names(chan'[Len(chan) + 1], link) /\ Names(chan'[Len(chan) + 2], link)
    BY <1>0, <1>7, BothSent, Constants DEF SendsBoth, Sends, IsLobby, IsWorld, Names, News
  <2>2. /\ \A i \in 1 .. Len(chan) : chan'[i] = chan[i]
        /\ \A i \in 1 .. Len(chan') : i \in 1 .. Len(chan) \/ Names(chan'[i], link)
        /\ Len(chan') \in Nat /\ Len(chan') >= Len(chan) /\ chan' # <<>>
    BY <1>0, <1>7, <2>1, BothSent
  <2>3. QED
    BY <1>4, <1>7, <2>2 DEF SendsBoth, Sends
<1>8. CASE Kicks
  <2>1. Names(chan'[Len(chan) + 1], link)
    BY <1>0, <1>8, KickSent, KickSays DEF Kicks, Names, News
  <2>2. /\ \A i \in 1 .. Len(chan) : chan'[i] = chan[i]
        /\ \A i \in 1 .. Len(chan') : i \in 1 .. Len(chan) \/ Names(chan'[i], link)
        /\ Len(chan') \in Nat /\ Len(chan') >= Len(chan) /\ chan' # <<>>
    BY <1>0, <1>8, <2>1, KickSent
  <2>3. QED
    BY <1>4, <1>8, <2>2 DEF Kicks
<1>9. ASSUME NEW m \in Member, LetsIn(m) PROVE LinkInv'
  <2>1. /\ session' = "asked" /\ Head(chan').type = "S_JOIN_OK" /\ Head(chan').playerId = m
        /\ chan' # <<>> /\ Len(chan') = 2 /\ link' = m
    BY <1>9, Answered
  <2>2. Names(chan'[2], m)
    BY <1>9, Answered DEF IsLobby, Names, News
  <2>3. QED
    BY <2>1, <2>2 DEF LinkInv, Playing, Accepted, Me, First
<1>10. CASE HandleJoinRefused
  BY <1>10 DEF HandleJoinRefused, clientVars, LinkInv, Playing, Accepted
<1>11. CASE Asks
  BY <1>0, <1>11 DEF Asks, LinkInv, Playing, Accepted
<1>12. CASE ReceiveJoinOk
  <2>1. /\ Playing /\ First = 2 /\ Playing' /\ First' = 1 /\ ~Accepted' /\ Me' = Me
        /\ sim'.local = Me
    BY <1>12, NowJoined
  <2>2. /\ session' = "joined" /\ sim'.local \in sim'.connected /\ link' = link
        /\ chan # <<>> /\ chan' = Tail(chan)
    BY <1>12, TakesJoinOk
  <2>3. \A i \in 1 .. Len(chan') : Names(chan'[i], Me)
    BY <1>0, <2>1, <2>2, OneLess DEF LinkInv
  <2>4. QED
    BY <2>1, <2>2, <2>3 DEF LinkInv
\* A packet about the room is taken.
<1>13. ASSUME session = "joined", session' = "joined", link' = link, sim'.local = sim.local,
              chan # <<>>, chan' = Tail(chan),
              sim'.connected = Head(chan).connected \/ sim'.connected = sim.connected
       PROVE  LinkInv'
  <2>1. /\ Playing /\ First = 1 /\ Playing' /\ First' = 1 /\ ~Accepted' /\ Me' = Me
        /\ Me = sim.local
    BY <1>13 DEF Playing, First, Me, Accepted
  <2>2. Names(chan[1], Me) /\ \A i \in 1 .. Len(chan') : Names(chan'[i], Me)
    BY <1>0, <1>13, <2>1, OneLess DEF LinkInv
  <2>3. sim'.local \in sim'.connected
    BY <1>13, <2>1, <2>2, FirstOfQueue DEF Names, LinkInv
  <2>4. QED
    BY <1>13, <2>1, <2>2, <2>3 DEF LinkInv
<1>14. CASE ReceiveLobbySync
  <2>1. LET r == applyLobbySync(sim, Head(chan)) IN
        r.local = sim.local /\ r.connected = Head(chan).connected
    BY <1>0, <1>14, TakesLobby, LobbyApplied
  <2>2. QED
    BY <1>13, <1>14, <2>1, TakesLobby
<1>15. CASE GoesOn
  <2>1. LET r == applyWorldState(sim, Head(chan)) IN
        r.local = sim.local /\ r.connected = Head(chan).connected
    BY <1>0, <1>15, TakesWorld, WorldApplied
  <2>2. QED
    BY <1>13, <1>15, <2>1, TakesWorld
<1>16. QED
  BY <1>1, <1>2, <1>3, <1>5, <1>6, <1>7, <1>8, <1>9, <1>10, <1>11, <1>12, <1>14, <1>15, Steps

(* Whoever is joined stands in his own copy of the room, although his slot may   *)
(* have been somebody else's a moment ago: the join is answered before the room *)
(* is sent, and every packet until the end names him.                          *)
THEOREM KnowsHimselfAlways == Spec => []KnowsHimself
<1>1. Init => LinkInv
  BY DEF Init, LinkInv, Playing, Accepted
<1>2. LinkInv => KnowsHimself
  BY DEF LinkInv, KnowsHimself
<1>3. AllTypes /\ AllTypes' /\ LinkInv /\ [Next]_vars => LinkInv'
  BY LinkStep
<1>4. QED
  BY <1>1, <1>2, <1>3, SyncTypeCorrect, PTL DEF Spec

-----------------------------------------------------------------------------
(* The numbers of the world states.                                         *)

After(t) == (t + 1) % TickSpan

NoWorld(c) == \A i \in 1 .. Len(c) : ~World(c[i])

\* The world states in c are numbered one after the other ...
InOrder(c) ==
    \A i, j \in 1 .. Len(c) :
       (i < j /\ World(c[i]) /\ World(c[j]) /\ \A k \in i + 1 .. j - 1 : ~World(c[k]))
          => c[j].tick = After(c[i].tick)

\* ... up to t ...
EndsAt(c, t) ==
    \A i \in 1 .. Len(c) :
       (World(c[i]) /\ \A k \in i + 1 .. Len(c) : ~World(c[k])) => c[i].tick = t

\* ... and from the one after t on, or from any if t is zero.
BeginsAfter(c, t) ==
    \A i \in 1 .. Len(c) :
       (World(c[i]) /\ \A k \in 1 .. i - 1 : ~World(c[k])) => t = 0 \/ c[i].tick = After(t)

LEMMA AddsLobby ==
    ASSUME NEW c \in Seq(Packets), NEW a \in Packets, ~World(a), NEW s, NEW t
    PROVE  LET d == c \o <<a>> IN
           /\ d \in Seq(Packets)
           /\ InOrder(c) => InOrder(d)
           /\ EndsAt(c, t) => EndsAt(d, t)
           /\ BeginsAfter(c, s) => BeginsAfter(d, s)
           /\ NoWorld(d) => NoWorld(c)
<1> DEFINE d == c \o <<a>>
           n == Len(c)
<1>1. /\ d \in Seq(Packets) /\ n \in Nat /\ Len(d) = n + 1 /\ d[n + 1] = a
      /\ \A i \in 1 .. n : d[i] = c[i]
      /\ \A i \in 1 .. Len(d) : i \in 1 .. n \/ i = n + 1
  OBVIOUS
<1>2. ASSUME InOrder(c) PROVE InOrder(d)
  <2> SUFFICES ASSUME NEW i \in 1 .. Len(d), NEW j \in 1 .. Len(d), i < j, World(d[i]), World(d[j]),
                      \A k \in i + 1 .. j - 1 : ~World(d[k])
               PROVE  d[j].tick = After(d[i].tick)
    BY DEF InOrder
  <2>1. i \in 1 .. n /\ j \in 1 .. n
    BY <1>1
  <2>2. \A k \in i + 1 .. j - 1 : k \in 1 .. n
    BY <1>1, <2>1
  <2>3. QED
    BY <1>1, <1>2, <2>1, <2>2 DEF InOrder
<1>3. ASSUME EndsAt(c, t) PROVE EndsAt(d, t)
  <2> SUFFICES ASSUME NEW i \in 1 .. Len(d), World(d[i]), \A k \in i + 1 .. Len(d) : ~World(d[k])
               PROVE  d[i].tick = t
    BY DEF EndsAt
  <2>1. i \in 1 .. n /\ \A k \in i + 1 .. n : k \in 1 .. n /\ k \in i + 1 .. Len(d)
    BY <1>1
  <2>2. QED
    BY <1>1, <1>3, <2>1 DEF EndsAt
<1>4. ASSUME BeginsAfter(c, s) PROVE BeginsAfter(d, s)
  <2> SUFFICES ASSUME NEW i \in 1 .. Len(d), World(d[i]), \A k \in 1 .. i - 1 : ~World(d[k])
               PROVE  s = 0 \/ d[i].tick = After(s)
    BY DEF BeginsAfter
  <2>1. i \in 1 .. n /\ \A k \in 1 .. i - 1 : k \in 1 .. n
    BY <1>1
  <2>2. QED
    BY <1>1, <1>4, <2>1 DEF BeginsAfter
<1>5. ASSUME NoWorld(d) PROVE NoWorld(c)
  BY <1>1, <1>5 DEF NoWorld
<1>6. QED
  BY <1>1, <1>2, <1>3, <1>4, <1>5

LEMMA AddsWorld ==
    ASSUME NEW c \in Seq(Packets), NEW a \in Packets, World(a), NEW s, NEW t,
           InOrder(c), EndsAt(c, t), a.tick = After(t)
    PROVE  LET d == c \o <<a>> IN
           /\ InOrder(d) /\ EndsAt(d, a.tick) /\ ~NoWorld(d)
           /\ BeginsAfter(c, s) /\ (NoWorld(c) => s \in {0, t}) => BeginsAfter(d, s)
<1> DEFINE d == c \o <<a>>
           n == Len(c)
<1>1. /\ d \in Seq(Packets) /\ n \in Nat /\ Len(d) = n + 1 /\ d[n + 1] = a
      /\ \A i \in 1 .. n : d[i] = c[i]
      /\ \A i \in 1 .. Len(d) : i \in 1 .. n \/ i = n + 1
  OBVIOUS
<1>2. InOrder(d)
  <2> SUFFICES ASSUME NEW i \in 1 .. Len(d), NEW j \in 1 .. Len(d), i < j, World(d[i]), World(d[j]),
                      \A k \in i + 1 .. j - 1 : ~World(d[k])
               PROVE  d[j].tick = After(d[i].tick)
    BY DEF InOrder
  <2>1. i \in 1 .. n /\ \A k \in i + 1 .. j - 1 : k \in 1 .. n
    BY <1>1
  <2>2. CASE j \in 1 .. n
    BY <1>1, <2>1, <2>2 DEF InOrder
  <2>3. CASE j = n + 1
    BY <1>1, <2>1, <2>3 DEF EndsAt
  <2>4. QED
    BY <1>1, <2>2, <2>3
<1>3. EndsAt(d, a.tick)
  <2> SUFFICES ASSUME NEW i \in 1 .. Len(d), World(d[i]), \A k \in i + 1 .. Len(d) : ~World(d[k])
               PROVE  d[i].tick = a.tick
    BY DEF EndsAt
  <2>1. i = n + 1
    BY <1>1
  <2>2. QED
    BY <1>1, <2>1
<1>4. ~NoWorld(d)
  BY <1>1 DEF NoWorld
<1>5. ASSUME BeginsAfter(c, s), NoWorld(c) => s \in {0, t} PROVE BeginsAfter(d, s)
  <2> SUFFICES ASSUME NEW i \in 1 .. Len(d), World(d[i]), \A k \in 1 .. i - 1 : ~World(d[k])
               PROVE  s = 0 \/ d[i].tick = After(s)
    BY DEF BeginsAfter
  <2>1. \A k \in 1 .. i - 1 : k \in 1 .. n
    BY <1>1
  <2>2. CASE i \in 1 .. n
    BY <1>1, <1>5, <2>1, <2>2 DEF BeginsAfter
  <2>3. CASE i = n + 1
    BY <1>1, <1>5, <2>3 DEF NoWorld
  <2>4. QED
    BY <1>1, <2>2, <2>3
<1>6. QED
  BY <1>2, <1>3, <1>4, <1>5

LEMMA TakesFirst ==
    ASSUME NEW c \in Seq(Packets), c # <<>>, NEW s, NEW t
    PROVE  LET d == Tail(c) IN
           /\ InOrder(c) => InOrder(d)
           /\ EndsAt(c, t) => EndsAt(d, t)
           /\ InOrder(c) /\ World(Head(c)) => BeginsAfter(d, Head(c).tick)
           /\ BeginsAfter(c, s) /\ ~World(Head(c)) => BeginsAfter(d, s)
           /\ EndsAt(c, t) /\ World(Head(c)) /\ NoWorld(d) => Head(c).tick = t
           /\ ~World(Head(c)) /\ NoWorld(d) => NoWorld(c)
           /\ BeginsAfter(c, s) /\ World(Head(c)) => s = 0 \/ Head(c).tick = After(s)
<1> DEFINE d == Tail(c)
           n == Len(c)
<1>1. /\ d \in Seq(Packets) /\ n \in Nat /\ n > 0 /\ Len(d) = n - 1 /\ Head(c) = c[1]
      /\ \A i \in 1 .. Len(d) : d[i] = c[i + 1] /\ i + 1 \in 1 .. n
      /\ \A i \in 1 .. n : i = 1 \/ (i - 1 \in 1 .. Len(d) /\ c[i] = d[i - 1])
  OBVIOUS
<1>2. ASSUME InOrder(c) PROVE InOrder(d)
  <2> SUFFICES ASSUME NEW i \in 1 .. Len(d), NEW j \in 1 .. Len(d), i < j, World(d[i]), World(d[j]),
                      \A k \in i + 1 .. j - 1 : ~World(d[k])
               PROVE  d[j].tick = After(d[i].tick)
    BY DEF InOrder
  <2>1. \A k \in (i + 1) + 1 .. (j + 1) - 1 : k - 1 \in i + 1 .. j - 1 /\ c[k] = d[k - 1]
    BY <1>1
  <2>2. \A k \in (i + 1) + 1 .. (j + 1) - 1 : ~World(c[k])
    BY <2>1
  <2>3. i + 1 \in 1 .. n /\ j + 1 \in 1 .. n /\ i + 1 < j + 1
        /\ d[i] = c[i + 1] /\ d[j] = c[j + 1]
    BY <1>1
  <2>4. c[j + 1].tick = After(c[i + 1].tick)
    BY <1>2, <2>2, <2>3 DEF InOrder
  <2>5. QED
    BY <2>3, <2>4
<1>3. ASSUME EndsAt(c, t) PROVE EndsAt(d, t)
  <2> SUFFICES ASSUME NEW i \in 1 .. Len(d), World(d[i]), \A k \in i + 1 .. Len(d) : ~World(d[k])
               PROVE  d[i].tick = t
    BY DEF EndsAt
  <2>1. \A k \in (i + 1) + 1 .. n : k - 1 \in i + 1 .. Len(d) /\ c[k] = d[k - 1]
    BY <1>1
  <2>2. QED
    BY <1>1, <1>3, <2>1 DEF EndsAt
<1>4. ASSUME InOrder(c), World(c[1]) PROVE BeginsAfter(d, c[1].tick)
  <2> SUFFICES ASSUME NEW i \in 1 .. Len(d), World(d[i]), \A k \in 1 .. i - 1 : ~World(d[k])
               PROVE  d[i].tick = After(c[1].tick)
    BY DEF BeginsAfter
  <2>1. \A k \in 1 + 1 .. (i + 1) - 1 : k - 1 \in 1 .. i - 1 /\ c[k] = d[k - 1]
    BY <1>1
  <2>2. 1 \in 1 .. n /\ 1 < i + 1
    BY <1>1
  <2>3. QED
    BY <1>1, <1>4, <2>1, <2>2 DEF InOrder
<1>5. ASSUME BeginsAfter(c, s), ~World(c[1]) PROVE BeginsAfter(d, s)
  <2> SUFFICES ASSUME NEW i \in 1 .. Len(d), World(d[i]), \A k \in 1 .. i - 1 : ~World(d[k])
               PROVE  s = 0 \/ d[i].tick = After(s)
    BY DEF BeginsAfter
  <2>1. \A k \in 1 .. (i + 1) - 1 : k = 1 \/ (k - 1 \in 1 .. i - 1 /\ c[k] = d[k - 1])
    BY <1>1
  <2>2. QED
    BY <1>1, <1>5, <2>1 DEF BeginsAfter
<1>6. ASSUME EndsAt(c, t), World(c[1]), NoWorld(d) PROVE c[1].tick = t
  <2>1. \A k \in 1 + 1 .. n : k - 1 \in 1 .. Len(d) /\ c[k] = d[k - 1]
    BY <1>1
  <2>2. 1 \in 1 .. n
    BY <1>1
  <2>3. QED
    BY <1>6, <2>1, <2>2 DEF EndsAt, NoWorld
<1>7. ASSUME ~World(c[1]), NoWorld(d) PROVE NoWorld(c)
  BY <1>1, <1>7 DEF NoWorld
<1>8. ASSUME BeginsAfter(c, s), World(c[1]) PROVE s = 0 \/ c[1].tick = After(s)
  <2>1. 1 \in 1 .. n /\ 1 .. 1 - 1 = {}
    BY <1>1
  <2>2. QED
    BY <1>8, <2>1 DEF BeginsAfter
<1>9. QED
  BY <1>1, <1>2, <1>3, <1>4, <1>5, <1>6, <1>7, <1>8

TickInv ==
    /\ InOrder(chan)
    /\ link # NoId => EndsAt(chan, worldStateTick)
    /\ session = "joined" =>
          /\ BeginsAfter(chan, sim.lastWorldStateTick)
          /\ link # NoId /\ NoWorld(chan) => sim.lastWorldStateTick \in {0, worldStateTick}

LEMMA NothingYet == InOrder(<<>>) /\ \A t : EndsAt(<<>>, t) /\ BeginsAfter(<<>>, t)
BY DEF InOrder, EndsAt, BeginsAfter

\* The next world state is newer than the last, or begins from zero.
LEMMA NeverOld ==
    ASSUME NEW t \in Ticks, NEW s \in Ticks, s = 0 \/ t = After(s)
    PROVE  Applies(t, s)
<1>1. TickSpan \in Nat /\ TickSpan > 1
  BY Constants
<1>2. CASE s = 0
  BY <1>1, <1>2 DEF Applies, Ticks
<1>3. CASE s + 1 < TickSpan /\ t = After(s)
  BY <1>1, <1>3 DEF Applies, Ticks, After
<1>4. CASE s + 1 = TickSpan /\ t = After(s)
  <2>1. t = 0
    BY <1>1, <1>4 DEF After
  <2>2. QED
    BY <2>1 DEF Applies
<1>5. QED
  BY <1>1, <1>2, <1>3, <1>4 DEF Ticks

LEMMA TickStep == AllTypes /\ AllTypes' /\ LinkInv /\ TickInv /\ [Next]_vars => TickInv'
<1> SUFFICES ASSUME AllTypes, AllTypes', LinkInv, TickInv, [Next]_vars PROVE TickInv'
  OBVIOUS
<1>0. /\ chan \in Seq(Packets) /\ Len(chan) \in Nat /\ sim \in Sims
      /\ chan' \in Seq(Packets)
      /\ LobbySync' \in Packets /\ WorldState(FALSE)' \in Packets
      /\ ~World(LobbySync') /\ World(WorldState(FALSE)')
      /\ WorldState(FALSE)'.tick = worldStateTick'
  BY Typed, PacketsTypedNext, SaysThen
     DEF AllTypes, ClientTypes, Packets, IsLobby, IsWorld, World
<1>1. CASE Ends
  BY <1>1, NothingYet DEF Ends, TickInv
<1>2. CASE Quiet
  BY <1>2, QuietCopy DEF Quiet, TickInv
<1>3. CASE Unheard
  BY <1>3 DEF Unheard, TickInv
<1>4. CASE SendsLobby
  <2>1. /\ link # NoId /\ chan' = chan \o <<LobbySync'>>
        /\ UNCHANGED <<session, link, sim, worldStateTick>>
    BY <1>4 DEF SendsLobby, Sends
  <2>2. QED
    BY <1>0, <2>1, AddsLobby DEF TickInv
<1>5. CASE SendsWorld
  <2>1. /\ link # NoId /\ chan' = chan \o <<WorldState(FALSE)'>>
        /\ UNCHANGED <<session, link, sim>> /\ worldStateTick' = After(worldStateTick)
    BY <1>5 DEF SendsWorld, Sends, NextTick, After
  <2>2. QED
    BY <1>0, <2>1, AddsWorld DEF TickInv
<1>6. CASE SendsBoth
  <2> DEFINE c == chan \o <<LobbySync'>>
  <2>1. /\ link # NoId /\ chan' = chan \o <<LobbySync', WorldState(FALSE)'>>
        /\ UNCHANGED <<session, link, sim>> /\ worldStateTick' = After(worldStateTick)
    BY <1>6 DEF SendsBoth, Sends, NextTick, After
  <2>2. chan' = c \o <<WorldState(FALSE)'>>
    BY <1>0, <2>1, OneByOne
  <2>3. /\ c \in Seq(Packets) /\ InOrder(c) /\ EndsAt(c, worldStateTick)
        /\ session = "joined" =>
              /\ BeginsAfter(c, sim.lastWorldStateTick)
              /\ NoWorld(c) => sim.lastWorldStateTick \in {0, worldStateTick}
    BY <1>0, <2>1, AddsLobby DEF TickInv
  <2> HIDE DEF c
  <2>4. QED
    BY <1>0, <2>1, <2>2, <2>3, AddsWorld DEF TickInv
<1>7. CASE Kicks
  <2> DEFINE w == [WorldState(TRUE) EXCEPT !.tick = worldStateTick']
  <2>1. /\ link # NoId /\ link' = NoId /\ chan' = chan \o <<w>>
        /\ UNCHANGED <<session, sim>> /\ worldStateTick' = After(worldStateTick)
    BY <1>7 DEF Kicks, NextTick, After
  <2>2. World(w) /\ w.tick = worldStateTick'
    BY KickSays DEF World
  <2>3. w \in Packets
    <3>1. worldStateTick' \in Ticks /\ WorldState(TRUE) \in Worlds
      BY PacketsTyped DEF AllTypes, RoomTypes, Ticks
    <3>2. QED
      BY <3>1 DEF Worlds, Packets
  <2> HIDE DEF w
  <2>4. QED
    BY <1>0, <2>1, <2>2, <2>3, AddsWorld DEF TickInv
<1>8. ASSUME NEW m \in Member, LetsIn(m) PROVE TickInv'
  <2>1. session' = "asked" /\ \A i \in 1 .. Len(chan') : i = 1 \/ i = 2
    BY <1>8, Answered
  <2>2. ~World(chan'[1]) /\ ~World(chan'[2])
    BY <1>8, Answered DEF IsLobby, World
  <2>3. QED
    BY <2>1, <2>2 DEF TickInv, InOrder, EndsAt
<1>9. CASE HandleJoinRefused
  <2>1. link' = NoId /\ session' # "joined" /\ chan' = <<[type |-> "S_JOIN_FAIL"]>>
    BY <1>9 DEF HandleJoinRefused, clientVars
  <2>2. \A i \in 1 .. Len(chan') : ~World(chan'[i])
    BY <2>1 DEF World
  <2>3. QED
    BY <2>1, <2>2 DEF TickInv, InOrder
<1>10. CASE Asks
  BY <1>10 DEF Asks, serverVars, TickInv
<1>11. CASE ReceiveJoinOk
  <2>1. /\ chan # <<>> /\ chan' = Tail(chan) /\ UNCHANGED <<link, worldStateTick>>
        /\ sim'.lastWorldStateTick = 0
    BY <1>11, TakesJoinOk
  <2>2. InOrder(chan') /\ (link # NoId => EndsAt(chan', worldStateTick)) /\ BeginsAfter(chan', 0)
    BY <1>0, <2>1, TakesFirst DEF TickInv, BeginsAfter
  <2>3. QED
    BY <2>1, <2>2 DEF TickInv
<1>12. CASE ReceiveLobbySync
  <2>1. /\ chan # <<>> /\ chan' = Tail(chan) /\ session = "joined" /\ ~World(Head(chan))
        /\ UNCHANGED <<session, link, worldStateTick>>
    BY <1>12, TakesLobby DEF Lobbies, World
  <2>2. sim'.lastWorldStateTick \in {sim.lastWorldStateTick, 0}
    <3>1. applyLobbySync(sim, Head(chan)).lastWorldStateTick \in {sim.lastWorldStateTick, 0}
      BY <1>0, <1>12, TakesLobby, LobbyApplied
    <3>2. QED
      BY <1>12, <3>1, TakesLobby
  <2>3. BeginsAfter(chan', 0)
    BY DEF BeginsAfter
  <2>4. QED
    BY <1>0, <2>1, <2>2, <2>3, TakesFirst DEF TickInv
<1>13. CASE GoesOn
  <2>1. /\ chan # <<>> /\ chan' = Tail(chan) /\ session = "joined" /\ World(Head(chan))
        /\ Head(chan) \in Worlds /\ UNCHANGED <<session, link, worldStateTick>>
    BY <1>13, TakesWorld DEF Worlds, World
  <2>2. Applies(Head(chan).tick, sim.lastWorldStateTick)
    <3>1. sim.lastWorldStateTick = 0 \/ Head(chan).tick = After(sim.lastWorldStateTick)
      BY <1>0, <2>1, TakesFirst DEF TickInv
    <3>2. QED
      BY <1>0, <2>1, <3>1, NeverOld DEF Sims, Worlds
  <2>3. sim'.lastWorldStateTick \in {Head(chan).tick, 0}
    <3>1. applyWorldState(sim, Head(chan)).lastWorldStateTick \in {Head(chan).tick, 0}
      BY <1>0, <2>1, WorldApplied
    <3>2. QED
      BY <1>13, <2>2, <3>1, TakesWorld
  <2>4. BeginsAfter(chan', 0)
    BY DEF BeginsAfter
  <2>5. QED
    BY <1>0, <2>1, <2>3, <2>4, TakesFirst DEF TickInv
<1>14. QED
  BY <1>1, <1>2, <1>3, <1>4, <1>5, <1>6, <1>7, <1>8, <1>9, <1>10, <1>11, <1>12, <1>13, Steps

(* No world state of the connection is thrown away as an old one: the numbers   *)
(* on their way to the client follow one another up to the server's, also over  *)
(* their wrap-around, and the first of a session comes after zero.             *)
THEOREM StatesAreNew == Spec => NoStateSkipped
<1>1. Init => LinkInv /\ TickInv
  <2>1. Init => LinkInv
    BY DEF Init, LinkInv, Playing, Accepted
  <2>2. Init => TickInv
    BY NothingYet DEF Init, TickInv
  <2>3. QED
    BY <2>1, <2>2
<1>2. AllTypes /\ AllTypes' /\ LinkInv /\ TickInv /\ [Next]_vars => LinkInv' /\ TickInv'
  BY LinkStep, TickStep
<1>3. AllTypes /\ TickInv /\ [Next]_vars =>
        [(ReceiveWorldState /\ session' = "joined")
           => sim'.lastWorldStateTick \in {Head(chan).tick, 0}
              /\ sim'.connected = Head(chan).connected /\ sim'.phase = Head(chan).phase]_vars
  <2> SUFFICES ASSUME AllTypes, TickInv, ReceiveWorldState, session' = "joined"
               PROVE  sim'.lastWorldStateTick \in {Head(chan).tick, 0}
                      /\ sim'.connected = Head(chan).connected /\ sim'.phase = Head(chan).phase
    OBVIOUS
  <2> DEFINE p == Head(chan)
  <2>1. chan \in Seq(Packets) /\ sim \in Sims
    BY Typed
  <2>2. /\ chan # <<>> /\ session = "joined" /\ World(p) /\ p \in Worlds
    BY Delivered DEF ReceiveWorldState, AllTypes, World
  <2>3. sim.lastWorldStateTick = 0 \/ p.tick = After(sim.lastWorldStateTick)
    BY <2>1, <2>2, TakesFirst DEF TickInv
  <2>4. Applies(p.tick, sim.lastWorldStateTick)
    BY <2>1, <2>2, <2>3, NeverOld DEF Sims, Worlds
  <2>5. sim' = applyWorldState(sim, p)
    BY <2>4 DEF ReceiveWorldState, Hangup
  <2> HIDE DEF p
  <2>6. LET r == applyWorldState(sim, p) IN
        /\ r.lastWorldStateTick \in {p.tick, 0} /\ r.connected = p.connected /\ r.phase = p.phase
    BY <2>1, <2>2, WorldApplied
  <2>7. QED
    BY <2>5, <2>6 DEF p
<1>4. QED
  BY <1>1, <1>2, <1>3, SyncTypeCorrect, PTL DEF Spec, NoStateSkipped

-----------------------------------------------------------------------------
(* Who is in the match.                                                     *)

\* View y follows view x: only a lobby sync of the start puts a player into the match.
Follows(x, y, id) ==
    id \in y.inMatch =>
       id \in x.inMatch
       \/ (y.type = "S_LOBBY_SYNC" /\ x.phase = "QUEUE" /\ y.phase = "COUNTDOWN")

\* The last view before the server's own.
LastView == IF chan = <<>> THEN sim ELSE chan[Len(chan)]

FollowInv ==
    /\ Playing => \A i \in First .. Len(chan) - 1 : Follows(chan[i], chan[i + 1], Me)
    /\ Accepted => Me \notin chan[2].inMatch
    /\ session = "joined" /\ chan # <<>> => Follows(sim, chan[1], Me)
    /\ Playing /\ link # NoId =>
          LastView.phase = phase /\ (Me \in placed => Me \in LastView.inMatch)
    /\ session = "joined" /\ sim.awaitingSpawnSync /\ sim.local \in sim.inMatch
          => sim.snapshotBuffer = 0

\* The packets a client in the room already has stay as they follow each other.
LEMMA MoreFollow ==
    ASSUME AllTypes, AllTypes', LinkInv, FollowInv, link # NoId, UNCHANGED <<session, sim>>,
           NEW n \in Nat, n \in {1, 2}, Len(chan') = Len(chan) + n, chan' # <<>>,
           \A i \in 1 .. Len(chan) : chan'[i] = chan[i],
           Follows(LastView, chan'[Len(chan) + 1], Me),
           n = 2 => Follows(chan'[Len(chan) + 1], chan'[Len(chan) + 2], Me),
           link' # NoId => chan'[Len(chan')].phase = phase'
                           /\ (Me \in placed' => Me \in chan'[Len(chan')].inMatch)
    PROVE  FollowInv'
<1>1. Playing /\ link = Me /\ chan \in Seq(Packets) /\ Len(chan) \in Nat
  BY Typed DEF LinkInv
<1>2. chan # <<>> => chan'[1] = chan[1] /\ 1 \in 1 .. Len(chan)
  BY <1>1
<1>3. Playing' /\ First' = First /\ Me' = Me /\ Accepted' = Accepted
  BY <1>1, <1>2, MeStays
<1>4. \A i \in First .. Len(chan') - 1 : Follows(chan'[i], chan'[i + 1], Me)
  <2> SUFFICES ASSUME NEW i \in First .. Len(chan') - 1
               PROVE  Follows(chan'[i], chan'[i + 1], Me)
    OBVIOUS
  <2>1. First \in {1, 2} /\ i \in Nat /\ i > 0
    BY DEF First
  <2>2. CASE i < Len(chan)
    <3>1. i \in First .. Len(chan) - 1 /\ i \in 1 .. Len(chan) /\ i + 1 \in 1 .. Len(chan)
      BY <1>1, <2>1, <2>2
    <3>2. QED
      BY <1>1, <3>1 DEF FollowInv
  <2>3. CASE i = Len(chan)
    <3>1. chan # <<>> /\ i \in 1 .. Len(chan)
      BY <1>1, <2>1, <2>3
    <3>2. LastView = chan'[i]
      BY <2>3, <3>1 DEF LastView
    <3>3. QED
      BY <2>3, <3>2
  <2>4. CASE i = Len(chan) + 1
    BY <1>1, <2>4
  <2>5. QED
    BY <1>1, <2>1, <2>2, <2>3, <2>4
<1>5. ASSUME Accepted PROVE Me \notin chan'[2].inMatch
  BY <1>1, <1>5 DEF LinkInv, FollowInv
<1>6. ASSUME session = "joined" PROVE Follows(sim, chan'[1], Me)
  <2>1. CASE chan = <<>>
    BY <1>1, <2>1 DEF LastView
  <2>2. CASE chan # <<>>
    BY <1>2, <1>6, <2>2 DEF FollowInv
  <2>3. QED
    BY <2>1, <2>2
<1>7. LastView' = chan'[Len(chan')]
  BY DEF LastView
<1> HIDE DEF Follows, Me, First, Playing, Accepted, LastView
<1>8. (Follows(sim, chan[1], Me))' = Follows(sim, chan'[1], Me)
  BY <1>3 DEF Follows
<1>9. \A i \in First .. Len(chan') - 1 :
         (Follows(chan'[i], chan'[i + 1], Me'))
  BY <1>3, <1>4
<1>10. QED
  BY <1>1, <1>3, <1>4, <1>5, <1>6, <1>7, <1>8, <1>9 DEF FollowInv

LEMMA FollowStep ==
    AllTypes /\ AllTypes' /\ LinkInv /\ LinkInv' /\ TickInv /\ FollowInv /\ [Next]_vars => FollowInv'
<1> SUFFICES ASSUME AllTypes, AllTypes', LinkInv, LinkInv', TickInv, FollowInv, [Next]_vars
             PROVE  FollowInv'
  OBVIOUS
<1>0. chan \in Seq(Packets) /\ Len(chan) \in Nat /\ sim \in Sims
  BY Typed
\* To a client in the room the last view tells all.
<1>1. ASSUME link # NoId
      PROVE  LastView.phase = phase /\ (Me \in placed => Me \in LastView.inMatch)
  BY <1>1 DEF LinkInv, FollowInv
<1>2. CASE Ends
  BY <1>2 DEF Ends, FollowInv, Playing, Accepted
<1>3. CASE Quiet
  <2>1. CASE ~Playing
    BY <1>3, <2>1 DEF Quiet, FollowInv, Playing, Accepted
  <2>2. CASE Playing
    <3>1. Playing' /\ First' = First /\ Me' = Me /\ Accepted' = Accepted
      BY <1>3, <2>2, QuietCopy, MeStays DEF Quiet
    <3>2. /\ LastView'.phase = LastView.phase /\ LastView'.inMatch = LastView.inMatch
      BY <1>3, QuietCopy DEF Quiet, LastView
    <3>3. sim.snapshotBuffer = 0 => sim'.snapshotBuffer = 0
      BY <1>3, QuietCopy
    <3>4. chan # <<>> /\ Follows(sim, chan[1], Me) => Follows(sim', chan'[1], Me')
      BY <1>3, <3>1, QuietCopy DEF Quiet, Follows
    <3>5. /\ UNCHANGED <<chan, link, session, placed>> /\ phase' = phase
          /\ sim'.awaitingSpawnSync = sim.awaitingSpawnSync /\ sim'.local = sim.local
          /\ sim'.inMatch = sim.inMatch
      BY <1>3, QuietCopy DEF Quiet
    <3> HIDE DEF Me, First, Playing, Accepted, LastView
    <3>6. \A i : Follows(chan'[i], chan'[i + 1], Me') = Follows(chan[i], chan[i + 1], Me)
      BY <3>1, <3>5
    <3>7. QED
      BY <2>2, <3>1, <3>2, <3>3, <3>4, <3>5, <3>6 DEF FollowInv
  <2>3. QED
    BY <2>1, <2>2
<1>4. CASE Unheard
  BY <1>4 DEF Unheard, FollowInv, Playing, Accepted, Me, First, LastView, Follows
<1>5. CASE SendsLobby
  <2>1. /\ Follows(LastView, chan'[Len(chan) + 1], Me)
        /\ chan'[Len(chan')].phase = phase' /\ chan'[Len(chan')].inMatch = placed'
    BY <1>1, <1>5, LobbySent DEF SendsLobby, Sends, IsLobby, Follows
  <2>2. QED
    BY <1>5, <2>1, LobbySent, MoreFollow DEF SendsLobby, Sends
<1>6. CASE SendsWorld
  <2>1. /\ Follows(LastView, chan'[Len(chan) + 1], Me)
        /\ chan'[Len(chan')].phase = phase' /\ chan'[Len(chan')].inMatch = placed'
    BY <1>1, <1>6, WorldSent DEF SendsWorld, Sends, IsWorld, Follows
  <2>2. /\ link # NoId /\ UNCHANGED <<session, sim>> /\ 1 \in {1, 2} /\ 1 \in Nat /\ 1 # 2
        /\ Len(chan') = Len(chan) + 1 /\ chan' # <<>>
        /\ \A i \in 1 .. Len(chan) : chan'[i] = chan[i]
    BY <1>6, WorldSent DEF SendsWorld, Sends
  <2>3. QED
    BY <2>1, <2>2, MoreFollow
<1>7. CASE SendsBoth
  <2>1. /\ Follows(LastView, chan'[Len(chan) + 1], Me)
        /\ Follows(chan'[Len(chan) + 1], chan'[Len(chan) + 2], Me)
        /\ chan'[Len(chan')].phase = phase' /\ chan'[Len(chan')].inMatch = placed'
    BY <1>1, <1>7, BothSent DEF SendsBoth, Sends, IsLobby, IsWorld, Follows
  <2>2. QED
    BY <1>7, <2>1, BothSent, MoreFollow DEF SendsBoth, Sends
<1>8. CASE Kicks
  <2>1. Follows(LastView, chan'[Len(chan) + 1], Me)
    BY <1>1, <1>8, KickSent, KickSays DEF Kicks, Follows
  <2>2. /\ link # NoId /\ link' = NoId /\ UNCHANGED <<session, sim>>
        /\ 1 \in {1, 2} /\ 1 \in Nat /\ 1 # 2
        /\ Len(chan') = Len(chan) + 1 /\ chan' # <<>>
        /\ \A i \in 1 .. Len(chan) : chan'[i] = chan[i]
    BY <1>8, KickSent DEF Kicks
  <2>3. QED
    BY <2>1, <2>2, MoreFollow
<1>9. ASSUME NEW m \in Member, LetsIn(m) PROVE FollowInv'
  <2>1. /\ session' = "asked" /\ Head(chan').playerId = m /\ chan' # <<>> /\ Len(chan') = 2
        /\ m \notin placed'
    BY <1>9, Answered
  <2>2. chan'[2].phase = phase' /\ chan'[2].inMatch = placed'
    BY <1>9, Answered DEF IsLobby
  <2>3. Me' = m /\ First' = 2 /\ LastView' = chan'[2]
    BY <2>1 DEF Me, First, LastView
  <2>4. QED
    BY <2>1, <2>2, <2>3 DEF FollowInv
<1>10. CASE HandleJoinRefused
  BY <1>10 DEF HandleJoinRefused, clientVars, FollowInv, Playing, Accepted
<1>11. CASE Asks
  BY <1>11 DEF Asks, LinkInv, FollowInv, Playing, Accepted
<1>12. CASE ReceiveJoinOk
  <2>1. /\ Accepted /\ Playing /\ First = 2 /\ Playing' /\ First' = 1 /\ ~Accepted' /\ Me' = Me
        /\ sim'.local = Me /\ Len(chan) > 1
    BY <1>12, NowJoined
  <2>2. /\ chan # <<>> /\ chan' = Tail(chan) /\ sim'.awaitingSpawnSync = FALSE
        /\ UNCHANGED <<link, placed>> /\ phase' = phase
    BY <1>12, TakesJoinOk
  <2>3. /\ Len(chan') = Len(chan) - 1 /\ chan' # <<>>
        /\ \A i \in 1 .. Len(chan') : chan'[i] = chan[i + 1]
    <3>1. /\ Len(chan') = Len(chan) - 1
          /\ \A i \in 1 .. Len(chan') : chan'[i] = chan[i + 1]
      BY <1>0, <2>2, OneLess
    <3>2. Len(chan') > 0
      BY <1>0, <2>1, <3>1
    <3>3. chan' # <<>>
      BY <3>2
    <3>4. QED
      BY <3>1, <3>3
  <2>4. \A i \in 1 .. Len(chan') - 1 : Follows(chan'[i], chan'[i + 1], Me)
    BY <1>0, <2>1, <2>3 DEF FollowInv
  <2>5. Follows(sim', chan'[1], Me)
    BY <1>0, <2>1, <2>3 DEF FollowInv, Follows
  <2>6. LastView' = LastView
    BY <1>0, <2>1, <2>3, <2>2 DEF LastView
  <2> HIDE DEF Me, First, Playing, Accepted, LastView, Follows
  <2>7. QED
    BY <2>1, <2>2, <2>4, <2>5, <2>6 DEF FollowInv
\* A packet about the room is taken, and the copy is then what it says.
<1>13. ASSUME session = "joined", session' = "joined", link' = link, sim'.local = sim.local,
              chan # <<>>, chan' = Tail(chan), placed' = placed, phase' = phase,
              sim'.phase = chan[1].phase, sim'.inMatch = chan[1].inMatch,
              sim'.awaitingSpawnSync /\ sim'.local \in sim'.inMatch => sim'.snapshotBuffer = 0
       PROVE  FollowInv'
  <2>1. /\ Playing /\ First = 1 /\ Playing' /\ First' = 1 /\ ~Accepted' /\ Me' = Me
    BY <1>13 DEF Playing, First, Me, Accepted
  <2>2. /\ Len(chan') = Len(chan) - 1 /\ Len(chan) > 0
        /\ \A i \in 1 .. Len(chan') : chan'[i] = chan[i + 1]
    BY <1>0, <1>13, OneLess
  <2>3. \A i \in 1 .. Len(chan') - 1 : Follows(chan'[i], chan'[i + 1], Me)
    BY <1>0, <2>1, <2>2 DEF FollowInv
  <2>4. ASSUME chan' # <<>> PROVE Follows(sim', chan'[1], Me)
    <3>1. Len(chan) > 1 /\ chan'[1] = chan[2]
      BY <1>0, <1>13, <2>2, <2>4
    <3>2. Follows(chan[1], chan[2], Me)
      BY <1>0, <2>1, <3>1 DEF FollowInv
    <3>3. QED
      BY <1>13, <3>1, <3>2 DEF Follows
  <2>5. LastView'.phase = LastView.phase /\ LastView'.inMatch = LastView.inMatch
    <3>1. CASE chan' = <<>>
      <4>1. Len(chan) = 1
        BY <1>0, <2>2, <3>1
      <4>2. QED
        BY <1>13, <3>1, <4>1 DEF LastView
    <3>2. CASE chan' # <<>>
      <4>1. chan'[Len(chan')] = chan[Len(chan)]
        BY <1>0, <1>13, <2>2, <3>2
      <4>2. QED
        BY <1>13, <3>2, <4>1 DEF LastView
    <3>3. QED
      BY <3>1, <3>2
  <2> HIDE DEF Me, First, Playing, Accepted, LastView, Follows
  <2>6. QED
    BY <1>13, <2>1, <2>3, <2>4, <2>5 DEF FollowInv
<1>14. CASE ReceiveLobbySync
  <2> DEFINE p == Head(chan)
  <2>1. /\ p \in Lobbies /\ chan # <<>> /\ chan' = Tail(chan) /\ session = "joined"
        /\ sim' = applyLobbySync(sim, p) /\ p = chan[1] /\ session' = session
    BY <1>14, TakesLobby, FirstOfQueue
  <2>2. Follows(sim, p, sim.local)
    BY <2>1 DEF FollowInv, Me
  <2>3. sim.awaitingSpawnSync /\ sim.local \in sim.inMatch => sim.snapshotBuffer = 0
    BY <2>1 DEF FollowInv
  <2> HIDE DEF p
  <2>4. LET r == applyLobbySync(sim, p) IN
        /\ r.local = sim.local /\ r.phase = p.phase /\ r.inMatch = p.inMatch
        /\ Starts(sim, p.phase) => r.snapshotBuffer = 0
        /\ ~Starts(sim, p.phase) => /\ r.snapshotBuffer = sim.snapshotBuffer
                                    /\ r.awaitingSpawnSync = sim.awaitingSpawnSync
    BY <1>0, <2>1, LobbyApplied
  <2>5. sim'.awaitingSpawnSync /\ sim'.local \in sim'.inMatch => sim'.snapshotBuffer = 0
    BY <2>1, <2>2, <2>3, <2>4 DEF Follows, Starts
  <2>6. UNCHANGED <<link, placed>> /\ phase' = phase
    BY <1>14, TakesLobby
  <2>7. QED
    BY <1>13, <2>1, <2>4, <2>5, <2>6
<1>15. CASE GoesOn
  <2> DEFINE p == Head(chan)
  <2>1. /\ p \in Worlds /\ chan # <<>> /\ chan' = Tail(chan) /\ session = "joined"
        /\ p = chan[1] /\ session' = session /\ UNCHANGED <<link, placed>> /\ phase' = phase
    BY <1>15, TakesWorld, FirstOfQueue
  <2>2. Follows(sim, p, sim.local) /\ sim.local \in p.connected
    <3>1. 1 \in First .. Len(chan)
      BY <1>0, <2>1 DEF First
    <3>2. QED
      BY <2>1, <3>1 DEF FollowInv, LinkInv, Me, Playing, Names
  <2>3. sim' = applyWorldState(sim, p)
    <3>1. sim.lastWorldStateTick = 0 \/ p.tick = After(sim.lastWorldStateTick)
      BY <1>0, <2>1, TakesFirst DEF TickInv, World, Worlds
    <3>2. Applies(p.tick, sim.lastWorldStateTick)
      BY <1>0, <2>1, <3>1, NeverOld DEF Sims, Worlds
    <3>3. QED
      BY <1>15, <3>2, TakesWorld
  <2> HIDE DEF p
  <2>4. LET r == applyWorldState(sim, p) IN
        /\ r.local = sim.local /\ r.phase = p.phase /\ r.inMatch = p.inMatch
        /\ sim.local \in sim.inMatch => r.awaitingSpawnSync = FALSE
    BY <1>0, <2>1, <2>2, WorldApplied
  <2>5. sim.local \in p.inMatch => sim.local \in sim.inMatch
    BY <2>1, <2>2 DEF Follows, Worlds
  <2>6. QED
    BY <1>13, <2>1, <2>3, <2>4, <2>5
<1>16. QED
  BY <1>2, <1>3, <1>4, <1>5, <1>6, <1>7, <1>8, <1>9, <1>10, <1>11, <1>12, <1>14, <1>15, Steps

(* When the player may play in a match he takes part in, he stands where the     *)
(* server has put him: players are put into a match by the lobby sync of its      *)
(* start alone, behind which a world state comes before the first snapshots.     *)
THEOREM SpawnBeforePlay == Spec => []SpawnedBeforePlay
<1>1. Init => LinkInv /\ TickInv /\ FollowInv
  <2>1. Init => LinkInv /\ FollowInv
    BY DEF Init, LinkInv, FollowInv, Playing, Accepted
  <2>2. Init => TickInv
    BY NothingYet DEF Init, TickInv
  <2>3. QED
    BY <2>1, <2>2
<1>2. AllTypes /\ AllTypes' /\ LinkInv /\ TickInv /\ FollowInv /\ [Next]_vars
        => LinkInv' /\ TickInv' /\ FollowInv'
  BY LinkStep, TickStep, FollowStep
<1>3. AllTypes /\ FollowInv => SpawnedBeforePlay
  BY Constants DEF FollowInv, SpawnedBeforePlay, AppliesInput, isMatchSyncReady
<1>4. QED
  BY <1>1, <1>2, <1>3, SyncTypeCorrect, PTL DEF Spec

=============================================================================
