------------------------------ MODULE WorldSync ------------------------------
(***************************************************************************)
(* State synchronisation: the room of one client is a copy of the server's,  *)
(* made from S_LOBBY_SYNC and S_WORLD_STATE packets, in a connection that    *)
(* keeps their order and may end at any time (EnetSession, StreamLink).      *)
(*                                                                         *)
(* The server's room is MatchRoom, which MatchFlow implements; what MatchRoom *)
(* does not know, and the packets tell, is added here.  Of the strikes only   *)
(* the observed player's are kept, and inputs and charges are a choice at      *)
(* either end (Combat has them); positions, names, colors, enemies and       *)
(* pickups are replaced by every world state and left out.  Numbers of world  *)
(* states have a width of their own (TickSpan for 2^32).                     *)
(***************************************************************************)
EXTENDS MatchRoom, Sequences

CONSTANTS
    TickSpan,                   \* worldStateTick is counted modulo this
    kMinSnapshotsForPlay,       \* snapshots the client waits for
    kInterpBufferMaxSnapshots,  \* snapshots the client keeps
    Frames,                     \* animation frames of a strike
    ChanBound,                  \* bound: packets on their way to the client
    MaxRestarts                 \* bound: restarts of the server

ASSUME SyncAssumption ==
    /\ Member # {} /\ Member \subseteq Nat /\ Capacity \in Nat /\ Quorum \in Nat \ {0}
    /\ TickSpan \in Nat /\ TickSpan > 1 /\ Frames \in Nat \ {0}
    /\ kMinSnapshotsForPlay \in Nat /\ kMinSnapshotsForPlay > 1
    /\ kInterpBufferMaxSnapshots \in Nat /\ kInterpBufferMaxSnapshots >= kMinSnapshotsForPlay
    /\ ChanBound \in Nat /\ ChanBound > 1 /\ MaxRestarts \in Nat

NoId == -1

VARIABLES
    placed,          \* players whose slot has inMatch set
    worldStateTick,  \* number of the last world state built
    mapSeed,         \* the server's map; another one after a restart
    link,            \* the player the observed client is to the server
    strike,          \* frames left of that player's strike, 0 for none
    chan,            \* packets on their way to the client
    session,         \* the client's: "none", "asked", "joined"
    sim              \* the client's copy

serverVars == <<stage, members, contestants, survivors, placed, worldStateTick, mapSeed>>
clientVars == <<session, sim>>
vars == <<serverVars, strike, link, chan, clientVars>>

-----------------------------------------------------------------------------
(* Packets.                                                                *)

phase ==
    CASE stage = "open"     -> IF members = {} THEN "IDLE" ELSE "QUEUE"
      [] stage = "starting" -> "COUNTDOWN"
      [] stage = "playing"  -> "IN_PROGRESS"
      [] stage = "showing"  -> "RESULTS"

LobbySync ==
    [type |-> "S_LOBBY_SYNC", phase |-> phase, connected |-> members, inMatch |-> placed]

WorldState(over) ==
    [type |-> "S_WORLD_STATE", tick |-> worldStateTick, phase |-> phase, mapSeed |-> mapSeed,
     connected |-> members, inMatch |-> placed, dead |-> contestants \ survivors,
     strike |-> strike, over |-> over]

\* What the server sends to everybody reaches the client if it is registered.
Broadcast(packets) ==
    chan' = IF link = NoId THEN chan ELSE chan \o packets

Room(n) == link = NoId \/ Len(chan) + n <= ChanBound

\* Mutated form: the transport keeps whom it has disconnected.
UnlinkKeepsId == UNCHANGED link /\ strike' = 0

\* The connection is over; what was kept of its player goes with it.
Unlink == link' = NoId /\ strike' = 0

NextTick == worldStateTick' = (worldStateTick + 1) % TickSpan
NoTick   == UNCHANGED worldStateTick

-----------------------------------------------------------------------------
(* The server.                                                             *)

\* C_JOIN of somebody else.
OtherJoins(m) ==
    /\ Room(1) /\ Enter(m)
    /\ NoTick /\ UNCHANGED <<placed, mapSeed, link, strike>>
    /\ Broadcast(<<LobbySync'>>)
    /\ UNCHANGED clientVars

\* Mutated form: the lobby sync was built before the player was let in.
JoinAnswerTooSoon(m) == <<[type |-> "S_JOIN_OK", playerId |-> m], LobbySync>>

JoinAnswer(m) == <<[type |-> "S_JOIN_OK", playerId |-> m], LobbySync'>>

\* C_JOIN of the observed client, which is registered before it is answered.
HandleJoin(m) ==
    /\ session = "asked" /\ link = NoId /\ chan = <<>>
    /\ Enter(m)
    /\ link' = m
    /\ NoTick /\ UNCHANGED <<placed, mapSeed, strike>>
    /\ chan' = JoinAnswer(m)
    /\ UNCHANGED clientVars

HandleJoinRefused ==
    /\ session = "asked" /\ link = NoId /\ chan = <<>>
    /\ stage \in {"playing", "showing"} \/ Cardinality(members) = Capacity
    /\ chan' = <<[type |-> "S_JOIN_FAIL"]>>
    /\ UNCHANGED <<serverVars, strike, link, clientVars>>

\* C_LEAVE or a lost connection, of anybody but the observed client's player.
PlayerLeaves(m) ==
    /\ Room(2) /\ m # link /\ Leave(m)
    /\ placed' = placed \ {m}
    /\ UNCHANGED <<mapSeed, link, strike, clientVars>>
    /\ IF stage \in {"playing", "showing"} /\ stage' = stage
       THEN NextTick /\ Broadcast(<<LobbySync', WorldState(FALSE)'>>)
       ELSE NoTick /\ Broadcast(<<LobbySync'>>)

\* The last C_READY: the players in the queue are placed and reset.
HandleReady ==
    /\ Room(2) /\ Announce
    /\ placed' = placed \union contestants'
    /\ UNCHANGED <<strike, mapSeed, link, clientVars>>
    /\ NextTick /\ Broadcast(<<LobbySync', WorldState(FALSE)'>>)

\* The lobby sync of every lobbyBroadcastInterval, or of a C_READY that starts nothing.
LobbyTick ==
    /\ Room(1) /\ stage = "open" /\ link # NoId
    /\ Broadcast(<<LobbySync>>)
    /\ UNCHANGED <<serverVars, strike, link, clientVars>>

\* startMatch(): resetMatchState() clears the strikes; nobody else is placed.
CountdownTick ==
    /\ Room(1) /\ stage = "starting"
    /\ (Begin /\ UNCHANGED contestants /\ strike' = 0) \/ UNCHANGED <<roomVars, strike>>
    /\ UNCHANGED <<placed, mapSeed, link, clientVars>>
    /\ NextTick /\ Broadcast(<<WorldState(FALSE)'>>)

\* tryThunderCast() and tickThunderStrikes(): a strike at a time, of the living.
StrikesAfter ==
    IF strike > 0 THEN {strike - 1}
    ELSE IF link \in survivors THEN {0, Frames} ELSE {0}

MatchTick ==
    /\ Room(1) /\ stage = "playing"
    /\ \/ Finish /\ UNCHANGED strike
       \/ (\E dead \in SUBSET survivors : Die(dead)) /\ strike' \in StrikesAfter
    /\ UNCHANGED <<placed, mapSeed, link, clientVars>>
    /\ NextTick /\ Broadcast(<<WorldState(FALSE)'>>)

ResultsTick ==
    /\ Room(1) /\ stage = "showing"
    /\ UNCHANGED <<roomVars, placed, mapSeed, link, strike, clientVars>>
    /\ NextTick /\ Broadcast(<<WorldState(FALSE)'>>)

\* The last tick of the results: a world state whose time is up, with which every client
\* ends the session itself (it is never skipped, see NoStateSkipped), so that the S_KICK
\* behind it is not read and is left out, and the room is emptied.
KickEverybody ==
    /\ Room(1) /\ stage = "showing"
    /\ NextTick
    /\ Broadcast(<<[WorldState(TRUE) EXCEPT !.tick = worldStateTick']>>)
    /\ SendHome /\ placed' = {}
    /\ Unlink
    /\ UNCHANGED <<mapSeed, clientVars>>

-----------------------------------------------------------------------------
(* The client.                                                             *)

Fresh ==
    [local |-> NoId, phase |-> "IDLE", connected |-> {}, inMatch |-> {}, dead |-> {},
     strikes |-> {}, playerThunderCasting |-> FALSE, mapSeed |-> 0,
     lastWorldStateTick |-> 0, snapshotBuffer |-> 0, awaitingSpawnSync |-> FALSE]

resetWorldStateSync(s) ==
    [s EXCEPT !.lastWorldStateTick = 0, !.snapshotBuffer = 0, !.awaitingSpawnSync = FALSE]

\* FinishMatchReturnToTitle() and returnPlayersToMenu(): only the map is kept.
returnPlayersToMenu(s) == [Fresh EXCEPT !.mapSeed = s.mapSeed]

beginMatchPrewarm(s) ==
    [s EXCEPT !.lastWorldStateTick = 0, !.snapshotBuffer = 0, !.awaitingSpawnSync = TRUE]

isMatchSyncReady == sim.snapshotBuffer >= kMinSnapshotsForPlay

\* The phase of a packet, and what its arrival starts.
WithPhase(s, p) ==
    LET t == [s EXCEPT !.phase = p]
    IN  IF s.phase = "QUEUE" /\ p = "COUNTDOWN" THEN beginMatchPrewarm(t) ELSE t

\* Mutated form: players that are not named any more stay.
SlotsAreAdded(s, p) ==
    [s EXCEPT !.connected = @ \union p.connected, !.inMatch = @ \union p.inMatch]

\* The slots of a packet; players it does not name are disconnected.
WithSlots(s, p) == [s EXCEPT !.connected = p.connected, !.inMatch = p.inMatch]

applyJoinAck(s, id) ==
    [s EXCEPT !.local = id, !.connected = @ \union {id}, !.inMatch = @ \ {id},
              !.phase = IF @ = "IDLE" THEN "QUEUE" ELSE @]

applyLobbySync(s, p) == WithSlots(WithPhase(s, p.phase), p)

\* Mutated form: without an end to the numbers.
NewerTick(tick, last) == tick > last

\* A world state is applied: newer, number zero, or of a server that began again.
Applies(tick, last) == tick = 0 \/ tick > last \/ tick < last \div 2

\* Mutated form: the predicted strike stays beside the server's.
KeptBeside(s, p) == {k \in s.strikes : k.predicted /\ k.left > 0}

\* Mutated form: a predicted strike stays until the server has one.
KeptForEver(s, p) == IF p.strike > 0 THEN {} ELSE {k \in s.strikes : k.predicted}

KeptPredicted(s, p) == IF p.strike > 0 THEN {} ELSE {k \in s.strikes : k.predicted /\ k.left > 0}

ServerStrike(p) == IF p.strike > 0 THEN {[predicted |-> FALSE, left |-> p.strike]} ELSE {}

\* Mutated form: in a slot that is still in the queue.
QueueSynced(s) == [s EXCEPT !.awaitingSpawnSync = @ /\ s.local \in s.inMatch]

\* The observed player is put where the server has him, in a slot already in the match.
SpawnSynced(s) == [s EXCEPT !.awaitingSpawnSync = @ /\ s.local \notin s.inMatch]

\* Mutated form: a map is made once.
FirstMap(s, p) == IF s.mapSeed = 0 THEN p.mapSeed ELSE s.mapSeed

MapOf(s, p) == p.mapSeed

applyWorldState(s, p) ==
    LET atTick  == [s EXCEPT !.lastWorldStateTick = p.tick, !.mapSeed = MapOf(s, p)]
        spawned == LET t == WithPhase(atTick, p.phase)
                   IN  IF t.local \in p.connected THEN SpawnSynced(t) ELSE t
        strikes == ServerStrike(p) \union KeptPredicted(s, p)
    IN  [WithSlots(spawned, p) EXCEPT
           !.dead = p.dead, !.strikes = strikes, !.playerThunderCasting = strikes # {},
           !.snapshotBuffer = IF @ = kInterpBufferMaxSnapshots THEN @ ELSE @ + 1]

-----------------------------------------------------------------------------
(* The client's packet handler; the packets of a session that is over are     *)
(* dropped with it.                                                          *)

Take(type) == chan # <<>> /\ Head(chan).type = type /\ chan' = Tail(chan)

\* netClient.disconnect(), or the other side's.
Hangup == session' = "none" /\ chan' = <<>> /\ Unlink

ReceiveJoinOk ==
    /\ Take("S_JOIN_OK")
    /\ session' = "joined"
    /\ sim' = applyJoinAck(resetWorldStateSync(sim), Head(chan).playerId)
    /\ UNCHANGED <<serverVars, strike, link>>

ReceiveJoinFail ==
    /\ chan # <<>> /\ Head(chan).type = "S_JOIN_FAIL"
    /\ sim' = returnPlayersToMenu(sim)
    /\ Hangup /\ UNCHANGED serverVars

ReceiveLobbySync ==
    /\ Take("S_LOBBY_SYNC") /\ session = "joined"
    /\ sim' = applyLobbySync(sim, Head(chan))
    /\ UNCHANGED <<serverVars, strike, link, session>>

ReceiveWorldState ==
    /\ chan # <<>> /\ Head(chan).type = "S_WORLD_STATE" /\ session = "joined"
    /\ LET p       == Head(chan)
           applied == Applies(p.tick, sim.lastWorldStateTick)
       IN  IF applied /\ p.over
           THEN /\ sim' = returnPlayersToMenu(applyWorldState(sim, p))
                /\ Hangup /\ UNCHANGED serverVars
           ELSE /\ sim' = IF applied THEN applyWorldState(sim, p) ELSE sim
                /\ chan' = Tail(chan)
                /\ UNCHANGED <<serverVars, strike, link, session>>

Receive ==
    ReceiveJoinOk \/ ReceiveJoinFail \/ ReceiveLobbySync \/ ReceiveWorldState

-----------------------------------------------------------------------------
(* The client's frames and its player.                                      *)

\* Join Queue on the title screen.
Asks ==
    /\ session = "none" /\ sim.phase = "IDLE"
    /\ session' = "asked"
    /\ UNCHANGED <<serverVars, strike, link, chan, sim>>

\* handleNetDisconnect(), or a connection that does not come about.
LoseSession ==
    /\ sim' = IF session = "joined" THEN returnPlayersToMenu(sim) ELSE sim
    /\ Hangup

Lost == session # "none" /\ LoseSession /\ UNCHANGED serverVars

(* A new server process.  The client notices at once: what it would do before *)
(* it does touches nothing of the new server's.                              *)
ServerRestarts ==
    /\ mapSeed <= MaxRestarts
    /\ stage' = "open" /\ members' = {} /\ contestants' = {} /\ survivors' = {} /\ placed' = {}
    /\ worldStateTick' = 0 /\ mapSeed' = mapSeed + 1
    /\ LoseSession

\* Leave Queue: leaveQueue() on the copy, and nothing of it is reset.
LeaveQueue ==
    /\ session = "joined" /\ sim.phase \in {"QUEUE", "COUNTDOWN"}
    /\ sim' = [sim EXCEPT !.local = NoId, !.connected = @ \ {sim.local},
                          !.inMatch = @ \ {sim.local},
                          !.phase = IF sim.connected = {sim.local} THEN "IDLE" ELSE "QUEUE"]
    /\ Hangup /\ UNCHANGED serverVars

\* The screen is PLAYING, and not covered while snapshots are missing.
AppliesInput ==
    /\ session = "joined" /\ sim.phase = "IN_PROGRESS" /\ isMatchSyncReady
    /\ sim.local \notin sim.dead

\* predictLocalThunderCast() of a player who is charged.
PressThunder ==
    /\ AppliesInput /\ ~sim.playerThunderCasting
    /\ sim' = [sim EXCEPT !.strikes = @ \union {[predicted |-> TRUE, left |-> Frames]},
                          !.playerThunderCasting = TRUE]
    /\ UNCHANGED <<serverVars, strike, link, chan, session>>

\* A frame of the match: strikes are animated.
Frame ==
    /\ session = "joined" /\ sim.phase = "IN_PROGRESS"
    /\ \E k \in sim.strikes : k.left > 0
    /\ sim' = [sim EXCEPT !.strikes =
                  {[k EXCEPT !.left = IF @ = 0 THEN 0 ELSE @ - 1] : k \in @}]
    /\ UNCHANGED <<serverVars, strike, link, chan, session>>

\* Mutated form: one snapshot is left.
PrunableToOne(s) == s.snapshotBuffer > 1

Prunable(s) == s.snapshotBuffer > 2

\* tickInterpolation(): pruneSnapshotBuffer() drops snapshots that are too old.
Prune ==
    /\ session = "joined" /\ sim.phase \in {"COUNTDOWN", "IN_PROGRESS"}
    /\ Prunable(sim)
    /\ sim' = [sim EXCEPT !.snapshotBuffer = @ - 1]
    /\ UNCHANGED <<serverVars, strike, link, chan, session>>

-----------------------------------------------------------------------------
Init ==
    /\ RoomInit /\ placed = {} /\ worldStateTick = 0 /\ mapSeed = 1
    /\ link = NoId /\ strike = 0 /\ chan = <<>> /\ session = "none" /\ sim = Fresh

ServerTick == LobbyTick \/ CountdownTick \/ MatchTick \/ ResultsTick \/ KickEverybody

Next ==
    \/ \E m \in Member : OtherJoins(m) \/ HandleJoin(m) \/ PlayerLeaves(m)
    \/ HandleJoinRefused \/ HandleReady \/ ServerTick \/ ServerRestarts
    \/ Receive \/ Asks \/ Lost \/ LeaveQueue \/ PressThunder \/ Frame \/ Prune

(* Both loops run and packets arrive; the results are shown for a time that    *)
(* ends (between its ticks the channel may be at its bound, hence SF).        *)
Fairness ==
    /\ WF_vars(Receive) /\ WF_vars(Frame)
    /\ WF_vars(LobbyTick) /\ WF_vars(CountdownTick) /\ WF_vars(MatchTick)
    /\ SF_vars(KickEverybody)

Spec == Init /\ [][Next]_vars /\ Fairness

-----------------------------------------------------------------------------
(* Properties.                                                             *)

Phases == {"IDLE", "QUEUE", "COUNTDOWN", "IN_PROGRESS", "RESULTS"}

TypeOK ==
    /\ placed \subseteq members /\ contestants \subseteq placed
    /\ link \in members \union {NoId}
    /\ worldStateTick \in 0 .. TickSpan - 1 /\ strike \in 0 .. Frames
    /\ session \in {"none", "asked", "joined"} /\ sim.phase \in Phases
    /\ sim.lastWorldStateTick \in 0 .. TickSpan - 1
    /\ sim.snapshotBuffer \in 0 .. kInterpBufferMaxSnapshots

(* When the player may play in a match he takes part in, he stands where the   *)
(* server has put him, not where the client's copy had him before.            *)
SpawnedBeforePlay ==
    (AppliesInput /\ sim.local \in sim.inMatch) => ~sim.awaitingSpawnSync

(* The player sees one strike of his own at most, predicted or the server's,    *)
(* and can cast another one only when there is none.                          *)
OneOwnStrike ==
    /\ Cardinality(sim.strikes) <= 1
    /\ sim.playerThunderCasting = (sim.strikes # {})

(* In a match the client moves on the map of the server it plays on, also after *)
(* the server has begun again with another one.                              *)
SameMap ==
    (AppliesInput /\ link # NoId) => sim.mapSeed = mapSeed

(* Whoever is joined stands in his own copy of the room, also in a slot that    *)
(* somebody else has left a moment ago.                                      *)
KnowsHimself == session = "joined" => sim.local \in sim.connected

(* No world state of the connection is thrown away as an old one, although the  *)
(* numbers wrap around and a server that restarts begins with zero again.      *)
NoStateSkipped ==
    [][(ReceiveWorldState /\ session' = "joined")
          => sim'.lastWorldStateTick \in {Head(chan).tick, 0}
             /\ sim'.connected = Head(chan).connected /\ sim'.phase = Head(chan).phase]_vars

(* A copy that is not disturbed any more becomes the server's room.           *)
Agrees ==
    /\ sim.phase = phase /\ sim.connected = members /\ sim.inMatch = placed
    /\ stage = "playing" => sim.dead = contestants \ survivors

CopyCatchesUp ==
    (<>[](session = "joined") /\ <>[][FALSE]_<<roomVars, placed>>) => <>[]Agrees

(* A client that has come into the match gets to play in it, although snapshots *)
(* that are too old are dropped, below the number it waits for.               *)
InMatch == session = "joined" /\ sim.phase = "IN_PROGRESS"

PlayIsReached == InMatch ~> (~InMatch \/ isMatchSyncReady)

(* A predicted strike does not stay: it gives way to the server's or, when the  *)
(* server has none because the input was lost, ends by itself.                *)
PredictionSettles ==
    (\E k \in sim.strikes : k.predicted) ~> (\A k \in sim.strikes : ~k.predicted)
=============================================================================
