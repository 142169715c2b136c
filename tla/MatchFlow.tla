----------------------------- MODULE MatchFlow -----------------------------
(***************************************************************************)
(* The match life cycle the dedicated server runs: GameSimulation's player  *)
(* slots, its phases IDLE -> QUEUE -> COUNTDOWN -> IN_PROGRESS -> RESULTS   *)
(* and back, and the tick of the server's main loop that drives them.       *)
(*                                                                         *)
(* The vector players is represented by its size and by one set of slot     *)
(* indices per Boolean field: i \in inQueue stands for                      *)
(* players[i].slot.inQueue, i \in alive for players[i].character.getAlive() *)
(* Time is counted in server ticks.  What a tick of gameplay does to        *)
(* positions, enemies and health is abstracted to the set of players it     *)
(* kills.                                                                  *)
(***************************************************************************)
EXTENDS Integers, FiniteSets, FiniteSetsExt

CONSTANTS
    kMaxPlayers,         \* capacity of the room, and the number of colors
    kMinPlayersToStart,  \* queued players needed before Ready does anything
    CountdownTicks,      \* kReadyCountdownSec
    MatchTicks,          \* kMatchDurationSec
    ResultsTicks,        \* kResultsDurationSec
    KickTicks            \* the kick comes when fewer ticks than this are left

ASSUME RoomAssumption ==
    /\ kMaxPlayers \in Nat \ {0}
    /\ kMinPlayersToStart \in 1 .. kMaxPlayers

ASSUME TimerAssumption ==
    /\ CountdownTicks \in Nat \ {0}
    /\ MatchTicks \in Nat \ {0}
    /\ ResultsTicks \in Nat \ {0}
    /\ KickTicks \in 1 .. ResultsTicks

VARIABLES
    phase,               \* MatchPhase
    numPlayers,          \* players.size()
    connected, inQueue, inMatch, ready,   \* the flags of PlayerSlot
    colorIndex,          \* PlayerSlot::colorIndex
    alive,               \* Character::alive
    countdownRemaining, matchTimeRemaining, resultsTimeRemaining,
    localPlayerId,       \* the slot the server adopts as "local", or NoPlayer
    spectateTargetId,    \* shared by every C_SPECTATE the server handles
    matchEndHandled      \* the main loop's latch for the kick

slotVars   == <<numPlayers, connected, inQueue, inMatch, ready, colorIndex, alive>>
timerVars  == <<countdownRemaining, matchTimeRemaining, resultsTimeRemaining>>
cameraVars == <<localPlayerId, spectateTargetId>>
vars == <<phase, slotVars, timerVars, cameraVars, matchEndHandled>>

NoPlayer == -1
Ids      == 0 .. kMaxPlayers - 1
Colors   == 0 .. kMaxPlayers - 1
MatchPhase == {"IDLE", "QUEUE", "COUNTDOWN", "IN_PROGRESS", "RESULTS"}

\* The valid indices of the vector players.
Slots == 0 .. numPlayers - 1

-----------------------------------------------------------------------------
(* What the code computes from the slots.                                  *)

QueuedPlayers == connected \cap inQueue
LivingPlayers == connected \cap inMatch \cap alive

canPressReady ==
    phase = "QUEUE" /\ Cardinality(QueuedPlayers) >= kMinPlayersToStart

\* allQueuePlayersReady(), with r for the ready flags.
AllQueuePlayersReady(r) == QueuedPlayers # {} /\ QueuedPlayers \subseteq r

\* Mutated forms: the capacity check, or the check for a running match, is lost.
JoinResultNoCapacity(nameIsValid) ==
    IF ~nameIsValid THEN "INVALID_NAME"
    ELSE IF phase \in {"IN_PROGRESS", "RESULTS"} THEN "MATCH_IN_PROGRESS"
    ELSE "OK"
JoinResultDuringMatch(nameIsValid) ==
    IF ~nameIsValid THEN "INVALID_NAME"
    ELSE IF phase = "RESULTS" THEN "MATCH_IN_PROGRESS"
    ELSE IF Cardinality(connected) >= kMaxPlayers THEN "SERVER_FULL"
    ELSE "OK"

\* The result of tryJoinQueue called with isServer = true.
JoinResult(nameIsValid) ==
    IF ~nameIsValid THEN "INVALID_NAME"
    ELSE IF phase \in {"IN_PROGRESS", "RESULTS"} THEN "MATCH_IN_PROGRESS"
    ELSE IF Cardinality(connected) >= kMaxPlayers THEN "SERVER_FULL"
    ELSE "OK"

\* The first slot that is not connected, or a new one at the end.
FirstFreeSlot == Min((0 .. numPlayers) \ connected)

\* Mutated form: the color is the number of players already there.
ColorByHeadcount == Cardinality(connected)

\* The lowest color no connected player wears.
AllocateColorIndex ==
    LET unused == Colors \ {colorIndex[p] : p \in connected}
    IN  IF unused = {} THEN 0 ELSE Min(unused)

\* Mutated forms of the phase after a removal: a countdown survives a player who
\* leaves; an empty room goes back to IDLE only from the lobby.
PhaseKeepsCountdown(p) ==
    IF connected \ {p} = {} THEN "IDLE" ELSE phase
PhaseIdleFromLobbyOnly(p) ==
    IF connected \ {p} = {} /\ phase \in {"QUEUE", "COUNTDOWN"} THEN "IDLE"
    ELSE IF phase = "COUNTDOWN" THEN "QUEUE" ELSE phase

\* The phase removePlayer(p) leaves behind.
PhaseAfterRemoval(p) ==
    IF connected \ {p} = {} THEN "IDLE"
    ELSE IF phase = "COUNTDOWN" THEN "QUEUE" ELSE phase

\* Mutated form: the id of a player who left is kept.
KeepEvenIfGone(id, p) == id

\* localPlayerId and spectateTargetId are dropped with the player they name.
DropIfGone(id, p) == IF id = p THEN NoPlayer ELSE id

isResultsCountdownFinished(remaining) == remaining < KickTicks

\* spectateNext() and spectatePrev(): the living players in slot order, as a ring.
SpectateNext ==
    LET after == {p \in LivingPlayers : p > spectateTargetId}
    IN  IF spectateTargetId \in LivingPlayers /\ after # {}
        THEN Min(after) ELSE Min(LivingPlayers)

SpectatePrev ==
    LET before == {p \in LivingPlayers : p < spectateTargetId}
    IN  IF spectateTargetId \notin LivingPlayers THEN Min(LivingPlayers)
        ELSE IF before # {} THEN Max(before) ELSE Max(LivingPlayers)

-----------------------------------------------------------------------------
Init ==
    /\ phase = "IDLE"
    /\ numPlayers = 0
    /\ connected = {} /\ inQueue = {} /\ inMatch = {} /\ ready = {} /\ alive = {}
    /\ colorIndex = [p \in Ids |-> 0]
    /\ countdownRemaining = 0 /\ matchTimeRemaining = 0 /\ resultsTimeRemaining = 0
    /\ localPlayerId = NoPlayer /\ spectateTargetId = NoPlayer
    /\ matchEndHandled = FALSE

(* A join that is refused changes nothing.                                 *)
TryJoinQueue ==
    /\ JoinResult(TRUE) = "OK"
    /\ LET id == FirstFreeSlot IN
        /\ numPlayers' = IF id = numPlayers THEN numPlayers + 1 ELSE numPlayers
        /\ colorIndex' = [colorIndex EXCEPT ![id] = AllocateColorIndex]
        /\ connected' = connected \cup {id}
        /\ inQueue' = inQueue \cup {id}
        /\ inMatch' = inMatch \ {id}
        /\ ready' = ready \ {id}
        /\ alive' = alive \cup {id}
    /\ phase' = IF phase = "IDLE" THEN "QUEUE" ELSE phase
    /\ UNCHANGED <<timerVars, cameraVars, matchEndHandled>>

(* removePlayer(p).  p may be a slot that is no longer connected: the       *)
(* registries of the transports can hold ids that outlived their player.   *)
RemovePlayer(p) ==
    /\ p \in Slots
    /\ connected' = connected \ {p}
    /\ inQueue' = inQueue \ {p}
    /\ inMatch' = inMatch \ {p}
    /\ LET lobby == connected \ {p} # {} /\ phase \in {"QUEUE", "COUNTDOWN"}
       IN  /\ ready' = IF lobby THEN {} ELSE ready \ {p}
           /\ countdownRemaining' = IF lobby /\ phase = "COUNTDOWN" THEN 0
                                    ELSE countdownRemaining
    /\ phase' = PhaseAfterRemoval(p)
    /\ localPlayerId' = DropIfGone(localPlayerId, p)
    /\ spectateTargetId' = DropIfGone(spectateTargetId, p)
    /\ UNCHANGED <<numPlayers, colorIndex, alive, matchTimeRemaining,
                   resultsTimeRemaining, matchEndHandled>>

(* placePlayersAtSpawn(), with the ready flags r of the press before it.   *)
PlacePlayersAtSpawn(r) ==
    /\ inMatch' = inMatch \cup QueuedPlayers
    /\ inQueue' = (inQueue \cap inMatch) \ QueuedPlayers
    /\ ready' = r \ QueuedPlayers
    /\ alive' = alive \cup QueuedPlayers
    /\ spectateTargetId' = IF localPlayerId \in Slots THEN localPlayerId
                           ELSE spectateTargetId
    /\ UNCHANGED <<numPlayers, connected, colorIndex, localPlayerId>>

(* pressReadyForPlayer(p): the last Ready of the queue starts the countdown. *)
PressReadyForPlayer(p) ==
    LET r == IF p \in Slots THEN ready \cup {p} ELSE ready IN
    /\ canPressReady
    /\ \/ /\ ~AllQueuePlayersReady(r)
          /\ ready' = r
          /\ UNCHANGED <<phase, numPlayers, connected, inQueue, inMatch, colorIndex,
                         alive, timerVars, cameraVars, matchEndHandled>>
       \/ /\ AllQueuePlayersReady(r)
          /\ PlacePlayersAtSpawn(r)
          /\ countdownRemaining' = CountdownTicks
          /\ phase' = "COUNTDOWN"
          /\ UNCHANGED <<matchTimeRemaining, resultsTimeRemaining, matchEndHandled>>

SpectateForPlayer(direction) ==
    /\ Cardinality(LivingPlayers) >= 2
    /\ spectateTargetId' = IF direction >= 0 THEN SpectateNext ELSE SpectatePrev
    /\ UNCHANGED <<phase, slotVars, timerVars, localPlayerId, matchEndHandled>>

-----------------------------------------------------------------------------
(* One iteration of the main loop's tick: tickServer, then the kick, then   *)
(* the reset of its latch.  In IDLE and QUEUE a tick changes nothing.       *)

\* Mutated form: the latch of the previous match is never reset.
KeepMatchEndLatch == UNCHANGED matchEndHandled

\* After a tick of COUNTDOWN or IN_PROGRESS the next match end is to be handled.
ResetMatchEndLatch == matchEndHandled' = FALSE

TickCountdown ==
    /\ phase = "COUNTDOWN"
    /\ countdownRemaining > 1
    /\ countdownRemaining' = countdownRemaining - 1
    /\ ResetMatchEndLatch
    /\ UNCHANGED <<phase, slotVars, matchTimeRemaining, resultsTimeRemaining, cameraVars>>

\* What tickServer does beyond tickMatchFlow once the match is on.
AdoptLocalPlayer ==
    localPlayerId' = IF localPlayerId < 0 /\ numPlayers > 0 THEN 0 ELSE localPlayerId

(* startMatch(), and the first tick of gameplay in the same call.  Everyone *)
(* placed at spawn has full health, which no single tick can take away.     *)
StartMatch ==
    /\ phase = "COUNTDOWN"
    /\ countdownRemaining <= 1
    /\ countdownRemaining' = 0
    /\ matchTimeRemaining' = MatchTicks
    /\ resultsTimeRemaining' = 0
    /\ phase' = "IN_PROGRESS"
    /\ AdoptLocalPlayer
    /\ ResetMatchEndLatch
    /\ UNCHANGED <<slotVars, spectateTargetId>>

(* A tick of the match, in which the players of dead run out of health.     *)
TickMatch(dead) ==
    /\ phase = "IN_PROGRESS"
    /\ matchTimeRemaining > 1
    /\ LivingPlayers # {}
    /\ dead \subseteq LivingPlayers
    /\ matchTimeRemaining' = matchTimeRemaining - 1
    /\ alive' = alive \ dead
    /\ AdoptLocalPlayer
    /\ ResetMatchEndLatch
    /\ UNCHANGED <<phase, numPlayers, connected, inQueue, inMatch, ready, colorIndex,
                   countdownRemaining, resultsTimeRemaining, spectateTargetId>>

EndMatch ==
    /\ phase = "IN_PROGRESS"
    /\ matchTimeRemaining <= 1 \/ LivingPlayers = {}
    /\ matchTimeRemaining' = matchTimeRemaining - 1
    /\ resultsTimeRemaining' = ResultsTicks
    /\ phase' = "RESULTS"
    /\ UNCHANGED <<slotVars, countdownRemaining, cameraVars, matchEndHandled>>

\* resultsTimeRemaining after one more tick, floored at 0.
ResultsTimeAfterTick == IF resultsTimeRemaining > 0 THEN resultsTimeRemaining - 1 ELSE 0

TickResults ==
    /\ phase = "RESULTS"
    /\ matchEndHandled \/ ~isResultsCountdownFinished(ResultsTimeAfterTick)
    /\ resultsTimeRemaining' = ResultsTimeAfterTick
    /\ UNCHANGED <<phase, slotVars, countdownRemaining, matchTimeRemaining, cameraVars,
                   matchEndHandled>>

(* The tick that ends the results: everyone is kicked, and                  *)
(* returnPlayersToMenu() clears the room.                                  *)
ReturnPlayersToMenu ==
    /\ phase = "RESULTS"
    /\ ~matchEndHandled
    /\ isResultsCountdownFinished(ResultsTimeAfterTick)
    /\ matchEndHandled' = TRUE
    /\ phase' = "IDLE"
    /\ numPlayers' = 0
    /\ connected' = {} /\ inQueue' = {} /\ inMatch' = {} /\ ready' = {} /\ alive' = {}
    /\ colorIndex' = [p \in Ids |-> 0]
    /\ countdownRemaining' = 0 /\ matchTimeRemaining' = 0 /\ resultsTimeRemaining' = 0
    /\ localPlayerId' = NoPlayer /\ spectateTargetId' = NoPlayer

ServerTick ==
    \/ TickCountdown
    \/ StartMatch
    \/ \E dead \in SUBSET Ids : TickMatch(dead)
    \/ EndMatch
    \/ TickResults
    \/ ReturnPlayersToMenu

Next ==
    \/ TryJoinQueue
    \/ \E p \in Ids : RemovePlayer(p)
    \/ \E p \in Ids : PressReadyForPlayer(p)
    \/ \E direction \in {-1, 1} : SpectateForPlayer(direction)
    \/ ServerTick

Spec == Init /\ [][Next]_vars

-----------------------------------------------------------------------------
(* Properties.                                                             *)

TypeOK ==
    /\ phase \in MatchPhase
    /\ numPlayers \in 0 .. kMaxPlayers
    /\ connected \subseteq Slots /\ ready \subseteq Slots /\ alive \subseteq Slots
    /\ inQueue \subseteq connected /\ inMatch \subseteq connected
    /\ colorIndex \in [Ids -> Colors]
    /\ countdownRemaining \in 0 .. CountdownTicks
    /\ matchTimeRemaining \in 0 .. MatchTicks
    /\ resultsTimeRemaining \in 0 .. ResultsTicks
    /\ localPlayerId \in Ids \cup {NoPlayer}
    /\ spectateTargetId \in Ids \cup {NoPlayer}
    /\ matchEndHandled \in BOOLEAN

(* Two connected players never wear the same color, however often slots are *)
(* freed and reused: allocateColorIndex() always finds an unused one.       *)
ColorsDistinct ==
    \A p, q \in connected : colorIndex[p] = colorIndex[q] => p = q

(* The room is IDLE exactly when nobody is connected, so that the next join *)
(* opens a fresh queue and no phase goes on with an empty room.            *)
IdleIffEmpty == phase = "IDLE" <=> connected = {}

(* While a countdown runs, enough living players are placed for the match   *)
(* it leads to: whoever leaves aborts it, and no join disturbs it.          *)
StartQuorum ==
    phase = "COUNTDOWN" => Cardinality(LivingPlayers) >= kMinPlayersToStart

(* The ids the server keeps outside the slots still name somebody: the      *)
(* spectate target is connected, and so is the adopted local player near    *)
(* whom startMatch() drops the first pickup.                               *)
KeptIdsConnected ==
    /\ spectateTargetId # NoPlayer => spectateTargetId \in connected
    /\ localPlayerId # NoPlayer /\ phase \in {"QUEUE", "COUNTDOWN"}
        => localPlayerId \in connected

(* From the start of a match until its results are over people only leave:  *)
(* nobody joins, nobody enters the match, and the dead stay dead.           *)
RosterOnlyShrinks ==
    [][(phase \in {"IN_PROGRESS", "RESULTS"})
        => /\ connected' \subseteq connected
           /\ inMatch' \subseteq inMatch
           /\ alive' \subseteq alive]_vars

(* A match that has begun sends everybody home in the end, whoever leaves or  *)
(* dies meanwhile and whatever the latch of the kick was left at by the      *)
(* match before.  (Of those a countdown called off leaves behind in QUEUE it *)
(* says nothing: see ReadyOffered.)                                         *)
MatchEmptiesRoom == (phase = "IN_PROGRESS") ~> (connected = {})

(* PLAN.md:333-334: with two or more in the queue the Ready button is shown.  *)
(* Those placed by a countdown that was called off are out of the queue,     *)
(* although they are still there: getQueueCount() misses them, and           *)
(* canPressReady() stays false however long they wait.                      *)
ReadyOffered ==
    phase = "QUEUE" /\ Cardinality(connected) >= kMinPlayersToStart => canPressReady

(* PLAN.md:354: who joins during the countdown spawns at match start with     *)
(* everyone else.  placePlayersAtSpawn() has run by then, and startMatch()   *)
(* does not place anybody.                                                  *)
LateJoinersPlay == phase = "IN_PROGRESS" => connected \subseteq inMatch

(* What PLAN.md:333-354 promises everybody in the room, and the code keeps    *)
(* in neither case: in the lobby a Ready button, and in the match a place.   *)
LobbyAsPlanned == ReadyOffered /\ LateJoinersPlay

(* The slots, flags and timers implement the room of MatchRoom: the capacity *)
(* holds, a start is announced by a quorum and called off when anyone of     *)
(* the room leaves, those it was announced with play, contestants only ever  *)
(* leave a match or die, and nobody enters it once it has begun.            *)
RoomStage ==
    CASE phase = "COUNTDOWN"   -> "starting"
      [] phase = "IN_PROGRESS" -> "playing"
      [] phase = "RESULTS"     -> "showing"
      [] OTHER                 -> "open"
RoomContestants == IF RoomStage = "open" THEN {} ELSE inMatch
RoomSurvivors   == IF RoomStage = "open" THEN {} ELSE LivingPlayers

Room == INSTANCE MatchRoom WITH
    Member <- Ids,
    Capacity <- kMaxPlayers,
    Quorum <- kMinPlayersToStart,
    stage <- RoomStage,
    members <- connected,
    contestants <- RoomContestants,
    survivors <- RoomSurvivors

ImplementsRoom == Room!RoomSpec
=============================================================================
