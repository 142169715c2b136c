------------------------------- MODULE Client -------------------------------
(***************************************************************************)
(* The online client: the screens of main.cpp, its session and pending join,   *)
(* what it keeps of the simulation, and its connection over ENet, over the     *)
(* stream transport (StreamLink) or, in the browser, over a WebSocket.        *)
(*                                                                         *)
(* One step is one packet handled, one end of a connection noticed, or one     *)
(* frame of the main loop with what the player presses in it.  The server is   *)
(* an environment: it answers a join, sends lobby and world packets in the     *)
(* phases a room can go through, and kicks at the end of a match.  Packets of  *)
(* a connection arrive in order (StreamLink, EnetSession); the tick filter        *)
(* is in WorldSync.  Names, drawing and the offline mode are left out.         *)
(***************************************************************************)
EXTENDS Naturals, Sequences

CONSTANTS
    Transports,    \* what the client may have been started with
    InboxBound,    \* bound: packets that have arrived and are not read
    AttemptBound,  \* bound: how often Join is pressed
    LateClose      \* whether a WebSocket that was closed may report so later

ASSUME ClientAssumption ==
    /\ Transports \subseteq {"enet", "stream", "web"}
    /\ InboxBound \in Nat \ {0} /\ AttemptBound \in Nat
    /\ LateClose \in BOOLEAN

VARIABLES
    transport,
    screen,                \* GameState
    connectPending, joinedServerSession,
    timeUp,                \* kJoinResponseTimeoutSec have passed since the join
    phase,                 \* of the client's simulation, as are the next three
    localPlayer,           \* localPlayerId >= 0
    others,                \* somebody else is connected
    dead,                  \* the local player is dead and others live
    handle,                \* the client holds a socket, a peer, "connected"
    link,                  \* the connection: "none", "up", or "ended"
    wsFlag, oldWs,         \* Module.gameNet.connected; an earlier WebSocket
                           \* whose onclose has not run yet
    inbox, chunk,          \* packets not read; packets read and not handled
    crashed,               \* poll() went on with the host it had destroyed
    session, room,         \* the server: "none", "asked" or "in"; its phase
    attempts

simVars    == <<phase, localPlayer, others, dead>>
uiVars     == <<screen, connectPending, joinedServerSession, timeUp>>
netVars    == <<handle, link, wsFlag, oldWs, inbox, session>>
serverVars == <<session, room>>
clientVars == <<transport, screen, connectPending, joinedServerSession, timeUp, phase,
                localPlayer, others, dead, handle, link, wsFlag, oldWs,
                inbox, chunk, crashed, session, room, attempts>>

Phases  == {"IDLE", "QUEUE", "COUNTDOWN", "IN_PROGRESS", "RESULTS"}
Screens == {"TITLE", "QUEUE", "PLAYING", "SPECTATING", "MATCH_END", "PAUSED"}

Packets ==
    {[kind |-> k, phase |-> "IDLE", others |-> FALSE, dead |-> FALSE, done |-> FALSE] :
        k \in {"JOIN_OK", "JOIN_FAIL", "KICK"}}
    \cup [kind : {"LOBBY", "WORLD"}, phase : Phases \ {"IDLE"}, others : BOOLEAN,
          dead : BOOLEAN, done : BOOLEAN]

Plain(kind) == CHOOSE p \in Packets : p.kind = kind /\ p.phase = "IDLE"

isConnected == handle /\ (transport = "web" => wsFlag)

-----------------------------------------------------------------------------
(* Parts of the handlers.                                                  *)

(* SyncUiStateFromSimulation().                                            *)
SyncUi(p, local, isDead) ==
    CASE p = "IDLE" -> "TITLE"
      [] p \in {"QUEUE", "COUNTDOWN"} -> "QUEUE"
      [] p = "IN_PROGRESS" -> IF local /\ isDead THEN "SPECTATING" ELSE "PLAYING"
      [] p = "RESULTS" -> "MATCH_END"

ReturnPlayersToMenu ==
    /\ phase' = "IDLE" /\ localPlayer' = FALSE /\ others' = FALSE
    /\ dead' = FALSE

FinishMatchReturnToTitle ==
    /\ IF phase # "IDLE" THEN ReturnPlayersToMenu ELSE UNCHANGED simVars
    /\ screen' = "TITLE"

\* Mutated form: what was received and not read survives the connection.
DropConnectionKeepsInbox ==
    /\ handle' = FALSE /\ link' = "none" /\ wsFlag' = FALSE
    /\ oldWs' = (oldWs \/ (LateClose /\ transport = "web" /\ link = "up"))
    /\ session' = "none"
    /\ UNCHANGED inbox

(* disconnect() of every transport.  The server sees the end of the           *)
(* connection and frees the slot (GameServer), whatever was sent before.      *)
DropConnection ==
    /\ handle' = FALSE /\ link' = "none" /\ wsFlag' = FALSE
    /\ oldWs' = (oldWs \/ (LateClose /\ transport = "web" /\ link = "up"))
    /\ inbox' = <<>> /\ session' = "none"

\* Mutated form: the connection of a cancelled join stays.
CancelWithoutDisconnect ==
    /\ connectPending' = FALSE /\ joinedServerSession' = FALSE
    /\ UNCHANGED netVars

cancelPendingConnect ==
    /\ connectPending' = FALSE /\ joinedServerSession' = FALSE
    /\ IF isConnected THEN DropConnection ELSE UNCHANGED netVars

(* disconnect() out of a packet handler: NetClient::poll() goes on with       *)
(* enet_host_service() of a host that is gone.                              *)
DropInHandler ==
    /\ IF isConnected THEN DropConnection ELSE UNCHANGED netVars
    /\ crashed' = (transport = "enet")

-----------------------------------------------------------------------------
ClientInit ==
    /\ transport \in Transports
    /\ screen = "TITLE" /\ connectPending = FALSE /\ joinedServerSession = FALSE
    /\ timeUp = FALSE
    /\ phase = "IDLE" /\ localPlayer = FALSE /\ others = FALSE /\ dead = FALSE
    /\ handle = FALSE /\ link = "none" /\ wsFlag = FALSE /\ oldWs = FALSE
    /\ inbox = <<>> /\ chunk = <<>> /\ crashed = FALSE
    /\ session = "none" /\ room = "IDLE" /\ attempts = 0

(* The server and the network.                                             *)

Arrives(p) == Len(inbox) < InboxBound /\ inbox' = Append(inbox, p)

AnswerJoin ==
    /\ session = "asked" /\ link = "up"
    /\ Arrives(Plain("JOIN_OK"))
    /\ session' = "in" /\ room' \in {"QUEUE", "COUNTDOWN"}
    /\ UNCHANGED <<transport, uiVars, simVars, handle, link, wsFlag, oldWs, chunk, crashed, attempts>>

(* S_JOIN_FAIL, and the connection is closed; ENet does not repeat what is     *)
(* lost by then.                                                           *)
RefuseJoin ==
    /\ session = "asked" /\ link = "up"
    /\ Arrives(Plain("JOIN_FAIL")) \/ (transport = "enet" /\ UNCHANGED inbox)
    /\ session' = "none" /\ link' = "ended" /\ wsFlag' = FALSE
    /\ UNCHANGED <<transport, uiVars, simVars, handle, oldWs, chunk, crashed, room, attempts>>

MovesTo(p) ==
    CASE p = "QUEUE" -> {"COUNTDOWN"}
      [] p = "COUNTDOWN" -> {"QUEUE", "IN_PROGRESS"}
      [] p = "IN_PROGRESS" -> {"RESULTS"}
      [] OTHER -> {}

RoomMoves ==
    /\ session = "in" /\ room' \in MovesTo(room)
    /\ UNCHANGED <<transport, uiVars, simVars, netVars, chunk, crashed, attempts>>

Broadcast ==
    /\ session = "in" /\ link = "up"
    /\ \E p \in Packets :
         /\ p.kind = "LOBBY" \/ (p.kind = "WORLD" /\ p.phase # "QUEUE")
         /\ p.phase = room
         /\ p.dead => p.phase = "IN_PROGRESS" /\ p.others
         /\ p.done => p.phase = "RESULTS" /\ p.kind = "WORLD"
         /\ Arrives(p)
    /\ UNCHANGED <<transport, uiVars, simVars, handle, link, wsFlag, oldWs, chunk, crashed,
                   serverVars, attempts>>

(* The end of a match.  S_KICK goes out before a stream socket is closed; on    *)
(* ENet enet_peer_disconnect() clears the queue it is in.                     *)
Kick ==
    /\ session = "in" /\ link = "up" /\ room = "RESULTS"
    /\ IF transport = "enet" THEN UNCHANGED inbox ELSE Arrives(Plain("KICK"))
    /\ session' = "none" /\ room' = "IDLE" /\ link' = "ended" /\ wsFlag' = FALSE
    /\ UNCHANGED <<transport, uiVars, simVars, handle, oldWs, chunk, crashed, attempts>>

LinkBreaks ==
    /\ link = "up"
    /\ link' = "ended" /\ session' = "none" /\ wsFlag' = FALSE
    /\ UNCHANGED <<transport, uiVars, simVars, handle, oldWs, inbox, chunk, crashed, room, attempts>>

(* onclose of an earlier WebSocket: it writes the flag of the present one.     *)
OldWsCloses ==
    /\ oldWs /\ oldWs' = FALSE /\ wsFlag' = FALSE
    /\ UNCHANGED <<transport, uiVars, simVars, handle, link, inbox, session, chunk, crashed,
                   room, attempts>>

TimePasses ==
    /\ connectPending /\ ~timeUp
    /\ timeUp' = TRUE
    /\ UNCHANGED <<transport, screen, connectPending, joinedServerSession, simVars, netVars,
                   chunk, crashed, room, attempts>>

-----------------------------------------------------------------------------
(* poll(): it is called only while isConnected.                              *)

PollRead ==
    /\ ~crashed /\ isConnected /\ chunk = <<>> /\ inbox # <<>>
    /\ \E n \in 1 .. Len(inbox) :
         /\ transport # "stream" => n = 1
         /\ chunk' = SubSeq(inbox, 1, n)
         /\ inbox' = SubSeq(inbox, n + 1, Len(inbox))
    /\ UNCHANGED <<transport, uiVars, simVars, handle, link, wsFlag, oldWs, crashed,
                   serverVars, attempts>>

Handling(kind) ==
    /\ ~crashed /\ chunk # <<>> /\ Head(chunk).kind = kind
    /\ chunk' = Tail(chunk)
    /\ UNCHANGED <<transport, room, attempts>>

HandleJoinOk ==
    /\ Handling("JOIN_OK")
    /\ connectPending' = FALSE /\ joinedServerSession' = TRUE
    /\ localPlayer' = TRUE
    /\ phase' = IF phase = "IDLE" THEN "QUEUE" ELSE phase
    /\ screen' = "QUEUE"
    /\ UNCHANGED <<timeUp, others, dead, netVars, crashed>>

HandleJoinFail ==
    /\ Handling("JOIN_FAIL")
    /\ connectPending' = FALSE /\ joinedServerSession' = FALSE
    /\ ReturnPlayersToMenu
    /\ screen' = "TITLE"
    /\ DropInHandler
    /\ UNCHANGED timeUp

(* What lobby and world packets have in common: phase and players, and the     *)
(* screen that goes with them.                                             *)
ApplyPacket(p) ==
    /\ phase' = p.phase /\ others' = p.others /\ dead' = p.dead
    /\ screen' = SyncUi(p.phase, localPlayer, p.dead)
    /\ UNCHANGED localPlayer

\* Mutated form: a lobby packet is applied without a session.
HandleLobbyAlways ==
    /\ Handling("LOBBY")
    /\ ApplyPacket(Head(chunk))
    /\ UNCHANGED <<connectPending, joinedServerSession, timeUp, netVars, crashed>>

HandleLobby ==
    /\ Handling("LOBBY")
    /\ IF joinedServerSession THEN ApplyPacket(Head(chunk)) ELSE UNCHANGED <<screen, phase, localPlayer, others, dead>>
    /\ UNCHANGED <<connectPending, joinedServerSession, timeUp, netVars, crashed>>

HandleWorldIgnored ==
    /\ Handling("WORLD")
    /\ ~joinedServerSession
    /\ UNCHANGED <<uiVars, simVars, netVars, crashed>>

HandleWorld ==
    /\ Handling("WORLD")
    /\ joinedServerSession /\ ~Head(chunk).done
    /\ ApplyPacket(Head(chunk))
    /\ UNCHANGED <<connectPending, joinedServerSession, timeUp, netVars, crashed>>

(* The world state that says the results are over: the client leaves by        *)
(* itself, without waiting for S_KICK.                                      *)
HandleWorldLast ==
    /\ Handling("WORLD")
    /\ joinedServerSession /\ Head(chunk).done
    /\ joinedServerSession' = FALSE
    /\ ReturnPlayersToMenu /\ screen' = "TITLE"
    /\ DropInHandler
    /\ UNCHANGED <<connectPending, timeUp>>

\* Mutated form: S_KICK leaves the session marked as joined.
HandleKickStaysJoined ==
    /\ Handling("KICK")
    /\ FinishMatchReturnToTitle
    /\ DropInHandler
    /\ UNCHANGED <<connectPending, joinedServerSession, timeUp>>

HandleKick ==
    /\ Handling("KICK")
    /\ joinedServerSession' = FALSE
    /\ FinishMatchReturnToTitle
    /\ DropInHandler
    /\ UNCHANGED <<connectPending, timeUp>>

\* Mutated form: the main program is not told that the connection is lost.
PollEndedSilently ==
    /\ ~crashed /\ transport # "web" /\ handle /\ link = "ended" /\ chunk = <<>>
    /\ transport = "enet" \/ inbox = <<>>
    /\ DropConnection
    /\ UNCHANGED <<transport, uiVars, simVars, chunk, crashed, room, attempts>>

(* poll() finds the connection ended and calls handleNetDisconnect; ENet drops  *)
(* with it what it has received.  The stream client also gets there after a    *)
(* handler closed its socket, when nothing is pending or joined any more.  In   *)
(* the browser isConnected is false by then and poll() is not called.         *)
PollEnded ==
    /\ ~crashed /\ transport # "web" /\ handle /\ link = "ended" /\ chunk = <<>>
    /\ transport = "enet" \/ inbox = <<>>
    /\ DropConnection
    /\ connectPending' = FALSE /\ joinedServerSession' = FALSE
    /\ IF ~connectPending /\ joinedServerSession THEN FinishMatchReturnToTitle
       ELSE UNCHANGED <<screen, simVars>>
    /\ UNCHANGED <<transport, timeUp, chunk, crashed, room, attempts>>

-----------------------------------------------------------------------------
(* Frames, by the screen they find.                                         *)

Frame(on) ==
    /\ ~crashed /\ chunk = <<>> /\ screen \in on
    /\ UNCHANGED <<transport, chunk, crashed, room>>

\* Mutated form: the wait is given up only while there is a connection.
TitleTimeoutIfConnected ==
    /\ Frame({"TITLE"})
    /\ connectPending /\ ~joinedServerSession /\ timeUp /\ isConnected
    /\ cancelPendingConnect
    /\ UNCHANGED <<screen, timeUp, simVars, attempts>>

TitleTimeout ==
    /\ Frame({"TITLE"})
    /\ connectPending /\ ~joinedServerSession /\ timeUp
    /\ cancelPendingConnect
    /\ UNCHANGED <<screen, timeUp, simVars, attempts>>

PressesJoin ==
    /\ Frame({"TITLE"})
    /\ attempts < AttemptBound /\ attempts' = attempts + 1

(* connect() has closed the connection before, and fails.                     *)
JoinCannotConnect ==
    /\ PressesJoin
    /\ DropConnection
    /\ UNCHANGED <<uiVars, simVars>>

(* connect() succeeds and sendJoin() does not.                               *)
JoinCannotSend ==
    /\ PressesJoin
    /\ DropConnection
    /\ connectPending' = FALSE /\ joinedServerSession' = FALSE
    /\ UNCHANGED <<screen, timeUp, simVars>>

JoinSent ==
    /\ PressesJoin
    /\ handle' = TRUE /\ link' = "up" /\ inbox' = <<>> /\ session' = "asked"
    /\ wsFlag' = (transport = "web")
    /\ oldWs' = (oldWs \/ (LateClose /\ transport = "web" /\ link = "up"))
    /\ connectPending' = TRUE /\ joinedServerSession' = FALSE /\ timeUp' = FALSE
    /\ UNCHANGED <<screen, simVars>>

(* sim.tick() does nothing online; the screen follows the phase.               *)
QueueFrame ==
    /\ Frame({"QUEUE"})
    /\ screen' = SyncUi(phase, localPlayer, dead)
    /\ UNCHANGED <<connectPending, joinedServerSession, timeUp, simVars, netVars, attempts>>

(* C_READY changes nothing here.  Without a connection pressReadyForPlayer() of *)
(* the client's own simulation is called, which may start a countdown there.   *)
ReadyOffline ==
    /\ Frame({"QUEUE"})
    /\ ~isConnected /\ phase = "QUEUE" /\ localPlayer /\ others
    /\ phase' = "COUNTDOWN" /\ screen' = "QUEUE"
    /\ UNCHANGED <<connectPending, joinedServerSession, timeUp, localPlayer, others, dead,
                   netVars, attempts>>

(* Leave Queue: removePlayer() of the client's own simulation goes back to IDLE *)
(* only if nobody else is in it, and the screen follows the phase.             *)
LeaveQueue ==
    /\ Frame({"QUEUE"})
    /\ IF isConnected THEN joinedServerSession' = FALSE /\ DropConnection
       ELSE UNCHANGED <<joinedServerSession, netVars>>
    /\ localPlayer' = FALSE
    /\ phase' = IF ~localPlayer THEN phase
                ELSE IF ~others THEN "IDLE"
                ELSE IF phase = "COUNTDOWN" THEN "QUEUE" ELSE phase
    /\ screen' = SyncUi(phase', FALSE, dead)
    /\ UNCHANGED <<connectPending, timeUp, others, dead, attempts>>

LeaveSession ==
    /\ IF isConnected THEN joinedServerSession' = FALSE /\ DropConnection
       ELSE UNCHANGED <<joinedServerSession, netVars>>
    /\ FinishMatchReturnToTitle
    /\ UNCHANGED <<connectPending, timeUp, attempts>>

(* Main Menu, or the countdown of the results that has run out by itself.       *)
MatchEndLeave ==
    /\ Frame({"MATCH_END"})
    /\ LeaveSession

PlayFrame ==
    /\ Frame({"PLAYING", "SPECTATING", "PAUSED"})
    /\ screen' = SyncUi(phase, localPlayer, dead)
    /\ UNCHANGED <<connectPending, joinedServerSession, timeUp, simVars, netVars, attempts>>

(* ESC in the browser: the next frame shows the game again.                   *)
PressEscape ==
    /\ Frame({"PLAYING"})
    /\ transport = "web" /\ SyncUi(phase, localPlayer, dead) # "MATCH_END"
    /\ screen' = "PAUSED"
    /\ UNCHANGED <<connectPending, joinedServerSession, timeUp, simVars, netVars, attempts>>

-----------------------------------------------------------------------------
Environment ==
    \/ AnswerJoin \/ RefuseJoin \/ RoomMoves \/ Broadcast \/ Kick
    \/ LinkBreaks \/ OldWsCloses \/ TimePasses

Polling ==
    \/ PollRead \/ HandleJoinOk \/ HandleJoinFail \/ HandleLobby
    \/ HandleWorldIgnored \/ HandleWorld \/ HandleWorldLast \/ HandleKick \/ PollEnded

Frames ==
    \/ TitleTimeout \/ JoinCannotConnect \/ JoinCannotSend \/ JoinSent
    \/ QueueFrame \/ ReadyOffline \/ LeaveQueue \/ MatchEndLeave \/ PlayFrame \/ PressEscape

ClientNext == Environment \/ Polling \/ Frames

ClientSpec == ClientInit /\ [][ClientNext]_clientVars

(* Time passes, the main loop polls and draws; a results screen that the server *)
(* no longer updates counts down to its end.  Nothing the player presses and    *)
(* nothing the server or the network does is fair.                          *)
FairClientSpec ==
    /\ ClientSpec
    /\ WF_clientVars(TimePasses) /\ WF_clientVars(Polling)
    /\ WF_clientVars(TitleTimeout) /\ WF_clientVars(PlayFrame)
    /\ WF_clientVars(link # "up" /\ MatchEndLeave)

-----------------------------------------------------------------------------
(* Properties.                                                             *)

(* Types; and no packet is left over from a connection that is gone.           *)
ClientTypeOK ==
    /\ transport \in Transports /\ screen \in Screens
    /\ connectPending \in BOOLEAN /\ joinedServerSession \in BOOLEAN /\ timeUp \in BOOLEAN
    /\ phase \in Phases /\ localPlayer \in BOOLEAN /\ others \in BOOLEAN
    /\ dead \in BOOLEAN
    /\ handle \in BOOLEAN /\ link \in {"none", "up", "ended"}
    /\ wsFlag \in BOOLEAN /\ oldWs \in BOOLEAN /\ crashed \in BOOLEAN
    /\ inbox \in Seq(Packets) /\ Len(inbox) <= InboxBound
    /\ chunk \in Seq(Packets) /\ Len(chunk) <= InboxBound
    /\ session \in {"none", "asked", "in"} /\ room \in Phases
    /\ attempts \in 0 .. AttemptBound
    /\ handle = (link # "none") /\ (link = "none" => inbox = <<>>)

(* A client that takes itself for joined has a connection, a player of its own   *)
(* and a room, and waits for no answer.  In the browser it may go on taking      *)
(* itself for joined when the connection is lost.                            *)
SessionIsWhole ==
    joinedServerSession /\ (transport = "web" => wsFlag)
        => handle /\ localPlayer /\ phase # "IDLE" /\ ~connectPending

(* What the server holds open for a client, the client knows of: else a player   *)
(* whom nobody plays would stand in the queue, and the others wait for his Ready. *)
(* Not in the browser: a late onclose of the WebSocket before makes the client    *)
(* forget one that is open.                                                 *)
NoSilentSession ==
    transport # "web" /\ link = "up" => connectPending \/ joinedServerSession

(* No packet of a session that is over takes the client away from the title:     *)
(* only being accepted does.                                                *)
TitleLeftByJoining ==
    [][screen = "TITLE" /\ screen' # "TITLE" => ~joinedServerSession /\ joinedServerSession']_clientVars

(* Every attempt to join comes to an end, also when the server never answers or  *)
(* a further connect() has failed meanwhile.                                 *)
AttemptsEnd == connectPending ~> ~connectPending

(* A session whose connection is lost ends at the title, unless the player has   *)
(* pressed Leave Queue before that is noticed.  In the browser this is so on the *)
(* results screen only.                                                     *)
LostSessionEnds ==
    (joinedServerSession /\ link = "ended" /\ (transport = "web" => screen = "MATCH_END"))
        ~> (screen = "TITLE" \/ ~localPlayer \/ crashed)

-----------------------------------------------------------------------------
(* PLAN.md, 2: a join attempt that is refused "returns rejection message; client *)
(* stays on main menu".                                                     *)
RefusalStaysOnMenu == screen = "TITLE" => ~crashed
=============================================================================
