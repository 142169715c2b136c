---------------------------- MODULE ClientProofs ----------------------------
(***************************************************************************)
(* Proofs about Client, for any number of packets under way and of attempts   *)
(* to join: its session, its connection and its title screen stay in step.    *)
(***************************************************************************)
EXTENDS Client, SequenceTheorems, TLAPS

(***************************************************************************)
(* The inductive invariant.  The answer to a join is the first packet of its  *)
(* connection and finds nobody joined.                                       *)
(***************************************************************************)
Answers == {"JOIN_OK", "JOIN_FAIL"}

AnswerFirst ==
    /\ \A i \in 1 .. Len(chunk) : i > 1 => chunk[i].kind \notin Answers
    /\ \A i \in 1 .. Len(inbox) : (i > 1 \/ chunk # <<>>) => inbox[i].kind \notin Answers

(* Whoever is accepted was not joined yet, and still has the connection.       *)
AcceptedOnce ==
    /\ (chunk # <<>> /\ chunk[1].kind = "JOIN_OK") => handle /\ ~joinedServerSession
    /\ (inbox # <<>> /\ inbox[1].kind = "JOIN_OK") => handle /\ ~joinedServerSession

(* Before the answer nothing comes.                                          *)
AskedAlone ==
    /\ session = "asked" => /\ inbox = <<>> /\ chunk = <<>>
                           /\ link = "up" /\ ~joinedServerSession
    /\ session = "in" => link = "up"

(* SessionIsWhole, and more: while packets of a session are handled it is      *)
(* whole although the browser may have lost it, and it is not on the title.    *)
JoinedIsWhole ==
    joinedServerSession /\ (transport = "web" => wsFlag \/ chunk # <<>>)
        => /\ handle /\ localPlayer /\ phase # "IDLE" /\ ~connectPending
           /\ screen # "TITLE"

ClientInv ==
    /\ ClientTypeOK /\ AnswerFirst /\ AcceptedOnce /\ AskedAlone
    /\ JoinedIsWhole /\ NoSilentSession

-----------------------------------------------------------------------------
(* Helpers.                                                                  *)

LEMMA PlainPacket ==
    ASSUME NEW k \in {"JOIN_OK", "JOIN_FAIL", "KICK"}
    PROVE  Plain(k) \in Packets /\ Plain(k).kind = k
<1> DEFINE q == [kind |-> k, phase |-> "IDLE", others |-> FALSE, dead |-> FALSE, done |-> FALSE]
<1>1. q \in Packets /\ q.kind = k /\ q.phase = "IDLE"
  BY DEF Packets
<1>2. QED
  BY <1>1 DEF Plain

(* A packet that carries a phase carries that of a room somebody is in.         *)
LEMMA PacketFields ==
    ASSUME NEW p \in Packets
    PROVE  /\ p.phase \in Phases /\ p.others \in BOOLEAN /\ p.dead \in BOOLEAN
           /\ p.kind \in {"LOBBY", "WORLD"} => p.phase # "IDLE"
<1>1. CASE p \in [kind : {"LOBBY", "WORLD"}, phase : Phases \ {"IDLE"}, others : BOOLEAN,
                 dead : BOOLEAN, done : BOOLEAN]
  BY <1>1
<1>2. CASE p \in {[kind |-> k, phase |-> "IDLE", others |-> FALSE, dead |-> FALSE,
                  done |-> FALSE] : k \in {"JOIN_OK", "JOIN_FAIL", "KICK"}}
  <2>1. PICK k \in {"JOIN_OK", "JOIN_FAIL", "KICK"} :
            p = [kind |-> k, phase |-> "IDLE", others |-> FALSE, dead |-> FALSE, done |-> FALSE]
    BY <1>2
  <2>2. p.phase = "IDLE" /\ p.kind = k /\ p.others = FALSE /\ p.dead = FALSE
    BY <2>1
  <2>3. QED
    BY <2>2 DEF Phases
<1>3. QED
  BY <1>1, <1>2 DEF Packets

LEMMA ScreenOfPhase ==
    ASSUME NEW p \in Phases, NEW l, NEW d
    PROVE  SyncUi(p, l, d) \in Screens /\ (p # "IDLE" => SyncUi(p, l, d) # "TITLE")
BY DEF SyncUi, Phases, Screens

-----------------------------------------------------------------------------
(* What a step may do to the packets: nothing, drop those not read, let one     *)
(* arrive, read some, or handle the first of those read.                        *)
(* Only who has asked is answered.                                              *)
Arriving ==
    \E p \in Packets : /\ Arrives(p) /\ UNCHANGED chunk
                       /\ p.kind \in Answers => session = "asked"

Handled == chunk # <<>> /\ chunk' = Tail(chunk) /\ inbox' \in {inbox, <<>>}

BufferStep ==
    \/ inbox' \in {inbox, <<>>} /\ UNCHANGED chunk
    \/ Arriving \/ PollRead \/ Handled

BuffersOK ==
    /\ inbox \in Seq(Packets) /\ Len(inbox) <= InboxBound
    /\ chunk \in Seq(Packets) /\ Len(chunk) <= InboxBound

LEMMA EveryStepOnBuffers ==
    [ClientNext]_clientVars => BufferStep
<1> SUFFICES ASSUME [ClientNext]_clientVars
             PROVE  BufferStep
  OBVIOUS
<1> USE DEF BufferStep, clientVars, netVars, Answers
<1>1. CASE AnswerJoin
  BY <1>1, PlainPacket DEF AnswerJoin, Arriving
<1>2. CASE RefuseJoin
  BY <1>2, PlainPacket DEF RefuseJoin, Arriving
<1>3. CASE RoomMoves
  BY <1>3 DEF RoomMoves, MovesTo
<1>4. CASE Broadcast
  BY <1>4 DEF Broadcast, Arriving
<1>5. CASE Kick
  BY <1>5, PlainPacket DEF Kick, Arriving
<1>6. CASE LinkBreaks
  BY <1>6 DEF LinkBreaks
<1>7. CASE OldWsCloses
  BY <1>7 DEF OldWsCloses
<1>8. CASE TimePasses
  BY <1>8 DEF TimePasses
<1>9. CASE PollRead
  BY <1>9
<1>10. CASE HandleJoinOk
  BY <1>10 DEF Handled, HandleJoinOk, Handling
<1>11. CASE HandleJoinFail
  BY <1>11 DEF Handled, HandleJoinFail, Handling, ReturnPlayersToMenu, DropInHandler,
     DropConnection
<1>12. CASE HandleLobby
  BY <1>12 DEF Handled, HandleLobby, Handling, ApplyPacket
<1>13. CASE HandleWorldIgnored
  BY <1>13 DEF Handled, HandleWorldIgnored, Handling
<1>14. CASE HandleWorld
  BY <1>14 DEF Handled, HandleWorld, Handling, ApplyPacket
<1>15. CASE HandleWorldLast
  BY <1>15 DEF Handled, HandleWorldLast, Handling, ReturnPlayersToMenu, DropInHandler,
     DropConnection
<1>16. CASE HandleKick
  BY <1>16 DEF Handled, HandleKick, Handling, FinishMatchReturnToTitle, ReturnPlayersToMenu,
     DropInHandler, DropConnection
<1>17. CASE PollEnded
  BY <1>17 DEF PollEnded, DropConnection, FinishMatchReturnToTitle, ReturnPlayersToMenu
<1>18. CASE TitleTimeout
  BY <1>18 DEF TitleTimeout, Frame, cancelPendingConnect, DropConnection
<1>19. CASE JoinCannotConnect
  BY <1>19 DEF JoinCannotConnect, PressesJoin, Frame, DropConnection
<1>20. CASE JoinCannotSend
  BY <1>20 DEF JoinCannotSend, PressesJoin, Frame, DropConnection
<1>21. CASE JoinSent
  BY <1>21 DEF JoinSent, PressesJoin, Frame
<1>22. CASE QueueFrame
  BY <1>22 DEF QueueFrame, Frame
<1>23. CASE ReadyOffline
  BY <1>23 DEF ReadyOffline, Frame
<1>24. CASE LeaveQueue
  BY <1>24 DEF LeaveQueue, Frame, DropConnection
<1>25. CASE MatchEndLeave
  BY <1>25 DEF MatchEndLeave, LeaveSession, Frame, FinishMatchReturnToTitle,
     ReturnPlayersToMenu, DropConnection
<1>26. CASE PlayFrame
  BY <1>26 DEF PlayFrame, Frame
<1>27. CASE PressEscape
  BY <1>27 DEF PressEscape, Frame
<1>28. CASE UNCHANGED clientVars
  BY <1>28 DEF clientVars
<1>29. QED
  BY <1>1, <1>2, <1>3, <1>4, <1>5, <1>6, <1>7, <1>8, <1>9, <1>10, <1>11, <1>12, <1>13, <1>14,
     <1>15, <1>16, <1>17, <1>18, <1>19, <1>20, <1>21, <1>22, <1>23, <1>24, <1>25, <1>26, <1>27,
     <1>28 DEF ClientNext, Environment, Polling, Frames

LEMMA BuffersStayOK ==
    BuffersOK /\ BufferStep => BuffersOK'
<1> SUFFICES ASSUME BuffersOK, BufferStep PROVE BuffersOK'
  OBVIOUS
<1> USE DEF BuffersOK
<1>0. InboxBound \in Nat /\ <<>> \in Seq(Packets) /\ Len(<<>>) = 0
  BY ClientAssumption
<1>1. CASE inbox' = inbox /\ chunk' = chunk
  BY <1>1
<1>2. CASE inbox' = <<>> /\ chunk' = chunk
  BY <1>0, <1>2
<1>3. CASE Arriving
  BY <1>0, <1>3 DEF Arriving, Arrives
<1>4. CASE PollRead
  <2>1. PICK n \in 1 .. Len(inbox) :
            /\ chunk' = SubSeq(inbox, 1, n) /\ inbox' = SubSeq(inbox, n + 1, Len(inbox))
    BY <1>4 DEF PollRead
  <2>2. Len(inbox) \in Nat /\ \A i \in 1 .. Len(inbox) : inbox[i] \in Packets
    BY ElementOfSeq
  <2>3. chunk' \in Seq(Packets) /\ Len(chunk') = n
    BY <2>1, <2>2, SubSeqProperties
  <2>4. inbox' \in Seq(Packets) /\ Len(inbox') <= Len(inbox)
    BY <2>1, <2>2, SubSeqProperties
  <2>5. QED
    BY <1>0, <2>2, <2>3, <2>4
<1>5. CASE Handled
  <2>1. chunk' \in Seq(Packets) /\ Len(chunk') = Len(chunk) - 1 /\ Len(chunk) \in Nat
    BY <1>5, HeadTailProperties DEF Handled
  <2>2. CASE inbox' = inbox
    BY <1>0, <2>1, <2>2
  <2>3. CASE inbox' = <<>>
    BY <1>0, <2>1, <2>3
  <2>4. QED
    BY <1>5, <2>2, <2>3 DEF Handled
<1>6. QED
  BY <1>1, <1>2, <1>3, <1>4, <1>5 DEF BufferStep

(* What is handled is a packet, and the next one of a connection follows.        *)
LEMMA ChunkHead ==
    ASSUME BuffersOK, chunk # <<>>
    PROVE  Head(chunk) = chunk[1] /\ Head(chunk) \in Packets
BY HeadTailProperties DEF BuffersOK

(* The answer is the first packet, and once anything is handled it is gone.      *)
NoAnswer(s) == \A i \in 1 .. Len(s) : s[i].kind \notin Answers

LEMMA AnswersStayFirst ==
    ASSUME BuffersOK, AnswerFirst, AskedAlone, BufferStep
    PROVE  /\ AnswerFirst'
           /\ Handled => NoAnswer(chunk') /\ NoAnswer(inbox')
<1> USE DEF BuffersOK, AnswerFirst, NoAnswer
<1>0. /\ Len(inbox) \in Nat /\ Len(chunk) \in Nat
      /\ Len(<<>>) = 0 /\ (Len(chunk) = 0 <=> chunk = <<>>)
      /\ (Len(inbox) = 0 <=> inbox = <<>>)
  BY EmptySeq
<1>1. CASE inbox' = inbox /\ chunk' = chunk /\ ~Handled
  BY <1>1
<1>2. CASE inbox' = <<>> /\ chunk' = chunk /\ ~Handled
  BY <1>0, <1>2
<1>3. CASE Arriving /\ ~Handled
  <2>1. PICK p \in Packets : /\ inbox' = Append(inbox, p) /\ chunk' = chunk
                             /\ p.kind \in Answers => session = "asked"
    BY <1>3 DEF Arriving, Arrives
  <2>2. /\ Len(inbox') = Len(inbox) + 1
        /\ \A i \in 1 .. Len(inbox') : inbox'[i] = IF i <= Len(inbox) THEN inbox[i] ELSE p
    BY <2>1, AppendProperties
  <2>3. p.kind \in Answers => Len(inbox) = 0 /\ chunk = <<>>
    BY <1>0, <2>1 DEF AskedAlone
  <2>4. QED
    BY <1>0, <1>3, <2>1, <2>2, <2>3
<1>4. CASE PollRead /\ ~Handled
  <2>1. PICK n \in 1 .. Len(inbox) :
            /\ chunk' = SubSeq(inbox, 1, n) /\ inbox' = SubSeq(inbox, n + 1, Len(inbox))
    BY <1>4 DEF PollRead
  <2>2. /\ \A i \in 1 .. n : chunk'[i] = inbox[i]
        /\ Len(chunk') = n
    BY <1>0, <2>1, SubSeqProperties
  <2>3. /\ Len(inbox') = Len(inbox) - n
        /\ \A i \in 1 .. Len(inbox') : inbox'[i] = inbox[i + n] /\ i + n \in 2 .. Len(inbox)
    BY <1>0, <2>1, SubSeqProperties
  <2>4. QED
    BY <1>0, <1>4, <2>1, <2>2, <2>3
<1>5. CASE Handled
  <2>1. /\ Len(chunk') = Len(chunk) - 1 /\ chunk # <<>>
        /\ \A i \in 1 .. Len(chunk') : chunk'[i] = chunk[i + 1] /\ i + 1 \in 2 .. Len(chunk)
    BY <1>0, <1>5, HeadTailProperties DEF Handled
  <2>2. NoAnswer(chunk')
    BY <1>0, <2>1
  <2>3. NoAnswer(inbox)
    BY <1>0, <2>1
  <2>4. NoAnswer(inbox')
    <3>1. CASE inbox' = inbox
      BY <2>3, <3>1
    <3>2. CASE inbox' = <<>>
      BY <1>0, <3>2
    <3>3. QED
      BY <1>5, <3>1, <3>2 DEF Handled
  <2>5. QED
    BY <2>2, <2>4
<1>6. QED
  BY <1>1, <1>2, <1>3, <1>4, <1>5 DEF BufferStep

-----------------------------------------------------------------------------
(* What is left of ClientTypeOK when the packets are taken out.                 *)
FlagsOK ==
    /\ transport \in Transports /\ screen \in Screens
    /\ connectPending \in BOOLEAN /\ joinedServerSession \in BOOLEAN /\ timeUp \in BOOLEAN
    /\ phase \in Phases /\ localPlayer \in BOOLEAN /\ others \in BOOLEAN
    /\ dead \in BOOLEAN
    /\ handle \in BOOLEAN /\ link \in {"none", "up", "ended"}
    /\ wsFlag \in BOOLEAN /\ oldWs \in BOOLEAN /\ crashed \in BOOLEAN
    /\ session \in {"none", "asked", "in"} /\ room \in Phases
    /\ attempts \in 0 .. AttemptBound
    /\ handle = (link # "none") /\ (link = "none" => inbox = <<>>)

LEMMA TypeParts == ClientTypeOK <=> BuffersOK /\ FlagsOK
BY DEF ClientTypeOK, BuffersOK, FlagsOK

LEMMA MovesInPhases == ASSUME NEW p, NEW q \in MovesTo(p) PROVE q \in Phases
BY DEF MovesTo, Phases

LEMMA FlagsStep ==
    BuffersOK /\ FlagsOK /\ AskedAlone /\ [ClientNext]_clientVars => FlagsOK'
<1> SUFFICES ASSUME BuffersOK, FlagsOK, AskedAlone, [ClientNext]_clientVars
             PROVE  FlagsOK'
  OBVIOUS
<1> USE DEF FlagsOK, clientVars, simVars, uiVars, netVars, serverVars, isConnected
<1>1. CASE AnswerJoin
  BY <1>1 DEF AnswerJoin, Arrives, Phases
<1>2. CASE RefuseJoin
  BY <1>2 DEF RefuseJoin, Arrives
<1>3. CASE RoomMoves
  BY <1>3, MovesInPhases DEF RoomMoves
<1>4. CASE Broadcast
  BY <1>4 DEF Broadcast, Arrives
<1>5. CASE Kick
  <2>1. link' = "ended" /\ handle' = handle /\ link = "up" /\ room' \in Phases
    BY <1>5 DEF Kick, Phases
  <2>2. QED
    BY <1>5, <2>1 DEF Kick
<1>6. CASE LinkBreaks
  BY <1>6 DEF LinkBreaks
<1>7. CASE OldWsCloses
  BY <1>7 DEF OldWsCloses
<1>8. CASE TimePasses
  BY <1>8 DEF TimePasses
<1>9. CASE PollRead
  BY <1>9 DEF PollRead
<1>10. CASE HandleJoinOk
  BY <1>10 DEF HandleJoinOk, Handling, Phases, Screens
<1>11. CASE HandleJoinFail
  BY <1>11 DEF HandleJoinFail, Handling, ReturnPlayersToMenu, DropInHandler, DropConnection,
     Phases, Screens
<1>12. CASE HandleLobby
  BY <1>12, ChunkHead, PacketFields, ScreenOfPhase DEF HandleLobby, Handling, ApplyPacket
<1>13. CASE HandleWorldIgnored
  BY <1>13 DEF HandleWorldIgnored, Handling
<1>14. CASE HandleWorld
  BY <1>14, ChunkHead, PacketFields, ScreenOfPhase DEF HandleWorld, Handling, ApplyPacket
<1>15. CASE HandleWorldLast
  BY <1>15 DEF HandleWorldLast, Handling, ReturnPlayersToMenu, DropInHandler, DropConnection,
     Phases, Screens
<1>16. CASE HandleKick
  <2>1. phase' \in Phases /\ localPlayer' \in BOOLEAN /\ dead' \in BOOLEAN /\ others' \in BOOLEAN
    BY <1>16 DEF HandleKick, Handling, FinishMatchReturnToTitle, ReturnPlayersToMenu,
       DropInHandler, DropConnection, Phases
  <2>2. screen' \in Screens
    BY <1>16, <2>1 DEF HandleKick, Handling, FinishMatchReturnToTitle, ReturnPlayersToMenu,
       DropInHandler, DropConnection, Screens
  <2>3. /\ handle' \in BOOLEAN /\ link' \in {"none", "up", "ended"}
        /\ handle' = (link' # "none") /\ (link' = "none" => inbox' = <<>>)
        /\ wsFlag' \in BOOLEAN /\ oldWs' \in BOOLEAN /\ session' \in {"none", "asked", "in"}
        /\ joinedServerSession' \in BOOLEAN
    BY <1>16 DEF HandleKick, Handling, FinishMatchReturnToTitle, ReturnPlayersToMenu,
       DropInHandler, DropConnection
  <2>4. QED
    BY <1>16, <2>1, <2>2, <2>3 DEF HandleKick, Handling, FinishMatchReturnToTitle,
       ReturnPlayersToMenu, DropInHandler, DropConnection
<1>17. CASE PollEnded
  BY <1>17 DEF PollEnded, DropConnection, FinishMatchReturnToTitle, ReturnPlayersToMenu, Phases,
     Screens
<1>18. CASE TitleTimeout
  BY <1>18 DEF TitleTimeout, Frame, cancelPendingConnect, DropConnection
<1>19. CASE JoinCannotConnect
  <2>1. attempts' \in 0 .. AttemptBound
    BY <1>19, ClientAssumption DEF JoinCannotConnect, PressesJoin
  <2>2. handle' = (link' # "none") /\ (link' = "none" => inbox' = <<>>)
    BY <1>19 DEF JoinCannotConnect, PressesJoin, Frame, DropConnection
  <2>3. QED
    BY <1>19, <2>1, <2>2 DEF JoinCannotConnect, PressesJoin, Frame, DropConnection
<1>20. CASE JoinCannotSend
  <2>1. attempts' \in 0 .. AttemptBound
    BY <1>20, ClientAssumption DEF JoinCannotSend, PressesJoin
  <2>2. handle' = (link' # "none") /\ (link' = "none" => inbox' = <<>>)
    BY <1>20 DEF JoinCannotSend, PressesJoin, Frame, DropConnection
  <2>3. QED
    BY <1>20, <2>1, <2>2 DEF JoinCannotSend, PressesJoin, Frame, DropConnection
<1>21. CASE JoinSent
  <2>1. attempts' \in 0 .. AttemptBound
    BY <1>21, ClientAssumption DEF JoinSent, PressesJoin
  <2>2. handle' = (link' # "none") /\ (link' = "none" => inbox' = <<>>)
    BY <1>21 DEF JoinSent, PressesJoin, Frame
  <2>3. QED
    BY <1>21, <2>1, <2>2 DEF JoinSent, PressesJoin, Frame
<1>22. CASE QueueFrame
  BY <1>22, ScreenOfPhase DEF QueueFrame, Frame
<1>23. CASE ReadyOffline
  BY <1>23 DEF ReadyOffline, Frame, Phases, Screens
<1>24. CASE LeaveQueue
  <2>1. phase' \in Phases /\ localPlayer' \in BOOLEAN /\ dead' \in BOOLEAN /\ others' \in BOOLEAN
    BY <1>24 DEF LeaveQueue, Frame, DropConnection, Phases
  <2>2. screen' \in Screens
    BY <1>24, <2>1, ScreenOfPhase DEF LeaveQueue, Frame, DropConnection, Screens
  <2>3. /\ handle' \in BOOLEAN /\ link' \in {"none", "up", "ended"}
        /\ handle' = (link' # "none") /\ (link' = "none" => inbox' = <<>>)
        /\ wsFlag' \in BOOLEAN /\ oldWs' \in BOOLEAN /\ session' \in {"none", "asked", "in"}
        /\ joinedServerSession' \in BOOLEAN
    BY <1>24 DEF LeaveQueue, Frame, DropConnection
  <2>4. QED
    BY <1>24, <2>1, <2>2, <2>3 DEF LeaveQueue, Frame, DropConnection
<1>25. CASE MatchEndLeave
  <2>1. phase' \in Phases /\ localPlayer' \in BOOLEAN /\ dead' \in BOOLEAN /\ others' \in BOOLEAN
    BY <1>25 DEF MatchEndLeave, LeaveSession, Frame, FinishMatchReturnToTitle,
       ReturnPlayersToMenu, DropConnection, Phases
  <2>2. screen' \in Screens
    BY <1>25, <2>1 DEF MatchEndLeave, LeaveSession, Frame, FinishMatchReturnToTitle,
       ReturnPlayersToMenu, DropConnection, Screens
  <2>3. /\ handle' \in BOOLEAN /\ link' \in {"none", "up", "ended"}
        /\ handle' = (link' # "none") /\ (link' = "none" => inbox' = <<>>)
        /\ wsFlag' \in BOOLEAN /\ oldWs' \in BOOLEAN /\ session' \in {"none", "asked", "in"}
        /\ joinedServerSession' \in BOOLEAN
    BY <1>25 DEF MatchEndLeave, LeaveSession, Frame, FinishMatchReturnToTitle,
       ReturnPlayersToMenu, DropConnection
  <2>4. QED
    BY <1>25, <2>1, <2>2, <2>3 DEF MatchEndLeave, LeaveSession, Frame, FinishMatchReturnToTitle,
       ReturnPlayersToMenu, DropConnection
<1>26. CASE PlayFrame
  BY <1>26, ScreenOfPhase DEF PlayFrame, Frame
<1>27. CASE PressEscape
  BY <1>27 DEF PressEscape, Frame, Phases, Screens
<1>28. CASE UNCHANGED clientVars
  BY <1>28 DEF clientVars
<1>29. QED
  BY <1>1, <1>2, <1>3, <1>4, <1>5, <1>6, <1>7, <1>8, <1>9, <1>10, <1>11, <1>12, <1>13, <1>14,
     <1>15, <1>16, <1>17, <1>18, <1>19, <1>20, <1>21, <1>22, <1>23, <1>24, <1>25, <1>26, <1>27,
     <1>28 DEF ClientNext, Environment, Polling, Frames

(* The session, the connection and the screens stay in step.                    *)
LEMMA SessionStep ==
    /\ BuffersOK /\ FlagsOK /\ AcceptedOnce /\ AskedAlone
    /\ JoinedIsWhole /\ NoSilentSession /\ [ClientNext]_clientVars
    => AskedAlone' /\ JoinedIsWhole' /\ NoSilentSession'
<1> SUFFICES ASSUME BuffersOK, FlagsOK, AcceptedOnce, AskedAlone,
                    JoinedIsWhole, NoSilentSession, [ClientNext]_clientVars
             PROVE  AskedAlone' /\ JoinedIsWhole' /\ NoSilentSession'
  OBVIOUS
<1> USE DEF FlagsOK, AskedAlone, JoinedIsWhole, NoSilentSession, clientVars, simVars, uiVars,
   netVars, serverVars, isConnected
<1>1. CASE AnswerJoin
  BY <1>1 DEF AnswerJoin, Arrives
<1>2. CASE RefuseJoin
  BY <1>2 DEF RefuseJoin, Arrives
<1>3. CASE RoomMoves
  BY <1>3 DEF RoomMoves, MovesTo
<1>4. CASE Broadcast
  BY <1>4 DEF Broadcast, Arrives
<1>5. CASE Kick
  BY <1>5 DEF Kick, Arrives
<1>6. CASE LinkBreaks
  BY <1>6 DEF LinkBreaks
<1>7. CASE OldWsCloses
  BY <1>7 DEF OldWsCloses
<1>8. CASE TimePasses
  BY <1>8 DEF TimePasses
<1>9. CASE PollRead
  BY <1>9 DEF PollRead
<1>10. CASE HandleJoinOk
  BY <1>10, ChunkHead DEF HandleJoinOk, Handling, AcceptedOnce
<1>11. CASE HandleJoinFail
  BY <1>11 DEF HandleJoinFail, Handling, ReturnPlayersToMenu, DropInHandler, DropConnection
<1>12. CASE HandleLobby
  BY <1>12, ChunkHead, PacketFields, ScreenOfPhase DEF HandleLobby, Handling, ApplyPacket
<1>13. CASE HandleWorldIgnored
  BY <1>13 DEF HandleWorldIgnored, Handling
<1>14. CASE HandleWorld
  BY <1>14, ChunkHead, PacketFields, ScreenOfPhase DEF HandleWorld, Handling, ApplyPacket
<1>15. CASE HandleWorldLast
  BY <1>15 DEF HandleWorldLast, Handling, ReturnPlayersToMenu, DropInHandler, DropConnection
<1>16. CASE HandleKick
  BY <1>16 DEF HandleKick, Handling, FinishMatchReturnToTitle, ReturnPlayersToMenu,
     DropInHandler, DropConnection
<1>17. CASE PollEnded
  BY <1>17 DEF PollEnded, DropConnection, FinishMatchReturnToTitle, ReturnPlayersToMenu
<1>18. CASE TitleTimeout
  BY <1>18 DEF TitleTimeout, Frame, cancelPendingConnect, DropConnection
<1>19. CASE JoinCannotConnect
  BY <1>19 DEF JoinCannotConnect, PressesJoin, Frame, DropConnection
<1>20. CASE JoinCannotSend
  BY <1>20 DEF JoinCannotSend, PressesJoin, Frame, DropConnection
<1>21. CASE JoinSent
  BY <1>21 DEF JoinSent, PressesJoin, Frame
<1>22. CASE QueueFrame
  BY <1>22, ScreenOfPhase DEF QueueFrame, Frame
<1>23. CASE ReadyOffline
  BY <1>23 DEF ReadyOffline, Frame
<1>24. CASE LeaveQueue
  <2>1. CASE isConnected
    BY <1>24, <2>1 DEF LeaveQueue, Frame, DropConnection
  <2>2. CASE ~isConnected
    <3>1. /\ UNCHANGED <<handle, link, wsFlag, inbox, chunk, session, joinedServerSession,
                          transport, connectPending>>
          /\ chunk = <<>>
      BY <1>24, <2>2 DEF LeaveQueue, Frame
    <3>2. ~joinedServerSession \/ (transport = "web" /\ ~wsFlag)
      BY <2>2
    <3>3. QED
      BY <2>2, <3>1, <3>2
  <2>3. QED
    BY <2>1, <2>2
<1>25. CASE MatchEndLeave
  BY <1>25 DEF MatchEndLeave, LeaveSession, Frame, FinishMatchReturnToTitle,
     ReturnPlayersToMenu, DropConnection
<1>26. CASE PlayFrame
  BY <1>26, ScreenOfPhase DEF PlayFrame, Frame
<1>27. CASE PressEscape
  BY <1>27 DEF PressEscape, Frame
<1>28. CASE UNCHANGED clientVars
  BY <1>28 DEF clientVars
<1>29. QED
  BY <1>1, <1>2, <1>3, <1>4, <1>5, <1>6, <1>7, <1>8, <1>9, <1>10, <1>11, <1>12, <1>13, <1>14,
     <1>15, <1>16, <1>17, <1>18, <1>19, <1>20, <1>21, <1>22, <1>23, <1>24, <1>25, <1>26, <1>27,
     <1>28 DEF ClientNext, Environment, Polling, Frames

(* Whoever is accepted is not joined: the answer is first, and nothing else joins. *)
LEMMA NoAnswerNoneAccepted ==
    ASSUME BuffersOK', NoAnswer(chunk'), NoAnswer(inbox') PROVE AcceptedOnce'
<1>1. ASSUME NEW s \in Seq(Packets), NoAnswer(s), s # <<>> PROVE s[1].kind # "JOIN_OK"
  BY <1>1, EmptySeq DEF NoAnswer, Answers
<1>2. QED
  BY <1>1 DEF BuffersOK, AcceptedOnce

LEMMA ReadingKeepsOrder ==
    ASSUME BuffersOK, AnswerFirst', AcceptedOnce, PollRead
    PROVE  AcceptedOnce'
<1> USE DEF BuffersOK
<1>0. Len(inbox) \in Nat
  OBVIOUS
<1>a. inbox # <<>> /\ UNCHANGED <<handle, joinedServerSession>>
  BY DEF PollRead, uiVars
<1>1. PICK m \in 1 .. Len(inbox) :
          /\ chunk' = SubSeq(inbox, 1, m) /\ inbox' = SubSeq(inbox, m + 1, Len(inbox))
  BY DEF PollRead
<1>2. Len(chunk') = m /\ chunk'[1] = inbox[1]
  BY <1>0, <1>1, SubSeqProperties
<1>3. chunk' # <<>>
  BY <1>2, EmptySeq
<1>4. inbox' \in Seq(Packets)
  BY <1>0, <1>1, SubSeqProperties, ElementOfSeq
<1>5. inbox' # <<>> => inbox'[1].kind # "JOIN_OK"
  BY <1>3, <1>4, EmptySeq DEF AnswerFirst, Answers
<1>6. QED
  BY <1>a, <1>2, <1>3, <1>5 DEF AcceptedOnce

LEMMA AcceptedStep ==
    ASSUME BuffersOK, FlagsOK, AcceptedOnce, AskedAlone, JoinedIsWhole,
           BuffersOK', AnswerFirst', [ClientNext]_clientVars,
           Handled => NoAnswer(chunk') /\ NoAnswer(inbox')
    PROVE  AcceptedOnce'
<1> USE DEF BuffersOK, FlagsOK, AcceptedOnce, AskedAlone, JoinedIsWhole, clientVars, simVars,
   uiVars, netVars, serverVars, isConnected
<1>1. CASE AnswerJoin
  BY <1>1 DEF AnswerJoin, Arrives
<1>2. CASE RefuseJoin
  BY <1>2 DEF RefuseJoin, Arrives
<1>3. CASE RoomMoves
  BY <1>3 DEF RoomMoves, MovesTo
<1>4. CASE Broadcast
  BY <1>4 DEF Broadcast, Arrives
<1>5. CASE Kick
  BY <1>5, PlainPacket DEF Kick, Arrives
<1>6. CASE LinkBreaks
  BY <1>6 DEF LinkBreaks
<1>7. CASE OldWsCloses
  BY <1>7 DEF OldWsCloses
<1>8. CASE TimePasses
  BY <1>8 DEF TimePasses
<1>9. CASE PollRead
  BY <1>9, ReadingKeepsOrder DEF PollRead
<1>10. CASE HandleJoinOk
  BY <1>10, NoAnswerNoneAccepted DEF Handled, HandleJoinOk, Handling
<1>11. CASE HandleJoinFail
  BY <1>11, NoAnswerNoneAccepted DEF Handled, HandleJoinFail, Handling, ReturnPlayersToMenu,
     DropInHandler, DropConnection
<1>12. CASE HandleLobby
  BY <1>12, NoAnswerNoneAccepted DEF Handled, HandleLobby, Handling, ApplyPacket
<1>13. CASE HandleWorldIgnored
  BY <1>13, NoAnswerNoneAccepted DEF Handled, HandleWorldIgnored, Handling
<1>14. CASE HandleWorld
  BY <1>14, NoAnswerNoneAccepted DEF Handled, HandleWorld, Handling, ApplyPacket
<1>15. CASE HandleWorldLast
  BY <1>15, NoAnswerNoneAccepted DEF Handled, HandleWorldLast, Handling, ReturnPlayersToMenu,
     DropInHandler, DropConnection
<1>16. CASE HandleKick
  BY <1>16, NoAnswerNoneAccepted DEF Handled, HandleKick, Handling, FinishMatchReturnToTitle,
     ReturnPlayersToMenu, DropInHandler, DropConnection
<1>17. CASE PollEnded
  BY <1>17 DEF PollEnded, DropConnection, FinishMatchReturnToTitle, ReturnPlayersToMenu
<1>18. CASE TitleTimeout
  BY <1>18 DEF TitleTimeout, Frame, cancelPendingConnect, DropConnection
<1>19. CASE JoinCannotConnect
  BY <1>19 DEF JoinCannotConnect, PressesJoin, Frame, DropConnection
<1>20. CASE JoinCannotSend
  BY <1>20 DEF JoinCannotSend, PressesJoin, Frame, DropConnection
<1>21. CASE JoinSent
  BY <1>21 DEF JoinSent, PressesJoin, Frame
<1>22. CASE QueueFrame
  BY <1>22 DEF QueueFrame, Frame
<1>23. CASE ReadyOffline
  BY <1>23 DEF ReadyOffline, Frame
<1>24. CASE LeaveQueue
  BY <1>24 DEF LeaveQueue, Frame, DropConnection
<1>25. CASE MatchEndLeave
  BY <1>25 DEF MatchEndLeave, LeaveSession, Frame, FinishMatchReturnToTitle,
     ReturnPlayersToMenu, DropConnection
<1>26. CASE PlayFrame
  BY <1>26 DEF PlayFrame, Frame
<1>27. CASE PressEscape
  BY <1>27 DEF PressEscape, Frame
<1>28. CASE UNCHANGED clientVars
  BY <1>28 DEF clientVars
<1>29. QED
  BY <1>1, <1>2, <1>3, <1>4, <1>5, <1>6, <1>7, <1>8, <1>9, <1>10, <1>11, <1>12, <1>13, <1>14,
     <1>15, <1>16, <1>17, <1>18, <1>19, <1>20, <1>21, <1>22, <1>23, <1>24, <1>25, <1>26, <1>27,
     <1>28 DEF ClientNext, Environment, Polling, Frames

-----------------------------------------------------------------------------
LEMMA InitInv == ClientInit => ClientInv
<1>1. InboxBound \in Nat /\ AttemptBound \in Nat /\ <<>> \in Seq(Packets) /\ Len(<<>>) = 0
  BY ClientAssumption
<1> SUFFICES ASSUME ClientInit PROVE ClientInv
  OBVIOUS
<1>2. BuffersOK
  BY <1>1 DEF ClientInit, BuffersOK
<1>3. FlagsOK
  <2>1. attempts \in 0 .. AttemptBound
    BY <1>1 DEF ClientInit
  <2>2. handle = (link # "none") /\ inbox = <<>>
    BY DEF ClientInit
  <2>3. QED
    BY <2>1, <2>2 DEF ClientInit, FlagsOK, Phases, Screens
<1>4. AnswerFirst /\ AcceptedOnce
  BY <1>1 DEF ClientInit, AnswerFirst, AcceptedOnce
<1>5. AskedAlone /\ JoinedIsWhole /\ NoSilentSession
  BY DEF ClientInit, AskedAlone, JoinedIsWhole, NoSilentSession
<1>6. QED
  BY <1>2, <1>3, <1>4, <1>5, TypeParts DEF ClientInv

LEMMA StepInv == ClientInv /\ [ClientNext]_clientVars => ClientInv'
<1> SUFFICES ASSUME ClientInv, [ClientNext]_clientVars PROVE ClientInv'
  OBVIOUS
<1>1. BuffersOK /\ FlagsOK /\ AnswerFirst /\ AcceptedOnce /\ AskedAlone /\ JoinedIsWhole /\ NoSilentSession
  BY TypeParts DEF ClientInv
<1>2. BufferStep
  BY EveryStepOnBuffers
<1>3. BuffersOK'
  BY <1>1, <1>2, BuffersStayOK
<1>4. AnswerFirst' /\ (Handled => NoAnswer(chunk') /\ NoAnswer(inbox'))
  BY <1>1, <1>2, AnswersStayFirst
<1>5. FlagsOK'
  BY <1>1, FlagsStep
<1>6. AskedAlone' /\ JoinedIsWhole' /\ NoSilentSession'
  BY <1>1, SessionStep
<1>7. AcceptedOnce'
  BY <1>1, <1>3, <1>4, AcceptedStep
<1>8. ClientTypeOK'
  BY <1>3, <1>5 DEF ClientTypeOK, BuffersOK, FlagsOK
<1>9. QED
  BY <1>4, <1>6, <1>7, <1>8 DEF ClientInv

(* The invariant in every reachable state.                                    *)
THEOREM ClientInvariant == ClientSpec => []ClientInv
BY InitInv, StepInv, PTL DEF ClientSpec

(* Every variable of the client has its type, there are never more packets than  *)
(* may be under way, and a connection that is gone leaves none behind.          *)
THEOREM ClientTypeCorrect == ClientSpec => []ClientTypeOK
<1>1. ClientInv => ClientTypeOK
  BY DEF ClientInv
<1>2. QED
  BY <1>1, ClientInvariant, PTL

(* A client that takes itself for joined has a connection, a player and a room.  *)
THEOREM SessionStaysWhole == ClientSpec => []SessionIsWhole
<1>1. ClientInv => SessionIsWhole
  BY DEF ClientInv, JoinedIsWhole, SessionIsWhole
<1>2. QED
  BY <1>1, ClientInvariant, PTL

(* The server holds no connection open that its client has forgotten.           *)
THEOREM NoSessionUnknown == ClientSpec => []NoSilentSession
<1>1. ClientInv => NoSilentSession
  BY DEF ClientInv
<1>2. QED
  BY <1>1, ClientInvariant, PTL

(* One step of TitleLeftByJoining.                                            *)
TitleLeft == screen = "TITLE" /\ screen' # "TITLE" => ~joinedServerSession /\ joinedServerSession'

LEMMA TitleStep ==
    ClientInv /\ [ClientNext]_clientVars => TitleLeft
<1> SUFFICES ASSUME ClientInv, [ClientNext]_clientVars
             PROVE  TitleLeft
  OBVIOUS
<1> USE DEF TitleLeft, clientVars, simVars, uiVars
<1>1. CASE AnswerJoin
  BY <1>1 DEF AnswerJoin, Arrives
<1>2. CASE RefuseJoin
  BY <1>2 DEF RefuseJoin, Arrives
<1>3. CASE RoomMoves
  BY <1>3 DEF RoomMoves, MovesTo
<1>4. CASE Broadcast
  BY <1>4 DEF Broadcast, Arrives
<1>5. CASE Kick
  BY <1>5 DEF Kick, Arrives
<1>6. CASE LinkBreaks
  BY <1>6 DEF LinkBreaks
<1>7. CASE OldWsCloses
  BY <1>7 DEF OldWsCloses
<1>8. CASE TimePasses
  BY <1>8 DEF TimePasses
<1>9. CASE PollRead
  BY <1>9 DEF PollRead
<1>10. CASE HandleJoinOk
  BY <1>10, ChunkHead, TypeParts DEF HandleJoinOk, Handling, ClientInv, AcceptedOnce
<1>11. CASE HandleJoinFail
  BY <1>11 DEF HandleJoinFail, Handling, ReturnPlayersToMenu, DropInHandler, DropConnection
<1>12. CASE HandleLobby
  BY <1>12 DEF HandleLobby, Handling, ApplyPacket, ClientInv, JoinedIsWhole
<1>13. CASE HandleWorldIgnored
  BY <1>13 DEF HandleWorldIgnored, Handling
<1>14. CASE HandleWorld
  BY <1>14 DEF HandleWorld, Handling, ApplyPacket, ClientInv, JoinedIsWhole
<1>15. CASE HandleWorldLast
  BY <1>15 DEF HandleWorldLast, Handling, ReturnPlayersToMenu, DropInHandler, DropConnection
<1>16. CASE HandleKick
  BY <1>16 DEF HandleKick, Handling, FinishMatchReturnToTitle, ReturnPlayersToMenu,
     DropInHandler, DropConnection
<1>17. CASE PollEnded
  BY <1>17 DEF PollEnded, DropConnection, FinishMatchReturnToTitle, ReturnPlayersToMenu
<1>18. CASE TitleTimeout
  BY <1>18 DEF TitleTimeout, Frame, cancelPendingConnect, DropConnection
<1>19. CASE JoinCannotConnect
  BY <1>19 DEF JoinCannotConnect, PressesJoin, Frame, DropConnection
<1>20. CASE JoinCannotSend
  BY <1>20 DEF JoinCannotSend, PressesJoin, Frame, DropConnection
<1>21. CASE JoinSent
  BY <1>21 DEF JoinSent, PressesJoin, Frame
<1>22. CASE QueueFrame
  BY <1>22 DEF QueueFrame, Frame
<1>23. CASE ReadyOffline
  BY <1>23 DEF ReadyOffline, Frame
<1>24. CASE LeaveQueue
  BY <1>24 DEF LeaveQueue, Frame, DropConnection
<1>25. CASE MatchEndLeave
  BY <1>25 DEF MatchEndLeave, LeaveSession, Frame, FinishMatchReturnToTitle,
     ReturnPlayersToMenu, DropConnection
<1>26. CASE PlayFrame
  BY <1>26 DEF PlayFrame, Frame
<1>27. CASE PressEscape
  BY <1>27 DEF PressEscape, Frame
<1>28. CASE UNCHANGED clientVars
  BY <1>28 DEF clientVars
<1>29. QED
  BY <1>1, <1>2, <1>3, <1>4, <1>5, <1>6, <1>7, <1>8, <1>9, <1>10, <1>11, <1>12, <1>13, <1>14,
     <1>15, <1>16, <1>17, <1>18, <1>19, <1>20, <1>21, <1>22, <1>23, <1>24, <1>25, <1>26, <1>27,
     <1>28 DEF ClientNext, Environment, Polling, Frames

(* No step takes the client off the title but the handling of S_JOIN_OK, by which  *)
(* it becomes joined.                                                         *)
THEOREM TitleLeftOnlyByJoining == ClientSpec => TitleLeftByJoining
<1>1. ClientInv /\ [ClientNext]_clientVars => [TitleLeft]_clientVars
  BY TitleStep
<1>2. QED
  BY <1>1, ClientInvariant, PTL DEF ClientSpec, TitleLeftByJoining, TitleLeft

=============================================================================
