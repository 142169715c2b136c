---------------------------- MODULE StreamServer ----------------------------
(***************************************************************************)
(* NetStreamServer::poll() in detail: it loops over its list of sockets      *)
(* while the packet handlers it calls close sockets and erase them from that  *)
(* list.  The module has the list with its storage, the descriptors, the      *)
(* kernel's view of every connection, the registry, and of the simulation    *)
(* who has a slot and whether joins are taken.  The room here has no players *)
(* but those of this transport.                                             *)
(*                                                                         *)
(* Between two steps of the server the clients go on sending, leaving and    *)
(* breaking off.  Framing is in StreamLink; what other packets than C_JOIN    *)
(* and C_LEAVE do is in GameServer and Combat.                              *)
(***************************************************************************)
EXTENDS Integers, Sequences, FiniteSets, SequencesExt, FiniteSetsExt

CONSTANTS
    kMaxClients,   \* sockets the server keeps; kMaxPlayers in the code
    Ids,           \* the slots of the simulation that stream players can get
    InboxBound,    \* bound: packets unread or being handled, of all connections
    EndedBound,    \* bound: connections ended and not closed by the server yet
    Posix          \* whether a send() to a dead connection raises SIGPIPE

NoId == -1
Fds == 1 .. kMaxClients     \* accept() hands out the lowest free descriptor

ASSUME StreamAssumption ==
    /\ kMaxClients \in Nat \ {0} /\ InboxBound \in Nat \ {0}
    /\ Ids \subseteq Nat /\ IsFiniteSet(Ids)
    /\ Posix \in BOOLEAN

VARIABLES
    slots,            \* storage of clientSockets; past its size old values stay
    size,             \* clientSockets.size()
    remote,           \* of each descriptor: "none" if the server has it not open;
                      \* "up"; "closed": the client has closed; "aborted": it
                      \* has reset the connection; "dead": the server was told;
                      \* "killed": the next send() ended the process
    inbox,            \* packets that have arrived and are not read
    playerIdByPeer,
    clientsByPlayerId,
    players,          \* slots taken, as the simulation sees it
    inMatch,          \* joins are refused, and a removal that leaves others in
                      \* the match is broadcast twice
    at,               \* position of the loop in slots; 0: not in poll()
    socket,           \* the loop's copy of that entry, 0 if past the end
    last,             \* end of the loop, taken when it starts
    readSet,          \* what select() found readable
    chunk,            \* packets read from that socket and not handled yet
    toRemove          \* sockets found ended in this poll()

loopVars  == <<at, socket, last, readSet, chunk, toRemove>>
listVars  == <<slots, size>>
regVars   == <<playerIdByPeer, clientsByPlayerId>>
roomVars  == <<players, inMatch>>
streamVars == <<slots, size, remote, inbox, playerIdByPeer, clientsByPlayerId,
                players, inMatch, at, socket, last, readSet, chunk, toRemove>>

Alive == \A fd \in Fds : remote[fd] # "killed"
Opened == {fd \in Fds : remote[fd] # "none"}
clientSockets == SubSeq(slots, 1, size)
Listed == ToSet(clientSockets)
Registered(fd) == playerIdByPeer[fd] # NoId

-----------------------------------------------------------------------------
(* Operations of the server.                                               *)

(* What one send() makes of a connection: the client's side answers data it  *)
(* no longer takes with a reset, now or later; the first send() after a reset *)
(* reports it, another one raises SIGPIPE.                                  *)
AfterSend(r) ==
    CASE r = "closed"  -> {"closed", "dead"}
      [] r = "aborted" -> {"dead"}
      [] r = "dead"    -> IF Posix THEN {"killed"} ELSE {"dead"}
      [] OTHER         -> {r}

AfterSends(r, n) ==
    IF n = 0 THEN {r}
    ELSE IF n = 1 THEN AfterSend(r)
    ELSE IF n = 2 THEN UNION {AfterSend(q) : q \in AfterSend(r)}
    ELSE UNION {AfterSend(p) : p \in UNION {AfterSend(q) : q \in AfterSend(r)}}

(* remote after times[fd] packets are sent to each descriptor.              *)
SendEach(kernel, times) ==
    {k \in [Fds -> {"none", "up", "closed", "aborted", "dead", "killed"}] :
        \A fd \in Fds : k[fd] \in AfterSends(kernel[fd], times[fd])}

(* broadcast(): one packet for each entry of clientsByPlayerId.              *)
BroadcastTimes(clients, n) ==
    [fd \in Fds |-> n * Cardinality({id \in Ids : clients[id] = fd})]

(* std::remove(): the entries of list that are not in gone, in their order.  *)
(* Each moves up to the place its rank among those that stay gives it.       *)
Rank(i, stay) == Cardinality({j \in stay : j <= i})
Without(list, gone) ==
    LET stay == {i \in DOMAIN list : list[i] \notin gone}
    IN  [k \in 1 .. Cardinality(stay) |-> list[CHOOSE i \in stay : Rank(i, stay) = k]]

(* clientSockets.erase(remove(..)): what follows moves up; the storage past   *)
(* the new end keeps its values.                                           *)
Erase(fd, list) ==
    LET kept == Without(SubSeq(list.slots, 1, list.size), {fd})
    IN  [slots |-> kept \o SubSeq(list.slots, Len(kept) + 1, Len(list.slots)),
         size |-> Len(kept)]

List == [slots |-> slots, size |-> size]
SetList(list) == slots' = list.slots /\ size' = list.size

Closed(kernel, fd) == [kernel EXCEPT ![fd] = "none"]

(* unregisterPeer(): the entry of the peer's id goes, whoever it is.          *)
WithoutPeer(fd) ==
    IF Registered(fd) THEN [clientsByPlayerId EXCEPT ![playerIdByPeer[fd]] = 0]
    ELSE clientsByPlayerId

(* removePlayer(): when nobody is left the room is IDLE again, in any phase.  *)
RemovePlayer(id) ==
    /\ players' = players \ {id}
    /\ inMatch' = (inMatch /\ players' # {})

\* The lobby, and the world too if a match still goes on after the removal.
EndBroadcasts(goesOn) == IF goesOn THEN 2 ELSE 1

FreeIds == Ids \ players
LowestId == Min(FreeIds)
LowestFree == Min(Fds \ Opened)

-----------------------------------------------------------------------------
StreamInit ==
    /\ slots = <<>> /\ size = 0
    /\ remote = [fd \in Fds |-> "none"]
    /\ inbox = [fd \in Fds |-> <<>>]
    /\ playerIdByPeer = [fd \in Fds |-> NoId]
    /\ clientsByPlayerId = [id \in Ids |-> 0]
    /\ players = {} /\ inMatch = FALSE
    /\ at = 0 /\ socket = 0 /\ last = 0 /\ readSet = {} /\ chunk = <<>> /\ toRemove = {}

(* The clients.  They act at any time; during a poll() that matters only for  *)
(* the socket that is being read, since what another one does then is seen as *)
(* if it had come before this poll() or after it.                           *)

MayEnd == Cardinality({fd \in Fds : remote[fd] \notin {"none", "up"}}) < EndedBound

Acts(fd) == at = 0 \/ socket = fd

ClientSends(fd, packet) ==
    /\ Acts(fd) /\ remote[fd] = "up"
    /\ Len(FlattenSeq(inbox)) + Len(chunk) < InboxBound
    /\ inbox' = [inbox EXCEPT ![fd] = Append(@, packet)]
    /\ UNCHANGED <<remote, listVars, regVars, roomVars, loopVars>>

ClientCloses(fd) ==
    /\ Acts(fd) /\ remote[fd] = "up" /\ MayEnd
    /\ remote' = [remote EXCEPT ![fd] = "closed"]
    /\ UNCHANGED <<inbox, listVars, regVars, roomVars, loopVars>>

(* The client's end is lost, or it closes with data it has not read.         *)
ConnectionResets(fd) ==
    /\ Acts(fd) /\ remote[fd] = "up" /\ MayEnd
    /\ remote' = [remote EXCEPT ![fd] = "aborted"]
    /\ UNCHANGED <<inbox, listVars, regVars, roomVars, loopVars>>

(* poll().                                                                 *)

Readable(fd) == inbox[fd] # <<>> \/ remote[fd] # "up"

(* On to the next position, from there on, whose socket select() found         *)
(* readable, or past the end.                                               *)
GoOn(from, storage, readable) ==
    LET next == {i \in from .. Len(storage) : storage[i] \in readable}
    IN  IF next = {} THEN at' = kMaxClients + 1 /\ socket' = 0
        ELSE at' = Min(next) /\ socket' = storage[at']

Advance == GoOn(at + 1, SubSeq(slots, 1, last), readSet)

(* select(), and one accept() if there is room; the new socket is not among   *)
(* those found readable.                                                   *)
PollStart(accepts) ==
    /\ Alive /\ at = 0
    /\ readSet' = {fd \in Listed : Readable(fd)}
    /\ accepts \/ readSet' # {}
    /\ IF accepts
       THEN /\ size < kMaxClients
            /\ slots' = Append(clientSockets, LowestFree) /\ size' = size + 1
            /\ remote' = [remote EXCEPT ![LowestFree] = "up"]
            /\ inbox' = [inbox EXCEPT ![LowestFree] = <<>>]
       ELSE UNCHANGED <<listVars, remote, inbox>>
    /\ GoOn(1, clientSockets, readSet') /\ last' = size'
    /\ UNCHANGED <<regVars, roomVars, chunk, toRemove>>

Scanning == Alive /\ at \in 1 .. last /\ chunk = <<>>

\* Mutated form: a socket that has no more data ends the loop.
PollSkipStops ==
    /\ Scanning /\ remote[socket] = "up" /\ inbox[socket] = <<>>
    /\ at' = kMaxClients + 1 /\ socket' = 0
    /\ UNCHANGED <<remote, inbox, listVars, regVars, roomVars, last, readSet, chunk, toRemove>>

\* recv() would block: on to the next socket found readable.
PollSkip ==
    /\ Scanning /\ remote[socket] = "up" /\ inbox[socket] = <<>>
    /\ Advance
    /\ UNCHANGED <<remote, inbox, listVars, regVars, roomVars, last, readSet, chunk, toRemove>>

(* recv() returns some of the packets that are there.                        *)
PollRead ==
    /\ Scanning
    /\ socket \in Opened /\ inbox[socket] # <<>>
    /\ \E n \in 1 .. Len(inbox[socket]) :
         /\ chunk' = SubSeq(inbox[socket], 1, n)
         /\ inbox' = [inbox EXCEPT ![socket] = SubSeq(@, n + 1, Len(@))]
    /\ UNCHANGED <<remote, listVars, regVars, roomVars, at, socket, last, readSet, toRemove>>

\* Mutated form: the peer is forgotten before the simulation is told.
PollEndedUnregistersFirst ==
    /\ Scanning
    /\ inbox[socket] = <<>> /\ remote[socket] # "up"
    /\ clientsByPlayerId' = WithoutPeer(socket)
    /\ playerIdByPeer' = [playerIdByPeer EXCEPT ![socket] = NoId]
    /\ toRemove' = toRemove \cup {socket}
    /\ Advance
    /\ UNCHANGED <<remote, roomVars, inbox, listVars, last, readSet, chunk>>

(* recv() reports the end of the connection, an error, or that a handler has  *)
(* closed the descriptor.  The player is removed and the others are told, the *)
(* ended connection among them, which is unregistered only then.             *)
PollEnded ==
    /\ Scanning
    /\ inbox[socket] = <<>> /\ remote[socket] # "up"
    /\ LET fd == socket
           told == [remote EXCEPT ![fd] = IF @ = "aborted" THEN "dead" ELSE @]
       IN  /\ IF Registered(fd)
              THEN /\ RemovePlayer(playerIdByPeer[fd])
                   /\ remote' \in SendEach(told,
                        BroadcastTimes(clientsByPlayerId, EndBroadcasts(inMatch')))
              ELSE UNCHANGED roomVars /\ remote' = told
           /\ clientsByPlayerId' = WithoutPeer(fd)
           /\ playerIdByPeer' = [playerIdByPeer EXCEPT ![fd] = NoId]
           /\ toRemove' = toRemove \cup {fd}
    /\ Advance
    /\ UNCHANGED <<inbox, listVars, last, readSet, chunk>>

Handling(packet) == Alive /\ chunk # <<>> /\ Head(chunk) = packet

(* C_JOIN that gets a slot: the answer, then the lobby to all.               *)
HandleJoin ==
    /\ Handling("JOIN")
    /\ LET fd == socket
           id == LowestId
       IN  /\ ~Registered(fd) /\ ~inMatch /\ FreeIds # {}
           /\ players' = players \cup {id}
           /\ playerIdByPeer' = [playerIdByPeer EXCEPT ![fd] = id]
           /\ clientsByPlayerId' = [clientsByPlayerId EXCEPT ![id] = fd]
           /\ LET all == BroadcastTimes(clientsByPlayerId', 1)
              IN  remote' \in SendEach(remote, [all EXCEPT ![fd] = @ + 1])
    /\ chunk' = Tail(chunk)
    /\ UNCHANGED <<inMatch, inbox, listVars, at, socket, last, readSet, toRemove>>

(* C_JOIN that is refused: answered, and closed on the spot.                 *)
HandleJoinRefused ==
    /\ Handling("JOIN")
    /\ ~Registered(socket)
    /\ inMatch \/ FreeIds = {}
    /\ \E r \in AfterSend(remote[socket]) :
         remote' = [remote EXCEPT ![socket] = IF r = "killed" THEN r ELSE "none"]
    /\ inbox' = [inbox EXCEPT ![socket] = <<>>]
    /\ SetList(Erase(socket, List))
    /\ chunk' = Tail(chunk)
    /\ UNCHANGED <<regVars, roomVars, at, socket, last, readSet, toRemove>>

(* C_LEAVE of a player: the slot is freed, the socket closed, the others told. *)
HandleLeave ==
    /\ Handling("LEAVE")
    /\ Registered(socket)
    /\ RemovePlayer(playerIdByPeer[socket])
    /\ clientsByPlayerId' = WithoutPeer(socket)
    /\ playerIdByPeer' = [playerIdByPeer EXCEPT ![socket] = NoId]
    /\ remote' \in SendEach(Closed(remote, socket),
                            BroadcastTimes(clientsByPlayerId', EndBroadcasts(inMatch')))
    /\ inbox' = [inbox EXCEPT ![socket] = <<>>]
    /\ SetList(Erase(socket, List))
    /\ chunk' = Tail(chunk)
    /\ UNCHANGED <<at, socket, last, readSet, toRemove>>

(* A second C_JOIN, or C_LEAVE of somebody who has not joined.               *)
HandleIgnored ==
    /\ chunk # <<>> /\ Alive
    /\ Head(chunk) = (IF Registered(socket) THEN "JOIN" ELSE "LEAVE")
    /\ chunk' = Tail(chunk)
    /\ UNCHANGED <<remote, inbox, listVars, regVars, roomVars, at, socket, last, readSet, toRemove>>

\* Mutated form: what ended is closed, and stays in the list.
PollEndNoErase ==
    /\ Alive /\ at > last /\ at > 0 /\ chunk = <<>>
    /\ slots' = clientSockets
    /\ remote' = [fd \in Fds |-> IF fd \in toRemove THEN "none" ELSE remote[fd]]
    /\ at' = 0 /\ socket' = 0 /\ last' = 0 /\ readSet' = {} /\ toRemove' = {}
    /\ UNCHANGED <<size, inbox, regVars, roomVars, chunk>>

(* The sockets found ended are closed and erased; poll() returns.            *)
PollEnd ==
    /\ Alive /\ at > last /\ at > 0 /\ chunk = <<>>
    /\ LET kept == Without(clientSockets, toRemove)
       IN  slots' = kept /\ size' = Len(kept)
    /\ remote' = [fd \in Fds |-> IF fd \in toRemove THEN "none" ELSE remote[fd]]
    /\ at' = 0 /\ socket' = 0 /\ last' = 0 /\ readSet' = {} /\ toRemove' = {}
    /\ UNCHANGED <<inbox, regVars, roomVars, chunk>>

(* The main loop between two polls.                                         *)

(* A tick's broadcast; a match may start with it.                            *)
Tick(starts) ==
    /\ Alive /\ at = 0
    /\ remote' \in SendEach(remote, BroadcastTimes(clientsByPlayerId, 1))
    /\ IF starts THEN players # {} /\ inMatch' = TRUE ELSE inMatch' = inMatch
    /\ UNCHANGED <<inbox, listVars, regVars, players, loopVars>>

(* The tick that ends a match: S_KICK to everybody registered, and each is    *)
(* closed but not unregistered.                                            *)
Kick ==
    /\ Alive /\ at = 0 /\ inMatch
    /\ LET kicked == {clientsByPlayerId[id] : id \in Ids} \ {0}
           kept == Without(clientSockets, kicked)
       IN  /\ \E after \in SendEach(remote, BroadcastTimes(clientsByPlayerId, 2)) :
                remote' = [fd \in Fds |->
                    IF fd \in kicked /\ after[fd] # "killed" THEN "none" ELSE after[fd]]
           /\ inbox' = [fd \in Fds |-> IF fd \in kicked THEN <<>> ELSE inbox[fd]]
           /\ slots' = kept /\ size' = Len(kept)
    /\ players' = {} /\ inMatch' = FALSE
    /\ UNCHANGED <<regVars, loopVars>>

PollStep ==
    \/ PollSkip \/ PollRead \/ PollEnded \/ PollEnd
    \/ HandleJoin \/ HandleJoinRefused \/ HandleLeave \/ HandleIgnored

StreamNext ==
    \/ \E fd \in Fds :
         \/ \E packet \in {"JOIN", "LEAVE"} : ClientSends(fd, packet)
         \/ ClientCloses(fd) \/ ConnectionResets(fd)
    \/ \E b \in BOOLEAN : PollStart(b) \/ Tick(b)
    \/ PollStep
    \/ Kick

StreamSpec == StreamInit /\ [][StreamNext]_streamVars

(* The main loop calls poll() again and again, a poll() goes on by itself, and *)
(* it reads faster than a client sends.                                     *)
FairStreamSpec ==
    /\ StreamSpec
    /\ WF_streamVars(\E b \in BOOLEAN : PollStart(b))
    /\ WF_streamVars(PollStep) /\ SF_streamVars(PollSkip)

-----------------------------------------------------------------------------
(* Properties.                                                             *)

StreamTypeOK ==
    /\ slots \in Seq(Fds) /\ size \in 0 .. Len(slots) /\ Len(slots) <= kMaxClients
    /\ remote \in [Fds -> {"none", "up", "closed", "aborted", "dead", "killed"}]
    /\ inbox \in [Fds -> Seq({"JOIN", "LEAVE"})]
    /\ playerIdByPeer \in [Fds -> Ids \cup {NoId}]
    /\ clientsByPlayerId \in [Ids -> Fds \cup {0}]
    /\ players \subseteq Ids /\ inMatch \in BOOLEAN
    /\ at \in 0 .. kMaxClients + 1 /\ socket \in Fds \cup {0} /\ last \in 0 .. kMaxClients
    /\ readSet \subseteq Fds /\ toRemove \subseteq Fds /\ chunk \in Seq({"JOIN", "LEAVE"})

(* Whatever handlers did to the list while poll() was looping over it, when   *)
(* it returns the list has each open descriptor once and nothing else.        *)
ListIsOpenSockets ==
    Alive /\ at = 0 => Listed = Opened /\ Cardinality(Listed) = size

(* When poll() returns, nobody has a slot without a connection on the list   *)
(* that is registered for it: not even one who left and joined in one read,   *)
(* and was registered for a socket that was closed already.                  *)
NoOrphanPlayers ==
    Alive /\ at = 0 => \A id \in players : \E fd \in Listed : playerIdByPeer[fd] = id

(* A socket may be passed over when one before it is erased, but what it has  *)
(* sent is read, or its connection ends.                                    *)
EverybodyIsServed ==
    \A fd \in Fds :
        (Alive /\ inbox[fd] # <<>>)
            ~> (~Alive \/ remote[fd] = "none" \/ (chunk # <<>> /\ socket = fd))

-----------------------------------------------------------------------------
(* PLAN.md names two ways for a match to end: its timer, and that no living   *)
(* player remains.  The end of one client's connection is not one of them:   *)
(* the server outlives it, and the match goes on.                           *)
MatchOutlivesClients == inMatch => Alive
=============================================================================
