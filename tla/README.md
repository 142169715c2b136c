# TopDownSurvive: verification of the online match

TLA+ models of this repository's online game, checked with TLC and proved about
with TLAPS. The game is a top-down survival game: up to `kMaxPlayers` players
join a server's queue, press Ready, survive waves of enemies for five minutes,
see the winners and are sent back to the menu. They connect over ENet, over a
stream of length-prefixed packets on TCP, or from a browser over a WebSocket
that a relay joins to such a stream.

## The system

| Component | State it keeps | Operations | Talks to |
|---|---|---|---|
| **Match life cycle**: `GameSimulation` (slots and phases), `PlayerSlot.h`, `GameConfig.h` | `players` (slot flags, color, alive), `phase`, three timers, `localPlayerId`, `spectateTargetId` | `tryJoinQueue`, `removePlayer`, `pressReadyForPlayer`, `spectateForPlayer`, `tickMatchFlow`, `returnPlayersToMenu` | called by the server's handlers and main loop; offline by `main.cpp` |
| **Game server**: `server_main.cpp`, `NetGameHost`, `NetServer`, `NetStreamServer` | per transport `clientsByPlayerId`, `playerIdByPeer`, sockets; `matchEndHandled` | one handler per client packet, the disconnect handler, tick, broadcast, kick | the simulation (calls), the clients (packets) |
| **Combat and gameplay**: `GameSimulation::tickServer`, `Character`, `Enemy`, `Thunderstrike`, `Pickup` | enemies, strikes, pickups, health, kills, last inputs | input, sword, thunder, contact damage, waves, winners | the match life cycle (deaths end the match) |
| **Stream transport**: `NetFraming.h`, `NetStreamSocket.h`, `NetStreamServer`, `NetStreamClient` | send and receive buffers of both ends, the server's list of sockets | `encodeFrame`, `feed`, `send`, `poll`, `flush`, close, erase | packet handlers inside `poll()` |
| **ENet**: `thirdparty/enet` | per peer its state, session ids, sequence numbers, queues of commands | connect, verify, acknowledge, disconnect, reset, timeouts, events | the two hosts, over datagrams |
| **State synchronisation**: `buildWorldStatePacket`, `applyWorldStatePacket`, lobby packets, snapshot buffer, prediction | `worldStateTick` and `lastWorldStateTick`, snapshots, `awaitingSpawnSync`, predicted strikes | build, apply, prune, predict, reset | server to client |
| **Client application**: `main.cpp`, `NetSession`, `NetClient`, `NetStreamClient`, `NetWebSession` | screen, session, pending join | join, leave, ready, spectate, packet handlers, time-outs | the server |
| **Map generation**: `TileMap`, `GameSimulation::init` | grids of water and dirt | cellular automaton, island removal, clean-up, clearing | the simulation, once per seed |
| **Relay**: `relay/index.js` | one TCP socket per WebSocket | open, forward, close | browser clients, stream server |

Drawing, sound, touch controls and deployment scripts hold no state a property
depends on.

Server and client are single threaded. `poll()` runs one handler after another
to its end, then the main loop runs what is due. What makes the system hard is
not threads but order: packets and ends of connections arrive in any order
relative to each other and to the ticks; handlers close connections inside the
loop that calls them; a connection the server closes on ENet is reported as
ended later; datagrams of an earlier connection arrive in a later one; peers,
descriptors, addresses and slots are reused; connections break and servers
restart at any moment; and a few latches and ids outlive a match.

What makes each component correct:

* *Match life cycle*: the room never holds more than it can, colors are
  unique, IDLE means empty, a start has a quorum, a match's roster only
  shrinks and sends everybody home in the end, kept ids name somebody.
* *Game server*: whoever is in the room has a connection whose end frees the
  slot; registered peers and players correspond; every match end lets everyone
  join again.
* *Combat*: a kill is credited once, a strike is paid for and is its caster's
  only one, enemies chase those who play.
* *Stream transport*: any chunking of the bytes yields the packets sent, in
  order, none from an earlier connection, and none waits; no socket is lost or
  passed over for ever although handlers change the list that is looped over.
* *ENet*: both games see CONNECT, packets, DISCONNECT of one connection at a
  time, and every peer comes free again.
* *Synchronisation*: no newer state is dropped and no older one applied, the
  copy converges to the server's room, and whoever plays has the server's map
  and place.
* *Client*: every attempt to join ends in the queue or at the title; a lost
  session ends there too.
* *Map generation*: all land is one mass.

`PROJECT.json` lists the hazards at their lines, with the properties that
cover them.

## The modules

| Module | Models |
|---|---|
| `MatchRoom` | abstract: a room with a capacity, a quorum, contestants and survivors |
| `MatchFlow` | the match life cycle as the server drives it; implements `MatchRoom` |
| `GameServer` | `MatchFlow` (by `EXTENDS`) with the registries, handlers and connections of both transports |
| `Combat` | `MatchFlow` (by `EXTENDS`) with inputs, sword, thunderstrikes, enemies and kills |
| `PacketFifo` | abstract: two queues of packets between two ends, emptied when the connection ends |
| `StreamLink`, `MCStreamLink` | one stream connection byte by byte; implements `PacketFifo` |
| `StreamServer` | `NetStreamServer::poll()` with its list of sockets and the handlers that change it |
| `PeerEvents` | abstract: the events of `enet_host_service()` the game relies on |
| `EnetSession` | a client and a server of ENet over a network that loses, repeats and delays; implements `PeerEvents` |
| `Client` | screens, session and connection of the online client on all three transports |
| `WorldSync` | the server's room (`MatchRoom`, by `EXTENDS`), its packets and the client's copy |
| `MapGen` | the generation of the map on a small grid |
| `MatchFlowProofs`, `GameServerProofs`, `CombatProofs`, `StreamLinkProofs`, `StreamServerProofs`, `ClientProofs`, `EnetProofs`, `WorldSyncProofs` | theorems about the module they are named for |

The layers fit together through the abstract modules. `GameServer` and `Combat`
are `MatchFlow` with more state: each of their actions contains one of
`MatchFlow` or leaves its variables alone, so what is proved of `MatchFlow` holds
of them by construction. `WorldSync` uses `MatchRoom`, the room `MatchFlow`
implements, for the server, and a channel that keeps order, which `StreamLink`
(`PacketFifo`) and `EnetSession` (`PeerEvents`) provide. `GameServer` takes
from ENet what `PeerEvents` says, and `StreamServer` takes whole packets from
`StreamLink`.

### MatchFlow

The vector `players` is its size `numPlayers` and one set of slot indices per
Boolean field: `i \in inQueue` is `players[i].slot.inQueue`, `i \in alive` is
`players[i].character.getAlive()`. Vacated slots stay in the vector, and keep
their `alive` flag, until `returnPlayersToMenu()` clears it.

| Action | Code |
|---|---|
| `TryJoinQueue` | `tryJoinQueue(name, true, ..)`, accepted; a refusal changes nothing |
| `RemovePlayer(p)` | `removePlayer`, for any index of the vector, connected or not |
| `PressReadyForPlayer(p)` | `pressReadyForPlayer`, with `placePlayersAtSpawn` when the last one is ready |
| `SpectateForPlayer(d)` | `spectateForPlayer`, `spectateNext`, `spectatePrev` |
| `TickCountdown`, `StartMatch`, `TickMatch`, `EndMatch`, `TickResults`, `ReturnPlayersToMenu` | one iteration of the tick loop in `server_main.cpp`: `tickServer`, the kick, the latch; split by phase |

Abstractions: time is counted in ticks. Positions, enemies, health and damage
are reduced to the set of players a tick kills (`TickMatch(dead)`), any set of
living players, since contact damage can kill several in one tick; the tick
that starts the match kills nobody, as everyone placed has full health.
`kills`, names and status texts are left out.

`MatchRoom` lets members come in until the moment the match begins, as the code
does, and keeps as contestants those the start was announced with. That late
joiners do not play is a step of the abstract room as well; `lobby_as_planned`
holds it against `PLAN.md`.

### GameServer

A *peer* is what the registries are keyed by: an `ENetPeer` of the host's fixed
array, or a socket descriptor. `conn[peer]` is `"free"`, `"open"` (connected,
not joined), `"joined"` (was answered `S_JOIN_OK`) or, on ENet only,
`"closing"` (the server asked for a disconnect that ENet has not reported yet).
From ENet the model takes: packets are delivered only while connected; a
disconnect, by either side or by timeout, is eventually reported by one event
and may be reported at any time; the peer structure is reused afterwards.
`disconnectPeer()` on a stream socket closes it at once, no event follows, and
the descriptor is free to be accepted again.

`HandleJoin`, `HandleJoinRefused`, `HandleReady`, `HandleLeave` and
`HandleSpectate` are the cases of `handleServerPacket`; `HandleDisconnect` is
the DISCONNECT case of either `poll()` with the handler `server_main.cpp`
installs; `TickOnly` and `KickEverybody` are the main loop's ticks. Packets to
clients are left out, as are `C_INPUT` and the container `poll()` iterates
over. `kicked` is a history variable: TRUE once a match has ended. `MatchFlow` is
checked here, under the callers it has: they go through every one of its
actions, also `removePlayer` for a slot whose player is gone (a stale
registration).

### Combat

One tick of gameplay, `Gameplay(f, waves, dead)`, is what `tickServer` does
after `tickMatchFlow`, all of it in one step: swords and casts of the living in
slot order, the strikes, a wave, retargeting, contact damage, the removal of
the dead. `f` is the field it starts from: the present one in `Fight`, and in
`Start` what `resetMatchState()` and the first two spawns leave, since
`startMatch()` and the first gameplay happen in the same call.

| Action | Code |
|---|---|
| `Join`, `Leave`, `PressReady`, `Spectate`, `QuietTick`, `BackToMenu` | the actions of `MatchFlow`, with what they do to characters, kills and the field |
| `SetRemoteInput(p, pressed)` | the `C_INPUT` handler and `setRemoteInput`, in any phase and also for a slot whose player is gone |
| `Start`, `Fight` | `tickServer` in the tick that starts a match, and in the following ones |

An enemy is its id. Which enemies a sword or a bolt reaches, whether a spawn
finds a place, and whom contact kills are choices, as positions are left out;
`Combat` therefore shows nothing about ranges, movement, health or pickups. A
strike is its owner and the ticks it has lasted, in place of its animation
frames. The round robin of new targets is any living contestant. Each enemy in
`enemies` is alive, because every tick ends with `removeDeadEnemies()`.
`remoteInputs` always equals `lastRemoteInputs` where the code reads it.
`hitsSpent` is a history variable: the hits paid for strikes in this match.

### PacketFifo and StreamLink

A packet becomes `<<length / ByteBase, length % ByteBase>>` and its bytes.
`snd`, `net` and `rcv` are the send buffer, the kernel's bytes and the receive
buffer of each direction; `ClientSend`, `ServerSend` and `RelayWrites` write as
much as the kernel takes, `Receive(d)` is one `recv()` with `feed()`, which
gives every whole packet to the handler. `ClientDone` and `ServerDone` end a
`poll()`: the client sends what is left over only there, and only after it has
received something. What comes from a client is sent by one of two ends.
`ClientSend` is the desktop's `NetStreamClient::send()`, which refuses packets
above `kMaxPayload`, as the server does. `RelayForwards` is the relay's
`writeFrame`, which does not look at the limit: a longer message would reach the
server as a frame `feed()` drops its buffer for. `BrowserPackets` are what the
browser may send; `BrowserAssumption` says they are within the limit, because
the game in the browser sends fixed structs of some forty bytes. `Break`,
`ClientDisconnect` and the server's close end the connection at any byte, and
another one follows between the same ends. `Feed`, a recursive function, is
`feed()`; the refinement reads the queues of `PacketFifo` off the bytes that are
still on their way.

### StreamServer

`slots` is the storage of the vector `clientSockets` and `size` its size: the
loop of `poll()` keeps an iterator and an end it took at its start, and reads
storage past the new end when a handler has erased an entry (with the library
this is built with it finds old values there, which is what the model has).
`PollStart` is `select()`, then one step per packet handled (`PollStep`), with
`C_JOIN` and `C_LEAVE` as the handlers of `server_main.cpp` treat them, and
`PollEnd` the removal of sockets that were found ended. Between any two of them
clients send, close and reset. `PollSkip` is the `recv()` that finds nothing
more, after which the loop goes on to the next socket `select()` reported.
`inMatch` and the two broadcasts of a tick end with the last player, as
`removePlayer()` turns the room IDLE at once; the players are those of this
transport alone.
`Without(list, gone)` is `std::remove`: each entry that stays moves to the place
its `Rank` among those that stay gives it.

### EnetSession

`peer[e]` is an `ENetPeer` of the server or the one of the client; the actions
are the functions of `protocol.c` and `peer.c` named beside them, for the
commands CONNECT, VERIFY_CONNECT, ACKNOWLEDGE, DISCONNECT and SEND_RELIABLE.
`net` is the set of all datagrams ever sent, any of which may arrive at any
time, never or again. Connections of one client follow one another from fresh
or used addresses; the server disconnects, kicks, or is left without a word.

The session ids have two bits and each of the server's peers counts its own, so
that an address may be given an id it had before: at once by another peer, since
every peer's first id is 0, or by the same peer after four connections. A
datagram of the earlier connection that is still under way is then taken for one
of the new one; ENet cannot tell them apart. Nothing in the model prevents it.
The history variable `idRepeated` becomes TRUE when a `HandleConnect` gives an
address an id it had (`HadId`), and `IsPeerEvents` and `ConnectIsMutual` say what
holds until then; afterwards the events at each end still alternate
(`MixedNext` of `PeerEvents`), but packets and acknowledgements may be another
connection's. `PeersAreFreed`, `ClientIsTold` and `EventsMatchPeers` hold with it
and without. `ConnectBound` bounds the run and nothing else; the proofs are for
any value.

### Client

Variables and screens are those of `main.cpp`. `Polling` is `poll()` of the
transport, packet by packet with the handler's whole effect; `JoinSent`,
`LeaveQueue`, `PlayFrame` and the other frames are one iteration of the main
loop with what the player presses. The server is an environment that answers a
join once, then sends lobby and world packets in the order of phases a room can
have, and kicks. `crashed` is set where `NetClient::poll()` goes on with the
host that a handler has destroyed.

### WorldSync

One client is observed; others join and leave beside it. `chan` holds the
packets on their way, `link` the player the client is to the server, `sim` the
client's copy. `ReceiveLobbySync` and `ReceiveWorldState` are the handlers with
`applyLobbySyncPacket` and `applyWorldStatePacket`; each of the sub-steps of
the latter (phase and prewarm, slots, spawn position, strikes, snapshot) is an
operator of its own. `ServerRestarts` is a new server process, with another map
seed and numbers from zero. `S_KICK` is left out, because no client ever
handles it: over streams the last world state, which comes before it, ends the
session, and over ENet `enet_peer_disconnect()` empties the queue it is in.

### MapGen

The grid is 17 by 9 with a clearing of radius 1, in place of 48 by 48. The
noise is a rectangle of dry cells at the left border, a choice that suffices
for the finding; runs of the same algorithm with 400 of the code's own seeds
gave two maps with that fault.

## Runs

| Run | Question | Bounds |
|---|---|---|
| `game_server` | do the match flow and the registries keep their promises, over any number of matches? | 2 slots, quorum 1 (the debug build's), 2 ENet peers, 1 descriptor, timers of 2 ticks, kick with less than 1 left; 103,970 states |
| `combat` | do the five properties of the fight hold? | 2 slots, quorum 2, match of 3 ticks, other timers 1; a charge is 1 hit, a strike hits at age 2 and ends at 3; 2 enemies at once, 3 in a match; buttons: none or both; 704,104 states |
| `stream_link` | do bytes become packets, whole and in order? | bytes 0 and 1, payloads of 1 to 3 bytes of which 2 fit, 4 bytes in the kernel and in a read; 46,563 states |
| `stream_server` | does `poll()` survive its own handlers? | 3 sockets, 1 slot, 2 packets unread, 1 connection ended and not closed; 355,591 states |
| `enet_session` | does ENet give the game the events it is written for? | 2 peers, 2 addresses, 2 attempts, 1 packet each way, 2 CONNECTs accepted; 279,926 states |
| `client` | does every attempt and every session end, and no packet start one? | all three transports, 2 packets unread, 2 presses of Join; 2,163,622 states |
| `world_sync` | does the copy follow the server's room? | 2 members, quorum 1, numbers modulo 3, 3 snapshots wanted and kept, strikes of 1 frame, 2 packets on their way, 1 restart; 442,404 states |
| `lobby_as_planned` | `PLAN.md:333-354`: is Ready offered to a full enough lobby, and does everybody in the room play? **Neither** | 3 slots, quorum 2, timers of 2 |
| `join_after_match` | `PLAN.md:483`: can a kicked player join again? **Not always** | as `game_server` |
| `match_outlives_clients` | `PLAN.md:477`: does the match go on when a client breaks off? **Not on Linux** | 2 sockets, 2 slots |
| `refusal_stays_on_menu` | `PLAN.md:138`: does a refused client stay on its menu? **Not over ENet** | as `client` |
| `one_land_mass` | `MAP_GENERATION.md:68`: is all land connected? **Not after the clearing** | 17 x 9 cells |

The bounds. In `game_server` two slots with three peers of two kinds allow a
full room with one more at the door, a kicked peer whose end is still
unreported, a newcomer on the same transport and one on the other, a slot freed
below an occupied one and its reuse; a quorum of 1 lets a join happen during a
countdown although there are only two slots, and a countdown be aborted and
started again. (With a quorum of 2 and three slots the properties hold too.)
Timers of two ticks have a tick that does not end the phase and one that does;
`KickTicks` 1 of 2 separates a results tick from the one that kicks. More slots,
and the spectator's ring of three, are left to the proofs: all of the ten
properties but `MatchEmptiesRoom` are theorems. In `combat` two players and two
enemies are enough for a sword and a bolt to meet on one enemy, for a wave to
fill the last place while a slain enemy still holds one, and for an enemy to
change from a dead target to a living one; three ticks let a strike hit, end and
be followed by another cast; the room fills and empties again, so inputs and
kills of one match meet the next. In `stream_link` a frame is longer than the
kernel's buffer, so that a write, a length and a payload are all cut. Three
sockets let a handler erase an entry with others before and behind it. Two
attempts and two peers of ENet let every datagram of a connection meet the next
one, at the same peer or another, from the same address or another (addresses
are interchangeable, so the first connection's is fixed). In `world_sync` a
number wraps around within a match and snapshots are pruned below the number the
client waits for; a channel of 2 holds the two packets of a start.
`stream_server` has `Posix = FALSE`: with SIGPIPE the server process ends in the
case `match_outlives_clients` shows, and nothing is left to ask. The proofs need
none of these bounds.

What the passing properties say, beyond their comments in the modules:

* `ColorsDistinct`, `IdleIffEmpty`, `StartQuorum`, `KeptIdsConnected`: each
  relates state that different operations write.
* `MatchEmptiesRoom`: once a match has begun the room is empty at last, whoever
  leaves or dies meanwhile and whatever the match before has left in the latch of
  the kick. Of a lobby it says nothing: those a called-off countdown leaves
  behind may wait for ever (finding 5).
* `ImplementsRoom`: while the room is open its contestants are empty by
  definition of the mapping: players that an aborted countdown left `inMatch`
  are no contestants.
* `NoGhostPlayers` holds even among stale registrations; `RegistriesAgree`: the
  converse fails after a kick; `OneToOneInFirstMatch`: until the first kick the
  correspondence is exact, and `join_after_match` shows that it cannot be
  promised for longer.
* `KillsEarned`: kills of those in the match and living enemies never exceed the
  enemies spawned, so that no kill counts twice or survives into a new match.
  `StrikesPaid`: a strike costs a charge, and a charge is kills by the sword.
  `EnemiesChaseContestants`: after a tick nobody is chased who was dead or gone
  when it began.
* `IsPacketFifo` (safety) and `PacketsGetThrough` (liveness) of the link;
  `NoPacketWaits`: `feed()` leaves no whole packet behind.
* `ListIsOpenSockets`, `NoOrphanPlayers`, `EverybodyIsServed`: at the end of
  every `poll()` the list is right, nobody holds a slot without a connection,
  and a socket that was passed over gets its turn. They are about a server
  that lives (`Alive`): one that SIGPIPE ended does nothing any more, and in the
  run there is none.
* `IsPeerEvents`, `EventsMatchPeers`, `ConnectIsMutual`, `PeersAreFreed`,
  `ClientIsTold`: the contract of ENet as the game's code presumes it, the second
  sentence of it (whose packets these are) until ids coincide.
* `SessionIsWhole`, `NoSilentSession`, `TitleLeftByJoining`, `AttemptsEnd`,
  `LostSessionEnds`: their exceptions (browser, Leave Queue) are known defects,
  listed below.
* `NoStateSkipped`, `CopyCatchesUp`: no world state is taken for an old one,
  also when numbers wrap around or a new server counts from zero, and the copy
  becomes the server's room. `SpawnedBeforePlay`, `SameMap`, `PlayIsReached`,
  `OneOwnStrike`, `PredictionSettles`: what the player sees and may do meanwhile.

Type invariants without a run of their own (`ServerTypeOK`, `ClientTypeOK`,
`TypeOK` of `EnetSession` and `WorldSync`, `LinkTypeOK`, `StreamTypeOK`), and
`WholeFrames` and `KnowsHimself`, hold when they are added to the configuration
of their module; all of them are theorems but the `TypeOK` of `EnetSession`, whose
theorem (`EnetTypes`) leaves out the bounds of the model.

### Findings

1. **Stale descriptor** (`join_after_match`). A kicked socket stays registered
   for ever. The next connection on that descriptor is taken for the kicked
   player; its join is never answered, its other packets act for whoever has
   that slot.
2. **SIGPIPE** (`match_outlives_clients`). `send()` is called without
   `MSG_NOSIGNAL`, and nothing ignores SIGPIPE: two broadcasts to a connection
   the other side has reset, before `poll()` has seen its end, end the process.
   The disconnect handler broadcasts to such a connection too, as it is
   unregistered only afterwards.
3. **Destroyed host** (`refusal_stays_on_menu`). A handler that calls
   `disconnect()` destroys the ENet host; `NetClient::poll()` goes on with it.
4. **Island** (`one_land_mass`). `init()` clears the middle after the islands
   were removed, so that the players may be placed on one.
5. **Called-off countdown** (`lobby_as_planned`, `ReadyOffered`). Those placed by
   a countdown stay out of the queue when a leave calls it off
   (`GameSimulation.cpp:261`). They are not counted any more and cannot press
   Ready; with enough players in the lobby nobody is offered it
   (`PLAN.md:333-334`). They play when newcomers start the next match, if as many
   as the quorum come.
6. **Late joiners** (`lobby_as_planned`, `LateJoinersPlay`). A join in the
   countdown leads into a match one is not placed in (`PLAN.md:354`). The run
   stops at the shorter case of finding 5; with `LateJoinersPlay` as its
   invariant it ends with this one, a step later.

Deviations that need no run, because the code does them openly and the models
have them as steps:

* The countdown starts when all in the queue are ready. `PLAN.md:54`, 352 and 470
  say that one is enough; `PLAN.md:336` and 352 leave the stricter rule open.
* The kick leaves ENet peers registered until the disconnect is reported. If a
  new player takes the slot first, the report removes him (`PLAN.md:384`).
* Two connections of one address may have the same session id (EnetSession), and
  their packets are mixed up then; `thirdparty/enet/docs/design.dox:42` speaks of
  "multiple, properly sequenced packet streams".
* The relay passes on messages above `kMaxPayload` (`relay/index.js:32-36`): up to
  65535 bytes they make the server drop its buffer and cut what follows in the
  wrong places, and beyond the write throws. The game sends none.
* `lastRemoteInputs` survives the reuse of a slot and the end of a match: until
  his first `C_INPUT` a player fights, and is credited, with the buttons of the
  slot's last player (`PLAN.md:423`). The desktop client keeps
  `hasLastSentInput` between matches (`main.cpp:432`).
* `getWinners()` passes over contestants who have left (`PLAN.md:478`).
* Leave Queue leaves the copy of the room in QUEUE while others are in it, and
  with it the client's screen (`main.cpp:953`).
* In the browser a lost connection stops the polling that would report it
  (`main.cpp:723`), except on the results screen, and a late `onclose` of an
  earlier WebSocket clears the flag of the present one (`NetWebSession.cpp:51`).
* `S_KICK` is never sent over ENet and never read over streams (see WorldSync).
* The Syncing overlay returns in mid-match when packets stall: the client wants
  three snapshots (`kMinSnapshotsForPlay`), and pruning goes down to two.

## Fairness

* `GameServer`, `FairServerSpec`: weak fairness of its ticks; the main loop polls
  without waiting and ticks as time passes, whatever the clients do. In IDLE
  and QUEUE a tick changes nothing, so nothing is promised there.
* `StreamLink`, `FairLinkSpec`: the server accepts and both ends go on
  receiving (WF). Strong fairness, for steps that others enable and disable:
  a `poll()` ends, since its `recv()` loop stops at the first empty read and
  the kernel refills it only so often; a read takes all there is; and the
  server, which broadcasts several times a second, sends. It broadcasts to
  registered connections alone; one that is not registered and hears nothing is
  given up by the client after its time-out, and `PacketsGetThrough` is as
  content with the end of the connection.
* `StreamServer`, `FairStreamSpec`: `poll()` is called again and again and goes
  on by itself (WF); it reads faster than a client sends, so that the `recv()`
  loop of a socket finds nothing more again and again (SF of `PollSkip`).
* `EnetSession`, `Spec`: hosts are serviced every frame: what is queued is sent,
  events are dispatched, and a peer times out if it is not connected any more or
  its other end is gone. No datagram is ever promised to arrive.
* `Client`, `FairClientSpec`: frames go on, time passes, what arrives is polled,
  time-outs act. The player on the results screen leaves them once the
  connection is gone (the code does it for him).
* `WorldSync`, `Spec`: both loops run and packets arrive (WF); the results end
  (SF, since between its ticks the channel may be at its bound).

No player's action is fair.

## Proofs

All theorems hold for every value of the constants that satisfies the named
assumptions: `RoomAssumption` (capacity positive, quorum between 1 and the
capacity; `GameConfig.h:12-19`), `TimerAssumption` (every timer at least one
tick, the kick within the results), `PeerAssumption` (the two transports'
handles differ, `NoPeer` is none of them), `CombatAssumption` (a charge takes a
hit at least, a strike hits before it ends, there is room for an enemy;
`Character.h:63`, `Thunderstrike.h:32`, `GameConfig.h:25`), `ClientAssumption`,
`SessionAssumption` and `SyncAssumption` (bounds are numbers, the client wants
more than one snapshot and keeps at least as many; ids are not negative),
`FrameAssumption` (a length fits into two bytes, packets are not empty;
`NetFraming.h:10-30`), `BrowserAssumption` (see StreamLink) and
`StreamAssumption` (room for a client, finitely many ids, none negative;
`NetStreamServer.cpp:165`).

`MatchFlowProofs`. The properties are not inductive. `IInv` adds three facts:
`MatchHasTimeLeft` (else the match timer could leave its range),
`PlacedAreAlive` (in the lobby and countdown whoever is placed is alive: an
aborted countdown leaves placed players behind, and the next countdown's
quorum counts them) and `AdoptsSlotZero` (the server only ever adopts slot 0 as
its local player, which is exactly the slot the first join after IDLE reuses;
without it the kept id could name a vacated slot). `FreeSlotExists` and
`UnusedColorExists` are the counting arguments: an accepted join finds a slot
below the capacity, and fewer players than colors leave a color unused. Then
one lemma per action shows the inductive step, and each invariant and the action
property `RosterShrinks` follow.

`Refinement` is `Spec => ImplementsRoom`, step by step under `IInv`.
`SameCardinality` identifies the instance's Cardinality with the
module's.

`GameServerProofs`. `ServerInv` is the conjunction of `IInv` and the server's
four invariants, which are inductive together. `UnregisterErases` and
`RegisterAdds` state what the registry operations leave entry by entry.

`CombatProofs`. That each step is one of `MatchFlow` (the lemma
`CombatRunsMatchFlow`) brings `IInv` along. `CombatInv` adds three facts to the
properties. `CastersCharged`: whoever casts in a match is still charged; without
it the end of a strike could spend a charge that is not there. `TargetsInMatch`:
a target that is in the room is in the match; without it retargeting, which only
asks whether the target lives, could keep one who plays no part.
`NoKillsBefore`: whoever is placed begins without a kill; the enemies of a match
are numbered from 1 again, and kills carried over would exceed them. The heart
is `GameplayKeepsInv`, proved for any field that satisfies `FieldOK`, so that it
serves `Start` and `Fight` alike: `StrikesAfterTick` (one strike per owner),
`EnemiesAfterTick` (capacity), `TargetsAfterTick`, `SwordsPay` and `TickIsPaid`
(the account of hits, charge and kills). `KillsAfterTick` is `KillsEarned` for a
tick. Nothing is summed up: `KillsScored` has each kill by its player and its
number, `NumberedKills` maps the kills of a tick one to one to enemies that were
slain in it (those of a player to his, and no enemy is two players'), so that
they are no more than the enemies that are gone. `QuietKeepsInv` and
`LobbyKeepsInv` serve the other actions.

`ClientProofs`. `ClientInv` is inductive: `AnswerFirst` (the answer to a join is
the first packet of its connection), `AcceptedOnce` (whoever is accepted was
not joined and still has the connection), `AskedAlone` (nothing comes before
the answer) and `JoinedIsWhole`, which is stronger than `SessionIsWhole`: it
also holds in the browser while packets read before the loss are still
handled, and knows that the screen is not the title. Without the first two a
stale `S_JOIN_OK` could leave the title; that none does is
`TitleLeftOnlyByJoining`.

`StreamLinkProofs`. `Feed` recurs on the length of the buffer. `FeedDef`, its
equation, is proved by exhibiting the function length by length (`SetInduction`
over sets of numbers in place of a predicate; `SolutionExists`,
`SolutionIsUnique`), since the theorems of the library that would give it take an
operator. Bytes are *clean* if they can be read as frames and the beginning of
another; the set of clean bytes is the smallest one closed under adding a frame
in front, which is the induction all facts about `feed()` rest on: it yields the
same packets however the bytes are cut (`FeedInParts`), more frames behind whole
ones add their packets (`FeedBehindFrames`), and it inverts `encodeFrame`
(`FeedOfFrame`). `LinkInv` says of `rcv \o net \o snd` that it is clean as long
as it can arrive, whole frames while both ends are there, and that what an end
which is gone held is empty, so that the next connection starts with nothing.
Then every step takes packets from the front of a queue, adds one behind, or
loses the end of it, as `PacketFifo` allows (`LinkIsPacketFifo`).

`StreamServerProofs`. `WithoutProperties` says what `std::remove` leaves, by the
bijection of those that stay with their ranks. `PollInv`: inside `poll()` too
the list has the open descriptors, each once (`ListOK`); a player's socket is on
the list or is the one whose last read is still being handled (`PlayersHeld`:
`NoOrphanPlayers` does not hold there, as one who leaves and joins in one read is
registered for a socket that is closed, and only the failing read behind it
frees the slot); and the sockets found ended are down (`EndedAreDown`), so that
their removal takes nobody's connection.

`EnetProofs`. `EnetInv` joins the types, in which a connect under way names an
attempt that was made, with `PeerOK` at every end: `EventsMatchPeers` and that a
peer in use has a connectID. One lemma per handler gives the peer it leaves,
and `OneEnd` shows that a step at one end keeps the others.

`LinkOK` ties the two ends together. A *claim* is what the server has accepted:
address, session id, attempt and peer, whether that peer still is in the
connection or a VERIFY_CONNECT of it is under way; `ClaimsAgree`: address and
session id name one attempt and one peer. A *use* is a connection the client has
taken part in; `UsesAgree`: an attempt has one use at most, and one the server's
game knows of is not under way a second time. `NetOK` says of
every datagram that it is of such a claim or use and carries a packet that was
given to it, `EndsOK` that what an end has received is the beginning of what was
given to its attempt. So whatever comes late, twice or from another connection
is either of this connection or fails the comparisons of the handlers, as long
as no id was repeated: `SoFarApart` is `LinkOK` while `idRepeated` is FALSE
(`ConnectionsAgree`). Three steps begin something and are proved by themselves
(`HandleConnect`, which keeps `LinkOK` if it repeats no id, `ClientConnects` and
the VERIFY_CONNECT that is awaited); all
others are steps of one end that keep its connection or drop it (`EndStep`), so
that one lemma for the server's peers and one for the client serve them all.
`ConnectIsMutual` follows, and with `Noticed` (what the game hears is an event
`PeerEvents` allows) the first half of `SessionIsPeerEvents`. The other half, for
steps after a repeated id, needs `EnetInv` alone: `AlternateStep` finds in each
step one of `MixedNext` at its end.

`WorldSyncProofs`. The types come first: one lemma per operator of the client
says field by field what it returns (`WorldApplied`, `LobbyApplied`,
`JoinAcked`, ..), and `RoomStep` and `ClientStep` are the inductive step.

Then the order of packets. `Steps` sorts all actions by what they do to the
connection: it ends, nothing is heard, a lobby sync, a world state or both are
sent, the kick, the answer, a packet is taken. Copy, packets and server are then
successive views of one room, and each invariant says how one view follows
another:

* `StrikeInv` (`OneOwnStrike`) and `MapInv` (`SameMap`) need no order.
* `LinkInv` (`KnowsHimself`): every packet behind the answer names the client.
* `TickInv` (`NoStateSkipped`): the world states on their way are numbered one
  after the other (`InOrder`), up to the server's number (`EndsAt`), from the
  one after the client's or from any if that is zero (`BeginsAfter`).
  `AddsLobby`, `AddsWorld` and `TakesFirst` keep this for any sequence, and
  `NeverOld` shows that the code's three-part test accepts each number, for
  every width above one.
* `FollowInv` (`SpawnedBeforePlay`): only the lobby sync of a start puts a player
  into the match, which resets the snapshots and is followed by a world state
  that places him; so no snapshot is counted while he waits for his place.
  It rests on `LinkInv` and on `TickInv`, since a world state that was dropped
  would break the chain.

Only model-checked:

* liveness (`MatchEmptiesRoom`, `PacketsGetThrough`, `EverybodyIsServed`,
  `PeersAreFreed`, `ClientIsTold`, `AttemptsEnd`, `LostSessionEnds`,
  `CopyCatchesUp`, `PlayIsReached`, `PredictionSettles`), which the prover does
  not do;
* `MapGen`, which has recursive operators.

## Not modelled

* Positions, movement, ranges, damage amounts, health and pickups: choices of
  the models. Interpolation of positions, and the encoding of packets other
  than frames.
* The offline game (`isServer = false` with enemies of its own).
* ENet's unreliable and fragmented packets, further channels, bandwidth,
  throttling, compression and checksums.
* The order of inputs: `C_INPUT` is sent unsequenced, and the server takes the
  last one that arrives. `Combat` lets any input come at any time, which covers
  every order, but nothing is promised of it.
* The relay's WebSocket, which keeps messages whole and in order.
* Drawing, sound, touch controls, build and deployment.

## Plan

Done: the modules above with their runs and proofs. What would come next:

1. `OfflineGame`: the same simulation with `isServer = false`, refining
   `MatchRoom`.
2. ENet's channels: windows, unreliable and fragmented packets, as a module
   beside `EnetSession`.
3. Proofs: the composition of the layers, that the channel of `WorldSync` is what
   `PacketFifo` and `PeerEvents` provide; `MapGen` with recursive functions in
   place of operators.
