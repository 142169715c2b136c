-------------------------- MODULE MatchFlowProofs --------------------------
(***************************************************************************)
(* Proofs about MatchFlow, for every capacity of the room, every quorum and *)
(* every length of the timers.                                             *)
(***************************************************************************)
EXTENDS MatchFlow, FiniteSetTheorems, WellFoundedInduction, TLAPS

(***************************************************************************)
(* Facts about Min and Max of sets of naturals, and about finite sets.     *)
(***************************************************************************)
LEMMA MinOfNaturals ==
    ASSUME NEW S \in SUBSET Nat, S # {}
    PROVE  Min(S) \in S /\ \A x \in S : Min(S) <= x
<1> DEFINE Less == OpToRel(<, Nat)
<1>1. \A x, y \in Nat : y < x => <<y, x>> \in Less
  BY DEF OpToRel
<1>2. IsWellFoundedOn(Less, Nat)
  BY NatLessThanWellFounded
<1> HIDE DEF Less
<1>3. PICK x \in S : \A y \in S : ~(<<y, x>> \in Less)
  BY <1>2, WFMin
<1>4. ASSUME NEW y \in S PROVE x <= y
  <2>1. x \in Nat /\ y \in Nat
    OBVIOUS
  <2>2. ~(<<y, x>> \in Less)
    BY <1>3
  <2>3. ~(y < x)
    BY <1>1, <2>1, <2>2
  <2>4. QED
    BY <2>1, <2>3
<1>5. QED
  BY <1>4 DEF Min

(* A bounded set of naturals that is not empty has its Max.                  *)
LEMMA MaxOfBoundedNaturals ==
    ASSUME NEW n \in Nat, NEW S \in SUBSET (0 .. n), S # {}
    PROVE  Max(S) \in S
<1> DEFINE T == {n - x : x \in S}
<1>1. T \in SUBSET Nat /\ T # {}
  <2>1. \A x \in S : n - x \in Nat
    OBVIOUS
  <2>2. PICK x \in S : TRUE
    OBVIOUS
  <2>3. n - x \in T
    OBVIOUS
  <2>4. QED
    BY <2>1, <2>3
<1>2. Min(T) \in T /\ \A t \in T : Min(T) <= t
  BY <1>1, MinOfNaturals
<1>3. PICK x \in S : Min(T) = n - x
  BY <1>2
<1>4. \A y \in S : x >= y
  BY <1>2, <1>3
<1>5. QED
  BY <1>4 DEF Max

(* There are kMaxPlayers ids and as many colors.                             *)
LEMMA FiniteIds ==
    /\ IsFiniteSet(Ids) /\ Cardinality(Ids) = kMaxPlayers
    /\ IsFiniteSet(Colors) /\ Cardinality(Colors) = kMaxPlayers
    /\ \A S \in SUBSET Ids : IsFiniteSet(S) /\ Cardinality(S) \in Nat
<1>1. kMaxPlayers \in Nat /\ kMaxPlayers - 1 \in Int /\ ~(0 > kMaxPlayers - 1)
  BY RoomAssumption
<1>2. /\ IsFiniteSet(0 .. kMaxPlayers - 1)
      /\ Cardinality(0 .. kMaxPlayers - 1) = kMaxPlayers
  BY <1>1, FS_Interval
<1>3. \A S \in SUBSET Ids : IsFiniteSet(S)
  BY <1>2, FS_Subset DEF Ids
<1>4. QED
  BY <1>2, <1>3, FS_CardinalityType DEF Ids, Colors

(* Adding to a set keeps a quorum of it.                                     *)
LEMMA LargerSet ==
    ASSUME NEW S \in SUBSET Ids, NEW T \in SUBSET S
    PROVE  Cardinality(T) <= Cardinality(S)
  BY FiniteIds, FS_Subset

-----------------------------------------------------------------------------
(***************************************************************************)
(* The inductive invariant.  The properties need three facts more: a match  *)
(* that is on has time left (so the timer cannot go below zero), whoever    *)
(* is still placed for a match in the lobby is alive (a countdown that was  *)
(* called off leaves such players behind, and the next one counts them),    *)
(* and the only slot the server ever adopts as its local player is slot 0,  *)
(* the first one the next join after IDLE reuses.                          *)
(***************************************************************************)
MatchHasTimeLeft == phase = "IN_PROGRESS" => matchTimeRemaining >= 1
PlacedAreAlive   == phase \in {"QUEUE", "COUNTDOWN"} => inMatch \subseteq alive
AdoptsSlotZero   == localPlayerId \in {NoPlayer, 0}

IInv ==
    /\ TypeOK /\ ColorsDistinct /\ IdleIffEmpty /\ StartQuorum /\ KeptIdsConnected
    /\ MatchHasTimeLeft /\ PlacedAreAlive /\ AdoptsSlotZero

(* Slots, and so everything the flags hold, are ids of the room.             *)
LEMMA SlotsAreIds ==
    ASSUME TypeOK
    PROVE  /\ numPlayers \in Nat
           /\ Slots \subseteq Ids
           /\ connected \subseteq Ids /\ QueuedPlayers \subseteq Ids
           /\ LivingPlayers \subseteq Ids
  BY RoomAssumption DEF TypeOK, Slots, Ids, QueuedPlayers, LivingPlayers

(* tryJoinQueue() finds a free slot within the capacity whenever it accepts. *)
LEMMA FreeSlotExists ==
    ASSUME TypeOK, JoinResult(TRUE) = "OK"
    PROVE  /\ FirstFreeSlot \in Ids
           /\ FirstFreeSlot \notin connected
           /\ FirstFreeSlot \in 0 .. numPlayers
           /\ connected = {} => FirstFreeSlot = 0
<1> DEFINE Free == (0 .. numPlayers) \ connected
<1>1. Cardinality(connected) < kMaxPlayers
  BY SlotsAreIds, FiniteIds, RoomAssumption DEF JoinResult
<1>2. numPlayers \in Free /\ Free \in SUBSET Nat
  BY SlotsAreIds DEF TypeOK, Slots
<1>3. FirstFreeSlot \in Free /\ \A x \in Free : FirstFreeSlot <= x
  <2>1. Min(Free) \in Free /\ \A x \in Free : Min(Free) <= x
    BY <1>2, MinOfNaturals
  <2>2. QED
    BY <2>1 DEF FirstFreeSlot
<1>4. FirstFreeSlot \in Ids
  <2>1. CASE FirstFreeSlot < numPlayers
    BY <1>3, <2>1, SlotsAreIds DEF TypeOK, Slots, Ids
  <2>2. CASE FirstFreeSlot = numPlayers
    <3>1. connected = 0 .. numPlayers - 1
      <4>1. ASSUME NEW x \in 0 .. numPlayers - 1 PROVE x \in connected
        <5>1. x \in 0 .. numPlayers /\ x < numPlayers
          BY SlotsAreIds
        <5>2. ~(numPlayers <= x)
          BY <5>1, SlotsAreIds
        <5>3. QED
          BY <1>3, <2>2, <5>1, <5>2
      <4>2. QED
        BY <4>1 DEF TypeOK, Slots
    <3>2. Cardinality(connected) = numPlayers
      BY <3>1, SlotsAreIds, FS_Interval
    <3>3. QED
      BY <1>1, <2>2, <3>2, SlotsAreIds, RoomAssumption DEF Ids
  <2>3. QED
    BY <1>3, <2>1, <2>2, SlotsAreIds
<1>5. connected = {} => FirstFreeSlot = 0
  BY <1>3, SlotsAreIds
<1>6. QED
  BY <1>3, <1>4, <1>5

(* allocateColorIndex() never falls back to an occupied color when a join is *)
(* accepted: with fewer players than colors one of them is unused.          *)
LEMMA UnusedColorExists ==
    ASSUME TypeOK, JoinResult(TRUE) = "OK"
    PROVE  /\ AllocateColorIndex \in Colors
           /\ \A p \in connected : colorIndex[p] # AllocateColorIndex
<1> DEFINE Unused == Colors \ {colorIndex[p] : p \in connected}
<1>1. IsFiniteSet(connected) /\ Cardinality(connected) < Cardinality(Colors)
  BY SlotsAreIds, FiniteIds, RoomAssumption DEF JoinResult
<1>2. Unused # {}
  <2>1. SUFFICES ASSUME Unused = {} PROVE FALSE
    OBVIOUS
  <2>2. DEFINE wearer == [c \in Colors |-> CHOOSE p \in connected : colorIndex[p] = c]
  <2>3. \A c \in Colors : wearer[c] \in connected /\ colorIndex[wearer[c]] = c
    BY <2>1
  <2>4. wearer \in [Colors -> connected]
    BY <2>3
  <2> HIDE DEF wearer
  <2>5. PICK c, d \in Colors : c # d /\ wearer[c] = wearer[d]
    <3>1. IsFiniteSet(Colors)
      BY FiniteIds
    <3>2. QED
      BY <1>1, <2>4, <3>1, FS_PigeonHole
  <2>6. QED
    BY <2>3, <2>5
<1>3. Unused \in SUBSET Nat
  BY RoomAssumption DEF Colors
<1>4. Min(Unused) \in Unused
  BY <1>2, <1>3, MinOfNaturals
<1>5. QED
  BY <1>2, <1>4 DEF AllocateColorIndex

-----------------------------------------------------------------------------
(* The empty lobby of a new server satisfies the inductive invariant.        *)
LEMMA InitIInv == Init => IInv
<1> SUFFICES ASSUME Init PROVE IInv
  OBVIOUS
<1> USE RoomAssumption, TimerAssumption DEF Init
<1>1. TypeOK
  <2>1. colorIndex \in [Ids -> Colors]
    BY DEF Ids, Colors
  <2>2. /\ numPlayers \in 0 .. kMaxPlayers /\ countdownRemaining \in 0 .. CountdownTicks
        /\ matchTimeRemaining \in 0 .. MatchTicks
        /\ resultsTimeRemaining \in 0 .. ResultsTicks
    OBVIOUS
  <2>3. QED
    BY <2>1, <2>2 DEF TypeOK, MatchPhase
<1>2. ColorsDistinct /\ IdleIffEmpty /\ StartQuorum /\ KeptIdsConnected
  BY DEF ColorsDistinct, IdleIffEmpty, StartQuorum, KeptIdsConnected
<1>3. MatchHasTimeLeft /\ PlacedAreAlive /\ AdoptsSlotZero
  BY DEF MatchHasTimeLeft, PlacedAreAlive, AdoptsSlotZero
<1>4. QED
  BY <1>1, <1>2, <1>3 DEF IInv

(* A join preserves it: a free slot, a free color, and no phase disturbed.   *)
LEMMA JoinIInv == IInv /\ TryJoinQueue => IInv'
<1> SUFFICES ASSUME IInv, TryJoinQueue PROVE IInv'
  OBVIOUS
<1> DEFINE id == FirstFreeSlot
<1>1. TypeOK
  BY DEF IInv
<1>2. /\ id \in Ids /\ id \notin connected /\ id \in 0 .. numPlayers
      /\ connected = {} => id = 0
  BY <1>1, FreeSlotExists DEF TryJoinQueue
<1>3. /\ AllocateColorIndex \in Colors
      /\ \A p \in connected : colorIndex[p] # AllocateColorIndex
  BY <1>1, UnusedColorExists DEF TryJoinQueue
<1>4. /\ numPlayers' = IF id = numPlayers THEN numPlayers + 1 ELSE numPlayers
      /\ colorIndex' = [colorIndex EXCEPT ![id] = AllocateColorIndex]
      /\ connected' = connected \cup {id} /\ inQueue' = inQueue \cup {id}
      /\ inMatch' = inMatch \ {id} /\ ready' = ready \ {id} /\ alive' = alive \cup {id}
      /\ phase' = IF phase = "IDLE" THEN "QUEUE" ELSE phase
      /\ UNCHANGED <<timerVars, cameraVars, matchEndHandled>>
  BY DEF TryJoinQueue
<1>5. phase \notin {"IN_PROGRESS", "RESULTS"}
  BY DEF TryJoinQueue, JoinResult
<1> HIDE DEF id
<1>6. TypeOK'
  <2>1. numPlayers' \in 0 .. kMaxPlayers
    BY <1>1, <1>2, <1>4, RoomAssumption DEF TypeOK, Ids
  <2>2. Slots \subseteq Slots' /\ id \in Slots'
    BY <1>1, <1>2, <1>4, RoomAssumption DEF TypeOK, Slots, Ids
  <2>3. colorIndex' \in [Ids -> Colors]
    BY <1>1, <1>3, <1>4 DEF TypeOK
  <2>4. QED
    BY <1>1, <1>4, <2>1, <2>2, <2>3 DEF TypeOK, MatchPhase, timerVars, cameraVars
<1>7. ColorsDistinct'
  <2>1. \A p \in connected : colorIndex'[p] = colorIndex[p]
    BY <1>1, <1>2, <1>4, SlotsAreIds DEF TypeOK
  <2>2. colorIndex'[id] = AllocateColorIndex
    BY <1>1, <1>2, <1>4 DEF TypeOK
  <2>3. ColorsDistinct
    BY DEF IInv
  <2>4. QED
    BY <1>3, <1>4, <2>1, <2>2, <2>3 DEF ColorsDistinct
<1>8. IdleIffEmpty'
  BY <1>4 DEF IInv, IdleIffEmpty
<1>9. StartQuorum'
  <2>1. SUFFICES ASSUME phase = "COUNTDOWN"
                 PROVE  Cardinality(LivingPlayers') >= kMinPlayersToStart
    BY <1>4 DEF StartQuorum
  <2>2. LivingPlayers' \in SUBSET Ids
    BY <1>1, <1>2, <1>4, SlotsAreIds DEF LivingPlayers, TypeOK, Slots
  <2>3. LivingPlayers \in SUBSET LivingPlayers'
    BY <1>2, <1>4 DEF LivingPlayers
  <2>4. Cardinality(LivingPlayers) <= Cardinality(LivingPlayers')
    BY <2>2, <2>3, LargerSet
  <2>5. Cardinality(LivingPlayers) >= kMinPlayersToStart
    BY <2>1 DEF IInv, StartQuorum
  <2>6. Cardinality(LivingPlayers) \in Nat /\ Cardinality(LivingPlayers') \in Nat
    BY <1>1, <2>2, SlotsAreIds, FiniteIds
  <2>7. QED
    BY <2>4, <2>5, <2>6, RoomAssumption
<1>10. KeptIdsConnected'
  <2>1. KeptIdsConnected /\ AdoptsSlotZero /\ IdleIffEmpty
    BY DEF IInv
  <2>2. localPlayerId' = localPlayerId /\ spectateTargetId' = spectateTargetId
    BY <1>4 DEF cameraVars
  <2>3. phase \in MatchPhase
    BY <1>1 DEF TypeOK
  <2>4. QED
    BY <1>2, <1>4, <1>5, <2>1, <2>2, <2>3
       DEF KeptIdsConnected, AdoptsSlotZero, IdleIffEmpty, MatchPhase
<1>11. MatchHasTimeLeft' /\ AdoptsSlotZero'
  BY <1>4, <1>5 DEF IInv, MatchHasTimeLeft, AdoptsSlotZero, timerVars, cameraVars
<1>12. PlacedAreAlive'
  BY <1>1, <1>4 DEF IInv, IdleIffEmpty, PlacedAreAlive, TypeOK
<1>13. QED
  BY <1>6, <1>7, <1>8, <1>9, <1>10, <1>11, <1>12 DEF IInv

(* A removal preserves it, whether or not the slot was still connected.      *)
LEMMA RemoveIInv == ASSUME NEW p \in Ids PROVE IInv /\ RemovePlayer(p) => IInv'
<1> SUFFICES ASSUME IInv, RemovePlayer(p) PROVE IInv'
  OBVIOUS
<1> USE DEF RemovePlayer
<1>1. TypeOK
  BY DEF IInv
<1>2. phase' = PhaseAfterRemoval(p) /\ phase \in MatchPhase
  BY <1>1 DEF TypeOK
<1>3. Slots' = Slots
  BY DEF Slots
<1>4. TypeOK'
  <2>1. phase' \in MatchPhase
    BY <1>2 DEF PhaseAfterRemoval, MatchPhase
  <2>2. ready' \subseteq Slots /\ countdownRemaining' \in 0 .. CountdownTicks
    BY <1>1, TimerAssumption DEF TypeOK
  <2>3. localPlayerId' \in Ids \cup {NoPlayer} /\ spectateTargetId' \in Ids \cup {NoPlayer}
    BY <1>1 DEF TypeOK, DropIfGone
  <2>4. QED
    BY <1>1, <1>3, <2>1, <2>2, <2>3 DEF TypeOK
<1>5. ColorsDistinct'
  BY DEF IInv, ColorsDistinct
<1>6. IdleIffEmpty'
  BY <1>2 DEF IInv, IdleIffEmpty, PhaseAfterRemoval, MatchPhase
<1>7. phase' # "COUNTDOWN"
  BY <1>2 DEF PhaseAfterRemoval
<1>8. StartQuorum'
  BY <1>7 DEF StartQuorum
<1>9. KeptIdsConnected'
  <2>1. spectateTargetId' # NoPlayer => spectateTargetId' \in connected'
    BY DEF IInv, KeptIdsConnected, DropIfGone
  <2>2. phase' \in {"QUEUE", "COUNTDOWN"} => phase \in {"QUEUE", "COUNTDOWN"}
    BY <1>2 DEF PhaseAfterRemoval
  <2>3. QED
    BY <2>1, <2>2 DEF IInv, KeptIdsConnected, DropIfGone
<1>10. MatchHasTimeLeft'
  BY <1>2 DEF IInv, MatchHasTimeLeft, PhaseAfterRemoval
<1>11. PlacedAreAlive'
  BY <1>2 DEF IInv, PlacedAreAlive, PhaseAfterRemoval
<1>12. AdoptsSlotZero'
  BY DEF IInv, AdoptsSlotZero, DropIfGone
<1>13. QED
  BY <1>4, <1>5, <1>6, <1>8, <1>9, <1>10, <1>11, <1>12 DEF IInv

(* A Ready preserves it, also the one that places the queue and counts down. *)
LEMMA ReadyIInv == ASSUME NEW p \in Ids PROVE IInv /\ PressReadyForPlayer(p) => IInv'
<1> SUFFICES ASSUME IInv, PressReadyForPlayer(p) PROVE IInv'
  OBVIOUS
<1> DEFINE r == IF p \in Slots THEN ready \cup {p} ELSE ready
<1>1. TypeOK /\ r \subseteq Slots
  BY DEF IInv, TypeOK
<1>2. phase = "QUEUE" /\ Cardinality(QueuedPlayers) >= kMinPlayersToStart
  BY DEF PressReadyForPlayer, canPressReady
<1>3. CASE ~AllQueuePlayersReady(r)
  <2>1. /\ ready' = r
        /\ UNCHANGED <<phase, numPlayers, connected, inQueue, inMatch, colorIndex, alive,
                       timerVars, cameraVars, matchEndHandled>>
    BY <1>3 DEF PressReadyForPlayer
  <2>2. TypeOK'
    BY <1>1, <2>1 DEF TypeOK, Slots, timerVars, cameraVars
  <2>3. QED
    BY <1>2, <2>1, <2>2
       DEF IInv, ColorsDistinct, IdleIffEmpty, StartQuorum, KeptIdsConnected,
           MatchHasTimeLeft, PlacedAreAlive, AdoptsSlotZero, timerVars, cameraVars
<1>4. CASE AllQueuePlayersReady(r)
  <2>1. /\ PlacePlayersAtSpawn(r)
        /\ countdownRemaining' = CountdownTicks /\ phase' = "COUNTDOWN"
        /\ UNCHANGED <<matchTimeRemaining, resultsTimeRemaining, matchEndHandled>>
    BY <1>4 DEF PressReadyForPlayer
  <2> USE <2>1 DEF PlacePlayersAtSpawn
  <2>2. QueuedPlayers \subseteq connected /\ Slots' = Slots
    BY DEF QueuedPlayers, Slots
  <2>3. TypeOK'
    <3>1. spectateTargetId' \in Ids \cup {NoPlayer}
      BY <1>1 DEF TypeOK
    <3>2. inMatch' \subseteq connected /\ inQueue' \subseteq connected
      BY <1>1, <2>2 DEF TypeOK
    <3>3. ready' \subseteq Slots /\ alive' \subseteq Slots
      BY <1>1, <2>2 DEF TypeOK
    <3>4. countdownRemaining' \in 0 .. CountdownTicks
      BY TimerAssumption
    <3>5. QED
      BY <1>1, <2>2, <3>1, <3>2, <3>3, <3>4 DEF TypeOK, MatchPhase
  <2>4. ColorsDistinct' /\ IdleIffEmpty' /\ MatchHasTimeLeft' /\ AdoptsSlotZero'
    BY <1>2 DEF IInv, ColorsDistinct, IdleIffEmpty, MatchHasTimeLeft, AdoptsSlotZero
  <2>5. StartQuorum'
    <3>1. LivingPlayers' \in SUBSET Ids /\ QueuedPlayers \in SUBSET LivingPlayers'
      BY <1>1, <2>2, SlotsAreIds DEF LivingPlayers
    <3>2. Cardinality(QueuedPlayers) <= Cardinality(LivingPlayers')
      BY <3>1, LargerSet
    <3>3. Cardinality(QueuedPlayers) \in Nat /\ Cardinality(LivingPlayers') \in Nat
      BY <3>1, FiniteIds
    <3>4. QED
      BY <1>2, <3>2, <3>3, RoomAssumption DEF StartQuorum
  <2>6. KeptIdsConnected'
    BY <1>2 DEF IInv, KeptIdsConnected, AdoptsSlotZero, NoPlayer, Slots
  <2>7. PlacedAreAlive'
    BY <1>2 DEF IInv, PlacedAreAlive
  <2>8. QED
    BY <2>3, <2>4, <2>5, <2>6, <2>7 DEF IInv
<1>5. QED
  BY <1>3, <1>4

(* The spectator's camera moves among living, hence connected players.       *)
LEMMA SpectateIInv ==
    ASSUME NEW direction \in {-1, 1} PROVE IInv /\ SpectateForPlayer(direction) => IInv'
<1> SUFFICES ASSUME IInv, SpectateForPlayer(direction) PROVE IInv'
  OBVIOUS
<1>1. TypeOK /\ LivingPlayers \in SUBSET Ids
  BY SlotsAreIds DEF IInv
<1>2. LivingPlayers # {}
  BY FS_EmptySet DEF SpectateForPlayer
<1>3. \A S \in SUBSET LivingPlayers :
        S # {} => Min(S) \in LivingPlayers /\ Max(S) \in LivingPlayers
  <2>1. SUFFICES ASSUME NEW S \in SUBSET LivingPlayers, S # {}
                 PROVE  Min(S) \in S /\ Max(S) \in S
    OBVIOUS
  <2>2. kMaxPlayers - 1 \in Nat /\ S \in SUBSET (0 .. kMaxPlayers - 1) /\ S \in SUBSET Nat
    BY <1>1, RoomAssumption DEF Ids
  <2>3. QED
    BY <2>1, <2>2, MinOfNaturals, MaxOfBoundedNaturals
<1>4. SpectateNext \in LivingPlayers
  BY <1>2, <1>3 DEF SpectateNext
<1>5. SpectatePrev \in LivingPlayers
  BY <1>2, <1>3 DEF SpectatePrev
<1>6. /\ spectateTargetId' \in LivingPlayers
      /\ UNCHANGED <<phase, slotVars, timerVars, localPlayerId, matchEndHandled>>
  BY <1>4, <1>5 DEF SpectateForPlayer
<1>7. spectateTargetId' \in connected'
  BY <1>6 DEF LivingPlayers, slotVars
<1>8. TypeOK'
  BY <1>1, <1>6 DEF TypeOK, Slots, slotVars, timerVars
<1>9. QED
  BY <1>6, <1>7, <1>8
     DEF IInv, ColorsDistinct, IdleIffEmpty, StartQuorum, KeptIdsConnected, LivingPlayers,
         MatchHasTimeLeft, PlacedAreAlive, AdoptsSlotZero, slotVars, timerVars

(* The ticks preserve it, each phase for its own reason.                     *)
LEMMA TickIInv == IInv /\ ServerTick => IInv'
<1> SUFFICES ASSUME IInv, ServerTick PROVE IInv'
  OBVIOUS
<1> USE RoomAssumption, TimerAssumption DEF slotVars, timerVars, cameraVars, ResetMatchEndLatch
<1>1. TypeOK /\ numPlayers \in Nat
  BY SlotsAreIds DEF IInv
<1>2. CASE TickCountdown
  <2>1. TypeOK'
    <3>1. countdownRemaining' \in 0 .. CountdownTicks
      BY <1>1, <1>2 DEF TickCountdown, TypeOK
    <3>2. matchEndHandled' \in BOOLEAN
      BY <1>2, Zenon DEF TickCountdown
    <3>3. QED
      BY <1>1, <1>2, <3>1, <3>2 DEF TickCountdown, TypeOK, Slots
  <2>2. QED
    BY <1>2, <2>1
       DEF TickCountdown, IInv, ColorsDistinct, IdleIffEmpty, StartQuorum, LivingPlayers,
           KeptIdsConnected, MatchHasTimeLeft, PlacedAreAlive, AdoptsSlotZero
<1>3. CASE StartMatch
  <2>1. localPlayerId' \in {NoPlayer, 0} /\ 0 \in Ids
    BY <1>3 DEF StartMatch, AdoptLocalPlayer, IInv, AdoptsSlotZero, Ids
  <2>2. TypeOK'
    <3>1. /\ countdownRemaining' \in 0 .. CountdownTicks
          /\ matchTimeRemaining' \in 0 .. MatchTicks
          /\ resultsTimeRemaining' \in 0 .. ResultsTicks
          /\ phase' \in MatchPhase
      BY <1>3 DEF StartMatch, MatchPhase
    <3>2. matchEndHandled' \in BOOLEAN
      BY <1>3, Zenon DEF StartMatch
    <3>3. QED
      BY <1>1, <1>3, <2>1, <3>1, <3>2 DEF StartMatch, TypeOK, Slots
  <2>3. QED
    BY <1>3, <2>1, <2>2
       DEF StartMatch, IInv, ColorsDistinct, IdleIffEmpty, StartQuorum,
           KeptIdsConnected, MatchHasTimeLeft, PlacedAreAlive, AdoptsSlotZero
<1>4. ASSUME NEW dead \in SUBSET Ids, TickMatch(dead) PROVE IInv'
  <2>1. localPlayerId' \in {NoPlayer, 0} /\ 0 \in Ids
    BY <1>4 DEF TickMatch, AdoptLocalPlayer, IInv, AdoptsSlotZero, Ids
  <2>2. TypeOK'
    <3>1. matchTimeRemaining' \in 0 .. MatchTicks
      BY <1>1, <1>4 DEF TickMatch, TypeOK
    <3>2. matchEndHandled' \in BOOLEAN
      BY <1>4, Zenon DEF TickMatch
    <3>3. alive' \subseteq Slots /\ Slots' = Slots
      BY <1>1, <1>4 DEF TickMatch, TypeOK, Slots
    <3>4. QED
      BY <1>1, <1>4, <2>1, <3>1, <3>2, <3>3 DEF TickMatch, TypeOK
  <2>3. MatchHasTimeLeft'
    BY <1>1, <1>4 DEF TickMatch, TypeOK, MatchHasTimeLeft
  <2>4. QED
    BY <1>4, <2>1, <2>2, <2>3
       DEF TickMatch, IInv, ColorsDistinct, IdleIffEmpty, StartQuorum,
           KeptIdsConnected, PlacedAreAlive, AdoptsSlotZero
<1>5. CASE EndMatch
  <2>1. matchTimeRemaining' \in 0 .. MatchTicks
    BY <1>1, <1>5 DEF EndMatch, TypeOK, IInv, MatchHasTimeLeft
  <2>2. TypeOK'
    BY <1>1, <1>5, <2>1 DEF EndMatch, TypeOK, Slots, MatchPhase
  <2>3. QED
    BY <1>5, <2>2
       DEF EndMatch, IInv, ColorsDistinct, IdleIffEmpty, StartQuorum,
           KeptIdsConnected, MatchHasTimeLeft, PlacedAreAlive, AdoptsSlotZero
<1>6. CASE TickResults
  <2>1. resultsTimeRemaining' \in 0 .. ResultsTicks
    BY <1>1, <1>6 DEF TickResults, TypeOK, ResultsTimeAfterTick
  <2>2. TypeOK'
    BY <1>1, <1>6, <2>1 DEF TickResults, TypeOK, Slots
  <2>3. QED
    BY <1>6, <2>2
       DEF TickResults, IInv, ColorsDistinct, IdleIffEmpty, StartQuorum,
           KeptIdsConnected, MatchHasTimeLeft, PlacedAreAlive, AdoptsSlotZero
<1>7. CASE ReturnPlayersToMenu
  <2>1. colorIndex' \in [Ids -> Colors] /\ numPlayers' \in 0 .. kMaxPlayers
    BY <1>7 DEF ReturnPlayersToMenu, Ids, Colors
  <2>2. TypeOK'
    BY <1>1, <1>7, <2>1 DEF ReturnPlayersToMenu, TypeOK, MatchPhase
  <2>3. QED
    BY <1>7, <2>2
       DEF ReturnPlayersToMenu, IInv, ColorsDistinct, IdleIffEmpty, StartQuorum,
           KeptIdsConnected, MatchHasTimeLeft, PlacedAreAlive, AdoptsSlotZero
<1>8. QED
  BY <1>2, <1>3, <1>4, <1>5, <1>6, <1>7 DEF ServerTick

(* The inductive step.                                                       *)
LEMMA NextIInv == IInv /\ [Next]_vars => IInv'
<1> SUFFICES ASSUME IInv, [Next]_vars PROVE IInv'
  OBVIOUS
<1>1. CASE UNCHANGED vars
  BY <1>1
     DEF vars, slotVars, timerVars, cameraVars, IInv, TypeOK, Slots, ColorsDistinct,
         IdleIffEmpty, StartQuorum, LivingPlayers, KeptIdsConnected, MatchHasTimeLeft,
         PlacedAreAlive, AdoptsSlotZero
<1>2. CASE Next
  BY <1>2, JoinIInv, RemoveIInv, ReadyIInv, SpectateIInv, TickIInv DEF Next
<1>3. QED
  BY <1>1, <1>2

(* IInv holds in every reachable state, and with it each of its parts.       *)
THEOREM Invariance == Spec => []IInv
  BY InitIInv, NextIInv, PTL DEF Spec

(* The vector of slots never outgrows the room, flags and ids stay within it *)
(* and no timer leaves its range.                                           *)
THEOREM TypeCorrect == Spec => []TypeOK
<1>1. IInv => TypeOK
  BY DEF IInv
<1>2. QED
  BY <1>1, Invariance, PTL

(* Connected players wear different colors, whatever slots were reused.      *)
THEOREM ColorsStayDistinct == Spec => []ColorsDistinct
<1>1. IInv => ColorsDistinct
  BY DEF IInv
<1>2. QED
  BY <1>1, Invariance, PTL

(* The room is IDLE exactly while it is empty.                               *)
THEOREM IdleMeansEmpty == Spec => []IdleIffEmpty
<1>1. IInv => IdleIffEmpty
  BY DEF IInv
<1>2. QED
  BY <1>1, Invariance, PTL

(* A countdown always counts down to a match with a quorum of living players. *)
THEOREM CountdownHasQuorum == Spec => []StartQuorum
<1>1. IInv => StartQuorum
  BY DEF IInv
<1>2. QED
  BY <1>1, Invariance, PTL

(* The spectate target, and before a match the adopted local player, are      *)
(* connected.                                                                *)
THEOREM KeptIdsStayConnected == Spec => []KeptIdsConnected
<1>1. IInv => KeptIdsConnected
  BY DEF IInv
<1>2. QED
  BY <1>1, Invariance, PTL

(* During a match and its results people only leave, and the dead stay dead. *)
THEOREM RosterShrinks == Spec => RosterOnlyShrinks
<1> DEFINE Shrinks ==
      (phase \in {"IN_PROGRESS", "RESULTS"})
        => /\ connected' \subseteq connected
           /\ inMatch' \subseteq inMatch
           /\ alive' \subseteq alive
<1>1. [Next]_vars => [Shrinks]_vars
  <2> SUFFICES ASSUME Next, phase \in {"IN_PROGRESS", "RESULTS"}
               PROVE  /\ connected' \subseteq connected
                      /\ inMatch' \subseteq inMatch
                      /\ alive' \subseteq alive
    OBVIOUS
  <2>1. ~TryJoinQueue
    BY DEF TryJoinQueue, JoinResult
  <2>2. \A p \in Ids : ~PressReadyForPlayer(p)
    BY DEF PressReadyForPlayer, canPressReady
  <2>3. CASE \E p \in Ids : RemovePlayer(p)
    BY <2>3 DEF RemovePlayer
  <2>4. CASE \E d \in {-1, 1} : SpectateForPlayer(d)
    BY <2>4 DEF SpectateForPlayer, slotVars
  <2>5. CASE ServerTick
    BY <2>5 DEF ServerTick, TickCountdown, StartMatch, TickMatch, EndMatch, TickResults,
                ReturnPlayersToMenu, slotVars
  <2>6. QED
    BY <2>1, <2>2, <2>3, <2>4, <2>5 DEF Next
<1>2. QED
  BY <1>1, PTL DEF Spec, RosterOnlyShrinks
-----------------------------------------------------------------------------
(***************************************************************************)
(* MatchFlow implements MatchRoom: every step of the slots, flags and       *)
(* timers is a step of the room or leaves the room as it is.               *)
(***************************************************************************)

(* The room counts as the match flow does: the instance's Cardinality has the *)
(* same definition.                                                        *)
LEMMA SameCardinality == \A S : Room!Cardinality(S) = Cardinality(S)
  BY DEF Room!Cardinality, Cardinality

(* The empty lobby is the open, empty room.                                 *)
LEMMA InitImplements == Init => Room!RoomInit
  BY DEF Init, Room!RoomInit, RoomStage, RoomContestants, RoomSurvivors

(* The stage of the room that each phase stands for.                         *)
LEMMA StageOfPhase ==
    /\ phase = "COUNTDOWN" => RoomStage = "starting"
    /\ phase = "IN_PROGRESS" => RoomStage = "playing"
    /\ phase = "RESULTS" => RoomStage = "showing"
    /\ phase \in {"IDLE", "QUEUE"} => RoomStage = "open"
  BY DEF RoomStage

(* The same of the phase after a step.                                      *)
LEMMA StageOfNextPhase ==
    /\ phase' = "COUNTDOWN" => RoomStage' = "starting"
    /\ phase' = "IN_PROGRESS" => RoomStage' = "playing"
    /\ phase' = "RESULTS" => RoomStage' = "showing"
    /\ phase' \in {"IDLE", "QUEUE"} => RoomStage' = "open"
  BY DEF RoomStage

(* A join takes the first free slot, and is that member entering.            *)
LEMMA JoinImplements == IInv /\ TryJoinQueue => Room!Enter(FirstFreeSlot)
<1> SUFFICES ASSUME IInv, TryJoinQueue PROVE Room!Enter(FirstFreeSlot)
  OBVIOUS
<1> DEFINE id == FirstFreeSlot
<1>1. TypeOK /\ JoinResult(TRUE) = "OK"
  BY DEF IInv, TryJoinQueue
<1>2. id \in Ids /\ id \notin connected
  BY <1>1, FreeSlotExists
<1>3. Cardinality(connected) < kMaxPlayers
  BY <1>1, SlotsAreIds, FiniteIds, RoomAssumption DEF JoinResult
<1>4. /\ connected' = connected \cup {id} /\ inMatch' = inMatch \ {id}
      /\ alive' = alive \cup {id}
      /\ phase' = IF phase = "IDLE" THEN "QUEUE" ELSE phase
  BY DEF TryJoinQueue
<1> HIDE DEF id
<1>5. phase \in {"IDLE", "QUEUE", "COUNTDOWN"}
  BY <1>1 DEF JoinResult, TypeOK, MatchPhase
<1>6. RoomStage' = RoomStage /\ RoomStage \in {"open", "starting"}
  BY <1>4, <1>5, StageOfPhase, StageOfNextPhase
<1>7. inMatch' = inMatch /\ LivingPlayers' = LivingPlayers
  BY <1>1, <1>2, <1>4 DEF TypeOK, LivingPlayers
<1>8. RoomContestants' = RoomContestants /\ RoomSurvivors' = RoomSurvivors
  BY <1>6, <1>7 DEF RoomContestants, RoomSurvivors
<1>9. Room!Enter(id)
  <2>1. /\ RoomStage \in {"open", "starting"}
        /\ id \in Ids \ connected
        /\ Cardinality(connected) < kMaxPlayers
        /\ connected' = connected \cup {id}
        /\ UNCHANGED <<RoomStage, RoomContestants, RoomSurvivors>>
    BY <1>2, <1>3, <1>4, <1>6, <1>8
  <2>2. QED
    BY <2>1, SameCardinality, Zenon DEF Room!Enter
<1>10. QED
  BY <1>9 DEF id

(* A removal is that member leaving; of a slot already free, it is nothing,  *)
(* or calls the start off.                                                  *)
LEMMA RemoveImplements ==
    ASSUME NEW p \in Ids
    PROVE  IInv /\ RemovePlayer(p)
             => Room!Leave(p) \/ Room!CallOff \/ UNCHANGED Room!roomVars
<1> SUFFICES ASSUME IInv, RemovePlayer(p)
             PROVE  Room!Leave(p) \/ Room!CallOff \/ UNCHANGED Room!roomVars
  OBVIOUS
<1>1. TypeOK /\ IdleIffEmpty /\ phase \in MatchPhase
  BY DEF IInv, TypeOK
<1>2. /\ connected' = connected \ {p} /\ inMatch' = inMatch \ {p} /\ alive' = alive
      /\ phase' = PhaseAfterRemoval(p)
  BY DEF RemovePlayer
<1>3. LivingPlayers' = LivingPlayers \ {p}
  BY <1>2 DEF LivingPlayers
<1>4. CASE p \in connected
  <2>1. CASE phase = "COUNTDOWN" \/ connected = {p}
    <3>1. phase' \in {"IDLE", "QUEUE"}
      BY <1>1, <1>2, <2>1, <1>4 DEF PhaseAfterRemoval
    <3>2. RoomStage' = "open" /\ (RoomStage = "starting" \/ connected = {p})
      BY <2>1, <3>1, StageOfPhase, StageOfNextPhase
    <3>3. QED
      BY <1>2, <1>4, <3>2 DEF Room!Leave, RoomContestants, RoomSurvivors
  <2>2. CASE phase # "COUNTDOWN" /\ connected # {p}
    <3>1. phase' = phase
      BY <1>2, <1>4, <2>2 DEF PhaseAfterRemoval
    <3>2. RoomStage' = RoomStage /\ RoomStage # "starting"
      BY <1>1, <2>2, <3>1, StageOfPhase, StageOfNextPhase DEF MatchPhase
    <3>3. QED
      BY <1>2, <1>3, <1>4, <2>2, <3>2 DEF Room!Leave, RoomContestants, RoomSurvivors
  <2>3. QED
    BY <2>1, <2>2
<1>5. CASE p \notin connected
  <2>1. connected' = connected /\ inMatch' = inMatch /\ LivingPlayers' = LivingPlayers
    BY <1>1, <1>2, <1>3, <1>5 DEF TypeOK, LivingPlayers
  <2>2. CASE phase = "COUNTDOWN"
    <3>1. phase' = "QUEUE"
      BY <1>1, <1>2, <1>5, <2>2 DEF PhaseAfterRemoval, IdleIffEmpty
    <3>2. RoomStage = "starting" /\ RoomStage' = "open"
      BY <2>2, <3>1, StageOfPhase, StageOfNextPhase
    <3>3. QED
      BY <2>1, <3>2 DEF Room!CallOff, RoomContestants, RoomSurvivors
  <2>3. CASE phase # "COUNTDOWN"
    <3>1. phase' = phase
      BY <1>1, <1>2, <1>5, <2>3 DEF PhaseAfterRemoval, IdleIffEmpty
    <3>2. RoomStage' = RoomStage
      BY <3>1 DEF RoomStage
    <3>3. QED
      BY <2>1, <3>2 DEF Room!roomVars, RoomContestants, RoomSurvivors
  <2>4. QED
    BY <2>2, <2>3
<1>6. QED
  BY <1>4, <1>5

(* The Ready that starts the countdown announces the start; any other is     *)
(* invisible in the room.                                                   *)
LEMMA ReadyImplements ==
    ASSUME NEW p \in Ids
    PROVE  IInv /\ IInv' /\ PressReadyForPlayer(p)
             => Room!Announce \/ UNCHANGED Room!roomVars
<1> SUFFICES ASSUME IInv, IInv', PressReadyForPlayer(p)
             PROVE  Room!Announce \/ UNCHANGED Room!roomVars
  OBVIOUS
<1>1. phase = "QUEUE" /\ connected' = connected
  BY DEF PressReadyForPlayer, canPressReady, PlacePlayersAtSpawn
<1>2. RoomStage = "open"
  BY <1>1, StageOfPhase
<1>3. CASE phase' = phase
  <2>1. RoomStage' = "open"
    BY <1>1, <1>3, StageOfNextPhase
  <2>2. QED
    BY <1>1, <1>2, <2>1 DEF Room!roomVars, RoomContestants, RoomSurvivors
<1>4. CASE phase' = "COUNTDOWN"
  <2>1. RoomStage' = "starting"
    BY <1>4, StageOfNextPhase
  <2>2. inMatch' \in SUBSET connected' /\ LivingPlayers' = inMatch'
    BY <1>4 DEF IInv, TypeOK, PlacedAreAlive, LivingPlayers
  <2>3. Cardinality(inMatch') >= kMinPlayersToStart
    BY <1>4, <2>2 DEF IInv, StartQuorum
  <2>4. RoomContestants' = inMatch' /\ RoomSurvivors' = inMatch'
    BY <2>1, <2>2 DEF RoomContestants, RoomSurvivors
  <2>5. inMatch' \in SUBSET connected
    BY <1>1, <2>2
  <2>6. /\ RoomContestants' \in SUBSET connected
        /\ Cardinality(RoomContestants') >= kMinPlayersToStart
        /\ RoomSurvivors' = RoomContestants'
        /\ UNCHANGED connected
    BY <1>1, <2>3, <2>4, <2>5
  <2>7. Room!Announce
    BY <1>2, <2>1, <2>6, SameCardinality, Zenon DEF Room!Announce
  <2>8. QED
    BY <2>7
<1>5. QED
  BY <1>3, <1>4 DEF PressReadyForPlayer

(* Every tick of the main loop is a step of the room or invisible in it.      *)
LEMMA TickImplements ==
    IInv /\ ServerTick => Room!RoomNext \/ UNCHANGED Room!roomVars
<1> SUFFICES ASSUME IInv, ServerTick
             PROVE  Room!RoomNext \/ UNCHANGED Room!roomVars
  OBVIOUS
<1> USE DEF slotVars, RoomContestants, RoomSurvivors
<1>1. CASE TickCountdown
  BY <1>1 DEF TickCountdown, Room!roomVars, LivingPlayers, RoomStage
<1>2. CASE StartMatch
  <2>1. RoomStage = "starting" /\ RoomStage' = "playing"
    BY <1>2, StageOfPhase, StageOfNextPhase DEF StartMatch
  <2>2. /\ UNCHANGED <<connected, RoomContestants, RoomSurvivors>>
        /\ RoomContestants \subseteq connected
    BY <1>2, <2>1 DEF StartMatch, LivingPlayers, IInv, TypeOK
  <2>3. Room!Begin
    BY <2>1, <2>2, Zenon DEF Room!Begin
  <2>4. QED
    BY <2>3 DEF Room!RoomNext
<1>3. ASSUME NEW dead \in SUBSET Ids, TickMatch(dead) PROVE Room!RoomNext
  <2>1. RoomStage = "playing" /\ RoomStage' = "playing"
    BY <1>3, StageOfPhase, StageOfNextPhase DEF TickMatch
  <2>2. Room!Die(dead)
    BY <1>3, <2>1 DEF TickMatch, Room!Die, LivingPlayers
  <2>3. QED
    BY <2>2 DEF Room!RoomNext
<1>4. CASE EndMatch
  <2>1. RoomStage = "playing" /\ RoomStage' = "showing"
    BY <1>4, StageOfPhase, StageOfNextPhase DEF EndMatch
  <2>2. Room!Finish
    BY <1>4, <2>1 DEF EndMatch, Room!Finish, LivingPlayers
  <2>3. QED
    BY <2>2 DEF Room!RoomNext
<1>5. CASE TickResults
  BY <1>5 DEF TickResults, Room!roomVars, LivingPlayers, RoomStage
<1>6. CASE ReturnPlayersToMenu
  <2>1. RoomStage = "showing" /\ RoomStage' = "open"
    BY <1>6, StageOfPhase, StageOfNextPhase DEF ReturnPlayersToMenu
  <2>2. Room!SendHome
    BY <1>6, <2>1 DEF ReturnPlayersToMenu, Room!SendHome
  <2>3. QED
    BY <2>2 DEF Room!RoomNext
<1>7. QED
  BY <1>1, <1>2, <1>3, <1>4, <1>5, <1>6 DEF ServerTick

(* So is every step of the match flow.                                       *)
LEMMA NextImplements == IInv /\ IInv' /\ [Next]_vars => [Room!RoomNext]_Room!roomVars
<1> SUFFICES ASSUME IInv, IInv', [Next]_vars
             PROVE  Room!RoomNext \/ UNCHANGED Room!roomVars
  OBVIOUS
<1>1. CASE UNCHANGED vars
  BY <1>1 DEF vars, slotVars, Room!roomVars, RoomStage, RoomContestants, RoomSurvivors,
              LivingPlayers
<1>2. CASE TryJoinQueue
  <2>1. FirstFreeSlot \in Ids
    BY <1>2, FreeSlotExists DEF IInv, TryJoinQueue
  <2>2. QED
    BY <1>2, <2>1, JoinImplements DEF Room!RoomNext
<1>3. CASE \E p \in Ids : RemovePlayer(p)
  BY <1>3, RemoveImplements DEF Room!RoomNext
<1>4. CASE \E p \in Ids : PressReadyForPlayer(p)
  BY <1>4, ReadyImplements DEF Room!RoomNext
<1>5. CASE \E d \in {-1, 1} : SpectateForPlayer(d)
  BY <1>5 DEF SpectateForPlayer, slotVars, Room!roomVars, RoomStage, RoomContestants,
              RoomSurvivors, LivingPlayers
<1>6. CASE ServerTick
  BY <1>6, TickImplements
<1>7. QED
  BY <1>1, <1>2, <1>3, <1>4, <1>5, <1>6 DEF Next

(* The server's match flow implements the abstract room.                     *)
THEOREM Refinement == Spec => ImplementsRoom
  BY InitImplements, NextImplements, Invariance, PTL DEF Spec, ImplementsRoom, Room!RoomSpec
=============================================================================
