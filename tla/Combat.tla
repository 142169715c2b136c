------------------------------- MODULE Combat -------------------------------
(***************************************************************************)
(* A match as it is fought on the server: MatchFlow with the inputs of the  *)
(* players, sword and thunderstrike, the enemies and the kill counts.       *)
(*                                                                         *)
(* Positions are left out: which enemies stand in a sword's cone or near a  *)
(* bolt, where a wave succeeds, whom enemies touch are choices.  An enemy   *)
(* is its id.  Between two ticks every enemy of the vector is alive, since  *)
(* each tick ends with removeDeadEnemies().  remoteInputs is never read to  *)
(* another effect than lastRemoteInputs: setRemoteInput() writes both.      *)
(***************************************************************************)
EXTENDS MatchFlow

CONSTANTS
    hitsToCharge,    \* sword hits that charge a player
    HitAge, EndAge,  \* ticks after which a strike hits, and is finished
    kMaxEnemies,     \* no enemy spawns while so many are in the vector
    MaxEnemyId,      \* bound of the model: enemies spawned in one match
    Presses          \* bound of the model: the button states clients send

Buttons == {"attack", "thunder"}

ASSUME CombatAssumption ==
    /\ hitsToCharge \in Nat \ {0}
    /\ HitAge \in Nat \ {0} /\ EndAge \in Nat /\ HitAge < EndAge
    /\ kMaxEnemies \in Nat \ {0}
    /\ MaxEnemyId \in Nat
    /\ Presses \subseteq SUBSET Buttons

VARIABLES
    lastRemoteInputs,               \* the buttons of the last C_INPUT of each id
    pendingAttack, pendingThunder,  \* ids with a press no tick has used yet
    playerThunderCasting,           \* ids whose strike is in the air
    strikes,                        \* records [owner, age]
    enemies,                        \* ids of the enemies
    targetPlayerId,                 \* whom each enemy chases
    nextEnemyId,
    swordHits, charged,             \* fields of Character
    kills,                          \* PlayerSlot::kills
    hitsSpent                       \* history: hits paid for strikes in this match

fieldVars  == <<pendingAttack, pendingThunder, playerThunderCasting, strikes, enemies,
                targetPlayerId, nextEnemyId>>
fighterVars == <<swordHits, charged, kills, hitsSpent>>
combatVars == <<lastRemoteInputs, fieldVars, fighterVars>>
allVars    == <<vars, combatVars>>

-----------------------------------------------------------------------------
(* One tick of gameplay, from a field: the values of fieldVars it starts    *)
(* from.  slash[e] and bolt[e] are the players whose sword and whose bolt   *)
(* reach enemy e in this tick, or NoPlayer.                                *)

Field == [foes |-> enemies, target |-> targetPlayerId, nextId |-> nextEnemyId,
          bolts |-> strikes, casting |-> playerThunderCasting,
          attack |-> pendingAttack, thunder |-> pendingThunder]

\* Those who strike with the sword: a press not used yet, or one still in force.
Attackers(f) ==
    {p \in LivingPlayers : p \in f.attack \/ "attack" \in lastRemoteInputs[p]}

SwordKills(p, slash) == Cardinality({e \in DOMAIN slash : slash[e] = p})

\* registerSwordHit(), once for each enemy hit: a charged player's hits are lost.
FillsCharge(p, slash) ==
    p \notin charged /\ swordHits[p] + SwordKills(p, slash) >= hitsToCharge
ChargedBySword(slash) == charged \cup {p \in LivingPlayers : FillsCharge(p, slash)}
HitsAfterSword(p, slash) ==
    IF p \in charged THEN swordHits[p]
    ELSE IF FillsCharge(p, slash) THEN 0
    ELSE swordHits[p] + SwordKills(p, slash)

\* Mutated form: a second strike may be cast while the first is in the air.
CastersAgain(f, slash) ==
    {p \in LivingPlayers :
        /\ p \in f.thunder \/ "thunder" \in lastRemoteInputs[p]
        /\ p \in ChargedBySword(slash)
        /\ \E e \in f.foes : slash[e] = NoPlayer \/ slash[e] > p}

(* tryThunderCast(): players act in slot order, and a strike needs an enemy *)
(* which the swords of those up to the caster left alive.                   *)
Casters(f, slash) ==
    {p \in LivingPlayers :
        /\ p \in f.thunder \/ "thunder" \in lastRemoteInputs[p]
        /\ p \in ChargedBySword(slash)
        /\ p \notin f.casting
        /\ \E e \in f.foes : slash[e] = NoPlayer \/ slash[e] > p}

\* The strikes after their tick, those of this tick's casters included.
Aged(f, casters) ==
    {[owner |-> s.owner, age |-> s.age + 1] :
        s \in f.bolts \cup {[owner |-> p, age |-> 0] : p \in casters}}

\* Owners of the strikes that hit in this tick: each strike does so once.
Landing(aged) == {s.owner : s \in {t \in aged : t.age = HitAge}}

InTheAir(aged) == {s \in aged : s.age < EndAge}

\* Those who were casting and own no strike any more: their charge is consumed.
Spent(casting, aged) == {p \in casting : \A s \in InTheAir(aged) : s.owner # p}

\* Mutated form: the end of a strike does not reset the charge.
ChargeKept(slash, spent) == ChargedBySword(slash)

\* consumeCharge() of those whose strike is over.
ChargedAfter(slash, spent) == ChargedBySword(slash) \ (spent \cap connected)

\* Mutated form: a bolt kills what a sword has killed in the same tick.
BoltKillsTheDead(p, slash, bolt) ==
    SwordKills(p, slash) + Cardinality({e \in DOMAIN bolt : bolt[e] = p})

\* What registerKill() is called for with p: an enemy dies of the sword first.
KillsOf(p, slash, bolt) ==
    SwordKills(p, slash)
    + Cardinality({e \in DOMAIN bolt : slash[e] = NoPlayer /\ bolt[e] = p})

Slain(f, slash, bolt) == {e \in f.foes : slash[e] # NoPlayer \/ bolt[e] # NoPlayer}

\* Mutated form: the capacity is not checked for each enemy of a wave.
WaveSizeUnchecked(f) == 0 .. MaxEnemyId + 1 - f.nextId

\* How many enemies a wave may add, with the slain still in the vector.
WaveSize(f) ==
    {n \in 0 .. MaxEnemyId + 1 - f.nextId :
        n > 0 => Cardinality(f.foes) + n <= kMaxEnemies /\ LivingPlayers # {}}

\* Mutated form: whoever is still connected stays the target.
KeepsTargetInRoom(p) == p \in connected

\* retargetEnemiesFromDeadPlayers() leaves an enemy with such a target alone.
KeepsTarget(p) == p \in connected \cap alive

(* The round robin is abstracted to any living contestant.                  *)
Targets(f, foes) ==
    {t \in [foes -> Ids] : \A e \in foes :
        IF e \in f.foes /\ KeepsTarget(f.target[e]) THEN t[e] = f.target[e]
        ELSE t[e] \in LivingPlayers}

\* Who is casting, and the strikes, before those that are over are dropped.
Casting(f, slash) == f.casting \cup Casters(f, slash)
Bolts(f, slash)   == Aged(f, Casters(f, slash))

(* What tickServer does after tickMatchFlow in a match: swords and casts of *)
(* the living in slot order, the strikes, a wave of n enemies, the enemies' *)
(* targets, contact damage to the players of dead.                         *)
Outcome(f, slash, bolt, n, dead) ==
    LET spent == Spent(Casting(f, slash), Bolts(f, slash)) IN
    /\ pendingAttack' = f.attack \ Attackers(f)
    /\ pendingThunder' = f.thunder \ Casters(f, slash)
    /\ strikes' = InTheAir(Bolts(f, slash))
    /\ playerThunderCasting' = Casting(f, slash) \ spent
    /\ nextEnemyId' = f.nextId + n
    /\ enemies' = (f.foes \ Slain(f, slash, bolt)) \cup (f.nextId .. f.nextId + n - 1)
    /\ targetPlayerId' \in Targets(f, enemies')
    /\ dead # {} => enemies' # {}
    /\ kills' = [p \in Ids |-> IF p \in inMatch THEN kills[p] + KillsOf(p, slash, bolt)
                               ELSE kills[p]]
    /\ charged' = ChargedAfter(slash, spent)
    /\ swordHits' = [p \in Ids |-> IF p \in spent \cap connected THEN 0
                                   ELSE HitsAfterSword(p, slash)]
    /\ hitsSpent' = [p \in Ids |-> IF p \in spent \cap connected
                                   THEN hitsSpent[p] + hitsToCharge ELSE hitsSpent[p]]
    /\ UNCHANGED lastRemoteInputs

Gameplay(f, waves, dead) ==
    \E slash \in [f.foes -> Attackers(f) \cup {NoPlayer}] :
    \E bolt \in [f.foes -> Landing(Bolts(f, slash)) \cup {NoPlayer}], n \in waves :
        Outcome(f, slash, bolt, n, dead)

-----------------------------------------------------------------------------
EmptyField ==
    /\ pendingAttack' = {} /\ pendingThunder' = {} /\ playerThunderCasting' = {}
    /\ strikes' = {} /\ enemies' = {} /\ targetPlayerId' = <<>> /\ nextEnemyId' = 1

\* A Character that is reset, and a score of 0, for the players of S.
FreshFighters(S) ==
    /\ swordHits' = [p \in Ids |-> IF p \in S THEN 0 ELSE swordHits[p]]
    /\ charged' = charged \ S
    /\ kills' = [p \in Ids |-> IF p \in S THEN 0 ELSE kills[p]]
    /\ hitsSpent' = [p \in Ids |-> IF p \in S THEN 0 ELSE hitsSpent[p]]

CombatInit ==
    /\ Init
    /\ lastRemoteInputs = [p \in Ids |-> {}]
    /\ pendingAttack = {} /\ pendingThunder = {} /\ playerThunderCasting = {}
    /\ strikes = {} /\ enemies = {} /\ targetPlayerId = <<>> /\ nextEnemyId = 1
    /\ swordHits = [p \in Ids |-> 0] /\ charged = {}
    /\ kills = [p \in Ids |-> 0] /\ hitsSpent = [p \in Ids |-> 0]

(* A new player has a fresh Character and no kills.  The input of the slot's *)
(* last player stays.                                                       *)
Join ==
    /\ TryJoinQueue
    /\ FreshFighters({FirstFreeSlot})
    /\ UNCHANGED <<lastRemoteInputs, fieldVars>>

Leave(p) == RemovePlayer(p) /\ UNCHANGED combatVars

PressReady(p) ==
    /\ PressReadyForPlayer(p)
    /\ FreshFighters(IF phase' = "COUNTDOWN" THEN QueuedPlayers ELSE {})
    /\ UNCHANGED <<lastRemoteInputs, fieldVars>>

Spectate(direction) == SpectateForPlayer(direction) /\ UNCHANGED combatVars

(* C_INPUT, which is accepted in every phase, and from the registered peer  *)
(* of a player who is gone as well.                                        *)
SetRemoteInput(p, pressed) ==
    /\ lastRemoteInputs' = [lastRemoteInputs EXCEPT ![p] = pressed]
    /\ pendingAttack' = IF "attack" \in pressed THEN pendingAttack \cup {p}
                        ELSE pendingAttack
    /\ pendingThunder' = IF "thunder" \in pressed THEN pendingThunder \cup {p}
                         ELSE pendingThunder
    /\ UNCHANGED <<vars, playerThunderCasting, strikes, enemies, targetPlayerId,
                   nextEnemyId, fighterVars>>

\* The field of a new match: resetMatchState(), then two attempts to spawn.
OpeningFields ==
    UNION {
      {[foes |-> 1 .. n, target |-> t, nextId |-> n + 1, bolts |-> {}, casting |-> {},
        attack |-> {}, thunder |-> {}] : t \in [1 .. n -> LivingPlayers]} :
      n \in {m \in 0 .. 2 : m <= kMaxEnemies /\ m <= MaxEnemyId}}

(* The first tick of gameplay comes with the start, too early for a wave.   *)
Start ==
    /\ StartMatch
    /\ \E f \in OpeningFields : Gameplay(f, {0}, {})

Fight ==
    \E dead \in SUBSET Ids :
        /\ TickMatch(dead)
        /\ Gameplay(Field, WaveSize(Field), dead)

BackToMenu ==
    /\ ReturnPlayersToMenu
    /\ EmptyField
    /\ FreshFighters(Ids)
    /\ UNCHANGED lastRemoteInputs

QuietTick == (TickCountdown \/ EndMatch \/ TickResults) /\ UNCHANGED combatVars

CombatNext ==
    \/ Join
    \/ \E p \in Ids : Leave(p) \/ PressReady(p)
    \/ \E p \in Ids, pressed \in Presses : SetRemoteInput(p, pressed)
    \/ \E direction \in {-1, 1} : Spectate(direction)
    \/ Start \/ Fight \/ BackToMenu \/ QuietTick

CombatSpec == CombatInit /\ [][CombatNext]_allVars

-----------------------------------------------------------------------------
(* Properties.                                                             *)

CombatTypeOK ==
    /\ lastRemoteInputs \in [Ids -> SUBSET Buttons]
    /\ pendingAttack \subseteq Ids /\ pendingThunder \subseteq Ids
    /\ playerThunderCasting \subseteq Ids
    /\ strikes \subseteq [owner : Ids, age : 0 .. EndAge - 1]
    /\ nextEnemyId \in 1 .. MaxEnemyId + 1
    /\ enemies \subseteq 1 .. nextEnemyId - 1 /\ Cardinality(enemies) <= kMaxEnemies
    /\ targetPlayerId \in [enemies -> Ids]
    /\ swordHits \in [Ids -> 0 .. hitsToCharge - 1] /\ charged \subseteq Ids
    /\ kills \in [Ids -> Nat] /\ hitsSpent \in [Ids -> Nat]

\* The kills of those in the match, each by its player and number.
KillsScored == UNION {{p} \X (1 .. kills[p]) : p \in inMatch}

(* No kill is counted twice and none is carried over from an earlier match: *)
(* the kills of those in the match and the living enemies never exceed the  *)
(* enemies spawned, though swords and bolts meet on one enemy in a tick.    *)
KillsEarned ==
    Cardinality(KillsScored) + Cardinality(enemies) < nextEnemyId

(* A player's casting flag says that a strike of his is in the air, and     *)
(* there is never a second one: the client draws one bolt for each owner,   *)
(* and the flag alone guards the next cast.                                 *)
OneStrikePerCaster ==
    /\ playerThunderCasting = {s.owner : s \in strikes}
    /\ \A s, t \in strikes : s.owner = t.owner => s = t

(* Thunder is paid for with kills by the sword: the hits that paid for the  *)
(* strikes that are over, those of the charge at hand and those towards the *)
(* next one are all kills of this match.                                    *)
StrikesPaid ==
    \A p \in inMatch :
        hitsSpent[p] + swordHits[p] + (IF p \in charged THEN hitsToCharge ELSE 0) <= kills[p]

(* An enemy never goes on after somebody who is dead or gone: after a tick  *)
(* every enemy chases a contestant who was alive when the tick began.       *)
EnemiesChaseContestants ==
    [][Start \/ Fight
        => \A e \in enemies' : targetPlayerId'[e] \in LivingPlayers]_allVars

=============================================================================
