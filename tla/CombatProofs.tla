---------------------------- MODULE CombatProofs ----------------------------
(***************************************************************************)
(* Combat for any number of players, enemies and sword hits to a charge:    *)
(* strikes and casting flags agree, every strike is paid for with kills,    *)
(* no kill is counted twice, and no enemy goes on after the dead.           *)
(***************************************************************************)
EXTENDS Combat, MatchFlowProofs

\* Whoever is casting in a match is still charged; no one can cast on credit.
CastersCharged ==
    phase = "IN_PROGRESS" => playerThunderCasting \cap inMatch \subseteq charged

\* In a match an enemy's target has left the room or is in the match.
TargetsInMatch ==
    phase = "IN_PROGRESS" =>
        \A e \in enemies : targetPlayerId[e] \in connected => targetPlayerId[e] \in inMatch

\* Whoever is placed for a match begins it without a kill.
NoKillsBefore == phase \notin {"IN_PROGRESS", "RESULTS"} => KillsScored = {}

KillsCounted == IsFiniteSet(KillsScored) /\ KillsEarned

(***************************************************************************)
(* The inductive invariant.  StrikesPaid needs CastersCharged: what the end *)
(* of a strike spends must still be there.  EnemiesChaseContestants needs   *)
(* TargetsInMatch: retargeting asks only whether a target lives.            *)
(* KillsEarned needs NoKillsBefore, as enemies are numbered from 1 again.   *)
(***************************************************************************)
CombatInv ==
    /\ CombatTypeOK /\ OneStrikePerCaster /\ StrikesPaid /\ CastersCharged /\ TargetsInMatch
    /\ NoKillsBefore /\ KillsCounted

(* What a tick of gameplay relies on in the field it starts from.           *)
FieldOK(f) ==
    /\ f.nextId \in 1 .. MaxEnemyId + 1
    /\ f.foes \subseteq 1 .. f.nextId - 1 /\ Cardinality(f.foes) <= kMaxEnemies
    /\ f.target \in [f.foes -> Ids]
    /\ f.bolts \subseteq [owner : Ids, age : 0 .. EndAge - 1]
    /\ f.casting = {s.owner : s \in f.bolts}
    /\ \A s, t \in f.bolts : s.owner = t.owner => s = t
    /\ f.attack \subseteq Ids /\ f.thunder \subseteq Ids
    /\ f.casting \cap inMatch \subseteq charged
    /\ \A e \in f.foes : f.target[e] \in connected => f.target[e] \in inMatch
    /\ IsFiniteSet(KillsScored)
    /\ Cardinality(KillsScored) + Cardinality(f.foes) < f.nextId

(* Sword kills are counted in naturals, and only attackers have any.        *)
LEMMA SwordKillsCount ==
    ASSUME NEW f, FieldOK(f), NEW A, NEW slash \in [f.foes -> A], NEW p
    PROVE  /\ IsFiniteSet(f.foes) /\ Cardinality(f.foes) \in Nat
           /\ SwordKills(p, slash) \in Nat
           /\ p \notin A => SwordKills(p, slash) = 0
<1>1. IsFiniteSet(f.foes) /\ Cardinality(f.foes) \in Nat
  <2>1. f.nextId - 1 \in Int /\ f.foes \in SUBSET (1 .. f.nextId - 1)
    BY CombatAssumption DEF FieldOK
  <2>2. IsFiniteSet(1 .. f.nextId - 1)
    BY <2>1, FS_Interval
  <2>3. QED
    BY <2>1, <2>2, FS_Subset, FS_CardinalityType
<1>2. {e \in f.foes : slash[e] = p} \in SUBSET f.foes /\ DOMAIN slash = f.foes
  OBVIOUS
<1>3. SwordKills(p, slash) \in Nat
  BY <1>1, <1>2, FS_Subset, FS_CardinalityType DEF SwordKills
<1>4. ASSUME p \notin A PROVE SwordKills(p, slash) = 0
  <2>1. {e \in f.foes : slash[e] = p} = {}
    BY <1>4
  <2>2. QED
    BY <1>2, <2>1, FS_EmptySet DEF SwordKills
<1>5. QED
  BY <1>1, <1>3, <1>4

(* A kill count grows by the sword kills at least.                          *)
LEMMA KillsOfCount ==
    ASSUME NEW f, FieldOK(f), NEW A, NEW slash \in [f.foes -> A],
           NEW B, NEW bolt \in [f.foes -> B], NEW p
    PROVE  /\ KillsOf(p, slash, bolt) \in Nat
           /\ SwordKills(p, slash) <= KillsOf(p, slash, bolt)
<1> DEFINE byBolt == {e \in f.foes : slash[e] = NoPlayer /\ bolt[e] = p}
<1>1. byBolt \in SUBSET f.foes /\ DOMAIN bolt = f.foes /\ IsFiniteSet(f.foes)
  BY SwordKillsCount
<1>2. Cardinality(byBolt) \in Nat
  BY <1>1, FS_Subset, FS_CardinalityType
<1>3. KillsOf(p, slash, bolt) = SwordKills(p, slash) + Cardinality(byBolt)
  BY <1>1 DEF KillsOf
<1>4. QED
  BY <1>2, <1>3, SwordKillsCount

-----------------------------------------------------------------------------
(* The strikes after a tick: of one owner each, and of those still casting. *)
LEMMA StrikesAfterTick ==
    ASSUME TypeOK, NEW f, FieldOK(f), NEW slash
    PROVE  LET casting == Casting(f, slash)
               flying  == InTheAir(Bolts(f, slash))
           IN  /\ flying \subseteq [owner : Ids, age : 0 .. EndAge - 1]
               /\ casting \ Spent(casting, Bolts(f, slash)) = {s.owner : s \in flying}
               /\ \A s, t \in flying : s.owner = t.owner => s = t
               /\ casting \subseteq Ids
<1> DEFINE casters == Casters(f, slash)
           new     == {[owner |-> p, age |-> 0] : p \in casters}
           flying  == InTheAir(Bolts(f, slash))
           casting == Casting(f, slash)
<1>1. casters \subseteq Ids /\ casters \cap f.casting = {}
  BY SlotsAreIds DEF Casters
<1>2. new \subseteq [owner : Ids, age : 0 .. EndAge - 1]
  BY <1>1, CombatAssumption
<1>3. \A s, t \in f.bolts \cup new : s.owner = t.owner => s = t
  BY <1>1 DEF FieldOK
<1>4. {s.owner : s \in f.bolts \cup new} = casting
  <2>1. {s.owner : s \in new} = casters
    <3>1. \A p \in casters : [owner |-> p, age |-> 0] \in new
      OBVIOUS
    <3>2. \A s \in new : s.owner \in casters
      OBVIOUS
    <3>3. \A p : [owner |-> p, age |-> 0].owner = p
      OBVIOUS
    <3> HIDE DEF casters, new
    <3>4. QED
      BY <3>1, <3>2, <3>3
  <2>2. {s.owner : s \in f.bolts \cup new}
          = {s.owner : s \in f.bolts} \cup {s.owner : s \in new}
    OBVIOUS
  <2>3. QED
    BY <2>1, <2>2 DEF FieldOK, Casting
<1>5. Bolts(f, slash) = {[owner |-> s.owner, age |-> s.age + 1] : s \in f.bolts \cup new}
  BY DEF Bolts, Aged
<1>6. f.bolts \cup new \subseteq [owner : Ids, age : 0 .. EndAge - 1]
  BY <1>2 DEF FieldOK
<1>7. flying \subseteq [owner : Ids, age : 0 .. EndAge - 1]
  BY <1>5, <1>6, CombatAssumption DEF InTheAir
<1>8. \A s, t \in flying : s.owner = t.owner => s = t
  BY <1>3, <1>5 DEF InTheAir
<1>9. {s.owner : s \in flying} \subseteq casting
  BY <1>4, <1>5 DEF InTheAir
<1>10. casting \ Spent(casting, Bolts(f, slash)) = {s.owner : s \in flying}
  BY <1>9 DEF Spent
<1>11. casting \subseteq Ids
  BY <1>4, <1>6
<1>12. QED
  BY <1>7, <1>8, <1>10, <1>11

(* A wave of n new ids, from k on, joins the surviving enemies.              *)
LEMMA WaveJoins ==
    ASSUME NEW k \in Nat \ {0}, NEW n \in Nat,
           NEW foes \in SUBSET (1 .. k - 1), NEW S \in SUBSET foes
    PROVE  /\ S \cup (k .. k + n - 1) \subseteq 1 .. k + n - 1
           /\ Cardinality(foes) \in Nat
           /\ Cardinality(S \cup (k .. k + n - 1)) <= Cardinality(foes) + n
<1> DEFINE wave == k .. k + n - 1
<1>1. k \in Int /\ k - 1 \in Int /\ k + n - 1 \in Int
  OBVIOUS
<1>2. S \cup wave \subseteq 1 .. k + n - 1
  OBVIOUS
<1>3. IsFiniteSet(foes) /\ Cardinality(foes) \in Nat
  <2>1. IsFiniteSet(1 .. k - 1)
    BY <1>1, FS_Interval
  <2>2. IsFiniteSet(foes)
    BY <2>1, FS_Subset
  <2>3. QED
    BY <2>2, FS_CardinalityType
<1>4. /\ IsFiniteSet(S) /\ Cardinality(S) \in Nat
      /\ Cardinality(S) <= Cardinality(foes)
  BY <1>3, FS_Subset, FS_CardinalityType
<1>5. IsFiniteSet(wave) /\ Cardinality(wave) = n
  <2>1. IsFiniteSet(wave)
        /\ Cardinality(wave) = IF k > k + n - 1 THEN 0 ELSE (k + n - 1) - k + 1
    BY <1>1, FS_Interval
  <2>2. QED
    BY <2>1
<1>6. IsFiniteSet(S \cap wave) /\ Cardinality(S \cap wave) \in Nat
  BY <1>4, FS_Intersection, FS_CardinalityType
<1>7. Cardinality(S \cup wave) = Cardinality(S) + Cardinality(wave) - Cardinality(S \cap wave)
  BY <1>4, <1>5, FS_Union
<1>8. Cardinality(S \cup wave) <= Cardinality(foes) + n
  <2> HIDE DEF wave
  <2>1. QED
    BY <1>3, <1>4, <1>5, <1>6, <1>7
<1>9. QED
  BY <1>2, <1>3, <1>8

(* The enemies after a tick are within their capacity.                      *)
LEMMA EnemiesAfterTick ==
    ASSUME NEW f, FieldOK(f), NEW n \in WaveSize(f), NEW S \in SUBSET f.foes
    PROVE  LET foes == S \cup (f.nextId .. f.nextId + n - 1)
           IN  /\ f.nextId + n \in 1 .. MaxEnemyId + 1
               /\ foes \subseteq 1 .. f.nextId + n - 1
               /\ Cardinality(foes) <= kMaxEnemies
<1>1. f.nextId \in 1 .. MaxEnemyId + 1 /\ n \in 0 .. MaxEnemyId + 1 - f.nextId
  BY DEF FieldOK, WaveSize
<1>2. MaxEnemyId \in Nat /\ kMaxEnemies \in Nat
  BY CombatAssumption
<1>3. f.nextId \in Nat \ {0} /\ n \in Nat /\ f.nextId + n \in 1 .. MaxEnemyId + 1
  BY <1>1, <1>2
<1>4. f.foes \in SUBSET (1 .. f.nextId - 1) /\ Cardinality(f.foes) <= kMaxEnemies
  BY DEF FieldOK
<1> DEFINE k == f.nextId
           foes == f.foes
           all == S \cup (k .. k + n - 1)
<1>5. /\ all \subseteq 1 .. k + n - 1
      /\ Cardinality(foes) \in Nat
      /\ Cardinality(all) <= Cardinality(foes) + n
  <2> HIDE DEF k, foes
  <2>1. k \in Nat \ {0} /\ foes \in SUBSET (1 .. k - 1) /\ S \in SUBSET foes
    BY <1>3, <1>4 DEF k, foes
  <2>2. QED
    BY <1>3, <2>1, WaveJoins
<1>6. IsFiniteSet(all) /\ Cardinality(all) \in Nat
  <2>1. k + n - 1 \in Int
    BY <1>3
  <2>2. IsFiniteSet(1 .. k + n - 1)
    BY <2>1, FS_Interval
  <2>3. QED
    BY <1>5, <2>2, FS_Subset, FS_CardinalityType
<1>7. Cardinality(all) <= kMaxEnemies
  <2>1. CASE n = 0
    <3> HIDE DEF all, foes
    <3>1. Cardinality(foes) <= kMaxEnemies
      BY <1>4 DEF foes
    <3>2. QED
      BY <1>2, <1>5, <1>6, <2>1, <3>1
  <2>2. CASE n > 0
    <3>1. Cardinality(foes) + n <= kMaxEnemies
      BY <2>2 DEF WaveSize
    <3> HIDE DEF all, foes
    <3>2. QED
      BY <1>2, <1>3, <1>5, <1>6, <3>1
  <2>3. QED
    BY <1>3, <2>1, <2>2
<1>8. QED
  BY <1>3, <1>5, <1>7

(* Retargeting leaves every enemy with a living contestant.                 *)
LEMMA TargetsAfterTick ==
    ASSUME TypeOK, NEW f, FieldOK(f), NEW foes, NEW t \in Targets(f, foes)
    PROVE  /\ t \in [foes -> Ids]
           /\ \A e \in foes : t[e] \in LivingPlayers
  BY SlotsAreIds DEF Targets, KeepsTarget, FieldOK, LivingPlayers

-----------------------------------------------------------------------------
(* Whoever is casting after a cast has the charge, if he is in the match.    *)
LEMMA CastersHaveCharge ==
    ASSUME TypeOK, NEW f, FieldOK(f), NEW slash,
           NEW p \in Casting(f, slash) \cap inMatch
    PROVE  p \in ChargedBySword(slash)
<1>1. CASE p \in f.casting
  BY <1>1 DEF FieldOK, ChargedBySword
<1>2. CASE p \in Casters(f, slash)
  BY <1>2 DEF Casters
<1>3. QED
  BY <1>1, <1>2 DEF Casting

(* Sword hits stay below a full charge, and a contestant's hits, charge and  *)
(* the hits spent so far grow by no more than his kills do.                 *)
LEMMA SwordsPay ==
    ASSUME TypeOK, CombatTypeOK, NEW f, FieldOK(f),
           NEW slash \in [f.foes -> Attackers(f) \cup {NoPlayer}], NEW p \in Ids
    PROVE  /\ HitsAfterSword(p, slash) \in 0 .. hitsToCharge - 1
           /\ HitsAfterSword(p, slash)
                + (IF p \in ChargedBySword(slash) THEN hitsToCharge ELSE 0)
              <= swordHits[p] + (IF p \in charged THEN hitsToCharge ELSE 0)
                + SwordKills(p, slash)
<1> DEFINE w == SwordKills(p, slash)
<1>1. w \in Nat /\ (p \notin LivingPlayers => w = 0)
  <2>1. p # NoPlayer
    BY RoomAssumption DEF Ids, NoPlayer
  <2>2. p \notin LivingPlayers => p \notin Attackers(f) \cup {NoPlayer}
    BY <2>1 DEF Attackers
  <2>3. QED
    BY <2>2, SwordKillsCount
<1>2. swordHits[p] \in 0 .. hitsToCharge - 1 /\ hitsToCharge \in Nat \ {0}
  BY CombatAssumption DEF CombatTypeOK
<1> HIDE DEF w
<1>3. CASE p \in charged
  BY <1>1, <1>2, <1>3 DEF HitsAfterSword, ChargedBySword, w
<1>4. CASE p \notin charged /\ swordHits[p] + w >= hitsToCharge
  <2>1. FillsCharge(p, slash)
    BY <1>4 DEF FillsCharge, w
  <2>2. HitsAfterSword(p, slash) = 0
    BY <1>4, <2>1 DEF HitsAfterSword
  <2>3. QED
    BY <1>1, <1>2, <1>4, <2>2 DEF w
<1>5. CASE p \notin charged /\ swordHits[p] + w < hitsToCharge
  <2>1. ~FillsCharge(p, slash)
    BY <1>1, <1>2, <1>5 DEF FillsCharge, w
  <2>2. HitsAfterSword(p, slash) = swordHits[p] + w
    BY <1>5, <2>1 DEF HitsAfterSword, w
  <2>3. p \notin ChargedBySword(slash)
    BY <1>5, <2>1 DEF ChargedBySword
  <2>4. QED
    BY <1>1, <1>2, <1>5, <2>2, <2>3 DEF w
<1>6. QED
  BY <1>1, <1>2, <1>3, <1>4, <1>5

(* What ends a strike is a charge that is there: the account stays covered.  *)
LEMMA TickIsPaid ==
    ASSUME TypeOK, CombatTypeOK, StrikesPaid, NEW f, FieldOK(f),
           NEW slash \in [f.foes -> Attackers(f) \cup {NoPlayer}],
           NEW B, NEW bolt \in [f.foes -> B],
           NEW spent \in SUBSET Casting(f, slash), NEW p \in inMatch
    PROVE  (IF p \in spent \cap connected THEN hitsSpent[p] + hitsToCharge
            ELSE hitsSpent[p])
            + (IF p \in spent \cap connected THEN 0 ELSE HitsAfterSword(p, slash))
            + (IF p \in ChargedAfter(slash, spent) THEN hitsToCharge ELSE 0)
           <= kills[p] + KillsOf(p, slash, bolt)
<1>1. p \in connected /\ p \in Ids
  BY SlotsAreIds DEF TypeOK
<1>2. /\ swordHits[p] \in Nat /\ hitsSpent[p] \in Nat /\ kills[p] \in Nat
      /\ hitsToCharge \in Nat
  BY <1>1, CombatAssumption DEF CombatTypeOK
<1>3. /\ SwordKills(p, slash) \in Nat /\ KillsOf(p, slash, bolt) \in Nat
      /\ SwordKills(p, slash) <= KillsOf(p, slash, bolt)
  BY SwordKillsCount, KillsOfCount
<1>4. hitsSpent[p] + swordHits[p] + (IF p \in charged THEN hitsToCharge ELSE 0) <= kills[p]
  BY DEF StrikesPaid
<1> DEFINE h == HitsAfterSword(p, slash)
<1>5. /\ h \in Nat
      /\ h + (IF p \in ChargedBySword(slash) THEN hitsToCharge ELSE 0)
          <= swordHits[p] + (IF p \in charged THEN hitsToCharge ELSE 0)
              + SwordKills(p, slash)
  BY <1>1, <1>2, SwordsPay
<1> HIDE DEF h
<1>6. CASE p \in spent
  <2>1. p \in ChargedBySword(slash) /\ p \notin ChargedAfter(slash, spent)
    BY <1>1, <1>6, CastersHaveCharge DEF ChargedAfter
  <2>2. QED
    BY <1>1, <1>2, <1>3, <1>4, <1>5, <1>6, <2>1
<1>7. CASE p \notin spent
  <2>1. p \in ChargedAfter(slash, spent) <=> p \in ChargedBySword(slash)
    BY <1>7 DEF ChargedAfter
  <2>2. QED
    BY <1>1, <1>2, <1>3, <1>4, <1>5, <1>7, <2>1 DEF h
<1>8. QED
  BY <1>6, <1>7

-----------------------------------------------------------------------------
(* Kills are counted by injecting them into the enemies they were made of.     *)

(* The enemies q[p] of the players p, numbered from old[p] on: no more of those  *)
(* numbers than enemies, when no enemy is two players'.                       *)
LEMMA NumberedKills ==
    ASSUME NEW S, NEW D, IsFiniteSet(D), NEW old \in [S -> Nat], NEW q \in [S -> SUBSET D],
           \A p, r \in S : p # r => q[p] \cap q[r] = {},
           NEW new, new = UNION {{p} \X (old[p] + 1 .. old[p] + Cardinality(q[p])) : p \in S}
    PROVE  IsFiniteSet(new) /\ Cardinality(new) <= Cardinality(D)
<1> DEFINE Onto(p) == Bijection(1 .. Cardinality(q[p]), q[p])
           b == [p \in S |-> CHOOSE h : h \in Onto(p)]
           g == [x \in new |-> b[x[1]][x[2] - old[x[1]]]]
<1>1. ASSUME NEW p \in S
      PROVE  /\ Cardinality(q[p]) \in Nat
             /\ \A i \in 1 .. Cardinality(q[p]) : b[p][i] \in q[p]
             /\ \A i, j \in 1 .. Cardinality(q[p]) : b[p][i] = b[p][j] => i = j
  <2>1. IsFiniteSet(q[p])
    BY FS_Subset
  <2>2. Cardinality(q[p]) \in Nat /\ Onto(p) # {}
    BY <2>1, FS_CardinalityType DEF ExistsBijection
  <2>3. b[p] \in Onto(p)
    BY <2>2
  <2>4. b[p] \in Injection(1 .. Cardinality(q[p]), q[p])
    BY <2>3 DEF Bijection
  <2> HIDE DEF b
  <2>5. QED
    BY <2>2, <2>4 DEF Injection, IsInjective
<1> HIDE DEF b, Onto
<1>2. ASSUME NEW x \in new
      PROVE  /\ x[1] \in S /\ x = <<x[1], x[2]>> /\ x[2] \in Int /\ old[x[1]] \in Nat
             /\ x[2] - old[x[1]] \in 1 .. Cardinality(q[x[1]])
  <2>1. PICK p \in S : x \in {p} \X (old[p] + 1 .. old[p] + Cardinality(q[p]))
    OBVIOUS
  <2>2. /\ x[1] = p /\ x[2] \in old[p] + 1 .. old[p] + Cardinality(q[p])
        /\ x = <<x[1], x[2]>>
    BY <2>1
  <2>3. old[p] \in Nat /\ Cardinality(q[p]) \in Nat
    BY <1>1
  <2>4. x[2] - old[p] \in 1 .. Cardinality(q[p]) /\ x[2] \in Int
    BY <2>2, <2>3
  <2>5. QED
    BY <2>2, <2>3, <2>4
<1>3. \A x \in new : g[x] = b[x[1]][x[2] - old[x[1]]]
  OBVIOUS
<1>4. g \in [new -> D]
  BY <1>1, <1>2
<1> HIDE DEF g
<1>5. ASSUME NEW x \in new, NEW y \in new, g[x] = g[y]
      PROVE  x = y
  <2>1. g[x] \in q[x[1]] /\ g[y] \in q[y[1]]
    BY <1>1, <1>2, <1>3
  <2>2. x[1] = y[1]
    BY <1>2, <1>5, <2>1
  <2>3. x[2] - old[x[1]] = y[2] - old[y[1]]
    BY <1>1, <1>2, <1>3, <1>5, <2>2
  <2>4. x[2] = y[2]
    BY <1>2, <2>2, <2>3
  <2>5. QED
    BY <1>2, <2>2, <2>4
<1>6. g \in Injection(new, D)
  BY <1>4, <1>5 DEF Injection, IsInjective
<1>7. QED
  BY <1>6, FS_Injection

(* No one's kills are counted beyond zero when there are none to count.       *)
LEMMA NoneNumbered ==
    ASSUME NEW S, NEW k, \A p \in S : k[p] \in Nat
    PROVE  UNION {{p} \X (1 .. k[p]) : p \in S} = {} <=> \A p \in S : k[p] = 0
<1> DEFINE all == UNION {{p} \X (1 .. k[p]) : p \in S}
<1>1. ASSUME all = {}, NEW p \in S PROVE k[p] = 0
  <2>1. <<p, 1>> \notin {p} \X (1 .. k[p])
    BY <1>1
  <2>2. 1 \notin 1 .. k[p] /\ k[p] \in Nat
    BY <2>1
  <2>3. QED
    BY <2>2
<1>2. ASSUME \A p \in S : k[p] = 0 PROVE all = {}
  <2>1. \A p \in S : {p} \X (1 .. k[p]) = {}
    BY <1>2
  <2>2. QED
    BY <2>1
<1>3. QED
  BY <1>1, <1>2

(* Every kill of a tick has its own enemy among the slain: who loses as many  *)
(* enemies as it gains kills stays within the enemies spawned.              *)
LEMMA KillsAfterTick ==
    ASSUME TypeOK, CombatTypeOK, NEW f, FieldOK(f), NEW A,
           NEW slash \in [f.foes -> A], NEW B, NEW bolt \in [f.foes -> B], NEW n \in Nat,
           NEW scored,
           scored = UNION {{p} \X (1 .. kills[p] + KillsOf(p, slash, bolt)) : p \in inMatch}
    PROVE  /\ IsFiniteSet(scored)
           /\ Cardinality(scored)
                + Cardinality((f.foes \ Slain(f, slash, bolt))
                                \cup (f.nextId .. f.nextId + n - 1))
              < f.nextId + n
<1> DEFINE slain == Slain(f, slash, bolt)
           left  == f.foes \ slain
           bySword(p) == {e \in f.foes : slash[e] = p}
           byBolt(p)  == {e \in f.foes : slash[e] = NoPlayer /\ bolt[e] = p}
           q   == [p \in inMatch |-> bySword(p) \cup byBolt(p)]
           old == [p \in inMatch |-> kills[p]]
           new == UNION {{p} \X (old[p] + 1 .. old[p] + Cardinality(q[p])) : p \in inMatch}
<1>1. IsFiniteSet(f.foes) /\ Cardinality(f.foes) \in Nat /\ slain \in SUBSET f.foes
  BY SwordKillsCount DEF Slain
<1>2. \A p \in inMatch : p # NoPlayer /\ p \in Ids /\ kills[p] \in Nat
  BY SlotsAreIds DEF TypeOK, CombatTypeOK, Ids, NoPlayer
<1>3. ASSUME NEW p \in inMatch
      PROVE  Cardinality(q[p]) = KillsOf(p, slash, bolt) /\ Cardinality(q[p]) \in Nat
  <2>1. bySword(p) \in SUBSET f.foes /\ byBolt(p) \in SUBSET f.foes
    OBVIOUS
  <2>2. bySword(p) \cap byBolt(p) = {}
    BY <1>2
  <2>3. /\ KillsOf(p, slash, bolt) = Cardinality(bySword(p)) + Cardinality(byBolt(p))
        /\ q[p] = bySword(p) \cup byBolt(p)
    BY DEF KillsOf, SwordKills
  <2> HIDE DEF bySword, byBolt, q
  <2>4. /\ IsFiniteSet(bySword(p)) /\ IsFiniteSet(byBolt(p))
        /\ Cardinality(bySword(p)) \in Nat /\ Cardinality(byBolt(p)) \in Nat
    BY <1>1, <2>1, FS_Subset, FS_CardinalityType
  <2>5. Cardinality(bySword(p) \cup byBolt(p))
          = Cardinality(bySword(p)) + Cardinality(byBolt(p)) - Cardinality({})
    BY <2>2, <2>4, FS_Union
  <2>6. QED
    BY <2>3, <2>4, <2>5, FS_EmptySet
<1>4. q \in [inMatch -> SUBSET slain]
  BY <1>2 DEF Slain
<1>5. \A p, r \in inMatch : p # r => q[p] \cap q[r] = {}
  BY <1>2
<1>6. old \in [inMatch -> Nat] /\ \A p \in inMatch : old[p] = kills[p]
  BY <1>2
<1> HIDE DEF slain, q, old
<1>7. IsFiniteSet(slain) /\ Cardinality(slain) \in Nat
  BY <1>1, FS_Subset, FS_CardinalityType
<1>8. IsFiniteSet(new) /\ Cardinality(new) <= Cardinality(slain)
  BY <1>4, <1>5, <1>6, <1>7, NumberedKills
<1>9. scored \subseteq KillsScored \cup new
  <2> SUFFICES ASSUME NEW p \in inMatch,
                      NEW x \in {p} \X (1 .. kills[p] + KillsOf(p, slash, bolt))
               PROVE  x \in KillsScored \cup new
    OBVIOUS
  <2>1. kills[p] \in Nat /\ old[p] = kills[p] /\ Cardinality(q[p]) \in Nat
        /\ Cardinality(q[p]) = KillsOf(p, slash, bolt)
    BY <1>2, <1>3, <1>6
  <2>2. \/ x \in {p} \X (1 .. kills[p])
        \/ x \in {p} \X (old[p] + 1 .. old[p] + Cardinality(q[p]))
    BY <2>1
  <2>3. QED
    BY <2>2 DEF KillsScored
<1> HIDE DEF new
<1>10. /\ IsFiniteSet(KillsScored) /\ Cardinality(KillsScored) \in Nat
       /\ Cardinality(KillsScored) + Cardinality(f.foes) < f.nextId
  BY FS_CardinalityType DEF FieldOK
<1>11. /\ IsFiniteSet(KillsScored \cup new)
       /\ Cardinality(KillsScored \cup new) <= Cardinality(KillsScored) + Cardinality(new)
  <2>1. /\ IsFiniteSet(KillsScored \cup new)
        /\ Cardinality(KillsScored \cup new)
             = Cardinality(KillsScored) + Cardinality(new) - Cardinality(KillsScored \cap new)
    BY <1>8, <1>10, FS_Union
  <2>2. Cardinality(KillsScored \cap new) \in Nat
    BY <1>8, <1>10, FS_Intersection, FS_CardinalityType
  <2>3. Cardinality(new) \in Nat
    BY <1>8, FS_CardinalityType
  <2>4. QED
    BY <1>10, <2>1, <2>2, <2>3
<1>12. /\ IsFiniteSet(scored) /\ Cardinality(scored) \in Nat
       /\ Cardinality(scored) <= Cardinality(KillsScored \cup new)
  BY <1>9, <1>11, FS_Subset, FS_CardinalityType
<1>13. Cardinality(left) + Cardinality(slain) = Cardinality(f.foes)
  <2>1. Cardinality(left) = Cardinality(f.foes) - Cardinality(f.foes \cap slain)
    BY <1>1, FS_Difference
  <2>2. Cardinality(f.foes \cap slain) = Cardinality(slain)
    <3>1. f.foes \cap slain = slain
      BY <1>1
    <3>2. QED
      BY <3>1
  <2> HIDE DEF left
  <2>3. QED
    BY <1>1, <1>7, <2>1, <2>2
<1>14. Cardinality(left \cup (f.nextId .. f.nextId + n - 1)) <= Cardinality(left) + n
  <2>1. f.nextId \in Nat \ {0} /\ left \in SUBSET (1 .. f.nextId - 1) /\ left \in SUBSET left
    BY CombatAssumption DEF FieldOK
  <2> HIDE DEF left
  <2>2. QED
    BY <2>1, WaveJoins
<1>15. f.nextId \in Int /\ Cardinality(left) \in Nat
       /\ Cardinality(left \cup (f.nextId .. f.nextId + n - 1)) \in Nat
  <2>1. f.nextId \in Int /\ f.nextId + n - 1 \in Int
    BY CombatAssumption DEF FieldOK
  <2>2. IsFiniteSet(left) /\ IsFiniteSet(f.nextId .. f.nextId + n - 1)
    BY <1>1, <2>1, FS_Difference, FS_Interval
  <2>3. IsFiniteSet(left \cup (f.nextId .. f.nextId + n - 1))
    BY <2>2, FS_Union
  <2>4. QED
    BY <2>1, <2>2, <2>3, FS_CardinalityType
<1>16. Cardinality(new) \in Nat /\ Cardinality(KillsScored \cup new) \in Nat
  BY <1>8, <1>11, FS_CardinalityType
<1> DEFINE all == left \cup (f.nextId .. f.nextId + n - 1)
<1>17. Cardinality(all) <= Cardinality(left) + n /\ Cardinality(all) \in Nat
  BY <1>14, <1>15
<1>18. Cardinality(scored) + Cardinality(all) < f.nextId + n
  <2> HIDE DEF all, left
  <2>1. QED
    BY <1>7, <1>8, <1>10, <1>11, <1>12, <1>13, <1>15, <1>16, <1>17
<1>19. QED
  BY <1>12, <1>18 DEF slain

-----------------------------------------------------------------------------
(* A tick of gameplay leaves every part of the invariant as it should be.    *)
LEMMA GameplayKeepsInv ==
    ASSUME TypeOK, CombatTypeOK, StrikesPaid, NEW f, FieldOK(f),
           NEW waves \in SUBSET WaveSize(f), NEW dead, Gameplay(f, waves, dead),
           connected' = connected, inMatch' = inMatch, phase' = "IN_PROGRESS"
    PROVE  CombatInv' /\ \A e \in enemies' : targetPlayerId'[e] \in LivingPlayers
<1>0. PICK slash \in [f.foes -> Attackers(f) \cup {NoPlayer}] :
        \E bolt \in [f.foes -> Landing(Bolts(f, slash)) \cup {NoPlayer}], n \in waves :
          Outcome(f, slash, bolt, n, dead)
  BY DEF Gameplay
<1>1. PICK bolt \in [f.foes -> Landing(Bolts(f, slash)) \cup {NoPlayer}], n \in waves :
        Outcome(f, slash, bolt, n, dead)
  BY <1>0
<1> DEFINE casting == Casting(f, slash)
           flying  == InTheAir(Bolts(f, slash))
           spent   == Spent(casting, Bolts(f, slash))
<1>2. spent \in SUBSET casting
  BY DEF Spent
<1>3. /\ flying \subseteq [owner : Ids, age : 0 .. EndAge - 1]
      /\ casting \ spent = {s.owner : s \in flying}
      /\ \A s, t \in flying : s.owner = t.owner => s = t
      /\ casting \subseteq Ids
  BY StrikesAfterTick
<1>4. strikes' = flying /\ playerThunderCasting' = casting \ spent
  BY <1>1 DEF Outcome
<1>5. /\ nextEnemyId' \in 1 .. MaxEnemyId + 1
      /\ enemies' \subseteq 1 .. nextEnemyId' - 1
      /\ Cardinality(enemies') <= kMaxEnemies
  <2>1. n \in WaveSize(f)
    BY <1>1
  <2> DEFINE S == f.foes \ Slain(f, slash, bolt)
  <2>2. S \in SUBSET f.foes
    OBVIOUS
  <2>3. /\ nextEnemyId' = f.nextId + n
        /\ enemies' = S \cup (f.nextId .. f.nextId + n - 1)
    BY <1>1 DEF Outcome
  <2> HIDE DEF S
  <2>4. /\ f.nextId + n \in 1 .. MaxEnemyId + 1
        /\ S \cup (f.nextId .. f.nextId + n - 1) \subseteq 1 .. f.nextId + n - 1
        /\ Cardinality(S \cup (f.nextId .. f.nextId + n - 1)) <= kMaxEnemies
    BY <2>1, <2>2, EnemiesAfterTick
  <2>5. f.nextId \in Int /\ n \in Int
    BY <2>1, CombatAssumption DEF FieldOK, WaveSize
  <2>6. QED
    BY <2>3, <2>4, <2>5
<1>6. /\ targetPlayerId' \in [enemies' -> Ids]
      /\ \A e \in enemies' : targetPlayerId'[e] \in LivingPlayers
  <2>1. targetPlayerId' \in Targets(f, enemies')
    BY <1>1 DEF Outcome
  <2>2. QED
    BY <2>1, TargetsAfterTick
<1>7. /\ pendingAttack' \subseteq Ids /\ pendingThunder' \subseteq Ids
      /\ lastRemoteInputs' \in [Ids -> SUBSET Buttons]
  BY <1>1 DEF Outcome, FieldOK, CombatTypeOK
<1>8. swordHits' \in [Ids -> 0 .. hitsToCharge - 1]
  <2>1. swordHits' = [p \in Ids |-> IF p \in spent \cap connected THEN 0
                                    ELSE HitsAfterSword(p, slash)]
    BY <1>1 DEF Outcome
  <2>2. \A p \in Ids : HitsAfterSword(p, slash) \in 0 .. hitsToCharge - 1
    BY <1>1, SwordsPay
  <2>3. 0 \in 0 .. hitsToCharge - 1
    BY CombatAssumption
  <2>4. QED
    BY <2>1, <2>2, <2>3
<1>9. charged' \subseteq Ids
  <2>1. charged' = ChargedAfter(slash, spent)
    BY <1>1 DEF Outcome
  <2>2. QED
    BY <2>1, SlotsAreIds DEF ChargedAfter, ChargedBySword, CombatTypeOK
<1>10. kills' \in [Ids -> Nat]
  <2>1. kills' = [p \in Ids |-> IF p \in inMatch THEN kills[p] + KillsOf(p, slash, bolt)
                                ELSE kills[p]]
    BY <1>1 DEF Outcome
  <2>2. \A p \in Ids : KillsOf(p, slash, bolt) \in Nat /\ kills[p] \in Nat
    BY <1>1, KillsOfCount DEF CombatTypeOK
  <2>3. QED
    BY <2>1, <2>2
<1>11. hitsSpent' \in [Ids -> Nat]
  <2>1. hitsSpent' = [p \in Ids |-> IF p \in spent \cap connected
                                    THEN hitsSpent[p] + hitsToCharge ELSE hitsSpent[p]]
    BY <1>1 DEF Outcome
  <2>2. hitsToCharge \in Nat /\ \A p \in Ids : hitsSpent[p] \in Nat
    BY CombatAssumption DEF CombatTypeOK
  <2>3. QED
    BY <2>1, <2>2
<1>12. CombatTypeOK'
  <2>1. playerThunderCasting' \subseteq Ids
    BY <1>3, <1>4
  <2>2. strikes' \subseteq [owner : Ids, age : 0 .. EndAge - 1]
    BY <1>3, <1>4
  <2>3. QED
    BY <1>5, <1>6, <1>7, <1>8, <1>9, <1>10, <1>11, <2>1, <2>2 DEF CombatTypeOK
<1>13. OneStrikePerCaster'
  <2>1. playerThunderCasting' = {s.owner : s \in flying}
    BY <1>3, <1>4
  <2>2. QED
    BY <1>3, <1>4, <2>1 DEF OneStrikePerCaster
<1>14. StrikesPaid'
  <2> SUFFICES ASSUME NEW p \in inMatch
               PROVE  hitsSpent'[p] + swordHits'[p]
                        + (IF p \in charged' THEN hitsToCharge ELSE 0) <= kills'[p]
    BY DEF StrikesPaid
  <2>1. p \in Ids
    BY SlotsAreIds DEF TypeOK
  <2>2. /\ hitsSpent'[p] = IF p \in spent \cap connected
                           THEN hitsSpent[p] + hitsToCharge ELSE hitsSpent[p]
        /\ swordHits'[p] = IF p \in spent \cap connected THEN 0
                           ELSE HitsAfterSword(p, slash)
        /\ charged' = ChargedAfter(slash, spent)
        /\ kills'[p] = kills[p] + KillsOf(p, slash, bolt)
    BY <1>1, <2>1 DEF Outcome
  <2>3. spent \in SUBSET Casting(f, slash)
    BY <1>2
  <2> HIDE DEF spent
  <2>4. (IF p \in spent \cap connected THEN hitsSpent[p] + hitsToCharge
         ELSE hitsSpent[p])
         + (IF p \in spent \cap connected THEN 0 ELSE HitsAfterSword(p, slash))
         + (IF p \in ChargedAfter(slash, spent) THEN hitsToCharge ELSE 0)
        <= kills[p] + KillsOf(p, slash, bolt)
    BY <2>3, TickIsPaid
  <2>5. QED
    BY <2>2, <2>4
<1>15. CastersCharged'
  <2> SUFFICES ASSUME NEW p \in playerThunderCasting' \cap inMatch PROVE p \in charged'
    BY DEF CastersCharged
  <2>1. p \in casting /\ p \notin spent
    BY <1>4
  <2>2. p \in ChargedBySword(slash)
    BY <2>1, CastersHaveCharge
  <2>3. QED
    BY <1>1, <2>1, <2>2 DEF Outcome, ChargedAfter
<1>16. TargetsInMatch'
  BY <1>6 DEF TargetsInMatch, LivingPlayers
<1>17. NoKillsBefore' /\ KillsCounted'
  <2> DEFINE scored ==
        UNION {{p} \X (1 .. kills[p] + KillsOf(p, slash, bolt)) : p \in inMatch}
             all == (f.foes \ Slain(f, slash, bolt)) \cup (f.nextId .. f.nextId + n - 1)
  <2>1. n \in Nat
    BY DEF WaveSize
  <2>2. IsFiniteSet(scored) /\ Cardinality(scored) + Cardinality(all) < f.nextId + n
    BY <2>1, KillsAfterTick
  <2>3. \A p \in inMatch : kills'[p] = kills[p] + KillsOf(p, slash, bolt)
    BY <1>1, SlotsAreIds DEF Outcome, TypeOK
  <2>4. KillsScored' = scored
    BY <2>3 DEF KillsScored
  <2>5. enemies' = all /\ nextEnemyId' = f.nextId + n
    BY <1>1 DEF Outcome
  <2> HIDE DEF scored, all
  <2>6. QED
    BY <2>2, <2>4, <2>5 DEF KillsCounted, KillsEarned, NoKillsBefore
<1>18. QED
  BY <1>6, <1>12, <1>13, <1>14, <1>15, <1>16, <1>17 DEF CombatInv

-----------------------------------------------------------------------------
(* The field of a running match, and that of a new one, are as a tick needs. *)
LEMMA RunningFieldOK ==
    ASSUME CombatInv, phase = "IN_PROGRESS"
    PROVE  FieldOK(Field)
  BY DEF CombatInv, CombatTypeOK, OneStrikePerCaster, CastersCharged, TargetsInMatch,
         KillsCounted, KillsEarned, FieldOK, Field

LEMMA OpeningFieldOK ==
    ASSUME TypeOK, NoKillsBefore, phase = "COUNTDOWN", NEW f \in OpeningFields
    PROVE  FieldOK(f)
<1>0. PICK n \in {m \in 0 .. 2 : m <= kMaxEnemies /\ m <= MaxEnemyId} :
        \E t \in [1 .. n -> LivingPlayers] :
          f = [foes |-> 1 .. n, target |-> t, nextId |-> n + 1, bolts |-> {},
               casting |-> {}, attack |-> {}, thunder |-> {}]
  BY DEF OpeningFields
<1>1. PICK t \in [1 .. n -> LivingPlayers] :
        f = [foes |-> 1 .. n, target |-> t, nextId |-> n + 1, bolts |-> {},
             casting |-> {}, attack |-> {}, thunder |-> {}]
  BY <1>0
<1>2. /\ n \in Nat /\ n <= kMaxEnemies /\ n <= MaxEnemyId /\ n + 1 - 1 = n
      /\ MaxEnemyId \in Nat
  BY CombatAssumption
<1>3. Cardinality(1 .. n) = n
  <2>1. Cardinality(1 .. n) = IF 1 > n THEN 0 ELSE n - 1 + 1
    BY <1>2, FS_Interval
  <2>2. QED
    BY <1>2, <2>1
<1>4. LivingPlayers \subseteq Ids /\ LivingPlayers \subseteq inMatch
  BY SlotsAreIds DEF LivingPlayers
<1>5. n + 1 \in 1 .. MaxEnemyId + 1
  BY <1>2
<1>6. KillsScored = {}
  BY DEF NoKillsBefore
<1>7. IsFiniteSet(KillsScored) /\ Cardinality(KillsScored) + Cardinality(1 .. n) < n + 1
  BY <1>2, <1>3, <1>6, FS_EmptySet
<1> QED
  BY <1>1, <1>2, <1>3, <1>4, <1>5, <1>7 DEF FieldOK

-----------------------------------------------------------------------------
(* The actions in which no gameplay happens.                                *)

(* A step that leaves the fight alone may only take players out of a match.  *)
LEMMA QuietKeepsInv ==
    ASSUME CombatInv, UNCHANGED combatVars, inMatch' \subseteq inMatch,
           phase' = "IN_PROGRESS" =>
             /\ phase = "IN_PROGRESS" /\ connected' \subseteq connected
             /\ inMatch' = inMatch \cap connected',
           \/ phase' \in {"IN_PROGRESS", "RESULTS"} \/ inMatch' = {}
           \/ phase \notin {"IN_PROGRESS", "RESULTS"}
    PROVE  CombatInv'
<1> USE DEF combatVars, fieldVars, fighterVars
<1>1. CombatTypeOK'
  BY DEF CombatInv, CombatTypeOK
<1>2. OneStrikePerCaster'
  BY DEF CombatInv, OneStrikePerCaster
<1>3. StrikesPaid'
  BY DEF CombatInv, StrikesPaid
<1>4. CastersCharged'
  BY DEF CombatInv, CastersCharged
<1>5. TargetsInMatch'
  BY DEF CombatInv, TargetsInMatch
<1>6. KillsScored' \subseteq KillsScored
  BY DEF KillsScored
<1>7. NoKillsBefore'
  <2>1. inMatch' = {} => KillsScored' = {}
    BY DEF KillsScored
  <2>2. QED
    BY <1>6, <2>1 DEF CombatInv, NoKillsBefore
<1>8. KillsCounted'
  <2>1. IsFiniteSet(KillsScored) /\ KillsEarned /\ enemies \subseteq 1 .. nextEnemyId - 1
        /\ nextEnemyId \in 1 .. MaxEnemyId + 1
    BY DEF CombatInv, KillsCounted, CombatTypeOK
  <2>2. /\ IsFiniteSet(KillsScored') /\ Cardinality(KillsScored') \in Nat
        /\ Cardinality(KillsScored) \in Nat
        /\ Cardinality(KillsScored') <= Cardinality(KillsScored)
    BY <1>6, <2>1, FS_Subset, FS_CardinalityType
  <2>3. Cardinality(enemies) \in Nat /\ nextEnemyId \in Int
    <3>1. nextEnemyId \in Int /\ nextEnemyId - 1 \in Int
      BY <2>1, CombatAssumption
    <3>2. IsFiniteSet(1 .. nextEnemyId - 1)
      BY <3>1, FS_Interval
    <3>3. IsFiniteSet(enemies)
      BY <2>1, <3>2, FS_Subset
    <3>4. QED
      BY <3>1, <3>3, FS_CardinalityType
  <2>4. Cardinality(KillsScored') + Cardinality(enemies) < nextEnemyId
    BY <2>1, <2>2, <2>3 DEF KillsEarned
  <2>5. QED
    BY <2>2, <2>4 DEF KillsCounted, KillsEarned
<1>9. QED
  BY <1>1, <1>2, <1>3, <1>4, <1>5, <1>7, <1>8 DEF CombatInv

(* Fresh fighters owe nothing, and the others' accounts are as they were.    *)
LEMMA FreshFightersKeep ==
    ASSUME CombatTypeOK, StrikesPaid, NEW S, FreshFighters(S)
    PROVE  /\ swordHits' \in [Ids -> 0 .. hitsToCharge - 1] /\ charged' \subseteq Ids
           /\ kills' \in [Ids -> Nat] /\ hitsSpent' \in [Ids -> Nat]
           /\ \A p \in Ids : p \in S \cup inMatch =>
                hitsSpent'[p] + swordHits'[p]
                  + (IF p \in charged' THEN hitsToCharge ELSE 0) <= kills'[p]
<1>1. 0 \in 0 .. hitsToCharge - 1
  BY CombatAssumption
<1>2. ASSUME NEW p \in Ids, p \in S \cup inMatch
      PROVE  hitsSpent'[p] + swordHits'[p]
               + (IF p \in charged' THEN hitsToCharge ELSE 0) <= kills'[p]
  <2>1. CASE p \in S
    BY <1>2, <2>1 DEF FreshFighters
  <2>2. CASE p \notin S
    BY <1>2, <2>2 DEF FreshFighters, StrikesPaid
  <2>3. QED
    BY <2>1, <2>2
<1>3. QED
  BY <1>1, <1>2 DEF FreshFighters, CombatTypeOK

(* A step outside a match that resets those it places.                      *)
LEMMA LobbyKeepsInv ==
    ASSUME CombatInv, NEW S, FreshFighters(S), UNCHANGED <<lastRemoteInputs, fieldVars>>,
           inMatch \subseteq Ids,
           inMatch' \subseteq Ids, inMatch' \subseteq S \cup inMatch,
           phase \notin {"IN_PROGRESS", "RESULTS"}, phase' # "IN_PROGRESS"
    PROVE  CombatInv'
<1>1. CombatTypeOK /\ StrikesPaid /\ OneStrikePerCaster
  BY DEF CombatInv
<1>2. CombatTypeOK'
  BY <1>1, FreshFightersKeep DEF CombatTypeOK, fieldVars
<1>3. OneStrikePerCaster'
  BY <1>1 DEF OneStrikePerCaster, fieldVars
<1>4. StrikesPaid'
  BY <1>1, FreshFightersKeep DEF StrikesPaid
<1>5. CastersCharged' /\ TargetsInMatch'
  BY DEF CastersCharged, TargetsInMatch
<1>6. KillsScored = {} /\ KillsCounted
  BY DEF CombatInv, NoKillsBefore
<1>7. KillsScored' = {}
  <2>1. \A p \in inMatch : kills[p] \in Nat
    BY <1>1 DEF CombatTypeOK
  <2>2. \A p \in inMatch : kills[p] = 0
    BY <1>6, <2>1, NoneNumbered DEF KillsScored
  <2>3. \A p \in inMatch' : kills'[p] = 0
    BY <2>2 DEF FreshFighters
  <2> DEFINE S1 == inMatch'
             k1 == kills'
  <2>4. UNION {{p} \X (1 .. k1[p]) : p \in S1} = {}
    <3> HIDE DEF S1, k1
    <3>1. \A p \in S1 : k1[p] \in Nat /\ k1[p] = 0
      BY <2>3 DEF S1, k1
    <3>2. QED
      BY <3>1, NoneNumbered
  <2>5. QED
    BY <2>4 DEF KillsScored
<1>8. NoKillsBefore' /\ KillsCounted'
  BY <1>6, <1>7 DEF NoKillsBefore, KillsCounted, KillsEarned, fieldVars
<1>9. QED
  BY <1>2, <1>3, <1>4, <1>5, <1>8 DEF CombatInv

-----------------------------------------------------------------------------
(* One lemma for each action that does more than take players out.          *)
LEMMA JoinKeepsInv ==
    ASSUME IInv, IInv', CombatInv, Join
    PROVE  CombatInv'
<1>1. /\ inMatch \subseteq Ids /\ inMatch' \subseteq Ids
      /\ inMatch' \subseteq {FirstFreeSlot} \cup inMatch
      /\ phase \notin {"IN_PROGRESS", "RESULTS"} /\ phase' # "IN_PROGRESS"
  BY SlotsAreIds DEF Join, TryJoinQueue, JoinResult, IInv, TypeOK
<1>2. QED
  BY <1>1, LobbyKeepsInv DEF Join

LEMMA PressReadyKeepsInv ==
    ASSUME IInv, CombatInv, NEW p \in Ids, PressReady(p)
    PROVE  CombatInv'
<1>1. phase = "QUEUE" /\ inMatch \subseteq Ids /\ QueuedPlayers \subseteq Ids
  BY SlotsAreIds DEF PressReady, PressReadyForPlayer, canPressReady, IInv, TypeOK
<1> DEFINE S == IF phase' = "COUNTDOWN" THEN QueuedPlayers ELSE {}
<1>2. /\ inMatch' \subseteq Ids /\ inMatch' \subseteq S \cup inMatch
      /\ phase' # "IN_PROGRESS"
  BY <1>1 DEF PressReady, PressReadyForPlayer, PlacePlayersAtSpawn
<1>3. FreshFighters(S) /\ UNCHANGED <<lastRemoteInputs, fieldVars>>
  BY DEF PressReady
<1>4. QED
  BY <1>1, <1>2, <1>3, LobbyKeepsInv

LEMMA SetRemoteInputKeepsInv ==
    ASSUME CombatInv, NEW p \in Ids, NEW pressed \in Presses, SetRemoteInput(p, pressed)
    PROVE  CombatInv'
<1> USE DEF SetRemoteInput, vars, slotVars, fighterVars
<1>1. pressed \subseteq Buttons
  BY CombatAssumption
<1>2. CombatTypeOK'
  BY <1>1 DEF CombatInv, CombatTypeOK
<1>3. OneStrikePerCaster'
  BY DEF CombatInv, OneStrikePerCaster
<1>4. StrikesPaid'
  BY DEF CombatInv, StrikesPaid
<1>5. CastersCharged' /\ TargetsInMatch'
  BY DEF CombatInv, CastersCharged, TargetsInMatch
<1>6. NoKillsBefore' /\ KillsCounted'
  BY DEF CombatInv, NoKillsBefore, KillsCounted, KillsEarned, KillsScored
<1>7. QED
  BY <1>2, <1>3, <1>4, <1>5, <1>6 DEF CombatInv

LEMMA BackToMenuKeepsInv ==
    ASSUME CombatInv, BackToMenu
    PROVE  CombatInv'
<1>1. CombatTypeOK /\ StrikesPaid /\ inMatch' = {} /\ phase' # "IN_PROGRESS"
  BY DEF CombatInv, BackToMenu, ReturnPlayersToMenu
<1>2. CombatTypeOK'
  <2>1. /\ swordHits' \in [Ids -> 0 .. hitsToCharge - 1] /\ charged' \subseteq Ids
        /\ kills' \in [Ids -> Nat] /\ hitsSpent' \in [Ids -> Nat]
    BY <1>1, FreshFightersKeep DEF BackToMenu
  <2>2. /\ pendingAttack' = {} /\ pendingThunder' = {} /\ playerThunderCasting' = {}
        /\ strikes' = {} /\ enemies' = {} /\ targetPlayerId' = <<>> /\ nextEnemyId' = 1
        /\ lastRemoteInputs' = lastRemoteInputs
    BY DEF BackToMenu, EmptyField
  <2>3. 1 \in 1 .. MaxEnemyId + 1 /\ Cardinality({}) <= kMaxEnemies
    BY CombatAssumption, FS_EmptySet
  <2>4. <<>> \in [{} -> Ids]
    OBVIOUS
  <2>5. QED
    BY <1>1, <2>1, <2>2, <2>3, <2>4 DEF CombatTypeOK
<1>3. OneStrikePerCaster'
  BY DEF BackToMenu, EmptyField, OneStrikePerCaster
<1>4. StrikesPaid' /\ CastersCharged' /\ TargetsInMatch'
  BY <1>1 DEF StrikesPaid, CastersCharged, TargetsInMatch
<1>5. NoKillsBefore' /\ KillsCounted'
  <2>1. KillsScored' = {} /\ enemies' = {} /\ nextEnemyId' = 1
    BY <1>1 DEF KillsScored, BackToMenu, EmptyField
  <2>2. QED
    BY <2>1, FS_EmptySet DEF NoKillsBefore, KillsCounted, KillsEarned
<1>6. QED
  BY <1>2, <1>3, <1>4, <1>5 DEF CombatInv

(* The two ticks with gameplay; their targets are contestants alive.         *)
LEMMA GameplayTicksKeepInv ==
    ASSUME IInv, CombatInv, Start \/ Fight
    PROVE  CombatInv' /\ \A e \in enemies' : targetPlayerId'[e] \in LivingPlayers
<1>1. TypeOK /\ CombatTypeOK /\ StrikesPaid /\ NoKillsBefore
  BY DEF IInv, CombatInv
<1>2. CASE Start
  <2>1. PICK f \in OpeningFields : Gameplay(f, {0}, {})
    BY <1>2 DEF Start
  <2>2. FieldOK(f)
    BY <1>1, <1>2, OpeningFieldOK DEF Start, StartMatch
  <2>3. {0} \in SUBSET WaveSize(f)
    BY <2>2, CombatAssumption DEF WaveSize, FieldOK
  <2>4. connected' = connected /\ inMatch' = inMatch /\ phase' = "IN_PROGRESS"
    BY <1>2 DEF Start, StartMatch, slotVars
  <2>5. QED
    BY <1>1, <2>1, <2>2, <2>3, <2>4, GameplayKeepsInv
<1>3. CASE Fight
  <2>1. PICK dead \in SUBSET Ids : TickMatch(dead) /\ Gameplay(Field, WaveSize(Field), dead)
    BY <1>3 DEF Fight
  <2>2. FieldOK(Field)
    BY <2>1, RunningFieldOK DEF TickMatch
  <2>3. connected' = connected /\ inMatch' = inMatch /\ phase' = "IN_PROGRESS"
    BY <2>1 DEF TickMatch
  <2> DEFINE f == Field
             waves == WaveSize(f)
  <2>4. FieldOK(f) /\ waves \in SUBSET WaveSize(f) /\ Gameplay(f, waves, dead)
    BY <2>1, <2>2
  <2> HIDE DEF f, waves
  <2>5. QED
    BY <1>1, <2>3, <2>4, GameplayKeepsInv
<1>4. QED
  BY <1>2, <1>3

(* Leaving, spectating and the ticks without gameplay.                       *)
LEMMA QuietStepsKeepInv ==
    ASSUME IInv, CombatInv,
           \/ \E p \in Ids : Leave(p)
           \/ \E direction \in {-1, 1} : Spectate(direction)
           \/ QuietTick
    PROVE  CombatInv'
<1>1. inMatch \subseteq connected /\ phase \in MatchPhase
  BY DEF IInv, TypeOK
<1>2. ASSUME NEW p \in Ids, Leave(p) PROVE CombatInv'
  <2>1. /\ inMatch' \subseteq inMatch /\ connected' \subseteq connected
        /\ inMatch' = inMatch \cap connected'
        /\ phase' = "IN_PROGRESS" => phase = "IN_PROGRESS"
        /\ \/ phase' \in {"IN_PROGRESS", "RESULTS"} \/ inMatch' = {}
           \/ phase \notin {"IN_PROGRESS", "RESULTS"}
    BY <1>1, <1>2 DEF Leave, RemovePlayer, PhaseAfterRemoval
  <2>2. QED
    BY <1>2, <2>1, QuietKeepsInv DEF Leave
<1>3. ASSUME NEW direction \in {-1, 1}, Spectate(direction) PROVE CombatInv'
  <2>1. inMatch' = inMatch /\ connected' = connected /\ phase' = phase
    BY <1>3 DEF Spectate, SpectateForPlayer, slotVars
  <2>2. QED
    BY <1>1, <1>3, <2>1, QuietKeepsInv DEF Spectate
<1>4. CASE QuietTick
  <2>1. inMatch' = inMatch /\ phase' # "IN_PROGRESS"
        /\ (phase' = "RESULTS" \/ phase \notin {"IN_PROGRESS", "RESULTS"})
    BY <1>4 DEF QuietTick, TickCountdown, EndMatch, TickResults, slotVars
  <2>2. QED
    BY <1>4, <2>1, QuietKeepsInv DEF QuietTick
<1>5. QED
  BY <1>2, <1>3, <1>4

-----------------------------------------------------------------------------
(* Combat adds to the match flow and takes nothing away: what is proved of   *)
(* MatchFlow holds of a server whose players fight.                         *)
LEMMA CombatRunsMatchFlow == CombatSpec => Spec
<1>1. CombatInit => Init
  BY DEF CombatInit
<1>2. [CombatNext]_allVars => [Next]_vars
  <2> SUFFICES ASSUME [CombatNext]_allVars PROVE [Next]_vars
    OBVIOUS
  <2>1. CASE UNCHANGED allVars
    BY <2>1 DEF allVars
  <2>2. CASE Join
    BY <2>2 DEF Join, Next
  <2>3. ASSUME NEW p \in Ids, Leave(p) \/ PressReady(p) PROVE [Next]_vars
    BY <2>3 DEF Leave, PressReady, Next
  <2>4. ASSUME NEW p \in Ids, NEW pressed \in Presses, SetRemoteInput(p, pressed)
        PROVE  [Next]_vars
    BY <2>4 DEF SetRemoteInput
  <2>5. ASSUME NEW direction \in {-1, 1}, Spectate(direction) PROVE [Next]_vars
    BY <2>5 DEF Spectate, Next
  <2>6. CASE Start \/ Fight \/ BackToMenu \/ QuietTick
    BY <2>6 DEF Start, Fight, BackToMenu, QuietTick, Next, ServerTick
  <2>7. QED
    BY <2>1, <2>2, <2>3, <2>4, <2>5, <2>6 DEF CombatNext
<1>3. QED
  BY <1>1, <1>2, PTL DEF CombatSpec, Spec

LEMMA CombatInitInv == CombatInit => CombatInv
<1> SUFFICES ASSUME CombatInit PROVE CombatInv
  OBVIOUS
<1> USE DEF CombatInit, Init
<1>1. CombatTypeOK
  <2>1. 1 \in 1 .. MaxEnemyId + 1 /\ Cardinality({}) <= kMaxEnemies
        /\ 0 \in 0 .. hitsToCharge - 1
    BY CombatAssumption, FS_EmptySet
  <2>2. <<>> \in [{} -> Ids]
    OBVIOUS
  <2>3. QED
    BY <2>1, <2>2 DEF CombatTypeOK
<1>2. OneStrikePerCaster /\ StrikesPaid /\ CastersCharged /\ TargetsInMatch
  BY DEF OneStrikePerCaster, StrikesPaid, CastersCharged, TargetsInMatch
<1>3. NoKillsBefore /\ KillsCounted
  <2>1. KillsScored = {} /\ enemies = {} /\ nextEnemyId = 1
    BY DEF KillsScored
  <2>2. QED
    BY <2>1, FS_EmptySet DEF NoKillsBefore, KillsCounted, KillsEarned
<1>4. QED
  BY <1>1, <1>2, <1>3 DEF CombatInv

LEMMA CombatNextInv == IInv /\ IInv' /\ CombatInv /\ [CombatNext]_allVars => CombatInv'
<1> SUFFICES ASSUME IInv, IInv', CombatInv, [CombatNext]_allVars PROVE CombatInv'
  OBVIOUS
<1>1. CASE UNCHANGED allVars
  <2>1. UNCHANGED <<vars, combatVars>>
    BY <1>1 DEF allVars
  <2>2. inMatch' = inMatch /\ connected' = connected /\ phase' = phase
    BY <2>1 DEF vars, slotVars
  <2>3. inMatch \subseteq connected
    BY DEF IInv, TypeOK
  <2>4. QED
    BY <2>1, <2>2, <2>3, QuietKeepsInv
<1>2. CASE Join
  BY <1>2, JoinKeepsInv
<1>3. ASSUME NEW p \in Ids, PressReady(p) PROVE CombatInv'
  BY <1>3, PressReadyKeepsInv
<1>4. ASSUME NEW p \in Ids, NEW pressed \in Presses, SetRemoteInput(p, pressed)
      PROVE  CombatInv'
  BY <1>4, SetRemoteInputKeepsInv
<1>5. CASE Start \/ Fight
  BY <1>5, GameplayTicksKeepInv
<1>6. CASE BackToMenu
  BY <1>6, BackToMenuKeepsInv
<1>7. QED
  BY <1>1, <1>2, <1>3, <1>4, <1>5, <1>6, QuietStepsKeepInv DEF CombatNext

THEOREM CombatInvariance == CombatSpec => [](IInv /\ CombatInv)
  BY CombatRunsMatchFlow, Invariance, CombatInitInv, CombatNextInv, PTL DEF CombatSpec

(* Ids, strikes, enemies and counts stay within their ranges: no wave takes  *)
(* the enemies beyond kMaxEnemies.                                          *)
THEOREM CombatTypeCorrect == CombatSpec => []CombatTypeOK
<1>1. CombatInv => CombatTypeOK
  BY DEF CombatInv
<1>2. QED
  BY <1>1, CombatInvariance, PTL

(* tryThunderCast() and tickThunderStrikes() keep the casting flags and the  *)
(* strikes in step, also for players who leave while their strike is up.    *)
THEOREM OneStrike == CombatSpec => []OneStrikePerCaster
<1>1. CombatInv => OneStrikePerCaster
  BY DEF CombatInv
<1>2. QED
  BY <1>1, CombatInvariance, PTL

(* No strike is cast on credit, whatever number of hits fills a charge.      *)
THEOREM ThunderIsPaid == CombatSpec => []StrikesPaid
<1>1. CombatInv => StrikesPaid
  BY DEF CombatInv
<1>2. QED
  BY <1>1, CombatInvariance, PTL

(* registerKill() is called once for an enemy, by the sword or by a bolt:    *)
(* with any number of players and bolts, no kill is one too many.           *)
THEOREM KillsAreEarned == CombatSpec => []KillsEarned
<1>1. CombatInv => KillsEarned
  BY DEF CombatInv, KillsCounted
<1>2. QED
  BY <1>1, CombatInvariance, PTL

(* retargetEnemiesFromDeadPlayers() leaves no enemy with a target who is     *)
(* dead or gone.                                                            *)
THEOREM EnemiesChase == CombatSpec => EnemiesChaseContestants
<1> DEFINE Chases ==
      Start \/ Fight => \A e \in enemies' : targetPlayerId'[e] \in LivingPlayers
<1>1. IInv /\ CombatInv => Chases
  BY GameplayTicksKeepInv
<1>2. IInv /\ CombatInv /\ [CombatNext]_allVars => [Chases]_allVars
  BY <1>1
<1>3. QED
  BY <1>2, CombatInvariance, PTL DEF CombatSpec, EnemiesChaseContestants
=============================================================================
