------------------------- MODULE StreamServerProofs -------------------------
(***************************************************************************)
(* Proofs about StreamServer, for any number of sockets, slots and packets:  *)
(* poll() survives the handlers that change the list it loops over.           *)
(***************************************************************************)
EXTENDS StreamServer, FiniteSetTheorems, SequenceTheorems, WellFoundedInduction, TLAPS

(***************************************************************************)
(* What std::remove() leaves.                                              *)
(***************************************************************************)

(* Ranks number the positions that stay, from 1 on, without a gap.           *)
LEMMA RankIsBijective ==
    ASSUME NEW S \in SUBSET Nat, IsFiniteSet(S)
    PROVE  /\ \A i \in S : Rank(i, S) \in 1 .. Cardinality(S)
           /\ \A i, j \in S : i < j => Rank(i, S) < Rank(j, S)
           /\ \A k \in 1 .. Cardinality(S) : \E i \in S : Rank(i, S) = k
<1> DEFINE Upto(i) == {j \in S : j <= i}
           n == Cardinality(S)
           f == [i \in S |-> Rank(i, S)]
<1>1. n \in Nat
  BY FS_CardinalityType
<1>2. \A i \in S : /\ IsFiniteSet(Upto(i)) /\ Cardinality(Upto(i)) \in Nat
                   /\ Cardinality(Upto(i)) <= n
  <2> TAKE i \in S
  <2>1. Upto(i) \in SUBSET S
    OBVIOUS
  <2>2. QED
    BY <2>1, FS_Subset, FS_CardinalityType
<1>3. \A i \in S : Cardinality(Upto(i)) # 0
  <2> TAKE i \in S
  <2>1. i \in Upto(i)
    OBVIOUS
  <2>2. QED
    BY <2>1, <1>2, FS_EmptySet
<1>4. ASSUME NEW i \in S, NEW j \in S, i < j
      PROVE  Cardinality(Upto(i)) < Cardinality(Upto(j))
  <2>1. Upto(i) \in SUBSET Upto(j) /\ j \in Upto(j) /\ j \notin Upto(i)
    <3>1. i \in Nat /\ j \in Nat /\ \A k \in S : k \in Nat
      OBVIOUS
    <3>2. \A k \in S : k <= i => k <= j
      BY <3>1, <1>4
    <3>3. j <= j /\ ~(j <= i)
      BY <3>1, <1>4
    <3>4. QED
      BY <3>2, <3>3
  <2>2. Upto(i) # Upto(j)
    BY <2>1
  <2> HIDE DEF Upto
  <2>3. /\ Cardinality(Upto(i)) <= Cardinality(Upto(j))
        /\ Cardinality(Upto(j)) # Cardinality(Upto(i))
    BY <2>1, <2>2, <1>2, FS_Subset
  <2>4. QED
    BY <2>3, <1>2
<1>5. \A i \in S : Rank(i, S) = Cardinality(Upto(i))
  BY DEF Rank
<1>7. \A i, j \in S : i < j => Rank(i, S) < Rank(j, S)
  BY <1>4, <1>5
<1> HIDE DEF Upto
<1>6. \A i \in S : Rank(i, S) \in 1 .. n
  BY <1>1, <1>2, <1>3, <1>5
<1>8. f \in Injection(S, 1 .. n)
  <2>1. f \in [S -> 1 .. n]
    BY <1>6
  <2>2. ASSUME NEW i \in S, NEW j \in S, f[i] = f[j]
        PROVE  i = j
    <3>1. ~(i < j) /\ ~(j < i)
      BY <2>2, <1>6, <1>7
    <3>2. QED
      BY <3>1
  <2>3. QED
    BY <2>1, <2>2 DEF Injection, IsInjective
<1>9. IsFiniteSet(1 .. n) /\ Cardinality(1 .. n) = n
  BY <1>1, FS_Interval
<1> HIDE DEF f
<1>10. f \in Surjection(S, 1 .. n)
  BY <1>8, <1>9, FS_Injection
<1>11. \A k \in 1 .. n : \E i \in S : Rank(i, S) = k
  BY <1>10 DEF Surjection, f
<1>12. QED
  BY <1>6, <1>7, <1>11

\* No entry occurs twice.
Distinct(list) == \A i, j \in DOMAIN list : list[i] = list[j] => i = j

(* What stays is a list of what was there and is not in gone, no longer than  *)
(* before, without an entry twice if there was none.                         *)
LEMMA WithoutProperties ==
    ASSUME NEW S, NEW list \in Seq(S), NEW gone
    PROVE  LET kept == Without(list, gone)
           IN  /\ kept \in Seq(S)
               /\ Len(kept) <= Len(list)
               /\ ToSet(kept) = ToSet(list) \ gone
               /\ Distinct(list) => Distinct(kept)
<1> DEFINE stay == {i \in DOMAIN list : list[i] \notin gone}
           n == Cardinality(stay)
           pos(k) == CHOOSE i \in stay : Rank(i, stay) = k
           kept == [k \in 1 .. n |-> list[pos(k)]]
<1>1. DOMAIN list = 1 .. Len(list) /\ Len(list) \in Nat
  BY LenProperties
<1>2. IsFiniteSet(DOMAIN list) /\ Cardinality(DOMAIN list) = Len(list)
  BY <1>1, FS_Interval
<1>3. /\ stay \in SUBSET DOMAIN list /\ stay \in SUBSET Nat
      /\ IsFiniteSet(stay) /\ n \in Nat /\ n <= Len(list)
  BY <1>1, <1>2, FS_Subset, FS_CardinalityType
<1>4. \A k \in 1 .. n : pos(k) \in stay /\ Rank(pos(k), stay) = k
  <2>1. \A k \in 1 .. n : \E i \in stay : Rank(i, stay) = k
    BY <1>3, RankIsBijective
  <2>2. QED
    BY <2>1
<1>5. \A i \in stay : Rank(i, stay) \in 1 .. n /\ pos(Rank(i, stay)) = i
  <2> TAKE i \in stay
  <2>1. Rank(i, stay) \in 1 .. n
    BY <1>3, RankIsBijective
  <2>2. pos(Rank(i, stay)) \in stay /\ Rank(pos(Rank(i, stay)), stay) = Rank(i, stay)
    BY <2>1, <1>4
  <2>3. \A j \in stay : Rank(j, stay) = Rank(i, stay) => j = i
    <3> TAKE j \in stay
    <3>1. /\ Rank(i, stay) \in Nat /\ Rank(j, stay) \in Nat /\ i \in Nat /\ j \in Nat
          /\ i < j => Rank(i, stay) < Rank(j, stay)
          /\ j < i => Rank(j, stay) < Rank(i, stay)
      BY <1>3, RankIsBijective
    <3>2. QED
      BY <3>1
  <2>4. QED
    BY <2>1, <2>2, <2>3
<1>6. Without(list, gone) = kept
  BY DEF Without
<1>7. \A k \in 1 .. n : kept[k] = list[pos(k)] /\ list[pos(k)] \in S /\ list[pos(k)] \notin gone
  BY <1>3, <1>4, ElementOfSeq, <1>1
<1>8. kept \in Seq(S) /\ Len(kept) = n /\ DOMAIN kept = 1 .. n
  <2>1. kept \in [1 .. n -> S]
    BY <1>7
  <2> HIDE DEF kept, n
  <2>2. kept \in Seq(S)
    BY <2>1, <1>3
  <2>3. QED
    BY <2>1, <2>2, <1>3
<1>9. ToSet(kept) = ToSet(list) \ gone
  <2>1. ASSUME NEW v \in ToSet(kept) PROVE v \in ToSet(list) \ gone
    BY <2>1, <1>8, <1>7, <1>4, <1>3 DEF ToSet
  <2>2. ASSUME NEW v \in ToSet(list) \ gone PROVE v \in ToSet(kept)
    <3>1. PICK i \in DOMAIN list : v = list[i]
      BY DEF ToSet
    <3>2. i \in stay
      BY <3>1
    <3>3. kept[Rank(i, stay)] = v /\ Rank(i, stay) \in DOMAIN kept
      BY <3>1, <3>2, <1>5, <1>7, <1>8
    <3>4. QED
      BY <3>3 DEF ToSet
  <2>3. QED
    BY <2>1, <2>2
<1>10. ASSUME Distinct(list) PROVE Distinct(kept)
  <2> SUFFICES ASSUME NEW k \in 1 .. n, NEW l \in 1 .. n, kept[k] = kept[l]
               PROVE  k = l
    BY <1>8 DEF Distinct
  <2>1. pos(k) = pos(l)
    BY <1>4, <1>3, <1>10, <1>7 DEF Distinct
  <2>2. QED
    BY <2>1, <1>4
<1> HIDE DEF kept
<1>11. QED
  BY <1>6, <1>8, <1>9, <1>10, <1>3

-----------------------------------------------------------------------------
(***************************************************************************)
(* The inductive invariant.  ListIsOpenSockets holds inside poll() as well:  *)
(* what handlers close they erase.  NoOrphanPlayers does not, since a client  *)
(* that leaves and joins in one read is registered for a socket already      *)
(* closed: but the loop is still at that socket, finds it ended, and frees    *)
(* the slot again.  That nobody else depends on a socket that was found       *)
(* ended needs EndedAreDown: a socket the loop leaves as it was is up.        *)
(***************************************************************************)
Remotes == {"none", "up", "closed", "aborted", "dead", "killed"}

LoopOK ==
    /\ last <= Len(slots)
    /\ \/ at = 0 /\ socket = 0 /\ last = 0 /\ chunk = <<>> /\ toRemove = {}
       \/ at = kMaxClients + 1 /\ socket = 0 /\ chunk = <<>>
       \/ at \in 1 .. last /\ socket \in Fds

EndedAreDown == \A fd \in toRemove : remote[fd] # "up"

ListOK == Distinct(clientSockets) /\ Listed = Opened

\* A connection that is registered for a slot and is not about to be dropped.
Holds(fd, id) ==
    playerIdByPeer[fd] = id /\ (fd \in Opened \ toRemove \/ fd = socket)
PlayersHeld == \A id \in players : \E fd \in Fds : Holds(fd, id)

PollInv ==
    /\ StreamTypeOK /\ LoopOK /\ EndedAreDown
    /\ Alive => ListOK /\ PlayersHeld

(***************************************************************************)
(* What the operations of the server leave.                                *)
(***************************************************************************)

(* A set of naturals that is not empty has its Min.                          *)
LEMMA LeastOfNaturals ==
    ASSUME NEW S \in SUBSET Nat, S # {}
    PROVE  Min(S) \in S
<1> DEFINE Below == OpToRel(<, Nat)
<1>1. IsWellFoundedOn(Below, Nat)
  BY NatLessThanWellFounded
<1>2. \A x, y \in Nat : y < x => <<y, x>> \in Below
  BY DEF OpToRel
<1> HIDE DEF Below
<1>3. PICK x \in S : \A y \in S : <<y, x>> \notin Below
  BY <1>1, WFMin
<1>4. \A y \in S : x \in Nat /\ y \in Nat /\ ~(y < x)
  BY <1>2, <1>3
<1>5. \A y \in S : x <= y
  BY <1>4
<1>6. QED
  BY <1>5 DEF Min

(* A send() opens and closes no connection here.                             *)
LEMMA SendKeeps ==
    ASSUME NEW r \in Remotes, NEW q \in AfterSend(r)
    PROVE  /\ q \in Remotes
           /\ q = "none" <=> r = "none"
           /\ q = "up" <=> r = "up"
  BY DEF AfterSend, Remotes

(* Nor do any number of them.                                              *)
LEMMA SendsKeep ==
    ASSUME NEW kernel \in [Fds -> Remotes], NEW times,
           NEW after \in SendEach(kernel, times)
    PROVE  /\ after \in [Fds -> Remotes]
           /\ \A fd \in Fds : /\ after[fd] = "none" <=> kernel[fd] = "none"
                              /\ after[fd] = "up" <=> kernel[fd] = "up"
<1>1. after \in [Fds -> Remotes] /\ \A fd \in Fds : after[fd] \in AfterSends(kernel[fd], times[fd])
  BY DEF SendEach, Remotes
<1>2. ASSUME NEW fd \in Fds
      PROVE  /\ after[fd] = "none" <=> kernel[fd] = "none"
             /\ after[fd] = "up" <=> kernel[fd] = "up"
  <2>1. kernel[fd] \in Remotes
    OBVIOUS
  <2>2. CASE times[fd] = 0
    BY <1>1, <2>2 DEF AfterSends
  <2>3. CASE times[fd] = 1
    BY <1>1, <2>1, <2>3, SendKeeps DEF AfterSends
  <2>4. CASE times[fd] = 2
    <3>1. PICK q \in AfterSend(kernel[fd]) : after[fd] \in AfterSend(q)
      BY <1>1, <2>4 DEF AfterSends
    <3>2. QED
      BY <2>1, <3>1, SendKeeps
  <2>5. CASE times[fd] \notin {0, 1, 2}
    <3>1. PICK q \in AfterSend(kernel[fd]) : \E p \in AfterSend(q) : after[fd] \in AfterSend(p)
      BY <1>1, <2>5 DEF AfterSends
    <3>2. PICK p \in AfterSend(q) : after[fd] \in AfterSend(p)
      BY <3>1
    <3>3. /\ q \in Remotes /\ (q = "none" <=> kernel[fd] = "none")
          /\ q = "up" <=> kernel[fd] = "up"
      BY <2>1, <3>1, SendKeeps
    <3>4. /\ p \in Remotes /\ (p = "none" <=> q = "none")
          /\ p = "up" <=> q = "up"
      BY <3>2, <3>3, SendKeeps
    <3>5. QED
      BY <3>2, <3>3, <3>4, SendKeeps
  <2>6. QED
    BY <2>2, <2>3, <2>4, <2>5
<1>3. QED
  BY <1>1, <1>2

(* The list is a list of descriptors, its own entries.                       *)
LEMMA ListIsSeq ==
    ASSUME StreamTypeOK
    PROVE  /\ clientSockets \in Seq(Fds) /\ Len(clientSockets) = size
           /\ DOMAIN clientSockets = 1 .. size
           /\ size \in Nat /\ Listed \subseteq Fds
<1>1. slots \in Seq(Fds) /\ size \in 0 .. Len(slots) /\ Len(slots) \in Nat
  BY DEF StreamTypeOK
<1>2. clientSockets \in Seq(Fds) /\ Len(clientSockets) = size
  BY <1>1, SubSeqProperties DEF clientSockets
<1>3. QED
  BY <1>1, <1>2, ElementOfSeq DEF Listed, ToSet

(* Erasing a descriptor takes it off the list, whose storage stays as long.   *)
LEMMA EraseTakesOff ==
    ASSUME StreamTypeOK, NEW fd \in Fds, SetList(Erase(fd, List))
    PROVE  /\ slots' \in Seq(Fds) /\ Len(slots') = Len(slots)
           /\ size' \in 0 .. Len(slots')
           /\ Listed' = Listed \ {fd}
           /\ Distinct(clientSockets) => Distinct(clientSockets')
<1> DEFINE kept == Without(clientSockets, {fd})
           tail == SubSeq(slots, Len(kept) + 1, Len(slots))
<1>1. slots \in Seq(Fds) /\ size \in 0 .. Len(slots) /\ Len(slots) \in Nat
  BY DEF StreamTypeOK
<1>2. /\ kept \in Seq(Fds) /\ Len(kept) <= size /\ Len(kept) \in Nat
      /\ ToSet(kept) = Listed \ {fd}
      /\ Distinct(clientSockets) => Distinct(kept)
  BY ListIsSeq, WithoutProperties DEF Listed
<1>3. slots' = kept \o tail /\ size' = Len(kept)
  BY DEF SetList, Erase, List, clientSockets
<1> HIDE DEF kept
<1>4. tail \in Seq(Fds) /\ Len(tail) = Len(slots) - Len(kept)
  BY <1>1, <1>2, SubSeqProperties
<1> HIDE DEF tail
<1>5. slots' \in Seq(Fds) /\ Len(slots') = Len(slots)
  BY <1>1, <1>2, <1>3, <1>4, ConcatProperties
<1>6. SubSeq(slots', 1, size') = kept
  <2>1. SubSeq(kept \o tail, 1, Len(kept)) = kept
    BY <1>2, <1>4, ConcatSimplifications, SubSeqOfConcat1, SubSeqFull
  <2>2. QED
    BY <2>1, <1>3
<1>7. clientSockets' = kept
  BY <1>6 DEF clientSockets
<1>8. Listed' = ToSet(kept)
  BY <1>7 DEF Listed
<1>9. size' \in 0 .. Len(slots')
  BY <1>1, <1>2, <1>3, <1>5
<1>10. QED
  BY <1>2, <1>5, <1>7, <1>8, <1>9

(* The loop goes on to a position with a descriptor, or it is over.           *)
LEMMA GoesOn ==
    ASSUME NEW from \in Nat \ {0}, NEW storage \in Seq(Fds), NEW readable,
           GoOn(from, storage, readable)
    PROVE  \/ at' = kMaxClients + 1 /\ socket' = 0
           \/ at' \in 1 .. Len(storage) /\ socket' \in Fds
<1> DEFINE next == {i \in from .. Len(storage) : storage[i] \in readable}
<1>1. Len(storage) \in Nat /\ next \subseteq 1 .. Len(storage)
  OBVIOUS
<1>2. CASE next = {}
  BY <1>2 DEF GoOn
<1>3. CASE next # {}
  <2>1. Min(next) \in next
    <3>1. next \in SUBSET Nat
      BY <1>1
    <3>2. QED
      BY <3>1, <1>3, LeastOfNaturals
  <2>2. at' = Min(next) /\ socket' = storage[at']
    BY <1>3 DEF GoOn
  <2>3. QED
    BY <2>1, <2>2, <1>1, ElementOfSeq
<1>4. QED
  BY <1>2, <1>3

-----------------------------------------------------------------------------
(***************************************************************************)
(* Every step keeps the invariant.                                         *)
(***************************************************************************)
LEMMA InitHolds == StreamInit => PollInv
<1> SUFFICES ASSUME StreamInit PROVE PollInv
  OBVIOUS
<1>1. StreamTypeOK
  <2>1. <<>> \in Seq(Fds) /\ <<>> \in Seq({"JOIN", "LEAVE"}) /\ Len(<<>>) = 0
    BY EmptySeq
  <2>2. slots \in Seq(Fds) /\ size \in 0 .. Len(slots) /\ Len(slots) <= kMaxClients
    BY <2>1, StreamAssumption DEF StreamInit
  <2>3. /\ remote \in [Fds -> Remotes] /\ inbox \in [Fds -> Seq({"JOIN", "LEAVE"})]
        /\ playerIdByPeer \in [Fds -> Ids \cup {NoId}]
        /\ clientsByPlayerId \in [Ids -> Fds \cup {0}]
    BY <2>1 DEF StreamInit, Remotes
  <2>4. /\ at \in 0 .. kMaxClients + 1 /\ last \in 0 .. kMaxClients
        /\ socket \in Fds \cup {0} /\ chunk \in Seq({"JOIN", "LEAVE"})
    BY <2>1, StreamAssumption DEF StreamInit
  <2>5. players \subseteq Ids /\ inMatch \in BOOLEAN /\ readSet \subseteq Fds /\ toRemove \subseteq Fds
    BY DEF StreamInit
  <2>6. QED
    BY <2>2, <2>3, <2>4, <2>5 DEF StreamTypeOK, Remotes
<1>2. LoopOK /\ EndedAreDown /\ PlayersHeld
  BY DEF StreamInit, LoopOK, EndedAreDown, PlayersHeld
<1>3. clientSockets = <<>>
  BY DEF StreamInit, clientSockets
<1>4. ListOK
  BY <1>3 DEF ListOK, Distinct, Listed, ToSet, Opened, StreamInit
<1>5. QED
  BY <1>1, <1>2, <1>4 DEF PollInv

(* A client changes only what is unread, and whether its end is up.           *)
LEMMA ClientsKeepInv ==
    ASSUME PollInv, NEW fd \in Fds,
           \/ \E packet \in {"JOIN", "LEAVE"} : ClientSends(fd, packet)
           \/ ClientCloses(fd) \/ ConnectionResets(fd)
    PROVE  PollInv'
<1>1. UNCHANGED <<listVars, regVars, roomVars, loopVars>>
  BY DEF ClientSends, ClientCloses, ConnectionResets
<1>2. /\ remote' \in [Fds -> Remotes]
      /\ \A g \in Fds : /\ remote'[g] = "none" <=> remote[g] = "none"
                        /\ remote'[g] = "killed" <=> remote[g] = "killed"
                        /\ remote'[g] = "up" => remote[g] = "up"
  BY DEF ClientSends, ClientCloses, ConnectionResets, PollInv, StreamTypeOK, Remotes
<1>3. inbox' \in [Fds -> Seq({"JOIN", "LEAVE"})]
  <2>1. inbox \in [Fds -> Seq({"JOIN", "LEAVE"})]
    BY DEF PollInv, StreamTypeOK
  <2>2. CASE inbox' = inbox
    BY <2>1, <2>2
  <2>3. CASE \E packet \in {"JOIN", "LEAVE"} : inbox' = [inbox EXCEPT ![fd] = Append(@, packet)]
    BY <2>1, <2>3, AppendProperties
  <2>4. QED
    BY <2>2, <2>3 DEF ClientSends, ClientCloses, ConnectionResets
<1>4. StreamTypeOK'
  BY <1>1, <1>2, <1>3 DEF PollInv, StreamTypeOK, Remotes, listVars, regVars, roomVars, loopVars
<1>5. LoopOK' /\ EndedAreDown'
  BY <1>1, <1>2 DEF PollInv, LoopOK, EndedAreDown, StreamTypeOK, listVars, loopVars
<1>6. Alive' = Alive /\ Opened' = Opened /\ clientSockets' = clientSockets
  BY <1>1, <1>2 DEF Alive, Opened, clientSockets, listVars
<1>7. Alive => ListOK' /\ PlayersHeld'
  BY <1>1, <1>6 DEF PollInv, ListOK, PlayersHeld, Holds, Listed, regVars, roomVars, loopVars
<1>8. QED
  BY <1>4, <1>5, <1>6, <1>7 DEF PollInv

(* accept() has a free descriptor whenever the list is not full.             *)
LEMMA FreeDescriptor ==
    ASSUME StreamTypeOK, ListOK, size < kMaxClients
    PROVE  LowestFree \in Fds /\ LowestFree \notin Listed
<1>1. kMaxClients \in Nat /\ IsFiniteSet(Fds) /\ Cardinality(Fds) = kMaxClients
  BY StreamAssumption, FS_Interval DEF Fds
<1>2. Cardinality(Listed) <= size
  <2> DEFINE f == [i \in 1 .. size |-> clientSockets[i]]
  <2>1. f \in Surjection(1 .. size, Listed)
    BY ListIsSeq DEF Listed, ToSet, Surjection
  <2>2. IsFiniteSet(1 .. size) /\ Cardinality(1 .. size) = size
    BY ListIsSeq, FS_Interval
  <2> HIDE DEF f
  <2>3. QED
    BY <2>1, <2>2, FS_Surjection
<1>3. Fds \ Listed # {}
  <2> SUFFICES ASSUME Fds \subseteq Listed PROVE FALSE
    OBVIOUS
  <2>1. Listed = Fds
    BY ListIsSeq
  <2>2. QED
    BY <2>1, <1>1, <1>2, ListIsSeq
<1>4. Fds \ Opened \in SUBSET Nat
  BY DEF Fds
<1>5. LowestFree \in Fds \ Opened
  BY <1>3, <1>4, LeastOfNaturals DEF LowestFree, ListOK
<1>6. QED
  BY <1>5 DEF ListOK

(* A new descriptor on the list, if accept() returned one.                   *)
LEMMA AcceptKeepsList ==
    ASSUME StreamTypeOK, ListOK, size < kMaxClients,
           slots' = Append(clientSockets, LowestFree), size' = size + 1,
           remote' = [remote EXCEPT ![LowestFree] = "up"]
    PROVE  /\ slots' \in Seq(Fds) /\ Len(slots') = size'
           /\ remote' \in [Fds -> Remotes]
           /\ \A fd \in Fds : fd # LowestFree => remote'[fd] = remote[fd]
           /\ remote[LowestFree] = "none" /\ remote'[LowestFree] = "up"
           /\ ListOK'
<1> DEFINE new == LowestFree
<1>1. new \in Fds /\ new \notin Listed
  BY FreeDescriptor
<1>2. clientSockets \in Seq(Fds) /\ Len(clientSockets) = size /\ size \in Nat
  BY ListIsSeq
<1>3. /\ slots' \in Seq(Fds) /\ Len(slots') = size + 1
      /\ \A i \in 1 .. size : slots'[i] = clientSockets[i]
      /\ slots'[size + 1] = new
  BY <1>1, <1>2, AppendProperties
<1>4. clientSockets' = slots'
  BY <1>3, <1>2, SubSeqFull DEF clientSockets
<1>5. /\ remote' \in [Fds -> Remotes] /\ remote'[new] = "up"
      /\ \A fd \in Fds : fd # new => remote'[fd] = remote[fd]
  BY <1>1 DEF StreamTypeOK, Remotes
<1>6. remote[new] = "none"
  BY <1>1 DEF ListOK, Opened
<1> HIDE DEF new
<1>7. Opened' = Opened \cup {new}
  BY <1>1, <1>5 DEF Opened
<1>8. \A i \in 1 .. size : clientSockets[i] \in Listed
  BY ListIsSeq DEF Listed, ToSet
<1>9. Listed' = Listed \cup {new}
  <2>1. Listed' = {slots'[i] : i \in 1 .. size + 1}
    BY <1>3, <1>4 DEF Listed, ToSet
  <2>2. Listed = {clientSockets[i] : i \in 1 .. size}
    BY ListIsSeq DEF Listed, ToSet
  <2>3. 1 .. size + 1 = (1 .. size) \cup {size + 1}
    BY <1>2
  <2>4. QED
    BY <2>1, <2>2, <2>3, <1>3
<1>10. Distinct(clientSockets')
  <2>1. \A i, j \in 1 .. size : clientSockets[i] = clientSockets[j] => i = j
    BY ListIsSeq DEF ListOK, Distinct
  <2>2. \A i \in 1 .. size : slots'[i] # new
    BY <1>1, <1>3, <1>8 DEF new
  <2>3. \A i \in 1 .. size + 1 : i \in 1 .. size \/ i = size + 1
    BY <1>2
  <2>4. DOMAIN slots' = 1 .. size + 1
    BY <1>3
  <2>5. QED
    BY <2>1, <2>2, <2>3, <2>4, <1>3, <1>4 DEF Distinct
<1>11. ListOK'
  BY <1>7, <1>9, <1>10 DEF ListOK
<1>12. QED
  BY <1>3, <1>5, <1>6, <1>11 DEF new

(* What a step finds while the loop is at a socket.                          *)
LEMMA AtASocket ==
    ASSUME PollInv, at \in 1 .. last \/ chunk # <<>>
    PROVE  /\ at \in 1 .. last /\ socket \in Fds
           /\ last \in Nat /\ last <= Len(slots) /\ Len(slots) \in Nat
           /\ SubSeq(slots, 1, last) \in Seq(Fds) /\ Len(SubSeq(slots, 1, last)) = last
<1>1. /\ slots \in Seq(Fds) /\ Len(slots) \in Nat /\ last \in 0 .. kMaxClients
      /\ last <= Len(slots)
  BY DEF PollInv, StreamTypeOK, LoopOK
<1>2. at \in 1 .. last /\ socket \in Fds
  BY <1>1, StreamAssumption DEF PollInv, LoopOK
<1>3. SubSeq(slots, 1, last) \in Seq(Fds) /\ Len(SubSeq(slots, 1, last)) = last
  BY <1>1, SubSeqProperties
<1>4. QED
  BY <1>1, <1>2, <1>3

(* What Advance leaves of the loop.                                         *)
LEMMA Advances ==
    ASSUME PollInv, at \in 1 .. last, Advance, slots' = slots, last' = last,
           chunk = <<>>, chunk' = chunk
    PROVE  /\ at' \in 0 .. kMaxClients + 1 /\ socket' \in Fds \cup {0}
           /\ LoopOK'
<1>1. /\ at \in Nat /\ SubSeq(slots, 1, last) \in Seq(Fds)
      /\ Len(SubSeq(slots, 1, last)) = last /\ last <= Len(slots)
      /\ last \in Nat
  BY AtASocket
<1>2. last <= kMaxClients /\ kMaxClients \in Nat
  BY StreamAssumption DEF PollInv, StreamTypeOK
<1>3. \/ at' = kMaxClients + 1 /\ socket' = 0
      \/ at' \in 1 .. last /\ socket' \in Fds
  <2>1. at + 1 \in Nat \ {0} /\ GoOn(at + 1, SubSeq(slots, 1, last), readSet)
    BY <1>1 DEF Advance
  <2>2. QED
    BY <2>1, <1>1, GoesOn
<1>4. QED
  BY <1>1, <1>2, <1>3 DEF LoopOK

LEMMA PollStartKeepsInv ==
    ASSUME PollInv, NEW accepts \in BOOLEAN, PollStart(accepts)
    PROVE  PollInv'
<1>1. /\ Alive /\ at = 0 /\ StreamTypeOK /\ LoopOK /\ EndedAreDown
      /\ ListOK /\ PlayersHeld
  BY DEF PollStart, PollInv
<1>2. socket = 0 /\ chunk = <<>> /\ toRemove = {}
  BY <1>1, StreamAssumption DEF LoopOK
<1>3. UNCHANGED <<regVars, roomVars, chunk, toRemove>> /\ last' = size'
  BY DEF PollStart
<1>4. /\ slots' \in Seq(Fds) /\ size' \in 0 .. Len(slots') /\ Len(slots') <= kMaxClients
      /\ size <= size' /\ size' <= kMaxClients
      /\ remote' \in [Fds -> Remotes] /\ inbox' \in [Fds -> Seq({"JOIN", "LEAVE"})]
      /\ ListOK'
      /\ \A fd \in Opened : remote'[fd] = remote[fd]
  <2>1. CASE accepts
    <3>1. /\ size < kMaxClients /\ size' = size + 1
          /\ slots' = Append(clientSockets, LowestFree)
          /\ remote' = [remote EXCEPT ![LowestFree] = "up"]
          /\ inbox' = [inbox EXCEPT ![LowestFree] = <<>>]
      BY <2>1 DEF PollStart
    <3>2. /\ slots' \in Seq(Fds) /\ Len(slots') = size'
          /\ remote' \in [Fds -> Remotes] /\ ListOK'
          /\ \A fd \in Fds : fd # LowestFree => remote'[fd] = remote[fd]
          /\ remote[LowestFree] = "none"
      BY <1>1, <3>1, AcceptKeepsList
    <3>3. inbox' \in [Fds -> Seq({"JOIN", "LEAVE"})]
      <4>1. <<>> \in Seq({"JOIN", "LEAVE"})
        BY EmptySeq
      <4>2. QED
        BY <1>1, <3>1, <4>1 DEF StreamTypeOK
    <3>4. size \in Nat /\ kMaxClients \in Nat
      BY <1>1, ListIsSeq, StreamAssumption
    <3>5. \A fd \in Opened : fd \in Fds /\ fd # LowestFree
      BY <3>2 DEF Opened
    <3>6. QED
      BY <3>1, <3>2, <3>3, <3>4, <3>5
  <2>2. CASE ~accepts
    <3>1. UNCHANGED <<slots, size, remote, inbox>>
      BY <2>2 DEF PollStart, listVars
    <3>2. ListOK'
      BY <1>1, <3>1 DEF ListOK, Listed, clientSockets, Opened
    <3>3. size <= kMaxClients /\ size <= size
      BY <1>1, StreamAssumption DEF StreamTypeOK
    <3>4. QED
      BY <1>1, <3>1, <3>2, <3>3 DEF StreamTypeOK, Remotes
  <2>3. QED
    BY <2>1, <2>2
<1>5. \/ at' = kMaxClients + 1 /\ socket' = 0
      \/ at' \in 1 .. size /\ socket' \in Fds
  <2>1. GoOn(1, clientSockets, readSet') /\ 1 \in Nat \ {0}
    BY DEF PollStart
  <2>2. QED
    BY <1>1, <2>1, GoesOn, ListIsSeq
<1>6. LoopOK' /\ at' \in 0 .. kMaxClients + 1 /\ socket' \in Fds \cup {0} /\ last' \in 0 .. kMaxClients
  BY <1>1, <1>2, <1>3, <1>4, <1>5, ListIsSeq, StreamAssumption DEF LoopOK
<1>7. readSet' \subseteq Fds
  BY <1>1, ListIsSeq DEF PollStart
<1>8. StreamTypeOK'
  BY <1>1, <1>3, <1>4, <1>6, <1>7 DEF StreamTypeOK, Remotes, regVars, roomVars
<1>9. EndedAreDown'
  BY <1>2, <1>3 DEF EndedAreDown
<1>10. PlayersHeld'
  <2> SUFFICES ASSUME NEW id \in players PROVE \E fd \in Fds : Holds(fd, id)'
    BY <1>3 DEF PlayersHeld, roomVars
  <2>1. PICK fd \in Fds : Holds(fd, id)
    BY <1>1 DEF PlayersHeld
  <2>2. playerIdByPeer[fd] = id /\ fd \in Opened /\ fd \notin toRemove
    BY <2>1, <1>2 DEF Holds, Fds
  <2>3. fd \in Opened'
    BY <2>2, <1>4 DEF Opened
  <2>4. QED
    BY <2>2, <2>3, <1>3 DEF Holds, regVars
<1>11. QED
  BY <1>4, <1>6, <1>8, <1>9, <1>10 DEF PollInv

\* recv() would block: the socket is up, so it was not found ended.
LEMMA PollSkipKeepsInv ==
    ASSUME PollInv, PollSkip
    PROVE  PollInv'
<1>1. /\ Alive /\ at \in 1 .. last /\ chunk = <<>> /\ remote[socket] = "up" /\ Advance
      /\ UNCHANGED <<remote, inbox, listVars, regVars, roomVars, last, readSet, chunk, toRemove>>
  BY DEF PollSkip, Scanning
<1>2. socket \in Opened \ toRemove
  BY <1>1, AtASocket DEF PollInv, EndedAreDown, Opened
<1>3. LoopOK' /\ at' \in 0 .. kMaxClients + 1 /\ socket' \in Fds \cup {0}
  BY <1>1, Advances DEF listVars
<1>4. StreamTypeOK'
  BY <1>1, <1>3 DEF PollInv, StreamTypeOK, listVars, regVars, roomVars
<1>5. EndedAreDown' /\ Alive' /\ ListOK'
  BY <1>1 DEF PollInv, EndedAreDown, Alive, ListOK, Listed, clientSockets, Opened, listVars
<1>6. PlayersHeld'
  <2>1. Opened' = Opened
    BY <1>1 DEF Opened
  <2>2. ASSUME NEW id, NEW fd \in Fds, Holds(fd, id) PROVE Holds(fd, id)'
    BY <1>1, <1>2, <2>1, <2>2 DEF Holds, regVars
  <2>3. QED
    BY <1>1, <2>2 DEF PollInv, PlayersHeld, roomVars
<1>7. QED
  BY <1>3, <1>4, <1>5, <1>6 DEF PollInv

LEMMA PollReadKeepsInv ==
    ASSUME PollInv, PollRead
    PROVE  PollInv'
<1>1. /\ Alive /\ at \in 1 .. last /\ socket \in Fds
      /\ UNCHANGED <<remote, listVars, regVars, roomVars, at, socket, last, readSet, toRemove>>
  BY AtASocket DEF PollRead, Scanning
<1>2. chunk' \in Seq({"JOIN", "LEAVE"}) /\ inbox' \in [Fds -> Seq({"JOIN", "LEAVE"})]
  <2>1. inbox \in [Fds -> Seq({"JOIN", "LEAVE"})] /\ inbox[socket] \in Seq({"JOIN", "LEAVE"})
    BY <1>1 DEF PollInv, StreamTypeOK
  <2> DEFINE unread == inbox[socket]
  <2>2. PICK n \in 1 .. Len(unread) :
            /\ chunk' = SubSeq(unread, 1, n)
            /\ inbox' = [inbox EXCEPT ![socket] = SubSeq(unread, n + 1, Len(unread))]
    BY <1>1, <2>1 DEF PollRead
  <2> HIDE DEF unread
  <2>3. Len(unread) \in Nat /\ unread \in Seq({"JOIN", "LEAVE"})
    BY <2>1 DEF unread
  <2>4. /\ SubSeq(unread, 1, n) \in Seq({"JOIN", "LEAVE"})
        /\ SubSeq(unread, n + 1, Len(unread)) \in Seq({"JOIN", "LEAVE"})
    BY <2>3, SubSeqProperties
  <2>5. QED
    BY <2>1, <2>2, <2>4
<1>3. StreamTypeOK' /\ LoopOK'
  BY <1>1, <1>2 DEF PollInv, StreamTypeOK, LoopOK, listVars, regVars, roomVars
<1>4. EndedAreDown' /\ Alive' /\ ListOK' /\ PlayersHeld'
  BY <1>1 DEF PollInv, EndedAreDown, Alive, ListOK, Listed, clientSockets, Opened, PlayersHeld,
              Holds, listVars, regVars, roomVars
<1>5. QED
  BY <1>3, <1>4 DEF PollInv

LEMMA HandleIgnoredKeepsInv ==
    ASSUME PollInv, HandleIgnored
    PROVE  PollInv'
<1>1. /\ Alive /\ chunk # <<>> /\ chunk' = Tail(chunk) /\ at \in 1 .. last /\ socket \in Fds
      /\ UNCHANGED <<remote, inbox, listVars, regVars, roomVars, at, socket, last, readSet, toRemove>>
  BY AtASocket DEF HandleIgnored
<1>2. chunk' \in Seq({"JOIN", "LEAVE"})
  BY <1>1, HeadTailProperties DEF PollInv, StreamTypeOK
<1>3. StreamTypeOK' /\ LoopOK'
  BY <1>1, <1>2 DEF PollInv, StreamTypeOK, LoopOK, listVars, regVars, roomVars
<1>4. EndedAreDown' /\ Alive' /\ ListOK' /\ PlayersHeld'
  BY <1>1 DEF PollInv, EndedAreDown, Alive, ListOK, Listed, clientSockets, Opened, PlayersHeld,
              Holds, listVars, regVars, roomVars
<1>5. QED
  BY <1>3, <1>4 DEF PollInv

(* unregisterPeer() and registerPeer() keep their maps maps.                 *)
LEMMA RegistryTypes ==
    ASSUME PollInv, NEW fd \in Fds
    PROVE  /\ WithoutPeer(fd) \in [Ids -> Fds \cup {0}]
           /\ [playerIdByPeer EXCEPT ![fd] = NoId] \in [Fds -> Ids \cup {NoId}]
           /\ Registered(fd) => playerIdByPeer[fd] \in Ids
           /\ \A id \in Ids : playerIdByPeer[fd] = id => Registered(fd)
  BY StreamAssumption DEF PollInv, StreamTypeOK, WithoutPeer, Registered, NoId

\* The end of a connection frees the slot of the socket, and no other's.
LEMMA PollEndedKeepsInv ==
    ASSUME PollInv, PollEnded
    PROVE  PollInv'
<1>1. /\ Alive /\ at \in 1 .. last /\ chunk = <<>> /\ remote[socket] # "up" /\ Advance
      /\ UNCHANGED <<inbox, listVars, last, readSet, chunk>>
      /\ clientsByPlayerId' = WithoutPeer(socket)
      /\ playerIdByPeer' = [playerIdByPeer EXCEPT ![socket] = NoId]
      /\ toRemove' = toRemove \cup {socket}
      /\ socket \in Fds
  BY AtASocket DEF PollEnded, Scanning
<1>2. /\ remote' \in [Fds -> Remotes]
      /\ \A fd \in Fds : /\ remote'[fd] = "none" <=> remote[fd] = "none"
                         /\ remote'[fd] = "up" <=> remote[fd] = "up"
  <2> DEFINE told == [remote EXCEPT ![socket] = IF @ = "aborted" THEN "dead" ELSE @]
  <2>1. /\ told \in [Fds -> Remotes]
        /\ \A fd \in Fds : /\ told[fd] = "none" <=> remote[fd] = "none"
                           /\ told[fd] = "up" <=> remote[fd] = "up"
    BY <1>1 DEF PollInv, StreamTypeOK, Remotes
  <2> DEFINE n == EndBroadcasts(inMatch')
  <2>2. remote' = told \/ remote' \in SendEach(told, BroadcastTimes(clientsByPlayerId, n))
    BY DEF PollEnded
  <2> HIDE DEF told, n
  <2>3. CASE remote' = told
    BY <2>1, <2>3
  <2>4. CASE remote' \in SendEach(told, BroadcastTimes(clientsByPlayerId, n))
    <3>1. /\ remote' \in [Fds -> Remotes]
          /\ \A fd \in Fds : /\ remote'[fd] = "none" <=> told[fd] = "none"
                             /\ remote'[fd] = "up" <=> told[fd] = "up"
      BY <2>1, <2>4, SendsKeep
    <3>2. QED
      BY <2>1, <3>1
  <2>5. QED
    BY <2>2, <2>3, <2>4
<1>3. /\ players' \subseteq players /\ playerIdByPeer[socket] \notin players' \cap Ids
      /\ inMatch' \in BOOLEAN
  BY <1>1, RegistryTypes, StreamAssumption
     DEF PollEnded, RemovePlayer, roomVars, Registered, NoId, PollInv, StreamTypeOK
<1>4. LoopOK' /\ at' \in 0 .. kMaxClients + 1 /\ socket' \in Fds \cup {0}
  BY <1>1, Advances DEF listVars
<1>5. StreamTypeOK'
  BY <1>1, <1>2, <1>3, <1>4, RegistryTypes DEF PollInv, StreamTypeOK, listVars, Remotes
<1>6. EndedAreDown'
  BY <1>1, <1>2 DEF PollInv, EndedAreDown, StreamTypeOK
<1>7. Opened' = Opened
  BY <1>2 DEF Opened
<1>8. ListOK'
  BY <1>1, <1>7 DEF PollInv, ListOK, Listed, clientSockets, listVars
<1>9. PlayersHeld'
  <2> SUFFICES ASSUME NEW id \in players' PROVE \E fd \in Fds : Holds(fd, id)'
    BY DEF PlayersHeld
  <2>1. id \in players /\ id \in Ids
    BY <1>3 DEF PollInv, StreamTypeOK
  <2>2. PICK fd \in Fds : Holds(fd, id)
    BY <1>1, <2>1 DEF PollInv, PlayersHeld
  <2>3. fd # socket
    BY <1>3, <2>1, <2>2 DEF Holds
  <2>4. playerIdByPeer'[fd] = id /\ fd \in Opened' \ toRemove'
    BY <1>1, <1>7, <2>2, <2>3 DEF Holds, PollInv, StreamTypeOK
  <2>5. QED
    BY <2>4 DEF Holds
<1>10. QED
  BY <1>4, <1>5, <1>6, <1>8, <1>9 DEF PollInv

(* C_JOIN: the new slot is held by the socket the loop is at, closed or not.  *)
LEMMA HandleJoinKeepsInv ==
    ASSUME PollInv, HandleJoin
    PROVE  PollInv'
<1> DEFINE id == LowestId
           times == [BroadcastTimes(clientsByPlayerId', 1) EXCEPT ![socket] = @ + 1]
<1>1. /\ Alive /\ chunk # <<>> /\ at \in 1 .. last /\ socket \in Fds
      /\ chunk' = Tail(chunk) /\ ~Registered(socket) /\ FreeIds # {}
      /\ players' = players \cup {id}
      /\ playerIdByPeer' = [playerIdByPeer EXCEPT ![socket] = id]
      /\ clientsByPlayerId' = [clientsByPlayerId EXCEPT ![id] = socket]
      /\ remote' \in SendEach(remote, times)
      /\ UNCHANGED <<inMatch, inbox, listVars, at, socket, last, readSet, toRemove>>
  BY AtASocket DEF HandleJoin, Handling
<1>2. id \in FreeIds /\ id \in Ids
  <2>1. FreeIds \in SUBSET Nat /\ FreeIds \subseteq Ids
    BY StreamAssumption DEF FreeIds
  <2>2. QED
    BY <1>1, <2>1, LeastOfNaturals DEF LowestId
<1>3. chunk' \in Seq({"JOIN", "LEAVE"})
  BY <1>1, HeadTailProperties DEF PollInv, StreamTypeOK
<1> HIDE DEF id, times
<1>4. /\ remote' \in [Fds -> Remotes]
      /\ \A fd \in Fds : /\ remote'[fd] = "none" <=> remote[fd] = "none"
                         /\ remote'[fd] = "up" <=> remote[fd] = "up"
  <2>1. remote \in [Fds -> Remotes]
    BY DEF PollInv, StreamTypeOK, Remotes
  <2>2. QED
    BY <1>1, <2>1, SendsKeep
<1>5. StreamTypeOK' /\ LoopOK' /\ EndedAreDown'
  <2>1. StreamTypeOK'
    BY <1>1, <1>2, <1>3, <1>4 DEF PollInv, StreamTypeOK, listVars, Remotes
  <2>2. LoopOK'
    BY <1>1 DEF PollInv, LoopOK, listVars
  <2>3. EndedAreDown'
    BY <1>1, <1>4 DEF PollInv, StreamTypeOK, EndedAreDown
  <2>4. QED
    BY <2>1, <2>2, <2>3
<1>6. Opened' = Opened
  BY <1>4 DEF Opened
<1>7. ListOK'
  BY <1>1, <1>6 DEF PollInv, ListOK, Listed, clientSockets, listVars
<1>8. PlayersHeld'
  <2> SUFFICES ASSUME NEW other \in players' PROVE \E fd \in Fds : Holds(fd, other)'
    BY DEF PlayersHeld
  <2>1. CASE other = id
    <3>1. playerIdByPeer'[socket] = other /\ socket' = socket
      BY <1>1, <2>1 DEF PollInv, StreamTypeOK
    <3>2. QED
      BY <1>1, <3>1 DEF Holds
  <2>2. CASE other \in players
    <3>1. PICK fd \in Fds : Holds(fd, other)
      BY <1>1, <2>2 DEF PollInv, PlayersHeld
    <3>2. fd # socket
      BY <1>1, <2>2, <3>1, RegistryTypes DEF Holds, PollInv, StreamTypeOK
    <3>3. QED
      BY <1>1, <1>6, <3>1, <3>2 DEF Holds, PollInv, StreamTypeOK
  <2>3. QED
    BY <1>1, <2>1, <2>2
<1>9. QED
  BY <1>5, <1>7, <1>8 DEF PollInv

(* What closing and erasing the socket of the loop leaves, if the server      *)
(* survives the sends that go with it.                                     *)
LEMMA ClosingTheSocket ==
    ASSUME PollInv, socket \in Fds, SetList(Erase(socket, List)),
           remote' \in [Fds -> Remotes],
           \A fd \in Fds : fd # socket => /\ remote'[fd] = "none" <=> remote[fd] = "none"
                                          /\ remote'[fd] = "up" <=> remote[fd] = "up",
           remote'[socket] # "up", Alive' => remote'[socket] = "none",
           inbox' = [inbox EXCEPT ![socket] = <<>>],
           chunk # <<>>, chunk' = Tail(chunk),
           UNCHANGED <<at, socket, last, readSet, toRemove>>, Alive
    PROVE  /\ slots' \in Seq(Fds) /\ size' \in 0 .. Len(slots') /\ Len(slots') <= kMaxClients
           /\ inbox' \in [Fds -> Seq({"JOIN", "LEAVE"})] /\ chunk' \in Seq({"JOIN", "LEAVE"})
           /\ LoopOK' /\ EndedAreDown'
           /\ Alive' => ListOK' /\ Opened' = Opened \ {socket}
<1>1. /\ slots' \in Seq(Fds) /\ Len(slots') = Len(slots) /\ size' \in 0 .. Len(slots')
      /\ Listed' = Listed \ {socket}
      /\ Distinct(clientSockets) => Distinct(clientSockets')
  BY EraseTakesOff DEF PollInv
<1>2. Len(slots) <= kMaxClients
  BY DEF PollInv, StreamTypeOK
<1>3. inbox' \in [Fds -> Seq({"JOIN", "LEAVE"})] /\ chunk' \in Seq({"JOIN", "LEAVE"})
  <2>1. <<>> \in Seq({"JOIN", "LEAVE"})
    BY EmptySeq
  <2>2. QED
    BY <2>1, HeadTailProperties DEF PollInv, StreamTypeOK
<1>4. LoopOK'
  <2>1. at \in 1 .. last /\ socket \in Fds /\ last <= Len(slots)
    BY AtASocket
  <2>2. QED
    BY <1>1, <2>1 DEF LoopOK
<1>5. EndedAreDown'
  <2> SUFFICES ASSUME NEW fd \in toRemove PROVE remote'[fd] # "up"
    BY DEF EndedAreDown
  <2>1. fd \in Fds /\ remote[fd] # "up"
    BY DEF PollInv, EndedAreDown, StreamTypeOK
  <2>2. QED
    BY <2>1
<1>6. Alive' => Opened' = Opened \ {socket}
  <2>1. \A fd \in Fds : fd # socket => (remote'[fd] = "none" <=> remote[fd] = "none")
    OBVIOUS
  <2>2. QED
    BY <2>1 DEF Opened
<1>7. Alive' => ListOK'
  BY <1>1, <1>6 DEF PollInv, ListOK
<1>8. QED
  BY <1>1, <1>2, <1>3, <1>4, <1>5, <1>6, <1>7

LEMMA HandleJoinRefusedKeepsInv ==
    ASSUME PollInv, HandleJoinRefused
    PROVE  PollInv'
<1>1. /\ Alive /\ chunk # <<>> /\ socket \in Fds /\ ~Registered(socket)
      /\ inbox' = [inbox EXCEPT ![socket] = <<>>]
      /\ SetList(Erase(socket, List)) /\ chunk' = Tail(chunk)
      /\ UNCHANGED <<regVars, roomVars, at, socket, last, readSet, toRemove>>
  BY AtASocket DEF HandleJoinRefused, Handling
<1>2. PICK r \in AfterSend(remote[socket]) :
          remote' = [remote EXCEPT ![socket] = IF r = "killed" THEN r ELSE "none"]
  BY DEF HandleJoinRefused
<1>3. /\ remote' \in [Fds -> Remotes] /\ remote'[socket] \in {"killed", "none"}
      /\ \A fd \in Fds : fd # socket => remote'[fd] = remote[fd]
  BY <1>1, <1>2 DEF PollInv, StreamTypeOK, Remotes
<1>4. Alive' => remote'[socket] = "none"
  BY <1>1, <1>3 DEF Alive
<1>5. /\ slots' \in Seq(Fds) /\ size' \in 0 .. Len(slots') /\ Len(slots') <= kMaxClients
      /\ inbox' \in [Fds -> Seq({"JOIN", "LEAVE"})] /\ chunk' \in Seq({"JOIN", "LEAVE"})
      /\ LoopOK' /\ EndedAreDown'
      /\ Alive' => ListOK' /\ Opened' = Opened \ {socket}
  BY <1>1, <1>3, <1>4, ClosingTheSocket DEF roomVars
<1>6. StreamTypeOK'
  BY <1>1, <1>3, <1>5 DEF PollInv, StreamTypeOK, Remotes, regVars, roomVars
<1>7. Alive' => PlayersHeld'
  <2> SUFFICES ASSUME Alive', NEW id \in players PROVE \E fd \in Fds : Holds(fd, id)'
    BY <1>1 DEF PlayersHeld, roomVars
  <2>1. PICK fd \in Fds : Holds(fd, id)
    BY <1>1 DEF PollInv, PlayersHeld
  <2>2. fd # socket
    BY <1>1, <2>1, RegistryTypes DEF Holds, PollInv, StreamTypeOK
  <2>3. QED
    BY <1>1, <1>5, <2>1, <2>2 DEF Holds, regVars
<1>8. QED
  BY <1>5, <1>6, <1>7 DEF PollInv

LEMMA HandleLeaveKeepsInv ==
    ASSUME PollInv, HandleLeave
    PROVE  PollInv'
<1>1. /\ Alive /\ chunk # <<>> /\ socket \in Fds /\ Registered(socket)
      /\ players' = players \ {playerIdByPeer[socket]} /\ inMatch' \in BOOLEAN
      /\ clientsByPlayerId' = WithoutPeer(socket)
      /\ playerIdByPeer' = [playerIdByPeer EXCEPT ![socket] = NoId]
      /\ inbox' = [inbox EXCEPT ![socket] = <<>>]
      /\ SetList(Erase(socket, List)) /\ chunk' = Tail(chunk)
      /\ UNCHANGED <<at, socket, last, readSet, toRemove>>
      /\ remote' \in SendEach(Closed(remote, socket),
                            BroadcastTimes(clientsByPlayerId', EndBroadcasts(inMatch')))
  BY AtASocket DEF HandleLeave, Handling, RemovePlayer
<1>2. /\ remote' \in [Fds -> Remotes] /\ remote'[socket] = "none"
      /\ \A fd \in Fds : fd # socket => /\ remote'[fd] = "none" <=> remote[fd] = "none"
                                        /\ remote'[fd] = "up" <=> remote[fd] = "up"
  <2> DEFINE kernel == Closed(remote, socket)
  <2>1. /\ kernel \in [Fds -> Remotes] /\ kernel[socket] = "none"
        /\ \A fd \in Fds : fd # socket => kernel[fd] = remote[fd]
    BY <1>1 DEF Closed, PollInv, StreamTypeOK, Remotes
  <2>2. remote' \in SendEach(kernel, BroadcastTimes(clientsByPlayerId', EndBroadcasts(inMatch')))
    BY <1>1
  <2> HIDE DEF kernel
  <2>3. /\ remote' \in [Fds -> Remotes]
        /\ \A fd \in Fds : /\ remote'[fd] = "none" <=> kernel[fd] = "none"
                           /\ remote'[fd] = "up" <=> kernel[fd] = "up"
    BY <2>1, <2>2, SendsKeep
  <2>4. QED
    BY <1>1, <2>1, <2>3
<1>3. /\ slots' \in Seq(Fds) /\ size' \in 0 .. Len(slots') /\ Len(slots') <= kMaxClients
      /\ inbox' \in [Fds -> Seq({"JOIN", "LEAVE"})] /\ chunk' \in Seq({"JOIN", "LEAVE"})
      /\ LoopOK' /\ EndedAreDown'
      /\ Alive' => ListOK' /\ Opened' = Opened \ {socket}
  BY <1>1, <1>2, ClosingTheSocket
<1>4. StreamTypeOK'
  BY <1>1, <1>2, <1>3, RegistryTypes DEF PollInv, StreamTypeOK, Remotes
<1>5. Alive' => PlayersHeld'
  <2> SUFFICES ASSUME Alive', NEW id \in players' PROVE \E fd \in Fds : Holds(fd, id)'
    BY DEF PlayersHeld
  <2>1. PICK fd \in Fds : Holds(fd, id)
    BY <1>1 DEF PollInv, PlayersHeld
  <2>2. fd # socket
    BY <1>1, <2>1 DEF Holds
  <2>3. QED
    BY <1>1, <1>3, <2>1, <2>2 DEF Holds, PollInv, StreamTypeOK
<1>6. QED
  BY <1>3, <1>4, <1>5 DEF PollInv

\* What was found ended is closed and erased; nobody has a slot by it.
LEMMA PollEndKeepsInv ==
    ASSUME PollInv, PollEnd
    PROVE  PollInv'
<1> DEFINE kept == Without(clientSockets, toRemove)
<1>1. /\ Alive /\ at > last /\ at > 0 /\ chunk = <<>>
      /\ slots' = kept /\ size' = Len(kept)
      /\ remote' = [fd \in Fds |-> IF fd \in toRemove THEN "none" ELSE remote[fd]]
      /\ at' = 0 /\ socket' = 0 /\ last' = 0 /\ readSet' = {} /\ toRemove' = {}
      /\ UNCHANGED <<inbox, regVars, roomVars, chunk>>
  BY DEF PollEnd
<1>2. socket = 0
  BY <1>1, StreamAssumption DEF PollInv, LoopOK, StreamTypeOK
<1>3. /\ kept \in Seq(Fds) /\ Len(kept) <= size /\ ToSet(kept) = Listed \ toRemove
      /\ Distinct(clientSockets) => Distinct(kept)
  BY ListIsSeq, WithoutProperties DEF PollInv, Listed
<1> HIDE DEF kept
<1>4. /\ Len(kept) \in Nat /\ Len(kept) <= kMaxClients /\ size' \in 0 .. Len(kept)
      /\ clientSockets' = kept
  <2>1. Len(kept) \in Nat /\ SubSeq(kept, 1, Len(kept)) = kept
    BY <1>3, SubSeqFull
  <2>2. size <= kMaxClients
    BY StreamAssumption DEF PollInv, StreamTypeOK
  <2>3. QED
    BY <1>1, <1>3, <2>1, <2>2, ListIsSeq, StreamAssumption DEF clientSockets, PollInv
<1>5. remote' \in [Fds -> Remotes]
  BY <1>1 DEF PollInv, StreamTypeOK, Remotes
<1>6. StreamTypeOK' /\ LoopOK' /\ EndedAreDown'
  <2>1. StreamTypeOK'
    BY <1>1, <1>3, <1>4, <1>5, StreamAssumption
       DEF PollInv, StreamTypeOK, Remotes, regVars, roomVars
  <2>2. LoopOK' /\ EndedAreDown'
    BY <1>1, <1>4 DEF LoopOK, EndedAreDown
  <2>3. QED
    BY <2>1, <2>2
<1>7. Opened' = Opened \ toRemove
  BY <1>1 DEF Opened
<1>8. ListOK'
  BY <1>1, <1>3, <1>4, <1>7 DEF PollInv, ListOK, Listed
<1>9. PlayersHeld'
  <2> SUFFICES ASSUME NEW id \in players PROVE \E fd \in Fds : Holds(fd, id)'
    BY <1>1 DEF PlayersHeld, roomVars
  <2>1. PICK fd \in Fds : Holds(fd, id)
    BY <1>1 DEF PollInv, PlayersHeld
  <2>2. playerIdByPeer[fd] = id /\ fd \in Opened \ toRemove
    BY <1>2, <2>1 DEF Holds, Fds
  <2>3. QED
    BY <1>1, <1>7, <2>2 DEF Holds, regVars
<1>10. QED
  BY <1>6, <1>8, <1>9 DEF PollInv

LEMMA TickKeepsInv ==
    ASSUME PollInv, NEW starts \in BOOLEAN, Tick(starts)
    PROVE  PollInv'
<1>1. /\ Alive /\ inMatch' \in BOOLEAN
      /\ UNCHANGED <<inbox, listVars, regVars, players, loopVars>>
      /\ remote' \in SendEach(remote, BroadcastTimes(clientsByPlayerId, 1))
  BY DEF Tick, PollInv, StreamTypeOK
<1>2. /\ remote' \in [Fds -> Remotes]
      /\ \A fd \in Fds : /\ remote'[fd] = "none" <=> remote[fd] = "none"
                         /\ remote'[fd] = "up" <=> remote[fd] = "up"
  <2>1. remote \in [Fds -> Remotes]
    BY DEF PollInv, StreamTypeOK, Remotes
  <2>2. QED
    BY <1>1, <2>1, SendsKeep
<1>3. StreamTypeOK' /\ LoopOK' /\ EndedAreDown'
  BY <1>1, <1>2 DEF PollInv, StreamTypeOK, LoopOK, EndedAreDown, Remotes, listVars, regVars, loopVars
<1>4. Opened' = Opened
  BY <1>2 DEF Opened
<1>5. ListOK' /\ PlayersHeld'
  BY <1>1, <1>4 DEF PollInv, ListOK, Listed, clientSockets, PlayersHeld, Holds, listVars, regVars, loopVars
<1>6. QED
  BY <1>3, <1>5 DEF PollInv

\* Everybody registered is closed and off the list, and the room is empty.
LEMMA KickKeepsInv ==
    ASSUME PollInv, Kick
    PROVE  PollInv'
<1> DEFINE kicked == {clientsByPlayerId[id] : id \in Ids} \ {0}
           kept == Without(clientSockets, kicked)
<1>1. PICK after \in SendEach(remote, BroadcastTimes(clientsByPlayerId, 2)) :
          remote' = [fd \in Fds |->
              IF fd \in kicked /\ after[fd] # "killed" THEN "none" ELSE after[fd]]
  BY DEF Kick
<1>2. /\ Alive /\ at = 0
      /\ inbox' = [fd \in Fds |-> IF fd \in kicked THEN <<>> ELSE inbox[fd]]
      /\ slots' = kept /\ size' = Len(kept)
      /\ players' = {} /\ inMatch' = FALSE /\ UNCHANGED <<regVars, loopVars>>
  BY DEF Kick
<1>3. /\ kept \in Seq(Fds) /\ Len(kept) <= size /\ ToSet(kept) = Listed \ kicked
      /\ Distinct(clientSockets) => Distinct(kept)
  BY ListIsSeq, WithoutProperties DEF PollInv, Listed
<1> HIDE DEF kept, kicked
<1>4. /\ Len(kept) \in Nat /\ Len(kept) <= kMaxClients /\ size' \in 0 .. Len(kept)
      /\ clientSockets' = kept
  <2>1. Len(kept) \in Nat /\ SubSeq(kept, 1, Len(kept)) = kept
    BY <1>3, SubSeqFull
  <2>2. size <= kMaxClients
    BY StreamAssumption DEF PollInv, StreamTypeOK
  <2>3. QED
    BY <1>2, <1>3, <2>1, <2>2, ListIsSeq, StreamAssumption DEF clientSockets, PollInv
<1>5. /\ after \in [Fds -> Remotes]
      /\ \A fd \in Fds : /\ after[fd] = "none" <=> remote[fd] = "none"
                         /\ after[fd] = "up" <=> remote[fd] = "up"
  <2>1. remote \in [Fds -> Remotes]
    BY DEF PollInv, StreamTypeOK, Remotes
  <2>2. QED
    BY <2>1, SendsKeep
<1>6. remote' \in [Fds -> Remotes] /\ inbox' \in [Fds -> Seq({"JOIN", "LEAVE"})]
  <2>1. <<>> \in Seq({"JOIN", "LEAVE"})
    BY EmptySeq
  <2>2. QED
    BY <1>1, <1>2, <1>5, <2>1 DEF PollInv, StreamTypeOK, Remotes
<1>7. /\ last = 0 /\ socket = 0 /\ chunk = <<>> /\ toRemove = {}
  BY <1>2, StreamAssumption DEF PollInv, LoopOK
<1>8. StreamTypeOK' /\ LoopOK' /\ EndedAreDown' /\ PlayersHeld'
  <2>1. StreamTypeOK'
    BY <1>2, <1>3, <1>4, <1>6 DEF PollInv, StreamTypeOK, Remotes, regVars, loopVars
  <2>2. LoopOK' /\ EndedAreDown' /\ PlayersHeld'
    BY <1>2, <1>4, <1>7 DEF LoopOK, EndedAreDown, PlayersHeld, loopVars
  <2>3. QED
    BY <2>1, <2>2
<1>9. Alive' => ListOK'
  <2> SUFFICES ASSUME Alive' PROVE ListOK'
    OBVIOUS
  <2>1. \A fd \in Fds : remote'[fd] = "none" <=> remote[fd] = "none" \/ fd \in kicked
    BY <1>1, <1>5 DEF Alive
  <2>2. Opened' = Opened \ kicked
    BY <2>1 DEF Opened
  <2>3. QED
    BY <1>2, <1>3, <1>4, <2>2 DEF PollInv, ListOK, Listed
<1>10. QED
  BY <1>8, <1>9 DEF PollInv

LEMMA StepKeepsInv == PollInv /\ [StreamNext]_streamVars => PollInv'
<1> SUFFICES ASSUME PollInv, [StreamNext]_streamVars PROVE PollInv'
  OBVIOUS
<1>1. CASE \E fd \in Fds : \/ \E packet \in {"JOIN", "LEAVE"} : ClientSends(fd, packet)
                         \/ ClientCloses(fd) \/ ConnectionResets(fd)
  BY <1>1, ClientsKeepInv
<1>2. CASE \E b \in BOOLEAN : PollStart(b) \/ Tick(b)
  BY <1>2, PollStartKeepsInv, TickKeepsInv
<1>3. CASE PollStep
  BY <1>3, PollSkipKeepsInv, PollReadKeepsInv, PollEndedKeepsInv, PollEndKeepsInv,
     HandleJoinKeepsInv, HandleJoinRefusedKeepsInv, HandleLeaveKeepsInv, HandleIgnoredKeepsInv
     DEF PollStep
<1>4. CASE Kick
  BY <1>4, KickKeepsInv
<1>5. CASE UNCHANGED streamVars
  BY <1>5 DEF streamVars, PollInv, StreamTypeOK, LoopOK, EndedAreDown, Alive, ListOK, Listed,
              clientSockets, Opened, PlayersHeld, Holds
<1>6. QED
  BY <1>1, <1>2, <1>3, <1>4, <1>5 DEF StreamNext

-----------------------------------------------------------------------------
(***************************************************************************)
(* The results.                                                            *)
(***************************************************************************)

(* NetStreamServer's list, its maps, the descriptors and the loop of poll()   *)
(* stay of their types, and while the server lives the list has the open      *)
(* descriptors, at every step of poll() too, and each player a connection.    *)
THEOREM PollInvariant == StreamSpec => []PollInv
<1>1. QED
  BY InitHolds, StepKeepsInv, PTL DEF StreamSpec

(* The state of NetStreamServer stays of its type.                           *)
THEOREM StreamTypeCorrect == StreamSpec => []StreamTypeOK
<1>1. PollInv => StreamTypeOK
  BY DEF PollInv
<1>2. QED
  BY <1>1, PollInvariant, PTL

(* Whatever handlers close and erase while poll() loops over the list, when    *)
(* it returns the list has each open descriptor once and nothing else.        *)
THEOREM ListHasTheOpenSockets == StreamSpec => []ListIsOpenSockets
<1>1. PollInv => ListIsOpenSockets
  <2> SUFFICES ASSUME PollInv, Alive, at = 0
               PROVE  Listed = Opened /\ Cardinality(Listed) = size
    BY DEF ListIsOpenSockets
  <2>1. ListOK /\ StreamTypeOK
    BY DEF PollInv
  <2> DEFINE f == [i \in 1 .. size |-> clientSockets[i]]
  <2>2. /\ \A i \in 1 .. size : f[i] = clientSockets[i]
        /\ DOMAIN clientSockets = 1 .. size
        /\ Listed = {clientSockets[i] : i \in 1 .. size}
    BY <2>1, ListIsSeq DEF Listed, ToSet
  <2>3. f \in [1 .. size -> Listed]
    BY <2>2
  <2>4. \A i, j \in 1 .. size : f[i] = f[j] => i = j
    BY <2>1, <2>2 DEF ListOK, Distinct
  <2>5. \A fd \in Listed : \E i \in 1 .. size : f[i] = fd
    BY <2>2
  <2> HIDE DEF f
  <2>6. f \in Bijection(1 .. size, Listed)
    BY <2>3, <2>4, <2>5 DEF Bijection, Injection, Surjection, IsInjective
  <2>7. IsFiniteSet(1 .. size) /\ Cardinality(1 .. size) = size
    BY <2>1, ListIsSeq, FS_Interval
  <2>8. Cardinality(Listed) = size
    BY <2>6, <2>7, FS_Bijection DEF ExistsBijection
  <2>9. QED
    BY <2>1, <2>8 DEF ListOK
<1>2. QED
  BY <1>1, PollInvariant, PTL

(* When poll() returns, everybody with a slot has a connection on the list    *)
(* that is registered for it: who left and joined in one read was found ended *)
(* before the loop went on.                                                *)
THEOREM NobodyIsOrphaned == StreamSpec => []NoOrphanPlayers
<1>1. PollInv => NoOrphanPlayers
  <2> SUFFICES ASSUME PollInv, Alive, at = 0, NEW id \in players
               PROVE  \E fd \in Listed : playerIdByPeer[fd] = id
    BY DEF NoOrphanPlayers
  <2>1. socket = 0 /\ ListOK /\ PlayersHeld
    BY StreamAssumption DEF PollInv, LoopOK
  <2>2. PICK fd \in Fds : Holds(fd, id)
    BY <2>1 DEF PlayersHeld
  <2>3. fd \in Listed /\ playerIdByPeer[fd] = id
    BY <2>1, <2>2 DEF Holds, ListOK, Fds
  <2>4. QED
    BY <2>3
<1>2. QED
  BY <1>1, PollInvariant, PTL
=============================================================================
